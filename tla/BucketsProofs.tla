---------------------------- MODULE BucketsProofs ----------------------------
(***************************************************************************)
(* What routing tables and lookups rely on, for identifiers of any length  *)
(* and tables of any size.  Every identifier has one bucket, the one of    *)
(* the first bit in which it differs from the node's own; distance to a    *)
(* target is a strict total order, by which the closest of a set are well  *)
(* defined; adding a contact keeps a bucket sound; and what                *)
(* FindClosestContacts returns is enough or all there is.                  *)
(***************************************************************************)
EXTENDS Buckets, WellFoundedInduction, SequenceTheorems, FiniteSetTheorems, TLAPS

\* A nonempty set of natural numbers has a least element.
LEMMA LeastNat ==
    ASSUME NEW T \in SUBSET Nat, T # {}
    PROVE  \E x \in T : \A y \in T : x <= y
<1>1. PICK x \in T : \A y \in T : ~(<<y, x>> \in OpToRel(<, Nat))
    BY NatLessThanWellFounded, WFMin
<1>2. ASSUME NEW y \in T
      PROVE  x <= y
    <2>1. ~(y < x)
        BY <1>1, <1>2 DEF OpToRel
    <2> QED
        BY <2>1
<1> QED
    BY <1>2

\* The distance of two identifiers is an identifier; its bits tell where the
\* two differ (KademliaID.CalcDistance).
LEMMA DistanceBits ==
    ASSUME NEW x \in KademliaIDs, NEW y \in KademliaIDs
    PROVE  /\ CalcDistance(x, y) \in KademliaIDs
           /\ \A i \in BucketIndices : CalcDistance(x, y)[i] = IF x[i] = y[i] THEN 0 ELSE 1
<1>1. ASSUME NEW i \in BucketIndices
      PROVE  /\ CalcDistance(x, y)[i] \in {0, 1}
             /\ CalcDistance(x, y)[i] = IF x[i] = y[i] THEN 0 ELSE 1
    <2>1. x[i] \in {0, 1} /\ y[i] \in {0, 1}
        BY DEF KademliaIDs
    <2>2. CalcDistance(x, y)[i] = (x[i] + y[i]) % 2
        BY DEF CalcDistance
    <2>3. 0 % 2 = 0 /\ 1 % 2 = 1 /\ 2 % 2 = 0
        OBVIOUS
    <2> QED
        BY <2>1, <2>2, <2>3
<1>2. CalcDistance(x, y) = [i \in BucketIndices |-> CalcDistance(x, y)[i]]
    BY DEF CalcDistance
<1> QED
    BY <1>1, <1>2 DEF KademliaIDs

(***************************************************************************)
(* GetBucketIndex returns a bucket of the table, the one of the first bit  *)
(* in which id and me differ; bits before it agree.                        *)
(***************************************************************************)
THEOREM BucketIndexIsFirstDifference ==
    ASSUME NEW me \in KademliaIDs, NEW id \in KademliaIDs
    PROVE  LET b == GetBucketIndex(me, id)
           IN  /\ b \in BucketIndices
               /\ id # me => id[b] # me[b]
               /\ \A j \in BucketIndices : j < b => id[j] = me[j]
<1> DEFINE distance == CalcDistance(id, me)
           First(i) == /\ distance[i] # 0
                       /\ \A j \in BucketIndices : j < i => distance[j] = 0
           D == {i \in BucketIndices : distance[i] # 0}
<1>1. \A i \in BucketIndices : distance[i] = 0 <=> id[i] = me[i]
    BY DistanceBits
<1>2. BucketIndices \subseteq Nat /\ Bits - 1 \in BucketIndices
    BY BitsAssumption DEF BucketIndices
<1>3. CASE D = {}
    <2>1. GetBucketIndex(me, id) = Bits - 1
        BY <1>3 DEF GetBucketIndex
    <2>2. \A i \in BucketIndices : id[i] = me[i]
        BY <1>1, <1>3
    <2>3. id = me
        BY <2>2 DEF KademliaIDs
    <2> QED
        BY <1>2, <2>1, <2>2, <2>3
<1>4. CASE D # {}
    <2>1. PICK i \in D : \A j \in D : i <= j
        BY <1>2, <1>4, LeastNat
    <2>2. First(i)
        BY <1>2, <2>1
    <2>3. GetBucketIndex(me, id) = CHOOSE k \in BucketIndices : First(k)
        BY <1>4 DEF GetBucketIndex
    <2>4. /\ GetBucketIndex(me, id) \in BucketIndices
          /\ First(GetBucketIndex(me, id))
        BY <2>1, <2>2, <2>3
    <2> QED
        BY <1>1, <2>4
<1> QED
    BY <1>3, <1>4

\* The bucket index is determined by where the identifiers first differ.
LEMMA BucketIndexUnique ==
    ASSUME NEW me \in KademliaIDs, NEW id \in KademliaIDs, NEW b \in BucketIndices,
           id[b] # me[b],
           \A j \in BucketIndices : j < b => id[j] = me[j]
    PROVE  GetBucketIndex(me, id) = b
<1>1. /\ GetBucketIndex(me, id) \in BucketIndices
      /\ id # me => id[GetBucketIndex(me, id)] # me[GetBucketIndex(me, id)]
      /\ \A j \in BucketIndices : j < GetBucketIndex(me, id) => id[j] = me[j]
    BY BucketIndexIsFirstDifference
<1>2. id # me
    OBVIOUS
<1>3. ~(b < GetBucketIndex(me, id)) /\ ~(GetBucketIndex(me, id) < b)
    BY <1>1, <1>2
<1>4. b \in Int /\ GetBucketIndex(me, id) \in Int
    BY <1>1, BitsAssumption DEF BucketIndices
<1> QED
    BY <1>3, <1>4

(***************************************************************************)
(* generateRandomIDForBucket(index) returns an identifier of that bucket:  *)
(* the lookup that refreshes a bucket is of an identifier that belongs in  *)
(* it.                                                                     *)
(***************************************************************************)
THEOREM RandomIDFallsInBucket ==
    ASSUME NEW me \in KademliaIDs, NEW index \in BucketIndices,
           NEW id \in RandomIDsForBucket(me, index)
    PROVE  GetBucketIndex(me, id) = index
<1>1. /\ id \in KademliaIDs
      /\ id[index] = 1 - me[index]
      /\ \A j \in BucketIndices : j < index => id[j] = me[j]
    BY DEF RandomIDsForBucket
<1>2. me[index] \in {0, 1}
    BY DEF KademliaIDs
<1>3. id[index] # me[index]
    BY <1>1, <1>2
<1> QED
    BY <1>1, <1>3, BucketIndexUnique

(***************************************************************************)
(* What makes a refresh head for the missing nodes: with an identifier of  *)
(* bucket b as the target, every identifier of bucket b is closer than any *)
(* of another bucket.                                                      *)
(***************************************************************************)
THEOREM OwnBucketIsClosest ==
    ASSUME NEW me \in KademliaIDs, NEW target \in KademliaIDs,
           NEW x \in KademliaIDs, NEW c \in KademliaIDs,
           target # me, x # me,
           GetBucketIndex(me, x) = GetBucketIndex(me, target),
           GetBucketIndex(me, c) # GetBucketIndex(me, target)
    PROVE  Closer(x, c, target)
<1> DEFINE b == GetBucketIndex(me, target)
           k == GetBucketIndex(me, c)
           dx == CalcDistance(x, target)
           dc == CalcDistance(c, target)
<1>1. /\ b \in BucketIndices
      /\ target[b] # me[b]
      /\ \A j \in BucketIndices : j < b => target[j] = me[j]
    BY BucketIndexIsFirstDifference
<1>2. /\ x[b] # me[b]
      /\ \A j \in BucketIndices : j < b => x[j] = me[j]
    BY BucketIndexIsFirstDifference
<1>3. /\ k \in BucketIndices
      /\ c # me => c[k] # me[k]
      /\ \A j \in BucketIndices : j < k => c[j] = me[j]
    BY BucketIndexIsFirstDifference
<1>4. x[b] \in {0, 1} /\ target[b] \in {0, 1} /\ me[b] \in {0, 1}
    BY <1>1 DEF KademliaIDs
<1>5. \A j \in BucketIndices : j <= b => dx[j] = 0
    <2> SUFFICES ASSUME NEW j \in BucketIndices, j <= b
                 PROVE  x[j] = target[j]
        BY DistanceBits
    <2>1. j < b \/ j = b
        BY <1>1, BitsAssumption DEF BucketIndices
    <2> QED
        BY <1>1, <1>2, <1>4, <2>1
<1>6. b \in Int /\ k \in Int /\ b # k
    BY <1>1, <1>3, BitsAssumption DEF BucketIndices
<1>7. CASE k < b
    \* c leaves the common prefix of x and target at bit k.
    <2>1. c # me
        <3>1. CASE c = me
            <4>1. k = Bits - 1
                <5>1. \A i \in BucketIndices : CalcDistance(c, me)[i] = 0
                    BY <3>1, DistanceBits
                <5> QED
                    BY <5>1 DEF GetBucketIndex
            <4> QED
                BY <4>1, <1>1, <1>7, BitsAssumption DEF BucketIndices
        <3> QED
            BY <3>1
    <2>2. dc[k] = 1
        BY <2>1, <1>1, <1>3, <1>7, DistanceBits
    <2>3. \A j \in BucketIndices : j < k => dc[j] = 0
        <3> SUFFICES ASSUME NEW j \in BucketIndices, j < k
                     PROVE  c[j] = target[j]
            BY DistanceBits
        <3>1. j < b
            BY <1>6, <1>7, BitsAssumption DEF BucketIndices
        <3> QED
            BY <1>1, <1>3, <3>1
    <2>4. \A j \in BucketIndices : j < k => dx[j] = dc[j]
        <3> SUFFICES ASSUME NEW j \in BucketIndices, j < k
                     PROVE  dx[j] = dc[j]
            OBVIOUS
        <3>1. j <= b
            BY <1>6, <1>7, BitsAssumption DEF BucketIndices
        <3> QED
            BY <2>3, <1>5, <3>1
    <2>5. dx[k] < dc[k]
        BY <2>2, <1>5, <1>3, <1>7, <1>6
    <2> QED
        BY <2>4, <2>5, <1>3 DEF Closer, Less
<1>8. CASE b < k
    \* c agrees with me, and so not with target, at bit b.
    <2>1. dc[b] = 1
        BY <1>1, <1>3, <1>8, DistanceBits
    <2>2. \A j \in BucketIndices : j < b => dx[j] = dc[j]
        <3> SUFFICES ASSUME NEW j \in BucketIndices, j < b
                     PROVE  dx[j] = dc[j]
            OBVIOUS
        <3>1. j < k /\ j <= b
            BY <1>6, <1>8, BitsAssumption DEF BucketIndices
        <3>2. c[j] = target[j]
            BY <1>1, <1>3, <3>1
        <3> QED
            BY <1>5, <3>1, <3>2, DistanceBits
    <2>3. dx[b] < dc[b]
        BY <2>1, <1>5, <1>1, <1>6
    <2> QED
        BY <2>2, <2>3, <1>1 DEF Closer, Less
<1> QED
    BY <1>6, <1>7, <1>8

-----------------------------------------------------------------------------
(* The order of contacts by distance, and the closest of a set.            *)

LEMMA LessIrreflexive ==
    ASSUME NEW x \in KademliaIDs
    PROVE  ~Less(x, x)
<1>1. \A i \in BucketIndices : x[i] \in Int
    BY DEF KademliaIDs
<1> QED
    BY <1>1 DEF Less

LEMMA LessTransitive ==
    ASSUME NEW x \in KademliaIDs, NEW y \in KademliaIDs, NEW z \in KademliaIDs,
           Less(x, y), Less(y, z)
    PROVE  Less(x, z)
<1>1. PICK i \in BucketIndices : x[i] < y[i] /\ \A j \in BucketIndices : j < i => x[j] = y[j]
    BY DEF Less
<1>2. PICK k \in BucketIndices : y[k] < z[k] /\ \A j \in BucketIndices : j < k => y[j] = z[j]
    BY DEF Less
<1>3. BucketIndices \subseteq Int /\ \A j \in BucketIndices : x[j] \in Int /\ y[j] \in Int /\ z[j] \in Int
    BY BitsAssumption DEF BucketIndices, KademliaIDs
<1>4. CASE i <= k
    <2>1. x[i] < z[i]
        BY <1>1, <1>2, <1>3, <1>4
    <2>2. \A j \in BucketIndices : j < i => x[j] = z[j]
        BY <1>1, <1>2, <1>3, <1>4
    <2> QED
        BY <2>1, <2>2 DEF Less
<1>5. CASE k < i
    <2>1. x[k] < z[k]
        BY <1>1, <1>2, <1>3, <1>5
    <2>2. \A j \in BucketIndices : j < k => x[j] = z[j]
        BY <1>1, <1>2, <1>3, <1>5
    <2> QED
        BY <2>1, <2>2 DEF Less
<1> QED
    BY <1>3, <1>4, <1>5

LEMMA LessTotal ==
    ASSUME NEW x \in KademliaIDs, NEW y \in KademliaIDs, x # y
    PROVE  Less(x, y) \/ Less(y, x)
<1> DEFINE D == {i \in BucketIndices : x[i] # y[i]}
<1>1. BucketIndices \subseteq Nat
    BY BitsAssumption DEF BucketIndices
<1>2. D # {}
    BY DEF KademliaIDs
<1>3. PICK i \in D : \A j \in D : i <= j
    BY <1>1, <1>2, LeastNat
<1>4. \A j \in BucketIndices : j < i => x[j] = y[j]
    BY <1>1, <1>3
<1>5. x[i] \in {0, 1} /\ y[i] \in {0, 1} /\ x[i] # y[i]
    BY DEF KademliaIDs
<1>6. x[i] < y[i] \/ y[i] < x[i]
    BY <1>5
<1> QED
    BY <1>4, <1>6 DEF Less

(***************************************************************************)
(* Contact.Less, by the distance to a target, is a strict total order: no  *)
(* two contacts are as far from it, so that sorting by it has one result.  *)
(***************************************************************************)
THEOREM CloserIsTotalOrder ==
    ASSUME NEW target \in KademliaIDs
    PROVE  /\ \A x \in KademliaIDs : ~Closer(x, x, target)
           /\ \A x, y, z \in KademliaIDs : Closer(x, y, target) /\ Closer(y, z, target) => Closer(x, z, target)
           /\ \A x, y \in KademliaIDs : x # y => Closer(x, y, target) \/ Closer(y, x, target)
<1>1. \A x \in KademliaIDs : CalcDistance(x, target) \in KademliaIDs
    BY DistanceBits
<1>2. ASSUME NEW x \in KademliaIDs, NEW y \in KademliaIDs, x # y
      PROVE  CalcDistance(x, target) # CalcDistance(y, target)
    <2>1. PICK i \in BucketIndices : x[i] # y[i]
        BY <1>2 DEF KademliaIDs
    <2>2. x[i] \in {0, 1} /\ y[i] \in {0, 1} /\ target[i] \in {0, 1}
        BY DEF KademliaIDs
    <2>3. (x[i] = target[i]) # (y[i] = target[i])
        BY <2>1, <2>2
    <2> QED
        BY <2>3, DistanceBits
<1>3. \A x \in KademliaIDs : ~Closer(x, x, target)
    BY <1>1, LessIrreflexive DEF Closer
<1>4. \A x, y, z \in KademliaIDs : Closer(x, y, target) /\ Closer(y, z, target) => Closer(x, z, target)
    BY <1>1, LessTransitive DEF Closer
<1>5. \A x, y \in KademliaIDs : x # y => Closer(x, y, target) \/ Closer(y, x, target)
    BY <1>1, <1>2, LessTotal DEF Closer
<1> QED
    BY <1>3, <1>4, <1>5

\* The number of contacts of S that are closer to the target than c.
Rank(S, target, c) == Cardinality({d \in S : Closer(d, c, target)})

LEMMA RankGrows ==
    ASSUME NEW target \in KademliaIDs, NEW S \in SUBSET KademliaIDs, IsFiniteSet(S),
           NEW c \in S
    PROVE  /\ Rank(S, target, c) \in 0..(Cardinality(S) - 1)
           /\ \A d \in S : Closer(d, c, target) => Rank(S, target, d) < Rank(S, target, c)
<1> DEFINE N(e) == {d \in S : Closer(d, e, target)}
<1>1. \A e \in S : IsFiniteSet(N(e)) /\ Cardinality(N(e)) \in Nat
    BY FS_Subset, FS_CardinalityType
<1>2. c \notin N(c)
    BY CloserIsTotalOrder
<1>3. Cardinality(N(c)) < Cardinality(S)
    <2>1. N(c) \in SUBSET S /\ N(c) # S
        BY <1>2
    <2>2. Cardinality(N(c)) <= Cardinality(S) /\ Cardinality(N(c)) # Cardinality(S)
        BY <2>1, FS_Subset
    <2> QED
        BY <1>1, <2>2, FS_CardinalityType
<1>4. ASSUME NEW d \in S, Closer(d, c, target)
      PROVE  Cardinality(N(d)) < Cardinality(N(c))
    <2>1. N(d) \in SUBSET N(c)
        BY <1>4, CloserIsTotalOrder
    <2>2. d \in N(c) /\ d \notin N(d)
        BY <1>4, CloserIsTotalOrder
    <2>3. Cardinality(N(d)) <= Cardinality(N(c)) /\ Cardinality(N(d)) # Cardinality(N(c))
        BY <1>1, <2>1, <2>2, FS_Subset
    <2> QED
        BY <1>1, <2>3
<1>5. Cardinality(S) \in Nat
    BY FS_CardinalityType
<1> QED
    BY <1>1, <1>3, <1>4, <1>5 DEF Rank

(***************************************************************************)
(* What sorting by distance and keeping the first count contacts leaves:   *)
(* count of them, or all if there are fewer, and none that is farther away *)
(* than one that was cut off.                                              *)
(***************************************************************************)
THEOREM ClosestOfIsTop ==
    ASSUME NEW target \in KademliaIDs, NEW S \in SUBSET KademliaIDs, IsFiniteSet(S),
           NEW count \in Nat
    PROVE  LET T == ClosestOf(S, target, count)
           IN  /\ T \subseteq S /\ IsFiniteSet(T)
               /\ Cardinality(T) <= count
               /\ Cardinality(S) <= count => T = S
               /\ \A c \in S \ T : Cardinality(T) = count /\ \A t \in T : Closer(t, c, target)
<1> DEFINE T == ClosestOf(S, target, count)
           n == Cardinality(S)
           rank == [c \in S |-> Rank(S, target, c)]
           top == [c \in T |-> Rank(S, target, c)]
<1>0. n \in Nat
    BY FS_CardinalityType
<1>1. T = {c \in S : Rank(S, target, c) < count}
    BY DEF ClosestOf, Rank
<1>2. T \subseteq S /\ IsFiniteSet(T) /\ Cardinality(T) \in Nat
    <2>1. T \in SUBSET S
        BY <1>1
    <2> QED
        BY <2>1, FS_Subset, FS_CardinalityType
<1>3. \A c \in S : Rank(S, target, c) \in 0..(n - 1)
    BY RankGrows
<1>4. \A c, d \in S : c # d => Rank(S, target, c) # Rank(S, target, d)
    <2> SUFFICES ASSUME NEW c \in S, NEW d \in S, c # d
                 PROVE  Rank(S, target, c) # Rank(S, target, d)
        OBVIOUS
    <2>1. Closer(c, d, target) \/ Closer(d, c, target)
        BY CloserIsTotalOrder
    <2>2. Rank(S, target, c) < Rank(S, target, d) \/ Rank(S, target, d) < Rank(S, target, c)
        BY <2>1, RankGrows
    <2>3. Rank(S, target, c) \in Int /\ Rank(S, target, d) \in Int
        BY <1>3
    <2> QED
        BY <2>2, <2>3
<1> HIDE DEF T, n
<1>5. rank \in Surjection(S, 0..(n - 1))
    <2>1. rank \in Injection(S, 0..(n - 1))
        BY <1>3, <1>4 DEF Injection, IsInjective
    <2>2. IsFiniteSet(0..(n - 1)) /\ Cardinality(0..(n - 1)) = n
        BY <1>0, FS_Interval
    <2> QED
        BY <2>1, <2>2, FS_Injection DEF n
<1>6. Cardinality(T) <= count
    <2>1. top \in Injection(T, 0..(count - 1))
        BY <1>1, <1>3, <1>4 DEF Injection, IsInjective
    <2>2. IsFiniteSet(0..(count - 1)) /\ Cardinality(0..(count - 1)) = count
        BY FS_Interval
    <2> QED
        BY <2>1, <2>2, FS_Injection
<1>7. n <= count => T = S
    BY <1>0, <1>1, <1>3
<1>8. ASSUME NEW c \in S \ T
      PROVE  Cardinality(T) = count /\ \A t \in T : Closer(t, c, target)
    <2>1. Rank(S, target, c) >= count /\ n > count
        BY <1>0, <1>1, <1>3
    <2>2. \A t \in T : Closer(t, c, target)
        <3> SUFFICES ASSUME NEW t \in T
                     PROVE  ~Closer(c, t, target) /\ c # t
            BY <1>2, CloserIsTotalOrder
        <3>1. Rank(S, target, t) < count /\ t \in S
            BY <1>1
        <3>2. ~(Rank(S, target, c) < Rank(S, target, t))
            BY <1>3, <2>1, <3>1
        <3> QED
            BY <3>1, <3>2, RankGrows
    <2>3. top \in Surjection(T, 0..(count - 1))
        <3>1. top \in [T -> 0..(count - 1)]
            BY <1>1, <1>3
        <3>2. ASSUME NEW r \in 0..(count - 1)
              PROVE  \E t \in T : top[t] = r
            <4>1. r \in 0..(n - 1)
                BY <1>0, <2>1
            <4>2. PICK t \in S : rank[t] = r
                BY <1>5, <4>1 DEF Surjection
            <4>3. t \in T
                BY <1>1, <4>2
            <4> QED
                BY <4>2, <4>3
        <3> QED
            BY <3>1, <3>2 DEF Surjection
    <2>4. Cardinality(0..(count - 1)) = count
        BY FS_Interval
    <2>5. count <= Cardinality(T)
        BY <1>2, <2>3, <2>4, FS_Surjection
    <2> QED
        BY <1>2, <1>6, <2>2, <2>5
<1> QED
    BY <1>2, <1>6, <1>7, <1>8 DEF T, n

-----------------------------------------------------------------------------
(* Buckets *)

\* What SequencesExt!RemoveAt leaves of a list.
LEMMA RemoveAtProperties ==
    ASSUME NEW S, NEW s \in Seq(S), NEW n \in 1..Len(s)
    PROVE  /\ RemoveAt(s, n) \in Seq(S)
           /\ Len(RemoveAt(s, n)) = Len(s) - 1
           /\ \A i \in 1..(Len(s) - 1) :
                 RemoveAt(s, n)[i] = IF i < n THEN s[i] ELSE s[i + 1]
<1> DEFINE left == SubSeq(s, 1, n - 1)
           right == SubSeq(s, n + 1, Len(s))
<1>0. Len(s) \in Nat /\ \A i \in 1..Len(s) : s[i] \in S
    BY LenProperties, ElementOfSeq
<1>1. /\ left \in Seq(S)
      /\ Len(left) = n - 1
      /\ \A i \in 1..(n - 1) : left[i] = s[i]
    <2>1. n - 1 \in Int /\ 1 \in Int /\ \A i \in 1..(n - 1) : s[i] \in S
        BY <1>0
    <2>2. /\ left \in Seq(S)
          /\ Len(left) = IF 1 <= n - 1 THEN (n - 1) - 1 + 1 ELSE 0
          /\ \A i \in 1..((n - 1) - 1 + 1) : left[i] = s[1 + i - 1]
        BY <2>1, SubSeqProperties
    <2> QED
        BY <1>0, <2>2
<1>2. /\ right \in Seq(S)
      /\ Len(right) = Len(s) - n
      /\ \A i \in 1..(Len(s) - n) : right[i] = s[n + i]
    <2>1. n + 1 \in Int /\ Len(s) \in Int /\ \A i \in (n + 1)..Len(s) : s[i] \in S
        BY <1>0
    <2>2. /\ right \in Seq(S)
          /\ Len(right) = IF n + 1 <= Len(s) THEN Len(s) - (n + 1) + 1 ELSE 0
          /\ \A i \in 1..(Len(s) - (n + 1) + 1) : right[i] = s[(n + 1) + i - 1]
        BY <2>1, SubSeqProperties
    <2> QED
        BY <1>0, <2>2
<1>3. RemoveAt(s, n) = left \o right
    BY DEF RemoveAt
<1> HIDE DEF left, right
<1>4. /\ left \o right \in Seq(S)
      /\ Len(left \o right) = Len(left) + Len(right)
      /\ \A i \in 1..(Len(left) + Len(right)) :
            (left \o right)[i] = IF i <= Len(left) THEN left[i] ELSE right[i - Len(left)]
    BY <1>1, <1>2, ConcatProperties
<1>5. ASSUME NEW i \in 1..(Len(s) - 1)
      PROVE  (left \o right)[i] = IF i < n THEN s[i] ELSE s[i + 1]
    <2>1. CASE i < n
        <3>1. i \in 1..(n - 1) /\ i <= Len(left) /\ i \in 1..(Len(left) + Len(right))
            BY <1>0, <1>1, <1>2, <2>1
        <3> QED
            BY <1>1, <1>4, <2>1, <3>1
    <2>2. CASE ~(i < n)
        <3>1. /\ i - (n - 1) \in 1..(Len(s) - n)
              /\ ~(i <= Len(left))
              /\ i \in 1..(Len(left) + Len(right))
              /\ n + (i - (n - 1)) = i + 1
            BY <1>0, <1>1, <1>2, <2>2
        <3>2. (left \o right)[i] = right[i - (n - 1)]
            BY <1>1, <1>4, <3>1
        <3> QED
            BY <1>2, <2>2, <3>1, <3>2
    <2> QED
        BY <2>1, <2>2
<1>6. Len(left \o right) = Len(s) - 1
    BY <1>0, <1>1, <1>2, <1>4
<1> QED
    BY <1>3, <1>4, <1>5, <1>6

\* The positions of the contacts that BucketRemove keeps do not change order.
KeepsOrder(new, old) ==
    \A i, j \in 1..Len(new) : i < j =>
        \E k, l \in 1..Len(old) : k < l /\ new[i] = old[k] /\ new[j] = old[l]

(***************************************************************************)
(* bucket.RemoveContact on a sound list: c is gone, the others remain, in  *)
(* their order.                                                            *)
(***************************************************************************)
LEMMA BucketRemoveProperties ==
    ASSUME NEW me, NEW C, NEW list \in Seq(C), NEW b, NEW size \in Nat, SoundList(me, list, b, size), NEW c
    PROVE  LET new == BucketRemove(list, c)
           IN  /\ new \in Seq(C)
               /\ SoundList(me, new, b, size)
               /\ ~Holds(new, c)
               /\ \A d : d # c => (Holds(new, d) <=> Holds(list, d))
               /\ Holds(list, c) => Len(new) < Len(list)
               /\ Holds(list, c) \/ new = list
               /\ KeepsOrder(new, list)
<1>0. Len(list) \in Nat
    BY LenProperties
<1>1. CASE ~Holds(list, c)
    <2>1. BucketRemove(list, c) = list
        BY <1>1 DEF BucketRemove
    <2>2. KeepsOrder(list, list)
        BY DEF KeepsOrder
    <2> QED
        BY <1>1, <2>1, <2>2
<1>2. CASE Holds(list, c)
    <2> DEFINE n == CHOOSE i \in 1..Len(list) : list[i] = c
               new == RemoveAt(list, n)
    <2>1. n \in 1..Len(list) /\ list[n] = c
        BY <1>2 DEF Holds
    <2>2. BucketRemove(list, c) = new
        BY <1>2 DEF BucketRemove
    <2> HIDE DEF n
    <2>3. /\ new \in Seq(C)
          /\ Len(new) = Len(list) - 1
          /\ \A i \in 1..(Len(list) - 1) :
                new[i] = IF i < n THEN list[i] ELSE list[i + 1]
        BY <2>1, RemoveAtProperties
    <2> HIDE DEF new
    <2>4. SoundList(me, new, b, size)
        <3>1. Len(new) <= size
            BY <1>0, <2>3 DEF SoundList
        <3>2. \A i \in 1..Len(new) : GetBucketIndex(me, new[i]) = b
            BY <1>0, <2>1, <2>3 DEF SoundList
        <3>3. ASSUME NEW i \in 1..Len(new), NEW j \in 1..Len(new), new[i] = new[j]
              PROVE  i = j
            BY <1>0, <2>1, <2>3, <3>3 DEF SoundList
        <3> QED
            BY <3>1, <3>2, <3>3 DEF SoundList
    <2>5. ~Holds(new, c)
        <3> SUFFICES ASSUME NEW i \in 1..Len(new), new[i] = c
                     PROVE  FALSE
            BY DEF Holds
        <3> QED
            BY <1>0, <2>1, <2>3 DEF SoundList
    <2>6. ASSUME NEW d, d # c
          PROVE  Holds(new, d) <=> Holds(list, d)
        <3>1. ASSUME Holds(new, d)
              PROVE  Holds(list, d)
            BY <1>0, <2>1, <2>3, <3>1 DEF Holds
        <3>2. ASSUME Holds(list, d)
              PROVE  Holds(new, d)
            <4>1. PICK k \in 1..Len(list) : list[k] = d
                BY <3>2 DEF Holds
            <4>2. k # n
                BY <2>1, <2>6, <4>1
            <4>3. CASE k < n
                <5>1. k \in 1..Len(new) /\ new[k] = d
                    BY <1>0, <2>1, <2>3, <4>1, <4>3
                <5> QED
                    BY <5>1 DEF Holds
            <4>4. CASE k > n
                <5>1. k - 1 \in 1..Len(new) /\ new[k - 1] = d
                    BY <1>0, <2>1, <2>3, <4>1, <4>4
                <5> QED
                    BY <5>1 DEF Holds
            <4> QED
                BY <1>0, <2>1, <4>1, <4>2, <4>3, <4>4
        <3> QED
            BY <3>1, <3>2
    <2>7. KeepsOrder(new, list)
        <3> SUFFICES ASSUME NEW i \in 1..Len(new), NEW j \in 1..Len(new), i < j
                     PROVE  \E k, l \in 1..Len(list) :
                               k < l /\ new[i] = list[k] /\ new[j] = list[l]
            BY DEF KeepsOrder
        <3> DEFINE k == IF i < n THEN i ELSE i + 1
                   l == IF j < n THEN j ELSE j + 1
        <3>1. k \in 1..Len(list) /\ l \in 1..Len(list) /\ k < l
            BY <1>0, <2>1, <2>3
        <3>2. new[i] = list[k] /\ new[j] = list[l]
            BY <1>0, <2>1, <2>3
        <3> QED
            BY <3>1, <3>2
    <2> QED
        BY <1>0, <1>2, <2>2, <2>3, <2>4, <2>5, <2>6, <2>7
<1> QED
    BY <1>1, <1>2

(***************************************************************************)
(* bucket.AddContact on a sound list of c's bucket: the list stays sound,  *)
(* nothing leaves it, and only c may move, to the front.                   *)
(***************************************************************************)
LEMMA BucketAddProperties ==
    ASSUME NEW me, NEW C, NEW list \in Seq(C), NEW c \in C,
           SoundList(me, list, GetBucketIndex(me, c), bucketSize)
    PROVE  LET new == BucketAdd(list, c)
           IN  /\ new \in Seq(C)
               /\ SoundList(me, new, GetBucketIndex(me, c), bucketSize)
               /\ \A d : Holds(list, d) => Holds(new, d)
               /\ \A d : Holds(new, d) => Holds(list, d) \/ d = c
               /\ Holds(new, c) \/ (new = list /\ Len(list) >= bucketSize)
<1> DEFINE b == GetBucketIndex(me, c)
<1>0. Len(list) \in Nat /\ bucketSize \in Nat
    BY LenProperties, BucketAssumption
<1>1. CASE ~Accepts(list, c)
    <2>1. BucketAdd(list, c) = list
        BY <1>1 DEF BucketAdd
    <2>2. Len(list) >= bucketSize
        BY <1>0, <1>1 DEF Accepts
    <2> QED
        BY <2>1, <2>2
<1>2. CASE Accepts(list, c)
    <2> DEFINE rest == BucketRemove(list, c)
               new == <<c>> \o rest
    <2>1. BucketAdd(list, c) = new
        BY <1>2 DEF BucketAdd
    <2>2. /\ rest \in Seq(C)
          /\ SoundList(me, rest, b, bucketSize)
          /\ ~Holds(rest, c)
          /\ \A d : d # c => (Holds(rest, d) <=> Holds(list, d))
          /\ Holds(list, c) => Len(rest) < Len(list)
          /\ Holds(list, c) \/ rest = list
        BY <1>0, BucketRemoveProperties
    <2> HIDE DEF rest
    <2>3. /\ <<c>> \in Seq(C)
          /\ Len(<<c>>) = 1
          /\ <<c>>[1] = c
        OBVIOUS
    <2>4. /\ new \in Seq(C)
          /\ Len(new) = 1 + Len(rest)
          /\ \A i \in 1..(1 + Len(rest)) : new[i] = IF i <= 1 THEN <<c>>[i] ELSE rest[i - 1]
        BY <2>2, <2>3, ConcatProperties
    <2>5. Len(rest) \in Nat
        BY <2>2, LenProperties
    <2>6. /\ new[1] = c
          /\ \A i \in 1..Len(rest) : new[i + 1] = rest[i]
          /\ \A i \in 2..Len(new) : new[i] = rest[i - 1]
        BY <2>3, <2>4, <2>5
    <2> HIDE DEF new
    <2>7. SoundList(me, new, b, bucketSize)
        <3>1. Len(new) <= bucketSize
            BY <1>0, <1>2, <2>2, <2>4, <2>5 DEF Accepts, SoundList
        <3>2. ASSUME NEW i \in 1..Len(new)
              PROVE  GetBucketIndex(me, new[i]) = b
            <4>1. CASE i = 1
                BY <2>6, <4>1
            <4>2. CASE i # 1
                <5>1. i - 1 \in 1..Len(rest) /\ new[i] = rest[i - 1]
                    BY <2>4, <2>5, <2>6, <4>2
                <5> QED
                    BY <2>2, <5>1 DEF SoundList
            <4> QED
                BY <4>1, <4>2
        <3>3. ASSUME NEW i \in 1..Len(new), NEW j \in 1..Len(new), new[i] = new[j]
              PROVE  i = j
            <4>1. \A k \in 2..Len(new) : new[k] # c
                <5> SUFFICES ASSUME NEW k \in 2..Len(new)
                             PROVE  rest[k - 1] # c
                    BY <2>6
                <5>1. k - 1 \in 1..Len(rest)
                    BY <2>4, <2>5
                <5> QED
                    BY <2>2, <5>1 DEF Holds
            <4>2. CASE i = 1 \/ j = 1
                BY <2>4, <2>5, <2>6, <3>3, <4>1, <4>2
            <4>3. CASE i # 1 /\ j # 1
                <5>1. /\ i - 1 \in 1..Len(rest) /\ j - 1 \in 1..Len(rest)
                      /\ rest[i - 1] = rest[j - 1]
                    BY <2>4, <2>5, <2>6, <3>3, <4>3
                <5>2. i - 1 = j - 1
                    BY <2>2, <5>1 DEF SoundList
                <5> QED
                    BY <5>2, <2>4, <2>5
            <4> QED
                BY <4>2, <4>3
        <3> QED
            BY <3>1, <3>2, <3>3 DEF SoundList
    <2>8. ASSUME NEW d, Holds(list, d)
          PROVE  Holds(new, d)
        <3>1. CASE d = c
            <4>1. 1 \in 1..Len(new)
                BY <2>4, <2>5
            <4> QED
                BY <2>6, <3>1, <4>1 DEF Holds
        <3>2. CASE d # c
            <4>1. PICK k \in 1..Len(rest) : rest[k] = d
                BY <2>2, <2>8, <3>2 DEF Holds
            <4>2. k + 1 \in 1..Len(new) /\ new[k + 1] = d
                BY <2>4, <2>5, <2>6, <4>1
            <4> QED
                BY <4>2 DEF Holds
        <3> QED
            BY <3>1, <3>2
    <2>9. ASSUME NEW d, Holds(new, d)
          PROVE  Holds(list, d) \/ d = c
        <3>1. PICK k \in 1..Len(new) : new[k] = d
            BY <2>9 DEF Holds
        <3>2. CASE k = 1
            BY <2>6, <3>1, <3>2
        <3>3. CASE k # 1
            <4>1. k - 1 \in 1..Len(rest) /\ rest[k - 1] = d
                BY <2>4, <2>5, <2>6, <3>1, <3>3
            <4>2. Holds(rest, d)
                BY <4>1 DEF Holds
            <4> QED
                BY <2>2, <4>2
        <3> QED
            BY <3>2, <3>3
    <2>10. Holds(new, c)
        <3>1. 1 \in 1..Len(new)
            BY <2>4, <2>5
        <3> QED
            BY <2>6, <3>1 DEF Holds
    <2> QED
        BY <2>1, <2>4, <2>7, <2>8, <2>9, <2>10 DEF new, rest
<1> QED
    BY <1>1, <1>2

LEMMA ToSetHolds ==
    ASSUME NEW me, NEW C, NEW list \in Seq(C), NEW c
    PROVE  c \in ToSet(list) <=> Holds(list, c)
<1>1. DOMAIN list = 1..Len(list)
    BY LenProperties
<1> QED
    BY <1>1 DEF ToSet, Holds

-----------------------------------------------------------------------------
(* FindClosestContacts *)

\* A sound table of the node me, whose contacts are among C.
TableOf(me, C, table) ==
    /\ me \in KademliaIDs
    /\ C \subseteq KademliaIDs \ {me}
    /\ IsFiniteSet(C)
    /\ table \in [BucketIndices -> Seq(C)]
    /\ \A b \in BucketIndices : SoundList(me, table[b], b, bucketSize)

\* A contact is in the bucket of its index only.
LEMMA ContactsOfBucket ==
    ASSUME NEW me, NEW C, NEW table, TableOf(me, C, table),
           NEW k \in BucketIndices, NEW c \in ToSet(table[k])
    PROVE  c \in C /\ GetBucketIndex(me, c) = k
<1>1. table[k] \in Seq(C) /\ SoundList(me, table[k], k, bucketSize)
    BY DEF TableOf
<1>2. PICK i \in 1..Len(table[k]) : table[k][i] = c
    BY <1>1, ToSetHolds DEF Holds
<1> QED
    BY <1>1, <1>2, ElementOfSeq DEF SoundList

\* The contacts of the table are contacts of the buckets of their distance.
LEMMA ScannedContacts ==
    ASSUME NEW me, NEW C, NEW table, TableOf(me, C, table),
           NEW b \in BucketIndices, NEW r \in Nat
    PROVE  /\ Scanned(table, b, r) \subseteq GetAllContacts(table)
           /\ GetAllContacts(table) \subseteq C
           /\ ToSet(table[b]) \subseteq Scanned(table, b, r)
           /\ \A c \in GetAllContacts(table) :
                 c \in Scanned(table, b, r)
                    <=> b - r <= GetBucketIndex(me, c) /\ GetBucketIndex(me, c) <= b + r
<1>0. BucketIndices \subseteq Int /\ b \in Int
    BY BitsAssumption DEF BucketIndices
<1>1. ASSUME NEW k \in BucketIndices, NEW c \in ToSet(table[k])
      PROVE  c \in C /\ GetBucketIndex(me, c) = k
    BY <1>1, ContactsOfBucket
<1> DEFINE Near == BucketIndices \cap ((b - r)..(b + r))
<1>2. \A j \in BucketIndices : j \in Near <=> b - r <= j /\ j <= b + r
    BY <1>0
<1>3. \A c : c \in Scanned(table, b, r) <=> \E j \in Near : c \in ToSet(table[j])
    BY DEF Scanned
<1>4. \A c : c \in GetAllContacts(table) <=> \E j \in BucketIndices : c \in ToSet(table[j])
    BY DEF GetAllContacts
<1>5. b \in Near /\ Near \subseteq BucketIndices
    BY <1>0, <1>2
<1> HIDE DEF Near
<1>6. \A c \in GetAllContacts(table) : c \in Scanned(table, b, r) <=> GetBucketIndex(me, c) \in Near
    BY <1>1, <1>3, <1>4, <1>5
<1>7. \A c \in GetAllContacts(table) : GetBucketIndex(me, c) \in BucketIndices /\ c \in C
    BY <1>1, <1>4
<1>8. \A c \in GetAllContacts(table) :
         c \in Scanned(table, b, r) <=> b - r <= GetBucketIndex(me, c) /\ GetBucketIndex(me, c) <= b + r
    BY <1>2, <1>6, <1>7
<1> QED
    BY <1>3, <1>4, <1>5, <1>7, <1>8

\* Where the loop of FindClosestContacts ends: it has enough contacts, or it
\* has been through the whole table.
LEMMA ScanStops ==
    ASSUME NEW me, NEW C, NEW table, TableOf(me, C, table),
           NEW b \in BucketIndices, NEW count \in Nat
    PROVE  LET r == ScanRadius(table, b, count)
           IN  /\ r \in Nat
               /\ \/ Cardinality(Scanned(table, b, r)) >= count
                  \/ Scanned(table, b, r) = GetAllContacts(table)
<1> DEFINE Stops(r) == \/ Cardinality(Scanned(table, b, r)) >= count
                       \/ b - (r + 1) < 0 /\ b + (r + 1) >= Bits
           First(r) == Stops(r) /\ \A q \in 0..(r - 1) : ~Stops(q)
           D == {r \in 0..Bits : Stops(r)}
           R == ScanRadius(table, b, count)
<1>0. b \in 0..(Bits - 1) /\ Bits \in Nat
    BY BitsAssumption DEF BucketIndices
<1>1. Bits \in D
    BY <1>0
<1>2. PICK m \in D : \A y \in D : m <= y
    <2>1. D \in SUBSET Nat /\ D # {}
        <3> HIDE DEF Stops
        <3>1. 0..Bits \subseteq Nat
            BY <1>0
        <3> QED
            BY <1>1, <3>1
    <2> HIDE DEF D
    <2> QED
        BY <2>1, LeastNat
<1>3. m \in 0..Bits /\ First(m)
    <2> SUFFICES ASSUME NEW q \in 0..(m - 1), Stops(q)
                 PROVE  FALSE
        BY <1>2
    <2>1. q \in D
        BY <1>0, <1>2
    <2> QED
        BY <1>0, <1>2, <2>1
<1>4. R = CHOOSE r \in 0..Bits : First(r)
    BY DEF ScanRadius
<1>5. R \in 0..Bits /\ First(R)
    <2> HIDE DEF First, R
    <2> QED
        BY <1>3, <1>4
<1>6. R \in Nat
    BY <1>0, <1>5
<1>7. CASE b - (R + 1) < 0 /\ b + (R + 1) >= Bits
    <2>1. ASSUME NEW c \in GetAllContacts(table)
          PROVE  b - R <= GetBucketIndex(me, c) /\ GetBucketIndex(me, c) <= b + R
        <3>1. c \in C
            BY <1>6, ScannedContacts
        <3>2. GetBucketIndex(me, c) \in 0..(Bits - 1)
            BY <3>1, BucketIndexIsFirstDifference DEF TableOf, BucketIndices
        <3> HIDE DEF R
        <3> QED
            BY <1>0, <1>6, <1>7, <3>2
    <2>2. /\ Scanned(table, b, R) \subseteq GetAllContacts(table)
          /\ \A c \in GetAllContacts(table) :
                c \in Scanned(table, b, R)
                    <=> b - R <= GetBucketIndex(me, c) /\ GetBucketIndex(me, c) <= b + R
        BY <1>6, ScannedContacts
    <2>3. Scanned(table, b, R) = GetAllContacts(table)
        <3> HIDE DEF R
        <3> QED
            BY <2>1, <2>2
    <2> QED
        BY <1>6, <2>3
<1> QED
    BY <1>5, <1>6, <1>7

\* Contacts of a nearer bucket are nearer to the node.
LEMMA NearerBucketIsCloser ==
    ASSUME NEW me \in KademliaIDs, NEW c \in KademliaIDs, NEW d \in KademliaIDs, c # me,
           GetBucketIndex(me, c) < GetBucketIndex(me, d)
    PROVE  Closer(d, c, me)
<1> DEFINE k == GetBucketIndex(me, c)
<1>1. k \in BucketIndices /\ c[k] # me[k] /\ \A j \in BucketIndices : j < k => c[j] = me[j]
    BY BucketIndexIsFirstDifference
<1>2. \A j \in BucketIndices : j <= k => d[j] = me[j]
    <2>1. GetBucketIndex(me, d) \in BucketIndices /\ \A j \in BucketIndices : j < GetBucketIndex(me, d) => d[j] = me[j]
        BY BucketIndexIsFirstDifference
    <2>2. \A j \in BucketIndices : j <= k => j < GetBucketIndex(me, d)
        BY <1>1, <2>1, BitsAssumption DEF BucketIndices
    <2> QED
        BY <2>1, <2>2
<1>3. CalcDistance(c, me)[k] = 1 /\ \A j \in BucketIndices : j < k => CalcDistance(c, me)[j] = 0
    BY <1>1, DistanceBits
<1>4. k \in Int /\ BucketIndices \subseteq Int
    BY <1>1, BitsAssumption DEF BucketIndices
<1>5. \A j \in BucketIndices : j <= k => CalcDistance(d, me)[j] = 0
    BY <1>2, DistanceBits
<1> HIDE DEF k
<1>6. CalcDistance(d, me)[k] < CalcDistance(c, me)[k]
    BY <1>1, <1>3, <1>4, <1>5
<1>7. \A j \in BucketIndices : j < k => CalcDistance(d, me)[j] = CalcDistance(c, me)[j]
    BY <1>3, <1>4, <1>5
<1> QED
    BY <1>1, <1>6, <1>7 DEF Closer, Less

\* Cutting off the far end of a set before sorting it changes nothing, if
\* enough contacts are left.
LEMMA ClosestOfPart ==
    ASSUME NEW target \in KademliaIDs, NEW A \in SUBSET KademliaIDs, IsFiniteSet(A),
           NEW S \in SUBSET A, NEW count \in Nat,
           Cardinality(S) >= count \/ S = A,
           \A s \in S, c \in A \ S : Closer(s, c, target)
    PROVE  ClosestOf(S, target, count) = ClosestOf(A, target, count)
<1>1. CASE S = A
    BY <1>1
<1>2. CASE Cardinality(S) >= count
    <2> DEFINE N(X, c) == {d \in X : Closer(d, c, target)}
    <2>1. ASSUME NEW c \in S
          PROVE  N(A, c) = N(S, c)
        <3>1. \A d \in A \ S : ~Closer(d, c, target)
            BY <2>1, CloserIsTotalOrder
        <3> QED
            BY <3>1
    <2>2. ASSUME NEW c \in A \ S
          PROVE  ~(Cardinality(N(A, c)) < count)
        <3>1. S \in SUBSET N(A, c)
            BY <2>2
        <3>2. IsFiniteSet(N(A, c))
            BY FS_Subset
        <3>3. Cardinality(S) <= Cardinality(N(A, c))
            BY <3>1, <3>2, FS_Subset
        <3>4. Cardinality(S) \in Nat /\ Cardinality(N(A, c)) \in Nat
            BY <3>1, <3>2, FS_Subset, FS_CardinalityType
        <3> HIDE DEF N
        <3> QED
            BY <1>2, <3>3, <3>4
    <2>3. /\ ClosestOf(S, target, count) = {c \in S : Cardinality(N(S, c)) < count}
          /\ ClosestOf(A, target, count) = {c \in A : Cardinality(N(A, c)) < count}
        BY DEF ClosestOf
    <2> HIDE DEF N
    <2> QED
        BY <2>1, <2>2, <2>3
<1> QED
    BY <1>1, <1>2

\* What FindClosestContacts sorts, and what it returns of it.
LEMMA FindClosestFacts ==
    ASSUME NEW me, NEW C, NEW table, TableOf(me, C, table),
           NEW target \in KademliaIDs, NEW count \in Nat
    PROVE  \E r \in Nat :
              LET S == Scanned(table, GetBucketIndex(me, target), r)
                  found == FindClosestContacts(me, table, target, count)
              IN  /\ GetBucketIndex(me, target) \in BucketIndices
                  /\ S \in SUBSET KademliaIDs /\ IsFiniteSet(S)
                  /\ found = ClosestOf(S, target, count)
                  /\ Cardinality(S) >= count \/ S = GetAllContacts(table)
<1> DEFINE b == GetBucketIndex(me, target)
           R == ScanRadius(table, b, count)
<1>1. b \in BucketIndices
    BY BucketIndexIsFirstDifference DEF TableOf
<1>2. R \in Nat /\ (Cardinality(Scanned(table, b, R)) >= count \/ Scanned(table, b, R) = GetAllContacts(table))
    BY <1>1, ScanStops
<1>3. Scanned(table, b, R) \in SUBSET C
    BY <1>1, <1>2, ScannedContacts
<1>4. Scanned(table, b, R) \in SUBSET KademliaIDs /\ IsFiniteSet(Scanned(table, b, R))
    BY <1>3, FS_Subset DEF TableOf
<1>5. FindClosestContacts(me, table, target, count) = ClosestOf(Scanned(table, b, R), target, count)
    BY DEF FindClosestContacts
<1> HIDE DEF R
<1> QED
    BY <1>1, <1>2, <1>4, <1>5

(***************************************************************************)
(* RoutingTable.AddContact: the table stays sound, nothing leaves it, and  *)
(* c is in it unless its bucket is full, which is then as it was.          *)
(***************************************************************************)
LEMMA TableAddProperties ==
    ASSUME NEW me, NEW C, NEW table, TableOf(me, C, table), NEW c \in C
    PROVE  LET b == GetBucketIndex(me, c)
               new == [table EXCEPT ![b] = BucketAdd(@, c)]
           IN  /\ TableOf(me, C, new)
               /\ GetAllContacts(table) \subseteq GetAllContacts(new)
               /\ GetAllContacts(new) \subseteq GetAllContacts(table) \cup {c}
               /\ c \in GetAllContacts(new) \/ (new = table /\ Len(table[b]) >= bucketSize)
<1> DEFINE b == GetBucketIndex(me, c)
           list == BucketAdd(table[b], c)
           new == [table EXCEPT ![b] = BucketAdd(@, c)]
<1>1. b \in BucketIndices
    BY BucketIndexIsFirstDifference DEF TableOf
<1>2. /\ table \in [BucketIndices -> Seq(C)]
      /\ \A k \in BucketIndices : SoundList(me, table[k], k, bucketSize)
    BY DEF TableOf
<1>3. /\ list \in Seq(C)
      /\ SoundList(me, list, b, bucketSize)
      /\ \A d : Holds(table[b], d) => Holds(list, d)
      /\ \A d : Holds(list, d) => Holds(table[b], d) \/ d = c
      /\ Holds(list, c) \/ (list = table[b] /\ Len(table[b]) >= bucketSize)
    <2>1. table[b] \in Seq(C) /\ SoundList(me, table[b], b, bucketSize)
        BY <1>1, <1>2
    <2> QED
        BY <2>1, BucketAddProperties
<1>4. /\ new \in [BucketIndices -> Seq(C)]
      /\ new[b] = list
      /\ \A k \in BucketIndices : k # b => new[k] = table[k]
    BY <1>1, <1>2, <1>3
<1>5. list = table[b] => new = table
    BY <1>1, <1>2
<1> HIDE DEF list, new, b
<1>6. TableOf(me, C, new)
    BY <1>2, <1>3, <1>4 DEF TableOf
<1>7. \A k \in BucketIndices : \A d :
         /\ d \in ToSet(table[k]) <=> Holds(table[k], d)
         /\ d \in ToSet(new[k]) <=> Holds(new[k], d)
    BY <1>2, <1>4, ToSetHolds
<1>8. \A d : /\ d \in GetAllContacts(table) <=> \E k \in BucketIndices : Holds(table[k], d)
             /\ d \in GetAllContacts(new) <=> \E k \in BucketIndices : Holds(new[k], d)
    BY <1>7 DEF GetAllContacts
<1>9. \A d : d \in GetAllContacts(table) => d \in GetAllContacts(new)
    BY <1>3, <1>4, <1>8
<1>10. \A d : d \in GetAllContacts(new) => d \in GetAllContacts(table) \/ d = c
    BY <1>3, <1>4, <1>8
<1>11. c \in GetAllContacts(new) \/ (new = table /\ Len(table[b]) >= bucketSize)
    BY <1>1, <1>3, <1>4, <1>5, <1>8
<1> QED
    BY <1>6, <1>9, <1>10, <1>11 DEF new, b

(***************************************************************************)
(* FindClosestContacts returns contacts of the table: as many as were      *)
(* asked for, or all there are.                                            *)
(***************************************************************************)
LEMMA FindClosestEnough ==
    ASSUME NEW me, NEW C, NEW table, TableOf(me, C, table),
           NEW target \in KademliaIDs, NEW count \in Nat
    PROVE  LET found == FindClosestContacts(me, table, target, count)
           IN  /\ found \subseteq GetAllContacts(table)
               /\ found \subseteq C
               /\ Cardinality(found) = count \/ found = GetAllContacts(table)
<1>1. PICK r \in Nat :
          LET S == Scanned(table, GetBucketIndex(me, target), r)
              found == FindClosestContacts(me, table, target, count)
          IN  /\ GetBucketIndex(me, target) \in BucketIndices
              /\ S \in SUBSET KademliaIDs /\ IsFiniteSet(S)
              /\ found = ClosestOf(S, target, count)
              /\ Cardinality(S) >= count \/ S = GetAllContacts(table)
    BY FindClosestFacts
<1> DEFINE S == Scanned(table, GetBucketIndex(me, target), r)
           T == ClosestOf(S, target, count)
<1>2. S \subseteq GetAllContacts(table) /\ GetAllContacts(table) \subseteq C
    BY <1>1, ScannedContacts
<1> HIDE DEF S
<1>3. S \in SUBSET KademliaIDs /\ IsFiniteSet(S) /\ (Cardinality(S) >= count \/ S = GetAllContacts(table))
    BY <1>1 DEF S
<1>4. /\ T \subseteq S /\ IsFiniteSet(T)
      /\ Cardinality(T) <= count
      /\ \A c \in S \ T : Cardinality(T) = count
    BY <1>3, ClosestOfIsTop
<1>5. T = FindClosestContacts(me, table, target, count)
    BY <1>1 DEF S
<1>6. Cardinality(T) \in Nat /\ Cardinality(S) \in Nat
    BY <1>3, <1>4, FS_CardinalityType
<1> HIDE DEF T
<1>7. CASE T = S
    BY <1>2, <1>3, <1>4, <1>5, <1>6, <1>7
<1>8. CASE T # S
    BY <1>2, <1>4, <1>5, <1>8
<1> QED
    BY <1>7, <1>8

\* A node's own identifier has the last bucket.
LEMMA OwnIndex ==
    ASSUME NEW me \in KademliaIDs
    PROVE  GetBucketIndex(me, me) = Bits - 1
<1>1. \A i \in BucketIndices : CalcDistance(me, me)[i] = 0
    BY DistanceBits
<1> QED
    BY <1>1 DEF GetBucketIndex

\* Where the loop of Join ends: at a bucket, or nowhere.
LEMMA ClosestNonEmptyIndex ==
    ASSUME NEW table
    PROVE  LET last == GetClosestNonEmptyBucketIndex(table)
           IN  last = -1 \/ last \in BucketIndices
<1> DEFINE Full == {j \in BucketIndices : ~IsBucketEmpty(table, j)}
           Gap == {Bits - 1 - j : j \in Full}
           Greatest(k) == /\ ~IsBucketEmpty(table, k)
                          /\ \A j \in BucketIndices : j > k => IsBucketEmpty(table, j)
<1>1. CASE Full = {}
    BY <1>1 DEF GetClosestNonEmptyBucketIndex
<1>2. CASE Full # {}
    <2>1. Gap \subseteq Nat /\ Gap # {}
        BY <1>2, BitsAssumption DEF BucketIndices
    <2>2. PICK g \in Gap : \A y \in Gap : g <= y
        BY <2>1, LeastNat
    <2>3. PICK k \in Full : g = Bits - 1 - k
        BY <2>2
    <2>4. Greatest(k)
        <3> SUFFICES ASSUME NEW j \in BucketIndices, j > k, ~IsBucketEmpty(table, j)
                     PROVE  FALSE
            BY <2>3
        <3>1. Bits - 1 - k <= Bits - 1 - j
            BY <2>2, <2>3
        <3> QED
            BY <2>3, <3>1, BitsAssumption DEF BucketIndices
    <2>5. GetClosestNonEmptyBucketIndex(table) = CHOOSE m \in BucketIndices : Greatest(m)
        BY <1>2 DEF GetClosestNonEmptyBucketIndex
    <2> HIDE DEF Greatest
    <2> QED
        BY <2>3, <2>4, <2>5
<1> QED
    BY <1>1, <1>2

-----------------------------------------------------------------------------
(* Whom a lookup is sent on to.                                            *)

\* A contact of n's bucket at me is closer to n than me is.
LEMMA BucketmateIsCloser ==
    ASSUME NEW me \in KademliaIDs, NEW n \in KademliaIDs, NEW x \in KademliaIDs,
           n # me, x # me, GetBucketIndex(me, x) = GetBucketIndex(me, n)
    PROVE  Closer(x, me, n)
<1> DEFINE b == GetBucketIndex(me, n)
<1>1. /\ b \in BucketIndices
      /\ n[b] # me[b] /\ \A j \in BucketIndices : j < b => n[j] = me[j]
      /\ x[b] # me[b] /\ \A j \in BucketIndices : j < b => x[j] = me[j]
    BY BucketIndexIsFirstDifference
<1> HIDE DEF b
<1>2. x[b] = n[b]
    BY <1>1 DEF KademliaIDs
<1>3. CalcDistance(x, n)[b] = 0 /\ CalcDistance(me, n)[b] = 1
    BY <1>1, <1>2, DistanceBits
<1>4. \A j \in BucketIndices : j < b => CalcDistance(x, n)[j] = 0 /\ CalcDistance(me, n)[j] = 0
    BY <1>1, DistanceBits
<1> QED
    BY <1>1, <1>3, <1>4 DEF Closer, Less

\* A list without duplicates has as many contacts as places.
LEMMA ToSetCardinality ==
    ASSUME NEW C, NEW list \in Seq(C), NEW me, NEW b, NEW size, SoundList(me, list, b, size)
    PROVE  IsFiniteSet(ToSet(list)) /\ Cardinality(ToSet(list)) = Len(list)
<1>1. Len(list) \in Nat /\ DOMAIN list = 1..Len(list) /\ list \in [1..Len(list) -> C]
    BY LenProperties
<1>2. ToSet(list) = {list[i] : i \in 1..Len(list)}
    BY <1>1 DEF ToSet
<1>3. \A i, j \in 1..Len(list) : list[i] = list[j] => i = j
    BY DEF SoundList
<1> DEFINE f == [i \in 1..Len(list) |-> list[i]]
<1>4. f \in Bijection(1..Len(list), ToSet(list))
    BY <1>2, <1>3 DEF Bijection, Injection, Surjection, IsInjective
<1>5. ExistsBijection(1..Len(list), ToSet(list))
    BY <1>4 DEF ExistsBijection
<1> QED
    BY <1>1, <1>5, FS_CountingElements, FS_NatBijection

(***************************************************************************)
(* A node that has no place for n knows bucketSize nodes that are closer   *)
(* to n than it is itself, and these are what FindClosestContacts answers: *)
(* whoever looks n up is sent on to them.                                  *)
(***************************************************************************)
THEOREM FullBucketSendsOn ==
    ASSUME NEW me, NEW C, NEW table, TableOf(me, C, table), NEW n \in KademliaIDs, n # me,
           Len(table[GetBucketIndex(me, n)]) >= bucketSize
    PROVE  LET found == FindClosestContacts(me, table, n, bucketSize)
           IN  /\ Cardinality(found) = bucketSize
               /\ \A x \in found : Closer(x, me, n)
<1> DEFINE b == GetBucketIndex(me, n)
           own == ToSet(table[b])
           T == FindClosestContacts(me, table, n, bucketSize)
<1>0. me \in KademliaIDs /\ C \subseteq KademliaIDs \ {me} /\ bucketSize \in Nat
    BY BucketAssumption DEF TableOf
<1>1. b \in BucketIndices /\ table[b] \in Seq(C) /\ SoundList(me, table[b], b, bucketSize)
    BY <1>0, BucketIndexIsFirstDifference DEF TableOf
<1>2. IsFiniteSet(own) /\ Cardinality(own) = Len(table[b])
    BY <1>1, ToSetCardinality
<1>3. Cardinality(own) = bucketSize
    <2>1. Len(table[b]) \in Nat
        BY <1>1, LenProperties
    <2> HIDE DEF own, b
    <2> QED
        BY <1>0, <1>1, <1>2, <2>1 DEF SoundList, b
<1>4. \A x \in own : x \in C /\ GetBucketIndex(me, x) = b
    BY <1>1, ContactsOfBucket
<1>5. PICK r \in Nat :
          LET S == Scanned(table, b, r)
          IN  /\ S \in SUBSET KademliaIDs /\ IsFiniteSet(S)
              /\ T = ClosestOf(S, n, bucketSize)
    BY <1>0, FindClosestFacts
<1> DEFINE S == Scanned(table, b, r)
<1>6. own \subseteq S /\ S \subseteq C
    BY <1>1, <1>5, ScannedContacts
<1>7. /\ S \in SUBSET KademliaIDs /\ IsFiniteSet(S)
      /\ T = ClosestOf(S, n, bucketSize)
    BY <1>5
<1> HIDE DEF S, T
<1>8. /\ T \subseteq S /\ IsFiniteSet(T)
      /\ Cardinality(T) <= bucketSize
      /\ \A c \in S \ T : Cardinality(T) = bucketSize /\ \A t \in T : Closer(t, c, n)
    BY <1>0, <1>7, ClosestOfIsTop
<1>9. Cardinality(T) = bucketSize
    <2>1. CASE own \subseteq T
        <3>1. Cardinality(own) <= Cardinality(T)
            BY <1>8, <2>1, FS_Subset
        <3> QED
            BY <1>0, <1>3, <1>8, <3>1, FS_CardinalityType
    <2>2. CASE ~(own \subseteq T)
        BY <1>6, <1>8, <2>2
    <2> QED
        BY <2>1, <2>2
<1>10. T \subseteq own
    <2> SUFFICES ASSUME NEW t \in T, t \notin own
                 PROVE  FALSE
        OBVIOUS
    <2>1. PICK x \in own : x \notin T
        <3>1. CASE own \subseteq T
            <4>1. own # T
                OBVIOUS
            <4>2. Cardinality(own) # Cardinality(T)
                BY <1>8, <3>1, <4>1, FS_Subset
            <4> QED
                BY <1>3, <1>9, <4>2
        <3> QED
            BY <3>1
    <2>2. Closer(t, x, n)
        BY <1>6, <1>8, <2>1
    <2>3. GetBucketIndex(me, t) # b
        <3>1. t \in GetAllContacts(table)
            BY <1>0, FindClosestEnough DEF T
        <3>2. PICK k \in BucketIndices : t \in ToSet(table[k])
            BY <3>1 DEF GetAllContacts
        <3> QED
            BY <3>2, ContactsOfBucket
    <2>4. Closer(x, t, n)
        BY <1>0, <1>4, <1>6, <1>8, <2>3, OwnBucketIsClosest
    <2>5. x \in KademliaIDs /\ t \in KademliaIDs
        BY <1>0, <1>4, <1>6, <1>8
    <2> QED
        BY <2>2, <2>4, <2>5, CloserIsTotalOrder
<1>11. ASSUME NEW x \in T
       PROVE  Closer(x, me, n)
    BY <1>0, <1>4, <1>10, BucketmateIsCloser
<1> QED
    BY <1>9, <1>11 DEF T

\* A finite set of identifiers has one that is closest to the target.
LEMMA ClosestExists ==
    ASSUME NEW target \in KademliaIDs, NEW S \in SUBSET KademliaIDs, IsFiniteSet(S), S # {}
    PROVE  \E c \in S : \A d \in S : ~Closer(d, c, target)
<1> DEFINE Ranks == {Rank(S, target, c) : c \in S}
<1>1. Ranks \in SUBSET Nat /\ Ranks # {}
    <2>1. \A c \in S : Rank(S, target, c) \in 0..(Cardinality(S) - 1)
        BY RankGrows
    <2>2. \A c \in S : Rank(S, target, c) \in Nat
        BY <2>1, FS_CardinalityType
    <2> QED
        BY <2>2
<1>2. PICK q \in Ranks : \A y \in Ranks : q <= y
    BY <1>1, LeastNat
<1>3. PICK c \in S : q = Rank(S, target, c)
    BY <1>2
<1>4. ASSUME NEW d \in S, Closer(d, c, target)
      PROVE  FALSE
    <2>1. Rank(S, target, d) < Rank(S, target, c)
        BY <1>4, RankGrows
    <2>2. Rank(S, target, c) <= Rank(S, target, d)
        BY <1>2, <1>3
    <2>3. Rank(S, target, c) \in Nat /\ Rank(S, target, d) \in Nat
        BY <1>1
    <2> QED
        BY <2>1, <2>2, <2>3
<1> QED
    BY <1>3, <1>4

(***************************************************************************)
(* Why a lookup of n itself ends at somebody who knows n.  Among the       *)
(* candidates, all of the count closest were asked; each node that was     *)
(* asked knows n now, or sent the lookup on to count closer candidates.    *)
(* The closest one to n that was asked cannot have sent it on.  The same   *)
(* is true inside any set J that count candidates cannot miss.             *)
(***************************************************************************)
THEOREM LookupMeetsKnower ==
    ASSUME NEW n \in KademliaIDs, NEW candidates \in SUBSET KademliaIDs, IsFiniteSet(candidates),
           NEW count \in Nat, Cardinality(candidates) >= count,
           NEW asked \in SUBSET candidates, ClosestOf(candidates, n, count) \subseteq asked,
           NEW knowers, NEW J,
           \A F \in SUBSET candidates : Cardinality(F) >= count => F \cap J # {},
           \A m \in asked :
              \/ m \in knowers
              \/ \E F \in SUBSET candidates : Cardinality(F) >= count /\ \A x \in F : Closer(x, m, n)
    PROVE  asked \cap J \cap knowers # {}
<1> DEFINE T == ClosestOf(candidates, n, count)
<1>1. /\ T \subseteq candidates /\ IsFiniteSet(T)
      /\ \A c \in candidates \ T : Cardinality(T) = count /\ \A t \in T : Closer(t, c, n)
    BY ClosestOfIsTop
<1> HIDE DEF T
<1>2. Cardinality(T) >= count
    <2>1. CASE T = candidates
        BY <2>1
    <2>2. CASE T # candidates
        BY <1>1, <2>2
    <2> QED
        BY <2>1, <2>2
<1>3. PICK t \in T : t \in J
    BY <1>1, <1>2
<1>4. t \in asked
    BY <1>3 DEF T
<1> DEFINE A == asked \cap J
<1>5. PICK m \in A : \A d \in A : ~Closer(d, m, n)
    <2>1. A \in SUBSET KademliaIDs /\ IsFiniteSet(A) /\ A # {}
        BY <1>3, <1>4, FS_Subset
    <2> HIDE DEF A
    <2> QED
        BY <2>1, ClosestExists
<1>6. CASE m \in knowers
    BY <1>5, <1>6
<1>7. CASE m \notin knowers
    <2>1. PICK F \in SUBSET candidates : Cardinality(F) >= count /\ \A x \in F : Closer(x, m, n)
        BY <1>5, <1>7
    <2>2. PICK x \in F : x \in J
        BY <2>1
    <2>3. Closer(x, m, n) /\ x \in candidates
        BY <2>1, <2>2
    <2>4. CASE x \in T
        BY <1>5, <2>2, <2>3, <2>4 DEF T
    <2>5. CASE x \notin T
        <3>1. Closer(t, x, n)
            BY <1>1, <1>3, <2>3, <2>5
        <3>2. t \in KademliaIDs /\ x \in KademliaIDs /\ m \in KademliaIDs
            BY <1>4, <1>5, <2>3
        <3>3. Closer(t, m, n)
            BY <2>3, <3>1, <3>2, CloserIsTotalOrder
        <3> QED
            BY <1>3, <1>4, <1>5, <3>3
    <2> QED
        BY <2>4, <2>5
<1> QED
    BY <1>6, <1>7

=============================================================================
