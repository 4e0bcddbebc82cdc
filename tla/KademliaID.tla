----------------------------- MODULE KademliaID -----------------------------
(***************************************************************************)
(* The identifier space of the DHT: kademlia/kademliaid.go and the         *)
(* distance part of kademlia/contact.go.  An identifier is the array of    *)
(* its bits, most significant first; the code uses IDLength * 8 = 256.     *)
(* The code works on bytes, most significant first, so that comparing and  *)
(* xoring arrays of bytes is comparing and xoring arrays of bits.          *)
(***************************************************************************)
EXTENDS Integers, FiniteSets

CONSTANT Bits      \* IDLength * 8

ASSUME BitsAssumption == Bits \in Nat \ {0}

\* The indices of an identifier's bits, which are also those of the buckets.
BucketIndices == 0..(Bits - 1)

KademliaIDs == [BucketIndices -> {0, 1}]

CalcDistance(x, y) == [i \in BucketIndices |-> (x[i] + y[i]) % 2]

Less(x, y) ==
    \E i \in BucketIndices :
        /\ x[i] < y[i]
        /\ \A j \in BucketIndices : j < i => x[j] = y[j]

\* a is strictly closer to target than b: Contact.Less on two contacts whose
\* distance to target has been computed.
Closer(a, b, target) == Less(CalcDistance(a, target), CalcDistance(b, target))

(***************************************************************************)
(* The index of the bucket in which the node me keeps id: the length of    *)
(* their common prefix, and the last bucket when id is me itself.          *)
(***************************************************************************)
GetBucketIndex(me, id) ==
    LET distance == CalcDistance(id, me)
    IN  IF \E i \in BucketIndices : distance[i] # 0
        THEN CHOOSE i \in BucketIndices :
                /\ distance[i] # 0
                /\ \A j \in BucketIndices : j < i => distance[j] = 0
        ELSE Bits - 1

\* Mutant: the bit of the bucket is left to chance like the ones after it.
RandomIDsUnflipped(me, index) ==
    {id \in KademliaIDs : \A j \in BucketIndices : j < index => id[j] = me[j]}

\* Every value generateRandomIDForBucket(index) of the node me may return.
RandomIDsForBucket(me, index) ==
    {id \in KademliaIDs :
        /\ id[index] = 1 - me[index]
        /\ \A j \in BucketIndices : j < index => id[j] = me[j]}

\* ContactCandidates.Sort by distance, then the first count contacts.  Two
\* identifiers never have the same distance, so the set determines the slice.
ClosestOf(S, target, count) ==
    {c \in S : Cardinality({d \in S : Closer(d, c, target)}) < count}

=============================================================================
