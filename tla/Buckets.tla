------------------------------ MODULE Buckets -------------------------------
(***************************************************************************)
(* The contents of a routing table, as values: the lists of                *)
(* kademlia/bucket.go and the queries of kademlia/routingtable.go over     *)
(* them.  A bucket is a list of contacts, most recently seen first; a      *)
(* table is a function from bucket indices to buckets, and me is the       *)
(* identifier of the node that owns it.                                    *)
(***************************************************************************)
EXTENDS KademliaID, SequencesExt

CONSTANT bucketSize

ASSUME BucketAssumption == bucketSize \in Nat \ {0}

-----------------------------------------------------------------------------
(* One bucket *)

Holds(list, c) == \E i \in 1..Len(list) : list[i] = c

\* Whether bucket.AddContact(c) returns true.
Accepts(list, c) == Holds(list, c) \/ Len(list) < bucketSize

BucketRemove(list, c) ==
    IF Holds(list, c)
    THEN RemoveAt(list, CHOOSE i \in 1..Len(list) : list[i] = c)
    ELSE list

\* Mutant: a contact that is seen again is pushed without being unlinked.
BucketAddDuplicates(list, c) == IF Accepts(list, c) THEN <<c>> \o list ELSE list

\* Mutant: a full bucket drops its oldest contact, as an LRU cache would.
BucketAddLRU(list, c) ==
    IF Accepts(list, c) THEN <<c>> \o BucketRemove(list, c) ELSE <<c>> \o Front(list)

\* Mutant: a contact that is seen again is moved to the back.
BucketAddToBack(list, c) ==
    IF Holds(list, c) THEN Append(BucketRemove(list, c), c)
    ELSE IF Accepts(list, c) THEN <<c>> \o list ELSE list

BucketAdd(list, c) ==
    IF Accepts(list, c) THEN <<c>> \o BucketRemove(list, c) ELSE list

\* A list of contacts of bucket b, none of them twice, at most size of them.
SoundList(me, list, b, size) ==
    /\ Len(list) <= size
    /\ \A i \in 1..Len(list) : GetBucketIndex(me, list[i]) = b
    /\ \A i, j \in 1..Len(list) : list[i] = list[j] => i = j

-----------------------------------------------------------------------------
(* The table *)

NoContacts == [b \in BucketIndices |-> <<>>]

GetAllContacts(table) == UNION {ToSet(table[b]) : b \in BucketIndices}

IsBucketEmpty(table, b) == table[b] = <<>>

GetClosestNonEmptyBucketIndex(table) ==
    IF \A b \in BucketIndices : IsBucketEmpty(table, b)
    THEN -1
    ELSE CHOOSE b \in BucketIndices :
            /\ ~IsBucketEmpty(table, b)
            /\ \A j \in BucketIndices : j > b => IsBucketEmpty(table, j)

\* The contacts of the buckets at most r away from bucket b.
Scanned(table, b, r) == UNION {ToSet(table[j]) : j \in BucketIndices \cap ((b - r)..(b + r))}

\* Mutant: the scan stops when it reaches the lower end of the table.
ScanRadiusLowerEnd(table, b, count) ==
    LET Stops(r) == Cardinality(Scanned(table, b, r)) >= count \/ b - (r + 1) < 0
    IN  CHOOSE r \in 0..Bits : Stops(r) /\ \A q \in 0..(r - 1) : ~Stops(q)

\* The scan goes outwards from b, a bucket on each side at a time, until it
\* has count contacts or has passed both ends of the table.
ScanRadius(table, b, count) ==
    LET Stops(r) == \/ Cardinality(Scanned(table, b, r)) >= count
                    \/ b - (r + 1) < 0 /\ b + (r + 1) >= Bits
    IN  CHOOSE r \in 0..Bits : Stops(r) /\ \A q \in 0..(r - 1) : ~Stops(q)

\* Mutant: the contacts found are cut to count without being sorted.
FindClosestUnsorted(me, table, target, count) ==
    LET b == GetBucketIndex(me, target)
        scanned == Scanned(table, b, ScanRadius(table, b, count))
    IN  CHOOSE S \in SUBSET scanned :
            Cardinality(S) = (IF Cardinality(scanned) < count THEN Cardinality(scanned) ELSE count)

FindClosestContacts(me, table, target, count) ==
    LET b == GetBucketIndex(me, target)
    IN  ClosestOf(Scanned(table, b, ScanRadius(table, b, count)), target, count)

=============================================================================
