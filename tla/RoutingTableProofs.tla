------------------------- MODULE RoutingTableProofs -------------------------
(***************************************************************************)
(* Proofs about the routing table, for every identifier length, every set  *)
(* of contacts and any number of packet handlers and eviction goroutines.  *)
(***************************************************************************)
EXTENDS RoutingTable, BucketsProofs

USE DEF Index

-----------------------------------------------------------------------------
(* Lists *)

\* Every contact has a bucket.
LEMMA IndexType ==
    \A c \in Contacts \cup {Me} : Index(c) \in BucketIndices
BY TableAssumption, BucketIndexIsFirstDifference DEF Index

\* The lists that a bucket or a replacement cache may hold.
Lists == Seq(Contacts)

\* The lemmas on adding to and removing from a bucket, for this table.
LEMMA RemoveProperties ==
    ASSUME NEW list \in Lists, NEW b, NEW size \in Nat, SoundList(Me, list, b, size), NEW c
    PROVE  LET new == BucketRemove(list, c)
           IN  /\ new \in Lists
               /\ SoundList(Me, new, b, size)
               /\ ~Holds(new, c)
               /\ \A d : d # c => (Holds(new, d) <=> Holds(list, d))
               /\ KeepsOrder(new, list)
BY BucketRemoveProperties DEF Lists

LEMMA AddProperties ==
    ASSUME NEW list \in Lists, NEW b, SoundList(Me, list, b, bucketSize),
           NEW c \in Contacts, Index(c) = b
    PROVE  LET new == BucketAdd(list, c)
           IN  /\ new \in Lists
               /\ SoundList(Me, new, b, bucketSize)
               /\ \A d : Holds(list, d) => Holds(new, d)
               /\ new = list \/ new = <<c>> \o BucketRemove(list, c)
<1>1. list \in Seq(Contacts) /\ GetBucketIndex(Me, c) = b
    BY DEF Lists
<1>2. /\ BucketAdd(list, c) \in Seq(Contacts)
      /\ SoundList(Me, BucketAdd(list, c), b, bucketSize)
      /\ \A d : Holds(list, d) => Holds(BucketAdd(list, c), d)
    BY <1>1, BucketAddProperties
<1>3. BucketAdd(list, c) = list \/ BucketAdd(list, c) = <<c>> \o BucketRemove(list, c)
    BY DEF BucketAdd
<1> QED
    BY <1>2, <1>3 DEF Lists

(***************************************************************************)
(* Dropping the oldest candidate leaves a sound replacement cache.         *)
(***************************************************************************)
LEMMA TailProperties ==
    ASSUME NEW queue \in Lists, queue # <<>>, NEW b, NEW size \in Nat,
           SoundList(Me, queue, b, size)
    PROVE  /\ Tail(queue) \in Lists
           /\ Len(Tail(queue)) = Len(queue) - 1
           /\ SoundList(Me, Tail(queue), b, size)
           /\ Head(queue) \in Contacts
           /\ Index(Head(queue)) = b
           /\ \A d : Holds(Tail(queue), d) => Holds(queue, d)
<1>1. Len(queue) \in Nat /\ Len(queue) # 0
    BY LenProperties, EmptySeq DEF Lists
<1>2. /\ Tail(queue) \in Lists
      /\ Len(Tail(queue)) = Len(queue) - 1
      /\ \A i \in 1..Len(Tail(queue)) : Tail(queue)[i] = queue[i + 1]
      /\ Head(queue) \in Contacts
    BY HeadTailProperties DEF Lists
<1>3. Head(queue) = queue[1]
    BY <1>1 DEF Lists
<1>4. SoundList(Me, Tail(queue), b, size)
    <2>1. \A i \in 1..Len(Tail(queue)) : i + 1 \in 1..Len(queue)
        BY <1>1, <1>2
    <2>2. Len(Tail(queue)) <= size
        BY <1>1, <1>2 DEF SoundList
    <2>3. \A i \in 1..Len(Tail(queue)) : Index(Tail(queue)[i]) = b
        BY <1>2, <2>1 DEF SoundList
    <2>4. ASSUME NEW i \in 1..Len(Tail(queue)), NEW j \in 1..Len(Tail(queue)),
                 Tail(queue)[i] = Tail(queue)[j]
          PROVE  i = j
        <3>1. i + 1 = j + 1
            BY <1>2, <2>1, <2>4 DEF SoundList
        <3> QED
            BY <1>1, <1>2, <3>1
    <2> QED
        BY <2>2, <2>3, <2>4 DEF SoundList
<1>5. Index(Head(queue)) = b
    BY <1>1, <1>3 DEF SoundList
<1>6. ASSUME NEW d, Holds(Tail(queue), d)
      PROVE  Holds(queue, d)
    <2>1. PICK i \in 1..Len(Tail(queue)) : Tail(queue)[i] = d
        BY <1>6 DEF Holds
    <2>2. i + 1 \in 1..Len(queue) /\ queue[i + 1] = d
        BY <1>1, <1>2, <2>1
    <2> QED
        BY <2>2 DEF Holds
<1> QED
    BY <1>2, <1>4, <1>5, <1>6

\* A candidate that is not in the list may be appended while there is room.
LEMMA AppendSound ==
    ASSUME NEW queue \in Lists, NEW b, NEW size \in Nat, SoundList(Me, queue, b, size),
           NEW c \in Contacts, Index(c) = b, ~Holds(queue, c), Len(queue) < size
    PROVE  /\ Append(queue, c) \in Lists
           /\ SoundList(Me, Append(queue, c), b, size)
           /\ Append(queue, c) # <<>>
<1> DEFINE new == Append(queue, c)
<1>1. Len(queue) \in Nat
    BY LenProperties DEF Lists
<1>2. /\ new \in Lists
      /\ new # <<>>
      /\ Len(new) = Len(queue) + 1
      /\ \A i \in 1..Len(queue) : new[i] = queue[i]
      /\ new[Len(queue) + 1] = c
    BY AppendProperties DEF Lists
<1> HIDE DEF new
<1>3. \A i \in 1..Len(new) : i \in 1..Len(queue) \/ i = Len(queue) + 1
    BY <1>1, <1>2
<1>4. \A i \in 1..Len(new) : Index(new[i]) = b
    BY <1>2, <1>3 DEF SoundList
<1>5. ASSUME NEW i \in 1..Len(new), NEW j \in 1..Len(new), new[i] = new[j]
      PROVE  i = j
    <2>1. \A k \in 1..Len(queue) : new[k] # c
        BY <1>2 DEF Holds
    <2> QED
        BY <1>2, <1>3, <1>5, <2>1 DEF SoundList
<1>6. Len(new) <= size
    BY <1>1, <1>2
<1> QED
    BY <1>2, <1>4, <1>5, <1>6 DEF SoundList, new

(***************************************************************************)
(* Offering a candidate to a sound replacement cache of its bucket leaves  *)
(* it sound and not empty.                                                 *)
(***************************************************************************)
LEMMA EnqueueProperties ==
    ASSUME NEW queue \in Lists, NEW b, SoundList(Me, queue, b, replacementCacheSize),
           NEW c \in Contacts, Index(c) = b
    PROVE  LET new == Enqueue(queue, c)
           IN  /\ new \in Lists
               /\ SoundList(Me, new, b, replacementCacheSize)
               /\ new # <<>>
<1>0. /\ Len(queue) \in Nat
      /\ replacementCacheSize \in Nat
      /\ replacementCacheSize # 0
      /\ Len(queue) <= replacementCacheSize
    BY LenProperties, TableAssumption DEF Lists, SoundList
<1>1. CASE Holds(queue, c)
    <2>1. Enqueue(queue, c) = queue
        BY <1>1 DEF Enqueue
    <2>2. Len(queue) # 0
        BY <1>0, <1>1 DEF Holds
    <2>3. queue # <<>>
        BY <2>2, EmptySeq
    <2> QED
        BY <2>1, <2>3
<1>2. CASE ~Holds(queue, c) /\ Len(queue) < replacementCacheSize
    <2>1. Enqueue(queue, c) = Append(queue, c)
        BY <1>0, <1>2 DEF Enqueue
    <2> QED
        BY <1>0, <1>2, <2>1, AppendSound
<1>3. CASE ~Holds(queue, c) /\ ~(Len(queue) < replacementCacheSize)
    <2>1. Enqueue(queue, c) = Append(Tail(queue), c)
        BY <1>0, <1>3 DEF Enqueue
    <2>2. queue # <<>>
        BY <1>0, <1>3, EmptySeq
    <2>3. /\ Tail(queue) \in Lists
          /\ Len(Tail(queue)) = Len(queue) - 1
          /\ SoundList(Me, Tail(queue), b, replacementCacheSize)
          /\ ~Holds(Tail(queue), c)
        BY <1>0, <1>3, <2>2, TailProperties
    <2>4. Len(Tail(queue)) < replacementCacheSize
        BY <1>0, <2>3
    <2> QED
        BY <1>0, <2>1, <2>3, <2>4, AppendSound
<1> QED
    BY <1>1, <1>2, <1>3

\* Replacing one list of a table of sound lists by a sound one.
LEMMA UpdateSound ==
    ASSUME NEW f \in [BucketIndices -> Lists], NEW size,
           \A b \in BucketIndices : SoundList(Me, f[b], b, size),
           NEW k \in BucketIndices, NEW new \in Lists, SoundList(Me, new, k, size)
    PROVE  /\ [f EXCEPT ![k] = new] \in [BucketIndices -> Lists]
           /\ \A b \in BucketIndices : SoundList(Me, [f EXCEPT ![k] = new][b], b, size)
OBVIOUS

-----------------------------------------------------------------------------
(* The inductive invariant *)

(***************************************************************************)
(* What the goroutines remember while they hold no lock: a handler that    *)
(* found its bucket full remembers two contacts of one bucket, and a probe *)
(* works on a contact of the bucket whose flag it holds.  Without it the   *)
(* lists could not be shown to hold only contacts of their own bucket.     *)
(***************************************************************************)
LocalsSound ==
    /\ \A h \in Handlers : handler[h].pc = "full" =>
          /\ handler[h].cand \in Contacts
          /\ handler[h].oldest \in Contacts
          /\ Index(handler[h].oldest) = Index(handler[h].cand)
    /\ \A p \in Probes : probe[p].pc \in {"ping", "add"} =>
          /\ probe[p].contact \in Contacts
          /\ Index(probe[p].contact) = probe[p].bucket

TableInv == TypeOK /\ BucketsSound /\ ReplacementsSound /\ LocalsSound

\* A step that puts contact c of bucket k at the front of that bucket.
LEMMA FrontStep ==
    ASSUME TableInv, NEW c \in Contacts, NEW k \in BucketIndices, Index(c) = k,
           buckets' = [buckets EXCEPT ![k] = BucketAdd(@, c)]
    PROVE  /\ buckets' \in [BucketIndices -> Seq(Contacts)]
           /\ BucketsSound'
<1>1. /\ buckets \in [BucketIndices -> Lists]
      /\ \A b \in BucketIndices : SoundList(Me, buckets[b], b, bucketSize)
    BY DEF TableInv, TypeOK, Lists, BucketsSound
<1>2. buckets' = [buckets EXCEPT ![k] = BucketAdd(buckets[k], c)]
    BY <1>1
<1>3. /\ BucketAdd(buckets[k], c) \in Lists
      /\ SoundList(Me, BucketAdd(buckets[k], c), k, bucketSize)
    BY <1>1, AddProperties
<1>4. /\ buckets' \in [BucketIndices -> Lists]
      /\ \A b \in BucketIndices : SoundList(Me, buckets'[b], b, bucketSize)
    BY <1>1, <1>2, <1>3, UpdateSound
<1> QED
    BY <1>4 DEF BucketsSound, SoundList, Lists

\* A step that offers candidate c to the replacement cache of its bucket k.
LEMMA QueueStep ==
    ASSUME TableInv, NEW c \in Contacts, NEW k \in BucketIndices, Index(c) = k,
           replacements' = [replacements EXCEPT ![k] = Enqueue(@, c)]
    PROVE  /\ replacements' \in [BucketIndices -> Seq(Contacts)]
           /\ ReplacementsSound'
           /\ replacements'[k] # <<>>
           /\ \A b \in BucketIndices : b # k => replacements'[b] = replacements[b]
<1>1. /\ replacements \in [BucketIndices -> Lists]
      /\ \A b \in BucketIndices : SoundList(Me, replacements[b], b, replacementCacheSize)
    BY DEF TableInv, TypeOK, Lists, ReplacementsSound
<1>2. replacements' = [replacements EXCEPT ![k] = Enqueue(replacements[k], c)]
    BY <1>1
<1>3. /\ Enqueue(replacements[k], c) \in Lists
      /\ SoundList(Me, Enqueue(replacements[k], c), k, replacementCacheSize)
      /\ Enqueue(replacements[k], c) # <<>>
    BY <1>1, EnqueueProperties
<1>4. /\ replacements' \in [BucketIndices -> Lists]
      /\ \A b \in BucketIndices : SoundList(Me, replacements'[b], b, replacementCacheSize)
    BY <1>1, <1>2, <1>3, UpdateSound
<1>5. replacements'[k] # <<>> /\ \A b \in BucketIndices : b # k => replacements'[b] = replacements[b]
    BY <1>1, <1>2, <1>3
<1> QED
    BY <1>4, <1>5 DEF ReplacementsSound, SoundList, Lists

\* A probe that moves on: its place in the code and its local contact change.
LEMMA ProbeStepType ==
    ASSUME TypeOK, NEW p \in Probes,
           NEW pc \in {"ping", "pop", "add", "clear", "done"},
           NEW c \in Contacts \cup {Me},
           probe' = [probe EXCEPT ![p].pc = pc, ![p].contact = c]
    PROVE  probe' \in [Probes -> [pc : {"idle", "ping", "pop", "add", "clear", "done"},
                                  bucket : BucketIndices, contact : Contacts \cup {Me}]]
<1> DEFINE Locals == [pc : {"idle", "ping", "pop", "add", "clear", "done"},
                      bucket : BucketIndices, contact : Contacts \cup {Me}]
<1>1. probe \in [Probes -> Locals]
    BY DEF TypeOK
<1>2. [probe[p] EXCEPT !.pc = pc, !.contact = c] \in Locals
    BY <1>1
<1>3. probe' = [probe EXCEPT ![p] = [probe[p] EXCEPT !.pc = pc, !.contact = c]]
    BY <1>1
<1> HIDE DEF Locals
<1>4. probe' \in [Probes -> Locals]
    BY <1>1, <1>2, <1>3
<1> QED
    BY <1>4 DEF Locals

\* Its locals are sound if its new contact is one of its bucket.
LEMMA ProbeStepLocals ==
    ASSUME TypeOK, LocalsSound, NEW p \in Probes,
           NEW pc \in {"ping", "pop", "add", "clear", "done"},
           NEW c \in Contacts \cup {Me},
           probe' = [probe EXCEPT ![p].pc = pc, ![p].contact = c],
           handler' = handler,
           pc \in {"ping", "add"} => c \in Contacts /\ Index(c) = probe[p].bucket
    PROVE  LocalsSound'
<1>0. probe \in [Probes -> [pc : {"idle", "ping", "pop", "add", "clear", "done"},
                          bucket : BucketIndices, contact : Contacts \cup {Me}]]
    BY DEF TypeOK
<1>1. /\ probe'[p] = [pc |-> pc, bucket |-> probe[p].bucket, contact |-> c]
      /\ \A q \in Probes : q # p => probe'[q] = probe[q]
    BY <1>0
<1>2. /\ probe'[p].pc = pc
      /\ probe'[p].bucket = probe[p].bucket
      /\ probe'[p].contact = c
    BY <1>1
<1> QED
    BY <1>1, <1>2 DEF LocalsSound

\* The eviction goroutines that have not run evictWg.Done().
Busy == {p \in Probes : probe[p].pc # "idle"}

\* It is one of them before and after.
LEMMA ProbeStepBusy ==
    ASSUME TypeOK, NEW p \in Probes, p \in Busy,
           NEW pc \in {"ping", "pop", "add", "clear", "done"},
           NEW c \in Contacts \cup {Me},
           probe' = [probe EXCEPT ![p].pc = pc, ![p].contact = c]
    PROVE  Busy' = Busy
<1>0. probe \in [Probes -> [pc : {"idle", "ping", "pop", "add", "clear", "done"},
                          bucket : BucketIndices, contact : Contacts \cup {Me}]]
    BY DEF TypeOK
<1>1. /\ probe'[p] = [pc |-> pc, bucket |-> probe[p].bucket, contact |-> c]
      /\ \A q \in Probes : q # p => probe'[q] = probe[q]
    BY <1>0
<1>2. probe'[p].pc # "idle"
    BY <1>1
<1> QED
    BY <1>1, <1>2 DEF Busy

(***************************************************************************)
(* The counter of evictWg follows the goroutines, whatever the state of    *)
(* the lists; it never falls below zero, which would panic.                *)
(***************************************************************************)
LEMMA WaitNext ==
    ASSUME TypeOK, WaitEvictionSound, [Next]_vars
    PROVE  WaitEvictionSound' /\ evictWg' \in Nat
<1>1. /\ IsFiniteSet(Busy) /\ IsFiniteSet(Busy')
      /\ Cardinality(Busy) \in Nat /\ Cardinality(Busy') \in Nat
      /\ evictWg = Cardinality(Busy)
    BY TableAssumption, FS_Subset, FS_CardinalityType DEF Busy, WaitEvictionSound
<1>2. SUFFICES evictWg' = Cardinality(Busy')
    BY <1>1 DEF WaitEvictionSound, Busy
<1>3. ASSUME NEW h \in Handlers, NEW p \in Probes, UpdateProbes(h, p)
      PROVE  evictWg' = Cardinality(Busy')
    <2>1. p \notin Busy /\ Busy' = Busy \cup {p} /\ evictWg' = evictWg + 1
        BY <1>3 DEF UpdateProbes, Busy, TypeOK
    <2> QED
        BY <1>1, <2>1, FS_AddElement
<1>4. ASSUME NEW p \in Probes, ProbeDone(p)
      PROVE  evictWg' = Cardinality(Busy')
    <2>1. p \in Busy /\ Busy' = Busy \ {p} /\ evictWg' = evictWg - 1
        BY <1>4 DEF ProbeDone, Busy, TypeOK, IdleProbe
    <2> QED
        BY <1>1, <2>1, FS_RemoveElement
<1>5. ASSUME NEW p \in Probes,
             \/ ProbeEvict(p) \/ ProbePop(p) \/ ProbeAdd(p) \/ ProbeKeep(p) \/ ProbeClear(p)
      PROVE  evictWg' = Cardinality(Busy')
    <2>1. Busy' = Busy /\ evictWg' = evictWg
        <3>1. CASE ProbeEvict(p)
            BY <3>1, ProbeStepBusy DEF ProbeEvict, Busy
        <3>2. CASE ProbePop(p)
            <4>1. evictWg' = evictWg /\ probe[p].pc = "pop"
                BY <3>2 DEF ProbePop
            <4>2. \A q \in Probes : q # p => probe'[q] = probe[q]
                BY <3>2 DEF ProbePop, TypeOK
            <4>3. probe'[p].pc \in {"add", "clear"}
                BY <3>2 DEF ProbePop, TypeOK
            <4> QED
                BY <4>1, <4>2, <4>3 DEF Busy
        <3>3. CASE ProbeAdd(p)
            BY <3>3, ProbeStepBusy DEF ProbeAdd, Busy
        <3>4. CASE ProbeKeep(p)
            BY <3>4, ProbeStepBusy DEF ProbeKeep, Busy
        <3>5. CASE ProbeClear(p)
            BY <3>5 DEF ProbeClear, Busy, TypeOK
        <3> QED
            BY <1>5, <3>1, <3>2, <3>3, <3>4, <3>5
    <2> QED
        BY <1>1, <2>1
<1>6. ASSUME UNCHANGED <<probe, evictWg>>
      PROVE  evictWg' = Cardinality(Busy')
    BY <1>1, <1>6 DEF Busy
<1> QED
    BY <1>3, <1>4, <1>5, <1>6
    DEF Next, AddContact, UpdateTaken, UpdateFull, UpdateQueued, HandlerStep, ProbeStep, vars

LEMMA TableInvInit == Init => TableInv
<1> SUFFICES ASSUME Init
             PROVE  TableInv
    OBVIOUS
<1>1. 0 \in BucketIndices
    BY BitsAssumption DEF BucketIndices
<1>2. <<>> \in Seq(Contacts) /\ Len(<<>>) = 0
    BY EmptySeq
<1>3. TypeOK
    BY <1>1, <1>2 DEF Init, TypeOK, IdleHandler, IdleProbe
<1>4. \A b \in BucketIndices, size \in Nat : SoundList(Me, <<>>, b, size)
    BY <1>2 DEF SoundList
<1>5. BucketsSound /\ ReplacementsSound
    BY <1>4, TableAssumption, BucketAssumption DEF Init, NoContacts, BucketsSound, ReplacementsSound
<1>6. LocalsSound
    BY DEF Init, LocalsSound, IdleHandler, IdleProbe
<1> QED
    BY <1>3, <1>5, <1>6 DEF TableInv

LEMMA TableInvNext == TableInv /\ WaitEvictionSound /\ [Next]_vars => TableInv'
<1> SUFFICES ASSUME TableInv, WaitEvictionSound, [Next]_vars
             PROVE  TableInv'
    OBVIOUS
<1> USE DEF TableInv
<1>1. ASSUME NEW c \in Contacts, AddContact(c)
      PROVE  TableInv'
    <2>1. /\ buckets' \in [BucketIndices -> Seq(Contacts)]
          /\ BucketsSound'
        BY <1>1, IndexType, FrontStep DEF AddContact
    <2>2. UNCHANGED <<replacements, inFlight, evictWg, handler, probe>>
        BY <1>1 DEF AddContact
    <2> QED
        BY <2>1, <2>2 DEF TypeOK, ReplacementsSound, LocalsSound
<1>2. ASSUME NEW h \in Handlers, NEW c \in Contacts \cup {Me}, UpdateTaken(h, c)
      PROVE  TableInv'
    <2>1. /\ buckets' \in [BucketIndices -> Seq(Contacts)]
          /\ BucketsSound'
        BY <1>2, IndexType, FrontStep DEF UpdateTaken
    <2>2. UNCHANGED <<replacements, inFlight, evictWg, handler, probe>>
        BY <1>2 DEF UpdateTaken
    <2> QED
        BY <2>1, <2>2 DEF TypeOK, ReplacementsSound, LocalsSound
<1>3. ASSUME NEW h \in Handlers, NEW c \in Contacts \cup {Me}, UpdateFull(h, c)
      PROVE  TableInv'
    <2> DEFINE list == buckets[Index(c)]
    <2>1. c \in Contacts /\ Index(c) \in BucketIndices
        BY <1>3, IndexType DEF UpdateFull
    <2>2. list \in Lists /\ SoundList(Me, list, Index(c), bucketSize)
        BY <2>1 DEF TypeOK, BucketsSound, Lists
    <2>3. Len(list) \in 1..Len(list)
        <3>1. Len(list) \in Nat /\ bucketSize \in Nat \ {0}
            BY <2>2, LenProperties, BucketAssumption DEF Lists
        <3>2. ~(Len(list) < bucketSize)
            BY <1>3 DEF UpdateFull, Accepts
        <3> QED
            BY <3>1, <3>2
    <2>4. Last(list) \in Contacts /\ Index(Last(list)) = Index(c)
        BY <2>2, <2>3, ElementOfSeq DEF Last, SoundList, Lists
    <2>5. handler' = [handler EXCEPT ![h] =
                        [pc |-> "full", cand |-> c, oldest |-> Last(list)]]
        BY <1>3 DEF UpdateFull
    <2>6. UNCHANGED <<buckets, replacements, inFlight, evictWg, probe>>
        BY <1>3 DEF UpdateFull
    <2>7. TypeOK'
        BY <2>1, <2>4, <2>5, <2>6 DEF TypeOK
    <2>8. LocalsSound'
        BY <2>1, <2>4, <2>5, <2>6 DEF TypeOK, LocalsSound
    <2> QED
        BY <2>6, <2>7, <2>8 DEF BucketsSound, ReplacementsSound
<1>4. ASSUME NEW h \in Handlers, UpdateQueued(h)
      PROVE  TableInv'
    <2>1. /\ handler[h].cand \in Contacts
          /\ Index(handler[h].cand) \in BucketIndices
        BY <1>4, IndexType DEF UpdateQueued, LocalsSound
    <2>2. /\ replacements' \in [BucketIndices -> Seq(Contacts)]
          /\ ReplacementsSound'
        BY <1>4, <2>1, QueueStep DEF UpdateQueued
    <2>3. /\ handler' = [handler EXCEPT ![h] = IdleHandler]
          /\ UNCHANGED <<buckets, inFlight, evictWg, probe>>
        BY <1>4 DEF UpdateQueued
    <2>4. TypeOK'
        BY <2>2, <2>3 DEF TypeOK, IdleHandler
    <2>5. LocalsSound'
        BY <2>3 DEF TypeOK, LocalsSound, IdleHandler
    <2> QED
        BY <2>2, <2>3, <2>4, <2>5 DEF BucketsSound
<1>5. ASSUME NEW h \in Handlers, NEW p \in Probes, UpdateProbes(h, p)
      PROVE  TableInv'
    <2>1. /\ handler[h].cand \in Contacts
          /\ handler[h].oldest \in Contacts
          /\ Index(handler[h].oldest) = Index(handler[h].cand)
          /\ Index(handler[h].cand) \in BucketIndices
        BY <1>5, IndexType DEF UpdateProbes, LocalsSound
    <2>2. /\ replacements' \in [BucketIndices -> Seq(Contacts)]
          /\ ReplacementsSound'
        BY <1>5, <2>1, QueueStep DEF UpdateProbes
    <2>3. /\ handler' = [handler EXCEPT ![h] = IdleHandler]
          /\ probe' = [probe EXCEPT ![p] = [pc |-> "ping", bucket |-> Index(handler[h].cand),
                                            contact |-> handler[h].oldest]]
          /\ inFlight' = inFlight \cup {Index(handler[h].cand)}
          /\ evictWg' = evictWg + 1
          /\ buckets' = buckets
        BY <1>5 DEF UpdateProbes
    <2>4. TypeOK'
        BY <2>1, <2>2, <2>3 DEF TypeOK, IdleHandler
    <2>5. LocalsSound'
        BY <2>1, <2>3 DEF TypeOK, LocalsSound, IdleHandler
    <2> QED
        BY <2>2, <2>3, <2>4, <2>5 DEF BucketsSound
<1>6. ASSUME NEW p \in Probes, ProbeEvict(p)
      PROVE  TableInv'
    <2> DEFINE target == probe[p].contact
               k == Index(target)
               new == BucketRemove(buckets[k], target)
    <2>1. target \in Contacts /\ k \in BucketIndices
        BY <1>6, IndexType DEF ProbeEvict, LocalsSound
    <2>2. /\ buckets \in [BucketIndices -> Lists]
          /\ \A b \in BucketIndices : SoundList(Me, buckets[b], b, bucketSize)
        BY DEF TypeOK, Lists, BucketsSound
    <2>3. buckets' = [buckets EXCEPT ![k] = new]
        BY <1>6, <2>1, <2>2 DEF ProbeEvict
    <2>4. new \in Lists /\ SoundList(Me, new, k, bucketSize)
        BY <2>1, <2>2, RemoveProperties, BucketAssumption
    <2> HIDE DEF new
    <2>5. /\ buckets' \in [BucketIndices -> Lists]
          /\ \A b \in BucketIndices : SoundList(Me, buckets'[b], b, bucketSize)
        BY <2>1, <2>2, <2>3, <2>4, UpdateSound
    <2>6. BucketsSound'
        BY <2>5 DEF BucketsSound, SoundList
    <2>7. /\ probe' = [probe EXCEPT ![p].pc = "pop", ![p].contact = Me]
          /\ UNCHANGED <<replacements, inFlight, evictWg, handler>>
        BY <1>6 DEF ProbeEvict
    <2>8. TypeOK'
        <3>1. buckets' \in [BucketIndices -> Seq(Contacts)]
            BY <2>5 DEF Lists
        <3> QED
            BY <2>7, <3>1, ProbeStepType DEF TypeOK
    <2>9. LocalsSound'
        BY <2>7, ProbeStepLocals
    <2> QED
        BY <2>6, <2>7, <2>8, <2>9 DEF ReplacementsSound
<1>7. ASSUME NEW p \in Probes, ProbePop(p)
      PROVE  TableInv'
    <2> DEFINE k == probe[p].bucket
               queue == replacements[k]
    <2>1. k \in BucketIndices
        BY DEF TypeOK
    <2>2. /\ replacements \in [BucketIndices -> Lists]
          /\ \A b \in BucketIndices : SoundList(Me, replacements[b], b, replacementCacheSize)
        BY DEF TypeOK, Lists, ReplacementsSound
    <2>3. CASE queue # <<>>
        <3>1. /\ replacements' = [replacements EXCEPT ![k] = Tail(queue)]
              /\ probe' = [probe EXCEPT ![p].pc = "add", ![p].contact = Head(queue)]
              /\ UNCHANGED <<buckets, inFlight, evictWg, handler>>
            BY <1>7, <2>3 DEF ProbePop
        <3>2. /\ Tail(queue) \in Lists
              /\ SoundList(Me, Tail(queue), k, replacementCacheSize)
              /\ Head(queue) \in Contacts
              /\ Index(Head(queue)) = k
            BY <2>1, <2>2, <2>3, TailProperties, TableAssumption
        <3>3. /\ replacements' \in [BucketIndices -> Lists]
              /\ \A b \in BucketIndices : SoundList(Me, replacements'[b], b, replacementCacheSize)
            BY <2>1, <2>2, <3>1, <3>2, UpdateSound
        <3>4. ReplacementsSound'
            BY <3>3 DEF ReplacementsSound, SoundList
        <3>5. TypeOK'
            <4>1. replacements' \in [BucketIndices -> Seq(Contacts)]
                BY <3>3 DEF Lists
            <4> QED
                BY <3>1, <3>2, <4>1, ProbeStepType DEF TypeOK
        <3>6. LocalsSound'
            BY <3>1, <3>2, ProbeStepLocals
        <3> QED
            BY <3>1, <3>4, <3>5, <3>6 DEF BucketsSound
    <2>4. CASE queue = <<>>
        <3>1. /\ probe' = [probe EXCEPT ![p].pc = "clear"]
              /\ UNCHANGED <<buckets, replacements, inFlight, evictWg, handler>>
            BY <1>7, <2>4 DEF ProbePop
        <3>2. TypeOK'
            <4>1. probe[p] \in [pc : {"idle", "ping", "pop", "add", "clear", "done"},
                                bucket : BucketIndices, contact : Contacts \cup {Me}]
                BY DEF TypeOK
            <4>2. [probe[p] EXCEPT !.pc = "clear"] \in
                    [pc : {"idle", "ping", "pop", "add", "clear", "done"},
                     bucket : BucketIndices, contact : Contacts \cup {Me}]
                BY <4>1
            <4>3. probe' = [probe EXCEPT ![p] = [probe[p] EXCEPT !.pc = "clear"]]
                BY <3>1, <4>1 DEF TypeOK
            <4> QED
                BY <3>1, <4>2, <4>3 DEF TypeOK
        <3>3. LocalsSound'
            BY <3>1 DEF TypeOK, LocalsSound
        <3> QED
            BY <3>1, <3>2, <3>3 DEF BucketsSound, ReplacementsSound
    <2> QED
        BY <2>3, <2>4
<1>8. ASSUME NEW p \in Probes, ProbeAdd(p)
      PROVE  TableInv'
    <2>1. /\ probe[p].contact \in Contacts
          /\ Index(probe[p].contact) \in BucketIndices
        BY <1>8, IndexType DEF ProbeAdd, LocalsSound
    <2>2. /\ buckets' \in [BucketIndices -> Seq(Contacts)]
          /\ BucketsSound'
        BY <1>8, <2>1, FrontStep DEF ProbeAdd
    <2>3. /\ probe' = [probe EXCEPT ![p].pc = "clear", ![p].contact = Me]
          /\ UNCHANGED <<replacements, inFlight, evictWg, handler>>
        BY <1>8 DEF ProbeAdd
    <2>4. TypeOK'
        BY <2>2, <2>3, ProbeStepType DEF TypeOK
    <2>5. LocalsSound'
        BY <2>3, ProbeStepLocals
    <2> QED
        BY <2>2, <2>3, <2>4, <2>5 DEF ReplacementsSound
<1>9. ASSUME NEW p \in Probes, ProbeKeep(p)
      PROVE  TableInv'
    <2>1. /\ probe[p].contact \in Contacts
          /\ Index(probe[p].contact) = probe[p].bucket
          /\ probe[p].bucket \in BucketIndices
        BY <1>9 DEF ProbeKeep, LocalsSound, TypeOK
    <2>2. /\ buckets' \in [BucketIndices -> Seq(Contacts)]
          /\ BucketsSound'
        BY <1>9, <2>1, FrontStep DEF ProbeKeep
    <2>3. /\ probe' = [probe EXCEPT ![p].pc = "clear", ![p].contact = Me]
          /\ UNCHANGED <<replacements, inFlight, evictWg, handler>>
        BY <1>9 DEF ProbeKeep
    <2>4. TypeOK'
        BY <2>2, <2>3, ProbeStepType DEF TypeOK
    <2>5. LocalsSound'
        BY <2>3, ProbeStepLocals
    <2> QED
        BY <2>2, <2>3, <2>4, <2>5 DEF ReplacementsSound
<1>10. ASSUME NEW p \in Probes, ProbeClear(p)
       PROVE  TableInv'
    BY <1>10 DEF ProbeClear, TypeOK, BucketsSound, ReplacementsSound, LocalsSound
<1>11. ASSUME NEW p \in Probes, ProbeDone(p)
       PROVE  TableInv'
    <2>1. /\ probe' = [probe EXCEPT ![p] = IdleProbe]
          /\ UNCHANGED <<buckets, replacements, inFlight, handler>>
        BY <1>11 DEF ProbeDone
    <2>2. evictWg' \in Nat
        BY WaitNext
    <2>3. 0 \in BucketIndices
        BY BitsAssumption DEF BucketIndices
    <2>4. TypeOK'
        BY <2>1, <2>2, <2>3 DEF TypeOK, IdleProbe
    <2> QED
        BY <2>1, <2>4 DEF TypeOK, BucketsSound, ReplacementsSound, LocalsSound, IdleProbe
<1>12. CASE UNCHANGED vars
    BY <1>12 DEF vars, TypeOK, BucketsSound, ReplacementsSound, LocalsSound
<1> QED
    BY <1>1, <1>2, <1>3, <1>4, <1>5, <1>6, <1>7, <1>8, <1>9, <1>10, <1>11, <1>12
    DEF Next, HandlerStep, ProbeStep

-----------------------------------------------------------------------------
(* One eviction at a time *)

ProbeInv == OneProbePerBucket /\ EvictionHasReplacement

\* A step that starts and ends no probe.
LEMMA SameProbes ==
    ASSUME OneProbePerBucket, inFlight' = inFlight,
           \A q \in Probes : /\ Probing(q)' <=> Probing(q)
                             /\ probe'[q].bucket = probe[q].bucket
    PROVE  OneProbePerBucket'
<1>1. {q \in Probes : Probing(q)}' = {q \in Probes : Probing(q)}
    OBVIOUS
<1>2. {probe[p].bucket : p \in {q \in Probes : Probing(q)}}'
        = {probe[p].bucket : p \in {q \in Probes : Probing(q)}}
    BY <1>1
<1>3. \A p, q \in Probes :
         Probing(p)' /\ Probing(q)' /\ probe'[p].bucket = probe'[q].bucket => p = q
    BY DEF OneProbePerBucket
<1> QED
    BY <1>2, <1>3 DEF OneProbePerBucket

LEMMA ProbeInvNext == TableInv /\ ProbeInv /\ [Next]_vars => ProbeInv'
<1> SUFFICES ASSUME TableInv, OneProbePerBucket, EvictionHasReplacement, [Next]_vars
             PROVE  OneProbePerBucket' /\ EvictionHasReplacement'
    BY DEF ProbeInv
<1>0. TypeOK /\ LocalsSound
    BY DEF TableInv
<1>1. ASSUME UNCHANGED <<replacements, inFlight, probe>>
      PROVE  OneProbePerBucket' /\ EvictionHasReplacement'
    BY <1>1 DEF OneProbePerBucket, EvictionHasReplacement, Probing
<1>2. ASSUME NEW h \in Handlers, UpdateQueued(h)
      PROVE  OneProbePerBucket' /\ EvictionHasReplacement'
    <2> DEFINE k == Index(handler[h].cand)
    <2>1. handler[h].cand \in Contacts /\ k \in BucketIndices
        BY <1>0, <1>2, IndexType DEF UpdateQueued, LocalsSound
    <2>2. /\ replacements'[k] # <<>>
          /\ \A b \in BucketIndices : b # k => replacements'[b] = replacements[b]
        BY <1>2, <2>1, QueueStep DEF UpdateQueued
    <2>3. UNCHANGED <<inFlight, probe>>
        BY <1>2 DEF UpdateQueued
    <2>4. EvictionHasReplacement'
        BY <1>0, <2>2, <2>3 DEF EvictionHasReplacement, TypeOK
    <2> QED
        BY <2>3, <2>4 DEF OneProbePerBucket, Probing
<1>3. ASSUME NEW h \in Handlers, NEW p \in Probes, UpdateProbes(h, p)
      PROVE  OneProbePerBucket' /\ EvictionHasReplacement'
    <2> DEFINE k == Index(handler[h].cand)
    <2>1. handler[h].cand \in Contacts /\ k \in BucketIndices
        BY <1>0, <1>3, IndexType DEF UpdateProbes, LocalsSound
    <2>2. /\ replacements'[k] # <<>>
          /\ \A b \in BucketIndices : b # k => replacements'[b] = replacements[b]
        BY <1>3, <2>1, QueueStep DEF UpdateProbes
    <2>3. /\ k \notin inFlight
          /\ ~Probing(p)
          /\ inFlight' = inFlight \cup {k}
        BY <1>3 DEF UpdateProbes, Probing
    <2>4. /\ probe'[p].pc = "ping" /\ probe'[p].bucket = k
          /\ \A q \in Probes : q # p => probe'[q] = probe[q]
        BY <1>0, <1>3 DEF UpdateProbes, TypeOK
    <2>5. /\ Probing(p)'
          /\ \A q \in Probes : q # p => (Probing(q)' <=> Probing(q))
        BY <2>4 DEF Probing
    <2>6. EvictionHasReplacement'
        <3> SUFFICES ASSUME NEW q \in Probes, probe'[q].pc \in {"ping", "pop"}
                     PROVE  replacements'[probe'[q].bucket] # <<>>
            BY DEF EvictionHasReplacement
        <3>1. CASE q = p
            BY <2>2, <2>4, <3>1
        <3>2. CASE q # p
            BY <1>0, <2>2, <2>4, <3>2 DEF EvictionHasReplacement, TypeOK
        <3> QED
            BY <3>1, <3>2
    <2>7. \A q \in Probes : Probing(q) => probe[q].bucket # k
        BY <2>3 DEF OneProbePerBucket
    <2>8. \A q, r \in Probes :
             Probing(q)' /\ Probing(r)' /\ probe'[q].bucket = probe'[r].bucket => q = r
        BY <2>4, <2>5, <2>7 DEF OneProbePerBucket
    <2>9. inFlight' = {probe'[q].bucket : q \in {r \in Probes : Probing(r)'}}
        <3>1. {r \in Probes : Probing(r)'} = {r \in Probes : Probing(r)} \cup {p}
            BY <2>5
        <3>2. \A r \in Probes : Probing(r) => probe'[r].bucket = probe[r].bucket
            BY <2>3, <2>4
        <3> QED
            BY <2>3, <2>4, <3>1, <3>2 DEF OneProbePerBucket
    <2> QED
        BY <2>6, <2>8, <2>9 DEF OneProbePerBucket
<1>4. ASSUME NEW p \in Probes, ProbeEvict(p) \/ ProbeKeep(p) \/ ProbeAdd(p)
      PROVE  OneProbePerBucket' /\ EvictionHasReplacement'
    <2>1. UNCHANGED <<replacements, inFlight>>
        BY <1>4 DEF ProbeEvict, ProbeKeep, ProbeAdd
    <2>2. /\ \A q \in Probes : q # p => probe'[q] = probe[q]
          /\ probe'[p].bucket = probe[p].bucket
          /\ probe[p].pc \in {"ping", "add"}
          /\ probe'[p].pc \in {"pop", "clear"}
          /\ probe'[p].pc = "pop" => probe[p].pc = "ping"
        <3>1. CASE ProbeEvict(p)
            BY <1>0, <3>1 DEF ProbeEvict, TypeOK
        <3>2. CASE ProbeKeep(p)
            BY <1>0, <3>2 DEF ProbeKeep, TypeOK
        <3>3. CASE ProbeAdd(p)
            BY <1>0, <3>3 DEF ProbeAdd, TypeOK
        <3> QED
            BY <1>4, <3>1, <3>2, <3>3
    <2>3. \A q \in Probes : /\ Probing(q)' <=> Probing(q)
                            /\ probe'[q].bucket = probe[q].bucket
        BY <2>2 DEF Probing
    <2>4. EvictionHasReplacement'
        BY <2>1, <2>2 DEF EvictionHasReplacement
    <2> QED
        BY <2>1, <2>3, <2>4, SameProbes
<1>5. ASSUME NEW p \in Probes, ProbePop(p)
      PROVE  OneProbePerBucket' /\ EvictionHasReplacement'
    <2>1. /\ inFlight' = inFlight
          /\ probe[p].pc = "pop"
        BY <1>5 DEF ProbePop
    <2>2. /\ \A q \in Probes : q # p => probe'[q] = probe[q]
          /\ probe'[p].bucket = probe[p].bucket
          /\ probe'[p].pc \in {"add", "clear"}
        BY <1>0, <1>5 DEF ProbePop, TypeOK
    <2>3. \A b \in BucketIndices : b # probe[p].bucket => replacements'[b] = replacements[b]
        BY <1>0, <1>5 DEF ProbePop, TypeOK
    <2>4. \A q \in Probes : /\ Probing(q)' <=> Probing(q)
                            /\ probe'[q].bucket = probe[q].bucket
        BY <2>1, <2>2 DEF Probing
    <2>5. EvictionHasReplacement'
        \* No other probe is on the bucket whose queue has become shorter.
        <3> SUFFICES ASSUME NEW q \in Probes, probe'[q].pc \in {"ping", "pop"}
                     PROVE  replacements'[probe'[q].bucket] # <<>>
            BY DEF EvictionHasReplacement
        <3>1. q # p /\ probe'[q] = probe[q] /\ Probing(q) /\ Probing(p)
            BY <2>1, <2>2 DEF Probing
        <3>2. probe[q].bucket # probe[p].bucket
            BY <3>1 DEF OneProbePerBucket
        <3> QED
            BY <1>0, <2>3, <3>1, <3>2 DEF EvictionHasReplacement, TypeOK
    <2> QED
        BY <2>1, <2>4, <2>5, SameProbes
<1>6. ASSUME NEW p \in Probes, ProbeClear(p)
      PROVE  OneProbePerBucket' /\ EvictionHasReplacement'
    <2>1. /\ inFlight' = inFlight \ {probe[p].bucket}
          /\ replacements' = replacements
          /\ Probing(p)
        BY <1>6 DEF ProbeClear, Probing
    <2>2. /\ \A q \in Probes : q # p => probe'[q] = probe[q]
          /\ probe'[p].pc = "done"
        BY <1>0, <1>6 DEF ProbeClear, TypeOK
    <2>3. /\ ~Probing(p)'
          /\ \A q \in Probes : q # p => (Probing(q)' <=> Probing(q))
        BY <2>2 DEF Probing
    <2>4. EvictionHasReplacement'
        BY <2>1, <2>2 DEF EvictionHasReplacement
    <2>5. \A q, r \in Probes :
             Probing(q)' /\ Probing(r)' /\ probe'[q].bucket = probe'[r].bucket => q = r
        BY <2>2, <2>3 DEF OneProbePerBucket
    <2>6. \A q \in Probes : q # p /\ Probing(q) => probe[q].bucket # probe[p].bucket
        BY <2>1 DEF OneProbePerBucket
    <2>7. inFlight' = {probe'[q].bucket : q \in {r \in Probes : Probing(r)'}}
        <3>1. {r \in Probes : Probing(r)'} = {r \in Probes : Probing(r)} \ {p}
            BY <2>3
        <3> QED
            BY <2>1, <2>2, <2>6, <3>1 DEF OneProbePerBucket
    <2> QED
        BY <2>4, <2>5, <2>7 DEF OneProbePerBucket
<1>7. ASSUME NEW p \in Probes, ProbeDone(p)
      PROVE  OneProbePerBucket' /\ EvictionHasReplacement'
    <2>1. /\ UNCHANGED <<replacements, inFlight>>
          /\ ~Probing(p)
        BY <1>7 DEF ProbeDone, Probing
    <2>2. /\ \A q \in Probes : q # p => probe'[q] = probe[q]
          /\ probe'[p].pc = "idle"
        BY <1>0, <1>7 DEF ProbeDone, TypeOK, IdleProbe
    <2>3. \A q \in Probes : Probing(q)' <=> Probing(q)
        BY <2>1, <2>2 DEF Probing
    <2>4. \A q \in Probes : Probing(q) => q # p /\ probe'[q].bucket = probe[q].bucket
        BY <2>1, <2>2
    <2>5. EvictionHasReplacement'
        BY <2>1, <2>2 DEF EvictionHasReplacement
    <2>6. {r \in Probes : Probing(r)'} = {r \in Probes : Probing(r)}
        BY <2>3
    <2>7. inFlight' = {probe'[q].bucket : q \in {r \in Probes : Probing(r)'}}
        BY <2>1, <2>4, <2>6 DEF OneProbePerBucket
    <2>8. \A q, r \in Probes :
             Probing(q)' /\ Probing(r)' /\ probe'[q].bucket = probe'[r].bucket => q = r
        BY <2>3, <2>4 DEF OneProbePerBucket
    <2> QED
        BY <2>5, <2>7, <2>8 DEF OneProbePerBucket
<1> QED
    BY <1>1, <1>2, <1>3, <1>4, <1>5, <1>6, <1>7
    DEF Next, HandlerStep, ProbeStep, AddContact, UpdateTaken, UpdateFull, vars

-----------------------------------------------------------------------------
(* The theorems *)

Inv == TableInv /\ WaitEvictionSound /\ ProbeInv

\* The whole invariant, from which the theorems below are read off.
LEMMA InvInductive == Spec => []Inv
<1>1. Init => Inv
    <2> SUFFICES ASSUME Init
                 PROVE  Inv
        OBVIOUS
    <2>1. \A p \in Probes : probe[p].pc = "idle"
        BY DEF Init, IdleProbe
    <2>2. ProbeInv
        BY <2>1 DEF Init, ProbeInv, OneProbePerBucket, EvictionHasReplacement, Probing
    <2>3. {p \in Probes : probe[p].pc # "idle"} = {} /\ evictWg = 0
        BY <2>1 DEF Init
    <2>4. WaitEvictionSound
        BY <2>3, FS_EmptySet DEF WaitEvictionSound
    <2> QED
        BY <2>2, <2>4, TableInvInit DEF Inv
<1>2. Inv /\ [Next]_vars => Inv'
    BY TableInvNext, ProbeInvNext, WaitNext DEF Inv, TableInv
<1> QED
    BY <1>1, <1>2, PTL DEF Spec

(***************************************************************************)
(* Types: in particular the WaitGroup's counter never becomes negative     *)
(* (evictWg.Done would panic) and every remembered value is a contact.     *)
(***************************************************************************)
THEOREM TableTypes == Spec => []TypeOK
BY InvInductive, PTL DEF Inv, TableInv

(***************************************************************************)
(* No bucket outgrows bucketSize, holds a contact twice or holds a contact *)
(* of another bucket, in any interleaving of lookups, packets and probes   *)
(* (bucket.AddContact, RemoveContact, GetBucketIndex).                     *)
(***************************************************************************)
THEOREM BucketsStaySound == Spec => []BucketsSound
BY InvInductive, PTL DEF Inv, TableInv

(***************************************************************************)
(* The same of the replacement caches (UpdateWithPing, lines 88 to 96).    *)
(***************************************************************************)
THEOREM ReplacementsStaySound == Spec => []ReplacementsSound
BY InvInductive, PTL DEF Inv, TableInv

(***************************************************************************)
(* inFlight keeps the evictions of one bucket apart, although it is tested *)
(* under evictMu long after the bucket was found full under mu.            *)
(***************************************************************************)
THEOREM EvictionsExclusive == Spec => []OneProbePerBucket
BY InvInductive, PTL DEF Inv, ProbeInv

(***************************************************************************)
(* An evicted contact is always replaced: hasRepl is true whenever it is   *)
(* tested.                                                                 *)
(***************************************************************************)
THEOREM EvictedIsReplaced == Spec => []EvictionHasReplacement
BY InvInductive, PTL DEF Inv, ProbeInv

(***************************************************************************)
(* WaitEviction waits for exactly the goroutines that are still running.   *)
(***************************************************************************)
THEOREM WaitEvictionWaits == Spec => []WaitEvictionSound
BY InvInductive, PTL DEF Inv

-----------------------------------------------------------------------------
(* What a step does to a bucket *)

OrderKept(old, new) ==
    \A c, d : MoreRecent(old, c, d) /\ MoreRecent(new, d, c) => Head(new) = d

\* A list that repeats no contact cannot have two of them in both orders.
LEMMA OneOrder ==
    ASSUME NEW list \in Lists, NEW b, NEW size \in Nat, SoundList(Me, list, b, size),
           NEW c, NEW d, MoreRecent(list, c, d)
    PROVE  ~\E k, l \in 1..Len(list) : k < l /\ list[k] = d /\ list[l] = c
<1>1. Len(list) \in Nat
    BY LenProperties DEF Lists
<1>2. PICK m \in 1..Len(list), n \in 1..Len(list) : m < n /\ list[m] = c /\ list[n] = d
    BY DEF MoreRecent
<1> SUFFICES ASSUME NEW k \in 1..Len(list), NEW l \in 1..Len(list),
                    k < l, list[k] = d, list[l] = c
             PROVE  FALSE
    OBVIOUS
<1>3. l = m /\ k = n
    BY <1>2 DEF SoundList
<1> QED
    BY <1>1, <1>2, <1>3

\* Unlinking a contact overturns no order.
LEMMA RemoveKeepsOrder ==
    ASSUME NEW list \in Lists, NEW b, NEW size \in Nat, SoundList(Me, list, b, size), NEW x,
           NEW c, NEW d, MoreRecent(list, c, d)
    PROVE  ~MoreRecent(BucketRemove(list, x), d, c)
<1>1. KeepsOrder(BucketRemove(list, x), list)
    BY RemoveProperties
<1>2. ~\E k, l \in 1..Len(list) : k < l /\ list[k] = d /\ list[l] = c
    BY OneOrder
<1> SUFFICES ASSUME MoreRecent(BucketRemove(list, x), d, c)
             PROVE  FALSE
    OBVIOUS
<1> DEFINE new == BucketRemove(list, x)
<1>3. PICK i \in 1..Len(new), j \in 1..Len(new) : i < j /\ new[i] = d /\ new[j] = c
    BY DEF MoreRecent
<1>4. \E k, l \in 1..Len(list) : k < l /\ new[i] = list[k] /\ new[j] = list[l]
    BY <1>1, <1>3 DEF KeepsOrder
<1> QED
    BY <1>2, <1>3, <1>4

\* Pushing a contact to the front overturns no order but its own.
LEMMA AddKeepsOrder ==
    ASSUME NEW list \in Lists, NEW b, SoundList(Me, list, b, bucketSize),
           NEW x \in Contacts, Index(x) = b
    PROVE  OrderKept(list, BucketAdd(list, x))
<1> DEFINE rest == BucketRemove(list, x)
           new == <<x>> \o rest
<1>0. bucketSize \in Nat
    BY BucketAssumption
<1>1. rest \in Lists /\ Len(rest) \in Nat
    BY <1>0, RemoveProperties, LenProperties DEF Lists
<1>2. CASE BucketAdd(list, x) = list
    <2> SUFFICES ASSUME NEW c, NEW d, MoreRecent(list, c, d), MoreRecent(list, d, c)
                 PROVE  FALSE
        BY <1>2 DEF OrderKept
    <2> QED
        BY <1>0, OneOrder DEF MoreRecent
<1>3. CASE BucketAdd(list, x) = new
    <2> SUFFICES ASSUME NEW c, NEW d, MoreRecent(list, c, d), MoreRecent(new, d, c)
                 PROVE  Head(new) = d
        BY <1>3 DEF OrderKept
    <2>1. ~MoreRecent(rest, d, c)
        BY <1>0, RemoveKeepsOrder
    <2> HIDE DEF rest
    <2>2. <<x>> \in Lists /\ Len(<<x>>) = 1 /\ <<x>>[1] = x
        BY DEF Lists
    <2>3. /\ new \in Lists
          /\ Len(new) = 1 + Len(rest)
          /\ \A i \in 1..(1 + Len(rest)) : new[i] = IF i <= 1 THEN <<x>>[i] ELSE rest[i - 1]
        BY <1>1, <2>2, ConcatProperties DEF Lists
    <2> HIDE DEF new
    <2>4. PICK i \in 1..Len(new), j \in 1..Len(new) : i < j /\ new[i] = d /\ new[j] = c
        BY DEF MoreRecent
    <2>5. i = 1
        <3> SUFFICES ASSUME i # 1
                     PROVE  FALSE
            OBVIOUS
        <3>1. /\ i - 1 \in 1..Len(rest) /\ j - 1 \in 1..Len(rest) /\ i - 1 < j - 1
              /\ rest[i - 1] = d /\ rest[j - 1] = c
            BY <1>1, <2>3, <2>4
        <3> QED
            BY <2>1, <3>1 DEF MoreRecent
    <2>6. Head(new) = new[1]
        BY <1>1, <2>3 DEF Lists
    <2> QED
        BY <2>4, <2>5, <2>6
<1>4. BucketAdd(list, x) = list \/ BucketAdd(list, x) = new
    BY AddProperties
<1> QED
    BY <1>2, <1>3, <1>4

\* The buckets after contact c has been put at the front of bucket k.
LEMMA FrontStepKeeps ==
    ASSUME TableInv, NEW c \in Contacts, NEW k \in BucketIndices, Index(c) = k,
           buckets' = [buckets EXCEPT ![k] = BucketAdd(@, c)], NEW b \in BucketIndices
    PROVE  /\ \A d : Holds(buckets[b], d) => Holds(buckets'[b], d)
           /\ buckets'[b] = buckets[b] \/ OrderKept(buckets[b], buckets'[b])
<1>1. /\ buckets \in [BucketIndices -> Lists]
      /\ \A j \in BucketIndices : SoundList(Me, buckets[j], j, bucketSize)
    BY DEF TableInv, TypeOK, Lists, BucketsSound
<1>2. CASE b = k
    <2>1. buckets'[b] = BucketAdd(buckets[k], c)
        BY <1>1, <1>2
    <2> QED
        BY <1>1, <1>2, <2>1, AddProperties, AddKeepsOrder
<1>3. CASE b # k
    <2>1. buckets'[b] = buckets[b]
        BY <1>1, <1>3
    <2> QED
        BY <2>1
<1> QED
    BY <1>2, <1>3

\* The steps that change a bucket: an eviction, and a contact to the front.
LEMMA BucketSteps ==
    ASSUME TableInv, [Next]_vars
    PROVE  \/ \E p \in Probes : ProbeEvict(p)
           \/ \E c \in Contacts : buckets' = [buckets EXCEPT ![Index(c)] = BucketAdd(@, c)]
           \/ buckets' = buckets
<1>0. TypeOK /\ LocalsSound
    BY DEF TableInv
<1> DEFINE ToFront(c) == buckets' = [buckets EXCEPT ![Index(c)] = BucketAdd(@, c)]
<1>1. ASSUME NEW c \in Contacts, AddContact(c)
      PROVE  ToFront(c)
    BY <1>1 DEF AddContact
<1>2. ASSUME NEW h \in Handlers, NEW c \in Contacts \cup {Me}, UpdateTaken(h, c)
      PROVE  c \in Contacts /\ ToFront(c)
    BY <1>2 DEF UpdateTaken
<1>3. ASSUME NEW p \in Probes, ProbeAdd(p)
      PROVE  probe[p].contact \in Contacts /\ ToFront(probe[p].contact)
    BY <1>0, <1>3 DEF ProbeAdd, LocalsSound
<1>4. ASSUME NEW p \in Probes, ProbeKeep(p)
      PROVE  probe[p].contact \in Contacts /\ ToFront(probe[p].contact)
    BY <1>0, <1>4 DEF ProbeKeep, LocalsSound
<1> HIDE DEF ToFront
<1>5. \/ \E p \in Probes : ProbeEvict(p)
      \/ \E c \in Contacts : ToFront(c)
      \/ buckets' = buckets
    BY <1>1, <1>2, <1>3, <1>4
    DEF Next, HandlerStep, ProbeStep, UpdateFull, UpdateQueued, UpdateProbes,
        ProbePop, ProbeClear, ProbeDone, vars
<1> QED
    BY <1>5 DEF ToFront

(***************************************************************************)
(* Old live contacts stay: a contact leaves a bucket only by the eviction  *)
(* that follows a failed ping of that very contact (RemoveContact at line  *)
(* 142 of routingtable.go is the only one).                                *)
(***************************************************************************)
THEOREM OnlyDeadContactsLeave == Spec => LeavesOnlyWhenDead
<1> DEFINE Leaves == \A b \in BucketIndices : \A c \in ToSet(buckets[b]) \ ToSet(buckets'[b]) :
                        \E p \in Probes :
                           probe[p].pc = "ping" /\ probe[p].contact = c /\ ProbeEvict(p)
<1>1. ASSUME TableInv, TableInv', [Next]_vars
      PROVE  Leaves
    <2> SUFFICES ASSUME NEW b \in BucketIndices, NEW c,
                        Holds(buckets[b], c), ~Holds(buckets'[b], c)
                 PROVE  \E p \in Probes : /\ probe[p].pc = "ping"
                                          /\ probe[p].contact = c
                                          /\ ProbeEvict(p)
        <3>1. \A b \in BucketIndices : buckets[b] \in Lists /\ buckets'[b] \in Lists
            BY <1>1 DEF TableInv, TypeOK, Lists
        <3> QED
            BY <3>1, ToSetHolds DEF Lists
    <2>1. CASE \E p \in Probes : ProbeEvict(p)
        <3>1. PICK p \in Probes : ProbeEvict(p)
            BY <2>1
        <3> DEFINE target == probe[p].contact
        <3>2. /\ probe[p].pc = "ping"
              /\ buckets' = [buckets EXCEPT ![Index(target)] = BucketRemove(@, target)]
            BY <3>1 DEF ProbeEvict
        <3>3. /\ buckets[b] \in Lists
              /\ SoundList(Me, buckets[b], b, bucketSize)
              /\ buckets \in [BucketIndices -> Seq(Contacts)]
            BY <1>1 DEF TableInv, TypeOK, BucketsSound, Lists
        <3>4. b = Index(target) /\ buckets'[b] = BucketRemove(buckets[b], target)
            BY <3>2, <3>3
        <3>5. c = target
            BY <3>3, <3>4, RemoveProperties, BucketAssumption
        <3> QED
            BY <3>1, <3>2, <3>5
    <2>2. CASE \E x \in Contacts : buckets' = [buckets EXCEPT ![Index(x)] = BucketAdd(@, x)]
        <3>1. PICK x \in Contacts : buckets' = [buckets EXCEPT ![Index(x)] = BucketAdd(@, x)]
            BY <2>2
        <3> QED
            BY <1>1, <3>1, IndexType, FrontStepKeeps
    <2> QED
        BY <1>1, <2>1, <2>2, BucketSteps
<1>2. TableInv /\ TableInv' /\ [Next]_vars => [Leaves]_vars
    BY <1>1
<1> HIDE DEF Leaves
<1>3. Spec => [][Leaves]_vars
    BY <1>2, InvInductive, PTL DEF Inv, Spec
<1> QED
    BY <1>3 DEF Leaves, LeavesOnlyWhenDead

(***************************************************************************)
(* A bucket stays ordered by when its contacts were last seen, so that     *)
(* GetOldestContact, its last one, is the least recently seen.             *)
(***************************************************************************)
THEOREM BucketsStayOrdered == Spec => RecencyOrder
<1> DEFINE Ordered == \A b \in BucketIndices : \A c, d \in ToSet(buckets[b]) :
                        MoreRecent(buckets[b], c, d) /\ MoreRecent(buckets'[b], d, c)
                          => Head(buckets'[b]) = d
<1>1. ASSUME TableInv, [Next]_vars
      PROVE  Ordered
    <2> SUFFICES ASSUME NEW b \in BucketIndices, NEW c, NEW d,
                        MoreRecent(buckets[b], c, d), MoreRecent(buckets'[b], d, c)
                 PROVE  Head(buckets'[b]) = d
        OBVIOUS
    <2>0. /\ buckets[b] \in Lists
          /\ SoundList(Me, buckets[b], b, bucketSize)
          /\ bucketSize \in Nat
          /\ buckets \in [BucketIndices -> Seq(Contacts)]
        BY <1>1, BucketAssumption DEF TableInv, TypeOK, BucketsSound, Lists
    <2>1. buckets'[b] # buckets[b]
        BY <2>0, OneOrder DEF MoreRecent
    <2>2. CASE \E p \in Probes : ProbeEvict(p)
        <3>1. PICK p \in Probes : ProbeEvict(p)
            BY <2>2
        <3> DEFINE target == probe[p].contact
        <3>2. buckets' = [buckets EXCEPT ![Index(target)] = BucketRemove(@, target)]
            BY <3>1 DEF ProbeEvict
        <3>3. buckets'[b] = BucketRemove(buckets[b], target)
            BY <2>0, <2>1, <3>2
        <3> QED
            BY <2>0, <3>3, RemoveKeepsOrder
    <2>3. CASE \E x \in Contacts : buckets' = [buckets EXCEPT ![Index(x)] = BucketAdd(@, x)]
        <3>1. PICK x \in Contacts : buckets' = [buckets EXCEPT ![Index(x)] = BucketAdd(@, x)]
            BY <2>3
        <3>2. OrderKept(buckets[b], buckets'[b])
            BY <1>1, <2>1, <3>1, IndexType, FrontStepKeeps
        <3> QED
            BY <3>2 DEF OrderKept
    <2> QED
        BY <1>1, <2>1, <2>2, <2>3, BucketSteps
<1>2. TableInv /\ [Next]_vars => [Ordered]_vars
    BY <1>1
<1> HIDE DEF Ordered
<1>3. Spec => [][Ordered]_vars
    BY <1>2, InvInductive, PTL DEF Inv, Spec
<1> QED
    BY <1>3 DEF Ordered, RecencyOrder

-----------------------------------------------------------------------------
(* Bucket refresh *)

\* What the lemmas on the queries of a table need.
LEMMA TableIsSound ==
    ASSUME TableInv
    PROVE  TableOf(Me, Contacts, buckets)
BY TableAssumption DEF TableInv, TypeOK, BucketsSound, TableOf, Lists, Index

(***************************************************************************)
(* Join's refresh of an empty bucket heads for the nodes that belong in    *)
(* it, in every state of the table and whatever random identifier is made. *)
(***************************************************************************)
THEOREM RefreshReachesBucket == Spec => []RefreshHeadsForBucket
<1>1. TableInv => RefreshHeadsForBucket
    <2> SUFFICES ASSUME TableInv, NEW b \in BucketsToRefresh,
                        NEW id \in RandomIDsForBucket(Me, b),
                        NEW x \in KademliaIDs, Index(x) = b,
                        NEW c \in GetAllContacts(buckets)
                 PROVE  Closer(x, c, id)
        BY DEF RefreshHeadsForBucket
    <2>1. /\ b \in BucketIndices
          /\ b < GetClosestNonEmptyBucketIndex(buckets)
          /\ buckets[b] = <<>>
        BY DEF BucketsToRefresh, IsBucketEmpty
    <2>2. GetClosestNonEmptyBucketIndex(buckets) \in BucketIndices
        <3>1. \/ GetClosestNonEmptyBucketIndex(buckets) = -1
              \/ GetClosestNonEmptyBucketIndex(buckets) \in BucketIndices
            BY ClosestNonEmptyIndex
        <3> QED
            BY <2>1, <3>1, BitsAssumption DEF BucketIndices
    <2>3. Me \in KademliaIDs /\ Contacts \subseteq KademliaIDs
        BY TableAssumption
    <2>4. id \in KademliaIDs /\ GetBucketIndex(Me, id) = b
        BY <2>1, <2>3, RandomIDFallsInBucket DEF RandomIDsForBucket
    <2>5. Index(Me) = Bits - 1
        BY <2>3, OwnIndex DEF Index
    <2>6. b # Bits - 1
        BY <2>1, <2>2, BitsAssumption DEF BucketIndices
    <2>7. x # Me /\ id # Me
        BY <2>4, <2>5, <2>6 DEF Index
    <2>8. PICK k \in BucketIndices : c \in ToSet(buckets[k])
        BY DEF GetAllContacts
    <2>9. c \in KademliaIDs /\ Index(c) = k
        BY <2>3, <2>8, TableIsSound, ContactsOfBucket DEF Index
    <2>10. k # b
        BY <2>1, <2>8 DEF ToSet
    <2> QED
        BY <2>3, <2>4, <2>7, <2>9, <2>10, OwnBucketIsClosest DEF Index
<1> QED
    BY <1>1, InvInductive, PTL DEF Inv

-----------------------------------------------------------------------------
(* FindClosestContacts *)

\* The counts the two properties range over.
LEMMA CountsAreNat == 1..Cardinality(Contacts) \subseteq Nat
BY TableAssumption, FS_CardinalityType

(***************************************************************************)
(* FindClosestContacts (routingtable.go) never returns less than it could: *)
(* its scan away from the target's bucket goes on past one end of the      *)
(* table until the other end is reached or count contacts are found.       *)
(***************************************************************************)
THEOREM FindClosestReturnsEnough == Spec => []FindClosestComplete
<1>1. TableInv => FindClosestComplete
    <2> SUFFICES ASSUME TableInv, NEW target \in KademliaIDs,
                        NEW count \in 1..Cardinality(Contacts)
                 PROVE  \/ Cardinality(FindClosestContacts(Me, buckets, target, count)) = count
                        \/ FindClosestContacts(Me, buckets, target, count) = GetAllContacts(buckets)
        BY DEF FindClosestComplete
    <2>1. count \in Nat
        BY CountsAreNat
    <2> QED
        BY <2>1, TableIsSound, FindClosestEnough
<1> QED
    BY <1>1, InvInductive, PTL DEF Inv

(***************************************************************************)
(* What FindClosestContacts gets right although it stops scanning early:   *)
(* a contact of the target's bucket is left out only for closer ones, and  *)
(* the node's lookup of itself in Join starts from exactly the closest     *)
(* contacts of the table, every bucket being nearer than those below it.   *)
(***************************************************************************)
THEOREM FindClosestServesJoin == Spec => []FindClosestNearTarget
<1>1. TableInv => FindClosestNearTarget
    <2> SUFFICES ASSUME TableInv, NEW target \in KademliaIDs,
                        NEW count \in 1..Cardinality(Contacts)
                 PROVE  LET own == IF target = Me THEN GetAllContacts(buckets)
                                                  ELSE ToSet(buckets[Index(target)])
                            found == FindClosestContacts(Me, buckets, target, count)
                        IN  /\ \A c \in own \ found, d \in found : Closer(d, c, target)
                            /\ target = Me => found = ClosestOf(own, target, count)
        BY DEF FindClosestNearTarget
    <2>1. count \in Nat
        BY CountsAreNat
    <2>2. PICK r \in Nat :
              LET S == Scanned(buckets, Index(target), r)
                  found == FindClosestContacts(Me, buckets, target, count)
              IN  /\ Index(target) \in BucketIndices
                  /\ S \in SUBSET KademliaIDs /\ IsFiniteSet(S)
                  /\ found = ClosestOf(S, target, count)
                  /\ Cardinality(S) >= count \/ S = GetAllContacts(buckets)
        BY <2>1, TableIsSound, FindClosestFacts DEF Index
    <2> DEFINE S == Scanned(buckets, Index(target), r)
               T == ClosestOf(S, target, count)
    <2>3. /\ S \in SUBSET KademliaIDs /\ IsFiniteSet(S)
          /\ Cardinality(S) >= count \/ S = GetAllContacts(buckets)
          /\ FindClosestContacts(Me, buckets, target, count) = T
        BY <2>2
    <2>4. /\ S \subseteq GetAllContacts(buckets)
          /\ GetAllContacts(buckets) \subseteq Contacts
          /\ ToSet(buckets[Index(target)]) \subseteq S
          /\ \A c \in GetAllContacts(buckets) :
                c \in S <=> Index(target) - r <= Index(c) /\ Index(c) <= Index(target) + r
        BY <2>2, TableIsSound, ScannedContacts DEF Index
    <2> HIDE DEF S
    <2>5. CASE target # Me
        <3>1. \A c \in S \ T : \A t \in T : Closer(t, c, target)
            BY <2>1, <2>3, ClosestOfIsTop
        <3> QED
            BY <2>3, <2>4, <2>5, <3>1
    <2>6. CASE target = Me
        <3>1. Index(Me) = Bits - 1
            BY TableAssumption, OwnIndex DEF Index
        <3>2. ASSUME NEW s \in S, NEW c \in GetAllContacts(buckets) \ S
              PROVE  Closer(s, c, target)
            <4>1. s \in Contacts /\ c \in Contacts /\ s \in GetAllContacts(buckets)
                BY <2>4
            <4>2. Index(s) \in 0..(Bits - 1) /\ Index(c) \in 0..(Bits - 1)
                BY <4>1, IndexType DEF BucketIndices
            <4>3. Bits - 1 - r <= Index(s)
                BY <2>4, <2>6, <3>1, <4>1
            <4>4. ~(Bits - 1 - r <= Index(c) /\ Index(c) <= Bits - 1 + r)
                BY <2>4, <2>6, <3>1, <4>1, <3>2
            <4>5. Index(c) < Index(s)
                BY <4>2, <4>3, <4>4, BitsAssumption
            <4> QED
                BY <2>6, <4>1, <4>5, TableAssumption, NearerBucketIsCloser DEF Index
        <3>3. GetAllContacts(buckets) \in SUBSET KademliaIDs /\ IsFiniteSet(GetAllContacts(buckets))
            BY <2>4, TableAssumption, FS_Subset
        <3>4. T = ClosestOf(GetAllContacts(buckets), target, count)
            BY <2>1, <2>3, <2>4, <3>2, <3>3, ClosestOfPart
        <3>5. \A c \in GetAllContacts(buckets) \ T : \A t \in T : Closer(t, c, target)
            BY <2>1, <3>3, <3>4, ClosestOfIsTop
        <3> HIDE DEF T
        <3> QED
            BY <2>3, <2>6, <3>4, <3>5
    <2> QED
        BY <2>5, <2>6
<1> QED
    BY <1>1, InvInductive, PTL DEF Inv

=============================================================================
