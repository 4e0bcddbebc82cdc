---------------------------- MODULE RoutingTable ----------------------------
(***************************************************************************)
(* One node's routing table: kademlia/routingtable.go over                 *)
(* kademlia/bucket.go, whose lists and queries are in Buckets.  AddContact *)
(* is called by lookups and Join; UpdateWithPing by the goroutine that     *)
(* handles a packet, and it may leave a goroutine behind that pings the    *)
(* oldest contact of a full bucket.  The table has two mutexes, mu and     *)
(* evictMu, never held together: every region between a lock and its       *)
(* unlock is one action.                                                   *)
(***************************************************************************)
EXTENDS Buckets

CONSTANTS
    Me,                     \* the identifier of the node that owns the table
    Contacts,               \* the identifiers of the other nodes
    Handlers,               \* goroutines that may run UpdateWithPing at once
    Probes,                 \* eviction goroutines that may exist at once
    replacementCacheSize

ASSUME TableAssumption ==
    /\ Me \in KademliaIDs
    /\ Contacts \subseteq KademliaIDs \ {Me}
    /\ IsFiniteSet(Contacts)
    /\ IsFiniteSet(Probes)
    /\ replacementCacheSize \in Nat \ {0}

VARIABLES
    buckets,        \* [index -> list of contacts, most recently seen first]
    replacements,   \* [index -> FIFO of candidates for a full bucket]
    inFlight,       \* the buckets with an eviction probe
    evictWg,        \* the counter of the WaitGroup of eviction goroutines
    handler,        \* where each UpdateWithPing call is, with its locals
    probe           \* where each eviction goroutine is, with its locals

vars == <<buckets, replacements, inFlight, evictWg, handler, probe>>

Index(c) == GetBucketIndex(Me, c)

-----------------------------------------------------------------------------
(* The replacement cache of a bucket *)

\* Mutant: the cache is not bounded.
EnqueueUnbounded(queue, c) == IF Holds(queue, c) THEN queue ELSE Append(queue, c)

\* The replacement cache of a bucket once c has been offered to it.
Enqueue(queue, c) ==
    IF Holds(queue, c)
    THEN queue
    ELSE Append(IF Len(queue) >= replacementCacheSize THEN Tail(queue) ELSE queue, c)

-----------------------------------------------------------------------------
(* The state *)

IdleHandler == [pc |-> "idle", cand |-> Me, oldest |-> Me]

\* contact is the local target while pinging and repl while adding: Me when
\* neither is live.
IdleProbe == [pc |-> "idle", bucket |-> 0, contact |-> Me]

Init ==
    /\ buckets = NoContacts
    /\ replacements = [b \in BucketIndices |-> <<>>]
    /\ inFlight = {}
    /\ evictWg = 0
    /\ handler = [h \in Handlers |-> IdleHandler]
    /\ probe = [p \in Probes |-> IdleProbe]

\* The buckets that Join looks up a random identifier of.
BucketsToRefresh ==
    {b \in BucketIndices : b < GetClosestNonEmptyBucketIndex(buckets) /\ IsBucketEmpty(buckets, b)}

-----------------------------------------------------------------------------
(* RoutingTable.AddContact, called for a bootstrap node and for every      *)
(* contact that answered a lookup.  No caller passes the node itself.      *)

AddContact(c) ==
    /\ buckets' = [buckets EXCEPT ![Index(c)] = BucketAdd(@, c)]
    /\ UNCHANGED <<replacements, inFlight, evictWg, handler, probe>>

-----------------------------------------------------------------------------
(* RoutingTable.UpdateWithPing.  Its first region, under mu, either takes  *)
(* the candidate into the bucket and returns, or remembers the oldest      *)
(* contact of the full bucket.                                             *)

UpdateTaken(h, c) ==
    /\ handler[h].pc = "idle"
    /\ c # Me
    /\ Accepts(buckets[Index(c)], c)
    /\ buckets' = [buckets EXCEPT ![Index(c)] = BucketAdd(@, c)]
    /\ UNCHANGED <<replacements, inFlight, evictWg, handler, probe>>

UpdateFull(h, c) ==
    /\ handler[h].pc = "idle"
    /\ c # Me
    /\ ~Accepts(buckets[Index(c)], c)
    /\ handler' = [handler EXCEPT ![h] =
                     [pc |-> "full", cand |-> c, oldest |-> Last(buckets[Index(c)])]]
    /\ UNCHANGED <<buckets, replacements, inFlight, evictWg, probe>>

(* The second region, under evictMu: the candidate is queued, and a probe  *)
(* of the remembered contact starts unless the bucket already has one.     *)

UpdateQueued(h) ==
    LET cand == handler[h].cand
        b == Index(cand)
    IN  /\ handler[h].pc = "full"
        /\ b \in inFlight
        /\ replacements' = [replacements EXCEPT ![b] = Enqueue(@, cand)]
        /\ handler' = [handler EXCEPT ![h] = IdleHandler]
        /\ UNCHANGED <<buckets, inFlight, evictWg, probe>>

\* Mutant: a probe starts whether or not the bucket has one.
UpdateProbesAlways(h, p) ==
    LET b == Index(handler[h].cand)
    IN  /\ handler[h].pc = "full"
        /\ probe[p].pc = "idle"
        /\ replacements' = [replacements EXCEPT ![b] = Enqueue(@, handler[h].cand)]
        /\ inFlight' = inFlight \cup {b}
        /\ evictWg' = evictWg + 1
        /\ probe' = [probe EXCEPT ![p] =
                       [pc |-> "ping", bucket |-> b, contact |-> handler[h].oldest]]
        /\ handler' = [handler EXCEPT ![h] = IdleHandler]
        /\ UNCHANGED buckets

\* Mutant: the candidate that starts a probe is not queued.
UpdateProbesUnqueued(h, p) ==
    LET b == Index(handler[h].cand)
    IN  /\ handler[h].pc = "full"
        /\ b \notin inFlight
        /\ probe[p].pc = "idle"
        /\ inFlight' = inFlight \cup {b}
        /\ evictWg' = evictWg + 1
        /\ probe' = [probe EXCEPT ![p] =
                       [pc |-> "ping", bucket |-> b, contact |-> handler[h].oldest]]
        /\ handler' = [handler EXCEPT ![h] = IdleHandler]
        /\ UNCHANGED <<buckets, replacements>>

UpdateProbes(h, p) ==
    LET cand == handler[h].cand
        b == Index(cand)
    IN  /\ handler[h].pc = "full"
        /\ b \notin inFlight
        /\ probe[p].pc = "idle"
        /\ replacements' = [replacements EXCEPT ![b] = Enqueue(@, cand)]
        /\ inFlight' = inFlight \cup {b}
        /\ evictWg' = evictWg + 1
        /\ probe' = [probe EXCEPT ![p] =
                       [pc |-> "ping", bucket |-> b, contact |-> handler[h].oldest]]
        /\ handler' = [handler EXCEPT ![h] = IdleHandler]
        /\ UNCHANGED buckets

-----------------------------------------------------------------------------
(* The eviction goroutine.  The ping fails (no answer before the timeout,  *)
(* or the packet could not be sent) or it succeeds.                        *)

\* The ping failed: RoutingTable.RemoveContact(target), under mu.
ProbeEvict(p) ==
    /\ probe[p].pc = "ping"
    /\ LET target == probe[p].contact
       IN  buckets' = [buckets EXCEPT ![Index(target)] = BucketRemove(@, target)]
    /\ probe' = [probe EXCEPT ![p].pc = "pop", ![p].contact = Me]
    /\ UNCHANGED <<replacements, inFlight, evictWg, handler>>

\* The head of the replacement cache is taken, under evictMu.
ProbePop(p) ==
    /\ probe[p].pc = "pop"
    /\ LET b == probe[p].bucket
           queue == replacements[b]
       IN  IF queue # <<>>
           THEN /\ replacements' = [replacements EXCEPT ![b] = Tail(queue)]
                /\ probe' = [probe EXCEPT ![p].pc = "add", ![p].contact = Head(queue)]
           ELSE /\ probe' = [probe EXCEPT ![p].pc = "clear"]
                /\ UNCHANGED replacements
    /\ UNCHANGED <<buckets, inFlight, evictWg, handler>>

\* RoutingTable.AddContact(repl), under mu.  The bucket may be full again.
ProbeAdd(p) ==
    /\ probe[p].pc = "add"
    /\ LET repl == probe[p].contact
       IN  buckets' = [buckets EXCEPT ![Index(repl)] = BucketAdd(@, repl)]
    /\ probe' = [probe EXCEPT ![p].pc = "clear", ![p].contact = Me]
    /\ UNCHANGED <<replacements, inFlight, evictWg, handler>>

\* The ping succeeded: the target goes to the front of its bucket, under mu.
ProbeKeep(p) ==
    /\ probe[p].pc = "ping"
    /\ buckets' = [buckets EXCEPT ![probe[p].bucket] = BucketAdd(@, probe[p].contact)]
    /\ probe' = [probe EXCEPT ![p].pc = "clear", ![p].contact = Me]
    /\ UNCHANGED <<replacements, inFlight, evictWg, handler>>

\* Mutant: evictWg.Done() comes first and the flag is cleared afterwards.
ProbeClearLate(p) ==
    /\ probe[p].pc = "clear"
    /\ evictWg' = evictWg - 1
    /\ probe' = [probe EXCEPT ![p].pc = "done"]
    /\ UNCHANGED <<buckets, replacements, inFlight, handler>>

\* Mutant: the flag of the bucket is not cleared.
ProbeClearForgotten(p) ==
    /\ probe[p].pc = "clear"
    /\ probe' = [probe EXCEPT ![p].pc = "done"]
    /\ UNCHANGED <<buckets, replacements, inFlight, evictWg, handler>>

\* The deferred functions: the bucket's flag, under evictMu, ...
ProbeClear(p) ==
    /\ probe[p].pc = "clear"
    /\ inFlight' = inFlight \ {probe[p].bucket}
    /\ probe' = [probe EXCEPT ![p].pc = "done"]
    /\ UNCHANGED <<buckets, replacements, evictWg, handler>>

\* ... then evictWg.Done().
ProbeDone(p) ==
    /\ probe[p].pc = "done"
    /\ evictWg' = evictWg - 1
    /\ probe' = [probe EXCEPT ![p] = IdleProbe]
    /\ UNCHANGED <<buckets, replacements, inFlight, handler>>

ProbeStep(p) ==
    \/ ProbeEvict(p) \/ ProbePop(p) \/ ProbeAdd(p)
    \/ ProbeKeep(p) \/ ProbeClear(p) \/ ProbeDone(p)

HandlerStep(h) == UpdateQueued(h) \/ \E p \in Probes : UpdateProbes(h, p)

Next ==
    \/ \E c \in Contacts : AddContact(c)
    \/ \E h \in Handlers, c \in Contacts \cup {Me} : UpdateTaken(h, c) \/ UpdateFull(h, c)
    \/ \E h \in Handlers : HandlerStep(h)
    \/ \E p \in Probes : ProbeStep(p)

Spec == Init /\ [][Next]_vars

(***************************************************************************)
(* A goroutine that can run does run: the pinger returns, at the latest    *)
(* when its timeout expires, and no region waits for another.              *)
(***************************************************************************)
Fairness ==
    /\ \A p \in Probes : WF_vars(ProbeStep(p))
    /\ \A h \in Handlers : WF_vars(HandlerStep(h))

FairSpec == Spec /\ Fairness

-----------------------------------------------------------------------------
(* Properties *)

(***************************************************************************)
(* Types.  No list outgrows its limit, and Me, which stands for "nothing", *)
(* is the only value besides contacts that a local variable holds.         *)
(***************************************************************************)
TypeOK ==
    /\ buckets \in [BucketIndices -> Seq(Contacts)]
    /\ replacements \in [BucketIndices -> Seq(Contacts)]
    /\ inFlight \subseteq BucketIndices
    /\ evictWg \in Nat
    /\ handler \in [Handlers -> [pc : {"idle", "full"}, cand : Contacts \cup {Me},
                                 oldest : Contacts \cup {Me}]]
    /\ probe \in [Probes -> [pc : {"idle", "ping", "pop", "add", "clear", "done"},
                             bucket : BucketIndices, contact : Contacts \cup {Me}]]

(***************************************************************************)
(* Whatever interleaving of lookups, packets and probes fills it, a bucket *)
(* holds at most bucketSize contacts, each once and each in the bucket of  *)
(* its distance from the node (bucket.AddContact, GetBucketIndex).         *)
(***************************************************************************)
BucketsSound == \A b \in BucketIndices : SoundList(Me, buckets[b], b, bucketSize)

(***************************************************************************)
(* The replacement cache is bounded, has no candidate twice, and holds     *)
(* only candidates of its own bucket.                                      *)
(***************************************************************************)
ReplacementsSound ==
    \A b \in BucketIndices : SoundList(Me, replacements[b], b, replacementCacheSize)

\* The eviction goroutine p has not yet run its deferred functions.
Probing(p) == probe[p].pc \in {"ping", "pop", "add", "clear"}

(***************************************************************************)
(* inFlight is exactly the set of buckets being probed, and a bucket is    *)
(* probed by one goroutine at a time: only then is a candidate popped for  *)
(* the contact that was evicted.                                           *)
(***************************************************************************)
OneProbePerBucket ==
    /\ inFlight = {probe[p].bucket : p \in {q \in Probes : Probing(q)}}
    /\ \A p, q \in Probes :
          Probing(p) /\ Probing(q) /\ probe[p].bucket = probe[q].bucket => p = q

(***************************************************************************)
(* A goroutine that has evicted a contact always finds a candidate in the  *)
(* replacement cache: hasRepl is never false, although the queue and the   *)
(* bucket are under different locks.                                       *)
(***************************************************************************)
EvictionHasReplacement ==
    \A p \in Probes : probe[p].pc \in {"ping", "pop"} => replacements[probe[p].bucket] # <<>>

(***************************************************************************)
(* WaitEviction returns, when the counter is zero, only once every         *)
(* eviction goroutine has made its last change to the table.               *)
(***************************************************************************)
WaitEvictionSound == evictWg = Cardinality({p \in Probes : probe[p].pc # "idle"})

(***************************************************************************)
(* A contact leaves the table only because a ping of that contact failed,  *)
(* never to make room for another one (Kademlia keeps old live contacts).  *)
(***************************************************************************)
LeavesOnlyWhenDead ==
    [][\A b \in BucketIndices : \A c \in ToSet(buckets[b]) \ ToSet(buckets'[b]) :
          \E p \in Probes : probe[p].pc = "ping" /\ probe[p].contact = c /\ ProbeEvict(p)]_vars

\* In list, c was seen more recently than d.
MoreRecent(list, c, d) == \E i, j \in 1..Len(list) : i < j /\ list[i] = c /\ list[j] = d

(***************************************************************************)
(* The list stays ordered by when contacts were last seen: a step that     *)
(* overturns the order of two contacts moves the later one to the front.   *)
(* GetOldestContact relies on it.                                          *)
(***************************************************************************)
RecencyOrder ==
    [][\A b \in BucketIndices : \A c, d \in ToSet(buckets[b]) :
          MoreRecent(buckets[b], c, d) /\ MoreRecent(buckets'[b], d, c) => Head(buckets'[b]) = d]_vars

(***************************************************************************)
(* FindClosestContacts returns fewer contacts than asked for only when it  *)
(* returns the whole table: the scan does not stop short of either end.    *)
(***************************************************************************)
FindClosestComplete ==
    \A target \in KademliaIDs, count \in 1..Cardinality(Contacts) :
        LET found == FindClosestContacts(Me, buckets, target, count)
        IN  Cardinality(found) = count \/ found = GetAllContacts(buckets)

(***************************************************************************)
(* The contacts of the target's own bucket come first, and a lookup of the *)
(* node itself (the one that Join makes) gets exactly the closest contacts.*)
(***************************************************************************)
FindClosestNearTarget ==
    \A target \in KademliaIDs, count \in 1..Cardinality(Contacts) :
        LET own == IF target = Me THEN GetAllContacts(buckets) ELSE ToSet(buckets[Index(target)])
            found == FindClosestContacts(Me, buckets, target, count)
        IN  /\ \A c \in own \ found, d \in found : Closer(d, c, target)
            /\ target = Me => found = ClosestOf(own, target, count)

(***************************************************************************)
(* "FindClosestContacts finds the count closest Contacts to the target in  *)
(* the RoutingTable" (routingtable.go:213).                                *)
(***************************************************************************)
FindClosestExact ==
    \A target \in KademliaIDs, count \in 1..Cardinality(Contacts) :
        FindClosestContacts(Me, buckets, target, count) = ClosestOf(GetAllContacts(buckets), target, count)

(***************************************************************************)
(* Join refreshes an empty bucket by looking up a random identifier of it. *)
(* Any node that belongs in that bucket is closer to the identifier than   *)
(* every contact known so far, so the lookup heads for the missing nodes.  *)
(***************************************************************************)
RefreshHeadsForBucket ==
    \A b \in BucketsToRefresh : \A id \in RandomIDsForBucket(Me, b) :
        \A x \in KademliaIDs : Index(x) = b =>
            \A c \in GetAllContacts(buckets) : Closer(x, c, id)

(***************************************************************************)
(* A probe of a bucket comes to an end, so that the bucket can be probed   *)
(* again (deferred delete(inFlight, bIdx)).                                *)
(***************************************************************************)
EvictionCompletes == \A b \in BucketIndices : b \in inFlight ~> b \notin inFlight

=============================================================================
