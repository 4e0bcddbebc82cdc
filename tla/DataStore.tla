----------------------------- MODULE DataStore ------------------------------
(***************************************************************************)
(* One node's data store and the validation of publications: Store,        *)
(* StoreUnchecked and Delete of kademlia/datastore.go with                 *)
(* ValidateLatestPointerChain of registry/validator.go, for one package.   *)
(*                                                                         *)
(* A version record is immutable and stored under the hash of its bytes,   *)
(* so a record is its hash here (SHA-256 does not collide).  The latest    *)
(* pointer of the package is the one mutable value.  Store validates a new *)
(* pointer with no lock held, reading and fetching one record at a time,   *)
(* and then writes it only if the pointer it validated against is still    *)
(* there; otherwise it starts again.  A call is a goroutine: its steps are *)
(* the regions under ds.mu and the fetches from the network.               *)
(***************************************************************************)
EXTENDS Integers, FiniteSets, SequencesExt

CONSTANTS
    Records,        \* hashes of the values stored under their own hash
    ZeroHash,       \* the predecessor of a first version
    Version,        \* [Records -> Nat]
    Prev,           \* [Records -> Records \cup {ZeroHash}]
    Authentic,      \* the records of this package signed by the domain owner
    Pointers,       \* the latest pointers that nodes may try to store
    None,           \* no latest pointer
    Calls,          \* goroutines that may run Store at once
    maxDepth

ASSUME StoreAssumption ==
    /\ ZeroHash \notin Records
    /\ Version \in [Records -> Nat]
    /\ Prev \in [Records -> Records \cup {ZeroHash}]
    /\ Authentic \subseteq Records
    /\ Pointers \subseteq [head : Records, version : Nat, authentic : BOOLEAN]
    /\ None \notin Pointers
    /\ maxDepth \in Nat \ {0}

VARIABLES
    data,           \* the records in the store
    pointer,        \* the latest pointer in the store, or None
    call,           \* where each Store call is, with its locals
    forgotten,      \* history: the records deleted and not stored again
    forced          \* history: the pointer rests on one stored unchecked

vars == <<data, pointer, call, forgotten, forced>>

IdleCall == [pc |-> "idle", lp |-> None, existing |-> None, walked |-> <<>>, saved |-> 0]

\* A call that is about to read the pointer in the store.
ReadCall(lp) == [pc |-> "read", lp |-> lp, existing |-> None, walked |-> <<>>, saved |-> 0]

Init ==
    /\ data = {}
    /\ pointer = None
    /\ call = [t \in Calls |-> IdleCall]
    /\ forgotten = {}
    /\ forced = FALSE

Finish(t) == call' = [call EXCEPT ![t] = IdleCall]

-----------------------------------------------------------------------------
(* Values stored under their hash, by a publication, by replication or by  *)
(* caching what a lookup found; Delete, the command forget; StoreUnchecked,*)
(* the command publish --force.                                            *)

Keep(S) ==
    /\ data' = data \cup S
    /\ forgotten' = forgotten \ S

StoreContent(r) ==
    /\ Keep({r})
    /\ UNCHANGED <<pointer, call, forced>>

DeleteContent(r) ==
    /\ r \in data
    /\ data' = data \ {r}
    /\ forgotten' = forgotten \cup {r}
    /\ UNCHANGED <<pointer, call, forced>>

DeletePointer ==
    /\ pointer # None
    /\ pointer' = None
    /\ forced' = FALSE
    /\ UNCHANGED <<data, call, forgotten>>

StoreUnchecked(lp) ==
    /\ pointer' = lp
    /\ forced' = TRUE
    /\ UNCHANGED <<data, call, forgotten>>

-----------------------------------------------------------------------------
(* Store of a latest pointer.                                              *)

StoreStart(t, lp) ==
    /\ call[t].pc = "idle"
    /\ call' = [call EXCEPT ![t] = ReadCall(lp)]
    /\ UNCHANGED <<data, pointer, forgotten, forced>>

\* The checks of a pointer before its history is walked.
Acceptable(lp, existing) ==
    /\ lp.authentic
    /\ existing # None => lp.version > existing.version /\ lp.head # existing.head

StoreRead(t) ==
    /\ call[t].pc = "read"
    /\ IF Acceptable(call[t].lp, pointer)
       THEN call' = [call EXCEPT ![t].pc = "walk", ![t].existing = pointer, ![t].walked = <<>>]
       ELSE Finish(t)
    /\ UNCHANGED <<data, pointer, forgotten, forced>>

\* The hash to visit next, and the one at which the walk ends.
Current(c) == IF c.walked = <<>> THEN c.lp.head ELSE Prev[Last(c.walked)]

Target(c) == IF c.existing = None THEN ZeroHash ELSE c.existing.head

\* Mutant: the signatures of the records are not verified.
LinksUnverified(c, r) ==
    IF c.walked = <<>>
    THEN Version[r] = c.lp.version
    ELSE Version[r] < Version[Last(c.walked)]

\* The record r may follow the ones already walked.
Links(c, r) ==
    /\ r \in Authentic
    /\ IF c.walked = <<>>
       THEN Version[r] = c.lp.version
       ELSE Version[r] < Version[Last(c.walked)]

\* The walk may visit its current hash: it is not the end, not a fork, not
\* a cycle and not too deep.
MayVisit(c) ==
    /\ Current(c) \notin {Target(c), ZeroHash}
    /\ ~\E i \in 1..Len(c.walked) : c.walked[i] = Current(c)
    /\ Len(c.walked) < maxDepth

(***************************************************************************)
(* The record is found in the store, or the fetcher finds it on another    *)
(* node and caches it in the store.  The walk goes on, or Store fails.     *)
(***************************************************************************)
WalkRecord(t) ==
    LET r == Current(call[t])
    IN  /\ call[t].pc = "walk"
        /\ MayVisit(call[t])
        /\ Keep({r})
        /\ IF Links(call[t], r)
           THEN call' = [call EXCEPT ![t].walked = Append(@, r)]
           ELSE Finish(t)
        /\ UNCHANGED <<pointer, forced>>

\* The record is neither in the store nor found by the fetcher.
WalkMissing(t) ==
    /\ call[t].pc = "walk"
    /\ MayVisit(call[t])
    /\ Current(call[t]) \notin data
    /\ Finish(t)
    /\ UNCHANGED <<data, pointer, forgotten, forced>>

\* Mutant: a history that ends elsewhere than at the stored pointer is taken.
ValidatedFork(c) ==
    /\ Current(c) \in {Target(c), ZeroHash}
    /\ c.existing # None => Version[Last(c.walked)] > c.existing.version

\* The walk is over: the history links back to the pointer in the store, or
\* to nothing when there is none, and its versions are all newer.
Validated(c) ==
    /\ Current(c) = Target(c)
    /\ c.existing # None => Version[Last(c.walked)] > c.existing.version

WalkEnd(t) ==
    /\ call[t].pc = "walk"
    /\ ~MayVisit(call[t])
    /\ IF Validated(call[t])
       THEN call' = [call EXCEPT ![t].pc = "save", ![t].saved = 0]
       ELSE Finish(t)
    /\ UNCHANGED <<data, pointer, forgotten, forced>>

\* The saver stores the records of the walk, each under the lock.
SaveRecord(t) ==
    LET k == call[t].saved + 1
    IN  /\ call[t].pc = "save"
        /\ k <= Len(call[t].walked)
        /\ Keep({call[t].walked[k]})
        /\ call' = [call EXCEPT ![t].saved = k]
        /\ UNCHANGED <<pointer, forced>>

\* Mutant: the pointer is written whatever happened since it was read.
CommitBlindly(t) ==
    /\ call[t].pc = "save"
    /\ call[t].saved = Len(call[t].walked)
    /\ pointer' = call[t].lp
    /\ Finish(t)
    /\ UNCHANGED <<data, forgotten, forced>>

\* Mutant: the retry keeps comparing with the pointer read the first time.
CommitSpins(t) ==
    /\ call[t].pc = "save"
    /\ call[t].saved = Len(call[t].walked)
    /\ pointer = call[t].existing
    /\ pointer' = call[t].lp
    /\ Finish(t)
    /\ UNCHANGED <<data, forgotten, forced>>

\* The pointer is written if the one it was validated against is still
\* there; otherwise the call validates again.
Commit(t) ==
    /\ call[t].pc = "save"
    /\ call[t].saved = Len(call[t].walked)
    /\ IF pointer = call[t].existing
       THEN pointer' = call[t].lp /\ Finish(t)
       ELSE /\ call' = [call EXCEPT ![t] = ReadCall(call[t].lp)]
            /\ UNCHANGED pointer
    /\ UNCHANGED <<data, forgotten, forced>>

StoreStep(t) ==
    \/ StoreRead(t) \/ WalkRecord(t) \/ WalkMissing(t)
    \/ WalkEnd(t) \/ SaveRecord(t) \/ Commit(t)

Next ==
    \/ \E r \in Records : StoreContent(r) \/ DeleteContent(r)
    \/ DeletePointer
    \/ \E lp \in Pointers : StoreUnchecked(lp)
    \/ \E t \in Calls, lp \in Pointers : StoreStart(t, lp)
    \/ \E t \in Calls : StoreStep(t)

Spec == Init /\ [][Next]_vars

\* A goroutine that can run does run; a fetch returns, if only by timeouts.
FairSpec == Spec /\ \A t \in Calls : WF_vars(StoreStep(t))

-----------------------------------------------------------------------------
(* Properties *)

\* The store and its calls have their types: a walk never leaves the records.
TypeOK ==
    /\ data \subseteq Records
    /\ pointer \in Pointers \cup {None}
    /\ call \in [Calls -> [pc : {"idle", "read", "walk", "save"}, lp : Pointers \cup {None},
                           existing : Pointers \cup {None}, walked : Seq(Records), saved : Nat]]
    /\ forgotten \subseteq Records
    /\ forced \in BOOLEAN

(***************************************************************************)
(* S is a history from head: authentic records, each linked to its         *)
(* predecessor in S, with a smaller version, the last one linked to end.   *)
(***************************************************************************)
IsHistory(S, head, end) ==
    /\ head \in S
    /\ \A r \in S :
         /\ r \in Authentic
         /\ Prev[r] = end \/ (Prev[r] \in S /\ Version[Prev[r]] < Version[r])

(***************************************************************************)
(* Whatever happens to the store in the meantime, a call that is about to  *)
(* save and commit holds the whole history from its pointer's head, with   *)
(* the version of its pointer, back to the pointer it read.                *)
(***************************************************************************)
ValidatedHistory ==
    \A t \in Calls : call[t].pc = "save" =>
        LET c == call[t]
        IN  /\ IsHistory(ToSet(c.walked), c.lp.head, Target(c))
            /\ c.lp.authentic
            /\ Version[c.lp.head] = c.lp.version
            /\ c.existing # None =>
                 \A r \in ToSet(c.walked) : Version[r] > c.existing.version

(***************************************************************************)
(* No rollback and no fork: a pointer in the store is replaced by Store    *)
(* only with a pointer of a greater version whose history runs through the *)
(* replaced pointer's head, however many calls race (ErrVersionRollback,   *)
(* ErrHistoryFork, and the comparison before the write).                   *)
(***************************************************************************)
Supersedes(new, old) ==
    /\ new.authentic
    /\ new.version > old.version
    /\ \E S \in SUBSET Records : IsHistory(S, new.head, old.head)

PointerAdvances ==
    [][pointer # None /\ pointer' \notin {None, pointer} =>
         \/ \E lp \in Pointers : StoreUnchecked(lp)
         \/ Supersedes(pointer', pointer)]_vars

(***************************************************************************)
(* A node that holds a latest pointer holds its complete history back to   *)
(* the first version, but for records that were deleted by hand and unless *)
(* the pointer rests on a forced one: catching up fetches and saves every  *)
(* record that the node had missed (toSave, saver).                        *)
(***************************************************************************)
HistoryHeld ==
    pointer # None /\ ~forced =>
        /\ Version[pointer.head] = pointer.version
        /\ \E S \in SUBSET (data \cup forgotten) : IsHistory(S, pointer.head, ZeroHash)

(***************************************************************************)
(* Store returns: a call is kept in the retry loop only by a pointer that  *)
(* never stops changing.                                                   *)
(***************************************************************************)
StoreReturns ==
    \A t \in Calls :
        <>[][pointer' = pointer]_vars => (call[t].pc # "idle" ~> call[t].pc = "idle")

=============================================================================
