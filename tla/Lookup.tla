------------------------------- MODULE Lookup -------------------------------
(***************************************************************************)
(* One iterative lookup: LookupContactByID and LookupDataByID of           *)
(* kademlia/kademlia.go over kademlia/shortlist.go.  Each round asks up to *)
(* alpha of the closest unqueried candidates at once, one goroutine each,  *)
(* and takes their results from a channel in whatever order they come; the *)
(* next round starts when all of them have come.  A peer may not answer,   *)
(* may know any contacts, and may hold the value or something else under   *)
(* its key.                                                                *)
(***************************************************************************)
EXTENDS Buckets

CONSTANTS
    Me,             \* the node that looks up
    Peers,          \* the other nodes
    Target,
    alpha

ASSUME LookupAssumption ==
    /\ Me \in KademliaIDs
    /\ Target \in KademliaIDs
    /\ Peers \subseteq KademliaIDs \ {Me}
    /\ IsFiniteSet(Peers)
    /\ alpha \in Nat \ {0}

VARIABLES
    kind,           \* what is looked up: "contact", "blob" or "pointer"
    phase,          \* "start", "empty" (nobody to ask), "loop" or "done"
    status,         \* the shortlist: the status of each candidate
    waiting,        \* the probes of this round whose results are to come
    asked,          \* history: how many probes each peer was sent
    learned,        \* the contacts given to RoutingTable.AddContact
    stored,         \* what the local DataStore holds under the target
    result          \* what the lookup returned

vars == <<kind, phase, status, waiting, asked, learned, stored, result>>

Nodes == Peers \cup {Me}

Nothing == [contacts |-> {}, value |-> "none"]

\* What a peer or the store has under the target: nothing, the value that
\* belongs there, or something that fails the check of its hash or signature.
Values == {"none", "valid", "corrupt"}

-----------------------------------------------------------------------------
(* The shortlist.                                                          *)

WithStatus(s) == {p \in Nodes : status[p] = s}

\* Mutant: a contact that is found again is queried again.
AddAgain(contacts, old) ==
    [p \in Nodes |-> IF p \in contacts \ {Me} THEN "unqueried" ELSE old[p]]

\* Mutant: the node itself enters the shortlist.
AddMe(contacts, old) ==
    [p \in Nodes |-> IF p \in contacts /\ old[p] = "absent" THEN "unqueried" ELSE old[p]]

\* Contacts not yet in the shortlist enter it; the node itself never does.
Add(contacts, old) ==
    [p \in Nodes |->
        IF p \in contacts \ {Me} /\ old[p] = "absent" THEN "unqueried" ELSE old[p]]

GetActiveCandidates == WithStatus("unqueried") \cup WithStatus("queried")

\* The unqueried candidates among the k closest active ones.
UnqueriedInTopK(k) == ClosestOf(GetActiveCandidates, Target, k) \cap WithStatus("unqueried")

\* Mutant: only the closest candidate decides whether the lookup goes on.
HasUnqueriedFirst(k) == UnqueriedInTopK(1) # {}

HasUnqueriedInTopK(k) == UnqueriedInTopK(k) # {}

GetClosestUnqueried(count, withinK) == ClosestOf(UnqueriedInTopK(withinK), Target, count)

GetClosestQueried(k) == ClosestOf(WithStatus("queried"), Target, k)

-----------------------------------------------------------------------------
\* A forced publication stores its pointer unchecked; a blob is stored under
\* its own hash.
Init ==
    /\ kind \in {"contact", "blob", "pointer"}
    /\ phase = "start"
    /\ status = [p \in Nodes |-> "absent"]
    /\ waiting = {}
    /\ asked = [p \in Nodes |-> 0]
    /\ learned = {}
    /\ stored \in IF kind = "pointer" THEN Values ELSE {"none", "valid"}
    /\ result = Nothing

Return(r) == phase' = "done" /\ result' = r

\* A data lookup first looks into the local store, and trusts what it finds.
LocalHit ==
    /\ phase = "start"
    /\ kind # "contact"
    /\ stored # "none"
    /\ Return([contacts |-> {Me}, value |-> stored])
    /\ UNCHANGED <<kind, status, waiting, asked, learned, stored>>

\* The shortlist starts with what FindClosestContacts returns.  With nobody
\* to ask, a data lookup has failed and a node lookup reads the table again.
Start(initial) ==
    /\ phase = "start"
    /\ kind # "contact" => stored = "none"
    /\ status' = Add(initial, status)
    /\ \/ initial # {} /\ phase' = "loop" /\ UNCHANGED result
       \/ initial = {} /\ kind = "contact" /\ phase' = "empty" /\ UNCHANGED result
       \/ initial = {} /\ kind # "contact" /\ Return(Nothing)
    /\ UNCHANGED <<kind, waiting, asked, learned, stored>>

\* The second FindClosestContacts of a node lookup without candidates: other
\* goroutines may have added contacts since the first.
ReadAgain(local) ==
    /\ phase = "empty"
    /\ Return([contacts |-> local, value |-> "none"])
    /\ UNCHANGED <<kind, status, waiting, asked, learned, stored>>

SendProbes ==
    /\ phase = "loop"
    /\ waiting = {}
    /\ HasUnqueriedInTopK(bucketSize)
    /\ waiting' = GetClosestUnqueried(alpha, bucketSize)
    /\ asked' = [p \in Nodes |-> asked[p] + (IF p \in waiting' THEN 1 ELSE 0)]
    /\ UNCHANGED <<kind, phase, status, learned, stored, result>>

\* The probe of p failed: no answer in time.
ProbeError(p) ==
    /\ phase = "loop"
    /\ p \in waiting
    /\ waiting' = waiting \ {p}
    /\ status' = [status EXCEPT ![p] = "unresponsive"]
    /\ UNCHANGED <<kind, phase, asked, learned, stored, result>>

\* What every answer of p changes.
Answered(p) ==
    /\ phase = "loop"
    /\ p \in waiting
    /\ waiting' = waiting \ {p}
    /\ learned' = learned \cup {p}

\* p answered with the contacts it knows.
ProbeContacts(p, found) ==
    /\ Answered(p)
    /\ status' = Add(found, [status EXCEPT ![p] = "queried"])
    /\ UNCHANGED <<kind, phase, asked, stored, result>>

\* Mutant: a pointer is kept in the local store too.
ProbeValueCached(p, value) ==
    /\ Answered(p)
    /\ kind # "contact"
    /\ status' = [status EXCEPT ![p] = "queried"]
    /\ IF value = "valid"
       THEN Return([contacts |-> {p}, value |-> value]) /\ stored' = value
       ELSE UNCHANGED <<phase, stored, result>>
    /\ UNCHANGED <<kind, asked>>

\* Mutant: a corrupt value ends the lookup.
ProbeValueGivesUp(p, value) ==
    /\ Answered(p)
    /\ kind # "contact"
    /\ status' = [status EXCEPT ![p] = "queried"]
    /\ IF value = "valid"
       THEN /\ Return([contacts |-> {p}, value |-> value])
            /\ stored' = IF kind = "blob" THEN value ELSE stored
       ELSE Return(Nothing) /\ UNCHANGED stored
    /\ UNCHANGED <<kind, asked>>

\* p answered with a value.  A valid one ends the lookup, and is kept when
\* it is stored under its hash; another one is dropped, with no contacts.
ProbeValue(p, value) ==
    /\ Answered(p)
    /\ kind # "contact"
    /\ status' = [status EXCEPT ![p] = "queried"]
    /\ IF value = "valid"
       THEN /\ Return([contacts |-> {p}, value |-> value])
            /\ stored' = IF kind = "blob" THEN value ELSE stored
       ELSE UNCHANGED <<phase, stored, result>>
    /\ UNCHANGED <<kind, asked>>

\* Mutant: the lookup waits for every candidate, not only the closest ones.
LookupEndAll ==
    /\ phase = "loop"
    /\ waiting = {}
    /\ WithStatus("unqueried") = {}
    /\ Return(Nothing)
    /\ UNCHANGED <<kind, status, waiting, asked, learned, stored>>

LookupEnd ==
    /\ phase = "loop"
    /\ waiting = {}
    /\ ~HasUnqueriedInTopK(bucketSize)
    /\ Return(IF kind = "contact"
              THEN [contacts |-> GetClosestQueried(bucketSize), value |-> "none"]
              ELSE Nothing)
    /\ UNCHANGED <<kind, status, waiting, asked, learned, stored>>

\* The sets of contacts that a routing table may answer with; the node's own
\* table does not hold the node itself.
Answers == {S \in SUBSET Nodes : Cardinality(S) <= bucketSize}

OwnAnswers == {S \in Answers : Me \notin S}

ProbeResult(p) ==
    \/ ProbeError(p)
    \/ \E found \in Answers : ProbeContacts(p, found)
    \/ \E value \in Values \ {"none"} : ProbeValue(p, value)

Next ==
    \/ LocalHit
    \/ \E initial \in OwnAnswers : Start(initial)
    \/ \E local \in OwnAnswers : ReadAgain(local)
    \/ SendProbes
    \/ \E p \in Nodes : ProbeResult(p)
    \/ LookupEnd

Spec == Init /\ [][Next]_vars

(***************************************************************************)
(* The caller's goroutine goes on, and every probe has a result: the RPC   *)
(* returns when its timeout expires.                                       *)
(***************************************************************************)
FairSpec ==
    /\ Spec
    /\ WF_vars(LocalHit \/ SendProbes \/ LookupEnd)
    /\ WF_vars(\E contacts \in OwnAnswers : Start(contacts) \/ ReadAgain(contacts))
    /\ \A p \in Nodes : WF_vars(ProbeResult(p))

-----------------------------------------------------------------------------
(* Properties *)

\* The lookup's state has its type; in particular the node itself is neither in
\* the shortlist nor asked.
TypeOK ==
    /\ kind \in {"contact", "blob", "pointer"}
    /\ phase \in {"start", "empty", "loop", "done"}
    /\ status \in [Nodes -> {"absent", "unqueried", "queried", "unresponsive"}]
    /\ waiting \subseteq Peers
    /\ asked \in [Nodes -> Nat]
    /\ learned \subseteq Peers
    /\ stored \in Values
    /\ result \in [contacts : SUBSET Nodes, value : Values]

(***************************************************************************)
(* A lookup sends a peer at most one probe, however often the peer is      *)
(* found again before or after its answer: Shortlist.Add never resets a    *)
(* status, and a round starts only when the one before is complete.        *)
(***************************************************************************)
AskedOnce ==
    /\ \A p \in Nodes : asked[p] <= 1
    /\ \A p \in Nodes : asked[p] = 1 <=> p \in waiting \/ status[p] \in {"queried", "unresponsive"}

(***************************************************************************)
(* A node lookup that had a candidate ends with the bucketSize closest     *)
(* peers that answered, and it left out no candidate that might have been  *)
(* among them: "The lookup terminates when the k closest nodes have all    *)
(* been queried".  A lookup that had none returns what the table holds by  *)
(* then, and has asked none of these contacts.                             *)
(***************************************************************************)
FindsClosest ==
    phase = "done" /\ kind = "contact" =>
        LET found == result.contacts
        IN  IF WithStatus("absent") = Nodes
            THEN \A p \in Nodes : asked[p] = 0
            ELSE /\ found \subseteq WithStatus("queried")
                 /\ \A p \in WithStatus("unqueried") \cup (WithStatus("queried") \ found) :
                      /\ Cardinality(found) = bucketSize
                      /\ \A q \in found : Closer(q, p, Target)

(***************************************************************************)
(* A data lookup returns something corrupt only when that was in the local *)
(* store before, where a forced publication puts its pointer unchecked:    *)
(* what another node sent is returned only if it passed the check.         *)
(* Nothing corrupt enters the store, and a lookup that asked for a mutable *)
(* pointer does not keep it.                                               *)
(***************************************************************************)
OnlyValidData ==
    /\ result.value = "corrupt" => result.contacts = {Me} /\ stored = "corrupt"
    /\ stored = "corrupt" => kind = "pointer" /\ \A p \in Nodes : asked[p] = 0
    /\ kind = "pointer" /\ (\E p \in Nodes : asked[p] > 0) => stored = "none"

(***************************************************************************)
(* A peer that answers with a corrupt value does not end the lookup: it    *)
(* gives up only after a candidate for every place among the bucketSize    *)
(* closest has answered.                                                   *)
(***************************************************************************)
GivesUpLast ==
    phase = "done" /\ kind # "contact" /\ result.value = "none" =>
        /\ waiting = {}
        /\ WithStatus("unqueried") # {} => Cardinality(WithStatus("queried")) >= bucketSize
        /\ \A p \in WithStatus("unqueried") :
             Cardinality({q \in WithStatus("queried") : Closer(q, p, Target)}) >= bucketSize

(***************************************************************************)
(* Every lookup comes to an end.                                           *)
(***************************************************************************)
LookupEnds == <>(phase = "done")

=============================================================================
