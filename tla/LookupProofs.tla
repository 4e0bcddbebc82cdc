---------------------------- MODULE LookupProofs ----------------------------
(***************************************************************************)
(* One iterative lookup, for any peers, bucket size and alpha, whatever    *)
(* the peers know and answer and in whatever order their answers come.     *)
(* That it asks nobody twice is the invariant Probed: a peer was asked     *)
(* exactly when its result is to come or has come.  That it ends with the  *)
(* closest rests on ClosestOfIsTop: if no candidate among the bucketSize   *)
(* closest is unqueried, these are all queried, and so are the closest of  *)
(* the queried ones.                                                       *)
(***************************************************************************)
EXTENDS Lookup, BucketsProofs

Probed(p) == p \in waiting \/ status[p] \in {"queried", "unresponsive"}

(***************************************************************************)
(* Before the lookup ends it has returned nothing; it asks only when it    *)
(* has a candidate; the node itself is none; a probe under way is one of   *)
(* an unqueried candidate.                                                 *)
(***************************************************************************)
Progress ==
    /\ phase # "done" => result = Nothing
    /\ phase \in {"start", "empty"} => waiting = {} /\ WithStatus("absent") = Nodes
    /\ phase = "empty" => kind = "contact"
    /\ phase = "loop" => WithStatus("absent") # Nodes
    /\ status[Me] = "absent"
    /\ waiting \subseteq WithStatus("unqueried")
    /\ \A p \in Nodes : asked[p] = IF Probed(p) THEN 1 ELSE 0

\* Only a pointer may have been stored unchecked, and a pointer is looked up
\* only when none is stored; only such a pointer is returned unchecked.
Stored ==
    /\ result.value = "corrupt" => result.contacts = {Me} /\ stored = "corrupt"
    /\ stored = "corrupt" => kind = "pointer"
    /\ phase = "loop" /\ kind = "pointer" => stored = "none"
    /\ kind = "pointer" /\ stored # "none" => WithStatus("absent") = Nodes

-----------------------------------------------------------------------------
(* The shortlist.                                                          *)

LEMMA NodesAreIDs ==
  /\ Nodes \subseteq KademliaIDs /\ IsFiniteSet(Nodes)
  /\ Me \in Nodes /\ Peers = Nodes \ {Me}
<1>1. IsFiniteSet(Peers \cup {Me})
  BY LookupAssumption, FS_AddElement
<1> QED BY <1>1, LookupAssumption DEF Nodes

LEMMA SomeNodes ==
  ASSUME NEW s
  PROVE  /\ WithStatus(s) \in SUBSET Nodes
         /\ WithStatus(s) \in SUBSET KademliaIDs
         /\ IsFiniteSet(WithStatus(s))
         /\ Cardinality(WithStatus(s)) \in Nat
<1>1. WithStatus(s) \in SUBSET Nodes
  BY DEF WithStatus
<1> QED BY <1>1, NodesAreIDs, FS_Subset, FS_CardinalityType

StatusType == [Nodes -> {"absent", "unqueried", "queried", "unresponsive"}]

\* Shortlist.Add keeps every status but that of contacts that were absent.
LEMMA AddKeeps ==
  ASSUME NEW contacts, NEW old \in StatusType
  PROVE  /\ Add(contacts, old) \in StatusType
         /\ Add(contacts, old)[Me] = old[Me]
         /\ \A p \in Nodes : old[p] # "absent" => Add(contacts, old)[p] = old[p]
         /\ \A p \in Nodes : Add(contacts, old)[p] \in {old[p], "unqueried"}
<1>1. Me \in Nodes
  BY NodesAreIDs
<1> QED BY <1>1 DEF Add, StatusType

\* The candidates that are asked are unqueried ones.
LEMMA ProbesUnqueried == GetClosestUnqueried(alpha, bucketSize) \subseteq WithStatus("unqueried")
BY DEF GetClosestUnqueried, UnqueriedInTopK, ClosestOf

-----------------------------------------------------------------------------
(* Types, and that no peer is asked twice.                                 *)

LEMMA ProgressInit == Init => TypeOK /\ Progress
<1> SUFFICES ASSUME Init PROVE TypeOK /\ Progress
  OBVIOUS
<1>1. TypeOK
  BY DEF Init, TypeOK, Nothing, Values
<1>2. Progress
  BY NodesAreIDs DEF Init, Progress, WithStatus, Probed
<1> QED BY <1>1, <1>2

\* The result of a probe of p: its status is set once, others may enter.
LEMMA ResultStep ==
  ASSUME TypeOK, Progress, NEW p \in waiting, phase = "loop",
         NEW new \in StatusType, status' = new, waiting' = waiting \ {p}, asked' = asked,
         new[p] \in {"queried", "unresponsive"}, new[Me] = status[Me],
         \A q \in Nodes \ {p} : /\ status[q] # "absent" => new[q] = status[q]
                                /\ new[q] \in {status[q], "unqueried"}
  PROVE  /\ status'[Me] = "absent" /\ WithStatus("absent")' # Nodes
         /\ waiting' \subseteq Peers
         /\ waiting' \subseteq WithStatus("unqueried")'
         /\ \A q \in Nodes : asked'[q] = IF Probed(q)' THEN 1 ELSE 0
<1>1. p \in Nodes /\ status[p] = "unqueried" /\ waiting \subseteq Peers
  BY DEF Progress, WithStatus, TypeOK
<1>2. waiting' \subseteq WithStatus("unqueried")'
  BY DEF Progress, WithStatus
<1>3. ASSUME NEW q \in Nodes PROVE asked'[q] = IF Probed(q)' THEN 1 ELSE 0
  <2>1. asked'[q] = IF Probed(q) THEN 1 ELSE 0
    BY DEF Progress
  <2>2. CASE q = p
    BY <2>1, <2>2 DEF Probed
  <2>3. CASE q # p
    BY <2>1, <2>3 DEF Probed
  <2> QED BY <2>2, <2>3
<1>4. WithStatus("absent")' # Nodes
  BY <1>1 DEF WithStatus
<1> QED BY <1>1, <1>2, <1>3, <1>4 DEF Progress

LEMMA ProgressStep ==
  ASSUME TypeOK, Progress, [Next]_vars
  PROVE  TypeOK' /\ Progress'
<1> USE DEF TypeOK
<1>0. status \in StatusType /\ Me \in Nodes
  BY NodesAreIDs DEF StatusType
<1>1. CASE LocalHit
  <2>1. TypeOK'
    BY <1>0, <1>1 DEF LocalHit, Return
  <2>2. Progress'
    BY <1>1 DEF LocalHit, Return, Progress, WithStatus, Probed
  <2> QED BY <2>1, <2>2
<1>2. ASSUME NEW initial \in OwnAnswers, Start(initial)
      PROVE  TypeOK' /\ Progress'
  <2>1. /\ phase = "start" /\ waiting = {} /\ result = Nothing
        /\ \A p \in Nodes : status[p] = "absent" /\ asked[p] = 0
    BY <1>2 DEF Start, Progress, WithStatus, Probed
  <2>2. /\ status' \in StatusType /\ status'[Me] = "absent"
        /\ \A p \in Nodes : status'[p] \in {"absent", "unqueried"}
    BY <1>0, <1>2, <2>1, AddKeeps DEF Start
  <2>3. /\ UNCHANGED <<kind, waiting, asked, learned, stored>> /\ result' = Nothing
        /\ \/ phase' = "loop" /\ initial # {}
           \/ phase' = "empty" /\ initial = {} /\ kind = "contact"
           \/ phase' = "done"
    BY <1>2, <2>1 DEF Start, Return
  <2>4. TypeOK'
    BY <2>2, <2>3 DEF StatusType, Nothing, Values
  <2>5. status' = Add(initial, status) /\ initial \subseteq Nodes /\ Me \notin initial
    BY <1>2 DEF Start, OwnAnswers, Answers
  <2>6. phase' = "loop" => WithStatus("absent")' # Nodes
    BY <2>1, <2>3, <2>5 DEF Add, WithStatus
  <2>7. phase' = "empty" => WithStatus("absent")' = Nodes
    BY <2>1, <2>3, <2>5 DEF Add, WithStatus
  <2>8. \A p \in Nodes : ~Probed(p)'
    BY <2>1, <2>2, <2>3 DEF Probed
  <2> QED BY <2>1, <2>2, <2>3, <2>4, <2>6, <2>7, <2>8 DEF Progress
<1>3. CASE SendProbes
  <2>1. /\ waiting = {} /\ waiting' \subseteq WithStatus("unqueried")
        /\ UNCHANGED <<kind, phase, status, learned, stored, result>> /\ phase = "loop"
        /\ asked' = [p \in Nodes |-> asked[p] + (IF p \in waiting' THEN 1 ELSE 0)]
    BY <1>3, ProbesUnqueried DEF SendProbes
  <2>2. waiting' \subseteq Peers
    BY <2>1, NodesAreIDs DEF Progress, WithStatus
  <2>3. asked' \in [Nodes -> Nat]
    BY <2>1
  <2>4. \A p \in Nodes : asked'[p] = IF Probed(p)' THEN 1 ELSE 0
    BY <2>1 DEF Progress, WithStatus, Probed
  <2>5. TypeOK'
    BY <2>1, <2>2, <2>3
  <2>6. waiting' \subseteq WithStatus("unqueried")'
    BY <2>1 DEF WithStatus
  <2>7. WithStatus("absent")' = WithStatus("absent")
    BY <2>1 DEF WithStatus
  <2> QED BY <2>1, <2>4, <2>5, <2>6, <2>7 DEF Progress
<1>4. ASSUME NEW p \in Nodes, ProbeError(p) PROVE TypeOK' /\ Progress'
  <2>1. /\ p \in waiting /\ phase = "loop" /\ waiting' = waiting \ {p}
        /\ status' = [status EXCEPT ![p] = "unresponsive"]
        /\ UNCHANGED <<kind, phase, asked, learned, stored, result>>
    BY <1>4 DEF ProbeError
  <2>2. p # Me
    BY <2>1, NodesAreIDs
  <2>3. /\ status'[Me] = "absent" /\ WithStatus("absent")' # Nodes
        /\ waiting' \subseteq Peers /\ waiting' \subseteq WithStatus("unqueried")'
        /\ \A q \in Nodes : asked'[q] = IF Probed(q)' THEN 1 ELSE 0
    <3> DEFINE new == [status EXCEPT ![p] = "unresponsive"]
    <3>1. /\ new \in StatusType /\ new[p] = "unresponsive" /\ new[Me] = status[Me]
          /\ \A q \in Nodes \ {p} : new[q] = status[q]
      BY <1>0, <2>2 DEF StatusType
    <3> HIDE DEF new
    <3>2. status' = new
      BY <2>1 DEF new
    <3> QED BY <2>1, <3>1, <3>2, ResultStep
  <2>4. TypeOK'
    BY <2>1, <2>3
  <2> QED BY <2>1, <2>3, <2>4 DEF Progress
<1>5. ASSUME NEW p \in Nodes, NEW found \in Answers, ProbeContacts(p, found)
      PROVE  TypeOK' /\ Progress'
  <2>1. /\ p \in waiting /\ phase = "loop" /\ waiting' = waiting \ {p} /\ learned' = learned \cup {p}
        /\ status' = Add(found, [status EXCEPT ![p] = "queried"])
        /\ UNCHANGED <<kind, phase, asked, stored, result>>
    BY <1>5 DEF ProbeContacts, Answered
  <2>2. p # Me /\ p \in Peers
    BY <2>1, NodesAreIDs
  <2> DEFINE old == [status EXCEPT ![p] = "queried"]
             new == Add(found, old)
  <2>3. /\ old \in StatusType /\ old[p] = "queried" /\ old[Me] = status[Me]
        /\ \A q \in Nodes \ {p} : old[q] = status[q]
    BY <1>0, <2>2 DEF StatusType
  <2> HIDE DEF old
  <2>4. /\ new \in StatusType /\ new[p] = "queried" /\ new[Me] = status[Me]
        /\ \A q \in Nodes \ {p} : /\ status[q] # "absent" => new[q] = status[q]
                                  /\ new[q] \in {status[q], "unqueried"}
    BY <2>3, AddKeeps
  <2> HIDE DEF new
  <2>5. status' = new
    BY <2>1 DEF new, old
  <2>6. /\ status'[Me] = "absent" /\ WithStatus("absent")' # Nodes
        /\ waiting' \subseteq Peers /\ waiting' \subseteq WithStatus("unqueried")'
        /\ \A q \in Nodes : asked'[q] = IF Probed(q)' THEN 1 ELSE 0
    BY <2>1, <2>4, <2>5, ResultStep
  <2>7. TypeOK'
    BY <2>1, <2>2, <2>4, <2>5, <2>6 DEF StatusType
  <2> QED BY <2>1, <2>6, <2>7 DEF Progress
<1>6. ASSUME NEW p \in Nodes, NEW value \in Values \ {"none"}, ProbeValue(p, value)
      PROVE  TypeOK' /\ Progress'
  <2>1. /\ p \in waiting /\ phase = "loop" /\ waiting' = waiting \ {p} /\ learned' = learned \cup {p}
        /\ status' = [status EXCEPT ![p] = "queried"]
        /\ UNCHANGED <<kind, asked>>
    BY <1>6 DEF ProbeValue, Answered
  <2>2. /\ phase' = "done" \/ (phase' = phase /\ result' = result)
        /\ phase' \in {"loop", "done"} /\ stored' \in Values
        /\ result' \in [contacts : SUBSET Nodes, value : Values]
    BY <1>6, <2>1 DEF ProbeValue, Return
  <2>3. p # Me /\ p \in Peers
    BY <2>1, NodesAreIDs
  <2> DEFINE new == [status EXCEPT ![p] = "queried"]
  <2>4. /\ new \in StatusType /\ new[p] = "queried" /\ new[Me] = status[Me]
        /\ \A q \in Nodes \ {p} : new[q] = status[q]
    BY <1>0, <2>3 DEF StatusType
  <2> HIDE DEF new
  <2>5. status' = new
    BY <2>1 DEF new
  <2>6. /\ status'[Me] = "absent" /\ WithStatus("absent")' # Nodes
        /\ waiting' \subseteq Peers /\ waiting' \subseteq WithStatus("unqueried")'
        /\ \A q \in Nodes : asked'[q] = IF Probed(q)' THEN 1 ELSE 0
    BY <2>1, <2>4, <2>5, ResultStep
  <2>7. TypeOK'
    BY <2>1, <2>2, <2>3, <2>4, <2>5, <2>6 DEF StatusType
  <2> QED BY <2>1, <2>2, <2>6, <2>7 DEF Progress
<1>7. CASE LookupEnd
  <2>1. /\ phase' = "done" /\ UNCHANGED <<kind, status, waiting, asked, learned, stored>>
        /\ result' \in {Nothing, [contacts |-> GetClosestQueried(bucketSize), value |-> "none"]}
    BY <1>7 DEF LookupEnd, Return
  <2>2. GetClosestQueried(bucketSize) \subseteq Nodes
    BY DEF GetClosestQueried, ClosestOf, WithStatus
  <2>3. TypeOK'
    BY <2>1, <2>2 DEF Nothing, Values
  <2>4. Progress'
    BY <2>1 DEF Progress, WithStatus, Probed
  <2> QED BY <2>3, <2>4
<1>8. ASSUME NEW local \in OwnAnswers, ReadAgain(local) PROVE TypeOK' /\ Progress'
  <2>1. /\ phase' = "done" /\ UNCHANGED <<kind, status, waiting, asked, learned, stored>>
        /\ result' = [contacts |-> local, value |-> "none"] /\ local \subseteq Nodes
    BY <1>8 DEF ReadAgain, Return, OwnAnswers, Answers
  <2>2. TypeOK'
    BY <2>1 DEF Values
  <2>3. Progress'
    BY <2>1 DEF Progress, WithStatus, Probed
  <2> QED BY <2>2, <2>3
<1>9. CASE UNCHANGED vars
  BY <1>9 DEF vars, Progress, WithStatus, Probed
<1> QED BY <1>1, <1>2, <1>3, <1>4, <1>5, <1>6, <1>7, <1>8, <1>9 DEF Next, ProbeResult

LEMMA ProgressInvariant == Spec => [](TypeOK /\ Progress)
BY ProgressInit, ProgressStep, PTL DEF Spec

(***************************************************************************)
(* The state of a lookup has its type; in particular the node itself is    *)
(* neither asked nor learned of.                                           *)
(***************************************************************************)
THEOREM LookupTypes == Spec => []TypeOK
BY ProgressInvariant, PTL

(***************************************************************************)
(* For any number of peers that find each other again in any order, the    *)
(* lookup sends each of them at most one probe.                            *)
(***************************************************************************)
THEOREM PeersAskedOnce == Spec => []AskedOnce
<1>1. TypeOK /\ Progress => AskedOnce
  BY DEF Progress, AskedOnce, Probed
<1> QED BY <1>1, ProgressInvariant, PTL

-----------------------------------------------------------------------------
(* What is returned.                                                       *)

\* Once it has ended, a lookup changes no more.
LEMMA DoneIsFinal ==
  ASSUME [Next]_vars, phase = "done"
  PROVE  UNCHANGED vars
BY DEF Next, vars, LocalHit, Start, ReadAgain, SendProbes, ProbeResult, ProbeError, ProbeContacts, ProbeValue,
       Answered, LookupEnd

LEMMA StoredStep ==
  ASSUME TypeOK, Progress, Stored, [Next]_vars
  PROVE  Stored'
<1>1. CASE LocalHit
  BY <1>1 DEF LocalHit, Return, Stored, WithStatus
<1>2. ASSUME NEW initial, Start(initial) PROVE Stored'
  <2>1. /\ kind = "pointer" => stored = "none"
        /\ UNCHANGED <<kind, stored>> /\ result' = Nothing
    BY <1>2 DEF Start, Return, Progress
  <2> QED BY <2>1 DEF Stored, Nothing
<1>3. ASSUME NEW local, ReadAgain(local) PROVE Stored'
  BY <1>3 DEF ReadAgain, Return, Progress, Stored
<1>4. CASE phase = "loop" /\ phase' = "loop" /\ UNCHANGED <<kind, stored, result>>
  BY <1>4 DEF Stored
<1>5. ASSUME NEW p, NEW value, ProbeValue(p, value) PROVE Stored'
  <2>1. /\ phase = "loop" /\ result = Nothing /\ kind' = kind
        /\ kind = "pointer" => stored = "none" /\ stored' = stored
        /\ stored' \in {stored, "valid"}
        /\ result' = result \/ result'.value = "valid"
    BY <1>5 DEF ProbeValue, Answered, Return, Progress, Stored
  <2> QED BY <2>1 DEF Stored, Nothing
<1>6. CASE LookupEnd
  BY <1>6 DEF LookupEnd, Return, Nothing, Stored
<1>7. CASE UNCHANGED vars
  BY <1>7 DEF vars, Stored, WithStatus
<1>8. SendProbes \/ (\E p : ProbeError(p) \/ \E found : ProbeContacts(p, found))
        => phase = "loop" /\ phase' = "loop" /\ UNCHANGED <<kind, stored, result>>
  BY DEF SendProbes, ProbeError, ProbeContacts, Answered
<1> QED BY <1>1, <1>2, <1>3, <1>4, <1>5, <1>6, <1>7, <1>8 DEF Next, ProbeResult

(***************************************************************************)
(* Whatever peers hold under the target, a data lookup returns of it, and  *)
(* keeps in the store, only what passed its check, and keeps no pointer;   *)
(* the one thing it may return unchecked is a pointer that its own node    *)
(* had stored before.                                                      *)
(***************************************************************************)
THEOREM LookupReturnsValidData == Spec => []OnlyValidData
<1>1. Init => Stored
  BY DEF Init, Stored, Nothing, WithStatus
<1>2. TypeOK /\ Progress /\ Stored /\ [Next]_vars => Stored'
  BY StoredStep
<1>3. ASSUME TypeOK, Progress, Stored PROVE OnlyValidData
  <2>1. ASSUME kind = "pointer", stored # "none", NEW p \in Nodes PROVE asked[p] = 0
    <3>1. status[p] = "absent" /\ p \notin waiting
      BY <2>1, <1>3 DEF Stored, Progress, WithStatus
    <3> QED BY <3>1, <1>3 DEF Progress, Probed
  <2> QED BY <2>1, <1>3 DEF Stored, OnlyValidData
<1> QED BY <1>1, <1>2, <1>3, ProgressInvariant, PTL DEF Spec

-----------------------------------------------------------------------------
(* Where a lookup ends.                                                    *)

(***************************************************************************)
(* When no candidate among the bucketSize closest is unqueried, and some   *)
(* candidate is, then bucketSize queried ones are closer than it; these    *)
(* are what GetClosestQueried returns.                                     *)
(***************************************************************************)
LEMMA TopIsQueried ==
  ASSUME ~HasUnqueriedInTopK(bucketSize), NEW p \in WithStatus("unqueried")
  PROVE  /\ Cardinality(GetClosestQueried(bucketSize)) = bucketSize
         /\ \A q \in GetClosestQueried(bucketSize) : Closer(q, p, Target)
<1> DEFINE A == GetActiveCandidates
           Q == WithStatus("queried")
           T == ClosestOf(A, Target, bucketSize)
           F == GetClosestQueried(bucketSize)
<1>1. /\ A \in SUBSET KademliaIDs /\ IsFiniteSet(A)
      /\ Q \in SUBSET KademliaIDs /\ IsFiniteSet(Q)
      /\ Target \in KademliaIDs /\ bucketSize \in Nat
  BY SomeNodes, FS_Union, LookupAssumption, BucketAssumption DEF GetActiveCandidates
<1>2. Q \subseteq A /\ p \in A /\ A = WithStatus("unqueried") \cup Q
  BY DEF GetActiveCandidates
<1>3. T \cap WithStatus("unqueried") = {}
  BY DEF HasUnqueriedInTopK, UnqueriedInTopK
<1> HIDE DEF A, Q
<1>4. /\ T \subseteq A /\ IsFiniteSet(T)
      /\ \A c \in A \ T : Cardinality(T) = bucketSize /\ \A t \in T : Closer(t, c, Target)
  BY <1>1, ClosestOfIsTop
<1>5. /\ F \subseteq Q /\ IsFiniteSet(F) /\ Cardinality(F) <= bucketSize
  BY <1>1, ClosestOfIsTop DEF GetClosestQueried, Q
<1>6. T \subseteq Q /\ p \in A \ T
  BY <1>2, <1>3, <1>4
<1>7. T \subseteq F
  <2> SUFFICES ASSUME NEW t \in T PROVE t \in F
    OBVIOUS
  <2> DEFINE inA == {d \in A : Closer(d, t, Target)}
             inQ == {d \in Q : Closer(d, t, Target)}
  <2>1. t \in Q /\ Cardinality(inA) < bucketSize
    BY <1>6 DEF ClosestOf
  <2>2. inQ \in SUBSET inA /\ inA \in SUBSET A
    BY <1>2
  <2>3. IsFiniteSet(inA)
    BY <1>1, <2>2, FS_Subset
  <2>4. Cardinality(inQ) <= Cardinality(inA) /\ Cardinality(inQ) \in Nat /\ Cardinality(inA) \in Nat
    BY <2>2, <2>3, FS_Subset, FS_CardinalityType
  <2>5. Cardinality(inQ) < bucketSize
    BY <1>1, <2>1, <2>4
  <2> QED BY <2>1, <2>5 DEF GetClosestQueried, ClosestOf, Q
<1> HIDE DEF T, F
<1>8. Cardinality(T) = bucketSize /\ \A t \in T : Closer(t, p, Target)
  BY <1>4, <1>6
<1>9. F = T
  <2>1. Cardinality(T) <= Cardinality(F) /\ Cardinality(F) \in Nat
    BY <1>5, <1>7, FS_Subset, FS_CardinalityType
  <2>2. Cardinality(F) = Cardinality(T)
    BY <1>1, <1>5, <1>8, <2>1
  <2> QED BY <1>5, <1>7, <2>2, FS_Subset
<1> QED BY <1>8, <1>9 DEF F

\* A queried peer is left out of the result only for bucketSize closer ones.
LEMMA QueriedLeftOut ==
  ASSUME NEW p \in WithStatus("queried") \ GetClosestQueried(bucketSize)
  PROVE  /\ Cardinality(GetClosestQueried(bucketSize)) = bucketSize
         /\ \A q \in GetClosestQueried(bucketSize) : Closer(q, p, Target)
<1>1. /\ WithStatus("queried") \in SUBSET KademliaIDs /\ IsFiniteSet(WithStatus("queried"))
      /\ Target \in KademliaIDs /\ bucketSize \in Nat
  BY SomeNodes, LookupAssumption, BucketAssumption
<1> QED BY <1>1, ClosestOfIsTop DEF GetClosestQueried

\* The state in which LookupEnd returns.
Exhausted == waiting = {} /\ ~HasUnqueriedInTopK(bucketSize)

LEMMA ExhaustedMeansClosest ==
  ASSUME Exhausted
  PROVE  LET found == GetClosestQueried(bucketSize)
         IN  /\ found \subseteq WithStatus("queried")
             /\ \A p \in WithStatus("unqueried") \cup (WithStatus("queried") \ found) :
                  /\ Cardinality(found) = bucketSize
                  /\ \A q \in found : Closer(q, p, Target)
<1>1. GetClosestQueried(bucketSize) \subseteq WithStatus("queried")
  BY DEF GetClosestQueried, ClosestOf
<1> QED BY <1>1, TopIsQueried, QueriedLeftOut DEF Exhausted

LEMMA ExhaustedMeansLast ==
  ASSUME Exhausted, NEW p \in WithStatus("unqueried")
  PROVE  /\ Cardinality(WithStatus("queried")) >= bucketSize
         /\ Cardinality({q \in WithStatus("queried") : Closer(q, p, Target)}) >= bucketSize
<1> DEFINE F == GetClosestQueried(bucketSize)
           Q == WithStatus("queried")
           C == {q \in Q : Closer(q, p, Target)}
<1>1. Cardinality(F) = bucketSize /\ F \in SUBSET C /\ C \in SUBSET Q
  BY TopIsQueried, ExhaustedMeansClosest DEF Exhausted
<1>2. IsFiniteSet(Q) /\ Cardinality(Q) \in Nat
  BY SomeNodes
<1>3. IsFiniteSet(C) /\ Cardinality(C) <= Cardinality(Q) /\ Cardinality(C) \in Nat
  BY <1>1, <1>2, FS_Subset, FS_CardinalityType
<1>4. Cardinality(F) <= Cardinality(C)
  BY <1>1, <1>3, FS_Subset
<1>5. bucketSize \in Nat
  BY BucketAssumption
<1> HIDE DEF F, Q, C
<1>6. Cardinality(C) >= bucketSize /\ Cardinality(Q) >= bucketSize
  BY <1>1, <1>2, <1>3, <1>4, <1>5
<1> QED BY <1>6 DEF C, Q

\* What a lookup that ends with nothing but contacts leaves behind.
LEMMA EndStep ==
  ASSUME TypeOK, Progress, [Next]_vars, phase # "done", phase' = "done"
  PROVE  FindsClosest' /\ GivesUpLast'
<1>1. CASE LocalHit
  <2>1. kind' # "contact" /\ result'.value # "none"
    BY <1>1 DEF LocalHit, Return
  <2> QED BY <2>1 DEF FindsClosest, GivesUpLast
<1>2. ASSUME NEW initial, Start(initial) PROVE FindsClosest' /\ GivesUpLast'
  <2>1. initial = {} /\ kind' # "contact" /\ waiting' = {} /\ status' = Add({}, status)
    BY <1>2 DEF Start, Return, Progress
  <2>2. \A p \in Nodes : status[p] = "absent"
    BY <1>2 DEF Start, Progress, WithStatus
  <2>3. WithStatus("unqueried")' = {}
    BY <2>1, <2>2 DEF WithStatus, Add
  <2> QED BY <2>1, <2>3 DEF FindsClosest, GivesUpLast
<1>3. ASSUME NEW p, NEW value, ProbeValue(p, value) PROVE FindsClosest' /\ GivesUpLast'
  <2>1. kind' # "contact" /\ result'.value # "none"
    BY <1>3 DEF ProbeValue, Answered, Return
  <2> QED BY <2>1 DEF FindsClosest, GivesUpLast
<1>4. CASE LookupEnd
  <2>1. /\ Exhausted /\ UNCHANGED <<kind, status, waiting>> /\ phase = "loop"
        /\ kind = "contact" => result'.contacts = GetClosestQueried(bucketSize)
    BY <1>4 DEF LookupEnd, Return, Exhausted
  <2>2. \A s : WithStatus(s)' = WithStatus(s)
    BY <2>1 DEF WithStatus
  <2>3. FindsClosest'
    <3>1. WithStatus("absent")' # Nodes
      BY <2>1, <2>2 DEF Progress
    <3> SUFFICES ASSUME kind = "contact"
                 PROVE  LET found == GetClosestQueried(bucketSize)
                        IN  /\ found \subseteq WithStatus("queried")
                            /\ \A p \in WithStatus("unqueried") \cup (WithStatus("queried") \ found) :
                                 /\ Cardinality(found) = bucketSize
                                 /\ \A q \in found : Closer(q, p, Target)
      BY <2>1, <2>2, <3>1 DEF FindsClosest
    <3> QED BY <2>1, ExhaustedMeansClosest
  <2>4. GivesUpLast'
    <3>1. waiting' = {}
      BY <2>1 DEF Exhausted
    <3> QED BY <2>1, <2>2, <3>1, ExhaustedMeansLast DEF GivesUpLast
  <2> QED BY <2>3, <2>4
<1>5. ASSUME SendProbes \/ \E p : ProbeError(p) \/ \E found : ProbeContacts(p, found) PROVE FALSE
  BY <1>5 DEF SendProbes, ProbeError, ProbeContacts
<1>6. ASSUME NEW local, ReadAgain(local) PROVE FindsClosest' /\ GivesUpLast'
  <2>1. kind' = "contact" /\ UNCHANGED <<status, waiting, asked>> /\ phase = "empty"
    BY <1>6 DEF ReadAgain, Return, Progress
  <2>2. WithStatus("absent")' = Nodes
    BY <2>1 DEF Progress, WithStatus
  <2>3. \A p \in Nodes : asked'[p] = 0
    BY <2>1 DEF Progress, Probed, WithStatus
  <2> QED BY <2>1, <2>2, <2>3 DEF FindsClosest, GivesUpLast
<1>7. ~UNCHANGED vars
  BY DEF vars
<1> QED BY <1>1, <1>2, <1>3, <1>4, <1>5, <1>6, <1>7 DEF Next, ProbeResult

LEMMA EndInvariant == Spec => [](FindsClosest /\ GivesUpLast)
<1>1. Init => FindsClosest /\ GivesUpLast
  BY DEF Init, FindsClosest, GivesUpLast
<1>2. TypeOK /\ Progress /\ FindsClosest /\ GivesUpLast /\ [Next]_vars => (FindsClosest /\ GivesUpLast)'
  <2> SUFFICES ASSUME TypeOK, Progress, FindsClosest, GivesUpLast, [Next]_vars
               PROVE  FindsClosest' /\ GivesUpLast'
    OBVIOUS
  <2>1. CASE phase' # "done"
    BY <2>1 DEF FindsClosest, GivesUpLast
  <2>2. CASE phase = "done"
    <3>1. UNCHANGED <<kind, phase, status, waiting, asked, result>> /\ \A s : WithStatus(s)' = WithStatus(s)
      BY <2>2, DoneIsFinal DEF vars, WithStatus
    <3> QED BY <3>1 DEF FindsClosest, GivesUpLast
  <2>3. CASE phase # "done" /\ phase' = "done"
    BY <2>3, EndStep
  <2> QED BY <2>1, <2>2, <2>3
<1> QED BY <1>1, <1>2, ProgressInvariant, PTL DEF Spec

(***************************************************************************)
(* A node lookup among any peers that had a candidate ends with the        *)
(* bucketSize closest that answered, and every candidate it did not ask is *)
(* farther away than all of them; one that had none, because the routing   *)
(* table was empty when it was first read, returns contacts it did not ask.*)
(***************************************************************************)
THEOREM LookupFindsClosest == Spec => []FindsClosest
BY EndInvariant, PTL

(***************************************************************************)
(* A data lookup gives up only when bucketSize peers closer than every     *)
(* candidate left have answered without the value, however many of them    *)
(* answered with a corrupt one.                                            *)
(***************************************************************************)
THEOREM LookupGivesUpLast == Spec => []GivesUpLast
BY EndInvariant, PTL

=============================================================================
