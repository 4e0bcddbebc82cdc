---------------------------- MODULE OverlayProofs ----------------------------
(***************************************************************************)
(* A network of nodes that join through one bootstrap node, for any number *)
(* of nodes, identifiers of any length, any bucket size, any number of     *)
(* joins, stores and lookups at once, any losses and departures: the       *)
(* tables stay sound, and Join leaves no island as long as no message is   *)
(* lost and nobody leaves.                                                 *)
(*                                                                         *)
(* A table only grows, so what a node knows it knows for good.  When n     *)
(* looks itself up, every node that answers knows n from then on, or has a *)
(* full bucket and sends n on to bucketSize nodes that are closer to n.    *)
(* Among the nodes that were asked, the closest to n cannot have done      *)
(* that: so somebody knows n, and n is found from the bootstrap node       *)
(* because all that n heard of were found from it.  That somebody has      *)
(* joined if no bucketSize nodes that are closer are all joining still.    *)
(*                                                                         *)
(* In a network of at most bucketSize nodes more holds: the nodes that     *)
(* have joined know each other, and every one gets the value.              *)
(***************************************************************************)
EXTENDS Overlay, BucketsProofs

-----------------------------------------------------------------------------
(* The inductive invariant                                                 *)

\* The nodes that have joined or are joining.
Joining == {n \in Nodes : op[n].task \in {"join", "refresh"}}

Started == joined \cup Joining

Listed(o) == {m \in Nodes : o.status[m] # "absent"}

\* The nodes that an operation has heard of.
Mentioned(o) ==
    Listed(o) \cup o.sent \cup {r.from : r \in o.replies} \cup UNION {r.contacts : r \in o.replies}

\* Which node may run which operation.
Roles ==
    /\ Bootstrap \in joined
    /\ \A n \in Nodes :
          /\ op[n].task = "none" => op[n] = Idle
          /\ op[n].task \in {"join", "refresh"} => n \notin joined /\ n \in setting.members
          /\ op[n].task \in {"store", "get"} => n \in joined
          /\ op[n].task = "join" => op[n].target = n
          /\ op[n].phase = "store" => op[n].task = "store"
          /\ \A r \in op[n].replies : r.value => op[n].task = "get"

\* A node never hears of itself.
Others ==
    /\ \A n \in Nodes : n \notin Mentioned(op[n])
    /\ \A s \in strays : s[1] # s[2] /\ s[1] \in Started

\* Everybody heard of is in S.
Within(S) ==
    /\ \A n \in Nodes : Knows(n) \subseteq S /\ Mentioned(op[n]) \subseteq S
    /\ \A s \in strays : s[2] \in S

\* Nobody hears of a node before it starts to join; who has started knows
\* the bootstrap node.
Acquainted ==
    /\ Within(Started)
    /\ \A n \in Nodes \ Started : buckets[n] = NoContacts
    /\ \A n \in Started \ {Bootstrap} : Bootstrap \in Knows(n)

JoinsBounded == Cardinality(Joining) <= setting.joins

\* All that anybody hears of is found from the bootstrap node.
Enclosed == \A S \in SUBSET Nodes : Bootstrap \in S /\ ClosedSet(S) => Within(S)

\* What n gains by asking m, which sends it on to C.
Introduced(n, m, C) ==
    \/ n \in Knows(m)
    \/ \E F \in SUBSET C : Cardinality(F) >= bucketSize /\ \A x \in F : Closer(x, m, n)

\* The lookup of a joining node, of itself.
JoinLookups ==
    \A n \in Nodes : op[n].task = "join" =>
        /\ op[n].phase = "loop" =>
              Bootstrap \in Listed(op[n]) \/ Cardinality(Listed(op[n])) >= bucketSize
        /\ \A m \in Nodes : op[n].status[m] = "queried" => Introduced(n, m, Listed(op[n]))
        /\ \A r \in op[n].replies : Introduced(n, r.from, r.contacts)

\* No message was lost and nobody has left.
Reliable == losses = 0 /\ up = setting.members

\* Then every message is answered.
Answered ==
    Reliable => \A n \in Nodes : /\ op[n].sent \subseteq op[n].seen
                                 /\ \A m \in Nodes : op[n].status[m] # "unresponsive"

\* Who has looked itself up is found from the bootstrap node.
Reached ==
    Reliable =>
        \A S \in SUBSET Nodes : Bootstrap \in S /\ ClosedSet(S) =>
            \A n \in Nodes : n \in joined \/ op[n].task = "refresh" => n \in S

\* It is known to somebody who has joined, and before it has itself.
Rooted ==
    Reliable /\ setting.joins <= bucketSize =>
        /\ \A n \in Nodes : op[n].task = "refresh" => \E m \in joined : n \in Knows(m)
        /\ \A S \in SUBSET joined : Bootstrap \in S /\ S # joined =>
              \E n \in S : Knows(n) \cap (joined \ S) # {}

-----------------------------------------------------------------------------
(* Tables                                                                  *)

LEMMA NodesFacts ==
    /\ Nodes \subseteq KademliaIDs /\ IsFiniteSet(Nodes)
    /\ Bootstrap \in Nodes /\ Key \in KademliaIDs
    /\ bucketSize \in Nat /\ bucketSize # 0
BY OverlayAssumption, BucketAssumption

LEMMA SettingFacts ==
    ASSUME TypeOK
    PROVE  /\ setting.members \subseteq Nodes /\ Bootstrap \in setting.members
           /\ setting.alpha \in Nat /\ setting.joins \in Nat /\ setting.losses \in Nat
           /\ Writers \subseteq setting.members
<1>1. setting \in Settings /\ setting \in Setting
    BY OverlayAssumption DEF TypeOK
<1>2. Writers \cup {Bootstrap} \subseteq setting.members
    BY <1>1, OverlayAssumption
<1> QED
    BY <1>1, <1>2 DEF Setting

LEMMA SoundTableOf ==
    ASSUME NEW n \in Nodes, NEW table
    PROVE  SoundTable(n, table) <=> TableOf(n, Nodes \ {n}, table)
<1>1. n \in KademliaIDs /\ Nodes \ {n} \subseteq KademliaIDs \ {n} /\ IsFiniteSet(Nodes \ {n})
    BY NodesFacts, FS_Subset
<1> QED
    BY <1>1 DEF SoundTable, TableOf

\* AddContact in the table of a node.
LEMMA AddedProperties ==
    ASSUME TypeOK, NEW n \in Nodes, NEW c \in Nodes \ {n}
    PROVE  /\ SoundTable(n, Added(n, c))
           /\ Knows(n) \subseteq GetAllContacts(Added(n, c))
           /\ GetAllContacts(Added(n, c)) \subseteq Knows(n) \cup {c}
           /\ \/ c \in GetAllContacts(Added(n, c))
              \/ Added(n, c) = buckets[n] /\ Len(buckets[n][GetBucketIndex(n, c)]) >= bucketSize
<1>1. TableOf(n, Nodes \ {n}, buckets[n])
    BY SoundTableOf DEF TypeOK
<1>2. /\ TableOf(n, Nodes \ {n}, Added(n, c))
      /\ GetAllContacts(buckets[n]) \subseteq GetAllContacts(Added(n, c))
      /\ GetAllContacts(Added(n, c)) \subseteq GetAllContacts(buckets[n]) \cup {c}
      /\ \/ c \in GetAllContacts(Added(n, c))
         \/ Added(n, c) = buckets[n] /\ Len(buckets[n][GetBucketIndex(n, c)]) >= bucketSize
    BY <1>1, TableAddProperties DEF Added
<1> QED
    BY <1>2, SoundTableOf DEF Knows

LEMMA KnowsNodes ==
    ASSUME TypeOK, NEW n \in Nodes
    PROVE  Knows(n) \subseteq Nodes \ {n}
<1>1. TableOf(n, Nodes \ {n}, buckets[n])
    BY SoundTableOf DEF TypeOK
<1>2. 0 \in BucketIndices
    BY BitsAssumption DEF BucketIndices
<1> QED
    BY <1>1, <1>2, ScannedContacts DEF Knows

\* A node without contacts learns of the first one it adds.
LEMMA FirstContact ==
    ASSUME TypeOK, NEW n \in Nodes, NEW c \in Nodes \ {n}, buckets[n] = NoContacts
    PROVE  c \in GetAllContacts(Added(n, c))
<1>1. GetBucketIndex(n, c) \in BucketIndices
    BY NodesFacts, BucketIndexIsFirstDifference
<1>2. Len(buckets[n][GetBucketIndex(n, c)]) = 0
    BY <1>1 DEF NoContacts
<1> QED
    BY <1>2, NodesFacts, AddedProperties

\* FindClosestContacts in the table of a node.
LEMMA FoundProperties ==
    ASSUME NEW n \in Nodes, NEW table, SoundTable(n, table), NEW target \in KademliaIDs
    PROVE  LET found == FindClosestContacts(n, table, target, bucketSize)
           IN  /\ found \subseteq GetAllContacts(table)
               /\ found \subseteq Nodes \ {n}
               /\ Cardinality(found) = bucketSize \/ found = GetAllContacts(table)
<1>1. TableOf(n, Nodes \ {n}, table)
    BY SoundTableOf
<1> QED
    BY <1>1, NodesFacts, FindClosestEnough

(***************************************************************************)
(* Whom x may come to know in a step: the bootstrap node when it starts to *)
(* join, a node it asks, a node that asks it.                              *)
(***************************************************************************)
Meets(x, y) ==
    \/ y = Bootstrap /\ x \notin Started /\ op'[x].task = "join" /\ x \in Nodes
    \/ y \in Mentioned(op[x]) /\ x \in Started
    \/ x \in Mentioned(op[y]) /\ y \in Started
    \/ <<x, y>> \in strays
    \/ <<y, x>> \in strays

\* Who has something to do has started to join.
LEMMA BusyStarted ==
    ASSUME TypeOK, Roles, NEW n \in Nodes
    PROVE  /\ op[n].task # "none" <=> op[n] # Idle
           /\ op[n].phase # "start" => op[n].task # "none"
           /\ op[n].task # "none" => n \in Started
<1>1. Idle.task = "none" /\ Idle.phase = "start"
    BY DEF Idle
<1>2. op[n] \in Operation
    BY DEF TypeOK
<1> QED
    BY <1>1, <1>2 DEF Roles, Started, Joining, Operation

\* An operation has heard of nodes, and of others than its own.
LEMMA MentionedNodes ==
    ASSUME TypeOK, Others, NEW n \in Nodes
    PROVE  /\ Mentioned(op[n]) \subseteq Nodes \ {n}
           /\ op[n].sent \subseteq Nodes \ {n}
           /\ \A r \in op[n].replies :
                 r \in Reply /\ r.from \in Nodes \ {n} /\ r.contacts \subseteq Nodes \ {n}
<1>1. op[n] \in Operation
    BY DEF TypeOK
<1>2. \A r \in op[n].replies : r \in Reply /\ r.from \in Nodes /\ r.contacts \subseteq Nodes
    BY <1>1 DEF Operation, Reply
<1>3. n \notin Mentioned(op[n])
    BY DEF Others
<1>4. Mentioned(op[n]) \subseteq Nodes /\ op[n].sent \subseteq Nodes
    BY <1>1, <1>2 DEF Mentioned, Listed, Operation
<1> QED
    BY <1>2, <1>3, <1>4 DEF Mentioned

\* What a message does to the tables.
LEMMA HandledProperties ==
    ASSUME TypeOK, NEW n \in Nodes, NEW m \in Nodes, n # m, NEW task
    PROVE  LET new == Handled(n, m, task)
           IN  /\ DOMAIN new = Nodes
               /\ new[m] = Added(m, n)
               /\ new[n] = buckets[n] \/ new[n] = Added(n, m)
               /\ \A x \in Nodes \ {n, m} : new[x] = buckets[x]
<1>1. DOMAIN buckets = Nodes
    BY DEF TypeOK
<1> QED
    BY <1>1 DEF Handled

LEMMA TableSteps ==
    ASSUME TypeOK, Roles, Others, [Next]_vars
    PROVE  /\ DOMAIN buckets' = Nodes
           /\ \A x \in Nodes :
                 \/ buckets'[x] = buckets[x]
                 \/ \E y \in Nodes \ {x} : buckets'[x] = Added(x, y) /\ Meets(x, y)
<1>0. DOMAIN buckets = Nodes
    BY DEF TypeOK
<1> DEFINE Goal == /\ DOMAIN buckets' = Nodes
                   /\ \A x \in Nodes :
                         \/ buckets'[x] = buckets[x]
                         \/ \E y \in Nodes \ {x} : buckets'[x] = Added(x, y) /\ Meets(x, y)
<1>1. CASE buckets' = buckets
    BY <1>0, <1>1
<1>2. ASSUME NEW n \in Nodes, Join(n)
      PROVE  Goal
    <2>1. /\ buckets' = [buckets EXCEPT ![n] = Added(n, Bootstrap)]
          /\ n \notin joined /\ op[n].task = "none"
          /\ op' = [op EXCEPT ![n] = Starting("join", n)]
        BY <1>2 DEF Join, MayStart
    <2>2. n # Bootstrap /\ n \notin Started
        BY <2>1 DEF Roles, Started, Joining
    <2>3. op'[n].task = "join"
        BY <2>1 DEF TypeOK, Starting, Idle
    <2>4. Bootstrap \in Nodes \ {n} /\ Meets(n, Bootstrap)
        BY <2>2, <2>3, NodesFacts DEF Meets
    <2> QED
        BY <1>0, <2>1, <2>4
<1>3. ASSUME NEW n \in Nodes, NEW m \in Nodes, n # m, NEW task, buckets' = Handled(n, m, task),
             Meets(m, n), Meets(n, m)
      PROVE  Goal
    <2>1. /\ DOMAIN buckets' = Nodes
          /\ buckets'[m] = Added(m, n)
          /\ buckets'[n] = buckets[n] \/ buckets'[n] = Added(n, m)
          /\ \A x \in Nodes \ {n, m} : buckets'[x] = buckets[x]
        BY <1>3, HandledProperties
    <2> QED
        BY <1>3, <2>1
<1>4. ASSUME NEW n \in Nodes, NEW m \in op[n].sent, op[n].phase # "start"
      PROVE  m \in Nodes /\ n # m /\ Meets(m, n) /\ Meets(n, m)
    <2>1. n \in Started
        BY <1>4, BusyStarted
    <2>2. m \in Mentioned(op[n])
        BY DEF Mentioned
    <2> QED
        BY <2>1, <2>2, MentionedNodes DEF Meets
<1>5. ASSUME NEW n \in Nodes, NEW m \in Nodes, ProbeServed(n, m) \/ StoreServed(n, m)
      PROVE  Goal
    <2>1. /\ m \in op[n].sent /\ op[n].phase # "start"
          /\ buckets' = Handled(n, m, op[n].task) \/ buckets' = Handled(n, m, "store")
        BY <1>5 DEF ProbeServed, StoreServed
    <2> QED
        BY <1>3, <1>4, <2>1
<1>6. ASSUME NEW n \in Nodes, NEW r \in op[n].replies, ProbeAnswered(n, r)
      PROVE  Goal
    <2>1. buckets' = [buckets EXCEPT ![n] = Added(n, r.from)] /\ op[n].phase # "start"
        BY <1>6 DEF ProbeAnswered
    <2>2. r.from \in Mentioned(op[n]) /\ r.from \in Nodes \ {n} /\ n \in Started
        BY <2>1, MentionedNodes, BusyStarted DEF Mentioned
    <2>3. Meets(n, r.from)
        BY <2>2 DEF Meets
    <2> QED
        BY <1>0, <2>1, <2>2, <2>3
<1>7. ASSUME NEW s \in strays, StrayServed(s[1], s[2])
      PROVE  Goal
    <2>1. s[1] \in Nodes /\ s[2] \in Nodes /\ s = <<s[1], s[2]>> /\ s[1] # s[2]
        BY DEF TypeOK, Others
    <2>2. Meets(s[1], s[2]) /\ Meets(s[2], s[1])
        BY <2>1 DEF Meets
    <2>3. buckets' = Handled(s[1], s[2], "get")
        BY <1>7 DEF StrayServed
    <2> QED
        BY <1>3, <2>1, <2>2, <2>3
<1>8. CASE UNCHANGED vars
    BY <1>1, <1>8 DEF vars
<1>9. ASSUME NEW n \in Nodes, Step(n)
      PROVE  Goal
    <2>1. CASE \E m \in Nodes : ProbeServed(n, m) \/ StoreServed(n, m)
        BY <1>5, <2>1
    <2>2. CASE \E r \in op[n].replies : ProbeAnswered(n, r)
        BY <1>6, <2>2
    <2>3. CASE ~(\E m \in Nodes : ProbeServed(n, m) \/ StoreServed(n, m))
               /\ ~(\E r \in op[n].replies : ProbeAnswered(n, r))
        <3>1. buckets' = buckets
            BY <1>9, <2>3 DEF Step, LookupStep, LookupStart, SendProbes, ProbeFails, JoinLookupOver,
               RefreshLookupOver, StoreLookupOver, StoreFails, StoreReturns, GetFails
        <3> QED
            BY <1>1, <3>1
    <2> QED
        BY <2>1, <2>2, <2>3
<1>10. CASE \E n \in Nodes : Store(n) \/ Replicate(n) \/ LookupData(n) \/ Close(n)
    BY <1>1, <1>10 DEF Store, Replicate, LookupData, Close
<1> QED
    BY <1>2, <1>7, <1>8, <1>9, <1>10 DEF Next

\* Tables stay sound and only grow.
LEMMA TablesGrow ==
    ASSUME TypeOK, Roles, Others, [Next]_vars
    PROVE  /\ DOMAIN buckets' = Nodes
           /\ \A x \in Nodes :
                 /\ SoundTable(x, buckets'[x])
                 /\ Knows(x) \subseteq Knows(x)'
                 /\ \A y \in Knows(x)' : y \in Knows(x) \/ Meets(x, y)
<1> SUFFICES ASSUME NEW x \in Nodes
             PROVE  /\ SoundTable(x, buckets'[x])
                    /\ Knows(x) \subseteq Knows(x)'
                    /\ \A y \in Knows(x)' : y \in Knows(x) \/ Meets(x, y)
    BY TableSteps
<1>1. Knows(x)' = GetAllContacts(buckets'[x])
    BY DEF Knows
<1>2. CASE buckets'[x] = buckets[x]
    BY <1>1, <1>2 DEF TypeOK, Knows
<1>3. CASE \E y \in Nodes \ {x} : buckets'[x] = Added(x, y) /\ Meets(x, y)
    BY <1>1, <1>3, AddedProperties
<1> QED
    BY <1>2, <1>3, TableSteps

-----------------------------------------------------------------------------
(* Operations                                                              *)

Status == [Nodes -> {"absent", "unqueried", "queried", "unresponsive"}]

\* An operation, or the next lookup of a Join, that has not begun to ask.
AtStart(o) == o.phase = "start" /\ o.status = NoStatus /\ o.sent = {} /\ o.replies = {}

\* The ways in which an operation begins and ends.
BeginsJoin(n) ==
    /\ op[n].task = "none" /\ op'[n].task = "join" /\ op'[n].target = n
    /\ n \notin joined /\ n \in up /\ Cardinality(Busy) < setting.joins
    /\ buckets'[n] = Added(n, Bootstrap)
    /\ joined' = joined

Begins(n) ==
    /\ op[n].task = "none" /\ op'[n].task \in {"store", "get"}
    /\ n \in joined /\ n \in up
    /\ op'[n].task = "store" => n \in has' /\ (op'[n].expects => Settled)
    /\ op'[n].task = "get" => n \notin has /\ (op'[n].expects => placed)
    /\ joined' = joined

Ends(n) ==
    /\ op[n].task \in {"store", "get"} /\ op'[n] = Idle
    /\ joined' = joined

Refreshes(n) ==
    /\ op[n].task \in {"join", "refresh"} /\ op'[n].task = "refresh"
    /\ LookupOver(n)
    /\ joined' = joined

Joins(n) ==
    /\ op[n].task \in {"join", "refresh"} /\ op'[n] = Idle
    /\ LookupOver(n)
    /\ joined' = joined \cup {n}

Restarts(n) ==
    /\ AtStart(op'[n])
    /\ BeginsJoin(n) \/ Begins(n) \/ Ends(n) \/ Refreshes(n) \/ Joins(n)

(***************************************************************************)
(* An operation goes on.  It hears of the nodes that its own node knows    *)
(* and those that the nodes it asks know.                                  *)
(***************************************************************************)
Continues(n) ==
    /\ op[n].task # "none" /\ op'[n].phase # "start"
    /\ op'[n].task = op[n].task /\ op'[n].target = op[n].target /\ op'[n].expects = op[n].expects
    /\ op'[n].phase = "store" => op[n].task = "store"
    /\ \A r \in op'[n].replies : r.value => op[n].task = "get"
    /\ joined' = joined
    /\ n \notin Mentioned(op'[n])
    /\ \A y \in Mentioned(op'[n]) :
          \/ y \in Mentioned(op[n]) \cup Knows(n)
          \/ \E m \in Mentioned(op[n]) : y \in Knows(m)'

\* Only n changes its operation.
OnlyOf(n) == op' \in [Nodes -> Operation] /\ \A x \in Nodes \ {n} : op'[x] = op[x]

LEMMA IdleIsOperation ==
    /\ Idle \in Operation /\ AtStart(Idle)
    /\ \A task \in {"join", "refresh", "store", "get"}, target \in KademliaIDs :
          LET o == Starting(task, target)
          IN  o \in Operation /\ AtStart(o) /\ o.task = task /\ o.target = target
<1>1. /\ 0 \in 0..Bits /\ 0 \in -1..(Bits - 1)
    BY BitsAssumption
<1>2. NoStatus \in Status
    BY DEF NoStatus, Status
<1>3. Idle \in Operation /\ AtStart(Idle)
    BY <1>1, <1>2, NodesFacts DEF Idle, Operation, Status, AtStart
<1>4. ASSUME NEW task \in {"join", "refresh", "store", "get"}, NEW target \in KademliaIDs
      PROVE  LET o == [Idle EXCEPT !.task = task, !.target = target]
             IN  o \in Operation /\ AtStart(o) /\ o.task = task /\ o.target = target
    BY <1>3 DEF Operation, AtStart
<1> QED
    BY <1>3, <1>4 DEF Starting

\* The steps that begin an operation or end one.
LEMMA BeginSteps ==
    ASSUME TypeOK, Roles, NEW n \in Nodes,
           Join(n) \/ Store(n) \/ Replicate(n) \/ LookupData(n)
    PROVE  OnlyOf(n) /\ Restarts(n) /\ strays' = strays
<1>1. op \in [Nodes -> Operation] /\ n \in KademliaIDs /\ Key \in KademliaIDs
    BY NodesFacts DEF TypeOK
<1>2. CASE Join(n)
    <2>1. /\ op' = [op EXCEPT ![n] = Starting("join", n)]
          /\ op[n].task = "none" /\ n \notin joined /\ n \in up /\ Cardinality(Busy) < setting.joins
          /\ buckets'[n] = Added(n, Bootstrap)
          /\ joined' = joined /\ strays' = strays
        BY <1>2 DEF Join, MayStart, TypeOK
    <2>2. op'[n] = Starting("join", n) /\ OnlyOf(n)
        BY <1>1, <2>1, IdleIsOperation DEF OnlyOf
    <2> QED
        BY <1>1, <2>1, <2>2, IdleIsOperation DEF Restarts, BeginsJoin
<1>3. ASSUME NEW task \in {"store", "get"}, NEW e \in BOOLEAN,
             op' = [op EXCEPT ![n] = [Starting(task, Key) EXCEPT !.expects = e]],
             op[n].task = "none", n \in joined, n \in up, joined' = joined, strays' = strays,
             task = "store" => n \in has' /\ (e => Settled),
             task = "get" => n \notin has /\ (e => placed)
      PROVE  OnlyOf(n) /\ Restarts(n) /\ strays' = strays
    <2> DEFINE o == Starting(task, Key)
               v == [o EXCEPT !.expects = e]
    <2>1. o \in Operation /\ AtStart(o) /\ o.task = task
        BY <1>1, <1>3, IdleIsOperation
    <2> HIDE DEF o
    <2>2. v \in Operation /\ AtStart(v) /\ v.task = task /\ v.expects = e
        BY <1>3, <2>1 DEF Operation, AtStart
    <2>3. op' = [op EXCEPT ![n] = v]
        BY <1>3 DEF o
    <2> HIDE DEF v
    <2>4. op'[n] = v /\ OnlyOf(n)
        BY <1>1, <2>2, <2>3 DEF OnlyOf
    <2> QED
        BY <1>3, <2>2, <2>4 DEF Restarts, Begins
<1>4. CASE Store(n)
    <2>1. Settled \in BOOLEAN
        BY DEF Settled
    <2> QED
        BY <1>3, <1>4, <2>1 DEF Store, MayStart
<1>5. CASE Replicate(n)
    <2>1. Settled \in BOOLEAN
        BY DEF Settled
    <2> QED
        BY <1>3, <1>5, <2>1 DEF Replicate, MayStart
<1>6. CASE LookupData(n)
    BY <1>3, <1>6 DEF LookupData, MayStart, TypeOK
<1> QED
    BY <1>2, <1>4, <1>5, <1>6

LEMMA EndSteps ==
    ASSUME TypeOK, Roles, NEW n \in Nodes,
           op' = [op EXCEPT ![n] = Idle], op[n].task \in {"store", "get"}, joined' = joined
    PROVE  OnlyOf(n) /\ Restarts(n)
<1>1. op'[n] = Idle /\ OnlyOf(n)
    BY IdleIsOperation DEF TypeOK, OnlyOf
<1> QED
    BY <1>1, IdleIsOperation DEF Restarts, Ends

\* The end of a lookup of Join: the next empty bucket, or the end of Join.
LEMMA JoinSteps ==
    ASSUME TypeOK, Roles, NEW n \in Nodes, JoinLookupOver(n) \/ RefreshLookupOver(n)
    PROVE  OnlyOf(n) /\ Restarts(n) /\ strays' = strays
<1>1. op \in [Nodes -> Operation] /\ op[n] \in Operation
    BY DEF TypeOK
<1>2. PICK first \in 0..Bits, last \in -1..(Bits - 1) :
          /\ op[n].task \in {"join", "refresh"} /\ LookupOver(n) /\ strays' = strays
          /\ RefreshFrom(n, first, last)
    <2>1. CASE JoinLookupOver(n)
        <3>1. GetClosestNonEmptyBucketIndex(buckets[n]) \in -1..(Bits - 1) /\ 0 \in 0..Bits
            BY ClosestNonEmptyIndex, BitsAssumption DEF BucketIndices
        <3> QED
            BY <2>1, <3>1 DEF JoinLookupOver
    <2>2. CASE RefreshLookupOver(n)
        BY <1>1, <2>2 DEF RefreshLookupOver, Operation
    <2> QED
        BY <2>1, <2>2
<1> DEFINE empty == {b \in first..(last - 1) : IsBucketEmpty(buckets[n], b)}
<1>3. CASE empty = {}
    <2>1. op' = [op EXCEPT ![n] = Idle] /\ joined' = joined \cup {n}
        BY <1>2, <1>3 DEF RefreshFrom
    <2>2. op'[n] = Idle /\ OnlyOf(n)
        BY <1>1, <2>1, IdleIsOperation DEF OnlyOf
    <2> QED
        BY <1>2, <2>1, <2>2, IdleIsOperation DEF Restarts, Joins
<1>4. CASE empty # {}
    <2>1. PICK t \in RandomIDsForBucket(n, Min(empty)) :
              /\ op' = [op EXCEPT ![n] =
                   [Starting("refresh", t) EXCEPT !.next = Min(empty) + 1, !.last = last]]
              /\ joined' = joined
        BY <1>2, <1>4 DEF RefreshFrom
    <2>2. Min(empty) + 1 \in 0..Bits
        <3>1. empty \in SUBSET Nat /\ \A b \in empty : b + 1 \in 0..Bits
            BY <1>2, BitsAssumption
        <3> HIDE DEF empty
        <3>2. PICK x \in empty : \A y \in empty : x <= y
            BY <1>4, <3>1, LeastNat
        <3>3. Min(empty) \in empty
            BY <3>2 DEF Min
        <3> QED
            BY <3>1, <3>3
    <2>3. t \in KademliaIDs
        BY <2>1 DEF RandomIDsForBucket
    <2> DEFINE o == Starting("refresh", t)
               v == [o EXCEPT !.next = Min(empty) + 1, !.last = last]
    <2>4. o \in Operation /\ AtStart(o) /\ o.task = "refresh"
        BY <2>3, IdleIsOperation
    <2> HIDE DEF o, empty
    <2>5. v \in Operation /\ AtStart(v) /\ v.task = "refresh"
        BY <1>2, <2>2, <2>4 DEF Operation, AtStart
    <2>6. op' = [op EXCEPT ![n] = v]
        BY <2>1 DEF o
    <2> HIDE DEF v
    <2>7. op'[n] = v /\ OnlyOf(n)
        BY <1>1, <2>5, <2>6 DEF OnlyOf
    <2> QED
        BY <1>2, <2>1, <2>5, <2>7 DEF Restarts, Refreshes
<1> QED
    BY <1>3, <1>4

\* What a step of a lookup, or of sending the value, makes of the operation.
Becomes(n, phase, status, sent, seen, replies) ==
    /\ OnlyOf(n)
    /\ op'[n].task = op[n].task /\ op'[n].target = op[n].target /\ op'[n].expects = op[n].expects
    /\ op'[n].phase = phase /\ op'[n].status = status
    /\ op'[n].sent = sent /\ op'[n].seen = seen /\ op'[n].replies = replies

\* The shortlist grows by the contacts that are not in it.
LEMMA AddProperties ==
    ASSUME NEW n \in Nodes, NEW status \in Status, NEW contacts
    PROVE  LET new == Add(n, status, contacts)
           IN  /\ new \in Status
               /\ \A m \in Nodes : status[m] # "absent" => new[m] = status[m]
               /\ \A m \in Nodes : new[m] = status[m] \/ (new[m] = "unqueried" /\ m \in contacts \ {n})
               /\ \A m \in Nodes \cap contacts : m # n => new[m] # "absent"
BY DEF Add, Status

LEMMA OperationFields ==
    ASSUME TypeOK, NEW n \in Nodes
    PROVE  /\ op \in [Nodes -> Operation] /\ op[n] \in Operation
           /\ op[n].status \in Status /\ op[n].sent \subseteq Nodes /\ op[n].seen \subseteq Nodes
           /\ op[n].replies \subseteq Reply /\ op[n].target \in KademliaIDs
           /\ op[n].phase \in {"start", "loop", "store"}
BY DEF TypeOK, Operation, Status

\* The other fields stay as they are.
LEMMA FieldsBecome ==
    ASSUME TypeOK, NEW n \in Nodes, NEW v \in Operation, op' = [op EXCEPT ![n] = v],
           v.task = op[n].task, v.target = op[n].target, v.expects = op[n].expects
    PROVE  Becomes(n, v.phase, v.status, v.sent, v.seen, v.replies)
<1>1. OnlyOf(n) /\ op'[n] = v
    BY OperationFields DEF OnlyOf
<1> QED
    BY <1>1 DEF Becomes

LEMMA StartBecomes ==
    ASSUME TypeOK, NEW n \in Nodes, LookupStart(n)
    PROVE  LET found == FindClosestContacts(n, buckets[n], op[n].target, bucketSize)
           IN  Becomes(n, "loop", Add(n, NoStatus, found), op[n].sent, op[n].seen, op[n].replies)
<1> DEFINE status == Add(n, NoStatus, FindClosestContacts(n, buckets[n], op[n].target, bucketSize))
           v == [op[n] EXCEPT !.phase = "loop", !.status = status]
<1>1. status \in Status
    <2>1. NoStatus \in Status
        BY DEF NoStatus, Status
    <2> QED
        BY <2>1, AddProperties
<1>2. op' = [op EXCEPT ![n] = v]
    BY OperationFields DEF LookupStart
<1> HIDE DEF status
<1>3. op[n] \in Operation
    BY OperationFields
<1>4. /\ v \in Operation /\ v.task = op[n].task /\ v.target = op[n].target /\ v.expects = op[n].expects
      /\ v.phase = "loop" /\ v.status = status
      /\ v.sent = op[n].sent /\ v.seen = op[n].seen /\ v.replies = op[n].replies
    BY <1>1, <1>3 DEF Operation, Status
<1> HIDE DEF v
<1>5. Becomes(n, v.phase, v.status, v.sent, v.seen, v.replies)
    BY <1>2, <1>4, FieldsBecome
<1> QED
    BY <1>4, <1>5 DEF status

LEMMA SendBecomes ==
    ASSUME TypeOK, NEW n \in Nodes, NEW phase \in {"loop", "store"}, NEW S \in SUBSET Nodes,
           SendTo(n, phase, S)
    PROVE  Becomes(n, phase, op[n].status, S, S \cap up, op[n].replies)
<1> DEFINE v == [op[n] EXCEPT !.phase = phase, !.sent = S, !.seen = S \cap up]
<1>1. op' = [op EXCEPT ![n] = v]
    BY OperationFields DEF SendTo
<1>2. op[n] \in Operation
    BY OperationFields
<1>3. /\ v \in Operation /\ v.task = op[n].task /\ v.target = op[n].target /\ v.expects = op[n].expects
      /\ v.phase = phase /\ v.status = op[n].status
      /\ v.sent = S /\ v.seen = S \cap up /\ v.replies = op[n].replies
    BY <1>2 DEF Operation
<1> HIDE DEF v
<1>4. Becomes(n, v.phase, v.status, v.sent, v.seen, v.replies)
    BY <1>1, <1>3, FieldsBecome
<1> QED
    BY <1>3, <1>4

LEMMA FailBecomes ==
    ASSUME TypeOK, NEW n \in Nodes, NEW m \in Nodes, ProbeFails(n, m)
    PROVE  Becomes(n, "loop", [op[n].status EXCEPT ![m] = "unresponsive"],
                   op[n].sent \ {m}, op[n].seen, op[n].replies)
<1> DEFINE status == [op[n].status EXCEPT ![m] = "unresponsive"]
           v == [op[n] EXCEPT !.sent = op[n].sent \ {m}, !.status = status]
<1>1. op' = [op EXCEPT ![n] = v] /\ op[n].phase = "loop"
    BY OperationFields DEF ProbeFails
<1>2. op[n] \in Operation /\ status \in Status
    BY OperationFields DEF Status
<1> HIDE DEF status
<1>3. /\ v \in Operation /\ v.task = op[n].task /\ v.target = op[n].target /\ v.expects = op[n].expects
      /\ v.phase = "loop" /\ v.status = status
      /\ v.sent = op[n].sent \ {m} /\ v.seen = op[n].seen /\ v.replies = op[n].replies
    BY <1>1, <1>2 DEF Operation, Status
<1> HIDE DEF v
<1>4. Becomes(n, v.phase, v.status, v.sent, v.seen, v.replies)
    BY <1>1, <1>3, FieldsBecome
<1> QED
    BY <1>3, <1>4 DEF status

ReplyOf(n, m) ==
    LET value == op[n].task = "get" /\ m \in has
    IN  [from |-> m, value |-> value,
         contacts |-> IF value THEN {}
                      ELSE FindClosestContacts(m, Added(m, n), op[n].target, bucketSize) \ {n, m}]

LEMMA ServeBecomes ==
    ASSUME TypeOK, NEW n \in Nodes, NEW m \in Nodes, n # m, ProbeServed(n, m)
    PROVE  /\ Becomes(n, "loop", op[n].status, op[n].sent \ {m}, op[n].seen,
                      op[n].replies \cup {ReplyOf(n, m)})
           /\ ReplyOf(n, m).contacts \subseteq Nodes \ {n}
           /\ ReplyOf(n, m).contacts \subseteq GetAllContacts(Added(m, n))
<1> DEFINE replies == op[n].replies \cup {ReplyOf(n, m)}
           v == [op[n] EXCEPT !.sent = op[n].sent \ {m}, !.replies = replies]
<1>1. op' = [op EXCEPT ![n] = v] /\ op[n].phase = "loop"
    BY OperationFields DEF ProbeServed, ReplyOf
<1>2. SoundTable(m, Added(m, n))
    BY AddedProperties
<1>3. /\ FindClosestContacts(m, Added(m, n), op[n].target, bucketSize) \subseteq Nodes
      /\ FindClosestContacts(m, Added(m, n), op[n].target, bucketSize) \subseteq GetAllContacts(Added(m, n))
    BY <1>2, OperationFields, FoundProperties
<1>4. /\ ReplyOf(n, m) \in Reply
      /\ ReplyOf(n, m).contacts \subseteq Nodes \ {n}
      /\ ReplyOf(n, m).contacts \subseteq GetAllContacts(Added(m, n))
    BY <1>3 DEF ReplyOf, Reply
<1>5. op[n] \in Operation /\ replies \in SUBSET Reply
    BY <1>4, OperationFields
<1> HIDE DEF replies
<1>6. /\ v \in Operation /\ v.task = op[n].task /\ v.target = op[n].target /\ v.expects = op[n].expects
      /\ v.phase = "loop" /\ v.status = op[n].status
      /\ v.sent = op[n].sent \ {m} /\ v.seen = op[n].seen /\ v.replies = replies
    BY <1>1, <1>5 DEF Operation
<1> HIDE DEF v
<1>7. Becomes(n, v.phase, v.status, v.sent, v.seen, v.replies)
    BY <1>1, <1>6, FieldsBecome
<1> QED
    BY <1>4, <1>6, <1>7 DEF replies

LEMMA AnswerBecomes ==
    ASSUME TypeOK, NEW n \in Nodes, NEW r \in op[n].replies, ~r.value, ProbeAnswered(n, r)
    PROVE  /\ r.from \in Nodes
           /\ LET status == [op[n].status EXCEPT ![r.from] = "queried"]
              IN  /\ status \in Status
                  /\ Becomes(n, "loop", Add(n, status, r.contacts),
                             op[n].sent, op[n].seen, op[n].replies \ {r})
<1> DEFINE status == [op[n].status EXCEPT ![r.from] = "queried"]
           new == Add(n, status, r.contacts)
           v == [op[n] EXCEPT !.replies = op[n].replies \ {r}, !.status = new]
<1>1. r \in Reply /\ op[n] \in Operation
    BY OperationFields
<1>2. r.from \in Nodes /\ status \in Status
    BY <1>1, OperationFields DEF Reply, Status
<1>3. new \in Status
    BY <1>2, AddProperties
<1>4. op' = [op EXCEPT ![n] = v] /\ op[n].phase = "loop"
    BY OperationFields DEF ProbeAnswered
<1> HIDE DEF new
<1>5. /\ v \in Operation /\ v.task = op[n].task /\ v.target = op[n].target /\ v.expects = op[n].expects
      /\ v.phase = "loop" /\ v.status = new
      /\ v.sent = op[n].sent /\ v.seen = op[n].seen /\ v.replies = op[n].replies \ {r}
    BY <1>1, <1>3, <1>4 DEF Operation, Status
<1> HIDE DEF v
<1>6. Becomes(n, v.phase, v.status, v.sent, v.seen, v.replies)
    BY <1>4, <1>5, FieldsBecome
<1> QED
    BY <1>2, <1>5, <1>6 DEF new

LEMMA StoreBecomes ==
    ASSUME TypeOK, NEW n \in Nodes, NEW m \in Nodes, StoreServed(n, m) \/ StoreFails(n, m)
    PROVE  Becomes(n, "store", op[n].status, op[n].sent \ {m}, op[n].seen, op[n].replies)
<1> DEFINE v == [op[n] EXCEPT !.sent = op[n].sent \ {m}]
<1>1. op' = [op EXCEPT ![n] = v] /\ op[n].phase = "store"
    BY OperationFields DEF StoreServed, StoreFails
<1>2. op[n] \in Operation
    BY OperationFields
<1>3. /\ v \in Operation /\ v.task = op[n].task /\ v.target = op[n].target /\ v.expects = op[n].expects
      /\ v.phase = "store" /\ v.status = op[n].status
      /\ v.sent = op[n].sent \ {m} /\ v.seen = op[n].seen /\ v.replies = op[n].replies
    BY <1>1, <1>2 DEF Operation
<1> HIDE DEF v
<1>4. Becomes(n, v.phase, v.status, v.sent, v.seen, v.replies)
    BY <1>1, <1>3, FieldsBecome
<1> QED
    BY <1>3, <1>4

\* Who is heard of is in the shortlist, was sent a message, or is in an answer.
LEMMA MentionedBecomes ==
    ASSUME NEW n \in Nodes, NEW phase, NEW status, NEW sent, NEW seen, NEW replies,
           Becomes(n, phase, status, sent, seen, replies)
    PROVE  \A y : y \in Mentioned(op'[n]) <=>
              \/ y \in Nodes /\ status[y] # "absent"
              \/ y \in sent
              \/ \E r \in replies : y = r.from \/ y \in r.contacts
BY DEF Becomes, Mentioned, Listed

LEMMA MentionedNow ==
    ASSUME NEW n \in Nodes
    PROVE  \A y : y \in Mentioned(op[n]) <=>
              \/ y \in Nodes /\ op[n].status[y] # "absent"
              \/ y \in op[n].sent
              \/ \E r \in op[n].replies : y = r.from \/ y \in r.contacts
BY DEF Mentioned, Listed

\* The nodes that are sent a message are in the shortlist or in the table.
LEMMA SentProperties ==
    ASSUME TypeOK, NEW n \in Nodes
    PROVE  /\ UnqueriedInTopK(n) \subseteq Listed(op[n])
           /\ \A count : ClosestOf(UnqueriedInTopK(n), op[n].target, count) \subseteq Listed(op[n])
           /\ Found(n) \subseteq Listed(op[n]) \cup Knows(n)
<1>1. WithStatus(n, "queried") \subseteq Listed(op[n]) /\ WithStatus(n, "unqueried") \subseteq Listed(op[n])
    BY DEF WithStatus, Listed
<1>2. UnqueriedInTopK(n) \subseteq Listed(op[n])
    BY <1>1 DEF UnqueriedInTopK
<1>3. \A S, target, count : ClosestOf(S, target, count) \subseteq S
    BY DEF ClosestOf
<1>4. FindClosestContacts(n, buckets[n], op[n].target, bucketSize) \subseteq Knows(n)
    <2>1. SoundTable(n, buckets[n])
        BY DEF TypeOK
    <2> QED
        BY <2>1, OperationFields, FoundProperties DEF Knows
<1> QED
    BY <1>1, <1>2, <1>3, <1>4 DEF Found

\* The steps of a lookup and of sending the value.
Proceeds(n) ==
    \/ LookupStart(n) \/ SendProbes(n) \/ StoreLookupOver(n)
    \/ \E m \in Nodes : ProbeFails(n, m) \/ ProbeServed(n, m) \/ StoreServed(n, m) \/ StoreFails(n, m)
    \/ \E r \in op[n].replies : ~r.value /\ ProbeAnswered(n, r)

LEMMA ContinueSteps ==
    ASSUME TypeOK, Roles, Others, NEW n \in Nodes, Proceeds(n)
    PROVE  OnlyOf(n) /\ Continues(n) /\ strays' = strays
<1> DEFINE Goal == OnlyOf(n) /\ Continues(n) /\ strays' = strays
<1>0. /\ n \notin Mentioned(op[n]) /\ n \notin Knows(n) /\ n \notin Listed(op[n])
      /\ op[n].sent \subseteq Mentioned(op[n]) /\ Listed(op[n]) \subseteq Mentioned(op[n])
      /\ \A r \in op[n].replies : r.value => op[n].task = "get"
      /\ op[n].phase = "store" => op[n].task = "store"
      /\ op[n].phase # "start" => op[n].task # "none"
      /\ Knows(n) \subseteq Nodes
    BY KnowsNodes, BusyStarted DEF Others, Roles, Mentioned
<1>1. CASE LookupStart(n)
    <2> DEFINE found == FindClosestContacts(n, buckets[n], op[n].target, bucketSize)
               status == Add(n, NoStatus, found)
    <2>1. Becomes(n, "loop", status, op[n].sent, op[n].seen, op[n].replies)
        BY <1>1, StartBecomes
    <2>2. found \subseteq Knows(n)
        <3>1. SoundTable(n, buckets[n])
            BY DEF TypeOK
        <3> QED
            BY <3>1, OperationFields, FoundProperties DEF Knows
    <2>3. \A m \in Nodes : status[m] # "absent" => m \in Knows(n)
        BY <2>2 DEF Add, NoStatus
    <2>4. op[n].task # "none" /\ joined' = joined /\ strays' = strays
        BY <1>1 DEF LookupStart
    <2> HIDE DEF status
    <2>5. /\ n \notin Mentioned(op'[n])
          /\ \A y \in Mentioned(op'[n]) : y \in Mentioned(op[n]) \cup Knows(n)
        BY <1>0, <2>1, <2>3, MentionedBecomes, MentionedNow
    <2> QED
        BY <1>0, <2>1, <2>4, <2>5 DEF Becomes, Continues
<1>2. ASSUME NEW S \in SUBSET (Listed(op[n]) \cup Knows(n)), NEW phase \in {"loop", "store"},
             SendTo(n, phase, S), phase = "store" => op[n].task = "store",
             op[n].phase # "start", joined' = joined, strays' = strays
      PROVE  Goal
    <2>1. S \in SUBSET Nodes
        BY <1>0 DEF Listed
    <2>2. Becomes(n, phase, op[n].status, S, S \cap up, op[n].replies)
        BY <1>2, <2>1, SendBecomes
    <2>3. /\ n \notin Mentioned(op'[n])
          /\ \A y \in Mentioned(op'[n]) : y \in Mentioned(op[n]) \cup Knows(n)
        BY <1>0, <1>2, <2>2, MentionedBecomes, MentionedNow
    <2> QED
        BY <1>0, <1>2, <2>2, <2>3 DEF Becomes, Continues
<1>3. CASE SendProbes(n)
    <2> DEFINE S == ClosestOf(UnqueriedInTopK(n), op[n].target, setting.alpha)
    <2>1. /\ SendTo(n, "loop", S)
          /\ op[n].phase # "start" /\ joined' = joined /\ strays' = strays
        BY <1>3 DEF SendProbes, RoundOver
    <2>2. S \in SUBSET (Listed(op[n]) \cup Knows(n))
        BY SentProperties
    <2> HIDE DEF S
    <2> QED
        BY <1>2, <2>1, <2>2
<1>4. CASE StoreLookupOver(n)
    <2>1. /\ SendTo(n, "store", Found(n)) /\ op[n].task = "store"
          /\ op[n].phase # "start" /\ joined' = joined /\ strays' = strays
        BY <1>4 DEF StoreLookupOver, LookupOver, RoundOver
    <2>2. Found(n) \in SUBSET (Listed(op[n]) \cup Knows(n))
        BY SentProperties
    <2> QED
        BY <1>2, <2>1, <2>2
<1>5. ASSUME NEW m \in Nodes, ProbeFails(n, m)
      PROVE  Goal
    <2>1. /\ m \in op[n].sent /\ joined' = joined /\ strays' = strays /\ op[n].phase # "start"
        BY <1>5 DEF ProbeFails
    <2> DEFINE status == [op[n].status EXCEPT ![m] = "unresponsive"]
    <2>2. Becomes(n, "loop", status, op[n].sent \ {m}, op[n].seen, op[n].replies)
        BY <1>5, FailBecomes
    <2>3. \A x \in Nodes : x # m => status[x] = op[n].status[x]
        BY OperationFields DEF Status
    <2> HIDE DEF status
    <2>4. /\ n \notin Mentioned(op'[n])
          /\ \A y \in Mentioned(op'[n]) : y \in Mentioned(op[n]) \cup Knows(n)
        BY <1>0, <2>1, <2>2, <2>3, MentionedBecomes, MentionedNow
    <2> QED
        BY <1>0, <2>1, <2>2, <2>4 DEF Becomes, Continues
<1>6. ASSUME NEW m \in Nodes, ProbeServed(n, m)
      PROVE  Goal
    <2>1. /\ m \in op[n].sent /\ joined' = joined /\ strays' = strays /\ op[n].phase # "start"
          /\ buckets' = Handled(n, m, op[n].task)
        BY <1>6 DEF ProbeServed
    <2>2. n # m /\ m \in Mentioned(op[n])
        BY <1>0, <2>1
    <2>3. /\ Becomes(n, "loop", op[n].status, op[n].sent \ {m}, op[n].seen,
                     op[n].replies \cup {ReplyOf(n, m)})
          /\ ReplyOf(n, m).contacts \subseteq Nodes \ {n}
          /\ ReplyOf(n, m).contacts \subseteq GetAllContacts(Added(m, n))
        BY <1>6, <2>2, ServeBecomes
    <2>4. Knows(m)' = GetAllContacts(Added(m, n))
        BY <2>1, <2>2, HandledProperties DEF Knows
    <2>5. ReplyOf(n, m).from = m /\ (ReplyOf(n, m).value => op[n].task = "get")
        BY DEF ReplyOf
    <2>6. /\ n \notin Mentioned(op'[n])
          /\ \A y \in Mentioned(op'[n]) : y \in Mentioned(op[n]) \/ y \in Knows(m)'
        BY <1>0, <2>2, <2>3, <2>4, <2>5, MentionedBecomes, MentionedNow
    <2> QED
        BY <1>0, <2>1, <2>2, <2>3, <2>5, <2>6 DEF Becomes, Continues
<1>7. ASSUME NEW m \in Nodes, StoreServed(n, m) \/ StoreFails(n, m)
      PROVE  Goal
    <2>1. /\ joined' = joined /\ strays' = strays /\ op[n].phase = "store"
        BY <1>7 DEF StoreServed, StoreFails
    <2>2. Becomes(n, "store", op[n].status, op[n].sent \ {m}, op[n].seen, op[n].replies)
        BY <1>7, StoreBecomes
    <2>3. /\ n \notin Mentioned(op'[n])
          /\ \A y \in Mentioned(op'[n]) : y \in Mentioned(op[n]) \cup Knows(n)
        BY <1>0, <2>2, MentionedBecomes, MentionedNow
    <2> QED
        BY <1>0, <2>1, <2>2, <2>3 DEF Becomes, Continues
<1>8. ASSUME NEW r \in op[n].replies, ~r.value, ProbeAnswered(n, r)
      PROVE  Goal
    <2> DEFINE status == [op[n].status EXCEPT ![r.from] = "queried"]
               new == Add(n, status, r.contacts)
    <2>1. /\ joined' = joined /\ op[n].phase # "start" /\ strays' = strays
        BY <1>8 DEF ProbeAnswered
    <2>2. /\ r.from \in Nodes /\ status \in Status
          /\ Becomes(n, "loop", new, op[n].sent, op[n].seen, op[n].replies \ {r})
        BY <1>8, AnswerBecomes
    <2>3. \A x \in Nodes : x # r.from => status[x] = op[n].status[x]
        BY OperationFields DEF Status
    <2> HIDE DEF status
    <2>4. \A x \in Nodes : new[x] = status[x] \/ x \in r.contacts
        BY <2>2, AddProperties
    <2> HIDE DEF new
    <2>5. \A x \in Nodes : new[x] # "absent" => x \in Mentioned(op[n])
        BY <2>3, <2>4, MentionedNow
    <2>6. /\ n \notin Mentioned(op'[n])
          /\ \A y \in Mentioned(op'[n]) : y \in Mentioned(op[n]) \cup Knows(n)
        BY <1>0, <2>2, <2>5, MentionedBecomes, MentionedNow
    <2> QED
        BY <1>0, <2>1, <2>2, <2>6 DEF Becomes, Continues
<1> QED
    BY <1>1, <1>3, <1>4, <1>5, <1>6, <1>7, <1>8 DEF Proceeds

\* A step changes the operation of one node at most.
OperationStep ==
    \/ /\ op' = op /\ joined' = joined /\ strays' \subseteq strays
    \/ \E n \in Nodes :
          /\ OnlyOf(n) /\ Restarts(n)
          /\ strays' = strays \/ (op[n].task = "get" /\ strays' \subseteq strays \cup ({n} \X op[n].sent))
    \/ \E n \in Nodes : OnlyOf(n) /\ Continues(n) /\ Proceeds(n) /\ strays' = strays

LEMMA OperationSteps ==
    ASSUME TypeOK, Roles, Others, [Next]_vars
    PROVE  OperationStep
<1>1. CASE UNCHANGED vars
    BY <1>1 DEF vars, OperationStep
<1>2. CASE \E n \in Nodes : Join(n) \/ Store(n) \/ Replicate(n) \/ LookupData(n)
    BY <1>2, BeginSteps DEF OperationStep
<1>3. CASE \E s \in strays : StrayServed(s[1], s[2])
    BY <1>3 DEF StrayServed, OperationStep
<1>4. CASE \E n \in Nodes : Close(n)
    BY <1>4 DEF Close, OperationStep
<1>5. ASSUME NEW n \in Nodes, Step(n)
      PROVE  OperationStep
    <2>1. CASE Proceeds(n)
        BY <2>1, ContinueSteps DEF OperationStep
    <2>2. CASE JoinLookupOver(n) \/ RefreshLookupOver(n)
        BY <2>2, JoinSteps DEF OperationStep
    <2>3. CASE StoreReturns(n) \/ GetFails(n)
        <3>1. /\ op' = [op EXCEPT ![n] = Idle] /\ joined' = joined /\ strays' = strays
              /\ op[n].task \in {"store", "get"}
            BY <2>3 DEF StoreReturns, GetFails, Roles
        <3> QED
            BY <3>1, EndSteps DEF OperationStep
    <2>4. ASSUME NEW r \in op[n].replies, r.value, ProbeAnswered(n, r)
          PROVE  OperationStep
        <3>1. /\ op' = [op EXCEPT ![n] = Idle] /\ joined' = joined
              /\ strays' = strays \cup {<<n, m>> : m \in op[n].sent \cap op[n].seen}
            BY <2>4 DEF ProbeAnswered
        <3>2. op[n].task = "get"
            BY <2>4 DEF Roles
        <3>3. strays' \subseteq strays \cup ({n} \X op[n].sent)
            BY <3>1
        <3> QED
            BY <3>1, <3>2, <3>3, EndSteps DEF OperationStep
    <2> QED
        BY <1>5, <2>1, <2>2, <2>3, <2>4 DEF Step, LookupStep, Proceeds
<1> QED
    BY <1>1, <1>2, <1>3, <1>4, <1>5 DEF Next

\* What a step may do to the rest.
LEMMA OtherSteps ==
    ASSUME TypeOK, Roles, Others, [Next]_vars
    PROVE  /\ setting' = setting /\ up' \subseteq up
           /\ has' \subseteq Nodes /\ placed' \in BOOLEAN
           /\ losses' \in 0..setting.losses /\ losses <= losses'
<1>0. /\ has \subseteq Nodes /\ placed \in BOOLEAN /\ losses \in 0..setting.losses
      /\ setting.losses \in Nat
    BY SettingFacts DEF TypeOK
<1>1. CASE UNCHANGED vars
    BY <1>0, <1>1 DEF vars
<1>2. CASE \E n \in Nodes : Join(n) \/ Store(n) \/ Replicate(n) \/ LookupData(n) \/ Close(n)
    BY <1>0, <1>2 DEF Join, Store, Replicate, LookupData, Close
<1>3. CASE \E s \in strays : StrayServed(s[1], s[2])
    BY <1>0, <1>3 DEF StrayServed
<1>4. ASSUME NEW n \in Nodes, Step(n)
      PROVE  /\ setting' = setting /\ up' \subseteq up
             /\ has' \subseteq Nodes /\ placed' \in BOOLEAN
             /\ losses' \in 0..setting.losses /\ losses <= losses'
    <2>1. CASE LookupStart(n) \/ SendProbes(n) \/ StoreLookupOver(n) \/ JoinLookupOver(n)
               \/ RefreshLookupOver(n) \/ GetFails(n)
        BY <1>0, <2>1 DEF LookupStart, SendProbes, StoreLookupOver, JoinLookupOver,
           RefreshLookupOver, GetFails
    <2>2. CASE \E m \in Nodes : ProbeFails(n, m) \/ StoreFails(n, m)
        BY <1>0, <2>2 DEF ProbeFails, StoreFails, Fails
    <2>3. CASE \E m \in Nodes : ProbeServed(n, m) \/ StoreServed(n, m)
        BY <1>0, <2>3 DEF ProbeServed, StoreServed
    <2>4. CASE \E r \in op[n].replies : ProbeAnswered(n, r)
        BY <1>0, <2>4 DEF ProbeAnswered
    <2>5. CASE StoreReturns(n)
        BY <1>0, <2>5, OperationFields DEF StoreReturns, Operation
    <2> QED
        BY <1>4, <2>1, <2>2, <2>3, <2>4, <2>5 DEF Step, LookupStep
<1> QED
    BY <1>1, <1>2, <1>3, <1>4 DEF Next

-----------------------------------------------------------------------------
(* Soundness of the tables and of what operations have heard of            *)

LEMMA TypeNext ==
    ASSUME TypeOK, Roles, Others, [Next]_vars
    PROVE  TypeOK'
<1>1. /\ DOMAIN buckets' = Nodes
      /\ \A x \in Nodes : SoundTable(x, buckets'[x])
    BY TablesGrow
<1>2. /\ setting' \in Settings /\ up' \subseteq setting'.members
      /\ has' \subseteq Nodes /\ placed' \in BOOLEAN /\ losses' \in 0..setting'.losses
    BY OtherSteps DEF TypeOK
<1>3. /\ op' \in [Nodes -> Operation] /\ joined' \subseteq setting.members
      /\ strays' \subseteq Nodes \X Nodes
    <2>0. op \in [Nodes -> Operation] /\ joined \subseteq setting.members /\ strays \subseteq Nodes \X Nodes
        BY DEF TypeOK
    <2>1. ASSUME NEW n \in Nodes, Restarts(n)
          PROVE  joined' \subseteq setting.members
        BY <2>0, <2>1 DEF Restarts, BeginsJoin, Begins, Ends, Refreshes, Joins, Roles
    <2>2. \A n \in Nodes : {n} \X op[n].sent \subseteq Nodes \X Nodes
        BY OperationFields
    <2> QED
        BY <2>0, <2>1, <2>2, OperationSteps DEF OperationStep, OnlyOf, Continues
<1>4. setting' = setting
    BY OtherSteps
<1> QED
    BY <1>1, <1>2, <1>3, <1>4 DEF TypeOK, SoundTable

LEMMA StartMentions ==
    ASSUME NEW o, AtStart(o)
    PROVE  Mentioned(o) = {} /\ Listed(o) = {}
BY DEF AtStart, Mentioned, Listed, NoStatus

\* Join goes one way: who has started to join stays so until it has joined.
LEMMA StartedGrows ==
    ASSUME TypeOK, Roles, Others, [Next]_vars
    PROVE  /\ joined \subseteq joined' /\ Started \subseteq Started'
           /\ \A x \in Started' : x \in Started \/ (x \in Nodes /\ BeginsJoin(x))
<1>1. CASE op' = op /\ joined' = joined
    BY <1>1 DEF Started, Joining
<1>2. ASSUME NEW n \in Nodes, OnlyOf(n), Continues(n)
      PROVE  joined' = joined /\ Started' = Started
    <2>1. joined' = joined /\ \A x \in Nodes : op'[x].task = op[x].task
        BY <1>2 DEF OnlyOf, Continues
    <2> QED
        BY <2>1 DEF Started, Joining
<1>3. ASSUME NEW n \in Nodes, OnlyOf(n), Restarts(n)
      PROVE  /\ joined \subseteq joined' /\ Started \subseteq Started'
             /\ \A x \in Started' : x \in Started \/ (x \in Nodes /\ BeginsJoin(x))
    <2>1. \A x \in Nodes : x # n => op'[x].task = op[x].task
        BY <1>3 DEF OnlyOf
    <2>2. CASE BeginsJoin(n)
        BY <2>1, <2>2 DEF BeginsJoin, Started, Joining
    <2>3. CASE Begins(n) \/ Ends(n)
        <3>1. Idle.task = "none"
            BY DEF Idle
        <3> QED
            BY <2>1, <2>3, <3>1 DEF Begins, Ends, Started, Joining
    <2>4. CASE Refreshes(n)
        BY <2>1, <2>4 DEF Refreshes, Started, Joining
    <2>5. CASE Joins(n)
        <3>1. Idle.task = "none"
            BY DEF Idle
        <3> QED
            BY <2>1, <2>5, <3>1 DEF Joins, Started, Joining
    <2> QED
        BY <1>3, <2>2, <2>3, <2>4, <2>5 DEF Restarts
<1> QED
    BY <1>1, <1>2, <1>3, OperationSteps DEF OperationStep

LEMMA RolesNext ==
    ASSUME TypeOK, Roles, Others, [Next]_vars
    PROVE  Roles'
<1>0. setting' = setting /\ up \subseteq setting.members
    BY OtherSteps DEF TypeOK
<1>1. CASE op' = op /\ joined' = joined
    BY <1>0, <1>1 DEF Roles
<1>2. ASSUME NEW n \in Nodes, OnlyOf(n), Continues(n)
      PROVE  Roles'
    BY <1>0, <1>2 DEF OnlyOf, Continues, Roles
<1>3. ASSUME NEW n \in Nodes, OnlyOf(n), Restarts(n)
      PROVE  Roles'
    <2>1. \A x \in Nodes : x # n => op'[x] = op[x]
        BY <1>3 DEF OnlyOf
    <2>2. op'[n].phase = "start" /\ op'[n].replies = {}
        BY <1>3 DEF Restarts, AtStart
    <2>3. Idle.task = "none"
        BY DEF Idle
    <2>4. CASE BeginsJoin(n)
        BY <1>0, <2>1, <2>2, <2>4 DEF BeginsJoin, Roles
    <2>5. CASE Begins(n) \/ Ends(n)
        BY <1>0, <2>1, <2>2, <2>3, <2>5 DEF Begins, Ends, Roles
    <2>6. CASE Refreshes(n)
        BY <1>0, <2>1, <2>2, <2>6 DEF Refreshes, Roles
    <2>7. CASE Joins(n)
        BY <1>0, <2>1, <2>2, <2>3, <2>7 DEF Joins, Roles
    <2> QED
        BY <1>3, <2>4, <2>5, <2>6, <2>7 DEF Restarts
<1> QED
    BY <1>1, <1>2, <1>3, OperationSteps DEF OperationStep

LEMMA OthersNext ==
    ASSUME TypeOK, Roles, Others, [Next]_vars
    PROVE  Others'
<1>0. Started \subseteq Started'
    BY StartedGrows
<1>1. CASE op' = op /\ strays' \subseteq strays
    BY <1>0, <1>1 DEF Others
<1>2. ASSUME NEW n \in Nodes, OnlyOf(n), Continues(n), strays' = strays
      PROVE  Others'
    BY <1>0, <1>2 DEF OnlyOf, Continues, Others
<1>3. ASSUME NEW n \in Nodes, OnlyOf(n), Restarts(n),
             strays' = strays \/ (op[n].task = "get" /\ strays' \subseteq strays \cup ({n} \X op[n].sent))
      PROVE  Others'
    <2>1. \A x \in Nodes : x \notin Mentioned(op'[x])
        <3>1. Mentioned(op'[n]) = {}
            BY <1>3, StartMentions DEF Restarts
        <3> QED
            BY <1>3, <3>1 DEF OnlyOf, Others
    <2>2. ASSUME NEW s \in strays'
          PROVE  s[1] # s[2] /\ s[1] \in Started'
        <3>1. CASE s \in strays
            BY <1>0, <3>1 DEF Others
        <3>2. CASE s \in {n} \X op[n].sent /\ op[n].task = "get"
            BY <1>0, <3>2, MentionedNodes, BusyStarted
        <3> QED
            BY <1>3, <3>1, <3>2
    <2> QED
        BY <2>1, <2>2 DEF Others
<1> QED
    BY <1>1, <1>2, <1>3, OperationSteps DEF OperationStep

-----------------------------------------------------------------------------
(* Who hears of whom                                                       *)

\* Who has heard of nobody outside a set never does if, after the step, the
\* nodes of the set know nobody outside.
LEMMA WithinStep ==
    ASSUME TypeOK, Roles, Others, [Next]_vars,
           NEW S, Bootstrap \in S, S \subseteq Nodes, Within(S), ClosedSet(S)'
    PROVE  Within(S)'
<1>0. \A n \in S : Knows(n)' \subseteq S
    BY DEF ClosedSet
<1>1. ASSUME NEW n \in Nodes, NEW y \in Knows(n)'
      PROVE  y \in S
    <2>1. CASE y \in Knows(n)
        BY <2>1 DEF Within
    <2>2. CASE Meets(n, y)
        <3>1. CASE y = Bootstrap
            BY <3>1
        <3>2. CASE y \in Mentioned(op[n]) \/ <<n, y>> \in strays
            BY <3>2 DEF Within
        <3>3. CASE (n \in Mentioned(op[y]) /\ y \in Started) \/ <<y, n>> \in strays
            <4>1. Started \subseteq Nodes
                BY SettingFacts DEF Started, Joining, TypeOK
            <4>2. n \in S
                BY <3>3, <4>1 DEF Within
            <4> QED
                BY <1>0, <4>2
        <3> QED
            BY <2>2, <3>1, <3>2, <3>3 DEF Meets
    <2> QED
        BY <2>1, <2>2, TablesGrow
<1>2. ASSUME NEW n \in Nodes
      PROVE  Mentioned(op'[n]) \subseteq S
    <2>0. Mentioned(op[n]) \subseteq S /\ Knows(n) \subseteq S
        BY DEF Within
    <2>1. CASE op'[n] = op[n]
        BY <2>0, <2>1
    <2>2. CASE Restarts(n)
        BY <2>2, StartMentions DEF Restarts
    <2>3. CASE Continues(n)
        BY <1>0, <2>0, <2>3 DEF Continues
    <2> QED
        BY <2>1, <2>2, <2>3, OperationSteps DEF OperationStep, OnlyOf
<1>3. ASSUME NEW s \in strays'
      PROVE  s[2] \in S
    <2>1. CASE s \in strays
        BY <2>1 DEF Within
    <2>2. ASSUME NEW n \in Nodes, s \in {n} \X op[n].sent
          PROVE  s[2] \in S
        BY <2>2 DEF Within, Mentioned
    <2> QED
        BY <2>1, <2>2, OperationSteps DEF OperationStep
<1> QED
    BY <1>1, <1>2, <1>3 DEF Within

LEMMA StartedNodes ==
    ASSUME TypeOK, Roles
    PROVE  Started \subseteq setting.members /\ Started \subseteq Nodes
BY SettingFacts DEF TypeOK, Roles, Started, Joining

LEMMA AcquaintedNext ==
    ASSUME TypeOK, Roles, Others, Acquainted, [Next]_vars
    PROVE  Acquainted'
<1>0. /\ Started \subseteq Nodes /\ Bootstrap \in Started /\ Started \subseteq Started'
      /\ \A s \in strays : s[1] \in Started
    BY StartedNodes, StartedGrows DEF Roles, Started, Others
<1>1. Within(Started)'
    <2>1. PICK T : T = Started
        OBVIOUS
    <2>2. T \subseteq Nodes /\ Bootstrap \in T /\ Within(T)
        BY <1>0, <2>1 DEF Acquainted
    <2>3. ASSUME NEW n \in T, NEW y \in Knows(n)'
          PROVE  y \in T
        <3>1. y \in Knows(n) \/ Meets(n, y)
            BY <2>2, <2>3, TablesGrow
        <3>2. Meets(n, y) => y = Bootstrap \/ y \in Mentioned(op[n]) \/ y \in Started \/ <<n, y>> \in strays
            BY <1>0 DEF Meets
        <3> QED
            BY <2>1, <2>2, <3>1, <3>2 DEF Within
    <2>4. ClosedSet(T)'
        BY <2>3 DEF ClosedSet
    <2>5. Within(T)'
        BY <2>2, <2>4, WithinStep
    <2> QED
        BY <1>0, <2>1, <2>5 DEF Within
<1>2. ASSUME NEW n \in Nodes \ Started'
      PROVE  buckets'[n] = NoContacts
    <2>1. n \notin Started /\ buckets[n] = NoContacts
        BY <1>0, <1>2 DEF Acquainted
    <2>2. ASSUME NEW y \in Nodes, Meets(n, y)
          PROVE  FALSE
        <3>1. op'[n].task # "join"
            BY <1>2 DEF Started, Joining
        <3>2. n \notin Mentioned(op[y])
            BY <2>1 DEF Acquainted, Within
        <3>3. <<n, y>> \notin strays /\ <<y, n>> \notin strays
            BY <1>0, <2>1 DEF Acquainted, Within
        <3> QED
            BY <2>1, <2>2, <3>1, <3>2, <3>3 DEF Meets
    <2> QED
        BY <2>1, <2>2, TableSteps
<1>3. ASSUME NEW n \in Started' \ {Bootstrap}
      PROVE  Bootstrap \in Knows(n)'
    <2>1. CASE n \in Started
        BY <1>0, <1>3, <2>1, TablesGrow DEF Acquainted
    <2>2. CASE n \notin Started /\ n \in Nodes /\ BeginsJoin(n)
        <3>1. buckets[n] = NoContacts /\ Bootstrap \in Nodes \ {n}
            BY <1>3, <2>2, NodesFacts DEF Acquainted
        <3>2. Bootstrap \in GetAllContacts(Added(n, Bootstrap))
            BY <2>2, <3>1, FirstContact
        <3> QED
            BY <2>2, <3>2 DEF BeginsJoin, Knows
    <2> QED
        BY <1>3, <2>1, <2>2, StartedGrows
<1> QED
    BY <1>1, <1>2, <1>3 DEF Acquainted

LEMMA EnclosedNext ==
    ASSUME TypeOK, Roles, Others, Enclosed, [Next]_vars
    PROVE  Enclosed'
<1> SUFFICES ASSUME NEW S \in SUBSET Nodes, Bootstrap \in S, ClosedSet(S)'
             PROVE  Within(S)'
    BY DEF Enclosed
<1>1. ClosedSet(S)
    BY TablesGrow DEF ClosedSet
<1>2. Within(S)
    BY <1>1 DEF Enclosed
<1> QED
    BY <1>2, WithinStep

LEMMA JoinsBoundedNext ==
    ASSUME TypeOK, Roles, Others, JoinsBounded, [Next]_vars
    PROVE  JoinsBounded'
<1>0. /\ IsFiniteSet(Nodes) /\ Joining \subseteq Nodes /\ Busy \subseteq Nodes /\ Joining \subseteq Busy
      /\ setting.joins \in Nat /\ setting' = setting
    BY NodesFacts, SettingFacts, OtherSteps DEF Joining, Busy
<1>1. IsFiniteSet(Joining) /\ IsFiniteSet(Busy)
    BY <1>0, FS_Subset
<1>2. CASE Joining' \subseteq Joining
    <2>1. Cardinality(Joining') <= Cardinality(Joining) /\ Cardinality(Joining) \in Nat
          /\ Cardinality(Joining') \in Nat
        BY <1>1, <1>2, FS_Subset, FS_CardinalityType
    <2> QED
        BY <1>0, <2>1 DEF JoinsBounded
<1>3. ASSUME NEW n \in Nodes, OnlyOf(n), BeginsJoin(n)
      PROVE  JoinsBounded'
    <2>1. Joining' \subseteq Busy \cup {n}
        BY <1>0, <1>3 DEF OnlyOf, Joining
    <2>2. /\ IsFiniteSet(Busy \cup {n}) /\ Cardinality(Busy) \in Nat
          /\ Cardinality(Busy \cup {n}) <= Cardinality(Busy) + 1
        <3>1. Cardinality(Busy) \in Nat
            BY <1>1, FS_CardinalityType
        <3>2. /\ IsFiniteSet(Busy \cup {n})
              /\ Cardinality(Busy \cup {n}) = Cardinality(Busy)
                 \/ Cardinality(Busy \cup {n}) = Cardinality(Busy) + 1
            BY <1>1, FS_AddElement
        <3> QED
            BY <3>1, <3>2
    <2>3. /\ Cardinality(Joining') <= Cardinality(Busy \cup {n})
          /\ Cardinality(Joining') \in Nat /\ Cardinality(Busy \cup {n}) \in Nat
        BY <2>1, <2>2, FS_Subset, FS_CardinalityType
    <2> QED
        BY <1>0, <1>3, <2>2, <2>3 DEF BeginsJoin, JoinsBounded
<1>4. ASSUME NEW n \in Nodes, OnlyOf(n), Continues(n) \/ Begins(n) \/ Ends(n) \/ Refreshes(n) \/ Joins(n)
      PROVE  Joining' \subseteq Joining
    <2>1. Idle.task = "none"
        BY DEF Idle
    <2>2. op'[n].task \in {"join", "refresh"} => op[n].task \in {"join", "refresh"}
        BY <1>4, <2>1 DEF Continues, Begins, Ends, Refreshes, Joins
    <2> QED
        BY <1>4, <2>2 DEF OnlyOf, Joining
<1>5. CASE op' = op
    BY <1>2, <1>5 DEF Joining
<1> QED
    BY <1>2, <1>3, <1>4, <1>5, OperationSteps DEF OperationStep, Restarts

-----------------------------------------------------------------------------
(* The lookup of a joining node                                            *)

\* Messages that were lost and nodes that left do not come back.
LEMMA ReliableBefore ==
    ASSUME TypeOK, Roles, Others, [Next]_vars, Reliable'
    PROVE  Reliable
<1>1. /\ setting' = setting /\ up' \subseteq up /\ losses' \in 0..setting.losses /\ losses <= losses'
    BY OtherSteps
<1>2. losses \in 0..setting.losses /\ up \subseteq setting.members /\ setting.losses \in Nat
    BY SettingFacts DEF TypeOK
<1> QED
    BY <1>1, <1>2 DEF Reliable

\* Then no message fails.
LEMMA NoFailure ==
    ASSUME TypeOK, Roles, Others, Acquainted, Answered, [Next]_vars, Reliable',
           NEW n \in Nodes, NEW m \in Nodes
    PROVE  ~ProbeFails(n, m)
<1> SUFFICES ASSUME ProbeFails(n, m)
             PROVE  FALSE
    OBVIOUS
<1>1. Reliable
    BY ReliableBefore
<1>2. m \in op[n].sent /\ Fails(n, m)
    BY DEF ProbeFails
<1>3. m \in op[n].seen
    BY <1>1, <1>2 DEF Answered
<1>4. m \in up
    BY <1>1, <1>2, StartedNodes DEF Acquainted, Within, Mentioned, Reliable
<1>5. losses = 0 /\ losses' = 0
    BY <1>1 DEF Reliable
<1> QED
    BY <1>2, <1>3, <1>4, <1>5 DEF Fails

LEMMA AnsweredNext ==
    ASSUME TypeOK, Roles, Others, Acquainted, Answered, [Next]_vars
    PROVE  Answered'
<1> DEFINE Good(o) == /\ o.sent \subseteq o.seen
                      /\ \A m \in Nodes : o.status[m] # "unresponsive"
<1> SUFFICES ASSUME Reliable', NEW n \in Nodes
             PROVE  Good(op'[n])
    BY DEF Answered
<1>0. Reliable /\ Good(op[n])
    BY ReliableBefore DEF Answered
<1>1. CASE op'[n] = op[n]
    BY <1>0, <1>1
<1>2. CASE Restarts(n)
    BY <1>2 DEF Restarts, AtStart, NoStatus
<1>3. CASE Proceeds(n)
    <2>1. CASE LookupStart(n)
        <3> DEFINE found == FindClosestContacts(n, buckets[n], op[n].target, bucketSize)
        <3>1. Becomes(n, "loop", Add(n, NoStatus, found), op[n].sent, op[n].seen, op[n].replies)
            BY <2>1, StartBecomes
        <3>2. \A m \in Nodes : Add(n, NoStatus, found)[m] # "unresponsive"
            BY DEF Add, NoStatus
        <3> QED
            BY <1>0, <3>1, <3>2 DEF Becomes
    <2>2. ASSUME NEW S \in SUBSET (Listed(op[n]) \cup Knows(n)), NEW phase \in {"loop", "store"},
                 SendTo(n, phase, S)
          PROVE  Good(op'[n])
        <3>1. S \in SUBSET Nodes /\ S \subseteq up
            BY <1>0, StartedNodes DEF Acquainted, Within, Mentioned, Reliable
        <3>2. Becomes(n, phase, op[n].status, S, S \cap up, op[n].replies)
            BY <2>2, <3>1, SendBecomes
        <3> QED
            BY <1>0, <3>1, <3>2 DEF Becomes
    <2>3. CASE SendProbes(n)
        <3> DEFINE S == ClosestOf(UnqueriedInTopK(n), op[n].target, setting.alpha)
        <3>1. SendTo(n, "loop", S) /\ S \in SUBSET (Listed(op[n]) \cup Knows(n))
            BY <2>3, SentProperties DEF SendProbes
        <3> HIDE DEF S
        <3> QED
            BY <2>2, <3>1
    <2>4. CASE StoreLookupOver(n)
        <3>1. SendTo(n, "store", Found(n)) /\ Found(n) \in SUBSET (Listed(op[n]) \cup Knows(n))
            BY <2>4, SentProperties DEF StoreLookupOver
        <3> QED
            BY <2>2, <3>1
    <2>5. ASSUME NEW m \in Nodes, ProbeServed(n, m)
          PROVE  Good(op'[n])
        <3>1. n # m
            BY <2>5, MentionedNodes DEF ProbeServed
        <3>2. Becomes(n, "loop", op[n].status, op[n].sent \ {m}, op[n].seen,
                      op[n].replies \cup {ReplyOf(n, m)})
            BY <2>5, <3>1, ServeBecomes
        <3> QED
            BY <1>0, <3>2 DEF Becomes
    <2>6. ASSUME NEW m \in Nodes, StoreServed(n, m) \/ StoreFails(n, m)
          PROVE  Good(op'[n])
        BY <1>0, <2>6, StoreBecomes DEF Becomes
    <2>7. ASSUME NEW r \in op[n].replies, ~r.value, ProbeAnswered(n, r)
          PROVE  Good(op'[n])
        <3> DEFINE status == [op[n].status EXCEPT ![r.from] = "queried"]
                   new == Add(n, status, r.contacts)
        <3>1. /\ r.from \in Nodes /\ status \in Status
              /\ Becomes(n, "loop", new, op[n].sent, op[n].seen, op[n].replies \ {r})
            BY <2>7, AnswerBecomes
        <3>2. \A m \in Nodes : status[m] # "unresponsive"
            BY <1>0, OperationFields DEF Status
        <3> HIDE DEF status
        <3>3. \A m \in Nodes : new[m] = status[m] \/ new[m] = "unqueried"
            BY <3>1, AddProperties
        <3> HIDE DEF new
        <3> QED
            BY <1>0, <3>1, <3>2, <3>3 DEF Becomes
    <2> QED
        BY <1>3, <2>1, <2>3, <2>4, <2>5, <2>6, <2>7, NoFailure DEF Proceeds
<1> QED
    BY <1>1, <1>2, <1>3, OperationSteps DEF OperationStep, OnlyOf

\* What n has gained stays with it.
LEMMA IntroducedStays ==
    ASSUME TypeOK, Roles, Others, [Next]_vars,
           NEW n \in Nodes, NEW m \in Nodes, NEW C, NEW D, C \subseteq D, Introduced(n, m, C)
    PROVE  Introduced(n, m, D)'
<1>1. Knows(m) \subseteq Knows(m)'
    BY TablesGrow
<1>2. CASE n \in Knows(m)
    BY <1>1, <1>2 DEF Introduced
<1>3. CASE \E F \in SUBSET C : Cardinality(F) >= bucketSize /\ \A x \in F : Closer(x, m, n)
    BY <1>3 DEF Introduced
<1> QED
    BY <1>2, <1>3 DEF Introduced

\* Whom n asks knows n then, or sends it on to closer nodes.
LEMMA AskedIntroduces ==
    ASSUME TypeOK, Roles, Others, [Next]_vars,
           NEW n \in Nodes, NEW m \in Nodes, op[n].task = "join", ProbeServed(n, m),
           NEW contacts, contacts = ReplyOf(n, m).contacts
    PROVE  Introduced(n, m, contacts)'
<1> DEFINE found == FindClosestContacts(m, Added(m, n), n, bucketSize)
<1>1. /\ m \in op[n].sent /\ buckets' = Handled(n, m, op[n].task)
    BY DEF ProbeServed
<1>2. n # m
    BY <1>1, MentionedNodes
<1>3. Knows(m)' = GetAllContacts(Added(m, n))
    BY <1>1, <1>2, HandledProperties DEF Knows
<1>4. contacts = found \ {n, m}
    BY DEF Roles, ReplyOf
<1>5. CASE n \in GetAllContacts(Added(m, n))
    BY <1>3, <1>5 DEF Introduced
<1>6. CASE Added(m, n) = buckets[m] /\ Len(buckets[m][GetBucketIndex(m, n)]) >= bucketSize
          /\ n \notin GetAllContacts(Added(m, n))
    <2>1. TableOf(m, Nodes \ {m}, Added(m, n))
        BY <1>6, SoundTableOf DEF TypeOK
    <2>2. n \in KademliaIDs /\ m \in KademliaIDs
        BY NodesFacts
    <2>3. Cardinality(found) = bucketSize /\ \A x \in found : Closer(x, m, n)
        BY <1>2, <1>6, <2>1, <2>2, FullBucketSendsOn
    <2>4. found \subseteq GetAllContacts(Added(m, n)) /\ found \subseteq Nodes \ {m}
        <3>1. SoundTable(m, Added(m, n))
            BY <2>1, SoundTableOf
        <3> QED
            BY <2>2, <3>1, FoundProperties
    <2> HIDE DEF found
    <2>5. contacts = found
        BY <1>4, <1>6, <2>4
    <2>6. Cardinality(found) >= bucketSize
        BY <2>3, NodesFacts
    <2> QED
        BY <2>3, <2>5, <2>6 DEF Introduced
<1> QED
    BY <1>2, <1>5, <1>6, AddedProperties

\* A shortlist that grows keeps its members and their number.
LEMMA ListGrows ==
    ASSUME NEW C, NEW D \in SUBSET Nodes, C \subseteq D,
           Bootstrap \in C \/ Cardinality(C) >= bucketSize
    PROVE  Bootstrap \in D \/ Cardinality(D) >= bucketSize
<1>1. IsFiniteSet(C) /\ IsFiniteSet(D)
    BY NodesFacts, FS_Subset
<1>2. Cardinality(C) <= Cardinality(D) /\ Cardinality(C) \in Nat /\ Cardinality(D) \in Nat
    BY <1>1, FS_Subset, FS_CardinalityType
<1> QED
    BY <1>2, NodesFacts

LEMMA JoinLookupsNext ==
    ASSUME TypeOK, Roles, Others, Acquainted, JoinLookups, [Next]_vars
    PROVE  JoinLookups'
<1> DEFINE Began(o) == o.phase = "loop" => Bootstrap \in Listed(o) \/ Cardinality(Listed(o)) >= bucketSize
<1> SUFFICES ASSUME NEW n \in Nodes, op'[n].task = "join"
             PROVE  /\ Began(op'[n])
                    /\ \A m \in Nodes : \A C :
                          op'[n].status[m] = "queried" /\ C = Listed(op'[n]) => Introduced(n, m, C)'
                    /\ \A r \in op'[n].replies : Introduced(n, r.from, r.contacts)'
    BY DEF JoinLookups
<1> DEFINE Goal == /\ Began(op'[n])
                   /\ \A m \in Nodes : \A C :
                         op'[n].status[m] = "queried" /\ C = Listed(op'[n]) => Introduced(n, m, C)'
                   /\ \A r \in op'[n].replies : Introduced(n, r.from, r.contacts)'
<1>1. ASSUME op[n].task = "join"
      PROVE  /\ Began(op[n])
             /\ \A m \in Nodes : \A D : op[n].status[m] = "queried" /\ Listed(op[n]) \subseteq D => Introduced(n, m, D)'
             /\ \A r \in op[n].replies : Introduced(n, r.from, r.contacts)'
             /\ \A r \in op[n].replies : \A D : r.contacts \subseteq D => Introduced(n, r.from, D)'
    <2>1. /\ Began(op[n])
          /\ \A m \in Nodes : op[n].status[m] = "queried" => Introduced(n, m, Listed(op[n]))
          /\ \A r \in op[n].replies : r.from \in Nodes /\ Introduced(n, r.from, r.contacts)
        BY <1>1, MentionedNodes DEF JoinLookups
    <2>2. ASSUME NEW m \in Nodes, NEW D, op[n].status[m] = "queried", Listed(op[n]) \subseteq D
          PROVE  Introduced(n, m, D)'
        <3>1. PICK C : C = Listed(op[n])
            OBVIOUS
        <3>2. Introduced(n, m, C) /\ C \subseteq D
            BY <2>1, <2>2, <3>1
        <3> QED
            BY <3>2, IntroducedStays
    <2>3. ASSUME NEW r \in op[n].replies, NEW D, r.contacts \subseteq D
          PROVE  Introduced(n, r.from, D)'
        BY <2>1, <2>3, IntroducedStays
    <2> QED
        BY <2>1, <2>2, <2>3
<1>2. CASE op'[n] = op[n]
    <2>1. op[n].task = "join"
        BY <1>2
    <2> QED
        BY <1>1, <1>2, <2>1
<1>3. CASE Restarts(n)
    BY <1>3 DEF Restarts, AtStart, NoStatus
<1>4. CASE Continues(n) /\ Proceeds(n)
    <2>0. op[n].task = "join" /\ op[n].phase # "store" /\ op[n].target = n
        BY <1>4 DEF Continues, Roles
    <2>1. ASSUME NEW phase, NEW status, NEW sent, NEW seen, NEW replies,
                 Becomes(n, phase, status, sent, seen, replies)
          PROVE  /\ op'[n].phase = phase /\ op'[n].status = status /\ op'[n].replies = replies
                 /\ Listed(op'[n]) = {m \in Nodes : status[m] # "absent"}
        BY <2>1 DEF Becomes, Listed
    <2>2. CASE LookupStart(n)
        <3> DEFINE found == FindClosestContacts(n, buckets[n], op[n].target, bucketSize)
                   status == Add(n, NoStatus, found)
        <3>1. op'[n].status = status /\ op'[n].replies = op[n].replies
              /\ Listed(op'[n]) = {m \in Nodes : status[m] # "absent"}
            BY <2>1, <2>2, StartBecomes
        <3>2. /\ found \subseteq Nodes \ {n}
              /\ Cardinality(found) = bucketSize \/ found = Knows(n)
            <4>1. SoundTable(n, buckets[n])
                BY DEF TypeOK
            <4> QED
                BY <4>1, OperationFields, FoundProperties DEF Knows
        <3>3. Bootstrap \in Knows(n)
            BY <2>0, BusyStarted DEF Acquainted, Roles
        <3> HIDE DEF found
        <3>4. \A m \in Nodes : (status[m] # "absent" <=> m \in found) /\ status[m] # "queried"
            BY <3>2 DEF Add, NoStatus
        <3> HIDE DEF status
        <3>5. Listed(op'[n]) = found
            BY <3>1, <3>2, <3>4
        <3>6. Bootstrap \in found \/ Cardinality(found) >= bucketSize
            BY <3>2, <3>3, NodesFacts
        <3> QED
            BY <1>1, <2>0, <3>1, <3>4, <3>5, <3>6
    <2>3. CASE SendProbes(n)
        <3> DEFINE S == ClosestOf(UnqueriedInTopK(n), op[n].target, setting.alpha)
        <3>1. SendTo(n, "loop", S) /\ S \subseteq Listed(op[n]) /\ op[n].phase = "loop"
            BY <2>3, SentProperties DEF SendProbes, RoundOver
        <3>2. S \in SUBSET Nodes
            BY <3>1 DEF Listed
        <3> HIDE DEF S
        <3>3. Becomes(n, "loop", op[n].status, S, S \cap up, op[n].replies)
            BY <3>1, <3>2, SendBecomes
        <3>4. Listed(op'[n]) = Listed(op[n])
            BY <2>1, <3>3 DEF Listed
        <3> QED
            BY <1>1, <2>0, <2>1, <3>1, <3>3, <3>4
    <2>4. ASSUME NEW m \in Nodes, ProbeFails(n, m)
          PROVE  Goal
        <3> DEFINE status == [op[n].status EXCEPT ![m] = "unresponsive"]
        <3>1. op'[n].status = status /\ op'[n].replies = op[n].replies
              /\ Listed(op'[n]) = {x \in Nodes : status[x] # "absent"}
            BY <2>1, <2>4, FailBecomes
        <3>2. \A x \in Nodes : status[x] = op[n].status[x] \/ status[x] = "unresponsive"
            BY OperationFields DEF Status
        <3> HIDE DEF status
        <3>3. Listed(op[n]) \subseteq Listed(op'[n]) /\ Listed(op'[n]) \subseteq Nodes
            BY <3>1, <3>2 DEF Listed
        <3>4. Began(op'[n])
            BY <1>1, <2>0, <2>4, <3>3, ListGrows DEF ProbeFails
        <3> QED
            BY <1>1, <2>0, <3>1, <3>2, <3>3, <3>4
    <2>5. ASSUME NEW m \in Nodes, ProbeServed(n, m)
          PROVE  Goal
        <3>1. n # m /\ op[n].phase = "loop"
            BY <2>5, MentionedNodes DEF ProbeServed
        <3>2. Becomes(n, "loop", op[n].status, op[n].sent \ {m}, op[n].seen,
                      op[n].replies \cup {ReplyOf(n, m)})
            BY <2>5, <3>1, ServeBecomes
        <3>3. PICK reply : reply = ReplyOf(n, m)
            OBVIOUS
        <3>4. reply.from = m
            BY <3>3 DEF ReplyOf
        <3>5. Introduced(n, reply.from, reply.contacts)'
            BY <2>0, <2>5, <3>3, <3>4, AskedIntroduces
        <3>6. Listed(op'[n]) = Listed(op[n])
            BY <2>1, <3>2 DEF Listed
        <3>7. \A r \in op'[n].replies : r \in op[n].replies \/ r = reply
            BY <2>1, <3>2, <3>3
        <3> QED
            BY <1>1, <2>0, <2>1, <3>1, <3>2, <3>5, <3>6, <3>7
    <2>6. ASSUME NEW r \in op[n].replies, ~r.value, ProbeAnswered(n, r)
          PROVE  Goal
        <3> DEFINE status == [op[n].status EXCEPT ![r.from] = "queried"]
                   new == Add(n, status, r.contacts)
        <3>1. /\ r.from \in Nodes /\ status \in Status
              /\ Becomes(n, "loop", new, op[n].sent, op[n].seen, op[n].replies \ {r})
            BY <2>6, AnswerBecomes
        <3>2. \A x \in Nodes : status[x] = op[n].status[x] \/ (x = r.from /\ status[x] = "queried")
            BY OperationFields DEF Status
        <3> HIDE DEF status
        <3>3. /\ \A x \in Nodes : status[x] # "absent" => new[x] = status[x]
              /\ \A x \in Nodes : new[x] = status[x] \/ new[x] = "unqueried"
              /\ \A x \in Nodes \cap r.contacts : x # n => new[x] # "absent"
            BY <3>1, AddProperties
        <3> HIDE DEF new
        <3>4. op'[n].status = new /\ op'[n].replies = op[n].replies \ {r}
              /\ Listed(op'[n]) = {x \in Nodes : new[x] # "absent"}
            BY <2>1, <3>1
        <3>5. /\ Listed(op[n]) \subseteq Listed(op'[n]) /\ Listed(op'[n]) \subseteq Nodes
              /\ r.contacts \subseteq Listed(op'[n])
            BY <3>2, <3>3, <3>4, MentionedNodes DEF Listed
        <3>6. \A x \in Nodes : new[x] = "queried" => op[n].status[x] = "queried" \/ x = r.from
            BY <3>2, <3>3
        <3>7. Began(op'[n])
            BY <1>1, <2>0, <2>6, <3>5, ListGrows DEF ProbeAnswered
        <3> QED
            BY <1>1, <2>0, <3>4, <3>5, <3>6, <3>7
    <2>7. ~StoreLookupOver(n) /\ \A m \in Nodes : ~StoreServed(n, m) /\ ~StoreFails(n, m)
        BY <2>0 DEF StoreLookupOver, StoreServed, StoreFails
    <2> QED
        BY <1>4, <2>2, <2>3, <2>4, <2>5, <2>6, <2>7 DEF Proceeds
<1> QED
    BY <1>2, <1>3, <1>4, OperationSteps DEF OperationStep, OnlyOf

-----------------------------------------------------------------------------
(* Nobody is left alone                                                    *)

(***************************************************************************)
(* When a joining node has looked itself up, a node in its shortlist knows *)
(* it, and one of J does if no bucketSize nodes of the shortlist are all   *)
(* outside of J.                                                           *)
(***************************************************************************)
LEMMA LookupFindsKnower ==
    ASSUME TypeOK, Roles, Others, JoinLookups, Answered, Reliable,
           NEW n \in Nodes, op[n].task = "join", LookupOver(n),
           NEW J, Bootstrap \in J,
           \A F \in SUBSET Listed(op[n]) : Cardinality(F) >= bucketSize => F \cap J # {}
    PROVE  \E m \in Listed(op[n]) \cap J : n \in Knows(m)
<1> DEFINE candidates == Listed(op[n])
           asked == WithStatus(n, "queried")
           knowers == {m \in Nodes : n \in Knows(m)}
           T == ClosestOf(candidates, n, bucketSize)
<1>0. /\ n \in KademliaIDs /\ candidates \subseteq Nodes /\ asked \subseteq candidates
      /\ candidates \subseteq KademliaIDs /\ IsFiniteSet(candidates)
      /\ bucketSize \in Nat /\ bucketSize # 0
    <2>1. candidates \subseteq Nodes /\ asked \subseteq candidates
        BY DEF Listed, WithStatus
    <2> QED
        BY <2>1, NodesFacts, FS_Subset
<1>1. candidates = WithStatus(n, "unqueried") \cup asked
    BY OperationFields DEF Listed, WithStatus, Answered, Status
<1>2. T \subseteq asked
    <2>1. op[n].target = n /\ UnqueriedInTopK(n) = {}
        BY DEF Roles, LookupOver
    <2>2. T \cap WithStatus(n, "unqueried") = {}
        BY <1>1, <2>1 DEF UnqueriedInTopK
    <2>3. T \subseteq candidates
        BY DEF ClosestOf
    <2> QED
        BY <1>1, <2>2, <2>3
<1>3. \A m \in asked :
         \/ m \in knowers
         \/ \E F \in SUBSET candidates : Cardinality(F) >= bucketSize /\ \A x \in F : Closer(x, m, n)
    BY DEF WithStatus, JoinLookups, Introduced
<1>4. op[n].phase = "loop"
    BY DEF LookupOver, RoundOver
<1>5. Bootstrap \in candidates \/ Cardinality(candidates) >= bucketSize
    BY <1>4 DEF JoinLookups
<1>6. Cardinality(candidates) \in Nat
    BY <1>0, FS_CardinalityType
<1> HIDE DEF asked, candidates, knowers
<1>7. CASE Cardinality(candidates) >= bucketSize
    <2>1. \A F \in SUBSET candidates : Cardinality(F) >= bucketSize => F \cap J # {}
        BY DEF candidates
    <2>2. asked \cap J \cap knowers # {}
        BY <1>0, <1>2, <1>3, <1>7, <2>1, LookupMeetsKnower
    <2> QED
        BY <1>0, <2>2 DEF knowers, candidates
<1>8. CASE ~(Cardinality(candidates) >= bucketSize)
    <2>1. Cardinality(candidates) <= bucketSize
        BY <1>0, <1>6, <1>8
    <2>2. T = candidates
        BY <1>0, <2>1, ClosestOfIsTop
    <2>3. Bootstrap \in asked
        BY <1>2, <1>5, <1>8, <2>2
    <2>4. ASSUME NEW F \in SUBSET candidates, Cardinality(F) >= bucketSize
          PROVE  FALSE
        <3>1. Cardinality(F) <= Cardinality(candidates) /\ IsFiniteSet(F)
            BY <1>0, FS_Subset
        <3>2. Cardinality(F) \in Nat
            BY <3>1, FS_CardinalityType
        <3> QED
            BY <1>0, <1>6, <1>8, <2>4, <3>1, <3>2
    <2>5. Bootstrap \in knowers
        BY <1>3, <2>3, <2>4
    <2> QED
        BY <1>0, <2>3, <2>5 DEF knowers, candidates
<1> QED
    BY <1>7, <1>8

\* Who has joined, or looks up identifiers of empty buckets, has looked
\* itself up.
LEMMA ComesFromLookup ==
    ASSUME TypeOK, Roles, Others, [Next]_vars,
           NEW n \in Nodes, n \in joined' \/ op'[n].task = "refresh"
    PROVE  n \in joined \/ op[n].task = "refresh" \/ (op[n].task = "join" /\ LookupOver(n))
<1>1. CASE op' = op /\ joined' = joined
    BY <1>1
<1>2. ASSUME NEW x \in Nodes, OnlyOf(x), Continues(x)
      PROVE  n \in joined \/ op[n].task = "refresh"
    BY <1>2 DEF OnlyOf, Continues
<1>3. ASSUME NEW x \in Nodes, OnlyOf(x), Restarts(x)
      PROVE  n \in joined \/ op[n].task = "refresh" \/ (op[n].task = "join" /\ LookupOver(n))
    <2>1. Idle.task = "none"
        BY DEF Idle
    <2> QED
        BY <1>3, <2>1 DEF OnlyOf, Restarts, BeginsJoin, Begins, Ends, Refreshes, Joins
<1> QED
    BY <1>1, <1>2, <1>3, OperationSteps DEF OperationStep

LEMMA ReachedNext ==
    ASSUME TypeOK, Roles, Others, Enclosed, JoinLookups, Answered, Reached, [Next]_vars
    PROVE  Reached'
<1> SUFFICES ASSUME Reliable', NEW S \in SUBSET Nodes, Bootstrap \in S, ClosedSet(S)',
                    NEW n \in Nodes, n \in joined' \/ op'[n].task = "refresh"
             PROVE  n \in S
    BY DEF Reached
<1>1. Reliable
    BY ReliableBefore
<1>2. ClosedSet(S)
    BY TablesGrow DEF ClosedSet
<1>3. CASE n \in joined \/ op[n].task = "refresh"
    BY <1>1, <1>2, <1>3 DEF Reached
<1>4. CASE op[n].task = "join" /\ LookupOver(n)
    <2>1. \A F \in SUBSET Listed(op[n]) : Cardinality(F) >= bucketSize => F \cap Nodes # {}
        <3> SUFFICES ASSUME NEW F \in SUBSET Listed(op[n]), Cardinality(F) >= bucketSize, F \cap Nodes = {}
                     PROVE  FALSE
            OBVIOUS
        <3>1. F = {}
            BY DEF Listed
        <3>2. Cardinality(F) = 0
            BY <3>1, FS_EmptySet
        <3> QED
            BY <3>2, NodesFacts
    <2>2. PICK m \in Listed(op[n]) : n \in Knows(m)
        BY <1>1, <1>4, <2>1, NodesFacts, LookupFindsKnower
    <2>3. Within(S)
        BY <1>2 DEF Enclosed
    <2>4. m \in S
        BY <2>3 DEF Within, Mentioned
    <2> QED
        BY <1>2, <2>2, <2>4 DEF ClosedSet
<1> QED
    BY <1>3, <1>4, ComesFromLookup

\* A node that has looked itself up is known to one that has joined, if no
\* more nodes join at once than a bucket has places.
LEMMA ParentHasJoined ==
    ASSUME TypeOK, Roles, Others, Acquainted, JoinsBounded, JoinLookups, Answered, Rooted,
           Reliable, setting.joins <= bucketSize,
           NEW n \in Nodes, op[n].task = "refresh" \/ (op[n].task = "join" /\ LookupOver(n))
    PROVE  \E m \in joined : n \in Knows(m)
<1>1. CASE op[n].task = "refresh"
    BY <1>1 DEF Rooted
<1>2. CASE op[n].task = "join" /\ LookupOver(n)
    <2>1. ASSUME NEW F \in SUBSET Listed(op[n]), Cardinality(F) >= bucketSize, F \cap joined = {}
          PROVE  FALSE
        <3>1. n \in Joining /\ Joining \subseteq Nodes /\ IsFiniteSet(Joining)
            BY <1>2, NodesFacts, FS_Subset DEF Joining
        <3>2. F \subseteq Joining \ {n}
            BY <2>1 DEF Acquainted, Within, Mentioned, Started, Others
        <3>3. IsFiniteSet(Joining \ {n}) /\ Cardinality(Joining \ {n}) = Cardinality(Joining) - 1
            BY <3>1, FS_RemoveElement
        <3>4. IsFiniteSet(F) /\ Cardinality(F) <= Cardinality(Joining) - 1
            BY <3>2, <3>3, FS_Subset
        <3>5. Cardinality(F) \in Nat /\ Cardinality(Joining) \in Nat
            BY <3>1, <3>4, FS_CardinalityType
        <3>6. Cardinality(Joining) <= setting.joins /\ setting.joins \in Nat
            BY SettingFacts DEF JoinsBounded
        <3> QED
            BY <2>1, <3>4, <3>5, <3>6, NodesFacts
    <2>2. PICK J : J = joined
        OBVIOUS
    <2>3. Bootstrap \in J
        BY <2>2 DEF Roles
    <2>4. \A F \in SUBSET Listed(op[n]) : Cardinality(F) >= bucketSize => F \cap J # {}
        BY <2>1, <2>2
    <2>5. \E m \in Listed(op[n]) \cap J : n \in Knows(m)
        BY <1>2, <2>3, <2>4, LookupFindsKnower
    <2> QED
        BY <2>2, <2>5
<1> QED
    BY <1>1, <1>2

LEMMA RootedNext ==
    ASSUME TypeOK, Roles, Others, Acquainted, JoinsBounded, JoinLookups, Answered, Rooted, [Next]_vars
    PROVE  Rooted'
<1> SUFFICES ASSUME Reliable', setting'.joins <= bucketSize
             PROVE  /\ \A n \in Nodes : op'[n].task = "refresh" => \E m \in joined' : n \in Knows(m)'
                    /\ \A S \in SUBSET joined' : Bootstrap \in S /\ S # joined' =>
                          \E n \in S : Knows(n)' \cap (joined' \ S) # {}
    BY DEF Rooted
<1>1. /\ Reliable /\ setting.joins <= bucketSize /\ joined \subseteq joined'
      /\ joined' \subseteq Nodes /\ joined \subseteq Nodes
      /\ \A x \in Nodes : Knows(x) \subseteq Knows(x)'
    <2>1. setting.joins <= bucketSize /\ setting' = setting
        BY OtherSteps
    <2>2. joined' \subseteq Nodes
        BY <2>1, TypeNext, SettingFacts DEF TypeOK
    <2> QED
        BY <2>1, <2>2, ReliableBefore, StartedGrows, TablesGrow
<1>2. ASSUME NEW n \in Nodes, n \in joined' \/ op'[n].task = "refresh", n \notin joined
      PROVE  \E m \in joined : n \in Knows(m)
    BY <1>1, <1>2, ComesFromLookup, ParentHasJoined
<1>3. ASSUME NEW n \in Nodes, op'[n].task = "refresh"
      PROVE  \E m \in joined' : n \in Knows(m)'
    <2>1. n \notin joined'
        BY <1>3, RolesNext DEF Roles
    <2>2. PICK m \in joined : n \in Knows(m)
        BY <1>1, <1>2, <1>3, <2>1
    <2> QED
        BY <1>1, <2>2
<1>4. ASSUME NEW S \in SUBSET joined', Bootstrap \in S, S # joined'
      PROVE  \E x \in S : Knows(x)' \cap (joined' \ S) # {}
    <2>1. CASE joined \subseteq S
        <3>1. PICK n \in joined' : n \notin S
            BY <1>4
        <3>2. PICK m \in joined : n \in Knows(m)
            BY <1>1, <1>2, <2>1, <3>1
        <3> QED
            BY <1>1, <2>1, <3>1, <3>2
    <2>2. CASE ~(joined \subseteq S)
        <3> DEFINE T == S \cap joined
        <3>1. T \in SUBSET joined /\ Bootstrap \in T /\ T # joined
            BY <1>4, <2>2 DEF Roles
        <3>2. \E x \in T : Knows(x) \cap (joined \ T) # {}
            BY <1>1, <3>1 DEF Rooted
        <3> QED
            BY <1>1, <3>2
    <2> QED
        BY <2>1, <2>2
<1> QED
    BY <1>3, <1>4

-----------------------------------------------------------------------------
(* Networks of no more nodes than a bucket has places                      *)
(*                                                                         *)
(* There no bucket turns anybody away.  The bootstrap node answers one     *)
(* joining node after the other, and tells each of those before it; so of  *)
(* two nodes the one that was answered later asks the other, and they know *)
(* each other: the network becomes a full mesh.  A Store that begins then  *)
(* sends the value to every node.                                          *)

Small == Cardinality(setting.members) <= bucketSize

\* A lookup that has not begun has asked nobody.
Fresh == \A n \in Nodes : op[n].phase = "start" => AtStart(op[n])

\* A message that found no receiver will not find one.
Unseen == \A n \in Nodes : \A m \in op[n].sent : m \notin op[n].seen => m \notin up

\* A joining node knows those that answered it.
Learned ==
    Small => \A n, m \in Nodes :
        op[n].task = "join" /\ op[n].status[m] = "queried" => m \in Knows(n)

\* n has looked itself up.
LookedUp(n) == n \in joined \/ op[n].task = "refresh"

\* The bootstrap node has answered n.
Served(n) ==
    \/ LookedUp(n)
    \/ /\ op[n].task = "join"
       /\ \/ op[n].status[Bootstrap] = "queried"
          \/ \E r \in op[n].replies : r.from = Bootstrap

Heard(o) == Listed(o) \cup UNION {r.contacts : r \in o.replies}

\* They know each other, or x will ask y.
Linked(x, y) ==
    \/ x \in Knows(y) /\ y \in Knows(x)
    \/ op[x].task = "join" /\ y \in Heard(op[x])

Meshed ==
    Small /\ Reliable =>
        /\ \A n \in Nodes \ {Bootstrap} : LookedUp(n) => n \in Knows(Bootstrap)
        /\ \A x, y \in Nodes \ {Bootstrap} :
              x # y /\ Served(x) /\ Served(y) => Linked(x, y) \/ Linked(y, x)

\* The lookup of a Store that began with a full mesh: it asks every node,
\* and sends the value to each that has not left.
Placing(n) ==
    /\ setting.members \ {n} \subseteq Knows(n)
    /\ n \in has
    /\ op[n].phase = "loop" =>
          \A m \in setting.members \ {n} :
              /\ op[n].status[m] # "absent"
              /\ op[n].status[m] = "unresponsive" => m \notin up
    /\ op[n].phase = "store" => up \subseteq has \cup op[n].sent

Placed ==
    Small /\ losses = 0 =>
        /\ placed => up \subseteq has
        /\ \A n \in Nodes : op[n].expects => op[n].task # "get"
        /\ \A n \in Nodes : op[n].task = "store" /\ op[n].expects => Placing(n)

LEMMA SmallFacts ==
    ASSUME TypeOK, Small, NEW n \in setting.members
    PROVE  /\ IsFiniteSet(setting.members) /\ setting.members \subseteq Nodes
           /\ \A F \in SUBSET (setting.members \ {n}) :
                 IsFiniteSet(F) /\ Cardinality(F) \in Nat /\ Cardinality(F) < bucketSize
<1>1. IsFiniteSet(setting.members) /\ setting.members \subseteq Nodes
    BY NodesFacts, SettingFacts, FS_Subset
<1>2. /\ IsFiniteSet(setting.members \ {n})
      /\ Cardinality(setting.members \ {n}) = Cardinality(setting.members) - 1
    BY <1>1, FS_RemoveElement
<1>3. Cardinality(setting.members) \in Nat /\ Cardinality(setting.members) <= bucketSize
    BY <1>1, FS_CardinalityType DEF Small
<1>4. ASSUME NEW F \in SUBSET (setting.members \ {n})
      PROVE  IsFiniteSet(F) /\ Cardinality(F) \in Nat /\ Cardinality(F) < bucketSize
    <2>1. IsFiniteSet(F) /\ Cardinality(F) <= Cardinality(setting.members) - 1
        BY <1>2, FS_Subset
    <2>2. Cardinality(F) \in Nat
        BY <2>1, FS_CardinalityType
    <2> QED
        BY <1>3, <2>1, <2>2, NodesFacts
<1> QED
    BY <1>1, <1>4

\* No node hears of others than the members, or of itself.
LEMMA MembersOnly ==
    ASSUME TypeOK, Roles, Others, Acquainted, NEW n \in Nodes
    PROVE  /\ Knows(n) \subseteq setting.members \ {n}
           /\ Mentioned(op[n]) \subseteq setting.members \ {n}
           /\ Listed(op[n]) \subseteq setting.members \ {n}
           /\ Heard(op[n]) \subseteq setting.members \ {n}
           /\ op[n].task # "none" => n \in setting.members
<1>1. Knows(n) \subseteq Started /\ Mentioned(op[n]) \subseteq Started
    BY DEF Acquainted, Within
<1>2. n \notin Knows(n) /\ n \notin Mentioned(op[n]) /\ Started \subseteq setting.members
    BY KnowsNodes, StartedNodes DEF Others
<1>3. Heard(op[n]) \subseteq Mentioned(op[n]) /\ Listed(op[n]) \subseteq Mentioned(op[n])
    BY DEF Heard, Mentioned
<1>4. op[n].task # "none" => n \in Started
    BY BusyStarted
<1> QED
    BY <1>1, <1>2, <1>3, <1>4

\* AddContact takes the contact.
LEMMA SmallAdded ==
    ASSUME TypeOK, Roles, Others, Acquainted, Small, NEW n \in setting.members, NEW c \in Nodes \ {n}
    PROVE  c \in GetAllContacts(Added(n, c))
<1> DEFINE b == GetBucketIndex(n, c)
           list == buckets[n][b]
<1>1. n \in Nodes /\ Knows(n) \subseteq setting.members \ {n}
    BY MembersOnly, SettingFacts
<1>2. b \in BucketIndices
    BY <1>1, NodesFacts, BucketIndexIsFirstDifference
<1>3. list \in Seq(Nodes \ {n}) /\ SoundList(n, list, b, bucketSize)
    BY <1>1, <1>2 DEF TypeOK, SoundTable
<1>4. ToSet(list) \subseteq Knows(n)
    BY <1>2 DEF Knows, GetAllContacts
<1>5. IsFiniteSet(ToSet(list)) /\ Cardinality(ToSet(list)) = Len(list)
    BY <1>3, ToSetCardinality
<1>6. Cardinality(ToSet(list)) \in Nat /\ Cardinality(ToSet(list)) < bucketSize
    BY <1>1, <1>4, SmallFacts
<1>7. ~(Len(list) >= bucketSize)
    BY <1>5, <1>6, NodesFacts
<1> QED
    BY <1>1, <1>7, AddedProperties

\* FindClosestContacts finds everybody.
LEMMA SmallFound ==
    ASSUME TypeOK, Small, NEW n \in setting.members, NEW table, SoundTable(n, table),
           GetAllContacts(table) \subseteq setting.members \ {n}, NEW target \in KademliaIDs
    PROVE  FindClosestContacts(n, table, target, bucketSize) = GetAllContacts(table)
<1> DEFINE found == FindClosestContacts(n, table, target, bucketSize)
<1>1. /\ found \subseteq GetAllContacts(table)
      /\ Cardinality(found) = bucketSize \/ found = GetAllContacts(table)
    BY SettingFacts, FoundProperties
<1> HIDE DEF found
<1>2. Cardinality(found) < bucketSize /\ Cardinality(found) \in Nat
    BY <1>1, SmallFacts
<1> QED
    BY <1>1, <1>2, NodesFacts DEF found

\* Sorting and cutting to bucketSize leaves everybody.
LEMMA SmallClosest ==
    ASSUME TypeOK, Small, NEW n \in setting.members, NEW S \in SUBSET (setting.members \ {n}),
           NEW target \in KademliaIDs
    PROVE  ClosestOf(S, target, bucketSize) = S
<1>1. IsFiniteSet(S) /\ Cardinality(S) <= bucketSize /\ S \subseteq KademliaIDs
    BY SmallFacts, NodesFacts
<1> QED
    BY <1>1, NodesFacts, ClosestOfIsTop

\* A lookup ends when nobody is left to ask.
LEMMA SmallLookupOver ==
    ASSUME TypeOK, Roles, Others, Acquainted, Small, NEW n \in setting.members, LookupOver(n)
    PROVE  \A m \in Nodes : op[n].status[m] # "unqueried"
<1> DEFINE S == WithStatus(n, "unqueried") \cup WithStatus(n, "queried")
<1>0. n \in Nodes
    BY SettingFacts
<1>1. S \subseteq setting.members \ {n}
    <2>1. S \subseteq Listed(op[n])
        BY DEF WithStatus, Listed
    <2> QED
        BY <1>0, <2>1, MembersOnly
<1>2. ClosestOf(S, op[n].target, bucketSize) = S
    BY <1>0, <1>1, OperationFields, SmallClosest
<1>3. WithStatus(n, "unqueried") = {}
    BY <1>2 DEF LookupOver, UnqueriedInTopK
<1> QED
    BY <1>3 DEF WithStatus

\* What the steps of a lookup do to the shortlist, the answers and the
\* messages under way.
LEMMA ProceedSteps ==
    ASSUME TypeOK, Roles, Others, Fresh, NEW n \in Nodes, Proceeds(n)
    PROVE  /\ Listed(op[n]) \subseteq Listed(op'[n])
           /\ \A m \in Nodes :
                 /\ op'[n].status[m] = "queried" =>
                       \/ op[n].status[m] = "queried"
                       \/ \E r \in op[n].replies : r.from = m /\ ~r.value /\ ProbeAnswered(n, r)
                 /\ op'[n].status[m] = "unresponsive" =>
                       op[n].status[m] = "unresponsive" \/ ProbeFails(n, m)
                 /\ op[n].status[m] = "queried" => op'[n].status[m] = "queried" \/ ProbeFails(n, m)
           /\ \A r \in op[n].replies :
                 \/ r \in op'[n].replies
                 \/ op'[n].status[r.from] = "queried" /\ r.contacts \subseteq Listed(op'[n])
           /\ \A r \in op'[n].replies :
                 \/ r \in op[n].replies
                 \/ \E m \in Nodes : ProbeServed(n, m) /\ r = ReplyOf(n, m)
           /\ \/ op'[n].sent \subseteq op[n].sent /\ op'[n].seen = op[n].seen
              \/ op'[n].seen = op'[n].sent \cap up
<1> DEFINE Goal ==
        /\ Listed(op[n]) \subseteq Listed(op'[n])
        /\ \A m \in Nodes :
              /\ op'[n].status[m] = "queried" =>
                    \/ op[n].status[m] = "queried"
                    \/ \E r \in op[n].replies : r.from = m /\ ~r.value /\ ProbeAnswered(n, r)
              /\ op'[n].status[m] = "unresponsive" =>
                    op[n].status[m] = "unresponsive" \/ ProbeFails(n, m)
              /\ op[n].status[m] = "queried" => op'[n].status[m] = "queried" \/ ProbeFails(n, m)
        /\ \A r \in op[n].replies :
              \/ r \in op'[n].replies
              \/ op'[n].status[r.from] = "queried" /\ r.contacts \subseteq Listed(op'[n])
        /\ \A r \in op'[n].replies :
              \/ r \in op[n].replies
              \/ \E m \in Nodes : ProbeServed(n, m) /\ r = ReplyOf(n, m)
        /\ \/ op'[n].sent \subseteq op[n].sent /\ op'[n].seen = op[n].seen
           \/ op'[n].seen = op'[n].sent \cap up
<1>1. CASE LookupStart(n)
    <2> DEFINE found == FindClosestContacts(n, buckets[n], op[n].target, bucketSize)
               status == Add(n, NoStatus, found)
    <2>1. Becomes(n, "loop", status, op[n].sent, op[n].seen, op[n].replies)
        BY <1>1, StartBecomes
    <2>2. op[n].status = NoStatus /\ Listed(op[n]) = {}
        BY <1>1, StartMentions DEF LookupStart, Fresh, AtStart
    <2>3. \A m \in Nodes : status[m] \in {"absent", "unqueried"} /\ op[n].status[m] = "absent"
        BY <2>2 DEF Add, NoStatus
    <2> HIDE DEF status
    <2> QED
        BY <2>1, <2>2, <2>3 DEF Becomes
<1>2. ASSUME NEW S \in SUBSET Nodes, NEW phase \in {"loop", "store"}, SendTo(n, phase, S)
      PROVE  Goal
    <2>1. Becomes(n, phase, op[n].status, S, S \cap up, op[n].replies)
        BY <1>2, SendBecomes
    <2> QED
        BY <2>1 DEF Becomes, Listed
<1>3. CASE SendProbes(n)
    <2> DEFINE S == ClosestOf(UnqueriedInTopK(n), op[n].target, setting.alpha)
    <2>1. SendTo(n, "loop", S) /\ S \subseteq Nodes
        BY <1>3, SentProperties DEF SendProbes, Listed
    <2> HIDE DEF S
    <2> QED
        BY <1>2, <2>1
<1>4. CASE StoreLookupOver(n)
    <2>1. SendTo(n, "store", Found(n)) /\ Found(n) \subseteq Nodes
        BY <1>4, SentProperties, KnowsNodes DEF StoreLookupOver, Listed
    <2> QED
        BY <1>2, <2>1
<1>5. ASSUME NEW m \in Nodes, ProbeFails(n, m)
      PROVE  Goal
    <2> DEFINE status == [op[n].status EXCEPT ![m] = "unresponsive"]
    <2>1. Becomes(n, "loop", status, op[n].sent \ {m}, op[n].seen, op[n].replies)
        BY <1>5, FailBecomes
    <2>2. status[m] = "unresponsive" /\ \A x \in Nodes : x # m => status[x] = op[n].status[x]
        BY OperationFields DEF Status
    <2> HIDE DEF status
    <2> QED
        BY <1>5, <2>1, <2>2 DEF Becomes, Listed
<1>6. ASSUME NEW m \in Nodes, ProbeServed(n, m)
      PROVE  Goal
    <2>1. n # m
        BY <1>6, MentionedNodes DEF ProbeServed
    <2>2. Becomes(n, "loop", op[n].status, op[n].sent \ {m}, op[n].seen,
                  op[n].replies \cup {ReplyOf(n, m)})
        BY <1>6, <2>1, ServeBecomes
    <2>3. \A r \in op'[n].replies : r \in op[n].replies \/ r = ReplyOf(n, m)
        BY <2>2 DEF Becomes
    <2> QED
        BY <1>6, <2>2, <2>3 DEF Becomes, Listed
<1>7. ASSUME NEW m \in Nodes, StoreServed(n, m) \/ StoreFails(n, m)
      PROVE  Goal
    <2>1. Becomes(n, "store", op[n].status, op[n].sent \ {m}, op[n].seen, op[n].replies)
        BY <1>7, StoreBecomes
    <2> QED
        BY <2>1 DEF Becomes, Listed
<1>8. ASSUME NEW r \in op[n].replies, ~r.value, ProbeAnswered(n, r)
      PROVE  Goal
    <2> DEFINE status == [op[n].status EXCEPT ![r.from] = "queried"]
               new == Add(n, status, r.contacts)
    <2>1. /\ r.from \in Nodes /\ status \in Status
          /\ Becomes(n, "loop", new, op[n].sent, op[n].seen, op[n].replies \ {r})
        BY <1>8, AnswerBecomes
    <2>2. /\ status[r.from] = "queried"
          /\ \A x \in Nodes : x # r.from => status[x] = op[n].status[x]
        BY <2>1, OperationFields DEF Status
    <2> HIDE DEF status
    <2>3. /\ \A x \in Nodes : status[x] # "absent" => new[x] = status[x]
          /\ \A x \in Nodes : new[x] = status[x] \/ new[x] = "unqueried"
          /\ \A x \in Nodes \cap r.contacts : x # n => new[x] # "absent"
        BY <2>1, AddProperties
    <2> HIDE DEF new
    <2>4. /\ op'[n].status = new /\ op'[n].replies = op[n].replies \ {r}
          /\ op'[n].sent = op[n].sent /\ op'[n].seen = op[n].seen
          /\ Listed(op'[n]) = {x \in Nodes : new[x] # "absent"}
        BY <2>1 DEF Becomes, Listed
    <2>5. Listed(op[n]) \subseteq Listed(op'[n])
        BY <2>2, <2>3, <2>4 DEF Listed
    <2>6. r.contacts \subseteq Listed(op'[n])
        BY <2>3, <2>4, MentionedNodes
    <2>7. \A m \in Nodes :
             /\ new[m] = "queried" => op[n].status[m] = "queried" \/ m = r.from
             /\ new[m] = "unresponsive" => op[n].status[m] = "unresponsive"
             /\ op[n].status[m] = "queried" => new[m] = "queried"
        BY <2>2, <2>3
    <2>8. new[r.from] = "queried"
        BY <2>1, <2>2, <2>3
    <2> QED
        BY <1>8, <2>4, <2>5, <2>6, <2>7, <2>8
<1> QED
    BY <1>1, <1>3, <1>4, <1>5, <1>6, <1>7, <1>8 DEF Proceeds

LEMMA FreshNext ==
    ASSUME TypeOK, Roles, Others, Fresh, [Next]_vars
    PROVE  Fresh'
BY OperationSteps DEF OperationStep, OnlyOf, Restarts, Continues, Fresh

LEMMA UnseenNext ==
    ASSUME TypeOK, Roles, Others, Fresh, Unseen, [Next]_vars
    PROVE  Unseen'
<1> SUFFICES ASSUME NEW n \in Nodes, NEW m \in op'[n].sent, m \notin op'[n].seen
             PROVE  m \notin up'
    BY DEF Unseen
<1>0. up' \subseteq up
    BY OtherSteps
<1>1. CASE op'[n] = op[n]
    BY <1>0, <1>1 DEF Unseen
<1>2. CASE Restarts(n)
    BY <1>2 DEF Restarts, AtStart
<1>3. CASE Proceeds(n)
    <2>1. \/ op'[n].sent \subseteq op[n].sent /\ op'[n].seen = op[n].seen
          \/ op'[n].seen = op'[n].sent \cap up
        BY <1>3, ProceedSteps
    <2> QED
        BY <1>0, <2>1 DEF Unseen
<1> QED
    BY <1>1, <1>2, <1>3, OperationSteps DEF OperationStep, OnlyOf

LEMMA LearnedNext ==
    ASSUME TypeOK, Roles, Others, Acquainted, Fresh, Learned, [Next]_vars
    PROVE  Learned'
<1>0. setting' = setting /\ \A x \in Nodes : Knows(x) \subseteq Knows(x)'
    BY OtherSteps, TablesGrow
<1> SUFFICES ASSUME Small, NEW n \in Nodes, NEW m \in Nodes,
                    op'[n].task = "join", op'[n].status[m] = "queried"
             PROVE  m \in Knows(n)'
    BY <1>0 DEF Learned, Small
<1>1. CASE op'[n] = op[n]
    BY <1>0, <1>1 DEF Learned
<1>2. CASE Restarts(n)
    BY <1>2 DEF Restarts, AtStart, NoStatus
<1>3. CASE Continues(n) /\ Proceeds(n)
    <2>0. op[n].task = "join"
        BY <1>3 DEF Continues
    <2>1. CASE op[n].status[m] = "queried"
        BY <1>0, <2>0, <2>1 DEF Learned
    <2>2. ASSUME NEW r \in op[n].replies, r.from = m, ProbeAnswered(n, r)
          PROVE  m \in Knows(n)'
        <3>1. n \in setting.members /\ m \in Nodes \ {n}
            BY <2>0, <2>2, MembersOnly, MentionedNodes
        <3>2. m \in GetAllContacts(Added(n, m))
            BY <3>1, SmallAdded
        <3>3. buckets'[n] = Added(n, m)
            BY <2>2 DEF ProbeAnswered, TypeOK
        <3> QED
            BY <3>2, <3>3 DEF Knows
    <2> QED
        BY <1>3, <2>1, <2>2, ProceedSteps
<1> QED
    BY <1>1, <1>2, <1>3, OperationSteps DEF OperationStep, OnlyOf

\* Whom a joining node has asked knows it.
LEMMA SmallIntroduced ==
    ASSUME TypeOK, Roles, Others, Acquainted, JoinLookups, Small,
           NEW n \in Nodes, op[n].task = "join"
    PROVE  /\ \A m \in Nodes : op[n].status[m] = "queried" => n \in Knows(m)
           /\ \A r \in op[n].replies : n \in Knows(r.from)
           /\ op[n].phase = "loop" => Bootstrap \in Listed(op[n])
<1>1. /\ n \in setting.members /\ Listed(op[n]) \subseteq setting.members \ {n}
      /\ \A r \in op[n].replies : r.contacts \subseteq setting.members \ {n}
    <2>1. \A r \in op[n].replies : r.contacts \subseteq Mentioned(op[n])
        BY DEF Mentioned
    <2> QED
        BY <2>1, MembersOnly
<1>2. ASSUME NEW m, NEW C \in SUBSET (setting.members \ {n}), Introduced(n, m, C)
      PROVE  n \in Knows(m)
    <2>1. \A F \in SUBSET C : Cardinality(F) \in Nat /\ Cardinality(F) < bucketSize
        BY <1>1, SmallFacts
    <2> QED
        BY <1>2, <2>1, NodesFacts DEF Introduced
<1>3. Cardinality(Listed(op[n])) \in Nat /\ Cardinality(Listed(op[n])) < bucketSize
    BY <1>1, SmallFacts
<1> QED
    BY <1>1, <1>2, <1>3, NodesFacts DEF JoinLookups

\* When it has looked itself up, it has asked all that it heard of, and they
\* know each other.
LEMMA SmallJoinOver ==
    ASSUME TypeOK, Roles, Others, Acquainted, JoinLookups, Answered, Learned, Small, Reliable,
           NEW n \in Nodes, op[n].task = "join", LookupOver(n)
    PROVE  /\ Served(n)
           /\ \A m \in Heard(op[n]) : m \in Nodes /\ m \in Knows(n) /\ n \in Knows(m)
           /\ Bootstrap \in Heard(op[n])
<1>1. n \in setting.members /\ op[n].phase = "loop" /\ op[n].replies = {}
    BY MembersOnly DEF LookupOver, RoundOver
<1>2. Heard(op[n]) = Listed(op[n])
    BY <1>1 DEF Heard
<1>3. ASSUME NEW m \in Heard(op[n])
      PROVE  m \in Nodes /\ op[n].status[m] = "queried"
    <2>1. m \in Nodes /\ op[n].status[m] # "absent"
        BY <1>2 DEF Listed
    <2>2. op[n].status[m] # "unqueried" /\ op[n].status[m] # "unresponsive"
        BY <1>1, <2>1, SmallLookupOver DEF Answered
    <2> QED
        BY <2>1, <2>2, OperationFields DEF Status
<1>4. Bootstrap \in Heard(op[n])
    BY <1>1, <1>2, SmallIntroduced
<1> QED
    BY <1>3, <1>4, SmallIntroduced DEF Served, Learned

\* Whom the bootstrap node has answered it knows.
LEMMA ServedKnown ==
    ASSUME TypeOK, Roles, Others, Acquainted, JoinLookups, Meshed, Small, Reliable,
           NEW n \in Nodes \ {Bootstrap}, Served(n)
    PROVE  n \in Knows(Bootstrap)
<1>1. CASE LookedUp(n)
    BY <1>1 DEF Meshed
<1>2. CASE op[n].task = "join"
    BY <1>2, NodesFacts, SmallIntroduced DEF Served, LookedUp, Roles
<1> QED
    BY <1>1, <1>2 DEF Served

LEMMA ServedBefore ==
    ASSUME TypeOK, Roles, Others, Acquainted, JoinLookups, Answered, Fresh, Learned,
           Small, Reliable, [Next]_vars,
           NEW n \in Nodes, Served(n)'
    PROVE  Served(n) \/ (op[n].task = "join" /\ ProbeServed(n, Bootstrap))
<1>1. CASE n \in joined' \/ op'[n].task = "refresh"
    BY <1>1, ComesFromLookup, SmallJoinOver DEF Served, LookedUp
<1>2. CASE /\ op'[n].task = "join"
           /\ op'[n].status[Bootstrap] = "queried" \/ \E r \in op'[n].replies : r.from = Bootstrap
    <2>1. CASE op'[n] = op[n]
        BY <1>2, <2>1 DEF Served
    <2>2. CASE Restarts(n)
        BY <1>2, <2>2, NodesFacts DEF Restarts, AtStart, NoStatus
    <2>3. CASE Continues(n) /\ Proceeds(n)
        <3>0. op[n].task = "join"
            BY <1>2, <2>3 DEF Continues
        <3>1. op'[n].status[Bootstrap] = "queried" => Served(n)
            BY <2>3, <3>0, NodesFacts, ProceedSteps DEF Served
        <3>2. ASSUME NEW r \in op'[n].replies, r.from = Bootstrap
              PROVE  Served(n) \/ ProbeServed(n, Bootstrap)
            <4>1. r \in op[n].replies \/ \E m \in Nodes : ProbeServed(n, m) /\ r = ReplyOf(n, m)
                BY <2>3, ProceedSteps
            <4>2. \A m : ReplyOf(n, m).from = m
                BY DEF ReplyOf
            <4> QED
                BY <3>0, <3>2, <4>1, <4>2 DEF Served
        <3> QED
            BY <1>2, <3>0, <3>1, <3>2
    <2> QED
        BY <2>1, <2>2, <2>3, OperationSteps DEF OperationStep, OnlyOf
<1> QED
    BY <1>1, <1>2 DEF Served, LookedUp

LEMMA LinkedStays ==
    ASSUME TypeOK, Roles, Others, Acquainted, JoinLookups, Answered, Fresh, Learned,
           Small, Reliable, [Next]_vars,
           NEW x \in Nodes, NEW y \in Nodes, Linked(x, y)
    PROVE  Linked(x, y)'
<1>0. Knows(x) \subseteq Knows(x)' /\ Knows(y) \subseteq Knows(y)'
    BY TablesGrow
<1>1. CASE x \in Knows(y) /\ y \in Knows(x)
    BY <1>0, <1>1 DEF Linked
<1>2. CASE op[x].task = "join" /\ y \in Heard(op[x])
    <2>1. CASE op'[x] = op[x]
        BY <1>2, <2>1 DEF Linked
    <2>2. CASE Restarts(x)
        <3>1. LookupOver(x)
            BY <1>2, <2>2 DEF Restarts, BeginsJoin, Begins, Ends, Refreshes, Joins
        <3>2. x \in Knows(y) /\ y \in Knows(x)
            BY <1>2, <3>1, SmallJoinOver
        <3> QED
            BY <1>0, <3>2 DEF Linked
    <2>3. CASE Continues(x) /\ Proceeds(x)
        <3>1. op'[x].task = "join"
            BY <1>2, <2>3 DEF Continues
        <3>2. y \in Heard(op'[x])
            <4>1. Listed(op[x]) \subseteq Listed(op'[x])
                BY <2>3, ProceedSteps
            <4>2. \A r \in op[x].replies : r \in op'[x].replies \/ r.contacts \subseteq Listed(op'[x])
                BY <2>3, ProceedSteps
            <4> QED
                BY <1>2, <4>1, <4>2 DEF Heard
        <3> QED
            BY <3>1, <3>2 DEF Linked
    <2> QED
        BY <2>1, <2>2, <2>3, OperationSteps DEF OperationStep, OnlyOf
<1> QED
    BY <1>1, <1>2 DEF Linked

\* The bootstrap node tells a joining node of all that it knows.
LEMMA ServedLinks ==
    ASSUME TypeOK, Roles, Others, Acquainted, Small,
           NEW x \in Nodes, op[x].task = "join", ProbeServed(x, Bootstrap),
           NEW y \in Knows(Bootstrap), x # y
    PROVE  Linked(x, y)'
<1> DEFINE table == Added(Bootstrap, x)
<1>1. /\ x \in setting.members /\ Bootstrap \in setting.members /\ x # Bootstrap
      /\ Bootstrap \in Nodes /\ y # Bootstrap
    BY MembersOnly, SettingFacts, KnowsNodes, NodesFacts DEF Roles
<1>2. SoundTable(Bootstrap, table) /\ y \in GetAllContacts(table)
      /\ GetAllContacts(table) \subseteq Knows(Bootstrap) \cup {x}
    BY <1>1, AddedProperties
<1>3. GetAllContacts(table) \subseteq setting.members \ {Bootstrap}
    BY <1>1, <1>2, MembersOnly
<1>4. FindClosestContacts(Bootstrap, table, op[x].target, bucketSize) = GetAllContacts(table)
    BY <1>1, <1>2, <1>3, OperationFields, SmallFound
<1>5. y \in ReplyOf(x, Bootstrap).contacts
    BY <1>1, <1>2, <1>4 DEF ReplyOf
<1>6. Becomes(x, "loop", op[x].status, op[x].sent \ {Bootstrap}, op[x].seen,
              op[x].replies \cup {ReplyOf(x, Bootstrap)})
    BY <1>1, ServeBecomes
<1>7. op'[x].task = "join" /\ y \in Heard(op'[x])
    BY <1>5, <1>6 DEF Becomes, Heard
<1> QED
    BY <1>7 DEF Linked

LEMMA MeshedNext ==
    ASSUME TypeOK, Roles, Others, Acquainted, JoinLookups, Answered, Fresh, Learned, Meshed, [Next]_vars
    PROVE  Meshed'
<1>0. setting' = setting
    BY OtherSteps
<1> SUFFICES ASSUME Small, Reliable'
             PROVE  /\ \A n \in Nodes \ {Bootstrap} : LookedUp(n)' => n \in Knows(Bootstrap)'
                    /\ \A x, y \in Nodes \ {Bootstrap} :
                          x # y /\ Served(x)' /\ Served(y)' => Linked(x, y)' \/ Linked(y, x)'
    BY <1>0 DEF Meshed, Small
<1>1. Reliable
    BY ReliableBefore
<1>2. ASSUME NEW n \in Nodes \ {Bootstrap}, LookedUp(n)'
      PROVE  n \in Knows(Bootstrap)'
    <2>1. n \in joined' \/ op'[n].task = "refresh"
        BY <1>2 DEF LookedUp
    <2>2. Served(n)
        BY <1>1, <2>1, ComesFromLookup, SmallJoinOver DEF Served, LookedUp
    <2>3. n \in Knows(Bootstrap)
        BY <1>1, <2>2, ServedKnown
    <2> QED
        BY <2>3, NodesFacts, TablesGrow
<1>3. ASSUME NEW x \in Nodes \ {Bootstrap}, NEW y \in Nodes \ {Bootstrap}, x # y,
             Served(x)', Served(y)'
      PROVE  Linked(x, y)' \/ Linked(y, x)'
    <2>1. CASE Served(x) /\ Served(y)
        <3>1. Linked(x, y) \/ Linked(y, x)
            BY <1>1, <1>3, <2>1 DEF Meshed
        <3> QED
            BY <1>1, <3>1, LinkedStays
    <2>2. CASE Served(y) /\ op[x].task = "join" /\ ProbeServed(x, Bootstrap)
        BY <1>1, <1>3, <2>2, ServedKnown, ServedLinks
    <2>3. CASE Served(x) /\ op[y].task = "join" /\ ProbeServed(y, Bootstrap)
        BY <1>1, <1>3, <2>3, ServedKnown, ServedLinks
    <2>4. CASE ProbeServed(x, Bootstrap) /\ ProbeServed(y, Bootstrap)
        <3>1. Bootstrap \in op[y].sent /\ x # Bootstrap /\ y # Bootstrap
            BY <1>3, <2>4 DEF ProbeServed
        <3>2. op'[y] = op[y]
            BY <1>3, <2>4, NodesFacts, ServeBecomes DEF Becomes, OnlyOf
        <3>3. op'[y].sent = op[y].sent \ {Bootstrap}
            BY <1>3, <2>4, NodesFacts, ServeBecomes DEF Becomes
        <3> QED
            BY <3>1, <3>2, <3>3
    <2> QED
        BY <1>1, <1>3, <2>1, <2>2, <2>3, <2>4, ServedBefore
<1> QED
    BY <1>2, <1>3

\* Who has joined knows all that have.
FullMesh == \A n \in joined : joined \ {n} \subseteq Knows(n)

LEMMA MeshIsFull ==
    ASSUME TypeOK, Roles, Acquainted, Meshed, Small, Reliable
    PROVE  FullMesh
<1> SUFFICES ASSUME NEW n \in joined, NEW m \in joined, n # m
             PROVE  m \in Knows(n)
    BY DEF FullMesh
<1>1. n \in Nodes /\ m \in Nodes
    BY SettingFacts DEF TypeOK
<1>2. CASE n = Bootstrap \/ m = Bootstrap
    BY <1>1, <1>2 DEF Meshed, LookedUp, Acquainted, Started
<1>3. CASE n # Bootstrap /\ m # Bootstrap
    <2>1. Linked(n, m) \/ Linked(m, n)
        BY <1>1, <1>3 DEF Meshed, Served, LookedUp
    <2>2. op[n].task # "join" /\ op[m].task # "join"
        BY <1>1 DEF Roles
    <2> QED
        BY <2>1, <2>2 DEF Linked
<1> QED
    BY <1>2, <1>3

\* A message fails without a loss only when its receiver has left.
LEMMA FailsWhenLeft ==
    ASSUME TypeOK, Unseen, losses = 0, losses' = 0,
           NEW n \in Nodes, NEW m \in op[n].sent, Fails(n, m)
    PROVE  m \notin up
BY DEF Fails, Unseen

\* Values stay, and one counts as placed when its Store returns.
LEMMA PlacedSteps ==
    ASSUME TypeOK, Roles, Others, [Next]_vars
    PROVE  /\ has \subseteq has'
           /\ placed' => placed \/ \E n \in Nodes : StoreReturns(n) /\ op[n].expects
<1>1. CASE UNCHANGED vars
    BY <1>1 DEF vars
<1>2. CASE \E n \in Nodes : Join(n) \/ Store(n) \/ Replicate(n) \/ LookupData(n) \/ Close(n)
    BY <1>2 DEF Join, Store, Replicate, LookupData, Close
<1>3. CASE \E s \in strays : StrayServed(s[1], s[2])
    BY <1>3 DEF StrayServed
<1>4. ASSUME NEW n \in Nodes, Step(n)
      PROVE  /\ has \subseteq has'
             /\ placed' => placed \/ (StoreReturns(n) /\ op[n].expects)
    <2>1. CASE LookupStart(n) \/ SendProbes(n) \/ StoreLookupOver(n) \/ JoinLookupOver(n)
               \/ RefreshLookupOver(n) \/ GetFails(n)
        BY <2>1 DEF LookupStart, SendProbes, StoreLookupOver, JoinLookupOver, RefreshLookupOver, GetFails
    <2>2. CASE \E m \in Nodes : ProbeFails(n, m) \/ StoreFails(n, m)
        BY <2>2 DEF ProbeFails, StoreFails
    <2>3. CASE \E m \in Nodes : ProbeServed(n, m) \/ StoreServed(n, m)
        BY <2>3 DEF ProbeServed, StoreServed
    <2>4. CASE \E r \in op[n].replies : ProbeAnswered(n, r)
        BY <2>4 DEF ProbeAnswered
    <2>5. CASE StoreReturns(n)
        BY <2>5 DEF StoreReturns
    <2> QED
        BY <1>4, <2>1, <2>2, <2>3, <2>4, <2>5 DEF Step, LookupStep
<1> QED
    BY <1>1, <1>2, <1>3, <1>4 DEF Next

\* The lookup of a Store in a full mesh has all members in its shortlist.
LEMMA PlacingLookup ==
    ASSUME TypeOK, Roles, Others, Acquainted, Fresh, Unseen, Small, losses = 0, losses' = 0, [Next]_vars,
           NEW n \in Nodes, op[n].task = "store", Placing(n), Proceeds(n), op'[n].phase = "loop"
    PROVE  \A m \in setting.members \ {n} :
              op'[n].status[m] # "absent" /\ (op'[n].status[m] = "unresponsive" => m \notin up)
<1> SUFFICES ASSUME NEW m \in setting.members \ {n}
             PROVE  op'[n].status[m] # "absent" /\ (op'[n].status[m] = "unresponsive" => m \notin up)
    OBVIOUS
<1>0. m \in Nodes \ {n} /\ n \in setting.members
    BY SettingFacts, MembersOnly
<1>1. CASE LookupStart(n)
    <2> DEFINE found == FindClosestContacts(n, buckets[n], op[n].target, bucketSize)
               status == Add(n, NoStatus, found)
    <2>1. Becomes(n, "loop", status, op[n].sent, op[n].seen, op[n].replies)
        BY <1>1, StartBecomes
    <2>2. found = Knows(n)
        <3>1. SoundTable(n, buckets[n]) /\ GetAllContacts(buckets[n]) \subseteq setting.members \ {n}
            BY MembersOnly DEF TypeOK, Knows
        <3> QED
            BY <1>0, <3>1, OperationFields, SmallFound DEF Knows
    <2>3. m \in found
        BY <2>2 DEF Placing
    <2> HIDE DEF found
    <2>4. status[m] = "unqueried"
        BY <1>0, <2>3 DEF Add, NoStatus
    <2> HIDE DEF status
    <2> QED
        BY <2>1, <2>4 DEF Becomes
<1>2. CASE op[n].phase = "loop"
    <2>1. op[n].status[m] # "absent" /\ (op[n].status[m] = "unresponsive" => m \notin up)
        BY <1>2 DEF Placing
    <2>2. op'[n].status[m] # "absent"
        <3>1. Listed(op[n]) \subseteq Listed(op'[n])
            BY ProceedSteps
        <3> QED
            BY <1>0, <2>1, <3>1 DEF Listed
    <2>3. ASSUME ProbeFails(n, m)
          PROVE  m \notin up
        BY <1>0, <2>3, FailsWhenLeft DEF ProbeFails
    <2>4. op'[n].status[m] = "unresponsive" => op[n].status[m] = "unresponsive" \/ ProbeFails(n, m)
        BY <1>0, ProceedSteps
    <2> QED
        BY <2>1, <2>2, <2>3, <2>4
<1>3. CASE op[n].phase # "loop" /\ ~LookupStart(n)
    <2>1. \E x \in Nodes : StoreServed(n, x) \/ StoreFails(n, x)
        BY <1>3 DEF Proceeds, SendProbes, RoundOver, StoreLookupOver, LookupOver, ProbeFails,
           ProbeServed, ProbeAnswered
    <2>2. op'[n].phase = "store"
        BY <2>1, StoreBecomes DEF Becomes
    <2> QED
        BY <2>2
<1> QED
    BY <1>1, <1>2, <1>3

\* It then sends the value to all members that have not left.
LEMMA PlacingSends ==
    ASSUME TypeOK, Roles, Others, Acquainted, Fresh, Unseen, Small, losses = 0, losses' = 0, [Next]_vars,
           NEW n \in Nodes, op[n].task = "store", Placing(n), Proceeds(n), op'[n].phase = "store"
    PROVE  up' \subseteq has' \cup op'[n].sent
<1>0. /\ up' \subseteq up /\ up \subseteq setting.members /\ n \in setting.members
      /\ setting.members \subseteq Nodes /\ n \in has /\ has \subseteq has'
    BY OtherSteps, SettingFacts, MembersOnly, PlacedSteps DEF TypeOK, Placing
<1>1. CASE StoreLookupOver(n)
    <2>1. SendTo(n, "store", Found(n)) /\ LookupOver(n) /\ op[n].phase = "loop"
        BY <1>1 DEF StoreLookupOver, LookupOver, RoundOver
    <2>2. op'[n].sent = Found(n)
        <3>1. Found(n) \in SUBSET Nodes
            BY SentProperties, KnowsNodes DEF Listed
        <3> QED
            BY <2>1, <3>1, SendBecomes DEF Becomes
    <2>3. ASSUME NEW m \in up, m # n
          PROVE  m \in Found(n)
        <3>1. m \in Nodes /\ op[n].status[m] # "absent" /\ op[n].status[m] # "unresponsive"
            BY <1>0, <2>1, <2>3 DEF Placing
        <3>2. op[n].status[m] # "unqueried"
            BY <1>0, <2>1, <3>1, SmallLookupOver
        <3>3. m \in WithStatus(n, "queried")
            BY <3>1, <3>2, OperationFields DEF WithStatus, Status
        <3>4. op[n].status # NoStatus
            BY <3>1 DEF NoStatus
        <3>5. WithStatus(n, "queried") \subseteq setting.members \ {n}
            <4>1. WithStatus(n, "queried") \subseteq Listed(op[n])
                BY DEF WithStatus, Listed
            <4> QED
                BY <4>1, MembersOnly
        <3>6. ClosestOf(WithStatus(n, "queried"), op[n].target, bucketSize) = WithStatus(n, "queried")
            BY <1>0, <3>5, OperationFields, SmallClosest
        <3> QED
            BY <3>3, <3>4, <3>6 DEF Found
    <2> QED
        BY <1>0, <2>2, <2>3
<1>2. ASSUME NEW m \in Nodes, StoreServed(n, m) \/ StoreFails(n, m)
      PROVE  up' \subseteq has' \cup op'[n].sent
    <2>1. up \subseteq has \cup op[n].sent /\ m \in op[n].sent
        BY <1>2 DEF StoreServed, StoreFails, Placing
    <2>2. op'[n].sent = op[n].sent \ {m}
        BY <1>2, StoreBecomes DEF Becomes
    <2>3. m \in has' \/ m \notin up
        BY <1>2, <2>1, FailsWhenLeft DEF StoreServed, StoreFails
    <2> QED
        BY <1>0, <2>1, <2>2, <2>3
<1>3. CASE ~StoreLookupOver(n) /\ ~(\E m \in Nodes : StoreServed(n, m) \/ StoreFails(n, m))
    <2>1. op'[n].phase = "loop"
        <3>1. CASE LookupStart(n)
            BY <3>1, StartBecomes DEF Becomes
        <3>2. CASE SendProbes(n)
            <4> DEFINE S == ClosestOf(UnqueriedInTopK(n), op[n].target, setting.alpha)
            <4>1. SendTo(n, "loop", S) /\ S \in SUBSET Nodes
                BY <3>2, SentProperties DEF SendProbes, Listed
            <4> HIDE DEF S
            <4> QED
                BY <4>1, SendBecomes DEF Becomes
        <3>3. CASE \E m \in Nodes : ProbeFails(n, m)
            BY <3>3, FailBecomes DEF Becomes
        <3>4. ASSUME NEW m \in Nodes, ProbeServed(n, m)
              PROVE  op'[n].phase = "loop"
            <4>1. n # m
                BY <3>4, MentionedNodes DEF ProbeServed
            <4> QED
                BY <3>4, <4>1, ServeBecomes DEF Becomes
        <3>5. CASE \E r \in op[n].replies : ~r.value /\ ProbeAnswered(n, r)
            BY <3>5, AnswerBecomes DEF Becomes
        <3> QED
            BY <1>3, <3>1, <3>2, <3>3, <3>4, <3>5 DEF Proceeds
    <2> QED
        BY <2>1
<1> QED
    BY <1>1, <1>2, <1>3

LEMMA PlacedNext ==
    ASSUME TypeOK, Roles, Others, Acquainted, Fresh, Unseen, Meshed, Placed, [Next]_vars
    PROVE  Placed'
<1>0. /\ setting' = setting /\ up' \subseteq up /\ has \subseteq has'
      /\ \A x \in Nodes : Knows(x) \subseteq Knows(x)'
    BY OtherSteps, PlacedSteps, TablesGrow
<1> SUFFICES ASSUME Small, losses' = 0
             PROVE  /\ placed' => up' \subseteq has'
                    /\ \A n \in Nodes : op'[n].expects => op'[n].task # "get"
                    /\ \A n \in Nodes : op'[n].task = "store" /\ op'[n].expects => Placing(n)'
    BY <1>0 DEF Placed, Small
<1>1. losses = 0
    BY OtherSteps, SettingFacts DEF TypeOK
<1>2. /\ placed => up \subseteq has
      /\ \A n \in Nodes : op[n].expects => op[n].task # "get"
      /\ \A n \in Nodes : op[n].task = "store" /\ op[n].expects => Placing(n)
    BY <1>1 DEF Placed
<1>3. ASSUME NEW n \in Nodes, StoreReturns(n), op[n].expects
      PROVE  up \subseteq has
    BY <1>2, <1>3 DEF StoreReturns, Roles, Placing
<1>4. placed' => up' \subseteq has'
    BY <1>0, <1>2, <1>3, PlacedSteps
<1>5. ASSUME NEW n \in Nodes
      PROVE  /\ op'[n].expects => op'[n].task # "get"
             /\ op'[n].task = "store" /\ op'[n].expects => Placing(n)'
    <2>1. CASE op'[n] = op[n]
        BY <1>0, <1>2, <2>1 DEF Placing
    <2>2. CASE Restarts(n)
        <3>0. op'[n].phase = "start"
            BY <2>2 DEF Restarts, AtStart
        <3>1. CASE Begins(n)
            <4>1. n \in up /\ (op'[n].task = "get" => n \notin has /\ (op'[n].expects => placed))
                  /\ (op'[n].task = "store" => n \in has' /\ (op'[n].expects => Settled))
                BY <3>1 DEF Begins
            <4>2. ASSUME op'[n].task = "store", op'[n].expects
                  PROVE  Placing(n)'
                <5>1. Settled /\ n \in has' /\ n \in joined
                    BY <3>1, <4>1, <4>2 DEF Begins
                <5>2. FullMesh
                    BY <1>1, <5>1, MeshIsFull DEF Settled, Reliable
                <5>3. setting.members \ {n} \subseteq Knows(n)
                    BY <5>1, <5>2 DEF Settled, FullMesh
                <5> QED
                    BY <1>0, <3>0, <5>1, <5>3 DEF Placing
            <4> QED
                BY <1>2, <4>1, <4>2
        <3>2. CASE ~Begins(n)
            <4>1. op'[n].task \notin {"store", "get"}
                BY <2>2, <3>2 DEF Restarts, BeginsJoin, Ends, Refreshes, Joins, Idle
            <4> QED
                BY <4>1
        <3> QED
            BY <3>1, <3>2
    <2>3. CASE Continues(n) /\ Proceeds(n)
        <3>0. /\ op'[n].task = op[n].task /\ op'[n].expects = op[n].expects
              /\ op'[n].phase # "start"
            BY <2>3 DEF Continues
        <3>1. ASSUME op[n].task = "store", op[n].expects
              PROVE  Placing(n)'
            <4>1. Placing(n)
                BY <1>2, <3>1
            <4>2. op'[n].phase = "loop" =>
                    \A m \in setting.members \ {n} :
                        op'[n].status[m] # "absent" /\ (op'[n].status[m] = "unresponsive" => m \notin up)
                BY <1>1, <2>3, <3>1, <4>1, PlacingLookup
            <4>3. op'[n].phase = "store" => up' \subseteq has' \cup op'[n].sent
                BY <1>1, <2>3, <3>1, <4>1, PlacingSends
            <4> QED
                BY <1>0, <4>1, <4>2, <4>3 DEF Placing
        <3> QED
            BY <1>2, <3>0, <3>1
    <2> QED
        BY <2>1, <2>2, <2>3, OperationSteps DEF OperationStep, OnlyOf
<1> QED
    BY <1>4, <1>5

-----------------------------------------------------------------------------
(* The theorems                                                            *)

OverlayInv ==
    /\ TypeOK /\ Roles /\ Others
    /\ Acquainted /\ Enclosed /\ JoinsBounded
    /\ JoinLookups /\ Answered
    /\ Reached /\ Rooted
    /\ Fresh /\ Unseen /\ Learned /\ Meshed /\ Placed

LEMMA OverlayInvInit == Init => OverlayInv
<1> SUFFICES ASSUME Init
             PROVE  OverlayInv
    OBVIOUS
<1>0. \A n \in Nodes : op[n] = Idle /\ buckets[n] = NoContacts
    BY DEF Init
<1>1. /\ Idle \in Operation /\ Idle.task = "none" /\ Idle.phase = "start" /\ Idle.sent = {}
      /\ Idle.replies = {} /\ Idle.status = NoStatus /\ Mentioned(Idle) = {}
    <2>1. AtStart(Idle) /\ Idle.task = "none" /\ Idle \in Operation
        BY IdleIsOperation DEF Idle
    <2> QED
        BY <2>1, StartMentions DEF AtStart
<1>2. TypeOK
    <2>1. \A n \in Nodes : SoundTable(n, NoContacts)
        <3>1. \A n \in Nodes : <<>> \in Seq(Nodes \ {n}) /\ Len(<<>>) = 0
            BY EmptySeq
        <3>2. \A n \in Nodes, b \in BucketIndices : SoundList(n, <<>>, b, bucketSize)
            BY <3>1, NodesFacts DEF SoundList
        <3> QED
            BY <3>1, <3>2 DEF SoundTable, NoContacts
    <2>2. setting \in Setting /\ Bootstrap \in setting.members
        BY OverlayAssumption DEF Init
    <2>3. DOMAIN buckets = Nodes /\ \A n \in Nodes : SoundTable(n, buckets[n])
        BY <1>0, <2>1 DEF Init
    <2>4. op \in [Nodes -> Operation]
        BY <1>1 DEF Init
    <2>5. losses \in 0..setting.losses
        BY <2>2 DEF Init, Setting
    <2> QED
        BY <2>2, <2>3, <2>4, <2>5 DEF Init, TypeOK
<1>3. Roles
    BY <1>0, <1>1 DEF Init, Roles
<1>4. Others
    BY <1>0, <1>1 DEF Init, Others
<1>5. \A n \in Nodes : Knows(n) = {}
    BY <1>0 DEF Knows, GetAllContacts, NoContacts, ToSet
<1>6. \A S : Within(S)
    BY <1>0, <1>1, <1>5 DEF Init, Within
<1>7. Joining = {} /\ Started = {Bootstrap}
    BY <1>0, <1>1 DEF Init, Joining, Started
<1>8. Acquainted
    BY <1>0, <1>6, <1>7 DEF Acquainted
<1>9. Enclosed
    BY <1>6 DEF Enclosed
<1>10. JoinsBounded
    BY <1>2, <1>7, FS_EmptySet, SettingFacts DEF JoinsBounded
<1>11. JoinLookups
    BY <1>0, <1>1 DEF JoinLookups
<1>12. Answered
    BY <1>0, <1>1 DEF Answered, NoStatus
<1>13. Reached
    BY <1>0, <1>1 DEF Init, Reached
<1>14. Rooted
    BY <1>0, <1>1 DEF Init, Rooted
<1>15. Fresh /\ Unseen
    BY <1>0, <1>1 DEF Fresh, Unseen, AtStart
<1>16. Learned
    BY <1>0, <1>1 DEF Learned
<1>17. Meshed
    BY <1>0, <1>1 DEF Init, Meshed, Served, LookedUp
<1>18. Placed
    BY <1>0, <1>1 DEF Init, Placed
<1> QED
    BY <1>2, <1>3, <1>4, <1>8, <1>9, <1>10, <1>11, <1>12, <1>13, <1>14, <1>15, <1>16, <1>17, <1>18
    DEF OverlayInv

LEMMA OverlayInvNext == OverlayInv /\ [Next]_vars => OverlayInv'
BY TypeNext, RolesNext, OthersNext, AcquaintedNext, EnclosedNext, JoinsBoundedNext,
   JoinLookupsNext, AnsweredNext, ReachedNext, RootedNext,
   FreshNext, UnseenNext, LearnedNext, MeshedNext, PlacedNext DEF OverlayInv

\* The inductive invariant of the network: in every reachable state the
\* tables are sound, nodes are heard of only after their Join began, and
\* each that has looked itself up is known to somebody.
THEOREM OverlayInvariant == Spec => []OverlayInv
<1>1. Init => OverlayInv
    BY OverlayInvInit
<1>2. OverlayInv /\ [Next]_vars => OverlayInv'
    BY OverlayInvNext
<1> QED
    BY <1>1, <1>2, PTL DEF Spec

\* Joins, stores, replications and lookups of any number of nodes, in any
\* order, leave every table in the network sound: each AddContact that a
\* message or an answer causes keeps the buckets within bucketSize, without
\* duplicates, misplaced contacts or the node itself.
THEOREM TablesAreSound == Spec => []TypeOK
<1>1. OverlayInv => TypeOK
    BY DEF OverlayInv
<1> QED
    BY <1>1, OverlayInvariant, PTL

\* A node enters the tables, shortlists and answers of others only after it
\* has started to join, and knows the bootstrap node from then on (Join adds
\* it before it asks anybody).
THEOREM NodesAreAcquainted == Spec => []Acquainted
<1>1. OverlayInv => Acquainted
    BY DEF OverlayInv
<1> QED
    BY <1>1, OverlayInvariant, PTL

\* The lookup that Join does of its own node: each node that answered knows
\* the joining node, or has sent it on to bucketSize nodes that are closer.
THEOREM LookupsIntroduce == Spec => []JoinLookups
<1>1. OverlayInv => JoinLookups
    BY DEF OverlayInv
<1> QED
    BY <1>1, OverlayInvariant, PTL

\* Join leaves no island, however many nodes join at once through the
\* bootstrap node, as long as no message is lost and nobody leaves.
THEOREM JoinConnects == Spec => []Connected
<1>1. OverlayInv => Connected
    <2> SUFFICES ASSUME OverlayInv, Reliable
                 PROVE  /\ \A S \in SUBSET Nodes : Bootstrap \in S /\ ClosedSet(S) => joined \subseteq S
                        /\ \A S \in SUBSET joined : Bootstrap \in S /\ S # joined =>
                              /\ \E n \in joined \ S : Knows(n) \cap S # {}
                              /\ setting.joins <= bucketSize =>
                                    \E n \in S : Knows(n) \cap (joined \ S) # {}
        BY DEF Connected, Reliable
    <2>1. joined \subseteq Nodes
        BY SettingFacts DEF OverlayInv, TypeOK
    <2>2. ASSUME NEW S \in SUBSET Nodes, Bootstrap \in S, ClosedSet(S)
          PROVE  joined \subseteq S
        BY <2>1, <2>2 DEF OverlayInv, Reached
    <2>3. ASSUME NEW S \in SUBSET joined, Bootstrap \in S, S # joined
          PROVE  \E n \in joined \ S : Knows(n) \cap S # {}
        <3>1. PICK n \in joined : n \notin S
            BY <2>3
        <3>2. Bootstrap \in Knows(n)
            BY <2>3, <3>1 DEF OverlayInv, Acquainted, Started
        <3> QED
            BY <2>3, <3>1, <3>2
    <2>4. ASSUME NEW S \in SUBSET joined, Bootstrap \in S, S # joined, setting.joins <= bucketSize
          PROVE  \E n \in S : Knows(n) \cap (joined \ S) # {}
        BY <2>4 DEF OverlayInv, Rooted
    <2> QED
        BY <2>2, <2>3, <2>4
<1> QED
    BY <1>1, OverlayInvariant, PTL

\* In a network of at most bucketSize nodes Join makes a full mesh, also when
\* all nodes join at once: as long as no message is lost and nobody leaves,
\* any two nodes that have joined know each other.
THEOREM SmallNetworksAreMeshes == Spec => [](Small /\ Reliable => FullMesh)
<1>1. OverlayInv => (Small /\ Reliable => FullMesh)
    BY MeshIsFull DEF OverlayInv
<1> QED
    BY <1>1, OverlayInvariant, PTL

\* There a Store or Replicate that begins when all nodes have joined brings
\* the value to every node, whoever leaves in the meantime, but for those
\* that do, as long as no message is lost.
THEOREM SmallNetworksHoldValues == Spec => [](Small /\ losses = 0 /\ placed => up \subseteq has)
<1>1. OverlayInv => (Small /\ losses = 0 /\ placed => up \subseteq has)
    BY DEF OverlayInv, Placed
<1> QED
    BY <1>1, OverlayInvariant, PTL

\* On the simulated network, which never removes a contact, no table forgets
\* a node, and it comes to know only the bootstrap node, a node that it has
\* heard of, or one that has heard of it.
TablesRemember ==
    [][\A x \in Nodes : Knows(x) \subseteq Knows(x)'
                        /\ \A y \in Knows(x)' : y \in Knows(x) \/ Meets(x, y)]_vars

\* AddContact is all that the hub and the lookups do to a table.
THEOREM TablesOnlyGrow == Spec => TablesRemember
<1>1. OverlayInv /\ [Next]_vars =>
          [\A x \in Nodes : Knows(x) \subseteq Knows(x)'
                            /\ \A y \in Knows(x)' : y \in Knows(x) \/ Meets(x, y)]_vars
    BY TablesGrow DEF OverlayInv
<1> QED
    BY <1>1, OverlayInvariant, PTL DEF Spec, TablesRemember

=============================================================================
