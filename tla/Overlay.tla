------------------------------- MODULE Overlay ------------------------------
(***************************************************************************)
(* A whole network of nodes on the simulated network                       *)
(* (kademlia/simulated_network.go), as cmd/experiment and the simulation   *)
(* tests build it: the routing tables of all nodes, and the operations     *)
(* Join, Store, Replicate and LookupData that run over them and change     *)
(* them.  The simulated network calls AddContact of a routing table only,  *)
(* so a full bucket keeps its contacts, and a table is its buckets.  A     *)
(* lookup is that of Lookup, but the peers answer from their own tables.   *)
(*                                                                         *)
(* A node runs one operation at a time; its probes are goroutines of their *)
(* own.  The hub hands a message to its receiver by a call, which here is  *)
(* one step.  One value is stored under Key.  All nodes are registered     *)
(* with the hub before the first one joins.  The counters of the hub and   *)
(* its PING, which nothing but the command line sends, are left out.       *)
(***************************************************************************)
EXTENDS Buckets

CONSTANTS
    Nodes,          \* identifiers of the nodes
    Bootstrap,      \* the node through which the others join
    Key,            \* the key of the value
    Writers,        \* the nodes that may store the value
    Settings        \* what a behaviour is limited to: see Setting

\* The nodes there are; alpha, the number of parallel probes; and the bounds:
\* joins and other operations at once, nodes that leave, messages lost.
Setting ==
    [members : SUBSET Nodes, alpha : Nat \ {0},
     joins : Nat, others : Nat, left : Nat, losses : Nat]

ASSUME OverlayAssumption ==
    /\ Nodes \subseteq KademliaIDs
    /\ IsFiniteSet(Nodes)
    /\ Bootstrap \in Nodes
    /\ Key \in KademliaIDs
    /\ Writers \subseteq Nodes
    /\ Settings \subseteq Setting
    /\ \A s \in Settings : Writers \cup {Bootstrap} \subseteq s.members

VARIABLES
    buckets,        \* the routing table of each node
    up,             \* SimulatedHub.nodes: the nodes registered with the hub
    joined,         \* the nodes whose Join has returned, and Bootstrap
    has,            \* the nodes with the value in their store
    op,             \* the operation of each node, with its locals
    strays,         \* probes whose lookup has returned: <<from, to>>
    losses,         \* the number of messages lost so far
    placed,         \* history: the value was stored once every node had joined
    setting         \* that of this behaviour

vars == <<buckets, up, joined, has, op, strays, losses, placed, setting>>

\* Mutant: a contact that is there already is added once more.
AddedAgain(n, c) == [buckets[n] EXCEPT ![GetBucketIndex(n, c)] = <<c>> \o @]

\* The table of n after AddContact(c).
Added(n, c) ==
    [buckets[n] EXCEPT ![GetBucketIndex(n, c)] = BucketAdd(@, c)]

-----------------------------------------------------------------------------
(* Operations.  status is the shortlist of the lookup that the operation   *)
(* is at; sent are its messages to which no answer has come, seen those of *)
(* them whose receiver was registered; replies are the answers not taken   *)
(* from the channel yet.  next and last are the loop of Join over the      *)
(* buckets.  expects is history: the value was placed before a get began.  *)

NoStatus == [m \in Nodes |-> "absent"]

Idle == [task |-> "none", phase |-> "start", target |-> Key, status |-> NoStatus, sent |-> {},
         seen |-> {}, replies |-> {}, next |-> 0, last |-> 0, expects |-> FALSE]

Starting(task, target) == [Idle EXCEPT !.task = task, !.target = target]

Busy == {n \in Nodes : op[n].task # "none"}

MayStart(n, max) ==
    /\ n \in up
    /\ op[n].task = "none"
    /\ Cardinality(Busy) < max

Init ==
    /\ buckets = [n \in Nodes |-> NoContacts]
    /\ setting \in Settings
    /\ up = setting.members
    /\ joined = {Bootstrap}
    /\ has = {}
    /\ op = [n \in Nodes |-> Idle]
    /\ strays = {}
    /\ losses = 0
    /\ placed = FALSE

\* Join: the bootstrap node enters the table, and a lookup of n itself begins.
Join(n) ==
    /\ MayStart(n, setting.joins)
    /\ n \notin joined
    /\ buckets' = [buckets EXCEPT ![n] = Added(n, Bootstrap)]
    /\ op' = [op EXCEPT ![n] = Starting("join", n)]
    /\ UNCHANGED <<up, joined, has, strays, losses, placed, setting>>

\* Every node has joined, and none has left.
Settled == joined = setting.members /\ up = setting.members

\* Store: the local store, then a lookup of the key.
Store(n) ==
    /\ MayStart(n, setting.others)
    /\ n \in joined \cap Writers
    /\ has = {}
    /\ has' = {n}
    /\ op' = [op EXCEPT ![n] = [Starting("store", Key) EXCEPT !.expects = Settled]]
    /\ UNCHANGED <<buckets, up, joined, strays, losses, placed, setting>>

\* Replicate, for the one value, until it has been placed.
Replicate(n) ==
    /\ MayStart(n, setting.others)
    /\ n \in joined \cap has
    /\ ~placed
    /\ op' = [op EXCEPT ![n] = [Starting("store", Key) EXCEPT !.expects = Settled]]
    /\ UNCHANGED <<buckets, up, joined, has, strays, losses, placed, setting>>

\* LookupData, when the value is not in the local store but in some.
LookupData(n) ==
    /\ MayStart(n, setting.others)
    /\ n \in joined
    /\ n \notin has
    /\ has # {}
    /\ op' = [op EXCEPT ![n] = [Starting("get", Key) EXCEPT !.expects = placed]]
    /\ UNCHANGED <<buckets, up, joined, has, strays, losses, placed, setting>>

-----------------------------------------------------------------------------
(* The lookup.                                                             *)

WithStatus(n, s) == {m \in Nodes : op[n].status[m] = s}

\* Contacts not yet in the shortlist enter it; the node itself never does.
Add(n, status, contacts) ==
    [m \in Nodes |-> IF m \in contacts \ {n} /\ status[m] = "absent" THEN "unqueried" ELSE status[m]]

UnqueriedInTopK(n) ==
    ClosestOf(WithStatus(n, "unqueried") \cup WithStatus(n, "queried"), op[n].target, bucketSize)
        \cap WithStatus(n, "unqueried")

LookupStart(n) ==
    /\ op[n].task # "none"
    /\ op[n].phase = "start"
    /\ op' = [op EXCEPT
         ![n].phase = "loop",
         ![n].status = Add(n, NoStatus, FindClosestContacts(n, buckets[n], op[n].target, bucketSize))]
    /\ UNCHANGED <<buckets, up, joined, has, strays, losses, placed, setting>>

\* All results of the round are in.
RoundOver(n) == op[n].phase = "loop" /\ op[n].sent = {} /\ op[n].replies = {}

SendTo(n, phase, S) ==
    op' = [op EXCEPT ![n].phase = phase, ![n].sent = S, ![n].seen = S \cap up]

SendProbes(n) ==
    /\ RoundOver(n)
    /\ UnqueriedInTopK(n) # {}
    /\ SendTo(n, "loop", ClosestOf(UnqueriedInTopK(n), op[n].target, setting.alpha))
    /\ UNCHANGED <<buckets, up, joined, has, strays, losses, placed, setting>>

\* The receiver was not registered, or the hub drops the message.
Fails(n, m) ==
    \/ (m \notin up \/ m \notin op[n].seen) /\ UNCHANGED losses
    \/ losses < setting.losses /\ losses' = losses + 1

ProbeFails(n, m) ==
    /\ op[n].phase = "loop"
    /\ m \in op[n].sent
    /\ Fails(n, m)
    /\ op' = [op EXCEPT ![n].sent = @ \ {m}, ![n].status[m] = "unresponsive"]
    /\ UNCHANGED <<buckets, up, joined, has, strays, placed, setting>>

\* Mutant: the receiver does not learn of the sender.
HandledUnlearned(n, m, task) ==
    IF task = "get" THEN [buckets EXCEPT ![n] = Added(n, m)] ELSE buckets

\* The tables once the message from n to m has been handled: m learns of
\* the sender, and SendFindDataMessage adds m to the sender's table itself.
Handled(n, m, task) ==
    IF task = "get"
    THEN [buckets EXCEPT ![m] = Added(m, n), ![n] = Added(n, m)]
    ELSE [buckets EXCEPT ![m] = Added(m, n)]

(***************************************************************************)
(* FIND_CONTACT, and FIND_DATA for a get, are handled by m: even when m    *)
(* has been closed since n looked it up in the hub.                        *)
(***************************************************************************)
ProbeServed(n, m) ==
    LET value == op[n].task = "get" /\ m \in has
    IN  /\ op[n].phase = "loop"
        /\ m \in op[n].sent \cap op[n].seen
        /\ buckets' = Handled(n, m, op[n].task)
        /\ op' = [op EXCEPT
             ![n].sent = @ \ {m},
             ![n].replies = @ \cup {[
                 from |-> m,
                 value |-> value,
                 contacts |-> IF value THEN {}
                              ELSE FindClosestContacts(m, Added(m, n), op[n].target, bucketSize) \ {n, m}]}]
        /\ UNCHANGED <<up, joined, has, strays, losses, placed, setting>>

\* An answer is taken from the channel.  A value ends the get, and is kept.
ProbeAnswered(n, r) ==
    /\ op[n].phase = "loop"
    /\ buckets' = [buckets EXCEPT ![n] = Added(n, r.from)]
    /\ IF r.value
       THEN /\ has' = has \cup {n}
            /\ strays' = strays \cup {<<n, m>> : m \in op[n].sent \cap op[n].seen}
            /\ op' = [op EXCEPT ![n] = Idle]
       ELSE /\ op' = [op EXCEPT
                 ![n].replies = @ \ {r},
                 ![n].status = Add(n, [@ EXCEPT ![r.from] = "queried"], r.contacts)]
            /\ UNCHANGED <<has, strays>>
    /\ UNCHANGED <<up, joined, losses, placed, setting>>

StrayServed(n, m) ==
    /\ strays' = strays \ {<<n, m>>}
    /\ buckets' = Handled(n, m, "get")
    /\ UNCHANGED <<up, joined, has, op, losses, placed, setting>>

-----------------------------------------------------------------------------
(* What an operation does when its lookup is over.                         *)

LookupOver(n) == RoundOver(n) /\ UnqueriedInTopK(n) = {}

(***************************************************************************)
(* Join looks up a random identifier of every bucket below last that is    *)
(* empty when the loop comes to it, and returns.                           *)
(***************************************************************************)
RefreshFrom(n, first, last) ==
    LET empty == {b \in first..(last - 1) : IsBucketEmpty(buckets[n], b)}
    IN  IF empty = {}
        THEN /\ op' = [op EXCEPT ![n] = Idle]
             /\ joined' = joined \cup {n}
        ELSE /\ \E t \in RandomIDsForBucket(n, Min(empty)) :
                  op' = [op EXCEPT ![n] =
                    [Starting("refresh", t) EXCEPT !.next = Min(empty) + 1, !.last = last]]
             /\ UNCHANGED joined

JoinLookupOver(n) ==
    /\ op[n].task = "join"
    /\ LookupOver(n)
    /\ RefreshFrom(n, 0, GetClosestNonEmptyBucketIndex(buckets[n]))
    /\ UNCHANGED <<buckets, up, has, strays, losses, placed, setting>>

RefreshLookupOver(n) ==
    /\ op[n].task = "refresh"
    /\ LookupOver(n)
    /\ RefreshFrom(n, op[n].next, op[n].last)
    /\ UNCHANGED <<buckets, up, has, strays, losses, placed, setting>>

\* Mutant: the value goes to one node only.
StoreNearest(n) ==
    /\ op[n].task = "store"
    /\ LookupOver(n)
    /\ SendTo(n, "store", ClosestOf(WithStatus(n, "queried"), Key, 1))
    /\ UNCHANGED <<buckets, up, joined, has, strays, losses, placed, setting>>

\* The nodes LookupContact returns: the closest that answered, and those of
\* the table as it is now if there was nobody to ask.
Found(n) ==
    IF op[n].status = NoStatus
    THEN FindClosestContacts(n, buckets[n], op[n].target, bucketSize)
    ELSE ClosestOf(WithStatus(n, "queried"), op[n].target, bucketSize)

\* STORE messages go to the nodes found.
StoreLookupOver(n) ==
    /\ op[n].task = "store"
    /\ LookupOver(n)
    /\ SendTo(n, "store", Found(n))
    /\ UNCHANGED <<buckets, up, joined, has, strays, losses, placed, setting>>

StoreServed(n, m) ==
    /\ op[n].phase = "store"
    /\ m \in op[n].sent \cap op[n].seen
    /\ buckets' = Handled(n, m, "store")
    /\ has' = has \cup {m}
    /\ op' = [op EXCEPT ![n].sent = @ \ {m}]
    /\ UNCHANGED <<up, joined, strays, losses, placed, setting>>

StoreFails(n, m) ==
    /\ op[n].phase = "store"
    /\ m \in op[n].sent
    /\ Fails(n, m)
    /\ op' = [op EXCEPT ![n].sent = @ \ {m}]
    /\ UNCHANGED <<buckets, up, joined, has, strays, placed, setting>>

StoreReturns(n) ==
    /\ op[n].phase = "store"
    /\ op[n].sent = {}
    /\ placed' = (placed \/ op[n].expects)
    /\ op' = [op EXCEPT ![n] = Idle]
    /\ UNCHANGED <<buckets, up, joined, has, strays, losses, setting>>

\* The value was not found.
GetFails(n) ==
    /\ op[n].task = "get"
    /\ LookupOver(n)
    /\ op' = [op EXCEPT ![n] = Idle]
    /\ UNCHANGED <<buckets, up, joined, has, strays, losses, placed, setting>>

\* SimulatedNetwork.Close.
Close(n) ==
    /\ n \in up
    /\ op[n].task = "none"
    /\ Cardinality(setting.members \ up) < setting.left
    /\ up' = up \ {n}
    /\ UNCHANGED <<buckets, joined, has, op, strays, losses, placed, setting>>

LookupStep(n) ==
    \/ LookupStart(n)
    \/ SendProbes(n)
    \/ \E m \in Nodes : ProbeFails(n, m) \/ ProbeServed(n, m)
    \/ \E r \in op[n].replies : ProbeAnswered(n, r)

Step(n) ==
    \/ LookupStep(n)
    \/ JoinLookupOver(n) \/ RefreshLookupOver(n) \/ StoreLookupOver(n)
    \/ \E m \in Nodes : StoreServed(n, m) \/ StoreFails(n, m)
    \/ StoreReturns(n)
    \/ GetFails(n)

Next ==
    \/ \E n \in Nodes : Join(n) \/ Store(n) \/ Replicate(n) \/ LookupData(n)
    \/ \E n \in Nodes : Step(n)
    \/ \E s \in strays : StrayServed(s[1], s[2])
    \/ \E n \in Nodes : Close(n)

Spec == Init /\ [][Next]_vars

-----------------------------------------------------------------------------
(* Properties *)

Reply == [from : Nodes, value : BOOLEAN, contacts : SUBSET Nodes]

Operation ==
    [task : {"none", "join", "refresh", "store", "get"}, phase : {"start", "loop", "store"},
     target : KademliaIDs,
     status : [Nodes -> {"absent", "unqueried", "queried", "unresponsive"}],
     sent : SUBSET Nodes, seen : SUBSET Nodes, replies : SUBSET Reply,
     next : 0..Bits, last : -1..(Bits - 1), expects : BOOLEAN]

\* A table that node n may have.
SoundTable(n, table) ==
    /\ table \in [BucketIndices -> Seq(Nodes \ {n})]
    /\ \A b \in BucketIndices : SoundList(n, table[b], b, bucketSize)

(***************************************************************************)
(* Every table in the network is a sound one, whatever order the joins,    *)
(* stores and lookups of all nodes change it in: AddContact never lets a   *)
(* bucket exceed bucketSize, hold a contact twice, one of another bucket,  *)
(* or the node itself.                                                     *)
(***************************************************************************)
TypeOK ==
    /\ DOMAIN buckets = Nodes
    /\ \A n \in Nodes : SoundTable(n, buckets[n])
    /\ setting \in Settings
    /\ up \subseteq setting.members
    /\ joined \subseteq setting.members
    /\ has \subseteq Nodes
    /\ op \in [Nodes -> Operation]
    /\ strays \subseteq Nodes \X Nodes
    /\ losses \in 0..setting.losses
    /\ placed \in BOOLEAN

(***************************************************************************)
(* A value that Store or Replicate placed when all nodes had joined is     *)
(* found by every later LookupData, from any node, as long as no message   *)
(* is lost and fewer than bucketSize nodes leave, though the tables differ *)
(* from node to node, know full buckets only and keep contacts that left:  *)
(* the lookup of the reader meets a node the lookup of the writer chose.   *)
(***************************************************************************)
PutGet ==
    [][\A n \in Nodes : GetFails(n) /\ losses = 0 => ~op[n].expects]_vars

Knows(n) == GetAllContacts(buckets[n])

\* Who follows contacts from S stays in S.
ClosedSet(S) == \A n \in S : Knows(n) \subseteq S

(***************************************************************************)
(* Join leaves no island: as long as no message is lost and nobody leaves, *)
(* a node that has joined is found by whoever follows contacts from the    *)
(* bootstrap node, also when several nodes join through it at once.  If    *)
(* they are no more than a bucket has places, it is found through nodes    *)
(* that have joined alone: however these are split in two, each part knows *)
(* somebody of the other.                                                  *)
(***************************************************************************)
Connected ==
    losses = 0 /\ up = setting.members =>
        /\ \A S \in SUBSET Nodes : Bootstrap \in S /\ ClosedSet(S) => joined \subseteq S
        /\ \A S \in SUBSET joined : Bootstrap \in S /\ S # joined =>
              /\ \E n \in joined \ S : Knows(n) \cap S # {}
              /\ setting.joins <= bucketSize => \E n \in S : Knows(n) \cap (joined \ S) # {}

=============================================================================
