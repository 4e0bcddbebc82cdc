-------------------------------- MODULE RPC ---------------------------------
(***************************************************************************)
(* The RPC layer over UDP: sendRPC, listenLoop and handleMessage of        *)
(* kademlia/network.go.  A call registers a channel with room for one      *)
(* message under a fresh transaction id, sends its packet and waits for    *)
(* the channel or for a timeout.  Every packet that arrives is handled by  *)
(* a goroutine of its own: when its id is pending it goes to the channel,  *)
(* otherwise it is served as a request.  The network loses packets (they   *)
(* are never delivered), delays, reorders and duplicates them; a reply     *)
(* that cannot be written is lost too, as its error is ignored.            *)
(***************************************************************************)
(* A node starts with its socket open: createNode calls Listen before      *)
(* anything can use it.  SetTimeout is left out: any timeout may expire.   *)
(***************************************************************************)
EXTENDS Naturals, FiniteSets

CONSTANTS
    Nodes,
    Links,          \* the pairs <<caller, callee>> that call each other
    Transactions,   \* transaction ids: uuid.New() never repeats one
    RequestTypes,   \* the requests that are sent
    Closers,        \* the nodes that may close their socket
    None

ASSUME RPCAssumption ==
    /\ Links \subseteq Nodes \X Nodes
    /\ RequestTypes \subseteq {"PING", "FIND_CONTACT", "FIND_DATA", "STORE"}
    /\ Closers \subseteq Nodes
    /\ None \notin Nodes \cup {"reply"}

VARIABLES
    packets,        \* the packets in flight
    pending,        \* [node -> transaction ids with a registered channel]
    channel,        \* [transaction -> the packet buffered in its channel, or None]
    senders,        \* the handlers about to send their packet to a channel
    call,           \* [transaction -> its sendRPC call]
    heard,          \* [node -> senders given to updateRoutingTable]
    served,         \* history: the transactions whose request was served
    crashed,        \* the nodes whose process ended in a panic
    closed          \* the nodes whose socket is closed

vars == <<packets, pending, channel, senders, call, heard, served, crashed, closed>>

Requests == {"PING", "FIND_CONTACT", "FIND_DATA", "STORE"}

\* Mutant: every reply repeats the type of its request.
ReplyTypeEchoed(type) == type

\* The type of the reply to a request.  A reply carries no target.
ReplyType(type) ==
    CASE type = "PING" -> "PONG"
      [] type = "FIND_CONTACT" -> "FIND_CONTACT"
      [] type = "FIND_DATA" -> "FIND_DATA_REPLY"
      [] type = "STORE" -> "STORE_REPLY"

\* answers: whether the packet is a reply, which no code looks at.
\* copy: 0, or which of two copies the packet is; a reply is a copy when its
\* request was.
Packet(tx, type, from, to, target, answers, copy) ==
    [tx |-> tx, type |-> type, from |-> from, to |-> to,
     target |-> target, answers |-> answers, copy |-> copy]

\* The Send...Message functions: all but PING carry a target.
Request(tx, type, from, to) == Packet(tx, type, from, to, type # "PING", FALSE, 0)

\* Mutant: the reply does not say who sends it.
ReplyAnonymous(m) == Packet(m.tx, ReplyType(m.type), None, m.from, FALSE, TRUE, m.copy)

Reply(m) == Packet(m.tx, ReplyType(m.type), m.to, m.from, FALSE, TRUE, m.copy)

UnusedCall == [pc |-> "unused", from |-> None, to |-> None, type |-> None, result |-> None]

Init ==
    /\ packets = {}
    /\ pending = [n \in Nodes |-> {}]
    /\ channel = [tx \in Transactions |-> None]
    /\ senders = {}
    /\ call = [tx \in Transactions |-> UnusedCall]
    /\ heard = [n \in Nodes |-> {}]
    /\ served = {}
    /\ crashed = {}
    /\ closed = {}

-----------------------------------------------------------------------------
(* sendRPC *)

\* Nothing arrives at a socket that is closed.
Sent(m) == IF m.to \in closed THEN {} ELSE {m}

\* Mutant: a transaction id is used again once its call has returned.
SendRPCReusingId(tx, from, to, type) ==
    /\ from \notin crashed \cup closed
    /\ call[tx].pc \in {"unused", "returned"}
    /\ call' = [call EXCEPT ![tx] =
                  [pc |-> "wait", from |-> from, to |-> to, type |-> type, result |-> None]]
    /\ pending' = [pending EXCEPT ![from] = @ \cup {tx}]
    /\ packets' = packets \cup Sent(Request(tx, type, from, to))
    /\ UNCHANGED <<channel, senders, heard, served, crashed, closed>>

\* The channel is registered and the packet is sent.
SendRPC(tx, from, to, type) ==
    /\ from \notin crashed \cup closed
    /\ call[tx].pc = "unused"
    /\ call' = [call EXCEPT ![tx] =
                  [pc |-> "wait", from |-> from, to |-> to, type |-> type, result |-> None]]
    /\ pending' = [pending EXCEPT ![from] = @ \cup {tx}]
    /\ packets' = packets \cup Sent(Request(tx, type, from, to))
    /\ UNCHANGED <<channel, senders, heard, served, crashed, closed>>

\* The channel is registered, but the packet cannot be written: the socket is
\* closed, or a value too large for a datagram.
SendRPCFails(tx, from, to, type) ==
    /\ from \notin crashed
    /\ from \in closed \/ type = "STORE"
    /\ call[tx].pc = "unused"
    /\ call' = [call EXCEPT ![tx] =
                  [pc |-> "cleanup", from |-> from, to |-> to, type |-> type, result |-> "error"]]
    /\ pending' = [pending EXCEPT ![from] = @ \cup {tx}]
    /\ UNCHANGED <<packets, channel, senders, heard, served, crashed, closed>>

\* select: a packet is in the channel, ...
ReceiveReply(tx) ==
    /\ call[tx].from \notin crashed
    /\ call[tx].pc = "wait"
    /\ channel[tx] # None
    /\ call' = [call EXCEPT ![tx].pc = "cleanup", ![tx].result = "reply"]
    /\ channel' = [channel EXCEPT ![tx] = None]
    /\ UNCHANGED <<packets, pending, senders, heard, served, crashed, closed>>

\* Mutant: the timer is set again when it expires.
TimeoutRearmed(tx) ==
    /\ call[tx].from \notin crashed
    /\ call[tx].pc = "wait"
    /\ UNCHANGED vars

\* ... or the timeout has expired; when both are true either is taken.
Timeout(tx) ==
    /\ call[tx].from \notin crashed
    /\ call[tx].pc = "wait"
    /\ call' = [call EXCEPT ![tx].pc = "cleanup", ![tx].result = "timeout"]
    /\ UNCHANGED <<packets, pending, channel, senders, heard, served, crashed, closed>>

\* Mutant: the channel stays registered after a timeout.
CleanupOnReply(tx) ==
    /\ call[tx].from \notin crashed
    /\ call[tx].pc = "cleanup"
    /\ call' = [call EXCEPT ![tx].pc = "returned"]
    /\ pending' = IF call[tx].result = "reply"
                  THEN [pending EXCEPT ![call[tx].from] = @ \ {tx}]
                  ELSE pending
    /\ UNCHANGED <<packets, channel, senders, heard, served, crashed, closed>>

\* The deferred function: the channel is no longer registered.
Cleanup(tx) ==
    /\ call[tx].from \notin crashed
    /\ call[tx].pc = "cleanup"
    /\ call' = [call EXCEPT ![tx].pc = "returned"]
    /\ pending' = [pending EXCEPT ![call[tx].from] = @ \ {tx}]
    /\ UNCHANGED <<packets, channel, senders, heard, served, crashed, closed>>

-----------------------------------------------------------------------------
(* handleMessage.  First the sender is given to the routing table (module  *)
(* RoutingTable; the node itself is not), then the id is looked up.        *)

Hear(m) ==
    heard' = [heard EXCEPT ![m.to] = IF m.from = m.to THEN @ ELSE @ \cup {m.from}]

\* The id is pending: the handler holds the channel and will send to it.
DeliverPending(m) ==
    /\ m.to \notin crashed
    /\ m.tx \in pending[m.to]
    /\ packets' = packets \ {m}
    /\ senders' = senders \cup {m}
    /\ Hear(m)
    /\ UNCHANGED <<pending, channel, call, served, crashed, closed>>

\* The send to the channel, which waits while the channel is full.
SendToChannel(m) ==
    /\ m.to \notin crashed
    /\ channel[m.tx] = None
    /\ channel' = [channel EXCEPT ![m.tx] = m]
    /\ senders' = senders \ {m}
    /\ UNCHANGED <<packets, pending, call, heard, served, crashed, closed>>

(***************************************************************************)
(* The id is not pending: the packet is served by its type.  The search of *)
(* the routing table for FIND_CONTACT dereferences the target, so without  *)
(* one it panics, and a panic in a goroutine ends the process.  A type     *)
(* that is not a request is ignored.                                       *)
(***************************************************************************)
Panics(m) == m.type = "FIND_CONTACT" /\ ~m.target

DeliverRequest(m) ==
    /\ m.to \notin crashed
    /\ m.tx \notin pending[m.to]
    /\ m.type \in Requests
    /\ ~Panics(m)
    /\ packets' = (packets \ {m}) \cup (IF m.to \in closed THEN {} ELSE Sent(Reply(m)))
    /\ served' = served \cup {m.tx}
    /\ Hear(m)
    /\ UNCHANGED <<pending, channel, senders, call, crashed, closed>>

DeliverPanic(m) ==
    /\ m.to \notin crashed
    /\ m.tx \notin pending[m.to]
    /\ Panics(m)
    /\ packets' = packets \ {m}
    /\ crashed' = crashed \cup {m.to}
    /\ Hear(m)
    /\ UNCHANGED <<pending, channel, senders, call, served, closed>>

DeliverIgnored(m) ==
    /\ m.to \notin crashed
    /\ m.tx \notin pending[m.to]
    /\ m.type \notin Requests
    /\ packets' = packets \ {m}
    /\ Hear(m)
    /\ UNCHANGED <<pending, channel, senders, call, served, crashed, closed>>

\* Close: the packets that listenLoop has read are still handled, the others
\* to n are not.
Close(n) ==
    /\ n \notin crashed \cup closed
    /\ closed' = closed \cup {n}
    /\ \E read \in SUBSET {m \in packets : m.to = n} :
         packets' = {m \in packets : m.to = n => m \in read}
    /\ UNCHANGED <<pending, channel, senders, call, heard, served, crashed>>

\* External: the network duplicates a packet.  Bound: once for a transaction,
\* either its request (which then is served twice) or its reply.
Duplicate(m) ==
    /\ m.copy = 0
    /\ m.to \notin closed
    /\ packets' = (packets \ {m}) \cup {[m EXCEPT !.copy = 1], [m EXCEPT !.copy = 2]}
    /\ UNCHANGED <<pending, channel, senders, call, heard, served, crashed, closed>>

Deliver(m) ==
    DeliverPending(m) \/ DeliverRequest(m) \/ DeliverPanic(m) \/ DeliverIgnored(m)

CallStep(tx) == ReceiveReply(tx) \/ Timeout(tx) \/ Cleanup(tx)

Next ==
    \/ \E tx \in Transactions, link \in Links, type \in RequestTypes :
          SendRPC(tx, link[1], link[2], type) \/ SendRPCFails(tx, link[1], link[2], type)
    \/ \E tx \in Transactions : CallStep(tx)
    \/ \E m \in packets : Deliver(m) \/ Duplicate(m)
    \/ \E m \in senders : SendToChannel(m)
    \/ \E n \in Closers : Close(n)

Spec == Init /\ [][Next]_vars

\* Timers fire and a goroutine that can run does; packets may never arrive.
FairSpec == Spec /\ \A tx \in Transactions : WF_vars(CallStep(tx))

-----------------------------------------------------------------------------
(* Properties *)

PacketType ==
    [tx : Transactions, type : Requests \cup {"PONG", "FIND_DATA_REPLY", "STORE_REPLY"},
     from : Nodes, to : Nodes, target : BOOLEAN, answers : BOOLEAN, copy : 0..2]

\* Packets, calls and channels have their types: every packet, replies included,
\* names its sender and its receiver.
TypeOK ==
    /\ packets \subseteq PacketType
    /\ pending \in [Nodes -> SUBSET Transactions]
    /\ channel \in [Transactions -> PacketType \cup {None}]
    /\ senders \subseteq PacketType
    /\ call \in [Transactions ->
                   [pc : {"unused", "wait", "cleanup", "returned"}, from : Nodes \cup {None},
                    to : Nodes \cup {None}, type : Requests \cup {None},
                    result : {None, "reply", "timeout", "error"}]]
    /\ heard \in [Nodes -> SUBSET Nodes]
    /\ served \subseteq Transactions
    /\ crashed \subseteq Nodes
    /\ closed \subseteq Nodes

(***************************************************************************)
(* A call that returns a reply was served by the node it was sent to:      *)
(* whatever was lost, late or duplicated, no other packet reaches its      *)
(* channel.                                                                *)
(***************************************************************************)
ReplyMeansServed ==
    \A tx \in Transactions :
        /\ call[tx].result = "reply" => tx \in served
        /\ channel[tx] # None =>
             /\ channel[tx].answers
             /\ channel[tx].from = call[tx].to
             /\ channel[tx].type = ReplyType(call[tx].type)

(***************************************************************************)
(* The pending map holds exactly the calls that have not returned: none is *)
(* left behind, on any path, so the map does not grow with timeouts.       *)
(***************************************************************************)
PendingExact ==
    \A n \in Nodes :
        pending[n] = {tx \in Transactions : call[tx].from = n /\ call[tx].pc \in {"wait", "cleanup"}}

(***************************************************************************)
(* A reply that comes too late, to an id that is no longer pending, is     *)
(* dropped: it is not answered as if it were a request.  That it does not  *)
(* end the process either is NoPanic, and does not hold.                   *)
(***************************************************************************)
LateReplyDropped ==
    [][\A m \in packets : m.answers /\ Deliver(m) => packets' \subseteq packets]_vars

(***************************************************************************)
(* A call returns, even when its peer or the network never answers.        *)
(***************************************************************************)
CallReturns ==
    \A tx \in Transactions :
        call[tx].pc = "wait" ~> (call[tx].pc = "returned" \/ call[tx].from \in crashed)

(***************************************************************************)
(* "handleMessage evaluates if the incoming packet is related to an        *)
(* existing request (through the transaction ID) or if it's a new request" *)
(* (network.go:257): a reply to a request that has timed out is neither,   *)
(* and must not bring the node down.                                       *)
(***************************************************************************)
NoPanic == crashed = {}

=============================================================================
