------------------------------ MODULE RPCProofs -----------------------------
(***************************************************************************)
(* The RPC layer, for any nodes, calls and transaction ids, and any loss,  *)
(* delay, reordering and duplication of packets.  The argument: a packet   *)
(* in flight is the request of the call whose id it bears, or the reply of *)
(* the node that was called; an id that is pending at a node belongs to a  *)
(* call of that node; so what reaches a channel is the reply to its call.  *)
(***************************************************************************)
EXTENDS RPC, TLAPS

-----------------------------------------------------------------------------
(* The inductive invariant.                                                *)

\* m is the request that the call with its id sent.
IsRequest(m) ==
    /\ ~m.answers
    /\ m.from = call[m.tx].from
    /\ m.to = call[m.tx].to
    /\ m.type = call[m.tx].type
    /\ m.type # "PING" => m.target

\* m is the answer of the node that the call with its id was sent to.
IsReply(m) ==
    /\ m.answers
    /\ m.tx \in served
    /\ m.from = call[m.tx].to
    /\ m.to = call[m.tx].from
    /\ m.type = ReplyType(call[m.tx].type)
    /\ ~m.target

\* A call that was made is one between linked nodes.
CallsLinked ==
    \A tx \in Transactions : call[tx].pc # "unused" =>
        <<call[tx].from, call[tx].to>> \in Links /\ call[tx].type \in Requests

PacketsGenuine ==
    \A m \in packets : call[m.tx].pc # "unused" /\ (IsRequest(m) \/ IsReply(m))

RPCInv == TypeOK /\ PendingExact /\ CallsLinked /\ PacketsGenuine

\* No node calls itself.  A node that did would find its own request's id
\* pending and take the request for the answer.
NoSelfCalls == \A link \in Links : link[1] # link[2]

\* What a handler holds, and what is in a channel, is the reply to its call.
ChannelsGenuine ==
    /\ \A m \in senders : call[m.tx].pc # "unused" /\ IsReply(m)
    /\ \A tx \in Transactions : channel[tx] # None =>
         channel[tx].tx = tx /\ call[tx].pc # "unused" /\ IsReply(channel[tx])
    /\ \A tx \in Transactions : call[tx].result = "reply" => tx \in served

-----------------------------------------------------------------------------
(* Packets.                                                                *)

LEMMA ReplyTypes ==
  ASSUME NEW type \in Requests
  PROVE  ReplyType(type) \in {"PONG", "FIND_CONTACT", "FIND_DATA_REPLY", "STORE_REPLY"}
BY DEF Requests, ReplyType

LEMMA LinksJoinNodes ==
  ASSUME NEW link \in Links
  PROVE  link[1] \in Nodes /\ link[2] \in Nodes /\ link = <<link[1], link[2]>>
BY RPCAssumption

LEMMA RequestPacket ==
  ASSUME NEW tx \in Transactions, NEW type \in Requests, NEW from \in Nodes, NEW to \in Nodes
  PROVE  Request(tx, type, from, to) \in PacketType
BY DEF Request, Packet, PacketType

LEMMA ReplyPacket ==
  ASSUME NEW m \in PacketType, m.type \in Requests
  PROVE  Reply(m) \in PacketType
<1>1. ReplyType(m.type) \in {"PONG", "FIND_CONTACT", "FIND_DATA_REPLY", "STORE_REPLY"}
  BY ReplyTypes
<1>2. ReplyType(m.type) \in Requests \cup {"PONG", "FIND_DATA_REPLY", "STORE_REPLY"}
  BY <1>1 DEF Requests
<1>3. /\ m.tx \in Transactions /\ m.from \in Nodes /\ m.to \in Nodes /\ m.copy \in 0..2
  BY DEF PacketType
<1> HIDE DEF Requests
<1> QED BY <1>2, <1>3 DEF Reply, Packet, PacketType

\* A duplicate differs in nothing that the protocol looks at.
LEMMA CopyPacket ==
  ASSUME NEW m \in PacketType, NEW k \in 0..2, NEW d, d = [m EXCEPT !.copy = k]
  PROVE  /\ d \in PacketType
         /\ d.tx = m.tx /\ d.type = m.type /\ d.from = m.from /\ d.to = m.to
         /\ d.target = m.target /\ d.answers = m.answers
BY DEF PacketType

-----------------------------------------------------------------------------
(* Types.                                                                  *)

CallType ==
    [pc : {"unused", "wait", "cleanup", "returned"}, from : Nodes \cup {None},
     to : Nodes \cup {None}, type : Requests \cup {None},
     result : {None, "reply", "timeout", "error"}]

LEMMA HearTypes ==
  ASSUME TypeOK, NEW m \in PacketType, Hear(m)
  PROVE  heard' \in [Nodes -> SUBSET Nodes]
BY DEF TypeOK, PacketType, Hear

LEMMA TypeStep ==
  ASSUME TypeOK, [Next]_vars
  PROVE  TypeOK'
<1> USE DEF TypeOK
<1>1. ASSUME NEW tx \in Transactions, NEW link \in Links, NEW type \in RequestTypes,
             SendRPC(tx, link[1], link[2], type) \/ SendRPCFails(tx, link[1], link[2], type)
      PROVE  TypeOK'
  <2>1. link[1] \in Nodes /\ link[2] \in Nodes /\ type \in Requests
    BY LinksJoinNodes, RPCAssumption DEF Requests
  <2>2. Request(tx, type, link[1], link[2]) \in PacketType
    BY <2>1, RequestPacket
  <2>3. call' \in [Transactions -> CallType]
    BY <1>1, <2>1 DEF SendRPC, SendRPCFails, CallType
  <2>4. pending' \in [Nodes -> SUBSET Transactions]
    BY <1>1, <2>1 DEF SendRPC, SendRPCFails
  <2>5. packets' \subseteq PacketType
    BY <1>1, <2>2 DEF SendRPC, SendRPCFails, Sent
  <2>6. UNCHANGED <<channel, senders, heard, served, crashed, closed>>
    BY <1>1 DEF SendRPC, SendRPCFails
  <2> QED BY <2>3, <2>4, <2>5, <2>6 DEF CallType
<1>2. ASSUME NEW tx \in Transactions, CallStep(tx) PROVE TypeOK'
  <2>1. call' \in [Transactions -> CallType]
    <3>1. ASSUME NEW c \in CallType, call' = [call EXCEPT ![tx] = c]
          PROVE  call' \in [Transactions -> CallType]
      BY <3>1 DEF CallType
    <3>2. call[tx] \in CallType
      BY DEF CallType
    <3>3. CASE ReceiveReply(tx) \/ Timeout(tx)
      BY <3>1, <3>2, <3>3 DEF ReceiveReply, Timeout, CallType
    <3>4. CASE Cleanup(tx)
      BY <3>1, <3>2, <3>4 DEF Cleanup, CallType
    <3> QED BY <1>2, <3>3, <3>4 DEF CallStep
  <2>2. pending' \in [Nodes -> SUBSET Transactions]
    BY <1>2 DEF CallStep, ReceiveReply, Timeout, Cleanup
  <2>3. channel' \in [Transactions -> PacketType \cup {None}]
    BY <1>2 DEF CallStep, ReceiveReply, Timeout, Cleanup
  <2>4. UNCHANGED <<packets, senders, heard, served, crashed, closed>>
    BY <1>2 DEF CallStep, ReceiveReply, Timeout, Cleanup
  <2> QED BY <2>1, <2>2, <2>3, <2>4 DEF CallType
<1>3. ASSUME NEW m \in packets, Deliver(m) PROVE TypeOK'
  <2>1. m \in PacketType /\ m.tx \in Transactions /\ m.to \in Nodes
    BY DEF PacketType
  <2>2. heard' \in [Nodes -> SUBSET Nodes]
    BY <1>3, <2>1, HearTypes DEF Deliver, DeliverPending, DeliverRequest, DeliverPanic, DeliverIgnored
  <2>3. packets' \subseteq PacketType
    <3>1. m.type \in Requests => Reply(m) \in PacketType
      BY <2>1, ReplyPacket
    <3> QED BY <1>3, <3>1 DEF Deliver, DeliverPending, DeliverRequest, DeliverPanic, DeliverIgnored, Sent
  <2>4. /\ senders' \subseteq PacketType
        /\ served' \subseteq Transactions
        /\ crashed' \subseteq Nodes
        /\ UNCHANGED <<pending, channel, call, closed>>
    BY <1>3, <2>1 DEF Deliver, DeliverPending, DeliverRequest, DeliverPanic, DeliverIgnored
  <2> QED BY <2>2, <2>3, <2>4
<1>4. ASSUME NEW m \in packets, Duplicate(m) PROVE TypeOK'
  <2>1. [m EXCEPT !.copy = 1] \in PacketType /\ [m EXCEPT !.copy = 2] \in PacketType
    <3>1. m \in PacketType /\ 1 \in 0..2 /\ 2 \in 0..2
      OBVIOUS
    <3> QED BY <3>1, CopyPacket
  <2> QED BY <1>4, <2>1 DEF Duplicate
<1>5. ASSUME NEW m \in senders, SendToChannel(m) PROVE TypeOK'
  BY <1>5 DEF SendToChannel, PacketType
<1>6. ASSUME NEW n \in Closers, Close(n) PROVE TypeOK'
  BY <1>6, RPCAssumption DEF Close
<1>7. CASE UNCHANGED vars
  BY <1>7 DEF vars
<1> QED BY <1>1, <1>2, <1>3, <1>4, <1>5, <1>6, <1>7 DEF Next

LEMMA TypeInit == Init => TypeOK
BY DEF Init, TypeOK, UnusedCall

(***************************************************************************)
(* Every packet, call and channel keeps its type: in particular every      *)
(* reply that handleMessage writes names its sender and its receiver.      *)
(***************************************************************************)
THEOREM RPCTypes == Spec => []TypeOK
BY TypeInit, TypeStep, PTL DEF Spec

-----------------------------------------------------------------------------
(* The pending map.                                                        *)

LEMMA PendingStep ==
  ASSUME TypeOK, CallsLinked, PendingExact, [Next]_vars
  PROVE  PendingExact'
<1> DEFINE Open(c, n) == c.from = n /\ c.pc \in {"wait", "cleanup"}
<1> SUFFICES ASSUME NEW n \in Nodes
             PROVE  pending'[n] = {tx \in Transactions : Open(call'[tx], n)}
  BY DEF PendingExact
<1>0. pending[n] = {tx \in Transactions : Open(call[tx], n)}
  BY DEF PendingExact
<1>1. ASSUME NEW tx \in Transactions, NEW link \in Links, NEW type \in RequestTypes,
             SendRPC(tx, link[1], link[2], type) \/ SendRPCFails(tx, link[1], link[2], type)
      PROVE  pending'[n] = {t \in Transactions : Open(call'[t], n)}
  <2>1. link[1] \in Nodes
    BY LinksJoinNodes
  <2>2. /\ call[tx].pc = "unused"
        /\ call'[tx].from = link[1] /\ call'[tx].pc \in {"wait", "cleanup"}
        /\ \A t \in Transactions \ {tx} : call'[t] = call[t]
    BY <1>1 DEF SendRPC, SendRPCFails, TypeOK
  <2>3. /\ pending'[link[1]] = pending[link[1]] \cup {tx}
        /\ n # link[1] => pending'[n] = pending[n]
    BY <1>1, <2>1 DEF SendRPC, SendRPCFails, TypeOK
  <2>4. /\ ~Open(call[tx], n)
        /\ Open(call'[tx], n) <=> n = link[1]
    BY <2>2
  <2> HIDE DEF Open
  <2> QED BY <1>0, <2>2, <2>3, <2>4
<1>2. ASSUME NEW tx \in Transactions, ReceiveReply(tx) \/ Timeout(tx)
      PROVE  pending'[n] = {t \in Transactions : Open(call'[t], n)}
  <2>1. \A t \in Transactions : Open(call'[t], n) <=> Open(call[t], n)
    BY <1>2 DEF ReceiveReply, Timeout, TypeOK
  <2>2. pending' = pending
    BY <1>2 DEF ReceiveReply, Timeout
  <2> HIDE DEF Open
  <2> QED BY <1>0, <2>1, <2>2
<1>3. ASSUME NEW tx \in Transactions, Cleanup(tx)
      PROVE  pending'[n] = {t \in Transactions : Open(call'[t], n)}
  <2>1. call[tx].pc = "cleanup" /\ <<call[tx].from, call[tx].to>> \in Links
    BY <1>3 DEF Cleanup, CallsLinked
  <2>2. call[tx].from \in Nodes
    BY <2>1, RPCAssumption
  <2>3. /\ ~Open(call'[tx], n)
        /\ \A t \in Transactions \ {tx} : call'[t] = call[t]
    BY <1>3 DEF Cleanup, TypeOK
  <2>4. /\ pending'[call[tx].from] = pending[call[tx].from] \ {tx}
        /\ n # call[tx].from => pending'[n] = pending[n]
    BY <1>3, <2>2 DEF Cleanup, TypeOK
  <2>5. Open(call[tx], n) <=> n = call[tx].from
    BY <2>1
  <2> HIDE DEF Open
  <2> QED BY <1>0, <2>3, <2>4, <2>5
<1>4. ASSUME UNCHANGED <<pending, call>>
      PROVE  pending'[n] = {t \in Transactions : Open(call'[t], n)}
  BY <1>0, <1>4
<1>5. ASSUME NEW m, Deliver(m) \/ Duplicate(m) \/ SendToChannel(m)
      PROVE  UNCHANGED <<pending, call>>
  BY <1>5 DEF Deliver, DeliverPending, DeliverRequest, DeliverPanic, DeliverIgnored, Duplicate,
              SendToChannel
<1>6. ASSUME NEW k, Close(k) PROVE UNCHANGED <<pending, call>>
  BY <1>6 DEF Close
<1>7. UNCHANGED vars => UNCHANGED <<pending, call>>
  BY DEF vars
<1> HIDE DEF Open
<1> QED BY <1>1, <1>2, <1>3, <1>4, <1>5, <1>6, <1>7 DEF Next, CallStep

-----------------------------------------------------------------------------
(* What packets say.                                                       *)

\* A call keeps its peers and its type; none goes back to unused.
LEMMA CallsKept ==
  ASSUME TypeOK, [Next]_vars, NEW tx \in Transactions, call[tx].pc # "unused"
  PROVE  /\ call'[tx].pc # "unused"
         /\ call'[tx].from = call[tx].from
         /\ call'[tx].to = call[tx].to
         /\ call'[tx].type = call[tx].type
<1> USE DEF TypeOK
<1>1. ASSUME NEW t \in Transactions, NEW link \in Links, NEW type \in RequestTypes,
             SendRPC(t, link[1], link[2], type) \/ SendRPCFails(t, link[1], link[2], type)
      PROVE  call'[tx] = call[tx]
  BY <1>1 DEF SendRPC, SendRPCFails
<1>2. ASSUME NEW t \in Transactions, CallStep(t)
      PROVE  /\ call'[tx].pc # "unused"
             /\ call'[tx].from = call[tx].from
             /\ call'[tx].to = call[tx].to
             /\ call'[tx].type = call[tx].type
  BY <1>2 DEF CallStep, ReceiveReply, Timeout, Cleanup
<1>3. ASSUME NEW m, Deliver(m) \/ Duplicate(m) \/ SendToChannel(m) PROVE call' = call
  BY <1>3 DEF Deliver, DeliverPending, DeliverRequest, DeliverPanic, DeliverIgnored, Duplicate,
              SendToChannel
<1>4. ASSUME NEW k, Close(k) PROVE call' = call
  BY <1>4 DEF Close
<1>5. UNCHANGED vars => call' = call
  BY DEF vars
<1> QED BY <1>1, <1>2, <1>3, <1>4, <1>5 DEF Next

LEMMA ServedGrows == [Next]_vars => served \subseteq served'
BY DEF Next, vars, SendRPC, SendRPCFails, CallStep, ReceiveReply, Timeout, Cleanup, Deliver,
       DeliverPending, DeliverRequest, DeliverPanic, DeliverIgnored, Duplicate, SendToChannel, Close

\* A packet that was genuine stays so.
LEMMA GenuineKept ==
  ASSUME TypeOK, [Next]_vars, NEW m \in PacketType, call[m.tx].pc # "unused"
  PROVE  /\ call'[m.tx].pc # "unused"
         /\ IsRequest(m) => IsRequest(m)'
         /\ IsReply(m) => IsReply(m)'
<1>1. m.tx \in Transactions
  BY DEF PacketType
<1> QED BY <1>1, CallsKept, ServedGrows DEF IsRequest, IsReply

LEMMA LinkedStep ==
  ASSUME TypeOK, CallsLinked, [Next]_vars
  PROVE  CallsLinked'
<1> SUFFICES ASSUME NEW tx \in Transactions, call'[tx].pc # "unused"
             PROVE  <<call'[tx].from, call'[tx].to>> \in Links /\ call'[tx].type \in Requests
  BY DEF CallsLinked
<1>1. CASE call[tx].pc # "unused"
  BY <1>1, CallsKept DEF CallsLinked
<1>2. CASE call[tx].pc = "unused"
  <2>1. ASSUME NEW t \in Transactions, NEW link \in Links, NEW type \in RequestTypes,
               SendRPC(t, link[1], link[2], type) \/ SendRPCFails(t, link[1], link[2], type)
        PROVE  <<call'[tx].from, call'[tx].to>> \in Links /\ call'[tx].type \in Requests
    <3>1. tx = t
      BY <1>2, <2>1 DEF SendRPC, SendRPCFails, TypeOK
    <3>2. call'[tx].from = link[1] /\ call'[tx].to = link[2] /\ call'[tx].type = type
      BY <2>1, <3>1 DEF SendRPC, SendRPCFails, TypeOK
    <3>3. type \in Requests
      BY RPCAssumption DEF Requests
    <3> QED BY <3>2, <3>3, LinksJoinNodes
  <2>2. ASSUME NEW t \in Transactions, CallStep(t) PROVE call'[tx] = call[tx]
    BY <1>2, <2>2 DEF CallStep, ReceiveReply, Timeout, Cleanup, TypeOK
  <2>3. ASSUME NEW m, Deliver(m) \/ Duplicate(m) \/ SendToChannel(m) PROVE call' = call
    BY <2>3 DEF Deliver, DeliverPending, DeliverRequest, DeliverPanic, DeliverIgnored, Duplicate,
                SendToChannel
  <2>4. ASSUME NEW k, Close(k) PROVE call' = call
    BY <2>4 DEF Close
  <2>5. UNCHANGED vars => call' = call
    BY DEF vars
  <2> QED BY <1>2, <2>1, <2>2, <2>3, <2>4, <2>5 DEF Next
<1> QED BY <1>1, <1>2

\* A reply is never served as a request: it has a type that is not one, or
\* the type FIND_CONTACT without a target.
LEMMA RepliesAreNotRequests ==
  ASSUME TypeOK, CallsLinked, NEW m \in PacketType, call[m.tx].pc # "unused", IsReply(m)
  PROVE  m.type \notin Requests \/ Panics(m)
<1>1. m.tx \in Transactions
  BY DEF PacketType
<1>2. call[m.tx].type \in Requests /\ m.type = ReplyType(call[m.tx].type) /\ ~m.target
  BY <1>1 DEF CallsLinked, IsReply
<1> QED BY <1>2, ReplyTypes DEF Requests, Panics

LEMMA PacketsStep ==
  ASSUME TypeOK, CallsLinked, PacketsGenuine, [Next]_vars
  PROVE  PacketsGenuine'
<1> SUFFICES ASSUME NEW d \in packets'
             PROVE  call'[d.tx].pc # "unused" /\ (IsRequest(d)' \/ IsReply(d)')
  BY DEF PacketsGenuine
<1>1. CASE d \in packets
  <2>1. d \in PacketType /\ call[d.tx].pc # "unused" /\ (IsRequest(d) \/ IsReply(d))
    BY <1>1 DEF TypeOK, PacketsGenuine
  <2> QED BY <2>1, GenuineKept
<1>2. CASE d \notin packets
  <2>1. ASSUME NEW tx \in Transactions, NEW link \in Links, NEW type \in RequestTypes,
               SendRPC(tx, link[1], link[2], type)
        PROVE  call'[d.tx].pc # "unused" /\ IsRequest(d)'
    <3>1. d = Request(tx, type, link[1], link[2])
      BY <1>2, <2>1 DEF SendRPC, Sent
    <3>2. /\ d.tx = tx /\ d.type = type /\ d.from = link[1] /\ d.to = link[2] /\ ~d.answers
          /\ type # "PING" => d.target
      BY <3>1 DEF Request, Packet
    <3>3. /\ call'[tx].pc = "wait" /\ call'[tx].from = link[1] /\ call'[tx].to = link[2]
          /\ call'[tx].type = type
      BY <2>1 DEF SendRPC, TypeOK
    <3> QED BY <3>2, <3>3 DEF IsRequest
  <2>2. ASSUME NEW m \in packets, DeliverRequest(m)
        PROVE  call'[d.tx].pc # "unused" /\ IsReply(d)'
    <3>1. d = Reply(m) /\ m \in PacketType /\ m.type \in Requests /\ ~Panics(m)
      BY <1>2, <2>2 DEF DeliverRequest, Sent, TypeOK
    <3>2. call[m.tx].pc # "unused" /\ IsRequest(m)
      BY <3>1, RepliesAreNotRequests DEF PacketsGenuine
    <3>3. /\ d.tx = m.tx /\ d.type = ReplyType(m.type) /\ d.from = m.to /\ d.to = m.from
          /\ d.answers /\ ~d.target
      BY <3>1 DEF Reply, Packet
    <3>4. call' = call /\ m.tx \in served'
      BY <2>2 DEF DeliverRequest
    <3> QED BY <3>2, <3>3, <3>4 DEF IsRequest, IsReply
  <2>3. ASSUME NEW m \in packets, Duplicate(m)
        PROVE  call'[d.tx].pc # "unused" /\ (IsRequest(d)' \/ IsReply(d)')
    <3>1. m \in PacketType /\ 1 \in 0..2 /\ 2 \in 0..2
      BY DEF TypeOK
    <3>2. d = [m EXCEPT !.copy = 1] \/ d = [m EXCEPT !.copy = 2]
      BY <1>2, <2>3 DEF Duplicate
    <3>3. /\ d.tx = m.tx /\ d.type = m.type /\ d.from = m.from /\ d.to = m.to
          /\ d.target = m.target /\ d.answers = m.answers
      BY <3>1, <3>2, CopyPacket
    <3>4. call[m.tx].pc # "unused" /\ (IsRequest(m) \/ IsReply(m))
      BY DEF PacketsGenuine
    <3>5. call' = call /\ served' = served
      BY <2>3 DEF Duplicate
    <3> QED BY <3>3, <3>4, <3>5 DEF IsRequest, IsReply
  <2>4. ASSUME NEW tx, NEW from, NEW to, NEW type, SendRPCFails(tx, from, to, type) PROVE FALSE
    BY <1>2, <2>4 DEF SendRPCFails
  <2>5. ASSUME NEW tx, CallStep(tx) PROVE FALSE
    BY <1>2, <2>5 DEF CallStep, ReceiveReply, Timeout, Cleanup
  <2>6. ASSUME NEW m, DeliverPending(m) \/ DeliverPanic(m) \/ DeliverIgnored(m) \/ SendToChannel(m)
        PROVE  FALSE
    BY <1>2, <2>6 DEF DeliverPending, DeliverPanic, DeliverIgnored, SendToChannel
  <2>7. ASSUME NEW n, Close(n) PROVE FALSE
    BY <1>2, <2>7 DEF Close
  <2>8. ~UNCHANGED vars
    BY <1>2 DEF vars
  <2> QED BY <2>1, <2>2, <2>3, <2>4, <2>5, <2>6, <2>7, <2>8 DEF Next, Deliver
<1> QED BY <1>1, <1>2

LEMMA RPCInvariant == Spec => []RPCInv
<1>1. Init => RPCInv
  <2> SUFFICES ASSUME Init PROVE RPCInv
    OBVIOUS
  <2>1. TypeOK
    BY TypeInit
  <2>2. PendingExact
    BY DEF Init, PendingExact, UnusedCall
  <2>3. CallsLinked /\ PacketsGenuine
    BY DEF Init, CallsLinked, PacketsGenuine, UnusedCall
  <2> QED BY <2>1, <2>2, <2>3 DEF RPCInv
<1>2. RPCInv /\ [Next]_vars => RPCInv'
  BY TypeStep, PendingStep, LinkedStep, PacketsStep DEF RPCInv
<1> QED BY <1>1, <1>2, PTL DEF Spec

(***************************************************************************)
(* Whatever path a call takes, the pending map holds its id from the       *)
(* registration of its channel to the deferred delete and no longer.       *)
(***************************************************************************)
THEOREM PendingMapExact == Spec => []PendingExact
BY RPCInvariant, PTL DEF RPCInv

(***************************************************************************)
(* A reply whose call has returned, at whatever time it arrives and in how *)
(* many copies, makes handleMessage send nothing.                          *)
(***************************************************************************)
THEOREM LateRepliesDropped == Spec => LateReplyDropped
<1>1. ASSUME RPCInv, [Next]_vars
      PROVE  [\A m \in packets : m.answers /\ Deliver(m) => packets' \subseteq packets]_vars
  <2> SUFFICES ASSUME NEW m \in packets, m.answers, Deliver(m)
               PROVE  packets' \subseteq packets
    OBVIOUS
  <2>1. m \in PacketType /\ call[m.tx].pc # "unused" /\ IsReply(m)
    BY <1>1 DEF RPCInv, TypeOK, PacketsGenuine, IsRequest
  <2>2. ~DeliverRequest(m)
    BY <1>1, <2>1, RepliesAreNotRequests DEF RPCInv, DeliverRequest
  <2> QED BY <2>2 DEF Deliver, DeliverPending, DeliverPanic, DeliverIgnored
<1> QED BY <1>1, RPCInvariant, PTL DEF Spec, LateReplyDropped

(***************************************************************************)
(* The panic of handleMessage has one cause only: the reply to a           *)
(* FIND_CONTACT of the node itself whose call has returned.  Requests,     *)
(* other replies and replies in time never end a process.                  *)
(***************************************************************************)
THEOREM PanicsOnlyOnLateReply ==
  Spec => [][crashed' # crashed =>
               \E m \in packets : /\ m.answers /\ m.type = "FIND_CONTACT"
                                  /\ call[m.tx].from = m.to /\ call[m.tx].pc = "returned"
                                  /\ crashed' = crashed \cup {m.to}]_vars
<1>1. ASSUME RPCInv, [Next]_vars, crashed' # crashed
      PROVE  \E m \in packets : /\ m.answers /\ m.type = "FIND_CONTACT"
                                /\ call[m.tx].from = m.to /\ call[m.tx].pc = "returned"
                                /\ crashed' = crashed \cup {m.to}
  <2>1. PICK m \in packets : DeliverPanic(m)
    BY <1>1 DEF Next, vars, SendRPC, SendRPCFails, CallStep, ReceiveReply, Timeout, Cleanup, Deliver,
         DeliverPending, DeliverRequest, DeliverIgnored, Duplicate, SendToChannel, Close
  <2>2. m.type = "FIND_CONTACT" /\ ~m.target /\ m.tx \notin pending[m.to]
    BY <2>1 DEF DeliverPanic, Panics
  <2>3. m.tx \in Transactions /\ m.to \in Nodes
    BY <1>1 DEF RPCInv, TypeOK, PacketType
  <2>4. call[m.tx].pc # "unused" /\ IsReply(m)
    BY <1>1, <2>2 DEF RPCInv, PacketsGenuine, IsRequest
  <2>5. m.answers /\ call[m.tx].from = m.to
    BY <2>4 DEF IsReply
  <2>6. call[m.tx].pc \notin {"wait", "cleanup"}
    BY <1>1, <2>2, <2>3, <2>5 DEF RPCInv, PendingExact
  <2>7. call[m.tx].pc = "returned"
    BY <1>1, <2>3, <2>4, <2>6 DEF RPCInv, TypeOK
  <2>8. crashed' = crashed \cup {m.to}
    BY <2>1 DEF DeliverPanic
  <2> QED BY <2>2, <2>5, <2>7, <2>8
<1>2. RPCInv /\ [Next]_vars =>
        [crashed' # crashed =>
           \E m \in packets : /\ m.answers /\ m.type = "FIND_CONTACT"
                              /\ call[m.tx].from = m.to /\ call[m.tx].pc = "returned"
                              /\ crashed' = crashed \cup {m.to}]_vars
  BY <1>1
<1> QED BY <1>2, RPCInvariant, PTL DEF Spec

-----------------------------------------------------------------------------
(* What reaches a channel.                                                 *)

LEMMA ChannelsStep ==
  ASSUME NoSelfCalls, RPCInv, ChannelsGenuine, [Next]_vars
  PROVE  ChannelsGenuine'
<1> USE DEF RPCInv
<1>1. ASSUME NEW m \in senders'
      PROVE  call'[m.tx].pc # "unused" /\ IsReply(m)'
  <2>1. CASE m \in senders
    <3>1. m \in PacketType /\ call[m.tx].pc # "unused" /\ IsReply(m)
      BY <2>1 DEF TypeOK, ChannelsGenuine
    <3> QED BY <3>1, GenuineKept
  <2>2. CASE m \notin senders
    <3>1. m \in packets /\ DeliverPending(m)
      BY <1>1, <2>2 DEF Next, vars, SendRPC, SendRPCFails, CallStep, ReceiveReply, Timeout, Cleanup,
           Deliver, DeliverPending, DeliverRequest, DeliverPanic, DeliverIgnored, Duplicate,
           SendToChannel, Close
    <3>2. m \in PacketType /\ m.tx \in Transactions /\ m.to \in Nodes
      BY <3>1 DEF TypeOK, PacketType
    <3>3. call[m.tx].pc # "unused" /\ (IsRequest(m) \/ IsReply(m))
      BY <3>1 DEF PacketsGenuine
    <3>4. call[m.tx].from = m.to
      BY <3>1, <3>2 DEF DeliverPending, PendingExact
    <3>5. call[m.tx].from # call[m.tx].to
      BY <3>2, <3>3 DEF CallsLinked, NoSelfCalls
    <3>6. IsReply(m)
      BY <3>3, <3>4, <3>5 DEF IsRequest
    <3> QED BY <3>2, <3>3, <3>6, GenuineKept
  <2> QED BY <2>1, <2>2
<1>2. ASSUME NEW tx \in Transactions, channel'[tx] # None
      PROVE  channel'[tx].tx = tx /\ call'[tx].pc # "unused" /\ IsReply(channel[tx])'
  <2>1. CASE channel'[tx] = channel[tx]
    <3>1. /\ channel[tx] \in PacketType /\ channel[tx].tx = tx /\ call[tx].pc # "unused"
          /\ IsReply(channel[tx])
      BY <1>2, <2>1 DEF TypeOK, ChannelsGenuine
    <3>2. PICK m \in PacketType : m = channel[tx]
      BY <3>1
    <3>3. IsReply(m)' /\ call'[tx].pc # "unused"
      BY <3>1, <3>2, GenuineKept
    <3> QED BY <2>1, <3>1, <3>2, <3>3 DEF IsReply
  <2>2. CASE channel'[tx] # channel[tx]
    <3>1. PICK m \in senders : SendToChannel(m)
      BY <1>2, <2>2 DEF Next, vars, SendRPC, SendRPCFails, CallStep, ReceiveReply, Timeout, Cleanup,
           Deliver, DeliverPending, DeliverRequest, DeliverPanic, DeliverIgnored, Duplicate, Close, TypeOK
    <3>2. m \in PacketType /\ call[m.tx].pc # "unused" /\ IsReply(m)
      BY DEF TypeOK, ChannelsGenuine
    <3>3. m.tx = tx /\ channel'[tx] = m
      BY <2>2, <3>1 DEF SendToChannel, TypeOK
    <3>4. IsReply(m)' /\ call'[tx].pc # "unused"
      BY <3>2, <3>3, GenuineKept
    <3> QED BY <3>3, <3>4 DEF IsReply
  <2> QED BY <2>1, <2>2
<1>3. ASSUME NEW tx \in Transactions, call'[tx].result = "reply"
      PROVE  tx \in served'
  <2>1. CASE call[tx].result = "reply"
    BY <2>1, ServedGrows DEF ChannelsGenuine
  <2>2. CASE call[tx].result # "reply"
    <3>1. ReceiveReply(tx)
      <4>1. ASSUME NEW t \in Transactions, NEW link \in Links, NEW type \in RequestTypes,
                   SendRPC(t, link[1], link[2], type) \/ SendRPCFails(t, link[1], link[2], type)
            PROVE  FALSE
        <5>1. call'[t].result \in {None, "error"} /\ \A u \in Transactions \ {t} : call'[u] = call[u]
          BY <4>1 DEF SendRPC, SendRPCFails, TypeOK
        <5> QED BY <1>3, <2>2, <5>1, RPCAssumption
      <4>2. ASSUME NEW t \in Transactions, Timeout(t) \/ Cleanup(t)
            PROVE  FALSE
        <5>1. call'[t].result \in {call[t].result, "timeout"} /\ \A u \in Transactions \ {t} : call'[u] = call[u]
          BY <4>2 DEF Timeout, Cleanup, TypeOK
        <5> QED BY <1>3, <2>2, <5>1
      <4>3. ASSUME NEW t \in Transactions, ReceiveReply(t)
            PROVE  t = tx
        BY <1>3, <2>2, <4>3 DEF ReceiveReply, TypeOK
      <4>4. ASSUME NEW m, Deliver(m) \/ Duplicate(m) \/ SendToChannel(m) PROVE FALSE
        BY <1>3, <2>2, <4>4 DEF Deliver, DeliverPending, DeliverRequest, DeliverPanic, DeliverIgnored,
             Duplicate, SendToChannel
      <4>5. ASSUME NEW n, Close(n) PROVE FALSE
        BY <1>3, <2>2, <4>5 DEF Close
      <4>6. ~UNCHANGED vars
        BY <1>3, <2>2 DEF vars
      <4> QED BY <4>1, <4>2, <4>3, <4>4, <4>5, <4>6 DEF Next, CallStep
    <3>2. channel[tx] # None
      BY <3>1 DEF ReceiveReply
    <3>3. tx \in served
      BY <3>2 DEF ChannelsGenuine, IsReply
    <3> QED BY <3>3, ServedGrows
  <2> QED BY <2>1, <2>2
<1> QED BY <1>1, <1>2, <1>3 DEF ChannelsGenuine, IsReply

(***************************************************************************)
(* A call that returns a reply was served by the node it was sent to, and  *)
(* what is in its channel is that node's reply to its type of request: for *)
(* any number of calls at once, and whatever is lost, late or duplicated.  *)
(* (No node calls itself: lookups leave the node itself out.)              *)
(***************************************************************************)
THEOREM RepliesAreServed ==
  ASSUME NoSelfCalls
  PROVE  Spec => []ReplyMeansServed
<1>1. Init => ChannelsGenuine
  BY RPCAssumption DEF Init, ChannelsGenuine, UnusedCall
<1>2. RPCInv /\ ChannelsGenuine /\ [Next]_vars => ChannelsGenuine'
  BY ChannelsStep
<1>3. ChannelsGenuine => ReplyMeansServed
  BY DEF ChannelsGenuine, ReplyMeansServed, IsReply
<1> QED BY <1>1, <1>2, <1>3, RPCInvariant, PTL DEF Spec

=============================================================================
