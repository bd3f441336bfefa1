----------------------------- MODULE Connection -----------------------------
(***************************************************************************)
(* Making, opening and closing channels (connect.c, cntrl_msg.c).  Each    *)
(* node has a control task that takes the messages of its control endpoint *)
(* in order; the application's calls run in between.  A call and the       *)
(* handling of a message each hold the node's mutex and are one step; what *)
(* interleaves are the nodes, the tasks of a node and the messages on      *)
(* their way.                                                              *)
(***************************************************************************)
EXTENDS Integers, Sequences

CONSTANTS
  Nodes,
  Endpoints,
  Home,        \* the node of each endpoint
  NoEndpoint,  \* node 0, port 0: what a zeroed entry names as its peer
  NodeZero,    \* the node numbered 0
  Types,       \* MCAPI_CHAN_PKT_TYPE, MCAPI_CHAN_SCAL_TYPE
  NoType,      \* a zeroed mcapi_chan_type
  Calls,       \* the calls of mcapi_connect the applications make
  CallOf,      \* [node, tx, rx, type] of each of them
  OpenAs,      \* [ep, side, type] of the opens the applications make
  Datagrams,   \* [from, to] of the messages sent with mcapi_msg_send
  Closers,     \* the endpoints whose applications close, cancel and delete
  MaxOpens,    \* bound: opens of each endpoint
  MaxMishaps   \* bound: opens cancelled, endpoints deleted and control
               \* messages that cannot be sent

Sides == {"TX", "RX"}

ASSUME ConnectionAssumption ==
  /\ Home \in [Endpoints -> Nodes] /\ NodeZero \in Nodes
  /\ NoEndpoint \notin Endpoints /\ NoType \notin Types
  /\ CallOf \in [Calls -> [node : Nodes, tx : Endpoints, rx : Endpoints,
                           type : Types]]
  /\ OpenAs \subseteq [ep : Endpoints, side : Sides, type : Types]
  /\ Datagrams \subseteq [from : Endpoints, to : Endpoints]
  /\ Closers \subseteq Endpoints
  /\ MaxOpens \in [Endpoints -> Nat] /\ MaxMishaps \in Nat

VARIABLES
  flags,     \* mcapi_state of each endpoint, as a set of MCAPI_ENDP_ bits
  chanType,  \* mcapi_chan_type
  foreign,   \* mcapi_foreign_node_id, mcapi_foreign_port_id
  control,   \* the messages on their way to each node's control task
  opening,   \* the last open call of each endpoint, pending or answered
  connect,   \* each call of mcapi_connect
  early,     \* whether a sender was closed before its handshake was over
  stray,     \* whether a FIN ended something else than its own channel
  opens, mishaps   \* how much of the bounds is used up

entries  == <<flags, chanType, foreign>>
requests == <<opening, connect>>
vars     == <<entries, control, requests, early, stray, opens, mishaps>>

Init ==
  /\ flags = [e \in Endpoints |-> {"OPEN"}]
  /\ chanType = [e \in Endpoints |-> NoType]
  /\ foreign = [e \in Endpoints |-> NoEndpoint]
  /\ control = [n \in Nodes |-> <<>>]
  /\ opening = [e \in Endpoints |-> "idle"]
  /\ connect = [c \in Calls |-> "idle"]
  /\ early = FALSE /\ stray = FALSE
  /\ opens = [e \in Endpoints |-> 0]
  /\ mishaps = 0

-----------------------------------------------------------------------------
(* Control messages.                                                       *)

NodeOf(e) == IF e = NoEndpoint THEN NodeZero ELSE Home[e]
Peer(side) == IF side = "TX" THEN "RX" ELSE "TX"
OpenKind(side) == IF side = "TX" THEN "OPEN_TX" ELSE "OPEN_RX"
AckKind(side)  == IF side = "TX" THEN "OPEN_TX_ACK" ELSE "OPEN_RX_ACK"
Acked(side)    == IF side = "TX" THEN "TX_ACKED" ELSE "RX_ACKED"
ConnectingAs(side) == IF side = "TX" THEN "CONNECTING_TX" ELSE "CONNECTING_RX"
EndOf(m, side) == IF side = "TX" THEN m.tx ELSE m.rx

Message(kind, tx, rx, type, req, ok) ==
  [kind |-> kind, tx |-> tx, rx |-> rx, type |-> type, req |-> req, ok |-> ok]

\* mcapi_tx_open: the end of the channel that opens names both ends.
OpenMessage(e, side, peer, type) ==
  Message(OpenKind(side), IF side = "TX" THEN e ELSE peer,
          IF side = "TX" THEN peer ELSE e, type, NodeOf(e), TRUE)

\* mcapi_tx_fin_msg: only the receiver's port decides what it closes.
Fin(e) == Message("CONNECT_FIN", e, foreign[e], NoType, NodeOf(e), TRUE)

\* send_connect_response and the acknowledgements send a message back with
\* another type and status.
Reply(m, kind, ok) == [m EXCEPT !.kind = kind, !.ok = ok]

\* msg_send on the control endpoint: the message joins the queue of the node,
\* or the driver has no buffer for it or no room in the ring.
Post(q, n, m, sent) == IF sent THEN [q EXCEPT ![n] = Append(@, m)] ELSE q
Lose(sent) == IF sent THEN 0 ELSE 1
Spend(k) == mishaps + k <= MaxMishaps /\ mishaps' = mishaps + k

Arrived(n, kind) == control[n] # <<>> /\ Head(control[n]).kind = kind
Taken(n) == [control EXCEPT ![n] = Tail(@)]
Exists(e) == e \in Endpoints /\ "OPEN" \in flags[e]

\* (mutant) any endpoint will do
FreeAlways(e) == Exists(e)

\* The endpoint can be given to a new channel.
Free(e) == Exists(e) /\ "CONNECTING" \notin flags[e]

\* (mutant) only an open call made after the connection is told to the peer
OpenedLater(e, side) == FALSE

\* The application has opened this end.
HasOpened(e, side) == Exists(e) /\ side \in flags[e]

\* (mutant) only a success is reported
AnswerSuccess(q, m, ok, sent) ==
  IF ok THEN Post(q, m.req, Reply(m, "CONNECT_RESPONSE", ok), sent) ELSE q

\* send_connect_response: the caller of mcapi_connect learns the outcome.
Answer(q, m, ok, sent) == Post(q, m.req, Reply(m, "CONNECT_RESPONSE", ok), sent)

\* (mutant) only calls of mcapi_connect are woken
ResumeConnects(e, result) ==
  /\ UNCHANGED opening
  /\ connect' = [c \in Calls |->
       IF /\ connect[c] = "pending" /\ CallOf[c].tx = e
          /\ CallOf[c].node = Home[e]
       THEN result ELSE connect[c]]

\* mcapi_check_resume for MCAPI_REQ_TX_OPEN, _RX_OPEN, _CLOSED and _DELETED
\* wakes every request of the node whose target is the endpoint: the open
\* call, and the calls of mcapi_connect that name it as their send endpoint.
Resume(e, result) ==
  /\ opening' = [opening EXCEPT ![e] = IF @ = "pending" THEN result ELSE @]
  /\ connect' = [c \in Calls |->
       IF /\ connect[c] = "pending" /\ CallOf[c].tx = e
          /\ CallOf[c].node = Home[e]
       THEN result ELSE connect[c]]

-----------------------------------------------------------------------------
(* The application's calls.                                                *)

\* mcapi_connect's checks of an endpoint on the caller's node.
MayConnect(n, e, type) ==
  Home[e] = n => /\ Exists(e)
                 /\ "CONNECTING" \notin flags[e]
                 /\ chanType[e] \in {NoType, type}

Connect(c) ==
  LET k == CallOf[c] IN
  /\ connect[c] = "idle"
  /\ \/ /\ MayConnect(k.node, k.tx, k.type) /\ MayConnect(k.node, k.rx, k.type)
        /\ \E sent \in BOOLEAN :
             /\ Spend(Lose(sent))
             /\ control' = Post(control, Home[k.tx],
                                Message("CONNECT_REQUEST", k.tx, k.rx, k.type,
                                        k.node, TRUE), sent)
             /\ connect' = [connect EXCEPT ![c] = IF sent THEN "pending"
                                                  ELSE "failed"]
     \/ /\ ~(MayConnect(k.node, k.tx, k.type) /\ MayConnect(k.node, k.rx, k.type))
        /\ connect' = [connect EXCEPT ![c] = "failed"]
        /\ UNCHANGED <<control, mishaps>>
  /\ UNCHANGED <<entries, opening, early, stray, opens>>

\* mcapi_open.  Once a connection is in the making the other end is told at
\* once, otherwise when it is made.
Open(e, side, type) ==
  /\ Exists(e)
  /\ opens[e] < MaxOpens[e]
  /\ flags[e] \cap {"CONNECTED", "TX", "RX"} = {}
  /\ \E sent \in BOOLEAN :
       /\ \/ /\ "CONNECTING" \in flags[e]
             /\ chanType[e] = type
             /\ ConnectingAs(Peer(side)) \notin flags[e]
             /\ Spend(Lose(sent))
             /\ control' = Post(control, NodeOf(foreign[e]),
                                OpenMessage(e, side, foreign[e], type), sent)
             /\ UNCHANGED chanType
          \/ /\ "CONNECTING" \notin flags[e]
             /\ sent
             /\ chanType' = [chanType EXCEPT ![e] = type]
             /\ UNCHANGED <<control, mishaps>>
       /\ flags' = [flags EXCEPT ![e] = IF sent THEN @ \cup {side} ELSE @]
       /\ opening' = [opening EXCEPT ![e] = IF sent THEN "pending" ELSE "failed"]
  /\ opens' = [opens EXCEPT ![e] = @ + 1]
  /\ UNCHANGED <<foreign, connect, early, stray>>

\* The handshake of sender e is under way.
InHandshake(e) ==
  \E n \in Nodes : \E i \in 1 .. Len(control[n]) :
    control[n][i].tx = e /\ control[n][i].kind \in {"CONNECT_SYN", "CONNECT_ACK"}

\* (mutant) the other side is not told
SendNoFin(e, cost) == Spend(cost) /\ UNCHANGED control

\* (mutant) the FIN overtakes what is on its way
SendFinFirst(e, cost) ==
  /\ Spend(cost)
  /\ control' = IF "CONNECTING" \in flags[e]
                THEN [control EXCEPT ![NodeOf(foreign[e])] = <<Fin(e)>> \o @]
                ELSE control

\* The other side of a connection is told that this one goes away.
SendFin(e, cost) ==
  IF "CONNECTING" \in flags[e]
  THEN \E sent \in BOOLEAN :
         /\ Spend(cost + Lose(sent))
         /\ control' = Post(control, NodeOf(foreign[e]), Fin(e), sent)
  ELSE Spend(cost) /\ UNCHANGED control

\* mcapi_close of the side that was opened, by a call for its type of channel.
Close(e, side, type) ==
  /\ Exists(e)
  /\ chanType[e] = type
  /\ side \in flags[e]
  /\ SendFin(e, 0)
  /\ flags' = [flags EXCEPT ![e] = {"OPEN", "DISCONNECTED"}]
  /\ chanType' = [chanType EXCEPT ![e] = NoType]
  /\ Resume(e, "failed")
  /\ early' = (early \/ ("CONNECTING" \in flags[e] /\ InHandshake(e)))
  /\ UNCHANGED <<foreign, stray, opens>>

\* mcapi_cancel of a pending open.
Cancel(e) ==
  /\ opening[e] = "pending"
  /\ Spend(1)
  /\ opening' = [opening EXCEPT ![e] = "cancelled"]
  /\ flags' = [flags EXCEPT ![e] = {"OPEN", "DISCONNECTED"}]
  /\ chanType' = [chanType EXCEPT ![e] = NoType]
  /\ UNCHANGED <<foreign, control, connect, early, stray, opens>>

\* mcapi_cancel of a pending connect: every call on the node that named the
\* same send endpoint looks like this one.
CancelConnect(c) ==
  LET k == CallOf[c] IN
  /\ connect[c] = "pending"
  /\ connect' = [d \in Calls |->
       IF connect[d] = "pending" /\ CallOf[d].node = k.node /\ CallOf[d].tx = k.tx
       THEN "cancelled" ELSE connect[d]]
  /\ UNCHANGED <<entries, control, opening, early, stray, opens, mishaps>>

\* mcapi_delete_endpoint.
Delete(e) ==
  /\ Exists(e)
  /\ flags[e] \cap Sides = {}
  /\ SendFin(e, 1)
  /\ flags' = [flags EXCEPT ![e] = {}]
  /\ Resume(e, "failed")
  /\ UNCHANGED <<chanType, foreign, early, stray, opens>>

\* create_endpoint for the port of a deleted endpoint: the entry is zeroed.
Create(e) ==
  /\ ~Exists(e)
  /\ flags' = [flags EXCEPT ![e] = {"OPEN"}]
  /\ chanType' = [chanType EXCEPT ![e] = NoType]
  /\ foreign' = [foreign EXCEPT ![e] = NoEndpoint]
  /\ UNCHANGED <<control, requests, early, stray, opens, mishaps>>

\* mcapi_msg_send between unconnected endpoints leaves its destination in the
\* sender's entry.
SendDatagram(d) ==
  /\ Exists(d.from)
  /\ "CONNECTING" \notin flags[d.from]
  /\ foreign' = [foreign EXCEPT ![d.from] = d.to]
  /\ UNCHANGED <<flags, chanType, control, requests, early, stray, opens, mishaps>>

-----------------------------------------------------------------------------
(* The control task: mcapi_process_ctrl_msg.                               *)

\* mcapi_connect_endpoints: the send endpoint is taken, the receiving end is
\* asked.  A refusal, or a SYN that cannot be sent, is reported to the caller.
HandleConnectRequest(n) ==
  /\ Arrived(n, "CONNECT_REQUEST")
  /\ LET m == Head(control[n])
         e == m.tx
     IN \E syn, answer \in BOOLEAN :
          LET refused == ~Free(e) \/ ~syn IN
          /\ ~Free(e) => ~syn
          /\ ~refused => answer
          /\ Spend((IF Free(e) THEN Lose(syn) ELSE 0) + Lose(answer))
          /\ control' =
               IF refused
               THEN Answer(Taken(n), m, FALSE, answer)
               ELSE Post(Taken(n), NodeOf(m.rx), Reply(m, "CONNECT_SYN", TRUE), TRUE)
          /\ flags' = IF Free(e)
                      THEN [flags EXCEPT ![e] =
                              (@ \cup {"CONNECTING"}) \ {"DISCONNECTED"}]
                      ELSE flags
  /\ UNCHANGED <<chanType, foreign, requests, early, stray, opens>>

\* (mutant) the fields are mixed up
SetUpMixed(e, side, peer, type) ==
  /\ flags' = [flags EXCEPT ![e] = (@ \cup {"CONNECTING", ConnectingAs(side)})
                                      \ {"DISCONNECTED"}]
  /\ foreign' = [foreign EXCEPT ![e] = type]
  /\ chanType' = [chanType EXCEPT ![e] = peer]

\* mcapi_setup_connection for one end of the channel.
SetUp(e, side, peer, type) ==
  /\ flags' = [flags EXCEPT ![e] = (@ \cup {"CONNECTING", ConnectingAs(side)})
                                      \ {"DISCONNECTED"}]
  /\ foreign' = [foreign EXCEPT ![e] = peer]
  /\ chanType' = [chanType EXCEPT ![e] = type]

\* MCAPI_CONNECT_SYN at the receive side.  Once the ACK is sent, an endpoint
\* that is open tells its peer, even if it has just refused.
HandleConnectSyn(n) ==
  /\ Arrived(n, "CONNECT_SYN")
  /\ LET m == Head(control[n])
         e == m.rx
     IN \E ack, open \in BOOLEAN :
          LET tell == ack /\ HasOpened(e, "RX")
              acked == Post(Taken(n), NodeOf(m.tx),
                            Reply(m, "CONNECT_ACK", Free(e)), ack)
          IN
          /\ ~tell => open
          /\ Spend(Lose(ack) + Lose(open))
          /\ \/ Free(e) /\ SetUp(e, "RX", m.tx, m.type)
             \/ ~Free(e) /\ UNCHANGED entries
          /\ control' = IF tell
                        THEN Post(acked, NodeOf(foreign'[e]),
                                  OpenMessage(e, "RX", foreign'[e], m.type), open)
                        ELSE acked
  /\ UNCHANGED <<requests, early, stray, opens>>

\* MCAPI_CONNECT_ACK at the send side: the channel is made or given up, and
\* the caller of mcapi_connect learns about it.
HandleConnectAck(n) ==
  /\ Arrived(n, "CONNECT_ACK")
  /\ LET m == Head(control[n])
         e == m.tx
         made == Exists(e) /\ m.ok
         tell == made /\ HasOpened(e, "TX")
     IN \E open, answer \in BOOLEAN :
          LET told == IF tell
                      THEN Post(Taken(n), NodeOf(m.rx),
                                OpenMessage(e, "TX", m.rx, m.type), open)
                      ELSE Taken(n)
          IN
          /\ ~tell => open
          /\ Spend(Lose(open) + Lose(answer))
          /\ control' = Answer(told, m, m.ok /\ open, answer)
          /\ \/ made /\ SetUp(e, "TX", m.rx, m.type)
             \/ /\ ~made
                /\ flags' = IF Exists(e)
                            THEN [flags EXCEPT ![e] = @ \ {"CONNECTING"}]
                            ELSE flags
                /\ UNCHANGED <<chanType, foreign>>
  /\ UNCHANGED <<requests, early, stray, opens>>

\* (mutant) one acknowledgement is enough
OneAcked(e, side) == Exists(e)

\* The other side has been acknowledged already.
OtherAcked(e, side) == Acked(Peer(side)) \in flags[e]

\* Endpoint e learns that one side is open; with both it is connected, and its
\* own open call returns.
Acknowledge(e, side) ==
  /\ flags' = [flags EXCEPT ![e] =
                 @ \cup {Acked(side)}
                   \cup (IF OtherAcked(e, side) THEN {"CONNECTED"} ELSE {})]
  /\ IF OtherAcked(e, side) THEN Resume(e, "ok") ELSE UNCHANGED requests

\* MCAPI_OPEN_TX and MCAPI_OPEN_RX: one side has been opened, its peer takes
\* note and confirms.
HandleOpen(n, side) ==
  /\ Arrived(n, OpenKind(side))
  /\ LET m == Head(control[n])
         e == EndOf(m, Peer(side))
     IN /\ \/ Exists(e) /\ Acknowledge(e, side)
           \/ ~Exists(e) /\ UNCHANGED <<flags, requests>>
        /\ \E sent \in BOOLEAN :
             /\ Spend(Lose(sent))
             /\ control' = Post(Taken(n), NodeOf(EndOf(m, side)),
                                Reply(m, AckKind(side), Exists(e)), sent)
  /\ UNCHANGED <<chanType, foreign, early, stray, opens>>

\* MCAPI_OPEN_TX_ACK and MCAPI_OPEN_RX_ACK at the side that opened.
HandleOpenAck(n, side) ==
  /\ Arrived(n, AckKind(side))
  /\ control' = Taken(n)
  /\ LET m == Head(control[n])
         e == EndOf(m, side)
     IN \/ Exists(e) /\ m.ok /\ Acknowledge(e, side)
        \/ /\ Exists(e) /\ ~m.ok
           /\ flags' = [flags EXCEPT ![e] = @ \ {side}]
           /\ Resume(e, "failed")
        \/ ~Exists(e) /\ UNCHANGED <<flags, requests>>
  /\ UNCHANGED <<chanType, foreign, early, stray, opens, mishaps>>

\* MCAPI_CONNECT_RESPONSE wakes the calls of mcapi_connect that named the send
\* endpoint.
HandleConnectResponse(n) ==
  /\ Arrived(n, "CONNECT_RESPONSE")
  /\ control' = Taken(n)
  /\ LET m == Head(control[n]) IN
     connect' = [c \in Calls |->
       IF connect[c] = "pending" /\ CallOf[c].node = n /\ CallOf[c].tx = m.tx
       THEN IF m.ok THEN "ok" ELSE "failed"
       ELSE connect[c]]
  /\ UNCHANGED <<entries, opening, early, stray, opens, mishaps>>

\* The FIN ends a channel with another peer, or a handshake its sender knows nothing of.
Stray(m) ==
  "CONNECTING" \in flags[m.rx] /\ (m.tx # foreign[m.rx] \/ InHandshake(m.rx))

\* MCAPI_CONNECT_FIN: the endpoint it names is no longer connected.
HandleFin(n) ==
  /\ Arrived(n, "CONNECT_FIN")
  /\ control' = Taken(n)
  /\ LET m == Head(control[n])
         e == m.rx
     IN \/ /\ Exists(e)
           /\ flags' = [flags EXCEPT ![e] = @ \ {"CONNECTED", "CONNECTING"}]
           /\ Resume(e, "failed")
           /\ stray' = (stray \/ Stray(m))
        \/ ~Exists(e) /\ UNCHANGED <<flags, requests, stray>>
  /\ UNCHANGED <<chanType, foreign, early, opens, mishaps>>

ControlTask(n) ==
  \/ HandleConnectRequest(n) \/ HandleConnectSyn(n) \/ HandleConnectAck(n)
  \/ \E side \in Sides : HandleOpen(n, side) \/ HandleOpenAck(n, side)
  \/ HandleConnectResponse(n) \/ HandleFin(n)

Next ==
  \/ \E c \in Calls : Connect(c)
  \/ \E o \in OpenAs : Open(o.ep, o.side, o.type)
  \/ \E e \in Closers, side \in Sides, type \in Types : Close(e, side, type)
  \/ \E e \in Closers : Cancel(e) \/ Delete(e) \/ Create(e)
  \/ \E c \in Calls : CallOf[c].tx \in Closers /\ CancelConnect(c)
  \/ \E d \in Datagrams : SendDatagram(d)
  \/ \E n \in Nodes : ControlTask(n)

Spec == Init /\ [][Next]_vars
FairSpec == Spec /\ \A n \in Nodes : WF_vars(ControlTask(n))

-----------------------------------------------------------------------------
(* Properties.                                                             *)

Bits == {"OPEN", "DISCONNECTED", "CONNECTING", "CONNECTED", "TX", "RX",
         "TX_ACKED", "RX_ACKED", "CONNECTING_TX", "CONNECTING_RX"}
Kinds == {"CONNECT_REQUEST", "CONNECT_SYN", "CONNECT_ACK", "OPEN_TX", "OPEN_RX",
          "OPEN_TX_ACK", "OPEN_RX_ACK", "CONNECT_RESPONSE", "CONNECT_FIN"}
Peers == Endpoints \cup {NoEndpoint}
Messages == [kind : Kinds, tx : Peers, rx : Peers, type : Types \cup {NoType},
             req : Nodes, ok : BOOLEAN]
Results == {"idle", "pending", "ok", "failed", "cancelled"}

TypeOK ==
  /\ flags \in [Endpoints -> SUBSET Bits]
  /\ chanType \in [Endpoints -> Types \cup {NoType}]
  /\ foreign \in [Endpoints -> Peers]
  /\ control \in [Nodes -> Seq(Messages)]
  /\ opening \in [Endpoints -> Results]
  /\ connect \in [Calls -> Results]
  /\ \A e \in Endpoints : opens[e] \in 0 .. MaxOpens[e]
  /\ mishaps \in 0 .. MaxMishaps /\ early \in BOOLEAN /\ stray \in BOOLEAN

IsConnected(e) == "CONNECTED" \in flags[e]

\* A connected endpoint and its peer name each other, one as the sender and
\* the other as the receiver of a channel of the same type.
Paired ==
  \A e \in Endpoints : IsConnected(e) =>
    LET f == foreign[e] IN
    /\ f \in Endpoints /\ foreign[f] = e /\ chanType[f] = chanType[e]
    /\ \E side \in Sides : /\ ConnectingAs(side) \in flags[e]
                           /\ ConnectingAs(Peer(side)) \in flags[f]

\* An endpoint is connected only once both ends of its channel were opened.
BothOpen ==
  \A e \in Endpoints : IsConnected(e) =>
    \E side \in Sides : side \in flags[e] /\ Peer(side) \in flags[foreign[e]]

\* Nobody still waits for an endpoint to open that is connected, or whose open
\* was taken back.
OpenWaitsForPeer ==
  \A e \in Endpoints : opening[e] = "pending" =>
    flags[e] \cap Sides # {} /\ ~IsConnected(e)

\* A call of mcapi_connect that succeeded has connected the endpoints it named.
AnswersTruthful ==
  \A c \in Calls : connect[c] = "ok" => foreign[CallOf[c].tx] = CallOf[c].rx

\* A pending call of mcapi_connect is on its way: some control message about
\* its send endpoint will bring an answer to its node.
AnswerUnderWay ==
  mishaps = 0 => \A c \in Calls : connect[c] = "pending" =>
    \E n \in Nodes : \E i \in 1 .. Len(control[n]) :
      LET m == control[n][i] IN
      /\ m.tx = CallOf[c].tx /\ m.req = CallOf[c].node
      /\ m.kind \in {"CONNECT_REQUEST", "CONNECT_SYN", "CONNECT_ACK",
                     "CONNECT_RESPONSE"}

\* Every call of mcapi_connect is answered.
ConnectAnswered ==
  \A c \in Calls : connect[c] = "pending" ~> connect[c] # "pending"

\* Once mcapi_connect has succeeded and both ends are opened, in any order,
\* both open calls succeed.
ChannelCompletes ==
  \A c \in Calls :
    LET k == CallOf[c] IN
    connect[c] = "ok" /\ "TX" \in flags[k.tx] /\ "RX" \in flags[k.rx]
      ~> opening[k.tx] = "ok" /\ opening[k.rx] = "ok"

Quiet == \A n \in Nodes : control[n] = <<>>

\* When no control message is under way the ends of a connection agree on it,
\* however connecting, opening and closing interleaved, except where a message
\* was lost, an open cancelled, an endpoint deleted, a sender closed before its
\* handshake was over, or a FIN ended what it was not sent for.
EndsAgree ==
  Quiet /\ mishaps = 0 /\ ~early /\ ~stray =>
    \A e \in Endpoints : "CONNECTING" \in flags[e] =>
      LET f == foreign[e] IN
      f \in Endpoints /\ foreign[f] = e /\ "CONNECTING" \in flags[f]

\* A connection is ended by a FIN of the endpoint it leads to: "the other side
\* has shutdown the read/write side" (cntrl_msg.c:674).
FinFromPeer ==
  [][\A n \in Nodes : HandleFin(n) /\ flags' # flags =>
       LET m == Head(control[n]) IN m.tx = foreign[m.rx]]_vars
=============================================================================
