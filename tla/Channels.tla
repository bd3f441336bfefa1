------------------------------ MODULE Channels ------------------------------
(***************************************************************************)
(* Data on the channels that module Connection makes (pkt_snd.c,           *)
(* scal_snd.c, pkt_rcv.c, mcapi_rx_data).  Packets, scalars and control    *)
(* messages travel to a node through one ring: endpoints and the control   *)
(* endpoint send with the same default priority.  The receive thread sorts *)
(* them into the queues of the endpoints, the control task works off the   *)
(* queue of the control endpoint later.                                    *)
(***************************************************************************)
EXTENDS Connection, SequencesExt

CONSTANTS
  Packet, Scalar,  \* the two types of channels
  Deleters,        \* the endpoints whose applications cancel and delete
  MaxData          \* bound: packets and scalars of each sender and one open

ASSUME ChannelsAssumption ==
  /\ Types = {Packet, Scalar} /\ Deleters \subseteq Endpoints
  /\ MaxData \in [Endpoints -> Nat]

VARIABLES
  queue,   \* mcapi_rx_queue of each endpoint
  sent,    \* packets and scalars sent since the endpoint was opened
  taken,   \* packets and scalars received since it was opened
  cut,     \* receivers that left a channel before they had the sender's FIN
  reused   \* receivers given a new channel before they closed the last one

data == <<queue, sent, taken, cut, reused>>
allvars == <<vars, data>>

ChannelsInit ==
  /\ Init
  /\ queue = [e \in Endpoints |-> <<>>]
  /\ sent = [e \in Endpoints |-> 0]
  /\ taken = [e \in Endpoints |-> 0]
  /\ cut = {} /\ reused = {}

-----------------------------------------------------------------------------
(* Sending.                                                                *)

\* The checks of the send handle.
Sends(e, type) ==
  /\ Exists(e)
  /\ {"TX", "CONNECTED"} \subseteq flags[e]
  /\ chanType[e] = type

\* A packet is addressed to the endpoint the connection leads to; its number
\* and its channel's type stand for its contents.
Datum(e) == [kind |-> "DATA", tx |-> e, rx |-> foreign[e],
             type |-> chanType[e], number |-> sent[e] + 1]

\* Without a buffer or room in the ring the call fails and leaves no trace.
Transmit(e) ==
  /\ sent[e] < MaxData[e]
  /\ control' = Post(control, NodeOf(foreign[e]), Datum(e), TRUE)
  /\ sent' = [sent EXCEPT ![e] = @ + 1]
  /\ UNCHANGED <<entries, requests, early, stray, opens, mishaps, queue, taken, cut, reused>>

SendPacket(e) == Sends(e, Packet) /\ Transmit(e)
SendScalar(e) == Sends(e, Scalar) /\ Transmit(e)

-----------------------------------------------------------------------------
(* Receiving.                                                              *)

\* (mutant) data is accepted only over a connection
AcceptsConnected(e) == Exists(e) /\ "CONNECTED" \in flags[e]

\* mcapi_find_local_endpoint is all that is asked of an incoming packet.
Accepts(e) == Exists(e)

IsData(m) == m.kind = "DATA"

\* mcapi_rx_data.  The control messages before the packet go to the queue of
\* the control endpoint, where the control task finds them later.
Deliver(n) ==
  /\ \E i \in 1 .. Len(control[n]) :
       LET m == control[n][i] IN
       /\ IsData(m)
       /\ \A j \in 1 .. i - 1 : ~IsData(control[n][j])
       /\ control' = [control EXCEPT ![n] = RemoveAt(@, i)]
       /\ queue' = IF Accepts(m.rx)
                   THEN [queue EXCEPT ![m.rx] = Append(@, m)] ELSE queue
  /\ UNCHANGED <<entries, requests, early, stray, opens, mishaps,
                sent, taken, cut, reused>>

\* What a receive finds in the queue it takes, connected or not.
Take(e, type) ==
  /\ Exists(e)
  /\ "RX" \in flags[e]
  /\ chanType[e] = type
  /\ queue[e] # <<>>
  /\ queue' = [queue EXCEPT ![e] = Tail(@)]
  /\ taken' = [taken EXCEPT ![e] = @ + 1]
  /\ UNCHANGED <<vars, sent, cut, reused>>

ReceivePacket(e) == Take(e, Packet)
ReceiveScalar(e) == Take(e, Scalar)

-----------------------------------------------------------------------------
(* What opening and closing do to data.                                    *)

\* Buffers of the queue are given back.
Drain(e) == queue' = [queue EXCEPT ![e] = <<>>]

\* A receiver leaves a channel whose sender may still be sending.
Leave(e) ==
  cut' = IF "CONNECTING" \in flags[e] THEN cut \cup {e} ELSE cut

OpenChannel(e, side, type) ==
  /\ Open(e, side, type)
  /\ sent' = [sent EXCEPT ![e] = 0]
  /\ taken' = [taken EXCEPT ![e] = 0]
  /\ UNCHANGED <<queue, cut, reused>>

CloseSend(e, type) == Close(e, "TX", type) /\ UNCHANGED data

CloseReceive(e, type) ==
  /\ Close(e, "RX", type)
  /\ Drain(e) /\ Leave(e)
  /\ UNCHANGED <<sent, taken, reused>>

CancelOpen(e) == Cancel(e) /\ Leave(e) /\ UNCHANGED <<queue, sent, taken, reused>>

DeleteEndpoint(e) ==
  Delete(e) /\ Drain(e) /\ Leave(e) /\ UNCHANGED <<sent, taken, reused>>

\* The open of the receive side has succeeded.
Opened(e) == "RX" \in flags[e] /\ opening[e] = "ok"

\* The control task does not look at data.  A SYN is accepted as soon as the
\* last channel's FIN is there, also while the endpoint is open.
Control(n) ==
  /\ ControlTask(n)
  /\ reused' = reused \cup
       {e \in Endpoints : Opened(e) /\ "CONNECTING" \in flags'[e] \ flags[e]}
  /\ UNCHANGED <<queue, sent, taken, cut>>

ChannelsNext ==
  \/ \E c \in Calls : Connect(c) /\ UNCHANGED data
  \/ \E o \in OpenAs : OpenChannel(o.ep, o.side, o.type)
  \/ \E e \in Closers, type \in Types : CloseSend(e, type) \/ CloseReceive(e, type)
  \/ \E e \in Deleters :
       CancelOpen(e) \/ DeleteEndpoint(e) \/ (Create(e) /\ UNCHANGED data)
  \/ \E n \in Nodes : Control(n)
  \/ \E e \in Endpoints : SendPacket(e) \/ SendScalar(e)
  \/ \E n \in Nodes : Deliver(n)
  \/ \E e \in Endpoints : ReceivePacket(e) \/ ReceiveScalar(e)

ChannelsSpec == ChannelsInit /\ [][ChannelsNext]_allvars

-----------------------------------------------------------------------------
(* Properties.                                                             *)

\* The data for e that has not reached its queue.
UnderWay(e) == SelectSeq(control[Home[e]], LAMBDA m : IsData(m) /\ m.rx = e)

\* The receiver e closed its channels in the documented order: its sender
\* first, and itself before the next channel is made.
Orderly(e) == Opened(e) /\ e \notin cut \cup reused /\ ~early

\* When a receiver finds its channel closed and its queue empty it has got
\* everything: pkt_rcv reports the end of the channel as soon as
\* MCAPI_ENDP_CONNECTED is cleared (pkt_rcv.c:150).
EndIsEnd ==
  \A e \in Endpoints :
    Orderly(e) /\ ~IsConnected(e) => UnderWay(e) = <<>>

\* A receiver gets what the sender it is connected to has sent, from the first
\* packet on, in order and without a gap, whatever channels of other senders
\* were made and closed before, and also what arrives before its own open has
\* returned.
StreamIntact ==
  \A e \in Endpoints : Orderly(e) =>
    LET coming == queue[e] \o UnderWay(e)
        f == foreign[e]
    IN
    /\ \A i \in DOMAIN coming :
         /\ coming[i].tx = f /\ coming[i].type = chanType[e]
         /\ coming[i].number = taken[e] + i
    /\ IsConnected(e) /\ IsConnected(f) => taken[e] + Len(coming) = sent[f]

\* "Pending packets at the receiver are not discarded until the receive side
\* is closed" (mcapi_pktchan_snd_close_i.c:45): what is in the queue of an
\* open receiver can be received with its handle.
PendingReadable ==
  \A e \in Endpoints : Opened(e) /\ e \notin cut /\ ~early =>
    \A i \in DOMAIN queue[e] : queue[e][i].type = chanType[e]
=============================================================================
