---------------------------- MODULE EndpointTable ----------------------------
(***************************************************************************)
(* The endpoint table of a node (endpoint.c, create_endpoint.c,            *)
(* mcapi_delete_endp.c): an array searched by open addressing, starting at *)
(* the port number modulo its size and probing linearly.  A deleted entry  *)
(* keeps its port number, and a search stops at the first entry with the   *)
(* number it looks for, open or not.  Every operation runs under the       *)
(* node's mutex and is one step.                                           *)
(***************************************************************************)
EXTENDS Integers, FiniteSets

CONSTANTS
  MaxEndpoints,  \* MCAPI_MAX_ENDPOINTS
  NumPorts,      \* port numbers are taken modulo this (2^16)
  FirstPort,     \* MCAPI_ENDP_PORT_INIT
  MaxQueued      \* bound: messages waiting at one endpoint

ASSUME TableAssumption ==
  /\ MaxEndpoints \in Nat \ {0}
  /\ NumPorts \in Nat /\ NumPorts > MaxEndpoints
  /\ FirstPort \in 0 .. NumPorts - 1
  /\ MaxQueued \in Nat

Slots  == 0 .. MaxEndpoints - 1
Ports  == 0 .. NumPorts - 1
NoSlot == -1

VARIABLES
  port,      \* mcapi_port_id of each entry
  state,     \* mcapi_state of each entry: closed, open, or open with its
             \* side of a channel open as well ("busy": MCAPI_ENDP_TX or _RX)
  queued,    \* length of mcapi_rx_queue of each entry
  inUse,     \* mcapi_endpoint_count
  nextPort,  \* MCAPI_Next_Port
  waiting    \* ports named by pending MCAPI_REQ_CREATED requests

vars == <<port, state, queued, inUse, nextPort, waiting>>

\* mcapi_init_node_data and mcapi_initialize: zeroed entries, all closed.
Init ==
  /\ port = [s \in Slots |-> 0]
  /\ state = [s \in Slots |-> "closed"]
  /\ queued = [s \in Slots |-> 0]
  /\ inUse = 0
  /\ nextPort = FirstPort
  /\ waiting = {}

-----------------------------------------------------------------------------
(* Searching.                                                              *)

Home(p) == p % MaxEndpoints

\* How many entries a search for p looks at before it comes to entry s.
Distance(p, s) == IF s >= Home(p) THEN s - Home(p)
                  ELSE s - Home(p) + MaxEndpoints

IsOpen(s) == state[s] # "closed"

\* Entry s is the first one on p's way that carries p's number.
StopsAt(p, s) ==
  /\ port[s] = p
  /\ \A t \in Slots : port[t] = p => Distance(p, s) <= Distance(p, t)

\* mcapi_find_endpoint: the entry the search stops at, if that one is open.
Find(p) ==
  IF \E s \in Slots : StopsAt(p, s) /\ IsOpen(s)
  THEN CHOOSE s \in Slots : StopsAt(p, s) /\ IsOpen(s)
  ELSE NoSlot

\* (mutant) any closed entry will do
AnyClosed(p, s) == ~IsOpen(s) /\ p \in Ports

\* The entry create_endpoint uses: the first closed one on p's way.
FirstClosed(p, s) ==
  /\ ~IsOpen(s)
  /\ \A t \in Slots : ~IsOpen(t) => Distance(p, s) <= Distance(p, t)

-----------------------------------------------------------------------------
(* Creating and deleting.                                                  *)

\* The entry is cleared and opened; whoever waits for the port is answered
\* (mcapi_check_foreign_resume, mcapi_check_resume).
Occupy(p, s) ==
  /\ FirstClosed(p, s)
  /\ port' = [port EXCEPT ![s] = p]
  /\ state' = [state EXCEPT ![s] = "open"]
  /\ queued' = [queued EXCEPT ![s] = 0]
  /\ inUse' = inUse + 1
  /\ waiting' = waiting \ {p}

\* create_endpoint for a port of the caller's choice.
CreateAt(p) ==
  /\ inUse < MaxEndpoints
  /\ Find(p) = NoSlot
  /\ \E s \in Slots : Occupy(p, s)
  /\ UNCHANGED nextPort

\* (mutant) MCAPI_Next_Port is wider than a port number
Unwrapped(n) == n

\* MCAPI_Next_Port is 16 bits wide.
Wrap(n) == n % NumPorts

\* create_endpoint for MCAPI_PORT_ANY: numbers are drawn from MCAPI_Next_Port,
\* which wraps, until one is free; k of them were taken.
CreateAny(k) ==
  LET drawn(i) == Wrap(nextPort + i) IN
  /\ inUse < MaxEndpoints
  /\ \A i \in 0 .. k - 1 : Find(drawn(i)) # NoSlot
  /\ Find(drawn(k)) = NoSlot
  /\ nextPort' = Wrap(nextPort + k + 1)
  /\ \E s \in Slots : Occupy(drawn(k), s)

\* (mutant) the count is left alone
DeleteKeepsCount(p) ==
  LET s == Find(p) IN
  /\ s # NoSlot
  /\ state[s] = "open"
  /\ state' = [state EXCEPT ![s] = "closed"]
  /\ queued' = [queued EXCEPT ![s] = 0]
  /\ UNCHANGED <<inUse, port, nextPort, waiting>>

\* (mutant) the whole entry is cleared
DeleteClearsPort(p) ==
  LET s == Find(p) IN
  /\ s # NoSlot
  /\ state[s] = "open"
  /\ inUse' = inUse - 1
  /\ state' = [state EXCEPT ![s] = "closed"]
  /\ queued' = [queued EXCEPT ![s] = 0]
  /\ port' = [port EXCEPT ![s] = 0]
  /\ UNCHANGED <<nextPort, waiting>>

\* mcapi_delete_endpoint: refused while a side of a channel is open.  The
\* number stays in the entry, the buffers go back to their interface.
Delete(p) ==
  LET s == Find(p) IN
  /\ s # NoSlot
  /\ state[s] = "open"
  /\ inUse' = inUse - 1
  /\ state' = [state EXCEPT ![s] = "closed"]
  /\ queued' = [queued EXCEPT ![s] = 0]
  /\ UNCHANGED <<port, nextPort, waiting>>

-----------------------------------------------------------------------------
(* The calls that look an endpoint up.                                     *)

\* mcapi_open and mcapi_close; closing a receive side drops what is queued.
OpenChannel(p) ==
  LET s == Find(p) IN
  /\ s # NoSlot
  /\ state[s] = "open"
  /\ state' = [state EXCEPT ![s] = "busy"]
  /\ UNCHANGED <<port, queued, inUse, nextPort, waiting>>

CloseChannel(p) ==
  LET s == Find(p) IN
  /\ s # NoSlot
  /\ state[s] = "busy"
  /\ state' = [state EXCEPT ![s] = "open"]
  /\ queued' \in {queued, [queued EXCEPT ![s] = 0]}
  /\ UNCHANGED <<port, inUse, nextPort, waiting>>

\* mcapi_rx_data: a packet joins the queue of the endpoint it names.
Arrive(p) ==
  LET s == Find(p) IN
  /\ s # NoSlot
  /\ queued[s] < MaxQueued
  /\ queued' = [queued EXCEPT ![s] = @ + 1]
  /\ UNCHANGED <<port, state, inUse, nextPort, waiting>>

\* msg_recv and pkt_rcv: the head of the queue is taken.
Receive(p) ==
  LET s == Find(p) IN
  /\ s # NoSlot
  /\ queued[s] > 0
  /\ queued' = [queued EXCEPT ![s] = @ - 1]
  /\ UNCHANGED <<port, state, inUse, nextPort, waiting>>

\* (mutant) the table is not consulted
AwaitUnchecked(p) ==
  /\ waiting' = waiting \cup {p}
  /\ UNCHANGED <<port, state, queued, inUse, nextPort>>

\* mcapi_get_endpoint on this node, or MCAPI_GETENDP_REQUEST from another:
\* without the endpoint the request waits for it.
AwaitPort(p) ==
  /\ Find(p) = NoSlot
  /\ waiting' = waiting \cup {p}
  /\ UNCHANGED <<port, state, queued, inUse, nextPort>>

\* The request is cancelled.
GiveUp(p) ==
  /\ p \in waiting
  /\ waiting' = waiting \ {p}
  /\ UNCHANGED <<port, state, queued, inUse, nextPort>>

Next ==
  \/ \E p \in Ports : \/ CreateAt(p) \/ Delete(p)
                      \/ OpenChannel(p) \/ CloseChannel(p)
                      \/ Arrive(p) \/ Receive(p)
                      \/ AwaitPort(p) \/ GiveUp(p)
  \/ \E k \in 0 .. MaxEndpoints : CreateAny(k)

Spec == Init /\ [][Next]_vars

-----------------------------------------------------------------------------
(* Properties.                                                             *)

\* The variables keep to the ranges of the table's fields.
TypeOK ==
  /\ port \in [Slots -> Ports]
  /\ state \in [Slots -> {"closed", "open", "busy"}]
  /\ queued \in [Slots -> 0 .. MaxQueued]
  /\ inUse \in 0 .. MaxEndpoints
  /\ nextPort \in Ports
  /\ waiting \subseteq Ports

\* mcapi_find_endpoint finds every open endpoint from its port number, however
\* many entries were deleted and reused on the way: no deleted entry and no
\* second endpoint with the same number stops the search before it.
OpenIsFound == \A s \in Slots : IsOpen(s) => Find(port[s]) = s

\* mcapi_endpoint_count is the number of entries in use: a count below the
\* maximum promises create_endpoint a closed entry.
CountIsExact == inUse = Cardinality({s \in Slots : IsOpen(s)})

\* Nobody is left waiting for an endpoint that exists.
WaitersAnswered == \A p \in waiting : Find(p) = NoSlot

\* Buffers are queued only at open endpoints, so that create_endpoint, which
\* clears the entry, never drops one.
DataOnlyWhereOpen == \A s \in Slots : queued[s] > 0 => IsOpen(s)

\* What a reader of the table sees, whatever entries are behind it.
OpenPorts == {p \in Ports : Find(p) # NoSlot}
BusyPorts == {p \in Ports : Find(p) # NoSlot /\ state[Find(p)] = "busy"}
DataAt    == [p \in Ports |-> IF Find(p) = NoSlot THEN 0 ELSE queued[Find(p)]]

\* The array with its deleted entries behaves as the set of endpoints of
\* module Endpoints.
Abstract == INSTANCE Endpoints WITH
  Capacity <- MaxEndpoints, open <- OpenPorts, inUse <- BusyPorts, queued <- DataAt
ImplementsEndpoints == Abstract!Spec

-----------------------------------------------------------------------------
(* The inductive invariant behind them.                                    *)

\* No other entry with an open endpoint's number comes before it on its way.
ProbeOrder ==
  \A s, t \in Slots :
    IsOpen(s) /\ port[t] = port[s] /\ t # s =>
      Distance(port[s], s) < Distance(port[s], t)

\* No open entry carries a number somebody waits for.
NoOpenPortAwaited == \A s \in Slots : IsOpen(s) => port[s] \notin waiting

TableInv == /\ TypeOK
            /\ ProbeOrder
            /\ CountIsExact
            /\ NoOpenPortAwaited
            /\ DataOnlyWhereOpen
=============================================================================
