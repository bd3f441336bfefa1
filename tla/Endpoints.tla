------------------------------ MODULE Endpoints ------------------------------
(***************************************************************************)
(* What a node's endpoint table promises: a set of at most Capacity open   *)
(* ports, each with its own queue of received messages, and a set of ports *)
(* somebody waits for.  How endpoints are stored is not visible here.      *)
(***************************************************************************)
EXTENDS Integers, FiniteSets

CONSTANTS Ports, Capacity

VARIABLES open,     \* the ports with an endpoint
          inUse,    \* those whose side of a channel is open
          queued,   \* messages waiting at each port
          waiting   \* ports for which a get_endpoint call is pending

vars == <<open, inUse, queued, waiting>>

Init == /\ open = {} /\ inUse = {} /\ waiting = {}
        /\ queued = [p \in Ports |-> 0]

\* A new endpoint has no data and nobody waits for it any more.
Create(p) ==
  /\ p \notin open
  /\ Cardinality(open) < Capacity
  /\ open' = open \cup {p}
  /\ waiting' = waiting \ {p}
  /\ UNCHANGED <<inUse, queued>>

\* The data of a deleted endpoint goes with it.
Delete(p) ==
  /\ p \in open \ inUse
  /\ open' = open \ {p}
  /\ queued' = [queued EXCEPT ![p] = 0]
  /\ UNCHANGED <<inUse, waiting>>

OpenChannel(p)  == /\ p \in open /\ inUse' = inUse \cup {p}
                   /\ UNCHANGED <<open, queued, waiting>>
CloseChannel(p) == /\ p \in open /\ inUse' = inUse \ {p}
                   /\ queued' \in {queued, [queued EXCEPT ![p] = 0]}
                   /\ UNCHANGED <<open, waiting>>
Arrive(p)       == /\ p \in open /\ queued' = [queued EXCEPT ![p] = @ + 1]
                   /\ UNCHANGED <<open, inUse, waiting>>
Receive(p)      == /\ p \in open /\ queued[p] > 0
                   /\ queued' = [queued EXCEPT ![p] = @ - 1]
                   /\ UNCHANGED <<open, inUse, waiting>>

\* Only a port without an endpoint is waited for.
AwaitPort(p)    == /\ p \notin open /\ waiting' = waiting \cup {p}
                   /\ UNCHANGED <<open, inUse, queued>>
GiveUp(p)       == /\ waiting' = waiting \ {p}
                   /\ UNCHANGED <<open, inUse, queued>>

Next == \E p \in Ports : \/ Create(p) \/ Delete(p)
                         \/ OpenChannel(p) \/ CloseChannel(p)
                         \/ Arrive(p) \/ Receive(p)
                         \/ AwaitPort(p) \/ GiveUp(p)

Spec == Init /\ [][Next]_vars
=============================================================================
