------------------------------ MODULE Transport ------------------------------
(***************************************************************************)
(* What the shared memory driver promises the layer above it, whatever its *)
(* locks, bit masks and rings: a message is accepted or not; an accepted   *)
(* message joins a FIFO queue of its destination and priority and is       *)
(* handed over once, to the endpoint or to the waste when the endpoint is  *)
(* unknown; at most Capacity messages are under way.                       *)
(***************************************************************************)
EXTENDS Integers, Sequences, FiniteSets

CONSTANTS Nodes, Prios, Messages, Capacity

VARIABLES net,        \* per node and priority: accepted, not yet handed over
          inbox,      \* per node: handed over, not yet received
          received,   \* per node: received by the application
          discarded   \* messages for unknown endpoints

vars == <<net, inbox, received, discarded>>

Elements(s) == {s[i] : i \in DOMAIN s}
InTransit == {m \in Messages : \E n \in Nodes :
               m \in Elements(inbox[n]) \/ \E p \in Prios : m \in Elements(net[n][p])}
Seen == InTransit \cup discarded \cup UNION {Elements(received[n]) : n \in Nodes}

Init == /\ net = [n \in Nodes |-> [p \in Prios |-> <<>>]]
        /\ inbox = [n \in Nodes |-> <<>>]
        /\ received = [n \in Nodes |-> <<>>]
        /\ discarded = {}

\* A sender's messages are accepted in the order it sends them.
Accept(m) ==
  /\ net' = [net EXCEPT ![m.dst][m.prio] = Append(@, m)]
  /\ \A s \in Seen : s.src = m.src => s.seq < m.seq
  /\ Cardinality(InTransit) < Capacity
  /\ UNCHANGED <<inbox, received, discarded>>

HandOver(n, p) ==
  LET m == Head(net[n][p]) IN
  /\ net[n][p] # <<>>
  /\ net' = [net EXCEPT ![n][p] = Tail(@)]
  /\ \/ m.known /\ inbox' = [inbox EXCEPT ![n] = Append(@, m)]
                /\ UNCHANGED discarded
     \/ ~m.known /\ discarded' = discarded \cup {m} /\ UNCHANGED inbox
  /\ UNCHANGED received

Receive(n) ==
  /\ inbox[n] # <<>>
  /\ inbox' = [inbox EXCEPT ![n] = Tail(@)]
  /\ received' = [received EXCEPT ![n] = Append(@, Head(inbox[n]))]
  /\ UNCHANGED <<net, discarded>>

Next == \/ \E m \in Messages : Accept(m)
        \/ \E n \in Nodes : Receive(n) \/ \E p \in Prios : HandOver(n, p)

Spec == Init /\ [][Next]_vars
=============================================================================
