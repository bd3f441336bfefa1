--------------------------- MODULE MCShmTransport ---------------------------
(***************************************************************************)
(* Instances of ShmTransport for TLC: two nodes and what they send.        *)
(***************************************************************************)
EXTENDS ShmTransport, TLC

CONSTANTS n1, n2

Call(s, d, p, k) == [src |-> s, dst |-> d, prio |-> p, known |-> k]

\* Both nodes send to n1, n2 at both priorities, and once to an unknown port.
Converging == {Call(n1, n1, 0, TRUE), Call(n2, n1, 1, TRUE), Call(n2, n1, 0, FALSE)}
TwoEach    == [n \in Nodes |-> 2]

\* The nodes send to each other, n2 twice at either priority.
Crossing   == {Call(n1, n2, 0, TRUE), Call(n2, n1, 0, TRUE), Call(n2, n1, 1, FALSE)}
OneAndTwo  == [n \in Nodes |-> IF n = n1 THEN 1 ELSE 2]
=============================================================================
