----------------------------- MODULE MCConnection -----------------------------
(* Instances of Connection: two nodes, senders t and s, receivers r and q;   *)
(* t and q live on one node, r and s on the other.                           *)
EXTENDS Connection

CONSTANTS n1, n2, t, r, s, q, c1, c2, c3, pkt, scl

MCHome == [e \in Endpoints |-> IF e \in {t, q} THEN n1 ELSE n2]

\* Two nodes compete for the sender t, two senders for the receiver r.
MCContend == [c \in Calls |->
  [node |-> IF c = c1 THEN n1 ELSE n2,
   tx   |-> IF c = c3 THEN s ELSE t,
   rx   |-> IF c = c2 THEN q ELSE r,
   type |-> pkt]]

\* The same two endpoints are connected again and again.
MCRepeat == [c \in Calls |->
  [node |-> IF c = c1 THEN n1 ELSE n2, tx |-> t, rx |-> r, type |-> pkt]]

MCOpenAs == {[ep |-> e, side |-> IF e \in {t, s} THEN "TX" ELSE "RX",
              type |-> pkt] : e \in Endpoints}

MCOpenOnce == [e \in Endpoints |-> 1]
MCOpenAgain == [e \in Endpoints |-> IF e = t THEN 2 ELSE 1]

MCDatagrams == {[from |-> s, to |-> q]}
MCNoDatagrams == {}
=============================================================================
