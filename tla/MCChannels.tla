------------------------------ MODULE MCChannels ------------------------------
(* Instances of Channels: t on one node sends packets to r on the other, s   *)
(* on t's node sends scalars to r.                                           *)
EXTENDS Channels

CONSTANTS n1, n2, t, r, s, c1, c2

MCHome == [e \in Endpoints |-> IF e = r THEN n2 ELSE n1]

MCCalls == [c \in Calls |->
  IF c = c1 THEN [node |-> n1, tx |-> t, rx |-> r, type |-> Packet]
            ELSE [node |-> n1, tx |-> s, rx |-> r, type |-> Scalar]]

MCOpenAs == {[ep |-> t, side |-> "TX", type |-> Packet],
             [ep |-> s, side |-> "TX", type |-> Scalar],
             [ep |-> r, side |-> "RX", type |-> Packet],
             [ep |-> r, side |-> "RX", type |-> Scalar]}

MCMaxOpens == [e \in Endpoints |-> IF e = r THEN 2 ELSE 1]
\* Two packets can get out of order, one scalar can be lost or misplaced.
MCMaxData == [e \in Endpoints |-> IF e = t THEN 2 ELSE 1]
=============================================================================
