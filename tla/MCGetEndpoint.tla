---------------------------- MODULE MCGetEndpoint ----------------------------
(* Instances of GetEndpoint: node srv is asked for its endpoints.            *)
EXTENDS GetEndpoint

CONSTANTS srv, cl1, cl2, r1, r2, r3, r4

\* r1 and r2 of node cl1, r3 of cl2 and r4 of srv itself.
MCCaller == [r \in Requests |-> IF r \in {r1, r2} THEN cl1 ELSE IF r = r3 THEN cl2 ELSE srv]
MCServer == [r \in Requests |-> srv]
MCPortOf == [r \in Requests |-> 1]
=============================================================================
