------------------------------ MODULE MCRequests ------------------------------
(* Instances of Requests: two endpoints, x and y; receives r1 and r2 at x, r3 at y. *)
EXTENDS Requests, TLC

CONSTANTS x, y, r1, r2, r3

\* Messages or scalars at x, packets at y.
Kinded(k, l) == [e \in Endpoints |-> IF e = x THEN k ELSE l]
MCKinds == {Kinded("msg", "pkt"), Kinded("scl", "pkt")}
MCMessages == {Kinded("msg", "msg")}
MCOpOf == [o \in Ops |-> [ep |-> IF o = r3 THEN y ELSE x, size |-> 1]]

Packet(n, e, z) == [id |-> n, ep |-> e, size |-> z]
MCPackets == {Packet(1, x, 1), Packet(2, x, 2), Packet(3, y, 1)}
MCList == {<<r1, r3>>}
MCLists == {<<r1, r2>>, <<r2, r3>>}
MCPending == [k \in {"msg", "pkt", "scl"} |-> IF k = "msg" THEN 2 ELSE 1]
Symmetry == Permutations(Threads)
=============================================================================
