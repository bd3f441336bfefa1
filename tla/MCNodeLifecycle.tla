--------------------------- MODULE MCNodeLifecycle ---------------------------
(* Two nodes, a master and a slave, with a route for each.                   *)
EXTENDS NodeLifecycle
=============================================================================
