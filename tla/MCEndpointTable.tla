--------------------------- MODULE MCEndpointTable ---------------------------
(***************************************************************************)
(* EndpointTable for TLC: three entries, and enough port numbers for two   *)
(* of them to share a home entry and for MCAPI_Next_Port to wrap.          *)
(***************************************************************************)
EXTENDS EndpointTable
=============================================================================
