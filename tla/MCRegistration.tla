--------------------------- MODULE MCRegistration ---------------------------
(***************************************************************************)
(* Four nodes with a Backlog of four: node 0 is the server, and the        *)
(* network is as large as its Backlog allows.                              *)
(***************************************************************************)
EXTENDS Registration

MCNode == 0 .. 3
=============================================================================
