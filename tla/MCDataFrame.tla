----------------------------- MODULE MCDataFrame -----------------------------
(***************************************************************************)
(* A small instance of DataFrame: one key, two frames, chunks of two       *)
(* fields on two nodes, so that a frame of five rows has three chunks, the *)
(* last of which is stored again by both padding and a filter.             *)
(***************************************************************************)
EXTENDS DataFrame

CONSTANTS h1, h2, k1

TwoHandles == {h1, h2}
OneKey == {k1}
Lengths == {0, 1, 3, 5}
=============================================================================
