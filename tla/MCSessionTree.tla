--------------------------- MODULE MCSessionTree ---------------------------
(* SessionTree for TLC: the bounds are in the configurations.              *)
EXTENDS SessionTree
=============================================================================
