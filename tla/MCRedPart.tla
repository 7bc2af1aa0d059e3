----------------------------- MODULE MCRedPart -----------------------------
(* RedPart for TLC; the constants are given in the configurations.         *)
EXTENDS RedPart
=============================================================================
