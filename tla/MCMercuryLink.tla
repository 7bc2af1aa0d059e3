--------------------------- MODULE MCMercuryLink ---------------------------
(* MercuryLink for TLC; the constants are given in the configurations.     *)
EXTENDS MercuryLink
=============================================================================
