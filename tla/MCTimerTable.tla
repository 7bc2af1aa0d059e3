---------------------------- MODULE MCTimerTable ----------------------------
(* TimerTable for TLC; the constants are given in the configurations.      *)
EXTENDS TimerTable
=============================================================================
