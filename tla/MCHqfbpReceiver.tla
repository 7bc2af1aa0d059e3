-------------------------- MODULE MCHqfbpReceiver --------------------------
(* HqfbpReceiver for TLC: the messages on the air.  Station A sends a      *)
(* bundle in two PDUs (a1) and the same bundle again whole under another   *)
(* id (a2); after a restart it reuses the first id for another bundle      *)
(* (a3).  Stations B and C send one in two PDUs each (b1, c1).              *)
EXTENDS HqfbpReceiver

MCSource == [m \in Messages |-> CASE m = "b1" -> "B" [] m = "c1" -> "C" [] OTHER -> "A"]
MCId == [m \in Messages |-> IF m = "a2" THEN 11 ELSE 1]
MCPayload ==
  [m \in Messages |-> CASE m \in {"b1", "c1"} -> "y" [] m = "a3" -> "z" [] OTHER -> "x"]
MCPdus == [m \in Messages |-> IF m \in {"a1", "b1", "c1"} THEN 2 ELSE 1]
MCReadable == [m \in Messages |-> TRUE]
MCMixedReadable == [m \in Messages |-> m # "a2"]
MCOnlyCReadable == [m \in Messages |-> m = "c1"]
=============================================================================
