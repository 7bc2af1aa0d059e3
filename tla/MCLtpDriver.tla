---------------------------- MODULE MCLtpDriver ----------------------------
(* LtpDriver for TLC: a station known from the configuration and one that  *)
(* is found out or registered; blocks of one, two and too many segments.   *)
EXTENDS LtpDriver, MCLtpWire

MCDest == [b \in Bundles |-> IF b \in RedBundles THEN "e1" ELSE "a2"]
MCConfigured == [e \in {"e1"} |-> "a1"]
MCGreenLen == [g \in Incoming |-> CASE g = "one" -> 1 [] g = "two" -> 2 [] OTHER -> 3]
=============================================================================
