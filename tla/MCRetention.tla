---------------------------- MODULE MCRetention ----------------------------
(* Retention for TLC: 2000 is the year 6, the station is started at 8.     *)
EXTENDS Retention

MCCreated == [id \in Ids |-> IF id \in {"old file", "old sent", "chat"} THEN 7 ELSE 8]
MCLife == [id \in Ids |-> CASE id = "file" -> 2 [] id = "old file" -> 3 [] id \in {"old chat", "old sent"} -> 4 [] OTHER -> 1]
MCPeer == [c \in Chats |-> IF c = "chat" THEN "p" ELSE "q"]
=============================================================================
