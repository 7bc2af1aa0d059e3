---------------------------- MODULE BlockTransfer ----------------------------
(***************************************************************************)
(* What one LTP session promises its two client services about a block,    *)
(* whatever the channel does: the notices of RFC 5326 section 7 as the     *)
(* enum Notice of ltp/src/engine/mod.rs lists them.  The sending client    *)
(* learns one outcome.  A completed transfer with a red part has been      *)
(* received; a red part is received at most once, and never once the       *)
(* receiving client was told that the session is cancelled.  A failed      *)
(* transfer may nevertheless have been received, before or after.          *)
(***************************************************************************)
EXTENDS Naturals

VARIABLES outcome,    \* what the sending client was told
          reliable,   \* the block has a red part
          received,   \* RedPartReceived notices given to the receiving client
          aborted     \* the receiving client was told of a cancellation

vars == <<outcome, reliable, received, aborted>>

Init == /\ outcome = "unsent" /\ reliable = FALSE
        /\ received = 0 /\ aborted = FALSE

(* An all-green block is complete as soon as it is sent. *)
Submit(red) ==
  /\ outcome = "unsent"
  /\ reliable' = red
  /\ outcome' = IF red THEN "pending" ELSE "completed"
  /\ UNCHANGED <<received, aborted>>

Receive ==
  /\ outcome # "unsent" /\ reliable /\ received = 0 /\ ~aborted
  /\ received' = 1
  /\ UNCHANGED <<outcome, reliable, aborted>>

Complete ==
  /\ outcome = "pending" /\ received = 1
  /\ outcome' = "completed"
  /\ UNCHANGED <<reliable, received, aborted>>

Fail ==
  /\ outcome = "pending"
  /\ outcome' = "failed"
  /\ UNCHANGED <<reliable, received, aborted>>

Abort ==
  /\ outcome # "unsent" /\ ~aborted
  /\ aborted' = TRUE
  /\ UNCHANGED <<outcome, reliable, received>>

Next == (\E red \in BOOLEAN : Submit(red)) \/ Receive \/ Complete \/ Fail \/ Abort

Spec == Init /\ [][Next]_vars
=============================================================================
