----------------------------- MODULE LtpSession -----------------------------
(***************************************************************************)
(* One LTP session (RFC 5326) of the sans-I/O engine in ltp/src/engine:    *)
(* the originating engine's SendSession, the destination engine's          *)
(* RecvSession, and a datagram channel between them that loses, delays,    *)
(* reorders and duplicates segments.                                       *)
(*                                                                         *)
(* An engine keeps its sessions in maps keyed by session id and no handler *)
(* touches a second session, so the model follows one id.  Range sets of   *)
(* octets are plain sets; a segment is a record; the two outbound queues   *)
(* and the channel are the one set `net' of all segments ever emitted: a   *)
(* segment that is never taken from it is lost, one taken twice is         *)
(* duplicated, one taken late is delayed.  Time is abstract: a timer in    *)
(* the timer table may expire at any moment after it was set.              *)
(***************************************************************************)
EXTENDS Integers, FiniteSets

CONSTANTS
  BlockLen,          \* octets of the block handed to request_transmission
  RedLens,           \* the red-part lengths a client may ask for
  Services,          \* client service ids a client may address
  AllowedServices,   \* EngineConfig.allowed_client_services of the receiver
  MTU,               \* EngineConfig.max_segment_payload_len
  RecvMaxBlock,      \* EngineConfig.max_block_size of the receiver
  MaxClaims,         \* EngineConfig.max_claims_per_report
  MaxReports,        \* EngineConfig.max_reports_per_session
  CpRtxLimit,        \* EngineConfig.checkpoint_rtx_limit
  RsRtxLimit,        \* EngineConfig.report_rtx_limit
  CancelRtxLimit,    \* EngineConfig.cancel_rtx_limit
  Inactivity         \* session_inactivity_timeout_micros > 0

ASSUME LengthAssumption == BlockLen \in Nat /\ RedLens \subseteq 0 .. BlockLen
ASSUME ServiceAssumption == Services # {}
ASSUME MtuAssumption == MTU \in Nat /\ MTU >= 1
ASSUME ClaimAssumption == MaxClaims \in Nat /\ MaxClaims >= 1
ASSUME LimitAssumption ==
  /\ MaxReports \in Nat /\ RecvMaxBlock \in Nat
  /\ CpRtxLimit \in Nat /\ RsRtxLimit \in Nat /\ CancelRtxLimit \in Nat
  /\ Inactivity \in BOOLEAN

VARIABLES
  snd,         \* the originator's SendSession, its timers included
  rcv,         \* the destination's RecvSession, its timers included
  closed,      \* the id is in the destination's closed_recv_sessions_set
  cancelled,   \* the id is in the destination's cancelled_sessions_set
  net,         \* every segment emitted so far
  notices      \* how many notices of each kind the two clients were given

vars == <<snd, rcv, closed, cancelled, net, notices>>

None == -1                       \* Rust's Option::None, for a length
Octets == 0 .. (BlockLen - 1)
Red == 0 .. (snd.redLen - 1)

Checkpoint == [serial : Nat, from : Nat, to : Nat, eorp : BOOLEAN, retries : Nat]
DataSegment == [type : {"data"}, red : BOOLEAN, from : Nat, to : Nat,
                cp : Nat, eorp : BOOLEAN]
ReportSegment == [type : {"report"}, serial : Nat, cp : Nat,
                  scope : SUBSET Octets, claims : SUBSET Octets]
ReportAck == [type : {"ra"}, serial : Nat]
Control == [type : {"cs", "cr", "cas", "car"}]
Segment == DataSegment \cup ReportSegment \cup ReportAck \cup Control

CancelSender == [type |-> "cs"]
CancelReceiver == [type |-> "cr"]
CancelAckSender == [type |-> "cas"]
CancelAckReceiver == [type |-> "car"]

ReportRecord == [rs : ReportSegment, retries : Nat, acked : BOOLEAN]

NewSendSession ==
  [state |-> "idle", redLen |-> 0, service |-> CHOOSE s \in Services : TRUE,
   cps |-> {}, timers |-> {}, lastCp |-> 0, claims |-> {}, seen |-> {},
   cancelRetries |-> 0, cancelTimer |-> FALSE]

NewRecvSession ==
  [state |-> "none", got |-> {}, redLen |-> None, minGreen |-> BlockLen,
   reports |-> {}, timers |-> {}, lastRS |-> 0, delivered |-> FALSE,
   reason |-> "none", cancelRetries |-> 0, cancelTimer |-> FALSE]

NoNotices == [completed |-> 0, sndCancelled |-> 0, received |-> 0, rcvCancelled |-> 0]

Init ==
  /\ snd = NewSendSession
  /\ rcv = NewRecvSession
  /\ closed = FALSE /\ cancelled = FALSE
  /\ net = {}
  /\ notices = NoNotices

-----------------------------------------------------------------------------
(* Cutting a set of octets into segments of at most MTU octets.            *)

(* The segments that carry the octets of G: every maximal run of G is cut  *)
(* from its first octet into pieces of MTU octets and a remainder.         *)
Chunks(G) ==
  {c \in [from : G, to : {b + 1 : b \in G}] :
     /\ c.from < c.to /\ c.from .. (c.to - 1) \subseteq G
     /\ c.to = c.from + MTU \/ (c.to < c.from + MTU /\ c.to \notin G)
     /\ \E a \in G : /\ (a - 1) \notin G /\ a <= c.from /\ a .. c.from \subseteq G
                     /\ (c.from - a) % MTU = 0}

(* The last segment of G, the one that is made a checkpoint. *)
IsFinal(G, c) == \A b \in G : b < c.to

(* Mutant: every retransmitted checkpoint is flagged end-of-red-part. *)
RedSegmentsEorpAlways(G, redLen, serial) ==
  {[type |-> "data", red |-> TRUE, from |-> c.from, to |-> c.to,
    cp |-> IF IsFinal(G, c) THEN serial ELSE 0,
    eorp |-> IsFinal(G, c)] : c \in Chunks(G)}

RedSegments(G, redLen, serial) ==
  {[type |-> "data", red |-> TRUE, from |-> c.from, to |-> c.to,
    cp |-> IF IsFinal(G, c) THEN serial ELSE 0,
    eorp |-> IsFinal(G, c) /\ c.to = redLen] : c \in Chunks(G)}

GreenSegments(G) ==
  {[type |-> "data", red |-> FALSE, from |-> c.from, to |-> c.to,
    cp |-> 0, eorp |-> FALSE] : c \in Chunks(G)}

CheckpointRecords(G, redLen, serial) ==
  {[serial |-> serial, from |-> c.from, to |-> c.to,
    eorp |-> (c.to = redLen), retries |-> 0] : c \in {d \in Chunks(G) : IsFinal(G, d)}}

CheckpointSegment(c) ==
  [type |-> "data", red |-> TRUE, from |-> c.from, to |-> c.to,
   cp |-> c.serial, eorp |-> c.eorp]

-----------------------------------------------------------------------------
(* The sender.                                                             *)

(* Notices pushed for the client services, one operator a kind. *)
TellCompleted == notices' = [notices EXCEPT !.completed = @ + 1]
TellSendCancelled == notices' = [notices EXCEPT !.sndCancelled = @ + 1]
TellReceived == notices' = [notices EXCEPT !.received = @ + 1]
TellRecvCancelled == notices' = [notices EXCEPT !.rcvCancelled = @ + 1]

(* send_sessions.remove followed by timer_table.cancel_session. *)
RemoveSendSession ==
  snd' = [NewSendSession EXCEPT !.state = "gone", !.redLen = snd.redLen,
                                !.service = snd.service]

RequestTransmission(redLen, service) ==
  /\ snd.state = "idle"
  /\ net' = net \cup RedSegments(0 .. (redLen - 1), redLen, 1)
                \cup GreenSegments(redLen .. (BlockLen - 1))
  /\ IF redLen = 0
     THEN /\ snd' = [snd EXCEPT !.state = "gone", !.service = service]
          /\ TellCompleted
     ELSE /\ snd' = [snd EXCEPT !.state = "active", !.redLen = redLen,
                                !.service = service, !.lastCp = 1, !.timers = {1},
                                !.cps = CheckpointRecords(0 .. (redLen - 1), redLen, 1)]
          /\ UNCHANGED notices
  /\ UNCHANGED <<rcv, closed, cancelled>>

(* Mutant: a cancelling session that hears its last claim still completes. *)
ReportIgnoredUnlessComplete(m) ==
  /\ snd.state # "active"
  /\ net' = net \cup {[type |-> "ra", serial |-> m.serial]}
  /\ IF snd.state = "cancelling" /\ Red \subseteq snd.claims \cup m.claims
     THEN RemoveSendSession /\ TellCompleted
     ELSE snd' = [snd EXCEPT !.timers = @ \ {m.cp}] /\ UNCHANGED notices

(* A report is acknowledged whatever the session's state, and always       *)
(* disarms the timer of the checkpoint it answers.                         *)
ReportIgnored(m) ==
  /\ snd.state # "active"
  /\ net' = net \cup {[type |-> "ra", serial |-> m.serial]}
  /\ snd' = [snd EXCEPT !.timers = @ \ {m.cp}]
  /\ UNCHANGED notices

ReportDuplicate(m) ==
  /\ snd.state = "active" /\ m.serial \in snd.seen
  /\ net' = net \cup {[type |-> "ra", serial |-> m.serial]}
  /\ snd' = [snd EXCEPT !.timers = @ \ {m.cp},
                        !.cps = {c \in @ : c.serial # m.cp}]
  /\ UNCHANGED notices

(* Mutant: no checkpoint is re-issued when a report shows no gap. *)
ReportProcessedNoProbe(m) ==
  /\ snd.state = "active" /\ m.serial \notin snd.seen
  /\ LET claims  == snd.claims \cup (m.claims \cap Red)
         pending == {c \in snd.cps : c.serial # m.cp}
         resend  == (m.scope \cap Red) \ claims
         serial  == snd.lastCp + 1
     IN /\ net' = net \cup {[type |-> "ra", serial |-> m.serial]}
                      \cup RedSegments(resend, snd.redLen, serial)
        /\ IF claims = Red
           THEN RemoveSendSession /\ TellCompleted
           ELSE /\ snd' = [snd EXCEPT
                     !.claims = claims, !.seen = @ \cup {m.serial},
                     !.cps = pending \cup CheckpointRecords(resend, snd.redLen, serial),
                     !.timers = (@ \ {m.cp}) \cup (IF resend = {} THEN {} ELSE {serial}),
                     !.lastCp = IF resend = {} THEN @ ELSE serial]
                /\ UNCHANGED notices

(* Claims are merged; the gaps in the report's scope are sent again, the   *)
(* last piece as a new checkpoint; with no gap, no pending checkpoint and  *)
(* the red part still incomplete, its last octet is sent as a checkpoint.  *)
ReportProcessed(m) ==
  /\ snd.state = "active" /\ m.serial \notin snd.seen
  /\ LET claims  == snd.claims \cup (m.claims \cap Red)
         pending == {c \in snd.cps : c.serial # m.cp}
         gaps    == (m.scope \cap Red) \ claims
         serial  == snd.lastCp + 1
         resend  == IF gaps # {} THEN gaps
                    ELSE IF claims # Red /\ pending = {} THEN {snd.redLen - 1} ELSE {}
     IN /\ net' = net \cup {[type |-> "ra", serial |-> m.serial]}
                      \cup RedSegments(resend, snd.redLen, serial)
        /\ IF claims = Red
           THEN RemoveSendSession /\ TellCompleted
           ELSE /\ snd' = [snd EXCEPT
                     !.claims = claims, !.seen = @ \cup {m.serial},
                     !.cps = pending \cup CheckpointRecords(resend, snd.redLen, serial),
                     !.timers = (@ \ {m.cp}) \cup (IF resend = {} THEN {} ELSE {serial}),
                     !.lastCp = IF resend = {} THEN @ ELSE serial]
                /\ UNCHANGED notices

HandleIncomingReport(m) ==
  /\ m.type = "report"
  /\ ReportIgnored(m) \/ ReportDuplicate(m) \/ ReportProcessed(m)
  /\ UNCHANGED <<rcv, closed, cancelled>>

(* Mutant: the client is not told that the peer cancelled. *)
HandleIncomingCancelReceiverQuiet(m) ==
  /\ m.type = "cr"
  /\ net' = net \cup {CancelAckReceiver}
  /\ RemoveSendSession
  /\ UNCHANGED <<rcv, closed, cancelled, notices>>

(* A CR is acknowledged, ends the session and is reported to the client    *)
(* unless the session was already being cancelled.                         *)
HandleIncomingCancelReceiver(m) ==
  /\ m.type = "cr"
  /\ net' = net \cup {CancelAckReceiver}
  /\ RemoveSendSession
  /\ IF snd.state = "active" THEN TellSendCancelled ELSE UNCHANGED notices
  /\ UNCHANGED <<rcv, closed, cancelled>>

HandleIncomingCancelAckSender(m) ==
  /\ m.type = "cas"
  /\ RemoveSendSession
  /\ UNCHANGED <<rcv, closed, cancelled, net, notices>>

(* Mutant: the CS of an exhausted checkpoint is not guarded by a timer. *)
HandleCpTimeoutNoCancelTimer(c) ==
  /\ c \in snd.cps /\ c.serial \in snd.timers
  /\ IF c.retries < CpRtxLimit
     THEN /\ net' = net \cup {CheckpointSegment(c)}
          /\ snd' = [snd EXCEPT !.cps = (@ \ {c}) \cup {[c EXCEPT !.retries = @ + 1]}]
          /\ UNCHANGED notices
     ELSE /\ net' = net \cup {CancelSender}
          /\ snd' = [snd EXCEPT !.state = "cancelling", !.timers = @ \ {c.serial},
                                !.cancelRetries = 1]
          /\ TellSendCancelled
  /\ UNCHANGED <<rcv, closed, cancelled>>

(* The timer goes on running for every checkpoint, also once the session   *)
(* is being cancelled.                                                     *)
HandleCpTimeout(c) ==
  /\ c \in snd.cps /\ c.serial \in snd.timers
  /\ IF c.retries < CpRtxLimit
     THEN /\ net' = net \cup {CheckpointSegment(c)}
          /\ snd' = [snd EXCEPT !.cps = (@ \ {c}) \cup {[c EXCEPT !.retries = @ + 1]}]
          /\ UNCHANGED notices
     ELSE /\ net' = net \cup {CancelSender}
          /\ snd' = [snd EXCEPT !.state = "cancelling", !.timers = @ \ {c.serial},
                                !.cancelRetries = 1, !.cancelTimer = TRUE]
          /\ TellSendCancelled
  /\ UNCHANGED <<rcv, closed, cancelled>>

HandleCancelTimeoutSender ==
  /\ snd.cancelTimer
  /\ IF snd.cancelRetries < CancelRtxLimit
     THEN /\ net' = net \cup {CancelSender}
          /\ snd' = [snd EXCEPT !.cancelRetries = @ + 1]
     ELSE RemoveSendSession /\ UNCHANGED net
  /\ UNCHANGED <<rcv, closed, cancelled, notices>>

HandleInactivityTimeoutSender ==
  /\ Inactivity /\ snd.state \in {"active", "cancelling"}
  /\ RemoveSendSession
  /\ net' = net \cup {CancelSender}
  /\ TellSendCancelled
  /\ UNCHANGED <<rcv, closed, cancelled>>

-----------------------------------------------------------------------------
(* The receiver.                                                           *)

(* recv_sessions.remove followed by timer_table.cancel_session. *)
RemoveRecvSession == rcv' = NewRecvSession

(* record_cancelled, CR, cancel timer and notice, for session state s. *)
InitiateCancelReceiver(s, reason) ==
  /\ rcv' = [s EXCEPT !.state = "cancelling", !.reason = reason,
                      !.cancelRetries = 1, !.cancelTimer = TRUE]
  /\ cancelled' = TRUE
  /\ TellRecvCancelled

Carried(m) == m.from .. (m.to - 1)

(* A red segment that contradicts the known end of the red part or reaches *)
(* into the green part, or a green one that starts inside the red part.    *)
Miscolored(m) ==
  IF m.red
  THEN \/ rcv.redLen # None /\ m.to > rcv.redLen
       \/ m.to > rcv.minGreen
       \/ m.eorp /\ rcv.redLen # None /\ rcv.redLen # m.to
  ELSE \/ rcv.redLen # None /\ m.from < rcv.redLen
       \/ \E b \in rcv.got : m.from <= b

RejectReason(m) == IF snd.service \notin AllowedServices THEN "unreach"
                   ELSE IF Miscolored(m) THEN "miscolored" ELSE "none"

(* Mutant: an unknown red-part length counts as zero. *)
IsRedCompleteOrUnknown(s) == s.redLen = None \/ 0 .. (s.redLen - 1) \subseteq s.got

(* The red part is complete and its notice given at most once. *)
IsRedComplete(s) == s.redLen # None /\ 0 .. (s.redLen - 1) \subseteq s.got

(* Mutant: red_delivered is not consulted. *)
DeliverAgain(s) ==
  IF IsRedComplete(s)
  THEN rcv' = [s EXCEPT !.delivered = TRUE] /\ TellReceived
  ELSE rcv' = s /\ UNCHANGED notices

Deliver(s) ==
  IF IsRedComplete(s) /\ ~s.delivered
  THEN rcv' = [s EXCEPT !.delivered = TRUE] /\ TellReceived
  ELSE rcv' = s /\ UNCHANGED notices

(* Reception claims: the maximal runs of S, MaxClaims to a report.  The    *)
(* scopes of two consecutive reports leave out the gap between their runs. *)
RunStarts(S) == {b \in S : (b - 1) \notin S}
RunIndex(S, b) == Cardinality({a \in RunStarts(S) : a <= b}) - 1
NumChunks(S) == (Cardinality(RunStarts(S)) + MaxClaims - 1) \div MaxClaims
ClaimChunk(S, k) == {b \in S : RunIndex(S, b) \div MaxClaims = k}

(* Mutant: a report claims its whole scope, gaps included. *)
ReportForWholeScope(S, upper, cp, serial, k) ==
  [type |-> "report", serial |-> serial, cp |-> cp,
   claims |-> 0 .. (upper - 1), scope |-> 0 .. (upper - 1)]

ReportFor(S, upper, cp, serial, k) ==
  [type |-> "report", serial |-> serial, cp |-> cp, claims |-> ClaimChunk(S, k),
   scope |-> {b \in 0 .. (upper - 1) :
                /\ k = 0 \/ \E a \in ClaimChunk(S, k) : a <= b
                /\ k + 1 = NumChunks(S) \/ \E a \in ClaimChunk(S, k) : b <= a}]

(* A checkpoint of a session already closed is answered with a report that *)
(* claims everything up to the checkpoint's end, under report serial 1.    *)
DataAfterClose(m) ==
  /\ closed /\ m.cp # 0
  /\ net' = net \cup {[type |-> "report", serial |-> 1, cp |-> m.cp,
                       scope |-> 0 .. (m.to - 1), claims |-> 0 .. (m.to - 1)]}
  /\ UNCHANGED <<rcv, cancelled, notices>>

(* Mutant: neither the cancelled set nor cancel_reason is consulted. *)
ListeningUntilClosed == ~closed

(* Segments of a closed session that are no checkpoint, of a cancelled or  *)
(* a cancelling one are dropped.                                           *)
Listening == ~closed /\ ~cancelled /\ rcv.state \in {"none", "open"}

(* A refused segment of an unknown session still creates it.  The green    *)
(* offset a miscolored segment leaves behind is never read again.          *)
DataRejected(m) ==
  /\ Listening /\ RejectReason(m) # "none"
  /\ InitiateCancelReceiver(rcv, RejectReason(m))
  /\ net' = net \cup {CancelReceiver}

DataGreen(m) ==
  /\ Listening /\ RejectReason(m) = "none" /\ ~m.red
  /\ Deliver([rcv EXCEPT !.state = "open",
                         !.minGreen = IF m.from < @ THEN m.from ELSE @])
  /\ UNCHANGED <<cancelled, net>>

(* insert_red refuses what lies beyond the receiver's block limit. *)
DataOversize(m) ==
  /\ Listening /\ RejectReason(m) = "none" /\ m.red /\ m.to > RecvMaxBlock
  /\ rcv' = [rcv EXCEPT !.state = "open"]
  /\ UNCHANGED <<cancelled, net, notices>>

Storable(m) == Listening /\ RejectReason(m) = "none" /\ m.red /\ m.to <= RecvMaxBlock

Stored(m) == [rcv EXCEPT !.state = "open", !.got = @ \cup Carried(m),
                         !.redLen = IF m.eorp THEN m.to ELSE @]

DataRed(m) ==
  /\ Storable(m) /\ m.cp = 0
  /\ Deliver(Stored(m))
  /\ UNCHANGED <<cancelled, net>>

(* Reports that answered this checkpoint and are not acknowledged yet are  *)
(* sent again and their timers restarted.                                  *)
DataCheckpointAgain(m) ==
  /\ Storable(m) /\ m.cp # 0 /\ \E r \in rcv.reports : r.rs.cp = m.cp
  /\ LET again == {r \in rcv.reports : r.rs.cp = m.cp /\ ~r.acked}
     IN /\ net' = net \cup {r.rs : r \in again}
        /\ Deliver([Stored(m) EXCEPT !.timers = @ \cup {r.rs.serial : r \in again}])
  /\ UNCHANGED cancelled

(* A fresh checkpoint is answered with one report for every MaxClaims      *)
(* runs.  When the table of reports is full the session is cancelled, with *)
(* the reports that still fitted already sent and nothing delivered.       *)
DataCheckpoint(m) ==
  /\ Storable(m) /\ m.cp # 0 /\ ~\E r \in rcv.reports : r.rs.cp = m.cp
  /\ LET S      == {b \in Stored(m).got : b < m.to}
         room   == MaxReports - rcv.lastRS
         n      == IF NumChunks(S) <= room THEN NumChunks(S) ELSE room
         issued == {ReportFor(S, m.to, m.cp, rcv.lastRS + 1 + k, k) : k \in 0 .. (n - 1)}
         s      == [Stored(m) EXCEPT
                      !.reports = @ \cup {[rs |-> x, retries |-> 0, acked |-> FALSE] : x \in issued},
                      !.timers = @ \cup {x.serial : x \in issued},
                      !.lastRS = @ + n]
     IN IF n < NumChunks(S)
        THEN /\ InitiateCancelReceiver(s, "rlexc")
             /\ net' = net \cup issued \cup {CancelReceiver}
        ELSE /\ Deliver(s)
             /\ net' = net \cup issued
             /\ UNCHANGED cancelled

HandleIncomingData(m) ==
  /\ m.type = "data"
  /\ \/ DataAfterClose(m) \/ DataRejected(m) \/ DataGreen(m) \/ DataOversize(m)
     \/ DataRed(m) \/ DataCheckpointAgain(m) \/ DataCheckpoint(m)
  /\ UNCHANGED <<snd, closed>>

(* Mutant: claims count as reported before they are acknowledged. *)
CoverageIssued(s) == UNION {r.rs.claims : r \in s.reports}

Coverage(s) == UNION {r.rs.claims : r \in {q \in s.reports : q.acked}}

(* The timer is disarmed in any state; an open session marks the report    *)
(* and closes once the acknowledged claims cover the delivered red part.   *)
HandleIncomingReportAck(m) ==
  /\ m.type = "ra"
  /\ LET s == [rcv EXCEPT !.timers = @ \ {m.serial}]
         t == [s EXCEPT !.reports =
                 {IF r.rs.serial = m.serial THEN [r EXCEPT !.acked = TRUE] ELSE r : r \in @}]
     IN IF rcv.state # "open"
        THEN rcv' = s /\ UNCHANGED closed
        ELSE IF IsRedComplete(t) /\ t.delivered /\ 0 .. (t.redLen - 1) \subseteq Coverage(t)
             THEN RemoveRecvSession /\ closed' = TRUE
             ELSE rcv' = t /\ UNCHANGED closed
  /\ UNCHANGED <<snd, cancelled, net, notices>>

HandleIncomingCancelSender(m) ==
  /\ m.type = "cs"
  /\ net' = net \cup {CancelAckSender}
  /\ RemoveRecvSession /\ cancelled' = TRUE
  /\ IF rcv.state = "open" THEN TellRecvCancelled ELSE UNCHANGED notices
  /\ UNCHANGED <<snd, closed>>

HandleIncomingCancelAckReceiver(m) ==
  /\ m.type = "car"
  /\ RemoveRecvSession /\ cancelled' = TRUE
  /\ UNCHANGED <<snd, closed, net, notices>>

(* Mutant: report retries are counted down. *)
HandleRsTimeoutCountsDown(r) ==
  /\ r \in rcv.reports /\ r.rs.serial \in rcv.timers /\ ~r.acked
  /\ r.retries < RsRtxLimit
  /\ net' = net \cup {r.rs}
  /\ rcv' = [rcv EXCEPT !.reports = (@ \ {r}) \cup {[r EXCEPT !.retries = @ - 1]}]
  /\ UNCHANGED <<snd, closed, cancelled, notices>>

(* Unlike InitiateCancelReceiver, giving up on a report does not record    *)
(* the id as cancelled: the session's own cancel_reason shuts data out.    *)
HandleRsTimeout(r) ==
  /\ r \in rcv.reports /\ r.rs.serial \in rcv.timers /\ ~r.acked
  /\ IF r.retries < RsRtxLimit
     THEN /\ net' = net \cup {r.rs}
          /\ rcv' = [rcv EXCEPT !.reports = (@ \ {r}) \cup {[r EXCEPT !.retries = @ + 1]}]
          /\ UNCHANGED notices
     ELSE /\ net' = net \cup {CancelReceiver}
          /\ rcv' = [rcv EXCEPT !.state = "cancelling", !.reason = "rlexc",
                                !.timers = @ \ {r.rs.serial},
                                !.cancelRetries = 1, !.cancelTimer = TRUE]
          /\ TellRecvCancelled
  /\ UNCHANGED <<snd, closed, cancelled>>

HandleCancelTimeoutReceiver ==
  /\ rcv.cancelTimer
  /\ IF rcv.cancelRetries < CancelRtxLimit
     THEN /\ net' = net \cup {CancelReceiver}
          /\ rcv' = [rcv EXCEPT !.cancelRetries = @ + 1]
          /\ UNCHANGED cancelled
     ELSE /\ RemoveRecvSession /\ cancelled' = TRUE
          /\ UNCHANGED net
  /\ UNCHANGED <<snd, closed, notices>>

HandleInactivityTimeoutReceiver ==
  /\ Inactivity /\ rcv.state # "none"
  /\ RemoveRecvSession /\ cancelled' = TRUE
  /\ net' = net \cup {CancelReceiver}
  /\ TellRecvCancelled
  /\ UNCHANGED <<snd, closed>>

-----------------------------------------------------------------------------

SenderStep ==
  \/ \E redLen \in RedLens, service \in Services : RequestTransmission(redLen, service)
  \/ \E m \in net : \/ HandleIncomingReport(m)
                    \/ HandleIncomingCancelReceiver(m)
                    \/ HandleIncomingCancelAckSender(m)
  \/ \E c \in snd.cps : HandleCpTimeout(c)
  \/ HandleCancelTimeoutSender
  \/ HandleInactivityTimeoutSender

ReceiverStep ==
  \/ \E m \in net : \/ HandleIncomingData(m)
                    \/ HandleIncomingReportAck(m)
                    \/ HandleIncomingCancelSender(m)
                    \/ HandleIncomingCancelAckReceiver(m)
  \/ \E r \in rcv.reports : HandleRsTimeout(r)
  \/ HandleCancelTimeoutReceiver
  \/ HandleInactivityTimeoutReceiver

Next == SenderStep \/ ReceiverStep

Spec == Init /\ [][Next]_vars

(* handle_timer_tick is called by the driver at every next_timer_deadline, *)
(* so a timer that stays armed does expire.  Nothing is assumed of the     *)
(* channel: it may deliver nothing at all.                                 *)
TimerFairness ==
  /\ WF_vars(\E c \in snd.cps : HandleCpTimeout(c))
  /\ WF_vars(HandleCancelTimeoutSender)
  /\ WF_vars(\E r \in rcv.reports : HandleRsTimeout(r))
  /\ WF_vars(HandleCancelTimeoutReceiver)

LiveSpec == Spec /\ TimerFairness
-----------------------------------------------------------------------------
(* Properties.                                                             *)

SendSession ==
  [state : {"idle", "active", "cancelling", "gone"}, redLen : 0 .. BlockLen,
   service : Services, cps : SUBSET Checkpoint, timers : SUBSET Nat, lastCp : Nat,
   claims : SUBSET Octets, seen : SUBSET Nat, cancelRetries : Nat,
   cancelTimer : BOOLEAN]

RecvSession ==
  [state : {"none", "open", "cancelling"}, got : SUBSET Octets,
   redLen : {None} \cup (0 .. BlockLen), minGreen : 0 .. BlockLen,
   reports : SUBSET ReportRecord, timers : SUBSET Nat, lastRS : Nat,
   delivered : BOOLEAN, reason : {"none", "unreach", "miscolored", "rlexc"},
   cancelRetries : Nat, cancelTimer : BOOLEAN]

NoticeCounts == [completed : Nat, sndCancelled : Nat, received : Nat, rcvCancelled : Nat]

(* Every variable keeps the shape of the Rust structure it stands for. *)
TypeOK ==
  /\ snd \in SendSession /\ rcv \in RecvSession
  /\ closed \in BOOLEAN /\ cancelled \in BOOLEAN
  /\ net \in SUBSET Segment
  /\ notices \in NoticeCounts

(* The sender says TransmissionSessionCompleted of a block with a red part *)
(* only when the receiving engine has given the whole red part to its      *)
(* client: claims merged from several, partial, reordered reports never    *)
(* add up to a red part that was not delivered.                            *)
CompletedMeansDelivered ==
  notices.completed > 0 /\ snd.redLen > 0 => notices.received > 0

(* However often segments are repeated, and also after the session is      *)
(* closed or cancelled, RedPartReceived is given at most once.             *)
DeliveredAtMostOnce == notices.received <= 1

(* The sending client never hears both Completed and Cancelled.  *)
OneOutcome ==
  /\ notices.completed <= 1
  /\ ~(notices.completed > 0 /\ notices.sndCancelled > 0)

(* A send session that has left the session table has told its client how  *)
(* it ended, whichever of the five ways out it took.                       *)
NoSilentEnd ==
  snd.state = "gone" => notices.completed + notices.sndCancelled > 0

(* A send session that is neither complete nor being cancelled always has  *)
(* a checkpoint in flight with its timer armed: no order of reports leaves *)
(* it waiting for something nobody will send.                              *)
AlwaysProbing == snd.state = "active" => \E c \in snd.cps : c.serial \in snd.timers

(* The receiver forgets a session as closed only when the sender no longer *)
(* needs it: from then on it answers any checkpoint with a full claim.     *)
ClosedMeansSenderDone == closed => snd.state # "active"

(* The engine's own sender never makes the receiver see a red/green        *)
(* violation, whatever is lost, late or repeated.                          *)
NeverMiscolored == rcv.reason # "miscolored"

(* A receiving client that was told of a cancellation gets no red part     *)
(* afterwards: late data does not revive the session.                      *)
NoDeliveryAfterCancel ==
  [][notices.rcvCancelled > 0 => notices'.received = notices.received]_vars

(* What the clients see of a session is a behaviour of BlockTransfer.      *)
Outcome == IF snd.state = "idle" THEN "unsent"
           ELSE IF notices.completed > 0 THEN "completed"
           ELSE IF notices.sndCancelled > 0 THEN "failed" ELSE "pending"

Abstract == INSTANCE BlockTransfer WITH
  outcome <- Outcome, reliable <- (snd.redLen > 0),
  received <- notices.received, aborted <- (notices.rcvCancelled > 0)

ImplementsBlockTransfer == Abstract!Spec

(* Even if the inactivity timer never expires and the channel delivers     *)
(* nothing, retry limits alone release the sender and tell its client.     *)
SenderTerminates ==
  snd.state = "active" ~>
     snd.state = "gone" /\ notices.completed + notices.sndCancelled > 0

(* The client hears of a cancellation once: "Emission de la notice         *)
(* d'annulation uniquement sur la premiere transition d'etat d'une session *)
(* active" (LTP-CLA.md, 10.2).                                             *)
(* It does not hold: README.md, section 12.                                *)
CancelNoticeOnce == notices.sndCancelled <= 1 /\ notices.rcvCancelled <= 1

(* The receiver gives a session up for its number of reports only with     *)
(* that many unacknowledged ones: "Maximum active unacknowledged reports   *)
(* tracked per session" (ltp/src/engine/config.rs).                        *)
(* It does not hold: README.md, section 12.                                *)
ReportLimitCountsUnacked ==
  rcv.state = "cancelling" /\ rcv.reason = "rlexc" /\ cancelled
     => Cardinality({r \in rcv.reports : ~r.acked}) >= MaxReports
=============================================================================
