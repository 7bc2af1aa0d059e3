-------------------------- MODULE LtpSessionProofs --------------------------
(***************************************************************************)
(* Proofs that every instance of LtpSession, whatever the block, the MTU   *)
(* and the limits, keeps the promises TLC checks on small ones.            *)
(***************************************************************************)
EXTENDS LtpSession, TLAPS, WellFoundedInduction, FiniteSetTheorems

Reports == {m \in net : m.type = "report"}

-----------------------------------------------------------------------------
(* The inductive invariant, in named parts.                                *)

(* Nothing has happened before the client's request. *)
IdleInv ==
  snd.state = "idle" =>
    /\ snd = NewSendSession /\ rcv = NewRecvSession /\ ~closed /\ ~cancelled /\ net = {}
    /\ notices = NoNotices

(* What a data segment of this sender looks like. *)
DataInv ==
  \A m \in net : m.type = "data" =>
    /\ m.from < m.to /\ m.to <= BlockLen
    /\ m.red => m.to <= snd.redLen /\ (m.eorp <=> m.to = snd.redLen /\ m.cp # 0)
                /\ (m.to = snd.redLen => m.cp # 0)
    /\ ~m.red => m.from >= snd.redLen /\ m.cp = 0
    /\ snd.state = "active" => m.cp <= snd.lastCp

CheckpointInv ==
  \A c \in snd.cps : /\ c.from < c.to /\ c.to <= snd.redLen
                     /\ c.eorp <=> c.to = snd.redLen
                     /\ 1 <= c.serial /\ c.serial <= snd.lastCp

(* Notices of the sending client against the state of its session. *)
OutcomeInv ==
  /\ snd.state = "active" => notices.completed = 0 /\ notices.sndCancelled = 0
  /\ snd.state = "cancelling" => notices.completed = 0 /\ notices.sndCancelled > 0
  /\ snd.state = "gone" => \/ notices.completed = 1 /\ notices.sndCancelled = 0
                           \/ notices.completed = 0 /\ notices.sndCancelled > 0
  /\ snd.cancelTimer => snd.state = "cancelling"
  /\ (CancelSender \in net \/ CancelAckSender \in net) => snd.state # "active"
  /\ snd.state = "gone" => snd.cps = {}
  /\ snd.state \in {"active", "cancelling"} => snd.redLen > 0

(* The receiver's picture of the block agrees with the sender's. *)
RecvInv ==
  /\ rcv.state = "none" => rcv = NewRecvSession
  /\ rcv.got \subseteq Red
  /\ rcv.redLen \in {None, snd.redLen} /\ (rcv.redLen # None => snd.redLen > 0)
  /\ snd.redLen <= rcv.minGreen
  /\ (snd.redLen - 1) \in rcv.got => rcv.redLen = snd.redLen
  /\ rcv.reason # "miscolored" /\ rcv.lastRS <= MaxReports
  /\ rcv.cancelTimer => rcv.state = "cancelling"

(* Reports on record were sent, and record serials are fresh and unique. *)
RecordInv ==
  \A r \in rcv.reports :
    /\ r.rs \in net /\ r.rs.serial <= rcv.lastRS
    /\ \A q \in rcv.reports : q.rs.serial = r.rs.serial => q = r

(* While the receiver still listens it holds every octet it ever claimed. *)
ClaimInv ==
  Listening =>
    /\ snd.claims \subseteq rcv.got
    /\ \A m \in Reports : m.claims \subseteq rcv.got /\ m.serial <= rcv.lastRS
    /\ \A s \in snd.seen : s <= rcv.lastRS

(* Red octets delivered, notices given and flags agree. *)
DeliveryInv ==
  /\ notices.received <= 1
  /\ rcv.state # "none" /\ ~rcv.delivered => notices.received = 0
  /\ Listening /\ rcv.state = "none" => notices.received = 0
  /\ rcv.delivered => notices.received = 1
  /\ closed => notices.received = 1 /\ snd.redLen > 0
  /\ rcv.state = "open" /\ ~rcv.delivered => ~IsRedComplete(rcv)
  /\ notices.rcvCancelled > 0 => ~Listening

(* As long as the red part is undelivered some octet is claimed nowhere. *)
MissingInv ==
  notices.received = 0 /\ snd.redLen > 0 =>
    \E b \in Red : b \notin snd.claims /\ \A m \in Reports : b \notin m.claims

(* The sender's checkpoints, timers and bookkeeping of reports. *)
ProbeInv ==
  snd.state = "active" =>
    /\ snd.cps # {}
    /\ \A c \in snd.cps : c.serial \in snd.timers
    /\ \A m \in Reports :
         /\ m.cp <= snd.lastCp
         /\ \A n \in Reports : n.serial = m.serial => n = m
         /\ m.serial \in snd.seen =>
              m.claims \cap Red \subseteq snd.claims /\ \A c \in snd.cps : c.serial # m.cp

(* A receiver closes only on claims the sender has merged. *)
CloseInv ==
  snd.state = "active" =>
    /\ ~closed
    /\ snd.claims # Red /\ snd.claims \subseteq Red
    /\ \A m \in net : m.type = "ra" => m.serial \in snd.seen
    /\ \A r \in rcv.reports : r.acked => r.rs.serial \in snd.seen

IInv ==
  /\ TypeOK /\ IdleInv /\ DataInv /\ CheckpointInv /\ OutcomeInv
  /\ RecvInv /\ RecordInv /\ ClaimInv /\ DeliveryInv
  /\ MissingInv /\ ProbeInv /\ CloseInv
-----------------------------------------------------------------------------
(* Cutting octets into segments and runs into reports.                     *)

(* A segment carries a non-empty interval of the octets to send. *)
LEMMA ChunkFacts ==
  ASSUME NEW G \in SUBSET Octets, NEW c \in Chunks(G)
  PROVE  /\ c.from \in Nat /\ c.to \in Nat /\ c.from < c.to /\ c.to <= BlockLen
         /\ \A b \in c.from .. (c.to - 1) : b \in G
         /\ c.from \in G /\ (c.to - 1) \in G
<1>1. /\ c.from \in G /\ c.from < c.to
      /\ c.from .. (c.to - 1) \subseteq G
  BY DEF Chunks
<1>2. PICK e \in G : c.to = e + 1
  BY DEF Chunks
<1>3. c.from \in Octets /\ e \in Octets
  BY <1>1
<1>4. /\ c.from \in Nat /\ e \in Nat /\ e < BlockLen
  BY <1>3, LengthAssumption DEF Octets
<1> QED
  BY <1>1, <1>2, <1>4, LengthAssumption

(* What a red segment says of itself agrees with the length of the red     *)
(* part: exactly the checkpoint that ends it carries EORP.                 *)
LEMMA RedSegmentFacts ==
  ASSUME NEW redLen \in 0 .. BlockLen, NEW G \in SUBSET (0 .. (redLen - 1)),
         NEW serial \in Nat, serial # 0, NEW m \in RedSegments(G, redLen, serial)
  PROVE  /\ m \in DataSegment /\ m.type = "data" /\ m.red
         /\ m.from < m.to /\ m.to <= redLen
         /\ m.eorp <=> m.to = redLen /\ m.cp # 0
         /\ m.to = redLen => m.cp # 0
         /\ m.cp \in {0, serial}
<1>1. G \in SUBSET Octets
  BY LengthAssumption DEF Octets
<1>2. PICK c \in Chunks(G) :
        m = [type |-> "data", red |-> TRUE, from |-> c.from, to |-> c.to,
             cp |-> IF IsFinal(G, c) THEN serial ELSE 0,
             eorp |-> IsFinal(G, c) /\ c.to = redLen]
  BY DEF RedSegments
<1>3. /\ c.from \in Nat /\ c.to \in Nat /\ c.from < c.to
      /\ (c.to - 1) \in G
  BY <1>1, ChunkFacts
<1>4. c.to <= redLen
  BY <1>3, LengthAssumption
<1>5. c.to = redLen => IsFinal(G, c)
  BY <1>3, LengthAssumption DEF IsFinal
<1> QED
  BY <1>2, <1>3, <1>4, <1>5 DEF DataSegment, IsFinal

(* The checkpoint on record describes the segment that was sent. *)
LEMMA CheckpointRecordFacts ==
  ASSUME NEW redLen \in 0 .. BlockLen, NEW G \in SUBSET (0 .. (redLen - 1)),
         NEW serial \in Nat, NEW c \in CheckpointRecords(G, redLen, serial)
  PROVE  /\ c \in Checkpoint /\ c.serial = serial
         /\ c.from < c.to /\ c.to <= redLen /\ (c.eorp <=> c.to = redLen)
<1>1. G \in SUBSET Octets
  BY LengthAssumption DEF Octets
<1>2. PICK d \in Chunks(G) :
        c = [serial |-> serial, from |-> d.from, to |-> d.to,
             eorp |-> (d.to = redLen), retries |-> 0]
  BY DEF CheckpointRecords
<1>3. /\ d.from \in Nat /\ d.to \in Nat /\ d.from < d.to /\ (d.to - 1) \in G
  BY <1>1, ChunkFacts
<1>4. d.to <= redLen
  BY <1>3, LengthAssumption
<1> QED
  BY <1>2, <1>3, <1>4 DEF Checkpoint

(* A non-empty set of naturals has a least element. *)
LEMMA MinExists ==
  ASSUME NEW S \in SUBSET Nat, S # {}
  PROVE  \E a \in S : \A b \in S : a <= b
<1>1. IsWellFoundedOn(OpToRel(<, Nat), Nat)
  BY NatLessThanWellFounded
<1>2. PICK x \in S : \A y \in S : ~(<<y, x>> \in OpToRel(<, Nat))
  BY <1>1, WFMin, Zenon
<1>3. \A y \in S : y < x => <<y, x>> \in OpToRel(<, Nat)
  BY DEF OpToRel
<1>4. \A y \in S : ~(y < x)
  BY <1>2, <1>3, Zenon
<1> QED
  BY <1>4

(* A non-empty set of octets has a greatest element. *)
LEMMA MaxExists ==
  ASSUME NEW S \in SUBSET Octets, S # {}
  PROVE  \E a \in S : \A b \in S : b <= a
<1> DEFINE T == {n \in Nat : \E b \in S : n = BlockLen - b}
<1>1. \A b \in S : b \in Nat /\ BlockLen - b \in T
  BY LengthAssumption DEF Octets
<1>2. T # {} /\ T \in SUBSET Nat
  BY <1>1
<1>3. PICK n \in T : \A k \in T : n <= k
  BY <1>2, MinExists
<1>4. PICK a \in S : n = BlockLen - a
  OBVIOUS
<1>5. \A b \in S : b <= a
  BY <1>1, <1>3, <1>4, LengthAssumption
<1> QED
  BY <1>5

(* Every natural lies less than n above a multiple of n. *)
LEMMA RoundDown ==
  ASSUME NEW x \in Nat, NEW n \in Nat, n >= 1
  PROVE  \E y \in Nat : y <= x /\ x < y + n /\ y % n = 0
<1>1. x \div n \in Nat /\ x % n \in 0 .. (n - 1) /\ x = n * (x \div n) + (x % n)
  BY Z3T(20)
<1>2. n * (x \div n) \in Nat /\ (n * (x \div n)) % n = 0
  BY <1>1, Z3T(20)
<1>3. n * (x \div n) <= x /\ x < n * (x \div n) + n
  BY <1>1, <1>2
<1> QED
  BY <1>2, <1>3

(* A set of octets to send has a last segment: the one made a checkpoint. *)
LEMMA FinalChunkExists ==
  ASSUME NEW G \in SUBSET Octets, G # {}
  PROVE  \E c \in Chunks(G) : IsFinal(G, c)
<1>1. PICK M \in G : \A b \in G : b <= M
  BY MaxExists
<1> DEFINE A == {a \in G : a .. M \subseteq G}
<1>2. \A b \in G : b \in Nat
  BY LengthAssumption DEF Octets
<1>3. A \in SUBSET Nat /\ M \in A
  BY <1>1, <1>2
<1>4. PICK a \in A : \A b \in A : a <= b
  <2>1. A # {} /\ A \in SUBSET Nat
    BY <1>3
  <2> QED
    BY <2>1, MinExists
<1>5. (a - 1) \notin G
  <2>1. SUFFICES ASSUME (a - 1) \in G PROVE FALSE
    OBVIOUS
  <2>2. (a - 1) .. M \subseteq G
    BY <2>1, <1>2, <1>4
  <2> QED
    BY <2>1, <2>2, <1>2, <1>4
<1>6. PICK y \in Nat : y <= M - a /\ M - a < y + MTU /\ y % MTU = 0
  <2>1. M - a \in Nat
    BY <1>2, <1>3, <1>4
  <2> QED
    BY <2>1, RoundDown, MtuAssumption
<1> DEFINE c == [from |-> a + y, to |-> M + 1]
<1>7. c.from \in G /\ c.from < c.to /\ c.from .. (c.to - 1) \subseteq G
  BY <1>1, <1>2, <1>4, <1>6
<1>8. c.to = c.from + MTU \/ (c.to < c.from + MTU /\ c.to \notin G)
  BY <1>1, <1>2, <1>4, <1>6, MtuAssumption
<1>9. a <= c.from /\ a .. c.from \subseteq G /\ (c.from - a) % MTU = 0
  <2>1. c.from - a = y
    BY <1>2, <1>4
  <2>2. a <= c.from /\ a .. c.from \subseteq G
    BY <1>1, <1>2, <1>4, <1>6
  <2> QED
    BY <2>1, <2>2, <1>6
<1>10. c \in Chunks(G)
  <2>1. c \in [from : G, to : {b + 1 : b \in G}]
    BY <1>1, <1>7
  <2> QED
    BY <2>1, <1>4, <1>5, <1>7, <1>8, <1>9 DEF Chunks
<1>11. IsFinal(G, c)
  BY <1>1, <1>2 DEF IsFinal
<1> QED
  BY <1>10, <1>11

(* Sending a non-empty set of octets always leaves one checkpoint on       *)
(* record.                                                                 *)
LEMMA CheckpointRecordExists ==
  ASSUME NEW redLen \in 0 .. BlockLen, NEW G \in SUBSET (0 .. (redLen - 1)),
         NEW serial \in Nat
  PROVE  G # {} <=> CheckpointRecords(G, redLen, serial) # {}
<1>1. G \in SUBSET Octets
  BY LengthAssumption DEF Octets
<1>2. G # {} => \E c \in Chunks(G) : IsFinal(G, c)
  BY <1>1, FinalChunkExists
<1>3. \A c \in Chunks(G) : c.from \in G
  BY <1>1, ChunkFacts
<1> QED
  BY <1>2, <1>3 DEF CheckpointRecords

(* The number of reports is a natural, and one report suffices for an      *)
(* interval that starts at octet 0.                                        *)
LEMMA NumChunksFacts ==
  ASSUME NEW S \in SUBSET Octets
  PROVE  /\ NumChunks(S) \in Nat
         /\ \A u \in Nat : u > 0 /\ S = 0 .. (u - 1) => NumChunks(S) = 1
<1>1. IsFiniteSet(RunStarts(S))
  <2>1. IsFiniteSet(Octets)
    BY FS_Interval, LengthAssumption DEF Octets
  <2>2. RunStarts(S) \subseteq Octets
    BY DEF RunStarts
  <2> QED
    BY <2>1, <2>2, FS_Subset
<1>2. Cardinality(RunStarts(S)) \in Nat
  BY <1>1, FS_CardinalityType
<1>3. NumChunks(S) \in Nat
  BY <1>2, ClaimAssumption, Z3T(20) DEF NumChunks
<1>4. ASSUME NEW u \in Nat, u > 0, S = 0 .. (u - 1)
      PROVE  NumChunks(S) = 1
  <2>1. RunStarts(S) = {0}
    BY <1>4 DEF RunStarts
  <2>2. Cardinality(RunStarts(S)) = 1
    BY <2>1, FS_Singleton
  <2> QED
    BY <2>2, ClaimAssumption, Z3T(20) DEF NumChunks
<1> QED
  BY <1>3, <1>4
-----------------------------------------------------------------------------
(* The initial state.                                                      *)

(* New and removed sessions are well typed. *)
LEMMA NewSessionTypes == NewSendSession \in SendSession /\ NewRecvSession \in RecvSession
<1>1. (CHOOSE s \in Services : TRUE) \in Services
  BY ServiceAssumption
<1>2. NewSendSession \in SendSession
  BY <1>1, LengthAssumption DEF NewSendSession, SendSession
<1>3. NewRecvSession \in RecvSession
  BY LengthAssumption DEF NewRecvSession, RecvSession, None
<1> QED
  BY <1>2, <1>3

(* The invariant holds before the request. *)
LEMMA InitInv == Init => IInv
<1>1. SUFFICES ASSUME Init PROVE IInv
  OBVIOUS
<1>2. TypeOK
  BY <1>1, NewSessionTypes DEF Init, TypeOK, NoNotices, NoticeCounts
<1>3. IdleInv /\ DataInv /\ CheckpointInv /\ OutcomeInv
  BY <1>1 DEF Init, IdleInv, DataInv, CheckpointInv, OutcomeInv, NewSendSession
<1>4. RecvInv /\ RecordInv /\ ClaimInv
  BY <1>1, LimitAssumption, LengthAssumption
  DEF Init, RecvInv, RecordInv, ClaimInv, NewSendSession, NewRecvSession, Reports, Red, None
<1>5. DeliveryInv /\ MissingInv /\ ProbeInv /\ CloseInv
  BY <1>1 DEF Init, DeliveryInv, MissingInv, ProbeInv, CloseInv, NewSendSession,
              NewRecvSession, Reports, Red, None, IsRedComplete, NoNotices
<1> QED
  BY <1>2, <1>3, <1>4, <1>5 DEF IInv

-----------------------------------------------------------------------------
(* The sender's steps.                                                     *)

(* A notice raises its own counter and no other. *)
LEMMA TellFacts ==
  ASSUME notices \in NoticeCounts
  PROVE  /\ TellCompleted => /\ notices' \in NoticeCounts
                             /\ notices'.completed = notices.completed + 1
                             /\ notices'.sndCancelled = notices.sndCancelled
                             /\ notices'.received = notices.received
                             /\ notices'.rcvCancelled = notices.rcvCancelled
         /\ TellSendCancelled => /\ notices' \in NoticeCounts
                                 /\ notices'.completed = notices.completed
                                 /\ notices'.sndCancelled = notices.sndCancelled + 1
                                 /\ notices'.received = notices.received
                                 /\ notices'.rcvCancelled = notices.rcvCancelled
         /\ TellReceived => /\ notices' \in NoticeCounts
                            /\ notices'.completed = notices.completed
                            /\ notices'.sndCancelled = notices.sndCancelled
                            /\ notices'.received = notices.received + 1
                            /\ notices'.rcvCancelled = notices.rcvCancelled
         /\ TellRecvCancelled => /\ notices' \in NoticeCounts
                                 /\ notices'.completed = notices.completed
                                 /\ notices'.sndCancelled = notices.sndCancelled
                                 /\ notices'.received = notices.received
                                 /\ notices'.rcvCancelled = notices.rcvCancelled + 1
BY DEF NoticeCounts, TellCompleted, TellSendCancelled, TellReceived, TellRecvCancelled

(* The notice counters are naturals. *)
LEMMA CountFacts ==
  ASSUME notices \in NoticeCounts
  PROVE  /\ notices.completed \in Nat /\ notices.sndCancelled \in Nat
         /\ notices.received \in Nat /\ notices.rcvCancelled \in Nat
BY DEF NoticeCounts

(* Steps of the sender leave the receiver's part of the invariant alone    *)
(* when they add no claim and no report.                                   *)
LEMMA SenderFrame ==
  ASSUME IInv, UNCHANGED <<rcv, closed, cancelled>>,
         net \subseteq net', Reports' = Reports,
         snd'.redLen = snd.redLen, snd'.claims \subseteq snd.claims,
         snd'.seen \subseteq snd.seen,
         notices'.received = notices.received,
         notices'.rcvCancelled = notices.rcvCancelled
  PROVE  RecvInv' /\ RecordInv' /\ ClaimInv' /\ DeliveryInv' /\ MissingInv'
<1> USE DEF IInv
<1>1. Red' = Red
  BY DEF Red
<1>2. RecvInv' /\ RecordInv'
  BY <1>1 DEF RecvInv, RecordInv
<1>3. ClaimInv'
  BY <1>1 DEF ClaimInv, Listening
<1>4. DeliveryInv' /\ MissingInv'
  BY <1>1 DEF DeliveryInv, MissingInv, Listening, IsRedComplete
<1> QED
  BY <1>2, <1>3, <1>4

(* A step after which the session is cancelling or gone. *)
LEMMA SenderStops ==
  ASSUME IInv, snd.state # "idle", UNCHANGED <<rcv, closed, cancelled>>,
         net \subseteq net', \A x \in net' : x \in net \/ x \in ReportAck \/ x \in Control,
         snd' \in SendSession, snd'.state \in {"cancelling", "gone"},
         snd'.redLen = snd.redLen, snd'.claims \subseteq snd.claims,
         snd'.seen \subseteq snd.seen, snd'.cps \subseteq snd.cps,
         snd'.state = "gone" => snd'.cps = {} /\ ~snd'.cancelTimer,
         snd'.state = "cancelling" => snd'.lastCp = snd.lastCp /\ snd.redLen > 0,
         notices' \in NoticeCounts, notices'.received = notices.received,
         notices'.rcvCancelled = notices.rcvCancelled,
         snd'.state = "cancelling" => notices'.completed = 0 /\ notices'.sndCancelled > 0,
         snd'.state = "gone" => \/ notices'.completed = 1 /\ notices'.sndCancelled = 0
                                \/ notices'.completed = 0 /\ notices'.sndCancelled > 0
  PROVE  IInv'
<1> USE DEF IInv
<1>2. TypeOK'
  BY DEF TypeOK, Segment
<1>3. \A x \in net' \ net : x.type # "data" /\ x.type # "report"
  BY DEF ReportAck, Control
<1>4. Reports' = Reports
  BY <1>3 DEF Reports
<1>5. IdleInv'
  BY DEF IdleInv
<1>6. DataInv'
  BY <1>3 DEF DataInv
<1>7. CheckpointInv'
  BY DEF CheckpointInv
<1>8. OutcomeInv'
  BY DEF OutcomeInv
<1>9. RecvInv' /\ RecordInv' /\ ClaimInv' /\ DeliveryInv' /\ MissingInv'
  BY <1>4, SenderFrame
<1>10. ProbeInv' /\ CloseInv'
  BY DEF ProbeInv, CloseInv
<1> QED
  BY <1>2, <1>5, <1>6, <1>7, <1>8, <1>9, <1>10

(* The fields of a removed send session. *)
LEMMA RemoveSendSessionFacts ==
  ASSUME snd \in SendSession, RemoveSendSession
  PROVE  /\ snd' \in SendSession /\ snd'.state = "gone" /\ snd'.redLen = snd.redLen
         /\ snd'.claims = {} /\ snd'.seen = {} /\ snd'.cps = {} /\ ~snd'.cancelTimer
<1>1. NewSendSession \in SendSession
  BY NewSessionTypes
<1>2. /\ snd' = [NewSendSession EXCEPT !.state = "gone", !.redLen = snd.redLen,
                                       !.service = snd.service]
      /\ NewSendSession.claims = {} /\ NewSendSession.seen = {} /\ NewSendSession.cps = {}
      /\ NewSendSession.cancelTimer = FALSE
  BY DEF RemoveSendSession, NewSendSession
<1> QED
  BY <1>1, <1>2 DEF SendSession

(* handle_cp_timeout keeps the invariant. *)
LEMMA CpTimeoutStep ==
  ASSUME IInv, NEW c \in snd.cps, HandleCpTimeout(c)
  PROVE  IInv'
<1> USE DEF IInv
<1>0. /\ snd \in SendSession /\ c \in Checkpoint /\ net \subseteq Segment
      /\ snd.state \in {"active", "cancelling"} /\ snd.redLen > 0
      /\ UNCHANGED <<rcv, closed, cancelled>>
  BY DEF HandleCpTimeout, OutcomeInv, IdleInv, TypeOK, SendSession, NewSendSession
<1>1. CASE c.retries < CpRtxLimit
  <2> DEFINE d == [c EXCEPT !.retries = @ + 1]
  <2>1. net' = net \cup {CheckpointSegment(c)} /\ notices' = notices
    BY <1>1 DEF HandleCpTimeout
  <2>2. d \in Checkpoint /\ d.serial = c.serial /\ d.from = c.from
        /\ d.to = c.to /\ d.eorp = c.eorp
    BY <1>0 DEF Checkpoint
  <2>3. /\ snd'.cps = (snd.cps \ {c}) \cup {d}
        /\ snd'.state = snd.state /\ snd'.redLen = snd.redLen /\ snd'.timers = snd.timers
        /\ snd'.lastCp = snd.lastCp /\ snd'.claims = snd.claims /\ snd'.seen = snd.seen
        /\ snd'.cancelTimer = snd.cancelTimer /\ snd' \in SendSession
    BY <1>0, <1>1, <2>2 DEF HandleCpTimeout, SendSession
  <2>4. TypeOK'
    <3>1. CheckpointSegment(c) \in DataSegment
      BY <1>0 DEF Checkpoint, CheckpointSegment, DataSegment
    <3> QED
      BY <1>0, <2>1, <2>3, <3>1 DEF TypeOK, Segment
  <2>5. IdleInv'
    BY <1>0, <2>3 DEF IdleInv
  <2>6. DataInv'
    BY <1>0, <2>1, <2>3, LengthAssumption
    DEF DataInv, CheckpointInv, CheckpointSegment, SendSession, Checkpoint
  <2>7. CheckpointInv'
    BY <2>2, <2>3 DEF CheckpointInv
  <2>8. OutcomeInv'
    BY <1>0, <2>1, <2>3 DEF OutcomeInv, CheckpointSegment, CancelSender, CancelAckSender
  <2>9. Reports' = Reports /\ Red' = Red
    BY <2>1, <2>3 DEF Reports, Red, CheckpointSegment
  <2>10. RecvInv' /\ RecordInv' /\ ClaimInv' /\ DeliveryInv' /\ MissingInv'
    BY <1>0, <2>1, <2>3, <2>9, SenderFrame
  <2>11. snd'.cps # {} /\ ((\A e \in snd.cps : e.serial \in snd.timers)
                            => \A e \in snd'.cps : e.serial \in snd'.timers)
    BY <2>2, <2>3
  <2>12. \A n : (\A e \in snd.cps : e.serial # n) => (\A e \in snd'.cps : e.serial # n)
    BY <2>2, <2>3
  <2>13. ProbeInv'
    BY <2>3, <2>9, <2>11, <2>12 DEF ProbeInv
  <2>14. CloseInv'
    BY <1>0, <2>1, <2>3, <2>9 DEF CloseInv, CheckpointSegment
  <2> QED
    BY <2>4, <2>5, <2>6, <2>7, <2>8, <2>10, <2>13, <2>14
<1>2. CASE ~(c.retries < CpRtxLimit)
  <2>1. /\ net' = net \cup {CancelSender} /\ TellSendCancelled
        /\ snd' = [snd EXCEPT !.state = "cancelling", !.timers = snd.timers \ {c.serial},
                              !.cancelRetries = 1, !.cancelTimer = TRUE]
    BY <1>2 DEF HandleCpTimeout
  <2>2. /\ snd'.state = "cancelling" /\ snd' \in SendSession
        /\ snd'.redLen = snd.redLen /\ snd'.claims = snd.claims /\ snd'.seen = snd.seen
        /\ snd'.cps = snd.cps /\ snd'.lastCp = snd.lastCp
    BY <1>0, <2>1 DEF SendSession
  <2>3. CancelSender \in Control
    BY DEF CancelSender, Control
  <2>4. /\ notices'.completed = 0 /\ notices'.sndCancelled > 0 /\ notices' \in NoticeCounts
        /\ notices'.received = notices.received /\ notices'.rcvCancelled = notices.rcvCancelled
    BY <1>0, <2>1, TellFacts, CountFacts DEF OutcomeInv, TypeOK
  <2> QED
    BY <1>0, <2>1, <2>2, <2>3, <2>4, SenderStops
<1> QED
  BY <1>1, <1>2

(* handle_cancel_timeout at the sender keeps the invariant. *)
LEMMA CancelTimeoutSenderStep ==
  ASSUME IInv, HandleCancelTimeoutSender
  PROVE  IInv'
<1> USE DEF IInv
<1>0. /\ snd \in SendSession /\ snd.state = "cancelling" /\ snd.redLen > 0
      /\ UNCHANGED <<rcv, closed, cancelled, notices>>
      /\ notices'.completed = 0 /\ notices'.sndCancelled > 0 /\ notices' \in NoticeCounts
      /\ notices'.received = notices.received /\ notices'.rcvCancelled = notices.rcvCancelled
  BY DEF HandleCancelTimeoutSender, OutcomeInv, TypeOK
<1>1. CASE snd.cancelRetries < CancelRtxLimit
  <2>1. net' = net \cup {CancelSender} /\ CancelSender \in Control
    BY <1>1 DEF HandleCancelTimeoutSender, CancelSender, Control
  <2>2. /\ snd'.state = "cancelling" /\ snd' \in SendSession
        /\ snd'.redLen = snd.redLen /\ snd'.claims = snd.claims /\ snd'.seen = snd.seen
        /\ snd'.cps = snd.cps /\ snd'.lastCp = snd.lastCp
    BY <1>0, <1>1 DEF HandleCancelTimeoutSender, SendSession
  <2> QED
    BY <1>0, <2>1, <2>2, SenderStops
<1>2. CASE ~(snd.cancelRetries < CancelRtxLimit)
  <2>1. net' = net /\ RemoveSendSession
    BY <1>2 DEF HandleCancelTimeoutSender
  <2> QED
    BY <1>0, <2>1, RemoveSendSessionFacts, SenderStops
<1> QED
  BY <1>1, <1>2

(* handle_inactivity_timeout at the sender keeps the invariant. *)
LEMMA InactivitySenderStep ==
  ASSUME IInv, HandleInactivityTimeoutSender
  PROVE  IInv'
<1> USE DEF IInv
<1>1. /\ snd \in SendSession /\ snd.state \in {"active", "cancelling"}
      /\ UNCHANGED <<rcv, closed, cancelled>>
      /\ net' = net \cup {CancelSender} /\ RemoveSendSession
      /\ CancelSender \in Control
  BY DEF HandleInactivityTimeoutSender, TypeOK, CancelSender, Control
<1>2. /\ notices'.completed = 0 /\ notices'.sndCancelled > 0 /\ notices' \in NoticeCounts
      /\ notices'.received = notices.received /\ notices'.rcvCancelled = notices.rcvCancelled
  BY <1>1, TellFacts, CountFacts DEF HandleInactivityTimeoutSender, OutcomeInv, TypeOK
<1> QED
  BY <1>1, <1>2, RemoveSendSessionFacts, SenderStops

(* A CR at the sender keeps the invariant. *)
LEMMA CancelReceiverStep ==
  ASSUME IInv, NEW m \in net, HandleIncomingCancelReceiver(m)
  PROVE  IInv'
<1> USE DEF IInv
<1>1. /\ snd \in SendSession /\ snd.state # "idle"
      /\ UNCHANGED <<rcv, closed, cancelled>>
      /\ net' = net \cup {CancelAckReceiver} /\ RemoveSendSession
      /\ CancelAckReceiver \in Control
  BY DEF HandleIncomingCancelReceiver, TypeOK, IdleInv, CancelAckReceiver, Control
<1>2. snd.state \in {"active", "cancelling", "gone"}
  BY <1>1 DEF SendSession
<1>3. /\ notices' \in NoticeCounts
      /\ notices'.received = notices.received /\ notices'.rcvCancelled = notices.rcvCancelled
      /\ \/ notices'.completed = 1 /\ notices'.sndCancelled = 0
         \/ notices'.completed = 0 /\ notices'.sndCancelled > 0
  BY <1>2, TellFacts, CountFacts DEF HandleIncomingCancelReceiver, OutcomeInv, TypeOK
<1> QED
  BY <1>1, <1>3, RemoveSendSessionFacts, SenderStops

(* A CAS keeps the invariant: it answers a CS, so the client was told      *)
(* before.                                                                 *)
LEMMA CancelAckSenderStep ==
  ASSUME IInv, NEW m \in net, HandleIncomingCancelAckSender(m)
  PROVE  IInv'
<1> USE DEF IInv
<1>1. /\ snd \in SendSession /\ snd.state # "idle"
      /\ UNCHANGED <<rcv, closed, cancelled, notices, net>> /\ RemoveSendSession
  BY DEF HandleIncomingCancelAckSender, TypeOK, IdleInv
<1>2. m = CancelAckSender
  BY DEF TypeOK, HandleIncomingCancelAckSender, Segment, DataSegment, ReportSegment, ReportAck,
         Control, CancelAckSender
<1>3. snd.state \in {"cancelling", "gone"}
  BY <1>1, <1>2 DEF SendSession, OutcomeInv
<1>4. /\ notices' \in NoticeCounts
      /\ notices'.received = notices.received /\ notices'.rcvCancelled = notices.rcvCancelled
      /\ \/ notices'.completed = 1 /\ notices'.sndCancelled = 0
         \/ notices'.completed = 0 /\ notices'.sndCancelled > 0
  BY <1>1, <1>3 DEF OutcomeInv, TypeOK
<1> QED
  BY <1>1, <1>4, RemoveSendSessionFacts, SenderStops

(* The type field tells the kinds of segments apart. *)
LEMMA SegmentKinds ==
  ASSUME NEW m \in Segment
  PROVE  /\ m.type = "data" => m \in DataSegment
         /\ m.type = "report" => m \in ReportSegment
         /\ m.type = "ra" => m \in ReportAck
BY DEF Segment, DataSegment, ReportSegment, ReportAck, Control

(* A report for a session that is cancelling or gone keeps the invariant. *)
LEMMA ReportIgnoredStep ==
  ASSUME IInv, NEW m \in net, HandleIncomingReport(m), ReportIgnored(m)
  PROVE  IInv'
<1> USE DEF IInv
<1> DEFINE ra == [type |-> "ra", serial |-> m.serial]
<1>1. /\ snd \in SendSession /\ snd.state # "idle" /\ m \in ReportSegment
      /\ UNCHANGED <<rcv, closed, cancelled, notices>> /\ net' = net \cup {ra}
      /\ snd' = [snd EXCEPT !.timers = snd.timers \ {m.cp}]
  BY SegmentKinds DEF HandleIncomingReport, ReportIgnored, TypeOK, IdleInv
<1>2. snd.state \in {"cancelling", "gone"}
  BY <1>1 DEF SendSession, ReportIgnored
<1>3. ra \in ReportAck
  BY <1>1 DEF ReportSegment, ReportAck
<1>4. /\ snd'.state = snd.state /\ snd' \in SendSession
      /\ snd'.redLen = snd.redLen /\ snd'.claims = snd.claims /\ snd'.seen = snd.seen
      /\ snd'.cps = snd.cps /\ snd'.lastCp = snd.lastCp /\ snd'.cancelTimer = snd.cancelTimer
  BY <1>1 DEF SendSession
<1>5. /\ notices' \in NoticeCounts
      /\ notices'.received = notices.received /\ notices'.rcvCancelled = notices.rcvCancelled
      /\ snd.state = "cancelling" => /\ notices'.completed = 0 /\ notices'.sndCancelled > 0
                                     /\ snd.redLen > 0
      /\ snd.state = "gone" => \/ notices'.completed = 1 /\ notices'.sndCancelled = 0
                               \/ notices'.completed = 0 /\ notices'.sndCancelled > 0
      /\ snd.state = "gone" => snd.cps = {} /\ ~snd.cancelTimer
  BY <1>1 DEF OutcomeInv, TypeOK
<1> QED
  BY <1>1, <1>2, <1>3, <1>4, <1>5, SenderStops

(* An active session that stays active: what a step must still establish. *)
LEMMA SenderContinues ==
  ASSUME IInv, snd.state = "active", UNCHANGED <<rcv, closed, cancelled, notices>>,
         snd' \in SendSession, snd'.state = "active", snd'.redLen = snd.redLen,
         snd'.cancelTimer = snd.cancelTimer, snd.lastCp <= snd'.lastCp,
         net \subseteq net',
         \A x \in net' \ net :
            \/ x \in ReportAck /\ x.serial \in snd'.seen
            \/ /\ x \in DataSegment /\ x.red /\ x.from < x.to /\ x.to <= snd.redLen
               /\ x.eorp <=> x.to = snd.redLen /\ x.cp # 0
               /\ x.to = snd.redLen => x.cp # 0
               /\ x.cp <= snd'.lastCp
  PROVE  /\ TypeOK' /\ IdleInv' /\ DataInv' /\ OutcomeInv' /\ RecvInv' /\ RecordInv'
         /\ Reports' = Reports /\ Red' = Red
<1> USE DEF IInv
<1>1. \A x \in net' \ net : x \in Segment /\ x.type \in {"ra", "data"}
  BY DEF Segment, ReportAck, DataSegment
<1>2. TypeOK'
  BY <1>1 DEF TypeOK
<1>3. Reports' = Reports /\ Red' = Red
  BY <1>1 DEF Reports, Red
<1>4. DataInv'
  <2> SUFFICES ASSUME NEW x \in net', x.type = "data"
               PROVE  /\ x.from < x.to /\ x.to <= BlockLen
                      /\ x.red => /\ x.to <= snd'.redLen
                                  /\ x.eorp <=> x.to = snd'.redLen /\ x.cp # 0
                                  /\ x.to = snd'.redLen => x.cp # 0
                      /\ ~x.red => x.from >= snd'.redLen /\ x.cp = 0
                      /\ x.cp <= snd'.lastCp
    BY DEF DataInv
  <2>0. snd.redLen \in 0 .. BlockLen /\ snd.lastCp \in Nat /\ snd'.lastCp \in Nat
    BY DEF TypeOK, SendSession
  <2>1. CASE x \in net
    <3>1. x \in DataSegment
      BY <2>1, SegmentKinds DEF TypeOK
    <3> QED
      BY <2>0, <2>1, <3>1 DEF DataInv, DataSegment
  <2>2. CASE x \notin net
    <3>1. x \in DataSegment /\ x.red /\ x.from < x.to /\ x.to <= snd.redLen
          /\ (x.eorp <=> x.to = snd.redLen /\ x.cp # 0)
          /\ (x.to = snd.redLen => x.cp # 0) /\ x.cp <= snd'.lastCp
      BY <2>2 DEF ReportAck
    <3> QED
      BY <2>0, <3>1, LengthAssumption DEF DataSegment
  <2> QED
    BY <2>1, <2>2
<1>5. OutcomeInv' /\ IdleInv'
  <2>1. CancelSender \notin net' /\ CancelAckSender \notin net'
    BY <1>1 DEF OutcomeInv, CancelSender, CancelAckSender
  <2> QED
    BY <2>1 DEF OutcomeInv, IdleInv
<1>6. RecvInv' /\ RecordInv'
  BY <1>3 DEF RecvInv, RecordInv
<1> QED
  BY <1>2, <1>3, <1>4, <1>5, <1>6

(* A report seen before keeps the invariant. *)
LEMMA ReportDuplicateStep ==
  ASSUME IInv, NEW m \in net, HandleIncomingReport(m), ReportDuplicate(m)
  PROVE  IInv'
<1> USE DEF IInv
<1> DEFINE ra == [type |-> "ra", serial |-> m.serial]
<1>1. /\ snd \in SendSession /\ snd.state = "active" /\ m \in ReportSegment
      /\ m.serial \in snd.seen /\ m \in Reports
      /\ UNCHANGED <<rcv, closed, cancelled, notices>> /\ net' = net \cup {ra}
      /\ snd' = [snd EXCEPT !.timers = snd.timers \ {m.cp},
                            !.cps = {c \in snd.cps : c.serial # m.cp}]
  BY SegmentKinds DEF HandleIncomingReport, ReportDuplicate, TypeOK, Reports
<1>2. ra \in ReportAck /\ ra.serial = m.serial
  BY <1>1 DEF ReportSegment, ReportAck
<1>3. \A c \in snd.cps : c.serial # m.cp
  BY <1>1 DEF ProbeInv
<1>4. /\ snd'.state = snd.state /\ snd' \in SendSession
      /\ snd'.redLen = snd.redLen /\ snd'.claims = snd.claims /\ snd'.seen = snd.seen
      /\ snd'.cps = snd.cps /\ snd'.lastCp = snd.lastCp /\ snd'.cancelTimer = snd.cancelTimer
      /\ snd'.timers = snd.timers \ {m.cp} /\ snd.lastCp \in Nat
  BY <1>1, <1>3 DEF SendSession
<1>5. /\ TypeOK' /\ IdleInv' /\ DataInv' /\ OutcomeInv' /\ RecvInv' /\ RecordInv'
      /\ Reports' = Reports /\ Red' = Red
  BY <1>1, <1>2, <1>4, SenderContinues
<1>6. RecvInv' /\ RecordInv' /\ ClaimInv' /\ DeliveryInv' /\ MissingInv'
  BY <1>1, <1>4, <1>5, SenderFrame
<1>7. CheckpointInv'
  BY <1>4 DEF CheckpointInv
<1>8. ProbeInv'
  BY <1>3, <1>4, <1>5 DEF ProbeInv
<1>9. CloseInv'
  BY <1>1, <1>2, <1>4, <1>5 DEF CloseInv
<1> QED
  BY <1>5, <1>6, <1>7, <1>8, <1>9

(* A new report keeps the invariant: a checkpoint stays armed unless every *)
(* red octet is claimed, and then the red part has been delivered.         *)
LEMMA ReportProcessedStep ==
  ASSUME IInv, NEW m \in net, HandleIncomingReport(m), ReportProcessed(m)
  PROVE  IInv'
<1> USE DEF IInv
<1> DEFINE ra      == [type |-> "ra", serial |-> m.serial]
           claims  == snd.claims \cup (m.claims \cap Red)
           pending == {c \in snd.cps : c.serial # m.cp}
           gaps    == (m.scope \cap Red) \ claims
           serial  == snd.lastCp + 1
           resend  == IF gaps # {} THEN gaps
                      ELSE IF claims # Red /\ pending = {} THEN {snd.redLen - 1} ELSE {}
           segs    == RedSegments(resend, snd.redLen, serial)
           recs    == CheckpointRecords(resend, snd.redLen, serial)
<1>1. /\ snd \in SendSession /\ snd.state = "active" /\ m \in ReportSegment
      /\ m.serial \notin snd.seen /\ m \in Reports
      /\ UNCHANGED <<rcv, closed, cancelled>>
      /\ net' = (net \cup {ra}) \cup segs
  BY SegmentKinds DEF HandleIncomingReport, ReportProcessed, TypeOK, Reports
<1>2. /\ snd.redLen \in 0 .. BlockLen /\ snd.redLen > 0 /\ snd.lastCp \in Nat
      /\ snd.claims \subseteq Octets /\ snd.seen \subseteq Nat /\ snd.timers \subseteq Nat
      /\ snd.cps \subseteq Checkpoint
  BY <1>1 DEF SendSession, OutcomeInv
<1>3. ra \in ReportAck /\ ra.serial = m.serial /\ m.serial \in Nat /\ m.cp \in Nat
  BY <1>1 DEF ReportSegment, ReportAck
<1>4. resend \in SUBSET (0 .. (snd.redLen - 1)) /\ serial \in Nat /\ serial # 0
  BY <1>2 DEF Red
<1>5. CASE claims = Red
  <2>1. resend = {}
    BY <1>5
  <2>2. segs = {}
    BY <2>1 DEF RedSegments, Chunks
  <2>3. RemoveSendSession /\ TellCompleted
    BY <1>5, <1>1 DEF ReportProcessed
  <2>4. /\ notices' \in NoticeCounts /\ notices'.completed = 1 /\ notices'.sndCancelled = 0
        /\ notices'.received = notices.received /\ notices'.rcvCancelled = notices.rcvCancelled
    BY <1>1, <2>3, TellFacts DEF OutcomeInv, TypeOK
  <2> QED
    BY <1>1, <1>3, <2>2, <2>3, <2>4, RemoveSendSessionFacts, SenderStops
<1>6. CASE claims # Red
  <2>1. /\ snd' = [snd EXCEPT
                     !.claims = claims, !.seen = snd.seen \cup {m.serial},
                     !.cps = pending \cup recs,
                     !.timers = (snd.timers \ {m.cp}) \cup (IF resend = {} THEN {} ELSE {serial}),
                     !.lastCp = IF resend = {} THEN snd.lastCp ELSE serial]
        /\ notices' = notices
    BY <1>6, <1>1 DEF ReportProcessed
  <2>2. \A c \in recs : /\ c \in Checkpoint /\ c.serial = serial
                        /\ c.from < c.to /\ c.to <= snd.redLen /\ (c.eorp <=> c.to = snd.redLen)
    BY <1>2, <1>4, CheckpointRecordFacts
  <2>3. resend # {} <=> recs # {}
    <3> HIDE DEF resend, serial
    <3> QED
      BY <1>2, <1>4, CheckpointRecordExists
  <2>4. \A x \in segs : /\ x \in DataSegment /\ x.red
                        /\ x.from < x.to /\ x.to <= snd.redLen
                        /\ x.eorp <=> x.to = snd.redLen /\ x.cp # 0
                        /\ x.to = snd.redLen => x.cp # 0
                        /\ x.cp \in {0, serial}
    BY <1>2, <1>4, RedSegmentFacts
  <2>5. resend = {} => segs = {}
    BY DEF RedSegments, Chunks
  <2>6. claims \subseteq Octets /\ pending \cup recs \subseteq Checkpoint
    BY <1>1, <1>2, <2>2 DEF ReportSegment
  <2> HIDE DEF ra, claims, pending, gaps, resend, segs, recs
  <2>7. /\ snd'.state = "active" /\ snd'.redLen = snd.redLen
        /\ snd'.claims = claims /\ snd'.seen = snd.seen \cup {m.serial}
        /\ snd'.cps = pending \cup recs /\ snd'.cancelTimer = snd.cancelTimer
        /\ snd'.timers = (snd.timers \ {m.cp}) \cup (IF resend = {} THEN {} ELSE {serial})
        /\ snd'.lastCp = (IF resend = {} THEN snd.lastCp ELSE serial)
        /\ snd' \in SendSession
    BY <1>1, <1>2, <1>3, <1>4, <2>1, <2>6 DEF SendSession
  <2>8. \A x \in segs : x.cp <= snd'.lastCp
    BY <1>2, <2>4, <2>5, <2>7
  <2>9. /\ TypeOK' /\ IdleInv' /\ DataInv' /\ OutcomeInv' /\ RecvInv' /\ RecordInv'
        /\ Reports' = Reports /\ Red' = Red
    BY <1>1, <1>2, <1>3, <2>1, <2>4, <2>7, <2>8, SenderContinues
  <2>10. CheckpointInv'
    BY <1>2, <2>2, <2>3, <2>7 DEF CheckpointInv, pending, Checkpoint
  <2>11. claims \subseteq Red /\ claims # Red /\ snd.claims \subseteq claims
    BY <1>1, <1>6 DEF claims, CloseInv
  <2>12. ClaimInv'
    BY <1>1, <1>3, <2>7, <2>9 DEF ClaimInv, Listening, claims
  <2>13. DeliveryInv'
    BY <1>1, <2>1, <2>7 DEF DeliveryInv, Listening, IsRedComplete
  <2>14. MissingInv'
    BY <1>1, <2>1, <2>7, <2>9 DEF MissingInv, claims
  <2>15. ProbeInv'
    <3>1. pending \cup recs # {}
      <4>1. resend = {} => pending # {}
        BY <1>6 DEF resend
      <4> QED
        BY <4>1, <2>3
    <3>2. \A c \in pending \cup recs : c.serial \in snd'.timers
      BY <1>1, <2>2, <2>3, <2>7 DEF pending, ProbeInv
    <3>3. ASSUME NEW x \in Reports
          PROVE  /\ x.cp <= snd'.lastCp
                 /\ \A n \in Reports : n.serial = x.serial => n = x
                 /\ x.serial \in snd'.seen => /\ x.claims \cap Red \subseteq claims
                                              /\ \A c \in pending \cup recs : c.serial # x.cp
      <4>1. x.cp <= snd.lastCp /\ x.cp \in Nat /\ (\A n \in Reports : n.serial = x.serial => n = x)
        BY <1>1, <3>3, SegmentKinds DEF ProbeInv, TypeOK, Reports, ReportSegment
      <4>2. CASE x.serial \in snd.seen
        BY <1>1, <1>2, <2>2, <2>7, <2>11, <4>1, <4>2, <3>3 DEF ProbeInv, pending
      <4>3. CASE x.serial = m.serial
        <5>1. x = m
          BY <1>1, <4>1, <4>3
        <5> QED
          BY <1>2, <2>2, <2>7, <4>1, <5>1 DEF pending, claims
      <4>4. CASE x.serial \notin snd.seen /\ x.serial # m.serial
        BY <1>2, <2>7, <4>1, <4>4
      <4> QED
        BY <4>2, <4>3, <4>4
    <3> QED
      BY <2>7, <2>9, <3>1, <3>2, <3>3 DEF ProbeInv
  <2>16. CloseInv'
    <3>1. \A x \in net' : x.type = "ra" => x.serial \in snd'.seen
      BY <1>1, <1>3, <2>4, <2>7 DEF CloseInv, DataSegment, ra
    <3> QED
      BY <1>1, <2>7, <2>9, <2>11, <3>1 DEF CloseInv
  <2> QED
    BY <2>9, <2>10, <2>12, <2>13, <2>14, <2>15, <2>16
<1> QED
  BY <1>5, <1>6

(* request_transmission establishes the invariant of an active session. *)
LEMMA RequestStep ==
  ASSUME IInv, NEW redLen \in RedLens, NEW service \in Services,
         RequestTransmission(redLen, service)
  PROVE  IInv'
<1> USE DEF IInv
<1> DEFINE R     == 0 .. (redLen - 1)
           reds  == RedSegments(R, redLen, 1)
           green == GreenSegments(redLen .. (BlockLen - 1))
           recs  == CheckpointRecords(R, redLen, 1)
<1>1. /\ redLen \in 0 .. BlockLen /\ snd.state = "idle" /\ net' = (net \cup reds) \cup green
      /\ UNCHANGED <<rcv, closed, cancelled>>
  BY LengthAssumption DEF RequestTransmission
<1>2. /\ snd = NewSendSession /\ rcv = NewRecvSession /\ ~closed /\ ~cancelled /\ net = {}
      /\ notices = NoNotices /\ snd \in SendSession /\ notices \in NoticeCounts
      /\ rcv \in RecvSession
  BY <1>1 DEF IdleInv, TypeOK
<1>3. \A x \in reds : /\ x \in DataSegment /\ x.type = "data" /\ x.red
                      /\ x.from < x.to /\ x.to <= redLen
                      /\ x.eorp <=> x.to = redLen /\ x.cp # 0
                      /\ x.to = redLen => x.cp # 0
                      /\ x.cp \in {0, 1}
  BY <1>1, RedSegmentFacts
<1>4. \A x \in green : /\ x \in DataSegment /\ x.type = "data" /\ ~x.red
                       /\ x.from < x.to /\ x.to <= BlockLen /\ redLen <= x.from /\ x.cp = 0
  <2> SUFFICES ASSUME NEW x \in green
               PROVE  /\ x \in DataSegment /\ x.type = "data" /\ ~x.red
                      /\ x.from < x.to /\ x.to <= BlockLen /\ redLen <= x.from /\ x.cp = 0
    OBVIOUS
  <2> DEFINE G == redLen .. (BlockLen - 1)
  <2>1. G \in SUBSET Octets
    BY <1>1, LengthAssumption DEF Octets
  <2>2. PICK c \in Chunks(G) : x = [type |-> "data", red |-> FALSE, from |-> c.from,
                                     to |-> c.to, cp |-> 0, eorp |-> FALSE]
    BY DEF GreenSegments
  <2>3. c.from \in Nat /\ c.to \in Nat /\ c.from < c.to /\ c.to <= BlockLen /\ c.from \in G
    BY <2>1, ChunkFacts
  <2> QED
    BY <1>1, <2>2, <2>3 DEF DataSegment
<1>5. \A c \in recs : /\ c \in Checkpoint /\ c.serial = 1
                      /\ c.from < c.to /\ c.to <= redLen /\ (c.eorp <=> c.to = redLen)
  BY <1>1, CheckpointRecordFacts
<1>6. redLen > 0 => recs # {}
  <2>0. redLen > 0 => 0 \in R
    BY <1>1
  <2>1. redLen > 0 => R # {}
    BY <2>0
  <2> HIDE DEF R
  <2>2. R \in SUBSET (0 .. (redLen - 1))
    BY DEF R
  <2> QED
    BY <1>1, <2>1, <2>2, CheckpointRecordExists
<1> HIDE DEF R, reds, green, recs
<1>7. /\ snd.redLen = 0 /\ snd.cps = {} /\ snd.timers = {} /\ snd.lastCp = 0
      /\ snd.claims = {} /\ snd.seen = {} /\ snd.cancelTimer = FALSE
  BY <1>2 DEF NewSendSession
<1>8. /\ rcv.state = "none" /\ rcv.got = {} /\ rcv.redLen = None /\ rcv.minGreen = BlockLen
      /\ rcv.reports = {} /\ rcv.lastRS = 0 /\ rcv.delivered = FALSE /\ rcv.reason = "none"
      /\ rcv.cancelTimer = FALSE
  BY <1>2 DEF NewRecvSession
<1>9. \A x \in net' : x \in DataSegment /\ x.type = "data"
  BY <1>1, <1>2, <1>3, <1>4
<1>10. Reports' = {} /\ CancelSender \notin net' /\ CancelAckSender \notin net'
  BY <1>9 DEF Reports, CancelSender, CancelAckSender
<1>11. /\ snd' \in SendSession /\ snd'.redLen = redLen /\ snd'.claims = {} /\ snd'.seen = {}
       /\ snd'.cancelTimer = FALSE /\ notices' \in NoticeCounts
       /\ notices'.received = 0 /\ notices'.rcvCancelled = 0
       /\ \/ /\ redLen = 0 /\ snd'.state = "gone" /\ snd'.cps = {}
             /\ notices'.completed = 1 /\ notices'.sndCancelled = 0
          \/ /\ redLen > 0 /\ snd'.state = "active" /\ snd'.cps = recs /\ snd'.timers = {1}
             /\ snd'.lastCp = 1 /\ notices'.completed = 0 /\ notices'.sndCancelled = 0
  <2>0. /\ notices.completed = 0 /\ notices.sndCancelled = 0 /\ notices.received = 0
        /\ notices.rcvCancelled = 0
    BY <1>2 DEF NoNotices
  <2>1. CASE redLen = 0
    <3>1. snd' = [snd EXCEPT !.state = "gone", !.service = service] /\ TellCompleted
      BY <2>1 DEF RequestTransmission
    <3>2. /\ snd' \in SendSession /\ snd'.redLen = redLen /\ snd'.claims = {} /\ snd'.seen = {}
          /\ snd'.cancelTimer = FALSE /\ snd'.state = "gone" /\ snd'.cps = {}
      BY <1>2, <1>7, <2>1, <3>1 DEF SendSession
    <3> QED
      BY <1>2, <2>0, <2>1, <3>1, <3>2, TellFacts
  <2>2. CASE redLen # 0
    <3>1. /\ snd' = [snd EXCEPT !.state = "active", !.redLen = redLen, !.service = service,
                                !.lastCp = 1, !.timers = {1}, !.cps = recs]
          /\ notices' = notices
      BY <2>2 DEF RequestTransmission, recs, R
    <3>2. recs \in SUBSET Checkpoint /\ {1} \in SUBSET Nat /\ 1 \in Nat
      BY <1>5
    <3>3. /\ snd' \in SendSession /\ snd'.redLen = redLen /\ snd'.claims = {} /\ snd'.seen = {}
          /\ snd'.cancelTimer = FALSE /\ snd'.state = "active" /\ snd'.cps = recs
          /\ snd'.timers = {1} /\ snd'.lastCp = 1
      BY <1>1, <1>2, <1>7, <3>1, <3>2 DEF SendSession
    <3> QED
      BY <1>1, <1>2, <2>0, <2>2, <3>1, <3>3
  <2> QED
    BY <2>1, <2>2
<1>12. Red' = 0 .. (redLen - 1)
  BY <1>11 DEF Red
<1>13. TypeOK'
  BY <1>1, <1>2, <1>9, <1>11 DEF TypeOK, Segment
<1>14. IdleInv' /\ OutcomeInv'
  BY <1>1, <1>10, <1>11 DEF IdleInv, OutcomeInv
<1>15. DataInv'
  BY <1>1, <1>2, <1>3, <1>4, <1>9, <1>11, LengthAssumption DEF DataInv, DataSegment
<1>16. CheckpointInv'
  BY <1>1, <1>5, <1>11 DEF CheckpointInv
<1>17. RecvInv' /\ RecordInv' /\ ClaimInv'
  BY <1>1, <1>2, <1>8, <1>10, <1>11, <1>12, LimitAssumption
  DEF RecvInv, RecordInv, ClaimInv, None
<1>18. DeliveryInv'
  BY <1>1, <1>2, <1>8, <1>11 DEF DeliveryInv, IsRedComplete
<1>19. MissingInv'
  BY <1>1, <1>10, <1>11, <1>12 DEF MissingInv
<1>20. ProbeInv'
  BY <1>5, <1>6, <1>10, <1>11 DEF ProbeInv
<1>21. CloseInv'
  BY <1>1, <1>2, <1>8, <1>9, <1>11, <1>12 DEF CloseInv
<1> QED
  BY <1>13, <1>14, <1>15, <1>16, <1>17, <1>18, <1>19, <1>20, <1>21
-----------------------------------------------------------------------------
(* The receiver's steps.                                                   *)

(* Steps of the receiver leave the sender's part of the invariant alone. *)
LEMMA ReceiverFrame ==
  ASSUME IInv, snd.state # "idle", UNCHANGED snd,
         notices' \in NoticeCounts, notices'.completed = notices.completed,
         notices'.sndCancelled = notices.sndCancelled,
         net \subseteq net',
         \A x \in net' \ net :
            \/ x \in ReportSegment
            \/ x \in Control /\ x # CancelSender /\ (x = CancelAckSender => CancelSender \in net),
         rcv' \in RecvSession, closed' \in BOOLEAN, cancelled' \in BOOLEAN
  PROVE  TypeOK' /\ IdleInv' /\ DataInv' /\ CheckpointInv' /\ OutcomeInv' /\ Red' = Red
<1> USE DEF IInv
<1>1. TypeOK'
  BY DEF TypeOK, Segment
<1>2. \A x \in net' \ net : x.type # "data"
  BY DEF ReportSegment, Control
<1>3. IdleInv' /\ DataInv' /\ CheckpointInv' /\ Red' = Red
  BY <1>2 DEF IdleInv, DataInv, CheckpointInv, Red
<1>4. OutcomeInv'
  <2>1. CancelSender \notin ReportSegment /\ CancelAckSender \notin ReportSegment
    BY DEF CancelSender, CancelAckSender, ReportSegment
  <2>2. (CancelSender \in net' \/ CancelAckSender \in net')
           => (CancelSender \in net \/ CancelAckSender \in net)
    BY <2>1
  <2> QED
    BY <2>2 DEF OutcomeInv
<1> QED
  BY <1>1, <1>3, <1>4

(* A step that issues no report. *)
LEMMA ReceiverQuiet ==
  ASSUME IInv, UNCHANGED snd, net \subseteq net',
         \A x \in net' \ net : x \in Control,
         notices'.received = 0 => notices.received = 0
  PROVE  Reports' = Reports /\ MissingInv' /\ ProbeInv'
<1> USE DEF IInv
<1>1. \A x \in net' \ net : x.type # "report"
  BY DEF Control
<1>2. Reports' = Reports /\ Red' = Red
  BY <1>1 DEF Reports, Red
<1> QED
  BY <1>2 DEF MissingInv, ProbeInv

(* A step that removes the session and records its id as cancelled. *)
LEMMA ReceiverGone ==
  ASSUME IInv, snd.state # "idle", UNCHANGED <<snd, closed>>, rcv' = NewRecvSession, cancelled',
         net \subseteq net', cancelled' \in BOOLEAN,
         \A x \in net' \ net :
            x \in Control /\ x # CancelSender /\ (x = CancelAckSender => CancelSender \in net),
         notices' \in NoticeCounts, notices'.completed = notices.completed,
         notices'.sndCancelled = notices.sndCancelled, notices'.received = notices.received
  PROVE  IInv'
<1> USE DEF IInv
<1>1. rcv' \in RecvSession /\ closed' \in BOOLEAN
  BY NewSessionTypes DEF TypeOK
<1>2. TypeOK' /\ IdleInv' /\ DataInv' /\ CheckpointInv' /\ OutcomeInv' /\ Red' = Red
  BY <1>1, ReceiverFrame
<1>3. Reports' = Reports /\ MissingInv' /\ ProbeInv'
  BY ReceiverQuiet
<1>4. /\ rcv'.state = "none" /\ rcv'.got = {} /\ rcv'.redLen = None /\ rcv'.minGreen = BlockLen
      /\ rcv'.reports = {} /\ rcv'.lastRS = 0 /\ rcv'.delivered = FALSE /\ rcv'.reason = "none"
      /\ rcv'.cancelTimer = FALSE
  BY DEF NewRecvSession
<1>5. RecvInv'
  <2>1. snd.redLen \in 0 .. BlockLen
    BY DEF TypeOK, SendSession
  <2> QED
    BY <1>4, <2>1, LimitAssumption, LengthAssumption DEF RecvInv, None
<1>6. RecordInv' /\ ClaimInv' /\ CloseInv'
  <2>1. \A m \in net' : m.type = "ra" => m \in net
    BY DEF Control
  <2> QED
    BY <1>2, <1>4, <2>1 DEF RecordInv, ClaimInv, CloseInv, Listening
<1>7. DeliveryInv'
  BY <1>4 DEF DeliveryInv, Listening
<1> QED
  BY <1>2, <1>3, <1>5, <1>6, <1>7

(* A CS at the receiver keeps the invariant. *)
LEMMA CancelSenderStep ==
  ASSUME IInv, NEW m \in net, HandleIncomingCancelSender(m)
  PROVE  IInv'
<1> USE DEF IInv
<1>1. /\ snd.state # "idle" /\ UNCHANGED <<snd, closed>> /\ rcv' = NewRecvSession
      /\ cancelled' = TRUE /\ net' = net \cup {CancelAckSender} /\ m = CancelSender
  BY DEF HandleIncomingCancelSender, RemoveRecvSession, IdleInv, TypeOK, Segment, DataSegment,
         ReportSegment, ReportAck, Control, CancelSender
<1>2. CancelAckSender \in Control /\ CancelAckSender # CancelSender
  BY DEF CancelAckSender, CancelSender, Control
<1>3. /\ notices' \in NoticeCounts /\ notices'.completed = notices.completed
      /\ notices'.sndCancelled = notices.sndCancelled /\ notices'.received = notices.received
  BY TellFacts DEF HandleIncomingCancelSender, TypeOK
<1> QED
  BY <1>1, <1>2, <1>3, ReceiverGone

(* A CAR keeps the invariant. *)
LEMMA CancelAckReceiverStep ==
  ASSUME IInv, NEW m \in net, HandleIncomingCancelAckReceiver(m)
  PROVE  IInv'
<1> USE DEF IInv
<1>1. /\ snd.state # "idle" /\ UNCHANGED <<snd, closed, net, notices>> /\ rcv' = NewRecvSession
      /\ cancelled' = TRUE /\ notices \in NoticeCounts
  BY DEF HandleIncomingCancelAckReceiver, RemoveRecvSession, IdleInv, TypeOK
<1> QED
  BY <1>1, ReceiverGone

(* handle_inactivity_timeout at the receiver keeps the invariant. *)
LEMMA InactivityReceiverStep ==
  ASSUME IInv, HandleInactivityTimeoutReceiver
  PROVE  IInv'
<1> USE DEF IInv
<1>1. /\ snd.state # "idle" /\ UNCHANGED <<snd, closed>> /\ rcv' = NewRecvSession
      /\ cancelled' = TRUE /\ net' = net \cup {CancelReceiver}
  BY DEF HandleInactivityTimeoutReceiver, RemoveRecvSession, IdleInv, NewRecvSession
<1>2. CancelReceiver \in Control /\ CancelReceiver # CancelSender /\ CancelReceiver # CancelAckSender
  BY DEF CancelAckSender, CancelSender, CancelReceiver, Control
<1>3. /\ notices' \in NoticeCounts /\ notices'.completed = notices.completed
      /\ notices'.sndCancelled = notices.sndCancelled /\ notices'.received = notices.received
  BY TellFacts DEF HandleInactivityTimeoutReceiver, TypeOK
<1> QED
  BY <1>1, <1>2, <1>3, ReceiverGone

(* A step into, or within, the cancelling state that keeps what the        *)
(* session holds.                                                          *)
LEMMA ReceiverCancels ==
  ASSUME IInv, snd.state # "idle", UNCHANGED <<snd, closed>>,
         rcv.state # "none" \/ Listening,
         rcv' \in RecvSession, rcv'.state = "cancelling",
         rcv'.got = rcv.got, rcv'.redLen = rcv.redLen, rcv'.minGreen = rcv.minGreen,
         rcv'.reports = rcv.reports, rcv'.lastRS = rcv.lastRS,
         rcv'.delivered = rcv.delivered, rcv'.reason # "miscolored",
         cancelled' \in BOOLEAN, net' = net \cup {CancelReceiver},
         notices' \in NoticeCounts, notices'.completed = notices.completed,
         notices'.sndCancelled = notices.sndCancelled, notices'.received = notices.received
  PROVE  IInv'
<1> USE DEF IInv
<1>1. CancelReceiver \in Control /\ CancelReceiver # CancelSender /\ CancelReceiver # CancelAckSender
  BY DEF CancelAckSender, CancelSender, CancelReceiver, Control
<1>2. closed' \in BOOLEAN
  BY DEF TypeOK
<1>3. TypeOK' /\ IdleInv' /\ DataInv' /\ CheckpointInv' /\ OutcomeInv' /\ Red' = Red
  BY <1>1, <1>2, ReceiverFrame
<1>4. Reports' = Reports /\ MissingInv' /\ ProbeInv'
  BY <1>1, ReceiverQuiet
<1>5. RecvInv' /\ RecordInv'
  BY <1>3 DEF RecvInv, RecordInv
<1>6. ClaimInv' /\ CloseInv'
  BY <1>3 DEF ClaimInv, CloseInv, Listening, CancelReceiver
<1>7. DeliveryInv'
  BY DEF DeliveryInv, Listening
<1> QED
  BY <1>3, <1>4, <1>5, <1>6, <1>7

(* handle_cancel_timeout at the receiver keeps the invariant. *)
LEMMA CancelTimeoutReceiverStep ==
  ASSUME IInv, HandleCancelTimeoutReceiver
  PROVE  IInv'
<1> USE DEF IInv
<1>1. /\ snd.state # "idle" /\ UNCHANGED <<snd, closed, notices>> /\ rcv.state = "cancelling"
      /\ notices \in NoticeCounts /\ rcv \in RecvSession /\ cancelled \in BOOLEAN
  BY DEF HandleCancelTimeoutReceiver, IdleInv, NewRecvSession, RecvInv, TypeOK
<1>2. CASE rcv.cancelRetries < CancelRtxLimit
  <2>1. /\ rcv' = [rcv EXCEPT !.cancelRetries = rcv.cancelRetries + 1] /\ cancelled' = cancelled
        /\ net' = net \cup {CancelReceiver}
    BY <1>2 DEF HandleCancelTimeoutReceiver
  <2>2. /\ rcv' \in RecvSession /\ rcv'.state = "cancelling"
        /\ rcv'.got = rcv.got /\ rcv'.redLen = rcv.redLen /\ rcv'.minGreen = rcv.minGreen
        /\ rcv'.reports = rcv.reports /\ rcv'.lastRS = rcv.lastRS
        /\ rcv'.delivered = rcv.delivered /\ rcv'.reason = rcv.reason
    BY <1>1, <2>1 DEF RecvSession
  <2>3. rcv'.reason # "miscolored"
    BY <2>2 DEF RecvInv
  <2> QED
    BY <1>1, <2>1, <2>2, <2>3, ReceiverCancels
<1>3. CASE ~(rcv.cancelRetries < CancelRtxLimit)
  <2>1. rcv' = NewRecvSession /\ cancelled' = TRUE /\ net' = net
    BY <1>3 DEF HandleCancelTimeoutReceiver, RemoveRecvSession
  <2> QED
    BY <1>1, <2>1, ReceiverGone
<1> QED
  BY <1>2, <1>3

(* handle_rs_timeout keeps the invariant. *)
LEMMA RsTimeoutStep ==
  ASSUME IInv, NEW r \in rcv.reports, HandleRsTimeout(r)
  PROVE  IInv'
<1> USE DEF IInv
<1>1. /\ snd.state # "idle" /\ UNCHANGED <<snd, closed, cancelled>> /\ rcv.state # "none"
      /\ notices \in NoticeCounts /\ rcv \in RecvSession /\ r \in ReportRecord
      /\ cancelled \in BOOLEAN /\ closed \in BOOLEAN /\ ~r.acked
  BY DEF HandleRsTimeout, IdleInv, NewRecvSession, RecvInv, TypeOK, RecvSession
<1>2. CASE r.retries < RsRtxLimit
  <2> DEFINE q == [r EXCEPT !.retries = @ + 1]
  <2>1. /\ rcv' = [rcv EXCEPT !.reports = (rcv.reports \ {r}) \cup {q}]
        /\ net' = net \cup {r.rs} /\ notices' = notices
    BY <1>2 DEF HandleRsTimeout
  <2>2. net' = net
    BY <2>1 DEF RecordInv
  <2>3. q \in ReportRecord /\ q.rs = r.rs /\ q.acked = r.acked
    BY <1>1 DEF ReportRecord
  <2> HIDE DEF q
  <2>4. /\ rcv' \in RecvSession /\ rcv'.state = rcv.state
        /\ rcv'.got = rcv.got /\ rcv'.redLen = rcv.redLen /\ rcv'.minGreen = rcv.minGreen
        /\ rcv'.reports = (rcv.reports \ {r}) \cup {q} /\ rcv'.lastRS = rcv.lastRS
        /\ rcv'.delivered = rcv.delivered /\ rcv'.reason = rcv.reason
        /\ rcv'.cancelTimer = rcv.cancelTimer
    BY <1>1, <2>1, <2>3 DEF RecvSession
  <2>5. TypeOK' /\ IdleInv' /\ DataInv' /\ CheckpointInv' /\ OutcomeInv' /\ Red' = Red
    BY <1>1, <2>1, <2>2, <2>4, ReceiverFrame
  <2>6. Reports' = Reports /\ MissingInv' /\ ProbeInv'
    BY <1>1, <2>1, <2>2, ReceiverQuiet
  <2>7. RecvInv'
    BY <1>1, <2>4, <2>5 DEF RecvInv
  <2>8. RecordInv'
    BY <2>2, <2>3, <2>4 DEF RecordInv
  <2>9. ClaimInv' /\ CloseInv'
    BY <1>1, <2>2, <2>3, <2>4, <2>5, <2>6 DEF ClaimInv, CloseInv, Listening
  <2>10. DeliveryInv'
    BY <1>1, <2>1, <2>4 DEF DeliveryInv, Listening, IsRedComplete
  <2> QED
    BY <2>5, <2>6, <2>7, <2>8, <2>9, <2>10
<1>3. CASE ~(r.retries < RsRtxLimit)
  <2>1. /\ rcv' = [rcv EXCEPT !.state = "cancelling", !.reason = "rlexc",
                              !.timers = rcv.timers \ {r.rs.serial},
                              !.cancelRetries = 1, !.cancelTimer = TRUE]
        /\ net' = net \cup {CancelReceiver} /\ TellRecvCancelled
    BY <1>3 DEF HandleRsTimeout
  <2>2. /\ rcv' \in RecvSession /\ rcv'.state = "cancelling"
        /\ rcv'.got = rcv.got /\ rcv'.redLen = rcv.redLen /\ rcv'.minGreen = rcv.minGreen
        /\ rcv'.reports = rcv.reports /\ rcv'.lastRS = rcv.lastRS
        /\ rcv'.delivered = rcv.delivered /\ rcv'.reason = "rlexc"
    BY <1>1, <2>1 DEF RecvSession
  <2>3. /\ notices' \in NoticeCounts /\ notices'.completed = notices.completed
        /\ notices'.sndCancelled = notices.sndCancelled /\ notices'.received = notices.received
    BY <1>1, <2>1, TellFacts
  <2> QED
    BY <1>1, <2>1, <2>2, <2>3, ReceiverCancels
<1> QED
  BY <1>2, <1>3

(* A report acknowledgement keeps the invariant: acknowledged claims are   *)
(* merged claims, so the session is closed only once the sender is done.   *)
LEMMA ReportAckStep ==
  ASSUME IInv, NEW m \in net, HandleIncomingReportAck(m)
  PROVE  IInv'
<1> USE DEF IInv
<1> DEFINE s == [rcv EXCEPT !.timers = @ \ {m.serial}]
           Acked(r) == IF r.rs.serial = m.serial THEN [r EXCEPT !.acked = TRUE] ELSE r
           marked == {Acked(r) : r \in rcv.reports}
           t == [s EXCEPT !.reports = marked]
<1>1. /\ snd.state # "idle" /\ UNCHANGED <<snd, cancelled, net, notices>> /\ m.type = "ra"
      /\ notices \in NoticeCounts /\ rcv \in RecvSession
      /\ cancelled \in BOOLEAN /\ closed \in BOOLEAN
  BY DEF HandleIncomingReportAck, IdleInv, TypeOK
<1>2. IF rcv.state # "open"
      THEN rcv' = s /\ closed' = closed
      ELSE IF IsRedComplete(t) /\ t.delivered /\ 0 .. (t.redLen - 1) \subseteq Coverage(t)
           THEN rcv' = NewRecvSession /\ closed' = TRUE
           ELSE rcv' = t /\ closed' = closed
  BY DEF HandleIncomingReportAck, RemoveRecvSession
<1>3. \A r \in rcv.reports : /\ r \in ReportRecord /\ Acked(r) \in ReportRecord /\ Acked(r).rs = r.rs
                             /\ Acked(r).acked => r.acked \/ r.rs.serial = m.serial
                             /\ Acked(r) \in marked
  BY <1>1 DEF RecvSession, ReportRecord
<1>4. \A q \in marked : \E r \in rcv.reports : q = Acked(r)
  OBVIOUS
<1>5. marked \in SUBSET ReportRecord
  BY <1>3, <1>4
<1> HIDE DEF Acked, marked
<1>6. /\ s \in RecvSession /\ s.state = rcv.state
      /\ s.got = rcv.got /\ s.redLen = rcv.redLen /\ s.minGreen = rcv.minGreen
      /\ s.reports = rcv.reports /\ s.lastRS = rcv.lastRS
      /\ s.delivered = rcv.delivered /\ s.reason = rcv.reason
      /\ s.cancelTimer = rcv.cancelTimer
  BY <1>1 DEF RecvSession
<1>7. rcv.state = "none" => s = NewRecvSession
  <2>1. SUFFICES ASSUME rcv.state = "none" PROVE s = NewRecvSession
    OBVIOUS
  <2>2. rcv = NewRecvSession
    BY <2>1 DEF RecvInv
  <2>3. rcv.timers \ {m.serial} = rcv.timers
    BY <2>2 DEF NewRecvSession
  <2> QED
    BY <2>2, <2>3 DEF NewRecvSession
<1> HIDE DEF s
<1>8. /\ t \in RecvSession /\ t.state = rcv.state
      /\ t.got = rcv.got /\ t.redLen = rcv.redLen /\ t.minGreen = rcv.minGreen
      /\ t.reports = marked /\ t.lastRS = rcv.lastRS
      /\ t.delivered = rcv.delivered /\ t.reason = rcv.reason
      /\ t.cancelTimer = rcv.cancelTimer
  BY <1>5, <1>6 DEF RecvSession
<1> HIDE DEF t
<1>9. Reports' = Reports /\ MissingInv' /\ ProbeInv'
  BY <1>1, ReceiverQuiet
<1>10. CASE rcv.state # "open"
  <2>1. rcv' = s /\ closed' = closed
    BY <1>2, <1>10
  <2>2. TypeOK' /\ IdleInv' /\ DataInv' /\ CheckpointInv' /\ OutcomeInv' /\ Red' = Red
    BY <1>1, <1>6, <2>1, ReceiverFrame
  <2>3. RecvInv' /\ RecordInv'
    BY <1>1, <1>6, <1>7, <2>1, <2>2 DEF RecvInv, RecordInv
  <2>4. ClaimInv' /\ CloseInv' /\ DeliveryInv'
    BY <1>1, <1>6, <1>9, <1>10, <2>1, <2>2 DEF ClaimInv, CloseInv, DeliveryInv, Listening
  <2> QED
    BY <1>9, <2>2, <2>3, <2>4
<1>11. CASE rcv.state = "open" /\ rcv' = t /\ closed' = closed
  <2>2. TypeOK' /\ IdleInv' /\ DataInv' /\ CheckpointInv' /\ OutcomeInv' /\ Red' = Red
    BY <1>1, <1>8, <1>11, ReceiverFrame
  <2>3. RecvInv'
    BY <1>1, <1>8, <1>11, <2>2 DEF RecvInv
  <2>4. RecordInv'
    BY <1>1, <1>3, <1>4, <1>8, <1>11 DEF RecordInv
  <2>5. ClaimInv' /\ DeliveryInv'
    BY <1>1, <1>8, <1>9, <1>11, <2>2 DEF ClaimInv, DeliveryInv, Listening, IsRedComplete
  <2>6. CloseInv'
    BY <1>1, <1>3, <1>4, <1>8, <1>11, <2>2 DEF CloseInv
  <2> QED
    BY <1>9, <2>2, <2>3, <2>4, <2>5, <2>6
<1>12. CASE /\ rcv.state = "open" /\ rcv' = NewRecvSession /\ closed' = TRUE
            /\ IsRedComplete(t) /\ t.delivered /\ 0 .. (t.redLen - 1) \subseteq Coverage(t)
  <2>1. rcv' \in RecvSession /\ closed' \in BOOLEAN
    BY <1>12, NewSessionTypes
  <2>2. TypeOK' /\ IdleInv' /\ DataInv' /\ CheckpointInv' /\ OutcomeInv' /\ Red' = Red
    BY <1>1, <2>1, ReceiverFrame
  <2>3. t.redLen = snd.redLen /\ snd.redLen > 0 /\ notices.received = 1
    BY <1>8, <1>12 DEF IsRedComplete, RecvInv, DeliveryInv
  <2>4. snd.state # "active"
    <3>1. SUFFICES ASSUME snd.state = "active" PROVE FALSE
      OBVIOUS
    <3>2. \A q \in marked : q.acked => q.rs.claims \cap Red \subseteq snd.claims
      <4>1. SUFFICES ASSUME NEW q \in marked, q.acked
                     PROVE  q.rs.claims \cap Red \subseteq snd.claims
        OBVIOUS
      <4>2. PICK r \in rcv.reports : q = Acked(r)
        BY <1>4
      <4>3. q.rs = r.rs /\ (r.acked \/ r.rs.serial = m.serial)
        BY <1>3, <4>1, <4>2
      <4>4. r.rs.serial \in snd.seen
        BY <1>1, <3>1, <4>3 DEF CloseInv
      <4>5. r.rs \in Reports
        BY <1>3 DEF RecordInv, Reports, ReportRecord, ReportSegment
      <4> QED
        BY <3>1, <4>3, <4>4, <4>5 DEF ProbeInv
    <3>3. Red \subseteq snd.claims
      BY <1>8, <1>12, <2>3, <3>2 DEF Coverage, Red
    <3> QED
      BY <3>1, <3>3 DEF CloseInv
  <2>5. /\ rcv'.state = "none" /\ rcv'.got = {} /\ rcv'.redLen = None /\ rcv'.minGreen = BlockLen
        /\ rcv'.reports = {} /\ rcv'.lastRS = 0 /\ rcv'.delivered = FALSE /\ rcv'.reason = "none"
        /\ rcv'.cancelTimer = FALSE
    BY <1>12 DEF NewRecvSession
  <2>6. RecvInv'
    <3>1. snd.redLen \in 0 .. BlockLen
      BY DEF TypeOK, SendSession
    <3> QED
      BY <1>1, <1>12, <2>5, <3>1, LimitAssumption, LengthAssumption DEF RecvInv, None
  <2>7. RecordInv' /\ ClaimInv' /\ CloseInv'
    BY <1>1, <1>12, <2>4, <2>5 DEF RecordInv, ClaimInv, CloseInv, Listening
  <2>8. DeliveryInv'
    BY <1>1, <1>12, <2>3, <2>5 DEF DeliveryInv, Listening
  <2> QED
    BY <1>9, <2>2, <2>6, <2>7, <2>8
<1> QED
  BY <1>2, <1>10, <1>11, <1>12

(* The full claim for a closed session keeps the invariant: the red part   *)
(* has been delivered and the sender is done.                              *)
LEMMA DataAfterCloseStep ==
  ASSUME IInv, NEW m \in net, m.type = "data", DataAfterClose(m), UNCHANGED <<snd, closed>>
  PROVE  IInv'
<1> USE DEF IInv
<1> DEFINE x == [type |-> "report", serial |-> 1, cp |-> m.cp,
                 scope |-> 0 .. (m.to - 1), claims |-> 0 .. (m.to - 1)]
<1>1. /\ snd.state # "idle" /\ closed /\ UNCHANGED <<rcv, cancelled, notices>>
      /\ net' = net \cup {x} /\ rcv \in RecvSession /\ notices \in NoticeCounts
      /\ cancelled \in BOOLEAN /\ closed \in BOOLEAN
  BY DEF DataAfterClose, IdleInv, TypeOK
<1>2. m \in DataSegment /\ m.to <= BlockLen
  BY DEF TypeOK, Segment, ReportSegment, ReportAck, Control, DataSegment, DataInv
<1>3. x \in ReportSegment
  <2>1. 0 .. (m.to - 1) \subseteq Octets
    BY <1>2, LengthAssumption DEF DataSegment, Octets
  <2> QED
    BY <1>2, <2>1 DEF ReportSegment, DataSegment
<1>4. x.type # "ra"
  OBVIOUS
<1> HIDE DEF x
<1>5. TypeOK' /\ IdleInv' /\ DataInv' /\ CheckpointInv' /\ OutcomeInv' /\ Red' = Red
  BY <1>1, <1>3, ReceiverFrame
<1>6. snd.state # "active" /\ notices.received = 1
  BY <1>1 DEF CloseInv, DeliveryInv
<1>7. RecvInv' /\ RecordInv' /\ ClaimInv'
  BY <1>1, <1>5 DEF RecvInv, RecordInv, ClaimInv, Listening
<1>8. DeliveryInv'
  BY <1>1 DEF DeliveryInv, Listening, IsRedComplete
<1>9. MissingInv' /\ ProbeInv' /\ CloseInv'
  BY <1>1, <1>6 DEF MissingInv, ProbeInv, CloseInv
<1> QED
  BY <1>5, <1>7, <1>8, <1>9

(* A data segment the receiver takes in: it may go on listening or start   *)
(* to cancel, it may issue reports with new serials on what it now holds.  *)
LEMMA ReceiverStores ==
  ASSUME IInv, snd.state # "idle", Listening, UNCHANGED <<snd, closed>>,
         rcv' \in RecvSession, cancelled' \in BOOLEAN,
         \/ rcv'.state = "open" /\ notices'.rcvCancelled = notices.rcvCancelled
         \/ rcv'.state = "cancelling",
         rcv.got \subseteq rcv'.got, rcv'.got \subseteq Red,
         rcv'.redLen \in {None, snd.redLen}, rcv'.redLen # None => snd.redLen > 0,
         snd.redLen <= rcv'.minGreen,
         (snd.redLen - 1) \in rcv'.got => rcv'.redLen = snd.redLen,
         rcv'.reason # "miscolored", rcv.lastRS <= rcv'.lastRS, rcv'.lastRS <= MaxReports,
         rcv'.cancelTimer => rcv'.state = "cancelling",
         net \subseteq net',
         \A x \in net' \ net :
            \/ x = CancelReceiver
            \/ /\ x \in ReportSegment /\ x.claims \subseteq rcv'.got
               /\ rcv.lastRS < x.serial /\ x.serial <= rcv'.lastRS
               /\ snd.state = "active" => x.cp <= snd.lastCp
               /\ \A y \in net' \ net : y \in ReportSegment /\ x.serial = y.serial => x = y,
         \A r \in rcv'.reports :
            \/ r \in rcv.reports
            \/ /\ r.rs \in (net' \ net) \cap ReportSegment /\ ~r.acked
               /\ r = [rs |-> r.rs, retries |-> 0, acked |-> FALSE],
         notices' \in NoticeCounts, notices'.completed = notices.completed,
         notices'.sndCancelled = notices.sndCancelled,
         notices'.received <= 1, notices.received <= notices'.received,
         rcv'.delivered => notices'.received = 1,
         ~rcv'.delivered => notices'.received = 0,
         rcv'.state = "open" /\ ~rcv'.delivered => ~IsRedComplete(rcv'),
         notices'.received = 0 => Reports' = Reports \/ \E b \in Red : b \notin rcv'.got
  PROVE  IInv'
<1> USE DEF IInv
<1>1. CancelReceiver \in Control /\ CancelReceiver # CancelSender /\ CancelReceiver # CancelAckSender
  BY DEF CancelAckSender, CancelSender, CancelReceiver, Control
<1>2. closed' \in BOOLEAN
  BY DEF TypeOK
<1>3. TypeOK' /\ IdleInv' /\ DataInv' /\ CheckpointInv' /\ OutcomeInv' /\ Red' = Red
  BY <1>1, <1>2, ReceiverFrame
<1>4. \A x \in net' : x.type = "ra" => x \in net
  BY DEF ReportSegment, CancelReceiver
<1>5. \A x \in Reports' : x \in Reports \/ x \in (net' \ net) \cap ReportSegment
  BY DEF Reports, CancelReceiver
<1>6. \A x \in (net' \ net) \cap ReportSegment :
        /\ x.claims \subseteq rcv'.got
        /\ rcv.lastRS < x.serial /\ x.serial <= rcv'.lastRS
        /\ snd.state = "active" => x.cp <= snd.lastCp
        /\ \A y \in (net' \ net) \cap ReportSegment : x.serial = y.serial => x = y
  BY DEF ReportSegment, CancelReceiver
<1>7. /\ rcv.lastRS \in Nat /\ rcv'.lastRS \in Nat /\ \A x \in Reports : x.serial \in Nat
      /\ \A x \in snd.seen : x \in Nat
      /\ \A x \in (net' \ net) \cap ReportSegment : x.serial \in Nat
  <2>1. \A x \in Reports : x \in ReportSegment
    BY DEF TypeOK, Segment, Reports, DataSegment, ReportAck, Control
  <2> QED
    BY <2>1 DEF TypeOK, RecvSession, SendSession, ReportSegment
<1>8. /\ snd.claims \subseteq rcv.got
      /\ \A x \in Reports : x.claims \subseteq rcv.got /\ x.serial <= rcv.lastRS
      /\ \A x \in snd.seen : x <= rcv.lastRS
  BY DEF ClaimInv
<1>9. /\ snd.claims \subseteq rcv'.got
      /\ \A x \in Reports' : x.claims \subseteq rcv'.got /\ x.serial <= rcv'.lastRS
      /\ \A x \in snd.seen : x <= rcv'.lastRS
  BY <1>5, <1>6, <1>7, <1>8
<1>10. RecvInv'
  BY <1>3 DEF RecvInv
<1>11. RecordInv'
  <2>1. \A r \in rcv.reports : r.rs \in net /\ r.rs.serial <= rcv.lastRS /\ r.rs.serial \in Nat
    BY DEF RecordInv, TypeOK, RecvSession, ReportRecord, ReportSegment
  <2>2. ASSUME NEW r \in rcv'.reports
        PROVE  r.rs \in net' /\ r.rs.serial <= rcv'.lastRS
    BY <1>6, <1>7, <2>1, <2>2
  <2>3. ASSUME NEW r \in rcv'.reports, NEW q \in rcv'.reports, q.rs.serial = r.rs.serial
        PROVE  q = r
    <3>1. CASE r \in rcv.reports /\ q \in rcv.reports
      BY <2>3, <3>1 DEF RecordInv
    <3>2. CASE r \notin rcv.reports /\ q \notin rcv.reports
      <4>1. /\ r.rs \in (net' \ net) \cap ReportSegment /\ q.rs \in (net' \ net) \cap ReportSegment
            /\ r = [rs |-> r.rs, retries |-> 0, acked |-> FALSE]
            /\ q = [rs |-> q.rs, retries |-> 0, acked |-> FALSE]
        BY <3>2
      <4>2. r.rs = q.rs
        BY <1>6, <2>3, <4>1
      <4> QED
        BY <4>1, <4>2
    <3>3. CASE r \in rcv.reports /\ q \notin rcv.reports
      BY <1>6, <1>7, <2>1, <2>3, <3>3
    <3>4. CASE r \notin rcv.reports /\ q \in rcv.reports
      BY <1>6, <1>7, <2>1, <2>3, <3>4
    <3> QED
      BY <3>1, <3>2, <3>3, <3>4
  <2> QED
    BY <2>2, <2>3 DEF RecordInv
<1>12. ClaimInv'
  BY <1>9 DEF ClaimInv
<1>13. DeliveryInv'
  BY DEF DeliveryInv, Listening
<1>14. MissingInv'
  <2>1. SUFFICES ASSUME notices'.received = 0, snd.redLen > 0
                 PROVE  \E b \in Red : b \notin snd.claims /\ \A x \in Reports' : b \notin x.claims
    BY <1>3 DEF MissingInv
  <2>2. CASE Reports' = Reports
    <3>1. notices.received = 0
      BY <2>1, CountFacts DEF TypeOK
    <3> QED
      BY <2>1, <2>2, <3>1 DEF MissingInv
  <2>3. CASE \E b \in Red : b \notin rcv'.got
    BY <1>9, <2>3
  <2> QED
    BY <2>1, <2>2, <2>3
<1>15. ProbeInv'
  <2>1. SUFFICES ASSUME snd.state = "active"
                 PROVE  /\ \A x \in Reports' :
                             /\ x.cp <= snd.lastCp
                             /\ \A n \in Reports' : n.serial = x.serial => n = x
                             /\ x.serial \in snd.seen =>
                                  /\ x.claims \cap Red \subseteq snd.claims
                                  /\ \A c \in snd.cps : c.serial # x.cp
    BY <1>3 DEF ProbeInv
  <2>2. \A x \in Reports' \ Reports :
           /\ x \in (net' \ net) \cap ReportSegment /\ x.serial > rcv.lastRS
           /\ x.serial \notin snd.seen
    BY <1>5, <1>6, <1>7, <1>8
  <2>3. \A x, n \in Reports' : n.serial = x.serial => n = x
    BY <1>6, <1>7, <1>8, <2>1, <2>2 DEF ProbeInv
  <2> QED
    BY <1>6, <2>1, <2>2, <2>3 DEF ProbeInv
<1>16. CloseInv'
  BY <1>3, <1>4 DEF CloseInv
<1> QED
  BY <1>3, <1>10, <1>11, <1>12, <1>13, <1>14, <1>15, <1>16

(* What a listening receiver may rely on in a segment of this sender. *)
LEMMA DataFacts ==
  ASSUME IInv, NEW m \in net, m.type = "data"
  PROVE  /\ snd.state # "idle" /\ m \in DataSegment
         /\ m.from < m.to /\ m.to <= BlockLen
         /\ m.from \in Nat /\ m.to \in Nat /\ m.cp \in Nat
         /\ ~Miscolored(m)
<1> USE DEF IInv
<1>1. snd.state # "idle" /\ m.from < m.to /\ m.to <= BlockLen
  BY DEF IdleInv, DataInv
<1>2. m \in DataSegment
  BY DEF TypeOK, Segment, ReportSegment, ReportAck, Control, DataSegment
<1>3. /\ snd.redLen \in Nat /\ rcv.minGreen \in Nat /\ m.from \in Nat /\ m.to \in Nat /\ m.cp \in Nat
  BY <1>2, LengthAssumption DEF TypeOK, SendSession, RecvSession, DataSegment
<1>4. CASE m.red
  <2>1. m.to <= snd.redLen /\ (m.eorp => m.to = snd.redLen)
    BY <1>4 DEF DataInv
  <2>2. rcv.redLen \in {None, snd.redLen} /\ snd.redLen <= rcv.minGreen
    BY DEF RecvInv
  <2> QED
    BY <1>1, <1>2, <1>3, <1>4, <2>1, <2>2 DEF Miscolored
<1>5. CASE ~m.red
  <2>1. m.from >= snd.redLen
    BY <1>5 DEF DataInv
  <2>2. rcv.redLen \in {None, snd.redLen} /\ \A b \in rcv.got : b < snd.redLen /\ b \in Nat
    BY <1>3 DEF RecvInv, Red
  <2> QED
    BY <1>1, <1>2, <1>3, <1>5, <2>1, <2>2 DEF Miscolored
<1> QED
  BY <1>4, <1>5

(* Storing a red segment keeps the receiver's picture of the block true. *)
LEMMA StoredFacts ==
  ASSUME IInv, Listening, NEW m \in net, m.type = "data", m.red
  PROVE  /\ Stored(m) \in RecvSession /\ Stored(m).state = "open"
         /\ rcv.got \subseteq Stored(m).got /\ Stored(m).got \subseteq Red
         /\ Stored(m).redLen \in {None, snd.redLen}
         /\ Stored(m).redLen # None => snd.redLen > 0
         /\ Stored(m).minGreen = rcv.minGreen
         /\ (snd.redLen - 1) \in Stored(m).got => Stored(m).redLen = snd.redLen
         /\ Stored(m).reports = rcv.reports /\ Stored(m).timers = rcv.timers
         /\ Stored(m).lastRS = rcv.lastRS /\ Stored(m).delivered = rcv.delivered
         /\ Stored(m).reason # "miscolored" /\ Stored(m).cancelTimer = FALSE
<1> USE DEF IInv
<1> DEFINE redLen == IF m.eorp THEN m.to ELSE rcv.redLen
           got == rcv.got \cup Carried(m)
<1>1. /\ rcv \in RecvSession /\ snd.redLen \in 0 .. BlockLen /\ snd.redLen \in Nat
      /\ rcv.cancelTimer = FALSE
  BY LengthAssumption DEF TypeOK, SendSession, RecvSession, RecvInv, Listening
<1>2. /\ m.from < m.to /\ m.from \in Nat /\ m.to \in Nat /\ m.cp \in Nat
      /\ m \in DataSegment
  BY DataFacts
<1>3. /\ m.to <= snd.redLen /\ (m.eorp => m.to = snd.redLen)
      /\ (m.to = snd.redLen => m.eorp)
  BY DEF DataInv
<1>4. got \subseteq Red /\ got \subseteq Octets
  BY <1>1, <1>2, <1>3, LengthAssumption DEF RecvInv, Carried, Red, Octets
<1>5. /\ redLen \in {None, snd.redLen} /\ (redLen # None => snd.redLen > 0)
      /\ redLen \in {None} \cup (0 .. BlockLen)
  BY <1>1, <1>2, <1>3 DEF RecvInv
<1>6. (snd.redLen - 1) \in got => redLen = snd.redLen
  BY <1>1, <1>2, <1>3 DEF RecvInv, Carried
<1>7. Stored(m) = [rcv EXCEPT !.state = "open", !.got = got, !.redLen = redLen]
  BY DEF Stored
<1>8. rcv.got \subseteq got
  OBVIOUS
<1> HIDE DEF got, redLen
<1>9. /\ Stored(m) \in RecvSession /\ Stored(m).state = "open"
      /\ Stored(m).got = got /\ Stored(m).redLen = redLen
      /\ Stored(m).minGreen = rcv.minGreen
      /\ Stored(m).reports = rcv.reports /\ Stored(m).timers = rcv.timers
      /\ Stored(m).lastRS = rcv.lastRS /\ Stored(m).delivered = rcv.delivered
      /\ Stored(m).reason = rcv.reason /\ Stored(m).cancelTimer = FALSE
  BY <1>1, <1>4, <1>5, <1>7 DEF RecvSession
<1> QED
  BY <1>4, <1>5, <1>6, <1>8, <1>9 DEF RecvInv

(* The delivered flag and the notice counter move together. *)
LEMMA DeliverFacts ==
  ASSUME IInv, Listening, NEW s \in RecvSession, s.state = "open",
         s.delivered = rcv.delivered, Deliver(s)
  PROVE  /\ rcv' \in RecvSession /\ rcv'.state = "open"
         /\ rcv'.got = s.got /\ rcv'.redLen = s.redLen /\ rcv'.minGreen = s.minGreen
         /\ rcv'.reports = s.reports /\ rcv'.lastRS = s.lastRS
         /\ rcv'.reason = s.reason /\ rcv'.cancelTimer = s.cancelTimer
         /\ notices' \in NoticeCounts /\ notices'.completed = notices.completed
         /\ notices'.sndCancelled = notices.sndCancelled
         /\ notices'.rcvCancelled = notices.rcvCancelled
         /\ notices'.received <= 1 /\ notices.received <= notices'.received
         /\ rcv'.delivered => notices'.received = 1
         /\ ~rcv'.delivered => notices'.received = 0
         /\ ~rcv'.delivered => ~IsRedComplete(rcv')
<1> USE DEF IInv
<1>1. /\ notices \in NoticeCounts /\ notices.received \in Nat /\ rcv \in RecvSession
      /\ notices.received <= 1
  BY CountFacts DEF TypeOK, DeliveryInv
<1>2. (rcv.delivered => notices.received = 1) /\ (~rcv.delivered => notices.received = 0)
  BY DEF DeliveryInv, Listening
<1>3. CASE IsRedComplete(s) /\ ~s.delivered
  <2>1. rcv' = [s EXCEPT !.delivered = TRUE] /\ TellReceived
    BY <1>3 DEF Deliver
  <2>2. /\ rcv' \in RecvSession /\ rcv'.state = "open"
        /\ rcv'.got = s.got /\ rcv'.redLen = s.redLen /\ rcv'.minGreen = s.minGreen
        /\ rcv'.reports = s.reports /\ rcv'.lastRS = s.lastRS
        /\ rcv'.reason = s.reason /\ rcv'.cancelTimer = s.cancelTimer /\ rcv'.delivered
    BY <2>1 DEF RecvSession
  <2> QED
    BY <1>1, <1>2, <1>3, <2>1, <2>2, TellFacts
<1>4. CASE ~(IsRedComplete(s) /\ ~s.delivered)
  <2>1. rcv' = s /\ notices' = notices
    BY <1>4 DEF Deliver
  <2> QED
    BY <1>1, <1>2, <1>4, <2>1
<1> QED
  BY <1>3, <1>4

(* Refusing a segment keeps the invariant; the reason can only be the      *)
(* client service.                                                         *)
LEMMA DataRejectedStep ==
  ASSUME IInv, NEW m \in net, m.type = "data", DataRejected(m), UNCHANGED <<snd, closed>>
  PROVE  IInv'
<1> USE DEF IInv
<1>1. RejectReason(m) = "unreach"
  BY DataFacts DEF DataRejected, RejectReason
<1>2. /\ rcv' = [rcv EXCEPT !.state = "cancelling", !.reason = "unreach",
                            !.cancelRetries = 1, !.cancelTimer = TRUE]
      /\ cancelled' = TRUE /\ TellRecvCancelled /\ net' = net \cup {CancelReceiver} /\ Listening
  BY <1>1 DEF DataRejected, InitiateCancelReceiver
<1>3. rcv \in RecvSession /\ notices \in NoticeCounts /\ snd.state # "idle"
  BY DataFacts DEF TypeOK
<1>4. /\ rcv' \in RecvSession /\ rcv'.state = "cancelling"
      /\ rcv'.got = rcv.got /\ rcv'.redLen = rcv.redLen /\ rcv'.minGreen = rcv.minGreen
      /\ rcv'.reports = rcv.reports /\ rcv'.lastRS = rcv.lastRS
      /\ rcv'.delivered = rcv.delivered /\ rcv'.reason = "unreach"
  BY <1>2, <1>3 DEF RecvSession
<1>5. /\ notices' \in NoticeCounts /\ notices'.completed = notices.completed
      /\ notices'.sndCancelled = notices.sndCancelled /\ notices'.received = notices.received
  BY <1>2, <1>3, TellFacts
<1> QED
  BY <1>2, <1>3, <1>4, <1>5, ReceiverCancels

(* A green segment keeps the invariant. *)
LEMMA DataGreenStep ==
  ASSUME IInv, NEW m \in net, m.type = "data", DataGreen(m), UNCHANGED <<snd, closed>>
  PROVE  IInv'
<1> USE DEF IInv
<1> DEFINE g == IF m.from < rcv.minGreen THEN m.from ELSE rcv.minGreen
           s == [rcv EXCEPT !.state = "open", !.minGreen = g]
<1>1. Listening /\ Deliver(s) /\ cancelled' = cancelled /\ net' = net /\ ~m.red
  BY DEF DataGreen
<1>2. /\ rcv \in RecvSession /\ snd.state # "idle" /\ m.from \in Nat /\ snd.redLen <= m.from
      /\ m.from < BlockLen /\ rcv.minGreen \in 0 .. BlockLen /\ cancelled' \in BOOLEAN
  BY <1>1, DataFacts, LengthAssumption DEF TypeOK, RecvSession, DataInv
<1>3. g \in 0 .. BlockLen /\ snd.redLen <= g
  BY <1>2, LengthAssumption DEF RecvInv
<1> HIDE DEF g
<1>4. /\ s \in RecvSession /\ s.state = "open" /\ s.got = rcv.got /\ s.redLen = rcv.redLen
      /\ s.minGreen = g /\ s.reports = rcv.reports /\ s.lastRS = rcv.lastRS
      /\ s.delivered = rcv.delivered /\ s.reason = rcv.reason /\ s.cancelTimer = rcv.cancelTimer
  BY <1>2, <1>3 DEF RecvSession
<1> HIDE DEF s
<1>5. /\ rcv' \in RecvSession /\ rcv'.state = "open"
      /\ rcv'.got = s.got /\ rcv'.redLen = s.redLen /\ rcv'.minGreen = s.minGreen
      /\ rcv'.reports = s.reports /\ rcv'.lastRS = s.lastRS
      /\ rcv'.reason = s.reason /\ rcv'.cancelTimer = s.cancelTimer
      /\ notices' \in NoticeCounts /\ notices'.completed = notices.completed
      /\ notices'.sndCancelled = notices.sndCancelled
      /\ notices'.rcvCancelled = notices.rcvCancelled
      /\ notices'.received <= 1 /\ notices.received <= notices'.received
      /\ rcv'.delivered => notices'.received = 1
      /\ ~rcv'.delivered => notices'.received = 0
      /\ ~rcv'.delivered => ~IsRedComplete(rcv')
  BY <1>1, <1>4, DeliverFacts
<1>6. Reports' = Reports
  BY <1>1 DEF Reports
<1>7. /\ rcv.got \subseteq Red /\ rcv.redLen \in {None, snd.redLen}
      /\ (rcv.redLen # None => snd.redLen > 0)
      /\ ((snd.redLen - 1) \in rcv.got => rcv.redLen = snd.redLen)
      /\ rcv.reason # "miscolored" /\ rcv.lastRS <= MaxReports /\ rcv.cancelTimer = FALSE
      /\ rcv.lastRS \in Nat
  BY <1>1, <1>2 DEF RecvInv, Listening, RecvSession
<1>8. rcv.lastRS <= rcv'.lastRS
  BY <1>4, <1>5, <1>7
<1> QED
  BY <1>1, <1>2, <1>3, <1>4, <1>5, <1>6, <1>7, <1>8, ReceiverStores

(* A red segment beyond the block limit keeps the invariant. *)
LEMMA DataOversizeStep ==
  ASSUME IInv, NEW m \in net, m.type = "data", DataOversize(m), UNCHANGED <<snd, closed>>
  PROVE  IInv'
<1> USE DEF IInv
<1>1. /\ Listening /\ rcv' = [rcv EXCEPT !.state = "open"]
      /\ cancelled' = cancelled /\ net' = net /\ notices' = notices
  BY DEF DataOversize
<1>2. /\ rcv \in RecvSession /\ snd.state # "idle" /\ cancelled' \in BOOLEAN
      /\ notices \in NoticeCounts /\ notices.received \in Nat
  BY <1>1, DataFacts, CountFacts DEF TypeOK
<1>3. /\ rcv' \in RecvSession /\ rcv'.state = "open" /\ rcv'.got = rcv.got
      /\ rcv'.redLen = rcv.redLen /\ rcv'.minGreen = rcv.minGreen
      /\ rcv'.reports = rcv.reports /\ rcv'.lastRS = rcv.lastRS
      /\ rcv'.delivered = rcv.delivered /\ rcv'.reason = rcv.reason
      /\ rcv'.cancelTimer = rcv.cancelTimer
  BY <1>1, <1>2 DEF RecvSession
<1>4. Reports' = Reports
  BY <1>1 DEF Reports
<1>5. /\ rcv.got \subseteq Red /\ rcv.redLen \in {None, snd.redLen}
      /\ (rcv.redLen # None => snd.redLen > 0) /\ snd.redLen <= rcv.minGreen
      /\ ((snd.redLen - 1) \in rcv.got => rcv.redLen = snd.redLen)
      /\ rcv.reason # "miscolored" /\ rcv.lastRS <= MaxReports /\ rcv.cancelTimer = FALSE
      /\ rcv.lastRS \in Nat
  BY <1>1, <1>2 DEF RecvInv, Listening, RecvSession
<1>6. /\ notices.received <= 1 /\ (rcv.delivered => notices.received = 1)
      /\ (~rcv.delivered => notices.received = 0)
      /\ (~rcv.delivered => ~IsRedComplete(rcv))
  BY <1>1 DEF DeliveryInv, Listening, RecvInv, NewRecvSession, IsRedComplete
<1>7. ~rcv'.delivered => ~IsRedComplete(rcv')
  BY <1>3, <1>6 DEF IsRedComplete
<1>8. rcv.lastRS <= rcv'.lastRS /\ notices.received <= notices'.received
  BY <1>1, <1>2, <1>3, <1>5
<1> QED
  BY <1>1, <1>2, <1>3, <1>4, <1>5, <1>6, <1>7, <1>8, ReceiverStores

(* A red segment that is no checkpoint, or a checkpoint answered before,   *)
(* keeps the invariant.                                                    *)
LEMMA DataRedStep ==
  ASSUME IInv, NEW m \in net, m.type = "data", UNCHANGED <<snd, closed>>,
         DataRed(m) \/ DataCheckpointAgain(m)
  PROVE  IInv'
<1> USE DEF IInv
<1>1. Listening /\ m.red /\ cancelled' = cancelled
  BY DEF DataRed, DataCheckpointAgain, Storable
<1>2. /\ rcv \in RecvSession /\ snd.state # "idle" /\ cancelled' \in BOOLEAN
      /\ rcv.lastRS \in Nat /\ rcv.lastRS <= MaxReports /\ snd.redLen <= rcv.minGreen
  BY <1>1, DataFacts DEF TypeOK, RecvInv, RecvSession
<1>3. net' = net
  <2>1. CASE DataRed(m)
    BY <2>1 DEF DataRed
  <2>2. CASE DataCheckpointAgain(m)
    <3> DEFINE again == {r \in rcv.reports : r.rs.cp = m.cp /\ ~r.acked}
    <3>1. net' = net \cup {r.rs : r \in again}
      BY <2>2 DEF DataCheckpointAgain
    <3>2. \A r \in again : r.rs \in net
      BY DEF RecordInv
    <3> HIDE DEF again
    <3> QED
      BY <3>1, <3>2
  <2> QED
    BY <2>1, <2>2
<1>4. PICK s \in RecvSession : /\ Deliver(s) /\ s.state = "open" /\ s.got = Stored(m).got
                               /\ s.redLen = Stored(m).redLen /\ s.minGreen = rcv.minGreen
                               /\ s.reports = rcv.reports /\ s.lastRS = rcv.lastRS
                               /\ s.delivered = rcv.delivered
                               /\ s.reason # "miscolored" /\ s.cancelTimer = FALSE
  <2>1. CASE DataRed(m)
    BY <1>1, <2>1, StoredFacts DEF DataRed
  <2>2. CASE DataCheckpointAgain(m)
    <3> DEFINE T == rcv.timers \cup {r.rs.serial : r \in {r \in rcv.reports : r.rs.cp = m.cp /\ ~r.acked}}
               s == [Stored(m) EXCEPT !.timers = T]
    <3>1. T \in SUBSET Nat
      BY <1>2 DEF RecvSession, ReportRecord, ReportSegment
    <3>2. Deliver(s)
      BY <1>1, <2>2, StoredFacts DEF DataCheckpointAgain
    <3> HIDE DEF T
    <3>3. /\ s \in RecvSession /\ s.state = Stored(m).state /\ s.got = Stored(m).got
          /\ s.redLen = Stored(m).redLen /\ s.minGreen = Stored(m).minGreen
          /\ s.reports = Stored(m).reports /\ s.lastRS = Stored(m).lastRS
          /\ s.delivered = Stored(m).delivered /\ s.reason = Stored(m).reason
          /\ s.cancelTimer = Stored(m).cancelTimer
      <4>1. Stored(m) \in RecvSession
        BY <1>1, StoredFacts
      <4> QED
        BY <3>1, <4>1 DEF RecvSession
    <3> HIDE DEF s
    <3> QED
      BY <1>1, <3>2, <3>3, StoredFacts
  <2> QED
    BY <2>1, <2>2
<1>5. /\ rcv' \in RecvSession /\ rcv'.state = "open"
      /\ rcv'.got = s.got /\ rcv'.redLen = s.redLen /\ rcv'.minGreen = s.minGreen
      /\ rcv'.reports = s.reports /\ rcv'.lastRS = s.lastRS
      /\ rcv'.reason = s.reason /\ rcv'.cancelTimer = s.cancelTimer
      /\ notices' \in NoticeCounts /\ notices'.completed = notices.completed
      /\ notices'.sndCancelled = notices.sndCancelled
      /\ notices'.rcvCancelled = notices.rcvCancelled
      /\ notices'.received <= 1 /\ notices.received <= notices'.received
      /\ rcv'.delivered => notices'.received = 1
      /\ ~rcv'.delivered => notices'.received = 0
      /\ ~rcv'.delivered => ~IsRedComplete(rcv')
  BY <1>1, <1>4, DeliverFacts
<1>6. Reports' = Reports
  BY <1>3 DEF Reports
<1>7. rcv.lastRS <= rcv'.lastRS
  BY <1>2, <1>4, <1>5
<1>8. /\ rcv.got \subseteq rcv'.got /\ rcv'.got \subseteq Red
      /\ rcv'.redLen \in {None, snd.redLen} /\ (rcv'.redLen # None => snd.redLen > 0)
      /\ ((snd.redLen - 1) \in rcv'.got => rcv'.redLen = snd.redLen)
  BY <1>1, <1>4, <1>5, StoredFacts
<1> QED
  BY <1>1, <1>2, <1>3, <1>4, <1>5, <1>6, <1>7, <1>8, ReceiverStores

(* A fresh checkpoint keeps the invariant: its reports are new, claim what *)
(* is held, and leave an octet unclaimed unless the red part is delivered. *)
LEMMA DataCheckpointStep ==
  ASSUME IInv, NEW m \in net, m.type = "data", DataCheckpoint(m), UNCHANGED <<snd, closed>>
  PROVE  IInv'
<1> USE DEF IInv
<1> DEFINE S      == {b \in Stored(m).got : b < m.to}
           room   == MaxReports - rcv.lastRS
           n      == IF NumChunks(S) <= room THEN NumChunks(S) ELSE room
           Rep(k) == ReportFor(S, m.to, m.cp, rcv.lastRS + 1 + k, k)
           issued == {Rep(k) : k \in 0 .. (n - 1)}
           records == {[rs |-> x, retries |-> 0, acked |-> FALSE] : x \in issued}
           armed  == {x.serial : x \in issued}
           s      == [Stored(m) EXCEPT
                        !.reports = @ \cup records, !.timers = @ \cup armed, !.lastRS = @ + n]
<1>1. Listening /\ m.red
  BY DEF DataCheckpoint, Storable
<1>2. IF n < NumChunks(S)
      THEN /\ InitiateCancelReceiver(s, "rlexc")
           /\ net' = net \cup issued \cup {CancelReceiver}
      ELSE /\ Deliver(s) /\ net' = net \cup issued /\ cancelled' = cancelled
  BY DEF DataCheckpoint
<1>3. /\ rcv \in RecvSession /\ snd.state # "idle" /\ cancelled \in BOOLEAN
      /\ rcv.lastRS \in Nat /\ rcv.lastRS <= MaxReports /\ snd.redLen <= rcv.minGreen
      /\ m.to \in Nat /\ m.to > 0 /\ m.to <= BlockLen /\ m.cp \in Nat /\ m.to <= snd.redLen
      /\ snd.redLen \in Nat /\ notices \in NoticeCounts
  BY <1>1, DataFacts, LengthAssumption DEF TypeOK, RecvInv, RecvSession, SendSession, DataInv
<1>4. S \in SUBSET Octets /\ S \subseteq Stored(m).got
  BY <1>1, StoredFacts DEF RecvSession
<1>5. NumChunks(S) \in Nat
  BY <1>4, NumChunksFacts
<1>6. Stored(m).got = Red => NumChunks(S) = 1
  <2>1. Stored(m).got = Red => S = 0 .. (m.to - 1)
    BY <1>3 DEF Red
  <2> HIDE DEF S
  <2> QED
    BY <1>3, <1>4, <2>1, NumChunksFacts
<1> HIDE DEF S
<1>7. /\ n \in Nat /\ n <= NumChunks(S) /\ rcv.lastRS + n <= MaxReports
  BY <1>3, <1>5, LimitAssumption
<1> HIDE DEF n
<1>8. \A x \in issued : \E k \in 0 .. (n - 1) :
         x = Rep(k)
  OBVIOUS
<1>9. n = 0 => issued = {}
  BY <1>7
<1> HIDE DEF issued
<1>10. \A k \in 0 .. (n - 1) :
         /\ Rep(k) \in ReportSegment
         /\ Rep(k).serial = rcv.lastRS + 1 + k
         /\ Rep(k).cp = m.cp
         /\ Rep(k).claims \subseteq S
         /\ Rep(k).type = "report"
  <2>1. SUFFICES ASSUME NEW k \in 0 .. (n - 1)
        PROVE /\ Rep(k) \in ReportSegment
              /\ Rep(k).serial = rcv.lastRS + 1 + k
              /\ Rep(k).cp = m.cp
              /\ Rep(k).claims \subseteq S
              /\ Rep(k).type = "report"
    OBVIOUS
  <2> DEFINE serial == rcv.lastRS + 1 + k
  <2>2. m.to \in 0 .. BlockLen /\ serial \in Nat /\ m.cp \in Nat
    BY <1>3, <1>7, LengthAssumption
  <2>3. Rep(k) = ReportFor(S, m.to, m.cp, serial, k)
    OBVIOUS
  <2>4. serial = rcv.lastRS + 1 + k
    OBVIOUS
  <2> HIDE DEF Rep, serial
  <2>5. /\ Rep(k) \in ReportSegment /\ Rep(k).type = "report" /\ Rep(k).serial = serial
        /\ Rep(k).cp = m.cp /\ Rep(k).claims \subseteq S
    <3>1. ClaimChunk(S, k) \subseteq S
      BY DEF ClaimChunk
    <3>2. Rep(k).scope \subseteq Octets
      BY <2>2, <2>3, LengthAssumption DEF ReportFor, Octets
    <3>3. /\ Rep(k).type = "report" /\ Rep(k).serial = serial /\ Rep(k).cp = m.cp
          /\ Rep(k).claims = ClaimChunk(S, k)
      BY <2>3 DEF ReportFor
    <3> QED
      BY <1>4, <2>2, <2>3, <3>1, <3>2, <3>3 DEF ReportFor, ReportSegment
  <2> QED
    BY <2>4, <2>5
<1> HIDE DEF Rep
<1>11. \A x \in issued : /\ x \in ReportSegment /\ x.claims \subseteq S /\ x.cp = m.cp
                         /\ rcv.lastRS < x.serial /\ x.serial <= rcv.lastRS + n
                         /\ x.serial \in Nat
  <2>1. SUFFICES ASSUME NEW x \in issued
        PROVE /\ x \in ReportSegment /\ x.claims \subseteq S /\ x.cp = m.cp
              /\ rcv.lastRS < x.serial /\ x.serial <= rcv.lastRS + n /\ x.serial \in Nat
    OBVIOUS
  <2>2. PICK k \in 0 .. (n - 1) : x = Rep(k)
    BY <1>8
  <2>3. x \in ReportSegment /\ x.serial = rcv.lastRS + 1 + k /\ x.cp = m.cp /\ x.claims \subseteq S
    BY <1>10, <2>2
  <2> QED
    BY <1>3, <1>7, <2>3
<1>12. \A x, y \in issued : x.serial = y.serial => x = y
  <2>1. SUFFICES ASSUME NEW x \in issued, NEW y \in issued, x.serial = y.serial PROVE x = y
    OBVIOUS
  <2>2. PICK k \in 0 .. (n - 1) : x = Rep(k)
    BY <1>8
  <2>3. PICK j \in 0 .. (n - 1) : y = Rep(j)
    BY <1>8
  <2>4. x.serial = rcv.lastRS + 1 + k /\ y.serial = rcv.lastRS + 1 + j
    BY <1>10, <2>2, <2>3
  <2>5. rcv.lastRS \in Nat /\ n \in Nat
    BY <1>3, <1>7
  <2>6. rcv.lastRS + 1 + k = rcv.lastRS + 1 + j
    BY <2>1, <2>4
  <2>7. k = j
    BY <2>5, <2>6
  <2> QED
    BY <2>2, <2>3, <2>7
<1>13. /\ records \in SUBSET ReportRecord /\ armed \in SUBSET Nat
       /\ \A r \in records : /\ r.rs \in issued /\ ~r.acked
                             /\ r = [rs |-> r.rs, retries |-> 0, acked |-> FALSE]
  <2>1. \A r \in records : \E x \in issued : r = [rs |-> x, retries |-> 0, acked |-> FALSE]
    OBVIOUS
  <2>2. \A r \in records : /\ r.rs \in issued /\ ~r.acked /\ r \in ReportRecord
                           /\ r = [rs |-> r.rs, retries |-> 0, acked |-> FALSE]
    <3>1. SUFFICES ASSUME NEW r \in records
          PROVE /\ r.rs \in issued /\ ~r.acked /\ r \in ReportRecord
                /\ r = [rs |-> r.rs, retries |-> 0, acked |-> FALSE]
      OBVIOUS
    <3>2. PICK x \in issued : r = [rs |-> x, retries |-> 0, acked |-> FALSE]
      BY <2>1
    <3>3. r.rs = x /\ ~r.acked
      BY <3>2
    <3>4. x \in ReportSegment
      BY <1>11
    <3> QED
      BY <3>2, <3>3, <3>4 DEF ReportRecord
  <2>3. armed \in SUBSET Nat
    BY <1>11
  <2> HIDE DEF records, armed
  <2> QED
    BY <2>2, <2>3
<1> HIDE DEF records, armed
<1>14. /\ s \in RecvSession /\ s.state = "open"
       /\ s.got = Stored(m).got /\ s.redLen = Stored(m).redLen /\ s.minGreen = rcv.minGreen
       /\ s.reports = rcv.reports \cup records /\ s.lastRS = rcv.lastRS + n
       /\ s.delivered = rcv.delivered /\ s.reason = Stored(m).reason /\ s.cancelTimer = FALSE
  <2>1. /\ Stored(m) \in RecvSession /\ Stored(m).reports = rcv.reports
        /\ Stored(m).timers = rcv.timers /\ Stored(m).lastRS = rcv.lastRS
        /\ Stored(m).minGreen = rcv.minGreen /\ Stored(m).delivered = rcv.delivered
        /\ Stored(m).cancelTimer = FALSE /\ Stored(m).state = "open"
    BY <1>1, StoredFacts
  <2>2. /\ rcv.reports \cup records \in SUBSET ReportRecord
        /\ rcv.timers \cup armed \in SUBSET Nat /\ rcv.lastRS + n \in Nat
    BY <1>3, <1>7, <1>13 DEF RecvSession
  <2>3. s = [Stored(m) EXCEPT !.reports = rcv.reports \cup records,
                              !.timers = rcv.timers \cup armed, !.lastRS = rcv.lastRS + n]
    BY <2>1
  <2> HIDE DEF s
  <2> QED
    BY <2>1, <2>2, <2>3 DEF RecvSession
<1> HIDE DEF s
<1>15. /\ rcv.got \subseteq s.got /\ s.got \subseteq Red
       /\ s.redLen \in {None, snd.redLen} /\ (s.redLen # None => snd.redLen > 0)
       /\ ((snd.redLen - 1) \in s.got => s.redLen = snd.redLen) /\ s.reason # "miscolored"
  BY <1>1, <1>14, StoredFacts
<1>16. /\ rcv.lastRS <= s.lastRS /\ s.lastRS <= MaxReports
       /\ \A x \in issued : x.serial <= s.lastRS
  BY <1>3, <1>7, <1>11, <1>14
<1>17. \A x \in issued : x \notin net
  <2>1. \A x \in Reports : x.serial <= rcv.lastRS
    BY <1>1 DEF ClaimInv
  <2>2. \A x \in issued : x \in net => x \in Reports
    BY <1>11 DEF Reports, ReportSegment
  <2> QED
    BY <1>3, <1>11, <2>1, <2>2
<1>18. snd.state = "active" => m.cp <= snd.lastCp
  BY DEF DataInv
<1>19. CancelReceiver \notin ReportSegment
  BY DEF CancelReceiver, ReportSegment
<1>20. /\ net \subseteq net' /\ \A x \in net' \ net : x \in issued \/ x = CancelReceiver
       /\ \A x \in issued : x \in (net' \ net) \cap ReportSegment
  BY <1>2, <1>11, <1>17
<1>21. \A x \in net' \ net :
          \/ x = CancelReceiver
          \/ /\ x \in ReportSegment /\ x.claims \subseteq s.got
             /\ rcv.lastRS < x.serial /\ x.serial <= s.lastRS
             /\ snd.state = "active" => x.cp <= snd.lastCp
             /\ \A y \in net' \ net : y \in ReportSegment /\ x.serial = y.serial => x = y
  BY <1>4, <1>11, <1>12, <1>14, <1>16, <1>18, <1>19, <1>20
<1>22. \A r \in s.reports :
          \/ r \in rcv.reports
          \/ /\ r.rs \in (net' \ net) \cap ReportSegment /\ ~r.acked
             /\ r = [rs |-> r.rs, retries |-> 0, acked |-> FALSE]
  BY <1>13, <1>14, <1>20
<1>23. CASE n < NumChunks(S)
  <2>1. /\ rcv' = [s EXCEPT !.state = "cancelling", !.reason = "rlexc",
                            !.cancelRetries = 1, !.cancelTimer = TRUE]
        /\ cancelled' = TRUE /\ TellRecvCancelled
        /\ net' = net \cup issued \cup {CancelReceiver}
    BY <1>2, <1>23 DEF InitiateCancelReceiver
  <2>2. /\ rcv' \in RecvSession /\ rcv'.state = "cancelling" /\ rcv'.got = s.got
        /\ rcv'.redLen = s.redLen /\ rcv'.minGreen = s.minGreen
        /\ rcv'.reports = s.reports /\ rcv'.lastRS = s.lastRS
        /\ rcv'.delivered = s.delivered /\ rcv'.reason = "rlexc"
    BY <1>14, <2>1 DEF RecvSession
  <2>3. /\ notices' \in NoticeCounts /\ notices'.completed = notices.completed
        /\ notices'.sndCancelled = notices.sndCancelled /\ notices'.received = notices.received
    BY <1>3, <2>1, TellFacts
  <2>4. /\ notices'.received <= 1 /\ notices.received <= notices'.received
        /\ (rcv'.delivered => notices'.received = 1)
        /\ (~rcv'.delivered => notices'.received = 0)
    BY <1>1, <1>3, <1>14, <2>2, <2>3, CountFacts DEF DeliveryInv, Listening
  <2>5. Reports' = Reports \/ \E b \in Red : b \notin rcv'.got
    <3>1. CASE \E b \in Red : b \notin rcv'.got
      BY <3>1
    <3>2. CASE ~\E b \in Red : b \notin rcv'.got
      <4>1. Stored(m).got = Red
        BY <1>14, <1>15, <2>2, <3>2
      <4>2. issued = {}
        BY <1>5, <1>6, <1>7, <1>9, <1>23, <4>1
      <4>3. net' = net \cup {CancelReceiver}
        BY <2>1, <4>2
      <4> QED
        BY <4>3 DEF Reports, CancelReceiver
    <3> QED
      BY <3>1, <3>2
  <2>6. cancelled' \in BOOLEAN
    BY <2>1
  <2> QED
    BY <1>1, <1>3, <1>14, <1>15, <1>16, <1>20, <1>21, <1>22, <2>2, <2>3, <2>4, <2>5, <2>6,
       ReceiverStores
<1>24. CASE ~(n < NumChunks(S))
  <2>1. Deliver(s) /\ net' = net \cup issued /\ cancelled' = cancelled
    BY <1>2, <1>24
  <2>2. /\ rcv' \in RecvSession /\ rcv'.state = "open"
        /\ rcv'.got = s.got /\ rcv'.redLen = s.redLen /\ rcv'.minGreen = s.minGreen
        /\ rcv'.reports = s.reports /\ rcv'.lastRS = s.lastRS
        /\ rcv'.reason = s.reason /\ rcv'.cancelTimer = s.cancelTimer
        /\ notices' \in NoticeCounts /\ notices'.completed = notices.completed
        /\ notices'.sndCancelled = notices.sndCancelled
        /\ notices'.rcvCancelled = notices.rcvCancelled
        /\ notices'.received <= 1 /\ notices.received <= notices'.received
        /\ rcv'.delivered => notices'.received = 1
        /\ ~rcv'.delivered => notices'.received = 0
        /\ ~rcv'.delivered => ~IsRedComplete(rcv')
    BY <1>1, <1>14, <2>1, DeliverFacts
  <2>3. notices'.received = 0 => \E b \in Red : b \notin rcv'.got
    <3>1. SUFFICES ASSUME notices'.received = 0 PROVE \E b \in Red : b \notin rcv'.got
      OBVIOUS
    <3>2. ~IsRedComplete(rcv')
      BY <2>2, <3>1
    <3>3. CASE rcv'.redLen = None
      <4>1. (snd.redLen - 1) \notin rcv'.got
        BY <1>3, <1>15, <2>2, <3>3 DEF None
      <4>2. (snd.redLen - 1) \in Red
        BY <1>3 DEF Red
      <4> QED
        BY <4>1, <4>2
    <3>4. CASE rcv'.redLen # None
      <4>1. rcv'.redLen = snd.redLen
        BY <1>15, <2>2, <3>4
      <4> QED
        BY <3>2, <3>4, <4>1 DEF IsRedComplete, Red
    <3> QED
      BY <3>3, <3>4
  <2>4. cancelled' \in BOOLEAN
    BY <1>3, <2>1
  <2> QED
    BY <1>1, <1>3, <1>14, <1>15, <1>16, <1>20, <1>21, <1>22, <2>2, <2>3, <2>4, ReceiverStores
<1> QED
  BY <1>23, <1>24

-----------------------------------------------------------------------------
(* Every step keeps the invariant, and the properties that follow.         *)

(* Every step keeps the invariant. *)
LEMMA NextInv == IInv /\ [Next]_vars => IInv'
<1>1. SUFFICES ASSUME IInv, [Next]_vars PROVE IInv'
  OBVIOUS
<1>2. CASE SenderStep
  <2>1. ASSUME NEW redLen \in RedLens, NEW service \in Services,
               RequestTransmission(redLen, service)
        PROVE  IInv'
    BY <1>1, <2>1, RequestStep
  <2>2. ASSUME NEW m \in net, HandleIncomingReport(m)
        PROVE  IInv'
    BY <1>1, <2>2, ReportIgnoredStep, ReportDuplicateStep, ReportProcessedStep
    DEF HandleIncomingReport
  <2>3. ASSUME NEW m \in net,
               HandleIncomingCancelReceiver(m) \/ HandleIncomingCancelAckSender(m)
        PROVE  IInv'
    BY <1>1, <2>3, CancelReceiverStep, CancelAckSenderStep
  <2>4. ASSUME NEW c \in snd.cps, HandleCpTimeout(c)
        PROVE  IInv'
    BY <1>1, <2>4, CpTimeoutStep
  <2> QED
    BY <1>1, <1>2, <2>1, <2>2, <2>3, <2>4, CancelTimeoutSenderStep, InactivitySenderStep
    DEF SenderStep
<1>3. CASE ReceiverStep
  <2>1. ASSUME NEW m \in net, HandleIncomingData(m)
        PROVE  IInv'
    <3>1. m.type = "data" /\ UNCHANGED <<snd, closed>>
      BY <2>1 DEF HandleIncomingData
    <3>2. CASE DataAfterClose(m)
      BY <1>1, <3>1, <3>2, DataAfterCloseStep
    <3>3. CASE DataRejected(m)
      BY <1>1, <3>1, <3>3, DataRejectedStep
    <3>4. CASE DataGreen(m)
      BY <1>1, <3>1, <3>4, DataGreenStep
    <3>5. CASE DataOversize(m)
      BY <1>1, <3>1, <3>5, DataOversizeStep
    <3>6. CASE DataRed(m) \/ DataCheckpointAgain(m)
      BY <1>1, <3>1, <3>6, DataRedStep
    <3>7. CASE DataCheckpoint(m)
      BY <1>1, <3>1, <3>7, DataCheckpointStep
    <3> QED
      BY <2>1, <3>2, <3>3, <3>4, <3>5, <3>6, <3>7 DEF HandleIncomingData
  <2>2. ASSUME NEW m \in net, HandleIncomingReportAck(m)
        PROVE  IInv'
    BY <1>1, <2>2, ReportAckStep
  <2>3. ASSUME NEW m \in net,
               HandleIncomingCancelSender(m) \/ HandleIncomingCancelAckReceiver(m)
        PROVE  IInv'
    BY <1>1, <2>3, CancelSenderStep, CancelAckReceiverStep
  <2>4. ASSUME NEW r \in rcv.reports, HandleRsTimeout(r)
        PROVE  IInv'
    BY <1>1, <2>4, RsTimeoutStep
  <2> QED
    BY <1>1, <1>3, <2>1, <2>2, <2>3, <2>4, CancelTimeoutReceiverStep, InactivityReceiverStep
    DEF ReceiverStep
<1>4. CASE UNCHANGED vars
  BY <1>1, <1>4
  DEF vars, IInv, TypeOK, IdleInv, DataInv, CheckpointInv, OutcomeInv, RecvInv, RecordInv,
      ClaimInv, DeliveryInv, MissingInv, ProbeInv, CloseInv, Reports, Red, Listening,
      IsRedComplete
<1> QED
  BY <1>1, <1>2, <1>3, <1>4 DEF Next

(* What a step after the request may tell the two clients. *)
NoticeStep ==
  /\ snd'.state # "idle" /\ snd'.redLen = snd.redLen
  /\ \/ UNCHANGED notices
     \/ TellCompleted /\ notices.received > 0
     \/ TellSendCancelled
     \/ TellReceived /\ Listening /\ rcv'.redLen # None
     \/ TellRecvCancelled

(* What a step of the sender tells the clients. *)
LEMMA SenderNotices ==
  ASSUME IInv, snd.state # "idle", SenderStep
  PROVE  NoticeStep
<1> USE DEF IInv
<1>1. snd \in SendSession /\ snd.state \in {"active", "cancelling", "gone"}
  BY DEF TypeOK, SendSession
<1>2. RemoveSendSession => snd'.state # "idle" /\ snd'.redLen = snd.redLen
  BY <1>1 DEF RemoveSendSession, NewSendSession
<1>3. ASSUME NEW redLen \in RedLens, NEW service \in Services,
             RequestTransmission(redLen, service)
      PROVE  NoticeStep
  BY <1>3 DEF RequestTransmission
<1>4. ASSUME NEW m \in net, HandleIncomingReport(m)
      PROVE  NoticeStep
  <2>1. CASE ReportIgnored(m)
    <3>1. snd' = [snd EXCEPT !.timers = snd.timers \ {m.cp}] /\ notices' = notices
      BY <2>1 DEF ReportIgnored
    <3>2. snd'.state = snd.state /\ snd'.redLen = snd.redLen
      BY <1>1, <3>1 DEF SendSession
    <3> QED
      BY <3>1, <3>2 DEF NoticeStep
  <2>2. CASE ReportDuplicate(m)
    <3>1. /\ snd' = [snd EXCEPT !.timers = snd.timers \ {m.cp},
                                !.cps = {c \in snd.cps : c.serial # m.cp}]
          /\ notices' = notices
      BY <2>2 DEF ReportDuplicate
    <3>2. snd'.state = snd.state /\ snd'.redLen = snd.redLen
      BY <1>1, <3>1 DEF SendSession
    <3> QED
      BY <3>1, <3>2 DEF NoticeStep
  <2>3. CASE ReportProcessed(m)
    <3> DEFINE claims == snd.claims \cup (m.claims \cap Red)
    <3>1. CASE claims = Red
      <4>1. RemoveSendSession /\ TellCompleted
        BY <2>3, <3>1 DEF ReportProcessed
      <4>2. notices.received # 0
        <5>1. snd.redLen > 0
          BY <2>3 DEF ReportProcessed, OutcomeInv
        <5>2. m \in Reports
          BY <1>4 DEF HandleIncomingReport, Reports
        <5> QED
          BY <3>1, <5>1, <5>2 DEF MissingInv
      <4>3. notices.received > 0
        BY <4>2, CountFacts DEF TypeOK
      <4> QED
        BY <1>2, <4>1, <4>3 DEF NoticeStep
    <3>2. CASE claims # Red
      <4> DEFINE pending == {c \in snd.cps : c.serial # m.cp}
                 gaps    == (m.scope \cap Red) \ claims
                 serial  == snd.lastCp + 1
                 resend  == IF gaps # {} THEN gaps
                            ELSE IF claims # Red /\ pending = {} THEN {snd.redLen - 1} ELSE {}
                 seen    == snd.seen \cup {m.serial}
                 cps     == pending \cup CheckpointRecords(resend, snd.redLen, serial)
                 timers  == (snd.timers \ {m.cp}) \cup (IF resend = {} THEN {} ELSE {serial})
                 lastCp  == IF resend = {} THEN snd.lastCp ELSE serial
      <4>1. notices' = notices /\ snd' = [snd EXCEPT !.claims = claims, !.seen = seen, !.cps = cps,
                                                    !.timers = timers, !.lastCp = lastCp]
        BY <2>3, <3>2 DEF ReportProcessed
      <4> HIDE DEF claims, seen, cps, timers, lastCp
      <4>2. snd'.state = snd.state /\ snd'.redLen = snd.redLen
        BY <1>1, <4>1 DEF SendSession
      <4> QED
        BY <4>1, <4>2 DEF NoticeStep
    <3> QED
      BY <3>1, <3>2
  <2> QED
    BY <1>4, <2>1, <2>2, <2>3 DEF HandleIncomingReport
<1>5. ASSUME NEW m \in net,
             HandleIncomingCancelReceiver(m) \/ HandleIncomingCancelAckSender(m)
      PROVE  NoticeStep
  BY <1>2, <1>5
  DEF HandleIncomingCancelReceiver, HandleIncomingCancelAckSender, NoticeStep
<1>6. ASSUME NEW c \in snd.cps, HandleCpTimeout(c)
      PROVE  NoticeStep
  <2>1. CASE c.retries < CpRtxLimit
    <3>1. /\ snd' = [snd EXCEPT !.cps = (@ \ {c}) \cup {[c EXCEPT !.retries = @ + 1]}]
          /\ notices' = notices
      BY <1>6, <2>1 DEF HandleCpTimeout
    <3>2. snd'.state = snd.state /\ snd'.redLen = snd.redLen
      BY <1>1, <3>1 DEF SendSession
    <3> QED
      BY <3>1, <3>2 DEF NoticeStep
  <2>2. CASE ~(c.retries < CpRtxLimit)
    <3>1. /\ snd' = [snd EXCEPT !.state = "cancelling", !.timers = @ \ {c.serial},
                                !.cancelRetries = 1, !.cancelTimer = TRUE]
          /\ TellSendCancelled
      BY <1>6, <2>2 DEF HandleCpTimeout
    <3>2. snd'.state = "cancelling" /\ snd'.redLen = snd.redLen
      BY <1>1, <3>1 DEF SendSession
    <3> QED
      BY <3>1, <3>2 DEF NoticeStep
  <2> QED
    BY <2>1, <2>2
<1>7. ASSUME HandleCancelTimeoutSender
      PROVE  NoticeStep
  <2>1. /\ \/ RemoveSendSession
           \/ snd' = [snd EXCEPT !.cancelRetries = @ + 1]
        /\ notices' = notices
    BY <1>7 DEF HandleCancelTimeoutSender
  <2>2. snd' = [snd EXCEPT !.cancelRetries = @ + 1]
           => snd'.state = snd.state /\ snd'.redLen = snd.redLen
    BY <1>1 DEF SendSession
  <2> QED
    BY <1>2, <2>1, <2>2 DEF NoticeStep
<1>8. ASSUME HandleInactivityTimeoutSender
      PROVE  NoticeStep
  BY <1>2, <1>8 DEF HandleInactivityTimeoutSender, NoticeStep
<1> QED
  BY <1>3, <1>4, <1>5, <1>6, <1>7, <1>8 DEF SenderStep

(* What a step of the receiver tells the clients. *)
LEMMA ReceiverNotices ==
  ASSUME IInv, snd.state # "idle", ReceiverStep
  PROVE  NoticeStep
<1> USE DEF IInv
<1>1. ASSUME NEW s, "redLen" \in DOMAIN s, Deliver(s), Listening, snd' = snd
      PROVE  NoticeStep
  <2>1. [s EXCEPT !.delivered = TRUE].redLen = s.redLen
    BY <1>1
  <2> QED
    BY <1>1, <2>1 DEF Deliver, IsRedComplete, NoticeStep
<1>2. "redLen" \in DOMAIN rcv /\ \A m : "redLen" \in DOMAIN Stored(m)
  <2>1. "redLen" \in DOMAIN rcv
    BY DEF TypeOK, RecvSession
  <2> QED
    BY <2>1 DEF Stored
<1>3. ASSUME NEW m \in net, HandleIncomingData(m)
      PROVE  NoticeStep
  <2>1. snd' = snd
    BY <1>3 DEF HandleIncomingData
  <2>2. CASE DataAfterClose(m) \/ DataRejected(m) \/ DataOversize(m)
    BY <2>1, <2>2 DEF DataAfterClose, DataRejected, DataOversize, InitiateCancelReceiver, NoticeStep
  <2>3. CASE DataGreen(m)
    <3> DEFINE g == IF m.from < rcv.minGreen THEN m.from ELSE rcv.minGreen
               s == [rcv EXCEPT !.state = "open", !.minGreen = g]
    <3>1. Deliver(s) /\ Listening
      BY <2>3 DEF DataGreen
    <3>2. "redLen" \in DOMAIN s
      BY <1>2
    <3> HIDE DEF s
    <3> QED
      BY <1>1, <2>1, <3>1, <3>2
  <2>4. CASE DataRed(m)
    BY <1>1, <1>2, <2>1, <2>4 DEF DataRed, Storable
  <2>5. CASE DataCheckpointAgain(m)
    <3>1. PICK t : Deliver([Stored(m) EXCEPT !.timers = t]) /\ Listening
      BY <2>5 DEF DataCheckpointAgain, Storable
    <3>2. "redLen" \in DOMAIN [Stored(m) EXCEPT !.timers = t]
      BY <1>2
    <3> QED
      BY <1>1, <2>1, <3>1, <3>2
  <2>6. CASE DataCheckpoint(m)
    <3>1. PICK a, b, c :
             /\ Listening
             /\ LET s == [Stored(m) EXCEPT !.reports = a, !.timers = b, !.lastRS = c]
                IN InitiateCancelReceiver(s, "rlexc") \/ Deliver(s)
      BY <2>6 DEF DataCheckpoint, Storable
    <3> DEFINE s == [Stored(m) EXCEPT !.reports = a, !.timers = b, !.lastRS = c]
    <3>2. "redLen" \in DOMAIN s
      BY <1>2
    <3>3. InitiateCancelReceiver(s, "rlexc") \/ Deliver(s)
      BY <3>1
    <3> HIDE DEF s
    <3> QED
      BY <1>1, <2>1, <3>1, <3>2, <3>3 DEF InitiateCancelReceiver, NoticeStep
  <2> QED
    BY <1>3, <2>2, <2>3, <2>4, <2>5, <2>6 DEF HandleIncomingData
<1>4. ASSUME NEW m \in net,
             \/ HandleIncomingReportAck(m)
             \/ HandleIncomingCancelSender(m) \/ HandleIncomingCancelAckReceiver(m)
      PROVE  NoticeStep
  BY <1>4 DEF HandleIncomingReportAck, HandleIncomingCancelSender,
              HandleIncomingCancelAckReceiver, NoticeStep
<1>5. ASSUME NEW r \in rcv.reports, HandleRsTimeout(r)
      PROVE  NoticeStep
  BY <1>5 DEF HandleRsTimeout, NoticeStep
<1>6. ASSUME HandleCancelTimeoutReceiver \/ HandleInactivityTimeoutReceiver
      PROVE  NoticeStep
  BY <1>6 DEF HandleCancelTimeoutReceiver, HandleInactivityTimeoutReceiver, NoticeStep
<1> QED
  BY <1>3, <1>4, <1>5, <1>6 DEF ReceiverStep

(* Before the request nothing but the request can happen. *)
LEMMA IdleNotices ==
  ASSUME IInv, snd.state = "idle", Next
  PROVE  /\ Outcome = "unsent" /\ snd'.state # "idle"
         /\ notices.received = 0 /\ notices.rcvCancelled = 0 /\ snd.redLen = 0
         /\ notices'.received = 0 /\ notices'.rcvCancelled = 0 /\ notices'.sndCancelled = 0
         /\ snd'.redLen \in Nat
         /\ \/ snd'.redLen > 0 /\ notices'.completed = 0
            \/ snd'.redLen = 0 /\ notices'.completed = 1
<1> USE DEF IInv
<1>1. /\ snd = NewSendSession /\ rcv = NewRecvSession /\ net = {} /\ notices = NoNotices
      /\ snd \in SendSession /\ notices \in NoticeCounts
  BY DEF IdleInv, TypeOK
<1>2. /\ snd.cps = {} /\ snd.cancelTimer = FALSE /\ rcv.reports = {} /\ rcv.state = "none"
      /\ rcv.cancelTimer = FALSE /\ snd.redLen = 0
      /\ notices.received = 0 /\ notices.rcvCancelled = 0 /\ notices.sndCancelled = 0
      /\ notices.completed = 0
  BY <1>1 DEF NewSendSession, NewRecvSession, NoNotices
<1>3. PICK redLen \in RedLens, service \in Services : RequestTransmission(redLen, service)
  BY <1>1, <1>2 DEF Next, SenderStep, ReceiverStep, HandleCancelTimeoutSender,
     HandleInactivityTimeoutSender, HandleCancelTimeoutReceiver, HandleInactivityTimeoutReceiver
<1>4. redLen \in Nat
  BY LengthAssumption
<1>5. CASE redLen = 0
  <2>1. snd' = [snd EXCEPT !.state = "gone", !.service = service] /\ TellCompleted
    BY <1>3, <1>5 DEF RequestTransmission
  <2>2. snd'.state = "gone" /\ snd'.redLen = 0
    BY <1>1, <1>2, <2>1 DEF SendSession
  <2> QED
    BY <1>1, <1>2, <2>1, <2>2, TellFacts DEF Outcome
<1>6. CASE redLen # 0
  <2>1. notices' = notices /\ \E a : snd' = [snd EXCEPT !.state = "active", !.redLen = redLen,
                                !.service = service, !.lastCp = 1, !.timers = {1}, !.cps = a]
    BY <1>3, <1>6 DEF RequestTransmission
  <2>2. snd'.state = "active" /\ snd'.redLen = redLen
    BY <1>1, <2>1 DEF SendSession
  <2> QED
    BY <1>2, <1>4, <1>6, <2>1, <2>2 DEF Outcome
<1> QED
  BY <1>5, <1>6

(* Completed is never said of an undelivered red part. *)
LEMMA CompletedStep ==
  ASSUME IInv, CompletedMeansDelivered, [Next]_vars
  PROVE  CompletedMeansDelivered'
<1>1. CASE UNCHANGED vars
  BY <1>1 DEF vars, CompletedMeansDelivered
<1>2. CASE Next /\ snd.state = "idle"
  BY <1>2, IdleNotices DEF CompletedMeansDelivered
<1>3. CASE Next /\ snd.state # "idle"
  <2>1. NoticeStep
    BY <1>3, SenderNotices, ReceiverNotices DEF Next
  <2>2. notices \in NoticeCounts /\ notices.received \in Nat
    BY CountFacts DEF IInv, TypeOK
  <2> QED
    BY <2>1, <2>2, TellFacts DEF NoticeStep, CompletedMeansDelivered
<1> QED
  BY <1>1, <1>2, <1>3

(* The invariant implies the safety properties. *)
LEMMA SafetyFromInv ==
  ASSUME IInv
  PROVE  /\ TypeOK /\ DeliveredAtMostOnce /\ OneOutcome
         /\ NoSilentEnd /\ AlwaysProbing /\ ClosedMeansSenderDone /\ NeverMiscolored
<1> USE DEF IInv
<1>1. /\ notices.completed \in Nat /\ notices.sndCancelled \in Nat
      /\ notices.received \in Nat /\ snd \in SendSession
  BY CountFacts DEF TypeOK
<1>2. snd.state \in {"idle", "active", "cancelling", "gone"}
  BY <1>1 DEF SendSession
<1>3. snd.state = "idle" => notices.completed = 0 /\ notices.sndCancelled = 0
  BY DEF IdleInv, NoNotices
<1>4. OneOutcome /\ NoSilentEnd
  BY <1>1, <1>2, <1>3 DEF OneOutcome, NoSilentEnd, OutcomeInv
<1>5. AlwaysProbing /\ ClosedMeansSenderDone /\ NeverMiscolored /\ DeliveredAtMostOnce
  BY DEF AlwaysProbing, ClosedMeansSenderDone, NeverMiscolored, DeliveredAtMostOnce,
         ProbeInv, CloseInv, RecvInv, DeliveryInv
<1> QED
  BY <1>4, <1>5

(* The inductive invariant holds in every reachable state, for every block *)
(* length, MTU, report size and retry limit.                               *)
THEOREM Invariance == Spec => [](IInv /\ CompletedMeansDelivered)
<1>1. Init => IInv /\ CompletedMeansDelivered
  BY InitInv DEF Init, CompletedMeansDelivered, NoNotices
<1>2. (IInv /\ CompletedMeansDelivered) /\ [Next]_vars => (IInv /\ CompletedMeansDelivered)'
  BY NextInv, CompletedStep
<1> QED
  BY <1>1, <1>2, PTL DEF Spec

(* Every variable of the two engines and every segment keeps its type. *)
THEOREM TypeCorrect == Spec => []TypeOK
<1>1. IInv => TypeOK
  BY SafetyFromInv
<1> QED
  BY <1>1, Invariance, PTL

(* A transfer with a red part that the sender reports completed has been   *)
(* delivered by the receiver: merged claims never overstate the red part.  *)
THEOREM CompletionIsDelivery == Spec => []CompletedMeansDelivered
BY Invariance, PTL

(* RedPartReceived is given at most once for a block, whatever is repeated *)
(* and whenever the session is closed or cancelled.                        *)
THEOREM DeliveryOnce == Spec => []DeliveredAtMostOnce
<1>1. IInv => DeliveredAtMostOnce
  BY SafetyFromInv
<1> QED
  BY <1>1, Invariance, PTL

(* The sending client never hears both of Completed and Cancelled, and     *)
(* never hears Completed twice.                                            *)
THEOREM OutcomeUnique == Spec => []OneOutcome
<1>1. IInv => OneOutcome
  BY SafetyFromInv
<1> QED
  BY <1>1, Invariance, PTL

(* A send session removed from the table has reported its outcome. *)
THEOREM EndIsReported == Spec => []NoSilentEnd
<1>1. IInv => NoSilentEnd
  BY SafetyFromInv
<1> QED
  BY <1>1, Invariance, PTL

(* An active send session always has a checkpoint with an armed timer. *)
THEOREM ProbeIsArmed == Spec => []AlwaysProbing
<1>1. IInv => AlwaysProbing
  BY SafetyFromInv
<1> QED
  BY <1>1, Invariance, PTL

(* When the receiver has closed the session the sender is no longer        *)
(* active.                                                                 *)
THEOREM CloseIsLast == Spec => []ClosedMeansSenderDone
<1>1. IInv => ClosedMeansSenderDone
  BY SafetyFromInv
<1> QED
  BY <1>1, Invariance, PTL

(* The receiver never cancels for the miscolored reason. *)
THEOREM ColorsAgree == Spec => []NeverMiscolored
<1>1. IInv => NeverMiscolored
  BY SafetyFromInv
<1> QED
  BY <1>1, Invariance, PTL

(* No red part is given to a client that was told of a cancellation. *)
THEOREM CancelIsFinal == Spec => NoDeliveryAfterCancel
<1>1. IInv /\ [Next]_vars
        => [notices.rcvCancelled > 0 => notices'.received = notices.received]_vars
  <2>1. SUFFICES ASSUME IInv, Next, notices.rcvCancelled > 0
                 PROVE  notices'.received = notices.received
    BY DEF vars
  <2>2. notices \in NoticeCounts
    BY <2>1 DEF IInv, TypeOK
  <2>3. CASE snd.state = "idle"
    BY <2>1, <2>3, IdleNotices
  <2>4. CASE snd.state # "idle"
    <3>1. NoticeStep
      BY <2>1, <2>4, SenderNotices, ReceiverNotices DEF Next
    <3>2. ~Listening
      BY <2>1 DEF IInv, DeliveryInv
    <3> QED
      BY <2>2, <3>1, <3>2, TellFacts DEF NoticeStep
  <2> QED
    BY <2>3, <2>4
<1> QED
  BY <1>1, Invariance, PTL DEF Spec, NoDeliveryAfterCancel

(* Initial states are initial states of BlockTransfer. *)
LEMMA AbstractInit == Init => Abstract!Init
BY DEF Init, Abstract!Init, Outcome, NewSendSession, NoNotices

(* Every step is a step of BlockTransfer or leaves its variables alone. *)
LEMMA AbstractNext ==
  ASSUME IInv, IInv', OneOutcome, OneOutcome', [Next]_vars
  PROVE  [Abstract!Next]_(Abstract!vars)
<1> USE DEF IInv
<1>1. CASE UNCHANGED vars
  BY <1>1 DEF vars, Abstract!vars, Outcome
<1>2. CASE Next /\ snd.state = "idle"
  <2>1. CASE snd'.redLen > 0 /\ notices'.completed = 0
    <3>1. Outcome' = "pending"
      BY <1>2, <2>1, IdleNotices DEF Outcome
    <3>2. Abstract!Submit(TRUE)
      BY <1>2, <2>1, <3>1, IdleNotices DEF Abstract!Submit
    <3> QED
      BY <3>2 DEF Abstract!Next
  <2>2. CASE snd'.redLen = 0 /\ notices'.completed = 1
    <3>1. Outcome' = "completed"
      BY <1>2, <2>2, IdleNotices DEF Outcome
    <3>2. Abstract!Submit(FALSE)
      BY <1>2, <2>2, <3>1, IdleNotices DEF Abstract!Submit
    <3> QED
      BY <3>2 DEF Abstract!Next
  <2> QED
    BY <1>2, <2>1, <2>2, IdleNotices
<1>3. CASE Next /\ snd.state # "idle"
  <2>1. NoticeStep
    BY <1>3, SenderNotices, ReceiverNotices DEF Next
  <2>2. /\ notices \in NoticeCounts /\ notices.completed \in Nat
        /\ notices.sndCancelled \in Nat /\ notices.received \in Nat
        /\ notices.rcvCancelled \in Nat
    BY CountFacts DEF TypeOK
  <2>3. snd'.state # "idle" /\ snd'.redLen = snd.redLen
    BY <2>1 DEF NoticeStep
  <2>5. CASE notices' = notices
    <3>1. UNCHANGED Abstract!vars
      BY <1>3, <2>3, <2>5 DEF Abstract!vars, Outcome
    <3> QED
      BY <3>1
  <2>6. CASE TellCompleted /\ notices.received > 0
    <3>1. /\ notices'.completed = notices.completed + 1
          /\ notices'.sndCancelled = notices.sndCancelled
          /\ notices'.received = notices.received
          /\ notices'.rcvCancelled = notices.rcvCancelled
      BY <2>2, <2>6, TellFacts
    <3>2. notices.completed = 0 /\ notices.sndCancelled = 0 /\ notices.received = 1
      BY <2>2, <2>6, <3>1 DEF OneOutcome, DeliveryInv
    <3>3. Outcome = "pending" /\ Outcome' = "completed"
      BY <1>3, <2>2, <2>3, <3>1, <3>2 DEF Outcome
    <3>4. Abstract!Complete
      BY <2>3, <3>1, <3>2, <3>3 DEF Abstract!Complete
    <3> QED
      BY <3>4 DEF Abstract!Next
  <2>7. CASE TellSendCancelled
    <3>1. /\ notices'.completed = notices.completed
          /\ notices'.sndCancelled = notices.sndCancelled + 1
          /\ notices'.received = notices.received
          /\ notices'.rcvCancelled = notices.rcvCancelled
      BY <2>2, <2>7, TellFacts
    <3>2. notices.completed = 0
      BY <2>2, <3>1 DEF OneOutcome
    <3>3. Outcome' = "failed"
      BY <2>2, <2>3, <3>1, <3>2 DEF Outcome
    <3>4. CASE notices.sndCancelled = 0
      <4>1. Outcome = "pending"
        BY <1>3, <3>2, <3>4 DEF Outcome
      <4>2. Abstract!Fail
        BY <2>3, <3>1, <3>3, <4>1 DEF Abstract!Fail
      <4> QED
        BY <4>2 DEF Abstract!Next
    <3>5. CASE notices.sndCancelled # 0
      <4>1. Outcome = "failed"
        BY <1>3, <2>2, <3>2, <3>5 DEF Outcome
      <4>2. UNCHANGED Abstract!vars
        BY <2>3, <3>1, <3>3, <4>1 DEF Abstract!vars
      <4> QED
        BY <4>2
    <3> QED
      BY <3>4, <3>5
  <2>8. CASE TellReceived /\ Listening /\ rcv'.redLen # None
    <3>1. /\ notices'.completed = notices.completed
          /\ notices'.sndCancelled = notices.sndCancelled
          /\ notices'.received = notices.received + 1
          /\ notices'.rcvCancelled = notices.rcvCancelled
      BY <2>2, <2>8, TellFacts
    <3>2. notices.received = 0 /\ notices.rcvCancelled = 0
      BY <2>2, <2>8, <3>1 DEF DeliveryInv
    <3>3. snd'.redLen > 0
      BY <2>8 DEF RecvInv
    <3>4. Outcome' = Outcome /\ Outcome # "unsent"
      BY <1>3, <2>3, <3>1 DEF Outcome
    <3>5. Abstract!Receive
      BY <2>3, <3>1, <3>2, <3>3, <3>4 DEF Abstract!Receive
    <3> QED
      BY <3>5 DEF Abstract!Next
  <2>9. CASE TellRecvCancelled
    <3>1. /\ notices'.completed = notices.completed
          /\ notices'.sndCancelled = notices.sndCancelled
          /\ notices'.received = notices.received
          /\ notices'.rcvCancelled = notices.rcvCancelled + 1
      BY <2>2, <2>9, TellFacts
    <3>2. Outcome' = Outcome /\ Outcome # "unsent"
      BY <1>3, <2>3, <3>1 DEF Outcome
    <3>3. CASE notices.rcvCancelled = 0
      <4>1. Abstract!Abort
        BY <2>2, <2>3, <3>1, <3>2, <3>3 DEF Abstract!Abort
      <4> QED
        BY <4>1 DEF Abstract!Next
    <3>4. CASE notices.rcvCancelled # 0
      <4>1. UNCHANGED Abstract!vars
        BY <2>2, <2>3, <3>1, <3>2, <3>4 DEF Abstract!vars
      <4> QED
        BY <4>1
    <3> QED
      BY <3>3, <3>4
  <2> QED
    BY <2>1, <2>5, <2>6, <2>7, <2>8, <2>9 DEF NoticeStep
<1> QED
  BY <1>1, <1>2, <1>3

(* The two engines over any channel implement BlockTransfer: what their    *)
(* clients are told, in what order, is what the abstract transfer allows.  *)
THEOREM Refinement == Spec => ImplementsBlockTransfer
<1>1. Init => Abstract!Init
  BY AbstractInit
<1>2. IInv /\ IInv' /\ OneOutcome /\ OneOutcome' /\ [Next]_vars
      => [Abstract!Next]_(Abstract!vars)
  BY AbstractNext
<1> QED
  BY <1>1, <1>2, Invariance, OutcomeUnique, PTL DEF Spec, ImplementsBlockTransfer, Abstract!Spec
=============================================================================
