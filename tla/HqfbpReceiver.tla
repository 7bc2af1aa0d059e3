--------------------------- MODULE HqfbpReceiver ---------------------------
(***************************************************************************)
(* The receiving side of hqfbp-cla: RxSessionManager, which bounds what    *)
(* the deframer may hold for the stations heard, and the driver that feeds *)
(* it packets, sweeps it and hands completed messages to the BPA.          *)
(*                                                                         *)
(* The deframer (hqfbp-rs) is external: it collects the PDUs of a message  *)
(* under the source and the message id, reports the message once all of    *)
(* its PDUs are there, and drops on request the sessions that were idle    *)
(* for a given time.  The air may lose, repeat and reorder PDUs: any PDU   *)
(* of any message may arrive at any time.                                  *)
(*                                                                         *)
(* Instants are ages, in ticks and capped at the time to live, which is    *)
(* all that is ever compared.                                              *)
(***************************************************************************)
EXTENDS Naturals, Sequences, FiniteSetsExt, SequencesExt

CONSTANTS
  Messages,     \* messages that may be on the air
  Source,       \* Source[m]: the callsign that sent m
  Id,           \* Id[m]: original_message_id of the PDUs of m
  Payload,      \* Payload[m]: the bundle m carries
  Pdus,         \* Pdus[m]: the number of PDUs of m
  Readable,     \* Readable[m]: unpack reads the header of m's PDUs as they are on the air
  Size,         \* length of a PDU in octets
  Noise,        \* packets that are no PDU, named by their lengths
  MaxSenders,   \* Config.max_concurrent_senders
  MaxBytes,     \* Config.max_in_flight_bytes
  Ttl,          \* Config.session_ttl
  MaxPackets    \* bound: packets received

ASSUME MessageAssumption ==
  /\ DOMAIN Source = Messages /\ DOMAIN Payload = Messages
  /\ Id \in [Messages -> Nat \ {0}] /\ Pdus \in [Messages -> Nat \ {0}]
  /\ Readable \in [Messages -> BOOLEAN]
  /\ IsFiniteSet({Id[m] : m \in Messages})     \* an id is an u32
ASSUME LimitAssumption ==
  /\ Size \in Nat \ {0} /\ Noise \subseteq Nat /\ Ttl \in Nat \ {0}
  /\ MaxSenders \in Nat \ {0} /\ MaxBytes \in Nat /\ MaxPackets \in Nat

VARIABLES
  senders,     \* SenderState by callsign: octets, session_bytes, age since last_active
  lru,         \* lru_senders
  total,       \* total_buffered_bytes
  sessions,    \* completed_sessions: age by source and id
  payloads,    \* completed_payloads: age by source and payload
  frames,      \* the deframer's sessions (external): the PDUs held and their age
  delivered,   \* history: the last delivery by source and payload: its age, and
               \* whether one came within the time to live of the one before
  packets      \* counter of the bound

vars == <<senders, lru, total, sessions, payloads, frames, delivered, packets>>

Unknown == ""      \* the sender None
NoId == 0          \* the message id None
Names == {Source[m] : m \in Messages} \cup {Unknown}
Ids == {Id[m] : m \in Messages}
Key(m) == <<Source[m], Id[m]>>
Content(m) == <<Source[m], Payload[m]>>
Ages == 0 .. Ttl

Init ==
  /\ senders = <<>> /\ lru = <<>> /\ total = 0
  /\ sessions = <<>> /\ payloads = <<>> /\ frames = <<>>
  /\ delivered = <<>> /\ packets = 0

Monus(a, b) == IF a > b THEN a - b ELSE 0
Put(f, x, v) == [y \in DOMAIN f \cup {x} |-> IF y = x THEN v ELSE f[y]]
Drop(f, X) == [y \in DOMAIN f \ X |-> f[y]]

(* The queue without the senders of X. *)
Kept(q, X) ==
  LET kept[i \in 0 .. Len(q)] ==
        IF i = 0 THEN <<>> ELSE IF q[i] \in X THEN kept[i - 1] ELSE Append(kept[i - 1], q[i])
  IN  kept[Len(q)]

Octets(table, X) == MapThenSumSet(LAMBDA s : table[s].bytes, X)

-----------------------------------------------------------------------------
(* The manager as a record, so that the steps of process_pdu can be        *)
(* applied one after the other.                                            *)

Manager == [senders |-> senders, lru |-> lru, total |-> total, sessions |-> sessions,
            payloads |-> payloads, frames |-> frames, delivered |-> delivered]

Becomes(r) ==
  /\ senders' = r.senders /\ lru' = r.lru /\ total' = r.total
  /\ sessions' = r.sessions /\ payloads' = r.payloads
  /\ frames' = r.frames /\ delivered' = r.delivered

(* Mutant: the evicted sender's octets stay in the total. *)
EvictKeepsTotal(r, X) ==
  [r EXCEPT !.senders = Drop(r.senders, X), !.lru = Kept(r.lru, X),
            !.frames = IF \E s \in X, i \in Ids : r.senders[s].sess[i] > 0 THEN <<>> ELSE @]

(* Mutant: the sessions of the evicted sender stay in the deframer. *)
EvictKeepsFrames(r, X) ==
  [r EXCEPT !.senders = Drop(r.senders, X), !.lru = Kept(r.lru, X),
            !.total = Monus(r.total, Octets(r.senders, X))]

(* evict_oldest_sender, for every sender of X in turn.  For each message   *)
(* that was in progress the deframer is told to drop whatever has been     *)
(* idle for zero time, which is every session of every sender.             *)
Evict(r, X) ==
  [r EXCEPT !.senders = Drop(r.senders, X), !.lru = Kept(r.lru, X),
            !.total = Monus(r.total, Octets(r.senders, X)),
            !.frames = IF \E s \in X, i \in Ids : r.senders[s].sess[i] > 0 THEN <<>> ELSE @]

(* A new sender when the table is full costs the oldest one its place. *)
EnforceSenders(r, sender) ==
  IF sender \notin DOMAIN r.senders /\ Cardinality(DOMAIN r.senders) >= MaxSenders
  THEN Evict(r, {Head(r.lru)}) ELSE r

(* The oldest other senders are evicted, as few as make room; all of them  *)
(* when even that does not.                                                *)
EnforceBytes(r, sender, len) ==
  LET others == Kept(r.lru, {sender})
      oldest(k) == {others[i] : i \in 1 .. k}
      room(k) == Monus(r.total, Octets(r.senders, oldest(k))) + len <= MaxBytes
      enough == {k \in 0 .. Len(others) : room(k)}
  IN Evict(r, oldest(IF enough = {} THEN Len(others) ELSE Min(enough)))

(* Mutant: a sender heard again keeps its place. *)
AccountKeepsPlace(r, sender, id, len) ==
  LET old == IF sender \in DOMAIN r.senders THEN r.senders[sender]
             ELSE [bytes |-> 0, sess |-> [i \in Ids |-> 0], age |-> 0]
  IN [r EXCEPT !.total = @ + len,
               !.lru = IF Contains(@, sender) THEN @ ELSE Append(@, sender),
               !.senders = Put(@, sender,
                  [bytes |-> old.bytes + len, age |-> 0,
                   sess |-> [i \in Ids |-> IF i = id THEN old.sess[i] + len ELSE old.sess[i]]])]

(* The octets of a packet are charged to the sender and the message that   *)
(* its header names, if it could be read, and the sender becomes the most  *)
(* recent one.  The messages in progress are the ones with octets.         *)
Account(r, sender, id, len) ==
  LET old == IF sender \in DOMAIN r.senders THEN r.senders[sender]
             ELSE [bytes |-> 0, sess |-> [i \in Ids |-> 0], age |-> 0]
  IN [r EXCEPT !.total = @ + len,
               !.lru = Append(Kept(@, {sender}), sender),
               !.senders = Put(@, sender,
                  [bytes |-> old.bytes + len, age |-> 0,
                   sess |-> [i \in Ids |-> IF i = id THEN old.sess[i] + len ELSE old.sess[i]]])]

(* Mutant: a completed message gives back its sender's octets as well. *)
ReleaseTwice(r, m) ==
  LET s == Source[m]
      own == r.senders[s]
      freed == own.sess[Id[m]] + own.bytes
  IN IF s \notin DOMAIN r.senders THEN r
     ELSE [r EXCEPT !.senders = Put(@, s, [own EXCEPT !.bytes = @ - freed, !.sess[Id[m]] = 0]),
                    !.total = @ - freed,
                    !.sessions = Put(@, Key(m), 0)]

(* A message is complete: its octets are released and its id remembered,   *)
(* provided its source is a sender.  If no octets were charged to the      *)
(* message, everything charged to its sender is released.                  *)
Release(r, m) ==
  LET s == Source[m]
      own == r.senders[s]
      freed == IF own.sess[Id[m]] > 0 THEN own.sess[Id[m]] ELSE own.bytes
  IN IF s \notin DOMAIN r.senders THEN r
     ELSE [r EXCEPT !.senders = Put(@, s, [own EXCEPT !.bytes = Monus(@, freed), !.sess[Id[m]] = 0]),
                    !.total = Monus(@, freed),
                    !.sessions = Put(@, Key(m), 0)]

(* The deframer takes PDU i of m (external); TRUE in done once it has all. *)
Deframe(r, m, i) ==
  LET held == (IF Key(m) \in DOMAIN r.frames THEN r.frames[Key(m)].pdus ELSE {}) \cup {<<m, i>>}
      done == \A j \in 1 .. Pdus[m] : <<m, j>> \in held
  IN [done |-> done,
      r |-> [r EXCEPT !.frames = IF done THEN Drop(@, {Key(m)})
                                 ELSE Put(@, Key(m), [pdus |-> held, age |-> 0])]]

Dispatch(log, c) ==
  Put(log, c, [age |-> 0, echo |-> c \in DOMAIN log /\ (log[c].echo \/ log[c].age < Ttl)])

(* Mutant: a completed payload is not remembered. *)
CompleteForgets(r, m) ==
  IF Content(m) \in DOMAIN r.payloads THEN r
  ELSE [Release(r, m) EXCEPT !.delivered = Dispatch(@, Content(m))]

(* Event::Message: a payload heard from this source a short while ago is   *)
(* ignored; any other is released, remembered and dispatched to the BPA.   *)
Complete(r, m) ==
  IF Content(m) \in DOMAIN r.payloads THEN r
  ELSE [Release(r, m) EXCEPT !.payloads = Put(@, Content(m), 0),
                             !.delivered = Dispatch(@, Content(m))]

(* process_pdu up to the deframer: what is left of the manager after the   *)
(* evictions, and whether the packet fits.                                 *)
Admit(sender, len) == EnforceBytes(EnforceSenders(Manager, sender), sender, len)
Fits(r, len) == r.total + len <= MaxBytes

Receive == packets < MaxPackets /\ packets' = packets + 1

(* handle_incoming_packet with PDU i of message m. *)
IncomingPdu(m, i) ==
  LET sender == IF Readable[m] THEN Source[m] ELSE Unknown
      r == Admit(sender, Size)
      d == Deframe(Account(r, sender, IF Readable[m] THEN Id[m] ELSE NoId, Size), m, i)
  IN /\ Receive
     /\ Size <= MaxBytes
     /\ ~(Readable[m] /\ Key(m) \in DOMAIN sessions)
     /\ Becomes(IF ~Fits(r, Size) THEN r ELSE IF d.done THEN Complete(d.r, m) ELSE d.r)

(* A packet that neither unpack nor the deframer understands. *)
IncomingNoise(len) ==
  LET r == Admit(Unknown, len)
  IN /\ Receive
     /\ len <= MaxBytes
     /\ Becomes(IF Fits(r, len) THEN Account(r, Unknown, NoId, len) ELSE r)

(* Mutant: the payloads are never forgotten. *)
SweepKeepsPayloads ==
  LET stale == {s \in DOMAIN senders : senders[s].age >= Ttl}
      fresh(f) == [x \in {y \in DOMAIN f : f[y] < Ttl} |-> f[x]]
  IN /\ frames' = Drop(frames, {k \in DOMAIN frames : frames[k].age >= Ttl})
     /\ senders' = Drop(senders, stale)
     /\ lru' = Kept(lru, stale)
     /\ total' = Monus(total, Octets(senders, stale))
     /\ sessions' = fresh(sessions)
     /\ UNCHANGED <<payloads, delivered, packets>>

(* sweep_expired, at the driver's sweep interval. *)
Sweep ==
  LET stale == {s \in DOMAIN senders : senders[s].age >= Ttl}
      fresh(f) == [x \in {y \in DOMAIN f : f[y] < Ttl} |-> f[x]]
  IN /\ frames' = Drop(frames, {k \in DOMAIN frames : frames[k].age >= Ttl})
     /\ senders' = Drop(senders, stale)
     /\ lru' = Kept(lru, stale)
     /\ total' = Monus(total, Octets(senders, stale))
     /\ sessions' = fresh(sessions) /\ payloads' = fresh(payloads)
     /\ UNCHANGED <<delivered, packets>>

(* Time passes. *)
Tick ==
  LET older(a) == IF a < Ttl THEN a + 1 ELSE a
      aged(f) == [x \in DOMAIN f |-> [f[x] EXCEPT !.age = older(@)]]
      past(f) == [x \in DOMAIN f |-> older(f[x])]
  IN /\ senders' = aged(senders) /\ frames' = aged(frames) /\ delivered' = aged(delivered)
     /\ sessions' = past(sessions) /\ payloads' = past(payloads)
     /\ UNCHANGED <<lru, total, packets>>

Next ==
  \/ \E m \in Messages : \E i \in 1 .. Pdus[m] : IncomingPdu(m, i)
  \/ \E len \in Noise : IncomingNoise(len)
  \/ Sweep
  \/ Tick

Spec == Init /\ [][Next]_vars

(* The driver's interval timer keeps firing and time passes. *)
LiveSpec == Spec /\ WF_vars(Tick) /\ WF_vars(Sweep)

-----------------------------------------------------------------------------
(* Properties.                                                             *)

(* The octets counted are the octets charged to the senders still known,   *)
(* and never more than the configured limit, whatever was evicted, swept,  *)
(* completed or refused in between.                                        *)
Accounted == total = Octets(senders, DOMAIN senders) /\ total <= MaxBytes

(* The queue of senders and the table of senders name the same stations,   *)
(* each once and within the limit, and the queue is in the order of their  *)
(* last activity: the sender that is evicted is the one idle longest.      *)
OldestFirst ==
  /\ ToSet(lru) = DOMAIN senders /\ Len(lru) = Cardinality(DOMAIN senders)
  /\ Len(lru) <= MaxSenders
  /\ \A i, j \in DOMAIN lru : i < j => senders[lru[i]].age >= senders[lru[j]].age

Held(k) == Size * Cardinality(frames[k].pdus)

(* What the deframer holds for a message is charged to that message: no    *)
(* eviction, sweep or completion of another message leaves octets behind   *)
(* that nobody counts.                                                     *)
HeldIsAccounted ==
  \A k \in DOMAIN frames :
    k[1] \in DOMAIN senders /\ Held(k) <= senders[k[1]].sess[k[2]]

(* A payload is not dispatched again within the time to live, however its  *)
(* PDUs are repeated and under whatever message ids.                       *)
NoEcho == \A c \in DOMAIN delivered : ~delivered[c].echo

(* When the channel falls silent everything is given back: no station, no  *)
(* partial message and no memory of past ones stays for good.              *)
EventuallyEmpty ==
  <>[](total = 0 /\ lru = <<>> /\ frames = <<>> /\ sessions = <<>> /\ payloads = <<>>)

(* "Also purge any matching sessions from the underlying deframer": an     *)
(* eviction leaves the sessions of the senders it does not touch.          *)
(* It does not hold: README.md, section 12.                                *)
EvictionIsSelective ==
  [][\A k \in DOMAIN frames :
       \/ k[1] \notin DOMAIN senders \cap DOMAIN senders'
       \/ senders'[k[1]] # senders[k[1]]
       \/ frames[k].age >= Ttl
       \/ k \in DOMAIN frames']_vars

(* "Hard memory accounting on in-flight buffered bytes": what is held      *)
(* never exceeds the limit.                                                *)
(* It does not hold: README.md, section 12.                                *)
HeldIsBounded == MapThenSumSet(Held, DOMAIN frames) <= MaxBytes

(* "Deduplicate chunks belonging to an already completed message": a       *)
(* message whose PDUs are ignored has been delivered.                      *)
(* It does not hold: README.md, section 12.                                *)
IgnoredMeansDelivered ==
  \A m \in Messages : Readable[m] /\ Key(m) \in DOMAIN sessions => Content(m) \in DOMAIN delivered
=============================================================================
