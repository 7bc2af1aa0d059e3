----------------------------- MODULE TimerTable -----------------------------
(***************************************************************************)
(* The timer table of an LTP engine and the tick that empties it.  The     *)
(* table has two indexes, by key and by deadline; the engine's handlers    *)
(* set and cancel single timers and cancel all timers of a session, in     *)
(* their own order, which is left open here.                               *)
(*                                                                         *)
(* A key is <<session, kind, argument>> and keys are ordered like the      *)
(* derived order of TimerKey: by session, then by the place of the variant *)
(* in TimerKind, then by its argument (FALSE is 0, TRUE is 1).  Sessions   *)
(* stand for the pairs (originator, number) in their order.                *)
(***************************************************************************)
EXTENDS Naturals, Sequences

CONSTANTS
  Sending,      \* the sessions this engine originated
  Receiving,    \* the sessions it receives
  Serials,      \* checkpoint and report serials
  MaxTime       \* bound: no deadline lies beyond it

ASSUME SessionsAssumption == Sending \subseteq Nat /\ Receiving \subseteq Nat
ASSUME SerialsAssumption == Serials \subseteq Nat
ASSUME MaxTimeAssumption == MaxTime \in Nat

Inactivity == 0
Checkpoint == 1
Report == 2
Cancel == 3

Sessions == Sending \cup Receiving

(* The timers the engine may set. *)
Keys ==
  UNION {Sending \X {Inactivity, Cancel} \X {1}, Sending \X {Checkpoint} \X Serials,
         Receiving \X {Inactivity, Cancel} \X {0}, Receiving \X {Report} \X Serials}

Session(k) == k[1]

(* The derived order of TimerKey. *)
KeyLeq(a, b) ==
  \/ a[1] < b[1]
  \/ a[1] = b[1] /\ a[2] < b[2]
  \/ a[1] = b[1] /\ a[2] = b[2] /\ a[3] <= b[3]

(* The order of by_deadline, whose members are <<deadline, key>>. *)
EntryLeq(a, b) == a[1] < b[1] \/ (a[1] = b[1] /\ KeyLeq(a[2], b[2]))

VARIABLES
  byKey,        \* by_key: the deadline of every armed key
  byDeadline,   \* by_deadline
  now,          \* the time of the last call
  tick,         \* handle_timer_tick: "no", "polling" or "handling"
  expired       \* its local of that name, with the deadlines

vars == <<byKey, byDeadline, now, tick, expired>>

Init ==
  /\ byKey = <<>> /\ byDeadline = {} /\ now = 0
  /\ tick = "no" /\ expired = <<>>

(* The entries of the keys in ks, as by_key knows them. *)
Entries(ks) == {<<byKey[k], k>> : k \in ks \cap DOMAIN byKey}

(* Mutant: the entry of the old deadline stays. *)
SetKeepsOld(k, d) ==
  /\ tick # "polling"
  /\ byKey' = [x \in DOMAIN byKey \cup {k} |-> IF x = k THEN d ELSE byKey[x]]
  /\ byDeadline' = byDeadline \cup {<<d, k>>}
  /\ UNCHANGED <<now, tick, expired>>

(* set: the entry of the old deadline, if there is one, makes way. *)
Set(k, d) ==
  /\ tick # "polling"
  /\ byKey' = [x \in DOMAIN byKey \cup {k} |-> IF x = k THEN d ELSE byKey[x]]
  /\ byDeadline' = (byDeadline \ Entries({k})) \cup {<<d, k>>}
  /\ UNCHANGED <<now, tick, expired>>

(* cancel, for every key of ks. *)
CancelKeys(ks) ==
  /\ tick # "polling"
  /\ byKey' = [x \in DOMAIN byKey \ ks |-> byKey[x]]
  /\ byDeadline' = byDeadline \ Entries(ks)
  /\ UNCHANGED <<now, tick, expired>>

CancelKey(k) == CancelKeys({k})

(* Mutant: the range ends with the first cancel key. *)
SessionRangeShort(s) ==
  {k \in DOMAIN byKey : KeyLeq(<<s, Inactivity, 0>>, k) /\ KeyLeq(k, <<s, Cancel, 0>>)}

(* cancel_session: the keys of a range of by_key, from the least to the    *)
(* greatest key a session can have.                                        *)
SessionRange(s) ==
  {k \in DOMAIN byKey : KeyLeq(<<s, Inactivity, 0>>, k) /\ KeyLeq(k, <<s, Cancel, 1>>)}

CancelSession(s) == CancelKeys(SessionRange(s))

(* The entry that first() returns. *)
IsFirst(e) == e \in byDeadline /\ \A f \in byDeadline : EntryLeq(e, f)

(* Mutant: inactivity timers do not wake the driver. *)
StartTickSkipsInactivity ==
  /\ tick = "no"
  /\ \E e \in byDeadline : e[2][2] # Inactivity /\ e[1] <= now
  /\ tick' = "polling"
  /\ UNCHANGED <<byKey, byDeadline, now, expired>>

(* The driver sleeps until next_deadline and calls handle_timer_tick. *)
StartTick ==
  /\ tick = "no"
  /\ \E e \in byDeadline : IsFirst(e) /\ e[1] <= now
  /\ tick' = "polling"
  /\ UNCHANGED <<byKey, byDeadline, now, expired>>

(* Mutant: any expired timer is taken, not the earliest. *)
PollAny ==
  /\ tick = "polling"
  /\ \E e \in byDeadline :
       /\ e[1] <= now
       /\ byDeadline' = byDeadline \ {e}
       /\ byKey' = [x \in DOMAIN byKey \ {e[2]} |-> byKey[x]]
       /\ expired' = Append(expired, e)
  /\ UNCHANGED <<now, tick>>

(* poll_expired in the loop of the tick: the earliest entry, if it is due. *)
PollExpired ==
  /\ tick = "polling"
  /\ \E e \in byDeadline :
       /\ IsFirst(e) /\ e[1] <= now
       /\ byDeadline' = byDeadline \ {e}
       /\ byKey' = [x \in DOMAIN byKey \ {e[2]} |-> byKey[x]]
       /\ expired' = Append(expired, e)
  /\ UNCHANGED <<now, tick>>

(* Mutant: a timer that is due right now ends the loop. *)
PollNothingEarly ==
  /\ tick = "polling"
  /\ \A e \in byDeadline : IsFirst(e) => e[1] >= now
  /\ tick' = "handling"
  /\ UNCHANGED <<byKey, byDeadline, now, expired>>

(* poll_expired returns None and the loop ends. *)
PollNothing ==
  /\ tick = "polling"
  /\ \A e \in byDeadline : IsFirst(e) => e[1] > now
  /\ tick' = "handling"
  /\ UNCHANGED <<byKey, byDeadline, now, expired>>

(* Mutant: the tick ends with the first handler. *)
HandleExpiredOnce ==
  /\ tick = "handling" /\ expired # <<>>
  /\ expired' = Tail(expired)
  /\ tick' = "no"
  /\ UNCHANGED <<byKey, byDeadline, now>>

(* The handler of the first collected timer is done; what it did to the    *)
(* table are the Set and Cancel steps before.                              *)
HandleExpired ==
  /\ tick = "handling" /\ expired # <<>>
  /\ expired' = Tail(expired)
  /\ tick' = IF Tail(expired) = <<>> THEN "no" ELSE tick
  /\ UNCHANGED <<byKey, byDeadline, now>>

(* Time goes on between calls.  A handler sets deadlines a positive        *)
(* timeout after its own time.                                             *)
Advance ==
  /\ tick = "no" /\ now < MaxTime
  /\ now' = now + 1
  /\ UNCHANGED <<byKey, byDeadline, tick, expired>>

Next ==
  \/ \E k \in Keys, d \in (now + 1) .. MaxTime : Set(k, d)
  \/ \E k \in Keys : CancelKey(k)
  \/ \E s \in Sessions : CancelSession(s)
  \/ StartTick \/ PollExpired \/ PollNothing \/ HandleExpired \/ Advance

Spec == Init /\ [][Next]_vars

(* The driver's loop polls its sleep, a tick runs to its end, and time     *)
(* passes.                                                                 *)
Fairness ==
  /\ WF_vars(StartTick) /\ WF_vars(PollExpired) /\ WF_vars(PollNothing)
  /\ WF_vars(HandleExpired) /\ WF_vars(Advance)

LiveSpec == Spec /\ Fairness

-----------------------------------------------------------------------------
(* Properties.                                                             *)

(* The fields keep the types of the Rust structs, and the collected timers *)
(* are a local of the tick: none is left when it ends.                     *)
TypeOK ==
  /\ DOMAIN byKey \subseteq Keys /\ byKey \in [DOMAIN byKey -> Nat]
  /\ byDeadline \subseteq Nat \X Keys
  /\ now \in Nat /\ tick \in {"no", "polling", "handling"}
  /\ expired \in Seq(Nat \X Keys) /\ (tick = "no" => expired = <<>>)

(* The two indexes hold the same timers: every armed key has one entry     *)
(* with its deadline and there is no entry besides (set, cancel and        *)
(* poll_expired each update both).                                         *)
IndexesAgree == byDeadline = {<<byKey[k], k>> : k \in DOMAIN byKey}

(* A tick leaves nothing overdue: while the collected timers are handled,  *)
(* every armed timer lies in the future, so that what fires in this tick   *)
(* is what had expired when it began.                                      *)
NothingOverdue == tick = "handling" => \A k \in DOMAIN byKey : byKey[k] > now

(* The collected timers are handled in the order of their deadlines, and   *)
(* none before its time.                                                   *)
ExpiredInOrder ==
  /\ \A i \in DOMAIN expired : expired[i][1] <= now
  /\ \A i, j \in DOMAIN expired : i < j => expired[i][1] <= expired[j][1]

(* cancel_session takes all timers of its session, whatever their kind,    *)
(* and no timer of another.                                                *)
CancelsExactly ==
  [][\A s \in Sessions : CancelSession(s) =>
       DOMAIN byKey' = {k \in DOMAIN byKey : Session(k) # s}]_vars

(* A timer that is set does not stay: it fires at last, or is cancelled or *)
(* set anew.                                                               *)
EventuallyFires ==
  \A k \in Keys, d \in 1 .. MaxTime : <<d, k>> \in byDeadline ~> <<d, k>> \notin byDeadline
=============================================================================
