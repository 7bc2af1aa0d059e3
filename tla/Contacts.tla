------------------------------ MODULE Contacts ------------------------------
(***************************************************************************)
(* A TCPCL peer of the station: who dials it, and what the station thinks  *)
(* about it.  Three parties dial the same peer through the same CLA and     *)
(* write the same entry of ClaManager.statuses: the connector that runs at  *)
(* startup, the contact coordinator with its schedule, and the operator's   *)
(* connect request.  The session is the TCPCL engine's (external); when it  *)
(* is lost nobody tells ClaManager.                                        *)
(*                                                                         *)
(* Time is in seconds.  It does not pass a moment at which somebody's      *)
(* sleep ends, and a dial takes DialTime at most.                          *)
(***************************************************************************)
EXTENDS Cron

CONSTANTS
  Schedules,    \* a sequence: the schedules the configuration may hold
  Starts,       \* times at which the station may be started
  Duration,     \* duration of a recurring contact
  MaxAttempts,  \* MAX_STARTUP_RETRIES
  FirstDelay, MaxDelay,   \* retry_delay
  DialTime,     \* how long a connect takes at most
  MaxTicks, MaxFlips,     \* bounds: time, changes of the network
  Requests      \* bound: the operator's requests

Recurring(w) == [kind |-> "recurring", cron |-> w, start |-> 0]
OneShot(s) == [kind |-> "one-shot", cron |-> Shortcut("hourly"), start |-> s]

ASSUME ContactsAssumption ==
  /\ Starts \subseteq Nat /\ Duration \in Nat /\ MaxAttempts \in Nat \ {0}
  /\ FirstDelay \in 1..MaxDelay /\ DialTime \in Nat
  /\ MaxTicks \in Nat /\ MaxFlips \in Nat /\ Requests \in Nat

VARIABLES
  configured,   \* which of Schedules
  startup,      \* [pc, attempts, delay, wake] of the connector
  coord,        \* [pc, wake] of the coordinator
  web,          \* [pc, wake] of the operator's request
  status,       \* ClaManager.statuses[peer]
  session,      \* the TCPCL session is there
  reachable,    \* the network carries a connect
  cancelled,    \* the task pool's cancellation token
  now, began, flips, asked,   \* time, when it began, counters of the bounds
  due,          \* history: when the session must be back, or Never
  dialled       \* history: the coordinator's dials in the current second, 2 for more

vars == <<configured, startup, coord, web, status, session, reachable, cancelled, now, began, flips, asked, due, dialled>>
static == <<configured, began>>
env == <<reachable, cancelled, now, flips, asked>>

-----------------------------------------------------------------------------
schedule == Schedules[configured]

(* An expression that does not parse leaves the peer without coordinator. *)
Readable == {i \in DOMAIN Schedules : Schedules[i].kind = "recurring" => Parses(Schedules[i].cron)}
Coordinated == configured \in Readable
Parsed == [i \in Readable |-> Parse(Schedules[i].cron)]
cron == Parsed[configured]

(* When a peer that can be reached from now on must be connected again: a  *)
(* running contact and a running dial end, then the next window comes.     *)
Due == IF ~(Coordinated /\ schedule.kind = "recurring") THEN Never
       ELSE LET free == now + Max({Duration, DialTime})
                start == NextAfter(cron, free)
            IN  IF start = Never THEN Never ELSE Max({free, start}) + DialTime

Init ==
  /\ configured \in DOMAIN Schedules /\ began \in Starts /\ now = began
  /\ startup = [pc |-> "sleep", attempts |-> 0, delay |-> FirstDelay, wake |-> began]
  /\ coord = [pc |-> IF Coordinated THEN "plan" ELSE "stopped", wake |-> 0]
  /\ web = [pc |-> "idle", wake |-> 0]
  /\ status = "Disconnected" /\ session = FALSE /\ reachable \in BOOLEAN /\ cancelled = FALSE
  /\ flips = 0 /\ asked = 0 /\ due = Due /\ dialled = 0

(* A connect that ends: it succeeds when the network carries it.  The      *)
(* caller writes what it saw over whatever another one wrote.              *)
Connected == reachable /\ session' = TRUE /\ status' = "Connected" /\ UNCHANGED due
NotConnected == ~reachable /\ status' = "Disconnected" /\ UNCHANGED <<session, due>>

-----------------------------------------------------------------------------
(* The connector at startup. *)

StartupDials ==
  /\ startup.pc = "sleep" /\ now >= startup.wake /\ ~cancelled
  /\ startup' = [startup EXCEPT !.pc = "dialing", !.wake = now + DialTime]
  /\ UNCHANGED <<static, env, coord, web, status, session, due, dialled>>

StartupConnected ==
  /\ startup.pc = "dialing" /\ ~cancelled /\ Connected
  /\ startup' = [startup EXCEPT !.pc = "done"]
  /\ UNCHANGED <<static, env, coord, web, dialled>>

(* The delay is doubled after it was slept, up to its limit. *)
StartupFailed ==
  /\ startup.pc = "dialing" /\ ~cancelled /\ NotConnected
  /\ LET n == startup.attempts + 1
     IN  startup' = IF n >= MaxAttempts THEN [startup EXCEPT !.pc = "done", !.attempts = n]
                    ELSE [pc |-> "sleep", attempts |-> n, delay |-> Min({2 * startup.delay, MaxDelay}),
                          wake |-> now + startup.delay]
  /\ UNCHANGED <<static, env, coord, web, dialled>>

StartupCancelled ==
  /\ startup.pc \in {"sleep", "dialing"} /\ cancelled /\ startup' = [startup EXCEPT !.pc = "done"]
  /\ UNCHANGED <<static, env, coord, web, status, session, due, dialled>>

-----------------------------------------------------------------------------
(* The coordinator. *)

NextStart ==
  IF schedule.kind = "recurring" THEN NextAfter(cron, now)
  ELSE IF schedule.start > now THEN schedule.start ELSE Never

(* A start that is already past is waited for no time at all. *)
CoordinatorPlans ==
  /\ coord.pc = "plan"
  /\ coord' = IF NextStart = Never THEN [pc |-> "resting", wake |-> 0]
              ELSE [pc |-> "waiting", wake |-> Max({now, NextStart})]
  /\ UNCHANGED <<static, env, startup, web, status, session, due, dialled>>

CoordinatorDials ==
  /\ coord.pc = "waiting" /\ now >= coord.wake
  /\ coord' = [pc |-> "dialing", wake |-> now + DialTime]
  /\ status' = "Connecting" /\ dialled' = Min({dialled + 1, 2})
  /\ UNCHANGED <<static, env, startup, web, session, due>>

CoordinatorConnected ==
  /\ coord.pc = "dialing" /\ Connected /\ coord' = [pc |-> "contact", wake |-> now + Duration]
  /\ UNCHANGED <<static, env, startup, web, dialled>>

(* Mutant: a contact that could not be started is waited for. *)
CoordinatorFailedWaits ==
  /\ coord.pc = "dialing" /\ NotConnected /\ coord' = [pc |-> "contact", wake |-> now + 4 * Duration]
  /\ UNCHANGED <<static, env, startup, web, dialled>>

CoordinatorFailed ==
  /\ coord.pc = "dialing" /\ NotConnected /\ coord' = [coord EXCEPT !.pc = "plan"]
  /\ UNCHANGED <<static, env, startup, web, dialled>>

(* end_contact of a TCPCL endpoint keeps the session. *)
ContactEnds ==
  /\ coord.pc = "contact" /\ now >= coord.wake /\ coord' = [coord EXCEPT !.pc = "plan"]
  /\ UNCHANGED <<static, env, startup, web, status, session, due, dialled>>

CoordinatorCancelled ==
  /\ coord.pc \in {"waiting", "contact", "resting"} /\ cancelled /\ coord' = [coord EXCEPT !.pc = "stopped"]
  /\ UNCHANGED <<static, env, startup, web, status, session, due, dialled>>

-----------------------------------------------------------------------------
(* The operator. *)

ConnectPeer ==
  /\ web.pc = "idle" /\ asked < Requests /\ ~cancelled
  /\ web' = [pc |-> "dialing", wake |-> now + DialTime] /\ asked' = asked + 1 /\ status' = "Connecting"
  /\ UNCHANGED <<static, startup, coord, session, reachable, cancelled, now, flips, due, dialled>>

WebConnected ==
  /\ web.pc = "dialing" /\ Connected /\ web' = [web EXCEPT !.pc = "idle"]
  /\ UNCHANGED <<static, env, startup, coord, dialled>>
WebFailed ==
  /\ web.pc = "dialing" /\ NotConnected /\ web' = [web EXCEPT !.pc = "idle"]
  /\ UNCHANGED <<static, env, startup, coord, dialled>>

(* The browser goes away: its handler is dropped where it waits. *)
WebDropped ==
  /\ web.pc = "dialing" /\ web' = [web EXCEPT !.pc = "idle"]
  /\ UNCHANGED <<static, env, startup, coord, status, session, due, dialled>>

-----------------------------------------------------------------------------
(* The network, the clock and the end of the station. *)

NetworkChanges ==
  /\ flips < MaxFlips /\ ~cancelled /\ flips' = flips + 1 /\ reachable' = ~reachable
  /\ session' \in IF reachable THEN {FALSE, session} ELSE {session}
  /\ due' = Due
  /\ UNCHANGED <<static, startup, coord, web, status, cancelled, now, asked, dialled>>

SessionLost ==
  /\ session /\ flips < MaxFlips /\ ~cancelled /\ flips' = flips + 1 /\ session' = FALSE /\ due' = Due
  /\ UNCHANGED <<static, startup, coord, web, status, reachable, cancelled, now, asked, dialled>>

Shutdown ==
  /\ ~cancelled /\ cancelled' = TRUE
  /\ UNCHANGED <<static, startup, coord, web, status, session, reachable, now, flips, asked, due, dialled>>

Overdue(a, pcs) == a.pc \in pcs /\ now >= a.wake
Tick ==
  /\ now < began + MaxTicks /\ ~cancelled /\ now' = now + 1 /\ dialled' = 0
  /\ ~Overdue(startup, {"sleep", "dialing"}) /\ ~Overdue(web, {"dialing"})
  /\ ~Overdue(coord, {"waiting", "dialing", "contact"}) /\ coord.pc # "plan"
  /\ UNCHANGED <<static, startup, coord, web, status, session, reachable, cancelled, flips, asked, due>>

Next ==
  \/ StartupDials \/ StartupConnected \/ StartupFailed \/ StartupCancelled
  \/ CoordinatorPlans \/ CoordinatorDials \/ CoordinatorConnected \/ CoordinatorFailed \/ ContactEnds \/ CoordinatorCancelled
  \/ ConnectPeer \/ WebConnected \/ WebFailed \/ WebDropped
  \/ NetworkChanges \/ SessionLost \/ Shutdown \/ Tick

Spec == Init /\ [][Next]_vars

-----------------------------------------------------------------------------
(* Properties. *)

(* What a written field means, for steps that do not overflow. *)
Means(f, min, max) ==
  UNION {{v \in Start(i, min)..Stop(i, max) : i.step = 0 \/ (v - Start(i, min)) % i.step = 0} : i \in f}
Overflows(f, max) == \E i \in f : i.step + max >= 2^Width
Meaning(w) ==
  [second |-> Means(w.second, 0, SecondsPerMinute - 1), minute |-> Means(w.minute, 0, MinutesPerHour - 1),
   hour |-> Means(w.hour, 0, HoursPerDay - 1), dom |-> Means(w.dom, 1, MaxDom),
   month |-> Means(w.month, 1, MonthsPerYear), dow |-> {d % DaysPerWeek : d \in Means(w.dow, 0, DaysPerWeek)}]
Matches(m, t) ==
  /\ Month[DayNo(t)] \in m.month /\ Dom[DayNo(t)] \in m.dom /\ Weekday(t) \in m.dow
  /\ Hrs(t) \in m.hour /\ Mins(t) \in m.minute /\ Sec(t) \in m.second

(* Whatever the moment at which the coordinator plans, the answer is the    *)
(* earliest time the expression as it is written matches, from the start   *)
(* of the minute that is running on, or from this second if the expression *)
(* has seconds: no window is jumped over when the search skips whole       *)
(* months, days and hours, over their different lengths, and Never is only *)
(* said when the whole search range has none.  That the search may go back *)
(* to the start of the minute is what the code does and not what it says:  *)
(* NextIsAtOrAfter.                                                        *)
NextIsEarliest ==
  (coord.pc = "plan" /\ schedule.kind = "recurring" /\ \A f \in DOMAIN schedule.cron : ~Overflows(schedule.cron[f], MaxDom))
    => LET m == Meaning(schedule.cron)
           next == NextAfter(cron, now)
           end == IF next = Never THEN now + SearchDays * PerDay ELSE next - 1
       IN  /\ next # Never => next >= Truncated(cron, now) /\ Matches(m, next)
           /\ \A t \in Truncated(cron, now)..end : ~Matches(m, t)

(* next_after finds the next time "at or after `after`" (cron.rs:184).      *)
(* It does not hold: an expression without seconds is matched from the     *)
(* start of the running minute, which lies before.  README.md, section 12. *)
NextIsAtOrAfter ==
  coord.pc = "plan" /\ schedule.kind = "recurring" => NextAfter(cron, now) = Never \/ NextAfter(cron, now) >= now

(* ADR 0014: the coordinator re-dials a peer whose session has dropped.    *)
(* Once the network carries a connect again the session is back as soon as *)
(* a running contact and a running dial have ended and the next window has *)
(* come, whatever the other two parties do meanwhile.                      *)
RecoveredInTime ==
  (~session /\ reachable /\ ~cancelled /\ schedule.kind = "recurring" /\ Coordinated)
    => due = Never \/ now <= due

(* ADR 0014 promises scheduling "without uncontrolled dial-out loops": a   *)
(* window whose contact fails is not dialled again and again.              *)
(* It does not hold: README.md, section 12.                                *)
NoDialOutLoop == dialled <= 1
=============================================================================
