-------------------------------- MODULE Ping --------------------------------
(***************************************************************************)
(* dtnping: a main task that sends pings on an interval and then waits for *)
(* the replies, and the callbacks of the BPA's client, which run beside it *)
(* and share PingState behind a mutex and a semaphore.                     *)
(*                                                                         *)
(* A step is what runs between two awaits or two locks.  In particular the *)
(* main task records a ping only after sink.send has returned, on_deliver  *)
(* takes the mutex twice, and so does on_status_notify.                    *)
(*                                                                         *)
(* The BPA, the network and the echo service are external: a ping that was *)
(* taken may be answered any number of times, and status reports about it  *)
(* may come at any time.  Times are milliseconds.  The round-trip times    *)
(* and what is printed of them are left out.                               *)
(***************************************************************************)
EXTENDS Integers, FiniteSets, Sequences

CONSTANTS
  Count,        \* --count
  IntervalArg, WaitArg, TimeoutArg,   \* --interval, --wait, --timeout as [n, unit]
  NoTimeout,    \* the --timeout that is not given
  Padding,      \* bytes added to reach --size
  Policy,       \* --verify-policy
  Destination, Local,   \* the endpoint pinged, the node of the pinger
  Reporters,    \* nodes that send status reports
  Stray,        \* bundles that may reach the endpoint besides
  TickMs,       \* by how much the clock advances
  MaxReplies, MaxReports, MaxTime     \* bounds

ASSUME PingAssumption ==
  /\ {Count, Padding, MaxReplies, MaxReports, MaxTime} \subseteq Nat
  /\ TickMs \in Nat \ {0}

VARIABLES
  pc,          \* where the main task is
  seq,         \* the next sequence number
  now,         \* the clock
  deadline,    \* the end of the wait for replies
  state,       \* PingState
  permits,     \* the semaphore
  taken,       \* pings the BPA has taken
  inbox,       \* bundles that will be delivered to the service
  reports,     \* status reports that will be notified
  calls,       \* callbacks in progress
  exit,        \* exit code once it is decided, or -1
  made,        \* history: replies and reports made so far, for their bounds
  arrived      \* history: pings a reply to which was delivered

vars == <<pc, seq, now, deadline, state, permits, taken, inbox, reports, calls, exit, made, arrived>>
main == <<pc, seq, deadline, exit>>
network == <<taken, inbox, reports, made>>

-----------------------------------------------------------------------------
(* Durations and the CBOR payload [seq, options].                          *)

parse_duration(d) ==
  CASE d.unit = "ms" -> d.n
    [] d.unit \in {"s", ""} -> d.n * 1000
    [] d.unit = "m" -> d.n * 60000
    [] d.unit = "h" -> d.n * 3600000

Interval == parse_duration(IntervalArg)

\* tokio::time::interval panics on a period of zero, which parse_duration lets
\* through: such a session ends before its first ping.
ASSUME IntervalAssumption == Interval > 0

Wait == parse_duration(WaitArg)

\* The head of a CBOR item of the given major type.
CborHead(major, n) ==
  IF n < 24 THEN <<32 * major + n>>
  ELSE IF n < 256 THEN <<32 * major + 24, n>>
  ELSE IF n < 65536 THEN <<32 * major + 25, n \div 256, n % 256>>
  ELSE <<32 * major + 26, n \div 16777216, (n \div 65536) % 256, (n \div 256) % 256, n % 256>>

encode_ping_payload(seq_no, padding_len) ==
  <<130>> \o CborHead(0, seq_no)
  \o (IF padding_len > 0
      THEN <<161, 0>> \o CborHead(2, padding_len) \o [i \in 1..padding_len |-> 0]
      ELSE <<160>>)

\* -1 is None.
decode_ping_payload(p) ==
  IF Len(p) < 2 \/ p[1] # 130 THEN -1
  ELSE IF p[2] < 24 THEN p[2]
  ELSE IF p[2] = 24 /\ Len(p) >= 3 THEN p[3]
  ELSE IF p[2] = 25 /\ Len(p) >= 4 THEN 256 * p[3] + p[4]
  ELSE IF p[2] = 26 /\ Len(p) >= 6
  THEN 16777216 * p[3] + 65536 * p[4] + 256 * p[5] + p[6]
  ELSE -1

-----------------------------------------------------------------------------
Init ==
  /\ pc = "loop" /\ seq = 0 /\ now = 0 /\ deadline = 0 /\ exit = -1
  /\ state = [sent |-> 0, received |-> 0, sent_times |-> {}, replied |-> {}, path_hops |-> {}]
  /\ permits = 0
  /\ taken = {} /\ inbox = {} /\ reports = {} /\ calls = {}
  /\ made = [replies |-> 0, reports |-> 0] /\ arrived = {}

Running == pc # "exited"

-----------------------------------------------------------------------------
(* The main task: the loop that sends.                                     *)

\* The tick of ping seq is due at seq * Interval; a late one comes at once.
TickDue == pc = "loop" /\ seq < Count /\ now >= seq * Interval

\* The BPA takes the bundle, the call has not returned.
SendPing ==
  /\ TickDue
  /\ pc' = "sending"
  /\ taken' = taken \cup {seq}
  /\ UNCHANGED <<seq, now, deadline, state, permits, inbox, reports, calls, exit, made, arrived>>

SendReturns ==
  /\ pc = "sending"
  /\ state' = [state EXCEPT !.sent = @ + 1, !.sent_times = @ \cup {seq}]
  /\ seq' = seq + 1
  /\ pc' = "loop"
  /\ UNCHANGED <<now, deadline, permits, network, calls, exit, arrived>>

\* The call failed, whether or not the BPA has the bundle.
SendErr ==
  /\ pc = "sending"
  /\ pc' = "loop"
  /\ seq' = seq + 1
  /\ UNCHANGED <<now, deadline, state, permits, network, calls, exit, arrived>>

\* A bundle that cannot be built ends the program with 2, after a call that
\* unregisters the service; one that cannot be signed ends main with an error,
\* which is 1.
PrepareErr ==
  /\ TickDue /\ seq = 0
  /\ \/ pc' = "unregistering" /\ exit' = 2
     \/ pc' = "exited" /\ exit' = 1
  /\ UNCHANGED <<seq, now, deadline, state, permits, network, calls, arrived>>

LoopEnds ==
  /\ pc = "loop"
  /\ \/ seq >= Count
     \/ TimeoutArg # NoTimeout /\ now >= parse_duration(TimeoutArg)
  /\ pc' = "drain"
  /\ UNCHANGED <<seq, now, deadline, state, permits, network, calls, exit, arrived>>

LoopInterrupted ==
  /\ pc = "loop" /\ seq < Count
  /\ pc' = "drain"
  /\ UNCHANGED <<seq, now, deadline, state, permits, network, calls, exit, arrived>>

-----------------------------------------------------------------------------
(* The main task: the wait for the replies.                                *)

AllReplied == state.received >= state.sent

StartWait ==
  /\ pc = "drain"
  /\ pc' = IF AllReplied THEN "summary" ELSE "poll"
  /\ deadline' = now + Wait
  /\ UNCHANGED <<seq, now, state, permits, network, calls, exit, arrived>>

Poll ==
  /\ pc = "poll"
  /\ pc' = IF AllReplied THEN "summary" ELSE "acquire"
  /\ UNCHANGED <<seq, now, deadline, state, permits, network, calls, exit, arrived>>

\* The permit is dropped where it is acquired, which gives it back.
Acquire ==
  /\ pc = "acquire" /\ permits > 0
  /\ pc' = "poll"
  /\ UNCHANGED <<seq, now, deadline, state, permits, network, calls, exit, arrived>>

\* Mutant: the time is looked at only after a permit was acquired.
WaitEndsAfterPermit ==
  /\ pc = "poll" /\ permits > 0
  /\ now >= deadline
  /\ pc' = "summary"
  /\ UNCHANGED <<seq, now, deadline, state, permits, network, calls, exit, arrived>>

WaitEnds ==
  /\ pc \in {"poll", "acquire"}
  /\ now >= deadline
  /\ pc' = "summary"
  /\ UNCHANGED <<seq, now, deadline, state, permits, network, calls, exit, arrived>>

WaitInterrupted ==
  /\ pc \in {"poll", "acquire"}
  /\ pc' = "summary"
  /\ UNCHANGED <<seq, now, deadline, state, permits, network, calls, exit, arrived>>

\* The counters are read and printed, then the service is unregistered, which
\* is a call to the BPA.
Summary ==
  /\ pc = "summary"
  /\ exit' = IF state.received > 0 THEN 0 ELSE 1
  /\ pc' = "unregistering"
  /\ UNCHANGED <<seq, now, deadline, state, permits, network, calls, arrived>>

UnregisterReturns ==
  /\ pc = "unregistering"
  /\ pc' = "exited"
  /\ UNCHANGED <<seq, now, deadline, state, permits, network, calls, exit, arrived>>

\* The main task awaits the BPA.  It has left its select! for the body of a
\* branch, or it has left the loop: neither --timeout nor Ctrl-C is polled.
InCall == pc \in {"sending", "unregistering"}

-----------------------------------------------------------------------------
(* on_deliver.                                                             *)

\* Strict verification, another source or an unreadable payload end it.
Ignored(b) ==
  \/ Policy = "strict" /\ b.sig # "valid"
  \/ b.from # Destination
  \/ decode_ping_payload(b.payload) = -1

DeliverStarts(b) ==
  /\ Running /\ b \in inbox
  /\ inbox' = inbox \ {b}
  /\ IF Ignored(b) THEN UNCHANGED <<calls, arrived>>
     ELSE LET s == decode_ping_payload(b.payload) IN
          /\ calls' = calls \cup {[kind |-> "look up", seq |-> s, n |-> b.n, hop |-> b.from]}
          /\ arrived' = arrived \cup {s}
  /\ UNCHANGED <<main, now, state, permits, taken, reports, made>>

Call(kind) == {c \in calls : c.kind = kind}

\* Mutant: the time the ping was sent is read, not removed.
LookUpKept(c) ==
  /\ Running /\ c \in Call("look up")
  /\ calls' = IF c.seq \in state.sent_times
              THEN (calls \ {c}) \cup {[c EXCEPT !.kind = "count"]}
              ELSE calls \ {c}
  /\ UNCHANGED <<main, now, state, permits, network, arrived>>

\* The first lock: a sequence number that is not awaited is ignored.
LookUp(c) ==
  /\ Running /\ c \in Call("look up")
  /\ IF c.seq \in state.sent_times
     THEN /\ calls' = (calls \ {c}) \cup {[c EXCEPT !.kind = "count"]}
          /\ state' = [state EXCEPT !.sent_times = @ \ {c.seq}]
     ELSE /\ calls' = calls \ {c}
          /\ UNCHANGED state
  /\ UNCHANGED <<main, now, permits, network, arrived>>

\* The second lock.
CountReply(c) ==
  /\ Running /\ c \in Call("count")
  /\ state' = [state EXCEPT !.received = @ + 1, !.replied = @ \cup {c.seq}]
  /\ calls' = (calls \ {c}) \cup {[c EXCEPT !.kind = "print"]}
  /\ UNCHANGED <<main, now, permits, network, arrived>>

HopsOf(s) == {h \in state.path_hops : h.seq = s}

\* Mutant: without a path to print the callback returns early.
PrintPathReturns(c) ==
  /\ Running /\ c \in Call("print")
  /\ state' = [state EXCEPT !.path_hops = @ \ HopsOf(c.seq)]
  /\ permits' = IF HopsOf(c.seq) = {} THEN permits ELSE permits + 1
  /\ calls' = calls \ {c}
  /\ UNCHANGED <<main, now, network, arrived>>

\* print_path takes the hops away; then the waiter is woken.
PrintPath(c) ==
  /\ Running /\ c \in Call("print")
  /\ state' = [state EXCEPT !.path_hops = @ \ HopsOf(c.seq)]
  /\ permits' = permits + 1
  /\ calls' = calls \ {c}
  /\ UNCHANGED <<main, now, network, arrived>>

-----------------------------------------------------------------------------
(* on_status_notify.                                                       *)

\* A report is followed up while its ping is known and not answered.
Notify(r) ==
  /\ Running /\ r \in reports
  /\ reports' = reports \ {r}
  /\ IF r.seq \in state.sent_times
     THEN /\ permits' = IF r.kind = "deleted" THEN permits + 1 ELSE permits
          /\ calls' = IF r.from = Local THEN calls
                      ELSE calls \cup {[kind |-> "hop", seq |-> r.seq, n |-> r.n, hop |-> r.from]}
     ELSE UNCHANGED <<permits, calls>>
  /\ UNCHANGED <<main, now, state, taken, inbox, made, arrived>>

RecordHop(c) ==
  /\ Running /\ c \in Call("hop")
  /\ state' = [state EXCEPT !.path_hops = @ \cup {[seq |-> c.seq, hop |-> c.hop]}]
  /\ calls' = calls \ {c}
  /\ UNCHANGED <<main, now, permits, network, arrived>>

-----------------------------------------------------------------------------
(* The network and the clock.                                              *)

Echo(s) ==
  /\ Running /\ s \in taken /\ made.replies < MaxReplies
  /\ inbox' = inbox \cup {[n |-> made.replies, from |-> Destination, sig |-> "valid",
                           payload |-> encode_ping_payload(s, Padding)]}
  /\ made' = [made EXCEPT !.replies = @ + 1]
  /\ UNCHANGED <<main, now, state, permits, taken, reports, calls, arrived>>

\* A bundle of the endpoint's that is no reply to a ping of this session.
Mail(b) ==
  /\ Running /\ made.replies < MaxReplies
  /\ inbox' = inbox \cup {b}
  /\ made' = [made EXCEPT !.replies = @ + 1]
  /\ UNCHANGED <<main, now, state, permits, taken, reports, calls, arrived>>

Report(s, kind, from) ==
  /\ Running /\ s \in taken /\ made.reports < MaxReports
  /\ reports' = reports \cup {[n |-> made.reports, seq |-> s, kind |-> kind, from |-> from]}
  /\ made' = [made EXCEPT !.reports = @ + 1]
  /\ UNCHANGED <<main, now, state, permits, taken, inbox, calls, arrived>>

\* MaxTime bounds the time the sending takes; the wait always comes to its end.
Tick ==
  /\ Running
  /\ \/ now + TickMs <= MaxTime
     \/ pc \in {"poll", "acquire"} /\ now < deadline
  /\ now' = now + TickMs
  /\ UNCHANGED <<main, state, permits, network, calls, arrived>>

Next ==
  \/ SendPing \/ SendReturns \/ SendErr \/ PrepareErr \/ LoopEnds \/ LoopInterrupted
  \/ StartWait \/ Poll \/ Acquire \/ WaitEnds \/ WaitInterrupted
  \/ Summary \/ UnregisterReturns
  \/ \E b \in inbox : DeliverStarts(b)
  \/ \E c \in calls : LookUp(c) \/ CountReply(c) \/ PrintPath(c) \/ RecordHop(c)
  \/ \E r \in reports : Notify(r)
  \/ \E s \in taken : Echo(s)
  \/ \E b \in Stray : Mail(b)
  \/ \E s \in taken, kind \in {"received", "deleted"}, from \in Reporters : Report(s, kind, from)
  \/ Tick

\* tokio runs the main task when it can run, fires a timer that is due, and
\* time passes.  Nobody has to answer a ping, nobody has to press Ctrl-C, and
\* the BPA need not answer a call: SendReturns, SendErr and UnregisterReturns
\* are not fair.
Spec ==
  /\ Init /\ [][Next]_vars
  /\ WF_vars(SendPing \/ LoopEnds \/ StartWait \/ Poll \/ Acquire \/ Summary)
  /\ WF_vars(WaitEnds)
  /\ WF_vars(Tick)

-----------------------------------------------------------------------------
(* Properties.                                                             *)

\* However often a ping is answered, and whatever an earlier session left in
\* the network, every ping recorded as sent is awaited, in the hands of one
\* callback or counted once: the loss dtnping prints is never negative.
EachPingCountedOnce ==
  /\ state.received = Cardinality(state.replied)
  /\ state.received + Cardinality(state.sent_times) + Cardinality(Call("count")) = state.sent

\* The main task does not sleep in semaphore.acquire when the last reply has
\* been counted and its callback is over: the wake-up was not lost, though it
\* may have come before the main task began to wait.
LastReplyWakes ==
  pc = "acquire" /\ AllReplied /\ Call("print") = {} => permits > 0

\* A session with a --count ends, though no reply ever comes, unless the BPA
\* leaves a call of the main task unanswered for good: nothing but its two
\* calls can keep it, neither the semaphore nor a timer nor a callback.
SessionEnds == <>(pc = "exited") \/ <>[]InCall

\* --timeout is the "Total time limit for the session" (dtnping.rs:49): a
\* session that has one ends.  It does not hold: while sink.send or unregister
\* is awaited nothing polls the limit.  README.md, section 12.
TimeoutEndsSession == TimeoutArg # NoTimeout => <>(pc = "exited")

\* "NoResponse = 1 (No responses received)": when dtnping exits with 1, no ping
\* it recorded as sent had a reply that went all the way through on_deliver.
\* It does not hold: README.md, section 12.
ExitTellsReplies ==
  pc = "exited" /\ exit = 1 => arrived \cap state.sent_times \subseteq {c.seq : c \in calls}

=============================================================================
