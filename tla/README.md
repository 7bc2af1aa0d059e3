# Formal models of dtn-hdy-utils

TLA+ specifications of the delay-tolerant networking tools in this repository:
modules that follow the Rust code handler by handler, TLC configurations that
check them on small instances, and TLAPS proofs that hold for every size.

Paths are relative to the repository root. `PROJECT.json` is the machine-readable
index: which definition models which source lines, which run checks what, which
hazards of the code the properties are for.

## 1. The system and its parts

The repository is a set of amateur-radio DTN programs around the external *Hardy*
bundle protocol agent (BPA).

| part | state it keeps | operations | hard behaviour |
|---|---|---|---|
| LTP engine (`ltp/src/engine`) | send and receive sessions, timer table, closed/cancelled id sets, outbound and notice queues | `request_transmission`, `handle_incoming_segment` (data, report, report ack, cancel, cancel ack), `handle_timer_tick` | lossy, reordering, duplicating channel; four kinds of timer with retry limits; partial claims |
| red reassembly (`session.rs`, `range.rs`) | contiguous buffer, sparse chunks, received ranges | `insert_red`, `is_red_complete`, `gaps`, `runs_within` | overlapping and out-of-order chunks, quotas |
| timer table (`timer.rs`) | deadline index and key index | `set`, `cancel`, `cancel_session`, `poll_expired` | two indexes that must agree |
| LTP convergence layer (`ltp-cla`) | pending transfers, green reassembly, address maps, one engine | commands, datagrams, ticks, notices | correlation of transfers with notices, timeouts |
| HQFBP convergence layer (`hqfbp-cla`) | per-sender receive sessions, byte accounting, id sidecar | accept PDU, evict, expire | accounting against a cap, eviction |
| Mercury convergence layer (`mercury-cla`) | connection state, pending reply, current peer | commands, TNC lines, data, idle timer | asynchronous TNC events crossing commands |
| contact coordinator (`dtn-hdy-ham/src/coordinator`) | endpoints, cron windows | next window, start and end of a contact | uneven calendars, failed and overlapping contacts |
| storage (`internal_storage.rs`) | chat and file rows, payload files | store, mark, pin, purge, migrate | crashes between row and file, reaper against readers |
| CLA registry, startup connector (`dtn-hdy-ham`) | status per peer | connect, backoff | three parties dial one peer |
| service tracker, routing | maps and event streams | register, unregister, event | lagging subscribers |
| dtnbasket (`src/bin/dtnbasket.rs`, `src/basket.rs`) | tasks by request id | GET, CHECK, SEARCH, LIST, CANCEL | concurrent tasks, cancellation, served paths |
| dtnping (`src/bin/dtnping.rs`) | pings awaited, counters, semaphore | send, deliver, status report, wait | callbacks racing the main task |
| other command-line tools (`src/bin`) | mostly one-shot | send, forward, trigger, query | none shared |
| web API and UI | none of their own | HTTP handlers | presentation |

Interactions: the BPA calls a convergence layer's `forward`; the layer passes a
command over a channel to its driver task; the driver owns the protocol state,
exchanges frames with the radio and reports incoming bundles and peer changes to
the BPA's `Sink`. The LTP engine is sans-I/O: the driver feeds it datagrams and
the current time, then drains its outbound segments and notices.
`PROJECT.json` lists every part with its status.

## 2. The LTP session: `LtpSession.tla`

### What it models

One session id, both ends, and the channel. An engine's handlers address their
state by session id and never touch a second session, so following one id loses
nothing of a session's behaviour (the caps on whole tables are left out, see 14).

* `snd` is the originator's `SendSession`: the outstanding `CheckpointRecord`s
  (`cps`), the armed checkpoint timers (`timers`), `claims_received`,
  `report_serials_seen`, `last_cp_serial`, `cancel_reason`/`cancel_retries`.
* `rcv` is the destination's `RecvSession`: the octets received, `red_part_len`,
  `min_green_offset`, the issued reports with their retries and `acked` flags,
  their timers, `red_delivered`, `cancel_reason`. `reported_coverage` and
  `cp_serials_answered` are derived from the reports. Reports are never removed
  from the map while the session lives, so its size is `lastRS`.
* `closed`, `cancelled`: membership of the id in the destination's
  `closed_recv_sessions_set` and `cancelled_sessions_set`.
* `net`: every segment emitted so far. Taking a segment does not remove it, so
  loss, delay, reordering and duplication are all behaviours of the model.
* `notices`: what the client services on both sides have been told.

Range sets of octets are sets. Segment bodies keep offset, end, colour,
checkpoint serial and end-of-red-part flag; the end-of-block flag, the report
serial echoed by a checkpoint and the payload octets are abstracted (the engine
does not branch on the first two in these handlers, and `Carried` stands for the
third). Each action is one handler, with its early returns as guards of its
disjuncts; a handler that returns without a state change is a stuttering step.

### Points of the translation worth knowing

* `DataSegment` handling creates the session before it checks the service id and
  the colours, as the code does; a refusal therefore leaves a session in
  cancellation.
* The answer with zero claims (`engine/mod.rs`, "if runs are empty") cannot be
  reached: the checkpoint's own octets have just been stored.
* A segment refused by `insert_red` for the block limit (`DataOversize`) leaves
  the handler early; a refusal for the sparse quota is, to the other side, the
  same as a loss.
* A timer that fires for a record that is gone returns at once; such timers do
  not exist in the model because removal cancels them.
* A timer table may return several expired timers in one tick; the engine handles
  them one after the other, which is the interleaving of single expiries.
* `HandleRsTimeout` and `HandleCpTimeout` do not look at `cancel_reason`, so a
  cancelling session keeps running its other timers. This is kept.
* Serials are unbounded numbers; the wrap-around of `next_nonzero_serial` at
  2^64 is out of reach of any session.

### The abstract specification: `BlockTransfer.tla`

What the two client services may observe: a block is submitted; the sender's
client hears *completed* or *failed*, never both; a block with a red part is
completed only after it was received; it is received at most once and never
after the receiver's client heard that it was aborted. `LtpSession` implements
it (`ImplementsBlockTransfer`) under a refinement mapping built from the session
state and the notices.

### Properties

| property | says | hazard |
|---|---|---|
| `ImplementsBlockTransfer` | the notices are those of `BlockTransfer` | claims merged from partial or stale reports, duplicates after close or cancel, timers racing reports |
| `NoSilentEnd` | a session that is gone told its client | timers racing reports |
| `AlwaysProbing` | an active sender has an armed checkpoint | a report with no gap in its scope |
| `ClosedMeansSenderDone` | the receiver closes only after the sender ended | full claims for closed sessions |
| `NeverMiscolored` | own traffic is never a colour violation | retransmission flags |
| `SenderTerminates` | every send session ends | nothing ever answers |

`CompletedMeansDelivered` (a completed transfer with a red part was delivered),
`DeliveredAtMostOnce`, `OneOutcome` (never both completed and failed) and
`NoDeliveryAfterCancel` follow from the refinement. The run does not check them a
second time; they are proved as theorems of their own.

### Runs

* `ltp_session`: red lengths none, partial and whole; an allowed and a refused
  service; one claim to a report and a table of reports small enough to overflow;
  retry limits of one. Bounds are in `MCLtpSession.cfg`. The block has as few
  octets as make two segments and a hole between two runs possible, which is what
  the report, gap and re-issue logic distinguishes; more octets add more of the
  same runs.
  `SenderTerminates` is checked under weak fairness on the expiry of armed
  checkpoint, report and cancel timers only; inactivity may or may not expire. The
  driver sleeps until `next_timer_deadline` and then calls `handle_timer_tick`, so a
  timer that stays armed does expire (section 4). Nothing is assumed of the channel.

Deadlock is checked: a session that is over still answers what is in the channel.

### Proofs: `LtpSessionProofs.tla`

For every block length, MTU, claims per report and retry limit (the ASSUMEs of
`LtpSession`), TLAPS proves the type invariant, `NoSilentEnd`, `AlwaysProbing`,
`ClosedMeansSenderDone`, `NeverMiscolored`, `CompletedMeansDelivered`,
`DeliveredAtMostOnce`, `OneOutcome`, `NoDeliveryAfterCancel` as an action property and the refinement of
`BlockTransfer`, all from one inductive invariant `IInv`. None of the invariants
is inductive alone. The chain behind `CompletedMeansDelivered` shows why the
strengthening is needed:

* `DataInv`: every data segment and checkpoint in `net` lies inside the part of
  its colour and is flagged end-of-red-part only at its end;
* `RecvInv`: the receiver's `redLen` is unknown or right, and it holds only
  octets of the red part;
* `ClaimInv`: every claim in a report, in `net` or merged by the sender, is of an
  octet the receiver had stored, or comes from a session already closed;
* `RecordInv`: reports, their timers and serials are consistent;
* `MissingInv`, `DeliveryInv`: while the receiver is open, an octet it lacks is
  claimed by nobody, and a complete red part has been delivered unless the
  session is being cancelled;
* `ProbeInv`: an active sender has a checkpoint record whose timer is armed, and
  every outstanding record has its timer;
* `CloseInv`: a closed receiver implies that the sender is no longer active;
* `OutcomeInv`, `IdleInv`, `CheckpointInv`: notices agree with the session states,
  nothing is in flight before the request, serials are bounded by the counters.

`SenderTerminates` rests on fairness and stays with TLC.

## 3. Reassembly of the red part: `RangeSet.tla`, `RedPart.tla`

`RangeSet` translates `range.rs`: runs as a sequence of pairs, `insert` with its
short cuts and its general path, `covers`, `runs_within`, `gaps`. `RedPart` is the
part of `RecvSession` that `LtpSession` abstracts to a set of octets: `red_buf`,
`sparse_red`, `total_received_bytes`, `red_received`, and the delivery of the
buffer. One action, `RedSegment`, is a red data segment through `insert_red` and
the delivery at the end of the handler. An octet of the buffer only says whether
it was written from a segment or is a zero from `resize`.

* `red_part`: a red part of seven octets, every segment of it at any time. Seven
  octets allow three runs with gaps, a segment that swallows two of them, and
  chunks that overlap, which are the cases of `insert` and of the loop that connects
  chunks; the quota equals the block limit, as in the code. `RangesAgree` compares
  the range set and its three queries with the set of octets accepted, for every
  scope; `StoredIsKept` says that nothing acknowledged gets lost between the two
  buffers; `DeliveredIsWhole` that no hole is delivered; `SparseIsBounded` that the
  quota is never exceeded. Every behaviour ends with repeats of segments that are
  covered, so there is always a next step and deadlock is checked.
* The quota counter is only an upper bound of the octets in the sparse buffer: when a
  longer segment replaces a chunk at the same offset it is charged on top of the old
  one (`session.rs`, `insert_red`), which takes a sender that cuts the block
  differently when it retransmits. The property is therefore an inequality.

These two modules compute with folds over sequences; they are model-checked only.

## 4. The timer table: `TimerTable.tla`

State: `byKey` and `byDeadline` (the two indexes), `now`, and the progress of
`handle_timer_tick` with its local `expired`. Keys are triples in the derived order
of `TimerKey`. Actions: `Set`, `CancelKey`, `CancelSession` (any sequence of calls
by the engine's handlers, also those of a running tick), `StartTick` (the driver's
sleep until `next_deadline` ends), `PollExpired`, `PollNothing`, `HandleExpired`,
`Advance`. A handler sets deadlines a positive timeout after its time: with
`rtt_micros` and `ack_margin_micros` both zero a timer would be due at once, which
is not covered.

* `timer_table`: a sent and a received session with all their timers, deadlines up
  to two ticks ahead, enough for two due at different times, one due now and one
  in the future.
  `EventuallyFires` rests on weak fairness of the steps of the driver's loop and of
  time; it justifies the fairness that `SenderTerminates` assumes, that an armed
  timer expires.

Proofs (`TimerTableProofs.tla`), for any sets of sessions and serials and any
horizon: `IndexesAgree`, `NothingOverdue`, `ExpiredInOrder` and the types from one
inductive invariant, and `CancelsExactly` as an action property (the types are only
proved, the run does not repeat them). The strengthening
is `PollInv`: what the tick has collected was due no later than what is still
armed. `NothingOverdue` needs that a non-empty deadline index has a first entry in
the lexicographic order (`HasFirst`, from the well-foundedness of the naturals);
`CancelsExactly` needs that the least and greatest keys of `cancel_session` enclose
the keys of the session and no other (`RangeIsSession`).

## 5. The Mercury link and its contacts: `MercuryLink.tla`

### What it models

The driver task of `mercury-cla`, its two clients and the TNC.

* `drv` says which loop of `Driver::run` runs: `offline` is the reconnection loop,
  `online` the session loop, `stopped` after `Shutdown`.
* `session`, `connReply`, `discReply` are the session loop's locals
  `SessionState`, `pending_connect_reply` and `pending_disconnect_reply`; they are
  born with a session loop and dropped with it.
* `cmds` is the command channel, `ctl` and `lines` the two directions of the
  control connection, `outq` and `writer` the data writer task and its queue.
* `bpa` is the set of peers registered with the sink, `bundle` what became of each
  bundle handed to `forward`.
* `coord` is the one task of `ContactCoordinator`: `starting` is inside
  `connect_peer` (with a timeout), `contact` sleeps for the duration, `ending` and
  `finishing` are inside `disconnect` (without one). Which target comes next is
  left open, so every schedule is covered.

Each `tokio::select!` branch and each command is an action. A handler that awaits
the sink or a socket write is one step: nothing else runs in that task meanwhile,
and the sink's calls are the only ones the BPA sees.

The TNC is external. It is taken to work commands and emit lines in order; to
refuse CONNECT with WRONG only while its link is in use; to confirm DISCONNECT
whenever a link or call exists, and to confirm or ignore it otherwise; to accept
calls while idle (`LISTEN ON`); and to come back idle after its connection was
lost. `lost` is a history variable: peers whose link ended together with the
connection.

### Properties and runs

* `mercury_link`: two contacts, one incoming call, one loss of the TNC, idle
  timeouts, one bundle. Two stations are what "the one dialled" and "another one"
  need, two contacts let the answer of one meet the other, one call or loss per
  behaviour can fall at every point. `RoutesFollowSession`: a live session has its
  route, and the BPA has no other route over this link but those of peers lost with
  the TNC (`lost`), of which there are none before its first loss.
  `AnswerOnItsWay`: a session being set up or taken down always has a command or a
  line under way that will move it. `QuietMeansAgreed`: with no line under way the
  driver and the TNC agree on the link.
  `ContactEnds`: the teardown returns. Fairness: the driver's task
  is polled and its `select!` is fair between ready branches, a TNC that is there
  takes its commands and brings calls to an end. Nobody need time out, call, or go
  away.

The run does not check deadlock: after `Shutdown` everything stops.

### Proofs: `MercuryLinkProofs.tla`

`RoutesFollowSession`, `AnswerOnItsWay` and `QuietMeansAgreed` for any set of peers and
bundles and any number of contacts, calls, losses and timeouts. None of the three is
inductive alone: what the driver believes depends on the lines still under way. The
invariant is `Shape` (the kinds of commands and lines), `LineInv` (the lines under way
lead from the driver's session to the TNC's link: CONNECTED and DISCONNECTED
alternate, and the last news is what the link is), `AnswerInv` (`AnswerOnItsWay` with
the order of the commands, since a DISCONNECT only counts if the TNC will not ignore
it), `RoutesFollowSession` itself and `Lossless` (before the first loss no peer is lost
and the link is still the first one).

### Kept as the code has it

Known and kept in the model, without a property of their own: WRONG leaves the
session `Connecting` until the next command; a CONNECTED line that comes after the
connect timed out opens a session nobody asked for; `forward` writes to whatever
station is connected, whatever address it was given; bundles and status lines come
over different sockets, so that either may overtake the other.

The queue of the data writer holds 64 bundles in the code, and `forward` waits in the
driver's task when it is full. The model's `outq` is unbounded: it stands for a TNC
that takes the data of 64 bundles before the next command, and a driver that hangs on
a full queue is not covered, nor by the fairness of `ContactEnds`.

## 6. HQFBP reception: `HqfbpReceiver.tla`

### What it models

`RxSessionManager` and the driver's receive path.

* `senders`, `lru`, `total` are `senders`, `lru_senders`, `total_buffered_bytes`;
  `sessions` and `payloads` are the two memories of what was completed; times are
  ages capped at the time to live, since only `>= ttl` is ever asked.
* `frames` is the deframer (`hqfbp-rs`, external): PDUs by source and message id. It
  is taken to report a message once it has all PDUs, and to drop on
  `cleanup_expired(t)` the sessions that were idle for at least `t`.
* `delivered` is a history of what was dispatched to the BPA.
* `IncomingPdu` and `IncomingNoise` are one packet through `process_pdu`: duplicate
  check, the two limits with their evictions, accounting, deframing, completion.
  `Sweep` is the driver's interval timer, `Tick` the passing of time.

A packet that `unpack` cannot read is charged to the unnamed sender, while the
deframer may still read it (`Readable`). The run takes every header to be readable;
section 12 says what happens with the others.

### Runs

* `hqfbp_receiver`: two messages of one station with the same payload under
  different ids, one of another station, and noise; two senders and three octets are
  allowed, so that each limit is met with and without something to evict; eight
  packets let a message complete, repeat, expire and complete again. `Accounted`,
  `OldestFirst`, `HeldIsAccounted`, `NoEcho`.
  `EventuallyEmpty`: once nothing more arrives everything is given back. Fairness: the
  interval timer fires and time passes; nothing is assumed of the channel. The
  KISS-TCP reconnection loop, which does not sweep, is outside of this module.

### Proofs: `HqfbpReceiverProofs.tla`

For any messages, senders, limits and time to live. `Good(r)` says what a manager is
between two operations: `Typed`; `Queued` (the LRU queue holds each known sender once,
behind the ones idle for longer); `Limited` (no more senders than allowed);
`Remembered` (a payload delivered within the time to live is in the memory of payloads,
and nothing was delivered twice); `Balanced` (the total is the sum of what the senders
are charged and within the limit, and the messages of a sender are charged no more than
the sender); `Backed` (what the deframer holds is charged to its message). Each
operation of the manager (evict, enforce, account, complete, sweep) is shown to keep
it, so that the composite handlers keep it too.

* `NoPayloadTwice` (`NoEcho`) and `OldestSenderFirst` (`OldestFirst`) hold without
  further assumptions.
* `TotalIsAccounted` (`Accounted`) assumes `Uniform`: the headers of one station are all
  readable or all not. Without it the property is false (section 12).
* `HeldIsCharged` (`HeldIsAccounted`) assumes that every header is readable, for the
  reason given in section 12 for `HeldIsBounded`.

The charges are sums over sets (`MapThenSumSet`). What adding, removing or changing one
element does to a sum is proved by induction on the size of the set; the library's
induction theorems take an operator and cannot be instantiated here, so the induction
is over a set of naturals that holds 0 and every successor (`Counting`, from the
well-foundedness of the naturals). `Kept` (what is left of the queue) comes with an
order-preserving embedding into the queue it was made from.

## 7. The LTP convergence layer: `LtpDriver.tla`, `LtpWire.tla`

### The adapter and its driver

`LtpDriver` is `LtpCla` (what the BPA calls) and the driver task (which owns the
engine, the address tables and the correlation of sessions with bundles).

* `mode`, `inner`, `tcp` and `drv` are the transport, the adapter's handle on the
  driver, its mappings of TCP addresses and the loop the driver is in; `cmds` is the
  command channel between adapter and driver.
* `d` is the driver's state: `addr_to_engine` and `engine_to_addr`, the pending
  transfers, the green reassemblies, the engine's send sessions and its queue of
  notices. Each event is an operator from `d` to the next `d`, composed with the
  draining of segments and notices in the order of the code.
* `outcome`, `bundle`, `dispatched` are what the BPA sees; `heard` and `dups` are
  histories of what the other station received and of repeated datagrams.

The engine is reduced to what the driver sees of it: a send session survives a
number of timeouts and ends with one notice; a cancellation queues a cancel segment, a
cancel that arrives its acknowledgement, and writing either may fail like writing any
other segment. That a session ends with exactly one kind of notice is what section 2
proves. A bundle larger than `max_bundle_size` or the engine's block limit is refused
before any state changes and is left out. The other station answers sessions it heard of at any
time, and sends its own green blocks in pieces, in any order, with losses and repeats.

* `ltp_driver`: UDP and KISS over TCP, a red and a green bundle, two engines and two
  addresses with a table that is cleared at its limit, a green block of two segments
  and one that is too long, one reassembly at a time, four events (registrations,
  peers registered or unregistered, packets, repeats, losses of the connection). Two
  of everything that is a key and a limit of one is what it takes for each table to
  overflow while an entry is in use; four events cover registering, losing, and
  registering again around a transfer.
  `AcceptedIsAccounted`: each bundle the adapter accepted has exactly one outcome,
  reported or owed by a session that will report it, also over shutdown and a new
  registration. `GreenIsWhole`: no green block with a hole reaches the BPA. The
  driver counts octets and not positions, so the second is stated of blocks none of
  whose datagrams was repeated.
* `ltp_session_reuse` (a violation): see section 12.

Deadlock is not checked: an adapter that was shut down may stay so.
Also in the model: `UnregisterPeer` removes the newest address of an engine and
leaves the older one pointing at it.

### Proofs: `LtpDriverProofs.tla`

For any stations, addresses, bundles, blocks and tables of any size, on both
transports: `AcceptedIsAccounted` (`Accounted`) and `GreenIsWhole` (`WholeGreen`).
Assumed (`DriverAssumption`): stations and bundles are finitely many and none of them
is the value for "nothing", session numbers suffice for one transfer per bundle, and
the bounds are naturals.

The inductive invariant (`IInv`, checked by TLC on the constants of `MCLtpDriver` and
on two red bundles before it was proved) says what relates the four places an outcome
can be in: the command, the pending table, the queue of notices and the report.

* `Commanded`: a forward that waits for its answer has its bundle's only command in
  the channel. Otherwise one bundle could be accepted twice.
* `Correlated`: no two sessions carry one bundle, and no number from the next one on
  is in use. That there are numbers left is counted: one less than the next number is
  at most the number of accepted bundles.
* `Placed`: of an accepted bundle the outcome is reported, being reported or owed, in
  exactly one of these; of the others there is none. During a step the calls not yet
  made count, so the invariant is stated of the driver record and holds between the
  operators a step is composed of.
* `Covered`: a session that owes an outcome is active, or the notice of its end is in
  the queue. It is what makes an owed outcome one that will be reported.
* `Rested`: between steps only ends of sessions wait in the queue. While the link is
  down nothing is lost there: timers go on and the notices are drained.
* `Assembled`: a green reassembly holds no segment that is still on its way, and its
  count is that of the segments it holds. So the count reaches the total only when all
  are there, although the code compares octets; a repeat breaks it, and the property
  exempts repeated blocks.

What an event does to the driver is stated as one of four effects (`Keeps`, `Queues`,
`Starts`, `Settles`) or `Receives` and composed. The notices are drained by a fold:
`NoticedInOrder` shows that there is a function on the sets of positions with the
fold's equation (built set size by set size) and hence a run through the notices in
their order, along which the invariant is carried with what is left of the queue.

### The wire

`LtpWire` has no state: SDNV numbers, every segment type with its extensions and the
parser's limits and errors, the padding for a TNC, KISS frames and the accumulator the
driver reads them from. `MCLtpWire`, which `MCLtpDriver` extends, states its
properties as assumptions over bounded inputs, which the runs of `MCLtpDriver` evaluate:

* `SdnvRoundTrip`: every number of 15 bits comes back, and of every sequence of up to
  four awkward octets the decoder gives a number that fits or the right error. Fifteen
  bits stand for 64: both leave one bit over in the last group of seven, which is where
  the overflow test is hard to get right.
* `SegmentRoundTrip`: a sample of every type and extension comes back, in the length
  computed beforehand, with what follows it left alone; no proper prefix parses.
* `BadReportsRefused`: reports with serial zero, crossed bounds or claims that overlap
  or leave the scope never reach the engine.
* `PaddingIsHarmless`: padding reaches the minimum and changes only an extension.
* `FrameRoundTrip`, `CutAnywhere`: a frame survives noise before it and escaping of its
  own command octet, and the same frames come out however the stream is cut into reads.

## 8. Contacts: `Cron.tla`, `Contacts.tla`

`Cron` is `CronExpr`: how items are read into six sets, with the wrap-around of the
step and the width of the parsed numbers, and the search for the next match, which
skips months, days and hours. The calendar is a parameter, so that a small one with
uneven months still has every kind of boundary. `prev_before` is not called by the
program and is left out.

`Contacts` is one TCPCL peer and those who dial it: the connector at startup
with its doubling delay, the coordinator's loop with recurring and one-shot schedules,
and the operator's connect request. They share the entry of `ClaManager.statuses` and
the TCPCL session (external), which the network can take away without telling anybody.
Of a one-shot contact only whether it still lies ahead matters; its duration is the
recurring one.

* `contacts`: eight seconds to a day, three to a week, two months, schedules with
  lists, ranges, steps, seconds, an expression that is refused and dates several days ahead; two
  changes of the network. `NextIsEarliest` compares the search, whatever the moment it
  starts from, with what the expression as written means: the earliest match from the
  start of the running minute on (of the running second if the expression has
  seconds), which is where the code begins, although its comment promises no time
  before the one asked about (`NextIsAtOrAfter`, section 12). Expressions with a number
  beyond the width are excepted there: the step wraps in the code. `RecoveredInTime`
  is liveness with a bound: `due` is when running dials and contacts are over and the
  next window has come, and the session is back by then. Time stops at every moment at
  which a sleep ends, which is the scheduling tokio gives up to its own delay.
  Deadlock is not checked: time is bounded.

Also in the model: the status says connected long after the session was lost, since
nobody is told; only a new dial corrects it.

## 9. Storage and its reaper: `Retention.tla`

Rows and payload files survive a crash; everything else does not. State: `rows` of
the two tables (creation and expiry time, pinned, read), `convs` (the conversations
listed), `disk` (payload files),
`bpa` (which bundles the BPA has handed over and had acknowledged), the progress of
the migration, of the reaper, of the services and of the operator's requests. A
handler that touches the database and the directory is one action per piece, with a
crash or another thread between the pieces; an SQL statement outside a transaction is
committed alone, which gives the migration its steps.

The three places that store something log an error of the database and go on:
`InsertErr` acknowledges (or answers the operator) without a row. The two statements
of `insert_chat_message` are committed one by one but under one lock, so nobody sees
the first without the second unless the second fails or the process dies between them;
`HalfInserted` is what those two leave. `WriteErr` and a crash may leave a payload of
an earlier delivery truncated, since `fs::write` truncates first; a truncated payload
counts as gone. A write that succeeds is one step: readers that see half of it, and
the reaper unlinking the file meanwhile, are not covered.

* `retention`: a new file, a message received and one sent, and one of each from a
  database of version 0; times 8 to 11 with lifetimes that end in between; two
  requests of the operator, write errors, failing insertions or crashes at any point.
  Two such events are one to interrupt a handler and one to interrupt what repairs it.
  `AckedIsStored`: what was acknowledged stays until it expires, its file with its
  payload and its message in a listed conversation. Excepted are what the operator
  deleted, bundles whose last attempt to be stored failed (`failed`), and legacy
  messages received after the hour that the migration leaves them (`CutShort`).
  `PinnedHasPayload`: the reaper, which removes files and rows in two steps,
  never takes a file from under a pinned row; a failed second write may still truncate
  it. `ReapedInTime`: nothing outlives its
  expiry by more than the longest sleep, also if it was stored or unpinned while the
  reaper slept. Deadlock is not checked: time is bounded.

Each exception contradicts a document of the repository: `LegacyKeepsLifetime`,
`HistoryIsPersisted` and `PayloadIsReaped` state what is promised (section 12).

Also in the model: a bundle delivered again after a crash replaces its row and loses
its pin; a message is handed to the BPA before it is stored, so a crash in between
sends it and leaves no history; `delete_file_bundle` takes the lock twice.

Proofs (`RetentionProofs.tla`), for any rows, times, offsets and number of requests,
errors and crashes: `AckedIsStored`, `PinnedHasPayload` and `ReapedInTime`. The
invariant says what the migration has done to the old rows at each of its steps,
however often it was interrupted (`Old`), that later every row has the expiry it should
have, the hour for received legacy messages included (`New`, `Expiry`), that old bundles
are not delivered again and deletions are recorded
(`Progress`), that what was acknowledged has its row and its conversation (`Stored`),
that a payload is only missing from an expired file or one whose writing failed
(`Payloads`), and that by the time the reaper wakes nothing will be late (`Reaping`). `RetentionAssumption` holds what is
asked of the constants, among it that the bundles are finitely many and that the
longest sleep and the offset of legacy times are natural numbers.

## 10. Baskets: `Basket.tla`

The service of `dtnbasket` and the format of `basket.rs`. `task[t]` is the progress of
`process_request` for a request bundle (item, hops of a fetch, files left to read in a
search, responses, bundles sent, state of its watch channel), `active` is
`active_tasks`, `fs` the files that exist. A step ends where the code awaits.
Requests and responses go through their CBOR maps, whose keys the decoder checks,
so a requester sees what it decodes. Which MIME type contains which is equality; what
servers answer and what a host name stands for is external. A host name keeps its
addresses: one that resolves to another address when the connection is made than when
it was checked is not covered, and no property is about addresses. A file that goes
between the check of its path and its reading is `FetchVanishes`; a directory passes
the check like a file and cannot be read (4.04).

* `basket`: requests with fetches and redirects, a mapped name, a directory, a link
  that leaves the
  allowed directory, searches over files that vanish, a CANCEL and a request that
  takes over another's id; three of the requests in any order and interleaving. Three
  are a task, the one that cancels it and the one that takes its id.
  `AnsweredInOrder`, `RawIsAnnounced`, `OnlyServedFiles`, `HandlesMatchTasks`: an item
  is answered once and in order, content and its announcement match and fit what was
  asked, only served files leave, and an entry of `active_tasks` is one of a task that
  can still be cancelled. `CancelledNeverWaits`: a cancelled task has always a step of
  its own, also when the server never answers; its formula asks whether that
  step is enabled, so it stays with TLC. Deadlock is not checked: the service may have
  served its last request.
* `basket_cancel` (a violation): see section 12.

Kept as the code has it: `if_modified_since` is never looked at; the hashes the
requester owns only matter to SEARCH; index documents ignore `max_size`; a SEARCH
whose files all vanished has no response; a send error between the control bundle and
the raw ones leaves announcements without content (the model stops the task there).

A task that ends removes the entry of its id whoever registered it last: the sender is
dropped and the channel of a younger task with the same id closes, so its fetches end
with 5.00 and it cannot be cancelled (`Dropped`).

Proofs (`BasketProofs.tla`), for any requests, items, files and answers of servers:
`HandlesMatchTasks`, `AnsweredInOrder`, `OnlyServedFiles` and `RawIsAnnounced`. The
assumptions are that the items of a request are an array (`ItemsAssumption`) and that a
path is that of a file or of a link, not of both (`LinksAssumption`). The invariant is
`Shape` (the fields of a task), `Handles` and, per task, `Ordered`. `Handles` adds to
`HandlesMatchTasks` why a running task has no entry: its channel was closed, and then
another request which has been read carries the same id. `Ordered` says of the responses
so far that they belong to items reached, in their order, that only a SEARCH has
several, and that every item done with has one; and that a task which sends is no longer
in `active_tasks`, so that its channel does not change under it. Each action is first
reduced to one of six kinds of steps (an item begun, answered, answered at once, gone on
with, a file found, a search ended). What the requester decodes is shown to be what was
encoded (`DecodedResponses`), and counting responses reduces to sets of at most one
element.

`OnlyServedFiles` recognises a file by its hash, so its theorem has the hypothesis
`HashesTell`: servable files and others have no hash in common, nor a file and a fetched
body or an index document. Its invariant `ServedInv` says that no file is new
(`FilesRemain`) and, per task (`Sourced`), that a fetch begun for a web resource is
still on the web after any redirects, that the files a SEARCH has yet to read are
servable once their links are followed, and that every response so far is `Fair`. It
needs that metadata come back through the CBOR map (`DecodedMetadata`).

`RawIsAnnounced` has the hypothesis `PlainRequests`: sizes are numbers, and nobody names
the hash of an index document, or a prefix of it, as owned. Without the second it does
not hold: the code sends an index whatever the requester owns. Its invariant
`AnnouncedInv` says per task that only a GET or CHECK fetches, only a SEARCH or LIST
compiles an index, and for every hash there are as many raw bundles as responses that
need one (`Matched`); each step adds one to both sides or to neither (`MatchedGrows`).
The checked instance satisfies both hypotheses.

## 11. dtnping: `Ping.tla`

The main task (`pc`) sends on an interval, waits for replies and exits; callbacks
(`calls`) run beside it. `state` is `PingState` behind its mutex, `permits` the
semaphore. A ping is recorded after `sink.send` returned; `on_deliver` and
`on_status_notify` take the lock twice, with printing and permits in between. The
permit that `acquire` gives is dropped at once, so once one is there the wait is a poll.
Sequence numbers start at 0 in every session, so a reply left over from an earlier
session can be taken for one of this session.

The main task awaits the BPA in two calls, `sink.send` (`sending`) and `unregister`
(`unregistering`), neither of which has a timeout: `InCall`. The first is in the body
of a branch of `select!`, so that neither the time limit nor Ctrl-C is polled
meanwhile. An interval of zero passes `parse_duration` and panics in
`tokio::time::interval` before the first ping; `IntervalAssumption` leaves it out.

* `ping`: two pings an interval of one second apart, replies twice, reports, a
  forged and a left-over bundle, the wait and the session timeout of one second each,
  Ctrl-C. Two pings are what a first and a last reply need, two replies to each are
  what a duplicate needs.
  `EachPingCountedOnce`: each ping sent is awaited, held by one callback or counted.
  `LastReplyWakes`: the main task never sleeps on when all replies are in.
  `SessionEnds`: the session ends or stays in one of the two calls for ever; nothing
  else can keep it, neither a lost wake-up nor a missing reply. Fairness is that tokio
  runs the main task, due timers fire and time passes. Nobody has to answer a ping or
  to press Ctrl-C, and the BPA need not answer a call.
  What `--timeout` promises is `TimeoutEndsSession`, which does not hold (section 12).
  Deadlock is not checked: the program exits.

Proofs (`PingProofs.tla`), for any number of pings, bundles, replies and reports:
`EachPingCountedOnce` and `LastReplyWakes`. The invariant adds that a ping is in one
place (`Apart`: awaited, in the hands of one callback or replied, and a number is used
once) and that a counted reply has given its permit or its callback is about to
(`Owed`); the counts follow from cardinalities of these disjoint sets.

The payload's CBOR form and the parsing of durations are assumptions of `MCPing`
(`RoundTrip`, `Durations`) that the run evaluates. Round-trip statistics are left out.

## 12. Disagreements between the code and its documents

Two runs expect a violation.

* `ltp_session_reuse`, `CompletedMeansHeard`: `LTP-CLA.md:351` lists as done that a
  random `initial_session_number` can be injected; the driver never does, so after a
  second registration a new block carries an old number, the peer takes it for a
  repeat and the bundle is reported as transferred.
* `basket_cancel`, `CancelStopsSending`: the basket draft says that CANCEL aborts
  processing and transmission; a cancelled task still sends what it had collected.

The others are stated in the modules and are reproduced by adding the property to the
component's own configuration (as PROPERTY where marked so). TLC finds each of them
violated; the runs check what does hold, with these cases excepted by name.

| property | add to | document | the code |
|---|---|---|---|
| `CancelNoticeOnce` | `MCLtpSession.cfg` | `LTP-CLA.md:412`: a cancellation notice only on the first transition of an active session | another timer of the cancelling session issues a second one |
| `ReportLimitCountsUnacked` | `MCLtpSession.cfg` | `ltp/src/engine/config.rs:32`: "Maximum active unacknowledged reports" | every report ever issued counts |
| `ContactIsWithTarget` (PROPERTY) | `MCMercuryLink.cfg` | `coordinator/endpoint.rs:10`: a contact "with the given remote peer" | any CONNECTED line answers a pending connect |
| `Accounted` | `MCHqfbpReceiver.cfg`, with `Readable <- MCMixedReadable` | `hqfbp-cla/README.md:25`: "Hard memory accounting on in-flight buffered bytes" | a completed message whose header cannot be read releases all its sender is charged, while its other messages stay charged |
| `EvictionIsSelective` (PROPERTY) | `MCHqfbpReceiver.cfg` | `hqfbp-cla/src/session.rs:172`: "purge any matching sessions" | evicting one station drops every station's partial messages |
| `HeldIsBounded` | `MCHqfbpReceiver.cfg`, with `Readable <- MCOnlyCReadable` and `"c1"` among the messages | `hqfbp-cla/README.md:25`: "Hard memory accounting on in-flight buffered bytes" | messages only the deframer can read escape the limit |
| `IgnoredMeansDelivered` | `MCHqfbpReceiver.cfg`, with messages `"a1"` and `"a3"` | `hqfbp-cla/src/session.rs:206`: "an already completed message" | the ids a restarted station reuses are taken for repeats |
| `RegisteredMeansConnected` | `MCMercuryLink.cfg` | `adr/0008`, line 28: `remove_peer` upon disconnect | leaving the session loop because the TNC went away does not call it |
| `NextIsAtOrAfter` | `MCContacts.cfg` | `coordinator/cron.rs:184`: "at or after `after`" | the seconds of the argument are set to zero first: "0 8 * * *" asked at 08:00:30 gives 08:00:00 |
| `LegacyKeepsLifetime` | `MCRetention.cfg` | `internal_storage.rs:319`: "fix legacy outbound chat messages" | the statement has no condition on the direction and cuts received messages to an hour too |
| `HistoryIsPersisted` | `MCRetention.cfg` | `adr/0012`, line 17: histories "must be durably persisted" | a message whose row cannot be inserted is acknowledged (`chat_service.rs:98`) or answered 201 (`web/routes/chat.rs:228`) all the same; one injected before a crash is not stored either |
| `PayloadIsReaped` | `MCRetention.cfg`, with `MaxTime = 12` | `adr/0013-internal-files-service`, line 18: what has expired "must be deleted" | a payload whose row could not be inserted (`files_service.rs:143`) is found by no purge |
| `TimeoutEndsSession` (PROPERTY) | `MCPing.cfg` | `src/bin/dtnping.rs:49`: "Total time limit for the session" | nothing polls the limit while `sink.send` or `unregister` is awaited |
| `NoDialOutLoop` | `MCContacts.cfg` | `adr/0014`, line 50: "without uncontrolled dial-out loops" | a window whose contact fails is dialled again within the same second |
| `ExitTellsReplies` | `MCPing.cfg` | `src/bin/dtnping.rs:480`: "NoResponse = 1 (No responses received)" | a reply delivered before its ping is recorded is not counted, and the exit code is 1 |

## 13. Plan

Done: the LTP session with its abstract specification and proofs; red part, range
set, timer table with proofs; Mercury link, HQFBP reception, storage, baskets and
dtnping with proofs; the LTP driver with proofs and the wire; cron and contacts.

To do, in this order:

1. LTP table caps: what the bounded closed and cancelled queues do to the guarantees
   of section 2.
2. The HQFBP driver's transmission and peer registration.
3. A proof of `SparseIsBounded` of `RedPart`, once the range set is written without folds.

What stays with TLC:

* liveness under fairness: `SenderTerminates`, `EventuallyFires`, `ContactEnds`,
  `EventuallyEmpty` and `SessionEnds`; and `CancelledNeverWaits`, which asks what is
  enabled;
* what `RangeSet`, `LtpWire` and `Cron` compute (induction over data), and the
  invariants that rest on it: `RangesAgree`, `StoredIsKept`, `DeliveredIsWhole` and
  `SparseIsBounded` of `RedPart`, `NextIsEarliest` and `RecoveredInTime` of `Contacts`.

## 14. What is not modelled

* Cryptography and integrity blocks; HTTP, web interface, bundle inspection and
  statistics; the wizard and configuration files: input and output around the parts
  above, without state of their own that others depend on.
* The routing table and the service tracker: each operation is one lock around one
  map, and the code promises nothing about what a reader sees between two of them.
* `dtntrigger`, `dtnforward`, `dtnquery`, `dtnfiles`, `dtnsend`, `dtnprint`,
  `hdy-stats`: they pass one bundle on, or print; what they wait for is the BPA.
* RTT estimation only moves deadlines, and the models let timers expire at any time.
* The caps on the LTP engine's session tables, the HQFBP driver's transmission and its
  reconnection (section 13).
* The capacity of the Mercury data writer's queue (section 5), the refusal of oversized
  LTP bundles (section 7), host names that change their address (section 10).
* The MIME detection, index formatting and configuration of `dtnbasket`; the names of
  KISS commands; CBOR beyond the forms of sections 10 and 11.
