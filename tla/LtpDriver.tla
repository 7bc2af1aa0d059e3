----------------------------- MODULE LtpDriver -----------------------------
(***************************************************************************)
(* The LTP convergence layer of ltp-cla: the adapter (LtpCla) that the BPA *)
(* calls, and the driver task that owns the LTP engine, the address tables *)
(* and the correlation between LTP sessions and bundles.                   *)
(*                                                                         *)
(* The engine itself is the subject of LtpSession; here a send session is  *)
(* the number of timeouts it survived, and ends with one notice, completed *)
(* or cancelled; the numbers start from 1 with every engine.  The driver's *)
(* state is one record d.  Each event of its loops is an operator from d   *)
(* to the next d, composed with the draining of outputs and of notices     *)
(* (Noticed) in the order of the code.  The calls to the sink that it      *)
(* spawns as tasks commute with everything else the model observes and are *)
(* made at the end of the step.                                            *)
(*                                                                         *)
(* The station at the other end is left open: it answers a session it has  *)
(* heard of, at any time and any number of times, and sends the segments   *)
(* of its own green blocks in any order, losing and duplicating some.  It  *)
(* is such an engine itself: a session number it has already received is a *)
(* duplicate to it.                                                        *)
(***************************************************************************)
EXTENDS Integers, FiniteSets, Sequences, SequencesExt

CONSTANTS
  Engines,       \* engine ids of other stations
  Addrs,         \* socket addresses; an address also stands for the engine id made of its port
  Remote,        \* the engine whose green blocks arrive
  RedBundles,    \* bundles forwarded on lane 0
  GreenBundles,  \* bundles forwarded on lane 1
  Dest,          \* Dest[b]: the ClaAddress a bundle is forwarded to: an engine's own, or Tcp
  Configured,    \* Config.peers: Configured[e] is the address of a configured engine
  Incoming,      \* sessions of the green blocks that arrive
  IncomingRed,   \* red parts that arrive whole, as notices of the engine
  GreenLen,      \* GreenLen[g]: their length in segments
  MaxGreenLen,   \* MAX_GREEN_BUNDLE_SIZE
  MaxGreen,      \* MAX_GREEN_REASSEMBLIES
  MaxAddrs,      \* the size at which addr_to_engine is cleared
  RtxLimit,      \* checkpoint_rtx_limit
  None,          \* no address, engine or reassembly
  MaxEvents      \* bound: registrations, peers registered or unregistered, packets
                 \* received, duplications and losses of a KISS connection

Bundles == RedBundles \cup GreenBundles
Ids == Engines \cup Addrs
Self == "self"
Numbers == 1..Cardinality(Bundles)

ASSUME DriverAssumption ==
  /\ IsFiniteSet(Ids \cup Bundles)
  /\ Remote \in Engines /\ None \notin Ids \cup Bundles /\ Self \notin Ids
  /\ RedBundles \cap GreenBundles = {}
  /\ Dest \in [Bundles -> Ids]
  /\ DOMAIN Configured \subseteq Engines /\ Range(Configured) \subseteq Addrs
  /\ GreenLen \in [Incoming -> Nat \ {0}]
  /\ {MaxGreenLen, MaxGreen, MaxAddrs, RtxLimit, MaxEvents} \subseteq Nat

VARIABLES
  mode,       \* TransportMode, fixed
  inner,      \* LtpCla.inner is Some
  tcp,        \* peer_mappings restricted to ClaAddress::Tcp
  drv,        \* which loop of the driver is running
  cmds,       \* the driver's command channel
  d,          \* the driver
  bundle,     \* what forward answered for each bundle
  outcome,    \* transfer outcomes reported to the BPA for each bundle
  dispatched, \* blocks handed to the BPA, with the segments they were built from
  known,      \* peers announced to the BPA
  heard,      \* the block the other station received in each session, or None
  air,        \* segments of incoming blocks on their way
  dups,       \* green blocks of which a segment was duplicated
  events      \* counter of the bound

vars == <<mode, inner, tcp, drv, cmds, d, bundle, outcome, dispatched, known,
          heard, air, dups, events>>

-----------------------------------------------------------------------------
(* The driver's state.  sess[n] is the engine's send session n: the number *)
(* of its timeouts so far, or -1 when there is none.                       *)

NewDriver ==
  [e2a |-> [e \in Ids |-> None], a2e |-> [a \in Addrs |-> None],
   pending |-> [n \in Numbers |-> None], green |-> [g \in Incoming |-> None],
   next |-> 1, sess |-> [n \in Numbers |-> -1], peer |-> [n \in Numbers |-> None],
   out |-> <<>>, notices |-> <<>>, calls |-> {}]

Active(x, n) == x.sess[n] >= 0
Reachable(x) == {e \in Ids : x.e2a[e] # None}

(* A session ends in the engine: its timers go and one notice is queued. *)
EndSession(x, n, how) ==
  [x EXCEPT !.sess[n] = -1, !.notices = Append(@, [kind |-> how, id |-> n, at |-> 0, stale |-> {}])]

(* A segment is queued: of block what in session n, or one without data. *)
Output(x, to, n, what) == [x EXCEPT !.out = Append(@, [to |-> to, n |-> n, what |-> what])]
Spawn(x, call) == [x EXCEPT !.calls = @ \cup {call}]

-----------------------------------------------------------------------------
(* Commands. *)

ForwardCmd(b, e) == [op |-> "forward", b |-> b, e |-> e, a |-> None]
RegisterCmd(e, a) == [op |-> "register", b |-> None, e |-> e, a |-> a]
UnregisterCmd(e) == [op |-> "unregister", b |-> None, e |-> e, a |-> None]
ShutdownCmd == [op |-> "shutdown", b |-> None, e |-> None, a |-> None]

(* request_transmission: a block without a red part completes at once. *)
RequestTransmission(x, b, e) ==
  LET n == x.next
      y == Output([x EXCEPT !.next = n + 1, !.sess[n] = 0, !.peer[n] = e, !.pending[n] = b], e, n, b)
  IN  IF b \in GreenBundles THEN EndSession(y, n, "completed") ELSE y

Registered(x, c) == [x EXCEPT !.e2a[c.e] = c.a, !.a2e[c.a] = c.e]

Unregistered(x, c) ==
  [x EXCEPT !.e2a[c.e] = None,
            !.a2e = IF x.e2a[c.e] = None THEN @ ELSE [@ EXCEPT ![x.e2a[c.e]] = None]]

AfterCommand(x, c) ==
  CASE c.op = "forward"    -> IF x.e2a[c.e] = None THEN x ELSE RequestTransmission(x, c.b, c.e)
    [] c.op = "register"   -> Registered(x, c)
    [] c.op = "unregister" -> Unregistered(x, c)

-----------------------------------------------------------------------------
(* Segments from the other stations: [orig, kind, id, at].  A "report"     *)
(* claims everything, a "cancel" ends the session from the receiver,       *)
(* "green" is segment at of a green block, "red" the segment that makes a  *)
(* red part complete, "noise" does not parse.                              *)

(* The engine a packet is taken to be from when its address is not known.  *)
Peeked(x, a, p) ==
  CASE p.orig # Self                    -> p.orig
    [] p.orig = Self /\ Active(x, p.id) -> x.peer[p.id]
    [] OTHER -> IF Cardinality(Reachable(x)) = 1 THEN CHOOSE e \in Reachable(x) : TRUE ELSE a

Learned(x, a, e) ==
  LET table == IF Cardinality({b \in Addrs : x.a2e[b] # None}) >= MaxAddrs
               THEN [b \in Addrs |-> None] ELSE x.a2e
      y == [x EXCEPT !.a2e = [table EXCEPT ![a] = e], !.e2a[e] = a]
  IN  IF x.e2a[e] = None THEN Spawn(y, [op |-> "add_peer", id |-> e, with |-> {}]) ELSE y

ResolvedUdp(x, a, p) ==
  LET e == x.a2e[a]
  IN  IF e # None THEN IF x.e2a[e] # None THEN [x EXCEPT !.e2a[e] = a] ELSE x
      ELSE IF p.kind = "noise" THEN x
      ELSE Learned(x, a, Peeked(x, a, p))

(* handle_incoming_segment.  Reports and cancels are acknowledged in any    *)
(* case.                                                                   *)
Handled(x, p, from) ==
  CASE p.kind = "noise"  -> x
    [] p.kind \in {"red", "green"} ->
         [x EXCEPT !.notices = Append(@, [kind |-> p.kind, id |-> p.id, at |-> p.at, stale |-> p.stale])]
    [] p.kind \in {"report", "cancel"} ->
         LET y == Output(x, IF Active(x, p.id) THEN x.peer[p.id] ELSE from, p.id, None)
         IN  IF Active(x, p.id)
             THEN EndSession(y, p.id, IF p.kind = "report" THEN "completed" ELSE "cancelled") ELSE y

AfterDatagram(x, a, p) ==
  LET y == ResolvedUdp(x, a, p)
  IN  Handled(y, p, IF y.a2e[a] # None THEN y.a2e[a] ELSE a)

(* On the KISS link one station stands for all when nothing better is known. *)
AfterFrame(x, p) ==
  Handled(x, p, IF Reachable(x) = {} THEN Remote ELSE CHOOSE e \in Reachable(x) : TRUE)

(* handle_timer_tick: the checkpoint is sent again, or the session is given *)
(* up, which the other station is told.                                    *)
AfterTimer(x, n) ==
  IF x.sess[n] < RtxLimit THEN Output([x EXCEPT !.sess[n] = @ + 1], x.peer[n], n, x.pending[n])
  ELSE EndSession(Output(x, x.peer[n], n, None), n, "cancelled")

-----------------------------------------------------------------------------
(* drain_notices.  A reassembly keeps data, the segments copied into its   *)
(* buffer; len, the length of the buffer; got, the bytes received; and     *)
(* total.  A segment comes with stale, the reassemblies whose last update  *)
(* is more than 60 s before it.                                            *)

NewReassembly == [data |-> {}, len |-> 0, got |-> 0, total |-> None]

(* A block goes to the BPA with the holes that were filled with zeros. *)
Dispatch(x, g, data, len) ==
  Spawn(x, [op |-> "dispatch", id |-> g, with |-> (1..len) \ data])

Held(green) == {g \in Incoming : green[g] # None}
Swept(green, stale) == [g \in Incoming |-> IF g \in stale THEN None ELSE green[g]]

(* Mutant: the end of the block completes it. *)
ReassembledAtEob(x, g, at) ==
  LET old == IF x.green[g] = None THEN NewReassembly ELSE x.green[g]
  IN  IF at = GreenLen[g] THEN Dispatch([x EXCEPT !.green[g] = None], g, old.data \cup {at}, at)
      ELSE [x EXCEPT !.green[g] = [old EXCEPT !.data = @ \cup {at}, !.len = at, !.got = @ + 1]]

Reassembled(x, g, at) ==
  LET old == IF x.green[g] = None THEN NewReassembly ELSE x.green[g]
      new == [data  |-> old.data \cup {at}, len |-> IF old.len < at THEN at ELSE old.len,
              got   |-> old.got + 1,
              total |-> IF at = GreenLen[g] THEN at ELSE old.total]
  IN  IF new.total # None /\ new.got >= new.total /\ new.len = new.total
      THEN Dispatch([x EXCEPT !.green[g] = None], g, new.data, new.len)
      ELSE [x EXCEPT !.green[g] = new]

(* A new session at the limit sweeps the old reassemblies, or is dropped. *)
GreenAdmitted(x, g, at, stale) ==
  LET full(y) == y.green[g] = None /\ Cardinality(Held(y.green)) >= MaxGreen
      swept   == IF full(x) THEN [x EXCEPT !.green = Swept(@, stale)] ELSE x
  IN  IF full(swept) THEN swept ELSE Reassembled(swept, g, at)

GreenArrived(x, g, at, stale) ==
  IF at = 1 /\ GreenLen[g] = 1 THEN Dispatch(x, g, {1}, 1)
  ELSE IF at > MaxGreenLen THEN [x EXCEPT !.green[g] = None]
  ELSE GreenAdmitted(x, g, at, stale)

(* Mutant: the correlation is read, not removed. *)
SessionEndedKept(x, n) ==
  LET b == x.pending[n.id]
  IN  IF b = None THEN x ELSE Spawn(x, [op |-> n.kind, id |-> b, with |-> {}])

SessionEnded(x, n) ==
  LET b == x.pending[n.id]
  IN  IF b = None THEN x
      ELSE Spawn([x EXCEPT !.pending[n.id] = None], [op |-> n.kind, id |-> b, with |-> {}])

AfterNotice(x, n) ==
  CASE n.kind = "green" -> GreenArrived(x, n.id, n.at, n.stale)
    [] n.kind = "red"   -> Dispatch(x, n.id, {}, 0)
    [] OTHER            -> SessionEnded(x, n)

Noticed(x) == FoldLeft(AfterNotice, [x EXCEPT !.notices = <<>>], x.notices)

-----------------------------------------------------------------------------
(* Outputs.  Over UDP a segment for an engine without an address is        *)
(* dropped; the others may be heard, and of a session number it already    *)
(* knows the other station takes the segments for duplicates.              *)

Sendable(x) == {i \in DOMAIN x.out : mode = "udp" => x.e2a[x.out[i].to] # None}
HeardNext(x) ==
  {h \in [Numbers -> Bundles \cup {None}] :
     \A n \in Numbers :
       h[n] = heard[n] \/ /\ heard[n] = None
                          /\ \E i \in Sendable(x) : x.out[i].n = n /\ x.out[i].what = h[n]}
Sent(x) == [x EXCEPT !.out = <<>>]

(* The driver after a step, with the calls it made to the sink. *)
Becomes(x) ==
  /\ d' = [x EXCEPT !.calls = {}]
  /\ outcome' = [b \in Bundles |->
       LET c == {k \in x.calls : k.op \in {"completed", "cancelled"} /\ k.id = b}
       IN  outcome[b] \o SetToSeq({k.op : k \in c})]
  /\ dispatched' = dispatched \cup {<<k.id, k.with>> : k \in {c \in x.calls : c.op = "dispatch"}}
  /\ known' = known \cup {k.id : k \in {c \in x.calls : c.op = "add_peer"}}

(* The end of an event in a loop with a link: everything is drained. *)
Drained(x) == heard' \in HeardNext(x) /\ Becomes(Noticed(Sent(x)))

-----------------------------------------------------------------------------
Init ==
  /\ mode \in {"udp", "kiss"} /\ inner = FALSE /\ tcp = [a \in Addrs |-> None]
  /\ drv = "off" /\ cmds = <<>> /\ d = NewDriver
  /\ bundle = [b \in Bundles |-> "held"] /\ outcome = [b \in Bundles |-> <<>>]
  /\ dispatched = {} /\ known = {} /\ heard = [n \in Numbers |-> None]
  /\ air = (UNION {{g} \X (1..GreenLen[g]) : g \in Incoming}) \cup (IncomingRed \X {0})
  /\ dups = {} /\ events = 0

bpaVars == <<bundle, outcome, dispatched, known>>
claVars == <<inner, tcp>>
(* An event of the environment. *)
Count(n) == events + n <= MaxEvents /\ events' = events + n

-----------------------------------------------------------------------------
(* The adapter. *)

(* on_register: a new driver is told of the configured peers, then of      *)
(* every Tcp address in peer_mappings, in the order of a hash map.         *)
OnRegister ==
  /\ ~inner /\ drv = "off" /\ Count(1)
  /\ tcp' = [a \in Addrs |-> IF \E e \in DOMAIN Configured : Configured[e] = a
                             THEN CHOOSE e \in DOMAIN Configured : Configured[e] = a ELSE tcp[a]]
  /\ \E s \in SetToSeqs({RegisterCmd(e, Configured[e]) : e \in DOMAIN Configured}),
        t \in SetToSeqs({RegisterCmd(tcp'[a], a) : a \in {b \in Addrs : tcp'[b] # None}}) :
       cmds' = s \o t
  /\ inner' = TRUE /\ drv' = IF mode = "udp" THEN "udp" ELSE "connecting"
  /\ d' = NewDriver /\ known' = known \cup DOMAIN Configured
  /\ UNCHANGED <<mode, bundle, outcome, dispatched, heard, air, dups>>

(* unregister and on_unregister: the driver is shut down; the lock on      *)
(* inner is held until it has ended.                                        *)
OnUnregister ==
  /\ inner /\ inner' = FALSE /\ cmds' = Append(cmds, ShutdownCmd)
  /\ UNCHANGED <<mode, tcp, drv, d, bpaVars, heard, air, dups, events>>

RegisterPeer(e, a) ==
  /\ Count(1)
  /\ inner \/ drv = "off"
  /\ tcp' = [tcp EXCEPT ![a] = e]
  /\ IF inner THEN known' = known \cup {e} /\ cmds' = Append(cmds, RegisterCmd(e, a))
     ELSE UNCHANGED <<known, cmds>>
  /\ UNCHANGED <<mode, inner, drv, d, bundle, outcome, dispatched, heard, air, dups>>

UnregisterPeer(e) ==
  /\ Count(1)
  /\ inner \/ drv = "off"
  /\ IF inner THEN known' = known \ {e} /\ cmds' = Append(cmds, UnregisterCmd(e))
     ELSE UNCHANGED <<known, cmds>>
  /\ UNCHANGED <<mode, claVars, drv, d, bundle, outcome, dispatched, heard, air, dups>>

(* forward resolves the address and waits for the driver's answer. *)
Resolved(addr) == IF addr \in Addrs THEN tcp[addr] ELSE addr

Forward(b) ==
  /\ inner /\ bundle[b] = "held"
  /\ IF Resolved(Dest[b]) = None
     THEN bundle' = [bundle EXCEPT ![b] = "noNeighbour"] /\ UNCHANGED cmds
     ELSE bundle' = [bundle EXCEPT ![b] = "queued"] /\ cmds' = Append(cmds, ForwardCmd(b, Resolved(Dest[b])))
  /\ UNCHANGED <<mode, claVars, drv, d, outcome, dispatched, known, heard, air, dups, events>>

-----------------------------------------------------------------------------
(* The driver's loops. *)

Linked == drv \in {"udp", "online"}

(* What arrives: an answer to a session the other station has heard of, a  *)
(* segment of a block, or something unreadable.                            *)
Answers == {[orig |-> Self, kind |-> k, id |-> n, at |-> 0] :
              k \in {"report", "cancel"}, n \in {m \in Numbers : heard[m] # None}}
Data(s, stale) == [orig |-> Remote, kind |-> IF s[2] = 0 THEN "red" ELSE "green", id |-> s[1], at |-> s[2], stale |-> stale]
Noise == [orig |-> None, kind |-> "noise", id |-> None, at |-> 0]

AfterPacket(x, a, p) == IF mode = "udp" THEN AfterDatagram(x, a, p) ELSE AfterFrame(x, p)

Receive(a, p) ==
  /\ Linked /\ Drained(AfterPacket(d, a, p))
  /\ UNCHANGED <<mode, claVars, drv, cmds, bundle>>

ReceiveAnswer(a) == \E p \in Answers \cup {Noise} : Count(1) /\ Receive(a, p) /\ UNCHANGED <<air, dups>>

ReceiveData(a) ==
  \E s \in air, stale \in SUBSET Held(d.green) :
    /\ \/ Count(1) /\ air' = air \ {s} /\ UNCHANGED dups
       \/ s[2] # 0 /\ Count(2) /\ air' = air /\ dups' = dups \cup {s[1]}
    /\ Receive(a, Data(s, stale))

(* A deadline of the engine passes; while disconnected only notices are drained. *)
TimerTick(n) ==
  /\ drv \in {"udp", "online", "backoff"} /\ Active(d, n)
  /\ IF Linked THEN Drained(AfterTimer(d, n))
     ELSE Becomes(Noticed(AfterTimer(d, n))) /\ UNCHANGED heard
  /\ UNCHANGED <<mode, claVars, drv, cmds, bundle, air, dups, events>>

(* handle_command; while disconnected nothing is drained. *)
Answered(c) ==
  IF c.op # "forward" THEN bundle
  ELSE [bundle EXCEPT ![c.b] = IF d.e2a[c.e] = None THEN "noNeighbour" ELSE "accepted"]

HandleCommand ==
  /\ drv \in {"udp", "online", "backoff"} /\ cmds # <<>> /\ Head(cmds) # ShutdownCmd
  /\ LET c == Head(cmds) IN
       /\ bundle' = Answered(c)
       /\ IF Linked THEN Drained(AfterCommand(d, c)) ELSE Becomes(AfterCommand(d, c)) /\ UNCHANGED heard
  /\ cmds' = Tail(cmds)
  /\ UNCHANGED <<mode, claVars, drv, air, dups, events>>

(* Shutdown: what is pending has failed; replies still queued are dropped. *)
Shutdown ==
  /\ drv \in {"udp", "online", "backoff"} /\ cmds # <<>> /\ Head(cmds) = ShutdownCmd
  /\ outcome' = [b \in Bundles |-> IF b \in Range(d.pending) THEN Append(outcome[b], "cancelled")
                                   ELSE outcome[b]]
  /\ bundle' = [b \in Bundles |-> IF bundle[b] = "queued" THEN "closed" ELSE bundle[b]]
  /\ drv' = "off" /\ cmds' = <<>> /\ d' = NewDriver
  /\ UNCHANGED <<mode, claVars, dispatched, known, heard, air, dups, events>>

(* run_kiss_tcp: a connection attempt; what was queued is written at once. *)
Connect ==
  /\ drv = "connecting"
  /\ \/ drv' = "online" /\ heard' \in HeardNext(d) /\ Becomes(Sent(d)) /\ UNCHANGED events
     \/ Count(1) /\ drv' = "backoff" /\ UNCHANGED heard
        /\ \/ Becomes(d)
           \/ d.out # <<>> /\ Becomes(Sent(d))
  /\ UNCHANGED <<mode, claVars, cmds, bundle, air, dups>>

(* The connection is lost: while reading, or while writing what the event  *)
(* x put out, in which case the notices stay queued.                       *)
ConnectionLost ==
  /\ drv = "online" /\ Count(1) /\ drv' = "backoff"
  /\ UNCHANGED <<mode, claVars, heard, air, dups>>
  /\ \/ UNCHANGED <<d, outcome, dispatched, known, cmds, bundle>>
     \/ \E x \in {AfterFrame(d, p) : p \in Answers} \cup {AfterTimer(d, n) : n \in {m \in Numbers : Active(d, m)}} :
          x.out # <<>> /\ Becomes(Sent(x)) /\ UNCHANGED <<cmds, bundle>>
     \/ /\ cmds # <<>> /\ Head(cmds).op = "forward" /\ d.e2a[Head(cmds).e] # None
        /\ Becomes(Sent(AfterCommand(d, Head(cmds)))) /\ cmds' = Tail(cmds) /\ bundle' = Answered(Head(cmds))

BackoffElapsed ==
  /\ drv = "backoff" /\ drv' = "connecting"
  /\ UNCHANGED <<mode, claVars, cmds, d, bpaVars, heard, air, dups, events>>

Next ==
  \/ OnRegister \/ OnUnregister
  \/ \E e \in Engines : UnregisterPeer(e) \/ \E a \in Addrs : RegisterPeer(e, a)
  \/ \E b \in Bundles : Forward(b)
  \/ \E a \in Addrs : ReceiveAnswer(a) \/ ReceiveData(a)
  \/ \E n \in Numbers : TimerTick(n)
  \/ HandleCommand \/ Shutdown \/ Connect \/ ConnectionLost \/ BackoffElapsed

Spec == Init /\ [][Next]_vars

-----------------------------------------------------------------------------
(* Properties. *)

(* Reports of b made, or still owed. *)
Reports(b) == Len(outcome[b]) + Cardinality({n \in Numbers : d.pending[n] = b})

(* Every bundle the adapter accepted has exactly one transfer outcome:     *)
(* reported, or owed by a session that is still running or whose notice is *)
(* queued; whatever is lost, and also when the driver is shut down or      *)
(* started again.  A bundle it did not accept has none.                    *)
AcceptedIsAccounted ==
  /\ \A b \in Bundles : Reports(b) = IF bundle[b] = "accepted" THEN 1 ELSE 0
  /\ \A n \in Numbers : d.pending[n] # None =>
       Active(d, n) \/ \E i \in DOMAIN d.notices : d.notices[i].kind \in {"completed", "cancelled"} /\ d.notices[i].id = n
  /\ drv = "off" => \A n \in Numbers : d.pending[n] = None

(* A green block reaches the BPA only when all of its segments arrived: no *)
(* hole is passed off as zeros.  The driver counts bytes, not positions,   *)
(* so this holds of blocks none of whose datagrams was duplicated.         *)
GreenIsWhole == \A r \in dispatched : r[1] \notin dups => r[2] = {}

(* A red bundle is reported as transferred only if the other station has   *)
(* received it.                                                            *)
CompletedMeansHeard ==
  \A b \in RedBundles : (\E i \in DOMAIN outcome[b] : outcome[b][i] = "completed") => b \in Range(heard)
=============================================================================
