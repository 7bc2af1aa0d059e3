---------------------------- MODULE MercuryLink ----------------------------
(***************************************************************************)
(* The connected-mode radio link of mercury-cla: the driver task with its  *)
(* SessionState, the two TCP connections to the Mercury TNC, and the two   *)
(* clients of the driver's command channel, the contact coordinator and    *)
(* the BPA that forwards bundles.  The TNC is external and modelled from   *)
(* the lines the driver sends and understands: it owns one radio link,     *)
(* takes commands and emits status lines in order, and may be called by    *)
(* another station at any time while idle (the driver sends LISTEN ON).    *)
(*                                                                         *)
(* Channels are sequences.  A oneshot reply is answered, or dropped, which *)
(* its caller sees as an error.  The driver's two loops are the values of  *)
(* drv: "offline" is the reconnection loop and "online" the session loop.  *)
(* Which contact comes next (the schedule) is left open.                   *)
(***************************************************************************)
EXTENDS Naturals, Sequences

CONSTANTS
  Peers,         \* callsigns of the other stations
  Bundles,       \* bundles the BPA may forward over this link
  IdleTimeout,   \* Config.idle_timeout is set
  MaxContacts,   \* bound: contact windows opened by the coordinator
  MaxCalls,      \* bound: calls from other stations
  MaxLosses      \* bound: times the TNC goes away

ASSUME PeerAssumption == "" \notin Peers
ASSUME BoundAssumption ==
  MaxContacts \in Nat /\ MaxCalls \in Nat /\ MaxLosses \in Nat /\ IdleTimeout \in BOOLEAN

VARIABLES
  drv,         \* which loop of Driver::run is running
  session,     \* SessionState
  connReply,   \* pending_connect_reply: the contact it belongs to, or 0
  discReply,   \* pending_disconnect_reply is Some
  cmds,        \* the driver's command channel
  ctl,         \* command lines written and not yet taken by the TNC
  lines,       \* status lines emitted and not yet handled by the driver
  outq,        \* bundles handed to the data writer task
  writer,      \* the data writer task is running
  sock,        \* the TCP connections to the TNC are alive
  link,        \* the TNC's radio link (external)
  bpa,         \* peers registered with the BPA's sink
  bundle,      \* what became of each bundle
  coord,       \* the contact coordinator
  calls, losses,   \* counters of the bounds
  lost         \* history: peers whose link ended with the TNC's connection

driverVars == <<drv, session, connReply, discReply, writer>>
tncVars == <<ctl, lines, sock, link>>
vars == <<driverVars, tncVars, cmds, outq, bpa, bundle, coord, calls, losses, lost>>

Down == [state |-> "disconnected", peer |-> ""]
In(state, peer) == [state |-> state, peer |-> peer]

Init ==
  /\ drv = "offline" /\ session = Down /\ connReply = 0 /\ discReply = FALSE
  /\ cmds = <<>> /\ ctl = <<>> /\ lines = <<>> /\ outq = <<>> /\ writer = FALSE
  /\ sock = FALSE /\ link = In("idle", "")
  /\ bpa = {} /\ lost = {}
  /\ bundle = [b \in Bundles |-> "held"]
  /\ coord = [phase |-> "waiting", peer |-> "", n |-> 0]
  /\ calls = 0 /\ losses = 0

-----------------------------------------------------------------------------
(* Replies.  Only the contact that still waits hears the answer to its     *)
(* connect; after its timeout the answer goes nowhere.                     *)

ConnectAnswered(n, ok) ==
  IF coord.phase = "starting" /\ coord.n = n
  THEN [coord EXCEPT !.phase = IF ok THEN "contact" ELSE "waiting"] ELSE coord

DisconnectAnswered ==
  CASE coord.phase = "ending"    -> [coord EXCEPT !.phase = "waiting"]
    [] coord.phase = "finishing" -> [coord EXCEPT !.phase = "stopped"]
    [] OTHER                     -> coord

(* Both pending replies answered, or dropped, at once. *)
AllAnswered == IF discReply THEN DisconnectAnswered ELSE ConnectAnswered(connReply, FALSE)

Queued(q) == {q[i] : i \in DOMAIN q}
Failed(bs) == [b \in Bundles |-> IF b \in bs THEN "failed" ELSE bundle[b]]

-----------------------------------------------------------------------------
(* The contact coordinator, through MercuryCla::connect_peer and           *)
(* disconnect.  An unregistered CLA fails every call.                      *)

Registered == drv # "stopped" /\ \A i \in DOMAIN cmds : cmds[i].op # "shutdown"

StartContact(p) ==
  /\ coord.phase = "waiting" /\ coord.n < MaxContacts /\ Registered
  /\ coord' = [phase |-> "starting", peer |-> p, n |-> coord.n + 1]
  /\ cmds' = Append(cmds, [op |-> "connect", peer |-> p, n |-> coord.n + 1])
  /\ UNCHANGED <<driverVars, tncVars, outq, bpa, bundle, calls, losses, lost>>

ConnectTimeout ==
  /\ coord.phase = "starting"
  /\ coord' = [coord EXCEPT !.phase = "waiting"]
  /\ UNCHANGED <<driverVars, tncVars, cmds, outq, bpa, bundle, calls, losses, lost>>

(* The contact's duration is over, or the coordinator is cancelled. *)
EndContact(phase) ==
  /\ coord.phase = "contact"
  /\ IF Registered
     THEN /\ coord' = [coord EXCEPT !.phase = phase]
          /\ cmds' = Append(cmds, [op |-> "disconnect", peer |-> "", n |-> 0])
     ELSE /\ coord' = [coord EXCEPT !.phase = IF phase = "ending" THEN "waiting" ELSE "stopped"]
          /\ UNCHANGED cmds
  /\ UNCHANGED <<driverVars, tncVars, outq, bpa, bundle, calls, losses, lost>>

CoordinatorCancelled ==
  /\ coord.phase = "waiting"
  /\ coord' = [coord EXCEPT !.phase = "stopped"]
  /\ UNCHANGED <<driverVars, tncVars, cmds, outq, bpa, bundle, calls, losses, lost>>

(* MercuryCla::forward, called by the BPA for a peer it has a link to. *)
Forward(b) ==
  /\ bpa # {} /\ bundle[b] = "held" /\ Registered
  /\ bundle' = [bundle EXCEPT ![b] = "asked"]
  /\ cmds' = Append(cmds, [op |-> "forward", peer |-> b, n |-> 0])
  /\ UNCHANGED <<driverVars, tncVars, outq, bpa, coord, calls, losses, lost>>

(* MercuryCla::unregister: the BPA forgets the CLA and all its peers. *)
Unregister ==
  /\ Registered
  /\ bpa' = {} /\ lost' = {}
  /\ cmds' = Append(cmds, [op |-> "shutdown", peer |-> "", n |-> 0])
  /\ UNCHANGED <<driverVars, tncVars, outq, bundle, coord, calls, losses>>

-----------------------------------------------------------------------------
(* The driver's reconnection loop.                                         *)

(* connect_mercury_ports and init_mercury_tnc succeed: a new session loop  *)
(* with a session of its own.                                              *)
Online ==
  /\ drv = "offline"
  /\ drv' = "online" /\ sock' = TRUE
  /\ session' = Down /\ connReply' = 0 /\ discReply' = FALSE /\ writer' = TRUE
  /\ ctl' = <<>> /\ lines' = <<>> /\ link' = In("idle", "")
  /\ UNCHANGED <<cmds, outq, bpa, bundle, coord, calls, losses, lost>>

Take(op) == cmds # <<>> /\ Head(cmds).op = op /\ cmds' = Tail(cmds)

OfflineCommand ==
  /\ drv = "offline"
  /\ \/ /\ Take("connect")
        /\ coord' = ConnectAnswered(Head(cmds).n, FALSE)
        /\ UNCHANGED bundle
     \/ /\ Take("disconnect")
        /\ coord' = DisconnectAnswered
        /\ UNCHANGED bundle
     \/ /\ Take("forward")
        /\ bundle' = Failed({Head(cmds).peer})
        /\ UNCHANGED coord
  /\ UNCHANGED <<driverVars, tncVars, outq, bpa, calls, losses, lost>>

-----------------------------------------------------------------------------
(* The driver's session loop.  A write to a control connection that is     *)
(* already dead may fail, or succeed and go nowhere.                       *)

Connected(p) == drv = "online" /\ session = In("connected", p)
RemovePeer(p) == bpa' = bpa \ {p} /\ lost' = lost \ {p}

ConnectCommand ==
  /\ drv = "online" /\ Take("connect")
  /\ LET c == Head(cmds)
     IN \/ /\ session = Down
           /\ ctl' = Append(ctl, In("connect", c.peer))
           /\ session' = In("connecting", c.peer) /\ connReply' = c.n
           /\ UNCHANGED coord
        \/ /\ session = Down /\ ~sock
           /\ coord' = ConnectAnswered(c.n, FALSE)
           /\ UNCHANGED <<ctl, session, connReply>>
        \/ /\ session # Down
           /\ coord' = ConnectAnswered(c.n, Connected(c.peer))
           /\ UNCHANGED <<ctl, session, connReply>>
  /\ UNCHANGED <<drv, discReply, writer, lines, sock, link, outq, bpa, bundle, calls, losses, lost>>

(* Mutant: the session is marked but the TNC is not told. *)
DisconnectCommandUnsaid ==
  /\ drv = "online" /\ Take("disconnect")
  /\ \/ /\ session.state \in {"connected", "connecting"}
        /\ RemovePeer(session.peer)
        /\ session' = In("disconnecting", "") /\ discReply' = TRUE
        /\ UNCHANGED <<ctl, coord>>
     \/ /\ session.state \in {"disconnected", "disconnecting"}
        /\ coord' = DisconnectAnswered
        /\ UNCHANGED <<ctl, session, discReply, bpa, lost>>
  /\ UNCHANGED <<drv, connReply, writer, lines, sock, link, outq, bundle, calls, losses>>

DisconnectCommand ==
  /\ drv = "online" /\ Take("disconnect")
  /\ \/ /\ session.state \in {"connected", "connecting"}
        /\ RemovePeer(session.peer)
        /\ ctl' = Append(ctl, In("disconnect", ""))
        /\ session' = In("disconnecting", "") /\ discReply' = TRUE
        /\ UNCHANGED coord
     \/ /\ session.state \in {"connected", "connecting"} /\ ~sock
        /\ RemovePeer(session.peer)
        /\ coord' = DisconnectAnswered
        /\ UNCHANGED <<ctl, session, discReply>>
     \/ /\ session.state \in {"disconnected", "disconnecting"}
        /\ coord' = DisconnectAnswered
        /\ UNCHANGED <<ctl, session, discReply, bpa, lost>>
  /\ UNCHANGED <<drv, connReply, writer, lines, sock, link, outq, bundle, calls, losses>>

(* The session loop is left with its session, its pending replies and its  *)
(* queue of bundles (and bs with them); the peer stays registered.         *)
LeaveSession(bs) ==
  /\ drv' = "offline"
  /\ session' = Down /\ connReply' = 0 /\ discReply' = FALSE /\ writer' = FALSE
  /\ lost' = IF session.state = "connected" THEN lost \cup ({session.peer} \cap bpa) ELSE lost
  /\ coord' = AllAnswered
  /\ outq' = <<>> /\ bundle' = Failed(Queued(outq) \cup bs)
  /\ UNCHANGED <<tncVars, bpa, calls, losses>>

(* A connection to the TNC is found closed. *)
ConnectionClosed == drv = "online" /\ ~sock /\ LeaveSession({}) /\ UNCHANGED cmds

ForwardCommand ==
  /\ drv = "online" /\ Take("forward")
  /\ LET b == Head(cmds).peer
     IN \/ /\ session.state = "connected" /\ ~writer
           /\ LeaveSession({b})
        \/ /\ session.state = "connected" /\ writer
           /\ outq' = Append(outq, b)
           /\ bundle' = [bundle EXCEPT ![b] = "queued"]
           /\ UNCHANGED <<driverVars, tncVars, bpa, coord, calls, losses, lost>>
        \/ /\ session.state # "connected"
           /\ bundle' = Failed({b})
           /\ UNCHANGED <<driverVars, tncVars, outq, bpa, coord, calls, losses, lost>>

(* The data writer task: written to the socket is all that "sent" says.    *)
(* It ends at the first write that fails.                                  *)
WriteBundle ==
  /\ drv = "online" /\ outq # <<>>
  /\ \/ /\ outq' = Tail(outq)
        /\ bundle' = [bundle EXCEPT ![Head(outq)] = "sent"]
        /\ UNCHANGED writer
     \/ /\ ~sock
        /\ outq' = <<>> /\ bundle' = Failed(Queued(outq))
        /\ writer' = FALSE
  /\ UNCHANGED <<drv, session, connReply, discReply, tncVars, cmds, bpa, coord, calls,
                 losses, lost>>

IdleTick ==
  /\ IdleTimeout /\ drv = "online" /\ session.state = "connected"
  /\ RemovePeer(session.peer)
  /\ ctl' = Append(ctl, In("disconnect", ""))
  /\ session' = In("disconnecting", "")
  /\ UNCHANGED <<drv, connReply, discReply, writer, lines, sock, link, cmds, outq, bundle,
                 coord, calls, losses>>

(* Mutant: the callsign is not taken from the line. *)
ConnectedLineUnparsed ==
  /\ drv = "online" /\ lines # <<>> /\ Head(lines).state = "connected"
  /\ lines' = Tail(lines)
  /\ bpa' = bpa \cup {""} /\ session' = In("connected", "")
  /\ coord' = ConnectAnswered(connReply, TRUE) /\ connReply' = 0
  /\ UNCHANGED <<drv, discReply, writer, ctl, sock, link, cmds, outq, bundle, calls,
                 losses, lost>>

(* Mutant: only the station that was dialled is accepted. *)
ConnectedLineDialledOnly ==
  /\ drv = "online" /\ lines # <<>> /\ Head(lines).state = "connected"
  /\ lines' = Tail(lines)
  /\ IF session = In("connecting", Head(lines).peer)
     THEN /\ bpa' = bpa \cup {session.peer} /\ lost' = lost \ {session.peer}
          /\ session' = In("connected", session.peer)
          /\ coord' = ConnectAnswered(connReply, TRUE) /\ connReply' = 0
     ELSE UNCHANGED <<bpa, lost, session, coord, connReply>>
  /\ UNCHANGED <<drv, discReply, writer, ctl, sock, link, cmds, outq, bundle, calls, losses>>

(* The CONNECTED line: whoever the peer is, it is registered, becomes the  *)
(* session, and the pending connect has succeeded.                         *)
ConnectedLine ==
  /\ drv = "online" /\ lines # <<>> /\ Head(lines).state = "connected"
  /\ lines' = Tail(lines)
  /\ LET p == Head(lines).peer
     IN /\ bpa' = bpa \cup {p} /\ lost' = lost \ {p}
        /\ session' = In("connected", p)
  /\ coord' = ConnectAnswered(connReply, TRUE) /\ connReply' = 0
  /\ UNCHANGED <<drv, discReply, writer, ctl, sock, link, cmds, outq, bundle, calls, losses>>

(* Mutant: the caller of disconnect is left waiting. *)
DisconnectedLineKeepsReply ==
  /\ drv = "online" /\ lines # <<>> /\ Head(lines).state = "disconnected"
  /\ lines' = Tail(lines)
  /\ IF session.state = "connected" THEN RemovePeer(session.peer) ELSE UNCHANGED <<bpa, lost>>
  /\ session' = Down
  /\ coord' = ConnectAnswered(connReply, FALSE) /\ connReply' = 0
  /\ UNCHANGED <<drv, discReply, writer, ctl, sock, link, cmds, outq, bundle, calls, losses>>

(* Mutant: a lost link leaves its peer registered. *)
DisconnectedLineKeepsPeer ==
  /\ drv = "online" /\ lines # <<>> /\ Head(lines).state = "disconnected"
  /\ lines' = Tail(lines)
  /\ session' = Down
  /\ coord' = AllAnswered /\ connReply' = 0 /\ discReply' = FALSE
  /\ UNCHANGED <<drv, writer, ctl, sock, link, cmds, outq, bpa, lost, bundle, calls, losses>>

DisconnectedLine ==
  /\ drv = "online" /\ lines # <<>> /\ Head(lines).state = "disconnected"
  /\ lines' = Tail(lines)
  /\ IF session.state = "connected" THEN RemovePeer(session.peer) ELSE UNCHANGED <<bpa, lost>>
  /\ session' = Down
  /\ coord' = AllAnswered /\ connReply' = 0 /\ discReply' = FALSE
  /\ UNCHANGED <<drv, writer, ctl, sock, link, cmds, outq, bundle, calls, losses>>

(* The WRONG line answers a pending connect and leaves the session alone. *)
WrongLine ==
  /\ drv = "online" /\ lines # <<>> /\ Head(lines).state = "wrong"
  /\ lines' = Tail(lines)
  /\ coord' = ConnectAnswered(connReply, FALSE) /\ connReply' = 0
  /\ UNCHANGED <<drv, session, discReply, writer, ctl, sock, link, cmds, outq, bpa, bundle,
                 calls, losses, lost>>

(* Shutdown ends the driver from either loop.  The writer task is not      *)
(* aborted here and may still write what it was given.                     *)
ShutdownCommand ==
  /\ drv \in {"offline", "online"} /\ Take("shutdown")
  /\ drv' = "stopped"
  /\ session' = Down /\ connReply' = 0 /\ discReply' = FALSE /\ writer' = FALSE
  /\ ctl' = IF session.state = "connected" THEN Append(ctl, In("disconnect", "")) ELSE ctl
  /\ bpa' = IF session.state = "connected" THEN bpa \ {session.peer} ELSE bpa
  /\ outq' = <<>>
  /\ \E written \in SUBSET Queued(outq) :
       bundle' = [b \in Bundles |->
                    IF b \in written THEN "sent"
                    ELSE IF b \in Queued(outq) THEN "failed" ELSE bundle[b]]
  /\ coord' = AllAnswered
  /\ UNCHANGED <<lines, sock, link, calls, losses, lost>>

-----------------------------------------------------------------------------
(* The TNC and the radio (external).                                       *)

Emit(state, peer) == lines' = Append(lines, In(state, peer))

(* A CONNECT is refused while the link is in use.  A DISCONNECT with no    *)
(* link up is confirmed or ignored.                                        *)
TncCommand ==
  /\ sock /\ ctl # <<>> /\ ctl' = Tail(ctl)
  /\ IF Head(ctl).state = "connect"
     THEN IF link.state = "idle"
          THEN link' = In("calling", Head(ctl).peer) /\ UNCHANGED lines
          ELSE Emit("wrong", "") /\ UNCHANGED link
     ELSE \/ Emit("disconnected", "") /\ link' = In("idle", "")
          \/ link.state = "idle" /\ UNCHANGED <<link, lines>>
  /\ UNCHANGED <<driverVars, sock, cmds, outq, bpa, bundle, coord, calls, losses, lost>>

TncCallEnds ==
  /\ sock /\ link.state = "calling"
  /\ \/ link' = In("up", link.peer) /\ Emit("connected", link.peer)
     \/ link' = In("idle", "") /\ Emit("disconnected", "")
  /\ UNCHANGED <<driverVars, ctl, sock, cmds, outq, bpa, bundle, coord, calls, losses, lost>>

TncCalled(p) ==
  /\ sock /\ link.state = "idle" /\ calls < MaxCalls
  /\ calls' = calls + 1
  /\ link' = In("up", p) /\ Emit("connected", p)
  /\ UNCHANGED <<driverVars, ctl, sock, cmds, outq, bpa, bundle, coord, losses, lost>>

TncLinkLost ==
  /\ sock /\ link.state = "up"
  /\ link' = In("idle", "") /\ Emit("disconnected", "")
  /\ UNCHANGED <<driverVars, ctl, sock, cmds, outq, bpa, bundle, coord, calls, losses, lost>>

TncGone ==
  /\ sock /\ losses < MaxLosses
  /\ sock' = FALSE /\ losses' = losses + 1
  /\ UNCHANGED <<driverVars, ctl, lines, link, cmds, outq, bpa, bundle, coord, calls, lost>>

-----------------------------------------------------------------------------
DriverStep ==
  \/ Online \/ OfflineCommand
  \/ ConnectCommand \/ DisconnectCommand \/ ForwardCommand \/ ShutdownCommand
  \/ WriteBundle \/ IdleTick
  \/ ConnectedLine \/ DisconnectedLine \/ WrongLine \/ ConnectionClosed

CoordinatorStep ==
  \/ \E p \in Peers : StartContact(p)
  \/ ConnectTimeout
  \/ \E phase \in {"ending", "finishing"} : EndContact(phase)
  \/ CoordinatorCancelled

TncStep ==
  \/ TncCommand \/ TncCallEnds \/ TncLinkLost \/ TncGone
  \/ \E p \in Peers : TncCalled(p)

Next == DriverStep \/ CoordinatorStep \/ TncStep \/ Unregister \/ \E b \in Bundles : Forward(b)

Spec == Init /\ [][Next]_vars

(* The driver's task is always polled, and a TNC that is there works its   *)
(* commands off and brings a call to an end.  A contact may stay open and  *)
(* nobody need call, time out or disappear.                                *)
Fairness ==
  /\ WF_vars(Online)
  /\ WF_vars(OfflineCommand \/ ConnectCommand \/ DisconnectCommand \/ ForwardCommand
               \/ ShutdownCommand)
  /\ WF_vars(ConnectedLine \/ DisconnectedLine \/ WrongLine)
  /\ WF_vars(ConnectionClosed)
  /\ WF_vars(TncCommand) /\ WF_vars(TncCallEnds)

LiveSpec == Spec /\ Fairness

-----------------------------------------------------------------------------
(* Properties.                                                             *)

Current == {p \in Peers : Connected(p)}

(* A live session is never without its route, and the BPA has no other     *)
(* route over this link than to the connected peer, except those left over *)
(* from sessions that ended together with the TNC's connection             *)
(* (RegisteredMeansConnected): no crossing of lines and commands leaves    *)
(* one, and before the TNC is first lost there are none.                   *)
RoutesFollowSession ==
  /\ bpa \ lost \subseteq Current
  /\ sock /\ Registered => Current \subseteq bpa
  /\ losses = 0 => lost = {}

(* A session that is being set up or taken down never waits in vain: its   *)
(* command is on the way to the TNC, the TNC is at it, or a line that will *)
(* move the session is on its way back.  Ending a contact has no timeout   *)
(* and a busy session refuses every further connect.                       *)
AnswerOnItsWay ==
  LET sent(op) == \E i \in DOMAIN ctl : ctl[i].state = op
      told     == \E i \in DOMAIN lines : lines[i].state \in {"connected", "disconnected"}
  IN drv = "online" /\ sock =>
       /\ session.state = "connecting" => sent("connect") \/ link.state = "calling" \/ told
       /\ session.state = "disconnecting" \/ discReply => sent("disconnect") \/ told

(* With no line under way the driver and the TNC agree: the session is     *)
(* connected to the station the radio link is up with, and a link that is  *)
(* up is the session's or is about to be taken down.                       *)
QuietMeansAgreed ==
  drv = "online" /\ sock /\ lines = <<>> =>
    \A p \in Peers :
      /\ Connected(p) => link = In("up", p)
      /\ link = In("up", p) => Connected(p) \/ session.state = "disconnecting"

(* The coordinator's teardown of a contact comes to an end although it     *)
(* waits without a timeout, whatever crosses it.                           *)
ContactEnds == coord.phase \in {"ending", "finishing"} ~> coord.phase \in {"waiting", "stopped"}

(* "`sink.add_peer(&node_id)` upon connection, `sink.remove_peer(&node_id)`*)
(* upon disconnect" (ADR 0008): a registered peer is a connected one.      *)
(* It does not hold: README.md, section 12.                                *)
RegisteredMeansConnected == bpa \subseteq Current

(* "Initiate a contact with the given remote peer callsign" (coordinator/  *)
(* endpoint.rs): a contact that started has a session with that peer.      *)
(* It does not hold: README.md, section 12.                                *)
ContactIsWithTarget ==
  [][coord.phase = "starting" /\ coord'.phase = "contact" => session'.peer = coord.peer]_vars
=============================================================================
