-------------------------- MODULE MercuryLinkProofs --------------------------
(***************************************************************************)
(* Proofs about the Mercury link for any set of stations and bundles and   *)
(* any number of contacts, calls and losses of the TNC: the BPA's routes   *)
(* follow the session, a session in transition has its answer on its way,  *)
(* and a quiet driver agrees with the TNC.                                 *)
(***************************************************************************)
EXTENDS MercuryLink, TLAPS

Names == Peers \cup {""}
Line == [state : {"connected", "disconnected", "wrong"}, peer : Names]
Order == [state : {"connect", "disconnect"}, peer : Names]
Phases == {"waiting", "starting", "contact", "ending", "finishing", "stopped"}
Coordinator == [phase : Phases, peer : Names, n : Nat]
Command == [op : {"connect", "disconnect", "forward", "shutdown"}, peer : Names \cup Bundles, n : Nat]

(* The shapes of the driver's state, of its channels and of the link.      *)
Shape ==
  /\ drv \in {"offline", "online", "stopped"}
  /\ session \in [state : {"disconnected", "connecting", "connected", "disconnecting"}, peer : Names]
  /\ session.state = "connected" => session.peer \in Peers
  /\ link \in [state : {"idle", "calling", "up"}, peer : Names]
  /\ link.state # "idle" => link.peer \in Peers
  /\ lines \in Seq(Line)
  /\ \A i \in DOMAIN lines : lines[i].state = "connected" => lines[i].peer \in Peers
  /\ ctl \in Seq(Order)
  /\ \A i \in DOMAIN ctl : ctl[i].state = "connect" => ctl[i].peer \in Peers
  /\ cmds \in Seq(Command)
  /\ \A i \in DOMAIN cmds : cmds[i].op = "connect" => cmds[i].peer \in Peers
  /\ coord \in Coordinator

-----------------------------------------------------------------------------
(* What a queue q of status lines still says about the link.               *)

(* Between two CONNECTED lines there is a DISCONNECTED one. *)
Alternates(q) ==
  \A i, j \in DOMAIN q :
    i < j /\ q[i].state = "connected" /\ q[j].state = "connected"
      => \E k \in DOMAIN q : i < k /\ k < j /\ q[k].state = "disconnected"

(* Before every CONNECTED line there is a DISCONNECTED one. *)
EndsFirst(q) ==
  \A j \in DOMAIN q : q[j].state = "connected"
    => \E k \in DOMAIN q : k < j /\ q[k].state = "disconnected"

(* After every CONNECTED line there is a DISCONNECTED one. *)
EndsLast(q) ==
  \A i \in DOMAIN q : q[i].state = "connected"
    => \E k \in DOMAIN q : i < k /\ q[k].state = "disconnected"

HasEnd(q) == \E k \in DOMAIN q : q[k].state = "disconnected"

(* The last news is that the link to p is up. *)
LastUp(q, p) ==
  \E i \in DOMAIN q :
    /\ q[i].state = "connected" /\ q[i].peer = p
    /\ \A k \in DOMAIN q : i < k => q[k].state # "disconnected"

NoNews(q) == \A i \in DOMAIN q : q[i].state = "wrong"

(* The lines on their way lead from the driver's session to the TNC's link.*)
LineInv ==
  drv = "online" =>
    /\ Alternates(lines)
    /\ session.state = "connected" => EndsFirst(lines)
    /\ link.state # "up" => EndsLast(lines) /\ (session.state = "connected" => HasEnd(lines))
    /\ link.state = "up" =>
         \/ LastUp(lines, link.peer)
         \/ /\ NoNews(lines) /\ session.state \in {"connected", "disconnecting"}
            /\ session.state = "connected" => session.peer = link.peer

(* A DISCONNECT is on its way to the TNC; one behind a CONNECT, which the  *)
(* TNC will not ignore.                                                    *)
HungUp(c) == \E i \in DOMAIN c : c[i].state = "disconnect"
Obeyed(c) ==
  \E i, j \in DOMAIN c : j < i /\ c[i].state = "disconnect" /\ c[j].state = "connect"

Dialled(c) == \E i \in DOMAIN c : c[i].state = "connect"
News(q) == \E i \in DOMAIN q : q[i].state \in {"connected", "disconnected"}

(* AnswerOnItsWay without the TNC's connection, and with the order of the  *)
(* commands: what ends a session is a DISCONNECTED line, and a DISCONNECT  *)
(* the TNC ignores is answered by a line it sent before.                   *)
AnswerInv ==
  drv = "online" =>
    /\ session.state = "connecting" => Dialled(ctl) \/ link.state = "calling" \/ News(lines)
    /\ session.state = "disconnecting" \/ discReply = TRUE
         => HasEnd(lines) \/ Obeyed(ctl) \/ (HungUp(ctl) /\ link.state # "idle")

(* Until a connection to the TNC is lost, the session loop is never left.  *)
Lossless ==
  /\ losses \in Nat
  /\ losses = 0 => lost = {} /\ (drv = "online" => sock /\ writer)

(* The inductive invariant. *)
IInv == Shape /\ LineInv /\ AnswerInv /\ Lossless /\ RoutesFollowSession

-----------------------------------------------------------------------------
(* Lemmas about queues: what taking a line or adding one does.             *)

(* An empty queue has no line. *)
LEMMA NothingQueued ==
  ASSUME NEW T, NEW q, q = <<>>
  PROVE  q \in Seq(T) /\ DOMAIN q = {}
  OBVIOUS

(* The first line is taken: the others move up by one. *)
LEMMA TailOf ==
  ASSUME NEW T, NEW q \in Seq(T), q # <<>>
  PROVE  /\ Tail(q) \in Seq(T) /\ 1 \in DOMAIN q /\ Head(q) = q[1] /\ Head(q) \in T
         /\ \A i \in DOMAIN Tail(q) : i \in Nat /\ i + 1 \in DOMAIN q /\ Tail(q)[i] = q[i + 1]
         /\ \A i \in DOMAIN q : i \in Nat /\ i >= 1 /\ (i > 1 => i - 1 \in DOMAIN Tail(q) /\ Tail(q)[i - 1] = q[i])
  OBVIOUS

(* A line is added after the others. *)
LEMMA AppendOf ==
  ASSUME NEW T, NEW q \in Seq(T), NEW x \in T
  PROVE  /\ Append(q, x) \in Seq(T)
         /\ \A i \in DOMAIN q : i \in Nat /\ i < Len(q) + 1 /\ i \in DOMAIN Append(q, x) /\ Append(q, x)[i] = q[i]
         /\ Len(q) \in Nat /\ Len(q) + 1 \in DOMAIN Append(q, x) /\ Append(q, x)[Len(q) + 1] = x
         /\ \A i \in DOMAIN Append(q, x) : i \in DOMAIN q \/ i = Len(q) + 1
  OBVIOUS

(* A DISCONNECTED line is added. *)
LEMMA AddEnd ==
  ASSUME NEW q \in Seq(Line), NEW x \in Line, x.state = "disconnected", Alternates(q)
  PROVE  /\ Alternates(Append(q, x)) /\ EndsLast(Append(q, x)) /\ HasEnd(Append(q, x))
         /\ EndsFirst(q) => EndsFirst(Append(q, x))
<1> DEFINE r == Append(q, x)
<1>1. /\ \A i \in DOMAIN q : i \in Nat /\ i < Len(q) + 1 /\ i \in DOMAIN r /\ r[i] = q[i]
      /\ Len(q) \in Nat /\ Len(q) + 1 \in DOMAIN r /\ r[Len(q) + 1] = x
      /\ \A i \in DOMAIN r : i \in DOMAIN q \/ i = Len(q) + 1
  BY AppendOf
<1> HIDE DEF r
<1>2. HasEnd(r)
  BY <1>1 DEF HasEnd
<1>3. EndsLast(r)
  BY <1>1 DEF EndsLast
<1>4. Alternates(r)
  BY <1>1 DEF Alternates
<1>5. EndsFirst(q) => EndsFirst(r)
  BY <1>1 DEF EndsFirst
<1> QED  BY <1>2, <1>3, <1>4, <1>5 DEF r

(* A CONNECTED line is added when every earlier one has ended. *)
LEMMA AddUp ==
  ASSUME NEW q \in Seq(Line), NEW x \in Line, x.state = "connected", Alternates(q), EndsLast(q)
  PROVE  /\ Alternates(Append(q, x)) /\ LastUp(Append(q, x), x.peer) /\ News(Append(q, x))
         /\ EndsFirst(q) /\ HasEnd(q) => EndsFirst(Append(q, x))
         /\ HasEnd(q) => HasEnd(Append(q, x))
<1> DEFINE r == Append(q, x)
<1>1. /\ \A i \in DOMAIN q : i \in Nat /\ i < Len(q) + 1 /\ i \in DOMAIN r /\ r[i] = q[i]
      /\ Len(q) \in Nat /\ Len(q) + 1 \in DOMAIN r /\ r[Len(q) + 1] = x
      /\ \A i \in DOMAIN r : i \in DOMAIN q \/ i = Len(q) + 1
  BY AppendOf
<1> HIDE DEF r
<1>2. LastUp(r, x.peer) /\ News(r)
  BY <1>1 DEF LastUp, News
<1>3. Alternates(r)
  BY <1>1 DEF Alternates, EndsLast
<1>4. EndsFirst(q) /\ HasEnd(q) => EndsFirst(r)
  BY <1>1 DEF EndsFirst, HasEnd
<1>5. HasEnd(q) => HasEnd(r)
  BY <1>1 DEF HasEnd
<1> QED  BY <1>2, <1>3, <1>4, <1>5 DEF r

(* Either of them is news, and earlier ones stay. *)
LEMMA AddNews ==
  ASSUME NEW q \in Seq(Line), NEW x \in Line, x.state \in {"connected", "disconnected"}
  PROVE  /\ News(Append(q, x))
         /\ HasEnd(q) \/ x.state = "disconnected" => HasEnd(Append(q, x))
<1> DEFINE r == Append(q, x)
<1>1. /\ \A i \in DOMAIN q : i \in DOMAIN r /\ r[i] = q[i]
      /\ Len(q) + 1 \in DOMAIN r /\ r[Len(q) + 1] = x
  BY AppendOf
<1> HIDE DEF r
<1>2. News(r)
  BY <1>1 DEF News
<1>3. HasEnd(q) \/ x.state = "disconnected" => HasEnd(r)
  BY <1>1 DEF HasEnd
<1> QED  BY <1>2, <1>3 DEF r

(* A WRONG line says nothing about the link. *)
LEMMA AddWrong ==
  ASSUME NEW q \in Seq(Line), NEW x \in Line, x.state = "wrong"
  PROVE  /\ Alternates(q) => Alternates(Append(q, x))
         /\ EndsFirst(q) => EndsFirst(Append(q, x))
         /\ EndsLast(q) => EndsLast(Append(q, x))
         /\ HasEnd(q) => HasEnd(Append(q, x))
         /\ News(q) => News(Append(q, x))
         /\ NoNews(q) => NoNews(Append(q, x))
         /\ \A p : LastUp(q, p) => LastUp(Append(q, x), p)
<1> DEFINE r == Append(q, x)
<1>1. /\ \A i \in DOMAIN q : i \in Nat /\ i < Len(q) + 1 /\ i \in DOMAIN r /\ r[i] = q[i]
      /\ Len(q) \in Nat /\ Len(q) + 1 \in DOMAIN r /\ r[Len(q) + 1] = x
      /\ \A i \in DOMAIN r : i \in DOMAIN q \/ i = Len(q) + 1
  BY AppendOf
<1> HIDE DEF r
<1>2. Alternates(q) => Alternates(r)
  BY <1>1 DEF Alternates
<1>3. EndsFirst(q) => EndsFirst(r)
  BY <1>1 DEF EndsFirst
<1>4. EndsLast(q) => EndsLast(r)
  BY <1>1 DEF EndsLast
<1>5. (HasEnd(q) => HasEnd(r)) /\ (News(q) => News(r)) /\ (NoNews(q) => NoNews(r))
  BY <1>1 DEF HasEnd, News, NoNews
<1>6. ASSUME NEW p, LastUp(q, p) PROVE LastUp(r, p)
  BY <1>1, <1>6 DEF LastUp
<1> QED  BY <1>2, <1>3, <1>4, <1>5, <1>6 DEF r

(* The CONNECTED line is taken. *)
LEMMA TakeUp ==
  ASSUME NEW q \in Seq(Line), q # <<>>, Head(q).state = "connected", Alternates(q)
  PROVE  /\ Alternates(Tail(q)) /\ EndsFirst(Tail(q)) /\ ~NoNews(q)
         /\ EndsLast(q) => EndsLast(Tail(q)) /\ HasEnd(Tail(q))
         /\ HasEnd(q) => HasEnd(Tail(q))
         /\ \A p : LastUp(q, p) => LastUp(Tail(q), p) \/ (NoNews(Tail(q)) /\ Head(q).peer = p)
<1> DEFINE r == Tail(q)
<1>1. /\ r \in Seq(Line) /\ 1 \in DOMAIN q /\ Head(q) = q[1]
      /\ \A i \in DOMAIN r : i \in Nat /\ i + 1 \in DOMAIN q /\ r[i] = q[i + 1]
      /\ \A i \in DOMAIN q : i \in Nat /\ i >= 1 /\ (i > 1 => i - 1 \in DOMAIN r /\ r[i - 1] = q[i])
  BY TailOf
<1>2. \A i \in DOMAIN r : i >= 1
  BY <1>1
<1> HIDE DEF r
<1>3. Alternates(r)
  <2> SUFFICES ASSUME NEW i \in DOMAIN r, NEW j \in DOMAIN r, i < j,
                      r[i].state = "connected", r[j].state = "connected"
               PROVE  \E k \in DOMAIN r : i < k /\ k < j /\ r[k].state = "disconnected"
    BY DEF Alternates
  <2>1. i + 1 \in DOMAIN q /\ j + 1 \in DOMAIN q /\ i + 1 < j + 1
    BY <1>1
  <2>2. q[i + 1].state = "connected" /\ q[j + 1].state = "connected"
    BY <1>1
  <2>3. PICK k \in DOMAIN q : i + 1 < k /\ k < j + 1 /\ q[k].state = "disconnected"
    BY <2>1, <2>2 DEF Alternates
  <2>4. i \in Nat /\ j \in Nat /\ k \in Nat
    BY <1>1
  <2>5. k > 1 /\ i < k - 1 /\ k - 1 < j
    BY <2>3, <2>4
  <2>6. k - 1 \in DOMAIN r /\ r[k - 1] = q[k]
    BY <1>1, <2>5
  <2> QED  BY <2>3, <2>5, <2>6
<1>4. EndsFirst(r)
  <2> SUFFICES ASSUME NEW j \in DOMAIN r, r[j].state = "connected"
               PROVE  \E k \in DOMAIN r : k < j /\ r[k].state = "disconnected"
    BY DEF EndsFirst
  <2>1. j + 1 \in DOMAIN q /\ q[j + 1].state = "connected" /\ 1 < j + 1
    BY <1>1, <1>2
  <2>2. 1 \in DOMAIN q /\ q[1].state = "connected"
    BY <1>1
  <2>3. PICK k \in DOMAIN q : 1 < k /\ k < j + 1 /\ q[k].state = "disconnected"
    BY <2>1, <2>2 DEF Alternates
  <2>4. j \in Nat /\ k \in Nat
    BY <1>1
  <2>5. k - 1 < j
    BY <2>3, <2>4
  <2>6. k - 1 \in DOMAIN r /\ r[k - 1] = q[k]
    BY <1>1, <2>3
  <2> QED  BY <2>3, <2>5, <2>6
<1>5. ~NoNews(q)
  BY <1>1 DEF NoNews
<1>6. ASSUME NEW k \in DOMAIN q, q[k].state = "disconnected"
      PROVE  k - 1 \in DOMAIN r /\ r[k - 1].state = "disconnected"
  BY <1>1, <1>6
<1>7. HasEnd(q) => HasEnd(r)
  BY <1>6 DEF HasEnd
<1>9. ASSUME EndsLast(q) PROVE EndsLast(r) /\ HasEnd(r)
  <2>1. HasEnd(r)
    BY <1>1, <1>7, <1>9 DEF EndsLast, HasEnd
  <2>2. ASSUME NEW i \in DOMAIN r, r[i].state = "connected"
        PROVE  \E k \in DOMAIN r : i < k /\ r[k].state = "disconnected"
    <3>1. i + 1 \in DOMAIN q /\ q[i + 1].state = "connected"
      BY <1>1, <2>2
    <3>2. PICK k \in DOMAIN q : i + 1 < k /\ q[k].state = "disconnected"
      BY <3>1, <1>9 DEF EndsLast
    <3>3. k - 1 \in DOMAIN r /\ r[k - 1].state = "disconnected" /\ i < k - 1
      BY <1>1, <1>6, <3>2
    <3> QED  BY <3>3
  <2> QED  BY <2>1, <2>2 DEF EndsLast
<1>8. ASSUME NEW p, LastUp(q, p) PROVE LastUp(r, p) \/ (NoNews(r) /\ Head(q).peer = p)
  <2>1. PICK i \in DOMAIN q : /\ q[i].state = "connected" /\ q[i].peer = p
                              /\ \A k \in DOMAIN q : i < k => q[k].state # "disconnected"
    BY <1>8 DEF LastUp
  <2>2. CASE i = 1
    <3>1. ASSUME NEW j \in DOMAIN r PROVE r[j].state = "wrong"
      <4>1. r[j].state # "disconnected"
        BY <2>1, <2>2, <1>1, <1>2
      <4>2. r[j].state # "connected"
        <5>1. SUFFICES ASSUME r[j].state = "connected" PROVE FALSE
          OBVIOUS
        <5>2. j + 1 \in DOMAIN q /\ q[j + 1].state = "connected" /\ 1 < j + 1
          BY <5>1, <1>1, <1>2
        <5>3. PICK k \in DOMAIN q : 1 < k /\ q[k].state = "disconnected"
          BY <5>2, <1>1 DEF Alternates
        <5> QED  BY <5>3, <2>1, <2>2
      <4>3. r[j] \in Line
        BY <1>1
      <4> QED  BY <4>1, <4>2, <4>3 DEF Line
    <3> QED  BY <3>1, <2>1, <2>2, <1>1 DEF NoNews
  <2>3. CASE i > 1
    <3>1. i - 1 \in DOMAIN r /\ r[i - 1].state = "connected" /\ r[i - 1].peer = p
      BY <2>1, <2>3, <1>1
    <3>2. ASSUME NEW k \in DOMAIN r, i - 1 < k PROVE r[k].state # "disconnected"
      <4>1. k + 1 \in DOMAIN q /\ i < k + 1 /\ r[k] = q[k + 1]
        BY <3>2, <1>1
      <4> QED  BY <4>1, <2>1
    <3> QED  BY <3>1, <3>2 DEF LastUp
  <2> QED  BY <2>2, <2>3, <1>1
<1> QED  BY <1>3, <1>4, <1>5, <1>7, <1>8, <1>9 DEF r

(* The DISCONNECTED line is taken. *)
LEMMA TakeEnd ==
  ASSUME NEW q \in Seq(Line), q # <<>>, Head(q).state = "disconnected", Alternates(q)
  PROVE  /\ Alternates(Tail(q)) /\ ~NoNews(q)
         /\ EndsLast(q) => EndsLast(Tail(q))
         /\ \A p : LastUp(q, p) => LastUp(Tail(q), p)
<1> DEFINE r == Tail(q)
<1>1. /\ 1 \in DOMAIN q /\ Head(q) = q[1]
      /\ \A i \in DOMAIN r : i \in Nat /\ i + 1 \in DOMAIN q /\ r[i] = q[i + 1]
      /\ \A i \in DOMAIN q : i \in Nat /\ i >= 1 /\ (i > 1 => i - 1 \in DOMAIN r /\ r[i - 1] = q[i])
  BY TailOf
<1> HIDE DEF r
<1>2. Alternates(r)
  <2> SUFFICES ASSUME NEW i \in DOMAIN r, NEW j \in DOMAIN r, i < j,
                      r[i].state = "connected", r[j].state = "connected"
               PROVE  \E k \in DOMAIN r : i < k /\ k < j /\ r[k].state = "disconnected"
    BY DEF Alternates
  <2>1. i + 1 \in DOMAIN q /\ j + 1 \in DOMAIN q /\ i + 1 < j + 1
    BY <1>1
  <2>2. q[i + 1].state = "connected" /\ q[j + 1].state = "connected"
    BY <1>1
  <2>3. PICK k \in DOMAIN q : i + 1 < k /\ k < j + 1 /\ q[k].state = "disconnected"
    BY <2>1, <2>2 DEF Alternates
  <2>4. i \in Nat /\ j \in Nat /\ k \in Nat
    BY <1>1
  <2>5. k > 1 /\ i < k - 1 /\ k - 1 < j
    BY <2>3, <2>4
  <2>6. k - 1 \in DOMAIN r /\ r[k - 1] = q[k]
    BY <1>1, <2>5
  <2> QED  BY <2>3, <2>5, <2>6
<1>3. ~NoNews(q)
  BY <1>1 DEF NoNews
<1>4. EndsLast(q) => EndsLast(r)
  BY <1>1 DEF EndsLast
<1>5. ASSUME NEW p, LastUp(q, p) PROVE LastUp(r, p)
  <2>1. PICK i \in DOMAIN q : /\ q[i].state = "connected" /\ q[i].peer = p
                              /\ \A k \in DOMAIN q : i < k => q[k].state # "disconnected"
    BY <1>5 DEF LastUp
  <2>3. i > 1
    BY <2>1, <1>1
  <2> QED
    <3>1. i - 1 \in DOMAIN r /\ r[i - 1].state = "connected" /\ r[i - 1].peer = p
      BY <2>1, <2>3, <1>1
    <3>2. ASSUME NEW k \in DOMAIN r, i - 1 < k PROVE r[k].state # "disconnected"
      <4>1. k + 1 \in DOMAIN q /\ i < k + 1 /\ r[k] = q[k + 1]
        BY <3>2, <1>1
      <4> QED  BY <4>1, <2>1
    <3> QED  BY <3>1, <3>2 DEF LastUp
<1> QED  BY <1>2, <1>3, <1>4, <1>5 DEF r

(* A WRONG line is taken. *)
LEMMA TakeWrong ==
  ASSUME NEW q \in Seq(Line), q # <<>>, Head(q).state = "wrong"
  PROVE  /\ Alternates(q) => Alternates(Tail(q))
         /\ EndsFirst(q) => EndsFirst(Tail(q))
         /\ EndsLast(q) => EndsLast(Tail(q))
         /\ HasEnd(q) => HasEnd(Tail(q))
         /\ News(q) => News(Tail(q))
         /\ NoNews(q) => NoNews(Tail(q))
         /\ \A p : LastUp(q, p) => LastUp(Tail(q), p)
<1> DEFINE r == Tail(q)
<1>1. /\ 1 \in DOMAIN q /\ Head(q) = q[1]
      /\ \A i \in DOMAIN r : i \in Nat /\ i + 1 \in DOMAIN q /\ r[i] = q[i + 1]
      /\ \A i \in DOMAIN q : i \in Nat /\ i >= 1 /\ (i > 1 => i - 1 \in DOMAIN r /\ r[i - 1] = q[i])
  BY TailOf
<1> HIDE DEF r
<1>2. ASSUME Alternates(q) PROVE Alternates(r)
  <2> SUFFICES ASSUME NEW i \in DOMAIN r, NEW j \in DOMAIN r, i < j,
                      r[i].state = "connected", r[j].state = "connected"
               PROVE  \E k \in DOMAIN r : i < k /\ k < j /\ r[k].state = "disconnected"
    BY DEF Alternates
  <2>1. i + 1 \in DOMAIN q /\ j + 1 \in DOMAIN q /\ i + 1 < j + 1
    BY <1>1
  <2>2. q[i + 1].state = "connected" /\ q[j + 1].state = "connected"
    BY <1>1
  <2>3. PICK k \in DOMAIN q : i + 1 < k /\ k < j + 1 /\ q[k].state = "disconnected"
    BY <2>1, <2>2, <1>2 DEF Alternates
  <2>4. i \in Nat /\ j \in Nat /\ k \in Nat
    BY <1>1
  <2>5. k > 1 /\ i < k - 1 /\ k - 1 < j
    BY <2>3, <2>4
  <2>6. k - 1 \in DOMAIN r /\ r[k - 1] = q[k]
    BY <1>1, <2>5
  <2> QED  BY <2>3, <2>5, <2>6
<1>3. ASSUME EndsFirst(q) PROVE EndsFirst(r)
  <2> SUFFICES ASSUME NEW j \in DOMAIN r, r[j].state = "connected"
               PROVE  \E k \in DOMAIN r : k < j /\ r[k].state = "disconnected"
    BY DEF EndsFirst
  <2>1. j + 1 \in DOMAIN q /\ q[j + 1].state = "connected"
    BY <1>1
  <2>2. PICK k \in DOMAIN q : k < j + 1 /\ q[k].state = "disconnected"
    BY <2>1, <1>3 DEF EndsFirst
  <2>3. k > 1
    BY <2>2, <1>1
  <2>4. j \in Nat /\ k \in Nat
    BY <1>1
  <2>5. k - 1 < j
    BY <2>2, <2>4
  <2>6. k - 1 \in DOMAIN r /\ r[k - 1] = q[k]
    BY <1>1, <2>3
  <2> QED  BY <2>2, <2>5, <2>6
<1>4. EndsLast(q) => EndsLast(r)
  BY <1>1 DEF EndsLast
<1>5. (HasEnd(q) => HasEnd(r)) /\ (News(q) => News(r)) /\ (NoNews(q) => NoNews(r))
  BY <1>1 DEF HasEnd, News, NoNews
<1>6. ASSUME NEW p, LastUp(q, p) PROVE LastUp(r, p)
  <2>1. PICK i \in DOMAIN q : /\ q[i].state = "connected" /\ q[i].peer = p
                              /\ \A k \in DOMAIN q : i < k => q[k].state # "disconnected"
    BY <1>6 DEF LastUp
  <2>3. i > 1
    BY <2>1, <1>1
  <2> QED
    <3>1. i - 1 \in DOMAIN r /\ r[i - 1].state = "connected" /\ r[i - 1].peer = p
      BY <2>1, <2>3, <1>1
    <3>2. ASSUME NEW k \in DOMAIN r, i - 1 < k PROVE r[k].state # "disconnected"
      <4>1. k + 1 \in DOMAIN q /\ i < k + 1 /\ r[k] = q[k + 1]
        BY <3>2, <1>1
      <4> QED  BY <4>1, <2>1
    <3> QED  BY <3>1, <3>2 DEF LastUp
<1> QED  BY <1>2, <1>3, <1>4, <1>5, <1>6 DEF r

(* A command is added: what was obeyed is obeyed, and so is a DISCONNECT   *)
(* behind a CONNECT.                                                       *)
LEMMA AddOrder ==
  ASSUME NEW c \in Seq(Order), NEW x \in Order
  PROVE  /\ Obeyed(c) => Obeyed(Append(c, x))
         /\ HungUp(c) => HungUp(Append(c, x))
         /\ x.state = "connect" => Dialled(Append(c, x))
         /\ x.state = "disconnect" => HungUp(Append(c, x)) /\ (Dialled(c) => Obeyed(Append(c, x)))
<1> DEFINE r == Append(c, x)
<1>1. /\ \A i \in DOMAIN c : i \in Nat /\ i < Len(c) + 1 /\ i \in DOMAIN r /\ r[i] = c[i]
      /\ Len(c) \in Nat /\ Len(c) + 1 \in DOMAIN r /\ r[Len(c) + 1] = x
  BY AppendOf
<1> HIDE DEF r
<1>2. Obeyed(c) => Obeyed(r)
  BY <1>1 DEF Obeyed
<1>3. (HungUp(c) => HungUp(r)) /\ (x.state = "connect" => Dialled(r))
  BY <1>1 DEF Dialled, HungUp
<1>4. x.state = "disconnect" => HungUp(r) /\ (Dialled(c) => Obeyed(r))
  BY <1>1 DEF Obeyed, Dialled, HungUp
<1> QED  BY <1>2, <1>3, <1>4 DEF r

(* The TNC takes a command: the DISCONNECT behind the CONNECT it takes is  *)
(* still there, and a DISCONNECT it ignores was not the one that is obeyed.*)
LEMMA TakeOrder ==
  ASSUME NEW c \in Seq(Order), c # <<>>
  PROVE  /\ Head(c).state = "connect" /\ (Obeyed(c) \/ HungUp(c)) => HungUp(Tail(c))
         /\ Head(c).state = "disconnect" /\ Obeyed(c) => Obeyed(Tail(c))
         /\ Head(c).state = "disconnect" /\ Dialled(c) => Dialled(Tail(c))
<1> DEFINE r == Tail(c)
<1>1. /\ 1 \in DOMAIN c /\ Head(c) = c[1]
      /\ \A i \in DOMAIN c : i \in Nat /\ i >= 1 /\ (i > 1 => i - 1 \in DOMAIN r /\ r[i - 1] = c[i])
  BY TailOf
<1> HIDE DEF r
<1>2. Head(c).state = "connect" /\ (Obeyed(c) \/ HungUp(c)) => HungUp(r)
  BY <1>1 DEF Obeyed, HungUp
<1>3. ASSUME Head(c).state = "disconnect", Obeyed(c) PROVE Obeyed(r)
  <2>1. PICK i \in DOMAIN c, j \in DOMAIN c : j < i /\ c[i].state = "disconnect" /\ c[j].state = "connect"
    BY <1>3 DEF Obeyed
  <2>2. i \in Nat /\ j \in Nat /\ j # 1 /\ j >= 1
    BY <2>1, <1>1, <1>3
  <2>3. j > 1 /\ i > 1 /\ j - 1 < i - 1
    BY <2>1, <2>2
  <2>4. /\ i - 1 \in DOMAIN r /\ r[i - 1] = c[i]
        /\ j - 1 \in DOMAIN r /\ r[j - 1] = c[j]
    BY <1>1, <2>3
  <2> QED  BY <2>1, <2>3, <2>4 DEF Obeyed
<1>4. Head(c).state = "disconnect" /\ Dialled(c) => Dialled(r)
  BY <1>1 DEF Dialled
<1> QED  BY <1>2, <1>3, <1>4 DEF r

-----------------------------------------------------------------------------
(* The steps, as the invariant sees them.                                  *)

(* Neither the session nor the link nor what is under way changes. *)
Quiet ==
  /\ UNCHANGED <<drv, session, discReply, ctl, lines, link>>
  /\ \/ UNCHANGED <<bpa, lost>> /\ (sock' => sock)
     \/ UNCHANGED sock /\ bpa' = {} /\ ~Registered'
     \/ UNCHANGED sock /\ RemovePeer(session.peer) /\ ~sock

(* The session loop is left. *)
Left ==
  /\ drv' \in {"offline", "stopped"} /\ UNCHANGED <<lines, link>> /\ session' = Down
  /\ \/ UNCHANGED <<ctl, bpa>> /\ (lost' = IF session.state = "connected" THEN lost \cup ({session.peer} \cap bpa) ELSE lost)
     \/ /\ ctl' = IF session.state = "connected" THEN Append(ctl, In("disconnect", "")) ELSE ctl
        /\ bpa' = IF session.state = "connected" THEN bpa \ {session.peer} ELSE bpa
        /\ UNCHANGED lost

(* The driver asks the TNC for a link, or to end the one there is. *)
Dial ==
  /\ drv = "online" /\ session = Down /\ cmds # <<>> /\ Head(cmds).op = "connect"
  /\ ctl' = Append(ctl, In("connect", Head(cmds).peer))
  /\ session' = In("connecting", Head(cmds).peer)
  /\ UNCHANGED <<drv, discReply, lines, link, sock, bpa, lost>>

HangUp ==
  /\ drv = "online" /\ session.state \in {"connected", "connecting"}
  /\ RemovePeer(session.peer)
  /\ ctl' = Append(ctl, In("disconnect", "")) /\ session' = In("disconnecting", "")
  /\ UNCHANGED <<drv, lines, link, sock>>

(* The TNC's radio link changes and the driver is told. *)
LinkUp(p) ==
  /\ sock /\ link.state # "up" /\ p \in Peers
  /\ link' = In("up", p) /\ Emit("connected", p)
  /\ UNCHANGED <<drv, session, discReply, ctl, sock, bpa, lost>>

LinkEnds ==
  /\ sock /\ link.state # "idle" /\ link' = In("idle", "") /\ Emit("disconnected", "")
  /\ UNCHANGED <<drv, session, discReply, ctl, sock, bpa, lost>>

(* Every step is one of these. *)
LEMMA StepCases ==
  ASSUME Shape, [Next]_vars
  PROVE  \/ Quiet \/ Left \/ Online \/ Dial \/ HangUp
         \/ ConnectedLine \/ DisconnectedLine \/ WrongLine
         \/ TncCommand \/ LinkEnds \/ \E p \in Peers : LinkUp(p)
<1> USE DEF driverVars, tncVars
<1>1. CASE UNCHANGED vars
  BY <1>1 DEF vars, Quiet
<1>2. CASE OfflineCommand
  BY <1>2 DEF OfflineCommand, Quiet
<1>3. CASE ConnectCommand
  BY <1>3 DEF ConnectCommand, Take, Quiet, Dial
<1>4. CASE DisconnectCommand
  BY <1>4 DEF DisconnectCommand, Quiet, HangUp
<1>5. CASE ForwardCommand
  BY <1>5 DEF ForwardCommand, LeaveSession, Quiet, Left
<1>6. CASE ShutdownCommand
  BY <1>6 DEF ShutdownCommand, Left
<1>7. CASE WriteBundle
  BY <1>7 DEF WriteBundle, Quiet
<1>8. CASE IdleTick
  BY <1>8 DEF IdleTick, HangUp
<1>9. CASE ConnectionClosed
  BY <1>9 DEF ConnectionClosed, LeaveSession, Left
<1>10. CASE CoordinatorStep
  BY <1>10 DEF CoordinatorStep, StartContact, ConnectTimeout, EndContact, CoordinatorCancelled, Quiet
<1>11. CASE TncCallEnds
  BY <1>11 DEF TncCallEnds, LinkUp, LinkEnds, Shape
<1>12. CASE TncLinkLost
  BY <1>12 DEF TncLinkLost, LinkEnds
<1>13. CASE TncGone
  BY <1>13 DEF TncGone, Quiet
<1>14. ASSUME NEW p \in Peers, TncCalled(p) PROVE LinkUp(p)
  BY <1>14 DEF TncCalled, LinkUp
<1>15. CASE Unregister
  <2> DEFINE c == [op |-> "shutdown", peer |-> "", n |-> 0]
  <2>1. cmds \in Seq(Command) /\ c \in Command /\ c.op = "shutdown"
    BY DEF Shape, Command, Names
  <2>2. cmds' = Append(cmds, c)
    BY <1>15 DEF Unregister
  <2> HIDE DEF c
  <2>3. Len(cmds) + 1 \in DOMAIN cmds' /\ cmds'[Len(cmds) + 1].op = "shutdown"
    BY <2>1, <2>2, AppendOf
  <2>4. ~Registered'
    BY <2>3 DEF Registered
  <2> QED  BY <1>15, <2>4 DEF Unregister, Quiet
<1>16. ASSUME NEW b \in Bundles, Forward(b) PROVE Quiet
  BY <1>16 DEF Forward, Quiet
<1> QED
  BY <1>1, <1>2, <1>3, <1>4, <1>5, <1>6, <1>7, <1>8, <1>9, <1>10, <1>11, <1>12, <1>13, <1>14, <1>15, <1>16
  DEF Next, DriverStep, TncStep

(* A CLA that was unregistered, or whose driver ended, stays so. *)
LEMMA RegisteredStep ==
  ASSUME Shape, [Next]_vars, Registered'
  PROVE  Registered
<1> USE DEF driverVars, tncVars
<1>1. cmds \in Seq(Command)
  BY DEF Shape
<1>2. CASE drv' = drv /\ (cmds' = cmds \/ \E c \in Command : cmds' = Append(cmds, c))
  <2>1. \A i \in DOMAIN cmds : i \in DOMAIN cmds' /\ cmds'[i] = cmds[i]
    BY <1>1, <1>2, AppendOf
  <2> QED  BY <2>1, <1>2 DEF Registered
<1>3. CASE drv # "stopped" /\ cmds' = cmds
  BY <1>3 DEF Registered
<1>4. CASE drv # "stopped" /\ \E op \in {"connect", "disconnect", "forward"} : Take(op)
  <2>1. cmds # <<>> /\ cmds' = Tail(cmds) /\ Head(cmds).op # "shutdown"
    BY <1>4 DEF Take
  <2>2. /\ 1 \in DOMAIN cmds /\ Head(cmds) = cmds[1]
        /\ \A i \in DOMAIN cmds : i \in Nat /\ i >= 1 /\ (i > 1 => i - 1 \in DOMAIN cmds' /\ cmds'[i - 1] = cmds[i])
    BY <1>1, <2>1, TailOf
  <2>3. ASSUME NEW i \in DOMAIN cmds PROVE cmds[i].op # "shutdown"
    <3>1. CASE i = 1
      BY <3>1, <2>1, <2>2
    <3>2. CASE i > 1
      BY <3>2, <2>2 DEF Registered
    <3> QED  BY <3>1, <3>2, <2>2
  <2> QED  BY <2>3, <1>4 DEF Registered
<1>5. CASE UNCHANGED vars \/ TncStep \/ WriteBundle
  BY <1>2, <1>5 DEF vars, TncStep, TncCommand, TncCallEnds, TncLinkLost, TncGone, TncCalled, WriteBundle
<1>6. CASE CoordinatorStep
  <2>1. ASSUME NEW p \in Peers, StartContact(p) PROVE Registered
    BY <2>1 DEF StartContact
  <2>2. ASSUME NEW phase, EndContact(phase) PROVE Registered
    <3>1. drv' = drv /\ (Registered \/ cmds' = cmds)
      BY <2>2 DEF EndContact
    <3> QED  BY <3>1, <1>2
  <2> QED  BY <1>2, <1>6, <2>1, <2>2 DEF CoordinatorStep, ConnectTimeout, CoordinatorCancelled
<1>7. CASE Unregister \/ \E b \in Bundles : Forward(b)
  BY <1>7 DEF Unregister, Forward
<1>8. CASE Online \/ IdleTick \/ ConnectedLine \/ DisconnectedLine \/ WrongLine \/ ConnectionClosed
  BY <1>3, <1>8 DEF Online, IdleTick, ConnectedLine, DisconnectedLine, WrongLine, ConnectionClosed
<1>9. CASE OfflineCommand \/ ConnectCommand \/ DisconnectCommand \/ ForwardCommand
  BY <1>4, <1>9 DEF OfflineCommand, ConnectCommand, DisconnectCommand, ForwardCommand
<1>10. CASE ShutdownCommand
  BY <1>10 DEF ShutdownCommand, Registered
<1> QED
  BY <1>5, <1>6, <1>7, <1>8, <1>9, <1>10 DEF Next, DriverStep

(* Whatever it is answered, the coordinator only changes its phase. *)
LEMMA Answered ==
  ASSUME coord \in Coordinator
  PROVE  /\ \A n : ConnectAnswered(n, TRUE) \in Coordinator /\ ConnectAnswered(n, FALSE) \in Coordinator
         /\ \A n, p : ConnectAnswered(n, Connected(p)) \in Coordinator
         /\ DisconnectAnswered \in Coordinator /\ AllAnswered \in Coordinator
<1>1. \A x \in Phases : [coord EXCEPT !.phase = x] \in Coordinator
  BY DEF Coordinator
<1>2. {"waiting", "contact", "stopped"} \subseteq Phases
  BY DEF Phases
<1>3. ASSUME NEW n PROVE ConnectAnswered(n, TRUE) \in Coordinator /\ ConnectAnswered(n, FALSE) \in Coordinator
  BY <1>1, <1>2 DEF ConnectAnswered
<1>4. ASSUME NEW n, NEW p PROVE ConnectAnswered(n, Connected(p)) \in Coordinator
  <2>1. CASE Connected(p)
    BY <1>1, <1>2, <2>1 DEF ConnectAnswered
  <2>2. CASE ~Connected(p)
    BY <1>1, <1>2, <2>2 DEF ConnectAnswered
  <2> QED  BY <2>1, <2>2
<1>5. DisconnectAnswered \in Coordinator
  BY <1>1, <1>2 DEF DisconnectAnswered
<1> QED  BY <1>3, <1>4, <1>5 DEF AllAnswered

(* The channel to the driver, and the coordinator behind it, keep their shape. *)
LEMMA CommandStep ==
  ASSUME Shape, [Next]_vars
  PROVE  /\ cmds' \in Seq(Command)
         /\ \A i \in DOMAIN cmds' : cmds'[i].op = "connect" => cmds'[i].peer \in Peers
         /\ coord' \in Coordinator
<1> USE DEF driverVars, tncVars
<1> DEFINE Sound(q) == q \in Seq(Command) /\ \A i \in DOMAIN q : q[i].op = "connect" => q[i].peer \in Peers
<1>1. Sound(cmds) /\ coord \in Coordinator
  BY DEF Shape
<1>2. ASSUME NEW c \in Command, c.op = "connect" => c.peer \in Peers PROVE Sound(Append(cmds, c))
  <2> DEFINE r == Append(cmds, c)
  <2>1. r \in Seq(Command)
    BY <1>1
  <2>2. ASSUME NEW i \in DOMAIN r PROVE (i \in DOMAIN cmds /\ r[i] = cmds[i]) \/ r[i] = c
    BY <1>1, AppendOf
  <2> QED  BY <2>1, <2>2, <1>1, <1>2
<1>3. cmds # <<>> => Sound(Tail(cmds))
  BY <1>1, TailOf
<1>4. \A op : Take(op) => Sound(cmds')
  BY <1>3 DEF Take
<1>5. SUFFICES Sound(cmds') /\ coord' \in Coordinator
  OBVIOUS
<1> HIDE DEF Sound
<1>6. /\ \A n : ConnectAnswered(n, TRUE) \in Coordinator /\ ConnectAnswered(n, FALSE) \in Coordinator
      /\ \A n, p : ConnectAnswered(n, Connected(p)) \in Coordinator
      /\ DisconnectAnswered \in Coordinator /\ AllAnswered \in Coordinator
  BY <1>1, Answered
<1>7. \A x \in Phases : [coord EXCEPT !.phase = x] \in Coordinator
  BY <1>1 DEF Coordinator
<1>8. CASE UNCHANGED <<cmds, coord>>
  BY <1>1, <1>8
<1>9. CASE \E p \in Peers : StartContact(p)
  <2>1. PICK p \in Peers : StartContact(p)
    BY <1>9
  <2> DEFINE c == [op |-> "connect", peer |-> p, n |-> coord.n + 1]
  <2>2. coord.n \in Nat /\ coord.n + 1 \in Nat
    BY <1>1 DEF Coordinator
  <2>3. c \in Command /\ c.peer \in Peers
    BY <2>2 DEF Command, Names
  <2>4. Sound(cmds')
    <3>1. cmds' = Append(cmds, c)
      BY <2>1 DEF StartContact
    <3> QED  BY <3>1, <2>3, <1>2
  <2>5. coord' \in Coordinator
    BY <2>1, <2>2 DEF StartContact, Names, Coordinator, Phases
  <2> QED  BY <2>4, <2>5
<1>10. CASE \E phase \in {"ending", "finishing"} : EndContact(phase)
  <2> DEFINE c == [op |-> "disconnect", peer |-> "", n |-> 0]
  <2>1. c \in Command /\ c.op # "connect"
    BY DEF Command, Names
  <2>2. cmds' = Append(cmds, c) \/ cmds' = cmds
    BY <1>10 DEF EndContact
  <2>3. Sound(cmds')
    BY <2>1, <2>2, <1>1, <1>2
  <2>4. coord' \in Coordinator
    BY <1>7, <1>10 DEF EndContact, Phases
  <2> QED  BY <2>3, <2>4
<1>11. CASE ConnectTimeout \/ CoordinatorCancelled
  BY <1>1, <1>7, <1>11 DEF ConnectTimeout, CoordinatorCancelled, Phases
<1>12. CASE \E b \in Bundles : Forward(b)
  <2>1. PICK b \in Bundles : Forward(b)
    BY <1>12
  <2> DEFINE c == [op |-> "forward", peer |-> b, n |-> 0]
  <2>2. c \in Command /\ c.op # "connect"
    BY DEF Command
  <2>3. cmds' = Append(cmds, c) /\ coord' = coord
    BY <2>1 DEF Forward
  <2> QED  BY <2>2, <2>3, <1>1, <1>2
<1>13. CASE Unregister
  <2> DEFINE c == [op |-> "shutdown", peer |-> "", n |-> 0]
  <2>1. c \in Command /\ c.op # "connect"
    BY DEF Command, Names
  <2>2. cmds' = Append(cmds, c) /\ coord' = coord
    BY <1>13 DEF Unregister
  <2> QED  BY <2>1, <2>2, <1>1, <1>2
<1>14. CASE Online \/ IdleTick \/ WriteBundle \/ TncStep \/ UNCHANGED vars
  BY <1>8, <1>14 DEF Online, IdleTick, WriteBundle, TncStep, TncCommand, TncCallEnds, TncLinkLost, TncGone, TncCalled, vars
<1>15. CASE OfflineCommand \/ ConnectCommand \/ DisconnectCommand
  BY <1>1, <1>4, <1>6, <1>15 DEF OfflineCommand, ConnectCommand, DisconnectCommand
<1>16. CASE ForwardCommand \/ ShutdownCommand
  BY <1>1, <1>4, <1>6, <1>16 DEF ForwardCommand, ShutdownCommand, LeaveSession
<1>17. CASE ConnectedLine \/ DisconnectedLine \/ WrongLine \/ ConnectionClosed
  BY <1>1, <1>6, <1>17 DEF ConnectedLine, DisconnectedLine, WrongLine, ConnectionClosed, LeaveSession
<1> QED
  BY <1>9, <1>10, <1>11, <1>12, <1>13, <1>14, <1>15, <1>16, <1>17 DEF Next, DriverStep, CoordinatorStep
(* The shapes are kept. *)
LEMMA ShapeStep ==
  ASSUME Shape, [Next]_vars
  PROVE  Shape'
<1> DEFINE Heard(q) == q \in Seq(Line) /\ \A i \in DOMAIN q : q[i].state = "connected" => q[i].peer \in Peers
           Told(c) == c \in Seq(Order) /\ \A i \in DOMAIN c : c[i].state = "connect" => c[i].peer \in Peers
           Drv(d) == d \in {"offline", "online", "stopped"}
           Sess(t) == /\ t \in [state : {"disconnected", "connecting", "connected", "disconnecting"}, peer : Names]
                      /\ t.state = "connected" => t.peer \in Peers
           Lnk(t) == /\ t \in [state : {"idle", "calling", "up"}, peer : Names]
                     /\ t.state # "idle" => t.peer \in Peers
<1>1. Heard(lines) /\ Told(ctl) /\ Drv(drv) /\ Sess(session) /\ Lnk(link)
  BY DEF Shape
<1>2. SUFFICES Heard(lines') /\ Told(ctl') /\ Drv(drv') /\ Sess(session') /\ Lnk(link')
  BY CommandStep DEF Shape
<1>3. ASSUME NEW p \in Names, NEW t \in {"connected", "disconnected", "wrong"}, t = "connected" => p \in Peers
      PROVE  Heard(Append(lines, In(t, p)))
  <2> DEFINE x == In(t, p)
             r == Append(lines, x)
  <2>1. x \in Line /\ x.state = t /\ x.peer = p
    BY DEF Line, In
  <2> HIDE DEF x
  <2>2. r \in Seq(Line)
    BY <1>1, <2>1
  <2>3. ASSUME NEW i \in DOMAIN r PROVE (i \in DOMAIN lines /\ r[i] = lines[i]) \/ r[i] = x
    BY <1>1, <2>1, AppendOf
  <2>4. Heard(r)
    BY <2>1, <2>2, <2>3, <1>1, <1>3
  <2> QED  BY <2>4 DEF x
<1>4. ASSUME NEW p \in Names, NEW t \in {"connect", "disconnect"}, t = "connect" => p \in Peers
      PROVE  Told(Append(ctl, In(t, p)))
  <2> DEFINE x == In(t, p)
             r == Append(ctl, x)
  <2>1. x \in Order /\ x.state = t /\ x.peer = p
    BY DEF Order, In
  <2> HIDE DEF x
  <2>2. r \in Seq(Order)
    BY <1>1, <2>1
  <2>3. ASSUME NEW i \in DOMAIN r PROVE (i \in DOMAIN ctl /\ r[i] = ctl[i]) \/ r[i] = x
    BY <1>1, <2>1, AppendOf
  <2>4. Told(r)
    BY <2>1, <2>2, <2>3, <1>1, <1>4
  <2> QED  BY <2>4 DEF x
<1>5. lines # <<>> => Heard(Tail(lines)) /\ (Head(lines).state = "connected" => Head(lines).peer \in Peers)
  BY <1>1, TailOf
<1>6. ctl # <<>> => Told(Tail(ctl)) /\ (Head(ctl).state = "connect" => Head(ctl).peer \in Peers)
  BY <1>1, TailOf
<1>7. Heard(<<>>) /\ Told(<<>>) /\ "" \in Names
  BY DEF Names
<1>8. \A p \in Peers : p \in Names /\ Sess(In("connecting", p)) /\ Sess(In("connected", p)) /\ Lnk(In("calling", p)) /\ Lnk(In("up", p))
  BY DEF In, Names
<1>9. Sess(Down) /\ Sess(In("disconnecting", "")) /\ Lnk(In("idle", ""))
  BY DEF In, Down, Names
<1>10. cmds # <<>> /\ Head(cmds).op = "connect" => Head(cmds).peer \in Peers
  BY TailOf DEF Shape
<1> HIDE DEF Heard, Told, Drv, Sess, Lnk
<1>11. CASE Quiet
  BY <1>1, <1>11 DEF Quiet
<1>12. CASE Left
  <2>1. Drv(drv')
    BY <1>12 DEF Left, Drv
  <2> QED  BY <2>1, <1>1, <1>4, <1>7, <1>9, <1>12 DEF Left
<1>13. CASE Online
  BY <1>7, <1>9, <1>13 DEF Online, Drv
<1>14. CASE Dial \/ HangUp
  BY <1>1, <1>4, <1>7, <1>8, <1>9, <1>10, <1>14 DEF Dial, HangUp
<1>15. CASE ConnectedLine \/ DisconnectedLine \/ WrongLine
  BY <1>1, <1>5, <1>8, <1>9, <1>15 DEF ConnectedLine, DisconnectedLine, WrongLine
<1>16. CASE TncCommand
  <2>1. Heard(lines') /\ Told(ctl') /\ Lnk(link')
    BY <1>1, <1>3, <1>6, <1>7, <1>8, <1>9, <1>16 DEF TncCommand, Emit
  <2> QED  BY <2>1, <1>1, <1>16 DEF TncCommand, driverVars
<1>17. CASE LinkEnds \/ \E p \in Peers : LinkUp(p)
  <2>1. Heard(lines') /\ Lnk(link')
    BY <1>3, <1>7, <1>8, <1>9, <1>17 DEF LinkEnds, LinkUp, Emit
  <2> QED  BY <2>1, <1>1, <1>17 DEF LinkEnds, LinkUp
<1> QED  BY <1>11, <1>12, <1>13, <1>14, <1>15, <1>16, <1>17, StepCases

-----------------------------------------------------------------------------
(* The lines on their way go on leading from the session to the link. *)
LEMMA LineStep ==
  ASSUME Shape, LineInv, [Next]_vars
  PROVE  LineInv'
<1> USE DEF driverVars, tncVars
<1>1. /\ lines \in Seq(Line) /\ "" \in Names
      /\ session.state \in {"disconnected", "connecting", "connected", "disconnecting"}
      /\ link.state \in {"idle", "calling", "up"}
  BY DEF Shape, Names
<1>2. \A t, p : In(t, p).state = t /\ In(t, p).peer = p
  BY DEF In
<1>3. \A p \in Names, t \in {"connected", "disconnected", "wrong"} : In(t, p) \in Line
  BY DEF In, Line
<1>4. CASE Quiet
  BY <1>4 DEF Quiet, LineInv
<1>5. CASE Left
  BY <1>5 DEF Left, LineInv
<1>6. CASE Online
  <2>1. lines' = <<>> /\ link'.state = "idle" /\ session'.state = "disconnected"
    BY <1>6 DEF Online, In, Down
  <2> QED  BY <2>1 DEF LineInv, Alternates, EndsLast
<1>7. CASE Dial
  <2>1. session.state = "disconnected" /\ session'.state = "connecting"
    BY <1>7 DEF Dial, Down, In
  <2> QED  BY <2>1, <1>7 DEF Dial, LineInv
<1>8. CASE HangUp
  <2>1. session'.state = "disconnecting"
    BY <1>8 DEF HangUp, In
  <2> QED  BY <2>1, <1>8 DEF HangUp, LineInv
<1>9. CASE ConnectedLine
  <2>1. /\ drv = "online" /\ lines # <<>> /\ Head(lines).state = "connected" /\ lines' = Tail(lines)
        /\ session'.state = "connected" /\ session'.peer = Head(lines).peer /\ link' = link
    BY <1>9 DEF ConnectedLine, In
  <2>2. Alternates(lines)
    BY <2>1 DEF LineInv
  <2>3. /\ Alternates(lines') /\ EndsFirst(lines') /\ ~NoNews(lines)
        /\ EndsLast(lines) => EndsLast(lines') /\ HasEnd(lines')
        /\ \A p : LastUp(lines, p) => LastUp(lines', p) \/ (NoNews(lines') /\ Head(lines).peer = p)
    BY <1>1, <2>1, <2>2, TakeUp
  <2> QED  BY <2>1, <2>3 DEF LineInv
<1>10. CASE DisconnectedLine
  <2>1. /\ drv = "online" /\ lines # <<>> /\ Head(lines).state = "disconnected" /\ lines' = Tail(lines)
        /\ session'.state = "disconnected" /\ link' = link
    BY <1>10 DEF DisconnectedLine, Down
  <2>2. Alternates(lines)
    BY <2>1 DEF LineInv
  <2>3. /\ Alternates(lines') /\ ~NoNews(lines)
        /\ EndsLast(lines) => EndsLast(lines')
        /\ \A p : LastUp(lines, p) => LastUp(lines', p)
    BY <1>1, <2>1, <2>2, TakeEnd
  <2> QED  BY <2>1, <2>3 DEF LineInv
<1>11. CASE WrongLine
  <2>1. /\ drv = "online" /\ lines # <<>> /\ Head(lines).state = "wrong" /\ lines' = Tail(lines)
        /\ session' = session /\ link' = link
    BY <1>11 DEF WrongLine
  <2>2. /\ Alternates(lines) => Alternates(lines')
        /\ EndsFirst(lines) => EndsFirst(lines')
        /\ EndsLast(lines) => EndsLast(lines')
        /\ HasEnd(lines) => HasEnd(lines')
        /\ NoNews(lines) => NoNews(lines')
        /\ \A p : LastUp(lines, p) => LastUp(lines', p)
    BY <1>1, <2>1, TakeWrong
  <2> QED  BY <2>1, <2>2 DEF LineInv
<1>12. ASSUME drv = "online", drv' = drv, session' = session, Emit("disconnected", ""), link'.state = "idle"
       PROVE  LineInv'
  <2> DEFINE x == In("disconnected", "")
  <2>1. x \in Line /\ x.state = "disconnected" /\ lines' = Append(lines, x)
    BY <1>1, <1>2, <1>3, <1>12 DEF Emit
  <2>2. Alternates(lines)
    BY <1>12 DEF LineInv
  <2> HIDE DEF x
  <2>3. /\ Alternates(lines') /\ EndsLast(lines') /\ HasEnd(lines')
        /\ EndsFirst(lines) => EndsFirst(lines')
    BY <1>1, <2>1, <2>2, AddEnd
  <2> QED  BY <1>12, <2>3 DEF LineInv
<1>13. CASE TncCommand
  <2>1. drv' = drv /\ session' = session
    BY <1>13 DEF TncCommand
  <2>2. CASE link' = link /\ lines' = lines
    BY <2>1, <2>2 DEF LineInv
  <2>3. CASE link.state = "idle" /\ link'.state = "calling" /\ lines' = lines
    BY <2>1, <2>3 DEF LineInv
  <2>4. CASE link' = link /\ Emit("wrong", "")
    <3> DEFINE x == In("wrong", "")
    <3>1. x \in Line /\ x.state = "wrong" /\ lines' = Append(lines, x)
      BY <1>1, <1>2, <1>3, <2>4 DEF Emit
    <3> HIDE DEF x
    <3>2. /\ Alternates(lines) => Alternates(lines')
          /\ EndsFirst(lines) => EndsFirst(lines')
          /\ EndsLast(lines) => EndsLast(lines')
          /\ HasEnd(lines) => HasEnd(lines')
          /\ NoNews(lines) => NoNews(lines')
          /\ \A p : LastUp(lines, p) => LastUp(lines', p)
      BY <1>1, <3>1, AddWrong
    <3> QED  BY <2>1, <2>4, <3>2 DEF LineInv
  <2>5. CASE Emit("disconnected", "") /\ link' = In("idle", "")
    <3>1. CASE drv = "online"
      BY <1>2, <1>12, <2>1, <2>5, <3>1
    <3>2. CASE drv # "online"
      BY <2>1, <3>2 DEF LineInv
    <3> QED  BY <3>1, <3>2
  <2> QED  BY <1>2, <1>13, <2>2, <2>3, <2>4, <2>5 DEF TncCommand
<1>14. CASE LinkEnds
  <2>1. CASE drv = "online"
    BY <1>2, <1>12, <1>14, <2>1 DEF LinkEnds
  <2>2. CASE drv # "online"
    BY <1>14, <2>2 DEF LinkEnds, LineInv
  <2> QED  BY <2>1, <2>2
<1>15. ASSUME NEW p \in Peers, LinkUp(p) PROVE LineInv'
  <2> DEFINE x == In("connected", p)
  <2>1. x \in Line /\ x.state = "connected" /\ x.peer = p /\ lines' = Append(lines, x)
    BY <1>2, <1>3, <1>15 DEF Emit, LinkUp, Names
  <2>2. link.state # "up" /\ link'.state = "up" /\ link'.peer = p /\ drv' = drv /\ session' = session
    BY <1>2, <1>15 DEF LinkUp
  <2>3. CASE drv = "online"
    <3>1. Alternates(lines) /\ EndsLast(lines)
      BY <2>2, <2>3 DEF LineInv
    <3> HIDE DEF x
    <3>2. /\ Alternates(lines') /\ LastUp(lines', p)
          /\ EndsFirst(lines) /\ HasEnd(lines) => EndsFirst(lines')
      BY <1>1, <2>1, <3>1, AddUp
    <3> QED  BY <2>2, <2>3, <3>2 DEF LineInv
  <2>4. CASE drv # "online"
    BY <2>2, <2>4 DEF LineInv
  <2> QED  BY <2>3, <2>4
<1> QED
  BY <1>4, <1>5, <1>6, <1>7, <1>8, <1>9, <1>10, <1>11, <1>13, <1>14, <1>15, StepCases

(* A session in transition keeps its answer on its way. *)
LEMMA AnswerStep ==
  ASSUME Shape, LineInv, AnswerInv, [Next]_vars
  PROVE  AnswerInv'
<1> USE DEF driverVars, tncVars
<1>1. /\ lines \in Seq(Line) /\ ctl \in Seq(Order) /\ "" \in Names
      /\ session.state \in {"disconnected", "connecting", "connected", "disconnecting"}
      /\ link.state \in {"idle", "calling", "up"}
  BY DEF Shape, Names
<1>2. \A t, p : In(t, p).state = t /\ In(t, p).peer = p
  BY DEF In
<1>3. /\ \A p \in Names, t \in {"connected", "disconnected", "wrong"} : In(t, p) \in Line
      /\ \A p \in Names, t \in {"connect", "disconnect"} : In(t, p) \in Order
  BY DEF In, Line, Order
<1>4. CASE Quiet
  BY <1>4 DEF Quiet, AnswerInv
<1>5. CASE Left
  BY <1>5 DEF Left, AnswerInv
<1>6. CASE Online
  <2>1. session'.state = "disconnected" /\ discReply' = FALSE
    BY <1>6 DEF Online, Down
  <2> QED  BY <2>1 DEF AnswerInv
<1>7. CASE Dial
  <2> DEFINE x == In("connect", Head(cmds).peer)
  <2>1. x \in Order /\ x.state = "connect" /\ ctl' = Append(ctl, x)
    <3>1. cmds \in Seq(Command) /\ cmds # <<>> /\ Head(cmds).op = "connect"
      BY <1>7 DEF Dial, Shape
    <3>2. 1 \in DOMAIN cmds /\ Head(cmds) = cmds[1]
      BY <3>1
    <3>3. Head(cmds).peer \in Names
      BY <3>1, <3>2 DEF Shape, Names
    <3> QED  BY <3>3, <1>2, <1>3, <1>7 DEF Dial
  <2> HIDE DEF x
  <2>2. Dialled(ctl') /\ (Obeyed(ctl) => Obeyed(ctl')) /\ (HungUp(ctl) => HungUp(ctl'))
    BY <1>1, <2>1, AddOrder
  <2>3. session.state = "disconnected" /\ session'.state = "connecting"
    BY <1>2, <1>7 DEF Dial, Down
  <2> QED  BY <2>2, <2>3, <1>7 DEF Dial, AnswerInv
<1>8. CASE HangUp
  <2> DEFINE x == In("disconnect", "")
  <2>1. x \in Order /\ x.state = "disconnect" /\ ctl' = Append(ctl, x)
    BY <1>1, <1>2, <1>3, <1>8 DEF HangUp
  <2> HIDE DEF x
  <2>2. HungUp(ctl') /\ (Dialled(ctl) => Obeyed(ctl'))
    BY <1>1, <2>1, AddOrder
  <2>3. /\ session.state \in {"connected", "connecting"} /\ session'.state = "disconnecting"
        /\ drv = "online" /\ link' = link /\ lines' = lines
    BY <1>2, <1>8 DEF HangUp
  <2>4. link.state # "idle" \/ Dialled(ctl) \/ HasEnd(lines)
    <3>1. CASE session.state = "connected"
      BY <2>3, <3>1 DEF LineInv
    <3>2. CASE session.state = "connecting"
      <4>1. Dialled(ctl) \/ link.state = "calling" \/ News(lines)
        BY <2>3, <3>2 DEF AnswerInv
      <4>2. EndsLast(lines) /\ News(lines) => HasEnd(lines)
        BY DEF EndsLast, News, HasEnd
      <4>3. link.state = "idle" => EndsLast(lines)
        BY <2>3 DEF LineInv
      <4> QED  BY <4>1, <4>2, <4>3
    <3> QED  BY <2>3, <3>1, <3>2
  <2> QED  BY <2>2, <2>3, <2>4 DEF AnswerInv
<1>9. CASE ConnectedLine
  <2>1. /\ drv = "online" /\ lines # <<>> /\ Head(lines).state = "connected" /\ lines' = Tail(lines)
        /\ session'.state = "connected" /\ UNCHANGED <<link, ctl, discReply>>
    BY <1>2, <1>9 DEF ConnectedLine
  <2>2. Alternates(lines)
    BY <2>1 DEF LineInv
  <2>3. HasEnd(lines) => HasEnd(lines')
    BY <1>1, <2>1, <2>2, TakeUp
  <2> QED  BY <2>1, <2>3 DEF AnswerInv
<1>10. CASE DisconnectedLine
  <2>1. session'.state = "disconnected" /\ discReply' = FALSE
    BY <1>10 DEF DisconnectedLine, Down
  <2> QED  BY <2>1 DEF AnswerInv
<1>11. CASE WrongLine
  <2>1. /\ lines # <<>> /\ Head(lines).state = "wrong" /\ lines' = Tail(lines)
        /\ UNCHANGED <<drv, session, link, ctl, discReply>>
    BY <1>11 DEF WrongLine
  <2>2. (HasEnd(lines) => HasEnd(lines')) /\ (News(lines) => News(lines'))
    BY <1>1, <2>1, TakeWrong
  <2> QED  BY <2>1, <2>2 DEF AnswerInv
<1>12. ASSUME UNCHANGED <<drv, session, discReply>>, Emit("disconnected", "")
       PROVE  AnswerInv'
  <2> DEFINE x == In("disconnected", "")
  <2>1. x \in Line /\ x.state = "disconnected" /\ lines' = Append(lines, x)
    BY <1>1, <1>2, <1>3, <1>12 DEF Emit
  <2> HIDE DEF x
  <2>2. HasEnd(lines') /\ News(lines')
    BY <1>1, <2>1, AddNews
  <2> QED  BY <2>2 DEF AnswerInv
<1>13. CASE TncCommand
  <2>1. /\ UNCHANGED <<drv, session, discReply>> /\ ctl # <<>> /\ ctl' = Tail(ctl)
    BY <1>13 DEF TncCommand
  <2>2. /\ Head(ctl).state = "connect" /\ (Obeyed(ctl) \/ HungUp(ctl)) => HungUp(ctl')
        /\ Head(ctl).state = "disconnect" /\ Obeyed(ctl) => Obeyed(ctl')
        /\ Head(ctl).state = "disconnect" /\ Dialled(ctl) => Dialled(ctl')
        /\ Head(ctl).state \in {"connect", "disconnect"}
    <3>1. Head(ctl) \in Order
      BY <1>1, <2>1, TailOf
    <3> QED  BY <1>1, <2>1, <3>1, TakeOrder DEF Order
  <2>3. CASE Emit("disconnected", "")
    BY <1>12, <2>1, <2>3
  <2>4. CASE Head(ctl).state = "disconnect" /\ link.state = "idle" /\ UNCHANGED <<link, lines>>
    BY <2>1, <2>2, <2>4 DEF AnswerInv
  <2>5. CASE Head(ctl).state = "connect" /\ link'.state = "calling" /\ UNCHANGED lines
    BY <2>1, <2>2, <2>5 DEF AnswerInv
  <2>6. CASE Head(ctl).state = "connect" /\ link.state # "idle" /\ link' = link /\ Emit("wrong", "")
    <3> DEFINE x == In("wrong", "")
    <3>1. x \in Line /\ x.state = "wrong" /\ lines' = Append(lines, x)
      BY <1>1, <1>2, <1>3, <2>6 DEF Emit
    <3> HIDE DEF x
    <3>2. (HasEnd(lines) => HasEnd(lines')) /\ (News(lines) => News(lines'))
      BY <1>1, <3>1, AddWrong
    <3>3. drv = "online" /\ session.state = "connecting" /\ link.state = "up" => News(lines)
      BY DEF LineInv, LastUp, News
    <3> QED  BY <1>1, <2>1, <2>2, <2>6, <3>2, <3>3 DEF AnswerInv
  <2>7. \/ Emit("disconnected", "")
        \/ Head(ctl).state # "connect" /\ link.state = "idle" /\ UNCHANGED <<link, lines>>
        \/ Head(ctl).state = "connect" /\ link' = In("calling", Head(ctl).peer) /\ UNCHANGED lines
        \/ Head(ctl).state = "connect" /\ link.state # "idle" /\ link' = link /\ Emit("wrong", "")
    BY <1>13 DEF TncCommand
  <2> QED  BY <1>2, <2>2, <2>3, <2>4, <2>5, <2>6, <2>7
<1>14. CASE LinkEnds
  BY <1>12, <1>14 DEF LinkEnds
<1>15. ASSUME NEW p \in Peers, LinkUp(p) PROVE AnswerInv'
  <2> DEFINE x == In("connected", p)
  <2>1. x \in Line /\ x.state = "connected" /\ lines' = Append(lines, x)
    BY <1>2, <1>3, <1>15 DEF Emit, LinkUp, Names
  <2>2. link'.state = "up" /\ UNCHANGED <<drv, session, discReply, ctl>>
    BY <1>2, <1>15 DEF LinkUp
  <2> HIDE DEF x
  <2>3. News(lines') /\ (HasEnd(lines) => HasEnd(lines'))
    BY <1>1, <2>1, AddNews
  <2> QED  BY <2>2, <2>3 DEF AnswerInv
<1> QED
  BY <1>4, <1>5, <1>6, <1>7, <1>8, <1>9, <1>10, <1>11, <1>13, <1>14, <1>15, StepCases

-----------------------------------------------------------------------------
(* The peer the session is connected to, if any. *)
LEMMA CurrentIs ==
  Shape => Current = IF drv = "online" /\ session.state = "connected" THEN {session.peer} ELSE {}
<1> SUFFICES ASSUME Shape
             PROVE  Current = IF drv = "online" /\ session.state = "connected" THEN {session.peer} ELSE {}
  OBVIOUS
<1>1. session = [state |-> session.state, peer |-> session.peer]
  BY DEF Shape
<1>2. ASSUME NEW p \in Peers PROVE Connected(p) <=> drv = "online" /\ session.state = "connected" /\ session.peer = p
  BY <1>1 DEF Connected, In
<1> QED  BY <1>2 DEF Current, Shape

(* Nobody is lost before the TNC is. *)
LEMMA LossStep ==
  ASSUME Lossless, [Next]_vars
  PROVE  Lossless'
<1> USE DEF Lossless, driverVars, tncVars
<1>1. CASE UNCHANGED vars
  BY <1>1 DEF vars
<1>2. CASE TncGone
  BY <1>2 DEF TncGone
<1>3. CASE Online
  BY <1>3 DEF Online
<1>4. CASE ConnectionClosed \/ ForwardCommand
  BY <1>4 DEF ConnectionClosed, ForwardCommand, LeaveSession
<1>5. CASE ShutdownCommand \/ WriteBundle
  BY <1>5 DEF ShutdownCommand, WriteBundle
<1>6. CASE OfflineCommand \/ ConnectCommand \/ DisconnectCommand \/ IdleTick
  BY <1>6 DEF OfflineCommand, ConnectCommand, DisconnectCommand, IdleTick, RemovePeer
<1>7. CASE ConnectedLine \/ DisconnectedLine \/ WrongLine
  BY <1>7 DEF ConnectedLine, DisconnectedLine, WrongLine, RemovePeer
<1>8. CASE CoordinatorStep
  BY <1>8 DEF CoordinatorStep, StartContact, ConnectTimeout, EndContact, CoordinatorCancelled
<1>9. CASE TncCommand \/ TncCallEnds \/ TncLinkLost \/ \E p \in Peers : TncCalled(p)
  BY <1>9 DEF TncCommand, TncCallEnds, TncLinkLost, TncCalled
<1>10. CASE Unregister \/ \E b \in Bundles : Forward(b)
  BY <1>10 DEF Unregister, Forward
<1> QED
  BY <1>1, <1>2, <1>3, <1>4, <1>5, <1>6, <1>7, <1>8, <1>9, <1>10 DEF Next, DriverStep, TncStep

(* The routes go on following the session. *)
LEMMA RoutesStep ==
  ASSUME IInv, [Next]_vars
  PROVE  RoutesFollowSession'
<1> USE DEF driverVars, tncVars
<1>1. /\ Current = IF drv = "online" /\ session.state = "connected" THEN {session.peer} ELSE {}
      /\ Current' = IF drv' = "online" /\ session'.state = "connected" THEN {session'.peer} ELSE {}
  <2>1. Shape /\ Shape'
    BY ShapeStep DEF IInv
  <2>2. (Shape => Current = IF drv = "online" /\ session.state = "connected" THEN {session.peer} ELSE {})'
    BY CurrentIs, PTL
  <2> QED  BY <2>1, <2>2, CurrentIs
<1>2. bpa \ lost \subseteq Current /\ (sock /\ Registered => Current \subseteq bpa)
  BY DEF IInv, RoutesFollowSession
<1>3. Registered' => Registered
  BY RegisteredStep DEF IInv
<1>4. SUFFICES bpa' \ lost' \subseteq Current' /\ (sock' /\ Registered' => Current' \subseteq bpa')
  BY LossStep DEF RoutesFollowSession, IInv, Lossless
<1>5. CASE Quiet
  <2>1. Current' = Current
    BY <1>1, <1>5 DEF Quiet
  <2> QED  BY <1>2, <1>3, <1>5, <2>1 DEF Quiet, RemovePeer
<1>6. CASE Left
  <2>1. Current' = {}
    BY <1>1, <1>6 DEF Left
  <2>2. bpa' \ lost' = {}
    BY <1>1, <1>2, <1>6 DEF Left
  <2> QED  BY <2>1, <2>2
<1>7. CASE Online
  <2>1. Current = {} /\ Current' = {} /\ UNCHANGED <<bpa, lost>>
    BY <1>1, <1>7 DEF Online, Down
  <2> QED  BY <1>2, <2>1
<1>8. CASE Dial
  <2>1. Current = {} /\ Current' = {} /\ UNCHANGED <<bpa, lost>>
    BY <1>1, <1>8 DEF Dial, Down, In
  <2> QED  BY <1>2, <2>1
<1>9. CASE HangUp
  <2>1. Current \subseteq {session.peer} /\ Current' = {} /\ RemovePeer(session.peer)
    BY <1>1, <1>9 DEF HangUp, In
  <2> QED  BY <1>2, <2>1 DEF RemovePeer
<1>10. CASE ConnectedLine
  <2>1. /\ drv = "online" /\ drv' = "online" /\ lines # <<>> /\ Head(lines).state = "connected"
        /\ session'.state = "connected" /\ session'.peer = Head(lines).peer
        /\ bpa' = bpa \cup {Head(lines).peer} /\ lost' = lost \ {Head(lines).peer}
    BY <1>10 DEF ConnectedLine, In
  <2>2. Current = {}
    <3>1. 1 \in DOMAIN lines /\ Head(lines) = lines[1] /\ \A i \in DOMAIN lines : i >= 1
      BY <2>1, TailOf DEF IInv, Shape
    <3>2. ~EndsFirst(lines)
      BY <2>1, <3>1 DEF EndsFirst
    <3>3. session.state # "connected"
      BY <2>1, <3>2 DEF IInv, LineInv
    <3> QED  BY <1>1, <3>3
  <2>3. Current' = {Head(lines).peer}
    BY <1>1, <2>1
  <2> QED  BY <1>2, <2>1, <2>2, <2>3
<1>11. CASE DisconnectedLine
  <2>1. Current' = {}
    BY <1>1, <1>11 DEF DisconnectedLine, Down
  <2>2. bpa' \ lost' = {}
    BY <1>1, <1>2, <1>11 DEF DisconnectedLine, RemovePeer
  <2> QED  BY <2>1, <2>2
<1>12. CASE WrongLine \/ TncCommand \/ LinkEnds \/ \E p \in Peers : LinkUp(p)
  <2>1. UNCHANGED <<drv, session, sock, bpa, lost>>
    BY <1>12 DEF WrongLine, TncCommand, LinkEnds, LinkUp
  <2> QED  BY <1>1, <1>2, <1>3, <2>1
<1> QED
  BY <1>5, <1>6, <1>7, <1>8, <1>9, <1>10, <1>11, <1>12, StepCases DEF IInv

-----------------------------------------------------------------------------
(* The invariant holds initially and is kept by every step. *)
LEMMA InvInit == Init => IInv
<1> SUFFICES ASSUME Init PROVE IInv
  OBVIOUS
<1> USE DEF Init
<1>1. Shape
  <2>1. coord \in Coordinator
    BY DEF Coordinator, Phases, Names
  <2>2. session.state = "disconnected" /\ link.state = "idle"
    BY DEF Down, In
  <2>3. /\ session \in [state : {"disconnected", "connecting", "connected", "disconnecting"}, peer : Names]
        /\ link \in [state : {"idle", "calling", "up"}, peer : Names]
    BY DEF Down, In, Names
  <2>4. /\ lines \in Seq(Line) /\ ctl \in Seq(Order) /\ cmds \in Seq(Command)
        /\ DOMAIN lines = {} /\ DOMAIN ctl = {} /\ DOMAIN cmds = {}
    <3>1. lines = <<>> /\ ctl = <<>> /\ cmds = <<>>
      OBVIOUS
    <3> HIDE DEF Init
    <3> QED  BY <3>1, NothingQueued
  <2>5. drv = "offline"
    OBVIOUS
  <2> HIDE DEF Init
  <2> QED  BY <2>1, <2>2, <2>3, <2>4, <2>5 DEF Shape
<1>2. LineInv /\ AnswerInv /\ Lossless
  BY DEF LineInv, AnswerInv, Lossless
<1>3. RoutesFollowSession
  BY DEF RoutesFollowSession, Current, Connected
<1> QED  BY <1>1, <1>2, <1>3 DEF IInv

(* Every step keeps the invariant. *)
LEMMA InvNext == IInv /\ [Next]_vars => IInv'
BY ShapeStep, LineStep, AnswerStep, LossStep, RoutesStep DEF IInv

(* The invariant holds always. *)
LEMMA InvHolds == Spec => []IInv
BY InvInit, InvNext, PTL DEF Spec

(* add_peer and remove_peer in driver.rs's session loop: whatever order     *)
(* commands, lines, idle ticks and losses of the TNC come in, a live       *)
(* session has its route, and the only other routes are those of peers     *)
(* whose session ended with a loss of the TNC, which the code leaves       *)
(* behind.  Before the first such loss the route exists exactly while the  *)
(* session is connected.                                                   *)
THEOREM RoutesAreRight == Spec => []RoutesFollowSession
<1>1. IInv => RoutesFollowSession
  BY DEF IInv
<1> QED  BY <1>1, InvHolds, PTL

(* A session that is being set up or taken down always has its command or  *)
(* its line under way: nothing that crosses it leaves the coordinator's    *)
(* disconnect, which has no timeout, without its answer.                   *)
THEOREM AnswersComeBack == Spec => []AnswerOnItsWay
<1>1. IInv => AnswerOnItsWay
  BY DEF IInv, AnswerInv, AnswerOnItsWay, Dialled, News, HasEnd, Obeyed, HungUp
<1> QED  BY <1>1, InvHolds, PTL

(* When no status line is under way, the driver's session and the TNC's    *)
(* radio link agree on whether there is a link and with whom.              *)
THEOREM QuietAgreement == Spec => []QuietMeansAgreed
<1>1. ASSUME IInv PROVE QuietMeansAgreed
  <2> SUFFICES ASSUME drv = "online", lines = <<>>, NEW p \in Peers
               PROVE  /\ Connected(p) => link = In("up", p)
                      /\ link = In("up", p) => Connected(p) \/ session.state = "disconnecting"
    BY DEF QuietMeansAgreed
  <2>1. ~HasEnd(lines) /\ \A q : ~LastUp(lines, q)
    BY DEF HasEnd, LastUp
  <2>2. /\ link = [state |-> link.state, peer |-> link.peer]
        /\ session = [state |-> session.state, peer |-> session.peer]
    BY <1>1 DEF IInv, Shape
  <2>3. session.state = "connected" => link.state = "up"
    BY <1>1, <2>1 DEF IInv, LineInv
  <2>4. link.state = "up" => /\ session.state \in {"connected", "disconnecting"}
                             /\ session.state = "connected" => session.peer = link.peer
    BY <1>1, <2>1 DEF IInv, LineInv
  <2> QED  BY <2>2, <2>3, <2>4 DEF Connected, In
<1> QED  BY <1>1, InvHolds, PTL
=============================================================================
