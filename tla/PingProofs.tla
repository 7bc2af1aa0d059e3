----------------------------- MODULE PingProofs -----------------------------
(***************************************************************************)
(* Proofs about dtnping for every number of pings, every set of bundles    *)
(* that may reach its endpoint and any number of replies and reports: each *)
(* ping is counted once, and the last reply wakes the main task.           *)
(***************************************************************************)
EXTENDS Ping, TLAPS, FiniteSetTheorems

(* The fields of PingState and of a callback in progress.  What a stray    *)
(* bundle carries as its sequence number is left open.                     *)
Shape ==
  /\ seq \in Nat /\ permits \in Nat
  /\ state = [sent |-> state.sent, received |-> state.received, sent_times |-> state.sent_times,
              replied |-> state.replied, path_hops |-> state.path_hops]
  /\ state.sent \in Nat /\ state.received \in Nat
  /\ IsFiniteSet(state.sent_times) /\ IsFiniteSet(state.replied) /\ IsFiniteSet(calls)
  /\ \A c \in calls : c = [kind |-> c.kind, seq |-> c.seq, n |-> c.n, hop |-> c.hop]

(* A ping is in one place: awaited, in the hands of one callback, or       *)
(* replied; and its number has been used.                                  *)
Apart ==
  /\ state.sent_times \cap state.replied = {}
  /\ \A s \in state.sent_times \cup state.replied : s \in Nat /\ s < seq
  /\ \A c \in Call("count") :
       c.seq \in Nat /\ c.seq < seq /\ c.seq \notin state.sent_times \cup state.replied
  /\ \A c, e \in Call("count") : c.seq = e.seq => c = e

(* A reply that was counted has given its permit, or its callback is still *)
(* about to; and the main task only ever waits for a ping it has sent.     *)
Owed ==
  /\ state.received > 0 => Call("print") # {} \/ permits > 0
  /\ pc = "acquire" => state.sent > 0

(* The inductive invariant. *)
IInv == Shape /\ Apart /\ EachPingCountedOnce /\ Owed

-----------------------------------------------------------------------------
(* Cardinalities of the sets that a callback changes.                      *)

(* A callback starts. *)
LEMMA Added ==
  ASSUME NEW S, IsFiniteSet(S), NEW x, x \notin S
  PROVE  IsFiniteSet(S \cup {x}) /\ Cardinality(S \cup {x}) = Cardinality(S) + 1
  BY FS_AddElement

(* A callback ends. *)
LEMMA Removed ==
  ASSUME NEW S, IsFiniteSet(S), NEW x \in S
  PROVE  IsFiniteSet(S \ {x}) /\ Cardinality(S \ {x}) = Cardinality(S) - 1
  BY FS_RemoveElement

(* The callbacks of one kind are finitely many. *)
LEMMA CallsFinite ==
  ASSUME IsFiniteSet(calls), NEW k
  PROVE  IsFiniteSet(Call(k)) /\ Cardinality(Call(k)) \in Nat
<1>1. Call(k) \in SUBSET calls
  BY DEF Call
<1> QED  BY <1>1, FS_Subset, FS_CardinalityType

(* The next piece of a callback differs in its kind only. *)
LEMMA OtherKind ==
  ASSUME NEW c, c = [kind |-> c.kind, seq |-> c.seq, n |-> c.n, hop |-> c.hop], NEW k
  PROVE  /\ [c EXCEPT !.kind = k] = [kind |-> k, seq |-> c.seq, n |-> c.n, hop |-> c.hop]
         /\ [c EXCEPT !.kind = k].kind = k /\ [c EXCEPT !.kind = k].seq = c.seq
  OBVIOUS

-----------------------------------------------------------------------------
(* What a step preserves, by what it changes. *)

(* The initial state. *)
LEMMA InitInv == Init => IInv
<1> SUFFICES ASSUME Init PROVE IInv
  OBVIOUS
<1>1. Shape
  BY FS_EmptySet DEF Init, Shape
<1>2. Call("count") = {} /\ Call("print") = {}
  BY DEF Init, Call
<1>3. Apart /\ Owed
  BY <1>2 DEF Init, Apart, Owed
<1>4. EachPingCountedOnce
  BY <1>2, FS_EmptySet DEF Init, EachPingCountedOnce
<1> QED  BY <1>1, <1>3, <1>4 DEF IInv

(* The network, the clock, and what the main task does without recording a *)
(* ping leave the counters and the callbacks alone.                        *)
LEMMA Untouched ==
  ASSUME IInv, UNCHANGED <<state, calls>>,
         permits' \in Nat, permits' >= permits, seq' \in Nat, seq' >= seq,
         pc' = "acquire" => pc = "acquire" \/ (pc = "poll" /\ ~AllReplied)
  PROVE  IInv'
<1> USE DEF IInv
<1>1. Shape'
  BY DEF Shape
<1>2. \A k : Call(k)' = Call(k)
  BY DEF Call
<1>3. Apart'
  BY <1>2 DEF Apart, Shape
<1>4. EachPingCountedOnce'
  BY <1>2 DEF EachPingCountedOnce
<1>5. Owed'
  BY <1>2 DEF Owed, Shape, AllReplied
<1> QED  BY <1>1, <1>3, <1>4, <1>5

(* sink.send has returned: the ping is awaited from now on. *)
LEMMA SendReturnsInv == IInv /\ SendReturns => IInv'
<1> SUFFICES ASSUME IInv, SendReturns PROVE IInv'
  OBVIOUS
<1> USE DEF IInv
<1>1. /\ state' = [state EXCEPT !.sent = @ + 1, !.sent_times = @ \cup {seq}]
      /\ seq' = seq + 1 /\ pc' = "loop" /\ calls' = calls /\ permits' = permits
  BY DEF SendReturns
<1>2. /\ state'.sent = state.sent + 1 /\ state'.received = state.received
      /\ state'.sent_times = state.sent_times \cup {seq} /\ state'.replied = state.replied
      /\ state'.path_hops = state.path_hops
      /\ state' = [sent |-> state'.sent, received |-> state'.received, sent_times |-> state'.sent_times,
                   replied |-> state'.replied, path_hops |-> state'.path_hops]
  BY <1>1 DEF Shape
<1>3. seq \notin state.sent_times
  BY DEF Apart, Shape
<1>4. /\ IsFiniteSet(state'.sent_times)
      /\ Cardinality(state'.sent_times) = Cardinality(state.sent_times) + 1
  BY <1>2, <1>3, Added DEF Shape
<1>5. \A k : Call(k)' = Call(k)
  BY <1>1 DEF Call
<1>6. Shape'
  BY <1>1, <1>2, <1>4 DEF Shape
<1>7. Apart'
  BY <1>1, <1>2, <1>5 DEF Apart, Shape
<1>8. EachPingCountedOnce'
  BY <1>2, <1>4, <1>5, CallsFinite, FS_CardinalityType DEF EachPingCountedOnce, Shape
<1>9. Owed'
  BY <1>1, <1>2, <1>5 DEF Owed
<1> QED  BY <1>6, <1>7, <1>8, <1>9

(* A callback that enters, leaves or changes without counting anything:    *)
(* the callbacks in the middle of counting stay as they are.               *)
LEMMA CallsChange ==
  ASSUME IInv, UNCHANGED <<seq, pc>>,
         state' = [sent |-> state.sent, received |-> state.received, sent_times |-> state.sent_times,
                   replied |-> state.replied, path_hops |-> state'.path_hops],
         IsFiniteSet(calls'),
         \A c \in calls' : c = [kind |-> c.kind, seq |-> c.seq, n |-> c.n, hop |-> c.hop],
         Call("count")' = Call("count"),
         permits' \in Nat, permits' >= permits,
         Call("print") # {} => Call("print")' # {} \/ permits' > 0
  PROVE  IInv'
<1> USE DEF IInv
<1>1. /\ state'.sent = state.sent /\ state'.received = state.received
      /\ state'.sent_times = state.sent_times /\ state'.replied = state.replied
  OBVIOUS
<1>2. Shape'
  BY <1>1 DEF Shape
<1>3. Apart'
  BY <1>1 DEF Apart
<1>4. EachPingCountedOnce'
  BY <1>1 DEF EachPingCountedOnce
<1>5. Owed'
  BY <1>1 DEF Owed, Shape
<1> QED  BY <1>2, <1>3, <1>4, <1>5

(* The state of a session is the record of its fields. *)
LEMMA SameState ==
  ASSUME Shape, UNCHANGED state
  PROVE  state' = [sent |-> state.sent, received |-> state.received, sent_times |-> state.sent_times,
                   replied |-> state.replied, path_hops |-> state'.path_hops]
  BY DEF Shape

(* A bundle is delivered: its sequence number is looked up. *)
LEMMA DeliverStartsInv == ASSUME NEW b, IInv, DeliverStarts(b) PROVE IInv'
<1> USE DEF IInv
<1>1. UNCHANGED <<state, seq, pc, permits>>
  BY DEF DeliverStarts, main
<1>2. calls' = calls \/ \E c : /\ calls' = calls \cup {c} /\ c.kind = "look up"
                               /\ c = [kind |-> c.kind, seq |-> c.seq, n |-> c.n, hop |-> c.hop]
  <2>1. CASE Ignored(b)
    BY <2>1 DEF DeliverStarts
  <2>2. CASE ~Ignored(b)
    BY <2>2 DEF DeliverStarts
  <2> QED  BY <2>1, <2>2
<1>3. CASE calls' = calls
  BY <1>1, <1>3, Untouched DEF Shape
<1>4. ASSUME NEW c, calls' = calls \cup {c}, c.kind = "look up",
             c = [kind |-> c.kind, seq |-> c.seq, n |-> c.n, hop |-> c.hop]
      PROVE  IInv'
  <2>1. Call("count")' = Call("count") /\ Call("print")' = Call("print")
    BY <1>4 DEF Call
  <2>2. IsFiniteSet(calls')
    BY <1>4, FS_AddElement DEF Shape
  <2>3. \A x \in calls' : x = [kind |-> x.kind, seq |-> x.seq, n |-> x.n, hop |-> x.hop]
    BY <1>4 DEF Shape
  <2>4. permits' \in Nat /\ permits' >= permits
    BY <1>1 DEF Shape
  <2> QED  BY <1>1, <2>1, <2>2, <2>3, <2>4, SameState, CallsChange
<1> QED  BY <1>2, <1>3, <1>4

(* The first lock: the reply to an awaited ping takes it into its own      *)
(* hands, and a second reply to it finds nothing.                          *)
LEMMA LookUpInv == ASSUME NEW c, IInv, LookUp(c) PROVE IInv'
<1> USE DEF IInv
<1>1. UNCHANGED <<seq, pc, permits>> /\ c \in calls /\ c.kind = "look up"
  BY DEF LookUp, main, Call
<1>2. IsFiniteSet(calls \ {c})
  BY FS_RemoveElement DEF Shape
<1>3. CASE c.seq \notin state.sent_times
  <2>1. calls' = calls \ {c} /\ state' = state
    BY <1>3 DEF LookUp
  <2>2. Call("count")' = Call("count") /\ Call("print")' = Call("print")
    BY <1>1, <2>1 DEF Call
  <2>3. \A x \in calls' : x = [kind |-> x.kind, seq |-> x.seq, n |-> x.n, hop |-> x.hop]
    BY <2>1 DEF Shape
  <2>4. permits' \in Nat /\ permits' >= permits
    <3>1. permits' = permits
      BY <1>1
    <3>2. permits \in Nat
      BY DEF Shape
    <3> QED  BY <3>1, <3>2
  <2>5. IsFiniteSet(calls')
    BY <1>2, <2>1
  <2> QED  BY <1>1, <2>1, <2>2, <2>3, <2>4, <2>5, SameState, CallsChange
<1>4. CASE c.seq \in state.sent_times
  <2> DEFINE e == [c EXCEPT !.kind = "count"]
  <2>1. /\ calls' = (calls \ {c}) \cup {e}
        /\ state' = [state EXCEPT !.sent_times = @ \ {c.seq}]
    BY <1>4 DEF LookUp
  <2>2. /\ e = [kind |-> "count", seq |-> c.seq, n |-> c.n, hop |-> c.hop]
        /\ e.kind = "count" /\ e.seq = c.seq
    BY <1>1, OtherKind DEF Shape
  <2>3. /\ state'.sent = state.sent /\ state'.received = state.received
        /\ state'.sent_times = state.sent_times \ {c.seq} /\ state'.replied = state.replied
        /\ state' = [sent |-> state'.sent, received |-> state'.received, sent_times |-> state'.sent_times,
                     replied |-> state'.replied, path_hops |-> state'.path_hops]
    BY <2>1 DEF Shape
  <2>4. Call("count")' = Call("count") \cup {e} /\ Call("print")' = Call("print")
    BY <1>1, <2>1, <2>2 DEF Call
  <2>5. e \notin Call("count")
    BY <1>4, <2>2 DEF Apart
  <2>6. Cardinality(Call("count")') = Cardinality(Call("count")) + 1
    BY <2>4, <2>5, CallsFinite, Added DEF Shape
  <2>7. /\ IsFiniteSet(state'.sent_times)
        /\ Cardinality(state'.sent_times) = Cardinality(state.sent_times) - 1
    BY <1>4, <2>3, Removed DEF Shape
  <2>8. Shape'
    <3>1. IsFiniteSet(calls')
      BY <1>2, <2>1, FS_AddElement
    <3>2. \A x \in calls' : x = [kind |-> x.kind, seq |-> x.seq, n |-> x.n, hop |-> x.hop]
      BY <2>1, <2>2 DEF Shape
    <3> QED  BY <1>1, <2>3, <2>7, <3>1, <3>2 DEF Shape
  <2>9. Apart'
    <3>1. c.seq \in Nat /\ c.seq < seq /\ c.seq \notin state.replied
      BY <1>4 DEF Apart
    <3>2. \A x \in Call("count") : x.seq # c.seq
      BY <1>4 DEF Apart
    <3>3. \A x \in Call("count")' : x.seq \in Nat /\ x.seq < seq' /\ x.seq \notin state'.sent_times \cup state'.replied
      BY <1>1, <2>2, <2>3, <2>4, <3>1 DEF Apart
    <3>4. \A x, y \in Call("count")' : x.seq = y.seq => x = y
      BY <2>2, <2>4, <3>2 DEF Apart
    <3> QED  BY <1>1, <2>3, <3>3, <3>4 DEF Apart
  <2>10. EachPingCountedOnce'
    BY <2>3, <2>6, <2>7, CallsFinite, FS_CardinalityType DEF EachPingCountedOnce, Shape
  <2>11. Owed'
    BY <1>1, <2>3, <2>4 DEF Owed
  <2> QED  BY <2>8, <2>9, <2>10, <2>11
<1> QED  BY <1>3, <1>4

(* The second lock: the reply is counted and its permit is owed. *)
LEMMA CountReplyInv == ASSUME NEW c, IInv, CountReply(c) PROVE IInv'
<1> USE DEF IInv
<1> DEFINE e == [c EXCEPT !.kind = "print"]
<1>1. /\ UNCHANGED <<seq, pc, permits>> /\ c \in calls /\ c.kind = "count" /\ c \in Call("count")
      /\ state' = [state EXCEPT !.received = @ + 1, !.replied = @ \cup {c.seq}]
      /\ calls' = (calls \ {c}) \cup {e}
  BY DEF CountReply, main, Call
<1>2. e = [kind |-> "print", seq |-> c.seq, n |-> c.n, hop |-> c.hop] /\ e.kind = "print"
  BY <1>1, OtherKind DEF Shape
<1>3. /\ state'.sent = state.sent /\ state'.received = state.received + 1
      /\ state'.sent_times = state.sent_times /\ state'.replied = state.replied \cup {c.seq}
      /\ state' = [sent |-> state'.sent, received |-> state'.received, sent_times |-> state'.sent_times,
                   replied |-> state'.replied, path_hops |-> state'.path_hops]
  BY <1>1 DEF Shape
<1>4. Call("count")' = Call("count") \ {c} /\ e \in Call("print")'
  BY <1>1, <1>2 DEF Call
<1>5. Cardinality(Call("count")') = Cardinality(Call("count")) - 1
  BY <1>1, <1>4, CallsFinite, Removed DEF Shape
<1>6. c.seq \in Nat /\ c.seq < seq /\ c.seq \notin state.sent_times \cup state.replied
  BY <1>1 DEF Apart
<1>7. IsFiniteSet(state'.replied) /\ Cardinality(state'.replied) = Cardinality(state.replied) + 1
  BY <1>3, <1>6, Added DEF Shape
<1>8. Shape'
  <2>1. IsFiniteSet(calls')
    BY <1>1, FS_AddElement, FS_RemoveElement DEF Shape
  <2>2. \A x \in calls' : x = [kind |-> x.kind, seq |-> x.seq, n |-> x.n, hop |-> x.hop]
    BY <1>1, <1>2 DEF Shape
  <2> QED  BY <1>1, <1>3, <1>7, <2>1, <2>2 DEF Shape
<1>9. Apart'
  BY <1>1, <1>3, <1>4, <1>6 DEF Apart
<1>10. EachPingCountedOnce'
  BY <1>3, <1>5, <1>7, CallsFinite, FS_CardinalityType DEF EachPingCountedOnce, Shape
<1>11. Owed'
  BY <1>1, <1>3, <1>4 DEF Owed
<1> QED  BY <1>8, <1>9, <1>10, <1>11

(* The last piece of on_deliver gives the permit. *)
LEMMA PrintPathInv == ASSUME NEW c, IInv, PrintPath(c) PROVE IInv'
<1> USE DEF IInv
<1>1. /\ UNCHANGED <<seq, pc>> /\ c \in calls /\ c.kind = "print" /\ permits' = permits + 1
      /\ state' = [state EXCEPT !.path_hops = @ \ HopsOf(c.seq)] /\ calls' = calls \ {c}
  BY DEF PrintPath, main, Call
<1>2. state' = [sent |-> state.sent, received |-> state.received, sent_times |-> state.sent_times,
                replied |-> state.replied, path_hops |-> state'.path_hops]
  BY <1>1 DEF Shape
<1>3. IsFiniteSet(calls')
  BY <1>1, FS_RemoveElement DEF Shape
<1>4. Call("count")' = Call("count")
  BY <1>1 DEF Call
<1>5. \A x \in calls' : x = [kind |-> x.kind, seq |-> x.seq, n |-> x.n, hop |-> x.hop]
  BY <1>1 DEF Shape
<1>6. permits' \in Nat /\ permits' >= permits /\ permits' > 0
  BY <1>1 DEF Shape
<1> QED  BY <1>1, <1>2, <1>3, <1>4, <1>5, <1>6, CallsChange

(* A status report is delivered. *)
LEMMA NotifyInv == ASSUME NEW r, IInv, Notify(r) PROVE IInv'
<1> USE DEF IInv
<1>1. UNCHANGED <<state, seq, pc>>
  BY DEF Notify, main
<1>2. permits' \in Nat /\ permits' >= permits
  BY DEF Notify, Shape
<1>3. calls' = calls \/ \E c : /\ calls' = calls \cup {c} /\ c.kind = "hop"
                               /\ c = [kind |-> c.kind, seq |-> c.seq, n |-> c.n, hop |-> c.hop]
  <2>1. CASE r.seq \in state.sent_times /\ r.from # Local
    BY <2>1 DEF Notify
  <2>2. CASE r.seq \notin state.sent_times \/ r.from = Local
    BY <2>2 DEF Notify
  <2> QED  BY <2>1, <2>2
<1>4. CASE calls' = calls
  BY <1>1, <1>2, <1>4, Untouched DEF Shape
<1>5. ASSUME NEW c, calls' = calls \cup {c}, c.kind = "hop",
             c = [kind |-> c.kind, seq |-> c.seq, n |-> c.n, hop |-> c.hop]
      PROVE  IInv'
  <2>1. Call("count")' = Call("count") /\ Call("print")' = Call("print")
    BY <1>5 DEF Call
  <2>2. IsFiniteSet(calls')
    BY <1>5, FS_AddElement DEF Shape
  <2>3. \A x \in calls' : x = [kind |-> x.kind, seq |-> x.seq, n |-> x.n, hop |-> x.hop]
    BY <1>5 DEF Shape
  <2> QED  BY <1>1, <1>2, <2>1, <2>2, <2>3, SameState, CallsChange
<1> QED  BY <1>3, <1>4, <1>5

(* A hop of the path is recorded. *)
LEMMA RecordHopInv == ASSUME NEW c, IInv, RecordHop(c) PROVE IInv'
<1> USE DEF IInv
<1>1. /\ UNCHANGED <<seq, pc, permits>> /\ c \in calls /\ c.kind = "hop"
      /\ state' = [state EXCEPT !.path_hops = @ \cup {[seq |-> c.seq, hop |-> c.hop]}]
      /\ calls' = calls \ {c}
  BY DEF RecordHop, main, Call
<1>2. state' = [sent |-> state.sent, received |-> state.received, sent_times |-> state.sent_times,
                replied |-> state.replied, path_hops |-> state'.path_hops]
  BY <1>1 DEF Shape
<1>3. IsFiniteSet(calls')
  BY <1>1, FS_RemoveElement DEF Shape
<1>4. Call("count")' = Call("count") /\ Call("print")' = Call("print")
  BY <1>1 DEF Call
<1>5. \A x \in calls' : x = [kind |-> x.kind, seq |-> x.seq, n |-> x.n, hop |-> x.hop]
  BY <1>1 DEF Shape
<1>6. permits' \in Nat /\ permits' >= permits
  BY <1>1 DEF Shape
<1> QED  BY <1>1, <1>2, <1>3, <1>4, <1>5, <1>6, CallsChange

(* Every step keeps the invariant. *)
LEMMA StepInv == IInv /\ [Next]_vars => IInv'
<1> SUFFICES ASSUME IInv, [Next]_vars PROVE IInv'
  OBVIOUS
<1> USE DEF IInv
<1>0. seq \in Nat /\ permits \in Nat
  BY DEF Shape
<1>1. CASE SendReturns
  BY <1>1, SendReturnsInv
<1>2. CASE \/ SendPing \/ SendErr \/ PrepareErr \/ LoopEnds \/ LoopInterrupted
           \/ StartWait \/ Poll \/ Acquire \/ WaitEnds \/ WaitInterrupted
           \/ Summary \/ UnregisterReturns \/ Tick
  <2>1. /\ UNCHANGED <<state, calls, permits>> /\ (seq' = seq \/ seq' = seq + 1)
        /\ pc' = "acquire" => pc = "acquire" \/ (pc = "poll" /\ ~AllReplied)
    BY <1>2 DEF SendPing, SendErr, PrepareErr, LoopEnds, LoopInterrupted, StartWait, Poll,
                Acquire, WaitEnds, WaitInterrupted, Summary, UnregisterReturns, Tick, main
  <2> QED  BY <1>0, <2>1, Untouched
<1>3. CASE \/ \E s \in taken : Echo(s)
           \/ \E b \in Stray : Mail(b)
           \/ \E s \in taken, kind \in {"received", "deleted"}, from \in Reporters : Report(s, kind, from)
  <2>1. UNCHANGED <<state, calls, permits, seq, pc>>
    BY <1>3 DEF Echo, Mail, Report, main
  <2> QED  BY <1>0, <2>1, Untouched
<1>4. CASE \E b \in inbox : DeliverStarts(b)
  BY <1>4, DeliverStartsInv
<1>5. CASE \E c \in calls : LookUp(c) \/ CountReply(c) \/ PrintPath(c) \/ RecordHop(c)
  BY <1>5, LookUpInv, CountReplyInv, PrintPathInv, RecordHopInv
<1>6. CASE \E r \in reports : Notify(r)
  BY <1>6, NotifyInv
<1>7. CASE UNCHANGED vars
  BY <1>0, <1>7, Untouched DEF vars
<1> QED  BY <1>1, <1>2, <1>3, <1>4, <1>5, <1>6, <1>7 DEF Next

(* The invariant of every behaviour. *)
LEMMA Invariance == Spec => []IInv
  BY InitInv, StepInv, PTL DEF Spec

(* dtnping: each ping recorded as sent is awaited, in the hands of one     *)
(* callback of on_deliver or counted once, however often it is answered.   *)
THEOREM PingsAreCountedOnce == Spec => []EachPingCountedOnce
<1>1. IInv => EachPingCountedOnce
  BY DEF IInv
<1> QED  BY <1>1, Invariance, PTL

(* dtnping: the wake-up of the last reply is never lost: when all replies  *)
(* are counted and printed, semaphore.acquire finds a permit.              *)
THEOREM WakeUpIsKept == Spec => []LastReplyWakes
<1>1. IInv => LastReplyWakes
  BY DEF IInv, Owed, LastReplyWakes, AllReplied, Shape
<1> QED  BY <1>1, Invariance, PTL
=============================================================================
