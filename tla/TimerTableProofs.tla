-------------------------- MODULE TimerTableProofs --------------------------
(***************************************************************************)
(* Proofs about the timer table for every set of sessions and serials:     *)
(* the two indexes agree, a tick leaves nothing overdue and hands out the  *)
(* timers in order, and cancel_session takes exactly its session's timers. *)
(***************************************************************************)
EXTENDS TimerTable, TLAPS, WellFoundedInduction

(* Until the loop of the tick ends, what it has collected was due no later *)
(* than what is still armed.                                               *)
PollInv ==
  tick = "polling" =>
    \A i \in DOMAIN expired, k \in DOMAIN byKey : expired[i][1] <= byKey[k]

(* The inductive invariant. *)
IInv == TypeOK /\ IndexesAgree /\ NothingOverdue /\ ExpiredInOrder /\ PollInv

-----------------------------------------------------------------------------
(* Lemmas about the orders.                                                *)

(* What the three parts of a key are taken from. *)
LEMMA Triple ==
  ASSUME NEW A, NEW B, NEW C, NEW t \in A \X B \X C
  PROVE  t[1] \in A /\ t[2] \in B /\ t[3] \in C
  OBVIOUS

(* A key has a natural session, a variant and a natural argument, the      *)
(* argument of a cancel timer being at most 1.                             *)
LEMMA KeyShape ==
  ASSUME NEW k \in Keys
  PROVE  /\ k[1] \in Sessions /\ k[1] \in Nat /\ k[2] \in 0 .. 3 /\ k[3] \in Nat
         /\ k[2] = Cancel => k[3] <= 1
<1>1. \/ k \in Sending \X {Inactivity, Cancel} \X {1}
      \/ k \in Sending \X {Checkpoint} \X Serials
      \/ k \in Receiving \X {Inactivity, Cancel} \X {0}
      \/ k \in Receiving \X {Report} \X Serials
  BY DEF Keys
<1>2. \/ k[1] \in Sending /\ k[2] \in {Inactivity, Cancel} /\ k[3] \in {1}
      \/ k[1] \in Sending /\ k[2] \in {Checkpoint} /\ k[3] \in Serials
      \/ k[1] \in Receiving /\ k[2] \in {Inactivity, Cancel} /\ k[3] \in {0}
      \/ k[1] \in Receiving /\ k[2] \in {Report} /\ k[3] \in Serials
  BY <1>1, Triple, Zenon
<1>3. k[1] \in Sessions /\ k[1] \in Nat
  BY <1>2, SessionsAssumption DEF Sessions
<1>4. k[2] \in 0 .. 3
  BY <1>2 DEF Inactivity, Checkpoint, Report, Cancel
<1>5. k[3] \in Nat
  <2>1. k[3] = 1 \/ k[3] = 0 \/ k[3] \in Serials
    BY <1>2
  <2>2. Serials \subseteq Nat
    BY SerialsAssumption
  <2>3. k[3] \in Serials => k[3] \in Nat
    BY <2>2
  <2> QED  BY <2>1, <2>3
<1>6. k[2] = Cancel => k[3] <= 1
  BY <1>2 DEF Inactivity, Checkpoint, Report, Cancel
<1> QED  BY <1>3, <1>4, <1>5, <1>6

(* A set of naturals that is not empty has a least member. *)
LEMMA LeastNat ==
  ASSUME NEW T \in SUBSET Nat, T # {}
  PROVE  \E x \in T : \A y \in T : x <= y
<1>1. IsWellFoundedOn(OpToRel(<, Nat), Nat)
  BY NatLessThanWellFounded
<1>2. PICK x \in T : \A y \in T : <<y, x>> \notin OpToRel(<, Nat)
  BY <1>1, WFMin, Zenon
<1>3. \A y \in T : y < x => <<y, x>> \in OpToRel(<, Nat)
  BY DEF OpToRel
<1>4. \A y \in T : ~(y < x)
  BY <1>2, <1>3, Zenon
<1> QED  BY <1>4

(* A deadline index that is not empty has a first entry. *)
LEMMA HasFirst ==
  ASSUME byDeadline \subseteq Nat \X Keys, NEW f \in byDeadline
  PROVE  \E e \in byDeadline : IsFirst(e) /\ e[1] <= f[1]
<1>0. \A e \in byDeadline : /\ e[1] \in Nat /\ e[2] \in Keys
                            /\ e[2][1] \in Nat /\ e[2][2] \in Nat /\ e[2][3] \in Nat
  BY KeyShape
<1>1. PICK d \in {e[1] : e \in byDeadline} : \A y \in {e[1] : e \in byDeadline} : d <= y
  <2>1. {e[1] : e \in byDeadline} \in SUBSET Nat /\ {e[1] : e \in byDeadline} # {}
    BY <1>0
  <2> QED  BY <2>1, LeastNat
<1> DEFINE A == {e \in byDeadline : e[1] = d}
<1>2. PICK s \in {e[2][1] : e \in A} : \A y \in {e[2][1] : e \in A} : s <= y
  <2>1. {e[2][1] : e \in A} \in SUBSET Nat /\ {e[2][1] : e \in A} # {}
    BY <1>0, <1>1
  <2> QED  BY <2>1, LeastNat
<1> DEFINE B == {e \in A : e[2][1] = s}
<1>3. PICK v \in {e[2][2] : e \in B} : \A y \in {e[2][2] : e \in B} : v <= y
  <2>1. {e[2][2] : e \in B} \in SUBSET Nat /\ {e[2][2] : e \in B} # {}
    BY <1>0, <1>2
  <2> QED  BY <2>1, LeastNat
<1> DEFINE C == {e \in B : e[2][2] = v}
<1>4. PICK a \in {e[2][3] : e \in C} : \A y \in {e[2][3] : e \in C} : a <= y
  <2>1. {e[2][3] : e \in C} \in SUBSET Nat /\ {e[2][3] : e \in C} # {}
    BY <1>0, <1>3
  <2> QED  BY <2>1, LeastNat
<1>5. PICK e \in C : e[2][3] = a
  BY <1>4
<1>6. e \in byDeadline /\ e[1] = d /\ e[2][1] = s /\ e[2][2] = v /\ e[2][3] = a
  BY <1>5
<1>7. ASSUME NEW g \in byDeadline PROVE EntryLeq(e, g)
  <2>1. d <= g[1] /\ g[1] \in Nat /\ d \in Nat
    BY <1>0, <1>1, <1>6
  <2>2. CASE d < g[1]
    BY <2>2, <1>6 DEF EntryLeq
  <2>3. CASE d = g[1]
    <3>1. g \in A /\ s <= g[2][1] /\ s \in Nat /\ g[2][1] \in Nat
      BY <2>3, <1>0, <1>2, <1>6
    <3>2. CASE s < g[2][1]
      BY <3>2, <2>3, <1>6 DEF EntryLeq, KeyLeq
    <3>3. CASE s = g[2][1]
      <4>1. g \in B /\ v <= g[2][2] /\ v \in Nat /\ g[2][2] \in Nat
        BY <3>1, <3>3, <1>0, <1>3, <1>6
      <4>2. CASE v < g[2][2]
        BY <4>2, <3>3, <2>3, <1>6 DEF EntryLeq, KeyLeq
      <4>3. CASE v = g[2][2]
        <5>1. g \in C /\ a <= g[2][3]
          BY <4>1, <4>3, <1>4
        <5> QED  BY <5>1, <4>3, <3>3, <2>3, <1>6 DEF EntryLeq, KeyLeq
      <4> QED  BY <4>1, <4>2, <4>3
    <3> QED  BY <3>1, <3>2, <3>3
  <2> QED  BY <2>1, <2>2, <2>3
<1>8. IsFirst(e) /\ e[1] <= f[1]
  BY <1>1, <1>6, <1>7 DEF IsFirst
<1> QED  BY <1>6, <1>8

(* The range of cancel_session is the session's keys. *)
LEMMA RangeIsSession ==
  ASSUME TypeOK, NEW s \in Sessions
  PROVE  SessionRange(s) = {k \in DOMAIN byKey : Session(k) = s}
<1>1. s \in Nat
  BY SessionsAssumption DEF Sessions
<1>2. ASSUME NEW k \in DOMAIN byKey
      PROVE  KeyLeq(<<s, Inactivity, 0>>, k) /\ KeyLeq(k, <<s, Cancel, 1>>) <=> Session(k) = s
  <2>1. /\ k[1] \in Nat /\ k[2] \in 0 .. 3 /\ k[3] \in Nat
        /\ k[2] = Cancel => k[3] <= 1
    BY KeyShape DEF TypeOK
  <2> QED  BY <2>1, <1>1 DEF KeyLeq, Session, Inactivity, Cancel
<1> QED  BY <1>2 DEF SessionRange

-----------------------------------------------------------------------------
(* Each operation preserves the invariant.                                 *)

(* set. *)
LEMMA SetInv ==
  ASSUME IInv, NEW k \in Keys, NEW d \in (now + 1) .. MaxTime, Set(k, d)
  PROVE  IInv'
<1>0. now \in Nat /\ d \in Nat /\ d > now /\ tick # "polling"
  BY MaxTimeAssumption DEF IInv, TypeOK, Set
<1>1. TypeOK'
  BY <1>0 DEF IInv, TypeOK, Set, Entries
<1>2. /\ DOMAIN byKey' = DOMAIN byKey \cup {k}
      /\ \A x \in DOMAIN byKey' : byKey'[x] = IF x = k THEN d ELSE byKey[x]
  BY DEF Set
<1>3. IndexesAgree'
  <2>1. ASSUME NEW e \in byDeadline' PROVE \E x \in DOMAIN byKey' : e = <<byKey'[x], x>>
    <3>1. CASE e = <<d, k>>
      BY <3>1, <1>2
    <3>2. CASE e # <<d, k>>
      <4>1. e \in byDeadline /\ e \notin Entries({k})
        BY <3>2 DEF Set
      <4>2. PICK x \in DOMAIN byKey : e = <<byKey[x], x>>
        BY <4>1 DEF IInv, IndexesAgree
      <4>3. x # k
        BY <4>1, <4>2 DEF Entries
      <4> QED  BY <4>2, <4>3, <1>2
    <3> QED  BY <3>1, <3>2
  <2>2. ASSUME NEW x \in DOMAIN byKey' PROVE <<byKey'[x], x>> \in byDeadline'
    <3>1. CASE x = k
      BY <3>1, <1>2 DEF Set
    <3>2. CASE x # k
      <4>1. x \in DOMAIN byKey /\ <<byKey[x], x>> \in byDeadline /\ byKey'[x] = byKey[x]
        BY <3>2, <1>2 DEF IInv, IndexesAgree
      <4>2. <<byKey[x], x>> \notin Entries({k})
        BY <3>2 DEF Entries
      <4> QED  BY <4>1, <4>2 DEF Set
    <3> QED  BY <3>1, <3>2
  <2> QED  BY <2>1, <2>2 DEF IndexesAgree
<1>4. NothingOverdue' /\ ExpiredInOrder' /\ PollInv'
  BY <1>0, <1>2 DEF IInv, NothingOverdue, ExpiredInOrder, PollInv, Set
<1> QED  BY <1>1, <1>3, <1>4 DEF IInv

(* cancel, of one key or of many. *)
LEMMA CancelInv ==
  ASSUME IInv, NEW ks, CancelKeys(ks)
  PROVE  IInv'
<1>1. TypeOK'
  BY DEF IInv, TypeOK, CancelKeys
<1>2. /\ DOMAIN byKey' = DOMAIN byKey \ ks
      /\ \A x \in DOMAIN byKey' : byKey'[x] = byKey[x]
  BY DEF CancelKeys
<1>3. IndexesAgree'
  <2>1. ASSUME NEW e \in byDeadline' PROVE \E x \in DOMAIN byKey' : e = <<byKey'[x], x>>
    <3>1. PICK x \in DOMAIN byKey : e = <<byKey[x], x>>
      BY DEF CancelKeys, IInv, IndexesAgree
    <3>2. x \notin ks
      BY <3>1 DEF CancelKeys, Entries
    <3> QED  BY <3>1, <3>2, <1>2
  <2>2. ASSUME NEW x \in DOMAIN byKey' PROVE <<byKey'[x], x>> \in byDeadline'
    <3>1. x \in DOMAIN byKey /\ x \notin ks /\ byKey'[x] = byKey[x]
      BY <1>2
    <3>2. <<byKey[x], x>> \in byDeadline /\ <<byKey[x], x>> \notin Entries(ks)
      BY <3>1 DEF IInv, IndexesAgree, Entries
    <3> QED  BY <3>1, <3>2 DEF CancelKeys
  <2> QED  BY <2>1, <2>2 DEF IndexesAgree
<1>4. NothingOverdue' /\ ExpiredInOrder' /\ PollInv'
  BY <1>2 DEF IInv, NothingOverdue, ExpiredInOrder, PollInv, CancelKeys
<1> QED  BY <1>1, <1>3, <1>4 DEF IInv

(* poll_expired with a timer that is due. *)
LEMMA PollExpiredInv ==
  ASSUME IInv, PollExpired
  PROVE  IInv'
<1>1. PICK e \in byDeadline :
        /\ IsFirst(e) /\ e[1] <= now
        /\ byDeadline' = byDeadline \ {e}
        /\ byKey' = [x \in DOMAIN byKey \ {e[2]} |-> byKey[x]]
        /\ expired' = Append(expired, e)
  BY DEF PollExpired
<1>2. e \in Nat \X Keys /\ expired \in Seq(Nat \X Keys) /\ tick = "polling" /\ tick' = tick
      /\ now \in Nat /\ now' = now
  BY DEF IInv, TypeOK, PollExpired
<1>3. e[2] \in DOMAIN byKey /\ e = <<byKey[e[2]], e[2]>>
  BY DEF IInv, IndexesAgree
<1>4. TypeOK'
  BY <1>1, <1>2 DEF IInv, TypeOK
<1>5. /\ DOMAIN byKey' = DOMAIN byKey \ {e[2]}
      /\ \A x \in DOMAIN byKey' : byKey'[x] = byKey[x] /\ byKey[x] \in Nat
  BY <1>1 DEF IInv, TypeOK
<1>6. IndexesAgree'
  <2>1. ASSUME NEW f \in byDeadline' PROVE \E x \in DOMAIN byKey' : f = <<byKey'[x], x>>
    <3>1. PICK x \in DOMAIN byKey : f = <<byKey[x], x>>
      BY <1>1 DEF IInv, IndexesAgree
    <3>2. x # e[2]
      BY <3>1, <1>1, <1>3
    <3> QED  BY <3>1, <3>2, <1>5
  <2>2. ASSUME NEW x \in DOMAIN byKey' PROVE <<byKey'[x], x>> \in byDeadline'
    <3>1. x \in DOMAIN byKey /\ x # e[2] /\ byKey'[x] = byKey[x]
      BY <1>5
    <3>2. <<byKey[x], x>> \in byDeadline /\ <<byKey[x], x>> # e
      BY <3>1, <1>3 DEF IInv, IndexesAgree
    <3> QED  BY <3>1, <3>2, <1>1
  <2> QED  BY <2>1, <2>2 DEF IndexesAgree
<1>7. NothingOverdue'
  BY <1>2 DEF NothingOverdue
<1>8. \A x \in DOMAIN byKey : e[1] <= byKey[x]
  <2>1. ASSUME NEW x \in DOMAIN byKey PROVE e[1] <= byKey[x]
    <3>1. <<byKey[x], x>> \in byDeadline /\ byKey[x] \in Nat
      BY DEF IInv, IndexesAgree, TypeOK
    <3>2. EntryLeq(e, <<byKey[x], x>>)
      BY <3>1, <1>1 DEF IsFirst
    <3> QED  BY <3>1, <3>2, <1>2 DEF EntryLeq
  <2> QED  BY <2>1
<1>9. /\ Len(expired) \in Nat /\ DOMAIN expired = 1 .. Len(expired)
      /\ DOMAIN expired' = 1 .. (Len(expired) + 1)
      /\ \A i \in DOMAIN expired : expired'[i] = expired[i] /\ expired[i][1] \in Nat
      /\ expired'[Len(expired) + 1] = e
  BY <1>1, <1>2
<1>10. \A i \in DOMAIN expired : expired[i][1] <= e[1] /\ expired[i][1] <= now
  BY <1>2, <1>3 DEF IInv, PollInv, ExpiredInOrder
<1>11. ExpiredInOrder'
  <2>1. ASSUME NEW i \in DOMAIN expired' PROVE expired'[i][1] <= now
    <3>1. CASE i \in DOMAIN expired
      BY <3>1, <1>9, <1>10
    <3>2. CASE i = Len(expired) + 1
      BY <3>2, <1>9, <1>1
    <3> QED  BY <3>1, <3>2, <1>9
  <2>2. ASSUME NEW i \in DOMAIN expired', NEW j \in DOMAIN expired', i < j
        PROVE  expired'[i][1] <= expired'[j][1]
    <3>1. CASE j \in DOMAIN expired
      <4>1. i \in DOMAIN expired
        BY <3>1, <2>2, <1>9
      <4> QED  BY <3>1, <4>1, <2>2, <1>9 DEF IInv, ExpiredInOrder
    <3>2. CASE j = Len(expired) + 1
      <4>1. i \in DOMAIN expired
        BY <3>2, <2>2, <1>9
      <4> QED  BY <3>2, <4>1, <1>9, <1>10
    <3> QED  BY <3>1, <3>2, <1>9
  <2> QED  BY <2>1, <2>2, <1>2 DEF ExpiredInOrder
<1>12. PollInv'
  <2>1. ASSUME NEW i \in DOMAIN expired', NEW x \in DOMAIN byKey'
        PROVE  expired'[i][1] <= byKey'[x]
    <3>1. x \in DOMAIN byKey /\ byKey'[x] = byKey[x]
      BY <1>5
    <3>2. CASE i \in DOMAIN expired
      BY <3>1, <3>2, <1>2, <1>9 DEF IInv, PollInv
    <3>3. CASE i = Len(expired) + 1
      BY <3>1, <3>3, <1>8, <1>9
    <3> QED  BY <3>2, <3>3, <1>9
  <2> QED  BY <2>1 DEF PollInv
<1> QED  BY <1>4, <1>6, <1>7, <1>11, <1>12 DEF IInv

(* poll_expired with nothing due: by the order of the deadline index no    *)
(* armed timer is.                                                         *)
LEMMA PollNothingInv ==
  ASSUME IInv, PollNothing
  PROVE  IInv'
<1>1. TypeOK' /\ IndexesAgree' /\ ExpiredInOrder' /\ PollInv'
  BY DEF IInv, TypeOK, IndexesAgree, ExpiredInOrder, PollInv, PollNothing
<1>2. ASSUME NEW k \in DOMAIN byKey PROVE byKey[k] > now
  <2>1. <<byKey[k], k>> \in byDeadline /\ byKey[k] \in Nat /\ now \in Nat
    BY DEF IInv, IndexesAgree, TypeOK
  <2>2. PICK e \in byDeadline : IsFirst(e) /\ e[1] <= byKey[k]
    <3>1. byDeadline \subseteq Nat \X Keys
      BY DEF IInv, TypeOK
    <3>2. \E e \in byDeadline : IsFirst(e) /\ e[1] <= <<byKey[k], k>>[1]
      BY <2>1, <3>1, HasFirst
    <3> QED  BY <3>2
  <2>3. e[1] > now /\ e[1] \in Nat
    BY <2>2 DEF PollNothing, IInv, TypeOK
  <2> QED  BY <2>1, <2>2, <2>3
<1>3. NothingOverdue'
  BY <1>2 DEF NothingOverdue, PollNothing
<1> QED  BY <1>1, <1>3 DEF IInv

(* A handler of the tick ends. *)
LEMMA HandleExpiredInv ==
  ASSUME IInv, HandleExpired
  PROVE  IInv'
<1>1. expired \in Seq(Nat \X Keys) /\ expired # <<>> /\ expired' = Tail(expired)
  BY DEF IInv, TypeOK, HandleExpired
<1>2. /\ expired' \in Seq(Nat \X Keys)
      /\ \A i \in DOMAIN expired' : i \in Nat /\ i + 1 \in DOMAIN expired /\ expired'[i] = expired[i + 1]
  BY <1>1
<1>3. TypeOK' /\ IndexesAgree' /\ NothingOverdue' /\ PollInv'
  BY <1>1, <1>2 DEF IInv, TypeOK, IndexesAgree, NothingOverdue, PollInv, HandleExpired
<1>4. ExpiredInOrder'
  <2>1. \A i, j \in DOMAIN expired' : i < j => i + 1 < j + 1
    BY <1>2
  <2> QED  BY <1>2, <2>1 DEF IInv, ExpiredInOrder, HandleExpired
<1> QED  BY <1>3, <1>4 DEF IInv

(* The driver's wake-up and the passing of time change no index. *)
LEMMA QuietInv ==
  ASSUME IInv, StartTick \/ Advance \/ UNCHANGED vars
  PROVE  IInv'
<1>1. CASE StartTick
  BY <1>1 DEF IInv, TypeOK, IndexesAgree, NothingOverdue, ExpiredInOrder, PollInv, StartTick
<1>2. CASE Advance
  BY <1>2 DEF IInv, TypeOK, IndexesAgree, NothingOverdue, ExpiredInOrder, PollInv, Advance
<1>3. CASE UNCHANGED vars
  BY <1>3 DEF IInv, TypeOK, IndexesAgree, NothingOverdue, ExpiredInOrder, PollInv, vars
<1> QED  BY <1>1, <1>2, <1>3

-----------------------------------------------------------------------------
(* The theorems.                                                           *)

(* The invariant holds initially and is preserved. *)
LEMMA InitInv == Init => IInv
<1> SUFFICES ASSUME Init PROVE IInv
  OBVIOUS
<1>1. DOMAIN byKey = {} /\ byKey \in [{} -> Nat] /\ DOMAIN expired = {}
  BY DEF Init
<1> QED
  BY <1>1 DEF Init, IInv, TypeOK, IndexesAgree, NothingOverdue, ExpiredInOrder, PollInv

(* Every step keeps the invariant. *)
LEMMA NextInv == IInv /\ [Next]_vars => IInv'
<1> SUFFICES ASSUME IInv, [Next]_vars PROVE IInv'
  OBVIOUS
<1>1. CASE \E k \in Keys, d \in (now + 1) .. MaxTime : Set(k, d)
  BY <1>1, SetInv
<1>2. CASE \E k \in Keys : CancelKey(k)
  BY <1>2, CancelInv DEF CancelKey
<1>3. CASE \E s \in Sessions : CancelSession(s)
  BY <1>3, CancelInv DEF CancelSession
<1>4. CASE PollExpired \/ PollNothing \/ HandleExpired
  BY <1>4, PollExpiredInv, PollNothingInv, HandleExpiredInv
<1>5. CASE StartTick \/ Advance \/ UNCHANGED vars
  BY <1>5, QuietInv
<1> QED  BY <1>1, <1>2, <1>3, <1>4, <1>5 DEF Next

(* The strengthening is an invariant of every table. *)
THEOREM Invariant == Spec => []IInv
  BY InitInv, NextInv, PTL DEF Spec

(* The fields of the table and of the tick keep their types. *)
THEOREM TypeCorrect == Spec => []TypeOK
<1>1. IInv => TypeOK
  BY DEF IInv
<1> QED  BY <1>1, Invariant, PTL

(* set, cancel, cancel_session and poll_expired keep by_key and            *)
(* by_deadline in agreement, whatever calls are made in whatever order.    *)
THEOREM Agreement == Spec => []IndexesAgree
<1>1. IInv => IndexesAgree
  BY DEF IInv
<1> QED  BY <1>1, Invariant, PTL

(* When the loop of handle_timer_tick ends no armed timer is overdue.      *)
THEOREM TickDrains == Spec => []NothingOverdue
<1>1. IInv => NothingOverdue
  BY DEF IInv
<1> QED  BY <1>1, Invariant, PTL

(* handle_timer_tick handles expired timers by deadline, none too early.   *)
THEOREM InOrder == Spec => []ExpiredInOrder
<1>1. IInv => ExpiredInOrder
  BY DEF IInv
<1> QED  BY <1>1, Invariant, PTL

(* cancel_session cancels the timers of its session and no others: the     *)
(* derived order of TimerKey makes its range exact.                        *)
THEOREM CancelIsExact == Spec => CancelsExactly
<1>1. ASSUME IInv, NEW s \in Sessions, CancelSession(s)
      PROVE  DOMAIN byKey' = {k \in DOMAIN byKey : Session(k) # s}
  <2>1. DOMAIN byKey' = DOMAIN byKey \ SessionRange(s)
    BY <1>1 DEF CancelSession, CancelKeys
  <2>2. SessionRange(s) = {k \in DOMAIN byKey : Session(k) = s}
    BY <1>1, RangeIsSession DEF IInv
  <2> QED  BY <2>1, <2>2
<1>2. IInv /\ [Next]_vars =>
        [\A s \in Sessions : CancelSession(s) =>
           DOMAIN byKey' = {k \in DOMAIN byKey : Session(k) # s}]_vars
  BY <1>1
<1> QED  BY <1>2, Invariant, PTL DEF CancelsExactly, Spec
=============================================================================
