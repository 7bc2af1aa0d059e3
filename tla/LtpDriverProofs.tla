-------------------------- MODULE LtpDriverProofs --------------------------
(***************************************************************************)
(* Proofs about the LTP convergence layer, for any stations, bundles and   *)
(* blocks, on both transports, whatever is lost, duplicated or reordered   *)
(* and however often the driver is shut down and started again: a bundle   *)
(* that was accepted has exactly one outcome, reported or owed, and no     *)
(* green block reaches the BPA with a hole in it.                          *)
(***************************************************************************)
EXTENDS LtpDriver, TLAPS, FiniteSetTheorems, SequenceTheorems, WellFoundedInduction

(* A finite sequence, of whatever. *)
IsList(s) == Len(s) \in Nat /\ s = [i \in 1 .. Len(s) |-> s[i]]

(* The fields of the driver. *)
Fields == {"e2a", "a2e", "pending", "green", "next", "sess", "peer", "out", "notices", "calls"}
Shaped(x) == x = [f \in Fields |-> x[f]]

(* How a session ends, and the notice of it. *)
Ends == {"completed", "cancelled"}
EndNotice(r) == r.kind \in Ends /\ r.id \in Numbers
DataNotice(r) ==
  \/ r.kind = "red"
  \/ r.kind = "green" /\ r.id \in Incoming /\ r.at \in 1 .. GreenLen[r.id]

(* What the parts of the driver that the properties speak of look like.    *)
(* The address tables, the peers of sessions and the segments queued may   *)
(* hold anything.                                                          *)
Typed(x) ==
  /\ Shaped(x)
  /\ x.pending \in [Numbers -> Bundles \cup {None}]
  /\ x.sess \in [Numbers -> Int]
  /\ x.green = [g \in Incoming |-> x.green[g]]
  /\ x.next \in Nat \ {0}
  /\ IsList(x.notices)

(* No two sessions carry one bundle, and a new session has no number that  *)
(* is in use.                                                              *)
Correlated(x) ==
  /\ \A m, n \in Numbers : x.pending[m] = x.pending[n] /\ x.pending[m] # None => m = n
  /\ \A n \in Numbers : x.next <= n => x.pending[n] = None

(* The outcomes of b among the calls not yet made. *)
Calling(x, b) == {k.op : k \in {c \in x.calls : c.op \in Ends /\ c.id = b}}
Owes(x, b) == \E n \in Numbers : x.pending[n] = b

(* Of the bundles A that were accepted each is in one of three places: its *)
(* outcome o[b] was reported, is being reported, or is owed; the others    *)
(* are in none.                                                            *)
Placed(x, A, o, b) ==
  \/ b \notin A /\ Len(o[b]) = 0 /\ ~Owes(x, b) /\ Calling(x, b) = {}
  \/ b \in A /\ Len(o[b]) = 1 /\ ~Owes(x, b) /\ Calling(x, b) = {}
  \/ b \in A /\ Len(o[b]) = 0 /\ Owes(x, b) /\ Calling(x, b) = {}
  \/ b \in A /\ Len(o[b]) = 0 /\ ~Owes(x, b) /\ \E e \in Ends : Calling(x, b) = {e}

(* The notices from place i on announce the end of session n. *)
Announced(notices, i, n) ==
  \E j \in i .. Len(notices) : notices[j].kind \in Ends /\ notices[j].id = n

(* A session that owes an outcome runs, or has ended and will be noticed. *)
Covered(x, notices, i) ==
  \A n \in Numbers : x.pending[n] # None => x.sess[n] >= 0 \/ Announced(notices, i, n)

(* The driver at any point of a step, with the bundles accepted and the    *)
(* outcomes reported.  There are numbers left for the bundles to come.     *)
Sound(x, A, o) ==
  /\ Typed(x) /\ Correlated(x)
  /\ \A b \in Bundles : Placed(x, A, o, b)
  /\ x.next <= Cardinality(A) + 1

(* A reassembly holds the segments that are no longer on their way, and    *)
(* counts each once; unless one was duplicated.                            *)
Counts(r, g, on) ==
  /\ r.data \subseteq 1 .. GreenLen[g]
  /\ r.got = Cardinality(r.data)
  /\ r.total \in {None, GreenLen[g]}
  /\ \A at \in r.data : <<g, at>> \notin on

Assembled(green, on, doubled) ==
  \A g \in Incoming \ doubled : green[g] # None => Counts(green[g], g, on)

Accepted == {b \in Bundles : bundle[b] = "accepted"}

(* A forward waits for its answer as long as its command is queued. *)
Commanded ==
  /\ IsList(cmds)
  /\ \A i \in 1 .. Len(cmds) :
       /\ cmds[i].op \in {"forward", "register", "unregister", "shutdown"}
       /\ cmds[i].op = "shutdown" => cmds[i] = ShutdownCmd
       /\ cmds[i].op = "forward" => cmds[i].b \in Bundles /\ bundle[cmds[i].b] = "queued"
  /\ \A i, j \in 1 .. Len(cmds) :
       cmds[i].op = "forward" /\ cmds[j].op = "forward" /\ cmds[i].b = cmds[j].b => i = j

(* Between two steps nothing is left to be called, and the only notices    *)
(* left are of sessions that ended.                                        *)
Rested(x) == x.calls = {} /\ \A i \in 1 .. Len(x.notices) : EndNotice(x.notices[i])

Answering ==
  /\ bundle = [b \in Bundles |-> bundle[b]]
  /\ outcome \in [Bundles -> Seq(Ends)]
  /\ Commanded
  /\ Sound(d, Accepted, outcome) /\ Covered(d, d.notices, 1) /\ Rested(d)
  /\ drv = "off" => \A n \in Numbers : d.pending[n] = None

Whole ==
  /\ \A s \in air : \/ s[2] = 0
                    \/ s[1] \in Incoming /\ s[2] \in 1 .. GreenLen[s[1]] /\ s = <<s[1], s[2]>>
  /\ Assembled(d.green, air, dups)

(* The inductive invariant. *)
IInv == Answering /\ Whole /\ GreenIsWhole

-----------------------------------------------------------------------------
(* Lists.                                                                  *)

(* A list is a sequence over its own elements. *)
LEMMA ListIsSeq ==
  ASSUME NEW s, IsList(s)
  PROVE  \E S : s \in Seq(S)
<1> DEFINE S == {s[i] : i \in 1 .. Len(s)}
<1>1. s \in [1 .. Len(s) -> S]
  BY DEF IsList
<1>2. s \in Seq(S)
  BY <1>1, SeqDef DEF IsList
<1> QED  BY <1>2

(* A sequence over any set is a list. *)
LEMMA SeqIsList ==
  ASSUME NEW S, NEW s \in Seq(S)
  PROVE  IsList(s)
  BY DEF IsList

(* A new queue is a list, of length 0. *)
LEMMA EmptyIsList ==
  IsList(<<>>) /\ Len(<<>>) = 0
<1>1. <<>> \in Seq({})
  OBVIOUS
<1> QED  BY <1>1, SeqIsList

(* A queue with one more at its end, and without its first. *)
LEMMA Appended ==
  ASSUME NEW s, IsList(s), NEW r
  PROVE  /\ IsList(Append(s, r)) /\ Len(Append(s, r)) = Len(s) + 1
         /\ \A i \in 1 .. Len(s) : Append(s, r)[i] = s[i]
         /\ Append(s, r)[Len(s) + 1] = r
<1>1. PICK S : s \in Seq(S)
  BY ListIsSeq
<1> DEFINE T == S \cup {r}
<1>2. s \in Seq(T) /\ r \in T
  BY <1>1
<1> HIDE DEF T
<1>3. Append(s, r) \in Seq(T)
  BY <1>2
<1>4. IsList(Append(s, r))
  BY <1>3, SeqIsList
<1> QED  BY <1>2, <1>4

(* What is left when the first of a queue is taken. *)
LEMMA Taken ==
  ASSUME NEW s, IsList(s), s # <<>>
  PROVE  /\ IsList(Tail(s)) /\ Len(s) > 0 /\ Len(Tail(s)) = Len(s) - 1
         /\ \A i \in 1 .. Len(Tail(s)) : Tail(s)[i] = s[i + 1]
         /\ Head(s) = s[1]
<1>1. PICK S : s \in Seq(S)
  BY ListIsSeq
<1>2. Tail(s) \in Seq(S)
  BY <1>1
<1>3. IsList(Tail(s))
  BY <1>2, SeqIsList
<1> QED  BY <1>1, <1>3

(* The elements of a set, in an order: of none, and of one. *)
LEMMA NoneInSeq ==
  SetToSeq({}) = <<>>
<1> DEFINE F == {f \in [1 .. 0 -> {}] : IsInjective(f)}
<1>1. SetToSeq({}) = CHOOSE f \in [1 .. 0 -> {}] : IsInjective(f)
  <2>1. Cardinality({}) = 0
    BY FS_EmptySet
  <2> QED  BY <2>1 DEF SetToSeq
<1>2. <<>> \in [1 .. 0 -> {}] /\ IsInjective(<<>>)
  BY DEF IsInjective
<1>3. SetToSeq({}) \in [1 .. 0 -> {}]
  BY <1>1, <1>2
<1> QED  BY <1>2, <1>3

(* The sequence of one outcome, as Becomes adds it. *)
LEMMA OneInSeq ==
  ASSUME NEW e
  PROVE  SetToSeq({e}) = <<e>>
<1>1. SetToSeq({e}) = CHOOSE f \in [1 .. 1 -> {e}] : IsInjective(f)
  <2>1. Cardinality({e}) = 1
    BY FS_Singleton
  <2> QED  BY <2>1 DEF SetToSeq
<1>2. <<e>> \in [1 .. 1 -> {e}] /\ IsInjective(<<e>>)
  BY DEF IsInjective
<1>3. SetToSeq({e}) \in [1 .. 1 -> {e}]
  BY <1>1, <1>2
<1>4. \A f, g \in [1 .. 1 -> {e}] : f = g
  OBVIOUS
<1> QED  BY <1>2, <1>3, <1>4

(* A set of naturals that holds 0 and every successor is all of them. *)
LEMMA Counting ==
  ASSUME NEW S \in SUBSET Nat, 0 \in S, \A n \in S : n + 1 \in S
  PROVE  S = Nat
<1>1. SUFFICES ASSUME Nat \ S # {} PROVE FALSE
  OBVIOUS
<1> DEFINE T == Nat \ S
<1>2. IsWellFoundedOn(OpToRel(<, Nat), Nat)
  BY NatLessThanWellFounded
<1>3. T \in SUBSET Nat /\ T # {}
  BY <1>1
<1> HIDE DEF T
<1>4. PICK x \in T : \A y \in T : <<y, x>> \notin OpToRel(<, Nat)
  BY <1>2, <1>3, WFMin, Zenon
<1>5. \A y \in T : y < x => <<y, x>> \in OpToRel(<, Nat)
  BY <1>3 DEF OpToRel
<1>6. \A y \in T : ~(y < x)
  BY <1>4, <1>5, Zenon
<1>7. x \in Nat /\ x # 0 /\ x \notin S
  BY <1>4 DEF T
<1>8. x - 1 \in Nat /\ x - 1 < x
  BY <1>7
<1>9. x - 1 \in S
  BY <1>6, <1>8 DEF T
<1> QED  BY <1>7, <1>9

-----------------------------------------------------------------------------
(* Draining the notices.                                                   *)

(* A set of positions has a last one. *)
LEMMA LastOfSet ==
  ASSUME NEW n \in Nat, NEW s \in SUBSET (1 .. n), s # {}
  PROVE  Max(s) \in s /\ \A k \in s : k <= Max(s)
<1> DEFINE T == {n - k : k \in s}
<1>1. IsWellFoundedOn(OpToRel(<, Nat), Nat)
  BY NatLessThanWellFounded
<1>2. T \in SUBSET Nat /\ T # {}
  OBVIOUS
<1>3. \A k \in s : n - k \in T
  OBVIOUS
<1>4. \A m \in T : \E k \in s : m = n - k
  OBVIOUS
<1> HIDE DEF T
<1>5. PICK m \in T : \A y \in T : <<y, m>> \notin OpToRel(<, Nat)
  BY <1>1, <1>2, WFMin, Zenon
<1>6. \A y \in T : y < m => <<y, m>> \in OpToRel(<, Nat)
  BY <1>2 DEF OpToRel
<1>7. \A y \in T : ~(y < m)
  BY <1>5, <1>6, Zenon
<1>8. PICK l \in s : m = n - l
  BY <1>4
<1>9. \A k \in s : l >= k
  BY <1>3, <1>7, <1>8
<1>10. Max(s) \in s /\ \A k \in s : Max(s) >= k
  BY <1>9 DEF Max
<1> QED  BY <1>10

(* The positions of a queue but its last. *)
LEMMA LastOfRange ==
  ASSUME NEW n \in Nat, n > 0
  PROVE  Max(1 .. n) = n /\ (1 .. n) \ {n} = 1 .. n - 1
<1> DEFINE s == 1 .. n
<1>0. s \in SUBSET (1 .. n) /\ n \in s
  OBVIOUS
<1>1. Max(s) \in s /\ \A k \in s : k <= Max(s)
  BY <1>0, LastOfSet
<1>2. Max(1 .. n) = n
  BY <1>1
<1> QED  BY <1>2

(* F is the driver x after each set of its notices. *)
Draining(F, x) ==
  F = [s \in SUBSET DOMAIN x.notices |->
         IF s = {} THEN [x EXCEPT !.notices = <<>>]
         ELSE AfterNotice(F[s \ {Max(s)}], x.notices[Max(s)])]

(* There is such a function: it is built set size by set size. *)
LEMMA DrainingExists ==
  ASSUME NEW x, IsList(x.notices)
  PROVE  \E F : Draining(F, x)
<1> DEFINE l == Len(x.notices)
           X == 1 .. l
           base == [x EXCEPT !.notices = <<>>]
           small(n) == {u \in SUBSET X : Cardinality(u) <= n}
           upTo(F, n) ==
             F = [s \in small(n) |-> IF s = {} THEN base ELSE AfterNotice(F[s \ {Max(s)}], x.notices[Max(s)])]
           S == {n \in Nat : \E F : upTo(F, n)}
<1>1. l \in Nat /\ DOMAIN x.notices = X
  BY DEF IsList
<1>2. IsFiniteSet(X) /\ Cardinality(X) \in Nat
  <2>1. 1 \in Int /\ l \in Int
    BY <1>1
  <2>2. IsFiniteSet(X)
    BY <2>1, FS_Interval
  <2> QED  BY <2>2, FS_CardinalityType
<1>3. \A u \in SUBSET X : IsFiniteSet(u) /\ Cardinality(u) \in Nat /\ Cardinality(u) <= Cardinality(X)
                          /\ (Cardinality(u) = 0 <=> u = {})
  BY <1>2, FS_Subset, FS_CardinalityType, FS_EmptySet
<1>4. \A u \in SUBSET X : u # {} =>
        u \ {Max(u)} \in SUBSET X /\ Cardinality(u \ {Max(u)}) = Cardinality(u) - 1
  <2>1. SUFFICES ASSUME NEW u \in SUBSET X, u # {}
                 PROVE  Cardinality(u \ {Max(u)}) = Cardinality(u) - 1
    OBVIOUS
  <2>2. Max(u) \in u
    BY <1>1, <2>1, LastOfSet
  <2> QED  BY <1>3, <2>2, FS_RemoveElement
<1> HIDE DEF base, l, X
<1>5. 0 \in S
  <2>1. \A u \in small(0) : u = {}
    BY <1>3
  <2>2. upTo([s \in small(0) |-> base], 0)
    BY <2>1
  <2> QED  BY <2>2
<1>6. ASSUME NEW n \in S PROVE n + 1 \in S
  <2>1. n \in Nat
    OBVIOUS
  <2>2. PICK F : upTo(F, n)
    OBVIOUS
  <2> DEFINE G == [s \in small(n + 1) |-> IF s \in small(n) THEN F[s]
                                          ELSE AfterNotice(F[s \ {Max(s)}], x.notices[Max(s)])]
  <2>3. ASSUME NEW s \in small(n + 1)
        PROVE  G[s] = IF s = {} THEN base ELSE AfterNotice(G[s \ {Max(s)}], x.notices[Max(s)])
    <3>1. CASE s = {}
      <4>1. s \in small(n)
        BY <1>3, <2>1, <3>1
      <4> QED  BY <2>2, <3>1, <4>1
    <3>2. CASE s # {}
      <4> DEFINE v == s \ {Max(s)}
      <4>1. v \in SUBSET X /\ Cardinality(v) = Cardinality(s) - 1 /\ Cardinality(s) \in Nat /\ Cardinality(s) <= n + 1
        BY <1>3, <1>4, <3>2
      <4>2. v \in small(n) /\ v \in small(n + 1)
        BY <4>1, <2>1
      <4>3. G[v] = F[v]
        BY <4>2
      <4>4. G[s] = AfterNotice(F[v], x.notices[Max(s)])
        BY <2>2, <3>2
      <4> QED  BY <4>3, <4>4, <3>2
    <3> QED  BY <3>1, <3>2
  <2>4. upTo(G, n + 1)
    BY <2>3
  <2> HIDE DEF G, upTo
  <2>5. \E H : upTo(H, n + 1)
    BY <2>4
  <2> QED  BY <2>1, <2>5
<1>7. S = Nat
  <2> HIDE DEF S
  <2>1. S \in SUBSET Nat
    BY DEF S
  <2> QED  BY <1>5, <1>6, <2>1, Counting
<1>8. PICK F : upTo(F, Cardinality(X))
  BY <1>2, <1>7
<1>9. small(Cardinality(X)) = SUBSET X
  BY <1>3
<1> QED  BY <1>1, <1>8, <1>9 DEF Draining, base

(* Noticed goes through the notices in their order. *)
LEMMA NoticedInOrder ==
  ASSUME NEW x, IsList(x.notices)
  PROVE  \E run : /\ run[0] = [x EXCEPT !.notices = <<>>]
                  /\ \A k \in 1 .. Len(x.notices) : run[k] = AfterNotice(run[k - 1], x.notices[k])
                  /\ Noticed(x) = run[Len(x.notices)]
<1> DEFINE l == Len(x.notices)
           base == [x EXCEPT !.notices = <<>>]
           F == CHOOSE G : Draining(G, x)
<1>1. l \in Nat /\ DOMAIN x.notices = 1 .. l
  BY DEF IsList
<1>2. Noticed(x) = F[DOMAIN x.notices]
  BY DEF Noticed, FoldLeft, MapThenFoldSet, Draining
<1>3. Draining(F, x)
  <2>1. \E G : Draining(G, x)
    BY DrainingExists
  <2> QED  BY <2>1
<1> HIDE DEF F
<1>4. F[{}] = base
  BY <1>3 DEF Draining
<1>5. \A k \in 1 .. l : F[1 .. k] = AfterNotice(F[1 .. k - 1], x.notices[k])
  <2> TAKE k \in 1 .. l
  <2>1. Max(1 .. k) = k /\ (1 .. k) \ {k} = 1 .. k - 1
    BY <1>1, LastOfRange
  <2>2. 1 .. k \in SUBSET DOMAIN x.notices /\ 1 .. k # {}
    <3>1. k \in Nat /\ k <= l /\ k > 0
      BY <1>1
    <3>2. 1 .. k \subseteq 1 .. l /\ k \in 1 .. k
      BY <1>1, <3>1
    <3> QED  BY <1>1, <3>2
  <2>3. F[1 .. k] = AfterNotice(F[(1 .. k) \ {Max(1 .. k)}], x.notices[Max(1 .. k)])
    BY <1>3, <2>2 DEF Draining
  <2> QED  BY <2>1, <2>3
<1> DEFINE run == [k \in 0 .. l |-> F[1 .. k]]
<1>6. run[0] = base
  BY <1>1, <1>4
<1>7. \A k \in 1 .. l : run[k] = AfterNotice(run[k - 1], x.notices[k])
  <2> TAKE k \in 1 .. l
  <2>1. k \in 0 .. l /\ k - 1 \in 0 .. l
    BY <1>1
  <2>2. run[k] = F[1 .. k] /\ run[k - 1] = F[1 .. k - 1]
    BY <2>1
  <2> QED  BY <1>5, <2>2
<1>8. Noticed(x) = run[l]
  BY <1>1, <1>2
<1> QED  BY <1>6, <1>7, <1>8

-----------------------------------------------------------------------------
(* What an event does to the driver.                                       *)

(* The calls but those that announce a peer. *)
Told(x) == {k \in x.calls : k.op # "add_peer"}

(* Sessions are left alone, or only tried again. *)
Keeps(x, y) ==
  /\ Shaped(y)
  /\ y.pending = x.pending /\ y.green = x.green /\ y.next = x.next /\ y.notices = x.notices
  /\ Told(y) = Told(x)
  /\ y.sess \in [Numbers -> Int] /\ \A n \in Numbers : x.sess[n] >= 0 => y.sess[n] >= 0

(* Notice r is queued; if it says so, its session ends. *)
Queues(x, y, r) ==
  /\ Shaped(y)
  /\ y.pending = x.pending /\ y.green = x.green /\ y.next = x.next /\ y.notices = Append(x.notices, r)
  /\ Told(y) = Told(x)
  /\ y.sess \in [Numbers -> Int]
  /\ \A n \in Numbers : x.sess[n] >= 0 => y.sess[n] >= 0 \/ (r.kind \in Ends /\ r.id = n)

(* The next session starts, with bundle b. *)
Starts(x, y, b) ==
  /\ Shaped(y)
  /\ y.green = x.green /\ y.notices = x.notices /\ Told(y) = Told(x)
  /\ y.next = x.next + 1
  /\ y.pending = [x.pending EXCEPT ![x.next] = b] /\ y.sess = [x.sess EXCEPT ![x.next] = 0]

(* The driver with the notices it has, and of which it drops none. *)
Fit(x, A, o) == Sound(x, A, o) /\ Covered(x, x.notices, 1)
Closing(x) == \A i \in 1 .. Len(x.notices) : EndNotice(x.notices[i])

(* The outcomes a step reports depend on its completions and cancellations only. *)
LEMMA SameTold ==
  ASSUME NEW x, NEW y, Told(y) = Told(x), NEW b
  PROVE  Calling(y, b) = Calling(x, b)
<1>1. \A k : k.op \in Ends => (k \in y.calls <=> k \in x.calls)
  BY DEF Told, Ends
<1> QED  BY <1>1 DEF Calling

(* A bundle stays where it is when no session and no report of it changes. *)
LEMMA SamePlaced ==
  ASSUME NEW x, NEW y, y.pending = x.pending, Told(y) = Told(x), NEW A, NEW o, NEW b, Placed(x, A, o, b)
  PROVE  Placed(y, A, o, b)
<1>1. Calling(y, b) = Calling(x, b)
  BY SameTold
<1>2. Owes(y, b) <=> Owes(x, b)
  BY DEF Owes
<1> QED  BY <1>1, <1>2 DEF Placed

(* A step that leaves the correlation alone leaves the driver fit. *)
LEMMA KeepsFit ==
  ASSUME NEW x, NEW y, NEW A, NEW o, Fit(x, A, o), Keeps(x, y)
  PROVE  Fit(y, A, o)
<1>1. Typed(y)
  BY DEF Fit, Sound, Keeps, Typed
<1>2. Correlated(y) /\ y.next <= Cardinality(A) + 1
  BY DEF Fit, Sound, Keeps, Correlated
<1>3. \A b \in Bundles : Placed(y, A, o, b)
  BY SamePlaced DEF Fit, Sound, Keeps
<1>4. Covered(y, y.notices, 1)
  BY DEF Fit, Covered, Keeps
<1> QED  BY <1>1, <1>2, <1>3, <1>4 DEF Fit, Sound

(* What was announced still is when another notice is queued. *)
LEMMA StillAnnounced ==
  ASSUME NEW s, IsList(s), NEW r, NEW n
  PROVE  /\ Announced(s, 1, n) => Announced(Append(s, r), 1, n)
         /\ r.kind \in Ends /\ r.id = n => Announced(Append(s, r), 1, n)
<1> DEFINE t == Append(s, r)
<1>1. /\ Len(s) \in Nat /\ Len(t) = Len(s) + 1
      /\ \A i \in 1 .. Len(s) : t[i] = s[i]
      /\ t[Len(s) + 1] = r
  BY Appended DEF IsList
<1> HIDE DEF t
<1>2. Announced(s, 1, n) => Announced(t, 1, n)
  BY <1>1 DEF Announced
<1>3. r.kind \in Ends /\ r.id = n => Announced(t, 1, n)
  <2>1. Len(s) + 1 \in 1 .. Len(t)
    BY <1>1
  <2> QED  BY <1>1, <2>1 DEF Announced
<1> QED  BY <1>2, <1>3 DEF t

(* So does one that queues a notice, which covers one more bundle. *)
LEMMA QueuesFit ==
  ASSUME NEW x, NEW y, NEW r, NEW A, NEW o, Fit(x, A, o), Queues(x, y, r)
  PROVE  /\ Fit(y, A, o)
         /\ Closing(x) /\ EndNotice(r) => Closing(y)
<1>0. IsList(x.notices) /\ y.notices = Append(x.notices, r)
  BY DEF Fit, Sound, Typed, Queues
<1>1. Typed(y)
  <2>1. IsList(y.notices)
    BY <1>0, Appended
  <2> QED  BY <2>1 DEF Fit, Sound, Queues, Typed
<1>2. Correlated(y) /\ y.next <= Cardinality(A) + 1
  BY DEF Fit, Sound, Queues, Correlated
<1>3. \A b \in Bundles : Placed(y, A, o, b)
  BY SamePlaced DEF Fit, Sound, Queues
<1>4. ASSUME NEW n \in Numbers, y.pending[n] # None, ~(y.sess[n] >= 0)
      PROVE  Announced(y.notices, 1, n)
  <2>1. x.sess[n] >= 0 \/ Announced(x.notices, 1, n)
    BY <1>4 DEF Fit, Covered, Queues
  <2>2. Announced(x.notices, 1, n) \/ (r.kind \in Ends /\ r.id = n)
    BY <1>4, <2>1 DEF Queues
  <2> QED  BY <1>0, <2>2, StillAnnounced
<1>5. ASSUME Closing(x), EndNotice(r) PROVE Closing(y)
  BY <1>0, <1>5, Appended DEF Closing, IsList
<1> QED  BY <1>1, <1>2, <1>3, <1>4, <1>5 DEF Fit, Sound, Covered

(* So does a new session, for the bundles accepted so far and its own. *)
LEMMA StartsFit ==
  ASSUME NEW x, NEW y, NEW A \in SUBSET Bundles, NEW b \in Bundles \ A, NEW o, Fit(x, A, o), Starts(x, y, b)
  PROVE  x.next \in Numbers /\ Fit(y, A \cup {b}, o)
<1> DEFINE B == A \cup {b}
           n == x.next
<1>1. IsFiniteSet(Bundles)
  BY DriverAssumption, FS_Subset
<1>2. IsFiniteSet(A) /\ IsFiniteSet(B)
  BY <1>1, FS_Subset
<1>3. Cardinality(A) \in Nat /\ Cardinality(B) = Cardinality(A) + 1 /\ Cardinality(B) <= Cardinality(Bundles)
      /\ Cardinality(Bundles) \in Nat
  <2>1. Cardinality(B) = Cardinality(A) + 1
    BY <1>2, FS_AddElement
  <2>2. Cardinality(B) <= Cardinality(Bundles)
    BY <1>1, FS_Subset
  <2> QED  BY <1>1, <1>2, <2>1, <2>2, FS_CardinalityType
<1>4. Typed(x) /\ Correlated(x) /\ n \in Nat \ {0} /\ n <= Cardinality(A) + 1
  BY DEF Fit, Sound, Typed
<1>5. n \in Numbers /\ x.pending[n] = None
  <2>1. n \in Numbers
    BY <1>3, <1>4 DEF Numbers
  <2> QED  BY <1>4, <2>1 DEF Correlated
<1>6. /\ Shaped(y) /\ y.green = x.green /\ y.notices = x.notices /\ Told(y) = Told(x) /\ y.next = n + 1
      /\ y.pending = [x.pending EXCEPT ![n] = b] /\ y.sess = [x.sess EXCEPT ![n] = 0]
  BY DEF Starts
<1>7. /\ x.pending \in [Numbers -> Bundles \cup {None}] /\ x.sess \in [Numbers -> Int] /\ b # None /\ b \in Bundles
  BY <1>4, DriverAssumption DEF Typed
<1>8. ~Owes(x, b) /\ Placed(x, A, o, b)
  BY DEF Fit, Sound, Placed
<1>9. Typed(y)
  BY <1>4, <1>5, <1>6, <1>7 DEF Typed
<1>10. Correlated(y)
  <2>1. ASSUME NEW i \in Numbers, NEW j \in Numbers, y.pending[i] = y.pending[j], y.pending[i] # None
        PROVE  i = j
    <3>1. CASE i # n /\ j # n
      BY <1>4, <1>5, <1>6, <1>7, <2>1, <3>1 DEF Correlated
    <3>2. CASE i # n /\ j = n
      <4>1. x.pending[i] = b
        BY <1>5, <1>6, <1>7, <2>1, <3>2
      <4> QED  BY <1>8, <4>1 DEF Owes
    <3>3. CASE i = n /\ j # n
      <4>1. x.pending[j] = b
        BY <1>5, <1>6, <1>7, <2>1, <3>3
      <4> QED  BY <1>8, <4>1 DEF Owes
    <3> QED  BY <3>1, <3>2, <3>3
  <2>2. ASSUME NEW i \in Numbers, y.next <= i PROVE y.pending[i] = None
    <3>1. n <= i /\ i # n
      BY <1>4, <1>6, <2>2 DEF Numbers
    <3> QED  BY <1>4, <1>5, <1>6, <1>7, <3>1 DEF Correlated
  <2> QED  BY <2>1, <2>2 DEF Correlated
<1>11. ASSUME NEW c \in Bundles PROVE Placed(y, B, o, c)
  <2>1. Placed(x, A, o, c) /\ Calling(y, c) = Calling(x, c)
    BY <1>6, SameTold DEF Fit, Sound
  <2>2. CASE c = b
    <3>1. Owes(y, b)
      BY <1>5, <1>6, <1>7 DEF Owes
    <3> QED  BY <1>8, <2>1, <2>2, <3>1 DEF Placed
  <2>3. CASE c # b
    <3>1. c # None
      BY DriverAssumption
    <3>2. \A m \in Numbers : y.pending[m] = c <=> x.pending[m] = c
      BY <1>5, <1>6, <1>7, <2>3, <3>1
    <3>3. Owes(y, c) <=> Owes(x, c)
      BY <3>2 DEF Owes
    <3> QED  BY <2>1, <2>3, <3>3 DEF Placed
  <2> QED  BY <2>2, <2>3
<1>12. Covered(y, y.notices, 1)
  BY <1>5, <1>6, <1>7 DEF Fit, Covered
<1>13. y.next <= Cardinality(B) + 1
  BY <1>3, <1>4, <1>6
<1> QED  BY <1>5, <1>9, <1>10, <1>11, <1>12, <1>13 DEF Fit, Sound

-----------------------------------------------------------------------------
(* The events.                                                             *)

(* A step that does nothing leaves the correlation alone. *)
LEMMA KeepsItself ==
  ASSUME NEW x, Typed(x)
  PROVE  Keeps(x, x)
  BY DEF Typed, Keeps

(* Two such steps do. *)
LEMMA KeepsOn ==
  ASSUME NEW x, NEW y, NEW z, Keeps(x, y), Keeps(y, z)
  PROVE  Keeps(x, z)
  BY DEF Keeps

(* Such a step keeps the shape of the driver. *)
LEMMA KeepsTyped ==
  ASSUME NEW x, NEW y, Typed(x), Keeps(x, y)
  PROVE  Typed(y)
  BY DEF Typed, Keeps

(* Such a step before a notice is queued does not show. *)
LEMMA KeepsThenQueues ==
  ASSUME NEW x, NEW y, NEW z, NEW r, Keeps(x, y), Queues(y, z, r)
  PROVE  Queues(x, z, r)
  BY DEF Keeps, Queues

(* An output, the tables and the peers of sessions are no matter here. *)
LEMMA OutputKeeps ==
  ASSUME NEW x, Typed(x), NEW to, NEW n, NEW what
  PROVE  Keeps(x, Output(x, to, n, what))
<1> DEFINE r == [to |-> to, n |-> n, what |-> what]
           o == Append(x.out, r)
           y == [x EXCEPT !.out = o]
<1>1. Output(x, to, n, what) = y
  BY DEF Output
<1> HIDE DEF o
<1>2. /\ Shaped(y) /\ y.pending = x.pending /\ y.green = x.green /\ y.next = x.next
      /\ y.notices = x.notices /\ y.calls = x.calls /\ y.sess = x.sess
  BY DEF Typed, Shaped, Fields
<1> HIDE DEF y
<1> QED  BY <1>1, <1>2 DEF Keeps, Typed, Told

(* drain_outputs sends what the engine queued. *)
LEMMA SentKeeps ==
  ASSUME NEW x, Typed(x)
  PROVE  Keeps(x, Sent(x))
<1> DEFINE y == [x EXCEPT !.out = <<>>]
<1>1. /\ Shaped(y) /\ y.pending = x.pending /\ y.green = x.green /\ y.next = x.next
      /\ y.notices = x.notices /\ y.calls = x.calls /\ y.sess = x.sess
  BY DEF Typed, Shaped, Fields
<1>2. Sent(x) = y
  BY DEF Sent
<1> HIDE DEF y
<1> QED  BY <1>1, <1>2 DEF Keeps, Typed, Told

(* The address tables are not part of the correlation. *)
LEMMA TablesKeep ==
  ASSUME NEW x, Typed(x), NEW s, NEW t
  PROVE  /\ Keeps(x, [x EXCEPT !.a2e = s, !.e2a = t])
         /\ Keeps(x, [x EXCEPT !.e2a = t, !.a2e = s])
<1>1. Keeps(x, [x EXCEPT !.a2e = s, !.e2a = t])
  <2> DEFINE y == [x EXCEPT !.a2e = s, !.e2a = t]
  <2>1. /\ Shaped(y) /\ y.pending = x.pending /\ y.green = x.green /\ y.next = x.next
        /\ y.notices = x.notices /\ y.calls = x.calls /\ y.sess = x.sess
    BY DEF Typed, Shaped, Fields
  <2> HIDE DEF y
  <2>2. Keeps(x, y)
    BY <2>1 DEF Keeps, Typed, Told
  <2> QED  BY <2>2 DEF y
<1>2. Keeps(x, [x EXCEPT !.e2a = t, !.a2e = s])
  <2> DEFINE y == [x EXCEPT !.e2a = t, !.a2e = s]
  <2>1. /\ Shaped(y) /\ y.pending = x.pending /\ y.green = x.green /\ y.next = x.next
        /\ y.notices = x.notices /\ y.calls = x.calls /\ y.sess = x.sess
    BY DEF Typed, Shaped, Fields
  <2> HIDE DEF y
  <2>2. Keeps(x, y)
    BY <2>1 DEF Keeps, Typed, Told
  <2> QED  BY <2>2 DEF y
<1> QED  BY <1>1, <1>2

(* add_peer is no outcome of a bundle. *)
LEMMA SpawnKeeps ==
  ASSUME NEW x, Typed(x), NEW e
  PROVE  Keeps(x, Spawn(x, [op |-> "add_peer", id |-> e, with |-> {}]))
<1> DEFINE k == [op |-> "add_peer", id |-> e, with |-> {}]
           c == x.calls \cup {k}
           y == [x EXCEPT !.calls = c]
<1>1. Spawn(x, k) = y
  BY DEF Spawn
<1>2. k.op = "add_peer"
  OBVIOUS
<1> HIDE DEF k
<1>3. {m \in c : m.op # "add_peer"} = {m \in x.calls : m.op # "add_peer"}
  BY <1>2
<1> HIDE DEF c
<1>4. /\ Shaped(y) /\ y.pending = x.pending /\ y.green = x.green /\ y.next = x.next
      /\ y.notices = x.notices /\ y.calls = c /\ y.sess = x.sess
  BY DEF Typed, Shaped, Fields
<1> HIDE DEF y
<1>5. Keeps(x, y)
  BY <1>3, <1>4 DEF Keeps, Typed, Told
<1> QED  BY <1>1, <1>5 DEF k

(* A session ends: its notice is queued. *)
LEMMA EndSessionQueues ==
  ASSUME NEW x, Typed(x), NEW n \in Numbers, NEW how \in Ends
  PROVE  \E r : EndNotice(r) /\ Queues(x, EndSession(x, n, how), r)
<1> DEFINE r == [kind |-> how, id |-> n, at |-> 0, stale |-> {}]
           s == [x.sess EXCEPT ![n] = -1]
           q == Append(x.notices, r)
           y == [x EXCEPT !.sess = s, !.notices = q]
<1>1. EndSession(x, n, how) = y
  BY DEF EndSession
<1>2. r.kind = how /\ r.id = n
  OBVIOUS
<1> HIDE DEF r
<1>3. s \in [Numbers -> Int] /\ \A m \in Numbers : x.sess[m] >= 0 => s[m] >= 0 \/ m = n
  BY DEF Typed
<1> HIDE DEF s, q
<1>4. /\ Shaped(y) /\ y.pending = x.pending /\ y.green = x.green /\ y.next = x.next
      /\ y.notices = q /\ y.calls = x.calls /\ y.sess = s
  BY DEF Typed, Shaped, Fields
<1> HIDE DEF y
<1>5. Queues(x, y, r)
  BY <1>2, <1>3, <1>4 DEF Queues, Told, q
<1>6. EndNotice(r)
  BY <1>2 DEF EndNotice
<1> QED  BY <1>1, <1>5, <1>6

(* A notice of the engine about data is queued. *)
LEMMA DataQueues ==
  ASSUME NEW x, Typed(x), NEW r
  PROVE  Queues(x, [x EXCEPT !.notices = Append(@, r)], r)
<1> DEFINE q == Append(x.notices, r)
           y == [x EXCEPT !.notices = q]
<1> HIDE DEF q
<1>1. /\ Shaped(y) /\ y.pending = x.pending /\ y.green = x.green /\ y.next = x.next
      /\ y.notices = q /\ y.calls = x.calls /\ y.sess = x.sess
  BY DEF Typed, Shaped, Fields
<1> HIDE DEF y
<1>2. Queues(x, y, r)
  BY <1>1 DEF Queues, Typed, Told, q
<1> QED  BY <1>2 DEF y, q

(* What an event other than a forward does: at most one session ends. *)
Moves(x, y) == Keeps(x, y) \/ \E r : EndNotice(r) /\ Queues(x, y, r)

(* After an event that ends at most one session the driver is fit, and every notice is an end. *)
LEMMA MovesFit ==
  ASSUME NEW x, NEW y, NEW A, NEW o, Fit(x, A, o), Closing(x), Moves(x, y)
  PROVE  Fit(y, A, o) /\ Closing(y) /\ y.green = x.green /\ Told(y) = Told(x)
<1>1. CASE Keeps(x, y)
  <2>1. Fit(y, A, o)
    BY <1>1, KeepsFit
  <2> QED  BY <1>1, <2>1 DEF Keeps, Closing
<1>2. CASE \E r : EndNotice(r) /\ Queues(x, y, r)
  <2>1. PICK r : EndNotice(r) /\ Queues(x, y, r)
    BY <1>2
  <2>2. Fit(y, A, o) /\ Closing(y)
    BY <2>1, QueuesFit
  <2> QED  BY <2>1, <2>2 DEF Queues
<1> QED  BY <1>1, <1>2 DEF Moves

(* Tables updated before such an event do not show. *)
LEMMA KeepsThenMoves ==
  ASSUME NEW x, NEW y, NEW z, Keeps(x, y), Moves(y, z)
  PROVE  Moves(x, z)
  BY KeepsOn, KeepsThenQueues DEF Moves

(* Registering a peer, and forgetting one. *)
LEMMA RegisteredKeeps ==
  ASSUME NEW x, Typed(x), NEW c
  PROVE  Keeps(x, Registered(x, c)) /\ Keeps(x, Unregistered(x, c))
<1>1. Keeps(x, Registered(x, c))
  <2> DEFINE t == [x.e2a EXCEPT ![c.e] = c.a]
             s == [x.a2e EXCEPT ![c.a] = c.e]
  <2>1. Registered(x, c) = [x EXCEPT !.e2a = t, !.a2e = s]
    BY DEF Registered
  <2> HIDE DEF s, t
  <2>2. Keeps(x, [x EXCEPT !.e2a = t, !.a2e = s])
    BY TablesKeep
  <2> QED  BY <2>1, <2>2
<1>2. Keeps(x, Unregistered(x, c))
  <2> DEFINE t == [x.e2a EXCEPT ![c.e] = None]
             s == IF x.e2a[c.e] = None THEN x.a2e ELSE [x.a2e EXCEPT ![x.e2a[c.e]] = None]
  <2>1. Unregistered(x, c) = [x EXCEPT !.e2a = t, !.a2e = s]
    BY DEF Unregistered
  <2> HIDE DEF s, t
  <2>2. Keeps(x, [x EXCEPT !.e2a = t, !.a2e = s])
    BY TablesKeep
  <2> QED  BY <2>1, <2>2
<1> QED  BY <1>1, <1>2

(* An address learned from a datagram touches the tables and reports a peer. *)
LEMMA LearnedKeeps ==
  ASSUME NEW x, Typed(x), NEW a, NEW e
  PROVE  Keeps(x, Learned(x, a, e))
<1> DEFINE table == IF Cardinality({b \in Addrs : x.a2e[b] # None}) >= MaxAddrs
                    THEN [b \in Addrs |-> None] ELSE x.a2e
           s == [table EXCEPT ![a] = e]
           t == [x.e2a EXCEPT ![e] = a]
           y == [x EXCEPT !.a2e = s, !.e2a = t]
           z == Spawn(y, [op |-> "add_peer", id |-> e, with |-> {}])
<1>1. Learned(x, a, e) = IF x.e2a[e] = None THEN z ELSE y
  BY DEF Learned
<1> HIDE DEF s, t
<1>2. Keeps(x, y)
  BY TablesKeep
<1> HIDE DEF y
<1>3. Keeps(y, z)
  BY <1>2, KeepsTyped, SpawnKeeps
<1> HIDE DEF z
<1>4. Keeps(x, z)
  BY <1>2, <1>3, KeepsOn
<1> QED  BY <1>1, <1>2, <1>4

(* Resolving the sender of a datagram touches no more than that. *)
LEMMA ResolvedKeeps ==
  ASSUME NEW x, Typed(x), NEW a, NEW p
  PROVE  Keeps(x, ResolvedUdp(x, a, p))
<1> DEFINE e == x.a2e[a]
           t == [x.e2a EXCEPT ![e] = a]
           y == [x EXCEPT !.e2a = t]
           z == Learned(x, a, Peeked(x, a, p))
<1>1. ResolvedUdp(x, a, p) \in {x, y, z}
  BY DEF ResolvedUdp
<1>2. Keeps(x, z)
  BY LearnedKeeps
<1> HIDE DEF t, z
<1>3. /\ Shaped(y) /\ y.pending = x.pending /\ y.green = x.green /\ y.next = x.next
      /\ y.notices = x.notices /\ y.calls = x.calls /\ y.sess = x.sess
  BY DEF Typed, Shaped, Fields
<1> HIDE DEF y
<1>4. Keeps(x, y)
  BY <1>3 DEF Keeps, Typed, Told
<1>5. Keeps(x, x)
  BY KeepsItself
<1> QED  BY <1>1, <1>2, <1>4, <1>5

(* An answer ends at most its session; noise does nothing. *)
LEMMA HandledMoves ==
  ASSUME NEW x, Typed(x), NEW p \in Answers \cup {Noise}, NEW from
  PROVE  Moves(x, Handled(x, p, from))
<1>1. \/ p.kind = "noise"
      \/ p.kind \in {"report", "cancel"} /\ p.id \in Numbers
  BY DEF Answers, Noise
<1>2. CASE p.kind = "noise"
  <2>1. Handled(x, p, from) = x
    BY <1>2 DEF Handled
  <2> QED  BY <2>1, KeepsItself DEF Moves
<1>3. CASE p.kind \in {"report", "cancel"}
  <2> DEFINE y == Output(x, IF Active(x, p.id) THEN x.peer[p.id] ELSE from, p.id, None)
             how == IF p.kind = "report" THEN "completed" ELSE "cancelled"
  <2>1. p.id \in Numbers /\ how \in Ends
    BY <1>1, <1>3 DEF Ends
  <2>2. Handled(x, p, from) = IF Active(x, p.id) THEN EndSession(y, p.id, how) ELSE y
    BY <1>3 DEF Handled
  <2>3. Keeps(x, y)
    BY OutputKeeps
  <2> HIDE DEF y, how
  <2>4. Typed(y)
    BY <2>3, KeepsTyped
  <2>5. Moves(y, EndSession(y, p.id, how))
    BY <2>1, <2>4, EndSessionQueues DEF Moves
  <2>6. Moves(x, EndSession(y, p.id, how)) /\ Moves(x, y)
    BY <2>3, <2>5, KeepsThenMoves DEF Moves
  <2> QED  BY <2>2, <2>6
<1> QED  BY <1>1, <1>2, <1>3

(* A report, a cancellation or noise ends at most one session. *)
LEMMA PacketMoves ==
  ASSUME NEW x, Typed(x), NEW p \in Answers \cup {Noise}, NEW a
  PROVE  Moves(x, AfterPacket(x, a, p)) /\ Moves(x, AfterFrame(x, p))
<1>1. Moves(x, AfterDatagram(x, a, p))
  <2> DEFINE y == ResolvedUdp(x, a, p)
             from == IF y.a2e[a] # None THEN y.a2e[a] ELSE a
  <2>1. AfterDatagram(x, a, p) = Handled(y, p, from)
    BY DEF AfterDatagram
  <2>2. Keeps(x, y)
    BY ResolvedKeeps
  <2> HIDE DEF y, from
  <2>3. Moves(y, Handled(y, p, from))
    BY <2>2, KeepsTyped, HandledMoves
  <2> QED  BY <2>1, <2>2, <2>3, KeepsThenMoves
<1>2. Moves(x, AfterFrame(x, p))
  BY HandledMoves DEF AfterFrame
<1> QED  BY <1>1, <1>2 DEF AfterPacket

(* The notice a segment of a block makes. *)
DataOf(s, stale) ==
  [kind |-> IF s[2] = 0 THEN "red" ELSE "green", id |-> s[1], at |-> s[2], stale |-> stale]

(* A data segment queues the notice of its own block. *)
LEMMA DataPacketQueues ==
  ASSUME NEW x, Typed(x), NEW s, NEW stale, NEW a
  PROVE  Queues(x, AfterPacket(x, a, Data(s, stale)), DataOf(s, stale))
<1> DEFINE p == Data(s, stale)
           r == DataOf(s, stale)
<1>1. p.kind \in {"red", "green"} /\ r = [kind |-> p.kind, id |-> p.id, at |-> p.at, stale |-> p.stale]
  BY DEF Data, DataOf
<1> HIDE DEF p, r
<1>2. ASSUME NEW y, Typed(y), NEW from PROVE Queues(y, Handled(y, p, from), r)
  <2>1. Handled(y, p, from) = [y EXCEPT !.notices = Append(@, r)]
    BY <1>1 DEF Handled
  <2> QED  BY <1>2, <2>1, DataQueues
<1>3. Queues(x, AfterDatagram(x, a, p), r)
  <2> DEFINE y == ResolvedUdp(x, a, p)
             from == IF y.a2e[a] # None THEN y.a2e[a] ELSE a
  <2>1. AfterDatagram(x, a, p) = Handled(y, p, from)
    BY DEF AfterDatagram
  <2>2. Keeps(x, y)
    BY ResolvedKeeps
  <2> HIDE DEF y, from
  <2>3. Queues(y, Handled(y, p, from), r)
    BY <1>2, <2>2, KeepsTyped
  <2> QED  BY <2>1, <2>2, <2>3, KeepsThenQueues
<1>4. Queues(x, AfterFrame(x, p), r)
  BY <1>2 DEF AfterFrame
<1> QED  BY <1>3, <1>4 DEF AfterPacket, p, r

(* A timer tries its session again or gives it up. *)
LEMMA TimerMoves ==
  ASSUME NEW x, Typed(x), NEW n \in Numbers
  PROVE  Moves(x, AfterTimer(x, n))
<1> DEFINE s == [x.sess EXCEPT ![n] = @ + 1]
           y == [x EXCEPT !.sess = s]
           z == Output(y, x.peer[n], n, x.pending[n])
           w == Output(x, x.peer[n], n, None)
<1>1. AfterTimer(x, n) = IF x.sess[n] < RtxLimit THEN z ELSE EndSession(w, n, "cancelled")
  BY DEF AfterTimer
<1>2. s \in [Numbers -> Int] /\ \A m \in Numbers : x.sess[m] >= 0 => s[m] >= 0
  BY DEF Typed
<1> HIDE DEF s
<1>3. /\ Shaped(y) /\ y.pending = x.pending /\ y.green = x.green /\ y.next = x.next
      /\ y.notices = x.notices /\ y.calls = x.calls /\ y.sess = s
  BY DEF Typed, Shaped, Fields
<1> HIDE DEF y
<1>4. Keeps(x, y)
  BY <1>2, <1>3 DEF Keeps, Told
<1>5. Keeps(y, z)
  BY <1>4, KeepsTyped, OutputKeeps
<1> HIDE DEF z
<1>6. Moves(x, z)
  BY <1>4, <1>5, KeepsOn DEF Moves
<1>7. Moves(x, EndSession(w, n, "cancelled"))
  <2>1. "cancelled" \in Ends
    BY DEF Ends
  <2>2. Keeps(x, w)
    BY OutputKeeps
  <2> HIDE DEF w
  <2>3. Moves(w, EndSession(w, n, "cancelled"))
    BY <2>1, <2>2, KeepsTyped, EndSessionQueues DEF Moves
  <2> QED  BY <2>2, <2>3, KeepsThenMoves DEF Moves
<1> QED  BY <1>1, <1>6, <1>7

(* The next session starts; a block without a red part ends it at once. *)
LEMMA RequestFits ==
  ASSUME NEW x, NEW A \in SUBSET Bundles, NEW b \in Bundles \ A, NEW o, NEW e,
         Fit(x, A, o), Closing(x)
  PROVE  LET y == RequestTransmission(x, b, e)
         IN  Fit(y, A \cup {b}, o) /\ Closing(y) /\ y.green = x.green /\ Told(y) = Told(x)
<1> DEFINE n == x.next
           m == n + 1
           s == [x.sess EXCEPT ![n] = 0]
           p == [x.peer EXCEPT ![n] = e]
           q == [x.pending EXCEPT ![n] = b]
           y == [x EXCEPT !.next = m, !.sess = s, !.peer = p, !.pending = q]
           z == Output(y, e, n, b)
           B == A \cup {b}
<1>1. RequestTransmission(x, b, e) = IF b \in GreenBundles THEN EndSession(z, n, "completed") ELSE z
  BY DEF RequestTransmission
<1>2. Typed(x)
  BY DEF Fit, Sound
<1> HIDE DEF m, s, p, q
<1>3. /\ Shaped(y) /\ y.pending = q /\ y.green = x.green /\ y.next = m
      /\ y.notices = x.notices /\ y.calls = x.calls /\ y.sess = s
  BY <1>2 DEF Typed, Shaped, Fields
<1> HIDE DEF y
<1>4. Starts(x, y, b)
  BY <1>3 DEF Starts, Told, m, s, q
<1>5. n \in Numbers /\ Fit(y, B, o)
  BY <1>4, StartsFit
<1>6. Closing(y)
  BY <1>3 DEF Closing
<1>7. Keeps(y, z)
  BY <1>5, OutputKeeps DEF Fit, Sound
<1> HIDE DEF z, B
<1>8. Typed(z)
  BY <1>5, <1>7, KeepsTyped DEF Fit, Sound
<1>9. Moves(z, EndSession(z, n, "completed"))
  <2>1. "completed" \in Ends
    BY DEF Ends
  <2> QED  BY <1>5, <1>8, <2>1, EndSessionQueues DEF Moves
<1>10. Moves(y, z) /\ Moves(y, EndSession(z, n, "completed"))
  BY <1>7, <1>9, KeepsThenMoves DEF Moves
<1>11. Moves(y, RequestTransmission(x, b, e))
  BY <1>1, <1>10
<1> DEFINE w == RequestTransmission(x, b, e)
<1> HIDE DEF w
<1>12. Moves(y, w)
  BY <1>11 DEF w
<1>13. Fit(w, B, o) /\ Closing(w) /\ w.green = y.green /\ Told(w) = Told(y)
  BY <1>5, <1>6, <1>12, MovesFit
<1>14. w.green = x.green /\ Told(w) = Told(x)
  BY <1>3, <1>13 DEF Told
<1> QED  BY <1>13, <1>14 DEF w, B

(* A forward is accepted if its engine has an address. *)
Granted(x, c) == c.op = "forward" /\ x.e2a[c.e] # None
WithGranted(x, c, A) == IF Granted(x, c) THEN A \cup {c.b} ELSE A

(* A command starts a session for the bundle it accepts, or changes the peers. *)
LEMMA CommandFits ==
  ASSUME NEW x, NEW A \in SUBSET Bundles, NEW o, NEW c, Fit(x, A, o), Closing(x),
         c.op \in {"forward", "register", "unregister"}, c.op = "forward" => c.b \in Bundles \ A
  PROVE  LET y == AfterCommand(x, c)
         IN  Fit(y, WithGranted(x, c, A), o) /\ Closing(y) /\ y.green = x.green /\ Told(y) = Told(x)
<1>1. Typed(x)
  BY DEF Fit, Sound
<1>2. CASE Granted(x, c)
  <2>1. AfterCommand(x, c) = RequestTransmission(x, c.b, c.e) /\ c.b \in Bundles \ A
        /\ WithGranted(x, c, A) = A \cup {c.b}
    BY <1>2 DEF AfterCommand, Granted, WithGranted
  <2> QED  BY <2>1, RequestFits
<1>3. CASE ~Granted(x, c)
  <2>1. WithGranted(x, c, A) = A
    BY <1>3 DEF WithGranted
  <2>2. AfterCommand(x, c) \in {x, Registered(x, c), Unregistered(x, c)}
    BY <1>3 DEF AfterCommand, Granted
  <2>3. Moves(x, AfterCommand(x, c))
    BY <1>1, <2>2, KeepsItself, RegisteredKeeps DEF Moves
  <2> QED  BY <2>1, <2>3, MovesFit
<1> QED  BY <1>2, <1>3

-----------------------------------------------------------------------------
(* One notice.                                                             *)

(* The blocks being handed to the BPA have no hole, but those of which a   *)
(* segment was duplicated; and the reassemblies are right.                 *)
HandedWhole(x, doubled) ==
  \A k \in x.calls : k.op = "dispatch" /\ k.id \notin doubled => k.with = {}
Filled(x, on, doubled) == Assembled(x.green, on, doubled) /\ HandedWhole(x, doubled)

(* The outcome of the session is taken to the BPA; nothing else is called. *)
Settles(x, y, n) ==
  /\ Typed(y) /\ y.green = x.green /\ y.next = x.next /\ y.sess = x.sess /\ y.notices = x.notices
  /\ y.pending = [x.pending EXCEPT ![n] = None]
  /\ \A k \in y.calls : k.op = "dispatch" => k \in x.calls

(* SessionEnded takes the bundle of the session out of pending and reports it. *)
LEMMA EndedSettles ==
  ASSUME NEW x, Typed(x), NEW r, EndNotice(r)
  PROVE  Settles(x, SessionEnded(x, r), r.id)
<1> DEFINE n == r.id
           b == x.pending[n]
           k == [op |-> r.kind, id |-> b, with |-> {}]
           p == [x.pending EXCEPT ![n] = None]
           c == x.calls \cup {k}
           y == [x EXCEPT !.pending = p, !.calls = c]
<1>1. n \in Numbers /\ k.op # "dispatch"
  BY DEF EndNotice, Ends
<1>2. CASE b = None
  <2>1. SessionEnded(x, r) = x
    BY <1>2 DEF SessionEnded
  <2>2. p = x.pending
    BY <1>1, <1>2 DEF Typed
  <2> QED  BY <2>1, <2>2 DEF Settles
<1>3. CASE b # None
  <2>1. SessionEnded(x, r) = y
    <3> DEFINE z == [x EXCEPT !.pending = p]
    <3>1. SessionEnded(x, r) = Spawn(z, k)
      BY <1>3 DEF SessionEnded
    <3> HIDE DEF k, p
    <3>2. z.calls = x.calls
      BY DEF Typed, Shaped, Fields
    <3>3. Spawn(z, k) = [z EXCEPT !.calls = c]
      BY <3>2 DEF Spawn
    <3> HIDE DEF c
    <3>4. [z EXCEPT !.calls = c] = y
      BY DEF Typed, Shaped, Fields
    <3> QED  BY <3>1, <3>3, <3>4
  <2>2. p \in [Numbers -> Bundles \cup {None}]
    BY <1>1 DEF Typed
  <2>3. \A m \in c : m.op = "dispatch" => m \in x.calls
    BY <1>1
  <2> HIDE DEF p, c
  <2>4. /\ Shaped(y) /\ y.pending = p /\ y.green = x.green /\ y.next = x.next
        /\ y.notices = x.notices /\ y.calls = c /\ y.sess = x.sess
    BY DEF Typed, Shaped, Fields
  <2> HIDE DEF y
  <2>5. Typed(y)
    BY <2>2, <2>4 DEF Typed
  <2>6. Settles(x, y, n)
    BY <2>3, <2>4, <2>5 DEF Settles, p
  <2> QED  BY <2>1, <2>6
<1> QED  BY <1>2, <1>3

(* What it does to the calls about b. *)
LEMMA EndedCalls ==
  ASSUME NEW x, Typed(x), NEW r, EndNotice(r), NEW b
  PROVE  Calling(SessionEnded(x, r), b) =
           IF b # None /\ x.pending[r.id] = b THEN Calling(x, b) \cup {r.kind} ELSE Calling(x, b)
<1> DEFINE n == r.id
           e == x.pending[n]
           k == [op |-> r.kind, id |-> e, with |-> {}]
           p == [x.pending EXCEPT ![n] = None]
           z == [x EXCEPT !.pending = p]
           c == x.calls \cup {k}
           y == [z EXCEPT !.calls = c]
<1>1. k.op = r.kind /\ k.id = e /\ r.kind \in Ends
  BY DEF EndNotice
<1>2. CASE e = None
  BY <1>2 DEF SessionEnded
<1>3. CASE e # None
  <2>1. SessionEnded(x, r) = Spawn(z, k)
    BY <1>3 DEF SessionEnded
  <2> HIDE DEF k, p
  <2>2. z.calls = x.calls
    BY DEF Typed, Shaped, Fields
  <2>3. Spawn(z, k) = y
    BY <2>2 DEF Spawn
  <2> HIDE DEF c
  <2>4. y.calls = c
    BY DEF Typed, Shaped, Fields
  <2> HIDE DEF y
  <2>5. {m \in c : m.op \in Ends /\ m.id = b} =
          IF e = b THEN {m \in x.calls : m.op \in Ends /\ m.id = b} \cup {k}
          ELSE {m \in x.calls : m.op \in Ends /\ m.id = b}
    BY <1>1 DEF c
  <2>6. Calling(y, b) = IF e = b THEN Calling(x, b) \cup {r.kind} ELSE Calling(x, b)
    BY <1>1, <2>4, <2>5 DEF Calling
  <2> QED  BY <1>3, <2>1, <2>3, <2>6
<1> QED  BY <1>2, <1>3

(* The end of a session moves its bundle from owed to being reported. *)
LEMMA EndedSound ==
  ASSUME NEW x, NEW A, NEW o, Sound(x, A, o), NEW r, EndNotice(r)
  PROVE  Sound(SessionEnded(x, r), A, o)
<1> DEFINE y == SessionEnded(x, r)
           n == r.id
<1>1. Typed(x) /\ Correlated(x) /\ n \in Numbers /\ r.kind \in Ends
  BY DEF Sound, EndNotice
<1>2. Settles(x, y, n)
  BY <1>1, EndedSettles
<1>3. \A b : Calling(y, b) = IF b # None /\ x.pending[n] = b THEN Calling(x, b) \cup {r.kind} ELSE Calling(x, b)
  BY <1>1, EndedCalls
<1> HIDE DEF y, n
<1>4. /\ x.pending \in [Numbers -> Bundles \cup {None}] /\ y.pending = [x.pending EXCEPT ![n] = None]
      /\ y.next = x.next /\ Typed(y)
  BY <1>1, <1>2 DEF Settles, Typed
<1>5. Correlated(y)
  BY <1>1, <1>4 DEF Correlated
<1>6. ASSUME NEW b \in Bundles PROVE Placed(y, A, o, b)
  <2>1. b # None /\ Placed(x, A, o, b)
    BY DriverAssumption DEF Sound
  <2>2. CASE x.pending[n] = b
    <3>1. Owes(x, b) /\ Calling(x, b) = {}
      BY <1>1, <2>1, <2>2 DEF Owes, Placed
    <3>2. Calling(y, b) = {r.kind}
      BY <1>3, <2>1, <2>2, <3>1
    <3>3. ~Owes(y, b)
      BY <1>1, <1>4, <2>1, <2>2 DEF Owes, Correlated
    <3> QED  BY <1>1, <2>1, <3>1, <3>2, <3>3 DEF Placed
  <2>3. CASE x.pending[n] # b
    <3>1. Calling(y, b) = Calling(x, b)
      BY <1>3, <2>3
    <3>2. Owes(y, b) <=> Owes(x, b)
      BY <1>1, <1>4, <2>1, <2>3 DEF Owes
    <3> QED  BY <2>1, <3>1, <3>2 DEF Placed
  <2> QED  BY <2>2, <2>3
<1>7. Sound(y, A, o)
  BY <1>4, <1>5, <1>6 DEF Sound
<1> QED  BY <1>7 DEF y

(* A notice about data: the sessions are left alone. *)
Receives(x, y) ==
  /\ Typed(y)
  /\ y.pending = x.pending /\ y.next = x.next /\ y.sess = x.sess /\ y.notices = x.notices
  /\ \A b : Calling(y, b) = Calling(x, b)

(* Two receptions in a row are a reception. *)
LEMMA ReceivesOn ==
  ASSUME NEW x, NEW y, NEW z, Receives(x, y), Receives(y, z)
  PROVE  Receives(x, z)
  BY DEF Receives

(* A reception leaves the correlation of sessions sound. *)
LEMMA ReceivesSound ==
  ASSUME NEW x, NEW A, NEW o, Sound(x, A, o), NEW y, Receives(x, y)
  PROVE  Sound(y, A, o)
<1>1. Correlated(y)
  BY DEF Sound, Receives, Correlated
<1>2. \A b \in Bundles : Owes(y, b) <=> Owes(x, b)
  BY DEF Receives, Owes
<1>3. \A b \in Bundles : Placed(y, A, o, b)
  BY <1>2 DEF Sound, Receives, Placed
<1> QED  BY <1>1, <1>3 DEF Sound, Receives

(* The table of reassemblies is replaced. *)
LEMMA TableReceives ==
  ASSUME NEW x, Typed(x), NEW h, h = [g \in Incoming |-> h[g]]
  PROVE  LET y == [x EXCEPT !.green = h] IN Receives(x, y) /\ y.green = h /\ y.calls = x.calls
<1> DEFINE y == [x EXCEPT !.green = h]
<1>1. /\ Shaped(y) /\ y.pending = x.pending /\ y.green = h /\ y.next = x.next
      /\ y.notices = x.notices /\ y.calls = x.calls /\ y.sess = x.sess
  BY DEF Typed, Shaped, Fields
<1> HIDE DEF y
<1>2. Typed(y)
  BY <1>1 DEF Typed
<1>3. Receives(x, y)
  BY <1>1, <1>2 DEF Receives, Calling
<1>4. Receives(x, y) /\ y.green = h /\ y.calls = x.calls
  BY <1>1, <1>3
<1> QED  BY <1>4 DEF y

(* A block is handed over. *)
LEMMA DispatchReceives ==
  ASSUME NEW x, Typed(x), NEW g, NEW data, NEW len
  PROVE  LET y == Dispatch(x, g, data, len)
         IN  /\ Receives(x, y) /\ y.green = x.green
             /\ \A k \in y.calls : k \in x.calls \/ (k.id = g /\ k.with = (1 .. len) \ data)
<1> DEFINE hole == (1 .. len) \ data
           k == [op |-> "dispatch", id |-> g, with |-> hole]
           c == x.calls \cup {k}
           y == [x EXCEPT !.calls = c]
<1>1. Dispatch(x, g, data, len) = y
  BY DEF Dispatch, Spawn
<1> HIDE DEF hole
<1>2. k.op \notin Ends /\ k.id = g /\ k.with = hole
  BY DEF Ends
<1> HIDE DEF k
<1>3. \A b : {m \in c : m.op \in Ends /\ m.id = b} = {m \in x.calls : m.op \in Ends /\ m.id = b}
  BY <1>2
<1>4. \A m \in c : m \in x.calls \/ (m.id = g /\ m.with = hole)
  BY <1>2
<1> HIDE DEF c
<1>5. /\ Shaped(y) /\ y.pending = x.pending /\ y.green = x.green /\ y.next = x.next
      /\ y.notices = x.notices /\ y.calls = c /\ y.sess = x.sess
  BY DEF Typed, Shaped, Fields
<1> HIDE DEF y
<1>6. Typed(y)
  BY <1>5 DEF Typed
<1>7. \A b : Calling(y, b) = Calling(x, b)
  BY <1>3, <1>5 DEF Calling
<1>8. Receives(x, y)
  BY <1>5, <1>6, <1>7 DEF Receives
<1>9. Receives(x, y) /\ y.green = x.green /\ \A m \in y.calls : m \in x.calls \/ (m.id = g /\ m.with = hole)
  BY <1>4, <1>5, <1>8
<1> QED  BY <1>1, <1>9 DEF hole

(* A segment is counted once, so that all are there when enough are. *)
LEMMA CountedOnce ==
  ASSUME NEW g \in Incoming, NEW at \in 1 .. GreenLen[g], NEW on, NEW rest,
         rest \subseteq on, <<g, at>> \in on, <<g, at>> \notin rest,
         NEW old, Counts(old, g, on),
         NEW new, new.data = old.data \cup {at}, new.got = old.got + 1, new.total \in {None, GreenLen[g]}
  PROVE  /\ Counts(new, g, rest)
         /\ new.total # None /\ new.got >= new.total => (1 .. new.total) \ new.data = {}
<1> DEFINE l == GreenLen[g]
<1>1. l \in Nat
  BY DriverAssumption
<1>2. /\ old.data \subseteq 1 .. l /\ old.got = Cardinality(old.data)
      /\ \A k \in old.data : <<g, k>> \notin on
  BY DEF Counts
<1>3. at \notin old.data /\ new.data \subseteq 1 .. l
  BY <1>2
<1>4. IsFiniteSet(1 .. l) /\ Cardinality(1 .. l) = l
  <2>1. 1 \in Int /\ l \in Int /\ (IF 1 > l THEN 0 ELSE l - 1 + 1) = l
    BY <1>1
  <2> QED  BY <2>1, FS_Interval
<1>5. IsFiniteSet(old.data) /\ IsFiniteSet(new.data)
  BY <1>2, <1>3, <1>4, FS_Subset
<1>6. new.got = Cardinality(new.data)
  <2>1. Cardinality(old.data \cup {at}) = Cardinality(old.data) + 1
    BY <1>3, <1>5, FS_AddElement
  <2> QED  BY <1>2, <2>1
<1>7. Counts(new, g, rest)
  <2>1. \A k \in new.data : <<g, k>> \notin rest
    BY <1>2
  <2> QED  BY <1>3, <1>6, <2>1 DEF Counts
<1>8. ASSUME new.total # None, new.got >= new.total
      PROVE  (1 .. new.total) \ new.data = {}
  <2>1. new.total = l
    BY <1>8
  <2>2. Cardinality(new.data) \in Nat /\ Cardinality(new.data) <= l
    BY <1>3, <1>4, <1>5, FS_CardinalityType, FS_Subset
  <2>3. Cardinality(new.data) = Cardinality(1 .. l)
    BY <1>1, <1>4, <1>6, <1>8, <2>1, <2>2
  <2>4. new.data = 1 .. l
    BY <1>3, <1>4, <2>3, FS_Subset
  <2> QED  BY <2>1, <2>4
<1> QED  BY <1>7, <1>8

(* Nothing has been copied into a new reassembly. *)
LEMMA NewCounts ==
  ASSUME NEW g, NEW on
  PROVE  Counts(NewReassembly, g, on)
  BY FS_EmptySet DEF Counts, NewReassembly

(* Segment at of block g is taken from those on their way, unless one of   *)
(* the block was duplicated; what is left is rest.                         *)
Arrives(g, at, on, rest, doubled) ==
  /\ g \in Incoming /\ at \in 1 .. GreenLen[g]
  /\ rest \subseteq on
  /\ g \notin doubled => <<g, at>> \in on /\ <<g, at>> \notin rest

(* A reassembly stays right when fewer segments are on the way. *)
LEMMA FewerOnTheWay ==
  ASSUME NEW green, NEW on, NEW rest \in SUBSET on, NEW doubled, NEW more, doubled \subseteq more,
         Assembled(green, on, doubled)
  PROVE  Assembled(green, rest, more)
  BY DEF Assembled, Counts

(* A segment that arrives is put in its reassembly, which is handed over once whole. *)
LEMMA ReassembledFits ==
  ASSUME NEW x, Typed(x), NEW g, NEW at, NEW on, NEW rest, NEW doubled, Arrives(g, at, on, rest, doubled),
         Filled(x, on, doubled)
  PROVE  Receives(x, Reassembled(x, g, at)) /\ Filled(Reassembled(x, g, at), rest, doubled)
<1> DEFINE old == IF x.green[g] = None THEN NewReassembly ELSE x.green[g]
           new == [data  |-> old.data \cup {at}, len |-> IF old.len < at THEN at ELSE old.len,
                   got   |-> old.got + 1,
                   total |-> IF at = GreenLen[g] THEN at ELSE old.total]
           full == new.total # None /\ new.got >= new.total /\ new.len = new.total
           h == [x.green EXCEPT ![g] = None]
           z == [x EXCEPT !.green = h]
           i == [x.green EXCEPT ![g] = new]
           w == [x EXCEPT !.green = i]
           y == Dispatch(z, g, new.data, new.len)
<1>1. Reassembled(x, g, at) = IF full THEN y ELSE w
  BY DEF Reassembled
<1>2. g \in Incoming /\ at \in 1 .. GreenLen[g] /\ rest \in SUBSET on
  BY DEF Arrives
<1>3. ASSUME g \notin doubled
      PROVE  Counts(new, g, rest) /\ (full => (1 .. new.len) \ new.data = {})
  <2>1. Counts(old, g, on)
    <3>1. CASE x.green[g] = None
      BY <3>1, NewCounts
    <3>2. CASE x.green[g] # None
      BY <1>2, <1>3, <3>2 DEF Filled, Assembled
    <3> QED  BY <3>1, <3>2
  <2>2. new.data = old.data \cup {at} /\ new.got = old.got + 1 /\ new.total \in {None, GreenLen[g]}
    BY <2>1 DEF Counts
  <2>3. <<g, at>> \in on /\ <<g, at>> \notin rest
    BY <1>3 DEF Arrives
  <2> HIDE DEF old, new
  <2>4. /\ Counts(new, g, rest)
        /\ new.total # None /\ new.got >= new.total => (1 .. new.total) \ new.data = {}
    BY <1>2, <2>1, <2>2, <2>3, CountedOnce
  <2> QED  BY <2>4
<1>4. x.green = [k \in Incoming |-> x.green[k]]
  BY DEF Typed
<1>5. Assembled(x.green, rest, doubled) /\ HandedWhole(x, doubled)
  BY <1>2, FewerOnTheWay DEF Filled
<1> HIDE DEF old, new
<1>6. CASE full
  <2>1. h = [k \in Incoming |-> h[k]] /\ Assembled(h, rest, doubled)
    BY <1>2, <1>4, <1>5 DEF Assembled
  <2> HIDE DEF h
  <2>2. Receives(x, z) /\ z.green = h /\ z.calls = x.calls
    BY <2>1, TableReceives
  <2> HIDE DEF z
  <2>3. Typed(z)
    BY <2>2 DEF Receives
  <2>4. /\ Receives(z, y) /\ y.green = z.green
        /\ \A k \in y.calls : k \in z.calls \/ (k.id = g /\ k.with = (1 .. new.len) \ new.data)
    BY <2>3, DispatchReceives
  <2> HIDE DEF y
  <2>5. HandedWhole(y, doubled)
    BY <1>3, <1>5, <1>6, <2>2, <2>4 DEF HandedWhole
  <2>6. Receives(x, y) /\ Filled(y, rest, doubled)
    BY <2>1, <2>2, <2>4, <2>5, ReceivesOn DEF Filled
  <2> QED  BY <1>1, <1>6, <2>6
<1>7. CASE ~full
  <2>1. i = [k \in Incoming |-> i[k]]
    BY <1>2, <1>4
  <2>2. Assembled(i, rest, doubled)
    BY <1>2, <1>3, <1>4, <1>5 DEF Assembled
  <2> HIDE DEF i
  <2>3. Receives(x, w) /\ w.green = i /\ w.calls = x.calls
    BY <2>1, TableReceives
  <2> HIDE DEF w
  <2>4. Filled(w, rest, doubled)
    BY <1>5, <2>2, <2>3 DEF Filled, HandedWhole
  <2> QED  BY <1>1, <1>7, <2>3, <2>4
<1> QED  BY <1>6, <1>7

(* So it is when the session had gone stale and is dropped first. *)
LEMMA GreenFits ==
  ASSUME NEW x, Typed(x), NEW g, NEW at, NEW stale, NEW on, NEW rest, NEW doubled,
         Arrives(g, at, on, rest, doubled), Filled(x, on, doubled)
  PROVE  Receives(x, GreenArrived(x, g, at, stale)) /\ Filled(GreenArrived(x, g, at, stale), rest, doubled)
<1>1. g \in Incoming /\ at \in 1 .. GreenLen[g] /\ rest \in SUBSET on
  BY DEF Arrives
<1>2. x.green = [k \in Incoming |-> x.green[k]]
  BY DEF Typed
<1>3. Assembled(x.green, rest, doubled) /\ HandedWhole(x, doubled)
  BY <1>1, FewerOnTheWay DEF Filled
<1>4. CASE at = 1 /\ GreenLen[g] = 1
  <2> DEFINE y == Dispatch(x, g, {1}, 1)
  <2>1. GreenArrived(x, g, at, stale) = y
    BY <1>4 DEF GreenArrived
  <2>2. /\ Receives(x, y) /\ y.green = x.green
        /\ \A k \in y.calls : k \in x.calls \/ (k.id = g /\ k.with = (1 .. 1) \ {1})
    BY DispatchReceives
  <2> HIDE DEF y
  <2>3. Filled(y, rest, doubled)
    BY <1>3, <2>2 DEF Filled, HandedWhole
  <2> QED  BY <2>1, <2>2, <2>3
<1>5. CASE ~(at = 1 /\ GreenLen[g] = 1) /\ at > MaxGreenLen
  <2> DEFINE h == [x.green EXCEPT ![g] = None]
             z == [x EXCEPT !.green = h]
  <2>1. GreenArrived(x, g, at, stale) = z
    BY <1>5 DEF GreenArrived
  <2>2. h = [k \in Incoming |-> h[k]] /\ Assembled(h, rest, doubled)
    BY <1>1, <1>2, <1>3 DEF Assembled
  <2> HIDE DEF h
  <2>3. Receives(x, z) /\ z.green = h /\ z.calls = x.calls
    BY <2>2, TableReceives
  <2> HIDE DEF z
  <2>4. Filled(z, rest, doubled)
    BY <1>3, <2>2, <2>3 DEF Filled, HandedWhole
  <2> QED  BY <2>1, <2>3, <2>4
<1>6. CASE ~(at = 1 /\ GreenLen[g] = 1) /\ ~(at > MaxGreenLen)
  <2> DEFINE full(v) == v.green[g] = None /\ Cardinality(Held(v.green)) >= MaxGreen
             h == Swept(x.green, stale)
             z == [x EXCEPT !.green = h]
             swept == IF full(x) THEN z ELSE x
             y == Reassembled(swept, g, at)
  <2>1. GreenArrived(x, g, at, stale) = IF full(swept) THEN swept ELSE y
    BY <1>6 DEF GreenArrived, GreenAdmitted
  <2>2. h = [k \in Incoming |-> h[k]] /\ Assembled(h, on, doubled)
    BY <1>2 DEF Swept, Filled, Assembled
  <2> HIDE DEF h
  <2>3. Receives(x, z) /\ z.green = h /\ z.calls = x.calls
    BY <2>2, TableReceives
  <2> HIDE DEF z
  <2>4. Receives(x, x)
    BY DEF Receives
  <2>5. Receives(x, swept) /\ Filled(swept, on, doubled)
    BY <1>3, <2>2, <2>3, <2>4 DEF Filled, HandedWhole
  <2> HIDE DEF swept, full
  <2>6. Filled(swept, rest, doubled)
    BY <1>1, <2>5, FewerOnTheWay DEF Filled
  <2>7. Receives(swept, y) /\ Filled(y, rest, doubled)
    BY <2>5, ReassembledFits DEF Receives
  <2> HIDE DEF y
  <2>8. Receives(x, y)
    BY <2>5, <2>7, ReceivesOn
  <2> QED  BY <2>1, <2>5, <2>6, <2>7, <2>8
<1> QED  BY <1>4, <1>5, <1>6

(* A red part comes whole from the engine. *)
LEMMA RedFits ==
  ASSUME NEW x, Typed(x), NEW g, NEW on, NEW rest \in SUBSET on, NEW doubled, Filled(x, on, doubled)
  PROVE  Receives(x, Dispatch(x, g, {}, 0)) /\ Filled(Dispatch(x, g, {}, 0), rest, doubled)
<1> DEFINE y == Dispatch(x, g, {}, 0)
<1>1. Assembled(x.green, rest, doubled) /\ HandedWhole(x, doubled)
  BY FewerOnTheWay DEF Filled
<1>2. /\ Receives(x, y) /\ y.green = x.green
      /\ \A k \in y.calls : k \in x.calls \/ (k.id = g /\ k.with = (1 .. 0) \ {})
  BY DispatchReceives
<1> HIDE DEF y
<1>3. Filled(y, rest, doubled)
  BY <1>1, <1>2 DEF Filled, HandedWhole
<1> QED  BY <1>2, <1>3 DEF y

-----------------------------------------------------------------------------
(* All notices.                                                            *)

DataHere(r, on, rest, doubled) ==
  \/ r.kind = "red"
  \/ r.kind = "green" /\ Arrives(r.id, r.at, on, rest, doubled)

(* One notice: what is true of the notices from it on is true of the rest. *)
LEMMA NoticeFits ==
  ASSUME NEW x, NEW A, NEW o, Sound(x, A, o), NEW s, NEW k \in Nat, Len(s) \in Nat, k < Len(s),
         Covered(x, s, k + 1), NEW on, NEW rest \in SUBSET on, NEW doubled, Filled(x, on, doubled),
         EndNotice(s[k + 1]) \/ DataHere(s[k + 1], on, rest, doubled)
  PROVE  LET y == AfterNotice(x, s[k + 1])
         IN  /\ Sound(y, A, o) /\ y.notices = x.notices /\ Covered(y, s, k + 2)
             /\ EndNotice(s[k + 1]) => Filled(y, on, doubled)
             /\ Filled(y, rest, doubled)
<1> DEFINE r == s[k + 1]
           y == AfterNotice(x, r)
<1>1. Typed(x)
  BY DEF Sound
<1>2. ASSUME NEW m, Announced(s, k + 1, m), ~(r.kind \in Ends /\ r.id = m)
      PROVE  Announced(s, k + 2, m)
  <2>1. PICK j \in k + 1 .. Len(s) : s[j].kind \in Ends /\ s[j].id = m
    BY <1>2 DEF Announced
  <2>2. j # k + 1
    BY <1>2, <2>1
  <2>3. j \in k + 2 .. Len(s)
    BY <2>2
  <2> QED  BY <2>1, <2>3 DEF Announced
<1>3. CASE EndNotice(r)
  <2>1. r.kind \in Ends /\ r.id \in Numbers
    BY <1>3 DEF EndNotice
  <2>2. y = SessionEnded(x, r)
    BY <2>1 DEF AfterNotice, Ends
  <2> HIDE DEF r, y
  <2>3. Sound(y, A, o) /\ Settles(x, y, r.id)
    BY <1>1, <1>3, <2>2, EndedSound, EndedSettles
  <2>4. Covered(y, s, k + 2)
    <3>1. SUFFICES ASSUME NEW m \in Numbers, y.pending[m] # None
                   PROVE  y.sess[m] >= 0 \/ Announced(s, k + 2, m)
      BY DEF Covered
    <3>2. m # r.id /\ x.pending[m] # None /\ y.sess = x.sess
      BY <1>1, <2>1, <2>3, <3>1 DEF Settles, Typed
    <3>3. x.sess[m] >= 0 \/ Announced(s, k + 1, m)
      BY <3>2 DEF Covered
    <3> QED  BY <1>2, <3>2, <3>3
  <2>5. Filled(y, on, doubled)
    BY <2>3 DEF Settles, Filled, HandedWhole
  <2>6. Filled(y, rest, doubled)
    BY <2>5, FewerOnTheWay DEF Filled
  <2>7. Sound(y, A, o) /\ y.notices = x.notices /\ Covered(y, s, k + 2) /\ Filled(y, on, doubled) /\ Filled(y, rest, doubled)
    BY <2>3, <2>4, <2>5, <2>6 DEF Settles
  <2> QED  BY <2>7 DEF r, y
<1>4. CASE DataHere(r, on, rest, doubled)
  <2>1. r.kind \notin Ends
    BY <1>4 DEF DataHere, Ends
  <2>2. Receives(x, y) /\ Filled(y, rest, doubled)
    <3>1. CASE r.kind = "red"
      <4>1. y = Dispatch(x, r.id, {}, 0)
        BY <3>1 DEF AfterNotice
      <4> QED  BY <1>1, <4>1, RedFits
    <3>2. CASE r.kind = "green" /\ Arrives(r.id, r.at, on, rest, doubled)
      <4>1. y = GreenArrived(x, r.id, r.at, r.stale)
        BY <3>2 DEF AfterNotice
      <4> QED  BY <1>1, <3>2, <4>1, GreenFits
    <3> QED  BY <1>4, <3>1, <3>2 DEF DataHere
  <2>3. ~EndNotice(r)
    BY <2>1 DEF EndNotice
  <2> HIDE DEF r, y
  <2>4. Sound(y, A, o)
    BY <2>2, ReceivesSound
  <2>5. Covered(y, s, k + 2)
    BY <1>2, <2>1, <2>2 DEF Covered, Receives
  <2>6. Sound(y, A, o) /\ y.notices = x.notices /\ Covered(y, s, k + 2) /\ ~EndNotice(r) /\ Filled(y, rest, doubled)
    BY <2>2, <2>3, <2>4, <2>5 DEF Receives
  <2> QED  BY <2>6 DEF r, y
<1> QED  BY <1>3, <1>4

(* Everything is noticed: the ends of sessions, and last a piece of data. *)
LEMMA NoticedFits ==
  ASSUME NEW x, NEW A, NEW o, Fit(x, A, o), NEW on, NEW rest \in SUBSET on, NEW doubled, Filled(x, on, doubled),
         \A i \in 1 .. Len(x.notices) :
           EndNotice(x.notices[i]) \/ (i = Len(x.notices) /\ DataHere(x.notices[i], on, rest, doubled))
  PROVE  LET y == Noticed(x)
         IN  Fit(y, A, o) /\ Closing(y) /\ Filled(y, rest, doubled)
<1> DEFINE s == x.notices
           l == Len(s)
           b == [x EXCEPT !.notices = <<>>]
<1>1. Typed(x) /\ IsList(s) /\ l \in Nat
  BY DEF Fit, Sound, Typed, IsList
<1>2. PICK run : /\ run[0] = b
                 /\ \A k \in 1 .. l : run[k] = AfterNotice(run[k - 1], s[k])
                 /\ Noticed(x) = run[l]
  BY <1>1, NoticedInOrder
<1>3. /\ Shaped(b) /\ b.pending = x.pending /\ b.green = x.green /\ b.next = x.next
      /\ b.notices = <<>> /\ b.calls = x.calls /\ b.sess = x.sess
  BY <1>1 DEF Typed, Shaped, Fields
<1> DEFINE here(k) == IF k = l THEN rest ELSE on
           good(k) == /\ Sound(run[k], A, o) /\ run[k].notices = <<>> /\ Covered(run[k], s, k + 1)
                      /\ Filled(run[k], here(k), doubled)
           S == {k \in Nat : k <= l => good(k)}
<1> HIDE DEF b
<1>4. 0 \in S
  <2>1. Typed(b)
    BY <1>1, <1>3, EmptyIsList DEF Typed
  <2>2. Sound(b, A, o)
    <3>1. Correlated(b)
      BY <1>3 DEF Fit, Sound, Correlated
    <3>2. Told(b) = Told(x)
      BY <1>3 DEF Told
    <3>3. \A c \in Bundles : Placed(b, A, o, c)
      BY <1>3, <3>2, SamePlaced DEF Fit, Sound
    <3> QED  BY <1>3, <2>1, <3>1, <3>3 DEF Fit, Sound
  <2>3. Covered(b, s, 0 + 1)
    BY <1>3 DEF Fit, Covered
  <2>4. Filled(b, on, doubled) /\ Filled(b, rest, doubled)
    BY <1>3, FewerOnTheWay DEF Filled, HandedWhole
  <2> QED  BY <1>2, <1>3, <2>2, <2>3, <2>4
<1>5. ASSUME NEW k \in S PROVE k + 1 \in S
  <2>1. SUFFICES ASSUME k + 1 <= l PROVE good(k + 1)
    OBVIOUS
  <2>2. k \in Nat /\ k < l /\ k + 1 \in 1 .. l /\ (k + 1) - 1 = k /\ (k + 1) + 1 = k + 2
    BY <1>1, <2>1
  <2>3. good(k) /\ here(k) = on
    BY <1>1, <2>2
  <2>4. EndNotice(s[k + 1]) \/ (k + 1 = l /\ DataHere(s[k + 1], on, rest, doubled))
    BY <2>2
  <2> DEFINE u == run[k]
             v == AfterNotice(u, s[k + 1])
  <2>5. run[k + 1] = v
    BY <1>2, <2>2
  <2>6. Sound(u, A, o) /\ u.notices = <<>> /\ Covered(u, s, k + 1) /\ Filled(u, on, doubled)
    BY <2>3
  <2> HIDE DEF u, s, l
  <2>7. /\ Sound(v, A, o) /\ v.notices = u.notices /\ Covered(v, s, k + 2)
        /\ EndNotice(s[k + 1]) => Filled(v, on, doubled)
        /\ Filled(v, rest, doubled)
    <3>1. Len(s) \in Nat /\ k < Len(s)
      BY <1>1, <2>2 DEF l
    <3> QED  BY <2>2, <2>4, <2>6, <3>1, NoticeFits
  <2> HIDE DEF v
  <2>8. Filled(v, here(k + 1), doubled)
    BY <2>4, <2>7
  <2> QED  BY <2>2, <2>5, <2>6, <2>7, <2>8
<1>6. S = Nat
  <2> HIDE DEF S
  <2>1. S \in SUBSET Nat
    BY DEF S
  <2> QED  BY <1>4, <1>5, <2>1, Counting
<1>7. good(l) /\ here(l) = rest
  BY <1>1, <1>6
<1> DEFINE y == run[l]
<1>8. Sound(y, A, o) /\ y.notices = <<>> /\ Covered(y, s, l + 1) /\ Filled(y, rest, doubled)
  BY <1>7
<1>9. Noticed(x) = y
  BY <1>2
<1> HIDE DEF y
<1>10. Covered(y, y.notices, 1)
  <2>1. \A n : ~Announced(s, l + 1, n)
    BY <1>1 DEF Announced
  <2> QED  BY <1>8, <2>1 DEF Covered
<1>11. Closing(y)
  BY <1>8, EmptyIsList DEF Closing
<1> QED  BY <1>8, <1>9, <1>10, <1>11 DEF Fit

-----------------------------------------------------------------------------
(* The end of a step.                                                      *)

(* What the BPA was given has no hole, but for duplicated blocks. *)
GivenWhole(given, doubled) == \A r \in given : r[1] \notin doubled => r[2] = {}

(* The driver after a step, when A are the accepted bundles, rest is on    *)
(* its way and the blocks in doubled have been duplicated.                 *)
Done(A, rest, doubled) ==
  /\ outcome' \in [Bundles -> Seq(Ends)]
  /\ Fit(d', A, outcome') /\ Rested(d')
  /\ Assembled(d'.green, rest, doubled)
  /\ GivenWhole(dispatched', doubled)

(* The calls are made. *)
LEMMA BecomesDone ==
  ASSUME NEW x, NEW A, Fit(x, A, outcome), Closing(x), outcome \in [Bundles -> Seq(Ends)],
         NEW rest, NEW doubled, Filled(x, rest, doubled), GivenWhole(dispatched, doubled), Becomes(x)
  PROVE  Done(A, rest, doubled)
<1> DEFINE y == [x EXCEPT !.calls = {}]
<1>1. Typed(x)
  BY DEF Fit, Sound
<1>2. /\ Shaped(y) /\ y.pending = x.pending /\ y.green = x.green /\ y.next = x.next
      /\ y.notices = x.notices /\ y.calls = {} /\ y.sess = x.sess
  BY <1>1 DEF Typed, Shaped, Fields
<1>3. d' = y
  BY DEF Becomes
<1> HIDE DEF y
<1>4. outcome' = [b \in Bundles |-> outcome[b] \o SetToSeq(Calling(x, b))]
  BY DEF Becomes, Calling, Ends
<1>5. Typed(y) /\ Correlated(y)
  BY <1>1, <1>2 DEF Fit, Sound, Typed, Correlated
<1>6. \A b : Calling(y, b) = {} /\ (Owes(y, b) <=> Owes(x, b))
  BY <1>2 DEF Calling, Owes
<1>7. ASSUME NEW b \in Bundles PROVE outcome'[b] \in Seq(Ends) /\ Placed(y, A, outcome', b)
  <2>1. outcome[b] \in Seq(Ends) /\ Placed(x, A, outcome, b)
    BY DEF Fit, Sound
  <2>2. CASE Calling(x, b) = {}
    <3>1. outcome'[b] = outcome[b] \o <<>>
      BY <1>4, <2>2, NoneInSeq
    <3>2. outcome[b] \o <<>> = outcome[b]
      BY <2>1, ConcatEmptySeq
    <3>3. outcome'[b] = outcome[b]
      BY <3>1, <3>2
    <3> QED  BY <1>6, <2>1, <2>2, <3>3 DEF Placed
  <2>3. CASE Calling(x, b) # {}
    <3>1. PICK e \in Ends : Calling(x, b) = {e}
      BY <2>1, <2>3 DEF Placed
    <3>2. b \in A /\ Len(outcome[b]) = 0 /\ ~Owes(x, b)
      BY <2>1, <2>3 DEF Placed
    <3>3. outcome'[b] = outcome[b] \o <<e>>
      BY <1>4, <3>1, OneInSeq
    <3>4. outcome'[b] \in Seq(Ends) /\ Len(outcome'[b]) = 1
      BY <2>1, <3>2, <3>3
    <3> QED  BY <1>6, <3>2, <3>4 DEF Placed
  <2> QED  BY <2>2, <2>3
<1>8. outcome' \in [Bundles -> Seq(Ends)]
  BY <1>4, <1>7
<1>9. Fit(y, A, outcome')
  <2>1. Covered(y, y.notices, 1) /\ y.next <= Cardinality(A) + 1
    BY <1>2 DEF Fit, Sound, Covered
  <2> QED  BY <1>5, <1>7, <2>1 DEF Fit, Sound
<1>10. Rested(y) /\ Assembled(y.green, rest, doubled)
  BY <1>2 DEF Closing, Rested, Filled
<1>11. GivenWhole(dispatched', doubled)
  <2>1. dispatched' = dispatched \cup {<<k.id, k.with>> : k \in {c \in x.calls : c.op = "dispatch"}}
    BY DEF Becomes
  <2>2. ASSUME NEW r \in {<<k.id, k.with>> : k \in {c \in x.calls : c.op = "dispatch"}}, r[1] \notin doubled
        PROVE  r[2] = {}
    <3>1. PICK k \in {c \in x.calls : c.op = "dispatch"} : r = <<k.id, k.with>>
      BY <2>2
    <3>2. r[1] = k.id /\ r[2] = k.with
      BY <3>1
    <3> QED  BY <2>2, <3>2 DEF Filled, HandedWhole
  <2> QED  BY <2>1, <2>2 DEF GivenWhole
<1> QED  BY <1>3, <1>8, <1>9, <1>10, <1>11 DEF Done

(* The notices are drained before. *)
LEMMA NoticedDone ==
  ASSUME NEW x, NEW A, Fit(x, A, outcome), outcome \in [Bundles -> Seq(Ends)],
         NEW on, NEW rest \in SUBSET on, NEW doubled,
         Assembled(x.green, on, doubled), Told(x) = {}, GivenWhole(dispatched, doubled),
         \A i \in 1 .. Len(x.notices) :
           EndNotice(x.notices[i]) \/ (i = Len(x.notices) /\ DataHere(x.notices[i], on, rest, doubled)),
         Becomes(Noticed(x))
  PROVE  Done(A, rest, doubled)
<1>1. Filled(x, on, doubled)
  <2>1. \A k \in x.calls : k.op # "dispatch"
    BY DEF Told
  <2> QED  BY <2>1 DEF Filled, HandedWhole
<1> DEFINE y == Noticed(x)
<1>2. Fit(y, A, outcome) /\ Closing(y) /\ Filled(y, rest, doubled)
  BY <1>1, NoticedFits
<1> HIDE DEF y
<1>3. Becomes(y)
  BY DEF y
<1> QED  BY <1>2, <1>3, BecomesDone

(* And the outputs before them. *)
LEMMA DrainedDone ==
  ASSUME NEW x, NEW A, Fit(x, A, outcome), outcome \in [Bundles -> Seq(Ends)],
         NEW on, NEW rest \in SUBSET on, NEW doubled,
         Assembled(x.green, on, doubled), Told(x) = {}, GivenWhole(dispatched, doubled),
         \A i \in 1 .. Len(x.notices) :
           EndNotice(x.notices[i]) \/ (i = Len(x.notices) /\ DataHere(x.notices[i], on, rest, doubled)),
         Drained(x)
  PROVE  Done(A, rest, doubled)
<1> DEFINE z == Sent(x)
<1>1. Keeps(x, z)
  BY SentKeeps DEF Fit, Sound
<1>2. Becomes(Noticed(z))
  BY DEF Drained
<1> HIDE DEF z
<1>3. Fit(z, A, outcome)
  BY <1>1, KeepsFit
<1>4. z.green = x.green /\ Told(z) = {} /\ z.notices = x.notices
  BY <1>1 DEF Keeps
<1> QED  BY <1>2, <1>3, <1>4, NoticedDone

(* A new driver owes nothing, so that nothing may be owed. *)
LEMMA NewDriverFits ==
  ASSUME NEW A \in SUBSET Bundles, NEW o,
         \A b \in Bundles : Len(o[b]) = IF b \in A THEN 1 ELSE 0
  PROVE  /\ Fit(NewDriver, A, o) /\ Rested(NewDriver)
         /\ \A n \in Numbers : NewDriver.pending[n] = None
         /\ \A on, doubled : Assembled(NewDriver.green, on, doubled)
<1> DEFINE y == NewDriver
<1>1. /\ Shaped(y) /\ y.pending = [n \in Numbers |-> None] /\ y.green = [g \in Incoming |-> None]
      /\ y.next = 1 /\ y.sess = [n \in Numbers |-> -1] /\ y.notices = <<>> /\ y.calls = {}
  BY DEF NewDriver, Shaped, Fields
<1> HIDE DEF y
<1>2. Typed(y)
  BY <1>1, EmptyIsList DEF Typed
<1>3. Correlated(y) /\ Covered(y, y.notices, 1)
  BY <1>1 DEF Correlated, Covered
<1>4. \A b : Calling(y, b) = {}
  BY <1>1 DEF Calling
<1>5. \A b \in Bundles : ~Owes(y, b)
  BY <1>1, DriverAssumption DEF Owes
<1>6. \A b \in Bundles : Placed(y, A, o, b)
  BY <1>4, <1>5 DEF Placed
<1>7. y.next <= Cardinality(A) + 1
  <2>1. IsFiniteSet(A)
    BY DriverAssumption, FS_Subset
  <2>2. Cardinality(A) \in Nat
    BY <2>1, FS_CardinalityType
  <2> QED  BY <1>1, <2>2
<1>8. Rested(y)
  BY <1>1, EmptyIsList DEF Rested
<1>9. \A on, doubled : Assembled(y.green, on, doubled)
  BY <1>1 DEF Assembled
<1>10. /\ Fit(y, A, o) /\ Rested(y)
       /\ \A n \in Numbers : y.pending[n] = None
       /\ \A on, doubled : Assembled(y.green, on, doubled)
  BY <1>1, <1>2, <1>3, <1>6, <1>7, <1>8, <1>9 DEF Fit, Sound
<1> QED  BY <1>10 DEF y

-----------------------------------------------------------------------------
(* The steps.                                                              *)

(* What the invariant says of the driver and of what was called. *)
LEMMA AtRest ==
  ASSUME IInv
  PROVE  /\ Accepted \in SUBSET Bundles /\ outcome \in [Bundles -> Seq(Ends)]
         /\ Typed(d) /\ Fit(d, Accepted, outcome) /\ Closing(d) /\ Told(d) = {}
         /\ Assembled(d.green, air, dups) /\ GivenWhole(dispatched, dups)
<1>1. Accepted \in SUBSET Bundles
  BY DEF Accepted
<1>2. Fit(d, Accepted, outcome) /\ outcome \in [Bundles -> Seq(Ends)] /\ Rested(d)
  BY DEF IInv, Answering, Fit
<1>3. Typed(d)
  BY <1>2 DEF Fit, Sound
<1>4. Closing(d) /\ Told(d) = {}
  BY <1>2 DEF Rested, Closing, Told
<1>5. Assembled(d.green, air, dups) /\ GivenWhole(dispatched, dups)
  BY DEF IInv, Whole, GreenIsWhole, GivenWhole
<1> QED  BY <1>1, <1>2, <1>3, <1>4, <1>5

(* The parts of the invariant, after a step. *)
LEMMA Kept ==
  ASSUME IInv, bundle' = [b \in Bundles |-> bundle'[b]], Commanded', Done(Accepted', air', dups'),
         air' \subseteq air, drv' = "off" => \A n \in Numbers : d'.pending[n] = None
  PROVE  IInv'
<1>1. Answering'
  BY DEF Answering, Done, Fit
<1>2. Whole'
  BY DEF IInv, Whole, Done
<1>3. GreenIsWhole'
  BY DEF GreenIsWhole, GivenWhole, Done
<1> QED  BY <1>1, <1>2, <1>3 DEF IInv

(* The driver and the BPA are left alone. *)
LEMMA LeftAlone ==
  ASSUME IInv, UNCHANGED <<drv, d, outcome, dispatched, air, dups>>, Accepted' = Accepted,
         bundle' = [b \in Bundles |-> bundle'[b]], Commanded'
  PROVE  IInv'
<1>1. Done(Accepted', air', dups')
  BY AtRest DEF Done, IInv, Answering
<1>2. drv' = "off" => \A n \in Numbers : d'.pending[n] = None
  BY DEF IInv, Answering
<1> QED  BY <1>1, <1>2, Kept

(* A step that touches neither the commands nor the bundles keeps both answers. *)
LEMMA SameCommands ==
  ASSUME IInv, UNCHANGED <<cmds, bundle>>
  PROVE  Commanded' /\ Accepted' = Accepted /\ bundle' = [b \in Bundles |-> bundle'[b]]
  BY DEF IInv, Answering, Commanded, Accepted

(* A command other than a forward is sent. *)
LEMMA Sends ==
  ASSUME IInv, bundle' = bundle, NEW r, cmds' = Append(cmds, r),
         r.op \in {"register", "unregister"} \/ r = ShutdownCmd
  PROVE  Commanded' /\ Accepted' = Accepted /\ bundle' = [b \in Bundles |-> bundle'[b]]
<1>1. r.op \in {"register", "unregister", "shutdown"} /\ (r.op = "shutdown" => r = ShutdownCmd)
  BY DEF ShutdownCmd
<1>2. /\ IsList(cmds') /\ Len(cmds) \in Nat /\ Len(cmds') = Len(cmds) + 1
      /\ \A i \in 1 .. Len(cmds) : cmds'[i] = cmds[i]
      /\ cmds'[Len(cmds) + 1] = r
  BY Appended DEF IInv, Answering, Commanded, IsList
<1>3. \A i \in 1 .. Len(cmds') : i \in 1 .. Len(cmds) \/ cmds'[i] = r
  BY <1>2
<1>4. Commanded
  BY DEF IInv, Answering
<1>5. \A i \in 1 .. Len(cmds') :
       /\ cmds'[i].op \in {"forward", "register", "unregister", "shutdown"}
       /\ cmds'[i].op = "shutdown" => cmds'[i] = ShutdownCmd
       /\ cmds'[i].op = "forward" => cmds'[i].b \in Bundles /\ bundle[cmds'[i].b] = "queued"
  BY <1>1, <1>2, <1>3, <1>4 DEF Commanded
<1>6. \A i, j \in 1 .. Len(cmds') :
       cmds'[i].op = "forward" /\ cmds'[j].op = "forward" /\ cmds'[i].b = cmds'[j].b => i = j
  BY <1>1, <1>2, <1>3, <1>4 DEF Commanded
<1>7. Commanded'
  BY <1>2, <1>5, <1>6 DEF Commanded
<1> QED  BY <1>7 DEF Accepted, IInv, Answering

(* Registering and unregistering peers sends a command, no more. *)
LEMMA PeersKeep ==
  ASSUME IInv, NEW e, NEW a, OnUnregister \/ RegisterPeer(e, a) \/ UnregisterPeer(e)
  PROVE  IInv'
<1>1. UNCHANGED <<drv, d, outcome, dispatched, air, dups, bundle>>
  BY DEF OnUnregister, RegisterPeer, UnregisterPeer, bpaVars, claVars
<1>2. \/ cmds' = cmds
      \/ \E r : cmds' = Append(cmds, r) /\ (r.op \in {"register", "unregister"} \/ r = ShutdownCmd)
  <2>1. CASE OnUnregister
    BY <2>1 DEF OnUnregister
  <2>2. CASE RegisterPeer(e, a)
    <3>1. RegisterCmd(e, a).op = "register"
      BY DEF RegisterCmd
    <3> QED  BY <2>2, <3>1 DEF RegisterPeer
  <2>3. CASE UnregisterPeer(e)
    <3>1. UnregisterCmd(e).op = "unregister"
      BY DEF UnregisterCmd
    <3> QED  BY <2>3, <3>1 DEF UnregisterPeer
  <2> QED  BY <2>1, <2>2, <2>3
<1>3. Commanded' /\ Accepted' = Accepted /\ bundle' = [b \in Bundles |-> bundle'[b]]
  BY <1>1, <1>2, Sends, SameCommands
<1> QED  BY <1>1, <1>3, LeftAlone

(* A forward sends a command that waits for its answer. *)
LEMMA ForwardKeeps ==
  ASSUME IInv, NEW b \in Bundles, Forward(b)
  PROVE  IInv'
<1> DEFINE r == ForwardCmd(b, Resolved(Dest[b]))
<1>1. /\ bundle = [c \in Bundles |-> bundle[c]] /\ bundle[b] = "held"
      /\ UNCHANGED <<drv, d, outcome, dispatched, air, dups>> /\ Commanded
  BY DEF Forward, IInv, Answering
<1>2. r.op = "forward" /\ r.b = b
  BY DEF ForwardCmd
<1>3. CASE bundle' = [bundle EXCEPT ![b] = "noNeighbour"] /\ cmds' = cmds
  <2>1. Accepted' = Accepted /\ bundle' = [c \in Bundles |-> bundle'[c]]
    BY <1>1, <1>3 DEF Accepted
  <2>2. \A c \in Bundles : bundle[c] = "queued" => bundle'[c] = "queued"
    BY <1>1, <1>3
  <2>3. Commanded'
    BY <1>1, <1>3, <2>2 DEF Commanded
  <2> QED  BY <1>1, <2>1, <2>3, LeftAlone
<1>4. CASE bundle' = [bundle EXCEPT ![b] = "queued"] /\ cmds' = Append(cmds, r)
  <2>1. Accepted' = Accepted /\ bundle' = [c \in Bundles |-> bundle'[c]]
    BY <1>1, <1>4 DEF Accepted
  <2>2. bundle'[b] = "queued" /\ \A c \in Bundles : bundle[c] = "queued" => bundle'[c] = "queued" /\ c # b
    BY <1>1, <1>4
  <2> HIDE DEF r
  <2>3. /\ IsList(cmds') /\ Len(cmds) \in Nat /\ Len(cmds') = Len(cmds) + 1
        /\ \A i \in 1 .. Len(cmds) : cmds'[i] = cmds[i]
        /\ cmds'[Len(cmds) + 1] = r
    BY <1>1, <1>4, Appended DEF Commanded, IsList
  <2>4. \A i \in 1 .. Len(cmds') : i \in 1 .. Len(cmds) \/ (i = Len(cmds) + 1 /\ cmds'[i] = r)
    BY <2>3
  <2>5. \A i \in 1 .. Len(cmds') :
         /\ cmds'[i].op \in {"forward", "register", "unregister", "shutdown"}
         /\ cmds'[i].op = "shutdown" => cmds'[i] = ShutdownCmd
         /\ cmds'[i].op = "forward" => cmds'[i].b \in Bundles /\ bundle'[cmds'[i].b] = "queued"
    BY <1>1, <1>2, <2>2, <2>3, <2>4 DEF Commanded
  <2>6. \A i, j \in 1 .. Len(cmds') :
         cmds'[i].op = "forward" /\ cmds'[j].op = "forward" /\ cmds'[i].b = cmds'[j].b => i = j
    BY <1>1, <1>2, <2>2, <2>3, <2>4 DEF Commanded
  <2>7. Commanded'
    BY <2>3, <2>5, <2>6 DEF Commanded
  <2> QED  BY <1>1, <2>1, <2>7, LeftAlone
<1> QED  BY <1>3, <1>4 DEF Forward

(* An order of a finite set is a sequence over it. *)
LEMMA SeqOfSet ==
  ASSUME NEW S, IsFiniteSet(S), NEW s \in SetToSeqs(S)
  PROVE  s \in Seq(S)
<1>1. Cardinality(S) \in Nat
  BY FS_CardinalityType
<1>2. s \in [1 .. Cardinality(S) -> S]
  BY DEF SetToSeqs
<1> QED  BY <1>1, <1>2, SeqDef

(* The peers told to a new driver are finitely many. *)
LEMMA FinitelyTold ==
  ASSUME NEW X \in SUBSET Ids, NEW f
  PROVE  IsFiniteSet({f[e] : e \in X})
<1> DEFINE T == {f[e] : e \in X}
           g == [e \in X |-> f[e]]
<1>1. IsFiniteSet(X)
  BY DriverAssumption, FS_Subset
<1>2. g \in Surjection(X, T)
  BY DEF Surjection
<1> QED  BY <1>1, <1>2, FS_Surjection

(* on_register starts a new driver, with the commands for the known peers. *)
LEMMA OnRegisterKeeps ==
  ASSUME IInv, OnRegister
  PROVE  IInv'
<1> DEFINE X == DOMAIN Configured
           Y == {a \in Addrs : tcp'[a] # None}
           f == [e \in X |-> RegisterCmd(e, Configured[e])]
           g == [a \in Y |-> RegisterCmd(tcp'[a], a)]
           S == {f[e] : e \in X}
           T == {g[a] : a \in Y}
<1>1. X \in SUBSET Ids /\ Y \in SUBSET Ids
  BY DriverAssumption DEF Ids
<1>2. IsFiniteSet(S) /\ IsFiniteSet(T)
  <2> HIDE DEF f, g, X, Y
  <2> QED  BY <1>1, FinitelyTold
<1>3. \A r \in S \cup T : r.op = "register"
  <2>1. \A e, a : RegisterCmd(e, a).op = "register"
    BY DEF RegisterCmd
  <2>2. (\A e \in X : f[e].op = "register") /\ \A a \in Y : g[a].op = "register"
    BY <2>1
  <2> HIDE DEF f, g, X, Y
  <2> QED  BY <2>2
<1>4. \E s \in SetToSeqs(S), t \in SetToSeqs(T) : cmds' = s \o t
  <2>1. S = {RegisterCmd(e, Configured[e]) : e \in DOMAIN Configured}
    OBVIOUS
  <2>2. T = {RegisterCmd(tcp'[a], a) : a \in {b \in Addrs : tcp'[b] # None}}
    OBVIOUS
  <2> HIDE DEF S, T
  <2> QED  BY <2>1, <2>2 DEF OnRegister
<1> HIDE DEF S, T
<1>5. cmds' \in Seq(S \cup T)
  <2>1. PICK s \in SetToSeqs(S), t \in SetToSeqs(T) : cmds' = s \o t
    BY <1>4
  <2>2. s \in Seq(S) /\ t \in Seq(T)
    BY <1>2, SeqOfSet
  <2>3. s \in Seq(S \cup T) /\ t \in Seq(S \cup T)
    BY <2>2
  <2> QED  BY <2>1, <2>3
<1>6. /\ UNCHANGED <<bundle, outcome, dispatched, air, dups>> /\ drv = "off"
      /\ d' = NewDriver
  BY DEF OnRegister
<1>7. Commanded'
  <2>1. IsList(cmds')
    BY <1>5, SeqIsList
  <2>2. \A i \in 1 .. Len(cmds') : cmds'[i].op = "register"
    BY <1>3, <1>5
  <2> QED  BY <2>1, <2>2 DEF Commanded
<1>8. Accepted' = Accepted /\ bundle' = [b \in Bundles |-> bundle'[b]]
  BY <1>6 DEF Accepted, IInv, Answering
<1>9. \A b \in Bundles : Len(outcome[b]) = IF b \in Accepted THEN 1 ELSE 0
  <2> TAKE b \in Bundles
  <2>1. ~Owes(d, b)
    BY <1>6, DriverAssumption DEF IInv, Answering, Owes
  <2>2. Calling(d, b) = {}
    BY DEF IInv, Answering, Rested, Calling
  <2>3. Placed(d, Accepted, outcome, b)
    BY DEF IInv, Answering, Sound
  <2> QED  BY <2>1, <2>2, <2>3 DEF Placed
<1>10. /\ Fit(NewDriver, Accepted, outcome) /\ Rested(NewDriver)
       /\ \A n \in Numbers : NewDriver.pending[n] = None
       /\ \A on, doubled : Assembled(NewDriver.green, on, doubled)
  BY <1>9, AtRest, NewDriverFits
<1>11. Done(Accepted', air', dups')
  BY <1>6, <1>8, <1>10, AtRest DEF Done
<1> QED  BY <1>6, <1>7, <1>8, <1>10, <1>11, Kept

(* A shutdown cancels every bundle owed an outcome, and drops the waiting commands. *)
LEMMA ShutdownKeeps ==
  ASSUME IInv, Shutdown
  PROVE  IInv'
<1>1. /\ UNCHANGED <<dispatched, air, dups>> /\ d' = NewDriver /\ cmds' = <<>>
      /\ bundle' = [b \in Bundles |-> IF bundle[b] = "queued" THEN "closed" ELSE bundle[b]]
      /\ outcome' = [b \in Bundles |-> IF b \in Range(d.pending) THEN Append(outcome[b], "cancelled")
                                       ELSE outcome[b]]
  BY DEF Shutdown
<1>2. Commanded'
  BY <1>1, EmptyIsList DEF Commanded
<1>3. Accepted' = Accepted /\ bundle' = [b \in Bundles |-> bundle'[b]]
  BY <1>1 DEF Accepted
<1>4. ASSUME NEW b \in Bundles
      PROVE  outcome'[b] \in Seq(Ends) /\ Len(outcome'[b]) = IF b \in Accepted THEN 1 ELSE 0
  <2>1. outcome[b] \in Seq(Ends) /\ "cancelled" \in Ends
    BY AtRest DEF Ends
  <2>2. Calling(d, b) = {}
    BY DEF IInv, Answering, Rested, Calling
  <2>3. Placed(d, Accepted, outcome, b)
    BY DEF IInv, Answering, Sound
  <2>4. b \in Range(d.pending) <=> Owes(d, b)
    BY AtRest DEF Typed, Range, Owes
  <2>5. CASE Owes(d, b)
    <3>1. b \in Accepted /\ Len(outcome[b]) = 0 /\ outcome'[b] = Append(outcome[b], "cancelled")
      BY <1>1, <2>3, <2>4, <2>5 DEF Placed
    <3> QED  BY <2>1, <3>1
  <2>6. CASE ~Owes(d, b)
    <3>1. outcome'[b] = outcome[b] /\ Len(outcome[b]) = IF b \in Accepted THEN 1 ELSE 0
      BY <1>1, <2>2, <2>3, <2>4, <2>6 DEF Placed
    <3> QED  BY <2>1, <3>1
  <2> QED  BY <2>5, <2>6
<1>5. outcome' \in [Bundles -> Seq(Ends)]
  BY <1>1, <1>4
<1>6. /\ Fit(NewDriver, Accepted, outcome') /\ Rested(NewDriver)
      /\ \A n \in Numbers : NewDriver.pending[n] = None
      /\ \A on, doubled : Assembled(NewDriver.green, on, doubled)
  BY <1>4, AtRest, NewDriverFits
<1>7. Done(Accepted', air', dups')
  BY <1>1, <1>3, <1>5, <1>6, AtRest DEF Done
<1> QED  BY <1>1, <1>2, <1>3, <1>6, <1>7, Kept

(* At most one session ended, and the notices are drained. *)
LEMMA MovedDone ==
  ASSUME IInv, NEW x, Moves(d, x), Drained(x) \/ Becomes(Noticed(x)) \/ Becomes(x) \/ Becomes(Sent(x))
  PROVE  Done(Accepted, air, dups)
<1>1. /\ Fit(x, Accepted, outcome) /\ Closing(x)
      /\ Assembled(x.green, air, dups) /\ Told(x) = {}
      /\ outcome \in [Bundles -> Seq(Ends)] /\ GivenWhole(dispatched, dups)
  BY AtRest, MovesFit
<1>2. \A i \in 1 .. Len(x.notices) :
        EndNotice(x.notices[i]) \/ (i = Len(x.notices) /\ DataHere(x.notices[i], air, air, dups))
  BY <1>1 DEF Closing
<1>3. CASE Drained(x)
  BY <1>1, <1>2, <1>3, DrainedDone
<1>4. CASE Becomes(Noticed(x))
  BY <1>1, <1>2, <1>4, NoticedDone
<1>5. ASSUME NEW y, y.green = x.green, Told(y) = {} PROVE Filled(y, air, dups)
  <2>1. \A k \in y.calls : k.op # "dispatch"
    BY <1>5 DEF Told
  <2> QED  BY <1>1, <1>5, <2>1 DEF Filled, HandedWhole
<1>6. CASE Becomes(x)
  <2>1. Filled(x, air, dups)
    BY <1>1, <1>5
  <2> QED  BY <1>1, <1>6, <2>1, BecomesDone
<1>7. CASE Becomes(Sent(x))
  <2> DEFINE y == Sent(x)
  <2>1. Keeps(x, y)
    BY <1>1, SentKeeps DEF Fit, Sound
  <2>2. Becomes(y)
    BY <1>7
  <2> HIDE DEF y
  <2>3. Fit(y, Accepted, outcome)
    BY <1>1, <2>1, KeepsFit
  <2>4. Closing(y) /\ y.green = x.green /\ Told(y) = {}
    BY <1>1, <2>1 DEF Keeps, Closing
  <2>5. Filled(y, air, dups)
    BY <1>5, <2>4
  <2> QED  BY <1>1, <2>2, <2>3, <2>4, <2>5, BecomesDone
<1> QED  BY <1>3, <1>4, <1>6, <1>7

(* A report or a cancellation from a peer. *)
LEMMA AnswerKeeps ==
  ASSUME IInv, NEW a, ReceiveAnswer(a)
  PROVE  IInv'
<1>1. PICK p \in Answers \cup {Noise} : Receive(a, p) /\ UNCHANGED <<air, dups>>
  BY DEF ReceiveAnswer
<1> DEFINE x == AfterPacket(d, a, p)
<1>2. Linked /\ Drained(x) /\ UNCHANGED <<drv, cmds, bundle>>
  BY <1>1 DEF Receive
<1>3. Moves(d, x)
  BY AtRest, PacketMoves
<1> HIDE DEF x
<1>4. Done(Accepted, air, dups)
  BY <1>2, <1>3, MovedDone
<1>5. Commanded' /\ Accepted' = Accepted /\ bundle' = [b \in Bundles |-> bundle'[b]]
  BY <1>2, SameCommands
<1>6. drv' # "off"
  BY <1>2 DEF Linked
<1> QED  BY <1>1, <1>4, <1>5, <1>6, Kept

(* A data segment from a peer, once or twice. *)
LEMMA DataKeeps ==
  ASSUME IInv, NEW a, ReceiveData(a)
  PROVE  IInv'
<1>1. PICK s \in air, stale \in SUBSET Held(d.green) :
        /\ \/ air' = air \ {s} /\ dups' = dups
           \/ s[2] # 0 /\ air' = air /\ dups' = dups \cup {s[1]}
        /\ Receive(a, Data(s, stale))
  BY DEF ReceiveData
<1> DEFINE x == AfterPacket(d, a, Data(s, stale))
           r == DataOf(s, stale)
<1>2. Linked /\ Drained(x) /\ UNCHANGED <<drv, cmds, bundle>>
  BY <1>1 DEF Receive
<1>3. Queues(d, x, r)
  BY AtRest, DataPacketQueues
<1> HIDE DEF x
<1>4. r.kind = (IF s[2] = 0 THEN "red" ELSE "green") /\ r.id = s[1] /\ r.at = s[2]
  BY DEF DataOf
<1> HIDE DEF r
<1>5. \/ s[2] = 0
      \/ s[1] \in Incoming /\ s[2] \in 1 .. GreenLen[s[1]] /\ s = <<s[1], s[2]>>
  BY DEF IInv, Whole
<1>6. air' \in SUBSET air /\ dups \subseteq dups'
  BY <1>1
<1>7. DataHere(r, air, air', dups')
  <2>1. CASE s[2] = 0
    BY <1>4, <2>1 DEF DataHere
  <2>2. CASE s[2] # 0
    <3>1. s[1] \in Incoming /\ s[2] \in 1 .. GreenLen[s[1]] /\ s = <<s[1], s[2]>>
      BY <1>5, <2>2
    <3>2. s[1] \notin dups' => <<s[1], s[2]>> \in air /\ <<s[1], s[2]>> \notin air'
      BY <1>1, <3>1
    <3>3. Arrives(s[1], s[2], air, air', dups')
      BY <1>6, <3>1, <3>2 DEF Arrives
    <3> QED  BY <1>4, <2>2, <3>3 DEF DataHere
  <2> QED  BY <2>1, <2>2
<1>8. /\ Fit(x, Accepted, outcome) /\ Told(x) = {} /\ outcome \in [Bundles -> Seq(Ends)]
      /\ x.green = d.green
  BY <1>3, AtRest, QueuesFit DEF Queues
<1>9. Assembled(x.green, air, dups') /\ GivenWhole(dispatched, dups')
  <2>1. Assembled(d.green, air, dups) /\ GivenWhole(dispatched, dups)
    BY AtRest
  <2>2. Assembled(d.green, air, dups')
    BY <1>6, <2>1, FewerOnTheWay
  <2>3. GivenWhole(dispatched, dups')
    BY <1>6, <2>1 DEF GivenWhole
  <2> QED  BY <1>8, <2>2, <2>3
<1>10. \A i \in 1 .. Len(x.notices) :
         EndNotice(x.notices[i]) \/ (i = Len(x.notices) /\ DataHere(x.notices[i], air, air', dups'))
  <2>1. IsList(d.notices) /\ x.notices = Append(d.notices, r) /\ Closing(d)
    BY <1>3, AtRest DEF Queues, Typed
  <2>2. /\ Len(d.notices) \in Nat /\ Len(x.notices) = Len(d.notices) + 1
        /\ \A i \in 1 .. Len(d.notices) : x.notices[i] = d.notices[i]
        /\ x.notices[Len(d.notices) + 1] = r
    BY <2>1, Appended DEF IsList
  <2>3. \A i \in 1 .. Len(x.notices) : i \in 1 .. Len(d.notices) \/ i = Len(x.notices)
    BY <2>2
  <2> QED  BY <1>7, <2>1, <2>2, <2>3 DEF Closing
<1>11. Done(Accepted, air', dups')
  BY <1>2, <1>6, <1>8, <1>9, <1>10, DrainedDone
<1>12. Commanded' /\ Accepted' = Accepted /\ bundle' = [b \in Bundles |-> bundle'[b]]
  BY <1>2, SameCommands
<1>13. drv' # "off"
  BY <1>2 DEF Linked
<1> QED  BY <1>6, <1>11, <1>12, <1>13, Kept

(* A timer of a session. *)
LEMMA TimerKeeps ==
  ASSUME IInv, NEW n \in Numbers, TimerTick(n)
  PROVE  IInv'
<1> DEFINE x == AfterTimer(d, n)
<1>1. /\ drv' # "off" /\ UNCHANGED <<cmds, bundle, air, dups>>
      /\ Drained(x) \/ Becomes(Noticed(x))
  BY DEF TimerTick
<1>2. Moves(d, x)
  BY AtRest, TimerMoves
<1> HIDE DEF x
<1>3. Done(Accepted, air, dups)
  BY <1>1, <1>2, MovedDone
<1>4. Commanded' /\ Accepted' = Accepted /\ bundle' = [b \in Bundles |-> bundle'[b]]
  BY <1>1, SameCommands
<1> QED  BY <1>1, <1>3, <1>4, Kept

(* The first command is taken and, if it is a forward, answered. *)
LEMMA FirstCommand ==
  ASSUME IInv, cmds # <<>>, NEW c, c = Head(cmds), c # ShutdownCmd, cmds' = Tail(cmds), bundle' = Answered(c)
  PROVE  /\ c.op \in {"forward", "register", "unregister"}
         /\ c.op = "forward" => c.b \in Bundles \ Accepted
         /\ Accepted' = WithGranted(d, c, Accepted)
         /\ bundle' = [b \in Bundles |-> bundle'[b]]
         /\ Commanded'
<1>1. Commanded /\ bundle = [b \in Bundles |-> bundle[b]]
  BY DEF IInv, Answering
<1>2. /\ IsList(cmds') /\ Len(cmds) \in Nat /\ Len(cmds) > 0 /\ Len(cmds') = Len(cmds) - 1
      /\ \A i \in 1 .. Len(cmds') : cmds'[i] = cmds[i + 1]
      /\ c = cmds[1]
  BY <1>1, Taken DEF Commanded, IsList
<1>3. 1 \in 1 .. Len(cmds) /\ \A i \in 1 .. Len(cmds') : i + 1 \in 1 .. Len(cmds) /\ i + 1 # 1
  BY <1>2
<1>4. /\ c.op \in {"forward", "register", "unregister"}
      /\ c.op = "forward" => c.b \in Bundles /\ bundle[c.b] = "queued"
  BY <1>1, <1>2, <1>3 DEF Commanded
<1>5. c.op = "forward" => c.b \in Bundles \ Accepted
  BY <1>4 DEF Accepted
<1>6. bundle' = IF c.op # "forward" THEN bundle
                ELSE [bundle EXCEPT ![c.b] = IF d.e2a[c.e] = None THEN "noNeighbour" ELSE "accepted"]
  BY DEF Answered
<1>7. bundle' = [b \in Bundles |-> bundle'[b]]
  BY <1>1, <1>6
<1>8. Accepted' = WithGranted(d, c, Accepted)
  <2>1. Accepted' = {b \in Bundles : bundle'[b] = "accepted"}
    BY DEF Accepted
  <2>2. CASE c.op # "forward"
    BY <1>6, <2>1, <2>2 DEF WithGranted, Granted, Accepted
  <2>3. CASE c.op = "forward" /\ d.e2a[c.e] = None
    BY <1>1, <1>4, <1>6, <2>1, <2>3 DEF WithGranted, Granted, Accepted
  <2>4. CASE c.op = "forward" /\ d.e2a[c.e] # None
    BY <1>1, <1>4, <1>6, <2>1, <2>4 DEF WithGranted, Granted, Accepted
  <2> QED  BY <2>2, <2>3, <2>4
<1>9. ASSUME NEW i \in 1 .. Len(cmds')
      PROVE  /\ cmds'[i].op \in {"forward", "register", "unregister", "shutdown"}
             /\ cmds'[i].op = "shutdown" => cmds'[i] = ShutdownCmd
             /\ cmds'[i].op = "forward" => cmds'[i].b \in Bundles /\ bundle'[cmds'[i].b] = "queued"
  <2> DEFINE k == cmds'[i]
  <2>1. k = cmds[i + 1] /\ i + 1 \in 1 .. Len(cmds) /\ i + 1 # 1
    BY <1>2, <1>3
  <2> HIDE DEF k
  <2>2. /\ k.op \in {"forward", "register", "unregister", "shutdown"}
        /\ k.op = "shutdown" => k = ShutdownCmd
        /\ k.op = "forward" => k.b \in Bundles /\ bundle[k.b] = "queued"
    BY <1>1, <2>1 DEF Commanded
  <2>3. k.op = "forward" /\ c.op = "forward" => k.b # c.b
    BY <1>1, <1>2, <1>3, <2>1 DEF Commanded
  <2>4. k.op = "forward" => bundle'[k.b] = "queued"
    BY <1>1, <1>6, <2>2, <2>3
  <2> QED  BY <2>2, <2>4 DEF k
<1>10. \A i, j \in 1 .. Len(cmds') :
         cmds'[i].op = "forward" /\ cmds'[j].op = "forward" /\ cmds'[i].b = cmds'[j].b => i = j
  <2>1. SUFFICES ASSUME NEW i \in 1 .. Len(cmds'), NEW j \in 1 .. Len(cmds'),
                        cmds'[i].op = "forward", cmds'[j].op = "forward", cmds'[i].b = cmds'[j].b
                 PROVE  i + 1 = j + 1
    BY <1>2
  <2> QED  BY <1>1, <1>2, <1>3, <2>1 DEF Commanded
<1>11. Commanded'
  BY <1>2, <1>9, <1>10 DEF Commanded
<1> QED  BY <1>4, <1>5, <1>7, <1>8, <1>11

(* What a command that is not a shutdown leaves behind. *)
LEMMA CommandDone ==
  ASSUME IInv, NEW c, c.op \in {"forward", "register", "unregister"},
         c.op = "forward" => c.b \in Bundles \ Accepted,
         \/ Drained(AfterCommand(d, c))
         \/ Becomes(AfterCommand(d, c))
         \/ Becomes(Sent(AfterCommand(d, c)))
  PROVE  Done(WithGranted(d, c, Accepted), air, dups)
<1> DEFINE x == AfterCommand(d, c)
           A == WithGranted(d, c, Accepted)
<1>1. /\ Fit(x, A, outcome) /\ Closing(x) /\ x.green = d.green /\ Told(x) = {}
  BY AtRest, CommandFits
<1>2. /\ Assembled(x.green, air, dups)
      /\ outcome \in [Bundles -> Seq(Ends)] /\ GivenWhole(dispatched, dups)
  BY <1>1, AtRest
<1>3. Drained(x) \/ Becomes(x) \/ Becomes(Sent(x))
  OBVIOUS
<1> HIDE DEF x, A
<1>4. ASSUME NEW y, y.green = x.green, Told(y) = {} PROVE Filled(y, air, dups)
  <2>1. \A k \in y.calls : k.op # "dispatch"
    BY <1>4 DEF Told
  <2> QED  BY <1>2, <1>4, <2>1 DEF Filled, HandedWhole
<1>5. CASE Drained(x)
  <2>1. \A i \in 1 .. Len(x.notices) :
          EndNotice(x.notices[i]) \/ (i = Len(x.notices) /\ DataHere(x.notices[i], air, air, dups))
    BY <1>1 DEF Closing
  <2>2. Done(A, air, dups)
    BY <1>1, <1>2, <1>5, <2>1, DrainedDone
  <2> QED  BY <2>2 DEF A
<1>6. CASE Becomes(x)
  <2>1. Filled(x, air, dups)
    BY <1>1, <1>4
  <2>2. Done(A, air, dups)
    BY <1>1, <1>2, <1>6, <2>1, BecomesDone
  <2> QED  BY <2>2 DEF A
<1>7. CASE Becomes(Sent(x))
  <2> DEFINE y == Sent(x)
  <2>1. Keeps(x, y)
    BY <1>1, SentKeeps DEF Fit, Sound
  <2>2. Becomes(y)
    BY <1>7
  <2> HIDE DEF y
  <2>3. Fit(y, A, outcome)
    BY <1>1, <2>1, KeepsFit
  <2>4. Closing(y) /\ y.green = x.green /\ Told(y) = {}
    BY <1>1, <2>1 DEF Keeps, Closing
  <2>5. Filled(y, air, dups)
    BY <1>4, <2>4
  <2>6. Done(A, air, dups)
    BY <1>2, <2>2, <2>3, <2>4, <2>5, BecomesDone
  <2> QED  BY <2>6 DEF A
<1> QED  BY <1>3, <1>5, <1>6, <1>7

(* The driver takes a command and answers it. *)
LEMMA CommandKeeps ==
  ASSUME IInv, HandleCommand
  PROVE  IInv'
<1> DEFINE c == Head(cmds)
<1>1. /\ drv' # "off" /\ UNCHANGED <<air, dups>>
      /\ cmds # <<>> /\ c # ShutdownCmd /\ cmds' = Tail(cmds) /\ bundle' = Answered(c)
      /\ Drained(AfterCommand(d, c)) \/ Becomes(AfterCommand(d, c))
  BY DEF HandleCommand
<1>2. c = Head(cmds)
  OBVIOUS
<1> HIDE DEF c
<1>3. /\ c.op \in {"forward", "register", "unregister"}
      /\ c.op = "forward" => c.b \in Bundles \ Accepted
      /\ Accepted' = WithGranted(d, c, Accepted)
      /\ bundle' = [b \in Bundles |-> bundle'[b]]
      /\ Commanded'
  BY <1>1, <1>2, FirstCommand
<1>4. Done(Accepted', air', dups')
  BY <1>1, <1>3, CommandDone
<1> QED  BY <1>1, <1>3, <1>4, Kept

(* The link comes up, and what waited is sent. *)
LEMMA ConnectKeeps ==
  ASSUME IInv, Connect
  PROVE  IInv'
<1>1. /\ drv' # "off" /\ UNCHANGED <<cmds, bundle, air, dups>>
      /\ Becomes(d) \/ Becomes(Sent(d))
  BY DEF Connect
<1>2. Moves(d, d)
  BY AtRest, KeepsItself DEF Moves
<1>3. Done(Accepted, air, dups)
  BY <1>1, <1>2, MovedDone
<1>4. Commanded' /\ Accepted' = Accepted /\ bundle' = [b \in Bundles |-> bundle'[b]]
  BY <1>1, SameCommands
<1> QED  BY <1>1, <1>3, <1>4, Kept

(* The link is lost. *)
LEMMA LostKeeps ==
  ASSUME IInv, ConnectionLost
  PROVE  IInv'
<1>1. drv' # "off" /\ UNCHANGED <<air, dups>>
  BY DEF ConnectionLost
<1>2. CASE UNCHANGED <<d, outcome, dispatched, known, cmds, bundle>>
  <2>1. Commanded' /\ Accepted' = Accepted /\ bundle' = [b \in Bundles |-> bundle'[b]]
    BY <1>2, SameCommands
  <2>2. Done(Accepted', air', dups')
    BY <1>1, <1>2, <2>1, AtRest DEF Done, IInv, Answering
  <2> QED  BY <1>1, <2>1, <2>2, Kept
<1>3. CASE \E x \in {AfterFrame(d, p) : p \in Answers} \cup {AfterTimer(d, n) : n \in {m \in Numbers : Active(d, m)}} :
             x.out # <<>> /\ Becomes(Sent(x)) /\ UNCHANGED <<cmds, bundle>>
  <2>1. PICK x \in {AfterFrame(d, p) : p \in Answers} \cup {AfterTimer(d, n) : n \in {m \in Numbers : Active(d, m)}} :
               Becomes(Sent(x)) /\ UNCHANGED <<cmds, bundle>>
    BY <1>3
  <2>2. Moves(d, x)
    <3>1. \A p \in Answers : Moves(d, AfterFrame(d, p))
      BY AtRest, PacketMoves
    <3>2. \A n \in Numbers : Moves(d, AfterTimer(d, n))
      BY AtRest, TimerMoves
    <3> QED  BY <3>1, <3>2
  <2>3. Done(Accepted, air, dups)
    BY <2>1, <2>2, MovedDone
  <2>4. Commanded' /\ Accepted' = Accepted /\ bundle' = [b \in Bundles |-> bundle'[b]]
    BY <2>1, SameCommands
  <2> QED  BY <1>1, <2>3, <2>4, Kept
<1>4. CASE /\ cmds # <<>> /\ Head(cmds).op = "forward" /\ d.e2a[Head(cmds).e] # None
           /\ Becomes(Sent(AfterCommand(d, Head(cmds)))) /\ cmds' = Tail(cmds) /\ bundle' = Answered(Head(cmds))
  <2> DEFINE c == Head(cmds)
  <2>1. /\ cmds # <<>> /\ c.op = "forward" /\ cmds' = Tail(cmds) /\ bundle' = Answered(c)
        /\ Becomes(Sent(AfterCommand(d, c)))
    BY <1>4
  <2>2. c = Head(cmds)
    OBVIOUS
  <2> HIDE DEF c
  <2>3. c # ShutdownCmd
    BY <2>1 DEF ShutdownCmd
  <2>4. /\ c.op \in {"forward", "register", "unregister"}
        /\ c.op = "forward" => c.b \in Bundles \ Accepted
        /\ Accepted' = WithGranted(d, c, Accepted)
        /\ bundle' = [b \in Bundles |-> bundle'[b]]
        /\ Commanded'
    BY <2>1, <2>2, <2>3, FirstCommand
  <2>5. Done(Accepted', air', dups')
    BY <1>1, <2>1, <2>4, CommandDone
  <2> QED  BY <1>1, <2>4, <2>5, Kept
<1> QED  BY <1>2, <1>3, <1>4 DEF ConnectionLost

(* The wait before a new attempt is over. *)
LEMMA BackoffKeeps ==
  ASSUME IInv, BackoffElapsed
  PROVE  IInv'
<1>1. drv' # "off" /\ UNCHANGED <<cmds, d, bundle, outcome, dispatched, air, dups>>
  BY DEF BackoffElapsed, bpaVars
<1>2. Commanded' /\ Accepted' = Accepted /\ bundle' = [b \in Bundles |-> bundle'[b]]
  BY <1>1, SameCommands
<1>3. Done(Accepted', air', dups')
  BY <1>1, <1>2, AtRest DEF Done, IInv, Answering
<1> QED  BY <1>1, <1>2, <1>3, Kept

-----------------------------------------------------------------------------
(* The theorems.                                                           *)

(* The invariant holds at first: nothing was forwarded, nothing has come.  *)
LEMMA InitIInv ==
  Init => IInv
<1> SUFFICES ASSUME Init PROVE IInv
  OBVIOUS
<1>1. /\ bundle = [b \in Bundles |-> "held"] /\ outcome = [b \in Bundles |-> <<>>] /\ cmds = <<>>
      /\ d = NewDriver /\ dispatched = {}
      /\ air = (UNION {{g} \X (1 .. GreenLen[g]) : g \in Incoming}) \cup (IncomingRed \X {0})
  BY DEF Init
<1>2. Accepted = {}
  BY <1>1 DEF Accepted
<1>3. outcome \in [Bundles -> Seq(Ends)] /\ \A b \in Bundles : Len(outcome[b]) = 0
  BY <1>1, EmptyIsList
<1>4. Commanded
  BY <1>1, EmptyIsList DEF Commanded
<1>5. /\ Fit(d, Accepted, outcome) /\ Rested(d)
      /\ \A n \in Numbers : d.pending[n] = None
      /\ Assembled(d.green, air, dups)
  <2>1. \A b \in Bundles : Len(outcome[b]) = IF b \in Accepted THEN 1 ELSE 0
    BY <1>2, <1>3
  <2>2. Accepted \in SUBSET Bundles
    BY <1>2
  <2> QED  BY <1>1, <2>1, <2>2, NewDriverFits
<1>6. Answering
  BY <1>1, <1>3, <1>4, <1>5 DEF Answering, Fit
<1>7. \A s \in air : \/ s[2] = 0
                     \/ s[1] \in Incoming /\ s[2] \in 1 .. GreenLen[s[1]] /\ s = <<s[1], s[2]>>
  <2> DEFINE block(g) == {g} \X (1 .. GreenLen[g])
             red == IncomingRed \X {0}
             blocks == {block(g) : g \in Incoming}
  <2>1. air = (UNION blocks) \cup red
    BY <1>1, Zenon
  <2>2. \A w \in blocks : \E g \in Incoming : w = block(g)
    OBVIOUS
  <2> HIDE DEF blocks
  <2> TAKE s \in air
  <2>3. CASE s \in red
    BY <2>3
  <2>4. CASE \E w \in blocks : s \in w
    <3>1. PICK g \in Incoming : s \in block(g)
      BY <2>2, <2>4
    <3>2. PICK at \in 1 .. GreenLen[g] : s = <<g, at>>
      BY <3>1
    <3> QED  BY <3>2
  <2>5. s \in red \/ \E w \in blocks : s \in w
    BY <2>1
  <2> QED  BY <2>3, <2>4, <2>5
<1>8. Whole /\ GreenIsWhole
  BY <1>1, <1>5, <1>7 DEF Whole, GreenIsWhole
<1> QED  BY <1>6, <1>8 DEF IInv

(* Every step keeps it. *)
LEMMA NextIInv ==
  IInv /\ [Next]_vars => IInv'
<1> SUFFICES ASSUME IInv, [Next]_vars PROVE IInv'
  OBVIOUS
<1>1. CASE OnRegister
  BY <1>1, OnRegisterKeeps
<1>2. CASE OnUnregister
  BY <1>2, PeersKeep
<1>3. ASSUME NEW e \in Engines, UnregisterPeer(e) \/ \E a \in Addrs : RegisterPeer(e, a)
      PROVE  IInv'
  BY <1>3, PeersKeep
<1>4. ASSUME NEW b \in Bundles, Forward(b) PROVE IInv'
  BY <1>4, ForwardKeeps
<1>5. ASSUME NEW a \in Addrs, ReceiveAnswer(a) \/ ReceiveData(a) PROVE IInv'
  BY <1>5, AnswerKeeps, DataKeeps
<1>6. ASSUME NEW n \in Numbers, TimerTick(n) PROVE IInv'
  BY <1>6, TimerKeeps
<1>7. CASE HandleCommand
  BY <1>7, CommandKeeps
<1>8. CASE Shutdown
  BY <1>8, ShutdownKeeps
<1>9. CASE Connect
  BY <1>9, ConnectKeeps
<1>10. CASE ConnectionLost
  BY <1>10, LostKeeps
<1>11. CASE BackoffElapsed
  BY <1>11, BackoffKeeps
<1>12. CASE UNCHANGED vars
  <2>1. UNCHANGED <<drv, cmds, d, bundle, outcome, dispatched, air, dups>>
    BY <1>12 DEF vars
  <2>2. Commanded' /\ Accepted' = Accepted /\ bundle' = [b \in Bundles |-> bundle'[b]]
    BY <2>1, SameCommands
  <2> QED  BY <2>1, <2>2, LeftAlone
<1> QED  BY <1>1, <1>2, <1>3, <1>4, <1>5, <1>6, <1>7, <1>8, <1>9, <1>10, <1>11, <1>12 DEF Next

(* The driver's correlation of sessions with bundles, the reassemblies and *)
(* the commands that wait are as described, in every state of LtpDriver.   *)
THEOREM Correct ==
  Spec => []IInv
<1>1. Init => IInv
  BY InitIInv
<1>2. IInv /\ [Next]_vars => IInv'
  BY NextIInv
<1> QED  BY <1>1, <1>2, PTL DEF Spec

(* How many sessions owe an outcome of b: one or none. *)
LEMMA OwedOnce ==
  ASSUME IInv, NEW b \in Bundles
  PROVE  /\ Owes(d, b) => Cardinality({n \in Numbers : d.pending[n] = b}) = 1
         /\ ~Owes(d, b) => Cardinality({n \in Numbers : d.pending[n] = b}) = 0
<1> DEFINE S == {n \in Numbers : d.pending[n] = b}
<1>1. Correlated(d) /\ b # None
  BY DriverAssumption DEF IInv, Answering, Sound
<1>2. CASE Owes(d, b)
  <2>1. PICK n \in Numbers : d.pending[n] = b
    BY <1>2 DEF Owes
  <2>2. S = {n}
    BY <1>1, <2>1 DEF Correlated
  <2> QED  BY <1>2, <2>2, FS_Singleton
<1>3. CASE ~Owes(d, b)
  <2>1. S = {}
    BY <1>3 DEF Owes
  <2> QED  BY <1>3, <2>1, FS_EmptySet
<1> QED  BY <1>2, <1>3

(* Every bundle the adapter accepted has exactly one transfer outcome,     *)
(* reported by drain_notices or at shutdown, or owed by a session that     *)
(* runs or whose notice is queued; a bundle it did not accept has none; a  *)
(* driver that is off owes nothing.                                        *)
THEOREM Accounted ==
  Spec => []AcceptedIsAccounted
<1>1. IInv => AcceptedIsAccounted
  <2> SUFFICES ASSUME IInv PROVE AcceptedIsAccounted
    OBVIOUS
  <2>1. ASSUME NEW b \in Bundles PROVE Reports(b) = IF bundle[b] = "accepted" THEN 1 ELSE 0
    <3>1. Placed(d, Accepted, outcome, b) /\ Calling(d, b) = {}
      BY DEF IInv, Answering, Sound, Rested, Calling
    <3>2. \/ b \notin Accepted /\ Len(outcome[b]) = 0 /\ ~Owes(d, b)
          \/ b \in Accepted /\ Len(outcome[b]) = 1 /\ ~Owes(d, b)
          \/ b \in Accepted /\ Len(outcome[b]) = 0 /\ Owes(d, b)
      BY <3>1 DEF Placed
    <3>3. Reports(b) = Len(outcome[b]) + Cardinality({n \in Numbers : d.pending[n] = b})
      BY DEF Reports
    <3>4. b \in Accepted <=> bundle[b] = "accepted"
      BY DEF Accepted
    <3>5. CASE Owes(d, b)
      <4>1. Cardinality({n \in Numbers : d.pending[n] = b}) = 1 /\ b \in Accepted /\ Len(outcome[b]) = 0
        BY <3>2, <3>5, OwedOnce
      <4> QED  BY <3>3, <3>4, <4>1
    <3>6. CASE ~Owes(d, b)
      <4> DEFINE owed == Cardinality({n \in Numbers : d.pending[n] = b})
      <4>1. owed = 0
        BY <3>6, OwedOnce
      <4>2. Reports(b) = Len(outcome[b]) + owed
        BY <3>3
      <4> HIDE DEF owed
      <4>3. CASE b \in Accepted
        <5>1. Len(outcome[b]) = 1
          BY <3>2, <3>6, <4>3
        <5> QED  BY <3>4, <4>1, <4>2, <4>3, <5>1
      <4>4. CASE b \notin Accepted
        <5>1. Len(outcome[b]) = 0
          BY <3>2, <4>4
        <5> QED  BY <3>4, <4>1, <4>2, <4>4, <5>1
      <4> QED  BY <4>3, <4>4
    <3> QED  BY <3>5, <3>6
  <2>2. ASSUME NEW n \in Numbers, d.pending[n] # None
        PROVE  Active(d, n) \/ \E i \in DOMAIN d.notices :
                                  d.notices[i].kind \in {"completed", "cancelled"} /\ d.notices[i].id = n
    <3>1. d.sess[n] >= 0 \/ Announced(d.notices, 1, n)
      BY <2>2 DEF IInv, Answering, Covered
    <3>2. DOMAIN d.notices = 1 .. Len(d.notices)
      BY DEF IInv, Answering, Sound, Typed, IsList
    <3> QED  BY <3>1, <3>2 DEF Active, Announced, Ends
  <2>3. drv = "off" => \A n \in Numbers : d.pending[n] = None
    BY DEF IInv, Answering
  <2> QED  BY <2>1, <2>2, <2>3 DEF AcceptedIsAccounted
<1> QED  BY <1>1, Correct, PTL

(* A green block none of whose segments was duplicated is given to the BPA *)
(* by drain_notices only with all its segments copied into it, in whatever *)
(* order they came, whichever were lost and whatever was swept meanwhile.  *)
THEOREM WholeGreen ==
  Spec => []GreenIsWhole
<1>1. IInv => GreenIsWhole
  BY DEF IInv
<1> QED  BY <1>1, Correct, PTL
=============================================================================
