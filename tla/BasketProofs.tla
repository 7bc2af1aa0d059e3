---------------------------- MODULE BasketProofs ----------------------------
(***************************************************************************)
(* Proofs about dtnbasket for any number of requests, any items, any files *)
(* and whatever the servers answer: an entry of active_tasks is the handle *)
(* of a task that can still be cancelled, the items of a request are       *)
(* answered once each and in order, only files that are served leave, and  *)
(* what is sent is what was announced.                                     *)
(***************************************************************************)
EXTENDS Basket, TLAPS, FiniteSetTheorems, SequenceTheorems

(* A finite sequence, of whatever. *)
IsList(s) == Len(s) \in Nat /\ s = [i \in 1 .. Len(s) |-> s[i]]

(* The fields of a task. *)
Fields == {"pc", "req", "cancel", "idx", "uri", "hops", "left", "resps", "raws", "out", "n"}

Shaped(x) == x = [f \in Fields |-> x[f]]

Shape ==
  /\ task = [t \in Tasks |-> task[t]]
  /\ \A t \in Tasks : Shaped(task[t])

(* The handles.  A running task whose channel is open has its sender in    *)
(* active_tasks; one whose channel closed lost it to another request with  *)
(* its id, which has been read and so keeps that id.                       *)
Handles ==
  /\ \A id \in DOMAIN active :
       /\ active[id] \in Tasks
       /\ task[active[id]].req.req_id = id
       /\ task[active[id]].pc \in Running
       /\ task[active[id]].cancel = "open"
  /\ \A t \in Tasks :
       task[t].pc \in Running /\ task[t].cancel = "open"
         => task[t].req.req_id \in DOMAIN active /\ active[task[t].req.req_id] = t
  /\ \A t \in Tasks :
       task[t].pc \in Running /\ task[t].cancel = "closed"
         => \E u \in Tasks \ {t} : /\ task[u].pc \notin {"new", "spawned"}
                                   /\ task[u].req.req_id = task[t].req.req_id
  /\ \A t \in Tasks : task[t].cancel \in {"open", "closed", "cancelled"}
  /\ \A t \in Tasks : task[t].pc \in {"new", "spawned"} => task[t].cancel = "open"

(* The item the task is at has not been answered yet (a SEARCH: not wholly). *)
Busy(x) == x.pc \in {"fetch", "search", "index", "inline"}

(* The responses of a task so far: they belong to items it has reached, in *)
(* their order; two of them belong to one item only if that is a SEARCH;   *)
(* and every item it has done with, but a SEARCH, has one.                 *)
Orderly(x) ==
  /\ IsList(x.req.items) /\ IsList(x.resps)
  /\ x.idx \in 0 .. Len(x.req.items)
  /\ Busy(x) => x.idx > 0
  /\ \A i \in 1 .. Len(x.resps) : x.resps[i].item_idx \in 0 .. x.idx - 1
  /\ \A i, j \in 1 .. Len(x.resps) : i < j => x.resps[i].item_idx <= x.resps[j].item_idx
  /\ \A i, j \in 1 .. Len(x.resps) :
       i # j /\ x.resps[i].item_idx = x.resps[j].item_idx => x.req.items[x.resps[i].item_idx + 1].op = 2
  /\ \A k \in 1 .. x.idx :
       x.req.items[k].op # 2 /\ (Busy(x) => k < x.idx) => \E i \in 1 .. Len(x.resps) : x.resps[i].item_idx = k - 1
  /\ Busy(x) /\ x.req.items[x.idx].op # 2 => \A i \in 1 .. Len(x.resps) : x.resps[i].item_idx # x.idx - 1

(* Where a task is, and what that says of the rest of it. *)
Staged(x) ==
  /\ x.pc \in {"new", "spawned", "send", "done"} \cup Running
  /\ x.pc \in {"new", "spawned"} => x.idx = 0 /\ x.resps = <<>>
  /\ x.pc # "send" => x.out = <<>>
  /\ x.pc = "search" => x.req.items[x.idx].op \in {2, 4}
  /\ x.pc = "inline" => x.req.items[x.idx].op = 2
  /\ x.pc = "send" =>
       /\ x.out[1].wire = EncodeResponse(x.req.req_id, x.resps)
       /\ x.cancel # "cancelled" => x.idx = Len(x.req.items)

Ordered(x) == Orderly(x) /\ Staged(x)

(* The inductive invariant. *)
IInv == Shape /\ Handles /\ \A t \in Tasks : Ordered(task[t])

-----------------------------------------------------------------------------
(* Lists of responses.                                                     *)

(* A response is added to a list. *)
Grows(s, r, z) ==
  /\ IsList(z) /\ Len(z) = Len(s) + 1
  /\ \A i \in 1 .. Len(s) : z[i] = s[i]
  /\ z[Len(s) + 1] = r

(* A list is a sequence over its own elements. *)
LEMMA ListIsSeq ==
  ASSUME NEW s, IsList(s)
  PROVE  \E S : s \in Seq(S)
<1> DEFINE S == {s[i] : i \in 1 .. Len(s)}
<1>1. s \in [1 .. Len(s) -> S]
  BY DEF IsList
<1>2. s \in Seq(S)
  BY <1>1, SeqDef DEF IsList
<1> QED  BY <1>2

LEMMA SeqIsList ==
  ASSUME NEW S, NEW s \in Seq(S)
  PROVE  IsList(s)
  BY DEF IsList

(* Append and the concatenation with one response both add it at the end. *)
LEMMA AppendGrows ==
  ASSUME NEW s, IsList(s), NEW r
  PROVE  Grows(s, r, Append(s, r)) /\ Grows(s, r, s \o <<r>>)
<1>1. PICK S : s \in Seq(S)
  BY ListIsSeq
<1> DEFINE T == S \cup {r}
<1>2. s \in Seq(T) /\ r \in T
  BY <1>1
<1> HIDE DEF T
<1>3. Grows(s, r, Append(s, r))
  <2>1. Append(s, r) \in Seq(T)
    BY <1>2
  <2>2. IsList(Append(s, r))
    BY <2>1, SeqIsList
  <2> QED  BY <1>2, <2>2 DEF Grows
<1>4. s \o <<r>> = Append(s, r)
  BY <1>2, AppendIsConcat
<1> QED  BY <1>3, <1>4

(* The empty list adds nothing. *)
LEMMA NothingAdded ==
  ASSUME NEW s, IsList(s)
  PROVE  s \o <<>> = s
<1>1. PICK S : s \in Seq(S)
  BY ListIsSeq
<1> QED  BY <1>1, ConcatEmptySeq

-----------------------------------------------------------------------------
(* The kinds of steps a task takes, as they show in its responses.         *)

(* The request has been read, or not yet. *)
LEMMA FreshIsOrderly ==
  ASSUME NEW y, IsList(y.req.items), y.resps = <<>>, y.idx = 0, ~Busy(y)
  PROVE  Orderly(y)
<1>1. IsList(y.resps) /\ Len(y.resps) = 0
  BY SeqIsList, EmptySeq
<1> QED  BY <1>1 DEF Orderly, IsList

(* Nothing the responses depend on has changed. *)
LEMMA StillOrderly ==
  ASSUME NEW x, NEW y, Orderly(x), y.req = x.req, y.idx = x.idx, y.resps = x.resps, Busy(y) <=> Busy(x)
  PROVE  Orderly(y)
  BY DEF Orderly

(* An item is started. *)
LEMMA BegunIsOrderly ==
  ASSUME NEW x, NEW y, Orderly(x), ~Busy(x), Busy(y), x.idx < Len(x.req.items),
         y.req = x.req, y.idx = x.idx + 1, y.resps = x.resps
  PROVE  Orderly(y)
<1> DEFINE s == x.resps
           d == x.idx
           items == x.req.items
<1>1. d \in Nat /\ Len(items) \in Nat /\ IsList(items) /\ IsList(s) /\ d + 1 \in 0 .. Len(items)
  BY DEF Orderly, IsList
<1>2. /\ \A i \in 1 .. Len(s) : s[i].item_idx \in 0 .. d - 1
      /\ \A i, j \in 1 .. Len(s) : i < j => s[i].item_idx <= s[j].item_idx
      /\ \A i, j \in 1 .. Len(s) : i # j /\ s[i].item_idx = s[j].item_idx => items[s[i].item_idx + 1].op = 2
      /\ \A k \in 1 .. d : items[k].op # 2 => \E i \in 1 .. Len(s) : s[i].item_idx = k - 1
  BY DEF Orderly
<1>3. y.idx = d + 1 /\ y.req.items = items /\ y.resps = s
  OBVIOUS
<1> HIDE DEF s, d, items
<1>4. /\ \A i \in 1 .. Len(s) : s[i].item_idx \in 0 .. (d + 1) - 1 /\ s[i].item_idx # (d + 1) - 1
      /\ \A k \in 1 .. d + 1 : items[k].op # 2 /\ k < d + 1 => \E i \in 1 .. Len(s) : s[i].item_idx = k - 1
  BY <1>1, <1>2
<1> QED  BY <1>1, <1>2, <1>3, <1>4 DEF Orderly

(* The item is answered, by one response. *)
LEMMA AnsweredIsOrderly ==
  ASSUME NEW x, NEW y, NEW r, Orderly(x), Busy(x), ~Busy(y), Grows(x.resps, r, y.resps),
         r.item_idx = x.idx - 1, y.req = x.req, y.idx = x.idx
  PROVE  Orderly(y)
<1> DEFINE s == x.resps
           z == y.resps
           d == x.idx
           items == x.req.items
<1>1. d \in Nat /\ d > 0 /\ d <= Len(items) /\ Len(s) \in Nat /\ IsList(items) /\ Len(items) \in Nat
  BY DEF Orderly, IsList
<1>2. IsList(z) /\ Len(z) = Len(s) + 1 /\ (\A i \in 1 .. Len(s) : z[i] = s[i]) /\ z[Len(s) + 1].item_idx = d - 1
  BY DEF Grows
<1>3. /\ \A i \in 1 .. Len(s) : s[i].item_idx \in 0 .. d - 1
      /\ \A i, j \in 1 .. Len(s) : i < j => s[i].item_idx <= s[j].item_idx
      /\ \A i, j \in 1 .. Len(s) : i # j /\ s[i].item_idx = s[j].item_idx => items[s[i].item_idx + 1].op = 2
      /\ \A k \in 1 .. d : items[k].op # 2 /\ k < d => \E i \in 1 .. Len(s) : s[i].item_idx = k - 1
      /\ items[d].op # 2 => \A i \in 1 .. Len(s) : s[i].item_idx # d - 1
  BY DEF Orderly
<1> HIDE DEF s, z, d, items
<1>4. \A i \in 1 .. Len(z) : z[i].item_idx \in 0 .. d - 1
  BY <1>1, <1>2, <1>3
<1>5. ASSUME NEW i \in 1 .. Len(z), NEW j \in 1 .. Len(z), i < j
      PROVE  z[i].item_idx <= z[j].item_idx
  <2>1. i \in 1 .. Len(s) /\ z[i] = s[i]
    BY <1>1, <1>2, <1>5
  <2>2. CASE j \in 1 .. Len(s)
    BY <1>2, <1>3, <1>5, <2>1, <2>2
  <2>3. CASE j = Len(s) + 1
    BY <1>1, <1>2, <1>3, <2>1, <2>3
  <2> QED  BY <1>1, <1>2, <2>2, <2>3
<1>6. ASSUME NEW i \in 1 .. Len(z), NEW j \in 1 .. Len(z), i # j, z[i].item_idx = z[j].item_idx
      PROVE  items[z[i].item_idx + 1].op = 2
  <2>1. CASE i <= Len(s) /\ j <= Len(s)
    <3>1. i \in 1 .. Len(s) /\ j \in 1 .. Len(s) /\ z[i] = s[i] /\ z[j] = s[j]
      BY <1>1, <1>2, <2>1
    <3> QED  BY <1>3, <1>6, <3>1
  <2>2. CASE i = Len(s) + 1 /\ j <= Len(s)
    <3>1. z[i].item_idx + 1 = d /\ s[j].item_idx = d - 1 /\ j \in 1 .. Len(s)
      BY <1>1, <1>2, <1>6, <2>2
    <3>2. items[d].op = 2
      BY <1>3, <3>1
    <3> QED  BY <3>1, <3>2
  <2>3. CASE j = Len(s) + 1 /\ i <= Len(s)
    <3>1. z[i].item_idx + 1 = d /\ s[i].item_idx = d - 1 /\ i \in 1 .. Len(s)
      BY <1>1, <1>2, <1>6, <2>3
    <3>2. items[d].op = 2
      BY <1>3, <3>1
    <3> QED  BY <3>1, <3>2
  <2> QED  BY <1>1, <1>2, <1>6, <2>1, <2>2, <2>3
<1>7. ASSUME NEW k \in 1 .. d, items[k].op # 2
      PROVE  \E i \in 1 .. Len(z) : z[i].item_idx = k - 1
  <2>1. CASE k = d
    BY <1>1, <1>2, <2>1
  <2>2. CASE k < d
    <3>1. PICK i \in 1 .. Len(s) : s[i].item_idx = k - 1
      BY <1>3, <1>7, <2>2
    <3> QED  BY <1>1, <1>2, <3>1
  <2> QED  BY <1>1, <2>1, <2>2
<1>8. y.idx = d /\ y.req.items = items /\ y.resps = z
  BY DEF d, items, z
<1> QED  BY <1>1, <1>2, <1>4, <1>5, <1>6, <1>7, <1>8 DEF Orderly

(* The item is answered at once. *)
LEMMA AtOnceIsOrderly ==
  ASSUME NEW x, NEW y, NEW r, Orderly(x), ~Busy(x), ~Busy(y), x.idx < Len(x.req.items),
         Grows(x.resps, r, y.resps), r.item_idx = x.idx, y.req = x.req, y.idx = x.idx + 1
  PROVE  Orderly(y)
<1> DEFINE m == [pc |-> "fetch", req |-> x.req, idx |-> x.idx + 1, resps |-> x.resps]
<1>1. m.req = x.req /\ m.idx = x.idx + 1 /\ m.resps = x.resps /\ m.pc = "fetch"
  OBVIOUS
<1> HIDE DEF m
<1>2. Busy(m)
  BY <1>1 DEF Busy
<1>3. Orderly(m)
  BY <1>1, <1>2, BegunIsOrderly
<1>4. x.idx \in Nat
  BY DEF Orderly
<1>5. r.item_idx = m.idx - 1 /\ y.req = m.req /\ y.idx = m.idx /\ Grows(m.resps, r, y.resps)
  BY <1>1, <1>4
<1> QED  BY <1>2, <1>3, <1>5, AnsweredIsOrderly

(* One of the files of a SEARCH is announced. *)
LEMMA FoundIsOrderly ==
  ASSUME NEW x, NEW y, NEW r, Orderly(x), Busy(x), Busy(y), x.req.items[x.idx].op = 2,
         Grows(x.resps, r, y.resps), r.item_idx = x.idx - 1, y.req = x.req, y.idx = x.idx
  PROVE  Orderly(y)
<1> DEFINE m == [pc |-> "items", req |-> y.req, idx |-> y.idx, resps |-> y.resps]
<1>1. m.req = y.req /\ m.idx = y.idx /\ m.resps = y.resps /\ m.pc = "items"
  OBVIOUS
<1> HIDE DEF m
<1>2. ~Busy(m)
  BY <1>1 DEF Busy
<1>3. Orderly(m)
  BY <1>1, <1>2, AnsweredIsOrderly
<1>4. x.idx > 0
  BY DEF Orderly
<1> QED  BY <1>1, <1>2, <1>3, <1>4 DEF Orderly

(* A SEARCH has read its last file. *)
LEMMA SearchedIsOrderly ==
  ASSUME NEW x, NEW y, Orderly(x), Busy(x), ~Busy(y), x.req.items[x.idx].op = 2,
         y.resps = x.resps, y.req = x.req, y.idx = x.idx
  PROVE  Orderly(y)
  BY DEF Orderly

-----------------------------------------------------------------------------
(* What the actions do to the tasks.                                       *)

(* Only task t moves, and neither its request nor its channel changes. *)
Moves(t) ==
  /\ Shape'
  /\ \A u \in Tasks \ {t} : task'[u] = task[u]
  /\ task'[t].req = task[t].req /\ task'[t].cancel = task[t].cancel

(* A step of a task that resolves an item: active_tasks is left alone. *)
Resolves(t) ==
  /\ Moves(t) /\ active' = active
  /\ task'[t].out = task[t].out /\ task'[t].pc \in Running

(* The current item is answered by one response. *)
AnswersOne(t) ==
  /\ Resolves(t)
  /\ task'[t].pc = "items" /\ task'[t].idx = task[t].idx
  /\ \E r : r.item_idx = task[t].idx - 1 /\ Grows(task[t].resps, r, task'[t].resps)

(* The task goes on with its item, at the same place of the loop. *)
GoesOn(t) ==
  /\ Resolves(t)
  /\ task'[t].idx = task[t].idx /\ task'[t].resps = task[t].resps

LEMMA AnswerIs ==
  ASSUME Shape, NEW t \in Tasks, NEW a, NEW b, Answer(t, a, b)
  PROVE  /\ Moves(t)
         /\ task'[t].out = task[t].out /\ task'[t].pc = "items" /\ task'[t].idx = task[t].idx
         /\ task'[t].resps = task[t].resps \o a /\ task'[t].raws = task[t].raws \o b
<1> DEFINE x == task[t]
           c == x.resps \o a
           d == x.raws \o b
           v == Idle.uri
           y == [x EXCEPT !.pc = "items", !.left = {}, !.hops = 0, !.uri = v, !.resps = c, !.raws = d]
<1>1. Shaped(x)
  BY DEF Shape
<1>2. task' = [task EXCEPT ![t] = y]
  BY DEF Answer
<1> HIDE DEF x, c, d, v
<1>3. /\ Shaped(y) /\ y.req = x.req /\ y.cancel = x.cancel /\ y.out = x.out /\ y.idx = x.idx
      /\ y.pc = "items" /\ y.resps = c /\ y.raws = d
  BY <1>1 DEF Shaped, Fields
<1> HIDE DEF y
<1> QED  BY <1>2, <1>3 DEF Shape, Moves, x, c, d

(* One response, whatever goes with it. *)
LEMMA OneAnswer ==
  ASSUME Shape, NEW t \in Tasks, IsList(task[t].resps), active' = active,
         NEW c, NEW m, NEW b, Answer(t, <<Response(t, c, m)>>, b)
  PROVE  AnswersOne(t)
<1> DEFINE r == Response(t, c, m)
<1>1. r.item_idx = task[t].idx - 1
  BY DEF Response
<1>2. Answer(t, <<r>>, b)
  OBVIOUS
<1> HIDE DEF r
<1>3. /\ Moves(t) /\ task'[t].out = task[t].out /\ task'[t].pc = "items"
      /\ task'[t].idx = task[t].idx /\ task'[t].resps = task[t].resps \o <<r>>
  BY <1>2, AnswerIs
<1>4. Grows(task[t].resps, r, task'[t].resps)
  BY <1>3, AppendGrows
<1> QED  BY <1>1, <1>3, <1>4 DEF AnswersOne, Resolves, Running

LEMMA OneStatus ==
  ASSUME Shape, NEW t \in Tasks, IsList(task[t].resps), active' = active, NEW c, AnswerStatus(t, c)
  PROVE  AnswersOne(t)
  BY OneAnswer DEF AnswerStatus

(* A body was read. *)
LEMMA FetchedIs ==
  ASSUME Shape, NEW t \in Tasks, IsList(task[t].resps), active' = active, NEW doc, Fetched(t, doc)
  PROVE  AnswersOne(t)
<1>1. CASE doc.size > Item(t).max_size
  BY <1>1, OneStatus DEF Fetched
<1>2. CASE ~(doc.size > Item(t).max_size) /\ ~Acceptable(Item(t), doc.mime)
  BY <1>2, OneStatus DEF Fetched
<1>3. CASE ~(doc.size > Item(t).max_size) /\ Acceptable(Item(t), doc.mime)
  <2> DEFINE m == Metadata(doc, Item(t).uri)
             b == IF Item(t).op = 0 THEN <<Raw(t, doc)>> ELSE <<>>
  <2>1. Answer(t, <<Response(t, coap_status.CONTENT, m)>>, b)
    BY <1>3 DEF Fetched
  <2> HIDE DEF m, b
  <2> QED  BY <2>1, OneAnswer
<1> QED  BY <1>1, <1>2, <1>3

(* A server sends elsewhere: the next hop, or an answer. *)
LEMMA RedirectIs ==
  ASSUME Shape, NEW t \in Tasks, IsList(task[t].resps), active' = active, NEW to, Redirect(t, to),
         task[t].pc = "fetch"
  PROVE  AnswersOne(t) \/ (GoesOn(t) /\ task'[t].pc = "fetch")
<1>1. CASE task[t].hops >= MaxRedirects
  BY <1>1, OneStatus DEF Redirect
<1>2. CASE ~(task[t].hops >= MaxRedirects) /\ (~IsWeb(to) \/ ~is_safe_host(to.name))
  BY <1>2, OneStatus DEF Redirect
<1>3. CASE ~(task[t].hops >= MaxRedirects) /\ ~(~IsWeb(to) \/ ~is_safe_host(to.name))
  <2> DEFINE x == task[t]
             h == x.hops + 1
             y == [x EXCEPT !.uri = to, !.hops = h]
  <2>1. Shaped(x)
    BY DEF Shape
  <2>2. task' = [task EXCEPT ![t] = y]
    BY <1>3 DEF Redirect
  <2> HIDE DEF x, h
  <2>3. /\ Shaped(y) /\ y.req = x.req /\ y.cancel = x.cancel /\ y.out = x.out /\ y.idx = x.idx
        /\ y.pc = x.pc /\ y.resps = x.resps
    BY <2>1 DEF Shaped, Fields
  <2> HIDE DEF y
  <2> QED  BY <2>2, <2>3 DEF Shape, GoesOn, Resolves, Moves, Running, x
<1> QED  BY <1>1, <1>2, <1>3

LEMMA FetchWebIs ==
  ASSUME Shape, NEW t \in Tasks, IsList(task[t].resps), FetchWeb(t)
  PROVE  task[t].pc = "fetch" /\ (AnswersOne(t) \/ (GoesOn(t) /\ task'[t].pc = "fetch"))
<1>1. task[t].pc = "fetch" /\ active' = active
  BY DEF FetchWeb, At
<1>2. CASE ~is_safe_host(task[t].uri.name)
  BY <1>1, <1>2, OneStatus DEF FetchWeb
<1>3. CASE is_safe_host(task[t].uri.name)
  <2>1. PICK a \in Answers(task[t].uri) :
            \/ a.code = 2 /\ Fetched(t, Body(task[t].uri, a.doc))
            \/ a.code = 3 /\ Redirect(t, a.to)
            \/ a.code \notin {2, 3} /\ AnswerStatus(t, coap_status.NOT_FOUND)
    BY <1>3 DEF FetchWeb
  <2>2. CASE Fetched(t, Body(task[t].uri, a.doc))
    BY <1>1, <2>2, FetchedIs
  <2>3. CASE Redirect(t, a.to)
    BY <1>1, <2>3, RedirectIs
  <2>4. CASE AnswerStatus(t, coap_status.NOT_FOUND)
    BY <1>1, <2>4, OneStatus
  <2> QED  BY <2>1, <2>2, <2>3, <2>4
<1> QED  BY <1>2, <1>3

LEMMA FetchLocalIs ==
  ASSUME Shape, NEW t \in Tasks, IsList(task[t].resps), FetchLocal(t)
  PROVE  task[t].pc = "fetch" /\ AnswersOne(t)
<1>1. task[t].pc = "fetch" /\ active' = active
  BY DEF FetchLocal, At
<1>2. \/ \E doc : Fetched(t, doc)
      \/ \E c : AnswerStatus(t, c)
  BY DEF FetchLocal
<1> QED  BY <1>1, <1>2, FetchedIs, OneStatus

(* The file is gone when it is to be read. *)
LEMMA FetchVanishesIs ==
  ASSUME Shape, NEW t \in Tasks, IsList(task[t].resps), FetchVanishes(t)
  PROVE  task[t].pc = "fetch" /\ AnswersOne(t)
  BY OneStatus DEF FetchVanishes, At

LEMMA FetchCancelledIs ==
  ASSUME Shape, NEW t \in Tasks, IsList(task[t].resps), FetchCancelled(t)
  PROVE  task[t].pc = "fetch" /\ AnswersOne(t)
  BY OneStatus DEF FetchCancelled, At

(* The search is done: nothing found, an index to compile, or files to read. *)
LEMMA SearchIs ==
  ASSUME Shape, NEW t \in Tasks, IsList(task[t].resps), Search(t)
  PROVE  /\ task[t].pc = "search"
         /\ \/ AnswersOne(t)
            \/ GoesOn(t) /\ task'[t].pc = "index"
            \/ GoesOn(t) /\ task'[t].pc = "inline" /\ Item(t).op # 4
<1> DEFINE results == perform_search(Item(t).uri.name)
           many == Item(t).op = 4 \/ Cardinality(results) > InlineLimit
<1>1. task[t].pc = "search" /\ active' = active
  BY DEF Search, At
<1>2. IF results = {} THEN AnswerStatus(t, coap_status.NOT_FOUND)
      ELSE task' = [task EXCEPT ![t].left = results, ![t].pc = IF many THEN "index" ELSE "inline"]
  BY DEF Search
<1>3. CASE results = {}
  BY <1>1, <1>2, <1>3, OneStatus
<1>4. CASE results # {}
  <2> DEFINE x == task[t]
             p == IF many THEN "index" ELSE "inline"
             y == [x EXCEPT !.left = results, !.pc = p]
  <2>1. Shaped(x)
    BY DEF Shape
  <2>2. p \in {"index", "inline"} /\ (p = "inline" => Item(t).op # 4)
    OBVIOUS
  <2>3. task' = [task EXCEPT ![t] = y]
    BY <1>2, <1>4
  <2> HIDE DEF x, p, results
  <2>4. /\ Shaped(y) /\ y.req = x.req /\ y.cancel = x.cancel /\ y.out = x.out /\ y.idx = x.idx
        /\ y.pc = p /\ y.resps = x.resps
    BY <2>1 DEF Shaped, Fields
  <2> HIDE DEF y
  <2> QED  BY <1>1, <2>2, <2>3, <2>4 DEF Shape, GoesOn, Resolves, Moves, Running, x
<1> QED  BY <1>3, <1>4

LEMMA CompileIndexIs ==
  ASSUME Shape, NEW t \in Tasks, IsList(task[t].resps), CompileIndex(t)
  PROVE  task[t].pc = "index" /\ AnswersOne(t)
<1> DEFINE doc == IndexDocument(task[t].left)
           m == Metadata(doc, Item(t).uri)
           b == <<Raw(t, doc)>>
<1>1. task[t].pc = "index" /\ active' = active /\ Answer(t, <<Response(t, coap_status.CONTENT, m)>>, b)
  BY DEF CompileIndex, At
<1> HIDE DEF m, b, doc
<1> QED  BY <1>1, OneAnswer

(* One of the files a SEARCH found has been read. *)
LEMMA SearchOneIs ==
  ASSUME Shape, NEW t \in Tasks, IsList(task[t].resps), NEW result, SearchOne(t, result)
  PROVE  /\ task[t].pc = "inline" /\ task'[t].pc = "inline"
         /\ Resolves(t) /\ task'[t].idx = task[t].idx
         /\ \/ task'[t].resps = task[t].resps
            \/ \E r : r.item_idx = task[t].idx - 1 /\ Grows(task[t].resps, r, task'[t].resps)
<1> DEFINE x == task[t]
           path == Canonical(result.path)
           left == x.left \ {result}
           large == Response(t, coap_status.REQUEST_ENTITY_TOO_LARGE, NoMetadata)
           found == Response(t, coap_status.CONTENT, Metadata(fs[path], result.uri))
           raws == IF AlreadyOwned(Item(t), fs[path].hash) THEN x.raws ELSE Append(x.raws, Raw(t, fs[path]))
           y0 == [x EXCEPT !.left = left]
           y1 == [x EXCEPT !.left = left, !.resps = Append(x.resps, large)]
           y2 == [x EXCEPT !.left = left, !.resps = Append(x.resps, found), !.raws = raws]
<1>1. Shaped(x) /\ x.pc = "inline" /\ active' = active
  BY DEF Shape, SearchOne, At
<1>2. \/ task' = [task EXCEPT ![t].left = left]
      \/ task' = [[task EXCEPT ![t].left = left] EXCEPT ![t].resps = Append(@, large)]
      \/ task' = [[task EXCEPT ![t].left = left] EXCEPT ![t].resps = Append(@, found),
                     ![t].raws = IF AlreadyOwned(Item(t), fs[path].hash) THEN @
                                 ELSE Append(@, Raw(t, fs[path]))]
  BY DEF SearchOne
<1>3. large.item_idx = x.idx - 1 /\ found.item_idx = x.idx - 1
  BY DEF Response
<1> HIDE DEF large, found, left, path
<1>4. task' = [task EXCEPT ![t] = y0] \/ task' = [task EXCEPT ![t] = y1] \/ task' = [task EXCEPT ![t] = y2]
  <2>1. CASE task' = [task EXCEPT ![t].left = left]
    BY <2>1
  <2>2. CASE task' = [[task EXCEPT ![t].left = left] EXCEPT ![t].resps = Append(@, large)]
    BY <1>1, <2>2 DEF Shape, Shaped, Fields
  <2>3. CASE task' = [[task EXCEPT ![t].left = left] EXCEPT ![t].resps = Append(@, found),
                         ![t].raws = IF AlreadyOwned(Item(t), fs[path].hash) THEN @
                                     ELSE Append(@, Raw(t, fs[path]))]
    BY <1>1, <2>3 DEF Shape, Shaped, Fields
  <2> QED  BY <1>2, <2>1, <2>2, <2>3
<1>5. Grows(x.resps, large, Append(x.resps, large)) /\ Grows(x.resps, found, Append(x.resps, found))
  BY AppendGrows
<1> DEFINE A == Append(x.resps, large)
           B == Append(x.resps, found)
<1> HIDE DEF x, raws, A, B
<1>6. ASSUME NEW c \in {A, B}, NEW z, z = y0 \/ z = [x EXCEPT !.left = left, !.resps = c]
                 \/ z = [x EXCEPT !.left = left, !.resps = c, !.raws = raws]
      PROVE  /\ Shaped(z) /\ z.req = x.req /\ z.cancel = x.cancel /\ z.out = x.out /\ z.idx = x.idx
             /\ z.pc = x.pc /\ (z.resps = x.resps \/ z.resps = c)
  BY <1>1, <1>6 DEF Shaped, Fields
<1>7. ASSUME NEW z, z = y0 \/ z = y1 \/ z = y2
      PROVE  /\ Shaped(z) /\ z.req = x.req /\ z.cancel = x.cancel /\ z.out = x.out /\ z.idx = x.idx
             /\ z.pc = x.pc /\ z.resps \in {x.resps, A, B}
  <2>1. CASE z = y0
    BY <1>6, <2>1 DEF A
  <2>2. CASE z = y1
    <3>1. z = [x EXCEPT !.left = left, !.resps = A]
      BY <2>2 DEF A
    <3> QED  BY <1>6, <3>1
  <2>3. CASE z = y2
    <3>1. z = [x EXCEPT !.left = left, !.resps = B, !.raws = raws]
      BY <2>3 DEF B
    <3> QED  BY <1>6, <3>1
  <2> QED  BY <1>7, <2>1, <2>2, <2>3
<1>8. PICK z : (z = y0 \/ z = y1 \/ z = y2) /\ task' = [task EXCEPT ![t] = z]
  BY <1>4
<1>9. task'[t] = z /\ (\A u \in Tasks \ {t} : task'[u] = task[u]) /\ task' = [u \in Tasks |-> task'[u]]
  BY <1>8 DEF Shape
<1>10. Moves(t)
  BY <1>7, <1>8, <1>9 DEF Moves, Shape, x
<1>11. Resolves(t) /\ task'[t].idx = task[t].idx /\ task'[t].pc = "inline" /\ task[t].pc = "inline"
  BY <1>1, <1>7, <1>8, <1>9, <1>10 DEF Resolves, Running, x
<1>12. task'[t].resps \in {x.resps, A, B}
  BY <1>7, <1>8, <1>9
<1> QED  BY <1>3, <1>5, <1>11, <1>12 DEF A, B, x

(* A SEARCH has read its files, or was cancelled. *)
LEMMA SearchEndsIs ==
  ASSUME Shape, NEW t \in Tasks, IsList(task[t].resps), SearchEnds(t)
  PROVE  task[t].pc = "inline" /\ GoesOn(t) /\ task'[t].pc = "items"
<1>1. task[t].pc = "inline" /\ active' = active /\ Answer(t, <<>>, <<>>)
  BY DEF SearchEnds, At
<1>2. /\ Moves(t) /\ task'[t].out = task[t].out /\ task'[t].pc = "items" /\ task'[t].idx = task[t].idx
      /\ task'[t].resps = task[t].resps \o <<>>
  BY <1>1, AnswerIs
<1>3. task'[t].resps = task[t].resps
  BY <1>2, NothingAdded
<1> QED  BY <1>1, <1>2, <1>3 DEF GoesOn, Resolves, Running

(* An item is started: a fetch, or a search. *)
Begins(t) ==
  /\ Resolves(t)
  /\ task'[t].idx = task[t].idx + 1 /\ task'[t].resps = task[t].resps /\ task'[t].raws = task[t].raws
  /\ \/ /\ task'[t].pc = "fetch" /\ task'[t].uri = Items(t)[task[t].idx + 1].uri
        /\ Items(t)[task[t].idx + 1].op \in {0, 1}
     \/ task'[t].pc = "search" /\ Items(t)[task[t].idx + 1].op \in {2, 4}

(* An item is answered where it is started. *)
AtOnce(t) ==
  /\ task'[t].pc = "items" /\ task'[t].idx = task[t].idx + 1 /\ task'[t].out = task[t].out
  /\ task'[t].raws = task[t].raws
  /\ \E r : /\ r.item_idx = task[t].idx /\ r.metadata = NoMetadata /\ r.status # coap_status.CONTENT
            /\ Grows(task[t].resps, r, task'[t].resps)

(* The channels apart, only t moves. *)
Alone(t) ==
  /\ Shape'
  /\ \A u \in Tasks \ {t} :
       /\ task'[u].pc = task[u].pc /\ task'[u].req = task[u].req /\ task'[u].idx = task[u].idx
       /\ task'[u].resps = task[u].resps /\ task'[u].out = task[u].out
       /\ task'[u].uri = task[u].uri /\ task'[u].left = task[u].left /\ task'[u].raws = task[u].raws

(* The entry of id is removed, and the channel of the task it is of, if    *)
(* there is one, becomes c.                                                *)
Loses(id, c) ==
  \A u \in Tasks : task'[u].cancel = IF id \in DOMAIN active /\ active[id] = u THEN c ELSE task[u].cancel

LEMMA StartItemIs ==
  ASSUME Shape, NEW t \in Tasks, IsList(task[t].resps), StartItem(t),
         \A id \in DOMAIN active : active[id] \in Tasks
  PROVE  /\ task[t].pc = "items" /\ task[t].idx < Len(Items(t))
         /\ \/ Begins(t)
            \/ Resolves(t) /\ AtOnce(t)
            \/ /\ Alone(t) /\ AtOnce(t) /\ task'[t].req = task[t].req
               /\ \E id \in DOMAIN active : active' = Without(active, id) /\ Loses(id, "cancelled")
<1> DEFINE x == task[t]
           item == Items(t)[x.idx + 1]
           d == x.idx + 1
           next == [task EXCEPT ![t].idx = @ + 1]
           resp(c) == [item_idx |-> x.idx, status |-> c, metadata |-> NoMetadata]
           answered(c) == [next EXCEPT ![t].resps = Append(@, resp(c))]
           y(c) == [x EXCEPT !.idx = d, !.resps = Append(x.resps, resp(c))]
<1>0. coap_status.CHANGED # coap_status.CONTENT /\ coap_status.NOT_FOUND # coap_status.CONTENT
  BY DEF coap_status
<1>1. x.pc = "items" /\ x.idx < Len(Items(t)) /\ Shaped(x)
  BY DEF StartItem, At, MoreItems, Shape
<1>2. ASSUME NEW c, c # coap_status.CONTENT
      PROVE  /\ answered(c) = [task EXCEPT ![t] = y(c)]
             /\ Shaped(y(c)) /\ y(c).req = x.req /\ y(c).cancel = x.cancel /\ y(c).out = x.out
             /\ y(c).idx = x.idx + 1 /\ y(c).pc = x.pc /\ y(c).raws = x.raws
             /\ resp(c).item_idx = x.idx /\ resp(c).metadata = NoMetadata
             /\ resp(c).status # coap_status.CONTENT
             /\ Grows(x.resps, resp(c), y(c).resps)
  <2> DEFINE r == resp(c)
             A == Append(x.resps, r)
  <2>1. r.item_idx = x.idx /\ r.metadata = NoMetadata /\ r.status # coap_status.CONTENT
    BY <1>2
  <2> HIDE DEF r
  <2>2. Grows(x.resps, r, A)
    BY AppendGrows
  <2>3. [next EXCEPT ![t].resps = Append(@, r)] = [task EXCEPT ![t] = [x EXCEPT !.idx = d, !.resps = A]]
    BY <1>1 DEF Shape, Shaped, Fields
  <2> HIDE DEF A, x, d
  <2> DEFINE z == [x EXCEPT !.idx = d, !.resps = A]
  <2>4. /\ Shaped(z) /\ z.req = x.req /\ z.cancel = x.cancel /\ z.out = x.out
        /\ z.idx = d /\ z.pc = x.pc /\ z.resps = A /\ z.raws = x.raws
    BY <1>1 DEF Shaped, Fields
  <2>5. z = y(c)
    BY DEF A, r
  <2> HIDE DEF z, y
  <2> QED  BY <2>1, <2>2, <2>3, <2>4, <2>5 DEF r, d, x, z
<1>3. ASSUME NEW q, NEW v, NEW z, z = [x EXCEPT !.idx = d, !.pc = q, !.uri = v] \/ z = [x EXCEPT !.idx = d, !.pc = q]
      PROVE  /\ Shaped(z) /\ z.req = x.req /\ z.cancel = x.cancel /\ z.out = x.out
             /\ z.idx = d /\ z.pc = q /\ z.resps = x.resps /\ z.raws = x.raws
  <2> HIDE DEF d, x
  <2> QED  BY <1>1, <1>3 DEF Shaped, Fields
<1>4. \/ item.op \in {0, 1} /\ task' = [next EXCEPT ![t].pc = "fetch", ![t].uri = item.uri] /\ active' = active
      \/ item.op \in {2, 4} /\ task' = [next EXCEPT ![t].pc = "search"] /\ active' = active
      \/ /\ item.uri.name \in DOMAIN active
         /\ task' = [answered(coap_status.CHANGED) EXCEPT ![active[item.uri.name]].cancel = "cancelled"]
         /\ active' = Without(active, item.uri.name)
      \/ task' = answered(coap_status.NOT_FOUND) /\ active' = active
  BY DEF StartItem
<1>5. CASE item.op \in {0, 1} /\ task' = [next EXCEPT ![t].pc = "fetch", ![t].uri = item.uri] /\ active' = active
  <2> DEFINE v == item.uri
             z == [x EXCEPT !.idx = d, !.pc = "fetch", !.uri = v]
  <2> HIDE DEF item
  <2>1. task' = [task EXCEPT ![t] = z]
    BY <1>5
  <2> HIDE DEF v, d, x
  <2>2. /\ Shaped(z) /\ z.req = x.req /\ z.cancel = x.cancel /\ z.out = x.out
        /\ z.idx = d /\ z.pc = "fetch" /\ z.resps = x.resps /\ z.uri = v /\ z.raws = x.raws
    BY <1>1 DEF Shaped, Fields
  <2> HIDE DEF z
  <2>3. task'[t].uri = Items(t)[task[t].idx + 1].uri /\ Items(t)[task[t].idx + 1].op \in {0, 1}
    BY <1>5, <2>1, <2>2 DEF Shape, v, item, x
  <2> QED  BY <1>1, <1>5, <2>1, <2>2, <2>3 DEF Shape, Begins, Resolves, Moves, Running, d, x
<1>6. CASE item.op \in {2, 4} /\ task' = [next EXCEPT ![t].pc = "search"] /\ active' = active
  <2> DEFINE z == [x EXCEPT !.idx = d, !.pc = "search"]
  <2>1. task' = [task EXCEPT ![t] = z]
    BY <1>6
  <2>2. /\ Shaped(z) /\ z.req = x.req /\ z.cancel = x.cancel /\ z.out = x.out
        /\ z.idx = d /\ z.pc = "search" /\ z.resps = x.resps /\ z.raws = x.raws
    BY <1>3
  <2> HIDE DEF z
  <2> QED  BY <1>1, <1>6, <2>1, <2>2 DEF Shape, Begins, Resolves, Moves, Running
<1>7. CASE task' = answered(coap_status.NOT_FOUND) /\ active' = active
  <2> DEFINE z == y(coap_status.NOT_FOUND)
             r == resp(coap_status.NOT_FOUND)
  <2>1. /\ task' = [task EXCEPT ![t] = z]
        /\ Shaped(z) /\ z.req = x.req /\ z.cancel = x.cancel /\ z.out = x.out
        /\ z.idx = x.idx + 1 /\ z.pc = x.pc /\ r.item_idx = x.idx /\ r.metadata = NoMetadata
        /\ z.raws = x.raws /\ r.status # coap_status.CONTENT
        /\ Grows(x.resps, r, z.resps)
    BY <1>0, <1>2, <1>7
  <2> HIDE DEF z, r
  <2>2. Moves(t) /\ task'[t] = z
    BY <2>1 DEF Shape, Moves
  <2> QED  BY <1>1, <1>7, <2>1, <2>2 DEF AtOnce, Resolves, Running
<1>8. CASE /\ item.uri.name \in DOMAIN active
           /\ task' = [answered(coap_status.CHANGED) EXCEPT ![active[item.uri.name]].cancel = "cancelled"]
           /\ active' = Without(active, item.uri.name)
  <2> DEFINE z == y(coap_status.CHANGED)
             r == resp(coap_status.CHANGED)
             id == item.uri.name
             mid == [task EXCEPT ![t] = z]
  <2>1. /\ answered(coap_status.CHANGED) = mid
        /\ Shaped(z) /\ z.req = x.req /\ z.cancel = x.cancel /\ z.out = x.out
        /\ z.idx = x.idx + 1 /\ z.pc = x.pc /\ r.item_idx = x.idx /\ r.metadata = NoMetadata
        /\ z.raws = x.raws /\ r.status # coap_status.CONTENT
        /\ Grows(x.resps, r, z.resps)
    BY <1>0, <1>2
  <2>2. id \in DOMAIN active /\ active[id] \in Tasks /\ active' = Without(active, id)
    BY <1>8
  <2>3. task' = [mid EXCEPT ![active[id]].cancel = "cancelled"]
    BY <1>8, <2>1
  <2> HIDE DEF z, r, id
  <2>4. /\ mid = [u \in Tasks |-> mid[u]] /\ mid[t] = z
        /\ \A u \in Tasks \ {t} : mid[u] = task[u]
        /\ \A u \in Tasks : Shaped(mid[u]) /\ mid[u].cancel = task[u].cancel
    BY <2>1 DEF Shape
  <2> HIDE DEF mid
  <2>5. /\ task' = [u \in Tasks |-> task'[u]]
        /\ \A u \in Tasks : task'[u] = IF u = active[id] THEN [mid[u] EXCEPT !.cancel = "cancelled"] ELSE mid[u]
    BY <2>2, <2>3, <2>4
  <2>6. ASSUME NEW u \in Tasks
        PROVE  /\ Shaped(task'[u]) /\ task'[u].pc = mid[u].pc /\ task'[u].req = mid[u].req
               /\ task'[u].idx = mid[u].idx /\ task'[u].resps = mid[u].resps /\ task'[u].out = mid[u].out
               /\ task'[u].uri = mid[u].uri /\ task'[u].left = mid[u].left /\ task'[u].raws = mid[u].raws
               /\ task'[u].cancel = IF id \in DOMAIN active /\ active[id] = u THEN "cancelled" ELSE task[u].cancel
    BY <2>2, <2>4, <2>5 DEF Shaped, Fields
  <2>7. Alone(t)
    BY <2>4, <2>5, <2>6 DEF Alone, Shape
  <2>8. AtOnce(t) /\ task'[t].req = task[t].req
    BY <1>1, <2>1, <2>4, <2>6 DEF AtOnce
  <2>9. Loses(id, "cancelled")
    BY <2>6 DEF Loses
  <2> QED  BY <1>1, <2>2, <2>7, <2>8, <2>9
<1> QED  BY <1>4, <1>5, <1>6, <1>7, <1>8

LEMMA DeliverIs ==
  ASSUME Shape, NEW t \in Tasks, on_deliver(t)
  PROVE  /\ task[t].pc = "new" /\ Moves(t) /\ active' = active
         /\ task'[t].pc \in {"spawned", "done"} /\ task'[t].idx = task[t].idx
         /\ task'[t].resps = task[t].resps /\ task'[t].out = task[t].out /\ task'[t].raws = task[t].raws
<1> DEFINE x == task[t]
           p == IF Refused(t) THEN "done" ELSE "spawned"
           z == [x EXCEPT !.pc = p]
<1>1. x.pc = "new" /\ active' = active /\ task' = [task EXCEPT ![t] = z]
  BY DEF on_deliver, At
<1>2. p \in {"spawned", "done"} /\ Shaped(x)
  BY DEF Shape
<1> HIDE DEF p, x
<1>3. /\ Shaped(z) /\ z.req = x.req /\ z.cancel = x.cancel /\ z.out = x.out /\ z.idx = x.idx
      /\ z.pc = p /\ z.resps = x.resps /\ z.raws = x.raws
  BY <1>2 DEF Shaped, Fields
<1> HIDE DEF z
<1> QED  BY <1>1, <1>2, <1>3 DEF Shape, Moves, x

(* The sender under an id is dropped: f is what the tasks are then. *)
IsDropped(f, id) ==
  /\ f = [u \in Tasks |-> f[u]]
  /\ \A u \in Tasks :
       /\ Shaped(f[u]) /\ f[u].pc = task[u].pc /\ f[u].req = task[u].req /\ f[u].idx = task[u].idx
       /\ f[u].resps = task[u].resps /\ f[u].out = task[u].out
       /\ f[u].uri = task[u].uri /\ f[u].left = task[u].left /\ f[u].raws = task[u].raws
       /\ f[u].cancel = IF id \in DOMAIN active /\ active[id] = u THEN "closed" ELSE task[u].cancel

LEMMA DroppedIs ==
  ASSUME Shape, NEW id
  PROVE  IsDropped(Dropped(id), id)
<1> DEFINE f == Dropped(id)
<1>1. f = [u \in Tasks |-> f[u]]
  BY DEF Dropped
<1>2. ASSUME NEW u \in Tasks
      PROVE  /\ Shaped(f[u]) /\ f[u].pc = task[u].pc /\ f[u].req = task[u].req /\ f[u].idx = task[u].idx
             /\ f[u].resps = task[u].resps /\ f[u].out = task[u].out
             /\ f[u].uri = task[u].uri /\ f[u].left = task[u].left /\ f[u].raws = task[u].raws
             /\ f[u].cancel = IF id \in DOMAIN active /\ active[id] = u THEN "closed" ELSE task[u].cancel
  <2> DEFINE x == task[u]
             y == f[u]
  <2>1. Shaped(x)
    BY DEF Shape
  <2>2. y = IF id \in DOMAIN active /\ active[id] = u THEN [x EXCEPT !.cancel = "closed"] ELSE x
    BY DEF Dropped
  <2> HIDE DEF x, y
  <2>3. /\ Shaped(y) /\ y.pc = x.pc /\ y.req = x.req /\ y.idx = x.idx /\ y.resps = x.resps /\ y.out = x.out
        /\ y.uri = x.uri /\ y.left = x.left /\ y.raws = x.raws
        /\ y.cancel = IF id \in DOMAIN active /\ active[id] = u THEN "closed" ELSE x.cancel
    BY <2>1, <2>2 DEF Shaped, Fields
  <2> QED  BY <2>3 DEF x, y
<1> HIDE DEF f
<1>3. IsDropped(f, id)
  BY <1>1, <1>2 DEF IsDropped
<1> QED  BY <1>3 DEF f

(* A request is registered: its id is its own from now on. *)
Registers(t, req) ==
  /\ Alone(t) /\ Loses(req.req_id, "closed") /\ active' = With(active, req.req_id, t)
  /\ task'[t].pc = "items" /\ task'[t].req = req /\ task'[t].idx = task[t].idx
  /\ task'[t].resps = task[t].resps /\ task'[t].out = task[t].out /\ task'[t].raws = task[t].raws

LEMMA StartRequestIs ==
  ASSUME Shape, NEW t \in Tasks, StartRequest(t)
  PROVE  /\ task[t].pc = "spawned"
         /\ \/ /\ Moves(t) /\ active' = active
               /\ task'[t].pc = "done" /\ task'[t].idx = task[t].idx
               /\ task'[t].resps = task[t].resps /\ task'[t].out = task[t].out /\ task'[t].raws = task[t].raws
            \/ Registers(t, DecodeRequest(Bundle[t].wire))
<1> DEFINE x == task[t]
           req == DecodeRequest(Bundle[t].wire)
           mid == Dropped(req.req_id)
           y == mid[t]
           z == [y EXCEPT !.pc = "items", !.req = req]
           w == [x EXCEPT !.pc = "done"]
<1>1. x.pc = "spawned" /\ Shaped(x)
  BY DEF StartRequest, At, Shape
<1>2. \/ task' = [mid EXCEPT ![t].pc = "items", ![t].req = req] /\ active' = With(active, req.req_id, t)
      \/ task' = [task EXCEPT ![t] = w] /\ active' = active
  BY DEF StartRequest, Registered
<1>3. CASE task' = [task EXCEPT ![t] = w] /\ active' = active
  <2> HIDE DEF x
  <2>1. /\ Shaped(w) /\ w.req = x.req /\ w.cancel = x.cancel /\ w.out = x.out /\ w.idx = x.idx
        /\ w.pc = "done" /\ w.resps = x.resps /\ w.raws = x.raws
    BY <1>1 DEF Shaped, Fields
  <2> HIDE DEF w
  <2> QED  BY <1>1, <1>3, <2>1 DEF Shape, Moves, x
<1>4. CASE task' = [mid EXCEPT ![t].pc = "items", ![t].req = req] /\ active' = With(active, req.req_id, t)
  <2>1. IsDropped(mid, req.req_id)
    BY DroppedIs
  <2> HIDE DEF mid, req
  <2>2. task' = [mid EXCEPT ![t] = z]
    BY <1>4, <2>1 DEF IsDropped
  <2> HIDE DEF y
  <2>3. /\ Shaped(z) /\ z.pc = "items" /\ z.req = req /\ z.idx = y.idx /\ z.resps = y.resps
        /\ z.out = y.out /\ z.cancel = y.cancel /\ z.raws = y.raws
    <3>1. Shaped(y)
      BY <2>1 DEF y, IsDropped
    <3> QED  BY <3>1 DEF Shaped, Fields
  <2> HIDE DEF z
  <2>4. task'[t] = z /\ (\A u \in Tasks \ {t} : task'[u] = mid[u]) /\ task' = [u \in Tasks |-> task'[u]]
    BY <2>1, <2>2 DEF IsDropped
  <2>5. Alone(t)
    BY <2>1, <2>3, <2>4 DEF Alone, Shape, IsDropped
  <2>6. Loses(req.req_id, "closed")
    BY <2>1, <2>3, <2>4 DEF Loses, y, IsDropped
  <2>7. Registers(t, req)
    BY <1>4, <2>1, <2>3, <2>4, <2>5, <2>6 DEF Registers, y, IsDropped
  <2> QED  BY <1>1, <2>7 DEF req
<1> QED  BY <1>2, <1>3, <1>4

(* The loop ends: the id is freed and the control bundle built. *)
Finishes(t) ==
  /\ Alone(t) /\ Loses(task[t].req.req_id, "closed") /\ active' = Without(active, task[t].req.req_id)
  /\ task'[t].pc = "send" /\ task'[t].req = task[t].req /\ task'[t].idx = task[t].idx
  /\ task'[t].resps = task[t].resps /\ task'[t].raws = task[t].raws
  /\ task'[t].out[1].wire = EncodeResponse(task[t].req.req_id, task[t].resps)

LEMMA FinishItemsIs ==
  ASSUME Shape, NEW t \in Tasks, FinishItems(t)
  PROVE  /\ task[t].pc = "items" /\ ~MoreItems(t)
         /\ Finishes(t)
<1> DEFINE x == task[t]
           id == x.req.req_id
           mid == Dropped(id)
           y == mid[t]
           out == <<[to |-> ReplyTo(t), wire |-> EncodeResponse(id, x.resps)]>>
           z == [y EXCEPT !.pc = "send", !.out = out]
<1>1. x.pc = "items" /\ ~MoreItems(t) /\ active' = Without(active, id)
  BY DEF FinishItems, At, Request
<1>2. task' = [mid EXCEPT ![t].pc = "send", ![t].out = out]
  BY DEF FinishItems, Request
<1>3. out[1].wire = EncodeResponse(id, x.resps)
  OBVIOUS
<1>4. IsDropped(mid, id)
  BY DroppedIs
<1> HIDE DEF mid, id, out
<1>5. task' = [mid EXCEPT ![t] = z]
  BY <1>2, <1>4 DEF IsDropped
<1> HIDE DEF y
<1>6. /\ Shaped(z) /\ z.pc = "send" /\ z.req = y.req /\ z.idx = y.idx /\ z.resps = y.resps
      /\ z.out = out /\ z.cancel = y.cancel /\ z.raws = y.raws
  <2>1. Shaped(y)
    BY <1>4 DEF y, IsDropped
  <2> QED  BY <2>1 DEF Shaped, Fields
<1> HIDE DEF z
<1>7. task'[t] = z /\ (\A u \in Tasks \ {t} : task'[u] = mid[u]) /\ task' = [u \in Tasks |-> task'[u]]
  BY <1>4, <1>5 DEF IsDropped
<1>8. Alone(t)
  BY <1>4, <1>6, <1>7 DEF Alone, Shape, IsDropped
<1>9. Loses(id, "closed")
  BY <1>4, <1>6, <1>7 DEF Loses, y, IsDropped
<1>10. /\ task'[t].pc = "send" /\ task'[t].req = x.req /\ task'[t].idx = x.idx /\ task'[t].resps = x.resps
       /\ task'[t].raws = x.raws
       /\ task'[t].out[1].wire = EncodeResponse(id, x.resps)
  BY <1>3, <1>4, <1>6, <1>7 DEF y, IsDropped
<1> QED  BY <1>1, <1>8, <1>9, <1>10 DEF Finishes, id

(* A task before its request, and after its end. *)
LEMMA IdleIs ==
  /\ Shaped(Idle) /\ Idle.pc = "new" /\ Idle.cancel = "open" /\ Idle.idx = 0
  /\ Idle.resps = <<>> /\ Idle.out = <<>> /\ Idle.req = NoRequest /\ Idle.raws = <<>>
<1> DEFINE v == Uri("text", "", <<>>)
           i == [pc |-> "new", req |-> NoRequest, cancel |-> "open", idx |-> 0, uri |-> v, hops |-> 0,
                 left |-> {}, resps |-> <<>>, raws |-> <<>>, out |-> <<>>, n |-> 0]
<1>1. Idle = i
  BY DEF Idle
<1> HIDE DEF v
<1>2. /\ i.pc = "new" /\ i.cancel = "open" /\ i.idx = 0
      /\ i.resps = <<>> /\ i.out = <<>> /\ i.req = NoRequest /\ i.raws = <<>>
  OBVIOUS
<1>3. Shaped(i)
  BY DEF Shaped, Fields
<1> HIDE DEF i
<1> QED  BY <1>1, <1>2, <1>3

(* A bundle is sent: the task goes on sending, or has ended. *)
LEMMA SendIs ==
  ASSUME Shape, NEW t \in Tasks, Send(t) \/ SendFails(t)
  PROVE  /\ task[t].pc = "send" /\ Moves(t) /\ active' = active
         /\ \/ /\ task'[t].pc = "send" /\ task'[t].idx = task[t].idx
               /\ task'[t].resps = task[t].resps /\ task'[t].out = task[t].out /\ task'[t].raws = task[t].raws
            \/ /\ task'[t].pc = "done" /\ task'[t].idx = 0
               /\ task'[t].resps = <<>> /\ task'[t].out = <<>> /\ task'[t].raws = <<>>
<1> DEFINE x == task[t]
           e == Ended(t)
           k == x.n + 1
           y == [x EXCEPT !.n = k]
<1>1. x.pc = "send" /\ Shaped(x) /\ active' = active
  BY DEF Send, SendFails, At, Shape
<1>2. task' = [task EXCEPT ![t] = e] \/ task' = [task EXCEPT ![t] = y]
  BY DEF Send, SendFails
<1>3. /\ Shaped(e) /\ e.req = x.req /\ e.cancel = x.cancel /\ e.pc = "done" /\ e.idx = 0
      /\ e.resps = <<>> /\ e.out = <<>> /\ e.raws = <<>>
  <2> DEFINE q == x.req
             c == x.cancel
  <2>1. e = [Idle EXCEPT !.pc = "done", !.req = q, !.cancel = c]
    BY DEF Ended
  <2> HIDE DEF e, q, c
  <2>2. /\ Shaped(e) /\ e.req = q /\ e.cancel = c /\ e.pc = "done" /\ e.idx = Idle.idx
        /\ e.resps = Idle.resps /\ e.out = Idle.out /\ e.raws = Idle.raws
    BY <2>1, IdleIs DEF Shaped, Fields
  <2> QED  BY <2>2, IdleIs DEF q, c
<1> HIDE DEF x, k, e
<1>4. /\ Shaped(y) /\ y.req = x.req /\ y.cancel = x.cancel /\ y.out = x.out /\ y.idx = x.idx
      /\ y.pc = x.pc /\ y.resps = x.resps /\ y.raws = x.raws
  BY <1>1 DEF Shaped, Fields
<1> HIDE DEF y
<1>5. CASE task' = [task EXCEPT ![t] = e]
  BY <1>1, <1>3, <1>5 DEF Shape, Moves, x
<1>6. CASE task' = [task EXCEPT ![t] = y]
  BY <1>1, <1>4, <1>6 DEF Shape, Moves, x
<1> QED  BY <1>2, <1>5, <1>6

-----------------------------------------------------------------------------
(* The handles.                                                            *)

(* Only t moves, between two places of its loop or two out of it. *)
LEMMA HandlesStay ==
  ASSUME Handles, NEW t \in Tasks, Moves(t), active' = active,
         task[t].pc \in Running <=> task'[t].pc \in Running,
         task'[t].pc # "new", task'[t].pc = "spawned" => task[t].pc = "new"
  PROVE  Handles'
<1>1. ASSUME NEW u \in Tasks
      PROVE  /\ task'[u].req = task[u].req /\ task'[u].cancel = task[u].cancel
             /\ task'[u].pc \in Running <=> task[u].pc \in Running
             /\ task'[u].pc \in {"new", "spawned"} => task[u].pc \in {"new", "spawned"}
  BY DEF Moves
<1>2. ASSUME NEW u \in Tasks
      PROVE  task[u].pc \notin {"new", "spawned"} => task'[u].pc \notin {"new", "spawned"}
  BY <1>1
<1> QED  BY <1>1, <1>2 DEF Handles

(* A CANCEL removes the entry of the task it stops. *)
LEMMA HandlesCancelled ==
  ASSUME Handles, NEW t \in Tasks, Alone(t), task[t].pc = "items", task'[t].pc = "items",
         task'[t].req = task[t].req, NEW id \in DOMAIN active, active' = Without(active, id),
         Loses(id, "cancelled")
  PROVE  Handles'
<1>1. ASSUME NEW u \in Tasks
      PROVE  /\ task'[u].req = task[u].req /\ task'[u].pc = task[u].pc
             /\ task'[u].cancel = IF active[id] = u THEN "cancelled" ELSE task[u].cancel
  BY DEF Alone, Loses
<1>2. DOMAIN active' = DOMAIN active \ {id} /\ \A k \in DOMAIN active \ {id} : active'[k] = active[k]
  BY DEF Without
<1>3. ASSUME NEW k \in DOMAIN active'
      PROVE  /\ active'[k] \in Tasks /\ task'[active'[k]].req.req_id = k
             /\ task'[active'[k]].pc \in Running /\ task'[active'[k]].cancel = "open"
  <2>1. k \in DOMAIN active /\ k # id /\ active'[k] = active[k]
    BY <1>2
  <2>2. active[k] \in Tasks /\ task[active[k]].req.req_id = k /\ task[active[k]].pc \in Running
        /\ task[active[k]].cancel = "open" /\ task[active[id]].req.req_id = id
    BY <2>1 DEF Handles
  <2>3. active[k] # active[id]
    BY <2>1, <2>2
  <2> QED  BY <1>1, <2>1, <2>2, <2>3
<1>4. ASSUME NEW u \in Tasks, task'[u].pc \in Running, task'[u].cancel = "open"
      PROVE  task'[u].req.req_id \in DOMAIN active' /\ active'[task'[u].req.req_id] = u
  <2>1. active[id] # u /\ task[u].cancel = "open" /\ task[u].pc \in Running
    BY <1>1, <1>4
  <2>2. task[u].req.req_id \in DOMAIN active /\ active[task[u].req.req_id] = u
    BY <2>1 DEF Handles
  <2> QED  BY <1>1, <1>2, <2>1, <2>2
<1>5. ASSUME NEW u \in Tasks, task'[u].pc \in Running, task'[u].cancel = "closed"
      PROVE  \E v \in Tasks \ {u} : task'[v].pc \notin {"new", "spawned"} /\ task'[v].req.req_id = task'[u].req.req_id
  <2>1. task[u].cancel = "closed" /\ task[u].pc \in Running
    BY <1>1, <1>5
  <2> QED  BY <1>1, <2>1 DEF Handles
<1>6. \A u \in Tasks : task'[u].cancel \in {"open", "closed", "cancelled"}
  BY <1>1 DEF Handles
<1>7. ASSUME NEW u \in Tasks, task'[u].pc \in {"new", "spawned"} PROVE task'[u].cancel = "open"
  <2>1. task[u].cancel = "open" /\ task[u].pc \notin Running
    BY <1>1, <1>7 DEF Handles, Running
  <2>2. active[id] # u
    BY <2>1 DEF Handles
  <2> QED  BY <1>1, <2>1, <2>2
<1> QED  BY <1>3, <1>4, <1>5, <1>6, <1>7 DEF Handles

(* A request takes its id, from whoever had it. *)
LEMMA HandlesRegistered ==
  ASSUME Handles, NEW t \in Tasks, NEW req, task[t].pc = "spawned", Registers(t, req)
  PROVE  Handles'
<1> DEFINE id == req.req_id
<1>1. ASSUME NEW u \in Tasks
      PROVE  task'[u].cancel = IF id \in DOMAIN active /\ active[id] = u THEN "closed" ELSE task[u].cancel
  BY DEF Registers, Loses
<1>2. ASSUME NEW u \in Tasks \ {t} PROVE task'[u].req = task[u].req /\ task'[u].pc = task[u].pc
  BY DEF Registers, Alone
<1>3. task'[t].pc = "items" /\ task'[t].req = req
  BY DEF Registers
<1>4. /\ DOMAIN active' = DOMAIN active \cup {id} /\ active'[id] = t
      /\ \A k \in DOMAIN active \ {id} : active'[k] = active[k]
  BY DEF Registers, With
<1>5. \A k \in DOMAIN active : active[k] # t
  BY DEF Handles, Running
<1>6. task'[t].cancel = "open"
  BY <1>1, <1>5 DEF Handles
<1> HIDE DEF id
<1>7. ASSUME NEW k \in DOMAIN active'
      PROVE  /\ active'[k] \in Tasks /\ task'[active'[k]].req.req_id = k
             /\ task'[active'[k]].pc \in Running /\ task'[active'[k]].cancel = "open"
  <2>1. CASE k = id
    BY <1>3, <1>4, <1>6, <2>1 DEF Running, id
  <2>2. CASE k # id
    <3>1. k \in DOMAIN active /\ active'[k] = active[k]
      BY <1>4, <2>2
    <3>2. /\ active[k] \in Tasks \ {t} /\ task[active[k]].req.req_id = k /\ task[active[k]].pc \in Running
          /\ task[active[k]].cancel = "open"
      BY <1>5, <3>1 DEF Handles
    <3>3. ~(id \in DOMAIN active /\ active[id] = active[k])
      BY <2>2, <3>1, <3>2 DEF Handles
    <3> QED  BY <1>1, <1>2, <3>1, <3>2, <3>3
  <2> QED  BY <2>1, <2>2
<1>8. ASSUME NEW u \in Tasks, task'[u].pc \in Running, task'[u].cancel = "open"
      PROVE  task'[u].req.req_id \in DOMAIN active' /\ active'[task'[u].req.req_id] = u
  <2>1. CASE u = t
    BY <1>3, <1>4, <2>1 DEF id
  <2>2. CASE u # t
    <3>1. task[u].cancel = "open" /\ task[u].pc \in Running /\ ~(id \in DOMAIN active /\ active[id] = u)
      BY <1>1, <1>2, <1>8, <2>2
    <3>2. task[u].req.req_id \in DOMAIN active /\ active[task[u].req.req_id] = u
      BY <3>1 DEF Handles
    <3>3. task[u].req.req_id # id
      BY <3>1, <3>2
    <3> QED  BY <1>2, <1>4, <2>2, <3>2, <3>3
  <2> QED  BY <2>1, <2>2
<1>9. ASSUME NEW u \in Tasks, task'[u].pc \in Running, task'[u].cancel = "closed"
      PROVE  \E v \in Tasks \ {u} : task'[v].pc \notin {"new", "spawned"} /\ task'[v].req.req_id = task'[u].req.req_id
  <2>1. u # t
    BY <1>6, <1>9
  <2>2. CASE id \in DOMAIN active /\ active[id] = u
    <3>1. task[u].req.req_id = id
      BY <2>2 DEF Handles
    <3>2. task'[u].req.req_id = task'[t].req.req_id
      BY <1>2, <1>3, <2>1, <3>1 DEF id
    <3> QED  BY <1>3, <2>1, <3>2
  <2>3. CASE ~(id \in DOMAIN active /\ active[id] = u)
    <3>1. task[u].cancel = "closed" /\ task[u].pc \in Running
      BY <1>1, <1>2, <1>9, <2>1, <2>3
    <3>2. PICK v \in Tasks \ {u} : task[v].pc \notin {"new", "spawned"} /\ task[v].req.req_id = task[u].req.req_id
      BY <3>1 DEF Handles
    <3>3. v # t
      BY <3>2
    <3> QED  BY <1>2, <2>1, <3>2, <3>3
  <2> QED  BY <2>2, <2>3
<1>10. \A u \in Tasks : task'[u].cancel \in {"open", "closed", "cancelled"}
  BY <1>1 DEF Handles
<1>11. ASSUME NEW u \in Tasks, task'[u].pc \in {"new", "spawned"} PROVE task'[u].cancel = "open"
  <2>1. u # t
    BY <1>3, <1>11
  <2>2. task[u].cancel = "open" /\ task[u].pc \notin Running
    BY <1>2, <1>11, <2>1 DEF Handles, Running
  <2>3. ~(id \in DOMAIN active /\ active[id] = u)
    BY <2>2 DEF Handles
  <2> QED  BY <1>1, <2>2, <2>3
<1> QED  BY <1>7, <1>8, <1>9, <1>10, <1>11 DEF Handles

(* A task that has resolved its items frees its id, also when another has  *)
(* taken it meanwhile.                                                     *)
LEMMA HandlesFinished ==
  ASSUME Handles, NEW t \in Tasks, task[t].pc = "items", Finishes(t)
  PROVE  Handles'
<1> DEFINE id == task[t].req.req_id
<1>1. ASSUME NEW u \in Tasks
      PROVE  /\ task'[u].cancel = IF id \in DOMAIN active /\ active[id] = u THEN "closed" ELSE task[u].cancel
             /\ task'[u].req = task[u].req
  BY DEF Finishes, Loses, Alone
<1>2. ASSUME NEW u \in Tasks \ {t} PROVE task'[u].pc = task[u].pc
  BY DEF Finishes, Alone
<1>3. task'[t].pc = "send" /\ "send" \notin Running
  BY DEF Finishes, Running
<1>4. DOMAIN active' = DOMAIN active \ {id} /\ \A k \in DOMAIN active \ {id} : active'[k] = active[k]
  BY DEF Finishes, Without
<1>0. task[t].req.req_id = id
  OBVIOUS
<1> HIDE DEF id
<1>5. ASSUME NEW k \in DOMAIN active'
      PROVE  /\ active'[k] \in Tasks /\ task'[active'[k]].req.req_id = k
             /\ task'[active'[k]].pc \in Running /\ task'[active'[k]].cancel = "open"
  <2>1. k \in DOMAIN active /\ k # id /\ active'[k] = active[k]
    BY <1>4
  <2>2. /\ active[k] \in Tasks /\ task[active[k]].req.req_id = k /\ task[active[k]].pc \in Running
        /\ task[active[k]].cancel = "open"
    BY <2>1 DEF Handles
  <2>3. active[k] # t
    BY <1>0, <2>1, <2>2
  <2>4. ~(id \in DOMAIN active /\ active[id] = active[k])
    BY <2>1, <2>2 DEF Handles
  <2> QED  BY <1>1, <1>2, <2>1, <2>2, <2>3, <2>4
<1>6. ASSUME NEW u \in Tasks, task'[u].pc \in Running, task'[u].cancel = "open"
      PROVE  task'[u].req.req_id \in DOMAIN active' /\ active'[task'[u].req.req_id] = u
  <2>1. u # t
    BY <1>3, <1>6
  <2>2. task[u].cancel = "open" /\ task[u].pc \in Running /\ ~(id \in DOMAIN active /\ active[id] = u)
    BY <1>1, <1>2, <1>6, <2>1
  <2>3. task[u].req.req_id \in DOMAIN active /\ active[task[u].req.req_id] = u
    BY <2>2 DEF Handles
  <2>4. task[u].req.req_id # id
    BY <2>2, <2>3
  <2> QED  BY <1>1, <1>4, <2>3, <2>4
<1>7. ASSUME NEW u \in Tasks, task'[u].pc \in Running, task'[u].cancel = "closed"
      PROVE  \E v \in Tasks \ {u} : task'[v].pc \notin {"new", "spawned"} /\ task'[v].req.req_id = task'[u].req.req_id
  <2>1. u # t
    BY <1>3, <1>7
  <2>2. CASE id \in DOMAIN active /\ active[id] = u
    <3>1. task[u].req.req_id = id
      BY <2>2 DEF Handles
    <3>2. task'[u].req.req_id = task'[t].req.req_id
      BY <1>0, <1>1, <3>1
    <3> QED  BY <1>3, <2>1, <3>2
  <2>3. CASE ~(id \in DOMAIN active /\ active[id] = u)
    <3>1. task[u].cancel = "closed" /\ task[u].pc \in Running
      BY <1>1, <1>2, <1>7, <2>1, <2>3
    <3>2. PICK v \in Tasks \ {u} : task[v].pc \notin {"new", "spawned"} /\ task[v].req.req_id = task[u].req.req_id
      BY <3>1 DEF Handles
    <3>3. task'[v].pc \notin {"new", "spawned"}
      BY <1>2, <1>3, <3>2
    <3> QED  BY <1>1, <3>2, <3>3
  <2> QED  BY <2>2, <2>3
<1>8. \A u \in Tasks : task'[u].cancel \in {"open", "closed", "cancelled"}
  BY <1>1 DEF Handles
<1>9. ASSUME NEW u \in Tasks, task'[u].pc \in {"new", "spawned"} PROVE task'[u].cancel = "open"
  <2>1. u # t
    BY <1>3, <1>9
  <2>2. task[u].cancel = "open" /\ task[u].pc \notin Running
    BY <1>2, <1>9, <2>1 DEF Handles, Running
  <2>3. ~(id \in DOMAIN active /\ active[id] = u)
    BY <2>2 DEF Handles
  <2> QED  BY <1>1, <2>2, <2>3
<1> QED  BY <1>5, <1>6, <1>7, <1>8, <1>9 DEF Handles

-----------------------------------------------------------------------------
(* The responses, task by task.                                            *)

(* Nothing but the channel of a task that resolves items has changed. *)
LEMMA OrderedStays ==
  ASSUME NEW x, NEW y, Ordered(x), y.pc = x.pc, y.req = x.req, y.idx = x.idx, y.resps = x.resps,
         y.out = x.out, x.pc = "send" => y.cancel = x.cancel
  PROVE  Ordered(y)
<1>1. Busy(y) <=> Busy(x)
  BY DEF Busy
<1>2. Orderly(y)
  BY <1>1, StillOrderly DEF Ordered
<1> QED  BY <1>2 DEF Ordered, Staged

(* A task without responses. *)
LEMMA FreshIsOrdered ==
  ASSUME NEW y, IsList(y.req.items), y.resps = <<>>, y.idx = 0, y.out = <<>>,
         y.pc \in {"new", "spawned", "items", "done"}
  PROVE  Ordered(y)
<1>1. ~Busy(y)
  BY DEF Busy
<1>2. Orderly(y)
  BY <1>1, FreshIsOrderly
<1> QED  BY <1>2 DEF Ordered, Staged, Running

(* The other tasks of a step in which only t moves. *)
LEMMA OrderedElsewhere ==
  ASSUME NEW t \in Tasks, \A u \in Tasks : Ordered(task[u]), Moves(t)
  PROVE  \A u \in Tasks \ {t} : Ordered(task'[u])
  BY DEF Moves

(* The other tasks when a channel changes: a task that sends has no entry. *)
LEMMA OrderedApart ==
  ASSUME NEW t \in Tasks, \A u \in Tasks : Ordered(task[u]), Alone(t), Handles, NEW id, NEW c, Loses(id, c)
  PROVE  \A u \in Tasks \ {t} : Ordered(task'[u])
<1> SUFFICES ASSUME NEW u \in Tasks \ {t} PROVE Ordered(task'[u])
  OBVIOUS
<1> DEFINE x == task[u]
           y == task'[u]
<1>1. /\ Ordered(x) /\ y.pc = x.pc /\ y.req = x.req /\ y.idx = x.idx
      /\ y.resps = x.resps /\ y.out = x.out
  BY DEF Alone
<1>2. x.pc = "send" => y.cancel = x.cancel
  <2> SUFFICES ASSUME x.pc = "send" PROVE y.cancel = x.cancel
    OBVIOUS
  <2>1. ~(id \in DOMAIN active /\ active[id] = u)
    BY DEF Handles, Running
  <2> QED  BY <2>1 DEF Loses
<1> HIDE DEF x, y
<1>3. Ordered(y)
  BY <1>1, <1>2, OrderedStays
<1> QED  BY <1>3 DEF y

(* The current item gets its one response. *)
LEMMA OrderedAnswered ==
  ASSUME NEW t \in Tasks, \A u \in Tasks : Ordered(task[u]), Busy(task[t]), AnswersOne(t)
  PROVE  \A u \in Tasks : Ordered(task'[u])
<1>1. \A u \in Tasks \ {t} : Ordered(task'[u])
  BY OrderedElsewhere DEF AnswersOne, Resolves
<1> DEFINE x == task[t]
           y == task'[t]
<1>2. PICK r : r.item_idx = x.idx - 1 /\ Grows(x.resps, r, y.resps)
  BY DEF AnswersOne
<1>3. Orderly(x) /\ Staged(x) /\ Busy(x) /\ y.pc = "items" /\ y.idx = x.idx /\ y.req = x.req /\ y.out = x.out
  BY DEF AnswersOne, Resolves, Moves, Ordered
<1> HIDE DEF x, y
<1>4. ~Busy(y)
  BY <1>3 DEF Busy
<1>5. Orderly(y)
  BY <1>2, <1>3, <1>4, AnsweredIsOrderly
<1>6. Staged(y)
  BY <1>3 DEF Staged, Busy, Running
<1> QED  BY <1>1, <1>5, <1>6 DEF Ordered, y

(* The task goes on with its item. *)
LEMMA OrderedGoesOn ==
  ASSUME NEW t \in Tasks, \A u \in Tasks : Ordered(task[u]), GoesOn(t), Busy(task[t]),
         \/ task'[t].pc \in {"fetch", "index"}
         \/ task'[t].pc = "inline" /\ Item(t).op = 2
         \/ task'[t].pc = "items" /\ Item(t).op = 2
  PROVE  \A u \in Tasks : Ordered(task'[u])
<1>1. \A u \in Tasks \ {t} : Ordered(task'[u])
  BY OrderedElsewhere DEF GoesOn, Resolves
<1> DEFINE x == task[t]
           y == task'[t]
<1>2. /\ Orderly(x) /\ Staged(x) /\ Busy(x) /\ y.idx = x.idx /\ y.req = x.req /\ y.out = x.out
      /\ y.resps = x.resps
  BY DEF GoesOn, Resolves, Moves, Ordered
<1>3. \/ y.pc \in {"fetch", "index"}
      \/ y.pc = "inline" /\ x.req.items[x.idx].op = 2
      \/ y.pc = "items" /\ x.req.items[x.idx].op = 2
  BY DEF Item, Items
<1> HIDE DEF x, y
<1>4. Staged(y)
  BY <1>2, <1>3 DEF Staged, Busy, Running
<1>5. CASE Busy(y)
  BY <1>1, <1>2, <1>4, <1>5, StillOrderly DEF Ordered, y
<1>6. CASE ~Busy(y)
  <2>1. x.req.items[x.idx].op = 2
    BY <1>3, <1>6 DEF Busy
  <2>2. Orderly(y)
    BY <1>2, <1>6, <2>1, SearchedIsOrderly
  <2> QED  BY <1>1, <1>4, <2>2 DEF Ordered, y
<1> QED  BY <1>5, <1>6

-----------------------------------------------------------------------------
(* The invariant is kept by each action.                                   *)

LEMMA ResolvesKeepsHandles ==
  ASSUME Handles, NEW t \in Tasks, Resolves(t), task[t].pc \in Running
  PROVE  Handles'
  BY HandlesStay DEF Resolves, Running

LEMMA ResponsesAreLists ==
  ASSUME IInv, NEW t \in Tasks
  PROVE  IsList(task[t].resps)
  BY DEF IInv, Ordered, Orderly

(* A step that answers the item, or goes on with it. *)
LEMMA ResolvingStep ==
  ASSUME IInv, NEW t \in Tasks, Busy(task[t]),
         \/ AnswersOne(t)
         \/ /\ GoesOn(t)
            /\ \/ task'[t].pc \in {"fetch", "index"}
               \/ task'[t].pc = "inline" /\ Item(t).op = 2
               \/ task'[t].pc = "items" /\ Item(t).op = 2
  PROVE  IInv'
<1>1. Resolves(t) /\ Shape'
  BY DEF AnswersOne, GoesOn, Resolves, Moves
<1>2. Handles'
  BY <1>1, ResolvesKeepsHandles DEF IInv, Busy, Running
<1>3. \A u \in Tasks : Ordered(task'[u])
  <2>1. CASE AnswersOne(t)
    BY <2>1, OrderedAnswered DEF IInv
  <2>2. CASE /\ GoesOn(t)
             /\ \/ task'[t].pc \in {"fetch", "index"}
                \/ task'[t].pc = "inline" /\ Item(t).op = 2
                \/ task'[t].pc = "items" /\ Item(t).op = 2
    BY <2>2, OrderedGoesOn DEF IInv
  <2> QED  BY <2>1, <2>2
<1> QED  BY <1>1, <1>2, <1>3 DEF IInv

LEMMA FetchInv ==
  ASSUME IInv, NEW t \in Tasks, FetchWeb(t) \/ FetchLocal(t) \/ FetchVanishes(t) \/ FetchCancelled(t)
  PROVE  IInv'
<1>1. Shape /\ IsList(task[t].resps)
  BY ResponsesAreLists DEF IInv
<1>2. task[t].pc = "fetch" /\ (AnswersOne(t) \/ (GoesOn(t) /\ task'[t].pc = "fetch"))
  BY <1>1, FetchWebIs, FetchLocalIs, FetchVanishesIs, FetchCancelledIs
<1> QED  BY <1>2, ResolvingStep DEF Busy

LEMMA SearchInv ==
  ASSUME IInv, NEW t \in Tasks, Search(t) \/ CompileIndex(t) \/ SearchEnds(t)
  PROVE  IInv'
<1>1. Shape /\ IsList(task[t].resps) /\ Staged(task[t])
  BY ResponsesAreLists DEF IInv, Ordered
<1>2. CASE Search(t)
  <2>1. /\ task[t].pc = "search"
        /\ \/ AnswersOne(t)
           \/ GoesOn(t) /\ task'[t].pc = "index"
           \/ GoesOn(t) /\ task'[t].pc = "inline" /\ Item(t).op # 4
    BY <1>1, <1>2, SearchIs
  <2>2. Item(t).op \in {2, 4}
    BY <1>1, <2>1 DEF Staged, Item, Items
  <2> QED  BY <2>1, <2>2, ResolvingStep DEF Busy
<1>3. CASE CompileIndex(t)
  BY <1>1, <1>3, CompileIndexIs, ResolvingStep DEF Busy
<1>4. CASE SearchEnds(t)
  <2>1. task[t].pc = "inline" /\ GoesOn(t) /\ task'[t].pc = "items"
    BY <1>1, <1>4, SearchEndsIs
  <2>2. Item(t).op = 2
    BY <1>1, <2>1 DEF Staged, Item, Items
  <2> QED  BY <2>1, <2>2, ResolvingStep DEF Busy
<1> QED  BY <1>2, <1>3, <1>4

LEMMA SearchOneInv ==
  ASSUME IInv, NEW t \in Tasks, NEW result, SearchOne(t, result)
  PROVE  IInv'
<1> DEFINE x == task[t]
           y == task'[t]
<1>1. Shape /\ IsList(task[t].resps) /\ Orderly(x) /\ Staged(x)
  BY ResponsesAreLists DEF IInv, Ordered
<1>2. /\ x.pc = "inline" /\ y.pc = "inline" /\ Resolves(t) /\ y.idx = x.idx
      /\ \/ y.resps = x.resps
         \/ \E r : r.item_idx = x.idx - 1 /\ Grows(x.resps, r, y.resps)
  BY <1>1, SearchOneIs
<1>3. Handles' /\ Shape'
  BY <1>2, ResolvesKeepsHandles DEF IInv, Running, Resolves, Moves
<1>4. \A u \in Tasks \ {t} : Ordered(task'[u])
  BY <1>2, OrderedElsewhere DEF IInv, Resolves
<1>5. y.req = x.req /\ y.out = x.out
  BY <1>2 DEF Resolves, Moves
<1> HIDE DEF x, y
<1>6. x.req.items[x.idx].op = 2 /\ Busy(x) /\ Busy(y) /\ Staged(y)
  BY <1>1, <1>2, <1>5 DEF Staged, Busy, Running
<1>7. Orderly(y)
  BY <1>1, <1>2, <1>5, <1>6, StillOrderly, FoundIsOrderly
<1> QED  BY <1>3, <1>4, <1>6, <1>7 DEF IInv, Ordered, y

LEMMA StartItemInv ==
  ASSUME IInv, NEW t \in Tasks, StartItem(t)
  PROVE  IInv'
<1> DEFINE x == task[t]
           y == task'[t]
<1>1. Shape /\ IsList(task[t].resps) /\ Orderly(x) /\ Staged(x) /\ Handles
  BY ResponsesAreLists DEF IInv, Ordered
<1>2. \A id \in DOMAIN active : active[id] \in Tasks
  BY <1>1 DEF Handles
<1>3. /\ x.pc = "items" /\ x.idx < Len(Items(t))
      /\ \/ Begins(t)
         \/ Resolves(t) /\ AtOnce(t)
         \/ /\ Alone(t) /\ AtOnce(t) /\ y.req = x.req
            /\ \E id \in DOMAIN active : active' = Without(active, id) /\ Loses(id, "cancelled")
  BY <1>1, <1>2, StartItemIs
<1>4. x.idx < Len(x.req.items) /\ ~Busy(x)
  BY <1>3 DEF Items, Busy
<1>5. ASSUME AtOnce(t), y.req = x.req PROVE Ordered(y)
  <2>1. PICK r : r.item_idx = x.idx /\ Grows(x.resps, r, y.resps)
    BY <1>5 DEF AtOnce
  <2>2. y.pc = "items" /\ y.idx = x.idx + 1 /\ y.out = x.out
    BY <1>5 DEF AtOnce
  <2> HIDE DEF x, y
  <2>3. ~Busy(y)
    BY <2>2 DEF Busy
  <2>4. Orderly(y)
    BY <1>1, <1>4, <1>5, <2>1, <2>2, <2>3, AtOnceIsOrderly
  <2> QED  BY <1>1, <1>3, <2>2, <2>4 DEF Ordered, Staged, Running
<1>6. CASE Begins(t)
  <2>1. Handles' /\ Shape' /\ \A u \in Tasks \ {t} : Ordered(task'[u])
    BY <1>3, <1>6, ResolvesKeepsHandles, OrderedElsewhere DEF IInv, Begins, Resolves, Moves, Running
  <2>2. /\ y.idx = x.idx + 1 /\ y.resps = x.resps /\ y.req = x.req /\ y.out = x.out
        /\ y.pc = "fetch" \/ (y.pc = "search" /\ x.req.items[x.idx + 1].op \in {2, 4})
    BY <1>6 DEF Begins, Resolves, Moves, Items
  <2> HIDE DEF x, y
  <2>3. Busy(y)
    BY <2>2 DEF Busy
  <2>4. Orderly(y)
    BY <1>1, <1>4, <2>2, <2>3, BegunIsOrderly
  <2>5. Staged(y)
    BY <1>1, <1>3, <2>2 DEF Staged, Running
  <2> QED  BY <2>1, <2>4, <2>5 DEF IInv, Ordered, y
<1>7. CASE Resolves(t) /\ AtOnce(t)
  <2>1. Handles' /\ Shape' /\ \A u \in Tasks \ {t} : Ordered(task'[u])
    BY <1>3, <1>7, ResolvesKeepsHandles, OrderedElsewhere DEF IInv, Resolves, Moves, Running
  <2>2. Ordered(y)
    BY <1>5, <1>7 DEF Resolves, Moves
  <2> QED  BY <2>1, <2>2 DEF IInv
<1>8. CASE /\ Alone(t) /\ AtOnce(t) /\ y.req = x.req
           /\ \E id \in DOMAIN active : active' = Without(active, id) /\ Loses(id, "cancelled")
  <2>1. PICK id \in DOMAIN active : active' = Without(active, id) /\ Loses(id, "cancelled")
    BY <1>8
  <2>2. Handles'
    BY <1>1, <1>3, <1>8, <2>1, HandlesCancelled DEF AtOnce
  <2>3. \A u \in Tasks \ {t} : Ordered(task'[u])
    BY <1>1, <1>8, <2>1, OrderedApart DEF IInv
  <2>4. Ordered(y) /\ Shape'
    BY <1>5, <1>8 DEF Alone
  <2> QED  BY <2>2, <2>3, <2>4 DEF IInv
<1> QED  BY <1>3, <1>6, <1>7, <1>8

(* The items of a decoded request are a list. *)
LEMMA DecodedItems ==
  ASSUME NEW t \in Tasks
  PROVE  IsList(DecodeRequest(Bundle[t].wire).items)
<1> DEFINE w == Bundle[t].wire
           n == Len(Field(w, "items", <<>>))
           items == [i \in 1 .. n |-> DecodeItem(w.items[i])]
           S == {items[i] : i \in 1 .. n}
<1>1. n \in Nat /\ DOMAIN Field(w, "items", <<>>) = 1 .. n
  BY ItemsAssumption
<1>2. DecodeRequest(w).items = items
  BY <1>1 DEF DecodeRequest
<1> HIDE DEF n
<1>3. items \in [1 .. n -> S]
  OBVIOUS
<1> HIDE DEF items, S
<1>4. items \in Seq(S)
  BY <1>1, <1>3, SeqDef
<1>5. IsList(items)
  BY <1>4, SeqIsList
<1> QED  BY <1>2, <1>5

LEMMA DeliverInv ==
  ASSUME IInv, NEW t \in Tasks, on_deliver(t)
  PROVE  IInv'
<1> DEFINE x == task[t]
           y == task'[t]
<1>1. /\ x.pc = "new" /\ Moves(t) /\ active' = active
      /\ y.pc \in {"spawned", "done"} /\ y.idx = x.idx /\ y.resps = x.resps /\ y.out = x.out
  BY DeliverIs DEF IInv
<1>2. Handles'
  BY <1>1, HandlesStay DEF IInv, Running
<1>3. Shape' /\ (\A u \in Tasks \ {t} : Ordered(task'[u])) /\ y.req = x.req
  BY <1>1, OrderedElsewhere DEF IInv, Moves
<1>4. Orderly(x) /\ Staged(x)
  BY DEF IInv, Ordered
<1> HIDE DEF x, y
<1>5. IsList(y.req.items) /\ y.idx = 0 /\ y.resps = <<>> /\ y.out = <<>>
  BY <1>1, <1>3, <1>4 DEF Orderly, Staged
<1>6. Ordered(y)
  BY <1>1, <1>5, FreshIsOrdered
<1> QED  BY <1>2, <1>3, <1>6 DEF IInv, y

LEMMA StartRequestInv ==
  ASSUME IInv, NEW t \in Tasks, StartRequest(t)
  PROVE  IInv'
<1> DEFINE x == task[t]
           y == task'[t]
           req == DecodeRequest(Bundle[t].wire)
<1>1. /\ x.pc = "spawned"
      /\ \/ /\ Moves(t) /\ active' = active /\ y.pc = "done" /\ y.idx = x.idx
            /\ y.resps = x.resps /\ y.out = x.out
         \/ Registers(t, req)
  BY StartRequestIs DEF IInv
<1>2. Orderly(x) /\ Staged(x) /\ Handles
  BY DEF IInv, Ordered
<1>3. x.idx = 0 /\ x.resps = <<>> /\ x.out = <<>> /\ IsList(x.req.items)
  BY <1>1, <1>2 DEF Orderly, Staged
<1>4. IsList(req.items)
  BY DecodedItems
<1> HIDE DEF req
<1>5. CASE /\ Moves(t) /\ active' = active /\ y.pc = "done" /\ y.idx = x.idx
           /\ y.resps = x.resps /\ y.out = x.out
  <2>1. Handles'
    BY <1>1, <1>2, <1>5, HandlesStay DEF Running
  <2>2. Shape' /\ (\A u \in Tasks \ {t} : Ordered(task'[u])) /\ y.req = x.req
    BY <1>5, OrderedElsewhere DEF IInv, Moves
  <2>3. Ordered(y)
    BY <1>3, <1>5, <2>2, FreshIsOrdered
  <2> QED  BY <2>1, <2>2, <2>3 DEF IInv
<1>6. CASE Registers(t, req)
  <2>1. Handles'
    BY <1>1, <1>2, <1>6, HandlesRegistered
  <2>2. Shape' /\ \A u \in Tasks \ {t} : Ordered(task'[u])
    BY <1>2, <1>6, OrderedApart DEF IInv, Registers, Alone
  <2>3. y.req = req /\ y.pc = "items" /\ y.idx = 0 /\ y.resps = <<>> /\ y.out = <<>>
    BY <1>3, <1>6 DEF Registers
  <2>4. Ordered(y)
    BY <1>4, <2>3, FreshIsOrdered
  <2> QED  BY <2>1, <2>2, <2>4 DEF IInv
<1> QED  BY <1>1, <1>5, <1>6

LEMMA FinishItemsInv ==
  ASSUME IInv, NEW t \in Tasks, FinishItems(t)
  PROVE  IInv'
<1> DEFINE x == task[t]
           y == task'[t]
<1>1. x.pc = "items" /\ ~MoreItems(t) /\ Finishes(t) /\ Handles /\ Orderly(x)
  BY FinishItemsIs DEF IInv, Ordered
<1>2. Handles'
  BY <1>1, HandlesFinished
<1>3. Shape' /\ \A u \in Tasks \ {t} : Ordered(task'[u])
  BY <1>1, OrderedApart DEF IInv, Finishes, Alone
<1>4. /\ y.pc = "send" /\ y.req = x.req /\ y.idx = x.idx /\ y.resps = x.resps
      /\ y.out[1].wire = EncodeResponse(x.req.req_id, x.resps)
  BY <1>1 DEF Finishes
<1>5. y.cancel # "cancelled" => x.cancel # "cancelled"
  <2>1. x.cancel = "cancelled" => ~(x.req.req_id \in DOMAIN active /\ active[x.req.req_id] = t)
    BY <1>1 DEF Handles
  <2> QED  BY <1>1, <2>1 DEF Finishes, Loses
<1>6. x.cancel # "cancelled" => x.idx >= Len(x.req.items)
  BY <1>1 DEF MoreItems, Cancelled, Items, Orderly, IsList
<1> HIDE DEF x, y
<1>7. y.cancel # "cancelled" => y.idx = Len(y.req.items)
  BY <1>1, <1>4, <1>5, <1>6 DEF Orderly, IsList
<1>8. Staged(y)
  BY <1>4, <1>7 DEF Staged, Running
<1>9. Orderly(y)
  BY <1>1, <1>4, StillOrderly DEF Busy
<1> QED  BY <1>2, <1>3, <1>8, <1>9 DEF IInv, Ordered, y

LEMMA SendInv ==
  ASSUME IInv, NEW t \in Tasks, Send(t) \/ SendFails(t)
  PROVE  IInv'
<1> DEFINE x == task[t]
           y == task'[t]
<1>1. /\ x.pc = "send" /\ Moves(t) /\ active' = active
      /\ \/ y.pc = "send" /\ y.idx = x.idx /\ y.resps = x.resps /\ y.out = x.out
         \/ y.pc = "done" /\ y.idx = 0 /\ y.resps = <<>> /\ y.out = <<>>
  BY SendIs DEF IInv
<1>2. Handles'
  BY <1>1, HandlesStay DEF IInv, Running
<1>3. Shape' /\ (\A u \in Tasks \ {t} : Ordered(task'[u])) /\ y.req = x.req /\ y.cancel = x.cancel
  BY <1>1, OrderedElsewhere DEF IInv, Moves
<1>4. Ordered(x) /\ IsList(x.req.items)
  BY DEF IInv, Ordered, Orderly
<1> HIDE DEF x, y
<1>5. Ordered(y)
  BY <1>1, <1>3, <1>4, OrderedStays, FreshIsOrdered
<1> QED  BY <1>2, <1>3, <1>5 DEF IInv, y

(* Every task idle, and no entry: the start, and the end of the process. *)
LEMMA IdleInv ==
  /\ (task = [t \in Tasks |-> Idle] /\ active = <<>> => IInv)
  /\ (task' = [t \in Tasks |-> Idle] /\ active' = <<>> => IInv')
<1>1. IsList(Idle.req.items)
  <2>1. NoRequest.items = <<>>
    BY DEF NoRequest
  <2>2. Idle.req.items = <<>>
    BY <2>1, IdleIs
  <2> QED  BY <2>2, SeqIsList, EmptySeq
<1>2. Ordered(Idle)
  BY <1>1, IdleIs, FreshIsOrdered
<1>3. Idle.pc \notin Running
  BY IdleIs DEF Running
<1> QED  BY <1>2, <1>3, IdleIs DEF IInv, Shape, Handles

(* The invariant holds initially and every step keeps it. *)
THEOREM Invariance == Spec => []IInv
<1>1. Init => IInv
  BY IdleInv DEF Init
<1>2. IInv /\ [Next]_vars => IInv'
  <2> SUFFICES ASSUME IInv, [Next]_vars PROVE IInv'
    OBVIOUS
  <2>1. ASSUME NEW t \in Tasks, on_deliver(t) PROVE IInv'
    BY <2>1, DeliverInv
  <2>2. ASSUME NEW t \in Tasks, FetchWeb(t) \/ FetchVanishes(t) PROVE IInv'
    BY <2>2, FetchInv
  <2>3. ASSUME NEW t \in Tasks, TaskStep(t) PROVE IInv'
    <3>1. CASE StartRequest(t)
      BY <3>1, StartRequestInv
    <3>2. CASE StartItem(t)
      BY <3>2, StartItemInv
    <3>3. CASE FinishItems(t)
      BY <3>3, FinishItemsInv
    <3>4. CASE FetchLocal(t) \/ FetchCancelled(t)
      BY <3>4, FetchInv
    <3>5. CASE Search(t) \/ CompileIndex(t) \/ SearchEnds(t)
      BY <3>5, SearchInv
    <3>6. CASE \E result \in task[t].left : SearchOne(t, result)
      BY <3>6, SearchOneInv
    <3>7. CASE Send(t) \/ SendFails(t)
      BY <3>7, SendInv
    <3> QED  BY <2>3, <3>1, <3>2, <3>3, <3>4, <3>5, <3>6, <3>7 DEF TaskStep
  <2>4. CASE on_unregister
    BY <2>4, IdleInv DEF on_unregister
  <2>5. CASE UNCHANGED <<task, active>>
    BY <2>5 DEF IInv, Shape, Handles
  <2> QED  BY <2>1, <2>2, <2>3, <2>4, <2>5 DEF Next, FileRemoved, vars
<1> QED  BY <1>1, <1>2, PTL DEF Spec

(* active_tasks, the map of dtnbasket's cancel senders: an entry is the    *)
(* handle of a task that still resolves items and was not cancelled, and   *)
(* such a task has its entry unless another request came with its id.      *)
THEOREM HandlesAreLive == Spec => []HandlesMatchTasks
<1>1. IInv => HandlesMatchTasks
  <2> SUFFICES ASSUME IInv PROVE HandlesMatchTasks
    OBVIOUS
  <2>1. ASSUME NEW id \in DOMAIN active
        PROVE  /\ Request(active[id]).req_id = id
               /\ task[active[id]].pc \in Running /\ task[active[id]].cancel = "open"
    BY DEF IInv, Handles, Request
  <2>2. ASSUME NEW t \in Tasks, task[t].pc \in Running, task[t].cancel # "cancelled",
               \A u \in Tasks \ {t} : Request(u).req_id # Request(t).req_id
        PROVE  Request(t).req_id \in DOMAIN active /\ active[Request(t).req_id] = t
    <3>1. task[t].cancel = "open"
      BY <2>2 DEF IInv, Handles, Request
    <3> QED  BY <2>2, <3>1 DEF IInv, Handles, Request
  <2> QED  BY <2>1, <2>2 DEF HandlesMatchTasks
<1> QED  BY <1>1, Invariance, PTL

-----------------------------------------------------------------------------
(* What the requester decodes.                                             *)

(* The response bundle is decoded to as many responses, for the same items *)
(* and with the same statuses.                                             *)
LEMMA DecodedResponses ==
  ASSUME NEW id, NEW s, IsList(s)
  PROVE  LET d == DecodeResponse(EncodeResponse(id, s)).items IN
         /\ DOMAIN d = 1 .. Len(s)
         /\ \A i \in 1 .. Len(s) : d[i].item_idx = s[i].item_idx /\ d[i].status = s[i].status
<1> DEFINE w == EncodeResponse(id, s)
           d == DecodeResponse(w).items
<1>1. w.items = [i \in DOMAIN s |-> EncodeItemResponse(s[i])]
  BY DEF EncodeResponse
<1>2. DOMAIN s = 1 .. Len(s)
  BY DEF IsList
<1>3. d = [i \in DOMAIN w.items |-> DecodeItemResponse(w.items[i])]
  BY DEF DecodeResponse
<1> HIDE DEF w, d
<1>4. ASSUME NEW r
      PROVE  LET e == DecodeItemResponse(EncodeItemResponse(r)) IN e.item_idx = r.item_idx /\ e.status = r.status
  <2> DEFINE e == EncodeItemResponse(r)
  <2>1. /\ "item_idx" \in DOMAIN e /\ e["item_idx"] = r["item_idx"]
        /\ "status" \in DOMAIN e /\ e["status"] = r["status"]
    BY DEF EncodeItemResponse
  <2> HIDE DEF e
  <2>2. Field(e, "item_idx", 0) = r.item_idx /\ Field(e, "status", 0) = r.status
    BY <2>1 DEF Field
  <2>3. DecodeItemResponse(e).item_idx = Field(e, "item_idx", 0) /\ DecodeItemResponse(e).status = Field(e, "status", 0)
    BY DEF DecodeItemResponse
  <2> QED  BY <2>2, <2>3 DEF e
<1>5. DOMAIN d = 1 .. Len(s) /\ \A i \in 1 .. Len(s) : d[i] = DecodeItemResponse(EncodeItemResponse(s[i]))
  BY <1>1, <1>2, <1>3
<1> QED  BY <1>4, <1>5 DEF d, w

(* How many responses an item has. *)
LEMMA AtMostOne ==
  ASSUME NEW S, \A i, j \in S : i = j
  PROVE  Cardinality(S) <= 1 /\ (Cardinality(S) = 1 <=> S # {})
<1>1. CASE S = {}
  BY <1>1, FS_EmptySet
<1>2. CASE S # {}
  <2>1. PICK i \in S : TRUE
    BY <1>2
  <2>2. S = {i}
    BY <2>1
  <2>3. Cardinality(S) = 1
    BY <2>2, FS_Singleton
  <2> QED  BY <1>2, <2>3
<1> QED  BY <1>1, <1>2

(* process_request answers the items of a request in order, each of them   *)
(* that is no SEARCH exactly once, and leaves out the last of them only    *)
(* when the request was cancelled.                                         *)
THEOREM ItemsAreAnswered == Spec => []AnsweredInOrder
<1>1. IInv => AnsweredInOrder
  <2> SUFFICES ASSUME IInv, NEW t \in Tasks, task[t].out # <<>>
               PROVE  LET resps == Responses(t)
                          count(k) == Cardinality({i \in DOMAIN resps : resps[i].item_idx = k - 1})
                          single == {k \in DOMAIN Items(t) : Items(t)[k].op # 2}
                      IN /\ \A i, j \in DOMAIN resps : i < j => resps[i].item_idx <= resps[j].item_idx
                         /\ \A k \in single : count(k) <= 1
                         /\ \A k, m \in single : k < m /\ count(m) = 1 => count(k) = 1
                         /\ task[t].cancel # "cancelled" => \A k \in single : count(k) = 1
    BY DEF AnsweredInOrder
  <2> DEFINE x == task[t]
             s == x.resps
             items == x.req.items
             resps == Responses(t)
             At1(k) == {i \in DOMAIN resps : resps[i].item_idx = k - 1}
             single == {k \in DOMAIN items : items[k].op # 2}
  <2>1. x.pc = "send" /\ Orderly(x) /\ Staged(x) /\ ~Busy(x)
    BY DEF IInv, Ordered, Staged, Busy
  <2>2. /\ IsList(items) /\ IsList(s) /\ Len(s) \in Nat /\ Len(items) \in Nat /\ DOMAIN items = 1 .. Len(items)
        /\ x.idx \in 0 .. Len(items)
        /\ x.cancel # "cancelled" => x.idx = Len(items)
    BY <2>1 DEF Orderly, Staged, IsList
  <2>3. /\ \A i \in 1 .. Len(s) : s[i].item_idx \in 0 .. x.idx - 1
        /\ \A i, j \in 1 .. Len(s) : i < j => s[i].item_idx <= s[j].item_idx
        /\ \A i, j \in 1 .. Len(s) : i # j /\ s[i].item_idx = s[j].item_idx => items[s[i].item_idx + 1].op = 2
        /\ \A k \in 1 .. x.idx : items[k].op # 2 => \E i \in 1 .. Len(s) : s[i].item_idx = k - 1
    BY <2>1 DEF Orderly
  <2>4. resps = DecodeResponse(EncodeResponse(x.req.req_id, s)).items
    BY <2>1 DEF Responses, Staged
  <2>5. DOMAIN resps = 1 .. Len(s) /\ \A i \in 1 .. Len(s) : resps[i].item_idx = s[i].item_idx
    <3> HIDE DEF s
    <3> QED  BY <2>2, <2>4, DecodedResponses
  <2>6. Items(t) = items
    BY DEF Items
  <2> HIDE DEF resps, items, s
  <2>7. \A i, j \in DOMAIN resps : i < j => resps[i].item_idx <= resps[j].item_idx
    BY <2>3, <2>5
  <2>8. ASSUME NEW k \in single
        PROVE  Cardinality(At1(k)) <= 1 /\ (Cardinality(At1(k)) = 1 <=> At1(k) # {})
    <3>1. ASSUME NEW i \in At1(k), NEW j \in At1(k) PROVE i = j
      <4>1. /\ i \in 1 .. Len(s) /\ j \in 1 .. Len(s) /\ s[i].item_idx = k - 1 /\ s[j].item_idx = k - 1
            /\ k \in Int /\ items[k].op # 2
        BY <2>2, <2>5
      <4>2. (k - 1) + 1 = k
        BY <4>1
      <4> QED  BY <2>3, <4>1, <4>2
    <3> HIDE DEF At1
    <3> QED  BY <3>1, AtMostOne
  <2>9. ASSUME NEW k \in single, k <= x.idx PROVE At1(k) # {}
    <3>1. k \in 1 .. x.idx /\ items[k].op # 2
      BY <2>2, <2>9
    <3>2. PICK i \in 1 .. Len(s) : s[i].item_idx = k - 1
      BY <2>3, <3>1
    <3> QED  BY <2>5, <3>2
  <2>10. ASSUME NEW k \in single, NEW m \in single, k < m, Cardinality(At1(m)) = 1
         PROVE  Cardinality(At1(k)) = 1
    <3>1. PICK i \in At1(m) : TRUE
      BY <2>8, <2>10
    <3>2. i \in 1 .. Len(s) /\ s[i].item_idx = m - 1
      BY <2>5
    <3>3. m <= x.idx /\ k <= x.idx
      BY <2>2, <2>3, <2>10, <3>2
    <3> QED  BY <2>8, <2>9, <3>3
  <2>11. ASSUME x.cancel # "cancelled", NEW k \in single PROVE Cardinality(At1(k)) = 1
    <3>1. k <= x.idx
      BY <2>2, <2>11
    <3> QED  BY <2>8, <2>9, <3>1
  <2>12. /\ \A i, j \in DOMAIN resps : i < j => resps[i].item_idx <= resps[j].item_idx
         /\ \A k \in single : Cardinality(At1(k)) <= 1
         /\ \A k, m \in single : k < m /\ Cardinality(At1(m)) = 1 => Cardinality(At1(k)) = 1
         /\ x.cancel # "cancelled" => \A k \in single : Cardinality(At1(k)) = 1
    <3> HIDE DEF single, At1
    <3> QED  BY <2>7, <2>8, <2>10, <2>11
  <2>13. single = {k \in DOMAIN Items(t) : Items(t)[k].op # 2}
    BY <2>6
  <2>14. resps = Responses(t)
    BY DEF resps
  <2> HIDE DEF single
  <2> QED  BY <2>12, <2>13, <2>14, Zenon
<1> QED  BY <1>1, Invariance, PTL

-----------------------------------------------------------------------------
(* Which files leave.                                                      *)

(* A file the responder may hand out. *)
Servable(p) ==
  \/ \E dir \in AllowedDirs : IsPrefix(dir, p)
  \/ \E name \in DOMAIN Mappings : Canonical(Mappings[name]) = p

(* OnlyServedFiles tells by its hash which file a response is about.  It   *)
(* can do so if files that may be served and others have no hash in        *)
(* common, nor a file and a body that was fetched or an index document.    *)
HashesTell ==
  /\ \A p, q \in DOMAIN InitialFiles :
       InitialFiles[p].hash = InitialFiles[q].hash /\ Servable(p) => Servable(q)
  /\ \A p \in DOMAIN InitialFiles :
       /\ InitialFiles[p].hash # <<>>
       /\ \A n, m : InitialFiles[p].hash # <<0, n, m>>
       /\ \A uri : \A a \in Answers(uri) : InitialFiles[p].hash # Body(uri, a.doc).hash

(* What is told of an item is about no file that must not leave. *)
Fair(item, metadata) ==
  \A p \in DOMAIN InitialFiles : InitialFiles[p].hash = metadata.hash =>
    Servable(p) /\ (item.op \in {0, 1} => ~IsWeb(item.uri))

(* A fetch of a web resource stays on the web; the files a SEARCH is yet   *)
(* to read may be served; and so may those that were read.                 *)
Sourced(x) ==
  /\ x.pc = "fetch" => (IsWeb(x.req.items[x.idx].uri) => IsWeb(x.uri))
  /\ x.pc = "inline" => \A r \in x.left :
       Canonical(r.path) \in DOMAIN InitialFiles => Servable(Canonical(r.path))
  /\ \A i \in 1 .. Len(x.resps) : Fair(x.req.items[x.resps[i].item_idx + 1], x.resps[i].metadata)

(* The files are those of the start, or fewer. *)
FilesRemain ==
  /\ DOMAIN fs \subseteq DOMAIN InitialFiles
  /\ \A p \in DOMAIN fs : fs[p] = InitialFiles[p]

ServedInv == FilesRemain /\ \A t \in Tasks : Sourced(task[t])

(* A status without metadata is about no file. *)
LEMMA NothingIsFair ==
  ASSUME HashesTell, NEW item
  PROVE  Fair(item, NoMetadata)
<1>1. NoMetadata.hash = <<>>
  BY DEF NoMetadata
<1> QED  BY <1>1 DEF HashesTell, Fair

(* A task in which nothing has changed that matters here. *)
LEMMA StillSourced ==
  ASSUME NEW x, NEW y, Sourced(x), y.pc = x.pc, y.req = x.req, y.idx = x.idx, y.uri = x.uri,
         y.left = x.left, y.resps = x.resps
  PROVE  Sourced(y)
  BY DEF Sourced

(* A task that neither fetches nor reads files, with the responses it had, *)
(* or with none.                                                           *)
LEMMA QuietIsSourced ==
  ASSUME NEW x, NEW y, Sourced(x), y.pc \notin {"fetch", "inline"},
         y.resps = <<>> \/ (y.resps = x.resps /\ y.req = x.req)
  PROVE  Sourced(y)
<1>1. CASE y.resps = <<>>
  <2>1. Len(y.resps) = 0
    BY <1>1, EmptySeq
  <2> QED  BY <2>1 DEF Sourced
<1>2. CASE y.resps = x.resps /\ y.req = x.req
  BY <1>2 DEF Sourced
<1> QED  BY <1>1, <1>2

(* A response is added, and maybe a file was read. *)
LEMMA ToldIsSourced ==
  ASSUME NEW x, NEW y, Sourced(x), IsList(x.resps), y.req = x.req,
         NEW r, Grows(x.resps, r, y.resps), Fair(x.req.items[r.item_idx + 1], r.metadata),
         y.pc \notin {"fetch", "inline"} \/ (y.pc = "inline" /\ x.pc = "inline" /\ y.left \subseteq x.left)
  PROVE  Sourced(y)
<1>1. y.pc = "inline" => \A f \in y.left : Canonical(f.path) \in DOMAIN InitialFiles => Servable(Canonical(f.path))
  BY DEF Sourced
<1>2. ASSUME NEW i \in 1 .. Len(y.resps)
      PROVE  Fair(y.req.items[y.resps[i].item_idx + 1], y.resps[i].metadata)
  <2>1. Len(x.resps) \in Nat /\ Len(y.resps) = Len(x.resps) + 1
    BY DEF IsList, Grows
  <2>2. CASE i \in 1 .. Len(x.resps)
    BY <2>2 DEF Sourced, Grows
  <2>3. CASE i = Len(x.resps) + 1
    BY <2>3 DEF Grows
  <2> QED  BY <2>1, <2>2, <2>3
<1> QED  BY <1>1, <1>2 DEF Sourced

(* One task moves; the others at most lose their channel. *)
LEMMA SourcedStep ==
  ASSUME ServedInv, NEW t \in Tasks, Moves(t) \/ Alone(t), fs' = fs \/ FilesRemain', Sourced(task'[t])
  PROVE  ServedInv'
<1>1. ASSUME NEW u \in Tasks \ {t} PROVE Sourced(task'[u])
  <2>1. Sourced(task[u])
    BY DEF ServedInv
  <2>2. CASE Moves(t)
    BY <2>1, <2>2 DEF Moves
  <2>3. CASE Alone(t)
    BY <2>1, <2>3, StillSourced DEF Alone
  <2> QED  BY <2>2, <2>3
<1>2. FilesRemain'
  BY DEF ServedInv, FilesRemain
<1> QED  BY <1>1, <1>2 DEF ServedInv

(* The item is answered, with metadata that are fair. *)
LEMMA AnswerServed ==
  ASSUME IInv, ServedInv, NEW t \in Tasks, fs' = fs \/ FilesRemain', NEW c, NEW m, NEW b,
         Answer(t, <<Response(t, c, m)>>, b), Fair(Item(t), m)
  PROVE  ServedInv'
<1> DEFINE r == Response(t, c, m)
           x == task[t]
           y == task'[t]
<1>1. r.item_idx = x.idx - 1 /\ r.metadata = m
  BY DEF Response
<1>2. Answer(t, <<r>>, b)
  OBVIOUS
<1> HIDE DEF r
<1>3. Shape /\ IsList(x.resps) /\ x.idx \in Int /\ Sourced(x)
  <2>1. Orderly(x)
    BY DEF IInv, Ordered
  <2> HIDE DEF x
  <2>2. x.idx \in Int
    BY <2>1 DEF Orderly, IsList
  <2> QED  BY <2>2, ResponsesAreLists DEF IInv, ServedInv, x
<1>4. Moves(t) /\ y.pc = "items" /\ y.resps = x.resps \o <<r>>
  BY <1>2, <1>3, AnswerIs
<1>5. Grows(x.resps, r, y.resps)
  BY <1>3, <1>4, AppendGrows
<1>6. r.item_idx + 1 = x.idx
  BY <1>1, <1>3
<1>7. Fair(x.req.items[r.item_idx + 1], r.metadata)
  BY <1>1, <1>6 DEF Item, Items
<1>8. y.req = x.req
  BY <1>4 DEF Moves
<1>9. Sourced(y)
  BY <1>3, <1>4, <1>5, <1>7, <1>8, ToldIsSourced
<1> QED  BY <1>4, <1>9, SourcedStep

(* The item is answered by a status alone. *)
LEMMA StatusServed ==
  ASSUME HashesTell, IInv, ServedInv, NEW t \in Tasks, fs' = fs \/ FilesRemain', NEW c, AnswerStatus(t, c)
  PROVE  ServedInv'
  BY NothingIsFair, AnswerServed DEF AnswerStatus

(* A body was read that is fair to tell of. *)
LEMMA FetchedServed ==
  ASSUME HashesTell, IInv, ServedInv, NEW t \in Tasks, fs' = fs, NEW doc, Fetched(t, doc),
         \A p \in DOMAIN InitialFiles : InitialFiles[p].hash = doc.hash => Servable(p) /\ ~IsWeb(Item(t).uri)
  PROVE  ServedInv'
<1>1. CASE doc.size > Item(t).max_size
  BY <1>1, StatusServed DEF Fetched
<1>2. CASE ~(doc.size > Item(t).max_size) /\ ~Acceptable(Item(t), doc.mime)
  BY <1>2, StatusServed DEF Fetched
<1>3. CASE ~(doc.size > Item(t).max_size) /\ Acceptable(Item(t), doc.mime)
  <2> DEFINE m == Metadata(doc, Item(t).uri)
             b == IF Item(t).op = 0 THEN <<Raw(t, doc)>> ELSE <<>>
  <2>1. Answer(t, <<Response(t, coap_status.CONTENT, m)>>, b)
    BY <1>3 DEF Fetched
  <2>2. m.hash = doc.hash
    BY DEF Metadata
  <2>3. Fair(Item(t), m)
    BY <2>2 DEF Fair
  <2> HIDE DEF m, b
  <2> QED  BY <2>1, <2>3, AnswerServed
<1> QED  BY <1>1, <1>2, <1>3

(* A server answers: with what is no file, or by sending elsewhere on the  *)
(* web.                                                                    *)
LEMMA FetchWebServed ==
  ASSUME HashesTell, IInv, ServedInv, NEW t \in Tasks, FetchWeb(t)
  PROVE  ServedInv'
<1>1. task[t].pc = "fetch" /\ IsWeb(task[t].uri) /\ fs' = fs
  BY DEF FetchWeb, At
<1>2. CASE ~is_safe_host(task[t].uri.name)
  BY <1>1, <1>2, StatusServed DEF FetchWeb
<1>3. CASE is_safe_host(task[t].uri.name)
  <2>1. PICK a \in Answers(task[t].uri) :
            \/ a.code = 2 /\ Fetched(t, Body(task[t].uri, a.doc))
            \/ a.code = 3 /\ Redirect(t, a.to)
            \/ a.code \notin {2, 3} /\ AnswerStatus(t, coap_status.NOT_FOUND)
    BY <1>3 DEF FetchWeb
  <2>2. CASE Fetched(t, Body(task[t].uri, a.doc))
    <3> DEFINE doc == Body(task[t].uri, a.doc)
    <3>1. \A p \in DOMAIN InitialFiles : InitialFiles[p].hash # doc.hash
      BY <2>1 DEF HashesTell
    <3> HIDE DEF doc
    <3>2. Fetched(t, doc)
      BY <2>2 DEF doc
    <3> QED  BY <1>1, <3>1, <3>2, FetchedServed
  <2>3. CASE Redirect(t, a.to)
    <3> DEFINE to == a.to
    <3> HIDE DEF to
    <3>1. Redirect(t, to)
      BY <2>3 DEF to
    <3>2. CASE task[t].hops >= MaxRedirects
      BY <1>1, <3>1, <3>2, StatusServed DEF Redirect
    <3>3. CASE ~(task[t].hops >= MaxRedirects) /\ (~IsWeb(to) \/ ~is_safe_host(to.name))
      BY <1>1, <3>1, <3>3, StatusServed DEF Redirect
    <3>4. CASE ~(task[t].hops >= MaxRedirects) /\ ~(~IsWeb(to) \/ ~is_safe_host(to.name))
      <4> DEFINE x == task[t]
                 h == x.hops + 1
                 y == [x EXCEPT !.uri = to, !.hops = h]
      <4>1. Shaped(x) /\ Sourced(x)
        BY DEF IInv, Shape, ServedInv
      <4>2. task' = [task EXCEPT ![t] = y] /\ IsWeb(to)
        BY <3>1, <3>4 DEF Redirect
      <4> HIDE DEF x, h
      <4>3. /\ Shaped(y) /\ y.req = x.req /\ y.cancel = x.cancel /\ y.idx = x.idx
            /\ y.pc = x.pc /\ y.resps = x.resps /\ y.uri = to
        BY <4>1 DEF Shaped, Fields
      <4> HIDE DEF y
      <4>4. Moves(t) /\ task'[t] = y
        BY <4>2, <4>3 DEF IInv, Shape, Moves, x
      <4>5. Sourced(y)
        BY <1>1, <4>1, <4>2, <4>3 DEF Sourced, x
      <4> QED  BY <1>1, <4>4, <4>5, SourcedStep
    <3> QED  BY <3>2, <3>3, <3>4
  <2>4. CASE AnswerStatus(t, coap_status.NOT_FOUND)
    BY <1>1, <2>4, StatusServed
  <2> QED  BY <2>1, <2>2, <2>3, <2>4
<1> QED  BY <1>2, <1>3

(* The content of a file that may be served tells of no other kind of file. *)
LEMMA ServableIsFair ==
  ASSUME HashesTell, ServedInv, NEW path \in DOMAIN fs, Servable(path)
  PROVE  \A p \in DOMAIN InitialFiles : InitialFiles[p].hash = fs[path].hash => Servable(p)
<1>1. path \in DOMAIN InitialFiles /\ fs[path] = InitialFiles[path]
  BY DEF ServedInv, FilesRemain
<1> QED  BY <1>1 DEF HashesTell

(* A file is fetched: only an allowed or a mapped one, and only for an     *)
(* item that named no web resource.                                        *)
LEMMA FetchLocalServed ==
  ASSUME HashesTell, IInv, ServedInv, NEW t \in Tasks, FetchLocal(t)
  PROVE  ServedInv'
<1> DEFINE uri == task[t].uri
<1>1. task[t].pc = "fetch" /\ ~IsWeb(uri) /\ fs' = fs
  BY DEF FetchLocal, At
<1>2. ~IsWeb(Item(t).uri)
  BY <1>1 DEF ServedInv, Sourced, Item, Items
<1>3. \/ \E c : AnswerStatus(t, c)
      \/ \E path \in DOMAIN fs : Servable(path) /\ Fetched(t, fs[path])
  <2>1. CASE uri.scheme = "file"
    <3>1. CASE check_file_path(uri.path)
      <4>1. Servable(Canonical(uri.path))
        BY <3>1 DEF check_file_path, Servable
      <4>2. \/ Canonical(uri.path) \in DOMAIN fs /\ Fetched(t, fs[Canonical(uri.path)])
            \/ AnswerStatus(t, coap_status.NOT_FOUND)
        BY <2>1, <3>1 DEF FetchLocal
      <4> QED  BY <4>1, <4>2
    <3>2. CASE ~check_file_path(uri.path)
      BY <2>1, <3>2 DEF FetchLocal
    <3> QED  BY <3>1, <3>2
  <2>2. CASE uri.scheme # "file"
    <3>1. CASE uri.name \in DOMAIN Mappings
      <4>1. Servable(Canonical(Mappings[uri.name]))
        BY <3>1 DEF Servable
      <4>2. \/ Canonical(Mappings[uri.name]) \in DOMAIN fs /\ Fetched(t, fs[Canonical(Mappings[uri.name])])
            \/ AnswerStatus(t, coap_status.NOT_FOUND)
        BY <2>2, <3>1 DEF FetchLocal
      <4> QED  BY <4>1, <4>2
    <3>2. CASE uri.name \notin DOMAIN Mappings
      BY <2>2, <3>2 DEF FetchLocal
    <3> QED  BY <3>1, <3>2
  <2> QED  BY <2>1, <2>2
<1>4. CASE \E c : AnswerStatus(t, c)
  BY <1>1, <1>4, StatusServed
<1>5. CASE \E path \in DOMAIN fs : Servable(path) /\ Fetched(t, fs[path])
  <2>1. PICK path \in DOMAIN fs : Servable(path) /\ Fetched(t, fs[path])
    BY <1>5
  <2>2. \A p \in DOMAIN InitialFiles : InitialFiles[p].hash = fs[path].hash => Servable(p)
    BY <2>1, ServableIsFair
  <2> QED  BY <1>1, <1>2, <2>1, <2>2, FetchedServed
<1> QED  BY <1>3, <1>4, <1>5

(* A file disappears before it is read. *)
LEMMA FetchVanishesServed ==
  ASSUME HashesTell, IInv, ServedInv, NEW t \in Tasks, FetchVanishes(t)
  PROVE  ServedInv'
<1>1. FilesRemain'
  BY DEF FetchVanishes, ServedInv, FilesRemain, Without
<1> QED  BY <1>1, StatusServed DEF FetchVanishes

(* What a search finds may be served: a mapped path, or a file under an    *)
(* allowed directory, which is no link to elsewhere.                       *)
LEMMA FoundIsServable ==
  ASSUME ServedInv, NEW query, NEW r \in perform_search(query)
  PROVE  Servable(Canonical(r.path))
<1>1. CASE \E name \in DOMAIN Mappings : r.path = Mappings[name]
  BY <1>1 DEF Servable
<1>2. CASE r.path \in DOMAIN fs /\ InSearch(r.path)
  <2>1. r.path \notin DOMAIN Links
    BY <1>2, LinksAssumption DEF ServedInv, FilesRemain
  <2>2. Canonical(r.path) = r.path
    BY <2>1 DEF Canonical
  <2>3. PICK dir \in AllowedDirs : IsStrictPrefix(dir, r.path)
    BY <1>2 DEF InSearch
  <2>4. IsPrefix(dir, r.path)
    BY <2>3 DEF IsStrictPrefix
  <2> QED  BY <2>2, <2>4 DEF Servable
<1>3. \/ \E name \in DOMAIN Mappings : r.path = Mappings[name]
      \/ r.path \in DOMAIN fs /\ InSearch(r.path)
  <2> DEFINE named(n) == [uri |-> Uri("text", n, <<>>), path |-> Mappings[n]]
             listed(p) == [uri |-> Uri("file", "", p), path |-> p]
             names == {n \in DOMAIN Mappings :
                         <<query, n>> \in Matches \/ <<query, Last(Mappings[n])>> \in Matches}
             files == {p \in DOMAIN fs : InSearch(p) /\ <<query, Last(p)>> \in Matches}
  <2>1. \/ \E n \in DOMAIN Mappings : r = named(n)
        \/ \E p \in DOMAIN fs : InSearch(p) /\ r = listed(p)
    <3>1. r \in {named(n) : n \in names} \cup {listed(p) : p \in files}
      BY Zenon DEF perform_search
    <3>2. names \subseteq DOMAIN Mappings /\ \A p \in files : p \in DOMAIN fs /\ InSearch(p)
      OBVIOUS
    <3> HIDE DEF named, listed, names, files
    <3> QED  BY <3>1, <3>2
  <2>2. \A n : named(n).path = Mappings[n]
    OBVIOUS
  <2>3. \A p : listed(p).path = p
    OBVIOUS
  <2> HIDE DEF named, listed
  <2> QED  BY <2>1, <2>2, <2>3
<1> QED  BY <1>1, <1>2, <1>3

(* A search: what it found is to be listed, or read. *)
LEMMA SearchServed ==
  ASSUME HashesTell, IInv, ServedInv, NEW t \in Tasks, Search(t)
  PROVE  ServedInv'
<1> DEFINE query == Item(t).uri.name
           results == perform_search(query)
           many == Item(t).op = 4 \/ Cardinality(results) > InlineLimit
<1>1. task[t].pc = "search" /\ fs' = fs
  BY DEF Search, At
<1>2. IF results = {} THEN AnswerStatus(t, coap_status.NOT_FOUND)
      ELSE task' = [task EXCEPT ![t].left = results, ![t].pc = IF many THEN "index" ELSE "inline"]
  BY DEF Search
<1>3. CASE results = {}
  BY <1>1, <1>2, <1>3, StatusServed
<1>4. CASE results # {}
  <2> DEFINE x == task[t]
             p == IF many THEN "index" ELSE "inline"
             y == [x EXCEPT !.left = results, !.pc = p]
  <2>1. Shaped(x) /\ Sourced(x)
    BY DEF IInv, Shape, ServedInv
  <2>2. p \in {"index", "inline"}
    OBVIOUS
  <2>3. task' = [task EXCEPT ![t] = y]
    BY <1>2, <1>4
  <2>4. \A r \in results : Servable(Canonical(r.path))
    BY FoundIsServable
  <2> HIDE DEF x, p, results
  <2>5. /\ Shaped(y) /\ y.req = x.req /\ y.cancel = x.cancel /\ y.idx = x.idx
        /\ y.pc = p /\ y.resps = x.resps /\ y.left = results
    BY <2>1 DEF Shaped, Fields
  <2> HIDE DEF y
  <2>6. Moves(t) /\ task'[t] = y
    BY <2>3, <2>5 DEF IInv, Shape, Moves, x
  <2>7. Sourced(y)
    BY <2>1, <2>2, <2>4, <2>5 DEF Sourced
  <2> QED  BY <1>1, <2>6, <2>7, SourcedStep
<1> QED  BY <1>3, <1>4

(* An index document is no file. *)
LEMMA CompileIndexServed ==
  ASSUME HashesTell, IInv, ServedInv, NEW t \in Tasks, CompileIndex(t)
  PROVE  ServedInv'
<1> DEFINE doc == IndexDocument(task[t].left)
           m == Metadata(doc, Item(t).uri)
           b == <<Raw(t, doc)>>
<1>1. fs' = fs /\ Answer(t, <<Response(t, coap_status.CONTENT, m)>>, b)
  BY DEF CompileIndex
<1>2. \E i, j : doc.hash = <<0, i, j>>
  BY DEF IndexDocument
<1>3. m.hash = doc.hash
  BY DEF Metadata
<1> HIDE DEF doc
<1>4. Fair(Item(t), m)
  BY <1>2, <1>3 DEF Fair, HashesTell
<1> HIDE DEF m, b
<1> QED  BY <1>1, <1>4, AnswerServed

(* One of the files found is read, or passed over. *)
LEMMA SearchOneServed ==
  ASSUME HashesTell, IInv, ServedInv, NEW t \in Tasks, NEW result \in task[t].left, SearchOne(t, result)
  PROVE  ServedInv'
<1> DEFINE x == task[t]
           path == Canonical(result.path)
           left == x.left \ {result}
           large == Response(t, coap_status.REQUEST_ENTITY_TOO_LARGE, NoMetadata)
           found == Response(t, coap_status.CONTENT, Metadata(fs[path], result.uri))
           raws == IF AlreadyOwned(Item(t), fs[path].hash) THEN x.raws ELSE Append(x.raws, Raw(t, fs[path]))
           y0 == [x EXCEPT !.left = left]
           y1 == [x EXCEPT !.left = left, !.resps = Append(x.resps, large)]
           y2 == [x EXCEPT !.left = left, !.resps = Append(x.resps, found), !.raws = raws]
<1>1. Shaped(x) /\ Sourced(x) /\ x.pc = "inline" /\ fs' = fs /\ IsList(x.resps)
  BY ResponsesAreLists DEF IInv, Shape, ServedInv, SearchOne, At
<1>2. Orderly(x) /\ Staged(x)
  BY DEF IInv, Ordered
<1>3. x.idx \in Int /\ x.req.items[x.idx].op = 2 /\ left \subseteq x.left
  <2> HIDE DEF x
  <2> QED  BY <1>1, <1>2 DEF Orderly, Staged, IsList
<1>4. large.item_idx = x.idx - 1 /\ found.item_idx = x.idx - 1
      /\ large.metadata = NoMetadata /\ found.metadata.hash = fs[path].hash
  BY DEF Response, Metadata
<1>5. \/ task' = [task EXCEPT ![t].left = left]
      \/ task' = [[task EXCEPT ![t].left = left] EXCEPT ![t].resps = Append(@, large)]
      \/ /\ path \in DOMAIN fs
         /\ task' = [[task EXCEPT ![t].left = left] EXCEPT ![t].resps = Append(@, found),
                       ![t].raws = IF AlreadyOwned(Item(t), fs[path].hash) THEN @
                                   ELSE Append(@, Raw(t, fs[path]))]
  BY DEF SearchOne
<1>6. path \in DOMAIN fs => Servable(path)
  BY <1>1 DEF Sourced, ServedInv, FilesRemain
<1>7. (x.idx - 1) + 1 = x.idx
  BY <1>3
<1>8. Fair(x.req.items[large.item_idx + 1], large.metadata)
  BY <1>4, NothingIsFair
<1>9. path \in DOMAIN fs => Fair(x.req.items[found.item_idx + 1], found.metadata)
  <2> SUFFICES ASSUME path \in DOMAIN fs PROVE Fair(x.req.items[found.item_idx + 1], found.metadata)
    OBVIOUS
  <2>1. \A p \in DOMAIN InitialFiles : InitialFiles[p].hash = fs[path].hash => Servable(p)
    BY <1>6, ServableIsFair
  <2> HIDE DEF x, found, path
  <2> QED  BY <1>3, <1>4, <1>7, <2>1 DEF Fair
<1> HIDE DEF large, found, left, path
<1>10. \/ task' = [task EXCEPT ![t] = y0]
       \/ task' = [task EXCEPT ![t] = y1]
       \/ path \in DOMAIN fs /\ task' = [task EXCEPT ![t] = y2]
  <2>1. CASE task' = [task EXCEPT ![t].left = left]
    BY <2>1
  <2>2. CASE task' = [[task EXCEPT ![t].left = left] EXCEPT ![t].resps = Append(@, large)]
    BY <1>1, <2>2 DEF IInv, Shape, Shaped, Fields
  <2>3. CASE /\ path \in DOMAIN fs
             /\ task' = [[task EXCEPT ![t].left = left] EXCEPT ![t].resps = Append(@, found),
                           ![t].raws = IF AlreadyOwned(Item(t), fs[path].hash) THEN @
                                       ELSE Append(@, Raw(t, fs[path]))]
    BY <1>1, <2>3 DEF IInv, Shape, Shaped, Fields
  <2> QED  BY <1>5, <2>1, <2>2, <2>3
<1>11. Grows(x.resps, large, Append(x.resps, large)) /\ Grows(x.resps, found, Append(x.resps, found))
  BY <1>1, AppendGrows
<1> DEFINE A == Append(x.resps, large)
           B == Append(x.resps, found)
<1> HIDE DEF x, raws, A, B
<1>12. ASSUME NEW c, NEW z, z = [x EXCEPT !.left = left, !.resps = c]
                 \/ z = [x EXCEPT !.left = left, !.resps = c, !.raws = raws]
       PROVE  /\ Shaped(z) /\ z.req = x.req /\ z.cancel = x.cancel /\ z.pc = x.pc
              /\ z.left = left /\ z.resps = c
  BY <1>1, <1>12 DEF Shaped, Fields
<1>13. CASE task' = [task EXCEPT ![t] = y0]
  <2>1. Shaped(y0) /\ y0.req = x.req /\ y0.cancel = x.cancel /\ y0.pc = x.pc /\ y0.left = left /\ y0.resps = x.resps
    BY <1>1 DEF Shaped, Fields
  <2> HIDE DEF y0
  <2>2. Moves(t) /\ task'[t] = y0
    BY <1>13, <2>1 DEF IInv, Shape, Moves, x
  <2>3. Sourced(y0)
    BY <1>1, <1>3, <2>1 DEF Sourced
  <2> QED  BY <1>1, <2>2, <2>3, SourcedStep
<1>14. CASE task' = [task EXCEPT ![t] = y1]
  <2>0. y1 = [x EXCEPT !.left = left, !.resps = A]
    BY DEF A
  <2> HIDE DEF y1
  <2>1. Shaped(y1) /\ y1.req = x.req /\ y1.cancel = x.cancel /\ y1.pc = x.pc /\ y1.left = left /\ y1.resps = A
    BY <1>12, <2>0, Zenon
  <2>2. Moves(t) /\ task'[t] = y1
    BY <1>14, <2>1 DEF IInv, Shape, Moves, x
  <2>3. Sourced(y1)
    BY <1>1, <1>3, <1>8, <1>11, <2>1, ToldIsSourced DEF A
  <2> QED  BY <1>1, <2>2, <2>3, SourcedStep
<1>15. CASE path \in DOMAIN fs /\ task' = [task EXCEPT ![t] = y2]
  <2>0. y2 = [x EXCEPT !.left = left, !.resps = B, !.raws = raws]
    BY DEF B
  <2> HIDE DEF y2
  <2>1. Shaped(y2) /\ y2.req = x.req /\ y2.cancel = x.cancel /\ y2.pc = x.pc /\ y2.left = left /\ y2.resps = B
    BY <1>12, <2>0, Zenon
  <2>2. Moves(t) /\ task'[t] = y2
    BY <1>15, <2>1 DEF IInv, Shape, Moves, x
  <2>3. Sourced(y2)
    BY <1>1, <1>3, <1>9, <1>11, <1>15, <2>1, ToldIsSourced DEF B
  <2> QED  BY <1>1, <2>2, <2>3, SourcedStep
<1> QED  BY <1>10, <1>13, <1>14, <1>15

(* A SEARCH ends, and tells of no more files. *)
LEMMA SearchEndsServed ==
  ASSUME IInv, ServedInv, NEW t \in Tasks, SearchEnds(t)
  PROVE  ServedInv'
<1>1. Shape /\ IsList(task[t].resps) /\ Sourced(task[t]) /\ fs' = fs
  BY ResponsesAreLists DEF IInv, ServedInv, SearchEnds
<1>2. GoesOn(t) /\ task'[t].pc = "items"
  BY <1>1, SearchEndsIs
<1>3. Moves(t) /\ task'[t].resps = task[t].resps /\ task'[t].req = task[t].req
  BY <1>2 DEF GoesOn, Resolves, Moves
<1>4. Sourced(task'[t])
  BY <1>1, <1>2, <1>3, QuietIsSourced
<1> QED  BY <1>1, <1>3, <1>4, SourcedStep

(* An item is started: a fetch of what it names, a search, or an answer    *)
(* without metadata.                                                       *)
LEMMA StartItemServed ==
  ASSUME HashesTell, IInv, ServedInv, NEW t \in Tasks, StartItem(t)
  PROVE  ServedInv'
<1> DEFINE x == task[t]
           y == task'[t]
<1>1. Shape /\ IsList(x.resps) /\ Handles /\ Sourced(x) /\ fs' = fs
  BY ResponsesAreLists DEF IInv, ServedInv, StartItem
<1>2. \A id \in DOMAIN active : active[id] \in Tasks
  BY <1>1 DEF Handles
<1>3. \/ Begins(t)
      \/ Moves(t) /\ AtOnce(t)
      \/ Alone(t) /\ AtOnce(t) /\ y.req = x.req
  BY <1>1, <1>2, StartItemIs DEF Resolves
<1>4. CASE Begins(t)
  <2>1. /\ Moves(t) /\ y.req = x.req /\ y.idx = x.idx + 1 /\ y.resps = x.resps
        /\ y.pc = "search" \/ (y.pc = "fetch" /\ y.uri = x.req.items[x.idx + 1].uri)
    BY <1>4 DEF Begins, Resolves, Moves, Items
  <2> HIDE DEF x, y
  <2>2. Sourced(y)
    BY <1>1, <2>1 DEF Sourced
  <2> QED  BY <1>1, <2>1, <2>2, SourcedStep DEF y
<1>5. CASE (Moves(t) \/ Alone(t)) /\ AtOnce(t) /\ y.req = x.req
  <2>1. PICK r : r.item_idx = x.idx /\ r.metadata = NoMetadata /\ Grows(x.resps, r, y.resps)
    BY <1>5 DEF AtOnce
  <2>2. y.pc = "items"
    BY <1>5 DEF AtOnce
  <2>3. Sourced(y)
    BY <1>1, <1>5, <2>1, <2>2, NothingIsFair, ToldIsSourced
  <2> QED  BY <1>1, <1>5, <2>3, SourcedStep
<1> QED  BY <1>3, <1>4, <1>5 DEF Moves

(* The steps in which a task tells nothing new. *)
LEMMA QuietServed ==
  ASSUME IInv, ServedInv, NEW t \in Tasks,
         on_deliver(t) \/ StartRequest(t) \/ FinishItems(t) \/ Send(t) \/ SendFails(t)
  PROVE  ServedInv'
<1> DEFINE x == task[t]
           y == task'[t]
<1>1. Shape /\ Sourced(x) /\ Staged(x) /\ fs' = fs
  BY DEF IInv, Ordered, ServedInv, on_deliver, StartRequest, FinishItems, Send, SendFails
<1>2. /\ Moves(t) \/ Alone(t)
      /\ y.pc \notin {"fetch", "inline"}
      /\ y.resps = <<>> \/ (y.resps = x.resps /\ y.req = x.req)
  <2>1. CASE on_deliver(t)
    BY <1>1, <2>1, DeliverIs DEF Moves
  <2>2. CASE StartRequest(t)
    <3>1. /\ x.pc = "spawned" /\ y.resps = x.resps
          /\ (Moves(t) /\ y.pc = "done") \/ (Alone(t) /\ y.pc = "items")
      BY <1>1, <2>2, StartRequestIs DEF Registers
    <3>2. x.resps = <<>>
      BY <1>1, <3>1 DEF Staged
    <3> QED  BY <3>1, <3>2
  <2>3. CASE FinishItems(t)
    BY <1>1, <2>3, FinishItemsIs DEF Finishes
  <2>4. CASE Send(t) \/ SendFails(t)
    BY <1>1, <2>4, SendIs DEF Moves
  <2> QED  BY <2>1, <2>2, <2>3, <2>4
<1>3. Sourced(y)
  BY <1>1, <1>2, QuietIsSourced
<1> QED  BY <1>1, <1>2, <1>3, SourcedStep

(* Idle tasks have told of nothing. *)
LEMMA IdleIsSourced ==
  Sourced(Idle)
<1>1. Idle.pc = "new" /\ Len(Idle.resps) = 0
  BY IdleIs, EmptySeq
<1> QED  BY <1>1 DEF Sourced

(* Every step keeps it. *)
LEMMA ServedNext ==
  ASSUME HashesTell, IInv, ServedInv, [Next]_vars
  PROVE  ServedInv'
<1>1. ASSUME NEW t \in Tasks, on_deliver(t) PROVE ServedInv'
  BY <1>1, QuietServed
<1>2. ASSUME NEW t \in Tasks, FetchWeb(t) \/ FetchVanishes(t) PROVE ServedInv'
  BY <1>2, FetchWebServed, FetchVanishesServed
<1>3. ASSUME NEW t \in Tasks, TaskStep(t) PROVE ServedInv'
  <2>1. CASE StartRequest(t) \/ FinishItems(t) \/ Send(t) \/ SendFails(t)
    BY <2>1, QuietServed
  <2>2. CASE StartItem(t)
    BY <2>2, StartItemServed
  <2>3. CASE FetchLocal(t)
    BY <2>3, FetchLocalServed
  <2>4. CASE FetchCancelled(t)
    BY <2>4, StatusServed DEF FetchCancelled
  <2>5. CASE Search(t)
    BY <2>5, SearchServed
  <2>6. CASE CompileIndex(t)
    BY <2>6, CompileIndexServed
  <2>7. CASE SearchEnds(t)
    BY <2>7, SearchEndsServed
  <2>8. CASE \E result \in task[t].left : SearchOne(t, result)
    BY <2>8, SearchOneServed
  <2> QED  BY <1>3, <2>1, <2>2, <2>3, <2>4, <2>5, <2>6, <2>7, <2>8 DEF TaskStep
<1>4. CASE on_unregister
  <2>1. task' = [t \in Tasks |-> Idle] /\ fs' = fs
    BY <1>4 DEF on_unregister
  <2> QED  BY <2>1, IdleIsSourced DEF ServedInv, FilesRemain
<1>5. CASE FileRemoved
  <2>1. PICK path : fs' = Without(fs, path)
    BY <1>5 DEF FileRemoved
  <2>2. FilesRemain'
    BY <2>1 DEF ServedInv, FilesRemain, Without
  <2> QED  BY <1>5, <2>2 DEF ServedInv, FileRemoved
<1>6. CASE UNCHANGED vars
  BY <1>6 DEF ServedInv, FilesRemain, vars
<1> QED  BY <1>1, <1>2, <1>3, <1>4, <1>5, <1>6 DEF Next

(* The metadata of a response come back from the response bundle. *)
LEMMA DecodedMetadata ==
  ASSUME NEW id, NEW s, IsList(s)
  PROVE  LET d == DecodeResponse(EncodeResponse(id, s)).items IN
         \A i \in 1 .. Len(s) : d[i].metadata = s[i].metadata
<1> DEFINE w == EncodeResponse(id, s)
           d == DecodeResponse(w).items
<1>1. w.items = [i \in DOMAIN s |-> EncodeItemResponse(s[i])]
  BY DEF EncodeResponse
<1>2. DOMAIN s = 1 .. Len(s)
  BY DEF IsList
<1>3. d = [i \in DOMAIN w.items |-> DecodeItemResponse(w.items[i])]
  BY DEF DecodeResponse
<1> HIDE DEF w, d
<1>4. ASSUME NEW r PROVE DecodeItemResponse(EncodeItemResponse(r)).metadata = r.metadata
  <2> DEFINE e == EncodeItemResponse(r)
  <2>1. IF r.metadata # NoMetadata THEN "metadata" \in DOMAIN e /\ e["metadata"] = r["metadata"]
                                   ELSE "metadata" \notin DOMAIN e
    BY DEF EncodeItemResponse
  <2> HIDE DEF e
  <2>2. Field(e, "metadata", NoMetadata) = r.metadata
    BY <2>1 DEF Field
  <2>3. DecodeItemResponse(e).metadata = Field(e, "metadata", NoMetadata)
    BY DEF DecodeItemResponse
  <2> QED  BY <2>2, <2>3 DEF e
<1>5. \A i \in 1 .. Len(s) : d[i] = DecodeItemResponse(EncodeItemResponse(s[i]))
  BY <1>1, <1>2, <1>3
<1> QED  BY <1>4, <1>5 DEF d, w

(* fetch_local_item, check_file_path and perform_search: the content of a  *)
(* file is told of only if the file lies in an allowed directory or is     *)
(* mapped, whatever links, redirects and searches lead to it, and never in *)
(* answer to a GET or CHECK of a web resource.                             *)
THEOREM OnlyServedLeave ==
  ASSUME HashesTell
  PROVE  Spec => []OnlyServedFiles
<1>1. Init => ServedInv
  BY IdleIsSourced DEF Init, ServedInv, FilesRemain
<1>2. IInv /\ ServedInv /\ [Next]_vars => ServedInv'
  BY ServedNext
<1>3. IInv /\ ServedInv => OnlyServedFiles
  <2> SUFFICES ASSUME IInv, ServedInv, NEW t \in Tasks, task[t].out # <<>>,
                      NEW i \in DOMAIN Responses(t), NEW p \in DOMAIN InitialFiles,
                      InitialFiles[p].hash = Responses(t)[i].metadata.hash
               PROVE  /\ \/ \E dir \in AllowedDirs : IsPrefix(dir, p)
                         \/ \E name \in DOMAIN Mappings : Canonical(Mappings[name]) = p
                      /\ Op(t, Responses(t)[i]) \in {0, 1}
                           => ~IsWeb(Items(t)[Responses(t)[i].item_idx + 1].uri)
    BY DEF OnlyServedFiles
  <2> DEFINE x == task[t]
             s == x.resps
             resps == Responses(t)
  <2>1. Staged(x) /\ IsList(s) /\ Sourced(x) /\ x.pc = "send"
    BY ResponsesAreLists DEF IInv, Ordered, Staged, ServedInv
  <2>2. resps = DecodeResponse(EncodeResponse(x.req.req_id, s)).items
    BY <2>1 DEF Responses, Staged
  <2>3. /\ DOMAIN resps = 1 .. Len(s)
        /\ \A k \in 1 .. Len(s) : resps[k].item_idx = s[k].item_idx /\ resps[k].metadata = s[k].metadata
    <3> HIDE DEF s
    <3> QED  BY <2>1, <2>2, DecodedResponses, DecodedMetadata
  <2>4. i \in 1 .. Len(s) /\ InitialFiles[p].hash = s[i].metadata.hash
    BY <2>3
  <2>5. Fair(x.req.items[s[i].item_idx + 1], s[i].metadata)
    BY <2>1, <2>4 DEF Sourced
  <2>6. Op(t, resps[i]) = x.req.items[s[i].item_idx + 1].op /\ Items(t) = x.req.items
    BY <2>3, <2>4 DEF Op, Items
  <2>7. Servable(p) /\ (x.req.items[s[i].item_idx + 1].op \in {0, 1}
                          => ~IsWeb(x.req.items[s[i].item_idx + 1].uri))
    BY <2>4, <2>5 DEF Fair
  <2>8. Items(t)[resps[i].item_idx + 1] = x.req.items[s[i].item_idx + 1]
    BY <2>3, <2>4, <2>6
  <2> HIDE DEF resps
  <2> QED  BY <2>6, <2>7, <2>8 DEF Servable, resps
<1> QED  BY <1>1, <1>2, <1>3, Invariance, PTL DEF Spec

-----------------------------------------------------------------------------
(* What is announced, and what is sent.                                    *)

(* RawIsAnnounced compares sizes with a limit, so these are numbers; and   *)
(* it takes a 2.05 response whose hash the requester owns for one without  *)
(* content, which an index document always has: nobody names the hash of   *)
(* an index, or a prefix of it, as owned.                                  *)
Plain(items) ==
  \A k \in 1 .. Len(items) :
    /\ items[k].max_size \in Int
    /\ \A h \in items[k].have : \A n, m : ~IsPrefix(h, <<0, n, m>>)

PlainRequests ==
  /\ \A t \in Tasks : Plain(DecodeRequest(Bundle[t].wire).items)
  /\ \A p \in DOMAIN InitialFiles : InitialFiles[p].size \in Int
  /\ \A uri : \A a \in Answers(uri) : Body(uri, a.doc).size \in Int

(* A response which a raw bundle has to follow. *)
Due(item, r) ==
  /\ r.status = coap_status.CONTENT
  /\ item.op # 1
  /\ item.op = 2 => \A h \in item.have : ~IsPrefix(h, r.metadata.hash)

(* What a GET or CHECK announces is what was asked for. *)
Fits(item, r) ==
  r.status = coap_status.CONTENT /\ item.op \in {0, 1} =>
    r.metadata.size <= item.max_size /\ Acceptable(item, r.metadata.mime)

DueOf(items, s, h) ==
  {i \in 1 .. Len(s) : Due(items[s[i].item_idx + 1], s[i]) /\ s[i].metadata.hash = h}

RawsOf(w, h) == {k \in 1 .. Len(w) : w[k].hash = h}

(* There are as many raw bundles with a hash as responses that need one. *)
Matched(items, s, w) == \A h : Cardinality(RawsOf(w, h)) = Cardinality(DueOf(items, s, h))

Announced(x) ==
  /\ IsList(x.raws) /\ Plain(x.req.items)
  /\ x.pc \in {"new", "spawned"} => x.raws = <<>>
  /\ x.pc = "fetch" => x.req.items[x.idx].op \in {0, 1}
  /\ x.pc = "index" => x.req.items[x.idx].op \in {2, 4}
  /\ Matched(x.req.items, x.resps, x.raws)
  /\ \A i \in 1 .. Len(x.resps) : Fits(x.req.items[x.resps[i].item_idx + 1], x.resps[i])

AnnouncedInv == FilesRemain /\ \A t \in Tasks : Announced(task[t])

(* One more element after the numbers up to n. *)
LEMMA OneMore ==
  ASSUME NEW n \in Nat, NEW S \in SUBSET (1 .. n)
  PROVE  Cardinality(S) \in Nat /\ Cardinality(S \cup {n + 1}) = Cardinality(S) + 1
<1>1. IsFiniteSet(S)
  <2>1. IsFiniteSet(1 .. n)
    BY FS_Interval
  <2> QED  BY <2>1, FS_Subset
<1>2. n + 1 \notin S
  OBVIOUS
<1> QED  BY <1>1, <1>2, FS_CardinalityType, FS_AddElement

(* A response is added: it needs a raw bundle, or it does not. *)
LEMMA DueGrows ==
  ASSUME NEW items, NEW s, IsList(s), NEW r, NEW z, Grows(s, r, z), NEW h
  PROVE  DueOf(items, z, h) = IF Due(items[r.item_idx + 1], r) /\ r.metadata.hash = h
                              THEN DueOf(items, s, h) \cup {Len(s) + 1} ELSE DueOf(items, s, h)
<1> DEFINE n == Len(s)
           P(q) == Due(items[q.item_idx + 1], q) /\ q.metadata.hash = h
<1>1. n \in Nat /\ Len(z) = n + 1 /\ (\A i \in 1 .. n : z[i] = s[i]) /\ z[n + 1] = r
  BY DEF IsList, Grows
<1>2. DueOf(items, z, h) = {i \in 1 .. Len(z) : P(z[i])} /\ DueOf(items, s, h) = {i \in 1 .. n : P(s[i])}
  BY DEF DueOf
<1>3. P(r) <=> Due(items[r.item_idx + 1], r) /\ r.metadata.hash = h
  OBVIOUS
<1> HIDE DEF n, P
<1>4. 1 .. n + 1 = (1 .. n) \cup {n + 1} /\ n + 1 \notin 1 .. n
  BY <1>1
<1>5. {i \in 1 .. Len(z) : P(z[i])} = IF P(r) THEN {i \in 1 .. n : P(s[i])} \cup {n + 1} ELSE {i \in 1 .. n : P(s[i])}
  BY <1>1, <1>4
<1> QED  BY <1>2, <1>3, <1>5 DEF n

(* A raw bundle is added. *)
LEMMA RawsGrow ==
  ASSUME NEW w, IsList(w), NEW q, NEW v, Grows(w, q, v), NEW h
  PROVE  RawsOf(v, h) = IF q.hash = h THEN RawsOf(w, h) \cup {Len(w) + 1} ELSE RawsOf(w, h)
<1> DEFINE n == Len(w)
<1>1. n \in Nat /\ Len(v) = n + 1 /\ (\A i \in 1 .. n : v[i] = w[i]) /\ v[n + 1] = q
  BY DEF IsList, Grows
<1>2. RawsOf(v, h) = {i \in 1 .. Len(v) : v[i].hash = h} /\ RawsOf(w, h) = {i \in 1 .. n : w[i].hash = h}
  BY DEF RawsOf
<1> HIDE DEF n
<1>3. 1 .. n + 1 = (1 .. n) \cup {n + 1} /\ n + 1 \notin 1 .. n
  BY <1>1
<1>4. {i \in 1 .. Len(v) : v[i].hash = h}
        = IF q.hash = h THEN {i \in 1 .. n : w[i].hash = h} \cup {n + 1} ELSE {i \in 1 .. n : w[i].hash = h}
  BY <1>1, <1>3
<1> QED  BY <1>2, <1>4 DEF n

(* A response without content, or one with its raw bundle. *)
LEMMA MatchedGrows ==
  ASSUME NEW items, NEW s, IsList(s), NEW w, IsList(w), Matched(items, s, w),
         NEW r, NEW z, Grows(s, r, z), NEW v,
         \/ ~Due(items[r.item_idx + 1], r) /\ v = w
         \/ Due(items[r.item_idx + 1], r) /\ \E q : q.hash = r.metadata.hash /\ Grows(w, q, v)
  PROVE  Matched(items, z, v)
<1> SUFFICES ASSUME NEW h PROVE Cardinality(RawsOf(v, h)) = Cardinality(DueOf(items, z, h))
  BY DEF Matched
<1>1. Cardinality(RawsOf(w, h)) = Cardinality(DueOf(items, s, h))
  BY DEF Matched
<1>2. CASE ~Due(items[r.item_idx + 1], r) /\ v = w
  BY <1>1, <1>2, DueGrows
<1>3. CASE Due(items[r.item_idx + 1], r) /\ \E q : q.hash = r.metadata.hash /\ Grows(w, q, v)
  <2>1. PICK q : q.hash = r.metadata.hash /\ Grows(w, q, v)
    BY <1>3
  <2>2. CASE r.metadata.hash = h
    <3>1. RawsOf(v, h) = RawsOf(w, h) \cup {Len(w) + 1} /\ DueOf(items, z, h) = DueOf(items, s, h) \cup {Len(s) + 1}
      BY <1>3, <2>1, <2>2, DueGrows, RawsGrow
    <3>2. Len(w) \in Nat /\ Len(s) \in Nat /\ RawsOf(w, h) \in SUBSET (1 .. Len(w)) /\ DueOf(items, s, h) \in SUBSET (1 .. Len(s))
      BY DEF IsList, RawsOf, DueOf
    <3>3. Cardinality(RawsOf(w, h) \cup {Len(w) + 1}) = Cardinality(RawsOf(w, h)) + 1
      BY <3>2, OneMore
    <3>4. Cardinality(DueOf(items, s, h) \cup {Len(s) + 1}) = Cardinality(DueOf(items, s, h)) + 1
      BY <3>2, OneMore
    <3> QED  BY <1>1, <3>1, <3>3, <3>4
  <2>3. CASE r.metadata.hash # h
    <3>1. RawsOf(v, h) = RawsOf(w, h) /\ DueOf(items, z, h) = DueOf(items, s, h)
      BY <2>1, <2>3, DueGrows, RawsGrow
    <3> QED  BY <1>1, <3>1
  <2> QED  BY <2>2, <2>3
<1> QED  BY <1>2, <1>3

(* A task in which nothing has changed that matters here. *)
LEMMA StillAnnounced ==
  ASSUME NEW x, NEW y, Announced(x), y.pc = x.pc, y.req = x.req, y.idx = x.idx,
         y.resps = x.resps, y.raws = x.raws
  PROVE  Announced(y)
  BY DEF Announced

(* A task that neither fetches nor compiles an index, with what it had, or *)
(* with nothing.                                                           *)
LEMMA QuietIsAnnounced ==
  ASSUME NEW x, NEW y, y.pc \notin {"fetch", "index"},
         \/ /\ Announced(x) /\ (y.pc \in {"new", "spawned"} => x.pc = "new")
            /\ y.resps = x.resps /\ y.raws = x.raws /\ y.req = x.req
         \/ y.resps = <<>> /\ y.raws = <<>> /\ Plain(y.req.items)
  PROVE  Announced(y)
<1>1. CASE /\ Announced(x) /\ (y.pc \in {"new", "spawned"} => x.pc = "new")
           /\ y.resps = x.resps /\ y.raws = x.raws /\ y.req = x.req
  BY <1>1 DEF Announced
<1>2. CASE y.resps = <<>> /\ y.raws = <<>> /\ Plain(y.req.items)
  <2>1. IsList(y.raws) /\ Len(y.raws) = 0 /\ Len(y.resps) = 0
    BY <1>2, SeqIsList, EmptySeq
  <2>2. Matched(y.req.items, y.resps, y.raws)
    <3>1. \A h : RawsOf(y.raws, h) = {} /\ DueOf(y.req.items, y.resps, h) = {}
      BY <2>1 DEF RawsOf, DueOf
    <3> QED  BY <3>1 DEF Matched
  <2> QED  BY <1>2, <2>1, <2>2 DEF Announced
<1> QED  BY <1>1, <1>2

(* A response is added, with its raw bundle if it needs one. *)
LEMMA ToldIsAnnounced ==
  ASSUME NEW x, NEW y, Announced(x), IsList(x.resps), y.req = x.req, y.pc \in {"items", "inline"},
         NEW r, Grows(x.resps, r, y.resps), Fits(x.req.items[r.item_idx + 1], r),
         \/ ~Due(x.req.items[r.item_idx + 1], r) /\ y.raws = x.raws
         \/ /\ Due(x.req.items[r.item_idx + 1], r)
            /\ \E q : q.hash = r.metadata.hash /\ Grows(x.raws, q, y.raws)
  PROVE  Announced(y)
<1>1. Matched(y.req.items, y.resps, y.raws)
  BY MatchedGrows DEF Announced
<1>2. IsList(y.raws) /\ Plain(y.req.items)
  BY DEF Announced, Grows
<1>3. ASSUME NEW i \in 1 .. Len(y.resps)
      PROVE  Fits(y.req.items[y.resps[i].item_idx + 1], y.resps[i])
  <2>1. Len(x.resps) \in Nat /\ Len(y.resps) = Len(x.resps) + 1
    BY DEF IsList, Grows
  <2>2. CASE i \in 1 .. Len(x.resps)
    BY <2>2 DEF Announced, Grows
  <2>3. CASE i = Len(x.resps) + 1
    BY <2>3 DEF Grows
  <2> QED  BY <2>1, <2>2, <2>3
<1> QED  BY <1>1, <1>2, <1>3 DEF Announced

(* One task moves; the others at most lose their channel. *)
LEMMA AnnouncedStep ==
  ASSUME AnnouncedInv, NEW t \in Tasks, Moves(t) \/ Alone(t), fs' = fs \/ FilesRemain', Announced(task'[t])
  PROVE  AnnouncedInv'
<1>1. ASSUME NEW u \in Tasks \ {t} PROVE Announced(task'[u])
  <2>1. Announced(task[u])
    BY DEF AnnouncedInv
  <2>2. CASE Moves(t)
    BY <2>1, <2>2 DEF Moves
  <2>3. CASE Alone(t)
    BY <2>1, <2>3, StillAnnounced DEF Alone
  <2> QED  BY <2>2, <2>3
<1>2. FilesRemain'
  BY DEF AnnouncedInv, FilesRemain
<1> QED  BY <1>1, <1>2 DEF AnnouncedInv

(* The item is answered. *)
LEMMA AnswerAnnounced ==
  ASSUME IInv, AnnouncedInv, NEW t \in Tasks, fs' = fs \/ FilesRemain', NEW c, NEW m, NEW b,
         Answer(t, <<Response(t, c, m)>>, b), Fits(Item(t), Response(t, c, m)),
         \/ ~Due(Item(t), Response(t, c, m)) /\ b = <<>>
         \/ Due(Item(t), Response(t, c, m)) /\ \E q : q.hash = m.hash /\ b = <<q>>
  PROVE  AnnouncedInv'
<1> DEFINE r == Response(t, c, m)
           x == task[t]
           y == task'[t]
<1>1. r.item_idx = x.idx - 1 /\ r.metadata = m
  BY DEF Response
<1>2. /\ Answer(t, <<r>>, b) /\ Fits(Item(t), r)
      /\ \/ ~Due(Item(t), r) /\ b = <<>>
         \/ Due(Item(t), r) /\ \E q : q.hash = m.hash /\ b = <<q>>
  OBVIOUS
<1> HIDE DEF r
<1>3. Shape /\ IsList(x.resps) /\ x.idx \in Int /\ Announced(x)
  <2>1. Orderly(x)
    BY DEF IInv, Ordered
  <2> HIDE DEF x
  <2>2. x.idx \in Int
    BY <2>1 DEF Orderly, IsList
  <2> QED  BY <2>2, ResponsesAreLists DEF IInv, AnnouncedInv, x
<1>4. Moves(t) /\ y.pc = "items" /\ y.resps = x.resps \o <<r>> /\ y.raws = x.raws \o b
  BY <1>2, <1>3, AnswerIs
<1>5. Grows(x.resps, r, y.resps)
  BY <1>3, <1>4, AppendGrows
<1>6. r.item_idx + 1 = x.idx
  BY <1>1, <1>3
<1>7. x.req.items[r.item_idx + 1] = Item(t)
  BY <1>6 DEF Item, Items
<1>8. y.req = x.req
  BY <1>4 DEF Moves
<1>9. IsList(x.raws)
  BY <1>3 DEF Announced
<1>10. \/ ~Due(Item(t), r) /\ y.raws = x.raws
       \/ Due(Item(t), r) /\ \E q : q.hash = r.metadata.hash /\ Grows(x.raws, q, y.raws)
  <2>1. CASE ~Due(Item(t), r) /\ b = <<>>
    BY <1>4, <1>9, <2>1, NothingAdded
  <2>2. CASE Due(Item(t), r) /\ \E q : q.hash = m.hash /\ b = <<q>>
    <3>1. PICK q : q.hash = m.hash /\ b = <<q>>
      BY <2>2
    <3>2. Grows(x.raws, q, y.raws)
      BY <1>4, <1>9, <3>1, AppendGrows
    <3> QED  BY <1>1, <2>2, <3>1, <3>2
  <2> QED  BY <1>2, <2>1, <2>2
<1>11. Announced(y)
  BY <1>2, <1>3, <1>4, <1>5, <1>7, <1>8, <1>10, ToldIsAnnounced
<1> QED  BY <1>4, <1>11, AnnouncedStep

(* The item is answered by a status other than 2.05. *)
LEMMA StatusAnnounced ==
  ASSUME IInv, AnnouncedInv, NEW t \in Tasks, fs' = fs \/ FilesRemain', NEW c, AnswerStatus(t, c), c # coap_status.CONTENT
  PROVE  AnnouncedInv'
<1> DEFINE r == Response(t, c, NoMetadata)
<1>1. r.status = c
  BY DEF Response
<1> HIDE DEF r
<1>2. ~Due(Item(t), r) /\ Fits(Item(t), r)
  BY <1>1 DEF Due, Fits
<1> QED  BY <1>2, AnswerAnnounced DEF AnswerStatus, r

(* 2.05 is none of the other statuses. *)
LEMMA OtherStatuses ==
  coap_status.CONTENT \notin
    {coap_status.CHANGED, coap_status.FORBIDDEN, coap_status.NOT_FOUND, coap_status.NOT_ACCEPTABLE,
     coap_status.REQUEST_ENTITY_TOO_LARGE, coap_status.INTERNAL_SERVER_ERROR}
  BY DEF coap_status

(* A body was read: a GET sends it, a CHECK does not. *)
LEMMA FetchedAnnounced ==
  ASSUME IInv, AnnouncedInv, NEW t \in Tasks, fs' = fs, task[t].pc = "fetch", NEW doc, Fetched(t, doc),
         doc.size \in Int
  PROVE  AnnouncedInv'
<1>1. CASE doc.size > Item(t).max_size
  BY <1>1, StatusAnnounced, OtherStatuses DEF Fetched
<1>2. CASE ~(doc.size > Item(t).max_size) /\ ~Acceptable(Item(t), doc.mime)
  BY <1>2, StatusAnnounced, OtherStatuses DEF Fetched
<1>3. CASE ~(doc.size > Item(t).max_size) /\ Acceptable(Item(t), doc.mime)
  <2> DEFINE m == Metadata(doc, Item(t).uri)
             b == IF Item(t).op = 0 THEN <<Raw(t, doc)>> ELSE <<>>
             r == Response(t, coap_status.CONTENT, m)
  <2>1. Answer(t, <<r>>, b)
    BY <1>3 DEF Fetched
  <2>2. m.hash = doc.hash /\ m.size = doc.size /\ m.mime = doc.mime /\ Raw(t, doc).hash = doc.hash
    BY DEF Metadata, Raw
  <2>3. r.status = coap_status.CONTENT /\ r.metadata = m
    BY DEF Response
  <2>4. Item(t).op \in {0, 1} /\ Item(t).max_size \in Int
    <3> DEFINE x == task[t]
    <3>1. Announced(x) /\ Orderly(x) /\ x.pc = "fetch"
      BY DEF AnnouncedInv, IInv, Ordered
    <3>2. Item(t) = x.req.items[x.idx]
      BY DEF Item, Items
    <3> HIDE DEF x
    <3>3. x.idx \in 1 .. Len(x.req.items)
      BY <3>1 DEF Orderly, IsList, Busy
    <3> QED  BY <3>1, <3>2, <3>3 DEF Announced, Plain
  <2> HIDE DEF m, r
  <2>5. Fits(Item(t), r)
    BY <1>3, <2>2, <2>3, <2>4 DEF Fits
  <2>6. \/ ~Due(Item(t), r) /\ b = <<>>
        \/ Due(Item(t), r) /\ \E q : q.hash = m.hash /\ b = <<q>>
    <3>1. CASE Item(t).op = 0
      <4>1. Due(Item(t), r)
        BY <2>3, <3>1 DEF Due
      <4>2. b = <<Raw(t, doc)>>
        BY <3>1
      <4> QED  BY <2>2, <4>1, <4>2
    <3>2. CASE Item(t).op = 1
      <4>1. ~Due(Item(t), r) /\ b = <<>>
        BY <3>2 DEF Due
      <4> QED  BY <4>1
    <3> QED  BY <2>4, <3>1, <3>2
  <2> HIDE DEF b
  <2> QED  BY <2>1, <2>5, <2>6, AnswerAnnounced DEF r
<1> QED  BY <1>1, <1>2, <1>3

(* A server answers with a body, or sends elsewhere. *)
LEMMA FetchWebAnnounced ==
  ASSUME PlainRequests, IInv, AnnouncedInv, NEW t \in Tasks, FetchWeb(t)
  PROVE  AnnouncedInv'
<1>1. task[t].pc = "fetch" /\ fs' = fs
  BY DEF FetchWeb, At
<1>2. CASE ~is_safe_host(task[t].uri.name)
  BY <1>1, <1>2, StatusAnnounced, OtherStatuses DEF FetchWeb
<1>3. CASE is_safe_host(task[t].uri.name)
  <2>1. PICK a \in Answers(task[t].uri) :
            \/ a.code = 2 /\ Fetched(t, Body(task[t].uri, a.doc))
            \/ a.code = 3 /\ Redirect(t, a.to)
            \/ a.code \notin {2, 3} /\ AnswerStatus(t, coap_status.NOT_FOUND)
    BY <1>3 DEF FetchWeb
  <2>2. CASE Fetched(t, Body(task[t].uri, a.doc))
    <3> DEFINE doc == Body(task[t].uri, a.doc)
    <3>1. doc.size \in Int
      BY <2>1 DEF PlainRequests
    <3> HIDE DEF doc
    <3>2. Fetched(t, doc)
      BY <2>2 DEF doc
    <3> QED  BY <1>1, <3>1, <3>2, FetchedAnnounced
  <2>3. CASE Redirect(t, a.to)
    <3> DEFINE to == a.to
    <3> HIDE DEF to
    <3>1. Redirect(t, to)
      BY <2>3 DEF to
    <3>2. CASE task[t].hops >= MaxRedirects
      BY <1>1, <3>1, <3>2, StatusAnnounced, OtherStatuses DEF Redirect
    <3>3. CASE ~(task[t].hops >= MaxRedirects) /\ (~IsWeb(to) \/ ~is_safe_host(to.name))
      BY <1>1, <3>1, <3>3, StatusAnnounced, OtherStatuses DEF Redirect
    <3>4. CASE ~(task[t].hops >= MaxRedirects) /\ ~(~IsWeb(to) \/ ~is_safe_host(to.name))
      <4> DEFINE x == task[t]
                 h == x.hops + 1
                 y == [x EXCEPT !.uri = to, !.hops = h]
      <4>1. Shaped(x) /\ Announced(x)
        BY DEF IInv, Shape, AnnouncedInv
      <4>2. task' = [task EXCEPT ![t] = y]
        BY <3>1, <3>4 DEF Redirect
      <4> HIDE DEF x, h
      <4>3. /\ Shaped(y) /\ y.req = x.req /\ y.cancel = x.cancel /\ y.idx = x.idx
            /\ y.pc = x.pc /\ y.resps = x.resps /\ y.raws = x.raws
        BY <4>1 DEF Shaped, Fields
      <4> HIDE DEF y
      <4>4. Moves(t) /\ task'[t] = y
        BY <4>2, <4>3 DEF IInv, Shape, Moves, x
      <4>5. Announced(y)
        BY <4>1, <4>3, StillAnnounced
      <4> QED  BY <1>1, <4>4, <4>5, AnnouncedStep
    <3> QED  BY <3>2, <3>3, <3>4
  <2>4. CASE AnswerStatus(t, coap_status.NOT_FOUND)
    BY <1>1, <2>4, StatusAnnounced, OtherStatuses
  <2> QED  BY <2>1, <2>2, <2>3, <2>4
<1> QED  BY <1>2, <1>3

(* A file is fetched. *)
LEMMA FetchLocalAnnounced ==
  ASSUME PlainRequests, IInv, AnnouncedInv, NEW t \in Tasks, FetchLocal(t)
  PROVE  AnnouncedInv'
<1>1. task[t].pc = "fetch" /\ fs' = fs
  BY DEF FetchLocal, At
<1>2. \/ AnswerStatus(t, coap_status.FORBIDDEN) \/ AnswerStatus(t, coap_status.NOT_FOUND)
      \/ \E path \in DOMAIN fs : Fetched(t, fs[path])
  BY DEF FetchLocal, check_file_path
<1>3. CASE AnswerStatus(t, coap_status.FORBIDDEN) \/ AnswerStatus(t, coap_status.NOT_FOUND)
  BY <1>1, <1>3, StatusAnnounced, OtherStatuses
<1>4. CASE \E path \in DOMAIN fs : Fetched(t, fs[path])
  <2>1. PICK path \in DOMAIN fs : Fetched(t, fs[path])
    BY <1>4
  <2>2. fs[path].size \in Int
    BY DEF PlainRequests, AnnouncedInv, FilesRemain
  <2> QED  BY <1>1, <2>1, <2>2, FetchedAnnounced
<1> QED  BY <1>2, <1>3, <1>4

(* A file disappears before it is read. *)
LEMMA FetchVanishesAnnounced ==
  ASSUME IInv, AnnouncedInv, NEW t \in Tasks, FetchVanishes(t)
  PROVE  AnnouncedInv'
<1>1. FilesRemain'
  BY DEF FetchVanishes, AnnouncedInv, FilesRemain, Without
<1> QED  BY <1>1, StatusAnnounced, OtherStatuses DEF FetchVanishes

(* A search: an index is compiled only for a SEARCH or a LIST. *)
LEMMA SearchAnnounced ==
  ASSUME IInv, AnnouncedInv, NEW t \in Tasks, Search(t)
  PROVE  AnnouncedInv'
<1> DEFINE results == perform_search(Item(t).uri.name)
           many == Item(t).op = 4 \/ Cardinality(results) > InlineLimit
<1>1. task[t].pc = "search" /\ fs' = fs
  BY DEF Search, At
<1>2. IF results = {} THEN AnswerStatus(t, coap_status.NOT_FOUND)
      ELSE task' = [task EXCEPT ![t].left = results, ![t].pc = IF many THEN "index" ELSE "inline"]
  BY DEF Search
<1>3. CASE results = {}
  BY <1>1, <1>2, <1>3, StatusAnnounced, OtherStatuses
<1>4. CASE results # {}
  <2> DEFINE x == task[t]
             p == IF many THEN "index" ELSE "inline"
             y == [x EXCEPT !.left = results, !.pc = p]
  <2>1. Shaped(x) /\ Announced(x) /\ Staged(x) /\ x.pc = "search"
    BY <1>1 DEF IInv, Shape, AnnouncedInv, Ordered
  <2>2. p \in {"index", "inline"}
    OBVIOUS
  <2>3. task' = [task EXCEPT ![t] = y]
    BY <1>2, <1>4
  <2> HIDE DEF x, p, results
  <2>4. /\ Shaped(y) /\ y.req = x.req /\ y.cancel = x.cancel /\ y.idx = x.idx
        /\ y.pc = p /\ y.resps = x.resps /\ y.raws = x.raws
    BY <2>1 DEF Shaped, Fields
  <2> HIDE DEF y
  <2>5. Moves(t) /\ task'[t] = y
    BY <2>3, <2>4 DEF IInv, Shape, Moves, x
  <2>6. x.req.items[x.idx].op \in {2, 4}
    BY <2>1 DEF Staged
  <2>7. Announced(y)
    BY <2>1, <2>2, <2>4, <2>6 DEF Announced
  <2> QED  BY <1>1, <2>5, <2>7, AnnouncedStep
<1> QED  BY <1>3, <1>4

(* An index document is always sent. *)
LEMMA CompileIndexAnnounced ==
  ASSUME IInv, AnnouncedInv, NEW t \in Tasks, CompileIndex(t)
  PROVE  AnnouncedInv'
<1> DEFINE doc == IndexDocument(task[t].left)
           m == Metadata(doc, Item(t).uri)
           b == <<Raw(t, doc)>>
           r == Response(t, coap_status.CONTENT, m)
<1>1. fs' = fs /\ task[t].pc = "index" /\ Answer(t, <<r>>, b)
  BY DEF CompileIndex, At
<1>2. \E i, j : doc.hash = <<0, i, j>>
  BY DEF IndexDocument
<1>3. m.hash = doc.hash /\ Raw(t, doc).hash = doc.hash
  BY DEF Metadata, Raw
<1>4. r.status = coap_status.CONTENT /\ r.metadata = m
  BY DEF Response
<1>5. Item(t).op \in {2, 4} /\ \A h \in Item(t).have : \A i, j : ~IsPrefix(h, <<0, i, j>>)
  <2> DEFINE x == task[t]
  <2>1. Announced(x) /\ Orderly(x) /\ x.pc = "index"
    BY <1>1 DEF AnnouncedInv, IInv, Ordered
  <2>2. Item(t) = x.req.items[x.idx]
    BY DEF Item, Items
  <2> HIDE DEF x
  <2>3. x.idx \in 1 .. Len(x.req.items)
    BY <2>1 DEF Orderly, IsList, Busy
  <2> QED  BY <2>1, <2>2, <2>3 DEF Announced, Plain
<1> HIDE DEF doc, m, r
<1>6. Fits(Item(t), r) /\ Due(Item(t), r)
  BY <1>2, <1>3, <1>4, <1>5 DEF Fits, Due
<1>7. \E q : q.hash = m.hash /\ b = <<q>>
  BY <1>3
<1> HIDE DEF b
<1> QED  BY <1>1, <1>6, <1>7, AnswerAnnounced DEF r

(* One of the files found is read: it is sent unless the requester owns    *)
(* it.                                                                     *)
LEMMA SearchOneAnnounced ==
  ASSUME IInv, AnnouncedInv, NEW t \in Tasks, NEW result, SearchOne(t, result)
  PROVE  AnnouncedInv'
<1> DEFINE x == task[t]
           path == Canonical(result.path)
           left == x.left \ {result}
           large == Response(t, coap_status.REQUEST_ENTITY_TOO_LARGE, NoMetadata)
           found == Response(t, coap_status.CONTENT, Metadata(fs[path], result.uri))
           raw == Raw(t, fs[path])
           owned == AlreadyOwned(Item(t), fs[path].hash)
           raws == IF owned THEN x.raws ELSE Append(x.raws, raw)
           y0 == [x EXCEPT !.left = left]
           y1 == [x EXCEPT !.left = left, !.resps = Append(x.resps, large)]
           y2 == [x EXCEPT !.left = left, !.resps = Append(x.resps, found), !.raws = raws]
<1>1. Shaped(x) /\ Announced(x) /\ x.pc = "inline" /\ fs' = fs /\ IsList(x.resps)
  BY ResponsesAreLists DEF IInv, Shape, AnnouncedInv, SearchOne, At
<1>2. Orderly(x) /\ Staged(x)
  BY DEF IInv, Ordered
<1>3. x.idx \in Int /\ x.req.items[x.idx].op = 2 /\ IsList(x.raws)
  <2> HIDE DEF x
  <2> QED  BY <1>1, <1>2 DEF Orderly, Staged, IsList, Announced
<1>4. /\ large.item_idx = x.idx - 1 /\ large.status # coap_status.CONTENT
      /\ found.item_idx = x.idx - 1 /\ found.status = coap_status.CONTENT
      /\ found.metadata.hash = fs[path].hash /\ raw.hash = fs[path].hash
  BY OtherStatuses DEF Response, Metadata, Raw
<1>5. Item(t) = x.req.items[x.idx] /\ (x.idx - 1) + 1 = x.idx
  BY <1>3 DEF Item, Items
<1>6. owned <=> ~(\A h \in Item(t).have : ~IsPrefix(h, fs[path].hash))
  BY DEF AlreadyOwned
<1>7. \/ task' = [task EXCEPT ![t].left = left]
      \/ task' = [[task EXCEPT ![t].left = left] EXCEPT ![t].resps = Append(@, large)]
      \/ task' = [[task EXCEPT ![t].left = left] EXCEPT ![t].resps = Append(@, found),
                    ![t].raws = IF owned THEN @ ELSE Append(@, raw)]
  BY DEF SearchOne
<1> HIDE DEF large, found, left, path, raw, owned
<1>8. /\ Fits(x.req.items[large.item_idx + 1], large) /\ ~Due(x.req.items[large.item_idx + 1], large)
      /\ Fits(x.req.items[found.item_idx + 1], found)
      /\ Due(x.req.items[found.item_idx + 1], found) <=> ~owned
  <2> HIDE DEF x
  <2> QED  BY <1>3, <1>4, <1>5, <1>6 DEF Fits, Due
<1>9. \/ task' = [task EXCEPT ![t] = y0]
      \/ task' = [task EXCEPT ![t] = y1]
      \/ task' = [task EXCEPT ![t] = y2]
  <2>1. CASE task' = [task EXCEPT ![t].left = left]
    BY <2>1
  <2>2. CASE task' = [[task EXCEPT ![t].left = left] EXCEPT ![t].resps = Append(@, large)]
    BY <1>1, <2>2 DEF IInv, Shape, Shaped, Fields
  <2>3. CASE task' = [[task EXCEPT ![t].left = left] EXCEPT ![t].resps = Append(@, found),
                        ![t].raws = IF owned THEN @ ELSE Append(@, raw)]
    BY <1>1, <2>3 DEF IInv, Shape, Shaped, Fields
  <2> QED  BY <1>7, <2>1, <2>2, <2>3
<1>10. /\ Grows(x.resps, large, Append(x.resps, large)) /\ Grows(x.resps, found, Append(x.resps, found))
       /\ Grows(x.raws, raw, Append(x.raws, raw))
  BY <1>1, <1>3, AppendGrows
<1>11. (owned /\ raws = x.raws) \/ (~owned /\ Grows(x.raws, raw, raws))
  BY <1>10
<1> DEFINE A == Append(x.resps, large)
           B == Append(x.resps, found)
<1> HIDE DEF x, raws, A, B
<1>12. CASE task' = [task EXCEPT ![t] = y0]
  <2>1. /\ Shaped(y0) /\ y0.req = x.req /\ y0.cancel = x.cancel /\ y0.pc = x.pc /\ y0.idx = x.idx
        /\ y0.resps = x.resps /\ y0.raws = x.raws
    BY <1>1 DEF Shaped, Fields
  <2> HIDE DEF y0
  <2>2. Moves(t) /\ task'[t] = y0
    BY <1>12, <2>1 DEF IInv, Shape, Moves, x
  <2>3. Announced(y0)
    BY <1>1, <2>1, StillAnnounced
  <2> QED  BY <1>1, <2>2, <2>3, AnnouncedStep
<1>13. CASE task' = [task EXCEPT ![t] = y1]
  <2>1. y1 = [x EXCEPT !.left = left, !.resps = A]
    BY DEF A
  <2> HIDE DEF y1
  <2>2. Shaped(y1) /\ y1.req = x.req /\ y1.cancel = x.cancel /\ y1.pc = x.pc /\ y1.resps = A /\ y1.raws = x.raws
    BY <1>1, <2>1 DEF Shaped, Fields
  <2>3. Moves(t) /\ task'[t] = y1
    BY <1>13, <2>2 DEF IInv, Shape, Moves, x
  <2>4. Announced(y1)
    BY <1>1, <1>8, <1>10, <2>2, ToldIsAnnounced DEF A
  <2> QED  BY <1>1, <2>3, <2>4, AnnouncedStep
<1>14. CASE task' = [task EXCEPT ![t] = y2]
  <2>1. y2 = [x EXCEPT !.left = left, !.resps = B, !.raws = raws]
    BY DEF B
  <2> HIDE DEF y2
  <2>2. Shaped(y2) /\ y2.req = x.req /\ y2.cancel = x.cancel /\ y2.pc = x.pc /\ y2.resps = B /\ y2.raws = raws
    BY <1>1, <2>1 DEF Shaped, Fields
  <2>3. Moves(t) /\ task'[t] = y2
    BY <1>14, <2>2 DEF IInv, Shape, Moves, x
  <2>4. \/ ~Due(x.req.items[found.item_idx + 1], found) /\ y2.raws = x.raws
        \/ /\ Due(x.req.items[found.item_idx + 1], found)
           /\ \E q : q.hash = found.metadata.hash /\ Grows(x.raws, q, y2.raws)
    BY <1>4, <1>8, <1>11, <2>2
  <2>5. Grows(x.resps, found, y2.resps)
    BY <1>10, <2>2 DEF B
  <2>6. Announced(y2)
    BY <1>1, <1>8, <2>2, <2>4, <2>5, ToldIsAnnounced
  <2> QED  BY <1>1, <2>3, <2>6, AnnouncedStep
<1> QED  BY <1>9, <1>12, <1>13, <1>14

(* A SEARCH ends. *)
LEMMA SearchEndsAnnounced ==
  ASSUME IInv, AnnouncedInv, NEW t \in Tasks, SearchEnds(t)
  PROVE  AnnouncedInv'
<1>1. /\ Shape /\ IsList(task[t].resps) /\ IsList(task[t].raws) /\ Announced(task[t]) /\ fs' = fs
      /\ Answer(t, <<>>, <<>>)
  BY ResponsesAreLists DEF IInv, AnnouncedInv, Announced, SearchEnds
<1>2. /\ Moves(t) /\ task'[t].pc = "items"
      /\ task'[t].resps = task[t].resps \o <<>> /\ task'[t].raws = task[t].raws \o <<>>
  BY <1>1, AnswerIs
<1>3. task'[t].resps = task[t].resps /\ task'[t].raws = task[t].raws /\ task'[t].req = task[t].req
  BY <1>1, <1>2, NothingAdded DEF Moves
<1>4. Announced(task'[t])
  BY <1>1, <1>2, <1>3, QuietIsAnnounced
<1> QED  BY <1>1, <1>2, <1>4, AnnouncedStep

(* An item is started, or answered at once and without content. *)
LEMMA StartItemAnnounced ==
  ASSUME IInv, AnnouncedInv, NEW t \in Tasks, StartItem(t)
  PROVE  AnnouncedInv'
<1> DEFINE x == task[t]
           y == task'[t]
<1>1. Shape /\ IsList(x.resps) /\ Handles /\ Announced(x) /\ fs' = fs
  BY ResponsesAreLists DEF IInv, AnnouncedInv, StartItem
<1>2. \A id \in DOMAIN active : active[id] \in Tasks
  BY <1>1 DEF Handles
<1>3. \/ Begins(t)
      \/ Moves(t) /\ AtOnce(t)
      \/ Alone(t) /\ AtOnce(t) /\ y.req = x.req
  BY <1>1, <1>2, StartItemIs DEF Resolves
<1>4. CASE Begins(t)
  <2>1. /\ Moves(t) /\ y.req = x.req /\ y.idx = x.idx + 1 /\ y.resps = x.resps /\ y.raws = x.raws
        /\ y.pc = "search" \/ (y.pc = "fetch" /\ x.req.items[x.idx + 1].op \in {0, 1})
    BY <1>4 DEF Begins, Resolves, Moves, Items
  <2> HIDE DEF x, y
  <2>2. Announced(y)
    BY <1>1, <2>1 DEF Announced
  <2> QED  BY <1>1, <2>1, <2>2, AnnouncedStep DEF y
<1>5. CASE (Moves(t) \/ Alone(t)) /\ AtOnce(t) /\ y.req = x.req
  <2>1. PICK r : r.status # coap_status.CONTENT /\ Grows(x.resps, r, y.resps)
    BY <1>5 DEF AtOnce
  <2>2. y.pc = "items" /\ y.raws = x.raws
    BY <1>5 DEF AtOnce
  <2>3. ~Due(x.req.items[r.item_idx + 1], r) /\ Fits(x.req.items[r.item_idx + 1], r)
    BY <2>1 DEF Due, Fits
  <2>4. Announced(y)
    BY <1>1, <1>5, <2>1, <2>2, <2>3, ToldIsAnnounced
  <2> QED  BY <1>1, <1>5, <2>4, AnnouncedStep
<1> QED  BY <1>3, <1>4, <1>5 DEF Moves

(* The steps in which a task announces nothing new. *)
LEMMA QuietAnnounced ==
  ASSUME PlainRequests, IInv, AnnouncedInv, NEW t \in Tasks,
         on_deliver(t) \/ StartRequest(t) \/ FinishItems(t) \/ Send(t) \/ SendFails(t)
  PROVE  AnnouncedInv'
<1> DEFINE x == task[t]
           y == task'[t]
           req == DecodeRequest(Bundle[t].wire)
<1>1. Shape /\ Announced(x) /\ Staged(x) /\ fs' = fs
  BY DEF IInv, Ordered, AnnouncedInv, on_deliver, StartRequest, FinishItems, Send, SendFails
<1>2. Plain(x.req.items) /\ Plain(req.items)
  BY <1>1 DEF Announced, PlainRequests
<1> HIDE DEF req
<1>3. /\ Moves(t) \/ Alone(t)
      /\ y.pc \notin {"fetch", "index"} /\ (y.pc \in {"new", "spawned"} => x.pc = "new")
      /\ \/ y.resps = x.resps /\ y.raws = x.raws /\ y.req = x.req
         \/ y.resps = <<>> /\ y.raws = <<>> /\ Plain(y.req.items)
  <2>1. CASE on_deliver(t)
    BY <1>1, <2>1, DeliverIs DEF Moves
  <2>2. CASE StartRequest(t)
    <3>1. /\ x.pc = "spawned" /\ y.resps = x.resps /\ y.raws = x.raws
          /\ \/ Moves(t) /\ y.pc = "done" /\ y.req = x.req
             \/ Alone(t) /\ y.pc = "items" /\ y.req = req
      BY <1>1, <2>2, StartRequestIs DEF Registers, Moves, req
    <3>2. x.resps = <<>> /\ x.raws = <<>>
      BY <1>1, <3>1 DEF Staged, Announced
    <3> QED  BY <1>2, <3>1, <3>2
  <2>3. CASE FinishItems(t)
    BY <1>1, <2>3, FinishItemsIs DEF Finishes
  <2>4. CASE Send(t) \/ SendFails(t)
    BY <1>1, <1>2, <2>4, SendIs DEF Moves
  <2> QED  BY <2>1, <2>2, <2>3, <2>4
<1>4. Announced(y)
  BY <1>1, <1>2, <1>3, QuietIsAnnounced
<1> QED  BY <1>1, <1>3, <1>4, AnnouncedStep

(* Idle tasks have announced nothing. *)
LEMMA IdleIsAnnounced ==
  Announced(Idle)
<1>1. Idle.pc = "new" /\ Idle.resps = <<>> /\ Idle.raws = <<>>
  BY IdleIs
<1>2. Idle.req.items = <<>>
  <2>1. NoRequest.items = <<>>
    BY DEF NoRequest
  <2> QED  BY <2>1, IdleIs
<1>3. Plain(Idle.req.items)
  BY <1>2, EmptySeq DEF Plain
<1> QED  BY <1>1, <1>3, QuietIsAnnounced

(* Every step keeps it. *)
LEMMA AnnouncedNext ==
  ASSUME PlainRequests, IInv, AnnouncedInv, [Next]_vars
  PROVE  AnnouncedInv'
<1>1. ASSUME NEW t \in Tasks, on_deliver(t) PROVE AnnouncedInv'
  BY <1>1, QuietAnnounced
<1>2. ASSUME NEW t \in Tasks, FetchWeb(t) \/ FetchVanishes(t) PROVE AnnouncedInv'
  BY <1>2, FetchWebAnnounced, FetchVanishesAnnounced
<1>3. ASSUME NEW t \in Tasks, TaskStep(t) PROVE AnnouncedInv'
  <2>1. CASE StartRequest(t) \/ FinishItems(t) \/ Send(t) \/ SendFails(t)
    BY <2>1, QuietAnnounced
  <2>2. CASE StartItem(t)
    BY <2>2, StartItemAnnounced
  <2>3. CASE FetchLocal(t)
    BY <2>3, FetchLocalAnnounced
  <2>4. CASE FetchCancelled(t)
    BY <2>4, StatusAnnounced, OtherStatuses DEF FetchCancelled
  <2>5. CASE Search(t)
    BY <2>5, SearchAnnounced
  <2>6. CASE CompileIndex(t)
    BY <2>6, CompileIndexAnnounced
  <2>7. CASE SearchEnds(t)
    BY <2>7, SearchEndsAnnounced
  <2>8. CASE \E result \in task[t].left : SearchOne(t, result)
    BY <2>8, SearchOneAnnounced
  <2> QED  BY <1>3, <2>1, <2>2, <2>3, <2>4, <2>5, <2>6, <2>7, <2>8 DEF TaskStep
<1>4. CASE on_unregister
  <2>1. task' = [t \in Tasks |-> Idle] /\ fs' = fs
    BY <1>4 DEF on_unregister
  <2> QED  BY <2>1, IdleIsAnnounced DEF AnnouncedInv, FilesRemain
<1>5. CASE FileRemoved
  <2>1. PICK path : fs' = Without(fs, path)
    BY <1>5 DEF FileRemoved
  <2>2. FilesRemain'
    BY <2>1 DEF AnnouncedInv, FilesRemain, Without
  <2> QED  BY <1>5, <2>2 DEF AnnouncedInv, FileRemoved
<1>6. CASE UNCHANGED vars
  BY <1>6 DEF AnnouncedInv, FilesRemain, vars
<1> QED  BY <1>1, <1>2, <1>3, <1>4, <1>5, <1>6 DEF Next

(* process_request: for each hash, as many raw bundles are sent with it as *)
(* responses announce it, those to a CHECK and for content the requester   *)
(* owns apart, in the response bundle as the requester decodes it; and     *)
(* what a GET or CHECK announces fits the size and the formats asked for.  *)
THEOREM RawsAreAnnounced ==
  ASSUME PlainRequests
  PROVE  Spec => []RawIsAnnounced
<1>1. Init => AnnouncedInv
  BY IdleIsAnnounced DEF Init, AnnouncedInv, FilesRemain
<1>2. IInv /\ AnnouncedInv /\ [Next]_vars => AnnouncedInv'
  BY AnnouncedNext
<1>3. IInv /\ AnnouncedInv => RawIsAnnounced
  <2> SUFFICES ASSUME IInv, AnnouncedInv, NEW t \in Tasks, task[t].out # <<>>
               PROVE  LET resps == Responses(t)
                          content == {i \in DOMAIN resps : resps[i].status = coap_status.CONTENT}
                          item(i) == Items(t)[resps[i].item_idx + 1]
                          due == {i \in content :
                                    /\ item(i).op # 1
                                    /\ item(i).op = 2
                                         => \A h \in item(i).have : ~IsPrefix(h, resps[i].metadata.hash)}
                          raws == task[t].raws
                      IN /\ \A h \in {raws[k].hash : k \in DOMAIN raws} \cup {resps[i].metadata.hash : i \in due} :
                              Cardinality({k \in DOMAIN raws : raws[k].hash = h})
                                = Cardinality({i \in due : resps[i].metadata.hash = h})
                         /\ \A i \in content : item(i).op \in {0, 1} =>
                              /\ resps[i].metadata.size <= item(i).max_size
                              /\ Acceptable(item(i), resps[i].metadata.mime)
    BY DEF RawIsAnnounced
  <2> DEFINE x == task[t]
             s == x.resps
             items == x.req.items
             raws == x.raws
             resps == Responses(t)
             item(i) == Items(t)[resps[i].item_idx + 1]
             content == {i \in DOMAIN resps : resps[i].status = coap_status.CONTENT}
             due == {i \in content :
                       /\ item(i).op # 1
                       /\ item(i).op = 2 => \A h \in item(i).have : ~IsPrefix(h, resps[i].metadata.hash)}
  <2>1. Staged(x) /\ IsList(s) /\ Announced(x) /\ x.pc = "send"
    BY ResponsesAreLists DEF IInv, Ordered, Staged, AnnouncedInv
  <2>2. resps = DecodeResponse(EncodeResponse(x.req.req_id, s)).items
    BY <2>1 DEF Responses, Staged
  <2>3. /\ DOMAIN resps = 1 .. Len(s)
        /\ \A k \in 1 .. Len(s) : /\ resps[k].item_idx = s[k].item_idx /\ resps[k].status = s[k].status
                                  /\ resps[k].metadata = s[k].metadata
    <3> HIDE DEF s
    <3> QED  BY <2>1, <2>2, DecodedResponses, DecodedMetadata
  <2>4. /\ DOMAIN raws = 1 .. Len(raws) /\ Matched(items, s, raws)
        /\ \A i \in 1 .. Len(s) : Fits(items[s[i].item_idx + 1], s[i])
    BY <2>1 DEF Announced, IsList
  <2>5. Items(t) = items
    BY DEF Items
  <2> HIDE DEF resps, s, items, raws
  <2>6. \A i \in 1 .. Len(s) : item(i) = items[s[i].item_idx + 1]
    BY <2>3, <2>5
  <2> HIDE DEF item
  <2>7. due = {i \in 1 .. Len(s) : Due(items[s[i].item_idx + 1], s[i])}
    BY <2>3, <2>6 DEF Due
  <2> HIDE DEF due
  <2>8. ASSUME NEW h
        PROVE  Cardinality({k \in DOMAIN raws : raws[k].hash = h})
                 = Cardinality({i \in due : resps[i].metadata.hash = h})
    <3>1. {k \in DOMAIN raws : raws[k].hash = h} = RawsOf(raws, h)
      BY <2>4 DEF RawsOf
    <3>2. {i \in due : resps[i].metadata.hash = h} = DueOf(items, s, h)
      BY <2>3, <2>7 DEF DueOf
    <3> QED  BY <2>4, <3>1, <3>2 DEF Matched
  <2>9. ASSUME NEW i \in content, item(i).op \in {0, 1}
        PROVE  resps[i].metadata.size <= item(i).max_size /\ Acceptable(item(i), resps[i].metadata.mime)
    <3>1. i \in 1 .. Len(s) /\ s[i].status = coap_status.CONTENT
      BY <2>3
    <3> QED  BY <2>3, <2>4, <2>6, <2>9, <3>1 DEF Fits
  <2> HIDE DEF content
  <2> QED  BY <2>8, <2>9, Zenon DEF due, content, item, resps, raws
<1> QED  BY <1>1, <1>2, <1>3, Invariance, PTL DEF Spec
=============================================================================
