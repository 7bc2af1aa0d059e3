--------------------------- MODULE RetentionProofs ---------------------------
(***************************************************************************)
(* Proofs about the station's storage for any set of bundles, any times    *)
(* and lifetimes and any number of crashes: what was acknowledged stays    *)
(* stored until it expires, a pinned file keeps its payload, and the       *)
(* reaper is in time.                                                      *)
(***************************************************************************)
EXTENDS Retention, TLAPS, FiniteSetTheorems, WellFoundedInduction

RowType == [ts : Int, exp : Int, sticky : BOOLEAN, read : BOOLEAN]
Boots == {"chatTimes", "chatLifetimes", "fileTimes", "version", "ready", "up"}

Types ==
  /\ rows \in [Ids -> RowType \cup {None}]
  /\ version \in {0, 1} /\ boot \in Boots
  /\ boot \in {"ready", "up"} => version = 1
  /\ boot \in {"chatLifetimes", "fileTimes", "version"} => version = 0
  /\ bpa \in [Ids -> {"due", "written", "injected", "acked", "lost"}]
  /\ del \in [Files -> {"no", "read", "removed"}]
  /\ reaper \in [pc : {"off", "purge", "rows", "deadline", "asleep"}, at : Nat, wake : Nat]
  /\ now \in Nat /\ booted \in Nat /\ since \in [Ids -> Int]

(* The rows of a database of user_version 0, however often the migration   *)
(* was started: a converted time is told from a legacy one by its size.    *)
Half(id) == IF id \in Chats THEN Min({Life[id], Hour}) ELSE Life[id]
Old ==
  version = 0 => \A id \in Ids :
    /\ rows[id] # None <=> id \in Legacy
    /\ bpa[id] \in {"acked", "due", "lost"} /\ (bpa[id] = "acked" => id \in Legacy)
    /\ id \in Legacy =>
         /\ ~rows[id].sticky /\ (id \in Files => id \in disk)
         /\ rows[id].ts \in {Created[id] - Offset, Created[id]}
         /\ rows[id].exp - rows[id].ts \in {Life[id], Half(id)}
         /\ id \in Chats /\ boot \in {"chatLifetimes", "fileTimes", "version"} => rows[id].ts = Created[id]
         /\ id \in Chats /\ boot \in {"fileTimes", "version"} => rows[id].exp = Created[id] + Half(id)
         /\ id \in Files /\ boot = "version" => rows[id].ts = Created[id]

(* The expiry every row has once the version is set: the migration cuts    *)
(* old chat messages of both directions to an hour.                        *)
Expiry(id) == Created[id] + IF id \in Legacy \cap Chats THEN Min({Life[id], Hour}) ELSE Life[id]
New == version = 1 => \A id \in Ids : rows[id] # None => rows[id].exp = Expiry(id)

(* Bundles of the old database are never delivered again, and what the     *)
(* operator is deleting is recorded as deleted.                            *)
Progress ==
  /\ \A id \in Legacy : bpa[id] = "acked"
  /\ \A f \in Files : del[f] # "no" => f \in deleted

(* What was acknowledged has its row and its conversation. *)
Stored ==
  \A id \in Ids :
    /\ rows[id] # None /\ id \in Chats => Peer[id] \in convs
    /\ bpa[id] = "acked" /\ id \notin deleted \cup failed /\ now < Expiry(id) => rows[id] # None

(* A payload is only missing when the file has expired or a write of it    *)
(* failed, and a file pinned in spite of its expiry was pinned too late.   *)
Payloads ==
  \A f \in Files : f \notin disk /\ f \notin deleted =>
    /\ f \notin failed /\ rows[f] # None => rows[f].exp <= now /\ (rows[f].sticky => since[f] >= rows[f].exp)
    /\ bpa[f] = "written" => Expiry(f) <= now

(* The reaper's round: what is left is not late yet, and by the time it    *)
(* wakes it will not be late either.                                       *)
Grace(id) == Max({since[id], booted, rows[id].exp})
Reaping ==
  Up => /\ reaper.pc # "off"
        /\ reaper.pc \in {"rows", "deadline"} => reaper.at = now
        /\ reaper.pc = "asleep" => now <= reaper.wake /\ reaper.wake <= now + MaxSleep
        /\ \A id \in Ids : Reapable(id) =>
             /\ reaper.pc \in {"purge", "rows"} => now <= Grace(id) + MaxSleep
             /\ reaper.pc = "deadline" => now <= Grace(id)
             /\ reaper.pc = "asleep" => reaper.wake <= Grace(id) + MaxSleep

(* The inductive invariant. *)
IInv == Types /\ Old /\ New /\ Progress /\ Stored /\ Payloads /\ Reaping

-----------------------------------------------------------------------------
(* Lemmas about the operators. *)

(* The greater of two numbers. *)
LEMMA MaxTwo ==
  ASSUME NEW a \in Int, NEW b \in Int
  PROVE  Max({a, b}) \in Int /\ Max({a, b}) >= a /\ Max({a, b}) >= b
<1>1. \E x \in {a, b} : \A y \in {a, b} : x >= y
  OBVIOUS
<1>2. Max({a, b}) \in {a, b} /\ \A y \in {a, b} : Max({a, b}) >= y
  BY <1>1 DEF Max
<1> QED  BY <1>2

(* The greatest of three. *)
LEMMA MaxThree ==
  ASSUME NEW a \in Int, NEW b \in Int, NEW c \in Int
  PROVE  Max({a, b, c}) \in Int /\ Max({a, b, c}) >= a /\ Max({a, b, c}) >= b /\ Max({a, b, c}) >= c
<1>1. \E x \in {a, b, c} : \A y \in {a, b, c} : x >= y
  OBVIOUS
<1>2. Max({a, b, c}) \in {a, b, c} /\ \A y \in {a, b, c} : Max({a, b, c}) >= y
  BY <1>1 DEF Max
<1> QED  BY <1>2

(* The smaller of two. *)
LEMMA MinTwo ==
  ASSUME NEW a \in Int, NEW b \in Int
  PROVE  Min({a, b}) = IF a <= b THEN a ELSE b
<1>1. \E x \in {a, b} : \A y \in {a, b} : x <= y
  OBVIOUS
<1>2. Min({a, b}) \in {a, b} /\ \A y \in {a, b} : Min({a, b}) <= y
  BY <1>1 DEF Min
<1> QED  BY <1>2

(* A set of deadlines has an earliest one. *)
LEMMA Earliest ==
  ASSUME NEW S \in SUBSET Nat, S # {}
  PROVE  Min(S) \in S
<1>1. \E x \in S : \A y \in S : x <= y
  <2>1. IsWellFoundedOn(OpToRel(<, Nat), Nat)
    BY NatLessThanWellFounded
  <2>2. PICK x \in S : \A y \in S : <<y, x>> \notin OpToRel(<, Nat)
    BY <2>1, WFMin, Zenon
  <2>3. \A y \in S : y < x => <<y, x>> \in OpToRel(<, Nat)
    BY DEF OpToRel
  <2>4. \A y \in S : ~(y < x)
    BY <2>2, <2>3, Zenon
  <2> QED  BY <2>4
<1> QED  BY <1>1 DEF Min

(* The reaper's sleep is within its clamp. *)
LEMMA SleepIsClamped ==
  ASSUME NEW S \in SUBSET Nat, NEW at \in Nat
  PROVE  Sleep(S, at) \in 1..MaxSleep
<1>1. CASE S = {}
  BY <1>1, RetentionAssumption DEF Sleep
<1>2. CASE S # {}
  <2> DEFINE m == Min(S)
  <2>0. m \in Nat
    BY <1>2, Earliest
  <2> HIDE DEF m
  <2>2. m - at \in Int
    BY <2>0
  <2>1. Min(S) - at \in Int
    BY <2>2 DEF m
  <2> QED  BY <1>2, <2>1, RetentionAssumption DEF Sleep
<1> QED  BY <1>1, <1>2

(* The expiry of a bundle of the old database, and of every other. *)
LEMMA DueIs ==
  ASSUME NEW id \in Ids
  PROVE  /\ Created[id] \in Nat /\ Life[id] \in Nat /\ Half(id) \in Nat /\ Expiry(id) \in Nat
         /\ id \in Chats => Half(id) = IF Life[id] <= Hour THEN Life[id] ELSE Hour
         /\ id \in Files => Half(id) = Life[id]
         /\ id \in Legacy => Expiry(id) = Created[id] + Half(id)
         /\ id \notin Legacy \/ id \in Files => Expiry(id) = Created[id] + Life[id]
<1>1. Created[id] \in Nat /\ Life[id] \in Nat /\ Hour \in Nat /\ Files \cap Chats = {}
  BY RetentionAssumption
<1>2. Min({Life[id], Hour}) = IF Life[id] <= Hour THEN Life[id] ELSE Hour
  BY <1>1, MinTwo
<1>3. id \in Chats \/ id \in Files
  BY DEF Ids
<1> QED  BY <1>1, <1>2, <1>3 DEF Half, Expiry

(* The row that is stored, and the rows of the old database. *)
LEMMA RowIs ==
  ASSUME NEW id \in Ids
  PROVE  /\ Fresh(id) \in RowType /\ Fresh(id) # None /\ ~Fresh(id).sticky /\ Fresh(id).exp = Created[id] + Life[id]
         /\ LegacyRow(id) \in RowType /\ LegacyRow(id) # None /\ ~LegacyRow(id).sticky
         /\ LegacyRow(id).ts = Created[id] - Offset /\ LegacyRow(id).exp = Created[id] + Life[id] - Offset
<1>1. Created[id] \in Nat /\ Life[id] \in Nat /\ Offset \in Nat /\ None \notin RowType
  BY RetentionAssumption DEF RowType
<1>2. (id \in Outbound) \in BOOLEAN
  OBVIOUS
<1>3. Fresh(id) \in RowType /\ LegacyRow(id) \in RowType
  BY <1>1, <1>2 DEF Fresh, LegacyRow, Row, RowType
<1> QED  BY <1>1, <1>3 DEF Fresh, LegacyRow, Row

-----------------------------------------------------------------------------
(* The reaper is still in time when every row it may purge was so before,  *)
(* or cannot be late yet.                                                  *)
LEMMA StillInTime ==
  ASSUME Types, Reaping, Types', UNCHANGED <<boot, reaper, now>>,
         \A id \in Ids : Reapable(id)' =>
           \/ Reapable(id) /\ Grace(id)' = Grace(id)
           \/ now <= Grace(id)'
  PROVE  Reaping'
<1>1. MaxSleep \in Nat
  BY RetentionAssumption
<1>2. now \in Nat /\ reaper.wake \in Nat
  BY DEF Types
<1>3. ASSUME NEW id \in Ids, Reapable(id)' PROVE Grace(id)' \in Int
  <2>0. rows' \in [Ids -> RowType \cup {None}] /\ since' \in [Ids -> Int] /\ booted' \in Nat
    BY DEF Types
  <2>1. since'[id] \in Int /\ booted' \in Int /\ rows'[id] \in RowType \cup {None}
    BY <2>0
  <2>2. rows'[id] # None
    BY <1>3 DEF Reapable
  <2>3. rows'[id].exp \in Int
    BY <2>1, <2>2 DEF RowType
  <2> QED  BY <2>1, <2>3, MaxThree DEF Grace
<1> QED  BY <1>1, <1>2, <1>3 DEF Reaping, Up

(* A bundle or a message is stored. *)
LEMMA InsertStep ==
  ASSUME IInv, NEW id \in Ids, Free, Insert(id),
         (bpa[id] \in {"due", "injected"} /\ id \in Chats) \/ (bpa[id] = "written" /\ id \in Files),
         bpa' = [bpa EXCEPT ![id] = "acked"],
         UNCHANGED <<version, disk, boot, del, reaper, lock, now, ops, deleted, booted>>
  PROVE  IInv'
<1> USE DEF IInv
<1>1. version = 1 /\ id \notin Legacy /\ now \in Nat
  BY DEF Free, Up, Types, Progress
<1>2. Expiry(id) = Created[id] + Life[id] /\ Created[id] \in Nat /\ Life[id] \in Nat
  BY <1>1, DueIs
<1>3. Fresh(id) \in RowType /\ Fresh(id) # None /\ ~Fresh(id).sticky /\ Fresh(id).exp = Expiry(id)
  BY <1>2, RowIs
<1>4. Max({now, Fresh(id).exp}) \in Int /\ Max({now, Fresh(id).exp}) >= now
  <2>1. now \in Int /\ Fresh(id).exp \in Int
    BY <1>1, <1>2, <1>3
  <2> QED  BY <2>1, MaxTwo
<1>5. /\ rows' = [rows EXCEPT ![id] = Fresh(id)]
      /\ since' = [since EXCEPT ![id] = Max({now, Fresh(id).exp})]
      /\ convs \subseteq convs' /\ (id \in Chats => Peer[id] \in convs')
      /\ failed' = failed \ {id}
  BY DEF Insert
<1>6. Types'
  BY <1>3, <1>4, <1>5 DEF Types
<1>7. Old' /\ New'
  <2>1. \A x \in Ids : rows'[x] = IF x = id THEN Fresh(id) ELSE rows[x]
    BY <1>5 DEF Types
  <2> QED  BY <1>1, <1>3, <2>1 DEF Old, New
<1>8. Progress'
  <2>1. \A x \in Ids : bpa'[x] = IF x = id THEN "acked" ELSE bpa[x]
    BY DEF Types
  <2>2. Legacy \subseteq Ids
    BY RetentionAssumption
  <2> QED  BY <2>1, <2>2 DEF Progress
<1>9. Stored'
  <2>1. \A x \in Ids : rows'[x] = IF x = id THEN Fresh(id) ELSE rows[x]
    BY <1>5 DEF Types
  <2>2. \A x \in Ids : bpa'[x] = IF x = id THEN "acked" ELSE bpa[x]
    BY DEF Types
  <2> QED  BY <1>3, <1>5, <2>1, <2>2 DEF Stored
<1>10. Payloads'
  <2>1. \A x \in Ids : /\ rows'[x] = IF x = id THEN Fresh(id) ELSE rows[x]
                       /\ x # id => since'[x] = since[x]
    BY <1>5 DEF Types
  <2>2. \A x \in Ids : bpa'[x] = IF x = id THEN "acked" ELSE bpa[x]
    BY DEF Types
  <2>3. id \in Files => bpa[id] = "written"
    BY RetentionAssumption
  <2>4. Files \subseteq Ids
    BY DEF Ids
  <2>5. \A x \in Ids : x # id /\ x \notin failed' => x \notin failed
    BY <1>5
  <2>6. ASSUME NEW f \in Files, f # id  PROVE rows'[f] = rows[f] /\ bpa'[f] = bpa[f] /\ since'[f] = since[f]
    BY <2>1, <2>2, <2>4, <2>6
  <2> QED  BY <1>3, <1>5, <2>1, <2>2, <2>3, <2>4, <2>5, <2>6 DEF Payloads
<1>11. Reaping'
  <2>1. ASSUME NEW x \in Ids, x # id PROVE rows'[x] = rows[x] /\ since'[x] = since[x]
    BY <1>5, <2>1 DEF Types
  <2>2. ASSUME NEW x \in Ids, x # id PROVE (Reapable(x)' => Reapable(x)) /\ Grace(x)' = Grace(x)
    BY <2>1, <2>2 DEF Reapable, Grace
  <2>3. now <= Grace(id)'
    <3>1. since'[id] = Max({now, Fresh(id).exp}) /\ rows'[id] = Fresh(id)
      BY <1>5 DEF Types
    <3>2. since'[id] \in Int /\ rows'[id].exp \in Int
      BY <3>1, <1>2, <1>3, <1>4
    <3>4. booted' \in Int
      <4>1. booted' \in Nat
        BY <1>6 DEF Types
      <4> QED  BY <4>1
    <3>3. Grace(id)' \in Int /\ Grace(id)' >= since'[id]
      BY <3>2, <3>4, MaxThree DEF Grace
    <3> QED  BY <3>1, <3>3, <1>1, <1>4
  <2> QED  BY <1>6, <2>2, <2>3, StillInTime
<1> QED  BY <1>6, <1>7, <1>8, <1>9, <1>10, <1>11

(* The migration, from whichever statement it was left at. *)
LEMMA MigrateStep ==
  ASSUME IInv, Migrate
  PROVE  IInv'
<1> USE DEF IInv
<1>1. UNCHANGED <<convs, disk, bpa, del, reaper, now, deleted, failed, since, booted>>
  BY DEF Migrate, history
<1>2. Legacy \subseteq Ids /\ Files \subseteq Ids /\ Chats \subseteq Ids /\ Files \cap Chats = {} /\ Offset \in Nat
      /\ Ids = Files \cup Chats /\ Hour \in Nat
  BY RetentionAssumption DEF Ids
<1>3. \A x \in Ids : rows[x] \in RowType \cup {None}
  BY DEF Types
<1>4. ASSUME NEW x \in Legacy
      PROVE  /\ Created[x] \in Nat /\ Life[x] \in Nat /\ Half(x) \in Nat
             /\ Created[x] > Offset /\ Created[x] - Offset < Offset
             /\ x \in Chats => Half(x) = IF Life[x] <= Hour THEN Life[x] ELSE Hour
             /\ x \in Files => Half(x) = Life[x]
             /\ Expiry(x) = Created[x] + Half(x)
  BY <1>2, DueIs, RetentionAssumption
<1>5. ~Up /\ ~Up'
  BY DEF Migrate, MigrateChatTimes, MigrateChatLifetimes, MigrateFileTimes, SetVersion, NothingToMigrate, Up
<1>9. version \in {0, 1} /\ (boot \in {"chatLifetimes", "fileTimes", "version"} => version = 0)
  BY DEF Types
<1>6. Progress' /\ Reaping'
  BY <1>1, <1>5 DEF Progress, Reaping
<1>7. CASE UNCHANGED rows /\ version' = 1 /\ boot' = "ready" /\ (version = 1 \/ boot = "version")
  <2>1. Types' /\ Old'
    BY <1>1, <1>7 DEF Types, Old, Boots
  <2>2. Stored' /\ Payloads'
    BY <1>1, <1>7 DEF Stored, Payloads
  <2>3. New'
    <3>1. CASE version = 1
      BY <1>7, <3>1 DEF New
    <3>2. CASE version = 0 /\ boot = "version"
      <4>1. ASSUME NEW x \in Ids, rows[x] # None PROVE rows[x].exp = Expiry(x)
        <5>1. x \in Legacy /\ (x \in Chats => rows[x].exp = Created[x] + Half(x))
              /\ (x \in Files => rows[x].ts = Created[x] /\ rows[x].exp - rows[x].ts \in {Life[x], Half(x)})
          BY <4>1, <3>2 DEF Old
        <5>2. rows[x].exp \in Int
          BY <4>1, <1>3 DEF RowType
        <5> QED  BY <5>1, <5>2, <1>2, <1>4
      <4> QED  BY <4>1, <1>7 DEF New
    <3> QED  BY <3>1, <3>2, <1>7, <1>9
  <2> QED  BY <1>6, <2>1, <2>2, <2>3
<1>8. CASE \/ MigrateChatTimes \/ MigrateChatLifetimes \/ MigrateFileTimes
  <2>1. version = 0 /\ version' = 0
    <3>1. \/ boot = "chatTimes" /\ version < 1
          \/ boot \in {"chatLifetimes", "fileTimes"}
      BY <1>8 DEF MigrateChatTimes, MigrateChatLifetimes, MigrateFileTimes
    <3>2. version' = version
      BY <1>8 DEF MigrateChatTimes, MigrateChatLifetimes, MigrateFileTimes
    <3> QED  BY <3>1, <3>2, <1>9
  <2>2. ASSUME NEW x \in Ids, rows[x] # None
        PROVE  /\ x \in Legacy /\ rows[x] \in RowType /\ rows[x].ts \in Int /\ rows[x].exp \in Int
               /\ ~rows[x].sticky
               /\ rows[x].ts \in {Created[x] - Offset, Created[x]}
               /\ rows[x].exp - rows[x].ts \in {Life[x], Half(x)}
               /\ x \in Chats /\ boot # "chatTimes" => rows[x].ts = Created[x]
               /\ x \in Chats /\ boot = "fileTimes" => rows[x].exp = Created[x] + Half(x)
    <3>1. x \in Legacy
      BY <2>1, <2>2 DEF Old
    <3>2. rows[x] \in RowType
      BY <1>3, <2>2
    <3>3. rows[x].ts \in Int /\ rows[x].exp \in Int
      BY <3>2 DEF RowType
    <3>4. boot \in {"chatTimes", "chatLifetimes", "fileTimes"}
      BY <1>8 DEF MigrateChatTimes, MigrateChatLifetimes, MigrateFileTimes
    <3> QED  BY <2>1, <3>1, <3>2, <3>3, <3>4 DEF Old
  <2>3. ASSUME NEW x \in Ids, rows[x] # None, IsLegacyTime(rows[x])
        PROVE  LET q == [rows[x] EXCEPT !.ts = @ + Offset, !.exp = @ + Offset]
               IN  /\ q \in RowType /\ q # None /\ ~q.sticky
                   /\ q.ts = Created[x] /\ q.exp - q.ts \in {Life[x], Half(x)}
    <3> DEFINE q == [rows[x] EXCEPT !.ts = @ + Offset, !.exp = @ + Offset]
    <3>0. rows[x] \in RowType
      BY <2>2, <2>3
    <3>1. rows[x].ts + Offset \in Int /\ rows[x].exp + Offset \in Int
      BY <2>2, <2>3, <1>2
    <3>2. q \in RowType /\ q.ts = rows[x].ts + Offset /\ q.exp = rows[x].exp + Offset /\ q.sticky = rows[x].sticky
      BY <3>1, <3>0 DEF RowType
    <3>3. q # None
      BY <3>2, RetentionAssumption DEF RowType
    <3>4. rows[x].ts = Created[x] - Offset
      BY <2>2, <2>3, <1>2, <1>4 DEF IsLegacyTime
    <3> HIDE DEF q
    <3>5. q.ts = Created[x] /\ q.exp - q.ts = rows[x].exp - rows[x].ts
      BY <3>2, <3>4, <2>2, <2>3, <1>2, <1>4
    <3> QED  BY <3>2, <3>3, <3>5, <2>2, <2>3 DEF q
  <2>4. ASSUME NEW x \in Ids, rows[x] # None, ~IsLegacyTime(rows[x])
        PROVE  rows[x].ts = Created[x]
    BY <2>2, <2>4, <1>2, <1>4 DEF IsLegacyTime
  <2>5. ASSUME NEW x \in Ids, rows[x] # None, rows'[x] # rows[x], boot = "chatLifetimes"
        PROVE  /\ x \in Chats /\ rows'[x] \in RowType /\ rows'[x] # None /\ ~rows'[x].sticky
               /\ rows'[x].ts = rows[x].ts /\ rows'[x].exp = rows[x].ts + Hour /\ rows[x].exp - rows[x].ts > Hour
    <3>1. /\ x \in Chats /\ rows'[x] = [rows[x] EXCEPT !.exp = rows[x].ts + Hour]
          /\ rows[x].exp - rows[x].ts > Hour
      BY <2>5, <1>8 DEF MigrateChatTimes, MigrateChatLifetimes, MigrateFileTimes, Shortened
    <3>0. rows[x] \in RowType
      BY <2>2, <2>5
    <3>2. rows[x].ts + Hour \in Int
      BY <2>2, <2>5, <1>2
    <3>3. /\ rows'[x] \in RowType /\ rows'[x].ts = rows[x].ts /\ rows'[x].exp = rows[x].ts + Hour
          /\ rows'[x].sticky = rows[x].sticky
      BY <3>1, <3>2, <3>0 DEF RowType
    <3> QED  BY <3>1, <3>3, <2>2, <2>5, RetentionAssumption DEF RowType
  <2>6. ASSUME NEW x \in Ids, rows[x] = None PROVE rows'[x] = None
    BY <2>6, <1>8 DEF MigrateChatTimes, MigrateChatLifetimes, MigrateFileTimes, Converted, Shortened
  <2>7. ASSUME NEW x \in Ids, rows[x] # None
        PROVE  /\ rows'[x] \in RowType /\ rows'[x] # None /\ ~rows'[x].sticky
               /\ rows'[x].ts \in {Created[x] - Offset, Created[x]}
               /\ rows'[x].exp - rows'[x].ts \in {Life[x], Half(x)}
               /\ x \in Chats => rows'[x].ts = Created[x]
               /\ x \in Chats /\ boot' \in {"fileTimes", "version"} => rows'[x].exp = Created[x] + Half(x)
               /\ x \in Files /\ boot' = "version" => rows'[x].ts = Created[x]
    <3>1. CASE MigrateChatTimes
      <4>1. boot' = "chatLifetimes"
        BY <3>1 DEF MigrateChatTimes
      <4>2. CASE x \in Chats /\ IsLegacyTime(rows[x])
        <5>1. rows'[x] = [rows[x] EXCEPT !.ts = @ + Offset, !.exp = @ + Offset]
          BY <2>7, <3>1, <4>2 DEF MigrateChatTimes, Converted
        <5> QED  BY <2>3, <2>7, <4>1, <4>2, <5>1, <1>2
      <4>3. CASE ~(x \in Chats /\ IsLegacyTime(rows[x]))
        <5>1. rows'[x] = rows[x]
          BY <3>1, <4>3 DEF MigrateChatTimes, Converted
        <5> QED  BY <2>2, <2>4, <2>7, <4>1, <4>3, <5>1
      <4> QED  BY <4>2, <4>3
    <3>2. CASE MigrateChatLifetimes
      <4>1. boot = "chatLifetimes" /\ boot' = "fileTimes"
        BY <3>2 DEF MigrateChatLifetimes
      <4>2. CASE rows'[x] # rows[x]
        BY <2>2, <2>5, <2>7, <4>1, <4>2, <1>2, <1>4
      <4>3. CASE rows'[x] = rows[x]
        <5>1. x \in Chats => rows[x].exp - rows[x].ts <= Hour
          <6>1. SUFFICES ASSUME x \in Chats, rows[x].exp - rows[x].ts > Hour PROVE FALSE
            BY <2>2, <2>7, <1>2
          <6>2. rows'[x] = [rows[x] EXCEPT !.exp = rows[x].ts + Hour]
            BY <6>1, <2>2, <2>7, <3>2 DEF MigrateChatLifetimes, Shortened
          <6>3. rows[x].ts + Hour \in Int
            BY <2>2, <2>7, <1>2
          <6>5. rows[x] \in RowType
            BY <2>2, <2>7
          <6>4. rows'[x].exp = rows[x].ts + Hour
            BY <6>2, <6>3, <6>5 DEF RowType
          <6> QED  BY <6>1, <6>4, <4>3, <2>2, <2>7, <1>2
        <5>2. x \in Chats => rows[x].exp = Created[x] + Half(x)
          BY <5>1, <4>1, <2>2, <2>7, <1>2, <1>4
        <5> QED  BY <5>2, <4>1, <4>3, <2>2, <2>7
      <4> QED  BY <4>2, <4>3
    <3>3. CASE MigrateFileTimes
      <4>1. boot = "fileTimes" /\ boot' = "version"
        BY <3>3 DEF MigrateFileTimes
      <4>2. CASE x \in Files /\ IsLegacyTime(rows[x])
        <5>1. rows'[x] = [rows[x] EXCEPT !.ts = @ + Offset, !.exp = @ + Offset]
          BY <2>7, <3>3, <4>2 DEF MigrateFileTimes, Converted
        <5>2. x \notin Chats
          BY <4>2, <1>2
        <5> QED  BY <2>3, <2>7, <4>1, <4>2, <5>1, <5>2
      <4>3. CASE ~(x \in Files /\ IsLegacyTime(rows[x]))
        <5>1. rows'[x] = rows[x]
          BY <3>3, <4>3 DEF MigrateFileTimes, Converted
        <5> QED  BY <2>2, <2>4, <2>7, <4>1, <4>3, <5>1
      <4> QED  BY <4>2, <4>3
    <3> QED  BY <3>1, <3>2, <3>3, <1>8
  <2>8. Types'
    <3>1. rows' = [x \in Ids |-> rows'[x]]
      BY <1>8 DEF MigrateChatTimes, MigrateChatLifetimes, MigrateFileTimes, Converted, Shortened
    <3>2. \A x \in Ids : rows'[x] \in RowType \cup {None}
      BY <2>6, <2>7
    <3>3. rows' \in [Ids -> RowType \cup {None}]
      BY <3>1, <3>2
    <3>4. boot' \in {"chatLifetimes", "fileTimes", "version"}
      BY <1>8 DEF MigrateChatTimes, MigrateChatLifetimes, MigrateFileTimes
    <3> QED  BY <1>1, <2>1, <3>3, <3>4 DEF Types, Boots
  <2>9. Old'
    <3>1. \A x \in Ids : rows'[x] # None <=> rows[x] # None
      BY <2>6, <2>7
    <3> QED  BY <1>1, <1>2, <2>1, <2>7, <3>1 DEF Old
  <2>10. New' /\ Stored'
    BY <1>1, <2>1, <2>6, <2>7 DEF New, Stored
  <2>11. Payloads'
    BY <1>1, <1>2, <2>1, <2>6 DEF Old, Payloads
  <2> QED  BY <1>6, <2>8, <2>9, <2>10, <2>11
<1>10. version >= 1 => version = 1
  BY <1>9
<1> QED  BY <1>7, <1>8, <1>10 DEF Migrate, SetVersion, NothingToMigrate

(* The station comes up. *)
LEMMA ComeUpStep ==
  ASSUME IInv, ComeUp
  PROVE  IInv'
<1> USE DEF IInv
<1>1. UNCHANGED <<rows, version, convs, disk, bpa, del, now, deleted, failed, since>>
      /\ boot = "ready" /\ boot' = "up" /\ booted' = now
      /\ reaper' = [pc |-> "purge", at |-> now, wake |-> now]
  BY DEF ComeUp, store
<1>2. Types'
  BY <1>1 DEF Types, Boots
<1>3. version = 1
  BY <1>1 DEF Types
<1>4. Old' /\ New' /\ Progress' /\ Stored'
  BY <1>1, <1>3 DEF Old, New, Progress, Stored
<1>5. Payloads'
  BY <1>1 DEF Payloads
<1>6. Reaping'
  <2>1. ASSUME NEW x \in Ids, Reapable(x)' PROVE now' <= Grace(x)' + MaxSleep
    <3>0. rows' \in [Ids -> RowType \cup {None}] /\ since' \in [Ids -> Int] /\ booted' \in Nat /\ MaxSleep \in Nat
      BY <1>2, RetentionAssumption DEF Types
    <3>1. since'[x] \in Int /\ booted' \in Int /\ rows'[x] \in RowType
      BY <3>0, <2>1 DEF Reapable
    <3>2. rows'[x].exp \in Int
      BY <3>1 DEF RowType
    <3>3. Grace(x)' \in Int /\ booted' <= Grace(x)'
      BY <3>1, <3>2, MaxThree DEF Grace
    <3> QED  BY <3>0, <3>3, <1>1
  <2> QED  BY <1>1, <2>1 DEF Reaping
<1> QED  BY <1>2, <1>4, <1>5, <1>6

(* What leaves the rows and the reaper alone keeps the reaper in time. *)
LEMMA SameRows ==
  ASSUME Types, Reaping, Types', UNCHANGED <<boot, reaper, now, rows, since, booted>>
  PROVE  Reaping'
<1>1. \A id \in Ids : Reapable(id)' => Reapable(id) /\ Grace(id)' = Grace(id)
  BY DEF Reapable, Grace
<1> QED  BY <1>1, StillInTime

(* A delivery goes on, or ends with an error: rows stay as they are, and   *)
(* what may be missing from now on is recorded as failed.                  *)
LEMMA DeliveryStep ==
  ASSUME IInv, Up, NEW id \in Ids, id \notin Legacy, NEW b \in {"written", "acked"},
         UNCHANGED <<rows, version, boot, del, reaper, now, deleted, since, booted>>,
         bpa' = [bpa EXCEPT ![id] = b], failed \subseteq failed', convs \subseteq convs',
         disk \subseteq disk' \cup {id}, b = "written" => id \in disk', b = "acked" => id \in failed'
  PROVE  IInv'
<1> USE DEF IInv
<1>1. \A x \in Ids : bpa'[x] = IF x = id THEN b ELSE bpa[x]
  BY DEF Types
<1>2. Files \subseteq Ids /\ Legacy \subseteq Ids
  BY RetentionAssumption DEF Ids
<1>3. Types'
  BY DEF Types
<1>4. Old' /\ New'
  BY DEF Old, New, Types, Up
<1>5. Progress'
  BY <1>1, <1>2 DEF Progress
<1>6. Stored'
  BY <1>1 DEF Stored
<1>7. Payloads'
  BY <1>1, <1>2 DEF Payloads
<1>8. Reaping'
  BY <1>3, SameRows
<1> QED  BY <1>3, <1>4, <1>5, <1>6, <1>7, <1>8

(* A payload is written, or cannot be. *)
LEMMA WritePayloadStep ==
  ASSUME IInv, NEW f \in Files, WritePayload(f) \/ WriteErr(f)
  PROVE  IInv'
<1>1. f \in Ids /\ Up /\ f \notin Legacy
  BY DEF WritePayload, WriteErr, Ids, IInv, Progress
<1>2. CASE WritePayload(f)
  BY <1>1, <1>2, DeliveryStep DEF WritePayload
<1>3. CASE WriteErr(f)
  BY <1>1, <1>3, DeliveryStep DEF WriteErr
<1> QED  BY <1>2, <1>3

(* A row cannot be inserted. *)
LEMMA InsertErrStep ==
  ASSUME IInv, NEW id \in Ids, InsertErr(id)
  PROVE  IInv'
<1>1. Up /\ id \notin Legacy
  BY DEF InsertErr, Inserting, Free, IInv, Progress
<1>2. convs \subseteq convs'
  BY DEF InsertErr, HalfInserted
<1> QED  BY <1>1, <1>2, DeliveryStep DEF InsertErr

(* A message is injected. *)
LEMMA InjectStep ==
  ASSUME IInv, NEW c \in Outbound, Inject(c)
  PROVE  IInv'
<1> USE DEF IInv
<1>1. UNCHANGED <<rows, version, convs, disk, boot, del, reaper, now, deleted, failed, since, booted>>
      /\ Up /\ bpa[c] = "due" /\ bpa' = [bpa EXCEPT ![c] = "injected"]
  BY DEF Inject, store, history
<1>3. c \in Ids /\ Files \subseteq Ids /\ Legacy \subseteq Ids /\ c \notin Legacy
  BY <1>1, RetentionAssumption DEF Ids, Chats, Progress
<1>4. \A x \in Ids : bpa'[x] = IF x = c THEN "injected" ELSE bpa[x]
  BY <1>1 DEF Types
<1>5. Types'
  BY <1>1 DEF Types
<1>6. Old' /\ New'
  BY <1>1 DEF Old, New, Types, Up
<1>7. Progress'
  BY <1>1, <1>3, <1>4 DEF Progress
<1>8. Stored' /\ Payloads'
  BY <1>1, <1>3, <1>4 DEF Stored, Payloads
<1>9. Reaping'
  BY <1>1, <1>5, SameRows
<1> QED  BY <1>5, <1>6, <1>7, <1>8, <1>9

(* The operator deletes a file. *)
LEMMA DeleteStep ==
  ASSUME IInv, NEW f \in Files, DeleteReads(f) \/ DeleteRemoves(f) \/ DeleteFinishes(f)
  PROVE  IInv'
<1> USE DEF IInv
<1>1. UNCHANGED <<version, convs, boot, bpa, reaper, now, failed, since, booted>> /\ Up
  BY DEF DeleteReads, DeleteRemoves, DeleteFinishes, store, history, Free
<1>2. f \in Ids /\ Files \subseteq Ids /\ Files \cap Chats = {}
  BY RetentionAssumption DEF Ids
<1>3. /\ f \in deleted' /\ deleted \subseteq deleted'
      /\ disk' \in {disk, disk \ {f}}
      /\ \E d \in {"no", "read", "removed"} : del' = [del EXCEPT ![f] = d]
      /\ (rows' = rows \/ rows' = [rows EXCEPT ![f] = None])
  BY DEF DeleteReads, DeleteRemoves, DeleteFinishes, store, history, Progress
<1>4. \A x \in Ids : rows'[x] = rows[x] \/ (x = f /\ rows'[x] = None)
  BY <1>2, <1>3 DEF Types
<1>5. Types'
  BY <1>1, <1>3 DEF Types
<1>6. Old' /\ New'
  BY <1>1, <1>4 DEF Old, New, Types, Up
<1>7. Progress'
  <2>1. \A g \in Files : g # f => del'[g] = del[g]
    BY <1>3 DEF Types
  <2> QED  BY <2>1, <1>1, <1>3 DEF Progress
<1>8. Stored'
  BY <1>1, <1>3, <1>4 DEF Stored
<1>9. Payloads'
  BY <1>1, <1>2, <1>3, <1>4 DEF Payloads
<1>10. Reaping'
  <2>1. \A x \in Ids : Reapable(x)' => Reapable(x) /\ Grace(x)' = Grace(x)
    BY <1>1, <1>4 DEF Reapable, Grace
  <2> QED  BY <1>1, <1>5, <2>1, StillInTime
<1> QED  BY <1>5, <1>6, <1>7, <1>8, <1>9, <1>10

(* The operator pins or unpins. *)
LEMMA ToggleStep ==
  ASSUME IInv, NEW id \in Ids, ToggleSticky(id)
  PROVE  IInv'
<1> USE DEF IInv
<1>1. UNCHANGED <<version, convs, disk, boot, bpa, del, reaper, now, deleted, failed, booted>> /\ Up /\ rows[id] # None
  BY DEF ToggleSticky, Free
<1>2. rows[id] \in RowType /\ now \in Nat
  BY <1>1 DEF Types
<1>3. rows[id].exp \in Int /\ now \in Int
  BY <1>2 DEF RowType
<1> DEFINE q == [rows[id] EXCEPT !.sticky = ~@]
           s == IF rows[id].sticky THEN Max({now, rows[id].exp}) ELSE now
<1>4. q \in RowType /\ q.exp = rows[id].exp /\ q.sticky = ~rows[id].sticky
  BY <1>2 DEF RowType
<1>5. q # None
  BY <1>4, RetentionAssumption DEF RowType
<1>6. s \in Int /\ s >= now
  <2>1. Max({now, rows[id].exp}) \in Int /\ Max({now, rows[id].exp}) >= now
    BY <1>3, MaxTwo
  <2> QED  BY <2>1, <1>3
<1>7. rows' = [rows EXCEPT ![id] = q] /\ since' = [since EXCEPT ![id] = s]
  BY DEF ToggleSticky, Toggled
<1> HIDE DEF q, s
<1>8. \A x \in Ids : rows'[x] = (IF x = id THEN q ELSE rows[x]) /\ since'[x] = (IF x = id THEN s ELSE since[x])
  BY <1>7 DEF Types
<1>9. Types'
  BY <1>1, <1>4, <1>6, <1>7 DEF Types
<1>10. Old' /\ New'
  BY <1>1, <1>4, <1>5, <1>8 DEF Old, New, Types, Up
<1>11. Progress'
  BY <1>1 DEF Progress
<1>12. Stored'
  BY <1>1, <1>5, <1>8 DEF Stored
<1>13. Payloads'
  <2>1. ASSUME NEW f \in Files, f \notin disk', f \notin deleted'
        PROVE  /\ f \notin failed' /\ rows'[f] # None => rows'[f].exp <= now' /\ (rows'[f].sticky => since'[f] >= rows'[f].exp)
               /\ bpa'[f] = "written" => Expiry(f) <= now'
    <3>1. /\ f \notin failed /\ rows[f] # None => rows[f].exp <= now /\ (rows[f].sticky => since[f] >= rows[f].exp)
          /\ bpa[f] = "written" => Expiry(f) <= now
      BY <2>1, <1>1 DEF Payloads
    <3>2. f \in Ids
      BY DEF Ids
    <3>3. CASE f # id
      BY <3>1, <3>2, <3>3, <1>1, <1>8
    <3>4. CASE f = id
      <4>1. rows'[f] = q /\ since'[f] = s /\ (f \notin failed => rows[f].exp <= now)
        BY <3>1, <3>2, <3>4, <1>1, <1>8
      <4>2. f \notin failed => q.exp <= now /\ s >= q.exp
        BY <4>1, <1>3, <1>4, <1>6, <3>4
      <4> QED  BY <4>1, <4>2, <3>1, <1>1
    <3> QED  BY <3>3, <3>4
  <2> QED  BY <2>1 DEF Payloads
<1>14. Reaping'
  <2>1. ASSUME NEW x \in Ids, x # id PROVE (Reapable(x)' => Reapable(x)) /\ Grace(x)' = Grace(x)
    <3>1. rows'[x] = rows[x] /\ since'[x] = since[x]
      BY <1>8, <2>1
    <3> QED  BY <3>1, <1>1 DEF Reapable, Grace
  <2>2. now <= Grace(id)'
    <3>1. since'[id] = s /\ rows'[id] = q
      BY <1>8
    <3>2. since'[id] \in Int /\ rows'[id].exp \in Int
      BY <3>1, <1>3, <1>4, <1>6
    <3>3. booted' \in Nat
      BY <1>9 DEF Types
    <3>5. booted' \in Int
      BY <3>3
    <3>4. Grace(id)' \in Int /\ Grace(id)' >= since'[id]
      BY <3>2, <3>5, MaxThree DEF Grace
    <3> QED  BY <3>1, <3>4, <1>3, <1>6
  <2> QED  BY <1>1, <1>9, <2>1, <2>2, StillInTime
<1> QED  BY <1>9, <1>10, <1>11, <1>12, <1>13, <1>14

(* The operator looks at a conversation or a file. *)
LEMMA BrowseStep ==
  ASSUME IInv, Browse
  PROVE  IInv'
<1> USE DEF IInv
<1>1. UNCHANGED <<version, disk, boot, bpa, del, reaper, now, deleted, failed, since, booted>> /\ Up
  BY DEF Browse, Free, history
<1>2. convs \subseteq convs' /\ (rows' = rows \/ \E S : MarkRead(S))
  BY DEF Browse, CreateConversation, MarkConversationRead, GetFileDetails
<1>3. ASSUME NEW x \in Ids
      PROVE  /\ rows'[x] \in RowType \cup {None} /\ (rows'[x] # None <=> rows[x] # None)
             /\ rows[x] # None => rows'[x].exp = rows[x].exp /\ rows'[x].sticky = rows[x].sticky
  <2>1. rows[x] \in RowType \cup {None} /\ None \notin RowType
    BY RetentionAssumption DEF Types, RowType
  <2>2. rows'[x] = rows[x] \/ (rows[x] # None /\ rows'[x] = [rows[x] EXCEPT !.read = TRUE])
    BY <1>2 DEF MarkRead
  <2>3. CASE rows'[x] = rows[x]
    BY <2>1, <2>3
  <2>4. CASE rows[x] # None /\ rows'[x] = [rows[x] EXCEPT !.read = TRUE]
    <3>1. rows[x] \in RowType
      BY <2>1, <2>4
    <3>2. rows'[x] \in RowType /\ rows'[x].exp = rows[x].exp /\ rows'[x].sticky = rows[x].sticky
      BY <2>4, <3>1 DEF RowType
    <3> QED  BY <2>1, <2>4, <3>2
  <2> QED  BY <2>2, <2>3, <2>4
<1>4. Types'
  <2>1. rows' = [x \in Ids |-> rows'[x]]
    BY <1>2 DEF MarkRead, Types
  <2>2. rows' \in [Ids -> RowType \cup {None}]
    BY <2>1, <1>3
  <2> QED  BY <2>2, <1>1 DEF Types
<1>5. Old' /\ New'
  BY <1>1, <1>3 DEF Old, New, Types, Up
<1>6. Progress'
  BY <1>1 DEF Progress
<1>7. Stored'
  BY <1>1, <1>2, <1>3 DEF Stored
<1>8. Payloads'
  <2>1. Files \subseteq Ids
    BY DEF Ids
  <2> QED  BY <2>1, <1>1, <1>3 DEF Payloads
<1>9. Reaping'
  <2>1. \A x \in Ids : Reapable(x)' => Reapable(x) /\ Grace(x)' = Grace(x)
    BY <1>1, <1>3 DEF Reapable, Grace
  <2> QED  BY <1>1, <1>4, <2>1, StillInTime
<1> QED  BY <1>4, <1>5, <1>6, <1>7, <1>8, <1>9

(* The reaper removes the files of what has expired. *)
LEMMA PurgeFilesStep ==
  ASSUME IInv, PurgeFiles
  PROVE  IInv'
<1> USE DEF IInv
<1>1. /\ UNCHANGED <<rows, version, convs, boot, bpa, del, now, deleted, failed, since, booted>> /\ Up
      /\ disk' = disk \ Expired(now) /\ reaper.pc = "purge" /\ reaper' = [reaper EXCEPT !.pc = "rows", !.at = now]
  BY DEF PurgeFiles, Free, history
<1>2. reaper'.pc = "rows" /\ reaper'.at = now
  BY <1>1 DEF Types
<1>3. Types'
  BY <1>1 DEF Types
<1>4. Old' /\ New' /\ Progress'
  BY <1>1 DEF Old, New, Types, Up, Progress
<1>5. Stored'
  BY <1>1 DEF Stored
<1>6. Payloads'
  <2>1. ASSUME NEW f \in Files, f \notin disk', f \in disk
        PROVE  rows[f] # None /\ ~rows[f].sticky /\ rows[f].exp <= now /\ rows[f].exp = Expiry(f)
    <3>1. f \in Expired(now)
      BY <2>1, <1>1
    <3>2. f \in Ids /\ Reapable(f) /\ rows[f].exp <= now
      BY <3>1 DEF Expired
    <3>3. version = 1
      BY <1>1 DEF Types, Up
    <3> QED  BY <3>2, <3>3 DEF Reapable, New
  <2> QED  BY <2>1, <1>1 DEF Payloads
<1>7. Reaping'
  <2>1. \A x \in Ids : Reapable(x)' => Reapable(x) /\ Grace(x)' = Grace(x)
    BY <1>1 DEF Reapable, Grace
  <2> QED  BY <2>1, <1>1, <1>2 DEF Reaping
<1> QED  BY <1>3, <1>4, <1>5, <1>6, <1>7

(* The reaper deletes the rows of what has expired. *)
LEMMA PurgeRowsStep ==
  ASSUME IInv, PurgeRows
  PROVE  IInv'
<1> USE DEF IInv
<1>1. /\ UNCHANGED <<version, convs, disk, boot, bpa, del, now, deleted, failed, since, booted>> /\ Up
      /\ reaper.pc = "rows" /\ reaper' = [reaper EXCEPT !.pc = "deadline"]
      /\ rows' = [id \in Ids |-> IF id \in Expired(reaper.at) THEN None ELSE rows[id]]
  BY DEF PurgeRows, history
<1>2. reaper.at = now /\ version = 1 /\ now \in Nat
  BY <1>1 DEF Reaping, Types, Up
<1>3. reaper'.pc = "deadline" /\ reaper'.at = now
  BY <1>1, <1>2 DEF Types
<1>4. \A x \in Ids : rows'[x] = IF Reapable(x) /\ rows[x].exp <= now THEN None ELSE rows[x]
  BY <1>1, <1>2 DEF Expired
<1>5. \A x \in Ids : rows[x] \in RowType \cup {None}
  BY DEF Types
<1>6. Types'
  <2>1. rows' \in [Ids -> RowType \cup {None}]
    BY <1>1, <1>5
  <2>2. reaper' \in [pc : {"off", "purge", "rows", "deadline", "asleep"}, at : Nat, wake : Nat]
    BY <1>1 DEF Types
  <2> QED  BY <2>1, <2>2, <1>1 DEF Types
<1>7. Old' /\ New' /\ Progress'
  BY <1>1, <1>2, <1>4 DEF Old, New, Progress
<1>8. Stored'
  <2>1. ASSUME NEW x \in Ids, rows[x] # None, rows'[x] = None PROVE Expiry(x) <= now
    <3>1. Reapable(x) /\ rows[x].exp <= now
      BY <2>1, <1>4
    <3> QED  BY <2>1, <3>1, <1>2 DEF New
  <2>2. \A x \in Ids : Expiry(x) \in Nat
    BY DueIs
  <2>3. \A x \in Ids : rows'[x] # None => rows[x] # None
    BY <1>4
  <2>4. \A x \in Ids : now < Expiry(x) => ~(Expiry(x) <= now)
    BY <2>2, <1>2
  <2> QED  BY <2>1, <2>3, <2>4, <1>1 DEF Stored
<1>9. Payloads'
  <2>1. Files \subseteq Ids
    BY DEF Ids
  <2> QED  BY <2>1, <1>1, <1>4 DEF Payloads
<1>10. Reaping'
  <2>1. ASSUME NEW x \in Ids, Reapable(x)' PROVE now <= Grace(x)'
    <3>1. rows'[x] = rows[x] /\ ~(rows[x].exp <= now) /\ rows[x] # None
      BY <2>1, <1>4 DEF Reapable
    <3>2. rows[x].exp \in Int /\ rows[x].exp > now
      <4>1. rows[x].exp \in Int
        BY <3>1, <1>5 DEF RowType
      <4> QED  BY <4>1, <3>1, <1>2
    <3>3. since'[x] \in Int /\ booted' \in Nat
      BY <1>6 DEF Types
    <3>4. booted' \in Int /\ rows'[x].exp \in Int
      BY <3>1, <3>2, <3>3
    <3>5. Grace(x)' \in Int /\ Grace(x)' >= rows'[x].exp
      BY <3>3, <3>4, MaxThree DEF Grace
    <3> QED  BY <3>1, <3>2, <3>5, <1>2
  <2> QED  BY <2>1, <1>1, <1>3 DEF Reaping
<1> QED  BY <1>6, <1>7, <1>8, <1>9, <1>10

(* The reaper goes to sleep, for no longer than its clamp allows. *)
LEMMA ReaperSleepsStep ==
  ASSUME IInv, ReaperSleeps
  PROVE  IInv'
<1> USE DEF IInv
<1>1. UNCHANGED <<rows, version, convs, disk, boot, bpa, del, now, deleted, failed, since, booted>> /\ Up
      /\ reaper.pc = "deadline"
  BY DEF ReaperSleeps, Free, store, history
<1>2. now \in Nat /\ MaxSleep \in Nat /\ version = 1 /\ reaper.at \in Nat
  BY <1>1, RetentionAssumption DEF Types, Up
<1>3. PICK z \in 1..MaxSleep : reaper' = [reaper EXCEPT !.pc = "asleep", !.wake = now + z]
  <2> DEFINE d == {rows[id].exp : id \in {i \in Ids : Reapable(i)}}
  <2>1. \A i \in Ids : Reapable(i) => rows[i].exp \in Nat
    <3>1. SUFFICES ASSUME NEW i \in Ids, rows[i] # None PROVE rows[i].exp \in Nat
      BY DEF Reapable
    <3>2. rows[i].exp = Expiry(i)
      BY <3>1, <1>2 DEF New
    <3> QED  BY <3>2, DueIs
  <2>2. d \in SUBSET Nat
    BY <2>1
  <2>3. Sleep(d, reaper.at) \in 1..MaxSleep
    BY <2>2, <1>2, SleepIsClamped
  <2> QED  BY <2>3 DEF ReaperSleeps
<1>4. z \in Nat /\ z <= MaxSleep
  BY <1>2
<1>5. reaper'.pc = "asleep" /\ reaper'.wake = now + z /\ now + z \in Nat
  BY <1>2, <1>3, <1>4 DEF Types
<1>6. Types'
  <2>1. reaper' \in [pc : {"off", "purge", "rows", "deadline", "asleep"}, at : Nat, wake : Nat]
    BY <1>3, <1>5 DEF Types
  <2> QED  BY <2>1, <1>1 DEF Types
<1>7. Old' /\ New' /\ Progress'
  BY <1>1, <1>2 DEF Old, New, Progress
<1>8. Stored' /\ Payloads'
  BY <1>1 DEF Stored, Payloads
<1>9. Reaping'
  <2>1. ASSUME NEW x \in Ids, Reapable(x)' PROVE now + z <= Grace(x)' + MaxSleep
    <3>1. rows[x] # None /\ Reapable(x) /\ Grace(x)' = Grace(x)
      BY <2>1, <1>1 DEF Reapable, Grace
    <3>2. now <= Grace(x)
      BY <3>1, <1>1 DEF Reaping
    <3>3. since[x] \in Int /\ booted \in Nat /\ rows[x] \in RowType
      BY <3>1 DEF Types
    <3>4. rows[x].exp \in Int /\ booted \in Int
      BY <3>3 DEF RowType
    <3>5. Grace(x) \in Int
      BY <3>3, <3>4, MaxThree DEF Grace
    <3> QED  BY <3>1, <3>2, <3>5, <1>2, <1>4
  <2> QED  BY <2>1, <1>1, <1>2, <1>4, <1>5 DEF Reaping
<1> QED  BY <1>6, <1>7, <1>8, <1>9

(* The reaper wakes. *)
LEMMA ReaperWakesStep ==
  ASSUME IInv, ReaperWakes
  PROVE  IInv'
<1> USE DEF IInv
<1>1. UNCHANGED <<rows, version, convs, disk, boot, bpa, del, now, deleted, failed, since, booted>> /\ Up
      /\ reaper.pc = "asleep" /\ now >= reaper.wake /\ reaper' = [reaper EXCEPT !.pc = "purge"]
  BY DEF ReaperWakes, store, history
<1>2. Types' /\ reaper'.pc = "purge"
  BY <1>1 DEF Types
<1>3. Old' /\ New' /\ Progress'
  BY <1>1 DEF Old, New, Progress, Types, Up
<1>4. Stored' /\ Payloads'
  BY <1>1 DEF Stored, Payloads
<1>5. Reaping'
  <2>1. now = reaper.wake
    <3>1. now \in Nat /\ reaper.wake \in Nat /\ now <= reaper.wake
      BY <1>1 DEF Types, Reaping
    <3> QED  BY <3>1, <1>1
  <2>2. \A x \in Ids : Reapable(x)' => Reapable(x) /\ Grace(x)' = Grace(x)
    BY <1>1 DEF Reapable, Grace
  <2> QED  BY <2>1, <2>2, <1>1, <1>2 DEF Reaping
<1> QED  BY <1>2, <1>3, <1>4, <1>5

(* Time passes. *)
LEMMA TickStep ==
  ASSUME IInv, Tick
  PROVE  IInv'
<1> USE DEF IInv
<1>1. /\ UNCHANGED <<rows, version, convs, disk, boot, bpa, del, reaper, deleted, failed, since, booted>>
      /\ now' = now + 1 /\ (Up => reaper.pc = "asleep" /\ now < reaper.wake)
  BY DEF Tick, store, history
<1>2. now \in Nat /\ MaxSleep \in Nat /\ reaper.wake \in Nat
  BY RetentionAssumption DEF Types
<1>3. Types'
  BY <1>1 DEF Types
<1>4. Old' /\ New' /\ Progress'
  BY <1>1 DEF Old, New, Progress
<1>5. Stored'
  <2>1. \A x \in Ids : Expiry(x) \in Nat
    BY DueIs
  <2>2. \A x \in Ids : now' < Expiry(x) => now < Expiry(x)
    BY <2>1, <1>1, <1>2
  <2> QED  BY <2>2, <1>1 DEF Stored
<1>6. Payloads'
  <2>1. ASSUME NEW f \in Files, rows[f] # None, rows[f].exp <= now PROVE rows[f].exp <= now'
    <3>1. rows[f] \in RowType
      BY <2>1 DEF Types, Ids
    <3>2. rows[f].exp \in Int
      BY <3>1 DEF RowType
    <3> QED  BY <2>1, <3>2, <1>1, <1>2
  <2>2. ASSUME NEW f \in Files, Expiry(f) <= now PROVE Expiry(f) <= now'
    <3>1. Expiry(f) \in Nat
      BY DueIs DEF Ids
    <3> QED  BY <2>2, <3>1, <1>1, <1>2
  <2> QED  BY <2>1, <2>2, <1>1 DEF Payloads
<1>7. Reaping'
  <2>1. ASSUME Up' PROVE Reaping'
    <3>1. Up /\ reaper.pc = "asleep" /\ now < reaper.wake /\ reaper.wake <= now + MaxSleep
      BY <2>1, <1>1 DEF Up, Reaping
    <3>2. now' <= reaper'.wake /\ reaper'.wake <= now' + MaxSleep /\ reaper'.pc = "asleep"
      BY <3>1, <1>1, <1>2
    <3>3. \A x \in Ids : Reapable(x)' => Reapable(x) /\ Grace(x)' = Grace(x)
      BY <1>1 DEF Reapable, Grace
    <3> QED  BY <3>1, <3>2, <3>3, <1>1 DEF Reaping
  <2> QED  BY <2>1 DEF Reaping
<1> QED  BY <1>3, <1>4, <1>5, <1>6, <1>7

(* The process dies: rows and files are kept, except the files that were   *)
(* being written, and what was in progress is started again or delivered   *)
(* again.                                                                  *)
LEMMA CrashStep ==
  ASSUME IInv, Crash
  PROVE  IInv'
<1> USE DEF IInv
<1>1. /\ UNCHANGED <<rows, version, now, deleted, since, booted>>
      /\ boot' = "chatTimes" /\ reaper' = Asleep /\ del' = [f \in Files |-> "no"]
  BY DEF Crash
<1>10. PICK torn \in SUBSET Writing : disk' = disk \ torn /\ failed' = failed \cup torn
  BY DEF Crash
<1>11. convs \subseteq convs' /\ (version = 0 => torn = {})
  BY <1>10 DEF Crash, HalfInserted, Writing, Types, Up
<1>2. /\ bpa' = [x \in Ids |-> bpa'[x]]
      /\ \A x \in Ids : /\ bpa'[x] \in {"due", bpa[x], "lost"} /\ bpa'[x] # "written" /\ bpa'[x] # "injected"
                        /\ x \in Legacy => bpa'[x] = Redelivered(bpa[x])
  BY DEF Crash, Redelivered
<1>3. Legacy \subseteq Ids /\ Files \subseteq Ids
  BY RetentionAssumption DEF Ids
<1>4. Types'
  <2>1. bpa' \in [Ids -> {"due", "written", "injected", "acked", "lost"}]
    BY <1>2 DEF Types
  <2>2. reaper' \in [pc : {"off", "purge", "rows", "deadline", "asleep"}, at : Nat, wake : Nat]
    BY <1>1 DEF Asleep
  <2>3. del' \in [Files -> {"no", "read", "removed"}]
    BY <1>1
  <2> QED  BY <2>1, <2>2, <2>3, <1>1 DEF Types, Boots
<1>5. Old'
  <2>1. boot' \notin {"chatLifetimes", "fileTimes", "version"}
    BY <1>1
  <2>2. \A x \in Ids : bpa'[x] = "acked" => bpa[x] = "acked"
    BY <1>2
  <2>3. \A x \in Ids : bpa'[x] \in {"acked", "due", "lost"}
    BY <1>2, <1>4 DEF Types
  <2>4. version = 0 => disk' = disk
    BY <1>10, <1>11
  <2> QED  BY <2>1, <2>2, <2>3, <2>4, <1>1 DEF Old
<1>6. New'
  BY <1>1 DEF New
<1>7. Progress'
  <2>1. \A f \in Files : del'[f] = "no"
    BY <1>1
  <2> QED  BY <2>1, <1>2, <1>3 DEF Progress, Redelivered
<1>8. Stored' /\ Payloads'
  <2>1. \A x \in Ids : (bpa'[x] = "acked" => bpa[x] = "acked") /\ bpa'[x] # "written"
    BY <1>2
  <2> QED  BY <2>1, <1>1, <1>3, <1>10, <1>11 DEF Stored, Payloads
<1>9. Reaping'
  BY <1>1 DEF Reaping, Up
<1> QED  BY <1>4, <1>5, <1>6, <1>7, <1>8, <1>9

-----------------------------------------------------------------------------
(* The database of user_version 0 that the station is first started on. *)
LEMMA InvInit ==
  ASSUME Init
  PROVE  IInv
<1> USE DEF Init
<1>1. Legacy \subseteq Ids /\ Files \subseteq Ids /\ Offset \in Nat /\ Start \in Nat
  BY RetentionAssumption DEF Ids
<1>2. \A x \in Ids : rows[x] = IF x \in Legacy THEN LegacyRow(x) ELSE None
  OBVIOUS
<1>3. \A x \in Ids : bpa[x] = IF x \in Legacy THEN "acked" ELSE "due"
  OBVIOUS
<1>4. Types
  <2>1. rows \in [Ids -> RowType \cup {None}]
    BY RowIs
  <2>2. reaper \in [pc : {"off", "purge", "rows", "deadline", "asleep"}, at : Nat, wake : Nat]
    BY DEF Asleep
  <2>3. since \in [Ids -> Int]
    OBVIOUS
  <2> QED  BY <2>1, <2>2, <2>3, <1>1 DEF Types, Boots
<1>5. ASSUME NEW x \in Legacy
      PROVE  /\ rows[x] # None /\ ~rows[x].sticky /\ (x \in Files => x \in disk)
             /\ rows[x].ts = Created[x] - Offset /\ rows[x].exp - rows[x].ts = Life[x]
  <2>1. x \in Ids /\ rows[x] = LegacyRow(x)
    BY <1>1, <1>2
  <2>2. Created[x] \in Nat /\ Life[x] \in Nat
    BY <2>1, DueIs
  <2>3. /\ rows[x] # None /\ ~rows[x].sticky
        /\ rows[x].ts = Created[x] - Offset /\ rows[x].exp = Created[x] + Life[x] - Offset
    BY <2>1, RowIs
  <2> QED  BY <2>2, <2>3, <1>1
<1>6. Old /\ New
  BY <1>2, <1>3, <1>5 DEF Old, New
<1>7. Progress
  BY <1>1, <1>3 DEF Progress
<1>8. Stored
  BY <1>2, <1>3, <1>5 DEF Stored
<1>9. Payloads
  BY <1>1, <1>2, <1>3, <1>5 DEF Payloads
<1>10. Reaping
  BY DEF Reaping, Up
<1> QED  BY <1>4, <1>6, <1>7, <1>8, <1>9, <1>10 DEF IInv

(* Every step keeps the invariant. *)
LEMMA InvNext ==
  ASSUME IInv, [Next]_vars
  PROVE  IInv'
<1>1. ASSUME NEW f \in Files, InsertFileBundle(f) PROVE IInv'
  <2>1. f \in Ids
    BY DEF Ids
  <2> QED  BY <1>1, <2>1, InsertStep DEF InsertFileBundle
<1>2. ASSUME NEW c \in Chats, InsertChatMessage(c) \/ StoreSent(c) PROVE IInv'
  <2>1. c \in Ids
    BY DEF Ids
  <2> QED  BY <1>2, <2>1, InsertStep DEF InsertChatMessage, StoreSent
<1>3. CASE UNCHANGED vars
  <2>1. Types'
    BY <1>3 DEF vars, IInv, Types
  <2>2. Old' /\ New'
    BY <1>3 DEF vars, IInv, Old, New
  <2>3. Progress' /\ Stored' /\ Payloads'
    BY <1>3 DEF vars, IInv, Progress, Stored, Payloads
  <2>4. Reaping'
    BY <1>3, <2>1, SameRows DEF vars, IInv
  <2> QED  BY <2>1, <2>2, <2>3, <2>4 DEF IInv
<1>4. \A f \in Files : WritePayload(f) \/ WriteErr(f) => IInv'
  BY WritePayloadStep
<1>5. \A f \in Files : DeleteReads(f) \/ DeleteRemoves(f) \/ DeleteFinishes(f) => IInv'
  BY DeleteStep
<1>6. \A c \in Outbound : Inject(c) => IInv'
  BY InjectStep
<1>7. \A id \in Ids : InsertErr(id) \/ ToggleSticky(id) => IInv'
  BY ToggleStep, InsertErrStep
<1>8. CASE Next
  BY <1>1, <1>2, <1>4, <1>5, <1>6, <1>7, <1>8, MigrateStep, ComeUpStep, BrowseStep, PurgeFilesStep, PurgeRowsStep,
     ReaperSleepsStep, ReaperWakesStep, TickStep, CrashStep DEF Next, Chats
<1> QED  BY <1>3, <1>8

(* The invariant holds always. *)
LEMMA InvHolds == Spec => []IInv
<1>1. Init => IInv
  BY InvInit
<1>2. IInv /\ [Next]_vars => IInv'
  BY InvNext
<1> QED  BY <1>1, <1>2, PTL DEF Spec

-----------------------------------------------------------------------------
(* What a bundle is promised is its expiry, but for the messages received  *)
(* that the migration cuts short.                                          *)
LEMMA DueIsExpiry ==
  ASSUME NEW id \in Ids, NEW t \in Nat, t < Due(id), id \in CutShort => t < Created[id] + Hour
  PROVE  t < Expiry(id)
<1>1. Created[id] \in Nat /\ Life[id] \in Nat /\ Hour \in Nat /\ Files \cap Chats = {}
  BY RetentionAssumption
<1>2. Min({Life[id], Hour}) = IF Life[id] <= Hour THEN Life[id] ELSE Hour
  BY <1>1, MinTwo
<1>3. CASE id \in Legacy \cap Inbound
  <2>1. id \notin Outbound /\ id \in Chats
    BY <1>3, RetentionAssumption DEF Chats
  <2>2. Due(id) = Created[id] + Life[id]
    BY <2>1 DEF Due
  <2>3. Life[id] > Hour => t < Created[id] + Hour
    BY <1>3 DEF CutShort
  <2> QED  BY <1>1, <1>2, <1>3, <2>1, <2>2, <2>3 DEF Expiry
<1>4. CASE id \notin Legacy \cap Inbound
  BY <1>4 DEF Due, Expiry, Chats
<1> QED  BY <1>3, <1>4

(* What was delivered or sent stays stored until it expires or the         *)
(* operator deletes it: a file with its payload, a message in a listed     *)
(* conversation (FilesService, ChatService, init_tables, purge_expired).   *)
(* Bundles acknowledged although storing them failed, and old messages     *)
(* received once their hour is over, are excepted.                         *)
THEOREM AckedStaysStored == Spec => []AckedIsStored
<1>1. ASSUME IInv PROVE AckedIsStored
  <2> USE <1>1 DEF IInv
  <2>0. SUFFICES ASSUME NEW id \in Ids, bpa[id] = "acked", id \notin deleted \cup failed, now < Due(id),
                        id \in CutShort => now < Created[id] + Hour
                 PROVE  IsStored(id)
    BY DEF AckedIsStored
  <2>1. bpa[id] = "acked" /\ id \notin deleted \cup failed /\ now < Expiry(id)
    <3>1. now \in Nat
      BY DEF Types
    <3> QED  BY <2>0, <3>1, DueIsExpiry
  <2>2. rows[id] # None /\ (id \in Chats => Peer[id] \in convs)
    BY <2>1 DEF Stored
  <2>3. CASE id \in Files
    <3>1. id \in disk
      <4>1. CASE version = 0
        BY <2>2, <2>3, <4>1 DEF Old
      <4>2. CASE version = 1
        <5>1. rows[id].exp = Expiry(id)
          BY <2>2, <4>2 DEF New
        <5>2. Expiry(id) \in Nat /\ now \in Nat
          BY DueIs DEF Types
        <5> QED  BY <2>1, <2>2, <2>3, <5>1, <5>2 DEF Payloads
      <4> QED  BY <4>1, <4>2 DEF Types
    <3> QED  BY <2>2, <2>3, <3>1 DEF IsStored, Downloadable, ListFiles
  <2>4. CASE id \notin Files
    <3> DEFINE M == Messages(Peer[id])
    <3>1. id \in Chats
      BY <2>4 DEF Ids
    <3>2. id \in M /\ M \subseteq Ids
      BY <2>2, <3>1 DEF Messages, Ids
    <3>3. IsFiniteSet(M)
      BY <3>2, RetentionAssumption, FS_Subset
    <3> HIDE DEF M
    <3>4. Cardinality(M) \in Nat /\ Cardinality(M) # 0
      BY <3>2, <3>3, FS_CardinalityType, FS_EmptySet
    <3>5. ListConversations[Peer[id]].total = Cardinality(M) /\ Peer[id] \in DOMAIN ListConversations
      BY <2>2, <3>1 DEF ListConversations, M
    <3>6. ListConversations[Peer[id]].total >= 1
      BY <3>4, <3>5
    <3> QED  BY <2>4, <3>2, <3>5, <3>6 DEF M, IsStored
  <2> QED  BY <2>3, <2>4
<1> QED  BY <1>1, InvHolds, PTL

(* A file pinned before it expired keeps its payload while it is pinned    *)
(* (toggle_sticky against purge_expired), unless writing it again failed.  *)
THEOREM PinnedKeepsPayload == Spec => []PinnedHasPayload
<1>1. ASSUME IInv PROVE PinnedHasPayload
  <2> USE <1>1 DEF IInv
  <2>1. SUFFICES ASSUME NEW f \in Files, rows[f] # None, rows[f].sticky, since[f] < rows[f].exp,
                        f \notin deleted \cup failed, f \notin disk
                 PROVE  FALSE
    BY DEF PinnedHasPayload
  <2>2. since[f] >= rows[f].exp
    BY <2>1 DEF Payloads
  <2>3. since[f] \in Int /\ rows[f] \in RowType
    BY <2>1 DEF Types, Ids
  <2>4. rows[f].exp \in Int
    BY <2>3 DEF RowType
  <2> QED  BY <2>1, <2>2, <2>3, <2>4
<1> QED  BY <1>1, InvHolds, PTL

(* No row that may be purged outlives its expiry by more than the longest  *)
(* sleep of the reaper.                                                    *)
THEOREM ReaperIsInTime == Spec => []ReapedInTime
<1>1. ASSUME IInv PROVE ReapedInTime
  <2> USE <1>1 DEF IInv
  <2>1. SUFFICES ASSUME Up, NEW id \in Ids, Reapable(id) PROVE now <= Grace(id) + MaxSleep
    BY DEF ReapedInTime, Grace
  <2>2. now \in Nat /\ reaper.wake \in Nat /\ reaper.pc \in {"off", "purge", "rows", "deadline", "asleep"}
        /\ MaxSleep \in Nat
    BY RetentionAssumption DEF Types
  <2>3. since[id] \in Int /\ booted \in Nat /\ rows[id] \in RowType
    BY <2>1 DEF Types, Reapable
  <2>4. rows[id].exp \in Int /\ booted \in Int
    BY <2>3 DEF RowType
  <2>5. Grace(id) \in Int
    BY <2>3, <2>4, MaxThree DEF Grace
  <2>6. /\ reaper.pc # "off" /\ (reaper.pc = "asleep" => now <= reaper.wake)
        /\ reaper.pc \in {"purge", "rows"} => now <= Grace(id) + MaxSleep
        /\ reaper.pc = "deadline" => now <= Grace(id)
        /\ reaper.pc = "asleep" => reaper.wake <= Grace(id) + MaxSleep
    BY <2>1 DEF Reaping
  <2> QED  BY <2>2, <2>5, <2>6
<1> QED  BY <1>1, InvHolds, PTL
=============================================================================
