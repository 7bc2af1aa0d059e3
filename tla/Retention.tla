----------------------------- MODULE Retention -----------------------------
(***************************************************************************)
(* The station's internal storage (InternalStorage: an SQLite database and *)
(* a directory of payload files), the chat and files services that fill    *)
(* it, the web handlers through which the operator pins and deletes, and   *)
(* the reaper that purges what has expired.                                *)
(*                                                                         *)
(* The database is behind a mutex; the payload files are not.  A handler   *)
(* that touches both is one action per piece between which another thread  *)
(* can run or the process can crash; each SQL statement outside an         *)
(* explicit transaction is committed on its own.  Rows and files survive a *)
(* crash; a bundle whose delivery had not returned is delivered again.     *)
(*                                                                         *)
(* Times are milliseconds since 1970, scaled.  A database of user_version  *)
(* 0 holds times relative to 2000, which the migration converts.           *)
(***************************************************************************)
EXTENDS Integers, FiniteSets, FiniteSetsExt

CONSTANTS
  Files,      \* ids of bundles for the files service
  Inbound,    \* ids of bundles for the chat service
  Outbound,   \* ids of chat messages the operator sends
  Legacy,     \* ids already stored in a database of user_version 0
  Created,    \* Created[id]: creation time of the bundle
  Life,       \* Life[id]: its lifetime
  Peer,       \* Peer[c]: the station a chat message is exchanged with
  Offset,     \* 946684800000, and the limit below which a time is a legacy one
  Hour,       \* 3600000, the lifetime given to legacy chat messages
  MinSleep, MaxSleep,   \* clamp of the reaper's sleep
  NoneSleep,  \* its sleep when nothing will expire
  Start,      \* the time at which the station is first started
  MaxTime,    \* bound: time
  MaxOps,     \* bound: requests of the operator, write errors and crashes
  None        \* no row

Chats == Inbound \cup Outbound
Ids == Files \cup Chats
Peers == {Peer[c] : c \in Chats}

ASSUME RetentionAssumption ==
  /\ IsFiniteSet(Ids) /\ None \notin [ts : Int, exp : Int, sticky : BOOLEAN, read : BOOLEAN]
  /\ Files \cap Chats = {} /\ Inbound \cap Outbound = {} /\ Legacy \subseteq Ids
  /\ Created \in [Ids -> Nat] /\ Life \in [Ids -> Nat]
  /\ \A id \in Ids : Created[id] > Offset /\ Created[id] - Offset < Offset
  /\ MaxSleep \in Nat /\ MinSleep \in 1..MaxSleep /\ NoneSleep \in 1..MaxSleep
  /\ Offset \in Nat /\ Start \in Nat /\ MaxTime \in Nat /\ MaxOps \in Nat /\ Hour \in Nat

VARIABLES
  rows,       \* files_bundles and chat_messages: the row of each id, or None
  version,    \* PRAGMA user_version
  convs,      \* chat_conversations: the peers the operator sees listed
  disk,       \* payload files that exist
  boot,       \* how far init_tables has come, or "up"
  bpa,        \* delivery of each bundle, as the BPA sees it
  del,        \* progress of the operator's deletion of each file
  reaper,     \* [pc, at, wake]: the reaper and the time it read
  lock,       \* the reaper holds the mutex between statements
  now, ops,   \* time and the counter of the bound
  deleted,    \* history: deleted by the operator
  failed,     \* history: the last attempt to store it was cut short by an error or a crash
  since,      \* history: since when a row could have been purged, or is pinned
  booted      \* history: when the station last came up

vars == <<rows, version, convs, disk, boot, bpa, del, reaper, lock, now, ops, deleted, failed, since, booted>>
store == <<rows, version, convs, disk>>
history == <<deleted, failed, since, booted>>

-----------------------------------------------------------------------------
Row(ts, exp, read) == [ts |-> ts, exp |-> exp, sticky |-> FALSE, read |-> read]
Fresh(id) == Row(Created[id], Created[id] + Life[id], id \in Outbound)
LegacyRow(id) == Row(Created[id] - Offset, Created[id] + Life[id] - Offset, TRUE)
Up == boot = "up"
Free == Up /\ ~lock

Asleep == [pc |-> "off", at |-> 0, wake |-> 0]

Init ==
  /\ rows = [id \in Ids |-> IF id \in Legacy THEN LegacyRow(id) ELSE None]
  /\ version = 0 /\ convs = {Peer[c] : c \in Legacy \cap Chats} /\ disk = Legacy \cap Files
  /\ boot = "chatTimes" /\ bpa = [id \in Ids |-> IF id \in Legacy THEN "acked" ELSE "due"]
  /\ del = [f \in Files |-> "no"] /\ reaper = Asleep /\ lock = FALSE
  /\ now = Start /\ ops = 0
  /\ deleted = {} /\ failed = {} /\ since = [id \in Ids |-> 0] /\ booted = 0

-----------------------------------------------------------------------------
(* init_tables: the migration, one statement at a time. *)

IsLegacyTime(r) == r.ts > 0 /\ r.ts < Offset
Converted(S) == [id \in Ids |-> IF id \in S /\ rows[id] # None /\ IsLegacyTime(rows[id])
                                THEN [rows[id] EXCEPT !.ts = @ + Offset, !.exp = @ + Offset] ELSE rows[id]]
Shortened == [id \in Ids |-> IF id \in Chats /\ rows[id] # None /\ ~rows[id].sticky /\ rows[id].exp - rows[id].ts > Hour
                             THEN [rows[id] EXCEPT !.exp = rows[id].ts + Hour] ELSE rows[id]]

(* Mutant: the version is set with the first statement. *)
MigrateChatTimesVersionFirst ==
  /\ boot = "chatTimes" /\ version < 1
  /\ rows' = Converted(Chats) /\ boot' = "chatLifetimes" /\ version' = 1

MigrateChatTimes ==
  /\ boot = "chatTimes" /\ version < 1
  /\ rows' = Converted(Chats) /\ boot' = "chatLifetimes" /\ UNCHANGED version
MigrateChatLifetimes ==
  /\ boot = "chatLifetimes" /\ rows' = Shortened /\ boot' = "fileTimes" /\ UNCHANGED version
MigrateFileTimes ==
  /\ boot = "fileTimes" /\ rows' = Converted(Files) /\ boot' = "version" /\ UNCHANGED version
SetVersion ==
  /\ boot = "version" /\ version' = 1 /\ boot' = "ready" /\ UNCHANGED rows
NothingToMigrate ==
  /\ boot = "chatTimes" /\ version >= 1 /\ boot' = "ready" /\ UNCHANGED <<rows, version>>

Migrate ==
  /\ MigrateChatTimes \/ MigrateChatLifetimes \/ MigrateFileTimes \/ SetVersion \/ NothingToMigrate
  /\ UNCHANGED <<convs, disk, bpa, del, reaper, lock, now, ops, history>>

(* The services are registered and the reaper is spawned. *)
ComeUp ==
  /\ boot = "ready" /\ boot' = "up" /\ reaper' = [pc |-> "purge", at |-> now, wake |-> now]
  /\ booted' = now
  /\ UNCHANGED <<store, bpa, del, lock, now, ops, deleted, failed, since>>

-----------------------------------------------------------------------------
(* Deliveries.  INSERT OR REPLACE puts a fresh row, whatever was there; a   *)
(* message is preceded by its conversation, in a statement of its own.     *)

Insert(id) ==
  /\ rows' = [rows EXCEPT ![id] = Fresh(id)]
  /\ convs' = IF id \in Chats THEN convs \cup {Peer[id]} ELSE convs
  /\ since' = [since EXCEPT ![id] = Max({now, Fresh(id).exp})]
  /\ failed' = failed \ {id}

(* What an insertion that does not come to its end may leave: nothing, or  *)
(* the conversation without the message.                                   *)
HalfInserted(S) == {convs} \cup {convs \cup {Peer[c]} : c \in S \cap Chats}

(* FilesService: the payload is written first. *)
WritePayload(f) ==
  /\ Up /\ bpa[f] = "due" /\ disk' = disk \cup {f} /\ bpa' = [bpa EXCEPT ![f] = "written"]
  /\ UNCHANGED <<rows, version, convs, boot, del, reaper, lock, now, ops, deleted, failed, since, booted>>

(* An error ends the delivery, and the bundle is acknowledged; fs::write   *)
(* may by then have truncated the payload of an earlier delivery.          *)
WriteErr(f) ==
  /\ Up /\ bpa[f] = "due" /\ ops < MaxOps /\ ops' = ops + 1
  /\ disk' \in {disk, disk \ {f}}
  /\ bpa' = [bpa EXCEPT ![f] = "acked"] /\ failed' = failed \cup {f}
  /\ UNCHANGED <<rows, version, convs, boot, del, reaper, lock, now, deleted, since, booted>>

InsertFileBundle(f) ==
  /\ Free /\ bpa[f] = "written" /\ Insert(f) /\ bpa' = [bpa EXCEPT ![f] = "acked"]
  /\ UNCHANGED <<version, disk, boot, del, reaper, lock, now, ops, deleted, booted>>

(* ChatService. *)
InsertChatMessage(c) ==
  /\ Free /\ bpa[c] = "due" /\ Insert(c) /\ bpa' = [bpa EXCEPT ![c] = "acked"]
  /\ UNCHANGED <<version, disk, boot, del, reaper, lock, now, ops, deleted, booted>>

(* The operator sends a message: it is injected into the BPA, then stored. *)
Inject(c) ==
  /\ Up /\ bpa[c] = "due" /\ bpa' = [bpa EXCEPT ![c] = "injected"]
  /\ UNCHANGED <<store, boot, del, reaper, lock, now, ops, history>>

StoreSent(c) ==
  /\ Free /\ bpa[c] = "injected" /\ Insert(c) /\ bpa' = [bpa EXCEPT ![c] = "acked"]
  /\ UNCHANGED <<version, disk, boot, del, reaper, lock, now, ops, deleted, booted>>

(* An error of the database is logged by all three, and then the bundle is *)
(* acknowledged, or the operator told that the message was created, as if  *)
(* it had been stored.                                                     *)
Inserting(id) ==
  bpa[id] = IF id \in Files THEN "written" ELSE IF id \in Outbound THEN "injected" ELSE "due"
InsertErr(id) ==
  /\ Free /\ Inserting(id) /\ ops < MaxOps /\ ops' = ops + 1
  /\ convs' \in HalfInserted({id})
  /\ bpa' = [bpa EXCEPT ![id] = "acked"] /\ failed' = failed \cup {id}
  /\ UNCHANGED <<rows, version, disk, boot, del, reaper, lock, now, deleted, since, booted>>

-----------------------------------------------------------------------------
(* The operator. *)

Toggled(id) == [rows EXCEPT ![id].sticky = ~@]

ToggleSticky(id) ==
  /\ Free /\ rows[id] # None /\ ops < MaxOps /\ ops' = ops + 1
  /\ rows' = Toggled(id)
  /\ since' = [since EXCEPT ![id] = IF rows[id].sticky THEN Max({now, rows[id].exp}) ELSE now]
  /\ UNCHANGED <<version, convs, disk, boot, bpa, del, reaper, lock, now, deleted, failed, booted>>

(* A conversation is opened, or read; the details of a file are looked at. *)
MarkRead(S) == rows' = [id \in Ids |-> IF id \in S /\ rows[id] # None THEN [rows[id] EXCEPT !.read = TRUE] ELSE rows[id]]
CreateConversation(p) == convs' = convs \cup {p} /\ UNCHANGED rows
MarkConversationRead(p) == MarkRead({c \in Chats : Peer[c] = p}) /\ UNCHANGED convs
GetFileDetails(f) == rows[f] # None /\ MarkRead({f}) /\ UNCHANGED convs

Browse ==
  /\ Free /\ ops < MaxOps /\ ops' = ops + 1
  /\ \/ \E p \in Peers : CreateConversation(p) \/ MarkConversationRead(p)
     \/ \E f \in Files : GetFileDetails(f)
  /\ UNCHANGED <<version, disk, boot, bpa, del, reaper, lock, now, history>>

(* What the operator is shown. *)
Messages(p) == {c \in Chats : rows[c] # None /\ Peer[c] = p}
Unread(p) == Cardinality({c \in Messages(p) : c \in Inbound /\ ~rows[c].read})
ListConversations == [p \in convs |-> [unread |-> Unread(p), total |-> Cardinality(Messages(p))]]
ListFiles == {f \in Files : rows[f] # None}
Downloadable == ListFiles \cap disk

(* delete_file_bundle: the row is read, the file removed, the row deleted. *)
DeleteReads(f) ==
  /\ Free /\ del[f] = "no" /\ rows[f] # None /\ ops < MaxOps /\ ops' = ops + 1
  /\ del' = [del EXCEPT ![f] = "read"] /\ deleted' = deleted \cup {f}
  /\ UNCHANGED <<store, boot, bpa, reaper, lock, now, failed, since, booted>>
DeleteRemoves(f) ==
  /\ Up /\ del[f] = "read" /\ disk' = disk \ {f} /\ del' = [del EXCEPT ![f] = "removed"]
  /\ UNCHANGED <<rows, version, convs, boot, bpa, reaper, lock, now, ops, history>>
DeleteFinishes(f) ==
  /\ Free /\ del[f] = "removed" /\ rows' = [rows EXCEPT ![f] = None] /\ del' = [del EXCEPT ![f] = "no"]
  /\ UNCHANGED <<version, convs, disk, boot, bpa, reaper, lock, now, ops, history>>

-----------------------------------------------------------------------------
(* The reaper. *)

Reapable(id) == rows[id] # None /\ ~rows[id].sticky /\ rows[id].exp > 0
Expired(t) == {id \in Ids : Reapable(id) /\ rows[id].exp <= t}

(* Mutant: the pin only protects the row. *)
PurgeFilesPinned ==
  /\ Free /\ reaper.pc = "purge" /\ lock' = TRUE
  /\ disk' = disk \ {f \in Files : rows[f] # None /\ rows[f].exp <= now}
  /\ reaper' = [reaper EXCEPT !.pc = "rows", !.at = now]
  /\ UNCHANGED <<rows, version, convs, boot, bpa, del, now, ops, history>>

(* purge_expired holds the mutex from here to PurgeRows. *)
PurgeFiles ==
  /\ Free /\ reaper.pc = "purge" /\ lock' = TRUE
  /\ disk' = disk \ Expired(now) /\ reaper' = [reaper EXCEPT !.pc = "rows", !.at = now]
  /\ UNCHANGED <<rows, version, convs, boot, bpa, del, now, ops, history>>

PurgeRows ==
  /\ Up /\ reaper.pc = "rows" /\ lock' = FALSE
  /\ rows' = [id \in Ids |-> IF id \in Expired(reaper.at) THEN None ELSE rows[id]]
  /\ reaper' = [reaper EXCEPT !.pc = "deadline"]
  /\ UNCHANGED <<version, convs, disk, boot, bpa, del, now, ops, history>>

(* Mutant: the sleep is not capped. *)
SleepUncapped(deadlines, at) ==
  IF deadlines = {} THEN NoneSleep ELSE IF Min(deadlines) <= at THEN MinSleep ELSE Min(deadlines) - at

(* 50 ms for something already expired, else until the next deadline, clamped. *)
Sleep(deadlines, at) ==
  IF deadlines = {} THEN NoneSleep
  ELSE LET gap == Min(deadlines) - at
       IN  IF gap < MinSleep THEN MinSleep ELSE IF gap > MaxSleep THEN MaxSleep ELSE gap

ReaperSleeps ==
  /\ Free /\ reaper.pc = "deadline"
  /\ LET d == {rows[id].exp : id \in {i \in Ids : Reapable(i)}}
     IN  reaper' = [reaper EXCEPT !.pc = "asleep", !.wake = now + Sleep(d, reaper.at)]
  /\ UNCHANGED <<store, boot, bpa, del, lock, now, ops, history>>

ReaperWakes ==
  /\ Up /\ reaper.pc = "asleep" /\ now >= reaper.wake /\ reaper' = [reaper EXCEPT !.pc = "purge"]
  /\ UNCHANGED <<store, boot, bpa, del, lock, now, ops, history>>

-----------------------------------------------------------------------------
(* Time passes while the reaper sleeps, or while the station is down. *)
Tick ==
  /\ now < MaxTime /\ now' = now + 1
  /\ Up => reaper.pc = "asleep" /\ now < reaper.wake
  /\ UNCHANGED <<store, boot, bpa, del, reaper, lock, ops, history>>

(* The process dies and is started again.  It may die while payloads are   *)
(* being written, which are then in part on disk, and between the two      *)
(* statements that store a message.                                        *)
Redelivered(b) == IF b = "written" THEN "due" ELSE IF b = "injected" THEN "lost" ELSE b
Writing == {f \in Files : Up /\ bpa[f] = "due"}
Crash ==
  /\ ops < MaxOps /\ ops' = ops + 1
  /\ boot' = "chatTimes" /\ reaper' = Asleep /\ lock' = FALSE
  /\ \E again \in SUBSET {id \in Ids \ (Legacy \cup Outbound) : bpa[id] = "acked"} :
       bpa' = [id \in Ids |-> IF id \in again THEN "due" ELSE Redelivered(bpa[id])]
  /\ \E torn \in SUBSET Writing : disk' = disk \ torn /\ failed' = failed \cup torn
  /\ convs' \in HalfInserted({c \in Chats : Free /\ Inserting(c)})
  /\ del' = [f \in Files |-> "no"]
  /\ UNCHANGED <<rows, version, now, deleted, since, booted>>

Next ==
  \/ Migrate \/ ComeUp
  \/ \E f \in Files : WritePayload(f) \/ WriteErr(f) \/ InsertFileBundle(f) \/ DeleteReads(f) \/ DeleteRemoves(f) \/ DeleteFinishes(f)
  \/ \E c \in Inbound : InsertChatMessage(c)
  \/ \E c \in Outbound : Inject(c) \/ StoreSent(c)
  \/ \E id \in Ids : InsertErr(id) \/ ToggleSticky(id)
  \/ Browse
  \/ PurgeFiles \/ PurgeRows \/ ReaperSleeps \/ ReaperWakes \/ Tick \/ Crash

Spec == Init /\ [][Next]_vars

-----------------------------------------------------------------------------
(* Properties. *)

(* When a bundle expires: by its lifetime, except that "legacy outbound     *)
(* chat messages" are cut to an hour (internal_storage.rs:319).            *)
Due(id) == Created[id] + IF id \in Legacy \cap Outbound THEN Min({Life[id], Hour}) ELSE Life[id]

(* The statement under that comment cuts the messages received as well.    *)
CutShort == {c \in Legacy \cap Inbound : Life[c] > Hour}

(* A file with its payload; a message in a conversation that is listed.    *)
IsStored(id) ==
  IF id \in Files THEN id \in Downloadable
  ELSE Peer[id] \in DOMAIN ListConversations /\ ListConversations[Peer[id]].total >= 1 /\ id \in Messages(Peer[id])

(* What was delivered or sent stays stored until it expires or the         *)
(* operator deletes it: whatever crashes come between the payload file,    *)
(* the row and the acknowledgement, whatever statement of the migration a  *)
(* crash interrupts, and whatever the reaper runs into.  What the code     *)
(* does not keep up is excepted by name: bundles that could not be stored  *)
(* and were acknowledged nevertheless (HistoryIsPersisted), and the        *)
(* received messages CutShort, which only stay for their hour              *)
(* (LegacyKeepsLifetime).                                                  *)
AckedIsStored ==
  \A id \in Ids : bpa[id] = "acked" /\ id \notin deleted \cup failed /\ now < Due(id)
                    /\ (id \in CutShort => now < Created[id] + Hour)
                    => IsStored(id)

(* A file pinned before it expired keeps its payload for as long as it     *)
(* stays pinned: the reaper, which removes files and rows in two steps,    *)
(* never takes the file from under a pinned row.  A second delivery that   *)
(* fails may still truncate it.                                            *)
PinnedHasPayload ==
  \A f \in Files : rows[f] # None /\ rows[f].sticky /\ since[f] < rows[f].exp /\ f \notin deleted \cup failed
                     => f \in disk

(* No row that may be purged outlives its expiry by more than the reaper's *)
(* longest sleep, also when it was stored, or unpinned, while the reaper   *)
(* was asleep.                                                             *)
ReapedInTime ==
  Up => \A id \in Ids : Reapable(id) => now <= Max({since[id], booted, rows[id].exp}) + MaxSleep

(* The migration is to "fix legacy outbound chat messages that had 24h      *)
(* (86400s) lifetime" (internal_storage.rs:319): a message received keeps  *)
(* its own.  It does not hold: README.md, section 12.                      *)
LegacyKeepsLifetime == \A c \in Legacy \cap Inbound : now < Due(c) => IsStored(c)

(* "Conversation histories [...] must be durably persisted across daemon    *)
(* restarts" (ADR 0012): a message that was acknowledged, or handed to the *)
(* BPA, is in the history.  It does not hold: README.md, section 12.       *)
HistoryIsPersisted ==
  \A c \in Chats \ Legacy : bpa[c] \in {"acked", "lost"} /\ now < Due(c) => IsStored(c)

(* "When a bundle's lifetime expires [...], it must be deleted unless an    *)
(* operator explicitly protects it" (ADR 0013): of a file delivered, no    *)
(* payload stays on disk without a row for longer than the reaper's        *)
(* longest sleep.  It does not hold: README.md, section 12.                *)
PayloadIsReaped ==
  Up => \A f \in disk : bpa[f] = "acked" /\ now > Max({Due(f), booted}) + MaxSleep => rows[f] # None
=============================================================================
