------------------------------ MODULE RedPart ------------------------------
(***************************************************************************)
(* Reassembly of a red part by a RecvSession of the ltp crate: red_buf,    *)
(* which holds what is contiguous from the start, sparse_red, which holds  *)
(* chunks beyond a gap, and red_received.  LtpSession only keeps the set   *)
(* of octets received; here are the buffers behind it.                     *)
(*                                                                         *)
(* A sender with a red part of RedLen octets may send any segment of it,   *)
(* in any order and any number of times: retransmissions cut the block at  *)
(* other offsets than the first transmission.  An octet of the buffer is   *)
(* TRUE if it was written from a segment, FALSE if it is the zero that     *)
(* resize puts there.  The session may be cancelled while a checkpoint is  *)
(* answered; it ignores data from then on, which only ends a behaviour     *)
(* early.  Reports and colours are in LtpSession.                          *)
(***************************************************************************)
EXTENDS RangeSet

CONSTANTS
  RedLen,       \* the length of the red part sent
  MaxBlock      \* LtpConfig.max_block_size

ASSUME LengthAssumption == RedLen \in Nat \ {0} /\ MaxBlock \in Nat

VARIABLES
  redBuf,       \* red_buf
  sparse,       \* sparse_red: length of the chunk by offset
  sparseBytes,  \* total_received_bytes
  received,     \* red_received
  redLen,       \* red_part_len, 0 while it is unknown
  delivered,    \* the data of RedPartReceived, <<>> before
  stored        \* history: the octets of the segments insert_red accepted

vars == <<redBuf, sparse, sparseBytes, received, redLen, delivered, stored>>

Init ==
  /\ redBuf = <<>> /\ sparse = <<>> /\ sparseBytes = 0 /\ received = <<>>
  /\ redLen = 0 /\ delivered = <<>> /\ stored = {}

(* The buffer resized to hold <<o, e>> and the chunk copied into it. *)
Write(buf, o, e) ==
  [i \in 1 .. Greater(Len(buf), e) |-> (o < i /\ i <= e) \/ (i <= Len(buf) /\ buf[i])]

(* Mutant: the chunks that the buffer has reached are not connected. *)
ConnectNothing(buf, chunks, bytes) == [buf |-> buf, chunks |-> chunks, bytes |-> bytes]

(* The chunks that the buffer has reached are moved into it, lowest first. *)
Connect(buf, chunks, bytes) ==
  LET step(acc, o) ==
        IF o <= Len(acc.buf)
        THEN [buf |-> Write(acc.buf, o, o + chunks[o]),
              chunks |-> [x \in DOMAIN acc.chunks \ {o} |-> chunks[x]],
              bytes |-> IF acc.bytes > chunks[o] THEN acc.bytes - chunks[o] ELSE 0]
        ELSE acc
  IN FoldLeft(step, [buf |-> buf, chunks |-> chunks, bytes |-> bytes],
              SetToSortSeq(DOMAIN chunks, <))

(* The outcome of insert_red for the octets of seg. *)
Refused == [ok |-> FALSE]
Accepted(buf, chunks, bytes, runs) ==
  [ok |-> TRUE, buf |-> buf, chunks |-> chunks, bytes |-> bytes, runs |-> runs]

(* Mutant: early segments are kept without limit. *)
InsertRedUnlimited(seg) ==
  LET o == Start(seg)
      e == End(seg)
      c == Connect(Write(redBuf, o, e), sparse, sparseBytes)
  IN IF e > MaxBlock THEN Refused
     ELSE IF Covers(received, seg) THEN Accepted(redBuf, sparse, sparseBytes, received)
     ELSE IF o <= Len(redBuf) THEN Accepted(c.buf, c.chunks, c.bytes, Insert(received, seg))
     ELSE Accepted(redBuf, [x \in DOMAIN sparse \cup {o} |-> IF x = o THEN e - o ELSE sparse[x]],
                   sparseBytes + (e - o), Insert(received, seg))

(* Mutant: an early segment does not count against the quota. *)
InsertRedUncounted(seg) ==
  LET o == Start(seg)
      e == End(seg)
      c == Connect(Write(redBuf, o, e), sparse, sparseBytes)
  IN IF e > MaxBlock THEN Refused
     ELSE IF Covers(received, seg) THEN Accepted(redBuf, sparse, sparseBytes, received)
     ELSE IF o <= Len(redBuf) THEN Accepted(c.buf, c.chunks, c.bytes, Insert(received, seg))
     ELSE Accepted(redBuf, [x \in DOMAIN sparse \cup {o} |-> IF x = o THEN e - o ELSE sparse[x]],
                   sparseBytes, Insert(received, seg))

InsertRed(seg) ==
  LET o == Start(seg)
      e == End(seg)
      c == Connect(Write(redBuf, o, e), sparse, sparseBytes)
  IN IF e > MaxBlock THEN Refused
     ELSE IF Covers(received, seg) THEN Accepted(redBuf, sparse, sparseBytes, received)
     ELSE IF o <= Len(redBuf) THEN Accepted(c.buf, c.chunks, c.bytes, Insert(received, seg))
     ELSE IF sparseBytes + (e - o) > MaxBlock THEN Refused
     ELSE Accepted(redBuf, [x \in DOMAIN sparse \cup {o} |-> IF x = o THEN e - o ELSE sparse[x]],
                   sparseBytes + (e - o), Insert(received, seg))

(* Mutant: the last octet stands for all. *)
IsRedCompleteAtEnd(runs, len) == len > 0 /\ Covers(runs, <<len - 1, len>>)

IsRedComplete(runs, len) == len > 0 /\ Covers(runs, <<0, len>>)

(* The buffer truncated to the length of the red part and taken. *)
Delivery(buf, len) == SubSeq(buf, 1, Lesser(len, Len(buf)))

(* A red segment of the sender's: stored, the length learnt from the end   *)
(* of the red part, and the whole delivered once it is there.              *)
RedSegment(seg) ==
  LET r == InsertRed(seg)
      len == IF End(seg) = RedLen THEN RedLen ELSE redLen
      deliver == IsRedComplete(r.runs, len) /\ delivered = <<>>
  IN /\ r.ok
     /\ redLen' = len
     /\ redBuf' = IF deliver THEN <<>> ELSE r.buf
     /\ delivered' = IF deliver THEN Delivery(r.buf, len) ELSE delivered
     /\ sparse' = r.chunks /\ sparseBytes' = r.bytes /\ received' = r.runs
     /\ stored' = stored \cup Points(seg)

Segments == {seg \in (0 .. RedLen) \X (0 .. RedLen) : Start(seg) < End(seg)}

Next == \E seg \in Segments : RedSegment(seg)

Spec == Init /\ [][Next]_vars

-----------------------------------------------------------------------------
(* Properties.                                                             *)

(* The range set stands for exactly the octets that were accepted, in its  *)
(* normal form, and covers, runs_within and gaps answer accordingly for    *)
(* every scope: the reports and the retransmissions are computed from them.*)
RangesAgree ==
  /\ Coalesced(received) /\ Values(received) = stored
  /\ \A scope \in Segments :
       /\ Covers(received, scope) <=> Points(scope) \subseteq stored
       /\ Values(RunsWithin(received, scope)) = Points(scope) \cap stored
       /\ Values(Gaps(received, scope)) = Points(scope) \ stored
       /\ Coalesced(RunsWithin(received, scope)) /\ Coalesced(Gaps(received, scope))

(* Until delivery every octet that was acknowledged is kept: in the buffer,*)
(* which has no unwritten octet, or in a chunk beyond its end.             *)
StoredIsKept ==
  delivered = <<>> =>
    /\ \A i \in DOMAIN redBuf : redBuf[i]
    /\ \A o \in DOMAIN sparse : o > Len(redBuf)
    /\ stored = (0 .. (Len(redBuf) - 1)) \cup UNION {o .. (o + sparse[o] - 1) : o \in DOMAIN sparse}

(* What is delivered is the whole red part with every octet written from a *)
(* segment, and nothing is left in the chunks.                             *)
DeliveredIsWhole ==
  delivered # <<>> => delivered = [i \in 1 .. RedLen |-> TRUE] /\ sparse = <<>>

(* The chunks kept beyond a gap never amount to more than what is counted  *)
(* against the block limit, whatever overlaps, is replaced or connected.   *)
SparseIsBounded == MapThenSumSet(LAMBDA o : sparse[o], DOMAIN sparse) <= sparseBytes
=============================================================================
