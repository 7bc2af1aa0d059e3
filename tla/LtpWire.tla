------------------------------- MODULE LtpWire -------------------------------
(***************************************************************************)
(* What an LTP segment is on the wire: the SDNV and segment codecs of the  *)
(* ltp crate, the padding the driver adds for a TNC, and the KISS framing  *)
(* with the accumulator the driver reads frames from.  Octets are 0..255.  *)
(*                                                                         *)
(* A segment is [type, ids, head, tail, vals, data]: its type code, its    *)
(* originator and number, its extensions, the numbers its body consists of *)
(* and the octets after them (the client's data, or a cancel reason).      *)
(***************************************************************************)
EXTENDS Integers, Sequences, SequencesExt

CONSTANTS
  SdnvBits,         \* bits of a number: 64 in the code
  MaxParsedClaims,  \* MAX_PARSED_CLAIMS
  MaxAccumulator    \* MAX_KISS_ACCUMULATOR

ASSUME WireAssumption == SdnvBits \in 7..30 /\ {MaxParsedClaims, MaxAccumulator} \subseteq Nat

-----------------------------------------------------------------------------
(* SDNV: seven bits to an octet, the highest bit set on all but the last.  *)

MAX_LEN == (SdnvBits + 6) \div 7

encoded_len(v) == CHOOSE n \in 1..MAX_LEN : v < 128 ^ n /\ (n = 1 \/ v >= 128 ^ (n - 1))

sdnv_encode(v) ==
  LET n == encoded_len(v)
  IN  [i \in 1..n |-> ((v \div 128 ^ (n - i)) % 128) + (IF i = n THEN 0 ELSE 128)]

\* The number at the start of b and the octets it takes, or an error.
sdnv_decode(b) ==
  LET acc[i \in 0..Min({Len(b), MAX_LEN})] == IF i = 0 THEN 0 ELSE 128 * acc[i - 1] + (b[i] % 128)
      tooBig(i) == i > MAX_LEN \/ acc[i - 1] >= 2 ^ (SdnvBits - 7)
      stops == {i \in 1..Min({Len(b), MAX_LEN + 1}) : tooBig(i) \/ b[i] < 128}
  IN  IF stops = {} THEN [err |-> IF Len(b) >= MAX_LEN THEN "Overflow" ELSE "Truncated", v |-> 0, n |-> 0]
      ELSE IF tooBig(Min(stops)) THEN [err |-> "Overflow", v |-> 0, n |-> 0]
      ELSE [err |-> "", v |-> acc[Min(stops)], n |-> Min(stops)]

-----------------------------------------------------------------------------
(* A cursor: what is left of the buffer, the numbers and octets read from  *)
(* it, and the first error, after which nothing is read any more.          *)

Cursor(b) == [buf |-> b, vals |-> <<>>, data |-> <<>>, err |-> ""]

Skip(c, n) == [c EXCEPT !.buf = SubSeq(@, n + 1, Len(@))]
Require(c, ok, err) == IF c.err = "" /\ ~ok THEN [c EXCEPT !.err = err] ELSE c

ReadBytes(c, n) ==
  LET d == Require(c, n <= Len(c.buf), "Truncated")
  IN  IF d.err # "" THEN d ELSE Skip([d EXCEPT !.data = SubSeq(d.buf, 1, n)], n)

ReadOctet(c) == ReadBytes(c, 1)

ReadSdnv(c) ==
  LET r == sdnv_decode(c.buf)
      d == Require(c, r.err = "", r.err)
  IN  IF d.err # "" THEN d ELSE Skip([d EXCEPT !.vals = Append(@, r.v)], r.n)

ReadSdnvs(c, k) ==
  LET read[i \in 0..k] == IF i = 0 THEN c ELSE ReadSdnv(read[i - 1]) IN read[k]

\* [at, list]: the cursor after count extensions, and the extensions.
parse_extensions(c, count) ==
  LET one(s) ==
        LET t == ReadOctet(s.at)
            l == ReadSdnv(t)
            v == ReadBytes(l, IF l.err = "" THEN Last(l.vals) ELSE 0)
        IN  [at |-> v, list |-> Append(s.list, [tag |-> t.data, value |-> v.data])]
      read[i \in 0..count] == IF i = 0 THEN [at |-> c, list |-> <<>>] ELSE one(read[i - 1])
  IN  read[count]

parse_checkpoint(c) ==
  LET s == ReadSdnv(c) IN ReadSdnv(Require(s, Last(s.vals) # 0, "ZeroSerial"))

parse_data(c, type) ==
  LET h == ReadSdnvs(c, 3)
      k == IF type \in 1..3 THEN parse_checkpoint(h) ELSE h
  IN  ReadBytes(k, IF k.err = "" THEN h.vals[3] ELSE 0)

\* Claims are not empty, in order, apart and within the scope.
parse_claims(c, count, scope) ==
  LET one(s) ==
        LET r == ReadSdnvs(s.at, 2)
            offset == r.vals[Len(r.vals) - 1]
            end == offset + Last(r.vals)
        IN  [at |-> Require(r, Last(r.vals) > 0 /\ offset >= s.prev /\ end <= scope, "ClaimInvariant"),
             prev |-> IF r.err = "" THEN end ELSE 0]
      read[i \in 0..count] == IF i = 0 THEN [at |-> c, prev |-> 0] ELSE one(read[i - 1])
  IN  read[count].at

parse_report(c) ==
  LET s == ReadSdnv(c)
      b == ReadSdnvs(Require(s, Last(s.vals) # 0, "ZeroSerial"), 3)
      n == ReadSdnv(Require(b, b.vals[4] < b.vals[3], "BoundsInvariant"))
      m == Require(n, n.vals[5] <= MaxParsedClaims /\ n.vals[5] <= Len(n.buf) \div 2, "ClaimCountInvalid")
  IN  IF m.err # "" THEN m ELSE parse_claims(m, m.vals[5], m.vals[3] - m.vals[4])

parse_reason(c) == LET r == ReadOctet(c) IN Require(r, r.data[1] <= 5, "ReservedReason")

parse_body(c, type) ==
  CASE type \in 0..4 \cup {7} -> parse_data(c, type)
    [] type = 8 -> parse_report(c)
    [] type = 9 -> ReadSdnv(c)
    [] type \in {12, 14} -> parse_reason(c)
    [] type \in {13, 15} -> c

\* The control octet and the session, with which every segment begins.
parse_head(b) ==
  LET k == ReadOctet(Cursor(b))
      v == Require(k, k.data[1] < 16, "BadVersion")
  IN  ReadSdnvs(Require(v, v.data[1] \notin {5, 6, 10, 11}, "UndefinedType"), 2)

peek_session(b) ==
  LET h == parse_head(b) IN [err |-> h.err, ids |-> IF h.err = "" THEN h.vals ELSE <<>>]

\* [err, seg, consumed].
parse(b) ==
  LET h == parse_head(b)
      x == ReadOctet(h)
      head == parse_extensions(x, x.data[1] \div 16)
      body == parse_body([head.at EXCEPT !.vals = <<>>, !.data = <<>>], h.data[1])
      tail == parse_extensions(body, x.data[1] % 16)
  IN  IF x.err # "" THEN [err |-> x.err, seg |-> <<>>, consumed |-> 0]
      ELSE IF tail.at.err # "" THEN [err |-> tail.at.err, seg |-> <<>>, consumed |-> 0]
      ELSE [err |-> "", consumed |-> Len(b) - Len(tail.at.buf),
            seg |-> [type |-> h.data[1], ids |-> h.vals, head |-> head.list, tail |-> tail.list,
                     vals |-> body.vals, data |-> body.data]]

-----------------------------------------------------------------------------
sdnvs_encode(vals) == FlattenSeq([i \in DOMAIN vals |-> sdnv_encode(vals[i])])

write_extensions(exts) ==
  FlattenSeq([i \in DOMAIN exts |-> exts[i].tag \o sdnv_encode(Len(exts[i].value)) \o exts[i].value])

write_body(seg) == sdnvs_encode(seg.vals) \o seg.data

\* No more than fifteen extensions on either side are written.
encode_to_vec(seg) ==
  LET head == SubSeq(seg.head, 1, Min({15, Len(seg.head)}))
      tail == SubSeq(seg.tail, 1, Min({15, Len(seg.tail)}))
  IN  <<seg.type>> \o sdnvs_encode(seg.ids) \o <<16 * Len(head) + Len(tail)>>
      \o write_extensions(head) \o write_body(seg) \o write_extensions(tail)

exact_encoded_len(seg) ==
  LET add(s, v) == s + encoded_len(v)
      ext(s, e) == s + 1 + encoded_len(Len(e.value)) + Len(e.value)
  IN  FoldLeft(ext, FoldLeft(add, 2 + Len(seg.data), seg.ids \o seg.vals), seg.head \o seg.tail)

\* A segment that is too short gets an extension of zeros behind it.
pad_segment_for_tnc(b, min_frame_len) ==
  LET r == parse(b)
  IN  IF Len(b) >= min_frame_len \/ r.err # "" \/ r.consumed # Len(b) \/ Len(r.seg.tail) >= 15 THEN b
      ELSE LET pad == Max({0, min_frame_len - (Len(b) + 2)})
           IN  encode_to_vec([r.seg EXCEPT
                 !.tail = Append(@, [tag |-> <<0>>, value |-> [i \in 1..pad |-> 0]])])

-----------------------------------------------------------------------------
(* KISS.                                                                   *)

FEND == 192
FESC == 219
TFEND == 220
TFESC == 221

escape(s) ==
  FlattenSeq([i \in DOMAIN s |-> IF s[i] = FEND THEN <<FESC, TFEND>>
                                 ELSE IF s[i] = FESC THEN <<FESC, TFESC>> ELSE <<s[i]>>])

unescape(s) ==
  LET next(u, o) ==
        IF u.esc THEN [out |-> Append(u.out, IF o = TFEND THEN FEND ELSE FESC), esc |-> FALSE,
                       ok |-> u.ok /\ o \in {TFEND, TFESC}]
        ELSE IF o = FESC THEN [u EXCEPT !.esc = TRUE]
        ELSE [u EXCEPT !.out = Append(@, o)]
      all == FoldLeft(next, [out |-> <<>>, esc |-> FALSE, ok |-> TRUE], s)
  IN  [ok |-> all.ok /\ ~all.esc, out |-> all.out]

encode_frame(port, command, payload) ==
  <<FEND>> \o escape(<<16 * (port % 16) + (command % 16)>>) \o escape(payload) \o <<FEND>>

\* What stands between two FENDs, or before the first, if it can be unescaped:
\* a command octet and a payload.  The rest is skipped.
FramesIn(b) ==
  {r \in (1..Len(b)) \X (1..Len(b)) :
     /\ r[1] < r[2] /\ b[r[2]] = FEND
     /\ r[1] = 1 \/ b[r[1] - 1] = FEND
     /\ \A i \in r[1]..(r[2] - 1) : b[i] # FEND
     /\ unescape(SubSeq(b, r[1], r[2] - 1)).ok}

NoFrame == [consumed |-> 0]

decode_frame(b) ==
  IF FramesIn(b) = {} THEN NoFrame
  ELSE LET r == CHOOSE r \in FramesIn(b) : \A s \in FramesIn(b) : r[1] <= s[1]
           raw == unescape(SubSeq(b, r[1], r[2] - 1)).out
       IN  [consumed |-> r[2], port |-> raw[1] \div 16, command |-> raw[1] % 16, payload |-> Tail(raw)]

\* The frames taken from the accumulator, and what stays in it.
Extracted(b) ==
  LET one(s) ==
        LET f == decode_frame(s.rest)
        IN  IF f = NoFrame THEN s
            ELSE [rest |-> SubSeq(s.rest, f.consumed + 1, Len(s.rest)), frames |-> Append(s.frames, f)]
      read[i \in 0..Len(b)] == IF i = 0 THEN [rest |-> b, frames |-> <<>>] ELSE one(read[i - 1])
  IN  read[Len(b)]

\* One read from the TNC.
Accumulated(acc, chunk) ==
  Extracted((IF Len(acc) + Len(chunk) > MaxAccumulator THEN <<>> ELSE acc) \o chunk)
=============================================================================
