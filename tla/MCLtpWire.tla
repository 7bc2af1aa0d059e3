------------------------------ MODULE MCLtpWire ------------------------------
(* The codecs of LtpWire, evaluated over samples with every boundary.      *)
EXTENDS LtpWire

Heads == {<<>>, <<[tag |-> <<7>>, value |-> <<1, 2>>]>>}
Numbers15 == {0, 1, 127, 128, 16383, 16384, 32767}

\* Well-formed bodies of every type: [type, vals, data].
DataBodies ==
  {[type |-> t, vals |-> <<1, o, Len(d)>> \o (IF t \in 1..3 THEN <<s, 128>> ELSE <<>>), data |-> d] :
     t \in {0, 1, 2, 3, 4, 7}, o \in {0, 16384}, s \in {1, 32767}, d \in {<<>>, <<0>>, <<FEND, FESC, 255>>}}
ReportBodies ==
  {[type |-> 8, vals |-> <<s, 0, 10, 2, Len(cs) \div 2>> \o cs, data |-> <<>>] :
     s \in {1, 128}, cs \in {<<>>, <<0, 8>>, <<0, 3, 3, 1>>, <<1, 2, 5, 3>>}}
ControlBodies ==
  {[type |-> 9, vals |-> <<n>>, data |-> <<>>] : n \in Numbers15}
  \cup {[type |-> t, vals |-> <<>>, data |-> <<r>>] : t \in {12, 14}, r \in 0..5}
  \cup {[type |-> t, vals |-> <<>>, data |-> <<>>] : t \in {13, 15}}

Segment(body, ids, head, tail) ==
  [type |-> body.type, ids |-> ids, head |-> head, tail |-> tail, vals |-> body.vals, data |-> body.data]

Samples ==
  {Segment(b, <<2, 300>>, h, t) : b \in DataBodies \cup ReportBodies \cup ControlBodies, h \in Heads, t \in Heads}

\* Every number comes back from its encoding, of the length computed for it;
\* and what decodes at all decodes to a number of the width.
ASSUME SdnvRoundTrip ==
  /\ \A v \in 0..(2 ^ SdnvBits - 1) :
       LET e == sdnv_encode(v) IN sdnv_decode(e \o <<200>>) = [err |-> "", v |-> v, n |-> encoded_len(v)]
  /\ \A b \in UNION {[1..k -> {0, 1, 127, 128, 129, 130, 131, 255}] : k \in 0..4} :
       LET r == sdnv_decode(b) IN
       /\ r.err = "" => r.v < 2 ^ SdnvBits /\ r.n <= MAX_LEN
       /\ r.err = "Truncated" => Len(b) < MAX_LEN

\* Every segment comes back from its encoding, which has the length computed
\* for it, whatever follows it; peek_session agrees; no proper prefix parses;
\* and a session is read off whatever parses.
ASSUME SegmentRoundTrip ==
  \A s \in Samples :
    LET e == encode_to_vec(s) IN
    /\ Len(e) = exact_encoded_len(s)
    /\ parse(e \o <<0, 255>>) = [err |-> "", seg |-> s, consumed |-> Len(e)]
    /\ peek_session(e).ids = s.ids
    /\ \A k \in 0..(Len(e) - 1) : parse(SubSeq(e, 1, k)).err # ""

\* Reports the engine must never see are refused, with their reason.
Report(vals) == encode_to_vec(Segment([type |-> 8, vals |-> vals, data |-> <<>>], <<2, 1>>, <<>>, <<>>))
ASSUME BadReportsRefused ==
  /\ parse(Report(<<0, 0, 10, 2, 0>>)).err = "ZeroSerial"
  /\ parse(Report(<<1, 0, 2, 2, 0>>)).err = "BoundsInvariant"
  /\ parse(Report(<<1, 0, 10, 2, 9, 0, 1>>)).err = "ClaimCountInvalid"
  /\ \A cs \in {<<0, 0>>, <<0, 9>>, <<8, 1>>, <<2, 2, 3, 1>>, <<4, 2, 0, 1>>} :
       parse(Report(<<1, 0, 10, 2, Len(cs) \div 2>> \o cs)).err = "ClaimInvariant"
  /\ parse(<<16, 2, 1, 0>>).err = "BadVersion"
  /\ \A t \in {5, 6, 10, 11} : parse(<<t, 2, 1, 0>>).err = "UndefinedType"
  /\ parse(<<12, 2, 1, 0, 6>>).err = "ReservedReason"

\* Padding makes a segment long enough for the TNC and changes nothing that
\* the receiving engine looks at.
ASSUME PaddingIsHarmless ==
  \A s \in Samples, min \in {0, 12, 20, 150} :
    LET p == pad_segment_for_tnc(encode_to_vec(s), min)
        r == parse(p)
    IN  /\ Len(p) >= min /\ r.err = "" /\ r.consumed = Len(p)
        /\ [r.seg EXCEPT !.tail = s.tail] = s

Streams(n) == [1..n -> {FEND, FESC, TFEND, 0}]

\* A frame comes back from its encoding on every port (port 12 needs its own
\* command octet escaped), whatever noise stood before it on the line, once
\* that noise is cut off by the frame's first FEND.
ASSUME FrameRoundTrip ==
  \A port \in {0, 12, 13}, cmd \in {0, 11}, n \in 0..3 : \A payload \in Streams(n), noise \in Streams(2) :
    LET frames == Extracted(noise \o encode_frame(port, cmd, payload)).frames IN
    /\ frames # <<>> /\ Len(frames) <= 2
    /\ [Last(frames) EXCEPT !.consumed = 0] =
         [consumed |-> 0, port |-> port, command |-> cmd, payload |-> payload]

\* However the octets are cut into reads, the same frames come out.
ASSUME CutAnywhere ==
  \A s \in Streams(5), k \in 1..4, m \in 1..4 : k < m =>
    LET one == Accumulated(<<>>, SubSeq(s, 1, k))
        two == Accumulated(one.rest, SubSeq(s, k + 1, m))
        three == Accumulated(two.rest, SubSeq(s, m + 1, 5))
        payloads(x) == [i \in DOMAIN x.frames |-> <<x.frames[i].port, x.frames[i].command, x.frames[i].payload>>]
    IN  payloads(one) \o payloads(two) \o payloads(three) = payloads(Accumulated(<<>>, s))
=============================================================================
