------------------------------- MODULE MCPing -------------------------------
(* Two pings a second apart, a session limited to one second, and one      *)
(* second of waiting.                                                      *)
EXTENDS Ping

MCInterval == [n |-> 1, unit |-> "s"]
MCWait == [n |-> 1000, unit |-> "ms"]
MCTimeout == [n |-> 1, unit |-> ""]

\* What else reaches the endpoint: a reply to an earlier session's ping 0, a
\* reply of another node, an unsigned one and an unreadable one.
MCStray ==
  {[n |-> 90, from |-> "echo", sig |-> "valid", payload |-> encode_ping_payload(0, 0)],
   [n |-> 91, from |-> "other", sig |-> "valid", payload |-> encode_ping_payload(1, 0)],
   [n |-> 92, from |-> "echo", sig |-> "unsigned", payload |-> encode_ping_payload(1, 0)],
   [n |-> 93, from |-> "echo", sig |-> "valid", payload |-> <<130, 24>>]}

\* What is encoded is decoded, at every boundary of the CBOR heads.
ASSUME RoundTrip ==
  \A s \in {0, 23, 24, 255, 256, 65535, 65536, 16777216}, p \in {0, 1, 23, 24, 255, 256} :
    decode_ping_payload(encode_ping_payload(s, p)) = s
ASSUME Durations ==
  /\ parse_duration([n |-> 500, unit |-> "ms"]) = 500
  /\ parse_duration([n |-> 2, unit |-> "s"]) = 2000
  /\ parse_duration([n |-> 3, unit |-> "m"]) = parse_duration([n |-> 180, unit |-> ""])
  /\ parse_duration([n |-> 1, unit |-> "h"]) = parse_duration([n |-> 60, unit |-> "m"])
=============================================================================
