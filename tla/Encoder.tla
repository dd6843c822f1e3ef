------------------------------- MODULE Encoder -------------------------------
(***************************************************************************)
(* Frames as bytes, the way encoder.py makes them.  A frame is two header  *)
(* bytes, a command, a body and two checksums; the body begins with its    *)
(* own length in what the scale sends.                                     *)
(***************************************************************************)
EXTENDS Integers, Sequences

HEADER1 == 239
HEADER2 == 221
Bytes   == 0..255

\* The sum of every second byte of s from the k-th on, as one byte.
AlternateSum(s, k) ==
    LET sum[i \in Nat] == IF i > Len(s) THEN 0 ELSE (s[i] + sum[i + 2]) % 256
    IN  sum[k]

\* encode
Encode(command, payload) ==
    LET body == [i \in DOMAIN payload |-> payload[i] % 256]
    IN  <<HEADER1, HEADER2, command>> \o body
          \o <<AlternateSum(body, 1), AlternateSum(body, 2)>>

=============================================================================
