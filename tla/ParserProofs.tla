----------------------------- MODULE ParserProofs -----------------------------
(***************************************************************************)
(* What Encoder and Parser compute, for bytes of every number.             *)
(*                                                                         *)
(* EncodedIsDecoded: the decoder undoes encode.  DamageIsCaught,           *)
(* OneByteIsCaught: what the two sums cannot miss.                         *)
(***************************************************************************)
EXTENDS Parser, SequenceTheorems, FiniteSetTheorems, WellFoundedInduction, TLAPS

-----------------------------------------------------------------------------
(* Least and greatest elements, and induction by the least counterexample.   *)

LEMMA MinFacts ==
    ASSUME NEW S \in SUBSET Nat, S # {}
    PROVE  Min(S) \in S /\ \A x \in S : Min(S) <= x
<1> DEFINE R == OpToRel(<, Nat)
<1>1. IsWellFoundedOn(R, Nat)
  BY NatLessThanWellFounded
<1>2. \A x, y \in Nat : <<x, y>> \in R <=> x < y
  BY DEF OpToRel
<1> HIDE DEF R
<1>3. PICK m \in S : \A y \in S : ~(<<y, m>> \in R)
  BY <1>1, WFMin
<1>4. ASSUME NEW y \in S PROVE m <= y
  <2>1. m \in Nat /\ y \in Nat
    OBVIOUS
  <2>2. ~(y < m)
    BY <1>2, <1>3, <2>1
  <2> QED BY <2>1, <2>2
<1> QED BY <1>4 DEF Min

LEMMA UpTo ==
    ASSUME NEW n \in Nat, NEW T, 0 \in T, \A k \in 1..n : k - 1 \in T => k \in T
    PROVE  n \in T
<1> DEFINE U == (0..n) \ T
<1> SUFFICES ASSUME U # {} PROVE FALSE
  OBVIOUS
<1> DEFINE m == Min(U)
<1>1. m \in U /\ \A k \in U : m <= k
  <2> U \in SUBSET Nat
    OBVIOUS
  <2> HIDE DEF U
  <2> QED BY MinFacts
<1> HIDE DEF m
<1>2. m \in 1..n /\ m - 1 \in 0..n /\ ~(m <= m - 1)
  BY <1>1
<1> QED BY <1>1, <1>2

LEMMA MaxFacts ==
    ASSUME NEW n \in Nat, NEW S \in SUBSET (0..n), S # {}
    PROVE  Max(S) \in S /\ \A x \in S : x <= Max(S)
<1> DEFINE D == {n - x : x \in S}
           m == Min(D)
<1>1. D \in SUBSET Nat /\ D # {}
  <2>1. \A x \in S : n - x \in Nat
    OBVIOUS
  <2> QED BY <2>1
<1>2. m \in D /\ \A y \in D : m <= y
  <2> HIDE DEF D
  <2> QED BY <1>1, MinFacts
<1>3. PICK x \in S : m = n - x
  BY <1>2
<1> HIDE DEF m
<1>4. \A y \in S : x >= y
  <2> SUFFICES ASSUME NEW y \in S PROVE x >= y
    OBVIOUS
  <2>1. m <= n - y
    BY <1>2
  <2> QED BY <1>3, <2>1
<1>5. \A z \in S : (\A y \in S : z >= y) => z = x
  BY <1>4
<1>6. Max(S) = x
  BY <1>4, <1>5 DEF Max
<1> QED BY <1>4, <1>6

-----------------------------------------------------------------------------
(* Encoded frames.                                                           *)

\* A payload as the scale sends it: bytes, of which the first is their number.
Payloads == {p \in Seq(Bytes) : Len(p) >= 1 /\ p[1] = Len(p)}

\* The parts of a frame b.
Parts(b, command, payload) ==
    /\ b \in Seq(Bytes \cup {command, AlternateSum(payload, 1), AlternateSum(payload, 2)})
    /\ Len(b) = Len(payload) + FRAME_OVERHEAD
    /\ b[1] = HEADER1 /\ b[2] = HEADER2 /\ b[3] = command
    /\ \A i \in 1..Len(payload) : b[3 + i] = payload[i]
    /\ b[Len(b) - 1] = AlternateSum(payload, 1) /\ b[Len(b)] = AlternateSum(payload, 2)

LEMMA EncodeFacts ==
    ASSUME NEW command, NEW payload \in Payloads
    PROVE  Parts(Encode(command, payload), command, payload)
<1> DEFINE n == Len(payload)
           x == AlternateSum(payload, 1)
           y == AlternateSum(payload, 2)
           V == Bytes \cup {command, x, y}
           body == [i \in DOMAIN payload |-> payload[i] % 256]
           h == <<HEADER1, HEADER2, command>>
           t == <<x, y>>
<1>1. payload \in Seq(Bytes) /\ n \in Nat /\ n >= 1
  BY DEF Payloads
<1>2. body = payload
  <2>1. \A i \in DOMAIN payload : payload[i] % 256 = payload[i]
    <3>1. \A i \in DOMAIN payload : payload[i] \in 0..255
      <4>1. \A i \in DOMAIN payload : payload[i] \in Bytes
        BY <1>1
      <4> QED BY <4>1 DEF Bytes
    <3>2. \A z \in 0..255 : z % 256 = z
      OBVIOUS
    <3> QED BY <3>1, <3>2
  <2>2. payload = [i \in DOMAIN payload |-> payload[i]]
    BY <1>1
  <2> QED BY <2>1, <2>2
<1>3. Encode(command, payload) = h \o payload \o t
  BY <1>2 DEF Encode
<1>4. h \in Seq(V) /\ t \in Seq(V) /\ payload \in Seq(V)
  <2>1. HEADER1 \in V /\ HEADER2 \in V /\ command \in V /\ x \in V /\ y \in V
    BY DEF HEADER1, HEADER2, Bytes
  <2> HIDE DEF x, y
  <2>2. Bytes \subseteq V
    OBVIOUS
  <2> HIDE DEF V
  <2> QED BY <1>1, <2>1, <2>2
<1>5. Len(h) = 3 /\ Len(t) = 2 /\ h[1] = HEADER1 /\ h[2] = HEADER2 /\ h[3] = command
      /\ t[1] = x /\ t[2] = y
  OBVIOUS
<1> DEFINE e == h \o payload
<1> HIDE DEF h, t, V, x, y
<1>6. /\ e \in Seq(V) /\ Len(e) = 3 + n
      /\ \A i \in 1..(3 + n) : e[i] = IF i <= 3 THEN h[i] ELSE payload[i - 3]
  <2>1. /\ e \in Seq(V) /\ Len(e) = Len(h) + n
        /\ \A i \in 1..(Len(h) + n) : e[i] = IF i <= Len(h) THEN h[i] ELSE payload[i - Len(h)]
    BY <1>4, ConcatProperties
  <2> HIDE DEF e, n
  <2> QED BY <1>5, <2>1
<1> DEFINE b == e \o t
<1> HIDE DEF e, n
<1>7. /\ b \in Seq(V) /\ Len(b) = 5 + n
      /\ \A i \in 1..(5 + n) : b[i] = IF i <= 3 + n THEN e[i] ELSE t[i - (3 + n)]
  <2>1. /\ b \in Seq(V) /\ Len(b) = Len(e) + Len(t)
        /\ \A i \in 1..(Len(e) + Len(t)) : b[i] = IF i <= Len(e) THEN e[i] ELSE t[i - Len(e)]
    BY <1>4, <1>6, ConcatProperties
  <2>2. Len(e) + Len(t) = 5 + n
    BY <1>1, <1>5, <1>6
  <2> HIDE DEF b
  <2> QED BY <1>6, <2>1, <2>2
<1> HIDE DEF b
<1>8. b[1] = HEADER1 /\ b[2] = HEADER2 /\ b[3] = command
  BY <1>1, <1>5, <1>6, <1>7
<1>9. ASSUME NEW i \in 1..n PROVE b[3 + i] = payload[i]
  <2>1. 3 + i \in 1..(5 + n) /\ 3 + i <= 3 + n /\ ~(3 + i <= 3) /\ (3 + i) - 3 = i /\ 3 + i \in 1..(3 + n)
    BY <1>1
  <2> DEFINE j == 3 + i
  <2>2. j \in 1..(5 + n) /\ j <= 3 + n /\ ~(j <= 3) /\ j - 3 = i /\ j \in 1..(3 + n)
    BY <2>1
  <2> HIDE DEF j
  <2>3. b[j] = payload[i]
    BY <1>6, <1>7, <2>2
  <2> QED BY <2>3 DEF j
<1>10. b[4 + n] = x /\ b[5 + n] = y
  <2>1. 4 + n \in 1..(5 + n) /\ ~(4 + n <= 3 + n) /\ (4 + n) - (3 + n) = 1
    BY <1>1
  <2>2. 5 + n \in 1..(5 + n) /\ ~(5 + n <= 3 + n) /\ (5 + n) - (3 + n) = 2
    BY <1>1
  <2>3. b[4 + n] = t[1]
    BY <1>7, <2>1
  <2>4. b[5 + n] = t[2]
    BY <1>7, <2>2
  <2> QED BY <1>5, <2>3, <2>4
<1>11. Encode(command, payload) = b
  BY <1>3 DEF b, e
<1>12. Len(b) - 1 = 4 + n /\ Len(b) = n + FRAME_OVERHEAD
  BY <1>1, <1>7 DEF FRAME_OVERHEAD
<1> QED BY <1>7, <1>8, <1>9, <1>10, <1>11, <1>12 DEF Parts, V, x, y, n

\* What the decoder takes out of an encoded frame is what was put in.
LEMMA EncodedBody ==
    ASSUME NEW command, NEW payload \in Payloads
    PROVE  LET b == Encode(command, payload)
           IN  /\ FrameLength(b, 1) = Len(b) /\ SubSeq(b, 1, 1 + FrameLength(b, 1) - 1) = b
               /\ SubSeq(b, 4, Len(b) - 2) = payload
               /\ ValidChecksum(b)
<1> DEFINE b == Encode(command, payload)
           x == AlternateSum(payload, 1)
           y == AlternateSum(payload, 2)
           V == Bytes \cup {command, x, y}
           n == Len(payload)
<1>1. /\ b \in Seq(V) /\ Len(b) = n + 5 /\ \A i \in 1..n : b[3 + i] = payload[i]
      /\ b[Len(b) - 1] = x /\ b[Len(b)] = y
  <2>1. Parts(b, command, payload)
    BY EncodeFacts
  <2> HIDE DEF b
  <2> QED BY <2>1 DEF Parts, FRAME_OVERHEAD
<1>2. payload \in Seq(Bytes) /\ n \in Nat /\ n >= 1 /\ payload[1] = n
  BY DEF Payloads
<1> HIDE DEF b, V, x, y
<1>3. FrameLength(b, 1) = Len(b)
  <2>1. b[3 + 1] = payload[1]
    BY <1>1, <1>2
  <2> QED BY <1>1, <1>2, <2>1 DEF FrameLength, FRAME_OVERHEAD
<1>4. SubSeq(b, 1, 1 + FrameLength(b, 1) - 1) = b
  <2>1. 1 + FrameLength(b, 1) - 1 = Len(b)
    BY <1>1, <1>2, <1>3
  <2>2. SubSeq(b, 1, Len(b)) = b
    BY <1>1, SubSeqFull
  <2> QED BY <2>1, <2>2
<1>5. SubSeq(b, 4, Len(b) - 2) = payload
  <2>1. SubSeq(b, 4, Len(b) - 2) = [i \in 1..n |-> b[i + 4 - 1]]
    <3>1. Len(b) - 2 = n + 3 /\ (n + 3) - 4 + 1 = n
      BY <1>1, <1>2
    <3>2. SubSeq(b, 4, n + 3) = [i \in 1..((n + 3) - 4 + 1) |-> b[i + 4 - 1]]
      OBVIOUS
    <3> QED BY <3>1, <3>2
  <2>2. \A i \in 1..n : b[i + 4 - 1] = payload[i]
    <3>1. \A i \in 1..n : i + 4 - 1 = 3 + i
      BY <1>2
    <3> QED BY <1>1, <3>1
  <2>3. payload = [i \in 1..n |-> payload[i]]
    BY <1>2
  <2> QED BY <2>1, <2>2, <2>3
<1>6. From(b, Len(b) - 1) = <<x, y>>
  <2> DEFINE m == Len(b)
  <2>1. m \in Nat /\ m >= 6 /\ m - 1 \in 1..(m + 1)
    BY <1>1, <1>2
  <2>2. SubSeq(b, m - 1, m) = <<b[m - 1], b[m]>>
    <3> HIDE DEF m
    <3>1. SubSeq(b, m - 1, m) = [i \in 1..2 |-> b[i + (m - 1) - 1]]
      <4>1. m - (m - 1) + 1 = 2
        BY <2>1
      <4> QED BY <2>1, <4>1
    <3>2. 1 + (m - 1) - 1 = m - 1 /\ 2 + (m - 1) - 1 = m
      BY <2>1
    <3>3. <<b[m - 1], b[m]>> = [i \in 1..2 |-> IF i = 1 THEN b[m - 1] ELSE b[m]]
      OBVIOUS
    <3>4. \A i \in 1..2 : b[i + (m - 1) - 1] = IF i = 1 THEN b[m - 1] ELSE b[m]
      BY <3>2
    <3> QED BY <3>1, <3>3, <3>4
  <2> QED BY <1>1, <2>2 DEF From
<1>7. ValidChecksum(b)
  BY <1>5, <1>6 DEF ValidChecksum, x, y
<1> QED BY <1>3, <1>4, <1>5, <1>7 DEF b

\* A frame that encode makes, of any length: the decoder finds all of it, and of an
\* event or of settings it parses the payload that was put in.
THEOREM EncodedIsDecoded ==
    ASSUME NEW command, NEW payload \in Payloads
    PROVE  LET b == Encode(command, payload)
           IN  /\ b[1] = HEADER1 /\ b[2] = HEADER2 /\ ~TooShort(b, 1) /\ ~TooLong(b, 1)
               /\ FrameLength(b, 1) = Len(b)
               /\ Decode(b, 1) =
                    CASE command = EVENT_COMMAND ->
                           IF Len(payload) < 2 THEN Error
                           ELSE ParseMessage(payload[2], From(payload, 3))
                      [] command = SETTINGS_COMMAND -> ParseSettings(payload)
                      [] OTHER -> Ignored
<1> DEFINE b == Encode(command, payload)
           n == Len(payload)
<1>1. payload \in Seq(Bytes) /\ n \in Nat /\ n >= 1 /\ payload[1] = n
  BY DEF Payloads
<1>2. /\ Len(b) = n + 5 /\ b[1] = HEADER1 /\ b[2] = HEADER2 /\ b[3] = command
      /\ b[3 + 1] = payload[1]
  <2>1. Parts(b, command, payload)
    BY EncodeFacts
  <2>2. 1 \in 1..Len(payload)
    BY <1>1
  <2> HIDE DEF b
  <2> QED BY <2>1, <2>2 DEF Parts, FRAME_OVERHEAD
<1>3. /\ FrameLength(b, 1) = Len(b) /\ SubSeq(b, 1, 1 + FrameLength(b, 1) - 1) = b
      /\ SubSeq(b, 4, Len(b) - 2) = payload
      /\ ValidChecksum(b)
  BY EncodedBody
<1> HIDE DEF b
<1>4. b[4] = n
  BY <1>1, <1>2
<1>5. ~TooShort(b, 1) /\ ~TooLong(b, 1)
  BY <1>1, <1>2, <1>3 DEF TooShort, TooLong, Available, MIN_FRAME_LENGTH
<1>6. Decode(b, 1) =
        CASE command = EVENT_COMMAND ->
               IF n < 2 THEN Error ELSE ParseMessage(payload[2], From(payload, 3))
          [] command = SETTINGS_COMMAND -> ParseSettings(payload)
          [] OTHER -> Ignored
  BY <1>2, <1>3, <1>4 DEF Decode
<1> QED BY <1>2, <1>3, <1>5, <1>6 DEF b

-----------------------------------------------------------------------------
(* The two sums.                                                             *)

LEMMA ByteSum ==
    ASSUME NEW x \in Bytes, NEW y \in Bytes
    PROVE  /\ (x + y) % 256 \in Bytes
           /\ (x + y) % 256 = IF x + y < 256 THEN x + y ELSE x + y - 256
<1>1. x + y \in 0..510
  BY DEF Bytes
<1>2. \A z \in 0..510 : z % 256 = IF z < 256 THEN z ELSE z - 256
  OBVIOUS
<1>3. \A z \in 0..510 : z % 256 \in 0..255
  OBVIOUS
<1> DEFINE z == x + y
<1>4. z \in 0..510
  BY <1>1
<1> HIDE DEF z
<1>5. z % 256 \in 0..255 /\ z % 256 = IF z < 256 THEN z ELSE z - 256
  BY <1>2, <1>3, <1>4
<1> QED BY <1>5 DEF Bytes, z

LEMMA ByteSumsDiffer ==
    ASSUME NEW x \in Bytes, NEW y \in Bytes, NEW z \in Bytes, x # y
    PROVE  (x + z) % 256 # (y + z) % 256 /\ (z + x) % 256 # (z + y) % 256
<1>1. /\ (x + z) % 256 = IF x + z < 256 THEN x + z ELSE x + z - 256
      /\ (y + z) % 256 = IF y + z < 256 THEN y + z ELSE y + z - 256
      /\ (z + x) % 256 = IF z + x < 256 THEN z + x ELSE z + x - 256
      /\ (z + y) % 256 = IF z + y < 256 THEN z + y ELSE z + y - 256
  BY ByteSum
<1>2. x \in 0..255 /\ y \in 0..255 /\ z \in 0..255
  BY DEF Bytes
<1> QED BY <1>1, <1>2

LEMMA Parity ==
    ASSUME NEW k \in Int, NEW i \in Int, NEW j \in Int, (i - k) % 2 = 0, (j - k) % 2 = 0, i < j
    PROVE  i + 2 <= j
  OBVIOUS

LEMMA ParityUp ==
    ASSUME NEW k \in Int, NEW i \in Int
    PROVE  /\ ((i + 2) - k) % 2 = (i - k) % 2
           /\ (i - (k + 2)) % 2 = (i - k) % 2
  OBVIOUS

\* One step of a sum, given what the others give.
SumStep(s, i, g) == IF i > Len(s) THEN 0 ELSE (s[i] + g[i + 2]) % 256

\* There is a function that AlternateSum describes, built from the end of s on.
LEMMA SumExists ==
    ASSUME NEW s \in Seq(Bytes)
    PROVE  \E g : g = [i \in Nat |-> SumStep(s, i, g)]
<1> DEFINE Partial(k, g) == \A i \in Nat : i + k > Len(s) => g[i] = SumStep(s, i, g)
           T == {k \in Nat : \E g : Partial(k, g)}
           n == Len(s) + 1
<1>0. n \in Nat
  OBVIOUS
<1>1. 0 \in T
  <2> DEFINE g == [i \in Nat |-> 0]
  <2>1. \A i \in Nat : i + 0 > Len(s) => g[i] = SumStep(s, i, g)
    BY DEF SumStep
  <2> HIDE DEF g
  <2>2. Partial(0, g)
    BY <2>1
  <2> QED BY <2>2
<1>2. ASSUME NEW k \in 1..n, k - 1 \in T PROVE k \in T
  <2>1. PICK g : Partial(k - 1, g)
    BY <1>2
  <2> DEFINE m == Len(s) + 1 - k
             h == [i \in Nat |-> IF i = m THEN SumStep(s, m, g) ELSE g[i]]
  <2>2. m \in Nat
    OBVIOUS
  <2>3. ASSUME NEW i \in Nat, i >= m PROVE SumStep(s, i, h) = SumStep(s, i, g)
    <3>1. h[i + 2] = g[i + 2]
      BY <2>2, <2>3
    <3> HIDE DEF h
    <3> QED BY <3>1 DEF SumStep
  <2>4. ASSUME NEW i \in Nat, i + k > Len(s) PROVE h[i] = SumStep(s, i, h)
    <3>1. i >= m
      BY <2>4
    <3>2. CASE i = m
      BY <3>1, <3>2, <2>3
    <3>3. CASE i # m
      <4>1. i + (k - 1) > Len(s)
        BY <3>1, <3>3
      <4>2. g[i] = SumStep(s, i, g)
        BY <2>1, <4>1
      <4> QED BY <4>2, <3>1, <3>3, <2>3
    <3> QED BY <3>2, <3>3
  <2> HIDE DEF h, m
  <2>5. Partial(k, h)
    BY <2>4
  <2> QED BY <2>5
<1>3. n \in T
  <2> HIDE DEF T, n
  <2> QED BY <1>0, <1>1, <1>2, UpTo
<1>4. PICK g : Partial(n, g)
  BY <1>3
<1> DEFINE h == [i \in Nat |-> SumStep(s, i, g)]
<1>5. \A i \in Nat : h[i] = g[i]
  BY <1>4
<1>6. ASSUME NEW i \in Nat PROVE SumStep(s, i, g) = SumStep(s, i, h)
  <2>1. h[i + 2] = g[i + 2]
    BY <1>5
  <2> HIDE DEF h
  <2> QED BY <2>1 DEF SumStep
<1>7. h = [i \in Nat |-> SumStep(s, i, h)]
  BY <1>6
<1> QED BY <1>7

\* A sum is its first byte and the sum of the rest.
LEMMA SumUnfolds ==
    ASSUME NEW s \in Seq(Bytes), NEW k \in Nat
    PROVE  AlternateSum(s, k) =
             IF k > Len(s) THEN 0 ELSE (s[k] + AlternateSum(s, k + 2)) % 256
<1> DEFINE Sum(g) == g = [i \in Nat |-> IF i > Len(s) THEN 0 ELSE (s[i] + g[i + 2]) % 256]
           sum == CHOOSE g : Sum(g)
<1>1. \E g : Sum(g)
  BY SumExists DEF SumStep
<1>2. Sum(sum)
  <2> HIDE DEF Sum
  <2> QED BY <1>1
<1>3. \A i \in Nat : AlternateSum(s, i) = sum[i]
  BY DEF AlternateSum
<1> HIDE DEF sum
<1>4. sum[k] = IF k > Len(s) THEN 0 ELSE (s[k] + sum[k + 2]) % 256
  BY <1>2
<1> QED BY <1>3, <1>4

LEMMA SumIsByte ==
    ASSUME NEW s \in Seq(Bytes), NEW k \in Nat \ {0}
    PROVE  AlternateSum(s, k) \in Bytes
<1> DEFINE T == {m \in Nat : \A i \in Nat \ {0} : i + m > Len(s) => AlternateSum(s, i) \in Bytes}
           n == Len(s)
<1>1. n \in Nat
  OBVIOUS
<1>2. 0 \in T
  <2>1. ASSUME NEW i \in Nat \ {0}, i + 0 > n PROVE AlternateSum(s, i) = 0
    BY <2>1, SumUnfolds
  <2>2. 0 \in Bytes
    BY DEF Bytes
  <2> QED BY <2>1, <2>2
<1>3. ASSUME NEW m \in 1..n, m - 1 \in T PROVE m \in T
  <2> SUFFICES ASSUME NEW i \in Nat \ {0}, i + m > n PROVE AlternateSum(s, i) \in Bytes
    OBVIOUS
  <2>1. i + 2 \in Nat \ {0} /\ (i + 2) + (m - 1) > n
    OBVIOUS
  <2>2. AlternateSum(s, i + 2) \in Bytes
    BY <1>3, <2>1
  <2> DEFINE rest == AlternateSum(s, i + 2)
  <2>3. AlternateSum(s, i) = IF i > n THEN 0 ELSE (s[i] + rest) % 256
    BY SumUnfolds
  <2>4. i <= n => s[i] \in Bytes
    BY <1>1
  <2> HIDE DEF rest, n
  <2>5. 0 \in Bytes /\ (i <= n => (s[i] + rest) % 256 \in Bytes)
    <3>1. 0 \in Bytes
      BY DEF Bytes
    <3> QED BY <2>2, <2>4, <3>1, ByteSum DEF rest
  <2>6. AlternateSum(s, i) \in Bytes
    BY <1>1, <2>3, <2>5
  <2> QED BY <2>6
<1>4. n \in T
  <2> HIDE DEF T, n
  <2> QED BY <1>1, <1>2, <1>3, UpTo
<1> QED BY <1>4

\* Sequences of one length that agree on every second byte from the k-th on, and
\* on those that may differ but not on which.
LEMMA SumSame ==
    ASSUME NEW s \in Seq(Bytes), NEW t \in Seq(Bytes), Len(s) = Len(t), NEW k \in Nat \ {0},
           \A i \in k..Len(s) : (i - k) % 2 = 0 => s[i] = t[i]
    PROVE  AlternateSum(s, k) = AlternateSum(t, k)
<1> DEFINE Same(i) == AlternateSum(s, i) = AlternateSum(t, i)
           T == {m \in Nat : \A i \in Nat : i >= k /\ (i - k) % 2 = 0 /\ i + m > Len(s) => Same(i)}
           n == Len(s)
<1>1. n \in Nat
  OBVIOUS
<1>2. 0 \in T
  BY SumUnfolds
<1>3. ASSUME NEW m \in 1..n, m - 1 \in T PROVE m \in T
  <2> SUFFICES ASSUME NEW i \in Nat, i >= k, (i - k) % 2 = 0, i + m > n PROVE Same(i)
    OBVIOUS
  <2>1. i + 2 \in Nat /\ i + 2 >= k /\ ((i + 2) - k) % 2 = 0 /\ (i + 2) + (m - 1) > n
    OBVIOUS
  <2>2. Same(i + 2)
    BY <1>3, <2>1
  <2>3. i <= n => s[i] = t[i]
    OBVIOUS
  <2>4. /\ AlternateSum(s, i) = IF i > n THEN 0 ELSE (s[i] + AlternateSum(s, i + 2)) % 256
        /\ AlternateSum(t, i) = IF i > n THEN 0 ELSE (t[i] + AlternateSum(t, i + 2)) % 256
    BY SumUnfolds
  <2> HIDE DEF n
  <2> QED BY <1>1, <2>2, <2>3, <2>4
<1>4. n \in T
  <2> HIDE DEF T, n
  <2> QED BY <1>1, <1>2, <1>3, UpTo
<1>5. (k - k) % 2 = 0
  OBVIOUS
<1> HIDE DEF Same
<1>6. Same(k)
  BY <1>1, <1>4, <1>5
<1> QED BY <1>6 DEF Same

\* A sum tells apart what differs in one of its bytes.
LEMMA SumDiffers ==
    ASSUME NEW s \in Seq(Bytes), NEW t \in Seq(Bytes), Len(s) = Len(t), NEW k \in Nat \ {0},
           NEW j \in k..Len(s), (j - k) % 2 = 0, s[j] # t[j],
           \A i \in k..Len(s) : (i - k) % 2 = 0 /\ i # j => s[i] = t[i]
    PROVE  AlternateSum(s, k) # AlternateSum(t, k)
<1> DEFINE Differ(i) == AlternateSum(s, i) # AlternateSum(t, i)
           T == {m \in Nat : \A i \in k..j : (i - k) % 2 = 0 /\ i + m >= j => Differ(i)}
           n == j
<1>1. n \in Nat /\ j \in 1..Len(s) /\ j \in Nat /\ j + 2 \in Nat \ {0}
  OBVIOUS
<1>2. ASSUME NEW i \in k..j
      PROVE  /\ AlternateSum(s, i) = (s[i] + AlternateSum(s, i + 2)) % 256
             /\ AlternateSum(t, i) = (t[i] + AlternateSum(t, i + 2)) % 256
             /\ s[i] \in Bytes /\ t[i] \in Bytes
             /\ AlternateSum(s, i + 2) \in Bytes /\ AlternateSum(t, i + 2) \in Bytes
  <2>1. i \in Nat /\ ~(i > Len(s)) /\ ~(i > Len(t)) /\ i + 2 \in Nat \ {0}
    OBVIOUS
  <2>2. s[i] \in Bytes /\ t[i] \in Bytes
    OBVIOUS
  <2>3. AlternateSum(s, i + 2) \in Bytes /\ AlternateSum(t, i + 2) \in Bytes
    BY <2>1, SumIsByte
  <2> QED BY <2>1, <2>2, <2>3, SumUnfolds
<1>4. Differ(j)
  <2>1. AlternateSum(s, j + 2) = AlternateSum(t, j + 2)
    <3>1. \A i \in (j + 2)..Len(s) : (i - (j + 2)) % 2 = 0 => s[i] = t[i]
      <4> SUFFICES ASSUME NEW i \in (j + 2)..Len(s), (i - (j + 2)) % 2 = 0 PROVE s[i] = t[i]
        OBVIOUS
      <4>1. i \in k..Len(s) /\ i # j /\ i \in Int /\ j \in Int /\ k \in Int
        OBVIOUS
      <4>2. (i - k) % 2 = 0
        <5>1. (i - (j + 2)) % 2 = (i - j) % 2
          BY <4>1, ParityUp
        <5>2. \A a, b \in Int : a % 2 = 0 /\ b % 2 = 0 => (a + b) % 2 = 0
          OBVIOUS
        <5>3. i - k = (i - j) + (j - k) /\ i - j \in Int /\ j - k \in Int
          BY <4>1
        <5> QED BY <5>1, <5>2, <5>3
      <4> QED BY <4>1, <4>2
    <3> QED BY <1>1, <3>1, SumSame
  <2>2. j \in k..j
    OBVIOUS
  <2>3. s[j] \in Bytes /\ t[j] \in Bytes /\ AlternateSum(s, j + 2) \in Bytes
    BY <1>2, <2>2
  <2>4. (s[j] + AlternateSum(s, j + 2)) % 256 # (t[j] + AlternateSum(s, j + 2)) % 256
    BY <2>3, ByteSumsDiffer
  <2>5. /\ AlternateSum(s, j) = (s[j] + AlternateSum(s, j + 2)) % 256
        /\ AlternateSum(t, j) = (t[j] + AlternateSum(t, j + 2)) % 256
    BY <1>2, <2>2
  <2> QED BY <2>1, <2>4, <2>5
<1>5. 0 \in T
  <2>1. \A i \in k..j : i + 0 >= j => i = j
    OBVIOUS
  <2> HIDE DEF Differ
  <2> QED BY <1>4, <2>1
<1>6. ASSUME NEW m \in 1..n, m - 1 \in T PROVE m \in T
  <2> SUFFICES ASSUME NEW i \in k..j, (i - k) % 2 = 0, i + m >= j PROVE Differ(i)
    BY DEF T
  <2>1. CASE i = j
    BY <1>4, <2>1
  <2>2. CASE i # j
    <3>0. k \in Int /\ i \in Int /\ j \in Int /\ i < j /\ k <= i
      BY <2>2
    <3>1. i + 2 \in k..j /\ ((i + 2) - k) % 2 = 0 /\ (i + 2) + (m - 1) >= j
      <4>1. i + 2 <= j
        BY <3>0, Parity
      <4>2. ((i + 2) - k) % 2 = 0
        BY <3>0, ParityUp
      <4> QED BY <3>0, <4>1, <4>2
    <3>2. AlternateSum(s, i + 2) # AlternateSum(t, i + 2)
      BY <1>6, <3>1
    <3>3. s[i] = t[i]
      <4>1. i \in k..Len(s)
        BY <3>0
      <4> QED BY <2>2, <4>1
    <3> DEFINE a == AlternateSum(s, i + 2)
               b == AlternateSum(t, i + 2)
    <3>4. s[i] \in Bytes /\ a \in Bytes /\ b \in Bytes
      BY <1>2
    <3>5. (s[i] + a) % 256 # (s[i] + b) % 256
      <4> HIDE DEF a, b
      <4>1. a # b
        BY <3>2 DEF a, b
      <4> QED BY <3>4, <4>1, ByteSumsDiffer
    <3>6. AlternateSum(s, i) = (s[i] + a) % 256 /\ AlternateSum(t, i) = (s[i] + b) % 256
      BY <1>2, <3>3
    <3> QED BY <3>5, <3>6
  <2> QED BY <2>1, <2>2
<1>7. n \in T
  <2> HIDE DEF T, n
  <2> QED BY <1>1, <1>5, <1>6, UpTo
<1> HIDE DEF Differ
<1>8. k \in k..j /\ (k - k) % 2 = 0 /\ k + n >= j
  OBVIOUS
<1>9. Differ(k)
  BY <1>7, <1>8
<1> QED BY <1>9 DEF Differ

\* The places of b that the k-th sum is about: every second byte of the body and
\* the sum itself.
Covered(b, k) == {i \in 4..(Len(b) - 2) : (i - 3 - k) % 2 = 0} \cup {Len(b) - 2 + k}

\* c claims the length of b and has it, and of what the k-th sum is about it differs
\* from b in one byte.
OneDiffers(b, c, k) ==
    /\ Len(c) = Len(b) /\ c[4] = b[4]
    /\ \E j \in Covered(b, k) : c[j] # b[j] /\ \A i \in Covered(b, k) \ {j} : c[i] = b[i]

\* What the decoder takes out of bytes with their own number in the fourth.
LEMMA FrameParts ==
    ASSUME NEW c \in Seq(Bytes), Len(c) >= MIN_FRAME_LENGTH, c[4] + FRAME_OVERHEAD = Len(c)
    PROVE  LET body == SubSeq(c, 4, Len(c) - 2)
           IN  /\ SubSeq(c, 1, 1 + FrameLength(c, 1) - 1) = c
               /\ body \in Seq(Bytes) /\ Len(body) = Len(c) - 5
               /\ \A i \in 1..(Len(c) - 5) : body[i] = c[3 + i]
               /\ From(c, Len(c) - 1) = <<c[Len(c) - 1], c[Len(c)]>>
<1> DEFINE m == Len(c)
           body == SubSeq(c, 4, m - 2)
<1>1. m \in Nat /\ m >= 6
  BY DEF MIN_FRAME_LENGTH
<1>2. SubSeq(c, 1, 1 + FrameLength(c, 1) - 1) = c
  <2>1. FrameLength(c, 1) = m
    BY DEF FrameLength
  <2>2. 1 + FrameLength(c, 1) - 1 = m
    BY <1>1, <2>1
  <2>3. SubSeq(c, 1, m) = c
    BY SubSeqFull
  <2> QED BY <2>2, <2>3
<1>3. body \in Seq(Bytes) /\ Len(body) = m - 5 /\ \A i \in 1..(m - 5) : body[i] = c[3 + i]
  <2>1. body = [i \in 1..(m - 5) |-> c[i + 4 - 1]]
    <3>1. (m - 2) - 4 + 1 = m - 5
      BY <1>1
    <3>2. SubSeq(c, 4, m - 2) = [i \in 1..((m - 2) - 4 + 1) |-> c[i + 4 - 1]]
      BY <1>1
    <3> QED BY <3>1, <3>2
  <2>2. \A i \in 1..(m - 5) : i + 4 - 1 = 3 + i /\ 3 + i \in 1..m
    BY <1>1
  <2>3. \A i \in 1..(m - 5) : body[i] = c[3 + i] /\ c[3 + i] \in Bytes
    BY <2>1, <2>2
  <2>4. m - 5 \in Nat
    BY <1>1
  <2> DEFINE k == m - 5
  <2>5. k \in Nat /\ body = [i \in 1..k |-> c[i + 4 - 1]]
    BY <2>1, <2>4
  <2>6. \A i \in 1..k : body[i] = c[3 + i] /\ c[3 + i] \in Bytes /\ c[i + 4 - 1] \in Bytes
    BY <2>2, <2>3
  <2> HIDE DEF m, k, body
  <2>7. body \in Seq(Bytes) /\ Len(body) = k
    BY <2>5, <2>6
  <2> QED BY <2>6, <2>7 DEF k
<1>4. From(c, m - 1) = <<c[m - 1], c[m]>>
  <2>1. SubSeq(c, m - 1, m) = [i \in 1..2 |-> c[i + (m - 1) - 1]]
    <3>1. m - (m - 1) + 1 = 2
      BY <1>1
    <3> QED BY <1>1, <3>1
  <2>2. 1 + (m - 1) - 1 = m - 1 /\ 2 + (m - 1) - 1 = m
    BY <1>1
  <2>3. <<c[m - 1], c[m]>> = [i \in 1..2 |-> IF i = 1 THEN c[m - 1] ELSE c[m]]
    OBVIOUS
  <2>4. \A i \in 1..2 : c[i + (m - 1) - 1] = IF i = 1 THEN c[m - 1] ELSE c[m]
    BY <2>2
  <2> QED BY <2>1, <2>3, <2>4 DEF From
<1> QED BY <1>2, <1>3, <1>4

\* A frame of any length that encode made and that arrives as long, with one byte of
\* those that one of the sums is about changed to any other value: it is not decoded,
\* whatever became of the bytes of the other sum, of the command and of the header.
THEOREM DamageIsCaught ==
    ASSUME NEW command, NEW payload \in Payloads, NEW k \in {1, 2}, NEW c \in Seq(Bytes),
           OneDiffers(Encode(command, payload), c, k)
    PROVE  Decode(c, 1) = Error
<1> DEFINE b == Encode(command, payload)
           n == Len(payload)
           body == SubSeq(c, 4, Len(c) - 2)
<1>1. payload \in Seq(Bytes) /\ n \in Nat /\ n >= 1 /\ payload[1] = n
  BY DEF Payloads
<1>2. /\ Len(b) = n + 5 /\ b[4] = n
      /\ \A i \in 1..n : b[3 + i] = payload[i]
      /\ b[n + 3 + k] = AlternateSum(payload, k)
  <2>1. Parts(b, command, payload)
    BY EncodeFacts
  <2> HIDE DEF b
  <2>2. /\ Len(b) = n + 5
        /\ \A i \in 1..n : b[3 + i] = payload[i]
        /\ b[Len(b) - 1] = AlternateSum(payload, 1) /\ b[Len(b)] = AlternateSum(payload, 2)
    BY <2>1 DEF Parts, FRAME_OVERHEAD
  <2>3. b[3 + 1] = payload[1] /\ 3 + 1 = 4
    BY <1>1, <2>2
  <2>4. Len(b) - 1 = n + 3 + 1 /\ Len(b) = n + 3 + 2
    BY <1>1, <2>2
  <2> QED BY <1>1, <2>2, <2>3, <2>4
<1>3. PICK j \in Covered(b, k) :
        /\ Len(c) = n + 5 /\ c[4] = n
        /\ c[j] # b[j] /\ \A i \in Covered(b, k) \ {j} : c[i] = b[i]
  <2> HIDE DEF b
  <2>1. OneDiffers(b, c, k)
    BY DEF b
  <2> QED BY <1>2, <2>1 DEF OneDiffers
<1> HIDE DEF b
<1>4. \A i \in Covered(b, k) : (i \in 4..(n + 3) /\ (i - 3 - k) % 2 = 0) \/ i = n + 3 + k
  BY <1>1, <1>2 DEF Covered
<1>5. /\ \A i \in 4..(n + 3) : (i - 3 - k) % 2 = 0 => i \in Covered(b, k)
      /\ n + 3 + k \in Covered(b, k)
  BY <1>1, <1>2 DEF Covered
<1>6. /\ SubSeq(c, 1, 1 + FrameLength(c, 1) - 1) = c
      /\ body \in Seq(Bytes) /\ Len(body) = n
      /\ \A i \in 1..n : body[i] = c[3 + i]
      /\ From(c, Len(c) - 1) = <<c[n + 3 + 1], c[n + 3 + 2]>>
  <2>1. Len(c) >= MIN_FRAME_LENGTH /\ c[4] + FRAME_OVERHEAD = Len(c)
    BY <1>1, <1>3 DEF MIN_FRAME_LENGTH, FRAME_OVERHEAD
  <2>2. Len(c) - 5 = n /\ Len(c) - 1 = n + 3 + 1 /\ Len(c) = n + 3 + 2
    BY <1>1, <1>3
  <2> HIDE DEF n
  <2> QED BY <2>1, <2>2, FrameParts
<1>7. ASSUME ValidChecksum(c) PROVE FALSE
  <2>1. c[n + 3 + k] = AlternateSum(body, k)
    <3>1. <<c[n + 3 + 1], c[n + 3 + 2]>> = <<AlternateSum(body, 1), AlternateSum(body, 2)>>
      BY <1>6, <1>7 DEF ValidChecksum
    <3> HIDE DEF body, n
    <3>2. c[n + 3 + 1] = AlternateSum(body, 1) /\ c[n + 3 + 2] = AlternateSum(body, 2)
      BY <3>1
    <3> QED BY <3>2
  <2> HIDE DEF body, n
  <2>2. k \in Nat \ {0} /\ k \in Int
    OBVIOUS
  <2>3. ASSUME NEW i \in k..n, (i - k) % 2 = 0
        PROVE  i \in 1..n /\ 3 + i \in Covered(b, k) /\ 3 + i # n + 3 + k
    <3>1. i \in 1..n /\ 3 + i \in 4..(n + 3) /\ (3 + i) - 3 - k = i - k
      BY <1>1
    <3> QED BY <1>1, <1>5, <2>3, <3>1
  <2>4. CASE j = n + 3 + k
    <3>1. \A i \in k..n : (i - k) % 2 = 0 => body[i] = payload[i]
      <4> SUFFICES ASSUME NEW i \in k..n, (i - k) % 2 = 0 PROVE body[i] = payload[i]
        OBVIOUS
      <4>1. c[3 + i] = b[3 + i]
        BY <1>3, <2>3, <2>4
      <4> QED BY <1>2, <1>6, <2>3, <4>1
    <3>2. AlternateSum(body, k) = AlternateSum(payload, k)
      BY <1>1, <1>6, <2>2, <3>1, SumSame DEF n
    <3> QED BY <1>2, <1>3, <2>1, <2>4, <3>2
  <2>5. CASE j # n + 3 + k
    <3>1. j \in 4..(n + 3) /\ (j - 3 - k) % 2 = 0
      BY <1>3, <1>4, <2>5
    <3>2. j # 4
      BY <1>2, <1>3
    <3> DEFINE i == j - 3
    <3>3. i \in k..n /\ (i - k) % 2 = 0 /\ 3 + i = j
      <4>1. i \in 2..n /\ 3 + i = j
        BY <1>1, <3>1, <3>2
      <4> QED BY <3>1, <4>1
    <3> HIDE DEF i
    <3>4. body[i] # payload[i]
      BY <1>2, <1>3, <1>6, <2>3, <3>3
    <3>5. \A h \in k..n : (h - k) % 2 = 0 /\ h # i => body[h] = payload[h]
      <4> SUFFICES ASSUME NEW h \in k..n, (h - k) % 2 = 0, h # i PROVE body[h] = payload[h]
        OBVIOUS
      <4>1. 3 + h # j
        BY <3>3
      <4>2. c[3 + h] = b[3 + h]
        BY <1>3, <2>3, <4>1
      <4> QED BY <1>2, <1>6, <2>3, <4>2
    <3>6. AlternateSum(body, k) # AlternateSum(payload, k)
      <4>1. /\ body \in Seq(Bytes) /\ payload \in Seq(Bytes) /\ Len(body) = Len(payload)
            /\ k \in Nat \ {0} /\ i \in k..Len(body) /\ (i - k) % 2 = 0 /\ body[i] # payload[i]
            /\ \A h \in k..Len(body) : (h - k) % 2 = 0 /\ h # i => body[h] = payload[h]
        BY <1>1, <1>6, <2>2, <3>3, <3>4, <3>5 DEF n
      <4> HIDE DEF Covered
      <4> QED BY <4>1, SumDiffers
    <3>7. c[n + 3 + k] = b[n + 3 + k]
      BY <1>3, <1>5, <2>5
    <3> QED BY <1>2, <2>1, <3>6, <3>7
  <2> QED BY <2>4, <2>5
<1> QED BY <1>6, <1>7 DEF Decode

\* Any one byte behind the length changed to any other value is caught, so is a change
\* of one of the sums.
COROLLARY OneByteIsCaught ==
    ASSUME NEW command \in Bytes, NEW payload \in Payloads,
           NEW j \in 5..Len(Encode(command, payload)), NEW v \in Bytes,
           v # Encode(command, payload)[j]
    PROVE  Decode([Encode(command, payload) EXCEPT ![j] = v], 1) = Error
<1> DEFINE b == Encode(command, payload)
           c == [b EXCEPT ![j] = v]
           n == Len(payload)
<1>1. n \in Nat /\ n >= 1
  BY DEF Payloads
<1>2. b \in Seq(Bytes) /\ Len(b) = n + 5
  <2>1. Parts(b, command, payload)
    BY EncodeFacts
  <2>2. payload \in Seq(Bytes)
    BY DEF Payloads
  <2>3. AlternateSum(payload, 1) \in Bytes /\ AlternateSum(payload, 2) \in Bytes
    BY <2>2, SumIsByte
  <2>4. Bytes \cup {command, AlternateSum(payload, 1), AlternateSum(payload, 2)} = Bytes
    BY <2>3
  <2> HIDE DEF b
  <2> QED BY <2>1, <2>4 DEF Parts, FRAME_OVERHEAD
<1>3. j \in 5..Len(b) /\ v # b[j]
  OBVIOUS
<1> HIDE DEF b
<1>4. c \in Seq(Bytes) /\ Len(c) = Len(b) /\ c[4] = b[4] /\ c[j] # b[j]
      /\ \A i \in 1..Len(b) : i # j => c[i] = b[i]
  <2>1. \A i \in 1..Len(b) : c[i] = IF i = j THEN v ELSE b[i]
    BY <1>2
  <2>2. j \in 1..Len(b) /\ 4 \in 1..Len(b) /\ 4 # j
    BY <1>1, <1>2, <1>3
  <2>3. c \in Seq(Bytes) /\ Len(c) = Len(b)
    BY <1>2, <2>2
  <2> HIDE DEF c
  <2> QED BY <1>3, <2>1, <2>2, <2>3
<1>5. PICK k \in {1, 2} : j \in Covered(b, k)
  <2>1. CASE j = n + 4
    <3>1. j \in Covered(b, 1)
      BY <1>1, <1>2, <2>1 DEF Covered
    <3> QED BY <3>1
  <2>2. CASE j = n + 5
    <3>1. j \in Covered(b, 2)
      BY <1>1, <1>2, <2>2 DEF Covered
    <3> QED BY <3>1
  <2>3. CASE j \in 5..(n + 3)
    <3>1. (j - 3 - 1) % 2 = 0 \/ (j - 3 - 2) % 2 = 0
      BY <2>3
    <3>2. j \in 4..(Len(b) - 2)
      BY <1>1, <1>2, <2>3
    <3> QED BY <3>1, <3>2 DEF Covered
  <2> QED BY <1>1, <1>2, <1>3, <2>1, <2>2, <2>3
<1>6. \A i \in Covered(b, k) \ {j} : c[i] = b[i]
  <2>1. Covered(b, k) \subseteq 1..Len(b)
    BY <1>1, <1>2 DEF Covered
  <2> QED BY <1>4, <2>1
<1> HIDE DEF c
<1>7. j \in Covered(b, k) /\ k \in {1, 2} /\ \A i \in Covered(b, k) \ {j} : c[i] = b[i]
  BY <1>5, <1>6
<1>8. Decode(c, 1) = Error
  <2>1. OneDiffers(b, c, k)
    BY <1>4, <1>7 DEF OneDiffers
  <2>2. OneDiffers(Encode(command, payload), c, k)
    BY <2>1 DEF b
  <2> QED BY <1>4, <1>7, <2>2, DamageIsCaught
<1> QED BY <1>8 DEF b, c

-----------------------------------------------------------------------------
(* Types: from whatever bytes, decode makes a message or an error.           *)

\* The chain that begins with the i-th byte is over.
Ends(p, i) ==
    \/ i > Len(p)
    \/ p[i] \notin DOMAIN RecordWidth
    \/ i + RecordWidth[p[i]] > Len(p)

NextRecord(p, i) == i + 1 + RecordWidth[p[i]]
RecordAt(p, i)   == [tag |-> p[i], body |-> SubSeq(p, i + 1, NextRecord(p, i) - 1)]

WalkStep(p, i, g) ==
    IF Ends(p, i) THEN <<>> ELSE <<RecordAt(p, i)>> \o g[NextRecord(p, i)]

\* What a chain consists of.
Record ==
    {r \in [tag : DOMAIN RecordWidth, body : Seq(Bytes)] : Len(r.body) = RecordWidth[r.tag]}

LEMMA Widths ==
    /\ \A tag \in DOMAIN RecordWidth : RecordWidth[tag] \in Nat /\ RecordWidth[tag] >= 1
    /\ RecordWidth[WEIGHT] = 6 /\ RecordWidth[TIMER] = 3 /\ RecordWidth[BUTTON] = 1
  BY DEF RecordWidth, WEIGHT, TIMER, BUTTON, ACK, BATTERY

LEMMA NextBehind ==
    ASSUME NEW p \in Seq(Bytes), NEW i \in Nat, ~Ends(p, i)
    PROVE  /\ NextRecord(p, i) \in Nat /\ NextRecord(p, i) >= i + 2
           /\ i <= Len(p) /\ NextRecord(p, i) <= Len(p) + 1
<1>1. p[i] \in DOMAIN RecordWidth /\ i <= Len(p) /\ ~(i + RecordWidth[p[i]] > Len(p)) /\ Len(p) \in Nat
  BY DEF Ends
<1> DEFINE w == RecordWidth[p[i]]
<1>2. w \in Nat /\ w >= 1
  BY <1>1, Widths
<1> HIDE DEF w
<1>3. ~(i + w > Len(p)) /\ NextRecord(p, i) = i + 1 + w
  BY <1>1 DEF w, NextRecord
<1> QED BY <1>1, <1>2, <1>3

\* _walk_records looks only at what is behind, so there is such a walk.
LEMMA WalkExists ==
    ASSUME NEW p \in Seq(Bytes)
    PROVE  \E g : g = [i \in Nat |-> WalkStep(p, i, g)]
<1> DEFINE Partial(k, g) == \A i \in Nat : i + k > Len(p) => g[i] = WalkStep(p, i, g)
           T == {k \in Nat : \E g : Partial(k, g)}
           n == Len(p) + 1
<1>0. n \in Nat
  OBVIOUS
<1>1. 0 \in T
  <2> DEFINE g == [i \in Nat |-> <<>>]
  <2>1. \A i \in Nat : i + 0 > Len(p) => g[i] = WalkStep(p, i, g)
    BY DEF WalkStep, Ends
  <2> HIDE DEF g
  <2>2. Partial(0, g)
    BY <2>1
  <2> QED BY <2>2
<1>2. ASSUME NEW k \in 1..n, k - 1 \in T PROVE k \in T
  <2>1. PICK g : Partial(k - 1, g)
    BY <1>2
  <2> DEFINE m == Len(p) + 1 - k
             h == [i \in Nat |-> IF i = m THEN WalkStep(p, m, g) ELSE g[i]]
  <2>2. m \in Nat
    OBVIOUS
  <2>3. ASSUME NEW i \in Nat, i >= m PROVE WalkStep(p, i, h) = WalkStep(p, i, g)
    <3>1. CASE Ends(p, i)
      BY <3>1 DEF WalkStep
    <3>2. CASE ~Ends(p, i)
      <4>1. NextRecord(p, i) \in Nat /\ NextRecord(p, i) >= i + 2
        BY <3>2, NextBehind
      <4>2. h[NextRecord(p, i)] = g[NextRecord(p, i)]
        BY <2>2, <2>3, <4>1
      <4> HIDE DEF h
      <4> QED BY <4>2 DEF WalkStep
    <3> QED BY <3>1, <3>2
  <2>4. ASSUME NEW i \in Nat, i + k > Len(p) PROVE h[i] = WalkStep(p, i, h)
    <3>1. i >= m
      BY <2>4
    <3>2. CASE i = m
      BY <3>1, <3>2, <2>3
    <3>3. CASE i # m
      <4>1. i + (k - 1) > Len(p)
        BY <3>1, <3>3
      <4>2. g[i] = WalkStep(p, i, g)
        BY <2>1, <4>1
      <4> QED BY <4>2, <3>1, <3>3, <2>3
    <3> QED BY <3>2, <3>3
  <2> HIDE DEF h, m
  <2>5. Partial(k, h)
    BY <2>4
  <2> QED BY <2>5
<1>3. n \in T
  <2> HIDE DEF T, n
  <2> QED BY <1>0, <1>1, <1>2, UpTo
<1>4. PICK g : Partial(n, g)
  BY <1>3
<1> DEFINE h == [i \in Nat |-> WalkStep(p, i, g)]
<1>5. \A i \in Nat : h[i] = g[i]
  BY <1>4
<1>6. ASSUME NEW i \in Nat PROVE WalkStep(p, i, g) = WalkStep(p, i, h)
  <2>1. CASE Ends(p, i)
    BY <2>1 DEF WalkStep
  <2>2. CASE ~Ends(p, i)
    <3>1. h[NextRecord(p, i)] = g[NextRecord(p, i)]
      BY <1>5, <2>2, NextBehind
    <3> HIDE DEF h
    <3> QED BY <3>1 DEF WalkStep
  <2> QED BY <2>1, <2>2
<1>7. h = [i \in Nat |-> WalkStep(p, i, h)]
  BY <1>6
<1> QED BY <1>7

\* The records of a chain have the bodies of their tags.
LEMMA ChainType ==
    ASSUME NEW p \in Seq(Bytes)
    PROVE  WalkRecords(p) \in Seq(Record)
<1> DEFINE Walk(g) == g = [i \in Nat |-> WalkStep(p, i, g)]
           walk == CHOOSE g : Walk(g)
<1>1. Walk(walk)
  <2>1. \E g : Walk(g)
    BY WalkExists
  <2> HIDE DEF Walk
  <2> QED BY <2>1
<1>2. WalkRecords(p) = walk[1]
  BY DEF WalkRecords, WalkStep, Ends, NextRecord, RecordAt
<1> HIDE DEF walk
<1>3. \A i \in Nat : walk[i] = WalkStep(p, i, walk)
  BY <1>1
<1> HIDE DEF Walk
<1> DEFINE T == {k \in Nat : \A i \in Nat \ {0} : i + k > Len(p) => walk[i] \in Seq(Record)}
           n == Len(p)
<1>4. n \in Nat
  OBVIOUS
<1>5. 0 \in T
  <2> SUFFICES ASSUME NEW i \in Nat \ {0}, i + 0 > Len(p) PROVE walk[i] \in Seq(Record)
    OBVIOUS
  <2>1. Ends(p, i)
    BY DEF Ends
  <2>2. walk[i] = <<>>
    BY <1>3, <2>1 DEF WalkStep
  <2> QED BY <2>2
<1>6. ASSUME NEW k \in 1..n, k - 1 \in T PROVE k \in T
  <2> SUFFICES ASSUME NEW i \in Nat \ {0}, i + k > Len(p) PROVE walk[i] \in Seq(Record)
    OBVIOUS
  <2>1. CASE Ends(p, i)
    <3>1. walk[i] = <<>>
      BY <1>3, <2>1 DEF WalkStep
    <3> QED BY <3>1
  <2>2. CASE ~Ends(p, i)
    <3> DEFINE j == NextRecord(p, i)
               r == RecordAt(p, i)
    <3>1. j \in Nat \ {0} /\ j >= i + 2 /\ i \in 1..Len(p) /\ j <= Len(p) + 1
      BY <2>2, NextBehind
    <3>2. walk[j] \in Seq(Record)
      <4>1. j + (k - 1) > Len(p)
        BY <1>4, <3>1
      <4> HIDE DEF j
      <4> QED BY <1>6, <3>1, <4>1
    <3>3. r \in Record
      <4>1. p[i] \in DOMAIN RecordWidth
        BY <2>2 DEF Ends
      <4>2. RecordWidth[p[i]] \in Nat /\ j = i + 1 + RecordWidth[p[i]]
        BY <4>1, Widths DEF NextRecord
      <4> HIDE DEF j
      <4>3. /\ SubSeq(p, i + 1, j - 1) \in Seq(Bytes)
            /\ Len(SubSeq(p, i + 1, j - 1)) = RecordWidth[p[i]]
        BY <3>1, <4>2
      <4> QED BY <4>1, <4>3 DEF j, RecordAt, Record
    <3>4. walk[i] = <<r>> \o walk[j]
      BY <1>3, <2>2 DEF WalkStep
    <3> HIDE DEF j, r
    <3>5. <<r>> \in Seq(Record)
      BY <3>3
    <3> QED BY <3>2, <3>4, <3>5, ConcatProperties
  <2> QED BY <2>1, <2>2
<1>7. n \in T
  <2> HIDE DEF T, n
  <2> QED BY <1>4, <1>5, <1>6, UpTo
<1> QED BY <1>2, <1>4, <1>7

LEMMA FieldType ==
    ASSUME NEW chain \in Seq(Record), NEW tag \in DOMAIN RecordWidth
    PROVE  \/ Field(chain, tag) = {}
           \/ \E i \in DOMAIN chain :
                /\ chain[i].tag = tag /\ Field(chain, tag) = {chain[i].body}
                /\ chain[i].body \in Seq(Bytes) /\ Len(chain[i].body) = RecordWidth[tag]
<1> DEFINE found == {i \in DOMAIN chain : chain[i].tag = tag}
<1>1. CASE found = {}
  BY <1>1 DEF Field
<1>2. CASE found # {}
  <2>1. found \in SUBSET (0..Len(chain)) /\ Len(chain) \in Nat
    OBVIOUS
  <2>2. Max(found) \in found
    <3> HIDE DEF found
    <3> QED BY <1>2, <2>1, MaxFacts
  <2> DEFINE i == Max(found)
  <2>3. i \in DOMAIN chain /\ chain[i].tag = tag
    <3> HIDE DEF i
    <3> QED BY <2>2 DEF i
  <2>4. Field(chain, tag) = {chain[i].body}
    BY <1>2 DEF Field
  <2> HIDE DEF i
  <2>5. chain[i] \in Record
    BY <2>3
  <2> QED BY <2>3, <2>4, <2>5 DEF Record
<1> QED BY <1>1, <1>2

\* What a frame claims is at least what every frame has.
LEMMA FrameLengthFacts ==
    ASSUME NEW p \in Seq(Bytes), NEW s \in Nat, ~TooShort(p, s)
    PROVE  FrameLength(p, s) \in Nat /\ FrameLength(p, s) >= FRAME_OVERHEAD
<1>1. s + 3 \in 1..Len(p)
  BY DEF TooShort, Available, MIN_FRAME_LENGTH
<1> DEFINE b == p[s + 3]
<1>2. b \in Bytes
  BY <1>1
<1>3. FrameLength(p, s) = b + FRAME_OVERHEAD
  BY DEF FrameLength
<1> HIDE DEF b
<1> QED BY <1>2, <1>3, SMT DEF Bytes, FRAME_OVERHEAD

\* The bytes from the s-th on are those of p, further in front.
LEMMA FromFacts ==
    ASSUME NEW p \in Seq(Bytes), NEW s \in 1..(Len(p) + 1)
    PROVE  /\ From(p, s) \in Seq(Bytes) /\ Len(From(p, s)) = Len(p) - s + 1
           /\ \A j \in 1..(Len(p) - s + 1) : From(p, s)[j] = p[j + s - 1]
  BY DEF From

LEMMA ByteFacts ==
    ASSUME NEW s \in Seq(Bytes), NEW i \in 1..Len(s)
    PROVE  s[i] \in 0..255
<1>1. s[i] \in Bytes
  OBVIOUS
<1> QED BY <1>1, Zenon DEF Bytes

LEMMA BatteryBound == \A b \in 0..255 : b % 128 \in 0..127
  BY SMT

LEMMA TimeType ==
    ASSUME NEW body \in Seq(Bytes), Len(body) >= 3
    PROVE  DecodeTime(body) \in Times
<1>1. body[1] \in 0..255 /\ body[2] \in 0..255 /\ body[3] \in 0..255
  <2>1. 1 \in 1..Len(body) /\ 2 \in 1..Len(body) /\ 3 \in 1..Len(body)
    OBVIOUS
  <2> QED BY <2>1, ByteFacts
<1>2. DecodeTime(body) = body[1] * 600 + body[2] * 10 + body[3]
  BY DEF DecodeTime
<1> DEFINE m == body[1]
           s == body[2]
           t == body[3]
           time == m * 600 + s * 10 + t
<1>3. time \in Times
  <2>1. m \in 0..255 /\ s \in 0..255 /\ t \in 0..255
    BY <1>1
  <2> HIDE DEF m, s, t
  <2>2. time \in Nat /\ time <= MaxTime
    BY <2>1, SMT DEF MaxTime
  <2>3. MaxTime \in Nat
    BY SMT DEF MaxTime
  <2> HIDE DEF time
  <2> QED BY <2>2, <2>3, SMT DEF Times
<1> QED BY <1>2, <1>3, Zenon

LEMMA WeightType ==
    ASSUME NEW body \in Seq(Bytes), IsWeight(body)
    PROVE  DecodeWeight(body) \in Weights
<1>1. body[1] \in 0..255 /\ body[2] \in 0..255 /\ body[5] \in 1..4
  <2>1. 1 \in 1..Len(body) /\ 2 \in 1..Len(body) /\ body[5] \in 1..4
    BY DEF IsWeight
  <2> QED BY <2>1, ByteFacts
<1> DEFINE low   == body[1]
           high  == body[2]
           power == <<1000, 100, 10, 1>>[body[5]]
           raw   == high * 256 + low
           value == raw * power
<1>2. power \in {1, 10, 100, 1000}
  BY <1>1
<1>3. value \in 0..MaxWeight
  <2>1. low \in 0..255 /\ high \in 0..255
    BY <1>1
  <2> HIDE DEF low, high, power
  <2>2. raw \in Nat /\ 1000 * raw <= MaxWeight
    BY <2>1, SMT DEF MaxWeight
  <2>3. MaxWeight \in Nat
    BY SMT DEF MaxWeight
  <2> HIDE DEF raw
  <2>4. value \in Nat /\ value <= 1000 * raw
    BY <1>2, <2>2, SMT
  <2> HIDE DEF value
  <2> QED BY <2>2, <2>3, <2>4, SMT
<1>4. DecodeWeight(body) = IF (body[6] \div 2) % 2 = 1 THEN -value ELSE value
  BY Zenon DEF DecodeWeight
<1> HIDE DEF value
<1>5. -value \in Weights /\ value \in Weights
  <2>1. MaxWeight \in Nat
    BY DEF MaxWeight
  <2> QED BY <1>3, <2>1, SMT DEF Weights
<1> QED BY <1>4, <1>5, Zenon

LEMMA TimeInType ==
    ASSUME NEW chain \in Seq(Record)
    PROVE  TimeIn(chain) \in Optional(Times)
<1>0. TIMER \in DOMAIN RecordWidth
  BY DEF RecordWidth
<1>1. CASE Field(chain, TIMER) = {}
  BY <1>1 DEF TimeIn, Optional
<1>2. CASE Field(chain, TIMER) # {}
  <2>1. PICK i \in DOMAIN chain :
          /\ Field(chain, TIMER) = {chain[i].body} /\ chain[i].body \in Seq(Bytes)
          /\ Len(chain[i].body) = RecordWidth[TIMER]
    BY <1>0, <1>2, FieldType
  <2>2. DecodeTime(chain[i].body) \in Times
    <3>1. Len(chain[i].body) >= 3
      BY <2>1, Widths
    <3> QED BY <2>1, <3>1, TimeType
  <2>3. TimeIn(chain) = {DecodeTime(chain[i].body)}
    BY <2>1 DEF TimeIn
  <2> QED BY <2>2, <2>3 DEF Optional
<1> QED BY <1>1, <1>2

LEMMA WeightInType ==
    ASSUME NEW chain \in Seq(Record), Readable(chain)
    PROVE  WeightIn(chain) \in Optional(Weights)
<1>0. WEIGHT \in DOMAIN RecordWidth
  BY DEF RecordWidth
<1>1. CASE Field(chain, WEIGHT) = {}
  BY <1>1 DEF WeightIn, Optional
<1>2. CASE Field(chain, WEIGHT) # {}
  <2>1. PICK i \in DOMAIN chain :
          /\ chain[i].tag = WEIGHT /\ Field(chain, WEIGHT) = {chain[i].body}
          /\ chain[i].body \in Seq(Bytes)
    BY <1>0, <1>2, FieldType
  <2>2. IsWeight(chain[i].body)
    BY <2>1 DEF Readable
  <2>3. WeightIn(chain) = {DecodeWeight(chain[i].body)} /\ DecodeWeight(chain[i].body) \in Weights
    BY <2>1, <2>2, WeightType DEF WeightIn
  <2> QED BY <2>3 DEF Optional
<1> QED BY <1>1, <1>2

LEMMA TimerParsed ==
    ASSUME NEW payload \in Seq(Bytes)
    PROVE  ParseTimer(payload) \in TimerMessage \cup {Error}
  BY TimeType DEF ParseTimer, TimerMessage

LEMMA WeightParsed ==
    ASSUME NEW payload \in Seq(Bytes)
    PROVE  ParseWeight(payload) \in WeightMessage \cup {Error}
<1> DEFINE trailing == WalkRecords(From(payload, 7))
<1>1. CASE ~IsWeight(payload) \/ ~Readable(trailing)
  BY <1>1 DEF ParseWeight
<1>2. CASE IsWeight(payload) /\ Readable(trailing)
  <2>1. From(payload, 7) \in Seq(Bytes)
    BY <1>2 DEF From, IsWeight
  <2>2. TimeIn(trailing) \in Optional(Times)
    BY <2>1, ChainType, TimeInType
  <2>3. DecodeWeight(payload) \in Weights
    BY <1>2, WeightType
  <2>4. {DecodeWeight(payload)} \in Optional(Weights) \ {{}}
    BY <2>3 DEF Optional
  <2>5. ParseWeight(payload) =
          [kind |-> "Weight", weight |-> {DecodeWeight(payload)}, time |-> TimeIn(trailing)]
    BY <1>2 DEF ParseWeight
  <2> QED BY <2>2, <2>4, <2>5 DEF WeightMessage
<1> QED BY <1>1, <1>2

LEMMA ButtonParsed ==
    ASSUME NEW payload \in Seq(Bytes)
    PROVE  ParseButton(payload) \in ButtonMessage \cup {Error}
<1> DEFINE chain == WalkRecords(<<BUTTON>> \o payload)
           keys  == {body[1] : body \in Field(chain, BUTTON)} \cap DOMAIN ButtonTypes
           type  == ButtonTypes[CHOOSE key \in keys : TRUE]
<1>1. CASE payload = <<>> \/ ~Readable(chain)
  BY <1>1 DEF ParseButton
<1>2. CASE ~(payload = <<>> \/ ~Readable(chain)) /\ keys = {}
  <2>1. ParseButton(payload) =
          [kind |-> "Button", button |-> "unknown", running |-> {}, time |-> {}, weight |-> {}]
    BY <1>2 DEF ParseButton
  <2> QED BY <2>1 DEF ButtonMessage, Optional
<1>3. CASE ~(payload = <<>> \/ ~Readable(chain)) /\ keys # {}
  <2>1. ParseButton(payload) =
          [kind |-> "Button", button |-> type.button, running |-> type.running,
           time |-> TimeIn(chain), weight |-> WeightIn(chain)]
    BY <1>3 DEF ParseButton
  <2>2. <<BUTTON>> \o payload \in Seq(Bytes)
    <3>1. <<BUTTON>> \in Seq(Bytes)
      BY DEF BUTTON, Bytes
    <3> QED BY <3>1, ConcatProperties
  <2>3. TimeIn(chain) \in Optional(Times) /\ WeightIn(chain) \in Optional(Weights)
    BY <1>3, <2>2, ChainType, TimeInType, WeightInType
  <2> HIDE DEF chain
  <2>4. \A key \in DOMAIN ButtonTypes :
          /\ ButtonTypes[key].button \in {"tare", "start", "stop", "reset", "unknown"}
          /\ ButtonTypes[key].running \in Optional(BOOLEAN)
    BY DEF ButtonTypes, Optional
  <2>5. (CHOOSE key \in keys : TRUE) \in DOMAIN ButtonTypes
    BY <1>3
  <2>6. type.button \in {"tare", "start", "stop", "reset", "unknown"} /\ type.running \in Optional(BOOLEAN)
    BY <2>4, <2>5
  <2> HIDE DEF type
  <2> QED BY <2>1, <2>3, <2>6 DEF ButtonMessage
<1> QED BY <1>1, <1>2, <1>3

LEMMA SettingsParsed ==
    ASSUME NEW body \in Seq(Bytes)
    PROVE  ParseSettings(body) \in Settings \cup {Error}
<1>1. CASE Len(body) < 7
  BY <1>1 DEF ParseSettings
<1>2. CASE ~(Len(body) < 7)
  <2>1. body[2] \in 0..255 /\ body[5] \in 0..255
    <3>1. 2 \in 1..Len(body) /\ 5 \in 1..Len(body)
      BY <1>2
    <3> QED BY <3>1, ByteFacts
  <2>2. body[2] % 128 \in 0..127 /\ (body[2] >= 128) \in BOOLEAN
    <3>1. body[2] % 128 \in 0..127
      BY <2>1, BatteryBound, Zenon
    <3> QED BY <3>1
  <2>3. body[5] * 5 \in {5 * n : n \in 0..255}
    <3> DEFINE n == body[5]
    <3>1. n \in 0..255
      BY <2>1
    <3> HIDE DEF n
    <3>2. n * 5 = 5 * n
      BY <3>1
    <3>3. n * 5 \in {5 * m : m \in 0..255}
      BY <3>1, <3>2
    <3> QED BY <3>3 DEF n
  <2>4. /\ (IF body[3] = 5 THEN "ounces" ELSE "grams") \in {"grams", "ounces"}
        /\ (body[7] = 1) \in BOOLEAN
    OBVIOUS
  <2>5. ParseSettings(body) =
          [kind |-> "Settings", battery |-> body[2] % 128, running |-> body[2] >= 128,
           units |-> IF body[3] = 5 THEN "ounces" ELSE "grams",
           autoOff |-> body[5] * 5, beeps |-> body[7] = 1]
    BY <1>2 DEF ParseSettings
  <2> QED BY <2>2, <2>3, <2>4, <2>5 DEF Settings
<1> QED BY <1>1, <1>2

\* decode never returns anything else, from whatever bytes: a weight of at most two
\* bytes at the coarsest unit, a time of three bytes, settings without the timer's
\* bit in the battery level, a button with what it may carry.
THEOREM DecodeTyped ==
    ASSUME NEW p \in Seq(Bytes), NEW s \in Nat \ {0}, ~TooShort(p, s), ~TooLong(p, s)
    PROVE  Decode(p, s) \in Message \cup {Error}
<1> DEFINE frame == SubSeq(p, s, s + FrameLength(p, s) - 1)
           n     == Len(frame)
           body  == SubSeq(frame, 4, n - 2)
<1>0. /\ frame \in Seq(Bytes) /\ n \in Nat /\ n >= 5 /\ n = Len(frame)
      /\ frame[4] \in Bytes /\ n = frame[4] + 5
  <2> DEFINE l == FrameLength(p, s)
  <2>1. l \in Nat /\ l >= 5
    BY FrameLengthFacts DEF FRAME_OVERHEAD
  <2>2. s + l - 1 <= Len(p) /\ Len(p) \in Nat
    BY <2>1 DEF TooLong, Available
  <2>3. l = p[s + 3] + 5
    BY DEF FrameLength, FRAME_OVERHEAD
  <2> HIDE DEF l
  <2>4. SubSeq(p, s, s + l - 1) \in Seq(Bytes) /\ Len(SubSeq(p, s, s + l - 1)) = l
    BY <2>1, <2>2
  <2>5. SubSeq(p, s, s + l - 1)[4] = p[s + 3] /\ p[s + 3] \in Bytes
    BY <2>1, <2>2
  <2> QED BY <2>1, <2>3, <2>4, <2>5 DEF l
<1> HIDE DEF frame, n
<1>1. frame \in Seq(Bytes) /\ n \in Nat /\ n >= 5 /\ n = Len(frame)
  BY <1>0, Zenon
<1>2. body \in Seq(Bytes) /\ Len(body) = n - 5
  <2>1. \A i \in 4..(n - 2) : frame[i] \in Bytes
    <3>1. \A i \in 4..(n - 2) : i \in 1..Len(frame)
      BY <1>1
    <3> QED BY <1>1, <3>1, ElementOfSeq
  <2>2. 4 \in Int /\ n - 2 \in Int
    BY <1>1
  <2>3. body \in Seq(Bytes) /\ Len(body) = IF 4 <= n - 2 THEN (n - 2) - 4 + 1 ELSE 0
    BY <2>1, <2>2, SubSeqProperties
  <2> HIDE DEF body
  <2> DEFINE k == Len(body)
  <2>4. k = IF 4 <= n - 2 THEN (n - 2) - 4 + 1 ELSE 0
    BY <2>3
  <2> HIDE DEF k
  <2>5. n \in Nat /\ n >= 5
    BY <1>1
  <2>6. k = n - 5
    BY <2>4, <2>5
  <2> QED BY <2>3, <2>6 DEF k
<1> HIDE DEF body
<1> DEFINE event == IF frame[4] < 2 THEN Error ELSE ParseMessage(body[2], From(body, 3))
<1>3. event \in Message \cup {Error}
  <2>1. CASE frame[4] < 2
    BY <2>1
  <2>2. CASE ~(frame[4] < 2)
    <3> DEFINE payload == From(body, 3)
    <3>1. payload \in Seq(Bytes)
      <4>1. 3 \in 1..(Len(body) + 1)
        <5> DEFINE l == frame[4]
        <5>1. n \in Nat /\ n = l + 5 /\ l \in Nat /\ ~(l < 2)
          <6>1. n \in Nat /\ n = l + 5 /\ ~(l < 2) /\ l \in Bytes
            BY <1>0, <2>2, Zenon
          <6> HIDE DEF l
          <6> QED BY <6>1, SMT DEF Bytes
        <5> HIDE DEF l
        <5>2. 3 \in 1..(n - 5 + 1)
          BY <5>1, SMT
        <5> QED BY <1>2, <5>2, Zenon
      <4> QED BY <1>2, <4>1, FromFacts
    <3> HIDE DEF payload
    <3>2. ParseHeartbeat(payload) \in Message \cup {Error}
      <4> DEFINE inner == From(payload, 4)
                 k == Len(payload)
      <4>0. k \in Nat
        BY <3>1
      <4>1. CASE k <= 2
        <5>1. k < 2 \/ k = 2
          <6> HIDE DEF k
          <6> QED BY <4>0, <4>1
        <5>2. Ack \in Message
          BY DEF Message
        <5> QED BY <5>1, <5>2, Zenon DEF ParseHeartbeat
      <4>2. CASE ~(k <= 2)
        <5>1. inner \in Seq(Bytes)
          <6>1. 4 \in 1..(k + 1)
            <7> HIDE DEF k
            <7> QED BY <4>0, <4>2
          <6> QED BY <3>1, <6>1, FromFacts
        <5>2. /\ ParseButton(inner) \in Message \cup {Error}
              /\ ParseWeight(inner) \in Message \cup {Error}
              /\ ParseTimer(inner) \in Message \cup {Error}
          BY <5>1, ButtonParsed, WeightParsed, TimerParsed DEF Message
        <5>3. ~(k < 2) /\ k # 2
          <6> HIDE DEF k
          <6> QED BY <4>0, <4>2
        <5> HIDE DEF inner
        <5>4. Ack \in Message
          BY DEF Message
        <5> QED BY <5>2, <5>3, <5>4 DEF ParseHeartbeat, inner
      <4> QED BY <4>1, <4>2
    <3>3. /\ ParseButton(payload) \in Message \cup {Error}
          /\ ParseWeight(payload) \in Message \cup {Error}
          /\ ParseTimer(payload) \in Message \cup {Error}
      BY <3>1, ButtonParsed, WeightParsed, TimerParsed DEF Message
    <3>4. ParseMessage(body[2], payload) \in Message \cup {Error}
      BY <3>2, <3>3 DEF ParseMessage
    <3> QED BY <2>2, <3>4 DEF payload
  <2> QED BY <2>1, <2>2
<1>4. ParseSettings(body) \in Message \cup {Error}
  BY <1>2, SettingsParsed DEF Message
<1>5. Ignored \in Message
  BY DEF Message
<1>6. Decode(p, s) =
        CASE ~ValidChecksum(frame) -> Error
          [] OTHER -> CASE frame[3] = EVENT_COMMAND -> event
                        [] frame[3] = SETTINGS_COMMAND -> ParseSettings(body)
                        [] OTHER -> Ignored
  BY DEF Decode, frame, body, n
<1> HIDE DEF event
<1> QED BY <1>3, <1>4, <1>5, <1>6

=============================================================================
