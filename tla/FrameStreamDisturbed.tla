------------------------- MODULE FrameStreamDisturbed -------------------------
(***************************************************************************)
(* For every set of sound frames, every damage, lost link and exception:   *)
(* as long as the sums catch what is no frame of the scale's, every frame  *)
(* that arrives whole is applied, once and in order (SentFramesOnce).      *)
(*                                                                         *)
(* On a disturbed link a notification has frames among other bytes: damaged*)
(* ones, the end of one from before an exception, the beginning of one from*)
(* before a lost link.  Among says what of that the loop may find, and     *)
(* ExtractYields that it then finds every frame that is whole, in order,   *)
(* takes nothing else for one, and never drops the beginning of one: by    *)
(* induction over the passes, from the last one.  Tracked is what the steps*)
(* keep: the frames on their way are where the history says.               *)
(***************************************************************************)
EXTENDS FrameStreamProofs

-----------------------------------------------------------------------------
(* The messages that carry state, of messages behind each other.             *)

LEMMA CarriedNone == Carried(<<>>) = <<>>
<1>1. <<>> \in Seq(Messages) /\ Len(<<>>) = 0
  OBVIOUS
<1>2. PICK C : Gathered(C, <<>>) /\ Carried(<<>>) = C[Len(<<>>)]
  BY <1>1, CarriedFolds
<1> QED BY <1>1, <1>2 DEF Gathered

LEMMA CarriedJoin ==
    ASSUME NEW a \in Seq(Messages), NEW b \in Seq(Messages)
    PROVE  /\ Carried(a) \in Seq(Messages) /\ Carried(b) \in Seq(Messages)
           /\ Carried(a \o b) = Carried(a) \o Carried(b)
<1> DEFINE c == a \o b
           m == Len(a)
           n == Len(b)
<1>1. /\ m \in Nat /\ n \in Nat /\ c \in Seq(Messages) /\ Len(c) = m + n
      /\ \A k \in 1..m : a[k] \in Messages /\ c[k] = a[k]
      /\ \A k \in 1..n : b[k] \in Messages /\ c[m + k] = b[k]
  OBVIOUS
<1>2. PICK A : Gathered(A, a) /\ Carried(a) = A[m]
  BY CarriedFolds
<1>3. PICK B : Gathered(B, b) /\ Carried(b) = B[n]
  BY CarriedFolds
<1>4. PICK C : Gathered(C, c) /\ Carried(c) = C[m + n]
  <2> HIDE DEF c, m, n
  <2> QED BY <1>1, CarriedFolds
<1> HIDE DEF c
<1> DEFINE T == {k \in 0..m : A[k] \in Seq(Messages) /\ C[k] = A[k]}
<1>5. 0 \in T
  <2>1. A[0] = <<>> /\ C[0] = <<>> /\ <<>> \in Seq(Messages)
    BY <1>2, <1>4 DEF Gathered
  <2>2. 0 \in 0..m
    BY <1>1
  <2> HIDE DEF m
  <2> QED BY <2>1, <2>2
<1>6. ASSUME NEW k \in 1..m, k - 1 \in T PROVE k \in T
  <2>1. A[k - 1] \in Seq(Messages) /\ C[k - 1] = A[k - 1]
    BY <1>6
  <2>2. a[k] \in Messages /\ c[k] = a[k] /\ k \in 1..Len(c) /\ k \in 0..m
    BY <1>1
  <2>3. A[k] = IF Carries(a[k]) THEN Append(A[k - 1], a[k]) ELSE A[k - 1]
    BY <1>2 DEF Gathered
  <2>4. C[k] = IF Carries(c[k]) THEN Append(C[k - 1], c[k]) ELSE C[k - 1]
    BY <1>4, <2>2 DEF Gathered
  <2>5. C[k] = A[k]
    BY <2>1, <2>2, <2>3, <2>4
  <2>6. A[k] \in Seq(Messages)
    BY <2>1, <2>2, <2>3
  <2> QED BY <2>2, <2>5, <2>6
<1>7. m \in T
  <2> HIDE DEF T, m
  <2> QED BY <1>1, <1>5, <1>6, UpTo
<1> DEFINE U == {k \in 0..n : B[k] \in Seq(Messages) /\ C[m + k] = A[m] \o B[k]}
<1>8. 0 \in U
  <2>1. B[0] = <<>> /\ C[m + 0] = A[m] /\ A[m] \in Seq(Messages)
    BY <1>1, <1>3, <1>7 DEF Gathered
  <2>2. A[m] \o <<>> = A[m]
    BY <2>1, ConcatEmptySeq, Zenon
  <2>3. 0 \in 0..n /\ <<>> \in Seq(Messages) /\ C[m + 0] = A[m] \o B[0]
    BY <1>1, <2>1, <2>2
  <2> HIDE DEF m, n
  <2> QED BY <2>1, <2>3
<1>9. ASSUME NEW k \in 1..n, k - 1 \in U PROVE k \in U
  <2> DEFINE d == b[k]
             x == A[m]
             y == B[k - 1]
  <2>1. y \in Seq(Messages) /\ C[m + (k - 1)] = x \o y /\ x \in Seq(Messages)
    BY <1>7, <1>9
  <2>2. d \in Messages /\ c[m + k] = d /\ m + k \in 1..Len(c) /\ k \in 0..n /\ m + k - 1 = m + (k - 1)
    BY <1>1
  <2>3. B[k] = IF Carries(d) THEN Append(y, d) ELSE y
    BY <1>3 DEF Gathered
  <2>4. C[m + k] = IF Carries(c[m + k]) THEN Append(C[m + k - 1], c[m + k]) ELSE C[m + k - 1]
    BY <1>4, <2>2 DEF Gathered
  <2> HIDE DEF d, x, y
  <2>5. C[m + k] = IF Carries(d) THEN Append(x \o y, d) ELSE x \o y
    BY <2>1, <2>2, <2>4
  <2>6. Append(x \o y, d) = x \o Append(y, d)
    BY <2>1, <2>2, JoinAppend
  <2>7. B[k] \in Seq(Messages)
    BY <2>1, <2>2, <2>3
  <2>8. C[m + k] = x \o B[k]
    BY <2>3, <2>5, <2>6
  <2> QED BY <2>2, <2>7, <2>8 DEF x
<1>10. n \in U
  <2> HIDE DEF U, n
  <2> QED BY <1>1, <1>8, <1>9, UpTo
<1> QED BY <1>2, <1>3, <1>4, <1>7, <1>10 DEF c

LEMMA CarriedFirst ==
    ASSUME NEW m \in Messages, NEW ms \in Seq(Messages)
    PROVE  Carried(<<m>> \o ms) = IF Carries(m) THEN <<m>> \o Carried(ms) ELSE Carried(ms)
<1> DEFINE a == <<m>>
<1>1. a \in Seq(Messages) /\ Len(a) = 1 /\ a[1] = m
  OBVIOUS
<1>2. PICK C : Gathered(C, a) /\ Carried(a) = C[Len(a)]
  BY <1>1, CarriedFolds
<1>3. C[0] = <<>> /\ C[1] = IF Carries(m) THEN Append(C[0], m) ELSE C[0]
  <2> HIDE DEF a
  <2>1. C[0] = <<>> /\ \A k \in 1..1 : C[k] = IF Carries(a[k]) THEN Append(C[k - 1], a[k]) ELSE C[k - 1]
    BY <1>1, <1>2 DEF Gathered
  <2>2. 1 \in 1..1 /\ 1 - 1 = 0
    OBVIOUS
  <2>3. C[1] = IF Carries(a[1]) THEN Append(C[1 - 1], a[1]) ELSE C[1 - 1]
    BY <2>1, <2>2
  <2> QED BY <1>1, <2>1, <2>2, <2>3
<1>4. Append(<<>>, m) = <<m>>
  OBVIOUS
<1>5. Carried(a) = IF Carries(m) THEN a ELSE <<>>
  BY <1>1, <1>2, <1>3, <1>4
<1> HIDE DEF a
<1>6. Carried(ms) \in Seq(Messages) /\ Carried(a \o ms) = Carried(a) \o Carried(ms)
  BY <1>1, CarriedJoin
<1>7. <<>> \o Carried(ms) = Carried(ms)
  BY <1>6, ConcatEmptySeq, Zenon
<1> QED BY <1>5, <1>6, <1>7 DEF a

-----------------------------------------------------------------------------
(* What the loop makes of bytes with sent frames among others.               *)

\* c are L frames behind each other, perhaps with other bytes between them.
Spaced(c, L) ==
    /\ L \in Nat
    /\ \A j \in 1..L : /\ c[j].first \in Nat \ {0} /\ c[j].last \in Nat
                       /\ c[j].first <= c[j].last
    /\ \A i, j \in 1..L : i < j => c[i].last < c[j].first

\* The frame d is whole in p, or p ends before it does.
WholeIn(p, d) ==
    /\ d.last <= Len(p) /\ d.first \in Headers(p, d.first)
    /\ ~TooShort(p, d.first) /\ ~TooLong(p, d.first)
    /\ FrameLength(p, d.first) = d.last - d.first + 1
    /\ Decode(p, d.first) = d.message /\ d.message # Error

CutIn(p, d) ==
    /\ d.last > Len(p)
    /\ d.first <= Len(p) => p[d.first] = HEADER1
    /\ d.first < Len(p) => /\ p[d.first + 1] = HEADER2
                           /\ TooShort(p, d.first) \/ TooLong(p, d.first)

Decodes(p, s) == ~TooShort(p, s) /\ ~TooLong(p, s) /\ Decode(p, s) # Error

\* The frame at s has no bytes of the frames c.
Apart(p, s, c, L) == \A j \in 1..L : s + FrameLength(p, s) <= c[j].first \/ c[j].last < s

\* The first N of the frames c are whole in p, and what else decodes there is harmless.
Among(p, c, L, N) ==
    /\ Spaced(c, L) /\ N \in 0..L
    /\ \A j \in 1..N : WholeIn(p, c[j])
    /\ \A j \in (N + 1)..L : CutIn(p, c[j])
    /\ \A s \in Headers(p, 1) : Decodes(p, s) =>
         \/ \E j \in 1..N : c[j].first = s
         \/ ~Carries(Decode(p, s)) /\ Apart(p, s, c, L)

\* The loop is at i, behind the first n of the frames and before the others.
Between(i, n, c, L) ==
    /\ \A j \in 1..n : c[j].last < i
    /\ \A j \in (n + 1)..L : i <= c[j].first

LEMMA HeaderByte == HEADER1 # HEADER2
  BY DEF HEADER1, HEADER2

LEMMA AnyHeader ==
    ASSUME NEW p \in Seq(Bytes), NEW i \in Nat \ {0}, NEW s \in Headers(p, i)
    PROVE  s \in Headers(p, 1) /\ s \in Nat \ {0}
<1>1. s \in i..(Len(p) - 1) /\ p[s] = HEADER1 /\ p[s + 1] = HEADER2
  BY DEF Headers
<1>2. s \in 1..(Len(p) - 1) /\ s \in Nat \ {0}
  BY <1>1
<1> QED BY <1>1, <1>2 DEF Headers

\* The next header is not behind the next frame, nor in front of it by one byte.
LEMMA NextHeader ==
    ASSUME NEW p \in Seq(Bytes), NEW c, NEW L, NEW N, Among(p, c, L, N),
           NEW i \in Nat \ {0}, NEW n \in 0..N, Between(i, n, c, L), Headers(p, i) # {},
           NEW j \in (n + 1)..L
    PROVE  LET s == Min(Headers(p, i)) IN c[j].first = s \/ c[j].first >= s + 2
<1> DEFINE s == Min(Headers(p, i))
           f == c[j].first
<1>1. /\ s \in Headers(p, i) /\ s \in i..(Len(p) - 1)
      /\ \A k \in Headers(p, i) : s <= k
  BY HeadersFacts
<1>2. L \in Nat /\ N \in 0..L /\ n \in Nat /\ j \in 1..L
  BY DEF Among, Spaced
<1>3. f \in Nat \ {0} /\ i <= f
  BY <1>2 DEF Among, Spaced, Between
<1>4. WholeIn(p, c[j]) \/ CutIn(p, c[j])
  <2>1. j \in 1..N \/ j \in (N + 1)..L
    BY <1>2
  <2> QED BY <2>1 DEF Among
<1> HIDE DEF s
<1>5. f <= Len(p) => p[f] = HEADER1
  BY <1>4 DEF WholeIn, CutIn, Headers
<1>6. f < Len(p) => p[f + 1] = HEADER2
  <2>1. CASE WholeIn(p, c[j])
    <3>1. f \in Headers(p, f)
      BY <2>1 DEF WholeIn
    <3> HIDE DEF f
    <3> QED BY <3>1 DEF Headers
  <2>2. CASE CutIn(p, c[j])
    BY <2>2 DEF CutIn
  <2> QED BY <1>4, <2>1, <2>2
<1> HIDE DEF f
<1>7. p[s + 1] = HEADER2
  BY <1>1 DEF Headers
<1>8. f # s + 1
  <2>1. f = s + 1 => f <= Len(p)
    BY <1>1
  <2> QED BY <1>5, <1>7, <2>1, HeaderByte
<1>9. f >= s
  <2>1. CASE f < Len(p)
    <3>1. f \in i..(Len(p) - 1)
      BY <1>3, <2>1
    <3>2. f \in Headers(p, i)
      BY <1>3, <1>5, <1>6, <2>1, <3>1 DEF Headers
    <3> QED BY <1>1, <3>2
  <2>2. CASE ~(f < Len(p))
    BY <1>1, <1>3, <2>2
  <2> QED BY <2>1, <2>2
<1>10. f = s \/ f >= s + 2
  BY <1>1, <1>3, <1>8, <1>9
<1> QED BY <1>10 DEF s, f

\* Where the loop goes on behind the first header.
LEMMA BehindError ==
    ASSUME NEW p \in Seq(Bytes), NEW c, NEW L, NEW N, Among(p, c, L, N),
           NEW i \in Nat \ {0}, NEW n \in 0..N, Between(i, n, c, L), Headers(p, i) # {},
           NEW s, s = Min(Headers(p, i)), ~TooShort(p, s), ~TooLong(p, s), Decode(p, s) = Error
    PROVE  Between(s + 2, n, c, L)
<1>1. s \in i..(Len(p) - 1)
  BY HeadersFacts
<1>2. L \in Nat /\ N \in 0..L /\ n \in Nat
  BY DEF Among, Spaced
<1>3. ASSUME NEW j \in (n + 1)..L PROVE s + 2 <= c[j].first
  <2>1. c[j].first = s \/ c[j].first >= s + 2
    BY NextHeader
  <2>2. c[j].first # s
    <3> SUFFICES ASSUME c[j].first = s PROVE FALSE
      OBVIOUS
    <3>1. CASE j \in 1..N
      BY <3>1 DEF Among, WholeIn
    <3>2. CASE j \in (N + 1)..L
      <4>1. CutIn(p, c[j]) /\ s < Len(p)
        BY <1>1, <3>2 DEF Among
      <4> QED BY <4>1 DEF CutIn
    <3> QED BY <1>2, <3>1, <3>2
  <2>3. c[j].first \in Nat
    BY <1>2 DEF Among, Spaced
  <2> QED BY <1>1, <2>1, <2>2, <2>3
<1>4. ASSUME NEW j \in 1..n PROVE c[j].last < s + 2
  <2>1. c[j].last < i /\ c[j].last \in Nat
    BY <1>2 DEF Between, Among, Spaced
  <2> QED BY <1>1, <2>1
<1> QED BY <1>3, <1>4 DEF Between

\* A frame that is whole in p is found where it begins.
LEMMA WholeHeader ==
    ASSUME NEW p \in Seq(Bytes), NEW c, NEW L, NEW N, Among(p, c, L, N), NEW j \in 1..N
    PROVE  /\ j \in 1..L /\ c[j].first \in Nat \ {0} /\ c[j].last \in Nat
           /\ c[j].first < Len(p) /\ c[j].last <= Len(p)
           /\ p[c[j].first] = HEADER1 /\ p[c[j].first + 1] = HEADER2
           /\ Decodes(p, c[j].first)
<1>1. j \in 1..L /\ L \in Nat /\ N \in 0..L
  BY DEF Among, Spaced
<1>2. c[j].first \in Nat \ {0} /\ c[j].last \in Nat
  BY <1>1 DEF Among, Spaced
<1>3. WholeIn(p, c[j])
  BY DEF Among
<1> DEFINE f == c[j].first
<1>4. f \in Nat /\ f \in Headers(p, f)
  BY <1>2, <1>3 DEF WholeIn
<1> HIDE DEF f
<1>5. f < Len(p) /\ p[f] = HEADER1 /\ p[f + 1] = HEADER2
  BY <1>4 DEF Headers
<1>6. Decodes(p, f)
  BY <1>3 DEF WholeIn, Decodes, f
<1> QED BY <1>1, <1>2, <1>3, <1>5, <1>6 DEF f, WholeIn

LEMMA BehindCut ==
    ASSUME NEW p \in Seq(Bytes), NEW c, NEW L, NEW N, Among(p, c, L, N),
           NEW i \in Nat \ {0}, NEW n \in 0..N, Between(i, n, c, L), Headers(p, i) # {},
           NEW s, s = Min(Headers(p, i)), TooLong(p, s), NEW m, m = Min(NextFrames(p, s)),
           NextFrames(p, s) # {}
    PROVE  Between(m, n, c, L)
<1>1. s \in i..(Len(p) - 1) /\ s \in Nat
  BY HeadersFacts
<1>2. L \in Nat /\ N \in 0..L /\ n \in Nat /\ Spaced(c, L)
  BY DEF Among, Spaced
<1>3. /\ m \in NextFrames(p, s) /\ m \in (s + 2)..(Len(p) - 1)
      /\ \A k \in NextFrames(p, s) : m <= k
  <2>1. NextFrames(p, s) \in SUBSET Nat
    <3>1. NextFrames(p, s) \subseteq (s + 2)..(Len(p) - 1)
      BY DEF NextFrames, Headers
    <3>2. (s + 2)..(Len(p) - 1) \subseteq Nat
      BY <1>1
    <3> QED BY <3>1, <3>2
  <2> QED BY <1>1, <2>1, MinFacts, NextFramesFacts
<1>4. m \in Headers(p, 1) /\ Decodes(p, m)
  <2>1. m \in Headers(p, s + 2) /\ Decodes(p, m)
    BY <1>3 DEF NextFrames, Decodes
  <2>2. s + 2 \in Nat \ {0}
    BY <1>1
  <2> QED BY <2>1, <2>2, AnyHeader
<1>5. ASSUME NEW j \in (n + 1)..L PROVE m <= c[j].first
  <2> DEFINE f == c[j].first
  <2>1. f = s \/ f >= s + 2
    BY NextHeader
  <2>2. f \in Nat /\ j \in 1..L /\ c[j].last \in Nat
    BY <1>2 DEF Spaced
  <2>3. CASE j \in 1..N
    <3>1. f < Len(p) /\ p[f] = HEADER1 /\ p[f + 1] = HEADER2 /\ Decodes(p, f)
      BY <2>3, WholeHeader
    <3>2. f # s
      BY <3>1 DEF Decodes
    <3>3. f \in (s + 2)..(Len(p) - 1)
      BY <1>1, <2>1, <2>2, <3>1, <3>2
    <3>4. f \in NextFrames(p, s)
      BY <3>1, <3>3 DEF NextFrames, Headers, Decodes
    <3> QED BY <1>3, <3>4
  <2>4. CASE j \in (N + 1)..L
    <3>1. CASE \E k \in 1..N : c[k].first = m
      <4>1. PICK k \in 1..N : c[k].first = m
        BY <3>1
      <4>2. k < j /\ k \in 1..L
        BY <1>2, <2>4
      <4>3. c[k].last < f /\ c[k].first <= c[k].last /\ c[k].last \in Nat
        BY <1>2, <2>2, <4>2 DEF Spaced
      <4> DEFINE y == c[k].last
      <4>4. y < f /\ m <= y /\ m \in Nat /\ y \in Nat /\ f \in Nat
        <5>1. m \in Nat
          BY <1>1, <1>3
        <5>2. y < f /\ m <= y
          BY <4>1, <4>3
        <5> QED BY <2>2, <4>3, <5>1, <5>2
      <4> HIDE DEF f, y
      <4>5. m <= f
        BY <4>4
      <4> QED BY <4>5 DEF f
    <3>2. CASE ~(\E k \in 1..N : c[k].first = m)
      <4>1. Apart(p, m, c, L)
        BY <1>4, <3>2 DEF Among
      <4>2. m + FrameLength(p, m) <= f \/ c[j].last < m
        BY <2>2, <4>1 DEF Apart
      <4>3. c[j].last > Len(p)
        BY <2>4 DEF Among, CutIn
      <4>4. FrameLength(p, m) \in Nat
        BY <1>1, <1>3, <1>4, FrameLengthFacts DEF Decodes
      <4> DEFINE x == FrameLength(p, m)
                 y == c[j].last
      <4>5. x \in Nat /\ y \in Nat /\ f \in Nat /\ m \in Nat /\ m <= Len(p)
            /\ y > Len(p) /\ (m + x <= f \/ y < m)
        <5>1. m \in Nat /\ m <= Len(p)
          BY <1>1, <1>3
        <5> QED BY <2>2, <4>2, <4>3, <4>4, <5>1
      <4> HIDE DEF f, x, y
      <4>6. m <= f
        BY <4>5
      <4> QED BY <4>6 DEF f
    <3> QED BY <3>1, <3>2
  <2> QED BY <1>2, <2>3, <2>4
<1>6. ASSUME NEW j \in 1..n PROVE c[j].last < m
  <2>1. c[j].last < i /\ c[j].last \in Nat
    BY <1>2 DEF Between, Spaced
  <2> QED BY <1>1, <1>3, <2>1
<1> QED BY <1>5, <1>6 DEF Between

\* A frame that decodes is the next of those sent, or harmless.
LEMMA BehindFrame ==
    ASSUME NEW p \in Seq(Bytes), NEW c, NEW L, NEW N, Among(p, c, L, N),
           NEW i \in Nat \ {0}, NEW n \in 0..N, Between(i, n, c, L), Headers(p, i) # {},
           NEW s, s = Min(Headers(p, i)), Decodes(p, s)
    PROVE  LET t == s + FrameLength(p, s)
           IN  \/ /\ n + 1 \in 1..N /\ Decode(p, s) = c[n + 1].message
                  /\ Between(t, n + 1, c, L)
               \/ ~Carries(Decode(p, s)) /\ Between(t, n, c, L)
<1> DEFINE t == s + FrameLength(p, s)
<1>1. s \in i..(Len(p) - 1) /\ s \in Nat /\ s \in Headers(p, 1)
  <2>1. s \in i..(Len(p) - 1) /\ s \in Headers(p, i)
    BY HeadersFacts
  <2> QED BY <2>1, AnyHeader
<1>2. L \in Nat /\ N \in 0..L /\ n \in Nat /\ Spaced(c, L)
  BY DEF Among, Spaced
<1>3. t \in Nat /\ t >= s /\ FrameLength(p, s) \in Nat
  BY <1>1, FrameLengthFacts DEF Decodes
<1>4. \A j \in 1..L : c[j].first \in Nat /\ c[j].last \in Nat /\ c[j].first <= c[j].last
  BY <1>2 DEF Spaced
<1>5. \A j \in 1..n : c[j].last < i
  BY DEF Between
<1>6. \A j \in (n + 1)..L : c[j].first >= s
  <2> SUFFICES ASSUME NEW j \in (n + 1)..L PROVE c[j].first >= s
    OBVIOUS
  <2>1. c[j].first = s \/ c[j].first >= s + 2
    BY NextHeader
  <2>2. c[j].first \in Nat
    BY <1>2, <1>4
  <2> QED BY <1>1, <2>1, <2>2
<1>7. CASE \E j \in 1..N : c[j].first = s
  <2>1. PICK j \in 1..N : c[j].first = s
    BY <1>7
  <2>2. j \in (n + 1)..N /\ j \in 1..L
    <3>1. CASE j \in 1..n
      <4>1. c[j].last < i /\ c[j].first <= c[j].last /\ c[j].last \in Nat
        BY <1>2, <1>4, <1>5, <3>1
      <4> QED BY <1>1, <2>1, <4>1
    <3> QED BY <1>2, <2>1, <3>1
  <2>3. j = n + 1
    <3> SUFFICES ASSUME j # n + 1 PROVE FALSE
      OBVIOUS
    <3>1. n + 1 \in (n + 1)..L /\ n + 1 \in 1..L /\ n + 1 < j
      BY <1>2, <2>2
    <3>2. c[n + 1].last < c[j].first
      BY <1>2, <2>2, <3>1 DEF Spaced
    <3>3. c[n + 1].first >= s /\ c[n + 1].first <= c[n + 1].last
          /\ c[n + 1].first \in Nat /\ c[n + 1].last \in Nat
      BY <1>4, <1>6, <3>1
    <3> QED BY <1>1, <2>1, <3>2, <3>3
  <2>4. WholeIn(p, c[j])
    BY <2>1 DEF Among
  <2>5. Decode(p, s) = c[j].message /\ FrameLength(p, s) = c[j].last - s + 1
    BY <2>1, <2>4 DEF WholeIn
  <2> DEFINE y == c[j].last
  <2>6. t = y + 1 /\ y \in Nat
    <3>1. y \in Nat
      BY <1>4, <2>2
    <3>2. t = s + (y - s + 1) /\ s \in Nat
      BY <1>1, <1>3, <2>5
    <3> HIDE DEF y, t
    <3> QED BY <3>1, <3>2
  <2>7. ASSUME NEW k \in 1..(n + 1) PROVE c[k].last < t
    <3>1. CASE k = j
      BY <2>6, <3>1
    <3>2. CASE k # j
      <4>1. k \in 1..n /\ k \in 1..L
        BY <1>2, <2>3, <3>2
      <4>2. c[k].last < i /\ c[k].last \in Nat
        BY <1>4, <1>5, <4>1
      <4> QED BY <1>1, <1>3, <4>2
    <3> QED BY <3>1, <3>2
  <2>8. ASSUME NEW k \in (n + 2)..L PROVE t <= c[k].first
    <3>1. k \in 1..L /\ j < k
      BY <1>2, <2>3
    <3>2. y < c[k].first /\ c[k].first \in Nat
      BY <1>2, <1>4, <2>2, <3>1 DEF Spaced
    <3> QED BY <2>6, <3>2
  <2>9. (n + 1) + 1 = n + 2
    BY <1>2
  <2>10. Between(t, n + 1, c, L)
    BY <2>7, <2>8, <2>9 DEF Between
  <2> QED BY <1>2, <2>2, <2>3, <2>5, <2>10
<1>8. CASE ~(\E j \in 1..N : c[j].first = s)
  <2>1. ~Carries(Decode(p, s)) /\ Apart(p, s, c, L)
    BY <1>1, <1>8 DEF Among
  <2>2. ASSUME NEW j \in (n + 1)..L PROVE t <= c[j].first
    <3>1. j \in 1..L /\ c[j].first >= s
      BY <1>2, <1>6
    <3>2. t <= c[j].first \/ c[j].last < s
      BY <2>1, <3>1 DEF Apart
    <3>3. c[j].first <= c[j].last /\ c[j].first \in Nat /\ c[j].last \in Nat
      BY <1>4, <3>1
    <3> HIDE DEF t
    <3> QED BY <1>1, <3>1, <3>2, <3>3
  <2>3. ASSUME NEW j \in 1..n PROVE c[j].last < t
    <3>1. c[j].last < i /\ c[j].last \in Nat
      BY <1>2, <1>4, <1>5
    <3> QED BY <1>1, <1>3, <3>1
  <2> HIDE DEF t
  <2>4. Between(t, n, c, L)
    BY <2>2, <2>3 DEF Between
  <2> QED BY <2>1, <2>4 DEF t
<1> QED BY <1>7, <1>8

\* x is what the passes give that have the frames behind the n-th before them: what
\* the whole ones carry, and to keep, all of the cut ones.
Carry(c, n, N) == Carried([j \in 1..(N - n) |-> c[n + j].message])

Yields(p, c, L, N, n, x) ==
    \E ms \in Seq(Messages), r \in 1..(Len(p) + 1) :
      /\ x = [messages |-> ms, rest |-> From(p, r)]
      /\ Carried(ms) = Carry(c, n, N)
      /\ \A j \in (N + 1)..L : r <= c[j].first

LEMMA KeptYields ==
    ASSUME NEW p \in Seq(Bytes), NEW c, NEW L, NEW N \in Nat,
           NEW r \in 1..(Len(p) + 1), \A j \in (N + 1)..L : r <= c[j].first
    PROVE  Yields(p, c, L, N, N, [messages |-> <<>>, rest |-> From(p, r)])
<1>1. [j \in 1..(N - N) |-> c[N + j].message] = <<>>
  <2>1. N - N = 0
    OBVIOUS
  <2> QED BY <2>1
<1>2. Carry(c, N, N) = Carried(<<>>)
  BY <1>1, Zenon DEF Carry
<1>3. <<>> \in Seq(Messages)
  OBVIOUS
<1> QED BY <1>2, <1>3, Zenon DEF Yields

\* The messages that the whole frames stand for.
LEMMA CarryFirst ==
    ASSUME NEW p \in Seq(Bytes), NEW c, NEW L, NEW N, Among(p, c, L, N), NEW n \in Nat, n + 1 \in 1..N
    PROVE  /\ c[n + 1].message \in Messages
           /\ Carry(c, n, N) = IF Carries(c[n + 1].message)
                               THEN <<c[n + 1].message>> \o Carry(c, n + 1, N)
                               ELSE Carry(c, n + 1, N)
<1> DEFINE m == c[n + 1].message
           e == [j \in 1..(N - n) |-> c[n + j].message]
           s == [j \in 1..(N - (n + 1)) |-> c[n + 1 + j].message]
<1>1. N \in Nat /\ n < N
  BY DEF Among, Spaced
<1>2. ASSUME NEW j \in 1..N PROVE c[j].message \in Messages
  <2>1. WholeIn(p, c[j])
    BY DEF Among
  <2>2. c[j].first \in Nat
    BY WholeHeader
  <2> QED BY <2>1, <2>2 DEF WholeIn, Messages
<1>3. m \in Messages
  BY <1>2
<1>4. s \in Seq(Messages) /\ Len(s) = N - (n + 1)
  <2>1. \A j \in 1..(N - (n + 1)) : n + 1 + j \in 1..N
    BY <1>1
  <2>2. N - (n + 1) \in Nat
    BY <1>1
  <2>3. \A j \in 1..(N - (n + 1)) : s[j] \in Messages
    BY <1>2, <2>1
  <2> QED BY <2>2, <2>3
<1>5. e = <<m>> \o s
  <2> DEFINE l == N - n
  <2>1. l \in Nat /\ l - 1 \in Nat /\ l - 1 = N - (n + 1)
    BY <1>1
  <2>2. e = [j \in 1..l |-> e[j]]
    OBVIOUS
  <2>3. e[1] = m
    <3>1. 1 \in 1..l
      BY <1>1
    <3> QED BY <3>1
  <2>4. ASSUME NEW j \in 2..l PROVE e[j] = s[j - 1]
    <3>1. j \in 1..l /\ j - 1 \in 1..(N - (n + 1)) /\ n + 1 + (j - 1) = n + j
      BY <1>1
    <3> QED BY <3>1
  <2> HIDE DEF e, s, m, l
  <2>5. \A j \in 1..l : (<<m>> \o s)[j] = IF j = 1 THEN m ELSE s[j - 1]
    BY <1>3, <1>4, <2>1
  <2>6. <<m>> \o s = [j \in 1..l |-> (<<m>> \o s)[j]]
    BY <1>3, <1>4, <2>1
  <2>7. \A j \in 1..l : (<<m>> \o s)[j] = e[j]
    <3> SUFFICES ASSUME NEW j \in 1..l PROVE (<<m>> \o s)[j] = e[j]
      OBVIOUS
    <3>1. CASE j = 1
      BY <2>3, <2>5, <3>1
    <3>2. CASE j # 1
      <4>1. j \in 2..l
        BY <2>1, <3>2
      <4> QED BY <2>4, <2>5, <3>2, <4>1
    <3> QED BY <3>1, <3>2
  <2> QED BY <2>2, <2>6, <2>7
<1>6. Carry(c, n, N) = Carried(e) /\ Carry(c, n + 1, N) = Carried(s)
  BY Zenon DEF Carry
<1> HIDE DEF m, e, s
<1>7. Carried(<<m>> \o s) = IF Carries(m) THEN <<m>> \o Carried(s) ELSE Carried(s)
  BY <1>3, <1>4, CarriedFirst
<1> QED BY <1>3, <1>5, <1>6, <1>7 DEF m

\* One message more than the passes behind give.
LEMMA YieldsMore ==
    ASSUME NEW p \in Seq(Bytes), NEW c, NEW L, NEW N, Among(p, c, L, N), NEW n \in Nat, NEW k,
           NEW d \in Messages, NEW x, Yields(p, c, L, N, k, x),
           \/ k = n + 1 /\ n + 1 \in 1..N /\ d = c[n + 1].message
           \/ k = n /\ ~Carries(d)
    PROVE  Yields(p, c, L, N, n, [x EXCEPT !.messages = <<d>> \o @])
<1>1. PICK ms \in Seq(Messages), r \in 1..(Len(p) + 1) :
        /\ x = [messages |-> ms, rest |-> From(p, r)]
        /\ Carried(ms) = Carry(c, k, N)
        /\ \A j \in (N + 1)..L : r <= c[j].first
  BY DEF Yields
<1> DEFINE e == <<d>> \o ms
           rest == From(p, r)
<1>2. [x EXCEPT !.messages = <<d>> \o @] = [messages |-> e, rest |-> rest]
  <2>1. x.messages = ms
    BY <1>1
  <2> HIDE DEF e, rest
  <2>2. x = [messages |-> ms, rest |-> rest]
    BY <1>1 DEF rest
  <2>3. [x EXCEPT !.messages = e] = [messages |-> e, rest |-> rest]
    BY <2>2
  <2> QED BY <2>1, <2>3 DEF e
<1>3. e \in Seq(Messages)
  OBVIOUS
<1>4. Carried(e) = IF Carries(d) THEN <<d>> \o Carried(ms) ELSE Carried(ms)
  BY CarriedFirst
<1>5. Carried(e) = Carry(c, n, N)
  <2> HIDE DEF e
  <2>1. CASE k = n + 1 /\ n + 1 \in 1..N /\ d = c[n + 1].message
    <3>1. Carry(c, n, N) = IF Carries(d) THEN <<d>> \o Carry(c, n + 1, N) ELSE Carry(c, n + 1, N)
      BY <2>1, CarryFirst
    <3> QED BY <1>1, <1>4, <2>1, <3>1
  <2>2. CASE k = n /\ ~Carries(d)
    BY <1>1, <1>4, <2>2
  <2> QED BY <2>1, <2>2
<1> HIDE DEF e
<1> QED BY <1>1, <1>2, <1>3, <1>5, Zenon DEF Yields, rest

LEMMA UnframedYields ==
    ASSUME NEW p \in Seq(Bytes), NEW c, NEW L, NEW N, Among(p, c, L, N),
           NEW i \in Nat \ {0}, NEW n \in 0..N, Between(i, n, c, L), Headers(p, i) = {}
    PROVE  Yields(p, c, L, N, n, [messages |-> <<>>, rest |-> Unframed(p, i)])
<1> DEFINE l == Len(p)
<1>1. /\ L \in Nat /\ N \in 0..L /\ n \in Nat /\ l \in Nat
      /\ \A j \in 1..L : c[j].first \in Nat \ {0}
  BY DEF Among, Spaced
<1>2. ASSUME NEW f \in Nat, f >= i, f < l, p[f] = HEADER1, p[f + 1] = HEADER2 PROVE FALSE
  <2>1. f \in i..(Len(p) - 1)
    BY <1>2
  <2>2. f \in Headers(p, i)
    BY <1>2, <2>1 DEF Headers
  <2> QED BY <2>2
<1>3. n = N
  <2> SUFFICES ASSUME n # N PROVE FALSE
    OBVIOUS
  <2>1. n + 1 \in 1..N /\ n + 1 \in (n + 1)..L
    BY <1>1
  <2> DEFINE f == c[n + 1].first
  <2>2. f \in Nat /\ f < l /\ p[f] = HEADER1 /\ p[f + 1] = HEADER2
    BY <2>1, WholeHeader
  <2>3. f >= i
    BY <2>1, <2>2 DEF Between
  <2> HIDE DEF f, l
  <2> QED BY <1>2, <2>2, <2>3
<1>4. ASSUME NEW j \in (N + 1)..L
      PROVE  /\ c[j].first \in Nat /\ c[j].first >= l /\ c[j].first >= i
             /\ c[j].first = l => p[l] = HEADER1
  <2> DEFINE f == c[j].first
  <2>1. f \in Nat /\ f >= i /\ CutIn(p, c[j])
    <3>1. j \in 1..L /\ j \in (n + 1)..L
      BY <1>1, <1>3
    <3>2. f \in Nat /\ i <= f
      BY <1>1, <3>1 DEF Between
    <3> QED BY <3>2 DEF Among
  <2>2. f <= l => p[f] = HEADER1
    BY <2>1 DEF CutIn
  <2>3. f < l => p[f + 1] = HEADER2
    BY <2>1 DEF CutIn
  <2> HIDE DEF f, l
  <2>4. ~(f < l)
    BY <1>1, <1>2, <2>1, <2>2, <2>3
  <2>5. f \in Nat /\ f >= l /\ f >= i /\ (f = l => p[l] = HEADER1)
    BY <1>1, <2>1, <2>2, <2>4
  <2> QED BY <2>5 DEF f
<1> HIDE DEF l
<1>5. CASE i <= l /\ Last(p) = HEADER1
  <2>1. Unframed(p, i) = <<HEADER1>>
    BY <1>5 DEF Unframed, l
  <2>2. From(p, l) = <<HEADER1>>
    <3>1. l \in 1..(Len(p) + 1) /\ 1 \in 1..(Len(p) - l + 1) /\ Len(p) - l + 1 = 1 /\ 1 + l - 1 = l
      BY <1>1, <1>5 DEF l
    <3> DEFINE q == From(p, l)
    <3>0. /\ q \in Seq(Bytes) /\ Len(q) = Len(p) - l + 1
          /\ \A j \in 1..(Len(p) - l + 1) : q[j] = p[j + l - 1]
      BY <3>1, FromFacts
    <3> HIDE DEF q
    <3>2. q \in Seq(Bytes) /\ Len(q) = 1 /\ q[1] = p[l]
      BY <3>0, <3>1
    <3>3. p[l] = HEADER1
      BY <1>5 DEF Last, l
    <3> QED BY <3>2, <3>3 DEF q
  <2>3. l \in 1..(Len(p) + 1) /\ \A j \in (N + 1)..L : l <= c[j].first
    BY <1>1, <1>4, <1>5 DEF l
  <2>4. N \in Nat
    BY <1>1
  <2>5. Yields(p, c, L, N, N, [messages |-> <<>>, rest |-> From(p, l)])
    BY <2>3, <2>4, KeptYields
  <2> QED BY <1>3, <2>1, <2>2, <2>5
<1>6. CASE ~(i <= l /\ Last(p) = HEADER1)
  <2> DEFINE r == l + 1
  <2>1. Unframed(p, i) = <<>>
    BY <1>6 DEF Unframed, l
  <2>2. From(p, r) = <<>>
    <3>1. r \in 1..(Len(p) + 1) /\ Len(p) - r + 1 = 0
      BY <1>1 DEF l
    <3> HIDE DEF r
    <3>2. From(p, r) \in Seq(Bytes) /\ Len(From(p, r)) = 0
      BY <3>1, FromFacts
    <3> QED BY <3>2
  <2>3. ASSUME NEW j \in (N + 1)..L PROVE r <= c[j].first
    <3> DEFINE f == c[j].first
    <3>1. f \in Nat /\ f >= l /\ f >= i /\ (f = l => p[l] = HEADER1)
      BY <1>4
    <3>2. f # l
      <4>1. f = l => Last(p) = HEADER1
        BY <3>1 DEF Last, l
      <4>2. f = l => i <= l
        BY <3>1
      <4> QED BY <1>6, <4>1, <4>2
    <3> HIDE DEF f
    <3>3. l + 1 <= f
      BY <1>1, <3>1, <3>2
    <3> QED BY <3>3 DEF f
  <2>4. N \in Nat /\ r \in 1..(Len(p) + 1)
    BY <1>1 DEF l
  <2> HIDE DEF r
  <2>5. Yields(p, c, L, N, N, [messages |-> <<>>, rest |-> From(p, r)])
    BY <2>3, <2>4, KeptYields
  <2> QED BY <1>3, <2>1, <2>2, <2>5
<1> QED BY <1>5, <1>6

LEMMA CutYields ==
    ASSUME NEW p \in Seq(Bytes), NEW c, NEW L, NEW N, Among(p, c, L, N),
           NEW i \in Nat \ {0}, NEW n \in 0..N, Between(i, n, c, L), Headers(p, i) # {},
           NEW s, s = Min(Headers(p, i)),
           TooShort(p, s) \/ (TooLong(p, s) /\ NextFrames(p, s) = {})
    PROVE  Yields(p, c, L, N, n, [messages |-> <<>>, rest |-> From(p, s)])
<1>1. s \in i..(Len(p) - 1) /\ s \in Nat
  BY HeadersFacts
<1>2. /\ L \in Nat /\ N \in 0..L /\ n \in Nat
      /\ \A j \in 1..L : c[j].first \in Nat
  BY DEF Among, Spaced
<1>3. n = N
  <2> SUFFICES ASSUME n # N PROVE FALSE
    OBVIOUS
  <2> DEFINE f == c[n + 1].first
  <2>1. n + 1 \in 1..N /\ n + 1 \in (n + 1)..L
    BY <1>2
  <2>2. f \in Nat /\ f < Len(p) /\ p[f] = HEADER1 /\ p[f + 1] = HEADER2 /\ Decodes(p, f)
    BY <2>1, WholeHeader
  <2>3. f = s \/ f >= s + 2
    BY <2>1, NextHeader
  <2> HIDE DEF f
  <2>4. CASE TooShort(p, s)
    <3>1. ~TooShort(p, f)
      BY <2>2 DEF Decodes
    <3> QED BY <1>1, <2>2, <2>3, <2>4, <3>1 DEF TooShort, Available, MIN_FRAME_LENGTH
  <2>5. CASE TooLong(p, s) /\ NextFrames(p, s) = {}
    <3>1. f # s
      BY <2>2, <2>5 DEF Decodes
    <3>2. f \in (s + 2)..(Len(p) - 1)
      BY <1>1, <2>2, <2>3, <3>1
    <3>3. f \in NextFrames(p, s)
      BY <2>2, <3>2 DEF NextFrames, Headers, Decodes
    <3> QED BY <2>5, <3>3
  <2> QED BY <2>4, <2>5
<1>4. ASSUME NEW j \in (N + 1)..L PROVE s <= c[j].first
  <2>1. j \in (n + 1)..L /\ j \in 1..L
    BY <1>2, <1>3
  <2>2. c[j].first = s \/ c[j].first >= s + 2
    BY <2>1, NextHeader
  <2>3. c[j].first \in Nat
    BY <1>2, <2>1
  <2> QED BY <1>1, <2>2, <2>3
<1>5. s \in 1..(Len(p) + 1) /\ N \in Nat
  BY <1>1, <1>2
<1> QED BY <1>3, <1>4, <1>5, KeptYields

LEMMA PassYields ==
    ASSUME NEW p \in Seq(Bytes), NEW c, NEW L, NEW N, Among(p, c, L, N),
           NEW i \in Nat \ {0}, NEW n \in 0..N, Between(i, n, c, L), NEW g,
           \A j \in Nat, k \in 0..N : j > i /\ Between(j, k, c, L) => Yields(p, c, L, N, k, g[j])
    PROVE  Yields(p, c, L, N, n, Pass(p, i, g))
<1>1. CASE Headers(p, i) = {}
  <2>1. Pass(p, i, g) = [messages |-> <<>>, rest |-> Unframed(p, i)]
    BY <1>1 DEF Pass
  <2> QED BY <1>1, <2>1, UnframedYields
<1>2. CASE Headers(p, i) # {}
  <2> DEFINE s == Min(Headers(p, i))
  <2>0. s = Min(Headers(p, i))
    OBVIOUS
  <2>1. s \in Nat /\ s >= i
    BY <1>2, HeadersFacts
  <2> HIDE DEF s
  <2>2. CASE TooShort(p, s) \/ (TooLong(p, s) /\ NextFrames(p, s) = {})
    <3>1. Pass(p, i, g) = [messages |-> <<>>, rest |-> From(p, s)]
      BY <1>2, <2>2 DEF Pass, s
    <3> QED BY <1>2, <2>0, <2>2, <3>1, CutYields
  <2>3. CASE ~TooShort(p, s) /\ TooLong(p, s) /\ NextFrames(p, s) # {}
    <3> DEFINE m == Min(NextFrames(p, s))
    <3>1. Pass(p, i, g) = g[m]
      BY <1>2, <2>3 DEF Pass, s
    <3>2. m \in Nat /\ m > i
      BY <2>1, <2>3, NextFramesFacts
    <3>3. m = Min(NextFrames(p, s))
      OBVIOUS
    <3> HIDE DEF m
    <3>4. Between(m, n, c, L)
      BY <1>2, <2>0, <2>3, <3>3, BehindCut
    <3> QED BY <3>1, <3>2, <3>4
  <2>4. CASE ~TooShort(p, s) /\ ~TooLong(p, s) /\ Decode(p, s) = Error
    <3>1. Pass(p, i, g) = g[s + 2]
      BY <1>2, <2>4 DEF Pass, s
    <3>2. Between(s + 2, n, c, L)
      BY <1>2, <2>0, <2>4, BehindError
    <3>3. s + 2 \in Nat /\ s + 2 > i
      BY <2>1
    <3> QED BY <3>1, <3>2, <3>3
  <2>5. CASE ~TooShort(p, s) /\ ~TooLong(p, s) /\ Decode(p, s) # Error
    <3> DEFINE t == s + FrameLength(p, s)
               d == Decode(p, s)
    <3>1. t \in Nat /\ t > i
      BY <2>1, <2>5, FrameLengthFacts DEF FRAME_OVERHEAD
    <3>2. Pass(p, i, g) = [g[t] EXCEPT !.messages = <<d>> \o @]
      BY <1>2, <2>5 DEF Pass, s
    <3>3. d \in Messages
      BY <2>1 DEF Messages
    <3>4. \/ n + 1 \in 1..N /\ d = c[n + 1].message /\ Between(t, n + 1, c, L)
          \/ ~Carries(d) /\ Between(t, n, c, L)
      <4>1. Decodes(p, s)
        BY <2>5 DEF Decodes
      <4> QED BY <1>2, <2>0, <4>1, BehindFrame
    <3> HIDE DEF t, d
    <3>5. PICK k \in 0..N :
            /\ Between(t, k, c, L)
            /\ \/ k = n + 1 /\ n + 1 \in 1..N /\ d = c[n + 1].message
               \/ k = n /\ ~Carries(d)
      <4>1. CASE n + 1 \in 1..N /\ d = c[n + 1].message /\ Between(t, n + 1, c, L)
        <5>1. n + 1 \in 0..N
          BY <4>1
        <5> QED BY <4>1, <5>1
      <4>2. CASE ~Carries(d) /\ Between(t, n, c, L)
        BY <4>2
      <4> QED BY <3>4, <4>1, <4>2
    <3>6. Yields(p, c, L, N, k, g[t])
      BY <3>1, <3>5
    <3>7. n \in Nat
      BY DEF Among, Spaced
    <3> DEFINE x == g[t]
    <3> HIDE DEF x
    <3>8. Yields(p, c, L, N, n, [x EXCEPT !.messages = <<d>> \o @])
      BY <3>3, <3>5, <3>6, <3>7, YieldsMore DEF x
    <3> QED BY <3>2, <3>8, Zenon DEF x
  <2> QED BY <2>2, <2>3, <2>4, <2>5
<1> QED BY <1>1, <1>2

\* The loop finds the frames sent, in order, and keeps all of those that are cut.
LEMMA ExtractYields ==
    ASSUME NEW p \in Seq(Bytes), NEW c, NEW L, NEW N, Among(p, c, L, N)
    PROVE  Yields(p, c, L, N, 0, ExtractMessages(p))
<1>1. PICK g : Loop(p, g) /\ ExtractMessages(p) = g[1]
  BY LoopFacts
<1>2. L \in Nat /\ N \in 0..L /\ \A j \in 1..L : c[j].first \in Nat \ {0}
  BY DEF Among, Spaced
<1> DEFINE T == {d \in Nat : \A i \in Nat \ {0}, k \in 0..N :
                   i + d > Len(p) /\ Between(i, k, c, L) => Yields(p, c, L, N, k, g[i])}
<1>3. 0 \in T
  <2> SUFFICES ASSUME NEW i \in Nat \ {0}, NEW k \in 0..N, i > Len(p), Between(i, k, c, L)
               PROVE  Yields(p, c, L, N, k, g[i])
    OBVIOUS
  <2>1. Headers(p, i) = {}
    BY NoHeaders
  <2>2. g[i] = [messages |-> <<>>, rest |-> Unframed(p, i)]
    BY <1>1, <2>1 DEF Loop, Pass
  <2> QED BY <2>1, <2>2, UnframedYields
<1>4. ASSUME NEW d \in 1..Len(p), d - 1 \in T PROVE d \in T
  <2> SUFFICES ASSUME NEW i \in Nat \ {0}, NEW k \in 0..N, i + d > Len(p), Between(i, k, c, L)
               PROVE  Yields(p, c, L, N, k, g[i])
    OBVIOUS
  <2>1. ASSUME NEW j \in Nat, NEW m \in 0..N, j > i, Between(j, m, c, L)
        PROVE  Yields(p, c, L, N, m, g[j])
    <3>1. j \in Nat \ {0} /\ j + (d - 1) > Len(p)
      BY <2>1
    <3> QED BY <1>4, <2>1, <3>1
  <2>2. g[i] = Pass(p, i, g)
    BY <1>1 DEF Loop
  <2>3. Yields(p, c, L, N, k, Pass(p, i, g))
    BY <2>1, PassYields
  <2> QED BY <2>2, <2>3
<1>5. Len(p) \in T
  <2> HIDE DEF T
  <2> QED BY <1>3, <1>4, UpTo
<1>6. Between(1, 0, c, L)
  BY <1>2 DEF Between
<1>7. 0 \in 0..N /\ 1 \in Nat \ {0} /\ 1 + Len(p) > Len(p)
  BY <1>2
<1>8. Yields(p, c, L, N, 0, g[1])
  BY <1>5, <1>6, <1>7
<1> QED BY <1>1, <1>8

-----------------------------------------------------------------------------
(* The frames that are coming, among what is kept and on its way.            *)

\* The frames that are coming are behind each other, whole in the buffer and on
\* the wire.
Tracked ==
    /\ InOrder(coming)
    /\ Inside(buffer \o wire, Len(buffer), Len(wire), coming)

LEMMA TrackedTypes ==
    ASSUME OnlyBytes, SoundFrames, Tracked
    PROVE  /\ coming \in Seq(Coming) /\ Len(coming) \in Nat /\ DOMAIN coming = 1..Len(coming)
           /\ Len(buffer) \in Nat /\ Len(wire) \in Nat
           /\ \A i \in 1..Len(coming) :
                /\ coming[i] \in Coming /\ coming[i].first \in Int /\ coming[i].last \in Int
                /\ 1 - Len(buffer) <= coming[i].first /\ coming[i].first + 5 <= coming[i].last
                /\ coming[i].last <= Len(wire)
<1>1. /\ coming \in Seq(Coming) /\ Len(coming) \in Nat /\ DOMAIN coming = 1..Len(coming)
      /\ \A i \in 1..Len(coming) : /\ coming[i].first \in Int /\ coming[i].last \in Int
                                   /\ coming[i] \in Coming
  BY LineTypes DEF Tracked, InOrder
<1>2. Len(buffer) \in Nat /\ Len(wire) \in Nat
  BY DEF OnlyBytes
<1>3. ASSUME NEW i \in 1..Len(coming)
      PROVE  /\ 1 - Len(buffer) <= coming[i].first /\ coming[i].first + 5 <= coming[i].last
             /\ coming[i].last <= Len(wire)
  <2> DEFINE c == coming[i]
  <2>1. /\ Placed(buffer \o wire, Len(buffer), c)
        /\ 1 - Len(buffer) <= c.first /\ c.last <= Len(wire)
    BY <1>1 DEF Tracked, Inside
  <2>2. c.first \in Int /\ c.last \in Int
    BY <1>1
  <2> HIDE DEF c
  <2>3. PICK j \in 1..MaxFrames : \E f \in Frames[j] : c.last - c.first + 1 = Len(f.bytes)
    BY <2>1 DEF Placed
  <2>4. PICK f \in Frames[j] : c.last - c.first + 1 = Len(f.bytes)
    BY <2>3
  <2>5. Len(f.bytes) >= 6 /\ Len(f.bytes) \in Nat
    BY FramesAssumption DEF SoundFrames, SoundFrame, MIN_FRAME_LENGTH
  <2>6. c.first + 5 <= c.last
    BY <2>2, <2>4, <2>5
  <2> QED BY <2>1, <2>6 DEF c
<1> QED BY <1>1, <1>2, <1>3

\* f is the frame that c stands for, and what p has of it is there.
Arrived(p, b, c, f) ==
    /\ SoundFrame(f) /\ f.bytes \in Seq(Bytes) /\ Len(f.bytes) >= 6
    /\ c.message = f.message /\ c.last - c.first + 1 = Len(f.bytes)
    /\ \A j \in 1..Len(f.bytes) :
         b + c.first - 1 + j <= Len(p) => p[b + c.first - 1 + j] = f.bytes[j]

LEMMA FrameArrived ==
    ASSUME OnlyBytes, SoundFrames, Tracked, NEW k \in 1..Len(wire), NEW i \in 1..Len(coming)
    PROVE  \E f : Arrived(Got(k), Len(buffer), coming[i], f)
<1> DEFINE b == Len(buffer)
           c == coming[i]
           p == Got(k)
<1>1. /\ Placed(buffer \o wire, b, c) /\ b \in Nat
      /\ c.first \in Int /\ c.last \in Int /\ 1 - b <= c.first
  BY TrackedTypes DEF Tracked, Inside
<1>2. /\ Len(p) = b + k
      /\ \A j \in 1..(b + k) : p[j] = (buffer \o wire)[j]
  BY GotFacts
<1> HIDE DEF b, c, p
<1>3. PICK j \in 1..MaxFrames : \E f \in Frames[j] :
        /\ c.message = f.message /\ c.last - c.first + 1 = Len(f.bytes)
        /\ \A h \in 1..Len(f.bytes) : (buffer \o wire)[b + c.first - 1 + h] = f.bytes[h]
  BY <1>1 DEF Placed
<1>4. PICK f \in Frames[j] :
        /\ c.message = f.message /\ c.last - c.first + 1 = Len(f.bytes)
        /\ \A h \in 1..Len(f.bytes) : (buffer \o wire)[b + c.first - 1 + h] = f.bytes[h]
  BY <1>3
<1>5. f.bytes \in Seq(Bytes) /\ SoundFrame(f)
  BY FramesAssumption DEF SoundFrames
<1>6. Len(f.bytes) >= 6
  BY <1>5 DEF SoundFrame, MIN_FRAME_LENGTH
<1>7. ASSUME NEW h \in 1..Len(f.bytes), b + c.first - 1 + h <= Len(p)
      PROVE  p[b + c.first - 1 + h] = f.bytes[h]
  <2> DEFINE x == c.first
  <2>0. b \in Nat /\ x \in Int /\ 1 - b <= x /\ h \in Int /\ h >= 1 /\ k \in Int
        /\ b + x - 1 + h <= b + k
    BY <1>1, <1>2, <1>5, <1>7
  <2> HIDE DEF x
  <2>1. b + c.first - 1 + h \in 1..(b + k)
    BY <2>0 DEF x
  <2> QED BY <1>2, <1>4, <2>1
<1>8. Arrived(p, b, c, f)
  BY <1>4, <1>5, <1>6, <1>7 DEF Arrived
<1> QED BY <1>8 DEF b, c, p

\* The frames that are coming, in what has arrived.
Spots ==
    [i \in 1..Len(coming) |-> [first |-> Len(buffer) + coming[i].first,
                               last |-> Len(buffer) + coming[i].last,
                               message |-> coming[i].message]]

LEMMA SpotWhole ==
    ASSUME NEW p \in Seq(Bytes), NEW b \in Nat, NEW c, NEW d, NEW f, Arrived(p, b, c, f),
           c.first \in Int, c.last \in Int, 1 - b <= c.first, b + c.last <= Len(p),
           d.first = b + c.first, d.last = b + c.last, d.message = c.message
    PROVE  WholeIn(p, d)
<1> DEFINE n == Len(f.bytes)
           x == c.first
           y == c.last
           s == d.first
<1>1. /\ SoundFrame(f) /\ f.bytes \in Seq(Bytes) /\ n \in Nat /\ n >= 6
      /\ d.message = f.message /\ y - x + 1 = n
      /\ \A j \in 1..n : b + x - 1 + j <= Len(p) => p[b + x - 1 + j] = f.bytes[j]
  BY DEF Arrived
<1>2. f.message # Error
  BY <1>1 DEF SoundFrame
<1>3. x \in Int /\ y \in Int /\ 1 - b <= x /\ b + y <= Len(p) /\ s = b + x /\ d.last = b + y
  OBVIOUS
<1> HIDE DEF n, x, y, s
<1>4. s \in 1..Len(p) /\ s + n - 1 <= Len(p) /\ d.last - s + 1 = n /\ d.last <= Len(p)
  <2>1. n \in Nat /\ n >= 6 /\ y = x + n - 1
    BY <1>1, <1>3
  <2>2. s \in Int /\ s >= 1 /\ s = b + x /\ d.last = b + y
    BY <1>3
  <2>3. d.last = s + n - 1
    BY <1>3, <2>1, <2>2
  <2> QED BY <1>3, <2>1, <2>2, <2>3
<1>5. ASSUME NEW j \in 1..n PROVE p[s + j - 1] = f.bytes[j]
  <2>1. s + j - 1 = b + x - 1 + j /\ b + x - 1 + j <= Len(p)
    BY <1>1, <1>3
  <2> QED BY <1>1, <2>1
<1>6. WholeAt(p, s, f.bytes)
  BY <1>4, <1>5 DEF WholeAt, n
<1>7. /\ s \in Headers(p, s) /\ ~TooShort(p, s) /\ ~TooLong(p, s)
      /\ FrameLength(p, s) = n /\ Decode(p, s) = f.message
  BY <1>1, <1>6, WholeFrameAt DEF n
<1> QED BY <1>1, <1>2, <1>4, <1>7 DEF WholeIn, s

LEMMA SpotCut ==
    ASSUME NEW p \in Seq(Bytes), NEW b \in Nat, NEW c, NEW d, NEW f, Arrived(p, b, c, f),
           c.first \in Int, c.last \in Int, 1 - b <= c.first, b + c.last > Len(p),
           d.first = b + c.first, d.last = b + c.last
    PROVE  CutIn(p, d)
<1> DEFINE n == Len(f.bytes)
           x == c.first
           y == c.last
           s == d.first
<1>1. /\ SoundFrame(f) /\ n \in Nat /\ n >= 6 /\ y - x + 1 = n
      /\ \A j \in 1..n : b + x - 1 + j <= Len(p) => p[b + x - 1 + j] = f.bytes[j]
  BY DEF Arrived
<1>2. f.bytes[1] = HEADER1 /\ f.bytes[2] = HEADER2 /\ n = FrameLength(f.bytes, 1)
  BY <1>1 DEF SoundFrame
<1>3. x \in Int /\ y \in Int /\ 1 - b <= x /\ b + y > Len(p) /\ s = b + x /\ d.last = b + y
  OBVIOUS
<1> HIDE DEF n, x, y, s
<1>4. ASSUME NEW j \in 0..5, s + j <= Len(p) PROVE p[s + j] = f.bytes[j + 1]
  <2>1. j + 1 \in 1..n /\ b + x - 1 + (j + 1) = s + j
    BY <1>1, <1>3
  <2> QED BY <1>1, <1>4, <2>1
<1>5. s <= Len(p) => p[s] = HEADER1
  <2>1. 0 \in 0..5 /\ s + 0 = s /\ 0 + 1 = 1
    BY <1>3
  <2> QED BY <1>2, <1>4, <2>1
<1>6. s < Len(p) => p[s + 1] = HEADER2
  <2>1. 1 \in 0..5 /\ 1 + 1 = 2 /\ (s < Len(p) => s + 1 <= Len(p))
    BY <1>3
  <2> QED BY <1>2, <1>4, <2>1
<1>7. ASSUME ~TooShort(p, s) PROVE TooLong(p, s)
  <2>1. s + 3 <= Len(p) /\ 3 \in 0..5 /\ 3 + 1 = 4 /\ 1 + 3 = 4
    BY <1>3, <1>7 DEF TooShort, Available, MIN_FRAME_LENGTH
  <2>2. p[s + 3] = f.bytes[1 + 3]
    BY <1>4, <2>1
  <2>3. FrameLength(p, s) = n
    BY <1>2, <2>2 DEF FrameLength
  <2>4. Available(p, s) < n
    BY <1>1, <1>3 DEF Available
  <2> QED BY <2>3, <2>4 DEF TooLong
<1> QED BY <1>3, <1>5, <1>6, <1>7 DEF CutIn, s

\* A frame that is there with the first bytes of q is there in q.
LEMMA ReadInBoth ==
    ASSUME NEW p \in Seq(Bytes), NEW q \in Seq(Bytes), Len(p) <= Len(q),
           \A j \in 1..Len(p) : p[j] = q[j],
           NEW s \in Headers(p, 1), ~TooShort(p, s), ~TooLong(p, s)
    PROVE  /\ s \in Headers(q, 1) /\ ~TooShort(q, s) /\ ~TooLong(q, s)
           /\ FrameLength(q, s) = FrameLength(p, s) /\ Decode(q, s) = Decode(p, s)
<1>1. s \in 1..(Len(p) - 1) /\ p[s] = HEADER1 /\ p[s + 1] = HEADER2
  BY DEF Headers
<1>2. s \in Headers(q, 1)
  <2>1. s \in 1..Len(p) /\ s + 1 \in 1..Len(p) /\ s \in 1..(Len(q) - 1)
    BY <1>1
  <2> QED BY <1>1, <2>1 DEF Headers
<1> DEFINE n == FrameLength(p, s)
<1>3. n \in Nat /\ s + 3 \in 1..Len(p)
  BY <1>1, FrameLengthFacts DEF TooShort, Available, MIN_FRAME_LENGTH
<1>4. FrameLength(q, s) = n
  BY <1>3 DEF FrameLength
<1> HIDE DEF n
<1>5. ~(Len(p) - s + 1 < n)
  BY DEF TooLong, Available, n
<1>6. ~TooShort(q, s)
  BY <1>1 DEF TooShort, Available, MIN_FRAME_LENGTH
<1>7. ~TooLong(q, s)
  BY <1>1, <1>3, <1>4, <1>5 DEF TooLong, Available
<1>8. SubSeq(p, s, s + n - 1) = SubSeq(q, s, s + n - 1)
  <2>1. (s + n - 1) - s + 1 = n /\ \A j \in 1..n : s + j - 1 \in 1..Len(p)
    BY <1>1, <1>3, <1>5
  <2>2. SubSeq(p, s, s + n - 1) = [j \in 1..n |-> p[s + j - 1]]
    BY <1>1, <1>3, <2>1
  <2>3. SubSeq(q, s, s + n - 1) = [j \in 1..n |-> q[s + j - 1]]
    BY <1>1, <1>3, <2>1
  <2>4. \A j \in 1..n : p[s + j - 1] = q[s + j - 1]
    BY <2>1
  <2> QED BY <2>2, <2>3, <2>4
<1>9. FrameAt(p, s) = FrameAt(q, s)
  BY <1>4, <1>8 DEF FrameAt, n
<1>10. Decode(p, s) = Decode(q, s)
  BY <1>9, DecodeSame
<1> QED BY <1>2, <1>4, <1>6, <1>7, <1>10 DEF n

LEMMA EndedHere ==
    ASSUME OnlyBytes, SoundFrames, Tracked, NEW k \in 1..Len(wire)
    PROVE  EndedAt(coming, k, Ended(k))
<1>1. /\ InOrder(coming) /\ k \in Nat /\ DOMAIN coming = 1..Len(coming)
      /\ \A i \in 1..Len(coming) : /\ coming[i].first \in Int /\ coming[i].last \in Int
                                   /\ coming[i].first + 5 <= coming[i].last
  BY TrackedTypes DEF Tracked
<1>2. \A i \in DOMAIN coming : coming[i].first <= coming[i].last
  BY <1>1
<1> QED BY <1>1, <1>2, EndedFacts

LEMMA AmongArrived ==
    ASSUME OnlyBytes, SoundFrames, Tracked, OnlySentDecode, NEW k \in 1..Len(wire)
    PROVE  Among(Got(k), Spots, Len(coming), Ended(k))
<1> DEFINE p == Got(k)
           q == buffer \o wire
           b == Len(buffer)
           L == Len(coming)
           N == Ended(k)
           c == Spots
<1>1. /\ L \in Nat /\ DOMAIN coming = 1..L /\ b \in Nat
      /\ \A i \in 1..L :
           /\ coming[i].first \in Int /\ coming[i].last \in Int
           /\ 1 - b <= coming[i].first /\ coming[i].first + 5 <= coming[i].last
  BY TrackedTypes
<1>2. \A i \in 1..L : /\ c[i].first = b + coming[i].first /\ c[i].last = b + coming[i].last
                      /\ c[i].message = coming[i].message
  BY DEF Spots
<1>3. p \in Seq(Bytes) /\ Len(p) = b + k /\ \A j \in 1..(b + k) : p[j] = q[j]
  BY GotFacts
<1>4. /\ N \in 0..L
      /\ \A i \in 1..N : coming[i].last <= k
      /\ \A i \in (N + 1)..L : coming[i].last > k
  BY EndedHere DEF EndedAt
<1>5. \A i \in 1..L : \E f : Arrived(p, b, coming[i], f)
  BY FrameArrived
<1>6. \A i, j \in 1..L : i < j => coming[i].last < coming[j].first
  BY <1>1 DEF Tracked, InOrder
<1>7. q \in Seq(Bytes) /\ Len(p) <= Len(q)
  <2>1. buffer \in Seq(Bytes) /\ wire \in Seq(Bytes)
    BY DEF OnlyBytes
  <2>2. q \in Seq(Bytes) /\ Len(q) = b + Len(wire)
    BY <2>1
  <2> HIDE DEF q
  <2> QED BY <1>1, <1>3, <2>1, <2>2
<1> HIDE DEF p, q, b, L, N, c
<1>8. Spaced(c, L)
  <2>1. ASSUME NEW i \in 1..L
        PROVE  /\ c[i].first \in Nat \ {0} /\ c[i].last \in Nat /\ c[i].first <= c[i].last
    <3> DEFINE x == coming[i].first
               y == coming[i].last
    <3>1. x \in Int /\ y \in Int /\ 1 - b <= x /\ x + 5 <= y
      BY <1>1
    <3>2. c[i].first = b + x /\ c[i].last = b + y
      BY <1>2
    <3> HIDE DEF x, y
    <3> QED BY <1>1, <3>1, <3>2
  <2>2. ASSUME NEW i \in 1..L, NEW j \in 1..L, i < j PROVE c[i].last < c[j].first
    <3>1. coming[i].last < coming[j].first
      BY <1>6, <2>2
    <3> QED BY <1>1, <1>2, <3>1
  <2> QED BY <1>1, <2>1, <2>2 DEF Spaced
<1>9. ASSUME NEW i \in 1..N PROVE WholeIn(p, c[i])
  <2>1. i \in 1..L /\ coming[i].last <= k
    BY <1>1, <1>4
  <2>2. PICK f : Arrived(p, b, coming[i], f)
    BY <1>5, <2>1
  <2>3. /\ coming[i].first \in Int /\ coming[i].last \in Int /\ 1 - b <= coming[i].first
        /\ b + coming[i].last <= Len(p)
    BY <1>1, <1>3, <2>1
  <2> QED BY <1>1, <1>2, <1>3, <2>1, <2>2, <2>3, SpotWhole
<1>10. ASSUME NEW i \in (N + 1)..L PROVE CutIn(p, c[i])
  <2>1. i \in 1..L /\ coming[i].last > k
    BY <1>1, <1>4
  <2>2. PICK f : Arrived(p, b, coming[i], f)
    BY <1>5, <2>1
  <2>3. /\ coming[i].first \in Int /\ coming[i].last \in Int /\ 1 - b <= coming[i].first
        /\ b + coming[i].last > Len(p)
    BY <1>1, <1>3, <2>1
  <2> QED BY <1>1, <1>2, <1>3, <2>1, <2>2, <2>3, SpotCut
<1>11. ASSUME NEW s \in Headers(p, 1), Decodes(p, s)
       PROVE  \/ \E j \in 1..N : c[j].first = s
              \/ ~Carries(Decode(p, s)) /\ Apart(p, s, c, L)
  <2>1. ~TooShort(p, s) /\ ~TooLong(p, s) /\ Decode(p, s) # Error /\ s \in 1..(Len(p) - 1)
    BY <1>11 DEF Decodes, Headers
  <2>2. /\ s \in Headers(q, 1) /\ ~TooShort(q, s) /\ ~TooLong(q, s)
        /\ FrameLength(q, s) = FrameLength(p, s) /\ Decode(q, s) = Decode(p, s)
    BY <1>3, <1>7, <2>1, ReadInBoth
  <2>3. \/ \E i \in DOMAIN coming : coming[i].first + b = s
        \/ /\ ~Carries(Decode(q, s))
           /\ \A i \in DOMAIN coming :
                \/ s + FrameLength(q, s) <= coming[i].first + b
                \/ coming[i].last + b < s
    BY <2>1, <2>2 DEF OnlySentDecode, q, b
  <2>4. CASE \E i \in DOMAIN coming : coming[i].first + b = s
    <3>1. PICK i \in 1..L : coming[i].first + b = s
      BY <1>1, <2>4
    <3>2. c[i].first = s
      BY <1>1, <1>2, <3>1
    <3>3. ~(i \in (N + 1)..L)
      <4> SUFFICES ASSUME i \in (N + 1)..L PROVE FALSE
        OBVIOUS
      <4>1. CutIn(p, c[i])
        BY <1>10
      <4>2. TooShort(p, s) \/ TooLong(p, s)
        BY <2>1, <3>2, <4>1 DEF CutIn
      <4> QED BY <2>1, <4>2
    <3>4. i \in 1..N
      BY <1>1, <1>4, <3>3
    <3> QED BY <3>2, <3>4
  <2>5. CASE /\ ~Carries(Decode(q, s))
             /\ \A i \in DOMAIN coming :
                  \/ s + FrameLength(q, s) <= coming[i].first + b
                  \/ coming[i].last + b < s
    <3>1. ASSUME NEW j \in 1..L PROVE s + FrameLength(p, s) <= c[j].first \/ c[j].last < s
      <4>1. \/ s + FrameLength(p, s) <= coming[j].first + b
            \/ coming[j].last + b < s
        BY <1>1, <2>2, <2>5
      <4>2. coming[j].first + b = c[j].first /\ coming[j].last + b = c[j].last
        BY <1>1, <1>2
      <4> QED BY <4>1, <4>2
    <3> QED BY <2>2, <2>5, <3>1 DEF Apart
  <2> QED BY <2>3, <2>4, <2>5
<1>12. Among(p, c, L, N)
  BY <1>4, <1>8, <1>9, <1>10, <1>11 DEF Among
<1> QED BY <1>12 DEF p, c, L, N

\* The frames behind the first n are still tracked when k bytes have arrived and
\* what is kept begins with the s-th byte.
LEMMA TrackedArrives ==
    ASSUME OnlyBytes, SoundFrames, Tracked, NEW k \in 1..Len(wire), NEW n \in 0..Len(coming),
           NEW s \in 1..(Len(buffer) + k + 1),
           buffer' = From(Got(k), s), wire' = From(wire, k + 1), coming' = Behind(coming, k, n),
           \A i \in (n + 1)..Len(coming) : s <= Len(buffer) + coming[i].first
    PROVE  Tracked'
<1> DEFINE u == Len(buffer)
           m == Len(wire)
           N == Len(coming)
           a == Len(buffer')
           q == buffer \o wire
           r == buffer' \o wire'
<1>1. /\ coming \in Seq(Coming) /\ N \in Nat /\ DOMAIN coming = 1..N /\ u \in Nat /\ m \in Nat
      /\ \A i \in 1..N :
           /\ coming[i] \in Coming /\ coming[i].first \in Int /\ coming[i].last \in Int
           /\ 1 - u <= coming[i].first /\ coming[i].first + 5 <= coming[i].last
           /\ coming[i].last <= m
  BY TrackedTypes
<1>2. /\ a = u + k + 1 - s /\ Len(wire') = m - k
      /\ \A j \in 1..(u + m + 1 - s) : r[j] = q[j + s - 1]
  BY Remains
<1>3. /\ coming' \in Seq(Coming) /\ Len(coming') = N - n
      /\ \A i \in 1..(N - n) :
           /\ i + n \in 1..N
           /\ coming'[i].first = coming[i + n].first - k
           /\ coming'[i].last = coming[i + n].last - k
           /\ coming'[i].message = coming[i + n].message
  <2>1. coming \in Seq(Coming) /\ k \in Int
    BY <1>1
  <2>2. Len(coming) = N /\ coming' = Behind(coming, k, n)
    OBVIOUS
  <2>3. n \in 0..Len(coming)
    OBVIOUS
  <2> DEFINE e == Behind(coming, k, n)
  <2>4. /\ e \in Seq(Coming) /\ Len(e) = Len(coming) - n
        /\ \A i \in 1..(Len(coming) - n) :
             /\ i + n \in 1..Len(coming)
             /\ e[i].first = coming[i + n].first - k /\ e[i].last = coming[i + n].last - k
             /\ e[i].message = coming[i + n].message
    BY <2>1, <2>3, BehindFacts
  <2> HIDE DEF N, e
  <2>5. coming' = e
    BY <2>2 DEF e
  <2> QED BY <2>2, <2>4, <2>5
<1>4. /\ \A i \in 1..N : Placed(q, u, coming[i])
      /\ \A i, j \in 1..N : i < j => coming[i].last < coming[j].first
  BY <1>1 DEF Tracked, Inside, InOrder
<1>5. /\ s \in 1..(u + k + 1) /\ n \in 0..N /\ k \in 1..m
      /\ \A i \in (n + 1)..N : s <= u + coming[i].first
  OBVIOUS
<1> HIDE DEF u, m, N, a, q, r
<1>6. DOMAIN coming' = 1..(N - n)
  BY <1>1, <1>3
<1>7. ASSUME NEW i \in 1..(N - n), NEW j \in 1..(N - n), i < j
      PROVE  coming'[i].last < coming'[j].first
  <2>1. i + n \in 1..N /\ j + n \in 1..N /\ i + n < j + n
    BY <1>1, <1>3, <1>7
  <2>2. coming[i + n].last < coming[j + n].first
    BY <1>4, <2>1
  <2>3. /\ coming'[i].last = coming[i + n].last - k
        /\ coming'[j].first = coming[j + n].first - k
    BY <1>3
  <2> DEFINE x == coming[i + n].last
             y == coming[j + n].first
  <2>4. x \in Int /\ y \in Int /\ x < y
    BY <1>1, <2>1, <2>2
  <2>5. coming'[i].last = x - k /\ coming'[j].first = y - k
    BY <2>3
  <2> HIDE DEF x, y
  <2> QED BY <1>5, <2>4, <2>5
<1>8. ASSUME NEW i \in 1..(N - n)
      PROVE  /\ Placed(r, a, coming'[i])
             /\ 1 - a <= coming'[i].first /\ coming'[i].last <= m - k
  <2> DEFINE c == coming[i + n]
             d == coming'[i]
             x == c.first
             y == c.last
  <2>1. i + n \in 1..N /\ i + n \in (n + 1)..N
    BY <1>1, <1>3
  <2>2. /\ c \in Coming /\ x \in Int /\ y \in Int /\ x + 5 <= y /\ y <= m
        /\ s <= u + x /\ Placed(q, u, c)
    BY <1>1, <1>4, <1>5, <2>1
  <2>3. d \in Coming /\ d.first = x - k /\ d.last = y - k /\ d.message = c.message
    BY <1>3, <1>6
  <2>4. a \in Nat /\ k \in Int /\ s \in Int
    BY <1>1, <1>2, <1>5
  <2> HIDE DEF c, d, x, y
  <2>5. 1 - a <= d.first /\ d.last <= m - k
    BY <1>1, <1>2, <2>2, <2>3, <2>4
  <2>6. \A j \in (u + x + 1 - s)..(u + y + 1 - s) : r[j] = q[j + s - 1]
    <3>1. \A j \in (u + x + 1 - s)..(u + y + 1 - s) : j \in 1..(u + m + 1 - s)
      <4>1. u \in Nat /\ m \in Nat /\ s \in Int /\ x \in Int /\ y \in Int /\ y <= m /\ s <= u + x
        BY <1>1, <1>5, <2>2
      <4> QED BY <4>1
    <3> QED BY <1>2, <3>1
  <2>7. Moved(q, u, c, r, a, d, k, s)
    BY <1>2, <2>3, <2>6 DEF Moved, x, y
  <2>8. Placed(r, a, d)
    BY <1>1, <2>2, <2>3, <2>4, <2>7, PlacedMoves
  <2> QED BY <2>5, <2>8 DEF d
<1>9. InOrder(coming')
  BY <1>3, <1>6, <1>7 DEF InOrder
<1>10. Inside(r, a, Len(wire'), coming')
  BY <1>2, <1>6, <1>8 DEF Inside
<1> QED BY <1>9, <1>10 DEF Tracked, r, a

LEMMA TrackedSends ==
    ASSUME OnlyBytes, SoundFrames, Tracked, ScaleSends
    PROVE  Tracked'
<1>1. /\ coming \in Seq(Coming) /\ Len(coming) \in Nat /\ DOMAIN coming = 1..Len(coming)
      /\ Len(wire) \in Nat
      /\ \A i \in 1..Len(coming) : coming[i].last \in Int /\ coming[i].last <= Len(wire)
      /\ \A i, j \in 1..Len(coming) : i < j => coming[i].last < coming[j].first
  BY TrackedTypes DEF Tracked, InOrder
<1>2. Inside(buffer' \o wire', Len(buffer'), Len(wire'), coming')
  BY <1>1, SendPlaced DEF Tracked
<1>3. PICK l \in Nat, d \in Coming :
        /\ coming' = Append(coming, d) /\ d.first = Len(wire) + 1
  BY <1>1, SendPlaced DEF Tracked
<1> DEFINE N == Len(coming)
<1>4. /\ coming' \in Seq(Coming) /\ Len(coming') = N + 1
      /\ \A i \in 1..N : coming'[i] = coming[i]
      /\ coming'[N + 1] = d
  BY <1>1, <1>3, AppendFacts
<1>5. DOMAIN coming' = 1..(N + 1)
  BY <1>4
<1> HIDE DEF N
<1>6. ASSUME NEW i \in 1..(N + 1), NEW j \in 1..(N + 1), i < j
      PROVE  coming'[i].last < coming'[j].first
  <2>1. i \in 1..N /\ coming'[i] = coming[i]
    BY <1>1, <1>4, <1>6 DEF N
  <2>2. CASE j = N + 1
    BY <1>1, <1>3, <1>4, <2>1, <2>2 DEF N
  <2>3. CASE j # N + 1
    <3>1. j \in 1..N /\ coming'[j] = coming[j]
      BY <1>1, <1>4, <2>3 DEF N
    <3> QED BY <1>1, <1>6, <2>1, <3>1 DEF N
  <2> QED BY <2>2, <2>3
<1>7. InOrder(coming')
  BY <1>4, <1>5, <1>6 DEF InOrder
<1> QED BY <1>2, <1>7 DEF Tracked

LEMMA TrackedDamaged ==
    ASSUME OnlyBytes, SoundFrames, Tracked, DamagedSent
    PROVE  Tracked'
<1>1. /\ sent < MaxFrames /\ UNCHANGED <<buffer, coming>>
      /\ \E f \in Frames[sent + 1] : \E bytes \in Damages(f.bytes) : wire' = wire \o bytes
  BY DEF DamagedSent
<1>2. PICK f \in Frames[sent + 1] : \E bytes \in Damages(f.bytes) : wire' = wire \o bytes
  BY <1>1
<1>3. PICK e \in Damages(f.bytes) : wire' = wire \o e
  BY <1>2
<1>4. f.bytes \in Seq(Bytes) /\ Len(f.bytes) >= 4
  BY <1>1, FramesAssumption DEF OnlyBytes
<1>5. e \in Seq(Bytes)
  BY <1>4, DamagesBytes
<1> DEFINE b == Len(buffer)
           m == Len(wire)
           q == buffer \o wire
           r == buffer \o wire'
<1>6. buffer \in Seq(Bytes) /\ wire \in Seq(Bytes) /\ b \in Nat /\ m \in Nat
  BY DEF OnlyBytes
<1>7. /\ wire' \in Seq(Bytes) /\ m <= Len(wire') /\ Len(wire') \in Nat
      /\ \A j \in 1..m : wire'[j] = wire[j]
  BY <1>3, <1>5, <1>6
<1>8. /\ DOMAIN coming = 1..Len(coming)
      /\ \A i \in 1..Len(coming) :
           /\ coming[i] \in Coming /\ coming[i].last \in Int
           /\ 1 - b <= coming[i].first /\ coming[i].last <= m
  BY TrackedTypes
<1>9. \A j \in 1..(b + m) : r[j] = q[j]
  <2> SUFFICES ASSUME NEW j \in 1..(b + m) PROVE r[j] = q[j]
    OBVIOUS
  <2>1. j \in 1..(b + Len(wire)) /\ j \in 1..(b + Len(wire'))
    BY <1>6, <1>7
  <2>2. /\ q[j] = IF j <= b THEN buffer[j] ELSE wire[j - b]
        /\ r[j] = IF j <= b THEN buffer[j] ELSE wire'[j - b]
    BY <1>6, <1>7, <2>1, JoinFacts
  <2>3. ~(j <= b) => j - b \in 1..m
    BY <1>6
  <2> QED BY <1>7, <2>2, <2>3
<1> HIDE DEF b, m, q, r
<1>10. ASSUME NEW i \in 1..Len(coming) PROVE Placed(r, b, coming[i])
  <2>1. Placed(q, b, coming[i])
    BY <1>8 DEF Tracked, Inside, q, b
  <2> QED BY <1>6, <1>8, <1>9, <2>1, PlacedStays
<1>11. Inside(r, b, Len(wire'), coming)
  <2>1. ASSUME NEW i \in 1..Len(coming) PROVE coming[i].last <= Len(wire')
    BY <1>6, <1>7, <1>8
  <2> QED BY <1>8, <1>10, <2>1 DEF Inside
<1> QED BY <1>1, <1>11 DEF Tracked, r, b

\* What they carry is what the frames carry that end with the k-th byte or before.
LEMMA SpotsCarry ==
    ASSUME NEW k, Ended(k) \in 0..Len(coming)
    PROVE  Carry(Spots, 0, Ended(k)) = Completed(k)
<1> DEFINE N == Ended(k)
<1>1. N - 0 = N /\ \A j \in 1..N : 0 + j = j /\ j \in 1..Len(coming)
  OBVIOUS
<1>2. \A j \in 1..N : Spots[0 + j].message = coming[j].message
  BY <1>1 DEF Spots
<1>3. [j \in 1..(N - 0) |-> Spots[0 + j].message] = [j \in 1..N |-> coming[j].message]
  BY <1>1, <1>2
<1> QED BY <1>3 DEF Carry, Completed

LEMMA TrackedReceives ==
    ASSUME OnlyBytes, SoundFrames, Tracked, OnlySentDecode, Receive
    PROVE  Tracked' /\ (applied = owed => applied' = owed')
<1>1. PICK k \in DOMAIN wire :
        /\ Apply(ExtractMessages(Got(k)).messages)
        /\ buffer' = ExtractMessages(Got(k)).rest
        /\ owed' = owed \o Completed(k)
        /\ Arrives(k, Ended(k))
  BY DEF Receive, Got
<1> DEFINE p == Got(k)
           N == Ended(k)
           L == Len(coming)
<1>2. k \in 1..Len(wire)
  BY DEF OnlyBytes
<1>3. p \in Seq(Bytes) /\ Len(p) = Len(buffer) + k
  BY <1>2, GotFacts
<1>4. N \in 0..L
  BY <1>2, EndedHere DEF EndedAt
<1>5. Among(p, Spots, L, N)
  BY <1>2, AmongArrived
<1>6. /\ wire' = From(wire, k + 1) /\ coming' = Behind(coming, k, N)
      /\ applied' = applied \o Carried(ExtractMessages(p).messages)
      /\ buffer' = ExtractMessages(p).rest
  <2>1. Arrives(k, N) /\ Apply(ExtractMessages(p).messages) /\ buffer' = ExtractMessages(p).rest
    BY <1>1
  <2> HIDE DEF N, p
  <2> QED BY <2>1, Zenon DEF Arrives, Behind, Apply
<1> HIDE DEF p, N, L
<1>7. Yields(p, Spots, L, N, 0, ExtractMessages(p))
  BY <1>3, <1>5, ExtractYields
<1>8. PICK ms \in Seq(Messages), r \in 1..(Len(p) + 1) :
        /\ ExtractMessages(p) = [messages |-> ms, rest |-> From(p, r)]
        /\ Carried(ms) = Carry(Spots, 0, N)
        /\ \A j \in (N + 1)..L : r <= Spots[j].first
  BY <1>7 DEF Yields
<1>9. Carried(ms) = Completed(k)
  BY <1>4, <1>8, SpotsCarry DEF N, L
<1>10. buffer' = From(Got(k), r)
  BY <1>6, <1>8 DEF p
<1>11. \A i \in (N + 1)..L : r <= Len(buffer) + coming[i].first
  <2> SUFFICES ASSUME NEW i \in (N + 1)..L PROVE r <= Len(buffer) + coming[i].first
    OBVIOUS
  <2>1. i \in 1..Len(coming)
    BY <1>4, TrackedTypes DEF L
  <2>2. Spots[i].first = Len(buffer) + coming[i].first
    BY <2>1 DEF Spots
  <2> QED BY <1>8, <2>2
<1>12. Tracked'
  <2>1. r \in 1..(Len(buffer) + k + 1)
    BY <1>3
  <2> QED BY <1>2, <1>4, <1>6, <1>10, <1>11, <2>1, TrackedArrives DEF L
<1>13. applied' = applied \o Completed(k)
  BY <1>6, <1>8, <1>9
<1> QED BY <1>1, <1>12, <1>13

\* The callback raises at the n-th message: what was applied by then is the first
\* part of what the frames carry that arrived.
LEMMA PartCarried ==
    ASSUME NEW ms \in Seq(Messages), NEW n \in 1..Len(ms)
    PROVE  LET a == Carried(SubSeq(ms, 1, n))
               c == Carried(ms)
           IN  a = SubSeq(c, 1, Min({Len(a), Len(c)}))
<1> DEFINE x == SubSeq(ms, 1, n)
           y == SubSeq(ms, n + 1, Len(ms))
           a == Carried(x)
           d == Carried(y)
           c == Carried(ms)
<1>1. x \in Seq(Messages) /\ y \in Seq(Messages) /\ ms = x \o y
  OBVIOUS
<1> HIDE DEF x, y
<1>2. a \in Seq(Messages) /\ d \in Seq(Messages) /\ Carried(x \o y) = a \o d
  BY <1>1, CarriedJoin
<1>3. c = a \o d
  BY <1>1, <1>2
<1> HIDE DEF a, d, c
<1>4. Len(a) \in Nat /\ Len(c) \in Nat /\ Len(a) <= Len(c) /\ a = SubSeq(c, 1, Len(a))
  BY <1>2, <1>3
<1>5. Min({Len(a), Len(c)}) = Len(a)
  <2> DEFINE la == Len(a)
             lc == Len(c)
             S  == {la, lc}
  <2>0. la \in Nat /\ lc \in Nat /\ la <= lc
    BY <1>4
  <2> HIDE DEF la, lc
  <2>1. S \in SUBSET Nat /\ S # {} /\ la \in S /\ \A z \in S : z = la \/ z = lc
    BY <2>0
  <2> HIDE DEF S
  <2>2. Min(S) \in S /\ \A z \in S : Min(S) <= z
    BY <2>1, MinFacts
  <2> DEFINE z == Min(S)
  <2>3. (z = la \/ z = lc) /\ z <= la
    BY <2>1, <2>2
  <2> HIDE DEF z
  <2>4. z = la
    BY <2>0, <2>3
  <2> QED BY <2>4 DEF z, S, la, lc
<1> QED BY <1>4, <1>5 DEF a, c, x

LEMMA BegunFacts ==
    ASSUME OnlyBytes, SoundFrames, Tracked, NEW k \in Nat
    PROVE  /\ Begun(k) \in 0..Len(coming)
           /\ \A i \in (Begun(k) + 1)..Len(coming) : coming[i].first > k
<1> DEFINE n == Len(coming)
           S == {0} \cup {i \in DOMAIN coming : coming[i].first <= k}
<1>1. n \in Nat /\ DOMAIN coming = 1..n /\ \A i \in 1..n : coming[i].first \in Int
  BY TrackedTypes
<1> HIDE DEF n
<1>2. S \in SUBSET (0..n) /\ S # {}
  BY <1>1
<1> HIDE DEF S
<1>3. Max(S) \in S /\ \A x \in S : x <= Max(S)
  BY <1>1, <1>2, MaxFacts
<1>4. Begun(k) = Max(S)
  BY DEF Begun, S
<1>5. Begun(k) \in 0..n /\ \A x \in S : x <= Begun(k)
  BY <1>2, <1>3, <1>4
<1>6. ASSUME NEW i \in (Begun(k) + 1)..n PROVE coming[i].first > k
  <2>1. i \in 1..n /\ ~(i <= Begun(k))
    BY <1>1, <1>5
  <2>2. i \notin S
    BY <1>5, <2>1
  <2>3. ~(coming[i].first <= k)
    BY <1>1, <2>1, <2>2 DEF S
  <2> QED BY <1>1, <2>1, <2>3
<1> QED BY <1>5, <1>6 DEF n

LEMMA TrackedRaises ==
    ASSUME OnlyBytes, SoundFrames, Tracked, OnlySentDecode, CallbackRaises
    PROVE  Tracked' /\ (applied = owed => applied' = owed')
<1>1. PICK k \in DOMAIN wire :
        \E n \in DOMAIN ExtractMessages(Got(k)).messages :
          LET messages == ExtractMessages(Got(k)).messages
              done     == Len(Carried(SubSeq(messages, 1, n)))
          IN  /\ Apply(SubSeq(messages, 1, n))
              /\ owed' = owed \o SubSeq(Completed(k), 1, Min({done, Len(Completed(k))}))
              /\ Arrives(k, Begun(k))
  BY DEF CallbackRaises, Got
<1> DEFINE p == Got(k)
           N == Ended(k)
           L == Len(coming)
<1>2. k \in 1..Len(wire)
  BY DEF OnlyBytes
<1>3. p \in Seq(Bytes) /\ Len(p) = Len(buffer) + k
  BY <1>2, GotFacts
<1>4. N \in 0..L
  BY <1>2, EndedHere DEF EndedAt
<1>5. Among(p, Spots, L, N)
  BY <1>2, AmongArrived
<1> HIDE DEF N, L
<1>6. PICK ms \in Seq(Messages), r \in 1..(Len(p) + 1) :
        /\ ExtractMessages(p) = [messages |-> ms, rest |-> From(p, r)]
        /\ Carried(ms) = Carry(Spots, 0, N)
  <2> HIDE DEF p
  <2>1. Yields(p, Spots, L, N, 0, ExtractMessages(p))
    BY <1>3, <1>5, ExtractYields
  <2> QED BY <2>1 DEF Yields
<1>7. Carried(ms) = Completed(k)
  BY <1>4, <1>6, SpotsCarry DEF N, L
<1>8. ExtractMessages(Got(k)).messages = ms
  BY <1>6
<1> HIDE DEF p
<1>9. PICK n \in DOMAIN ms :
        LET done == Len(Carried(SubSeq(ms, 1, n)))
        IN  /\ Apply(SubSeq(ms, 1, n))
            /\ owed' = owed \o SubSeq(Completed(k), 1, Min({done, Len(Completed(k))}))
            /\ Arrives(k, Begun(k))
  BY <1>1, <1>8
<1> DEFINE a == Carried(SubSeq(ms, 1, n))
<1>10. /\ applied' = applied \o a
       /\ owed' = owed \o SubSeq(Completed(k), 1, Min({Len(a), Len(Completed(k))}))
       /\ wire' = From(wire, k + 1) /\ coming' = Behind(coming, k, Begun(k))
  <2>1. /\ Apply(SubSeq(ms, 1, n)) /\ Arrives(k, Begun(k))
        /\ owed' = owed \o SubSeq(Completed(k), 1, Min({Len(a), Len(Completed(k))}))
    BY <1>9
  <2> QED BY <2>1, Zenon DEF Apply, Arrives, Behind
<1>11. a = SubSeq(Completed(k), 1, Min({Len(a), Len(Completed(k))}))
  <2>1. n \in 1..Len(ms)
    OBVIOUS
  <2> QED BY <1>7, <2>1, PartCarried
<1> HIDE DEF a
<1>12. applied = owed => applied' = owed'
  BY <1>10, <1>11
<1>13. Tracked'
  <2> DEFINE s == Len(buffer) + k + 1
  <2>1. /\ s \in 1..(Len(buffer) + k + 1) /\ Len(buffer) \in Nat /\ k \in Nat
        /\ \A i \in 1..Len(coming) : coming[i].first \in Int
    BY <1>2, TrackedTypes
  <2>2. buffer' = From(Got(k), s)
    <3>1. buffer' = <<>>
      BY DEF CallbackRaises
    <3>2. From(p, s) = <<>>
      <4>1. Len(p) = Len(buffer) + k
        BY <1>3
      <4> DEFINE l == Len(p)
      <4>2. l \in Nat /\ s = l + 1
        BY <2>1, <4>1
      <4> HIDE DEF l, s
      <4>3. SubSeq(p, s, l) = <<>>
        BY <4>2
      <4> QED BY <4>3 DEF From, l
    <3> QED BY <3>1, <3>2 DEF p
  <2>3. /\ Begun(k) \in 0..Len(coming)
        /\ \A i \in (Begun(k) + 1)..Len(coming) : coming[i].first > k
    BY <2>1, BegunFacts
  <2>4. \A i \in (Begun(k) + 1)..Len(coming) : s <= Len(buffer) + coming[i].first
    <3> SUFFICES ASSUME NEW i \in (Begun(k) + 1)..Len(coming)
                 PROVE  s <= Len(buffer) + coming[i].first
      OBVIOUS
    <3>1. i \in 1..Len(coming) /\ coming[i].first > k
      BY <2>3
    <3> QED BY <2>1, <3>1
  <2> HIDE DEF s
  <2> QED BY <1>2, <1>10, <2>1, <2>2, <2>3, <2>4, TrackedArrives DEF s
<1> QED BY <1>12, <1>13

LEMMA TrackedNext ==
    ASSUME OnlyBytes, SoundFrames, Tracked, OnlySentDecode, EveryFrameOnce, [Next]_vars
    PROVE  Tracked' /\ EveryFrameOnce'
<1> USE DEF EveryFrameOnce
<1>1. CASE ScaleSends
  BY <1>1, TrackedSends DEF ScaleSends
<1>2. CASE DamagedSent
  BY <1>2, TrackedDamaged DEF DamagedSent
<1>3. CASE Receive
  BY <1>3, TrackedReceives
<1>4. CASE CallbackRaises
  BY <1>4, TrackedRaises
<1>5. CASE Reconnects
  <2>1. coming' = <<>> /\ UNCHANGED <<applied, owed>>
    BY <1>5 DEF Reconnects
  <2> QED BY <2>1 DEF Tracked, InOrder, Inside
<1>6. CASE UNCHANGED vars
  BY <1>6 DEF vars, Tracked
<1> QED BY <1>1, <1>2, <1>3, <1>4, <1>5, <1>6 DEF Next

\* Whatever disturbs the link: as long as the sums catch what is no frame of the
\* scale's, every frame that arrives whole is applied once, in order and with the
\* notification that completes it, and nothing else is; the weight and the
\* settings are those of the last frame that has them.
THEOREM SentFramesOnce ==
    ASSUME SoundFrames
    PROVE  Spec /\ []OnlySentDecode => [](EveryFrameOnce /\ LatestValues)
<1> DEFINE I == OnlyBytes /\ BufferIsFragment /\ Tracked /\ EveryFrameOnce
<1>1. Init => I
  BY FramesAssumption DEF Init, OnlyBytes, BufferIsFragment, Tracked, InOrder, Inside, EveryFrameOnce
<1>2. I /\ OnlySentDecode /\ [Next]_vars => I'
  BY TrackedNext, NextBytes
<1>3. I => EveryFrameOnce
  OBVIOUS
<1>4. Spec => [](EveryFrameOnce => LatestValues)
  BY LatestKept
<1> QED BY <1>1, <1>2, <1>3, <1>4, PTL DEF Spec

===============================================================================
