-------------------------- MODULE FrameStreamProofs --------------------------
(***************************************************************************)
(* What FrameStream shows of one set of frames, for every one.             *)
(*                                                                         *)
(* KeepsFragment: whatever arrives, what is kept is the beginning of one   *)
(* frame.  It needs that the loop ends and what one pass of it yields.     *)
(*                                                                         *)
(* FramesOnce: while nothing disturbs the link, frames are put together    *)
(* whole, once and in order.  The invariant is Line: what the buffer and   *)
(* the wire have together is frames behind each other, and the first is    *)
(* the only one with bytes in the buffer.                                  *)
(*                                                                         *)
(* LatestKept: the weight and the settings are the last ones applied,      *)
(* which is an induction over the messages of each notification.           *)
(*                                                                         *)
(* EncodedIsWhole: the frames that encode makes, of every length, are what *)
(* FramesOnce presumes.                                                    *)
(***************************************************************************)
EXTENDS FrameStream, ParserProofs

-----------------------------------------------------------------------------
(* The loop of _extract_messages.                                            *)

LEMMA HeadersFacts ==
    ASSUME NEW p \in Seq(Bytes), NEW i \in Nat, Headers(p, i) # {}
    PROVE  /\ Min(Headers(p, i)) \in Headers(p, i)
           /\ Min(Headers(p, i)) \in i..(Len(p) - 1)
           /\ \A j \in Headers(p, i) : Min(Headers(p, i)) <= j
<1>1. Headers(p, i) \in SUBSET Nat /\ Headers(p, i) \subseteq i..(Len(p) - 1)
  BY DEF Headers
<1> QED BY <1>1, MinFacts

LEMMA NextFramesFacts ==
    ASSUME NEW p \in Seq(Bytes), NEW s \in Nat, NextFrames(p, s) # {}
    PROVE  /\ Min(NextFrames(p, s)) \in NextFrames(p, s)
           /\ Min(NextFrames(p, s)) \in (s + 2)..(Len(p) - 1)
<1>1. NextFrames(p, s) \in SUBSET Nat /\ NextFrames(p, s) \subseteq (s + 2)..(Len(p) - 1)
  BY DEF NextFrames, Headers
<1> QED BY <1>1, MinFacts

\* A pass looks at the passes behind its first byte only.
LEMMA PassLooksBehind ==
    ASSUME NEW p \in Seq(Bytes), NEW i \in Nat, NEW g, NEW h,
           \A j \in Nat : j > i => g[j] = h[j]
    PROVE  Pass(p, i, g) = Pass(p, i, h)
<1> DEFINE s == Min(Headers(p, i))
<1>1. CASE Headers(p, i) = {}
  BY <1>1 DEF Pass
<1>2. CASE Headers(p, i) # {}
  <2>1. s \in Nat /\ s >= i
    BY <1>2, HeadersFacts
  <2> HIDE DEF s
  <2>2. g[s + 2] = h[s + 2]
    BY <2>1
  <2>3. ~TooShort(p, s) => g[s + FrameLength(p, s)] = h[s + FrameLength(p, s)]
    BY <2>1, FrameLengthFacts DEF FRAME_OVERHEAD
  <2>4. NextFrames(p, s) # {} => g[Min(NextFrames(p, s))] = h[Min(NextFrames(p, s))]
    BY <2>1, NextFramesFacts
  <2> QED BY <1>2, <2>2, <2>3, <2>4 DEF Pass, s
<1> QED BY <1>1, <1>2

LEMMA NoHeaders ==
    ASSUME NEW p \in Seq(Bytes), NEW i \in Nat, i > Len(p)
    PROVE  Headers(p, i) = {}
  BY DEF Headers

\* There is a function that the loop describes, built from the end of p on.
LEMMA LoopExists ==
    ASSUME NEW p \in Seq(Bytes)
    PROVE  \E g : g = [i \in Nat |-> Pass(p, i, g)]
<1> DEFINE Partial(k, g) == \A i \in Nat : i + k > Len(p) => g[i] = Pass(p, i, g)
           T == {k \in Nat : \E g : Partial(k, g)}
           n == Len(p) + 1
<1>0. n \in Nat
  OBVIOUS
<1>1. 0 \in T
  <2> DEFINE g == [i \in Nat |-> Pass(p, i, <<>>)]
  <2>1. ASSUME NEW i \in Nat, i > Len(p) PROVE Pass(p, i, <<>>) = Pass(p, i, g)
    BY <2>1, NoHeaders DEF Pass
  <2>2. \A i \in Nat : i + 0 > Len(p) => g[i] = Pass(p, i, g)
    BY <2>1
  <2> HIDE DEF g
  <2>3. Partial(0, g)
    BY <2>2
  <2> QED BY <2>3
<1>2. ASSUME NEW k \in 1..n, k - 1 \in T PROVE k \in T
  <2>1. PICK g : Partial(k - 1, g)
    BY <1>2
  <2> DEFINE m == Len(p) + 1 - k
             h == [i \in Nat |-> IF i = m THEN Pass(p, m, g) ELSE g[i]]
  <2>2. m \in Nat
    OBVIOUS
  <2>3. ASSUME NEW i \in Nat, i >= m PROVE Pass(p, i, h) = Pass(p, i, g)
    <3>1. \A j \in Nat : j > i => h[j] = g[j]
      BY <2>2, <2>3
    <3> HIDE DEF h
    <3> QED BY <3>1, PassLooksBehind
  <2>4. ASSUME NEW i \in Nat, i + k > Len(p) PROVE h[i] = Pass(p, i, h)
    <3>1. i >= m
      BY <2>4
    <3>2. CASE i = m
      BY <3>1, <3>2, <2>3
    <3>3. CASE i # m
      <4>1. i + (k - 1) > Len(p)
        BY <3>1, <3>3
      <4>2. g[i] = Pass(p, i, g)
        BY <2>1, <4>1
      <4> QED BY <4>2, <3>1, <3>3, <2>3
    <3> QED BY <3>2, <3>3
  <2> HIDE DEF h, m
  <2>5. Partial(k, h)
    BY <2>4
  <2> QED BY <2>5
<1>3. n \in T
  <2> HIDE DEF T, n
  <2> QED BY <1>0, <1>1, <1>2, UpTo
<1>4. PICK g : Partial(n, g)
  BY <1>3
<1> DEFINE h == [i \in Nat |-> Pass(p, i, g)]
<1>5. \A i \in Nat : h[i] = g[i]
  BY <1>4
<1>6. ASSUME NEW i \in Nat PROVE Pass(p, i, g) = Pass(p, i, h)
  <2> HIDE DEF h
  <2> QED BY <1>5, PassLooksBehind
<1>7. h = [i \in Nat |-> Pass(p, i, h)]
  BY <1>6
<1> QED BY <1>7

\* g gives what the passes of the loop on p give, each from its first byte on.
Loop(p, g) == \A i \in Nat : g[i] = Pass(p, i, g)

LEMMA LoopFacts ==
    ASSUME NEW p \in Seq(Bytes)
    PROVE  \E g : Loop(p, g) /\ ExtractMessages(p) = g[1]
<1> DEFINE g == CHOOSE g : g = [i \in Nat |-> Pass(p, i, g)]
<1>1. g = [i \in Nat |-> Pass(p, i, g)]
  BY LoopExists
<1>2. ExtractMessages(p) = g[1]
  BY DEF ExtractMessages
<1> HIDE DEF g
<1>3. \A i \in Nat : g[i] = Pass(p, i, g)
  BY <1>1
<1> QED BY <1>2, <1>3 DEF Loop

-----------------------------------------------------------------------------
(* What is kept is a fragment.                                               *)

\* The frame at s.
FrameAt(p, s) == SubSeq(p, s, s + FrameLength(p, s) - 1)

\* Decoding looks at the bytes of the frame only.
LEMMA DecodeSame ==
    ASSUME NEW p, NEW s, NEW q, NEW j, FrameAt(p, s) = FrameAt(q, j)
    PROVE  Decode(p, s) = Decode(q, j)
  BY Zenon DEF Decode, FrameAt

\* The same bytes from s and from j on, and what is read there.
SameBytes(p, s, q, j) ==
    /\ Available(p, s) = Available(q, j)
    /\ \A k \in 0..(Available(p, s) - 1) : p[s + k] = q[j + k]

ReadAlike(p, s, q, j) ==
    /\ TooShort(p, s) <=> TooShort(q, j)
    /\ ~TooShort(p, s) => /\ FrameLength(p, s) = FrameLength(q, j)
                          /\ TooLong(p, s) <=> TooLong(q, j)
                          /\ ~TooLong(p, s) => Decode(p, s) = Decode(q, j)

\* The same frame in two places is read in the same way.
LEMMA SameFrame ==
    ASSUME NEW p \in Seq(Bytes), NEW s \in 1..Len(p), NEW q \in Seq(Bytes), NEW j \in 1..Len(q),
           SameBytes(p, s, q, j)
    PROVE  ReadAlike(p, s, q, j)
<1>0. /\ Available(p, s) = Available(q, j)
      /\ \A k \in 0..(Available(p, s) - 1) : p[s + k] = q[j + k]
  BY DEF SameBytes
<1>1. TooShort(p, s) <=> TooShort(q, j)
  BY <1>0 DEF TooShort
<1>2. ASSUME ~TooShort(p, s) PROVE FrameLength(p, s) = FrameLength(q, j)
  <2>1. p[s + 3] = q[j + 3]
    BY <1>0, <1>2 DEF TooShort, Available, MIN_FRAME_LENGTH
  <2> QED BY <2>1 DEF FrameLength
<1>3. ASSUME ~TooShort(p, s) PROVE TooLong(p, s) <=> TooLong(q, j)
  BY <1>0, <1>2, <1>3 DEF TooLong
<1>4. ASSUME ~TooShort(p, s), ~TooLong(p, s) PROVE Decode(p, s) = Decode(q, j)
  <2> DEFINE n == FrameLength(p, s)
  <2>1. n \in Nat /\ n = FrameLength(q, j)
    BY <1>2, <1>4, FrameLengthFacts
  <2>2. n <= Available(p, s) /\ n <= Available(q, j)
    <3>1. Available(p, s) \in Int /\ Available(q, j) \in Int
      BY DEF Available
    <3>2. ~(Available(p, s) < n)
      BY <1>4 DEF TooLong
    <3> HIDE DEF n
    <3> QED BY <1>0, <2>1, <3>1, <3>2
  <2> HIDE DEF n
  <2>3. \A k \in 1..n : s + k - 1 \in 1..Len(p) /\ j + k - 1 \in 1..Len(q)
    BY <2>1, <2>2 DEF Available
  <2>4. \A k \in 1..n : p[s + k - 1] = q[j + k - 1]
    <3> SUFFICES ASSUME NEW k \in 1..n PROVE p[s + k - 1] = q[j + k - 1]
      OBVIOUS
    <3>1. k - 1 \in 0..(Available(p, s) - 1) /\ s + (k - 1) = s + k - 1 /\ j + (k - 1) = j + k - 1
      BY <2>1, <2>2 DEF Available
    <3> QED BY <1>0, <3>1
  <2>5. /\ SubSeq(p, s, s + n - 1) = [k \in 1..n |-> p[s + k - 1]]
        /\ SubSeq(q, j, j + n - 1) = [k \in 1..n |-> q[j + k - 1]]
    <3>1. (s + n - 1) - s + 1 = n /\ (j + n - 1) - j + 1 = n
      BY <2>1
    <3>2. \A k \in 1..n : k + s - 1 = s + k - 1 /\ k + j - 1 = j + k - 1
      BY <2>1
    <3>3. SubSeq(p, s, s + n - 1) = [k \in 1..((s + n - 1) - s + 1) |-> p[k + s - 1]]
      BY <2>1
    <3>4. SubSeq(q, j, j + n - 1) = [k \in 1..((j + n - 1) - j + 1) |-> q[k + j - 1]]
      BY <2>1
    <3> QED BY <3>1, <3>2, <3>3, <3>4
  <2>6. SubSeq(p, s, s + n - 1) = SubSeq(q, j, j + n - 1)
    BY <2>4, <2>5
  <2>7. FrameAt(p, s) = FrameAt(q, j)
    BY <2>1, <2>6, Zenon DEF n, FrameAt
  <2> QED BY <2>7, DecodeSame
<1> QED BY <1>1, <1>2, <1>3, <1>4 DEF ReadAlike

\* From s on, p is read as From(p, s) is.
LEMMA SameFrom ==
    ASSUME NEW p \in Seq(Bytes), NEW s \in 1..Len(p), NEW j \in 1..(Len(p) - s + 1)
    PROVE  ReadAlike(From(p, s), j, p, j + s - 1)
<1> DEFINE q == From(p, s)
           t == j + s - 1
<1>1. /\ q \in Seq(Bytes) /\ Len(q) = Len(p) - s + 1
      /\ \A k \in 1..(Len(p) - s + 1) : q[k] = p[k + s - 1]
  <2> s \in 1..(Len(p) + 1)
    OBVIOUS
  <2> QED BY FromFacts
<1> HIDE DEF q
<1>2. t \in 1..Len(p) /\ j \in 1..Len(q)
  BY <1>1
<1>3. Available(q, j) = Available(p, t)
  BY <1>1 DEF Available
<1>4. \A k \in 0..(Available(q, j) - 1) : q[j + k] = p[t + k]
  BY <1>1, <1>2 DEF Available
<1> HIDE DEF t
<1>5. SameBytes(q, j, p, t)
  BY <1>3, <1>4 DEF SameBytes
<1>6. ReadAlike(q, j, p, t)
  BY <1>1, <1>2, <1>5, SameFrame
<1> QED BY <1>6 DEF q, t

\* The headers behind the one at s are those behind the first one of the bytes
\* from s on.
LEMMA NextFramesFrom ==
    ASSUME NEW p \in Seq(Bytes), NEW s \in 1..Len(p)
    PROVE  NextFrames(From(p, s), 1) = {} <=> NextFrames(p, s) = {}
<1> DEFINE q == From(p, s)
<1>1. /\ Len(q) = Len(p) - s + 1
      /\ \A k \in 1..(Len(p) - s + 1) : q[k] = p[k + s - 1]
  <2> s \in 1..(Len(p) + 1)
    OBVIOUS
  <2> QED BY FromFacts
<1>2. ASSUME NEW j \in 3..(Len(p) - s)
      PROVE  j \in NextFrames(q, 1) <=> j + s - 1 \in NextFrames(p, s)
  <2>1. j \in 1..(Len(p) - s + 1) /\ j + 1 \in 1..(Len(p) - s + 1)
    OBVIOUS
  <2>2. q[j] = p[j + s - 1] /\ q[j + 1] = p[j + s - 1 + 1]
    <3>1. q[j] = p[j + s - 1] /\ q[j + 1] = p[(j + 1) + s - 1]
      BY <1>1, <2>1
    <3>2. (j + 1) + s - 1 = j + s - 1 + 1
      OBVIOUS
    <3> QED BY <3>1, <3>2
  <2> DEFINE t == j + s - 1
  <2>3. ReadAlike(q, j, p, t)
    BY <2>1, SameFrom
  <2>4. j \in (1 + 2)..(Len(q) - 1) /\ t \in (s + 2)..(Len(p) - 1)
    BY <1>1
  <2> HIDE DEF q, t
  <2>5. q[j] = p[t] /\ q[j + 1] = p[t + 1]
    BY <2>2 DEF t
  <2> QED BY <2>3, <2>4, <2>5 DEF ReadAlike, NextFrames, Headers, t
<1>3. \A j \in NextFrames(q, 1) : j \in 3..(Len(p) - s)
  BY <1>1 DEF NextFrames, Headers
<1>4. \A t \in NextFrames(p, s) : t - s + 1 \in 3..(Len(p) - s) /\ t = (t - s + 1) + s - 1
  BY DEF NextFrames, Headers
<1> HIDE DEF q
<1>5. NextFrames(p, s) = {} => NextFrames(q, 1) = {}
  BY <1>2, <1>3
<1>6. NextFrames(q, 1) = {} => NextFrames(p, s) = {}
  BY <1>2, <1>4
<1> QED BY <1>5, <1>6 DEF q

\* What BufferIsFragment says of r.
Fragment(r) ==
    \/ r \in {<<>>, <<HEADER1>>}
    \/ /\ 1 \in Headers(r, 1)
       /\ TooShort(r, 1) \/ (TooLong(r, 1) /\ NextFrames(r, 1) = {})

\* From a header whose frame is not all there, the bytes are a fragment.
LEMMA FragmentFrom ==
    ASSUME NEW p \in Seq(Bytes), NEW i \in Nat \ {0}, NEW s \in Headers(p, i),
           TooShort(p, s) \/ (TooLong(p, s) /\ NextFrames(p, s) = {})
    PROVE  From(p, s) \in Seq(Bytes) /\ Fragment(From(p, s))
<1> DEFINE q == From(p, s)
<1>1. s \in 1..(Len(p) - 1) /\ p[s] = HEADER1 /\ p[s + 1] = HEADER2
  BY DEF Headers
<1>2. s \in 1..Len(p) /\ s \in 1..(Len(p) + 1)
  BY <1>1
<1>3. /\ q \in Seq(Bytes) /\ Len(q) = Len(p) - s + 1
      /\ \A k \in 1..(Len(p) - s + 1) : q[k] = p[k + s - 1]
  BY <1>2, FromFacts
<1>4. 1 \in 1..(Len(p) - s + 1) /\ 1 + s - 1 = s
  BY <1>2
<1>5. /\ TooShort(q, 1) <=> TooShort(p, s)
      /\ ~TooShort(q, 1) => (TooLong(q, 1) <=> TooLong(p, s))
  <2> HIDE DEF q
  <2>1. LET t == 1 + s - 1
        IN  /\ TooShort(q, 1) <=> TooShort(p, t)
            /\ ~TooShort(q, 1) => (TooLong(q, 1) <=> TooLong(p, t))
    <3>1. ReadAlike(q, 1, p, 1 + s - 1)
      BY <1>2, <1>4, SameFrom DEF q
    <3> QED BY <3>1 DEF ReadAlike
  <2> QED BY <1>4, <2>1
<1>6. NextFrames(p, s) = {} => NextFrames(q, 1) = {}
  BY <1>2, NextFramesFrom
<1> HIDE DEF q
<1>7. 1 \in Headers(q, 1)
  <2>1. 1 \in 1..(Len(p) - s + 1) /\ 1 + 1 \in 1..(Len(p) - s + 1) /\ 1 \in 1..(Len(q) - 1)
    BY <1>1, <1>3
  <2>2. q[1] = p[1 + s - 1] /\ q[1 + 1] = p[(1 + 1) + s - 1]
    BY <1>3, <2>1
  <2>3. 1 + s - 1 = s /\ (1 + 1) + s - 1 = s + 1
    BY <1>1
  <2> QED BY <1>1, <2>1, <2>2, <2>3 DEF Headers
<1>8. Fragment(q)
  BY <1>5, <1>6, <1>7 DEF Fragment
<1> QED BY <1>3, <1>8 DEF q

LEMMA UnframedFragment ==
    ASSUME NEW p \in Seq(Bytes), NEW i \in Nat
    PROVE  Unframed(p, i) \in Seq(Bytes) /\ Fragment(Unframed(p, i))
<1>1. Unframed(p, i) \in {<<>>, <<HEADER1>>}
  BY DEF Unframed
<1>2. HEADER1 \in Bytes
  BY DEF HEADER1, Bytes
<1>3. <<>> \in Seq(Bytes) /\ <<HEADER1>> \in Seq(Bytes)
  BY <1>2
<1> QED BY <1>1, <1>3 DEF Fragment

Decoded(p) == {m \in Message : \E s \in Nat : m = Decode(p, s)}

\* What a pass gives: messages that were decoded and a fragment to keep.
Result(p, x) ==
    \E m \in Seq(Decoded(p)), r \in Seq(Bytes) :
      x = [messages |-> m, rest |-> r] /\ Fragment(r)

LEMMA KeepsResult ==
    ASSUME NEW p, NEW r \in Seq(Bytes), Fragment(r)
    PROVE  Result(p, [messages |-> <<>>, rest |-> r])
<1>1. <<>> \in Seq(Decoded(p))
  OBVIOUS
<1> QED BY <1>1 DEF Result

LEMMA YieldsResult ==
    ASSUME NEW p, NEW d \in Decoded(p), NEW x, Result(p, x)
    PROVE  Result(p, [x EXCEPT !.messages = <<d>> \o @])
<1>1. PICK m \in Seq(Decoded(p)), r \in Seq(Bytes) : x = [messages |-> m, rest |-> r] /\ Fragment(r)
  BY DEF Result
<1> DEFINE e == <<d>> \o m
<1>2. [x EXCEPT !.messages = <<d>> \o @] = [messages |-> e, rest |-> r]
  <2>1. x.messages = m
    BY <1>1
  <2> HIDE DEF e
  <2>2. [x EXCEPT !.messages = e] = [messages |-> e, rest |-> r]
    BY <1>1
  <2> QED BY <2>1, <2>2 DEF e
<1>3. <<d>> \o m \in Seq(Decoded(p))
  OBVIOUS
<1> QED BY <1>1, <1>2, <1>3 DEF Result

LEMMA PassResult ==
    ASSUME NEW p \in Seq(Bytes), NEW i \in Nat \ {0}, NEW g,
           \A j \in Nat : j > i => Result(p, g[j])
    PROVE  Result(p, Pass(p, i, g))
<1> DEFINE s == Min(Headers(p, i))
<1>1. CASE Headers(p, i) = {}
  <2>1. Pass(p, i, g) = [messages |-> <<>>, rest |-> Unframed(p, i)]
    BY <1>1 DEF Pass
  <2> QED BY <2>1, UnframedFragment, KeepsResult
<1>2. CASE Headers(p, i) # {}
  <2>1. s \in Headers(p, i) /\ s \in Nat \ {0} /\ s >= i
    BY <1>2, HeadersFacts
  <2> HIDE DEF s
  <2>2. CASE TooShort(p, s) \/ (TooLong(p, s) /\ NextFrames(p, s) = {})
    <3>1. Pass(p, i, g) = [messages |-> <<>>, rest |-> From(p, s)]
      BY <1>2, <2>2 DEF Pass, s
    <3>2. From(p, s) \in Seq(Bytes) /\ Fragment(From(p, s))
      BY <2>1, <2>2, FragmentFrom
    <3> QED BY <3>1, <3>2, KeepsResult
  <2>3. CASE ~TooShort(p, s) /\ TooLong(p, s) /\ NextFrames(p, s) # {}
    <3>1. Pass(p, i, g) = g[Min(NextFrames(p, s))]
      BY <1>2, <2>3 DEF Pass, s
    <3>2. Min(NextFrames(p, s)) \in Nat /\ Min(NextFrames(p, s)) > i
      BY <2>1, <2>3, NextFramesFacts
    <3> QED BY <3>1, <3>2
  <2>4. CASE ~TooShort(p, s) /\ ~TooLong(p, s)
    <3>1. CASE Decode(p, s) = Error
      <4>1. Pass(p, i, g) = g[s + 2]
        BY <1>2, <2>4, <3>1 DEF Pass, s
      <4> QED BY <4>1, <2>1
    <3>2. CASE Decode(p, s) # Error
      <4> DEFINE t == s + FrameLength(p, s)
      <4>1. t \in Nat /\ t > i
        BY <2>1, <2>4, FrameLengthFacts DEF FRAME_OVERHEAD
      <4>2. Pass(p, i, g) = [g[t] EXCEPT !.messages = <<Decode(p, s)>> \o @]
        BY <1>2, <2>4, <3>2 DEF Pass, s
      <4> HIDE DEF t
      <4>3. Decode(p, s) \in Decoded(p)
        <5>1. Decode(p, s) \in Message \cup {Error}
          BY <2>1, <2>4, DecodeTyped
        <5> QED BY <2>1, <3>2, <5>1 DEF Decoded
      <4>4. Result(p, g[t])
        BY <4>1
      <4>5. Result(p, [g[t] EXCEPT !.messages = <<Decode(p, s)>> \o @])
        BY <4>3, <4>4, YieldsResult
      <4> QED BY <4>2, <4>5, Zenon
    <3> QED BY <3>1, <3>2
  <2> QED BY <2>2, <2>3, <2>4
<1> QED BY <1>1, <1>2

LEMMA ExtractResult ==
    ASSUME NEW p \in Seq(Bytes)
    PROVE  Result(p, ExtractMessages(p))
<1>1. PICK g : Loop(p, g) /\ ExtractMessages(p) = g[1]
  BY LoopFacts
<1> DEFINE T == {k \in Nat : \A i \in Nat \ {0} : i + k > Len(p) => Result(p, g[i])}
<1>2. 0 \in T
  <2> SUFFICES ASSUME NEW i \in Nat \ {0}, i > Len(p) PROVE Result(p, g[i])
    OBVIOUS
  <2>1. g[i] = [messages |-> <<>>, rest |-> Unframed(p, i)]
    BY <1>1, NoHeaders DEF Loop, Pass
  <2> QED BY <2>1, UnframedFragment, KeepsResult
<1>3. ASSUME NEW k \in 1..Len(p), k - 1 \in T PROVE k \in T
  <2> SUFFICES ASSUME NEW i \in Nat \ {0}, i + k > Len(p) PROVE Result(p, g[i])
    OBVIOUS
  <2>1. ASSUME NEW j \in Nat, j > i PROVE Result(p, g[j])
    <3>1. j \in Nat \ {0} /\ j + (k - 1) > Len(p)
      BY <2>1
    <3> QED BY <1>3, <3>1
  <2>2. g[i] = Pass(p, i, g)
    BY <1>1 DEF Loop
  <2> QED BY <2>1, <2>2, PassResult
<1>4. Len(p) \in T
  <2> HIDE DEF T
  <2> QED BY <1>2, <1>3, UpTo
<1> QED BY <1>1, <1>4

-----------------------------------------------------------------------------
(* The buffer.                                                               *)

OnlyBytes == buffer \in Seq(Bytes) /\ wire \in Seq(Bytes) /\ sent \in 0..MaxFrames

LEMMA DamagesBytes ==
    ASSUME NEW f \in Seq(Bytes), Len(f) >= 4, NEW b \in Damages(f)
    PROVE  b \in Seq(Bytes)
<1>1. CASE b \in {SubSeq(f, 1, n) : n \in 1..(Len(f) - 1)}
  BY <1>1
<1>2. CASE b \in {[f EXCEPT ![4] = n] : n \in WrongLengths \ {f[4]}}
  BY <1>2, FramesAssumption
<1>3. CASE b \in {[f EXCEPT ![i] = (@ + 1) % 256] : i \in {1, 2} \cup (5..Len(f))}
  <2>1. PICK i \in {1, 2} \cup (5..Len(f)) : b = [f EXCEPT ![i] = (f[i] + 1) % 256]
    BY <1>3
  <2>2. f[i] \in Bytes
    OBVIOUS
  <2>3. \A c \in Bytes : (c + 1) % 256 \in Bytes
    BY DEF Bytes
  <2> QED BY <2>1, <2>2, <2>3
<1> QED BY <1>1, <1>2, <1>3 DEF Damages

LEMMA ArrivesBytes ==
    ASSUME OnlyBytes, NEW k \in DOMAIN wire
    PROVE  buffer \o SubSeq(wire, 1, k) \in Seq(Bytes) /\ From(wire, k + 1) \in Seq(Bytes)
<1>1. k + 1 \in 1..(Len(wire) + 1) /\ wire \in Seq(Bytes)
  BY DEF OnlyBytes
<1>2. From(wire, k + 1) \in Seq(Bytes)
  BY <1>1, FromFacts
<1>3. SubSeq(wire, 1, k) \in Seq(Bytes)
  BY <1>1
<1> QED BY <1>2, <1>3 DEF OnlyBytes

LEMMA NextBytes ==
    ASSUME OnlyBytes, BufferIsFragment, [Next]_vars
    PROVE  OnlyBytes' /\ BufferIsFragment'
<1> USE DEF OnlyBytes
<1>1. CASE ScaleSends
  <2>1. /\ sent < MaxFrames /\ sent' = sent + 1 /\ UNCHANGED buffer
        /\ \E f \in Frames[sent + 1] : wire' = wire \o f.bytes
    BY <1>1 DEF ScaleSends
  <2>2. PICK f \in Frames[sent + 1] : wire' = wire \o f.bytes
    BY <2>1
  <2>3. f.bytes \in Seq(Bytes) /\ sent' \in 0..MaxFrames
    BY <2>1, FramesAssumption
  <2>4. wire' \in Seq(Bytes)
    BY <2>2, <2>3
  <2> QED BY <2>1, <2>3, <2>4 DEF BufferIsFragment
<1>2. CASE DamagedSent
  <2>1. /\ sent < MaxFrames /\ sent' = sent + 1 /\ UNCHANGED buffer
        /\ \E f \in Frames[sent + 1] : \E bytes \in Damages(f.bytes) : wire' = wire \o bytes
    BY <1>2 DEF DamagedSent
  <2>2. PICK f \in Frames[sent + 1] : \E bytes \in Damages(f.bytes) : wire' = wire \o bytes
    BY <2>1
  <2>3. f.bytes \in Seq(Bytes) /\ Len(f.bytes) >= 4 /\ sent' \in 0..MaxFrames
    BY <2>1, FramesAssumption
  <2>4. wire' \in Seq(Bytes)
    BY <2>2, <2>3, DamagesBytes
  <2> QED BY <2>1, <2>3, <2>4 DEF BufferIsFragment
<1>3. CASE Receive
  <2>1. PICK k \in DOMAIN wire :
          /\ buffer' = ExtractMessages(buffer \o SubSeq(wire, 1, k)).rest
          /\ wire' = From(wire, k + 1) /\ sent' = sent
    BY <1>3 DEF Receive, Arrives
  <2> DEFINE p == buffer \o SubSeq(wire, 1, k)
  <2>2. p \in Seq(Bytes) /\ wire' \in Seq(Bytes)
    BY <2>1, ArrivesBytes
  <2> HIDE DEF p
  <2>3. PICK m \in Seq(Decoded(p)), r \in Seq(Bytes) :
          ExtractMessages(p) = [messages |-> m, rest |-> r] /\ Fragment(r)
    BY <2>2, ExtractResult DEF Result
  <2>4. buffer' = r
    BY <2>1, <2>3 DEF p
  <2>5. BufferIsFragment'
    BY <2>3, <2>4 DEF Fragment, BufferIsFragment
  <2> QED BY <2>1, <2>2, <2>4, <2>5
<1>4. CASE CallbackRaises
  <2>1. PICK k \in DOMAIN wire : wire' = From(wire, k + 1) /\ sent' = sent
    BY <1>4 DEF CallbackRaises, Arrives
  <2>2. buffer' = <<>>
    BY <1>4 DEF CallbackRaises
  <2>3. wire' \in Seq(Bytes)
    BY <2>1, ArrivesBytes
  <2> QED BY <2>1, <2>2, <2>3 DEF BufferIsFragment
<1>5. CASE Reconnects
  <2>1. UNCHANGED <<buffer, sent>> /\ wire' = <<>>
    BY <1>5 DEF Reconnects
  <2> QED BY <2>1 DEF BufferIsFragment
<1>6. CASE UNCHANGED vars
  BY <1>6 DEF vars, BufferIsFragment
<1> QED BY <1>1, <1>2, <1>3, <1>4, <1>5, <1>6 DEF Next

\* Whatever bytes arrive, cut and damaged in any way, _last_short_msg is never
\* garbage: it is the beginning of one frame, which lacks bytes.
THEOREM KeepsFragment == Spec => []BufferIsFragment
<1>1. Init => OnlyBytes /\ BufferIsFragment
  BY FramesAssumption DEF Init, OnlyBytes, BufferIsFragment
<1> QED BY <1>1, NextBytes, PTL DEF Spec

-----------------------------------------------------------------------------
(* Whole frames are extracted, each once and in order.                       *)

\* The frame f is in p from the s-th byte on.
WholeAt(p, s, f) ==
    /\ s \in 1..Len(p) /\ s + Len(f) - 1 <= Len(p)
    /\ \A k \in 1..Len(f) : p[s + k - 1] = f[k]

LEMMA WholeFrameAt ==
    ASSUME NEW f, SoundFrame(f), f.bytes \in Seq(Bytes),
           NEW p \in Seq(Bytes), NEW s, WholeAt(p, s, f.bytes)
    PROVE  /\ s \in Headers(p, s) /\ ~TooShort(p, s) /\ ~TooLong(p, s)
           /\ FrameLength(p, s) = Len(f.bytes) /\ Decode(p, s) = f.message
<1> DEFINE b == f.bytes
           n == Len(b)
<1>1. /\ b \in Seq(Bytes) /\ n \in Nat /\ n >= 6 /\ n = FrameLength(b, 1)
      /\ b[1] = HEADER1 /\ b[2] = HEADER2 /\ Decode(b, 1) = f.message
  BY DEF SoundFrame, MIN_FRAME_LENGTH
<1>2. s \in 1..Len(p) /\ s + n - 1 <= Len(p) /\ \A k \in 1..n : p[s + k - 1] = b[k]
  BY DEF WholeAt
<1> HIDE DEF n, b
<1>3. s \in Headers(p, s)
  <2>0. 1 \in 1..n /\ 2 \in 1..n
    BY <1>1
  <2>1. p[s + 1 - 1] = b[1] /\ p[s + 2 - 1] = b[2]
    BY <1>2, <2>0
  <2>2. s + 1 - 1 = s /\ s + 2 - 1 = s + 1 /\ s <= Len(p) - 1
    <3>1. s \in Int /\ Len(p) \in Int
      BY <1>2
    <3> QED BY <1>1, <1>2, <3>1
  <2> QED BY <1>1, <1>2, <2>1, <2>2 DEF Headers
<1>4. ~TooShort(p, s)
  BY <1>1, <1>2 DEF TooShort, Available, MIN_FRAME_LENGTH
<1>5. FrameLength(p, s) = n
  <2>1. p[s + 4 - 1] = b[4] /\ s + 4 - 1 = s + 3
    BY <1>1, <1>2
  <2> QED BY <1>1, <2>1 DEF FrameLength
<1>6. ~TooLong(p, s)
  BY <1>1, <1>2, <1>5 DEF TooLong, Available
<1>7. FrameAt(p, s) = FrameAt(b, 1)
  <2>1. SubSeq(p, s, s + n - 1) = [k \in 1..n |-> p[s + k - 1]]
    <3>1. n \in Nat /\ s \in Nat /\ s >= 1 /\ s + n - 1 <= Len(p)
      BY <1>1, <1>2
    <3> HIDE DEF n
    <3>2. (s + n - 1) - s + 1 = n
      BY <3>1
    <3>3. \A k \in 1..n : s + k - 1 = k + s - 1
      BY <3>1
    <3>4. SubSeq(p, s, s + n - 1) = [k \in 1..((s + n - 1) - s + 1) |-> p[k + s - 1]]
      BY <3>1
    <3> QED BY <3>2, <3>3, <3>4
  <2>2. SubSeq(b, 1, 1 + n - 1) = [k \in 1..n |-> b[k]]
    <3> DEFINE m == 1 + n - 1
    <3>1. m = n
      BY <1>1
    <3> QED BY <1>1, n = Len(b) DEF n
  <2>3. \A k \in 1..n : p[s + k - 1] = b[k]
    BY <1>2
  <2>4. [k \in 1..n |-> p[s + k - 1]] = [k \in 1..n |-> b[k]]
    BY <2>3
  <2> QED BY <1>1, <1>5, <2>1, <2>2, <2>4 DEF FrameAt
<1>8. Decode(p, s) = f.message
  BY <1>1, <1>7, DecodeSame
<1> QED BY <1>3, <1>4, <1>5, <1>6, <1>8 DEF n, b

LEMMA FirstHeader ==
    ASSUME NEW p \in Seq(Bytes), NEW s \in Nat, s \in Headers(p, s)
    PROVE  Headers(p, s) # {} /\ Min(Headers(p, s)) = s
<1>1. Headers(p, s) # {}
  OBVIOUS
<1>2. Min(Headers(p, s)) <= s /\ Min(Headers(p, s)) \in s..(Len(p) - 1)
  BY <1>1, HeadersFacts
<1> QED BY <1>1, <1>2

\* No more than the beginning of a frame is in p from the s-th byte on.
CutAt(p, s) ==
    \/ s = Len(p) + 1
    \/ s = Len(p) /\ p[s] = HEADER1
    \/ s \in Headers(p, s) /\ (TooShort(p, s) \/ (TooLong(p, s) /\ NextFrames(p, s) = {}))

LEMMA CutKept ==
    ASSUME NEW p \in Seq(Bytes), NEW s \in 1..(Len(p) + 1), CutAt(p, s), NEW g
    PROVE  Pass(p, s, g) = [messages |-> <<>>, rest |-> From(p, s)]
<1>1. CASE s = Len(p) + 1
  <2>1. Headers(p, s) = {} /\ Unframed(p, s) = <<>>
    BY <1>1 DEF Headers, Unframed
  <2>2. From(p, s) = <<>>
    <3>1. From(p, s) \in Seq(Bytes) /\ Len(From(p, s)) = Len(p) - s + 1
      BY FromFacts
    <3>2. Len(From(p, s)) = 0
      BY <1>1, <3>1
    <3> QED BY <3>1, <3>2
  <2> QED BY <2>1, <2>2 DEF Pass
<1>2. CASE s = Len(p) /\ p[s] = HEADER1
  <2>1. Headers(p, s) = {}
    BY <1>2 DEF Headers
  <2>2. Unframed(p, s) = <<HEADER1>>
    BY <1>2 DEF Unframed, Last
  <2>3. From(p, s) = <<HEADER1>>
    <3>1. From(p, s) \in Seq(Bytes) /\ Len(From(p, s)) = 1 /\ From(p, s)[1] = HEADER1
      <4>1. Len(p) - s + 1 = 1 /\ 1 + s - 1 = s /\ 1 \in 1..(Len(p) - s + 1)
        BY <1>2
      <4> QED BY <1>2, <4>1, FromFacts
    <3> QED BY <3>1
  <2> QED BY <2>1, <2>2, <2>3 DEF Pass
<1>3. CASE s \in Headers(p, s) /\ (TooShort(p, s) \/ (TooLong(p, s) /\ NextFrames(p, s) = {}))
  <2>1. Headers(p, s) # {} /\ Min(Headers(p, s)) = s
    BY <1>3, FirstHeader
  <2> QED BY <1>3, <2>1 DEF Pass
<1> QED BY <1>1, <1>2, <1>3 DEF CutAt

\* p is n whole frames, that begin at the bytes st and carry ms, and a cut one.
Framed(p, n, st, ms) ==
    /\ n \in Nat /\ st[1] = 1 /\ CutAt(p, st[n + 1])
    /\ \A i \in 1..(n + 1) : st[i] \in 1..(Len(p) + 1)
    /\ \A i \in 1..n : /\ st[i] \in Headers(p, st[i])
                       /\ ~TooShort(p, st[i]) /\ ~TooLong(p, st[i])
                       /\ st[i + 1] = st[i] + FrameLength(p, st[i])
                       /\ Decode(p, st[i]) = ms[i] /\ ms[i] # Error

LEMMA FramesExtracted ==
    ASSUME NEW p \in Seq(Bytes), NEW n, NEW st, NEW ms, Framed(p, n, st, ms)
    PROVE  ExtractMessages(p) =
             [messages |-> [i \in 1..n |-> ms[i]], rest |-> From(p, st[n + 1])]
<1>1. PICK g : Loop(p, g) /\ ExtractMessages(p) = g[1]
  BY LoopFacts
<1> DEFINE R(j) == [messages |-> [i \in 1..j |-> ms[n - j + i]], rest |-> From(p, st[n + 1])]
           T == {j \in 0..n : g[st[n + 1 - j]] = R(j)}
<1>2. n \in Nat
  BY DEF Framed
<1>3. 0 \in T
  <2>1. st[n + 1] \in 1..(Len(p) + 1) /\ CutAt(p, st[n + 1])
    BY <1>2 DEF Framed
  <2>2. g[st[n + 1]] = Pass(p, st[n + 1], g)
    BY <1>1, <2>1 DEF Loop
  <2>3. g[st[n + 1]] = [messages |-> <<>>, rest |-> From(p, st[n + 1])]
    BY <2>1, <2>2, CutKept
  <2>4. [i \in 1..0 |-> ms[n - 0 + i]] = <<>>
    OBVIOUS
  <2>5. n + 1 - 0 = n + 1
    BY <1>2
  <2> QED BY <1>2, <2>3, <2>4, <2>5
<1>4. ASSUME NEW j \in 1..n, j - 1 \in T PROVE j \in T
  <2> DEFINE i == n + 1 - j
             s == st[i]
             m == ms[i]
  <2>1. i \in 1..n /\ i + 1 = n + 1 - (j - 1)
    BY <1>2
  <2> HIDE DEF i
  <2>2. /\ s \in 1..(Len(p) + 1) /\ s \in Headers(p, s)
        /\ ~TooShort(p, s) /\ ~TooLong(p, s) /\ st[i + 1] = s + FrameLength(p, s)
        /\ Decode(p, s) = m /\ m # Error
    BY <2>1, <1>2 DEF Framed
  <2>3. g[st[i + 1]] = R(j - 1)
    BY <1>4, <2>1
  <2> HIDE DEF s, m
  <2>4. Headers(p, s) # {} /\ Min(Headers(p, s)) = s
    BY <2>2, FirstHeader
  <2>5. g[s] = [g[st[i + 1]] EXCEPT !.messages = <<m>> \o @]
    <3>1. g[s] = Pass(p, s, g)
      BY <1>1, <2>2 DEF Loop
    <3> QED BY <2>2, <2>4, <3>1 DEF Pass
  <2> DEFINE e == [k \in 1..(j - 1) |-> ms[n - (j - 1) + k]]
             f == [k \in 1..j |-> ms[n - j + k]]
  <2>6. <<m>> \o e = f
    <3>1. e \in Seq({ms[k] : k \in 1..n}) /\ Len(e) = j - 1
      <4>1. \A k \in 1..(j - 1) : n - (j - 1) + k \in 1..n
        BY <1>2
      <4>2. j - 1 \in Nat
        OBVIOUS
      <4> QED BY <4>1, <4>2
    <3>2. m = f[1]
      <4>1. 1 \in 1..j /\ n - j + 1 = i
        BY <1>2, <2>1 DEF i
      <4> QED BY <4>1 DEF m
    <3>3. \A k \in 2..j : f[k] = e[k - 1]
      <4> SUFFICES ASSUME NEW k \in 2..j PROVE f[k] = e[k - 1]
        OBVIOUS
      <4>1. k \in 1..j /\ k - 1 \in 1..(j - 1) /\ n - (j - 1) + (k - 1) = n - j + k
        BY <1>2
      <4> QED BY <4>1
    <3>4. \A k \in 1..j : (<<m>> \o e)[k] = IF k = 1 THEN m ELSE e[k - 1]
      <4> HIDE DEF e
      <4> QED BY <3>1
    <3>5. <<m>> \o e = [k \in 1..j |-> (<<m>> \o e)[k]]
      <4> HIDE DEF e
      <4> QED BY <3>1
    <3>6. \A k \in 1..j : (<<m>> \o e)[k] = f[k]
      <4> HIDE DEF e, f
      <4> SUFFICES ASSUME NEW k \in 1..j PROVE (<<m>> \o e)[k] = f[k]
        OBVIOUS
      <4>1. CASE k = 1
        BY <4>1, <3>2, <3>4
      <4>2. CASE k # 1
        <5>1. k \in 2..j
          BY <4>2
        <5> QED BY <5>1, <4>2, <3>3, <3>4
      <4> QED BY <4>1, <4>2
    <3>7. f = [k \in 1..j |-> f[k]]
      OBVIOUS
    <3> HIDE DEF e, f
    <3> QED BY <3>5, <3>6, <3>7
  <2>7. g[s] = [messages |-> f, rest |-> From(p, st[n + 1])]
    <3>1. g[st[i + 1]] = [messages |-> e, rest |-> From(p, st[n + 1])]
      BY <2>3
    <3> HIDE DEF e, f
    <3> DEFINE c == <<m>> \o e
    <3>2. g[s] = [messages |-> c, rest |-> From(p, st[n + 1])]
      <4>1. g[st[i + 1]].messages = e
        BY <3>1
      <4>2. g[s] = [g[st[i + 1]] EXCEPT !.messages = c]
        BY <2>5, <4>1, Zenon
      <4> HIDE DEF c
      <4> QED BY <3>1, <4>2
    <3> QED BY <2>6, <3>2
  <2> QED BY <2>7 DEF s, i
<1>5. n \in T
  <2> HIDE DEF T
  <2> QED BY <1>2, <1>3, <1>4, UpTo
<1>6. g[st[n + 1 - n]] = R(n)
  BY <1>5
<1>7. n + 1 - n = 1 /\ st[1] = 1
  BY <1>2 DEF Framed
<1>8. [i \in 1..n |-> ms[n - n + i]] = [i \in 1..n |-> ms[i]]
  <2>1. \A i \in 1..n : n - n + i = i
    BY <1>2
  <2> QED BY <2>1
<1> QED BY <1>1, <1>6, <1>7, <1>8

-----------------------------------------------------------------------------
(* The frames on an undisturbed link.                                        *)

\* So far nothing was damaged, no link was lost and no callback raised.
Undisturbed == damaged = 0 /\ breaks = 0

Coming == [first : Int, last : Int, message : SentMessage]

InOrder(c) ==
    /\ c \in Seq(Coming)
    /\ \A i, j \in DOMAIN c : i < j => c[i].last < c[j].first

\* The frames of c lie behind each other on a wire of m bytes; the first of them
\* has b bytes in the buffer, and lacks bytes.
InLine(b, m, c) ==
    /\ InOrder(c)
    /\ c = <<>> => b = 0 /\ m = 0
    /\ c # <<>> => c[1].first = 1 - b /\ c[1].last >= 1 /\ c[Len(c)].last = m
    /\ \A i \in 1..(Len(c) - 1) : c[i + 1].first = c[i].last + 1

\* The bytes of the frame c are in q, which begins b bytes before the wire.
Placed(q, b, c) ==
    \E i \in 1..MaxFrames : \E f \in Frames[i] :
      /\ c.message = f.message /\ c.last - c.first + 1 = Len(f.bytes)
      /\ \A j \in 1..Len(f.bytes) : q[b + c.first - 1 + j] = f.bytes[j]

\* What the buffer and the wire have is the frames that are coming, whole.
Line ==
    /\ InLine(Len(buffer), Len(wire), coming)
    /\ \A i \in DOMAIN coming : Placed(buffer \o wire, Len(buffer), coming[i])

\* The first n of the frames of c end with the k-th byte or before it.
EndedAt(c, k, n) ==
    /\ n \in 0..Len(c)
    /\ \A i \in 1..n : c[i].last <= k
    /\ \A i \in (n + 1)..Len(c) : c[i].last > k

LEMMA LineTypes ==
    ASSUME NEW c \in Seq(Coming)
    PROVE  /\ Len(c) \in Nat /\ DOMAIN c = 1..Len(c)
           /\ \A i \in 1..Len(c) : c[i].first \in Int /\ c[i].last \in Int /\ c[i] \in Coming
<1>1. \A d \in Coming : d.first \in Int /\ d.last \in Int
  BY DEF Coming
<1> QED BY <1>1

LEMMA EndedFacts ==
    ASSUME InOrder(coming), NEW k \in Nat,
           \A i \in DOMAIN coming : coming[i].first <= coming[i].last
    PROVE  EndedAt(coming, k, Ended(k))
<1> DEFINE n == Len(coming)
           S == {0} \cup {i \in DOMAIN coming : coming[i].last <= k}
<1>1. n \in Nat /\ DOMAIN coming = 1..n
      /\ \A i \in 1..n : coming[i].first \in Int /\ coming[i].last \in Int
  BY LineTypes DEF InOrder
<1>2. S \in SUBSET (0..n) /\ S # {}
  BY <1>1
<1>3. Ended(k) \in S /\ \A x \in S : x <= Ended(k)
  <2> HIDE DEF S
  <2>1. Max(S) \in S /\ \A x \in S : x <= Max(S)
    BY <1>1, <1>2, MaxFacts
  <2> QED BY <2>1 DEF Ended, S
<1>4. ASSUME NEW i \in 1..Ended(k) PROVE coming[i].last <= k
  <2>1. Ended(k) \in 1..n /\ coming[Ended(k)].last <= k
    BY <1>1, <1>3
  <2>2. CASE i = Ended(k)
    BY <2>1, <2>2
  <2>3. CASE i # Ended(k)
    <3>1. i \in 1..n /\ i < Ended(k)
      BY <2>1, <2>3
    <3>2. coming[i].last < coming[Ended(k)].first
      BY <1>1, <2>1, <3>1 DEF InOrder
    <3>3. coming[Ended(k)].first <= coming[Ended(k)].last
      BY <1>1, <2>1
    <3> QED BY <1>1, <2>1, <3>1, <3>2, <3>3
  <2> QED BY <2>2, <2>3
<1>5. ASSUME NEW i \in (Ended(k) + 1)..n PROVE coming[i].last > k
  <2>1. Ended(k) \in 0..n
    BY <1>2, <1>3
  <2>2. i \in 1..n /\ ~(i <= Ended(k))
    BY <2>1
  <2>3. i \notin S
    BY <1>3, <2>2
  <2>4. ~(coming[i].last <= k)
    BY <1>1, <2>2, <2>3
  <2> QED BY <1>1, <2>2, <2>4
<1>6. Ended(k) \in 0..n
  BY <1>2, <1>3
<1> QED BY <1>4, <1>5, <1>6 DEF EndedAt

\* The buffer that the first n frames of c leave.
Left(c, k, n) == IF n < Len(c) THEN k - c[n + 1].first + 1 ELSE 0

\* The frames of c behind the first n, k bytes later.
Behind(c, k, n) ==
    [i \in 1..(Len(c) - n) |-> [c[i + n] EXCEPT !.first = @ - k, !.last = @ - k]]

LEMMA BehindFacts ==
    ASSUME NEW c \in Seq(Coming), NEW k \in Int, NEW n \in 0..Len(c)
    PROVE  /\ Behind(c, k, n) \in Seq(Coming) /\ Len(Behind(c, k, n)) = Len(c) - n
           /\ \A i \in 1..(Len(c) - n) :
                /\ i + n \in 1..Len(c)
                /\ Behind(c, k, n)[i].first = c[i + n].first - k
                /\ Behind(c, k, n)[i].last = c[i + n].last - k
                /\ Behind(c, k, n)[i].message = c[i + n].message
<1> DEFINE e == Behind(c, k, n)
<1>1. /\ Len(c) \in Nat
      /\ \A i \in 1..Len(c) : c[i].first \in Int /\ c[i].last \in Int /\ c[i] \in Coming
  BY LineTypes
<1>2. ASSUME NEW i \in 1..(Len(c) - n)
      PROVE  /\ i + n \in 1..Len(c) /\ e[i] \in Coming
             /\ e[i].first = c[i + n].first - k /\ e[i].last = c[i + n].last - k
             /\ e[i].message = c[i + n].message
  <2> DEFINE d == c[i + n]
  <2>1. i + n \in 1..Len(c) /\ d \in Coming
    BY <1>1
  <2>2. e[i] = [d EXCEPT !.first = @ - k, !.last = @ - k]
    BY DEF Behind
  <2> HIDE DEF d, e
  <2>3. d.first \in Int /\ d.last \in Int /\ d.message \in SentMessage
    BY <2>1 DEF Coming
  <2> DEFINE x == d.first - k
             y == d.last - k
  <2>4. x \in Int /\ y \in Int
    BY <1>1, <2>3
  <2>5. e[i] = [d EXCEPT !.first = x, !.last = y]
    BY <2>2
  <2> HIDE DEF x, y
  <2>6. [d EXCEPT !.first = x, !.last = y] = [first |-> x, last |-> y, message |-> d.message]
    <3>1. d = [first |-> d.first, last |-> d.last, message |-> d.message]
      BY <2>1 DEF Coming
    <3> DEFINE u == [d EXCEPT !.first = x]
    <3>2. u = [first |-> x, last |-> d.last, message |-> d.message]
      BY <3>1
    <3>3. [u EXCEPT !.last = y] = [first |-> x, last |-> y, message |-> d.message]
      <4> HIDE DEF u
      <4> QED BY <3>2
    <3>4. [d EXCEPT !.first = x, !.last = y] = [u EXCEPT !.last = y]
      BY <3>1
    <3> QED BY <3>3, <3>4
  <2>7. /\ e[i] \in Coming /\ e[i].first = x /\ e[i].last = y
        /\ e[i].message = d.message
    BY <2>3, <2>4, <2>5, <2>6 DEF Coming
  <2> QED BY <2>1, <2>7 DEF x, y, d
<1>3. Len(c) - n \in Nat /\ e = [i \in 1..(Len(c) - n) |-> e[i]]
  BY <1>1 DEF Behind
<1> DEFINE l == Len(c) - n
<1> HIDE DEF e, l
<1>4. e \in Seq(Coming) /\ Len(e) = l
  <2>1. l \in Nat /\ e = [i \in 1..l |-> e[i]]
    BY <1>3 DEF l
  <2>2. \A i \in 1..l : e[i] \in Coming
    BY <1>2 DEF l
  <2> QED BY <2>1, <2>2
<1> QED BY <1>2, <1>4 DEF e, l

LEMMA BehindInLine ==
    ASSUME NEW b \in Nat, NEW m \in Nat, NEW c, InLine(b, m, c), NEW k \in 1..m, NEW n,
           EndedAt(c, k, n)
    PROVE  InLine(Left(c, k, n), m - k, Behind(c, k, n))
<1> DEFINE e == Behind(c, k, n)
           l == Left(c, k, n)
<1>1. /\ Len(c) \in Nat /\ n \in 0..Len(c)
      /\ \A i \in 1..Len(c) : c[i].first \in Int /\ c[i].last \in Int /\ c[i] \in Coming
  BY LineTypes DEF EndedAt, InLine, InOrder
<1>2. /\ e \in Seq(Coming) /\ Len(e) = Len(c) - n
      /\ \A i \in 1..(Len(c) - n) :
           /\ i + n \in 1..Len(c)
           /\ e[i].first = c[i + n].first - k /\ e[i].last = c[i + n].last - k
  <2>1. c \in Seq(Coming) /\ k \in Int
    BY DEF InLine, InOrder
  <2> QED BY <1>1, <2>1, BehindFacts
<1> HIDE DEF e
<1>3. c # <<>> /\ Len(c) >= 1
  BY DEF InLine
<1>4. c[Len(c)].last = m
  BY <1>3 DEF InLine
<1>5. e = <<>> => l = 0 /\ m - k = 0
  <2> SUFFICES ASSUME e = <<>> PROVE l = 0 /\ m = k
    OBVIOUS
  <2>1. n = Len(c)
    BY <1>1, <1>2
  <2>2. c[Len(c)].last <= k
    BY <1>3, <2>1 DEF EndedAt
  <2> QED BY <1>4, <2>1, <2>2 DEF Left
<1>6. e # <<>> => e[1].first = 1 - l /\ e[1].last >= 1 /\ e[Len(e)].last = m - k
  <2> SUFFICES ASSUME e # <<>> PROVE e[1].first = 1 - l /\ e[1].last >= 1 /\ e[Len(e)].last = m - k
    OBVIOUS
  <2>1. n < Len(c) /\ 1 \in 1..(Len(c) - n) /\ Len(e) \in 1..(Len(c) - n)
    BY <1>1, <1>2
  <2>2. c[n + 1].last > k /\ n + 1 \in 1..Len(c)
    BY <1>1, <2>1 DEF EndedAt
  <2>3. l = k - c[n + 1].first + 1
    BY <2>1 DEF Left
  <2>4. e[1].first = c[n + 1].first - k /\ e[1].last = c[n + 1].last - k
    <3>1. 1 + n = n + 1
      BY <1>1
    <3> QED BY <1>2, <2>1, <3>1
  <2>5. e[Len(e)].last = c[Len(c)].last - k
    <3>1. Len(e) + n = Len(c)
      BY <1>1, <1>2
    <3> QED BY <1>2, <2>1, <3>1
  <2> DEFINE x == c[n + 1].first
             y == c[n + 1].last
  <2>6. x \in Int /\ y \in Int /\ y > k /\ l = k - x + 1 /\ e[1].first = x - k /\ e[1].last = y - k
    BY <1>1, <2>2, <2>3, <2>4
  <2> HIDE DEF l, x, y
  <2>7. e[Len(e)].last = m - k
    BY <1>4, <2>5
  <2> QED BY <2>6, <2>7
<1>7. \A i \in 1..(Len(e) - 1) : e[i + 1].first = e[i].last + 1
  <2> SUFFICES ASSUME NEW i \in 1..(Len(e) - 1) PROVE e[i + 1].first = e[i].last + 1
    OBVIOUS
  <2>1. i \in 1..(Len(c) - n) /\ i + 1 \in 1..(Len(c) - n) /\ i + n \in 1..(Len(c) - 1)
    BY <1>1, <1>2
  <2>2. c[(i + n) + 1].first = c[i + n].last + 1 /\ (i + n) + 1 = (i + 1) + n
    BY <1>1, <2>1 DEF InLine
  <2>3. e[i + 1].first = c[(i + 1) + n].first - k /\ e[i].last = c[i + n].last - k
    BY <1>2, <2>1
  <2> DEFINE x == c[i + n].last
             y == c[(i + 1) + n].first
  <2>4. x \in Int /\ y = x + 1 /\ e[i + 1].first = y - k /\ e[i].last = x - k
    <3>1. x \in Int
      BY <1>1, <2>1
    <3>2. y = x + 1
      BY <2>2
    <3> QED BY <2>3, <3>1, <3>2
  <2> HIDE DEF x, y
  <2> QED BY <2>4
<1>8. \A i, j \in DOMAIN e : i < j => e[i].last < e[j].first
  <2> SUFFICES ASSUME NEW i \in 1..(Len(c) - n), NEW j \in 1..(Len(c) - n), i < j
               PROVE  e[i].last < e[j].first
    BY <1>2
  <2>1. i + n \in 1..Len(c) /\ j + n \in 1..Len(c) /\ i + n < j + n
    BY <1>1
  <2>2. c[i + n].last < c[j + n].first
    <3> DEFINE u == i + n
               v == j + n
    <3>1. c \in Seq(Coming) /\ \A x, y \in DOMAIN c : x < y => c[x].last < c[y].first
      BY DEF InLine, InOrder
    <3> HIDE DEF u, v
    <3>2. u \in DOMAIN c /\ v \in DOMAIN c /\ u < v
      BY <2>1, <3>1 DEF u, v
    <3>3. c[u].last < c[v].first
      BY <3>1, <3>2
    <3> QED BY <3>3 DEF u, v
  <2>3. e[i].last = c[i + n].last - k /\ e[j].first = c[j + n].first - k
    BY <1>2
  <2> DEFINE x == c[i + n].last
             y == c[j + n].first
  <2>4. x \in Int /\ y \in Int /\ k \in Int
    <3>1. x \in Int
      BY <1>1, <2>1
    <3>2. y \in Int
      BY <1>1, <2>1
    <3> QED BY <3>1, <3>2
  <2>5. x < y /\ e[i].last = x - k /\ e[j].first = y - k
    BY <2>2, <2>3
  <2> HIDE DEF x, y
  <2> QED BY <2>4, <2>5
<1> QED BY <1>2, <1>5, <1>6, <1>7, <1>8 DEF InLine, InOrder, e

\* f is the frame that c stands for.
StandsFor(q, b, c, f) ==
    /\ WholeFrame(f) /\ f.bytes \in Seq(Bytes) /\ Len(f.bytes) >= 6
    /\ c.message = f.message /\ f.message # Error
    /\ c.last - c.first + 1 = Len(f.bytes)
    /\ \A j \in 1..Len(f.bytes) : q[b + c.first - 1 + j] = f.bytes[j]

LEMMA PlacedWhole ==
    ASSUME WholeFrames, NEW q, NEW b, NEW c, Placed(q, b, c)
    PROVE  \E f : StandsFor(q, b, c, f)
<1>0. PICK i \in 1..MaxFrames : \E f \in Frames[i] :
        /\ c.message = f.message /\ c.last - c.first + 1 = Len(f.bytes)
        /\ \A j \in 1..Len(f.bytes) : q[b + c.first - 1 + j] = f.bytes[j]
  BY DEF Placed
<1>1. PICK f \in Frames[i] :
        /\ c.message = f.message /\ c.last - c.first + 1 = Len(f.bytes)
        /\ \A j \in 1..Len(f.bytes) : q[b + c.first - 1 + j] = f.bytes[j]
  BY <1>0
<1>2. f.bytes \in Seq(Bytes) /\ WholeFrame(f)
  BY FramesAssumption DEF WholeFrames
<1>3. Len(f.bytes) >= 6 /\ f.message # Error
  BY <1>2 DEF WholeFrame, SoundFrame, MIN_FRAME_LENGTH
<1> QED BY <1>1, <1>2, <1>3 DEF StandsFor

\* What has arrived with the next k bytes, and where in it each frame begins.
Got(k) == buffer \o SubSeq(wire, 1, k)
Start(k, i) == IF i <= Len(coming) THEN Len(buffer) + coming[i].first ELSE Len(buffer) + k + 1

LEMMA GotFacts ==
    ASSUME OnlyBytes, NEW k \in 1..Len(wire)
    PROVE  /\ Got(k) \in Seq(Bytes) /\ Len(Got(k)) = Len(buffer) + k
           /\ \A i \in 1..(Len(buffer) + k) : Got(k)[i] = (buffer \o wire)[i]
           /\ Len(buffer) \in Nat /\ Len(wire) \in Nat
<1>1. /\ SubSeq(wire, 1, k) \in Seq(Bytes) /\ Len(SubSeq(wire, 1, k)) = k
      /\ \A i \in 1..k : SubSeq(wire, 1, k)[i] = wire[i]
  BY DEF OnlyBytes
<1> DEFINE w == SubSeq(wire, 1, k)
<1> HIDE DEF w
<1>2. w \in Seq(Bytes) /\ Len(w) = k /\ \A i \in 1..k : w[i] = wire[i]
  BY <1>1 DEF w
<1>3. buffer \in Seq(Bytes) /\ wire \in Seq(Bytes)
  BY DEF OnlyBytes
<1>4. /\ buffer \o w \in Seq(Bytes) /\ Len(buffer \o w) = Len(buffer) + k
      /\ \A i \in 1..(Len(buffer) + k) :
           (buffer \o w)[i] = IF i <= Len(buffer) THEN buffer[i] ELSE w[i - Len(buffer)]
  BY <1>2, <1>3
<1>5. \A i \in 1..(Len(buffer) + Len(wire)) :
        (buffer \o wire)[i] = IF i <= Len(buffer) THEN buffer[i] ELSE wire[i - Len(buffer)]
  BY <1>3
<1>6. ASSUME NEW i \in 1..(Len(buffer) + k) PROVE (buffer \o w)[i] = (buffer \o wire)[i]
  <2>1. i \in 1..(Len(buffer) + Len(wire))
    BY <1>3
  <2>2. CASE i <= Len(buffer)
    BY <2>1, <2>2, <1>4, <1>5
  <2>3. CASE ~(i <= Len(buffer))
    <3>1. i - Len(buffer) \in 1..k
      BY <1>3, <2>3
    <3> QED BY <2>1, <2>3, <3>1, <1>2, <1>4, <1>5
  <2> QED BY <2>2, <2>3
<1> QED BY <1>3, <1>4, <1>6 DEF Got, w

LEMMA LineFacts ==
    ASSUME OnlyBytes, WholeFrames, Line
    PROVE  /\ Len(coming) \in Nat /\ DOMAIN coming = 1..Len(coming)
           /\ Len(buffer) \in Nat /\ Len(wire) \in Nat
           /\ \A i \in 1..Len(coming) : /\ coming[i].first \in Int /\ coming[i].last \in Int
                                        /\ coming[i].first + 5 <= coming[i].last
<1>1. /\ Len(coming) \in Nat /\ DOMAIN coming = 1..Len(coming)
      /\ Len(buffer) \in Nat /\ Len(wire) \in Nat
      /\ \A i \in 1..Len(coming) : coming[i].first \in Int /\ coming[i].last \in Int
  <2>1. Len(buffer) \in Nat /\ Len(wire) \in Nat
    BY DEF OnlyBytes
  <2>2. coming \in Seq(Coming)
    BY DEF Line, InLine, InOrder
  <2> QED BY <2>1, <2>2, LineTypes
<1>2. ASSUME NEW i \in 1..Len(coming) PROVE coming[i].first + 5 <= coming[i].last
  <2>1. Placed(buffer \o wire, Len(buffer), coming[i])
    BY <1>1 DEF Line
  <2>2. PICK f : Len(f.bytes) >= 6 /\ coming[i].last - coming[i].first + 1 = Len(f.bytes)
    BY <2>1, PlacedWhole DEF StandsFor
  <2> DEFINE x == coming[i].first
             y == coming[i].last
             n == Len(f.bytes)
  <2>3. x \in Int /\ y \in Int /\ y - x + 1 = n /\ n >= 6
    BY <1>1, <2>2
  <2>4. y - x + 1 >= 6
    BY <2>3
  <2> HIDE DEF x, y
  <2>5. x + 5 <= y
    BY <2>3, <2>4
  <2> QED BY <2>5 DEF x, y
<1> QED BY <1>1, <1>2

LEMMA FramesEnd ==
    ASSUME OnlyBytes, WholeFrames, Line, NEW k \in 1..Len(wire)
    PROVE  EndedAt(coming, k, Ended(k))
<1>1. /\ DOMAIN coming = 1..Len(coming) /\ Len(buffer) \in Nat /\ Len(wire) \in Nat
      /\ \A i \in 1..Len(coming) : /\ coming[i].first \in Int /\ coming[i].last \in Int
                                   /\ coming[i].first + 5 <= coming[i].last
  BY LineFacts
<1>2. \A i \in DOMAIN coming : coming[i].first <= coming[i].last
  BY <1>1
<1>3. InOrder(coming) /\ k \in Nat
  BY <1>1 DEF Line, InLine
<1> QED BY <1>1, <1>2, <1>3, EndedFacts

\* Where the frames that arrive begin, and where the next one does.
LEMMA StartFacts ==
    ASSUME OnlyBytes, WholeFrames, Line, NEW k \in 1..Len(wire), NEW n, EndedAt(coming, k, n)
    PROVE  /\ n \in Nat /\ n <= Len(coming) /\ Start(k, 1) = 1
           /\ \A i \in 1..(n + 1) : Start(k, i) \in 1..(Len(buffer) + k + 1)
           /\ \A i \in 1..n :
                Start(k, i + 1) = Start(k, i) + (coming[i].last - coming[i].first + 1)
<1> DEFINE N == Len(coming)
           b == Len(buffer)
<1>1. /\ N \in Nat /\ DOMAIN coming = 1..N /\ b \in Nat /\ Len(wire) \in Nat
      /\ \A i \in 1..N : /\ coming[i].first \in Int /\ coming[i].last \in Int
                         /\ coming[i].first + 5 <= coming[i].last
  BY LineFacts
<1>2. n \in 0..N /\ \A i \in 1..n : coming[i].last <= k
  BY DEF EndedAt
<1>3. coming # <<>> /\ N >= 1 /\ coming[1].first = 1 - b /\ coming[N].last = Len(wire)
  <2>1. coming # <<>>
    BY <1>1 DEF Line, InLine
  <2>2. coming \in Seq(Coming)
    BY DEF Line, InLine, InOrder
  <2>3. N >= 1
    BY <2>1, <2>2
  <2> QED BY <2>1, <2>3 DEF Line, InLine
<1>4. \A i \in 1..(N - 1) : coming[i + 1].first = coming[i].last + 1
  BY DEF Line, InLine
<1>5. n = N => k = Len(wire)
  <2> SUFFICES ASSUME n = N PROVE k = Len(wire)
    OBVIOUS
  <2>1. coming[N].last <= k
    BY <1>2, <1>3
  <2> QED BY <1>1, <1>3, <2>1
<1>6. Start(k, 1) = 1
  BY <1>1, <1>3 DEF Start
<1>7. ASSUME NEW i \in 1..n
      PROVE  Start(k, i + 1) = Start(k, i) + (coming[i].last - coming[i].first + 1)
  <2> DEFINE x == coming[i].first
             y == coming[i].last
  <2>1. i \in 1..N /\ x \in Int /\ y \in Int /\ Start(k, i) = b + x
    BY <1>1, <1>2 DEF Start
  <2>2. CASE i < N
    <3>1. i + 1 <= N /\ coming[i + 1].first = y + 1
      <4>1. i \in 1..(N - 1) /\ i + 1 <= N
        <5> HIDE DEF N
        <5> QED BY <1>1, <2>1, <2>2
      <4> QED BY <1>4, <4>1
    <3>2. Start(k, i + 1) = b + (y + 1)
      BY <3>1 DEF Start
    <3> HIDE DEF x, y, b
    <3>3. b \in Int
      BY <1>1
    <3>4. Start(k, i + 1) = Start(k, i) + (y - x + 1)
      BY <2>1, <3>2, <3>3
    <3> QED BY <3>4 DEF x, y
  <2>3. CASE i = N
    <3>1. y = Len(wire) /\ k = Len(wire)
      BY <1>2, <1>3, <1>5, <2>3
    <3>2. Start(k, i + 1) = b + k + 1
      BY <1>1, <2>3 DEF Start
    <3>3. y = k /\ k \in Int
      BY <3>1
    <3> HIDE DEF x, y, b
    <3> QED BY <1>1, <2>1, <3>3, <3>2 DEF x, y
  <2> QED BY <2>1, <2>2, <2>3
<1>8. ASSUME NEW i \in 1..(n + 1) PROVE Start(k, i) \in 1..(b + k + 1)
  <2>1. CASE i = 1
    BY <1>1, <1>6, <2>1
  <2>2. CASE i # 1
    <3> DEFINE j == i - 1
    <3>1. j \in 1..n /\ j \in 1..N /\ i = j + 1
      BY <1>2, <2>2
    <3> DEFINE x == coming[j].last
    <3>2. x \in Int /\ x <= k /\ x >= 1 - b
      <4>1. coming[j].first + 5 <= coming[j].last /\ coming[j].first \in Int /\ x \in Int
        BY <1>1, <3>1
      <4>2. coming[j].last <= k
        BY <1>2, <3>1
      <4>3. CASE j = 1
        BY <1>1, <1>3, <4>1, <4>2, <4>3
      <4>4. CASE j # 1
        <5>1. coming[1].last < coming[j].first
          <6>1. 1 \in DOMAIN coming /\ j \in DOMAIN coming /\ 1 < j
            BY <1>1, <1>3, <3>1, <4>4
          <6>2. \A u, v \in DOMAIN coming : u < v => coming[u].last < coming[v].first
            BY DEF Line, InLine, InOrder
          <6> HIDE DEF j
          <6> QED BY <6>1, <6>2
        <5> DEFINE v == coming[j].first
                   w == coming[1].first
                   z == coming[1].last
        <5>2. w + 5 <= z /\ z \in Int /\ w \in Int /\ w = 1 - b /\ z < v /\ v \in Int
          BY <1>1, <1>3, <4>1, <5>1
        <5>3. v + 5 <= x /\ x \in Int /\ x <= k
          BY <4>1, <4>2
        <5> HIDE DEF v, w, z, x, b
        <5> QED BY <1>1, <5>2, <5>3
      <4> QED BY <4>3, <4>4
    <3>3. CASE i <= N
      <4>1. Start(k, i) = b + (x + 1)
        BY <1>1, <1>4, <3>1, <3>3 DEF Start
      <4> HIDE DEF x, b
      <4> QED BY <1>1, <3>2, <4>1
    <3>4. CASE ~(i <= N)
      BY <1>1, <3>4 DEF Start
    <3> QED BY <3>3, <3>4
  <2> QED BY <2>1, <2>2
<1> QED BY <1>1, <1>2, <1>6, <1>7, <1>8

\* The bytes of a frame that is coming are among those that arrived, as far as
\* those go.
LEMMA BytesArrive ==
    ASSUME OnlyBytes, WholeFrames, Line, NEW k \in 1..Len(wire), NEW i \in 1..Len(coming),
           Start(k, i) >= 1
    PROVE  \E f : /\ WholeFrame(f) /\ f.bytes \in Seq(Bytes) /\ Len(f.bytes) >= 6
                  /\ coming[i].message = f.message /\ f.message # Error
                  /\ coming[i].last - coming[i].first + 1 = Len(f.bytes)
                  /\ \A j \in 1..Len(f.bytes) :
                       Start(k, i) + j - 1 <= Len(buffer) + k =>
                         Got(k)[Start(k, i) + j - 1] = f.bytes[j]
<1> DEFINE b == Len(buffer)
           s == Start(k, i)
<1>1. /\ DOMAIN coming = 1..Len(coming) /\ b \in Nat
      /\ coming[i].first \in Int /\ coming[i].last \in Int /\ Len(coming) \in Nat
  BY LineFacts
<1>2. Placed(buffer \o wire, b, coming[i])
  BY <1>1 DEF Line
<1> HIDE DEF b
<1>0. PICK f : StandsFor(buffer \o wire, b, coming[i], f)
  BY <1>2, PlacedWhole
<1>3. /\ WholeFrame(f) /\ f.bytes \in Seq(Bytes) /\ Len(f.bytes) >= 6
      /\ coming[i].message = f.message /\ f.message # Error
      /\ coming[i].last - coming[i].first + 1 = Len(f.bytes)
      /\ \A j \in 1..Len(f.bytes) :
           (buffer \o wire)[b + coming[i].first - 1 + j] = f.bytes[j]
  BY <1>0 DEF StandsFor
<1>4. s = b + coming[i].first /\ s \in Int
  BY <1>1 DEF Start, b
<1>5. ASSUME NEW j \in 1..Len(f.bytes), s + j - 1 <= b + k PROVE Got(k)[s + j - 1] = f.bytes[j]
  <2> DEFINE x == coming[i].first
  <2>1. s + j - 1 \in 1..(b + k) /\ s + j - 1 = b + x - 1 + j
    <3>1. x \in Int /\ s = b + x /\ s >= 1 /\ j >= 1 /\ j \in Int /\ s \in Int
      BY <1>1, <1>3, <1>4
    <3> HIDE DEF x, s
    <3> QED BY <1>1, <1>5, <3>1
  <2>2. Got(k)[s + j - 1] = (buffer \o wire)[s + j - 1]
    BY <2>1, GotFacts DEF b
  <2> QED BY <1>3, <2>1, <2>2
<1> QED BY <1>3, <1>5 DEF b

\* What arrived of the first frame that is not there as a whole.
LEMMA LastIsCut ==
    ASSUME OnlyBytes, WholeFrames, Line, NEW k \in 1..Len(wire), NEW n, EndedAt(coming, k, n)
    PROVE  CutAt(Got(k), Start(k, n + 1))
<1> DEFINE p == Got(k)
           s == Start(k, n + 1)
           i == n + 1
<1> SUFFICES CutAt(p, s)
  OBVIOUS
<1>1. p \in Seq(Bytes) /\ Len(p) = Len(buffer) + k /\ Len(p) \in Nat
  BY GotFacts
<1>2. n \in Nat /\ n <= Len(coming) /\ s \in 1..(Len(p) + 1)
  BY <1>1, StartFacts
<1>3. CASE n = Len(coming)
  <2>1. s = Len(p) + 1
    BY <1>1, <1>2, <1>3 DEF Start
  <2> QED BY <2>1 DEF CutAt
<1>4. CASE n # Len(coming)
  <2>1. i \in 1..Len(coming) /\ coming[i].last > k
    <3>1. Len(coming) \in Nat
      BY LineFacts
    <3>2. i \in (n + 1)..Len(coming) /\ i \in 1..Len(coming)
      BY <1>2, <1>4, <3>1
    <3> QED BY <3>2 DEF EndedAt
  <2>2. PICK f : /\ WholeFrame(f) /\ f.bytes \in Seq(Bytes) /\ Len(f.bytes) >= 6
                 /\ coming[i].last - coming[i].first + 1 = Len(f.bytes)
                 /\ \A j \in 1..Len(f.bytes) : s + j - 1 <= Len(p) => p[s + j - 1] = f.bytes[j]
    <3>1. Start(k, i) >= 1
      BY <1>2
    <3>2. PICK f : /\ WholeFrame(f) /\ f.bytes \in Seq(Bytes) /\ Len(f.bytes) >= 6
                   /\ coming[i].message = f.message /\ f.message # Error
                   /\ coming[i].last - coming[i].first + 1 = Len(f.bytes)
                   /\ \A j \in 1..Len(f.bytes) :
                        Start(k, i) + j - 1 <= Len(buffer) + k =>
                          Got(k)[Start(k, i) + j - 1] = f.bytes[j]
      BY <2>1, <3>1, BytesArrive, Zenon
    <3> QED BY <1>1, <3>2
  <2> DEFINE b == f.bytes
             a == Len(p) - s + 1
  <2>3. a \in Nat /\ a < Len(b)
    <3>1. /\ coming[i].first \in Int /\ coming[i].last \in Int /\ Len(buffer) \in Nat
          /\ s = Len(buffer) + coming[i].first
      BY <2>1, LineFacts DEF Start
    <3> DEFINE x == coming[i].first
               y == coming[i].last
    <3>2. x \in Int /\ y \in Int /\ y > k /\ y - x + 1 = Len(b) /\ s = Len(buffer) + x
      BY <2>1, <2>2, <3>1
    <3>3. Len(p) = Len(buffer) + k /\ Len(buffer) \in Nat /\ k \in Int
      BY <1>1, <3>1
    <3> HIDE DEF x, y, p, s
    <3> QED BY <1>1, <1>2, <3>2, <3>3
  <2> HIDE DEF p, s
  <2>4. \A j \in 1..a : j \in 1..Len(b) /\ s + j - 1 \in s..Len(p) /\ p[s + j - 1] = b[j]
    <3> SUFFICES ASSUME NEW j \in 1..a
                 PROVE  j \in 1..Len(b) /\ s + j - 1 \in s..Len(p) /\ p[s + j - 1] = b[j]
      OBVIOUS
    <3>1. j \in 1..Len(b)
      BY <2>2, <2>3
    <3>2. s + j - 1 \in s..Len(p)
      BY <1>1, <1>2
    <3> QED BY <2>2, <3>1, <3>2
  <2>5. b[1] = HEADER1 /\ b[2] = HEADER2 /\ Len(b) = FrameLength(b, 1)
    BY <2>2 DEF WholeFrame, SoundFrame
  <2>6. CASE a = 0
    BY <1>1, <1>2, <2>6 DEF CutAt
  <2>7. CASE a = 1
    <3>1. s = Len(p) /\ s + 1 - 1 = s /\ 1 \in 1..a
      BY <1>1, <1>2, <2>7
    <3>2. p[s] = b[1]
      BY <2>4, <3>1
    <3> QED BY <2>5, <3>1, <3>2 DEF CutAt
  <2>8. CASE a >= 2
    <3>1. s \in Headers(p, s)
      <4>1. 1 \in 1..a /\ 2 \in 1..a /\ s + 1 - 1 = s /\ s + 2 - 1 = s + 1 /\ s \in s..(Len(p) - 1)
        BY <1>1, <1>2, <2>3, <2>8
      <4>2. p[s] = b[1] /\ p[s + 1] = b[2]
        BY <2>4, <4>1
      <4> QED BY <2>5, <4>1, <4>2 DEF Headers
    <3>2. ASSUME ~TooShort(p, s) PROVE TooLong(p, s) /\ NextFrames(p, s) = {}
      <4>1. a >= 6 /\ Available(p, s) = a
        BY <3>2, <1>1, <1>2 DEF TooShort, Available, MIN_FRAME_LENGTH
      <4>2. p[s + 3] = b[1 + 3]
        <5>1. 4 \in 1..a /\ s + 4 - 1 = s + 3
          BY <1>2, <2>3, <4>1
        <5> QED BY <2>4, <5>1
      <4>3. FrameLength(p, s) = Len(b)
        BY <2>5, <4>2 DEF FrameLength
      <4>4. TooLong(p, s)
        BY <2>3, <4>1, <4>3 DEF TooLong
      <4>5. From(p, s) = SubSeq(b, 1, a)
        <5>1. /\ From(p, s) \in Seq(Bytes) /\ Len(From(p, s)) = a
              /\ \A j \in 1..a : From(p, s)[j] = p[j + s - 1]
          BY <1>1, <1>2, FromFacts
        <5>2. /\ SubSeq(b, 1, a) \in Seq(Bytes) /\ Len(SubSeq(b, 1, a)) = a
              /\ \A j \in 1..a : SubSeq(b, 1, a)[j] = b[j]
          <6>1. b \in Seq(Bytes) /\ a \in 0..Len(b)
            BY <2>2, <2>3
          <6> HIDE DEF a, b
          <6> QED BY <6>1
        <5>3. ASSUME NEW j \in 1..a PROVE From(p, s)[j] = SubSeq(b, 1, a)[j]
          <6>1. j + s - 1 = s + j - 1
            BY <1>2
          <6> QED BY <5>1, <5>2, <2>4, <6>1
        <5> HIDE DEF a, b
        <5>4. From(p, s) = [j \in 1..a |-> From(p, s)[j]]
          BY <5>1
        <5>5. SubSeq(b, 1, a) = [j \in 1..a |-> SubSeq(b, 1, a)[j]]
          BY <5>2
        <5> QED BY <5>3, <5>4, <5>5
      <4>6. NextFrames(SubSeq(b, 1, a), 1) = {}
        <5>1. a \in 1..(Len(b) - 1)
          BY <2>2, <2>3, <4>1
        <5> QED BY <2>2, <5>1 DEF WholeFrame, SoundFrame
      <4>7. NextFrames(p, s) = {}
        <5>1. s \in 1..Len(p)
          BY <1>1, <1>2, <4>1
        <5> QED BY <1>1, <4>5, <4>6, <5>1, NextFramesFrom
      <4> QED BY <4>4, <4>7
    <3> QED BY <3>1, <3>2 DEF CutAt
  <2> QED BY <2>3, <2>6, <2>7, <2>8 DEF p, s
<1> QED BY <1>3, <1>4

\* The frames that are there as a whole.
LEMMA OthersAreWhole ==
    ASSUME OnlyBytes, WholeFrames, Line, NEW k \in 1..Len(wire), NEW n, EndedAt(coming, k, n),
           NEW i \in 1..n
    PROVE  LET p == Got(k)
               s == Start(k, i)
           IN  /\ s \in Headers(p, s) /\ ~TooShort(p, s) /\ ~TooLong(p, s)
               /\ FrameLength(p, s) = coming[i].last - coming[i].first + 1
               /\ Decode(p, s) = coming[i].message /\ coming[i].message # Error
<1> DEFINE p == Got(k)
           s == Start(k, i)
<1>1. p \in Seq(Bytes) /\ Len(p) = Len(buffer) + k /\ Len(p) \in Nat
  BY GotFacts
<1>2. n \in Nat /\ n <= Len(coming) /\ s \in 1..(Len(p) + 1)
  BY <1>1, StartFacts
<1>3. i \in 1..Len(coming) /\ s >= 1 /\ coming[i].last <= k
  BY <1>2, LineFacts DEF EndedAt
<1>4. PICK f : /\ WholeFrame(f) /\ f.bytes \in Seq(Bytes) /\ Len(f.bytes) >= 6
               /\ coming[i].message = f.message /\ f.message # Error
               /\ coming[i].last - coming[i].first + 1 = Len(f.bytes)
               /\ \A j \in 1..Len(f.bytes) :
                    Start(k, i) + j - 1 <= Len(buffer) + k =>
                      Got(k)[Start(k, i) + j - 1] = f.bytes[j]
  BY <1>3, BytesArrive, Zenon
<1> DEFINE x == coming[i].first
           y == coming[i].last
           m == Len(f.bytes)
<1>5. /\ x \in Int /\ y \in Int /\ y <= k /\ m = y - x + 1 /\ m >= 6 /\ m \in Nat
      /\ s = Len(buffer) + x /\ Len(buffer) \in Nat
  BY <1>3, <1>4, LineFacts DEF Start
<1>6. s + m - 1 <= Len(p) /\ s <= Len(p)
  <2> HIDE DEF x, y, m, s, p
  <2> QED BY <1>1, <1>5
<1>7. WholeAt(p, s, f.bytes)
  <2>1. \A j \in 1..m : s + j - 1 <= Len(buffer) + k
    <3> HIDE DEF x, y, m, s
    <3> QED BY <1>1, <1>2, <1>5, <1>6
  <2>2. s \in 1..Len(p)
    BY <1>1, <1>2, <1>6
  <2> QED BY <1>4, <1>6, <2>1, <2>2 DEF WholeAt
<1>8. /\ s \in Headers(p, s) /\ ~TooShort(p, s) /\ ~TooLong(p, s)
      /\ FrameLength(p, s) = m /\ Decode(p, s) = f.message
  BY <1>1, <1>4, <1>7, WholeFrameAt DEF WholeFrame
<1> QED BY <1>4, <1>8

LEMMA FramesArrive ==
    ASSUME OnlyBytes, WholeFrames, Line, NEW k \in 1..Len(wire), NEW n, EndedAt(coming, k, n)
    PROVE  ExtractMessages(Got(k)) =
             [messages |-> [i \in 1..n |-> coming[i].message],
              rest |-> From(Got(k), Start(k, n + 1))]
<1> DEFINE p  == Got(k)
           st == [i \in 1..(n + 1) |-> Start(k, i)]
           ms == [i \in 1..n |-> coming[i].message]
<1>1. p \in Seq(Bytes) /\ Len(p) = Len(buffer) + k
  BY GotFacts
<1>2. /\ n \in Nat /\ Start(k, 1) = 1
      /\ \A i \in 1..(n + 1) : Start(k, i) \in 1..(Len(p) + 1)
      /\ \A i \in 1..n : Start(k, i + 1) = Start(k, i) + (coming[i].last - coming[i].first + 1)
  BY <1>1, StartFacts
<1>3. /\ \A i \in 1..(n + 1) : st[i] = Start(k, i)
      /\ \A i \in 1..n : i \in 1..(n + 1) /\ i + 1 \in 1..(n + 1) /\ ms[i] = coming[i].message
      /\ 1 \in 1..(n + 1) /\ n + 1 \in 1..(n + 1)
  BY <1>2
<1>4. CutAt(p, st[n + 1])
  BY <1>3, LastIsCut
<1> HIDE DEF p, st
<1>5. ASSUME NEW i \in 1..n
      PROVE  /\ st[i] \in Headers(p, st[i]) /\ ~TooShort(p, st[i]) /\ ~TooLong(p, st[i])
             /\ st[i + 1] = st[i] + FrameLength(p, st[i])
             /\ Decode(p, st[i]) = ms[i] /\ ms[i] # Error
  <2>1. LET s == Start(k, i)
        IN  /\ s \in Headers(p, s) /\ ~TooShort(p, s) /\ ~TooLong(p, s)
            /\ FrameLength(p, s) = coming[i].last - coming[i].first + 1
            /\ Decode(p, s) = coming[i].message /\ coming[i].message # Error
    BY OthersAreWhole DEF p
  <2>2. st[i] = Start(k, i) /\ st[i + 1] = Start(k, i + 1) /\ ms[i] = coming[i].message
    BY <1>3
  <2>3. Start(k, i + 1) = Start(k, i) + (coming[i].last - coming[i].first + 1)
    BY <1>2
  <2> HIDE DEF ms
  <2> QED BY <2>1, <2>2, <2>3
<1> HIDE DEF ms
<1>6. Framed(p, n, st, ms)
  BY <1>2, <1>3, <1>4, <1>5 DEF Framed
<1>7. ExtractMessages(p) = [messages |-> [i \in 1..n |-> ms[i]], rest |-> From(p, st[n + 1])]
  BY <1>1, <1>6, FramesExtracted
<1>8. [i \in 1..n |-> ms[i]] = [i \in 1..n |-> coming[i].message]
  BY <1>3
<1> QED BY <1>3, <1>7, <1>8 DEF p

LEMMA JoinFacts ==
    ASSUME NEW a \in Seq(Bytes), NEW c \in Seq(Bytes), NEW j \in 1..(Len(a) + Len(c))
    PROVE  (a \o c)[j] = IF j <= Len(a) THEN a[j] ELSE c[j - Len(a)]
  OBVIOUS

\* The bytes behind those that were taken out are where they were.
LEMMA Remains ==
    ASSUME OnlyBytes, NEW k \in 1..Len(wire), NEW s \in 1..(Len(buffer) + k + 1)
    PROVE  LET b == From(Got(k), s)
               w == From(wire, k + 1)
           IN  /\ Len(b) = Len(buffer) + k + 1 - s /\ Len(w) = Len(wire) - k
               /\ \A j \in 1..(Len(buffer) + Len(wire) + 1 - s) :
                    (b \o w)[j] = (buffer \o wire)[j + s - 1]
<1> DEFINE b == From(Got(k), s)
           w == From(wire, k + 1)
           u == Len(buffer)
           m == Len(wire)
<1>1. /\ Got(k) \in Seq(Bytes) /\ Len(Got(k)) = u + k
      /\ \A i \in 1..(u + k) : Got(k)[i] = (buffer \o wire)[i]
      /\ u \in Nat /\ m \in Nat
  BY GotFacts
<1>2. /\ b \in Seq(Bytes) /\ Len(b) = u + k - s + 1
      /\ \A j \in 1..(u + k - s + 1) : b[j] = Got(k)[j + s - 1]
  <2> DEFINE p == Got(k)
  <2>1. p \in Seq(Bytes) /\ s \in 1..(Len(p) + 1) /\ Len(p) = u + k
    BY <1>1
  <2> HIDE DEF p, u
  <2>2. /\ From(p, s) \in Seq(Bytes) /\ Len(From(p, s)) = Len(p) - s + 1
        /\ \A j \in 1..(Len(p) - s + 1) : From(p, s)[j] = p[j + s - 1]
    BY <2>1, FromFacts
  <2>3. Len(p) - s + 1 = u + k - s + 1
    BY <1>1, <2>1
  <2>4. /\ From(p, s) \in Seq(Bytes) /\ Len(From(p, s)) = u + k - s + 1
        /\ \A j \in 1..(u + k - s + 1) : From(p, s)[j] = p[j + s - 1]
    BY <2>2, <2>3, Zenon
  <2> QED BY <2>4, Zenon DEF p
<1>3. /\ w \in Seq(Bytes) /\ Len(w) = m - (k + 1) + 1
      /\ \A j \in 1..(m - (k + 1) + 1) : w[j] = wire[j + (k + 1) - 1]
  <2>1. wire \in Seq(Bytes) /\ k + 1 \in 1..(m + 1)
    BY <1>1 DEF OnlyBytes
  <2> QED BY <2>1, FromFacts
<1>4. Len(b) = u + k + 1 - s /\ Len(w) = m - k
  BY <1>1, <1>2, <1>3
<1> HIDE DEF b, w, u, m
<1>5. ASSUME NEW j \in 1..(u + m + 1 - s) PROVE (b \o w)[j] = (buffer \o wire)[j + s - 1]
  <2>1. buffer \in Seq(Bytes) /\ wire \in Seq(Bytes) /\ Len(buffer) = u /\ Len(wire) = m
    BY DEF OnlyBytes, u, m
  <2>2. CASE j <= u + k + 1 - s
    <3>1. j \in 1..(u + k - s + 1) /\ j + s - 1 \in 1..(u + k) /\ j \in 1..Len(b)
      BY <1>1, <1>4, <2>2
    <3>2. (b \o w)[j] = b[j]
      BY <1>2, <1>3, <3>1
    <3> QED BY <1>1, <1>2, <3>1, <3>2
  <2>3. CASE ~(j <= u + k + 1 - s)
    <3> DEFINE i == j - (u + k + 1 - s)
    <3>1. /\ i \in 1..(m - (k + 1) + 1) /\ j - Len(b) = i
          /\ j \in 1..(Len(b) + Len(w)) /\ ~(j <= Len(b))
      BY <1>1, <1>4, <2>3
    <3>2. (b \o w)[j] = w[i]
      BY <1>2, <1>3, <3>1, JoinFacts
    <3>3. w[i] = wire[i + (k + 1) - 1]
      BY <1>3, <3>1
    <3>4. (j + s - 1) - u = i + (k + 1) - 1 /\ j + s - 1 \in 1..(u + m) /\ ~(j + s - 1 <= u)
      BY <1>1, <2>3
    <3> HIDE DEF i
    <3>5. (buffer \o wire)[j + s - 1] = wire[(j + s - 1) - u]
      BY <2>1, <3>4, JoinFacts
    <3> QED BY <3>2, <3>3, <3>4, <3>5
  <2> QED BY <2>2, <2>3
<1> QED BY <1>4, <1>5 DEF b, w, u, m

LEMMA LineOrder ==
    ASSUME OnlyBytes, WholeFrames, Line
    PROVE  /\ \A i \in 1..Len(coming) : coming[i].last <= Len(wire)
           /\ \A i, j \in 1..Len(coming) : i <= j => coming[i].first <= coming[j].first
<1>1. /\ Len(coming) \in Nat /\ DOMAIN coming = 1..Len(coming) /\ Len(wire) \in Nat
      /\ \A i \in 1..Len(coming) : /\ coming[i].first \in Int /\ coming[i].last \in Int
                                   /\ coming[i].first + 5 <= coming[i].last
  BY LineFacts
<1>2. \A i, j \in 1..Len(coming) : i < j => coming[i].last < coming[j].first
  BY <1>1 DEF Line, InLine, InOrder
<1>3. ASSUME NEW i \in 1..Len(coming) PROVE coming[i].last <= Len(wire)
  <2>1. coming # <<>> /\ Len(coming) \in 1..Len(coming)
    BY <1>1
  <2>2. coming[Len(coming)].last = Len(wire)
    BY <2>1 DEF Line, InLine
  <2>3. CASE i = Len(coming)
    BY <1>1, <2>2, <2>3
  <2>4. CASE i # Len(coming)
    <3> DEFINE z == Len(coming)
    <3>1. z \in Nat /\ i \in 1..z /\ z \in 1..z /\ i # z
      BY <1>1, <2>1, <2>4, Zenon
    <3>2. i < z
      BY <3>1
    <3>3. coming[i].last < coming[z].first
      BY <1>2, <3>1, <3>2, Zenon
    <3> DEFINE y == coming[i].last
               a == coming[z].first
               e == coming[z].last
    <3>4. y \in Int /\ a \in Int /\ e \in Int /\ a + 5 <= e
      BY <1>1, <3>1
    <3>5. y < a /\ e = Len(wire)
      BY <2>2, <3>3
    <3> HIDE DEF y, a, e, z
    <3>6. y <= Len(wire)
      BY <1>1, <3>4, <3>5
    <3> QED BY <3>6, Zenon DEF y
  <2> QED BY <2>3, <2>4
<1>4. ASSUME NEW i \in 1..Len(coming), NEW j \in 1..Len(coming), i <= j
      PROVE  coming[i].first <= coming[j].first
  <2>1. CASE i = j
    BY <1>1, <2>1
  <2>2. CASE i < j
    <3> DEFINE x == coming[i].first
               y == coming[i].last
               z == coming[j].first
    <3>1. x \in Int /\ y \in Int /\ z \in Int /\ x + 5 <= y /\ y < z
      BY <1>1, <1>2, <2>2
    <3> HIDE DEF x, y, z
    <3>2. x <= z
      BY <3>1
    <3> QED BY <3>2 DEF x, z
  <2> QED BY <1>1, <1>4, <2>1, <2>2
<1> QED BY <1>3, <1>4

\* A frame whose place moves by k bytes on the wire is where its bytes are.
Moved(q, b, c, r, a, d, k, s) ==
    /\ d.first = c.first - k /\ d.last = c.last - k /\ d.message = c.message
    /\ a = b + k + 1 - s
    /\ \A j \in (b + c.first + 1 - s)..(b + c.last + 1 - s) : r[j] = q[j + s - 1]

LEMMA PlacedMoves ==
    ASSUME NEW q, NEW b \in Nat, NEW c \in Coming, NEW r, NEW a \in Nat, NEW d \in Coming,
           NEW k \in Int, NEW s \in Int, Placed(q, b, c), Moved(q, b, c, r, a, d, k, s)
    PROVE  Placed(r, a, d)
<1>0. /\ d.first = c.first - k /\ d.last = c.last - k /\ d.message = c.message
      /\ a = b + k + 1 - s
      /\ \A j \in (b + c.first + 1 - s)..(b + c.last + 1 - s) : r[j] = q[j + s - 1]
  BY DEF Moved
<1>1. PICK i \in 1..MaxFrames : \E f \in Frames[i] :
        /\ c.message = f.message /\ c.last - c.first + 1 = Len(f.bytes)
        /\ \A j \in 1..Len(f.bytes) : q[b + c.first - 1 + j] = f.bytes[j]
  BY DEF Placed
<1>2. PICK f \in Frames[i] :
        /\ c.message = f.message /\ c.last - c.first + 1 = Len(f.bytes)
        /\ \A j \in 1..Len(f.bytes) : q[b + c.first - 1 + j] = f.bytes[j]
  BY <1>1
<1> DEFINE x == c.first
           y == c.last
           n == Len(f.bytes)
<1>3. x \in Int /\ y \in Int /\ y - x + 1 = n
  BY <1>2 DEF Coming
<1>4. d.first = x - k /\ d.last = y - k
  BY <1>0
<1>5. d.message = f.message
  BY <1>0, <1>2
<1> HIDE DEF x, y, n
<1>6. d.last - d.first + 1 = n
  BY <1>3, <1>4
<1>7. ASSUME NEW j \in 1..n PROVE r[a + d.first - 1 + j] = f.bytes[j]
  <2> DEFINE t == b + x - s + j
  <2>1. /\ a + d.first - 1 + j = t /\ t + s - 1 = b + x - 1 + j
        /\ t \in (b + x + 1 - s)..(b + y + 1 - s)
    BY <1>0, <1>3, <1>4
  <2> HIDE DEF t
  <2>2. r[t] = q[t + s - 1]
    BY <1>0, <2>1 DEF x, y
  <2>3. q[b + x - 1 + j] = f.bytes[j]
    BY <1>2 DEF x, n
  <2> QED BY <2>1, <2>2, <2>3
<1> QED BY <1>5, <1>6, <1>7 DEF Placed, n

\* A frame that has arrived is not touched by what is sent behind it.
LEMMA PlacedStays ==
    ASSUME NEW q, NEW b \in Nat, NEW m \in Nat, NEW c \in Coming, Placed(q, b, c),
           1 - b <= c.first, c.last <= m,
           NEW r, \A j \in 1..(b + m) : r[j] = q[j]
    PROVE  Placed(r, b, c)
<1>1. PICK i \in 1..MaxFrames : \E f \in Frames[i] :
        /\ c.message = f.message /\ c.last - c.first + 1 = Len(f.bytes)
        /\ \A j \in 1..Len(f.bytes) : q[b + c.first - 1 + j] = f.bytes[j]
  BY DEF Placed
<1>2. PICK f \in Frames[i] :
        /\ c.message = f.message /\ c.last - c.first + 1 = Len(f.bytes)
        /\ \A j \in 1..Len(f.bytes) : q[b + c.first - 1 + j] = f.bytes[j]
  BY <1>1
<1>3. ASSUME NEW j \in 1..Len(f.bytes) PROVE r[b + c.first - 1 + j] = f.bytes[j]
  <2> DEFINE x == c.first
             y == c.last
             n == Len(f.bytes)
             t == b + x - 1 + j
  <2>1. x \in Int /\ y \in Int /\ y - x + 1 = n /\ 1 - b <= x /\ y <= m /\ j \in 1..n
    BY <1>2 DEF Coming
  <2> HIDE DEF x, y, n
  <2>2. t \in 1..(b + m)
    BY <2>1
  <2> HIDE DEF t
  <2>3. r[t] = q[t]
    BY <2>2
  <2> QED BY <1>2, <2>3 DEF t, x
<1> QED BY <1>2, <1>3 DEF Placed

LEMMA ReceiveLine ==
    ASSUME OnlyBytes, WholeFrames, Line, Receive
    PROVE  Line' /\ (applied = owed => applied' = owed')
<1>1. PICK k \in DOMAIN wire :
        /\ Apply(ExtractMessages(Got(k)).messages)
        /\ buffer' = ExtractMessages(Got(k)).rest
        /\ owed' = owed \o Completed(k)
        /\ Arrives(k, Ended(k))
  BY DEF Receive, Got
<1> DEFINE n == Ended(k)
           s == Start(k, n + 1)
           u == Len(buffer)
           m == Len(wire)
<1>2. k \in 1..m
  BY DEF OnlyBytes
<1>3. EndedAt(coming, k, n)
  BY <1>2, FramesEnd
<1>4. ExtractMessages(Got(k)) =
        [messages |-> [i \in 1..n |-> coming[i].message], rest |-> From(Got(k), s)]
  BY <1>2, <1>3, FramesArrive
<1>5. applied = owed => applied' = owed'
  <2>1. applied' = applied \o Carried([i \in 1..n |-> coming[i].message])
    BY <1>1, <1>4 DEF Apply
  <2>2. Completed(k) = Carried([i \in 1..n |-> coming[i].message])
    BY DEF Completed
  <2> HIDE DEF n
  <2> QED BY <1>1, <2>1, <2>2
<1>6. /\ buffer' = From(Got(k), s) /\ wire' = From(wire, k + 1)
      /\ coming' = Behind(coming, k, n)
  <2>1. Arrives(k, n)
    BY <1>1
  <2> HIDE DEF n, s
  <2>2. buffer' = From(Got(k), s)
    BY <1>1, <1>4
  <2>3. wire' = From(wire, k + 1)
    BY <2>1 DEF Arrives
  <2>4. coming' = Behind(coming, k, n)
    BY <2>1, Zenon DEF Arrives, Behind
  <2> QED BY <2>2, <2>3, <2>4
<1>7. /\ Len(coming) \in Nat /\ DOMAIN coming = 1..Len(coming) /\ u \in Nat /\ m \in Nat
      /\ \A i \in 1..Len(coming) : coming[i].first \in Int /\ coming[i].last \in Int
  BY LineFacts
<1>8. n \in 0..Len(coming) /\ s \in 1..(u + k + 1)
  <2>1. n \in Nat /\ n + 1 \in 1..(n + 1)
    BY <1>3, <1>7 DEF EndedAt
  <2> HIDE DEF n
  <2> QED BY <1>2, <1>3, <2>1, StartFacts DEF EndedAt
<1> HIDE DEF n, s, u, m
<1>9. /\ Len(buffer') = u + k + 1 - s /\ Len(wire') = m - k
      /\ \A j \in 1..(u + m + 1 - s) : (buffer' \o wire')[j] = (buffer \o wire)[j + s - 1]
  BY <1>2, <1>6, <1>8, Remains DEF u, m
<1>10. Len(buffer') = Left(coming, k, n)
  <2>1. CASE n < Len(coming)
    <3>1. s = u + coming[n + 1].first /\ coming[n + 1].first \in Int
      BY <1>7, <1>8, <2>1 DEF s, Start, u
    <3>2. Left(coming, k, n) = k - coming[n + 1].first + 1
      BY <2>1 DEF Left
    <3> DEFINE x == coming[n + 1].first
    <3>3. x \in Int /\ s = u + x /\ Left(coming, k, n) = k - x + 1
      BY <3>1, <3>2
    <3> HIDE DEF x
    <3> QED BY <1>2, <1>7, <1>9, <3>3
  <2>2. CASE ~(n < Len(coming))
    <3>1. s = u + k + 1
      BY <1>7, <1>8, <2>2 DEF s, Start, u
    <3>2. Left(coming, k, n) = 0
      BY <2>2 DEF Left
    <3> QED BY <1>2, <1>7, <1>9, <3>1, <3>2
  <2> QED BY <2>1, <2>2
<1>11. InLine(u, m, coming)
  BY DEF Line, u, m
<1>12. InLine(Len(buffer'), Len(wire'), coming')
  <2>1. InLine(Left(coming, k, n), m - k, Behind(coming, k, n))
    BY <1>2, <1>3, <1>7, <1>11, BehindInLine
  <2> QED BY <1>6, <1>9, <1>10, <2>1
<1>13. /\ coming' \in Seq(Coming) /\ Len(coming') = Len(coming) - n
       /\ \A i \in 1..(Len(coming) - n) :
            /\ i + n \in 1..Len(coming)
            /\ coming'[i].first = coming[i + n].first - k
            /\ coming'[i].last = coming[i + n].last - k
            /\ coming'[i].message = coming[i + n].message
  <2>1. coming \in Seq(Coming) /\ k \in Int
    BY <1>2, <1>7, <1>11 DEF InLine, InOrder
  <2> QED BY <1>6, <1>8, <2>1, BehindFacts
<1>14. ASSUME NEW i \in DOMAIN coming'
       PROVE  Placed(buffer' \o wire', Len(buffer'), coming'[i])
  <2> DEFINE c == coming[i + n]
             d == coming'[i]
  <2>1. i \in 1..(Len(coming) - n) /\ i + n \in 1..Len(coming) /\ d \in Coming
    BY <1>13
  <2>2. c \in Coming /\ Placed(buffer \o wire, u, c)
    <3>1. coming \in Seq(Coming)
      BY <1>11 DEF InLine, InOrder
    <3> QED BY <1>7, <2>1, <3>1 DEF Line, u
  <2>3. n < Len(coming) /\ n + 1 \in 1..Len(coming) /\ n + 1 <= i + n
    BY <1>7, <1>8, <2>1
  <2>4. s = u + coming[n + 1].first
    BY <2>3, <1>7 DEF s, Start, u
  <2>5. coming[n + 1].first <= c.first /\ c.last <= m
    BY <2>1, <2>3, LineOrder DEF m
  <2>6. \A j \in (u + c.first + 1 - s)..(u + c.last + 1 - s) : j \in 1..(u + m + 1 - s)
    <3> DEFINE x == c.first
               y == c.last
               z == coming[n + 1].first
    <3>1. x \in Int /\ y \in Int /\ z \in Int /\ z <= x /\ y <= m /\ s = u + z
      BY <1>7, <2>1, <2>3, <2>4, <2>5
    <3> HIDE DEF x, y, z
    <3>2. \A j \in (u + x + 1 - s)..(u + y + 1 - s) : j \in 1..(u + m + 1 - s)
      BY <1>7, <3>1
    <3> QED BY <3>2 DEF x, y
  <2>7. /\ d.first = c.first - k /\ d.last = c.last - k /\ d.message = c.message
        /\ k \in Int /\ s \in Int /\ Len(buffer') \in Nat
    <3>1. Len(buffer') = u + k + 1 - s
      BY <1>9
    <3>2. d.first = c.first - k /\ d.last = c.last - k /\ d.message = c.message
      BY <1>13, <2>1
    <3>3. k \in Int /\ s \in Int
      BY <1>2, <1>7, <1>8
    <3>4. u + k + 1 - s \in Nat
      BY <1>2, <1>7, <1>8
    <3> QED BY <3>1, <3>2, <3>3, <3>4
  <2> HIDE DEF c, d
  <2>8. \A j \in (u + c.first + 1 - s)..(u + c.last + 1 - s) :
          (buffer' \o wire')[j] = (buffer \o wire)[j + s - 1]
    BY <1>9, <2>6
  <2>9. Placed(buffer' \o wire', Len(buffer'), d)
    <3> DEFINE q == buffer \o wire
               r == buffer' \o wire'
               a == Len(buffer')
    <3>1. a = u + k + 1 - s
      BY <1>9
    <3>2. /\ Placed(q, u, c)
          /\ \A j \in (u + c.first + 1 - s)..(u + c.last + 1 - s) : r[j] = q[j + s - 1]
      BY <2>2, <2>8
    <3>3. a \in Nat
      BY <2>7
    <3> HIDE DEF q, r, a
    <3>4. d \in Coming /\ c \in Coming /\ u \in Nat
      BY <1>7, <2>1, <2>2 DEF d
    <3>5. Moved(q, u, c, r, a, d, k, s)
      BY <2>7, <3>1, <3>2 DEF Moved
    <3>6. Placed(r, a, d)
      BY <2>7, <3>2, <3>3, <3>4, <3>5, PlacedMoves
    <3> QED BY <3>6 DEF r, a
  <2> QED BY <2>9 DEF d
<1> QED BY <1>5, <1>12, <1>14 DEF Line

LEMMA AppendFacts ==
    ASSUME NEW S, NEW c \in Seq(S), NEW d \in S
    PROVE  /\ Append(c, d) \in Seq(S) /\ Len(Append(c, d)) = Len(c) + 1 /\ Append(c, d) # <<>>
           /\ \A i \in 1..Len(c) : Append(c, d)[i] = c[i]
           /\ Append(c, d)[Len(c) + 1] = d
  OBVIOUS

\* A frame that is sent is the last in the line.
LEMMA SendInLine ==
    ASSUME NEW b \in Nat, NEW m \in Nat, NEW c, InLine(b, m, c), NEW l \in Nat, l >= 1,
           \A i \in 1..Len(c) : c[i].last <= m,
           NEW d \in Coming, d.first = m + 1, d.last = m + l
    PROVE  InLine(b, m + l, Append(c, d))
<1> DEFINE e == Append(c, d)
           n == Len(c)
<1>1. /\ n \in Nat /\ DOMAIN c = 1..n /\ c \in Seq(Coming)
      /\ \A i \in 1..n : c[i].first \in Int /\ c[i].last \in Int
  BY LineTypes DEF InLine, InOrder
<1>2. /\ e \in Seq(Coming) /\ Len(e) = n + 1 /\ e # <<>>
      /\ \A i \in 1..n : e[i] = c[i]
      /\ e[n + 1] = d
  BY <1>1, AppendFacts
<1> HIDE DEF e
<1>3. e[1].first = 1 - b /\ e[1].last >= 1
  <2>1. CASE c = <<>>
    <3>1. n = 0 /\ b = 0 /\ m = 0
      BY <2>1 DEF InLine
    <3>2. e[1] = d
      BY <1>2, <3>1
    <3> QED BY <3>1, <3>2
  <2>2. CASE c # <<>>
    <3>1. 1 \in 1..n
      BY <1>1, <2>2
    <3> QED BY <1>2, <2>2, <3>1 DEF InLine
  <2> QED BY <2>1, <2>2
<1>4. e[Len(e)].last = m + l
  BY <1>2
<1>5. ASSUME NEW i \in 1..(Len(e) - 1) PROVE e[i + 1].first = e[i].last + 1
  <2>1. i \in 1..n /\ e[i] = c[i]
    BY <1>1, <1>2
  <2>2. CASE i = n
    <3>1. c # <<>>
      BY <1>1, <2>1
    <3>2. c[n].last = m /\ e[i + 1] = d /\ e[i] = c[n]
      BY <1>2, <2>1, <2>2, <3>1 DEF InLine
    <3> QED BY <3>2
  <2>3. CASE i # n
    <3>1. i \in 1..(n - 1) /\ i + 1 \in 1..n
      <4> HIDE DEF n
      <4> QED BY <1>1, <2>1, <2>3
    <3>2. e[i + 1] = c[i + 1]
      BY <1>2, <3>1
    <3>3. c[i + 1].first = c[i].last + 1
      BY <3>1 DEF InLine
    <3> QED BY <2>1, <3>2, <3>3
  <2> QED BY <2>2, <2>3
<1>6. ASSUME NEW i \in DOMAIN e, NEW j \in DOMAIN e, i < j PROVE e[i].last < e[j].first
  <2>1. i \in 1..(n + 1) /\ j \in 1..(n + 1)
    BY <1>2
  <2>2. i \in 1..n /\ e[i] = c[i]
    BY <1>1, <1>2, <1>6, <2>1
  <2>3. CASE j = n + 1
    <3>1. e[j] = d /\ c[i].last <= m /\ c[i].last \in Int
      BY <1>1, <1>2, <2>2, <2>3
    <3> QED BY <2>2, <3>1
  <2>4. CASE j # n + 1
    <3>1. j \in 1..n /\ e[j] = c[j]
      BY <1>1, <1>2, <2>1, <2>4
    <3>2. c[i].last < c[j].first
      BY <1>1, <1>6, <2>2, <3>1 DEF InLine, InOrder
    <3> QED BY <2>2, <3>1, <3>2
  <2> QED BY <2>3, <2>4
<1>7. e # <<>> /\ e \in Seq(Coming)
  BY <1>2
<1> QED BY <1>3, <1>4, <1>5, <1>6, <1>7 DEF InLine, InOrder, e

\* The frames of c are in q, which begins b bytes before a wire of m bytes.
Inside(q, b, m, c) ==
    \A i \in DOMAIN c : Placed(q, b, c[i]) /\ 1 - b <= c[i].first /\ c[i].last <= m

\* A frame that is sent is there as well.
LEMMA SendPlaced ==
    ASSUME OnlyBytes, coming \in Seq(Coming), Inside(buffer \o wire, Len(buffer), Len(wire), coming),
           ScaleSends
    PROVE  /\ Inside(buffer' \o wire', Len(buffer'), Len(wire'), coming')
           /\ \E l \in Nat, d \in Coming :
                /\ l >= 1 /\ Len(wire') = Len(wire) + l /\ coming' = Append(coming, d)
                /\ d.first = Len(wire) + 1 /\ d.last = Len(wire) + l
<1> DEFINE b == Len(buffer)
           m == Len(wire)
<1>1. PICK f \in Frames[sent + 1] :
        /\ wire' = wire \o f.bytes
        /\ coming' = Append(coming, [first |-> m + 1, last |-> m + Len(f.bytes),
                                     message |-> f.message])
  BY DEF ScaleSends
<1>2. sent + 1 \in 1..MaxFrames
  BY FramesAssumption DEF ScaleSends, OnlyBytes
<1> DEFINE l == Len(f.bytes)
           d == [first |-> m + 1, last |-> m + l, message |-> f.message]
<1>3. f.bytes \in Seq(Bytes) /\ l \in Nat /\ l >= 4
  BY <1>2, FramesAssumption
<1>4. buffer \in Seq(Bytes) /\ wire \in Seq(Bytes) /\ b \in Nat /\ m \in Nat
  BY DEF OnlyBytes
<1>5. /\ wire' \in Seq(Bytes) /\ Len(wire') = m + l
      /\ \A j \in 1..m : wire'[j] = wire[j]
      /\ \A j \in 1..l : wire'[m + j] = f.bytes[j]
  <2>1. wire' \in Seq(Bytes) /\ Len(wire') = m + l
    BY <1>1, <1>3, <1>4
  <2>2. ASSUME NEW j \in 1..m PROVE wire'[j] = wire[j]
    BY <1>1, <1>3, <1>4
  <2>3. ASSUME NEW j \in 1..l PROVE wire'[m + j] = f.bytes[j]
    BY <1>1, <1>3, <1>4
  <2> QED BY <2>1, <2>2, <2>3
<1>6. /\ DOMAIN coming = 1..Len(coming) /\ Len(coming) \in Nat
      /\ \A i \in 1..Len(coming) : coming[i].first \in Int /\ coming[i].last \in Int
  BY LineTypes
<1>7. d \in Coming
  <2>1. f.message \in SentMessage
    BY <1>2, FramesAssumption DEF SentMessage, Range
  <2> QED BY <1>3, <1>4, <2>1 DEF Coming
<1>8. coming' = Append(coming, d) /\ d.first = m + 1 /\ d.last = m + l /\ d.message = f.message
  BY <1>1
<1>10. buffer' = buffer
  BY DEF ScaleSends
<1> HIDE DEF b, m, l, d
<1>13. /\ DOMAIN coming' = 1..(Len(coming) + 1)
       /\ \A i \in 1..Len(coming) : coming'[i] = coming[i]
       /\ coming'[Len(coming) + 1] = d
  <2>1. /\ coming' \in Seq(Coming) /\ Len(coming') = Len(coming) + 1
        /\ \A i \in 1..Len(coming) : coming'[i] = coming[i]
        /\ coming'[Len(coming) + 1] = d
    BY <1>7, <1>8, AppendFacts
  <2> QED BY <2>1
<1> DEFINE q == buffer \o wire
           r == buffer \o wire'
<1>14. \A j \in 1..(b + m) : r[j] = q[j]
  <2> SUFFICES ASSUME NEW j \in 1..(b + m) PROVE r[j] = q[j]
    OBVIOUS
  <2>1. j \in 1..(b + Len(wire)) /\ j \in 1..(b + Len(wire'))
    BY <1>3, <1>4, <1>5 DEF m
  <2>2. /\ q[j] = IF j <= b THEN buffer[j] ELSE wire[j - b]
        /\ r[j] = IF j <= b THEN buffer[j] ELSE wire'[j - b]
    BY <1>4, <1>5, <2>1, JoinFacts DEF b
  <2>3. ~(j <= b) => j - b \in 1..m
    BY <1>4
  <2> QED BY <1>5, <2>2, <2>3
<1>15. \A j \in 1..l : r[b + m + j] = f.bytes[j]
  <2> SUFFICES ASSUME NEW j \in 1..l PROVE r[b + m + j] = f.bytes[j]
    OBVIOUS
  <2>1. b + m + j \in 1..(b + Len(wire')) /\ ~(b + m + j <= b) /\ (b + m + j) - b = m + j
    BY <1>3, <1>4, <1>5
  <2> DEFINE i == b + m + j
  <2>2. i \in 1..(b + Len(wire')) /\ ~(i <= b)
    BY <2>1
  <2> HIDE DEF i, r
  <2>3. r[i] = wire'[i - b]
    BY <1>4, <1>5, <2>2, JoinFacts DEF b, r
  <2> QED BY <1>5, <2>1, <2>3 DEF i
<1>16. ASSUME NEW i \in 1..Len(coming) PROVE Placed(r, b, coming[i])
  <2> DEFINE c == coming[i]
  <2>1. c \in Coming /\ Placed(q, b, c)
    BY <1>6 DEF Inside, b
  <2>2. c.first \in Int /\ c.last \in Int /\ c.last <= m /\ 1 - b <= c.first
    BY <1>6 DEF Inside, b, m
  <2> HIDE DEF c, q, r
  <2>3. Placed(r, b, c)
    BY <1>4, <1>14, <2>1, <2>2, PlacedStays
  <2> QED BY <2>3 DEF c
<1>17. Placed(r, b, d)
  <2> HIDE DEF r
  <2>1. d.last - d.first + 1 = l
    BY <1>3, <1>4, <1>8
  <2>2. \A j \in 1..l : r[b + d.first - 1 + j] = f.bytes[j]
    <3> SUFFICES ASSUME NEW j \in 1..l PROVE r[b + d.first - 1 + j] = f.bytes[j]
      OBVIOUS
    <3>1. b + d.first - 1 + j = b + m + j
      BY <1>3, <1>4, <1>8
    <3> QED BY <1>15, <3>1
  <2> QED BY <1>2, <1>8, <2>1, <2>2 DEF Placed, l
<1>18. ASSUME NEW i \in DOMAIN coming'
       PROVE  Placed(r, b, coming'[i]) /\ 1 - b <= coming'[i].first /\ coming'[i].last <= m + l
  <2> HIDE DEF r, q
  <2>1. CASE i \in 1..Len(coming)
    <3>1. coming'[i] = coming[i] /\ i \in DOMAIN coming
      BY <1>6, <1>13, <2>1
    <3>2. coming[i].last \in Int /\ 1 - b <= coming[i].first /\ coming[i].last <= m
      BY <1>6, <3>1 DEF Inside, b, m
    <3> QED BY <1>3, <1>4, <1>16, <2>1, <3>1, <3>2
  <2>2. CASE i = Len(coming) + 1
    <3>1. coming'[i] = d
      BY <1>13, <2>2
    <3> QED BY <1>3, <1>4, <1>8, <1>17, <3>1
  <2> QED BY <1>6, <1>13, <2>1, <2>2
<1>19. Inside(buffer' \o wire', Len(buffer'), Len(wire'), coming')
  <2>1. b = Len(buffer') /\ m + l = Len(wire') /\ r = buffer' \o wire'
    BY <1>5, <1>10 DEF b
  <2> HIDE DEF r
  <2> QED BY <1>18, <2>1 DEF Inside
<1>20. l \in Nat /\ l >= 1 /\ Len(wire') = Len(wire) + l
  BY <1>3, <1>5 DEF m
<1> QED BY <1>7, <1>8, <1>19, <1>20 DEF m

LEMMA SendLine ==
    ASSUME OnlyBytes, WholeFrames, Line, ScaleSends
    PROVE  Line' /\ (applied = owed => applied' = owed')
<1> DEFINE b == Len(buffer)
           m == Len(wire)
<1>1. /\ DOMAIN coming = 1..Len(coming) /\ Len(coming) \in Nat /\ b \in Nat /\ m \in Nat
      /\ \A i \in 1..Len(coming) : coming[i].first \in Int /\ coming[i].last \in Int
  BY LineFacts
<1>2. InLine(b, m, coming) /\ coming \in Seq(Coming)
  BY DEF Line, InLine, InOrder
<1>3. /\ \A i \in 1..Len(coming) : coming[i].last <= m
      /\ \A i \in 1..Len(coming) : 1 - b <= coming[i].first
  <2>1. ASSUME NEW i \in 1..Len(coming) PROVE 1 - b <= coming[i].first
    <3>1. coming # <<>> /\ 1 \in 1..Len(coming)
      BY <1>1
    <3>2. coming[1].first <= coming[i].first /\ coming[1].first = 1 - b
      BY <1>1, <1>2, <3>1, LineOrder DEF InLine
    <3> QED BY <3>2
  <2> QED BY <2>1, LineOrder
<1>4. Inside(buffer \o wire, b, m, coming)
  BY <1>1, <1>3 DEF Inside, Line
<1>5. PICK l \in Nat, d \in Coming :
        /\ l >= 1 /\ Len(wire') = m + l /\ coming' = Append(coming, d)
        /\ d.first = m + 1 /\ d.last = m + l
  BY <1>2, <1>4, SendPlaced
<1>6. Inside(buffer' \o wire', Len(buffer'), Len(wire'), coming') /\ buffer' = buffer
  BY <1>2, <1>4, SendPlaced DEF ScaleSends
<1> HIDE DEF b, m
<1>7. InLine(b, m + l, Append(coming, d))
  BY <1>1, <1>2, <1>3, <1>5, SendInLine
<1>8. Line'
  BY <1>5, <1>6, <1>7 DEF Line, Inside, b
<1> QED BY <1>8 DEF ScaleSends

\* As long as nothing disturbed the link, the line is whole and every frame applied.
Orderly == Undisturbed => Line /\ applied = owed

LEMMA OrderlyNext ==
    ASSUME OnlyBytes, WholeFrames, damaged \in Nat, breaks \in Nat, Orderly, [Next]_vars
    PROVE  Orderly' /\ damaged' \in Nat /\ breaks' \in Nat
<1>1. CASE ScaleSends
  <2>1. Undisturbed' => Undisturbed
    BY <1>1 DEF ScaleSends, Undisturbed
  <2>2. damaged' = damaged /\ breaks' = breaks
    BY <1>1 DEF ScaleSends
  <2> QED BY <1>1, <2>1, <2>2, SendLine DEF Orderly
<1>2. CASE DamagedSent
  <2>1. damaged' = damaged + 1 /\ breaks' = breaks
    BY <1>2 DEF DamagedSent
  <2> QED BY <2>1 DEF Orderly, Undisturbed
<1>3. CASE Receive
  <2>1. damaged' = damaged /\ breaks' = breaks
    BY <1>3 DEF Receive, Arrives
  <2>2. Undisturbed' => Undisturbed
    BY <2>1 DEF Undisturbed
  <2> QED BY <1>3, <2>1, <2>2, ReceiveLine DEF Orderly
<1>4. CASE CallbackRaises
  <2>1. damaged' = damaged /\ breaks' = breaks + 1
    BY <1>4 DEF CallbackRaises, Arrives
  <2> QED BY <2>1 DEF Orderly, Undisturbed
<1>5. CASE Reconnects
  <2>1. damaged' = damaged /\ breaks' = breaks + 1
    BY <1>5 DEF Reconnects
  <2> QED BY <2>1 DEF Orderly, Undisturbed
<1>6. CASE UNCHANGED vars
  BY <1>6 DEF vars, Orderly, Undisturbed, Line
<1> QED BY <1>1, <1>2, <1>3, <1>4, <1>5, <1>6 DEF Next

\* Whatever the cuts between notifications: while nothing is damaged or lost and
\* no callback raises, every frame that arrived whole was applied once, in order
\* and with the notification that completes it, and nothing else was.
THEOREM FramesOnce ==
    ASSUME WholeFrames
    PROVE  Spec => [](Undisturbed => EveryFrameOnce)
<1> DEFINE I == OnlyBytes /\ BufferIsFragment /\ damaged \in Nat /\ breaks \in Nat /\ Orderly
<1>1. Init => I
  BY FramesAssumption DEF Init, OnlyBytes, BufferIsFragment, Orderly, Line, InLine, InOrder
<1>2. I /\ [Next]_vars => I'
  BY OrderlyNext, NextBytes
<1>3. I => (Undisturbed => EveryFrameOnce)
  BY DEF Orderly, EveryFrameOnce
<1> QED BY <1>1, <1>2, <1>3, PTL DEF Spec

-----------------------------------------------------------------------------
(* The folds over the messages of a notification.                            *)

\* g is the fold of the functions F from base over every part of 1..n.
Folds(g, F, base, n) ==
    g = [s \in SUBSET (1..n) |-> IF s = {} THEN base ELSE F[Max(s)][g[s \ {Max(s)}]]]

LEMMA PartFacts ==
    ASSUME NEW n \in Nat, NEW s \in SUBSET (1..n)
    PROVE  IsFiniteSet(s) /\ Cardinality(s) \in 0..n
<1>1. IsFiniteSet(1..n) /\ Cardinality(1..n) = n
  <2>1. 1 \in Int /\ n \in Int /\ n - 1 + 1 = n
    OBVIOUS
  <2>2. IsFiniteSet(1..n) /\ Cardinality(1..n) = IF 1 > n THEN 0 ELSE n - 1 + 1
    BY <2>1, FS_Interval
  <2> QED BY <2>1, <2>2
<1> DEFINE S == 1..n
<1>2. s \in SUBSET S /\ IsFiniteSet(S) /\ Cardinality(S) = n
  BY <1>1
<1> HIDE DEF S
<1>3. IsFiniteSet(s) /\ Cardinality(s) <= n
  BY <1>2, FS_Subset
<1> QED BY <1>3, FS_CardinalityType

LEMMA LastTaken ==
    ASSUME NEW n \in Nat, NEW s \in SUBSET (1..n), s # {}
    PROVE  /\ Max(s) \in s /\ Max(s) \in 1..n /\ s \ {Max(s)} \in SUBSET (1..n)
           /\ Cardinality(s) \in Nat /\ Cardinality(s \ {Max(s)}) = Cardinality(s) - 1
           /\ Cardinality(s) >= 1
<1> DEFINE r == s \ {Max(s)}
<1>1. s \in SUBSET (0..n)
  OBVIOUS
<1>2. Max(s) \in s
  BY <1>1, MaxFacts
<1>3. IsFiniteSet(s) /\ Cardinality(s) \in Nat /\ Cardinality(r) \in Nat
  <2>1. r \in SUBSET (1..n)
    OBVIOUS
  <2> HIDE DEF r
  <2> QED BY <2>1, PartFacts
<1>4. Cardinality(r) = Cardinality(s) - 1
  BY <1>2, <1>3, FS_RemoveElement
<1>5. Cardinality(s) >= 1
  <2> HIDE DEF r
  <2> QED BY <1>3, <1>4
<1> QED BY <1>2, <1>3, <1>4, <1>5

LEMMA FoldExists ==
    ASSUME NEW n \in Nat, NEW V, NEW base \in V, NEW F \in [1..n -> [V -> V]]
    PROVE  \E g \in [SUBSET (1..n) -> V] : Folds(g, F, base, n)
<1> DEFINE S == SUBSET (1..n)
           One(g, s) == IF s = {} THEN base ELSE F[Max(s)][g[s \ {Max(s)}]]
           Good(g, k) == \A s \in S : Cardinality(s) <= k => g[s] = One(g, s)
           T == {k \in 0..n : \E g \in [S -> V] : Good(g, k)}
<1>1. 0 \in T
  <2> DEFINE g == [s \in S |-> base]
  <2>1. g \in [S -> V]
    OBVIOUS
  <2>2. ASSUME NEW s \in S, Cardinality(s) <= 0 PROVE g[s] = One(g, s)
    <3>1. s = {}
      <4> SUFFICES ASSUME s # {} PROVE FALSE
        OBVIOUS
      <4>1. Cardinality(s) \in Nat /\ Cardinality(s) >= 1
        BY LastTaken
      <4> QED BY <2>2, <4>1
    <3> QED BY <3>1
  <2> HIDE DEF g
  <2>3. Good(g, 0)
    BY <2>2
  <2>4. 0 \in 0..n
    OBVIOUS
  <2> HIDE DEF Good, S
  <2> QED BY <2>1, <2>3, <2>4
<1>2. ASSUME NEW k \in 1..n, k - 1 \in T PROVE k \in T
  <2> HIDE DEF Good
  <2>1. PICK g \in [S -> V] : Good(g, k - 1)
    BY <1>2
  <2> DEFINE h == [s \in S |-> One(g, s)]
  <2>2. ASSUME NEW s \in S, s # {} PROVE s \ {Max(s)} \in S /\ F[Max(s)][g[s \ {Max(s)}]] \in V
    <3>1. Max(s) \in 1..n /\ s \ {Max(s)} \in S
      BY <2>2, LastTaken
    <3>2. g[s \ {Max(s)}] \in V /\ F[Max(s)] \in [V -> V]
      BY <3>1
    <3> QED BY <3>1, <3>2
  <2>3. h \in [S -> V]
    <3>1. \A s \in S : One(g, s) \in V
      BY <2>2
    <3> QED BY <3>1
  <2>4. ASSUME NEW s \in S, Cardinality(s) <= k PROVE h[s] = One(h, s)
    <3>1. CASE s = {}
      BY <3>1
    <3>2. CASE s # {}
      <4> DEFINE r == s \ {Max(s)}
      <4>1. r \in S /\ Cardinality(r) <= k - 1
        <5>1. r \in S /\ Cardinality(s) \in Nat /\ Cardinality(r) = Cardinality(s) - 1
          BY <3>2, LastTaken
        <5> HIDE DEF r
        <5> QED BY <2>4, <5>1
      <4>2. g[r] = One(g, r)
        BY <2>1, <4>1 DEF Good
      <4>3. h[r] = One(g, r)
        BY <4>1
      <4>4. g[r] = h[r]
        BY <4>2, <4>3
      <4>5. h[s] = F[Max(s)][g[r]] /\ One(h, s) = F[Max(s)][h[r]]
        BY <3>2
      <4> QED BY <4>4, <4>5, Zenon
    <3> QED BY <3>1, <3>2, Zenon
  <2> HIDE DEF h
  <2>5. Good(h, k)
    BY <2>4 DEF Good
  <2> QED BY <2>3, <2>5
<1>3. n \in T
  <2> HIDE DEF T
  <2> QED BY <1>1, <1>2, UpTo
<1>4. PICK g \in [S -> V] : Good(g, n)
  BY <1>3
<1>5. ASSUME NEW s \in S PROVE g[s] = One(g, s)
  <2>1. Cardinality(s) <= n
    BY PartFacts
  <2> QED BY <1>4, <2>1
<1>6. g = [s \in S |-> One(g, s)]
  BY <1>5
<1> QED BY <1>6 DEF Folds

LEMMA UpToLast ==
    ASSUME NEW n \in Nat, NEW k \in 1..n
    PROVE  /\ 1..k \in SUBSET (1..n) /\ 1..k # {} /\ Max(1..k) = k
           /\ (1..k) \ {k} = 1..(k - 1) /\ 1..(k - 1) \in SUBSET (1..n)
<1> DEFINE s == 1..k
<1>1. s \in SUBSET (1..n) /\ s # {} /\ s \in SUBSET (0..k) /\ k \in Nat /\ k \in s
  OBVIOUS
<1>2. Max(s) \in s /\ k <= Max(s)
  <2> HIDE DEF s
  <2> QED BY <1>1, MaxFacts
<1> QED BY <1>1, <1>2

\* What a handler has kept after each of the messages.
Kept(Q, st, ms) == Q[0] = st /\ \A k \in 1..Len(ms) : Q[k] = Applied(Q[k - 1], ms[k])

LEMMA AppliedFolds ==
    ASSUME NEW M, NEW ms \in Seq(M), NEW w, NEW d
    PROVE  LET st == [weight |-> w, device |-> d]
           IN  \E Q : Kept(Q, st, ms) /\ FoldLeft(Applied, st, ms) = Q[Len(ms)]
<1> DEFINE n  == Len(ms)
           st == [weight |-> w, device |-> d]
           W  == {w} \cup {ms[i].weight : i \in 1..n}
           D  == {d} \cup {ms[i] : i \in 1..n}
           V  == [weight : W, device : D]
           F  == [i \in 1..n |-> [v \in V |-> Applied(v, ms[i])]]
           Eq(g) == g = [s \in SUBSET DOMAIN ms |->
                           IF s = {} THEN st ELSE Applied(g[s \ {Max(s)}], ms[Max(s)])]
<1>1. n \in Nat /\ DOMAIN ms = 1..n /\ st \in V
  OBVIOUS
<1>2. FoldLeft(Applied, st, ms) = (CHOOSE g : Eq(g))[DOMAIN ms]
  BY DEF FoldLeft, MapThenFoldSet
<1>3. ASSUME NEW v \in V, NEW i \in 1..n PROVE Applied(v, ms[i]) \in V
  <2>1. ms[i].weight \in W /\ ms[i] \in D
    OBVIOUS
  <2> DEFINE m == ms[i]
  <2> HIDE DEF m, W, D
  <2>2. v = [weight |-> v.weight, device |-> v.device] /\ v.weight \in W /\ v.device \in D
    OBVIOUS
  <2>3. [v EXCEPT !.device = m] \in V /\ [v EXCEPT !.weight = m.weight] \in V
    BY <2>1, <2>2 DEF m
  <2> HIDE DEF V
  <2> QED BY <2>3 DEF Applied, m
<1> HIDE DEF V, st
<1>4. F \in [1..n -> [V -> V]]
  BY <1>3
<1> HIDE DEF F
<1>5. PICK g \in [SUBSET (1..n) -> V] : Folds(g, F, st, n)
  BY <1>1, <1>4, FoldExists
<1>6. Eq(g)
  <2>1. ASSUME NEW s \in SUBSET (1..n), s # {}
        PROVE  F[Max(s)][g[s \ {Max(s)}]] = Applied(g[s \ {Max(s)}], ms[Max(s)])
    <3>1. Max(s) \in 1..n /\ g[s \ {Max(s)}] \in V
      BY <1>1, <2>1, LastTaken
    <3> QED BY <3>1 DEF F
  <2>2. g = [s \in SUBSET (1..n) |-> IF s = {} THEN st ELSE F[Max(s)][g[s \ {Max(s)}]]]
    BY <1>5 DEF Folds
  <2>3. [s \in SUBSET (1..n) |-> IF s = {} THEN st ELSE F[Max(s)][g[s \ {Max(s)}]]]
          = [s \in SUBSET (1..n) |-> IF s = {} THEN st ELSE Applied(g[s \ {Max(s)}], ms[Max(s)])]
    BY <2>1
  <2> QED BY <1>1, <2>2, <2>3
<1> DEFINE h == CHOOSE x : Eq(x)
<1>7. Eq(h)
  BY <1>6
<1> DEFINE Q == [k \in 0..n |-> h[1..k]]
<1>8. \A s \in SUBSET (1..n) :
        h[s] = IF s = {} THEN st ELSE Applied(h[s \ {Max(s)}], ms[Max(s)])
  BY <1>1, <1>7
<1> HIDE DEF h
<1>9. Q[0] = st
  <2>1. 1..0 = {} /\ {} \in SUBSET (1..n)
    OBVIOUS
  <2>2. h[{}] = st
    BY <1>8, <2>1
  <2> QED BY <1>1, <2>1, <2>2
<1>10. ASSUME NEW k \in 1..n PROVE Q[k] = Applied(Q[k - 1], ms[k])
  <2> DEFINE s == 1..k
  <2>1. s \in SUBSET (1..n) /\ s # {} /\ Max(s) = k /\ s \ {k} = 1..(k - 1)
    BY <1>1, UpToLast
  <2>2. h[s] = Applied(h[s \ {Max(s)}], ms[Max(s)])
    <3> HIDE DEF s
    <3> QED BY <1>8, <2>1
  <2>3. Q[k] = h[s] /\ Q[k - 1] = h[1..(k - 1)]
    BY <1>1
  <2> QED BY <2>1, <2>2, <2>3
<1>11. Q[n] = h[1..n]
  BY <1>1
<1> HIDE DEF Q
<1>12. Kept(Q, st, ms)
  BY <1>9, <1>10 DEF Kept
<1> QED BY <1>1, <1>2, <1>11, <1>12 DEF st, h

\* The messages that carry state among the first ones of a notification.
Gathered(C, ms) ==
    /\ C[0] = <<>>
    /\ \A k \in 1..Len(ms) : C[k] = IF Carries(ms[k]) THEN Append(C[k - 1], ms[k]) ELSE C[k - 1]

LEMMA CarriedFolds ==
    ASSUME NEW M, NEW ms \in Seq(M)
    PROVE  \E C : Gathered(C, ms) /\ Carried(ms) = C[Len(ms)]
<1> DEFINE n  == Len(ms)
           V  == Seq(M)
           Joined(v, m) == IF Carries(m) THEN Append(v, m) ELSE v
           F  == [i \in 1..n |-> [v \in V |-> Joined(v, ms[i])]]
           Eq(g) == g = [s \in SUBSET DOMAIN ms |->
                           IF s = {} THEN <<>> ELSE Joined(g[s \ {Max(s)}], ms[Max(s)])]
<1>1. n \in Nat /\ DOMAIN ms = 1..n /\ <<>> \in V
  OBVIOUS
<1>2. Carried(ms) = (CHOOSE g : Eq(g))[DOMAIN ms]
  BY DEF Carried, FoldLeft, MapThenFoldSet
<1>3. ASSUME NEW v \in V, NEW i \in 1..n PROVE Joined(v, ms[i]) \in V
  <2>1. ms[i] \in M
    OBVIOUS
  <2> QED BY <2>1
<1> HIDE DEF V, Joined
<1>4. F \in [1..n -> [V -> V]]
  BY <1>3
<1> HIDE DEF F
<1>5. PICK g \in [SUBSET (1..n) -> V] : Folds(g, F, <<>>, n)
  BY <1>1, <1>4, FoldExists
<1>6. Eq(g)
  <2>1. ASSUME NEW s \in SUBSET (1..n), s # {}
        PROVE  F[Max(s)][g[s \ {Max(s)}]] = Joined(g[s \ {Max(s)}], ms[Max(s)])
    <3>1. Max(s) \in 1..n /\ g[s \ {Max(s)}] \in V
      BY <1>1, <2>1, LastTaken
    <3> QED BY <3>1 DEF F
  <2>2. g = [s \in SUBSET (1..n) |-> IF s = {} THEN <<>> ELSE F[Max(s)][g[s \ {Max(s)}]]]
    BY <1>5 DEF Folds
  <2>3. [s \in SUBSET (1..n) |-> IF s = {} THEN <<>> ELSE F[Max(s)][g[s \ {Max(s)}]]]
          = [s \in SUBSET (1..n) |-> IF s = {} THEN <<>> ELSE Joined(g[s \ {Max(s)}], ms[Max(s)])]
    BY <2>1
  <2> QED BY <1>1, <2>2, <2>3
<1> DEFINE h == CHOOSE x : Eq(x)
<1>7. Eq(h)
  BY <1>6
<1> DEFINE C == [k \in 0..n |-> h[1..k]]
<1>8. \A s \in SUBSET (1..n) :
        h[s] = IF s = {} THEN <<>> ELSE Joined(h[s \ {Max(s)}], ms[Max(s)])
  BY <1>1, <1>7
<1> HIDE DEF h
<1>9. C[0] = <<>>
  <2>1. 1..0 = {} /\ {} \in SUBSET (1..n)
    OBVIOUS
  <2>2. h[{}] = <<>>
    BY <1>8, <2>1
  <2> QED BY <1>1, <2>1, <2>2
<1>10. ASSUME NEW k \in 1..n PROVE C[k] = Joined(C[k - 1], ms[k])
  <2> DEFINE s == 1..k
  <2>1. s \in SUBSET (1..n) /\ s # {} /\ Max(s) = k /\ s \ {k} = 1..(k - 1)
    BY <1>1, UpToLast
  <2>2. h[s] = Joined(h[s \ {Max(s)}], ms[Max(s)])
    <3> HIDE DEF s
    <3> QED BY <1>8, <2>1
  <2>3. C[k] = h[s] /\ C[k - 1] = h[1..(k - 1)]
    BY <1>1
  <2> QED BY <2>1, <2>2, <2>3
<1>11. C[n] = h[1..n]
  BY <1>1
<1> HIDE DEF C
<1>12. Gathered(C, ms)
  BY <1>9, <1>10 DEF Gathered, Joined
<1> QED BY <1>1, <1>2, <1>11, <1>12 DEF h

-----------------------------------------------------------------------------
(* The latest values.                                                        *)

Weighs(m)     == m.kind \in {"Weight", "Button"} /\ m.weight # {}
Weighing(a)   == {i \in DOMAIN a : Weighs(a[i])}
SettingsIn(a) == {i \in DOMAIN a : a[i].kind = "Settings"}

\* LatestValues of any messages.
Latest(w, d, a) ==
    /\ w = IF Weighing(a) = {} THEN {} ELSE a[Max(Weighing(a))].weight
    /\ d = IF SettingsIn(a) = {} THEN None ELSE a[Max(SettingsIn(a))]

Holds(v, a) == \E w, d : v = [weight |-> w, device |-> d] /\ Latest(w, d, a)

\* A weight has a value.
Weighty(m) == m.kind = "Weight" => m.weight # {}

Messages == {Decode(q, s) : q \in Seq(Bytes), s \in Nat}

LEMMA DecodeWeighty ==
    ASSUME NEW q, NEW s
    PROVE  Weighty(Decode(q, s))
<1>1. \A payload : Weighty(ParseWeight(payload))
  BY DEF ParseWeight, Weighty, Error
<1>2. \A payload : Weighty(ParseTimer(payload))
  BY DEF ParseTimer, Weighty, Error
<1>3. \A payload : Weighty(ParseButton(payload))
  BY DEF ParseButton, Weighty, Error
<1>4. \A body : Weighty(ParseSettings(body))
  BY DEF ParseSettings, Weighty, Error
<1>5. Weighty(Error) /\ Weighty(Ack) /\ Weighty(Ignored)
  BY DEF Weighty, Error, Ack, Ignored
<1> HIDE DEF Error, Ack, Ignored
<1>6. \A payload : Weighty(ParseHeartbeat(payload))
  BY <1>1, <1>2, <1>3, <1>5 DEF ParseHeartbeat
<1>7. \A type, payload : Weighty(ParseMessage(type, payload))
  BY <1>1, <1>2, <1>3, <1>5, <1>6 DEF ParseMessage
<1> QED BY <1>4, <1>5, <1>7 DEF Decode

LEMMA MarkedLast ==
    ASSUME NEW n \in Nat, NEW S \in SUBSET (1..n)
    PROVE  /\ Max(S \cup {n + 1}) = n + 1
           /\ S # {} => Max(S) \in 1..n
<1> DEFINE U == S \cup {n + 1}
<1>1. U \in SUBSET (0..(n + 1)) /\ U # {} /\ n + 1 \in U /\ n + 1 \in Nat
  OBVIOUS
<1>2. Max(U) \in U /\ n + 1 <= Max(U)
  <2> HIDE DEF U
  <2> QED BY <1>1, MaxFacts
<1>3. Max(U) = n + 1
  <2>1. \A x \in U : x \in Int /\ x <= n + 1
    OBVIOUS
  <2> DEFINE x == Max(U)
  <2> HIDE DEF U
  <2>2. x \in Int /\ x <= n + 1 /\ n + 1 <= x
    BY <1>2, <2>1, Zenon
  <2> HIDE DEF x
  <2>3. x = n + 1
    BY <1>1, <2>2
  <2> QED BY <2>3 DEF x
<1>4. S # {} => Max(S) \in S
  BY MaxFacts
<1> QED BY <1>3, <1>4

LEMMA WeighingAppend ==
    ASSUME NEW M, NEW a \in Seq(M), NEW m \in M
    PROVE  LET b == Append(a, m)
           IN  IF Weighs(m)
               THEN Weighing(b) # {} /\ b[Max(Weighing(b))] = m
               ELSE /\ Weighing(b) = Weighing(a)
                    /\ Weighing(a) # {} => b[Max(Weighing(b))] = a[Max(Weighing(a))]
<1> DEFINE b == Append(a, m)
           n == Len(a)
           S == Weighing(a)
<1>1. /\ n \in Nat /\ DOMAIN a = 1..n /\ DOMAIN b = 1..(n + 1) /\ b[n + 1] = m
      /\ \A i \in 1..n : b[i] = a[i]
  OBVIOUS
<1>2. S \in SUBSET (1..n)
  BY <1>1 DEF Weighing
<1> HIDE DEF b, n
<1>3. Weighing(b) = IF Weighs(m) THEN S \cup {n + 1} ELSE S
  <2>1. \A i : i \in 1..(n + 1) <=> i \in 1..n \/ i = n + 1
    BY <1>1
  <2>2. ~(n + 1 \in 1..n)
    BY <1>1
  <2> QED BY <1>1, <2>1, <2>2 DEF Weighing
<1> HIDE DEF S
<1>4. Max(S \cup {n + 1}) = n + 1 /\ (S # {} => Max(S) \in 1..n)
  BY <1>1, <1>2, MarkedLast
<1> QED BY <1>1, <1>3, <1>4 DEF S, b

LEMMA SettingsAppend ==
    ASSUME NEW M, NEW a \in Seq(M), NEW m \in M
    PROVE  LET b == Append(a, m)
           IN  IF m.kind = "Settings"
               THEN SettingsIn(b) # {} /\ b[Max(SettingsIn(b))] = m
               ELSE /\ SettingsIn(b) = SettingsIn(a)
                    /\ SettingsIn(a) # {} => b[Max(SettingsIn(b))] = a[Max(SettingsIn(a))]
<1> DEFINE b == Append(a, m)
           n == Len(a)
           S == SettingsIn(a)
<1>1. /\ n \in Nat /\ DOMAIN a = 1..n /\ DOMAIN b = 1..(n + 1) /\ b[n + 1] = m
      /\ \A i \in 1..n : b[i] = a[i]
  OBVIOUS
<1>2. S \in SUBSET (1..n)
  BY <1>1 DEF SettingsIn
<1> HIDE DEF b, n
<1>3. SettingsIn(b) = IF m.kind = "Settings" THEN S \cup {n + 1} ELSE S
  <2>1. \A i : i \in 1..(n + 1) <=> i \in 1..n \/ i = n + 1
    BY <1>1
  <2>2. ~(n + 1 \in 1..n)
    BY <1>1
  <2> QED BY <1>1, <2>1, <2>2 DEF SettingsIn
<1> HIDE DEF S
<1>4. Max(S \cup {n + 1}) = n + 1 /\ (S # {} => Max(S) \in 1..n)
  BY <1>1, <1>2, MarkedLast
<1> QED BY <1>1, <1>3, <1>4 DEF S, b

\* One message keeps the latest values.
LEMMA LatestStep ==
    ASSUME NEW M, NEW a \in Seq(M), NEW m \in M, Weighty(m), NEW v, Holds(v, a)
    PROVE  Holds(Applied(v, m), IF Carries(m) THEN Append(a, m) ELSE a)
<1>1. PICK w, d : v = [weight |-> w, device |-> d] /\ Latest(w, d, a)
  BY DEF Holds
<1> DEFINE b == Append(a, m)
<1>2. /\ Weighs(m) => Latest(m.weight, d, b) \/ m.kind = "Settings"
      /\ m.kind = "Settings" => Latest(w, m, b)
      /\ ~Weighs(m) /\ m.kind # "Settings" => Latest(w, d, b)
  <2>1. m.kind = "Settings" => ~Weighs(m)
    BY DEF Weighs
  <2>2. IF Weighs(m)
        THEN Weighing(b) # {} /\ b[Max(Weighing(b))] = m
        ELSE /\ Weighing(b) = Weighing(a)
             /\ Weighing(a) # {} => b[Max(Weighing(b))] = a[Max(Weighing(a))]
    BY WeighingAppend
  <2>3. IF m.kind = "Settings"
        THEN SettingsIn(b) # {} /\ b[Max(SettingsIn(b))] = m
        ELSE /\ SettingsIn(b) = SettingsIn(a)
             /\ SettingsIn(a) # {} => b[Max(SettingsIn(b))] = a[Max(SettingsIn(a))]
    BY SettingsAppend
  <2> HIDE DEF b
  <2> QED BY <1>1, <2>1, <2>2, <2>3 DEF Latest
<1> HIDE DEF b
<1>3. CASE m.kind = "Settings"
  <2>1. Applied(v, m) = [weight |-> w, device |-> m]
    BY <1>1, <1>3 DEF Applied
  <2>2. Carries(m)
    BY <1>3 DEF Carries
  <2> QED BY <1>2, <1>3, <2>1, <2>2 DEF Holds, b
<1>4. CASE Weighs(m) /\ m.kind # "Settings"
  <2>1. [v EXCEPT !.weight = m.weight] = [weight |-> m.weight, device |-> d]
    BY <1>1
  <2>2. Applied(v, m) = [weight |-> m.weight, device |-> d]
    BY <1>4, <2>1 DEF Applied, Weighs
  <2>3. Carries(m)
    BY <1>4 DEF Carries, Weighs
  <2> QED BY <1>2, <1>4, <2>2, <2>3 DEF Holds, b
<1>5. CASE ~Weighs(m) /\ m.kind # "Settings"
  <2>1. Applied(v, m) = v
    BY <1>5 DEF Applied, Weighs, Weighty
  <2>2. Latest(w, d, IF Carries(m) THEN b ELSE a)
    BY <1>1, <1>2, <1>5
  <2> QED BY <1>1, <2>1, <2>2 DEF Holds, b
<1> QED BY <1>3, <1>4, <1>5

\* Which hold of what was applied, whatever that was.
Valued == applied \in Seq(Messages) /\ Latest(weight, device, applied)

LEMMA JoinAppend ==
    ASSUME NEW a \in Seq(Messages), NEW c \in Seq(Messages), NEW m \in Messages
    PROVE  Append(a \o c, m) = a \o Append(c, m)
<1>1. <<m>> \in Seq(Messages) /\ a \o c \in Seq(Messages)
  OBVIOUS
<1>2. Append(a \o c, m) = (a \o c) \o <<m>> /\ Append(c, m) = c \o <<m>>
  BY <1>1, AppendIsConcat, Zenon
<1> DEFINE u == <<m>>
<1>3. u \in Seq(Messages)
  BY <1>1
<1> HIDE DEF u
<1>4. (a \o c) \o u = a \o (c \o u)
  BY <1>3, ConcatAssociative
<1> QED BY <1>2, <1>4 DEF u

LEMMA ApplyLatest ==
    ASSUME Valued, NEW ms \in Seq(Messages), Apply(ms)
    PROVE  Valued'
<1> DEFINE n  == Len(ms)
           st == [weight |-> weight, device |-> device]
<1>1. PICK Q : Kept(Q, st, ms) /\ FoldLeft(Applied, st, ms) = Q[n]
  BY AppliedFolds
<1>2. PICK C : Gathered(C, ms) /\ Carried(ms) = C[n]
  BY CarriedFolds
<1> DEFINE T == {k \in 0..n : C[k] \in Seq(Messages) /\ Holds(Q[k], applied \o C[k])}
<1>3. n \in Nat /\ applied \in Seq(Messages)
  BY DEF Valued
<1>4. 0 \in T
  <2>1. C[0] = <<>> /\ Q[0] = st /\ <<>> \in Seq(Messages)
    BY <1>1, <1>2 DEF Gathered, Kept
  <2>2. applied \o <<>> = applied
    BY <1>3, ConcatEmptySeq, Zenon
  <2>3. Holds(st, applied)
    BY DEF Holds, Valued
  <2>4. Holds(Q[0], applied \o C[0])
    BY <2>1, <2>2, <2>3, Zenon
  <2>5. C[0] \in Seq(Messages)
    BY <2>1
  <2>6. 0 \in 0..n
    BY <1>3
  <2> QED BY <2>4, <2>5, <2>6, Zenon
<1>5. ASSUME NEW k \in 1..n, k - 1 \in T PROVE k \in T
  <2> DEFINE m == ms[k]
             c == C[k - 1]
             a == applied \o c
  <2>1. m \in Messages /\ Weighty(m)
    <3>1. m \in Messages
      BY <1>3
    <3> QED BY <3>1, DecodeWeighty DEF Messages
  <2>2. c \in Seq(Messages) /\ a \in Seq(Messages) /\ Holds(Q[k - 1], a)
    BY <1>3, <1>5
  <2>3. Q[k] = Applied(Q[k - 1], m) /\ C[k] = IF Carries(m) THEN Append(c, m) ELSE c
    BY <1>1, <1>2 DEF Kept, Gathered
  <2> HIDE DEF m, c
  <2>4. Append(a, m) = applied \o Append(c, m) /\ Append(c, m) \in Seq(Messages)
    <3>1. Append(c, m) \in Seq(Messages)
      BY <2>1, <2>2
    <3>2. Append(applied \o c, m) = applied \o Append(c, m)
      <4>1. applied \in Seq(Messages) /\ c \in Seq(Messages) /\ m \in Messages
        BY <1>3, <2>1, <2>2
      <4> QED BY <4>1, JoinAppend
    <3> QED BY <3>1, <3>2
  <2> HIDE DEF a
  <2>5. Holds(Applied(Q[k - 1], m), IF Carries(m) THEN Append(a, m) ELSE a)
    BY <2>1, <2>2, LatestStep
  <2>6. C[k] \in Seq(Messages) /\ applied \o C[k] = IF Carries(m) THEN Append(a, m) ELSE a
    BY <2>2, <2>3, <2>4 DEF a
  <2>7. k \in 0..n
    OBVIOUS
  <2> QED BY <2>3, <2>5, <2>6, <2>7
<1>6. n \in T
  <2> HIDE DEF T, n
  <2> QED BY <1>3, <1>4, <1>5, UpTo
<1>7. PICK w, d : Q[n] = [weight |-> w, device |-> d] /\ Latest(w, d, applied \o C[n])
  BY <1>6 DEF Holds
<1>8. weight' = w /\ device' = d /\ applied' = applied \o C[n]
  BY <1>1, <1>2, <1>7 DEF Apply
<1>9. applied \o C[n] \in Seq(Messages)
  BY <1>3, <1>6
<1> HIDE DEF n
<1> QED BY <1>7, <1>8, <1>9 DEF Valued

LEMMA ExtractMessagesType ==
    ASSUME NEW p \in Seq(Bytes)
    PROVE  ExtractMessages(p).messages \in Seq(Messages)
<1>1. PICK m \in Seq(Decoded(p)), r \in Seq(Bytes) :
        ExtractMessages(p) = [messages |-> m, rest |-> r] /\ Fragment(r)
  BY ExtractResult DEF Result
<1>2. Decoded(p) \subseteq Messages
  BY DEF Decoded, Messages
<1> QED BY <1>1, <1>2

LEMMA ValuedNext ==
    ASSUME OnlyBytes, Valued, [Next]_vars
    PROVE  Valued'
<1>1. CASE ScaleSends \/ DamagedSent \/ Reconnects \/ UNCHANGED vars
  <2>1. UNCHANGED <<weight, device, applied>>
    BY <1>1 DEF ScaleSends, DamagedSent, Reconnects, vars
  <2> QED BY <2>1 DEF Valued
<1>2. CASE Receive
  <2>1. PICK k \in DOMAIN wire : Apply(ExtractMessages(buffer \o SubSeq(wire, 1, k)).messages)
    BY <1>2 DEF Receive
  <2>2. ExtractMessages(buffer \o SubSeq(wire, 1, k)).messages \in Seq(Messages)
    BY ArrivesBytes, ExtractMessagesType
  <2> QED BY <2>1, <2>2, ApplyLatest
<1>3. CASE CallbackRaises
  <2>1. PICK k \in DOMAIN wire :
          LET ms == ExtractMessages(buffer \o SubSeq(wire, 1, k)).messages
          IN  \E n \in DOMAIN ms : Apply(SubSeq(ms, 1, n))
    BY <1>3 DEF CallbackRaises
  <2> DEFINE ms == ExtractMessages(buffer \o SubSeq(wire, 1, k)).messages
  <2>2. ms \in Seq(Messages)
    BY ArrivesBytes, ExtractMessagesType
  <2> HIDE DEF ms
  <2>3. PICK n \in DOMAIN ms : Apply(SubSeq(ms, 1, n))
    BY <2>1 DEF ms
  <2>4. SubSeq(ms, 1, n) \in Seq(Messages)
    BY <2>2
  <2> QED BY <2>3, <2>4, ApplyLatest
<1> QED BY <1>1, <1>2, <1>3 DEF Next

\* Whatever arrives, damaged, cut off or left by an exception: the weight and the
\* settings are those of the last messages that were applied with one, so of the
\* last frames wherever the frames that arrived were the ones applied.
THEOREM LatestKept == Spec => [](EveryFrameOnce => LatestValues)
<1> DEFINE I == OnlyBytes /\ BufferIsFragment /\ Valued
<1>1. Init => I
  BY FramesAssumption DEF Init, OnlyBytes, BufferIsFragment, Valued, Latest, Weighing, SettingsIn
<1>2. I /\ [Next]_vars => I'
  BY NextBytes, ValuedNext
<1>3. I => (EveryFrameOnce => LatestValues)
  BY DEF Valued, Latest, Weighing, Weighs, SettingsIn, EveryFrameOnce, LatestValues
<1> QED BY <1>1, <1>2, <1>3, PTL DEF Spec

\* So they are those of the frames that arrived as long as nothing disturbed the link.
COROLLARY LatestUndisturbed ==
    ASSUME WholeFrames
    PROVE  Spec => [](Undisturbed => LatestValues)
BY FramesOnce, LatestKept, PTL

-----------------------------------------------------------------------------
(* Types.                                                                    *)

\* What _apply_message keeps.
State == [weight : Optional(Weights), device : Settings \cup {None}]

\* A notification's messages: those decode makes, without the errors.
LEMMA ExtractedType ==
    ASSUME NEW p \in Seq(Bytes)
    PROVE  ExtractMessages(p).messages \in Seq(Message)
<1>1. PICK m \in Seq(Decoded(p)), r \in Seq(Bytes) :
        ExtractMessages(p) = [messages |-> m, rest |-> r] /\ Fragment(r)
  BY ExtractResult DEF Result
<1>2. Decoded(p) \subseteq Message
  BY DEF Decoded
<1> QED BY <1>1, <1>2

LEMMA AppliedType ==
    ASSUME NEW st \in State, NEW m \in Message
    PROVE  Applied(st, m) \in State
<1>1. st = [weight |-> st.weight, device |-> st.device]
      /\ st.weight \in Optional(Weights) /\ st.device \in Settings \cup {None}
  BY DEF State
<1>2. ASSUME NEW w \in Optional(Weights) PROVE [st EXCEPT !.weight = w] \in State
  BY <1>1, <1>2 DEF State
<1>3. ASSUME NEW d \in Settings PROVE [st EXCEPT !.device = d] \in State
  BY <1>1, <1>3 DEF State
<1>4. CASE m \in Settings
  <2>1. m.kind = "Settings"
    BY <1>4 DEF Settings
  <2> QED BY <1>3, <1>4, <2>1 DEF Applied
<1>5. CASE m \in WeightMessage \/ m \in ButtonMessage
  <2>1. m.kind \in {"Weight", "Button"} /\ m.weight \in Optional(Weights)
    BY <1>5 DEF WeightMessage, ButtonMessage
  <2> QED BY <1>2, <2>1 DEF Applied
<1>6. CASE m \in TimerMessage \cup {Ack, Ignored}
  <2>1. m.kind \in {"Timer", "Ack", "None"}
    BY <1>6 DEF TimerMessage, Ack, Ignored
  <2> QED BY <2>1 DEF Applied
<1> QED BY <1>4, <1>5, <1>6 DEF Message

LEMMA CarriedType ==
    ASSUME NEW M, NEW ms \in Seq(M)
    PROVE  Carried(ms) \in Seq(M)
<1> DEFINE n == Len(ms)
<1>1. PICK C : Gathered(C, ms) /\ Carried(ms) = C[n]
  BY CarriedFolds
<1> DEFINE T == {k \in 0..n : C[k] \in Seq(M)}
<1>2. n \in Nat /\ \A k \in 1..n : ms[k] \in M
  OBVIOUS
<1>3. 0 \in T
  <2>1. C[0] \in Seq(M)
    BY <1>1 DEF Gathered
  <2> QED BY <1>2, <2>1
<1>4. ASSUME NEW k \in 1..n, k - 1 \in T PROVE k \in T
  <2>1. C[k - 1] \in Seq(M) /\ ms[k] \in M
    BY <1>2, <1>4
  <2>2. Append(C[k - 1], ms[k]) \in Seq(M)
    BY <2>1
  <2>3. C[k] \in Seq(M)
    BY <1>1, <2>1, <2>2 DEF Gathered
  <2> QED BY <2>3
<1>5. n \in T
  <2> HIDE DEF T, n
  <2> QED BY <1>2, <1>3, <1>4, UpTo
<1> QED BY <1>1, <1>5

\* The values, and what was applied, when a notification's messages are applied.
Valid == [weight |-> weight, device |-> device] \in State /\ applied \in Seq(Message)

LEMMA ApplyType ==
    ASSUME Valid, NEW ms \in Seq(Message), Apply(ms)
    PROVE  Valid'
<1> DEFINE n  == Len(ms)
           st == [weight |-> weight, device |-> device]
<1>1. PICK Q : Kept(Q, st, ms) /\ FoldLeft(Applied, st, ms) = Q[n]
  BY AppliedFolds
<1> DEFINE T == {k \in 0..n : Q[k] \in State}
<1>2. n \in Nat /\ \A k \in 1..n : ms[k] \in Message
  OBVIOUS
<1>3. 0 \in T
  <2>1. Q[0] \in State
    BY <1>1 DEF Kept, Valid
  <2> QED BY <1>2, <2>1
<1>4. ASSUME NEW k \in 1..n, k - 1 \in T PROVE k \in T
  <2>1. Q[k - 1] \in State /\ ms[k] \in Message
    BY <1>2, <1>4
  <2>2. Q[k] = Applied(Q[k - 1], ms[k])
    BY <1>1 DEF Kept
  <2>3. Q[k] \in State
    BY <2>1, <2>2, AppliedType
  <2> QED BY <2>3
<1>5. n \in T
  <2> HIDE DEF T, n
  <2> QED BY <1>2, <1>3, <1>4, UpTo
<1>6. Q[n] \in State /\ weight' = Q[n].weight /\ device' = Q[n].device
  BY <1>1, <1>5 DEF Apply
<1>7. Q[n] = [weight |-> Q[n].weight, device |-> Q[n].device]
  BY <1>6 DEF State
<1>8. applied' \in Seq(Message)
  <2>1. Carried(ms) \in Seq(Message) /\ applied \in Seq(Message)
    BY CarriedType DEF Valid
  <2>2. applied' = applied \o Carried(ms)
    BY DEF Apply
  <2> QED BY <2>1, <2>2, ConcatProperties
<1> QED BY <1>6, <1>7, <1>8 DEF Valid

\* The history of the frames.
Known ==
    /\ coming \in Seq(Coming) /\ owed \in Seq(SentMessage)
    /\ damaged \in 0..MaxDamaged /\ breaks \in 0..MaxBreaks

LEMMA CountsType ==
    ASSUME Known, NEW k
    PROVE  Ended(k) \in 0..Len(coming) /\ Begun(k) \in 0..Len(coming)
<1> DEFINE n == Len(coming)
           S == {0} \cup {i \in DOMAIN coming : coming[i].last <= k}
           R == {0} \cup {i \in DOMAIN coming : coming[i].first <= k}
<1>1. n \in Nat /\ DOMAIN coming = 1..n
  BY DEF Known
<1>2. S \in SUBSET (0..n) /\ S # {} /\ R \in SUBSET (0..n) /\ R # {}
  BY <1>1
<1>3. Max(S) \in 0..n /\ Max(R) \in 0..n
  <2> HIDE DEF S, R, n
  <2>1. Max(S) \in S /\ Max(R) \in R
    BY <1>1, <1>2, MaxFacts
  <2> QED BY <1>2, <2>1
<1> QED BY <1>3 DEF Ended, Begun

LEMMA CompletedType ==
    ASSUME Known, NEW k
    PROVE  Completed(k) \in Seq(SentMessage)
<1> DEFINE n == Ended(k)
           ms == [i \in 1..n |-> coming[i].message]
<1>1. n \in Nat /\ \A i \in 1..n : coming[i].message \in SentMessage
  <2>1. n \in 0..Len(coming) /\ Len(coming) \in Nat
    BY CountsType DEF Known
  <2> HIDE DEF n
  <2>2. \A i \in 1..n : i \in 1..Len(coming)
    BY <2>1
  <2>3. \A i \in 1..Len(coming) : coming[i] \in Coming
    BY DEF Known
  <2> QED BY <2>1, <2>2, <2>3 DEF Coming
<1>2. ms \in Seq(SentMessage)
  <2> HIDE DEF n
  <2> QED BY <1>1
<1>3. Completed(k) = Carried(ms)
  BY DEF Completed
<1> HIDE DEF ms
<1> QED BY <1>2, <1>3, CarriedType

LEMMA ArrivesType ==
    ASSUME Known, NEW k \in Nat, NEW n \in 0..Len(coming), Arrives(k, n)
    PROVE  coming' \in Seq(Coming) /\ damaged' = damaged
<1>1. coming' = Behind(coming, k, n) /\ damaged' = damaged
  BY DEF Arrives, Behind
<1>2. coming \in Seq(Coming) /\ k \in Int
  BY DEF Known
<1> QED BY <1>1, <1>2, BehindFacts

LEMMA TypesNext ==
    ASSUME OnlyBytes, Valid, Known, [Next]_vars
    PROVE  Valid' /\ Known'
<1>1. CASE ScaleSends
  <2>1. sent + 1 \in 1..MaxFrames /\ Len(wire) \in Nat
    BY <1>1, FramesAssumption DEF ScaleSends, OnlyBytes
  <2>2. PICK f \in Frames[sent + 1] :
          coming' = Append(coming, [first |-> Len(wire) + 1, last |-> Len(wire) + Len(f.bytes),
                                    message |-> f.message])
    BY <1>1 DEF ScaleSends
  <2>3. f.message \in SentMessage /\ Len(f.bytes) \in Nat
    BY <2>1, FramesAssumption DEF SentMessage, Range
  <2> DEFINE d == [first |-> Len(wire) + 1, last |-> Len(wire) + Len(f.bytes),
                   message |-> f.message]
  <2>4. d \in Coming
    BY <2>1, <2>3 DEF Coming
  <2>5. coming' = Append(coming, d)
    BY <2>2
  <2> HIDE DEF d
  <2>6. coming' \in Seq(Coming)
    BY <2>4, <2>5, AppendFacts DEF Known
  <2>7. UNCHANGED <<weight, device, applied, owed, damaged, breaks>>
    BY <1>1 DEF ScaleSends
  <2> QED BY <2>6, <2>7 DEF Valid, Known
<1>2. CASE DamagedSent
  <2>1. /\ UNCHANGED <<weight, device, applied, coming, owed, breaks>>
        /\ damaged < MaxDamaged /\ damaged' = damaged + 1
    BY <1>2 DEF DamagedSent
  <2>2. damaged' \in 0..MaxDamaged
    BY <2>1, BoundsAssumption DEF Known
  <2> QED BY <2>1, <2>2 DEF Valid, Known
<1>3. CASE Receive
  <2>1. PICK k \in DOMAIN wire :
          /\ Apply(ExtractMessages(buffer \o SubSeq(wire, 1, k)).messages)
          /\ owed' = owed \o Completed(k) /\ Arrives(k, Ended(k)) /\ breaks' = breaks
    BY <1>3 DEF Receive
  <2>2. ExtractMessages(buffer \o SubSeq(wire, 1, k)).messages \in Seq(Message)
    BY ArrivesBytes, ExtractedType
  <2>3. Valid'
    BY <2>1, <2>2, ApplyType
  <2>4. k \in Nat
    BY DEF OnlyBytes
  <2>5. coming' \in Seq(Coming) /\ damaged' = damaged
    BY <2>1, <2>4, CountsType, ArrivesType
  <2>6. owed' \in Seq(SentMessage)
    <3>1. owed \in Seq(SentMessage) /\ Completed(k) \in Seq(SentMessage)
      BY CompletedType DEF Known
    <3> QED BY <2>1, <3>1, ConcatProperties
  <2> QED BY <2>1, <2>3, <2>5, <2>6 DEF Known
<1>4. CASE CallbackRaises
  <2>0. breaks < MaxBreaks /\ breaks' = breaks + 1
    BY <1>4 DEF CallbackRaises
  <2>1. PICK k \in DOMAIN wire :
          LET messages == ExtractMessages(buffer \o SubSeq(wire, 1, k)).messages
          IN  \E n \in DOMAIN messages :
                LET done == Len(Carried(SubSeq(messages, 1, n)))
                IN  /\ Apply(SubSeq(messages, 1, n))
                    /\ owed' = owed \o SubSeq(Completed(k), 1, Min({done, Len(Completed(k))}))
                    /\ Arrives(k, Begun(k))
    BY <1>4 DEF CallbackRaises
  <2> DEFINE messages == ExtractMessages(buffer \o SubSeq(wire, 1, k)).messages
  <2>2. messages \in Seq(Message)
    BY ArrivesBytes, ExtractedType
  <2> HIDE DEF messages
  <2>3. PICK n \in DOMAIN messages :
          LET done == Len(Carried(SubSeq(messages, 1, n)))
          IN  /\ Apply(SubSeq(messages, 1, n))
              /\ owed' = owed \o SubSeq(Completed(k), 1, Min({done, Len(Completed(k))}))
              /\ Arrives(k, Begun(k))
    BY <2>1 DEF messages
  <2> DEFINE c    == Completed(k)
             ms   == SubSeq(messages, 1, n)
             done == Len(Carried(ms))
  <2>4. ms \in Seq(Message)
    BY <2>2
  <2>5. Valid'
    BY <2>3, <2>4, ApplyType
  <2>6. k \in Nat
    BY DEF OnlyBytes
  <2>7. coming' \in Seq(Coming) /\ damaged' = damaged
    BY <2>3, <2>6, CountsType, ArrivesType
  <2>8. owed' \in Seq(SentMessage)
    <3>1. c \in Seq(SentMessage) /\ owed \in Seq(SentMessage)
      BY CompletedType DEF Known
    <3>2. done \in Nat
      <4> HIDE DEF ms
      <4>1. Carried(ms) \in Seq(Message)
        BY <2>4, CarriedType
      <4> QED BY <4>1
    <3>3. owed' = owed \o SubSeq(c, 1, Min({done, Len(c)}))
      BY <2>3
    <3> HIDE DEF c, done
    <3> DEFINE l == Len(c)
               j == Min({done, l})
    <3>4. l \in Nat
      BY <3>1
    <3>5. j \in {done, l} /\ j <= l
      <4> HIDE DEF l
      <4>1. {done, l} \in SUBSET Nat /\ {done, l} # {} /\ l \in {done, l}
        BY <3>2, <3>4
      <4> QED BY <4>1, MinFacts
    <3>6. j \in Nat
      BY <3>2, <3>4, <3>5
    <3> HIDE DEF j
    <3>7. SubSeq(c, 1, j) \in Seq(SentMessage)
      <4>1. \A i \in 1..j : i \in 1..Len(c)
        BY <3>4, <3>5, <3>6
      <4>2. \A i \in 1..j : c[i] \in SentMessage
        BY <3>1, <4>1, ElementOfSeq
      <4>3. 1 \in Int /\ j \in Int
        BY <3>6
      <4> QED BY <4>2, <4>3, SubSeqProperties
    <3>8. owed' = owed \o SubSeq(c, 1, j)
      BY <3>3 DEF j
    <3> QED BY <3>1, <3>7, <3>8, ConcatProperties
  <2>9. breaks' \in 0..MaxBreaks
    BY <2>0, BoundsAssumption DEF Known
  <2> QED BY <2>5, <2>7, <2>8, <2>9 DEF Known
<1>5. CASE Reconnects
  <2>1. /\ UNCHANGED <<weight, device, applied, owed, damaged>>
        /\ breaks < MaxBreaks /\ breaks' = breaks + 1 /\ coming' = <<>>
    BY <1>5 DEF Reconnects
  <2>2. breaks' \in 0..MaxBreaks /\ coming' \in Seq(Coming)
    BY <2>1, BoundsAssumption DEF Known
  <2> QED BY <2>1, <2>2 DEF Valid, Known
<1>6. CASE UNCHANGED vars
  BY <1>6 DEF vars, Valid, Known
<1> QED BY <1>1, <1>2, <1>3, <1>4, <1>5, <1>6 DEF Next

\* Whatever bytes arrive, the state is made of the values the scale can express:
\* _weight is None or a weight, _device_state is None or settings, and what was
\* applied are messages, none of them an error.
THEOREM StreamTypeCorrect == Spec => []TypeOK
<1> DEFINE I == OnlyBytes /\ BufferIsFragment /\ Valid /\ Known
<1>1. Init => I
  <2> SUFFICES ASSUME Init PROVE I
    OBVIOUS
  <2>1. OnlyBytes /\ BufferIsFragment
    BY FramesAssumption DEF Init, OnlyBytes, BufferIsFragment
  <2>2. Valid
    <3>1. {} \in Optional(Weights)
      BY DEF Optional
    <3>2. weight = {} /\ device = None /\ applied = <<>>
      BY DEF Init
    <3>3. <<>> \in Seq(Message)
      OBVIOUS
    <3> QED BY <3>1, <3>2, <3>3 DEF Valid, State
  <2>3. Known
    BY BoundsAssumption DEF Init, Known
  <2> QED BY <2>1, <2>2, <2>3
<1>2. I /\ [Next]_vars => I'
  BY NextBytes, TypesNext
<1>3. I => TypeOK
  <2> SUFFICES ASSUME I PROVE TypeOK
    OBVIOUS
  <2>1. weight \in Optional(Weights) /\ device \in Settings \cup {None}
    BY DEF Valid, State
  <2> QED BY <2>1 DEF TypeOK, OnlyBytes, Valid, Known, Coming
<1> QED BY <1>1, <1>2, <1>3, PTL DEF Spec

-----------------------------------------------------------------------------
(* Encoded frames.                                                           *)

\* With no header behind its own, a frame that encode makes and the decoder takes is
\* whole, as FramesOnce presumes.
THEOREM EncodedIsWhole ==
    ASSUME NEW command, NEW payload \in Payloads,
           Headers(Encode(command, payload), 3) = {}, Decode(Encode(command, payload), 1) # Error
    PROVE  WholeFrame([bytes |-> Encode(command, payload),
                       message |-> Decode(Encode(command, payload), 1)])
<1> DEFINE b == Encode(command, payload)
           m == Decode(b, 1)
           f == [bytes |-> b, message |-> m]
           x == AlternateSum(payload, 1)
           y == AlternateSum(payload, 2)
           V == Bytes \cup {command, x, y}
<1>1. /\ b \in Seq(V) /\ Len(b) = Len(payload) + 5
      /\ Len(payload) \in Nat /\ Len(payload) >= 1
  <2>1. Parts(b, command, payload)
    BY EncodeFacts
  <2> HIDE DEF b
  <2> QED BY <2>1 DEF Parts, FRAME_OVERHEAD, Payloads
<1>2. b[1] = HEADER1 /\ b[2] = HEADER2 /\ FrameLength(b, 1) = Len(b)
  BY EncodedIsDecoded
<1>3. Headers(b, 3) = {} /\ m # Error
  OBVIOUS
<1> HIDE DEF b, m, V
<1>4. ASSUME NEW k \in 1..(Len(b) - 1) PROVE NextFrames(SubSeq(b, 1, k), 1) = {}
  <2> DEFINE p == SubSeq(b, 1, k)
  <2>1. Len(p) = k /\ \A i \in 1..k : p[i] = b[i]
    <3>1. k \in Nat /\ k <= Len(b) /\ k - 1 + 1 = k
      BY <1>1
    <3>2. p = [i \in 1..k |-> b[i + 1 - 1]]
      BY <3>1
    <3> HIDE DEF p
    <3>3. \A i \in 1..k : i + 1 - 1 = i
      BY <3>1
    <3> QED BY <3>1, <3>2, <3>3
  <2> HIDE DEF p
  <2>2. Headers(p, 3) = {}
    <3> SUFFICES ASSUME NEW j \in Headers(p, 3) PROVE FALSE
      OBVIOUS
    <3>1. j \in 3..(k - 1) /\ p[j] = HEADER1 /\ p[j + 1] = HEADER2
      BY <2>1 DEF Headers
    <3>2. j \in 1..k /\ j + 1 \in 1..k /\ j \in 3..(Len(b) - 1)
      BY <1>1, <3>1
    <3>3. b[j] = HEADER1 /\ b[j + 1] = HEADER2
      BY <2>1, <3>1, <3>2
    <3>4. j \in Headers(b, 3)
      BY <3>2, <3>3 DEF Headers
    <3> QED BY <1>3, <3>4
  <2>3. NextFrames(p, 1) = {}
    <3>1. 1 + 2 = 3
      OBVIOUS
    <3>2. NextFrames(p, 1) \subseteq Headers(p, 1 + 2)
      BY DEF NextFrames
    <3> QED BY <2>2, <3>1, <3>2
  <2> QED BY <2>3 DEF p
<1>5. f.bytes = b /\ f.message = m
  OBVIOUS
<1> HIDE DEF f
<1>6. /\ Len(b) >= MIN_FRAME_LENGTH /\ Len(b) = FrameLength(b, 1)
  BY <1>1, <1>2 DEF MIN_FRAME_LENGTH
<1>7. Decode(b, 1) = m
  BY DEF m
<1>8. WholeFrame(f)
  BY <1>2, <1>3, <1>4, <1>5, <1>6, <1>7 DEF WholeFrame, SoundFrame
<1> QED BY <1>8 DEF b, m, f

=============================================================================
