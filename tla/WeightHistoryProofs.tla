------------------------- MODULE WeightHistoryProofs -------------------------
(***************************************************************************)
(* For every limit, window, margin and set of weights: the readings kept   *)
(* rise, are recent and close to the current weight, a fit spans two       *)
(* connections only where connect() began before the callback, and the     *)
(* flow it gives is one that the readings have.                            *)
(*                                                                         *)
(* That the front of the history has the oldest readings is what makes it  *)
(* enough to remove readings there; and a connect() that begins after the  *)
(* callback makes its link when every reading is at least ReconnectDelay   *)
(* old, so older than Window.  IInv adds how old readings are.             *)
(*                                                                         *)
(* The flow is bounded for any readings at all.  If every pair of them     *)
(* were steeper than the fitted line, then what is left of the weights     *)
(* above that line would rise with time, and its covariance with time,     *)
(* which a fit makes zero, would be positive.  The sums of a fit are folds *)
(* over sets: induction over the size of a set, by its least               *)
(* counterexample, gives their prefixes (Prefix), and induction over a     *)
(* prefix gives the sign of a covariance (Spread).                         *)
(***************************************************************************)
EXTENDS WeightHistory, SequenceTheorems, FiniteSetTheorems, WellFoundedInduction, TLAPS

USE LimitAssumption, DelayAssumption, WeightAssumption, BoundAssumption

\* The readings of h rise in weight and are in the order of their times.
Rising(h) ==
    \A i, j \in DOMAIN h : i < j => h[i].weight < h[j].weight /\ h[i].time <= h[j].time

\* How old the readings are: at the end of a link, for a connect() that began
\* after its callback, and on the link that call makes.
Ages ==
    /\ reading.session <= session
    /\ ~(up /\ due)
    /\ wake # NoTime /\ ~early => ~up /\ ~due
    /\ \A i \in DOMAIN history :
         /\ history[i].time <= now /\ history[i].session <= session
         /\ ~up /\ ~due => history[i].time <= lastDisconnect
         /\ wake # NoTime /\ ~early => history[i].time + ReconnectDelay <= wake
         /\ up /\ ~hasty /\ history[i].session # session =>
              history[i].time + ReconnectDelay <= now

IInv == TypeOK /\ HistoryTracksWeight /\ Ages /\ FlowWithinSession

-----------------------------------------------------------------------------
LEMMA MinFacts ==
    ASSUME NEW S \in SUBSET Nat, S # {}
    PROVE  Min(S) \in S /\ \A x \in S : Min(S) <= x
<1> DEFINE R == OpToRel(<, Nat)
<1>1. IsWellFoundedOn(R, Nat)
  BY NatLessThanWellFounded
<1>2. \A x, y \in Nat : <<x, y>> \in R <=> x < y
  BY DEF OpToRel
<1> HIDE DEF R
<1>3. PICK m \in S : \A y \in S : ~(<<y, m>> \in R)
  BY <1>1, WFMin
<1>4. ASSUME NEW y \in S PROVE m <= y
  <2>1. m \in Nat /\ y \in Nat
    OBVIOUS
  <2>2. ~(y < m)
    BY <1>2, <1>3, <2>1
  <2> QED BY <2>1, <2>2
<1> QED BY <1>4 DEF Min

\* A reading is appended; one leaves at the front of a full history.
LEMMA LimitedFacts ==
    ASSUME NEW h \in Seq(Reading), Len(h) <= HistoryLimit, NEW r \in Reading
    PROVE  /\ Limited(h, r) \in Seq(Reading)
           /\ Len(Limited(h, r)) \in 1..HistoryLimit
           /\ \E d \in {0, 1} :
                /\ Len(Limited(h, r)) = Len(h) - d + 1
                /\ \A i \in 1..(Len(h) - d) : Limited(h, r)[i] = h[i + d]
           /\ Limited(h, r)[Len(Limited(h, r))] = r
<1>1. Len(h) \in Nat
  OBVIOUS
<1>2. CASE Len(h) = HistoryLimit
  <2>1. h # <<>>
    BY <1>2
  <2>2. /\ Tail(h) \in Seq(Reading) /\ Len(Tail(h)) = Len(h) - 1
        /\ \A i \in 1..Len(Tail(h)) : Tail(h)[i] = h[i + 1]
    BY <2>1, HeadTailProperties
  <2>3. Limited(h, r) = Append(Tail(h), r)
    BY <1>2 DEF Limited
  <2> HIDE DEF Reading
  <2>4. /\ Append(Tail(h), r) \in Seq(Reading)
        /\ Len(Append(Tail(h), r)) = Len(h)
        /\ Append(Tail(h), r)[Len(h)] = r
        /\ \A i \in 1..(Len(h) - 1) : Append(Tail(h), r)[i] = h[i + 1]
    BY <1>1, <2>2
  <2>5. /\ Len(Limited(h, r)) = Len(h) - 1 + 1
        /\ \A i \in 1..(Len(h) - 1) : Limited(h, r)[i] = h[i + 1]
    BY <1>1, <2>3, <2>4
  <2>6. \E d \in {0, 1} : /\ Len(Limited(h, r)) = Len(h) - d + 1
                          /\ \A i \in 1..(Len(h) - d) : Limited(h, r)[i] = h[i + d]
    BY <2>5
  <2>7. Limited(h, r) \in Seq(Reading) /\ Limited(h, r)[Len(Limited(h, r))] = r
    BY <1>1, <2>3, <2>4
  <2>8. Len(Limited(h, r)) \in 1..HistoryLimit
    BY <1>1, <1>2, <2>5
  <2> QED BY <2>6, <2>7, <2>8
<1>3. CASE Len(h) # HistoryLimit
  <2>1. Limited(h, r) = Append(h, r)
    BY <1>3 DEF Limited
  <2>2. /\ Append(h, r) \in Seq(Reading)
        /\ Len(Append(h, r)) = Len(h) + 1
        /\ Append(h, r)[Len(h) + 1] = r
        /\ \A i \in 1..Len(h) : Append(h, r)[i] = h[i]
    BY <1>1
  <2>3. /\ Len(Limited(h, r)) = Len(h) - 0 + 1
        /\ \A i \in 1..(Len(h) - 0) : Limited(h, r)[i] = h[i + 0]
    BY <1>1, <2>1, <2>2
  <2>4. \E d \in {0, 1} : /\ Len(Limited(h, r)) = Len(h) - d + 1
                          /\ \A i \in 1..(Len(h) - d) : Limited(h, r)[i] = h[i + d]
    BY <2>3
  <2>5. Limited(h, r) \in Seq(Reading) /\ Limited(h, r)[Len(Limited(h, r))] = r
    BY <1>1, <2>1, <2>2
  <2>6. Len(Limited(h, r)) \in 1..HistoryLimit
    BY <1>1, <1>3, <2>3
  <2> QED BY <2>4, <2>5, <2>6
<1> QED BY <1>2, <1>3

\* A reading that comes last is recorded: the history goes on rising, ends
\* close to the reading and has nothing new but the reading.
LEMMA RecordedFacts ==
    ASSUME NEW h \in Seq(Reading), Len(h) <= HistoryLimit, Rising(h), NEW r \in Reading,
           \A i \in DOMAIN h : h[i].time <= r.time
    PROVE  LET g == Recorded(h, r)
           IN  /\ g \in Seq(Reading) /\ Len(g) \in 1..HistoryLimit /\ Rising(g)
               /\ \A i \in DOMAIN g : g[i] = r \/ \E j \in DOMAIN h : g[i] = h[j]
               /\ g[Len(g)].weight - Margin <= r.weight /\ r.weight <= g[Len(g)].weight
<1> DEFINE g == Recorded(h, r)
<1>1. Len(h) \in Nat /\ DOMAIN h = 1..Len(h) /\ \A i \in DOMAIN h : h[i] \in Reading
  OBVIOUS
<1>2. r.weight \in Int /\ r.time \in Nat /\ \A x \in Reading : x.weight \in Int /\ x.time \in Nat
  BY DEF Reading
<1>3. CASE h = <<>> \/ r.weight > h[Len(h)].weight
  <2>0. ~(h # <<>> /\ r.weight < h[Len(h)].weight - Margin)
    BY <1>1, <1>2, <1>3
  <2>1. g = Limited(h, r)
    BY <1>3, <2>0 DEF Recorded
  <2> HIDE DEF g
  <2>9. /\ Limited(h, r) \in Seq(Reading)
        /\ Len(Limited(h, r)) \in 1..HistoryLimit
        /\ \E d \in {0, 1} :
             /\ Len(Limited(h, r)) = Len(h) - d + 1
             /\ \A i \in 1..(Len(h) - d) : Limited(h, r)[i] = h[i + d]
        /\ Limited(h, r)[Len(Limited(h, r))] = r
    BY LimitedFacts
  <2>2. /\ g \in Seq(Reading) /\ Len(g) \in 1..HistoryLimit /\ g[Len(g)] = r
        /\ DOMAIN g = 1..Len(g)
    BY <2>1, <2>9
  <2>3. PICK d \in {0, 1} : /\ Len(g) = Len(h) - d + 1
                            /\ \A i \in 1..(Len(h) - d) : g[i] = h[i + d]
    BY <2>1, <2>9
  <2>4. \A i \in 1..(Len(g) - 1) : i + d \in DOMAIN h /\ g[i] = h[i + d]
    BY <1>1, <2>3
  <2>5. \A i \in DOMAIN h : h[i].weight < r.weight /\ h[i].time <= r.time
    <3> SUFFICES ASSUME NEW i \in DOMAIN h PROVE h[i].weight < r.weight
      OBVIOUS
    <3>1. Len(h) \in DOMAIN h /\ h # <<>>
      BY <1>1
    <3>0. h[i].weight \in Int /\ h[Len(h)].weight \in Int
      BY <1>1, <1>2, <3>1
    <3>2. h[i].weight <= h[Len(h)].weight
      <4>1. CASE i = Len(h)
        BY <4>1, <3>0
      <4>2. CASE i # Len(h)
        <5>1. i < Len(h)
          BY <1>1, <4>2
        <5>2. h[i].weight < h[Len(h)].weight
          BY <3>1, <5>1 DEF Rising
        <5> QED BY <3>0, <5>2
      <4> QED BY <4>1, <4>2
    <3> QED BY <1>1, <1>2, <1>3, <3>1, <3>2
  <2>6. Rising(g)
    <3> SUFFICES ASSUME NEW i \in DOMAIN g, NEW j \in DOMAIN g, i < j
                 PROVE  g[i].weight < g[j].weight /\ g[i].time <= g[j].time
      BY DEF Rising
    <3>1. i \in 1..(Len(g) - 1)
      BY <2>2
    <3>2. CASE j = Len(g)
      BY <3>1, <3>2, <2>2, <2>4, <2>5
    <3>3. CASE j # Len(g)
      <4>1. j \in 1..(Len(g) - 1)
        BY <3>3, <2>2
      <4>2. i + d \in DOMAIN h /\ j + d \in DOMAIN h /\ i + d < j + d
        BY <3>1, <4>1, <2>4, <2>2
      <4> QED BY <3>1, <4>1, <4>2, <2>4 DEF Rising
    <3> QED BY <3>2, <3>3
  <2>7. \A i \in DOMAIN g : g[i] = r \/ \E j \in DOMAIN h : g[i] = h[j]
    <3> SUFFICES ASSUME NEW i \in DOMAIN g, g[i] # r PROVE \E j \in DOMAIN h : g[i] = h[j]
      OBVIOUS
    <3>1. i \in 1..(Len(g) - 1)
      BY <2>2
    <3> QED BY <3>1, <2>4
  <2>8. g[Len(g)].weight - Margin <= r.weight /\ r.weight <= g[Len(g)].weight
    BY <1>2, <2>2
  <2> QED BY <2>2, <2>6, <2>7, <2>8 DEF g
<1>4. CASE h # <<>> /\ r.weight < h[Len(h)].weight - Margin
  <2>1. Len(h) \in DOMAIN h
    BY <1>1, <1>4
  <2>2. ~(r.weight > h[Len(h)].weight)
    BY <1>1, <1>2, <1>4, <2>1
  <2>3. g = <<r>>
    BY <1>4, <2>2 DEF Recorded
  <2>4. g \in Seq(Reading) /\ Len(g) = 1 /\ DOMAIN g = 1..1 /\ g[1] = r
    BY <2>3
  <2> HIDE DEF g
  <2>5. Rising(g)
    BY <2>4 DEF Rising
  <2>6. g[Len(g)].weight - Margin <= r.weight /\ r.weight <= g[Len(g)].weight
    BY <1>2, <2>4
  <2>7. \A i \in DOMAIN g : g[i] = r
    BY <2>4
  <2> QED BY <2>4, <2>5, <2>6, <2>7 DEF g
<1>5. CASE ~(h = <<>> \/ r.weight > h[Len(h)].weight)
           /\ ~(h # <<>> /\ r.weight < h[Len(h)].weight - Margin)
  <2>1. g = h
    BY <1>5 DEF Recorded
  <2>2. Len(h) \in DOMAIN h
    BY <1>1, <1>5
  <2>3. h[Len(h)].weight - Margin <= r.weight /\ r.weight <= h[Len(h)].weight
    BY <1>1, <1>2, <1>5, <2>2
  <2>4. Len(h) \in 1..HistoryLimit
    BY <1>1, <2>2
  <2> QED BY <2>1, <2>3, <2>4
<1> QED BY <1>3, <1>4, <1>5

\* What is recent of a rising history is the end of it.
LEMMA RecentFacts ==
    ASSUME NEW h \in Seq(Reading), Rising(h), NEW t \in Nat
    PROVE  LET g == Recent(h, t)
           IN  /\ g \in Seq(Reading) /\ Len(g) <= Len(h) /\ Rising(g)
               /\ \A i \in DOMAIN g : g[i].time + Window >= t /\ \E j \in DOMAIN h : g[i] = h[j]
               /\ g # <<>> => g[Len(g)] = h[Len(h)]
<1> DEFINE g == Recent(h, t)
           fresh == {i \in DOMAIN h : t - h[i].time <= Window}
<1>1. Len(h) \in Nat /\ DOMAIN h = 1..Len(h) /\ \A i \in DOMAIN h : h[i] \in Reading
  OBVIOUS
<1>2. \A x \in Reading : x.time \in Nat
  BY DEF Reading
<1>3. CASE fresh = {}
  <2>1. g = <<>>
    BY <1>3 DEF Recent
  <2>2. g \in Seq(Reading) /\ Len(g) = 0 /\ DOMAIN g = {}
    BY <2>1
  <2> HIDE DEF g
  <2>3. Rising(g)
    BY <2>2 DEF Rising
  <2>4. \A i \in DOMAIN g : g[i].time + Window >= t /\ \E j \in DOMAIN h : g[i] = h[j]
    BY <2>2, Zenon
  <2> QED BY <1>1, <2>1, <2>2, <2>3, <2>4 DEF g
<1>4. CASE fresh # {}
  <2> DEFINE m == Min(fresh)
  <2>0. fresh \in SUBSET Nat
    BY <1>1
  <2>1. m \in fresh
    BY <1>4, <2>0, MinFacts
  <2>2. m \in 1..Len(h) /\ t - h[m].time <= Window
    BY <2>1, <1>1
  <2>3. g = SubSeq(h, m, Len(h))
    BY <1>4 DEF Recent
  <2> HIDE DEF g, m, fresh
  <2>4. /\ g \in Seq(Reading) /\ Len(g) = Len(h) - m + 1 /\ DOMAIN g = 1..(Len(h) - m + 1)
        /\ \A i \in 1..(Len(h) - m + 1) : g[i] = h[m + i - 1]
    <3>1. \A i \in m..Len(h) : h[i] \in Reading
      BY <1>1, <2>2
    <3>2. /\ SubSeq(h, m, Len(h)) \in Seq(Reading)
          /\ Len(SubSeq(h, m, Len(h))) = IF m <= Len(h) THEN Len(h) - m + 1 ELSE 0
          /\ \A i \in 1..(Len(h) - m + 1) : SubSeq(h, m, Len(h))[i] = h[m + i - 1]
      BY <1>1, <2>2, <3>1, SubSeqProperties
    <3>3. m <= Len(h)
      BY <1>1, <2>2
    <3>4. Len(g) = Len(h) - m + 1
      BY <2>3, <3>2, <3>3
    <3> QED BY <2>3, <3>2, <3>4
  <2>5. ASSUME NEW i \in DOMAIN g
        PROVE  m + i - 1 \in DOMAIN h /\ m + i - 1 >= m /\ g[i] = h[m + i - 1]
    <3>1. i \in 1..(Len(h) - m + 1)
      BY <2>4
    <3>2. g[i] = h[m + i - 1]
      BY <3>1, <2>4
    <3>3. m + i - 1 \in 1..Len(h) /\ m + i - 1 >= m
      BY <1>1, <2>2, <3>1
    <3> QED BY <1>1, <3>2, <3>3
  <2>6. Rising(g)
    <3> SUFFICES ASSUME NEW i \in DOMAIN g, NEW j \in DOMAIN g, i < j
                 PROVE  g[i].weight < g[j].weight /\ g[i].time <= g[j].time
      BY DEF Rising
    <3>1. m + i - 1 < m + j - 1
      BY <2>2, <2>4
    <3> QED BY <3>1, <2>5 DEF Rising
  <2>7. ASSUME NEW i \in DOMAIN g PROVE g[i].time + Window >= t
    <3>1. m \in DOMAIN h /\ m + i - 1 \in DOMAIN h /\ m <= m + i - 1 /\ g[i] = h[m + i - 1]
      BY <1>1, <2>2, <2>5
    <3>2. h[m].time <= h[m + i - 1].time
      BY <3>1, <1>1, <1>2, <2>2 DEF Rising
    <3> QED BY <3>1, <3>2, <2>2, <1>1, <1>2
  <2>8. g[Len(g)] = h[Len(h)] /\ Len(g) <= Len(h)
    <3>1. Len(g) \in DOMAIN g
      BY <1>1, <2>2, <2>4
    <3>2. m + Len(g) - 1 = Len(h)
      BY <1>1, <2>2, <2>4
    <3> QED BY <3>1, <3>2, <2>5, <2>4, <2>2, <1>1
  <2> QED BY <2>4, <2>5, <2>6, <2>7, <2>8 DEF g
<1> QED BY <1>3, <1>4

-----------------------------------------------------------------------------
\* What the types say of the variables alone, and of the readings.
LEMMA TypeFacts ==
    ASSUME TypeOK
    PROVE  /\ now \in Nat /\ now <= MaxTime /\ session \in Nat /\ session <= MaxSessions
           /\ lastDisconnect \in Int /\ NoTime <= lastDisconnect /\ lastDisconnect <= now
           /\ wake \in Int /\ NoTime <= wake /\ wake <= MaxTime + ReconnectDelay
           /\ MaxTime \in Nat /\ MaxSessions \in Nat /\ NoTime = -1
           /\ history \in Seq(Reading) /\ Len(history) <= HistoryLimit
           /\ reading \in Reading /\ reading.session \in Nat
           /\ connected \in BOOLEAN /\ up \in BOOLEAN /\ due \in BOOLEAN
           /\ early \in BOOLEAN /\ hasty \in BOOLEAN
           /\ \A i \in DOMAIN history :
                history[i] \in Reading /\ history[i].time \in Nat /\ history[i].session \in Nat
<1>1. /\ now \in Nat /\ now <= MaxTime /\ session \in Nat /\ session <= MaxSessions
      /\ lastDisconnect \in Int /\ NoTime <= lastDisconnect /\ lastDisconnect <= now
      /\ wake \in Int /\ NoTime <= wake /\ wake <= MaxTime + ReconnectDelay
      /\ MaxTime \in Nat /\ MaxSessions \in Nat /\ NoTime = -1
  BY DEF TypeOK, NoTime
<1>2. history \in Seq(Reading) /\ Len(history) <= HistoryLimit /\ reading \in Reading
  BY DEF TypeOK
<1>3. reading.session \in Nat
  BY <1>2 DEF Reading
<1>4. \A i \in DOMAIN history : history[i] \in Reading
  BY <1>2
<1>5. \A r \in Reading : r.time \in Nat /\ r.session \in Nat
  BY DEF Reading
<1>6. /\ connected \in BOOLEAN /\ up \in BOOLEAN /\ due \in BOOLEAN
      /\ early \in BOOLEAN /\ hasty \in BOOLEAN
  BY DEF TypeOK
<1> QED BY <1>1, <1>2, <1>3, <1>4, <1>5, <1>6

LEMMA InitHolds == Init => IInv
<1> SUFFICES ASSUME Init PROVE IInv
  OBVIOUS
<1>1. DOMAIN history = {} /\ Len(history) = 0 /\ history \in Seq(Reading)
  BY DEF Init
<1>2. TypeOK
  <2>1. /\ now \in 0..MaxTime /\ lastDisconnect \in NoTime..now
        /\ wake \in NoTime..(MaxTime + ReconnectDelay)
        /\ session \in 0..MaxSessions /\ Len(history) <= HistoryLimit
    BY <1>1 DEF Init, NoTime
  <2>2. reading \in Reading
    BY DEF Init, Reading
  <2>3. {connected, up, due, early, hasty} \subseteq BOOLEAN
    BY DEF Init
  <2> QED BY <1>1, <2>1, <2>2, <2>3 DEF TypeOK
<1>3. HistoryTracksWeight
  BY <1>1 DEF Init, HistoryTracksWeight
<1>4. Ages /\ FlowWithinSession
  BY <1>1 DEF Init, Ages, FlowWithinSession
<1> QED BY <1>2, <1>3, <1>4 DEF IInv

\* A reading is recorded, and what is then too old is removed: unless connect()
\* began too early no reading of an earlier connection is left, as
\* ReconnectDelay is longer than Window.
LEMMA UpdateWeightStep == ASSUME IInv, NEW w \in Weights, UpdateWeight(w) PROVE IInv'
<1> DEFINE r == [time |-> now, weight |-> w, session |-> session]
           g == Recorded(history, r)
<1>1. /\ now \in Nat /\ session \in Nat
      /\ history \in Seq(Reading) /\ Len(history) <= HistoryLimit
      /\ \A i \in DOMAIN history : history[i] \in Reading /\ history[i].time \in Nat
  BY TypeFacts DEF IInv
<1>2. r \in Reading /\ r.time = now /\ r.weight = w /\ r.session = session
  BY <1>1 DEF Reading
<1>3. /\ Rising(history)
      /\ \A i \in DOMAIN history : history[i].time <= now /\ history[i].session <= session
      /\ ~hasty => \A i \in DOMAIN history :
           history[i].session # session => history[i].time + ReconnectDelay <= now
  BY DEF IInv, HistoryTracksWeight, Rising, Ages, UpdateWeight
<1>4. /\ up /\ ~due /\ (wake # NoTime => early)
      /\ UNCHANGED <<now, connected, lastDisconnect, session, up, due, hasty, wake, early>>
      /\ reading' = r /\ history' = Recent(g, now)
  BY DEF IInv, Ages, UpdateWeight, link, call
<1>5. /\ g \in Seq(Reading) /\ Len(g) \in 1..HistoryLimit /\ Rising(g)
      /\ \A i \in DOMAIN g : g[i] = r \/ \E j \in DOMAIN history : g[i] = history[j]
      /\ g[Len(g)].weight - Margin <= r.weight /\ r.weight <= g[Len(g)].weight
  <2> HIDE DEF r
  <2>1. \A i \in DOMAIN history : history[i].time <= r.time
    BY <1>2, <1>3
  <2> QED BY <1>1, <1>2, <1>3, <2>1, RecordedFacts
<1> HIDE DEF r, g
<1>6. /\ history' \in Seq(Reading) /\ Len(history') <= Len(g) /\ Rising(history')
      /\ \A i \in DOMAIN history' : history'[i].time + Window >= now
                                    /\ \E j \in DOMAIN g : history'[i] = g[j]
      /\ history' # <<>> => history'[Len(history')] = g[Len(g)]
  BY <1>1, <1>4, <1>5, RecentFacts
<1>7. \A i \in DOMAIN history' : history'[i] = r \/ \E j \in DOMAIN history : history'[i] = history[j]
  BY <1>5, <1>6
<1>8. TypeOK'
  <2>1. Len(history') <= HistoryLimit
    BY <1>5, <1>6
  <2>2. TypeOK
    BY DEF IInv
  <2> QED BY <1>2, <1>4, <1>6, <2>1, <2>2 DEF TypeOK
<1>9. HistoryTracksWeight'
  <2>1. reading'.time = now /\ reading'.weight = r.weight
    BY <1>2, <1>4
  <2> QED BY <1>5, <1>6, <2>1 DEF HistoryTracksWeight, Rising
<1>10. ASSUME NEW i \in DOMAIN history'
       PROVE  /\ history'[i].session <= session /\ history'[i].time <= now
              /\ ~hasty => history'[i].session = session
  <2>1. CASE history'[i] = r
    BY <2>1, <1>1, <1>2
  <2>2. CASE \E j \in DOMAIN history : history'[i] = history[j]
    <3>1. PICK j \in DOMAIN history : history'[i] = history[j]
      BY <2>2
    <3>2. history[j].time \in Nat /\ history[j].time + Window >= now
      BY <1>1, <1>6, <3>1
    <3>3. ~(history[j].time + ReconnectDelay <= now)
      BY <1>1, <3>2
    <3> QED BY <1>3, <3>1, <3>3
  <2> QED BY <1>7, <2>1, <2>2
<1>11. Ages' /\ FlowWithinSession'
  <2>1. reading'.session = session
    BY <1>2, <1>4
  <2> QED BY <1>1, <1>4, <1>10, <2>1 DEF Ages, FlowWithinSession
<1> QED BY <1>8, <1>9, <1>11 DEF IInv

LEMMA TickStep == ASSUME IInv, Tick PROVE IInv'
<1>1. /\ TypeOK /\ HistoryTracksWeight /\ Ages /\ FlowWithinSession
      /\ now < MaxTime /\ now' = now + 1
      /\ UNCHANGED <<history, reading, connected, lastDisconnect, session, up, due, hasty,
                     wake, early>>
  BY DEF IInv, Tick, data, link, call
<1>2. TypeOK'
  <2>1. now' \in 0..MaxTime /\ lastDisconnect \in NoTime..now'
    BY <1>1, TypeFacts
  <2> QED BY <1>1, <2>1 DEF TypeOK
<1>3. HistoryTracksWeight' /\ FlowWithinSession'
  BY <1>1 DEF HistoryTracksWeight, FlowWithinSession
<1>4. ASSUME NEW i \in DOMAIN history
      PROVE  /\ history[i].time <= now + 1
             /\ up /\ ~hasty /\ history[i].session # session =>
                  history[i].time + ReconnectDelay <= now + 1
  <2>1. history[i].time \in Nat /\ now \in Nat
    BY <1>1, TypeFacts
  <2> QED BY <1>1, <2>1 DEF Ages
<1>5. Ages'
  BY <1>1, <1>4 DEF Ages
<1> QED BY <1>2, <1>3, <1>5 DEF IInv

\* The link and its callback: the readings are no younger than now when the
\* callback runs.
LEMMA LinkStep == ASSUME IInv, LinkDrops \/ DeviceDisconnected PROVE IInv'
<1>1. /\ TypeOK /\ HistoryTracksWeight /\ Ages /\ FlowWithinSession
      /\ UNCHANGED <<now, history, reading, session, hasty, wake, early>>
  BY DEF IInv, LinkDrops, DeviceDisconnected, data, call
<1>2. \/ up /\ up' = FALSE /\ due' = TRUE /\ connected' = connected /\ lastDisconnect' = lastDisconnect
      \/ due /\ up' = up /\ due' = FALSE /\ connected' = FALSE /\ lastDisconnect' = now
  BY DEF LinkDrops, DeviceDisconnected
<1>3. TypeOK'
  <2>1. now \in NoTime..now
    BY <1>1, TypeFacts
  <2>2. {connected', up', due', early', hasty'} \subseteq BOOLEAN
    BY <1>1, <1>2, TypeFacts
  <2>3. lastDisconnect' \in NoTime..now'
    BY <1>1, <1>2, <2>1 DEF TypeOK
  <2> QED BY <1>1, <2>2, <2>3 DEF TypeOK
<1>4. HistoryTracksWeight' /\ FlowWithinSession'
  BY <1>1 DEF HistoryTracksWeight, FlowWithinSession
<1>5. Ages'
  BY <1>1, <1>2 DEF Ages
<1> QED BY <1>3, <1>4, <1>5 DEF IInv

\* A connect() that begins with no callback to come waits until every reading is
\* ReconnectDelay old.
LEMMA CallStep ==
    ASSUME IInv, LeavesConnected \/ BeginConnect \/ ConnectFails
    PROVE  IInv'
<1>1. /\ TypeOK /\ HistoryTracksWeight /\ Ages /\ FlowWithinSession
      /\ UNCHANGED <<now, history, reading, lastDisconnect, session, up, due, hasty>>
  BY DEF IInv, LeavesConnected, BeginConnect, ConnectFails, data, link
<1>2. /\ now \in Nat /\ now <= MaxTime /\ lastDisconnect \in Int /\ lastDisconnect <= now
      /\ NoTime = -1 /\ MaxTime \in Nat
      /\ \A i \in DOMAIN history : history[i].time \in Nat
  BY <1>1, TypeFacts
<1>3. HistoryTracksWeight' /\ FlowWithinSession'
  BY <1>1 DEF HistoryTracksWeight, FlowWithinSession
<1>4. CASE LeavesConnected \/ ConnectFails
  <2>1. /\ connected' \in BOOLEAN
        /\ \/ wake' = wake /\ early' = early
           \/ wake' = NoTime /\ early' = FALSE
    BY <1>1, <1>4, TypeFacts DEF LeavesConnected, ConnectFails, call
  <2>2. wake' \in NoTime..(MaxTime + ReconnectDelay) /\ early' \in BOOLEAN
    <3>1. wake \in NoTime..(MaxTime + ReconnectDelay) /\ early \in BOOLEAN
      BY <1>1 DEF TypeOK
    <3>2. NoTime \in NoTime..(MaxTime + ReconnectDelay)
      BY <1>2
    <3>3. early' \in BOOLEAN
      BY <2>1, <3>1, Zenon
    <3> QED BY <2>1, <3>1, <3>2, <3>3
  <2>3. TypeOK'
    BY <1>1, <2>1, <2>2 DEF TypeOK
  <2>4. Ages'
    BY <1>1, <2>1 DEF Ages
  <2> QED BY <1>3, <2>3, <2>4 DEF IInv
<1>5. CASE BeginConnect
  <2>1. wake' = Wakes(now) /\ early' = (up \/ due) /\ connected' = connected
    BY <1>5 DEF BeginConnect
  <2>2. /\ wake' \in NoTime..(MaxTime + ReconnectDelay)
        /\ lastDisconnect # NoTime => lastDisconnect + ReconnectDelay <= wake'
    BY <1>2, <2>1 DEF Wakes
  <2>3. TypeOK'
    <3>1. early' \in BOOLEAN
      BY <2>1
    <3> QED BY <1>1, <2>1, <2>2, <3>1 DEF TypeOK
  <2>4. ASSUME NEW i \in DOMAIN history, ~up, ~due
        PROVE  history[i].time + ReconnectDelay <= wake'
    <3>1. history[i].time <= lastDisconnect /\ history[i].time \in Nat
      BY <1>1, <1>2, <2>4 DEF Ages
    <3>2. lastDisconnect # NoTime /\ wake' \in Int
      BY <1>2, <2>2, <3>1
    <3> QED BY <1>2, <2>2, <3>1, <3>2
  <2>5. Ages'
    BY <1>1, <2>1, <2>4 DEF Ages
  <2> QED BY <1>3, <2>3, <2>5 DEF IInv
<1> QED BY <1>4, <1>5

LEMMA EstablishedStep == ASSUME IInv, Established PROVE IInv'
<1>1. /\ TypeOK /\ HistoryTracksWeight /\ Ages
      /\ wake # NoTime /\ now >= wake /\ session < MaxSessions /\ ~due
      /\ up' = TRUE /\ connected' = TRUE /\ session' = session + 1 /\ hasty' = early
      /\ wake' = NoTime /\ early' = FALSE
      /\ UNCHANGED <<now, history, reading, lastDisconnect, due>>
  BY DEF IInv, Established, data
<1>2. /\ now \in Nat /\ session \in Nat /\ wake \in Int /\ MaxTime \in Nat /\ NoTime = -1
      /\ MaxSessions \in Nat /\ early \in BOOLEAN /\ reading.session \in Nat
      /\ \A i \in DOMAIN history : history[i].time \in Nat /\ history[i].session \in Nat
  BY <1>1, TypeFacts
<1>3. TypeOK'
  <2>1. session' \in 0..MaxSessions /\ wake' \in NoTime..(MaxTime + ReconnectDelay)
    BY <1>1, <1>2
  <2>2. {connected', up', due', early', hasty'} \subseteq BOOLEAN
    <3>1. due \in BOOLEAN
      BY <1>1 DEF TypeOK
    <3>2. due' \in BOOLEAN /\ hasty' \in BOOLEAN
      BY <1>1, <1>2, <3>1, Zenon
    <3> QED BY <1>1, <3>2, Zenon
  <2> QED BY <1>1, <2>1, <2>2 DEF TypeOK
<1>4. HistoryTracksWeight'
  BY <1>1 DEF HistoryTracksWeight
<1>5. reading.session <= session /\ reading.session # session + 1
  BY <1>1, <1>2 DEF Ages
<1>6. FlowWithinSession'
  BY <1>1, <1>5 DEF FlowWithinSession
<1>7. ASSUME NEW i \in DOMAIN history
      PROVE  /\ history[i].time <= now /\ history[i].session <= session + 1
             /\ ~early => history[i].time + ReconnectDelay <= now
  <2>1. /\ history[i].time <= now /\ history[i].session <= session
        /\ ~early => history[i].time + ReconnectDelay <= wake
    BY <1>1 DEF Ages
  <2> QED BY <1>1, <1>2, <2>1
<1>8. Ages'
  BY <1>1, <1>2, <1>5, <1>7 DEF Ages
<1> QED BY <1>3, <1>4, <1>6, <1>8 DEF IInv

-----------------------------------------------------------------------------
LEMMA NextHolds == IInv /\ [Next]_vars => IInv'
<1> SUFFICES ASSUME IInv, [Next]_vars PROVE IInv'
  OBVIOUS
<1>1. ASSUME NEW w \in Weights, UpdateWeight(w) PROVE IInv'
  BY <1>1, UpdateWeightStep
<1>2. CASE Tick
  BY <1>2, TickStep
<1>3. CASE LinkDrops \/ DeviceDisconnected
  BY <1>3, LinkStep
<1>4. CASE LeavesConnected \/ BeginConnect \/ ConnectFails
  BY <1>4, CallStep
<1>5. CASE Established
  BY <1>5, EstablishedStep
<1>6. CASE UNCHANGED vars
  BY <1>6 DEF IInv, TypeOK, HistoryTracksWeight, Ages, FlowWithinSession, vars, data, link, call
<1> QED BY <1>1, <1>2, <1>3, <1>4, <1>5, <1>6 DEF Next

LEMMA Invariance == Spec => []IInv
BY InitHolds, NextHolds, PTL DEF Spec

\* weight_history never has more readings than its maxlen, nor one from the
\* time after now.
THEOREM HistoryBounded == Spec => []TypeOK
<1>1. IInv => TypeOK
  BY DEF IInv
<1> QED BY <1>1, Invariance, PTL

\* Whatever the limit, the window and the margin of _update_weight, the readings
\* it keeps rise, are recent, and end close to the current weight.
THEOREM HistoryKept == Spec => []HistoryTracksWeight
<1>1. IInv => HistoryTracksWeight
  BY DEF IInv
<1> QED BY <1>1, Invariance, PTL

\* Where connect() began after the disconnected callback, its cooldown keeps the
\* flow from being fitted across the gap, for any window shorter than
\* _RECONNECT_DELAY, though no code clears weight_history; and whatever the
\* connections before did.
THEOREM CooldownOutlastsHistory == Spec => []FlowWithinSession
<1>1. IInv => FlowWithinSession
  BY DEF IInv
<1> QED BY <1>1, Invariance, PTL

-----------------------------------------------------------------------------
(* Sums.                                                                     *)

\* The element that the library's folds take out of s.
Taken(s) == CHOOSE x \in s : TRUE

\* g adds F over each subset of S the way the library does.
Sums(g, F, S) ==
    g = [s \in SUBSET S |-> IF s = {} THEN 0 ELSE F[Taken(s)] + g[s \ {Taken(s)}]]

LEMMA TakenFacts ==
    ASSUME NEW S, IsFiniteSet(S), NEW s \in SUBSET S
    PROVE  /\ IsFiniteSet(s) /\ Cardinality(s) \in Nat /\ Cardinality(s) <= Cardinality(S)
           /\ Cardinality(S) \in Nat /\ (Cardinality(s) = 0 <=> s = {})
           /\ s # {} => Taken(s) \in s
           /\ \A x \in s : s \ {x} \in SUBSET S /\ Cardinality(s \ {x}) = Cardinality(s) - 1
<1>1. IsFiniteSet(s) /\ Cardinality(s) <= Cardinality(S)
  BY FS_Subset
<1>2. Cardinality(s) \in Nat /\ Cardinality(S) \in Nat
  BY <1>1, FS_CardinalityType
<1>3. Cardinality(s) = 0 <=> s = {}
  BY <1>1, FS_EmptySet
<1>4. \A x \in s : Cardinality(s \ {x}) = Cardinality(s) - 1
  BY <1>1, FS_RemoveElement
<1>5. s # {} => Taken(s) \in s
  BY DEF Taken
<1> QED BY <1>1, <1>2, <1>3, <1>4, <1>5

\* There is a sum.
LEMMA SumsExist ==
    ASSUME NEW S, IsFiniteSet(S), NEW F, \A x \in S : F[x] \in Int
    PROVE  \E g : Sums(g, F, S)
<1> DEFINE Next1(g, s) == IF s = {} THEN 0 ELSE F[Taken(s)] + g[s \ {Taken(s)}]
           Upto(g, n) == /\ g = [s \in SUBSET S |-> g[s]]
                         /\ \A s \in SUBSET S : Cardinality(s) <= n => g[s] = Next1(g, s)
           Lacking == {n \in Nat : ~\E g : Upto(g, n)}
<1>1. Lacking = {}
  <2> SUFFICES ASSUME Lacking # {} PROVE FALSE
    OBVIOUS
  <2> DEFINE m == Min(Lacking)
  <2>1. m \in Lacking /\ \A n \in Lacking : m <= n
    BY MinFacts
  <2> HIDE DEF m
  <2>2. m # 0
    <3> DEFINE g == [s \in SUBSET S |-> 0]
    <3>1. Upto(g, 0)
      BY TakenFacts
    <3> HIDE DEF Upto, g
    <3> QED BY <2>1, <3>1
  <2>3. m \in Nat /\ m - 1 \in Nat /\ m - 1 \notin Lacking
    <3> HIDE DEF Upto
    <3>1. m \in Nat
      BY <2>1
    <3>2. m - 1 \in Nat /\ ~(m <= m - 1)
      BY <2>2, <3>1
    <3> HIDE DEF Lacking
    <3> QED BY <2>1, <3>1, <3>2
  <2>4. PICK g : Upto(g, m - 1)
    <3> HIDE DEF Upto
    <3> QED BY <2>3
  <2> DEFINE f == [s \in SUBSET S |-> IF Cardinality(s) <= m - 1 THEN g[s] ELSE Next1(g, s)]
  <2>5. ASSUME NEW s \in SUBSET S, Cardinality(s) <= m PROVE f[s] = Next1(f, s)
    <3>1. CASE s = {}
      BY <2>3, <2>4, <2>5, <3>1, TakenFacts
    <3>2. CASE s # {}
      <4> DEFINE r == s \ {Taken(s)}
      <4>1. r \in SUBSET S /\ Cardinality(r) <= m - 1 /\ Cardinality(s) \in Nat
        BY <2>3, <2>5, <3>2, TakenFacts
      <4>2. f[r] = g[r] /\ Next1(f, s) = F[Taken(s)] + f[r] /\ Next1(g, s) = F[Taken(s)] + g[r]
        BY <3>2, <4>1
      <4>3. f[s] = Next1(g, s)
        BY <2>4
      <4> QED BY <4>2, <4>3
    <3> QED BY <3>1, <3>2
  <2>6. Upto(f, m)
    BY <2>5
  <2> HIDE DEF Upto, f
  <2> QED BY <2>1, <2>6
<1>2. PICK g : Upto(g, Cardinality(S))
  <2>1. Cardinality(S) \in Nat
    BY TakenFacts
  <2> HIDE DEF Upto
  <2> QED BY <1>1, <2>1
<1>3. \A s \in SUBSET S : g[s] = Next1(g, s)
  BY <1>2, TakenFacts
<1>4. Sums(g, F, S)
  BY <1>2, <1>3 DEF Sums
<1> QED BY <1>4

\* A sum is an integer, whichever element is taken first.
Additive(g, F, S) ==
    /\ g[{}] = 0
    /\ \A s \in SUBSET S : g[s] \in Int /\ \A x \in s : g[s] = F[x] + g[s \ {x}]

LEMMA SumsFacts ==
    ASSUME NEW S, IsFiniteSet(S), NEW F, \A x \in S : F[x] \in Int, NEW g, Sums(g, F, S)
    PROVE  Additive(g, F, S)
<1> DEFINE Fine(s) == g[s] \in Int /\ \A x \in s : g[s] = F[x] + g[s \ {x}]
           Wrong == {n \in Nat : \E s \in SUBSET S : Cardinality(s) = n /\ ~Fine(s)}
<1>1. \A s \in SUBSET S : g[s] = IF s = {} THEN 0 ELSE F[Taken(s)] + g[s \ {Taken(s)}]
  BY DEF Sums
<1>2. Wrong = {}
  <2> SUFFICES ASSUME Wrong # {} PROVE FALSE
    OBVIOUS
  <2> DEFINE m == Min(Wrong)
  <2>1. m \in Wrong /\ \A n \in Wrong : m <= n
    BY MinFacts
  <2>2. PICK s \in SUBSET S : Cardinality(s) = m /\ ~Fine(s)
    BY <2>1
  <2>3. m \in Nat /\ \A r \in SUBSET S : Cardinality(r) < m => Fine(r)
    <3>1. m \in Nat
      BY <2>1
    <3>2. ASSUME NEW r \in SUBSET S, Cardinality(r) < m, ~Fine(r) PROVE FALSE
      <4> HIDE DEF Fine, m
      <4>1. Cardinality(r) \in Nat
        BY TakenFacts
      <4>2. Cardinality(r) \in Wrong
        BY <3>2, <4>1
      <4> HIDE DEF Wrong
      <4> QED BY <2>1, <3>1, <3>2, <4>1, <4>2
    <3> HIDE DEF Fine, m
    <3> QED BY <3>1, <3>2
  <2> HIDE DEF m, Wrong
  <2>4. ASSUME NEW x \in s
        PROVE  s \ {x} \in SUBSET S /\ Cardinality(s \ {x}) = m - 1 /\ Fine(s \ {x})
    <3> HIDE DEF Fine
    <3>1. s \ {x} \in SUBSET S /\ Cardinality(s \ {x}) = m - 1
      BY <2>2, TakenFacts
    <3>2. Cardinality(s \ {x}) < m
      BY <2>3, <3>1
    <3> QED BY <2>3, <3>1, <3>2
  <2>5. CASE s = {}
    <3>1. g[s] = 0
      BY <1>1, <2>5
    <3>2. Fine(s)
      BY <2>5, <3>1
    <3> HIDE DEF Fine
    <3> QED BY <2>2, <3>2
  <2>6. CASE s # {}
    <3> DEFINE p == Taken(s)
    <3>1. p \in s /\ g[s] = F[p] + g[s \ {p}] /\ F[p] \in Int
      BY <1>1, <2>6, TakenFacts
    <3> HIDE DEF p
    <3>2. g[s] \in Int
      <4>1. g[s \ {p}] \in Int
        BY <2>4, <3>1
      <4> QED BY <3>1, <4>1
    <3>3. ASSUME NEW x \in s, x # p PROVE g[s] = F[x] + g[s \ {x}]
      <4>1. (s \ {p}) \ {x} = (s \ {x}) \ {p} /\ x \in s \ {p} /\ p \in s \ {x}
        BY <3>1, <3>3
      <4>2. /\ g[s \ {p}] = F[x] + g[(s \ {x}) \ {p}]
            /\ g[s \ {x}] = F[p] + g[(s \ {x}) \ {p}]
        BY <2>4, <3>1, <4>1
      <4>3. F[x] \in Int /\ (s \ {x}) \ {p} \in SUBSET S
        OBVIOUS
      <4>4. g[(s \ {x}) \ {p}] \in Int
        <5>1. s \ {x} \in SUBSET S /\ Cardinality(s \ {x}) = m - 1
          BY <2>4
        <5>2. (s \ {x}) \ {p} \in SUBSET S /\ Cardinality((s \ {x}) \ {p}) = (m - 1) - 1
          BY <4>1, <5>1, TakenFacts
        <5>3. (m - 1) - 1 < m
          BY <2>3
        <5> QED BY <2>3, <5>2, <5>3
      <4> QED BY <3>1, <4>2, <4>3, <4>4
    <3> QED BY <2>2, <3>1, <3>2, <3>3
  <2> QED BY <2>5, <2>6
<1>3. \A s \in SUBSET S : Cardinality(s) \in Nat
  BY TakenFacts
<1> QED BY <1>1, <1>2, <1>3 DEF Additive

\* P has the sums of F over 1..k, for every k up to n.
Prefix(P, F, n) ==
    /\ P \in [0..n -> Int] /\ P[0] = 0
    /\ \A k \in 1..n : P[k] = P[k - 1] + F[k]

LEMMA PrefixSums ==
    ASSUME NEW n \in Nat, NEW F, \A x \in 1..n : F[x] \in Int, NEW g, Sums(g, F, 1..n)
    PROVE  \E P : Prefix(P, F, n) /\ P[n] = g[1..n]
<1> DEFINE P == [k \in 0..n |-> g[1..k]]
<1>1. IsFiniteSet(1..n)
  BY FS_Interval
<1>2. /\ g[{}] = 0
      /\ \A s \in SUBSET (1..n) : g[s] \in Int /\ \A x \in s : g[s] = F[x] + g[s \ {x}]
  <2> DEFINE S == 1..n
  <2>1. IsFiniteSet(S) /\ Sums(g, F, S) /\ \A x \in S : F[x] \in Int
    BY <1>1
  <2> HIDE DEF S
  <2>2. Additive(g, F, S)
    BY <2>1, SumsFacts
  <2> QED BY <2>2 DEF S, Additive
<1>3. ASSUME NEW k \in 0..n PROVE 1..k \in SUBSET (1..n) /\ g[1..k] \in Int
  <2>1. 1..k \in SUBSET (1..n)
    OBVIOUS
  <2> QED BY <1>2, <2>1
<1>4. P[0] = 0
  <2>1. 1..0 = {}
    OBVIOUS
  <2> QED BY <1>2, <2>1
<1>5. ASSUME NEW k \in 1..n PROVE P[k] = P[k - 1] + F[k]
  <2>1. /\ k \in 0..n /\ k - 1 \in 0..n /\ k \in 1..k /\ (1..k) \ {k} = 1..(k - 1)
        /\ F[k] \in Int
    OBVIOUS
  <2>2. \A x \in 1..k : g[1..k] = F[x] + g[(1..k) \ {x}]
    BY <1>2, <1>3, <2>1
  <2>3. g[1..k] = F[k] + g[1..(k - 1)]
    BY <2>1, <2>2
  <2>4. g[1..(k - 1)] \in Int
    BY <1>3, <2>1
  <2> QED BY <2>1, <2>3, <2>4
<1>6. P \in [0..n -> Int] /\ P[n] = g[1..n]
  BY <1>3
<1> HIDE DEF P
<1> QED BY <1>4, <1>5, <1>6 DEF Prefix

-----------------------------------------------------------------------------
(* The four sums of a fit, each taken by the library's fold over the readings. *)

LEMMA ReadingFacts ==
    ASSUME NEW h \in Seq(Reading)
    PROVE  /\ DOMAIN h = 1..Len(h) /\ Len(h) \in Nat
           /\ \A i \in DOMAIN h : h[i].time \in Int /\ h[i].weight \in Int
<1>1. \A i \in DOMAIN h : h[i] \in Reading
  OBVIOUS
<1> QED BY <1>1 DEF Reading

LEMMA TimesSum ==
    ASSUME NEW h \in Seq(Reading)
    PROVE  \E P : /\ Prefix(P, [i \in 1..Len(h) |-> h[i].time], Len(h))
                 /\ Times(h) = P[Len(h)]
<1> DEFINE S == DOMAIN h
           F == [i \in S |-> h[i].time]
           Adds(g) == g = [s \in SUBSET S |-> IF s = {} THEN 0
                                             ELSE h[Taken(s)].time + g[s \ {Taken(s)}]]
<1>1. Times(h) = (CHOOSE g : Adds(g))[S]
  BY DEF Times, MapThenSumSet, MapThenFoldSet, Taken
<1>2. \A i \in S : F[i] = h[i].time /\ F[i] \in Int
  BY ReadingFacts
<1>3. \A g : Sums(g, F, S) <=> Adds(g)
  BY <1>2 DEF Sums, Taken
<1>4. S = 1..Len(h) /\ Len(h) \in Nat
  OBVIOUS
<1>5. F = [i \in 1..Len(h) |-> h[i].time]
  BY <1>4
<1> HIDE DEF F, S, Adds
<1>6. IsFiniteSet(S)
  BY <1>4, FS_Interval
<1>7. \E g : Adds(g)
  BY <1>2, <1>3, <1>6, SumsExist
<1> DEFINE sum == CHOOSE g : Adds(g)
<1>8. Sums(sum, F, S)
  BY <1>3, <1>7
<1> HIDE DEF sum
<1>9. \E P : Prefix(P, F, Len(h)) /\ P[Len(h)] = sum[S]
  <2>1. \A i \in 1..Len(h) : F[i] \in Int
    BY <1>2, <1>4
  <2> QED BY <1>4, <1>8, <2>1, PrefixSums
<1> QED BY <1>1, <1>5, <1>9 DEF sum

LEMMA WeighedSum ==
    ASSUME NEW h \in Seq(Reading)
    PROVE  \E P : /\ Prefix(P, [i \in 1..Len(h) |-> h[i].weight], Len(h))
                 /\ Weighed(h) = P[Len(h)]
<1> DEFINE S == DOMAIN h
           F == [i \in S |-> h[i].weight]
           Adds(g) == g = [s \in SUBSET S |-> IF s = {} THEN 0
                                             ELSE h[Taken(s)].weight + g[s \ {Taken(s)}]]
<1>1. Weighed(h) = (CHOOSE g : Adds(g))[S]
  BY DEF Weighed, MapThenSumSet, MapThenFoldSet, Taken
<1>2. \A i \in S : F[i] = h[i].weight /\ F[i] \in Int
  BY ReadingFacts
<1>3. \A g : Sums(g, F, S) <=> Adds(g)
  BY <1>2 DEF Sums, Taken
<1>4. S = 1..Len(h) /\ Len(h) \in Nat
  OBVIOUS
<1>5. F = [i \in 1..Len(h) |-> h[i].weight]
  BY <1>4
<1> HIDE DEF F, S, Adds
<1>6. IsFiniteSet(S)
  BY <1>4, FS_Interval
<1>7. \E g : Adds(g)
  BY <1>2, <1>3, <1>6, SumsExist
<1> DEFINE sum == CHOOSE g : Adds(g)
<1>8. Sums(sum, F, S)
  BY <1>3, <1>7
<1> HIDE DEF sum
<1>9. \E P : Prefix(P, F, Len(h)) /\ P[Len(h)] = sum[S]
  <2>1. \A i \in 1..Len(h) : F[i] \in Int
    BY <1>2, <1>4
  <2> QED BY <1>4, <1>8, <2>1, PrefixSums
<1> QED BY <1>1, <1>5, <1>9 DEF sum

LEMMA ProductsSum ==
    ASSUME NEW h \in Seq(Reading)
    PROVE  \E P : /\ Prefix(P, [i \in 1..Len(h) |-> (h[i].time * h[i].weight)], Len(h))
                 /\ MapThenSumSet(LAMBDA i : h[i].time * h[i].weight, DOMAIN h) = P[Len(h)]
<1> DEFINE S == DOMAIN h
           F == [i \in S |-> (h[i].time * h[i].weight)]
           Adds(g) == g = [s \in SUBSET S |-> IF s = {} THEN 0
                                             ELSE (h[Taken(s)].time * h[Taken(s)].weight) + g[s \ {Taken(s)}]]
<1>1. MapThenSumSet(LAMBDA i : h[i].time * h[i].weight, DOMAIN h) = (CHOOSE g : Adds(g))[S]
  BY DEF MapThenSumSet, MapThenFoldSet, Taken
<1>2. \A i \in S : F[i] = (h[i].time * h[i].weight) /\ F[i] \in Int
  BY ReadingFacts
<1>3. \A g : Sums(g, F, S) <=> Adds(g)
  BY <1>2 DEF Sums, Taken
<1>4. S = 1..Len(h) /\ Len(h) \in Nat
  OBVIOUS
<1>5. F = [i \in 1..Len(h) |-> (h[i].time * h[i].weight)]
  BY <1>4
<1> HIDE DEF F, S, Adds
<1>6. IsFiniteSet(S)
  BY <1>4, FS_Interval
<1>7. \E g : Adds(g)
  BY <1>2, <1>3, <1>6, SumsExist
<1> DEFINE sum == CHOOSE g : Adds(g)
<1>8. Sums(sum, F, S)
  BY <1>3, <1>7
<1> HIDE DEF sum
<1>9. \E P : Prefix(P, F, Len(h)) /\ P[Len(h)] = sum[S]
  <2>1. \A i \in 1..Len(h) : F[i] \in Int
    BY <1>2, <1>4
  <2> QED BY <1>4, <1>8, <2>1, PrefixSums
<1> QED BY <1>1, <1>5, <1>9 DEF sum

LEMMA SquaresSum ==
    ASSUME NEW h \in Seq(Reading)
    PROVE  \E P : /\ Prefix(P, [i \in 1..Len(h) |-> (h[i].time * h[i].time)], Len(h))
                 /\ MapThenSumSet(LAMBDA i : h[i].time * h[i].time, DOMAIN h) = P[Len(h)]
<1> DEFINE S == DOMAIN h
           F == [i \in S |-> (h[i].time * h[i].time)]
           Adds(g) == g = [s \in SUBSET S |-> IF s = {} THEN 0
                                             ELSE (h[Taken(s)].time * h[Taken(s)].time) + g[s \ {Taken(s)}]]
<1>1. MapThenSumSet(LAMBDA i : h[i].time * h[i].time, DOMAIN h) = (CHOOSE g : Adds(g))[S]
  BY DEF MapThenSumSet, MapThenFoldSet, Taken
<1>2. \A i \in S : F[i] = (h[i].time * h[i].time) /\ F[i] \in Int
  BY ReadingFacts
<1>3. \A g : Sums(g, F, S) <=> Adds(g)
  BY <1>2 DEF Sums, Taken
<1>4. S = 1..Len(h) /\ Len(h) \in Nat
  OBVIOUS
<1>5. F = [i \in 1..Len(h) |-> (h[i].time * h[i].time)]
  BY <1>4
<1> HIDE DEF F, S, Adds
<1>6. IsFiniteSet(S)
  BY <1>4, FS_Interval
<1>7. \E g : Adds(g)
  BY <1>2, <1>3, <1>6, SumsExist
<1> DEFINE sum == CHOOSE g : Adds(g)
<1>8. Sums(sum, F, S)
  BY <1>3, <1>7
<1> HIDE DEF sum
<1>9. \E P : Prefix(P, F, Len(h)) /\ P[Len(h)] = sum[S]
  <2>1. \A i \in 1..Len(h) : F[i] \in Int
    BY <1>2, <1>4
  <2> QED BY <1>4, <1>8, <2>1, PrefixSums
<1> QED BY <1>1, <1>5, <1>9 DEF sum

-----------------------------------------------------------------------------
(* Two series of which one rises where the other does.                       *)

LEMMA UpTo ==
    ASSUME NEW n \in Nat, NEW T, 0 \in T, \A k \in 1..n : k - 1 \in T => k \in T
    PROVE  \A k \in 0..n : k \in T
<1> DEFINE U == (0..n) \ T
<1> SUFFICES ASSUME U # {} PROVE FALSE
  OBVIOUS
<1> DEFINE m == Min(U)
<1>1. m \in U /\ \A k \in U : m <= k
  <2> U \in SUBSET Nat
    OBVIOUS
  <2> HIDE DEF U
  <2> QED BY MinFacts
<1> HIDE DEF m
<1>2. m \in 1..n /\ m - 1 \in 0..n /\ ~(m <= m - 1)
  BY <1>1
<1> QED BY <1>1, <1>2

\* Where x rises so does y; X, Y and XY have the sums of x, of y and of x * y.
RiseTogether(n, x, y, X, Y, XY) ==
    /\ n \in Nat /\ x \in [1..n -> Int] /\ y \in [1..n -> Int]
    /\ \A i, j \in 1..n : x[i] < x[j] => y[i] < y[j]
    /\ Prefix(X, x, n) /\ Prefix(Y, y, n) /\ Prefix(XY, [i \in 1..n |-> x[i] * y[i]], n)

\* The sum of (a - x[i]) * (b - y[i]) over the first m, from the sums of x, y and x * y.
Against(m, a, b, X, Y, XY) == m * (a * b) - a * Y[m] - b * X[m] + XY[m]

\* The k-th against those before it.
LEMMA InnerSpread ==
    ASSUME NEW n, NEW x, NEW y, NEW X, NEW Y, NEW XY, RiseTogether(n, x, y, X, Y, XY),
           NEW k \in 1..n
    PROVE  \A m \in 0..n :
             /\ Against(m, x[k], y[k], X, Y, XY) >= 0
             /\ Against(m, x[k], y[k], X, Y, XY) = 0 <=> \A i \in 1..m : x[i] = x[k]
<1>0. /\ n \in Nat /\ x \in [1..n -> Int] /\ y \in [1..n -> Int]
      /\ \A i, j \in 1..n : x[i] < x[j] => y[i] < y[j]
      /\ Prefix(X, x, n) /\ Prefix(Y, y, n) /\ Prefix(XY, [i \in 1..n |-> x[i] * y[i]], n)
  BY DEF RiseTogether
<1> DEFINE a == x[k]
           b == y[k]
           D(m) == m * (a * b) - a * Y[m] - b * X[m] + XY[m]
           T == {m \in 0..n : D(m) >= 0 /\ (D(m) = 0 <=> \A i \in 1..m : x[i] = a)}
<1>1. \A m \in 0..n : X[m] \in Int /\ Y[m] \in Int /\ XY[m] \in Int
  BY <1>0 DEF Prefix
<1>2. X[0] = 0 /\ Y[0] = 0 /\ XY[0] = 0
  BY <1>0 DEF Prefix
<1>3. a \in Int /\ b \in Int /\ \A i \in 1..n : (x[i] < a => y[i] < b) /\ (a < x[i] => b < y[i])
  BY <1>0
<1> HIDE DEF a, b
<1>4. 0 \in T
  <2>1. D(0) = 0
    BY <1>2, <1>3
  <2> HIDE DEF D
  <2> QED BY <1>0, <2>1
<1>5. ASSUME NEW m \in 1..n, m - 1 \in T PROVE m \in T
  <2> DEFINE M == m - 1
             c == x[m]
             e == y[m]
             X0 == X[M]
             Y0 == Y[M]
             P0 == XY[M]
             d == M * (a * b) - a * Y0 - b * X0 + P0
             d1 == (M + 1) * (a * b) - a * (Y0 + e) - b * (X0 + c) + (P0 + c * e)
  <2>1. M \in 0..n /\ m \in 0..n /\ m = M + 1 /\ M \in Int /\ m \in 1..m
    BY <1>0
  <2>2. c \in Int /\ e \in Int /\ X0 \in Int /\ Y0 \in Int /\ P0 \in Int
    BY <1>0, <1>1, <2>1
  <2>3. X[m] = X0 + c /\ Y[m] = Y0 + e /\ XY[m] = P0 + c * e
    BY <1>0 DEF Prefix
  <2>4. (c < a => e < b) /\ (a < c => b < e)
    BY <1>3
  <2>5. D(m) = d1
    BY <2>1, <2>3
  <2>6. d >= 0 /\ (d = 0 <=> \A i \in 1..M : x[i] = a)
    BY <1>5
  <2>7. c = x[m]
    OBVIOUS
  <2>8. \A i \in 1..m : i \in 1..M \/ i = m
    BY <2>1
  <2>9. \A i \in 1..M : i \in 1..m
    BY <2>1
  <2> HIDE DEF M, c, e, X0, Y0, P0
  <2>10. d \in Int /\ d1 = d + (a - c) * (b - e)
    BY <1>3, <2>1, <2>2
  <2>11. (a - c) * (b - e) \in Int /\ (a - c) * (b - e) >= 0 /\ ((a - c) * (b - e) = 0 <=> c = a)
    <3> DEFINE u == a - c
               v == b - e
    <3>1. /\ u \in Int /\ v \in Int /\ (u > 0 => v > 0) /\ (u < 0 => v < 0)
          /\ u = 0 <=> c = a
      BY <1>3, <2>2, <2>4
    <3> HIDE DEF u, v
    <3>2. u * v \in Int /\ u * v >= 0 /\ (u * v = 0 <=> u = 0)
      BY <3>1
    <3> QED BY <3>1, <3>2 DEF u, v
  <2> DEFINE q == (a - c) * (b - e)
  <2>12. q \in Int /\ q >= 0 /\ (q = 0 <=> c = a) /\ d1 = d + q
    BY <2>10, <2>11
  <2> HIDE DEF d, d1, q
  <2>13. d1 >= 0 /\ (d1 = 0 <=> d = 0 /\ c = a)
    BY <2>6, <2>10, <2>12
  <2>14. (\A i \in 1..m : x[i] = a) <=> (\A i \in 1..M : x[i] = a) /\ c = a
    BY <2>1, <2>7, <2>8, <2>9
  <2> HIDE DEF D
  <2> QED BY <2>1, <2>5, <2>6, <2>13, <2>14
<1> HIDE DEF T
<1>6. \A m \in 0..n : m \in T
  BY <1>0, <1>4, <1>5, UpTo
<1> QED BY <1>6 DEF T, D, a, b, Against

\* Two series that rise together: the covariance is that of a rise.
LEMMA Spread ==
    ASSUME NEW n, NEW x, NEW y, NEW X, NEW Y, NEW XY, RiseTogether(n, x, y, X, Y, XY)
    PROVE  /\ n * XY[n] - X[n] * Y[n] >= 0
           /\ n * XY[n] - X[n] * Y[n] = 0 <=> \A i, j \in 1..n : x[i] = x[j]
<1>0. /\ n \in Nat /\ x \in [1..n -> Int] /\ y \in [1..n -> Int]
      /\ \A i, j \in 1..n : x[i] < x[j] => y[i] < y[j]
      /\ Prefix(X, x, n) /\ Prefix(Y, y, n) /\ Prefix(XY, [i \in 1..n |-> x[i] * y[i]], n)
  BY DEF RiseTogether
<1> DEFINE D(k) == k * XY[k] - X[k] * Y[k]
           T == {k \in 0..n : D(k) >= 0 /\ (D(k) = 0 <=> \A i, j \in 1..k : x[i] = x[j])}
<1>1. \A m \in 0..n : X[m] \in Int /\ Y[m] \in Int /\ XY[m] \in Int
  BY <1>0 DEF Prefix
<1>2. 0 \in T
  <2>1. D(0) = 0
    BY <1>0 DEF Prefix
  <2> HIDE DEF D
  <2> QED BY <1>0, <2>1
<1>3. ASSUME NEW k \in 1..n, k - 1 \in T PROVE k \in T
  <2> DEFINE K == k - 1
             a == x[k]
             b == y[k]
             X0 == X[K]
             Y0 == Y[K]
             P0 == XY[K]
             d0 == K * P0 - X0 * Y0
             d  == K * (a * b) - a * Y0 - b * X0 + P0
             d1 == (K + 1) * (P0 + a * b) - (X0 + a) * (Y0 + b)
  <2>1. K \in 0..n /\ k \in 0..n /\ K + 1 = k /\ K \in Int
    BY <1>0
  <2>2. a \in Int /\ b \in Int /\ X0 \in Int /\ Y0 \in Int /\ P0 \in Int
    BY <1>0, <1>1, <2>1
  <2>3. X[k] = X0 + a /\ Y[k] = Y0 + b /\ XY[k] = P0 + a * b
    BY <1>0 DEF Prefix
  <2>4. D(k) = d1
    BY <2>1, <2>3
  <2>5. d >= 0 /\ (d = 0 <=> \A i \in 1..K : x[i] = a)
    <3> HIDE DEF K
    <3>1. /\ Against(K, x[k], y[k], X, Y, XY) >= 0
          /\ Against(K, x[k], y[k], X, Y, XY) = 0 <=> \A i \in 1..K : x[i] = x[k]
      BY <2>1, InnerSpread
    <3> QED BY <3>1 DEF Against
  <2>6. d0 >= 0 /\ (d0 = 0 <=> \A i, j \in 1..K : x[i] = x[j])
    BY <1>3
  <2>7. \A i \in 1..k : i \in 1..K \/ i = k
    BY <2>1
  <2>8. k \in 1..k /\ \A i \in 1..K : i \in 1..k
    BY <2>1
  <2>9. a = x[k]
    OBVIOUS
  <2> HIDE DEF K, a, b, X0, Y0, P0
  <2>10. d0 \in Int /\ d \in Int /\ d1 = d0 + d
    BY <2>1, <2>2
  <2> HIDE DEF D, d, d0, d1
  <2>11. d1 >= 0 /\ (d1 = 0 <=> d0 = 0 /\ d = 0)
    BY <2>5, <2>6, <2>10
  <2>12. (\A i, j \in 1..k : x[i] = x[j])
           <=> (\A i, j \in 1..K : x[i] = x[j]) /\ (\A i \in 1..K : x[i] = a)
    BY <2>7, <2>8, <2>9
  <2> QED BY <2>1, <2>4, <2>5, <2>6, <2>11, <2>12
<1>4. n \in T
  <2> HIDE DEF T
  <2>1. \A k \in 0..n : k \in T
    BY <1>0, <1>2, <1>3, UpTo
  <2> QED BY <1>0, <2>1
<1> QED BY <1>4

-----------------------------------------------------------------------------
(* The fit.                                                                  *)

\* The sums behind a fit.
Fit(h, X, W, XW, XX) ==
    /\ Prefix(X, [i \in 1..Len(h) |-> h[i].time], Len(h))
    /\ Prefix(W, [i \in 1..Len(h) |-> h[i].weight], Len(h))
    /\ Prefix(XW, [i \in 1..Len(h) |-> h[i].time * h[i].weight], Len(h))
    /\ Prefix(XX, [i \in 1..Len(h) |-> h[i].time * h[i].time], Len(h))
    /\ Variance(h) = Len(h) * XX[Len(h)] - X[Len(h)] * X[Len(h)]
    /\ Covariance(h) = Len(h) * XW[Len(h)] - X[Len(h)] * W[Len(h)]

LEMMA FitSums ==
    ASSUME NEW h \in Seq(Reading)
    PROVE  /\ \E X, W, XW, XX : Fit(h, X, W, XW, XX)
           /\ Variance(h) \in Int /\ Covariance(h) \in Int
<1> DEFINE n == Len(h)
<1>1. PICK X : Prefix(X, [i \in 1..n |-> h[i].time], n) /\ Times(h) = X[n]
  BY TimesSum
<1>2. PICK W : Prefix(W, [i \in 1..n |-> h[i].weight], n) /\ Weighed(h) = W[n]
  BY WeighedSum
<1>3. PICK XW : /\ Prefix(XW, [i \in 1..n |-> h[i].time * h[i].weight], n)
                /\ MapThenSumSet(LAMBDA i : h[i].time * h[i].weight, DOMAIN h) = XW[n]
  BY ProductsSum
<1>4. PICK XX : /\ Prefix(XX, [i \in 1..n |-> h[i].time * h[i].time], n)
                /\ MapThenSumSet(LAMBDA i : h[i].time * h[i].time, DOMAIN h) = XX[n]
  BY SquaresSum
<1>5. Variance(h) = n * XX[n] - X[n] * X[n] /\ Covariance(h) = n * XW[n] - X[n] * W[n]
  BY <1>1, <1>2, <1>3, <1>4 DEF Variance, Covariance
<1>6. n \in Nat /\ n \in 0..n
  BY ReadingFacts
<1>7. X[n] \in Int /\ W[n] \in Int /\ XW[n] \in Int /\ XX[n] \in Int
  BY <1>1, <1>2, <1>3, <1>4, <1>6 DEF Prefix
<1>8. Fit(h, X, W, XW, XX)
  BY <1>1, <1>2, <1>3, <1>4, <1>5 DEF Fit
<1> QED BY <1>5, <1>6, <1>7, <1>8

\* The weights less the fitted line, or the fitted line less the weights (a is
\* 1 or -1), do not rise with the time: their covariance with it is zero.
LEMMA NoSteeperFit ==
    ASSUME NEW h \in Seq(Reading), Variance(h) > 0, NEW a \in {1, -1},
           \A i, j \in DOMAIN h : h[i].time < h[j].time =>
             a * ((h[j].weight - h[i].weight) * Variance(h))
               > a * (Covariance(h) * (h[j].time - h[i].time))
    PROVE  FALSE
<1> DEFINE n == Len(h)
           x == [i \in 1..n |-> h[i].time]
           w == [i \in 1..n |-> h[i].weight]
           xw == [i \in 1..n |-> h[i].time * h[i].weight]
           xx == [i \in 1..n |-> h[i].time * h[i].time]
<1>1. n \in Nat /\ x \in [1..n -> Int] /\ w \in [1..n -> Int] /\ DOMAIN h = 1..n
  BY ReadingFacts
<1>2. PICK X, W, XW, XX : Fit(h, X, W, XW, XX)
  BY FitSums
<1>3. Prefix(X, x, n) /\ Prefix(W, w, n)
  BY <1>2 DEF Fit
<1>4. Prefix(XW, xw, n)
  BY <1>2 DEF Fit
<1>5. Prefix(XX, xx, n)
  BY <1>2 DEF Fit
<1> DEFINE V == n * XX[n] - X[n] * X[n]
           C == n * XW[n] - X[n] * W[n]
<1>6. Variance(h) = V /\ Covariance(h) = C
  BY <1>2 DEF Fit
<1>7. \A k \in 0..n : X[k] \in Int /\ W[k] \in Int /\ XW[k] \in Int /\ XX[k] \in Int
  BY <1>3, <1>4, <1>5 DEF Prefix
<1>8. V \in Int /\ C \in Int /\ V > 0
  BY <1>1, <1>6, <1>7
<1>9. ~ \A i, j \in 1..n : x[i] = x[j]
  <2>1. RiseTogether(n, x, x, X, X, XX)
    <3>1. xx = [i \in 1..n |-> x[i] * x[i]]
      OBVIOUS
    <3> QED BY <1>1, <1>3, <1>5, <3>1 DEF RiseTogether
  <2> QED BY <1>8, <2>1, Spread
<1> DEFINE y  == [i \in 1..n |-> a * (w[i] * V - C * x[i])]
           Y  == [k \in 0..n |-> a * (W[k] * V - C * X[k])]
           XY == [k \in 0..n |-> a * (XW[k] * V - C * XX[k])]
<1>10. \A i, j \in 1..n : x[i] < x[j] => y[i] < y[j]
  <2> SUFFICES ASSUME NEW i \in 1..n, NEW j \in 1..n, x[i] < x[j] PROVE y[i] < y[j]
    OBVIOUS
  <2> DEFINE p == w[i]
             q == w[j]
             s == x[i]
             t == x[j]
  <2>1. p \in Int /\ q \in Int /\ s \in Int /\ t \in Int
    BY <1>1
  <2>2. a * ((q - p) * V) > a * (C * (t - s))
    BY <1>1, <1>6
  <2>3. y[i] = a * (p * V - C * s) /\ y[j] = a * (q * V - C * t)
    OBVIOUS
  <2> HIDE DEF p, q, s, t, V, C, y
  <2>4. (q - p) * V = q * V - p * V /\ C * (t - s) = C * t - C * s
    BY <1>8, <2>1
  <2>5. q * V \in Int /\ p * V \in Int /\ C * t \in Int /\ C * s \in Int
    BY <1>8, <2>1
  <2> QED BY <2>2, <2>3, <2>4, <2>5
<1>11. /\ y \in [1..n -> Int] /\ Prefix(Y, y, n)
       /\ Prefix(XY, [i \in 1..n |-> x[i] * y[i]], n)
  <2> HIDE DEF V, C, n
  <2>1. y \in [1..n -> Int] /\ Y \in [0..n -> Int] /\ XY \in [0..n -> Int]
    <3>1. \A i \in 1..n : w[i] * V - C * x[i] \in Int
      BY <1>1, <1>8
    <3>2. ASSUME NEW k \in 0..n
          PROVE  W[k] * V - C * X[k] \in Int /\ XW[k] * V - C * XX[k] \in Int
      <4>1. \A p, q \in Int : p * V - C * q \in Int
        BY <1>8
      <4>2. W[k] \in Int /\ X[k] \in Int /\ XW[k] \in Int /\ XX[k] \in Int
        BY <1>7
      <4> QED BY <4>1, <4>2, Zenon
    <3>3. \A i \in Int : a * i \in Int
      OBVIOUS
    <3> QED BY <3>1, <3>2, <3>3
  <2>2. Y[0] = 0 /\ XY[0] = 0
    <3>1. 0 \in 0..n /\ X[0] = 0 /\ W[0] = 0 /\ XW[0] = 0 /\ XX[0] = 0
      <4> HIDE DEF x, w, xw, xx
      <4>1. 0 \in 0..n
        BY <1>1
      <4>2. X[0] = 0 /\ W[0] = 0
        BY <1>3 DEF Prefix
      <4>3. XW[0] = 0 /\ XX[0] = 0
        BY <1>4, <1>5 DEF Prefix
      <4> QED BY <4>1, <4>2, <4>3
    <3>2. 0 * V - C * 0 = 0
      BY <1>8
    <3> QED BY <3>1, <3>2
  <2>3. ASSUME NEW k \in 1..n
        PROVE  Y[k] = Y[k - 1] + y[k] /\ XY[k] = XY[k - 1] + x[k] * y[k]
    <3> DEFINE X0 == X[k - 1]
               W0 == W[k - 1]
               P0 == XW[k - 1]
               Q0 == XX[k - 1]
               s == x[k]
               p == w[k]
    <3>1. k - 1 \in 0..n /\ k \in 0..n
      BY <1>1
    <3>2. /\ X0 \in Int /\ W0 \in Int /\ P0 \in Int /\ Q0 \in Int /\ s \in Int /\ p \in Int
      BY <1>1, <1>7, <3>1
    <3>3. X[k] = X0 + s /\ W[k] = W0 + p
      BY <1>3 DEF Prefix
    <3>4. XW[k] = P0 + s * p /\ XX[k] = Q0 + s * s
      <4>1. xw[k] = s * p /\ xx[k] = s * s
        BY <1>1
      <4> HIDE DEF xw, xx
      <4> QED BY <1>4, <1>5, <4>1 DEF Prefix
    <3>5. /\ Y[k - 1] = a * (W0 * V - C * X0) /\ XY[k - 1] = a * (P0 * V - C * Q0)
          /\ y[k] = a * (p * V - C * s)
          /\ Y[k] = a * ((W0 + p) * V - C * (X0 + s))
          /\ XY[k] = a * ((P0 + s * p) * V - C * (Q0 + s * s))
          /\ x[k] = s
      BY <1>1, <3>1, <3>3, <3>4
    <3> HIDE DEF X0, W0, P0, Q0, s, p, Y, XY, x, y
    <3>6. (W0 + p) * V - C * (X0 + s) = (W0 * V - C * X0) + (p * V - C * s)
      BY <1>8, <3>2
    <3>7. (P0 + s * p) * V - C * (Q0 + s * s) = (P0 * V - C * Q0) + s * (p * V - C * s)
      BY <1>8, <3>2
    <3> DEFINE f == W0 * V - C * X0
               g == P0 * V - C * Q0
               e == p * V - C * s
    <3>8. f \in Int /\ g \in Int /\ e \in Int
      BY <1>8, <3>2
    <3>9. /\ Y[k - 1] = a * f /\ XY[k - 1] = a * g /\ y[k] = a * e
          /\ Y[k] = a * (f + e) /\ XY[k] = a * (g + s * e)
      BY <3>5, <3>6, <3>7
    <3> HIDE DEF f, g, e
    <3>10. a * (f + e) = a * f + a * e /\ a * (g + s * e) = a * g + s * (a * e)
      BY <3>2, <3>8
    <3> QED BY <3>5, <3>9, <3>10
  <2> HIDE DEF y, Y, XY, x
  <2>4. \A k \in 1..n : [i \in 1..n |-> x[i] * y[i]][k] = x[k] * y[k]
    OBVIOUS
  <2> QED BY <2>1, <2>2, <2>3, <2>4 DEF Prefix
<1>12. RiseTogether(n, x, y, X, Y, XY)
  <2> HIDE DEF x, y, Y, XY, n
  <2> QED BY <1>1, <1>3, <1>10, <1>11 DEF RiseTogether
<1>13. n * XY[n] - X[n] * Y[n] = 0
  <2> DEFINE X0 == X[n]
             W0 == W[n]
             P0 == XW[n]
             Q0 == XX[n]
  <2>1. X0 \in Int /\ W0 \in Int /\ P0 \in Int /\ Q0 \in Int /\ n \in Int
    BY <1>1, <1>7
  <2>2. XY[n] = a * (P0 * V - C * Q0) /\ Y[n] = a * (W0 * V - C * X0)
    BY <1>1
  <2>3. V = n * Q0 - X0 * X0 /\ C = n * P0 - X0 * W0
    OBVIOUS
  <2> HIDE DEF n, X0, W0, P0, Q0, V, C, Y, XY
  <2>4. n * (P0 * V - C * Q0) - X0 * (W0 * V - C * X0) = (n * P0 - X0 * W0) * V - C * (n * Q0 - X0 * X0)
    BY <1>8, <2>1
  <2>5. n * (P0 * V - C * Q0) - X0 * (W0 * V - C * X0) = 0
    BY <1>8, <2>3, <2>4
  <2> DEFINE f == P0 * V - C * Q0
             g == W0 * V - C * X0
  <2>6. f \in Int /\ g \in Int /\ XY[n] = a * f /\ Y[n] = a * g /\ n * f - X0 * g = 0 /\ X[n] = X0
    BY <1>8, <2>1, <2>2, <2>5 DEF X0
  <2> HIDE DEF f, g
  <2>7. n * (a * f) - X0 * (a * g) = a * (n * f - X0 * g)
    BY <2>1, <2>6
  <2> QED BY <2>6, <2>7
<1> QED BY <1>9, <1>12, <1>13, Spread

\* Whatever the readings, a flow that flow_rate reports is between the slopes of
\* two pairs of them: the fitted line is no steeper than every pair, and no
\* flatter.
THEOREM FlowIsBetweenSlopes == Spec => []FlowBetweenSlopes
<1>1. ASSUME TypeOK PROVE FlowBetweenSlopes
  <2> DEFINE pairs   == {e \in (DOMAIN history) \X (DOMAIN history) :
                           history[e[1]].time < history[e[2]].time}
             rise(e) == history[e[2]].weight - history[e[1]].weight
             run(e)  == history[e[2]].time - history[e[1]].time
             V == Variance(history)
             C == Covariance(history)
  <2> SUFFICES ASSUME HasFlow(history)
               PROVE  /\ \E e \in pairs : rise(e) * V <= C * run(e)
                      /\ \E e \in pairs : rise(e) * V >= C * run(e)
    BY DEF FlowBetweenSlopes
  <2>1. history \in Seq(Reading) /\ V > 0
    BY <1>1 DEF TypeOK, HasFlow
  <2>2. V \in Int /\ C \in Int
    BY <2>1, FitSums
  <2>3. \A i, j \in DOMAIN history :
          /\ history[j].weight - history[i].weight \in Int
          /\ history[j].time - history[i].time \in Int
    BY <2>1, ReadingFacts
  <2> HIDE DEF V, C
  <2>4. ASSUME ~ \E e \in pairs : rise(e) * V <= C * run(e) PROVE FALSE
    <3>1. ASSUME NEW i \in DOMAIN history, NEW j \in DOMAIN history,
                 history[i].time < history[j].time
          PROVE  1 * ((history[j].weight - history[i].weight) * V)
                   > 1 * (C * (history[j].time - history[i].time))
      <4> DEFINE r == history[j].weight - history[i].weight
                 s == history[j].time - history[i].time
      <4>1. <<i, j>> \in pairs /\ rise(<<i, j>>) = r /\ run(<<i, j>>) = s
        BY <3>1
      <4>2. ~(r * V <= C * s) /\ r \in Int /\ s \in Int
        BY <2>3, <2>4, <4>1
      <4> HIDE DEF r, s
      <4>3. 1 * (r * V) > 1 * (C * s)
        BY <2>2, <4>2
      <4> QED BY <4>3 DEF r, s
    <3> QED BY <2>1, <3>1, NoSteeperFit DEF V, C
  <2>5. ASSUME ~ \E e \in pairs : rise(e) * V >= C * run(e) PROVE FALSE
    <3>1. ASSUME NEW i \in DOMAIN history, NEW j \in DOMAIN history,
                 history[i].time < history[j].time
          PROVE  (-1) * ((history[j].weight - history[i].weight) * V)
                   > (-1) * (C * (history[j].time - history[i].time))
      <4> DEFINE r == history[j].weight - history[i].weight
                 s == history[j].time - history[i].time
      <4>1. <<i, j>> \in pairs /\ rise(<<i, j>>) = r /\ run(<<i, j>>) = s
        BY <3>1
      <4>2. ~(r * V >= C * s) /\ r \in Int /\ s \in Int
        BY <2>3, <2>5, <4>1
      <4> HIDE DEF r, s
      <4>3. r * V \in Int /\ C * s \in Int
        BY <2>2, <4>2
      <4>4. (-1) * (r * V) > (-1) * (C * s)
        BY <4>2, <4>3
      <4> QED BY <4>4 DEF r, s
    <3> QED BY <2>1, <3>1, NoSteeperFit DEF V, C
  <2> QED BY <2>4, <2>5
<1> QED BY <1>1, HistoryBounded, PTL

=============================================================================
