---------------------------- MODULE WeightHistory ----------------------------
(***************************************************************************)
(* The readings behind the flow rate: _update_weight keeps the recent      *)
(* rising readings and flow_rate fits a line through them.  Arithmetic is  *)
(* exact here: a flow is the quotient of two integers that are compared    *)
(* without dividing.                                                       *)
(*                                                                         *)
(* External: time, the weights the scale reports, the loss of the link,    *)
(* which the backend reports before it hands out the next.  connect() is   *)
(* here what the cooldown makes of it: it waits for a disconnect that the  *)
(* callback has recorded, and for no other.  One connect() runs at a time. *)
(***************************************************************************)
EXTENDS Integers, Sequences, FiniteSets, FiniteSetsExt

CONSTANTS HistoryLimit,    \* maxlen of weight_history
          Window,          \* seconds for which a reading is recent
          Margin,          \* grams of decrease that are noise
          MinReadings,     \* readings a fit takes
          RateLimit,       \* the largest flow that is reported
          ReconnectDelay,  \* _RECONNECT_DELAY
          Weights,         \* the weights the scale reports
          MaxSessions,     \* bound: connections
          MaxTime          \* bound: the clock

ASSUME LimitAssumption == HistoryLimit \in Nat \ {0} /\ MinReadings \in Nat /\ RateLimit \in Nat
ASSUME DelayAssumption == Window \in Nat /\ ReconnectDelay \in Nat /\ Window < ReconnectDelay
ASSUME WeightAssumption == Weights \subseteq Int /\ Margin \in Nat
ASSUME BoundAssumption == MaxSessions \in Nat /\ MaxTime \in Nat

NoTime == -1

VARIABLES
    now,
    history,         \* weight_history, each reading with the connection it is from
    reading,         \* the latest reading: its weight is self._weight
    session,         \* history: the number of the connection, 0 before the first
    connected,
    up,              \* the link is up
    due,             \* its disconnected callback has still to run
    lastDisconnect,  \* last_disconnect_time, NoTime for None
    wake,            \* when connect() has waited long enough, NoTime if none runs
    early,           \* history: that connect() began before the callback of the last link
    hasty            \* history: so did the connect() of this connection

data == <<history, reading>>
link == <<session, up, due, hasty>>
call == <<wake, early>>
vars == <<now, data, connected, lastDisconnect, link, call>>

Reading == [time : Nat, weight : Int, session : Nat]

TypeOK ==
    /\ now \in 0..MaxTime /\ lastDisconnect \in NoTime..now
    /\ wake \in NoTime..(MaxTime + ReconnectDelay)
    /\ history \in Seq(Reading) /\ Len(history) <= HistoryLimit
    /\ reading \in Reading
    /\ session \in 0..MaxSessions
    /\ {connected, up, due, early, hasty} \subseteq BOOLEAN

Init ==
    /\ now = 0
    /\ history = <<>>
    /\ reading = [time |-> 0, weight |-> 0, session |-> 0]
    /\ connected = FALSE /\ lastDisconnect = NoTime
    /\ session = 0 /\ up = FALSE /\ due = FALSE /\ hasty = FALSE
    /\ wake = NoTime /\ early = FALSE

-----------------------------------------------------------------------------
(* _update_weight.                                                           *)

\* Mutant: a list without a limit.
Unlimited(h, r) == Append(h, r)

\* Append to a deque with a maxlen.
Limited(h, r) == Append(IF Len(h) = HistoryLimit THEN Tail(h) ELSE h, r)

\* Mutant: a decrease is measured from the reading before.
RecordedStepwise(h, r) ==
    CASE h = <<>> \/ r.weight > h[Len(h)].weight -> Limited(h, r)
      [] h # <<>> /\ r.weight < reading.weight - Margin -> <<r>>
      [] OTHER -> h

\* h with r, if r goes on rising, or r alone after a decrease.
Recorded(h, r) ==
    CASE h = <<>> \/ r.weight > h[Len(h)].weight -> Limited(h, r)
      [] h # <<>> /\ r.weight < h[Len(h)].weight - Margin -> <<r>>
      [] OTHER -> h

\* Mutant: only one reading leaves at a time.
RecentButOne(h, t) ==
    IF h # <<>> /\ t - h[1].time > Window THEN Tail(h) ELSE h

\* h without the readings at its front that are too old.
Recent(h, t) ==
    LET fresh == {i \in DOMAIN h : t - h[i].time <= Window}
    IN  IF fresh = {} THEN <<>> ELSE SubSeq(h, Min(fresh), Len(h))

UpdateWeight(w) ==
    LET r == [time |-> now, weight |-> w, session |-> session]
    IN  /\ up
        /\ reading' = r
        /\ history' = Recent(Recorded(history, r), now)
        /\ UNCHANGED <<now, connected, lastDisconnect, link, call>>

-----------------------------------------------------------------------------
(* flow_rate.  The covariance and the variance are those of the source times *)
(* the square of the number of readings.                                     *)


Times(h)   == MapThenSumSet(LAMBDA i : h[i].time, DOMAIN h)
Weighed(h) == MapThenSumSet(LAMBDA i : h[i].weight, DOMAIN h)

\* Mutant: the weights are not taken relative to their mean.
CovarianceUncentred(h) ==
    Len(h) * MapThenSumSet(LAMBDA i : h[i].time * h[i].weight, DOMAIN h)

Covariance(h) ==
    Len(h) * MapThenSumSet(LAMBDA i : h[i].time * h[i].weight, DOMAIN h) - Times(h) * Weighed(h)

Variance(h) == Len(h) * MapThenSumSet(LAMBDA i : h[i].time * h[i].time, DOMAIN h) - Times(h) * Times(h)

\* flow_rate is not None; it is Covariance / Variance then.
HasFlow(h) ==
    /\ Len(h) >= MinReadings
    /\ Variance(h) > 0
    /\ 0 <= Covariance(h) /\ Covariance(h) <= RateLimit * Variance(h)

-----------------------------------------------------------------------------
(* Time, the link and the cooldown.                                          *)

Tick ==
    /\ now < MaxTime
    /\ now' = now + 1
    /\ UNCHANGED <<data, connected, lastDisconnect, link, call>>

LinkDrops ==
    /\ up
    /\ up' = FALSE /\ due' = TRUE
    /\ UNCHANGED <<now, data, connected, lastDisconnect, session, hasty, call>>

\* device_disconnected_handler leaves the weight and its history alone.
DeviceDisconnected ==
    /\ due
    /\ due' = FALSE
    /\ connected' = FALSE
    /\ lastDisconnect' = now
    /\ UNCHANGED <<now, data, session, up, hasty, call>>

\* disconnect() or a failed write: connected goes before the callback runs, and
\* readings may arrive until the link is down.
LeavesConnected ==
    /\ connected
    /\ connected' = FALSE
    /\ UNCHANGED <<now, data, lastDisconnect, link, call>>

\* Mutant: connect() does not wait.
WakesUncooled(t) == t

\* When a connect() that begins at t has waited out the cooldown.
Wakes(t) ==
    IF lastDisconnect # NoTime /\ lastDisconnect + ReconnectDelay > t
    THEN lastDisconnect + ReconnectDelay ELSE t

\* connect() up to its sleep.
BeginConnect ==
    /\ ~connected /\ wake = NoTime
    /\ wake' = Wakes(now)
    /\ early' = (up \/ due)
    /\ UNCHANGED <<now, data, connected, lastDisconnect, link>>

\* connect() ends with an exception, or is cancelled.
ConnectFails ==
    /\ wake # NoTime
    /\ wake' = NoTime /\ early' = FALSE
    /\ UNCHANGED <<now, data, connected, lastDisconnect, link>>

\* establish_connection returns a client, and connect() goes on to the end.
Established ==
    /\ wake # NoTime /\ now >= wake
    /\ ~up /\ ~due /\ session < MaxSessions
    /\ up' = TRUE /\ connected' = TRUE
    /\ session' = session + 1
    /\ hasty' = early
    /\ wake' = NoTime /\ early' = FALSE
    /\ UNCHANGED <<now, data, lastDisconnect, due>>

Next ==
    \/ \E w \in Weights : UpdateWeight(w)
    \/ Tick \/ LinkDrops \/ DeviceDisconnected
    \/ LeavesConnected \/ BeginConnect \/ ConnectFails \/ Established

Spec == Init /\ [][Next]_vars

-----------------------------------------------------------------------------
\* The readings kept rise in weight and do not go back in time, they are no
\* older than Window at the latest reading, and the current weight is at most
\* Margin below the last of them and never above it: however slowly a weight
\* declines, the fit is not left with a rise that is over.
HistoryTracksWeight ==
    /\ \A i, j \in DOMAIN history : i < j =>
         /\ history[i].weight < history[j].weight
         /\ history[i].time <= history[j].time
    /\ \A i \in DOMAIN history : history[i].time + Window >= reading.time
    /\ history # <<>> =>
         LET top == history[Len(history)].weight
         IN  top - Margin <= reading.weight /\ reading.weight <= top

\* A flow that is reported lies between the slopes of two pairs of the readings,
\* so that a noisy series or one with equal times never yields a flow that no
\* part of it has.
FlowBetweenSlopes ==
    LET pairs   == {e \in (DOMAIN history) \X (DOMAIN history) :
                      history[e[1]].time < history[e[2]].time}
        rise(e) == history[e[2]].weight - history[e[1]].weight
        run(e)  == history[e[2]].time - history[e[1]].time
    IN  HasFlow(history) =>
          /\ \E e \in pairs : rise(e) * Variance(history) <= Covariance(history) * run(e)
          /\ \E e \in pairs : rise(e) * Variance(history) >= Covariance(history) * run(e)

\* Although the disconnected handler leaves weight_history alone, a connection
\* whose connect() began after the callback of the one before keeps no reading of
\* an earlier one beside its own: what the handler does not clear the cooldown
\* outlasts, also where the connection before did not wait for it.  A connect()
\* that begins before the callback does not wait, and its flow may be fitted
\* across the gap.
FlowWithinSession ==
    ~hasty /\ reading.session = session =>
        \A i \in DOMAIN history : history[i].session = session

=============================================================================
