--------------------------- MODULE ScaleTimerProofs ---------------------------
(***************************************************************************)
(* For every number of callers, every delay and every bound: the timer     *)
(* keeps its types, and where a command and then a notification arrive     *)
(* within the settle time, no report from before a command undoes it.      *)
(*                                                                         *)
(* The second needs more than the types: how late commands and             *)
(* notifications may be, and that a stale notification is no older than    *)
(* the last command by more than a command takes.  Timely says so; it      *)
(* rests on the queue having room, as lastCommand is set behind the last   *)
(* put of a call.                                                          *)
(*                                                                         *)
(* Settings that hold bring the local timer and the scale's into agreement *)
(* on whether they run, a timed report then leaves the one behind the other*)
(* by no more than a notification takes, and both last until the next      *)
(* change, for every set of buttons and reports.  FollowsScale says nothing*)
(* of the notifications in flight, each of which may set the timer again.  *)
(* Flight says what they carry: those sent after the last command and since*)
(* the last button agree with one another, and with the scale as it is now.*)
(* Trails says that what is to be received before the next button still    *)
(* holds for the scale, so that receiving it keeps the agreement (Agrees)  *)
(* and moves the timer no further than the notification's age (Anchor).    *)
(***************************************************************************)
EXTENDS ScaleTimer, SequenceTheorems, TLAPS

USE NoneAssumption, DelaysAssumption, ModesAssumption, BoundsAssumption

Timers    == [running : BOOLEAN, start : Times, stop : Times, pressed : BOOLEAN]
CommandsT == [command : ButtonTypes, given : Nat]

\* The reports of a timer carry a time.
TimedOK == \A i \in DOMAIN frames : frames[i].kind = "Timer" => frames[i].time \in Int

Types == TypeOK /\ TimedOK

-----------------------------------------------------------------------------
(* The operations of the timer.                                              *)

LEMMA TimerOps ==
    ASSUME NEW t \in Timers, now \in Nat
    PROVE  /\ StartTimer(t) \in Timers /\ StopTimer(t) \in Timers
           /\ \A e \in Int : UpdateTimer(t, e) \in Timers
           /\ \A r \in BOOLEAN : SyncTimerRunning(t, r) \in Timers
           /\ ResetTimer(t) \in Timers /\ ResetOnPowerButton(t) \in Timers
<1>1. /\ t.running \in BOOLEAN /\ t.start \in Times /\ t.stop \in Times
  BY DEF Timers
<1>2. StartTimer(t) \in Timers
  <2>1. t.start # None /\ t.stop # None => now - (t.stop - t.start) \in Int
    BY <1>1 DEF Times
  <2>2. (IF t.start # None /\ t.stop # None THEN now - (t.stop - t.start) ELSE now) \in Times
    BY <2>1 DEF Times
  <2> QED BY <2>2 DEF StartTimer, Timers
<1>3. StopTimer(t) \in Timers
  <2>1. now \in Times
    BY DEF Times
  <2> QED BY <2>1 DEF StopTimer, Timers
<1>4. ASSUME NEW e \in Int PROVE UpdateTimer(t, e) \in Timers
  <2>1. now - e \in Times /\ now \in Times /\ None \in Times
    BY DEF Times
  <2> QED BY <2>1 DEF UpdateTimer, Timers
<1>5. ResetTimer(t) \in Timers
  BY DEF ResetTimer, Timers, Times
<1>6. ResetOnPowerButton(t) \in Timers
  BY <1>5 DEF ResetOnPowerButton, Timers
<1>7. ASSUME NEW r \in BOOLEAN PROVE SyncTimerRunning(t, r) \in Timers
  BY <1>1, <1>2, <1>3 DEF SyncTimerRunning
<1> QED BY <1>2, <1>3, <1>4, <1>5, <1>6, <1>7

LEMMA AppliedType ==
    ASSUME NEW t \in Timers, now \in Nat, NEW f \in Frames, f.kind = "Timer" => f.time \in Int
    PROVE  Applied(t, f) \in Timers
<1>1. f.kind \in ButtonTypes \cup ReportTypes /\ f.running \in BOOLEAN /\ f.time \in Int \cup {None}
  BY DEF Frames, Times
<1>2. CASE f.kind = "Settings"
  <2>1. Applied(t, f) = SyncTimerRunning(t, f.running) \/ Applied(t, f) = t
    BY <1>2 DEF Applied, ButtonTypes
  <2> QED BY <1>1, <2>1, TimerOps
<1>3. CASE f.kind = "Weight"
  <2>1. (f.time # None /\ Applied(t, f) = UpdateTimer(t, f.time)) \/ Applied(t, f) = t
    BY <1>3 DEF Applied, ButtonTypes
  <2> QED BY <1>1, <2>1, TimerOps
<1>4. CASE f.kind = "Timer"
  <2>1. Applied(t, f) = UpdateTimer(t, f.time)
    BY <1>4 DEF Applied, ButtonTypes
  <2> QED BY <1>1, <1>4, <2>1, TimerOps
<1>5. CASE f.kind = "START"
  <2>1. ResetOnPowerButton(StartTimer(t)) \in Timers
    BY TimerOps
  <2>2. HandleButton(t, f) \in Timers
    BY <1>5, <2>1 DEF HandleButton, Timers
  <2> QED BY <1>5, <2>2 DEF Applied, ButtonTypes
<1>6. CASE f.kind = "STOP"
  <2> DEFINE halted  == [t EXCEPT !.running = FALSE]
             stopped == IF f.time = None THEN StopTimer(halted) ELSE UpdateTimer(halted, f.time)
  <2>1. halted \in Timers
    BY DEF Timers
  <2>2. stopped \in Timers
    BY <1>1, <2>1, TimerOps
  <2>3. ResetOnPowerButton(stopped) \in Timers
    BY <2>2, TimerOps
  <2>4. HandleButton(t, f) = [ResetOnPowerButton(stopped) EXCEPT !.running = FALSE]
    BY <1>6 DEF HandleButton
  <2> HIDE DEF stopped
  <2>5. HandleButton(t, f) \in Timers
    BY <2>3, <2>4 DEF Timers
  <2> QED BY <1>6, <2>5 DEF Applied, ButtonTypes
<1>7. CASE f.kind = "RESET"
  <2>1. HandleButton(t, f) \in Timers
    BY <1>7, TimerOps DEF HandleButton
  <2> QED BY <1>7, <2>1 DEF Applied, ButtonTypes
<1> QED BY <1>1, <1>2, <1>3, <1>4, <1>5, <1>6, <1>7 DEF ButtonTypes, ReportTypes

-----------------------------------------------------------------------------
(* The queue of commands and the notifications in flight.                    *)

\* Commands are given together, behind those on their way.
LEMMA GiveFacts ==
    ASSUME Types, NEW cs \in Seq(ButtonTypes), Give(cs)
    PROVE  /\ commands' \in Seq(CommandsT)
           /\ \A i \in DOMAIN commands : i \in DOMAIN commands' /\ commands'[i] = commands[i]
           /\ \A i \in DOMAIN commands' : i \notin DOMAIN commands => commands'[i].given = now
           /\ frames' \in Seq(Frames) /\ DOMAIN frames' = DOMAIN frames
           /\ \A i \in DOMAIN frames :
                /\ frames'[i].sent = frames[i].sent /\ frames'[i].kind = frames[i].kind
                /\ frames'[i].time = frames[i].time /\ frames'[i].stale
<1> DEFINE new == [i \in DOMAIN cs |-> [command |-> cs[i], given |-> now]]
<1>1. commands \in Seq(CommandsT) /\ frames \in Seq(Frames) /\ now \in Nat
  BY DEF Types, TypeOK, CommandsT
<1>2. new \in Seq(CommandsT) /\ \A i \in 1..Len(new) : new[i].given = now
  <2>1. DOMAIN cs = 1..Len(cs) /\ Len(cs) \in Nat /\ \A i \in 1..Len(cs) : cs[i] \in ButtonTypes
    OBVIOUS
  <2>2. new \in [1..Len(cs) -> CommandsT]
    BY <1>1, <2>1 DEF CommandsT
  <2> QED BY <2>1, <2>2
<1>3. commands' = commands \o new
  BY DEF Give
<1> HIDE DEF new
<1>4. /\ commands' \in Seq(CommandsT) /\ Len(commands') = Len(commands) + Len(new)
      /\ \A i \in 1..(Len(commands) + Len(new)) :
           commands'[i] = IF i <= Len(commands) THEN commands[i] ELSE new[i - Len(commands)]
  BY <1>1, <1>2, <1>3, ConcatProperties
<1>5. Len(commands) \in Nat /\ Len(new) \in Nat
  BY <1>1, <1>2
<1>6. ASSUME NEW i \in DOMAIN commands', i \notin DOMAIN commands
      PROVE  commands'[i].given = now
  <2>1. i \in 1..(Len(commands) + Len(new)) /\ ~(i <= Len(commands))
    BY <1>1, <1>4, <1>5, <1>6
  <2>2. i - Len(commands) \in 1..Len(new)
    BY <2>1, <1>5
  <2> QED BY <2>1, <2>2, <1>2, <1>4
<1>7. \A i \in DOMAIN commands : i \in DOMAIN commands' /\ commands'[i] = commands[i]
  BY <1>1, <1>4, <1>5
<1>8. /\ frames' \in Seq(Frames) /\ DOMAIN frames' = DOMAIN frames
      /\ \A i \in DOMAIN frames : frames'[i] = [frames[i] EXCEPT !.stale = TRUE]
  <2>1. frames' = [i \in DOMAIN frames |-> [frames[i] EXCEPT !.stale = TRUE]]
    BY DEF Give
  <2>2. DOMAIN frames = 1..Len(frames) /\ Len(frames) \in Nat
        /\ \A i \in 1..Len(frames) : frames[i] \in Frames
    BY <1>1
  <2>3. \A i \in 1..Len(frames) : [frames[i] EXCEPT !.stale = TRUE] \in Frames
    BY <2>2 DEF Frames
  <2>4. frames' \in [1..Len(frames) -> Frames]
    BY <2>1, <2>2, <2>3
  <2> QED BY <2>1, <2>2, <2>4
<1>9. ASSUME NEW i \in DOMAIN frames
      PROVE  /\ frames'[i].sent = frames[i].sent /\ frames'[i].kind = frames[i].kind
             /\ frames'[i].time = frames[i].time /\ frames'[i].stale
  <2>1. frames[i] \in Frames
    BY <1>1
  <2> QED BY <1>8, <2>1 DEF Frames
<1> QED BY <1>4, <1>6, <1>7, <1>8, <1>9

\* A notification goes behind those in flight.
LEMMA SendFacts ==
    ASSUME Types, NEW kind \in ButtonTypes \cup ReportTypes, NEW s \in [running : BOOLEAN, time : Nat],
           NEW times \in SUBSET Times, kind = "Timer" => None \notin times, Send(kind, s, times)
    PROVE  /\ frames' \in Seq(Frames) /\ Len(frames') = Len(frames) + 1
           /\ \A i \in DOMAIN frames : frames'[i] = frames[i]
           /\ LET f == frames'[Len(frames) + 1]
              IN  /\ f.kind = kind /\ f.sent = now /\ (f.stale <=> commands # <<>>)
                  /\ kind = "Timer" => f.time \in Int
<1>1. frames \in Seq(Frames) /\ now \in Nat
  BY DEF Types, TypeOK
<1>2. PICK time \in times :
          frames' = Append(frames, [kind |-> kind, running |-> s.running, time |-> time,
                                    sent |-> now, stale |-> commands # <<>>])
  BY DEF Send
<1> DEFINE f == [kind |-> kind, running |-> s.running, time |-> time, sent |-> now,
                 stale |-> commands # <<>>]
<1>3. f \in Frames /\ f.kind = kind /\ f.sent = now /\ (f.stale <=> commands # <<>>) /\ f.time = time
  BY <1>1 DEF Frames
<1>4. kind = "Timer" => time \in Int
  BY DEF Times
<1>5. frames' = Append(frames, f)
  BY <1>2
<1> HIDE DEF f
<1>6. /\ frames' \in Seq(Frames) /\ Len(frames') = Len(frames) + 1
      /\ \A i \in 1..Len(frames) : frames'[i] = frames[i]
      /\ frames'[Len(frames) + 1] = f
  BY <1>1, <1>3, <1>5, AppendProperties
<1>7. DOMAIN frames = 1..Len(frames)
  BY <1>1
<1> QED BY <1>3, <1>4, <1>6, <1>7

-----------------------------------------------------------------------------
(* Types.                                                                    *)

\* What the calls of the application leave alone.
Elsewhere == UNCHANGED <<now, connected, linked, scale>>

\* A call gives commands: timer, lastCommand, pc and events take their next values.
LEMMA GiveTypes ==
    ASSUME Types, NEW cs \in Seq(ButtonTypes), Give(cs), Elsewhere,
           timer' \in Timers, lastCommand' \in {lastCommand, now}, events' \in 0..MaxEvents,
           pc' \in [Callers -> {"idle", "start", "stop", "reset", "restart"}]
    PROVE  Types'
<1>1. commands' \in Seq(CommandsT) /\ frames' \in Seq(Frames) /\ DOMAIN frames' = DOMAIN frames
      /\ \A i \in DOMAIN frames : frames'[i].kind = frames[i].kind /\ frames'[i].time = frames[i].time
  BY GiveFacts
<1>2. covered' = {}
  BY DEF Give
<1>3. TypeOK'
  <2>1. now' \in 0..MaxTime /\ lastCommand' \in Nat \cup {None}
    BY DEF Types, TypeOK, Elsewhere
  <2>2. connected' \in BOOLEAN /\ linked' \in BOOLEAN /\ scale' \in [running : BOOLEAN, time : Nat]
    BY DEF Types, TypeOK, Elsewhere
  <2>3. covered' \subseteq {"running", "time"}
    BY <1>2
  <2> QED BY <1>1, <2>1, <2>2, <2>3 DEF TypeOK, Timers, CommandsT
<1>4. TimedOK'
  BY <1>1 DEF Types, TimedOK
<1> QED BY <1>3, <1>4 DEF Types

LEMMA ButtonSeqs ==
    <<"START">> \in Seq(ButtonTypes) /\ <<"STOP">> \in Seq(ButtonTypes)
    /\ <<"RESET">> \in Seq(ButtonTypes) /\ <<"RESET", "START">> \in Seq(ButtonTypes)
  BY DEF ButtonTypes

\* A call that only moves a caller, or counts.
LEMMA MoveTypes ==
    ASSUME Types, Elsewhere, UNCHANGED <<local, commands, frames, covered>>,
           events' \in 0..MaxEvents,
           pc' \in [Callers -> {"idle", "start", "stop", "reset", "restart"}]
    PROVE  Types'
  BY DEF Types, TypeOK, TimedOK, Elsewhere, local

LEMMA HappensFacts == TypeOK /\ Happens => events' \in 0..MaxEvents
  BY DEF TypeOK, Happens

LEMMA TimerType == Types => timer \in Timers /\ now \in Nat
  BY DEF Types, TypeOK, Timers

LEMMA StartStopTypes ==
    ASSUME Types, NEW p \in Callers, StartStopTimer(p) \/ StartStopResumes(p)
    PROVE  Types'
<1>1. events' \in 0..MaxEvents /\ Elsewhere
  BY HappensFacts DEF StartStopTimer, StartStopResumes, Elsewhere, Types, TypeOK
<1>2. pc' \in [Callers -> {"idle", "start", "stop", "reset", "restart"}]
  BY DEF StartStopTimer, StartStopResumes, Types, TypeOK
<1>3. CASE \/ Give(<<"START">>) /\ Started
           \/ Give(<<"STOP">>) /\ Stopped
  <2>1. timer' \in Timers /\ lastCommand' = now
    BY <1>3, TimerType, TimerOps DEF Started, Stopped
  <2> QED BY <1>1, <1>2, <1>3, <2>1, ButtonSeqs, GiveTypes
<1>4. CASE UNCHANGED <<local, commands, frames, covered>>
  BY <1>1, <1>2, <1>4, MoveTypes
<1> QED BY <1>3, <1>4 DEF StartStopTimer, StartStopResumes

LEMMA ResetGivenTypes ==
    ASSUME Types, NEW p \in Callers, ResetGiven(p), Elsewhere, events' \in 0..MaxEvents
    PROVE  Types'
<1>1. /\ [timer EXCEPT !.start = None, !.stop = None] \in Timers
      /\ [[timer EXCEPT !.start = None, !.stop = None] EXCEPT !.start = now] \in Timers
  <2>1. timer \in Timers /\ now \in Times /\ None \in Times
    BY TimerType DEF Times
  <2> QED BY <2>1 DEF Timers
<1>2. timer' \in Timers /\ lastCommand' \in {lastCommand, now}
  BY <1>1 DEF ResetGiven
<1>3. pc' \in [Callers -> {"idle", "start", "stop", "reset", "restart"}]
  BY DEF ResetGiven, Types, TypeOK
<1> QED BY <1>2, <1>3, ButtonSeqs, GiveTypes DEF ResetGiven

LEMMA ResetTypes ==
    ASSUME Types, NEW p \in Callers, ResetTimerCall(p) \/ ResetResumes(p) \/ CancelCall(p)
    PROVE  Types'
<1>1. events' \in 0..MaxEvents /\ Elsewhere
  BY HappensFacts DEF ResetTimerCall, ResetResumes, CancelCall, Elsewhere, Types, TypeOK
<1>2. CASE ResetGiven(p)
  BY <1>1, <1>2, ResetGivenTypes
<1>3. CASE /\ pc[p] = "restart" /\ Give(<<"START">>)
           /\ timer' = [timer EXCEPT !.start = now] /\ lastCommand' = now
           /\ pc' = [pc EXCEPT ![p] = "idle"]
  <2>1. timer \in Timers /\ now \in Times
    BY TimerType DEF Times
  <2>2. timer' \in Timers
    BY <1>3, <2>1 DEF Timers
  <2>3. pc' \in [Callers -> {"idle", "start", "stop", "reset", "restart"}]
    BY <1>3 DEF Types, TypeOK
  <2> QED BY <1>1, <1>3, <2>2, <2>3, ButtonSeqs, GiveTypes
<1>4. CASE /\ UNCHANGED <<local, commands, frames, covered>>
           /\ pc' \in {[pc EXCEPT ![p] = "reset"], [pc EXCEPT ![p] = "idle"]}
  <2>1. pc' \in [Callers -> {"idle", "start", "stop", "reset", "restart"}]
    BY <1>4 DEF Types, TypeOK
  <2> QED BY <1>1, <1>4, <2>1, MoveTypes
<1> QED BY <1>2, <1>3, <1>4 DEF ResetTimerCall, ResetResumes, CancelCall

LEMMA ScaleAfterType ==
    ASSUME Types, NEW c PROVE ScaleAfter(c) \in [running : BOOLEAN, time : Nat]
<1>1. scale.time \in Nat
  BY DEF Types, TypeOK
<1>2. (c = "START") \in BOOLEAN
  OBVIOUS
<1> QED BY <1>1, <1>2 DEF ScaleAfter

LEMMA ScaleTypes ==
    ASSUME Types, ScaleRuns
    PROVE  Types'
<1>1. scale' \in [running : BOOLEAN, time : Nat]
  BY ScaleAfterType DEF ScaleRuns
<1>2. commands' \in Seq(CommandsT)
  BY HeadTailProperties DEF ScaleRuns, Types, TypeOK, CommandsT
<1>3. covered' \subseteq {"running", "time"}
  BY DEF ScaleRuns
<1> QED BY <1>1, <1>2, <1>3 DEF ScaleRuns, Types, TypeOK, TimedOK, CommandsT, local

LEMMA SendTypes ==
    ASSUME Types, NEW kind \in ButtonTypes \cup ReportTypes, NEW s \in [running : BOOLEAN, time : Nat],
           NEW times \in SUBSET Times, kind = "Timer" => None \notin times, Send(kind, s, times)
    PROVE  frames' \in Seq(Frames) /\ TimedOK'
<1>1. /\ frames' \in Seq(Frames) /\ Len(frames') = Len(frames) + 1
      /\ \A i \in DOMAIN frames : frames'[i] = frames[i]
      /\ frames'[Len(frames) + 1].kind = "Timer" => frames'[Len(frames) + 1].time \in Int
  BY SendFacts
<1>2. \A i \in DOMAIN frames' : i \in DOMAIN frames \/ i = Len(frames) + 1
  BY <1>1 DEF Types, TypeOK
<1>3. TimedOK'
  BY <1>1, <1>2 DEF Types, TimedOK
<1> QED BY <1>1, <1>3

LEMMA PressTypes ==
    ASSUME Types, NEW b \in ButtonTypes, Press(b)
    PROVE  Types'
<1>1. scale' \in [running : BOOLEAN, time : Nat]
  BY ScaleAfterType DEF Press
<1>2. frames' \in Seq(Frames) /\ TimedOK'
  <2> DEFINE times == IF b = "STOP" THEN {None, scale'.time} ELSE {None}
  <2>1. scale'.time \in Nat
    BY <1>1
  <2>2. times \in SUBSET Times
    BY <2>1 DEF Times
  <2>3. b # "Timer" /\ Send(b, scale', times)
    BY DEF ButtonTypes, Press
  <2> HIDE DEF times
  <2> DEFINE s == scale'
  <2>4. s \in [running : BOOLEAN, time : Nat] /\ Send(b, s, times)
    BY <1>1, <2>3
  <2> HIDE DEF s
  <2> QED BY <2>2, <2>3, <2>4, SendTypes
<1>3. covered' \subseteq {"running", "time"} /\ events' \in 0..MaxEvents
  BY HappensFacts DEF Press, Types
<1> QED BY <1>1, <1>2, <1>3 DEF Press, Types, TypeOK, local

LEMMA ReportTypesKept ==
    ASSUME Types, NEW r \in ReportTypes, Report(r)
    PROVE  Types'
<1>1. frames' \in Seq(Frames) /\ TimedOK'
  <2> DEFINE times == IF r = "Settings" THEN {None} ELSE {scale.time}
  <2>1. scale \in [running : BOOLEAN, time : Nat] /\ scale.time \in Nat
    BY DEF Types, TypeOK
  <2>2. times \in SUBSET Times /\ (r = "Timer" => None \notin times)
    BY <2>1 DEF Times
  <2>3. Send(r, scale, times)
    BY DEF Report
  <2> HIDE DEF times
  <2> QED BY <2>1, <2>2, <2>3, SendTypes
<1> QED BY <1>1 DEF Report, Types, TypeOK, local

LEMMA ReceiveTypes ==
    ASSUME Types, Receive
    PROVE  Types'
<1> DEFINE f == Head(frames)
<1>1. /\ frames # <<>> /\ frames \in Seq(Frames) /\ Len(frames) \in Nat \ {0}
      /\ f = frames[1] /\ 1 \in DOMAIN frames
  BY DEF Receive, Types, TypeOK
<1>2. f \in Frames /\ (f.kind = "Timer" => f.time \in Int)
  BY <1>1 DEF Types, TimedOK
<1>3. timer' \in Timers
  BY <1>2, TimerType, AppliedType DEF Receive
<1>4. /\ frames' \in Seq(Frames) /\ Len(frames') = Len(frames) - 1
      /\ \A i \in 1..Len(frames') : frames'[i] = frames[i + 1]
  BY <1>1, HeadTailProperties DEF Receive
<1>5. TimedOK'
  <2>1. \A i \in DOMAIN frames' : i + 1 \in DOMAIN frames /\ frames'[i] = frames[i + 1]
    BY <1>1, <1>4
  <2> QED BY <2>1 DEF Types, TimedOK
<1>6. covered' \subseteq {"running", "time"}
  BY DEF Receive, Covers, Types, TypeOK
<1> QED BY <1>3, <1>4, <1>5, <1>6 DEF Receive, Types, TypeOK, Timers

LEMMA LinkTypes ==
    ASSUME Types, Disconnect \/ DeviceDisconnected \/ Reconnects
    PROVE  Types'
<1>1. events' \in 0..MaxEvents
  BY HappensFacts DEF Disconnect, DeviceDisconnected, Reconnects, Types, TypeOK
<1>2. timer' \in Timers
  <2>1. timer \in Timers
    BY TimerType
  <2>2. [timer EXCEPT !.running = FALSE] \in Timers
    BY <2>1 DEF Timers
  <2> QED BY <2>1, <2>2 DEF Disconnect, DeviceDisconnected, Reconnects, local
<1>3. commands' \in Seq(CommandsT) /\ frames' \in Seq(Frames) /\ TimedOK'
  <2>1. commands' = <<>> \/ commands' = commands
    BY DEF Disconnect, DeviceDisconnected, Reconnects
  <2>2. frames' = <<>> \/ frames' = frames
    BY DEF Disconnect, DeviceDisconnected, Reconnects
  <2>3. commands \in Seq(CommandsT) /\ frames \in Seq(Frames)
    BY DEF Types, TypeOK, CommandsT
  <2>4. commands' \in Seq(CommandsT) /\ frames' \in Seq(Frames)
    <3>1. commands' \in Seq(CommandsT)
      BY <2>1, <2>3, EmptySeq
    <3>2. frames' \in Seq(Frames)
      BY <2>2, <2>3, EmptySeq
    <3> QED BY <3>1, <3>2
  <2>5. \A i \in DOMAIN frames' : i \in DOMAIN frames /\ frames'[i] = frames[i]
    BY <2>2
  <2>6. TimedOK'
    BY <2>5 DEF TimedOK, Types
  <2> QED BY <2>4, <2>6
<1>4. connected' \in BOOLEAN /\ linked' \in BOOLEAN /\ covered' \subseteq {"running", "time"}
  BY DEF Disconnect, DeviceDisconnected, Reconnects, Types, TypeOK
<1>5. UNCHANGED <<now, lastCommand, pc, scale>>
  BY DEF Disconnect, DeviceDisconnected, Reconnects, local
<1> QED BY <1>1, <1>2, <1>3, <1>4, <1>5 DEF Types, TypeOK, Timers, CommandsT

LEMMA TickTypes ==
    ASSUME Types, Tick
    PROVE  Types'
<1>1. now' \in 0..MaxTime
  <2>1. now \in 0..MaxTime /\ MaxTime \in Nat
    BY BoundsAssumption DEF Types, TypeOK
  <2>2. now < MaxTime /\ now' = now + 1
    BY DEF Tick
  <2> QED BY <2>1, <2>2
<1>2. scale' \in [running : BOOLEAN, time : Nat]
  <2>1. scale \in [running : BOOLEAN, time : Nat]
    BY DEF Types, TypeOK
  <2>2. scale' = [scale EXCEPT !.time = IF scale.running THEN scale.time + 1 ELSE scale.time]
    BY DEF Tick
  <2>3. scale.time \in Nat /\ scale.time + 1 \in Nat
    BY <2>1
  <2> QED BY <2>1, <2>2, <2>3
<1> QED BY <1>1, <1>2 DEF Tick, Types, TypeOK, TimedOK, local

LEMMA InitTypes == Init => Types
<1> SUFFICES ASSUME Init PROVE Types
  OBVIOUS
<1>1. timer \in Timers /\ lastCommand \in Nat \cup {None}
  BY DEF Init, Timers, Times
<1>2. commands \in Seq(CommandsT) /\ frames \in Seq(Frames) /\ DOMAIN frames = {}
  BY DEF Init
<1>3. now \in 0..MaxTime /\ events \in 0..MaxEvents /\ scale \in [running : BOOLEAN, time : Nat]
  BY DEF Init
<1>4. connected \in BOOLEAN /\ linked \in BOOLEAN /\ covered \subseteq {"running", "time"}
  BY DEF Init
<1>5. pc \in [Callers -> {"idle", "start", "stop", "reset", "restart"}]
  BY DEF Init
<1> QED BY <1>1, <1>2, <1>3, <1>4, <1>5 DEF Types, TypeOK, TimedOK, Timers, CommandsT

LEMMA NextTypes == Types /\ [Next]_vars => Types'
<1> SUFFICES ASSUME Types, [Next]_vars PROVE Types'
  OBVIOUS
<1>1. ASSUME NEW p \in Callers,
             StartStopTimer(p) \/ StartStopResumes(p) \/ ResetTimerCall(p) \/ ResetResumes(p)
             \/ CancelCall(p)
      PROVE  Types'
  BY <1>1, StartStopTypes, ResetTypes
<1>2. CASE ScaleRuns \/ Receive \/ Tick
  BY <1>2, ScaleTypes, ReceiveTypes, TickTypes
<1>3. ASSUME NEW b \in ButtonTypes, Press(b) PROVE Types'
  BY <1>3, PressTypes
<1>4. ASSUME NEW r \in ReportTypes, Report(r) PROVE Types'
  BY <1>4, ReportTypesKept
<1>5. CASE Disconnect \/ DeviceDisconnected \/ Reconnects
  BY <1>5, LinkTypes
<1>6. CASE UNCHANGED vars
  BY <1>6 DEF Types, TypeOK, TimedOK, vars, local
<1> QED BY <1>1, <1>2, <1>3, <1>4, <1>5, <1>6 DEF Next

\* Whatever crosses on the way, the timer's fields stay a truth value and times
\* or None, and a time is only subtracted from a time.
THEOREM TimerTypeCorrect == Spec => []TypeOK
<1>1. Types => TypeOK
  BY DEF Types
<1> QED BY <1>1, InitTypes, NextTypes, PTL DEF Spec

-----------------------------------------------------------------------------
(* No report from before a command undoes it.                                *)

\* No caller is suspended, and the last command is not in the future.
Idle ==
    /\ \A p \in Callers : pc[p] = "idle"
    /\ lastCommand # None => lastCommand <= now

\* Commands are in the order they were given, the last of them at lastCommand
\* or before, the first no longer ago than a command takes.
CommandsTimely ==
    /\ \A i \in DOMAIN commands : lastCommand # None /\ commands[i].given <= lastCommand
    /\ \A i, j \in DOMAIN commands : i <= j => commands[i].given <= commands[j].given
    /\ commands # <<>> => connected /\ now - commands[1].given <= CommandDelay

\* The same of notifications; a stale one was sent before the last command ran.
FramesTimely ==
    /\ \A i \in DOMAIN frames : frames[i].sent <= now
    /\ \A i, j \in DOMAIN frames : i <= j => frames[i].sent <= frames[j].sent
    /\ frames # <<>> => linked /\ now - frames[1].sent <= FrameDelay
    /\ \A i \in DOMAIN frames :
         frames[i].stale => lastCommand # None /\ frames[i].sent <= lastCommand + CommandDelay

Timely == Idle /\ CommandsTimely /\ FramesTimely

\* Numbers and indices of a state with Types.
LEMMA TimelyTypes ==
    ASSUME Types
    PROVE  /\ now \in Nat /\ lastCommand \in Nat \cup {None}
           /\ commands \in Seq(CommandsT) /\ frames \in Seq(Frames)
           /\ DOMAIN commands = 1..Len(commands) /\ Len(commands) \in Nat
           /\ DOMAIN frames = 1..Len(frames) /\ Len(frames) \in Nat
           /\ commands # <<>> <=> 1 \in DOMAIN commands
           /\ frames # <<>> <=> 1 \in DOMAIN frames
           /\ \A i \in DOMAIN commands : commands[i].given \in Nat
           /\ \A i \in DOMAIN frames : frames[i].sent \in Nat /\ frames[i].stale \in BOOLEAN
<1>1. /\ now \in Nat /\ lastCommand \in Nat \cup {None}
      /\ commands \in Seq(CommandsT) /\ frames \in Seq(Frames)
  BY DEF Types, TypeOK, CommandsT
<1>2. /\ DOMAIN commands = 1..Len(commands) /\ Len(commands) \in Nat
      /\ DOMAIN frames = 1..Len(frames) /\ Len(frames) \in Nat
  BY <1>1
<1>3. (commands # <<>> <=> 1 \in DOMAIN commands) /\ (frames # <<>> <=> 1 \in DOMAIN frames)
  BY <1>1, <1>2, EmptySeq
<1>4. ASSUME NEW i \in DOMAIN commands PROVE commands[i].given \in Nat
  <2>1. commands[i] \in CommandsT
    BY <1>1
  <2> QED BY <2>1 DEF CommandsT
<1>5. ASSUME NEW i \in DOMAIN frames PROVE frames[i].sent \in Nat /\ frames[i].stale \in BOOLEAN
  <2>1. frames[i] \in Frames
    BY <1>1
  <2> QED BY <2>1 DEF Frames
<1> QED BY <1>1, <1>2, <1>3, <1>4, <1>5

LEMMA InitTimely == Init => Timely
<1> SUFFICES ASSUME Init PROVE Timely
  OBVIOUS
<1>1. commands = <<>> /\ frames = <<>> /\ DOMAIN commands = {} /\ DOMAIN frames = {}
  BY DEF Init
<1>2. Idle
  BY DEF Init, Idle
<1> QED BY <1>1, <1>2 DEF Timely, CommandsTimely, FramesTimely

\* A command is given and at once recorded: nothing in flight is later than it.
LEMMA GiveTimely ==
    ASSUME Types, Types', Timely, NEW cs \in Seq(ButtonTypes), Give(cs), connected, Elsewhere,
           lastCommand' = now, \A p \in Callers : pc'[p] = "idle"
    PROVE  Timely'
<1>1. now' = now /\ connected' = connected /\ linked' = linked /\ now \in Nat /\ now # None
  BY TimelyTypes DEF Elsewhere
<1>2. Idle'
  BY <1>1 DEF Idle
<1>3. \A i \in DOMAIN commands : commands[i].given <= now /\ commands[i].given \in Nat
  <2>1. \A i \in DOMAIN commands : commands[i].given <= lastCommand /\ lastCommand <= now
                                   /\ lastCommand \in Nat
    BY TimelyTypes DEF Timely, Idle, CommandsTimely
  <2> QED BY <1>1, <2>1, TimelyTypes
<1>4. /\ \A i \in DOMAIN commands : i \in DOMAIN commands' /\ commands'[i] = commands[i]
      /\ \A i \in DOMAIN commands' : i \notin DOMAIN commands => commands'[i].given = now
  BY GiveFacts
<1>5. CommandsTimely'
  <2>1. \A i \in DOMAIN commands' : commands'[i].given <= now
    BY <1>1, <1>3, <1>4
  <2>2. ASSUME NEW i \in DOMAIN commands', NEW j \in DOMAIN commands', i <= j
        PROVE  commands'[i].given <= commands'[j].given
    <3>1. CASE j \notin DOMAIN commands
      BY <2>1, <1>4, <3>1
    <3>2. CASE j \in DOMAIN commands
      <4>1. DOMAIN commands' = 1..Len(commands') /\ Len(commands') \in Nat
        BY <1>1 DEF Types, TypeOK
      <4>2. i \in DOMAIN commands
        BY <2>2, <3>2, <4>1, TimelyTypes
      <4> QED BY <2>2, <3>2, <4>2, <1>4 DEF Timely, CommandsTimely
    <3> QED BY <3>1, <3>2
  <2>3. ASSUME commands' # <<>> PROVE connected' /\ now - commands'[1].given <= CommandDelay
    <3>1. 1 \in DOMAIN commands'
      <4>1. commands' \in Seq(CommandsT)
        BY GiveFacts
      <4> QED BY <2>3, <4>1, EmptySeq
    <3>2. CASE 1 \in DOMAIN commands
      BY <1>1, <1>4, <3>2, TimelyTypes DEF Timely, CommandsTimely
    <3>3. CASE 1 \notin DOMAIN commands
      <4>1. commands'[1].given = now
        BY <1>4, <3>1, <3>3
      <4> QED BY <1>1, <4>1
    <3> QED BY <3>2, <3>3
  <2> QED BY <1>1, <2>1, <2>2, <2>3 DEF CommandsTimely
<1>6. FramesTimely'
  <2>1. /\ DOMAIN frames' = DOMAIN frames /\ frames' \in Seq(Frames)
        /\ \A i \in DOMAIN frames : frames'[i].sent = frames[i].sent
    BY GiveFacts
  <2>2. \A i \in DOMAIN frames : frames[i].sent <= now /\ frames[i].sent \in Nat
    BY TimelyTypes DEF Timely, FramesTimely
  <2>3. frames' # <<>> => frames # <<>>
    BY <2>1, TimelyTypes, EmptySeq
  <2>4. \A i, j \in DOMAIN frames : i <= j => frames[i].sent <= frames[j].sent
    BY DEF Timely, FramesTimely
  <2>5. frames # <<>> => linked /\ 1 \in DOMAIN frames /\ now - frames[1].sent <= FrameDelay
    BY TimelyTypes DEF Timely, FramesTimely
  <2>6. \A i \in DOMAIN frames : frames[i].sent <= now + CommandDelay
    BY <1>1, <2>2
  <2> QED BY <1>1, <2>1, <2>2, <2>3, <2>4, <2>5, <2>6 DEF FramesTimely
<1> QED BY <1>2, <1>5, <1>6 DEF Timely

\* A call, where the queue has room.
LEMMA CallTimely ==
    ASSUME Types, Types', Timely, ~MayStall, NEW p \in Callers,
           StartStopTimer(p) \/ StartStopResumes(p) \/ ResetTimerCall(p) \/ ResetResumes(p)
           \/ CancelCall(p)
    PROVE  Timely'
<1>1. pc[p] = "idle"
  BY DEF Timely, Idle
<1>2. StartStopTimer(p) \/ ResetTimerCall(p)
  BY <1>1 DEF StartStopResumes, ResetResumes, CancelCall
<1>3. Elsewhere /\ connected
  BY <1>2 DEF StartStopTimer, ResetTimerCall, Elsewhere
<1>4. \A q \in Callers : pc'[q] = "idle"
  BY <1>2 DEF StartStopTimer, ResetTimerCall, ResetGiven, Timely, Idle, Types, TypeOK
<1>5. /\ lastCommand' = now
      /\ Give(<<"START">>) \/ Give(<<"STOP">>) \/ Give(<<"RESET">>) \/ Give(<<"RESET", "START">>)
  BY <1>2 DEF StartStopTimer, ResetTimerCall, ResetGiven, Started, Stopped
<1> QED BY <1>3, <1>4, <1>5, ButtonSeqs, GiveTimely

\* A notification leaves the scale now: while a command is on its way, that is
\* before the last command ran.
LEMMA SendTimely ==
    ASSUME Types, Timely, NEW kind \in ButtonTypes \cup ReportTypes,
           NEW s \in [running : BOOLEAN, time : Nat],
           NEW times \in SUBSET Times, kind = "Timer" => None \notin times, Send(kind, s, times),
           UNCHANGED <<now, lastCommand, connected, linked, pc, commands>>
    PROVE  Timely'
<1>1. Idle' /\ CommandsTimely'
  BY DEF Timely, Idle, CommandsTimely
<1> DEFINE n == Len(frames) + 1
<1>2. /\ frames' \in Seq(Frames) /\ Len(frames') = n
      /\ \A i \in DOMAIN frames : frames'[i] = frames[i]
      /\ frames'[n].sent = now /\ (frames'[n].stale <=> commands # <<>>)
  BY SendFacts
<1>3. /\ n \in Nat \ {0} /\ DOMAIN frames' = 1..n
      /\ \A i \in 1..n : i \in DOMAIN frames \/ i = n
      /\ \A i \in DOMAIN frames : i < n
  BY <1>2, TimelyTypes
<1>4. now \in Nat /\ \A i \in DOMAIN frames : frames[i].sent <= now /\ frames[i].sent \in Nat
  BY TimelyTypes DEF Timely, FramesTimely
<1> HIDE DEF n
<1>5. \A i \in 1..n : frames'[i].sent <= now
  BY <1>2, <1>3, <1>4
<1>6. ASSUME NEW i \in 1..n, NEW j \in 1..n, i <= j PROVE frames'[i].sent <= frames'[j].sent
  <2>1. CASE j = n
    BY <1>2, <1>5, <2>1
  <2>2. CASE j \in DOMAIN frames
    <3>1. i \in DOMAIN frames
      BY <1>3, <1>6, <2>2
    <3> QED BY <1>2, <1>6, <2>2, <3>1 DEF Timely, FramesTimely
  <2> QED BY <1>3, <2>1, <2>2
<1>7. linked' /\ now - frames'[1].sent <= FrameDelay
  <2>1. linked'
    BY DEF Send
  <2>2. CASE 1 \in DOMAIN frames
    BY <1>2, <2>2, TimelyTypes DEF Timely, FramesTimely
  <2>3. CASE 1 = n
    <3>1. frames'[1].sent = now
      BY <1>2, <2>3
    <3> QED BY <1>4, <2>1, <3>1
  <2>4. 1 \in 1..n
    BY <1>3
  <2> QED BY <1>3, <2>1, <2>2, <2>3, <2>4
<1>8. ASSUME NEW i \in 1..n, frames'[i].stale
      PROVE  lastCommand # None /\ frames'[i].sent <= lastCommand + CommandDelay
  <2>1. CASE i \in DOMAIN frames
    BY <1>2, <1>8, <2>1 DEF Timely, FramesTimely
  <2>2. CASE i = n
    <3>1. 1 \in DOMAIN commands
      BY <1>2, <1>8, <2>2, TimelyTypes
    <3>2. /\ lastCommand # None /\ commands[1].given <= lastCommand
          /\ now - commands[1].given <= CommandDelay
      BY <3>1, TimelyTypes DEF Timely, CommandsTimely
    <3>3. commands[1].given \in Nat /\ lastCommand \in Nat
      BY <3>1, <3>2, TimelyTypes
    <3> QED BY <1>2, <1>4, <2>2, <3>2, <3>3
  <2> QED BY <1>3, <2>1, <2>2
<1>9. FramesTimely'
  BY <1>3, <1>5, <1>6, <1>7, <1>8 DEF FramesTimely
<1> QED BY <1>1, <1>9 DEF Timely

LEMMA PressTimely ==
    ASSUME Types, Timely, NEW b \in ButtonTypes, Press(b)
    PROVE  Timely'
<1> DEFINE times == IF b = "STOP" THEN {None, scale'.time} ELSE {None}
           s == scale'
<1>1. s \in [running : BOOLEAN, time : Nat] /\ scale'.time \in Nat
  BY ScaleAfterType DEF Press
<1>2. times \in SUBSET Times /\ b # "Timer" /\ Send(b, s, times)
  BY <1>1 DEF Times, ButtonTypes, Press
<1>3. UNCHANGED <<now, lastCommand, connected, linked, pc, commands>>
  BY DEF Press, local
<1> HIDE DEF times, s
<1> QED BY <1>1, <1>2, <1>3, SendTimely

LEMMA ReportTimely ==
    ASSUME Types, Timely, NEW r \in ReportTypes, Report(r)
    PROVE  Timely'
<1> DEFINE times == IF r = "Settings" THEN {None} ELSE {scale.time}
<1>1. scale \in [running : BOOLEAN, time : Nat] /\ scale.time \in Nat
  BY DEF Types, TypeOK
<1>2. times \in SUBSET Times /\ (r = "Timer" => None \notin times) /\ Send(r, scale, times)
  BY <1>1 DEF Times, Report
<1>3. UNCHANGED <<now, lastCommand, connected, linked, pc, commands>>
  BY DEF Report, local
<1> HIDE DEF times
<1> QED BY <1>1, <1>2, <1>3, SendTimely

LEMMA RunsTimely ==
    ASSUME Types, Timely, ScaleRuns
    PROVE  Timely'
<1>1. /\ connected /\ 1 \in DOMAIN commands /\ commands' = Tail(commands)
      /\ UNCHANGED <<now, lastCommand, connected, linked, pc, frames>>
  BY TimelyTypes DEF ScaleRuns, local
<1>2. /\ commands' \in Seq(CommandsT) /\ Len(commands') = Len(commands) - 1
      /\ \A i \in 1..Len(commands') : commands'[i] = commands[i + 1]
  BY <1>1, TimelyTypes, HeadTailProperties
<1>3. DOMAIN commands' = 1..Len(commands') /\ (commands' # <<>> => 1 \in DOMAIN commands')
  BY <1>2, EmptySeq
<1>4. \A i \in DOMAIN commands' : i \in Nat /\ i + 1 \in DOMAIN commands
  BY <1>2, <1>3, TimelyTypes
<1>5. \A i, j \in DOMAIN commands' : i <= j => commands'[i].given <= commands'[j].given
  BY <1>2, <1>3, <1>4 DEF Timely, CommandsTimely
<1>6. ASSUME commands' # <<>> PROVE now - commands'[1].given <= CommandDelay
  <2>1. 1 \in DOMAIN commands' /\ 2 \in DOMAIN commands /\ commands'[1] = commands[2]
    BY <1>2, <1>3, <1>4, <1>6
  <2>2. commands[1].given <= commands[2].given
    BY <1>1, <2>1 DEF Timely, CommandsTimely
  <2>3. now - commands[1].given <= CommandDelay
    <3>1. connected /\ commands # <<>>
      BY <1>1, TimelyTypes
    <3> QED BY <3>1 DEF Timely, CommandsTimely
  <2>4. now \in Nat /\ commands[1].given \in Nat /\ commands[2].given \in Nat
    BY <1>1, <2>1, TimelyTypes
  <2>5. CommandDelay \in Nat
    BY DelaysAssumption
  <2> QED BY <2>1, <2>2, <2>3, <2>4, <2>5
<1>7. \A i \in DOMAIN commands' : lastCommand # None /\ commands'[i].given <= lastCommand
  BY <1>2, <1>3, <1>4 DEF Timely, CommandsTimely
<1>8. CommandsTimely'
  BY <1>1, <1>5, <1>6, <1>7 DEF CommandsTimely
<1> QED BY <1>1, <1>8 DEF Timely, Idle, FramesTimely

LEMMA ReceiveTimely ==
    ASSUME Types, Timely, Receive
    PROVE  Timely'
<1>1. /\ linked /\ 1 \in DOMAIN frames /\ frames' = Tail(frames)
      /\ UNCHANGED <<now, lastCommand, connected, linked, pc, commands>>
  BY TimelyTypes DEF Receive
<1>2. /\ frames' \in Seq(Frames) /\ Len(frames') = Len(frames) - 1
      /\ \A i \in 1..Len(frames') : frames'[i] = frames[i + 1]
  BY <1>1, TimelyTypes, HeadTailProperties
<1>3. DOMAIN frames' = 1..Len(frames') /\ (frames' # <<>> => 1 \in DOMAIN frames')
  BY <1>2, EmptySeq
<1>4. \A i \in DOMAIN frames' : i \in Nat /\ i + 1 \in DOMAIN frames
  BY <1>2, <1>3, TimelyTypes
<1>5. \A i, j \in DOMAIN frames' : i <= j => frames'[i].sent <= frames'[j].sent
  BY <1>2, <1>3, <1>4 DEF Timely, FramesTimely
<1>6. ASSUME frames' # <<>> PROVE now - frames'[1].sent <= FrameDelay
  <2>1. 1 \in DOMAIN frames' /\ 2 \in DOMAIN frames /\ frames'[1] = frames[2]
    BY <1>2, <1>3, <1>4, <1>6
  <2>2. frames[1].sent <= frames[2].sent /\ now - frames[1].sent <= FrameDelay
    BY <1>1, <2>1, TimelyTypes DEF Timely, FramesTimely
  <2>3. now \in Nat /\ frames[1].sent \in Nat /\ frames[2].sent \in Nat
    BY <1>1, <2>1, TimelyTypes
  <2> QED BY <2>1, <2>2, <2>3
<1>7. \A i \in DOMAIN frames' :
        /\ frames'[i].sent <= now
        /\ frames'[i].stale => lastCommand # None /\ frames'[i].sent <= lastCommand + CommandDelay
  BY <1>2, <1>3, <1>4 DEF Timely, FramesTimely
<1>8. FramesTimely'
  BY <1>1, <1>5, <1>6, <1>7 DEF FramesTimely
<1> QED BY <1>1, <1>8 DEF Timely, Idle, CommandsTimely

\* What is on its way is dropped with the connection; there is none to drop
\* when the program reconnects.
LEMMA LinkTimely ==
    ASSUME Types, Timely, Disconnect \/ DeviceDisconnected \/ Reconnects
    PROVE  Timely'
<1>1. UNCHANGED <<now, lastCommand, pc>>
  BY DEF Disconnect, DeviceDisconnected, Reconnects, local
<1>2. commands' = <<>> \/ (commands' = commands /\ connected')
  BY DEF Disconnect, DeviceDisconnected, Reconnects
<1>3. frames' = <<>> \/ (frames' = frames /\ (linked => linked'))
  BY DEF Disconnect, DeviceDisconnected, Reconnects
<1>4. CommandsTimely'
  <2>1. CASE commands' = <<>>
    <3>1. DOMAIN commands' = {}
      BY <2>1
    <3> QED BY <2>1, <3>1 DEF CommandsTimely
  <2>2. CASE commands' = commands /\ connected'
    BY <1>1, <2>2 DEF Timely, CommandsTimely
  <2> QED BY <1>2, <2>1, <2>2
<1>5. FramesTimely'
  <2>1. CASE frames' = <<>>
    <3>1. DOMAIN frames' = {}
      BY <2>1
    <3> QED BY <2>1, <3>1 DEF FramesTimely
  <2>2. CASE frames' = frames /\ (linked => linked')
    BY <1>1, <2>2 DEF Timely, FramesTimely
  <2> QED BY <1>3, <2>1, <2>2
<1> QED BY <1>1, <1>4, <1>5 DEF Timely, Idle

\* The clock waits for what is due.
LEMMA TickTimely ==
    ASSUME Types, Timely, Tick
    PROVE  Timely'
<1>1. now' = now + 1 /\ UNCHANGED <<lastCommand, connected, linked, pc, commands, frames>>
  BY DEF Tick, local
<1>2. Idle'
  BY <1>1, TimelyTypes DEF Timely, Idle
<1>3. commands # <<>> => connected /\ now' - commands[1].given <= CommandDelay
  <2>1. connected /\ commands # <<>> => now - commands[1].given < CommandDelay
    BY DEF Tick
  <2> QED BY <1>1, <2>1, TimelyTypes DEF Timely, CommandsTimely
<1>4. CommandsTimely'
  BY <1>1, <1>3 DEF Timely, CommandsTimely
<1>5. frames # <<>> => linked /\ now' - frames[1].sent <= FrameDelay
  <2>1. linked /\ frames # <<>> => now - frames[1].sent < FrameDelay
    BY DEF Tick
  <2> QED BY <1>1, <2>1, TimelyTypes DEF Timely, FramesTimely
<1>6. \A i \in DOMAIN frames : frames[i].sent <= now'
  BY <1>1, TimelyTypes DEF Timely, FramesTimely
<1>7. FramesTimely'
  BY <1>1, <1>5, <1>6 DEF Timely, FramesTimely
<1> QED BY <1>2, <1>4, <1>7 DEF Timely

LEMMA NextTimely ==
    ASSUME ~MayStall
    PROVE  Types /\ Timely /\ [Next]_vars => Types' /\ Timely'
<1> SUFFICES ASSUME Types, Timely, [Next]_vars PROVE Types' /\ Timely'
  OBVIOUS
<1>0. Types'
  BY NextTypes
<1>1. ASSUME NEW p \in Callers,
             StartStopTimer(p) \/ StartStopResumes(p) \/ ResetTimerCall(p) \/ ResetResumes(p)
             \/ CancelCall(p)
      PROVE  Timely'
  BY <1>0, <1>1, CallTimely
<1>2. CASE ScaleRuns \/ Receive \/ Tick
  BY <1>0, <1>2, RunsTimely, ReceiveTimely, TickTimely
<1>3. ASSUME NEW b \in ButtonTypes, Press(b) PROVE Timely'
  BY <1>3, PressTimely
<1>4. ASSUME NEW r \in ReportTypes, Report(r) PROVE Timely'
  BY <1>4, ReportTimely
<1>5. CASE Disconnect \/ DeviceDisconnected \/ Reconnects
  BY <1>0, <1>5, LinkTimely
<1>6. CASE UNCHANGED vars
  BY <1>0, <1>6 DEF Timely, Idle, CommandsTimely, FramesTimely, vars, local
<1> QED BY <1>0, <1>1, <1>2, <1>3, <1>4, <1>5, <1>6 DEF Next

\* Only the callback takes a notification while the link stays up.
LEMMA OnlyReceive ==
    ASSUME Types, [Next]_vars, frames # <<>>, frames' = Tail(frames), linked'
    PROVE  Receive
<1>1. /\ frames \in Seq(Frames) /\ Len(frames) \in Nat /\ DOMAIN frames = 1..Len(frames)
      /\ Tail(frames) \in Seq(Frames) /\ Len(Tail(frames)) = Len(frames) - 1
  BY TimelyTypes, HeadTailProperties
<1> DEFINE n == Len(frames)
<1>2. n \in Nat \ {0} /\ DOMAIN frames = 1..n /\ DOMAIN frames' = 1..(n - 1) /\ n \in 1..n
  BY <1>1, EmptySeq
<1>3. DOMAIN frames' # DOMAIN frames
  <2> HIDE DEF n
  <2> QED BY <1>2
<1>4. ASSUME NEW cs \in Seq(ButtonTypes), Give(cs) PROVE FALSE
  BY <1>3, <1>4, GiveFacts
<1>5. ASSUME NEW kind, NEW s, NEW times, Send(kind, s, times) PROVE FALSE
  <2>1. PICK f : frames' = Append(frames, f)
    BY <1>5 DEF Send
  <2>2. Len(Append(frames, f)) = Len(frames) + 1
    BY <1>1
  <2> QED BY <1>1, <2>1, <2>2
<1>6. ASSUME NEW p \in Callers,
             StartStopTimer(p) \/ StartStopResumes(p) \/ ResetTimerCall(p) \/ ResetResumes(p)
             \/ CancelCall(p)
      PROVE  FALSE
  BY <1>3, <1>4, <1>6, ButtonSeqs
     DEF StartStopTimer, StartStopResumes, ResetTimerCall, ResetResumes, CancelCall, ResetGiven
<1>7. ASSUME NEW b \in ButtonTypes, Press(b) PROVE FALSE
  BY <1>5, <1>7 DEF Press
<1>8. ASSUME NEW r \in ReportTypes, Report(r) PROVE FALSE
  BY <1>5, <1>8 DEF Report
<1>9. ~(ScaleRuns \/ Disconnect \/ DeviceDisconnected \/ Reconnects \/ Tick \/ UNCHANGED vars)
  BY <1>3 DEF ScaleRuns, Disconnect, DeviceDisconnected, Reconnects, Tick, vars
<1> QED BY <1>6, <1>7, <1>8, <1>9 DEF Next

\* The last command is too recent for a stale report to count.
LEMMA StaleNotCurrent ==
    ASSUME Types, Timely, CommandDelay + FrameDelay < SettleTime,
           frames # <<>>, Head(frames).stale
    PROVE  ~ScaleTimerStateIsCurrent
<1>1. 1 \in DOMAIN frames /\ Head(frames) = frames[1]
  BY TimelyTypes
<1>2. /\ lastCommand # None /\ frames[1].sent <= lastCommand + CommandDelay
      /\ now - frames[1].sent <= FrameDelay
  BY <1>1 DEF Timely, FramesTimely
<1>3. now \in Nat /\ lastCommand \in Nat /\ frames[1].sent \in Nat
  BY <1>1, <1>2, TimelyTypes
<1>4. now - lastCommand < SettleTime
  BY <1>2, <1>3
<1> QED BY <1>2, <1>3, <1>4 DEF ScaleTimerStateIsCurrent

\* Where calls are never suspended and a command and then a notification take
\* less than the settle time, no report sent before the scale ran the last
\* command, of any scale and over any series of commands, buttons and drops,
\* changes the timer.
THEOREM StaleReportsHarmless ==
    ASSUME ~MayStall, CommandDelay + FrameDelay < SettleTime
    PROVE  Spec => StaleReportsIgnored
<1>1. Init => Types /\ Timely
  BY InitTypes, InitTimely
<1>2. Types /\ Timely /\ [Next]_vars => Types' /\ Timely'
  BY NextTimely
<1>3. Types /\ Timely /\ [Next]_vars =>
        [\A f \in {frames[i] : i \in DOMAIN frames} :
           Receives(f) /\ f.stale /\ f.kind \in {"Settings", "Weight"} => timer' = timer]_vars
  <2> SUFFICES ASSUME Types, Timely, [Next]_vars, NEW f, Receives(f), f.stale,
                      f.kind \in {"Settings", "Weight"}
               PROVE  timer' = timer
    OBVIOUS
  <2>1. linked' /\ frames # <<>> /\ frames' = Tail(frames) /\ f = Head(frames)
    BY DEF Receives
  <2>2. timer' = Applied(timer, f)
    BY <2>1, OnlyReceive DEF Receive
  <2>3. ~ScaleTimerStateIsCurrent
    BY <2>1, StaleNotCurrent
  <2> QED BY <2>2, <2>3 DEF Applied, ButtonTypes
<1> QED BY <1>1, <1>2, <1>3, PTL DEF Spec, StaleReportsIgnored

-----------------------------------------------------------------------------
(* The local timer trails the scale's.                                     *)

\* No button among the notifications from the i-th to the j-th.
Quiet(i, j) == \A k \in DOMAIN frames : i <= k /\ k <= j => frames[k].kind \notin ButtonTypes

\* The notification f still holds for a timer that runs and shows time at t.
HoldsAt(f, running, time, t) ==
    /\ f.running = running
    /\ f.time # None /\ time # None => time = f.time + (IF f.running THEN t - f.sent ELSE 0)

\* It holds for the scale's timer now.
HoldsNow(f) == HoldsAt(f, scale.running, scale.time, now)

\* A weight and a timer report carry a time, here.
ReportsTimed == \A i \in DOMAIN frames : frames[i].kind \in {"Weight", "Timer"} => frames[i].time \in Int

\* What was sent before the last command ran is ahead of what was sent after.
StaleFirst == \A i, j \in DOMAIN frames : i <= j /\ frames[j].stale => frames[i].stale

\* Behind a notification that is not stale no command is on its way.
FreshAlone == \A i \in DOMAIN frames : ~frames[i].stale => commands = <<>>

\* Nothing has changed the scale's timer since the last button.
LastHolds ==
    \A i \in DOMAIN frames :
        ~frames[i].stale /\ Quiet(i + 1, Len(frames)) => HoldsNow(frames[i])

\* Two notifications with no button between them agree.
Agreeing ==
    \A i, j \in DOMAIN frames :
        ~frames[i].stale /\ i < j /\ Quiet(i + 1, j) =>
            HoldsAt(frames[i], frames[j].running, frames[j].time, frames[j].sent)

Flight == ReportsTimed /\ StaleFirst /\ FreshAlone /\ LastHolds /\ Agreeing

\* Program and scale agree on whether the timer runs, with what is in flight.
Agrees ==
    /\ commands = <<>>
    /\ \A i \in DOMAIN frames : ~frames[i].stale
    /\ timer.running = scale.running
    /\ \A i \in DOMAIN frames : Quiet(1, i) => frames[i].running = scale.running

\* The timer set by a report.
Anchor ==
    /\ timer.start # None /\ (~timer.running => timer.stop # None)
    /\ scale.time - Elapsed(timer) \in 0..FrameDelay
    /\ \A i \in DOMAIN frames : Quiet(1, i) => HoldsNow(frames[i])

Trails ==
    /\ covered # {} => Agrees
    /\ "time" \in covered => Anchor

Following == Flight /\ Trails

-----------------------------------------------------------------------------
(* The notifications in flight.                                              *)

LEMMA FrameTypes ==
    ASSUME Types
    PROVE  \A i \in DOMAIN frames :
             /\ i \in Nat /\ frames[i] \in Frames
             /\ frames[i].kind \in ButtonTypes \cup ReportTypes
             /\ frames[i].running \in BOOLEAN /\ frames[i].time \in Int \cup {None}
             /\ frames[i].sent \in Nat /\ frames[i].stale \in BOOLEAN
<1> SUFFICES ASSUME NEW i \in DOMAIN frames
             PROVE  /\ i \in Nat /\ frames[i] \in Frames
                    /\ frames[i].kind \in ButtonTypes \cup ReportTypes
                    /\ frames[i].running \in BOOLEAN /\ frames[i].time \in Int \cup {None}
                    /\ frames[i].sent \in Nat /\ frames[i].stale \in BOOLEAN
  OBVIOUS
<1>1. i \in Nat /\ frames[i] \in Frames
  BY TimelyTypes
<1> QED BY <1>1 DEF Frames, Times

LEMMA ScaleFacts ==
    Types => scale.running \in BOOLEAN /\ scale.time \in Nat /\ scale.time # None /\ now \in Nat
  BY DEF Types, TypeOK

\* Behind a stale notification none is fresh: nothing is said of the scale.
LEMMA AllStale ==
    ASSUME ReportsTimed', \A i \in DOMAIN frames' : frames'[i].stale
    PROVE  Flight'
<1>1. StaleFirst' /\ FreshAlone'
  BY DEF StaleFirst, FreshAlone
<1>2. LastHolds' /\ Agreeing'
  BY DEF LastHolds, Agreeing
<1> QED BY <1>1, <1>2 DEF Flight

LEMMA GiveFollowing ==
    ASSUME Types, Following, NEW cs \in Seq(ButtonTypes), Give(cs)
    PROVE  Following'
<1>1. /\ DOMAIN frames' = DOMAIN frames
      /\ \A i \in DOMAIN frames :
           /\ frames'[i].kind = frames[i].kind /\ frames'[i].time = frames[i].time
           /\ frames'[i].stale
  BY GiveFacts
<1>2. ReportsTimed'
  BY <1>1 DEF Following, Flight, ReportsTimed
<1>3. Flight'
  BY <1>1, <1>2, AllStale
<1>4. covered' = {}
  BY DEF Give
<1> QED BY <1>3, <1>4 DEF Following, Trails

LEMMA RunsFollowing ==
    ASSUME Types, Following, ScaleRuns
    PROVE  Following'
<1>1. frames' = frames /\ commands # <<>> /\ covered' = {}
  BY DEF ScaleRuns
<1>2. ReportsTimed'
  BY <1>1 DEF Following, Flight, ReportsTimed
<1>3. \A i \in DOMAIN frames' : frames'[i].stale
  BY <1>1, FrameTypes DEF Following, Flight, FreshAlone
<1> QED BY <1>1, <1>2, <1>3, AllStale DEF Following, Trails

\* Nothing that the notifications and the timer are compared with changes, but
\* that the commands may be dropped.
LEMMA StillFollowing ==
    ASSUME Following, UNCHANGED <<now, timer, frames, scale, covered>>, commands' \in {commands, <<>>}
    PROVE  Following'
<1>1. ReportsTimed' /\ StaleFirst' /\ FreshAlone'
  BY DEF Following, Flight, ReportsTimed, StaleFirst, FreshAlone
<1>2. LastHolds' /\ Agreeing'
  BY DEF Following, Flight, LastHolds, Agreeing, Quiet, HoldsNow, HoldsAt
<1>3. Trails'
  BY DEF Following, Trails, Agrees, Anchor, Quiet, HoldsNow, HoldsAt, Elapsed
<1> QED BY <1>1, <1>2, <1>3 DEF Following, Flight

\* A notification leaves the scale, whose timer is s: a report, and s is as it
\* was, or a button.
LEMMA SendFollowing ==
    ASSUME Types, Following, NEW kind \in ButtonTypes \cup ReportTypes,
           NEW s \in [running : BOOLEAN, time : Nat], s = scale',
           NEW times \in SUBSET {None, s.time}, kind \in {"Weight", "Timer"} => None \notin times,
           Send(kind, s, times), UNCHANGED <<now, timer, commands>>,
           kind \in ButtonTypes => covered' = {},
           kind \notin ButtonTypes => UNCHANGED <<scale, covered>>
    PROVE  Following'
<1> DEFINE n == Len(frames) + 1
<1>1. PICK time \in times :
        frames' = Append(frames, [kind |-> kind, running |-> s.running, time |-> time,
                                  sent |-> now, stale |-> commands # <<>>])
  BY DEF Send
<1> DEFINE f == [kind |-> kind, running |-> s.running, time |-> time, sent |-> now,
                 stale |-> commands # <<>>]
<1>2. /\ f.kind = kind /\ f.running = s.running /\ f.time = time /\ f.sent = now
      /\ f.stale = (commands # <<>>) /\ f \in Frames
  BY ScaleFacts DEF Frames, Times
<1>3. s.running \in BOOLEAN /\ s.time \in Nat /\ time \in {None, s.time}
  OBVIOUS
<1>4. /\ Len(frames') = n /\ frames'[n] = f /\ DOMAIN frames' = 1..n
      /\ \A i \in DOMAIN frames : frames'[i] = frames[i]
  BY <1>1, <1>2, TimelyTypes, AppendProperties
<1> HIDE DEF f
<1>5. /\ n \in Nat \ {0} /\ n \in DOMAIN frames' /\ Len(frames) \in Nat /\ DOMAIN frames = 1..Len(frames)
      /\ \A i \in DOMAIN frames' : i \in Nat /\ i <= n /\ (i \in DOMAIN frames \/ i = n)
      /\ \A i \in DOMAIN frames : i \in Nat /\ i < n /\ i \in DOMAIN frames'
  BY <1>4, TimelyTypes
<1>6. HoldsAt(frames'[n], scale'.running, scale'.time, now')
  <2>1. HoldsAt(f, s.running, s.time, now)
    BY <1>2, <1>3, ScaleFacts DEF HoldsAt
  <2> QED BY <1>4, <2>1
<1> HIDE DEF n
<1>7. ASSUME NEW i \in DOMAIN frames, NEW j \in Nat, Quiet(i, j)' PROVE Quiet(i, j)
  BY <1>4, <1>5, <1>7 DEF Quiet
<1>8. ReportsTimed'
  BY <1>2, <1>3, <1>4, <1>5 DEF Following, Flight, ReportsTimed
<1>9. FreshAlone'
  BY <1>2, <1>4, <1>5 DEF Following, Flight, FreshAlone
<1>10. StaleFirst'
  <2> SUFFICES ASSUME NEW i \in DOMAIN frames', NEW j \in DOMAIN frames', i <= j,
                      frames'[j].stale
               PROVE  frames'[i].stale
    BY DEF StaleFirst
  <2>1. CASE j = n /\ i # n
    <3>1. commands # <<>> /\ i \in DOMAIN frames
      BY <1>2, <1>4, <1>5, <2>1
    <3> QED BY <1>4, <3>1, FrameTypes DEF Following, Flight, FreshAlone
  <2>2. CASE j \in DOMAIN frames
    <3>1. i \in DOMAIN frames
      BY <1>5, <2>2
    <3> QED BY <1>4, <2>2, <3>1 DEF Following, Flight, StaleFirst
  <2> QED BY <1>5, <2>1, <2>2
<1>11. ASSUME NEW i \in DOMAIN frames, ~frames[i].stale, kind \notin ButtonTypes,
              \A k \in DOMAIN frames : i + 1 <= k => frames[k].kind \notin ButtonTypes
       PROVE  HoldsNow(frames[i]) /\ UNCHANGED <<scale, now>>
  BY <1>11 DEF Following, Flight, LastHolds, Quiet
<1>12. LastHolds'
  <2> SUFFICES ASSUME NEW i \in DOMAIN frames', ~frames'[i].stale, Quiet(i + 1, Len(frames))'
               PROVE  HoldsNow(frames[i])'
    BY DEF LastHolds
  <2>1. CASE i = n
    BY <1>6, <2>1 DEF HoldsNow
  <2>2. CASE i \in DOMAIN frames
    <3>1. /\ kind \notin ButtonTypes
          /\ \A k \in DOMAIN frames : i + 1 <= k => frames[k].kind \notin ButtonTypes
      BY <1>2, <1>4, <1>5, <2>2 DEF Quiet
    <3>2. HoldsNow(frames[i]) /\ UNCHANGED <<scale, now>>
      BY <1>4, <1>11, <2>2, <3>1
    <3> QED BY <1>4, <2>2, <3>2 DEF HoldsNow, HoldsAt
  <2> QED BY <1>5, <2>1, <2>2
<1>13. Agreeing'
  <2> SUFFICES ASSUME NEW i \in DOMAIN frames', NEW j \in DOMAIN frames', ~frames'[i].stale,
                      i < j, Quiet(i + 1, j)'
               PROVE  HoldsAt(frames'[i], frames'[j].running, frames'[j].time, frames'[j].sent)
    BY DEF Agreeing
  <2>1. CASE j \in DOMAIN frames
    <3>1. i \in DOMAIN frames /\ j \in Nat /\ i + 1 \in DOMAIN frames
      BY <1>5, <2>1
    <3>2. Quiet(i + 1, j)
      BY <1>7, <3>1
    <3> QED BY <1>4, <2>1, <3>1, <3>2 DEF Following, Flight, Agreeing
  <2>2. CASE j = n
    <3>1. i \in DOMAIN frames /\ i + 1 <= n
      BY <1>5, <2>2
    <3>2. /\ kind \notin ButtonTypes
          /\ \A k \in DOMAIN frames : i + 1 <= k => frames[k].kind \notin ButtonTypes
      BY <1>2, <1>4, <1>5, <2>2, <3>1 DEF Quiet
    <3>3. HoldsNow(frames[i]) /\ UNCHANGED <<scale, now>>
      BY <1>4, <1>11, <3>1, <3>2
    <3>4. HoldsAt(frames[i], s.running, s.time, now)
      BY <3>3 DEF HoldsNow
    <3>5. HoldsAt(frames[i], s.running, time, now)
      BY <1>3, <3>4 DEF HoldsAt
    <3> QED BY <1>2, <1>4, <2>2, <3>1, <3>5
  <2> QED BY <1>5, <2>1, <2>2
<1>14. ASSUME NEW i \in DOMAIN frames, Quiet(1, i)' PROVE Quiet(1, i)
  <2>1. i \in Nat
    BY <1>5
  <2> QED BY <1>4, <1>5, <1>14, <2>1 DEF Quiet
<1>15. covered' # {} => Agrees'
  <2> SUFFICES ASSUME covered' # {} PROVE Agrees'
    OBVIOUS
  <2>1. kind \notin ButtonTypes /\ UNCHANGED <<scale, covered>> /\ Agrees
    BY DEF Following, Trails
  <2>2. \A i \in DOMAIN frames' : ~frames'[i].stale
    BY <1>2, <1>4, <1>5, <2>1 DEF Agrees
  <2>3. ASSUME NEW i \in DOMAIN frames', Quiet(1, i)' PROVE frames'[i].running = scale'.running
    <3>1. CASE i = n
      BY <1>6, <3>1 DEF HoldsAt
    <3>2. CASE i \in DOMAIN frames
      BY <1>4, <1>14, <2>1, <2>3, <3>2 DEF Agrees
    <3> QED BY <1>5, <3>1, <3>2
  <2> QED BY <2>1, <2>2, <2>3 DEF Agrees
<1>16. "time" \in covered' => Anchor'
  <2> SUFFICES ASSUME "time" \in covered' PROVE Anchor'
    OBVIOUS
  <2>1. kind \notin ButtonTypes /\ UNCHANGED <<scale, covered>> /\ Anchor
    BY DEF Following, Trails
  <2>2. ASSUME NEW i \in DOMAIN frames', Quiet(1, i)' PROVE HoldsNow(frames[i])'
    <3>1. CASE i = n
      BY <1>6, <3>1 DEF HoldsNow
    <3>2. CASE i \in DOMAIN frames
      <4>1. HoldsNow(frames[i])
        BY <1>14, <2>1, <2>2, <3>2 DEF Anchor
      <4> QED BY <1>4, <2>1, <3>2, <4>1 DEF HoldsNow
    <3> QED BY <1>5, <3>1, <3>2
  <2>3. Elapsed(timer)' = Elapsed(timer)
    BY DEF Elapsed
  <2> QED BY <2>1, <2>2, <2>3 DEF Anchor
<1> QED BY <1>8, <1>9, <1>10, <1>12, <1>13, <1>15, <1>16 DEF Following, Flight, Trails

\* The clock advances the scale's timer, the local one and the age of a report
\* together.
LEMMA TickFollowing ==
    ASSUME Types, Following, Tick
    PROVE  Following'
<1>1. /\ now' = now + 1 /\ UNCHANGED <<timer, commands, frames, covered>>
      /\ scale' = [scale EXCEPT !.time = IF scale.running THEN scale.time + 1 ELSE scale.time]
  BY DEF Tick, local
<1>2. /\ scale'.running = scale.running
      /\ scale'.time = scale.time + (IF scale.running THEN 1 ELSE 0)
      /\ scale'.time # None
  <2>1. scale \in [running : BOOLEAN, time : Nat]
    BY DEF Types, TypeOK
  <2> QED BY <1>1, <2>1
<1>3. ASSUME NEW i \in DOMAIN frames, HoldsNow(frames[i]) PROVE HoldsNow(frames[i])'
  <2>1. /\ frames'[i] = frames[i] /\ frames[i].sent \in Nat /\ frames[i].running = scale.running
        /\ frames[i].time \in Int \cup {None}
    BY <1>1, <1>3, FrameTypes DEF HoldsNow, HoldsAt
  <2>2. ASSUME frames[i].time # None
        PROVE  scale'.time = frames[i].time + (IF frames[i].running THEN now' - frames[i].sent ELSE 0)
    <3>1. scale.time = frames[i].time + (IF frames[i].running THEN now - frames[i].sent ELSE 0)
      BY <1>3, <2>2, ScaleFacts DEF HoldsNow, HoldsAt
    <3>2. frames[i].time \in Int
      BY <2>1, <2>2
    <3> QED BY <1>1, <1>2, <2>1, <3>1, <3>2, ScaleFacts
  <2> QED BY <1>2, <2>1, <2>2 DEF HoldsNow, HoldsAt
<1>4. (ReportsTimed /\ StaleFirst /\ FreshAlone /\ Agreeing)'
  BY <1>1 DEF Following, Flight, ReportsTimed, StaleFirst, FreshAlone, Agreeing, Quiet
<1>5. LastHolds'
  BY <1>1, <1>3 DEF Following, Flight, LastHolds, Quiet
<1>6. covered' # {} => Agrees'
  BY <1>1, <1>2 DEF Following, Trails, Agrees, Quiet
<1>7. "time" \in covered' => Anchor'
  <2> SUFFICES ASSUME "time" \in covered' PROVE Anchor'
    OBVIOUS
  <2>1. Anchor /\ timer.running = scale.running
    BY <1>1 DEF Following, Trails, Agrees
  <2>2. \A i \in DOMAIN frames' : Quiet(1, i)' => HoldsNow(frames[i])'
    BY <1>1, <1>3, <2>1 DEF Anchor, Quiet
  <2>3. scale'.time - Elapsed(timer)' = scale.time - Elapsed(timer)
    <3>1. timer.start \in Int /\ (~timer.running => timer.stop \in Int)
      BY <2>1, TimerType DEF Anchor, Timers, Times
    <3>2. CASE timer.running
      <4>1. Elapsed(timer) = now - timer.start /\ Elapsed(timer)' = now' - timer.start
        BY <1>1, <2>1, <3>2 DEF Anchor, Elapsed
      <4>2. scale'.time = scale.time + 1
        BY <1>2, <2>1, <3>2 DEF Anchor
      <4> QED BY <1>1, <3>1, <4>1, <4>2, ScaleFacts
    <3>3. CASE ~timer.running
      <4>1. Elapsed(timer)' = Elapsed(timer)
        BY <1>1, <2>1, <3>3 DEF Anchor, Elapsed
      <4>2. scale'.time = scale.time
        BY <1>2, <2>1, <3>3, ScaleFacts DEF Anchor
      <4> QED BY <4>1, <4>2
    <3>4. timer.running \in BOOLEAN
      BY TimerType DEF Timers
    <3> QED BY <3>2, <3>3, <3>4
  <2> QED BY <1>1, <1>2, <2>1, <2>2, <2>3 DEF Anchor
<1> QED BY <1>4, <1>5, <1>6, <1>7 DEF Following, Flight, Trails

-----------------------------------------------------------------------------
(* A notification is received.                                               *)

\* What is received next is the head of those in flight.
LEMMA ReceiveFacts ==
    ASSUME Types, Receive
    PROVE  /\ 1 \in DOMAIN frames /\ Head(frames) = frames[1]
           /\ timer' = Applied(timer, frames[1])
           /\ UNCHANGED <<now, lastCommand, connected, linked, pc, commands, scale, events>>
           /\ DOMAIN frames' = 1..(Len(frames) - 1) /\ Len(frames') = Len(frames) - 1
           /\ \A i \in DOMAIN frames' :
                i \in Nat /\ i + 1 \in DOMAIN frames /\ frames'[i] = frames[i + 1]
           /\ \A i \in DOMAIN frames : i \in Nat /\ (i = 1 \/ i - 1 \in DOMAIN frames')
<1>1. 1 \in DOMAIN frames /\ frames' = Tail(frames) /\ Head(frames) = frames[1]
  BY TimelyTypes DEF Receive
<1>2. /\ Len(frames') = Len(frames) - 1 /\ DOMAIN frames' = 1..Len(frames')
      /\ \A i \in 1..Len(frames') : frames'[i] = frames[i + 1]
  BY <1>1, TimelyTypes, HeadTailProperties
<1>3. /\ \A i \in DOMAIN frames' : i \in Nat /\ i + 1 \in DOMAIN frames
      /\ \A i \in DOMAIN frames : i \in Nat /\ (i = 1 \/ i - 1 \in DOMAIN frames')
  BY <1>2, TimelyTypes
<1>4. timer' = Applied(timer, frames[1])
      /\ UNCHANGED <<now, lastCommand, connected, linked, pc, commands, scale, events>>
  BY <1>1 DEF Receive
<1> QED BY <1>1, <1>2, <1>3, <1>4

\* Those behind it still agree.
LEMMA ReceiveFlight ==
    ASSUME Types, Following, Receive
    PROVE  Flight'
<1>1. /\ UNCHANGED <<now, commands, scale>> /\ Len(frames') = Len(frames) - 1
      /\ Len(frames) \in Nat
      /\ \A i \in DOMAIN frames' :
           i \in Nat /\ i + 1 \in DOMAIN frames /\ frames'[i] = frames[i + 1]
      /\ \A i \in DOMAIN frames : i \in Nat /\ (i = 1 \/ i - 1 \in DOMAIN frames')
  BY ReceiveFacts, TimelyTypes
<1>2. ASSUME NEW i \in DOMAIN frames', NEW j \in Nat, Quiet(i + 1, j)' PROVE Quiet((i + 1) + 1, j + 1)
  <2> SUFFICES ASSUME NEW k \in DOMAIN frames, (i + 1) + 1 <= k, k <= j + 1
               PROVE  frames[k].kind \notin ButtonTypes
    BY DEF Quiet
  <2>1. k \in Nat /\ k # 1 /\ i \in Nat
    BY <1>1
  <2>2. k - 1 \in DOMAIN frames' /\ i + 1 <= k - 1 /\ k - 1 <= j /\ (k - 1) + 1 = k
    BY <1>1, <2>1
  <2> QED BY <1>1, <1>2, <2>2 DEF Quiet
<1>3. (ReportsTimed /\ StaleFirst /\ FreshAlone)'
  <2>1. ReportsTimed' /\ FreshAlone'
    BY <1>1 DEF Following, Flight, ReportsTimed, FreshAlone
  <2>2. \A i, j \in DOMAIN frames' : i <= j => i + 1 <= j + 1
    BY <1>1
  <2> QED BY <1>1, <2>1, <2>2 DEF Following, Flight, StaleFirst
<1>4. LastHolds'
  <2> SUFFICES ASSUME NEW i \in DOMAIN frames', ~frames'[i].stale, Quiet(i + 1, Len(frames))'
               PROVE  HoldsNow(frames[i])'
    BY DEF LastHolds
  <2>1. i \in Nat /\ Len(frames') \in Nat /\ Len(frames') + 1 = Len(frames)
    BY <1>1, TimelyTypes
  <2>2. Quiet((i + 1) + 1, Len(frames))
    BY <1>2, <2>1
  <2>3. HoldsNow(frames[i + 1])
    BY <1>1, <2>2 DEF Following, Flight, LastHolds
  <2> QED BY <1>1, <2>3 DEF HoldsNow
<1>5. Agreeing'
  <2> SUFFICES ASSUME NEW i \in DOMAIN frames', NEW j \in DOMAIN frames', ~frames'[i].stale,
                      i < j, Quiet(i + 1, j)'
               PROVE  HoldsAt(frames'[i], frames'[j].running, frames'[j].time, frames'[j].sent)
    BY DEF Agreeing
  <2>1. i + 1 < j + 1 /\ j \in Nat
    BY <1>1
  <2>2. Quiet((i + 1) + 1, j + 1)
    BY <1>2, <2>1
  <2> QED BY <1>1, <2>1, <2>2 DEF Following, Flight, Agreeing
<1> QED BY <1>3, <1>4, <1>5 DEF Flight

\* A report that covers something agrees with those behind it up to the next
\* button, and none of them is stale.
LEMMA CoverAgrees ==
    ASSUME Types, Timely, CommandDelay + FrameDelay < SettleTime, Following, Receive,
           frames[1].kind \in ReportTypes, Covers(frames[1]) # {}
    PROVE  /\ commands = <<>>
           /\ \A i \in DOMAIN frames : ~frames[i].stale
           /\ HoldsNow(frames[1])
           /\ \A i \in DOMAIN frames : Quiet(1, i) => frames[i].running = scale.running
<1>1. ScaleTimerStateIsCurrent /\ commands = <<>> /\ Holds(frames[1])
  BY DEF Covers
<1>2. 1 \in DOMAIN frames /\ frames # <<>> /\ Head(frames) = frames[1]
  BY ReceiveFacts, TimelyTypes
<1>3. ~frames[1].stale
  BY <1>1, <1>2, StaleNotCurrent
<1>4. \A i \in DOMAIN frames : i \in Nat /\ 1 <= i /\ (i = 1 \/ 1 < i)
  BY TimelyTypes
<1>5. \A i \in DOMAIN frames : ~frames[i].stale
  BY <1>2, <1>3, <1>4 DEF Following, Flight, StaleFirst
<1>6. HoldsNow(frames[1])
  BY <1>1 DEF Holds, HoldsNow, HoldsAt
<1>7. ASSUME NEW i \in DOMAIN frames, Quiet(1, i) PROVE frames[i].running = scale.running
  <2>1. CASE i = 1
    BY <1>1, <2>1 DEF Holds
  <2>2. CASE 1 < i
    <3>1. Quiet(1 + 1, i)
      BY <1>4, <1>7 DEF Quiet
    <3> QED BY <1>1, <1>2, <1>3, <2>2, <3>1 DEF Following, Flight, Agreeing, HoldsAt, Holds
  <2> QED BY <1>4, <2>1, <2>2
<1> QED BY <1>1, <1>5, <1>6, <1>7

\* One with a time holds, and so do those behind it up to the next button.
LEMMA TimedHolds ==
    ASSUME Types, Following, Receive, frames[1].kind \in {"Weight", "Timer"},
           HoldsNow(frames[1]), ~frames[1].stale,
           NEW i \in DOMAIN frames, Quiet(1, i)
    PROVE  HoldsNow(frames[i])
<1>1. 1 \in DOMAIN frames /\ (i = 1 \/ 1 < i) /\ \A k \in DOMAIN frames : k \in Nat
  BY ReceiveFacts, TimelyTypes
<1>2. frames[1].time \in Int /\ frames[1].sent \in Nat /\ frames[1].running \in BOOLEAN
  BY <1>1, FrameTypes DEF Following, Flight, ReportsTimed
<1>3. /\ frames[1].running = scale.running
      /\ scale.time = frames[1].time + (IF frames[1].running THEN now - frames[1].sent ELSE 0)
  BY <1>2, ScaleFacts, NoneAssumption DEF HoldsNow, HoldsAt
<1>4. CASE i = 1
  BY <1>4
<1>5. CASE 1 < i
  <2>1. Quiet(1 + 1, i)
    BY <1>1 DEF Quiet
  <2>2. HoldsAt(frames[1], frames[i].running, frames[i].time, frames[i].sent)
    BY <1>1, <1>5, <2>1 DEF Following, Flight, Agreeing
  <2>3. frames[i].running = scale.running
    BY <1>3, <2>2 DEF HoldsAt
  <2>4. ASSUME frames[i].time # None
        PROVE  scale.time = frames[i].time + (IF frames[i].running THEN now - frames[i].sent ELSE 0)
    <3>1. frames[i].time = frames[1].time
            + (IF frames[1].running THEN frames[i].sent - frames[1].sent ELSE 0)
      BY <1>2, <2>2, <2>4 DEF HoldsAt
    <3>2. frames[i].sent \in Nat
      BY FrameTypes
    <3> QED BY <1>2, <1>3, <2>3, <3>1, <3>2, ScaleFacts
  <2> QED BY <2>3, <2>4 DEF HoldsNow, HoldsAt
<1> QED BY <1>1, <1>4, <1>5

\* Set by a report that holds, the timer is behind by the report's age.
LEMMA UpdateTrails ==
    ASSUME Types, Timely, Receive, timer.running = scale.running, HoldsNow(frames[1]),
           frames[1].time # None, timer' = UpdateTimer(timer, frames[1].time)
    PROVE  /\ timer'.running = scale.running
           /\ timer'.start # None /\ (~timer'.running => timer'.stop # None)
           /\ scale.time - Elapsed(timer)' \in 0..FrameDelay
<1>1. 1 \in DOMAIN frames /\ now' = now
  BY ReceiveFacts
<1>2. /\ frames[1].time \in Int /\ frames[1].sent \in Nat /\ frames[1].sent <= now
      /\ now - frames[1].sent <= FrameDelay
  BY <1>1, FrameTypes, TimelyTypes DEF Timely, FramesTimely
<1>3. /\ timer'.running = timer.running /\ timer'.start = now - frames[1].time
      /\ timer'.stop = IF timer.running THEN None ELSE now
  BY TimerType DEF UpdateTimer, Timers
<1>4. timer'.start # None /\ now # None
  BY <1>2, <1>3, ScaleFacts
<1>5. Elapsed(timer)' = frames[1].time
  BY <1>1, <1>2, <1>3, <1>4, ScaleFacts DEF Elapsed
<1>6. scale.time = frames[1].time + (IF frames[1].running THEN now - frames[1].sent ELSE 0)
  BY ScaleFacts DEF HoldsNow, HoldsAt
<1>7. scale.time - frames[1].time \in 0..FrameDelay
  BY <1>2, <1>6, ScaleFacts
<1> QED BY <1>3, <1>4, <1>5, <1>7

LEMMA ReceiveFollowing ==
    ASSUME Types, Timely, CommandDelay + FrameDelay < SettleTime, Following, Receive
    PROVE  Following'
<1> DEFINE f == frames[1]
<1>1. /\ 1 \in DOMAIN frames /\ timer' = Applied(timer, f) /\ UNCHANGED <<now, commands, scale>>
      /\ \A i \in DOMAIN frames' :
           i \in Nat /\ i + 1 \in DOMAIN frames /\ frames'[i] = frames[i + 1]
      /\ \A i \in DOMAIN frames : i \in Nat /\ (i = 1 \/ i - 1 \in DOMAIN frames')
  BY ReceiveFacts
<1>2. f.kind \in ButtonTypes \cup ReportTypes
  BY <1>1, FrameTypes
<1>3. SUFFICES ASSUME covered' # {} PROVE Agrees' /\ ("time" \in covered' => Anchor')
  BY ReceiveFlight DEF Following, Trails
<1>4. /\ f.kind \in ReportTypes /\ f.kind \notin ButtonTypes
      /\ covered' = covered \cup Covers(f)
  BY <1>2, <1>3, ReceiveFacts DEF Receive
<1>5. /\ commands = <<>>
      /\ \A i \in DOMAIN frames : ~frames[i].stale
      /\ \A i \in DOMAIN frames : Quiet(1, i) => frames[i].running = scale.running
  BY <1>3, <1>4, CoverAgrees DEF Following, Trails, Agrees
<1>6. f.running = scale.running
  <2>1. Quiet(1, 1)
    BY <1>1, <1>4 DEF Quiet
  <2> QED BY <1>1, <1>5, <2>1
<1>7. /\ f.kind = "Settings" =>
           \/ timer' = timer /\ ~(NewStyle /\ ScaleTimerStateIsCurrent)
           \/ timer' = SyncTimerRunning(timer, f.running)
      /\ f.kind \in {"Weight", "Timer"} =>
           /\ f.time # None
           /\ (timer' = timer /\ ~ScaleTimerStateIsCurrent) \/ timer' = UpdateTimer(timer, f.time)
  BY <1>1 DEF Applied, ButtonTypes, Following, Flight, ReportsTimed
<1>8. timer'.running = scale.running
  <2>1. CASE f.kind = "Settings"
    <3>1. \/ timer' = timer /\ timer.running = scale.running
          \/ timer' = SyncTimerRunning(timer, f.running)
      BY <1>3, <1>4, <1>7, <2>1 DEF Covers, Following, Trails, Agrees
    <3>2. timer \in Timers /\ scale.running \in BOOLEAN
      BY TimerType, ScaleFacts
    <3>3. StartTimer(timer).running = TRUE /\ StopTimer(timer).running = FALSE
      BY <3>2 DEF StartTimer, StopTimer, Timers
    <3>4. timer.running \in BOOLEAN
      BY <3>2 DEF Timers
    <3>5. CASE timer' = SyncTimerRunning(timer, f.running)
      <4>1. CASE f.running = timer.running
        BY <1>6, <3>5, <4>1 DEF SyncTimerRunning
      <4>2. CASE f.running /\ ~timer.running
        BY <1>6, <3>2, <3>3, <3>5, <4>2 DEF SyncTimerRunning
      <4>3. CASE ~f.running /\ timer.running
        BY <1>6, <3>2, <3>3, <3>5, <4>3 DEF SyncTimerRunning
      <4> QED BY <1>6, <3>2, <3>4, <4>1, <4>2, <4>3
    <3> QED BY <3>1, <3>5
  <2>2. CASE f.kind \in {"Weight", "Timer"}
    <3>1. timer.running = scale.running
      BY <1>3, <1>4, <2>2 DEF Covers, Following, Trails, Agrees
    <3>2. timer' = timer \/ timer' = UpdateTimer(timer, f.time)
      BY <1>7, <2>2
    <3> QED BY <3>1, <3>2, TimerType DEF UpdateTimer, Timers
  <2> QED BY <1>4, <2>1, <2>2 DEF ReportTypes
<1>9. ASSUME NEW i \in DOMAIN frames', Quiet(1, i)' PROVE Quiet(1, i + 1)
  <2> SUFFICES ASSUME NEW k \in DOMAIN frames, k <= i + 1 PROVE frames[k].kind \notin ButtonTypes
    BY DEF Quiet
  <2>1. CASE k = 1
    BY <1>4, <2>1
  <2>2. CASE k - 1 \in DOMAIN frames'
    <3>1. 1 <= k - 1 /\ k - 1 <= i /\ (k - 1) + 1 = k
      BY <1>1, <2>2, ReceiveFacts
    <3> QED BY <1>1, <1>9, <2>2, <3>1 DEF Quiet
  <2> QED BY <1>1, <2>1, <2>2
<1>10. Agrees'
  BY <1>1, <1>5, <1>8, <1>9 DEF Agrees
<1>11. ASSUME "time" \in covered' PROVE Anchor'
  <2>1. /\ "time" \in covered \/ (f.kind \in {"Weight", "Timer"} /\ Covers(f) # {})
        /\ timer.running = scale.running
    BY <1>4, <1>11 DEF Covers, Following, Trails, Agrees
  <2>2. \A i \in DOMAIN frames : Quiet(1, i) => HoldsNow(frames[i])
    <3>1. CASE "time" \in covered
      BY <3>1 DEF Following, Trails, Anchor
    <3>2. CASE f.kind \in {"Weight", "Timer"} /\ Covers(f) # {}
      BY <1>1, <1>4, <3>2, CoverAgrees, TimedHolds
    <3> QED BY <2>1, <3>1, <3>2
  <2>3. HoldsNow(f)
    <3>1. Quiet(1, 1)
      BY <1>1, <1>4 DEF Quiet
    <3> QED BY <1>1, <2>2, <3>1
  <2>4. \A i \in DOMAIN frames' : Quiet(1, i)' => HoldsNow(frames[i])'
    BY <1>1, <1>9, <2>2 DEF HoldsNow
  <2>5. /\ timer'.start # None /\ (~timer'.running => timer'.stop # None)
        /\ scale.time - Elapsed(timer)' \in 0..FrameDelay
    <3>1. CASE timer' = timer /\ "time" \in covered
      BY <1>1, <3>1 DEF Following, Trails, Anchor, Elapsed
    <3>2. CASE timer' = UpdateTimer(timer, f.time) /\ f.time # None
      BY <2>1, <2>3, <3>2, UpdateTrails
    <3>3. CASE f.kind = "Settings"
      <4>1. timer' = timer /\ "time" \in covered
        BY <1>6, <1>7, <2>1, <3>3 DEF SyncTimerRunning
      <4> QED BY <3>1, <4>1
    <3>4. CASE f.kind \in {"Weight", "Timer"}
      <4>1. timer' = timer => "time" \in covered \/ timer' = UpdateTimer(timer, f.time)
        BY <1>7, <2>1, <3>4 DEF Covers
      <4> QED BY <1>7, <3>1, <3>2, <3>4, <4>1
    <3> QED BY <1>4, <3>3, <3>4 DEF ReportTypes
  <2> QED BY <1>1, <2>4, <2>5 DEF Anchor
<1> QED BY <1>10, <1>11

-----------------------------------------------------------------------------
(* Every step.                                                               *)

\* A call gives commands, or only moves its caller.
LEMMA CallFollowing ==
    ASSUME Types, Following, NEW p \in Callers,
           StartStopTimer(p) \/ StartStopResumes(p) \/ ResetTimerCall(p) \/ ResetResumes(p)
           \/ CancelCall(p)
    PROVE  Following'
<1>1. CASE \/ Give(<<"START">>) \/ Give(<<"STOP">>)
           \/ Give(<<"RESET">>) \/ Give(<<"RESET", "START">>)
  BY <1>1, ButtonSeqs, GiveFollowing
<1>2. CASE UNCHANGED <<now, local, commands, frames, scale, covered>>
  BY <1>2, StillFollowing DEF local
<1> QED BY <1>1, <1>2
        DEF StartStopTimer, StartStopResumes, ResetTimerCall, ResetResumes, CancelCall, ResetGiven

LEMMA PressFollowing ==
    ASSUME Types, Following, NEW b \in ButtonTypes, Press(b)
    PROVE  Following'
<1> DEFINE s == scale'
           times == IF b = "STOP" THEN {None, s.time} ELSE {None}
<1>1. s \in [running : BOOLEAN, time : Nat] /\ s = scale'
  BY ScaleAfterType DEF Press
<1>2. times \in SUBSET {None, s.time} /\ Send(b, s, times) /\ b \notin {"Weight", "Timer"}
  BY DEF Press, ButtonTypes
<1>3. UNCHANGED <<now, timer, commands>> /\ covered' = {}
  BY DEF Press, local
<1> HIDE DEF s, times
<1> QED BY <1>1, <1>2, <1>3, SendFollowing

LEMMA ReportFollowing ==
    ASSUME Types, Following, NEW r \in ReportTypes, Report(r)
    PROVE  Following'
<1> DEFINE times == IF r = "Settings" THEN {None} ELSE {scale.time}
<1>1. scale \in [running : BOOLEAN, time : Nat] /\ scale = scale' /\ UNCHANGED covered
  BY DEF Types, TypeOK, Report
<1>2. /\ times \in SUBSET {None, scale.time} /\ Send(r, scale, times)
      /\ r \in {"Weight", "Timer"} => None \notin times
  BY ScaleFacts DEF Report
<1>3. UNCHANGED <<now, timer, commands>> /\ r \notin ButtonTypes
  BY DEF Report, local, ButtonTypes, ReportTypes
<1> HIDE DEF times
<1> QED BY <1>1, <1>2, <1>3, SendFollowing

\* The end of the link empties what is in flight; the others leave it alone.
LEMMA LinkFollowing ==
    ASSUME Types, Following, Disconnect \/ DeviceDisconnected \/ Reconnects
    PROVE  Following'
<1>1. CASE DeviceDisconnected
  <2>1. frames' = <<>> /\ DOMAIN frames' = {} /\ covered' = {}
    BY <1>1 DEF DeviceDisconnected
  <2>2. ReportsTimed'
    BY <2>1 DEF ReportsTimed
  <2> QED BY <2>1, <2>2, AllStale DEF Following, Trails
<1>2. CASE Disconnect \/ Reconnects
  BY <1>2, StillFollowing DEF Disconnect, Reconnects, local
<1> QED BY <1>1, <1>2

LEMMA InitFollowing == Init => Following
<1> SUFFICES ASSUME Init PROVE Following
  OBVIOUS
<1>1. frames = <<>> /\ DOMAIN frames = {} /\ covered = {}
  BY DEF Init
<1>2. ReportsTimed /\ StaleFirst /\ FreshAlone /\ LastHolds /\ Agreeing
  BY <1>1 DEF ReportsTimed, StaleFirst, FreshAlone, LastHolds, Agreeing
<1> QED BY <1>1, <1>2 DEF Following, Flight, Trails

LEMMA NextFollowing ==
    ASSUME CommandDelay + FrameDelay < SettleTime
    PROVE  Types /\ Timely /\ Following /\ [Next]_vars => Following'
<1> SUFFICES ASSUME Types, Timely, Following, [Next]_vars PROVE Following'
  OBVIOUS
<1>1. ASSUME NEW p \in Callers,
             StartStopTimer(p) \/ StartStopResumes(p) \/ ResetTimerCall(p) \/ ResetResumes(p)
             \/ CancelCall(p)
      PROVE  Following'
  BY <1>1, CallFollowing
<1>2. CASE ScaleRuns \/ Receive \/ Tick
  BY <1>2, RunsFollowing, ReceiveFollowing, TickFollowing
<1>3. ASSUME NEW b \in ButtonTypes, Press(b) PROVE Following'
  BY <1>3, PressFollowing
<1>4. ASSUME NEW r \in ReportTypes, Report(r) PROVE Following'
  BY <1>4, ReportFollowing
<1>5. CASE Disconnect \/ DeviceDisconnected \/ Reconnects
  BY <1>5, LinkFollowing
<1>6. CASE UNCHANGED vars
  BY <1>6, StillFollowing DEF vars, local
<1> QED BY <1>1, <1>2, <1>3, <1>4, <1>5, <1>6 DEF Next

\* Where calls are never suspended and a command and then a notification take
\* less than the settle time, settings that still hold when they arrive leave the
\* program and the scale in agreement on whether the timer runs, and the next
\* report with the time leaves a timer that trails the scale's by at most the
\* delay of a notification.  Both last until the next command, button or loss of
\* the link, whatever else is in flight: of any scale, for any buttons and
\* reports, over any series of commands and drops.  (A report that finds them in
\* disagreement, with no settings since, sets a value of which nothing is said.)
THEOREM TimerFollowsScale ==
    ASSUME ~MayStall, CommandDelay + FrameDelay < SettleTime
    PROVE  Spec => []FollowsScale
<1>1. Init => Types /\ Timely /\ Following
  BY InitTypes, InitTimely, InitFollowing
<1>2. Types /\ Timely /\ Following /\ [Next]_vars => Types' /\ Timely' /\ Following'
  BY NextTimely, NextFollowing
<1>3. Following => FollowsScale
  BY DEF Following, Trails, Agrees, Anchor, FollowsScale
<1> QED BY <1>1, <1>2, <1>3, PTL DEF Spec

===============================================================================
