------------------------------ MODULE ScaleTimer ------------------------------
(***************************************************************************)
(* The timer of AcaiaScale: a copy of the scale's own timer, kept from the *)
(* timer commands the application gives, the buttons pressed on the scale  *)
(* and the timer state the scale reports.  Commands reach the scale late   *)
(* and reports reach the program late, so each may cross the other; for a  *)
(* while after a command the program ignores reports (the settle time).    *)
(*                                                                         *)
(* A handler of a notification runs without an await, a command awaits its *)
(* place in the queue: it suspends there only when the queue is full, and  *)
(* pc[p] names the await at which p is suspended.                          *)
(*                                                                         *)
(* External: the scale and its timer, the radio link, the clock.  The      *)
(* command queue and its worker are a delay of at most CommandDelay ticks. *)
(***************************************************************************)
EXTENDS Integers, Sequences, FiniteSets, SequencesExt

CONSTANTS
    None,            \* Python's None
    Callers,         \* application coroutines that give timer commands
    NewStyle,        \* _is_new_style_scale
    TicksPerSecond,  \* ticks of the clock in a second
    SettleTime,      \* _TIMER_COMMAND_SETTLE_TIME, in ticks
    CommandDelay,    \* a command runs on the scale within so many ticks
    FrameDelay,      \* a notification arrives within so many ticks
    MayStall,        \* the command queue may be full
    MayDrop,         \* the link may drop
    Buttons,         \* the buttons pressed on the scale
    Reports,         \* the timer reports the scale sends
    MaxTime,         \* bound: the clock stops there
    MaxEvents,       \* bound: calls, presses and drops
    MaxFrames,       \* bound: notifications in flight
    MaxCommands      \* bound: commands on their way

ButtonTypes == {"START", "STOP", "RESET"}
ReportTypes == {"Settings", "Weight", "Timer"}

ASSUME NoneAssumption == None \notin Int
ASSUME DelaysAssumption ==
    /\ SettleTime \in Nat /\ CommandDelay \in Nat /\ FrameDelay \in Nat
    /\ TicksPerSecond \in Nat \ {0}
ASSUME ModesAssumption ==
    /\ NewStyle \in BOOLEAN /\ MayStall \in BOOLEAN /\ MayDrop \in BOOLEAN
    /\ Buttons \subseteq ButtonTypes /\ Reports \subseteq ReportTypes
ASSUME BoundsAssumption ==
    MaxTime \in Nat /\ MaxEvents \in Nat /\ MaxFrames \in Nat /\ MaxCommands \in Nat

VARIABLES
    now,          \* time.monotonic(), in ticks
    timer,        \* timer_running, _timer_start, _timer_stop, _button_pressed
    lastCommand,  \* _last_timer_command
    connected,    \* self.connected
    linked,       \* the link is up, its disconnected callback has not run
    pc,           \* the await at which a caller is suspended
    commands,     \* timer commands on their way to the scale
    frames,       \* notifications on their way to the program
    scale,        \* the scale's timer
    events,       \* bound: the calls, presses and drops so far
    covered       \* history: what of the timer was reported since the last change

local == <<timer, lastCommand>>
vars  == <<now, local, connected, linked, pc, commands, frames, scale, events, covered>>

Times == Int \cup {None}
Frames ==
    [kind : ButtonTypes \cup ReportTypes,
     running : BOOLEAN,   \* carried by Settings; for the properties in the other reports
     time : Times,        \* None when the notification carries no timer
     sent : Nat,
     stale : BOOLEAN]     \* history: an earlier timer command has not run when it is sent

TypeOK ==
    /\ now \in 0..MaxTime
    /\ timer \in [running : BOOLEAN, start : Times, stop : Times, pressed : BOOLEAN]
    /\ lastCommand \in Nat \cup {None}
    /\ connected \in BOOLEAN /\ linked \in BOOLEAN
    /\ pc \in [Callers -> {"idle", "start", "stop", "reset", "restart"}]
    /\ commands \in Seq([command : ButtonTypes, given : Nat])
    /\ frames \in Seq(Frames)
    /\ scale \in [running : BOOLEAN, time : Nat]
    /\ events \in 0..MaxEvents
    /\ covered \subseteq {"running", "time"}

\* The scale's timer may run before the program connects.
Init ==
    /\ now = 0
    /\ timer = [running |-> FALSE, start |-> None, stop |-> None, pressed |-> FALSE]
    /\ lastCommand = None
    /\ connected = TRUE /\ linked = TRUE
    /\ pc = [p \in Callers |-> "idle"]
    /\ commands = <<>> /\ frames = <<>>
    /\ scale \in [running : BOOLEAN, time : {0, 1}]
    /\ events = 0
    /\ covered = {}

-----------------------------------------------------------------------------
(* The local timer t.                                                        *)

\* Seconds of a duration, as int() truncates it.
Seconds(d) == IF d >= 0 THEN d \div TicksPerSecond ELSE -((-d) \div TicksPerSecond)

\* The property `timer`, before int().
Elapsed(t) ==
    IF t.start = None THEN 0
    ELSE IF t.running THEN now - t.start
    ELSE IF t.stop = None THEN 0
    ELSE t.stop - t.start

\* _start_timer: start, or resume from the stored elapsed time.
StartTimer(t) ==
    [t EXCEPT !.running = TRUE,
              !.start = IF t.start # None /\ t.stop # None THEN now - (t.stop - t.start) ELSE now]

\* How start_stop_timer and _sync_timer_running stop the timer.
StopTimer(t) == [t EXCEPT !.running = FALSE, !.stop = now]

\* Mutant: a stopped timer is anchored as a running one.
UpdateTimerAsRunning(t, elapsed) == [t EXCEPT !.start = now - elapsed, !.stop = None]

\* _update_timer
UpdateTimer(t, elapsed) ==
    [t EXCEPT !.start = now - elapsed, !.stop = IF t.running THEN None ELSE now]

\* Mutant: the settings only ever start the timer.
SyncOnlyStarts(t, running) == IF running /\ ~t.running THEN StartTimer(t) ELSE t

\* _sync_timer_running
SyncTimerRunning(t, running) ==
    CASE running = t.running -> t
      [] running /\ ~t.running -> StartTimer(t)
      [] ~running /\ t.running -> StopTimer(t)

\* reset in _handle_button
ResetTimer(t) == [running |-> FALSE, start |-> None, stop |-> None, pressed |-> FALSE]

\* reset_on_power_button
ResetOnPowerButton(t) == IF t.pressed THEN ResetTimer(t) ELSE [t EXCEPT !.pressed = TRUE]

\* Mutant: the running state is taken from notifications that carry none.
HandleButtonUnguarded(t, f) ==
    CASE f.kind = "START" -> [ResetOnPowerButton(StartTimer(t)) EXCEPT !.running = TRUE]
      [] f.kind = "STOP" -> [ResetOnPowerButton(StopTimer(t)) EXCEPT !.running = FALSE]
      [] f.kind = "RESET" -> [ResetTimer(t) EXCEPT !.running = None]

\* _handle_button, a notification's running state last.
HandleButton(t, f) ==
    CASE f.kind = "START" ->
           [ResetOnPowerButton(StartTimer(t)) EXCEPT !.running = TRUE]
      [] f.kind = "STOP" ->
           LET halted  == [t EXCEPT !.running = FALSE]
               stopped == IF f.time = None THEN StopTimer(halted) ELSE UpdateTimer(halted, f.time)
           IN  [ResetOnPowerButton(stopped) EXCEPT !.running = FALSE]
      [] f.kind = "RESET" -> ResetTimer(t)

\* _scale_timer_state_is_current
ScaleTimerStateIsCurrent == lastCommand = None \/ now - lastCommand >= SettleTime

\* _apply_message: what notification f makes of the local timer.
Applied(t, f) ==
    CASE f.kind = "Settings" ->
           IF NewStyle /\ ScaleTimerStateIsCurrent THEN SyncTimerRunning(t, f.running) ELSE t
      [] f.kind = "Weight" ->
           IF f.time # None /\ ScaleTimerStateIsCurrent THEN UpdateTimer(t, f.time) ELSE t
      [] f.kind = "Timer" -> UpdateTimer(t, f.time)
      [] f.kind \in ButtonTypes -> HandleButton(t, f)

-----------------------------------------------------------------------------
(* The application's commands.  _ensure_connected is a connection already    *)
(* made: ScaleConnection has connect().                                      *)

\* Bound: calls, presses and drops are few and leave time to settle.
Early == now + SettleTime < MaxTime

Happens ==
    /\ Early
    /\ events < MaxEvents
    /\ events' = events + 1

\* The commands cs join the queue; what is in flight was sent before they run.
Give(cs) ==
    /\ commands' = commands \o [i \in DOMAIN cs |-> [command |-> cs[i], given |-> now]]
    /\ frames' = [i \in DOMAIN frames |-> [frames[i] EXCEPT !.stale = TRUE]]
    /\ covered' = {}

\* start_stop_timer once its START or STOP is in the queue.
Started == timer' = StartTimer(timer) /\ lastCommand' = now
Stopped == timer' = StopTimer(timer) /\ lastCommand' = now

\* Mutant: start_stop_timer does not record when it sent its command.
StartStopUntimed(p) ==
    /\ pc[p] = "idle"
    /\ connected /\ Happens /\ Len(commands) < MaxCommands
    /\ \/ ~timer.running /\ Give(<<"START">>) /\ timer' = StartTimer(timer)
       \/ timer.running /\ Give(<<"STOP">>) /\ timer' = StopTimer(timer)
    /\ UNCHANGED <<now, lastCommand, connected, linked, pc, scale>>

\* start_stop_timer: at once, or suspended in the put of its command.
StartStopTimer(p) ==
    /\ pc[p] = "idle"
    /\ connected /\ Happens
    /\ \/ /\ Len(commands) < MaxCommands
          /\ \/ ~timer.running /\ Give(<<"START">>) /\ Started
             \/ timer.running /\ Give(<<"STOP">>) /\ Stopped
          /\ UNCHANGED pc
       \/ /\ MayStall
          /\ pc' = [pc EXCEPT ![p] = IF timer.running THEN "stop" ELSE "start"]
          /\ UNCHANGED <<local, commands, frames, covered>>
    /\ UNCHANGED <<now, connected, linked, scale>>

\* The suspended put of start_stop_timer ends.
StartStopResumes(p) ==
    /\ Len(commands) < MaxCommands
    /\ \/ pc[p] = "start" /\ Give(<<"START">>) /\ Started
       \/ pc[p] = "stop" /\ Give(<<"STOP">>) /\ Stopped
    /\ pc' = [pc EXCEPT ![p] = "idle"]
    /\ UNCHANGED <<now, connected, linked, scale, events>>

\* reset_timer once its RESET is in the queue: a running timer is started again.
ResetGiven(p) ==
    LET cleared == [timer EXCEPT !.start = None, !.stop = None]
    IN  \/ /\ ~timer.running
           /\ Give(<<"RESET">>)
           /\ timer' = cleared
           /\ lastCommand' = now
           /\ pc' = [pc EXCEPT ![p] = "idle"]
        \/ /\ timer.running
           /\ Give(<<"RESET", "START">>)
           /\ timer' = [cleared EXCEPT !.start = now]
           /\ lastCommand' = now
           /\ pc' = [pc EXCEPT ![p] = "idle"]
        \/ /\ timer.running /\ MayStall
           /\ Give(<<"RESET">>)
           /\ timer' = cleared
           /\ pc' = [pc EXCEPT ![p] = "restart"]
           /\ UNCHANGED lastCommand

ResetTimerCall(p) ==
    /\ pc[p] = "idle"
    /\ connected /\ Happens
    /\ \/ /\ Len(commands) < MaxCommands
          /\ ResetGiven(p)
       \/ /\ MayStall
          /\ pc' = [pc EXCEPT ![p] = "reset"]
          /\ UNCHANGED <<local, commands, frames, covered>>
    /\ UNCHANGED <<now, connected, linked, scale>>

ResetResumes(p) ==
    /\ Len(commands) < MaxCommands
    /\ \/ pc[p] = "reset" /\ ResetGiven(p)
       \/ /\ pc[p] = "restart"
          /\ Give(<<"START">>)
          /\ timer' = [timer EXCEPT !.start = now]
          /\ lastCommand' = now
          /\ pc' = [pc EXCEPT ![p] = "idle"]
    /\ UNCHANGED <<now, connected, linked, scale, events>>

\* The application cancels a call suspended in a put: the rest does not run.
CancelCall(p) ==
    /\ pc[p] # "idle"
    /\ pc' = [pc EXCEPT ![p] = "idle"]
    /\ UNCHANGED <<now, local, connected, linked, commands, frames, scale, covered, events>>

-----------------------------------------------------------------------------
(* The scale.                                                                *)

\* Its timer after command or button c.
ScaleAfter(c) ==
    [running |-> c = "START", time |-> IF c = "RESET" THEN 0 ELSE scale.time]

\* The worker writes the oldest command and the scale runs it.
ScaleRuns ==
    /\ connected /\ commands # <<>>
    /\ scale' = ScaleAfter(Head(commands).command)
    /\ commands' = Tail(commands)
    /\ covered' = {}
    /\ UNCHANGED <<now, local, connected, linked, pc, frames, events>>

\* A notification of this kind leaves the scale, whose timer is s.
Send(kind, s, times) ==
    /\ linked /\ Len(frames) < MaxFrames
    /\ \E time \in times :
         frames' = Append(frames, [kind |-> kind, running |-> s.running, time |-> time,
                                   sent |-> now, stale |-> commands # <<>>])

\* The power button starts and stops the timer; the stop may carry its value.
Press(b) ==
    /\ b \in Buttons /\ Happens
    /\ b = "START" => ~scale.running
    /\ b = "STOP" => scale.running
    /\ scale' = ScaleAfter(b)
    /\ Send(b, scale', IF b = "STOP" THEN {None, scale'.time} ELSE {None})
    /\ covered' = {}
    /\ UNCHANGED <<now, local, connected, linked, pc, commands>>

\* Settings carry no timer value, a weight of a 2021 scale does.
Report(kind) ==
    /\ kind \in Reports
    /\ Send(kind, scale, IF kind = "Settings" THEN {None} ELSE {scale.time})
    /\ UNCHANGED <<now, local, connected, linked, pc, commands, scale, covered, events>>

\* The report f holds for the scale's timer as it is now.
Holds(f) ==
    /\ f.running = scale.running
    /\ f.time # None => scale.time = f.time + (IF f.running THEN now - f.sent ELSE 0)

\* What a report that holds tells a program which has settled: settings whether
\* the timer runs, the others its value, if the program knows whether it runs.
Covers(f) ==
    {c \in {"running", "time"} :
        /\ ScaleTimerStateIsCurrent /\ commands = <<>> /\ Holds(f)
        /\ IF c = "running" THEN f.kind = "Settings" /\ NewStyle
           ELSE f.kind \in {"Weight", "Timer"} /\ timer.running = scale.running}

\* on_bluetooth_data_received
Receive ==
    LET f == Head(frames)
    IN  /\ linked /\ frames # <<>>
        /\ frames' = Tail(frames)
        /\ timer' = Applied(timer, f)
        /\ covered' = IF f.kind \in ButtonTypes THEN {} ELSE covered \cup Covers(f)
        /\ UNCHANGED <<now, lastCommand, connected, linked, pc, commands, scale, events>>

-----------------------------------------------------------------------------
(* The connection and the clock.                                             *)

\* disconnect() or a failed write: the handler has not run yet.
Disconnect ==
    /\ MayDrop /\ Happens
    /\ connected
    /\ connected' = FALSE
    /\ commands' = <<>>
    /\ UNCHANGED <<now, local, linked, pc, frames, scale, covered>>

\* device_disconnected_handler
DeviceDisconnected ==
    /\ MayDrop /\ Happens
    /\ linked
    /\ linked' = FALSE /\ connected' = FALSE
    /\ timer' = [timer EXCEPT !.running = FALSE]
    /\ commands' = <<>> /\ frames' = <<>>
    /\ covered' = {}
    /\ UNCHANGED <<now, lastCommand, pc, scale>>

\* connect() succeeds.
Reconnects ==
    /\ ~linked /\ Early
    /\ linked' = TRUE /\ connected' = TRUE
    /\ UNCHANGED <<now, local, pc, commands, frames, scale, covered, events>>

\* Bound: no call is suspended when the time to settle begins.
Tick ==
    /\ now < MaxTime
    /\ linked /\ frames # <<>> => now - Head(frames).sent < FrameDelay
    /\ connected /\ commands # <<>> => now - Head(commands).given < CommandDelay
    /\ now' = now + 1
    /\ ~Early' => \A p \in Callers : pc[p] = "idle"
    /\ scale' = [scale EXCEPT !.time = IF scale.running THEN @ + 1 ELSE @]
    /\ UNCHANGED <<local, connected, linked, pc, commands, frames, covered, events>>

Next ==
    \/ \E p \in Callers :
         StartStopTimer(p) \/ StartStopResumes(p) \/ ResetTimerCall(p) \/ ResetResumes(p)
         \/ CancelCall(p)
    \/ ScaleRuns
    \/ \E b \in ButtonTypes : Press(b)
    \/ \E r \in ReportTypes : Report(r)
    \/ Receive
    \/ Disconnect \/ DeviceDisconnected \/ Reconnects
    \/ Tick

Spec == Init /\ [][Next]_vars

\* Time passes, commands run, notifications arrive; a new-style scale answers
\* every heartbeat with its settings.
Fairness ==
    /\ SF_vars(Tick) /\ WF_vars(ScaleRuns) /\ WF_vars(Receive)
    /\ SF_vars(Report("Settings"))
    /\ \A p \in Callers : WF_vars(StartStopResumes(p) \/ ResetResumes(p))

FairSpec == Spec /\ Fairness

-----------------------------------------------------------------------------
\* The timer never shows less than zero: it stops no earlier than it started,
\* over every series of commands, buttons and reports.
NeverNegative == Seconds(Elapsed(timer)) >= 0

\* From the arrival of settings that still hold, or of another report that finds
\* the program and the scale in agreement on whether the timer runs, they stay in
\* agreement, and from that of a report with the time the timer trails the scale's
\* by at most the delay of a notification: both until the next command, button or
\* loss of the link, whatever was and is in flight.
FollowsScale ==
    /\ covered # {} => timer.running = scale.running
    /\ "time" \in covered => scale.time - Elapsed(timer) \in 0..FrameDelay

\* The receipt of notification f.
Receives(f) == linked' /\ frames # <<>> /\ frames' = Tail(frames) /\ f = Head(frames)

\* A report the scale sent before it ran the program's last command does not
\* undo the command.
StaleReportsIgnored ==
    [][\A f \in {frames[i] : i \in DOMAIN frames} :
         Receives(f) /\ f.stale /\ f.kind \in {"Settings", "Weight"} => timer' = timer]_vars

\* The same of a timer report.
StaleTimersIgnored ==
    [][\A f \in {frames[i] : i \in DOMAIN frames} :
         Receives(f) /\ f.stale /\ f.kind = "Timer" => timer' = timer]_vars

\* A press of the start button leaves a timer that has started, one of the stop
\* button a timer that has stopped.
PressesTracked ==
    [][\A f \in {frames[i] : i \in DOMAIN frames} :
         /\ Receives(f) /\ f.kind = "START" => timer'.running /\ timer'.start # None
         /\ Receives(f) /\ f.kind = "STOP" => ~timer'.running /\ timer'.stop # None]_vars

\* Whatever commands, presses and drops cross each other, while connected the
\* program ends up in agreement with the scale on whether the timer runs.
Converges == <>[](connected => timer.running = scale.running)

===============================================================================
