---------------------------- MODULE MCScaleTimer ----------------------------
(***************************************************************************)
(* Instances of ScaleTimer for TLC: half-second ticks, so that the settle  *)
(* time of 1.5 s is a whole number of them.                                *)
(***************************************************************************)
EXTENDS ScaleTimer

AllButtons == ButtonTypes
NoButtons  == {}
AllReports == ReportTypes

\* What a 2021 scale reports on its own.
TimedReports == {"Settings", "Weight"}

\* The only report with the running state, and the buttons that change it.
SettingsOnly == {"Settings"}
StartStopButtons == {"START", "STOP"}

=============================================================================
