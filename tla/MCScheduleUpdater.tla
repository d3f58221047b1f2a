--------------------------- MODULE MCScheduleUpdater ---------------------------
(***************************************************************************)
(* Schedules for TLC.  Pauses lie between the times of entries: the code   *)
(* adds the least positive float to a pause's time, which changes no time  *)
(* but 0, and what comes first of two items of one time is left open.      *)
(***************************************************************************)
EXTENDS ScheduleUpdater

StartTimes == [i \in Item |->
  CASE i = "n"     -> -4
    [] i = "pause-2" -> -2
    [] i = "e2"    -> 2
    [] i = "pause3" -> 3
    [] i = "e4"    -> 4
    [] i = "break5" -> 5
    [] i = "e6"    -> 6
    [] i = "pause7" -> 7
    [] i = "e8"    -> 8
    [] i = "break9" -> 9
    [] i = "e10"   -> 10
    [] i = "push"  -> -8
    [] OTHER       -> -100]

Durations == [p \in Pause |->
  CASE p = "pause-2" -> 10 [] p = "pause3" -> 20 [] p = "pause7" -> 40 [] OTHER -> Endless]

MinusInf == -100
Clock  == {-1, 3, 50}

WithBreaks == {"n", "e2", "pause3", "e4", "break5", "e6", "pause7", "e8", "break9", "e10"}
Endlessly  == {"n", "break", "pause-2", "e2", "pause3", "e4"}
TwoPauses  == {"n", "e2", "pause3", "e4", "pause7", "e8"}
Several    == {WithBreaks, Endlessly, TwoPauses}
===============================================================================
