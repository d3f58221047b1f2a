------------------------- MODULE MCVMResourceHandler -------------------------
(***************************************************************************)
(* Schedules for TLC.  The names say what an entry is: n2a and n2b are     *)
(* resources of time -2, of which n2a may ask for a reboot, n1 is a host   *)
(* resource of time -1, p1 is of positive time, push and pull are what     *)
(* "firewheel push file" and "firewheel pull file" add, and drop is a file *)
(* without an executable.                                                  *)
(***************************************************************************)
EXTENDS VMResourceHandler

StartTime == [e \in Entry |->
  CASE e \in {"push", "pull"} -> -3
    [] e \in {"n2a", "n2b"} -> -2
    [] e \in {"n1", "drop"} -> -1
    [] e = "p1" -> 1]

OneReboot == [e \in Entry |-> IF e = "n2a" THEN 1 ELSE 0]

Earliest == -9

Launch == SelectSeq(<<"n1", "n2a", "p1", "n2b">>, LAMBDA e : e \in Entry)
Late   == <<"n1">>
Empty  == <<>>
===============================================================================
