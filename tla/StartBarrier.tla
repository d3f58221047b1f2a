----------------------------- MODULE StartBarrier -----------------------------
(***************************************************************************)
(* What the barrier at time 0 promises an experiment (the VM Resource      *)
(* Manager's "Once all VMs have reached time 0, an experiment start time   *)
(* is determined"): each managed VM arrives once, a start time is decided  *)
(* once and only after every managed VM has arrived, and whoever learns a  *)
(* start time learns that one.                                             *)
(***************************************************************************)
CONSTANTS Managed,  \* the VMs that have a resource handler
          None      \* no start time, not a VM

VARIABLES arrived,  \* VMs that have finished their negative time
          decided,  \* the start time, named by the VM that chose it, or None
          learned   \* learned[v]: the start time v goes by, or None

barrierVars == <<arrived, decided, learned>>

BarrierInit ==
  /\ arrived = {}
  /\ decided = None
  /\ learned = [v \in Managed |-> None]

Arrive(v) ==
  /\ arrived' = arrived \cup {v}
  /\ UNCHANGED <<decided, learned>>

Decide(v) ==
  /\ decided = None
  /\ arrived = Managed
  /\ decided' = v
  /\ UNCHANGED <<arrived, learned>>

LearnStart(v) ==
  /\ decided # None
  /\ learned[v] = None
  /\ learned' = [learned EXCEPT ![v] = decided]
  /\ UNCHANGED <<arrived, decided>>

BarrierNext == \E v \in Managed : Arrive(v) \/ Decide(v) \/ LearnStart(v)

BarrierSpec == BarrierInit /\ [][BarrierNext]_barrierVars
===============================================================================
