----------------------------- MODULE ScheduleOrder -----------------------------
(***************************************************************************)
(* What a VM's schedule promises: each negative start time is a barrier    *)
(* within the VM, the experiment starts when all of negative time is done, *)
(* and nothing of positive time starts before that.                        *)
(***************************************************************************)
EXTENDS Integers

CONSTANTS Entry, Time

VARIABLES started, finished,
          positive  \* the experiment has started

orderVars == <<started, finished, positive>>

OrderInit == started = {} /\ finished = {} /\ positive = FALSE

Before(t) == {e \in Entry : Time[e] < t}

MayStart(e) ==
  IF Time[e] < 0 THEN Before(Time[e]) \subseteq finished ELSE positive

Start(e) ==
  /\ e \notin started
  /\ MayStart(e)
  /\ started' = started \cup {e}
  /\ UNCHANGED <<finished, positive>>

Finish(e) ==
  /\ e \in started
  /\ finished' = finished \cup {e}
  /\ UNCHANGED <<started, positive>>

\* An entry that only loads files starts and finishes at once.
Complete(e) ==
  /\ MayStart(e)
  /\ started' = started \cup {e}
  /\ finished' = finished \cup {e}
  /\ UNCHANGED positive

StartExperiment ==
  /\ Before(0) \subseteq finished
  /\ positive' = TRUE
  /\ UNCHANGED <<started, finished>>

OrderNext ==
  StartExperiment \/ \E e \in Entry : Start(e) \/ Finish(e) \/ Complete(e)

OrderSpec == OrderInit /\ [][OrderNext]_orderVars
===============================================================================
