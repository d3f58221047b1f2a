-------------------------- MODULE MCExperimentBarrier --------------------------
(***************************************************************************)
(* The instances of ExperimentBarrier that TLC checks are given by the     *)
(* configurations alone: the VMs, which of them have no handler, which may *)
(* fail, and how many calls are lost.                                      *)
(***************************************************************************)
EXTENDS ExperimentBarrier
===============================================================================
