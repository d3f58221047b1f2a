------------------------- MODULE MCExperimentLifecycle -------------------------
(***************************************************************************)
(* Two experiments in a row for TLC.  The VMs are fixed names, so that     *)
(* each experiment has its own.                                            *)
(***************************************************************************)
EXTENDS ExperimentLifecycle

TwoExperiments == << {"a1", "a2"}, {"b1", "b2"} >>
===============================================================================
