-------------------------- MODULE ExperimentLifecycle --------------------------
(***************************************************************************)
(* Experiments one after the other on one gRPC server.  "firewheel stop"   *)
(* clears the server's databases and only then kills the resource handlers, *)
(* which go on calling the server in between.  Every experiment has VMs,   *)
(* that is uuids, of its own.                                              *)
(***************************************************************************)
EXTENDS ExperimentBarrier

CONSTANTS Cohort  \* Cohort[n]: the VMs of the n-th experiment

ASSUME CohortAssumption ==
  /\ Len(Cohort) > 0
  /\ \A n \in DOMAIN Cohort : Cohort[n] \subseteq VM

VARIABLES
  experiment,  \* the number of the current experiment
  stopping     \* the next step of "firewheel stop", "no" when it is not running

lifecycleVars == <<vars, experiment, stopping>>

Current == Cohort[experiment]

LifecycleInit == Init /\ experiment = 1 /\ stopping = "no"

-------------------------------------------------------------------------------
(* The steps of ExperimentBarrier, for the current experiment's VMs.       *)

RunStep(v) ==
  /\ \/ stopping = "no" /\ v \in Current /\ (Register(v) \/ Launch(v, Current))
     \/ Handle(v) \/ Other(v)
  /\ UNCHANGED <<experiment, stopping>>

(* "firewheel stop": api.destroy_all, then ns_kill_processes.              *)

\* DestroyAllVMMappings replaces its two structures one after the other.
StopMappings ==
  /\ stopping = "no"
  /\ putting = None
  /\ vm_mappings' = [v \in VM |-> "absent"]
  /\ stopping' = "not_ready"
  /\ UNCHANGED <<not_ready_vmms, experiment_start_times, putting, handler,
                 faults, reached, experiment>>

StopNotReady ==
  /\ stopping = "not_ready"
  /\ not_ready_vmms' = {}
  /\ stopping' = "start_time"
  /\ UNCHANGED <<vm_mappings, experiment_start_times, putting, handler, faults,
                 reached, experiment>>

StopStartTime ==
  /\ stopping = "start_time"
  /\ experiment_start_times' = <<>>
  /\ stopping' = "kill"
  /\ UNCHANGED <<vm_mappings, not_ready_vmms, putting, handler, faults, reached,
                 experiment>>

\* Handlers run on many hosts and die one by one.
StopKill(v) ==
  /\ stopping = "kill"
  /\ v \in Current
  /\ stage[v] # "exited" \/ call[v] # "idle"
  /\ stage' = [stage EXCEPT ![v] = "exited"]
  /\ call' = [call EXCEPT ![v] = "idle"]
  /\ UNCHANGED <<server, putting, target, state, experiment_start_time, faults,
                 reached, experiment, stopping>>

\* The user launches the next experiment.
StartNext ==
  /\ stopping = "kill"
  /\ \A v \in Current : stage[v] = "exited" /\ call[v] = "idle"
  /\ experiment < Len(Cohort)
  /\ experiment' = experiment + 1
  /\ stopping' = "no"
  /\ UNCHANGED vars

LifecycleNext ==
  \/ \E v \in VM : RunStep(v) \/ StopKill(v)
  \/ StopMappings \/ StopNotReady \/ StopStartTime \/ StartNext

LifecycleSpec == LifecycleInit /\ [][LifecycleNext]_lifecycleVars

-------------------------------------------------------------------------------
\* No handler that outlives its experiment's mappings brings one back: the
\* server knows VMs of the current experiment only.
OldMappingsGone ==
  \A v \in VM : vm_mappings[v] # "absent" => v \in Current

===============================================================================
