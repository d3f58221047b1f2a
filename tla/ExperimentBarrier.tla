--------------------------- MODULE ExperimentBarrier ---------------------------
(***************************************************************************)
(* One experiment's start barrier: the gRPC server's VM mappings, not-ready *)
(* set and start times, control registering the VMs, and each VM's resource *)
(* handler reporting its state and proposing a start time when the server  *)
(* counts no VM that is not ready.                                         *)
(*                                                                         *)
(* The server runs its handlers in a thread pool, so a handler that touches *)
(* two of its structures takes two steps here.  A client call may be lost:  *)
(* at most MaxFaults of them, before or after the server has acted on it.   *)
(* A start time is named by the VM that proposed it.                        *)
(***************************************************************************)
EXTENDS Naturals, Sequences

CONSTANTS VM,         \* the experiment's VMs, by uuid
          Unmanaged,  \* those without a resource handler (use_vm_manager=False)
          MayFail,    \* those with an entry whose files cannot be loaded
          MaxFaults,  \* how many client calls may be lost
          None

ASSUME VMAssumption    == Unmanaged \subseteq VM /\ MayFail \subseteq VM
ASSUME FaultAssumption == MaxFaults \in Nat
ASSUME NoneAssumption  == None \notin VM

Managed == VM \ Unmanaged

VMState == {"uninitialized", "configuring", "configured", "failed", "testing", "n/a"}

\* Mutant: a VM counts as ready when it starts to be configured.
ConfiguringIsReady == {"n/a", "configuring", "configured"}

ready_states == {"n/a", "configured"}

Stage == {"off", "connecting", "negative", "zero", "exited"}
Call  == {"idle", "mark", "write", "count", "get", "append"}

VARIABLES
  vm_mappings,             \* server: state of each VM, "absent" when not a key
  not_ready_vmms,          \* server: uuids counted as not ready
  experiment_start_times,  \* server: proposed start times, the first one rules
  putting,                 \* control: the VM whose SetVMMapping is under way
  stage,                   \* handler: where its main thread stands
  call,                    \* handler: the gRPC step its set_state is about to take
  target,                  \* handler: the state that set_state reports
  state,                   \* handler: self.state, "none" before the first report
  experiment_start_time,   \* handler: the start time it has learned
  faults,                  \* calls lost so far
  reached                  \* history: VMs reported to the server as configured

server  == <<vm_mappings, not_ready_vmms, experiment_start_times>>
handler == <<stage, call, target, state, experiment_start_time>>
vars    == <<server, putting, handler, faults, reached>>

Init ==
  /\ vm_mappings = [v \in VM |-> "absent"]
  /\ not_ready_vmms = {}
  /\ experiment_start_times = <<>>
  /\ putting = None
  /\ stage = [v \in VM |-> "off"]
  /\ call = [v \in VM |-> "idle"]
  /\ target = [v \in VM |-> "configuring"]
  /\ state = [v \in VM |-> "none"]
  /\ experiment_start_time = [v \in VM |-> None]
  /\ faults = 0
  /\ reached = {}

-------------------------------------------------------------------------------
(* The server.                                                             *)

\* Mutant: a VM that becomes ready stays in the set.
NeverReady(v, s) == IF s \in ready_states THEN not_ready_vmms ELSE not_ready_vmms \cup {v}

\* _update_not_ready_vmms: the set after VM v is reported in state s.
NotReadyAfter(v, s) ==
  IF s \in ready_states THEN not_ready_vmms \ {v} ELSE not_ready_vmms \cup {v}

\* Mutant: SetVMStateByUUID makes a mapping it does not find.
Unchecked(v) == TRUE

Known(v) == vm_mappings[v] # "absent"

\* Mutant: the proposal made last rules.
LastStart == experiment_start_times[Len(experiment_start_times)]

\* GetExperimentStartTime's answer when there is one.
FirstStart == Head(experiment_start_times)

Proposed(v) == Append(experiment_start_times, v)

(* Control: batch_put, one SetVMMapping per VM, before any handler runs.   *)
InitialState(v) == IF v \in Unmanaged THEN "n/a" ELSE "uninitialized"

PutMark(v) ==
  /\ putting = None
  /\ vm_mappings[v] = "absent"
  /\ not_ready_vmms' = NotReadyAfter(v, InitialState(v))
  /\ putting' = v
  /\ UNCHANGED <<vm_mappings, experiment_start_times, handler, faults, reached>>

PutWrite(v) ==
  /\ putting = v
  /\ vm_mappings' = [vm_mappings EXCEPT ![v] = InitialState(v)]
  /\ putting' = None
  /\ UNCHANGED <<not_ready_vmms, experiment_start_times, handler, faults, reached>>

\* Mutant: a handler starts when its own VM is registered.
RegisteredAlone(v, vms) == vm_mappings[v] # "absent"

RegisteredWith(v, vms) == \A u \in vms : vm_mappings[u] # "absent"

\* The handlers of the experiment's VMs, vms, start when all are registered.
Launch(v, vms) ==
  /\ RegisteredWith(v, vms)
  /\ v \in Managed
  /\ stage[v] = "off"
  /\ stage' = [stage EXCEPT ![v] = "connecting"]
  /\ UNCHANGED <<server, putting, call, target, state, experiment_start_time,
                 faults, reached>>

-------------------------------------------------------------------------------
(* The handler's main thread.  It is between gRPC calls when call is idle; *)
(* stage already names what follows the call it makes.                     *)

MustReport(v, s) ==
  /\ state[v] # s
  /\ state[v] = "configured" => s = "failed"

SetState(v, s) ==
  IF MustReport(v, s)
    THEN /\ call' = [call EXCEPT ![v] = "mark"]
         /\ target' = [target EXCEPT ![v] = s]
    ELSE UNCHANGED <<call, target>>

\* The main thread moves to the next stage and reports state s.
Report(v, next, s) ==
  /\ call[v] = "idle"
  /\ stage' = [stage EXCEPT ![v] = next]
  /\ SetState(v, s)
  /\ UNCHANGED <<server, putting, state, experiment_start_time, faults, reached>>

Connected(v)    == stage[v] = "connecting" /\ Report(v, "negative", "configuring")
NegativeDone(v) == stage[v] = "negative" /\ Report(v, "zero", "configured")

\* get_events comes round to a positive-time event again, still without a start.
StillWaiting(v) ==
  /\ stage[v] = "zero"
  /\ experiment_start_time[v] = None
  /\ MustReport(v, "configured")
  /\ Report(v, "zero", "configured")

LoadFails(v) ==
  /\ v \in MayFail
  /\ stage[v] \in {"negative", "zero"}
  /\ Report(v, "exited", "failed")

\* The updater's poll, or get_events itself, finds a start time.
Learn(v) ==
  /\ stage[v] \in {"negative", "zero"}
  /\ call[v] = "idle"
  /\ experiment_start_time[v] = None
  /\ experiment_start_times # <<>>
  /\ experiment_start_time' =
       [experiment_start_time EXCEPT ![v] = FirstStart]
  /\ UNCHANGED <<server, putting, stage, call, target, state, faults, reached>>

-------------------------------------------------------------------------------
(* set_state, one step per access to the server.                           *)

StateMark(v) ==
  /\ call[v] = "mark"
  /\ not_ready_vmms' = NotReadyAfter(v, target[v])
  /\ reached' = IF target[v] = "configured" THEN reached \cup {v} ELSE reached
  /\ call' = [call EXCEPT ![v] = "write"]
  /\ UNCHANGED <<vm_mappings, experiment_start_times, putting, stage, target,
                 state, experiment_start_time, faults>>

\* The mapping is written, unless it is gone: then the client gets None, which
\* set_vm_state turns into a RuntimeError, and the handler keeps its state.
StateWrite(v) ==
  /\ call[v] = "write"
  /\ IF Known(v)
       THEN /\ vm_mappings' = [vm_mappings EXCEPT ![v] = target[v]]
            /\ state' = [state EXCEPT ![v] = target[v]]
            /\ call' = [call EXCEPT ![v] =
                 IF target[v] = "configured" /\ experiment_start_time[v] = None
                   THEN "count" ELSE "idle"]
       ELSE /\ call' = [call EXCEPT ![v] = "idle"]
            /\ UNCHANGED <<vm_mappings, state>>
  /\ UNCHANGED <<not_ready_vmms, experiment_start_times, putting, stage, target,
                 experiment_start_time, faults, reached>>

Count(v) ==
  /\ call[v] = "count"
  /\ call' = [call EXCEPT ![v] = IF not_ready_vmms = {} THEN "get" ELSE "idle"]
  /\ UNCHANGED <<server, putting, stage, target, state, experiment_start_time,
                 faults, reached>>

GetStart(v) ==
  /\ call[v] = "get"
  /\ call' = [call EXCEPT ![v] =
       IF experiment_start_times = <<>> THEN "append" ELSE "idle"]
  /\ UNCHANGED <<server, putting, stage, target, state, experiment_start_time,
                 faults, reached>>

AppendStart(v) ==
  /\ call[v] = "append"
  /\ experiment_start_times' = Proposed(v)
  /\ call' = [call EXCEPT ![v] = "idle"]
  /\ UNCHANGED <<vm_mappings, not_ready_vmms, putting, stage, target, state,
                 experiment_start_time, faults, reached>>

-------------------------------------------------------------------------------
(* Lost calls.                                                             *)

Fault == faults < MaxFaults /\ faults' = faults + 1

\* SetVMStateByUUID never arrives: set_state returns with its state unchanged.
LoseSetState(v) ==
  /\ Fault
  /\ call[v] = "mark"
  /\ call' = [call EXCEPT ![v] = "idle"]
  /\ UNCHANGED <<server, putting, stage, target, state, experiment_start_time, reached>>

\* SetVMStateByUUID is carried out and its answer lost.
LoseAnswer(v) ==
  /\ Fault
  /\ call[v] = "write"
  /\ Known(v)
  /\ vm_mappings' = [vm_mappings EXCEPT ![v] = target[v]]
  /\ call' = [call EXCEPT ![v] = "idle"]
  /\ UNCHANGED <<not_ready_vmms, experiment_start_times, putting, stage, target,
                 state, experiment_start_time, reached>>

\* The client does not catch an error of CountVMMappingsNotReady: it ends the
\* main thread, which run() logs.
LoseCount(v) ==
  /\ Fault
  /\ call[v] = "count"
  /\ stage' = [stage EXCEPT ![v] = "exited"]
  /\ call' = [call EXCEPT ![v] = "idle"]
  /\ UNCHANGED <<server, putting, target, state, experiment_start_time, reached>>

\* No answer from GetExperimentStartTime reads as None: a time is added. When
\* the client cannot even be opened set_state gives the addition up.
LoseGetStart(v) ==
  /\ Fault
  /\ call[v] = "get"
  /\ \E next \in {"append", "idle"} : call' = [call EXCEPT ![v] = next]
  /\ UNCHANGED <<server, putting, stage, target, state, experiment_start_time, reached>>

LoseAppend(v) ==
  /\ Fault
  /\ call[v] = "append"
  /\ call' = [call EXCEPT ![v] = "idle"]
  /\ UNCHANGED <<server, putting, stage, target, state, experiment_start_time, reached>>

-------------------------------------------------------------------------------
Register(v) == PutMark(v) \/ PutWrite(v)
ServerCall(v) ==
  StateMark(v) \/ StateWrite(v) \/ Count(v) \/ GetStart(v) \/ AppendStart(v)
Handle(v) == Connected(v) \/ NegativeDone(v) \/ Learn(v) \/ ServerCall(v)
Progress(v) == Register(v) \/ Launch(v, VM) \/ Handle(v)
Lose(v) ==
  \/ LoseSetState(v) \/ LoseAnswer(v) \/ LoseCount(v)
  \/ LoseGetStart(v) \/ LoseAppend(v)

Other(v) == StillWaiting(v) \/ LoadFails(v) \/ Lose(v)

Next == \E v \in VM : Progress(v) \/ Other(v)

Spec == Init /\ [][Next]_vars

\* Control registers and launches, negative time ends, the updater polls and
\* the server answers; nothing makes a waiting handler retry.
FairSpec == Spec /\ \A v \in VM : WF_vars(Progress(v))

-------------------------------------------------------------------------------
(* Properties.                                                             *)

TypeOK ==
  /\ vm_mappings \in [VM -> VMState \cup {"absent"}]
  /\ not_ready_vmms \subseteq VM
  /\ experiment_start_times \in Seq(VM)
  /\ putting \in VM \cup {None}
  /\ stage \in [VM -> Stage]
  /\ call \in [VM -> Call]
  /\ target \in [VM -> {"configuring", "configured", "failed"}]
  /\ state \in [VM -> VMState \cup {"none"}]
  /\ experiment_start_time \in [VM -> VM \cup {None}]
  /\ faults \in 0..MaxFaults
  /\ reached \subseteq VM

\* A start time exists only once every managed VM has reported itself
\* configured, whatever the interleaving of the reports, the counts and the
\* unlocked get-then-append of the start time, and whichever calls are lost.
StartOnlyWhenAllReached ==
  experiment_start_times # <<>> => Managed \subseteq reached

\* Every VM goes by one start time, though several VMs may each count zero and
\* append their own.
OneStartTime ==
  \A v \in VM : experiment_start_time[v] # None =>
    /\ experiment_start_times # <<>>
    /\ experiment_start_time[v] = Head(experiment_start_times)

\* The start time the server answers with never changes once there is one.
StartIsFinal ==
  [][experiment_start_times # <<>> =>
       /\ experiment_start_times' # <<>>
       /\ Head(experiment_start_times') = Head(experiment_start_times)]_vars

\* The not-ready set and the mapping's states, kept apart by the server, agree
\* about every VM no call is working on.
NotReadyMatchesMapping ==
  \A v \in VM : call[v] # "write" /\ putting # v =>
    (v \in not_ready_vmms <=> vm_mappings[v] \in VMState \ ready_states)

\* A VM that was recorded as failed is not recorded as anything else again, and
\* a configured one only as failed, even when the answer to the report was lost.
StatesOnlyAdvance ==
  [][\A v \in VM :
       /\ vm_mappings[v] = "failed" => vm_mappings'[v] = "failed"
       /\ vm_mappings[v] = "configured" => vm_mappings'[v] \in {"configured", "failed"}]_vars

\* The barrier opens and every handler learns of it, unless a call is lost or a
\* VM fails on the way: no order of the steps alone keeps anybody waiting.
EveryVMStarts ==
  \/ \A v \in Managed : <>(experiment_start_time[v] # None)
  \/ <>(faults > 0 \/ \E v \in Managed : stage[v] = "exited")

Barrier == INSTANCE StartBarrier WITH
  arrived <- reached,
  decided <- IF experiment_start_times = <<>> THEN None ELSE Head(experiment_start_times),
  learned <- [v \in Managed |-> experiment_start_time[v]]

\* The server and the handlers implement the barrier they promise.
ImplementsBarrier == Barrier!BarrierSpec
===============================================================================
