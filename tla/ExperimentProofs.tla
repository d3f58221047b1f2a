---------------------------- MODULE ExperimentProofs ----------------------------
(***************************************************************************)
(* Theorems about the start of an experiment (ExperimentBarrier), for any  *)
(* set of VMs and any number of lost calls, and about experiments one      *)
(* after the other (ExperimentLifecycle), for any number of them.          *)
(***************************************************************************)
EXTENDS ExperimentLifecycle, TLAPS

\* A managed VM is counted as not ready from its registration until it reports
\* itself configured: no handler takes it out of the set before.
CountedUntilReached ==
  \A v \in Managed : Known(v) \/ putting = v => v \in not_ready_vmms \cup reached

\* Handlers run only for managed VMs, and only when every VM is registered.
LaunchedAfterRegistration ==
  \A v \in VM : stage[v] # "off" => v \in Managed /\ \A u \in VM : Known(u)

\* A handler calls the server only after it was launched.
CallsAfterLaunch ==
  \A v \in VM : call[v] # "idle" => stage[v] # "off"

\* A count that was found to be zero still says so after the server has moved on.
CountStaysTrue ==
  \A v \in VM : call[v] \in {"get", "append"} => Managed \subseteq reached

OnlyManagedReach == reached \subseteq Managed

BarrierInv ==
  /\ TypeOK
  /\ CountedUntilReached
  /\ LaunchedAfterRegistration
  /\ CallsAfterLaunch
  /\ CountStaysTrue
  /\ OnlyManagedReach
  /\ StartOnlyWhenAllReached
  /\ OneStartTime

\* What a handler reports is fixed by its stage, and its entry in the mapping is
\* never ahead of its stage.
ReportFitsStage ==
  \A v \in VM : call[v] \in {"mark", "write"} =>
    target[v] = CASE stage[v] = "negative" -> "configuring"
                  [] stage[v] = "zero"     -> "configured"
                  [] stage[v] = "exited"   -> "failed"
                  [] OTHER                 -> "none"

MappingFitsStage ==
  \A v \in VM :
    /\ vm_mappings[v] = "configured" => stage[v] \in {"zero", "exited"}
    /\ vm_mappings[v] = "failed" => stage[v] = "exited" /\ call[v] = "idle"
    /\ putting = v => vm_mappings[v] = "absent"

\* Between the two halves of a report, or of a registration, the not-ready set
\* already holds what the mapping is about to say.
MarkMatchesReport ==
  \A v \in VM :
    /\ call[v] = "write" => (v \in not_ready_vmms <=> target[v] \notin ready_states)
    /\ putting = v => (v \in not_ready_vmms <=> InitialState(v) \notin ready_states)

StateInv ==
  /\ ReportFitsStage
  /\ MappingFitsStage
  /\ MarkMatchesReport
  /\ NotReadyMatchesMapping

-------------------------------------------------------------------------------
(* Type correctness.                                                       *)

\* The first states have the types.
LEMMA TypeCorrectInit == Init => TypeOK
  BY FaultAssumption, NoneAssumption DEF Init, TypeOK, VMState, Stage, Call

\* Each step keeps them.
LEMMA TypeCorrectStep == TypeOK /\ [Next]_vars => TypeOK'
<1> USE VMAssumption, FaultAssumption, NoneAssumption
    DEF Managed, VMState, Stage, Call, TypeOK
<1> SUFFICES ASSUME TypeOK, [Next]_vars
             PROVE  TypeOK'
  OBVIOUS
<1>1. ASSUME NEW v \in VM, Register(v)
      PROVE  TypeOK'
  BY <1>1 DEF Register, PutMark, PutWrite, NotReadyAfter, InitialState, handler
<1>2. ASSUME NEW v \in VM, Launch(v, VM)
      PROVE  TypeOK'
  BY <1>2 DEF Launch, RegisteredWith, server
<1>3. ASSUME NEW v \in VM, Connected(v) \/ NegativeDone(v) \/ StillWaiting(v)
                              \/ LoadFails(v)
      PROVE  TypeOK'
  BY <1>3 DEF Connected, NegativeDone, StillWaiting, LoadFails, Report, SetState,
              MustReport, server
<1>4. ASSUME NEW v \in VM, Learn(v)
      PROVE  TypeOK'
  BY <1>4 DEF Learn, FirstStart, server
<1>5. ASSUME NEW v \in VM, StateMark(v) \/ StateWrite(v)
      PROVE  TypeOK'
  BY <1>5 DEF StateMark, StateWrite, Known, NotReadyAfter
<1>6. ASSUME NEW v \in VM, Count(v) \/ GetStart(v)
      PROVE  TypeOK'
  BY <1>6 DEF Count, GetStart, server
<1>7. ASSUME NEW v \in VM, AppendStart(v)
      PROVE  TypeOK'
  BY <1>7 DEF AppendStart, Proposed
<1>8. ASSUME NEW v \in VM, Lose(v)
      PROVE  TypeOK'
  BY <1>8 DEF Lose, LoseSetState, LoseAnswer, LoseCount, LoseGetStart, LoseAppend,
              Known, Fault, server
<1>9. CASE UNCHANGED vars
  BY <1>9 DEF vars, server, handler
<1> QED
  BY <1>1, <1>2, <1>3, <1>4, <1>5, <1>6, <1>7, <1>8, <1>9
     DEF Next, Progress, Other, Handle, ServerCall

\* The variables keep their types: states, stages and calls are the code's, and
\* no more calls are lost than MaxFaults.
THEOREM TypeCorrect == Spec => []TypeOK
  BY TypeCorrectInit, TypeCorrectStep, PTL DEF Spec

-------------------------------------------------------------------------------
(* The barrier.                                                            *)

\* Nothing is registered, launched or called at first.
LEMMA BarrierInvInit == Init => BarrierInv
<1> SUFFICES ASSUME Init
             PROVE  BarrierInv
  OBVIOUS
<1>1. TypeOK
  BY TypeCorrectInit
<1> QED
  BY <1>1, NoneAssumption
     DEF Init, BarrierInv, CountedUntilReached, LaunchedAfterRegistration,
         CallsAfterLaunch, CountStaysTrue, OnlyManagedReach, Known, Managed,
         StartOnlyWhenAllReached, OneStartTime

\* Each step keeps every part of the invariant. A count of zero means that no
\* registered VM is left in the set, and a handler only counts when all VMs are
\* registered, so every managed VM has reached time 0 by then.
LEMMA BarrierInvStep == BarrierInv /\ [Next]_vars => BarrierInv'
<1> SUFFICES ASSUME BarrierInv, [Next]_vars
             PROVE  BarrierInv'
  OBVIOUS
<1> USE VMAssumption, NoneAssumption
<1>0. TypeOK'
  BY TypeCorrectStep DEF BarrierInv
<1> USE <1>0
        DEF BarrierInv, CountedUntilReached, LaunchedAfterRegistration,
            CallsAfterLaunch, CountStaysTrue, OnlyManagedReach, Known, Managed,
            StartOnlyWhenAllReached, OneStartTime, TypeOK, Stage, Call
<1>1. ASSUME NEW v \in VM, Register(v)
      PROVE  BarrierInv'
  BY <1>1 DEF Register, PutMark, PutWrite, NotReadyAfter, InitialState, ready_states,
              handler, VMState
<1>2. ASSUME NEW v \in VM, Launch(v, VM)
      PROVE  BarrierInv'
  BY <1>2 DEF Launch, RegisteredWith, server
<1>3. ASSUME NEW v \in VM, Connected(v) \/ NegativeDone(v) \/ StillWaiting(v)
                              \/ LoadFails(v)
      PROVE  BarrierInv'
  BY <1>3 DEF Connected, NegativeDone, StillWaiting, LoadFails, Report, SetState, server
<1>4. ASSUME NEW v \in VM, Learn(v)
      PROVE  BarrierInv'
  BY <1>4 DEF Learn, FirstStart, server
<1>5. ASSUME NEW v \in VM, StateMark(v)
      PROVE  BarrierInv'
  BY <1>5 DEF StateMark, NotReadyAfter, ready_states
<1>6. ASSUME NEW v \in VM, StateWrite(v)
      PROVE  BarrierInv'
  BY <1>6 DEF StateWrite, Known
<1>7. ASSUME NEW v \in VM, Count(v)
      PROVE  BarrierInv'
  BY <1>7 DEF Count, server
<1>8. ASSUME NEW v \in VM, GetStart(v)
      PROVE  BarrierInv'
  BY <1>8 DEF GetStart, server
<1>9. ASSUME NEW v \in VM, AppendStart(v)
      PROVE  BarrierInv'
  BY <1>9 DEF AppendStart, Proposed
<1>10. ASSUME NEW v \in VM, Lose(v)
       PROVE  BarrierInv'
  BY <1>10 DEF Lose, LoseSetState, LoseAnswer, LoseCount, LoseGetStart, LoseAppend,
               Fault, server
<1>11. CASE UNCHANGED vars
  BY <1>11 DEF vars, server, handler
<1> QED
  BY <1>1, <1>2, <1>3, <1>4, <1>5, <1>6, <1>7, <1>8, <1>9, <1>10, <1>11
     DEF Next, Progress, Other, Handle, ServerCall

\* So the invariant holds in every reachable state.
LEMMA BarrierInvariant == Spec => []BarrierInv
  BY BarrierInvInit, BarrierInvStep, PTL DEF Spec

\* No start time is proposed before every managed VM has reported itself
\* configured, whatever the interleaving and whichever calls are lost.
THEOREM BarrierSafe == Spec => []StartOnlyWhenAllReached
<1>1. BarrierInv => StartOnlyWhenAllReached
  BY DEF BarrierInv
<1> QED
  BY <1>1, BarrierInvariant, PTL

\* All VMs go by the first proposal, however many are made.
THEOREM OneStart == Spec => []OneStartTime
<1>1. BarrierInv => OneStartTime
  BY DEF BarrierInv
<1> QED
  BY <1>1, BarrierInvariant, PTL

-------------------------------------------------------------------------------
(* The start time is final.                                                *)

\* Appending to a sequence that is not empty leaves its head.
LEMMA HeadOfAppend ==
  ASSUME NEW S, NEW s \in Seq(S), NEW x \in S, s # <<>>
  PROVE  Append(s, x) # <<>> /\ Head(Append(s, x)) = Head(s)
  OBVIOUS

\* Only AppendStart changes the proposals, and it leaves the first one first.
LEMMA StartsOnlyGrow ==
  ASSUME TypeOK, [Next]_vars
  PROVE  \/ UNCHANGED experiment_start_times
         \/ \E v \in VM : experiment_start_times' = Append(experiment_start_times, v)
<1> USE DEF server
<1>1. ASSUME NEW v \in VM, Progress(v)
      PROVE  \/ UNCHANGED experiment_start_times
             \/ experiment_start_times' = Append(experiment_start_times, v)
  BY <1>1 DEF Progress, Register, PutMark, PutWrite, Launch, Handle, Connected,
              NegativeDone, Report, Learn, ServerCall, StateMark, StateWrite, Count,
              GetStart, AppendStart, Proposed
<1>2. ASSUME NEW v \in VM, Other(v)
      PROVE  UNCHANGED experiment_start_times
  BY <1>2 DEF Other, StillWaiting, LoadFails, Report, Lose, LoseSetState, LoseAnswer,
              LoseCount, LoseGetStart, LoseAppend
<1>3. CASE UNCHANGED vars
  BY <1>3 DEF vars
<1> QED
  BY <1>1, <1>2, <1>3 DEF Next

\* The start time handlers are given never changes once there is one.
THEOREM StartTimeIsFinal == Spec => StartIsFinal
<1>1. ASSUME TypeOK, [Next]_vars, experiment_start_times # <<>>
      PROVE  /\ experiment_start_times' # <<>>
             /\ Head(experiment_start_times') = Head(experiment_start_times)
  BY SMTT(30), <1>1, StartsOnlyGrow, HeadOfAppend DEF TypeOK
<1> QED
  BY <1>1, TypeCorrect, PTL DEF Spec, StartIsFinal

-------------------------------------------------------------------------------
(* The VM states.                                                          *)

\* The first states satisfy it: no VM is registered and no handler runs.
LEMMA StateInvInit == Init => StateInv
  BY NoneAssumption
     DEF Init, StateInv, ReportFitsStage, MappingFitsStage, MarkMatchesReport,
         NotReadyMatchesMapping, VMState, ready_states

\* Each step keeps it. A report's two halves find the same target, and no other
\* handler touches the VM's own entries between them.
LEMMA StateInvStep == BarrierInv /\ StateInv /\ [Next]_vars => StateInv'
<1> SUFFICES ASSUME BarrierInv, StateInv, [Next]_vars
             PROVE  StateInv'
  OBVIOUS
<1> USE VMAssumption, NoneAssumption
        DEF StateInv, ReportFitsStage, MappingFitsStage, MarkMatchesReport,
            NotReadyMatchesMapping, BarrierInv, TypeOK, LaunchedAfterRegistration,
            CallsAfterLaunch, Known, Managed, Stage, Call, VMState, ready_states,
            InitialState
<1>1. ASSUME NEW v \in VM, Register(v)
      PROVE  StateInv'
  BY <1>1 DEF Register, PutMark, PutWrite, NotReadyAfter, handler
<1>2. ASSUME NEW v \in VM, Launch(v, VM)
      PROVE  StateInv'
  BY <1>2 DEF Launch, RegisteredWith, server
<1>3. ASSUME NEW v \in VM, Connected(v) \/ NegativeDone(v) \/ StillWaiting(v)
                              \/ LoadFails(v)
      PROVE  StateInv'
  BY <1>3 DEF Connected, NegativeDone, StillWaiting, LoadFails, Report, SetState, server
<1>4. ASSUME NEW v \in VM, Learn(v)
      PROVE  StateInv'
  BY <1>4 DEF Learn, FirstStart, server
<1>5. ASSUME NEW v \in VM, StateMark(v)
      PROVE  StateInv'
  BY <1>5 DEF StateMark, NotReadyAfter
<1>6. ASSUME NEW v \in VM, StateWrite(v)
      PROVE  StateInv'
  BY <1>6 DEF StateWrite, Known
<1>7. ASSUME NEW v \in VM, Count(v) \/ GetStart(v) \/ AppendStart(v)
      PROVE  StateInv'
  BY <1>7 DEF Count, GetStart, AppendStart, Proposed, server
<1>8. ASSUME NEW v \in VM, Lose(v)
      PROVE  StateInv'
  BY <1>8 DEF Lose, LoseSetState, LoseAnswer, LoseCount, LoseGetStart, LoseAppend,
              Known, Fault, server
<1>9. CASE UNCHANGED vars
  BY <1>9 DEF vars, server, handler
<1> QED
  BY <1>1, <1>2, <1>3, <1>4, <1>5, <1>6, <1>7, <1>8, <1>9
     DEF Next, Progress, Other, Handle, ServerCall

\* So both invariants hold in every reachable state.
LEMMA StateInvariant == Spec => [](BarrierInv /\ StateInv)
  BY BarrierInvInit, BarrierInvStep, StateInvInit, StateInvStep, PTL DEF Spec

\* The server's two records of a VM agree whenever no call is working on it.
THEOREM RecordsAgree == Spec => []NotReadyMatchesMapping
<1>1. StateInv => NotReadyMatchesMapping
  BY DEF StateInv
<1> QED
  BY <1>1, StateInvariant, PTL

\* A VM's recorded state never falls back from configured, and never leaves failed.
THEOREM StatesAdvance == Spec => StatesOnlyAdvance
<1> DEFINE Advance == \A v \in VM :
      /\ vm_mappings[v] = "failed" => vm_mappings'[v] = "failed"
      /\ vm_mappings[v] = "configured" => vm_mappings'[v] \in {"configured", "failed"}
<1>1. ASSUME BarrierInv, StateInv, [Next]_vars
      PROVE  Advance
  <2> USE <1>1 DEF BarrierInv, TypeOK, StateInv, ReportFitsStage, MappingFitsStage
  <2>1. CASE UNCHANGED vm_mappings
    BY <2>1
  <2>2. ASSUME NEW v \in VM, PutWrite(v)
        PROVE  Advance
    BY <2>2 DEF PutWrite
  <2>3. ASSUME NEW v \in VM, StateWrite(v) \/ LoseAnswer(v)
        PROVE  Advance
    BY <2>3 DEF StateWrite, LoseAnswer
  <2> QED
    BY <2>1, <2>2, <2>3
       DEF Next, Progress, Register, PutMark, Launch, Handle, Connected, NegativeDone,
           Report, Learn, ServerCall, StateMark, Count, GetStart, AppendStart,
           Other, StillWaiting, LoadFails, Lose, LoseSetState, LoseCount,
           LoseGetStart, LoseAppend, vars, server, handler
<1>2. QED
  BY <1>1, StateInvariant, PTL DEF Spec, StatesOnlyAdvance

-------------------------------------------------------------------------------
(* The refinement.                                                         *)

\* The server and the handlers start as the abstract barrier does.
LEMMA RefinesInit == Init => Barrier!BarrierInit
  BY DEF Init, Barrier!BarrierInit, Managed

\* Each step is a step of the abstract barrier or leaves it alone: a handler
\* arrives with the first half of its report, decides with the first proposal,
\* and learns when it is told.
LEMMA RefinesStep ==
  BarrierInv /\ StateInv /\ [Next]_vars => [Barrier!BarrierNext]_(Barrier!barrierVars)
<1> SUFFICES ASSUME BarrierInv, StateInv, [Next]_vars
             PROVE  Barrier!BarrierNext \/ UNCHANGED Barrier!barrierVars
  OBVIOUS
<1> USE NoneAssumption DEF BarrierInv, TypeOK, Managed
<1>1. ASSUME NEW v \in VM, StateMark(v)
      PROVE  Barrier!BarrierNext \/ UNCHANGED Barrier!barrierVars
  BY <1>1 DEF StateMark, CallsAfterLaunch, LaunchedAfterRegistration,
              Barrier!BarrierNext, Barrier!Arrive, Barrier!barrierVars
<1>2. ASSUME NEW v \in VM, AppendStart(v)
      PROVE  Barrier!BarrierNext \/ UNCHANGED Barrier!barrierVars
  <2>1. CASE experiment_start_times = <<>>
    BY <1>2, <2>1 DEF AppendStart, Proposed, CallsAfterLaunch, LaunchedAfterRegistration,
         CountStaysTrue, OnlyManagedReach, Barrier!BarrierNext, Barrier!Decide
  <2>2. CASE experiment_start_times # <<>>
    BY <1>2, <2>2, HeadOfAppend DEF AppendStart, Proposed, Barrier!barrierVars
  <2> QED
    BY <2>1, <2>2
<1>3. ASSUME NEW v \in VM, Learn(v)
      PROVE  Barrier!BarrierNext \/ UNCHANGED Barrier!barrierVars
  BY <1>3 DEF Learn, FirstStart, server, LaunchedAfterRegistration, Barrier!BarrierNext,
              Barrier!LearnStart, Barrier!barrierVars
<1>4. CASE UNCHANGED <<experiment_start_times, experiment_start_time, reached>>
  BY <1>4 DEF Barrier!barrierVars
<1> QED
  BY <1>1, <1>2, <1>3, <1>4
     DEF Next, Progress, Register, PutMark, PutWrite, Launch, Handle, Connected,
         NegativeDone, Report, ServerCall, StateWrite, Count, GetStart,
         Other, StillWaiting, LoadFails, Lose, LoseSetState, LoseAnswer, LoseCount,
         LoseGetStart, LoseAppend, vars, server, handler

\* The server and the handlers implement the barrier they promise.
THEOREM Refinement == Spec => ImplementsBarrier
  BY RefinesInit, RefinesStep, StateInvariant, PTL
     DEF Spec, ImplementsBarrier, Barrier!BarrierSpec

-----------------------------------------------------------------------------
(* What "firewheel stop" leaves behind, whatever the handlers that are not  *)
(* killed yet still call.                                                  *)

\* The property survives the handlers because they only write what is there,
\* and registration because stop waits for the call under way and lets none
\* begin until the next experiment.
StopInv ==
  /\ vm_mappings \in [VM -> VMState \cup {"absent"}]
  /\ target \in [VM -> VMState]
  /\ putting # None => putting \in Current /\ stopping = "no"
  /\ stopping # "no" => \A v \in VM : vm_mappings[v] = "absent"

LEMMA LifecycleInitInv == LifecycleInit => StopInv /\ OldMappingsGone
  BY DEF LifecycleInit, Init, StopInv, OldMappingsGone, VMState

\* The mapping of VM v is written, over one that is there or as registered.
LEMMA WriteKeeps ==
  ASSUME StopInv, OldMappingsGone, NEW v \in VM, NEW s \in VMState,
         vm_mappings' = [vm_mappings EXCEPT ![v] = s],
         Known(v) \/ putting = v,
         putting' = putting \/ putting' = None,
         target' = target, UNCHANGED <<experiment, stopping>>
  PROVE  StopInv' /\ OldMappingsGone'
<1>1. v \in Current /\ stopping = "no"
  BY NoneAssumption DEF StopInv, OldMappingsGone, Known
<1>. QED BY <1>1 DEF StopInv, OldMappingsGone, Current

\* No mapping is written and nothing is registered.
LEMMA NoWriteKeeps ==
  ASSUME StopInv, OldMappingsGone,
         UNCHANGED <<vm_mappings, putting, experiment, stopping>>,
         target' \in [VM -> VMState]
  PROVE  StopInv' /\ OldMappingsGone'
  BY DEF StopInv, OldMappingsGone, Current

LEMMA RunStepKeeps ==
  ASSUME StopInv, OldMappingsGone, NEW v \in VM, RunStep(v)
  PROVE  StopInv' /\ OldMappingsGone'
<1>. UNCHANGED <<experiment, stopping>>
  BY DEF RunStep
<1>. USE DEF StopInv
<1>1. CASE PutMark(v) /\ stopping = "no" /\ v \in Current
  BY <1>1 DEF PutMark, OldMappingsGone, Current, handler
<1>2. CASE PutWrite(v)
  BY <1>2, WriteKeeps DEF PutWrite, InitialState, VMState, handler
<1>3. CASE StateWrite(v) \/ LoseAnswer(v)
  <2>1. UNCHANGED <<putting, target>>
    BY <1>3 DEF StateWrite, LoseAnswer
  <2>2. CASE Known(v)
    <3>1. vm_mappings' = [vm_mappings EXCEPT ![v] = target[v]]
      BY <1>3, <2>2 DEF StateWrite, LoseAnswer
    <3>. QED BY <2>1, <2>2, <3>1, WriteKeeps
  <2>3. CASE ~Known(v)
    <3>1. UNCHANGED vm_mappings
      BY <1>3, <2>3 DEF StateWrite, LoseAnswer
    <3>. QED BY <2>1, <3>1, NoWriteKeeps
  <2>. QED BY <2>2, <2>3
<1>4. CASE Connected(v) \/ NegativeDone(v) \/ StillWaiting(v) \/ LoadFails(v)
  <2>1. PICK s \in {"configuring", "configured", "failed"}, next \in Stage : Report(v, next, s)
    BY <1>4 DEF Connected, NegativeDone, StillWaiting, LoadFails, Stage
  <2>2. target' \in [VM -> VMState] /\ UNCHANGED <<vm_mappings, putting>>
    BY <2>1 DEF Report, SetState, server, VMState
  <2>. QED BY <2>2, NoWriteKeeps
<1>5. CASE \/ Launch(v, Current) \/ Learn(v)
           \/ StateMark(v) \/ Count(v) \/ GetStart(v) \/ AppendStart(v)
           \/ LoseSetState(v) \/ LoseCount(v) \/ LoseGetStart(v) \/ LoseAppend(v)
  <2>1. UNCHANGED <<vm_mappings, putting, target>>
    BY <1>5 DEF Launch, Learn, StateMark, Count, GetStart, AppendStart, LoseSetState, LoseCount,
                LoseGetStart, LoseAppend, server
  <2>. QED BY <2>1, NoWriteKeeps
<1>. QED
  BY <1>1, <1>2, <1>3, <1>4, <1>5 DEF RunStep, Register, Handle, ServerCall, Other, Lose

LEMMA StopKeeps ==
  ASSUME StopInv, OldMappingsGone,
         StopMappings \/ StopNotReady \/ StopStartTime \/ \E v \in VM : StopKill(v)
  PROVE  StopInv' /\ OldMappingsGone'
<1>. USE DEF StopInv, OldMappingsGone, Current, handler, server
<1>1. CASE StopMappings
  BY <1>1 DEF StopMappings
<1>2. CASE StopNotReady
  BY <1>2 DEF StopNotReady
<1>3. CASE StopStartTime
  BY <1>3 DEF StopStartTime
<1>4. ASSUME NEW v \in VM, StopKill(v) PROVE StopInv' /\ OldMappingsGone'
  BY <1>4 DEF StopKill
<1>. QED BY <1>1, <1>2, <1>3, <1>4

\* The next experiment begins with no mappings.
LEMMA StartNextKeeps ==
  ASSUME StopInv, OldMappingsGone, StartNext
  PROVE  StopInv' /\ OldMappingsGone'
<1>1. /\ putting = None /\ \A v \in VM : vm_mappings[v] = "absent"
      /\ UNCHANGED <<vm_mappings, putting, target>>
  BY DEF StartNext, StopInv, vars, server, handler
<1>. QED BY <1>1 DEF StopInv, OldMappingsGone

LEMMA LifecycleStepInv ==
  StopInv /\ OldMappingsGone /\ [LifecycleNext]_lifecycleVars => StopInv' /\ OldMappingsGone'
<1>. SUFFICES ASSUME StopInv, OldMappingsGone, [LifecycleNext]_lifecycleVars
     PROVE StopInv' /\ OldMappingsGone'
  OBVIOUS
<1>1. CASE UNCHANGED lifecycleVars
  BY <1>1 DEF lifecycleVars, vars, server, handler, StopInv, OldMappingsGone, Current
<1>. QED BY <1>1, RunStepKeeps, StopKeeps, StartNextKeeps DEF LifecycleNext

\* For any number of experiments: the server knows VMs of the current experiment
\* only, whatever the handlers of the last one still call (DestroyAllVMMappings,
\* SetVMStateByUUID).
THEOREM MappingsAreCurrent == LifecycleSpec => []OldMappingsGone
  BY LifecycleInitInv, LifecycleStepInv, PTL DEF LifecycleSpec

================================================================================
