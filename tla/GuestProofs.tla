------------------------------ MODULE GuestProofs ------------------------------
(***************************************************************************)
(* The guest agent for any number of resources and watchers, any number of *)
(* lost answers, and files of any length.                                  *)
(***************************************************************************)
EXTENDS GuestAgent, GuestFiles, TLAPS

-------------------------------------------------------------------------------
(* A file that is brought into the VM.                                     *)

FileTypes == written \in Nat /\ vm_file \in Nat

FileWhere ==
  {"open", "close"} \cap lost_at = {} =>
    /\ load = "fetch" => vm_file = Absent
    /\ load = "exists" => vm_file \in {Absent, Size}
    /\ load = "write" => vm_file = written /\ written < Size
    /\ load \in {"close ok", "done"} => vm_file = Size

FileInv == FileTypes /\ FileWhere

LEMMA FileInit == FilesInit => FileInv
  BY FilesAssumption DEF FilesInit, FileInv, FileTypes, FileWhere, Absent

LEMMA FileStep == FileInv /\ [FilesNext]_filesVars => FileInv'
<1>. SUFFICES ASSUME FileTypes, FileWhere, [FilesNext]_filesVars PROVE FileTypes' /\ FileWhere'
  BY DEF FileInv
<1>1. Size \in Nat /\ 0 < Size
  BY FilesAssumption
<1>2. CASE FetchFile
  BY <1>2 DEF FetchFile, FileTypes, FileWhere
<1>3. CASE FileExists
  BY <1>3 DEF FileExists, FileTypes, FileWhere, Absent
<1>9. CASE OpenStray
  BY <1>9 DEF OpenStray, Opened, FileTypes, FileWhere
<1>10. CASE LoadHangs
  BY <1>10 DEF LoadHangs, FileTypes, FileWhere
<1>4. CASE OpenFile
  <2>1. CASE Retry("open")
    BY <1>4, <2>1 DEF OpenFile, Retry, Opened, FileTypes, FileWhere
  <2>2. CASE ~Retry("open")
    <3>1. load' = "write" /\ vm_file' = 0 /\ written' = 0 /\ lost_at' = lost_at
      BY <1>4, <2>2 DEF OpenFile, Opened
    <3>. QED BY <1>1, <3>1 DEF FileTypes, FileWhere
  <2>. QED BY <2>1, <2>2
<1>5. CASE WriteChunk
  <2>1. \/ vm_file' = vm_file
        \/ vm_file' = vm_file + 1
    BY <1>5 DEF WriteChunk
  <2>2. \/ written' = written
        \/ written' = written + 1
    BY <1>5 DEF WriteChunk
  <2>3. FileTypes'
    BY <2>1, <2>2 DEF FileTypes
  <2>4. CASE load' \in {"close failed", "open stray"}
    BY <2>3, <2>4 DEF FileWhere
  <2>5. CASE load' \notin {"close failed", "open stray"}
    <3>1. /\ load = "write" /\ lost_at' = lost_at
          /\ vm_file' = vm_file + 1 /\ written' = written + 1
      BY <1>5, <2>5 DEF WriteChunk
    <3>2. load' = IF written' = Size THEN "close ok" ELSE "write"
      BY <1>5, <2>5 DEF WriteChunk
    <3>3. ASSUME {"open", "close"} \cap lost_at = {} PROVE vm_file = written /\ written < Size
      BY <3>1, <3>3 DEF FileWhere
    <3>4. ASSUME vm_file = written, written < Size
          PROVE  vm_file' = written' /\ (written' # Size => written' < Size)
      BY <1>1, <3>1, <3>4 DEF FileTypes
    <3>5. FileWhere'
      BY <3>1, <3>2, <3>3, <3>4 DEF FileWhere
    <3>. QED BY <2>3, <3>5
  <2>. QED BY <2>4, <2>5
<1>6. CASE CloseFile
  <2>1. CASE Retry("close")
    BY <1>6, <2>1 DEF CloseFile, Retry, FileTypes, FileWhere
  <2>2. CASE ~Retry("close")
    BY <1>6, <2>2 DEF CloseFile, FileTypes, FileWhere
  <2>. QED BY <2>1, <2>2
<1>7. CASE WrittenShort
  BY <1>7 DEF WrittenShort, FileTypes, FileWhere
<1>8. CASE \/ \E f \in File : WriteInVM(f) \/ OpenCopyFails(f)
           \/ Tick \/ Transfer \/ ReadFails \/ TransferHangs \/ UNCHANGED filesVars
  <2>1. UNCHANGED <<load, vm_file, written, lost_at>>
    BY <1>8 DEF WriteInVM, OpenCopyFails, Tick, Transfer, ReadFails, TransferHangs,
       LookForFiles, ListFiles, OpenCopy, ReadFirst, ReadLast, CloseCopy, ReadTime, Wake, filesVars, loadVars
  <2>. QED BY <2>1 DEF FileTypes, FileWhere
<1>. QED BY <1>2, <1>3, <1>4, <1>5, <1>6, <1>7, <1>8, <1>9, <1>10
     DEF FilesNext, Load

\* For a file of any length and any number of commands that fail: what is loaded is
\* whole (load_files_in_target), unless opening or closing it got no answer.
THEOREM FileIsWhole == FilesSpec => []LoadedIsWhole
<1>1. FileInv => LoadedIsWhole
  BY DEF FileInv, FileWhere, LoadedIsWhole
<1>. QED BY <1>1, FileInit, FileStep, PTL DEF FilesSpec

-------------------------------------------------------------------------------
(* As long as no answer came late and no pid was given again, an answer is *)
(* that to its command, and the steps are fewer.                           *)

InTime == mixed \subseteq {"exit"}

ExecFails(t) == ExecBreaks(t) \/ ExecBlocks(t)

\* What changes only where a thread is, and the connection.
Moves(t) ==
  \/ ExecRaises(t) \/ PolledRunning(t) \/ StatusFails(t) \/ Close(t) \/ Connect(t)
  \/ Interrupted(t) \/ ConnectFails(t)

Acts(t) == Exec(t) \/ ExecFails(t) \/ Moves(t) \/ Polled(t) \/ PollLost(t)

RunnerActs(r) ==
  \/ Start(r) \/ Log(r) \/ Write(r) \/ PrintOutput(r) \/ Stderr(r) \/ WriteLost(r)
  \/ TooShort(r)

Restarts == Shutdown \/ ShutdownFails \/ HandlerClose \/ HandlerConnect

StepInTime ==
  \/ \E t \in Thread : Acts(t)
  \/ \E r \in Runner : RunnerActs(r)
  \/ \E w \in Watcher : LookAgain(w)
  \/ \E p \in procs : Exit(p)
  \/ ResetCache \/ Restarts \/ UNCHANGED vars

Step == InTime' /\ stray = {} /\ stray' = {} /\ StepInTime

LEMMA CausesStay == [Next]_vars => mixed \subseteq mixed'
<1>. SUFFICES ASSUME [Next]_vars PROVE mixed \subseteq mixed'
  OBVIOUS
<1>. USE DEF ghosts
<1>1. ASSUME NEW t \in Thread, Run(t) PROVE mixed \subseteq mixed'
  <2>1. CASE Exec(t) \/ ExecStray(t) \/ ExecRaises(t) \/ PolledRunning(t) \/ StatusFails(t)
             \/ Close(t) \/ Connect(t) \/ Start(t) \/ Log(t) \/ Write(t)
    BY <2>1 DEF Exec, ExecStray, ExecRaises, PolledRunning, StatusFails, Close, Connect, Start,
       Log, Write
  <2>2. CASE Polled(t)
    BY <2>2 DEF Polled, Answered, StoreCaptured, Noting
  <2>3. CASE PollStray(t)
    <3>1. Noting \/ mixed' = mixed
      BY <2>3 DEF PollStray
    <3>. QED BY <3>1 DEF Noting
  <2>4. CASE PrintOutput(t)
    BY <2>4 DEF PrintOutput, Noting, StatusLost, Overdue, Tag
  <2>5. CASE Stderr(t)
    BY <2>5 DEF Stderr, Answered, StoreCaptured, Noting, StatusLost, Overdue, Tag
  <2>. QED BY <1>1, <2>1, <2>2, <2>3, <2>4, <2>5 DEF Run
<1>2. ASSUME NEW t \in Thread, Mishap(t) PROVE mixed \subseteq mixed'
  BY <1>2 DEF Mishap, ExecAgain, ExecBreaks, ExecBlocks, Interrupted, PollLost, StatusLost,
     ConnectFails, WriteLost, TooShort, Overdue, Tag
<1>3. ASSUME NEW w \in Watcher, LookAgain(w) PROVE mixed \subseteq mixed'
  BY <1>3 DEF LookAgain
<1>4. ASSUME NEW p \in procs, Exit(p) PROVE mixed \subseteq mixed'
  BY <1>4 DEF Exit
<1>5. CASE Handler \/ Idle \/ UNCHANGED vars
  BY <1>5 DEF Handler, ResetCache, Shutdown, ShutdownFails, HandlerClose, HandlerConnect, Idle,
     vars
<1>. QED BY <1>1, <1>2, <1>3, <1>4, <1>5 DEF Next

LEMMA InTimeStep ==
  ASSUME InTime => stray = {}, [Next]_vars, InTime' PROVE InTime /\ Step
<1>. USE DEF ghosts, socketVars
<1>1. InTime /\ stray = {} /\ "reply" \notin mixed' /\ "pid" \notin mixed'
  BY CausesStay DEF InTime
<1>2. ASSUME NEW t, StatusLost(t) PROVE stray' = {}
  BY <1>1, <1>2 DEF StatusLost, Overdue, Tag
<1>3. ASSUME NEW t \in Thread, Run(t) PROVE StepInTime /\ stray' = {}
  <2>1. ~ExecStray(t) /\ ~PollStray(t)
    BY <1>1 DEF ExecStray, PollStray
  <2>2. StepInTime
    BY <1>3, <2>1 DEF Run, StepInTime, Acts, Moves, RunnerActs
  <2>3. CASE Exec(t) \/ ExecRaises(t) \/ Polled(t) \/ PolledRunning(t) \/ StatusFails(t)
             \/ Start(t) \/ Log(t)
    <3>1. UNCHANGED socketVars
      BY <2>3 DEF Exec, ExecRaises, Polled, PolledRunning, StatusFails, Start, Log
    <3>. QED BY <1>1, <2>2, <3>1
  <2>4. CASE Close(t) \/ Connect(t)
    BY <1>1, <2>2, <2>4 DEF Close, Connect, CloseSocket, OpenSocket
  <2>5. CASE Write(t)
    BY <1>1, <2>2, <2>5 DEF Write
  <2>6. CASE PrintOutput(t)
    <3>1. StatusLost(t) \/ stray' = stray
      BY <2>6 DEF PrintOutput
    <3>. QED BY <1>1, <1>2, <2>2, <3>1
  <2>7. CASE Stderr(t)
    <3>1. StatusLost(t) \/ stray' = stray
      BY <2>7 DEF Stderr
    <3>. QED BY <1>1, <1>2, <2>2, <3>1
  <2>. QED BY <1>3, <2>1, <2>3, <2>4, <2>5, <2>6, <2>7 DEF Run
<1>4. ASSUME NEW t \in Thread, Mishap(t) PROVE StepInTime /\ stray' = {}
  <2>1. ~ExecAgain(t)
    BY <1>1 DEF ExecAgain, Tag
  <2>2. StepInTime
    BY <1>4, <2>1 DEF Mishap, StepInTime, Acts, Moves, ExecFails, RunnerActs
  <2>3. CASE PollLost(t)
    <3>1. StatusLost(t)
      BY <2>3 DEF PollLost
    <3>. QED BY <1>2, <2>2, <3>1
  <2>4. CASE ConnectFails(t)
    BY <1>1, <2>2, <2>4 DEF ConnectFails, Overdue, Tag
  <2>5. CASE WriteLost(t)
    BY <1>1, <2>2, <2>5 DEF WriteLost, Tag
  <2>6. CASE ExecBreaks(t) \/ ExecBlocks(t) \/ Interrupted(t) \/ TooShort(t)
    <3>1. UNCHANGED socketVars
      BY <2>6 DEF ExecBreaks, ExecBlocks, Interrupted, TooShort
    <3>. QED BY <1>1, <2>2, <3>1
  <2>. QED BY <1>4, <2>1, <2>3, <2>4, <2>5, <2>6 DEF Mishap
<1>5. ASSUME NEW w \in Watcher, LookAgain(w) PROVE StepInTime /\ stray' = {}
  BY <1>1, <1>5 DEF LookAgain, StepInTime
<1>6. ASSUME NEW p \in procs, Exit(p) PROVE StepInTime /\ stray' = {}
  BY <1>1, <1>6 DEF Exit, StepInTime
<1>7. ASSUME Handler \/ Idle \/ UNCHANGED vars PROVE StepInTime /\ stray' = {}
  <2>1. ASSUME Handler PROVE StepInTime
    BY <2>1 DEF Handler, StepInTime, Restarts
  <2>2. ASSUME Handler PROVE stray' = {}
    <3>1. CASE ResetCache
      BY <1>1, <3>1 DEF ResetCache
    <3>2. CASE Shutdown
      BY <3>2 DEF Shutdown
    <3>3. CASE ShutdownFails
      BY <1>1, <3>3 DEF ShutdownFails
    <3>4. CASE HandlerClose
      BY <1>1, <3>4 DEF HandlerClose, CloseSocket
    <3>5. CASE HandlerConnect
      BY <1>1, <3>5 DEF HandlerConnect, OpenSocket
    <3>. QED BY <2>2, <3>1, <3>2, <3>3, <3>4, <3>5 DEF Handler
  <2>3. Idle => UNCHANGED vars
    BY DEF Idle
  <2>4. ASSUME UNCHANGED vars PROVE StepInTime
    BY <2>4 DEF StepInTime
  <2>5. ASSUME UNCHANGED vars PROVE stray' = {}
    BY <1>1, <2>5 DEF vars
  <2>. QED BY <1>7, <2>1, <2>2, <2>3, <2>4, <2>5
<1>8. StepInTime /\ stray' = {}
  BY <1>3, <1>4, <1>5, <1>6, <1>7 DEF Next
<1>. QED BY <1>1, <1>8 DEF Step

\* A status that is lost changes nothing but the guest.
LEMMA StatusLostInTime ==
  ASSUME Step, NEW t, StatusLost(t)
  PROVE  procs' \subseteq procs /\ mixed' = mixed /\ lost' = lost + 1
  BY DEF Step, StatusLost, Reap, Overdue, Lose

-------------------------------------------------------------------------------
(* The types of the agent's state, and what each thread does.              *)

RunnerJobs == {"mkdir", "write", "chmod", "delete", "main", "check"}
Jobs == RunnerJobs \cup {"look"}

\* Where a runner is while it waits for what one process has told, or will tell.
Waits == {"poll", "print", "log"}

Process == [pid : Nat, boot : Nat, by : Thread, job : Jobs, ended : BOOLEAN, yes : BOOLEAN]

Entry == [pid : Nat, of : Process, out : BOOLEAN]

Numbers ==
  /\ boot \in Nat /\ next_pid \in Nat /\ next_pid >= 1 /\ lost \in Nat /\ reboots \in Nat
  /\ pid \in [Thread -> Nat] /\ runs \in [Thread -> Nat] /\ printed \in [Thread -> Nat]

DataTypes ==
  /\ procs \subseteq Process
  /\ \A p \in procs : p.job # "look" => p.by \in Runner
  /\ output_cache \subseteq Entry
  /\ reboot_file \subseteq Runner

\* What thread t may do, and for which job.
Allowed(t, where, what) ==
  IF t \in Watcher
    THEN what = "look"
         /\ where \in {"sleep", "exec", "poll", "close", "connect", "blocked", "failed"}
    ELSE /\ what \in RunnerJobs
         /\ where \in {"ready", "exec", "write", "close", "connect", "blocked", "stderr",
                       "done", "failed", "requeue", "poll", "print", "log"}
         /\ where = "write" => what = "write"
         /\ what = "write" => where \in {"write", "blocked", "failed"}
         /\ where = "print" => what = "main"
         /\ where = "stderr" => what = "delete"
         /\ where \in {"log", "requeue", "done"} => what \in {"main", "check"}

Places ==
  /\ DOMAIN pc = Thread /\ job \in [Thread -> Jobs]
  /\ handler \in {"join", "shutdown", "close", "connect"}
  /\ \A t \in Thread : Allowed(t, pc[t], job[t])
  /\ handler # "join" => Joined

Shape == Numbers /\ DataTypes /\ Places

LEMMA ShapeInit == Init => Shape
<1>. SUFFICES ASSUME Init PROVE Numbers /\ DataTypes /\ Places
  BY DEF Shape
<1>1. Numbers
  BY DEF Init, Numbers
<1>2. DataTypes
  BY DEF Init, DataTypes
<1>3. Places
  BY AgentAssumption DEF Init, Places, Allowed, Thread, Jobs, RunnerJobs, Joined
<1>. QED BY <1>1, <1>2, <1>3

\* A process that ends, and what it tells, in the records of the model.
LEMMA EndedProcess ==
  ASSUME NEW p \in Process, NEW yes \in BOOLEAN
  PROVE  LET q == [p EXCEPT !.ended = TRUE, !.yes = yes]
         IN  /\ q \in Process /\ q.pid = p.pid /\ q.boot = p.boot /\ q.by = p.by
             /\ q.job = p.job /\ q.ended = TRUE /\ q.yes = yes
  BY DEF Process

LEMMA StartedProcess ==
  ASSUME Shape, NEW t \in Thread
  PROVE  /\ Started(t, next_pid) \in Process
         /\ Started(t, next_pid).pid = next_pid /\ Started(t, next_pid).boot = boot
         /\ Started(t, next_pid).by = t /\ Started(t, next_pid).job = job[t]
         /\ Started(t, next_pid).ended = FALSE /\ Started(t, next_pid).yes = FALSE
  BY DEF Shape, Numbers, Places, Started, Process

LEMMA NewEntry ==
  ASSUME NEW n \in Nat, NEW p \in Process
  PROVE  LET e == [pid |-> n, of |-> p, out |-> TRUE]
         IN  /\ e \in Entry
             /\ e.pid = n /\ e.of = p /\ e.out = TRUE
  BY DEF Entry

LEMMA EmptiedEntry ==
  ASSUME NEW e \in Entry
  PROVE  /\ Emptied(e) \in Entry
         /\ Emptied(e).pid = e.pid /\ Emptied(e).of = e.of /\ Emptied(e).out = FALSE
  BY DEF Emptied, Entry

\* An entry that a status makes is that of a process which has exited.
LEMMA EntryMade ==
  ASSUME Shape, NEW t \in Thread, NEW e \in Entries(pid[t], Known(pid[t]))
  PROVE  \E p \in procs : /\ p.pid = pid[t] /\ p.ended
                          /\ e \in Entry /\ e.pid = pid[t] /\ e.of = p /\ e.out = TRUE
<1>1. PICK p \in procs : p.pid = pid[t] /\ p.ended /\ e = [pid |-> pid[t], of |-> p, out |-> TRUE]
  BY DEF Entries, Known
<1>2. pid[t] \in Nat /\ p \in Process
  BY DEF Shape, Numbers, DataTypes
<1>. QED BY <1>1, <1>2, NewEntry

\* The steps that start a process.
LEMMA Spawns ==
  ASSUME NEW t, Exec(t) \/ ExecFails(t)
  PROVE  /\ pc[t] = "exec" /\ UNCHANGED <<output_cache, boot, reboot_file, handler, mixed, reboots,
                                         mistaken>>
         /\ \/ UNCHANGED <<procs, next_pid, runs>>
            \/ /\ procs' = procs \cup {Started(t, next_pid)} /\ next_pid' = next_pid + 1
               /\ runs' = [runs EXCEPT ![t] = IF job[t] \in {"main", "look"} THEN @ + 1 ELSE @]
         /\ lost' = lost + 1 \/ (Exec(t) /\ lost' = lost)
         /\ Exec(t) \/ UNCHANGED <<pid, printed>>
  BY DEF Exec, ExecFails, ExecBreaks, ExecBlocks, SpawnNew, Spawn, GivenPid, Lose

\* The steps that only move a thread.
LEMMA OnlyMoves ==
  ASSUME Step, NEW t, Moves(t)
  PROVE  /\ UNCHANGED <<agentVars, output_cache, pid, reboot, handler, runs, reboots, printed,
                       mistaken, mixed>>
         /\ lost' = lost \/ lost' = lost + 1
<1>1. CASE ConnectFails(t)
  BY <1>1 DEF ConnectFails, Overdue, Lose, Step, threadVars
<1>2. CASE ~ConnectFails(t)
  BY <1>2 DEF Moves, ExecRaises, PolledRunning, StatusFails, Close, Connect, Interrupted, ghosts
<1>. QED BY <1>1, <1>2

\* The steps of the main thread after the cache is reset.
LEMMA Restarting ==
  ASSUME Restarts
  PROVE  /\ UNCHANGED <<reboot_file, output_cache, job, pid, runs, reboots, printed, mistaken, mixed>>
         /\ lost' = lost \/ lost' = lost + 1
         /\ handler # "join" /\ handler' # "shutdown"
         /\ \/ UNCHANGED <<boot, procs, next_pid>>
            \/ boot' = boot + 1 /\ procs' = {} /\ next_pid' = 1
         /\ \/ pc' = pc /\ handler' \in {"close", "connect"}
            \/ /\ pc' = [t \in Thread |-> IF pc[t] = "requeue" THEN "ready" ELSE pc[t]]
               /\ handler' = "join"
  BY DEF Restarts, Shutdown, ShutdownFails, HandlerClose, HandlerConnect, agentVars, threadVars,
     ghosts, Lose

\* How the numbers change, whatever the step.
LEMMA NumbersMove ==
  ASSUME Shape, Step
  PROVE  /\ \/ boot' = boot /\ (next_pid' = next_pid \/ next_pid' = next_pid + 1)
            \/ boot' = boot + 1 /\ next_pid' = 1
         /\ lost' = lost \/ lost' = lost + 1
         /\ reboots' = reboots \/ reboots' = reboots + 1
         /\ pid' = pid \/ \E t \in Thread : pid' = [pid EXCEPT ![t] = next_pid]
         /\ runs' = runs \/ \E t \in Thread : runs' = [runs EXCEPT ![t] = @ + 1]
         /\ \/ printed' = printed
            \/ \E t \in Thread : \/ printed' = [printed EXCEPT ![t] = 0]
                                 \/ printed' = [printed EXCEPT ![t] = @ + 1]
<1>. USE DEF agentVars, threadVars, ghosts
<1>0. runs \in [Thread -> Nat] /\ printed \in [Thread -> Nat]
  BY DEF Shape, Numbers
<1>1. CASE \E t \in Thread : Exec(t) \/ ExecFails(t)
  <2>1. PICK t \in Thread : Exec(t) \/ ExecFails(t)
    BY <1>1
  <2>2. runs' = runs \/ runs' = [runs EXCEPT ![t] = @ + 1]
    BY <1>0, <2>1, Spawns
  <2>3. Exec(t) => pid' = [pid EXCEPT ![t] = next_pid] /\ printed' = [printed EXCEPT ![t] = 0]
    BY DEF Exec, GivenPid
  <2>. QED BY <2>1, <2>2, <2>3, Spawns
<1>2. CASE \E t \in Thread : Moves(t)
  BY <1>2, OnlyMoves
<1>3. CASE \E t \in Thread : Polled(t) \/ PollLost(t)
  BY <1>3 DEF Polled, PollLost, StatusLost, Lose
<1>4. ASSUME NEW t \in Thread, Stream(t)
      PROVE  printed' = printed \/ printed' = [printed EXCEPT ![t] = @ + 1]
  BY <1>0, <1>4 DEF Stream
<1>5. ASSUME NEW r \in Runner, RunnerActs(r)
      PROVE  /\ UNCHANGED <<boot, next_pid, reboots, pid, runs>>
             /\ lost' = lost \/ lost' = lost + 1
  <2>1. CASE PrintOutput(r) \/ Stderr(r)
    BY <2>1 DEF PrintOutput, Stderr, StatusLost, Lose
  <2>2. CASE ~PrintOutput(r) /\ ~Stderr(r)
    BY <1>5, <2>2 DEF RunnerActs, Start, Log, Write, WriteLost, TooShort, Lose
  <2>. QED BY <2>1, <2>2
<1>6. ASSUME NEW r \in Runner, RunnerActs(r)
      PROVE  printed' = printed \/ printed' = [printed EXCEPT ![r] = @ + 1]
  <2>1. r \in Thread
    BY DEF Thread
  <2>2. CASE PrintOutput(r) \/ Log(r)
    BY <1>4, <2>1, <2>2 DEF PrintOutput, Log
  <2>3. CASE ~PrintOutput(r) /\ ~Log(r)
    BY <1>6, <2>3 DEF RunnerActs, Start, Write, Stderr, WriteLost, TooShort
  <2>. QED BY <2>2, <2>3
<1>7. CASE \E r \in Runner : RunnerActs(r)
  BY <1>5, <1>6, <1>7 DEF Thread
<1>8. CASE \/ \E w \in Watcher : LookAgain(w)
           \/ \E p \in procs : Exit(p)
           \/ ResetCache \/ UNCHANGED vars
  BY <1>8 DEF LookAgain, Exit, ResetCache, vars
<1>9. CASE Restarts
  BY <1>9, Restarting
<1>. QED BY <1>1, <1>2, <1>3, <1>7, <1>8, <1>9 DEF Step, StepInTime, Acts

LEMMA NumbersStep == Shape /\ Step => Numbers'
<1>. SUFFICES ASSUME Shape, Step PROVE Numbers'
  OBVIOUS
<1>1. Numbers
  BY DEF Shape
<1>. QED BY <1>1, NumbersMove DEF Numbers

LEMMA DataStep == Shape /\ Step => DataTypes'
<1>. SUFFICES ASSUME Shape, Step PROVE DataTypes'
  OBVIOUS
<1>. USE DEF agentVars, threadVars, ghosts
<1>0. DataTypes /\ Numbers
  BY DEF Shape
<1>1. ASSUME NEW t \in Thread, Exec(t) \/ ExecFails(t) PROVE DataTypes'
  <2>1. Allowed(t, pc[t], job[t])
    BY DEF Shape, Places
  <2>2. job[t] # "look" => t \in Runner
    BY <2>1 DEF Allowed, Thread
  <2>3. UNCHANGED <<output_cache, reboot_file>>
    BY <1>1, Spawns
  <2>4. procs' = procs \/ procs' = procs \cup {Started(t, next_pid)}
    BY <1>1, Spawns
  <2>5. CASE procs' = procs
    BY <1>0, <2>3, <2>5 DEF DataTypes
  <2>6. CASE procs' = procs \cup {Started(t, next_pid)}
    <3>. DEFINE new == Started(t, next_pid)
    <3>1. new \in Process /\ new.job = job[t] /\ new.by = t
      BY StartedProcess
    <3>. HIDE DEF new
    <3>2. procs' = procs \cup {new}
      BY <2>6 DEF new
    <3>. QED BY <1>0, <2>2, <2>3, <3>1, <3>2 DEF DataTypes
  <2>. QED BY <2>4, <2>5, <2>6
<1>2. ASSUME NEW t \in Thread, Moves(t) PROVE DataTypes'
  BY <1>0, <1>2, OnlyMoves DEF DataTypes
<1>3. ASSUME NEW t \in Thread, NEW e, Answered(t, e)
      PROVE  procs' \subseteq procs /\ output_cache' \subseteq Entry
  <2>1. CASE UNCHANGED <<procs, output_cache>>
    BY <1>0, <2>1 DEF DataTypes
  <2>2. CASE Reap(pid[t]) /\ StoreCaptured(pid[t])
    <3>1. Entries(pid[t], Known(pid[t])) \subseteq Entry
      BY EntryMade
    <3>. QED BY <1>0, <2>2, <3>1 DEF Reap, StoreCaptured, DataTypes
  <2>. QED BY <1>3, <2>1, <2>2 DEF Answered
<1>4. ASSUME NEW t \in Thread, Polled(t) PROVE DataTypes'
  <2>1. (\E e : Answered(t, e)) /\ reboot_file' = reboot_file
    BY <1>4 DEF Polled
  <2>. QED BY <1>0, <1>3, <2>1 DEF DataTypes
<1>5. ASSUME NEW t \in Thread, PollLost(t) PROVE DataTypes'
  BY <1>0, <1>5, StatusLostInTime DEF PollLost, DataTypes
<1>6. ASSUME NEW r \in Runner, Start(r) \/ Write(r) \/ WriteLost(r) \/ TooShort(r) PROVE DataTypes'
  BY <1>0, <1>6 DEF Start, Write, WriteLost, TooShort, DataTypes
<1>7. ASSUME NEW t \in Thread, Stream(t)
      PROVE  output_cache' \subseteq Entry
  BY <1>0, <1>7, EmptiedEntry DEF Stream, Cached, DataTypes
<1>8. ASSUME NEW r \in Runner, Log(r) PROVE DataTypes'
  BY <1>0, <1>7, <1>8 DEF Log, DataTypes, Thread
<1>9. ASSUME NEW r \in Runner, PrintOutput(r) PROVE DataTypes'
  <2>0. r \in Thread
    BY DEF Thread
  <2>1. procs' \subseteq procs /\ reboot_file' = reboot_file
    BY <1>9 DEF PrintOutput, StatusLost, Reap
  <2>2. \/ output_cache' = output_cache
        \/ Stream(r)
        \/ \E e \in Entries(pid[r], Known(pid[r])) :
             output_cache' = output_cache \cup {Emptied(e)}
    BY <1>9 DEF PrintOutput
  <2>3. ASSUME NEW e \in Entries(pid[r], Known(pid[r])) PROVE Emptied(e) \in Entry
    BY <2>0, EntryMade, EmptiedEntry
  <2>4. output_cache' \subseteq Entry
    BY <1>0, <1>7, <2>0, <2>2, <2>3 DEF DataTypes
  <2>. QED BY <1>0, <2>1, <2>4 DEF DataTypes
<1>10. ASSUME NEW r \in Runner, Stderr(r) PROVE DataTypes'
  <2>1. reboot_file' = reboot_file /\ r \in Thread
    BY <1>10 DEF Stderr, Thread
  <2>2. \/ \E e : Answered(r, e)
        \/ UNCHANGED <<procs, output_cache>>
        \/ StatusLost(r) /\ output_cache' = output_cache
    BY <1>10 DEF Stderr
  <2>. QED BY <1>0, <1>3, <2>1, <2>2, StatusLostInTime DEF DataTypes
<1>11. ASSUME NEW p \in procs, Exit(p) PROVE DataTypes'
  <2>1. PICK yes \in BOOLEAN :
          procs' = (procs \ {p}) \cup {[p EXCEPT !.ended = TRUE, !.yes = yes]}
    BY <1>11 DEF Exit
  <2>2. procs' \subseteq Process
    BY <1>0, <2>1, EndedProcess DEF DataTypes
  <2>3. reboot_file' \subseteq Runner
    <3>1. \/ reboot_file' = reboot_file \cup {p.by} /\ p.job = "main"
          \/ reboot_file' = reboot_file \ {p.by}
          \/ reboot_file' = reboot_file
      BY <1>11 DEF Exit
    <3>. QED BY <1>0, <3>1 DEF DataTypes
  <2>4. \A q \in procs' : q.job # "look" => q.by \in Runner
    <3>. DEFINE ended == [p EXCEPT !.ended = TRUE, !.yes = yes]
    <3>1. ended.by = p.by /\ ended.job = p.job
      BY <1>0, EndedProcess DEF DataTypes
    <3>. HIDE DEF ended
    <3>2. procs' = (procs \ {p}) \cup {ended}
      BY <2>1 DEF ended
    <3>. QED BY <1>0, <3>1, <3>2 DEF DataTypes
  <2>5. UNCHANGED output_cache
    BY <1>11 DEF Exit
  <2>. QED BY <1>0, <2>2, <2>3, <2>4, <2>5 DEF DataTypes
<1>12. CASE (\E w \in Watcher : LookAgain(w)) \/ ResetCache \/ UNCHANGED vars
  BY <1>0, <1>12 DEF LookAgain, ResetCache, vars, DataTypes
<1>13. CASE Restarts
  BY <1>0, <1>13, Restarting DEF DataTypes
<1>. QED BY <1>1, <1>2, <1>4, <1>5, <1>6, <1>8, <1>9, <1>10, <1>11, <1>12, <1>13
     DEF Step, StepInTime, Acts, RunnerActs

LEMMA Moved ==
  ASSUME Places, NEW t \in Thread, NEW where, NEW what, Goto(t, where, what),
         Allowed(t, where, what), what \in Jobs, handler' = handler,
         t \in Runner => pc[t] \notin {"done", "failed", "requeue"}
  PROVE  Places'
<1>1. \A u \in Thread : Allowed(u, pc'[u], job'[u])
  BY DEF Places, Goto
<1>2. handler' # "join" => Joined'
  BY AgentAssumption DEF Places, Goto, Joined, Thread
<1>. QED BY <1>1, <1>2 DEF Places, Goto

\* What follows on the exit of a process.
LEMMA ThenAllowed ==
  ASSUME Places, NEW t \in Thread, pc[t] = "poll", NEW p, Then(t, p)
  PROVE  \E where, what : /\ Goto(t, where, what) /\ Allowed(t, where, what) /\ what \in Jobs
                          /\ where \notin {"poll", "print"}
<1>. USE DEF Allowed, Places, Jobs, RunnerJobs
<1>1. Allowed(t, pc[t], job[t])
  OBVIOUS
<1>2. CASE t \in Watcher
  BY <1>1, <1>2 DEF Then
<1>3. CASE t \notin Watcher
  <2>1. CASE job[t] = "mkdir"
    BY <1>3, <2>1 DEF Then
  <2>2. CASE job[t] \in {"chmod", "delete"}
    <3>1. Goto(t, "exec", "main")
      BY <2>2 DEF Then
    <3>. QED BY <1>3, <3>1
  <2>3. CASE job[t] = "main"
    BY <1>3, <2>3 DEF Then
  <2>4. CASE job[t] = "check"
    BY <1>3, <2>4 DEF Then
  <2>. QED BY <1>1, <1>3, <2>1, <2>2, <2>3, <2>4
<1>. QED BY <1>2, <1>3

\* Where a thread goes whose command raises an exception, or gets no pid.
LEMMA RaisedMoves ==
  ASSUME Places, NEW t \in Thread, pc[t] \in {"exec", "blocked"}, Raised(t)
  PROVE  \E where \in {"close", "failed"} :
           Goto(t, where, job[t]) /\ (job[t] = "write" => where = "failed")
  BY DEF Raised, Reconnect

LEMMA NoPidMoves ==
  ASSUME Places, NEW t \in Thread, pc[t] = "exec", NoPid(t)
  PROVE  \/ job[t] \in {"mkdir", "main", "check", "look"} /\ Goto(t, "close", job[t])
         \/ job[t] = "chmod" /\ Goto(t, "exec", "main")
         \/ job[t] = "delete" /\ Goto(t, "exec", "delete")
<1>1. Allowed(t, "exec", job[t]) /\ job[t] \in Jobs
  BY DEF Places
<1>2. job[t] \in {"mkdir", "main", "check", "look", "chmod", "delete"}
  BY <1>1 DEF Allowed, Jobs, RunnerJobs
<1>. QED BY <1>2 DEF NoPid, Reconnect

\* Where a thread goes that moves only.
LEMMA MovesMove ==
  ASSUME Places, Step, NEW t \in Thread, Moves(t)
  PROVE  \/ UNCHANGED <<pc, job>>
         \/ /\ pc[t] \in {"poll", "print", "exec", "close", "connect", "blocked"}
            /\ \E where : /\ Goto(t, where, job[t]) /\ Allowed(t, where, job[t])
                          /\ where \in Waits =>
                               pc[t] = "poll" /\ job[t] = "main" /\ where = "print"
                          /\ where \in {"exec", "close", "connect"} =>
                               /\ pc[t] # "poll" /\ pc[t] # "print"
                               /\ pc[t] = "blocked" => job[t] = "mkdir"
                          /\ where \notin {"requeue", "done", "ready", "log"}
<1>. USE DEF Waits, Reconnect, Jobs, RunnerJobs
<1>0. Allowed(t, pc[t], job[t]) /\ job[t] \in Jobs
  BY DEF Places
<1>1. CASE ConnectFails(t)
  BY <1>1 DEF ConnectFails, threadVars
<1>2. CASE ExecRaises(t)
  <2>1. Raised(t) /\ pc[t] = "exec"
    BY <1>2 DEF ExecRaises
  <2>. QED BY <1>0, <2>1, RaisedMoves DEF Allowed
<1>3. CASE PolledRunning(t)
  BY <1>0, <1>3 DEF PolledRunning, Allowed
<1>4. CASE StatusFails(t)
  BY <1>0, <1>4 DEF StatusFails, Allowed
<1>5. CASE Close(t) \/ Connect(t)
  BY <1>0, <1>5 DEF Close, Connect, Allowed
<1>6. CASE Interrupted(t)
  <2>1. pc[t] = "blocked"
    BY <1>6 DEF Interrupted
  <2>2. CASE job[t] = "write"
    <3>1. \E where \in {"write", "failed"} : Goto(t, where, "write")
      BY <1>6, <2>2 DEF Interrupted
    <3>. QED BY <1>0, <2>1, <2>2, <3>1 DEF Allowed
  <2>3. CASE job[t] # "write"
    <3>1. IF job[t] = "mkdir" THEN Goto(t, "close", "mkdir") ELSE Goto(t, "failed", job[t])
      BY <1>6, <2>3 DEF Interrupted, Raised
    <3>. QED BY <1>0, <2>1, <3>1 DEF Allowed
  <2>. QED BY <2>2, <2>3
<1>. QED BY <1>1, <1>2, <1>3, <1>4, <1>5, <1>6 DEF Moves

LEMMA PlacesStep == Shape /\ Step => Places'
<1>. SUFFICES ASSUME Places, Step PROVE Places'
  BY DEF Shape
<1>. USE DEF Reconnect, agentVars, threadVars
<1>0. \A t \in Thread : Allowed(t, pc[t], job[t]) /\ job[t] \in Jobs
  BY DEF Places
<1>a. ASSUME UNCHANGED <<pc, job, handler>> PROVE Places'
  BY <1>a DEF Places, Joined
<1>1. ASSUME NEW t \in Thread, Exec(t) PROVE Places'
  <2>1. Goto(t, "poll", job[t]) /\ pc[t] = "exec" /\ handler' = handler
    BY <1>1 DEF Exec, GivenPid
  <2>. QED BY <1>0, <2>1, Moved DEF Allowed
<1>2. ASSUME NEW t \in Thread, ExecFails(t) PROVE Places'
  <2>1. pc[t] = "exec" /\ handler' = handler
    BY <1>2, Spawns
  <2>2. CASE NoPid(t)
    BY <1>0, <2>1, <2>2, NoPidMoves, Moved DEF Allowed, Jobs, RunnerJobs
  <2>3. CASE Goto(t, "blocked", job[t])
    BY <1>0, <2>1, <2>3, Moved DEF Allowed
  <2>. QED BY <1>2, <2>2, <2>3 DEF ExecFails, ExecBreaks, ExecBlocks
<1>3. ASSUME NEW t \in Thread, Moves(t) PROVE Places'
  <2>1. handler' = handler
    BY <1>3, OnlyMoves
  <2>. QED BY <1>0, <1>3, <1>a, <2>1, MovesMove, Moved
<1>4. ASSUME NEW t \in Thread, Polled(t) PROVE Places'
  <2>1. PICK p : Then(t, p)
    BY <1>4 DEF Polled
  <2>2. pc[t] = "poll" /\ handler' = handler
    BY <1>4 DEF Polled
  <2>. QED BY <2>1, <2>2, ThenAllowed, Moved
<1>5. ASSUME NEW t \in Thread, PollLost(t) PROVE Places'
  <2>1. pc[t] = "poll" /\ handler' = handler
    BY <1>5 DEF PollLost
  <2>2. Allowed(t, "poll", job[t]) /\ job[t] \in Jobs
    BY <1>0, <2>1
  <2>3. \/ job[t] \in {"mkdir", "main"} /\ Goto(t, "close", job[t])
        \/ job[t] = "delete" /\ Goto(t, "stderr", "delete")
        \/ job[t] = "chmod" /\ Goto(t, "exec", "main")
        \/ job[t] = "check" /\ Goto(t, "done", "check")
        \/ job[t] = "look" /\ Goto(t, "sleep", "look")
    <3>1. job[t] # "write"
      BY <2>2 DEF Allowed
    <3>. QED BY <1>5, <2>2, <3>1 DEF PollLost, Jobs, RunnerJobs
  <2>. QED BY <2>1, <2>2, <2>3, Moved DEF Allowed, Jobs, RunnerJobs
<1>6. ASSUME NEW r \in Runner, Start(r) PROVE Places'
  <2>1. /\ \E what \in {"delete", "main", "mkdir"} : Goto(r, "exec", what)
        /\ pc[r] = "ready" /\ handler' = handler
    BY <1>6 DEF Start
  <2>. QED BY <2>1, Moved, AgentAssumption DEF Allowed, Jobs, RunnerJobs, Thread
<1>7. ASSUME NEW r \in Runner, Log(r) \/ TooShort(r) PROVE Places'
  <2>1. /\ \/ Goto(r, "exec", "check") \/ Goto(r, "requeue", "main")
           \/ Goto(r, "exec", "main")
        /\ pc[r] = "log" /\ handler' = handler
    BY <1>7 DEF Log, TooShort
  <2>. QED BY <2>1, Moved, AgentAssumption DEF Allowed, Jobs, RunnerJobs, Thread
<1>8. ASSUME NEW r \in Runner, Write(r) \/ WriteLost(r) PROVE Places'
  <2>1. /\ Goto(r, "exec", "chmod") \/ Goto(r, "blocked", "write") \/ UNCHANGED <<pc, job>>
        /\ pc[r] = "write" /\ handler' = handler
    BY <1>8 DEF Write, WriteLost
  <2>2. CASE Goto(r, "exec", "chmod") \/ Goto(r, "blocked", "write")
    BY <2>1, <2>2, Moved, AgentAssumption DEF Allowed, Jobs, RunnerJobs, Thread
  <2>3. CASE UNCHANGED <<pc, job>>
    BY <1>a, <2>1, <2>3
  <2>. QED BY <2>1, <2>2, <2>3
<1>9. ASSUME NEW r \in Runner, PrintOutput(r) PROVE Places'
  <2>1. Goto(r, "poll", "main") /\ pc[r] = "print" /\ handler' = handler
    BY <1>9 DEF PrintOutput
  <2>. QED BY <2>1, Moved, AgentAssumption DEF Allowed, Jobs, RunnerJobs, Thread
<1>10. ASSUME NEW r \in Runner, Stderr(r) PROVE Places'
  <2>1. /\ Goto(r, "failed", "delete") \/ Goto(r, "close", "delete")
        /\ pc[r] = "stderr" /\ handler' = handler
    BY <1>10 DEF Stderr
  <2>. QED BY <2>1, Moved, AgentAssumption DEF Allowed, Jobs, RunnerJobs, Thread
<1>11. ASSUME NEW w \in Watcher, LookAgain(w) PROVE Places'
  <2>1. Goto(w, "exec", "look") /\ pc[w] = "sleep" /\ handler' = handler
    BY <1>11 DEF LookAgain
  <2>. QED BY <2>1, Moved DEF Allowed, Jobs, RunnerJobs, Thread
<1>12. CASE ResetCache
  BY <1>12 DEF ResetCache, Places, Joined
<1>13. CASE UNCHANGED vars \/ \E p \in procs : Exit(p)
  BY <1>a, <1>13 DEF vars, Exit
<1>14. CASE Restarts
  <2>1. CASE pc' = pc
    <3>1. job' = job /\ handler # "join" /\ handler' \in {"join", "close", "connect"}
      BY <1>14, Restarting
    <3>. QED BY <2>1, <3>1 DEF Places, Joined
  <2>2. CASE /\ pc' = [t \in Thread |-> IF pc[t] = "requeue" THEN "ready" ELSE pc[t]]
             /\ handler' = "join" /\ job' = job
    <3>1. \A t \in Thread : Allowed(t, pc'[t], job'[t])
      BY <1>0, <2>2 DEF Allowed
    <3>. QED BY <2>2, <3>1 DEF Places
  <2>. QED BY <1>14, <2>1, <2>2, Restarting
<1>. QED BY <1>1, <1>2, <1>3, <1>4, <1>5, <1>6, <1>7, <1>8, <1>9, <1>10, <1>11, <1>12, <1>13,
        <1>14 DEF Step, StepInTime, Acts, RunnerActs

LEMMA ShapeStep == Shape /\ Step => Shape'
  BY NumbersStep, DataStep, PlacesStep DEF Shape

-------------------------------------------------------------------------------
(* Processes and the cache of those that have exited.                      *)

ProcessesApart ==
  /\ \A p \in procs : p.pid < next_pid /\ p.boot = boot
  /\ \A p, q \in procs : p.pid = q.pid => p = q

\* The cache is about this boot's processes.
CacheIsFresh ==
  /\ \A e \in output_cache : e.pid < next_pid /\ e.of.boot = boot /\ e.of.ended
  /\ \A e \in output_cache : \A p \in procs : p.pid # e.pid
  /\ \A e, f \in output_cache : e.pid = f.pid => e = f
  /\ handler = "shutdown" => output_cache = {}

\* The pid a runner waits for is that of its own process.
OwnProcess ==
  \A r \in Runner : pc[r] \in Waits =>
    /\ pid[r] < next_pid
    /\ \A p \in procs :
         p.pid = pid[r] => p.by = r /\ (pc[r] \in {"poll", "print"} => p.job = job[r])
    /\ \A e \in output_cache :
         e.pid = pid[r] => e.of.by = r /\ (pc[r] \in {"poll", "print"} => e.of.job = job[r])

OwnInv == ProcessesApart /\ (mixed = {} => CacheIsFresh /\ OwnProcess /\ mistaken \cap Runner = {})

-------------------------------------------------------------------------------
(* What a step does to the processes and to the cache.                     *)

Quiet == procs' \subseteq procs /\ UNCHANGED <<output_cache, next_pid, boot, handler, mixed>>

Spawned(t) ==
  /\ procs' = procs \cup {Started(t, next_pid)} /\ next_pid' = next_pid + 1
  /\ UNCHANGED <<output_cache, boot, handler, mixed>>

\* What a process tells when it ends.
Tells(p) ==
  CASE p.job = "main" -> AsksReboot(p.by, "exit 10")
    [] p.job = "check" -> p.by \in reboot_file
    [] OTHER -> FALSE

Ended(p, q) ==
  /\ ~p.ended /\ q.ended /\ q.yes = Tells(p)
  /\ q.pid = p.pid /\ q.boot = p.boot /\ q.by = p.by /\ q.job = p.job
  /\ procs' = (procs \ {p}) \cup {q}
  /\ UNCHANGED <<output_cache, next_pid, boot, handler, mixed>>

\* The exit of p is noted, in entry e.
Noted(t, p, e) ==
  /\ p.ended /\ p.pid = pid[t] /\ e.pid = pid[t] /\ e.of = p
  /\ Cached(pid[t]) = {}
  /\ output_cache' = output_cache \cup {e} /\ procs' \subseteq procs \ {p}
  /\ Noting
  /\ UNCHANGED <<next_pid, boot, handler>>

Streamed(e, f) ==
  /\ f.pid = e.pid /\ f.of = e.of /\ ~f.out
  /\ output_cache' = (output_cache \ {e}) \cup {f}
  /\ UNCHANGED <<procs, next_pid, boot, handler, mixed>>

Effect ==
  \/ Quiet
  \/ \E t \in Thread : Spawned(t)
  \/ \E p \in procs : \E q \in Process : Ended(p, q)
  \/ \E t \in Thread : \E p \in procs : \E e \in Entry : Noted(t, p, e)
  \/ \E e \in output_cache : \E f \in Entry : Streamed(e, f)
  \/ ResetCache \/ Restarts

\* An exit that a status command answers.
LEMMA AnswerNotes ==
  ASSUME Shape, ProcessesApart, NEW t \in Thread, NEW a, Answered(t, a),
         UNCHANGED <<next_pid, boot, handler>>
  PROVE  \/ a \in Cached(pid[t]) /\ UNCHANGED <<procs, output_cache, mixed>>
         \/ \E p \in procs : a \in Entry /\ a.out = TRUE /\ Noted(t, p, a)
<1>1. CASE a \in Cached(pid[t]) /\ UNCHANGED <<procs, output_cache, mixed>>
  BY <1>1
<1>2. CASE ~(a \in Cached(pid[t]) /\ UNCHANGED <<procs, output_cache, mixed>>)
  <2>1. /\ Cached(pid[t]) = {} /\ Reap(pid[t]) /\ StoreCaptured(pid[t])
        /\ a \in Entries(pid[t], Known(pid[t]))
    BY <1>2 DEF Answered, InStep, Asks
  <2>2. PICK p \in procs : /\ p.pid = pid[t] /\ p.ended
                           /\ a \in Entry /\ a.pid = pid[t] /\ a.of = p /\ a.out = TRUE
    BY <2>1, EntryMade
  <2>3. \A b \in Entries(pid[t], Known(pid[t])) : b = a
    BY <2>1 DEF Entries, Known, ProcessesApart
  <2>4. output_cache' = output_cache \cup {a} /\ Noting
    BY <2>1, <2>3 DEF StoreCaptured
  <2>5. procs' \subseteq procs \ {p}
    BY <2>1, <2>2 DEF Reap
  <2>. QED BY <2>1, <2>2, <2>4, <2>5 DEF Noted
<1>. QED BY <1>1, <1>2

LEMMA StreamEffect ==
  ASSUME Shape, NEW t \in Thread, Stream(t), UNCHANGED <<procs, next_pid, boot, handler, mixed>>
  PROVE  \E e \in Cached(pid[t]) : \E f \in Entry :
           /\ Streamed(e, f)
           /\ printed' = [printed EXCEPT ![t] = IF e.out THEN @ + 1 ELSE @]
<1>1. PICK e \in Cached(pid[t]) :
        /\ printed' = [printed EXCEPT ![t] = IF e.out THEN @ + 1 ELSE @]
        /\ output_cache' = (output_cache \ {e}) \cup {Emptied(e)}
  BY DEF Stream
<1>2. e \in Entry
  BY DEF Cached, Shape, DataTypes
<1>. QED BY <1>1, <1>2, EmptiedEntry DEF Streamed

\* What print_output does when the process has exited meanwhile.
LEMMA PrintEffect ==
  ASSUME Shape, ProcessesApart, Step, NEW r \in Runner, PrintOutput(r)
  PROVE  \/ Quiet /\ printed' = printed
         \/ \E p \in procs : \E e \in Entry :
              /\ Noted(r, p, e) /\ ~e.out /\ printed' = [printed EXCEPT ![r] = @ + 1]
         \/ \E e \in Cached(pid[r]) : \E f \in Entry :
              /\ Streamed(e, f)
              /\ printed' = [printed EXCEPT ![r] = IF e.out THEN @ + 1 ELSE @]
<1>. USE DEF Thread
<1>1. UNCHANGED <<next_pid, boot, handler>>
  BY DEF PrintOutput
<1>2. CASE procs' \subseteq procs /\ UNCHANGED <<output_cache, mixed, printed>>
  BY <1>1, <1>2 DEF Quiet
<1>3. CASE Stream(r) /\ UNCHANGED <<procs, mixed>>
  BY <1>1, <1>3, StreamEffect
<1>4. ASSUME NEW a \in Entries(pid[r], Known(pid[r])), Cached(pid[r]) = {}, Reap(pid[r]), Noting,
             output_cache' = output_cache \cup {Emptied(a)},
             printed' = [printed EXCEPT ![r] = @ + 1]
      PROVE  \E q \in procs : \E e \in Entry :
               /\ Noted(r, q, e) /\ ~e.out /\ printed' = [printed EXCEPT ![r] = @ + 1]
  <2>1. PICK p \in procs : /\ p.pid = pid[r] /\ p.ended
                           /\ a \in Entry /\ a.pid = pid[r] /\ a.of = p
    BY EntryMade
  <2>2. Emptied(a) \in Entry /\ Emptied(a).pid = pid[r] /\ Emptied(a).of = p /\ ~Emptied(a).out
    BY <2>1, EmptiedEntry
  <2>3. procs' \subseteq procs \ {p}
    BY <1>4, <2>1 DEF Reap
  <2>4. Noted(r, p, Emptied(a))
    BY <1>1, <1>4, <2>1, <2>2, <2>3 DEF Noted
  <2>. QED BY <1>4, <2>1, <2>2, <2>4
<1>5. \/ UNCHANGED <<procs, output_cache, mixed, printed>>
      \/ StatusLost(r) /\ UNCHANGED <<output_cache, printed>>
      \/ Stream(r) /\ UNCHANGED <<procs, mixed>>
      \/ \E a \in Entries(pid[r], Known(pid[r])) :
           /\ Cached(pid[r]) = {} /\ Reap(pid[r]) /\ Noting
           /\ output_cache' = output_cache \cup {Emptied(a)}
           /\ printed' = [printed EXCEPT ![r] = @ + 1]
  BY DEF PrintOutput, InStep, Asks
<1>6. CASE StatusLost(r) /\ UNCHANGED <<output_cache, printed>>
  BY <1>2, <1>6, StatusLostInTime
<1>. QED BY <1>2, <1>3, <1>4, <1>5, <1>6

LEMMA ExitEffect ==
  ASSUME Shape, NEW p \in procs, Exit(p) PROVE \E q \in Process : Ended(p, q)
<1>1. p \in Process
  BY DEF Shape, DataTypes
<1>2. PICK yes \in BOOLEAN :
        /\ yes = Tells(p)
        /\ procs' = (procs \ {p}) \cup {[p EXCEPT !.ended = TRUE, !.yes = yes]}
  BY DEF Exit, Tells
<1>. DEFINE q == [p EXCEPT !.ended = TRUE, !.yes = yes]
<1>3. /\ q \in Process /\ q.pid = p.pid /\ q.boot = p.boot /\ q.by = p.by
      /\ q.job = p.job /\ q.ended = TRUE /\ q.yes = yes
  BY <1>1, EndedProcess
<1>4. procs' = (procs \ {p}) \cup {q}
  BY <1>2
<1>. HIDE DEF q
<1>5. Ended(p, q)
  BY <1>2, <1>3, <1>4 DEF Ended, Exit, threadVars, ghosts
<1>. QED BY <1>3, <1>5

LEMMA StepEffect == ASSUME Shape, ProcessesApart, Step PROVE Effect
<1>. USE DEF agentVars, threadVars, ghosts
<1>1. ASSUME NEW t \in Thread, Exec(t) \/ ExecFails(t) PROVE Effect
  <2>1. Spawned(t) \/ Quiet
    BY <1>1, Spawns DEF Spawned, Quiet
  <2>. QED BY <2>1 DEF Effect
<1>2. ASSUME NEW t \in Thread, Moves(t) PROVE Effect
  BY <1>2, OnlyMoves DEF Effect, Quiet
<1>3. ASSUME NEW t \in Thread, NEW a, Answered(t, a), UNCHANGED <<next_pid, boot, handler>>
      PROVE  Effect
  <2>1. Quiet \/ \E p \in procs : \E e \in Entry : Noted(t, p, e)
    BY <1>3, AnswerNotes DEF Quiet
  <2>. QED BY <2>1 DEF Effect
<1>4. ASSUME NEW t \in Thread, Polled(t) PROVE Effect
  <2>1. UNCHANGED <<next_pid, boot, handler>> /\ \E a : Answered(t, a)
    BY <1>4 DEF Polled
  <2>. QED BY <1>3, <2>1
<1>5. ASSUME NEW t \in Thread, PollLost(t) PROVE Effect
  <2>1. StatusLost(t) /\ UNCHANGED <<output_cache, next_pid, boot, handler>>
    BY <1>5 DEF PollLost
  <2>. QED BY <2>1, StatusLostInTime DEF Effect, Quiet
<1>6. ASSUME NEW r \in Runner, Start(r) \/ Write(r) \/ WriteLost(r) \/ TooShort(r) PROVE Effect
  <2>1. CASE WriteLost(r)
    <3>1. mixed' = mixed
      BY <2>1 DEF WriteLost, Step
    <3>. QED BY <2>1, <3>1 DEF WriteLost, Effect, Quiet
  <2>2. CASE ~WriteLost(r)
    BY <1>6, <2>2 DEF Start, Write, TooShort, Effect, Quiet
  <2>. QED BY <2>1, <2>2
<1>7. ASSUME NEW r \in Runner, PrintOutput(r) PROVE Effect
  <2>1. r \in Thread /\ Cached(pid[r]) \subseteq output_cache
    BY DEF Thread, Cached
  <2>2. \/ Quiet \/ \E p \in procs : \E e \in Entry : Noted(r, p, e)
        \/ \E e \in Cached(pid[r]) : \E f \in Entry : Streamed(e, f)
    BY <1>7, PrintEffect
  <2>. QED BY <2>1, <2>2 DEF Effect
<1>8. ASSUME NEW r \in Runner, Log(r) PROVE Effect
  <2>1. Stream(r) /\ UNCHANGED <<procs, next_pid, boot, handler, mixed>> /\ r \in Thread
    BY <1>8 DEF Log, Thread
  <2>2. Cached(pid[r]) \subseteq output_cache
    BY DEF Cached
  <2>. QED BY <2>1, <2>2, StreamEffect DEF Effect
<1>9. ASSUME NEW r \in Runner, Stderr(r) PROVE Effect
  <2>1. UNCHANGED <<next_pid, boot, handler>> /\ r \in Thread
    BY <1>9 DEF Stderr, Thread
  <2>2. \/ \E a : Answered(r, a)
        \/ UNCHANGED <<procs, output_cache, mixed>>
        \/ StatusLost(r) /\ output_cache' = output_cache
    BY <1>9 DEF Stderr
  <2>3. CASE UNCHANGED <<procs, output_cache, mixed>>
    BY <2>1, <2>3 DEF Effect, Quiet
  <2>4. CASE StatusLost(r) /\ output_cache' = output_cache
    BY <2>1, <2>4, StatusLostInTime DEF Effect, Quiet
  <2>. QED BY <1>3, <2>1, <2>2, <2>3, <2>4
<1>10. ASSUME NEW p \in procs, Exit(p) PROVE Effect
  BY <1>10, ExitEffect DEF Effect
<1>11. CASE ResetCache \/ Restarts
  BY <1>11 DEF Effect
<1>12. CASE (\E w \in Watcher : LookAgain(w)) \/ UNCHANGED vars
  <2>1. Quiet
    BY <1>12 DEF LookAgain, vars, Quiet
  <2>. QED BY <2>1 DEF Effect
<1>. QED BY <1>1, <1>2, <1>4, <1>5, <1>6, <1>7, <1>8, <1>9, <1>10, <1>11, <1>12
     DEF Step, StepInTime, Acts, RunnerActs

-------------------------------------------------------------------------------
LEMMA ApartStep == Shape /\ ProcessesApart /\ Step => ProcessesApart'
<1>. SUFFICES ASSUME Shape, ProcessesApart, Step PROVE ProcessesApart'
  OBVIOUS
<1>0. next_pid \in Nat /\ \A p \in procs : p.pid \in Nat
  BY DEF Shape, Numbers, DataTypes, Process
<1>1. CASE Quiet
  BY <1>1 DEF Quiet, ProcessesApart
<1>2. ASSUME NEW t \in Thread, Spawned(t) PROVE ProcessesApart'
  <2>. DEFINE new == Started(t, next_pid)
  <2>1. new.pid = next_pid /\ new.boot = boot
    BY StartedProcess
  <2>2. procs' = procs \cup {new} /\ next_pid' = next_pid + 1 /\ boot' = boot
    BY <1>2 DEF Spawned
  <2>3. \A p \in procs : p.pid # next_pid /\ p.pid < next_pid + 1
    BY <1>0 DEF ProcessesApart
  <2>4. next_pid < next_pid + 1
    BY <1>0
  <2>. HIDE DEF new
  <2>. QED BY <2>1, <2>2, <2>3, <2>4 DEF ProcessesApart
<1>3. ASSUME NEW p \in procs, NEW q \in Process, Ended(p, q) PROVE ProcessesApart'
  BY <1>3 DEF Ended, ProcessesApart
<1>4. ASSUME NEW t \in Thread, NEW p \in procs, NEW e \in Entry, Noted(t, p, e)
      PROVE  ProcessesApart'
  BY <1>4 DEF Noted, ProcessesApart
<1>5. ASSUME NEW e \in output_cache, NEW f \in Entry, Streamed(e, f) PROVE ProcessesApart'
  BY <1>5 DEF Streamed, ProcessesApart
<1>6. CASE ResetCache \/ Restarts
  BY <1>6, Restarting DEF ResetCache, ProcessesApart, agentVars
<1>. QED BY <1>1, <1>2, <1>3, <1>4, <1>5, <1>6, StepEffect DEF Effect

\* What mixed the answers up stays so.
LEMMA MixedStays ==
  ASSUME Shape, ProcessesApart, Step, mixed' = {} PROVE mixed = {}
  BY StepEffect, Restarting DEF Effect, Quiet, Spawned, Ended, Noted, Noting, Streamed, ResetCache

LEMMA FreshStep ==
  ASSUME Shape, ProcessesApart, CacheIsFresh, Step, mixed' = {}
  PROVE  CacheIsFresh'
<1>0. /\ next_pid \in Nat /\ \A e \in output_cache : e.pid \in Nat /\ e.pid < next_pid
      /\ \A p \in procs : p.pid < next_pid /\ p.boot = boot
  BY DEF Shape, Numbers, DataTypes, Entry, CacheIsFresh, ProcessesApart
<1>1. CASE Quiet
  BY <1>1 DEF Quiet, CacheIsFresh
<1>2. ASSUME NEW t \in Thread, Spawned(t) PROVE CacheIsFresh'
  <2>1. \A e \in output_cache : e.pid # next_pid /\ e.pid < next_pid + 1
    BY <1>0
  <2>. DEFINE new == Started(t, next_pid)
  <2>2. new.pid = next_pid
    BY StartedProcess
  <2>3. /\ procs' = procs \cup {new} /\ next_pid' = next_pid + 1
        /\ UNCHANGED <<output_cache, boot, handler>>
    BY <1>2 DEF Spawned
  <2>. HIDE DEF new
  <2>. QED BY <2>1, <2>2, <2>3 DEF CacheIsFresh
<1>3. ASSUME NEW p \in procs, NEW q \in Process, Ended(p, q) PROVE CacheIsFresh'
  BY <1>3 DEF Ended, CacheIsFresh
<1>4. ASSUME NEW t \in Thread, NEW p \in procs, NEW e \in Entry, Noted(t, p, e)
      PROVE  CacheIsFresh'
  <2>1. /\ p.ended /\ p.pid = e.pid /\ e.of = p
        /\ \A f \in output_cache : f.pid # e.pid
        /\ output_cache' = output_cache \cup {e} /\ procs' \subseteq procs \ {p}
        /\ UNCHANGED <<next_pid, boot, handler>>
    BY <1>4 DEF Noted, Cached
  <2>2. handler' # "shutdown"
    BY <1>4 DEF Noted, Noting
  <2>3. \A r \in procs' : r.pid # e.pid
    BY <2>1 DEF ProcessesApart
  <2>. QED BY <1>0, <2>1, <2>2, <2>3 DEF CacheIsFresh
<1>5. ASSUME NEW e \in output_cache, NEW f \in Entry, Streamed(e, f) PROVE CacheIsFresh'
  <2>1. handler' # "shutdown"
    BY <1>5 DEF Streamed, CacheIsFresh
  <2>. QED BY <1>5, <2>1 DEF Streamed, CacheIsFresh
<1>6. CASE ResetCache
  BY <1>6 DEF ResetCache, CacheIsFresh
<1>7. CASE Restarts
  <2>1. CASE handler = "shutdown"
    BY <1>7, <2>1, Restarting DEF CacheIsFresh
  <2>2. CASE handler # "shutdown"
    <3>1. UNCHANGED <<boot, procs, next_pid, output_cache>> /\ handler' # "shutdown"
      BY <1>7, <2>2 DEF Restarts, Shutdown, ShutdownFails, HandlerClose, HandlerConnect, agentVars
    <3>. QED BY <3>1 DEF CacheIsFresh
  <2>. QED BY <2>1, <2>2
<1>. QED BY <1>1, <1>2, <1>3, <1>4, <1>5, <1>6, <1>7, StepEffect DEF Effect

\* How a runner comes to wait, and goes on waiting, for a process.
LEMMA WaitMove ==
  ASSUME Shape, Step, NEW r \in Runner, pc'[r] \in Waits
  PROVE  \/ Exec(r)
         \/ /\ pc[r] \in Waits /\ pid'[r] = pid[r]
            /\ pc'[r] \in {"poll", "print"} => pc[r] \in {"poll", "print"} /\ job'[r] = job[r]
<1>. USE DEF Waits, Goto, Reconnect, agentVars, threadVars, ghosts
<1>0. /\ r \in Thread /\ DOMAIN pc = Thread /\ DOMAIN job = Thread /\ DOMAIN pid = Thread
      /\ (pc[r] = "print" => job[r] = "main")
      /\ Places
  BY AgentAssumption DEF Shape, Numbers, Places, Allowed, Thread
<1>1. ASSUME NEW t \in Thread, Exec(t) PROVE r = t \/ UNCHANGED <<pc[r], job[r], pid[r]>>
  BY <1>0, <1>1 DEF Exec, GivenPid
<1>2. ASSUME NEW t \in Thread, ExecFails(t) PROVE r # t /\ UNCHANGED <<pc[r], job[r], pid[r]>>
  <2>1. pid' = pid /\ pc[t] = "exec"
    BY <1>2 DEF ExecFails, ExecBreaks, ExecBlocks
  <2>2. NoPid(t) \/ Goto(t, "blocked", job[t])
    BY <1>2 DEF ExecFails, ExecBreaks, ExecBlocks
  <2>3. \E where \in {"close", "exec", "blocked"} : \E what : Goto(t, where, what)
    BY <1>0, <2>1, <2>2, NoPidMoves
  <2>. QED BY <1>0, <2>1, <2>3
<1>3. ASSUME NEW t \in Thread, Moves(t)
      PROVE  /\ pid' = pid /\ (r # t => UNCHANGED <<pc[r], job[r]>>)
             /\ r = t => pc[r] \in Waits /\ (pc'[r] \in {"poll", "print"} =>
                           pc[r] \in {"poll", "print"} /\ job'[r] = job[r])
  <2>1. pid' = pid
    BY <1>3, OnlyMoves
  <2>2. CASE UNCHANGED <<pc, job>>
    BY <1>0, <2>1, <2>2
  <2>3. ASSUME NEW where, Goto(t, where, job[t]),
               where \in Waits => pc[t] = "poll" /\ job[t] = "main" /\ where = "print"
        PROVE  /\ (r # t => UNCHANGED <<pc[r], job[r]>>)
               /\ r = t => pc[r] \in Waits /\ (pc'[r] \in {"poll", "print"} =>
                             pc[r] \in {"poll", "print"} /\ job'[r] = job[r])
    BY <1>0, <2>3
  <2>. QED BY <1>0, <1>3, <2>1, <2>2, <2>3, MovesMove
<1>4. ASSUME NEW t \in Thread, Polled(t)
      PROVE  /\ pc[t] = "poll" /\ pid' = pid /\ (r # t => UNCHANGED <<pc[r], job[r]>>)
             /\ r = t => (pc'[r] \in {"poll", "print"} => job'[r] = job[r])
  <2>1. PICK p : Then(t, p)
    BY <1>4 DEF Polled
  <2>2. pc[t] = "poll" /\ pid' = pid
    BY <1>4 DEF Polled
  <2>3. \E where, what : Goto(t, where, what) /\ where \notin {"poll", "print"}
    BY <1>0, <2>1, <2>2, ThenAllowed
  <2>. QED BY <1>0, <2>2, <2>3
<1>5. ASSUME NEW t \in Thread, PollLost(t) PROVE r # t /\ UNCHANGED <<pc[r], job[r], pid[r]>>
  <2>1. Allowed(t, pc[t], job[t]) /\ job[t] \in Jobs /\ pc[t] = "poll"
    BY <1>0, <1>5 DEF Places, PollLost
  <2>2. job[t] # "write"
    BY <2>1 DEF Allowed
  <2>. QED BY <1>0, <1>5, <2>1, <2>2 DEF PollLost, Jobs, RunnerJobs
<1>6. ASSUME NEW q \in Runner, Start(q) \/ Log(q) \/ Write(q) \/ WriteLost(q) \/ Stderr(q) \/ TooShort(q)
      PROVE  UNCHANGED <<pc[r], job[r], pid[r]>>
  <2>1. q \in Thread /\ pid' = pid
    BY <1>6 DEF Start, Log, Write, WriteLost, Stderr, TooShort, Thread
  <2>2. CASE UNCHANGED <<pc, job>>
    BY <2>1, <2>2
  <2>3. CASE \E where, what : Goto(q, where, what) /\ where \notin Waits
    BY <1>0, <2>1, <2>3
  <2>4. UNCHANGED <<pc, job>> \/ \E where, what : Goto(q, where, what) /\ where \notin Waits
    BY <1>6 DEF Start, Log, Write, WriteLost, Stderr, TooShort
  <2>. QED BY <2>2, <2>3, <2>4
<1>7. ASSUME NEW q \in Runner, PrintOutput(q)
      PROVE  /\ pc[q] = "print" /\ pid' = pid /\ (r # q => UNCHANGED <<pc[r], job[r]>>)
             /\ r = q => job'[r] = job[r]
  BY <1>0, <1>7 DEF PrintOutput
<1>8. ASSUME NEW w \in Watcher, LookAgain(w) PROVE UNCHANGED <<pc[r], job[r], pid[r]>>
  BY <1>0, <1>8, AgentAssumption DEF LookAgain, Thread
<1>9. CASE ResetCache \/ UNCHANGED vars \/ \E p \in procs : Exit(p)
  BY <1>9 DEF ResetCache, vars, Exit
<1>10. CASE Restarts
  BY <1>0, <1>10, Restarting
<1>11. CASE \E t \in Thread : Acts(t)
  BY <1>0, <1>1, <1>2, <1>3, <1>4, <1>5, <1>11 DEF Acts
<1>12. CASE \E q \in Runner : RunnerActs(q)
  BY <1>6, <1>7, <1>12 DEF RunnerActs
<1>. QED BY <1>8, <1>9, <1>10, <1>11, <1>12 DEF Step, StepInTime

LEMMA OwnProcessStep ==
  ASSUME Shape, ProcessesApart, CacheIsFresh, OwnProcess, Step, mixed' = {}
  PROVE  OwnProcess'
<1>. SUFFICES ASSUME NEW r \in Runner, pc'[r] \in Waits
     PROVE  /\ pid'[r] < next_pid'
            /\ \A p \in procs' :
                 p.pid = pid'[r] => /\ p.by = r
                                    /\ pc'[r] \in {"poll", "print"} => p.job = job'[r]
            /\ \A e \in output_cache' :
                 e.pid = pid'[r] => /\ e.of.by = r
                                    /\ pc'[r] \in {"poll", "print"} => e.of.job = job'[r]
  BY DEF OwnProcess
<1>0. /\ next_pid \in Nat /\ next_pid < next_pid + 1
      /\ \A p \in procs : p.pid \in Nat /\ p.pid < next_pid /\ p.pid # next_pid
      /\ \A e \in output_cache : e.pid \in Nat /\ e.pid < next_pid /\ e.pid # next_pid
      /\ DOMAIN job = Thread /\ DOMAIN pc = Thread /\ DOMAIN pid = Thread /\ r \in Thread
      /\ pid[r] \in Nat
  BY DEF Shape, Numbers, DataTypes, Places, Process, Entry, CacheIsFresh, ProcessesApart, Thread
<1>1. CASE Exec(r)
  <2>. DEFINE new == Started(r, next_pid)
  <2>1. new.pid = next_pid /\ new.by = r /\ new.job = job[r]
    BY <1>0, StartedProcess
  <2>2. /\ procs' = procs \cup {new} /\ next_pid' = next_pid + 1
        /\ output_cache' = output_cache
        /\ pid'[r] = next_pid /\ job'[r] = job[r]
    BY <1>0, <1>1 DEF Exec, SpawnNew, Spawn, GivenPid, Goto
  <2>. HIDE DEF new
  <2>. QED BY <1>0, <2>1, <2>2
<1>2. CASE /\ pc[r] \in Waits /\ pid'[r] = pid[r]
           /\ pc'[r] \in {"poll", "print"} => pc[r] \in {"poll", "print"} /\ job'[r] = job[r]
  <2>0. /\ pid[r] < next_pid
        /\ \A p \in procs :
             p.pid = pid[r] => /\ p.by = r
                               /\ pc'[r] \in {"poll", "print"} => p.job = job'[r]
        /\ \A e \in output_cache :
             e.pid = pid[r] => /\ e.of.by = r
                               /\ pc'[r] \in {"poll", "print"} => e.of.job = job'[r]
    BY <1>2 DEF OwnProcess
  <2>1. CASE Quiet
    BY <1>2, <2>0, <2>1 DEF Quiet
  <2>2. ASSUME NEW t \in Thread, Spawned(t)
        PROVE  /\ pid'[r] < next_pid' /\ output_cache' = output_cache
               /\ \A p \in procs' : p.pid = pid[r] => p \in procs
    <3>. DEFINE new == Started(t, next_pid)
    <3>1. new.pid = next_pid
      BY StartedProcess
    <3>2. procs' = procs \cup {new} /\ next_pid' = next_pid + 1 /\ output_cache' = output_cache
      BY <2>2 DEF Spawned
    <3>. HIDE DEF new
    <3>3. pid[r] < next_pid + 1 /\ pid[r] # next_pid
      BY <1>0, <2>0
    <3>. QED BY <1>2, <3>1, <3>2, <3>3
  <2>3. ASSUME NEW p \in procs, NEW q \in Process, Ended(p, q)
        PROVE  /\ next_pid' = next_pid /\ output_cache' = output_cache
               /\ \A o \in procs' : \E n \in procs : o.pid = n.pid /\ o.by = n.by /\ o.job = n.job
    BY <2>3 DEF Ended
  <2>4. ASSUME NEW t \in Thread, NEW p \in procs, NEW e \in Entry, Noted(t, p, e)
        PROVE  /\ next_pid' = next_pid /\ procs' \subseteq procs
               /\ output_cache' = output_cache \cup {e} /\ p.pid = e.pid /\ e.of = p
    BY <2>4 DEF Noted
  <2>5. ASSUME NEW e \in output_cache, NEW f \in Entry, Streamed(e, f)
        PROVE  /\ next_pid' = next_pid /\ procs' = procs
               /\ \A g \in output_cache' : \E d \in output_cache : g.pid = d.pid /\ g.of = d.of
    BY <2>5 DEF Streamed
  <2>6. CASE ResetCache
    BY <1>2, <2>0, <2>6 DEF ResetCache, agentVars
  <2>7. ~Restarts
    BY <1>2, Restarting DEF Shape, Places, Joined, Waits
  <2>8. CASE \E t \in Thread : Spawned(t)
    BY <1>2, <2>0, <2>2, <2>8
  <2>9. CASE \E p \in procs : \E q \in Process : Ended(p, q)
    BY <1>2, <2>0, <2>3, <2>9
  <2>10. CASE \E t \in Thread : \E p \in procs : \E e \in Entry : Noted(t, p, e)
    BY <1>2, <2>0, <2>4, <2>10
  <2>11. CASE \E e \in output_cache : \E f \in Entry : Streamed(e, f)
    BY <1>2, <2>0, <2>5, <2>11
  <2>. QED BY <2>1, <2>6, <2>7, <2>8, <2>9, <2>10, <2>11, StepEffect DEF Effect
<1>. QED BY <1>1, <1>2, WaitMove

\* What a runner takes for the exit of its process is that.
LEMMA AnswerIsOwn ==
  ASSUME Shape, ProcessesApart, CacheIsFresh, OwnProcess, NEW r \in Runner, pc[r] = "poll",
         NEW a, Answered(r, a), UNCHANGED <<next_pid, boot, handler>>
  PROVE  a.of.by = r /\ a.of.boot = boot /\ a.of.job = job[r] /\ a.pid = pid[r] /\ a.of.ended
<1>1. CASE a \in Cached(pid[r])
  BY <1>1 DEF Cached, CacheIsFresh, OwnProcess, Waits
<1>2. CASE \E p \in procs : Noted(r, p, a)
  BY <1>2 DEF Noted, ProcessesApart, OwnProcess, Waits
<1>. QED BY <1>1, <1>2, AnswerNotes DEF Thread

LEMMA MistakenStep ==
  ASSUME Shape, ProcessesApart, CacheIsFresh, OwnProcess, mistaken \cap Runner = {}, Step
  PROVE  mistaken' \cap Runner = {}
<1>1. ASSUME NEW t \in Thread, Polled(t) PROVE mistaken' \cap Runner = {}
  <2>1. PICK a : Answered(t, a) /\ Mistaken(t, a.of)
    BY <1>1 DEF Polled
  <2>2. pc[t] = "poll" /\ UNCHANGED <<next_pid, boot, handler>>
    BY <1>1 DEF Polled
  <2>3. CASE t \in Runner
    BY <2>1, <2>2, <2>3, AnswerIsOwn DEF Mistaken
  <2>4. CASE t \notin Runner
    BY <2>1, <2>4 DEF Mistaken
  <2>. QED BY <2>3, <2>4
<1>2. ASSUME NEW t \in Thread, Acts(t), ~Polled(t) PROVE mistaken' = mistaken
  BY <1>2, Spawns, OnlyMoves DEF Acts, PollLost
<1>3. ASSUME NEW r \in Runner, RunnerActs(r) PROVE mistaken' = mistaken
  BY <1>3 DEF RunnerActs, Start, Log, Write, PrintOutput, Stderr, WriteLost, TooShort, ghosts
<1>4. ASSUME \/ \E w \in Watcher : LookAgain(w)
             \/ \E p \in procs : Exit(p)
             \/ ResetCache \/ Restarts \/ UNCHANGED vars
      PROVE  mistaken' = mistaken
  BY <1>4, Restarting DEF LookAgain, Exit, ResetCache, vars, ghosts
<1>. QED BY <1>1, <1>2, <1>3, <1>4 DEF Step, StepInTime

LEMMA OwnStep == Shape /\ OwnInv /\ Step => OwnInv'
<1>. SUFFICES ASSUME Shape, OwnInv, Step PROVE OwnInv'
  OBVIOUS
<1>1. ProcessesApart
  BY DEF OwnInv
<1>2. ASSUME mixed' = {} PROVE (CacheIsFresh /\ OwnProcess /\ mistaken \cap Runner = {})'
  <2>1. CacheIsFresh /\ OwnProcess /\ mistaken \cap Runner = {}
    BY <1>1, <1>2, MixedStays DEF OwnInv
  <2>. QED BY <1>1, <1>2, <2>1, FreshStep, OwnProcessStep, MistakenStep
<1>. QED BY <1>1, <1>2, ApartStep DEF OwnInv

LEMMA OwnInit == Init => OwnInv
<1>. SUFFICES ASSUME Init PROVE OwnInv
  OBVIOUS
<1>1. procs = {} /\ output_cache = {} /\ mistaken = {} /\ handler = "join"
  BY DEF Init
<1>2. \A r \in Runner : pc[r] = "ready"
  BY DEF Init, Thread
<1>. QED BY <1>1, <1>2 DEF OwnInv, ProcessesApart, CacheIsFresh, OwnProcess, Waits

\* What holds as long as answers come in time.
OwnInTime == InTime => stray = {} /\ Shape /\ OwnInv

LEMMA OwnInvariant == Spec => []OwnInTime
<1>1. Init => OwnInTime
  <2>1. Init => stray = {}
    BY DEF Init
  <2>. QED BY <2>1, ShapeInit, OwnInit DEF OwnInTime
<1>2. OwnInTime /\ [Next]_vars => OwnInTime'
  <2>. SUFFICES ASSUME OwnInTime, [Next]_vars, InTime' PROVE stray' = {} /\ Shape' /\ OwnInv'
    BY DEF OwnInTime
  <2>1. InTime /\ Step
    BY InTimeStep DEF OwnInTime
  <2>2. Shape /\ OwnInv /\ stray' = {}
    BY <2>1 DEF OwnInTime, Step
  <2>. QED BY <2>1, <2>2, ShapeStep, OwnStep
<1>. QED BY <1>1, <1>2, PTL DEF Spec

\* For any number of runners and watchers: a runner takes the exit of no other process
\* and no other job for that of its own (_run_vm_resource, exec_status), unless an answer
\* came late, a pid was given again or an exit was noted at a reboot.
THEOREM ExitCodesAreOwn == Spec => []ExitCodeIsOwn
<1>1. OwnInTime => ExitCodeIsOwn
  BY DEF OwnInTime, InTime, OwnInv, ExitCodeIsOwn
<1>. QED BY <1>1, OwnInvariant, PTL

\* What has been logged of a process that is waited for is out of the cache.
LoggedOnce ==
  mixed = {} => \A r \in Runner :
    /\ printed[r] <= 1
    /\ pc[r] \in Waits /\ printed[r] = 1 =>
         Cached(pid[r]) # {} /\ \A e \in Cached(pid[r]) : ~e.out

\* What is logged of runner r's process in a step.
LEMMA PrintedMove ==
  ASSUME Shape, ProcessesApart, Step, NEW r \in Runner
  PROVE  \/ printed'[r] = 0
         \/ printed'[r] = printed[r] /\ ~Exec(r)
         \/ /\ pc[r] \in Waits /\ pid'[r] = pid[r]
            /\ \/ \E e \in Cached(pid[r]) : \E f \in Entry :
                    Streamed(e, f) /\ printed'[r] = IF e.out THEN printed[r] + 1 ELSE printed[r]
               \/ \E p \in procs : \E e \in Entry :
                    Noted(r, p, e) /\ ~e.out /\ printed'[r] = printed[r] + 1
<1>. USE DEF agentVars, threadVars, ghosts
<1>0. r \in Thread /\ DOMAIN printed = Thread
  BY DEF Shape, Numbers, Thread
<1>1. CASE Exec(r)
  BY <1>0, <1>1 DEF Exec, GivenPid
<1>2. CASE PrintOutput(r)
  <2>1. pc[r] \in Waits /\ pid' = pid
    BY <1>2 DEF PrintOutput, Waits
  <2>2. pc[r] # "exec"
    BY <1>2 DEF PrintOutput
  <2>. QED BY <1>0, <1>2, <2>1, <2>2, PrintEffect DEF Exec
<1>3. CASE Log(r)
  <2>1. /\ Stream(r) /\ UNCHANGED <<procs, next_pid, boot, handler, mixed>> /\ pid' = pid
        /\ pc[r] \in Waits
    BY <1>3 DEF Log, Waits
  <2>. QED BY <1>0, <2>1, StreamEffect
<1>4. CASE ~Exec(r) /\ ~PrintOutput(r) /\ ~Log(r)
  <2>1. ASSUME NEW t \in Thread, Exec(t) PROVE t = r \/ printed'[r] = printed[r]
    BY <1>0, <2>1 DEF Exec, GivenPid
  <2>2. ASSUME NEW t \in Runner, PrintOutput(t) PROVE t = r \/ printed'[r] = printed[r]
    BY <1>0, <2>2 DEF PrintOutput, Stream
  <2>3. ASSUME NEW t \in Runner, Log(t) PROVE t = r \/ printed'[r] = printed[r]
    BY <1>0, <2>3 DEF Log, Stream
  <2>4. ASSUME NEW t \in Thread, Acts(t), ~Exec(t) PROVE printed' = printed
    BY <2>4, Spawns, OnlyMoves DEF Acts, Polled, PollLost
  <2>5. ASSUME NEW t \in Runner, RunnerActs(t), ~PrintOutput(t), ~Log(t) PROVE printed' = printed
    BY <2>5 DEF RunnerActs, Start, Write, Stderr, WriteLost, TooShort
  <2>6. ASSUME \/ \E w \in Watcher : LookAgain(w)
               \/ \E p \in procs : Exit(p)
               \/ ResetCache \/ Restarts \/ UNCHANGED vars
        PROVE  printed' = printed
    BY <2>6, Restarting DEF LookAgain, Exit, ResetCache, vars
  <2>. QED BY <1>4, <2>1, <2>2, <2>3, <2>4, <2>5, <2>6 DEF Step, StepInTime
<1>. QED BY <1>1, <1>2, <1>3, <1>4

LEMMA LoggedStep ==
  Shape /\ OwnInv /\ LoggedOnce /\ Step => LoggedOnce'
<1>. SUFFICES ASSUME Shape, OwnInv, LoggedOnce, Step, mixed' = {}, NEW r \in Runner
     PROVE  /\ printed'[r] <= 1
            /\ pc'[r] \in Waits /\ printed'[r] = 1 =>
                 \E e \in output_cache' : e.pid = pid'[r]
            /\ pc'[r] \in Waits /\ printed'[r] = 1 =>
                 \A e \in output_cache' : e.pid = pid'[r] => ~e.out
  BY DEF LoggedOnce, Cached
<1>0. mixed = {} /\ ProcessesApart /\ CacheIsFresh
  BY MixedStays DEF OwnInv
<1>1. /\ printed[r] \in Nat /\ printed[r] <= 1
      /\ pc[r] \in Waits /\ printed[r] = 1 =>
           /\ \E e \in output_cache : e.pid = pid[r]
           /\ \A e \in output_cache : e.pid = pid[r] => ~e.out
  BY <1>0 DEF Shape, Numbers, Thread, LoggedOnce, Cached
<1>2. CASE printed'[r] = 0
  BY <1>2
<1>3. CASE printed'[r] = printed[r] /\ ~Exec(r)
  <2>1. SUFFICES ASSUME pc'[r] \in Waits, printed[r] = 1
                 PROVE  /\ \E e \in output_cache' : e.pid = pid'[r]
                        /\ \A e \in output_cache' : e.pid = pid'[r] => ~e.out
    BY <1>1, <1>3
  <2>2. /\ pc[r] \in Waits /\ pid'[r] = pid[r]
        /\ \E e \in output_cache : e.pid = pid[r]
        /\ \A e \in output_cache : e.pid = pid[r] => ~e.out
    BY <1>1, <1>3, <2>1, WaitMove
  <2>3. CASE output_cache' = output_cache
    BY <2>2, <2>3
  <2>4. ASSUME NEW t \in Thread, NEW p \in procs, NEW e \in Entry, Noted(t, p, e)
        PROVE  e.pid # pid[r] /\ output_cache' = output_cache \cup {e}
    BY <2>2, <2>4 DEF Noted, Cached
  <2>5. ASSUME NEW e \in output_cache, NEW f \in Entry, Streamed(e, f)
        PROVE  /\ \E g \in output_cache' : g.pid = pid[r]
               /\ \A g \in output_cache' : g.pid = pid[r] => ~g.out
    BY <2>2, <2>5 DEF Streamed
  <2>6. ~ResetCache
    BY <2>2 DEF ResetCache, Joined, Waits
  <2>7. \/ output_cache' = output_cache
        \/ \E t \in Thread : \E p \in procs : \E e \in Entry : Noted(t, p, e)
        \/ \E e \in output_cache : \E f \in Entry : Streamed(e, f)
    BY <1>0, <2>6, StepEffect, Restarting DEF Effect, Quiet, Spawned, Ended
  <2>. QED BY <2>2, <2>3, <2>4, <2>5, <2>7
<1>4. ASSUME pc[r] \in Waits, pid'[r] = pid[r], NEW e \in Cached(pid[r]), NEW f \in Entry,
             Streamed(e, f), printed'[r] = IF e.out THEN printed[r] + 1 ELSE printed[r]
      PROVE  /\ printed'[r] <= 1
             /\ \E g \in output_cache' : g.pid = pid'[r]
             /\ \A g \in output_cache' : g.pid = pid'[r] => ~g.out
  <2>1. e \in output_cache /\ e.pid = pid[r]
    BY DEF Cached
  <2>2. e.out => printed[r] = 0
    BY <1>1, <1>4, <2>1
  <2>3. printed'[r] <= 1
    BY <1>1, <1>4, <2>2
  <2>4. /\ f.pid = pid[r] /\ ~f.out /\ output_cache' = (output_cache \ {e}) \cup {f}
    BY <1>4, <2>1 DEF Streamed
  <2>5. \A g \in output_cache : g.pid = pid[r] => g = e
    BY <1>0, <2>1 DEF CacheIsFresh
  <2>. QED BY <1>4, <2>3, <2>4, <2>5
<1>5. ASSUME pc[r] \in Waits, pid'[r] = pid[r], NEW p \in procs, NEW e \in Entry,
             Noted(r, p, e), ~e.out, printed'[r] = printed[r] + 1
      PROVE  /\ printed'[r] <= 1
             /\ \E g \in output_cache' : g.pid = pid'[r]
             /\ \A g \in output_cache' : g.pid = pid'[r] => ~g.out
  <2>1. /\ e.pid = pid[r] /\ output_cache' = output_cache \cup {e}
        /\ \A g \in output_cache : g.pid # pid[r]
    BY <1>5 DEF Noted, Cached
  <2>2. printed[r] = 0
    BY <1>1, <1>5, <2>1
  <2>. QED BY <1>5, <2>1, <2>2
<1>. QED BY <1>0, <1>2, <1>3, <1>4, <1>5, PrintedMove

LEMMA LoggedInit == Init => LoggedOnce
<1>. SUFFICES ASSUME Init, NEW r \in Runner PROVE printed[r] = 0
  BY DEF LoggedOnce
<1>. QED BY DEF Init, Thread

LoggedInTime == InTime => LoggedOnce

\* For any number of threads: what a process wrote is logged once (print_output,
\* _get_stream), unless the answers were mixed up.
THEOREM OutputIsLoggedOnce == Spec => []OutputOnce
<1>1. LoggedInTime => OutputOnce
  BY DEF LoggedInTime, InTime, LoggedOnce, OutputOnce
<1>2. Init => LoggedInTime
  BY LoggedInit DEF LoggedInTime
<1>3. OwnInTime /\ LoggedInTime /\ [Next]_vars => LoggedInTime'
  <2>. SUFFICES ASSUME OwnInTime, LoggedInTime, [Next]_vars, InTime' PROVE LoggedOnce'
    BY DEF LoggedInTime
  <2>1. InTime /\ Step
    BY InTimeStep DEF OwnInTime
  <2>. QED BY <2>1, LoggedStep DEF OwnInTime, LoggedInTime
<1>. QED BY <1>1, <1>2, <1>3, OwnInvariant, PTL DEF Spec

-------------------------------------------------------------------------------
(* How often a resource is started.                                        *)

\* A resource that wants no reboot is not told to reboot.
NeverAsked ==
  \A r \in Runner : Wants[r] = "nothing" =>
    /\ r \notin reboot_file
    /\ \A p \in procs : p.by = r => ~p.yes
    /\ \A e \in output_cache : e.of.by = r => ~e.of.yes
    /\ pc[r] # "requeue" /\ (pc[r] = "log" => job[r] = "check")
    /\ reboots > 0 => pc[r] \in {"done", "failed"}

\* The start of the resource is still to come.
Ahead(r) ==
  \/ pc[r] = "ready" \/ job[r] \in {"mkdir", "write", "chmod", "delete"}
  \/ job[r] = "main" /\ pc[r] \in {"exec", "close", "connect"}
  \/ pc[r] = "requeue" /\ handler # "join"

Reboots(r) == IF Wants[r] = "nothing" THEN 0 ELSE reboots

StartsCounted ==
  \A r \in Runner : runs[r] <= lost + Reboots(r) + IF Ahead(r) THEN 0 ELSE 1

NotMixedYet == reboots = 0 => mixed = {} /\ handler = "join"

StartsInv == NotMixedYet /\ NeverAsked /\ StartsCounted

\* A runner moves by its own actions, and by those of the main thread.
LEMMA RunnerMove ==
  ASSUME Shape, Step, NEW r \in Runner
  PROVE  \/ UNCHANGED <<pc[r], job[r], runs[r], handler>>
         \/ (Acts(r) \/ RunnerActs(r)) /\ handler' = handler
         \/ ResetCache \/ Restarts
<1>. USE DEF Goto, Reconnect, agentVars, threadVars, ghosts
<1>0. /\ r \in Thread /\ DOMAIN pc = Thread /\ DOMAIN job = Thread /\ DOMAIN runs = Thread
      /\ Places
  BY DEF Shape, Numbers, Places, Thread
<1>. DEFINE Stays == UNCHANGED <<pc[r], job[r], runs[r]>>
<1>1. ASSUME NEW t \in Thread, Acts(t) PROVE handler' = handler /\ (t # r => Stays)
  <2>1. CASE Exec(t) \/ ExecFails(t)
    <3>1. handler' = handler /\ pc[t] = "exec"
      BY <2>1, Spawns
    <3>2. t # r => runs'[r] = runs[r]
      BY <1>0, <2>1, Spawns
    <3>3. \E where, what : Goto(t, where, what)
      <4>1. CASE Exec(t)
        BY <4>1 DEF Exec, GivenPid
      <4>2. CASE ExecFails(t)
        <5>1. NoPid(t) \/ Goto(t, "blocked", job[t])
          BY <4>2 DEF ExecFails, ExecBreaks, ExecBlocks
        <5>. QED BY <1>0, <3>1, <5>1, NoPidMoves
      <4>. QED BY <2>1, <4>1, <4>2
    <3>. QED BY <1>0, <3>1, <3>2, <3>3
  <2>2. CASE Moves(t)
    <3>1. handler' = handler /\ runs' = runs
      BY <2>2, OnlyMoves
    <3>2. UNCHANGED <<pc, job>> \/ \E where, what : Goto(t, where, what)
      BY <1>0, <2>2, MovesMove
    <3>. QED BY <1>0, <3>1, <3>2
  <2>3. CASE Polled(t)
    <3>1. PICK p : Then(t, p)
      BY <2>3 DEF Polled
    <3>2. pc[t] = "poll" /\ runs' = runs /\ handler' = handler
      BY <2>3 DEF Polled
    <3>3. \E where, what : Goto(t, where, what)
      BY <1>0, <3>1, <3>2, ThenAllowed
    <3>. QED BY <1>0, <3>2, <3>3
  <2>4. CASE PollLost(t)
    <3>1. pc[t] = "poll" /\ runs' = runs /\ handler' = handler
      BY <2>4 DEF PollLost
    <3>2. job[t] \in Jobs /\ job[t] # "write"
      BY <1>0, <3>1 DEF Places, Allowed
    <3>3. \E where, what : Goto(t, where, what)
      BY <2>4, <3>2 DEF PollLost, Jobs, RunnerJobs
    <3>. QED BY <1>0, <3>1, <3>3
  <2>. QED BY <1>1, <2>1, <2>2, <2>3, <2>4 DEF Acts
<1>2. ASSUME NEW t \in Runner, RunnerActs(t) PROVE handler' = handler /\ (t # r => Stays)
  <2>1. runs' = runs /\ handler' = handler
    BY <1>2 DEF RunnerActs, Start, Log, Write, PrintOutput, Stderr, WriteLost, TooShort
  <2>2. UNCHANGED <<pc, job>> \/ \E where, what : Goto(t, where, what)
    BY <1>2 DEF RunnerActs, Start, Log, Write, PrintOutput, Stderr, WriteLost, TooShort
  <2>. QED BY <1>0, <2>1, <2>2
<1>3. ASSUME NEW w \in Watcher, LookAgain(w) PROVE handler' = handler /\ Stays
  BY <1>0, <1>3, AgentAssumption DEF LookAgain
<1>4. ASSUME UNCHANGED vars \/ \E p \in procs : Exit(p) PROVE handler' = handler /\ Stays
  BY <1>4 DEF vars, Exit
<1>. QED BY <1>1, <1>2, <1>3, <1>4 DEF Step, StepInTime

LEMMA NotMixedStep ==
  ASSUME Shape, ProcessesApart, NotMixedYet, Step PROVE NotMixedYet'
<1>1. reboots \in Nat
  BY DEF Shape, Numbers
<1>2. CASE ResetCache
  BY <1>1, <1>2 DEF ResetCache, NotMixedYet
<1>3. CASE Restarts
  BY <1>1, <1>3, Restarting DEF NotMixedYet
<1>4. CASE ~ResetCache /\ ~Restarts
  <2>1. handler' = handler /\ (mixed' = mixed \/ Noting)
    BY <1>4, StepEffect DEF Effect, Quiet, Spawned, Ended, Noted, Streamed
  <2>2. reboots' = reboots \/ reboots' = reboots + 1
    BY NumbersMove
  <2>. QED BY <1>1, <2>1, <2>2 DEF NotMixedYet, Noting
<1>. QED BY <1>2, <1>3, <1>4

\* Only a process that ends makes or deletes a reboot file.
LEMMA OnlyExitMakesFile ==
  ASSUME Step PROVE reboot_file' = reboot_file \/ \E p \in procs : Exit(p)
<1>. USE DEF agentVars
<1>1. ASSUME NEW t \in Thread, Acts(t) PROVE reboot_file' = reboot_file
  BY <1>1, Spawns, OnlyMoves DEF Acts, Polled, PollLost
<1>2. ASSUME NEW r \in Runner, RunnerActs(r) PROVE reboot_file' = reboot_file
  BY <1>2 DEF RunnerActs, Start, Log, Write, PrintOutput, Stderr, WriteLost, TooShort
<1>3. ASSUME (\E w \in Watcher : LookAgain(w)) \/ ResetCache \/ Restarts \/ UNCHANGED vars
      PROVE  reboot_file' = reboot_file
  BY <1>3, Restarting DEF LookAgain, ResetCache, vars
<1>. QED BY <1>1, <1>2, <1>3 DEF Step, StepInTime

\* What processes tell of a runner that wants no reboot.
TellsNo(r) ==
  /\ r \notin reboot_file
  /\ \A p \in procs : p.by = r => ~p.yes
  /\ \A e \in output_cache : e.of.by = r => ~e.of.yes

LEMMA TellsNoStep ==
  ASSUME Shape, ProcessesApart, Step, NEW r \in Runner, Wants[r] = "nothing", TellsNo(r)
  PROVE  TellsNo(r)'
<1>. USE DEF TellsNo
<1>1. r \notin reboot_file'
  <2>1. ASSUME NEW p \in procs, Exit(p) PROVE r \notin reboot_file'
    <3>1. \/ reboot_file' = reboot_file \cup {p.by} /\ Wants[p.by] = "file"
          \/ reboot_file' \subseteq reboot_file
      BY <2>1 DEF Exit, AsksReboot
    <3>. QED BY <3>1
  <2>2. reboot_file' = reboot_file \/ \E p \in procs : Exit(p)
    BY OnlyExitMakesFile
  <2>. QED BY <2>1, <2>2
<1>2. ASSUME NEW t \in Thread, Spawned(t)
      PROVE  \A p \in procs' : p.by = r => ~p.yes
  <2>. DEFINE new == Started(t, next_pid)
  <2>1. ~new.yes
    BY StartedProcess
  <2>2. procs' = procs \cup {new}
    BY <1>2 DEF Spawned
  <2>. HIDE DEF new
  <2>. QED BY <2>1, <2>2
<1>3. ASSUME NEW p \in procs, NEW q \in Process, Ended(p, q)
      PROVE  \A o \in procs' : o.by = r => ~o.yes
  <2>1. p.by = r => ~Tells(p)
    BY DEF Tells, AsksReboot
  <2>. QED BY <1>3, <2>1 DEF Ended
<1>4. \A p \in procs' : p.by = r => ~p.yes
  BY <1>2, <1>3, StepEffect, Restarting DEF Effect, Quiet, Noted, Streamed, ResetCache, agentVars
<1>5. ASSUME NEW t \in Thread, NEW p \in procs, NEW e \in Entry, Noted(t, p, e)
      PROVE  \A f \in output_cache' : f.of.by = r => ~f.of.yes
  BY <1>5 DEF Noted
<1>6. ASSUME NEW e \in output_cache, NEW f \in Entry, Streamed(e, f)
      PROVE  \A g \in output_cache' : g.of.by = r => ~g.of.yes
  BY <1>6 DEF Streamed
<1>7. \A e \in output_cache' : e.of.by = r => ~e.of.yes
  BY <1>5, <1>6, StepEffect, Restarting DEF Effect, Quiet, Spawned, Ended, ResetCache
<1>. QED BY <1>1, <1>4, <1>7

\* Only the main thread's reset of the cache is counted as a reboot.
LEMMA RebootCounts == ASSUME Step, ~ResetCache PROVE reboots' = reboots
<1>. USE DEF ghosts
<1>1. ASSUME NEW t \in Thread, Acts(t) PROVE reboots' = reboots
  BY <1>1, Spawns, OnlyMoves DEF Acts, Polled, PollLost
<1>2. ASSUME NEW r \in Runner, RunnerActs(r) PROVE reboots' = reboots
  BY <1>2 DEF RunnerActs, Start, Log, Write, PrintOutput, Stderr, WriteLost, TooShort
<1>3. ASSUME \/ \E w \in Watcher : LookAgain(w)
             \/ \E p \in procs : Exit(p)
             \/ Restarts \/ UNCHANGED vars
      PROVE  reboots' = reboots
  BY <1>3, Restarting DEF LookAgain, Exit, vars
<1>. QED BY <1>1, <1>2, <1>3 DEF Step, StepInTime

\* A thread that has ended does nothing more.
LEMMA EndedStays ==
  ASSUME Shape, Step, NEW r \in Runner, pc[r] \in {"done", "failed"}
  PROVE  UNCHANGED <<pc[r], job[r], runs[r]>>
<1>1. ~Acts(r)
  BY DEF Acts, Exec, ExecFails, ExecBreaks, ExecBlocks, Moves, ExecRaises, PolledRunning,
     StatusFails, Close, Connect, Interrupted, ConnectFails, Polled, PollLost
<1>2. ~RunnerActs(r)
  BY DEF RunnerActs, Start, Log, Write, PrintOutput, Stderr, WriteLost, TooShort
<1>3. Restarts => UNCHANGED <<pc[r], job[r], runs[r]>>
  BY Restarting DEF Thread
<1>4. ResetCache => UNCHANGED <<pc[r], job[r], runs[r]>>
  BY DEF ResetCache, threadVars
<1>. QED BY <1>1, <1>2, <1>3, <1>4, RunnerMove

\* Where a runner goes on the exit of a process that asks for no reboot.
LEMMA ThenNoReboot ==
  ASSUME Places, NEW r \in Runner, pc[r] = "poll", NEW p, ~p.yes, Then(r, p)
  PROVE  pc'[r] # "requeue" /\ (pc'[r] = "log" => job'[r] = "check")
<1>1. /\ r \in Thread /\ DOMAIN pc = Thread /\ DOMAIN job = Thread /\ job[r] \in RunnerJobs
      /\ job[r] # "write"
  BY AgentAssumption DEF Places, Allowed, Thread
<1>2. /\ job[r] = "mkdir" => Goto(r, "write", "write")
      /\ job[r] \in {"chmod", "delete"} => Goto(r, "exec", "main")
      /\ job[r] = "main" => Goto(r, "log", "check")
      /\ job[r] = "check" => Goto(r, "done", "check")
  BY DEF Then
<1>. QED BY <1>1, <1>2 DEF Goto, RunnerJobs

LEMMA NeverAskedStep ==
  ASSUME Shape, OwnInv, NotMixedYet, NeverAsked, Step PROVE NeverAsked'
<1>. SUFFICES ASSUME NEW r \in Runner, Wants[r] = "nothing"
     PROVE  /\ TellsNo(r)'
            /\ pc'[r] # "requeue" /\ (pc'[r] = "log" => job'[r] = "check")
            /\ reboots' > 0 => pc'[r] \in {"done", "failed"}
  BY DEF NeverAsked, TellsNo
<1>0. /\ TellsNo(r)
      /\ pc[r] # "requeue" /\ (pc[r] = "log" => job[r] = "check")
      /\ reboots > 0 => pc[r] \in {"done", "failed"}
  BY DEF NeverAsked, TellsNo
<1>1. /\ r \in Thread /\ DOMAIN pc = Thread /\ DOMAIN job = Thread /\ Places
      /\ Allowed(r, pc[r], job[r]) /\ job[r] \in RunnerJobs
  BY AgentAssumption DEF Shape, Places, Thread, Allowed
<1>2. TellsNo(r)'
  BY <1>0, TellsNoStep DEF OwnInv
<1>3. CASE pc[r] \in {"done", "failed"}
  BY <1>2, <1>3, EndedStays
<1>4. CASE pc[r] \notin {"done", "failed"}
  <2>1. reboots = 0 /\ handler = "join" /\ mixed = {}
    BY <1>0, <1>4 DEF Shape, Numbers, NotMixedYet
  <2>2. ~ResetCache
    BY <1>0, <1>4 DEF ResetCache, Joined
  <2>3. ~Restarts
    BY <2>1, Restarting
  <2>4. reboots' = 0
    BY <2>1, <2>2, <2>3, RebootCounts
  <2>. SUFFICES pc'[r] # "requeue" /\ (pc'[r] = "log" => job'[r] = "check")
    BY <1>2, <2>4
  <2>5. CASE Polled(r)
    <3>1. PICK a : Answered(r, a) /\ Then(r, a.of) /\ a \in Cached(pid[r]) \cup Entries(pid[r], Known(pid[r]))
      BY <2>5 DEF Polled
    <3>2. pc[r] = "poll" /\ UNCHANGED <<next_pid, boot, handler>>
      BY <2>5 DEF Polled
    <3>3. a.of.by = r
      BY <2>1, <3>1, <3>2, AnswerIsOwn DEF OwnInv
    <3>4. a \in output_cache \/ a.of \in procs
      BY <1>1, <3>1, EntryMade DEF Cached
    <3>5. ~a.of.yes
      BY <1>0, <3>3, <3>4 DEF TellsNo
    <3>. QED BY <1>1, <3>1, <3>2, <3>5, ThenNoReboot
  <2>6. CASE PollLost(r)
    <3>1. pc[r] = "poll" /\ job[r] # "write"
      BY <1>1, <2>6 DEF PollLost, Allowed
    <3>. QED BY <1>1, <2>6, <3>1 DEF PollLost, Goto, Reconnect, RunnerJobs
  <2>7. CASE Exec(r) \/ ExecFails(r)
    <3>1. \E where \in {"poll", "close", "exec", "blocked"} : \E what : Goto(r, where, what)
      <4>1. CASE Exec(r)
        BY <4>1 DEF Exec, GivenPid
      <4>2. CASE ExecFails(r)
        <5>1. (NoPid(r) \/ Goto(r, "blocked", job[r])) /\ pc[r] = "exec"
          BY <4>2 DEF ExecFails, ExecBreaks, ExecBlocks
        <5>. QED BY <1>1, <5>1, NoPidMoves
      <4>. QED BY <2>7, <4>1, <4>2
    <3>. QED BY <1>1, <3>1 DEF Goto
  <2>8. CASE Moves(r)
    <3>1. \/ UNCHANGED <<pc, job>>
          \/ \E where, what : Goto(r, where, what) /\ where \notin {"requeue", "log"}
      BY <1>1, <2>8, MovesMove
    <3>. QED BY <1>0, <1>1, <3>1 DEF Goto
  <2>9. CASE RunnerActs(r)
    <3>1. CASE Log(r)
      BY <1>0, <1>1, <3>1 DEF Log, Goto
    <3>2. CASE ~Log(r)
      <4>1. \/ UNCHANGED <<pc, job>>
            \/ \E where, what : Goto(r, where, what) /\ where \notin {"requeue", "log"}
        BY <2>9, <3>2 DEF RunnerActs, Start, Write, PrintOutput, Stderr, WriteLost, TooShort,
           Reconnect
      <4>. QED BY <1>0, <1>1, <4>1 DEF Goto
    <3>. QED BY <3>1, <3>2
  <2>10. CASE UNCHANGED <<pc[r], job[r], runs[r]>>
    BY <1>0, <2>10
  <2>. QED BY <2>2, <2>3, <2>5, <2>6, <2>7, <2>8, <2>9, <2>10, RunnerMove DEF Acts
<1>. QED BY <1>3, <1>4

\* How the count of starts changes with where a runner is.
LEMMA StartMove ==
  ASSUME Shape, NeverAsked, Step, NEW r \in Runner
  PROVE  \/ runs'[r] = runs[r] /\ (Ahead(r)' => Ahead(r))
         \/ runs'[r] = runs[r] + 1 /\ Ahead(r) /\ ~Ahead(r)'
         \/ lost' = lost + 1 /\ runs'[r] = runs[r]
         \/ lost' = lost + 1 /\ runs'[r] = runs[r] + 1 /\ (Ahead(r)' => Ahead(r))
         \/ reboots' = reboots + 1 /\ runs'[r] = runs[r] /\ (Wants[r] = "nothing" => ~Ahead(r)')
<1>. USE DEF Ahead, Goto, Reconnect, agentVars, threadVars, ghosts
<1>1. /\ r \in Thread /\ DOMAIN pc = Thread /\ DOMAIN job = Thread /\ DOMAIN runs = Thread
      /\ Allowed(r, pc[r], job[r]) /\ r \notin Watcher /\ job[r] \in RunnerJobs
      /\ Places /\ runs[r] \in Nat
  BY AgentAssumption DEF Shape, Numbers, Places, Thread, Allowed
<1>2. CASE UNCHANGED <<pc[r], job[r], runs[r], handler>>
  BY <1>2
<1>3. CASE ResetCache
  <2>1. pc[r] \in {"done", "failed", "requeue"}
    BY <1>3 DEF ResetCache, Joined
  <2>2. UNCHANGED <<pc, job, runs>> /\ reboots' = reboots + 1 /\ handler' # "join" /\ handler = "join"
    BY <1>3 DEF ResetCache
  <2>. QED BY <2>1, <2>2 DEF NeverAsked
<1>4. CASE Restarts
  BY <1>1, <1>4, Restarting
<1>5. CASE handler' = handler /\ Exec(r)
  <2>1. /\ pc[r] = "exec" /\ pc'[r] = "poll" /\ job'[r] = job[r] /\ handler' = handler
        /\ runs'[r] = IF job[r] \in {"main", "look"} THEN runs[r] + 1 ELSE runs[r]
    BY <1>1, <1>5 DEF Exec, SpawnNew, Spawn, GivenPid
  <2>2. CASE job[r] = "main"
    BY <2>1, <2>2
  <2>3. CASE job[r] # "main"
    BY <1>1, <2>1, <2>3 DEF RunnerJobs
  <2>. QED BY <2>2, <2>3
<1>6. CASE handler' = handler /\ ExecFails(r)
  <2>1. pc[r] = "exec" /\ lost' = lost + 1
    BY <1>6, Spawns DEF ExecFails, ExecBreaks, ExecBlocks, Lose
  <2>2. runs'[r] = runs[r] \/ runs'[r] = runs[r] + 1
    BY <1>1, <1>6, Spawns
  <2>3. Ahead(r)' => Ahead(r)
    <3>1. NoPid(r) \/ Goto(r, "blocked", job[r])
      BY <1>6 DEF ExecFails, ExecBreaks, ExecBlocks
    <3>2. CASE NoPid(r)
      BY <1>1, <1>6, <2>1, <3>2, NoPidMoves
    <3>3. CASE Goto(r, "blocked", job[r])
      BY <1>1, <1>6, <2>1, <3>3
    <3>. QED BY <3>1, <3>2, <3>3
  <2>. QED BY <2>1, <2>2, <2>3
<1>7. CASE handler' = handler /\ (PollLost(r) \/ TooShort(r))
  BY <1>7 DEF PollLost, StatusLost, TooShort, Lose
<1>8. CASE handler' = handler /\ Polled(r)
  <2>1. PICK p : Then(r, p)
    BY <1>8 DEF Polled
  <2>2. runs' = runs /\ pc[r] = "poll"
    BY <1>8 DEF Polled
  <2>3. Ahead(r)' => Ahead(r)
    <3>1. CASE job[r] \in {"mkdir", "write", "chmod", "delete"}
      BY <3>1
    <3>2. CASE job[r] = "main"
      BY <1>1, <1>8, <2>1, <2>2, <3>2 DEF Then
    <3>3. CASE job[r] = "check"
      <4>1. handler = "join"
        BY <1>1, <2>2 DEF Places, Joined
      <4>. QED BY <1>1, <1>8, <2>1, <2>2, <3>3, <4>1 DEF Then
    <3>. QED BY <1>1, <3>1, <3>2, <3>3 DEF RunnerJobs
  <2>. QED BY <2>2, <2>3
<1>9. CASE handler' = handler /\ Moves(r)
  <2>1. runs' = runs
    BY <1>9, OnlyMoves
  <2>2. CASE UNCHANGED <<pc, job>>
    BY <1>9, <2>1, <2>2
  <2>3. CASE ~UNCHANGED <<pc, job>>
    <3>1. PICK where :
            /\ Goto(r, where, job[r])
            /\ where \in {"exec", "close", "connect"} =>
                 /\ pc[r] # "poll" /\ pc[r] # "print"
                 /\ pc[r] = "blocked" => job[r] = "mkdir"
            /\ where \notin {"requeue", "done", "ready", "log"}
      BY <1>1, <1>9, <2>3, MovesMove
    <3>2. pc[r] \in {"poll", "print", "exec", "close", "connect", "blocked"}
      BY <1>1, <1>9, <2>3, MovesMove
    <3>3. pc'[r] = where /\ job'[r] = job[r]
      BY <1>1, <3>1
    <3>. QED BY <2>1, <3>1, <3>2, <3>3
  <2>. QED BY <2>2, <2>3
<1>10. CASE handler' = handler /\ (Start(r) \/ Log(r) \/ PrintOutput(r))
  <2>1. CASE Start(r)
    BY <1>10, <2>1 DEF Start
  <2>2. CASE Log(r)
    <3>1. handler = "join" /\ runs' = runs /\ pc[r] = "log"
      BY <2>2 DEF Log, Places, Joined, Shape
    <3>2. Goto(r, "exec", "check") \/ Goto(r, "requeue", "main")
      BY <2>2 DEF Log
    <3>. QED BY <1>1, <1>10, <3>1, <3>2
  <2>3. CASE PrintOutput(r)
    <3>1. runs' = runs /\ Goto(r, "poll", "main")
      BY <2>3 DEF PrintOutput
    <3>. QED BY <1>1, <1>10, <3>1
  <2>. QED BY <1>10, <2>1, <2>2, <2>3
<1>11. CASE handler' = handler /\ (Write(r) \/ WriteLost(r) \/ Stderr(r))
  <2>1. Ahead(r) /\ runs' = runs
    BY <1>1, <1>11 DEF Write, WriteLost, Stderr, Allowed
  <2>. QED BY <2>1
<1>. QED BY <1>2, <1>3, <1>4, <1>5, <1>6, <1>7, <1>8, <1>9, <1>10, <1>11, RunnerMove
     DEF Acts, RunnerActs

LEMMA CountedStep ==
  ASSUME Shape, NeverAsked, StartsCounted, Step PROVE StartsCounted'
<1>. SUFFICES ASSUME NEW r \in Runner
     PROVE  runs'[r] <= lost' + Reboots(r)' + IF Ahead(r)' THEN 0 ELSE 1
  BY DEF StartsCounted
<1>1. /\ runs[r] \in Nat /\ lost \in Nat /\ reboots \in Nat
      /\ runs[r] <= lost + Reboots(r) + IF Ahead(r) THEN 0 ELSE 1
  BY DEF Shape, Numbers, Thread, StartsCounted
<1>2. /\ lost' = lost \/ lost' = lost + 1
      /\ reboots' = reboots \/ reboots' = reboots + 1
  BY NumbersMove
<1>3. /\ Reboots(r) \in Nat /\ Reboots(r)' \in Nat /\ Reboots(r)' >= Reboots(r)
      /\ reboots' = reboots + 1 /\ Wants[r] # "nothing" => Reboots(r)' = Reboots(r) + 1
  <2>1. CASE Wants[r] = "nothing"
    BY <2>1 DEF Reboots
  <2>2. CASE Wants[r] # "nothing"
    <3>1. Reboots(r) = reboots /\ Reboots(r)' = reboots'
      BY <2>2 DEF Reboots
    <3>2. reboots' >= reboots /\ reboots' \in Nat
      <4>1. reboots \in Nat /\ (reboots' = reboots \/ reboots' = reboots + 1)
        BY <1>1, <1>2
      <4>. QED BY <4>1
    <3>. QED BY <1>1, <3>1, <3>2
  <2>. QED BY <2>1, <2>2
<1>. DEFINE ahead == IF Ahead(r) THEN 0 ELSE 1
            then == IF Ahead(r)' THEN 0 ELSE 1
<1>4. ahead \in {0, 1} /\ then \in {0, 1}
  OBVIOUS
<1>5. \/ runs'[r] = runs[r] /\ then >= ahead
      \/ runs'[r] = runs[r] + 1 /\ ahead = 0 /\ then = 1
      \/ lost' = lost + 1 /\ runs'[r] = runs[r]
      \/ lost' = lost + 1 /\ runs'[r] = runs[r] + 1 /\ then >= ahead
      \/ Reboots(r)' = Reboots(r) + 1 /\ runs'[r] = runs[r]
  BY <1>3, StartMove

<1>6. runs[r] <= lost + Reboots(r) + ahead
  BY <1>1
<1>. HIDE DEF ahead, then
<1>7. runs'[r] <= lost' + Reboots(r)' + then
  BY <1>1, <1>2, <1>3, <1>4, <1>5, <1>6
<1>. QED BY <1>7 DEF then

LEMMA StartsInit == Init => StartsInv
<1>. SUFFICES ASSUME Init PROVE StartsInv
  OBVIOUS
<1>1. /\ procs = {} /\ output_cache = {} /\ reboot_file = {} /\ mixed = {}
      /\ handler = "join" /\ lost = 0 /\ reboots = 0
  BY DEF Init
<1>2. \A r \in Runner : pc[r] = "ready" /\ runs[r] = 0
  BY DEF Init, Thread
<1>3. NotMixedYet /\ NeverAsked
  BY <1>1, <1>2 DEF NotMixedYet, NeverAsked
<1>4. StartsCounted
  BY <1>1, <1>2 DEF StartsCounted, Reboots, Ahead
<1>. QED BY <1>3, <1>4 DEF StartsInv

StartsInTime == InTime => StartsInv

\* For any number of threads and lost answers: a resource is started once, and once
\* more after each reboot it asked for, and again only for an answer that was lost
\* (_run_vm_resource), unless answers came late or a pid was given again.
THEOREM ResourceIsStartedOnce == Spec => []StartedOnce
<1>1. Init => StartsInTime
  BY StartsInit DEF StartsInTime
<1>2. OwnInTime /\ StartsInTime /\ [Next]_vars => StartsInTime'
  <2>. SUFFICES ASSUME OwnInTime, StartsInTime, [Next]_vars, InTime' PROVE StartsInv'
    BY DEF StartsInTime
  <2>1. InTime /\ Step
    BY InTimeStep DEF OwnInTime
  <2>2. Shape /\ OwnInv /\ StartsInv
    BY <2>1 DEF OwnInTime, StartsInTime
  <2>. QED BY <2>1, <2>2, NotMixedStep, NeverAskedStep, CountedStep DEF StartsInv, OwnInv
<1>3. OwnInTime /\ StartsInTime => StartedOnce
  <2>. SUFFICES ASSUME Shape, StartsInv, NEW r \in Runner PROVE runs[r] <= 1 + lost + Reboots(r)
    BY DEF OwnInTime, StartsInTime, InTime, StartedOnce, Reboots
  <2>1. /\ runs[r] \in Nat /\ lost \in Nat /\ Reboots(r) \in Nat
    BY DEF Shape, Numbers, Thread, Reboots
  <2>2. runs[r] <= lost + Reboots(r) + IF Ahead(r) THEN 0 ELSE 1
    BY DEF StartsInv, StartsCounted
  <2>. QED BY <2>1, <2>2
<1>. QED BY <1>1, <1>2, <1>3, OwnInvariant, PTL DEF Spec

-------------------------------------------------------------------------------
(* What becomes of a reboot file.                                          *)

\* The reboot file of a runner is made while the runner waits for its resource.
MainIsAwaited ==
  \A p \in procs : p.job = "main" /\ ~p.ended =>
    \/ pc[p.by] = "failed"
    \/ pc[p.by] \in {"poll", "print"} /\ pid[p.by] = p.pid /\ job[p.by] = "main"

\* A check that found no file is right.
CheckIsRight ==
  \A r \in Runner :
    /\ pc[r] = "poll" /\ job[r] = "check" =>
         /\ \A p \in procs : p.pid = pid[r] /\ p.ended /\ ~p.yes => r \notin reboot_file
         /\ \A e \in Cached(pid[r]) : ~e.of.yes => r \notin reboot_file
    /\ pc[r] = "done" => r \notin reboot_file

FileChecked == mixed = {} /\ lost = 0 => MainIsAwaited /\ CheckIsRight

\* A process whose resource runs on is not answered for.
LEMMA NotAnswered ==
  ASSUME Shape, ProcessesApart, CacheIsFresh, NEW r \in Runner, Polled(r),
         NEW p \in procs, p.pid = pid[r], ~p.ended
  PROVE  FALSE
<1>1. PICK a : Answered(r, a)
  BY DEF Polled
<1>2. UNCHANGED <<next_pid, boot, handler>>
  BY DEF Polled
<1>3. a \notin Cached(pid[r])
  BY DEF Cached, CacheIsFresh
<1>4. PICK q \in procs : Noted(r, q, a)
  BY <1>1, <1>2, <1>3, AnswerNotes DEF Thread
<1>. QED BY <1>4 DEF Noted, ProcessesApart

LEMMA AwaitedStays ==
  ASSUME Shape, ProcessesApart, CacheIsFresh, Step, lost' = lost, lost = 0,
         NEW p \in procs, p.by \in Runner, p.job = "main", ~p.ended,
         \/ pc[p.by] = "failed"
         \/ pc[p.by] \in {"poll", "print"} /\ pid[p.by] = p.pid /\ job[p.by] = "main"
  PROVE  \/ pc'[p.by] = "failed"
         \/ pc'[p.by] \in {"poll", "print"} /\ pid'[p.by] = p.pid /\ job'[p.by] = "main"
<1>. DEFINE r == p.by
<1>. USE DEF Goto, Reconnect, agentVars, threadVars, ghosts
<1>1. /\ r \in Thread /\ DOMAIN pc = Thread /\ DOMAIN job = Thread /\ DOMAIN pid = Thread
      /\ lost + 1 # lost
  BY DEF Shape, Numbers, Places, Thread
<1>2. CASE pc[r] = "failed"
  BY <1>2, EndedStays
<1>3. CASE pc[r] \in {"poll", "print"} /\ pid[r] = p.pid /\ job[r] = "main"
  <2>1. ~Polled(r)
    BY <1>3, NotAnswered
  <2>2. ~ExecFails(r) /\ ~PollLost(r) /\ ~TooShort(r) /\ ~Exec(r)
    BY <1>1, <1>3 DEF Exec, ExecFails, ExecBreaks, ExecBlocks, PollLost, StatusLost, TooShort, Lose
  <2>3. CASE Moves(r)
    <3>1. PolledRunning(r) \/ StatusFails(r)
      BY <1>3, <2>3 DEF Moves, ExecRaises, Close, Connect, Interrupted, ConnectFails
    <3>. QED BY <1>1, <1>3, <3>1 DEF PolledRunning, StatusFails
  <2>4. CASE RunnerActs(r)
    <3>1. PrintOutput(r)
      BY <1>3, <2>4 DEF RunnerActs, Start, Log, Write, WriteLost, Stderr, TooShort
    <3>. QED BY <1>1, <1>3, <3>1 DEF PrintOutput
  <2>5. CASE UNCHANGED <<pc[r], job[r], runs[r]>>
    <3>1. pc'[r] \in Waits /\ ~Exec(r)
      BY <1>3, <2>5 DEF Waits, Exec
    <3>2. pid'[r] = pid[r]
      BY <3>1, WaitMove
    <3>. QED BY <1>3, <2>5, <3>2
  <2>6. ~ResetCache /\ ~Restarts
    BY <1>3, Restarting DEF ResetCache, Shape, Places, Joined
  <2>. QED BY <2>1, <2>2, <2>3, <2>4, <2>5, <2>6, RunnerMove DEF Acts
<1>. QED BY <1>2, <1>3

\* Only guest-exec starts a process.
LEMMA OthersEnd ==
  ASSUME Step
  PROVE  \/ \E t \in Thread : Exec(t) \/ ExecFails(t)
         \/ procs' \subseteq procs
         \/ \E p \in procs : Exit(p)
<1>. USE DEF agentVars
<1>1. ASSUME NEW t, NEW e, Answered(t, e) PROVE procs' \subseteq procs
  BY <1>1 DEF Answered, Reap
<1>2. ASSUME NEW t \in Thread, Polled(t) \/ PollLost(t) \/ Moves(t) PROVE procs' \subseteq procs
  BY <1>1, <1>2, StatusLostInTime, OnlyMoves DEF Polled, PollLost
<1>3. ASSUME NEW r \in Runner, RunnerActs(r) PROVE procs' \subseteq procs
  <2>1. CASE PrintOutput(r)
    BY <2>1, StatusLostInTime DEF PrintOutput, Reap
  <2>2. CASE Stderr(r)
    <3>1. (\E e : Answered(r, e)) \/ procs' = procs \/ StatusLost(r)
      BY <2>2 DEF Stderr
    <3>. QED BY <1>1, <3>1, StatusLostInTime
  <2>3. CASE ~PrintOutput(r) /\ ~Stderr(r)
    BY <1>3, <2>3 DEF RunnerActs, Start, Log, Write, WriteLost, TooShort
  <2>. QED BY <2>1, <2>2, <2>3
<1>4. ASSUME (\E w \in Watcher : LookAgain(w)) \/ ResetCache \/ Restarts \/ UNCHANGED vars
      PROVE  procs' \subseteq procs
  BY <1>4, Restarting DEF LookAgain, ResetCache, vars
<1>. QED BY <1>2, <1>3, <1>4 DEF Step, StepInTime, Acts

LEMMA MainStep ==
  ASSUME Shape, OwnInv, MainIsAwaited, Step, mixed' = {}, lost' = 0, lost = 0
  PROVE  MainIsAwaited'
<1>. SUFFICES ASSUME NEW p \in procs', p.job = "main", ~p.ended
     PROVE  \/ pc'[p.by] = "failed"
            \/ pc'[p.by] \in {"poll", "print"} /\ pid'[p.by] = p.pid /\ job'[p.by] = "main"
  BY DEF MainIsAwaited
<1>1. ProcessesApart /\ CacheIsFresh
  BY MixedStays DEF OwnInv
<1>2. CASE p \in procs
  <2>1. p.by \in Runner
    BY <1>2 DEF Shape, DataTypes
  <2>. QED BY <1>1, <1>2, <2>1, AwaitedStays DEF MainIsAwaited
<1>3. CASE p \notin procs
  <2>1. ASSUME NEW t \in Thread, Exec(t)
        PROVE  pc'[p.by] = "poll" /\ pid'[p.by] = p.pid /\ job'[p.by] = "main"
    <3>. DEFINE new == Started(t, next_pid)
    <3>1. new.pid = next_pid /\ new.by = t /\ new.job = job[t]
      BY StartedProcess
    <3>2. procs' = procs \cup {new}
      BY <2>1 DEF Exec, SpawnNew, Spawn
    <3>. HIDE DEF new
    <3>3. p.pid = next_pid /\ p.by = t /\ job[t] = "main"
      BY <1>3, <3>1, <3>2
    <3>4. pc'[t] = "poll" /\ pid'[t] = next_pid /\ job'[t] = job[t]
      BY <2>1 DEF Exec, GivenPid, Goto, Shape, Numbers, Places
    <3>. QED BY <3>3, <3>4
  <2>2. ASSUME NEW t \in Thread, ExecFails(t) PROVE FALSE
    <3>1. lost' = lost + 1
      BY <2>2 DEF ExecFails, ExecBreaks, ExecBlocks, Lose
    <3>. QED BY <3>1
  <2>3. \/ \E t \in Thread : Exec(t)
        \/ procs' \subseteq procs
        \/ \E q \in procs : Exit(q)
    BY <2>2, OthersEnd
  <2>4. ASSUME NEW q \in procs, Exit(q) PROVE FALSE
    <3>1. PICK o \in Process : Ended(q, o)
      BY <2>4, ExitEffect
    <3>. QED BY <1>3, <3>1 DEF Ended
  <2>. QED BY <1>3, <2>1, <2>3, <2>4
<1>. QED BY <1>2, <1>3

\* A reboot file is made while its runner waits for the resource, or has failed.
LEMMA FileAdded ==
  ASSUME Shape, MainIsAwaited, Step, NEW r \in Runner, r \notin reboot_file
  PROVE  \/ r \notin reboot_file'
         \/ /\ UNCHANGED <<pc, job>>
            /\ pc[r] = "failed" \/ (pc[r] \in {"poll", "print"} /\ job[r] = "main")
<1>1. ASSUME NEW p \in procs, Exit(p), r \in reboot_file'
      PROVE  /\ UNCHANGED <<pc, job>>
             /\ pc[r] = "failed" \/ (pc[r] \in {"poll", "print"} /\ job[r] = "main")
  <2>1. p.job = "main" /\ p.by = r /\ ~p.ended
    BY <1>1 DEF Exit
  <2>. QED BY <1>1, <2>1 DEF Exit, MainIsAwaited, threadVars
<1>. QED BY <1>1, OnlyExitMakesFile

\* What the check of runner r may already have been told.
ToldNo(r) ==
  \/ \E p \in procs : p.pid = pid[r] /\ p.ended /\ ~p.yes
  \/ \E e \in output_cache : e.pid = pid[r] /\ ~e.of.yes

LEMMA CheckStep ==
  ASSUME Shape, OwnInv, MainIsAwaited, CheckIsRight, Step, mixed' = {}, lost' = 0, lost = 0
  PROVE  CheckIsRight'
<1>. SUFFICES ASSUME NEW r \in Runner
     PROVE  /\ pc'[r] = "poll" /\ job'[r] = "check" /\ ToldNo(r)' => r \notin reboot_file'
            /\ pc'[r] = "done" => r \notin reboot_file'
  BY DEF CheckIsRight, ToldNo, Cached
<1>0. mixed = {} /\ ProcessesApart /\ CacheIsFresh /\ OwnProcess
  BY MixedStays DEF OwnInv
<1>1. /\ pc[r] = "poll" /\ job[r] = "check" /\ ToldNo(r) => r \notin reboot_file
      /\ pc[r] = "done" => r \notin reboot_file
  BY DEF CheckIsRight, ToldNo, Cached
<1>2. /\ r \in Thread /\ DOMAIN pc = Thread /\ DOMAIN job = Thread /\ DOMAIN pid = Thread
      /\ Allowed(r, pc[r], job[r]) /\ r \notin Watcher
  BY AgentAssumption DEF Shape, Numbers, Places, Thread
<1>3. lost + 1 # lost
  BY DEF Shape, Numbers
<1>4. ASSUME pc'[r] = "done" PROVE r \notin reboot_file'
  <2>1. pc[r] = "done" \/ Polled(r)
    <3>1. ~Exec(r) /\ ~PollLost(r) /\ ~ExecFails(r) /\ ~TooShort(r)
      BY <1>2, <1>3, <1>4 DEF Exec, GivenPid, Goto, ExecFails, ExecBreaks, ExecBlocks, PollLost,
         StatusLost, TooShort, Lose
    <3>2. Moves(r) => pc[r] = "done"
      <4>1. Moves(r) => \/ pc' = pc
                        \/ \E where : Goto(r, where, job[r]) /\ where # "done"
        BY <1>2, MovesMove DEF Shape
      <4>. QED BY <1>2, <1>4, <4>1 DEF Goto
    <3>3. RunnerActs(r) => pc[r] = "done"
      <4>1. RunnerActs(r) => \/ pc' = pc
                             \/ \E where, what : Goto(r, where, what) /\ where # "done"
        BY DEF RunnerActs, Start, Log, Write, PrintOutput, Stderr, WriteLost, TooShort, Reconnect
      <4>. QED BY <1>2, <1>4, <4>1 DEF Goto
    <3>4. ResetCache => pc[r] = "done"
      BY <1>4 DEF ResetCache, threadVars
    <3>5. Restarts => pc[r] = "done"
      BY <1>2, <1>4, Restarting
    <3>. QED BY <1>4, <3>1, <3>2, <3>3, <3>4, <3>5, RunnerMove DEF Acts
  <2>2. CASE pc[r] = "done"
    BY <1>1, <2>2, FileAdded
  <2>3. CASE Polled(r)
    <3>1. PICK a : Answered(r, a) /\ Then(r, a.of)
      BY <2>3 DEF Polled
    <3>2. pc[r] = "poll" /\ UNCHANGED <<next_pid, boot, handler, reboot_file>>
      BY <2>3 DEF Polled
    <3>3. job[r] = "check" /\ ~a.of.yes
      <4>1. job[r] \in RunnerJobs /\ job[r] # "write"
        BY <1>2, <3>2 DEF Allowed
      <4>2. a.of.job = job[r]
        BY <1>0, <3>1, <3>2, AnswerIsOwn
      <4>. QED BY <1>2, <1>4, <3>1, <4>1, <4>2 DEF Then, Goto, RunnerJobs
    <3>4. ToldNo(r)
      <4>1. a.pid = pid[r] /\ a.of.ended
        BY <1>0, <3>1, <3>2, AnswerIsOwn
      <4>2. CASE a \in Cached(pid[r])
        BY <3>3, <4>1, <4>2 DEF ToldNo, Cached
      <4>3. CASE \E p \in procs : Noted(r, p, a)
        BY <3>3, <4>3 DEF ToldNo, Noted
      <4>. QED BY <1>0, <1>2, <3>1, <3>2, <4>2, <4>3, AnswerNotes
    <3>. QED BY <1>1, <3>2, <3>3, <3>4
  <2>. QED BY <2>1, <2>2, <2>3
<1>5. ASSUME pc'[r] = "poll", job'[r] = "check", ToldNo(r)' PROVE r \notin reboot_file'
  <2>1. CASE Exec(r)
    <3>. DEFINE new == Started(r, next_pid)
    <3>1. new.pid = next_pid /\ ~new.ended
      BY <1>2, StartedProcess
    <3>2. /\ procs' = procs \cup {new} /\ output_cache' = output_cache /\ pid'[r] = next_pid
      BY <1>2, <2>1 DEF Exec, SpawnNew, Spawn, GivenPid
    <3>. HIDE DEF new
    <3>3. /\ \A p \in procs : p.pid # next_pid
          /\ \A e \in output_cache : e.pid # next_pid
      BY <1>0 DEF Shape, Numbers, DataTypes, Process, Entry, ProcessesApart, CacheIsFresh
    <3>. QED BY <1>5, <3>1, <3>2, <3>3 DEF ToldNo
  <2>2. CASE ~Exec(r)
    <3>1. /\ pc[r] \in {"poll", "print"} /\ job[r] = "check" /\ pid'[r] = pid[r]
      BY <1>5, <2>2, WaitMove DEF Waits
    <3>2. pc[r] = "poll"
      BY <1>2, <3>1 DEF Allowed
    <3>3. ~ResetCache /\ ~Restarts
      BY <3>2, Restarting DEF ResetCache, Shape, Places, Joined
    <3>4. ASSUME NEW p \in procs, NEW q \in Process, Ended(p, q), q.pid = pid[r], ~q.yes
          PROVE  r \notin reboot_file
      <4>1. p.by = r /\ p.job = "check"
        <5>1. p \in procs /\ p.pid = pid[r]
          BY <3>4 DEF Ended
        <5>2. pc[r] \in Waits
          BY <3>2 DEF Waits
        <5>3. p.by = r /\ p.job = job[r]
          BY <1>0, <3>2, <5>1, <5>2 DEF OwnProcess
        <5>. QED BY <3>1, <5>3
      <4>. QED BY <3>4, <4>1 DEF Ended, Tells
    <3>5. ASSUME NEW p \in procs, NEW q \in Process, Ended(p, q) PROVE r \notin reboot_file
      <4>1. ToldNo(r) \/ (q.pid = pid[r] /\ ~q.yes)
        BY <1>5, <3>1, <3>5 DEF Ended, ToldNo
      <4>. QED BY <1>1, <3>1, <3>2, <3>4, <3>5, <4>1
    <3>6. ASSUME NEW t \in Thread, Spawned(t) PROVE ToldNo(r)
      <4>. DEFINE new == Started(t, next_pid)
      <4>1. ~new.ended
        BY StartedProcess
      <4>2. procs' = procs \cup {new} /\ output_cache' = output_cache
        BY <3>6 DEF Spawned
      <4>. HIDE DEF new
      <4>. QED BY <1>5, <3>1, <4>1, <4>2 DEF ToldNo
    <3>7. ASSUME NEW t \in Thread, NEW p \in procs, NEW e \in Entry, Noted(t, p, e)
          PROVE  ToldNo(r)
      BY <1>5, <3>1, <3>7 DEF Noted, ToldNo
    <3>8. ASSUME NEW e \in output_cache, NEW f \in Entry, Streamed(e, f) PROVE ToldNo(r)
      BY <1>5, <3>1, <3>8 DEF Streamed, ToldNo
    <3>9. ASSUME Quiet PROVE ToldNo(r)
      BY <1>5, <3>1, <3>9 DEF Quiet, ToldNo
    <3>10. r \notin reboot_file
      BY <1>0, <1>1, <3>1, <3>2, <3>3, <3>5, <3>6, <3>7, <3>8, <3>9, StepEffect DEF Effect
    <3>. QED BY <3>1, <3>2, <3>10, FileAdded
  <2>. QED BY <2>1, <2>2
<1>. QED BY <1>4, <1>5

LEMMA CheckedStep == Shape /\ OwnInv /\ FileChecked /\ Step => FileChecked'
<1>. SUFFICES ASSUME Shape, OwnInv, FileChecked, Step, mixed' = {}, lost' = 0
     PROVE  MainIsAwaited' /\ CheckIsRight'
  BY DEF FileChecked
<1>1. lost \in Nat /\ (lost' = lost \/ lost' = lost + 1)
  BY NumbersMove DEF Shape, Numbers
<1>2. lost = 0
  BY <1>1
<1>3. mixed = {}
  BY MixedStays DEF OwnInv
<1>. QED BY <1>2, <1>3, MainStep, CheckStep DEF FileChecked

LEMMA CheckedInit == Init => FileChecked
<1>. SUFFICES ASSUME Init PROVE MainIsAwaited /\ CheckIsRight
  BY DEF FileChecked
<1>1. procs = {} /\ reboot_file = {}
  BY DEF Init
<1>. QED BY <1>1 DEF MainIsAwaited, CheckIsRight

CheckedInTime == InTime => FileChecked

\* For any number of threads: a resource that asked for a reboot by its file gets it
\* (check_for_reboot), unless an answer was lost or the answers were mixed up.
THEOREM RebootIsHonoured == Spec => []RebootHonoured
<1>1. CheckedInTime => RebootHonoured
  BY DEF CheckedInTime, InTime, FileChecked, CheckIsRight, RebootHonoured
<1>2. Init => CheckedInTime
  BY CheckedInit DEF CheckedInTime
<1>3. OwnInTime /\ CheckedInTime /\ [Next]_vars => CheckedInTime'
  <2>. SUFFICES ASSUME OwnInTime, CheckedInTime, [Next]_vars, InTime' PROVE FileChecked'
    BY DEF CheckedInTime
  <2>1. InTime /\ Step
    BY InTimeStep DEF OwnInTime
  <2>. QED BY <2>1, CheckedStep DEF OwnInTime, CheckedInTime
<1>. QED BY <1>1, <1>2, <1>3, OwnInvariant, PTL DEF Spec

================================================================================
