------------------------------ MODULE GuestAgent ------------------------------
(***************************************************************************)
(* How the handler runs VM resources through the QEMU guest agent          *)
(* (vm_resource_handler.py: _run_vm_resource, check_for_reboot, reboot and *)
(* connect_to_driver, on top of abstract_driver.py and                     *)
(* drivers/qemu_guest_agent_driver.py).  Whatever a thread does in the     *)
(* guest is a job: guest-exec starts a process, guest-exec-status is asked *)
(* until the process has exited, and what it answers is kept per pid.      *)
(* The driver's lock makes a command and its answer one step; but answers  *)
(* carry no id, and one that comes after its command timed out is taken by *)
(* the next command, whose own answer is then left for the one after it.   *)
(***************************************************************************)
EXTENDS Naturals, FiniteSets

CONSTANTS
    Runner,     \* threads that run a resource of negative time
    Watcher,    \* threads that transfer a file and are never joined
    Wants,      \* Wants[r]: how the resource asks for a reboot, if it does
    Preloaded,  \* the runners whose files were put into the VM before
    Powershell, \* the runners whose executable is powershell
    MaxLost,    \* mishaps at most: answers lost or late, a pid given again, ...
    Looks       \* times a watcher looks for its file

Thread == Runner \cup Watcher

ASSUME AgentAssumption ==
    /\ IsFiniteSet(Runner) /\ Runner \cap Watcher = {}
    /\ Wants \in [Runner -> {"nothing", "exit 10", "file"}]
    /\ Preloaded \subseteq Runner /\ Powershell \subseteq Runner
    /\ MaxLost \in Nat /\ Looks \in Nat

VARIABLES
    boot,        \* how often the VM was started
    procs,       \* the processes the agent knows
    next_pid,
    reboot_file, \* the runners whose reboot file exists
    connected,
    stray,       \* the answer, if any, that waits for the wrong command
    output_cache,\* what the driver knows of processes that have exited
    pc, job,     \* what a thread does, for which job
    pid,         \* the pid it was given
    reboot,      \* schedule_entry.reboot
    handler,     \* what the main thread does meanwhile
    lost,
    \* Only for the properties:
    runs,        \* how often the resource was started
    reboots,     \* how often the main thread rebooted the VM, or tried to
    printed,     \* how often the output of that process was logged
    mistaken,    \* threads that took the exit of another process for theirs
    mixed        \* what mixed the answers up: an exit noted between the reset of
                 \* the cache and the shutdown, a pid given again, a late reply

agentVars == <<boot, procs, next_pid, reboot_file>>
socketVars == <<connected, stray>>
threadVars == <<pc, job, pid, reboot>>
ghosts == <<runs, reboots, printed, mistaken, mixed>>
vars == <<agentVars, socketVars, output_cache, threadVars, handler, lost, ghosts>>

Init ==
    /\ boot = 1 /\ procs = {} /\ next_pid = 1 /\ reboot_file = {}
    /\ connected = TRUE /\ stray = {} /\ output_cache = {}
    /\ pc = [t \in Thread |-> IF t \in Runner THEN "ready" ELSE "sleep"]
    /\ job = [t \in Thread |-> IF t \in Runner THEN "main" ELSE "look"]
    /\ pid = [t \in Thread |-> 0]
    /\ reboot = [r \in Runner |-> FALSE]
    /\ handler = "join" /\ lost = 0
    /\ runs = [t \in Thread |-> 0] /\ printed = [t \in Thread |-> 0]
    /\ reboots = 0 /\ mistaken = {} /\ mixed = {}

Goto(t, where, what) ==
    /\ pc' = [pc EXCEPT ![t] = where]
    /\ job' = [job EXCEPT ![t] = what]

\* connect_to_driver, and then the job anew.
Reconnect(t, what) == Goto(t, "close", what)

Lose == lost < MaxLost /\ lost' = lost + 1

\* The driver's lock: it is held for good by a thread whose command has no timeout
\* and whose answer is lost.
Free == \A t \in Thread : pc[t] # "blocked"

Tag(cause) == mixed' = mixed \cup {cause}

-----------------------------------------------------------------------------
(* The guest.                                                              *)

Started(t, n) == [pid |-> n, boot |-> boot, by |-> t, job |-> job[t],
                  ended |-> FALSE, yes |-> FALSE]

\* A resource that wants a reboot wants it the first time only.
AsksReboot(r, how) == Wants[r] = how /\ boot = 1

\* A process ends.  "yes" is what it tells by its exit code or output: that a
\* reboot is asked for, or that the file exists.
Exit(p) ==
    /\ p \in procs /\ ~p.ended
    /\ \E yes \in BOOLEAN :
         /\ yes = CASE p.job = "main" -> AsksReboot(p.by, "exit 10")
                    [] p.job = "check" -> p.by \in reboot_file
                    [] OTHER -> FALSE
         /\ procs' = (procs \ {p}) \cup {[p EXCEPT !.ended = TRUE, !.yes = yes]}
    /\ reboot_file' =
         CASE p.job = "main" /\ AsksReboot(p.by, "file") -> reboot_file \cup {p.by}
           [] p.job = "delete" -> reboot_file \ {p.by}
           [] OTHER -> reboot_file
    /\ UNCHANGED <<boot, next_pid, socketVars, output_cache, threadVars, handler, lost,
                   ghosts>>

-----------------------------------------------------------------------------
(* Answers that come too late.                                             *)

\* An answer: "pid" to guest-exec, "status" to guest-exec-status, "number" to
\* guest-sync or opening a file, "error", or else "dict".
Answer(is) == [is |-> is, pid |-> 0, of |-> {}, slow |-> FALSE]
PidAnswer(n) == [Answer("pid") EXCEPT !.pid = n]

Known(n) == {p \in procs : p.pid = n}

StatusAnswer(n) ==
    IF Known(n) = {} THEN Answer("error") ELSE [Answer("status") EXCEPT !.of = Known(n)]

\* A command timed out: its answer is lost, or it is a `late` one.
Overdue(late) ==
    \/ stray' = {} /\ mixed' = mixed
    \/ stray' = {[late EXCEPT !.slow = TRUE]} /\ Tag("reply")

\* connect_to_driver takes no lock: it closes the connection under the others.  What
\* has come is thrown away with the socket, but a slow answer may be still to come.
CloseSocket ==
    /\ connected' = FALSE
    /\ stray' = {} \/ stray' = {a \in stray : a.slow}

\* connect pings and syncs.  With a stray answer, the ping takes that and the sync
\* takes the ping's: sync returns None, which nobody looks at.
OpenSocket ==
    /\ connected' = TRUE
    /\ stray' = IF stray = {} THEN {} ELSE {Answer("number")}

-----------------------------------------------------------------------------
(* The driver's exec_status.                                               *)

Cached(n) == {e \in output_cache : e.pid = n}

\* The agent forgets a process when it has answered that it exited.
Reap(n) == procs' = {p \in procs : ~(p.pid = n /\ p.ended)}

Entries(n, ps) == {[pid |-> n, of |-> p, out |-> TRUE] : p \in {q \in ps : q.ended}}

Noting == mixed' = IF handler = "shutdown" THEN mixed \cup {"exit"} ELSE mixed

\* store_captured_output: only what has exited is of use later.
StoreCaptured(n) ==
    /\ output_cache' = output_cache \cup Entries(n, Known(n))
    /\ Noting

\* The command goes out and, in step, its own answer comes back.
Asks(t) == Cached(pid[t]) = {} /\ connected /\ Free
InStep(t) == Asks(t) /\ stray = {}

\* What exec_status answers a thread, with the changes it makes.
Answered(t, e) ==
    \/ e \in Cached(pid[t]) /\ UNCHANGED <<procs, output_cache, mixed>>
    \/ /\ InStep(t)
       /\ e \in Entries(pid[t], Known(pid[t]))
       /\ Reap(pid[t]) /\ StoreCaptured(pid[t])

StillRuns(t) == InStep(t) /\ \E p \in Known(pid[t]) : ~p.ended

\* The command or its answer is lost, or the answer is late; unless the command was
\* lost, the agent has forgotten a process that exited.
StatusLost(t) ==
    /\ InStep(t) /\ Lose
    /\ \/ procs' = procs /\ stray' = {} /\ mixed' = mixed
       \/ Reap(pid[t]) /\ Overdue(StatusAnswer(pid[t]))

\* An exception other than OSError: the connection is closed, or the agent does
\* not know the pid.
StatusRaises(t) ==
    /\ Cached(pid[t]) = {} /\ Free
    /\ ~connected \/ (stray = {} /\ Known(pid[t]) = {})

Mistaken(t, p) ==
    mistaken' = IF p.by # t \/ p.boot # boot \/ p.job # job[t] THEN mistaken \cup {t}
                ELSE mistaken

-----------------------------------------------------------------------------
(* A thread.                                                               *)

\* Mutant: an entry that comes back after a reboot is taken for one that was run.
StartNewOnly(r) ==
    /\ pc[r] = "ready" /\ handler = "join" /\ ~reboot[r]
    /\ Goto(r, "exec", IF r \in Preloaded THEN "main" ELSE "mkdir")
    /\ UNCHANGED <<agentVars, socketVars, output_cache, pid, reboot, handler, lost, ghosts>>

\* The thread is started.  An entry that comes back after a reboot deletes its
\* reboot file, all others write the file that calls them, unless preloaded.
Start(r) ==
    /\ pc[r] = "ready" /\ handler = "join"
    /\ Goto(r, "exec", IF reboot[r] THEN "delete"
                       ELSE IF r \in Preloaded THEN "main" ELSE "mkdir")
    /\ reboot' = [reboot EXCEPT ![r] = FALSE]
    /\ UNCHANGED <<agentVars, socketVars, output_cache, pid, handler, lost, ghosts>>

Spawn(t, n) ==
    /\ procs' = procs \cup {Started(t, n)}
    /\ runs' = [runs EXCEPT ![t] = IF job[t] \in {"main", "look"} THEN @ + 1 ELSE @]

SpawnNew(t) == Spawn(t, next_pid) /\ next_pid' = next_pid + 1

GivenPid(t, n) ==
    /\ pid' = [pid EXCEPT ![t] = n]
    /\ printed' = [printed EXCEPT ![t] = 0]
    /\ Goto(t, "poll", job[t])

\* async_exec returned None, which each caller takes in its own way.
NoPid(t) ==
    CASE job[t] \in {"mkdir", "main", "check", "look"} -> Reconnect(t, job[t])
      [] job[t] = "chmod" -> Goto(t, "exec", "main")
      [] job[t] = "delete" -> Goto(t, "exec", "delete")

\* Any other exception: only create_directories catches it.
Raised(t) ==
    IF job[t] = "mkdir" THEN Reconnect(t, "mkdir") ELSE Goto(t, "failed", job[t])

Exec(t) ==
    /\ pc[t] = "exec" /\ connected /\ Free /\ stray = {}
    /\ SpawnNew(t) /\ GivenPid(t, next_pid)
    /\ UNCHANGED <<boot, reboot_file, socketVars, output_cache, reboot, handler, lost,
                   reboots, mistaken, mixed>>

\* The guest gives the pid of a process that has exited to the next one.
ExecAgain(t) ==
    /\ pc[t] = "exec" /\ connected /\ Free /\ stray = {} /\ Lose
    /\ \E e \in output_cache :
         Known(e.pid) = {} /\ Spawn(t, e.pid) /\ GivenPid(t, e.pid)
    /\ Tag("pid")
    /\ UNCHANGED <<boot, next_pid, reboot_file, socketVars, output_cache, reboot, handler,
                   reboots, mistaken>>

\* The process is started, but what async_exec reads is the answer to another command.
ExecStray(t) ==
    /\ pc[t] = "exec" /\ connected /\ Free
    /\ \E a \in stray :
         CASE a.is = "pid" -> GivenPid(t, a.pid)
           [] a.is \in {"status", "dict"} -> NoPid(t) /\ UNCHANGED <<pid, printed>>
           [] OTHER -> Raised(t) /\ UNCHANGED <<pid, printed>>
    /\ SpawnNew(t) /\ stray' = {PidAnswer(next_pid)}
    /\ UNCHANGED <<boot, reboot_file, connected, output_cache, reboot, handler, lost,
                   reboots, mistaken, mixed>>

\* The socket raises an OSError, and the process may have been started all the same.
ExecBreaks(t) ==
    /\ pc[t] = "exec" /\ connected /\ Free /\ Lose
    /\ SpawnNew(t) \/ UNCHANGED <<procs, next_pid, runs>>
    /\ NoPid(t)
    /\ UNCHANGED <<boot, reboot_file, socketVars, output_cache, pid, reboot, handler,
                   reboots, printed, mistaken, mixed>>

\* guest-exec has no timeout: without an answer it waits for ever, with the lock.
ExecBlocks(t) ==
    /\ pc[t] = "exec" /\ connected /\ Free /\ stray = {} /\ Lose
    /\ SpawnNew(t) \/ UNCHANGED <<procs, next_pid, runs>>
    /\ Goto(t, "blocked", job[t])
    /\ UNCHANGED <<boot, reboot_file, socketVars, output_cache, pid, reboot, handler,
                   reboots, printed, mistaken, mixed>>

\* While another thread connects anew the command raises a StateError.
ExecRaises(t) ==
    /\ pc[t] = "exec" /\ ~connected /\ Free
    /\ Raised(t)
    /\ UNCHANGED <<agentVars, socketVars, output_cache, pid, reboot, handler, lost, ghosts>>

\* A command that waits for ever may be interrupted when the connection is closed.
\* For _write that is its open, whose error it catches, or its close.
Interrupted(t) ==
    /\ pc[t] = "blocked" /\ ~connected
    /\ IF job[t] = "write" THEN Goto(t, "write", "write") \/ Goto(t, "failed", "write")
       ELSE Raised(t)
    /\ UNCHANGED <<agentVars, socketVars, output_cache, pid, reboot, handler, lost, ghosts>>

\* evaluate_process_success and its callers: what follows when p is taken for the
\* process of the job and has exited.
Then(t, p) ==
    LET yes == p.yes /\ p.job = job[t]
    IN  CASE job[t] = "mkdir" -> Goto(t, "write", "write")
          [] job[t] \in {"chmod", "delete"} -> Goto(t, "exec", "main")
          [] job[t] = "main" -> Goto(t, "log", IF yes THEN "main" ELSE "check")
          [] job[t] = "check" -> Goto(t, IF yes THEN "requeue" ELSE "done", "check")
          [] job[t] = "look" -> Goto(t, "sleep", "look")

Polled(t) ==
    /\ pc[t] = "poll"
    /\ \E e \in Cached(pid[t]) \cup Entries(pid[t], Known(pid[t])) :
         Answered(t, e) /\ Then(t, e.of) /\ Mistaken(t, e.of)
    /\ UNCHANGED <<boot, next_pid, reboot_file, socketVars, pid, reboot, handler, lost,
                   runs, reboots, printed>>

\* Mutant: an exit code that is not there yet is taken for one that is lost.
PolledRunningRetry(t) ==
    /\ pc[t] = "poll" /\ StillRuns(t)
    /\ job[t] = "main"
    /\ Reconnect(t, "main")
    /\ UNCHANGED <<agentVars, socketVars, output_cache, pid, reboot, handler, lost, ghosts>>

\* While a resource runs, its output so far is asked for.
PolledRunning(t) ==
    /\ pc[t] = "poll" /\ StillRuns(t)
    /\ job[t] = "main"
    /\ Goto(t, "print", "main")
    /\ UNCHANGED <<agentVars, socketVars, output_cache, pid, reboot, handler, lost, ghosts>>

\* A timeout.  The resource is executed again over a new connection.  Any other job
\* has failed, without a new connection for those that are not repeated: for the
\* check that means that there is no reboot file.
PollLost(t) ==
    /\ pc[t] = "poll" /\ StatusLost(t)
    /\ CASE job[t] \in {"main", "mkdir"} -> Reconnect(t, job[t])
         [] job[t] = "delete" -> Goto(t, "stderr", "delete")
         [] job[t] = "chmod" -> Goto(t, "exec", "main")
         [] job[t] = "check" -> Goto(t, "done", "check")
         [] job[t] = "look" -> Goto(t, "sleep", "look")
    /\ UNCHANGED <<boot, next_pid, reboot_file, connected, output_cache, pid, reboot,
                   handler, runs, reboots, printed, mistaken>>

\* delete_file asks for the error output.  There is none, and None has no encode:
\* only if that times out too is the file deleted again.
Stderr(r) ==
    /\ pc[r] = "stderr"
    /\ \/ /\ \/ \E e \in Cached(pid[r]) \cup Entries(pid[r], Known(pid[r])) : Answered(r, e)
             \/ (StillRuns(r) \/ StatusRaises(r)) /\ UNCHANGED <<procs, output_cache, mixed>>
          /\ Goto(r, "failed", "delete") /\ UNCHANGED <<stray, lost>>
       \/ StatusLost(r) /\ Reconnect(r, "delete") /\ UNCHANGED output_cache
    /\ UNCHANGED <<boot, next_pid, reboot_file, connected, pid, reboot, handler, runs,
                   reboots, printed, mistaken>>

\* run_vm_resource and transfer_data log any other exception, and the thread ends.
StatusFails(t) ==
    /\ pc[t] \in {"poll", "print"} /\ StatusRaises(t)
    /\ Goto(t, "failed", job[t])
    /\ UNCHANGED <<agentVars, socketVars, output_cache, pid, reboot, handler, lost, ghosts>>

\* exec_status reads the answer to another command.  An exit in it is kept as that of
\* this pid; the answer to guest-exec looks like a process that runs.
PollStray(t) ==
    /\ pc[t] \in {"poll", "print", "stderr"} /\ Asks(t)
    /\ \E a \in stray :
         IF \E p \in a.of : p.ended
           THEN /\ output_cache' = output_cache \cup Entries(pid[t], a.of)
                /\ Noting
                /\ \E p \in a.of :
                     CASE pc[t] = "poll" -> Then(t, p) /\ Mistaken(t, p)
                       [] pc[t] = "print" -> Goto(t, "poll", "main") /\ UNCHANGED mistaken
                       [] OTHER -> Goto(t, "failed", "delete") /\ UNCHANGED mistaken
           ELSE /\ UNCHANGED <<output_cache, mistaken, mixed>>
                /\ IF a.is \in {"number", "error"} \/ pc[t] = "stderr"
                     THEN Goto(t, "failed", job[t])
                     ELSE Goto(t, IF pc[t] = "poll" /\ job[t] = "main" THEN "print"
                                  ELSE "poll", job[t])
    /\ Reap(pid[t]) /\ stray' = {StatusAnswer(pid[t])}
    /\ UNCHANGED <<boot, next_pid, reboot_file, connected, pid, reboot, handler, lost,
                   runs, reboots, printed>>

\* Mutant: output that was returned stays.
EmptiedNot(e) == e

\* _get_stream empties what it returns.
Emptied(e) == [e EXCEPT !.out = FALSE]

\* The output of a process that is known to have exited is logged, if there is any.
Stream(t) ==
    \E e \in Cached(pid[t]) :
        /\ printed' = [printed EXCEPT ![t] = IF e.out THEN @ + 1 ELSE @]
        /\ output_cache' = (output_cache \ {e}) \cup {Emptied(e)}

\* print_output, while the resource was running a moment ago; a lost answer is
\* passed over.
PrintOutput(t) ==
    /\ pc[t] = "print"
    /\ \/ StillRuns(t) /\ UNCHANGED <<procs, stray, output_cache, mixed, printed, lost>>
       \/ StatusLost(t) /\ UNCHANGED <<output_cache, printed>>
       \/ /\ InStep(t)
          /\ \E e \in Entries(pid[t], Known(pid[t])) :
               output_cache' = output_cache \cup {Emptied(e)}
          /\ Noting /\ Reap(pid[t])
          /\ printed' = [printed EXCEPT ![t] = @ + 1]
          /\ UNCHANGED <<stray, lost>>
       \/ Stream(t) /\ UNCHANGED <<procs, stray, mixed, lost>>
    /\ Goto(t, "poll", "main")
    /\ UNCHANGED <<boot, next_pid, reboot_file, connected, pid, reboot, handler, runs,
                   reboots, mistaken>>

\* Mutant: only the exit code is looked at.
LogNoCheck(r) ==
    /\ pc[r] = "log"
    /\ Stream(r)
    /\ Goto(r, IF job[r] = "check" THEN "done" ELSE "requeue", "main")
    /\ UNCHANGED <<agentVars, socketVars, pid, reboot, handler, lost, runs, reboots,
                   mistaken, mixed>>

\* print_output once more when the resource has exited; then exit code 10, or
\* else the reboot file, tells whether a reboot is needed.
Log(r) ==
    /\ pc[r] = "log"
    /\ Stream(r)
    /\ IF job[r] = "check" THEN Goto(r, "exec", "check") ELSE Goto(r, "requeue", "main")
    /\ UNCHANGED <<agentVars, socketVars, pid, reboot, handler, lost, runs, reboots,
                   mistaken, mixed>>

\* A powershell that took less than two seconds is run again.
TooShort(r) ==
    /\ pc[r] = "log" /\ r \in Powershell /\ Lose
    /\ Goto(r, "exec", "main")
    /\ UNCHANGED <<agentVars, socketVars, output_cache, pid, reboot, handler, ghosts>>

\* driver.write: opens, writes and closes the file, until that succeeds.  (The loop
\* makes the directories once more before and takes no notice of the result.)
Write(r) ==
    /\ pc[r] = "write" /\ Free
    /\ \/ connected /\ stray = {} /\ Goto(r, "exec", "chmod") /\ UNCHANGED stray
       \/ ~connected /\ UNCHANGED <<pc, job, stray>>
       \/ /\ connected /\ stray # {} /\ UNCHANGED <<pc, job>>
          /\ \E is \in {"number", "dict"} : stray' = {Answer(is)}
    /\ UNCHANGED <<agentVars, connected, output_cache, pid, reboot, handler, lost, ghosts>>

\* Writing times out, and if its answer is late the close has taken that; or opening
\* or closing, which have no timeout, get no answer.
WriteLost(r) ==
    /\ pc[r] = "write" /\ Free /\ connected /\ stray = {} /\ Lose
    /\ \/ /\ UNCHANGED <<pc, job>>
          /\ \/ UNCHANGED <<stray, mixed>>
             \/ stray' = {Answer("dict")} /\ Tag("reply")
       \/ Goto(r, "blocked", "write") /\ UNCHANGED <<stray, mixed>>
    /\ UNCHANGED <<agentVars, connected, output_cache, pid, reboot, handler, runs, reboots,
                   printed, mistaken>>

Close(t) ==
    /\ pc[t] = "close"
    /\ CloseSocket
    /\ Goto(t, "connect", job[t])
    /\ UNCHANGED <<agentVars, output_cache, pid, reboot, handler, lost, ghosts>>

Connect(t) ==
    /\ pc[t] = "connect"
    /\ OpenSocket
    /\ Goto(t, "exec", job[t])
    /\ UNCHANGED <<agentVars, output_cache, pid, reboot, handler, lost, ghosts>>

\* The ping times out: the connection is closed, and connect_to_driver tries again.
ConnectFails(t) ==
    /\ pc[t] = "connect" /\ stray = {} /\ Lose
    /\ connected' = FALSE /\ Overdue(Answer("dict"))
    /\ UNCHANGED <<agentVars, output_cache, threadVars, handler, runs, reboots, printed,
                   mistaken>>

\* _transfer_data sleeps for the interval and looks again.
LookAgain(w) ==
    /\ pc[w] = "sleep" /\ runs[w] < Looks
    /\ Goto(w, "exec", "look")
    /\ UNCHANGED <<agentVars, socketVars, output_cache, pid, reboot, handler, lost, ghosts>>

-----------------------------------------------------------------------------
(* The main thread.                                                        *)

Joined == \A r \in Runner : pc[r] \in {"done", "failed", "requeue"}

\* Mutant: the cache is kept over a reboot.
KeepCache ==
    /\ handler = "join" /\ Joined /\ \E r \in Runner : pc[r] = "requeue"
    /\ handler' = "shutdown" /\ reboots' = reboots + 1
    /\ UNCHANGED <<agentVars, socketVars, output_cache, threadVars, lost, runs, printed,
                   mistaken, mixed>>

\* reboot: the cache is reset first ...
ResetCache ==
    /\ handler = "join" /\ Joined /\ \E r \in Runner : pc[r] = "requeue"
    /\ output_cache' = {}
    /\ handler' = "shutdown" /\ reboots' = reboots + 1
    /\ UNCHANGED <<agentVars, socketVars, threadVars, lost, runs, printed, mistaken, mixed>>

\* ... then the guest shuts down and starts anew ...
Shutdown ==
    /\ handler = "shutdown" /\ Free /\ connected
    /\ boot' = boot + 1 /\ procs' = {} /\ next_pid' = 1
    /\ stray' = {}
    /\ handler' = "close"
    /\ UNCHANGED <<reboot_file, connected, output_cache, threadVars, lost, ghosts>>

\* ... or does not, which the handler does not notice: the command is lost, or
\* another thread connects anew and the exception is swallowed.
ShutdownFails ==
    /\ handler = "shutdown" /\ Free
    /\ (~connected /\ lost' = lost) \/ (connected /\ Lose)
    /\ handler' = "close"
    /\ UNCHANGED <<agentVars, socketVars, output_cache, threadVars, ghosts>>

HandlerClose ==
    /\ handler = "close"
    /\ CloseSocket
    /\ handler' = "connect"
    /\ UNCHANGED <<agentVars, output_cache, threadVars, lost, ghosts>>

\* In both cases the entries that asked for it are queued again.
HandlerConnect ==
    /\ handler = "connect"
    /\ OpenSocket
    /\ pc' = [t \in Thread |-> IF pc[t] = "requeue" THEN "ready" ELSE pc[t]]
    /\ reboot' = [r \in Runner |-> pc[r] = "requeue"]
    /\ handler' = "join"
    /\ UNCHANGED <<agentVars, output_cache, job, pid, lost, ghosts>>

Handler == ResetCache \/ Shutdown \/ ShutdownFails \/ HandlerClose \/ HandlerConnect

\* Nothing is left to do.
Idle ==
    /\ \A r \in Runner : pc[r] \in {"done", "failed"}
    /\ UNCHANGED vars

Run(t) ==
    \/ Exec(t) \/ ExecStray(t) \/ ExecRaises(t) \/ Polled(t) \/ PolledRunning(t)
    \/ StatusFails(t) \/ PollStray(t) \/ Close(t) \/ Connect(t)
    \/ t \in Runner /\ (Start(t) \/ Log(t) \/ Write(t) \/ PrintOutput(t) \/ Stderr(t))

Mishap(t) ==
    \/ ExecAgain(t) \/ ExecBreaks(t) \/ ExecBlocks(t) \/ Interrupted(t) \/ PollLost(t)
    \/ ConnectFails(t)
    \/ t \in Runner /\ (WriteLost(t) \/ TooShort(t))

Next ==
    \/ \E t \in Thread : Run(t) \/ Mishap(t)
    \/ \E w \in Watcher : LookAgain(w)
    \/ \E p \in procs : Exit(p)
    \/ Handler \/ Idle

\* Threads are scheduled, processes end, and the main thread goes on.
Spec ==
    /\ Init /\ [][Next]_vars
    /\ \A t \in Thread : WF_vars(Run(t))
    /\ WF_vars(\E p \in procs : Exit(p)) /\ WF_vars(Handler)

-----------------------------------------------------------------------------
\* A runner never takes the exit of another process, of another thread or job or of
\* the time before a reboot, for that of its own: unless the answers are out of step
\* since one came late, a pid was given again while its exit was in the cache, or an
\* exit was noted between the reset of the cache and the shutdown.
ExitCodeIsOwn == mixed = {} => mistaken \cap Runner = {}

\* A resource is started once, and once more each time it asked for a reboot, and for
\* each answer that was lost (or powershell that ended too early): unless answers came
\* late or a pid was given again.
StartedOnce ==
    mixed \subseteq {"exit"} =>
      \A r \in Runner : runs[r] <= 1 + lost + (IF Wants[r] = "nothing" THEN 0 ELSE reboots)

\* The output of a process is logged at most once, however often it is asked for
\* while the process runs and after it has exited (print_output, _get_stream), unless
\* the answers were mixed up.
OutputOnce ==
    mixed = {} => \A r \in Runner : printed[r] <= 1

\* A resource that asked for a reboot gets it, unless an answer was lost or an exit
\* was noted between the reset of the cache and the shutdown.
RebootHonoured ==
    mixed = {} => \A r \in Runner : pc[r] = "done" /\ lost = 0 => r \notin reboot_file

\* Every resource is dealt with: its thread ends for good, unless some thread waits
\* for ever with the driver's lock, or the answers stay out of step.
EveryResourceEnds ==
    \A r \in Runner : <>[](pc[r] \in {"done", "failed"} \/ ~Free \/ stray # {})

=============================================================================
