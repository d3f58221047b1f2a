# FIREWHEEL in TLA+

TLA+ specifications of the core of FIREWHEEL, the TLC configurations that check
them, and TLAPS proofs. FIREWHEEL builds experiments out of virtual
machines: *model components* build a graph, the graph is turned into VMs that
minimega launches on a cluster, and every VM gets a *VM resource handler*, a
process on its host that works off the VM's schedule of resources. The time
of a schedule is negative while the VMs are being configured and positive from
the moment the experiment starts; the gRPC server on the control host is where
the handlers meet. Paths below are relative to `src/src/firewheel/` unless they
start with `docs/`.

## The system

| Component | State it keeps | Operations | Hard behaviour |
|---|---|---|---|
| gRPC server (`lib/grpc/firewheel_grpc_server.py`) | `vm_mappings`, `not_ready_vmms`, `experiment_start_times`, launch time, repositories | set, list and destroy mappings, set state and time of a VM, count the VMs not ready, get, set and clear the start time | thread pool without locks; several structures that must agree; all state lost on restart |
| VM mapping and experiment start (`vm_resource_manager/vm_mapping.py`, `experiment_start.py`, `api.py`, `utils.py`) | none of its own | the client side: `batch_put`, `add_start_time`, `destroy_all`, ... | check-then-act over two calls, calls that get lost |
| VM resource handler (`vm_resource_manager/vm_resource_handler.py`) | `prior_q`, `condition`, `current_time`, `state`, `experiment_start_time`, per-batch threads and reboot queue | preload, `get_events`, `_run`, `set_state`, run a resource, transfer, reboot | two threads and a condition variable, timers, reboots that requeue, two ways of learning the start time |
| Schedule updater (`vm_resource_manager/schedule_updater.py`) | `saved_schedule`, `break_items`, the break's start | fetch new entries, pauses, breaks and resumes, poll for the start time | flags of different lifetimes, entries held in memory, time arithmetic |
| Schedules and file store (`vm_resource_manager/schedule_db.py`, `lib/minimega/file_store.py`, `vm_resource_store.py`, `control/image_store.py`) | files and lock directories in minimega's cache on every host | get, add, remove, broadcast, upload if changed | locks as directories that do not keep anybody out, transfers under way, stale copies, processes that die |
| Launch, stop, resume, push, pull (`cli/helpers/`) | none of their own | register VMs, launch handlers, clear the databases, append to schedules | the order of their steps against handlers that are alive |
| Dependency graph (`control/dependency_graph.py`, `model_component_dependency_graph.py`) | a digraph of components and attributes, groupings | insert, associate, order, detect cycles | the order is used while edges are still being added |
| Model component manager (`control/model_component_manager.py`, `model_component.py`) | the graph, queues of what is still to be inserted, loaded modules | resolve dependencies, attributes and precedences in rounds; run the components | a fixpoint over a growing graph, default providers, components that fail |
| Repositories and installation (`control/repository_db.py`, `model_component_install.py`, `cli/helpers/repository/`) | repository list, install flags | add, delete, install | partial installation, a file that two commands rewrite |
| Experiment graph (`control/experiment_graph.py`) | vertices, edges, decorators | add, delete, decorate, search for paths | identity of handles, conflicts and order of decorators, worker processes |
| Guest agent driver (`vm_resource_manager/abstract_driver.py`, `drivers/`) | one connection per VM, a cache of processes that have exited | execute, ask for status and output, read and write files, reboot | shared by all threads of the handler; answers lost or late and without an id, commands that block, reconnections, pids given again |
| Command line (`cli/`) | a cache of helpers on every host, a temporary host file | run helpers on hosts, synchronise caches, ssh, scp, pssh | remote execution that fails in parts, retries |

How they interact: `firewheel experiment` takes a list of model components, and
the manager finds all they depend on or precede, orders them in the dependency
graph and runs them one by one; each adds to the experiment graph, and one of
them launches it. A launch (by a model component, or by `firewheel load`)
writes every VM's schedule to the file store, puts a mapping for every VM on the
gRPC server, and starts one handler process per VM. The handler's updater
thread polls the schedule file and the server's start time and puts events into
the queue it shares with the main thread; the main thread runs the resources,
one negative time after the other, and reports the VM's state. The VM whose
report leaves no VM unready proposes a start time; all others learn it by
polling. Helpers append to schedules while the experiment runs; `firewheel
stop` clears the server's databases and kills the handlers.

What makes each part correct:

- *Server and handlers*: nobody starts before all have finished their negative
  time; all start at one time; the server's two records of who is ready agree;
  a state does not go back; the barrier opens.
- *One handler*: each negative time is a barrier inside the VM, reboots
  included; "configured" is reported only when it is true; no entry is lost,
  doubled or dropped; the main thread never sleeps through work.
- *Updater*: pauses add up, nothing passes a break, a resume shifts what was
  held by the documented formula, nothing held is lost.
- *Model components*: an experiment consists of what the command line asks for
  and of what that leads to, each once; everything runs after what it depends on,
  in the command line's order; an experiment is refused only for a reason; the
  rounds end.
- *File store*: who is handed a path finds the whole file there; a file that was added
  successfully is the new one on the head, and elsewhere as far as a listing can tell; nobody waits for ever.
- *Guest agent*: a thread takes no other process's exit for its own while answers are in step; resources are started once, their output is
  logged once, a reboot asked for is made; loaded files are whole and changes are copied out.
- *Experiment graph*: a usable vertex is the graph's; edges join usable vertices; a decorator's
  entries stay; the search reports every pair once and ends.
- *Command line*: an exit status of 0 means that everything was done on every host; a section that
  ran is not run again; every host in a pssh file gets its address; the repository list, the install
  flags and the store say what is the case.
- *Lifecycle*: what an old experiment's handlers still do does not reach the
  next experiment.

## Modules

| Module | What it is |
|---|---|
| `StartBarrier` | the abstract barrier at time 0: arrive, decide once all have arrived, learn what was decided |
| `ExperimentBarrier` | the server, the registration of VMs, and every handler's reports; implements `StartBarrier` |
| `ExperimentLifecycle` | several experiments on one server, with `firewheel stop` between them; EXTENDS `ExperimentBarrier` |
| `ExperimentProofs` | theorems about `ExperimentBarrier` and `ExperimentLifecycle` |
| `ScheduleOrder` | the abstract order of one VM's schedule |
| `VMResourceHandler` | one handler process: updater thread, main thread, resources, timers; implements `ScheduleOrder` |
| `VMResourceHandlerProofs` | theorems about `VMResourceHandler` |
| `ScheduleUpdater` | the updater's algorithm for pauses, breaks and resumes |
| `ScheduleUpdaterProofs` | theorems about `ScheduleUpdater` |
| `DependencyGraph` | the graph: insertion, association, topological sort, what is read off the order |
| `ModelComponentManager` | the rounds that build the graph, and running the components; EXTENDS `DependencyGraph` |
| `ModelComponentManagerProofs` | theorems about `ModelComponentManager` |
| `FileStore` | one file of the store: getting, adding, locking, sending, dying |
| `FileStoreProofs` | theorems about `FileStore` |
| `ResourceUpload` | whether a file has to be uploaded, and the upload |
| `GuestAgent` | the threads that run resources, the agent's processes and the driver's cache |
| `GuestFiles` | loading a file into a VM, and the transfer of files out of it |
| `GuestProofs` | theorems about `GuestAgent` and `GuestFiles` |
| `ExperimentGraph` | vertices, edges, ids and handles |
| `VertexDecoration` | `decorate`, its conflict handlers and caches, `require_class` |
| `PathWorkers` | `filtered_all_pairs_shortest_path` and its worker processes |
| `ExperimentGraphProofs` | theorems about `ExperimentGraph`, `VertexDecoration` and `PathWorkers` |
| `HelperExecution` | the sections of helpers on hosts, and the synchronisation of caches |
| `RemoteShell` | the connection to minimega, ssh and pssh |
| `RepositoryInstall` | installing and removing repositories, `INSTALL` scripts |
| `CommandLineProofs` | theorems about `HelperExecution`, `RemoteShell`, `RepositoryInstall` and `ResourceUpload` |
| `MC...` | schedules, times, cohorts, repositories and instances for TLC; `MCGuest`, `MCExperimentGraph` and `MCCommandLine` extend several machines that share no state, one of which (`part`) is explored at a time |

### ExperimentBarrier

One action is one access to one of the server's structures, because the server
runs handlers in a thread pool without a lock: `SetVMMapping` is `PutMark` then
`PutWrite`, `SetVMStateByUUID` is `StateMark` then `StateWrite`, and
`add_start_time`'s get and append are `GetStart` and `AppendStart`. `stage` is where
the handler's main thread stands in its life (connected, negative time, time 0,
exited) and `call` is the gRPC step its `set_state` takes next; negative time itself is
one step here and a module of its own (`VMResourceHandler`). `target` and `state` are
`set_state`'s argument and `self.state`. A start time is named by the VM that
proposed it, so that "the same start time" can be said without clocks. `reached`
is a history variable. `Lose...` are the failures of client calls,
each with what the client does about it: `set_vm_state` turns a missing answer
into a `RuntimeError` that leaves `self.state` unset, `count_vm_mappings_not_ready` does not
catch, an error of `add_experiment_start_time` is logged.

### ExperimentLifecycle

`api.destroy_all` replaces `vm_mappings`, then `not_ready_vmms`, then
`experiment_start_times` (`StopMappings`, `StopNotReady`, `StopStartTime`), and only
then are the handlers killed, one by one, each with the call it had under way
(`StopKill`). Every experiment has uuids of its own. The steps of
`ExperimentBarrier` go on for handlers of any experiment.

### VMResourceHandler

`pc` and `upc` are where the two threads stand; between two lock operations a
thread takes one step per queue access or remote call. `lock` and `waiting` are the condition
variable: `Wait` gives the lock up, `Enqueue` puts and notifies, `Acquire` is the
return from `wait`. The priority queue is a set of events; `Least` are those that
`PriorityQueue.get` may return, as events of one time compare in no particular order
(`ScheduleEvent.__lt__` returns True). `events` is the batch, `running`, `reboot_queue` and
`timers` what `_run` has started. `Preload` is `preload_files`, with the effect that
every queued in-VM entry is taken for preloaded whether or not its files were
loaded. The server is seen through `server_state` (this VM's last report) and
`server_start`. Pauses, breaks and resumes are left to `ScheduleUpdater`.

### ScheduleUpdater

One batch of the updater's loop is `Fetch`, then one step per item taken off the
temporary queue (`Hold`, `TakePause`, `TakeResume`, `TakeOther`: the branches of the
loop in order), then `Release`. Two lifetimes of flags are kept as in the code:
`found_break` and `break_start` outlast a batch, `break_event`, `pause_amount`,
`resume` and `resume_time` do not. Items keep the object's own, changing start time
(`start_time`), which the next batch sorts by. The queue shared with the main thread is a set
of what was ever put. `launch` remembers the schedule the VM was launched with, for `ResumeFormula`; no action reads it.

### DependencyGraph and ModelComponentManager

`since` is the order of insertion that networkx keeps, `edge` the digraph, `grouping` and
`component_map` the attributes of its nodes (an entity is a number, an attribute a
label). `Sorted` is networkx's lexicographical topological sort with the code's
comparison `Before` (`Taken[k]` is what it has put out after k nodes); identifiers are compared as text (`DigitsBefore`), as in
`str(node)`. The rounds of `build_dependency_graph` are the phases "depends",
"attributes" and "precedes", one action per insertion or association, because each of
them reads the order as the ones before left it: `InsertDependency` takes one
entry of `mc_depends_components`, `ResolveAttribute` one attribute without a provider, `PrecedeNext`
one declaration of the ordered components. A cycle, a missing component, a missing provider or
the 1000th round ends the building (`Fail`). `RunPlugin` and its neighbours are `process_model_component`:
failing imports are recorded and the next component runs; anything else stops the experiment
(`Abort`). `manifest`, `attribute_defaults` and `asked` never change after `Init`.

### FileStore and ResourceUpload

The store is seen through one file, because nothing but its name connects it with others. `disk[h]` has
the archive ("sent") and what it was unpacked to ("unpacked"); a file that is not packed is
its own cached form (`Cached`). minimega is external: `FileGet` starts transfers, `Deliver` and `Abandon` end
them; a transfer goes on when the file is deleted where it comes from, and one of a file that is still being written brings half of it
(both are assumptions about minimega). `get_path` is `BeginGet` (which looks whether the file is there), `Waited` or `Lock`, `Fetch`, `Polled`,
`Inspect`, `Open`, `Unpacked`; each of them ends in `LeaveBody` (the context manager's `finally`) when it leaves
the function. `Lock` goes on without the lock, as the code does when the directory exists. A file may have a backing file, whose
`get_path` runs in the body of this one: it is another file with a lock of its own, so it is one step here, `BackingEnds`, that
returns or raises; that it ends is `EveryGetEnds` of that file. Half a `.tar` is a `DecompressError`; half an `.xz` starves its reader (`Starve`): it
reads nothing for ever, with the lock. Processes may get the file anywhere, on the head too. `add_image_file` and
`add_file_from_content` are the steps of one process on the head from `BeginAdd` to `Check`, which compares what `file list` shows: the
file's size (`Size`, `Listed`), never its content. `writers` tells whose open
file still has a name; `raced` and `crowded` are history variables: the hosts where the protocol was left (a body without the lock, a half
file set free by `mm flush_locks`, half an image from the mesh, a file written in place), and whether a reader on the head went to
fetch or unpack the file itself. `mm flush_locks` is run as its warning asks for: when the holder of a lock has gone or starved.

`ResourceUpload` is what comes before: `GetTime`, `CompareDate` and `CompareHash` decide, and the steps of `shutil.copy2` and
`add_image_file` follow one by one, since an interrupt between two of them is what the next comparison meets.

### GuestAgent and GuestFiles

A thread is a resource's runner or a transfer's watcher; `job` says which of its commands it is about (making the directory,
writing, `chmod`, the resource itself, the check for the reboot file), `pc` where it stands with it. `procs` are the processes the agent
knows of, each with the boot it belongs to; `output_cache` is the driver's. The driver takes one command at a time and reads one answer for it,
but answers carry no id. `stray` is the answer, at most one, that waits in the socket for the wrong command: it comes from a command that timed out
(`Overdue`), and from then on every command reads the answer to the one before (`ExecStray`, `PollStray`), until the connection is closed with
nothing still to come. Nothing reconnects after an `exec_status` that timed out, unless the caller repeats its job. A reconnection pings
and syncs, but with an answer still to come ping takes that and sync the answer to ping, and nobody looks at what sync returns (`OpenSocket`).
`guest-exec`, and opening and closing a file, have no timeout: a lost answer leaves the thread `blocked` with the driver's lock, and all others behind it
(`Free`); closing the connection, which takes no lock, may wake it (`Interrupted`). What each caller makes of a command without an
answer differs (`NoPid`, `Raised`, `PollLost`, `Stderr`): `delete_file` asks for the error output, and if there is none, raises. `ExecAgain` is a guest
that gives the pid of a process that has exited to the next one. `ResetCache` and `Shutdown` are `VMResourceHandler.reboot`, whose exceptions are
swallowed: `ShutdownFails` goes on as if the VM had been rebooted. `mixed` is a history variable with the causes that put answers and
processes apart: a late reply, a pid given again, and an exit that a watcher notes between `ResetCache` and `Shutdown`. The properties are about the time before.

`GuestFiles` has `load_files_in_target` (`load`, chunks of one file) and `_transfer_data` (`transfer`) beside each other, as
the handler does not start a transfer of an entry before its files are loaded. It is a machine of its own: what its commands meet on
the shared socket is a command that fails, times out or blocks, and a late answer that its own next command takes; that the answers are out of step because
of another thread is left to `GuestAgent`. `unlisted` and `missed` are history: a file written after the listing, and, when the clock is read, one of
those whose second is over, so that the next listing asks for newer ones only.

### ExperimentGraph, VertexDecoration and PathWorkers

`node` is networkx's graph by id, `vertex` and `edge` are the handles the program holds, which outlive what they stand for; a
handle's `st` is its `valid`. `delete` asks the graph and never the handle, so a second `delete` may take another vertex away that was
given the id since: `stale` notes it, and both properties are about the time before.

`VertexDecoration` has the stack of decorations that `require_class` nests (`frames`), one action per entry of the class
that `decorate` sets, merges or refuses. `CACHED_DECORATOR_OBJECTS` and `cached_self_dir` are kept by name, like the code's. `Own` is what
`dir(self)` finds when `cached_self_dir` is made, `OwnLater` what the `__init__` of the vertex or edge assigns after that (name, valid, g, log, ...), and
`Assigns` what a class's `__init__` does: none of these become known, and they are assigned over anything (`RunInit`). An `__init__` that raises
(`InitFails`) may have made any of its assignments; the class stays a decorator and all calls under way are left. `begun` is history.

A class requires classes that are defined before it, since `@require_class` names them; `DecorationAssumption` says so.

`PathWorkers` has the two queues, the caller that fills one and empties the other, and workers that end with a `STOP` each or raise.

### HelperExecution, RemoteShell and RepositoryInstall

`HelperExecution` is `helper.run` and `run_command`: a section on every host of its group, exit codes by host, the sync with its two
parallel tasks (`Empty`, `Fill`, one step per host) and the second try on the hosts that asked for it. Two sessions share the caches.
`RemoteShell` has the process with a time limit behind `_check_version`, the tests of a VM before ssh, and the replacement
of names in pssh's host file, name by name in no fixed order. `RepositoryInstall` takes `repositories.json` apart into reading, emptying and
writing. An install script starts, a playbook verifies its files (`Verify`), leaves its flag (`LeaveFlag`) and ends; of another script the program leaves the flag
when it has ended and the user was asked (`TouchFlag`); a failure may come before or after the verification. Commands interleave, and may be
stopped, between any two of these; `Stop` ends the script too. `cut` is history: scripts that did their work but were stopped or failed before the flag was left.

## Runs

| Run | Instance | What it shows |
|---|---|---|
| `barrier` | 4 VMs: two ordinary, one that may fail, one unmanaged; 1 lost call | the barrier's safety, its refinement of `StartBarrier`, and that it opens unless a call is lost or a VM fails |
| `lifecycle` | 2 experiments of 2 VMs, one unmanaged, one that may fail | no mapping of an old experiment comes back |
| `handler` | 7 entries: two at one negative time, one of which reboots, a host resource, a positive one, a pushed, a pulled and an unloadable file; 1 failed call | the local barrier, true reports, refinement of `ScheduleOrder` |
| `handler_live` | an empty schedule that grows by 3 entries | every entry carried out, the VM becomes configured |
| `handler_slept` | 2 entries, 1 failed call | *violation*: asleep with the start event in the unreturned batch |
| `updater` | schedules with 2 pauses, with 2 pauses and 2 breaks, and with a break at -inf and a pause at a negative time; 3 resumes and a pushed file, 3 experiment times | breaks hold, the resume formula with pauses added up, nothing lost |
| `model_components` | 3 components and 1 attribute with every choice of 1 to 3 declarations, 3 command lines, 4 tables of defaults, 1 failing component | what is in the experiment and why, the order, refusals, the end of the rounds |
| `precedes_broken` | 5 components, whose precedences agree with one order | *violation*: a component runs before the one that precedes it |
| `file_store` | 2 hosts, a reader on each, the adder on the head; packed and not; the new file larger; 2 broadcasts; 1 fault | `WholeFiles`: half a file is handed out only where the protocol was left; `AddedEverywhere`: after an add that reports success the head has the new file and the others one of its size, unless a reader on the head got in between; `EveryGetEnds` |
| `guest` | 1 runner that asks for a reboot by the file and runs powershell, 1 watcher that looks once, 2 mishaps that meet; a file of 2 chunks, 3 attempts, 2 files of which one changes twice and the other once, 2 seconds, 2 lost commands | own exit codes, one start, one output, the reboot, an end; whole loaded files, every change copied |
| `experiment_graph` | 3 vertex handles, 2 edge handles, 3 ids; 2 vertices and 4 classes, 2 of which assign attributes; 3 vertices, 2 workers, 4 filters | handles and edges belong to the graph; entries stay and required classes come first; every pair once, and the end of the search |
| `command_line` | 2 sessions on 2 hosts, 1 outage; 1 ssh and 2 pssh; 2 repositories, 2 commands; 2 uploaders of 2 files with one name, 1 edit, 1 fault | 0 means done, no second start, addresses, ends; the list and the flags; the store |

The bounds. Four VMs are one more than the two that race to propose a start
time, plus the two kinds that behave otherwise (unmanaged, failing); one lost
call is enough to disagree with the server and leaves every later call to
repair it. Two experiments are one transition. A VM's schedule has two entries of one
time, so that a batch has more than one, two different negative times, one
positive, one reboot, and additions at any moment. The updater's schedules have
two breaks with an entry between and behind each, a pause on either side of a break,
and one resume more than there are breaks. Times are small integers whose differences tell
every sum of shifts apart; `-100`, `-9` stand for `-inf` and the code's
`initial_time`. For model components, all repositories with up to three declarations
contain every interaction of two of the three kinds of edge with a third
declaration, repeated components and shared attributes; a larger instance, with four declarations, holds as well. Graphs stay below ten nodes, so `DigitsBefore`
matters only in the definition. `MaxFaults`, `MaxFailures` and `MaxId` (two-digit identifiers)
are the only caps.

The reader on the head and the adder are the two processes that may go on without the lock on one host, and a third state of the file (half) is what
either may meet. A third host brings one more case, half an image sent on by a host that is still unpacking, which `Deliver` counts in
`raced`; three hosts are too many states for the run, but not for `FilesAreWhole`. A new file that is larger makes half of it look like the
old one; for one of the same size `AddedEverywhere` says no more than a listing does, on any number of hosts. One runner and one watcher are two threads on one
driver, which a reconnection needs; a reboot gives pids a second life. Mishaps (`MaxLost`) are lost or late answers, commands that block, and pids given again;
at most one answer waits for the wrong command at a time, and of two mishaps the second is explored only while the first is being dealt with (`MishapsMeet`: a thread
is blocked, connects, or asks for the error output); the theorems have no such bound. Two seconds of a clock and two versions have a change within the second of a
listing and after it, and the second file, which changes once when the first is there (`OneChangesOnce`), has one written while another is read. One conflict handler that merges all but one entry is enough for entries that are merged, copied and refused. Three vertex handles and three ids are one more than a deletion and the vertex that gets its id again. Two
hosts and two sessions are needed for a cache that another session empties, and `ExitCodes` has one of each kind: 0, an error, a
demand for a sync. Two files of one name and two contents are needed for a copy that is another file's. `MaxLost`, `MaxFaults`, `MaxOutages`, `MaxEdits`,
`MaxCommands`, `MaxWrites`, `MaxTime`, `Looks` and `MaxId` are the bounds of these modules.

The machines of one MC module are explored one at a time. They are composed by choice (`part`) because they share no variable: the
interleavings of independent machines would show nothing that each by itself does not. The MC module extends them, so an invariant of a
run is the machine's own, the one a theorem states; the liveness properties say under which `part` they are meant (`CallsEnd`,
`SearchesEnd`; `EveryResourceIsDealtWith` and `ChangesAreCopied` are `EveryResourceEnds` and `EveryChangeIsCopied` of the two machines). To live in one module the machines name their parts apart (`HelperInit`, `ShellNext`,
`UploadSpec`, `call_at`, `command_at`, ...).

Deadlock is checked for the handler, whose updater polls for ever, and for nothing
else: the activities of the barrier, the lifecycle, the updater, the model components, the graph and the commands may simply
be over, a `RuntimeError` ends the loading or the transfer of a file, and the code really stops where a command to the agent blocks with the driver's
lock, or where all processes of the file store are dead, starved or wait for a lock that one of these has.

Fairness. `ExperimentBarrier.FairSpec`: each VM is registered and launched, a handler
that is connected finishes its negative time, its updater's poll finds the
start time, and the server carries out a call it has accepted (`Progress`);
`StillWaiting`, failures and lost calls are never forced. Whether a handler's negative time really ends is
`BecomesConfigured` of `VMResourceHandler`, under fairness of its two threads and of the
resources, which have to end: the handler waits for them without a limit.
`StartDecided` is fair there because the other VMs' barrier opens
(`EveryVMStarts`). Weak fairness is enough there: no action waits for a condition that
others turn on and off for ever.

`FileStore`: a process that is getting the file goes on, the adder goes on once it has begun, transfers end: all of it weak fairness, since the code polls for the
lock and for transfers every quarter of a second and may miss the moment each time. So `EveryGetEnds` leaves out a process whose host's others come for the lock again and
again, because they find the file gone, and one whose host's lock was left by a process that died or starved. Nobody need ask, die or flush. `GuestAgent` and
`GuestFiles`: threads are scheduled and processes in the guest end; losses, reconnections that fail, blocked commands that wake, writes in the VM and the clock are free.
`PathWorkers`: the operating system runs every process of the search. `RemoteShell`: a call goes on; minimega's answer, a VM's boot
and the user's patience are free, since every wait has a limit in the code except the one `CallsEnd` names. The other
modules state safety only.

## Proved

`ExperimentProofs`, for the barrier of any set of VMs, any choice of unmanaged and
failing ones, and any bound on lost calls:

- `TypeCorrect`: `TypeOK` is an invariant.
- `BarrierSafe`: `StartOnlyWhenAllReached`. The property is not inductive: that
  the set is empty when a VM counts means something only because every
  managed VM was in it from its registration until its own "configured"
  report, no VM's handler runs before all are registered, and a
  handler past its count stays past it. `BarrierInv` says this: a registered managed VM that
  has not reached is in `not_ready_vmms` (`CountedUntilReached`), handlers are launched only after
  registration (`LaunchedAfterRegistration`), a handler has calls under way only after its
  launch (`CallsAfterLaunch`), only managed VMs reach, and whoever is about to get or append a
  start time has seen a count of zero, which stays true in the sense that all have reached
  (`CountStaysTrue`). `BarrierInvInit` and `BarrierInvStep` show that it is inductive.
- `OneStart`, `StartTimeIsFinal`: `OneStartTime` and `StartIsFinal`, from `StartsOnlyGrow` (the list of start
  times is only appended to) and `HeadOfAppend`.
- `RecordsAgree`, `StatesAdvance`: `NotReadyMatchesMapping` and `StatesOnlyAdvance`, from `StateInv`, which ties
  `self.state`, the mapping and the stage of the handler together
  (`ReportFitsStage`, `MappingFitsStage`, `MarkMatchesReport`).
- `Refinement`: `ExperimentBarrier` implements `StartBarrier`
  (`RefinesInit`, `RefinesStep`). Configured reports map to `Arrive`, the first append
  to `Decide`, `Learn` to `LearnStart`, all else stutters.

The same module, for any number of experiments, of VMs and of calls under way:

- `MappingsAreCurrent`: `OldMappingsGone`. `StopInv` adds that a registration under way is of a current VM and while no stop
  runs, and that no mapping exists from when stop has emptied them; handlers keep it because they write only
  mappings that are there (`WriteKeeps`).

`ModelComponentManagerProofs`, for any finite repositories, any command lines and tables of
defaults:

- `RepeatsAreAskedFor`: `OnlyAskedForRepeats`, a component is in the experiment twice only
  if the command line has it twice.
- `ReasonsLeadBack`: `EveryComponentHasAReason`, whatever is not on the command line was
  brought in by a component with a smaller identifier.

  Neither is inductive. That a default provider is inserted once rests on the graph:
  a component that is there has an edge to every label it provides, so a label without an edge into it has no
  provider in the graph (`NoProviderPresent`), and such a label is one that some
  entity depends on (`GraphInv`). That a dependency has a reason rests on the queue: what waits there is
  wanted by an entity, or is itself in the graph (`QueueInv`). `Insertion` says what inserting a
  component does to the graph, `NewComponent` that doing so for a reason keeps both
  properties; `InitInv` and `NextInv` put the steps together.
- `RoundsAreBounded`: `RoundsAreFew`. A round that has changed something has inserted, or follows one that inserted in its last
  part, so it is not the last one that its insertions allow (`RoundsInv`).
- The sort. `Taken` is a function over numbers, and what each of its values keeps (`Sound`: no node twice, none before its predecessors) goes up
  by an induction whose statement is a set (`Upwards`). `Sorting`: it stops only when nothing is
  ready, so the graph has a cycle exactly when a node is left over. `PlacesFollowEdges` and `FirstIsFound` are what the rest of the
  code relies on, and `LeastIsThere` that the comparison `Before` orders any nodes.
- `CyclesAreDeclared`: `RefusedOnlyForCycles`. Every edge between entities is demanded by manifests or command line, every edge at an attribute is
  declared (`EdgesInv`), and so is every request for an edge (`AskedInv`). `get_first` gives the first entity of a name that was inserted,
  because the command line is a chain in the graph (`ChainInv`, `FirstIsFirst`). What the sort leaves over then has a demand for each of its entities.
- `DependenciesComeFirst`: `DependenciesRunFirst`. What an entity depends on has an edge to it or waits for it in the queue, or does so for an
  entity that itself comes before it (`ServedInv`). The second case is that of a provider whose dependencies are borrowed by
  the component that precedes it: it needs that this component is the first of its name, which is true
  because the last loop goes through the command line in order and an attribute has one default provider (`LoopInv`, `TasksAreFirst`). A round
  that has changed nothing leaves the queue empty, every attribute provided and no cycle (`PhaseInv`), and the components are run by
  their places (`RunsInv`).

`ExperimentGraphProofs`, for any number of handles and ids:

- `VerticesAreTheirs` and `EdgesAreJoined`: `UsableVertexIsInGraph` and `EdgesJoinUsableVertices`. The inductive
  invariant `Inv` is the types of the graph and its handles with both properties. The first one's argument is that a new id is never
  in use (`NewIdIsFree`) and that `delete` takes away the handle's own node (`DeleteVertexUsable`); the second one needs the first: a deleted
  vertex takes all edges at its id along, and only because no other usable vertex has that id is no edge of
  another vertex lost or left dangling. One lemma for each operation and property.

`VMResourceHandlerProofs`, for any schedule at launch, any entries added later, any number of reboots and failed calls:

- `LocalBarrierHolds` and `ReportIsTrue`: `LocalBarrier` and `ConfiguredMeansDone`. The inductive invariant `HandlerInv` says
  where an entry still to be done in negative time is, and when (`PlaceInv`): it is never of an earlier time than
  `current_time`, and of exactly that time from when it leaves the queue until it has ended, so that a batch that holds it
  has `time_updated` set and takes nothing later. With the joins (`BatchInv`) an entry is then taken off the queue
  only when all of an earlier negative time is done (`OrderInv`), and `current_time` is not negative, or the queue empty past the first
  negative time, only when all of negative time is. All this takes the launch schedule to come into the queue in
  one hold of the lock before anything else (`ScheduleInv`, `FetchInv`). A launch schedule that is empty has
  nothing to show. One lemma for each action.
- `OrderRefinement`: `VMResourceHandler` implements `ScheduleOrder`. `StartInv` adds that `has_start`, and a start event on its way, are
  true of the server, and that what waits for its second run has asked for a reboot, so that it goes on counting as started.

`FileStoreProofs`, for any number of hosts, of readers on any of them (the head included), any sizes, attempts and faults:

- `FilesAreWhole`: `WholeFiles`. A lock has one holder, who is in the body, died or starved in it, and on a host where the protocol was kept nobody
  else is in the body (`LockInv`); half a file there is an image that this holder is writing or was writing when it died or starved
  (`HalfInv`), under a name that its open file still has (`WriterInv`). So whoever waits until the lock is gone finds no half
  file (`FreeIsWhole`), and a writer whose file was removed leaves none (`OthersAreWhole`). One lemma for each action, on top of
  one for each way in which a process moves: outside the body, within it, out of it.
- `AddReachesEveryHost`: `AddedEverywhere`. The answer is yes when every host lists the head's size, so it is enough that the head has the new
  file from the moment the adder broadcasts (`HeadInv`). Nothing is ever sent to the head (`OnlyAskedAreSent`), as long as the add is not `crowded` readers there
  only wait and read (`QuietHead`), and what the old archive was unpacked to is gone before the adder looks for it, so it cannot take the old image for the new
  one. What the other hosts unpack, receive, lose or delete meanwhile (`HeadIsLeftAlone`) makes the answer no, or yes for a file of the same size: the
  theorem claims no more than a listing can tell. With a reader at work on the head it would be false: one that has opened the old archive
  writes the old image after the add.

`ScheduleUpdaterProofs`, for any schedules, pauses, breaks, resumes and additions:

- `NoEntryLost`: `NothingLost`. An item is in one place at a time: not yet added, in the file, held back, in the batch's queue or in
  the shared queue (`Apart`), and what has not reached the shared queue still has the time it was given (`TimesKept`), because the code
  changes the time of the entry itself. So the number of places an entry is in (`CopiesAreOne`) is 1 from when it is added.
- `BreaksHold`: `BreakHolds`, for schedules with at most one break at -inf (`OneBreakAtStart`). A break of the batch is either still in the
  batch's queue or the break that is on, and then nothing earlier is left in the queue (`BreaksToCome`, `BreakIsOn`); what a break of an earlier batch held
  back comes again only with the resume that ends it, which comes first (`OldBreak`). The hypothesis is needed: see below.
- `ResumesAreOnTime`: `ResumeFormula`, for schedules in which no pause has the time of another pause or of an entry (`DistinctTimes`, which
  `MCScheduleUpdater` satisfies; what comes first of two items of one time the code leaves open). `Taken` are the breaks that have been on. All that is held
  back, and the pauses to come, are behind all of them (`TakenBefore`), and `break_start` is the time of the last
  (`LastTaken`); until the next break a batch that was released has everything that was held (`AllReleased`), its resume is the first thing in it
  (`Resumed`), and `pause_amount` is the sum of the pauses it has taken (`PastPauses`). So the breaks before a released entry
  are exactly those that have been on, and the pauses between the last of them and the entry those that have been taken. That the community modules'
  sum over a set grows by the duration of a pause that is added to the set, whatever order the sum is taken in, is `TotalOfOneMore`: a function
  that adds up in any order exists for every finite set (`DurationsAddUp`), and the recursion of the sum agrees with it (`TotalAddsUp`), both by induction
  over finite sets stated with a set for what holds of them (`ByRemoval`).

`GuestProofs`, for any number of runners and watchers, lost, late and blocked commands, reconnections, reboots that fail and exits in any order:

- `ExitCodesAreOwn`: `ExitCodeIsOwn`. As long as no cause is in `mixed` there is no stray answer, and the steps are fewer (`InTimeStep`). The processes and the cache
  have different pids of one boot (`ProcessesApart`, `CacheIsFresh`), and the pid a runner waits for is of its own process in its present job (`OwnProcess`), across the
  reboot because the cache is emptied before pids start again. All of it but `ProcessesApart` holds only while `mixed` is empty, and each of its three causes does
  break it in the code: they are the hypothesis, not an abstraction. `Effect` sums up what a step does to processes and cache, so that
  the proof has one case per effect, not per action.
- `OutputIsLoggedOnce`: `OutputOnce`. What has been logged of a process that is waited for is out of the cache (`LoggedOnce`).
- `ResourceIsStartedOnce`: `StartedOnce`. The starts are counted against lost answers and reboots, and one less while the start is still to
  come (`StartsCounted`); a resource that wants no reboot is never told to make one (`NeverAsked`), neither by the file nor by an exit code of 10.
- `RebootIsHonoured`: `RebootHonoured`. The file is made while the runner waits for its resource (`MainIsAwaited`), so the check comes after
  it, and a check that found no file is right (`CheckIsRight`).
- `FileIsWhole`: `LoadedIsWhole`, for a file of any number of chunks. Where the load stands says what is in the VM (`FileWhere`).

`RepositoryInstall` in `CommandLineProofs`, for any repositories (not one called "unreadable"), components and commands, stopped anywhere:

- `FlagsAreTrue`: `FlagMeansInstalled`. A command past the work of a script has the script's component among those that succeeded, one that is past the flag among
  those flagged (`ScriptInv`); every step that ends the time in which a flag is still to come leaves the flag or a reason (`FlagsAfter`).
- `RepositoriesAreKept`: `RepositoriesAreThoseInstalled`. As long as `disturbed` is not set at most one command is past reading the
  file (`AloneInv`), and what it holds is what earlier commands left, changed as it will be when the command ends (`EntriesInv`).

`HelperExecution`, for any finite set of hosts and any command lines:

- `ZeroIsSuccess` and `SectionStartedOnce`: `ZeroMeansAllDone` and `NotStartedAgain`. Hosts outside the second try have ended with 0 (`DoneInv`), and
  those in it have a code that asked for it until they answer (`FreshInv`); the counts of errors are 0 only when no host
  is counted (`CountOfFailed`), so a section that did not end with 0 everywhere leaves a count that never goes down (`CountInv`).

`RemoteShell`, for any number of calls, VMs and host files:

- `HostsAreTranslated`: `EveryHostHasItsAddress`. A name whose turn has not come is unchanged and an address afterwards, whatever the order
  (`TextInv`); the file that a call by itself has written is what it hands over (`TmpInv`, `GivenInv`).

`ResourceUpload`, for any files, versions, names, uploaders, edits and interrupts:

- `StoreHoldsTheFile`: `StoreIsCurrent`. A copy with the time of a version has its content (`TimeIsTrue`): this is what
  `_upload_images` relies on, and it holds because the copy's own time is that of the moment until `copystat`. The image beside a whole copy is that copy's, but between the
  end of the copy and the removal of the old image (`UnpackedIsTrue`), which is where an interrupt makes a name `suspect`. `Placed` says what an uploader
  knows at each of its steps, `OneCopies` and `MetNone` that others who copy to the name are noted.

`PathWorkers` in `ExperimentGraphProofs`, for any graph, filter and finite number of workers:

- `PairsAreReportedOnce`: `EveryPairOnce`. A source is unseen, in the queue, or with one worker (`SourcesInv`); a wanted pair is still to be
  answered, in one worker's queue, or reported (`PairInv`); a worker's `STOP` is the last it puts (`QueuesInv`) and the caller returns when it has heard
  all of them (`EndsInv`), so nothing is in any queue then.

`VertexDecoration`, for any classes, entries and conflict handlers:

- `DecoratorsAreKept`: `EveryDecoratorKeepsItsEntries`. What a class has brought is held, unless the `__init__` of another was entered and assigns
  the name, and is in `cached_self_dir` either way (`BroughtInv`), which is what makes the next class take it for a conflict; the cache by class name is right for a
  name that only one class has (`CacheInv`). What an `__init__` itself assigns is not protected (see below).
- `RequiredComeFirst`: `RequiredAreInitializedFirst`. The calls of `decorate` under way are on one instance, each for what the next outer
  one requires (`FramesInv`), and a decorator that is not initialized is one of them (`InitializedInv`), on an instance that no decoration of has failed. That `is_decorated_by` is enough to ask, although it
  says nothing about `__init__`, rests on requirements having no circle (`NoCircle`, from `DecorationAssumption`).

What is assumed of the constants are the named ASSUMEs of the modules, each justified by the code: helpers and the schedule contain
different kinds of entries and no time before -inf (`ItemAssumption`); a name that stands for an archive does so for all its files,
since the name ends in its suffix, and no file's time is 0 or the moment of the copy (`UploadAssumption`); a call runs ssh or pssh and a host
file names VMs (`ShellAssumption`); processes are finitely many and `STOP` is no vertex (`SearchAssumption`); hosts are finitely many
(`HelperAssumption`); a repository has finitely many manifests, and they have the fields that `get_attributes` reads (`WellFormedManifests`). TLC evaluates them in the runs.

What the proofs found out about the model:

- `BreakHolds` is not true of two breaks at -inf in one schedule: the second is held back by the first, comes again with the
  resume, which is at -inf too, and may be taken before it; it is then handed on to the main thread as an
  event like any other and holds nothing back (`schedule_updater.py:277`). With an entry at the time of a break the order is as arbitrary: adding `sys.float_info.min` to the break's time changes no
  float but 0, so the property says `<=`.
- `RebootHonoured` was false with two watchers, which one watcher in the run never showed: an exit noted between the reset
  of the cache and the shutdown may answer the check of the next boot. It is one of the causes in `mixed`.
- `ResumeFormula` counted the pauses from the time that is subtracted, which is 0 for a break at -inf, and so left out a pause at a negative time behind
  such a break, and it looked for an entry's break among all breaks, not those of the VM's schedule. It now counts from the
  break itself, looks in the schedule the VM was launched with (`launch`), and a run has such a pause (`pause-2`).
- `AddedEverywhere` was false with a reader on the head: one that is still unpacking the old archive, on a file without a name, or one that gets the lock
  between the adder's steps, gives the head the old image again. It is stated for adds that are not `crowded`.
- An instance's own entries are kept whatever the classes are called, so that part of `EveryDecoratorKeepsItsEntries`
  lost its condition.
- `StoreIsCurrent` needs that a name is an archive's for all of its files or for none.

Proved, and not among the runs' properties: `TypeOK`, `StartIsFinal`,
`NotReadyMatchesMapping` and `StatesOnlyAdvance` of the barrier and `OnlyAskedForRepeats`. Only model-checked is
all liveness (the barrier opening, every entry run, the VM becoming configured, every get, resource, search and call ending, every change
  copied), which is out of the prover's reach.

## Where code and documentation part

Each is a violation run, quoted in `PROJECT.json` under "findings".

1. `handler_slept`: the direct query for the start time was added so as not to rely on
   the updater's event, but when the query fails the event may be in the
   batch that is not returned until something else wakes the thread.
2. `precedes_broken`: whether a preceded component comes late enough is read off the
   order of the moment, and no edge keeps it so; `dependencies.rst:238`
   guarantees that it is executed after the component that precedes it.

Seen while modelling, without a run of their own:

- `sync` sends one ping and one marker and reads one answer to each (`OpenSocket` of `GuestAgent`), where its docstring (`qemu_guest_agent_driver.py:98`) has it
  drain the buffer until the marker is returned; with an old answer to come every later command reads the answer to the one before, and
  the `None` it returns is only logged (`vm_resource_handler.py:206`).
- Hosts are compared by the name and size of the file (`file_store.py:733`), and line 720 calls that "if all versions of the file are the same": an add
  reports success while a host has the old file of the same size.
- Half an `.xz` is read for ever with the lock held (`file_store.py:334`), where `get_path` promises a `RuntimeError` (445): `EveryGetEnds` excepts it and
  whoever waits behind it.
- The attributes that `__init__` assigns are not among those a conflict is looked for (`experiment_graph.py:237`), so a class with an entry of that
  name replaces it, where `decorate` promises a `DecoratorConflictError` (348); `EveryDecoratorKeepsItsEntries` is about those that are.
- A resume shifts its whole batch although no break is on (`vmr_schedule.rst:101` says that
  it is ignored then); `Later` does the same, and `ResumeFormula` is about entries held back by a break.
- When the provider of a preceded attribute is inserted, its dependencies are associated with the
  component that precedes it (`model_component_manager.py:371`; the branch for components, 324, uses the new component). A
  provider that depends on that component is refused as circular. `RefusedOnlyForCycles` holds
  only because it counts these dependencies (`Borrowed`) as declared.
- A preceded attribute gets its default provider also when another one is on the command line.
- Components that precede each other may be accepted: each is found in order, or put in
  order, when it is looked at.
- When the last VM's count or proposal is lost, its state is already "configured" and no VM asks
  again; `vmr_schedule.rst:48` says a start time is determined once all VMs have reached time 0.
- `firewheel stop` clears the start times before it kills the handlers; one that proposes in between starts the next experiment
  (`cli/helpers/stop/index:24`).
- `preload_files` ignores `load_files_in_target`'s answer, so an entry without its files is executed (`vm_resource_handler.py:1037`).
- Between the decision of a start time and the start the experiment time is negative, and a resume shifts entries
  into negative time or to 0 (`schedule_updater.py:319`).
- File store: the comment "we have the lock" (`file_store.py:320`) is not true after a `FileExistsError`, which only is logged; a
  lock whose holder died is left to `mm flush_locks`, which without `--clear` sets half a file free; a file that is added from its
  content is written in place, without the lock. With three hosts, `broadcast_get_file` may hand a host half an image, when minimega takes it from one
  that is still unpacking.
- Uploads: a copy is written and then given the file's time; an image stopped between the end of the copy and its unpacking
  stays stale, as does one edited between the two halves of `copy2`.
- Guest agent: a reboot asked for by the file is missed when the answer to the check is lost, contrary to the comment at
  `vm_resource_handler.py:779`; an answer that a resource has exited, when lost, lets it run again; a command of another thread that meets a
  reconnection ends its thread; `load_files_in_target` returns True for a part of a file that an `open` or `close` whose
  answer was lost left in the VM (1303 asks only whether the file exists); a timed-out `exec_status` reconnects only for jobs that are repeated; `delete_file`
  calls `encode` on the error output it has not got (`abstract_driver.py:581`); an exception of the shutdown is swallowed and the entries run again without a reboot.
- Experiment graph: `delete` never asks whether its handle is valid, and a stale one deletes another vertex with its edges; the caches of
  decorators are keyed by class names; an `__init__` that fails leaves its class a decorator, which is not decorated with again; a worker process that dies lets its caller wait for ever.
- Helpers: a section that exits with 2 for reasons of its own is run again after a sync of all caches; a cache that could not be filled is
  noticed only by the next section; helpers at once empty each other's caches; exit statuses are summed up modulo 256.
- ssh tests a VM once more than `max_call_attempts`; a name within a longer name garbles pssh's host file, and all pssh calls on one
  file share one temporary file; `_check_version` waits for ever for a child that dies before it answers.
- Repositories: `repositories.json` is emptied and then written, and a command stopped in between leaves a file that the next one takes for
  empty; a script that leaves no flag and was run with `--insecure`, or whose command was stopped before the flag, is run again.

## Not modelled, and the plan

Left out for good: terminal output, parsing and argument handling of the command
line, generated gRPC stubs, configuration and logging set-up, scaffolding of
new model components (file I/O without protocol), listing and other queries. The discovery API is a client
whose calls keep no state here. Clocks are left out of the
barrier (a start time is a name); sleeps and load balancing delays are any interleaving. The
state of the gRPC server after a restart, which has forgotten everything, is not modelled yet. Decoration of edges is the code
of `VertexDecoration`. Resources that run on the host (`_run_vm_resource_host`) use no guest agent and are single steps
of `VMResourceHandler`. Also left out, each a simplification a reader should know of: an exception while the updater holds the
condition's lock (the log line at `schedule_updater.py:306`); a `path_action` that raises, and a search without workers; helpers run locally by
`LocalPython`, whose exit code may be negative; two uploads with one modification time and different content (`ResourceUpload`'s versions
differ in time); an `__init__` that itself calls `decorate`; more than one answer waiting on the agent's socket; a second process adding the same file.

Next, in this order:

1. The schedule file on top of `FileStore`: read, append and write by several helpers against the updater's
   "everything behind what I have saved".
2. `firewheel save` and `load` as a lifecycle of their own: restored mappings with
   reports made before, a restored start time, breaks put in front of schedules.
3. The composition of `GuestAgent`'s retries with `VMResourceHandler`'s resources, and of several handlers on one file store.
4. A restart of the gRPC server.
