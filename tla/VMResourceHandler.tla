--------------------------- MODULE VMResourceHandler ---------------------------
(***************************************************************************)
(* One VM's resource handler: the schedule updater thread feeding a shared *)
(* priority queue under a condition variable, the main thread taking the   *)
(* eligible events off it and starting a thread for each VM resource, and  *)
(* the resources themselves, which finish or ask for a reboot.             *)
(*                                                                         *)
(* The gRPC server is seen through two facts: the state this VM has        *)
(* reported and whether the experiment's start time exists, which is not   *)
(* before this VM has reported itself configured (ExperimentBarrier).      *)
(* Pauses, breaks and resumes are ScheduleUpdater's.                       *)
(***************************************************************************)
EXTENDS Integers, Sequences, FiniteSets

CONSTANTS
  Entry,       \* schedule entries
  Time,        \* Time[e]: the start time of e
  Initial,     \* the schedule at launch, a sequence of entries
  OnHost,      \* entries run on the physical host
  DataOnly,    \* entries without an executable
  Transfers,   \* entries that copy files out of the VM
  Unloadable,  \* entries whose files cannot be loaded into the VM
  Tolerant,    \* entries with ignore_failure
  Reboots,     \* Reboots[e]: how often e asks for a reboot
  initial_time,\* a time before all others
  MaxFaults    \* how many calls to the gRPC server may fail

InitialEntries == {Initial[i] : i \in DOMAIN Initial}

ASSUME EntryAssumption ==
  /\ Initial \in Seq(Entry)
  /\ initial_time \in Int
  /\ Time \in [Entry -> Int]
  /\ \A e \in Entry : Time[e] # 0 /\ Time[e] > initial_time
  /\ Reboots \in [Entry -> Nat]
  /\ \A e \in Entry \cap (OnHost \cup Transfers \cup DataOnly) : Reboots[e] = 0
  /\ DataOnly \cap Transfers = {}
  /\ MaxFaults \in Nat

\* Queue items. A special event is queued before every entry.
START == [kind |-> "EXPERIMENT_START_TIME_SET"]
EMPTY == [kind |-> "EMPTY_SCHEDULE"]
Special == {START, EMPTY}
Item(e) == [kind |-> "ENTRY", entry |-> e]

VARIABLES
  schedule,       \* ScheduleDb: the VM's schedule, a sequence of entries
  server_state,   \* gRPC server: the state this VM has reported
  server_start,   \* gRPC server: a start time has been set
  faults,         \* failed gRPC calls so far
  upc,            \* updater thread: where it stands
  items,          \* updater: the new entries it has fetched
  saved,          \* updater: len(self.saved_schedule)
  not_received,   \* updater: self.schedule_not_received
  start_time,     \* updater: self.start_time is set
  prior_q,        \* the shared priority queue
  lock,           \* who holds the condition's lock
  waiting,        \* the main thread is in condition.wait, not notified yet
  pc,             \* main thread: where it stands
  state,          \* main: self.state
  current_time,   \* main: self.current_time
  time_updated,   \* get_events: its local time_updated
  events,         \* the batch get_events returns and _run processes
  has_start,      \* main: self.experiment_start_time is set
  preloaded,      \* entries whose files are taken to be in the VM
  running,        \* negative time resources whose threads _run will join
  reboot_queue,   \* resources that have asked for a reboot
  reboots,        \* reboots[e]: how often e has asked
  timers,         \* positive time entries whose timers are set
  finished,       \* entries that have run, fired or been loaded for good
  dropped         \* positive time entries given up for want of a start time

environment == <<schedule, server_start>>
updater == <<upc, items, saved, not_received, start_time>>
queue   == <<prior_q, lock, waiting>>
main    == <<pc, state, current_time, time_updated, events, has_start, preloaded>>
work    == <<running, reboot_queue, reboots, timers, finished, dropped>>
vars    == <<environment, server_state, faults, updater, queue, main, work>>

Init ==
  /\ schedule = Initial /\ server_state = "configuring" /\ server_start = FALSE
  /\ faults = 0
  /\ upc = "fetch" /\ items = {} /\ saved = 0
  /\ not_received = TRUE /\ start_time = FALSE
  /\ prior_q = {} /\ lock = "free" /\ waiting = FALSE
  /\ pc = "preload" /\ state = "configuring" /\ current_time = initial_time
  /\ time_updated = FALSE /\ events = <<>> /\ has_start = FALSE /\ preloaded = {}
  /\ running = {} /\ reboot_queue = {} /\ reboots = [e \in Entry |-> 0]
  /\ timers = {} /\ finished = {} /\ dropped = {}

-------------------------------------------------------------------------------
(* The environment.                                                        *)

\* A helper appends an entry to the VM's schedule while the experiment runs.
AddEntry(e) ==
  /\ e \notin {schedule[i] : i \in DOMAIN schedule}
  /\ schedule' = Append(schedule, e)
  /\ UNCHANGED <<server_state, server_start, faults, updater, queue, main, work>>

\* The last VM of the experiment to be configured sets the start time.
StartDecided ==
  /\ server_state = "configured"
  /\ ~server_start
  /\ server_start' = TRUE
  /\ UNCHANGED <<schedule, server_state, faults, updater, queue, main, work>>

-------------------------------------------------------------------------------
(* The updater thread.                                                     *)

\* Mutant: the main thread is not notified.
EnqueueSilently(new) ==
  /\ lock = "free"
  /\ prior_q' = prior_q \cup new
  /\ UNCHANGED <<lock, waiting>>

\* Put new events in the queue under the lock and wake the main thread.
Enqueue(new) ==
  /\ lock = "free"
  /\ prior_q' = prior_q \cup new
  /\ waiting' = (waiting /\ new = {})
  /\ UNCHANGED lock

\* Mutant: the first new entry is taken for saved.
NewButFirst == {schedule[i] : i \in (saved + 2) .. Len(schedule)}

NewEntries == {schedule[i] : i \in (saved + 1) .. Len(schedule)}

\* Only the part of the schedule past the saved one is new. The file may not be
\* there yet, in which case the thread sleeps and tries again.
Fetch ==
  /\ upc = "fetch"
  /\ items' = NewEntries
  /\ saved' = Len(schedule)
  /\ upc' = "put"
  /\ UNCHANGED <<not_received, start_time, environment, server_state, faults,
                 queue, main, work>>

\* All the new entries reach the queue in one hold of the lock.
PutItems ==
  /\ upc = "put"
  /\ Enqueue({Item(e) : e \in items})
  /\ not_received' = (not_received /\ items = {})
  /\ upc' = IF items = {} /\ not_received THEN "empty" ELSE "poll"
  /\ items' = {}
  /\ UNCHANGED <<saved, start_time, environment, server_state, faults, main, work>>

PutEmpty ==
  /\ upc = "empty"
  /\ Enqueue({EMPTY})
  /\ not_received' = FALSE
  /\ upc' = "poll"
  /\ UNCHANGED <<items, saved, start_time, environment, server_state, faults,
                 main, work>>

\* The poll for the start time; when it fails the next round asks again.
Poll ==
  /\ upc = "poll"
  /\ \/ /\ server_start /\ ~start_time
        /\ start_time' = TRUE
        /\ upc' = "start"
     \/ /\ ~server_start \/ start_time
        /\ upc' = "fetch"
        /\ UNCHANGED start_time
  /\ UNCHANGED <<items, saved, not_received, environment, server_state, faults,
                 queue, main, work>>

PutStart ==
  /\ upc = "start"
  /\ Enqueue({START})
  /\ upc' = "fetch"
  /\ UNCHANGED <<items, saved, not_received, start_time, environment,
                 server_state, faults, main, work>>

UpdaterNext == Fetch \/ PutItems \/ PutEmpty \/ Poll \/ PutStart

-------------------------------------------------------------------------------
(* The main thread: preload_files.                                         *)

Goto(next) == pc' = next

Acquire(from, next) ==
  /\ pc = from
  /\ lock = "free"
  /\ ~waiting
  /\ lock' = "main"
  /\ Goto(next)
  /\ UNCHANGED <<prior_q, waiting, state, current_time, time_updated, events,
                 has_start, preloaded>>
  /\ UNCHANGED <<environment, server_state, faults, updater, work>>

\* condition.wait gives the lock up until the updater notifies; the thread
\* then goes on at next, through Acquire.
Wait(next) ==
  /\ lock' = "free"
  /\ waiting' = TRUE
  /\ Goto(next)
  /\ UNCHANGED prior_q

PreloadWait ==
  /\ pc = "preload_locked"
  /\ prior_q = {}
  /\ Wait("preload_woken")
  /\ UNCHANGED <<state, current_time, time_updated, events, has_start, preloaded>>
  /\ UNCHANGED <<environment, server_state, faults, updater, work>>

\* Every queued in-VM resource is marked preloaded, also one whose files
\* load_files_in_target could not load: its answer is not looked at.
Preload ==
  /\ pc \in {"preload_locked", "preload_again"}
  /\ prior_q # {} \/ pc = "preload_again"
  /\ preloaded' = preloaded \cup
       {e \in Entry \ (OnHost \cup Transfers) : Item(e) \in prior_q}
  /\ lock' = "free"
  /\ Goto("get")
  /\ UNCHANGED <<prior_q, waiting, state, current_time, time_updated, events, has_start>>
  /\ UNCHANGED <<environment, server_state, faults, updater, work>>

-------------------------------------------------------------------------------
(* The main thread: get_events.                                            *)

BeginGet ==
  /\ pc = "get"
  /\ lock = "free"
  /\ lock' = "main"
  /\ events' = <<>>
  /\ time_updated' = FALSE
  /\ Goto("get_locked")
  /\ UNCHANGED <<prior_q, waiting, state, current_time, has_start, preloaded>>
  /\ UNCHANGED <<environment, server_state, faults, updater, work>>

\* set_state(CONFIGURED): the report reaches the server or fails, in which case
\* self.state stays as it was.
ReportConfigured ==
  \/ /\ state # "configured"
     /\ state' = "configured" /\ server_state' = "configured"
     /\ UNCHANGED faults
  \/ /\ state # "configured"
     /\ faults < MaxFaults /\ faults' = faults + 1
     /\ UNCHANGED <<state, server_state>>
  \/ /\ state = "configured"
     /\ UNCHANGED <<state, server_state, faults>>

InNegativeTime == initial_time < current_time /\ current_time < 0

\* Nothing is queued. Past its first negative time resource the VM is done with
\* negative time and says so.
GetWait ==
  /\ pc = "get_locked"
  /\ prior_q = {}
  /\ IF InNegativeTime
       THEN current_time' = 0 /\ ReportConfigured
       ELSE UNCHANGED <<current_time, state, server_state, faults>>
  /\ Wait("woken")
  /\ UNCHANGED <<time_updated, events, has_start, preloaded>>
  /\ UNCHANGED <<environment, updater, work>>

Begin == pc = "get_locked" /\ prior_q # {}
Popping == Begin \/ pc = "pop"

\* The events PriorityQueue.get may return: those of the least time. Events of
\* one time compare in no particular order.
Priority(e) == IF e \in Special THEN initial_time ELSE Time[e.entry]
Least == {e \in prior_q : \A f \in prior_q : Priority(e) <= Priority(f)}

PopSpecial(e) ==
  /\ Popping
  /\ e \in Least \cap Special
  /\ prior_q' = prior_q \ {e}
  /\ events' = Append(events, e)
  /\ Goto("pop")
  /\ UNCHANGED <<lock, waiting, state, current_time, time_updated, has_start, preloaded>>
  /\ UNCHANGED <<environment, server_state, faults, updater, work>>

\* Mutant: a batch goes on to the next time.
AdvancesAgain(e) == Time[e] > current_time

Advances(e) == ~time_updated /\ Time[e] > current_time
TimeFor(e)  == IF Advances(e) THEN Time[e] ELSE current_time

Blocked(e)  == Time[e] > 0 /\ ~has_start

PopEntry(e) ==
  /\ Popping
  /\ Item(e) \in Least
  /\ Time[e] <= TimeFor(e)
  /\ ~Blocked(e)
  /\ prior_q' = prior_q \ {Item(e)}
  /\ events' = Append(events, Item(e))
  /\ current_time' = TimeFor(e)
  /\ time_updated' = (time_updated \/ Advances(e) \/ TimeFor(e) <= 0)
  /\ Goto("pop")
  /\ UNCHANGED <<lock, waiting, state, has_start, preloaded>>
  /\ UNCHANGED <<environment, server_state, faults, updater, work>>

\* The queue is empty, or its least event is of a later time and is put back.
EndGet ==
  /\ Popping
  /\ prior_q \cap Special = {}
  /\ \A e \in Entry : Item(e) \in Least => Time[e] > TimeFor(e)
  /\ lock' = "free"
  /\ Goto("process")
  /\ UNCHANGED <<prior_q, waiting, state, current_time, time_updated, events,
                 has_start, preloaded>>
  /\ UNCHANGED <<environment, server_state, faults, updater, work>>

\* A positive time event and no start time: put it back, report, then ask.
Block(e) ==
  /\ Popping
  /\ Item(e) \in Least
  /\ Time[e] <= TimeFor(e)
  /\ Blocked(e)
  /\ time_updated' = (time_updated \/ Advances(e))
  /\ ReportConfigured
  /\ current_time' = 0
  /\ Goto("query")
  /\ UNCHANGED <<prior_q, lock, waiting, events, has_start, preloaded>>
  /\ UNCHANGED <<environment, updater, work>>

QueryStart ==
  /\ pc = "query"
  /\ server_start
  /\ has_start' = TRUE
  /\ Goto("pop")
  /\ UNCHANGED <<prior_q, lock, waiting, state, current_time, time_updated,
                 events, preloaded>>
  /\ UNCHANGED <<environment, server_state, faults, updater, work>>

\* No start time, or no answer: the client gives None for both.
QueryWait ==
  /\ pc = "query"
  /\ \/ ~server_start /\ UNCHANGED faults
     \/ server_start /\ faults < MaxFaults /\ faults' = faults + 1
  /\ Wait("pop_woken")
  /\ UNCHANGED <<state, current_time, time_updated, events, has_start, preloaded>>
  /\ UNCHANGED <<environment, server_state, updater, work>>

-------------------------------------------------------------------------------
(* The main thread: the rest of _run's loop.                               *)

ProcessSpecial ==
  /\ pc = "process"
  /\ events # <<>>
  /\ Head(events) \in Special
  /\ events' = Tail(events)
  /\ IF Head(events) = START
       THEN has_start' = TRUE /\ UNCHANGED <<current_time, state, server_state, faults>>
       ELSE current_time' = 0 /\ ReportConfigured /\ UNCHANGED has_start
  /\ UNCHANGED <<pc, time_updated, preloaded>>
  /\ UNCHANGED <<environment, updater, queue, work>>

NextEntry(e) == pc = "process" /\ events # <<>> /\ Head(events) = Item(e)

CannotLoad(e) ==
  e \in Unloadable \ (preloaded \cup OnHost \cup Transfers)

\* set_state(FAILED), then sys.exit. Started threads and timers go on.
ProcessFails(e) ==
  /\ NextEntry(e)
  /\ CannotLoad(e) /\ e \notin Tolerant
  /\ \/ state' = "failed" /\ server_state' = "failed" /\ UNCHANGED faults
     \/ faults < MaxFaults /\ faults' = faults + 1 /\ UNCHANGED <<state, server_state>>
  /\ events' = <<>>
  /\ Goto("exited")
  /\ UNCHANGED <<current_time, time_updated, has_start, preloaded>>
  /\ UNCHANGED <<environment, updater, queue, work>>

Entered(e) ==
  /\ NextEntry(e)
  /\ CannotLoad(e) => e \in Tolerant
  /\ events' = Tail(events)
  /\ UNCHANGED <<pc, state, current_time, time_updated, has_start, preloaded>>
  /\ UNCHANGED <<environment, server_state, faults, updater, queue>>

\* Nothing to execute: the entry is done once its files are in the VM. A
\* transfer's thread is started and never joined.
ProcessData(e) ==
  /\ Entered(e)
  /\ e \in DataOnly \/ (e \in Transfers /\ Time[e] < 0)
  /\ finished' = finished \cup {e}
  /\ UNCHANGED <<running, reboot_queue, reboots, timers, dropped>>

ProcessNegative(e) ==
  /\ Entered(e)
  /\ e \notin DataOnly \cup Transfers
  /\ Time[e] < 0
  /\ running' = running \cup {e}
  /\ UNCHANGED <<reboot_queue, reboots, timers, finished, dropped>>

ProcessPositive(e) ==
  /\ Entered(e)
  /\ e \notin DataOnly
  /\ Time[e] > 0
  /\ IF has_start
       THEN timers' = timers \cup {e} /\ UNCHANGED dropped
       ELSE dropped' = dropped \cup {e} /\ UNCHANGED timers
  /\ UNCHANGED <<running, reboot_queue, reboots, finished>>

\* Mutant: the threads are not joined.
NotJoined == TRUE

AllJoined == running = {}

\* Mutant: what asked for a reboot is not run again.
RebootForgotten == FALSE

RebootAsked == reboot_queue # {}

\* All threads of the batch are joined, then the reboots they asked for happen.
Join ==
  /\ pc = "process"
  /\ events = <<>>
  /\ AllJoined
  /\ Goto(IF RebootAsked THEN "rebooted" ELSE "get")
  /\ UNCHANGED <<state, current_time, time_updated, events, has_start, preloaded>>
  /\ UNCHANGED <<environment, server_state, faults, updater, queue, work>>

\* The VM is up again: what asked for the reboot goes back into the queue at
\* its own time.
Requeue ==
  /\ pc = "rebooted"
  /\ lock = "free"
  /\ prior_q' = prior_q \cup {Item(e) : e \in reboot_queue}
  /\ reboot_queue' = {}
  /\ Goto("get")
  /\ UNCHANGED <<lock, waiting, state, current_time, time_updated, events,
                 has_start, preloaded>>
  /\ UNCHANGED <<environment, server_state, faults, updater, running, reboots,
                 timers, finished, dropped>>

MainNext ==
  \/ Acquire("preload", "preload_locked") \/ Acquire("preload_woken", "preload_again")
  \/ PreloadWait \/ Preload
  \/ BeginGet \/ GetWait \/ Acquire("woken", "pop") \/ Acquire("pop_woken", "pop")
  \/ \E e \in Special : PopSpecial(e)
  \/ \E e \in Entry : PopEntry(e) \/ Block(e)
  \/ EndGet \/ QueryStart \/ QueryWait
  \/ ProcessSpecial
  \/ \E e \in Entry : ProcessFails(e) \/ ProcessData(e) \/ ProcessNegative(e)
                      \/ ProcessPositive(e)
  \/ Join \/ Requeue

-------------------------------------------------------------------------------
(* The VM resources.                                                       *)

\* A negative time resource ends; it may have asked for a reboot, in which case
\* it will run again.
Finish(e) ==
  /\ e \in running
  /\ running' = running \ {e}
  /\ IF reboots[e] < Reboots[e]
       THEN /\ reboots' = [reboots EXCEPT ![e] = @ + 1]
            /\ reboot_queue' = reboot_queue \cup {e}
            /\ UNCHANGED finished
       ELSE /\ finished' = finished \cup {e}
            /\ UNCHANGED <<reboots, reboot_queue>>
  /\ UNCHANGED <<timers, dropped, environment, server_state, faults, updater,
                 queue, main>>

\* A timer fires. Its resource has no queue to ask for reboots through.
Fire(e) ==
  /\ e \in timers
  /\ timers' = timers \ {e}
  /\ finished' = finished \cup {e}
  /\ UNCHANGED <<running, reboot_queue, reboots, dropped, environment,
                 server_state, faults, updater, queue, main>>

ResourceNext == \E e \in Entry : Finish(e) \/ Fire(e)

Next ==
  \/ \E e \in Entry : AddEntry(e)
  \/ StartDecided \/ UpdaterNext \/ MainNext \/ ResourceNext

Spec == Init /\ [][Next]_vars

\* Both threads are scheduled, resources end, and the other VMs are configured
\* in the end. Helpers need not add anything.
FairSpec ==
  /\ Spec
  /\ WF_vars(StartDecided) /\ WF_vars(UpdaterNext) /\ WF_vars(MainNext)
  /\ \A e \in Entry : WF_vars(Finish(e)) /\ WF_vars(Fire(e))
-------------------------------------------------------------------------------
(* Properties.                                                             *)

Queued(e)  == Item(e) \in prior_q \/ \E i \in DOMAIN events : events[i] = Item(e)
Started(e) == e \in running \cup reboot_queue \cup timers \cup finished \/ reboots[e] > 0

InitialNegative == {e \in InitialEntries : Time[e] < 0}

\* The local barrier: no entry of the launch schedule starts, in negative or in
\* positive time, while one of an earlier negative time is unfinished, however
\* many reboots that one asks for.
LocalBarrier ==
  \A e \in InitialNegative, f \in InitialEntries :
    Time[e] < Time[f] /\ Started(f) => e \in finished

\* What the VM tells the server is true: once it reports itself configured all
\* its negative time resources have ended, those that wait to run again after a
\* reboot included.
ConfiguredMeansDone ==
  server_state = "configured" => InitialNegative \subseteq finished

\* The main thread never sleeps on work: while it is in condition.wait the queue
\* holds nothing but positive time entries it may not take yet, and no start
\* event lies unprocessed in the batch it is still putting together.
NeverSleepsOnWork ==
  waiting =>
    /\ \A f \in prior_q : \E e \in Entry : f = Item(e) /\ Blocked(e)
    /\ \A i \in DOMAIN events : events[i] # START

\* Entries of the launch schedule and entries added while the experiment runs
\* are all carried out in the end, unless the handler exits.
EveryEntryRuns ==
  \A e \in Entry :
    (\E i \in DOMAIN schedule : schedule[i] = e) ~> (e \in finished \/ pc = "exited")

\* The VM comes to report itself configured, an empty schedule's VM too: all the
\* others of the experiment wait for it (NegativeDone of ExperimentBarrier is fair).
BecomesConfigured == <>(server_state = "configured")

Order == INSTANCE ScheduleOrder WITH
  Entry <- InitialEntries,
  started <- {e \in InitialEntries : Started(e)},
  finished <- finished \cap InitialEntries,
  positive <- server_start

\* The two threads implement the order of the schedule they are given at launch.
ImplementsOrder == Order!OrderSpec
===============================================================================
