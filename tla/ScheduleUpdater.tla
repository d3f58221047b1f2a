---------------------------- MODULE ScheduleUpdater ----------------------------
(***************************************************************************)
(* How the schedule updater turns the entries it fetches into priority      *)
(* queue events when some of them are pauses, breaks (pauses without end)   *)
(* and resumes.  Each fetch is a batch, worked off in the order of start    *)
(* times through a temporary queue, under the lock of the shared queue.     *)
(* The loop's flags are per batch, except that a break outlasts its batch.  *)
(***************************************************************************)
EXTENDS Integers, FiniteSets, FiniteSetsExt

CONSTANTS
  Entry,     \* ordinary entries and transfers
  Pause,     \* pause and break entries
  Resume,    \* resume entries, made by "firewheel vm resume" at -inf
  Time,      \* Time[i]: the start time an item is scheduled with
  Duration,  \* Duration[p]: the duration of a pause, Endless for a break
  Endless,
  NegInf,    \* -math.inf, below every other time
  Launches,  \* the schedules a VM may have at launch, sets of items
  Late,      \* what helpers may add while the experiment runs
  None,      \* no start time yet
  Now        \* the experiment times that occur, counted from the start time

Item == Entry \cup Pause \cup Resume

ASSUME ItemAssumption ==
  /\ Entry \cap (Pause \cup Resume) = {} /\ Pause \cap Resume = {}
  /\ Time \in [Item -> Int] /\ NegInf \in Int
  /\ \A i \in Item : NegInf <= Time[i]
  /\ \A r \in Resume : Time[r] = NegInf
  /\ \A e \in Entry : Time[e] # 0 /\ Time[e] > NegInf
  /\ \A p \in Pause : Duration[p] = Endless \/ Duration[p] \in Nat \ {0}
  /\ Launches \subseteq SUBSET Item
  /\ Late \subseteq Entry \cup Resume
  /\ Now \subseteq Int /\ None \notin Now

VARIABLES
  launch,        \* history: the schedule the VM was launched with
  incoming,      \* items in the schedule file that the updater has not fetched
  unused,        \* items helpers may still add
  experiment_time,\* time since the start time, None before there is one
  busy,          \* the updater is working a batch off
  batch,         \* the items of that batch
  released,      \* those of them that a break held back before
  start_time,    \* start_time[i]: the entry object's start time, which changes
  break_items,   \* self.break_items
  renewed,       \* resume items that were held back and came back as new items
  found_break,   \* a break is on
  break_start,   \* the time it was scheduled at
  temp_q,        \* the batch's queue of <<time, item>>
  break_event, pause_amount, resume, resume_time,  \* the loop's local variables
  prior_q        \* the shared queue: <<time, item>> for all that was ever put

file  == <<launch, incoming, unused, experiment_time>>
loop  == <<temp_q, break_event, pause_amount, resume, resume_time>>
break == <<break_items, found_break, break_start>>
vars  == <<file, busy, batch, released, start_time, renewed, break, loop, prior_q>>

Init ==
  /\ launch \in Launches /\ incoming = launch /\ unused = Late \ incoming
  /\ experiment_time = None
  /\ busy = FALSE /\ batch = {} /\ released = {} /\ start_time = Time
  /\ break_items = {} /\ renewed = {} /\ found_break = FALSE /\ break_start = 0
  /\ temp_q = {} /\ break_event = FALSE /\ pause_amount = 0
  /\ resume = FALSE /\ resume_time = 0
  /\ prior_q = {}

-------------------------------------------------------------------------------
(* The environment: helpers append to the schedule and time passes.        *)

Add(i) ==
  /\ i \in unused
  /\ incoming' = incoming \cup {i}
  /\ unused' = unused \ {i}
  /\ UNCHANGED <<launch, experiment_time, busy, batch, released, start_time,
                 renewed, break, loop, prior_q>>

Tick ==
  /\ experiment_time' \in
       {t \in Now : IF experiment_time = None THEN TRUE ELSE t > experiment_time}
  /\ UNCHANGED <<launch, incoming, unused, busy, batch, released, start_time,
                 renewed, break, loop, prior_q>>

-------------------------------------------------------------------------------
(* One batch.                                                              *)

BroughtBack == IF incoming \cap Resume # {} THEN break_items ELSE {}

\* A batch with a resume brings back what an earlier break held, a resume held
\* back among it as an item with nothing to do.
Fetch ==
  /\ ~busy
  /\ incoming # {}
  /\ busy' = TRUE
  /\ released' = BroughtBack
  /\ batch' = incoming \cup released'
  /\ temp_q' = {<<start_time[i], i>> : i \in batch'}
  /\ renewed' = renewed \cup (released' \cap Resume)
  /\ break_items' = break_items \ released'
  /\ incoming' = {}
  /\ break_event' = FALSE /\ pause_amount' = 0 /\ resume' = FALSE /\ resume_time' = 0
  /\ UNCHANGED <<launch, unused, experiment_time, start_time, found_break, break_start,
                 prior_q>>

\* q is one the temporary queue may return next: items of one time come in no
\* particular order.
Takes(q) ==
  /\ busy
  /\ q \in temp_q
  /\ \A r \in temp_q : q[1] <= r[1]
  /\ temp_q' = temp_q \ {q}
  /\ UNCHANGED <<file, busy, batch, released, renewed>>

\* Mutant: a break is not looked for after a resume.
IsPauseBeforeResume(i) == i \in Pause /\ ~found_break /\ ~resume

IsPause(i)  == i \in Pause /\ ~found_break
IsResume(i) == i \in Resume \ renewed

\* Mutant: what follows a break is dropped.
Dropped(i) == break_items

Held(i) == break_items \cup {i}

\* After a break everything else in the batch is held back.
Hold(q) ==
  /\ break_event
  /\ Takes(q)
  /\ break_items' = Held(q[2])
  /\ UNCHANGED <<start_time, found_break, break_start, break_event, pause_amount,
                 resume, resume_time, prior_q>>

Paused(p) == pause_amount + Duration[p]

\* Mutant: a break at -inf is not taken to start at 0.
BreakAt(t) == t

BreakFrom(t) == IF t = NegInf THEN 0 ELSE t

TakePause(q) ==
  /\ ~break_event
  /\ IsPause(q[2])
  /\ Takes(q)
  /\ IF Duration[q[2]] = Endless
       THEN /\ found_break' = TRUE /\ break_event' = TRUE /\ resume' = FALSE
            /\ break_start' = BreakFrom(q[1])
            /\ UNCHANGED pause_amount
       ELSE /\ pause_amount' = Paused(q[2])
            /\ UNCHANGED <<found_break, break_event, resume, break_start>>
  /\ UNCHANGED <<start_time, break_items, resume_time, prior_q>>

TimeSinceStart == IF experiment_time = None THEN 0 ELSE experiment_time

\* The time since the start reads as 0 when there is no start time.
TakeResume(q) ==
  /\ ~break_event
  /\ IsResume(q[2])
  /\ Takes(q)
  /\ resume' = TRUE /\ found_break' = FALSE /\ break_event' = FALSE
  /\ resume_time' = TimeSinceStart
  /\ UNCHANGED <<start_time, break_items, break_start, pause_amount, prior_q>>

Shift(t, d) == IF t = NegInf THEN NegInf ELSE t + d

Later == pause_amount + IF resume THEN resume_time - break_start ELSE 0

\* All else is queued, later by what the batch's resume and pauses say; so is a
\* pause met while a break is on, which the main thread has no use for.
TakeOther(q) ==
  /\ ~break_event
  /\ ~IsPause(q[2]) /\ ~IsResume(q[2])
  /\ Takes(q)
  /\ start_time' = [start_time EXCEPT ![q[2]] = Shift(q[1], Later)]
  /\ prior_q' = prior_q \cup {<<Shift(q[1], Later), q[2]>>}
  /\ UNCHANGED <<break, break_event, pause_amount, resume, resume_time>>

Release ==
  /\ busy
  /\ temp_q = {}
  /\ busy' = FALSE
  /\ UNCHANGED <<file, batch, released, start_time, renewed, break, loop, prior_q>>

Next ==
  \/ \E i \in Item : Add(i)
  \/ Tick
  \/ Fetch \/ Release
  \/ \E q \in temp_q : Hold(q) \/ TakePause(q) \/ TakeResume(q) \/ TakeOther(q)

Spec == Init /\ [][Next]_vars

-------------------------------------------------------------------------------
(* Properties.                                                             *)

Breaks == {p \in Pause : Duration[p] = Endless}

\* Entry e is put in the shared queue by this step, with time QueuedAt(e).
Queued(e)   == \E q \in prior_q : q[2] = e
Queuing(e)  == ~Queued(e) /\ \E q \in prior_q' : q[2] = e
QueuedAt(e) == (CHOOSE q \in prior_q' : q[2] = e)[1]

\* How long the batch's finite pauses between two times last together.
PausedBetween(t, u) ==
  MapThenSumSet(LAMBDA p : Duration[p],
                {p \in batch \cap (Pause \ Breaks) : t < Time[p] /\ Time[p] < u})

\* The break that held e back last.
BreaksBefore(e) == {b \in Breaks \cap launch : Time[b] < Time[e]}
BreakOf(e) ==
  CHOOSE b \in BreaksBefore(e) : \A c \in BreaksBefore(e) : Time[c] <= Time[b]

\* "sched_time - break_sched_time + exp_time" (vmr_schedule.rst): an entry that was
\* held back starts as long after the resume as it was scheduled after its own
\* break, the last of several, or after 0 if that break is at -inf, and later by
\* the pauses since the break.
ResumeFormula ==
  [][\A e \in Entry \cap released :
       Queuing(e) =>
         LET t == Time[BreakOf(e)]
         IN  QueuedAt(e) = Time[e] - (IF t = NegInf THEN 0 ELSE t) + resume_time
                             + PausedBetween(t, Time[e])]_vars

\* Nothing scheduled after a break gets past it within its batch, whether the
\* break is the first of the batch or one that was itself held back.
BreakHolds ==
  [][\A e \in Entry, b \in Breaks :
       Queuing(e) /\ b \in batch => Time[e] <= Time[b]]_vars

\* In how many of the file, the held items and the two queues entry e is.
Copies(e) ==
  Cardinality({S \in {1, 2, 3, 4, 5} :
    e \in <<incoming, unused, break_items, {q[2] : q \in temp_q},
            {q[2] : q \in prior_q}>>[S]})

\* No entry is lost or doubled on its way from the file to the shared queue,
\* however often it is held back and released.
NothingLost == [][\A e \in Entry : Copies(e)' = Copies(e)]_vars

===============================================================================
