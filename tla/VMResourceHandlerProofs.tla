------------------------ MODULE VMResourceHandlerProofs ------------------------
(***************************************************************************)
(* The local barrier of a VM and the truth of its report, for any schedule *)
(* at launch, any entries added later, reboots and failed calls.           *)
(*                                                                         *)
(* The argument: an entry of the launch schedule that is still to be done  *)
(* in negative time is never of an earlier time than current_time, and of  *)
(* exactly that time from when it leaves the queue until it has ended.     *)
(* Meanwhile no batch goes on to a later time, since current_time changes  *)
(* at most once in a batch and batches are joined.                         *)
(***************************************************************************)
EXTENDS VMResourceHandler, TLAPS

Events == Special \cup {Item(e) : e \in Entry}

Taken(x) == \E i \in DOMAIN events : events[i] = x

\* Where the main thread puts a batch together.
Getting == {"get_locked", "woken", "pop", "query", "pop_woken"}

TypesInv ==
  /\ schedule \in Seq(Entry) /\ items \in SUBSET Entry /\ saved \in Nat
  /\ upc \in {"fetch", "put", "empty", "poll", "start"}
  /\ not_received \in BOOLEAN
  /\ prior_q \in SUBSET Events /\ events \in Seq(Events)
  /\ current_time \in Int /\ time_updated \in BOOLEAN
  /\ running \in SUBSET Entry /\ reboot_queue \in SUBSET Entry
  /\ timers \in SUBSET Entry /\ finished \in SUBSET Entry
  /\ reboots \in [Entry -> Nat]

\* The launch schedule is fetched as a whole, and once.
ScheduleInv ==
  /\ Len(Initial) <= Len(schedule)
  /\ \A i \in 1 .. Len(Initial) : schedule[i] = Initial[i]
  /\ \A i \in 1 .. Len(schedule) : i > Len(Initial) => schedule[i] \notin InitialEntries

\* Before it is in the queue nothing has happened; no other first fetch is
\* taken for it.
FetchInv ==
  /\ upc # "empty" /\ EMPTY \notin prior_q /\ ~Taken(EMPTY)
  /\ not_received =>
       /\ \/ upc = "fetch" /\ saved = 0
          \/ upc = "put" /\ InitialEntries \subseteq items
       /\ prior_q = {} /\ events = <<>> /\ current_time = initial_time
       /\ \A e \in Entry : ~Started(e)
  /\ not_received /\ upc = "put" => saved >= Len(Initial)
  /\ ~not_received => /\ saved >= Len(Initial)
                      /\ upc = "put" => items \cap InitialEntries = {}

\* Batches are joined.
BatchInv ==
  /\ pc \notin {"process", "exited", "rebooted"} => running = {} /\ reboot_queue = {}
  /\ pc = "rebooted" => running = {}
  /\ pc \notin {"process", "exited"} \cup Getting => events = <<>>
  /\ pc = "get_locked" => events = <<>>

\* Where an entry still to be done in negative time is.
PlaceInv ==
  \A e \in InitialNegative \ finished :
    /\ current_time <= Time[e]
    /\ not_received \/ pc = "exited" \/ Item(e) \in prior_q
         \/ Taken(Item(e)) \/ e \in running \/ e \in reboot_queue
    /\ e \in running \cup reboot_queue => Time[e] = current_time
    /\ Taken(Item(e)) => /\ Time[e] = current_time
                         /\ pc \in Getting => time_updated

\* The local barrier, from the moment an entry is taken off the queue.
OrderInv ==
  \A e \in InitialNegative \ finished, f \in InitialEntries :
    Time[e] < Time[f] => ~Taken(Item(f)) /\ ~Started(f)

HandlerInv == /\ TypesInv /\ ScheduleInv /\ FetchInv /\ BatchInv /\ PlaceInv
              /\ OrderInv /\ ConfiguredMeansDone

-----------------------------------------------------------------------------
(* Events and sequences of them. *)

LEMMA ItemFacts ==
  /\ START \in Events /\ EMPTY \in Events /\ START # EMPTY
  /\ \A e \in Entry : /\ Item(e) \in Events /\ Item(e) \notin Special
                      /\ Priority(Item(e)) = Time[e]
  /\ \A e, f \in Entry : Item(e) = Item(f) => e = f
<1>1. \A e \in Entry : Item(e).kind = "ENTRY" /\ Item(e).entry = e
  BY DEF Item
<1>2. START.kind # "ENTRY" /\ EMPTY.kind # "ENTRY" /\ START.kind # EMPTY.kind
  BY DEF START, EMPTY
<1>3. \A e \in Entry : Item(e) \notin Special
  BY <1>1, <1>2 DEF Special
<1>4. START \in Events /\ EMPTY \in Events /\ \A e \in Entry : Item(e) \in Events
  BY DEF Events, Special
<1>5. \A e \in Entry : Priority(Item(e)) = Time[e]
  BY <1>1, <1>3 DEF Priority
<1>6. \A e, f \in Entry : Item(e) = Item(f) => e = f
  BY <1>1
<1>. QED BY <1>2, <1>3, <1>4, <1>5, <1>6

LEMMA EntryFacts ==
  /\ InitialEntries \subseteq Entry /\ InitialNegative \subseteq InitialEntries
  /\ Initial \in Seq(Entry) /\ initial_time \in Int
  /\ \A e \in Entry : Time[e] \in Int /\ initial_time < Time[e] /\ Time[e] # 0
  /\ \A e \in InitialNegative : Time[e] < 0
  BY EntryAssumption DEF InitialEntries, InitialNegative

LEMMA Lengths ==
  ASSUME TypesInv
  PROVE  /\ Len(Initial) \in Nat /\ DOMAIN Initial = 1 .. Len(Initial)
         /\ Len(schedule) \in Nat /\ DOMAIN schedule = 1 .. Len(schedule)
         /\ InitialEntries = {Initial[i] : i \in 1 .. Len(Initial)}
  BY EntryFacts DEF TypesInv, InitialEntries

\* An event is added at the end of a batch, or taken from its front.
LEMMA TakenMore ==
  ASSUME events \in Seq(Events), NEW x \in Events, events' = Append(events, x)
  PROVE  events' \in Seq(Events) /\ \A y : Taken(y)' <=> Taken(y) \/ y = x
<1>1. events' \in Seq(Events) /\ Len(events') = Len(events) + 1
  OBVIOUS
<1>2. /\ \A i \in 1 .. Len(events) : events'[i] = events[i]
      /\ events'[Len(events) + 1] = x
  OBVIOUS
<1>3. DOMAIN events = 1 .. Len(events) /\ DOMAIN events' = 1 .. Len(events) + 1
  BY <1>1
<1>4. ASSUME NEW y, Taken(y)' PROVE Taken(y) \/ y = x
  BY <1>1, <1>2, <1>3, <1>4 DEF Taken
<1>5. ASSUME NEW y, Taken(y) \/ y = x PROVE Taken(y)'
  BY <1>1, <1>2, <1>3, <1>5 DEF Taken
<1>. QED BY <1>1, <1>4, <1>5

LEMMA TakenLess ==
  ASSUME events \in Seq(Events), events # <<>>, events' = Tail(events)
  PROVE  events' \in Seq(Events) /\ \A y : Taken(y) <=> Taken(y)' \/ y = Head(events)
<1>1. events' \in Seq(Events) /\ Len(events') = Len(events) - 1 /\ Len(events) \in Nat \ {0}
  OBVIOUS
<1>2. \A i \in 1 .. Len(events') : events'[i] = events[i + 1]
  OBVIOUS
<1>3. DOMAIN events = 1 .. Len(events) /\ DOMAIN events' = 1 .. Len(events')
  BY <1>1
<1>4. ASSUME NEW y, Taken(y) PROVE Taken(y)' \/ y = Head(events)
  <2>1. PICK i \in 1 .. Len(events) : events[i] = y
    BY <1>3, <1>4 DEF Taken
  <2>2. CASE i = 1
    BY <2>1, <2>2
  <2>3. CASE i # 1
    <3>1. i - 1 \in 1 .. Len(events') /\ (i - 1) + 1 = i
      BY <1>1, <2>1, <2>3
    <3>2. events'[i - 1] = y
      BY <1>2, <2>1, <3>1
    <3>. QED BY <1>3, <3>1, <3>2 DEF Taken
  <2>. QED BY <2>2, <2>3
<1>5. ASSUME NEW y, Taken(y)' PROVE Taken(y)
  <2>1. PICK i \in 1 .. Len(events') : events'[i] = y
    BY <1>3, <1>5 DEF Taken
  <2>2. i + 1 \in 1 .. Len(events) /\ events[i + 1] = y
    BY <1>1, <1>2, <2>1
  <2>. QED BY <1>3, <2>2 DEF Taken
<1>6. Taken(Head(events))
  BY <1>1, <1>3 DEF Taken
<1>. QED BY <1>1, <1>4, <1>5, <1>6

LEMMA NoneTaken == events = <<>> => \A x : ~Taken(x)
  BY DEF Taken

-----------------------------------------------------------------------------
(* The first state, and the steps of the updater. *)

LEMMA HandlerInit == Init => HandlerInv
<1>. SUFFICES ASSUME Init PROVE HandlerInv
  OBVIOUS
<1>. USE EntryFacts, NoneTaken
<1>1. TypesInv
  <2>1. schedule \in Seq(Entry) /\ events \in Seq(Events)
    BY DEF Init
  <2>2. reboots \in [Entry -> Nat]
    BY DEF Init
  <2>3. current_time \in Int /\ time_updated \in BOOLEAN /\ not_received \in BOOLEAN
    BY DEF Init
  <2>. QED BY <2>1, <2>2, <2>3 DEF Init, TypesInv
<1>2. ScheduleInv
  <2>1. schedule = Initial /\ Len(Initial) \in Nat
    BY DEF Init
  <2>. QED BY <2>1 DEF ScheduleInv
<1>3. \A e \in Entry : ~Started(e)
  BY DEF Init, Started
<1>4. FetchInv
  BY <1>3 DEF Init, FetchInv
<1>5. BatchInv /\ PlaceInv /\ OrderInv /\ ConfiguredMeansDone
  BY <1>3 DEF Init, BatchInv, PlaceInv, OrderInv, ConfiguredMeansDone, Getting
<1>. QED BY <1>1, <1>2, <1>4, <1>5 DEF HandlerInv

\* The main thread moves on and nothing else of what the argument is about
\* changes.
LEMMA MoveKeeps ==
  ASSUME HandlerInv, BatchInv',
         pc' \in Getting => pc \in Getting \/ events = <<>>,
         pc = "exited" => pc' = "exited",
         UNCHANGED <<schedule, updater, prior_q, events, current_time, time_updated, running,
                     reboot_queue, reboots, timers, finished, server_state>>
  PROVE  HandlerInv'
<1>. USE DEF HandlerInv, updater
<1>1. \A x : Taken(x)' <=> Taken(x)
  BY DEF Taken
<1>2. \A e : Started(e)' <=> Started(e)
  BY DEF Started
<1>3. TypesInv' /\ ScheduleInv' /\ ConfiguredMeansDone'
  BY DEF TypesInv, ScheduleInv, ConfiguredMeansDone
<1>4. FetchInv'
  BY <1>1, <1>2 DEF FetchInv
<1>5. PlaceInv'
  BY <1>1, NoneTaken DEF PlaceInv
<1>6. OrderInv'
  BY <1>1, <1>2 DEF OrderInv
<1>. QED BY <1>3, <1>4, <1>5, <1>6

LEMMA AddKeeps ==
  ASSUME HandlerInv, NEW e \in Entry, AddEntry(e)
  PROVE  HandlerInv'
<1>. USE DEF HandlerInv
<1>1. /\ schedule' = Append(schedule, e) /\ e \notin {schedule[i] : i \in DOMAIN schedule}
      /\ UNCHANGED <<server_state, updater, queue, main, work>>
  BY DEF AddEntry
<1>2. /\ schedule' \in Seq(Entry) /\ Len(schedule') = Len(schedule) + 1
      /\ \A i \in 1 .. Len(schedule) : schedule'[i] = schedule[i]
      /\ schedule'[Len(schedule) + 1] = e
  BY <1>1 DEF TypesInv
<1>3. e \notin InitialEntries
  <2>1. ASSUME NEW i \in 1 .. Len(Initial), e = Initial[i] PROVE FALSE
    <3>1. i \in DOMAIN schedule /\ schedule[i] = Initial[i]
      BY Lengths DEF ScheduleInv
    <3>. QED BY <1>1, <2>1, <3>1
  <2>. QED BY <2>1, Lengths
<1>4. ScheduleInv'
  <2>1. /\ Len(Initial) <= Len(schedule')
        /\ \A i \in 1 .. Len(Initial) : schedule'[i] = Initial[i]
    BY <1>2, Lengths DEF ScheduleInv
  <2>2. ASSUME NEW i \in 1 .. Len(schedule'), i > Len(Initial)
        PROVE  schedule'[i] \notin InitialEntries
    <3>1. i \in 1 .. Len(schedule) \/ i = Len(schedule) + 1
      BY <1>2, Lengths
    <3>. QED BY <1>2, <1>3, <2>2, <3>1 DEF ScheduleInv
  <2>. QED BY <2>1, <2>2 DEF ScheduleInv
<1>5. TypesInv'
  BY <1>1, <1>2 DEF TypesInv, updater, queue, main, work
<1>6. FetchInv' /\ BatchInv' /\ PlaceInv' /\ OrderInv' /\ ConfiguredMeansDone'
  BY <1>1 DEF updater, queue, main, work, FetchInv, BatchInv, PlaceInv, OrderInv,
              ConfiguredMeansDone, Taken, Started
<1>. QED BY <1>4, <1>5, <1>6

LEMMA FetchKeeps ==
  ASSUME InitialEntries # {}, HandlerInv, Fetch
  PROVE  HandlerInv'
<1>. USE DEF HandlerInv
<1>1. /\ upc = "fetch" /\ items' = NewEntries /\ saved' = Len(schedule) /\ upc' = "put"
      /\ UNCHANGED <<not_received, start_time, environment, server_state, queue, main, work>>
  BY DEF Fetch
<1>2. items' \in SUBSET Entry /\ saved' \in Nat /\ saved' >= Len(Initial)
  BY <1>1, EntryFacts DEF TypesInv, ScheduleInv, NewEntries
<1>3. not_received => InitialEntries \subseteq items'
  <2>1. ASSUME not_received, NEW i \in 1 .. Len(Initial) PROVE Initial[i] \in items'
    <3>1. saved = 0 /\ schedule[i] = Initial[i]
      BY <1>1, <2>1 DEF FetchInv, ScheduleInv
    <3>2. i \in (saved + 1) .. Len(schedule)
      BY <3>1, Lengths DEF ScheduleInv
    <3>. QED BY <1>1, <3>1, <3>2 DEF NewEntries
  <2>. QED BY <2>1, Lengths
<1>4. ~not_received => items' \cap InitialEntries = {}
  <2>1. ASSUME ~not_received, NEW i \in (saved + 1) .. Len(schedule)
        PROVE  schedule[i] \notin InitialEntries
    <3>1. saved \in Nat /\ saved >= Len(Initial)
      BY <2>1 DEF FetchInv, TypesInv
    <3>2. i \in 1 .. Len(schedule) /\ i > Len(Initial)
      BY <3>1, Lengths
    <3>. QED BY <3>2 DEF ScheduleInv
  <2>. QED BY <1>1, <2>1 DEF NewEntries
<1>5. TypesInv' /\ ScheduleInv'
  BY <1>1, <1>2 DEF TypesInv, ScheduleInv, environment, queue, main, work
<1>6. FetchInv'
  BY <1>1, <1>2, <1>3, <1>4 DEF FetchInv, queue, main, work, Taken, Started
<1>7. BatchInv' /\ PlaceInv' /\ OrderInv' /\ ConfiguredMeansDone'
  BY <1>1 DEF queue, main, work, BatchInv, PlaceInv, OrderInv,
              ConfiguredMeansDone, Taken, Started
<1>. QED BY <1>5, <1>6, <1>7

\* The entries of the launch schedule come into the queue with the first items.
LEMMA PutItemsKeeps ==
  ASSUME InitialEntries # {}, HandlerInv, PutItems
  PROVE  HandlerInv'
<1>. USE DEF HandlerInv
<1>1. /\ upc = "put" /\ prior_q' = prior_q \cup {Item(e) : e \in items}
      /\ not_received' = (not_received /\ items = {}) /\ items' = {}
      /\ upc' = IF items = {} /\ not_received THEN "empty" ELSE "poll"
      /\ UNCHANGED <<saved, environment, server_state, main, work>>
  BY DEF PutItems, Enqueue
<1>2. not_received => items # {}
  BY <1>1 DEF FetchInv
<1>3. not_received' = FALSE /\ upc' = "poll"
  BY <1>1, <1>2
<1>4. prior_q' \in SUBSET Events /\ EMPTY \notin prior_q'
  BY <1>1, ItemFacts DEF TypesInv, FetchInv, Special
<1>5. TypesInv' /\ ScheduleInv'
  BY <1>1, <1>3, <1>4 DEF TypesInv, ScheduleInv, environment, main, work
<1>6. (\A x : Taken(x)' <=> Taken(x)) /\ \A e : Started(e)' <=> Started(e)
  BY <1>1 DEF main, work, Taken, Started
<1>7. FetchInv'
  BY <1>1, <1>3, <1>4, <1>6, EntryFacts DEF FetchInv
<1>8. PlaceInv'
  <2>1. ASSUME NEW e \in InitialNegative, not_received PROVE Item(e) \in prior_q'
    BY <1>1, <2>1, EntryFacts DEF FetchInv
  <2>2. UNCHANGED <<pc, current_time, time_updated, running, reboot_queue, finished>>
    BY <1>1 DEF main, work
  <2>. QED BY <1>1, <1>6, <2>1, <2>2 DEF PlaceInv
<1>9. BatchInv' /\ OrderInv' /\ ConfiguredMeansDone'
  BY <1>1, <1>6 DEF main, work, BatchInv, OrderInv, ConfiguredMeansDone
<1>. QED BY <1>5, <1>7, <1>8, <1>9

LEMMA UpdaterKeeps ==
  ASSUME InitialEntries # {}, HandlerInv, UpdaterNext
  PROVE  HandlerInv'
<1>. USE DEF HandlerInv
<1>1. ~PutEmpty
  BY DEF PutEmpty, FetchInv
<1>2. ASSUME Poll \/ PutStart PROVE HandlerInv'
  <2>1. /\ upc \in {"poll", "start"} /\ upc' \in {"start", "fetch"}
        /\ prior_q \subseteq prior_q' /\ prior_q' \subseteq prior_q \cup {START}
        /\ UNCHANGED <<items, saved, not_received, environment, server_state, main, work>>
    BY <1>2 DEF Poll, PutStart, Enqueue, queue, environment
  <2>2. ~not_received
    BY <2>1 DEF FetchInv
  <2>3. TypesInv' /\ ScheduleInv'
    BY <2>1, ItemFacts DEF TypesInv, ScheduleInv, environment, main, work
  <2>4. FetchInv'
    BY <2>1, <2>2, ItemFacts DEF FetchInv, main, Taken
  <2>5. BatchInv' /\ PlaceInv' /\ OrderInv' /\ ConfiguredMeansDone'
    BY <2>1 DEF main, work, BatchInv, PlaceInv, OrderInv, ConfiguredMeansDone, Taken, Started
  <2>. QED BY <2>3, <2>4, <2>5
<1>. QED BY <1>1, <1>2, FetchKeeps, PutItemsKeeps DEF UpdaterNext

-----------------------------------------------------------------------------
(* The steps of the main thread. *)

\* While a batch is put together, an entry of the launch schedule that is still
\* to be done in negative time is queued, or the batch stays at its time.
LEMMA WhereWhileGetting ==
  ASSUME HandlerInv, pc \in Getting, ~not_received, NEW e \in InitialNegative \ finished
  PROVE  /\ current_time <= Time[e]
         /\ Item(e) \in prior_q
              \/ (Taken(Item(e)) /\ Time[e] = current_time /\ time_updated)
  BY DEF HandlerInv, PlaceInv, BatchInv, Getting

\* A report that the VM is configured is true, and changes nothing else.
LEMMA ReportKeeps ==
  ASSUME ConfiguredMeansDone, ReportConfigured, UNCHANGED finished,
         InitialNegative \subseteq finished
  PROVE  ConfiguredMeansDone'
  BY DEF ConfiguredMeansDone

LEMMA BeginGetKeeps ==
  ASSUME HandlerInv, BeginGet PROVE HandlerInv'
<1>. USE DEF HandlerInv
<1>1. /\ pc = "get" /\ pc' = "get_locked" /\ events' = <<>> /\ time_updated' = FALSE
      /\ UNCHANGED <<prior_q, current_time, environment, server_state, updater, work>>
  BY DEF BeginGet, Goto
<1>2. events = <<>>
  BY <1>1 DEF BatchInv, Getting
<1>3. (\A x : ~Taken(x)) /\ \A x : ~Taken(x)'
  BY <1>1, <1>2 DEF Taken
<1>4. TypesInv' /\ ScheduleInv'
  <2>1. events' \in Seq(Events)
    BY <1>1
  <2>. QED BY <1>1, <2>1 DEF TypesInv, ScheduleInv, environment, updater, work
<1>5. FetchInv' /\ BatchInv'
  BY <1>1, <1>3 DEF FetchInv, BatchInv, Getting, updater, work, Started
<1>6. PlaceInv' /\ OrderInv' /\ ConfiguredMeansDone'
  BY <1>1, <1>3 DEF PlaceInv, OrderInv, ConfiguredMeansDone, updater, work, Started
<1>. QED BY <1>4, <1>5, <1>6

\* Nothing queued: past the first negative time all of negative time is done.
LEMMA GetWaitKeeps ==
  ASSUME HandlerInv, GetWait PROVE HandlerInv'
<1>. USE DEF HandlerInv
<1>1. /\ pc = "get_locked" /\ pc' = "woken" /\ prior_q = {} /\ events = <<>>
      /\ UNCHANGED <<prior_q, time_updated, events, environment, updater, work>>
  BY DEF GetWait, Wait, Goto, BatchInv
<1>2. \A x : ~Taken(x) /\ ~Taken(x)'
  BY <1>1 DEF Taken
<1>3. CASE InNegativeTime
  <2>1. current_time' = 0 /\ ReportConfigured
    BY <1>3 DEF GetWait
  <2>2. ~not_received
    BY <1>3, EntryFacts DEF InNegativeTime, FetchInv
  <2>3. InitialNegative \subseteq finished
    BY <1>1, <1>2, <2>2, WhereWhileGetting DEF Getting
  <2>4. TypesInv' /\ ScheduleInv'
    BY <1>1, <2>1 DEF TypesInv, ScheduleInv, environment, updater, work
  <2>5. FetchInv' /\ BatchInv'
    BY <1>1, <1>2, <2>2 DEF FetchInv, BatchInv, Getting, updater, work
  <2>6. ConfiguredMeansDone'
    BY <1>1, <2>1, <2>3, ReportKeeps DEF work
  <2>. QED BY <1>1, <2>3, <2>4, <2>5, <2>6 DEF PlaceInv, OrderInv, work
<1>4. CASE ~InNegativeTime
  <2>1. UNCHANGED <<current_time, server_state>>
    BY <1>4 DEF GetWait
  <2>2. BatchInv'
    BY <1>1 DEF BatchInv, Getting, work
  <2>. QED BY <1>1, <2>1, <2>2, MoveKeeps DEF environment, work
<1>. QED BY <1>3, <1>4

\* Popping goes on only when something is queued, or on the way.
LEMMA PoppingFacts ==
  ASSUME HandlerInv, Popping
  PROVE  pc \in Getting /\ running = {} /\ reboot_queue = {}
  BY DEF HandlerInv, Popping, Begin, BatchInv, Getting

LEMMA PopSpecialKeeps ==
  ASSUME HandlerInv, NEW x \in Special, PopSpecial(x) PROVE HandlerInv'
<1>. USE DEF HandlerInv
<1>1. /\ Popping /\ x \in prior_q /\ prior_q' = prior_q \ {x}
      /\ events' = Append(events, x) /\ pc' = "pop"
      /\ UNCHANGED <<current_time, time_updated, environment, server_state, updater, work>>
  BY DEF PopSpecial, Least, Goto
<1>2. pc \in Getting /\ running = {} /\ reboot_queue = {}
  BY <1>1, PoppingFacts
<1>3. events' \in Seq(Events) /\ \A y : Taken(y)' <=> Taken(y) \/ y = x
  BY <1>1, TakenMore DEF TypesInv, Events
<1>4. \A e \in Entry : Item(e) # x
  BY ItemFacts
<1>5. ~not_received /\ x # EMPTY
  BY <1>1 DEF FetchInv
<1>6. TypesInv' /\ ScheduleInv'
  BY <1>1, <1>3 DEF TypesInv, ScheduleInv, environment, updater, work
<1>7. FetchInv' /\ BatchInv'
  BY <1>1, <1>2, <1>3, <1>5 DEF FetchInv, BatchInv, Getting, updater, work
<1>8. PlaceInv' /\ OrderInv'
  BY <1>1, <1>2, <1>3, <1>4, EntryFacts
     DEF PlaceInv, OrderInv, Getting, updater, work, Started
<1>9. ConfiguredMeansDone'
  BY <1>1 DEF ConfiguredMeansDone, work
<1>. QED BY <1>6, <1>7, <1>8, <1>9

\* An entry at the head of the queue, of a time the batch may take.
LEMMA HeadOfQueue ==
  ASSUME HandlerInv, Popping, NEW f \in Entry, Item(f) \in Least,
         Time[f] <= TimeFor(f)
  PROVE  /\ ~not_received
         /\ \A e \in Entry : Item(e) \in prior_q => Time[f] <= Time[e]
         /\ \A e \in InitialNegative \ finished :
              /\ Time[f] <= Time[e]
              /\ Item(e) \in prior_q \/ (~Advances(f) /\ Time[e] = current_time /\ time_updated)
<1>. USE DEF HandlerInv
<1>1. Item(f) \in prior_q /\ \A x \in prior_q : Priority(Item(f)) <= Priority(x)
  BY DEF Least
<1>2. ~not_received
  BY <1>1 DEF FetchInv
<1>3. \A e \in Entry : Item(e) \in prior_q => Time[f] <= Time[e]
  BY <1>1, ItemFacts
<1>4. ASSUME NEW e \in InitialNegative \ finished, Item(e) \notin prior_q
      PROVE  ~Advances(f) /\ Time[e] = current_time /\ time_updated /\ Time[f] <= Time[e]
  <2>1. Time[e] = current_time /\ time_updated
    BY <1>2, <1>4, PoppingFacts, WhereWhileGetting
  <2>. QED BY <2>1 DEF Advances, TimeFor
<1>. QED BY <1>2, <1>3, <1>4, EntryFacts

LEMMA PopEntryKeeps ==
  ASSUME HandlerInv, NEW f \in Entry, PopEntry(f) PROVE HandlerInv'
<1>. USE DEF HandlerInv
<1>1. /\ Popping /\ Item(f) \in Least /\ Time[f] <= TimeFor(f)
      /\ prior_q' = prior_q \ {Item(f)} /\ events' = Append(events, Item(f))
      /\ current_time' = TimeFor(f) /\ pc' = "pop"
      /\ time_updated' = (time_updated \/ Advances(f) \/ TimeFor(f) <= 0)
      /\ UNCHANGED <<environment, server_state, updater, work>>
  BY DEF PopEntry, Goto
<1>2. pc \in Getting /\ running = {} /\ reboot_queue = {}
  BY <1>1, PoppingFacts
<1>3. events' \in Seq(Events) /\ \A y : Taken(y)' <=> Taken(y) \/ y = Item(f)
  BY <1>1, TakenMore, ItemFacts DEF TypesInv
<1>4. /\ ~not_received
      /\ \A e \in InitialNegative \ finished :
              /\ Time[f] <= Time[e]
              /\ Item(e) \in prior_q \/ (~Advances(f) /\ Time[e] = current_time /\ time_updated)
  BY <1>1, HeadOfQueue
<1>5. TimeFor(f) \in Int /\ current_time <= TimeFor(f)
  BY EntryFacts DEF TimeFor, Advances, TypesInv
<1>6. TypesInv' /\ ScheduleInv'
  <2>1. time_updated' \in BOOLEAN /\ current_time' \in Int
    BY <1>1, <1>5
  <2>. QED BY <1>1, <1>3, <2>1 DEF TypesInv, ScheduleInv, environment, updater, work
<1>7. FetchInv' /\ BatchInv'
  BY <1>1, <1>2, <1>3, <1>4, ItemFacts DEF FetchInv, BatchInv, Getting, updater, work, Special
<1>8. PlaceInv'
  <2>. SUFFICES ASSUME NEW e \in InitialNegative \ finished
       PROVE /\ TimeFor(f) <= Time[e]
             /\ Item(e) \in prior_q' \/ Taken(Item(e))'
             /\ Taken(Item(e))' => Time[e] = TimeFor(f) /\ time_updated'
    BY <1>1, <1>2 DEF PlaceInv, updater, work
  <2>0. e \in Entry /\ Time[e] \in Int /\ Time[e] < 0 /\ Time[f] \in Int /\ current_time \in Int
    BY EntryFacts DEF TypesInv
  <2>1. current_time <= Time[e] /\ (Taken(Item(e)) => Time[e] = current_time /\ time_updated)
    BY <1>2 DEF PlaceInv
  <2>2. TimeFor(f) <= Time[e]
    BY <1>4, <2>0, <2>1 DEF TimeFor, Advances
  <2>3. Item(e) \in prior_q' \/ Taken(Item(e))'
    BY <1>1, <1>2, <1>3, <1>4, WhereWhileGetting
  <2>4. CASE e = f
    <3>1. Time[e] = TimeFor(f) /\ TimeFor(f) <= 0
      BY <1>1, <1>5, <2>0, <2>2, <2>4
    <3>2. time_updated'
      BY <1>1, <3>1
    <3>. QED BY <2>2, <2>3, <3>1, <3>2
  <2>5. CASE e # f
    <3>1. Taken(Item(e))' => Taken(Item(e))
      BY <1>3, <2>0, <2>5, ItemFacts
    <3>. QED BY <1>1, <2>1, <2>2, <2>3, <3>1 DEF TimeFor, Advances
  <2>. QED BY <2>4, <2>5
<1>9. OrderInv'
  <2>. SUFFICES ASSUME NEW e \in InitialNegative \ finished, NEW g \in InitialEntries,
                       Time[e] < Time[g]
       PROVE ~Taken(Item(g))' /\ ~Started(g)
    BY <1>1 DEF OrderInv, work, Started
  <2>1. g # f
    BY <1>4, EntryFacts
  <2>. QED BY <1>3, <2>1, ItemFacts, EntryFacts DEF OrderInv
<1>10. ConfiguredMeansDone'
  BY <1>1 DEF ConfiguredMeansDone, work
<1>. QED BY <1>6, <1>7, <1>8, <1>9, <1>10

\* A positive time entry at the head of the queue: negative time is done.
LEMMA BlockKeeps ==
  ASSUME HandlerInv, NEW f \in Entry, Block(f) PROVE HandlerInv'
<1>. USE DEF HandlerInv
<1>1. /\ Popping /\ Item(f) \in Least /\ Time[f] <= TimeFor(f) /\ Time[f] > 0
      /\ current_time' = 0 /\ pc' = "query" /\ ReportConfigured
      /\ time_updated' = (time_updated \/ Advances(f))
      /\ UNCHANGED <<prior_q, events, environment, updater, work>>
  BY DEF Block, Blocked, Goto
<1>2. /\ ~not_received
      /\ \A e \in InitialNegative \ finished : Time[f] <= Time[e]
  BY <1>1, HeadOfQueue
<1>3. InitialNegative \subseteq finished
  BY <1>1, <1>2, EntryFacts
<1>4. time_updated' \in BOOLEAN
  BY <1>1
<1>5. TypesInv' /\ ScheduleInv'
  BY <1>1, <1>4 DEF TypesInv, ScheduleInv, environment, updater, work
<1>6. FetchInv' /\ BatchInv'
  BY <1>1, <1>2, PoppingFacts DEF FetchInv, BatchInv, Getting, updater, work, Taken
<1>7. PlaceInv' /\ OrderInv'
  BY <1>1, <1>3 DEF PlaceInv, OrderInv, work
<1>8. ConfiguredMeansDone'
  BY <1>1, <1>3, ReportKeeps DEF work
<1>. QED BY <1>5, <1>6, <1>7, <1>8

LEMMA SpecialKeeps ==
  ASSUME HandlerInv, ProcessSpecial PROVE HandlerInv'
<1>. USE DEF HandlerInv
<1>1. /\ pc = "process" /\ pc' = pc /\ events # <<>> /\ events' = Tail(events)
      /\ Head(events) \in Special
      /\ UNCHANGED <<time_updated, environment, updater, queue, work>>
  BY DEF ProcessSpecial
<1>2. events' \in Seq(Events) /\ \A y : Taken(y) <=> Taken(y)' \/ y = Head(events)
  BY <1>1, TakenLess DEF TypesInv
<1>3. Head(events) = START
  BY <1>1, <1>2 DEF FetchInv, Special
<1>4. UNCHANGED <<current_time, server_state>>
  BY <1>3 DEF ProcessSpecial
<1>5. \A e \in Entry : Item(e) # Head(events)
  BY <1>1, ItemFacts
<1>6. TypesInv' /\ ScheduleInv'
  BY <1>1, <1>2, <1>4 DEF TypesInv, ScheduleInv, environment, updater, queue, work
<1>7. FetchInv' /\ BatchInv'
  BY <1>1, <1>2, <1>4 DEF FetchInv, BatchInv, Getting, updater, queue, work, Taken, Started
<1>8. PlaceInv' /\ OrderInv'
  BY <1>1, <1>2, <1>4, <1>5, EntryFacts
     DEF PlaceInv, OrderInv, Getting, updater, queue, work, Started
<1>9. ConfiguredMeansDone'
  BY <1>1, <1>4 DEF ConfiguredMeansDone, work
<1>. QED BY <1>6, <1>7, <1>8, <1>9

\* The handler exits: what was left of the batch is never processed.
LEMMA FailsKeeps ==
  ASSUME HandlerInv, NEW f \in Entry, ProcessFails(f) PROVE HandlerInv'
<1>. USE DEF HandlerInv
<1>1. /\ pc' = "exited" /\ events' = <<>>
      /\ server_state' = "failed" \/ server_state' = server_state
      /\ UNCHANGED <<current_time, time_updated, environment, updater, queue, work>>
  BY DEF ProcessFails, Goto
<1>2. events' \in Seq(Events) /\ \A x : ~Taken(x)'
  BY <1>1 DEF Taken
<1>3. TypesInv' /\ ScheduleInv'
  BY <1>1, <1>2 DEF TypesInv, ScheduleInv, environment, updater, queue, work
<1>4. FetchInv' /\ BatchInv'
  BY <1>1, <1>2 DEF FetchInv, BatchInv, Getting, updater, queue, work, Started
<1>5. PlaceInv' /\ OrderInv' /\ ConfiguredMeansDone'
  BY <1>1, <1>2 DEF PlaceInv, OrderInv, ConfiguredMeansDone, Getting, updater, queue, work, Started
<1>. QED BY <1>3, <1>4, <1>5

\* An entry of the batch is processed: it is done, is run and joined later, or
\* is left to a timer.
LEMMA EnteredKeeps ==
  ASSUME HandlerInv, NEW f \in Entry,
         ProcessData(f) \/ ProcessNegative(f) \/ ProcessPositive(f)
  PROVE  HandlerInv'
<1>. USE DEF HandlerInv
<1>1. /\ pc = "process" /\ pc' = pc /\ events # <<>> /\ events' = Tail(events)
      /\ Head(events) = Item(f)
      /\ UNCHANGED <<current_time, time_updated, environment, server_state, updater, queue,
                     reboot_queue, reboots>>
  BY DEF ProcessData, ProcessNegative, ProcessPositive, Entered, NextEntry
<1>2. \/ finished' = finished \cup {f} /\ UNCHANGED <<running, timers>>
      \/ running' = running \cup {f} /\ UNCHANGED <<finished, timers>>
      \/ Time[f] > 0 /\ timers' \in {timers, timers \cup {f}} /\ UNCHANGED <<finished, running>>
  BY DEF ProcessData, ProcessNegative, ProcessPositive
<1>3. events' \in Seq(Events) /\ \A y : Taken(y) <=> Taken(y)' \/ y = Item(f)
  BY <1>1, TakenLess DEF TypesInv
<1>4. ~not_received /\ Taken(Item(f))
  BY <1>1, <1>3 DEF FetchInv
<1>5. finished \subseteq finished' /\ \A e \in Entry \ {f} : Started(e)' <=> Started(e)
  BY <1>1, <1>2 DEF Started
<1>6. TypesInv' /\ ScheduleInv'
  BY <1>1, <1>2, <1>3 DEF TypesInv, ScheduleInv, environment, updater, queue
<1>7. FetchInv' /\ BatchInv'
  BY <1>1, <1>3, <1>4 DEF FetchInv, BatchInv, Getting, updater, queue
<1>8. PlaceInv'
  <2>. SUFFICES ASSUME NEW e \in InitialNegative \ finished'
       PROVE /\ current_time <= Time[e]
             /\ Item(e) \in prior_q \/ Taken(Item(e))' \/ e \in running' \/ e \in reboot_queue
             /\ e \in running' \cup reboot_queue => Time[e] = current_time
             /\ Taken(Item(e))' => Time[e] = current_time
    BY <1>1 DEF PlaceInv, updater, queue, Getting
  <2>1. e \in InitialNegative \ finished /\ e \in Entry
    BY <1>5, EntryFacts
  <2>2. CASE e = f
    <3>1. running' = running \cup {f}
      BY <1>2, <2>1, <2>2, EntryFacts
    <3>. QED BY <1>3, <1>4, <2>1, <2>2, <3>1 DEF PlaceInv
  <2>3. CASE e # f
    <3>1. Item(e) # Item(f) /\ (e \in running' <=> e \in running)
      BY <1>2, <2>1, <2>3, ItemFacts
    <3>. QED BY <1>1, <1>3, <1>4, <2>1, <3>1 DEF PlaceInv
  <2>. QED BY <2>2, <2>3
<1>9. OrderInv'
  <2>. SUFFICES ASSUME NEW e \in InitialNegative \ finished', NEW g \in InitialEntries,
                       Time[e] < Time[g]
       PROVE ~Taken(Item(g))' /\ ~Started(g)'
    BY DEF OrderInv
  <2>1. ~Taken(Item(g)) /\ ~Started(g)
    BY <1>5 DEF OrderInv
  <2>. QED BY <1>3, <1>4, <1>5, <2>1, EntryFacts
<1>10. ConfiguredMeansDone'
  BY <1>1, <1>5 DEF ConfiguredMeansDone
<1>. QED BY <1>6, <1>7, <1>8, <1>9, <1>10

\* The VM is up again: what asked for the reboot waits in the queue, at
\* current_time.
LEMMA RequeueKeeps ==
  ASSUME HandlerInv, Requeue PROVE HandlerInv'
<1>. USE DEF HandlerInv
<1>1. /\ pc = "rebooted" /\ pc' = "get" /\ reboot_queue' = {}
      /\ prior_q' = prior_q \cup {Item(e) : e \in reboot_queue}
      /\ UNCHANGED <<events, current_time, time_updated, environment, server_state, updater,
                     running, reboots, timers, finished>>
  BY DEF Requeue, Goto
<1>2. running = {} /\ events = <<>> /\ \A x : ~Taken(x) /\ ~Taken(x)'
  BY <1>1 DEF BatchInv, Getting, Taken
<1>3. prior_q' \in SUBSET Events /\ (EMPTY \in prior_q' => EMPTY \in prior_q)
  BY <1>1, ItemFacts DEF TypesInv, Special
<1>4. \A e \in Entry : Started(e)' => Started(e)
  BY <1>1 DEF Started
<1>5. not_received => reboot_queue = {}
  BY DEF FetchInv, Started, TypesInv
<1>6. TypesInv' /\ ScheduleInv'
  BY <1>1, <1>3 DEF TypesInv, ScheduleInv, environment, updater
<1>7. FetchInv' /\ BatchInv'
  BY <1>1, <1>2, <1>3, <1>4, <1>5 DEF FetchInv, BatchInv, Getting, updater
<1>8. PlaceInv'
  BY <1>1, <1>2 DEF PlaceInv, updater
<1>9. OrderInv' /\ ConfiguredMeansDone'
  BY <1>1, <1>2, <1>4, EntryFacts DEF OrderInv, ConfiguredMeansDone
<1>. QED BY <1>6, <1>7, <1>8, <1>9

LEMMA MainKeeps ==
  ASSUME HandlerInv, MainNext PROVE HandlerInv'
<1>. USE DEF HandlerInv
<1>1. CASE \/ Acquire("preload", "preload_locked") \/ Acquire("preload_woken", "preload_again")
           \/ Acquire("woken", "pop") \/ Acquire("pop_woken", "pop")
           \/ PreloadWait \/ Preload \/ EndGet \/ QueryStart \/ QueryWait
  <2>1. UNCHANGED <<environment, server_state, updater, prior_q, events, current_time,
                    time_updated, work>>
    BY <1>1 DEF Acquire, PreloadWait, Preload, EndGet, QueryStart, QueryWait, Wait
  <2>2. /\ \/ pc \in Getting /\ pc' \in {"pop", "process", "pop_woken"}
           \/ /\ pc \in {"preload", "preload_locked", "preload_woken", "preload_again"}
              /\ pc' \in {"preload_locked", "preload_woken", "preload_again", "get"}
    BY <1>1 DEF Acquire, PreloadWait, Preload, EndGet, QueryStart, QueryWait, Wait, Goto,
                Getting, Popping, Begin
  <2>3. BatchInv'
    BY <2>1, <2>2 DEF BatchInv, Getting, work
  <2>. QED BY <2>1, <2>2, <2>3, MoveKeeps DEF Getting, environment, work
<1>2. CASE Join
  <2>1. /\ pc = "process" /\ events = <<>> /\ running = {}
        /\ pc' = IF reboot_queue # {} THEN "rebooted" ELSE "get"
        /\ UNCHANGED <<environment, server_state, updater, queue, events, current_time,
                       time_updated, work>>
    BY <1>2 DEF Join, AllJoined, RebootAsked, Goto
  <2>2. BatchInv'
    BY <2>1 DEF BatchInv, Getting, work
  <2>. QED BY <2>1, <2>2, MoveKeeps DEF Getting, environment, queue, work
<1>. HIDE DEF HandlerInv
<1>. QED BY <1>1, <1>2, BeginGetKeeps, GetWaitKeeps, PopSpecialKeeps, PopEntryKeeps, BlockKeeps,
            SpecialKeeps, FailsKeeps, EnteredKeeps, RequeueKeeps
         DEF MainNext

-----------------------------------------------------------------------------
(* The steps of the resources, and the theorems. *)

LEMMA FinishKeeps ==
  ASSUME HandlerInv, NEW f \in Entry, Finish(f) PROVE HandlerInv'
<1>. USE DEF HandlerInv
<1>1. /\ f \in running /\ running' = running \ {f}
      /\ \/ /\ reboots' = [reboots EXCEPT ![f] = @ + 1]
            /\ reboot_queue' = reboot_queue \cup {f} /\ finished' = finished
         \/ finished' = finished \cup {f} /\ UNCHANGED <<reboots, reboot_queue>>
      /\ UNCHANGED <<timers, environment, server_state, updater, queue, main>>
  BY DEF Finish
<1>2. reboots' \in [Entry -> Nat] /\ \A e \in Entry \ {f} : reboots'[e] = reboots[e]
  BY <1>1 DEF TypesInv
<1>3. ~not_received /\ Started(f)
  BY <1>1 DEF FetchInv, Started
<1>4. finished \subseteq finished' /\ \A e \in Entry \ {f} : Started(e)' <=> Started(e)
  BY <1>1, <1>2 DEF Started
<1>5. \A x : Taken(x)' <=> Taken(x)
  BY <1>1 DEF Taken, main
<1>6. TypesInv' /\ ScheduleInv'
  BY <1>1, <1>2 DEF TypesInv, ScheduleInv, environment, updater, queue, main
<1>7. FetchInv' /\ BatchInv'
  BY <1>1, <1>3, <1>5 DEF FetchInv, BatchInv, Getting, updater, queue, main
<1>8. PlaceInv'
  BY <1>1, <1>3, <1>5 DEF PlaceInv, updater, queue, main
<1>9. OrderInv'
  BY <1>3, <1>4, <1>5, EntryFacts DEF OrderInv
<1>10. ConfiguredMeansDone'
  BY <1>1, <1>4 DEF ConfiguredMeansDone
<1>. QED BY <1>6, <1>7, <1>8, <1>9, <1>10

LEMMA FireKeeps ==
  ASSUME HandlerInv, NEW f \in Entry, Fire(f) PROVE HandlerInv'
<1>. USE DEF HandlerInv
<1>1. /\ f \in timers /\ timers' = timers \ {f} /\ finished' = finished \cup {f}
      /\ UNCHANGED <<running, reboot_queue, reboots, environment, server_state, updater, queue,
                     main>>
  BY DEF Fire
<1>2. ~not_received /\ \A e \in Entry : Started(e)' <=> Started(e)
  BY <1>1 DEF FetchInv, Started
<1>3. \A x : Taken(x)' <=> Taken(x)
  BY <1>1 DEF Taken, main
<1>4. TypesInv' /\ ScheduleInv'
  BY <1>1 DEF TypesInv, ScheduleInv, environment, updater, queue, main
<1>5. FetchInv' /\ BatchInv'
  BY <1>1, <1>2, <1>3 DEF FetchInv, BatchInv, Getting, updater, queue, main
<1>6. PlaceInv' /\ OrderInv' /\ ConfiguredMeansDone'
  BY <1>1, <1>2, <1>3, EntryFacts
     DEF PlaceInv, OrderInv, ConfiguredMeansDone, updater, queue, main
<1>. QED BY <1>4, <1>5, <1>6

LEMMA HandlerKept ==
  ASSUME InitialEntries # {} PROVE HandlerInv /\ [Next]_vars => HandlerInv'
<1>. SUFFICES ASSUME HandlerInv, [Next]_vars PROVE HandlerInv'
  OBVIOUS
<1>1. CASE UNCHANGED vars \/ StartDecided
  <2>1. /\ UNCHANGED <<schedule, server_state, updater, queue, main, work>>
    BY <1>1 DEF vars, StartDecided, environment
  <2>2. BatchInv'
    BY <2>1 DEF HandlerInv, BatchInv, main, work
  <2>. QED BY <2>1, <2>2, MoveKeeps DEF queue, main, work
<1>2. CASE ResourceNext
  BY <1>2, FinishKeeps, FireKeeps DEF ResourceNext
<1>. QED BY <1>1, <1>2, AddKeeps, UpdaterKeeps, MainKeeps DEF Next

THEOREM HandlerInvariant ==
  ASSUME InitialEntries # {} PROVE Spec => []HandlerInv
  BY HandlerInit, HandlerKept, PTL DEF Spec

\* For any launch schedule, reboots, late entries and failed calls: no entry of
\* the schedule starts while one of an earlier negative time is unfinished
\* (get_events, and _run's joins).
THEOREM LocalBarrierHolds == Spec => []LocalBarrier
<1>1. HandlerInv => LocalBarrier
  BY EntryFacts DEF HandlerInv, OrderInv, LocalBarrier
<1>2. CASE InitialEntries = {}
  <2>1. LocalBarrier
    BY <1>2 DEF LocalBarrier
  <2>. QED BY <2>1, PTL
<1>3. CASE InitialEntries # {}
  BY <1>1, <1>3, HandlerInvariant, PTL
<1>. QED BY <1>2, <1>3

\* Under the same conditions a VM that has reported itself configured has done
\* all of its negative time (set_state(CONFIGURED) in get_events and _run).
THEOREM ReportIsTrue == Spec => []ConfiguredMeansDone
<1>1. HandlerInv => ConfiguredMeansDone
  BY DEF HandlerInv
<1>2. CASE InitialEntries = {}
  <2>1. ConfiguredMeansDone
    BY <1>2, EntryFacts DEF ConfiguredMeansDone
  <2>. QED BY <2>1, PTL
<1>3. CASE InitialEntries # {}
  BY <1>1, <1>3, HandlerInvariant, PTL
<1>. QED BY <1>2, <1>3

-----------------------------------------------------------------------------
(* The order of the schedule that ScheduleOrder promises.  Besides the      *)
(* invariant it takes that what the VM knows of the start time is true, and *)
(* that a resource that asked for a reboot counts as started for good.      *)

StartInv ==
  /\ has_start \/ start_time \/ upc = "start" \/ START \in prior_q \/ Taken(START)
       => server_start
  /\ \A e \in Entry : Taken(Item(e)) /\ Time[e] > 0 => has_start
  /\ \A e \in reboot_queue : reboots[e] > 0

LEMMA StartKept ==
  ASSUME HandlerInv, StartInv, [Next]_vars
  PROVE  StartInv'
<1>. USE DEF HandlerInv
<1>. \A e \in Entry : Item(e) # START
  BY ItemFacts DEF Special
<1>1. CASE UNCHANGED vars \/ StartDecided \/ \E e \in Entry : AddEntry(e) \/ Fire(e)
  <2>1. /\ server_start => server_start'
        /\ UNCHANGED <<has_start, start_time, upc, prior_q, events, reboot_queue, reboots>>
    BY <1>1 DEF vars, StartDecided, AddEntry, Fire, environment, updater, queue, main, work
  <2>. QED BY <2>1 DEF StartInv, Taken
<1>2. CASE UpdaterNext
  <2>1. UNCHANGED <<has_start, events, reboot_queue, reboots, server_start>>
    BY <1>2 DEF UpdaterNext, Fetch, PutItems, PutEmpty, Poll, PutStart, environment, main, work
  <2>2. start_time' \/ upc' = "start" \/ START \in prior_q' => server_start
    <3>1. CASE Fetch \/ PutItems \/ PutEmpty
      BY <3>1, ItemFacts
         DEF Fetch, PutItems, PutEmpty, Enqueue, queue, StartInv, TypesInv
    <3>2. CASE Poll \/ PutStart
      BY <3>2 DEF Poll, PutStart, Enqueue, queue, StartInv
    <3>. QED BY <1>2, <3>1, <3>2 DEF UpdaterNext
  <2>. QED BY <2>1, <2>2 DEF StartInv, Taken
<1>3. ASSUME NEW f \in Entry, Finish(f) PROVE StartInv'
  <2>1. UNCHANGED <<has_start, start_time, upc, prior_q, events, server_start>>
    BY <1>3 DEF Finish, environment, updater, queue, main
  <2>2. \A e \in reboot_queue' : reboots'[e] > 0
    BY <1>3 DEF Finish, StartInv, TypesInv
  <2>. QED BY <2>1, <2>2 DEF StartInv, Taken
\* The main thread: nothing is taken, ...
<1>4. CASE \/ Acquire("preload", "preload_locked") \/ Acquire("preload_woken", "preload_again")
           \/ Acquire("woken", "pop") \/ Acquire("pop_woken", "pop")
           \/ PreloadWait \/ Preload \/ BeginGet \/ GetWait \/ EndGet \/ QueryWait
           \/ \E f \in Entry : Block(f) \/ ProcessFails(f)
           \/ Join \/ Requeue
  <2>1. /\ UNCHANGED <<has_start, start_time, upc, server_start, reboots>>
        /\ UNCHANGED events \/ events' = <<>>
        /\ UNCHANGED <<prior_q, reboot_queue>> \/ Requeue
    BY <1>4 DEF Acquire, PreloadWait, Preload, BeginGet, GetWait, EndGet, QueryWait, Block,
                ProcessFails, Join, Requeue, Wait, environment, updater, queue, work
  <2>2. \A x : Taken(x)' => Taken(x)
    BY <2>1 DEF Taken
  <2>3. /\ START \in prior_q' => START \in prior_q
        /\ reboot_queue' \subseteq reboot_queue
    BY <2>1 DEF Requeue, TypesInv
  <2>. QED BY <2>1, <2>2, <2>3 DEF StartInv
\* ... an event is taken off the queue, an entry of positive time only when the
\* start time is known, ...
<1>5. ASSUME NEW x \in Special, PopSpecial(x) PROVE StartInv'
  <2>1. /\ x \in prior_q /\ prior_q' = prior_q \ {x} /\ events' = Append(events, x)
        /\ UNCHANGED <<has_start, start_time, upc, server_start, reboots, reboot_queue>>
    BY <1>5 DEF PopSpecial, Least, environment, updater, work
  <2>2. \A y : Taken(y)' <=> Taken(y) \/ y = x
    BY <2>1, TakenMore DEF TypesInv, Events
  <2>. QED BY <2>1, <2>2, ItemFacts DEF StartInv
<1>6. ASSUME NEW f \in Entry, PopEntry(f) PROVE StartInv'
  <2>1. /\ ~Blocked(f) /\ prior_q' \subseteq prior_q /\ events' = Append(events, Item(f))
        /\ UNCHANGED <<has_start, start_time, upc, server_start, reboots, reboot_queue>>
    BY <1>6 DEF PopEntry, environment, updater, work
  <2>2. \A y : Taken(y)' <=> Taken(y) \/ y = Item(f)
    BY <2>1, TakenMore, ItemFacts DEF TypesInv
  <2>. QED BY <2>1, <2>2, ItemFacts DEF StartInv, Blocked
\* ... the start time becomes known, ...
<1>7. CASE QueryStart
  BY <1>7 DEF QueryStart, StartInv, Taken, environment, updater, work
<1>8. CASE ProcessSpecial
  <2>1. /\ events # <<>> /\ events' = Tail(events)
        /\ has_start' => has_start \/ Head(events) = START
        /\ has_start => has_start'
        /\ UNCHANGED <<start_time, upc, prior_q, server_start, reboots, reboot_queue>>
    BY <1>8 DEF ProcessSpecial, environment, updater, queue, work
  <2>2. \A y : Taken(y) <=> Taken(y)' \/ y = Head(events)
    BY <2>1, TakenLess DEF TypesInv
  <2>. QED BY <2>1, <2>2 DEF StartInv
\* ... or an entry is processed.
<1>9. ASSUME NEW f \in Entry, ProcessData(f) \/ ProcessNegative(f) \/ ProcessPositive(f)
      PROVE  StartInv'
  <2>1. /\ events # <<>> /\ events' = Tail(events)
        /\ UNCHANGED <<has_start, start_time, upc, prior_q, server_start, reboots, reboot_queue>>
    BY <1>9 DEF ProcessData, ProcessNegative, ProcessPositive, Entered, NextEntry, environment,
                updater, queue
  <2>2. \A y : Taken(y) <=> Taken(y)' \/ y = Head(events)
    BY <2>1, TakenLess DEF TypesInv
  <2>. QED BY <2>1, <2>2 DEF StartInv
<1>10. CASE MainNext
  BY <1>4, <1>5, <1>6, <1>7, <1>8, <1>9, <1>10 DEF MainNext
<1>11. CASE ResourceNext
  BY <1>1, <1>3, <1>11 DEF ResourceNext
<1>. QED BY <1>1, <1>2, <1>10, <1>11 DEF Next

LEMMA OrderInitial == Init => StartInv /\ Order!OrderInit
<1>. SUFFICES ASSUME Init PROVE StartInv /\ Order!OrderInit
  OBVIOUS
<1>1. (\A x : ~Taken(x)) /\ \A e \in Entry : ~Started(e)
  BY NoneTaken DEF Init, Started
<1>2. StartInv
  BY <1>1 DEF Init, StartInv
<1>3. finished = {} /\ server_start = FALSE /\ {e \in InitialEntries : Started(e)} = {}
  BY <1>1, EntryFacts DEF Init
<1>4. Order!OrderInit
  BY <1>3 DEF Order!OrderInit
<1>. QED BY <1>2, <1>4

\* What has left the queue may start, as ScheduleOrder understands it.
LEMMA TakenMayStart ==
  ASSUME HandlerInv, StartInv, NEW f \in InitialEntries, Taken(Item(f)),
         Time[f] < 0 \/ has_start
  PROVE  Order!MayStart(f)
<1>1. CASE Time[f] < 0
  <2>1. ASSUME NEW e \in InitialEntries, Time[e] < Time[f] PROVE e \in finished
    BY <1>1, <2>1, EntryFacts DEF HandlerInv, OrderInv, InitialNegative
  <2>. QED BY <1>1, <2>1 DEF Order!MayStart, Order!Before
<1>2. CASE ~(Time[f] < 0)
  BY <1>2 DEF Order!MayStart, StartInv
<1>. QED BY <1>1, <1>2

LEMMA OrderStep ==
  ASSUME HandlerInv, StartInv, [Next]_vars
  PROVE  [Order!OrderNext]_(Order!orderVars)
<1>. USE DEF HandlerInv
<1>. SUFFICES Order!OrderNext \/ UNCHANGED Order!orderVars
  OBVIOUS
<1>. DEFINE started == {e \in InitialEntries : Started(e)}
            ended == finished \cap InitialEntries
\* Steps that none of it shows of: no entry starts or ends, ...
<1>1. ASSUME UNCHANGED <<server_start, running, reboot_queue, reboots, timers, finished>>
      PROVE  UNCHANGED Order!orderVars
  BY <1>1 DEF Order!orderVars, Started
<1>2. CASE UNCHANGED vars \/ UpdaterNext \/ \E e \in Entry : AddEntry(e)
  BY <1>1, <1>2 DEF vars, UpdaterNext, Fetch, PutItems, PutEmpty, Poll, PutStart, AddEntry,
                    environment, work
<1>3. CASE \/ Acquire("preload", "preload_locked") \/ Acquire("preload_woken", "preload_again")
           \/ Acquire("woken", "pop") \/ Acquire("pop_woken", "pop")
           \/ PreloadWait \/ Preload \/ BeginGet \/ GetWait \/ EndGet \/ QueryStart \/ QueryWait
           \/ \E e \in Special : PopSpecial(e)
           \/ \E f \in Entry : PopEntry(f) \/ Block(f) \/ ProcessFails(f)
           \/ ProcessSpecial \/ Join
  BY <1>1, <1>3 DEF Acquire, PreloadWait, Preload, BeginGet, GetWait, EndGet, QueryStart,
                    QueryWait, PopSpecial, PopEntry, Block, ProcessFails, ProcessSpecial, Join,
                    environment, work
\* ... one that has asked for a reboot goes back to the queue, ...
<1>4. CASE Requeue
  <2>1. \A e \in Entry : Started(e)' <=> Started(e)
    BY <1>4 DEF Requeue, Started, StartInv
  <2>. QED BY <1>4, <2>1, EntryFacts DEF Requeue, environment, Order!orderVars
\* ... the experiment starts, ...
<1>5. CASE StartDecided
  <2>1. Order!Before(0) \subseteq ended
    BY <1>5 DEF StartDecided, ConfiguredMeansDone, InitialNegative, Order!Before
  <2>2. Order!StartExperiment
    BY <1>5, <2>1 DEF StartDecided, work, Order!StartExperiment, Started
  <2>. QED BY <2>2 DEF Order!OrderNext
\* ... an entry is started, or is done at once, ...
<1>6. ASSUME NEW f \in Entry, ProcessData(f) \/ ProcessNegative(f) \/ ProcessPositive(f)
      PROVE  Order!OrderNext \/ UNCHANGED Order!orderVars
  <2>1. /\ Taken(Item(f)) /\ UNCHANGED <<server_start, reboot_queue, reboots>>
    <3>1. events # <<>> /\ Head(events) = Item(f) /\ events' = Tail(events)
      BY <1>6 DEF ProcessData, ProcessNegative, ProcessPositive, Entered, NextEntry
    <3>. QED BY <1>6, <3>1, TakenLess
             DEF ProcessData, ProcessNegative, ProcessPositive, Entered, environment, TypesInv
  <2>2. Time[f] < 0 \/ Time[f] > 0
    BY EntryFacts
  <2>3. CASE finished' = finished \cup {f} /\ UNCHANGED <<running, timers>>
    <3>1. CASE f \in InitialEntries
      <4>1. Order!MayStart(f)
        BY <2>1, <2>2, <3>1, TakenMayStart DEF StartInv
      <4>2. started' = started \cup {f} /\ ended' = ended \cup {f}
        BY <2>1, <2>3, <3>1 DEF Started
      <4>. QED BY <2>1, <3>1, <4>1, <4>2 DEF Order!OrderNext, Order!Complete
    <3>2. CASE f \notin InitialEntries
      BY <2>1, <2>3, <3>2 DEF Order!orderVars, Started
    <3>. QED BY <3>1, <3>2
  <2>4. CASE UNCHANGED finished /\ \/ running' = running \cup {f} /\ UNCHANGED timers
                                   \/ timers' = timers \cup {f} /\ UNCHANGED running
    <3>1. CASE f \in InitialEntries /\ ~Started(f)
      <4>1. Order!MayStart(f)
        BY <2>1, <2>2, <3>1, TakenMayStart DEF StartInv
      <4>2. started' = started \cup {f} /\ ended' = ended /\ f \notin started
        BY <2>1, <2>4, <3>1 DEF Started
      <4>. QED BY <2>1, <3>1, <4>1, <4>2 DEF Order!OrderNext, Order!Start
    <3>2. CASE f \notin InitialEntries \/ Started(f)
      <4>1. \A e \in InitialEntries : Started(e)' <=> Started(e)
        BY <2>1, <2>4, <3>2 DEF Started
      <4>. QED BY <2>1, <2>4, <4>1 DEF Order!orderVars
    <3>. QED BY <3>1, <3>2
  <2>5. CASE UNCHANGED <<running, timers, finished>>
    BY <2>1, <2>5, <1>1
  <2>. QED BY <1>6, <2>3, <2>4, <2>5 DEF ProcessData, ProcessNegative, ProcessPositive
\* ... or it ends; a resource that asks for a reboot goes on.
<1>7. ASSUME NEW f \in Entry, Finish(f) \/ Fire(f)
      PROVE  Order!OrderNext \/ UNCHANGED Order!orderVars
  <2>1. server_start' = server_start /\ Started(f)
    BY <1>7 DEF Finish, Fire, environment, Started
  <2>2. \A e \in Entry : Started(e)' <=> Started(e)
    BY <1>7 DEF Finish, Fire, Started, TypesInv
  <2>3. finished' \in {finished, finished \cup {f}}
    BY <1>7 DEF Finish, Fire
  <2>4. started' = started
    BY <2>2, EntryFacts
  <2>5. CASE f \in InitialEntries /\ finished' = finished \cup {f}
    <3>1. ended' = ended \cup {f} /\ f \in started
      BY <2>1, <2>5
    <3>. QED BY <2>1, <2>4, <2>5, <3>1 DEF Order!OrderNext, Order!Finish
  <2>6. CASE f \notin InitialEntries \/ finished' = finished
    <3>1. ended' = ended
      BY <2>3, <2>6
    <3>. QED BY <2>1, <2>4, <3>1 DEF Order!orderVars
  <2>. QED BY <2>3, <2>5, <2>6
<1>8. CASE MainNext
  BY <1>3, <1>4, <1>6, <1>8 DEF MainNext
<1>9. CASE ResourceNext
  BY <1>7, <1>9 DEF ResourceNext
<1>. QED BY <1>2, <1>5, <1>8, <1>9 DEF Next

\* With no schedule at launch only the start of the experiment shows.
LEMMA EmptyOrderStep ==
  ASSUME InitialEntries = {}, [Next]_vars
  PROVE  [Order!OrderNext]_(Order!orderVars)
<1>1. CASE server_start' = server_start
  BY <1>1 DEF Order!orderVars
<1>2. CASE server_start' # server_start
  <2>1. StartDecided
    BY <1>2
       DEF Next, vars, AddEntry, UpdaterNext, Fetch, PutItems, PutEmpty, Poll, PutStart,
           MainNext, Acquire, PreloadWait, Preload, BeginGet, GetWait, EndGet, QueryStart,
           QueryWait, PopSpecial, PopEntry, Block, ProcessFails, ProcessSpecial, Join, Requeue,
           ProcessData, ProcessNegative, ProcessPositive, Entered, ResourceNext, Finish, Fire,
           environment
  <2>2. Order!StartExperiment
    BY <2>1 DEF StartDecided, Order!StartExperiment, Order!Before
  <2>. QED BY <2>2 DEF Order!OrderNext
<1>. QED BY <1>1, <1>2

\* The two threads implement the order of the schedule given at launch, for any
\* schedule, reboots, late entries and failed calls.
THEOREM OrderRefinement == Spec => ImplementsOrder
<1>1. Init => StartInv /\ Order!OrderInit
  BY OrderInitial
<1>2. CASE InitialEntries = {}
  <2>1. [Next]_vars => [Order!OrderNext]_(Order!orderVars)
    BY <1>2, EmptyOrderStep
  <2>. QED BY <1>1, <2>1, PTL DEF Spec, ImplementsOrder, Order!OrderSpec
<1>3. CASE InitialEntries # {}
  <2>1. Spec => []HandlerInv
    BY <1>3, HandlerInvariant
  <2>2. HandlerInv /\ StartInv /\ [Next]_vars => StartInv'
    BY StartKept
  <2>3. HandlerInv /\ StartInv /\ [Next]_vars => [Order!OrderNext]_(Order!orderVars)
    BY OrderStep
  <2>. QED BY <1>1, <2>1, <2>2, <2>3, PTL DEF Spec, ImplementsOrder, Order!OrderSpec
<1>. QED BY <1>2, <1>3

=============================================================================
