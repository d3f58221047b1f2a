-------------------------- MODULE ScheduleUpdaterProofs --------------------------
(***************************************************************************)
(* What becomes of the entries of a schedule, and when those that a break  *)
(* held back are queued, for any schedule, any number of pauses, breaks and *)
(* resumes, and any times.                                                  *)
(***************************************************************************)
EXTENDS ScheduleUpdater, FiniteSetTheorems, WellFoundedInduction, TLAPS

\* The items of the two queues.
InBatch  == {q[2] : q \in temp_q}
InShared == {q[2] : q \in prior_q}

-------------------------------------------------------------------------------
(* Where the items are.  The two queues hold pairs, and an item whose time *)
(* has been changed is never met again.                                    *)

PlacesTypes ==
  /\ incoming \subseteq Item /\ unused \subseteq Item /\ break_items \subseteq Item
  /\ DOMAIN start_time = Item
  /\ renewed \subseteq Resume
  /\ \A q \in temp_q : \E i \in Item : q = <<Time[i], i>>
  /\ ~busy => temp_q = {}

\* No item is in two of the places it goes through.
Apart ==
  /\ incoming \cap (unused \cup break_items \cup InBatch \cup InShared) = {}
  /\ unused \cap (break_items \cup InBatch \cup InShared) = {}
  /\ break_items \cap (InBatch \cup InShared) = {}
  /\ InBatch \cap InShared = {}

\* What has not been put in the shared queue has the time it was given.
TimesKept ==
  \A i \in incoming \cup unused \cup break_items \cup InBatch : start_time[i] = Time[i]

\* A resume that was held back has left the file.
RenewedGone == renewed \cap (incoming \cup unused) = {}

PlacesInv == PlacesTypes /\ Apart /\ TimesKept /\ RenewedGone

LEMMA PlacesInit == Init => PlacesInv
  BY ItemAssumption
  DEF Init, PlacesInv, PlacesTypes, Apart, TimesKept, RenewedGone, InBatch, InShared, Item

\* A queue of pairs that loses one loses its item, for no item is in it twice.
LEMMA TakenFromQueue ==
  ASSUME PlacesInv, NEW q \in temp_q, Takes(q)
  PROVE  /\ q[2] \in Item /\ q = <<Time[q[2]], q[2]>> /\ q[2] \in InBatch
         /\ InBatch' = InBatch \ {q[2]}
         /\ \A r \in temp_q' : r \in temp_q /\ r[2] # q[2]
<1>1. PICK i \in Item : q = <<Time[i], i>>
  BY DEF PlacesInv, PlacesTypes
<1>2. \A r \in temp_q : \E j \in Item : r = <<Time[j], j>>
  BY DEF PlacesInv, PlacesTypes
<1>3. temp_q' = temp_q \ {q}
  BY DEF Takes
<1>4. \A r \in temp_q' : r \in temp_q /\ r[2] # q[2]
  BY <1>1, <1>2, <1>3
<1>5. InBatch' \subseteq InBatch \ {q[2]}
  BY <1>4 DEF InBatch
<1>6. InBatch \ {q[2]} \subseteq InBatch'
  BY <1>3 DEF InBatch
<1>. QED BY <1>1, <1>4, <1>5, <1>6 DEF InBatch

\* A queue of pairs that gets one gets its item.
LEMMA AddedToQueue ==
  ASSUME NEW Q, NEW t, NEW i
  PROVE  {q[2] : q \in Q \cup {<<t, i>>}} = {q[2] : q \in Q} \cup {i}
<1>. DEFINE pair == <<t, i>>
<1>1. pair[2] = i
  OBVIOUS
<1>. HIDE DEF pair
<1>2. {q[2] : q \in Q \cup {pair}} = {q[2] : q \in Q} \cup {i}
  BY <1>1
<1>. QED BY <1>2 DEF pair

\* The queue of a new batch holds its items.
LEMMA FetchedQueue == ASSUME Fetch PROVE InBatch' = batch'
<1>. DEFINE Q == temp_q'
            I == batch'
<1>1. Q = {<<start_time[i], i>> : i \in I}
  BY DEF Fetch
<1>. HIDE DEF Q, I
<1>2. \A q \in Q : q[2] \in I
  BY <1>1
<1>3. ASSUME NEW i \in I PROVE \E q \in Q : q[2] = i
  <2>1. <<start_time[i], i>> \in Q /\ <<start_time[i], i>>[2] = i
    BY <1>1
  <2>. QED BY <2>1
<1>4. {q[2] : q \in Q} = I
  BY <1>2, <1>3
<1>. QED BY <1>4 DEF InBatch, Q, I

LEMMA PlacesStep == PlacesInv /\ [Next]_vars => PlacesInv'
<1>. SUFFICES ASSUME PlacesInv, [Next]_vars PROVE PlacesInv'
  OBVIOUS
<1>. USE DEF PlacesInv
<1>1. ASSUME NEW i \in Item, Add(i) PROVE PlacesInv'
  BY <1>1
  DEF Add, break, loop, PlacesTypes, Apart, TimesKept, RenewedGone, InBatch, InShared
<1>2. CASE Tick \/ Release \/ UNCHANGED vars
  BY <1>2 DEF Tick, Release, vars, file, break, loop, PlacesTypes, Apart, TimesKept,
              RenewedGone, InBatch, InShared
<1>3. CASE Fetch
  <2>1. /\ released' \in {{}, break_items} /\ break_items' = break_items \ released'
        /\ incoming' = {} /\ batch' = incoming \cup released'
        /\ temp_q' = {<<start_time[i], i>> : i \in batch'}
        /\ renewed' = renewed \cup (released' \cap Resume)
        /\ temp_q = {} /\ busy' = TRUE
        /\ UNCHANGED <<unused, start_time, prior_q>>
    BY <1>3 DEF Fetch, BroughtBack, PlacesTypes
  <2>2. \A i \in batch' : i \in Item /\ start_time[i] = Time[i]
    BY <2>1 DEF PlacesTypes, TimesKept
  <2>3. InBatch' = incoming \cup released' /\ InShared' = InShared
    <3>1. InBatch' = batch'
      BY <1>3, FetchedQueue
    <3>. QED BY <2>1, <3>1 DEF InShared
  <2>4. PlacesTypes'
    <3>1. ASSUME NEW q \in temp_q' PROVE \E i \in Item : q = <<Time[i], i>>
      BY <2>1, <2>2
    <3>2. /\ incoming' \subseteq Item /\ unused' \subseteq Item /\ break_items' \subseteq Item
          /\ renewed' \subseteq Resume /\ DOMAIN start_time' = Item
      BY <2>1 DEF PlacesTypes
    <3>3. busy' = TRUE
      BY <2>1
    <3>. QED BY <3>1, <3>2, <3>3 DEF PlacesTypes
  <2>5. Apart'
    BY <2>1, <2>3 DEF Apart
  <2>6. TimesKept'
    BY <2>1, <2>2, <2>3 DEF TimesKept
  <2>7. RenewedGone'
    BY <2>1 DEF RenewedGone, Apart
  <2>. QED BY <2>4, <2>5, <2>6, <2>7
<1>4. ASSUME NEW q \in temp_q, Hold(q) PROVE PlacesInv'
  <2>1. /\ q[2] \in Item /\ q = <<Time[q[2]], q[2]>> /\ q[2] \in InBatch
        /\ InBatch' = InBatch \ {q[2]} /\ \A r \in temp_q' : r \in temp_q
    BY <1>4, TakenFromQueue DEF Hold
  <2>2. /\ break_items' = break_items \cup {q[2]}
        /\ UNCHANGED <<incoming, unused, start_time, renewed, busy, prior_q>> /\ busy
    BY <1>4 DEF Hold, Held, Takes, file
  <2>3. PlacesTypes'
    BY <2>1, <2>2 DEF PlacesTypes
  <2>4. Apart'
    BY <2>1, <2>2 DEF Apart, InShared
  <2>5. TimesKept' /\ RenewedGone'
    BY <2>1, <2>2 DEF TimesKept, RenewedGone
  <2>. QED BY <2>3, <2>4, <2>5
<1>5. ASSUME NEW q \in temp_q, TakePause(q) \/ TakeResume(q) PROVE PlacesInv'
  <2>1. InBatch' = InBatch \ {q[2]} /\ \A r \in temp_q' : r \in temp_q
    BY <1>5, TakenFromQueue DEF TakePause, TakeResume
  <2>2. /\ UNCHANGED <<incoming, unused, break_items, start_time, renewed, busy, prior_q>>
        /\ busy
    BY <1>5 DEF TakePause, TakeResume, Takes, file
  <2>. QED BY <2>1, <2>2 DEF PlacesTypes, Apart, TimesKept, RenewedGone, InShared
<1>6. ASSUME NEW q \in temp_q, TakeOther(q) PROVE PlacesInv'
  <2>1. /\ q[2] \in Item /\ q[2] \in InBatch /\ InBatch' = InBatch \ {q[2]}
        /\ \A r \in temp_q' : r \in temp_q
    BY <1>6, TakenFromQueue DEF TakeOther
  <2>2. UNCHANGED <<incoming, unused, break_items, renewed, busy>> /\ busy
    BY <1>6 DEF TakeOther, Takes, file, break
  <2>3. PICK t : /\ start_time' = [start_time EXCEPT ![q[2]] = t]
                 /\ prior_q' = prior_q \cup {<<t, q[2]>>}
    BY <1>6 DEF TakeOther
  <2>5. InShared' = InShared \cup {q[2]}
    BY <2>3, AddedToQueue DEF InShared
  <2>6. PlacesTypes'
    BY <2>1, <2>2, <2>3 DEF PlacesTypes
  <2>7. Apart'
    BY <2>1, <2>2, <2>5 DEF Apart
  <2>8. TimesKept' /\ RenewedGone'
    BY <2>1, <2>2, <2>3 DEF TimesKept, RenewedGone, Apart, PlacesTypes
  <2>. QED BY <2>6, <2>7, <2>8
<1>. QED BY <1>1, <1>2, <1>3, <1>4, <1>5, <1>6 DEF Next

LEMMA PlacesInvariant == Spec => []PlacesInv
  BY PlacesInit, PlacesStep, PTL DEF Spec

-------------------------------------------------------------------------------
(* Nothing is lost.                                                        *)

\* Of five sets that have e in one at most, e is in one, or in none.
LEMMA CountOfPlaces ==
  ASSUME NEW e, NEW A, NEW B, NEW C, NEW D, NEW E,
         e \in A => e \notin B \cup C \cup D \cup E,
         e \in B => e \notin C \cup D \cup E,
         e \in C => e \notin D \cup E,
         e \in D => e \notin E
  PROVE  Cardinality({S \in {1, 2, 3, 4, 5} : e \in <<A, B, C, D, E>>[S]}) =
           IF e \in A \cup B \cup C \cup D \cup E THEN 1 ELSE 0
<1>. DEFINE in == {S \in {1, 2, 3, 4, 5} : e \in <<A, B, C, D, E>>[S]}
<1>1. CASE e \notin A \cup B \cup C \cup D \cup E
  <2>1. in = {}
    BY <1>1
  <2>. QED BY <1>1, <2>1, FS_EmptySet
<1>2. CASE e \in A \cup B \cup C \cup D \cup E
  <2>1. \E S : in = {S}
    <3>1. CASE e \in A
      <4>1. in = {1}
        BY <3>1
      <4>. QED BY <4>1
    <3>2. CASE e \in B
      <4>1. in = {2}
        BY <3>2
      <4>. QED BY <4>1
    <3>3. CASE e \in C
      <4>1. in = {3}
        BY <3>3
      <4>. QED BY <4>1
    <3>4. CASE e \in D
      <4>1. in = {4}
        BY <3>4
      <4>. QED BY <4>1
    <3>5. CASE e \in E
      <4>1. in = {5}
        BY <3>5
      <4>. QED BY <4>1
    <3>. QED BY <1>2, <3>1, <3>2, <3>3, <3>4, <3>5
  <2>2. PICK S : in = {S}
    BY <2>1
  <2>3. Cardinality(in) = 1
    BY <2>2, FS_Singleton
  <2>. QED BY <1>2, <2>3
<1>. QED BY <1>1, <1>2

\* What is somewhere stays somewhere, and nothing comes from nowhere.
Somewhere == incoming \cup unused \cup break_items \cup InBatch \cup InShared

LEMMA CopiesAreOne ==
  ASSUME Apart, NEW e PROVE Copies(e) = IF e \in Somewhere THEN 1 ELSE 0
<1>1. Copies(e) = Cardinality({S \in {1, 2, 3, 4, 5} :
        e \in <<incoming, unused, break_items, InBatch, InShared>>[S]})
  BY DEF Copies, InBatch, InShared
<1>2. /\ e \in incoming => e \notin unused \cup break_items \cup InBatch \cup InShared
      /\ e \in unused => e \notin break_items \cup InBatch \cup InShared
      /\ e \in break_items => e \notin InBatch \cup InShared
      /\ e \in InBatch => e \notin InShared
  BY DEF Apart
<1>. QED BY <1>1, <1>2, CountOfPlaces DEF Somewhere

\* For any schedule: no entry is lost or doubled on its way to the shared queue
\* (ScheduleUpdater._run).
THEOREM NoEntryLost == Spec => NothingLost
<1>1. ASSUME PlacesInv, PlacesInv', [Next]_vars, NEW e \in Entry
      PROVE  Copies(e)' = Copies(e)
  <2>1. e \in Somewhere' <=> e \in Somewhere
    <3>. USE DEF Somewhere
    <3>1. ASSUME NEW i \in Item, Add(i) PROVE e \in Somewhere' <=> e \in Somewhere
      BY <3>1 DEF Add, break, loop, InBatch, InShared
    <3>2. CASE Tick \/ Release \/ UNCHANGED vars
      BY <3>2 DEF Tick, Release, vars, file, break, loop, InBatch, InShared
    <3>3. CASE Fetch
      <4>1. /\ batch' = incoming \cup released' /\ released' \subseteq break_items
            /\ incoming' = {} /\ break_items' = break_items \ released'
            /\ UNCHANGED <<unused, prior_q>> /\ temp_q = {}
            /\ temp_q' = {<<start_time[i], i>> : i \in batch'}
        BY <1>1, <3>3 DEF Fetch, BroughtBack, PlacesInv, PlacesTypes
      <4>2. InBatch' = batch'
        BY <3>3, FetchedQueue
      <4>3. InBatch = {}
        BY <4>1 DEF InBatch
      <4>. QED BY <4>1, <4>2, <4>3 DEF InShared
    <3>4. ASSUME NEW q \in temp_q, Hold(q) PROVE e \in Somewhere' <=> e \in Somewhere
      <4>1. q[2] \in InBatch /\ InBatch' = InBatch \ {q[2]}
        BY <1>1, <3>4, TakenFromQueue DEF Hold
      <4>. QED BY <4>1, <3>4 DEF Hold, Held, Takes, file, InShared
    <3>5. ASSUME NEW q \in temp_q, TakePause(q) \/ TakeResume(q)
          PROVE  e \in Somewhere' <=> e \in Somewhere
      <4>1. q[2] \in InBatch /\ InBatch' = InBatch \ {q[2]}
        BY <1>1, <3>5, TakenFromQueue DEF TakePause, TakeResume
      <4>2. q[2] # e
        BY <3>5, ItemAssumption DEF TakePause, TakeResume, IsPause, IsResume
      <4>3. UNCHANGED <<incoming, unused, break_items, prior_q>>
        BY <3>5 DEF TakePause, TakeResume, Takes, file
      <4>. QED BY <4>1, <4>2, <4>3 DEF InShared
    <3>6. ASSUME NEW q \in temp_q, TakeOther(q) PROVE e \in Somewhere' <=> e \in Somewhere
      <4>1. q[2] \in InBatch /\ InBatch' = InBatch \ {q[2]}
        BY <1>1, <3>6, TakenFromQueue DEF TakeOther
      <4>2. InShared' = InShared \cup {q[2]}
        BY <3>6, AddedToQueue DEF TakeOther, InShared
      <4>3. UNCHANGED <<incoming, unused, break_items>>
        BY <3>6 DEF TakeOther, Takes, file, break
      <4>. QED BY <4>1, <4>2, <4>3
    <3>. QED BY <1>1, <3>1, <3>2, <3>3, <3>4, <3>5, <3>6 DEF Next
  <2>2. Apart /\ Apart'
    BY <1>1 DEF PlacesInv
  <2>3. Copies(e) = IF e \in Somewhere THEN 1 ELSE 0
    BY <2>2, CopiesAreOne
  <2>4. Copies(e)' = IF e \in Somewhere' THEN 1 ELSE 0
    <3>1. Copies(e)' = Cardinality({S \in {1, 2, 3, 4, 5} :
            e \in <<incoming', unused', break_items', InBatch', InShared'>>[S]})
      BY DEF Copies, InBatch, InShared
    <3>2. /\ e \in incoming' => e \notin unused' \cup break_items' \cup InBatch' \cup InShared'
          /\ e \in unused' => e \notin break_items' \cup InBatch' \cup InShared'
          /\ e \in break_items' => e \notin InBatch' \cup InShared'
          /\ e \in InBatch' => e \notin InShared'
      BY <2>2 DEF Apart
    <3>. QED BY <3>1, <3>2, CountOfPlaces DEF Somewhere
  <2>. QED BY <2>1, <2>3, <2>4
<1>2. PlacesInv /\ PlacesInv' /\ [Next]_vars => [\A e \in Entry : Copies(e)' = Copies(e)]_vars
  BY <1>1
<1>. QED BY <1>2, PlacesInvariant, PTL DEF Spec, NothingLost

-------------------------------------------------------------------------------
(* A break holds.                                                          *)

\* At most one break of a schedule is at -inf: of two, the second would be met
\* again in the batch of a resume, where it is as likely to come before the
\* resume as after it, and be taken for nothing.
OneBreakAtStart ==
  \A l \in Launches : \A b, c \in Breaks \cap l :
    Time[b] = NegInf /\ Time[c] = NegInf => b = c

FreshResumeWaits == \E r \in Resume \ renewed : <<NegInf, r>> \in temp_q

Met == incoming \cup break_items \cup batch

FirstBreaks ==
  \A b, c \in Breaks \cap Met : Time[b] = NegInf /\ Time[c] = NegInf => b = c

\* Breaks come with the launch only; what a break has held back is no break at -inf.
BreaksOnce ==
  /\ unused \cap Breaks = {}
  /\ found_break \/ busy => incoming \cap Breaks = {}
  /\ \A b \in Breaks : Time[b] = NegInf => b \notin break_items
  /\ busy => /\ InBatch \subseteq batch /\ released \subseteq batch
             /\ \A b \in released \cap Breaks : Time[b] # NegInf

\* While a break of an earlier batch is on, the breaks of this one were held back,
\* and the resume that brought them back comes first.
OldBreak ==
  busy /\ found_break /\ ~break_event =>
    /\ batch \cap Breaks \subseteq released
    /\ released # {} => FreshResumeWaits

\* A break of the batch is still to come, or is on.
BreaksToCome ==
  busy /\ ~break_event => batch \cap Breaks \subseteq InBatch

BreakIsOn ==
  busy /\ break_event =>
    \E c \in Breaks \cap batch : c \notin InBatch /\ \A i \in InBatch : Time[c] <= Time[i]

FlagTypes == found_break \in BOOLEAN /\ break_event \in BOOLEAN /\ busy \in BOOLEAN

BreakInv ==
  FlagTypes /\ FirstBreaks /\ BreaksOnce /\ OldBreak /\ BreaksToCome /\ BreakIsOn

\* Nothing is scheduled before -inf.
LEMMA LeastTime ==
  ASSUME NEW i \in Item PROVE Time[i] \in Int /\ NegInf \in Int /\ NegInf <= Time[i]
  BY ItemAssumption

LEMMA BreakInit == ASSUME OneBreakAtStart PROVE Init => BreakInv
  BY ItemAssumption
  DEF Init, BreakInv, OneBreakAtStart, FlagTypes, FirstBreaks, BreaksOnce, OldBreak,
      BreaksToCome, BreakIsOn, Met, InBatch, Breaks, Item

\* The item that is taken is one of the earliest.
LEMMA TakenIsEarliest ==
  ASSUME PlacesInv, NEW q \in temp_q, Takes(q)
  PROVE  /\ \A i \in InBatch : Time[q[2]] <= Time[i]
         /\ \A r \in temp_q : Time[q[2]] <= r[1]
         /\ \A i \in InBatch : <<Time[i], i>> \in temp_q
<1>1. \A r \in temp_q : r = <<Time[r[2]], r[2]>>
  BY DEF PlacesInv, PlacesTypes
<1>2. \A r \in temp_q : q[1] <= r[1]
  BY DEF Takes
<1>. QED BY <1>1, <1>2 DEF InBatch

LEMMA BreakStep ==
  PlacesInv /\ BreakInv /\ [Next]_vars => BreakInv'
<1>. SUFFICES ASSUME PlacesInv, BreakInv, [Next]_vars PROVE BreakInv'
  OBVIOUS
<1>. USE DEF BreakInv
<1>1. ASSUME NEW i \in Item, Add(i) PROVE BreakInv'
  BY <1>1 DEF Add, break, loop, FlagTypes, FirstBreaks, BreaksOnce, OldBreak, BreaksToCome,
              BreakIsOn, Met, InBatch, FreshResumeWaits
<1>2. CASE Tick \/ Release \/ UNCHANGED vars
  <2>1. /\ UNCHANGED <<incoming, unused, batch, released, renewed, break_items, found_break,
                       break_event, temp_q>>
        /\ (busy' = busy \/ busy' = FALSE)
    BY <1>2 DEF Tick, Release, vars, file, break, loop
  <2>2. InBatch' = InBatch /\ Met' = Met
    BY <2>1 DEF InBatch, Met
  <2>3. FreshResumeWaits => FreshResumeWaits'
    BY <2>1 DEF FreshResumeWaits
  <2>4. FlagTypes'
    BY <2>1 DEF FlagTypes
  <2>5. FirstBreaks'
    BY <2>2 DEF FirstBreaks
  <2>6. BreaksOnce'
    BY <2>1, <2>2 DEF FlagTypes, BreaksOnce
  <2>7. OldBreak'
    BY <2>1, <2>3 DEF FlagTypes, OldBreak
  <2>8. BreaksToCome'
    BY <2>1, <2>2 DEF FlagTypes, BreaksToCome
  <2>9. BreakIsOn'
    BY <2>1, <2>2 DEF FlagTypes, BreakIsOn
  <2>. QED BY <2>4, <2>5, <2>6, <2>7, <2>8, <2>9
<1>3. CASE Fetch
  <2>1. /\ ~busy /\ busy' = TRUE /\ break_event' = FALSE /\ found_break' = found_break
        /\ released' = BroughtBack /\ batch' = incoming \cup released'
        /\ temp_q' = {<<start_time[i], i>> : i \in batch'}
        /\ renewed' = renewed \cup (released' \cap Resume)
        /\ break_items' = break_items \ released' /\ incoming' = {} /\ unused' = unused
    BY <1>3 DEF Fetch
  <2>2. released' \subseteq break_items /\ (released' # {} => incoming \cap Resume # {})
    BY <2>1 DEF BroughtBack
  <2>3. InBatch' = batch'
    BY <1>3, FetchedQueue
  <2>4. FlagTypes' /\ BreaksToCome' /\ BreakIsOn'
    BY <2>1, <2>3 DEF FlagTypes, BreaksToCome, BreakIsOn
  <2>5. FirstBreaks'
    BY <2>1, <2>2 DEF FirstBreaks, Met
  <2>6. BreaksOnce'
    BY <2>1, <2>2, <2>3 DEF BreaksOnce
  <2>7. ASSUME released' # {} PROVE FreshResumeWaits'
    <3>1. PICK r \in Resume : r \in incoming
      BY <2>2, <2>7
    <3>2. r \notin renewed'
      BY <2>1, <2>2, <3>1 DEF PlacesInv, RenewedGone, Apart
    <3>3. start_time[r] = NegInf
      BY <3>1, ItemAssumption DEF PlacesInv, TimesKept
    <3>. QED BY <2>1, <3>1, <3>2, <3>3 DEF FreshResumeWaits
  <2>8. OldBreak'
    BY <2>1, <2>7 DEF OldBreak, BreaksOnce
  <2>. QED BY <2>4, <2>5, <2>6, <2>8
<1>4. ASSUME NEW q \in temp_q, Hold(q) PROVE BreakInv'
  <2>1. /\ break_event /\ busy /\ break_items' = break_items \cup {q[2]}
        /\ UNCHANGED <<incoming, unused, batch, released, renewed, busy, found_break,
                       break_event>>
    BY <1>4 DEF Hold, Held, Takes, file
  <2>2. /\ q[2] \in InBatch /\ InBatch' = InBatch \ {q[2]} /\ q[2] \in batch
        /\ q[2] \in Item
    BY <1>4, <2>1, TakenFromQueue DEF Hold, BreaksOnce
  <2>3. PICK c \in Breaks \cap batch : c \notin InBatch /\ \A i \in InBatch : Time[c] <= Time[i]
    BY <2>1 DEF BreakIsOn
  <2>4. q[2] \in Breaks => Time[q[2]] # NegInf
    <3>1. SUFFICES ASSUME q[2] \in Breaks, Time[q[2]] = NegInf PROVE FALSE
      OBVIOUS
    <3>2. Time[c] <= NegInf
      BY <2>2, <2>3, <3>1
    <3>3. Time[c] = NegInf
      BY <2>3, <3>2, LeastTime DEF Breaks, Item
    <3>. QED BY <2>2, <2>3, <3>1, <3>3 DEF FirstBreaks, Met
  <2>5. FirstBreaks'
    BY <2>1, <2>2 DEF FirstBreaks, Met
  <2>6. BreaksOnce'
    BY <2>1, <2>2, <2>4 DEF BreaksOnce
  <2>7. BreakIsOn'
    BY <2>1, <2>2, <2>3 DEF BreakIsOn
  <2>. QED BY <2>1, <2>5, <2>6, <2>7 DEF FlagTypes, OldBreak, BreaksToCome
<1>5. ASSUME NEW q \in temp_q, TakePause(q) PROVE BreakInv'
  <2>1. /\ ~break_event /\ busy /\ ~found_break
        /\ UNCHANGED <<incoming, unused, break_items, batch, released, renewed, busy>>
        /\ IF Duration[q[2]] = Endless THEN found_break' /\ break_event'
           ELSE UNCHANGED <<found_break, break_event>>
    BY <1>5 DEF TakePause, IsPause, Takes, file
  <2>2. /\ q[2] \in InBatch /\ InBatch' = InBatch \ {q[2]} /\ q[2] \in batch
        /\ \A i \in InBatch : Time[q[2]] <= Time[i]
    BY <1>5, <2>1, TakenFromQueue, TakenIsEarliest DEF TakePause, BreaksOnce
  <2>3. FirstBreaks' /\ BreaksOnce'
    BY <2>1, <2>2 DEF FirstBreaks, Met, BreaksOnce
  <2>4. CASE Duration[q[2]] = Endless
    <3>1. q[2] \in Breaks \cap batch
      BY <1>5, <2>2, <2>4 DEF TakePause, IsPause, Breaks
    <3>2. found_break' = TRUE /\ break_event' = TRUE
      BY <1>5, <2>4 DEF TakePause
    <3>. QED BY <2>1, <2>2, <2>3, <3>1, <3>2
         DEF FlagTypes, OldBreak, BreaksToCome, BreakIsOn
  <2>5. CASE Duration[q[2]] # Endless
    <3>1. q[2] \notin Breaks
      BY <2>5 DEF Breaks
    <3>2. UNCHANGED <<found_break, break_event>>
      BY <2>1, <2>5
    <3>. QED BY <2>1, <2>2, <2>3, <3>1, <3>2
         DEF FlagTypes, OldBreak, BreaksToCome, BreakIsOn
  <2>. QED BY <2>4, <2>5
<1>6. ASSUME NEW q \in temp_q, TakeResume(q) PROVE BreakInv'
  <2>1. /\ ~break_event /\ busy /\ found_break' = FALSE /\ break_event' = FALSE
        /\ UNCHANGED <<incoming, unused, break_items, batch, released, renewed, busy>>
    BY <1>6 DEF TakeResume, Takes, file
  <2>2. InBatch' = InBatch \ {q[2]} /\ q[2] \notin Breaks
    BY <1>6, TakenFromQueue, ItemAssumption DEF TakeResume, IsResume, Breaks
  <2>. QED BY <2>1, <2>2 DEF FlagTypes, FirstBreaks, Met, BreaksOnce, OldBreak,
                             BreaksToCome, BreakIsOn
<1>7. ASSUME NEW q \in temp_q, TakeOther(q) PROVE BreakInv'
  <2>1. /\ ~break_event /\ busy /\ temp_q' = temp_q \ {q}
        /\ UNCHANGED <<incoming, unused, break_items, batch, released, renewed, busy,
                       found_break, break_event>>
    BY <1>7 DEF TakeOther, Takes, file, break
  <2>2. /\ q[2] \in InBatch /\ InBatch' = InBatch \ {q[2]} /\ q[2] \in batch
        /\ q[2] \in Item /\ \A r \in temp_q : Time[q[2]] <= r[1]
    BY <1>7, <2>1, TakenFromQueue, TakenIsEarliest DEF TakeOther, BreaksOnce
  <2>3. q[2] \notin Breaks
    <3>1. SUFFICES ASSUME q[2] \in Breaks PROVE FALSE
      OBVIOUS
    <3>2. found_break
      BY <1>7, <3>1 DEF TakeOther, IsPause, Breaks
    <3>3. q[2] \in released
      BY <2>1, <2>2, <3>1, <3>2 DEF OldBreak
    <3>4. PICK r \in Resume \ renewed : <<NegInf, r>> \in temp_q
      BY <2>1, <3>2, <3>3 DEF OldBreak, FreshResumeWaits
    <3>5. Time[q[2]] <= NegInf
      BY <2>2, <3>4
    <3>6. Time[q[2]] = NegInf
      BY <2>2, <3>5, LeastTime
    <3>. QED BY <2>1, <3>1, <3>3, <3>6 DEF BreaksOnce
  <2>4. FreshResumeWaits => FreshResumeWaits'
    <3>1. SUFFICES ASSUME NEW r \in Resume \ renewed, <<NegInf, r>> \in temp_q
                   PROVE  <<NegInf, r>> \in temp_q'
      BY <2>1 DEF FreshResumeWaits
    <3>2. q[2] # r
      BY <1>7 DEF TakeOther, IsResume
    <3>3. <<NegInf, r>>[2] = r
      OBVIOUS
    <3>. QED BY <2>1, <3>1, <3>2, <3>3
  <2>. QED BY <2>1, <2>2, <2>3, <2>4
       DEF FlagTypes, FirstBreaks, Met, BreaksOnce, OldBreak, BreaksToCome, BreakIsOn
<1>. QED BY <1>1, <1>2, <1>3, <1>4, <1>5, <1>6, <1>7 DEF Next

LEMMA BreakInvariant == ASSUME OneBreakAtStart PROVE Spec => [](PlacesInv /\ BreakInv)
<1>1. Init => BreakInv
  BY BreakInit
<1>. QED BY <1>1, PlacesInit, PlacesStep, BreakStep, PTL DEF Spec

\* For any schedule with at most one break at -inf: an entry of the batch that is
\* scheduled after a break of the batch is not queued (ScheduleUpdater._run).
THEOREM BreaksHold == ASSUME OneBreakAtStart PROVE Spec => BreakHolds
<1>1. ASSUME PlacesInv, BreakInv, [Next]_vars
      PROVE  [\A e \in Entry, b \in Breaks :
                Queuing(e) /\ b \in batch => Time[e] <= Time[b]]_vars
  <2>1. SUFFICES ASSUME NEW e \in Entry, NEW b \in Breaks, Queuing(e), b \in batch
                 PROVE  Time[e] <= Time[b]
    OBVIOUS
  <2>2. prior_q' # prior_q
    BY <2>1 DEF Queuing, Queued
  <2>3. PICK q \in temp_q : TakeOther(q)
    BY <1>1, <2>2 DEF Next, Add, Tick, Fetch, Hold, TakePause, TakeResume, Release, vars
  <2>4. PICK t : prior_q' = prior_q \cup {<<t, q[2]>>}
    BY <2>3 DEF TakeOther
  <2>5. <<t, q[2]>>[2] = q[2]
    OBVIOUS
  <2>6. q[2] = e
    BY <2>1, <2>4, <2>5 DEF Queuing, Queued
  <2>7. b \in InBatch
    BY <1>1, <2>1, <2>3 DEF TakeOther, Takes, BreakInv, BreaksToCome
  <2>. QED BY <1>1, <2>3, <2>6, <2>7, TakenIsEarliest DEF TakeOther
<1>2. PlacesInv /\ BreakInv /\ [Next]_vars
        => [\A e \in Entry, b \in Breaks :
              Queuing(e) /\ b \in batch => Time[e] <= Time[b]]_vars
  BY <1>1
<1>. QED BY <1>2, BreakInvariant, PTL DEF Spec, BreakHolds

-------------------------------------------------------------------------------
(* Sums of durations.                                                      *)

\* The pauses that end.
Finite == Pause \ Breaks
Total(S) == MapThenSumSet(LAMBDA p : Duration[p], S)

\* Induction over finite sets: what holds of a set when it holds of the set without
\* any one of its elements holds of all.
LEMMA ByRemoval ==
  ASSUME NEW X, NEW F,
         \A S \in SUBSET X : IsFiniteSet(S) /\ (\A p \in S : S \ {p} \in F) => S \in F
  PROVE  \A S \in SUBSET X : IsFiniteSet(S) => S \in F
<1>. DEFINE bad == FiniteSubsetsOf(X) \ F
<1>1. SUFFICES ASSUME bad # {} PROVE FALSE
  BY DEF FiniteSubsetsOf
<1>2. bad \subseteq FiniteSubsetsOf(X)
  OBVIOUS
<1>3. PICK m \in bad : \A y \in bad : ~ (<<y, m>> \in StrictSubsetOrdering(X))
  <2>. HIDE DEF bad
  <2>. QED BY <1>1, <1>2, WFMin, FS_StrictSubsetOrderingWellFounded
<1>4. ASSUME NEW p \in m PROVE m \ {p} \in F
  <2>1. m \ {p} \in FiniteSubsetsOf(X)
    BY FS_RemoveElement DEF FiniteSubsetsOf
  <2>2. <<m \ {p}, m>> \in StrictSubsetOrdering(X)
    BY <2>1 DEF StrictSubsetOrdering, FiniteSubsetsOf
  <2>. QED BY <1>3, <2>1, <2>2
<1>. QED BY <1>4 DEF FiniteSubsetsOf

\* A function that adds durations up, in whatever order.
AddsUp(f, S) ==
  /\ f \in [SUBSET S -> Int] /\ f[{}] = 0
  /\ \A s \in SUBSET S : \A x \in s : f[s] = Duration[x] + f[s \ {x}]

LEMMA DurationsAddUp ==
  ASSUME NEW S \in SUBSET Finite, IsFiniteSet(S)
  PROVE  \E f : AddsUp(f, S)
<1>. DEFINE F == {s \in SUBSET Finite : \E f : AddsUp(f, s)}
<1>1. \A p \in Finite : Duration[p] \in Int
  BY ItemAssumption DEF Finite, Breaks
<1>2. ASSUME NEW s \in SUBSET Finite, IsFiniteSet(s), \A p \in s : s \ {p} \in F
      PROVE  s \in F
  <2>1. CASE s = {}
    <3>. DEFINE f == [t \in SUBSET s |-> 0]
    <3>1. AddsUp(f, s)
      BY <2>1 DEF AddsUp
    <3>. QED BY <3>1
  <2>2. CASE s # {}
    <3>1. PICK p \in s : TRUE
      BY <2>2
    <3>2. PICK f : AddsUp(f, s \ {p})
      BY <1>2, <3>1
    <3>. DEFINE g == [t \in SUBSET s |-> IF p \in t THEN Duration[p] + f[t \ {p}] ELSE f[t]]
    <3>3. g \in [SUBSET s -> Int] /\ g[{}] = 0
      <4>1. ASSUME NEW t \in SUBSET s
            PROVE  t \ {p} \in SUBSET (s \ {p}) /\ (p \notin t => t \in SUBSET (s \ {p}))
        OBVIOUS
      <4>. QED BY <1>1, <3>2, <4>1 DEF AddsUp
    <3>4. ASSUME NEW t \in SUBSET s, NEW x \in t PROVE g[t] = Duration[x] + g[t \ {x}]
      <4>1. CASE p \notin t
        <5>1. t \in SUBSET (s \ {p}) /\ p \notin t \ {x} /\ t \ {x} \in SUBSET s
          BY <4>1
        <5>2. g[t] = f[t] /\ g[t \ {x}] = f[t \ {x}]
          BY <4>1, <5>1
        <5>. QED BY <3>2, <5>1, <5>2 DEF AddsUp
      <4>2. CASE x = p
        <5>1. p \notin t \ {p} /\ t \ {p} \in SUBSET s
          OBVIOUS
        <5>2. g[t \ {p}] = f[t \ {p}]
          BY <5>1
        <5>. QED BY <4>2, <5>2
      <4>3. CASE p \in t /\ x # p
        <5>. DEFINE u == t \ {p}
        <5>1. u \in SUBSET (s \ {p}) /\ x \in u /\ p \in t \ {x} /\ t \ {x} \in SUBSET s
              /\ (t \ {x}) \ {p} = u \ {x}
          BY <4>3
        <5>2. g[t] = Duration[p] + f[u] /\ g[t \ {x}] = Duration[p] + f[u \ {x}]
          BY <4>3, <5>1
        <5>3. f[u] = Duration[x] + f[u \ {x}] /\ f[u \ {x}] \in Int /\ u \ {x} \in SUBSET (s \ {p})
          BY <3>2, <5>1 DEF AddsUp
        <5>4. Duration[x] \in Int /\ Duration[p] \in Int
          BY <1>1, <4>3
        <5>. HIDE DEF g, u
        <5>. QED BY <5>2, <5>3, <5>4
      <4>. QED BY <4>1, <4>2, <4>3
    <3>. HIDE DEF g
    <3>5. AddsUp(g, s)
      BY <3>3, <3>4 DEF AddsUp
    <3>. QED BY <3>5
  <2>. QED BY <2>1, <2>2
<1>3. S \in F
  <2>. HIDE DEF F
  <2>. QED BY <1>2, ByRemoval
<1>. QED BY <1>3

\* The recursion of the sum has a solution: what adds up on the set.
LEMMA TotalAddsUp ==
  ASSUME NEW S \in SUBSET Finite, IsFiniteSet(S), NEW f, AddsUp(f, S), NEW R \in SUBSET S
  PROVE  Total(R) = f[R]
<1>. DEFINE first(s) == CHOOSE x \in s : TRUE
            Solves(h) == h = [s \in SUBSET R |-> IF s = {} THEN 0
                                ELSE Duration[first(s)] + h[s \ {first(s)}]]
            g == [s \in SUBSET R |-> f[s]]
            iter == CHOOSE h : Solves(h)
            F == {s \in SUBSET R : iter[s] = f[s]}
<1>1. Total(R) = iter[R]
  BY DEF Total, MapThenSumSet, MapThenFoldSet
<1>2. \A s \in SUBSET R : s # {} => first(s) \in s
  OBVIOUS
<1>. HIDE DEF first
<1>3. Solves(g)
  <2>1. ASSUME NEW s \in SUBSET R
        PROVE  g[s] = IF s = {} THEN 0 ELSE Duration[first(s)] + g[s \ {first(s)}]
    BY <1>2 DEF AddsUp
  <2>2. g = [s \in SUBSET R |-> g[s]]
    OBVIOUS
  <2>. HIDE DEF g
  <2>. QED BY <2>1, <2>2
<1>4. Solves(iter)
  <2>. HIDE DEF Solves, g
  <2>. QED BY <1>3
<1>. HIDE DEF iter
<1>5. ASSUME NEW s \in SUBSET R, IsFiniteSet(s), \A p \in s : s \ {p} \in F PROVE s \in F
  <2>1. iter[s] = IF s = {} THEN 0 ELSE Duration[first(s)] + iter[s \ {first(s)}]
    BY <1>4
  <2>2. CASE s = {}
    BY <2>1, <2>2 DEF AddsUp
  <2>3. CASE s # {}
    <3>1. first(s) \in s /\ iter[s \ {first(s)}] = f[s \ {first(s)}]
      BY <1>2, <1>5, <2>3
    <3>2. f[s] = Duration[first(s)] + f[s \ {first(s)}]
      BY <3>1 DEF AddsUp
    <3>. QED BY <2>1, <2>3, <3>1, <3>2
  <2>. QED BY <2>2, <2>3
<1>6. R \in F
  <2>1. IsFiniteSet(R)
    BY FS_Subset
  <2>. HIDE DEF F
  <2>. QED BY <1>5, <2>1, ByRemoval
<1>. QED BY <1>1, <1>6

\* One more pause.
LEMMA TotalOfOneMore ==
  ASSUME NEW S \in SUBSET Finite, IsFiniteSet(S), NEW p \in Finite \ S
  PROVE  /\ IsFiniteSet(S \cup {p})
         /\ Total(S \cup {p}) = Total(S) + Duration[p]
         /\ Total(S) \in Int /\ Duration[p] \in Int
<1>1. S \cup {p} \in SUBSET Finite /\ IsFiniteSet(S \cup {p})
  BY FS_AddElement
<1>2. PICK f : AddsUp(f, S \cup {p})
  BY <1>1, DurationsAddUp
<1>3. Total(S \cup {p}) = f[S \cup {p}] /\ Total(S) = f[S]
  BY <1>1, <1>2, TotalAddsUp
<1>4. (S \cup {p}) \ {p} = S
  OBVIOUS
<1>5. Duration[p] \in Int
  BY ItemAssumption DEF Finite, Breaks
<1>6. f[S] \in Int /\ f[S \cup {p}] = Duration[p] + f[S]
  <2>1. S \in SUBSET (S \cup {p}) /\ S \cup {p} \in SUBSET (S \cup {p}) /\ p \in S \cup {p}
    OBVIOUS
  <2>. QED BY <1>2, <1>4, <2>1 DEF AddsUp
<1>. QED BY <1>1, <1>3, <1>5, <1>6

LEMMA TotalOfNone == Total({}) = 0
<1>1. IsFiniteSet({}) /\ {} \in SUBSET Finite
  BY FS_EmptySet
<1>2. PICK f : AddsUp(f, {})
  BY <1>1, DurationsAddUp
<1>3. Total({}) = f[{}]
  BY <1>1, <1>2, TotalAddsUp
<1>. QED BY <1>2, <1>3 DEF AddsUp

-------------------------------------------------------------------------------
(* When a resume queues what was held back.                                *)

\* No pause or break has the time of another one or of an entry.
DistinctTimes ==
  \A p \in Pause : \A i \in (Entry \cup Pause) \ {p} : Time[p] # Time[i]

Waiting == incoming \cup InBatch \cup break_items

\* The breaks that have been on.
Taken == (Breaks \cap launch) \ Waiting

\* What comes after a break that has been on: what is held back, and what of the
\* batch has been, or will be.
Behind(i) ==
  i \in break_items
    \/ (busy /\ i \in InBatch /\ (i \in released \/ i \in Pause \/ break_event))

\* The batch's finite pauses that have been taken.
Past == (batch \cap Finite) \ InBatch

NumberTypes == break_start \in Int /\ pause_amount \in Int /\ resume_time \in Int
               /\ experiment_time \in Int \cup {None}

\* Pauses come with the launch.
PausesOnce ==
  /\ unused \cap Pause = {} /\ Waiting \cap Pause \subseteq launch
  /\ busy \/ Taken # {} \/ break_items # {} => incoming \cap Pause = {}

TakenBefore ==
  \A b \in Taken : \A i \in Entry \cup Pause : Behind(i) => Time[b] < Time[i]

LastTaken ==
  Taken # {} => \E b \in Taken : /\ \A c \in Taken : Time[c] <= Time[b]
                                 /\ break_start = BreakFrom(Time[b])

\* Nothing is held back, or was, without a break.
SomeTaken ==
  /\ break_items # {} \/ found_break \/ (busy /\ released # {}) => Taken # {}
  /\ busy /\ break_event => Taken # {}

\* Until a break is met the batch has all that was held back, or none of the pauses.
AllReleased ==
  busy /\ ~break_event =>
    /\ released # {} \/ InBatch \cap Pause # {} => break_items = {}
    /\ Taken # {} => batch \cap Pause \subseteq released

\* The resume that released the batch has been taken, or comes first.
Resumed ==
  busy /\ ~break_event /\ released # {} => (resume /\ ~found_break) \/ FreshResumeWaits

PastPauses ==
  busy /\ ~break_event /\ released # {} =>
    /\ IsFiniteSet(Past) /\ pause_amount = Total(Past)
    /\ \A p \in Past : \A i \in InBatch : Time[p] <= Time[i]
    /\ \A b \in Taken : \A p \in Past : Time[b] < Time[p]

ShiftInv ==
  NumberTypes /\ PausesOnce /\ TakenBefore /\ LastTaken /\ SomeTaken /\ AllReleased /\ Resumed
  /\ PastPauses

LEMMA KindsApart ==
  /\ \A i \in Entry : i \notin Pause /\ i \notin Resume
  /\ \A p \in Pause : p \notin Resume /\ p \notin Entry
  /\ Breaks \subseteq Pause /\ Pause \subseteq Item /\ Entry \subseteq Item /\ Resume \subseteq Item
  /\ \A r \in Resume : r \notin Breaks
  BY ItemAssumption DEF Breaks, Item

LEMMA ShiftInit == Init => ShiftInv
<1>. SUFFICES ASSUME Init PROVE ShiftInv
  OBVIOUS
<1>1. NumberTypes /\ break_items = {} /\ ~busy /\ ~found_break /\ incoming = launch /\ InBatch = {}
      /\ released = {}
  BY DEF Init, NumberTypes, InBatch
<1>2. Taken = {}
  BY <1>1 DEF Taken, Waiting
<1>3. PausesOnce
  BY <1>1, <1>2, KindsApart, ItemAssumption DEF Init, PausesOnce, Waiting, Item
<1>. QED
  BY <1>1, <1>2, <1>3
  DEF ShiftInv, TakenBefore, LastTaken, SomeTaken, AllReleased, Resumed, PastPauses

\* The environment and the end of a batch.
LEMMA ShiftAdd == ASSUME ShiftInv, PlacesInv, NEW j \in Item, Add(j) PROVE ShiftInv'
<1>1. /\ j \in unused /\ incoming' = incoming \cup {j} /\ unused' = unused \ {j}
      /\ UNCHANGED <<launch, experiment_time, busy, batch, released, start_time, renewed,
                     break_items, found_break, break_start, temp_q, break_event,
                     pause_amount, resume, resume_time, prior_q>>
  BY DEF Add, break, loop
<1>2. j \notin Pause /\ j \notin Breaks
  BY <1>1, KindsApart DEF ShiftInv, PausesOnce
<1>3. /\ InBatch' = InBatch /\ Waiting' = Waiting \cup {j} /\ Past' = Past
      /\ FreshResumeWaits' = FreshResumeWaits
  BY <1>1 DEF InBatch, Waiting, Past, FreshResumeWaits
<1>4. Taken' = Taken
  BY <1>1, <1>2, <1>3 DEF Taken
<1>5. \A i : Behind(i)' = Behind(i)
  BY <1>1, <1>3 DEF Behind
<1>. QED
  BY <1>1, <1>2, <1>3, <1>4, <1>5
  DEF ShiftInv, NumberTypes, PausesOnce, TakenBefore, LastTaken, SomeTaken, AllReleased,
      Resumed, PastPauses

LEMMA ShiftIdle ==
  ASSUME ShiftInv, Tick \/ Release \/ UNCHANGED vars PROVE ShiftInv'
<1>1. /\ UNCHANGED <<launch, incoming, unused, batch, released, renewed, break_items,
                     found_break, break_start, temp_q, break_event, pause_amount, resume,
                     resume_time>>
      /\ busy' = busy \/ busy' = FALSE
  BY DEF Tick, Release, vars, file, break, loop
<1>2. experiment_time' \in Int \cup {None}
  BY ItemAssumption DEF ShiftInv, NumberTypes, Tick, Release, vars, file
<1>3. /\ InBatch' = InBatch /\ Waiting' = Waiting /\ Past' = Past
      /\ FreshResumeWaits' = FreshResumeWaits
  BY <1>1 DEF InBatch, Waiting, Past, FreshResumeWaits
<1>4. Taken' = Taken
  BY <1>1, <1>3 DEF Taken
<1>5. \A i : Behind(i)' => Behind(i)
  BY <1>1, <1>3 DEF Behind
<1>. QED
  BY <1>1, <1>2, <1>3, <1>4, <1>5
  DEF ShiftInv, NumberTypes, PausesOnce, TakenBefore, LastTaken, SomeTaken, AllReleased,
      Resumed, PastPauses

\* A batch that brings back what was held has a resume that comes before the rest.
LEMMA ReleaseHasResume ==
  ASSUME PlacesInv, Fetch, released' # {} PROVE FreshResumeWaits'
<1>1. /\ incoming \cap Resume # {} /\ released' \subseteq break_items
      /\ batch' = incoming \cup released'
      /\ temp_q' = {<<start_time[i], i>> : i \in batch'}
      /\ renewed' = renewed \cup (released' \cap Resume)
  BY DEF Fetch, BroughtBack
<1>2. PICK r \in Resume : r \in incoming
  BY <1>1
<1>3. r \notin renewed' /\ r \in batch'
  BY <1>1, <1>2 DEF PlacesInv, RenewedGone, Apart
<1>4. start_time[r] = NegInf
  BY <1>2, ItemAssumption DEF PlacesInv, TimesKept
<1>. QED BY <1>1, <1>2, <1>3, <1>4 DEF FreshResumeWaits

LEMMA ShiftFetch == ASSUME ShiftInv, PlacesInv, Fetch PROVE ShiftInv'
<1>1. /\ ~busy /\ busy' = TRUE /\ break_event' = FALSE
      /\ released' \in {{}, break_items} /\ batch' = incoming \cup released'
      /\ break_items' = break_items \ released' /\ incoming' = {}
      /\ pause_amount' = 0 /\ resume_time' = 0
      /\ UNCHANGED <<launch, unused, found_break, break_start, experiment_time>>
  BY DEF Fetch, BroughtBack
<1>2. InBatch = {} /\ InBatch' = batch'
  BY <1>1, FetchedQueue DEF PlacesInv, PlacesTypes, InBatch
<1>3. Waiting' = Waiting /\ Taken' = Taken
  BY <1>1, <1>2 DEF Waiting, Taken
<1>4. NumberTypes' /\ PausesOnce'
  BY <1>1, <1>3 DEF ShiftInv, NumberTypes, PausesOnce
<1>5. Taken # {} => batch' \cap Pause \subseteq released'
  BY <1>1 DEF ShiftInv, PausesOnce
<1>6. TakenBefore'
  <2>1. ASSUME NEW i \in Entry \cup Pause, Taken # {}, Behind(i)' PROVE Behind(i)
    BY <1>1, <1>2, <1>5, <2>1 DEF Behind
  <2>. QED BY <1>3, <2>1 DEF ShiftInv, TakenBefore
<1>7. LastTaken' /\ SomeTaken'
  BY <1>1, <1>3 DEF ShiftInv, LastTaken, SomeTaken
<1>8. AllReleased'
  BY <1>1, <1>2, <1>3, <1>5 DEF ShiftInv, PausesOnce, AllReleased
<1>9. Resumed'
  BY ReleaseHasResume DEF Resumed
<1>10. PastPauses'
  <2>1. Past' = {}
    BY <1>2 DEF Past
  <2>. QED BY <1>1, <2>1, TotalOfNone, FS_EmptySet DEF PastPauses
<1>. QED BY <1>4, <1>6, <1>7, <1>8, <1>9, <1>10 DEF ShiftInv

LEMMA ShiftHold ==
  ASSUME ShiftInv, PlacesInv, BreakInv, NEW q \in temp_q, Hold(q) PROVE ShiftInv'
<1>1. /\ break_event /\ busy /\ break_items' = break_items \cup {q[2]}
      /\ UNCHANGED <<launch, incoming, unused, batch, released, renewed, busy, found_break,
                     break_start, break_event, pause_amount, resume_time, experiment_time>>
  BY DEF Hold, Held, Takes, file
<1>2. q[2] \in InBatch /\ InBatch' = InBatch \ {q[2]}
  BY TakenFromQueue DEF Hold
<1>3. Waiting' = Waiting /\ Taken' = Taken
  BY <1>1, <1>2 DEF Waiting, Taken
<1>4. \A i : Behind(i)' => Behind(i)
  BY <1>1, <1>2 DEF Behind
<1>5. Taken # {}
  BY <1>1 DEF ShiftInv, SomeTaken
<1>. QED
  BY <1>1, <1>3, <1>4, <1>5
  DEF ShiftInv, NumberTypes, PausesOnce, TakenBefore, LastTaken, SomeTaken, AllReleased,
      Resumed, PastPauses

\* What a step that takes an item from the batch does to the rest, if the item is
\* not a break that takes effect.
LEMMA TakenItem ==
  ASSUME PlacesInv, BreakInv, NEW q \in temp_q, Takes(q), break_items' = break_items
  PROVE  /\ busy /\ q[2] \in Item /\ q[2] \in InBatch /\ q[2] \in batch
         /\ InBatch' = InBatch \ {q[2]} /\ Waiting' = Waiting \ {q[2]}
         /\ q[2] \notin Breaks => Taken' = Taken
         /\ q[2] \in Breaks \cap launch => Taken' = Taken \cup {q[2]}
         /\ break_event' = break_event => \A i : Behind(i)' => Behind(i)
         /\ \A i \in InBatch : Time[q[2]] <= Time[i]
         /\ UNCHANGED <<launch, incoming, unused, batch, released, renewed, busy, experiment_time>>
<1>1. /\ busy
      /\ UNCHANGED <<launch, incoming, unused, batch, released, renewed, busy, experiment_time>>
  BY DEF Takes, file
<1>2. /\ q[2] \in Item /\ q[2] \in InBatch /\ q[2] \in batch /\ InBatch' = InBatch \ {q[2]}
      /\ \A i \in InBatch : Time[q[2]] <= Time[i]
  BY <1>1, TakenFromQueue, TakenIsEarliest DEF BreakInv, BreaksOnce
<1>3. Waiting' = Waiting \ {q[2]}
  BY <1>1, <1>2 DEF Waiting, PlacesInv, Apart
<1>4. /\ q[2] \notin Breaks => Taken' = Taken
      /\ q[2] \in Breaks \cap launch => Taken' = Taken \cup {q[2]}
  BY <1>1, <1>3 DEF Taken
<1>5. break_event' = break_event => \A i : Behind(i)' => Behind(i)
  BY <1>1, <1>2 DEF Behind
<1>. QED BY <1>1, <1>2, <1>3, <1>4, <1>5

\* The resume comes first, also when other resumes, and entries, are taken.
LEMMA ResumeStillWaits ==
  ASSUME FreshResumeWaits, NEW q \in temp_q, Takes(q), ~IsResume(q[2])
  PROVE  FreshResumeWaits'
<1>1. temp_q' = temp_q \ {q} /\ renewed' = renewed
  BY DEF Takes
<1>2. PICK r \in Resume \ renewed : <<NegInf, r>> \in temp_q
  BY DEF FreshResumeWaits
<1>3. <<NegInf, r>>[2] = r /\ q[2] # r
  BY <1>2 DEF IsResume
<1>. QED BY <1>1, <1>2, <1>3 DEF FreshResumeWaits

LEMMA ShiftPause ==
  ASSUME DistinctTimes, ShiftInv, PlacesInv, BreakInv, NEW q \in temp_q, TakePause(q)
  PROVE  ShiftInv'
<1>. DEFINE p == q[2]
<1>1. /\ p \in Pause /\ ~found_break /\ ~break_event /\ Takes(q) /\ ~IsResume(p)
      /\ UNCHANGED <<break_items, resume_time>>
  BY KindsApart DEF TakePause, IsPause, IsResume
<1>2. /\ busy /\ p \in InBatch /\ p \in batch /\ InBatch' = InBatch \ {p}
      /\ Waiting' = Waiting \ {p}
      /\ p \notin Breaks => Taken' = Taken
      /\ p \in Breaks \cap launch => Taken' = Taken \cup {p}
      /\ break_event' = break_event => \A i : Behind(i)' => Behind(i)
      /\ \A i \in InBatch : Time[p] <= Time[i]
      /\ UNCHANGED <<launch, incoming, unused, batch, released, renewed, busy, experiment_time>>
  BY <1>1, TakenItem
<1>3. break_items = {} /\ p \in launch /\ incoming \cap Pause = {} /\ Behind(p)
  BY <1>1, <1>2 DEF ShiftInv, AllReleased, PausesOnce, Waiting, Behind
<1>4. \A b \in Taken : Time[b] < Time[p]
  BY <1>1, <1>3 DEF ShiftInv, TakenBefore
<1>5. PausesOnce'
  BY <1>1, <1>2, <1>3 DEF ShiftInv, PausesOnce
<1>6. CASE Duration[p] = Endless
  <2>1. /\ found_break' = TRUE /\ break_event' = TRUE /\ break_start' = BreakFrom(Time[p])
        /\ pause_amount' = pause_amount
    <3>1. q[1] = Time[p]
      BY <1>1, TakenFromQueue
    <3>. QED BY <1>6, <3>1 DEF TakePause
  <2>2. p \in Breaks /\ Taken' = Taken \cup {p}
    BY <1>1, <1>2, <1>3, <1>6 DEF Breaks
  <2>3. NumberTypes'
    BY <1>1, <1>2, <2>1, KindsApart, ItemAssumption DEF ShiftInv, NumberTypes, BreakFrom
  <2>4. TakenBefore'
    <3>1. SUFFICES ASSUME NEW b \in Taken', NEW i \in Entry \cup Pause, Behind(i)'
                   PROVE  Time[b] < Time[i]
      BY DEF TakenBefore
    <3>2. i \in InBatch /\ i # p /\ i \in Item
      BY <1>1, <1>2, <1>3, <3>1, KindsApart DEF Behind
    <3>3. Time[p] < Time[i]
      BY <1>1, <1>2, <3>1, <3>2, LeastTime, KindsApart DEF DistinctTimes
    <3>4. b = p \/ Time[b] < Time[p]
      BY <1>4, <2>2, <3>1
    <3>5. Time[b] \in Int /\ Time[p] \in Int /\ Time[i] \in Int
      BY <1>1, <3>1, <3>2, LeastTime, KindsApart DEF Taken
    <3>. QED BY <3>3, <3>4, <3>5
  <2>5. LastTaken'
    <3>1. \A c \in Taken' : Time[c] <= Time[p]
      BY <1>1, <1>4, <2>2, LeastTime, KindsApart DEF Taken
    <3>2. p \in Taken'
      BY <2>2
    <3>. QED BY <2>1, <3>1, <3>2 DEF LastTaken
  <2>6. SomeTaken'
    BY <2>2 DEF SomeTaken
  <2>. QED BY <1>5, <2>1, <2>3, <2>4, <2>5, <2>6 DEF ShiftInv, AllReleased, Resumed, PastPauses
<1>7. CASE Duration[p] # Endless
  <2>1. /\ UNCHANGED <<found_break, break_event, resume, break_start>>
        /\ pause_amount' = pause_amount + Duration[p]
    BY <1>7 DEF TakePause, Paused
  <2>2. p \in Finite /\ p \notin Breaks /\ Duration[p] \in Int
    BY <1>1, <1>7, ItemAssumption DEF Finite, Breaks
  <2>3. Taken' = Taken /\ \A i : Behind(i)' => Behind(i)
    BY <1>2, <2>1, <2>2
  <2>4. NumberTypes'
    BY <1>1, <1>2, <2>1, <2>2 DEF ShiftInv, NumberTypes
  <2>5. TakenBefore' /\ LastTaken' /\ SomeTaken' /\ AllReleased'
    BY <1>1, <1>2, <2>1, <2>3 DEF ShiftInv, TakenBefore, LastTaken, SomeTaken, AllReleased
  <2>6. Resumed'
    BY <1>1, <1>2, <2>1, ResumeStillWaits DEF ShiftInv, Resumed
  <2>7. PastPauses'
    <3>1. SUFFICES ASSUME released # {} PROVE PastPauses'
      BY <1>2 DEF PastPauses
    <3>2. /\ IsFiniteSet(Past) /\ pause_amount = Total(Past)
          /\ \A c \in Past : \A i \in InBatch : Time[c] <= Time[i]
          /\ \A b \in Taken : \A c \in Past : Time[b] < Time[c]
      BY <1>1, <1>2, <3>1 DEF ShiftInv, PastPauses
    <3>3. Past' = Past \cup {p} /\ Past \in SUBSET Finite /\ p \in Finite \ Past
      BY <1>2, <2>2 DEF Past
    <3>4. IsFiniteSet(Past') /\ pause_amount' = Total(Past')
      <4>. DEFINE S == Past
      <4>1. /\ IsFiniteSet(S \cup {p}) /\ Total(S \cup {p}) = Total(S) + Duration[p]
        BY <3>2, <3>3, TotalOfOneMore
      <4>. HIDE DEF S
      <4>2. Past' = S \cup {p} /\ pause_amount = Total(S)
        BY <3>2, <3>3 DEF S
      <4>. QED BY <2>1, <4>1, <4>2
    <3>5. \A c \in Past' : \A i \in InBatch' : Time[c] <= Time[i]
      BY <1>2, <3>2, <3>3
    <3>6. \A b \in Taken' : \A c \in Past' : Time[b] < Time[c]
      BY <1>4, <2>3, <3>2, <3>3
    <3>. QED BY <3>4, <3>5, <3>6 DEF PastPauses
  <2>. QED BY <1>5, <2>4, <2>5, <2>6, <2>7 DEF ShiftInv
<1>. QED BY <1>6, <1>7

LEMMA ShiftResume ==
  ASSUME ShiftInv, PlacesInv, BreakInv, NEW q \in temp_q, TakeResume(q) PROVE ShiftInv'
<1>1. /\ Takes(q) /\ ~break_event /\ break_event' = break_event /\ q[2] \in Resume
      /\ resume' = TRUE /\ found_break' = FALSE /\ resume_time' = TimeSinceStart
      /\ UNCHANGED <<break_items, break_start, pause_amount>>
  BY DEF TakeResume, IsResume, BreakInv, FlagTypes
<1>2. /\ busy /\ InBatch' = InBatch \ {q[2]} /\ Waiting' = Waiting \ {q[2]}
      /\ Taken' = Taken /\ \A i : Behind(i)' => Behind(i)
      /\ UNCHANGED <<launch, incoming, unused, batch, released, renewed, busy, experiment_time>>
  BY <1>1, TakenItem, KindsApart
<1>3. Past' = Past
  BY <1>1, <1>2, KindsApart DEF Past, Finite
<1>4. NumberTypes'
  BY <1>1, <1>2, ItemAssumption DEF ShiftInv, NumberTypes, TimeSinceStart
<1>5. PausesOnce' /\ TakenBefore' /\ LastTaken' /\ SomeTaken' /\ AllReleased' /\ Resumed'
  BY <1>1, <1>2
  DEF ShiftInv, PausesOnce, TakenBefore, LastTaken, SomeTaken, AllReleased, Resumed
<1>6. PastPauses'
  BY <1>1, <1>2, <1>3 DEF ShiftInv, PastPauses
<1>. QED BY <1>4, <1>5, <1>6 DEF ShiftInv

\* In a batch that was released, what is not at -inf comes after the resume.
LEMMA AfterTheResume ==
  ASSUME ShiftInv, PlacesInv, NEW q \in temp_q, Takes(q), ~break_event, released # {},
         q[2] \in Entry \cup Pause, Time[q[2]] # NegInf
  PROVE  resume /\ ~found_break
<1>1. SUFFICES ASSUME FreshResumeWaits PROVE FALSE
  BY DEF ShiftInv, Resumed, Takes
<1>2. PICK r \in Resume : <<NegInf, r>> \in temp_q
  BY <1>1 DEF FreshResumeWaits
<1>3. Time[q[2]] <= NegInf
  BY <1>2, TakenIsEarliest
<1>. QED BY <1>3, LeastTime, KindsApart

LEMMA ShiftOther ==
  ASSUME ShiftInv, PlacesInv, BreakInv, NEW q \in temp_q, TakeOther(q) PROVE ShiftInv'
<1>1. /\ Takes(q) /\ ~break_event /\ ~IsPause(q[2]) /\ ~IsResume(q[2])
      /\ UNCHANGED <<break_items, found_break, break_start, break_event, pause_amount,
                     resume, resume_time>>
  BY DEF TakeOther, break
<1>2. /\ busy /\ q[2] \in InBatch /\ InBatch' = InBatch \ {q[2]} /\ q[2] \in batch
      /\ Waiting' = Waiting \ {q[2]}
      /\ q[2] \notin Breaks => Taken' = Taken
      /\ \A i : Behind(i)' => Behind(i)
      /\ UNCHANGED <<launch, incoming, unused, batch, released, renewed, busy, experiment_time>>
  BY <1>1, TakenItem
<1>3. q[2] \notin Pause
  <2>1. SUFFICES ASSUME q[2] \in Pause PROVE FALSE
    OBVIOUS
  <2>2. found_break /\ Taken # {} /\ Behind(q[2])
    BY <1>1, <1>2, <2>1 DEF IsPause, ShiftInv, SomeTaken, Behind
  <2>3. released # {}
    BY <1>1, <1>2, <2>1, <2>2 DEF ShiftInv, AllReleased
  <2>4. PICK b \in Taken : Time[b] < Time[q[2]]
    BY <2>1, <2>2 DEF ShiftInv, TakenBefore
  <2>5. Time[q[2]] # NegInf
    BY <2>1, <2>4, LeastTime, KindsApart DEF Taken
  <2>. QED BY <1>1, <2>1, <2>2, <2>3, <2>5, AfterTheResume
<1>4. Taken' = Taken /\ Past' = Past
  BY <1>2, <1>3, KindsApart DEF Past, Finite
<1>5. Resumed'
  BY <1>1, <1>2, ResumeStillWaits DEF ShiftInv, Resumed
<1>6. NumberTypes' /\ PausesOnce' /\ TakenBefore' /\ LastTaken' /\ SomeTaken' /\ AllReleased'
  BY <1>1, <1>2, <1>4
  DEF ShiftInv, NumberTypes, PausesOnce, TakenBefore, LastTaken, SomeTaken, AllReleased
<1>7. PastPauses'
  BY <1>1, <1>2, <1>4 DEF ShiftInv, PastPauses
<1>. QED BY <1>5, <1>6, <1>7 DEF ShiftInv

LEMMA ShiftStep ==
  ASSUME DistinctTimes PROVE ShiftInv /\ PlacesInv /\ BreakInv /\ [Next]_vars => ShiftInv'
  BY ShiftAdd, ShiftIdle, ShiftFetch, ShiftHold, ShiftPause, ShiftResume, ShiftOther DEF Next

\* One pair with e is put in the queue: what the entry is queued at.
LEMMA TimeOfQueued ==
  ASSUME NEW e, NEW t, ~Queued(e), prior_q' = prior_q \cup {<<t, e>>}
  PROVE  QueuedAt(e) = t
<1>. DEFINE pair == <<t, e>>
            Q == prior_q'
<1>1. pair \in Q /\ pair[2] = e /\ pair[1] = t
  OBVIOUS
<1>2. \A q \in Q : q[2] = e => q = pair
  BY DEF Queued
<1>. HIDE DEF pair, Q
<1>3. (CHOOSE q \in Q : q[2] = e) = pair
  BY <1>1, <1>2
<1>. QED BY <1>1, <1>3 DEF QueuedAt, Q

\* The breaks before an entry that was released and is queued are those that have
\* been on, and the pauses since the last of them those of the batch that have
\* been taken.
LEMMA ReleasedEntry ==
  ASSUME DistinctTimes, ShiftInv, PlacesInv, BreakInv, [Next]_vars,
         NEW e \in Entry \cap released, Queuing(e)
  PROVE  LET t == Time[BreakOf(e)]
         IN  QueuedAt(e) = Time[e] - (IF t = NegInf THEN 0 ELSE t) + resume_time
                             + PausedBetween(t, Time[e])
<1>1. PICK q \in temp_q : TakeOther(q)
  <2>1. prior_q' # prior_q
    BY DEF Queuing, Queued
  <2>. QED BY <2>1 DEF Next, Add, Tick, Fetch, Hold, TakePause, TakeResume, Release, vars
<1>2. prior_q' = prior_q \cup {<<Shift(q[1], Later), q[2]>>} /\ ~break_event /\ Takes(q)
      /\ break_items' = break_items
  BY <1>1 DEF TakeOther, break
<1>3. q[2] = e
  <2>1. PICK r \in prior_q' : r[2] = e
    BY DEF Queuing
  <2>2. r \notin prior_q
    BY <2>1 DEF Queuing, Queued
  <2>. QED BY <1>2, <2>1, <2>2
<1>4. /\ busy /\ e \in InBatch /\ released # {} /\ q[1] = Time[e]
      /\ \A i \in InBatch : Time[e] <= Time[i]
  BY <1>2, <1>3, TakenItem, TakenFromQueue
<1>5. Time[e] # NegInf /\ Time[e] \in Int
  BY ItemAssumption, LeastTime, KindsApart
<1>6. resume /\ Taken # {} /\ break_items = {} /\ incoming \cap Pause = {} /\ Behind(e)
  BY <1>2, <1>3, <1>4, <1>5, AfterTheResume
  DEF ShiftInv, SomeTaken, AllReleased, PausesOnce, Behind
<1>7. PICK b \in Taken : (\A c \in Taken : Time[c] <= Time[b]) /\ break_start = BreakFrom(Time[b])
  BY <1>6 DEF ShiftInv, LastTaken
<1>8. BreaksBefore(e) = Taken
  <2>1. ASSUME NEW c \in Breaks \cap launch, Time[c] < Time[e] PROVE c \in Taken
    BY <1>4, <1>5, <1>6, <2>1, LeastTime, KindsApart DEF Taken, Waiting
  <2>2. ASSUME NEW c \in Taken PROVE Time[c] < Time[e]
    BY <1>6 DEF ShiftInv, TakenBefore
  <2>. QED BY <2>1, <2>2 DEF BreaksBefore, Taken
<1>9. BreakOf(e) \in Taken /\ \A c \in Taken : Time[c] <= Time[BreakOf(e)]
  BY <1>7, <1>8 DEF BreakOf
<1>10. Time[BreakOf(e)] = Time[b] /\ Time[b] \in Int
  BY <1>7, <1>9, LeastTime, KindsApart DEF Taken
<1>11. /\ pause_amount = Total(Past)
       /\ \A p \in Past : \A i \in InBatch : Time[p] <= Time[i]
       /\ \A p \in Past : Time[b] < Time[p]
  BY <1>2, <1>4, <1>7 DEF ShiftInv, PastPauses
<1>12. {p \in batch \cap (Pause \ Breaks) : Time[b] < Time[p] /\ Time[p] < Time[e]} = Past
  <2>1. ASSUME NEW p \in Past PROVE Time[p] < Time[e]
    <3>1. p \in Pause /\ Time[p] <= Time[e] /\ Time[p] # Time[e]
      BY <1>4, <1>11, KindsApart DEF Past, Finite, DistinctTimes
    <3>. QED BY <1>5, <3>1, LeastTime, KindsApart
  <2>2. ASSUME NEW p \in batch \cap (Pause \ Breaks), Time[p] < Time[e] PROVE p \in Past
    BY <1>4, <1>5, <2>2, LeastTime, KindsApart DEF Past, Finite
  <2>. QED BY <1>11, <2>1, <2>2 DEF Past, Finite
<1>13. PausedBetween(Time[b], Time[e]) = pause_amount
  BY <1>11, <1>12 DEF PausedBetween, Total
<1>14. QueuedAt(e) = Shift(Time[e], Later)
  BY <1>2, <1>3, <1>4, TimeOfQueued DEF Queuing
<1>15. Shift(Time[e], Later) = Time[e] + (pause_amount + (resume_time - break_start))
  BY <1>5, <1>6 DEF Shift, Later
<1>16. break_start \in Int /\ pause_amount \in Int /\ resume_time \in Int
  BY DEF ShiftInv, NumberTypes
<1>17. break_start = IF Time[b] = NegInf THEN 0 ELSE Time[b]
  BY <1>7 DEF BreakFrom
<1>18. QueuedAt(e) = Time[e] - break_start + resume_time + pause_amount
  BY <1>5, <1>14, <1>15, <1>16
<1>. QED BY <1>10, <1>13, <1>17, <1>18

\* For any schedule in which no pause has the time of another pause or of an entry:
\* what was held back is queued at the documented time, however many breaks, pauses
\* and resumes there were, and in whatever order (ScheduleUpdater._run).
THEOREM ResumesAreOnTime == ASSUME DistinctTimes PROVE Spec => ResumeFormula
<1>1. OneBreakAtStart
  BY ItemAssumption DEF DistinctTimes, OneBreakAtStart, Breaks
<1>2. Spec => [](PlacesInv /\ BreakInv)
  BY <1>1, BreakInvariant
<1>3. ShiftInv /\ PlacesInv /\ BreakInv /\ [Next]_vars
        => [\A e \in Entry \cap released :
              Queuing(e) =>
                LET t == Time[BreakOf(e)]
                IN  QueuedAt(e) = Time[e] - (IF t = NegInf THEN 0 ELSE t) + resume_time
                                    + PausedBetween(t, Time[e])]_vars
  BY ReleasedEntry
<1>4. ShiftInv /\ PlacesInv /\ BreakInv /\ [Next]_vars => ShiftInv'
  BY ShiftStep
<1>. QED BY <1>2, <1>3, <1>4, ShiftInit, PTL DEF Spec, ResumeFormula

================================================================================
