------------------------------- MODULE PathWorkers -------------------------------
(***************************************************************************)
(* filtered_all_pairs_shortest_path of control/experiment_graph.py: the    *)
(* main process puts the filtered sources into a queue, worker processes   *)
(* take them and answer with a path for every destination the filter lets  *)
(* through, and the main process hands the paths to path_action until it   *)
(* has seen one STOP of every worker.                                      *)
(***************************************************************************)
EXTENDS Naturals, Sequences, FiniteSets

CONSTANTS
  Vertex,
  Reach,            \* vertex -> the vertices a path leads to, itself included
  Filters,          \* filters to search with: functions from a vertex to
                    \* "true", "truthy" (a value that is not True), "false"
                    \* or "raises"
  Worker,           \* the num_workers processes, at least one
  STOP

\* Paths lead to vertices of the graph, and what ends the queues is no vertex
\* and no pair of vertices.
ASSUME SearchAssumption ==
  /\ IsFiniteSet(Worker) /\ Worker # {}
  /\ Reach \in [Vertex -> SUBSET Vertex]
  /\ STOP \notin Vertex \cup (Vertex \X Vertex)

VARIABLES
  filter,           \* vertex_filter
  phase,            \* of the caller: "feeding", "collecting", "joining",
                    \* "returned", "raised"
  unseen,           \* the vertices the filter has not been asked for yet
  sampled,          \* history: the sources chosen (all, or a random sample)
  source_queue,
  path_queue,       \* worker -> what it has put and the caller has not taken
                    \* (the queue keeps the order of one process only)
  worker,           \* worker -> [at, source, left]
  ends,             \* the STOPs the caller has taken
  reported          \* <<source, destination>> -> calls of path_action

searchVars == <<filter, phase, unseen, sampled, source_queue, path_queue, worker, ends,
                reported>>

Idle == [at |-> "idle", source |-> STOP, left |-> {}]

SearchInit ==
  /\ filter \in Filters
  /\ phase = "feeding"
  /\ unseen = Vertex
  /\ sampled = {}
  /\ source_queue = << >>
  /\ path_queue = [w \in Worker |-> << >>]
  /\ worker = [w \in Worker |-> Idle]
  /\ ends = 0
  /\ reported = [p \in Vertex \X Vertex |-> 0]

\* filter() takes what is true of a source; a destination must be `True`.
IsSource(v) == filter[v] \in {"true", "truthy"}
IsDestination(v) == filter[v] = "true"

-----------------------------------------------------------------------------
(* The caller *)

\* The next vertex, in the graph's order, is a source, and sampled, or is not.
Feed(v) ==
  /\ phase = "feeding"
  /\ filter[v] # "raises"
  /\ unseen' = unseen \ {v}
  /\ \/ /\ IsSource(v)
        /\ sampled' = sampled \cup {v}
        /\ source_queue' = Append(source_queue, v)
     \/ UNCHANGED <<sampled, source_queue>>
  /\ UNCHANGED <<phase, path_queue, worker, ends, reported>>

\* The exception leaves the search; the workers are not told.
FeedRaises(v) ==
  /\ phase = "feeding"
  /\ filter[v] = "raises"
  /\ phase' = "raised"
  /\ UNCHANGED <<unseen, sampled, source_queue, path_queue, worker, ends, reported>>

FeedNext == \E v \in unseen : Feed(v) \/ FeedRaises(v)

\* Mutant: one STOP for all the workers.
OneStop == <<STOP>>

Stops == [n \in 1..Cardinality(Worker) |-> STOP]

FeedStops ==
  /\ phase = "feeding"
  /\ unseen = {}
  /\ source_queue' = source_queue \o Stops
  /\ phase' = "collecting"
  /\ UNCHANGED <<unseen, sampled, path_queue, worker, ends, reported>>

\* Mutant: the collection ends with the first STOP.
AnyEnded == ends >= 1

AllEnded == ends = Cardinality(Worker)

Collect(w) ==
  /\ phase = "collecting"
  /\ ~AllEnded
  /\ path_queue[w] # << >>
  /\ path_queue' = [path_queue EXCEPT ![w] = Tail(@)]
  /\ IF Head(path_queue[w]) = STOP
     THEN ends' = ends + 1 /\ UNCHANGED reported
     ELSE reported' = [reported EXCEPT ![Head(path_queue[w])] = @ + 1] /\ UNCHANGED ends
  /\ UNCHANGED <<phase, unseen, sampled, source_queue, worker>>

\* join() of the workers, one after another; they have put their STOP.
Join ==
  /\ phase = "collecting" /\ AllEnded
  /\ \A w \in Worker : worker[w].at = "ended"
  /\ phase' = "returned"
  /\ UNCHANGED <<unseen, sampled, source_queue, path_queue, worker, ends, reported>>

-----------------------------------------------------------------------------
(* A worker: do_source *)

Take(w) ==
  /\ worker[w].at = "idle"
  /\ source_queue # << >>
  /\ source_queue' = Tail(source_queue)
  /\ LET source == Head(source_queue)
     IN  IF source = STOP
         THEN /\ worker' = [worker EXCEPT ![w].at = "ended"]
              /\ path_queue' = [path_queue EXCEPT ![w] = Append(@, STOP)]
         ELSE /\ worker' = [worker EXCEPT ![w] =
                              [at |-> "paths", source |-> source, left |-> Reach[source]]]
              /\ UNCHANGED path_queue
  /\ UNCHANGED <<phase, unseen, sampled, ends, reported>>

\* The filter is asked for the next destination; when it raises, the process
\* is gone, and no STOP of it will come.
Answer(w) ==
  /\ worker[w].at = "paths"
  /\ \E d \in worker[w].left :
       IF filter[d] = "raises"
       THEN /\ worker' = [worker EXCEPT ![w].at = "gone"]
            /\ UNCHANGED path_queue
       ELSE /\ worker' = [worker EXCEPT ![w].left = @ \ {d}]
            /\ path_queue' =
                 [path_queue EXCEPT ![w] =
                    @ \o IF IsDestination(d) THEN <<<<worker[w].source, d>>>> ELSE << >>]
  /\ UNCHANGED <<phase, unseen, sampled, source_queue, ends, reported>>

SourceDone(w) ==
  /\ worker[w].at = "paths" /\ worker[w].left = {}
  /\ worker' = [worker EXCEPT ![w] = Idle]
  /\ UNCHANGED <<phase, unseen, sampled, source_queue, path_queue, ends, reported>>

WorkerStep(w) == Take(w) \/ Answer(w) \/ SourceDone(w)

-----------------------------------------------------------------------------

Caller == FeedNext \/ FeedStops \/ (\E w \in Worker : Collect(w)) \/ Join

SearchNext == (Caller \/ \E w \in Worker : WorkerStep(w)) /\ UNCHANGED filter

SearchSpec == SearchInit /\ [][SearchNext]_searchVars

-----------------------------------------------------------------------------
(* Correctness *)

\* The pairs the search without workers reports for these sources
\* (_single_process_all_pairs_shortest_path).
Wanted == {p \in Vertex \X Vertex :
             p[1] \in sampled /\ p[2] \in Reach[p[1]] /\ IsDestination(p[2])}

\* When the search returns, path_action has had exactly the pairs the search
\* without workers would have reported for the sources, each of them once.
EveryPairOnce ==
  phase = "returned" =>
    \A p \in DOMAIN reported : reported[p] = IF p \in Wanted THEN 1 ELSE 0

\* The search ends: it returns, unless the filter raises, in the caller or in
\* a worker (then the caller waits for ever for the STOP of that worker).
SearchEnds ==
  <>(phase \in {"returned", "raised"} \/ \E w \in Worker : worker[w].at = "gone")
=============================================================================
