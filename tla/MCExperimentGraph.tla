---------------------------- MODULE MCExperimentGraph ----------------------------
(***************************************************************************)
(* The three machines of experiment_graph.py for TLC.  They share no state *)
(* and no model component runs two of them at once, so each is explored by *)
(* itself: `part`, chosen at the start, says which.                        *)
(***************************************************************************)
EXTENDS ExperimentGraph, VertexDecoration, PathWorkers

VARIABLE part

-----------------------------------------------------------------------------
(* Two vertices are decorated with four classes.  A router requires a VM   *)
(* and a host, a host a VM; two hosts have the same class name; two        *)
(* classes bring "start", three "boot", and one "delete", a vertex's own;  *)
(* "up" is a second name of the method "boot"; a vertex assigns its "name" *)
(* after it has looked at its own entries, a VM assigns it too, and a host *)
(* brings it; a router assigns "start", which others bring.                *)

MCClassName == [c \in Class |-> IF c = "Host2" THEN "Host" ELSE c]
MCEntries == [c \in Class |-> CASE c = "VM" -> {"start"}
                                [] c = "Host" -> {"start", "boot"}
                                [] c = "Router" -> {"boot", "delete"}
                                [] c = "Host2" -> {"boot", "up", "name"}]
MCAssigns == [c \in Class |-> CASE c = "VM" -> {"name"}
                                [] c = "Router" -> {"start"}
                                [] OTHER -> {}]
MCLabelOf == [p \in Class \X Entry |-> IF p = <<"Host2", "up">> THEN "boot" ELSE p[2]]
MCRequires == [c \in Class |-> CASE c = "Router" -> <<"VM", "Host">>
                                 [] c = "Host" -> <<"VM">>
                                 [] OTHER -> << >>]
MCMerges == [h \in Handler |-> Entry \ {"up"}]
MCDeclared == [c \in Class |-> IF c = "Router" THEN {"any"} ELSE {}]

-----------------------------------------------------------------------------
(* Two workers search a graph of two linked vertices and a third; the      *)
(* filter takes all, returns a value that is not True, or raises.          *)

FilterWith(v, answer) == [u \in Vertex |-> IF u = v THEN answer ELSE "true"]

MCReach == [v \in Vertex |-> IF v = 3 THEN {3} ELSE {1, 2}]
MCFilters == {FilterWith(3, a) : a \in {"true", "truthy", "false", "raises"}}

-----------------------------------------------------------------------------

allvars == <<part, vars, decorationVars, searchVars>>

MCInit ==
  /\ part \in {"graph", "decoration", "paths"}
  /\ Init /\ DecorationInit /\ SearchInit
  /\ part # "paths" => filter = FilterWith(3, "true")

Graph == part = "graph" /\ Next /\ UNCHANGED <<part, decorationVars, searchVars>>

Decoration ==
  part = "decoration" /\ DecorationNext /\ UNCHANGED <<part, vars, searchVars>>

InPaths(A) == part = "paths" /\ A /\ UNCHANGED <<part, filter, vars, decorationVars>>

MCNext == Graph \/ Decoration \/ InPaths(SearchNext)

\* The operating system runs every process of the search, and a blocking get
\* returns when something is in the queue.
MCSpec ==
  /\ MCInit /\ [][MCNext]_allvars
  /\ WF_allvars(InPaths(Caller))
  /\ \A w \in Worker : WF_allvars(InPaths(WorkerStep(w)))

\* A search returns or raises, or one of its workers did: see PathWorkers.
SearchesEnd == part = "paths" => SearchEnds
=============================================================================
