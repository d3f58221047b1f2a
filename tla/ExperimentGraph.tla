---------------------------- MODULE ExperimentGraph ----------------------------
(***************************************************************************)
(* The vertices and edges of an experiment (control/experiment_graph.py).  *)
(* A Vertex or Edge object is a handle that a model component keeps; the   *)
(* networkx graph keeps, for every node id and every pair of ids, the      *)
(* handle stored under "object".  A handle is unmade, valid, or no longer  *)
(* valid once its own delete() has been called.                            *)
(***************************************************************************)
EXTENDS Naturals

CONSTANTS
  VertexHandle,     \* the Vertex objects the model components may make
  EdgeHandle,       \* the Edge objects
  MaxId             \* bound: the largest node id

ASSUME MaxIdAssumption == MaxId \in Nat \ {0}

VARIABLES
  node,             \* the graph's nodes: id -> the vertex stored as "object"
  adj,              \* the graph's adjacencies: set of one or two ids -> edge
  vertex,           \* vertex handle -> [st, id]
  edge,             \* edge handle -> [st, source, destination]
  last_node_id,
  stale             \* history: a deleted vertex was deleted again, and its
                    \* id was in use by another one

vars == <<node, adj, vertex, edge, last_node_id, stale>>

Id == 1..MaxId

Unmade == [st |-> "unmade"]

Init ==
  /\ node = << >>
  /\ adj = << >>
  /\ vertex = [v \in VertexHandle |-> Unmade]
  /\ edge = [e \in EdgeHandle |-> Unmade]
  /\ last_node_id = 0
  /\ stale = FALSE

Made(h) == h.st # "unmade"
Valid(h) == h.st = "valid"

Without(f, gone) == [x \in DOMAIN f \ gone |-> f[x]]
With(f, x, y) == [z \in DOMAIN f \cup {x} |-> IF z = x THEN y ELSE f[z]]

-----------------------------------------------------------------------------
(* Vertices *)

\* Mutant: the id after the last is taken unseen.
NextIdUnseen(i) == i = last_node_id + 1

\* The id a new vertex gets when the caller names none: the one after the
\* last, or, where that is taken, the one after the largest.
NextId(i) ==
  IF last_node_id + 1 \notin DOMAIN node
  THEN i = last_node_id + 1
  ELSE /\ i - 1 \in DOMAIN node
       /\ \A j \in DOMAIN node : j < i

\* An id the caller names is refused when it is in use.
GivenId(i) == i \notin DOMAIN node

NewVertex(v) ==
  /\ ~Made(vertex[v])
  /\ \E i \in Id :
       /\ NextId(i) \/ GivenId(i)
       /\ node' = With(node, i, v)
       /\ vertex' = [vertex EXCEPT ![v] = [st |-> "valid", id |-> i]]
       /\ last_node_id' = i
  /\ UNCHANGED <<adj, edge, stale>>

\* delete() looks at the graph, never at `valid`: networkx refuses an id it
\* does not know, and takes the edges at the node away with it.
DeleteVertex(v) ==
  /\ Made(vertex[v])
  /\ vertex[v].id \in DOMAIN node
  /\ node' = Without(node, {vertex[v].id})
  /\ adj' = Without(adj, {k \in DOMAIN adj : vertex[v].id \in k})
  /\ vertex' = [vertex EXCEPT ![v].st = "invalid"]
  /\ stale' = (stale \/ ~Valid(vertex[v]))
  /\ UNCHANGED <<edge, last_node_id>>

\* What every other operation of a vertex asks first: an invalid one raises.
Usable(v) == Made(vertex[v]) /\ Valid(vertex[v])

\* Comparisons are made by id.
SameVertex(v, w) == vertex[v].id = vertex[w].id

-----------------------------------------------------------------------------
(* Edges *)

Ends(e) == {vertex[edge[e].source].id, vertex[edge[e].destination].id}

\* Mutant: whether the vertices are valid is not asked.
MayJoinDeleted(a, b) ==
  /\ Made(vertex[a]) /\ Made(vertex[b])
  /\ {vertex[a].id, vertex[b].id} \subseteq DOMAIN node

\* An edge is made between valid vertices that the graph knows; a second
\* edge between the same two takes the place of the first as their object.
MayJoin(a, b) ==
  /\ Usable(a) /\ Usable(b)
  /\ {vertex[a].id, vertex[b].id} \subseteq DOMAIN node

NewEdge(e, a, b) ==
  /\ ~Made(edge[e])
  /\ MayJoin(a, b)
  /\ edge' = [edge EXCEPT ![e] = [st |-> "valid", source |-> a, destination |-> b]]
  /\ adj' = With(adj, {vertex[a].id, vertex[b].id}, e)
  /\ UNCHANGED <<node, vertex, last_node_id, stale>>

\* Like the vertex's: the graph is asked, `valid` is not.
DeleteEdge(e) ==
  /\ Made(edge[e])
  /\ Ends(e) \in DOMAIN adj
  /\ adj' = Without(adj, {Ends(e)})
  /\ edge' = [edge EXCEPT ![e].st = "invalid"]
  /\ UNCHANGED <<node, vertex, last_node_id, stale>>

-----------------------------------------------------------------------------

\* What the iterator over the graph's nodes yields.
get_vertices == {node[i] : i \in DOMAIN node}

Next ==
  \/ \E v \in VertexHandle : NewVertex(v) \/ DeleteVertex(v)
  \/ \E e \in EdgeHandle, a, b \in VertexHandle : NewEdge(e, a, b)
  \/ \E e \in EdgeHandle : DeleteEdge(e)

Spec == Init /\ [][Next]_vars

-----------------------------------------------------------------------------
(* Correctness *)

\* As long as no deleted vertex has been deleted again, a vertex that answers
\* is the object of its own node: what it reads is its own data, no second
\* usable vertex compares equal to it, and the iterator yields it
\* (Vertex.__init__, _add_vertex, delete, __eq__).
UsableVertexIsInGraph ==
  ~stale =>
    \A v \in VertexHandle : Usable(v) =>
      /\ vertex[v].id \in DOMAIN node
      /\ node[vertex[v].id] = v
      /\ \A w \in VertexHandle : Usable(w) /\ SameVertex(v, w) => w = v

\* As long as no deleted vertex has been deleted again, an edge the iterator
\* yields is valid, lies between the ids it is stored under, and both its
\* ends are usable vertices that the graph holds (Edge.__init__, delete,
\* EdgeIterator).
EdgesJoinUsableVertices ==
  ~stale =>
    \A k \in DOMAIN adj :
      /\ Valid(edge[adj[k]])
      /\ Ends(adj[k]) = k
      /\ \A end \in {edge[adj[k]].source, edge[adj[k]].destination} :
           Usable(end) /\ end \in get_vertices
=============================================================================
