------------------------- MODULE ExperimentGraphProofs -------------------------
(***************************************************************************)
(* Theorems about the experiment graph: its vertices and edges, their      *)
(* decoration, and the search for paths; for any number of handles, ids,   *)
(* instances, classes, workers and vertices.                               *)
(***************************************************************************)
EXTENDS ExperimentGraph, VertexDecoration, PathWorkers,
        FiniteSetTheorems, SequenceTheorems, TLAPS

-----------------------------------------------------------------------------
(* The graph: its two invariants are inductive with the types of the       *)
(* handles.                                                                *)

\* What a handle is.
AVertex == {Unmade} \cup [st : {"valid", "invalid"}, id : Id]
AnEdge == {Unmade} \cup [st : {"valid", "invalid"},
                         source : VertexHandle, destination : VertexHandle]

Types ==
  /\ node \in [DOMAIN node -> VertexHandle] /\ DOMAIN node \subseteq Id
  /\ adj \in [DOMAIN adj -> EdgeHandle]
  /\ vertex \in [VertexHandle -> AVertex]
  /\ edge \in [EdgeHandle -> AnEdge]
  /\ stale \in BOOLEAN

Inv == Types /\ UsableVertexIsInGraph /\ EdgesJoinUsableVertices

-----------------------------------------------------------------------------

\* Whether or not the id after the last is taken, a new vertex gets an id that
\* no node of the graph has (_add_vertex).
LEMMA NewIdIsFree ==
  ASSUME Types, NEW i \in Id, NextId(i) \/ GivenId(i)
  PROVE  i \notin DOMAIN node
  BY MaxIdAssumption DEF Types, Id, NextId, GivenId

\* Every step keeps the types of the graph and of the handles.
LEMMA TypesKept ==
  ASSUME Types, [Next]_vars
  PROVE  Types'
<1>1. ASSUME NEW v \in VertexHandle, NewVertex(v) PROVE Types'
  BY <1>1 DEF Types, NewVertex, With, AVertex
<1>2. ASSUME NEW v \in VertexHandle, DeleteVertex(v) PROVE Types'
  <2>1. vertex[v] \in [st : {"valid", "invalid"}, id : Id]
    BY <1>2 DEF Types, AVertex, DeleteVertex, Made, Unmade
  <2>2. vertex' \in [VertexHandle -> AVertex]
    BY <1>2, <2>1 DEF Types, AVertex, DeleteVertex
  <2>. QED BY <1>2, <2>2 DEF Types, DeleteVertex, Without
<1>3. ASSUME NEW e \in EdgeHandle, NEW a \in VertexHandle, NEW b \in VertexHandle,
             NewEdge(e, a, b)
      PROVE  Types'
  BY <1>3 DEF Types, NewEdge, With, AnEdge
<1>4. ASSUME NEW e \in EdgeHandle, DeleteEdge(e) PROVE Types'
  <2>1. edge[e] \in [st : {"valid", "invalid"},
                     source : VertexHandle, destination : VertexHandle]
    BY <1>4 DEF Types, AnEdge, DeleteEdge, Made, Unmade
  <2>2. edge' \in [EdgeHandle -> AnEdge]
    BY <1>4, <2>1 DEF Types, AnEdge, DeleteEdge
  <2>. QED BY <1>4, <2>2 DEF Types, DeleteEdge, Without
<1>5. CASE UNCHANGED vars
  BY <1>5 DEF Types, vars
<1>. QED BY <1>1, <1>2, <1>3, <1>4, <1>5 DEF Next

-----------------------------------------------------------------------------
(* The vertices *)

\* A new vertex shares its node with no other one.
LEMMA NewVertexUsable ==
  ASSUME Inv, NEW v \in VertexHandle, NewVertex(v)
  PROVE  UsableVertexIsInGraph'
<1>1. PICK i \in Id :
        /\ NextId(i) \/ GivenId(i)
        /\ node' = With(node, i, v)
        /\ vertex' = [vertex EXCEPT ![v] = [st |-> "valid", id |-> i]]
  BY DEF NewVertex
<1>2. i \notin DOMAIN node
  BY <1>1, NewIdIsFree DEF Inv
<1>3. DOMAIN node' = DOMAIN node \cup {i} /\ node'[i] = v
  BY <1>1 DEF With
<1>4. \A j \in DOMAIN node : node'[j] = node[j]
  BY <1>1, <1>2 DEF With
<1>5. vertex'[v].id = i /\ \A w \in VertexHandle \ {v} : vertex'[w] = vertex[w]
  BY <1>1 DEF Inv, Types
<1>. SUFFICES ASSUME ~stale', NEW w \in VertexHandle, Usable(w)'
     PROVE  vertex'[w].id \in DOMAIN node' /\ node'[vertex'[w].id] = w
  BY DEF UsableVertexIsInGraph, SameVertex
<1>6. CASE w = v
  BY <1>3, <1>5, <1>6
<1>7. CASE w # v
  <2>1. Usable(w) /\ vertex'[w].id = vertex[w].id
    BY <1>5, <1>7 DEF Usable, Made, Valid
  <2>2. vertex[w].id \in DOMAIN node /\ node[vertex[w].id] = w
    BY <2>1 DEF Inv, UsableVertexIsInGraph, NewVertex
  <2>. QED BY <1>3, <1>4, <2>1, <2>2
<1>. QED BY <1>6, <1>7

\* While no deleted vertex is deleted again, delete() removes its own node.
LEMMA DeleteVertexUsable ==
  ASSUME Inv, NEW v \in VertexHandle, DeleteVertex(v), ~stale'
  PROVE  /\ ~stale /\ Usable(v)
         /\ \A w \in VertexHandle : Usable(w)' =>
              /\ w # v /\ Usable(w) /\ vertex'[w] = vertex[w]
              /\ vertex[w].id \in DOMAIN node' /\ node'[vertex[w].id] = w
<1>1. ~stale /\ Usable(v)
  BY DEF DeleteVertex, Usable
<1>2. vertex' = [vertex EXCEPT ![v].st = "invalid"]
  BY DEF DeleteVertex
<1>. SUFFICES ASSUME NEW w \in VertexHandle, Usable(w)'
     PROVE  /\ w # v /\ Usable(w) /\ vertex'[w] = vertex[w]
            /\ vertex[w].id \in DOMAIN node' /\ node'[vertex[w].id] = w
  BY <1>1
<1>3. vertex'[v].st = "invalid"
  BY <1>2, <1>1 DEF Inv, Types, AVertex, Usable, Made, Unmade
<1>4. w # v
  BY <1>3 DEF Usable, Valid
<1>5. vertex'[w] = vertex[w] /\ Usable(w)
  BY <1>2, <1>4 DEF Inv, Types, Usable, Made, Valid
<1>6. /\ vertex[w].id \in DOMAIN node /\ node[vertex[w].id] = w
      /\ node[vertex[v].id] = v
  BY <1>1, <1>5 DEF Inv, UsableVertexIsInGraph
<1>7. vertex[w].id # vertex[v].id
  BY <1>4, <1>6
<1>. QED BY <1>4, <1>5, <1>6, <1>7 DEF DeleteVertex, Without

-----------------------------------------------------------------------------
(* The edges *)

\* What EdgesJoinUsableVertices says of one pair of ids.
Joins(k) ==
  /\ Valid(edge[adj[k]])
  /\ Ends(adj[k]) = k
  /\ \A end \in {edge[adj[k]].source, edge[adj[k]].destination} :
       Usable(end) /\ end \in get_vertices

\* EdgesJoinUsableVertices, pair by pair.
LEMMA AllJoin ==
  /\ EdgesJoinUsableVertices /\ ~stale => \A k \in DOMAIN adj : Joins(k)
  /\ (~stale' => \A k \in DOMAIN adj' : Joins(k)') => EdgesJoinUsableVertices'
  BY DEF EdgesJoinUsableVertices, Joins

\* The ends of a valid edge are vertex handles.
LEMMA EndsAreVertices ==
  ASSUME Types, NEW e \in EdgeHandle, Valid(edge[e])
  PROVE  edge[e].source \in VertexHandle /\ edge[e].destination \in VertexHandle
  BY DEF Types, AnEdge, Unmade, Valid

\* An edge that the step leaves alone, and whose ends it leaves alone, still
\* joins usable vertices.
LEMMA JoinsKept ==
  ASSUME Types, UsableVertexIsInGraph', ~stale',
         NEW k \in DOMAIN adj, Joins(k),
         adj'[k] = adj[k], edge'[adj[k]] = edge[adj[k]],
         \A w \in VertexHandle :
           w \in {edge[adj[k]].source, edge[adj[k]].destination}
             => vertex'[w] = vertex[w]
  PROVE  Joins(k)'
<1>. DEFINE e == adj[k]
<1>1. e \in EdgeHandle
  BY DEF Types
<1>2. edge[e].source \in VertexHandle /\ edge[e].destination \in VertexHandle
  BY <1>1, EndsAreVertices DEF Joins
<1>3. \A w \in {edge[e].source, edge[e].destination} :
        w \in VertexHandle /\ vertex'[w] = vertex[w] /\ Usable(w)'
  BY <1>2 DEF Joins, Usable
<1>4. \A w \in {edge[e].source, edge[e].destination} : w \in get_vertices'
  BY <1>3 DEF UsableVertexIsInGraph, get_vertices
<1>5. Ends(e)' = Ends(e)
  BY <1>3 DEF Ends
<1>. QED BY <1>3, <1>4, <1>5 DEF Joins

\* A new vertex leaves the edges alone.
LEMMA NewVertexEdges ==
  ASSUME Inv, NEW v \in VertexHandle, NewVertex(v), UsableVertexIsInGraph'
  PROVE  EdgesJoinUsableVertices'
<1>. SUFFICES ASSUME ~stale', NEW k \in DOMAIN adj PROVE Joins(k)'
  BY AllJoin DEF NewVertex
<1>1. Joins(k)
  BY AllJoin DEF Inv, NewVertex
<1>2. \A w \in VertexHandle : Usable(w) => vertex'[w] = vertex[w]
  BY DEF Inv, Types, NewVertex, Usable
<1>. QED BY <1>1, <1>2, JoinsKept DEF Inv, NewVertex, Joins

\* A deleted vertex takes all its edges with it (networkx, remove_node).
LEMMA DeleteVertexEdges ==
  ASSUME Inv, NEW v \in VertexHandle, DeleteVertex(v), UsableVertexIsInGraph'
  PROVE  EdgesJoinUsableVertices'
<1>. SUFFICES ASSUME ~stale', NEW k \in DOMAIN adj' PROVE Joins(k)'
  BY AllJoin
<1>1. k \in DOMAIN adj /\ vertex[v].id \notin k /\ adj'[k] = adj[k] /\ edge' = edge
  BY DEF DeleteVertex, Without
<1>2. Joins(k)
  BY <1>1, DeleteVertexUsable, AllJoin DEF Inv
<1>3. \A w \in {edge[adj[k]].source, edge[adj[k]].destination} : w # v
  BY <1>1, <1>2 DEF Joins, Ends
<1>4. \A w \in VertexHandle \ {v} : vertex'[w] = vertex[w]
  BY DEF Inv, Types, DeleteVertex
<1>. QED BY <1>1, <1>2, <1>3, <1>4, JoinsKept DEF Inv

\* The new edge, and those it does not take the place of.
LEMMA NewEdgeEdges ==
  ASSUME Inv, NEW e \in EdgeHandle, NEW a \in VertexHandle, NEW b \in VertexHandle,
         NewEdge(e, a, b), UsableVertexIsInGraph'
  PROVE  EdgesJoinUsableVertices'
<1>. SUFFICES ASSUME ~stale', NEW k \in DOMAIN adj' PROVE Joins(k)'
  BY AllJoin
<1>. DEFINE new == {vertex[a].id, vertex[b].id}
<1>1. /\ edge' = [edge EXCEPT ![e] = [st |-> "valid", source |-> a, destination |-> b]]
      /\ adj' = With(adj, new, e) /\ UNCHANGED <<node, vertex, stale>>
      /\ Usable(a) /\ Usable(b) /\ ~Made(edge[e])
  BY DEF NewEdge, MayJoin
<1>2. edge'[e] = [st |-> "valid", source |-> a, destination |-> b]
  BY <1>1 DEF Inv, Types
<1>3. CASE k = new
  <2>1. adj'[k] = e
    BY <1>1, <1>3 DEF With
  <2>2. Usable(a)' /\ Usable(b)' /\ a \in get_vertices' /\ b \in get_vertices'
    BY <1>1 DEF Usable, UsableVertexIsInGraph, get_vertices
  <2>3. Valid(edge'[e]) /\ Ends(e)' = k
    BY <1>1, <1>2, <1>3 DEF Valid, Ends
  <2>. QED BY <1>2, <2>1, <2>2, <2>3 DEF Joins
<1>4. CASE k # new
  <2>1. k \in DOMAIN adj /\ adj'[k] = adj[k]
    BY <1>1, <1>4 DEF With
  <2>2. Joins(k)
    BY <1>1, <2>1, AllJoin DEF Inv
  <2>3. adj[k] # e /\ edge'[adj[k]] = edge[adj[k]]
    BY <1>1, <2>1, <2>2 DEF Inv, Types, Joins, Valid, Made
  <2>. QED BY <1>1, <2>1, <2>2, <2>3, JoinsKept DEF Inv
<1>. QED BY <1>3, <1>4

\* Two edges are never kept under one pair of ids, so that deleting one
\* leaves the others where they are.
LEMMA DeleteEdgeEdges ==
  ASSUME Inv, NEW e \in EdgeHandle, DeleteEdge(e), UsableVertexIsInGraph'
  PROVE  EdgesJoinUsableVertices'
<1>. SUFFICES ASSUME ~stale', NEW k \in DOMAIN adj' PROVE Joins(k)'
  BY AllJoin
<1>1. /\ k \in DOMAIN adj /\ k # Ends(e) /\ adj'[k] = adj[k]
      /\ edge' = [edge EXCEPT ![e].st = "invalid"] /\ UNCHANGED <<vertex, stale>>
  BY DEF DeleteEdge, Without
<1>2. Joins(k)
  BY <1>1, AllJoin DEF Inv
<1>3. adj[k] # e /\ edge'[adj[k]] = edge[adj[k]]
  BY <1>1, <1>2 DEF Inv, Types, Joins
<1>. QED BY <1>1, <1>2, <1>3, JoinsKept DEF Inv

-----------------------------------------------------------------------------
(* The invariant *)

\* The empty graph.
LEMMA InvInit == Init => Inv
<1>. SUFFICES ASSUME Init PROVE Inv
  OBVIOUS
<1>1. DOMAIN node = {} /\ DOMAIN adj = {}
  BY DEF Init
<1>2. node \in [{} -> VertexHandle] /\ adj \in [{} -> EdgeHandle]
  BY DEF Init
<1>3. Types
  BY <1>1, <1>2 DEF Init, Types, AVertex, AnEdge
<1>4. \A v \in VertexHandle : ~Usable(v)
  BY DEF Init, Unmade, Usable, Made
<1>. QED BY <1>1, <1>3, <1>4 DEF Inv, UsableVertexIsInGraph, EdgesJoinUsableVertices

\* Only new and deleted vertices change what the first invariant is about.
LEMMA UsableKept ==
  ASSUME Inv, [Next]_vars
  PROVE  UsableVertexIsInGraph'
<1>1. ASSUME NEW v \in VertexHandle, NewVertex(v) PROVE UsableVertexIsInGraph'
  BY <1>1, NewVertexUsable
<1>2. ASSUME NEW v \in VertexHandle, DeleteVertex(v) PROVE UsableVertexIsInGraph'
  <2>. SUFFICES ASSUME ~stale', NEW u \in VertexHandle, Usable(u)'
       PROVE  /\ vertex'[u].id \in DOMAIN node'
              /\ node'[vertex'[u].id] = u
              /\ \A w \in VertexHandle : Usable(w)' /\ SameVertex(u, w)' => w = u
    BY DEF UsableVertexIsInGraph
  <2>1. \A w \in VertexHandle : Usable(w)' =>
          vertex'[w].id \in DOMAIN node' /\ node'[vertex'[w].id] = w
    BY <1>2, DeleteVertexUsable
  <2>. QED BY <2>1 DEF SameVertex
<1>3. ASSUME UNCHANGED <<node, vertex, stale>> PROVE UsableVertexIsInGraph'
  BY <1>3 DEF Inv, UsableVertexIsInGraph, Usable, SameVertex
<1>. QED BY <1>1, <1>2, <1>3 DEF Next, NewEdge, DeleteEdge, vars

\* Every step keeps the second invariant.
LEMMA EdgesKept ==
  ASSUME Inv, [Next]_vars
  PROVE  EdgesJoinUsableVertices'
<1>1. UsableVertexIsInGraph'
  BY UsableKept
<1>2. CASE UNCHANGED vars
  BY <1>2 DEF vars, Inv, EdgesJoinUsableVertices, Ends, Usable, get_vertices
<1>. QED BY <1>1, <1>2, NewVertexEdges, DeleteVertexEdges, NewEdgeEdges,
            DeleteEdgeEdges DEF Next

\* The invariants, with the types, hold for ever.
LEMMA Invariance == Spec => []Inv
<1>1. Inv /\ [Next]_vars => Inv'
  BY TypesKept, UsableKept, EdgesKept DEF Inv
<1>. QED BY InvInit, <1>1, PTL DEF Spec

\* For any number of vertices and ids: a vertex that answers is the object of
\* its own node, and no other one compares equal to it, as long as no deleted
\* vertex has been deleted again (Vertex.__init__, delete, __eq__).
THEOREM VerticesAreTheirs == Spec => []UsableVertexIsInGraph
  BY Invariance, PTL DEF Inv

\* For any number of vertices and edges: an edge that the graph has is valid
\* and joins usable vertices of the graph, under the same condition
\* (Edge.__init__, Vertex.delete, Edge.delete).
THEOREM EdgesAreJoined == Spec => []EdgesJoinUsableVertices
  BY Invariance, PTL DEF Inv

-----------------------------------------------------------------------------
(* The search: the places a source and a pair go through, one at a time.    *)

\* The elements of a queue, that those of T are in it once, and that it ends
\* with its STOPs, if any.
Members(s) == {s[k] : k \in 1..Len(s)}
OnceEach(s, T) == \A j, k \in 1..Len(s) : s[j] \in T /\ s[j] = s[k] => j = k
StopsLast(s) == \A j, k \in 1..Len(s) : j <= k /\ s[j] = STOP => s[k] = STOP

Pairs == Vertex \X Vertex

SearchTypes ==
  /\ phase \in {"feeding", "collecting", "joining", "returned", "raised"}
  /\ unseen \subseteq Vertex /\ sampled \subseteq Vertex
  /\ source_queue \in Seq(Vertex \cup {STOP})
  /\ path_queue \in [Worker -> Seq(Pairs \cup {STOP})]
  /\ worker \in [Worker -> [at : {"idle", "paths", "gone", "ended"},
                            source : Vertex \cup {STOP}, left : SUBSET Vertex]]
  /\ reported \in [Pairs -> Nat]

\* A worker that has a source has it for itself, ...
HasSource(w) == worker[w].at \in {"paths", "gone"}

SourcesInv ==
  /\ OnceEach(source_queue, Vertex) /\ StopsLast(source_queue)
  /\ sampled \cap unseen = {}
  /\ Members(source_queue) \cap Vertex \subseteq sampled
  /\ \A w \in Worker : HasSource(w) =>
       /\ worker[w].source \in sampled \ Members(source_queue)
       /\ worker[w].left \subseteq Reach[worker[w].source]
       /\ \A v \in Worker \ {w} : HasSource(v) => worker[v].source # worker[w].source
  /\ phase = "feeding" =>
       STOP \notin Members(source_queue) /\ \A w \in Worker : worker[w].at # "ended"
  /\ \A w \in Worker : worker[w].at = "ended" => Members(source_queue) \cap Vertex = {}

\* ... a pair is to be answered, in one queue, or reported, ...
Open(p) ==
  \/ p[1] \in Members(source_queue)
  \/ \E w \in Worker : HasSource(w) /\ worker[w].source = p[1] /\ p[2] \in worker[w].left

InQueue(p, w) == p \in Members(path_queue[w])

PairInv(p) ==
  /\ reported[p] \in {0, 1}
  /\ reported[p] = 1 => p \in Wanted /\ ~Open(p)
  /\ \A w \in Worker : InQueue(p, w) =>
       /\ p \in Wanted /\ ~Open(p) /\ reported[p] = 0
       /\ \A v \in Worker \ {w} : ~InQueue(p, v)
  /\ p \in Wanted => Open(p) \/ reported[p] = 1 \/ \E w \in Worker : InQueue(p, w)

\* ... and a worker's STOP is the last it puts.
QueuesInv ==
  \A w \in Worker :
    /\ OnceEach(path_queue[w], Pairs \cup {STOP})
    /\ STOP \in Members(path_queue[w]) => worker[w].at = "ended"
    /\ worker[w].at = "ended" /\ path_queue[w] # << >> =>
         path_queue[w][Len(path_queue[w])] = STOP

Heard == {w \in Worker : worker[w].at = "ended" /\ path_queue[w] = << >>}

EndsInv ==
  /\ ends = Cardinality(Heard)
  /\ phase = "returned" => Heard = Worker

SearchInv ==
  /\ SearchTypes /\ SourcesInv /\ QueuesInv /\ EndsInv
  /\ \A p \in Pairs : PairInv(p)

-----------------------------------------------------------------------------
(* Queues *)

LEMMA AppendMembers ==
  ASSUME NEW S, NEW s \in Seq(S), NEW x \in S
  PROVE  /\ Append(s, x) \in Seq(S)
         /\ Append(s, x) # << >>
         /\ Members(Append(s, x)) = Members(s) \cup {x}
         /\ Append(s, x)[Len(Append(s, x))] = x
         /\ \A T : OnceEach(s, T) /\ x \notin Members(s) => OnceEach(Append(s, x), T)
<1>1. /\ Append(s, x) \in Seq(S)
      /\ Len(s) \in Nat
      /\ Len(Append(s, x)) = Len(s) + 1
      /\ \A k \in 1..Len(s) : Append(s, x)[k] = s[k]
      /\ Append(s, x)[Len(s) + 1] = x
  OBVIOUS
<1>. DEFINE t == Append(s, x)
<1>. HIDE DEF t
<1>2. t # << >>
  <2>1. Len(t) # 0
    BY <1>1 DEF t
  <2>. QED BY <2>1
<1>3. Members(t) = Members(s) \cup {x}
  <2>1. \A y \in Members(t) : y \in Members(s) \cup {x}
    BY <1>1 DEF t, Members
  <2>2. \A y \in Members(s) : y \in Members(t)
    BY <1>1 DEF t, Members
  <2>3. x \in Members(t)
    BY <1>1 DEF t, Members
  <2>. QED BY <2>1, <2>2, <2>3
<1>4. ASSUME NEW T, OnceEach(s, T), x \notin Members(s) PROVE OnceEach(t, T)
  <2>1. \A k \in 1..Len(s) : s[k] # x
    BY <1>4 DEF Members
  <2>. QED BY <2>1, <1>1, <1>4 DEF t, OnceEach
<1>. QED BY <1>1, <1>2, <1>3, <1>4 DEF t

LEMMA TailMembers ==
  ASSUME NEW S, NEW s \in Seq(S), s # << >>
  PROVE  /\ Head(s) \in S /\ Tail(s) \in Seq(S)
         /\ Members(s) = Members(Tail(s)) \cup {Head(s)}
         /\ \A T : OnceEach(s, T) =>
              /\ OnceEach(Tail(s), T)
              /\ Head(s) \in T => Head(s) \notin Members(Tail(s))
              /\ Head(s) \in T /\ Head(s) = s[Len(s)] => Tail(s) = << >>
         /\ StopsLast(s) =>
              /\ StopsLast(Tail(s))
              /\ Head(s) = STOP => Members(s) \subseteq {STOP}
         /\ Head(s) # s[Len(s)] => Tail(s) # << >>
         /\ Tail(s) # << >> => Tail(s)[Len(Tail(s))] = s[Len(s)]
<1>1. /\ Head(s) \in S /\ Tail(s) \in Seq(S)
      /\ Len(s) \in Nat /\ Len(s) > 0
      /\ Len(Tail(s)) = Len(s) - 1
      /\ \A k \in 1..Len(Tail(s)) : Tail(s)[k] = s[k + 1]
      /\ Head(s) = s[1]
  BY HeadTailProperties, EmptySeq
<1>. DEFINE t == Tail(s)
            h == Head(s)
<1>. HIDE DEF t, h
<1>2. Members(s) = Members(t) \cup {h}
  <2>1. ASSUME NEW k \in 1..Len(s) PROVE s[k] \in Members(t) \cup {h}
    <3>1. CASE k = 1
      BY <3>1, <1>1 DEF h
    <3>2. CASE k # 1
      <4>1. k - 1 \in 1..Len(t) /\ t[k - 1] = s[k]
        BY <3>2, <1>1 DEF t
      <4>. QED BY <4>1 DEF Members
    <3>. QED BY <3>1, <3>2
  <2>2. ASSUME NEW k \in 1..Len(t) PROVE t[k] \in Members(s)
    <3>1. k + 1 \in 1..Len(s) /\ t[k] = s[k + 1]
      BY <1>1 DEF t
    <3>. QED BY <3>1 DEF Members
  <2>3. h \in Members(s)
    <3>1. 1 \in 1..Len(s) /\ h = s[1]
      BY <1>1 DEF h
    <3>. QED BY <3>1 DEF Members
  <2>. QED BY <2>1, <2>2, <2>3 DEF Members
<1>3. ASSUME NEW T, OnceEach(s, T)
      PROVE  /\ OnceEach(t, T)
             /\ h \in T => h \notin Members(t)
             /\ h \in T /\ h = s[Len(s)] => t = << >>
  <2>1. OnceEach(t, T)
    <3>. SUFFICES ASSUME NEW j \in 1..Len(t), NEW k \in 1..Len(t), t[j] \in T, t[j] = t[k]
                  PROVE  j = k
      BY DEF OnceEach
    <3>1. /\ j + 1 \in 1..Len(s) /\ k + 1 \in 1..Len(s)
          /\ t[j] = s[j + 1] /\ t[k] = s[k + 1]
      BY <1>1 DEF t
    <3>2. j + 1 = k + 1
      BY <3>1, <1>3 DEF OnceEach
    <3>. QED BY <3>2
  <2>2. ASSUME h \in T, NEW k \in 1..Len(t) PROVE t[k] # h
    <3>1. k + 1 \in 1..Len(s) /\ 1 \in 1..Len(s) /\ t[k] = s[k + 1] /\ h = s[1] /\ k + 1 # 1
      BY <1>1 DEF t, h
    <3>. QED BY <3>1, <2>2, <1>3 DEF OnceEach
  <2>3. ASSUME h \in T, h = s[Len(s)] PROVE t = << >>
    <3>1. 1 \in 1..Len(s) /\ Len(s) \in 1..Len(s) /\ h = s[1]
      BY <1>1 DEF h
    <3>2. Len(s) = 1
      BY <3>1, <2>3, <1>3 DEF OnceEach
    <3>3. t \in Seq(S) /\ Len(t) = 0
      BY <3>2, <1>1 DEF t
    <3>. QED BY <3>3, EmptySeq
  <2>. QED BY <2>1, <2>2, <2>3 DEF Members
<1>4. ASSUME StopsLast(s)
      PROVE  StopsLast(t) /\ (h = STOP => Members(s) \subseteq {STOP})
  <2>1. StopsLast(t)
    <3>. SUFFICES ASSUME NEW j \in 1..Len(t), NEW k \in 1..Len(t), j <= k, t[j] = STOP
                  PROVE  t[k] = STOP
      BY DEF StopsLast
    <3>1. /\ j + 1 \in 1..Len(s) /\ k + 1 \in 1..Len(s) /\ j + 1 <= k + 1
          /\ t[j] = s[j + 1] /\ t[k] = s[k + 1]
      BY <1>1 DEF t
    <3>. QED BY <3>1, <1>4 DEF StopsLast
  <2>2. ASSUME h = STOP, NEW k \in 1..Len(s) PROVE s[k] = STOP
    <3>1. 1 \in 1..Len(s) /\ 1 <= k /\ h = s[1]
      BY <1>1 DEF h
    <3>. QED BY <3>1, <2>2, <1>4 DEF StopsLast
  <2>. QED BY <2>1, <2>2 DEF Members
<1>5. h # s[Len(s)] => t # << >>
  <2>1. ASSUME t = << >> PROVE h = s[Len(s)]
    <3>1. Len(t) = 0
      BY <2>1
    <3>2. Len(s) = 1
      BY <3>1, <1>1 DEF t
    <3>. QED BY <3>2, <1>1 DEF h
  <2>. QED BY <2>1
<1>6. t # << >> => t[Len(t)] = s[Len(s)]
  <2>. SUFFICES ASSUME t # << >> PROVE t[Len(t)] = s[Len(s)]
    OBVIOUS
  <2>1. t \in Seq(S) /\ Len(t) \in Nat /\ Len(t) # 0
    BY <1>1, EmptySeq DEF t
  <2>2. Len(t) \in 1..Len(t) /\ Len(t) + 1 = Len(s)
    BY <2>1, <1>1 DEF t
  <2>. QED BY <2>2, <1>1 DEF t
<1>. QED BY <1>1, <1>2, <1>3, <1>4, <1>5, <1>6 DEF t, h

\* The STOPs follow the sources.
LEMMA StopsMembers ==
  ASSUME NEW s \in Seq(Vertex \cup {STOP}), STOP \notin Members(s), OnceEach(s, Vertex)
  PROVE  /\ s \o Stops \in Seq(Vertex \cup {STOP})
         /\ Members(s \o Stops) \cap Vertex = Members(s) \cap Vertex
         /\ OnceEach(s \o Stops, Vertex)
         /\ StopsLast(s \o Stops)
<1>1. Cardinality(Worker) \in Nat
  BY SearchAssumption, FS_CardinalityType
<1>2. /\ Stops \in Seq(Vertex \cup {STOP})
      /\ Len(Stops) = Cardinality(Worker)
      /\ \A k \in 1..Len(Stops) : Stops[k] = STOP
  BY <1>1 DEF Stops
<1>. DEFINE t == s \o Stops
<1>3. /\ t \in Seq(Vertex \cup {STOP})
      /\ Len(s) \in Nat /\ Len(Stops) \in Nat /\ Len(t) = Len(s) + Len(Stops)
      /\ \A k \in 1..Len(s) : t[k] = s[k]
      /\ \A k \in 1..Len(t) : k > Len(s) => t[k] = STOP
  <2>. HIDE DEF t
  <2>1. /\ t \in Seq(Vertex \cup {STOP})
        /\ Len(s) \in Nat /\ Len(Stops) \in Nat /\ Len(t) = Len(s) + Len(Stops)
        /\ \A k \in 1..Len(s) + Len(Stops) :
             t[k] = IF k <= Len(s) THEN s[k] ELSE Stops[k - Len(s)]
    BY <1>2, ConcatProperties, LenProperties DEF t
  <2>2. ASSUME NEW k \in 1..Len(t), k > Len(s) PROVE t[k] = STOP
    <3>1. k - Len(s) \in 1..Len(Stops) /\ ~(k <= Len(s)) /\ k \in 1..Len(s) + Len(Stops)
      BY <2>1, <2>2
    <3>. QED BY <3>1, <2>1, <1>2
  <2>. QED BY <2>1, <2>2
<1>. HIDE DEF t
<1>4. \A k \in 1..Len(s) : s[k] # STOP
  BY DEF Members
<1>5. STOP \notin Vertex
  BY SearchAssumption
<1>6. \A k \in 1..Len(t) : t[k] # STOP => k \in 1..Len(s) /\ t[k] = s[k]
  BY <1>3
<1>7. Members(t) \cap Vertex = Members(s) \cap Vertex
  <2>1. \A k \in 1..Len(t) : t[k] \in Vertex => \E j \in 1..Len(s) : s[j] = t[k]
    BY <1>5, <1>6
  <2>2. \A k \in 1..Len(s) : k \in 1..Len(t) /\ t[k] = s[k]
    BY <1>3
  <2>. QED BY <2>1, <2>2 DEF Members
<1>8. OnceEach(t, Vertex)
  BY <1>5, <1>6 DEF OnceEach
<1>9. StopsLast(t)
  <2>1. ASSUME NEW j \in 1..Len(t), NEW k \in 1..Len(t), j <= k, t[j] = STOP
        PROVE  t[k] = STOP
    <3>1. ~(j \in 1..Len(s))
      BY <2>1, <1>3, <1>4
    <3>2. k > Len(s)
      BY <3>1, <2>1, <1>3
    <3>. QED BY <3>2, <1>3
  <2>. QED BY <2>1 DEF StopsLast
<1>. QED BY <1>3, <1>7, <1>8, <1>9 DEF t

-----------------------------------------------------------------------------
(* Every step keeps the invariant of the search. *)

LEMMA WantedIs ==
  \A p \in Pairs :
    /\ p[1] \in Vertex /\ p[2] \in Vertex /\ p = <<p[1], p[2]>>
    /\ p \in Wanted <=> p[1] \in sampled /\ p[2] \in Reach[p[1]] /\ IsDestination(p[2])
  BY DEF Pairs, Wanted

LEMMA SearchInitInv == SearchInit => SearchInv
<1>. SUFFICES ASSUME SearchInit PROVE SearchInv
  OBVIOUS
<1>1. SearchTypes
  BY DEF SearchInit, SearchTypes, Idle, Pairs
<1>2. Members(<< >>) = {} /\ (\A T : OnceEach(<< >>, T)) /\ StopsLast(<< >>)
  BY DEF Members, OnceEach, StopsLast
<1>3. SourcesInv
  BY <1>2 DEF SearchInit, SourcesInv, HasSource, Idle
<1>4. QueuesInv
  BY <1>2 DEF SearchInit, QueuesInv, Idle
<1>5. EndsInv
  <2>1. Heard = {}
    BY DEF Heard, SearchInit, Idle
  <2>. QED BY <2>1, FS_EmptySet DEF EndsInv, SearchInit
<1>6. ASSUME NEW p \in Pairs PROVE PairInv(p)
  <2>1. reported[p] = 0 /\ p \notin Wanted
    BY DEF SearchInit, Wanted, Pairs
  <2>2. \A w \in Worker : ~InQueue(p, w)
    BY <1>2 DEF SearchInit, InQueue
  <2>. QED BY <2>1, <2>2 DEF PairInv
<1>. QED BY <1>1, <1>3, <1>4, <1>5, <1>6 DEF SearchInv

\* A vertex that is no source, or not sampled, only leaves the unseen.
LEMMA PassKeeps ==
  ASSUME SearchInv, unseen' \subseteq unseen, phase' \in {"feeding", "raised"}, phase = "feeding",
         UNCHANGED <<filter, sampled, source_queue, path_queue, worker, ends, reported>>
  PROVE  SearchInv'
<1>1. SearchTypes'
  BY DEF SearchInv, SearchTypes
<1>2. SourcesInv'
  BY DEF SearchInv, SourcesInv, HasSource
<1>3. QueuesInv' /\ EndsInv'
  BY DEF SearchInv, QueuesInv, EndsInv, Heard
<1>4. \A p \in Pairs : PairInv(p)'
  BY DEF SearchInv, PairInv, Open, InQueue, Wanted, HasSource, IsDestination
<1>. QED BY <1>1, <1>2, <1>3, <1>4 DEF SearchInv

\* A source is put into the queue, with all its pairs still to be answered.
LEMMA SourceKeeps ==
  ASSUME SearchInv, NEW v \in unseen, phase = "feeding", unseen' = unseen \ {v},
         sampled' = sampled \cup {v}, source_queue' = Append(source_queue, v),
         UNCHANGED <<filter, phase, path_queue, worker, ends, reported>>
  PROVE  SearchInv'
<1>1. SearchTypes /\ SourcesInv
  BY DEF SearchInv
<1>2. v \in Vertex /\ v \notin sampled /\ v # STOP
  BY <1>1, SearchAssumption DEF SearchTypes, SourcesInv
<1>3. v \notin Members(source_queue)
  BY <1>1, <1>2 DEF SourcesInv
<1>4. /\ source_queue' \in Seq(Vertex \cup {STOP})
      /\ Members(source_queue') = Members(source_queue) \cup {v}
      /\ OnceEach(source_queue', Vertex)
  BY <1>1, <1>2, <1>3, AppendMembers DEF SearchTypes, SourcesInv
<1>5. SearchTypes'
  BY <1>1, <1>2, <1>4 DEF SearchTypes
<1>6. SourcesInv'
  <2>1. STOP \notin Members(source_queue')
    BY <1>1, <1>2, <1>4 DEF SourcesInv
  <2>2. StopsLast(source_queue')
    BY <2>1 DEF StopsLast, Members
  <2>3. \A w \in Worker : HasSource(w)' <=> HasSource(w)
    BY DEF HasSource
  <2>4. \A w \in Worker : worker[w].at # "ended"
    BY <1>1 DEF SourcesInv
  <2>5. ASSUME NEW w \in Worker, HasSource(w)
        PROVE  /\ worker[w].source \in sampled' \ Members(source_queue')
               /\ worker[w].left \subseteq Reach[worker[w].source]
               /\ \A u \in Worker \ {w} : HasSource(u) => worker[u].source # worker[w].source
    BY <2>5, <1>1, <1>2, <1>4 DEF SourcesInv
  <2>6. sampled' \cap unseen' = {} /\ Members(source_queue') \cap Vertex \subseteq sampled'
    BY <1>1, <1>4 DEF SourcesInv
  <2>. QED BY <2>1, <2>2, <2>3, <2>4, <2>5, <2>6, <1>4 DEF SourcesInv
<1>7. QueuesInv' /\ EndsInv'
  BY DEF SearchInv, QueuesInv, EndsInv, Heard
<1>8. ASSUME NEW p \in Pairs
      PROVE  PairInv(p)'
  <2>1. PairInv(p)
    BY DEF SearchInv
  <2>2. Open(p)' <=> Open(p) \/ p[1] = v
    BY <1>4 DEF Open, HasSource
  <2>3. p \in Wanted => p \in Wanted' /\ p[1] # v
    BY <1>2 DEF Wanted, IsDestination
  <2>4. p \in Wanted' /\ p \notin Wanted => p[1] = v
    BY DEF Wanted, IsDestination
  <2>5. \A w \in Worker : InQueue(p, w)' <=> InQueue(p, w)
    BY DEF InQueue
  <2>. QED BY <2>1, <2>2, <2>3, <2>4, <2>5 DEF PairInv
<1>. QED BY <1>5, <1>6, <1>7, <1>8 DEF SearchInv

LEMMA FeedStopsKeeps ==
  ASSUME SearchInv, FeedStops, UNCHANGED filter
  PROVE  SearchInv'
<1>1. SearchTypes /\ SourcesInv
  BY DEF SearchInv
<1>2. /\ phase = "feeding" /\ phase' = "collecting"
      /\ source_queue' = source_queue \o Stops
      /\ UNCHANGED <<unseen, sampled, path_queue, worker, ends, reported>>
  BY DEF FeedStops
<1>3. STOP \notin Members(source_queue) /\ OnceEach(source_queue, Vertex)
  BY <1>1, <1>2 DEF SourcesInv
<1>4. /\ source_queue' \in Seq(Vertex \cup {STOP})
      /\ Members(source_queue') \cap Vertex = Members(source_queue) \cap Vertex
      /\ OnceEach(source_queue', Vertex)
      /\ StopsLast(source_queue')
  BY <1>1, <1>2, <1>3, StopsMembers DEF SearchTypes
<1>5. SearchTypes'
  BY <1>1, <1>2, <1>4 DEF SearchTypes
<1>6. \A u \in Vertex : u \in Members(source_queue') <=> u \in Members(source_queue)
  BY <1>4
<1>7. SourcesInv'
  <2>1. \A w \in Worker : HasSource(w)' <=> HasSource(w)
    BY <1>2 DEF HasSource
  <2>2. ASSUME NEW w \in Worker, HasSource(w)
        PROVE  /\ worker[w].source \in sampled' \ Members(source_queue')
               /\ worker[w].left \subseteq Reach[worker[w].source]
               /\ \A u \in Worker \ {w} : HasSource(u) => worker[u].source # worker[w].source
    <3>1. worker[w].source \in sampled \ Members(source_queue) /\ worker[w].source \in Vertex
      BY <2>2, <1>1 DEF SourcesInv, SearchTypes
    <3>. QED BY <3>1, <2>2, <1>1, <1>2, <1>6 DEF SourcesInv
  <2>. QED BY <2>1, <2>2, <1>1, <1>2, <1>4 DEF SourcesInv
<1>8. QueuesInv' /\ EndsInv'
  BY <1>2 DEF SearchInv, QueuesInv, EndsInv, Heard
<1>9. ASSUME NEW p \in Pairs
      PROVE  PairInv(p)'
  <2>1. PairInv(p)
    BY DEF SearchInv
  <2>2. Open(p)' <=> Open(p)
    BY <1>2, <1>6, WantedIs DEF Open, HasSource
  <2>3. p \in Wanted' <=> p \in Wanted
    BY <1>2 DEF Wanted, IsDestination
  <2>4. \A w \in Worker : InQueue(p, w)' <=> InQueue(p, w)
    BY <1>2 DEF InQueue
  <2>. QED BY <2>1, <2>2, <2>3, <2>4, <1>2 DEF PairInv
<1>. QED BY <1>5, <1>7, <1>8, <1>9 DEF SearchInv

\* The caller returns when it has had the STOP of every worker.
LEMMA JoinKeeps ==
  ASSUME SearchInv, Join, UNCHANGED filter
  PROVE  SearchInv'
<1>1. /\ phase = "collecting" /\ ends = Cardinality(Worker) /\ phase' = "returned"
      /\ UNCHANGED <<unseen, sampled, source_queue, path_queue, worker, ends, reported>>
  BY DEF Join, AllEnded
<1>2. SearchTypes'
  BY <1>1 DEF SearchInv, SearchTypes
<1>3. SourcesInv'
  BY <1>1 DEF SearchInv, SourcesInv, HasSource
<1>4. QueuesInv'
  BY <1>1 DEF SearchInv, QueuesInv
<1>5. EndsInv'
  <2>1. Heard \subseteq Worker /\ Cardinality(Heard) = Cardinality(Worker)
    BY <1>1 DEF Heard, SearchInv, EndsInv
  <2>2. Heard = Worker
    BY <2>1, SearchAssumption, FS_Subset
  <2>3. Heard' = Heard
    BY <1>1 DEF Heard
  <2>. QED BY <2>2, <2>3, <1>1 DEF SearchInv, EndsInv
<1>6. \A p \in Pairs : PairInv(p)'
  BY <1>1 DEF SearchInv, PairInv, Open, InQueue, Wanted, HasSource, IsDestination
<1>. QED BY <1>2, <1>3, <1>4, <1>5, <1>6 DEF SearchInv

\* The caller takes the first of what a worker has put: its STOP, the last, or
\* a pair, which is reported for the first time.
LEMMA CollectKeeps ==
  ASSUME SearchInv, NEW w \in Worker, Collect(w), UNCHANGED filter
  PROVE  SearchInv'
<1>. DEFINE s == path_queue[w]
            q == Head(path_queue[w])
<1>1. SearchTypes /\ SourcesInv /\ QueuesInv /\ EndsInv
  BY DEF SearchInv
<1>2. /\ phase = "collecting" /\ s # << >>
      /\ path_queue' = [path_queue EXCEPT ![w] = Tail(s)]
      /\ IF q = STOP
         THEN ends' = ends + 1 /\ reported' = reported
         ELSE reported' = [reported EXCEPT ![q] = reported[q] + 1] /\ ends' = ends
      /\ UNCHANGED <<phase, unseen, sampled, source_queue, worker>>
  BY DEF Collect
<1>3. /\ s \in Seq(Pairs \cup {STOP})
      /\ OnceEach(s, Pairs \cup {STOP})
      /\ STOP \in Members(s) => worker[w].at = "ended"
      /\ worker[w].at = "ended" => s[Len(s)] = STOP
  BY <1>1, <1>2 DEF SearchTypes, QueuesInv
<1>. HIDE DEF s, q
<1>4. /\ q \in Pairs \cup {STOP} /\ Tail(s) \in Seq(Pairs \cup {STOP})
      /\ Members(s) = Members(Tail(s)) \cup {q}
      /\ OnceEach(Tail(s), Pairs \cup {STOP})
      /\ q \notin Members(Tail(s))
      /\ q = s[Len(s)] => Tail(s) = << >>
      /\ q # s[Len(s)] => Tail(s) # << >>
      /\ Tail(s) # << >> => Tail(s)[Len(Tail(s))] = s[Len(s)]
  <2>1. q = Head(s)
    BY DEF s, q
  <2>. QED BY <2>1, <1>2, <1>3, TailMembers
<1>5. /\ path_queue'[w] = Tail(s)
      /\ \A v \in Worker : v # w => path_queue'[v] = path_queue[v]
  BY <1>1, <1>2 DEF SearchTypes
<1>6. SearchTypes'
  <2>1. path_queue' \in [Worker -> Seq(Pairs \cup {STOP})]
    BY <1>1, <1>2, <1>4 DEF SearchTypes
  <2>2. reported' \in [Pairs -> Nat]
    BY <1>1, <1>2, <1>4 DEF SearchTypes
  <2>. QED BY <2>1, <2>2, <1>1, <1>2 DEF SearchTypes
<1>7. SourcesInv'
  BY <1>1, <1>2 DEF SourcesInv, HasSource
<1>8. QueuesInv'
  <2>1. ASSUME NEW v \in Worker
        PROVE  /\ OnceEach(path_queue'[v], Pairs \cup {STOP})
               /\ STOP \in Members(path_queue'[v]) => worker[v].at = "ended"
               /\ worker[v].at = "ended" /\ path_queue'[v] # << >> =>
                    path_queue'[v][Len(path_queue'[v])] = STOP
    <3>1. CASE v = w
      BY <3>1, <1>3, <1>4, <1>5
    <3>2. CASE v # w
      BY <3>2, <1>1, <1>5 DEF QueuesInv
    <3>. QED BY <3>1, <3>2
  <2>. QED BY <2>1, <1>2 DEF QueuesInv
<1>9. EndsInv'
  <2>1. w \notin Heard
    BY <1>2 DEF Heard, s
  <2>2. Heard \subseteq Worker /\ IsFiniteSet(Heard)
    <3>1. Heard \subseteq Worker
      BY DEF Heard
    <3>. QED BY <3>1, SearchAssumption, FS_Subset
  <2>3. CASE q = STOP
    <3>1. Tail(s) = << >> /\ worker[w].at = "ended"
      BY <2>3, <1>3, <1>4
    <3>2. Heard' = Heard \cup {w}
      BY <3>1, <1>2, <1>5 DEF Heard
    <3>3. Cardinality(Heard') = Cardinality(Heard) + 1
      BY <3>2, <2>1, <2>2, FS_AddElement
    <3>. QED BY <3>3, <2>3, <1>1, <1>2 DEF EndsInv
  <2>4. CASE q # STOP
    <3>1. worker[w].at = "ended" => Tail(s) # << >>
      BY <2>4, <1>3, <1>4
    <3>2. Heard' = Heard
      BY <3>1, <2>1, <1>2, <1>5 DEF Heard
    <3>. QED BY <3>2, <2>4, <1>1, <1>2 DEF EndsInv
  <2>. QED BY <2>3, <2>4
<1>10. ASSUME NEW p \in Pairs
       PROVE  PairInv(p)'
  <2>1. PairInv(p)
    BY DEF SearchInv
  <2>2. Open(p)' <=> Open(p)
    BY <1>2 DEF Open, HasSource
  <2>3. p \in Wanted' <=> p \in Wanted
    BY <1>2 DEF Wanted, IsDestination
  <2>4. /\ \A v \in Worker : v # w => (InQueue(p, v)' <=> InQueue(p, v))
        /\ InQueue(p, w)' <=> p \in Members(Tail(s))
        /\ InQueue(p, w) <=> p \in Members(s)
    BY <1>5 DEF InQueue, s
  <2>5. CASE q = p
    <3>1. q # STOP
      BY <2>5, SearchAssumption DEF Pairs
    <3>2. InQueue(p, w) /\ ~InQueue(p, w)'
      BY <2>4, <2>5, <1>4
    <3>3. p \in Wanted /\ ~Open(p) /\ reported[p] = 0 /\ \A v \in Worker \ {w} : ~InQueue(p, v)
      BY <2>1, <3>2 DEF PairInv
    <3>4. reported'[p] = 1
      <4>1. reported' = [reported EXCEPT ![p] = 1]
        BY <3>1, <3>3, <2>5, <1>2
      <4>. QED BY <4>1, <1>1 DEF SearchTypes
    <3>. QED BY <3>2, <3>3, <3>4, <2>2, <2>3, <2>4 DEF PairInv
  <2>6. CASE q # p
    <3>1. InQueue(p, w)' <=> InQueue(p, w)
      BY <2>4, <2>6, <1>4
    <3>2. reported'[p] = reported[p]
      BY <2>6, <1>1, <1>2 DEF SearchTypes
    <3>3. \A v \in Worker : InQueue(p, v)' <=> InQueue(p, v)
      BY <3>1, <2>4
    <3>. QED BY <3>2, <3>3, <2>1, <2>2, <2>3 DEF PairInv
  <2>. QED BY <2>5, <2>6
<1>. QED BY <1>6, <1>7, <1>8, <1>9, <1>10 DEF SearchInv

\* A worker takes a source: its pairs are the worker's to answer.
LEMMA TakeSourceKeeps ==
  ASSUME SearchInv, NEW w \in Worker, Take(w), Head(source_queue) # STOP, UNCHANGED filter
  PROVE  SearchInv'
<1>. DEFINE v == Head(source_queue)
            new == [at |-> "paths", source |-> v, left |-> Reach[v]]
<1>1. SearchTypes /\ SourcesInv
  BY DEF SearchInv
<1>2. /\ worker[w].at = "idle" /\ source_queue # << >>
      /\ source_queue' = Tail(source_queue)
      /\ worker' = [worker EXCEPT ![w] = new]
      /\ UNCHANGED <<phase, unseen, sampled, path_queue, ends, reported>>
  BY DEF Take
<1>3. /\ v \in Vertex /\ source_queue' \in Seq(Vertex \cup {STOP})
      /\ Members(source_queue) = Members(source_queue') \cup {v}
      /\ v \notin Members(source_queue')
      /\ OnceEach(source_queue', Vertex) /\ StopsLast(source_queue')
  BY <1>1, <1>2, TailMembers DEF SearchTypes, SourcesInv
<1>4. /\ new \in [at : {"idle", "paths", "gone", "ended"},
                  source : Vertex \cup {STOP}, left : SUBSET Vertex]
      /\ new.at = "paths" /\ new.source = v /\ new.left = Reach[v]
  BY <1>3, SearchAssumption
<1>. HIDE DEF new, v
<1>5. /\ worker'[w] = new
      /\ \A u \in Worker : u # w => worker'[u] = worker[u]
  BY <1>1, <1>2 DEF SearchTypes
<1>6. SearchTypes'
  BY <1>1, <1>2, <1>3, <1>4 DEF SearchTypes
<1>7. /\ HasSource(w)' /\ ~HasSource(w)
      /\ \A u \in Worker : u # w => (HasSource(u)' <=> HasSource(u))
  BY <1>2, <1>4, <1>5 DEF HasSource
<1>8. \A u \in Worker : HasSource(u) => worker[u].source # v
  BY <1>1, <1>3 DEF SourcesInv
<1>9. SourcesInv'
  <2>1. ASSUME NEW u \in Worker, HasSource(u)'
        PROVE  /\ worker'[u].source \in sampled' \ Members(source_queue')
               /\ worker'[u].left \subseteq Reach[worker'[u].source]
               /\ \A x \in Worker \ {u} : HasSource(x)' => worker'[x].source # worker'[u].source
    <3>1. CASE u = w
      BY <3>1, <1>1, <1>2, <1>3, <1>4, <1>5, <1>7, <1>8 DEF SourcesInv
    <3>2. CASE u # w
      <4>1. HasSource(u) /\ worker'[u] = worker[u]
        BY <3>2, <2>1, <1>5, <1>7
      <4>2. worker[u].source \in sampled' \ Members(source_queue')
        BY <4>1, <1>1, <1>2, <1>3 DEF SourcesInv
      <4>3. \A x \in Worker \ {u} : HasSource(x)' => worker'[x].source # worker'[u].source
        BY <4>1, <1>1, <1>4, <1>5, <1>7, <1>8 DEF SourcesInv
      <4>4. worker[u].left \subseteq Reach[worker[u].source]
        BY <4>1, <1>1 DEF SourcesInv
      <4>. QED BY <4>1, <4>2, <4>3, <4>4
    <3>. QED BY <3>1, <3>2
  <2>2. \A u \in Worker : worker'[u].at = "ended" => worker[u].at = "ended"
    BY <1>4, <1>5
  <2>. QED BY <2>1, <2>2, <1>1, <1>2, <1>3 DEF SourcesInv
<1>10. \A u \in Worker : worker'[u].at = "ended" <=> worker[u].at = "ended"
  BY <1>2, <1>4, <1>5
<1>11. QueuesInv' /\ EndsInv'
  BY <1>2, <1>10 DEF SearchInv, QueuesInv, EndsInv, Heard
<1>12. ASSUME NEW p \in Pairs
       PROVE  PairInv(p)'
  <2>1. PairInv(p)
    BY DEF SearchInv
  <2>2. Open(p)' => Open(p)
    <3>1. CASE p[1] \in Members(source_queue')
      BY <3>1, <1>3 DEF Open
    <3>2. ASSUME NEW u \in Worker, HasSource(u)', worker'[u].source = p[1],
                 p[2] \in worker'[u].left
          PROVE  Open(p)
      <4>1. CASE u = w
        BY <4>1, <3>2, <1>3, <1>4, <1>5 DEF Open
      <4>2. CASE u # w
        BY <4>2, <3>2, <1>5, <1>7 DEF Open
      <4>. QED BY <4>1, <4>2
    <3>. QED BY <3>1, <3>2 DEF Open
  <2>3. p \in Wanted /\ Open(p) => Open(p)'
    <3>1. CASE p[1] \in Members(source_queue) /\ p[1] # v
      BY <3>1, <1>3 DEF Open
    <3>2. CASE p[1] = v /\ p \in Wanted
      <4>1. p[2] \in Reach[v]
        BY <3>2, WantedIs
      <4>. QED BY <4>1, <3>2, <1>4, <1>5, <1>7 DEF Open
    <3>3. ASSUME NEW u \in Worker, HasSource(u), worker[u].source = p[1], p[2] \in worker[u].left
          PROVE  Open(p)'
      BY <3>3, <1>5, <1>7 DEF Open
    <3>. QED BY <3>1, <3>2, <3>3 DEF Open
  <2>4. p \in Wanted' <=> p \in Wanted
    BY <1>2 DEF Wanted, IsDestination
  <2>5. \A u \in Worker : InQueue(p, u)' <=> InQueue(p, u)
    BY <1>2 DEF InQueue
  <2>. QED BY <2>1, <2>2, <2>3, <2>4, <2>5, <1>2 DEF PairInv
<1>. QED BY <1>6, <1>9, <1>11, <1>12 DEF SearchInv

\* A worker takes a STOP, when no source is left, and puts its own.
LEMMA TakeStopKeeps ==
  ASSUME SearchInv, NEW w \in Worker, Take(w), Head(source_queue) = STOP, UNCHANGED filter
  PROVE  SearchInv'
<1>. DEFINE s == path_queue[w]
<1>1. SearchTypes /\ SourcesInv /\ QueuesInv /\ EndsInv
  BY DEF SearchInv
<1>2. /\ worker[w].at = "idle" /\ source_queue # << >>
      /\ source_queue' = Tail(source_queue)
      /\ worker' = [worker EXCEPT ![w].at = "ended"]
      /\ path_queue' = [path_queue EXCEPT ![w] = Append(s, STOP)]
      /\ UNCHANGED <<phase, unseen, sampled, ends, reported>>
  BY DEF Take
<1>3. STOP \notin Vertex /\ STOP \notin Pairs
  BY SearchAssumption DEF Pairs
<1>4. /\ source_queue' \in Seq(Vertex \cup {STOP})
      /\ Members(source_queue) = Members(source_queue') \cup {STOP}
      /\ Members(source_queue) \subseteq {STOP}
      /\ OnceEach(source_queue', Vertex) /\ StopsLast(source_queue')
  BY <1>1, <1>2, TailMembers DEF SearchTypes, SourcesInv
<1>5. /\ s \in Seq(Pairs \cup {STOP})
      /\ OnceEach(s, Pairs \cup {STOP})
      /\ STOP \notin Members(s)
  BY <1>1, <1>2 DEF SearchTypes, QueuesInv
<1>. HIDE DEF s
<1>6. /\ Append(s, STOP) \in Seq(Pairs \cup {STOP}) /\ Append(s, STOP) # << >>
      /\ Members(Append(s, STOP)) = Members(s) \cup {STOP}
      /\ Append(s, STOP)[Len(Append(s, STOP))] = STOP
      /\ OnceEach(Append(s, STOP), Pairs \cup {STOP})
  BY <1>5, AppendMembers
<1>7. /\ path_queue'[w] = Append(s, STOP)
      /\ worker'[w].at = "ended"
      /\ \A v \in Worker : v # w => path_queue'[v] = path_queue[v] /\ worker'[v] = worker[v]
  BY <1>1, <1>2 DEF SearchTypes
<1>8. SearchTypes'
  <2>1. worker' \in [Worker -> [at : {"idle", "paths", "gone", "ended"},
                                source : Vertex \cup {STOP}, left : SUBSET Vertex]]
    <3>. DEFINE Kind == [at : {"idle", "paths", "gone", "ended"},
                         source : Vertex \cup {STOP}, left : SUBSET Vertex]
    <3>1. worker \in [Worker -> Kind]
      BY <1>1 DEF SearchTypes
    <3>2. [worker[w] EXCEPT !.at = "ended"] \in Kind
      BY <3>1
    <3>3. worker' = [worker EXCEPT ![w] = [worker[w] EXCEPT !.at = "ended"]]
      BY <1>2
    <3>. HIDE DEF Kind
    <3>4. worker' \in [Worker -> Kind]
      BY <3>1, <3>2, <3>3
    <3>. QED BY <3>4 DEF Kind
  <2>2. path_queue' \in [Worker -> Seq(Pairs \cup {STOP})]
    BY <1>1, <1>2, <1>6 DEF SearchTypes
  <2>. QED BY <2>1, <2>2, <1>1, <1>2, <1>4 DEF SearchTypes
<1>9. /\ ~HasSource(w) /\ ~HasSource(w)'
      /\ \A v \in Worker : v # w => (HasSource(v)' <=> HasSource(v))
  BY <1>2, <1>7 DEF HasSource
<1>10. SourcesInv'
  <2>1. Members(source_queue') \cap Vertex = {}
    BY <1>3, <1>4
  <2>2. phase # "feeding"
    BY <1>1, <1>4 DEF SourcesInv
  <2>3. ASSUME NEW v \in Worker, HasSource(v)'
        PROVE  /\ worker'[v].source \in sampled' \ Members(source_queue')
               /\ worker'[v].left \subseteq Reach[worker'[v].source]
               /\ \A x \in Worker \ {v} : HasSource(x)' => worker'[x].source # worker'[v].source
    <3>1. v # w /\ HasSource(v) /\ worker'[v] = worker[v]
      BY <2>3, <1>7, <1>9
    <3>2. worker[v].source \in sampled' \ Members(source_queue')
      BY <3>1, <1>1, <1>2, <1>4 DEF SourcesInv
    <3>3. \A x \in Worker \ {v} : HasSource(x)' => worker'[x].source # worker'[v].source
      BY <3>1, <1>1, <1>7, <1>9 DEF SourcesInv
    <3>4. worker[v].left \subseteq Reach[worker[v].source]
      BY <3>1, <1>1 DEF SourcesInv
    <3>. QED BY <3>1, <3>2, <3>3, <3>4
  <2>. QED BY <2>1, <2>2, <2>3, <1>1, <1>2, <1>4 DEF SourcesInv
<1>11. QueuesInv'
  <2>1. ASSUME NEW v \in Worker
        PROVE  /\ OnceEach(path_queue'[v], Pairs \cup {STOP})
               /\ STOP \in Members(path_queue'[v]) => worker'[v].at = "ended"
               /\ worker'[v].at = "ended" /\ path_queue'[v] # << >> =>
                    path_queue'[v][Len(path_queue'[v])] = STOP
    <3>1. CASE v = w
      BY <3>1, <1>6, <1>7
    <3>2. CASE v # w
      BY <3>2, <1>1, <1>7 DEF QueuesInv
    <3>. QED BY <3>1, <3>2
  <2>. QED BY <2>1 DEF QueuesInv
<1>12. EndsInv'
  <2>1. w \notin Heard /\ path_queue'[w] # << >>
    BY <1>2, <1>6, <1>7 DEF Heard
  <2>2. Heard' = Heard
    BY <2>1, <1>7 DEF Heard
  <2>. QED BY <2>1, <2>2, <1>1, <1>2 DEF EndsInv
<1>13. ASSUME NEW p \in Pairs
       PROVE  PairInv(p)'
  <2>1. PairInv(p)
    BY DEF SearchInv
  <2>2. Open(p)' <=> Open(p)
    <3>1. p[1] # STOP
      BY <1>3, WantedIs
    <3>2. p[1] \in Members(source_queue') <=> p[1] \in Members(source_queue)
      BY <3>1, <1>4
    <3>. QED BY <3>2, <1>7, <1>9 DEF Open
  <2>3. p \in Wanted' <=> p \in Wanted
    BY <1>2 DEF Wanted, IsDestination
  <2>4. \A v \in Worker : InQueue(p, v)' <=> InQueue(p, v)
    <3>1. InQueue(p, w)' <=> InQueue(p, w)
      BY <1>3, <1>6, <1>7 DEF InQueue, s
    <3>. QED BY <3>1, <1>7 DEF InQueue
  <2>. QED BY <2>1, <2>2, <2>3, <2>4, <1>2 DEF PairInv
<1>. QED BY <1>8, <1>10, <1>11, <1>12, <1>13 DEF SearchInv

\* The filter raises: the worker's pairs stay open, and no STOP will come.
LEMMA GoneKeeps ==
  ASSUME SearchInv, NEW w \in Worker, worker[w].at = "paths",
         worker' = [worker EXCEPT ![w].at = "gone"],
         UNCHANGED <<filter, phase, unseen, sampled, source_queue, path_queue, ends, reported>>
  PROVE  SearchInv'
<1>1. SearchTypes
  BY DEF SearchInv
<1>2. /\ worker'[w].at = "gone" /\ worker'[w].source = worker[w].source
      /\ worker'[w].left = worker[w].left
      /\ \A v \in Worker : v # w => worker'[v] = worker[v]
  BY <1>1 DEF SearchTypes
<1>3. SearchTypes'
  BY <1>1 DEF SearchTypes
<1>4. \A v \in Worker : /\ HasSource(v)' <=> HasSource(v)
                        /\ worker'[v].at = "ended" <=> worker[v].at = "ended"
                        /\ worker'[v].source = worker[v].source
                        /\ worker'[v].left = worker[v].left
  BY <1>2 DEF HasSource
<1>5. SourcesInv'
  BY <1>4 DEF SearchInv, SourcesInv
<1>6. QueuesInv' /\ EndsInv'
  BY <1>4 DEF SearchInv, QueuesInv, EndsInv, Heard
<1>7. \A p \in Pairs : PairInv(p)'
  BY <1>4 DEF SearchInv, PairInv, Open, InQueue, Wanted, IsDestination
<1>. QED BY <1>3, <1>5, <1>6, <1>7 DEF SearchInv

\* A worker that has answered all the pairs of a source is done with it.
LEMMA SourceDoneKeeps ==
  ASSUME SearchInv, NEW w \in Worker, SourceDone(w), UNCHANGED filter
  PROVE  SearchInv'
<1>1. SearchTypes
  BY DEF SearchInv
<1>2. /\ worker[w].at = "paths" /\ worker[w].left = {}
      /\ worker' = [worker EXCEPT ![w] = Idle]
      /\ UNCHANGED <<phase, unseen, sampled, source_queue, path_queue, ends, reported>>
  BY DEF SourceDone
<1>3. /\ worker'[w].at = "idle"
      /\ \A v \in Worker : v # w => worker'[v] = worker[v]
  BY <1>1, <1>2 DEF SearchTypes, Idle
<1>4. SearchTypes'
  BY <1>1, <1>2 DEF SearchTypes, Idle
<1>5. /\ ~HasSource(w)'
      /\ \A v \in Worker : v # w => (HasSource(v)' <=> HasSource(v))
      /\ \A v \in Worker : worker'[v].at = "ended" <=> worker[v].at = "ended"
  BY <1>2, <1>3 DEF HasSource
<1>6. SourcesInv'
  BY <1>2, <1>3, <1>5 DEF SearchInv, SourcesInv
<1>7. QueuesInv' /\ EndsInv'
  BY <1>2, <1>5 DEF SearchInv, QueuesInv, EndsInv, Heard
<1>8. ASSUME NEW p \in Pairs
      PROVE  PairInv(p)'
  <2>1. Open(p)' <=> Open(p)
    BY <1>2, <1>3, <1>5 DEF Open
  <2>2. p \in Wanted' <=> p \in Wanted
    BY <1>2 DEF Wanted, IsDestination
  <2>3. \A v \in Worker : InQueue(p, v)' <=> InQueue(p, v)
    BY <1>2 DEF InQueue
  <2>. QED BY <2>1, <2>2, <2>3, <1>2 DEF SearchInv, PairInv
<1>. QED BY <1>4, <1>6, <1>7, <1>8 DEF SearchInv

\* A worker answers a pair of its source: puts it, if it is wanted.
LEMMA AnswerKeeps ==
  ASSUME SearchInv, NEW w \in Worker, worker[w].at = "paths", NEW d \in worker[w].left,
         worker' = [worker EXCEPT ![w].left = @ \ {d}],
         path_queue' = [path_queue EXCEPT ![w] =
           @ \o IF IsDestination(d) THEN <<<<worker[w].source, d>>>> ELSE << >>],
         UNCHANGED <<filter, phase, unseen, sampled, source_queue, ends, reported>>
  PROVE  SearchInv'
<1>. DEFINE s == path_queue[w]
            v == worker[w].source
            q == <<worker[w].source, d>>
            t == s \o IF IsDestination(d) THEN <<q>> ELSE << >>
<1>1. SearchTypes /\ SourcesInv /\ QueuesInv /\ EndsInv
  BY DEF SearchInv
<1>2. /\ v \in sampled \ Members(source_queue) /\ v \in Vertex
      /\ d \in Vertex /\ d \in Reach[v]
      /\ \A u \in Worker \ {w} : HasSource(u) => worker[u].source # v
  BY <1>1 DEF SourcesInv, HasSource, SearchTypes
<1>3. q \in Pairs /\ q[1] = v /\ q[2] = d
  BY <1>2 DEF Pairs
<1>4. /\ s \in Seq(Pairs \cup {STOP})
      /\ OnceEach(s, Pairs \cup {STOP})
      /\ STOP \notin Members(s)
  BY <1>1 DEF SearchTypes, QueuesInv
<1>5. HasSource(w)
  BY DEF HasSource
<1>6. Open(q)
  BY <1>3, <1>5 DEF Open
<1>7. PairInv(q)
  BY <1>3 DEF SearchInv
<1>8. reported[q] = 0 /\ \A u \in Worker : ~InQueue(q, u)
  BY <1>6, <1>7 DEF PairInv
<1>9. /\ worker'[w].at = "paths" /\ worker'[w].source = v
      /\ worker'[w].left = worker[w].left \ {d}
      /\ path_queue'[w] = t
      /\ \A u \in Worker : u # w => worker'[u] = worker[u] /\ path_queue'[u] = path_queue[u]
  BY <1>1 DEF SearchTypes
<1>. HIDE DEF s, q, t, v
<1>10. /\ t \in Seq(Pairs \cup {STOP})
       /\ OnceEach(t, Pairs \cup {STOP})
       /\ Members(t) = Members(s) \cup (IF IsDestination(d) THEN {q} ELSE {})
  <2>1. CASE IsDestination(d)
    <3>1. t = Append(s, q)
      BY <2>1, <1>3, <1>4 DEF t
    <3>2. q \notin Members(s)
      BY <1>8 DEF InQueue, s
    <3>. QED BY <3>1, <3>2, <2>1, <1>3, <1>4, AppendMembers
  <2>2. CASE ~IsDestination(d)
    <3>1. t = s
      BY <2>2, <1>4 DEF t
    <3>. QED BY <3>1, <2>2, <1>4
  <2>. QED BY <2>1, <2>2
<1>11. SearchTypes'
  <2>1. worker' \in [Worker -> [at : {"idle", "paths", "gone", "ended"},
                                source : Vertex \cup {STOP}, left : SUBSET Vertex]]
    BY <1>1 DEF SearchTypes
  <2>2. path_queue' \in [Worker -> Seq(Pairs \cup {STOP})]
    <3>1. path_queue' = [path_queue EXCEPT ![w] = t]
      BY DEF t, s, q
    <3>. QED BY <3>1, <1>1, <1>10 DEF SearchTypes
  <2>. QED BY <2>1, <2>2, <1>1 DEF SearchTypes
<1>12. \A u \in Worker : /\ HasSource(u)' <=> HasSource(u)
                         /\ worker'[u].at = "ended" <=> worker[u].at = "ended"
                         /\ worker'[u].source = worker[u].source
                         /\ worker'[u].left \subseteq worker[u].left
  BY <1>5, <1>9 DEF HasSource, v
<1>13. SourcesInv'
  BY <1>1, <1>12 DEF SourcesInv
<1>14. STOP # q
  BY <1>3, SearchAssumption DEF Pairs
<1>15. QueuesInv'
  <2>1. ASSUME NEW u \in Worker
        PROVE  /\ OnceEach(path_queue'[u], Pairs \cup {STOP})
               /\ STOP \in Members(path_queue'[u]) => worker'[u].at = "ended"
               /\ worker'[u].at = "ended" /\ path_queue'[u] # << >> =>
                    path_queue'[u][Len(path_queue'[u])] = STOP
    <3>1. CASE u = w
      BY <3>1, <1>4, <1>9, <1>10, <1>14
    <3>2. CASE u # w
      BY <3>2, <1>1, <1>9 DEF QueuesInv
    <3>. QED BY <3>1, <3>2
  <2>. QED BY <2>1 DEF QueuesInv
<1>16. EndsInv'
  <2>1. Heard' = Heard
    BY <1>9 DEF Heard
  <2>. QED BY <2>1, <1>1 DEF EndsInv
<1>17. ASSUME NEW p \in Pairs
       PROVE  PairInv(p)'
  <2>1. PairInv(p)
    BY DEF SearchInv
  <2>2. p = <<p[1], p[2]>>
    BY WantedIs
  <2>3. p \in Wanted' <=> p \in Wanted
    BY DEF Wanted, IsDestination
  <2>4. \A u \in Worker : u # w => (InQueue(p, u)' <=> InQueue(p, u))
    BY <1>9 DEF InQueue
  <2>5. InQueue(p, w)' <=> InQueue(p, w) \/ (p = q /\ IsDestination(d))
    BY <1>9, <1>10 DEF InQueue, s
  <2>6. CASE p = q
    <3>1. ~Open(p)'
      BY <2>6, <1>2, <1>3, <1>9, <1>12 DEF Open
    <3>2. p \in Wanted <=> IsDestination(d)
      BY <2>6, <1>2, <1>3, WantedIs
    <3>. QED BY <3>1, <3>2, <2>3, <2>4, <2>5, <2>6, <1>8 DEF PairInv
  <2>7. CASE p # q
    <3>1. ~(p[1] = v /\ p[2] = d)
      BY <2>2, <2>7 DEF q, v
    <3>2. Open(p)' => Open(p)
      BY <1>12 DEF Open
    <3>3. Open(p) => Open(p)'
      <4>1. ASSUME NEW u \in Worker, HasSource(u), worker[u].source = p[1],
                   p[2] \in worker[u].left
            PROVE  HasSource(u)' /\ worker'[u].source = p[1] /\ p[2] \in worker'[u].left
        <5>1. CASE u = w
          BY <5>1, <4>1, <3>1, <1>9, <1>12 DEF v
        <5>2. CASE u # w
          BY <5>2, <4>1, <1>9, <1>12
        <5>. QED BY <5>1, <5>2
      <4>. QED BY <4>1 DEF Open
    <3>4. \A u \in Worker : InQueue(p, u)' <=> InQueue(p, u)
      BY <2>4, <2>5, <2>7
    <3>. QED BY <3>2, <3>3, <3>4, <2>1, <2>3 DEF PairInv
  <2>. QED BY <2>6, <2>7
<1>. QED BY <1>11, <1>13, <1>15, <1>16, <1>17 DEF SearchInv

LEMMA SearchStepInv == SearchInv /\ [SearchNext]_searchVars => SearchInv'
<1>. SUFFICES ASSUME SearchInv, [SearchNext]_searchVars PROVE SearchInv'
  OBVIOUS
<1>1. CASE UNCHANGED searchVars
  BY ZenonT(40), <1>1 DEF searchVars, SearchInv, SearchTypes, SourcesInv, QueuesInv, EndsInv, Heard,
              PairInv, Open, InQueue, Wanted, HasSource, IsDestination
<1>2. CASE Caller /\ UNCHANGED filter
  <2>1. ASSUME NEW v \in unseen, Feed(v) PROVE SearchInv'
    <3>1. CASE UNCHANGED <<sampled, source_queue>>
      BY <3>1, <2>1, <1>2, PassKeeps DEF Feed
    <3>2. CASE sampled' = sampled \cup {v} /\ source_queue' = Append(source_queue, v)
      BY <3>2, <2>1, <1>2, SourceKeeps DEF Feed
    <3>. QED BY <2>1, <3>1, <3>2 DEF Feed
  <2>2. ASSUME NEW v \in unseen, FeedRaises(v) PROVE SearchInv'
    BY <2>2, <1>2, PassKeeps DEF FeedRaises
  <2>. QED BY <1>2, <2>1, <2>2, FeedStopsKeeps, CollectKeeps, JoinKeeps DEF Caller, FeedNext
<1>3. ASSUME NEW w \in Worker, WorkerStep(w), UNCHANGED filter
      PROVE  SearchInv'
  <2>1. CASE Take(w)
    BY <2>1, <1>3, TakeSourceKeeps, TakeStopKeeps
  <2>2. CASE Answer(w)
    <3>1. PICK d \in worker[w].left :
            IF filter[d] = "raises"
            THEN worker' = [worker EXCEPT ![w].at = "gone"] /\ UNCHANGED path_queue
            ELSE /\ worker' = [worker EXCEPT ![w].left = @ \ {d}]
                 /\ path_queue' =
                      [path_queue EXCEPT ![w] =
                         @ \o IF IsDestination(d) THEN <<<<worker[w].source, d>>>> ELSE << >>]
      BY <2>2 DEF Answer
    <3>2. /\ worker[w].at = "paths"
          /\ UNCHANGED <<phase, unseen, sampled, source_queue, ends, reported>>
      BY <2>2 DEF Answer
    <3>3. CASE filter[d] = "raises"
      BY <3>1, <3>2, <3>3, <1>3, GoneKeeps
    <3>4. CASE filter[d] # "raises"
      BY <3>1, <3>2, <3>4, <1>3, AnswerKeeps
    <3>. QED BY <3>3, <3>4
  <2>3. CASE SourceDone(w)
    BY <2>3, <1>3, SourceDoneKeeps
  <2>. QED BY <1>3, <2>1, <2>2, <2>3 DEF WorkerStep
<1>. QED BY <1>1, <1>2, <1>3 DEF SearchNext

\* With any number of workers, vertices and paths, and any filter: a search
\* that returns has reported the pairs it wants, each of them once
\* (filtered_all_pairs_shortest_path).
THEOREM PairsAreReportedOnce == SearchSpec => []EveryPairOnce
<1>1. SearchInv => EveryPairOnce
  <2>. SUFFICES ASSUME SearchInv, phase = "returned", NEW p \in Pairs
                PROVE  reported[p] = IF p \in Wanted THEN 1 ELSE 0
    BY DEF EveryPairOnce, SearchInv, SearchTypes
  <2>1. Heard = Worker
    BY DEF SearchInv, EndsInv
  <2>2. \A w \in Worker : worker[w].at = "ended" /\ path_queue[w] = << >>
    BY <2>1 DEF Heard
  <2>3. PICK w \in Worker : TRUE
    BY SearchAssumption
  <2>4. Members(source_queue) \cap Vertex = {}
    BY <2>2, <2>3 DEF SearchInv, SourcesInv
  <2>5. ~Open(p)
    BY <2>2, <2>4, WantedIs DEF Open, HasSource
  <2>6. \A u \in Worker : ~InQueue(p, u)
    BY <2>2 DEF InQueue, Members
  <2>7. PairInv(p)
    BY DEF SearchInv
  <2>. QED BY <2>5, <2>6, <2>7 DEF PairInv
<1>. QED BY <1>1, SearchInitInv, SearchStepInv, PTL DEF SearchSpec

-----------------------------------------------------------------------------
(* Decoration: what the classes have brought to an instance, and the calls  *)
(* of decorate under way.                                                   *)

AFrame == [instance : Instance, class : Class, left : SUBSET Entry]

OwnName(c) == \A d \in Class : ClassName[d] = ClassName[c] => d = c

DecorationTypes ==
  /\ frames \in Seq(AFrame)
  /\ decorators \in [Instance -> SUBSET Class]
  /\ initialized \in [Instance -> SUBSET Class]
  /\ DOMAIN begun = Instance
  /\ holds \in [Instance -> [Entry -> SUBSET (Class \cup {"self"})]]
  /\ DOMAIN cached_self_dir = Instance
  /\ \A n \in DOMAIN CACHED_DECORATOR_OBJECTS : CACHED_DECORATOR_OBJECTS[n] \subseteq Entry

\* The cache has for a name that one class has the entries of the class; ...
CacheInv ==
  \A c \in Class : ClassName[c] \in DOMAIN CACHED_DECORATOR_OBJECTS /\ OwnName(c) =>
    CACHED_DECORATOR_OBJECTS[ClassName[c]] = Entries[c]

\* ... what a class has brought to an instance, as a decorator or so far, is
\* there, unless an __init__ assigns it, and is taken for present, which keeps
\* the next class from replacing it.
Brought(i, c, x) ==
  (c \in holds[i][x] \/ Assigned(i, x, c)) /\ x \in cached_self_dir[i]

BroughtInv ==
  /\ \A i \in Instance : \A c \in decorators[i] : \A x \in Entries[c] :
       Plain(c, x) => Brought(i, c, x)
  /\ \A k \in 1..Len(frames) : \A x \in Entries[frames[k].class] \ frames[k].left :
       Plain(frames[k].class, x) => Brought(frames[k].instance, frames[k].class, x)
  /\ \A i \in Instance : \A x \in Own : Brought(i, "self", x)

\* The calls under way are on one instance, each for what the next outer one
\* requires; all but the innermost are of decorators.
FramesInv ==
  /\ \A j, k \in 1..Len(frames) : frames[j].instance = frames[k].instance
  /\ \A k \in 1..Len(frames) : k > 1 =>
       frames[k].left = {} /\ frames[k].class \in decorators[frames[k].instance]
  /\ \A k \in 1..Len(frames) : k > 1 => frames[k - 1].class \in RequiredBy(frames[k].class)

UnderWay(i, d) == \E k \in 1..Len(frames) : frames[k].instance = i /\ frames[k].class = d

\* A decorator that is not initialized is being decorated with.
InitializedInv ==
  \A i \in Instance \ refused : \A d \in decorators[i] : d \in initialized[i] \/ UnderWay(i, d)

DecorationInv ==
  /\ DecorationTypes /\ CacheInv /\ BroughtInv /\ FramesInv
  /\ InitializedInv /\ RequiredAreInitializedFirst

-----------------------------------------------------------------------------

LEMMA DecorationInitInv == DecorationInit => DecorationInv
<1>. SUFFICES ASSUME DecorationInit PROVE DecorationInv
  OBVIOUS
<1>. USE DEF DecorationInit
<1>1. DecorationTypes
  BY DEF DecorationTypes
<1>2. CacheInv
  BY DEF CacheInv
<1>3. BroughtInv
  <2>1. \A i \in Instance : \A x \in Own : Brought(i, "self", x)
    BY DecorationAssumption DEF Brought
  <2>. QED BY <2>1 DEF BroughtInv
<1>4. FramesInv
  BY DEF FramesInv
<1>5. InitializedInv /\ RequiredAreInitializedFirst
  BY DEF InitializedInv, RequiredAreInitializedFirst
<1>. QED BY <1>1, <1>2, <1>3, <1>4, <1>5 DEF DecorationInv

\* The innermost call.
LEMMA FrameTypes ==
  ASSUME DecorationTypes, frames # << >>
  PROVE  /\ 1 \in 1..Len(frames)
         /\ Frame \in AFrame /\ Frame = frames[1]
         /\ Frame.instance \in Instance /\ Frame.class \in Class /\ Frame.left \subseteq Entry
<1>1. Len(frames) \in Nat /\ Len(frames) # 0
  BY EmptySeq DEF DecorationTypes
<1>2. 1 \in 1..Len(frames)
  BY <1>1
<1>3. frames[1] \in AFrame
  BY <1>2 DEF DecorationTypes
<1>. QED BY <1>2, <1>3 DEF Frame, AFrame

\* The calls when one more is entered.
LEMMA EnterFrames ==
  ASSUME NEW s \in Seq(AFrame), NEW r \in AFrame
  PROVE  /\ <<r>> \o s \in Seq(AFrame)
         /\ Len(<<r>> \o s) = Len(s) + 1
         /\ (<<r>> \o s)[1] = r
         /\ \A k \in 1..Len(s) : (<<r>> \o s)[k + 1] = s[k]
         /\ \A k \in 1..Len(<<r>> \o s) : k > 1 => k - 1 \in 1..Len(s) /\ (<<r>> \o s)[k] = s[k - 1]
<1>1. <<r>> \in Seq(AFrame) /\ Len(<<r>>) = 1 /\ <<r>>[1] = r
  OBVIOUS
<1>2. Len(s) \in Nat
  OBVIOUS
<1>. DEFINE t == <<r>> \o s
<1>3. /\ t \in Seq(AFrame) /\ Len(t) = 1 + Len(s)
      /\ \A k \in 1..1 + Len(s) : t[k] = IF k <= 1 THEN <<r>>[k] ELSE s[k - 1]
  BY <1>1, ConcatProperties
<1>. HIDE DEF t
<1>4. t[1] = r
  BY <1>1, <1>2, <1>3
<1>5. \A k \in 1..Len(s) : t[k + 1] = s[k]
  BY <1>2, <1>3
<1>6. \A k \in 1..Len(t) : k > 1 => k - 1 \in 1..Len(s) /\ t[k] = s[k - 1]
  BY <1>2, <1>3
<1>. QED BY <1>2, <1>3, <1>4, <1>5, <1>6 DEF t

\* A call is entered: the class is no decorator yet, and is the first or is
\* required by the class of the innermost call.
LEMMA EnterKeeps ==
  ASSUME DecorationInv, NEW i \in Instance, NEW c \in Class, NEW given, Enter(i, c, given),
         frames # << >> => /\ Initializing /\ Frame.instance = i
                           /\ c \in RequiredBy(Frame.class)
  PROVE  DecorationInv'
<1>. DEFINE r == [instance |-> i, class |-> c, left |-> EntriesFound(c)]
<1>1. DecorationTypes /\ CacheInv /\ BroughtInv /\ FramesInv
  BY DEF DecorationInv
<1>2. /\ Remember(c)
      /\ frames' = <<r>> \o frames
      /\ UNCHANGED <<decorators, holds, cached_self_dir, begun, initialized, refused>>
  BY DEF Enter
<1>3. EntriesFound(c) \subseteq Entry
  BY <1>1, DecorationAssumption DEF EntriesFound, DecorationTypes
<1>4. OwnName(c) => EntriesFound(c) = Entries[c]
  BY <1>1 DEF EntriesFound, CacheInv
<1>5. /\ r \in AFrame /\ r.instance = i /\ r.class = c /\ r.left = EntriesFound(c)
  BY <1>3 DEF AFrame
<1>. HIDE DEF r
<1>6. /\ frames' \in Seq(AFrame) /\ Len(frames') = Len(frames) + 1 /\ Len(frames) \in Nat
      /\ frames'[1] = r
      /\ \A k \in 1..Len(frames) : frames'[k + 1] = frames[k]
      /\ \A k \in 1..Len(frames') : k > 1 => k - 1 \in 1..Len(frames) /\ frames'[k] = frames[k - 1]
  BY <1>1, <1>2, <1>5, EnterFrames, LenProperties DEF DecorationTypes
<1>7. DecorationTypes' /\ CacheInv'
  <2>1. /\ DOMAIN CACHED_DECORATOR_OBJECTS' = DOMAIN CACHED_DECORATOR_OBJECTS \cup {ClassName[c]}
        /\ CACHED_DECORATOR_OBJECTS'[ClassName[c]] = EntriesFound(c)
        /\ \A n \in DOMAIN CACHED_DECORATOR_OBJECTS : n # ClassName[c] =>
             CACHED_DECORATOR_OBJECTS'[n] = CACHED_DECORATOR_OBJECTS[n]
    BY <1>2 DEF Remember
  <2>2. \A n \in DOMAIN CACHED_DECORATOR_OBJECTS' : CACHED_DECORATOR_OBJECTS'[n] \subseteq Entry
    BY <2>1, <1>1, <1>3 DEF DecorationTypes
  <2>3. DecorationTypes'
    BY <2>2, <1>1, <1>2, <1>6 DEF DecorationTypes
  <2>4. ASSUME NEW d \in Class, ClassName[d] \in DOMAIN CACHED_DECORATOR_OBJECTS', OwnName(d)
        PROVE  CACHED_DECORATOR_OBJECTS'[ClassName[d]] = Entries[d]
    <3>1. CASE ClassName[d] = ClassName[c]
      <4>1. c = d
        BY <3>1, <2>4 DEF OwnName
      <4>. QED BY <4>1, <2>1, <2>4, <1>4
    <3>2. CASE ClassName[d] # ClassName[c]
      BY <3>2, <2>1, <2>4, <1>1 DEF CacheInv
    <3>. QED BY <3>1, <3>2
  <2>. QED BY <2>3, <2>4 DEF CacheInv
<1>8. BroughtInv'
  <2>1. \A d, x : Brought(i, d, x)' <=> Brought(i, d, x)
    BY <1>2 DEF Brought, Assigned
  <2>2. ASSUME NEW k \in 1..Len(frames'), NEW x \in Entries[frames'[k].class] \ frames'[k].left,
               Plain(frames'[k].class, x)
        PROVE  Brought(frames[k].instance, frames[k].class, x)'
    <3>1. CASE k = 1
      <4>1. x \in Entries[c] \ EntriesFound(c) /\ OwnName(c)
        BY <3>1, <2>2, <1>5, <1>6 DEF Plain, OwnName
      <4>. QED BY <4>1, <1>4
    <3>2. CASE k > 1
      <4>1. k - 1 \in 1..Len(frames) /\ frames'[k] = frames[k - 1]
        BY <3>2, <1>6
      <4>2. Brought(frames[k - 1].instance, frames[k - 1].class, x)
        BY <4>1, <2>2, <1>1 DEF BroughtInv
      <4>. QED BY <4>1, <4>2, <1>2 DEF Brought, Assigned
    <3>. QED BY <3>1, <3>2, <1>6
  <2>3. \A j \in Instance : \A x \in Own : Brought(j, "self", x)'
    BY <1>1, <1>2 DEF BroughtInv, Brought, Assigned
  <2>4. \A j \in Instance : \A d \in decorators'[j] : \A x \in Entries[d] :
          Plain(d, x) => Brought(j, d, x)'
    BY <1>1, <1>2 DEF BroughtInv, Brought, Assigned
  <2>. QED BY <2>2, <2>3, <2>4 DEF BroughtInv
<1>9. FramesInv'
  <2>1. ASSUME NEW k \in 1..Len(frames), frames # << >>
        PROVE  frames[k].instance = i
    <3>1. 1 \in 1..Len(frames) /\ frames[1].instance = i
      BY <2>1, <1>1, FrameTypes
    <3>. QED BY <3>1, <1>1 DEF FramesInv
  <2>2. \A k \in 1..Len(frames') : frames'[k].instance = i
    <3>1. ASSUME NEW k \in 1..Len(frames'), k > 1 PROVE frames'[k].instance = i
      <4>1. k - 1 \in 1..Len(frames) /\ frames'[k] = frames[k - 1]
        BY <3>1, <1>6
      <4>2. frames # << >>
        BY <4>1
      <4>. QED BY <4>1, <4>2, <2>1
    <3>. QED BY <3>1, <1>5, <1>6
  <2>3. ASSUME NEW k \in 1..Len(frames'), k > 1
        PROVE  /\ frames'[k].left = {} /\ frames'[k].class \in decorators'[frames'[k].instance]
               /\ frames'[k - 1].class \in RequiredBy(frames'[k].class)
    <3>1. k - 1 \in 1..Len(frames) /\ frames'[k] = frames[k - 1] /\ Len(frames) \in Nat
      BY <2>3, <1>6
    <3>2. frames # << >>
      BY <3>1
    <3>3. CASE k = 2
      <4>1. frames'[k] = frames[1] /\ frames'[k - 1] = r
        BY <3>1, <3>3, <1>6
      <4>2. Frame = frames[1] /\ Initializing /\ c \in RequiredBy(Frame.class)
        BY <3>2, <1>1, FrameTypes
      <4>. QED BY <4>1, <4>2, <1>2, <1>5 DEF Initializing
    <3>4. CASE k > 2
      <4>1. k - 1 > 1 /\ k - 1 \in 1..Len(frames') /\ (k - 1) - 1 \in 1..Len(frames)
        BY <3>1, <3>4, <1>6
      <4>2. frames'[k - 1] = frames[(k - 1) - 1]
        BY <4>1, <1>6
      <4>. QED BY <3>1, <4>1, <4>2, <1>1, <1>2 DEF FramesInv
    <3>. QED BY <3>3, <3>4, <2>3, <1>6
  <2>. QED BY <2>2, <2>3 DEF FramesInv
<1>10. InitializedInv'
  <2>1. ASSUME NEW j, NEW d, UnderWay(j, d)
        PROVE  UnderWay(j, d)'
    <3>1. PICK k \in 1..Len(frames) : frames[k].instance = j /\ frames[k].class = d
      BY <2>1 DEF UnderWay
    <3>2. k + 1 \in 1..Len(frames') /\ frames'[k + 1] = frames[k]
      BY <1>6
    <3>. QED BY <3>1, <3>2 DEF UnderWay
  <2>. QED BY <2>1, <1>2 DEF DecorationInv, InitializedInv
<1>11. RequiredAreInitializedFirst'
  BY <1>2 DEF DecorationInv, RequiredAreInitializedFirst
<1>. QED BY <1>7, <1>8, <1>9, <1>10, <1>11 DEF DecorationInv

\* An entry is set to a value with the class in it, and with what was there if
\* the name was taken for present.
LEMMA SetEntryKeeps ==
  ASSUME DecorationInv, frames # << >>, NEW x \in Frame.left, Has(Frame.class, x),
         NEW value \in SUBSET (Class \cup {"self"}), Frame.class \in value, SetEntry(x, value),
         Conflicts(x) => holds[Frame.instance][x] \subseteq value
  PROVE  DecorationInv'
<1>. DEFINE i == Frame.instance
            c == Frame.class
            label == LabelOf[<<Frame.class, x>>]
<1>1. DecorationTypes /\ CacheInv /\ BroughtInv /\ FramesInv
  BY DEF DecorationInv
<1>2. /\ 1 \in 1..Len(frames) /\ Frame \in AFrame /\ Frame = frames[1]
      /\ i \in Instance /\ c \in Class /\ x \in Entry
  BY <1>1, FrameTypes
<1>3. /\ holds' = [holds EXCEPT ![i][x] = value]
      /\ cached_self_dir' = [cached_self_dir EXCEPT ![i] = @ \cup {label}]
      /\ frames' = [frames EXCEPT ![1].left = @ \ {x}]
      /\ UNCHANGED <<CACHED_DECORATOR_OBJECTS, decorators, conflict_handlers, begun, initialized, refused>>
  BY DEF SetEntry
<1>4. /\ frames' \in Seq(AFrame) /\ Len(frames') = Len(frames)
      /\ frames'[1].instance = i /\ frames'[1].class = c /\ frames'[1].left = Frame.left \ {x}
      /\ \A k \in 1..Len(frames) : k # 1 => frames'[k] = frames[k]
  <2>. DEFINE g == [Frame EXCEPT !.left = @ \ {x}]
  <2>1. g \in AFrame /\ g.instance = i /\ g.class = c /\ g.left = Frame.left \ {x}
    BY <1>2 DEF AFrame
  <2>2. frames' = [frames EXCEPT ![1] = g]
    BY <1>2, <1>3
  <2>. HIDE DEF g
  <2>3. frames' \in Seq(AFrame) /\ Len(frames') = Len(frames) /\ frames'[1] = g
    BY <1>1, <1>2, <2>1, <2>2 DEF DecorationTypes
  <2>4. \A k \in 1..Len(frames) : k # 1 => frames'[k] = frames[k]
    BY <1>1, <2>2 DEF DecorationTypes
  <2>. QED BY <2>1, <2>3, <2>4
<1>. HIDE DEF i, c, label
<1>5. \A k \in 1..Len(frames) : /\ frames'[k].instance = frames[k].instance
                                /\ frames'[k].class = frames[k].class
  BY <1>2, <1>4 DEF i, c
<1>6. /\ holds' \in [Instance -> [Entry -> SUBSET (Class \cup {"self"})]]
      /\ holds'[i][x] = value
      /\ \A j \in Instance, y \in Entry : j # i \/ y # x => holds'[j][y] = holds[j][y]
  BY <1>1, <1>2, <1>3 DEF DecorationTypes
<1>7. /\ DOMAIN cached_self_dir' = Instance
      /\ \A j \in Instance : cached_self_dir[j] \subseteq cached_self_dir'[j]
      /\ label \in cached_self_dir'[i]
  BY <1>1, <1>2, <1>3 DEF DecorationTypes
<1>8. DecorationTypes'
  BY <1>1, <1>3, <1>4, <1>6, <1>7 DEF DecorationTypes
<1>9. CacheInv'
  BY <1>1, <1>3 DEF CacheInv
<1>10. ASSUME NEW j \in Instance, NEW d, NEW y \in Entry, Brought(j, d, y)
       PROVE  Brought(j, d, y)'
  <2>1. CASE j = i /\ y = x
    <3>1. x \in cached_self_dir[i] /\ (d \in holds[i][x] \/ Assigned(j, y, d))
      BY <1>10, <2>1 DEF Brought
    <3>2. d \in value \/ Assigned(j, y, d)'
      BY <3>1, <1>3 DEF Conflicts, Assigned, i
    <3>. QED BY <3>1, <3>2, <2>1, <1>6, <1>7 DEF Brought
  <2>2. CASE ~(j = i /\ y = x)
    BY <2>2, <1>3, <1>6, <1>7, <1>10 DEF Brought, Assigned
  <2>. QED BY <2>1, <2>2
<1>11. Plain(c, x) => c \in holds'[i][x] /\ x \in cached_self_dir'[i]
  <2>1. Plain(c, x) => label = x
    BY <1>2 DEF Plain, Has, label, c
  <2>2. c \in value
    BY DEF c
  <2>. QED BY <2>1, <2>2, <1>6, <1>7
<1>12. BroughtInv'
  <2>1. ASSUME NEW k \in 1..Len(frames'), NEW y \in Entries[frames'[k].class] \ frames'[k].left,
               Plain(frames'[k].class, y)
        PROVE  Brought(frames[k].instance, frames[k].class, y)'
    <3>1. /\ k \in 1..Len(frames) /\ frames[k] \in AFrame
          /\ frames'[k].class = frames[k].class
      BY <1>1, <1>4, <1>5 DEF DecorationTypes
    <3>2. frames[k].instance \in Instance /\ y \in Entry
      BY <3>1, DecorationAssumption DEF AFrame
    <3>3. CASE y \notin frames[k].left
      <4>1. Brought(frames[k].instance, frames[k].class, y)
        BY <3>1, <3>3, <2>1, <1>1 DEF BroughtInv
      <4>2. \A j, d : j = frames[k].instance /\ d = frames[k].class => Brought(j, d, y)'
        BY <4>1, <3>2, <1>10
      <4>. QED BY <4>2, <1>5, <3>1 DEF Brought
    <3>4. CASE y \in frames[k].left
      <4>1. k = 1
        BY <3>1, <3>4, <2>1, <1>4
      <4>2. y = x
        BY <4>1, <3>4, <2>1, <1>2, <1>4
      <4>3. frames'[k].instance = i /\ frames'[k].class = c
        BY <4>1, <1>4
      <4>. QED BY <4>2, <4>3, <2>1, <1>11 DEF Brought
    <3>. QED BY <3>3, <3>4
  <2>2. ASSUME NEW j \in Instance, NEW d \in decorators'[j], NEW y \in Entries[d], Plain(d, y)
        PROVE  Brought(j, d, y)'
    <3>1. d \in Class /\ d \in decorators[j] /\ y \in Entry
      BY <1>1, <1>3, DecorationAssumption DEF DecorationTypes
    <3>. QED BY <3>1, <2>2, <1>1, <1>10 DEF BroughtInv
  <2>3. ASSUME NEW j \in Instance, NEW y \in Own PROVE Brought(j, "self", y)'
    BY <1>1, <1>10, DecorationAssumption DEF BroughtInv
  <2>. QED BY <2>1, <2>2, <2>3 DEF BroughtInv
<1>13. FramesInv'
  <2>1. \A k \in 1..Len(frames') : k > 1 =>
          frames'[k].left = {} /\ frames'[k].class \in decorators'[frames'[k].instance]
    BY <1>1, <1>3, <1>4 DEF FramesInv
  <2>2. \A k \in 1..Len(frames') : k > 1 => frames'[k - 1].class \in RequiredBy(frames'[k].class)
    <3>1. ASSUME NEW k \in 1..Len(frames'), k > 1
          PROVE  frames'[k - 1].class \in RequiredBy(frames'[k].class)
      <4>1. k \in 1..Len(frames) /\ k - 1 \in 1..Len(frames)
        BY <3>1, <1>4
      <4>. QED BY <4>1, <3>1, <1>1, <1>5 DEF FramesInv
    <3>. QED BY <3>1
  <2>3. \A j, k \in 1..Len(frames') : frames'[j].instance = frames'[k].instance
    BY <1>1, <1>4, <1>5 DEF FramesInv
  <2>. QED BY <2>1, <2>2, <2>3 DEF FramesInv
<1>14. InitializedInv'
  <2>1. \A j, d : UnderWay(j, d)' <=> UnderWay(j, d)
    BY <1>4, <1>5 DEF UnderWay
  <2>. QED BY <2>1, <1>3 DEF DecorationInv, InitializedInv
<1>15. RequiredAreInitializedFirst'
  BY <1>3 DEF DecorationInv, RequiredAreInitializedFirst
<1>. QED BY <1>8, <1>9, <1>12, <1>13, <1>14, <1>15 DEF DecorationInv

\* A refusal leaves every call under way; they are all on one instance.
LEMMA RefuseKeeps ==
  ASSUME DecorationInv, frames # << >>, Refuse
  PROVE  DecorationInv'
<1>1. DecorationTypes /\ FramesInv
  BY DEF DecorationInv
<1>2. /\ refused' = refused \cup {Frame.instance}
      /\ frames' = << >>
      /\ UNCHANGED <<CACHED_DECORATOR_OBJECTS, decorators, holds, cached_self_dir,
                     conflict_handlers, begun, initialized>>
  BY DEF Refuse
<1>3. Len(frames') = 0 /\ frames' \in Seq(AFrame)
  BY <1>2
<1>4. \A k \in 1..Len(frames) : frames[k].instance = Frame.instance
  BY <1>1, FrameTypes DEF FramesInv
<1>5. InitializedInv'
  <2>1. \A j \in Instance \ refused' : \A d : ~UnderWay(j, d)
    BY <1>2, <1>4 DEF UnderWay
  <2>. QED BY <2>1, <1>2 DEF DecorationInv, InitializedInv
<1>6. BroughtInv'
  BY <1>2, <1>3 DEF DecorationInv, BroughtInv, Brought, Assigned
<1>7. FramesInv'
  BY <1>3 DEF FramesInv
<1>. QED BY <1>1, <1>2, <1>3, <1>5, <1>6, <1>7
         DEF DecorationInv, DecorationTypes, CacheInv, RequiredAreInitializedFirst

\* A class that has brought all its entries is a decorator.
LEMMA BecomeDecoratorKeeps ==
  ASSUME DecorationInv, frames # << >>, BecomeDecorator
  PROVE  DecorationInv'
<1>. DEFINE i == Frame.instance
            c == Frame.class
<1>1. DecorationTypes /\ BroughtInv /\ FramesInv
  BY DEF DecorationInv
<1>2. /\ 1 \in 1..Len(frames) /\ Frame = frames[1]
      /\ i \in Instance /\ c \in Class
  BY <1>1, FrameTypes
<1>3. /\ Frame.left = {}
      /\ decorators' = [decorators EXCEPT ![i] = @ \cup {c}]
      /\ UNCHANGED <<CACHED_DECORATOR_OBJECTS, holds, cached_self_dir,
                     conflict_handlers, begun, initialized, frames, refused>>
  BY DEF BecomeDecorator
<1>4. \A j \in Instance : /\ decorators[j] \subseteq decorators'[j]
                          /\ \A d \in decorators'[j] : d \in decorators[j] \/ (j = i /\ d = c)
  BY <1>1, <1>2, <1>3 DEF DecorationTypes
<1>5. DecorationTypes'
  BY <1>1, <1>2, <1>3 DEF DecorationTypes
<1>6. BroughtInv'
  <2>1. \A y \in Entries[c] : Plain(c, y) => Brought(i, c, y)
    BY <1>1, <1>2, <1>3 DEF BroughtInv
  <2>2. \A j, d, y : Brought(j, d, y)' <=> Brought(j, d, y)
    BY <1>3 DEF Brought, Assigned
  <2>3. \A j \in Instance : \A d \in decorators'[j] : \A y \in Entries[d] :
          Plain(d, y) => Brought(j, d, y)'
    BY <2>1, <2>2, <1>1, <1>4 DEF BroughtInv
  <2>4. \A k \in 1..Len(frames) : \A y \in Entries[frames[k].class] \ frames[k].left :
          Plain(frames[k].class, y) => Brought(frames[k].instance, frames[k].class, y)'
    BY <1>1, <1>3 DEF BroughtInv, Brought, Assigned
  <2>5. \A j \in Instance : \A y \in Own : Brought(j, "self", y)'
    BY <2>2, <1>1 DEF BroughtInv
  <2>. QED BY <2>3, <2>4, <2>5, <1>3 DEF BroughtInv
<1>7. FramesInv'
  <2>1. ASSUME NEW k \in 1..Len(frames), k > 1
        PROVE  frames[k].class \in decorators'[frames[k].instance]
    <3>1. frames[k].class \in decorators[frames[k].instance] /\ frames[k].instance = i
      BY <2>1, <1>1, <1>2 DEF FramesInv
    <3>. QED BY <3>1, <1>2, <1>4
  <2>. QED BY <2>1, <1>1, <1>3 DEF FramesInv
<1>8. InitializedInv'
  <2>1. UnderWay(i, c)
    BY <1>2 DEF UnderWay
  <2>2. \A j, d : UnderWay(j, d)' <=> UnderWay(j, d)
    BY <1>3 DEF UnderWay
  <2>. QED BY <2>1, <2>2, <1>3, <1>4 DEF DecorationInv, InitializedInv
<1>. QED BY <1>3, <1>5, <1>6, <1>7, <1>8
         DEF DecorationInv, CacheInv, RequiredAreInitializedFirst

\* What the class of the innermost call requires is not under way itself: the
\* calls from it to the innermost would require each other in a circle.
LEMMA NoCircle ==
  ASSUME DecorationInv, frames # << >>, NEW d \in RequiredBy(Frame.class),
         UnderWay(Frame.instance, d)
  PROVE  FALSE
<1>1. DecorationTypes /\ FramesInv
  BY DEF DecorationInv
<1>2. 1 \in 1..Len(frames) /\ Frame = frames[1] /\ Len(frames) \in Nat
  BY <1>1, FrameTypes DEF DecorationTypes
<1>3. PICK k \in 1..Len(frames) : frames[k].class = d
  BY DEF UnderWay
<1>. DEFINE S == {frames[j].class : j \in 1..k}
<1>4. S \subseteq Class /\ S # {} /\ d \in S
  <2>1. \A j \in 1..k : frames[j] \in AFrame
    BY <1>1, <1>2 DEF DecorationTypes
  <2>2. k \in 1..k
    BY <1>2
  <2>. QED BY <2>1, <2>2, <1>3 DEF AFrame
<1>5. PICK e \in S : RequiredBy(e) \cap S = {}
  BY <1>4, DecorationAssumption
<1>6. PICK j \in 1..k : e = frames[j].class
  BY <1>5
<1>7. CASE j = 1
  BY <1>2, <1>4, <1>5, <1>6, <1>7
<1>8. CASE j > 1
  <2>1. j \in 1..Len(frames) /\ j - 1 \in 1..k
    BY <1>2, <1>8
  <2>2. frames[j - 1].class \in RequiredBy(e)
    BY <2>1, <1>1, <1>6, <1>8 DEF FramesInv
  <2>. QED BY <2>1, <2>2, <1>5
<1>. QED BY <1>6, <1>7, <1>8

\* What an __init__ assigns is excused; nothing else is lost.
LEMMA AssignKeeps ==
  ASSUME DecorationTypes, frames # << >>,
         NEW attributes \in SUBSET Assigns[Frame.class], Assign(attributes)
  PROVE  /\ holds' \in [Instance -> [Entry -> SUBSET (Class \cup {"self"})]]
         /\ DOMAIN begun' = Instance
         /\ \A j \in Instance, y \in Entry : \A d : Brought(j, d, y) => Brought(j, d, y)'
<1>. DEFINE i == Frame.instance
            c == Frame.class
<1>1. i \in Instance /\ c \in Class
  BY FrameTypes
<1>2. /\ holds' = [holds EXCEPT ![i] =
                    [x \in Entry |-> IF x \in attributes THEN {c} ELSE @[x]]]
      /\ begun' = [begun EXCEPT ![i] = @ \cup {c}]
      /\ cached_self_dir' = cached_self_dir
  BY DEF Assign
<1>. HIDE DEF i, c
<1>3. /\ holds' \in [Instance -> [Entry -> SUBSET (Class \cup {"self"})]]
      /\ \A y \in Entry : holds'[i][y] = IF y \in attributes THEN {c} ELSE holds[i][y]
      /\ \A j \in Instance \ {i} : holds'[j] = holds[j]
  <2>. DEFINE new == [x \in Entry |-> IF x \in attributes THEN {c} ELSE holds[i][x]]
  <2>1. new \in [Entry -> SUBSET (Class \cup {"self"})]
    BY <1>1 DEF DecorationTypes
  <2>2. holds' = [holds EXCEPT ![i] = new]
    BY <1>2
  <2>3. \A y \in Entry : new[y] = IF y \in attributes THEN {c} ELSE holds[i][y]
    OBVIOUS
  <2>. HIDE DEF new
  <2>. QED BY <1>1, <2>1, <2>2, <2>3 DEF DecorationTypes
<1>4. /\ DOMAIN begun' = Instance
      /\ c \in begun'[i]
      /\ \A j \in Instance : begun[j] \subseteq begun'[j]
  BY <1>1, <1>2 DEF DecorationTypes
<1>5. ASSUME NEW j \in Instance, NEW d, NEW y \in Entry, Brought(j, d, y)
      PROVE  Brought(j, d, y)'
  <2>1. Assigned(j, y, d) => Assigned(j, y, d)'
    BY <1>4 DEF Assigned
  <2>2. CASE j = i /\ y \in attributes
    <3>1. d # c => Assigned(j, y, d)'
      BY <1>4, <2>2 DEF Assigned, c
    <3>2. d = c => d \in holds'[j][y]
      BY <1>3, <2>2
    <3>. QED BY <3>1, <3>2, <1>2, <1>5 DEF Brought
  <2>3. CASE ~(j = i /\ y \in attributes)
    <3>1. holds'[j][y] = holds[j][y]
      BY <1>3, <2>3
    <3>. QED BY <3>1, <2>1, <1>2, <1>5 DEF Brought
  <2>. QED BY <2>2, <2>3
<1>. QED BY <1>3, <1>4, <1>5

\* An __init__ that fails leaves every call under way, as a refusal does.
LEMMA InitFailsKeeps ==
  ASSUME DecorationInv, frames # << >>, InitFails
  PROVE  DecorationInv'
<1>1. DecorationTypes /\ BroughtInv /\ FramesInv
  BY DEF DecorationInv
<1>2. PICK attributes \in SUBSET Assigns[Frame.class] : Assign(attributes)
  BY DEF InitFails
<1>3. /\ refused' = refused \cup {Frame.instance}
      /\ frames' = << >>
      /\ UNCHANGED <<CACHED_DECORATOR_OBJECTS, decorators, cached_self_dir, initialized>>
  BY <1>2 DEF InitFails, Assign
<1>4. Len(frames') = 0 /\ frames' \in Seq(AFrame)
  BY <1>3
<1>5. /\ holds' \in [Instance -> [Entry -> SUBSET (Class \cup {"self"})]]
      /\ DOMAIN begun' = Instance
      /\ \A j \in Instance, y \in Entry : \A d : Brought(j, d, y) => Brought(j, d, y)'
  BY <1>1, <1>2, AssignKeeps
<1>6. DecorationTypes'
  BY <1>1, <1>3, <1>4, <1>5 DEF DecorationTypes
<1>7. BroughtInv'
  <2>1. \A j \in Instance : \A d \in decorators'[j] : \A y \in Entries[d] :
          Plain(d, y) => Brought(j, d, y)'
    BY <1>1, <1>3, <1>5, DecorationAssumption DEF BroughtInv, DecorationTypes
  <2>2. \A j \in Instance : \A y \in Own : Brought(j, "self", y)'
    BY <1>1, <1>5, DecorationAssumption DEF BroughtInv
  <2>. QED BY <2>1, <2>2, <1>4 DEF BroughtInv
<1>8. InitializedInv'
  <2>1. \A k \in 1..Len(frames) : frames[k].instance = Frame.instance
    BY <1>1, FrameTypes DEF FramesInv
  <2>2. \A j \in Instance \ refused' : \A d : ~UnderWay(j, d)
    BY <1>3, <2>1 DEF UnderWay
  <2>. QED BY <2>2, <1>3 DEF DecorationInv, InitializedInv
<1>9. FramesInv'
  BY <1>4 DEF FramesInv
<1>. QED BY <1>3, <1>6, <1>7, <1>8, <1>9
         DEF DecorationInv, CacheInv, RequiredAreInitializedFirst

\* The __init__ of the innermost class runs when what it requires is there.
LEMMA RunInitKeeps ==
  ASSUME DecorationInv, frames # << >>, RunInit
  PROVE  DecorationInv'
<1>. DEFINE i == Frame.instance
            c == Frame.class
<1>1. DecorationTypes /\ BroughtInv /\ FramesInv
  BY DEF DecorationInv
<1>2. /\ 1 \in 1..Len(frames) /\ Frame = frames[1]
      /\ i \in Instance /\ c \in Class
  BY <1>1, FrameTypes
<1>3. /\ Assign(Assigns[c])
      /\ Missing(c) = {}
      /\ initialized' = [initialized EXCEPT ![i] = @ \cup {c}]
      /\ frames' = Tail(frames)
      /\ UNCHANGED <<CACHED_DECORATOR_OBJECTS, decorators, cached_self_dir,
                     conflict_handlers, refused>>
  BY DEF RunInit, Assign
<1>13. /\ holds' \in [Instance -> [Entry -> SUBSET (Class \cup {"self"})]]
       /\ DOMAIN begun' = Instance
       /\ \A j \in Instance, y \in Entry : \A d : Brought(j, d, y) => Brought(j, d, y)'
  BY <1>1, <1>3, AssignKeeps
<1>. HIDE DEF i, c
<1>4. /\ frames' \in Seq(AFrame)
      /\ Len(frames) \in Nat /\ Len(frames') = Len(frames) - 1
      /\ \A k \in 1..Len(frames') : frames'[k] = frames[k + 1] /\ k + 1 \in 1..Len(frames)
      /\ \A k \in 1..Len(frames) : k > 1 => k - 1 \in 1..Len(frames') /\ frames'[k - 1] = frames[k]
  <2>1. /\ frames' \in Seq(AFrame)
        /\ Len(frames) \in Nat /\ Len(frames') = Len(frames) - 1
        /\ \A k \in 1..Len(frames') : frames'[k] = frames[k + 1]
    BY <1>1, <1>3, HeadTailProperties, LenProperties DEF DecorationTypes
  <2>2. \A k \in 1..Len(frames) : k > 1 => k - 1 \in 1..Len(frames') /\ frames'[k - 1] = frames[k]
    <3>1. ASSUME NEW k \in 1..Len(frames), k > 1
          PROVE  k - 1 \in 1..Len(frames') /\ frames'[k - 1] = frames[k]
      <4>1. k - 1 \in 1..Len(frames') /\ (k - 1) + 1 = k
        BY <2>1, <3>1
      <4>. QED BY <4>1, <2>1
    <3>. QED BY <3>1
  <2>. QED BY <2>1, <2>2
<1>5. \A j \in Instance : /\ initialized[j] \subseteq initialized'[j]
                          /\ \A d \in initialized'[j] : d \in initialized[j] \/ (j = i /\ d = c)
  BY <1>1, <1>2, <1>3 DEF DecorationTypes
<1>6. c \in initialized'[i]
  BY <1>1, <1>2, <1>3 DEF DecorationTypes
<1>7. DecorationTypes'
  BY <1>1, <1>2, <1>3, <1>4, <1>13 DEF DecorationTypes
<1>8. BroughtInv'
  <2>1. ASSUME NEW k \in 1..Len(frames'), NEW y \in Entries[frames'[k].class] \ frames'[k].left,
               Plain(frames'[k].class, y)
        PROVE  Brought(frames[k].instance, frames[k].class, y)'
    <3>1. k + 1 \in 1..Len(frames) /\ frames'[k] = frames[k + 1] /\ frames[k + 1] \in AFrame
      BY <2>1, <1>1, <1>4 DEF DecorationTypes
    <3>2. Brought(frames[k + 1].instance, frames[k + 1].class, y)
      BY <3>1, <2>1, <1>1 DEF BroughtInv
    <3>3. frames[k + 1].instance \in Instance /\ y \in Entry
      BY <3>1, <2>1, DecorationAssumption DEF AFrame
    <3>4. \A j, d : j = frames[k + 1].instance /\ d = frames[k + 1].class => Brought(j, d, y)'
      BY <3>2, <3>3, <1>13
    <3>. QED BY <3>1, <3>4 DEF Brought
  <2>2. \A j \in Instance : \A d \in decorators'[j] : \A y \in Entries[d] :
          Plain(d, y) => Brought(j, d, y)'
    BY <1>1, <1>3, <1>13, DecorationAssumption DEF BroughtInv, DecorationTypes
  <2>3. \A j \in Instance : \A y \in Own : Brought(j, "self", y)'
    BY <1>1, <1>13, DecorationAssumption DEF BroughtInv
  <2>. QED BY <2>1, <2>2, <2>3 DEF BroughtInv
<1>9. FramesInv'
  <2>1. \A j, k \in 1..Len(frames') : frames'[j].instance = frames'[k].instance
    BY <1>1, <1>4 DEF FramesInv
  <2>2. ASSUME NEW k \in 1..Len(frames'), k > 1
        PROVE  /\ frames'[k].left = {}
               /\ frames'[k].class \in decorators'[frames'[k].instance]
               /\ frames'[k - 1].class \in RequiredBy(frames'[k].class)
    <3>1. /\ k + 1 \in 1..Len(frames) /\ k + 1 > 1 /\ (k + 1) - 1 = k
          /\ k - 1 \in 1..Len(frames') /\ (k - 1) + 1 = k
      BY <2>2, <1>4
    <3>2. frames'[k] = frames[k + 1] /\ frames'[k - 1] = frames[k]
      BY <3>1, <1>4
    <3>3. /\ frames[k + 1].left = {}
          /\ frames[k + 1].class \in decorators[frames[k + 1].instance]
          /\ frames[k].class \in RequiredBy(frames[k + 1].class)
      BY <3>1, <1>1 DEF FramesInv
    <3>. QED BY <3>2, <3>3, <1>3
  <2>. QED BY <2>1, <2>2 DEF FramesInv
<1>10. InitializedInv'
  <2>1. ASSUME NEW j \in Instance \ refused, NEW d \in decorators[j], d \notin initialized'[j]
        PROVE  UnderWay(j, d)'
    <3>1. UnderWay(j, d)
      BY <2>1, <1>5 DEF DecorationInv, InitializedInv
    <3>2. PICK k \in 1..Len(frames) : frames[k].instance = j /\ frames[k].class = d
      BY <3>1 DEF UnderWay
    <3>3. k # 1
      BY <3>2, <2>1, <1>2, <1>6 DEF i, c
    <3>4. k - 1 \in 1..Len(frames') /\ frames'[k - 1] = frames[k]
      BY <3>3, <1>4
    <3>. QED BY <3>2, <3>4 DEF UnderWay
  <2>. QED BY <2>1, <1>3 DEF InitializedInv
<1>11. RequiredAreInitializedFirst'
  <2>1. ASSUME NEW j \in Instance \ refused, NEW e \in initialized'[j], NEW n \in DOMAIN Requires[e]
        PROVE  Requires[e][n] \in initialized'[j]
    <3>1. CASE e \in initialized[j]
      BY <3>1, <2>1, <1>5 DEF DecorationInv, RequiredAreInitializedFirst
    <3>2. CASE j = i /\ e = c
      <4>1. Requires[e][n] \in decorators[j]
        BY <3>2, <2>1, <1>3 DEF Missing, Lacks, i
      <4>2. Requires[e][n] \in RequiredBy(Frame.class)
        BY <3>2, <2>1 DEF RequiredBy, c
      <4>3. ~UnderWay(j, Requires[e][n])
        BY <3>2, <4>2, NoCircle DEF i
      <4>. QED BY <4>1, <4>3, <1>5, <2>1 DEF DecorationInv, InitializedInv
    <3>. QED BY <3>1, <3>2, <1>5, <2>1
  <2>. QED BY <2>1, <1>3 DEF RequiredAreInitializedFirst
<1>12. CacheInv'
  BY <1>3 DEF DecorationInv, CacheInv
<1>. QED BY <1>7, <1>8, <1>9, <1>10, <1>11, <1>12 DEF DecorationInv

LEMMA DecorationStepInv == DecorationInv /\ [DecorationNext]_decorationVars => DecorationInv'
<1>. SUFFICES ASSUME DecorationInv, [DecorationNext]_decorationVars PROVE DecorationInv'
  OBVIOUS
<1>1. CASE UNCHANGED decorationVars
  BY <1>1 DEF decorationVars, DecorationInv, DecorationTypes, CacheInv, BroughtInv, Brought,
              Assigned, FramesInv, InitializedInv, UnderWay, RequiredAreInitializedFirst
<1>2. ASSUME NEW i \in Instance, NEW c \in Class, decorate(i, c)
      PROVE  DecorationInv'
  <2>1. PICK given : frames = << >> /\ Enter(i, c, given)
    BY <1>2 DEF decorate
  <2>. QED BY <2>1, EnterKeeps
<1>3. CASE Step
  <2>1. frames # << >>
    BY <1>3 DEF Step
  <2>2. /\ Frame.instance \in Instance /\ Frame.class \in Class /\ Frame.left \subseteq Entry
        /\ holds \in [Instance -> [Entry -> SUBSET (Class \cup {"self"})]]
    BY <2>1, FrameTypes DEF DecorationInv, DecorationTypes
  <2>3. CASE CopyEntry
    <3>1. PICK x \in Frame.left :
            ~Conflicts(x) /\ Has(Frame.class, x) /\ SetEntry(x, {Frame.class})
      BY <2>3 DEF CopyEntry
    <3>. QED BY <2>1, <2>2, <3>1, SetEntryKeeps
  <2>4. CASE MergeEntry
    <3>1. PICK x \in Frame.left :
            Has(Frame.class, x) /\ SetEntry(x, holds[Frame.instance][x] \cup {Frame.class})
      BY <2>4 DEF MergeEntry
    <3>2. holds[Frame.instance][x] \cup {Frame.class} \in SUBSET (Class \cup {"self"})
      BY <2>2
    <3>. QED BY <2>1, <3>1, <3>2, SetEntryKeeps
  <2>5. CASE AssureDecorated
    <3>1. PICK n \in Missing(Frame.class), given \in {{}} \cup {{h} : h \in Declared[Frame.class]} :
            Enter(Frame.instance, Requires[Frame.class][n], given)
      BY <2>5 DEF AssureDecorated
    <3>2. n \in DOMAIN Requires[Frame.class]
      BY <3>1 DEF Missing
    <3>3. Requires[Frame.class][n] \in Class /\ Requires[Frame.class][n] \in RequiredBy(Frame.class)
      BY <2>2, <3>2, DecorationAssumption DEF RequiredBy
    <3>4. Initializing
      BY <2>5 DEF AssureDecorated
    <3>. QED BY <2>1, <2>2, <3>1, <3>3, <3>4, EnterKeeps
  <2>. QED BY <1>3, <2>1, <2>3, <2>4, <2>5, RefuseKeeps, BecomeDecoratorKeeps,
           RunInitKeeps, InitFailsKeeps DEF Step
<1>. QED BY <1>1, <1>2, <1>3 DEF DecorationNext

\* For any classes, entries, conflict handlers, assignments and failures of
\* their __init__ and order of decorations: a decorator that shares no name
\* keeps what it has brought, unless another's __init__ assigns it, and so
\* does the class of the vertex or edge (ExperimentGraphDecorable.decorate).
THEOREM DecoratorsAreKept == DecorationSpec => []EveryDecoratorKeepsItsEntries
<1>1. DecorationInv => EveryDecoratorKeepsItsEntries
  BY DEF DecorationInv, BroughtInv, Brought, EveryDecoratorKeepsItsEntries
<1>. QED BY <1>1, DecorationInitInv, DecorationStepInv, PTL DEF DecorationSpec

\* For any classes whose requirements are in no circle: what a class requires
\* is initialized before it, on an instance that refused none (require_class).
THEOREM RequiredComeFirst == DecorationSpec => []RequiredAreInitializedFirst
  BY DecorationInitInv, DecorationStepInv, PTL DEF DecorationSpec, DecorationInv
=============================================================================
