---------------------------- MODULE DependencyGraph ----------------------------
(***************************************************************************)
(* The graph that orders the model components of an experiment             *)
(* (control/dependency_graph.py and                                        *)
(* control/model_component_dependency_graph.py).  Its nodes are entities,  *)
(* one per inserted model component and named by a number, and             *)
(* constraints, the attributes that components depend on or provide.       *)
(***************************************************************************)
EXTENDS Integers, Sequences, FiniteSets, SequencesExt

CONSTANTS Name,          \* names of model components
          Attribute,     \* labels of attributes
          Rank           \* the place of a label in alphabetical order

MaxId == 99              \* node identifiers have at most two digits

ASSUME LabelsAreOrdered ==
  /\ Rank \in [Attribute -> Nat]
  /\ \A a, b \in Attribute : Rank[a] = Rank[b] => a = b

ASSUME LabelsAreNotIds == Attribute \cap Nat = {}

VARIABLES since,         \* of each node: when it was inserted
          edge,
          grouping,      \* of each node: the command-line position it stems from
          component_map  \* the component that an entity stands for

graphVars == <<since, edge, grouping, component_map>>

Nodes    == DOMAIN since
Entities == DOMAIN component_map
Ids      == 1..MaxId

NoGraph ==
  /\ since = << >>
  /\ edge = {}
  /\ grouping = << >>
  /\ component_map = << >>

NewId == Cardinality(Nodes) + 1

\* f with one value for all of keys, whether it had them or not.
With(f, keys, value) ==
  [k \in DOMAIN f \cup keys |-> IF k \in keys THEN value ELSE f[k]]

Place(s, x) == SelectInSeq(s, LAMBDA y : y = x)

\* Inserting name: a new entity, an edge from each attribute it depends on and
\* one to each it provides; the attributes take its grouping, new or not.
InsertEntity(name, depends, provides, group, associations) ==
  LET added == {NewId} \cup ToSet(depends) \cup ToSet(provides)
  IN  /\ NewId \in Ids
      /\ since' = [n \in Nodes \cup added |->
                    IF n \in Nodes THEN since[n] ELSE <<NewId, Place(depends \o provides, n)>>]
      /\ edge' = edge \cup (ToSet(depends) \X {NewId})
                      \cup ({NewId} \X ToSet(provides)) \cup associations
      /\ grouping' = With(grouping, added, group)
      /\ component_map' = With(component_map, {NewId}, name)

\* The order of networkx's nodes is that of their insertion.
Older(m, n) ==
  \/ since[m][1] < since[n][1]
  \/ since[m][1] = since[n][1] /\ since[m][2] < since[n][2]

\* Mutant: the edge goes the other way.
AssociateBackwards(source, dest) ==
  /\ edge' = edge \cup {<<dest, source>>}
  /\ UNCHANGED <<since, grouping, component_map>>

\* source runs before dest.
AssociateEntities(source, dest) ==
  /\ edge' = edge \cup {<<source, dest>>}
  /\ UNCHANGED <<since, grouping, component_map>>

Present(name) == \E id \in Entities : component_map[id] = name

HasProvider(a) == \E e \in edge : e[2] = a

\* get_in_degree_zero_constraints: pairs of a label and its grouping.
InDegreeZero == {<<a, grouping[a]>> : a \in {n \in Nodes \cap Attribute : ~HasProvider(n)}}

\* str(m) < str(n) for numbers of at most two digits: "10" comes before "2".
DigitsBefore(m, n) ==
  \/ (m < 10) = (n < 10) /\ m < n
  \/ m < 10 /\ n >= 10 /\ 10 * m <= n
  \/ m >= 10 /\ n < 10 /\ m < 10 * n

TextBefore(m, n) ==
  \/ m \in Entities /\ n \in Entities /\ DigitsBefore(m, n)
  \/ m \in Entities /\ n \in Attribute
  \/ m \in Attribute /\ n \in Attribute /\ Rank[m] < Rank[n]

\* TopologicalCompare.__lt__
Before(m, n) ==
  \/ grouping[m] < grouping[n]
  \/ grouping[m] = grouping[n] /\ TextBefore(m, n)

\* The nodes whose predecessors are all done.
Ready(done) == {n \in Nodes \ done : \A e \in edge : e[2] = n => e[1] \in done}

Least(S) == CHOOSE n \in S : \A m \in S \ {n} : Before(n, m)

\* The first k nodes of the lexicographical topological sort: it always takes
\* the least of those that are ready, and stops early when the rest is on a cycle.
Taken[k \in 0..Cardinality(Nodes)] ==
  IF k = 0 THEN << >>
  ELSE LET out   == Taken[k - 1]
           ready == Ready(ToSet(out))
       IN  IF ready = {} THEN out ELSE Append(out, Least(ready))

Sorted == Taken[Cardinality(Nodes)]

HasCycles == Len(Sorted) < Cardinality(Nodes)

\* The place of a name's first occurrence among the entities in their order.
FirstPlace(name) ==
  SelectInSeq(Sorted, LAMBDA n : n \in Entities /\ component_map[n] = name)

GetFirst(name) == Sorted[FirstPlace(name)]
===============================================================================
