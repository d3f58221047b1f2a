---------------------- MODULE ModelComponentManagerProofs ----------------------
(***************************************************************************)
(* Proofs about building the dependency graph and running what it orders,  *)
(* for every repository, command line and table of defaults: what may be   *)
(* in the graph, how many rounds it takes, that the sort follows the       *)
(* edges, and that every edge, and no edge but those, has a declaration.   *)
(***************************************************************************)
EXTENDS ModelComponentManager, FiniteSetTheorems, WellFoundedInduction, TLAPS

InputsOK ==
  /\ manifest \in Repositories
  /\ asked \in Seq(Name) /\ ToSet(asked) \subseteq Installed

Of(id) == manifest[component_map[id]]

\* The labels that entities depend on.
Needed == {l \in Attribute : \E x \in Entities : l \in ToSet(Of(x).attributes_depends)}

\* Identifiers grow, whoever provides a label has its edge, and a label without
\* an edge into it is one that somebody depends on.
GraphInv ==
  /\ IsFiniteSet(Nodes)
  /\ Entities \subseteq Nodes /\ Nodes \subseteq Entities \cup Attribute
  /\ Entities \subseteq Ids
  /\ \A id \in Entities : id <= Cardinality(Nodes)
  /\ DOMAIN grouping = Nodes
  /\ \A n \in Nodes : grouping[n] \in Nat
  /\ \A id \in Entities : component_map[id] \in Installed
  /\ \A id \in Entities : \A a \in ToSet(Of(id).attributes_provides) : <<id, a>> \in edge
  /\ \A n \in Nodes \cap Attribute : HasProvider(n) \/ n \in Needed

\* The names that entities have or depend on.
Wanted == {n \in Installed : \E x \in Entities : n \in {component_map[x]} \cup ToSet(Of(x).depends)}

Dependency == [name: Wanted, parent: Ids, grouping: Nat]

\* What waits to be inserted is wanted by an entity of the graph.
QueueInv ==
  /\ depends \in Seq(Dependency)
  /\ unsat_attr \subseteq Needed \X Nat
  /\ \A t \in precedes :
       /\ t.id \in Entities
       /\ t.kind = "component" => t.nth \in DOMAIN Of(t.id).precedes
       /\ t.kind # "component" => t.nth \in DOMAIN Of(t.id).attributes_precedes

CommandLineInv ==
  /\ dep_id \in Seq(Ids) /\ Initial \subseteq Entities
  /\ phase = "initial" => Entities = Initial

Inv ==
  /\ InputsOK /\ GraphInv /\ QueueInv /\ CommandLineInv
  /\ OnlyAskedForRepeats /\ EveryComponentHasAReason

-------------------------------------------------------------------------------
\* The manifests of the state have the fields that a manifest has.
LEMMA ManifestFields ==
  ASSUME InputsOK
  PROVE  manifest \in [Installed -> Manifest]
BY WellFormedManifests DEF InputsOK, Installed

\* An inserted component is a new entity above all others; everything that was
\* in the graph stays.
LEMMA Insertion ==
  ASSUME InputsOK, GraphInv, NEW name \in Installed, NEW group \in Nat, NEW assoc,
         Insert(name, group, assoc), manifest' = manifest
  PROVE  /\ GraphInv'
         /\ NewId \in Ids /\ NewId \notin Entities
         /\ Entities' = Entities \cup {NewId}
         /\ component_map'[NewId] = name
         /\ \A id \in Entities : id < NewId /\ component_map'[id] = component_map[id]
<1> DEFINE m == manifest[name]
           labels == ToSet(m.attributes_depends) \cup ToSet(m.attributes_provides)
           added == {NewId} \cup labels
<1>1. /\ m \in Manifest
      /\ m.attributes_depends \in Seq(Attribute) /\ m.attributes_provides \in Seq(Attribute)
  BY ManifestFields DEF Manifest
<1>2. /\ labels \subseteq Attribute
      /\ IsFiniteSet(labels)
  <2>1. /\ ToSet(m.attributes_depends) \subseteq Attribute
        /\ ToSet(m.attributes_provides) \subseteq Attribute
    BY <1>1 DEF ToSet
  <2>2. \A s \in Seq(Attribute) : IsFiniteSet(ToSet(s))
    <3> SUFFICES ASSUME NEW s \in Seq(Attribute) PROVE IsFiniteSet(ToSet(s))
      OBVIOUS
    <3>1. IsFiniteSet(1..Len(s))
      BY FS_Interval
    <3>2. s \in Surjection(1..Len(s), ToSet(s))
      BY DEF ToSet, Surjection
    <3> QED
      BY <3>1, <3>2, FS_Surjection
  <2> QED
    BY <1>1, <2>1, <2>2, FS_Union
<1>3. /\ NewId \in Ids /\ NewId \notin Entities
      /\ \A id \in Entities : id < NewId
  <2>1. Cardinality(Nodes) \in Nat
    BY FS_CardinalityType DEF GraphInv
  <2> QED
    BY <2>1 DEF Insert, InsertEntity, GraphInv, NewId, Ids
<1>4. /\ Nodes' = Nodes \cup added
      /\ DOMAIN grouping' = Nodes \cup added
      /\ Entities' = Entities \cup {NewId}
  BY DEF Insert, InsertEntity, With, Nodes, Entities, GraphInv
<1>5. /\ component_map'[NewId] = name
      /\ \A id \in Entities : component_map'[id] = component_map[id]
  BY <1>3 DEF Insert, InsertEntity, With, Entities
<1>6. /\ edge \subseteq edge'
      /\ \A a \in ToSet(m.attributes_provides) : <<NewId, a>> \in edge'
  BY DEF Insert, InsertEntity
<1>7. /\ IsFiniteSet(Nodes') /\ Cardinality(Nodes') >= NewId
      /\ Cardinality(Nodes') \in Nat
  <2>1. NewId \notin Nodes
    BY <1>3, LabelsAreNotIds DEF GraphInv, Ids
  <2>2. IsFiniteSet(Nodes \cup {NewId}) /\ Cardinality(Nodes \cup {NewId}) = NewId
    BY <2>1, FS_AddElement DEF GraphInv, NewId
  <2>3. IsFiniteSet((Nodes \cup {NewId}) \cup labels)
    BY <1>2, <2>2, FS_Union
  <2>4. Nodes' = (Nodes \cup {NewId}) \cup labels
    BY <1>4
  <2> QED
    BY <2>2, <2>3, <2>4, FS_Subset, FS_CardinalityType
<1>8. /\ Entities' \subseteq Nodes' /\ Nodes' \subseteq Entities' \cup Attribute
      /\ Entities' \subseteq Ids
      /\ \A id \in Entities' : id <= Cardinality(Nodes')
  <2>1. Entities' \subseteq Nodes' /\ Nodes' \subseteq Entities' \cup Attribute
    BY <1>2, <1>4 DEF GraphInv
  <2>2. \A id \in Entities' : id <= NewId /\ id \in Ids
    BY <1>3, <1>4 DEF GraphInv, Ids
  <2> QED
    BY <1>7, <2>1, <2>2, <1>3 DEF Ids
<1>9. /\ DOMAIN grouping' = Nodes'
      /\ \A n \in Nodes' : grouping'[n] \in Nat
  BY <1>4 DEF Insert, InsertEntity, With, GraphInv
<1>10. /\ \A id \in Entities' : component_map'[id] \in Installed'
       /\ \A id \in Entities : Of(id)' = Of(id)
       /\ manifest'[component_map'[NewId]] = m
  <2>1. \A id \in Entities' : component_map'[id] \in Installed'
    BY <1>3, <1>4, <1>5 DEF GraphInv, Installed
  <2>2. \A id \in Entities : Of(id)' = Of(id)
    BY <1>5 DEF Of
  <2>3. manifest'[component_map'[NewId]] = m
    BY <1>5
  <2> QED
    BY <2>1, <2>2, <2>3
<1>11. \A id \in Entities' :
         \A a \in ToSet(manifest'[component_map'[id]].attributes_provides) : <<id, a>> \in edge'
  <2>1. ASSUME NEW id \in Entities
        PROVE  \A a \in ToSet(manifest'[component_map'[id]].attributes_provides) :
                 <<id, a>> \in edge'
    BY <1>5, <1>6 DEF GraphInv, Of
  <2>2. \A a \in ToSet(manifest'[component_map'[NewId]].attributes_provides) :
          <<NewId, a>> \in edge'
    BY <1>6, <1>10
  <2> QED
    BY <1>4, <2>1, <2>2
<1>12. \A n \in Nodes' \cap Attribute : HasProvider(n)' \/ n \in Needed'
  <2>1. \A n \in Nodes : HasProvider(n) => HasProvider(n)'
    BY <1>6 DEF HasProvider
  <2>2. Needed \subseteq Needed'
    BY <1>4, <1>10 DEF Needed
  <2>3. ToSet(m.attributes_depends) \subseteq Needed'
    BY <1>2, <1>4, <1>10 DEF Needed, Of
  <2>4. \A n \in ToSet(m.attributes_provides) : HasProvider(n)'
    BY <1>6 DEF HasProvider
  <2>5. NewId \notin Attribute
    BY <1>3, LabelsAreNotIds DEF Ids
  <2> QED
    BY <1>4, <2>1, <2>2, <2>3, <2>4, <2>5 DEF GraphInv
<1> QED
  BY <1>3, <1>4, <1>5, <1>7, <1>8, <1>9, <1>10, <1>11, <1>12 DEF GraphInv, Of

\* What was wanted or needed stays so while the graph grows.
LEMMA StillWanted ==
  ASSUME Entities \subseteq Entities', manifest' = manifest,
         \A id \in Entities : component_map'[id] = component_map[id]
  PROVE  /\ \A id \in Entities : Of(id)' = Of(id)
         /\ Needed \subseteq Needed'
         /\ Wanted \subseteq Wanted' /\ Seq(Dependency) \subseteq Seq(Dependency')
<1>1. \A id \in Entities : Of(id)' = Of(id)
  BY DEF Of
<1>2. Needed \subseteq Needed'
  BY <1>1 DEF Needed
<1>3. Wanted \subseteq Wanted'
  BY <1>1 DEF Wanted, Installed
<1>4. Dependency \subseteq Dependency'
  BY <1>3 DEF Dependency
<1>5. Seq(Dependency) \subseteq Seq(Dependency')
  BY <1>4
<1> QED
  BY <1>1, <1>2, <1>3, <1>5

\* An association adds an edge and nothing else.
LEMMA Association ==
  ASSUME InputsOK, GraphInv, NEW x, NEW y, AssociateEntities(x, y), manifest' = manifest
  PROVE  GraphInv' /\ Entities' = Entities /\ component_map' = component_map
<1>1. /\ UNCHANGED <<since, grouping, component_map>>
      /\ edge \subseteq edge'
  BY DEF AssociateEntities
<1>2. Nodes' = Nodes /\ Entities' = Entities /\ Installed' = Installed
  BY <1>1 DEF Nodes, Entities, Installed
<1>3. /\ \A n : HasProvider(n) => HasProvider(n)'
      /\ Needed' = Needed
      /\ \A id \in Entities : Of(id)' = Of(id)
  BY <1>1, <1>2 DEF HasProvider, Needed, Of
<1> QED
  BY <1>1, <1>2, <1>3 DEF GraphInv

\* The dependencies of a component, as they wait for insertion, once it is in
\* the graph.
LEMMA DependsOfType ==
  ASSUME InputsOK, manifest' = manifest, NEW name \in Installed, NEW parent \in Ids,
         NEW group \in Nat, Resolvable(name),
         NEW x \in Entities', component_map'[x] = name
  PROVE  DependsOf(name, parent, group) \in Seq(Dependency')
<1> DEFINE d == manifest[name].depends
           q == DependsOf(name, parent, group)
<1>1. d \in Seq(Name)
  BY ManifestFields DEF Manifest
<1>2. \A i \in 1..Len(d) : d[i] \in ToSet(d) /\ d[i] \in Installed
  BY <1>1 DEF Resolvable, ToSet
<1>3. \A i \in 1..Len(d) : d[i] \in Wanted'
  BY <1>2 DEF Wanted, Of, Installed
<1>4. q = [i \in 1..Len(d) |-> [name |-> d[i], parent |-> parent, grouping |-> group]]
  BY <1>1 DEF DependsOf
<1>5. \A i \in 1..Len(d) : [name |-> d[i], parent |-> parent, grouping |-> group] \in Dependency'
  BY <1>3 DEF Dependency
<1> QED
  BY <1>1, <1>4, <1>5

\* Adding a component that is not there, for a reason, while the queues only
\* grow by what is wanted.
LEMMA NewComponent ==
  ASSUME Inv, NEW name \in Installed, NEW group \in Nat, NEW assoc,
         Insert(name, group, assoc), UNCHANGED <<manifest, asked, dep_id>>, ~Present(name),
         NEW x \in Entities,
         \/ name \in ToSet(Of(x).depends) \cup ToSet(Of(x).precedes)
         \/ \E l \in ToSet(Of(x).attributes_depends) \cup ToSet(Of(x).attributes_precedes) :
               l \in ToSet(manifest[name].attributes_provides),
         phase' # "initial", depends' \in Seq(Dependency'),
         unsat_attr' \subseteq unsat_attr, precedes' \subseteq precedes
  PROVE  Inv'
<1>1. /\ GraphInv' /\ NewId \notin Entities
      /\ Entities' = Entities \cup {NewId} /\ component_map'[NewId] = name
      /\ \A id \in Entities : id < NewId /\ component_map'[id] = component_map[id]
  BY Insertion DEF Inv
<1>2. InputsOK'
  BY DEF Inv, InputsOK, Installed
<1>3. Initial' = Initial
  BY DEF Initial
<1>4. OnlyAskedForRepeats'
  BY <1>1, <1>3 DEF Inv, OnlyAskedForRepeats, Present
<1>5. ASSUME NEW u \in Entities, NEW v \in Entities, Reason(u, v)
      PROVE  Reason(u, v)'
  <2>1. manifest' = manifest /\ component_map'[u] = component_map[u]
                           /\ component_map'[v] = component_map[v]
    BY <1>1
  <2> QED
    BY <1>5, <2>1 DEF Reason
<1>6. \A u : u = NewId => Reason(x, u)'
  <2>1. manifest' = manifest /\ component_map'[x] = component_map[x]
                           /\ component_map'[NewId] = name
    BY <1>1
  <2> QED
    BY <2>1 DEF Reason, Of
<1>7. EveryComponentHasAReason'
  BY <1>1, <1>3, <1>5, <1>6 DEF Inv, EveryComponentHasAReason
<1>8. CommandLineInv'
  BY <1>1, <1>3 DEF Inv, CommandLineInv
<1>9. QueueInv'
  <2>1. (\A id \in Entities : Of(id)' = Of(id)) /\ Needed \subseteq Needed'
    BY <1>1, StillWanted
  <2> QED
    BY <1>1, <2>1 DEF Inv, QueueInv
<1> QED
  BY <1>1, <1>2, <1>4, <1>7, <1>8, <1>9 DEF Inv

\* The requests that an insertion puts at the end of the queue.
LEMMA LongerQueue ==
  ASSUME Inv, NEW name \in Installed, NEW group \in Nat, NEW assoc,
         Insert(name, group, assoc), manifest' = manifest, Resolvable(name),
         NEW parent \in Ids, NEW q \in Seq(Dependency)
  PROVE  q \o DependsOf(name, parent, group) \in Seq(Dependency')
<1>1. /\ NewId \in Entities' /\ component_map'[NewId] = name
      /\ Entities \subseteq Entities'
      /\ \A id \in Entities : component_map'[id] = component_map[id]
  BY Insertion DEF Inv
<1>2. DependsOf(name, parent, group) \in Seq(Dependency')
  BY <1>1, DependsOfType DEF Inv
<1>3. q \in Seq(Dependency')
  BY <1>1, StillWanted
<1> QED
  BY <1>2, <1>3

-------------------------------------------------------------------------------
\* Steps that leave the graph alone: only the queues may change the invariant.
LEMMA SameGraph ==
  ASSUME Inv, UNCHANGED <<graphVars, inputVars, dep_id>>,
         phase' = "initial" => phase = "initial"
  PROVE  /\ QueueInv' => Inv'
         /\ Entities' = Entities /\ Needed' = Needed
         /\ Seq(Dependency) \subseteq Seq(Dependency')
         /\ \A id \in Entities : Of(id)' = Of(id)
<1>1. UNCHANGED <<since, edge, grouping, component_map, manifest, asked, dep_id>>
  BY DEF graphVars, inputVars
<1>2. /\ Nodes' = Nodes /\ Entities' = Entities /\ Installed' = Installed
      /\ Initial' = Initial
  BY <1>1 DEF Nodes, Entities, Installed, Initial
<1>3. /\ \A n : HasProvider(n) => HasProvider(n)'
      /\ Seq(Dependency) \subseteq Seq(Dependency')
      /\ \A id \in Entities : Of(id)' = Of(id)
  BY <1>1, <1>2, StillWanted DEF HasProvider
<1>4. Needed' = Needed
  BY <1>2, <1>3 DEF Needed
<1>5. InputsOK' /\ GraphInv'
  BY <1>1, <1>2, <1>3, <1>4 DEF Inv, InputsOK, GraphInv
<1>6. CommandLineInv'
  BY <1>1, <1>2 DEF Inv, CommandLineInv
<1>7. OnlyAskedForRepeats'
  BY <1>1, <1>2 DEF Inv, OnlyAskedForRepeats
<1>8. EveryComponentHasAReason'
  BY <1>1, <1>2 DEF Inv, EveryComponentHasAReason, Reason
<1> QED
  BY <1>2, <1>3, <1>4, <1>5, <1>6, <1>7, <1>8 DEF Inv

\* Steps that leave the queues alone too, failures among them.
LEMMA NothingMoves ==
  ASSUME Inv, UNCHANGED <<graphVars, inputVars, dep_id>>,
         phase' = "initial" => phase = "initial",
         depends' = depends,
         unsat_attr' \subseteq unsat_attr,
         precedes' \subseteq precedes
  PROVE  Inv'
<1>1. QueueInv'
  BY SameGraph DEF Inv, QueueInv
<1> QED
  BY <1>1, SameGraph

LEMMA Failing ==
  ASSUME Inv, NEW reason, reason # "initial", Fail(reason)
  PROVE  Inv'
BY NothingMoves DEF Fail, runVars

\* A component of the command line joins the graph and the list of identifiers.
LEMMA InitialStep ==
  ASSUME Inv, InsertInitial
  PROVE  Inv'
<1> DEFINE name == asked[Len(dep_id) + 1]
           group == Len(dep_id)
<1>1. CASE ~Resolvable(name)
  BY <1>1, Failing DEF InsertInitial
<1>2. CASE Resolvable(name)
  <2>1. /\ Insert(name, group, Previous \X {NewId})
        /\ dep_id' = Append(dep_id, NewId)
        /\ depends' = depends \o DependsOf(name, NewId, group)
        /\ UNCHANGED <<phase, loops, changed, unsat_attr, order, precedes, inputVars, runVars>>
        /\ phase = "initial" /\ Len(dep_id) < Len(asked)
    BY <1>2 DEF InsertInitial
  <2>2. name \in Installed /\ group \in Nat
    <3>1. dep_id \in Seq(Ids) /\ asked \in Seq(Name) /\ ToSet(asked) \subseteq Installed
      BY DEF Inv, InputsOK, CommandLineInv
    <3>2. Len(dep_id) + 1 \in DOMAIN asked
      BY <2>1, <3>1
    <3> QED
      BY <3>1, <3>2 DEF ToSet
  <2>3. manifest' = manifest /\ asked' = asked
    BY <2>1 DEF inputVars
  <2>4. /\ GraphInv' /\ NewId \in Ids /\ NewId \notin Entities
        /\ Entities' = Entities \cup {NewId} /\ component_map'[NewId] = name
        /\ \A id \in Entities : id < NewId /\ component_map'[id] = component_map[id]
    BY <2>1, <2>2, <2>3, Insertion DEF Inv
  <2>5. InputsOK'
    BY <2>3 DEF Inv, InputsOK, Installed
  <2>6. Initial' = Initial \cup {NewId} /\ dep_id' \in Seq(Ids)
    <3>1. dep_id \in Seq(Ids)
      BY DEF Inv, CommandLineInv
    <3>2. dep_id' \in Seq(Ids) /\ Len(dep_id') = Len(dep_id) + 1
          /\ \A i \in 1..Len(dep_id') : dep_id'[i] = IF i <= Len(dep_id) THEN dep_id[i] ELSE NewId
      BY <2>1, <2>4, <3>1
    <3>3. Initial = {dep_id[i] : i \in 1..Len(dep_id)} /\ Initial' = {dep_id'[i] : i \in 1..Len(dep_id')}
      BY <3>1, <3>2 DEF Initial, ToSet
    <3> QED
      BY <3>1, <3>2, <3>3
  <2>7. Entities' = Initial'
    BY <2>1, <2>4, <2>6 DEF Inv, CommandLineInv
  <2>8. CommandLineInv'
    BY <2>6, <2>7 DEF CommandLineInv
  <2>9. OnlyAskedForRepeats' /\ EveryComponentHasAReason'
    BY <2>7 DEF OnlyAskedForRepeats, EveryComponentHasAReason
  <2>10. /\ \A id \in Entities : Of(id)' = Of(id)
         /\ Needed \subseteq Needed' /\ Seq(Dependency) \subseteq Seq(Dependency')
    BY <2>3, <2>4, StillWanted
  <2>11. depends' \in Seq(Dependency')
    BY <1>2, <2>1, <2>2, <2>3, <2>4, LongerQueue DEF Inv, QueueInv
  <2>12. QueueInv'
    <3>1. unsat_attr' = unsat_attr /\ precedes' = precedes
      BY <2>1
    <3> QED
      BY <2>4, <2>10, <2>11, <3>1 DEF Inv, QueueInv
  <2> QED
    BY <2>4, <2>5, <2>8, <2>9, <2>12 DEF Inv
<1> QED
  BY <1>1, <1>2

\* An association, in whichever part of a round.
LEMMA Associating ==
  ASSUME Inv, NEW x, NEW y, AssociateEntities(x, y), UNCHANGED <<manifest, asked, dep_id>>,
         phase' # "initial", depends' \in Seq(Dependency),
         unsat_attr' \subseteq unsat_attr, precedes' \subseteq precedes
  PROVE  Inv'
<1>1. /\ GraphInv' /\ Entities' = Entities /\ component_map' = component_map
      /\ Initial' = Initial /\ Installed' = Installed
  BY Association DEF Inv, Initial, Installed
<1>2. /\ \A id \in Entities : Of(id)' = Of(id)
      /\ Needed \subseteq Needed' /\ Seq(Dependency) \subseteq Seq(Dependency')
  BY <1>1, StillWanted
<1>3. InputsOK' /\ CommandLineInv'
  BY <1>1 DEF Inv, InputsOK, CommandLineInv
<1>4. QueueInv'
  BY <1>1, <1>2 DEF Inv, QueueInv
<1>5. OnlyAskedForRepeats' /\ EveryComponentHasAReason'
  BY <1>1 DEF Inv, OnlyAskedForRepeats, EveryComponentHasAReason, Reason
<1> QED
  BY <1>1, <1>3, <1>4, <1>5 DEF Inv

\* A dependency is associated or inserted; whoever depends on it is its reason.
LEMMA DependencyStep ==
  ASSUME Inv, InsertDependency
  PROVE  Inv'
<1> DEFINE dep == Head(depends)
<1>1. /\ phase = "depends"
      /\ depends \in Seq(Dependency) /\ Tail(depends) \in Seq(Dependency)
      /\ dep \in Dependency
  BY DEF InsertDependency, Inv, QueueInv
<1>2. dep.name \in Wanted /\ dep.parent \in Ids /\ dep.grouping \in Nat
  BY <1>1 DEF Dependency
<1>3. CASE Present(dep.name) /\ ~HasCycles
  <2>1. /\ AssociateEntities(GetFirst(dep.name), dep.parent)
        /\ depends' = Tail(depends)
        /\ UNCHANGED <<phase, dep_id, unsat_attr, precedes, inputVars>>
    BY <1>3 DEF InsertDependency
  <2> QED
    BY <1>1, <2>1, Associating DEF inputVars
<1>4. CASE ~Present(dep.name) /\ Resolvable(dep.name)
  <2>1. /\ Insert(dep.name, dep.grouping, {<<NewId, dep.parent>>})
        /\ depends' = Tail(depends) \o DependsOf(dep.name, NewId, dep.grouping)
        /\ UNCHANGED <<phase, dep_id, unsat_attr, precedes, inputVars>>
    BY <1>4 DEF InsertDependency
  <2>2. UNCHANGED <<manifest, asked, dep_id>>
    BY <2>1 DEF inputVars
  <2>3. dep.name \in Installed /\ NewId \in Ids
    BY <1>2, <2>1, <2>2, Insertion DEF Wanted, Inv
  <2>4. depends' \in Seq(Dependency')
    BY <1>1, <1>2, <1>4, <2>1, <2>2, <2>3, LongerQueue
  <2>5. PICK x \in Entities : dep.name \in ToSet(Of(x).depends)
    BY <1>2, <1>4 DEF Wanted, Present
  <2> QED
    BY <1>1, <1>2, <1>4, <2>1, <2>2, <2>3, <2>4, <2>5, NewComponent
<1>5. CASE \/ Present(dep.name) /\ HasCycles
           \/ ~Present(dep.name) /\ ~Resolvable(dep.name)
  BY <1>5, Failing DEF InsertDependency
<1> QED
  BY <1>3, <1>4, <1>5

\* The attributes without a provider are ones that somebody depends on.
LEMMA UnsatisfiedStep ==
  ASSUME Inv, FindUnsatisfied
  PROVE  Inv'
<1>1. /\ UNCHANGED <<graphVars, inputVars, dep_id, depends, precedes>>
      /\ phase' = "attributes" /\ unsat_attr' = InDegreeZero
  BY DEF FindUnsatisfied
<1>2. InDegreeZero \subseteq Needed \X Nat
  BY DEF InDegreeZero, Inv, GraphInv
<1>3. QueueInv'
  BY <1>1, <1>2, SameGraph DEF Inv, QueueInv
<1> QED
  BY <1>1, <1>3, SameGraph

\* Whatever provides a label that has no provider yet is not in the graph.
LEMMA NoProviderPresent ==
  ASSUME Inv, NEW l, ~HasProvider(l), NEW name,
         l \in ToSet(manifest[name].attributes_provides)
  PROVE  ~Present(name)
<1> SUFFICES ASSUME NEW id \in Entities, component_map[id] = name
             PROVE  FALSE
  BY DEF Present
<1>1. <<id, l>> \in edge
  BY DEF Inv, GraphInv, Of
<1> QED
  BY <1>1 DEF HasProvider

\* A default provider is installed and provides the label.
LEMMA DefaultProvides ==
  ASSUME NEW l, NEW name \in DefaultFor(l)
  PROVE  name \in Installed /\ l \in ToSet(manifest[name].attributes_provides)
BY DEF DefaultFor, Providers

\* An attribute gets its default provider; whoever depends on the attribute is
\* the provider's reason.
LEMMA AttributeStep ==
  ASSUME Inv, ResolveAttribute
  PROVE  Inv'
<1>1. phase = "attributes"
  BY DEF ResolveAttribute
<1>2. PICK unsat \in unsat_attr :
        \/ /\ unsat_attr' = unsat_attr \ {unsat}
           /\ UNCHANGED <<graphVars, phase, dep_id, depends, precedes, inputVars>>
        \/ Fail("no provider") \/ Fail("missing")
        \/ \E name \in DefaultFor(unsat[1]) :
             /\ ~HasProvider(unsat[1]) /\ Resolvable(name)
             /\ Insert(name, unsat[2], {})
             /\ depends' = depends \o DependsOf(name, NewId, unsat[2])
             /\ unsat_attr' = unsat_attr \ {unsat}
             /\ UNCHANGED <<phase, dep_id, precedes, inputVars>>
  BY DEF ResolveAttribute
<1>3. CASE /\ unsat_attr' = unsat_attr \ {unsat}
           /\ UNCHANGED <<graphVars, phase, dep_id, depends, precedes, inputVars>>
  BY <1>1, <1>3, NothingMoves
<1>4. CASE Fail("no provider") \/ Fail("missing")
  BY <1>4, Failing
<1>5. ASSUME NEW name \in DefaultFor(unsat[1]),
             ~HasProvider(unsat[1]), Resolvable(name),
             Insert(name, unsat[2], {}),
             depends' = depends \o DependsOf(name, NewId, unsat[2]),
             unsat_attr' = unsat_attr \ {unsat},
             UNCHANGED <<phase, dep_id, precedes, inputVars>>
      PROVE  Inv'
  <2>1. name \in Installed /\ unsat[1] \in ToSet(manifest[name].attributes_provides)
    BY DefaultProvides
  <2>2. unsat[1] \in Needed /\ unsat[2] \in Nat
    BY DEF Inv, QueueInv
  <2>3. ~Present(name)
    BY <1>5, <2>1, NoProviderPresent
  <2>4. UNCHANGED <<manifest, asked, dep_id>>
    BY <1>5 DEF inputVars
  <2>5. NewId \in Ids
    BY <1>5, <2>1, <2>2, <2>4, Insertion DEF Inv
  <2>6. depends' \in Seq(Dependency')
    BY <1>5, <2>1, <2>2, <2>4, <2>5, LongerQueue DEF Inv, QueueInv
  <2>7. PICK x \in Entities : unsat[1] \in ToSet(Of(x).attributes_depends)
    BY <2>2 DEF Needed
  <2> QED
    BY <1>1, <1>5, <2>1, <2>2, <2>3, <2>4, <2>6, <2>7, NewComponent
<1> QED
  BY <1>2, <1>3, <1>4, <1>5

\* The tasks of a round's last loop name declarations of the manifests.
LEMMA PrecedencesStep ==
  ASSUME Inv, FindPrecedences
  PROVE  Inv'
<1>1. CASE HasCycles
  BY <1>1, Failing DEF FindPrecedences
<1>2. CASE ~HasCycles
  <2>1. /\ UNCHANGED <<graphVars, inputVars, dep_id, depends, unsat_attr>>
        /\ phase' = "precedes" /\ precedes' = Precedences
    BY <1>2 DEF FindPrecedences
  <2>2. \A t \in Precedences :
          /\ t.id \in Entities
          /\ t.kind = "component" => t.nth \in DOMAIN Of(t.id).precedes
          /\ t.kind # "component" => t.nth \in DOMAIN Of(t.id).attributes_precedes
    <3> SUFFICES ASSUME NEW t \in Precedences
                 PROVE  /\ t.id \in Entities
                        /\ t.kind = "component" => t.nth \in DOMAIN Of(t.id).precedes
                        /\ t.kind # "component" => t.nth \in DOMAIN Of(t.id).attributes_precedes
      OBVIOUS
    <3>1. PICK id \in Entities :
            \/ \E i \in DOMAIN Of(id).precedes : t = [id |-> id, kind |-> "component", nth |-> i]
            \/ \E i \in DOMAIN Of(id).attributes_precedes :
                  t = [id |-> id, kind |-> "attribute", nth |-> i]
      BY DEF Precedences, Of
    <3> QED
      BY <3>1
  <2>3. QueueInv'
    BY <2>1, <2>2, SameGraph DEF Inv, QueueInv
  <2> QED
    BY <2>1, <2>3, SameGraph
<1> QED
  BY <1>1, <1>2

\* What a component precedes, and the default providers of the attributes it
\* precedes, are inserted or associated; the component is their reason.
LEMMA PrecedeStep ==
  ASSUME Inv, PrecedeNext
  PROVE  Inv'
<1>1. phase = "precedes"
  BY DEF PrecedeNext
<1>2. PICK task \in precedes :
        \/ Fail("cycle") \/ Fail("missing") \/ Fail("no provider")
        \/ \E name \in Found(task) :
             /\ Present(name) \/ Resolvable(name)
             /\ Precede(task, name)
             /\ precedes' = precedes \ {task}
             /\ UNCHANGED <<phase, dep_id, unsat_attr, inputVars>>
  BY DEF PrecedeNext
<1>3. CASE Fail("cycle") \/ Fail("missing") \/ Fail("no provider")
  BY <1>3, Failing
<1>4. ASSUME NEW name \in Found(task), Present(name) \/ Resolvable(name),
             Precede(task, name), precedes' = precedes \ {task},
             UNCHANGED <<phase, dep_id, unsat_attr, inputVars>>
      PROVE  Inv'
  <2> DEFINE component == component_map[task.id]
             group == grouping[task.id]
             parent == IF task.kind = "component" THEN NewId ELSE task.id
  <2>1. UNCHANGED <<manifest, asked, dep_id>>
    BY <1>4 DEF inputVars
  <2>2. /\ task.id \in Entities /\ task.id \in Ids /\ task.id \in Nodes
        /\ component \in Installed /\ group \in Nat
    BY DEF Inv, QueueInv, GraphInv
  <2>3. /\ name \in Installed
        /\ \/ name \in ToSet(Of(task.id).precedes)
           \/ \E l \in ToSet(Of(task.id).attributes_precedes) :
                l \in ToSet(manifest[name].attributes_provides)
    <3>1. CASE task.kind = "component"
      <4>1. task.nth \in DOMAIN Of(task.id).precedes
        BY <3>1 DEF Inv, QueueInv
      <4> QED
        BY <3>1, <4>1 DEF Found, Of, ToSet
    <3>2. CASE task.kind # "component"
      <4>1. /\ task.nth \in DOMAIN Of(task.id).attributes_precedes
            /\ name \in DefaultFor(Of(task.id).attributes_precedes[task.nth])
        BY <3>2, <1>4 DEF Inv, QueueInv, Found, Of
      <4> QED
        BY <4>1, DefaultProvides DEF ToSet
    <3> QED
      BY <3>1, <3>2
  <2>4. CASE Present(name) /\ InOrder(component, name)
    <3>1. UNCHANGED graphVars /\ depends' = depends
      BY <1>4, <2>4 DEF Precede
    <3> QED
      BY <1>1, <1>4, <3>1, NothingMoves
  <2>5. CASE Present(name) /\ ~InOrder(component, name)
    <3>1. AssociateEntities(task.id, GetFirst(name)) /\ depends' = depends
      BY <1>4, <2>5 DEF Precede
    <3> QED
      BY <1>1, <1>4, <2>1, <3>1, Associating DEF Inv, QueueInv
  <2>6. CASE ~Present(name)
    <3>1. /\ Insert(name, group, {})
          /\ depends' = (depends \o DependsOf(name, parent, group))
               \o << [name |-> component, parent |-> NewId, grouping |-> group] >>
      BY <1>4, <2>6 DEF Precede
    <3>2. /\ NewId \in Ids /\ Entities \subseteq Entities'
          /\ component_map'[task.id] = component
      BY <2>1, <2>2, <2>3, <3>1, Insertion DEF Inv
    <3>3. depends \o DependsOf(name, parent, group) \in Seq(Dependency')
      BY <1>4, <2>1, <2>2, <2>3, <2>6, <3>1, <3>2, LongerQueue DEF Inv, QueueInv
    <3>4. [name |-> component, parent |-> NewId, grouping |-> group] \in Dependency'
      <4>1. component \in Wanted'
        BY <2>1, <2>2, <3>2 DEF Wanted, Installed
      <4> QED
        BY <2>2, <3>2, <4>1 DEF Dependency
    <3>5. depends' \in Seq(Dependency')
      BY <3>1, <3>3, <3>4
    <3> QED
      BY <1>1, <1>4, <2>1, <2>2, <2>3, <2>6, <3>1, <3>5, NewComponent
  <2> QED
    BY <2>4, <2>5, <2>6
<1> QED
  BY <1>2, <1>3, <1>4

-------------------------------------------------------------------------------
\* The invariant holds of a graph that is empty.
THEOREM InitInv == Init => Inv
<1> SUFFICES ASSUME Init PROVE Inv
  OBVIOUS
<1>1. Nodes = {} /\ Entities = {} /\ Initial = {} /\ DOMAIN grouping = {}
  BY DEF Init, NoGraph, Nodes, Entities, Initial, ToSet
<1>2. InputsOK
  BY CommandLinesAreLists DEF Init, InputsOK
<1>3. GraphInv
  BY <1>1, FS_EmptySet DEF GraphInv
<1>4. QueueInv
  BY DEF Init, QueueInv
<1>5. CommandLineInv
  BY <1>1 DEF Init, CommandLineInv
<1>6. OnlyAskedForRepeats /\ EveryComponentHasAReason
  BY <1>1 DEF OnlyAskedForRepeats, EveryComponentHasAReason
<1> QED
  BY <1>2, <1>3, <1>4, <1>5, <1>6 DEF Inv

\* Every step of building the graph and of running it keeps the invariant.
THEOREM NextInv == Inv /\ [Next]_vars => Inv'
<1> SUFFICES ASSUME Inv, [Next]_vars PROVE Inv'
  OBVIOUS
<1>1. CASE InsertInitial
  BY <1>1, InitialStep
<1>2. CASE BeginRounds
  BY <1>2, NothingMoves DEF BeginRounds
<1>3. CASE InsertDependency
  BY <1>3, DependencyStep
<1>4. CASE FindUnsatisfied
  BY <1>4, UnsatisfiedStep
<1>5. CASE ResolveAttribute
  BY <1>5, AttributeStep
<1>6. CASE FindPrecedences
  BY <1>6, PrecedencesStep
<1>7. CASE PrecedeNext
  BY <1>7, PrecedeStep
<1>8. CASE EndRound
  <2>1. CASE Fail("cycle") \/ Fail("looping")
    BY <2>1, Failing
  <2>2. CASE /\ phase' = IF changed THEN "depends" ELSE "built"
             /\ UNCHANGED <<graphVars, inputVars, dep_id, depends, unsat_attr, precedes>>
    BY <2>2, NothingMoves
  <2> QED
    BY <1>8, <2>1, <2>2 DEF EndRound
<1>9. CASE ObjectsLoadedTwice \/ ObjectsFail \/ PluginImportFails \/ RunPlugin
  <2>1. UNCHANGED <<graphVars, buildVars, inputVars>>
    BY <1>9 DEF ObjectsLoadedTwice, ObjectsFail, PluginImportFails, RunPlugin, Ran
  <2> QED
    BY <2>1, NothingMoves DEF buildVars
<1>10. CASE Abort
  BY <1>10, NothingMoves DEF Abort
<1>11. CASE EndExperiment
  BY <1>11, NothingMoves DEF EndExperiment
<1>12. CASE UNCHANGED vars
  BY <1>12, NothingMoves DEF vars, buildVars
<1> QED
  BY <1>1, <1>2, <1>3, <1>4, <1>5, <1>6, <1>7, <1>8, <1>9, <1>10, <1>11, <1>12 DEF Next

\* Only the command line can put a component into the experiment twice,
\* whatever the manifests declare.
THEOREM RepeatsAreAskedFor == Spec => []OnlyAskedForRepeats
<1>1. Inv => OnlyAskedForRepeats
  BY DEF Inv
<1> QED
  BY InitInv, NextInv, <1>1, PTL DEF Spec

\* Every component that is not on the command line was brought in by another
\* one's declarations, so following the reasons back ends at the command line.
THEOREM ReasonsLeadBack == Spec => []EveryComponentHasAReason
<1>1. Inv => EveryComponentHasAReason
  BY DEF Inv
<1> QED
  BY InitInv, NextInv, <1>1, PTL DEF Spec

-------------------------------------------------------------------------------
(* How many rounds there are. *)

Added == Cardinality(Entities \ Initial)

\* A round that has changed something, or that has something to insert, is not
\* the last one its insertions allow; one that inserted late has made up for it.
RoundsInv ==
  /\ loops \in Nat
  /\ loops <= 2 * Added + 2
  /\ changed \/ depends # << >> => loops <= 2 * Added + 1
  /\ phase \in {"attributes", "precedes"} /\ depends # << >> => loops <= 2 * Added
  /\ phase = "initial" => loops = 0 /\ ~changed

LEMMA AddedType == Inv => Added \in Nat
BY FS_Subset, FS_CardinalityType DEF Inv, GraphInv, Added

\* While the command line is inserted nothing else is.
LEMMA NothingAdded ==
  ASSUME Inv, phase = "initial"
  PROVE  Added = 0
BY FS_EmptySet DEF Inv, CommandLineInv, Added

\* An insertion in a round adds one.
LEMMA OneMore ==
  ASSUME Inv, NEW name \in Installed, NEW group \in Nat, NEW assoc,
         Insert(name, group, assoc), UNCHANGED <<manifest, dep_id>>
  PROVE  Added' = Added + 1
<1>1. NewId \notin Entities /\ Entities' = Entities \cup {NewId} /\ Initial' = Initial
  BY Insertion DEF Inv, Initial
<1>2. Entities' \ Initial' = (Entities \ Initial) \cup {NewId} /\ NewId \notin Entities \ Initial
  BY <1>1 DEF Inv, CommandLineInv
<1>3. IsFiniteSet(Entities \ Initial)
  BY FS_Subset DEF Inv, GraphInv
<1> QED
  BY <1>2, <1>3, FS_AddElement DEF Added

\* A step that leaves the entities alone.
LEMMA NoneMore ==
  ASSUME UNCHANGED <<component_map, dep_id>>
  PROVE  Added' = Added
BY DEF Added, Entities, Initial

LEMMA RoundsFail ==
  ASSUME Inv, RoundsInv, NEW reason \in {"missing", "cycle", "no provider", "looping"}, Fail(reason)
  PROVE  RoundsInv'
BY NoneMore DEF Fail, RoundsInv, graphVars

\* Any insertion of a round makes room for what it changes.
LEMMA RoundsGrow ==
  ASSUME Inv, RoundsInv, NEW name \in Installed, NEW group \in Nat, NEW assoc,
         Insert(name, group, assoc), UNCHANGED <<manifest, dep_id, phase, loops>>,
         changed' = TRUE, phase # "initial"
  PROVE  RoundsInv'
BY OneMore, AddedType DEF RoundsInv

LEMMA RoundsInit == Init => RoundsInv
<1> SUFFICES ASSUME Init PROVE RoundsInv
  OBVIOUS
<1>1. Inv
  BY InitInv
<1>2. Added = 0
  BY <1>1, NothingAdded DEF Init
<1>3. phase = "initial" /\ loops = 0 /\ ~changed /\ depends = << >>
  BY DEF Init
<1> QED
  BY <1>2, <1>3 DEF RoundsInv

LEMMA RoundsStep == Inv /\ RoundsInv /\ [Next]_vars => RoundsInv'
<1> SUFFICES ASSUME Inv, RoundsInv, [Next]_vars PROVE RoundsInv'
  OBVIOUS
<1>1. CASE InsertInitial
  <2>1. CASE Fail("missing")
    BY <2>1, RoundsFail
  <2>2. CASE ~Fail("missing")
    <3>1. /\ UNCHANGED <<phase, loops, changed>> /\ phase = "initial"
      BY <1>1, <2>2 DEF InsertInitial
    <3>2. Added' = 0
      <4>1. Inv'
        BY NextInv
      <4>2. phase' = "initial" => Entities' = Initial'
        BY <4>1 DEF Inv, CommandLineInv
      <4> QED
        BY <3>1, <4>2, FS_EmptySet DEF Added
    <3> QED
      BY <3>1, <3>2 DEF RoundsInv
  <2> QED
    BY <2>1, <2>2
<1>2. CASE BeginRounds
  BY <1>2, NoneMore, NothingAdded DEF BeginRounds, RoundsInv, graphVars
<1>3. CASE InsertDependency
  <2> DEFINE dep == Head(depends)
  <2>1. CASE Fail("cycle") \/ Fail("missing")
    BY <2>1, RoundsFail
  <2>2. CASE AssociateEntities(GetFirst(dep.name), dep.parent) /\ UNCHANGED dep_id
             /\ changed' = TRUE /\ UNCHANGED <<phase, loops>>
    BY <1>3, <2>2, NoneMore DEF AssociateEntities, InsertDependency, RoundsInv
  <2>3. CASE Insert(dep.name, dep.grouping, {<<NewId, dep.parent>>})
             /\ changed' = TRUE /\ UNCHANGED <<phase, loops, dep_id, manifest>>
    <3>1. dep \in Dependency
      BY <1>3 DEF InsertDependency, Inv, QueueInv
    <3>2. dep.name \in Installed /\ dep.grouping \in Nat
      BY <3>1 DEF Dependency, Wanted
    <3> QED
      BY <1>3, <2>3, <3>2, RoundsGrow DEF InsertDependency
  <2> QED
    BY <1>3, <2>1, <2>2, <2>3 DEF InsertDependency, inputVars
<1>4. CASE FindUnsatisfied
  BY <1>4, NoneMore DEF FindUnsatisfied, RoundsInv, graphVars
<1>5. CASE ResolveAttribute
  <2>1. CASE Fail("no provider") \/ Fail("missing")
    BY <2>1, RoundsFail
  <2>2. CASE UNCHANGED <<graphVars, phase, loops, changed, dep_id, depends>>
    BY <2>2, NoneMore DEF RoundsInv, graphVars
  <2>3. ASSUME NEW unsat \in unsat_attr, NEW name \in DefaultFor(unsat[1]),
               Insert(name, unsat[2], {}), changed' = TRUE,
               UNCHANGED <<phase, loops, dep_id, manifest>>
        PROVE  RoundsInv'
    <3>1. name \in Installed /\ unsat[2] \in Nat
      BY DefaultProvides DEF Inv, QueueInv
    <3> QED
      BY <1>5, <2>3, <3>1, RoundsGrow DEF ResolveAttribute
  <2> QED
    BY <1>5, <2>1, <2>2, <2>3 DEF ResolveAttribute, inputVars
<1>6. CASE FindPrecedences
  <2>1. CASE Fail("cycle")
    BY <2>1, RoundsFail
  <2>2. CASE ~Fail("cycle")
    BY <1>6, <2>2, NoneMore DEF FindPrecedences, RoundsInv, graphVars
  <2> QED
    BY <2>1, <2>2
<1>7. CASE PrecedeNext
  <2>1. CASE Fail("cycle") \/ Fail("missing") \/ Fail("no provider")
    BY <2>1, RoundsFail
  <2>2. ASSUME NEW task \in precedes, NEW name \in Found(task), Precede(task, name),
               UNCHANGED <<phase, loops, dep_id, inputVars>>
        PROVE  RoundsInv'
    <3>1. CASE Present(name)
      <4>1. UNCHANGED <<changed, depends, component_map>>
        BY <2>2, <3>1 DEF Precede, AssociateEntities, graphVars
      <4> QED
        BY <2>2, <4>1, NoneMore DEF RoundsInv
    <3>2. CASE ~Present(name)
      <4>1. Insert(name, grouping[task.id], {}) /\ changed' = TRUE
        BY <2>2, <3>2 DEF Precede
      <4>2. name \in Installed /\ grouping[task.id] \in Nat
        <5>1. task.id \in Entities
          BY DEF Inv, QueueInv
        <5> QED
          BY <2>2, <5>1, DefaultProvides DEF Found, Inv, GraphInv
      <4> QED
        BY <1>7, <2>2, <4>1, <4>2, RoundsGrow DEF PrecedeNext, inputVars
    <3> QED
      BY <3>1, <3>2
  <2>3. \/ Fail("cycle") \/ Fail("missing") \/ Fail("no provider")
        \/ \E task \in precedes : \E name \in Found(task) :
             Precede(task, name) /\ UNCHANGED <<phase, loops, dep_id, inputVars>>
    BY <1>7 DEF PrecedeNext
  <2> QED
    BY <2>1, <2>2, <2>3
<1>8. CASE EndRound
  <2>1. CASE Fail("cycle") \/ Fail("looping")
    BY <2>1, RoundsFail
  <2>2. CASE ~Fail("cycle") /\ ~Fail("looping")
    <3>1. /\ phase = "precedes" /\ phase' = IF changed THEN "depends" ELSE "built"
          /\ loops' = IF changed THEN loops + 1 ELSE loops
          /\ ~changed' /\ UNCHANGED <<depends, dep_id, component_map>>
      BY <1>8, <2>2 DEF EndRound, graphVars
    <3>2. Added' = Added
      BY <3>1, NoneMore
    <3>3. CASE changed
      BY <3>1, <3>2, <3>3, AddedType DEF RoundsInv
    <3>4. CASE ~changed
      BY <3>1, <3>2, <3>4, AddedType DEF RoundsInv
    <3> QED
      BY <3>3, <3>4
  <2> QED
    BY <2>1, <2>2
<1>9. CASE ObjectsLoadedTwice \/ ObjectsFail \/ PluginImportFails \/ RunPlugin
           \/ Abort \/ EndExperiment \/ UNCHANGED vars
  <2>1. /\ UNCHANGED <<graphVars, loops, changed, dep_id, depends>>
        /\ phase' \in {phase, "aborted", "ended"}
    BY <1>9 DEF ObjectsLoadedTwice, ObjectsFail, PluginImportFails, RunPlugin, Ran,
                Abort, EndExperiment, buildVars, vars
  <2> QED
    BY <2>1, NoneMore DEF RoundsInv, graphVars
<1> QED
  BY <1>1, <1>2, <1>3, <1>4, <1>5, <1>6, <1>7, <1>8, <1>9 DEF Next

\* For any repositories, command lines and defaults, the rounds of
\* build_dependency_graph are at most two for each component they add, and two.
THEOREM RoundsAreBounded == Spec => []RoundsAreFew
<1>1. RoundsInv => RoundsAreFew
  BY DEF RoundsInv, RoundsAreFew, Added
<1> QED
  BY InitInv, NextInv, RoundsInit, RoundsStep, <1>1, PTL DEF Spec

-------------------------------------------------------------------------------
(* The topological sort. *)

\* Numbers have a least one: of the intervals up to each, one has no other in it.
LEMMA LeastNumber ==
  ASSUME NEW S \in SUBSET Nat, S # {}
  PROVE  Min(S) \in S /\ \A n \in S : Min(S) <= n
<1> DEFINE upTo == {0..n : n \in S}
<1>1. \A n \in Nat : 0..n \in FiniteSubsetsOf(Nat)
  BY FS_Interval DEF FiniteSubsetsOf
<1>2. upTo \subseteq FiniteSubsetsOf(Nat) /\ upTo # {}
  BY <1>1
<1> HIDE DEF upTo
<1>3. PICK x \in upTo : \A y \in upTo : ~ (<<y, x>> \in StrictSubsetOrdering(Nat))
  BY <1>2, WFMin, FS_StrictSubsetOrderingWellFounded
<1>4. PICK m \in S : x = 0..m
  BY DEF upTo
<1>5. ASSUME NEW n \in S PROVE m <= n
  <2>1. 0..n \in upTo /\ <<0..n, 0..m>> \notin StrictSubsetOrdering(Nat)
    BY <1>3, <1>4 DEF upTo
  <2>2. ~(0..n \subseteq 0..m /\ 0..n # 0..m)
    BY <2>1 DEF StrictSubsetOrdering
  <2>3. m \in Nat /\ n \in Nat
    BY <1>4
  <2> SUFFICES ASSUME n < m PROVE FALSE
    BY <2>3
  <2>4. 0..n \subseteq 0..m /\ m \in 0..m /\ m \notin 0..n
    BY <2>3
  <2> QED BY <2>2, <2>4
<1> QED
  BY <1>5 DEF Min

\* Induction over numbers, with a set for what holds of them.
LEMMA Upwards ==
  ASSUME NEW S, 0 \in S, \A n \in Nat : n \in S => n + 1 \in S
  PROVE  Nat \subseteq S
<1> SUFFICES ASSUME Nat \ S # {} PROVE FALSE
  OBVIOUS
<1> DEFINE m == Min(Nat \ S)
<1>1. m \in Nat /\ m \notin S /\ \A n \in Nat \ S : m <= n
  BY LeastNumber
<1> HIDE DEF m
<1>2. m # 0 /\ m - 1 \in Nat /\ m - 1 \in S
  BY <1>1
<1> QED
  BY <1>1, <1>2

\* Of the elements of a set, one has the least number.
LEMMA LeastValue ==
  ASSUME NEW S, S # {}, NEW f \in [S -> Nat]
  PROVE  \E x \in S : \A y \in S : f[x] <= f[y]
<1> DEFINE values == {f[x] : x \in S}
<1>1. values \in SUBSET Nat /\ values # {}
  OBVIOUS
<1> HIDE DEF values
<1>2. Min(values) \in values /\ \A n \in values : Min(values) <= n
  BY <1>1, LeastNumber
<1> QED
  BY <1>2 DEF values

\* The first place in a list of something that is there.
LEMMA PlaceInList ==
  ASSUME NEW T, NEW s \in Seq(T), NEW x
  PROVE  /\ Place(s, x) \in Nat
         /\ x \in ToSet(s) => /\ Place(s, x) \in 1..Len(s) /\ s[Place(s, x)] = x
                              /\ \A i \in 1..Len(s) : s[i] = x => Place(s, x) <= i
<1> DEFINE places == {i \in 1..Len(s) : s[i] = x}
<1>1. Place(s, x) = IF places # {} THEN Min(places) ELSE 0
  BY DEF Place, SelectInSeq
<1>2. places # {} => Min(places) \in places /\ \A i \in places : Min(places) <= i
  <2>1. places \in SUBSET Nat
    OBVIOUS
  <2> HIDE DEF places
  <2> QED BY <2>1, LeastNumber
<1>3. x \in ToSet(s) => places # {}
  BY DEF ToSet
<1> QED
  BY <1>1, <1>2, <1>3

-------------------------------------------------------------------------------
\* TopologicalCompare orders any nodes: some node comes before all the others.
LEMMA LeastIsThere ==
  ASSUME GraphInv, NEW S \in SUBSET Nodes, S # {}
  PROVE  Least(S) \in S
<1>1. PICK g \in S : \A n \in S : grouping[g] <= grouping[n]
  <2>1. [n \in S |-> grouping[n]] \in [S -> Nat]
    BY DEF GraphInv
  <2> QED BY <2>1, LeastValue
<1> DEFINE group == {n \in S : grouping[n] = grouping[g]}
<1>2. ASSUME NEW n \in group, \A m \in group \ {n} : TextBefore(n, m)
      PROVE  \A m \in S \ {n} : Before(n, m)
  BY <1>1, <1>2 DEF Before, GraphInv
<1>3. \E n \in group : \A m \in group \ {n} : TextBefore(n, m)
  <2>1. CASE group \cap Entities # {}
    <3> DEFINE key == [n \in group \cap Entities |-> IF n < 10 THEN 20 * n ELSE 2 * n + 1]
    <3>1. \A n \in group \cap Entities : n \in Nat
      BY DEF GraphInv, Ids
    <3>2. key \in [group \cap Entities -> Nat]
      BY <3>1
    <3>3. PICK n \in group \cap Entities : \A m \in group \cap Entities : key[n] <= key[m]
      BY <2>1, <3>2, LeastValue
    <3>4. ASSUME NEW m \in (group \cap Entities) \ {n}
          PROVE  DigitsBefore(n, m)
      <4>1. n \in Nat /\ m \in Nat /\ n # m /\ key[n] <= key[m]
        BY <3>1, <3>3
      <4>2. CASE n < 10 /\ m < 10
        BY <4>1, <4>2 DEF DigitsBefore
      <4>3. CASE n < 10 /\ ~(m < 10)
        BY <4>1, <4>3 DEF DigitsBefore
      <4>4. CASE ~(n < 10) /\ m < 10
        BY <4>1, <4>4 DEF DigitsBefore
      <4>5. CASE ~(n < 10) /\ ~(m < 10)
        BY <4>1, <4>5 DEF DigitsBefore
      <4> QED BY <4>2, <4>3, <4>4, <4>5
    <3>5. \A m \in group \ {n} : TextBefore(n, m)
      BY <3>3, <3>4 DEF TextBefore, GraphInv
    <3> QED BY <3>3, <3>5
  <2>2. CASE group \cap Entities = {}
    <3>1. group \subseteq Attribute /\ group # {}
      BY <1>1, <2>2 DEF GraphInv
    <3>2. [n \in group |-> Rank[n]] \in [group -> Nat]
      BY <3>1, LabelsAreOrdered
    <3>3. PICK n \in group : \A m \in group : Rank[n] <= Rank[m]
      BY <3>1, <3>2, LeastValue
    <3>4. \A m \in group \ {n} : Rank[n] < Rank[m]
      BY <3>1, <3>3, LabelsAreOrdered
    <3> QED BY <3>1, <3>3, <3>4 DEF TextBefore
  <2> QED BY <2>1, <2>2
<1>4. \E n \in S : \A m \in S \ {n} : Before(n, m)
  BY <1>2, <1>3
<1> QED
  BY <1>4 DEF Least

\* One step of the sort.
More(out) ==
  LET ready == Ready(ToSet(out))
  IN  IF ready = {} THEN out ELSE Append(out, Least(ready))

\* The recursion of the sort has a solution, and Taken is one.
LEMMA TakenIsTheSort ==
  ASSUME GraphInv
  PROVE  /\ Taken[0] = << >>
         /\ \A k \in 1..Cardinality(Nodes) : Taken[k] = More(Taken[k - 1])
<1> DEFINE N == Cardinality(Nodes)
           Solves(f, n) == /\ DOMAIN f = 0..n /\ f = [k \in 0..n |-> f[k]]
                           /\ f[0] = << >>
                           /\ \A k \in 1..n : f[k] = More(f[k - 1])
           Solvable == {n \in Nat : \E f : Solves(f, n)}
<1>1. N \in Nat
  BY FS_CardinalityType DEF GraphInv
<1>2. 0 \in Solvable
  <2>1. Solves([k \in 0..0 |-> << >>], 0)
    OBVIOUS
  <2> QED BY <2>1
<1>3. ASSUME NEW n \in Nat, n \in Solvable PROVE n + 1 \in Solvable
  <2>1. PICK f : Solves(f, n)
    BY <1>3
  <2> DEFINE g == [k \in 0..n + 1 |-> IF k = n + 1 THEN More(f[n]) ELSE f[k]]
  <2>2. g[0] = << >>
    BY <2>1
  <2>3. ASSUME NEW k \in 1..n + 1 PROVE g[k] = More(g[k - 1])
    <3>1. CASE k = n + 1
      BY <3>1
    <3>2. CASE k # n + 1
      <4>1. k \in 1..n /\ k - 1 \in 0..n
        BY <3>2
      <4>2. g[k] = f[k] /\ g[k - 1] = f[k - 1]
        BY <3>2, <4>1
      <4> QED BY <2>1, <4>1, <4>2
    <3> QED BY <3>1, <3>2
  <2>4. Solves(g, n + 1)
    <3>1. DOMAIN g = 0..n + 1 /\ g = [k \in 0..n + 1 |-> g[k]]
      OBVIOUS
    <3> HIDE DEF g
    <3> QED BY <2>2, <2>3, <3>1
  <2>5. \E h : Solves(h, n + 1)
    <3> HIDE DEF Solves, g
    <3> QED BY <2>4
  <2> HIDE DEF Solves
  <2> QED BY <2>5
<1>4. PICK f : Solves(f, N)
  <2> HIDE DEF Solves
  <2>1. Nat \subseteq Solvable
    BY <1>2, <1>3, Upwards
  <2> QED BY <1>1, <2>1
<1> DEFINE Equation(h) == h = [k \in 0..N |-> IF k = 0 THEN << >> ELSE More(h[k - 1])]
<1>5. Equation(f)
  <2>1. \A k \in 0..N : f[k] = IF k = 0 THEN << >> ELSE More(f[k - 1])
    BY <1>1, <1>4
  <2> QED BY <1>4, <2>1
<1>6. Taken = CHOOSE h : Equation(h)
  BY DEF Taken, More
<1>7. Equation(Taken)
  <2> HIDE DEF Equation
  <2> QED BY <1>5, <1>6
<1> QED
  BY <1>1, <1>7

\* What the sort keeps: each node is out once, after its predecessors.
Sound(out) ==
  /\ out \in Seq(Nodes)
  /\ \A i, j \in 1..Len(out) : out[i] = out[j] => i = j
  /\ \A i \in 1..Len(out) : \A e \in edge :
       e[2] = out[i] => \E j \in 1..i - 1 : out[j] = e[1]

LEMMA SoundStep ==
  ASSUME GraphInv, NEW out, Sound(out)
  PROVE  /\ Sound(More(out))
         /\ Ready(ToSet(out)) = {} => More(out) = out
         /\ Ready(ToSet(out)) # {} => Len(More(out)) = Len(out) + 1
<1>1. CASE Ready(ToSet(out)) = {}
  BY <1>1 DEF More
<1>2. CASE Ready(ToSet(out)) # {}
  <2> DEFINE n == Least(Ready(ToSet(out)))
  <2>1. n \in Ready(ToSet(out))
    <3>1. Ready(ToSet(out)) \in SUBSET Nodes
      BY DEF Ready
    <3> QED BY <1>2, <3>1, LeastIsThere
  <2>2. /\ n \in Nodes /\ n \notin ToSet(out)
        /\ \A e \in edge : e[2] = n => e[1] \in ToSet(out)
    BY <2>1 DEF Ready
  <2>3. More(out) = Append(out, n)
    BY <1>2 DEF More
  <2> HIDE DEF n
  <2> DEFINE s == Append(out, n)
  <2>4. out \in Seq(Nodes)
    BY DEF Sound
  <2>5. /\ s \in Seq(Nodes) /\ Len(s) = Len(out) + 1 /\ Len(out) \in Nat
        /\ s[Len(out) + 1] = n /\ \A i \in 1..Len(out) : s[i] = out[i]
    BY <2>2, <2>4
  <2>6. \A i \in 1..Len(out) : out[i] # n
    BY <2>2, <2>4 DEF ToSet
  <2> HIDE DEF s
  <2>7. \A i, j \in 1..Len(s) : s[i] = s[j] => i = j
    <3> SUFFICES ASSUME NEW i \in 1..Len(s), NEW j \in 1..Len(s), s[i] = s[j] PROVE i = j
      OBVIOUS
    <3>1. CASE i \in 1..Len(out) /\ j \in 1..Len(out)
      BY <2>5, <3>1 DEF Sound
    <3>2. CASE i = Len(out) + 1 \/ j = Len(out) + 1
      BY <2>5, <2>6, <3>2
    <3> QED BY <2>5, <3>1, <3>2
  <2>8. ASSUME NEW i \in 1..Len(s), NEW e \in edge, e[2] = s[i]
        PROVE  \E j \in 1..i - 1 : s[j] = e[1]
    <3>1. CASE i \in 1..Len(out)
      <4>1. PICK j \in 1..i - 1 : out[j] = e[1]
        BY <2>5, <2>8, <3>1 DEF Sound
      <4>2. j \in 1..Len(out)
        BY <2>5, <3>1
      <4> QED BY <2>5, <4>1, <4>2
    <3>2. CASE i = Len(out) + 1
      <4>1. e[1] \in ToSet(out)
        BY <2>2, <2>5, <2>8, <3>2
      <4>2. PICK j \in 1..Len(out) : out[j] = e[1]
        BY <2>4, <4>1 DEF ToSet
      <4> QED BY <2>5, <3>2, <4>2
    <3> QED BY <2>5, <3>1, <3>2
  <2>9. Sound(s)
    BY <2>5, <2>7, <2>8 DEF Sound
  <2> QED BY <1>2, <2>3, <2>5, <2>9 DEF s
<1> QED
  BY <1>1, <1>2

\* A list without repeats is as long as it has elements.
LEMMA LengthOfDistinct ==
  ASSUME NEW T, NEW s \in Seq(T), \A i, j \in 1..Len(s) : s[i] = s[j] => i = j
  PROVE  IsFiniteSet(ToSet(s)) /\ Cardinality(ToSet(s)) = Len(s)
<1>0. Len(s) \in Nat /\ DOMAIN s = 1..Len(s)
  OBVIOUS
<1>1. IsFiniteSet(1..Len(s)) /\ Cardinality(1..Len(s)) = Len(s)
  BY <1>0, FS_Interval
<1>2. s \in Bijection(1..Len(s), ToSet(s))
  <2>1. s \in [1..Len(s) -> ToSet(s)]
    BY <1>0 DEF ToSet
  <2>2. \A x \in ToSet(s) : \E i \in 1..Len(s) : s[i] = x
    BY <1>0 DEF ToSet
  <2> QED BY <2>1, <2>2 DEF Bijection, Injection, Surjection, IsInjective
<1> QED
  BY <1>1, <1>2, FS_Bijection DEF ExistsBijection

\* The sort goes on until nothing is ready: it is sound, and complete as far as
\* that is possible.
LEMMA Sorting ==
  ASSUME GraphInv
  PROVE  /\ Sound(Sorted) /\ Ready(ToSet(Sorted)) = {}
         /\ HasCycles <=> ToSet(Sorted) # Nodes
<1> DEFINE N == Cardinality(Nodes)
           Right(k) == /\ Sound(Taken[k])
                       /\ Len(Taken[k]) = k \/ Ready(ToSet(Taken[k])) = {}
           S == {k \in Nat : k \in 0..N => Right(k)}
<1>1. N \in Nat /\ IsFiniteSet(Nodes)
  BY FS_CardinalityType DEF GraphInv
<1>2. 0 \in S
  <2>1. Taken[0] = << >>
    BY TakenIsTheSort
  <2>2. Sound(<< >>) /\ Len(<< >>) = 0
    BY DEF Sound
  <2> QED BY <2>1, <2>2
<1>3. ASSUME NEW k \in Nat, k \in S PROVE k + 1 \in S
  <2> SUFFICES ASSUME k + 1 \in 0..N PROVE Right(k + 1)
    OBVIOUS
  <2>1. Right(k) /\ Taken[k + 1] = More(Taken[k])
    BY <1>1, <1>3, TakenIsTheSort
  <2>2. /\ Sound(Taken[k + 1])
        /\ Ready(ToSet(Taken[k])) = {} => Taken[k + 1] = Taken[k]
        /\ Ready(ToSet(Taken[k])) # {} => Len(Taken[k + 1]) = Len(Taken[k]) + 1
    BY <2>1, SoundStep
  <2> QED BY <2>1, <2>2
<1>4. Right(N)
  <2> HIDE DEF Right
  <2>1. Nat \subseteq S
    BY <1>2, <1>3, Upwards
  <2> QED BY <1>1, <2>1
<1>5. Sound(Sorted) /\ (Len(Sorted) = N \/ Ready(ToSet(Sorted)) = {})
  BY <1>4 DEF Sorted
<1>6. /\ ToSet(Sorted) \subseteq Nodes /\ Cardinality(ToSet(Sorted)) = Len(Sorted)
      /\ Len(Sorted) \in Nat /\ IsFiniteSet(ToSet(Sorted))
  <2>1. Sorted \in Seq(Nodes)
    BY <1>5 DEF Sound
  <2>2. ToSet(Sorted) \subseteq Nodes /\ Len(Sorted) \in Nat
    BY <2>1 DEF ToSet
  <2>3. \A i, j \in 1..Len(Sorted) : Sorted[i] = Sorted[j] => i = j
    BY <1>5 DEF Sound
  <2> QED BY <2>1, <2>2, <2>3, LengthOfDistinct
<1>7. /\ Len(Sorted) <= N
      /\ Len(Sorted) = N <=> ToSet(Sorted) = Nodes
  BY <1>1, <1>6, FS_Subset
<1>8. Ready(ToSet(Sorted)) = {}
  BY <1>5, <1>7 DEF Ready
<1> QED
  BY <1>1, <1>5, <1>6, <1>7, <1>8 DEF HasCycles

\* Without cycles every node has a place, one of its own, after those of its
\* predecessors.
LEMMA PlacesFollowEdges ==
  ASSUME GraphInv, ~HasCycles
  PROVE  /\ \A n \in Nodes : Place(Sorted, n) \in Nat
         /\ \A m, n \in Nodes : Place(Sorted, m) = Place(Sorted, n) => m = n
         /\ \A e \in edge : e[1] \in Nodes /\ e[2] \in Nodes
                              => Place(Sorted, e[1]) < Place(Sorted, e[2])
<1>1. Sound(Sorted) /\ ToSet(Sorted) = Nodes /\ Sorted \in Seq(Nodes)
  BY Sorting DEF Sound
<1>2. \A n \in Nodes : /\ Place(Sorted, n) \in 1..Len(Sorted) /\ Sorted[Place(Sorted, n)] = n
                       /\ \A i \in 1..Len(Sorted) : Sorted[i] = n => Place(Sorted, n) <= i
  BY <1>1, PlaceInList
<1>3. ASSUME NEW e \in edge, e[1] \in Nodes, e[2] \in Nodes
      PROVE  Place(Sorted, e[1]) < Place(Sorted, e[2])
  <2> DEFINE p == Place(Sorted, e[2])
             q == Place(Sorted, e[1])
  <2>1. p \in 1..Len(Sorted) /\ q \in 1..Len(Sorted) /\ Sorted[p] = e[2]
        /\ \A i \in 1..Len(Sorted) : Sorted[i] = e[1] => q <= i
    BY <1>2, <1>3
  <2> HIDE DEF p, q
  <2>2. PICK j \in 1..p - 1 : Sorted[j] = e[1]
    BY <1>1, <2>1 DEF Sound
  <2>3. Len(Sorted) \in Nat
    BY <1>1
  <2>4. p \in Nat /\ q \in Nat /\ j \in Nat /\ q <= j /\ j < p
    BY <2>1, <2>2, <2>3
  <2> QED BY <2>4 DEF p, q
<1> QED
  BY <1>2, <1>3

\* Without cycles a name that is there is found, at the first of its places.
LEMMA FirstIsFound ==
  ASSUME GraphInv, ~HasCycles, NEW name, Present(name)
  PROVE  /\ GetFirst(name) \in Entities /\ component_map[GetFirst(name)] = name
         /\ \A x \in Entities : component_map[x] = name
               => Place(Sorted, GetFirst(name)) <= Place(Sorted, x)
<1> DEFINE places == {i \in 1..Len(Sorted) : Sorted[i] \in Entities /\ component_map[Sorted[i]] = name}
<1>1. ToSet(Sorted) = Nodes /\ Sorted \in Seq(Nodes)
  BY Sorting DEF Sound
<1>2. \A n \in Nodes : /\ Place(Sorted, n) \in 1..Len(Sorted) /\ Sorted[Place(Sorted, n)] = n
                       /\ \A i \in 1..Len(Sorted) : Sorted[i] = n => Place(Sorted, n) <= i
  BY <1>1, PlaceInList
<1>3. \A x \in Entities : component_map[x] = name => Place(Sorted, x) \in places
  BY <1>2 DEF GraphInv
<1>4. places # {}
  BY <1>3 DEF Present
<1>5. FirstPlace(name) = Min(places)
  BY <1>4 DEF FirstPlace, SelectInSeq
<1>6. Min(places) \in places /\ \A i \in places : Min(places) <= i
  <2>1. places \in SUBSET Nat
    OBVIOUS
  <2> HIDE DEF places
  <2> QED BY <1>4, <2>1, LeastNumber
<1>7. GetFirst(name) \in Entities /\ component_map[GetFirst(name)] = name
  BY <1>5, <1>6 DEF GetFirst
<1>8. Place(Sorted, GetFirst(name)) <= Min(places)
  <2>1. Min(places) \in 1..Len(Sorted) /\ Sorted[Min(places)] = GetFirst(name)
    BY <1>5, <1>6 DEF GetFirst
  <2> QED BY <1>2, <1>7, <2>1 DEF GraphInv
<1>9. ASSUME NEW x \in Entities, component_map[x] = name
      PROVE  Place(Sorted, GetFirst(name)) <= Place(Sorted, x)
  <2>1. Min(places) <= Place(Sorted, x)
    BY <1>3, <1>6, <1>9
  <2>2. /\ Place(Sorted, GetFirst(name)) \in Nat /\ Place(Sorted, x) \in Nat /\ Min(places) \in Nat
    BY <1>2, <1>6, <1>7 DEF GraphInv
  <2> HIDE DEF places
  <2> QED BY <1>8, <2>1, <2>2
<1> QED
  BY <1>7, <1>9

\* The sort looks at the graph only.
LEMMA SortStays ==
  ASSUME UNCHANGED graphVars
  PROVE  Sorted' = Sorted
<1>1. Nodes' = Nodes /\ Entities' = Entities
  BY DEF Nodes, Entities, graphVars
<1>2. \A S : Ready(S)' = Ready(S)
  BY <1>1 DEF Ready, graphVars
<1>3. \A m, n : Before(m, n)' <=> Before(m, n)
  BY <1>1 DEF Before, TextBefore, graphVars
<1>4. \A S : Least(S)' = Least(S)
  BY <1>3 DEF Least
<1>5. Taken' = Taken
  BY <1>1, <1>2, <1>4 DEF Taken
<1> QED BY <1>1, <1>5 DEF Sorted

-------------------------------------------------------------------------------
(* What the edges and the requests for edges stand for. *)

Demands(x, y) == Requires(x, y) \/ Borrowed(x, y)

\* An edge between entities is demanded, one at an attribute is declared, and
\* whatever an entity depends on has an edge to it.
EdgesInv ==
  /\ edge \subseteq Nodes \X Nodes
  /\ \A e \in edge : e[2] \in Attribute =>
       e[1] \in Entities /\ e[2] \in ToSet(Of(e[1]).attributes_provides)
  /\ \A e \in edge : e[1] \in Attribute =>
       e[2] \in Entities /\ e[1] \in ToSet(Of(e[2]).attributes_depends)
  /\ \A e \in edge : e[1] \in Entities /\ e[2] \in Entities => Demands(e[1], e[2])
  /\ \A y \in Entities : \A a \in ToSet(Of(y).attributes_depends) : <<a, y>> \in edge

\* The first entity named n is demanded by y.
Asked(n, y) ==
  \/ n \in ToSet(Of(y).depends)
  \/ \E z \in Entities, a \in ToSet(Of(y).attributes_precedes) :
       component_map[z] \in DefaultFor(a) /\ n \in ToSet(Of(z).depends)
  \/ First(y) /\ component_map[y] \in ToSet(manifest[n].precedes)
  \/ First(y) /\ \E a \in ToSet(manifest[n].attributes_precedes) : component_map[y] \in DefaultFor(a)

AskedInv ==
  \A d \in ToSet(depends) : d.parent \in Entities /\ Asked(d.name, d.parent)

\* The components of the command line are in a chain.
ChainInv ==
  \A i \in 1..Len(dep_id) - 1 :
    dep_id[i] < dep_id[i + 1] /\ <<dep_id[i], dep_id[i + 1]>> \in edge

DemandsInv == EdgesInv /\ AskedInv /\ ChainInv

\* What every step does to the graph: entities come after those that are there.
Grown ==
  /\ UNCHANGED <<manifest, attribute_defaults>>
  /\ Entities \subseteq Entities' /\ Nodes \subseteq Nodes' /\ edge \subseteq edge'
  /\ Initial \subseteq Initial'
  /\ \A x \in Entities : component_map'[x] = component_map[x]
  /\ \A x \in Entities : \A y \in Entities' \ Entities : x <= y

LEMMA StillDemanded ==
  ASSUME Grown
  PROVE  /\ \A x \in Entities : Of(x)' = Of(x)
         /\ \A l : DefaultFor(l)' = DefaultFor(l)
         /\ \A x \in Entities : First(x) => First(x)'
         /\ \A x, y \in Entities : Demands(x, y) => Demands(x, y)'
         /\ \A n : \A y \in Entities : Asked(n, y) => Asked(n, y)'
<1>1. \A x \in Entities : Of(x)' = Of(x)
  BY DEF Grown, Of
<1>2. \A l : DefaultFor(l)' = DefaultFor(l)
  BY DEF Grown, DefaultFor, Providers, Installed
<1>3. \A x \in Entities : First(x) => First(x)'
  BY DEF Grown, First
<1>4. ASSUME NEW x \in Entities, NEW y \in Entities, Requires(x, y)
      PROVE  Requires(x, y)'
  <2>1. /\ manifest'[component_map'[x]] = manifest[component_map[x]]
        /\ manifest'[component_map'[y]] = manifest[component_map[y]]
        /\ component_map'[x] = component_map[x] /\ component_map'[y] = component_map[y]
        /\ Initial \subseteq Initial'
    BY DEF Grown
  <2>2. First(x) => First(x)'
    BY <1>3
  <2>3. First(y) => First(y)'
    BY <1>3
  <2> QED BY <1>2, <1>4, <2>1, <2>2, <2>3 DEF Requires
<1>5. ASSUME NEW x \in Entities, NEW y \in Entities, Borrowed(x, y)
      PROVE  Borrowed(x, y)'
  <2>1. PICK z \in Entities, a \in ToSet(manifest[component_map[y]].attributes_precedes) :
          /\ component_map[z] \in DefaultFor(a)
          /\ First(x) /\ component_map[x] \in ToSet(manifest[component_map[z]].depends)
    BY <1>5 DEF Borrowed
  <2>2. /\ manifest'[component_map'[y]] = manifest[component_map[y]]
        /\ manifest'[component_map'[z]] = manifest[component_map[z]]
        /\ component_map'[z] = component_map[z] /\ component_map'[x] = component_map[x]
        /\ z \in Entities'
    BY DEF Grown
  <2>3. First(x)' /\ component_map'[z] \in DefaultFor(a)'
    BY <1>2, <1>3, <2>1, <2>2
  <2> QED BY <2>1, <2>2, <2>3 DEF Borrowed
<1>6. ASSUME NEW n, NEW y \in Entities, Asked(n, y) PROVE Asked(n, y)'
  <2>1. Of(y)' = Of(y) /\ component_map'[y] = component_map[y] /\ manifest' = manifest
    BY <1>1 DEF Grown
  <2>2. CASE n \in ToSet(Of(y).depends)
    BY <2>1, <2>2 DEF Asked
  <2>3. CASE \E z \in Entities, a \in ToSet(Of(y).attributes_precedes) :
               component_map[z] \in DefaultFor(a) /\ n \in ToSet(Of(z).depends)
    <3>1. PICK z \in Entities, a \in ToSet(Of(y).attributes_precedes) :
               component_map[z] \in DefaultFor(a) /\ n \in ToSet(Of(z).depends)
      BY <2>3
    <3>2. /\ z \in Entities' /\ component_map'[z] \in DefaultFor(a)'
          /\ n \in ToSet(Of(z)'.depends)
      BY <1>1, <1>2, <3>1 DEF Grown
    <3> QED BY <2>1, <3>1, <3>2 DEF Asked
  <2>4. CASE First(y)
    <3>1. First(y)'
      BY <1>3, <2>4
    <3> QED BY <1>2, <1>6, <2>1, <2>2, <2>3, <3>1 DEF Asked
  <2> QED BY <1>6, <2>2, <2>3, <2>4 DEF Asked
<1> QED
  BY <1>1, <1>2, <1>3, <1>4, <1>5, <1>6 DEF Demands

\* What is asked for is demanded of the first that has the name.
LEMMA AskedIsDemanded ==
  ASSUME NEW x \in Entities, NEW y \in Entities, First(x), Asked(component_map[x], y)
  PROVE  Demands(x, y)
BY DEF Asked, Demands, Requires, Borrowed, Of

LEMMA GraphStays ==
  ASSUME UNCHANGED <<component_map, since, edge, dep_id, manifest, attribute_defaults>>
  PROVE  Grown
BY DEF Grown, Entities, Nodes, Initial

\* An association that is demanded.
LEMMA AssociationGrows ==
  ASSUME Inv, EdgesInv, NEW x \in Entities, NEW y \in Entities, Demands(x, y),
         AssociateEntities(x, y), UNCHANGED <<dep_id, manifest, attribute_defaults>>
  PROVE  Grown /\ EdgesInv'
<1>1. /\ Entities' = Entities /\ Nodes' = Nodes /\ Initial' = Initial
      /\ component_map' = component_map /\ edge' = edge \cup {<<x, y>>}
  BY DEF AssociateEntities, Entities, Nodes, Initial
<1>2. Grown
  BY <1>1 DEF Grown
<1>3. x \in Nodes /\ y \in Nodes /\ x \notin Attribute /\ y \notin Attribute
  BY LabelsAreNotIds DEF Inv, GraphInv, Ids
<1>4. \A z \in Entities : Of(z)' = Of(z)
  BY <1>2, StillDemanded
<1>5. \A u, v \in Entities : Demands(u, v) => Demands(u, v)'
  BY <1>2, StillDemanded
<1>6. EdgesInv'
  <2>1. edge' \subseteq Nodes' \X Nodes'
    BY <1>1, <1>3 DEF EdgesInv
  <2>2. \A e \in edge' : e[2] \in Attribute =>
          e[1] \in Entities' /\ e[2] \in ToSet(Of(e[1])'.attributes_provides)
    BY <1>1, <1>3, <1>4 DEF EdgesInv
  <2>3. \A e \in edge' : e[1] \in Attribute =>
          e[2] \in Entities' /\ e[1] \in ToSet(Of(e[2])'.attributes_depends)
    BY <1>1, <1>3, <1>4 DEF EdgesInv
  <2>4. \A e \in edge' : e[1] \in Entities' /\ e[2] \in Entities' => Demands(e[1], e[2])'
    BY <1>1, <1>5 DEF EdgesInv
  <2>5. \A z \in Entities' : \A a \in ToSet(Of(z)'.attributes_depends) : <<a, z>> \in edge'
    BY <1>1, <1>4 DEF EdgesInv
  <2> QED BY <2>1, <2>2, <2>3, <2>4, <2>5 DEF EdgesInv
<1> QED
  BY <1>2, <1>6

\* An insertion, all of whose associations are demanded.
LEMMA InsertionGrows ==
  ASSUME Inv, EdgesInv, NEW name \in Installed, NEW group \in Nat, NEW assoc,
         Insert(name, group, assoc), UNCHANGED <<manifest, attribute_defaults>>,
         Initial \subseteq Initial'
  PROVE  /\ Grown
         /\ Entities' = Entities \cup {NewId} /\ NewId \notin Entities
         /\ component_map'[NewId] = name
         /\ \A u : u = NewId => /\ Of(u)' = manifest[name]
                                /\ ~Present(name) => First(u)'
         /\ assoc \subseteq edge'
         /\ (\A e \in assoc : e = <<e[1], e[2]>> /\ e[1] \in Entities' /\ e[2] \in Entities'
                                /\ Demands(e[1], e[2])')
              => EdgesInv'
<1> DEFINE m == manifest[name]
<1>0. PICK id : id = NewId
  OBVIOUS
<1>1. /\ NewId \in Ids /\ NewId \notin Entities /\ Entities' = Entities \cup {NewId}
      /\ component_map'[NewId] = name /\ GraphInv'
      /\ \A x \in Entities : x < NewId /\ component_map'[x] = component_map[x]
  BY Insertion DEF Inv
<1>2. /\ Nodes' = Nodes \cup {NewId} \cup ToSet(m.attributes_depends) \cup ToSet(m.attributes_provides)
      /\ edge' = edge \cup (ToSet(m.attributes_depends) \X {NewId})
                      \cup ({NewId} \X ToSet(m.attributes_provides)) \cup assoc
  BY DEF Insert, InsertEntity, Nodes
<1>3. Grown
  <2>1. \A x \in Entities : x \in Nat /\ NewId \in Nat
    BY <1>1 DEF Inv, GraphInv, Ids
  <2> QED BY <1>1, <1>2, <2>1 DEF Grown
<1>4. ToSet(m.attributes_depends) \subseteq Attribute /\ ToSet(m.attributes_provides) \subseteq Attribute
  <2>1. m \in Manifest
    BY ManifestFields DEF Inv
  <2>2. m.attributes_depends \in Seq(Attribute) /\ m.attributes_provides \in Seq(Attribute)
    BY <2>1 DEF Manifest
  <2> QED BY <2>2 DEF ToSet
<1>5. \A x \in Entities' : x \notin Attribute /\ x \in Nodes'
  BY <1>1, LabelsAreNotIds DEF GraphInv, Ids
<1>6. id \in Entities' /\ Of(id)' = m
  BY <1>0, <1>1 DEF Of
<1>7. ~Present(name) => \A u : u = NewId => First(u)'
  BY <1>1 DEF Present, First, Inv, GraphInv, Ids
<1>8. ASSUME \A e \in assoc : e = <<e[1], e[2]>> /\ e[1] \in Entities' /\ e[2] \in Entities'
                                /\ Demands(e[1], e[2])'
      PROVE  EdgesInv'
  <2>1. /\ \A z \in Entities : Of(z)' = Of(z)
        /\ \A u, v \in Entities : Demands(u, v) => Demands(u, v)'
    BY <1>3, StillDemanded
  <2> DEFINE Right(e) ==
        /\ e \in Nodes' \X Nodes'
        /\ e[2] \in Attribute => e[1] \in Entities' /\ e[2] \in ToSet(Of(e[1])'.attributes_provides)
        /\ e[1] \in Attribute => e[2] \in Entities' /\ e[1] \in ToSet(Of(e[2])'.attributes_depends)
        /\ e[1] \in Entities' /\ e[2] \in Entities' => Demands(e[1], e[2])'
  <2>2. ASSUME NEW e \in edge PROVE Right(e)
    <3>1. e[1] \in Nodes /\ e[2] \in Nodes /\ e = <<e[1], e[2]>>
      BY DEF EdgesInv
    <3>2. e[1] \in Entities \cup Attribute /\ e[2] \in Entities \cup Attribute
      BY <3>1 DEF Inv, GraphInv
    <3> QED BY <1>1, <1>2, <1>5, <2>1, <3>1, <3>2 DEF EdgesInv
  <2>3. ASSUME NEW a \in ToSet(m.attributes_depends) PROVE Right(<<a, id>>)
    BY <1>0, <1>2, <1>4, <1>5, <1>6
  <2>4. ASSUME NEW a \in ToSet(m.attributes_provides) PROVE Right(<<id, a>>)
    BY <1>0, <1>2, <1>4, <1>5, <1>6
  <2>5. ASSUME NEW e \in assoc PROVE Right(e)
    <3>1. e = <<e[1], e[2]>> /\ e[1] \in Entities' /\ e[2] \in Entities' /\ Demands(e[1], e[2])'
      BY <1>8
    <3> QED BY <1>5, <3>1
  <2>6. \A e \in edge' : Right(e)
    <3> HIDE DEF Right
    <3> QED BY <1>0, <1>2, <2>2, <2>3, <2>4, <2>5
  <2>7. \A y \in Entities' : \A a \in ToSet(Of(y)'.attributes_depends) : <<a, y>> \in edge'
    <3>1. \A y \in Entities : \A a \in ToSet(Of(y)'.attributes_depends) : <<a, y>> \in edge'
      BY <1>2, <2>1 DEF EdgesInv
    <3>2. \A a \in ToSet(Of(id)'.attributes_depends) : <<a, id>> \in edge'
      BY <1>0, <1>2, <1>6
    <3> QED BY <1>0, <1>1, <3>1, <3>2
  <2> QED BY <2>6, <2>7 DEF EdgesInv
<1>9. assoc \subseteq edge'
  BY <1>2
<1> QED
  BY <1>0, <1>1, <1>3, <1>6, <1>7, <1>8, <1>9

-------------------------------------------------------------------------------
(* The first entity of a name is the first in the order of the sort. *)

\* A list in which each number is below the next one is increasing.
LEMMA Increasing ==
  ASSUME NEW n \in Nat, NEW f, \A i \in 1..n : f[i] \in Nat,
         \A i \in 1..n - 1 : f[i] < f[i + 1]
  PROVE  \A i, j \in 1..n : i < j => f[i] < f[j]
<1> DEFINE S == {j \in Nat : j \in 1..n => \A i \in 1..j - 1 : f[i] < f[j]}
<1>1. 0 \in S
  OBVIOUS
<1>2. ASSUME NEW j \in Nat, j \in S PROVE j + 1 \in S
  <2> SUFFICES ASSUME j + 1 \in 1..n, NEW i \in 1..j PROVE f[i] < f[j + 1]
    OBVIOUS
  <2>1. j \in 1..n - 1 /\ f[j] < f[j + 1] /\ f[j] \in Nat /\ f[j + 1] \in Nat /\ f[i] \in Nat
    OBVIOUS
  <2>2. CASE i = j
    BY <2>1, <2>2
  <2>3. CASE i # j
    <3>1. j \in 1..n /\ i \in 1..j - 1
      BY <2>1, <2>3
    <3>2. f[i] < f[j]
      BY <1>2, <3>1
    <3> QED BY <2>1, <3>2
  <2> QED BY <2>2, <2>3
<1>3. Nat \subseteq S
  <2> HIDE DEF S
  <2> QED BY <1>1, <1>2, Upwards
<1> QED
  BY <1>3

\* The command line is inserted, numbered and sorted in its order.
LEMMA CommandLineOrder ==
  ASSUME Inv, ChainInv
  PROVE  \A i, j \in 1..Len(dep_id) : i < j =>
           /\ dep_id[i] < dep_id[j]
           /\ ~HasCycles => Place(Sorted, dep_id[i]) < Place(Sorted, dep_id[j])
<1>1. /\ Len(dep_id) \in Nat
      /\ \A i \in 1..Len(dep_id) : dep_id[i] \in Nat /\ dep_id[i] \in Nodes
  <2>1. dep_id \in Seq(Ids) /\ Initial \subseteq Entities /\ Entities \subseteq Nodes
    BY DEF Inv, CommandLineInv, GraphInv
  <2>2. \A i \in 1..Len(dep_id) : dep_id[i] \in Initial /\ dep_id[i] \in Ids
    BY <2>1 DEF Initial, ToSet
  <2> QED BY <2>1, <2>2 DEF Ids
<1>2. \A i, j \in 1..Len(dep_id) : i < j => dep_id[i] < dep_id[j]
  <2>1. \A i \in 1..Len(dep_id) - 1 : dep_id[i] < dep_id[i + 1]
    BY DEF ChainInv
  <2> QED BY <1>1, <2>1, Increasing
<1>3. ASSUME ~HasCycles
      PROVE  \A i, j \in 1..Len(dep_id) : i < j => Place(Sorted, dep_id[i]) < Place(Sorted, dep_id[j])
  <2> DEFINE f == [i \in 1..Len(dep_id) |-> Place(Sorted, dep_id[i])]
  <2>1. \A i \in 1..Len(dep_id) : f[i] \in Nat
    BY <1>1, <1>3, PlacesFollowEdges DEF Inv
  <2>2. ASSUME NEW i \in 1..Len(dep_id) - 1 PROVE f[i] < f[i + 1]
    <3>1. i \in 1..Len(dep_id) /\ i + 1 \in 1..Len(dep_id)
      BY <1>1
    <3>2. <<dep_id[i], dep_id[i + 1]>> \in edge /\ dep_id[i] \in Nodes /\ dep_id[i + 1] \in Nodes
      BY <1>1, <3>1 DEF ChainInv
    <3>3. Place(Sorted, dep_id[i]) < Place(Sorted, dep_id[i + 1])
      <4>1. PICK e \in edge : e = <<dep_id[i], dep_id[i + 1]>>
        BY <3>2
      <4>2. e[1] \in Nodes /\ e[2] \in Nodes => Place(Sorted, e[1]) < Place(Sorted, e[2])
        BY <1>3, PlacesFollowEdges DEF Inv
      <4> QED BY <3>2, <4>1, <4>2
    <3> QED BY <3>1, <3>3
  <2>3. \A i, j \in 1..Len(dep_id) : i < j => f[i] < f[j]
    <3> HIDE DEF f
    <3> QED BY <1>1, <2>1, <2>2, Increasing
  <2> QED BY <2>3
<1> QED
  BY <1>2, <1>3

\* Two entities of one name are both on the command line.
LEMMA SameName ==
  ASSUME Inv, NEW x \in Entities, NEW y \in Entities,
         component_map[x] = component_map[y], x # y
  PROVE  \E i, j \in 1..Len(dep_id) : i # j /\ x = dep_id[i] /\ y = dep_id[j]
<1>1. x \in Initial /\ y \in Initial
  BY DEF Inv, OnlyAskedForRepeats
<1>2. dep_id \in Seq(Ids)
  BY DEF Inv, CommandLineInv
<1> QED
  BY <1>1, <1>2 DEF Initial, ToSet

\* get_first finds the entity that was inserted first.
LEMMA FirstIsFirst ==
  ASSUME Inv, ChainInv, ~HasCycles, NEW name, Present(name)
  PROVE  /\ GetFirst(name) \in Entities /\ component_map[GetFirst(name)] = name
         /\ First(GetFirst(name))
<1> DEFINE x == GetFirst(name)
<1>1. /\ x \in Entities /\ component_map[x] = name
      /\ \A y \in Entities : component_map[y] = name => Place(Sorted, x) <= Place(Sorted, y)
  BY FirstIsFound DEF Inv
<1> HIDE DEF x
<1>2. ASSUME NEW y \in Entities, component_map[y] = component_map[x] PROVE x <= y
  <2>1. x \in Nat /\ y \in Nat /\ x \in Nodes /\ y \in Nodes
    BY <1>1 DEF Inv, GraphInv, Ids
  <2>2. CASE x = y
    BY <2>1, <2>2
  <2>3. CASE x # y
    <3>1. PICK i, j \in 1..Len(dep_id) : i # j /\ x = dep_id[i] /\ y = dep_id[j]
      BY <1>1, <1>2, <2>3, SameName
    <3>2. CASE i < j
      BY <2>1, <3>1, <3>2, CommandLineOrder
    <3>3. CASE j < i
      <4>1. Place(Sorted, y) < Place(Sorted, x)
        BY <3>1, <3>3, CommandLineOrder
      <4>2. Place(Sorted, x) <= Place(Sorted, y)
        BY <1>1, <1>2
      <4>3. Place(Sorted, y) \in Nat /\ Place(Sorted, x) \in Nat
        BY <2>1, PlacesFollowEdges DEF Inv
      <4> QED BY <4>1, <4>2, <4>3
    <3>4. i \in Nat /\ j \in Nat
      OBVIOUS
    <3> QED BY <3>1, <3>2, <3>3, <3>4
  <2> QED BY <2>2, <2>3
<1>3. First(x)
  BY <1>2 DEF First
<1> QED
  BY <1>1, <1>3 DEF x

\* An attribute has one default provider at most.
LEMMA OneDefault ==
  ASSUME Inv, NEW l, NEW m \in DefaultFor(l), NEW n \in DefaultFor(l)
  PROVE  m = n
<1>1. IsFiniteSet(Installed)
  BY WellFormedManifests DEF Inv, InputsOK, Installed
<1>2. CASE Cardinality(Providers(l)) = 1
  <2>1. IsFiniteSet(Providers(l))
    BY <1>1, FS_Subset DEF Providers
  <2>2. PICK o : Providers(l) = {o}
    BY <1>2, <2>1, FS_Singleton
  <2> QED BY <1>2, <2>2 DEF DefaultFor
<1>3. CASE Cardinality(Providers(l)) # 1
  BY <1>3 DEF DefaultFor
<1> QED
  BY <1>2, <1>3

-------------------------------------------------------------------------------
(* What waits in the queue. *)

LEMMA QueueParts ==
  ASSUME NEW T, NEW s \in Seq(T), NEW q \in Seq(T)
  PROVE  /\ ToSet(s \o q) = ToSet(s) \cup ToSet(q)
         /\ s # << >> => ToSet(s) = {Head(s)} \cup ToSet(Tail(s))
<1>1. Len(s \o q) = Len(s) + Len(q) /\ Len(s) \in Nat /\ Len(q) \in Nat
  OBVIOUS
<1>2. \A i \in 1..Len(s) : (s \o q)[i] = s[i] /\ i \in 1..Len(s) + Len(q)
  OBVIOUS
<1>3. \A i \in 1..Len(q) : (s \o q)[Len(s) + i] = q[i] /\ Len(s) + i \in 1..Len(s) + Len(q)
  OBVIOUS
<1>4. \A i \in 1..Len(s) + Len(q) : i \in 1..Len(s) \/ i - Len(s) \in 1..Len(q)
  BY <1>1
<1>5. ToSet(s \o q) \subseteq ToSet(s) \cup ToSet(q)
  <2> SUFFICES ASSUME NEW i \in 1..Len(s) + Len(q)
               PROVE  (s \o q)[i] \in ToSet(s) \cup ToSet(q)
    BY <1>1 DEF ToSet
  <2>1. CASE i \in 1..Len(s)
    BY <1>2, <2>1 DEF ToSet
  <2>2. CASE i - Len(s) \in 1..Len(q)
    <3>1. (s \o q)[i] = q[i - Len(s)]
      BY <1>1, <1>3, <2>2
    <3> QED BY <2>2, <3>1 DEF ToSet
  <2> QED BY <1>4, <2>1, <2>2
<1>6. ToSet(s) \cup ToSet(q) \subseteq ToSet(s \o q)
  <2>1. ASSUME NEW i \in 1..Len(s) PROVE s[i] \in ToSet(s \o q)
    <3>1. i \in DOMAIN (s \o q)
      BY <1>1, <1>2
    <3> QED BY <1>2, <3>1 DEF ToSet
  <2>2. ASSUME NEW i \in 1..Len(q) PROVE q[i] \in ToSet(s \o q)
    <3>1. Len(s) + i \in DOMAIN (s \o q)
      BY <1>1, <1>3
    <3> QED BY <1>3, <3>1 DEF ToSet
  <2>3. ToSet(s) = {s[i] : i \in 1..Len(s)} /\ ToSet(q) = {q[i] : i \in 1..Len(q)}
    BY DEF ToSet
  <2> QED BY <2>1, <2>2, <2>3
<1>7. ASSUME s # << >> PROVE ToSet(s) = {Head(s)} \cup ToSet(Tail(s))
  <2>1. /\ Len(Tail(s)) = Len(s) - 1 /\ 1 \in 1..Len(s) /\ Head(s) = s[1]
        /\ \A i \in 1..Len(s) - 1 : Tail(s)[i] = s[i + 1] /\ i + 1 \in 1..Len(s)
    BY <1>7
  <2>2. \A i \in 1..Len(s) : i = 1 \/ i - 1 \in 1..Len(s) - 1
    BY <1>1
  <2>3. Tail(s) \in Seq(T)
    BY <1>7
  <2>4. ToSet(s) \subseteq {Head(s)} \cup ToSet(Tail(s))
    <3> SUFFICES ASSUME NEW i \in 1..Len(s), i # 1 PROVE s[i] \in ToSet(Tail(s))
      BY <2>1 DEF ToSet
    <3>1. PICK k \in 1..Len(s) - 1 : i = k + 1
      BY <2>2
    <3>2. k \in DOMAIN Tail(s) /\ Tail(s)[k] = s[i]
      BY <2>1, <2>3, <3>1
    <3> QED BY <3>2 DEF ToSet
  <2>5. {Head(s)} \cup ToSet(Tail(s)) \subseteq ToSet(s)
    BY <2>1, <2>3 DEF ToSet
  <2> QED BY <2>4, <2>5
<1> QED
  BY <1>5, <1>6, <1>7

\* The requests are one or more for each name that a component depends on.
Requests(those, name, parent) ==
  /\ \A d \in those : d.parent = parent /\ d.name \in ToSet(manifest[name].depends)
  /\ \A n \in ToSet(manifest[name].depends) : \E d \in those : d.name = n /\ d.parent = parent

LEMMA DependsOfParts ==
  ASSUME NEW name, NEW parent, NEW group
  PROVE  Requests(ToSet(DependsOf(name, parent, group)), name, parent)
<1> DEFINE d == manifest[name].depends
           q == DependsOf(name, parent, group)
<1>1. DOMAIN q = DOMAIN d
      /\ \A i \in DOMAIN d : q[i] = [name |-> d[i], parent |-> parent, grouping |-> group]
  BY DEF DependsOf
<1>2. ToSet(q) = {q[i] : i \in DOMAIN q} /\ ToSet(d) = {d[i] : i \in DOMAIN d}
  BY DEF ToSet
<1> HIDE DEF q, d
<1>3. ASSUME NEW r \in ToSet(q) PROVE r.parent = parent /\ r.name \in ToSet(d)
  <2>1. PICK i \in DOMAIN q : r = q[i]
    BY <1>2
  <2>2. r = [name |-> d[i], parent |-> parent, grouping |-> group] /\ d[i] \in ToSet(d)
    BY <1>1, <1>2, <2>1
  <2> QED BY <2>2
<1>4. ASSUME NEW n \in ToSet(d)
      PROVE  \E r \in ToSet(q) : r.name = n /\ r.parent = parent
  <2>1. PICK i \in DOMAIN d : n = d[i]
    BY <1>2
  <2>2. q[i].name = n /\ q[i].parent = parent /\ q[i] \in ToSet(q)
    BY <1>1, <1>2, <2>1
  <2> QED BY <2>2
<1> QED
  BY <1>3, <1>4 DEF q, d, Requests

-------------------------------------------------------------------------------
(* What each component depends on is in the graph, or waits for it. *)

Comes(n, y) ==
  \/ \E x \in Entities : component_map[x] = n /\ <<x, y>> \in edge
  \/ \E d \in ToSet(depends) : d.name = n /\ d.parent = y

\* What a provider of an attribute depends on may come before the component
\* that precedes it instead, which comes before the provider.
Served(n, y) ==
  \/ Comes(n, y)
  \/ \E z \in Entities : First(z) /\ Comes(component_map[z], y) /\ Comes(n, z)

ServedInv == \A y \in Entities : \A n \in ToSet(Of(y).depends) : Served(n, y)

LEMMA AskedStays ==
  ASSUME Grown, AskedInv,
         \A d \in ToSet(depends') : \/ d \in ToSet(depends)
                                    \/ d.parent \in Entities' /\ Asked(d.name, d.parent)'
  PROVE  AskedInv'
BY StillDemanded DEF AskedInv, Grown

LEMMA ComesStays ==
  ASSUME Grown,
         \A d \in ToSet(depends) :
           \/ d \in ToSet(depends')
           \/ \E x \in Entities' : component_map'[x] = d.name /\ <<x, d.parent>> \in edge'
  PROVE  \A n, y : Comes(n, y) => Comes(n, y)'
<1> SUFFICES ASSUME NEW n, NEW y, Comes(n, y) PROVE Comes(n, y)'
  OBVIOUS
<1>1. ASSUME NEW x \in Entities, component_map[x] = n, <<x, y>> \in edge
      PROVE  Comes(n, y)'
  BY <1>1 DEF Grown, Comes
<1>2. ASSUME NEW d \in ToSet(depends), d.name = n, d.parent = y
      PROVE  Comes(n, y)'
  BY <1>2 DEF Comes
<1> QED
  BY <1>1, <1>2 DEF Comes

LEMMA ServedStays ==
  ASSUME Grown, ServedInv, \A n, y : Comes(n, y) => Comes(n, y)',
         \A y \in Entities' \ Entities : \A n \in ToSet(Of(y)'.depends) : Served(n, y)'
  PROVE  ServedInv'
<1>1. /\ \A x \in Entities : Of(x)' = Of(x)
      /\ \A x \in Entities : First(x) => First(x)'
  BY StillDemanded
<1>2. ASSUME NEW y \in Entities, NEW n \in ToSet(Of(y).depends)
      PROVE  Served(n, y)'
  <2>1. CASE Comes(n, y)
    BY <2>1 DEF Served
  <2>2. CASE ~Comes(n, y)
    <3>1. PICK z \in Entities : First(z) /\ Comes(component_map[z], y) /\ Comes(n, z)
      BY <2>2 DEF Served, ServedInv
    <3>2. /\ z \in Entities' /\ First(z)' /\ component_map'[z] = component_map[z]
          /\ Comes(n, z)'
      BY <1>1, <3>1 DEF Grown
    <3>3. PICK c : c = component_map[z]
      OBVIOUS
    <3>4. Comes(c, y)' /\ component_map'[z] = c
      BY <3>1, <3>2, <3>3
    <3>5. Comes(component_map[z], y)'
      BY <3>4 DEF Comes
    <3> QED BY <3>2, <3>5 DEF Served
  <2> QED BY <2>1, <2>2
<1> QED
  BY <1>1, <1>2 DEF ServedInv

LEMMA ChainStays ==
  ASSUME Grown, ChainInv, dep_id' = dep_id
  PROVE  ChainInv'
BY DEF ChainInv, Grown

\* A step that leaves graph and queue alone.
LEMMA QuietDemands ==
  ASSUME DemandsInv, ServedInv, UNCHANGED <<graphVars, inputVars, dep_id, depends>>
  PROVE  DemandsInv' /\ ServedInv'
<1>1. Grown
  BY GraphStays DEF graphVars, inputVars
<1>2. EdgesInv'
  <2>1. UNCHANGED <<component_map, manifest, edge>> /\ Entities' = Entities /\ Nodes' = Nodes
    BY DEF graphVars, inputVars, Entities, Nodes
  <2>2. /\ \A x \in Entities : Of(x)' = Of(x)
        /\ \A x, y \in Entities : Demands(x, y) => Demands(x, y)'
    BY <1>1, StillDemanded
  <2> QED BY <2>1, <2>2 DEF DemandsInv, EdgesInv
<1>3. AskedInv' /\ ChainInv'
  BY <1>1, AskedStays, ChainStays DEF DemandsInv
<1>4. ServedInv'
  <2>1. \A n, y : Comes(n, y) => Comes(n, y)'
    BY <1>1, ComesStays
  <2>2. Entities' = Entities
    BY DEF graphVars, Entities
  <2> QED BY <1>1, <2>1, <2>2, ServedStays
<1> QED
  BY <1>2, <1>3, <1>4 DEF DemandsInv

\* An association that is demanded; it answers what no longer waits.
LEMMA AssociationDemands ==
  ASSUME Inv, DemandsInv, ServedInv, NEW x \in Entities, NEW y \in Entities, Demands(x, y),
         AssociateEntities(x, y), UNCHANGED <<dep_id, manifest, attribute_defaults>>,
         ToSet(depends') \subseteq ToSet(depends),
         \A d \in ToSet(depends) : \/ d \in ToSet(depends')
                                   \/ d.name = component_map[x] /\ d.parent = y
  PROVE  DemandsInv' /\ ServedInv'
<1>1. Grown /\ EdgesInv'
  BY AssociationGrows DEF DemandsInv
<1>2. Entities' = Entities /\ component_map' = component_map /\ <<x, y>> \in edge'
  BY DEF AssociateEntities, Entities
<1>3. AskedInv' /\ ChainInv'
  BY <1>1, AskedStays, ChainStays DEF DemandsInv
<1>4. \A n, v : Comes(n, v) => Comes(n, v)'
  BY <1>1, <1>2, ComesStays
<1>5. ServedInv'
  BY <1>1, <1>2, <1>4, ServedStays
<1> QED
  BY <1>1, <1>3, <1>5 DEF DemandsInv

\* The queue is s and the requests of a new component.
Longer(s, name, parent, group) == depends' = s \o DependsOf(name, parent, group)

\* What the queue holds after an insertion.
LEMMA QueueGrows ==
  ASSUME Inv, NEW name \in Installed, NEW group \in Nat, NEW assoc,
         Insert(name, group, assoc), manifest' = manifest, Resolvable(name),
         NEW parent \in Ids, NEW s \in Seq(Dependency), Longer(s, name, parent, group)
  PROVE  \E own : ToSet(depends') = ToSet(s) \cup own /\ Requests(own, name, parent)
<1> DEFINE q == DependsOf(name, parent, group)
<1>1. /\ NewId \in Entities' /\ component_map'[NewId] = name
      /\ Entities \subseteq Entities'
      /\ \A id \in Entities : component_map'[id] = component_map[id]
  BY Insertion DEF Inv
<1>2. q \in Seq(Dependency') /\ s \in Seq(Dependency')
  BY <1>1, DependsOfType, StillWanted DEF Inv
<1>3. ToSet(depends') = ToSet(s) \cup ToSet(q)
  BY <1>2, QueueParts DEF Longer
<1>4. Requests(ToSet(q), name, parent)
  BY DependsOfParts
<1> HIDE DEF q
<1> QED
  BY <1>3, <1>4

\* An insertion whose dependencies are its own.
LEMMA InsertionDemands ==
  ASSUME Inv, DemandsInv, ServedInv, NEW name \in Installed, NEW group \in Nat, NEW assoc,
         Insert(name, group, assoc), UNCHANGED <<manifest, attribute_defaults>>,
         Resolvable(name), Initial \subseteq Initial', Grown => ChainInv',
         NEW s \in Seq(Dependency), Longer(s, name, NewId, group),
         ToSet(s) \subseteq ToSet(depends),
         \A d \in ToSet(depends) \ ToSet(s) : d.name = name /\ <<NewId, d.parent>> \in assoc,
         Grown => \A e \in assoc : e = <<e[1], e[2]>> /\ e[1] \in Entities' /\ e[2] \in Entities'
                                     /\ Demands(e[1], e[2])'
  PROVE  DemandsInv' /\ ServedInv'
<1>0. PICK id : id = NewId
  OBVIOUS
<1>1. /\ Grown /\ EdgesInv' /\ Entities' = Entities \cup {id} /\ component_map'[id] = name
      /\ Of(id)' = manifest[name] /\ assoc \subseteq edge'
  BY <1>0, InsertionGrows DEF DemandsInv
<1>2. id \in Ids
  BY <1>0, Insertion DEF Inv
<1>3. PICK own : ToSet(depends') = ToSet(s) \cup own /\ Requests(own, name, id)
  <2>1. Longer(s, name, id, group) /\ manifest' = manifest
    BY <1>0 DEF Longer
  <2> QED BY <1>2, <2>1, QueueGrows
<1>4. AskedInv'
  <2>1. \A n \in ToSet(manifest[name].depends) : Asked(n, id)'
    BY <1>1 DEF Asked
  <2>2. \A d \in own : d.parent \in Entities' /\ Asked(d.name, d.parent)'
    BY <1>1, <1>3, <2>1 DEF Requests
  <2> QED BY <1>1, <1>3, <2>2, AskedStays DEF DemandsInv
<1>5. \A n, y : Comes(n, y) => Comes(n, y)'
  BY <1>0, <1>1, <1>3, ComesStays
<1>6. \A n \in ToSet(manifest[name].depends) : Served(n, id)'
  BY <1>3 DEF Served, Comes, Requests
<1>7. ServedInv'
  BY <1>1, <1>5, <1>6, ServedStays
<1> QED
  BY <1>1, <1>4, <1>7 DEF DemandsInv

-------------------------------------------------------------------------------
(* The steps that build the graph. *)

\* What was asked for is demanded once its component is there.
LEMMA AnsweredDemand ==
  ASSUME Grown, NEW n, NEW y \in Entities, Asked(n, y), NEW x,
         x \in Entities', component_map'[x] = n, First(x)'
  PROVE  Demands(x, y)'
<1>1. Asked(n, y)' /\ y \in Entities'
  BY StillDemanded DEF Grown
<1> QED
  BY <1>1 DEF Asked, Demands, Requires, Borrowed, Of

\* Components of the command line are demanded in its order.
LEMMA InitialDemands ==
  ASSUME Inv, DemandsInv, ServedInv, InsertInitial
  PROVE  DemandsInv' /\ ServedInv'
<1> DEFINE name == asked[Len(dep_id) + 1]
           group == Len(dep_id)
<1>1. CASE ~Resolvable(name)
  BY <1>1, QuietDemands DEF InsertInitial, Fail
<1>2. CASE Resolvable(name)
  <2>1. /\ Insert(name, group, Previous \X {NewId})
        /\ dep_id' = Append(dep_id, NewId)
        /\ depends' = depends \o DependsOf(name, NewId, group)
        /\ UNCHANGED <<manifest, attribute_defaults>>
        /\ phase = "initial" /\ Len(dep_id) < Len(asked)
    BY <1>2 DEF InsertInitial, inputVars
  <2>2. name \in Installed /\ group \in Nat
    <3>1. dep_id \in Seq(Ids) /\ asked \in Seq(Name) /\ ToSet(asked) \subseteq Installed
      BY DEF Inv, InputsOK, CommandLineInv
    <3>2. Len(dep_id) + 1 \in DOMAIN asked
      BY <2>1, <3>1
    <3> QED BY <3>1, <3>2 DEF ToSet
  <2> HIDE DEF name, group
  <2>3. PICK id, assoc : id = NewId /\ assoc = Previous \X {NewId}
    OBVIOUS
  <2>4. /\ id \in Ids /\ Entities' = Entities \cup {id}
        /\ \A x \in Entities : x < id
    BY <2>1, <2>2, <2>3, Insertion DEF Inv
  <2>5. /\ Len(dep_id') = Len(dep_id) + 1 /\ Len(dep_id) \in Nat
        /\ \A i \in 1..Len(dep_id') : dep_id'[i] = IF i <= Len(dep_id) THEN dep_id[i] ELSE id
        /\ \A i \in 1..Len(dep_id) : dep_id[i] \in Initial /\ dep_id[i] \in Entities
        /\ Initial' = {dep_id'[i] : i \in 1..Len(dep_id')}
    <3>1. dep_id \in Seq(Ids) /\ Initial \subseteq Entities
      BY DEF Inv, CommandLineInv
    <3>2. dep_id' = Append(dep_id, id) /\ dep_id' \in Seq(Ids)
      BY <2>1, <2>3, <2>4, <3>1
    <3>3. Len(dep_id') = Len(dep_id) + 1 /\ Len(dep_id) \in Nat
      BY <3>1, <3>2
    <3>4. \A i \in 1..Len(dep_id') : dep_id'[i] = IF i <= Len(dep_id) THEN dep_id[i] ELSE id
      BY <3>1, <3>2, <3>3
    <3>5. \A i \in 1..Len(dep_id) : dep_id[i] \in Initial
      BY <3>1 DEF Initial, ToSet
    <3>6. Initial' = {dep_id'[i] : i \in 1..Len(dep_id')}
      BY <3>2 DEF Initial, ToSet
    <3> QED BY <3>1, <3>3, <3>4, <3>5, <3>6
  <2>6. Initial \subseteq Initial' /\ id \in Initial'
    <3>1. \A i \in 1..Len(dep_id) : i \in 1..Len(dep_id') /\ dep_id'[i] = dep_id[i]
      BY <2>5
    <3>2. Len(dep_id') \in 1..Len(dep_id') /\ dep_id'[Len(dep_id')] = id
      BY <2>5
    <3>3. Initial = {dep_id[i] : i \in 1..Len(dep_id)}
      BY DEF Initial, ToSet, Inv, CommandLineInv
    <3> QED BY <2>5, <3>1, <3>2, <3>3
  <2>7. \A e \in assoc : Len(dep_id) # 0 /\ e = <<dep_id[Len(dep_id)], id>>
    BY <2>3 DEF Previous
  <2>8. Len(dep_id) # 0 => <<dep_id[Len(dep_id)], id>> \in assoc
    BY <2>3 DEF Previous
  <2>9. Grown => ChainInv'
    <3> SUFFICES ASSUME Grown, NEW i \in 1..Len(dep_id') - 1
                 PROVE  dep_id'[i] < dep_id'[i + 1] /\ <<dep_id'[i], dep_id'[i + 1]>> \in edge'
      BY DEF ChainInv
    <3>1. CASE i = Len(dep_id)
      <4>1. dep_id'[i] = dep_id[i] /\ dep_id'[i + 1] = id /\ dep_id[i] \in Entities
        BY <2>5, <3>1
      <4>2. assoc \subseteq edge'
        BY <2>1, <2>3 DEF Insert, InsertEntity
      <4>3. <<dep_id[i], id>> \in assoc
        BY <2>5, <2>8, <3>1
      <4> QED BY <2>4, <4>1, <4>2, <4>3
    <3>2. CASE i # Len(dep_id)
      <4>1. i \in 1..Len(dep_id) - 1 /\ dep_id'[i] = dep_id[i] /\ dep_id'[i + 1] = dep_id[i + 1]
        BY <2>5, <3>2
      <4> QED BY <4>1 DEF DemandsInv, ChainInv, Grown
    <3> QED BY <3>1, <3>2
  <2>10. \A e \in assoc : e = <<e[1], e[2]>> /\ e[1] \in Entities' /\ e[2] \in Entities'
                            /\ Demands(e[1], e[2])'
    <3> SUFFICES ASSUME NEW e \in assoc
                 PROVE  e = <<e[1], e[2]>> /\ e[1] \in Entities' /\ e[2] \in Entities'
                          /\ Demands(e[1], e[2])'
      OBVIOUS
    <3>1. e = <<e[1], e[2]>> /\ e[1] = dep_id[Len(dep_id)] /\ e[2] = id /\ Len(dep_id) # 0
      BY <2>7
    <3>2. e[1] \in Entities /\ e[1] \in Initial
      BY <2>5, <3>1
    <3>3. e[1] < e[2] /\ e[1] \in Initial' /\ e[2] \in Initial'
      BY <2>4, <2>6, <3>1, <3>2
    <3>4. Demands(e[1], e[2])'
      BY <3>3 DEF Demands, Requires
    <3> QED BY <2>4, <3>1, <3>2, <3>4
  <2>11. /\ depends \in Seq(Dependency) /\ Longer(depends, name, NewId, group)
         /\ Insert(name, group, assoc) /\ Resolvable(name)
    BY <1>2, <2>1, <2>3 DEF Inv, QueueInv, Longer, name
  <2> QED
    BY <2>1, <2>2, <2>6, <2>9, <2>10, <2>11, InsertionDemands
<1> QED
  BY <1>1, <1>2

\* A dependency that was asked for is answered, by an edge from its first
\* entity or from a new one.
LEMMA DependencyDemands ==
  ASSUME Inv, DemandsInv, ServedInv, InsertDependency
  PROVE  DemandsInv' /\ ServedInv'
<1> DEFINE dep == Head(depends)
           rest == Tail(depends)
<1>1. /\ depends \in Seq(Dependency) /\ rest \in Seq(Dependency)
      /\ dep \in Dependency /\ depends # << >>
  BY DEF InsertDependency, Inv, QueueInv
<1>2. ToSet(depends) = {dep} \cup ToSet(rest)
  BY <1>1, QueueParts
<1>3. dep.name \in Wanted /\ dep.parent \in Ids /\ dep.grouping \in Nat
  BY <1>1 DEF Dependency
<1>4. dep.parent \in Entities /\ Asked(dep.name, dep.parent)
  BY <1>2 DEF DemandsInv, AskedInv
<1>5. CASE Present(dep.name) /\ ~HasCycles
  <2>1. /\ AssociateEntities(GetFirst(dep.name), dep.parent)
        /\ depends' = rest
        /\ UNCHANGED <<dep_id, manifest, attribute_defaults>>
    BY <1>5 DEF InsertDependency, inputVars
  <2> HIDE DEF dep, rest
  <2>2. PICK x : x = GetFirst(dep.name)
    OBVIOUS
  <2>3. x \in Entities /\ component_map[x] = dep.name /\ First(x)
    BY <1>5, <2>2, FirstIsFirst DEF DemandsInv
  <2>4. Demands(x, dep.parent)
    BY <1>4, <2>3, AskedIsDemanded
  <2>5. AssociateEntities(x, dep.parent)
    BY <2>1, <2>2
  <2> QED BY <1>2, <1>4, <2>1, <2>3, <2>4, <2>5, AssociationDemands
<1>6. CASE ~Present(dep.name) /\ Resolvable(dep.name)
  <2>1. /\ Insert(dep.name, dep.grouping, {<<NewId, dep.parent>>})
        /\ depends' = rest \o DependsOf(dep.name, NewId, dep.grouping)
        /\ UNCHANGED <<dep_id, manifest, attribute_defaults>>
    BY <1>6 DEF InsertDependency, inputVars
  <2> HIDE DEF dep, rest
  <2>2. PICK name, group, parent, id, assoc :
          /\ name = dep.name /\ group = dep.grouping /\ parent = dep.parent
          /\ id = NewId /\ assoc = {<<NewId, dep.parent>>}
    OBVIOUS
  <2>3. /\ name \in Installed /\ group \in Nat /\ Insert(name, group, assoc)
        /\ ~Present(name) /\ Resolvable(name) /\ assoc = {<<id, parent>>}
        /\ Longer(rest, name, NewId, group)
    BY <1>3, <1>6, <2>1, <2>2 DEF Wanted, Longer
  <2>4. Initial' = Initial
    BY <2>1 DEF Initial
  <2>5. /\ Grown /\ Entities' = Entities \cup {id} /\ component_map'[id] = name
        /\ First(id)'
    BY <2>1, <2>2, <2>3, <2>4, InsertionGrows DEF DemandsInv
  <2>6. ChainInv'
    BY <2>1, <2>5, ChainStays DEF DemandsInv
  <2>7. Demands(id, parent)'
    BY <1>4, <2>2, <2>5, AnsweredDemand
  <2>8. \A e \in assoc : e = <<e[1], e[2]>> /\ e[1] \in Entities' /\ e[2] \in Entities'
                           /\ Demands(e[1], e[2])'
    <3> SUFFICES ASSUME NEW e \in assoc
                 PROVE  e = <<e[1], e[2]>> /\ e[1] \in Entities' /\ e[2] \in Entities'
                          /\ Demands(e[1], e[2])'
      OBVIOUS
    <3>1. e = <<e[1], e[2]>> /\ e[1] = id /\ e[2] = parent
      BY <2>3
    <3>2. parent \in Entities
      BY <1>4, <2>2
    <3> QED BY <2>5, <2>7, <3>1, <3>2
  <2>9. \A d \in ToSet(depends) \ ToSet(rest) : d.name = name /\ <<NewId, d.parent>> \in assoc
    BY <1>2, <2>2
  <2>10. ToSet(rest) \subseteq ToSet(depends)
    BY <1>2
  <2> QED
    BY <1>1, <2>1, <2>3, <2>4, <2>6, <2>8, <2>9, <2>10, InsertionDemands
<1>7. CASE \/ Present(dep.name) /\ HasCycles
           \/ ~Present(dep.name) /\ ~Resolvable(dep.name)
  BY <1>7, QuietDemands DEF InsertDependency, Fail
<1> QED
  BY <1>5, <1>6, <1>7

\* A default provider comes with its own dependencies.
LEMMA AttributeDemands ==
  ASSUME Inv, DemandsInv, ServedInv, ResolveAttribute
  PROVE  DemandsInv' /\ ServedInv'
<1>1. PICK unsat \in unsat_attr :
        \/ UNCHANGED <<graphVars, inputVars, dep_id, depends>>
        \/ \E name \in DefaultFor(unsat[1]) :
             /\ Resolvable(name)
             /\ Insert(name, unsat[2], {})
             /\ depends' = depends \o DependsOf(name, NewId, unsat[2])
             /\ UNCHANGED <<dep_id, inputVars>>
  BY DEF ResolveAttribute, Fail
<1>2. CASE UNCHANGED <<graphVars, inputVars, dep_id, depends>>
  BY <1>2, QuietDemands
<1>3. ASSUME NEW name \in DefaultFor(unsat[1]),
             Resolvable(name), Insert(name, unsat[2], {}),
             depends' = depends \o DependsOf(name, NewId, unsat[2]),
             UNCHANGED <<dep_id, inputVars>>
      PROVE  DemandsInv' /\ ServedInv'
  <2>1. name \in Installed
    BY DefaultProvides
  <2>2. PICK group, assoc : group \in Nat /\ group = unsat[2] /\ assoc = {}
    BY DEF Inv, QueueInv
  <2>3. /\ Insert(name, group, assoc) /\ Longer(depends, name, NewId, group)
        /\ UNCHANGED <<dep_id, manifest, attribute_defaults>>
    BY <1>3, <2>2 DEF inputVars, Longer
  <2>4. Initial' = Initial
    BY <1>3 DEF Initial
  <2>5. Grown => ChainInv'
    BY <1>3, ChainStays DEF DemandsInv
  <2>6. depends \in Seq(Dependency)
    BY DEF Inv, QueueInv
  <2>7. /\ \A e \in assoc : e = <<e[1], e[2]>> /\ e[1] \in Entities' /\ e[2] \in Entities'
                             /\ Demands(e[1], e[2])'
        /\ \A d \in ToSet(depends) \ ToSet(depends) : d.name = name /\ <<NewId, d.parent>> \in assoc
        /\ Initial \subseteq Initial'
    BY <2>2, <2>4
  <2>8. group \in Nat
    BY <2>2
  <2> QED BY <1>3, <2>1, <2>3, <2>5, <2>6, <2>7, <2>8, InsertionDemands
<1> QED
  BY <1>1, <1>2, <1>3

-------------------------------------------------------------------------------
(* The loop over what components precede. *)

\* It goes through the components of the command line in their order, and what
\* one of them precedes still waits or is in the graph.
LoopInv ==
  phase = "precedes" =>
    /\ \A i \in 1..Len(dep_id) : Place(order, dep_id[i]) \in Nat
    /\ \A i, j \in 1..Len(dep_id) : i < j => Place(order, dep_id[i]) < Place(order, dep_id[j])
    /\ \A x \in Initial : \A k \in DOMAIN Of(x).attributes_precedes :
         \/ [id |-> x, kind |-> "attribute", nth |-> k] \in precedes
         \/ \E n \in DefaultFor(Of(x).attributes_precedes[k]) : Present(n)

\* So a provider is inserted for the first entity of a name that precedes it.
LEMMA TasksAreFirst ==
  ASSUME Inv, DemandsInv, LoopInv, phase = "precedes",
         NEW task \in precedes, \A other \in precedes \ {task} : Sooner(task, other),
         task.kind # "component", NEW name \in Found(task), ~Present(name)
  PROVE  First(task.id)
<1> SUFFICES ASSUME NEW x \in Entities, component_map[x] = component_map[task.id], ~(task.id <= x)
             PROVE  FALSE
  BY DEF First
<1>1. /\ task.id \in Entities /\ task.nth \in DOMAIN Of(x).attributes_precedes
      /\ Found(task) = DefaultFor(Of(x).attributes_precedes[task.nth])
  <2>1. Of(x) = Of(task.id)
    BY DEF Of
  <2>2. /\ task.id \in Entities
        /\ task.nth \in DOMAIN Of(task.id).attributes_precedes
    BY DEF Inv, QueueInv
  <2>3. Found(task) = DefaultFor(Of(task.id).attributes_precedes[task.nth])
    BY DEF Found, Of
  <2> QED BY <2>1, <2>2, <2>3
<1>2. x \in Nat /\ task.id \in Nat /\ x # task.id
  <2>1. Entities \subseteq Nat
    BY DEF Inv, GraphInv, Ids
  <2>2. x \in Nat /\ task.id \in Nat
    BY <1>1, <2>1
  <2> QED BY <2>2
<1>3. PICK i, j \in 1..Len(dep_id) : i # j /\ task.id = dep_id[i] /\ x = dep_id[j]
  BY <1>1, <1>2, SameName
<1>4. j < i
  <2>1. i < j => dep_id[i] < dep_id[j]
    BY CommandLineOrder DEF DemandsInv
  <2>2. i \in Nat /\ j \in Nat
    OBVIOUS
  <2>3. ~(i < j)
    BY <1>2, <1>3, <2>1
  <2> QED BY <1>3, <2>2, <2>3
<1>5. /\ Place(order, x) < Place(order, task.id)
      /\ Place(order, x) \in Nat /\ Place(order, task.id) \in Nat
  BY <1>3, <1>4 DEF LoopInv
<1>6. x \in Initial
  BY <1>1, <1>2 DEF Inv, OnlyAskedForRepeats
<1> DEFINE other == [id |-> x, kind |-> "attribute", nth |-> task.nth]
<1>7. CASE other \in precedes
  <2>1. other # task /\ other.id = x
    BY <1>2
  <2>2. Sooner(task, other)
    BY <1>7, <2>1
  <2> HIDE DEF other
  <2> QED BY <1>2, <1>5, <2>1, <2>2 DEF Sooner
<1>8. CASE \E n \in DefaultFor(Of(x).attributes_precedes[task.nth]) : Present(n)
  <2>1. PICK n \in Found(task) : Present(n)
    BY <1>1, <1>8
  <2>2. n = name
    BY <1>1, <2>1, OneDefault
  <2> QED BY <2>1, <2>2
<1> QED
  BY <1>1, <1>6, <1>7, <1>8 DEF LoopInv

\* Requests joining the queue.
Joining(those) == ToSet(depends') = ToSet(depends) \cup those

\* An insertion that is associated by the next round.
LEMMA LatecomerDemands ==
  ASSUME Inv, DemandsInv, ServedInv, NEW name \in Installed, NEW group \in Nat,
         Insert(name, group, {}), UNCHANGED <<manifest, attribute_defaults, dep_id>>,
         NEW id, id = NewId, NEW those, Joining(those),
         \A d \in those : d.parent \in Entities' /\ Asked(d.name, d.parent)',
         \A n \in ToSet(manifest[name].depends) : Served(n, id)'
  PROVE  DemandsInv' /\ ServedInv'
<1>1. Initial' = Initial
  BY DEF Initial
<1>2. PICK assoc : assoc = {}
  OBVIOUS
<1>3. /\ Grown /\ EdgesInv' /\ Entities' = Entities \cup {id} /\ Of(id)' = manifest[name]
  BY <1>1, <1>2, InsertionGrows DEF DemandsInv
<1>4. AskedInv' /\ ChainInv'
  BY <1>3, AskedStays, ChainStays DEF DemandsInv, Joining
<1>5. \A n, y : Comes(n, y) => Comes(n, y)'
  BY <1>3, ComesStays DEF Joining
<1>6. ServedInv'
  BY <1>3, <1>5, ServedStays
<1> QED
  BY <1>3, <1>4, <1>6 DEF DemandsInv

\* What the queue holds after such an insertion.
LEMMA LateQueue ==
  ASSUME Inv, NEW name \in Installed, NEW group \in Nat, Insert(name, group, {}),
         manifest' = manifest, Resolvable(name), NEW parent \in Ids, NEW x \in Entities,
         NEW id, id = NewId, NEW r,
         r = [name |-> component_map[x], parent |-> id, grouping |-> group],
         depends' = (depends \o DependsOf(name, parent, group)) \o << r >>
  PROVE  \E own : Joining(own \cup {r}) /\ Requests(own, name, parent)
<1> DEFINE q == DependsOf(name, parent, group)
<1>1. /\ id \in Entities' /\ component_map'[id] = name /\ id \in Ids
      /\ Entities \subseteq Entities'
      /\ \A y \in Entities : component_map'[y] = component_map[y]
  BY Insertion DEF Inv
<1>2. q \in Seq(Dependency') /\ depends \in Seq(Dependency')
  BY <1>1, DependsOfType, StillWanted DEF Inv, QueueInv
<1>3. r \in Dependency'
  <2>1. component_map[x] \in Wanted'
    BY <1>1 DEF Wanted, Installed, Inv, GraphInv
  <2> QED BY <1>1, <2>1 DEF Dependency
<1>4. ToSet(depends \o q) = ToSet(depends) \cup ToSet(q)
  BY <1>2, QueueParts
<1> HIDE DEF q
<1>5. ToSet(<<r>>) = {r}
  BY DEF ToSet
<1>6. ToSet((depends \o q) \o <<r>>) = ToSet(depends \o q) \cup ToSet(<<r>>)
  <2>1. PICK s, t, T : s = depends \o q /\ t = <<r>> /\ T = Dependency'
    OBVIOUS
  <2>2. s \in Seq(T) /\ t \in Seq(T)
    BY <1>2, <1>3, <2>1
  <2>3. ToSet(s \o t) = ToSet(s) \cup ToSet(t)
    BY <2>2, QueueParts
  <2> QED BY <2>1, <2>3
<1>7. Requests(ToSet(q), name, parent)
  BY DependsOfParts DEF q
<1>8. Joining(ToSet(q) \cup {r})
  BY <1>4, <1>5, <1>6 DEF q, Joining
<1> QED
  BY <1>7, <1>8

\* What is preceded is demanded after the component that precedes it, what is
\* inserted has its place demanded by a request.
LEMMA PrecedeDemands ==
  ASSUME Inv, DemandsInv, ServedInv, LoopInv, PrecedeNext
  PROVE  DemandsInv' /\ ServedInv'
<1>1. phase = "precedes"
  BY DEF PrecedeNext
<1>2. PICK task \in precedes :
        /\ \A other \in precedes \ {task} : Sooner(task, other)
        /\ \/ UNCHANGED <<graphVars, inputVars, dep_id, depends>>
           \/ \E name \in Found(task) :
                /\ ~HasCycles /\ (Present(name) \/ Resolvable(name))
                /\ Precede(task, name)
                /\ UNCHANGED <<dep_id, inputVars>>
  BY DEF PrecedeNext, Fail
<1>3. CASE UNCHANGED <<graphVars, inputVars, dep_id, depends>>
  BY <1>3, QuietDemands
<1>4. ASSUME NEW name \in Found(task), ~HasCycles, Present(name) \/ Resolvable(name),
             Precede(task, name), UNCHANGED <<dep_id, inputVars>>
      PROVE  DemandsInv' /\ ServedInv'
  <2>1. PICK t, component, group :
          t = task.id /\ component = component_map[task.id] /\ group = grouping[task.id]
    OBVIOUS
  <2>2. UNCHANGED <<manifest, attribute_defaults, dep_id>>
    BY <1>4 DEF inputVars
  <2>3. /\ t \in Entities /\ t \in Ids /\ t \in Nodes /\ group \in Nat
        /\ component_map[t] = component /\ Of(t) = manifest[component]
    BY <2>1 DEF Inv, QueueInv, GraphInv, Of
  <2>4. IF task.kind = "component" THEN name \in ToSet(Of(t).precedes) /\ name \in Installed
        ELSE \E a \in ToSet(Of(t).attributes_precedes) : name \in DefaultFor(a)
    <3>1. CASE task.kind = "component"
      <4>1. task.nth \in DOMAIN Of(t).precedes
        BY <2>1, <3>1 DEF Inv, QueueInv
      <4> QED BY <2>1, <3>1, <4>1 DEF Found, Of, ToSet
    <3>2. CASE task.kind # "component"
      <4>1. /\ task.nth \in DOMAIN Of(t).attributes_precedes
            /\ name \in DefaultFor(Of(t).attributes_precedes[task.nth])
        BY <1>4, <2>1, <3>2 DEF Inv, QueueInv, Found, Of
      <4> QED BY <3>2, <4>1 DEF ToSet
    <3> QED BY <3>1, <3>2
  <2>5. name \in Installed
    BY <2>4, DefaultProvides
  <2>6. CASE Present(name) /\ InOrder(component, name)
    BY <1>4, <2>1, <2>6, QuietDemands DEF Precede
  <2>7. CASE Present(name) /\ ~InOrder(component, name)
    <3>1. AssociateEntities(t, GetFirst(name)) /\ depends' = depends
      BY <1>4, <2>1, <2>7 DEF Precede
    <3>2. PICK y : y = GetFirst(name)
      OBVIOUS
    <3>3. y \in Entities /\ component_map[y] = name /\ First(y)
      BY <1>4, <2>7, <3>2, FirstIsFirst DEF DemandsInv
    <3>4. Demands(t, y)
      BY <2>3, <2>4, <3>3 DEF Demands, Requires, Of
    <3>5. AssociateEntities(t, y)
      BY <3>1, <3>2
    <3> QED BY <2>2, <2>3, <3>1, <3>3, <3>4, <3>5, AssociationDemands
  <2>8. CASE ~Present(name)
    <3>1. PICK id, r : id = NewId /\ r = [name |-> component, parent |-> NewId, grouping |-> group]
      OBVIOUS
    <3>2. PICK parent : parent = IF task.kind = "component" THEN id ELSE t
      OBVIOUS
    <3>3. /\ Insert(name, group, {}) /\ Resolvable(name)
          /\ depends' = (depends \o DependsOf(name, parent, group)) \o << r >>
      BY <1>4, <2>1, <2>8, <3>1, <3>2 DEF Precede
    <3>4. PICK assoc : assoc = {}
      OBVIOUS
    <3>5. /\ Grown /\ Entities' = Entities \cup {id} /\ component_map'[id] = name
          /\ Of(id)' = manifest[name] /\ First(id)'
      <4>1. Initial' = Initial
        BY <2>2 DEF Initial
      <4> QED BY <2>2, <2>3, <2>5, <2>8, <3>1, <3>3, <3>4, <4>1, InsertionGrows DEF DemandsInv
    <3>6. id \in Ids
      BY <2>2, <2>3, <2>5, <3>1, <3>3, Insertion DEF Inv
    <3>7. PICK own : Joining(own \cup {r}) /\ Requests(own, name, parent)
      <4>1. parent \in Ids
        BY <2>3, <3>2, <3>6
      <4>2. r = [name |-> component_map[t], parent |-> id, grouping |-> group]
        BY <2>3, <3>1
      <4> QED BY <2>2, <2>3, <2>5, <3>1, <3>3, <4>1, <4>2, LateQueue
    <3>8. r.name = component /\ r.parent = id /\ r \in ToSet(depends')
      BY <3>1, <3>7 DEF Joining
    <3>9. /\ \A z \in Entities : Of(z)' = Of(z) /\ component_map'[z] = component_map[z]
          /\ \A l : DefaultFor(l)' = DefaultFor(l)
          /\ First(t) => First(t)'
      BY <2>3, <3>5, StillDemanded DEF Grown
    <3>10. Asked(component, id)'
      BY <2>2, <2>3, <2>4, <3>5, <3>9 DEF Asked
    <3>11. CASE task.kind = "component"
      <4>1. \A n \in ToSet(manifest[name].depends) : Asked(n, id)'
        BY <3>5 DEF Asked
      <4>2. \A d \in own \cup {r} : d.parent \in Entities' /\ Asked(d.name, d.parent)'
        BY <3>2, <3>5, <3>7, <3>8, <3>10, <3>11, <4>1 DEF Requests
      <4>3. \A n \in ToSet(manifest[name].depends) : Served(n, id)'
        BY <3>2, <3>7, <3>11 DEF Requests, Served, Comes, Joining
      <4> QED BY <2>2, <2>3, <2>5, <3>1, <3>3, <3>7, <4>2, <4>3, LatecomerDemands
    <3>12. CASE task.kind # "component"
      <4>1. PICK a \in ToSet(Of(t).attributes_precedes) : name \in DefaultFor(a)
        BY <2>4, <3>12
      <4>2. \A n \in ToSet(manifest[name].depends) : Asked(n, t)'
        <5>1. a \in ToSet(Of(t)'.attributes_precedes)
          BY <2>3, <3>9
        <5>2. id \in Entities' /\ component_map'[id] \in DefaultFor(a)'
          BY <3>5, <3>9, <4>1
        <5> QED BY <3>5, <5>1, <5>2 DEF Asked
      <4>3. \A d \in own \cup {r} : d.parent \in Entities' /\ Asked(d.name, d.parent)'
        BY <2>3, <3>2, <3>5, <3>7, <3>8, <3>10, <3>12, <4>2 DEF Requests
      <4>4. First(t)'
        BY <1>1, <1>2, <1>4, <2>1, <2>8, <3>9, <3>12, TasksAreFirst
      <4>5. \A n \in ToSet(manifest[name].depends) : Served(n, id)'
        <5> SUFFICES ASSUME NEW n \in ToSet(manifest[name].depends) PROVE Served(n, id)'
          OBVIOUS
        <5>1. Comes(n, t)'
          BY <3>2, <3>7, <3>12 DEF Requests, Comes, Joining
        <5>2. t \in Entities' /\ component_map'[t] = component
          BY <2>3, <3>5, <3>9
        <5>3. Comes(component_map[t], id)'
          BY <3>8, <5>2 DEF Comes
        <5> QED BY <4>4, <5>1, <5>2, <5>3 DEF Served
      <4> QED BY <2>2, <2>3, <2>5, <3>1, <3>3, <3>7, <4>3, <4>5, LatecomerDemands
    <3> QED BY <3>11, <3>12
  <2> QED BY <2>6, <2>7, <2>8
<1> QED
  BY <1>2, <1>3, <1>4

\* What a step of that loop leaves as it is, and what it leaves changed.
LEMMA PrecedeKeeps ==
  ASSUME Inv, NEW task \in precedes, NEW name \in Found(task), Present(name) \/ Resolvable(name),
         Precede(task, name), UNCHANGED <<dep_id, inputVars>>
  PROVE  /\ \A x \in Entities : x \in Entities' /\ component_map'[x] = component_map[x]
         /\ Present(name)'
         /\ ~changed' => ~changed /\ UNCHANGED <<since, depends>> /\ edge \subseteq edge'
<1>1. CASE Present(name)
  <2>1. UNCHANGED <<since, component_map, changed, depends>> /\ edge \subseteq edge'
    BY <1>1 DEF Precede, AssociateEntities, graphVars
  <2> QED BY <1>1, <2>1 DEF Entities, Present
<1>2. CASE ~Present(name)
  <2>1. /\ Insert(name, grouping[task.id], {}) /\ changed' = TRUE /\ manifest' = manifest
    BY <1>2 DEF Precede, inputVars
  <2>2. task.id \in Entities /\ task.id \in Nodes /\ grouping[task.id] \in Nat
    BY DEF Inv, QueueInv, GraphInv
  <2>3. name \in Installed
    <3>1. CASE task.kind = "component"
      BY <3>1 DEF Found
    <3>2. CASE task.kind # "component"
      BY <3>2, DefaultProvides DEF Found
    <3> QED BY <3>1, <3>2
  <2>4. /\ Entities' = Entities \cup {NewId} /\ component_map'[NewId] = name
        /\ \A x \in Entities : component_map'[x] = component_map[x]
    BY <2>1, <2>2, <2>3, Insertion DEF Inv
  <2> QED BY <2>1, <2>4 DEF Present
<1> QED
  BY <1>1, <1>2

LEMMA LoopStep ==
  ASSUME Inv, DemandsInv, LoopInv, [Next]_vars
  PROVE  LoopInv'
<1> SUFFICES ASSUME phase' = "precedes" PROVE LoopInv'
  BY DEF LoopInv
<1>1. CASE FindPrecedences
  <2>1. /\ ~HasCycles /\ UNCHANGED <<graphVars, inputVars, dep_id>>
        /\ order' = Sorted /\ precedes' = Precedences
    BY <1>1 DEF FindPrecedences, Fail
  <2>2. \A i \in 1..Len(dep_id) : dep_id[i] \in Nodes
    BY DEF Inv, CommandLineInv, GraphInv, Initial, ToSet
  <2>3. \A i \in 1..Len(dep_id) : Place(order, dep_id[i])' \in Nat
    BY <2>1, <2>2, PlacesFollowEdges DEF Inv
  <2>4. \A i, j \in 1..Len(dep_id) : i < j => Place(order, dep_id[i])' < Place(order, dep_id[j])'
    BY <2>1, CommandLineOrder DEF DemandsInv
  <2>5. \A x \in Initial : \A k \in DOMAIN Of(x).attributes_precedes :
          [id |-> x, kind |-> "attribute", nth |-> k] \in precedes'
    BY <2>1 DEF Precedences, Of, Inv, CommandLineInv
  <2>6. /\ Initial' = Initial /\ dep_id' = dep_id
        /\ \A x : Of(x)' = Of(x)
    BY <2>1 DEF Initial, Of, graphVars, inputVars
  <2> QED BY <2>3, <2>4, <2>5, <2>6 DEF LoopInv
<1>2. CASE PrecedeNext
  <2>1. phase = "precedes" /\ phase' \notin {"cycle", "missing", "no provider"}
    BY <1>2 DEF PrecedeNext
  <2>2. PICK task \in precedes : \E name \in Found(task) :
          /\ Present(name) \/ Resolvable(name)
          /\ Precede(task, name) /\ precedes' = precedes \ {task}
          /\ UNCHANGED <<dep_id, order, inputVars>>
    BY <1>2, <2>1 DEF PrecedeNext, Fail
  <2>3. /\ \A x \in Entities : x \in Entities' /\ component_map'[x] = component_map[x]
        /\ \E name \in Found(task) : Present(name)'
    BY <2>2, PrecedeKeeps
  <2>4. /\ Initial' = Initial /\ UNCHANGED <<dep_id, manifest, attribute_defaults>>
        /\ \A x \in Entities : Of(x)' = Of(x)
        /\ \A l : DefaultFor(l)' = DefaultFor(l)
        /\ \A n : Present(n) => Present(n)'
    BY <2>2, <2>3 DEF Initial, Of, inputVars, DefaultFor, Providers, Installed, Present
  <2>5. \A i : Place(order, dep_id[i])' = Place(order, dep_id[i])
    BY <2>2
  <2>6. ASSUME NEW x \in Initial, NEW k \in DOMAIN Of(x).attributes_precedes
        PROVE  \/ [id |-> x, kind |-> "attribute", nth |-> k] \in precedes'
               \/ \E n \in DefaultFor(Of(x).attributes_precedes[k]) : Present(n)'
    <3>1. CASE task = [id |-> x, kind |-> "attribute", nth |-> k]
      <4>1. task.id = x /\ task.kind = "attribute" /\ task.nth = k
        BY <3>1
      <4>2. Found(task) = DefaultFor(Of(x).attributes_precedes[k])
        BY <4>1 DEF Found, Of
      <4> QED BY <2>3, <4>2
    <3>2. CASE task # [id |-> x, kind |-> "attribute", nth |-> k]
      BY <2>1, <2>2, <2>4, <3>2 DEF LoopInv
    <3> QED BY <3>1, <3>2
  <2>7. Initial \subseteq Entities
    BY DEF Inv, CommandLineInv
  <2> QED BY <2>1, <2>4, <2>5, <2>6, <2>7 DEF LoopInv
<1>3. CASE UNCHANGED vars
  <2>1. /\ UNCHANGED <<phase, dep_id, order, precedes, manifest, attribute_defaults>>
        /\ Initial' = Initial
        /\ \A x : Of(x)' = Of(x)
        /\ \A l : DefaultFor(l)' = DefaultFor(l)
        /\ \A n : Present(n)' = Present(n)
    BY <1>3 DEF vars, buildVars, graphVars, inputVars, Initial, Of, DefaultFor, Providers,
                Installed, Present, Entities
  <2>2. \A i : Place(order, dep_id[i])' = Place(order, dep_id[i])
    BY <2>1
  <2> QED BY <2>1, <2>2 DEF LoopInv
<1>4. ~(InsertInitial \/ BeginRounds \/ InsertDependency \/ FindUnsatisfied \/ ResolveAttribute)
  BY DEF InsertInitial, BeginRounds, InsertDependency, FindUnsatisfied, ResolveAttribute, Fail
<1>5. ~(EndRound \/ Abort \/ EndExperiment)
  BY DEF EndRound, Abort, EndExperiment, Fail
<1>6. ~(ObjectsLoadedTwice \/ ObjectsFail \/ PluginImportFails \/ RunPlugin)
  BY DEF ObjectsLoadedTwice, ObjectsFail, PluginImportFails, RunPlugin, CanRun, RunNext, Ran, buildVars
<1> QED
  BY <1>1, <1>2, <1>3, <1>4, <1>5, <1>6 DEF Next

LEMMA DemandsStep ==
  ASSUME Inv, DemandsInv, ServedInv, LoopInv, [Next]_vars
  PROVE  DemandsInv' /\ ServedInv'
<1>1. CASE InsertInitial
  BY <1>1, InitialDemands
<1>2. CASE InsertDependency
  BY <1>2, DependencyDemands
<1>3. CASE ResolveAttribute
  BY <1>3, AttributeDemands
<1>4. CASE PrecedeNext
  BY <1>4, PrecedeDemands
<1>5. CASE BeginRounds \/ FindUnsatisfied \/ FindPrecedences \/ EndRound
  <2>1. UNCHANGED <<graphVars, inputVars, dep_id, depends>>
    BY <1>5 DEF BeginRounds, FindUnsatisfied, FindPrecedences, EndRound, Fail
  <2> QED BY <2>1, QuietDemands
<1>6. CASE ObjectsLoadedTwice \/ ObjectsFail \/ PluginImportFails \/ RunPlugin
  <2>1. UNCHANGED <<graphVars, inputVars, buildVars>>
    BY <1>6 DEF ObjectsLoadedTwice, ObjectsFail, PluginImportFails, RunPlugin, Ran
  <2> QED BY <2>1, QuietDemands DEF buildVars
<1>7. CASE Abort \/ EndExperiment
  BY <1>7, QuietDemands DEF Abort, EndExperiment
<1>8. CASE UNCHANGED vars
  BY <1>8, QuietDemands DEF vars, buildVars
<1> QED
  BY <1>1, <1>2, <1>3, <1>4, <1>5, <1>6, <1>7, <1>8 DEF Next

LEMMA DemandsInit == Init => DemandsInv /\ ServedInv /\ LoopInv
<1> SUFFICES ASSUME Init PROVE DemandsInv /\ ServedInv /\ LoopInv
  OBVIOUS
<1>1. Nodes = {} /\ Entities = {} /\ edge = {} /\ dep_id = << >> /\ ToSet(depends) = {}
      /\ phase = "initial"
  BY DEF Init, NoGraph, Nodes, Entities, ToSet
<1>2. DemandsInv
  BY <1>1 DEF DemandsInv, EdgesInv, AskedInv, ChainInv
<1> QED
  BY <1>1, <1>2 DEF ServedInv, LoopInv

-------------------------------------------------------------------------------
(* How the rounds end. *)

Over == {"built", "ended", "aborted"}

AllProvided == \A l \in Nodes \cap Attribute : HasProvider(l)

\* A round that has changed nothing finds nothing to do, and no cycle, so that a
\* graph that is built is complete.
PhaseInv ==
  /\ phase \in {"attributes", "precedes"} /\ ~changed => depends = << >>
  /\ phase = "attributes" /\ ~changed =>
       \A l \in Nodes \cap Attribute : HasProvider(l) \/ \E unsat \in unsat_attr : unsat[1] = l
  /\ phase = "precedes" /\ ~changed => AllProvided
  /\ phase \in Over => ~HasCycles /\ depends = << >> /\ AllProvided
  /\ phase \notin Over => results = << >>
  /\ phase = "cycle" => HasCycles

LEMMA PhaseFails ==
  ASSUME PhaseInv, NEW reason \in {"missing", "no provider", "looping", "cycle"},
         reason = "cycle" => HasCycles, Fail(reason), phase \notin Over
  PROVE  PhaseInv'
<1>1. /\ phase' = reason /\ results' = results /\ results = << >>
  BY DEF Fail, runVars, PhaseInv
<1>2. HasCycles' = HasCycles
  BY SortStays DEF Fail, HasCycles, Nodes, graphVars
<1> QED
  BY <1>1, <1>2 DEF PhaseInv, Over

LEMMA PhaseStep ==
  ASSUME Inv, PhaseInv, [Next]_vars
  PROVE  PhaseInv'
<1>1. CASE InsertInitial
  <2>1. phase = "initial" /\ (Fail("missing") \/ (phase' = phase /\ results' = results))
    BY <1>1 DEF InsertInitial, runVars
  <2> QED BY <2>1, PhaseFails DEF PhaseInv, Over
<1>2. CASE BeginRounds
  BY <1>2 DEF BeginRounds, PhaseInv, Over, runVars
<1>3. CASE InsertDependency
  <2>1. phase = "depends" /\ (\/ Fail("missing") \/ (Fail("cycle") /\ HasCycles)
                              \/ (phase' = phase /\ results' = results))
    BY <1>3 DEF InsertDependency, runVars
  <2> QED BY <2>1, PhaseFails DEF PhaseInv, Over
<1>4. CASE FindUnsatisfied
  <2>1. /\ phase = "depends" /\ phase' = "attributes" /\ depends' = << >>
        /\ unsat_attr' = InDegreeZero /\ UNCHANGED <<since, edge, results>>
    BY <1>4 DEF FindUnsatisfied, graphVars, runVars
  <2>2. \A l \in Nodes \cap Attribute : HasProvider(l) \/ <<l, grouping[l]>> \in InDegreeZero
    BY DEF InDegreeZero
  <2>3. \A l \in (Nodes \cap Attribute)' :
          HasProvider(l)' \/ \E unsat \in unsat_attr' : unsat[1] = l
    BY <2>1, <2>2 DEF HasProvider, Nodes
  <2> QED BY <2>1, <2>3 DEF PhaseInv, Over
<1>5. CASE ResolveAttribute
  <2>1. phase = "attributes"
    BY <1>5 DEF ResolveAttribute
  <2>2. PICK unsat \in unsat_attr :
          \/ /\ HasProvider(unsat[1]) /\ unsat_attr' = unsat_attr \ {unsat}
             /\ UNCHANGED <<graphVars, phase, changed, depends, results>>
          \/ Fail("no provider") \/ Fail("missing")
          \/ changed' = TRUE /\ phase' = phase /\ results' = results
    BY <1>5 DEF ResolveAttribute, runVars
  <2>3. CASE /\ HasProvider(unsat[1]) /\ unsat_attr' = unsat_attr \ {unsat}
             /\ UNCHANGED <<graphVars, phase, changed, depends, results>>
    <3>1. Nodes' = Nodes /\ \A l : HasProvider(l)' <=> HasProvider(l)
      BY <2>3 DEF graphVars, HasProvider, Nodes
    <3> QED BY <2>1, <2>3, <3>1 DEF PhaseInv, Over
  <2>4. CASE Fail("no provider") \/ Fail("missing")
    BY <2>1, <2>4, PhaseFails DEF Over
  <2>5. CASE changed' = TRUE /\ phase' = phase /\ results' = results
    BY <2>1, <2>5 DEF PhaseInv, Over
  <2> QED BY <2>2, <2>3, <2>4, <2>5
<1>6. CASE FindPrecedences
  <2>1. CASE HasCycles
    BY <1>6, <2>1, PhaseFails DEF FindPrecedences, Over
  <2>2. CASE ~HasCycles
    <3>1. /\ phase = "attributes" /\ phase' = "precedes" /\ unsat_attr = {}
          /\ UNCHANGED <<since, edge, changed, depends, results>>
      BY <1>6, <2>2 DEF FindPrecedences, graphVars, runVars
    <3>2. ~changed => AllProvided'
      BY <3>1 DEF PhaseInv, AllProvided, Nodes, HasProvider
    <3> QED BY <3>1, <3>2 DEF PhaseInv, Over
  <2> QED BY <2>1, <2>2
<1>7. CASE PrecedeNext
  <2>1. phase = "precedes"
    BY <1>7 DEF PrecedeNext
  <2>2. CASE (Fail("cycle") /\ HasCycles) \/ Fail("missing") \/ Fail("no provider")
    BY <2>1, <2>2, PhaseFails DEF Over
  <2>3. ASSUME NEW task \in precedes, NEW name \in Found(task),
               Present(name) \/ Resolvable(name), Precede(task, name),
               UNCHANGED <<phase, dep_id, inputVars, results>>
        PROVE  PhaseInv'
    <3>1. ~changed' => ~changed /\ UNCHANGED <<since, depends>> /\ edge \subseteq edge'
      BY <2>3, PrecedeKeeps
    <3>2. ~changed' => AllProvided'
      BY <2>1, <3>1 DEF PhaseInv, AllProvided, Nodes, HasProvider
    <3> QED BY <2>1, <2>3, <3>1, <3>2 DEF PhaseInv, Over
  <2> QED BY <1>7, <2>2, <2>3 DEF PrecedeNext, runVars
<1>8. CASE EndRound
  <2>1. CASE (Fail("cycle") /\ HasCycles) \/ Fail("looping")
    BY <1>8, <2>1, PhaseFails DEF EndRound, Over
  <2>2. CASE /\ ~HasCycles /\ phase' = IF changed THEN "depends" ELSE "built"
             /\ UNCHANGED <<graphVars, depends, results>>
    <3>1. HasCycles' = HasCycles
      BY <2>2, SortStays DEF HasCycles, Nodes, graphVars
    <3>2. AllProvided => AllProvided'
      BY <2>2 DEF AllProvided, Nodes, HasProvider, graphVars
    <3>3. phase = "precedes"
      BY <1>8 DEF EndRound
    <3> QED BY <2>2, <3>1, <3>2, <3>3 DEF PhaseInv, Over
  <2> QED BY <1>8, <2>1, <2>2 DEF EndRound, runVars
<1>9. CASE \/ ObjectsLoadedTwice \/ ObjectsFail \/ PluginImportFails \/ RunPlugin
           \/ Abort \/ EndExperiment
  <2>1. /\ phase = "built" /\ phase' \in Over /\ UNCHANGED <<graphVars, depends>>
    BY <1>9 DEF ObjectsLoadedTwice, ObjectsFail, PluginImportFails, RunPlugin, CanRun, RunNext,
                Abort, EndExperiment, Ran, buildVars, Over
  <2>2. HasCycles' = HasCycles
    BY <2>1, SortStays DEF HasCycles, Nodes, graphVars
  <2>3. AllProvided => AllProvided'
    BY <2>1 DEF AllProvided, Nodes, HasProvider, graphVars
  <2> QED BY <2>1, <2>2, <2>3 DEF PhaseInv, Over
<1>10. CASE UNCHANGED vars
  <2>1. /\ UNCHANGED <<phase, changed, depends, unsat_attr, results, graphVars>>
    BY <1>10 DEF vars, buildVars, runVars
  <2>2. HasCycles' = HasCycles
    BY <2>1, SortStays DEF HasCycles, Nodes, graphVars
  <2>3. Nodes' = Nodes /\ AllProvided' = AllProvided /\ \A l : HasProvider(l)' = HasProvider(l)
    BY <2>1 DEF AllProvided, Nodes, HasProvider, graphVars
  <2> QED BY <2>1, <2>2, <2>3 DEF PhaseInv
<1> QED
  BY <1>1, <1>2, <1>3, <1>4, <1>5, <1>6, <1>7, <1>8, <1>9, <1>10 DEF Next

-------------------------------------------------------------------------------
(* Running the components. *)

\* Whatever is sorted before a component that was run was run before it.
RunsInv ==
  /\ results \in Seq([id: Entities, errors: BOOLEAN])
  /\ \A i \in 1..Len(results) : \A x \in Entities :
       Place(Sorted, x) < Place(Sorted, results[i].id) => \E j \in 1..i - 1 : results[j].id = x

LEMMA NextIsLeast ==
  ASSUME Inv, ~HasCycles, ToRun # {}
  PROVE  /\ NextEntity \in ToRun /\ NextEntity \in Entities
         /\ \A x \in ToRun : Place(Sorted, NextEntity) <= Place(Sorted, x)
<1> DEFINE f == [x \in ToRun |-> Place(Sorted, x)]
<1>1. ToRun \subseteq Entities
  BY DEF ToRun
<1>2. f \in [ToRun -> Nat]
  BY <1>1, PlacesFollowEdges DEF Inv, GraphInv
<1>3. \E x \in ToRun : \A y \in ToRun : f[x] <= f[y]
  <2> HIDE DEF f
  <2> QED BY <1>2, LeastValue
<1>4. \E x \in ToRun : \A y \in ToRun : Place(Sorted, x) <= Place(Sorted, y)
  BY <1>3
<1> QED
  BY <1>1, <1>4 DEF NextEntity

LEMMA RunsStep ==
  ASSUME Inv, PhaseInv, RunsInv, [Next]_vars
  PROVE  RunsInv'
<1>1. CASE UNCHANGED <<graphVars, results>>
  <2>1. Entities' = Entities /\ Sorted' = Sorted /\ results' = results
    BY <1>1, SortStays DEF Entities, graphVars
  <2>2. \A x : Place(Sorted, x)' = Place(Sorted, x)
    BY <2>1
  <2>3. \A i : Place(Sorted, results[i].id)' = Place(Sorted, results[i].id)
    BY <2>1
  <2> QED BY <2>1, <2>2, <2>3 DEF RunsInv
<1>2. CASE results = << >> /\ results' = << >>
  BY <1>2 DEF RunsInv
<1>3. ASSUME RunNext, NEW errors \in BOOLEAN, Ran(NextEntity, errors)
      PROVE  RunsInv'
  <2>1. /\ ToRun # {} /\ ~HasCycles /\ UNCHANGED graphVars
        /\ results' = Append(results, [id |-> NextEntity, errors |-> errors])
    BY <1>3 DEF RunNext, Ran, PhaseInv, Over
  <2>2. Entities' = Entities /\ Sorted' = Sorted
    BY <2>1, SortStays DEF Entities, graphVars
  <2>3. PICK e : e = NextEntity
    OBVIOUS
  <2>4. e \in Entities /\ \A x \in ToRun : Place(Sorted, e) <= Place(Sorted, x)
    BY <2>1, <2>3, NextIsLeast
  <2>5. PICK n \in Nat : n = Len(results)
    BY DEF RunsInv
  <2>6. /\ results' \in Seq([id: Entities', errors: BOOLEAN]) /\ Len(results') = n + 1
        /\ \A i \in 1..n : results'[i] = results[i]
        /\ results'[n + 1].id = e
    <3>1. [id |-> e, errors |-> errors] \in [id: Entities, errors: BOOLEAN]
      BY <2>4
    <3>2. results' = Append(results, [id |-> e, errors |-> errors])
      BY <2>1, <2>3
    <3>3. results' \in Seq([id: Entities, errors: BOOLEAN]) /\ Len(results') = n + 1
      BY <2>5, <3>1, <3>2 DEF RunsInv
    <3>4. \A i \in 1..n : results'[i] = results[i]
      BY <2>5, <3>1, <3>2 DEF RunsInv
    <3>5. results'[n + 1] = [id |-> e, errors |-> errors]
      BY <2>5, <3>1, <3>2 DEF RunsInv
    <3> QED BY <2>2, <3>3, <3>4, <3>5
  <2>7. ASSUME NEW i \in 1..n + 1, NEW x \in Entities,
               Place(Sorted, x) < Place(Sorted, results'[i].id)
        PROVE  \E j \in 1..i - 1 : results'[j].id = x
    <3>1. CASE i = n + 1
      <4>1. Place(Sorted, x) < Place(Sorted, e) /\ e \in Nodes /\ x \in Nodes
        BY <2>4, <2>6, <2>7, <3>1 DEF Inv, GraphInv
      <4>2. Place(Sorted, x) \in Nat /\ Place(Sorted, e) \in Nat
        BY <2>1, <4>1, PlacesFollowEdges DEF Inv
      <4>3. x \notin ToRun
        BY <2>4, <4>1, <4>2
      <4>4. PICK j \in DOMAIN results : results[j].id = x
        BY <4>3 DEF ToRun
      <4>5. j \in 1..n
        BY <2>5, <4>4 DEF RunsInv
      <4> QED BY <2>6, <3>1, <4>4, <4>5
    <3>2. CASE i # n + 1
      <4>1. i \in 1..n
        BY <3>2
      <4>2. results'[i] = results[i]
        BY <2>6, <4>1
      <4>3. PICK j \in 1..i - 1 : results[j].id = x
        BY <2>5, <2>7, <4>1, <4>2 DEF RunsInv
      <4>4. j \in 1..n
        BY <4>1, <4>3
      <4> QED BY <2>6, <4>3, <4>4
    <3> QED BY <3>1, <3>2
  <2>8. \A i : Place(Sorted, results[i].id)' = Place(Sorted, results'[i].id)
    BY <2>2
  <2>9. \A x : Place(Sorted, x)' = Place(Sorted, x)
    BY <2>2
  <2> QED BY <2>2, <2>6, <2>7, <2>8, <2>9 DEF RunsInv
<1>4. CASE ObjectsLoadedTwice \/ ObjectsFail \/ PluginImportFails \/ RunPlugin
  BY <1>3, <1>4 DEF ObjectsLoadedTwice, ObjectsFail, PluginImportFails, RunPlugin, CanRun
<1>5. CASE Abort \/ EndExperiment \/ UNCHANGED vars
  BY <1>1, <1>5 DEF Abort, EndExperiment, vars, runVars
<1>6. CASE \/ InsertInitial \/ BeginRounds \/ InsertDependency \/ FindUnsatisfied
           \/ ResolveAttribute \/ FindPrecedences \/ PrecedeNext \/ EndRound
  <2>1. phase \notin Over
    BY <1>6 DEF InsertInitial, BeginRounds, InsertDependency, FindUnsatisfied, ResolveAttribute,
                FindPrecedences, PrecedeNext, EndRound, Over
  <2>2. results' = results
    BY <1>6 DEF InsertInitial, BeginRounds, InsertDependency, FindUnsatisfied, ResolveAttribute,
                FindPrecedences, PrecedeNext, EndRound, Fail, runVars
  <2> QED BY <1>2, <2>1, <2>2 DEF PhaseInv
<1> QED
  BY <1>4, <1>5, <1>6 DEF Next

-------------------------------------------------------------------------------
(* What the graph promises. *)

\* Where nothing waits, an entity of each component that is depended on has an
\* earlier place.
LEMMA DependedOnIsEarlier ==
  ASSUME Inv, DemandsInv, ServedInv, ~HasCycles, depends = << >>,
         NEW y \in Entities, NEW n \in ToSet(Of(y).depends)
  PROVE  \E x \in Entities : component_map[x] = n /\ Place(Sorted, x) < Place(Sorted, y)
<1>1. \A c, v : Comes(c, v) => \E x \in Entities : component_map[x] = c /\ <<x, v>> \in edge
  <2>1. ToSet(depends) = {}
    BY DEF ToSet
  <2> QED BY <2>1 DEF Comes
<1>2. \A x, v \in Entities : <<x, v>> \in edge => Place(Sorted, x) < Place(Sorted, v)
  <2> SUFFICES ASSUME NEW x \in Entities, NEW v \in Entities, <<x, v>> \in edge
               PROVE  Place(Sorted, x) < Place(Sorted, v)
    OBVIOUS
  <2>1. PICK e \in edge : e = <<x, v>>
    OBVIOUS
  <2>2. e[1] = x /\ e[2] = v /\ x \in Nodes /\ v \in Nodes
    BY <2>1 DEF Inv, GraphInv
  <2> QED BY <2>2, PlacesFollowEdges DEF Inv
<1>3. \A x \in Entities : Place(Sorted, x) \in Nat
  BY PlacesFollowEdges DEF Inv, GraphInv
<1>4. CASE Comes(n, y)
  BY <1>1, <1>2, <1>4
<1>5. CASE ~Comes(n, y)
  <2>1. PICK z \in Entities : First(z) /\ Comes(component_map[z], y) /\ Comes(n, z)
    BY <1>5 DEF ServedInv, Served
  <2>2. PICK x \in Entities : component_map[x] = n /\ <<x, z>> \in edge
    BY <1>1, <2>1
  <2>3. PICK w \in Entities : component_map[w] = component_map[z] /\ <<w, y>> \in edge
    BY <1>1, <2>1
  <2>4. Place(Sorted, z) <= Place(Sorted, w)
    <3>1. CASE w = z
      BY <1>3, <3>1
    <3>2. CASE w # z
      <4>1. PICK i, j \in 1..Len(dep_id) : i # j /\ z = dep_id[i] /\ w = dep_id[j]
        BY <2>3, <3>2, SameName
      <4>2. z <= w /\ z \in Nat /\ w \in Nat
        BY <2>1, <2>3 DEF First, Inv, GraphInv, Ids
      <4>3. j < i => w < z
        BY <4>1, CommandLineOrder DEF DemandsInv
      <4>4. i < j
        BY <4>1, <4>2, <4>3
      <4>5. Place(Sorted, z) < Place(Sorted, w)
        BY <4>1, <4>4, CommandLineOrder DEF DemandsInv
      <4> QED BY <1>3, <4>5
    <3> QED BY <3>1, <3>2
  <2> QED BY <1>2, <1>3, <2>2, <2>3, <2>4
<1> QED
  BY <1>4, <1>5

\* Where every attribute is provided, all who provide one that is depended on
\* have earlier places, and there are some.
LEMMA ProvidersAreEarlier ==
  ASSUME Inv, DemandsInv, ~HasCycles, AllProvided,
         NEW y \in Entities, NEW a \in ToSet(Of(y).attributes_depends)
  PROVE  /\ \E x \in Entities : a \in ToSet(Of(x).attributes_provides)
         /\ \A x \in Entities : a \in ToSet(Of(x).attributes_provides)
                                  => Place(Sorted, x) < Place(Sorted, y)
<1>1. <<a, y>> \in edge /\ a \in Attribute
  <2>1. Of(y) \in Manifest
    BY ManifestFields DEF Inv, GraphInv, Of
  <2>2. Of(y).attributes_depends \in Seq(Attribute)
    BY <2>1 DEF Manifest
  <2> QED BY <2>2 DEF ToSet, DemandsInv, EdgesInv
<1>2. a \in Nodes /\ y \in Nodes
  BY <1>1 DEF DemandsInv, EdgesInv
<1>3. \E x \in Entities : a \in ToSet(Of(x).attributes_provides)
  <2>1. PICK e \in edge : e[2] = a
    BY <1>1, <1>2 DEF AllProvided, HasProvider
  <2> QED BY <1>1, <2>1 DEF DemandsInv, EdgesInv
<1>4. ASSUME NEW x \in Entities, a \in ToSet(Of(x).attributes_provides)
      PROVE  Place(Sorted, x) < Place(Sorted, y)
  <2>1. PICK d, e \in edge : d = <<x, a>> /\ e = <<a, y>>
    BY <1>1, <1>4 DEF Inv, GraphInv
  <2>2. /\ d[1] = x /\ d[2] = a /\ e[1] = a /\ e[2] = y /\ x \in Nodes
    BY <2>1 DEF Inv, GraphInv
  <2>3. Place(Sorted, x) < Place(Sorted, a) /\ Place(Sorted, a) < Place(Sorted, y)
    BY <1>2, <2>2, PlacesFollowEdges DEF Inv
  <2>4. Place(Sorted, x) \in Nat /\ Place(Sorted, a) \in Nat /\ Place(Sorted, y) \in Nat
    BY <1>2, <2>2, PlacesFollowEdges DEF Inv
  <2> QED BY <2>3, <2>4
<1> QED
  BY <1>3, <1>4

LEMMA RunsAreInOrder ==
  Inv /\ DemandsInv /\ ServedInv /\ PhaseInv /\ RunsInv => DependenciesRunFirst
<1> DEFINE before(i) == {results[j].id : j \in 1..(i - 1)}
           m(i) == manifest[NameOf(i)]
           sources(a) == {id \in Entities : a \in ToSet(manifest[component_map[id]].attributes_provides)}
           Right(i) == /\ ToSet(m(i).depends) \subseteq {component_map[id] : id \in before(i)}
                       /\ \A a \in ToSet(m(i).attributes_depends) :
                            sources(a) # {} /\ sources(a) \subseteq before(i)
<1>0. DependenciesRunFirst <=> \A i \in DOMAIN results : Right(i)
  BY DEF DependenciesRunFirst
<1> HIDE DEF Right
<1> SUFFICES ASSUME Inv, DemandsInv, ServedInv, PhaseInv, RunsInv, NEW i \in DOMAIN results
             PROVE  Right(i)
  BY <1>0
<1>1. i \in 1..Len(results) /\ results[i].id \in Entities
  <2>1. results \in Seq([id: Entities, errors: BOOLEAN])
    BY DEF RunsInv
  <2>2. PICK T, s : s = results /\ T = [id: Entities, errors: BOOLEAN]
    OBVIOUS
  <2>3. s \in Seq(T) /\ i \in DOMAIN s
    BY <2>1, <2>2
  <2>4. i \in 1..Len(s) /\ s[i] \in T
    BY <2>3
  <2>5. s[i].id \in Entities
    BY <2>2, <2>4
  <2> QED BY <2>2, <2>4, <2>5
<1>2. ~HasCycles /\ depends = << >> /\ AllProvided
  BY <1>1 DEF PhaseInv
<1>3. PICK y \in Entities : y = results[i].id
  BY <1>1
<1>4. manifest[NameOf(i)] = Of(y)
  BY <1>3 DEF NameOf, Of
<1>5. \A x \in Entities : Place(Sorted, x) < Place(Sorted, y) => \E j \in 1..i - 1 : results[j].id = x
  BY <1>1, <1>3 DEF RunsInv
<1>6. \A x \in Entities : Place(Sorted, x) < Place(Sorted, y) => x \in before(i)
  BY <1>5
<1>7. ToSet(Of(y).depends) \subseteq {component_map[id] : id \in before(i)}
  <2> HIDE DEF before
  <2> QED BY <1>2, <1>6, DependedOnIsEarlier
<1>8. ASSUME NEW a \in ToSet(Of(y).attributes_depends)
      PROVE  sources(a) # {} /\ sources(a) \subseteq before(i)
  <2> HIDE DEF before
  <2> QED BY <1>2, <1>6, ProvidersAreEarlier DEF Of
<1> QED
  BY <1>4, <1>7, <1>8 DEF Right

\* What the sort cannot reach is demanded in a circle.
LEMMA CyclesAreDemanded ==
  ASSUME Inv, DemandsInv, HasCycles
  PROVE  \E entities \in SUBSET Entities : OnCycles(entities)
<1> DEFINE rest == Nodes \ ToSet(Sorted)
           S == rest \cap Entities
<1>1. rest # {}
  <2>1. Sound(Sorted) /\ ToSet(Sorted) # Nodes
    BY Sorting DEF Inv
  <2>2. ToSet(Sorted) \subseteq Nodes
    BY <2>1 DEF Sound, ToSet
  <2> QED BY <2>1, <2>2
<1>2. \A n \in rest : \E e \in edge : e[2] = n /\ e[1] \in rest
  <2>1. Ready(ToSet(Sorted)) = {}
    BY Sorting DEF Inv
  <2>2. \A e \in edge : e[1] \in Nodes
    BY DEF DemandsInv, EdgesInv
  <2> QED BY <2>1, <2>2 DEF Ready
<1>3. rest \subseteq Entities \cup Attribute
  BY DEF Inv, GraphInv
<1> HIDE DEF rest
<1>4. ASSUME NEW l \in rest, l \in Attribute
      PROVE  \E x \in S : l \in ToSet(Of(x).attributes_provides)
  BY <1>2, <1>4 DEF DemandsInv, EdgesInv
<1>5. S # {}
  BY <1>1, <1>3, <1>4
<1>6. ASSUME NEW y \in S PROVE \E x \in S : Demands(x, y)
  <2>1. PICK e \in edge : e[2] = y /\ e[1] \in rest
    BY <1>2
  <2>2. CASE e[1] \in Entities
    BY <2>1, <2>2 DEF DemandsInv, EdgesInv
  <2>3. CASE e[1] \in Attribute
    <3>1. e[1] \in ToSet(Of(y).attributes_depends)
      BY <2>1, <2>3 DEF DemandsInv, EdgesInv
    <3>2. PICK x \in S : e[1] \in ToSet(Of(x).attributes_provides)
      BY <1>4, <2>1, <2>3
    <3> QED BY <3>1, <3>2 DEF Demands, Requires, Of
  <2> QED BY <1>3, <2>1, <2>2, <2>3
<1> QED
  BY <1>5, <1>6 DEF OnCycles, Demands

-------------------------------------------------------------------------------
OrderInv == Inv /\ DemandsInv /\ ServedInv /\ LoopInv /\ PhaseInv /\ RunsInv

LEMMA OrderInit == Init => OrderInv
<1>1. Init => PhaseInv /\ RunsInv
  <2> SUFFICES ASSUME Init PROVE PhaseInv /\ RunsInv
    OBVIOUS
  <2>1. phase = "initial" /\ results = << >>
    BY DEF Init
  <2> QED BY <2>1 DEF PhaseInv, RunsInv, Over
<1> QED
  BY <1>1, InitInv, DemandsInit DEF OrderInv

LEMMA OrderStep == OrderInv /\ [Next]_vars => OrderInv'
BY NextInv, DemandsStep, LoopStep, PhaseStep, RunsStep DEF OrderInv

\* A component runs after what it depends on, whatever the manifests, the
\* command line and the table of defaults: when the rounds end, nothing that was
\* asked for is missing from the graph, and the sort follows the graph.
THEOREM DependenciesComeFirst == Spec => []DependenciesRunFirst
<1>1. OrderInv => DependenciesRunFirst
  BY RunsAreInOrder DEF OrderInv
<1> QED
  BY OrderInit, OrderStep, <1>1, PTL DEF Spec

\* An experiment that is refused for a cycle has one in what its manifests and
\* its command line ask for, or borrow: no edge comes from anything else.
THEOREM CyclesAreDeclared == Spec => []RefusedOnlyForCycles
<1>1. OrderInv => RefusedOnlyForCycles
  BY CyclesAreDemanded DEF OrderInv, PhaseInv, RefusedOnlyForCycles
<1> QED
  BY OrderInit, OrderStep, <1>1, PTL DEF Spec
===============================================================================
