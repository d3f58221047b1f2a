------------------------- MODULE ModelComponentManager -------------------------
(***************************************************************************)
(* How the model components of an experiment are found, ordered and run    *)
(* (control/model_component_manager.py): build_dependency_graph inserts    *)
(* the components of the command line and, round after round, what they    *)
(* depend on, default providers for attributes nobody provides yet, and    *)
(* the components they precede; build_experiment_graph runs the result.    *)
(***************************************************************************)
EXTENDS DependencyGraph

Manifest == [depends: Seq(Name), precedes: Seq(Name), attributes_depends: Seq(Attribute),
             attributes_provides: Seq(Attribute), attributes_precedes: Seq(Attribute),
             objects: BOOLEAN]

CONSTANTS Repositories,  \* manifests of the installed components, by name
          CommandLines,  \* lists of components that may be asked for
          Defaults,      \* choices of attribute_defaults
          MaxFailures    \* bound on the components that fail when they are run

ASSUME WellFormedManifests ==
  \A r \in Repositories : r \in [DOMAIN r -> Manifest] /\ IsFiniteSet(DOMAIN r)

ASSUME CommandLinesAreLists == CommandLines \subseteq Seq(Name)

VARIABLES manifest,      \* the manifests, one of Repositories
          attribute_defaults,
          asked,         \* initial_component_list
          dep_id,        \* the identifiers its components got
          phase,
          loops, changed, \* rounds begun; has this one changed anything
          depends,       \* mc_depends_components: [name, parent, grouping]
          unsat_attr,    \* what is left of this round's unsatisfied attributes
          order,         \* the order in which this round's last loop goes through them
          precedes,      \* what is left for that loop: [id, kind, nth]
          modules,       \* components in sys.modules
          results        \* [id, errors] of each component that was run

buildVars == <<phase, dep_id, loops, changed, depends, unsat_attr, order, precedes>>
inputVars == <<manifest, attribute_defaults, asked>>
runVars   == <<modules, results>>
vars == <<graphVars, buildVars, inputVars, runVars>>

Installed == DOMAIN manifest

MaxLoops == 1000

Init ==
  /\ NoGraph
  /\ manifest \in Repositories
  /\ attribute_defaults \in Defaults
  /\ asked \in {line \in CommandLines : ToSet(line) \subseteq Installed}
  /\ phase = "initial" /\ loops = 0 /\ changed = FALSE
  /\ dep_id = << >> /\ depends = << >> /\ unsat_attr = {}
  /\ order = << >> /\ precedes = {}
  /\ modules = {} /\ results = << >>

Fail(reason) ==
  /\ phase' = reason
  /\ UNCHANGED <<graphVars, loops, changed, dep_id, depends, unsat_attr, order, precedes, inputVars, runVars>>

-------------------------------------------------------------------------------
(* Inserting a component. *)

\* Every dependency becomes a ModelComponent, which must be installed.
Resolvable(name) == ToSet(manifest[name].depends) \subseteq Installed

DependsOf(name, parent, group) ==
  [i \in DOMAIN manifest[name].depends |->
     [name |-> manifest[name].depends[i], parent |-> parent, grouping |-> group]]

Insert(name, group, associations) ==
  InsertEntity(name, manifest[name].attributes_depends,
               manifest[name].attributes_provides, group, associations)

Previous == {dep_id[i] : i \in {Len(dep_id)} \ {0}}

\* The components of the command line, each associated with the one before it,
\* whether or not it is in the graph already.
InsertInitial ==
  /\ phase = "initial" /\ Len(dep_id) < Len(asked)
  /\ LET group == Len(dep_id)
         name == asked[group + 1]
     IN  IF Resolvable(name)
         THEN /\ Insert(name, group, Previous \X {NewId})
              /\ dep_id' = Append(dep_id, NewId)
              /\ depends' = depends \o DependsOf(name, NewId, group)
              /\ UNCHANGED <<phase, loops, changed, unsat_attr, order, precedes, inputVars, runVars>>
         ELSE Fail("missing")

BeginRounds ==
  /\ phase = "initial" /\ Len(dep_id) = Len(asked)
  /\ phase' = "depends"
  /\ loops' = 1
  /\ UNCHANGED <<graphVars, changed, dep_id, depends, unsat_attr, order, precedes, inputVars, runVars>>

-------------------------------------------------------------------------------
(* First part of a round: dependencies on components. *)

\* A dependency is inserted unless it is present; if it is, its first
\* occurrence is the one that runs before the parent.  The lists for this level
\* and for the next are one queue here.
InsertDependency ==
  /\ phase = "depends" /\ depends # << >>
  /\ LET dep == Head(depends)
     IN  CASE Present(dep.name) /\ HasCycles -> Fail("cycle")
           [] Present(dep.name) /\ ~HasCycles ->
                /\ AssociateEntities(GetFirst(dep.name), dep.parent)
                /\ depends' = Tail(depends)
                /\ changed' = TRUE
                /\ UNCHANGED <<phase, loops, dep_id, unsat_attr, order, precedes, inputVars, runVars>>
           [] ~Present(dep.name) /\ Resolvable(dep.name) ->
                /\ Insert(dep.name, dep.grouping, {<<NewId, dep.parent>>})
                /\ depends' = Tail(depends) \o DependsOf(dep.name, NewId, dep.grouping)
                /\ changed' = TRUE
                /\ UNCHANGED <<phase, loops, dep_id, unsat_attr, order, precedes, inputVars, runVars>>
           [] OTHER -> Fail("missing")

FindUnsatisfied ==
  /\ phase = "depends" /\ depends = << >>
  /\ phase' = "attributes"
  /\ unsat_attr' = InDegreeZero
  /\ UNCHANGED <<graphVars, loops, changed, dep_id, depends, order, precedes, inputVars, runVars>>

-------------------------------------------------------------------------------
(* Second part: providers for attributes that have none. *)

Providers(a) == {m \in Installed : a \in ToSet(manifest[m].attributes_provides)}

\* Mutant: what is configured is taken for a provider without a look at it.
ConfiguredFor(a) ==
  IF Cardinality(Providers(a)) = 1 THEN Providers(a)
  ELSE {m \in Installed : a \in DOMAIN attribute_defaults /\ attribute_defaults[a] = m}

\* get_default_component_for_attribute: the only provider, or else the
\* configured one, which must provide the attribute.  Empty when it raises.
DefaultFor(a) ==
  IF Cardinality(Providers(a)) = 1 THEN Providers(a)
  ELSE {m \in Providers(a) : a \in DOMAIN attribute_defaults /\ attribute_defaults[a] = m}

\* The attributes are gone through in the graph's order; one that an insertion
\* of this loop has provided for is skipped.  The default provider is never in
\* the graph already, because its edge would provide the attribute.
ResolveAttribute ==
  /\ phase = "attributes"
  /\ \E unsat \in unsat_attr :
       LET a == unsat[1]
           group == unsat[2]
       IN  /\ \A other \in unsat_attr \ {unsat} : Older(a, other[1])
           /\ CASE HasProvider(a) ->
                     /\ unsat_attr' = unsat_attr \ {unsat}
                     /\ UNCHANGED <<graphVars, phase, loops, changed, dep_id, depends, order, precedes, inputVars, runVars>>
                [] ~HasProvider(a) /\ DefaultFor(a) = {} -> Fail("no provider")
                [] OTHER -> \E m \in DefaultFor(a) :
                     IF Resolvable(m)
                     THEN /\ Insert(m, group, {})
                          /\ depends' = depends \o DependsOf(m, NewId, group)
                          /\ changed' = TRUE
                          /\ unsat_attr' = unsat_attr \ {unsat}
                          /\ UNCHANGED <<phase, loops, dep_id, order, precedes, inputVars, runVars>>
                     ELSE Fail("missing")

-------------------------------------------------------------------------------
(* Third part: components, and providers of attributes, that others precede. *)

\* What the loop over the ordered components will look at.
Precedences ==
  LET m(id) == manifest[component_map[id]]
  IN  UNION {  {[id |-> id, kind |-> "component", nth |-> i] : i \in DOMAIN m(id).precedes}
          \cup {[id |-> id, kind |-> "attribute", nth |-> i] :
                   i \in DOMAIN m(id).attributes_precedes} : id \in Entities}

\* It goes through the components in order, through the components and then the
\* attributes each precedes, and through those as they are listed.
Sooner(t, u) ==
  \/ Place(order, t.id) < Place(order, u.id)
  \/ t.id = u.id /\ t.kind = "component" /\ u.kind = "attribute"
  \/ t.id = u.id /\ t.kind = u.kind /\ t.nth < u.nth

FindPrecedences ==
  /\ phase = "attributes" /\ unsat_attr = {}
  /\ IF HasCycles THEN Fail("cycle")
     ELSE /\ phase' = "precedes"
          /\ order' = Sorted
          /\ precedes' = Precedences
          /\ UNCHANGED <<graphVars, loops, changed, dep_id, depends, unsat_attr, inputVars, runVars>>

\* check_list_ordering: names are compared by their first occurrence.
InOrder(parent, name) == FirstPlace(parent) <= FirstPlace(name)

\* A preceded component that is there is associated only when it now comes
\* first; one that is not is inserted, and associated by the next round.  Its
\* dependencies become those of the component itself, but when it stands for an
\* attribute they become those of the component that precedes it.
Precede(task, name) ==
  LET component == component_map[task.id]
      group == grouping[task.id]
      parent == IF task.kind = "component" THEN NewId ELSE task.id
  IN  IF Present(name)
      THEN /\ IF InOrder(component, name)
              THEN UNCHANGED graphVars
              ELSE AssociateEntities(task.id, GetFirst(name))
           /\ UNCHANGED <<changed, depends>>
      ELSE /\ Insert(name, group, {})
           /\ depends' = depends \o DependsOf(name, parent, group)
                \o << [name |-> component, parent |-> NewId, grouping |-> group] >>
           /\ changed' = TRUE

Found(task) ==
  LET m == manifest[component_map[task.id]]
  IN  IF task.kind = "component" THEN {m.precedes[task.nth]} \cap Installed
      ELSE DefaultFor(m.attributes_precedes[task.nth])

PrecedeNext ==
  /\ phase = "precedes"
  /\ \E task \in precedes :
       /\ \A other \in precedes \ {task} : Sooner(task, other)
       /\ CASE HasCycles -> Fail("cycle")
            [] ~HasCycles /\ Found(task) = {} ->
                 Fail(IF task.kind = "component" THEN "missing" ELSE "no provider")
            [] OTHER -> \E name \in Found(task) :
                 IF Present(name) \/ Resolvable(name)
                 THEN /\ Precede(task, name)
                      /\ precedes' = precedes \ {task}
                      /\ UNCHANGED <<phase, loops, dep_id, unsat_attr, order, inputVars, runVars>>
                 ELSE Fail("missing")

\* Mutant: a round does not begin by forgetting what the last one changed.
EndRoundAlwaysChanged ==
  /\ phase = "precedes" /\ precedes = {}
  /\ CASE HasCycles -> Fail("cycle")
       [] ~HasCycles /\ changed /\ loops = MaxLoops -> Fail("looping")
       [] OTHER ->
          /\ phase' = IF changed THEN "depends" ELSE "built"
          /\ loops' = IF changed THEN loops + 1 ELSE loops
          /\ UNCHANGED <<graphVars, changed, dep_id, depends, unsat_attr, order, precedes, inputVars, runVars>>

\* The end of a round: another one if anything was inserted or associated in
\* its first two parts, or inserted in its third.
EndRound ==
  /\ phase = "precedes" /\ precedes = {}
  /\ CASE HasCycles -> Fail("cycle")
       [] ~HasCycles /\ changed /\ loops = MaxLoops -> Fail("looping")
       [] OTHER ->
          /\ phase' = IF changed THEN "depends" ELSE "built"
          /\ loops' = IF changed THEN loops + 1 ELSE loops
          /\ changed' = FALSE
          /\ UNCHANGED <<graphVars, dep_id, depends, unsat_attr, order, precedes, inputVars, runVars>>

-------------------------------------------------------------------------------
(* Running the components. *)

ToRun == Entities \ {results[i].id : i \in DOMAIN results}

\* The components are run in the order of the sort.
NextEntity ==
  LET place(id) == Place(Sorted, id)
  IN  CHOOSE id \in ToRun : \A other \in ToRun : place(id) <= place(other)

Failures == Cardinality({i \in DOMAIN results : results[i].errors})

Ran(id, errors) ==
  /\ results' = Append(results, [id |-> id, errors |-> errors])
  /\ UNCHANGED <<graphVars, buildVars, inputVars>>

RunNext == phase = "built" /\ ToRun # {}

\* A component with objects that are in sys.modules already is not run.
ObjectsLoadedTwice ==
  /\ RunNext
  /\ manifest[component_map[NextEntity]].objects /\ component_map[NextEntity] \in modules
  /\ Ran(NextEntity, TRUE)
  /\ UNCHANGED modules

Loaded ==
  IF manifest[component_map[NextEntity]].objects
  THEN modules \cup {component_map[NextEntity]} ELSE modules

CanRun ==
  RunNext /\ ~(manifest[component_map[NextEntity]].objects /\ component_map[NextEntity] \in modules)

\* The objects cannot be imported, or the plugin cannot: the component is
\* reported and the next one is run all the same.
ObjectsFail ==
  /\ CanRun /\ manifest[component_map[NextEntity]].objects /\ Failures < MaxFailures
  /\ Ran(NextEntity, TRUE)
  /\ UNCHANGED modules

PluginImportFails ==
  /\ CanRun /\ Failures < MaxFailures
  /\ Ran(NextEntity, TRUE)
  /\ modules' = Loaded

RunPlugin ==
  /\ CanRun
  /\ Ran(NextEntity, FALSE)
  /\ modules' = Loaded

\* The objects or the plugin raise anything but ImportError, or a file that is to
\* be uploaded is missing: the helper stops here.
Abort ==
  /\ RunNext /\ Failures < MaxFailures
  /\ phase' = "aborted"
  /\ modules' \in {modules, Loaded}
  /\ UNCHANGED <<graphVars, loops, changed, dep_id, depends, unsat_attr, order, precedes, inputVars, results>>

EndExperiment ==
  /\ phase = "built" /\ ToRun = {}
  /\ phase' = "ended"
  /\ UNCHANGED <<graphVars, loops, changed, dep_id, depends, unsat_attr, order, precedes, inputVars, runVars>>

Next ==
  \/ InsertInitial \/ BeginRounds
  \/ InsertDependency \/ FindUnsatisfied \/ ResolveAttribute
  \/ FindPrecedences \/ PrecedeNext \/ EndRound
  \/ ObjectsLoadedTwice \/ ObjectsFail \/ PluginImportFails \/ RunPlugin \/ Abort
  \/ EndExperiment

Spec == Init /\ [][Next]_vars

-------------------------------------------------------------------------------
Initial == ToSet(dep_id)

NameOf(i) == component_map[results[i].id]

\* A component is in the experiment twice only if the command line says so:
\* whatever depends on it, precedes it or needs its attributes shares one.
OnlyAskedForRepeats ==
  \A x, y \in Entities :
    x # y /\ component_map[x] = component_map[y] => {x, y} \subseteq Initial

\* y is in the experiment because of x.
Reason(x, y) ==
  LET m == manifest[component_map[x]]
      labels == ToSet(m.attributes_depends) \cup ToSet(m.attributes_precedes)
  IN  \/ component_map[y] \in ToSet(m.depends) \cup ToSet(m.precedes)
      \/ \E a \in labels : a \in ToSet(manifest[component_map[y]].attributes_provides)

\* Whatever is not on the command line was brought in by a component that was
\* there before it: nothing runs that is not, in the end, asked for.
EveryComponentHasAReason ==
  \A y \in Entities \ Initial : \E x \in Entities : x < y /\ Reason(x, y)

\* A component runs after an occurrence of each component it depends on, and
\* after every provider of the attributes it depends on, of which there is one.
DependenciesRunFirst ==
  \A i \in DOMAIN results :
    LET m == manifest[NameOf(i)]
        before == {results[j].id : j \in 1..(i - 1)}
    IN  /\ ToSet(m.depends) \subseteq {component_map[id] : id \in before}
        /\ \A a \in ToSet(m.attributes_depends) :
             LET sources == {id \in Entities :
                   a \in ToSet(manifest[component_map[id]].attributes_provides)}
             IN  sources # {} /\ sources \subseteq before

\* What the manifests and the command line ask of the order of two entities.
First(id) == \A other \in Entities : component_map[other] = component_map[id] => id <= other

Requires(x, y) ==
  LET mx == manifest[component_map[x]]
      my == manifest[component_map[y]]
  IN  \/ First(x) /\ component_map[x] \in ToSet(my.depends)
      \/ ToSet(mx.attributes_provides) \cap ToSet(my.attributes_depends) # {}
      \/ {x, y} \subseteq Initial /\ x < y
      \/ First(y) /\ component_map[y] \in ToSet(mx.precedes)
      \/ First(y) /\ \E a \in ToSet(mx.attributes_precedes) : component_map[y] \in DefaultFor(a)

\* What nobody asks for: Precede takes the dependencies of a provider it inserts
\* for those of the component that precedes it.
Borrowed(x, y) ==
  \E z \in Entities, a \in ToSet(manifest[component_map[y]].attributes_precedes) :
    /\ component_map[z] \in DefaultFor(a)
    /\ First(x) /\ component_map[x] \in ToSet(manifest[component_map[z]].depends)

\* Following the demands back from one of the entities never leaves them: the
\* entities are finitely many, so some of them are on a cycle.
OnCycles(entities) ==
  /\ entities # {}
  /\ \A y \in entities : \E x \in entities : Requires(x, y) \/ Borrowed(x, y)

\* The experiment is refused for a cycle only when the manifests have one, the
\* borrowed dependencies included: no edge of the graph is without a declaration.
RefusedOnlyForCycles ==
  phase = "cycle" => \E entities \in SUBSET Entities : OnCycles(entities)

\* docs/source/system/model_component/dependencies.rst: a preceded component
\* "is only guaranteed to be executed after the MC that precedes it".
PrecedesHonoured ==
  phase = "ended" =>
    \A i \in DOMAIN results : \A name \in ToSet(manifest[NameOf(i)].precedes) :
      \E k \in DOMAIN results : k > i /\ NameOf(k) = name

\* The rounds come to an end long before the limit: a round that changes
\* something follows or makes an insertion, and insertions are not repeated.
RoundsAreFew == loops <= 2 * Cardinality(Entities \ Initial) + 2
===============================================================================
