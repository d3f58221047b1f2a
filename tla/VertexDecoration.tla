---------------------------- MODULE VertexDecoration ----------------------------
(***************************************************************************)
(* decorate() of a vertex or an edge (control/experiment_graph.py): the    *)
(* entries of a class are copied to the instance one after another, in     *)
(* any order; an entry known to be on the instance goes through the        *)
(* conflict handlers; then the class is a decorator and its __init__ runs, *)
(* which @require_class makes decorate the instance with other classes     *)
(* first.  What an __init__ assigns, that of the vertex or edge included,  *)
(* never becomes known, and it assigns over whatever there is.             *)
(* Instances share one cache of the entries of classes, kept by the NAME   *)
(* of the class.                                                           *)
(***************************************************************************)
EXTENDS Naturals, Sequences

CONSTANTS
  Instance,         \* the vertices and edges
  Class,            \* the model component objects that may decorate them
  ClassName,        \* class -> its __name__
  Entry,            \* names of methods and class attributes
  Entries,          \* class -> the entries dir() lists, the skip_set's left out
  Own,              \* what dir() of a Vertex or Edge lists at its start
  OwnLater,         \* what its __init__ assigns after that
  LabelOf,          \* <<class, entry>> -> __name__ of the value: not the
                    \* entry's name where one method has two names
  Assigns,          \* class -> the attributes of self its __init__ assigns
  Requires,         \* class -> the classes @require_class names, in the order
                    \* their decoration is assured
  Handler,          \* conflict handlers
  Merges,           \* handler -> the entries it can merge
  Declared          \* class -> its _conflict_handlers

RequiredBy(c) == {Requires[c][n] : n \in DOMAIN Requires[c]}

\* @require_class names classes that are defined before the class it is of.
ASSUME DecorationAssumption ==
  /\ Own \cup OwnLater \subseteq Entry
  /\ {Entries, Assigns} \subseteq [Class -> SUBSET Entry]
  /\ \A c \in Class : Requires[c] \in Seq(Class)
  /\ \A S \in SUBSET Class : S # {} => \E c \in S : RequiredBy(c) \cap S = {}

VARIABLES
  CACHED_DECORATOR_OBJECTS,   \* class name -> the entries found for it
  decorators,                 \* instance -> set of classes
  holds,                      \* instance -> entry -> the classes (or "self")
                              \* whose value the instance's attribute has in it
  cached_self_dir,            \* instance -> the names taken for present
  conflict_handlers,          \* instance -> set of handlers given to decorate
  begun,                      \* history: instance -> the classes whose own
                              \* __init__ was entered ...
  initialized,                \* ... and those whose __init__ returned
  frames,                     \* decorate calls under way, the innermost first
  refused                     \* history: instances a decoration of failed

decorationVars == <<CACHED_DECORATOR_OBJECTS, decorators, holds, cached_self_dir,
                    conflict_handlers, begun, initialized, frames, refused>>

DecorationInit ==
  /\ CACHED_DECORATOR_OBJECTS = << >>
  /\ decorators = [i \in Instance |-> {}]
  /\ holds = [i \in Instance |-> [x \in Entry |-> IF x \in Own \cup OwnLater THEN {"self"} ELSE {}]]
  /\ cached_self_dir = [i \in Instance |-> Own]
  /\ conflict_handlers = [i \in Instance |-> {}]
  /\ begun = [i \in Instance |-> {}]
  /\ initialized = [i \in Instance |-> {}]
  /\ frames = << >>
  /\ refused = {}

-----------------------------------------------------------------------------
(* Entering decorate *)

\* The entries decorate goes through: those first found under this name.
EntriesFound(c) ==
  IF ClassName[c] \in DOMAIN CACHED_DECORATOR_OBJECTS
  THEN CACHED_DECORATOR_OBJECTS[ClassName[c]]
  ELSE Entries[c]

Remember(c) ==
  CACHED_DECORATOR_OBJECTS' =
    [n \in DOMAIN CACHED_DECORATOR_OBJECTS \cup {ClassName[c]} |->
       IF n = ClassName[c] THEN EntriesFound(c) ELSE CACHED_DECORATOR_OBJECTS[n]]

\* A call on i with class c and, perhaps, a handler: a set of at most one.
Enter(i, c, given) ==
  /\ c \notin decorators[i]
  /\ Remember(c)
  /\ conflict_handlers' = [conflict_handlers EXCEPT ![i] = @ \cup given]
  /\ frames' = <<[instance |-> i, class |-> c, left |-> EntriesFound(c)]>> \o frames
  /\ UNCHANGED <<decorators, holds, cached_self_dir, begun, initialized, refused>>

\* A model component decorates an instance.
decorate(i, c) ==
  /\ frames = << >>
  /\ \E given \in {{}} \cup {{h} : h \in Handler} : Enter(i, c, given)

-----------------------------------------------------------------------------
(* The copying of the entries *)

Frame == frames[1]

SetEntry(x, value) ==
  LET i == Frame.instance
  IN  /\ holds' = [holds EXCEPT ![i][x] = value]
      /\ cached_self_dir' =
           [cached_self_dir EXCEPT ![i] = @ \cup {LabelOf[<<Frame.class, x>>]}]
      /\ frames' = [frames EXCEPT ![1].left = @ \ {x}]
      /\ UNCHANGED <<CACHED_DECORATOR_OBJECTS, decorators, conflict_handlers,
                     begun, initialized, refused>>

\* Mutant: the names present are looked for among the instance's own only.
ConflictsWithOwn(x) == x \in Own

Conflicts(x) == x \in cached_self_dir[Frame.instance]

\* The handlers asked: those given for this instance so far and the class's
\* own; those the earlier decorators declared are not among them.  A name may
\* be taken for present that the instance does not have: there is no value to
\* hand to a handler then.
Mergeable(x) ==
  /\ holds[Frame.instance][x] # {}
  /\ \E h \in conflict_handlers[Frame.instance] \cup Declared[Frame.class] : x \in Merges[h]

Has(c, x) == x \in Entries[c]

CopyEntry ==
  \E x \in Frame.left :
    /\ ~Conflicts(x)
    /\ Has(Frame.class, x)
    /\ SetEntry(x, {Frame.class})

MergeEntry ==
  \E x \in Frame.left :
    /\ Conflicts(x)
    /\ Has(Frame.class, x)
    /\ Mergeable(x)
    /\ SetEntry(x, holds[Frame.instance][x] \cup {Frame.class})

\* No handler merges the entry, or the class has no entry of the name (the
\* cache has another class's entries): the exception leaves every decorate
\* call under way; nothing that was copied is taken back.
Refuse ==
  /\ \E x \in Frame.left :
       \/ ~Has(Frame.class, x)
       \/ Conflicts(x) /\ ~Mergeable(x)
  /\ refused' = refused \cup {Frame.instance}
  /\ frames' = << >>
  /\ UNCHANGED <<CACHED_DECORATOR_OBJECTS, decorators, holds, cached_self_dir,
                 conflict_handlers, begun, initialized>>

BecomeDecorator ==
  /\ Frame.left = {}
  /\ Frame.class \notin decorators[Frame.instance]
  /\ decorators' = [decorators EXCEPT ![Frame.instance] = @ \cup {Frame.class}]
  /\ UNCHANGED <<CACHED_DECORATOR_OBJECTS, holds, cached_self_dir,
                 conflict_handlers, begun, initialized, frames, refused>>

-----------------------------------------------------------------------------
(* __init__, as @require_class has wrapped it *)

Lacks(c, n) == Requires[c][n] \notin decorators[Frame.instance]

\* Mutant: only the outermost of the requirements is assured.
MissingOutermost(c) == {n \in DOMAIN Requires[c] : n = 1 /\ Lacks(c, n)}

\* The places, among the classes that c requires, of those still missing.
Missing(c) == {n \in DOMAIN Requires[c] : Lacks(c, n)}

Initializing ==
  Frame.left = {} /\ Frame.class \in decorators[Frame.instance]

\* assure_decorated: the first class missing decorates the instance now, with
\* the handler @require_class was given, which is also one of the class's.
AssureDecorated ==
  /\ Initializing
  /\ \E n \in Missing(Frame.class), given \in {{}} \cup {{h} : h \in Declared[Frame.class]} :
       /\ \A m \in Missing(Frame.class) : n <= m
       /\ Enter(Frame.instance, Requires[Frame.class][n], given)

\* The body of __init__ assigns attributes, whatever had these names before.
Assign(attributes) ==
  /\ Initializing
  /\ Missing(Frame.class) = {}
  /\ holds' = [holds EXCEPT ![Frame.instance] =
                [x \in Entry |-> IF x \in attributes THEN {Frame.class} ELSE @[x]]]
  /\ begun' = [begun EXCEPT ![Frame.instance] = @ \cup {Frame.class}]
  /\ UNCHANGED <<CACHED_DECORATOR_OBJECTS, decorators, cached_self_dir, conflict_handlers>>

RunInit ==
  /\ Assign(Assigns[Frame.class])
  /\ initialized' = [initialized EXCEPT ![Frame.instance] = @ \cup {Frame.class}]
  /\ frames' = Tail(frames)
  /\ UNCHANGED refused

\* __init__ raises, before or after any of its assignments; a TypeError for a
\* missing argument becomes a DecorationError.  The exception leaves all the
\* calls under way, and the class stays a decorator.
InitFails ==
  /\ \E attributes \in SUBSET Assigns[Frame.class] : Assign(attributes)
  /\ refused' = refused \cup {Frame.instance}
  /\ frames' = << >>
  /\ UNCHANGED initialized

Step ==
  /\ frames # << >>
  /\ \/ CopyEntry \/ MergeEntry \/ Refuse
     \/ BecomeDecorator \/ AssureDecorated \/ RunInit \/ InitFails

DecorationNext == (\E i \in Instance, c \in Class : decorate(i, c)) \/ Step

DecorationSpec == DecorationInit /\ [][DecorationNext]_decorationVars

-----------------------------------------------------------------------------
(* Correctness *)

\* The name is one class's, and no class knows the method under two names.
Plain(c, x) ==
  /\ \A d \in Class : ClassName[d] = ClassName[c] => d = c
  /\ \A d \in Class : x \in Entries[d] => LabelOf[<<d, x>>] = x

\* The __init__ of another decorator may have assigned the attribute.
Assigned(i, x, c) == \E d \in begun[i] \ {c} : x \in Assigns[d]

\* A decorator brings all of its entries, and no later decoration, whether it
\* succeeds or is refused, puts another value in the place of one without a
\* conflict handler having merged the two, unless an __init__ assigns it; the
\* same goes for what the vertex or edge has from its class.  (Not so for
\* classes that share a name, and for a method with two names: decorate
\* caches by class name and by __name__.)
EveryDecoratorKeepsItsEntries ==
  \A i \in Instance :
    /\ \A c \in decorators[i] : \A x \in Entries[c] :
         Plain(c, x) => c \in holds[i][x] \/ Assigned(i, x, c)
    /\ \A x \in Own : "self" \in holds[i][x] \/ Assigned(i, x, "self")

\* Unless a decoration of the instance failed before, the __init__ of a
\* class runs after the __init__ of every class it requires (require_class).
RequiredAreInitializedFirst ==
  \A i \in Instance \ refused : \A c \in initialized[i] :
    \A n \in DOMAIN Requires[c] : Requires[c][n] \in initialized[i]
=============================================================================
