------------------------ MODULE MCModelComponentManager ------------------------
(***************************************************************************)
(* Repositories for TLC: every way of making at most MaxDeclarations       *)
(* declarations in the manifests of a few components.                      *)
(***************************************************************************)
EXTENDS ModelComponentManager

CONSTANT topology          \* a model value: the attribute

AlphabeticalRank == [l \in Attribute |-> 1]

Declarations(names, labels) ==
  {<<kind, m, t>> : kind \in {"depends", "precedes"}, m \in names, t \in names}
    \cup {<<kind, m, t>> :
            kind \in {"attributes_depends", "attributes_provides", "attributes_precedes"},
            m \in names, t \in labels}
    \cup {<<"objects", m, m>> : m \in names}

OnSelf(d) == d[1] \in {"depends", "precedes"} /\ d[2] = d[3]

Manifests(names, made) ==
  LET listed(kind, m) == SetToSeq({d[3] : d \in {e \in made : e[1] = kind /\ e[2] = m}})
  IN  [m \in names |->
        [depends             |-> listed("depends", m),
         precedes            |-> listed("precedes", m),
         attributes_depends  |-> listed("attributes_depends", m),
         attributes_provides |-> listed("attributes_provides", m),
         attributes_precedes |-> listed("attributes_precedes", m),
         objects             |-> <<"objects", m, m>> \in made]]

\* All the repositories of three components with one to three declarations.
Few == {"m", "n", "o"}

FewDeclarations ==
  LET possible == {d \in Declarations(Few, {topology}) : ~OnSelf(d)}
  IN  {Manifests(Few, {d, e, f}) : d \in possible, e \in possible, f \in possible}

\* One component needs four others, of which each may precede another one.
\* All precedences agree with one order of the four: q, n, o, p.
Bare == [depends |-> << >>, precedes |-> << >>, attributes_depends |-> << >>,
         attributes_provides |-> << >>, attributes_precedes |-> << >>, objects |-> FALSE]

Consistent ==
  LET line == <<"q", "n", "o", "p">>
      after(i) == {<< >>} \cup {<<line[j]>> : j \in (i + 1)..4}
  IN  {[m |-> [Bare EXCEPT !.depends = <<"n", "o", "p", "q">>],
        q |-> [Bare EXCEPT !.precedes = s[1]], n |-> [Bare EXCEPT !.precedes = s[2]],
        o |-> [Bare EXCEPT !.precedes = s[3]], p |-> [Bare EXCEPT !.precedes = s[4]]]
         : s \in after(1) \X after(2) \X after(3) \X after(4)}

\* No definition looks at what a name is, so the first name stands for any.
UpToTwo == {<<"m">>, <<"m", "m">>, <<"m", "n">>}

JustM == {<<"m">>}

NoDefault  == {<< >>}
OneDefault == {<< >>} \cup {(topology :> m) : m \in Few}
===============================================================================
