------------------------------- MODULE JPGQL -------------------------------
(***************************************************************************)
(* What a JPGQL query asks (embedded/graph/jpgql/tools.go).  A query is a  *)
(* sequence of steps; evaluating its first step on a vertex gives objects, *)
(* each of which is a result or is asked the rest of the query.            *)
(***************************************************************************)
EXTENDS Naturals, Sequences, FiniteSets

CONSTANTS
    Vertex,
    Type,           \* link types
    AnyType,        \* the link type "*"
    NoType,         \* no link type: the object itself
    Feature         \* indices of links: names and tags

\* A graph is a set of links.
Link == [from : Vertex, type : Type, to : Vertex, index : SUBSET Feature]

\* any: "..", any level.  A filter is in disjunctive normal form, {} if there
\* is none.
Step == [any : BOOLEAN, type : Type \cup {AnyType, NoType},
         filter : SUBSET SUBSET Feature]

\* The part of a query that is left for a vertex.
Process == Vertex \X (Seq(Step) \ {<<>>})

\* The objects that the links of v with a type and a filter lead to.
Objects(g, v, type, filter) ==
    IF type = NoType THEN IF filter = {} THEN {v} ELSE {}
    ELSE {l.to : l \in {k \in g : /\ k.from = v
                                  /\ type \in {AnyType, k.type}
                                  /\ filter # {} => \E f \in filter : f \subseteq k.index}}

\* Objects that the first step of p ends at.
Stops(g, p) == Objects(g, p[1], Head(p[2]).type, Head(p[2]).filter)

\* Mutant: ".." passes links of the type asked for only.
PassedTyped(g, p) ==
    IF Head(p[2]).any THEN Objects(g, p[1], Head(p[2]).type, {}) \ Stops(g, p) ELSE {}

\* Objects that "..", any level, passes: not those it stops at.
Passed(g, p) ==
    IF Head(p[2]).any THEN Objects(g, p[1], AnyType, {}) \ Stops(g, p) ELSE {}

\* What p finds by itself, and what it has to ask others.
Found(g, p) == IF Len(p[2]) = 1 THEN Stops(g, p) ELSE {}
Asked(g, p) ==
    {<<v, p[2]>> : v \in Passed(g, p)}
    \cup (IF Len(p[2]) = 1 THEN {} ELSE {<<v, Tail(p[2])>> : v \in Stops(g, p)})

-----------------------------------------------------------------------------
(* The answer that is due *)

\* Processes with the parts of the query of p.
Parts(p) == Vertex \X {SubSeq(p[2], i, Len(p[2])) : i \in 1 .. Len(p[2])}

\* The processes that evaluating p comes to: the least set that has p and
\* what its members ask.
Closed(g, S) == \A x \in S : Asked(g, x) \subseteq S
Reached(g, p) ==
    {x \in Parts(p) : \A S \in SUBSET Parts(p) : p \in S /\ Closed(g, S) => x \in S}

Result(g, p) == UNION {Found(g, x) : x \in Reached(g, p)}

-----------------------------------------------------------------------------
(* What the documentation says of it (docs/jpgql.md), with paths *)

\* "." is the next level, ".." is "any level (first occurrences on all roots
\* only)": a path whose last link is the first one to an object asked for.
Ends(g, v, s) ==
    LET Stop(w) == Objects(g, w, s.type, s.filter) IN
    IF ~s.any THEN Stop(v)
    ELSE {w \in Vertex : \E n \in 1 .. Cardinality(Vertex) :
            \E path \in [1 .. n -> Vertex] :
                /\ path[1] = v /\ w \in Stop(path[n])
                /\ \A i \in 2 .. n : path[i] \in Objects(g, path[i - 1], AnyType, {})
                                                \ Stop(path[i - 1])}

Meaning(g, p) ==
    LET f[i \in 0 .. Len(p[2])] ==
            IF i = 0 THEN {p[1]} ELSE UNION {Ends(g, v, p[2][i]) : v \in f[i - 1]}
    IN f[Len(p[2])]
=============================================================================
