------------------------------ MODULE MCQuery ------------------------------
(* Graphs and queries for the modules that evaluate queries.                *)
EXTENDS JPGQL, TLC

CONSTANTS a, b, c, t, u, x

L(v, type, w, index) == [from |-> v, type |-> type, to |-> w, index |-> index]
S(any, type, filter) == [any |-> any, type |-> type, filter |-> filter]

\* A chain; a diamond with a cycle; two links to one object and a link to
\* the object itself.
SomeGraphs ==
    {{L(a, t, b, {}), L(b, t, c, {x})},
     {L(a, t, b, {x}), L(a, u, c, {x}), L(b, u, c, {}), L(c, t, a, {x})},
     {L(a, u, b, {}), L(b, t, c, {}), L(b, u, c, {x}), L(b, u, b, {}), L(c, u, a, {})}}

\* "..t", "..*[x].u", ".*.t"
SomeQueries ==
    {<<a, <<S(TRUE, t, {})>>>>,
     <<a, <<S(TRUE, AnyType, {{x}}), S(FALSE, u, {})>>>>,
     <<a, <<S(FALSE, AnyType, {}), S(FALSE, t, {})>>>>}
=============================================================================
