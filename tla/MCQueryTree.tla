---------------------------- MODULE MCQueryTree ----------------------------
EXTENDS QueryTree, MCQuery

\* Every way to link two objects to each other, to themselves and to a third
\* one, which links back; links to c are of type t, links from b have the tag x.
ManyGraphs ==
    {{L(k[1], IF k[2] = c THEN t ELSE u, k[2], IF k[1] = b THEN {x} ELSE {}) : k \in K}
        : K \in {M \cup {<<c, a>>} : M \in SUBSET ({a, b} \X {a, b, c})}}

AllGraphs == SomeGraphs \cup ManyGraphs
=============================================================================
