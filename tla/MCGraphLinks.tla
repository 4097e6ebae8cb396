---------------------------- MODULE MCGraphLinks ----------------------------
(* Callers of GraphLinks that never change one link at the same time.       *)
EXTENDS GraphLinks, TLC

CONSTANTS a, b, c, x, t, c1, c2

L(v, w) == [from |-> v, type |-> "type", to |-> w]
On(fn, v) == [handler |-> <<fn, v, FALSE>>, link |-> None, body |-> None]
Delete(l) == [handler |-> <<"linkDelete", l.from, FALSE>>, link |-> l, body |-> None]
Put(fn, l, B) == {[handler |-> <<fn, l.from, FALSE>>, link |-> l, body |-> g] : g \in B}
Named == [name |-> x, tags |-> {t}]
Unnamed == [name |-> None, tags |-> {}]

ASSUME CallersAreApart /\ VerticesAreApart /\ NamesAreChosen

\* One creates and deletes links from a to b; another one links from a to c
\* and from c to itself, and the vertex c with them.
OwnLinks ==
    c1 :> (Put("linkCreate", L(a, b), {Named}) \cup {Delete(L(a, b))})
    @@ c2 :> (Put("linkCreate", L(a, c), {Named})
              \cup Put("linkUpdate", L(c, c), {Named, Unnamed})
              \cup {On("vertexCreate", c), On("vertexUpdate", c), On("vertexDelete", c)})
=============================================================================
