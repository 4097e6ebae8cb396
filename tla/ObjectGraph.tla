----------------------------- MODULE ObjectGraph -----------------------------
(***************************************************************************)
(* The graph of types and objects as the high level functions see it       *)
(* (embedded/graph/crud/hl_crud.go, embedded/graph/tx): vertices with a    *)
(* body, links with a body, and the low level requests that change them.   *)
(* A request takes effect at once and covers the keys of a link in both    *)
(* directions: module GraphLinks shows how it gets there, and that the     *)
(* keys agree when nobody is at work.                                      *)
(*                                                                         *)
(* An id is a sequence of names: the ids of a transaction are those of the *)
(* main graph behind the name of the transaction.                          *)
(***************************************************************************)
EXTENDS Naturals, Sequences, FiniteSets, Functions, SequencesExt

CONSTANT None       \* no value; also the body of a link that has no link_type

Put(f, k, v) == [j \in DOMAIN f \cup {k} |-> IF j = k THEN v ELSE f[j]]
Without(f, S) == Restrict(f, DOMAIN f \ S)
\* What f has, and what only g has.
Over(f, g) == [j \in DOMAIN f \cup DOMAIN g |-> IF j \in DOMAIN f THEN f[j] ELSE g[j]]

\* A graph: a body for every vertex and every link <<from, type, to>>.  (A
\* fourth component is what a transaction can make of a key with dots inside:
\* patterns take the last tokens for the type and the other end, but no request
\* finds the key of a link that has these ends.)
IsLink(l) == l = <<l[1], l[2], l[3]>>
EmptyGraph == [vertex |-> << >>, link |-> << >>]

\* What a body holds, as far as the functions read it: a value (the link_type
\* of a link between types) and whether __meta.status is "deleted".
Body(v) == [val |-> v, gone |-> FALSE]
DeletedMeta == [val |-> None, gone |-> TRUE]

\* DeepMerge of easyjson: keys of the new body replace those of the old one.
Merged(old, new) ==
    [val |-> IF new.val = None THEN old.val ELSE new.val, gone |-> old.gone \/ new.gone]

-----------------------------------------------------------------------------
(* The low level requests *)

Touching(g, v) == {l \in DOMAIN g.link : l[1] = v \/ l[3] = v}

\* Mutant: the links that lead to the vertex stay.
DeleteOutOnly(g, v) ==
    [vertex |-> Without(g.vertex, {v}),
     link |-> Without(g.link, {l \in DOMAIN g.link : l[1] = v})]

DeleteVertex(g, v) ==
    [vertex |-> Without(g.vertex, {v}),
     link |-> Without(g.link, {l \in Touching(g, v) : IsLink(l)})]

\* A vertex that exists is deleted first, with its links.
CreateVertex(g, v, b) ==
    LET h == IF v \in DOMAIN g.vertex THEN DeleteVertex(g, v) ELSE g
    IN  [h EXCEPT !.vertex = Put(@, v, b)]

\* A vertex that does not exist is created.
UpdateVertex(g, v, b, mode) ==
    LET new == IF mode = "merge" /\ v \in DOMAIN g.vertex
               THEN Merged(g.vertex[v], b) ELSE b
    IN  [g EXCEPT !.vertex = Put(@, v, new)]

\* Nobody looks whether the vertex at the other end exists.
CreateLink(g, l, b) == [g EXCEPT !.link = Put(@, l, b)]

UpdateLink(g, l, b) ==
    CreateLink(g, l, IF l \in DOMAIN g.link THEN Merged(g.link[l], b) ELSE b)

DeleteLink(g, l) == [g EXCEPT !.link = Without(@, {l})]

VCreate(v, b) == [op |-> "vertexCreate", at |-> v, body |-> b, mode |-> None]
VUpdate(v, b, m) == [op |-> "vertexUpdate", at |-> v, body |-> b, mode |-> m]
VDelete(v) == [op |-> "vertexDelete", at |-> v, body |-> None, mode |-> None]
LCreate(l, b) == [op |-> "linkCreate", at |-> l, body |-> b, mode |-> None]
LUpdate(l, b) == [op |-> "linkUpdate", at |-> l, body |-> b, mode |-> None]
LDelete(l) == [op |-> "linkDelete", at |-> l, body |-> None, mode |-> None]

Apply(g, r) ==
    CASE r.op = "vertexCreate" -> CreateVertex(g, r.at, r.body)
      [] r.op = "vertexUpdate" -> UpdateVertex(g, r.at, r.body, r.mode)
      [] r.op = "vertexDelete" -> DeleteVertex(g, r.at)
      [] r.op = "linkCreate"   -> CreateLink(g, r.at, r.body)
      [] r.op = "linkUpdate"   -> UpdateLink(g, r.at, r.body)
      [] r.op = "linkDelete"   -> DeleteLink(g, r.at)

\* One after the other.
ApplyAll(g, rs) ==
    LET after[n \in 0 .. Len(rs)] == IF n = 0 THEN g ELSE Apply(after[n - 1], rs[n])
    IN  after[Len(rs)]

-----------------------------------------------------------------------------
(* What the functions read *)

Out(g, v) == {l \in DOMAIN g.link : l[1] = v}
OutOfType(g, v, type) == {l[3] : l \in {k \in Out(g, v) : k[2] = type}}

\* Mutant: the pattern finds the links to objects only.
ObjectChildren(g, v) == OutOfType(g, v, "__object")
Children(g, v) == {l[3] : l \in Out(g, v)}

\* The first key that a pattern finds, in whatever order; None stands for "".
ObjectTypes(g, o) ==
    LET found == OutOfType(g, o, "__type") IN IF found = {} THEN {None} ELSE found

TypeObjects(g, t) == OutOfType(g, t, "__object")

\* The vertices that v leads to, and those of them at the greatest distance.
Spread(g, v) ==
    LET From(S) == {v} \cup S \cup {l[3] : l \in {k \in DOMAIN g.link : k[1] \in S}}
        ids == {v} \cup {l[3] : l \in DOMAIN g.link}
        beyond[S \in SUBSET ids] ==
            LET next == From(S)
            IN  IF From(next) = next THEN [all |-> next, last |-> next \ S] ELSE beyond[next]
    IN  beyond[{}]
Reachable(g, v) == Spread(g, v).all

\* What a cascade leaves: the graph without the vertices that v leads to,
\* except one of those at the greatest distance, which is never deleted.
CascadeOutcomes(g, v) ==
    LET found == Spread(g, v)
        DeleteAll(S) == [vertex |-> Without(g.vertex, S),
                         link |-> Without(g.link, {l \in DOMAIN g.link :
                                                      IsLink(l) /\ {l[1], l[3]} \cap S # {}})]
    IN  {DeleteAll(found.all \ {last}) : last \in found.last}
=============================================================================
