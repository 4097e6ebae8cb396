--------------------------- MODULE ObjectsProofs ---------------------------
(***************************************************************************)
(* Proofs about module Objects: objects stay whole, links between them     *)
(* declared, and creations are announced, whatever the calls, the order of *)
(* their requests and the failures that the callers' rules allow.          *)
(*                                                                         *)
(* IInv says of each object how much of it is there while it is made, and  *)
(* otherwise that it is whole or not made (ObjectOK); of the types that they *)
(* are there once listed, and have the links that links between objects    *)
(* follow; and of each handler what it has read and still relies on        *)
(* (Relies).  Nothing is said of the ids that are Loose.  A step is about  *)
(* a few ids: the lemmas under "What a step leaves alone" carry everything *)
(* else over, and the lemma of each request only sees to its own ids.      *)
(*                                                                         *)
(* Cascades says of a cascade, as long as nothing fails, where in the      *)
(* levels of what its vertex leads to it is (Level), and which vertices it *)
(* has deleted (Deleted): what is left in the end follows.                 *)
(***************************************************************************)
EXTENDS Objects, FiniteSetTheorems, SequenceTheorems, NaturalsInduction, TLAPS

V == DOMAIN graph.vertex
L == DOMAIN graph.link

-----------------------------------------------------------------------------
(* Types *)

GraphOK(g) ==
    /\ g = [vertex |-> g.vertex, link |-> g.link]
    /\ DOMAIN g.link \subseteq LinkKey /\ IsFiniteSet(DOMAIN g.link)
    /\ \A t, u \in Type : <<t, "__type", u>> \in DOMAIN g.link
                            => g.link[<<t, "__type", u>>].val \in LinkType \cup {None}

VertexOp == {"vertexCreate", "vertexUpdate", "vertexDelete"}
LinkOp == {"linkCreate", "linkUpdate", "linkDelete"}
IsTypesLink(l) == l[1] \in Type /\ l[3] \in Type

RequestOK(r) ==
    \/ r.op \in VertexOp /\ r.at \in Type \cup Object
    \/ /\ r.op \in LinkOp /\ r.at \in LinkKey
       /\ r.op # "linkDelete" /\ IsTypesLink(r.at) => r.body.val \in LinkType \cup {None}

\* The link that lists a type, and one between types.
InList(t) == <<types, "__type", t>>
Between(t, u) == <<t, "__type", u>>

Blank == Body(None)
Listing(t) == LCreate(InList(t), Blank)

\* The links of an object of type t, in the order in which they are requested.
First(o) == <<objects, "__object", o>>
Second(o, t) == <<o, "__type", t>>
Third(o, t) == <<t, "__object", o>>

\* The requests that may be left of a call; a cascade has found the ids in S.
Todos(c, S) ==
    LET one == LCreate(First(c.at), Blank)
        two == LCreate(Second(c.at, c.type), Blank)
        three == LCreate(Third(c.at, c.type), Blank)
    IN  CASE c.fn = "type.create" ->
               {<<VCreate(c.at, Blank), Listing(c.at)>>, <<Listing(c.at)>>}
          [] c.fn \in {"type.update", "object.update"} -> {<<VUpdate(c.at, Blank, "merge")>>}
          [] c.fn = "types.link.create" -> {<<LCreate(Between(c.at, c.to), Body(c.lt))>>}
          [] c.fn = "types.link.update" -> {<<LUpdate(Between(c.at, c.to), Body(c.lt))>>}
          [] c.fn = "object.create" ->
               {<<VCreate(c.at, Blank), one, two, three>>, <<one, two, three>>, <<two, three>>, <<three>>}
          [] c.fn = "object.delete" -> {<<VDelete(v)>> : v \in IF IsCascade(c) THEN S ELSE {c.at}}
          [] c.fn = "objects.link.create" -> {<<LCreate(<<c.at, x, c.to>>, Blank)>> : x \in LinkType}
          [] c.fn = "objects.link.update" -> {<<LUpdate(<<c.at, x, c.to>>, Blank)>> : x \in LinkType}
          [] c.fn = "objects.link.delete" -> {<<LDelete(<<c.at, x, c.to>>)>> : x \in LinkType}
          [] OTHER -> {}

HandlerRecord(h) ==
    h = [call |-> h.call, todo |-> h.todo, stack |-> h.stack,
         queue |-> h.queue, seen |-> h.seen, before |-> h.before]

HandlerOK(h) ==
    /\ h.call \in Calls /\ h.todo \in Todos(h.call, h.seen) \cup {<< >>}
    /\ HandlerRecord(h)
    /\ h.seen \subseteq Type \cup Object
    /\ h.queue \in Seq(h.seen)
    /\ ~ IsCascade(h.call) => h.queue = << >>

TypeOK ==
    /\ GraphOK(graph)
    /\ calls \in Nat /\ DOMAIN handler \subseteq 1 .. calls
    /\ handler = [n \in DOMAIN handler |-> handler[n]]
    /\ \A n \in DOMAIN handler : HandlerOK(handler[n])
    /\ \A r \in late : RequestOK(r)
    /\ failures \in Nat

\* Handlers at one time are apart, as Legal has them.
Apart ==
    \A m, n \in DOMAIN handler : m # n =>
        /\ About(handler[m].call) \cap About(handler[n].call) = {}
        /\ ~ Creates(handler[m].call, handler[n].call.type)
        /\ ~ Alone(handler[m].call)

-----------------------------------------------------------------------------
(* Objects *)

\* The ids of which nothing is said: failed calls and late requests have been
\* about them, or a cascade has found them.
Loose ==
    disturbed \cup {v \in Type \cup Object :
                      \E n \in DOMAIN handler : IsCascade(handler[n].call) /\ v \in handler[n].seen}

TypeThere(t) == t \in Loose \/ (t \in V /\ InList(t) \in L)

Structure(o) == {First(o)} \cup {Second(o, t) : t \in Type} \cup {Third(o, t) : t \in Type}
Typed(o, t) ==
    /\ o \in V /\ L \cap Structure(o) = {First(o), Second(o, t), Third(o, t)}
    /\ TypeThere(t)
IsWhole(o) == \E t \in Type : Typed(o, t)
IsUnmade(o) == Touching(graph, o) = {} /\ (o \in V => o \in bare)

Maker(o, n) == handler[n].call.fn = "object.create" /\ handler[n].call.at = o

\* The links of an object of type t with k requests left to its creation.
Done(o, t, k) ==
    (IF k \in {0, 1, 2} THEN {First(o)} ELSE {}) \cup (IF k \in {0, 1} THEN {Second(o, t)} ELSE {})
        \cup (IF k = 0 THEN {Third(o, t)} ELSE {})
Made(o, t, k) ==
    /\ TypeThere(t) /\ Touching(graph, o) = Done(o, t, k)
    /\ k \in {0, 1, 2, 3} => o \in V

ObjectOK(o) ==
    IF \E n \in DOMAIN handler : Maker(o, n)
    THEN \A n \in DOMAIN handler : Maker(o, n) => Made(o, handler[n].call.type, Len(handler[n].todo))
    ELSE IsWhole(o) \/ IsUnmade(o)

\* Types that are listed are there.
TypesThere == \A t \in Type \ Loose : InList(t) \in L => t \in V

HasLink(t, u, x) == Between(t, u) \in L /\ graph.link[Between(t, u)].val = x
Linked(o, q, t, u, x) == <<o, x, q>> \in L /\ Second(o, t) \in L /\ Second(q, u) \in L

Declared ==
    \A o, q \in Object \ Loose : \A t, u \in Type \ Loose : \A x \in LinkType :
        Linked(o, q, t, u, x) => HasLink(t, u, x)

-----------------------------------------------------------------------------
(* What a handler relies on until its next request *)

\* A type that is created has no objects, and is there when it gets listed.
CreatesUnused(h) ==
    h.call.fn = "type.create" /\ Len(h.todo) = 2 =>
        \A o \in Object \ Loose : Second(o, h.call.at) \notin L /\ Third(o, h.call.at) \notin L
ListsThere(h) ==
    h.call.fn = "type.create" /\ Len(h.todo) = 1 => h.call.at \in Loose \/ h.call.at \in V

\* A link between types that is created is not there; one that is changed has
\* no links between objects.
LinksUnlinked(h) ==
    h.call.fn = "types.link.create" /\ h.todo # << >> /\ {h.call.at, h.call.to} \cap Loose = {}
        => Between(h.call.at, h.call.to) \notin L
ChangesUnused(h) ==
    h.call.fn = "types.link.update" /\ h.todo # << >> /\ {h.call.at, h.call.to} \cap Loose = {}
        => \A o, q \in Object \ Loose : \A x \in LinkType : ~ Linked(o, q, h.call.at, h.call.to, x)

\* An object that is linked is whole; the link is one that the types have.
LinkFn == {"objects.link.create", "objects.link.update"}
LinksWhole(h) ==
    h.call.fn \in LinkFn /\ h.todo # << >> => \A o \in {h.call.at, h.call.to} \ Loose : IsWhole(o)
LinksAsTyped(h) ==
    h.call.fn \in LinkFn /\ h.todo # << >> /\ {h.call.at, h.call.to} \cap Loose = {} =>
        \A t, u \in Type \ Loose : Second(h.call.at, t) \in L /\ Second(h.call.to, u) \in L
                                   => HasLink(t, u, h.todo[1].at[2])

\* A cascade deletes no type of an object that it has not found.
CascadesFound(h) ==
    IsCascade(h.call) =>
        /\ h.call.at \in h.seen
        /\ h.todo # << >> => \A o \in Object \ Loose : Third(o, h.todo[1].at) \notin L

Relies(h) ==
    /\ CreatesUnused(h) /\ ListsThere(h) /\ LinksUnlinked(h) /\ ChangesUnused(h)
    /\ LinksWhole(h) /\ LinksAsTyped(h) /\ CascadesFound(h)

Announced(h) == h.call.fn = "object.create" /\ Len(h.todo) \in {0, 1, 2, 3} => <<"create", h.call.at>> \in h.stack

Main ==
    /\ \A o \in Object \ Loose : ObjectOK(o)
    /\ TypesThere /\ Declared
    /\ \A n \in DOMAIN handler : Relies(handler[n])

Announcing == \A n \in DOMAIN handler : Announced(handler[n])

IInv == TypeOK /\ Apart /\ Main /\ Announcing

-----------------------------------------------------------------------------
(* Functions, ids and links *)

\* Ids of types, of objects and of the lists are apart.
LEMMA Ids ==
    /\ Type \cap Object = {} /\ types # objects
    /\ types \notin Type \cup Object /\ objects \notin Type \cup Object
    /\ LinkType \cap {"__type", "__object"} = {}
    /\ None \notin Type \cup Object \cup LinkType \cup {types, objects}
  <1>1. types # objects
    BY DEF types, objects
  <1> QED
    BY <1>1, IdsAreApart, NoneIsNew

\* The kinds of links.
LEMMA LinkKinds ==
    ASSUME NEW l \in LinkKey
    PROVE  /\ l = <<l[1], l[2], l[3]>>
           /\ \/ l[1] = types /\ l[2] = "__type" /\ l[3] \in Type
              \/ l[1] = objects /\ l[2] = "__object" /\ l[3] \in Object
              \/ l[1] \in Type /\ l[2] = "__type" /\ l[3] \in Type
              \/ l[1] \in Type /\ l[2] = "__object" /\ l[3] \in Object
              \/ l[1] \in Object /\ l[2] = "__type" /\ l[3] \in Type
              \/ l[1] \in Object /\ l[2] \in LinkType /\ l[3] \in Object
  BY DEF LinkKey

\* The three links of an object, end by end.
LEMMA LinksOfObjects ==
    ASSUME NEW o \in Object, NEW t \in Type
    PROVE  /\ First(o) \in LinkKey /\ Second(o, t) \in LinkKey /\ Third(o, t) \in LinkKey
           /\ First(o) \in Structure(o) /\ Second(o, t) \in Structure(o)
           /\ Third(o, t) \in Structure(o)
           /\ First(o)[1] = objects /\ First(o)[2] = "__object" /\ First(o)[3] = o
           /\ Second(o, t)[1] = o /\ Second(o, t)[2] = "__type" /\ Second(o, t)[3] = t
           /\ Third(o, t)[1] = t /\ Third(o, t)[2] = "__object" /\ Third(o, t)[3] = o
  BY DEF First, Second, Third, LinkKey, Structure

\* What a link between an object and anything but an object is.
LEMMA StructureLinks ==
    ASSUME NEW o \in Object, NEW l \in Structure(o)
    PROVE  /\ l \in LinkKey
           /\ \/ l = First(o)
              \/ \E t \in Type : l = Second(o, t)
              \/ \E t \in Type : l = Third(o, t)
           /\ l[1] = o \/ l[3] = o
           /\ l[1] = o => l[3] \in Type
           /\ l[3] = o => l[1] \in Type \cup {objects}
           /\ l[2] \notin LinkType
  BY Ids DEF Structure, First, Second, Third, LinkKey

-----------------------------------------------------------------------------
(* What a request does to the graph *)

\* The links that it deletes, and the one that it makes or changes.
Gone(g, r) ==
    IF r.op = "vertexDelete" \/ (r.op = "vertexCreate" /\ r.at \in DOMAIN g.vertex)
    THEN Touching(g, r.at)
    ELSE IF r.op = "linkDelete" THEN {r.at} ELSE {}
New(r) == IF r.op \in {"linkCreate", "linkUpdate"} THEN {r.at} ELSE {}

Effect(g, r, h) ==
    /\ h = [vertex |-> h.vertex, link |-> h.link]
    /\ DOMAIN h.vertex = IF r.op = "vertexDelete" THEN DOMAIN g.vertex \ {r.at}
                         ELSE IF r.op \in VertexOp THEN DOMAIN g.vertex \cup {r.at}
                         ELSE DOMAIN g.vertex
    /\ DOMAIN h.link = (DOMAIN g.link \ Gone(g, r)) \cup New(r)
    /\ \A l \in DOMAIN h.link \ New(r) : h.link[l] = g.link[l]
    /\ r.op = "linkCreate" => h.link[r.at] = r.body
    /\ r.op = "linkUpdate" =>
         h.link[r.at] = IF r.at \in DOMAIN g.link THEN Merged(g.link[r.at], r.body) ELSE r.body

\* A vertex goes with the links that touch it, and nothing else changes.
LEMMA DeleteEffect ==
    ASSUME NEW g, NEW v, DOMAIN g.link \subseteq LinkKey
    PROVE  LET h == DeleteVertex(g, v)
           IN  /\ h = [vertex |-> h.vertex, link |-> h.link]
               /\ DOMAIN h.vertex = DOMAIN g.vertex \ {v}
               /\ DOMAIN h.link = DOMAIN g.link \ Touching(g, v)
               /\ \A l \in DOMAIN h.link : h.link[l] = g.link[l]
  <1> DEFINE h == DeleteVertex(g, v)
  <1>0. {l \in Touching(g, v) : IsLink(l)} = Touching(g, v)
    BY LinkKinds DEF Touching, IsLink
  <1>1. h = [vertex |-> Without(g.vertex, {v}), link |-> Without(g.link, Touching(g, v))]
    BY <1>0 DEF DeleteVertex
  <1>2. h.vertex = Without(g.vertex, {v}) /\ h.link = Without(g.link, Touching(g, v))
    BY <1>1
  <1> HIDE DEF h
  <1>3. DOMAIN h.vertex = DOMAIN g.vertex \ {v}
    BY <1>2 DEF Without, Restrict
  <1>4. DOMAIN h.link = DOMAIN g.link \ Touching(g, v)
    BY <1>2 DEF Without, Restrict
  <1>5. \A l \in DOMAIN h.link : h.link[l] = g.link[l]
    BY <1>2, <1>4 DEF Without, Restrict
  <1> QED
    BY <1>1, <1>2, <1>3, <1>4, <1>5 DEF h

\* Every low level request has the effect that Effect says.
LEMMA ApplyEffect ==
    ASSUME NEW g, g = [vertex |-> g.vertex, link |-> g.link], DOMAIN g.link \subseteq LinkKey,
           NEW r, r.op \in VertexOp \cup LinkOp
    PROVE  Effect(g, r, Apply(g, r))
  <1> DEFINE h == Apply(g, r)
  <1>1. CASE r.op = "vertexCreate"
    <2> DEFINE d == IF r.at \in DOMAIN g.vertex THEN DeleteVertex(g, r.at) ELSE g
    <2>1. h = [d EXCEPT !.vertex = Put(@, r.at, r.body)]
      BY <1>1 DEF Apply, CreateVertex
    <2>2. /\ d = [vertex |-> d.vertex, link |-> d.link]
          /\ DOMAIN d.vertex \cup {r.at} = DOMAIN g.vertex \cup {r.at}
          /\ DOMAIN d.link = DOMAIN g.link \ Gone(g, r)
          /\ \A l \in DOMAIN d.link : d.link[l] = g.link[l]
      BY <1>1, DeleteEffect DEF Gone
    <2> HIDE DEF d
    <2>3. h = [vertex |-> Put(d.vertex, r.at, r.body), link |-> d.link]
      BY <2>1, <2>2
    <2> HIDE DEF h
    <2>4. h.vertex = Put(d.vertex, r.at, r.body) /\ h.link = d.link
      BY <2>3
    <2>5. DOMAIN h.vertex = DOMAIN g.vertex \cup {r.at}
      BY <2>2, <2>4 DEF Put
    <2> QED
      BY <1>1, <2>2, <2>3, <2>4, <2>5 DEF Effect, New, h, VertexOp
  <1>2. CASE r.op = "vertexUpdate"
    <2>1. PICK b : h = [g EXCEPT !.vertex = Put(@, r.at, b)]
      BY <1>2 DEF Apply, UpdateVertex
    <2>2. h = [vertex |-> Put(g.vertex, r.at, b), link |-> g.link]
      BY <2>1
    <2> HIDE DEF h
    <2>3. h.vertex = Put(g.vertex, r.at, b) /\ h.link = g.link
      BY <2>2
    <2>4. DOMAIN h.vertex = DOMAIN g.vertex \cup {r.at}
      BY <2>3 DEF Put
    <2> QED
      BY <1>2, <2>2, <2>3, <2>4 DEF Effect, New, Gone, h, VertexOp
  <1>3. CASE r.op = "vertexDelete"
    <2>1. h = DeleteVertex(g, r.at)
      BY <1>3 DEF Apply
    <2> QED
      BY <1>3, <2>1, DeleteEffect DEF Effect, New, Gone, VertexOp
  <1>4. CASE r.op \in {"linkCreate", "linkUpdate"}
    <2> DEFINE b == IF r.op = "linkUpdate" /\ r.at \in DOMAIN g.link
                    THEN Merged(g.link[r.at], r.body) ELSE r.body
    <2>1. h = [g EXCEPT !.link = Put(@, r.at, b)]
      BY <1>4 DEF Apply, CreateLink, UpdateLink
    <2> HIDE DEF b
    <2>2. h = [vertex |-> g.vertex, link |-> Put(g.link, r.at, b)]
      BY <2>1
    <2> HIDE DEF h
    <2>3. h.vertex = g.vertex /\ h.link = Put(g.link, r.at, b)
      BY <2>2
    <2>4. h.link[r.at] = b /\ DOMAIN h.link = DOMAIN g.link \cup {r.at}
      BY <2>3 DEF Put
    <2>5. \A l \in DOMAIN h.link \ {r.at} : h.link[l] = g.link[l]
      BY <2>3 DEF Put
    <2>6. /\ r.op = "linkCreate" => b = r.body
          /\ r.op = "linkUpdate" => b = IF r.at \in DOMAIN g.link THEN Merged(g.link[r.at], r.body)
                                        ELSE r.body
      BY DEF b
    <2> QED
      BY <1>4, <2>2, <2>3, <2>4, <2>5, <2>6 DEF Effect, New, Gone, h, VertexOp
  <1>5. CASE r.op = "linkDelete"
    <2>1. h = [g EXCEPT !.link = Without(@, {r.at})]
      BY <1>5 DEF Apply, DeleteLink
    <2>2. h = [vertex |-> g.vertex, link |-> Without(g.link, {r.at})]
      BY <2>1
    <2> HIDE DEF h
    <2>3. h.vertex = g.vertex /\ h.link = Without(g.link, {r.at})
      BY <2>2
    <2>4. /\ DOMAIN h.link = DOMAIN g.link \ {r.at}
          /\ \A l \in DOMAIN h.link : h.link[l] = g.link[l]
      BY <2>3 DEF Without, Restrict
    <2> QED
      BY <1>5, <2>2, <2>3, <2>4 DEF Effect, New, Gone, h, VertexOp
  <1> QED
    BY <1>1, <1>2, <1>3, <1>4, <1>5 DEF VertexOp, LinkOp

\* Requests of the right form leave a graph of types and objects.
LEMMA ApplyGraphOK ==
    ASSUME NEW g, GraphOK(g), NEW r, RequestOK(r)
    PROVE  GraphOK(Apply(g, r))
  <1> DEFINE h == Apply(g, r)
  <1>1. Effect(g, r, h)
    BY ApplyEffect DEF GraphOK, RequestOK
  <1> HIDE DEF h
  <1>2. DOMAIN h.link \subseteq LinkKey
    BY <1>1 DEF Effect, GraphOK, RequestOK, New, VertexOp, LinkOp
  <1>3. IsFiniteSet(DOMAIN h.link)
    <2>1. IsFiniteSet(DOMAIN g.link \cup {r.at})
      BY FS_AddElement DEF GraphOK
    <2>2. DOMAIN h.link \subseteq DOMAIN g.link \cup {r.at}
      BY <1>1 DEF Effect, New
    <2> QED
      BY <2>1, <2>2, FS_Subset
  <1>4. ASSUME NEW t \in Type, NEW u \in Type, <<t, "__type", u>> \in DOMAIN h.link
        PROVE  h.link[<<t, "__type", u>>].val \in LinkType \cup {None}
    <2> DEFINE l == <<t, "__type", u>>
    <2>1. CASE l \in New(r)
      <3>1. r.at = l /\ r.op \in {"linkCreate", "linkUpdate"}
        BY <2>1 DEF New
      <3>2. r.body.val \in LinkType \cup {None}
        BY <3>1 DEF RequestOK, IsTypesLink, VertexOp
      <3>3. r.at \in DOMAIN g.link => g.link[r.at].val \in LinkType \cup {None}
        BY <3>1 DEF GraphOK
      <3>4. r.at \in DOMAIN g.link => Merged(g.link[r.at], r.body).val \in LinkType \cup {None}
        BY <3>2, <3>3 DEF Merged
      <3> QED
        BY <1>1, <3>1, <3>2, <3>4 DEF Effect
    <2>2. CASE l \notin New(r)
      BY <1>1, <1>4, <2>2 DEF Effect, GraphOK
    <2> QED
      BY <2>1, <2>2
  <1> QED
    BY <1>1, <1>2, <1>3, <1>4 DEF GraphOK, Effect, h

\* What the creation of a vertex, and its deletion, do to the graph.
LEMMA VertexEffect ==
    ASSUME NEW r, NEW v, NEW b, Effect(graph, r, graph')
    PROVE  /\ r = VCreate(v, b) =>
                /\ V' = V \cup {v} /\ L' \subseteq L
                /\ \A l \in L \ L' : l[1] = v \/ l[3] = v
                /\ \A l \in L' : graph'.link[l] = graph.link[l]
           /\ r = VDelete(v) =>
                /\ V' = V \ {v} /\ L' = L \ Touching(graph, v)
                /\ \A l \in L' : graph'.link[l] = graph.link[l]
  <1>1. New(r) = {} \/ r.op \in LinkOp
    BY DEF New, LinkOp
  <1>2. ASSUME r = VCreate(v, b)
        PROVE  /\ V' = V \cup {v} /\ L' \subseteq L
               /\ \A l \in L \ L' : l[1] = v \/ l[3] = v
               /\ \A l \in L' : graph'.link[l] = graph.link[l]
    <2>1. r.op = "vertexCreate" /\ r.at = v
      BY <1>2 DEF VCreate
    <2>2. New(r) = {} /\ \A l \in Gone(graph, r) : l[1] = v \/ l[3] = v
      BY <1>1, <2>1 DEF LinkOp, Gone, Touching
    <2>3. V' = V \cup {v}
      BY <2>1 DEF Effect, VertexOp, V
    <2>4. L' = L \ Gone(graph, r) /\ \A l \in L' : graph'.link[l] = graph.link[l]
      BY <2>2 DEF Effect, L
    <2> QED
      BY <2>2, <2>3, <2>4
  <1>3. ASSUME r = VDelete(v)
        PROVE  /\ V' = V \ {v} /\ L' = L \ Touching(graph, v)
               /\ \A l \in L' : graph'.link[l] = graph.link[l]
    <2>1. r.op = "vertexDelete" /\ r.at = v
      BY <1>3 DEF VDelete
    <2>2. New(r) = {} /\ Gone(graph, r) = Touching(graph, v)
      BY <1>1, <2>1 DEF LinkOp, Gone
    <2>3. V' = V \ {v}
      BY <2>1 DEF Effect, V
    <2>4. L' = L \ Gone(graph, r) /\ \A l \in L' : graph'.link[l] = graph.link[l]
      BY <2>2 DEF Effect, L
    <2> QED
      BY <2>2, <2>3, <2>4
  <1> QED
    BY <1>2, <1>3

-----------------------------------------------------------------------------
(* Calls *)

TypeFn == {"type.create", "type.update", "type.delete"}
TypesLinkFn == {"types.link.create", "types.link.update", "types.link.delete"}
ObjectsLinkFn == {"objects.link.create", "objects.link.update", "objects.link.delete"}

\* What the calls of each function have for arguments.
LEMMA CallKinds ==
    ASSUME NEW c \in Calls
    PROVE  /\ c.prefix = << >> /\ c.body = Body(None)
           /\ \/ c.fn \in TypeFn /\ c.at \in Type /\ c.to = None /\ c.type = None
              \/ /\ c.fn \in TypesLinkFn /\ c.at \in Type /\ c.to \in Type /\ c.type = None
                 /\ c.lt \in LinkType
              \/ c.fn = "object.create" /\ c.at \in Object /\ c.type \in Type /\ c.to = None
              \/ c.fn = "object.update" /\ c.at \in Object /\ c.to = None /\ c.type = None
                 /\ c.mode = "merge"
              \/ c.fn = "object.delete" /\ c.at \in Object /\ c.to = None /\ c.type = None
              \/ c.fn \in ObjectsLinkFn /\ c.at \in Object /\ c.to \in Object /\ c.type = None
           /\ c.fn # "object.delete" => c.mode = "merge"
  <1>1. CASE c \in TypeCalls
    <2> DEFINE Plain(fn, t) == Call(fn, t)
               Link(fn, t, u, x) == [Call(fn, t) EXCEPT !.to = u, !.lt = x]
    <2>1. TypeCalls = {Plain(fn, t) : fn \in TypeFn, t \in Type}
                        \cup {Link(fn, t, u, x) : fn \in TypesLinkFn, t \in Type, u \in Type,
                                                 x \in LinkType}
      BY DEF TypeCalls, TypeFn, TypesLinkFn
    <2> HIDE DEF Plain, Link
    <2>2. CASE \E fn \in TypeFn, t \in Type : c = Plain(fn, t)
      BY <2>2 DEF Plain, Call, TypeFn
    <2>3. CASE \E fn \in TypesLinkFn, t \in Type, u \in Type, x \in LinkType : c = Link(fn, t, u, x)
      BY <2>3 DEF Link, Call, TypesLinkFn
    <2> QED
      BY <1>1, <2>1, <2>2, <2>3
  <1>2. CASE c \in ObjectCreations
    <2>1. PICK o \in Object, t \in Type : c = [Call("object.create", o) EXCEPT !.type = t]
      BY <1>2 DEF ObjectCreations
    <2> QED
      BY <2>1 DEF Call
  <1>3. CASE c \in ObjectDeletions
    <2>1. PICK o \in Object, m \in {"vertex", "cascade"} :
                 c = [Call("object.delete", o) EXCEPT !.mode = m]
      BY <1>3 DEF ObjectDeletions
    <2> QED
      BY <2>1 DEF Call
  <1>4. CASE c \in ObjectUpdates
    BY <1>4 DEF ObjectUpdates, Call
  <1>5. CASE c \in ObjectLinkCalls
    <2>1. PICK fn \in ObjectsLinkFn, o \in Object, q \in Object :
                 c = [Call(fn, o) EXCEPT !.to = q]
      BY <1>5 DEF ObjectLinkCalls, ObjectsLinkFn
    <2> QED
      BY <2>1 DEF Call, ObjectsLinkFn
  <1> QED
    BY <1>1, <1>2, <1>3, <1>4, <1>5 DEF Calls

\* The next request of a call, and what is left then.
NextRequest(c, S, todo, r, rest) ==
    \/ /\ c.fn = "type.create" /\ r = VCreate(c.at, Blank)
       /\ rest = <<Listing(c.at)>> /\ Len(todo) = 2 /\ Len(rest) = 1
    \/ c.fn = "type.create" /\ r = Listing(c.at) /\ rest = << >> /\ Len(todo) = 1
    \/ c.fn \in {"type.update", "object.update"} /\ r = VUpdate(c.at, Blank, "merge") /\ rest = << >>
    \/ c.fn = "types.link.create" /\ r = LCreate(Between(c.at, c.to), Body(c.lt)) /\ rest = << >>
    \/ c.fn = "types.link.update" /\ r = LUpdate(Between(c.at, c.to), Body(c.lt)) /\ rest = << >>
    \/ /\ c.fn = "object.create"
       /\ \/ r = VCreate(c.at, Blank) /\ Len(todo) = 4 /\ Len(rest) = 3
          \/ r = LCreate(First(c.at), Blank) /\ Len(todo) = 3 /\ Len(rest) = 2
          \/ r = LCreate(Second(c.at, c.type), Blank) /\ Len(todo) = 2 /\ Len(rest) = 1
          \/ r = LCreate(Third(c.at, c.type), Blank) /\ Len(todo) = 1 /\ Len(rest) = 0
    \/ /\ c.fn = "object.delete" /\ rest = << >>
       /\ \E v \in IF IsCascade(c) THEN S ELSE {c.at} : r = VDelete(v)
    \/ /\ c.fn \in ObjectsLinkFn /\ rest = << >>
       /\ \E x \in LinkType :
            \/ /\ c.fn \in LinkFn
               /\ r \in {LCreate(<<c.at, x, c.to>>, Blank), LUpdate(<<c.at, x, c.to>>, Blank)}
            \/ c.fn = "objects.link.delete" /\ r = LDelete(<<c.at, x, c.to>>)

\* Sequences of one request.
LEMMA Single ==
    ASSUME NEW a
    PROVE  <<a>> # << >> /\ Head(<<a>>) = a /\ <<a>>[1] = a /\ Tail(<<a>>) = << >> /\ Len(<<a>>) = 1
  OBVIOUS

\* The requests of a call come in the order in which they were planned.
LEMMA RequestKinds ==
    ASSUME NEW c, NEW S, NEW todo \in Todos(c, S)
    PROVE  /\ todo # << >> /\ Head(todo) = todo[1]
           /\ NextRequest(c, S, todo, Head(todo), Tail(todo))
           /\ Tail(todo) \in Todos(c, S) \cup {<< >>}
  <1> DEFINE one == LCreate(First(c.at), Blank)
             two == LCreate(Second(c.at, c.type), Blank)
             three == LCreate(Third(c.at, c.type), Blank)
  <1>1. CASE c.fn = "type.create"
    <2> DEFINE a == VCreate(c.at, Blank)
               b == Listing(c.at)
    <2>1. Todos(c, S) = {<<a, b>>, <<b>>}
      BY <1>1 DEF Todos
    <2> HIDE DEF a, b
    <2>2. CASE todo = <<a, b>>
      <3>1. todo # << >> /\ Head(todo) = a /\ todo[1] = a /\ Tail(todo) = <<b>> /\ Len(todo) = 2
        BY <2>2
      <3> QED
        BY <1>1, <2>1, <3>1, Single DEF NextRequest, a, b
    <2>3. CASE todo = <<b>>
      <3>1. todo # << >> /\ Head(todo) = b /\ todo[1] = b /\ Tail(todo) = << >> /\ Len(todo) = 1
        BY <2>3
      <3> QED
        BY <1>1, <2>1, <3>1 DEF NextRequest, b
    <2> QED
      BY <2>1, <2>2, <2>3
  <1>2. CASE c.fn \in {"type.update", "object.update"}
    <2>1. todo = <<VUpdate(c.at, Blank, "merge")>>
      BY <1>2 DEF Todos
    <2> QED
      BY <1>2, <2>1, Single DEF NextRequest
  <1>3. CASE c.fn = "types.link.create"
    <2>1. todo = <<LCreate(Between(c.at, c.to), Body(c.lt))>>
      BY <1>3 DEF Todos
    <2> QED
      BY <1>3, <2>1, Single DEF NextRequest
  <1>3a. CASE c.fn = "types.link.update"
    <2>1. todo = <<LUpdate(Between(c.at, c.to), Body(c.lt))>>
      BY <1>3a DEF Todos
    <2> QED
      BY <1>3a, <2>1, Single DEF NextRequest
  <1>4. CASE c.fn = "object.create"
    <2> DEFINE all == {<<VCreate(c.at, Blank), one, two, three>>, <<one, two, three>>, <<two, three>>,
                       <<three>>}
    <2>1. Todos(c, S) = all
      BY <1>4 DEF Todos
    <2> HIDE DEF one, two, three
    <2>2. CASE todo = <<VCreate(c.at, Blank), one, two, three>>
      <3>1. Head(todo) = VCreate(c.at, Blank) /\ Tail(todo) = <<one, two, three>> /\ Len(todo) = 4
           /\ todo # << >> /\ todo[1] = Head(todo) /\ Len(Tail(todo)) = 3
        BY <2>2
      <3> QED
        BY <1>4, <2>1, <2>2, <3>1 DEF NextRequest
    <2>3. CASE todo = <<one, two, three>>
      <3>1. Head(todo) = one /\ Tail(todo) = <<two, three>> /\ Len(todo) = 3
           /\ todo # << >> /\ todo[1] = Head(todo) /\ Len(Tail(todo)) = 2
        BY <2>3
      <3> QED
        BY <1>4, <2>1, <2>3, <3>1 DEF NextRequest, one
    <2>4. CASE todo = <<two, three>>
      <3>1. Head(todo) = two /\ Tail(todo) = <<three>> /\ Len(todo) = 2
           /\ todo # << >> /\ todo[1] = Head(todo) /\ Len(Tail(todo)) = 1
        BY <2>4
      <3> QED
        BY <1>4, <2>1, <2>4, <3>1 DEF NextRequest, two
    <2>5. CASE todo = <<three>>
      <3>1. Head(todo) = three /\ Tail(todo) = << >> /\ Len(todo) = 1
           /\ todo # << >> /\ todo[1] = Head(todo) /\ Len(Tail(todo)) = 0
        BY <2>5
      <3> QED
        BY <1>4, <2>1, <2>5, <3>1 DEF NextRequest, three
    <2> QED
      BY <2>1, <2>2, <2>3, <2>4, <2>5
  <1>5. CASE c.fn = "object.delete"
    <2>1. PICK v \in IF IsCascade(c) THEN S ELSE {c.at} : todo = <<VDelete(v)>>
      BY <1>5 DEF Todos
    <2> QED
      BY <1>5, <2>1, Single DEF NextRequest
  <1>6. CASE c.fn \in ObjectsLinkFn
    <2>0. PICK x \in LinkType :
             \/ c.fn = "objects.link.create" /\ todo = <<LCreate(<<c.at, x, c.to>>, Blank)>>
             \/ c.fn = "objects.link.update" /\ todo = <<LUpdate(<<c.at, x, c.to>>, Blank)>>
             \/ c.fn = "objects.link.delete" /\ todo = <<LDelete(<<c.at, x, c.to>>)>>
      BY <1>6 DEF Todos, ObjectsLinkFn
    <2>1. PICK r :
             /\ todo = <<r>>
             /\ \/ c.fn = "objects.link.create" /\ r = LCreate(<<c.at, x, c.to>>, Blank)
                \/ c.fn = "objects.link.update" /\ r = LUpdate(<<c.at, x, c.to>>, Blank)
                \/ c.fn = "objects.link.delete" /\ r = LDelete(<<c.at, x, c.to>>)
      BY <2>0
    <2>2. c.fn \in LinkFn \/ c.fn = "objects.link.delete"
      BY <2>1 DEF LinkFn
    <2>3. todo # << >> /\ Head(todo) = r /\ todo[1] = r /\ Tail(todo) = << >>
      BY <2>1, Single
    <2> QED
      BY <1>6, <2>1, <2>2, <2>3 DEF NextRequest, LinkFn
  <1> QED
    BY <1>1, <1>2, <1>3, <1>3a, <1>4, <1>5, <1>6 DEF Todos, ObjectsLinkFn

-----------------------------------------------------------------------------
(* What a step leaves alone *)

\* A step changes nothing of the types and objects outside X, except that the
\* links between an object and others may go.
Quiet(X) ==
    /\ \A v \in (Type \cup Object) \ X : v \in V' <=> v \in V
    /\ \A o \in Object \ X : /\ L' \cap Structure(o) = L \cap Structure(o)
                             /\ Touching(graph', o) \subseteq Touching(graph, o)
                             /\ o \in bare => o \in bare'
    /\ \A t \in Type \ X : InList(t) \in L' <=> InList(t) \in L
    /\ \A t, u \in Type \ X :
         /\ Between(t, u) \in L' <=> Between(t, u) \in L
         /\ Between(t, u) \in L => graph'.link[Between(t, u)] = graph.link[Between(t, u)]

\* A request about ids of X is quiet outside X.
LEMMA ApplyQuiet ==
    ASSUME NEW r, RequestOK(r), GraphOK(graph), graph' = Apply(graph, r), bare' = Bare(r),
           NEW X,
           r.op \in VertexOp => r.at \in X,
           r.op \in LinkOp => /\ {r.at[1], r.at[3]} \cap Object \subseteq X
                              /\ {r.at[1], r.at[3]} \cap X \cap (Type \cup Object) # {},
           r.op \in {"vertexCreate", "vertexDelete"} =>
             \A o \in Object \ X : Touching(graph, r.at) \cap Structure(o) = {}
    PROVE  Quiet(X)
  <1>1. Effect(graph, r, graph')
    BY ApplyEffect DEF GraphOK, RequestOK
  <1>2. r.op \in VertexOp \/ (r.op \in LinkOp /\ r.at \in LinkKey)
    BY DEF RequestOK
  <1>3. ASSUME NEW v \in (Type \cup Object) \ X
        PROVE  v \in V' <=> v \in V
    BY <1>1, <1>2 DEF Effect, V, VertexOp, LinkOp
  <1>4. L' = (L \ Gone(graph, r)) \cup New(r)
    BY <1>1 DEF Effect, L
  <1>5. \A l \in New(r) : l = r.at /\ r.op \in LinkOp
    BY DEF New, LinkOp
  <1>6. \A l \in Gone(graph, r) :
            \/ r.op \in {"vertexCreate", "vertexDelete"} /\ l \in Touching(graph, r.at)
            \/ r.op \in LinkOp /\ l = r.at
    BY DEF Gone, LinkOp
  <1>7. ASSUME NEW o \in Object \ X
        PROVE  /\ L' \cap Structure(o) = L \cap Structure(o)
               /\ Touching(graph', o) \subseteq Touching(graph, o)
               /\ o \in bare => o \in bare'
    <2>0. o \in bare => o \in bare'
      BY DEF Bare, VertexOp
    <2>1. r.op \in LinkOp => r.at[1] # o /\ r.at[3] # o
      OBVIOUS
    <2>2. r.op \in LinkOp => r.at \notin Structure(o)
      BY <2>1, StructureLinks
    <2>3. L' \cap Structure(o) = L \cap Structure(o)
      BY <1>4, <1>5, <1>6, <2>2
    <2>4. \A l \in L' : l[1] = o \/ l[3] = o => l \in L
      BY <1>4, <1>5, <2>1
    <2> QED
      BY <2>0, <2>3, <2>4 DEF Touching, L
  <1>8. ASSUME NEW t \in Type \ X
        PROVE  InList(t) \in L' <=> InList(t) \in L
    <2>1. InList(t)[1] = types /\ InList(t)[3] = t
      BY DEF InList
    <2>2. r.op \in LinkOp => r.at # InList(t)
      BY <2>1, Ids
    <2>3. ASSUME r.op \in {"vertexCreate", "vertexDelete"}
          PROVE  InList(t) \notin Touching(graph, r.at)
      <3>1. r.at # t /\ r.at # types
        BY <1>2, <2>3, Ids DEF VertexOp, RequestOK, LinkOp
      <3> QED
        BY <2>1, <3>1 DEF Touching
    <2> QED
      BY <1>4, <1>5, <1>6, <2>2, <2>3
  <1>9. ASSUME NEW t \in Type \ X, NEW u \in Type \ X
        PROVE  /\ Between(t, u) \in L' <=> Between(t, u) \in L
               /\ Between(t, u) \in L => graph'.link[Between(t, u)] = graph.link[Between(t, u)]
    <2>1. Between(t, u)[1] = t /\ Between(t, u)[3] = u
      BY DEF Between
    <2>2. r.op \in LinkOp => r.at # Between(t, u)
      BY <2>1
    <2>3. Between(t, u) \in L' <=> Between(t, u) \in L
      BY <1>4, <1>5, <1>6, <2>1, <2>2 DEF Touching, VertexOp
    <2>4. Between(t, u) \notin New(r)
      BY <1>5, <2>2
    <2> QED
      BY <1>1, <2>3, <2>4 DEF Effect, L
  <1> QED
    BY <1>3, <1>7, <1>8, <1>9 DEF Quiet

-----------------------------------------------------------------------------
(* A step that is about X, and leaves the handlers K as they are *)

MakerOf(h, t) == h.call.fn = "object.create" /\ h.call.type = t

Frame(X, K) ==
    /\ Quiet(X)
    /\ Loose \subseteq Loose' /\ Loose' \subseteq X
    /\ K \subseteq DOMAIN handler /\ K \subseteq DOMAIN handler'
    /\ \A m \in K : handler'[m] = handler[m]
    /\ \A m \in DOMAIN handler \ K : handler[m].call.at \in X
    /\ \A m \in DOMAIN handler' \ K : handler'[m].call.at \in X

\* The other handlers are about other ids, or those do not count.
Distinct(X, K) ==
    \A m \in K : /\ About(handler[m].call) \cap X \subseteq Loose'
                 /\ Alone(handler[m].call) => X \subseteq Loose'

\* A type that somebody needs stays.
TypesStay(X, K) ==
    \A t \in Type : TypeThere(t) =>
        \/ TypeThere(t)'
        \/ /\ \A o \in Object \ X : Second(o, t) \notin L
           /\ \A m \in K : ~ MakerOf(handler[m], t)

\* A link between types that somebody needs stays.
LinksStay(X, K) ==
    \A t, u \in Type \ Loose' : \A x \in LinkType : \A o, q \in Object \ Loose :
        /\ HasLink(t, u, x) /\ Second(o, t) \in L /\ Second(q, u) \in L
        /\ <<o, x, q>> \in L \/ K # {}
        => HasLink(t, u, x)'

\* Nobody is creating a type that an object gets.
NewTypes(K) ==
    \A o \in Object \ Loose' : \A t \in Type :
        (Second(o, t) \in L' /\ Second(o, t) \notin L) \/ (Third(o, t) \in L' /\ Third(o, t) \notin L)
        => \A m \in K : ~ Creates(handler[m].call, t)

\* An object outside X keeps its type.
LEMMA TypedStays ==
    ASSUME NEW X, NEW K, Frame(X, K), TypesStay(X, K),
           NEW o \in Object \ X, NEW t \in Type, Typed(o, t)
    PROVE  Typed(o, t)'
  <1>1. Second(o, t) \in L
    BY DEF Typed
  <1>2. TypeThere(t)'
    BY <1>1 DEF Typed, TypesStay
  <1>3. o \in V'
    BY DEF Typed, Frame, Quiet
  <1>4. L' \cap Structure(o) = {First(o), Second(o, t), Third(o, t)}
    BY DEF Typed, Frame, Quiet
  <1> QED
    BY <1>2, <1>3, <1>4 DEF Typed

\* What is said of an object outside X, whole, absent or half made, stays true.
LEMMA ObjectStays ==
    ASSUME NEW X, NEW K, Frame(X, K), TypesStay(X, K), TypeOK,
           NEW o \in Object \ X, ObjectOK(o)
    PROVE  ObjectOK(o)'
  <1>1. CASE \E n \in DOMAIN handler : Maker(o, n)
    <2> SUFFICES ASSUME NEW m \in DOMAIN handler', Maker(o, m)'
                 PROVE  Made(o, handler[m].call.type, Len(handler[m].todo))'
      BY <1>1 DEF ObjectOK, Maker, Frame
    <2>1. m \in K /\ m \in DOMAIN handler /\ handler'[m] = handler[m]
      BY DEF Frame, Maker
    <2>2. Maker(o, m)
      BY <2>1 DEF Maker
    <2>3. PICK t, k : t = handler[m].call.type /\ k = Len(handler[m].todo)
      OBVIOUS
    <2>4. MakerOf(handler[m], t)
      BY <2>2, <2>3 DEF Maker, MakerOf
    <2>5. t \in Type
      BY <2>1, <2>3, <2>4, CallKinds DEF TypeOK, HandlerOK, MakerOf, TypeFn, TypesLinkFn, ObjectsLinkFn
    <2>6. Made(o, t, k)
      BY <1>1, <2>1, <2>2, <2>3 DEF ObjectOK
    <2>7. TypeThere(t)'
      BY <2>1, <2>4, <2>5, <2>6 DEF Made, TypesStay
    <2>8. k \in {0, 1, 2, 3} => o \in V'
      BY <2>6 DEF Made, Frame, Quiet
    <2>9. Done(o, t, k) \subseteq Structure(o)
      BY <2>5 DEF Done, Structure
    <2>10. Touching(graph', o) = Done(o, t, k)
      BY <2>6, <2>9, StructureLinks DEF Made, Frame, Quiet, Touching, L
    <2>11. Made(o, t, k)'
      BY <2>7, <2>8, <2>10 DEF Made
    <2> QED
      BY <2>1, <2>3, <2>11
  <1>2. CASE ~ \E n \in DOMAIN handler : Maker(o, n)
    <2>1. ~ \E n \in DOMAIN handler' : Maker(o, n)'
      BY <1>2 DEF Frame, Maker
    <2>2. CASE IsWhole(o)
      BY <2>1, <2>2, TypedStays DEF ObjectOK, IsWhole
    <2>3. CASE IsUnmade(o)
      <3>1. Touching(graph', o) = {} /\ (o \in V' => o \in bare')
        BY <2>3 DEF IsUnmade, Frame, Quiet
      <3> QED
        BY <2>1, <3>1 DEF ObjectOK, IsUnmade
    <2> QED
      BY <1>2, <2>2, <2>3 DEF ObjectOK
  <1> QED
    BY <1>1, <1>2

\* What a handler of K relies on stays true.
LEMMA RelyStays ==
    ASSUME NEW X, NEW K, Frame(X, K), Distinct(X, K), TypesStay(X, K), LinksStay(X, K), NewTypes(K),
           TypeOK, NEW m \in K, Relies(handler[m])
    PROVE  Relies(handler[m])'
  <1>1. PICK h : h = handler[m]
    OBVIOUS
  <1>2. h = handler'[m] /\ HandlerOK(h) /\ Relies(h) /\ h.call \in Calls
    BY <1>1 DEF Frame, TypeOK, HandlerOK
  <1> DEFINE at == h.call.at
             to == h.call.to
             busy == h.todo # << >>
             free == {at, to} \cap Loose' = {}
  <1>3. \A v \in About(h.call) : v \notin Loose' => v \notin X /\ v \notin Loose
    BY <1>1 DEF Distinct, Frame
  <1>4. at \in About(h.call) /\ (to # None => to \in About(h.call))
    BY DEF About
  <1>5. CreatesUnused(h)'
    <2> SUFFICES ASSUME h.call.fn = "type.create", Len(h.todo) = 2, NEW o \in Object \ Loose'
                 PROVE  Second(o, at) \notin L' /\ Third(o, at) \notin L'
      BY DEF CreatesUnused
    <2>1. at \in Type
      BY <1>2, CallKinds DEF TypesLinkFn, ObjectsLinkFn
    <2>2. Second(o, at) \notin L /\ Third(o, at) \notin L
      BY <1>2 DEF Relies, CreatesUnused, Frame
    <2>3. Creates(handler[m].call, at)
      BY <1>1 DEF Creates
    <2> QED
      BY <2>1, <2>2, <2>3 DEF NewTypes
  <1>6. ListsThere(h)'
    <2> SUFFICES ASSUME h.call.fn = "type.create", Len(h.todo) = 1
                 PROVE  at \in Loose' \/ at \in V'
      BY DEF ListsThere
    <2>1. at \in Type
      BY <1>2, CallKinds DEF TypesLinkFn, ObjectsLinkFn
    <2>2. at \in Loose \/ at \in V
      BY <1>2 DEF Relies, ListsThere
    <2> QED
      BY <1>3, <1>4, <2>1, <2>2 DEF Frame, Quiet
  <1>7. LinksUnlinked(h)'
    <2> SUFFICES ASSUME h.call.fn = "types.link.create", h.todo # << >>, {at, to} \cap Loose' = {}
                 PROVE  Between(at, to) \notin L'
      BY DEF LinksUnlinked
    <2>1. at \in Type /\ to \in Type /\ to # None
      BY <1>2, CallKinds, Ids DEF TypeFn, ObjectsLinkFn
    <2>2. {at, to} \cap X = {} /\ {at, to} \cap Loose = {}
      BY <1>3, <1>4, <2>1
    <2>3. Between(at, to) \notin L
      BY <1>2, <2>2 DEF Relies, LinksUnlinked
    <2> QED
      BY <2>1, <2>2, <2>3 DEF Frame, Quiet
  <1>8. ChangesUnused(h)'
    <2> SUFFICES ASSUME h.call.fn = "types.link.update", h.todo # << >>, {at, to} \cap Loose' = {},
                        NEW o \in Object \ Loose', NEW q \in Object \ Loose',
                        NEW x \in LinkType, Linked(o, q, at, to, x)'
                 PROVE  FALSE
      BY DEF ChangesUnused
    <2>1. at \in Type /\ to \in Type /\ to # None
      BY <1>2, CallKinds, Ids DEF TypeFn, ObjectsLinkFn
    <2>2. X \subseteq Loose'
      BY <1>1 DEF Distinct, Alone
    <2>3. Second(o, at) \in L /\ Second(q, to) \in L
      BY <2>1, <2>2, LinksOfObjects DEF Linked, Frame, Quiet
    <2>4. <<o, x, q>> \in L
      <3>1. <<o, x, q>> \in Touching(graph', o)
        BY DEF Linked, Touching, L
      <3> QED
        BY <3>1, <2>2 DEF Frame, Quiet, Touching, L
    <2>5. Linked(o, q, at, to, x) /\ {at, to} \cap Loose = {}
      BY <2>3, <2>4 DEF Linked, Frame
    <2> QED
      BY <1>2, <2>5 DEF Relies, ChangesUnused, Frame
  <1>10. LinksWhole(h)'
    <2> SUFFICES ASSUME h.call.fn \in LinkFn, h.todo # << >>, NEW o \in {at, to} \ Loose'
                 PROVE  IsWhole(o)'
      BY DEF LinksWhole
    <2>1. at \in Object /\ to \in Object /\ to # None
      BY <1>2, CallKinds, Ids DEF TypeFn, TypesLinkFn, LinkFn
    <2>2. o \notin X /\ o \notin Loose
      BY <1>3, <1>4, <2>1
    <2>3. PICK t \in Type : Typed(o, t)
      BY <1>2, <2>2 DEF Relies, LinksWhole, IsWhole
    <2> QED
      BY <2>1, <2>2, <2>3, TypedStays DEF IsWhole
  <1>11. LinksAsTyped(h)'
    <2> DEFINE x == h.todo[1].at[2]
    <2> SUFFICES ASSUME h.call.fn \in LinkFn, h.todo # << >>, {at, to} \cap Loose' = {},
                        NEW t \in Type \ Loose', NEW u \in Type \ Loose',
                        Second(at, t) \in L', Second(to, u) \in L'
                 PROVE  HasLink(t, u, x)'
      BY DEF LinksAsTyped
    <2>1. at \in Object /\ to \in Object /\ to # None
      BY <1>2, CallKinds, Ids DEF TypeFn, TypesLinkFn, LinkFn
    <2>2. at \notin X /\ to \notin X /\ {at, to} \cap Loose = {}
      BY <1>3, <1>4, <2>1
    <2>3. Second(at, t) \in L /\ Second(to, u) \in L
      BY <2>1, <2>2, LinksOfObjects DEF Frame, Quiet
    <2>4. t \notin Loose /\ u \notin Loose
      BY DEF Frame
    <2>5. HasLink(t, u, x)
      BY <1>2, <2>2, <2>3, <2>4 DEF Relies, LinksAsTyped
    <2>6. x \in LinkType
      <3>1. h.todo \in Todos(h.call, h.seen)
        BY <1>2 DEF HandlerOK
      <3>2. NextRequest(h.call, h.seen, h.todo, h.todo[1], Tail(h.todo))
        BY <3>1, RequestKinds
      <3>3. PICK y \in LinkType :
                 h.todo[1] \in {LCreate(<<at, y, to>>, Blank), LUpdate(<<at, y, to>>, Blank)}
        BY <3>2 DEF NextRequest, LinkFn, ObjectsLinkFn
      <3>4. h.todo[1].at = <<at, y, to>>
        BY <3>3 DEF LCreate, LUpdate
      <3> QED
        BY <3>4
    <2> HIDE DEF x
    <2> QED
      BY <2>1, <2>2, <2>3, <2>5, <2>6 DEF LinksStay
  <1>12. CascadesFound(h)'
    <2> SUFFICES ASSUME IsCascade(h.call)
                 PROVE  /\ at \in h.seen
                        /\ h.todo # << >> => \A o \in Object \ Loose' : Third(o, h.todo[1].at) \notin L'
      BY DEF CascadesFound
    <2>1. X \subseteq Loose'
      BY <1>1 DEF Distinct, Alone
    <2>2. at \in h.seen
      BY <1>2 DEF Relies, CascadesFound
    <2>3. ASSUME h.todo # << >>, NEW o \in Object \ Loose'
          PROVE  Third(o, h.todo[1].at) \notin L'
      <3>1. Third(o, h.todo[1].at) \notin L
        BY <1>2, <2>3 DEF Relies, CascadesFound, Frame
      <3>2. Third(o, h.todo[1].at)[3] = o
        BY DEF Third
      <3> QED
        BY <2>1, <2>3, <3>1, <3>2 DEF Frame, Quiet, Touching, L
    <2> QED
      BY <2>2, <2>3
  <1>13. Relies(h)'
    BY <1>5, <1>6, <1>7, <1>8, <1>10, <1>11, <1>12 DEF Relies
  <1> QED
    BY <1>1, <1>2, <1>13

\* What a step about X has to see to.
Settled(X, K) ==
    /\ \A o \in (Object \cap X) \ Loose' : ObjectOK(o)'
    /\ \A t \in (Type \cap X) \ Loose' : InList(t) \in L' => t \in V'
    /\ \A m \in DOMAIN handler' \ K : Relies(handler[m])'

\* Links that come to count are declared.
NewLinks ==
    \A o, q \in Object \ Loose' : \A t, u \in Type \ Loose' : \A x \in LinkType :
        Linked(o, q, t, u, x)' => Linked(o, q, t, u, x) \/ HasLink(t, u, x)'

\* The step leaves Main true, if it has seen to X.
LEMMA MainStays ==
    ASSUME TypeOK, Main, NEW X, NEW K, Frame(X, K), Distinct(X, K), TypesStay(X, K),
           LinksStay(X, K), NewTypes(K), NewLinks, Settled(X, K)
    PROVE  Main'
  <1>1. ASSUME NEW o \in Object \ Loose'
        PROVE  ObjectOK(o)'
    <2>1. o \notin X => ObjectOK(o)
      BY DEF Main, Frame
    <2> QED
      BY <2>1, ObjectStays DEF Settled
  <1>2. TypesThere'
    <2> SUFFICES ASSUME NEW t \in Type \ Loose', InList(t) \in L'
                 PROVE  t \in V'
      BY DEF TypesThere
    <2>1. CASE t \in X
      BY <2>1 DEF Settled
    <2>2. CASE t \notin X
      BY <2>2 DEF Main, TypesThere, Frame, Quiet
    <2> QED
      BY <2>1, <2>2
  <1>3. Declared'
    <2> SUFFICES ASSUME NEW o \in Object \ Loose', NEW q \in Object \ Loose',
                        NEW t \in Type \ Loose', NEW u \in Type \ Loose', NEW x \in LinkType,
                        Linked(o, q, t, u, x)'
                 PROVE  HasLink(t, u, x)'
      BY DEF Declared
    <2>1. CASE Linked(o, q, t, u, x)
      <3>1. o \notin Loose /\ q \notin Loose /\ t \notin Loose /\ u \notin Loose
        BY DEF Frame
      <3>2. HasLink(t, u, x)
        BY <2>1, <3>1 DEF Main, Declared
      <3> QED
        BY <2>1, <3>1, <3>2 DEF LinksStay, Linked
    <2> QED
      BY <2>1 DEF NewLinks
  <1>4. ASSUME NEW m \in DOMAIN handler'
        PROVE  Relies(handler[m])'
    <2>1. CASE m \in K
      <3>1. Relies(handler[m])
        BY <2>1 DEF Main, Frame
      <3> QED
        BY <2>1, <3>1, RelyStays
    <2>2. CASE m \notin K
      BY <2>2 DEF Settled
    <2> QED
      BY <2>1, <2>2
  <1> QED
    BY <1>1, <1>2, <1>3, <1>4 DEF Main

\* A step that is about nothing that counts.
LEMMA SteadyStep ==
    ASSUME TypeOK, Main, NEW K, Frame(Loose', K),
           \A m \in DOMAIN handler' \ K : Relies(handler[m])'
    PROVE  Main'
  <1>1. PICK X : X = Loose'
    OBVIOUS
  <1>2. Frame(X, K) /\ Loose \subseteq X
    BY <1>1 DEF Frame
  <1>3. Distinct(X, K)
    BY <1>1 DEF Distinct
  <1>4. TypesStay(X, K)
    <2> SUFFICES ASSUME NEW t \in Type, TypeThere(t)
                 PROVE  TypeThere(t)'
      BY DEF TypesStay
    <2> QED
      BY <1>1, <1>2 DEF TypeThere, Frame, Quiet
  <1>5. ASSUME NEW o \in Object \ Loose', NEW t \in Type
        PROVE  (Second(o, t) \in L' <=> Second(o, t) \in L) /\ (Third(o, t) \in L' <=> Third(o, t) \in L)
    BY <1>1, <1>2, LinksOfObjects DEF Frame, Quiet
  <1>6. NewTypes(K)
    BY <1>5 DEF NewTypes
  <1>7. LinksStay(X, K)
    BY <1>1, <1>2 DEF LinksStay, HasLink, Frame, Quiet
  <1>8. NewLinks
    <2> SUFFICES ASSUME NEW o \in Object \ Loose', NEW q \in Object \ Loose',
                        NEW t \in Type, NEW u \in Type, NEW x \in LinkType,
                        Linked(o, q, t, u, x)'
                 PROVE  Linked(o, q, t, u, x)
      BY DEF NewLinks
    <2>1. <<o, x, q>> \in Touching(graph', o)
      BY DEF Linked, Touching, L
    <2>2. <<o, x, q>> \in L
      BY <1>1, <1>2, <2>1 DEF Frame, Quiet, Touching, L
    <2> QED
      BY <1>5, <2>2 DEF Linked
  <1>9. Settled(X, K)
    BY <1>1 DEF Settled
  <1> QED
    BY <1>2, <1>3, <1>4, <1>6, <1>7, <1>8, <1>9, MainStays

-----------------------------------------------------------------------------
(* How handlers go on *)

\* The next request of a handler is of the right form.
LEMMA NextOK ==
    ASSUME NEW h, HandlerOK(h), h.todo # << >>
    PROVE  /\ h.todo \in Todos(h.call, h.seen) /\ Head(h.todo) = h.todo[1]
           /\ NextRequest(h.call, h.seen, h.todo, Head(h.todo), Tail(h.todo))
           /\ Tail(h.todo) \in Todos(h.call, h.seen) \cup {<< >>}
           /\ RequestOK(Head(h.todo))
  <1> DEFINE c == h.call
             r == Head(h.todo)
  <1>1. h.todo \in Todos(c, h.seen) /\ c \in Calls
    BY DEF HandlerOK
  <1>2. NextRequest(c, h.seen, h.todo, r, Tail(h.todo))
    BY <1>1, RequestKinds
  <1>3. RequestOK(r)
    <2>1. CASE c.fn = "type.create"
      <3>1. c.at \in Type
        BY <1>1, <2>1, CallKinds DEF TypesLinkFn, ObjectsLinkFn
      <3>2. r = VCreate(c.at, Blank) \/ r = Listing(c.at)
        BY <1>2, <2>1 DEF NextRequest, ObjectsLinkFn
      <3>3. InList(c.at) \in LinkKey /\ InList(c.at)[1] = types
        BY <3>1 DEF InList, LinkKey
      <3> QED
        BY <3>1, <3>2, <3>3, Ids DEF RequestOK, VCreate, Listing, LCreate, VertexOp, LinkOp, IsTypesLink
    <2>2. CASE c.fn \in {"type.update", "object.update"}
      <3>1. c.at \in Type \cup Object
        BY <1>1, <2>2, CallKinds
      <3>2. r = VUpdate(c.at, Blank, "merge")
        BY <1>2, <2>2 DEF NextRequest, ObjectsLinkFn
      <3> QED
        BY <3>1, <3>2 DEF RequestOK, VUpdate, VertexOp
    <2>3. CASE c.fn \in {"types.link.create", "types.link.update"}
      <3>1. c.at \in Type /\ c.to \in Type /\ c.lt \in LinkType
        BY <1>1, <2>3, CallKinds DEF TypeFn, ObjectsLinkFn
      <3>2. r \in {LCreate(Between(c.at, c.to), Body(c.lt)), LUpdate(Between(c.at, c.to), Body(c.lt))}
        BY <1>2, <2>3 DEF NextRequest, ObjectsLinkFn
      <3>3. Between(c.at, c.to) \in LinkKey
        BY <3>1 DEF Between, LinkKey
      <3> QED
        BY <3>1, <3>2, <3>3 DEF RequestOK, LCreate, LUpdate, LinkOp, Body
    <2>4. CASE c.fn = "object.create"
      <3>1. c.at \in Object /\ c.type \in Type
        BY <1>1, <2>4, CallKinds DEF TypeFn, TypesLinkFn, ObjectsLinkFn
      <3>2. \/ r = VCreate(c.at, Blank)
            \/ \E l \in {First(c.at), Second(c.at, c.type), Third(c.at, c.type)} : r = LCreate(l, Blank)
        BY <1>2, <2>4 DEF NextRequest, ObjectsLinkFn
      <3>3. \A l \in {First(c.at), Second(c.at, c.type), Third(c.at, c.type)} :
               l \in LinkKey /\ ~ IsTypesLink(l)
        BY <3>1, LinksOfObjects, Ids DEF IsTypesLink
      <3> QED
        BY <3>1, <3>2, <3>3 DEF RequestOK, VCreate, LCreate, VertexOp, LinkOp
    <2>5. CASE c.fn = "object.delete"
      <3>1. PICK v \in IF IsCascade(c) THEN h.seen ELSE {c.at} : r = VDelete(v)
        BY <1>2, <2>5 DEF NextRequest, ObjectsLinkFn
      <3>2. v \in Type \cup Object
        BY <1>1, <2>5, <3>1, CallKinds DEF HandlerOK
      <3> QED
        BY <3>1, <3>2 DEF RequestOK, VDelete, VertexOp
    <2>6. CASE c.fn \in ObjectsLinkFn
      <3>1. c.at \in Object /\ c.to \in Object
        BY <1>1, <2>6, CallKinds DEF TypeFn, TypesLinkFn, ObjectsLinkFn
      <3>2. PICK x \in LinkType : r \in {LCreate(<<c.at, x, c.to>>, Blank), LUpdate(<<c.at, x, c.to>>, Blank),
                                         LDelete(<<c.at, x, c.to>>)}
        BY <1>2, <2>6 DEF NextRequest, ObjectsLinkFn
      <3>3. <<c.at, x, c.to>> \in LinkKey /\ ~ IsTypesLink(<<c.at, x, c.to>>)
        BY <3>1, Ids DEF LinkKey, IsTypesLink
      <3> QED
        BY <3>1, <3>2, <3>3 DEF RequestOK, LCreate, LUpdate, LDelete, LinkOp
    <2> QED
      BY <1>2, <2>1, <2>2, <2>3, <2>4, <2>5, <2>6 DEF NextRequest
  <1> QED
    BY <1>1, <1>2, <1>3, RequestKinds

\* A handler whose requests and stack change keeps the rest.
LEMMA Updated ==
    ASSUME NEW h, HandlerRecord(h), NEW td, NEW st, NEW g,
           g = [h EXCEPT !.todo = td, !.stack = st]
    PROVE  /\ g.call = h.call /\ g.todo = td /\ g.stack = st
           /\ g.queue = h.queue /\ g.seen = h.seen /\ g.before = h.before
           /\ HandlerRecord(g)
  <1>1. PICK c, td0, st0, q, sn, bf :
           h = [call |-> c, todo |-> td0, stack |-> st0, queue |-> q, seen |-> sn, before |-> bf]
    BY DEF HandlerRecord
  <1>2. h.call = c /\ h.queue = q /\ h.seen = sn /\ h.before = bf
    BY <1>1
  <1>3. /\ g.call = c /\ g.todo = td /\ g.stack = st
        /\ g.queue = q /\ g.seen = sn /\ g.before = bf
    BY <1>1
  <1>4. HandlerRecord(g)
    BY <1>1 DEF HandlerRecord
  <1> QED
    BY <1>2, <1>3, <1>4

\* What is left of a handler's record after its request.
LEMMA DoHandler ==
    ASSUME TypeOK, NEW n \in DOMAIN handler, Do(n)
    PROVE  /\ DOMAIN handler' = DOMAIN handler
           /\ \A m \in DOMAIN handler \ {n} : handler'[m] = handler[m]
           /\ handler[n].todo # << >>
           /\ handler'[n].call = handler[n].call /\ handler'[n].todo = Tail(handler[n].todo)
           /\ handler'[n].queue = handler[n].queue /\ handler'[n].seen = handler[n].seen
           /\ handler[n].stack \subseteq handler'[n].stack
           /\ ~ IsCascade(handler[n].call) /\ Stacked(handler[n].call, Head(handler[n].todo))
                => Operations(graph, Head(handler[n].todo)) \subseteq handler'[n].stack
           /\ HandlerOK(handler[n])' /\ handler' = [m \in DOMAIN handler' |-> handler'[m]]
           /\ disturbed' = disturbed /\ Loose' = Loose
  <1> DEFINE h == handler[n]
             r == Head(h.todo)
             stack == h.stack \cup (IF Stacked(h.call, r) THEN Operations(graph, r) ELSE {})
  <1>1. HandlerOK(h) /\ h.todo # << >>
    BY DEF TypeOK, Do
  <1>2. PICK s : /\ handler' = [handler EXCEPT ![n] = [h EXCEPT !.todo = Tail(h.todo), !.stack = s]]
                 /\ h.stack \subseteq s
                 /\ ~ IsCascade(h.call) => s = stack
    <2>1. CASE IsCascade(h.call)
      <3>1. handler' = [handler EXCEPT ![n].todo = Tail(h.todo)]
        BY <2>1 DEF Do
      <3>2. [h EXCEPT !.todo = Tail(h.todo)] = [h EXCEPT !.todo = Tail(h.todo), !.stack = h.stack]
        BY <1>1 DEF HandlerOK
      <3> QED
        BY <2>1, <3>1, <3>2
    <2>2. CASE ~ IsCascade(h.call)
      BY <2>2 DEF Do
    <2> QED
      BY <2>1, <2>2
  <1> DEFINE g == [h EXCEPT !.todo = Tail(h.todo), !.stack = s]
  <1>3. /\ g.call = h.call /\ g.todo = Tail(h.todo) /\ g.stack = s
        /\ g.queue = h.queue /\ g.seen = h.seen /\ g.before = h.before
        /\ HandlerRecord(g)
    BY <1>1, Updated DEF HandlerOK
  <1> HIDE DEF g
  <1>4. /\ DOMAIN handler' = DOMAIN handler /\ handler'[n] = g
        /\ \A m \in DOMAIN handler \ {n} : handler'[m] = handler[m]
        /\ handler' = [m \in DOMAIN handler' |-> handler'[m]]
    BY <1>2 DEF TypeOK, g
  <1>5. HandlerOK(g)
    BY <1>1, <1>3, NextOK DEF HandlerOK
  <1>6. disturbed' = disturbed
    BY DEF Do
  <1>7. Loose' = Loose
    BY <1>3, <1>4, <1>6 DEF Loose
  <1>8. HandlerOK(handler[n])'
    BY <1>4, <1>5
  <1> QED
    BY <1>1, <1>2, <1>3, <1>4, <1>6, <1>7, <1>8

\* A request that succeeds keeps the types, the handlers apart, and the
\* creation on the stack of who creates an object.
LEMMA DoKeeps ==
    ASSUME TypeOK, Apart, Announcing, NEW n \in DOMAIN handler, Do(n)
    PROVE  /\ TypeOK' /\ Apart' /\ Announcing'
           /\ Effect(graph, Head(handler[n].todo), graph')
  <1> DEFINE h == handler[n]
             r == Head(h.todo)
  <1>1. HandlerOK(h) /\ h.todo # << >> /\ RequestOK(r)
    BY DoHandler, NextOK DEF TypeOK
  <1>2. graph' = Apply(graph, r) /\ late' = late /\ calls' = calls /\ failures' = failures
    BY DEF Do
  <1>3. TypeOK'
    <2>1. \A m \in DOMAIN handler' : HandlerOK(handler[m])'
      <3> SUFFICES ASSUME NEW m \in DOMAIN handler'
                   PROVE  HandlerOK(handler[m])'
        OBVIOUS
      <3>1. CASE m = n
        BY <3>1, DoHandler
      <3>2. CASE m # n
        BY <3>2, DoHandler DEF TypeOK
      <3> QED
        BY <3>1, <3>2
    <2>2. GraphOK(graph)'
      BY <1>1, <1>2, ApplyGraphOK DEF TypeOK
    <2>3. \A q \in late' : RequestOK(q)
      BY <1>2 DEF TypeOK
    <2> QED
      BY <1>2, <2>1, <2>2, <2>3, DoHandler DEF TypeOK
  <1>4. Apart'
    <2>1. DOMAIN handler' = DOMAIN handler /\ \A m \in DOMAIN handler : handler'[m].call = handler[m].call
      BY DoHandler
    <2> QED
      BY <2>1 DEF Apart
  <1>5. Announcing'
    <2> SUFFICES ASSUME NEW m \in DOMAIN handler'
                 PROVE  Announced(handler[m])'
      BY DEF Announcing
    <2>1. CASE m # n
      <3>1. handler'[m] = handler[m] /\ Announced(handler[m])
        BY <2>1, DoHandler DEF Announcing
      <3> QED
        BY <3>1 DEF Announced
    <2>2. CASE m = n
      <3> SUFFICES ASSUME h.call.fn = "object.create"
                   PROVE  <<"create", h.call.at>> \in handler'[n].stack
        BY <2>2, DoHandler DEF Announced
      <3>1. NextRequest(h.call, h.seen, h.todo, r, Tail(h.todo))
        BY <1>1, NextOK
      <3>2. CASE Len(h.todo) \in {0, 1, 2, 3}
        <4>1. <<"create", h.call.at>> \in h.stack
          BY <3>2 DEF Announcing, Announced
        <4> QED
          BY <4>1, DoHandler
      <3>3. CASE r = VCreate(h.call.at, Blank)
        <4>1. ~ IsCascade(h.call) /\ Stacked(h.call, r)
          BY <3>3 DEF IsCascade, Stacked, VCreate
        <4>2. <<"create", h.call.at>> \in Operations(graph, r)
          BY <3>3 DEF Operations, VCreate
        <4> QED
          BY <4>1, <4>2, DoHandler
      <3>4. r = VCreate(h.call.at, Blank) \/ Len(h.todo) \in {0, 1, 2, 3}
        <4>1. PICK todo, rest, q : todo = h.todo /\ rest = Tail(h.todo) /\ q = r
          OBVIOUS
        <4>2. NextRequest(h.call, h.seen, todo, q, rest)
          BY <3>1, <4>1
        <4>3. q = VCreate(h.call.at, Blank) \/ Len(todo) \in {0, 1, 2, 3}
          BY <4>2 DEF NextRequest, ObjectsLinkFn
        <4> QED
          BY <4>1, <4>3
      <3> QED
        BY <3>2, <3>3, <3>4
    <2> QED
      BY <2>1, <2>2
  <1>6. Effect(graph, r, graph')
    BY <1>1, <1>2, ApplyEffect DEF TypeOK, GraphOK, RequestOK
  <1> QED
    BY <1>3, <1>4, <1>5, <1>6

-----------------------------------------------------------------------------
(* Requests that succeed *)

\* Types, and the links between them, stay.
TypesSame ==
    /\ \A t \in Type : (t \in V => t \in V') /\ (InList(t) \in L => InList(t) \in L')
    /\ \A t, u \in Type : Between(t, u) \in L =>
          Between(t, u) \in L' /\ graph'.link[Between(t, u)] = graph.link[Between(t, u)]

\* Objects get no links.
NoNewLinks ==
    /\ \A o \in Object : \A t \in Type : (Second(o, t) \in L' => Second(o, t) \in L)
                                         /\ (Third(o, t) \in L' => Third(o, t) \in L)
    /\ \A o, q \in Object : \A x \in LinkType : <<o, x, q>> \in L' => <<o, x, q>> \in L

\* Types that stay are there for everybody.
LEMMA SameStays ==
    ASSUME NEW X, NEW K, TypesSame, Loose \subseteq Loose'
    PROVE  TypesStay(X, K) /\ LinksStay(X, K)
  <1>1. \A t \in Type : TypeThere(t) => TypeThere(t)'
    BY DEF TypesSame, TypeThere
  <1>2. \A t, u \in Type : \A x \in LinkType : HasLink(t, u, x) => HasLink(t, u, x)'
    BY DEF TypesSame, HasLink
  <1> QED
    BY <1>1, <1>2 DEF TypesStay, LinksStay

\* Without new links nobody gets a type, and none need be declared.
LEMMA OldLinks ==
    ASSUME NEW K, NoNewLinks
    PROVE  NewTypes(K) /\ NewLinks
  <1>1. NewTypes(K)
    BY DEF NoNewLinks, NewTypes
  <1>2. NewLinks
    BY DEF NoNewLinks, NewLinks, Linked
  <1> QED
    BY <1>1, <1>2

\* Nobody else is about what the call of n is about.
LEMMA DoDistinct ==
    ASSUME TypeOK, Apart, NEW n \in DOMAIN handler, NEW X, X = Loose \cup About(handler[n].call),
           Loose' = Loose, NEW K, K = DOMAIN handler \ {n}
    PROVE  Distinct(X, K)
  <1> SUFFICES ASSUME NEW m \in K
               PROVE  /\ About(handler[m].call) \cap X \subseteq Loose'
                      /\ ~ Alone(handler[m].call)
    BY DEF Distinct
  <1> QED
    BY DEF Apart

\* What a request of a handler has to see to.
LEMMA DoMain ==
    ASSUME TypeOK, Apart, Main, NEW n \in DOMAIN handler, Do(n), ~ IsCascade(handler[n].call),
           NEW X, X = Loose \cup About(handler[n].call), NEW K, K = DOMAIN handler \ {n},
           Quiet(X), TypesStay(X, K), LinksStay(X, K), NewTypes(K), NewLinks,
           \A o \in (Object \cap About(handler[n].call)) \ Loose : ObjectOK(o)',
           \A t \in (Type \cap About(handler[n].call)) \ Loose : InList(t) \in L' => t \in V',
           handler'[n].todo = << >> \/ Relies(handler[n])'
    PROVE  Main'
  <1>1. Frame(X, K)
    BY DoHandler DEF Frame, About
  <1>2. Distinct(X, K)
    BY DoHandler, DoDistinct
  <1>3. handler'[n].todo = << >> => Relies(handler[n])'
    <2> SUFFICES ASSUME handler'[n].todo = << >>
                 PROVE  Relies(handler[n])'
      OBVIOUS
    <2>1. PICK g : g = handler'[n]
      OBVIOUS
    <2>2. g.todo = << >> /\ ~ IsCascade(g.call)
      BY <2>1, DoHandler DEF IsCascade
    <2>3. Relies(g)'
      <3>1. Len(g.todo) = 0
        BY <2>2
      <3> QED
        BY <2>2, <3>1 DEF Relies, CreatesUnused, ListsThere, LinksUnlinked, ChangesUnused,
                LinksWhole, LinksAsTyped, CascadesFound
    <2> QED
      BY <2>1, <2>3
  <1>4. Settled(X, K)
    BY <1>3, DoHandler DEF Settled
  <1> QED
    BY <1>1, <1>2, <1>4, MainStays

\* A type is created.
LEMMA DoCreateType ==
    ASSUME TypeOK, Apart, Main, Announcing, NEW n \in DOMAIN handler, Do(n),
           handler[n].call.fn = "type.create"
    PROVE  Main'
  <1> DEFINE h == handler[n]
             at == h.call.at
             r == Head(h.todo)
             X == Loose \cup About(h.call)
             K == DOMAIN handler \ {n}
  <1>1. /\ HandlerOK(h) /\ h.todo # << >> /\ h.call \in Calls
        /\ NextRequest(h.call, h.seen, h.todo, r, Tail(h.todo)) /\ RequestOK(r)
    BY DoHandler, NextOK DEF TypeOK, HandlerOK
  <1>2. at \in Type /\ About(h.call) = {at} /\ ~ IsCascade(h.call)
    BY <1>1, CallKinds DEF TypesLinkFn, ObjectsLinkFn, About, IsCascade
  <1>3. Effect(graph, r, graph') /\ graph' = Apply(graph, r) /\ bare' = Bare(r) /\ GraphOK(graph)
    BY DoKeeps DEF Do, TypeOK
  <1>4. CASE r = VCreate(at, Blank) /\ Len(h.todo) = 2 /\ Tail(h.todo) = <<Listing(at)>>
    <2>1. V' = V \cup {at} /\ L' \subseteq L /\ (\A l \in L \ L' : l[1] = at \/ l[3] = at)
          /\ (\A l \in L' : graph'.link[l] = graph.link[l])
      BY <1>3, <1>4, VertexEffect
    <2>2. \A o \in Object \ Loose : Second(o, at) \notin L /\ Third(o, at) \notin L
      BY <1>4 DEF Main, Relies, CreatesUnused
    <2>3. Quiet(X)
      <3>1. ASSUME NEW o \in Object \ X
            PROVE  Touching(graph, at) \cap Structure(o) = {}
        <4> SUFFICES ASSUME NEW l \in L, l[1] = at \/ l[3] = at, l \in Structure(o)
                     PROVE  FALSE
          BY DEF Touching, L
        <4>1. l \in {Second(o, at), Third(o, at)}
          BY <1>2, StructureLinks, LinksOfObjects, Ids
        <4> QED
          BY <2>2, <4>1
      <3> QED
        BY <1>1, <1>2, <1>3, <1>4, <3>1, ApplyQuiet DEF VCreate, VertexOp, LinkOp
    <2>4. NoNewLinks
      BY <2>1 DEF NoNewLinks
    <2>5. TypesStay(X, K)
      <3> SUFFICES ASSUME NEW t \in Type, TypeThere(t), ~ TypeThere(t)'
                   PROVE  /\ \A o \in Object \ X : Second(o, t) \notin L
                          /\ \A m \in K : ~ MakerOf(handler[m], t)
        BY DEF TypesStay
      <3>1. t \notin Loose /\ InList(t) \in L /\ InList(t) \notin L'
        BY <2>1, DoHandler DEF TypeThere
      <3>2. t = at
        BY <1>2, <2>1, <3>1, Ids DEF InList
      <3>3. ASSUME NEW m \in K
            PROVE  ~ MakerOf(handler[m], at)
        BY DEF Apart, Creates, MakerOf
      <3> QED
        BY <2>2, <3>2, <3>3
    <2>6. LinksStay(X, K)
      <3> SUFFICES ASSUME NEW t \in Type, NEW u \in Type, NEW x \in LinkType,
                          NEW o \in Object \ Loose, NEW q \in Object \ Loose,
                          HasLink(t, u, x), Second(o, t) \in L, Second(q, u) \in L
                   PROVE  HasLink(t, u, x)'
        BY DEF LinksStay
      <3>1. t # at /\ u # at
        BY <2>2
      <3>2. Between(t, u) \in L'
        BY <2>1, <3>1 DEF HasLink, Between
      <3> QED
        BY <2>1, <3>2 DEF HasLink
    <2>7. Relies(handler[n])'
      <3>1. PICK g : g = handler'[n]
        OBVIOUS
      <3>2. g.call = h.call /\ g.todo = <<Listing(at)>>
        BY <1>4, <3>1, DoHandler
      <3>3. Len(g.todo) = 1
        BY <3>2
      <3>4. ListsThere(g)'
        BY <2>1, <3>2 DEF ListsThere
      <3>5. Relies(g)'
        BY <1>2, <3>2, <3>3, <3>4 DEF Relies, CreatesUnused, LinksUnlinked, ChangesUnused,
                LinkFn, LinksWhole, LinksAsTyped, CascadesFound, IsCascade
      <3> QED
        BY <3>1, <3>5
    <2> QED
      BY <1>2, <2>1, <2>3, <2>4, <2>5, <2>6, <2>7, OldLinks, DoMain, Ids
  <1>5. CASE r = Listing(at) /\ Len(h.todo) = 1 /\ Tail(h.todo) = << >>
    <2>1. V' = V /\ L' = L \cup {InList(at)} /\ (\A l \in L' \ {InList(at)} : graph'.link[l] = graph.link[l])
      <3>1. r.op = "linkCreate" /\ r.at = InList(at)
        BY <1>5 DEF Listing, LCreate
      <3>2. New(r) = {InList(at)} /\ Gone(graph, r) = {}
        BY <3>1 DEF New, Gone
      <3> QED
        BY <1>3, <3>1, <3>2 DEF Effect, VertexOp, V, L
    <2>2. at \in Loose \/ at \in V
      BY <1>5 DEF Main, Relies, ListsThere
    <2>3. InList(at)[1] = types /\ InList(at)[3] = at /\ InList(at)[2] = "__type"
      BY DEF InList
    <2>4. Quiet(X)
      BY <1>1, <1>2, <1>3, <1>5, <2>3, Ids, ApplyQuiet DEF Listing, LCreate, VertexOp, LinkOp
    <2>5. NoNewLinks
      BY <2>1, <2>3, LinksOfObjects, Ids DEF NoNewLinks
    <2>6. TypesSame
      BY <2>1, <2>3, Ids DEF TypesSame, Between
    <2>7. TypesStay(X, K) /\ LinksStay(X, K) /\ NewTypes(K) /\ NewLinks
      BY <2>5, <2>6, DoHandler, SameStays, OldLinks
    <2>8. handler'[n].todo = << >>
      BY <1>5, DoHandler
    <2> QED
      BY <1>2, <2>1, <2>2, <2>4, <2>7, <2>8, DoMain, Ids
  <1> QED
    BY <1>1, <1>4, <1>5 DEF NextRequest, ObjectsLinkFn

\* A type is updated.
LEMMA DoUpdateType ==
    ASSUME TypeOK, Apart, Main, Announcing, NEW n \in DOMAIN handler, Do(n),
           handler[n].call.fn = "type.update"
    PROVE  Main'
  <1> DEFINE h == handler[n]
             at == h.call.at
             r == Head(h.todo)
             X == Loose \cup About(h.call)
             K == DOMAIN handler \ {n}
  <1>1. /\ HandlerOK(h) /\ h.todo # << >> /\ h.call \in Calls
        /\ NextRequest(h.call, h.seen, h.todo, r, Tail(h.todo)) /\ RequestOK(r)
    BY DoHandler, NextOK DEF TypeOK, HandlerOK
  <1>2. at \in Type /\ About(h.call) = {at} /\ ~ IsCascade(h.call)
    BY <1>1, CallKinds DEF TypesLinkFn, ObjectsLinkFn, About, IsCascade
  <1>3. Effect(graph, r, graph') /\ graph' = Apply(graph, r) /\ bare' = Bare(r) /\ GraphOK(graph)
    BY DoKeeps DEF Do, TypeOK
  <1>4. r = VUpdate(at, Blank, "merge") /\ Tail(h.todo) = << >>
    BY <1>1 DEF NextRequest, ObjectsLinkFn
  <1>5. V' = V \cup {at} /\ L' = L /\ (\A l \in L : graph'.link[l] = graph.link[l])
    BY <1>3, <1>4 DEF Effect, VUpdate, VertexOp, V, L, New, Gone
  <1>6. Quiet(X)
    BY <1>1, <1>2, <1>3, <1>4, ApplyQuiet DEF VUpdate, VertexOp, LinkOp
  <1>7. NoNewLinks /\ TypesSame
    BY <1>5 DEF NoNewLinks, TypesSame
  <1>8. TypesStay(X, K) /\ LinksStay(X, K) /\ NewTypes(K) /\ NewLinks
    BY <1>7, DoHandler, SameStays, OldLinks
  <1>9. handler'[n].todo = << >>
    BY <1>4, DoHandler
  <1> QED
    BY <1>2, <1>5, <1>6, <1>8, <1>9, DoMain, Ids

\* A link between types is created, or gets another body while no link
\* between objects depends on it.
LEMMA DoTypesLink ==
    ASSUME TypeOK, Apart, Main, Announcing, NEW n \in DOMAIN handler, Do(n),
           handler[n].call.fn \in {"types.link.create", "types.link.update"}
    PROVE  Main'
  <1> DEFINE h == handler[n]
             at == h.call.at
             to == h.call.to
             r == Head(h.todo)
             X == Loose \cup About(h.call)
             K == DOMAIN handler \ {n}
  <1>1. /\ HandlerOK(h) /\ h.todo # << >> /\ h.call \in Calls
        /\ NextRequest(h.call, h.seen, h.todo, r, Tail(h.todo)) /\ RequestOK(r)
    BY DoHandler, NextOK DEF TypeOK, HandlerOK
  <1>2. at \in Type /\ to \in Type /\ About(h.call) = {at, to} /\ ~ IsCascade(h.call)
    BY <1>1, CallKinds, Ids DEF TypeFn, ObjectsLinkFn, About, IsCascade
  <1>3. Effect(graph, r, graph') /\ graph' = Apply(graph, r) /\ bare' = Bare(r) /\ GraphOK(graph)
    BY DoKeeps DEF Do, TypeOK
  <1>4. r.op \in {"linkCreate", "linkUpdate"} /\ r.at = Between(at, to) /\ Tail(h.todo) = << >>
    BY <1>1 DEF NextRequest, ObjectsLinkFn, LCreate, LUpdate
  <1>5. V' = V /\ L' = L \cup {r.at} /\ (\A l \in L' \ {r.at} : graph'.link[l] = graph.link[l])
    BY <1>3, <1>4 DEF Effect, VertexOp, V, L, New, Gone
  <1>6. r.at[1] = at /\ r.at[2] = "__type" /\ r.at[3] = to
    BY <1>4 DEF Between
  <1>7. Quiet(X)
    BY <1>1, <1>2, <1>3, <1>4, <1>6, Ids, ApplyQuiet DEF VertexOp, LinkOp
  <1>8. NoNewLinks
    BY <1>2, <1>5, <1>6, LinksOfObjects, Ids DEF NoNewLinks
  <1>9. TypesStay(X, K)
    BY <1>5, DoHandler DEF TypesStay, TypeThere
  <1>10. LinksStay(X, K)
    <2> SUFFICES ASSUME NEW t \in Type \ Loose, NEW u \in Type \ Loose, NEW x \in LinkType,
                        NEW o \in Object \ Loose, NEW q \in Object \ Loose,
                        HasLink(t, u, x), Second(o, t) \in L, Second(q, u) \in L,
                        <<o, x, q>> \in L \/ K # {}
                 PROVE  HasLink(t, u, x)'
      BY DoHandler DEF LinksStay
    <2>1. CASE Between(t, u) = r.at
      <3>1. t = at /\ u = to
        BY <1>6, <2>1 DEF Between
      <3>2. CASE h.call.fn = "types.link.create"
        <4>1. Between(at, to) \notin L
          BY <1>1, <3>1, <3>2 DEF Main, Relies, LinksUnlinked
        <4> QED
          BY <3>1, <4>1 DEF HasLink
      <3>3. CASE h.call.fn = "types.link.update"
        <4>1. K = {}
          BY <3>3 DEF Apart, Alone
        <4>2. Linked(o, q, at, to, x)
          BY <3>1, <4>1 DEF Linked
        <4> QED
          BY <1>1, <3>1, <3>3, <4>2 DEF Main, Relies, ChangesUnused
      <3> QED
        BY <3>2, <3>3
    <2>2. CASE Between(t, u) # r.at
      BY <1>5, <2>2 DEF HasLink
    <2> QED
      BY <2>1, <2>2
  <1>11. ASSUME NEW t \in Type \ Loose, InList(t) \in L'
         PROVE  t \in V'
    <2>1. InList(t) # r.at
      BY <1>2, <1>6, Ids DEF InList
    <2> QED
      BY <1>5, <1>11, <2>1 DEF Main, TypesThere
  <1>12. handler'[n].todo = << >> /\ NewTypes(K) /\ NewLinks
    BY <1>4, <1>8, DoHandler, OldLinks
  <1> QED
    BY <1>2, <1>7, <1>9, <1>10, <1>11, <1>12, DoMain, Ids

\* An object is updated.
LEMMA DoUpdateObject ==
    ASSUME TypeOK, Apart, Main, Announcing, NEW n \in DOMAIN handler, Do(n),
           handler[n].call.fn = "object.update"
    PROVE  Main'
  <1> DEFINE h == handler[n]
             at == h.call.at
             r == Head(h.todo)
             X == Loose \cup About(h.call)
             K == DOMAIN handler \ {n}
  <1>1. /\ HandlerOK(h) /\ h.todo # << >> /\ h.call \in Calls
        /\ NextRequest(h.call, h.seen, h.todo, r, Tail(h.todo)) /\ RequestOK(r)
    BY DoHandler, NextOK DEF TypeOK, HandlerOK
  <1>2. at \in Object /\ About(h.call) = {at} /\ ~ IsCascade(h.call)
    BY <1>1, CallKinds DEF TypeFn, TypesLinkFn, ObjectsLinkFn, About, IsCascade
  <1>3. Effect(graph, r, graph') /\ graph' = Apply(graph, r) /\ bare' = Bare(r) /\ GraphOK(graph)
    BY DoKeeps DEF Do, TypeOK
  <1>4. r = VUpdate(at, Blank, "merge") /\ Tail(h.todo) = << >>
    BY <1>1 DEF NextRequest, ObjectsLinkFn
  <1>5. V' = V \cup {at} /\ L' = L /\ (\A l \in L : graph'.link[l] = graph.link[l])
    BY <1>3, <1>4 DEF Effect, VUpdate, VertexOp, V, L, New, Gone
  <1>6. Quiet(X)
    BY <1>1, <1>2, <1>3, <1>4, ApplyQuiet DEF VUpdate, VertexOp, LinkOp
  <1>7. NoNewLinks /\ TypesSame
    BY <1>5 DEF NoNewLinks, TypesSame
  <1>8. TypesStay(X, K) /\ LinksStay(X, K) /\ NewTypes(K) /\ NewLinks
    BY <1>7, DoHandler, SameStays, OldLinks
  <1>9. PICK o : o = at
    OBVIOUS
  <1>10. Loose' = Loose
    BY DoHandler
  <1>11. ASSUME o \notin Loose
         PROVE  ObjectOK(o)'
    <2>1. ASSUME NEW m \in DOMAIN handler, Maker(o, m)
          PROVE  FALSE
      <3>1. m # n
        BY <2>1 DEF Maker
      <3> QED
        BY <1>9, <2>1, <3>1 DEF Maker, Apart, About
    <2>2. ~ \E m \in DOMAIN handler' : Maker(o, m)'
      BY <2>1, DoHandler DEF Maker
    <2>3. CASE IsWhole(o)
      <3>1. PICK t \in Type : Typed(o, t)
        BY <2>3 DEF IsWhole
      <3>2. TypeThere(t)'
        BY <1>5, <1>10, <3>1 DEF Typed, TypeThere
      <3>3. Typed(o, t)'
        BY <1>5, <3>1, <3>2 DEF Typed
      <3> QED
        BY <2>2, <3>3 DEF ObjectOK, IsWhole
    <2>4. CASE IsUnmade(o)
      <3>1. o \in bare'
        BY <1>3, <1>4, <1>9, <2>4 DEF IsUnmade, Bare, VUpdate, V
      <3>2. Touching(graph', o) = {}
        BY <1>5, <2>4 DEF IsUnmade, Touching, L
      <3> QED
        BY <2>2, <3>1, <3>2 DEF ObjectOK, IsUnmade
    <2> QED
      BY <1>2, <1>9, <1>11, <2>1, <2>3, <2>4 DEF Main, ObjectOK
  <1>12. handler'[n].todo = << >>
    BY <1>4, DoHandler
  <1>13. Type \cap About(h.call) = {} /\ Object \cap About(h.call) = {o}
    BY <1>2, <1>9, Ids
  <1> QED
    BY <1>2, <1>6, <1>8, <1>11, <1>12, <1>13, DoMain

\* An object is created, a request at a time.
LEMMA DoCreateObject ==
    ASSUME TypeOK, Apart, Main, Announcing, NEW n \in DOMAIN handler, Do(n),
           handler[n].call.fn = "object.create"
    PROVE  Main'
  <1> DEFINE h == handler[n]
             r == Head(h.todo)
             X == Loose \cup About(h.call)
             K == DOMAIN handler \ {n}
  <1>1. /\ HandlerOK(h) /\ h.todo # << >> /\ h.call \in Calls
        /\ NextRequest(h.call, h.seen, h.todo, r, Tail(h.todo)) /\ RequestOK(r)
    BY DoHandler, NextOK DEF TypeOK, HandlerOK
  <1>2. PICK o \in Object, t \in Type : o = h.call.at /\ t = h.call.type
    BY <1>1, CallKinds DEF TypeFn, TypesLinkFn, ObjectsLinkFn
  <1>3. About(h.call) = {o} /\ ~ IsCascade(h.call)
    BY <1>1, <1>2, CallKinds DEF TypeFn, TypesLinkFn, ObjectsLinkFn, About, IsCascade
  <1>4. Effect(graph, r, graph') /\ graph' = Apply(graph, r) /\ bare' = Bare(r) /\ GraphOK(graph)
    BY DoKeeps DEF Do, TypeOK
  <1>5. Loose' = Loose
    BY DoHandler
  <1>6. PICK k, k2 : k = Len(h.todo) /\ k2 = Len(Tail(h.todo))
    OBVIOUS
  <1>7. \/ r = VCreate(o, Blank) /\ k = 4 /\ k2 = 3
        \/ r = LCreate(First(o), Blank) /\ k = 3 /\ k2 = 2
        \/ r = LCreate(Second(o, t), Blank) /\ k = 2 /\ k2 = 1
        \/ r = LCreate(Third(o, t), Blank) /\ k = 1 /\ k2 = 0
    BY <1>1, <1>2, <1>6 DEF NextRequest, ObjectsLinkFn
  <1>8. o \notin Loose => Made(o, t, k)
    BY <1>2, <1>6 DEF Main, ObjectOK, Maker
  <1>9. Relies(handler[n])'
    <2>1. PICK g : g = handler'[n]
      OBVIOUS
    <2>2. g.call = h.call
      BY <2>1, DoHandler
    <2>3. Relies(g)'
      BY <2>2 DEF Relies, CreatesUnused, ListsThere, LinksUnlinked, ChangesUnused,
                  LinkFn, LinksWhole, LinksAsTyped, CascadesFound, IsCascade
    <2> QED
      BY <2>1, <2>3
  <1>10. ASSUME Made(o, t, k2)'
         PROVE  ObjectOK(o)'
    <2>1. ASSUME NEW m \in DOMAIN handler', Maker(o, m)'
          PROVE  m = n
      <3>1. m \in DOMAIN handler /\ Maker(o, m)
        BY <2>1, DoHandler DEF Maker
      <3> QED
        BY <1>2, <3>1 DEF Maker, Apart, About
    <2>2. n \in DOMAIN handler' /\ Maker(o, n)'
      BY <1>2, DoHandler DEF Maker
    <2>3. handler'[n].call.type = t /\ Len(handler'[n].todo) = k2
      BY <1>2, <1>6, DoHandler
    <2>4. \A m \in DOMAIN handler' : Maker(o, m)' =>
             Made(o, handler[m].call.type, Len(handler[m].todo))'
      <3> SUFFICES ASSUME NEW m \in DOMAIN handler', Maker(o, m)'
                   PROVE  Made(o, handler[m].call.type, Len(handler[m].todo))'
        OBVIOUS
      <3>1. handler'[m].call.type = t /\ Len(handler'[m].todo) = k2
        BY <2>1, <2>3
      <3> QED
        BY <1>10, <3>1
    <2> QED
      BY <2>2, <2>4 DEF ObjectOK
  <1>11. CASE r = VCreate(o, Blank) /\ k = 4 /\ k2 = 3
    <2>1. V' = V \cup {o} /\ L' \subseteq L /\ (\A l \in L \ L' : l[1] = o \/ l[3] = o)
          /\ (\A l \in L' : graph'.link[l] = graph.link[l])
      BY <1>4, <1>11, VertexEffect
    <2>2. Quiet(X)
      <3>1. ASSUME NEW q \in Object \ X
            PROVE  Touching(graph, o) \cap Structure(q) = {}
        <4> SUFFICES ASSUME NEW l \in L, l[1] = o \/ l[3] = o, l \in Structure(q)
                     PROVE  FALSE
          BY DEF Touching, L
        <4> QED
          BY <1>2, <1>3, StructureLinks, Ids
      <3> QED
        BY <1>1, <1>2, <1>3, <1>4, <1>11, <3>1, ApplyQuiet DEF VCreate, VertexOp, LinkOp
    <2>3. NoNewLinks
      BY <2>1 DEF NoNewLinks
    <2>4. TypesSame
      BY <2>1, Ids DEF TypesSame, InList, Between
    <2>5. TypesStay(X, K) /\ LinksStay(X, K) /\ NewTypes(K) /\ NewLinks
      BY <1>5, <2>3, <2>4, SameStays, OldLinks
    <2>6. o \notin Loose => Made(o, t, k2)'
      BY <1>5, <1>8, <1>11, <2>1, <2>4 DEF Made, Done, TypeThere, TypesSame, Touching, L
    <2> QED
      BY <1>2, <1>3, <1>9, <1>10, <2>2, <2>5, <2>6, DoMain, Ids
  <1>12. CASE r \in {LCreate(First(o), Blank), LCreate(Second(o, t), Blank), LCreate(Third(o, t), Blank)}
              /\ k \in {1, 2, 3}
    <2> DEFINE l == r.at
    <2>1. r.op = "linkCreate" /\ l \in {First(o), Second(o, t), Third(o, t)}
      BY <1>12 DEF LCreate
    <2>2. l \in Structure(o) /\ l \in LinkKey /\ l[2] \notin LinkType /\ (l[1] = o \/ l[3] = o)
          /\ {l[1], l[3]} \cap Object = {o}
      BY <2>1, LinksOfObjects, StructureLinks, Ids
    <2>3. V' = V /\ L' = L \cup {l} /\ (\A j \in L' \ {l} : graph'.link[j] = graph.link[j])
      BY <1>4, <2>1 DEF Effect, VertexOp, V, L, New, Gone
    <2>4. Quiet(X)
      BY <1>1, <1>3, <1>4, <2>1, <2>2, ApplyQuiet DEF VertexOp, LinkOp
    <2>5. TypesSame
      BY <2>2, <2>3, Ids DEF TypesSame, InList, Between
    <2>6. TypesStay(X, K) /\ LinksStay(X, K)
      BY <1>5, <2>5, SameStays
    <2>7. NewTypes(K)
      <3>1. \A m \in K : ~ Creates(handler[m].call, t)
        BY <1>2 DEF Apart
      <3>2. ASSUME NEW q \in Object, NEW u \in Type, l = Second(q, u) \/ l = Third(q, u)
            PROVE  u = t
        BY <2>1, <3>2, LinksOfObjects, Ids
      <3> QED
        BY <2>3, <3>1, <3>2 DEF NewTypes
    <2>8. NewLinks
      <3> SUFFICES ASSUME NEW p \in Object \ Loose, NEW q \in Object \ Loose, NEW u \in Type, NEW w \in Type,
                          NEW x \in LinkType, Linked(p, q, u, w, x)'
                   PROVE  Linked(p, q, u, w, x)
        BY <1>5 DEF NewLinks
      <3>1. <<p, x, q>> \in L
        <4>1. <<p, x, q>> # l
          BY <2>2
        <4> QED
          BY <2>3, <4>1 DEF Linked
      <3>2. o \notin Loose => p # o /\ q # o
        <4> SUFFICES ASSUME o \notin Loose, p = o \/ q = o
                     PROVE  FALSE
          OBVIOUS
        <4>1. <<p, x, q>> \in Touching(graph, o)
          BY <3>1 DEF Touching, L
        <4>2. <<p, x, q>> \in Structure(o)
          BY <1>8, <4>1, LinksOfObjects DEF Made, Done
        <4> QED
          BY <4>2, StructureLinks
      <3>3. p # o /\ q # o
        BY <3>2
      <3>4. Second(p, u) # l /\ Second(q, w) # l
        BY <2>2, <3>3, LinksOfObjects, Ids
      <3> QED
        BY <2>3, <3>1, <3>4 DEF Linked
    <2>9. ASSUME o \notin Loose
          PROVE  Made(o, t, k2)'
      <3>1. TypeThere(t)'
        BY <1>5, <1>8, <2>3, <2>9 DEF Made, TypeThere
      <3>2. Touching(graph', o) = Touching(graph, o) \cup {l}
        BY <2>2, <2>3 DEF Touching, L
      <3>3. Touching(graph, o) = Done(o, t, k) /\ o \in V
        BY <1>8, <1>12, <2>9 DEF Made
      <3>4. Done(o, t, k) \cup {l} = Done(o, t, k2) /\ k2 \in {0, 1, 2}
        <4>1. CASE l = First(o)
          BY <1>7, <1>12, <4>1, LinksOfObjects, Ids DEF Done, LCreate, VCreate
        <4>2. CASE l = Second(o, t)
          BY <1>7, <1>12, <4>2, LinksOfObjects, Ids DEF Done, LCreate, VCreate
        <4>3. CASE l = Third(o, t)
          BY <1>7, <1>12, <4>3, LinksOfObjects, Ids DEF Done, LCreate, VCreate
        <4> QED
          BY <2>1, <4>1, <4>2, <4>3
      <3> QED
        BY <2>3, <3>1, <3>2, <3>3, <3>4 DEF Made
    <2> QED
      BY <1>2, <1>3, <1>9, <1>10, <2>4, <2>6, <2>7, <2>8, <2>9, DoMain, Ids
  <1> QED
    BY <1>7, <1>11, <1>12

\* An object is deleted, with its links.
LEMMA DoDeleteObject ==
    ASSUME TypeOK, Apart, Main, Announcing, NEW n \in DOMAIN handler, Do(n),
           handler[n].call.fn = "object.delete", ~ IsCascade(handler[n].call)
    PROVE  Main'
  <1> DEFINE h == handler[n]
             r == Head(h.todo)
             X == Loose \cup About(h.call)
             K == DOMAIN handler \ {n}
  <1>1. /\ HandlerOK(h) /\ h.todo # << >> /\ h.call \in Calls
        /\ NextRequest(h.call, h.seen, h.todo, r, Tail(h.todo)) /\ RequestOK(r)
    BY DoHandler, NextOK DEF TypeOK, HandlerOK
  <1>2. PICK o \in Object : o = h.call.at
    BY <1>1, CallKinds DEF TypeFn, TypesLinkFn, ObjectsLinkFn
  <1>3. About(h.call) = {o}
    BY <1>1, <1>2, CallKinds DEF TypeFn, TypesLinkFn, ObjectsLinkFn, About
  <1>4. Effect(graph, r, graph') /\ graph' = Apply(graph, r) /\ bare' = Bare(r) /\ GraphOK(graph)
    BY DoKeeps DEF Do, TypeOK
  <1>5. r = VDelete(o) /\ Tail(h.todo) = << >>
    BY <1>1, <1>2 DEF NextRequest, ObjectsLinkFn
  <1>6. V' = V \ {o} /\ L' = L \ Touching(graph, o) /\ (\A l \in L' : graph'.link[l] = graph.link[l])
    BY <1>4, <1>5, VertexEffect
  <1>7. Quiet(X)
    <2>1. ASSUME NEW q \in Object \ X
          PROVE  Touching(graph, o) \cap Structure(q) = {}
      <3> SUFFICES ASSUME NEW l \in L, l[1] = o \/ l[3] = o, l \in Structure(q)
                   PROVE  FALSE
        BY DEF Touching, L
      <3> QED
        BY <1>2, <1>3, StructureLinks, Ids
    <2> QED
      BY <1>1, <1>3, <1>4, <1>5, <2>1, ApplyQuiet DEF VDelete, VertexOp, LinkOp
  <1>8. NoNewLinks /\ TypesSame
    BY <1>6, Ids DEF NoNewLinks, TypesSame, Touching, InList, Between
  <1>9. TypesStay(X, K) /\ LinksStay(X, K) /\ NewTypes(K) /\ NewLinks
    BY <1>8, DoHandler, SameStays, OldLinks
  <1>10. ObjectOK(o)'
    <2>1. ~ \E m \in DOMAIN handler' : Maker(o, m)'
      <3> SUFFICES ASSUME NEW m \in DOMAIN handler', Maker(o, m)'
                   PROVE  FALSE
        OBVIOUS
      <3>1. m \in DOMAIN handler /\ Maker(o, m) /\ m # n
        BY DoHandler DEF Maker
      <3> QED
        BY <1>2, <3>1 DEF Maker, Apart, About
    <2>2. o \notin V' /\ Touching(graph', o) = {}
      BY <1>6 DEF Touching, L
    <2> QED
      BY <2>1, <2>2 DEF ObjectOK, IsUnmade
  <1>11. handler'[n].todo = << >>
    BY <1>5, DoHandler
  <1> QED
    BY <1>2, <1>3, <1>7, <1>9, <1>10, <1>11, DoMain, Ids

\* A link between objects is created, updated or deleted.
LEMMA DoObjectsLink ==
    ASSUME TypeOK, Apart, Main, Announcing, NEW n \in DOMAIN handler, Do(n),
           handler[n].call.fn \in ObjectsLinkFn
    PROVE  Main'
  <1> DEFINE h == handler[n]
             r == Head(h.todo)
             l == r.at
             X == Loose \cup About(h.call)
             K == DOMAIN handler \ {n}
  <1>1. /\ HandlerOK(h) /\ h.todo # << >> /\ h.call \in Calls
        /\ NextRequest(h.call, h.seen, h.todo, r, Tail(h.todo)) /\ RequestOK(r) /\ r = h.todo[1]
    BY DoHandler, NextOK DEF TypeOK, HandlerOK
  <1>2. PICK o \in Object, p \in Object : o = h.call.at /\ p = h.call.to
    BY <1>1, CallKinds DEF TypeFn, TypesLinkFn, ObjectsLinkFn
  <1>3. About(h.call) = {o, p} /\ ~ IsCascade(h.call)
    BY <1>1, <1>2, Ids DEF ObjectsLinkFn, About, IsCascade
  <1>4. Effect(graph, r, graph') /\ graph' = Apply(graph, r) /\ bare' = Bare(r) /\ GraphOK(graph)
    BY DoKeeps DEF Do, TypeOK
  <1>5. /\ \/ h.call.fn \in LinkFn /\ r.op \in {"linkCreate", "linkUpdate"}
           \/ h.call.fn = "objects.link.delete" /\ r.op = "linkDelete"
        /\ \E x \in LinkType : l = <<o, x, p>>
        /\ Tail(h.todo) = << >>
    <2>1. PICK rest, q : rest = Tail(h.todo) /\ q = r
      OBVIOUS
    <2>2. NextRequest(h.call, h.seen, h.todo, q, rest)
      BY <1>1, <2>1
    <2>3. rest = << >> /\ \E x \in LinkType :
             \/ /\ h.call.fn \in LinkFn
                /\ q \in {LCreate(<<o, x, p>>, Blank), LUpdate(<<o, x, p>>, Blank)}
             \/ h.call.fn = "objects.link.delete" /\ q = LDelete(<<o, x, p>>)
      BY <1>2, <2>2 DEF NextRequest, ObjectsLinkFn
    <2>4. /\ \E x \in LinkType : q.at = <<o, x, p>>
          /\ \/ h.call.fn \in LinkFn /\ q.op \in {"linkCreate", "linkUpdate"}
             \/ h.call.fn = "objects.link.delete" /\ q.op = "linkDelete"
      BY <2>3 DEF LCreate, LUpdate, LDelete
    <2> QED
      BY <2>1, <2>3, <2>4
  <1>6. l[1] = o /\ l[2] \in LinkType /\ l[3] = p /\ l = <<o, l[2], p>>
    BY <1>5
  <1>7. V' = V /\ L \ {l} \subseteq L' /\ L' \subseteq L \cup {l}
        /\ (\A j \in L' \ {l} : graph'.link[j] = graph.link[j])
        /\ (r.op = "linkDelete" => L' \subseteq L)
    BY <1>4, <1>5 DEF Effect, VertexOp, V, L, New, Gone
  <1>8. Quiet(X)
    BY <1>1, <1>2, <1>3, <1>4, <1>5, <1>6, ApplyQuiet DEF VertexOp, LinkOp
  <1>9. TypesSame
    BY <1>2, <1>6, <1>7, Ids DEF TypesSame, InList, Between
  <1>10. TypesStay(X, K) /\ LinksStay(X, K)
    BY <1>9, DoHandler, SameStays
  <1>11. \A q \in Object : L' \cap Structure(q) = L \cap Structure(q)
    <2>1. \A q \in Object : l \notin Structure(q)
      BY <1>6, StructureLinks
    <2> QED
      BY <1>7, <2>1
  <1>12. NewTypes(K)
    BY <1>11, LinksOfObjects DEF NewTypes
  <1>13. NewLinks
    <2> SUFFICES ASSUME NEW a \in Object \ Loose, NEW b \in Object \ Loose, NEW u \in Type \ Loose,
                        NEW w \in Type \ Loose, NEW x \in LinkType, Linked(a, b, u, w, x)'
                 PROVE  Linked(a, b, u, w, x) \/ HasLink(u, w, x)'
      BY DoHandler DEF NewLinks
    <2>1. Second(a, u) \in L /\ Second(b, w) \in L
      BY <1>11, LinksOfObjects DEF Linked
    <2>2. CASE <<a, x, b>> \in L
      BY <2>1, <2>2 DEF Linked
    <2>3. CASE <<a, x, b>> \notin L
      <3>1. <<a, x, b>> = l /\ r.op # "linkDelete"
        BY <1>7, <2>3 DEF Linked
      <3>2. a = o /\ b = p /\ x = l[2] /\ h.call.fn \in LinkFn
        BY <1>5, <1>6, <3>1
      <3>3. LinksAsTyped(h)
        BY DEF Main, Relies
      <3>4. HasLink(u, w, l[2])
        BY <1>1, <1>2, <2>1, <3>2, <3>3 DEF LinksAsTyped
      <3> QED
        BY <1>9, <3>2, <3>4 DEF HasLink, TypesSame
    <2> QED
      BY <2>2, <2>3
  <1>14. ASSUME NEW q \in {o, p} \ Loose
         PROVE  ObjectOK(q)'
    <2>1. ~ \E m \in DOMAIN handler : Maker(q, m)
      <3> SUFFICES ASSUME NEW m \in DOMAIN handler, Maker(q, m)
                   PROVE  FALSE
        OBVIOUS
      <3>1. m # n
        BY DEF Maker, ObjectsLinkFn
      <3> QED
        BY <1>2, <1>3, <3>1 DEF Maker, Apart, About
    <2>2. ~ \E m \in DOMAIN handler' : Maker(q, m)'
      BY <2>1, DoHandler DEF Maker
    <2>3. CASE IsWhole(q)
      <3>1. PICK t \in Type : Typed(q, t)
        BY <2>3 DEF IsWhole
      <3>2. TypeThere(t)'
        BY <1>9, <3>1, DoHandler DEF Typed, TypeThere, TypesSame
      <3>3. Typed(q, t)'
        BY <1>2, <1>7, <1>11, <3>1, <3>2 DEF Typed
      <3> QED
        BY <2>2, <3>3 DEF ObjectOK, IsWhole
    <2>4. CASE IsUnmade(q) /\ r.op = "linkDelete"
      <3>1. Touching(graph', q) = {}
        BY <1>7, <2>4 DEF IsUnmade, Touching, L
      <3>2. V' = V /\ bare' = bare
        BY <1>4, <1>7, <2>4 DEF Bare
      <3> QED
        BY <2>2, <2>4, <3>1, <3>2 DEF ObjectOK, IsUnmade
    <2>5. IsWhole(q) \/ (IsUnmade(q) /\ r.op = "linkDelete")
      <3>1. CASE h.call.fn \in LinkFn
        BY <1>1, <1>2, <3>1 DEF Main, Relies, LinksWhole
      <3>2. CASE h.call.fn \notin LinkFn
        <4>1. ObjectOK(q)
          BY <1>2 DEF Main
        <4> QED
          BY <1>5, <2>1, <3>2, <4>1 DEF ObjectOK
      <3> QED
        BY <3>1, <3>2
    <2> QED
      BY <2>3, <2>4, <2>5
  <1>15. handler'[n].todo = << >>
    BY <1>5, DoHandler
  <1>16. Type \cap About(h.call) = {} /\ (Object \cap About(h.call)) \ Loose = {o, p} \ Loose
    BY <1>2, <1>3, Ids
  <1> QED
    BY <1>3, <1>8, <1>10, <1>12, <1>13, <1>14, <1>15, <1>16, DoMain

-----------------------------------------------------------------------------
(* Cascades *)

\* An object that nobody creates has both links with its type, or none.
LEMMA SecondThird ==
    ASSUME NEW o \in Object, ObjectOK(o), \A m \in DOMAIN handler : ~ Maker(o, m), NEW t \in Type
    PROVE  Second(o, t) \in L <=> Third(o, t) \in L
  <1>1. CASE IsWhole(o)
    <2>1. PICK u \in Type : L \cap Structure(o) = {First(o), Second(o, u), Third(o, u)}
      BY <1>1 DEF IsWhole, Typed
    <2>2. Second(o, t) \in L => t = u
      BY <2>1, LinksOfObjects, Ids
    <2>3. Third(o, t) \in L => t = u
      BY <2>1, LinksOfObjects, Ids
    <2> QED
      BY <2>1, <2>2, <2>3
  <1>2. CASE IsUnmade(o)
    BY <1>2, LinksOfObjects DEF IsUnmade, Touching, L
  <1> QED
    BY <1>1, <1>2 DEF ObjectOK

\* What a cascade has found is loose.
LEMMA CascadeHandler ==
    ASSUME TypeOK, NEW n \in DOMAIN handler, IsCascade(handler[n].call)
    PROVE  /\ handler[n].call.at \in Object /\ handler[n].call.fn = "object.delete"
           /\ handler[n].seen \subseteq Loose
  <1>1. handler[n].call.fn = "object.delete" /\ handler[n].call \in Calls
    BY DEF IsCascade, TypeOK, HandlerOK
  <1>2. handler[n].seen \subseteq Loose
    BY DEF Loose, TypeOK, HandlerOK
  <1> QED
    BY <1>1, <1>2, CallKinds DEF TypeFn, TypesLinkFn, ObjectsLinkFn

\* A cascade deletes a vertex that it has found.
LEMMA DoCascade ==
    ASSUME TypeOK, Apart, Main, Announcing, NEW n \in DOMAIN handler, Do(n), IsCascade(handler[n].call)
    PROVE  Main'
  <1> DEFINE h == handler[n]
             r == Head(h.todo)
             K == DOMAIN handler \ {n}
  <1>1. /\ HandlerOK(h) /\ h.todo # << >> /\ h.call \in Calls
        /\ NextRequest(h.call, h.seen, h.todo, r, Tail(h.todo)) /\ RequestOK(r) /\ r = h.todo[1]
    BY DoHandler, NextOK DEF TypeOK, HandlerOK
  <1>2. PICK v \in h.seen : r = VDelete(v)
    BY <1>1 DEF NextRequest, IsCascade, ObjectsLinkFn
  <1>3. Tail(h.todo) = << >>
    BY <1>1 DEF NextRequest, IsCascade, ObjectsLinkFn
  <1>4. v \in Loose /\ v \in Type \cup Object
    BY <1>1, CascadeHandler DEF HandlerOK
  <1>5. Loose' = Loose
    BY DoHandler
  <1>6. CascadesFound(h)
    BY DEF Main, Relies
  <1>7. ASSUME NEW o \in Object \ Loose
        PROVE  Touching(graph, v) \cap Structure(o) = {}
    <2> SUFFICES ASSUME NEW l \in L, l[1] = v \/ l[3] = v, l \in Structure(o)
                 PROVE  FALSE
      BY DEF Touching, L
    <2>1. \A m \in DOMAIN handler : ~ Maker(o, m)
      <3> SUFFICES ASSUME NEW m \in DOMAIN handler, Maker(o, m)
                   PROVE  FALSE
        OBVIOUS
      <3>1. m # n
        BY DEF Maker, IsCascade
      <3> QED
        BY <3>1 DEF Apart, Alone
    <2>2. v \in Type /\ l \in {Second(o, v), Third(o, v)}
      BY <1>4, StructureLinks, LinksOfObjects, Ids
    <2>3. Third(o, v) \notin L
      <3>1. h.todo[1].at = v
        BY <1>1, <1>2 DEF VDelete
      <3> QED
        BY <1>1, <1>6, <3>1 DEF CascadesFound
    <2>4. Second(o, v) \notin L
      BY <2>1, <2>2, <2>3, SecondThird DEF Main
    <2> QED
      BY <2>2, <2>3, <2>4
  <1>8. Quiet(Loose)
    <2>1. graph' = Apply(graph, r) /\ bare' = Bare(r) /\ GraphOK(graph)
      BY DEF Do, TypeOK
    <2> QED
      BY <1>1, <1>2, <1>4, <1>7, <2>1, ApplyQuiet DEF VDelete, VertexOp, LinkOp
  <1>9. Frame(Loose', K)
    <2>1. h.call.at \in Loose
      BY <1>6, CascadeHandler DEF CascadesFound
    <2> QED
      BY <1>5, <1>8, <2>1, DoHandler DEF Frame
  <1>10. Relies(handler[n])'
    <2>1. PICK g : g = handler'[n]
      OBVIOUS
    <2>2. g.call = h.call /\ g.seen = h.seen /\ g.todo = << >>
      BY <1>3, <2>1, DoHandler
    <2>3. CascadesFound(g)'
      BY <1>6, <2>2 DEF CascadesFound
    <2>4. Relies(g)'
      BY <2>2, <2>3, CascadeHandler DEF Relies, CreatesUnused, ListsThere, LinksUnlinked, ChangesUnused,
         LinkFn, LinksWhole, LinksAsTyped
    <2> QED
      BY <2>1, <2>4
  <1>11. \A m \in DOMAIN handler' \ K : Relies(handler[m])'
    BY <1>10, DoHandler
  <1> QED
    BY <1>9, <1>11, SteadyStep

\* Every request that succeeds leaves the invariant true.
LEMMA DoInvariant ==
    ASSUME IInv, NEW n \in DOMAIN handler, Do(n)
    PROVE  IInv'
  <1>1. TypeOK /\ Apart /\ Main /\ Announcing
    BY DEF IInv
  <1>2. TypeOK' /\ Apart' /\ Announcing'
    BY <1>1, DoKeeps
  <1>3. Main'
    <2>1. HandlerOK(handler[n]) /\ handler[n].todo # << >>
      BY <1>1, DoHandler DEF TypeOK
    <2>2. PICK c, S, todo, r, rest : c = handler[n].call /\ NextRequest(c, S, todo, r, rest)
      BY <2>1, NextOK
    <2>3. \/ c.fn \in {"type.create", "type.update", "types.link.create", "types.link.update",
                       "object.create", "object.update", "object.delete"}
          \/ c.fn \in ObjectsLinkFn
      BY <2>2 DEF NextRequest
    <2> QED
      BY <1>1, <2>2, <2>3, DoCreateType, DoUpdateType, DoTypesLink, DoUpdateObject, DoCreateObject,
         DoDeleteObject, DoObjectsLink, DoCascade
  <1> QED
    BY <1>2, <1>3 DEF IInv

\* A step that leaves the graph alone is quiet.
LEMMA QuietGraph ==
    ASSUME graph' = graph, bare' = bare, NEW X
    PROVE  Quiet(X)
  BY DEF Quiet, V, L

\* A cascade looks at the next vertex.
LEMMA VisitInvariant ==
    ASSUME IInv, NEW n \in DOMAIN handler, Visit(n)
    PROVE  IInv'
  <1> DEFINE h == handler[n]
             elem == Head(h.queue)
             new == Children(graph, elem) \ h.seen
             K == DOMAIN handler \ {n}
  <1>1. TypeOK /\ Apart /\ Main /\ Announcing
    BY DEF IInv
  <1>2. HandlerOK(h) /\ h.todo = << >> /\ h.queue # << >> /\ IsCascade(h.call)
    BY <1>1 DEF TypeOK, Visit, HandlerOK
  <1>3. /\ graph' = graph /\ disturbed' = disturbed /\ bare' = bare
        /\ late' = late /\ calls' = calls /\ failures' = failures
    BY DEF Visit
  <1>4. elem \in h.seen /\ Tail(h.queue) \in Seq(h.seen)
    BY <1>2, HeadTailProperties DEF HandlerOK
  <1>5. h.seen \subseteq Type \cup Object
    BY <1>2 DEF HandlerOK
  <1>6. new \subseteq Type \cup Object /\ IsFiniteSet(new)
    <2>1. Children(graph, elem) \subseteq Type \cup Object
      BY <1>1, <1>4, <1>5, LinkKinds, Ids DEF Children, Out, TypeOK, GraphOK
    <2>2. IsFiniteSet(Out(graph, elem))
      BY <1>1, FS_Subset DEF Out, TypeOK, GraphOK
    <2>3. IsFiniteSet(Children(graph, elem))
      <3> DEFINE f == [l \in Out(graph, elem) |-> l[3]]
      <3>1. f \in Surjection(Out(graph, elem), Children(graph, elem))
        BY DEF Children, Surjection
      <3> QED
        BY <2>2, <3>1, FS_Surjection
    <2>4. IsFiniteSet(new)
      BY <2>3, FS_Subset
    <2> QED
      BY <2>1, <2>4
  <1>7. PICK q, s, t :
           /\ handler' = [handler EXCEPT ![n] = [h EXCEPT !.queue = q, !.seen = s, !.todo = t]]
           /\ q \in Seq(s) /\ s = h.seen \cup new
           /\ t = << >> \/ t = <<VDelete(elem)>>
    <2>1. PICK found \in SetToSeqs(new) :
             handler' = [handler EXCEPT
                           ![n].queue = Tail(h.queue) \o found, ![n].seen = @ \cup new,
                           ![n].todo = IF Tail(h.queue) \o found = << >> THEN << >> ELSE <<VDelete(elem)>>]
      BY DEF Visit
    <2>2. found \in Seq(new)
      <3>1. Cardinality(new) \in Nat
        BY <1>6, FS_CardinalityType
      <3>2. found \in [1 .. Cardinality(new) -> new]
        BY DEF SetToSeqs
      <3> QED
        BY <3>1, <3>2, SeqDef
    <2>3. Tail(h.queue) \o found \in Seq(h.seen \cup new)
      <3>1. Tail(h.queue) \in Seq(h.seen \cup new) /\ found \in Seq(h.seen \cup new)
        <4>1. PICK S : S = h.seen \cup new
          OBVIOUS
        <4>2. h.seen \subseteq S /\ new \subseteq S
          BY <4>1
        <4>3. Tail(h.queue) \in Seq(S)
          BY <1>4, <4>2, SeqMonotonic
        <4>4. found \in Seq(S)
          BY <2>2, <4>2, SeqMonotonic
        <4> QED
          BY <4>1, <4>3, <4>4
      <3> QED
        BY <3>1, ConcatProperties
    <2> QED
      BY <2>1, <2>3
  <1>8. PICK g : g = [h EXCEPT !.queue = q, !.seen = s, !.todo = t]
    OBVIOUS
  <1>9. /\ g.call = h.call /\ g.queue = q /\ g.seen = s /\ g.todo = t
        /\ HandlerRecord(g)
    <2>1. PICK c, td0, st0, q0, sn, bf :
             h = [call |-> c, todo |-> td0, stack |-> st0, queue |-> q0, seen |-> sn, before |-> bf]
      BY <1>2 DEF HandlerOK, HandlerRecord
    <2>2. PICK k : k = h
      OBVIOUS
    <2>3. k.call = c
      BY <2>1, <2>2
    <2>4. g = [k EXCEPT !.queue = q, !.seen = s, !.todo = t]
      BY <1>8, <2>2
    <2>5. k = [call |-> c, todo |-> td0, stack |-> st0, queue |-> q0, seen |-> sn, before |-> bf]
      BY <2>1, <2>2
    <2>6. g.call = c /\ g.queue = q /\ g.seen = s /\ g.todo = t
      BY <2>4, <2>5
    <2>7. HandlerRecord(g)
      BY <2>4, <2>5 DEF HandlerRecord
    <2> QED
      BY <2>2, <2>3, <2>6, <2>7
  <1>10. /\ DOMAIN handler' = DOMAIN handler /\ handler'[n] = g
         /\ \A m \in DOMAIN handler \ {n} : handler'[m] = handler[m]
         /\ handler' = [m \in DOMAIN handler' |-> handler'[m]]
    BY <1>1, <1>7, <1>8 DEF TypeOK
  <1>11. HandlerOK(g)
    <2>1. t \in Todos(h.call, s) \cup {<< >>}
      BY <1>2, <1>4, <1>7 DEF Todos, IsCascade
    <2> QED
      BY <1>2, <1>5, <1>6, <1>7, <1>9, <2>1 DEF HandlerOK
  <1>12. TypeOK'
    <2>1. \A m \in DOMAIN handler' : HandlerOK(handler[m])'
      <3> SUFFICES ASSUME NEW m \in DOMAIN handler'
                   PROVE  HandlerOK(handler'[m])
        OBVIOUS
      <3> QED
        BY <1>1, <1>10, <1>11 DEF TypeOK
    <2> QED
      BY <1>1, <1>3, <1>10, <2>1 DEF TypeOK
  <1>13. Apart'
    BY <1>1, <1>9, <1>10 DEF Apart
  <1>14. Announcing'
    <2> SUFFICES ASSUME NEW m \in DOMAIN handler'
                 PROVE  Announced(handler[m])'
      BY DEF Announcing
    <2>1. CASE m = n
      BY <1>2, <1>9, <1>10, <2>1 DEF Announced, IsCascade
    <2>2. CASE m # n
      <3>1. handler'[m] = handler[m] /\ Announced(handler[m])
        BY <1>1, <1>10, <2>2 DEF Announcing
      <3> QED
        BY <3>1 DEF Announced
    <2> QED
      BY <2>1, <2>2
  <1>15. Loose' = Loose \cup s
    BY <1>2, <1>3, <1>5, <1>6, <1>7, <1>9, <1>10 DEF Loose
  <1>16. CascadesFound(h)
    BY <1>1 DEF Main, Relies
  <1>17. Frame(Loose', K)
    <2>1. h.call.at \in Loose'
      BY <1>2, <1>7, <1>15, <1>16 DEF CascadesFound
    <2> QED
      BY <1>3, <1>9, <1>10, <1>15, <2>1, QuietGraph DEF Frame
  <1>18. Relies(handler[n])'
    <2>1. CascadesFound(g)'
      <3>1. h.call.at \in s
        BY <1>2, <1>7, <1>16 DEF CascadesFound
      <3>2. ASSUME t # << >>, NEW o \in Object \ Loose'
            PROVE  Third(o, t[1].at) \notin L'
        <4>1. t[1].at = elem
          BY <1>7, <3>2 DEF VDelete
        <4>2. o \notin Children(graph, elem)
          BY <1>7, <1>15, <3>2
        <4>3. Third(o, elem)[1] = elem /\ Third(o, elem)[3] = o
          BY DEF Third
        <4> QED
          BY <1>3, <4>1, <4>2, <4>3 DEF Children, Out, L
      <3> QED
        BY <1>9, <3>1, <3>2 DEF CascadesFound
    <2>2. Relies(g)'
      BY <1>2, <1>9, <2>1 DEF Relies, CreatesUnused, ListsThere, LinksUnlinked, ChangesUnused,
         LinkFn, LinksWhole, LinksAsTyped, IsCascade
    <2> QED
      BY <1>10, <2>2
  <1>19. Main'
    <2>1. \A m \in DOMAIN handler' \ K : Relies(handler[m])'
      BY <1>10, <1>18
    <2> QED
      BY <1>1, <1>17, <2>1, SteadyStep
  <1> QED
    BY <1>12, <1>13, <1>14, <1>19 DEF IInv

-----------------------------------------------------------------------------
(* Calls that end, and late requests *)

\* What a handler that goes leaves.
LEMMA GoneHandler ==
    ASSUME TypeOK, Apart, Announcing, NEW n \in DOMAIN handler, handler' = Without(handler, {n})
    PROVE  /\ DOMAIN handler' = DOMAIN handler \ {n}
           /\ \A m \in DOMAIN handler' : handler'[m] = handler[m]
           /\ handler' = [m \in DOMAIN handler' |-> handler'[m]]
           /\ Apart' /\ Announcing'
           /\ \A m \in DOMAIN handler' : HandlerOK(handler[m])'
  <1>1. /\ DOMAIN handler' = DOMAIN handler \ {n}
        /\ \A m \in DOMAIN handler' : handler'[m] = handler[m]
        /\ handler' = [m \in DOMAIN handler' |-> handler'[m]]
    BY DEF Without, Restrict
  <1>2. Apart'
    <2> SUFFICES ASSUME NEW p \in DOMAIN handler', NEW m \in DOMAIN handler', m # p
                 PROVE  /\ About(handler'[p].call) \cap About(handler'[m].call) = {}
                        /\ ~ Creates(handler'[p].call, handler'[m].call.type)
                        /\ ~ Alone(handler'[p].call)
      BY DEF Apart
    <2>1. handler'[p] = handler[p] /\ handler'[m] = handler[m] /\ {m, p} \subseteq DOMAIN handler
      BY <1>1
    <2> QED
      BY <2>1 DEF Apart
  <1>3. Announcing'
    <2> SUFFICES ASSUME NEW m \in DOMAIN handler'
                 PROVE  Announced(handler[m])'
      BY DEF Announcing
    <2>1. handler'[m] = handler[m] /\ Announced(handler[m])
      BY <1>1 DEF Announcing
    <2> QED
      BY <2>1 DEF Announced
  <1>4. \A m \in DOMAIN handler' : HandlerOK(handler[m])'
    <2> SUFFICES ASSUME NEW m \in DOMAIN handler'
                 PROVE  HandlerOK(handler'[m])
      OBVIOUS
    <2> QED
      BY <1>1 DEF TypeOK
  <1> QED
    BY <1>1, <1>2, <1>3, <1>4

\* A request fails: what its call is about becomes loose.
LEMMA FailInvariant ==
    ASSUME IInv, NEW n \in DOMAIN handler, Fail(n)
    PROVE  IInv'
  <1> DEFINE h == handler[n]
             K == DOMAIN handler \ {n}
  <1>1. TypeOK /\ Apart /\ Main /\ Announcing
    BY DEF IInv
  <1>2. HandlerOK(h) /\ h.todo # << >> /\ RequestOK(Head(h.todo))
    BY <1>1, NextOK DEF TypeOK, Fail
  <1>3. /\ graph' = graph /\ bare' = bare /\ calls' = calls /\ failures' = failures + 1
        /\ late' = late \cup {Head(h.todo)} /\ handler' = Without(handler, {n})
        /\ disturbed' = disturbed \cup About(h.call) \cup (IF IsCascade(h.call) THEN h.seen ELSE {})
    BY DEF Fail
  <1>4. /\ DOMAIN handler' = DOMAIN handler \ {n}
        /\ \A m \in DOMAIN handler' : handler'[m] = handler[m]
        /\ handler' = [m \in DOMAIN handler' |-> handler'[m]]
        /\ Apart' /\ Announcing'
        /\ \A m \in DOMAIN handler' : HandlerOK(handler[m])'
    BY <1>1, <1>3, GoneHandler
  <1>5. TypeOK'
    <2>1. \A r \in late' : RequestOK(r)
      BY <1>1, <1>2, <1>3 DEF TypeOK
    <2>2. GraphOK(graph)' /\ calls' \in Nat /\ DOMAIN handler' \subseteq 1 .. calls' /\ failures' \in Nat
      BY <1>1, <1>3, <1>4 DEF TypeOK
    <2> QED
      BY <1>4, <2>1, <2>2 DEF TypeOK
  <1>6. Loose \subseteq Loose' /\ h.call.at \in Loose'
    BY <1>1, <1>3, <1>4 DEF Loose, About
  <1>7. Frame(Loose', K)
    BY <1>3, <1>4, <1>6, QuietGraph DEF Frame
  <1>8. Main'
    BY <1>1, <1>4, <1>7, SteadyStep
  <1> QED
    BY <1>4, <1>5, <1>8 DEF IInv

\* A late request makes loose what it touches.
LEMMA LateInvariant ==
    ASSUME IInv, NEW r \in late, Late(r)
    PROVE  IInv'
  <1>1. TypeOK /\ Apart /\ Main /\ Announcing
    BY DEF IInv
  <1>2. RequestOK(r) /\ GraphOK(graph)
    BY <1>1 DEF TypeOK
  <1>3. /\ graph' = Apply(graph, r) /\ bare' = Bare(r) /\ late' = late \ {r}
        /\ handler' = handler /\ calls' = calls /\ failures' = failures
    BY DEF Late
  <1>4. TypeOK'
    <2>1. GraphOK(graph)'
      BY <1>2, <1>3, ApplyGraphOK
    <2>2. \A m \in DOMAIN handler' : HandlerOK(handler[m])'
      BY <1>1, <1>3 DEF TypeOK
    <2> QED
      BY <1>1, <1>3, <2>1, <2>2 DEF TypeOK
  <1>5. Apart'
    BY <1>1, <1>3 DEF Apart
  <1>6. Announcing'
    BY <1>1, <1>3 DEF Announcing, Announced
  <1>7. Loose \subseteq Loose' /\ disturbed' \subseteq Loose'
    BY <1>3 DEF Loose, Late
  <1>8. Quiet(Loose')
    <2>1. PICK X : X = Loose'
      OBVIOUS
    <2>2. CASE r.op \in VertexOp
      <3>1. r.at \in X /\ \A l \in Touching(graph, r.at) : l[1] \in X /\ l[3] \in X
        BY <1>7, <2>1, <2>2 DEF Late, VertexOp
      <3>2. ASSUME NEW o \in Object \ X
            PROVE  Touching(graph, r.at) \cap Structure(o) = {}
        BY <3>1, StructureLinks
      <3>3. Quiet(X)
        BY <1>2, <1>3, <2>2, <3>1, <3>2, ApplyQuiet DEF VertexOp, LinkOp
      <3> QED
        BY <2>1, <3>3
    <2>3. CASE r.op \in LinkOp
      <3>1. r.at[1] \in X /\ r.at[3] \in X
        BY <1>7, <2>1, <2>3 DEF Late, LinkOp
      <3>2. r.at[3] \in Type \cup Object
        BY <1>2, <2>3, LinkKinds DEF RequestOK, LinkOp, VertexOp
      <3>3. Quiet(X)
        BY <1>2, <1>3, <2>3, <3>1, <3>2, ApplyQuiet DEF VertexOp, LinkOp
      <3> QED
        BY <2>1, <3>3
    <2> QED
      BY <1>2, <2>2, <2>3 DEF RequestOK
  <1>9. Frame(Loose', DOMAIN handler)
    BY <1>3, <1>7, <1>8 DEF Frame
  <1>10. Main'
    BY <1>1, <1>3, <1>9, SteadyStep
  <1> QED
    BY <1>4, <1>5, <1>6, <1>10 DEF IInv

\* An object without requests left to its creation is whole.
LEMMA MadeIsTyped ==
    ASSUME NEW o \in Object, NEW t \in Type, Made(o, t, 0)
    PROVE  Typed(o, t)
  <1>1. Touching(graph, o) = {First(o), Second(o, t), Third(o, t)} /\ o \in V /\ TypeThere(t)
    BY DEF Made, Done
  <1>2. L \cap Structure(o) = {First(o), Second(o, t), Third(o, t)}
    BY <1>1, StructureLinks, LinksOfObjects DEF Touching, L
  <1> QED
    BY <1>1, <1>2 DEF Typed

\* A call is answered.
LEMMA FinishInvariant ==
    ASSUME IInv, NEW n \in DOMAIN handler, Finish(n)
    PROVE  IInv'
  <1> DEFINE h == handler[n]
             K == DOMAIN handler \ {n}
             X == Loose \cup About(h.call)
  <1>1. TypeOK /\ Apart /\ Main /\ Announcing
    BY DEF IInv
  <1>2. HandlerOK(h) /\ h.todo = << >> /\ h.call \in Calls
    BY <1>1 DEF TypeOK, HandlerOK, Finish
  <1>3. /\ graph' = graph /\ bare' = bare /\ calls' = calls /\ failures' = failures
        /\ late' = late /\ handler' = Without(handler, {n})
        /\ disturbed' = IF IsCascade(h.call) THEN disturbed \cup h.seen ELSE disturbed
    BY DEF Finish
  <1>4. /\ DOMAIN handler' = DOMAIN handler \ {n}
        /\ \A m \in DOMAIN handler' : handler'[m] = handler[m]
        /\ handler' = [m \in DOMAIN handler' |-> handler'[m]]
        /\ Apart' /\ Announcing'
        /\ \A m \in DOMAIN handler' : HandlerOK(handler[m])'
    BY <1>1, <1>3, GoneHandler
  <1>5. TypeOK'
    BY <1>1, <1>3, <1>4 DEF TypeOK
  <1>6. Loose' = Loose
    <2>1. CASE IsCascade(h.call)
      BY <1>1, <1>2, <1>3, <1>4, <2>1 DEF Loose, HandlerOK
    <2>2. CASE ~ IsCascade(h.call)
      BY <1>3, <1>4, <2>2 DEF Loose
    <2> QED
      BY <2>1, <2>2
  <1>7. Main'
    <2>1. CASE IsCascade(h.call)
      <3>1. h.call.at \in Loose
        BY <1>1, <2>1, CascadeHandler DEF Main, Relies, CascadesFound
      <3>2. Frame(Loose', K)
        BY <1>3, <1>4, <1>6, <3>1, QuietGraph DEF Frame
      <3> QED
        BY <1>1, <1>4, <3>2, SteadyStep
    <2>2. CASE ~ IsCascade(h.call)
      <3>1. Frame(X, K)
        BY <1>3, <1>4, <1>6, QuietGraph DEF Frame, About
      <3>2. Distinct(X, K)
        BY <1>1, <1>6, DoDistinct
      <3>3. TypesSame /\ NoNewLinks
        BY <1>3 DEF TypesSame, NoNewLinks, V, L
      <3>4. TypesStay(X, K) /\ LinksStay(X, K) /\ NewTypes(K) /\ NewLinks
        BY <1>6, <3>3, SameStays, OldLinks
      <3>5. ASSUME NEW o \in (Object \cap About(h.call)) \ Loose
            PROVE  ObjectOK(o)'
        <4>1. \A m \in DOMAIN handler : Maker(o, m) => m = n
          BY <1>1 DEF Maker, Apart, About
        <4>2. ~ \E m \in DOMAIN handler' : Maker(o, m)'
          BY <1>4, <4>1 DEF Maker
        <4>3. IsWhole(o) \/ IsUnmade(o)
          <5>1. CASE Maker(o, n)
            <6>1. PICK t : t = h.call.type
              OBVIOUS
            <6>2. t \in Type
              BY <1>2, <5>1, <6>1, CallKinds DEF Maker, TypeFn, TypesLinkFn, ObjectsLinkFn
            <6>3. Len(h.todo) = 0
              BY <1>2
            <6>4. Made(o, t, 0)
              BY <1>1, <5>1, <6>1, <6>3 DEF Main, ObjectOK
            <6> QED
              BY <6>2, <6>4, MadeIsTyped DEF IsWhole
          <5>2. CASE ~ Maker(o, n)
            BY <1>1, <4>1, <5>2 DEF Main, ObjectOK
          <5> QED
            BY <5>1, <5>2
        <4>4. IsWhole(o)' \/ IsUnmade(o)'
          BY <1>3, <1>6, <4>3 DEF IsWhole, IsUnmade, Typed, TypeThere, V, L
        <4> QED
          BY <4>2, <4>4 DEF ObjectOK
      <3>6. \A t \in Type \ Loose : InList(t) \in L' => t \in V'
        BY <1>1, <1>3 DEF Main, TypesThere, V, L
      <3>7. Settled(X, K)
        BY <1>4, <1>6, <3>5, <3>6 DEF Settled
      <3> QED
        BY <1>1, <3>1, <3>2, <3>4, <3>7, MainStays
    <2> QED
      BY <2>1, <2>2
  <1> QED
    BY <1>4, <1>5, <1>7 DEF IInv

-----------------------------------------------------------------------------
(* Calls that begin *)

\* The calls of clients have no prefix.
LEMMA NoPrefix ==
    ASSUME NEW c \in Calls
    PROVE  /\ c.prefix \o <<"types">> = types /\ c.prefix \o <<"objects">> = objects
           /\ c.type \in Type => c.prefix \o c.type = c.type
  <1>1. c.prefix = << >>
    BY CallKinds
  <1>2. c.prefix \o <<"types">> = types /\ c.prefix \o <<"objects">> = objects
    BY <1>1 DEF types, objects
  <1>3. ASSUME c.type \in Type
        PROVE  c.prefix \o c.type = c.type
    <2>1. PICK x : c.type = <<x>>
      BY <1>3, IdsAreApart
    <2> QED
      BY <1>1, <2>1
  <1> QED
    BY <1>2, <1>3

\* What a call begins with: requests that nothing in the graph forbids.
Planned(c, todo) ==
    /\ todo \in Todos(c, {c.at}) \cup {<< >>}
    /\ IsCascade(c) => todo = << >>
    /\ c.fn = "type.create" /\ todo # << >> => Len(todo) = 2 /\ InList(c.at) \notin L
    /\ c.fn = "types.link.create" /\ todo # << >> => Between(c.at, c.to) \notin L
    /\ c.fn = "object.create" /\ todo # << >> => Len(todo) = 4 /\ First(c.at) \notin L
    /\ c.fn \in LinkFn /\ todo # << >> =>
         \E a, b \in Type : /\ Second(c.at, a) \in L /\ Second(c.to, b) \in L
                            /\ HasLink(a, b, todo[1].at[2])

\* A link type that is found is that of a link between the types of the objects.
LEMMA LinkTypes ==
    ASSUME GraphOK(graph), NEW o \in Object, NEW p \in Object, NEW x \in LinkTypeOf(graph, o, p), x # None
    PROVE  /\ x \in LinkType
           /\ \E a, b \in Type : Second(o, a) \in L /\ Second(p, b) \in L /\ HasLink(a, b, x)
  <1>1. PICK a \in ObjectTypes(graph, o), b \in ObjectTypes(graph, p) :
           Between(a, b) \in L /\ graph.link[Between(a, b)].val = x
    <2> DEFINE F(a, b) == IF Between(a, b) \in DOMAIN graph.link
                          THEN graph.link[Between(a, b)].val ELSE None
    <2>1. LinkTypeOf(graph, o, p) = {F(a, b) : a \in ObjectTypes(graph, o), b \in ObjectTypes(graph, p)}
      BY DEF LinkTypeOf, Between
    <2> HIDE DEF F
    <2>2. PICK a \in ObjectTypes(graph, o), b \in ObjectTypes(graph, p) : x = F(a, b)
      BY <2>1
    <2> QED
      BY <2>2 DEF F, L
  <1>2. a \in Type /\ b \in Type
    <2>1. Between(a, b) \in LinkKey /\ Between(a, b)[1] = a /\ Between(a, b)[2] = "__type"
          /\ Between(a, b)[3] = b
      BY <1>1 DEF GraphOK, Between, L
    <2>2. b \in Type
      BY <2>1, LinkKinds, Ids
    <2>3. a \in OutOfType(graph, o, "__type")
      <3>1. a = None \/ a \in OutOfType(graph, o, "__type")
        BY <1>1 DEF ObjectTypes
      <3>2. a # None
        BY <2>1, LinkKinds, Ids
      <3> QED
        BY <3>1, <3>2
    <2>4. PICK l \in L : l[1] = o /\ l[2] = "__type" /\ l[3] = a
      BY <2>3 DEF OutOfType, Out, L
    <2>5. a \in Type
      BY <2>4, LinkKinds, Ids DEF GraphOK, L
    <2> QED
      BY <2>2, <2>5
  <1>3. Second(o, a) \in L /\ Second(p, b) \in L
    <2>1. a # None /\ b # None
      BY <1>2, Ids
    <2>2. a \in OutOfType(graph, o, "__type") /\ b \in OutOfType(graph, p, "__type")
      BY <1>1, <2>1 DEF ObjectTypes
    <2>3. PICK l \in L, k \in L : l[1] = o /\ l[2] = "__type" /\ l[3] = a
                                /\ k[1] = p /\ k[2] = "__type" /\ k[3] = b
      BY <2>2 DEF OutOfType, Out, L
    <2>4. l = Second(o, a) /\ k = Second(p, b)
      BY <2>3, LinkKinds DEF GraphOK, L, Second
    <2> QED
      BY <2>3, <2>4
  <1>4. x \in LinkType
    BY <1>1, <1>2, Ids DEF GraphOK, Between, L
  <1> QED
    BY <1>1, <1>2, <1>3, <1>4 DEF HasLink

\* The plans of each function, with the links by name.
LEMMA PlansOfFunctions ==
    ASSUME NEW c \in Calls
    PROVE  /\ c.fn = "type.create" => Plans(graph, c) = CreateType(graph, c)
           /\ c.fn = "type.update" => Plans(graph, c) = UpdateType(graph, c)
           /\ c.fn = "types.link.create" => Plans(graph, c) = CreateTypesLink(graph, c)
           /\ c.fn = "types.link.update" => Plans(graph, c) = UpdateTypesLink(graph, c)
           /\ c.fn = "object.create" => Plans(graph, c) = CreateObject(graph, c)
           /\ c.fn = "object.update" => Plans(graph, c) = UpdateObject(graph, c)
           /\ c.fn = "object.delete" => Plans(graph, c) = DeleteObject(graph, c)
           /\ c.fn = "objects.link.create" => Plans(graph, c) = CreateObjectsLink(graph, c)
           /\ c.fn = "objects.link.update" => Plans(graph, c) = UpdateObjectsLink(graph, c)
           /\ c.fn = "objects.link.delete" => Plans(graph, c) = DeleteObjectsLink(graph, c)
           /\ c.fn \in {"type.delete", "types.link.delete"} => Plans(graph, c) = DeleteNothing(graph, c)
  BY DEF Plans

\* One request before three others.
LEMMA OneAndThree ==
    ASSUME NEW S, NEW s \in Seq(S), NEW t \in Seq(S), Len(s) = 1, Len(t) = 3
    PROVE  /\ s \o t \in Seq(S) /\ Len(s \o t) = 4
           /\ (s \o t)[1] = s[1] /\ (s \o t)[2] = t[1]
           /\ (s \o t)[3] = t[2] /\ (s \o t)[4] = t[3]
  <1>1. /\ s \o t \in Seq(S) /\ Len(s \o t) = Len(s) + Len(t)
        /\ \A i \in 1 .. Len(s) + Len(t) :
             (s \o t)[i] = IF i <= Len(s) THEN s[i] ELSE t[i - Len(s)]
    BY ConcatProperties, Zenon
  <1>2. PICK u : u = s \o t
    OBVIOUS
  <1>3. u \in Seq(S) /\ Len(u) = 4 /\ \A i \in 1 .. 4 : u[i] = IF i <= 1 THEN s[i] ELSE t[i - 1]
    BY <1>1, <1>2
  <1>4. u[1] = s[1] /\ u[2] = t[1] /\ u[3] = t[2] /\ u[4] = t[3]
    BY <1>3
  <1> QED
    BY <1>2, <1>3, <1>4

\* A sequence of four, from the first and a function with the others.
LEMMA Four ==
    ASSUME NEW a, NEW f, f = [i \in 1 .. 3 |-> f[i]]
    PROVE  <<a>> \o f = <<a, f[1], f[2], f[3]>>
  <1>1. PICK b, c, d : b = f[1] /\ c = f[2] /\ d = f[3]
    OBVIOUS
  <1>2. f = <<b, c, d>>
    <2>1. DOMAIN f = 1 .. 3 /\ DOMAIN <<b, c, d>> = 1 .. 3
      OBVIOUS
    <2>2. \A i \in 1 .. 3 : f[i] = <<b, c, d>>[i]
      BY <1>1
    <2> QED
      BY <2>1, <2>2, SMT
  <1>3. <<a>> \o <<b, c, d>> = <<a, b, c, d>>
    <2> DEFINE S == {a, b, c, d}
               left == <<a>>
               right == <<b, c, d>>
               all == <<a, b, c, d>>
    <2>1. left \in Seq(S) /\ right \in Seq(S) /\ all \in Seq(S)
      OBVIOUS
    <2>2. /\ Len(left) = 1 /\ left[1] = a
          /\ Len(right) = 3 /\ right[1] = b /\ right[2] = c /\ right[3] = d
          /\ Len(all) = 4 /\ all[1] = a /\ all[2] = b /\ all[3] = c /\ all[4] = d
      OBVIOUS
    <2> HIDE DEF left, right, all, S
    <2>3. /\ left \o right \in Seq(S) /\ Len(left \o right) = 4
          /\ (left \o right)[1] = left[1] /\ (left \o right)[2] = right[1]
          /\ (left \o right)[3] = right[2] /\ (left \o right)[4] = right[3]
      BY <2>1, <2>2, OneAndThree
    <2>5. \A i \in 1 .. 4 : i = 1 \/ i = 2 \/ i = 3 \/ i = 4
      OBVIOUS
    <2>6. \A i \in 1 .. 4 : (left \o right)[i] = all[i]
      BY <2>2, <2>3, <2>5
    <2>7. left \o right = all
      BY <2>1, <2>2, <2>3, <2>6, SeqEqual
    <2> QED
      BY <2>7 DEF left, right, all
  <1> QED
    BY <1>1, <1>2, <1>3

\* Plans say what Planned says: a created type is not listed, a created
\* object not known, a created link not there, and a link between objects is
\* one that their types have.
LEMMA PlansPlanned ==
    ASSUME GraphOK(graph), NEW c \in Calls, NEW plan \in Plans(graph, c)
    PROVE  Planned(c, plan.todo)
  <1>1. c.prefix \o <<"types">> = types /\ c.prefix \o <<"objects">> = objects
        /\ c.body = Blank
    BY NoPrefix, CallKinds DEF Blank
  <1>o. \A q : Ok(q).todo = q
    BY DEF Ok
  <1>2. CASE c.fn = "type.create"
    <2>1. CreateType(graph, c) =
            {IF InList(c.at) \in L THEN Ok(<< >>)
             ELSE Ok(<<VCreate(c.at, c.body), LCreate(InList(c.at), Body(None))>>)}
      BY <1>1 DEF CreateType, InList, L
    <2>2. CreateType(graph, c) =
            {IF InList(c.at) \in L THEN Ok(<< >>) ELSE Ok(<<VCreate(c.at, Blank), Listing(c.at)>>)}
      BY <2>1, <1>1 DEF Listing, Blank
    <2> DEFINE both == <<VCreate(c.at, Blank), Listing(c.at)>>
    <2>3. plan = Ok(<< >>) \/ (plan = Ok(both) /\ InList(c.at) \notin L)
      BY <1>2, <2>2, PlansOfFunctions
    <2>4. Len(both) = 2 /\ both \in Todos(c, {c.at})
      BY <1>2 DEF Todos
    <2> HIDE DEF both
    <2>5. plan.todo = << >> \/ (plan.todo = both /\ InList(c.at) \notin L)
      BY <2>3, <1>o
    <2> QED
      BY <1>2, <2>4, <2>5 DEF Planned, LinkFn, IsCascade
  <1>3. CASE c.fn \in {"type.update", "object.update"}
    <2>1. plan.todo = <<VUpdate(c.at, Blank, "merge")>>
      <3>1. c.mode = "merge"
        BY <1>3, CallKinds
      <3> QED
        BY <1>1, <1>3, <3>1 DEF Plans, UpdateType, UpdateObject, Ok
    <2> QED
      BY <1>3, <2>1 DEF Planned, Todos, LinkFn, IsCascade
  <1>4. CASE c.fn = "types.link.create"
    <2>1. \/ plan.todo = << >>
          \/ plan.todo = <<LCreate(Between(c.at, c.to), Body(c.lt))>> /\ Between(c.at, c.to) \notin L
      BY <1>4 DEF Plans, CreateTypesLink, Ok, Between, L
    <2> QED
      BY <1>4, <2>1 DEF Planned, Todos, LinkFn, IsCascade
  <1>5. CASE c.fn = "types.link.update"
    <2> DEFINE b == [c.body EXCEPT !.val = c.lt]
    <2>1. b = Body(c.lt)
      <3>1. PICK k : k = Body(None)
        OBVIOUS
      <3>2. k = [val |-> k.val, gone |-> k.gone] /\ k.gone = FALSE
        BY <3>1 DEF Body
      <3>3. [k EXCEPT !.val = c.lt] = [val |-> c.lt, gone |-> k.gone]
        BY <3>2
      <3> QED
        BY <3>1, <3>2, <3>3, CallKinds DEF Body
    <2>2. plan \in {IF c.lt # None /\ Between(c.at, c.to) \notin L THEN Refused
                    ELSE Ok(<<LUpdate(Between(c.at, c.to), b)>>)}
      BY <1>5, PlansOfFunctions DEF UpdateTypesLink, Between, L
    <2> HIDE DEF b
    <2>3. plan.todo = << >> \/ plan.todo = <<LUpdate(Between(c.at, c.to), Body(c.lt))>>
      BY <2>1, <2>2 DEF Refused, Ok
    <2> QED
      BY <1>5, <2>3 DEF Planned, Todos, LinkFn, IsCascade
  <1>6. CASE c.fn = "object.create"
    <2> DEFINE one == LCreate(First(c.at), Blank)
               two == LCreate(Second(c.at, c.type), Blank)
               three == LCreate(Third(c.at, c.type), Blank)
               links == [i \in 1 .. 3 |-> LCreate(ObjectLinks(c)[i], Body(None))]
    <2>1. c.prefix \o c.type = c.type
      BY <1>6, NoPrefix, CallKinds DEF TypeFn, TypesLinkFn, ObjectsLinkFn
    <2>2. ObjectLinks(c) = <<First(c.at), Second(c.at, c.type), Third(c.at, c.type)>>
      BY <1>1, <2>1 DEF ObjectLinks, First, Second, Third
    <2>3. ObjectLinks(c)[1] = First(c.at) /\ ObjectLinks(c)[2] = Second(c.at, c.type)
          /\ ObjectLinks(c)[3] = Third(c.at, c.type)
      BY <2>2
    <2>4. links = [i \in 1 .. 3 |-> links[i]] /\ links[1] = one /\ links[2] = two /\ links[3] = three
      BY <2>3 DEF Blank
    <2>5. plan \in {IF First(c.at) \in L THEN Ok(<< >>) ELSE Ok(<<VCreate(c.at, c.body)>> \o links)}
      BY <1>6, <2>3, PlansOfFunctions DEF CreateObject, L
    <2> HIDE DEF one, two, three, links
    <2> DEFINE all == <<VCreate(c.at, Blank), one, two, three>>
    <2>6. <<VCreate(c.at, c.body)>> \o links = all
      BY <1>1, <2>4, Four
    <2>7. Len(all) = 4 /\ all \in Todos(c, {c.at})
      BY <1>6 DEF Todos, one, two, three
    <2> HIDE DEF all
    <2>8. plan.todo = << >> \/ (plan.todo = all /\ First(c.at) \notin L)
      BY <2>5, <2>6, <1>o
    <2> QED
      BY <1>6, <2>7, <2>8 DEF Planned, LinkFn, IsCascade
  <1>7. CASE c.fn = "object.delete"
    <2>1. plan.todo = IF c.mode = "cascade" THEN << >> ELSE <<VDelete(c.at)>>
      BY <1>7 DEF Plans, DeleteObject, Ok
    <2> QED
      BY <1>7, <2>1 DEF Planned, Todos, LinkFn, IsCascade
  <1>8. CASE c.fn \in ObjectsLinkFn
    <2>1. c.at \in Object /\ c.to \in Object
      BY <1>8, CallKinds DEF TypeFn, TypesLinkFn, ObjectsLinkFn
    <2> DEFINE Chosen(x, r) ==
                  \/ c.fn = "objects.link.create" /\ r = LCreate(<<c.at, x, c.to>>, Blank)
                  \/ c.fn = "objects.link.update" /\ r = LUpdate(<<c.at, x, c.to>>, Blank)
                  \/ c.fn = "objects.link.delete" /\ r = LDelete(<<c.at, x, c.to>>)
    <2>2. PICK x \in LinkTypeOf(graph, c.at, c.to) :
             plan.todo = << >> \/ (x # None /\ \E r : Chosen(x, r) /\ plan.todo = <<r>>)
      <3>1. CASE c.fn = "objects.link.create"
        <4> DEFINE P(x) == IF <<c.at, x, c.to>> \in DOMAIN graph.link THEN << >>
                           ELSE <<LCreate(<<c.at, x, c.to>>, c.body)>>
        <4>1. CreateObjectsLink(graph, c) =
                {IF x = None THEN Refused ELSE Ok(P(x)) : x \in LinkTypeOf(graph, c.at, c.to)}
          BY DEF CreateObjectsLink, WithLinkType
        <4>2. \A x : P(x) = << >> \/ \E r : Chosen(x, r) /\ P(x) = <<r>>
          BY <1>1, <3>1
        <4> HIDE DEF P
        <4>3. PICK x \in LinkTypeOf(graph, c.at, c.to) : plan = IF x = None THEN Refused ELSE Ok(P(x))
          BY <3>1, <4>1, PlansOfFunctions
        <4> QED
          BY <4>2, <4>3, <1>o DEF Refused
      <3>2. CASE c.fn = "objects.link.update"
        <4> DEFINE P(x) == <<LUpdate(<<c.at, x, c.to>>, c.body)>>
        <4>1. UpdateObjectsLink(graph, c) =
                {IF x = None THEN Refused ELSE Ok(P(x)) : x \in LinkTypeOf(graph, c.at, c.to)}
          BY DEF UpdateObjectsLink, WithLinkType
        <4>2. \A x : \E r : Chosen(x, r) /\ P(x) = <<r>>
          BY <1>1, <3>2
        <4> HIDE DEF P
        <4>3. PICK x \in LinkTypeOf(graph, c.at, c.to) : plan = IF x = None THEN Refused ELSE Ok(P(x))
          BY <3>2, <4>1, PlansOfFunctions
        <4> QED
          BY <4>2, <4>3, <1>o DEF Refused
      <3>3. CASE c.fn = "objects.link.delete"
        <4> DEFINE P(x) == <<LDelete(<<c.at, x, c.to>>)>>
        <4>1. DeleteObjectsLink(graph, c) =
                {IF x = None THEN Refused ELSE Ok(P(x)) : x \in LinkTypeOf(graph, c.at, c.to)}
          BY DEF DeleteObjectsLink, WithLinkType
        <4>2. \A x : \E r : Chosen(x, r) /\ P(x) = <<r>>
          BY <3>3
        <4> HIDE DEF P
        <4>3. PICK x \in LinkTypeOf(graph, c.at, c.to) : plan = IF x = None THEN Refused ELSE Ok(P(x))
          BY <3>3, <4>1, PlansOfFunctions
        <4> QED
          BY <4>2, <4>3, <1>o DEF Refused
      <3> QED
        BY <1>8, <3>1, <3>2, <3>3 DEF ObjectsLinkFn
    <2>3. CASE plan.todo = << >>
      BY <2>3, <1>8 DEF Planned, ObjectsLinkFn
    <2>4. ASSUME x # None, NEW r, Chosen(x, r), plan.todo = <<r>>
          PROVE  Planned(c, plan.todo)
      <3>1. x \in LinkType /\ \E a, b \in Type : /\ Second(c.at, a) \in L /\ Second(c.to, b) \in L
                                                 /\ HasLink(a, b, x)
        BY <2>1, <2>2, <2>4, LinkTypes
      <3>2. <<r>> \in Todos(c, {c.at})
        BY <2>4, <3>1 DEF Todos
      <3>3. plan.todo[1] = r /\ r.at[2] = x
        <4>1. r.at = <<c.at, x, c.to>>
          BY <2>4 DEF LCreate, LUpdate, LDelete
        <4> QED
          BY <2>4, <4>1
      <3> HIDE DEF Chosen
      <3> QED
        BY <1>8, <2>4, <3>1, <3>2, <3>3 DEF Planned, ObjectsLinkFn, IsCascade
    <2> QED
      BY <2>2, <2>3, <2>4
  <1>9. CASE c.fn \in {"type.delete", "types.link.delete"}
    <2>1. plan.todo = << >>
      BY <1>9 DEF Plans, DeleteNothing, Ok
    <2> QED
      BY <1>9, <2>1 DEF Planned, LinkFn, IsCascade
  <1> QED
    BY <1>2, <1>3, <1>4, <1>5, <1>6, <1>7, <1>8, <1>9, CallKinds DEF TypeFn, TypesLinkFn, ObjectsLinkFn

\* Nobody else is about an object that a new call is about.
LEMMA FreeObject ==
    ASSUME Main, NEW c \in Calls, Legal(c), NEW o \in Object \ Loose, o \in About(c)
    PROVE  /\ \A m \in DOMAIN handler : ~ Maker(o, m)
           /\ IsWhole(o) \/ IsUnmade(o)
           /\ (\E l \in L : l[1] = o \/ l[3] = o) => IsWhole(o)
  <1>1. ASSUME NEW m \in DOMAIN handler, Maker(o, m)
        PROVE  FALSE
    <2>1. o \in About(handler[m].call)
      BY <1>1 DEF Maker, About
    <2> QED
      BY <2>1 DEF Legal
  <1>2. IsWhole(o) \/ IsUnmade(o)
    BY <1>1 DEF Main, ObjectOK
  <1> QED
    BY <1>1, <1>2 DEF IsUnmade, Touching, L

\* A whole object has one type.
LEMMA OneType ==
    ASSUME NEW o \in Object, IsWhole(o), NEW t \in Type, NEW u \in Type,
           Second(o, t) \in L, Second(o, u) \in L
    PROVE  t = u
  <1>1. PICK a \in Type : L \cap Structure(o) = {First(o), Second(o, a), Third(o, a)}
    BY DEF IsWhole, Typed
  <1> QED
    BY <1>1, LinksOfObjects, Ids

\* What a new handler relies on.
LEMMA NewRelies ==
    ASSUME TypeOK, Main, NEW c \in Calls, Legal(c), ~ IsCascade(c),
           NEW g, g.call = c, g.todo # << >>, Planned(c, g.todo)
    PROVE  Relies(g)
  <1>1. CreatesUnused(g)
    <2> SUFFICES ASSUME c.fn = "type.create", NEW o \in Object \ Loose
                 PROVE  Second(o, c.at) \notin L /\ Third(o, c.at) \notin L
      BY DEF CreatesUnused
    <2>1. c.at \in Type /\ InList(c.at) \notin L
      BY CallKinds DEF Planned, TypesLinkFn, ObjectsLinkFn
    <2>2. c.at \notin ObjectTypes(graph, o)
      BY <2>1 DEF Legal, Listed, InList, L
    <2>3. Second(o, c.at) \notin L
      <3> SUFFICES ASSUME Second(o, c.at) \in L
                   PROVE  FALSE
        OBVIOUS
      <3>1. Second(o, c.at)[1] = o /\ Second(o, c.at)[2] = "__type" /\ Second(o, c.at)[3] = c.at
        BY <2>1, LinksOfObjects
      <3>2. c.at \in OutOfType(graph, o, "__type")
        BY <3>1 DEF OutOfType, Out, L
      <3> QED
        BY <2>2, <3>2 DEF ObjectTypes
    <2>4. CASE \A m \in DOMAIN handler : ~ Maker(o, m)
      BY <2>1, <2>3, <2>4, SecondThird DEF Main
    <2>5. ASSUME NEW m \in DOMAIN handler, Maker(o, m)
          PROVE  Third(o, c.at) \notin L
      <3>1. PICK t, k : t = handler[m].call.type /\ k = Len(handler[m].todo)
        OBVIOUS
      <3>2. t \in Type
        BY <2>5, <3>1, CallKinds DEF TypeOK, HandlerOK, Maker, TypeFn, TypesLinkFn, ObjectsLinkFn
      <3>3. Touching(graph, o) = Done(o, t, k)
        BY <2>5, <3>1 DEF Main, ObjectOK, Made
      <3>4. t # c.at
        BY <2>5, <3>1 DEF Legal, Creates
      <3>5. Third(o, c.at)[1] = c.at /\ Third(o, c.at)[3] = o
        BY <2>1, LinksOfObjects
      <3>6. Third(o, c.at) \notin Done(o, t, k)
        BY <2>1, <3>2, <3>4, <3>5, LinksOfObjects, Ids DEF Done
      <3> QED
        BY <3>3, <3>5, <3>6 DEF Touching, L
    <2> QED
      BY <2>3, <2>4, <2>5
  <1>2. ListsThere(g)
    BY DEF ListsThere, Planned
  <1>3. LinksUnlinked(g)
    BY DEF LinksUnlinked, Planned
  <1>4. ChangesUnused(g)
    <2> SUFFICES ASSUME c.fn = "types.link.update", {c.at, c.to} \cap Loose = {},
                        NEW o \in Object \ Loose, NEW q \in Object \ Loose, NEW x \in LinkType,
                        Linked(o, q, c.at, c.to, x)
                 PROVE  FALSE
      BY DEF ChangesUnused
    <2>1. c.at \in Type \ Loose /\ c.to \in Type \ Loose
      BY CallKinds DEF TypeFn, ObjectsLinkFn
    <2>2. HasLink(c.at, c.to, x) /\ <<o, x, q>> \in L
      BY <2>1 DEF Main, Declared, Linked
    <2> QED
      BY <2>2 DEF Legal, HasLink, Between, L
  <1>6. ASSUME c.fn \in LinkFn
        PROVE  /\ \A o \in {c.at, c.to} \ Loose : IsWhole(o)
               /\ LinksAsTyped(g)
    <2>1. c.at \in Object /\ c.to \in Object /\ c.at \in About(c) /\ c.to \in About(c)
      BY <1>6, CallKinds, Ids DEF LinkFn, TypeFn, TypesLinkFn, About
    <2>2. PICK a \in Type, b \in Type :
             /\ Second(c.at, a) \in L /\ Second(c.to, b) \in L
             /\ HasLink(a, b, g.todo[1].at[2])
      BY <1>6 DEF Planned
    <2>3. Second(c.at, a)[1] = c.at /\ Second(c.to, b)[1] = c.to
      BY <2>1, LinksOfObjects
    <2>4. \A o \in {c.at, c.to} \ Loose : IsWhole(o)
      BY <2>1, <2>2, <2>3, FreeObject
    <2>5. LinksAsTyped(g)
      <3> SUFFICES ASSUME {c.at, c.to} \cap Loose = {}, NEW t \in Type, NEW u \in Type,
                          Second(c.at, t) \in L, Second(c.to, u) \in L
                   PROVE  HasLink(t, u, g.todo[1].at[2])
        BY DEF LinksAsTyped
      <3>1. t = a /\ u = b
        BY <2>1, <2>2, <2>4, OneType
      <3> QED
        BY <2>2, <3>1
    <2> QED
      BY <2>4, <2>5
  <1>7. LinksWhole(g) /\ LinksAsTyped(g)
    BY <1>6 DEF LinksWhole, LinksAsTyped
  <1>8. CascadesFound(g)
    BY DEF CascadesFound
  <1> QED
    BY <1>1, <1>2, <1>3, <1>4, <1>7, <1>8 DEF Relies

\* Nothing that a handler relies on has changed.
LEMMA RelySame ==
    ASSUME graph' = graph, Loose' = Loose, NEW g, Relies(g)
    PROVE  Relies(g)'
  <1>1. V' = V /\ L' = L
    BY DEF V, L
  <1>2. \A o : IsWhole(o)' <=> IsWhole(o)
    BY <1>1 DEF IsWhole, Typed, TypeThere
  <1>3. CreatesUnused(g)' /\ ListsThere(g)' /\ LinksUnlinked(g)'
    BY <1>1 DEF Relies, CreatesUnused, ListsThere, LinksUnlinked
  <1>4. ChangesUnused(g)'
    BY <1>1 DEF Relies, ChangesUnused, Linked
  <1>5. LinksWhole(g)'
    BY <1>2 DEF Relies, LinksWhole
  <1>6. LinksAsTyped(g)'
    BY <1>1 DEF Relies, LinksAsTyped, HasLink
  <1>7. CascadesFound(g)'
    BY <1>1 DEF Relies, CascadesFound
  <1> QED
    BY <1>3, <1>4, <1>5, <1>6, <1>7 DEF Relies

\* The handler that takes call c.
Taking(c, g) ==
    /\ g.call = c /\ HandlerRecord(g) /\ g.stack = {} /\ g.seen = {c.at}
    /\ g.queue = IF IsCascade(c) THEN <<c.at>> ELSE << >>
    /\ Planned(c, g.todo) /\ (g.todo # << >> \/ IsCascade(c))

\* A call begins with a handler for it, or with nothing to do.
LEMMA BeginHandler ==
    ASSUME TypeOK, NEW c \in Calls, Begin(c)
    PROVE  \/ handler' = handler
           \/ \E g : /\ DOMAIN handler' = DOMAIN handler \cup {calls + 1}
                     /\ handler'[calls + 1] = g /\ Taking(c, g)
                     /\ \A m \in DOMAIN handler : handler'[m] = handler[m]
                     /\ handler' = [m \in DOMAIN handler' |-> handler'[m]]
  <1>1. calls + 1 \notin DOMAIN handler
    BY DEF TypeOK
  <1>2. PICK plan \in Plans(graph, c) :
          handler' =
           IF plan.todo = << >> /\ ~ IsCascade(c) THEN handler
           ELSE Put(handler, calls + 1,
                    [call |-> c, todo |-> plan.todo, stack |-> {},
                     queue |-> IF IsCascade(c) THEN <<c.at>> ELSE << >>,
                     seen |-> {c.at},
                     before |-> IF IsCascade(c) THEN graph ELSE EmptyGraph])
    BY DEF Begin
  <1>3. Planned(c, plan.todo)
    BY PlansPlanned DEF TypeOK
  <1>4. SUFFICES ASSUME plan.todo # << >> \/ IsCascade(c)
                 PROVE  \E g :
                     /\ DOMAIN handler' = DOMAIN handler \cup {calls + 1}
                     /\ handler'[calls + 1] = g /\ Taking(c, g)
                     /\ \A m \in DOMAIN handler : handler'[m] = handler[m]
                     /\ handler' = [m \in DOMAIN handler' |-> handler'[m]]
    BY <1>2
  <1>5. PICK g : g = [call |-> c, todo |-> plan.todo, stack |-> {},
                     queue |-> IF IsCascade(c) THEN <<c.at>> ELSE << >>,
                     seen |-> {c.at},
                     before |-> IF IsCascade(c) THEN graph ELSE EmptyGraph]
    OBVIOUS
  <1>6. Taking(c, g)
    BY <1>3, <1>4, <1>5 DEF Taking, HandlerRecord
  <1>7. handler' = Put(handler, calls + 1, g)
    BY <1>2, <1>4, <1>5
  <1>8. /\ DOMAIN handler' = DOMAIN handler \cup {calls + 1} /\ handler'[calls + 1] = g
        /\ \A m \in DOMAIN handler : handler'[m] = handler[m]
        /\ handler' = [m \in DOMAIN handler' |-> handler'[m]]
    BY <1>1, <1>7 DEF Put
  <1> QED
    BY <1>6, <1>8

\* A call without requests, or a cascade, begins.
LEMMA BeginSteady ==
    ASSUME TypeOK, Main, graph' = graph, disturbed' = disturbed, bare' = bare,
           DOMAIN handler \subseteq DOMAIN handler',
           \A m \in DOMAIN handler : handler'[m] = handler[m],
           \A m \in DOMAIN handler' \ DOMAIN handler :
              IsCascade(handler'[m].call) /\ handler'[m].seen = {handler'[m].call.at}
              /\ handler'[m].call.at \in Object /\ handler'[m].todo = << >>
    PROVE  Main'
  <1>1. Loose \subseteq Loose' /\ \A m \in DOMAIN handler' \ DOMAIN handler : handler'[m].call.at \in Loose'
    BY DEF Loose
  <1>2. Frame(Loose', DOMAIN handler)
    BY <1>1, QuietGraph DEF Frame
  <1>3. ASSUME NEW m \in DOMAIN handler' \ DOMAIN handler
        PROVE  Relies(handler[m])'
    <2>1. PICK g : g = handler'[m]
      OBVIOUS
    <2>2. IsCascade(g.call) /\ g.call.fn = "object.delete" /\ g.seen = {g.call.at} /\ g.todo = << >>
      BY <2>1 DEF IsCascade
    <2>3. Relies(g)'
      BY <2>2 DEF Relies, CreatesUnused, ListsThere, LinksUnlinked, ChangesUnused,
         LinkFn, LinksWhole, LinksAsTyped, CascadesFound, IsCascade
    <2> QED
      BY <2>1, <2>3
  <1> QED
    BY <1>2, <1>3, SteadyStep

\* A call with requests begins.
LEMMA BeginMain ==
    ASSUME TypeOK, Apart, Main, NEW c \in Calls, Legal(c), ~ IsCascade(c),
           graph' = graph, disturbed' = disturbed, bare' = bare,
           NEW n, n \notin DOMAIN handler, DOMAIN handler' = DOMAIN handler \cup {n},
           \A m \in DOMAIN handler : handler'[m] = handler[m],
           NEW g, handler'[n] = g, Taking(c, g)
    PROVE  Main'
  <1> DEFINE X == Loose \cup About(c)
             K == DOMAIN handler
  <1>1. g.call = c /\ g.todo # << >> /\ Planned(c, g.todo)
    BY DEF Taking
  <1>2. Loose' = Loose
    BY <1>1 DEF Loose
  <1>3. Frame(X, K)
    BY <1>1, <1>2, QuietGraph DEF Frame, About
  <1>4. Distinct(X, K)
    <2> SUFFICES ASSUME NEW m \in K
                 PROVE  About(handler[m].call) \cap X \subseteq Loose /\ ~ Alone(handler[m].call)
      BY <1>2 DEF Distinct
    <2> QED
      BY DEF Legal
  <1>5. TypesStay(X, K) /\ LinksStay(X, K) /\ NewTypes(K) /\ NewLinks
    <2>1. TypesSame /\ NoNewLinks
      BY DEF TypesSame, NoNewLinks, V, L
    <2> QED
      BY <1>2, <2>1, SameStays, OldLinks
  <1>6. ASSUME NEW o \in (Object \cap About(c)) \ Loose
        PROVE  ObjectOK(o)'
    <2>1. /\ \A m \in DOMAIN handler : ~ Maker(o, m)
          /\ IsWhole(o) \/ IsUnmade(o)
          /\ (\E l \in L : l[1] = o \/ l[3] = o) => IsWhole(o)
      BY <1>6, FreeObject
    <2>2. \A m \in DOMAIN handler' : Maker(o, m)' => m = n
      BY <2>1 DEF Maker
    <2>3. CASE c.fn = "object.create"
      <3>1. c.at = o /\ c.type \in Type /\ Len(g.todo) = 4 /\ First(o) \notin L
        BY <1>1, <1>6, <2>3, CallKinds, Ids DEF Planned, About, TypeFn, TypesLinkFn, ObjectsLinkFn
      <3>2. IsUnmade(o)
        BY <2>1, <3>1 DEF IsWhole, Typed
      <3>3. TypeThere(c.type)
        BY <2>3, <3>1 DEF Legal, Listed, InList, L, Main, TypesThere, TypeThere
      <3>4. PICK t, k : t = c.type /\ k = Len(g.todo)
        OBVIOUS
      <3>5. Made(o, t, k)
        BY <3>1, <3>2, <3>3, <3>4 DEF Made, Done, IsUnmade
      <3>6. Made(o, t, k)'
        BY <1>2, <3>5 DEF Made, TypeThere, V, L
      <3> QED
        BY <1>1, <2>2, <2>3, <3>1, <3>4, <3>6 DEF ObjectOK, Maker
    <2>4. CASE c.fn # "object.create"
      <3>1. ~ \E m \in DOMAIN handler' : Maker(o, m)'
        BY <1>1, <2>2, <2>4 DEF Maker
      <3>2. IsWhole(o)' \/ IsUnmade(o)'
        BY <1>2, <2>1 DEF IsWhole, IsUnmade, Typed, TypeThere, V, L
      <3> QED
        BY <3>1, <3>2 DEF ObjectOK
    <2> QED
      BY <2>3, <2>4
  <1>7. \A t \in Type \ Loose : InList(t) \in L' => t \in V'
    BY DEF Main, TypesThere, V, L
  <1>8. Relies(g)'
    BY <1>1, <1>2, NewRelies, RelySame
  <1>9. Settled(X, K)
    BY <1>2, <1>6, <1>7, <1>8 DEF Settled
  <1> QED
    BY <1>3, <1>4, <1>5, <1>9, MainStays

\* A call begins.
LEMMA BeginInvariant ==
    ASSUME IInv, NEW c \in Calls, Begin(c)
    PROVE  IInv'
  <1>1. TypeOK /\ Apart /\ Main /\ Announcing
    BY DEF IInv
  <1>2. /\ graph' = graph /\ late' = late /\ failures' = failures /\ disturbed' = disturbed
        /\ bare' = bare /\ calls' = calls + 1 /\ Legal(c)
    BY DEF Begin
  <1>3. CASE handler' = handler
    <2>1. Main'
      BY <1>1, <1>2, <1>3, BeginSteady
    <2>2. TypeOK'
      BY <1>1, <1>2, <1>3 DEF TypeOK
    <2>3. Apart' /\ Announcing'
      BY <1>1, <1>3 DEF Apart, Announcing, Announced
    <2> QED
      BY <2>1, <2>2, <2>3 DEF IInv
  <1>4. CASE handler' # handler
    <2> DEFINE n == calls + 1
    <2>1. PICK g : /\ DOMAIN handler' = DOMAIN handler \cup {n}
                   /\ handler'[n] = g /\ Taking(c, g)
                   /\ \A m \in DOMAIN handler : handler'[m] = handler[m]
                   /\ handler' = [m \in DOMAIN handler' |-> handler'[m]]
      BY <1>1, <1>4, BeginHandler
    <2>2. n \notin DOMAIN handler /\ n \in Nat /\ DOMAIN handler' \subseteq 1 .. n
      BY <1>1, <2>1 DEF TypeOK
    <2>3. g.call = c /\ c.at \in Type \cup Object
      BY <2>1, CallKinds DEF Taking
    <2>t. Taking(c, g)
      BY <2>1
    <2>4. HandlerOK(g)
      <3>0. g.seen = {c.at} /\ Planned(c, g.todo) /\ HandlerRecord(g)
        BY <2>t, Zenon DEF Taking
      <3>1. g.todo \in Todos(c, g.seen) \cup {<< >>}
        <4>1. g.todo \in Todos(c, {c.at}) \cup {<< >>}
          BY <3>0 DEF Planned
        <4> QED
          BY <3>0, <4>1, Zenon
      <3>2. g.queue \in Seq(g.seen)
        <4>1. g.queue = IF IsCascade(c) THEN <<c.at>> ELSE << >>
          BY <2>t, Zenon DEF Taking
        <4>2. <<c.at>> \in Seq({c.at}) /\ << >> \in Seq({c.at})
          OBVIOUS
        <4>3. g.queue \in Seq({c.at})
          BY <4>1, <4>2
        <4> QED
          BY <3>0, <4>3, Zenon
      <3> QED
        BY <2>t, <2>3, <3>0, <3>1, <3>2 DEF HandlerOK, Taking
    <2>5. TypeOK'
      <3>1. \A m \in DOMAIN handler' : HandlerOK(handler[m])'
        <4> SUFFICES ASSUME NEW m \in DOMAIN handler'
                     PROVE  HandlerOK(handler'[m])
          OBVIOUS
        <4> QED
          BY <1>1, <2>1, <2>4 DEF TypeOK
      <3> QED
        BY <1>1, <1>2, <2>1, <2>2, <3>1 DEF TypeOK
    <2>6. Apart'
      <3> SUFFICES ASSUME NEW p \in DOMAIN handler', NEW m \in DOMAIN handler', p # m
                   PROVE  /\ About(handler'[p].call) \cap About(handler'[m].call) = {}
                          /\ ~ Creates(handler'[p].call, handler'[m].call.type)
                          /\ ~ Alone(handler'[p].call)
        BY DEF Apart
      <3>1. CASE p # n /\ m # n
        BY <1>1, <2>1, <3>1 DEF Apart
      <3>2. CASE p = n /\ m # n
        BY <1>2, <2>1, <2>3, <3>2 DEF Legal
      <3>3. CASE p # n /\ m = n
        BY <1>2, <2>1, <2>3, <3>3 DEF Legal
      <3> QED
        BY <3>1, <3>2, <3>3
    <2>7. Announcing'
      <3> SUFFICES ASSUME NEW m \in DOMAIN handler'
                   PROVE  Announced(handler[m])'
        BY DEF Announcing
      <3>1. CASE m = n
        <4>1. c.fn = "object.create" => Len(g.todo) = 4
          BY <2>t DEF Taking, Planned, IsCascade
        <4>2. Announced(g)'
          BY <2>3, <4>1 DEF Announced
        <4> QED
          BY <2>1, <3>1, <4>2
      <3>2. CASE m # n
        <4>1. handler'[m] = handler[m] /\ Announced(handler[m])
          BY <1>1, <2>1, <3>2 DEF Announcing
        <4> QED
          BY <4>1 DEF Announced
      <3> QED
        BY <3>1, <3>2
    <2>8. Main'
      <3>1. CASE IsCascade(c)
        <4>1. c.at \in Object
          BY <3>1, CallKinds DEF IsCascade, TypeFn, TypesLinkFn, ObjectsLinkFn
        <4>2. g.seen = {c.at} /\ g.todo = << >>
          <5>1. g.seen = {c.at} /\ Planned(c, g.todo)
            BY <2>t, Zenon DEF Taking
          <5> QED
            BY <3>1, <5>1 DEF Planned
        <4>3. \A m \in DOMAIN handler' \ DOMAIN handler :
                 IsCascade(handler'[m].call) /\ handler'[m].seen = {handler'[m].call.at}
                 /\ handler'[m].call.at \in Object /\ handler'[m].todo = << >>
          BY <2>1, <2>3, <3>1, <4>1, <4>2
        <4> QED
          BY <1>1, <1>2, <2>1, <4>3, BeginSteady
      <3>2. CASE ~ IsCascade(c)
        BY <1>1, <1>2, <2>1, <2>2, <3>2, BeginMain
      <3> QED
        BY <3>1, <3>2
    <2> QED
      BY <2>5, <2>6, <2>7, <2>8 DEF IInv
  <1> QED
    BY <1>3, <1>4

-----------------------------------------------------------------------------
(* The invariant *)

\* Patterns find the types of an object, and the objects of a type, in its links.
LEMMA TypeLinks ==
    ASSUME GraphOK(graph), NEW o \in Object
    PROVE  /\ OutOfType(graph, o, "__type") = {t \in Type : Second(o, t) \in L}
           /\ \A t \in Type : o \in TypeObjects(graph, t) <=> Third(o, t) \in L
  <1>1. ASSUME NEW t \in OutOfType(graph, o, "__type")
        PROVE  t \in Type /\ Second(o, t) \in L
    <2>1. PICK l \in L : l[1] = o /\ l[2] = "__type" /\ l[3] = t
      BY DEF OutOfType, Out, L
    <2>2. l \in LinkKey
      BY DEF GraphOK, L
    <2>3. t \in Type /\ l = Second(o, t)
      BY <2>1, <2>2, LinkKinds, Ids DEF Second
    <2> QED
      BY <2>3
  <1>2. ASSUME NEW t \in Type, Second(o, t) \in L
        PROVE  t \in OutOfType(graph, o, "__type")
    BY <1>2, LinksOfObjects DEF OutOfType, Out, L
  <1>3. ASSUME NEW t \in Type, Third(o, t) \in L
        PROVE  o \in TypeObjects(graph, t)
    BY <1>3, LinksOfObjects DEF TypeObjects, OutOfType, Out, L
  <1>4. ASSUME NEW t \in Type, o \in TypeObjects(graph, t)
        PROVE  Third(o, t) \in L
    <2>1. PICK l \in L : l[1] = t /\ l[2] = "__object" /\ l[3] = o
      BY <1>4 DEF TypeObjects, OutOfType, Out, L
    <2>2. l \in LinkKey
      BY DEF GraphOK, L
    <2>3. l = Third(o, t)
      BY <2>1, <2>2, LinkKinds DEF Third
    <2> QED
      BY <2>3
  <1> QED
    BY <1>1, <1>2, <1>3, <1>4

\* Whole objects are those with the links of one type.
LEMMA WholeIsTyped ==
    ASSUME GraphOK(graph), NEW o \in Object
    PROVE  /\ Whole(graph, o, Loose) <=> IsWhole(o)
           /\ \A t \in Type : Typed(o, t) => ObjectTypes(graph, o) = {t}
  <1>1. ASSUME Whole(graph, o, Loose)
        PROVE  IsWhole(o)
    <2>1. PICK t \in Type : /\ ObjectTypes(graph, o) = {t} /\ o \in TypeObjects(graph, t)
                            /\ t \in Loose \/ (t \in V /\ InList(t) \in L)
      BY <1>1 DEF Whole, Listed, InList, V, L
    <2>2. o \in V /\ First(o) \in L /\ \A u \in Type : o \in TypeObjects(graph, u) => u = t
      BY <1>1, <2>1 DEF Whole, Known, First, V, L
    <2>3. OutOfType(graph, o, "__type") = {t}
      BY <2>1, Ids DEF ObjectTypes
    <2>4. \A u \in Type : Second(o, u) \in L <=> u = t
      BY <2>3, TypeLinks
    <2>5. \A u \in Type : Third(o, u) \in L <=> u = t
      BY <2>1, <2>2, TypeLinks
    <2>6. L \cap Structure(o) = {First(o), Second(o, t), Third(o, t)}
      BY <2>2, <2>4, <2>5 DEF Structure
    <2> QED
      BY <2>1, <2>2, <2>6 DEF IsWhole, Typed, TypeThere
  <1>2. ASSUME NEW t \in Type, Typed(o, t)
        PROVE  Whole(graph, o, Loose) /\ ObjectTypes(graph, o) = {t}
    <2>1. o \in V /\ First(o) \in L /\ TypeThere(t)
          /\ L \cap Structure(o) = {First(o), Second(o, t), Third(o, t)}
      BY <1>2 DEF Typed
    <2>2. \A u \in Type : Second(o, u) \in L <=> u = t
      BY <2>1, LinksOfObjects, Ids
    <2>3. \A u \in Type : Third(o, u) \in L <=> u = t
      BY <2>1, LinksOfObjects, Ids
    <2>4. ObjectTypes(graph, o) = {t}
      BY <2>2, TypeLinks DEF ObjectTypes
    <2>5. o \in TypeObjects(graph, t) /\ \A u \in Type : o \in TypeObjects(graph, u) => u = t
      BY <2>3, TypeLinks
    <2> QED
      BY <2>1, <2>4, <2>5 DEF Whole, Known, First, TypeThere, Listed, InList, V, L
  <1> QED
    BY <1>1, <1>2 DEF IsWhole

\* Sound graphs, and no calls yet.
LEMMA InitInvariant ==
    ASSUME Init
    PROVE  IInv
  <1>1. Sound(graph) /\ handler = << >> /\ late = {} /\ calls = 0 /\ failures = 0 /\ disturbed = {}
    BY StartIsSound DEF Init
  <1>2. DOMAIN handler = {} /\ Loose = {}
    BY <1>1 DEF Loose
  <1>3. GraphOK(graph)
    BY <1>1 DEF Sound, GraphOK
  <1>4. TypeOK
    BY <1>1, <1>2, <1>3 DEF TypeOK
  <1>5. Apart /\ Announcing
    BY <1>2 DEF Apart, Announcing
  <1>6. ASSUME NEW o \in Object
        PROVE  ObjectOK(o)
    <2>1. Whole(graph, o, Loose) \/ IsUnmade(o)
      BY <1>1, <1>2 DEF Sound, Absent, IsUnmade, V
    <2> QED
      BY <1>2, <1>3, <2>1, WholeIsTyped DEF ObjectOK
  <1>7. TypesThere
    BY <1>1 DEF TypesThere, Sound, Listed, InList, V, L
  <1>8. Declared
    <2> SUFFICES ASSUME NEW o \in Object, NEW q \in Object, NEW t \in Type, NEW u \in Type,
                        NEW x \in LinkType, Linked(o, q, t, u, x)
                 PROVE  HasLink(t, u, x)
      BY DEF Declared
    <2> DEFINE F(a, b) == IF Between(a, b) \in DOMAIN graph.link
                          THEN graph.link[Between(a, b)].val ELSE None
    <2>1. LinkTypeOf(graph, o, q) = {F(a, b) : a \in ObjectTypes(graph, o), b \in ObjectTypes(graph, q)}
      BY DEF LinkTypeOf, Between
    <2>2. LinkTypeOf(graph, o, q) = {x}
      <3>1. PICK l \in L : l = <<o, x, q>>
        BY DEF Linked
      <3>2. l[1] = o /\ l[2] = x /\ l[3] = q
        BY <3>1
      <3> QED
        BY <1>1, <3>2 DEF Sound, L
    <2>3. t \in ObjectTypes(graph, o) /\ u \in ObjectTypes(graph, q)
      BY <1>3, TypeLinks DEF Linked, ObjectTypes
    <2> HIDE DEF F
    <2>4. F(t, u) = x
      BY <2>1, <2>2, <2>3
    <2> QED
      BY <2>4, Ids DEF F, HasLink, L
  <1>9. Main
    BY <1>2, <1>6, <1>7, <1>8 DEF Main
  <1> QED
    BY <1>4, <1>5, <1>9 DEF IInv

\* Nothing happens.
LEMMA StutterInvariant ==
    ASSUME IInv, UNCHANGED vars
    PROVE  IInv'
  <1>1. TypeOK /\ Apart /\ Main /\ Announcing
    BY DEF IInv
  <1>2. /\ graph' = graph /\ handler' = handler /\ late' = late /\ calls' = calls
        /\ failures' = failures /\ disturbed' = disturbed /\ bare' = bare
    BY DEF vars
  <1>3. Main'
    BY <1>1, <1>2, BeginSteady
  <1>4. TypeOK'
    BY <1>1, <1>2 DEF TypeOK
  <1>5. Apart' /\ Announcing'
    BY <1>1, <1>2 DEF Apart, Announcing, Announced
  <1> QED
    BY <1>3, <1>4, <1>5 DEF IInv

\* The invariant holds for all types, objects, start graphs, numbers of calls
\* and of failures.
THEOREM Invariant == Spec => []IInv
  <1>1. IInv /\ [Next]_vars => IInv'
    <2> SUFFICES ASSUME IInv, [Next]_vars
                 PROVE  IInv'
      OBVIOUS
    <2>1. CASE UNCHANGED vars
      BY <2>1, StutterInvariant
    <2>2. CASE Next
      BY <2>2, BeginInvariant, DoInvariant, FailInvariant, LateInvariant, VisitInvariant,
         FinishInvariant DEF Next
    <2> QED
      BY <2>1, <2>2
  <1> QED
    BY InitInvariant, <1>1, PTL DEF Spec

-----------------------------------------------------------------------------
(* What clients see *)

\* Graphs, handlers and late requests have their form: a link has an end of
\* each kind that its type wants, and a handler the requests that its call
\* leaves it.
THEOREM TypeCorrect == Spec => []TypeOK
  <1>1. IInv => TypeOK
    BY DEF IInv
  <1> QED
    BY Invariant, <1>1, PTL

\* Only a cascade makes more ids loose than the disturbed ones.
LEMMA NoCascade ==
    ASSUME \A n \in DOMAIN handler : ~ IsCascade(handler[n].call)
    PROVE  Loose = disturbed
  BY DEF Loose

\* Nobody creates an object that no call works on, and no cascade runs then.
LEMMA NotBusy ==
    ASSUME NEW o \in Object \ Busy
    PROVE  /\ \A n \in DOMAIN handler : ~ IsCascade(handler[n].call)
           /\ \A n \in DOMAIN handler : ~ Maker(o, n)
  BY DEF Busy, Maker, About

\* An object that no call works on, and about which none has failed, is whole
\* or absent (CreateObject in four requests, DeleteObject in one).
THEOREM ObjectsStayWhole == Spec => []ObjectsAreWhole
  <1>1. IInv => ObjectsAreWhole
    <2> SUFFICES ASSUME IInv, NEW o \in Object \ (disturbed \cup Busy)
                 PROVE  Whole(graph, o, disturbed) \/ Absent(graph, o) \/ IsBare(o)
      BY DEF ObjectsAreWhole
    <2>1. Loose = disturbed /\ \A n \in DOMAIN handler : ~ Maker(o, n)
      BY NoCascade, NotBusy
    <2>2. IsWhole(o) \/ IsUnmade(o)
      BY <2>1 DEF IInv, Main, ObjectOK
    <2>3. IsWhole(o) => Whole(graph, o, disturbed)
      BY <2>1, WholeIsTyped DEF IInv, TypeOK
    <2> QED
      BY <2>2, <2>3 DEF IsUnmade, Absent, IsBare, V
  <1> QED
    BY Invariant, <1>1, PTL

\* A link between two such objects has the type that their types have for it,
\* whatever other calls, failures and late requests come between.  (Clients
\* see to it that what CreateObjectsLink has read stays: see Legal.)
THEOREM LinksStayDeclared == Spec => []LinksAreDeclared
  <1>1. IInv => LinksAreDeclared
    <2> SUFFICES ASSUME IInv, NEW l \in L, l[2] \in LinkType,
                        ({l[1], l[3]} \cup ObjectTypes(graph, l[1]) \cup ObjectTypes(graph, l[3]))
                          \cap (disturbed \cup Busy) = {}
                 PROVE  LinkTypeOf(graph, l[1], l[3]) = {l[2]}
      BY DEF LinksAreDeclared, L
    <2> DEFINE o == l[1]
               q == l[3]
    <2>1. GraphOK(graph)
      BY DEF IInv, TypeOK
    <2>2. o \in Object \ Busy /\ q \in Object \ Busy /\ l = <<o, l[2], q>>
      BY <2>1, LinkKinds, Ids DEF GraphOK, L
    <2>3. Loose = disturbed
      BY <2>2, NoCascade, NotBusy
    <2>4. ASSUME NEW p \in {o, q}
          PROVE  IsWhole(p)
      <3>1. \A n \in DOMAIN handler : ~ Maker(p, n)
        BY <2>2, NotBusy
      <3>2. ~ IsUnmade(p)
        BY DEF IsUnmade, Touching, L
      <3> QED
        BY <2>2, <2>3, <3>1, <3>2 DEF IInv, Main, ObjectOK
    <2>5. PICK t \in Type, u \in Type : Typed(o, t) /\ Typed(q, u)
      BY <2>4 DEF IsWhole
    <2>6. ObjectTypes(graph, o) = {t} /\ ObjectTypes(graph, q) = {u}
      BY <2>1, <2>2, <2>5, WholeIsTyped
    <2>7. HasLink(t, u, l[2])
      <3>1. Second(o, t) \in L /\ Second(q, u) \in L
        BY <2>5 DEF Typed
      <3>2. Linked(o, q, t, u, l[2])
        BY <2>2, <3>1 DEF Linked
      <3> QED
        BY <2>2, <2>3, <2>6, <3>2 DEF IInv, Main, Declared
    <2> DEFINE F(a, b) == IF Between(a, b) \in DOMAIN graph.link
                          THEN graph.link[Between(a, b)].val ELSE None
    <2>8. LinkTypeOf(graph, o, q) = {F(a, b) : a \in ObjectTypes(graph, o), b \in ObjectTypes(graph, q)}
      BY DEF LinkTypeOf, Between
    <2>9. F(t, u) = l[2]
      BY <2>7 DEF HasLink, L
    <2> HIDE DEF F
    <2> QED
      BY <2>6, <2>8, <2>9
  <1> QED
    BY Invariant, <1>1, PTL

\* A handler that goes while nothing fails has finished.
LEMMA LeavesByFinish ==
    ASSUME TypeOK, [Next]_vars, NEW n \in DOMAIN handler, n \notin DOMAIN handler',
           failures' \in {0, failures}
    PROVE  Finish(n)
  <1>1. handler' # handler /\ Next
    BY DEF vars
  <1>2. ASSUME NEW c \in Calls, Begin(c)
        PROVE  FALSE
    BY <1>2, BeginHandler
  <1>3. ASSUME NEW m \in DOMAIN handler, Do(m)
        PROVE  FALSE
    BY <1>3, DoHandler
  <1>4. ASSUME NEW m \in DOMAIN handler, Fail(m)
        PROVE  FALSE
    BY <1>4 DEF Fail, TypeOK
  <1>5. ASSUME NEW r \in late, Late(r)
        PROVE  FALSE
    BY <1>1, <1>5 DEF Late
  <1>6. ASSUME NEW m \in DOMAIN handler, Visit(m)
        PROVE  FALSE
    <2>1. PICK f : handler' = [handler EXCEPT ![m] = f]
      BY <1>6 DEF Visit
    <2> QED
      BY <2>1
  <1>7. ASSUME NEW m \in DOMAIN handler, Finish(m), m # n
        PROVE  FALSE
    BY <1>7 DEF Finish, Without, Restrict
  <1> QED
    BY <1>1, <1>2, <1>3, <1>4, <1>5, <1>6, <1>7 DEF Next

\* A creation that succeeds is announced to the functions of the type, and
\* these find the object whole (the triggers of CreateObject look the type up).
THEOREM CreationsAreAnnounced == Spec => CreationIsAnnounced
  <1> DEFINE A == \A n \in DOMAIN handler \ DOMAIN handler' :
          LET c == handler[n].call
          IN  /\ c.fn = "object.create" /\ failures' = failures
              /\ {c.at, c.type} \cap disturbed = {}
              => /\ [call |-> n, event |-> "create", of |-> c.at] \in signals'
                 /\ Whole(graph', c.at, disturbed)
  <1>1. ASSUME IInv, [Next]_vars
        PROVE  A
    <2> SUFFICES ASSUME NEW n \in DOMAIN handler, n \notin DOMAIN handler',
                        handler[n].call.fn = "object.create", failures' = failures,
                        handler[n].call.at \notin disturbed, handler[n].call.type \notin disturbed
                 PROVE  /\ [call |-> n, event |-> "create", of |-> handler[n].call.at] \in signals'
                        /\ Whole(graph', handler[n].call.at, disturbed)
      OBVIOUS
    <2> DEFINE h == handler[n]
               o == h.call.at
    <2>0. TypeOK /\ Apart /\ Main /\ Announcing
      BY <1>1 DEF IInv
    <2>1. Finish(n)
      BY <1>1, <2>0, LeavesByFinish
    <2>2. PICK t : t = h.call.type
      OBVIOUS
    <2>3. o \in Object /\ t \in Type /\ Maker(o, n)
      BY <2>0, <2>2, CallKinds DEF TypeOK, HandlerOK, Maker, TypeFn, TypesLinkFn, ObjectsLinkFn
    <2>4. Loose = disturbed
      <3>1. \A m \in DOMAIN handler : ~ IsCascade(handler[m].call)
        BY <2>0 DEF Apart, Alone, IsCascade
      <3> QED
        BY <3>1, NoCascade
    <2>5. h.todo = << >> /\ Len(h.todo) = 0 /\ graph' = graph
          /\ signals' = signals \cup Signals(graph, n, h.stack)
      BY <2>1 DEF Finish
    <2>6. Typed(o, t)
      <3>1. Made(o, t, 0)
        BY <2>0, <2>2, <2>3, <2>4, <2>5 DEF Main, ObjectOK
      <3> QED
        BY <2>3, <3>1, MadeIsTyped
    <2>7. Whole(graph, o, disturbed) /\ ObjectTypes(graph, o) = {t}
      BY <2>0, <2>3, <2>4, <2>6, WholeIsTyped DEF IsWhole, TypeOK
    <2>8. <<"create", o>> \in h.stack
      BY <2>0, <2>5 DEF Announcing, Announced
    <2>9. Fires(graph, o)
      <3>1. t \in DOMAIN graph.vertex
        BY <2>2, <2>4, <2>6 DEF Typed, TypeThere, V
      <3> QED
        BY <2>3, <2>7, <3>1 DEF Fires
    <2>10. [call |-> n, event |-> "create", of |-> o] \in Signals(graph, n, h.stack)
      <3>1. PICK e : e = <<"create", o>>
        OBVIOUS
      <3>2. e[1] = "create" /\ e[2] = o
        BY <3>1
      <3>3. e \in {f \in h.stack : Fires(graph, f[2])}
        BY <2>8, <2>9, <3>1, <3>2
      <3> QED
        BY <3>2, <3>3 DEF Signals
    <2> QED
      BY <2>5, <2>7, <2>10
  <1> QED
    BY Invariant, <1>1, PTL DEF Spec, CreationIsAnnounced

-----------------------------------------------------------------------------
(* Numbers *)

\* A set of numbers has a least one.
LEMMA LeastOne ==
    ASSUME NEW B \in SUBSET Nat, B # {}
    PROVE  \E m \in B : \A k \in B : m <= k
  <1> DEFINE R == OpToRel(<, Nat)
  <1>1. IsWellFoundedOn(R, Nat)
    BY NatLessThanWellFounded
  <1>2. \A x, y \in Nat : y < x => <<y, x>> \in R
    BY DEF OpToRel
  <1> HIDE DEF R
  <1>3. \E x \in B : \A y \in B : ~ (<<y, x>> \in R)
    BY <1>1, WFMin
  <1>3a. PICK m \in B : \A y \in B : ~ (<<y, m>> \in R)
    BY <1>3
  <1>4. \A k \in B : ~(k < m) /\ k \in Nat /\ m \in Nat
    BY <1>2, <1>3a
  <1> QED
    BY <1>4

\* What holds of 0, and goes on, holds up to n.
LEMMA Upwards ==
    ASSUME NEW n \in Nat, NEW G, 0 \in G, \A i \in 0 .. n : i \in G /\ i < n => i + 1 \in G
    PROVE  \A i \in 0 .. n : i \in G
  <1> SUFFICES ASSUME (0 .. n) \ G # {} PROVE FALSE
    OBVIOUS
  <1>0. (0 .. n) \ G \in SUBSET Nat
    OBVIOUS
  <1>1. PICK k \in (0 .. n) \ G : \A j \in (0 .. n) \ G : k <= j
    BY <1>0, LeastOne
  <1>2. k # 0 /\ k - 1 \in 0 .. n /\ k - 1 < n /\ ~(k <= k - 1) /\ k - 1 + 1 = k
    BY <1>1
  <1>3. k - 1 \in G
    BY <1>1, <1>2
  <1> QED
    BY <1>1, <1>2, <1>3

-----------------------------------------------------------------------------
(* What a vertex leads to *)

Onward(g, v, S) == {v} \cup S \cup {l[3] : l \in {k \in DOMAIN g.link : k[1] \in S}}
Ahead(g, v) == {v} \cup {l[3] : l \in DOMAIN g.link}

\* What is found from the set S on: the function that Spread calls beyond.
Outmost(g, v, f, S) ==
    LET next == Onward(g, v, S)
    IN  IF Onward(g, v, next) = next THEN [all |-> next, last |-> next \ S] ELSE f[next]
SpreadFrom(g, v, T) ==
    LET beyond[S \in SUBSET Ahead(g, v)] == Outmost(g, v, beyond, S) IN beyond[T]

\* It exists as far as it is needed for the sets that lack at most n of what is
\* ahead.
Lacking(g, v, n) == {S \in SUBSET Ahead(g, v) : Cardinality(Ahead(g, v) \ S) <= n}
Beyond(g, v, f, D) == f = [S \in D |-> Outmost(g, v, f, S)]

\* A vertex leads to finitely many.
LEMMA AheadIsFinite ==
    ASSUME NEW g, NEW v, IsFiniteSet(DOMAIN g.link)
    PROVE  IsFiniteSet(Ahead(g, v)) /\ Cardinality(Ahead(g, v)) \in Nat
  <1> DEFINE T == {l[3] : l \in DOMAIN g.link}
             f == [l \in DOMAIN g.link |-> l[3]]
  <1>1. f \in Surjection(DOMAIN g.link, T)
    BY DEF Surjection
  <1>2. IsFiniteSet(T)
    BY <1>1, FS_Surjection
  <1>3. IsFiniteSet(T \cup {v}) /\ Ahead(g, v) = T \cup {v}
    BY <1>2, FS_AddElement DEF Ahead
  <1> QED
    BY <1>3, FS_CardinalityType

\* Going on, a set gets larger or stays as it is.
LEMMA OnwardGrows ==
    ASSUME NEW g, NEW v, IsFiniteSet(DOMAIN g.link), NEW n \in Nat,
           NEW S \in SUBSET Ahead(g, v), Onward(g, v, S) # S,
           Cardinality(Ahead(g, v) \ S) <= n + 1
    PROVE  Onward(g, v, S) \in Lacking(g, v, n)
  <1> DEFINE I == Ahead(g, v)
             N == Onward(g, v, S)
  <1>1. IsFiniteSet(I)
    BY AheadIsFinite
  <1>2. S \subseteq N /\ N \subseteq I
    BY DEF Onward, Ahead
  <1>3. IsFiniteSet(I \ S) /\ Cardinality(I \ S) \in Nat
    BY <1>1, FS_Difference, FS_CardinalityType
  <1>4. I \ N \in SUBSET (I \ S) /\ I \ N # I \ S
    BY <1>2
  <1>5. IsFiniteSet(I \ N) /\ Cardinality(I \ N) <= Cardinality(I \ S) /\ Cardinality(I \ N) # Cardinality(I \ S)
    BY <1>3, <1>4, FS_Subset
  <1>6. Cardinality(I \ N) \in Nat
    BY <1>5, FS_CardinalityType
  <1>7. Cardinality(I \ N) <= n
    BY <1>3, <1>5, <1>6
  <1> QED
    BY <1>2, <1>7 DEF Lacking

\* What is at the end of a set is there once the larger ones have one.
LEMMA BeyondExists ==
    ASSUME NEW g, NEW v, IsFiniteSet(DOMAIN g.link)
    PROVE  \E f : Beyond(g, v, f, SUBSET Ahead(g, v))
  <1> DEFINE n == Cardinality(Ahead(g, v))
             G == {i \in 0 .. n : \E f : Beyond(g, v, f, Lacking(g, v, i))}
  <1>0. n \in Nat /\ IsFiniteSet(Ahead(g, v))
    BY AheadIsFinite
  <1>1. 0 \in G
    <2>1. ASSUME NEW S \in Lacking(g, v, 0) PROVE Onward(g, v, Onward(g, v, S)) = Onward(g, v, S)
      <3>1. S \subseteq Ahead(g, v) /\ IsFiniteSet(Ahead(g, v) \ S)
        BY <1>0, FS_Difference DEF Lacking
      <3>2. Cardinality(Ahead(g, v) \ S) = 0
        BY <3>1, FS_CardinalityType DEF Lacking
      <3>3. S = Ahead(g, v)
        BY <3>1, <3>2, FS_EmptySet
      <3> QED
        BY <3>3 DEF Onward, Ahead
    <2> DEFINE f == [S \in Lacking(g, v, 0) |->
                       [all |-> Onward(g, v, S), last |-> Onward(g, v, S) \ S]]
    <2>2. Beyond(g, v, f, Lacking(g, v, 0))
      BY <2>1 DEF Beyond, Outmost
    <2> HIDE DEF f
    <2> QED
      BY <2>2, <1>0
  <1>2. ASSUME NEW i \in 0 .. n, i \in G, i < n PROVE i + 1 \in G
    <2>1. PICK f : Beyond(g, v, f, Lacking(g, v, i))
      BY <1>2
    <2> DEFINE more == [S \in Lacking(g, v, i + 1) |-> Outmost(g, v, f, S)]
    <2>2. ASSUME NEW S \in Lacking(g, v, i) PROVE S \in Lacking(g, v, i + 1) /\ more[S] = f[S]
      <3>1. S \in Lacking(g, v, i + 1)
        <4>1. Cardinality(Ahead(g, v) \ S) \in Nat
          BY <1>0, FS_Difference, FS_CardinalityType
        <4> QED
          BY <4>1, <1>0 DEF Lacking
      <3>2. f[S] = Outmost(g, v, f, S)
        BY <2>1 DEF Beyond
      <3> QED
        BY <3>1, <3>2
    <2>3. ASSUME NEW S \in Lacking(g, v, i + 1) PROVE Outmost(g, v, f, S) = Outmost(g, v, more, S)
      <3> DEFINE next == Onward(g, v, S)
      <3>1. CASE Onward(g, v, next) = next
        BY <3>1 DEF Outmost
      <3>2. CASE Onward(g, v, next) # next
        <4>1. next # S
          BY <3>2
        <4>2. next \in Lacking(g, v, i)
          BY <4>1, <1>0, OnwardGrows DEF Lacking
        <4>3. more[next] = f[next]
          BY <4>2, <2>2
        <4> HIDE DEF more
        <4> QED
          BY <4>3 DEF Outmost
      <3> QED
        BY <3>1, <3>2
    <2>4. more = [S \in Lacking(g, v, i + 1) |-> Outmost(g, v, f, S)]
      OBVIOUS
    <2> HIDE DEF more
    <2>5. more = [S \in Lacking(g, v, i + 1) |-> Outmost(g, v, more, S)]
      BY <2>3, <2>4
    <2>6. Beyond(g, v, more, Lacking(g, v, i + 1))
      BY <2>5 DEF Beyond
    <2> QED
      BY <2>6, <1>2, <1>0
  <1> HIDE DEF G
  <1>3. n \in G
    BY <1>0, <1>1, <1>2, Upwards
  <1>4. ASSUME NEW S \in SUBSET Ahead(g, v) PROVE S \in Lacking(g, v, n)
    <2>1. Ahead(g, v) \ S \in SUBSET Ahead(g, v)
      OBVIOUS
    <2> QED
      BY <2>1, <1>0, FS_Subset DEF Lacking
  <1>5. Lacking(g, v, n) = SUBSET Ahead(g, v)
    BY <1>4 DEF Lacking
  <1> QED
    BY <1>3, <1>5 DEF G

\* A set that is not left further on has all that there is, and those of a set
\* that is left are found from the next one on.
LEMMA SpreadOnward ==
    ASSUME NEW g, NEW v, IsFiniteSet(DOMAIN g.link)
    PROVE  /\ Spread(g, v) = SpreadFrom(g, v, {})
           /\ \A S \in SUBSET Ahead(g, v) :
                SpreadFrom(g, v, S) =
                  LET next == Onward(g, v, S)
                  IN  IF Onward(g, v, next) = next THEN [all |-> next, last |-> next \ S]
                      ELSE SpreadFrom(g, v, next)
  <1> DEFINE f == CHOOSE f : f = [S \in SUBSET Ahead(g, v) |-> Outmost(g, v, f, S)]
  <1>1. Spread(g, v) = f[{}]
    BY DEF Spread, Outmost, Onward, Ahead
  <1>2. \A T : SpreadFrom(g, v, T) = f[T]
    BY DEF SpreadFrom
  <1>3. f = [S \in SUBSET Ahead(g, v) |-> Outmost(g, v, f, S)]
    BY BeyondExists DEF Beyond
  <1> HIDE DEF f
  <1>4. ASSUME NEW S \in SUBSET Ahead(g, v)
        PROVE  f[S] = Outmost(g, v, f, S)
    BY <1>3
  <1> QED
    BY <1>1, <1>2, <1>4 DEF Outmost

-----------------------------------------------------------------------------
(* The queue of a cascade *)

NoRepeat(q) == \A i, j \in 1 .. Len(q) : q[i] = q[j] => i = j

\* All that is nearer to v than what the cascade looks at is in S; the queue q
\* has what is left of the next level, before what has been found behind it.
\* The cascade has seen s.
Level(g, v, q, s, S) ==
    LET next == Onward(g, v, S)
    IN  /\ S \in SUBSET Ahead(g, v) /\ next # S
        /\ Spread(g, v) = SpreadFrom(g, v, S)
        /\ s = next \cup Range(q)
        /\ Range(q) \cap S = {} /\ Range(q) \subseteq Onward(g, v, next)
        /\ \A i, k \in 1 .. Len(q) : i < k /\ q[k] \in next => q[i] \in next

\* What has been looked at leads to what has been seen.
Followed(g, q, s) == \A l \in DOMAIN g.link : l[1] \in s \ Range(q) => l[3] \in s

\* Members of a queue.
LEMMA QueueMembers ==
    ASSUME NEW q, NEW T, q \in Seq(T)
    PROVE  /\ Len(q) \in Nat /\ DOMAIN q = 1 .. Len(q)
           /\ \A x : x \in Range(q) <=> \E i \in 1 .. Len(q) : x = q[i]
  BY DEF Range

\* The first of the queue is in its level, maybe after the last level was left.
LEMMA HeadInLevel ==
    ASSUME NEW g, NEW v, IsFiniteSet(DOMAIN g.link), NEW q, NEW s, q \in Seq(s), q # << >>,
           NEW S, Level(g, v, q, s, S), Followed(g, q, s)
    PROVE  \E T : Level(g, v, q, s, T) /\ Head(q) \in Onward(g, v, T)
  <1> DEFINE N == Onward(g, v, S)
             M == Onward(g, v, N)
  <1>1. CASE Head(q) \in N
    BY <1>1
  <1>2. CASE Head(q) \notin N
    <2>1. Len(q) \in Nat \ {0} /\ q[1] = Head(q) /\ 1 \in 1 .. Len(q)
      OBVIOUS
    <2>2. \A k \in 1 .. Len(q) : q[k] \notin N
      BY <1>2, <2>1 DEF Level
    <2>3. Range(q) \cap N = {} /\ Head(q) \in Range(q)
      BY <2>1, <2>2, QueueMembers
    <2>4. s = N \cup Range(q) /\ Range(q) \subseteq M /\ S \subseteq Ahead(g, v)
      BY DEF Level
    <2>5. s \ Range(q) = N /\ v \in N
      BY <2>3, <2>4 DEF Onward
    <2>6. M \subseteq s
      BY <2>4, <2>5 DEF Followed, Onward
    <2>7. M = s /\ M # N
      <3>1. N \subseteq M
        BY DEF Onward
      <3> QED
        BY <1>2, <2>3, <2>4, <2>6, <3>1
    <2>8. N \in SUBSET Ahead(g, v)
      BY <2>4 DEF Onward, Ahead
    <2>9. Spread(g, v) = SpreadFrom(g, v, N)
      <3>1. SpreadFrom(g, v, S) = SpreadFrom(g, v, N)
        BY <2>4, <2>7, SpreadOnward
      <3> QED
        BY <3>1 DEF Level
    <2>10. M \subseteq Onward(g, v, M)
      BY DEF Onward
    <2>11. \A i \in 1 .. Len(q) : q[i] \in M
      BY <2>4, QueueMembers
    <2> HIDE DEF N, M
    <2>12. M = Onward(g, v, N)
      BY DEF M
    <2>13. Level(g, v, q, s, N)
      BY <2>3, <2>4, <2>7, <2>8, <2>9, <2>10, <2>11, <2>12 DEF Level
    <2> QED
      BY <2>3, <2>4, <2>12, <2>13
  <1> QED
    BY <1>1, <1>2

\* The first goes, and what is found, each once, is added at the end.
Requeued(q, s, new, r) ==
    /\ r \in Seq(s \cup new) /\ NoRepeat(r)
    /\ Range(r) = (Range(q) \ {Head(q)}) \cup new
    /\ Head(q) \in Range(q) /\ Range(q) \subseteq s
    /\ \A i, k \in 1 .. Len(r) : i < k =>
          \/ r[k] \in new
          \/ \E j, m \in 1 .. Len(q) : j < m /\ r[i] = q[j] /\ r[k] = q[m]

LEMMA Requeue ==
    ASSUME NEW s, NEW q, q \in Seq(s), q # << >>, NoRepeat(q),
           NEW new, IsFiniteSet(new), new \cap s = {}, NEW found \in SetToSeqs(new),
           NEW r, r = Tail(q) \o found
    PROVE  Requeued(q, s, new, r)
  <1> DEFINE n == Len(q)
             c == Cardinality(new)
  <1>1. n \in Nat \ {0} /\ q[1] = Head(q) /\ c \in Nat
    BY FS_CardinalityType
  <1>2. /\ found \in [1 .. c -> new] /\ \A i, j \in 1 .. c : i # j => found[i] # found[j]
        /\ found \in Seq(new) /\ Len(found) = c
    <2>1. found \in [1 .. c -> new] /\ \A i, j \in 1 .. c : i # j => found[i] # found[j]
      BY DEF SetToSeqs
    <2>2. found \in Seq(new)
      BY <1>1, <2>1, SeqDef
    <2>3. Len(found) = c
      BY <1>1, <2>1, <2>2, LenProperties
    <2> QED
      BY <2>1, <2>2, <2>3
  <1>3. \A x \in new : \E i \in 1 .. c : found[i] = x
    <2>1. IsFiniteSet(1 .. c) /\ Cardinality(1 .. c) = c
      BY <1>1, FS_Interval
    <2>2. found \in Injection(1 .. c, new)
      BY <1>2 DEF Injection, IsInjective
    <2>3. found \in Surjection(1 .. c, new)
      BY <2>1, <2>2, FS_Injection
    <2> QED
      BY <2>3 DEF Surjection
  <1>4. /\ Tail(q) \in Seq(s) /\ Len(Tail(q)) = n - 1
        /\ \A i \in 1 .. n - 1 : Tail(q)[i] = q[i + 1]
    BY <1>1
  <1>5. Tail(q) \in Seq(s \cup new) /\ found \in Seq(s \cup new)
    <2>1. PICK W : W = s \cup new
      OBVIOUS
    <2>2. s \subseteq W /\ new \subseteq W
      BY <2>1
    <2>3. Tail(q) \in Seq(W) /\ found \in Seq(W)
      BY <1>2, <1>4, <2>2, SeqMonotonic
    <2> QED
      BY <2>1, <2>3
  <1>6. /\ r \in Seq(s \cup new) /\ Len(r) = n - 1 + c
        /\ \A i \in 1 .. n - 1 : r[i] = q[i + 1]
        /\ \A i \in 1 .. c : r[n - 1 + i] = found[i]
    <2>1. /\ r \in Seq(s \cup new) /\ Len(r) = Len(Tail(q)) + Len(found)
          /\ \A i \in 1 .. Len(Tail(q)) + Len(found) :
                r[i] = IF i <= Len(Tail(q)) THEN Tail(q)[i] ELSE found[i - Len(Tail(q))]
      BY <1>5, ConcatProperties
    <2>2. ASSUME NEW i \in 1 .. n - 1
          PROVE  r[i] = q[i + 1]
      BY <1>1, <1>2, <1>4, <2>1
    <2>3. ASSUME NEW i \in 1 .. c
          PROVE  r[n - 1 + i] = found[i]
      <3>1. n - 1 + i \in 1 .. (n - 1 + c) /\ ~(n - 1 + i <= n - 1) /\ n - 1 + i - (n - 1) = i
        BY <1>1
      <3> QED
        BY <1>2, <1>4, <2>1, <3>1
    <2> QED
      BY <1>2, <1>4, <2>1, <2>2, <2>3
  <1>m. \A x : x \in Range(r) <=> \E i \in 1 .. Len(r) : x = r[i]
    <2>1. PICK W : W = s \cup new
      OBVIOUS
    <2>2. r \in Seq(W)
      BY <1>6, <2>1
    <2> QED
      BY <2>2, QueueMembers
  <1>7. \A i \in 1 .. n : q[i] \in s
    BY <1>1
  <1>8. ASSUME NEW i \in 1 .. Len(r)
        PROVE  \/ /\ i \in 1 .. n - 1 /\ i + 1 \in 1 .. n /\ i + 1 # 1 /\ r[i] = q[i + 1] /\ r[i] \in s
               \/ \E j \in 1 .. c : i = n - 1 + j /\ r[i] = found[j] /\ r[i] \in new
    <2>1. CASE i <= n - 1
      <3>1. i \in 1 .. n - 1 /\ i + 1 \in 1 .. n /\ i + 1 # 1
        BY <1>1, <1>6, <2>1
      <3> QED
        BY <1>6, <1>7, <3>1
    <2>2. CASE ~ (i <= n - 1)
      <3>1. i - (n - 1) \in 1 .. c /\ i = n - 1 + (i - (n - 1))
        BY <1>1, <1>6, <2>2
      <3> QED
        BY <1>2, <1>6, <3>1
    <2> QED
      BY <2>1, <2>2
  <1>9. NoRepeat(r)
    <2> SUFFICES ASSUME NEW i \in 1 .. Len(r), NEW k \in 1 .. Len(r), r[i] = r[k]
                 PROVE  i = k
      BY DEF NoRepeat
    <2>1. CASE r[i] \in new
      <3>1. PICK j \in 1 .. c : i = n - 1 + j /\ r[i] = found[j]
        BY <1>8, <2>1
      <3>2. PICK m \in 1 .. c : k = n - 1 + m /\ r[k] = found[m]
        BY <1>8, <2>1
      <3>3. j = m
        BY <1>2, <3>1, <3>2
      <3> QED
        BY <3>1, <3>2, <3>3
    <2>2. CASE r[i] \notin new
      <3>1. i + 1 \in 1 .. n /\ r[i] = q[i + 1] /\ k + 1 \in 1 .. n /\ r[k] = q[k + 1]
        BY <1>8, <2>2
      <3>2. i + 1 = k + 1
        BY <3>1 DEF NoRepeat
      <3> QED
        BY <1>6, <1>1, <3>2
    <2> QED
      BY <2>1, <2>2
  <1>10. Range(r) = (Range(q) \ {Head(q)}) \cup new
    <2>1. ASSUME NEW x \in Range(r)
          PROVE  x \in (Range(q) \ {Head(q)}) \cup new
      <3>1. PICK i \in 1 .. Len(r) : x = r[i]
        BY <1>m
      <3>2. CASE r[i] \in new
        BY <3>1, <3>2
      <3>3. CASE r[i] \notin new
        <4>1. i + 1 \in 1 .. n /\ i + 1 # 1 /\ r[i] = q[i + 1]
          BY <1>8, <3>3
        <4>2. q[i + 1] # q[1]
          BY <1>1, <4>1 DEF NoRepeat
        <4> QED
          BY <1>1, <3>1, <4>1, <4>2, QueueMembers
      <3> QED
        BY <3>2, <3>3
    <2>2. ASSUME NEW x \in Range(q), x # Head(q)
          PROVE  x \in Range(r)
      <3>1. PICK i \in 1 .. n : x = q[i]
        BY QueueMembers
      <3>2. i - 1 \in 1 .. n - 1 /\ i - 1 + 1 = i /\ i - 1 \in 1 .. Len(r)
        BY <1>1, <1>6, <2>2, <3>1
      <3>3. r[i - 1] = x
        BY <1>6, <3>1, <3>2
      <3> QED
        BY <1>m, <3>2, <3>3
    <2>3. ASSUME NEW x \in new
          PROVE  x \in Range(r)
      <3>1. PICK i \in 1 .. c : found[i] = x
        BY <1>3
      <3>2. n - 1 + i \in 1 .. Len(r) /\ r[n - 1 + i] = x
        BY <1>1, <1>6, <3>1
      <3> QED
        BY <1>m, <3>2
    <2> QED
      BY <2>1, <2>2, <2>3
  <1>11. Head(q) \in Range(q) /\ Range(q) \subseteq s
    BY <1>1, <1>7, QueueMembers
  <1>12. ASSUME NEW i \in 1 .. Len(r), NEW k \in 1 .. Len(r), i < k, r[k] \notin new
         PROVE  \E j, m \in 1 .. Len(q) : j < m /\ r[i] = q[j] /\ r[k] = q[m]
    <2>1. k \in 1 .. n - 1 /\ k + 1 \in 1 .. n /\ r[k] = q[k + 1]
      BY <1>8, <1>12
    <2>2. i \in 1 .. n - 1 /\ i + 1 \in 1 .. n /\ i + 1 < k + 1
      BY <1>1, <1>6, <1>12, <2>1
    <2>3. r[i] = q[i + 1]
      BY <1>6, <2>2
    <2> QED
      BY <2>1, <2>2, <2>3
  <1> QED
    BY <1>6, <1>9, <1>10, <1>11, <1>12 DEF Requeued

\* What the cascade does when it looks at the first of the queue: the others
\* stay in order, and the end of the queue is the end of what there is.
GoesOn(g, v, q, s, new, r) ==
    /\ NoRepeat(r) /\ Head(q) \in s \ (s \ Range(q))
    /\ (s \cup new) \ Range(r) = (s \ Range(q)) \cup {Head(q)}
    /\ Followed(g, r, s \cup new)
    /\ r # << >> => \E T : Level(g, v, r, s \cup new, T)
    /\ r = << >> => Spread(g, v).all = s \cup new /\ Head(q) \in Spread(g, v).last

LEMMA LevelGoesOn ==
    ASSUME NEW g, NEW v, IsFiniteSet(DOMAIN g.link), NEW q, NEW s, q \in Seq(s), q # << >>,
           NoRepeat(q), Followed(g, q, s), \E T : Level(g, v, q, s, T),
           NEW new, new = Children(g, Head(q)) \ s, NEW found \in SetToSeqs(new),
           NEW r, r = Tail(q) \o found
    PROVE  GoesOn(g, v, q, s, new, r)
  <1> DEFINE e == Head(q)
  <1>1. PICK S : Level(g, v, q, s, S) /\ e \in Onward(g, v, S)
    BY HeadInLevel
  <1> DEFINE N == Onward(g, v, S)
  <1>2. /\ S \in SUBSET Ahead(g, v) /\ N # S /\ Spread(g, v) = SpreadFrom(g, v, S)
        /\ s = N \cup Range(q) /\ Range(q) \cap S = {} /\ Range(q) \subseteq Onward(g, v, N)
        /\ \A i, k \in 1 .. Len(q) : i < k /\ q[k] \in N => q[i] \in N
    BY <1>1 DEF Level
  <1>3. IsFiniteSet(new)
    <2> DEFINE f == [l \in Out(g, e) |-> l[3]]
    <2>1. IsFiniteSet(Out(g, e))
      BY FS_Subset DEF Out
    <2>2. f \in Surjection(Out(g, e), Children(g, e))
      BY DEF Children, Surjection
    <2>3. IsFiniteSet(Children(g, e))
      BY <2>1, <2>2, FS_Surjection
    <2> QED
      BY <2>3, FS_Subset
  <1>4. \A x : x \in new <=> x \notin s /\ \E l \in DOMAIN g.link : l[1] = e /\ l[3] = x
    BY DEF Children, Out
  <1> HIDE DEF N
  <1>5. new \cap s = {}
    BY <1>4
  <1>6. /\ r \in Seq(s \cup new) /\ NoRepeat(r)
        /\ Range(r) = (Range(q) \ {e}) \cup new
        /\ e \in Range(q) /\ Range(q) \subseteq s
        /\ \A i, k \in 1 .. Len(r) : i < k =>
              \/ r[k] \in new
              \/ \E j, m \in 1 .. Len(q) : j < m /\ r[i] = q[j] /\ r[k] = q[m]
    <2>1. /\ q \in Seq(s) /\ q # << >> /\ NoRepeat(q) /\ IsFiniteSet(new) /\ new \cap s = {}
          /\ found \in SetToSeqs(new) /\ r = Tail(q) \o found
      BY <1>3, <1>5
    <2>2. Requeued(q, s, new, r)
      BY ONLY <2>1, Requeue
    <2> QED
      BY <2>2 DEF Requeued
  <1>7. (s \cup new) \ Range(r) = (s \ Range(q)) \cup {e}
    BY <1>5, <1>6
  <1>8. Followed(g, r, s \cup new)
    BY <1>4, <1>7 DEF Followed
  <1>9. ASSUME r # << >>
        PROVE  Level(g, v, r, s \cup new, S)
    <2>1. s \cup new = N \cup Range(r)
      BY <1>1, <1>2, <1>6 DEF N
    <2>2. S \subseteq N
      BY DEF N, Onward
    <2>3. Range(r) \cap S = {}
      BY <1>2, <1>5, <1>6, <2>2
    <2>4. new \subseteq Onward(g, v, N)
      BY <1>1, <1>4 DEF N, Onward
    <2>5. Range(r) \subseteq Onward(g, v, N)
      BY <1>2, <1>6, <2>4
    <2>6. \A i, k \in 1 .. Len(r) : i < k /\ r[k] \in N => r[i] \in N
      <3> SUFFICES ASSUME NEW i \in 1 .. Len(r), NEW k \in 1 .. Len(r), i < k, r[k] \in N
                   PROVE  r[i] \in N
        OBVIOUS
      <3>1. r[k] \notin new
        BY <1>2, <1>5
      <3>2. PICK j \in 1 .. Len(q), m \in 1 .. Len(q) : j < m /\ r[i] = q[j] /\ r[k] = q[m]
        BY <1>6, <3>1
      <3> QED
        BY <1>2, <3>2
    <2> QED
      BY <1>2, <2>1, <2>3, <2>5, <2>6 DEF Level, N
  <1>10. ASSUME r = << >>
         PROVE  Spread(g, v).all = s \cup new /\ e \in Spread(g, v).last
    <2>1. Range(r) = {}
      BY <1>10 DEF Range
    <2>2. new = {} /\ Range(q) = {e}
      BY <1>6, <2>1
    <2>3. s = N
      BY <1>1, <1>2, <2>2 DEF N
    <2>4. Onward(g, v, N) = N
      <3>1. v \in N
        BY DEF N, Onward
      <3>2. \A l \in DOMAIN g.link : l[1] \in N => l[3] \in N
        BY <1>8, <2>1, <2>2, <2>3 DEF Followed
      <3> QED
        BY <3>1, <3>2 DEF Onward
    <2>5. Spread(g, v) = [all |-> N, last |-> N \ S]
      BY <1>2, <2>4, SpreadOnward DEF N
    <2>6. Spread(g, v).all = N /\ Spread(g, v).last = N \ S
      BY <2>5
    <2> QED
      BY <1>2, <1>6, <2>2, <2>3, <2>6
  <1> QED
    BY <1>6, <1>7, <1>8, <1>9, <1>10 DEF GoesOn

-----------------------------------------------------------------------------
(* The graph that a cascade leaves *)

IsGraph(g) ==
    /\ g = [vertex |-> g.vertex, link |-> g.link]
    /\ g.vertex = [v \in DOMAIN g.vertex |-> g.vertex[v]]
    /\ g.link = [l \in DOMAIN g.link |-> g.link[l]]

\* The graph without the vertices in S.
Less(g, S) ==
    [vertex |-> Without(g.vertex, S),
     link |-> Without(g.link, {l \in DOMAIN g.link : IsLink(l) /\ {l[1], l[3]} \cap S # {}})]

\* Functions that are told apart by none of their values are the same.
LEMMA WithoutTwice ==
    ASSUME NEW f, NEW A, NEW B, NEW C, DOMAIN f \ C = (DOMAIN f \ A) \ B
    PROVE  Without(Without(f, A), B) = Without(f, C)
  <1>1. /\ Without(f, A) = [x \in DOMAIN f \ A |-> f[x]]
        /\ Without(f, C) = [x \in DOMAIN f \ C |-> f[x]]
    BY DEF Without, Restrict
  <1>2. PICK h : h = Without(f, A)
    OBVIOUS
  <1>3. DOMAIN h = DOMAIN f \ A /\ \A x \in DOMAIN h : h[x] = f[x]
    BY <1>1, <1>2
  <1>4. Without(h, B) = [x \in DOMAIN h \ B |-> h[x]]
    BY DEF Without, Restrict
  <1>5. Without(h, B) = [x \in DOMAIN f \ C |-> f[x]]
    BY <1>3, <1>4
  <1> QED
    BY <1>1, <1>2, <1>5

\* The links of other vertices than those in S are left.
LEMMA LessLinks ==
    ASSUME NEW g, NEW S
    PROVE  DOMAIN Less(g, S).link = {l \in DOMAIN g.link : IsLink(l) => {l[1], l[3]} \cap S = {}}
  <1>1. /\ Less(g, S).vertex = Without(g.vertex, S)
        /\ Less(g, S).link = Without(g.link, {l \in DOMAIN g.link : IsLink(l) /\ {l[1], l[3]} \cap S # {}})
    BY DEF Less
  <1> QED
    BY <1>1 DEF Without, Restrict

\* A graph that loses no vertex stays the same.
LEMMA LessNothing ==
    ASSUME NEW g, IsGraph(g)
    PROVE  Less(g, {}) = g
  <1>1. ASSUME NEW f
        PROVE  Without(f, {}) = [x \in DOMAIN f |-> f[x]]
    <2>1. DOMAIN f \ {} = DOMAIN f
      OBVIOUS
    <2> QED
      BY <2>1 DEF Without, Restrict
  <1>2. {l \in DOMAIN g.link : IsLink(l) /\ {l[1], l[3]} \cap {} # {}} = {}
    OBVIOUS
  <1>3. Less(g, {}) = [vertex |-> g.vertex, link |-> g.link]
    BY <1>1, <1>2 DEF Less, IsGraph
  <1> QED
    BY <1>3 DEF IsGraph

\* A graph that loses one vertex more.
LEMMA LessAgain ==
    ASSUME NEW g, NEW S, NEW v
    PROVE  DeleteVertex(Less(g, S), v) = Less(g, S \cup {v})
  <1> DEFINE h == Less(g, S)
             C == {l \in DOMAIN g.link : IsLink(l) /\ {l[1], l[3]} \cap (S \cup {v}) # {}}
             B == {l \in Touching(h, v) : IsLink(l)}
             A == {l \in DOMAIN g.link : IsLink(l) /\ {l[1], l[3]} \cap S # {}}
  <1>1. h.vertex = Without(g.vertex, S) /\ h.link = Without(g.link, A)
    BY DEF Less
  <1>2. DOMAIN h.link = {l \in DOMAIN g.link : IsLink(l) => {l[1], l[3]} \cap S = {}}
    BY LessLinks
  <1> HIDE DEF h
  <1>3. Without(h.vertex, {v}) = Without(g.vertex, S \cup {v})
    BY <1>1, WithoutTwice
  <1>4. DOMAIN g.link \ C = (DOMAIN g.link \ A) \ B
    BY <1>2 DEF Touching
  <1>5. Without(h.link, B) = Without(g.link, C)
    <2> HIDE DEF A, B, C
    <2> QED
      BY <1>1, <1>4, WithoutTwice
  <1>6. DeleteVertex(h, v) = [vertex |-> Without(g.vertex, S \cup {v}), link |-> Without(g.link, C)]
    BY <1>3, <1>5 DEF DeleteVertex
  <1> QED
    BY <1>6 DEF h, Less

\* A cascade that has deleted some of what it has seen finds the same.
LEMMA LessChildren ==
    ASSUME NEW g, NEW S, NEW s, S \subseteq s, NEW e, e \notin S
    PROVE  Children(Less(g, S), e) \ s = Children(g, e) \ s
  BY LessLinks DEF Children, Out

\* The graphs that a cascade may leave.
LEMMA OutcomesAreLess ==
    ASSUME NEW g, NEW v, NEW x \in Spread(g, v).last
    PROVE  Less(g, Spread(g, v).all \ {x}) \in CascadeOutcomes(g, v)
  BY DEF Less, CascadeOutcomes

\* Requests leave a graph.
LEMMA ApplyIsGraph ==
    ASSUME NEW g, IsGraph(g), NEW r, r.op \in VertexOp \cup LinkOp
    PROVE  IsGraph(Apply(g, r))
  <1>1. ASSUME NEW f, NEW k, NEW b
        PROVE  Put(f, k, b) = [x \in DOMAIN Put(f, k, b) |-> Put(f, k, b)[x]]
    BY DEF Put
  <1>2. ASSUME NEW f, NEW S
        PROVE  Without(f, S) = [x \in DOMAIN Without(f, S) |-> Without(f, S)[x]]
    BY DEF Without, Restrict
  <1>3. ASSUME NEW x, NEW y, x = [k \in DOMAIN x |-> x[k]], y = [k \in DOMAIN y |-> y[k]]
        PROVE  IsGraph([vertex |-> x, link |-> y])
    <2>1. PICK h : h = [vertex |-> x, link |-> y]
      OBVIOUS
    <2>2. h.vertex = x /\ h.link = y
      BY <2>1
    <2>3. IsGraph(h)
      BY <1>3, <2>1, <2>2 DEF IsGraph
    <2> QED
      BY <2>1, <2>3
  <1>4. \A v : IsGraph(DeleteVertex(g, v))
    BY <1>2, <1>3 DEF DeleteVertex
  <1>5. CASE r.op = "vertexCreate"
    <2>1. PICK h : IsGraph(h) /\ Apply(g, r) = [h EXCEPT !.vertex = Put(@, r.at, r.body)]
      BY <1>4, <1>5 DEF Apply, CreateVertex
    <2>2. h = [vertex |-> h.vertex, link |-> h.link] /\ h.link = [l \in DOMAIN h.link |-> h.link[l]]
      BY <2>1 DEF IsGraph
    <2>3. Apply(g, r) = [vertex |-> Put(h.vertex, r.at, r.body), link |-> h.link]
      BY <2>1, <2>2
    <2> QED
      BY <1>1, <1>3, <2>2, <2>3
  <1> DEFINE gv == g.vertex
             gl == g.link
  <1>6. /\ g = [vertex |-> gv, link |-> gl]
        /\ gv = [x \in DOMAIN gv |-> gv[x]] /\ gl = [x \in DOMAIN gl |-> gl[x]]
    BY DEF IsGraph
  <1> HIDE DEF gv, gl
  <1>7. CASE r.op = "vertexUpdate"
    <2>1. PICK b : Apply(g, r) = [g EXCEPT !.vertex = Put(@, r.at, b)]
      BY <1>7 DEF Apply, UpdateVertex
    <2>2. Apply(g, r) = [vertex |-> Put(gv, r.at, b), link |-> gl]
      BY <1>6, <2>1
    <2> QED
      BY <1>1, <1>3, <1>6, <2>2
  <1>8. CASE r.op = "vertexDelete"
    BY <1>4, <1>8 DEF Apply
  <1>9. CASE r.op \in {"linkCreate", "linkUpdate"}
    <2>1. PICK b : Apply(g, r) = [g EXCEPT !.link = Put(@, r.at, b)]
      BY <1>9 DEF Apply, CreateLink, UpdateLink
    <2>2. Apply(g, r) = [vertex |-> gv, link |-> Put(gl, r.at, b)]
      BY <1>6, <2>1
    <2> QED
      BY <1>1, <1>3, <1>6, <2>2
  <1>10. CASE r.op = "linkDelete"
    <2>1. Apply(g, r) = [g EXCEPT !.link = Without(@, {r.at})]
      BY <1>10 DEF Apply, DeleteLink
    <2>2. Apply(g, r) = [vertex |-> gv, link |-> Without(gl, {r.at})]
      BY <1>6, <2>1
    <2> QED
      BY <1>2, <1>3, <1>6, <2>2
  <1> QED
    BY <1>5, <1>7, <1>8, <1>9, <1>10 DEF VertexOp, LinkOp

-----------------------------------------------------------------------------
(* Cascades that nothing fails in *)

\* A cascade has deleted what it has looked at, but for the one it is about to
\* delete.
Deleted(h, g) ==
    LET visited == h.seen \ Range(h.queue)
    IN  \/ h.todo = << >> /\ g = Less(h.before, visited)
        \/ \E v \in visited : h.todo = <<VDelete(v)>> /\ g = Less(h.before, visited \ {v})

Cascading(h, g) ==
    /\ IsFiniteSet(DOMAIN h.before.link)
    /\ h.queue = << >> => h.todo = << >> /\ g \in CascadeOutcomes(h.before, h.call.at)
    /\ h.queue # << >> =>
         /\ NoRepeat(h.queue) /\ Followed(h.before, h.queue, h.seen)
         /\ \E S : Level(h.before, h.call.at, h.queue, h.seen, S)
         /\ Deleted(h, g)

Cascades ==
    /\ IsGraph(graph)
    /\ failures = 0 =>
         /\ late = {}
         /\ \A n \in DOMAIN handler : IsCascade(handler[n].call) => Cascading(handler[n], graph)

\* A cascade runs alone.
LEMMA CascadeAlone ==
    ASSUME Apart, NEW n \in DOMAIN handler, IsCascade(handler[n].call)
    PROVE  DOMAIN handler = {n}
  BY DEF Apart, Alone

\* It begins with the one vertex that it is asked to delete.
LEMMA CascadeBegins ==
    ASSUME NEW g, IsGraph(g), IsFiniteSet(DOMAIN g.link), NEW h, h.before = g, h.todo = << >>,
           h.queue = <<h.call.at>>, h.seen = {h.call.at}
    PROVE  Cascading(h, g)
  <1> DEFINE a == h.call.at
             q == h.queue
  <1>1. /\ Len(q) = 1 /\ q # << >> /\ Range(q) = {a}
        /\ \A i \in 1 .. Len(q) : i = 1
    BY DEF Range
  <1>2. NoRepeat(q)
    BY <1>1 DEF NoRepeat
  <1>3. h.seen \ Range(q) = {}
    BY <1>1
  <1>4. Followed(g, q, h.seen)
    BY <1>3 DEF Followed
  <1>5. Level(g, a, q, h.seen, {})
    <2>1. Onward(g, a, {}) = {a} /\ a \in Onward(g, a, {a})
      BY DEF Onward
    <2>2. \A i, k \in 1 .. Len(q) : ~ (i < k)
      BY <1>1
    <2> QED
      BY <1>1, <2>1, <2>2, SpreadOnward DEF Level
  <1>6. Deleted(h, g)
    BY <1>3, LessNothing DEF Deleted
  <1> QED
    BY <1>1, <1>2, <1>4, <1>5, <1>6 DEF Cascading

\* It deletes the vertex that it has looked at.
LEMMA CascadeDeletes ==
    ASSUME NEW h, NEW g, Cascading(h, g), h.todo # << >>,
           NEW k, k.call = h.call, k.before = h.before, k.queue = h.queue, k.seen = h.seen,
           k.todo = Tail(h.todo)
    PROVE  Cascading(k, Apply(g, Head(h.todo)))
  <1> DEFINE visited == h.seen \ Range(h.queue)
  <1>1. h.queue # << >> /\ Deleted(h, g)
    BY DEF Cascading
  <1>2. PICK v \in visited : h.todo = <<VDelete(v)>> /\ g = Less(h.before, visited \ {v})
    BY <1>1 DEF Deleted
  <1>3. Head(h.todo) = VDelete(v) /\ k.todo = << >>
    BY <1>2
  <1>4. Apply(g, VDelete(v)) = DeleteVertex(g, v)
    BY DEF Apply, VDelete
  <1>5. (visited \ {v}) \cup {v} = visited
    OBVIOUS
  <1>6. Apply(g, Head(h.todo)) = Less(h.before, visited)
    <2>1. PICK T, B : T = visited \ {v} /\ B = h.before
      OBVIOUS
    <2>2. DeleteVertex(Less(B, T), v) = Less(B, T \cup {v})
      BY LessAgain
    <2> QED
      BY <1>2, <1>3, <1>4, <1>5, <2>1, <2>2
  <1>7. Deleted(k, Apply(g, Head(h.todo)))
    BY <1>3, <1>6 DEF Deleted
  <1> QED
    BY <1>1, <1>3, <1>7 DEF Cascading

\* It looks at the first of its queue, and deletes it unless nothing is left.
LEMMA CascadeLooks ==
    ASSUME NEW h, NEW g, Cascading(h, g), h.todo = << >>, h.queue # << >>, h.queue \in Seq(h.seen),
           NEW new, new = Children(g, Head(h.queue)) \ h.seen, NEW found \in SetToSeqs(new),
           NEW k, k.call = h.call, k.before = h.before, k.queue = Tail(h.queue) \o found,
           k.seen = h.seen \cup new,
           k.todo = IF k.queue = << >> THEN << >> ELSE <<VDelete(Head(h.queue))>>
    PROVE  Cascading(k, g)
  <1> DEFINE B == h.before
             a == h.call.at
             q == h.queue
             s == h.seen
             e == Head(h.queue)
             visited == s \ Range(q)
  <1>0. Deleted(h, g)
    BY DEF Cascading
  <1>1. /\ IsFiniteSet(DOMAIN B.link) /\ NoRepeat(q) /\ Followed(B, q, s)
        /\ \E S : Level(B, a, q, s, S)
        /\ q # << >> /\ q \in Seq(s)
    BY DEF Cascading
  <1>2. g = Less(B, visited)
    BY <1>0 DEF Deleted
  <1>3. e \in Range(q) /\ visited \subseteq s
    <2>1. Len(q) \in Nat \ {0} /\ e = q[1] /\ 1 \in DOMAIN q
      OBVIOUS
    <2> QED
      BY <2>1 DEF Range
  <1>4. new = Children(B, e) \ s
    <2>1. PICK T : T = visited
      OBVIOUS
    <2>2. T \subseteq s /\ e \notin T /\ g = Less(B, T)
      BY <1>2, <1>3, <2>1
    <2>3. Children(Less(B, T), e) \ s = Children(B, e) \ s
      BY <2>2, LessChildren
    <2> QED
      BY <2>2, <2>3
  <1>5. PICK r : r = Tail(q) \o found
    OBVIOUS
  <1> DEFINE seen == s \cup new
  <1>6. /\ NoRepeat(r) /\ e \in s \ visited
        /\ seen \ Range(r) = visited \cup {e}
        /\ Followed(B, r, seen)
        /\ r # << >> => \E T : Level(B, a, r, seen, T)
        /\ r = << >> => Spread(B, a).all = seen /\ e \in Spread(B, a).last
    <2>1. GoesOn(B, a, q, s, new, r)
      BY <1>1, <1>4, <1>5, LevelGoesOn
    <2> QED
      BY <2>1 DEF GoesOn
  <1>7. (visited \cup {e}) \ {e} = visited
    BY <1>6
  <1>8. k.queue = r /\ k.seen = seen
    BY <1>5
  <1>9. CASE r = << >>
    <2>1. Range(r) = {}
      BY <1>9 DEF Range
    <2>2. Spread(B, a).all \ {e} = visited
      BY <1>6, <1>7, <1>9, <2>1
    <2>3. g \in CascadeOutcomes(B, a)
      BY <1>2, <1>6, <1>9, <2>2, OutcomesAreLess
    <2> QED
      BY <1>1, <1>8, <1>9, <2>3 DEF Cascading
  <1>10. CASE r # << >>
    <2>1. k.todo = <<VDelete(e)>>
      BY <1>8, <1>10
    <2>2. Deleted(k, g)
      BY <1>2, <1>6, <1>7, <1>8, <2>1 DEF Deleted
    <2> QED
      BY <1>1, <1>6, <1>8, <1>10, <2>2 DEF Cascading
  <1> QED
    BY <1>9, <1>10

\* A call begins.
LEMMA BeginCascades ==
    ASSUME IInv, Cascades, NEW c \in Calls, Begin(c)
    PROVE  Cascades'
  <1>1. TypeOK /\ IsFiniteSet(DOMAIN graph.link) /\ calls + 1 \notin DOMAIN handler
    BY DEF IInv, TypeOK, GraphOK
  <1>2. graph' = graph /\ failures' = failures /\ late' = late
    BY DEF Begin
  <1>3. \A n \in DOMAIN handler : ~ IsCascade(handler[n].call)
    BY DEF Begin, Legal, Alone
  <1>4. PICK plan \in Plans(graph, c) :
          handler' =
           IF plan.todo = << >> /\ ~ IsCascade(c) THEN handler
           ELSE Put(handler, calls + 1,
                    [call |-> c, todo |-> plan.todo, stack |-> {},
                     queue |-> IF IsCascade(c) THEN <<c.at>> ELSE << >>,
                     seen |-> {c.at},
                     before |-> IF IsCascade(c) THEN graph ELSE EmptyGraph])
    BY DEF Begin
  <1>5. Planned(c, plan.todo)
    BY <1>1, PlansPlanned DEF TypeOK
  <1>6. ASSUME NEW n \in DOMAIN handler', IsCascade(handler'[n].call)
        PROVE  Cascading(handler'[n], graph)
    <2>1. PICK g : g = [call |-> c, todo |-> plan.todo, stack |-> {},
                        queue |-> IF IsCascade(c) THEN <<c.at>> ELSE << >>,
                        seen |-> {c.at},
                        before |-> IF IsCascade(c) THEN graph ELSE EmptyGraph]
      OBVIOUS
    <2>2. handler' = Put(handler, calls + 1, g)
      <3>1. handler' # handler
        BY <1>3, <1>6
      <3> QED
        BY <1>4, <2>1, <3>1
    <2>3. n = calls + 1 /\ handler'[n] = g
      <3>1. DOMAIN handler' = DOMAIN handler \cup {calls + 1} /\ handler'[calls + 1] = g
            /\ \A m \in DOMAIN handler : handler'[m] = handler[m]
        BY <1>1, <2>2 DEF Put
      <3> QED
        BY <1>3, <1>6, <3>1
    <2>4. g.call = c /\ g.todo = plan.todo /\ g.seen = {c.at}
      BY <2>1
    <2>5. IsCascade(c)
      BY <1>6, <2>3, <2>4
    <2>6. g.queue = <<c.at>> /\ g.before = graph
      BY <2>1, <2>5
    <2>7. g.todo = << >>
      BY <1>5, <2>4, <2>5 DEF Planned, IsCascade
    <2>8. IsGraph(graph)
      BY DEF Cascades
    <2>9. Cascading(g, graph)
      BY <1>1, <2>4, <2>6, <2>7, <2>8, CascadeBegins
    <2> QED
      BY <2>3, <2>9
  <1> QED
    BY <1>2, <1>6 DEF Cascades

\* A request is answered.
LEMMA DoCascades ==
    ASSUME IInv, Cascades, NEW n \in DOMAIN handler, Do(n)
    PROVE  Cascades'
  <1> DEFINE h == handler[n]
             r == Head(h.todo)
  <1>1. TypeOK /\ Apart /\ HandlerOK(h) /\ h.todo # << >> /\ RequestOK(r) /\ HandlerRecord(h)
    BY NextOK DEF IInv, TypeOK, Do, HandlerOK
  <1>2. graph' = Apply(graph, r) /\ failures' = failures /\ late' = late
    BY DEF Do
  <1>3. IsGraph(graph')
    BY <1>1, <1>2, ApplyIsGraph DEF Cascades, RequestOK
  <1>4. /\ DOMAIN handler' = DOMAIN handler
        /\ \A m \in DOMAIN handler : handler'[m].call = handler[m].call
    BY <1>1, DoHandler
  <1>5. ASSUME failures = 0, NEW m \in DOMAIN handler', IsCascade(handler'[m].call)
        PROVE  Cascading(handler'[m], graph')
    <2>1. m = n /\ IsCascade(h.call)
      BY <1>1, <1>4, <1>5, CascadeAlone
    <2>2. handler' = [handler EXCEPT ![n].todo = Tail(h.todo)]
      BY <2>1 DEF Do
    <2>3. PICK k : k = [h EXCEPT !.todo = Tail(h.todo), !.stack = h.stack]
      OBVIOUS
    <2>4. handler'[n] = k
      <3>1. [h EXCEPT !.todo = Tail(h.todo)] = k
        BY <1>1, <2>3 DEF HandlerRecord
      <3> QED
        BY <2>2, <3>1
    <2>5. /\ k.call = h.call /\ k.todo = Tail(h.todo)
          /\ k.queue = h.queue /\ k.seen = h.seen /\ k.before = h.before
      BY <1>1, <2>3 DEF HandlerRecord
    <2>6. Cascading(h, graph)
      BY <1>5, <2>1 DEF Cascades
    <2>7. Cascading(k, Apply(graph, r))
      BY <1>1, <2>5, <2>6, CascadeDeletes
    <2> QED
      BY <1>2, <2>1, <2>4, <2>7
  <1> QED
    BY <1>2, <1>3, <1>5 DEF Cascades

\* A cascade looks at the next vertex.
LEMMA VisitCascades ==
    ASSUME IInv, Cascades, NEW n \in DOMAIN handler, Visit(n)
    PROVE  Cascades'
  <1> DEFINE h == handler[n]
             new == Children(graph, Head(h.queue)) \ h.seen
  <1>1. /\ TypeOK /\ Apart /\ HandlerOK(h) /\ HandlerRecord(h)
        /\ h.todo = << >> /\ h.queue # << >> /\ h.queue \in Seq(h.seen)
    BY DEF IInv, TypeOK, Visit, HandlerOK
  <1>2. graph' = graph /\ failures' = failures /\ late' = late
    BY DEF Visit
  <1>3. PICK found \in SetToSeqs(new) :
           handler' = [handler EXCEPT
                         ![n].queue = Tail(h.queue) \o found, ![n].seen = @ \cup new,
                         ![n].todo = IF Tail(h.queue) \o found = << >> THEN << >>
                                     ELSE <<VDelete(Head(h.queue))>>]
    BY DEF Visit
  <1>4. PICK q, s, t : /\ q = Tail(h.queue) \o found /\ s = h.seen \cup new
                       /\ t = IF q = << >> THEN << >> ELSE <<VDelete(Head(h.queue))>>
    OBVIOUS
  <1>5. PICK k : k = [h EXCEPT !.queue = q, !.seen = s, !.todo = t]
    OBVIOUS
  <1>6. DOMAIN handler' = DOMAIN handler /\ handler'[n] = k
    BY <1>3, <1>4, <1>5
  <1>7. k.call = h.call /\ k.before = h.before /\ k.queue = q /\ k.seen = s /\ k.todo = t
    BY <1>1, <1>5 DEF HandlerRecord
  <1>8. ASSUME failures = 0, NEW m \in DOMAIN handler', IsCascade(handler'[m].call)
        PROVE  Cascading(handler'[m], graph)
    <2>1. m = n /\ IsCascade(h.call)
      <3>1. IsCascade(h.call)
        BY <1>1 DEF HandlerOK
      <3> QED
        BY <1>1, <1>6, <1>8, <3>1, CascadeAlone
    <2>2. Cascading(h, graph)
      BY <1>8, <2>1 DEF Cascades
    <2>3. Cascading(k, graph)
      BY <1>1, <1>4, <1>7, <2>2, CascadeLooks
    <2> QED
      BY <1>6, <2>1, <2>3
  <1> QED
    BY <1>2, <1>8 DEF Cascades

\* A cascade that ends has nothing left in its queue.
LEMMA EndCascades ==
    ASSUME IInv, Cascades, NEW n \in DOMAIN handler, Fail(n) \/ Finish(n)
    PROVE  Cascades'
  <1>1. graph' = graph /\ handler' = Without(handler, {n}) /\ failures \in Nat
    BY DEF Fail, Finish, IInv, TypeOK
  <1>2. ASSUME NEW m \in DOMAIN handler'
        PROVE  m \in DOMAIN handler /\ handler'[m] = handler[m]
    BY <1>1 DEF Without, Restrict
  <1>3. failures' = 0 => failures = 0 /\ late' = late
    BY <1>1 DEF Fail, Finish
  <1> QED
    BY <1>1, <1>2, <1>3 DEF Cascades

\* A late request is executed: one has failed.
LEMMA LateCascades ==
    ASSUME IInv, Cascades, NEW r \in late, Late(r)
    PROVE  Cascades'
  <1>1. graph' = Apply(graph, r) /\ failures' = failures /\ RequestOK(r)
    BY DEF Late, IInv, TypeOK
  <1>2. IsGraph(graph')
    BY <1>1, ApplyIsGraph DEF Cascades, RequestOK
  <1> QED
    BY <1>1, <1>2 DEF Cascades

\* A cascade that nothing fails in leaves what CascadeOutcomes says
\* (DeleteObject in mode "cascade" goes through the graph level by level, while
\* the links that lead to what it has deleted disappear, and skips the last
\* vertex).
THEOREM CascadesFollowLinks == Spec => CascadeIsReachability
  <1>1. Init => Cascades
    <2> SUFFICES ASSUME Init
                 PROVE  Cascades
      OBVIOUS
    <2>1. Sound(graph) /\ handler = << >> /\ late = {}
      BY StartIsSound DEF Init
    <2> QED
      BY <2>1 DEF Cascades, IsGraph, Sound
  <1>2. IInv /\ Cascades /\ [Next]_vars => Cascades'
    <2> SUFFICES ASSUME IInv, Cascades, [Next]_vars
                 PROVE  Cascades'
      OBVIOUS
    <2>1. CASE UNCHANGED vars
      BY <2>1 DEF vars, Cascades
    <2>2. CASE Next
      BY <2>2, BeginCascades, DoCascades, VisitCascades, EndCascades, LateCascades DEF Next
    <2> QED
      BY <2>1, <2>2
  <1> DEFINE A == \A n \in DOMAIN handler \ DOMAIN handler' :
          LET h == handler[n]
          IN  IsCascade(h.call) /\ failures' = 0 => graph' \in CascadeOutcomes(h.before, h.call.at)
  <1>3. ASSUME IInv, Cascades, [Next]_vars
        PROVE  A
    <2> SUFFICES ASSUME NEW n \in DOMAIN handler, n \notin DOMAIN handler', IsCascade(handler[n].call),
                        failures' = 0
                 PROVE  graph' \in CascadeOutcomes(handler[n].before, handler[n].call.at)
      OBVIOUS
    <2>1. Finish(n)
      BY <1>3, LeavesByFinish DEF IInv, TypeOK
    <2>2. graph' = graph /\ failures = 0 /\ handler[n].queue = << >>
      BY <2>1 DEF Finish
    <2>3. Cascading(handler[n], graph)
      BY <1>3, <2>2 DEF Cascades
    <2> QED
      BY <2>2, <2>3 DEF Cascading
  <1> QED
    BY Invariant, <1>1, <1>2, <1>3, PTL DEF Spec, CascadeIsReachability
=============================================================================
