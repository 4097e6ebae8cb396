------------------------------- MODULE Objects -------------------------------
(***************************************************************************)
(* Handlers of the functions for types and objects at work on the graph,   *)
(* a low level request at a time (embedded/graph/crud/hl_crud.go).         *)
(*                                                                         *)
(* A request that the handler gives up after requestTimeoutSec, or that is *)
(* refused, ends the call; it may still be executed at any later time.     *)
(*                                                                         *)
(* Clients keep to four rules, without which the functions promise little  *)
(* (see Legal): an object is created with a type that is listed and that   *)
(* nobody is creating, no two calls work on one type or object at a time,  *)
(* a cascade, or a change of a link between types, runs alone, and a type  *)
(* that is not listed is not created while it has objects, which a late    *)
(* request may have left it.                                               *)
(***************************************************************************)
EXTENDS ObjectCalls

CONSTANTS Type, Object,     \* ids, each a sequence of one name
          LinkType,         \* types of links between objects
          Start,            \* the graphs to start with
          MaxCalls, MaxFailures

VARIABLES graph,
          handler,      \* the calls being executed, by number
          late,         \* requests that nobody waits for any more
          calls, failures,
          signals,      \* the triggers fired: [call, event, of]
          disturbed,    \* ids that a failed call, or a late request, is about
          bare          \* vertices that an update made, since they were missing
vars == <<graph, handler, late, calls, failures, signals, disturbed, bare>>

types == <<"types">>
objects == <<"objects">>

ASSUME IdsAreApart ==
    /\ \A v \in Type \cup Object : v = <<v[1]>>
    /\ Type \cap Object = {} /\ {types, objects} \cap (Type \cup Object) = {}
    /\ LinkType \cap {"__type", "__object"} = {}
ASSUME NoneIsNew == None \notin Type \cup Object \cup LinkType \cup {types, objects}
ASSUME BoundTypes == MaxCalls \in Nat /\ MaxFailures \in Nat

Listed(g, t) == <<types, "__type", t>> \in DOMAIN g.link
Known(g, o) == <<objects, "__object", o>> \in DOMAIN g.link

-----------------------------------------------------------------------------
(* Graphs of types and objects *)

LinkKey ==
    {<<types, "__type", t>> : t \in Type} \cup {<<t, "__type", u>> : t, u \in Type}
    \cup {<<objects, "__object", o>> : o \in Object}
    \cup {<<o, "__type", t>> : o \in Object, t \in Type}
    \cup {<<t, "__object", o>> : o \in Object, t \in Type}
    \cup {<<o, x, q>> : o \in Object, q \in Object, x \in LinkType}

\* An object is there with its body, one type and the links from the type and
\* the list of objects; nothing is said of a type in D.
Whole(g, o, D) ==
    /\ o \in DOMAIN g.vertex /\ Known(g, o)
    /\ \E t \in Type : /\ ObjectTypes(g, o) = {t} /\ o \in TypeObjects(g, t)
                       /\ t \in D \/ (t \in DOMAIN g.vertex /\ Listed(g, t))
    /\ \A t \in Type : o \in TypeObjects(g, t) => t \in ObjectTypes(g, o)

Absent(g, o) == o \notin DOMAIN g.vertex /\ Touching(g, o) = {}

\* What the functions make of an empty graph when nothing fails.
Sound(g) ==
    /\ g = [vertex |-> g.vertex, link |-> g.link]
    /\ g.vertex = [v \in DOMAIN g.vertex |-> g.vertex[v]]
    /\ g.link = [l \in DOMAIN g.link |-> g.link[l]]
    /\ DOMAIN g.link \subseteq LinkKey /\ IsFiniteSet(DOMAIN g.link)
    /\ \A t, u \in Type : <<t, "__type", u>> \in DOMAIN g.link
                            => g.link[<<t, "__type", u>>].val \in LinkType \cup {None}
    /\ \A t \in Type : Listed(g, t) => t \in DOMAIN g.vertex
    /\ \A o \in Object : Whole(g, o, {}) \/ Absent(g, o)
    /\ \A l \in DOMAIN g.link : l[2] \in LinkType => LinkTypeOf(g, l[1], l[3]) = {l[2]}

ASSUME StartIsSound == \A g \in Start : Sound(g)

-----------------------------------------------------------------------------
(* Calls *)

\* A vertex body is a value, the body of a link between objects nothing.
TypeCalls ==
    {Call(fn, t) : fn \in {"type.create", "type.update", "type.delete"}, t \in Type}
    \cup {[Call(fn, t) EXCEPT !.to = u, !.lt = x] :
            fn \in {"types.link.create", "types.link.update", "types.link.delete"},
            t \in Type, u \in Type, x \in LinkType}
ObjectCreations == {[Call("object.create", o) EXCEPT !.type = t] : o \in Object, t \in Type}
ObjectDeletions == {[Call("object.delete", o) EXCEPT !.mode = m] :
                        o \in Object, m \in {"vertex", "cascade"}}
ObjectUpdates == {Call("object.update", o) : o \in Object}
ObjectLinkCalls ==
    {[Call(fn, o) EXCEPT !.to = q] :
        fn \in {"objects.link.create", "objects.link.update", "objects.link.delete"},
        o \in Object, q \in Object}
Calls == TypeCalls \cup ObjectCreations \cup ObjectDeletions \cup ObjectUpdates
            \cup ObjectLinkCalls

IsCascade(c) == c.fn = "object.delete" /\ c.mode = "cascade"
Alone(c) == IsCascade(c) \/ c.fn = "types.link.update"

\* What a call works on; the type of an object to be created stays as it is.
About(c) == {c.at} \cup (IF c.to = None THEN {} ELSE {c.to})

Creates(c, t) == c.fn = "type.create" /\ c.at = t

Legal(c) ==
    /\ \A n \in DOMAIN handler :
         /\ About(handler[n].call) \cap About(c) = {}
         /\ ~ Creates(handler[n].call, c.type) /\ ~ Creates(c, handler[n].call.type)
         /\ ~ Alone(c) /\ ~ Alone(handler[n].call)
    /\ c.fn = "object.create" => Listed(graph, c.type)
    /\ c.fn = "type.create" /\ ~ Listed(graph, c.at) =>
         \A o \in Object : c.at \notin ObjectTypes(graph, o)
    /\ c.fn = "types.link.update" =>
         LET between == <<c.at, "__type", c.to>>
         IN  between \in DOMAIN graph.link =>
               \A l \in DOMAIN graph.link : l[2] # graph.link[between].val

-----------------------------------------------------------------------------
(* Triggers *)

\* What a request adds to the operation stack.
Operations(g, r) ==
    LET ended == {<<"delete", l>> : l \in Touching(g, r.at)} \cup {<<"delete", r.at>>}
        there == r.at \in DOMAIN g.vertex
        linked == r.at \in DOMAIN g.link
    IN  CASE r.op = "vertexCreate" -> {<<"create", r.at>>} \cup (IF there THEN ended ELSE {})
          [] r.op = "vertexUpdate" -> {<<"update", r.at>>}
          [] r.op = "vertexDelete" -> ended
          [] r.op = "linkCreate"   -> {<<"create", r.at>>}
                                        \cup (IF linked THEN {<<"delete", r.at>>} ELSE {})
          [] r.op = "linkUpdate"   -> {<<IF linked THEN "update" ELSE "create", r.at>>}
          [] r.op = "linkDelete"   -> IF linked THEN {<<"delete", r.at>>} ELSE {}

\* Mutant: the stack asked for is that of the links.
StackedLinks(c, r) ==
    \/ c.fn \in {"object.update", "object.delete"}
    \/ c.fn = "object.create" /\ r.op = "linkCreate"
    \/ c.fn \in {"objects.link.create", "objects.link.update", "objects.link.delete"}

\* Only the creation of the vertex is asked for its stack in object.create.
Stacked(c, r) ==
    \/ c.fn \in {"object.update", "object.delete"}
    \/ c.fn = "object.create" /\ r.op = "vertexCreate"
    \/ c.fn \in {"objects.link.create", "objects.link.update", "objects.link.delete"}

IsAnObject(g, v) == ObjectTypes(g, v) # {None}

\* Every type that exists lists functions for its objects, and every link
\* between types for the links between their objects.
Fires(g, what) ==
    IF what \in Object \cup Type
    THEN \E t \in ObjectTypes(g, what) : t \in DOMAIN g.vertex
    ELSE /\ Len(what) = 3 /\ IsAnObject(g, what[1]) /\ IsAnObject(g, what[3])
         /\ LinkTypeOf(g, what[1], what[3]) = {what[2]}

Signals(g, n, operations) ==
    {[call |-> n, event |-> e[1], of |-> e[2]] : e \in {f \in operations : Fires(g, f[2])}}

-----------------------------------------------------------------------------
Init ==
    /\ graph \in Start
    /\ handler = << >> /\ late = {} /\ calls = 0 /\ failures = 0
    /\ signals = {} /\ disturbed = {} /\ bare = {}

\* A handler takes a call, and reads; a call with nothing to do is answered.
Begin(c) ==
    /\ calls < MaxCalls /\ Legal(c)
    /\ calls' = calls + 1
    /\ \E plan \in Plans(graph, c) :
         handler' =
           IF plan.todo = << >> /\ ~ IsCascade(c) THEN handler
           ELSE Put(handler, calls + 1,
                    [call |-> c, todo |-> plan.todo, stack |-> {},
                     queue |-> IF IsCascade(c) THEN <<c.at>> ELSE << >>,
                     seen |-> {c.at},
                     before |-> IF IsCascade(c) THEN graph ELSE EmptyGraph])
    /\ UNCHANGED <<graph, late, failures, signals, disturbed, bare>>

\* An update of a vertex that is missing makes it, and nothing else.
Bare(r) ==
    IF r.op = "vertexUpdate" /\ r.at \notin DOMAIN graph.vertex THEN bare \cup {r.at}
    ELSE IF r.op \in {"vertexCreate", "vertexDelete"} THEN bare \ {r.at} ELSE bare

\* The next request of handler n succeeds.  A cascade fires triggers after
\* each of its requests.
Do(n) ==
    LET h == handler[n]
        r == Head(h.todo)
        stack == h.stack \cup (IF Stacked(h.call, r) THEN Operations(graph, r) ELSE {})
    IN  /\ h.todo # << >>
        /\ graph' = Apply(graph, r) /\ bare' = Bare(r)
        /\ IF IsCascade(h.call)
           THEN /\ handler' = [handler EXCEPT ![n].todo = Tail(@)]
                /\ signals' = signals \cup Signals(graph', n, stack)
           ELSE /\ handler' = [handler EXCEPT ![n].todo = Tail(@), ![n].stack = stack]
                /\ UNCHANGED signals
        /\ UNCHANGED <<late, calls, failures, disturbed>>

\* It fails: the call is answered "failed", whatever has been done stays, and
\* the request may be executed later.
Fail(n) ==
    LET h == handler[n]
    IN  /\ h.todo # << >> /\ failures < MaxFailures
        /\ failures' = failures + 1
        /\ late' = late \cup {Head(h.todo)}
        /\ handler' = Without(handler, {n})
        /\ disturbed' = disturbed \cup About(h.call)
                            \cup (IF IsCascade(h.call) THEN h.seen ELSE {})
        /\ UNCHANGED <<graph, calls, signals, bare>>

\* It disturbs every vertex it is about or that its vertex is linked with.
Late(r) ==
    /\ late' = late \ {r}
    /\ graph' = Apply(graph, r) /\ bare' = Bare(r)
    /\ disturbed' = disturbed \cup
         (IF r.op \in {"vertexCreate", "vertexUpdate", "vertexDelete"}
          THEN {r.at} \cup UNION {{l[1], l[3]} : l \in Touching(graph, r.at)}
          ELSE {r.at[1], r.at[3]})
    /\ UNCHANGED <<handler, calls, failures, signals>>

\* Mutant: what has been looked at stays in the queue.
VisitAgain(n) ==
    LET h == handler[n]
        elem == Head(h.queue)
        new == Children(graph, elem) \ h.seen
    IN  /\ h.todo = << >> /\ h.queue # << >>
        /\ \E found \in SetToSeqs(new) :
             handler' = [handler EXCEPT
                           ![n].queue = h.queue \o found, ![n].seen = @ \cup new,
                           ![n].todo = <<VDelete(elem)>>]
        /\ UNCHANGED <<graph, late, calls, failures, signals, disturbed, bare>>

\* A cascade looks where the first vertex of its queue leads to, takes it out,
\* and deletes it unless the queue is empty.
Visit(n) ==
    LET h == handler[n]
        elem == Head(h.queue)
        new == Children(graph, elem) \ h.seen
    IN  /\ h.todo = << >> /\ h.queue # << >>
        /\ \E found \in SetToSeqs(new) :
             LET rest == Tail(h.queue) \o found
             IN  handler' = [handler EXCEPT
                               ![n].queue = rest, ![n].seen = @ \cup new,
                               ![n].todo = IF rest = << >> THEN << >> ELSE <<VDelete(elem)>>]
        /\ UNCHANGED <<graph, late, calls, failures, signals, disturbed, bare>>

\* Nothing is left to do: triggers fire, and the call is answered "ok".
Finish(n) ==
    LET h == handler[n]
    IN  /\ h.todo = << >> /\ h.queue = << >>
        /\ signals' = signals \cup Signals(graph, n, h.stack)
        /\ disturbed' = IF IsCascade(h.call)
                        THEN disturbed \cup h.seen ELSE disturbed
        /\ handler' = Without(handler, {n})
        /\ UNCHANGED <<graph, late, calls, failures, bare>>

Step(n) == Do(n) \/ Visit(n) \/ Finish(n)

Next ==
    \/ \E c \in Calls : Begin(c)
    \/ \E n \in DOMAIN handler : Do(n)
    \/ \E n \in DOMAIN handler : Fail(n)
    \/ \E r \in late : Late(r)
    \/ \E n \in DOMAIN handler : Visit(n)
    \/ \E n \in DOMAIN handler : Finish(n)

Spec == Init /\ [][Next]_vars

\* Handlers are goroutines, and a request is answered or given up.
FairSpec == Spec /\ \A n \in 1 .. MaxCalls : WF_vars(n \in DOMAIN handler /\ Step(n))

-----------------------------------------------------------------------------
(* Properties *)

\* Ids that a call is at work on: any of them, for a cascade.
Busy ==
    UNION {IF IsCascade(handler[n].call) THEN Type \cup Object ELSE About(handler[n].call) :
              n \in DOMAIN handler}

\* The vertex that an update of an unknown object has made, without a link.
IsBare(o) == o \in bare /\ o \in DOMAIN graph.vertex /\ Touching(graph, o) = {}

\* An object that no call works on, and about which none has failed, is whole,
\* or nothing of it is there, or what an update of an unknown object leaves:
\* whatever calls for other objects and for its type did meanwhile.
\* (CreateObject makes four requests and DeleteObject one that deletes every
\* link; nothing rolls back.  UpdateObject asks for no object.)
ObjectsAreWhole ==
    \A o \in Object \ (disturbed \cup Busy) :
        Whole(graph, o, disturbed) \/ Absent(graph, o) \/ IsBare(o)

\* A link between two such objects has the type that their types have for it,
\* and does not outlive either object.
LinksAreDeclared ==
    \A l \in DOMAIN graph.link :
        LET from == l[1]
            to == l[3]
            concerned == {from, to} \cup ObjectTypes(graph, from) \cup ObjectTypes(graph, to)
        IN  l[2] \in LinkType /\ concerned \cap (disturbed \cup Busy) = {}
              => LinkTypeOf(graph, from, to) = {l[2]}

\* Who creates an object gets its creation announced to the functions of its
\* type, and these find the whole object.  (The triggers fire before the
\* answer, after the links: they look the type up.)
CreationIsAnnounced ==
    [][\A n \in DOMAIN handler \ DOMAIN handler' :
          LET c == handler[n].call
          IN  /\ c.fn = "object.create" /\ failures' = failures
              /\ {c.at, c.type} \cap disturbed = {}
              => /\ [call |-> n, event |-> "create", of |-> c.at] \in signals'
                 /\ Whole(graph', c.at, disturbed)]_vars

\* A cascade that nothing fails in deletes exactly the vertices that can be
\* reached, once the links of the vertices deleted first are gone too, except
\* the last one it finds.
CascadeIsReachability ==
    [][\A n \in DOMAIN handler \ DOMAIN handler' :
          LET h == handler[n]
          IN  IsCascade(h.call) /\ failures' = 0 => graph' \in CascadeOutcomes(h.before, h.call.at)]_vars

\* Every call ends, cascades through cycles included.
CallsEnd == \A n \in 1 .. MaxCalls : n \in DOMAIN handler ~> n \notin DOMAIN handler
=============================================================================
