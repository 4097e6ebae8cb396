----------------------------- MODULE GraphLinks -----------------------------
(***************************************************************************)
(* The low level graph functions (embedded/graph/crud/ll_crud.go): create, *)
(* update and delete of vertices and links.  The out links of a vertex, a  *)
(* key per body, per name and per index, are written by the functions of   *)
(* that vertex one key after the other; the in link is written by the same *)
(* function for the other vertex, which it requests and waits for.         *)
(*                                                                         *)
(* A handler is a function and an id (module FunctionType): it executes    *)
(* its messages one after the other, and different functions for one       *)
(* vertex concurrently.  A request is goLangLocalRequest of ingress.go:    *)
(* the requester waits for the answer, and the handler that answers until  *)
(* somebody receives it.  Requests that are given up are in module Objects.*)
(***************************************************************************)
EXTENDS Naturals, Sequences, FiniteSets

CONSTANTS
    Vertex,
    Type,           \* link types
    Name,           \* link names that callers choose
    Tag,
    Client,         \* callers of the functions; each waits for its answer
    Calls,          \* what each of them may call
    None,
    MaxGen          \* bound: a vertex has generated at most so many link names

Link == [from : Vertex, type : Type, to : Vertex]
GeneratedName == Nat                \* "name" and a counter
LinkBody == [name : Name \cup GeneratedName, tags : SUBSET Tag]
\* The link_body of a call; its name may be missing.
GivenBody == [name : Name \cup {None}, tags : SUBSET Tag]

LinkFunction == {"linkCreate", "linkUpdate", "linkDelete"}
VertexFunction == {"vertexCreate", "vertexUpdate", "vertexDelete"}
\* The third component: whether the id is composite, <id>===create_in_link or
\* <id>===delete_in_link, which gives a link to itself a handler of its own.
Handler == (LinkFunction \cup VertexFunction) \X Vertex \X {FALSE}
           \cup {"linkCreate", "linkDelete"} \X Vertex \X {TRUE}

\* A call without an argument that its function requires is refused before any
\* change; the source of a link is the vertex that is called.
Call == {call \in [handler : Handler, link : Link \cup {None}, body : GivenBody \cup {None}] :
            /\ ~call.handler[3]
            /\ IF call.handler[1] \in LinkFunction
               THEN call.link # None /\ call.link.from = call.handler[2] ELSE call.link = None
            /\ call.body # None <=> call.handler[1] \in {"linkCreate", "linkUpdate"}}
Msg == [in : BOOLEAN, link : Link \cup {None}, body : GivenBody \cup {None},
        caller : Client \cup Handler]

ASSUME ClientsAreNoHandlers == Client \cap Handler = {}
ASSUME CallsType == Calls \in [Client -> SUBSET Call]
ASSUME MaxGenIsNat == MaxGen \in Nat

VARIABLES
    vertex,         \* vertices that have a body
    body,           \* the body of each link, or None
    outName,        \* name keys: <<vertex, name>>
    outIndex,       \* index keys: <<link, "name" or "tag", value>>
    inLink,         \* links that have an in link key on the other vertex
    nameGen,        \* the counter of generated names of each vertex
    queue,          \* messages of each handler
    frame,          \* what each handler executes, or None
    client          \* the call of each client, or None

links == <<body, outName, outIndex, inLink, nameGen>>
graph == <<vertex, links>>
vars == <<graph, queue, frame, client>>

Init ==
    /\ vertex = {}
    /\ body = [l \in Link |-> None]
    /\ outName = {}
    /\ outIndex = {}
    /\ inLink = {}
    /\ nameGen = [v \in Vertex |-> 0]
    /\ queue = [h \in Handler |-> <<>>]
    /\ frame = [h \in Handler |-> None]
    /\ client = [c \in Client |-> None]

-----------------------------------------------------------------------------
(* Handlers, requests and answers *)

ClientCall(c, call) ==
    /\ client[c] = None
    /\ call.body # None => nameGen[call.link.from] + Cardinality(Client) <= MaxGen
    /\ client' = [client EXCEPT ![c] = call]
    /\ queue' = [queue EXCEPT ![call.handler] = Append(@,
           [in |-> FALSE, link |-> call.link, body |-> call.body, caller |-> c])]
    /\ UNCHANGED <<graph, frame>>

\* pc is the next step, then the one after the answer to a request.  new is
\* the body being written, old the one that was read, todo what vertexDelete
\* has left to delete.
HandleBegin(h) ==
    /\ frame[h] = None /\ queue[h] # <<>>
    /\ frame' = [frame EXCEPT ![h] =
           [msg |-> Head(queue[h]), then |-> None,
            pc |-> IF Head(queue[h]).in THEN "inLink" ELSE "start",
            old |-> None, new |-> Head(queue[h]).body, todo |-> {}]]
    /\ queue' = [queue EXCEPT ![h] = Tail(@)]
    /\ UNCHANGED <<graph, client>>

At(h, l) == frame[h] # None /\ frame[h].pc = l
Of(h, fn) == h[1] = fn
Next_(h, l) == frame' = [frame EXCEPT ![h].pc = l]
LinkOf(h) == frame[h].msg.link

\* h requests g and goes on at l.
Request(h, g, in, link, given, l) ==
    /\ queue' = [queue EXCEPT ![g] = Append(@,
           [in |-> in, link |-> link, body |-> given, caller |-> h])]
    /\ frame' = [frame EXCEPT ![h].pc = "await", ![h].then = l]
    /\ UNCHANGED client

\* The answer to a client, or to a handler that waits for it.
Reply(h) ==
    LET to == frame[h].msg.caller IN
    /\ At(h, "reply")
    /\ \/ /\ to \in Client
          /\ client' = [client EXCEPT ![to] = None]
          /\ frame' = [frame EXCEPT ![h] = None]
       \/ /\ to \in Handler
          /\ frame' = [frame EXCEPT ![h] = None, ![to].pc = frame[to].then]
          /\ UNCHANGED client
    /\ UNCHANGED <<graph, queue>>

Local(h, l) == Next_(h, l) /\ UNCHANGED <<queue, client>>

-----------------------------------------------------------------------------
(* Creating and updating a link *)

\* A link that exists is deleted first.
CreateStart(h) ==
    /\ Of(h, "linkCreate") /\ At(h, "start")
    /\ IF body[LinkOf(h)] # None
       THEN Request(h, <<"linkDelete", h[2], FALSE>>, FALSE, LinkOf(h), None, "name")
       ELSE Local(h, "name")
    /\ UNCHANGED graph

\* The body of an update: the given one, or the old one merged with it; how
\* easyjson merges arrays is left open.
Updated(old, given) ==
    {given} \cup {[name |-> IF given.name = None THEN old.name ELSE given.name,
                   tags |-> t] :
                  t \in {old.tags \cup given.tags,
                         IF given.tags = {} THEN old.tags ELSE given.tags}}

\* A link that does not exist is created.
UpdateStart(h) ==
    LET l == LinkOf(h)  given == frame[h].msg.body IN
    /\ Of(h, "linkUpdate") /\ At(h, "start")
    /\ \/ /\ body[l] = None
          /\ Request(h, <<"linkCreate", h[2], FALSE>>, FALSE, l, given, "reply")
       \/ /\ body[l] # None
          /\ \E b \in Updated(body[l], given) :
                frame' = [frame EXCEPT ![h].pc = "dropName",
                                       ![h].old = body[l], ![h].new = b]
          /\ UNCHANGED <<queue, client>>
    /\ UNCHANGED graph

\* Mutant: a missing name is not generated.
ChooseGiven(h) ==
    /\ At(h, "name")
    /\ Local(h, IF <<h[2], frame[h].new.name>> \notin outName THEN "setName" ELSE "readGen")
    /\ UNCHANGED graph

\* Mutant: a name that another link has is taken all the same.
ChooseAny(h) ==
    /\ At(h, "name")
    /\ Local(h, IF frame[h].new.name # None THEN "setName" ELSE "readGen")
    /\ UNCHANGED graph

\* The name a caller chose is taken if no link of the vertex has it.
ChooseName(h) ==
    LET n == frame[h].new.name IN
    /\ At(h, "name")
    /\ Local(h, IF n # None /\ <<h[2], n>> \notin outName THEN "setName" ELSE "readGen")
    /\ UNCHANGED graph

ReadGen(h) ==
    /\ At(h, "readGen")
    /\ frame' = [frame EXCEPT ![h].pc = "writeGen", ![h].new.name = nameGen[h[2]]]
    /\ UNCHANGED <<graph, queue, client>>

WriteGen(h) ==
    /\ At(h, "writeGen")
    /\ nameGen' = [nameGen EXCEPT ![h[2]] = frame[h].new.name + 1]
    /\ Local(h, "setName")
    /\ UNCHANGED <<vertex, body, outName, outIndex, inLink>>

SetName(h) ==
    /\ At(h, "setName")
    /\ outName' = outName \cup {<<h[2], frame[h].new.name>>}
    /\ Local(h, "setIndex")
    /\ UNCHANGED <<vertex, body, outIndex, inLink, nameGen>>

SetIndex(h) ==
    /\ At(h, "setIndex")
    /\ outIndex' = outIndex \cup {<<LinkOf(h), "name", frame[h].new.name>>}
    /\ Local(h, "setBody")
    /\ UNCHANGED <<vertex, body, outName, inLink, nameGen>>

SetBody(h) ==
    /\ At(h, "setBody")
    /\ body' = [body EXCEPT ![LinkOf(h)] = frame[h].new]
    /\ Local(h, "setTags")
    /\ UNCHANGED <<vertex, outName, outIndex, inLink, nameGen>>

TagKeys(l, tags) == {<<l, "tag", t>> : t \in tags}

SetTags(h) ==
    /\ At(h, "setTags")
    /\ outIndex' = outIndex \cup TagKeys(LinkOf(h), frame[h].new.tags)
    /\ Local(h, IF Of(h, "linkCreate") THEN "requestIn" ELSE "reply")
    /\ UNCHANGED <<vertex, body, outName, inLink, nameGen>>

\* Mutant: the in link of a link to itself is requested from the handler that waits.
RequestInSame(h) ==
    LET l == LinkOf(h) IN
    /\ At(h, "requestIn")
    /\ Request(h, <<h[1], l.to, FALSE>>, TRUE, l, None, "reply")
    /\ UNCHANGED graph

\* The in link is written by the same function for the other vertex.
RequestIn(h) ==
    LET l == LinkOf(h) IN
    /\ At(h, "requestIn")
    /\ Request(h, <<h[1], l.to, l.to = l.from>>, TRUE, l, None, "reply")
    /\ UNCHANGED graph

InLink(h) ==
    /\ At(h, "inLink")
    /\ inLink' = IF Of(h, "linkCreate") THEN inLink \cup {LinkOf(h)}
                                        ELSE inLink \ {LinkOf(h)}
    /\ Local(h, "reply")
    /\ UNCHANGED <<vertex, body, outName, outIndex, nameGen>>

-----------------------------------------------------------------------------
(* Deleting a link, and the old keys of a link that is updated *)

DeleteStart(h) ==
    /\ Of(h, "linkDelete") /\ At(h, "start")
    /\ Local(h, IF body[LinkOf(h)] = None THEN "reply" ELSE "readBody")
    /\ UNCHANGED graph

ReadBody(h) ==
    /\ At(h, "readBody")
    /\ frame' = [frame EXCEPT ![h].pc = "dropBody", ![h].old = body[LinkOf(h)]]
    /\ UNCHANGED <<graph, queue, client>>

DropBody(h) ==
    /\ At(h, "dropBody")
    /\ body' = [body EXCEPT ![LinkOf(h)] = None]
    /\ Local(h, IF frame[h].old = None THEN "requestIn" ELSE "dropName")
    /\ UNCHANGED <<vertex, outName, outIndex, inLink, nameGen>>

\* Mutant: the name key stays.
KeepName(h) ==
    /\ At(h, "dropName")
    /\ Local(h, "dropIndex")
    /\ UNCHANGED graph

DropName(h) ==
    /\ At(h, "dropName")
    /\ outName' = outName \ {<<h[2], frame[h].old.name>>}
    /\ Local(h, "dropIndex")
    /\ UNCHANGED <<vertex, body, outIndex, inLink, nameGen>>

DropIndex(h) ==
    /\ At(h, "dropIndex")
    /\ outIndex' = outIndex \ {<<LinkOf(h), "name", frame[h].old.name>>}
    /\ Local(h, "dropTags")
    /\ UNCHANGED <<vertex, body, outName, inLink, nameGen>>

\* Mutant: an update leaves the tag indices of the old body.
KeepTags(h) ==
    /\ At(h, "dropTags")
    /\ outIndex' = IF Of(h, "linkDelete")
                   THEN outIndex \ TagKeys(LinkOf(h), frame[h].old.tags) ELSE outIndex
    /\ Local(h, IF Of(h, "linkDelete") THEN "requestIn" ELSE "name")
    /\ UNCHANGED <<vertex, body, outName, inLink, nameGen>>

DropTags(h) ==
    /\ At(h, "dropTags")
    /\ outIndex' = outIndex \ TagKeys(LinkOf(h), frame[h].old.tags)
    /\ Local(h, IF Of(h, "linkDelete") THEN "requestIn" ELSE "name")
    /\ UNCHANGED <<vertex, body, outName, inLink, nameGen>>

-----------------------------------------------------------------------------
(* Vertices *)

\* A vertex that exists is deleted first.
VertexStart(h) ==
    /\ h[1] \in {"vertexCreate", "vertexUpdate"} /\ At(h, "start")
    /\ IF Of(h, "vertexCreate") /\ h[2] \in vertex
       THEN Request(h, <<"vertexDelete", h[2], FALSE>>, FALSE, None, None, "setVertex")
       ELSE Local(h, "setVertex")
    /\ UNCHANGED graph

SetVertex(h) ==
    /\ At(h, "setVertex")
    /\ vertex' = vertex \cup {h[2]}
    /\ Local(h, "reply")
    /\ UNCHANGED links

\* The links of a vertex are listed, and their deletion requested one by one:
\* first the out links, then the in links.
ListOut(h) ==
    /\ Of(h, "vertexDelete") /\ At(h, "start")
    /\ frame' = [frame EXCEPT ![h].pc = "deleteOut",
           ![h].todo = {l \in Link : l.from = h[2] /\ body[l] # None}]
    /\ UNCHANGED <<graph, queue, client>>

\* Mutant: links from other vertices are not looked for.
ListOwnIn(h) ==
    /\ At(h, "deleteOut") /\ frame[h].todo = {}
    /\ frame' = [frame EXCEPT ![h].pc = "deleteIn",
           ![h].todo = {l \in inLink : l.to = h[2] /\ l.from = h[2]}]
    /\ UNCHANGED <<graph, queue, client>>

ListIn(h) ==
    /\ At(h, "deleteOut") /\ frame[h].todo = {}
    /\ frame' = [frame EXCEPT ![h].pc = "deleteIn",
           ![h].todo = {l \in inLink : l.to = h[2]}]
    /\ UNCHANGED <<graph, queue, client>>

RequestDelete(h) ==
    /\ At(h, "deleteOut") \/ At(h, "deleteIn")
    /\ \E l \in frame[h].todo :
        /\ queue' = [queue EXCEPT ![<<"linkDelete", l.from, FALSE>>] = Append(@,
               [in |-> FALSE, link |-> l, body |-> None, caller |-> h])]
        /\ frame' = [frame EXCEPT ![h].pc = "await", ![h].then = frame[h].pc,
                                  ![h].todo = @ \ {l}]
    /\ UNCHANGED <<graph, client>>

DropGen(h) ==
    /\ At(h, "deleteIn") /\ frame[h].todo = {}
    /\ nameGen' = [nameGen EXCEPT ![h[2]] = 0]
    /\ Local(h, "dropVertex")
    /\ UNCHANGED <<vertex, body, outName, outIndex, inLink>>

DropVertex(h) ==
    /\ At(h, "dropVertex")
    /\ vertex' = vertex \ {h[2]}
    /\ Local(h, "reply")
    /\ UNCHANGED links

-----------------------------------------------------------------------------
LinkStep(h) ==
    \/ CreateStart(h) \/ UpdateStart(h) \/ ChooseName(h) \/ ReadGen(h)
    \/ WriteGen(h) \/ SetName(h) \/ SetIndex(h) \/ SetBody(h) \/ SetTags(h)
    \/ RequestIn(h) \/ InLink(h) \/ DeleteStart(h) \/ ReadBody(h)
    \/ DropBody(h) \/ DropName(h) \/ DropIndex(h) \/ DropTags(h)

VertexStep(h) ==
    \/ VertexStart(h) \/ SetVertex(h) \/ ListOut(h) \/ ListIn(h)
    \/ RequestDelete(h) \/ DropGen(h) \/ DropVertex(h)

Execute(h) == frame[h] # None /\ (LinkStep(h) \/ VertexStep(h) \/ Reply(h))

HandlerStep(h) == HandleBegin(h) \/ Execute(h)

Next ==
    \/ \E c \in Client : \E call \in Calls[c] : ClientCall(c, call)
    \/ \E h \in Handler : HandlerStep(h)

Spec == Init /\ [][Next]_vars

\* Handlers keep running.
FairSpec == Spec /\ \A h \in Handler : WF_vars(HandlerStep(h))

-----------------------------------------------------------------------------
(* Properties *)

Location == {"start", "await", "reply", "inLink", "requestIn",
             "name", "readGen", "writeGen", "setName", "setIndex", "setBody",
             "setTags", "readBody", "dropBody", "dropName", "dropIndex", "dropTags",
             "setVertex", "deleteOut", "deleteIn", "dropVertex"}

Frame == [msg : Msg, pc : Location, then : Location \cup {None},
          old : LinkBody \cup {None},
          new : LinkBody \cup GivenBody \cup {None}, todo : SUBSET Link]

ASSUME NoneIsNew ==
    None \notin Link \cup LinkBody \cup GivenBody \cup Call \cup Frame \cup Name \cup Nat

TypeOK ==
    /\ vertex \subseteq Vertex
    /\ body \in [Link -> LinkBody \cup {None}]
    /\ outName \subseteq Vertex \X (Name \cup GeneratedName)
    /\ \A k \in outIndex : /\ k[1] \in Link
                           /\ \/ k[2] = "name" /\ k[3] \in Name \cup GeneratedName
                              \/ k[2] = "tag" /\ k[3] \in Tag
    /\ inLink \subseteq Link
    /\ nameGen \in [Vertex -> GeneratedName]
    /\ queue \in [Handler -> Seq(Msg)]
    /\ frame \in [Handler -> Frame \cup {None}]
    /\ client \in [Client -> Call \cup {None}]

\* The links that calls are about, and those that a call may change.
CalledLinks == {call.link : call \in UNION {Calls[c] : c \in Client}} \ {None}
Footprint(call) ==
    CASE call.handler[1] \in LinkFunction -> {call.link}
      [] call.handler[1] = "vertexUpdate" -> {}
      [] OTHER -> {l \in CalledLinks : call.handler[2] \in {l.from, l.to}}

\* Callers that never change one link at the same time, nor choose the names of
\* two links of one vertex by two functions.
CallersAreApart ==
    \A c, d \in Client : c # d => \A p \in Calls[c], q \in Calls[d] :
        /\ Footprint(p) \cap Footprint(q) = {}
        /\ p.handler[1] = "linkUpdate" /\ q.handler[1] \in {"linkCreate", "linkUpdate"}
               => p.link.from # q.link.from

\* Callers that never call the functions of one vertex at the same time.
VerticesAreApart ==
    \A c, d \in Client : c # d => \A p \in Calls[c], q \in Calls[d] :
        {p.handler[1], q.handler[1]} \subseteq VertexFunction => p.handler[2] # q.handler[2]

\* Callers do not choose names like the generated ones.
NamesAreChosen == Name \cap GeneratedName = {}

\* Nobody is changing l.
Settled(l) ==
    \A h \in Handler :
        /\ frame[h] # None => LinkOf(h) # l
        /\ \A i \in 1 .. Len(queue[h]) : queue[h][i].link # l

\* The keys of a link that nobody is changing agree: it has an in link, a
\* name and indices of its body's name and tags; or none of them.
KeysAgree ==
    \A l \in Link : Settled(l) =>
        /\ l \in inLink <=> body[l] # None
        /\ {k \in outIndex : k[1] = l} =
               IF body[l] = None THEN {}
               ELSE {<<l, "name", body[l].name>>} \cup TagKeys(l, body[l].tags)
        /\ body[l] # None => <<l.from, body[l].name>> \in outName

\* A name key without a link would keep its name from being used again.
NamesAreUsed ==
    (\A l \in Link : Settled(l)) =>
        \A k \in outName : \E l \in Link : /\ body[l] # None
                                           /\ k = <<l.from, body[l].name>>

\* "Each out link of a vertex has its own unique name" (docs/jpgql.md).
NamesAreUnique ==
    \A l, k \in Link :
        body[l] # None /\ body[k] # None /\ l.from = k.from /\ body[l].name = body[k].name
            => l = k

\* What a call has done when its answer arrives.
Done(call) ==
    CASE call.handler[1] \in {"linkCreate", "linkUpdate"} ->
             body[call.link] # None /\ call.body.tags \subseteq body[call.link].tags
      [] call.handler[1] = "linkDelete" -> body[call.link] = None
      [] call.handler[1] = "vertexDelete" ->
             /\ call.handler[2] \notin vertex
             /\ \A l \in Link : call.handler[2] \in {l.from, l.to} => body[l] = None
      [] OTHER -> call.handler[2] \in vertex

AnswerMeansDone ==
    [][\A c \in Client : client[c] # None /\ client'[c] = None => Done(client[c])]_vars

\* Every call is answered.
CallsAreAnswered == \A c \in Client : client[c] # None ~> client[c] = None
=============================================================================
