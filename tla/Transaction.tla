----------------------------- MODULE Transaction -----------------------------
(***************************************************************************)
(* Transactions on the graph of types and objects (embedded/graph/tx).     *)
(*                                                                         *)
(* Begin copies the main graph, or a part of it, into the part of the      *)
(* graph that belongs to the transaction; calls change the copy; Commit    *)
(* has Push, of which there is one for all transactions, merge the copy    *)
(* into the main graph, an element at a time, and delete it.               *)
(*                                                                         *)
(* A session is what one client does: it begins a transaction, makes       *)
(* calls, commits.  The main graph is changed by commits only.             *)
(***************************************************************************)
EXTENDS TransactionCalls

CONSTANTS Tx,               \* names of transactions
          Name,             \* names that ids are made of
          Start,            \* the main graphs to start with
          TxCalls,          \* what may be called first, second, and so on
          Clones,           \* what Begin is asked to copy: None for all of it
          Flaky,            \* elements of which the copying may fail
          Modes,            \* modes of Commit
          MaxSessions, MaxFailures

\* The ids of the main graph: the name of a transaction comes first in the ids
\* of its part only, and no vertex is called like a fragment of a key.
PlainId == {id \in Seq(Name) : id # << >> /\ Head(id) \notin Tx \cup {"txmaster", "key"}}
PlainLink(l) == IsLink(l) /\ l[1] \in PlainId /\ l[3] \in PlainId

ASSUME NamesAreApart ==
    /\ Tx \subseteq Name /\ {"txmaster", "key"} \cap Tx = {}
    /\ {"root", "objects", "types", "group", "nav"} \subseteq Name \ Tx
ASSUME NoneIsNew == None \notin Tx \cup Seq(Name)
ASSUME BoundTypes == MaxSessions \in Nat /\ MaxFailures \in Nat

VARIABLES graph,
          lock,         \* whether the mutex of a transaction is held
          session,      \* what each session is at, and its transaction
          toCopy,       \* what each session that is cloning has found to copy
          push,         \* the merge under way, or None
          pushes,       \* those that wait for it
          calls, failures,
          asked,        \* elements of the main graph somebody asked to delete
          astray        \* what calls have done to elements they are not about
vars == <<graph, lock, session, toCopy, push, pushes, calls, failures, asked, astray>>

Session == 1 .. MaxSessions
Calls == UNION Range(TxCalls)
root == <<"root">>
txmaster == <<"txmaster">>

LinkFunctions == {"types.link.create", "types.link.update", "types.link.delete",
                  "objects.link.create", "objects.link.update", "objects.link.delete"}
TxFunctions == LinkFunctions \cup {"type.create", "type.update", "type.delete",
                                   "object.create", "object.update", "object.delete"}

ASSUME CallsAreOnPlainIds ==
    \A c \in Calls :
      /\ c = [TxCall(c.fn, c.id) EXCEPT !.type = c.type, !.to = c.to, !.lt = c.lt, !.body = c.body,
                                        !.mode = c.mode]
      /\ c.fn \in TxFunctions /\ c.body = Body(c.body.val)
      /\ c.id \in PlainId
      /\ c.fn = "object.create" => c.type \in PlainId
      /\ c.fn \in LinkFunctions => c.to \in PlainId
ASSUME ClonesAreOfPlainIds ==
    \A clone \in Clones : clone # None => IsFiniteSet(DOMAIN clone) /\ DOMAIN clone \subseteq PlainId

\* Links of the main graph lead to its vertices, and nothing in it has a mark.
Unmarked(g) ==
    /\ g = [vertex |-> g.vertex, link |-> g.link]
    /\ root \in DOMAIN g.vertex /\ DOMAIN g.vertex \subseteq PlainId
    /\ IsFiniteSet(DOMAIN g.link)
    /\ \A l \in DOMAIN g.link : PlainLink(l) /\ {l[1], l[3]} \subseteq DOMAIN g.vertex
    /\ \A v \in DOMAIN g.vertex : g.vertex[v] = Body(g.vertex[v].val)
    /\ \A l \in DOMAIN g.link : g.link[l] = Body(g.link[l].val)
ASSUME StartIsUnmarked == \A g \in Start : Unmarked(g)

-----------------------------------------------------------------------------
(* Parts of the graph *)

\* A key with dots belongs to the vertex that it begins with.
Part(g, InPart(_)) ==
    [vertex |-> Restrict(g.vertex, {v \in DOMAIN g.vertex : InPart(v)}),
     link |-> Restrict(g.link, {l \in DOMAIN g.link : InPart(l[1]) /\ (IsLink(l) => InPart(l[3]))})]

InMain(id) == Head(id) \notin Tx /\ id # txmaster
Main(g) == Part(g, InMain)
PartOf(g, x) == LET InTx(id) == Head(id) = x IN Part(g, InTx)

\* What every graph has: two lists, and an object "nav" of a type "group".
group == <<"group">>
nav == <<"nav">>
BuiltInLinks ==
    {<<root, "__objects", objects>>, <<root, "__types", types>>,
     <<types, "__type", group>>, <<group, "__type", group>>,
     <<objects, "__object", nav>>, <<nav, "__type", group>>, <<group, "__object", nav>>}
BuiltIn ==
    [vertex |-> [v \in {root, objects, types, group, nav} |-> Body(None)],
     link |-> [l \in BuiltInLinks |-> IF l[1] = l[3] THEN Body("group") ELSE Body(None)]]

\* The ids and links that can be reached; nothing without the first vertex.
State(g, v) ==
    LET ids == IF v \in DOMAIN g.vertex THEN Reachable(g, v) ELSE {}
    IN  [vertex |-> ids, link |-> {l \in DOMAIN g.link : l[1] \in ids}]

-----------------------------------------------------------------------------
(* Begin *)

FullClone(g) ==
    LET main == State(g, root)
    IN  [full |-> TRUE,
         vertex |-> main.vertex \cup DOMAIN BuiltIn.vertex, link |-> main.link \cup BuiltInLinks]

\* A selection maps types to those of their objects that are wanted: it takes
\* them, links between the types, and links of the types' type between objects.
Selected(g, selection) ==
    LET ts == DOMAIN selection \cap DOMAIN g.vertex
        ObjectsOf(t) == TypeObjects(g, t) \cap selection[t]
        between == {<<a, "__type", b>> : a \in ts, b \in DOMAIN selection} \cap DOMAIN g.link
        lists == {<<types, "__type", t>> : t \in ts}
        ofObjects == UNION {UNION {{<<t, "__object", o>>, <<o, "__type", t>>,
                                    <<objects, "__object", o>>} : o \in ObjectsOf(t)} : t \in ts}
        joins == UNION {{<<a, g.link[l].val, b>> : a \in ObjectsOf(l[1]), b \in ObjectsOf(l[3])} :
                            l \in {k \in between : k[3] \in ts}}
    IN  [full |-> FALSE,
         vertex |-> ts \cup {l[3] : l \in between} \cup UNION {ObjectsOf(t) : t \in ts},
         link |-> lists \cup between \cup ofObjects \cup (joins \cap DOMAIN g.link)]

Cloned(g, clone) == IF clone = None THEN FullClone(g) ELSE Selected(g, clone)

\* The copies of the elements, vertices first, with the bodies that they have in
\* source by now.  A copy that is there is created again, without its links.
Paste(g, x, elements, source) ==
    LET copies == {Copy(x, v) : v \in elements.vertex}
        linked == {<<Copy(x, l[1]), l[2], Copy(x, l[3])>> : l \in elements.link}
        again == copies \cap DOMAIN g.vertex
        kept == {l \in DOMAIN g.link : IsLink(l) => {l[1], l[3]} \cap again = {}}
        BodyIn(f, e) == IF e \in DOMAIN f THEN f[e] ELSE Body(None)
    IN  [vertex |-> Over([v \in copies |-> BodyIn(source.vertex, Tail(v))], g.vertex),
         link |-> Over([l \in linked |-> BodyIn(source.link, <<Tail(l[1]), l[2], Tail(l[3])>>)],
                       Restrict(g.link, kept))]

\* A part of the graph is copied after what every graph has, of which the whole
\* graph brings the bodies of its vertices.
CopyInto(g, x, elements) ==
    LET builtIn == [vertex |-> DOMAIN BuiltIn.vertex, link |-> BuiltInLinks]
        all == [vertex |-> g.vertex, link |-> Over(BuiltIn.link, g.link)]
        pasted == IF elements.full THEN Paste(g, x, elements, all)
                  ELSE Paste(Paste(g, x, builtIn, BuiltIn), x, elements, g)
    IN  [pasted EXCEPT !.link = Put(@, <<<<x>>, "graph", Copy(x, root)>>, Body(None))]

-----------------------------------------------------------------------------
(* Sessions *)

Idle == [at |-> "idle", tx |-> None, clean |-> FALSE, fresh |-> FALSE]
Done == [Idle EXCEPT !.at = "done"]

Init ==
    /\ graph \in Start
    /\ lock = [x \in Tx |-> FALSE]
    /\ session = [s \in Session |-> Idle] /\ toCopy = [s \in Session |-> None]
    /\ push = None /\ pushes = << >>
    /\ calls = 0 /\ failures = 0
    /\ asked = [vertex |-> {}, link |-> {}] /\ astray = {}

\* Somebody works on a transaction while it is merged.
Disturbed(x) == IF push # None /\ push.tx = x THEN [push EXCEPT !.exact = FALSE] ELSE push

\* The mutex is free, or has not been renewed for its lifetime.  The session
\* reads what there is to copy.  It is clean if there is nothing of an earlier
\* transaction of the same name and nobody begins another one, and fresh until
\* another one is merged.
Begin(s, x, clone) ==
    LET others == {r \in Session : session[r].tx = x}
    IN  /\ session[s].at = "idle" /\ \A r \in Session : r < s => session[r].at # "idle"
        /\ \/ ~ lock[x] /\ UNCHANGED failures
           \/ lock[x] /\ failures < MaxFailures /\ failures' = failures + 1
        /\ lock' = [lock EXCEPT ![x] = TRUE]
        /\ graph' = CreateLink(UpdateVertex(graph, <<x>>, Body(None), "merge"),
                               <<txmaster, "tx", <<x>>>>, Body(None))
        /\ session' = [r \in Session |->
                         IF r = s THEN [at |-> "cloning", tx |-> x, fresh |-> push = None,
                                        clean |-> PartOf(graph, x) = EmptyGraph /\ others = {}]
                         ELSE IF r \in others THEN [session[r] EXCEPT !.clean = FALSE]
                         ELSE session[r]]
        /\ toCopy' = [toCopy EXCEPT ![s] = Cloned(graph, clone)]
        /\ push' = Disturbed(x)
        /\ UNCHANGED <<pushes, calls, asked, astray>>

\* It copies all of it, or all but one element.
Clone(s) ==
    LET x == session[s].tx
        elements == toCopy[s]
        AllBut(e) == [full |-> elements.full, vertex |-> elements.vertex \ {e}, link |-> elements.link \ {e}]
        Open(whole) == session' = [session EXCEPT ![s].at = "open", ![s].clean = @ /\ whole]
    IN  /\ session[s].at = "cloning"
        /\ toCopy' = [toCopy EXCEPT ![s] = None]
        /\ \/ graph' = CopyInto(graph, x, elements) /\ Open(TRUE) /\ UNCHANGED failures
           \/ /\ failures < MaxFailures /\ failures' = failures + 1
              /\ Open(FALSE)
              /\ \E e \in Flaky \cap (elements.vertex \cup elements.link) :
                   graph' = CopyInto(graph, x, AllBut(e))
        /\ UNCHANGED <<lock, push, pushes, calls, asked, astray>>

\* A request fails before anything is copied: the session is over, the mutex free.
BeginFail(s) ==
    /\ session[s].at = "cloning" /\ failures < MaxFailures
    /\ failures' = failures + 1
    /\ lock' = [lock EXCEPT ![session[s].tx] = FALSE]
    /\ session' = [session EXCEPT ![s] = Done] /\ toCopy' = [toCopy EXCEPT ![s] = None]
    /\ UNCHANGED <<graph, push, pushes, calls, asked, astray>>

\* The links that go with the link between types that the call is about.
Joins(g, x, c) ==
    LET from == Copy(x, c.id)
        between == <<from, "__type", Copy(x, c.to)>>
    IN  {l \in DOMAIN g.link : /\ l[1] \in TypeObjects(g, from) /\ between \in DOMAIN g.link
                              /\ l[2] = g.link[between].val}

\* What a call for the deletion of something asks for.
Asks(g, x, c) ==
    LET copy == Copy(x, c.id)
        Originals(ids) == {Normal(x, v) : v \in ids}
    IN  CASE c.fn = "type.delete"   -> [vertex |-> Originals({copy} \cup TypeObjects(g, copy)), link |-> {}]
          [] c.fn = "object.delete" -> [vertex |-> {c.id}, link |-> {}]
          [] c.fn = "types.link.delete" ->
               [vertex |-> {}, link |-> {<<c.id, "__type", c.to>>}
                                          \cup {<<Normal(x, l[1]), l[2], Normal(x, l[3])>> : l \in Joins(g, x, c)}]
          [] c.fn = "objects.link.delete" ->
               [vertex |-> {}, link |-> {<<c.id, lt, c.to>> : lt \in LinkTypeOf(g, copy, Copy(x, c.to))}]
          [] OTHER -> [vertex |-> {}, link |-> {}]

\* The update of a link clones an end that the transaction lacks, to a copy of
\* a copy.  Of a link that goes with one between types, the call marks what the
\* types of its ends make of it, which need not be the link that was found.
\* The update of an object that the transaction lacks makes keys with dots.
Strays(g, x, c) ==
    {kind \in {"copies"} : /\ c.fn \in {"types.link.update", "objects.link.update"}
                           /\ ~ {Copy(x, c.id), Copy(x, c.to)} \subseteq DOMAIN g.vertex}
    \cup {kind \in {"marks"} : /\ c.fn = "types.link.delete"
                              /\ \E l \in Joins(g, x, c) : LinkTypeOf(g, l[1], l[3]) # {l[2]}}
    \cup {kind \in {"keys"} : /\ c.fn = "object.update"
                             /\ <<Copy(x, objects), "__object", Copy(x, c.id)>> \notin DOMAIN g.link}

\* A call that is refused, or a request of which fails, frees the mutex; what
\* has been done stays.  The session is over.
CallTx(s, c) ==
    LET x == session[s].tx
        asks == Asks(graph, x, c)
        Failed == /\ lock' = [lock EXCEPT ![x] = FALSE]
                  /\ session' = [session EXCEPT ![s] = Done]
    IN  /\ session[s].at = "open" /\ calls < Len(TxCalls) /\ c \in TxCalls[calls + 1]
        /\ calls' = calls + 1
        /\ \E plan \in TxPlans(graph, x, c) :
             \/ /\ graph' = ApplyAll(graph, plan.todo) /\ UNCHANGED failures
                /\ IF plan.answer = "ok" THEN UNCHANGED <<lock, session>> ELSE Failed
             \/ /\ failures < MaxFailures /\ failures' = failures + 1
                /\ \E n \in 1 .. Len(plan.todo) : graph' = ApplyAll(graph, SubSeq(plan.todo, 1, n - 1))
                /\ Failed
        /\ asked' = [vertex |-> asked.vertex \cup asks.vertex, link |-> asked.link \cup asks.link]
        /\ astray' = astray \cup Strays(graph, x, c)
        /\ push' = Disturbed(x)
        /\ UNCHANGED <<toCopy, pushes>>

\* Mutant: the mutex is freed before the merge.
CommitEarly(s, mode) ==
    /\ session[s].at = "open"
    /\ session' = [session EXCEPT ![s].at = "committing"]
    /\ lock' = [lock EXCEPT ![session[s].tx] = FALSE]
    /\ pushes' = Append(pushes, [session |-> s, tx |-> session[s].tx, mode |-> mode])
    /\ UNCHANGED <<graph, toCopy, push, calls, failures, asked, astray>>

\* Commit has the transaction merged, and waits for that.
Commit(s, mode) ==
    /\ session[s].at = "open"
    /\ session' = [session EXCEPT ![s].at = "committing"]
    /\ pushes' = Append(pushes, [session |-> s, tx |-> session[s].tx, mode |-> mode])
    /\ UNCHANGED <<graph, lock, toCopy, push, calls, failures, asked, astray>>

\* The request for the merge is given up; the merge is not.
CommitTimeout(s) ==
    /\ session[s].at = "committing" /\ failures < MaxFailures
    /\ failures' = failures + 1
    /\ session' = [session EXCEPT ![s].at = "late"]
    /\ lock' = [lock EXCEPT ![session[s].tx] = FALSE]
    /\ UNCHANGED <<graph, toCopy, push, pushes, calls, asked, astray>>

-----------------------------------------------------------------------------
(* The merge *)

\* Push takes the next commit and looks at both parts of the graph.
PushBegin ==
    LET next == Head(pushes)
        x == next.tx
        own == State(graph, Copy(x, root))
    IN  /\ push = None /\ pushes # << >>
        /\ pushes' = Tail(pushes)
        /\ push' = [session |-> next.session, tx |-> x, mode |-> next.mode,
                    main |-> State(graph, root), vertex |-> own.vertex, link |-> own.link,
                    deleted |-> {}, before |-> graph,
                    exact |-> session[next.session].clean /\ session[next.session].fresh]
        /\ session' = [s \in Session |->
                         IF s = next.session THEN session[s] ELSE [session[s] EXCEPT !.fresh = FALSE]]
        /\ UNCHANGED <<graph, lock, toCopy, calls, failures, asked, astray>>

\* Mutant: what is there is created again.
CreateAnyway(k) ==
    LET v == Normal(push.tx, k)
        body == graph.vertex[k]
    IN  IF v \in push.main.vertex /\ body.gone THEN VDelete(v) ELSE VCreate(v, body)

\* The request that merges vertex k: what has a mark is deleted, if it is there.
VertexRequest(k) ==
    LET v == Normal(push.tx, k)
        body == graph.vertex[k]
    IN  IF v \notin push.main.vertex THEN VCreate(v, body)
        ELSE IF body.gone THEN VDelete(v)
        ELSE VUpdate(v, body, push.mode)

NormalLink(x, l) == <<Normal(x, l[1]), l[2], Normal(x, l[3])>>

LinkRequest(l) ==
    LET m == NormalLink(push.tx, l)
        body == graph.link[l]
    IN  IF m \notin push.main.link THEN LCreate(m, body)
        ELSE IF body.gone THEN LDelete(m)
        ELSE LUpdate(m, body)

\* Elements are merged in any order, vertices first.  Those that change
\* nothing are left out here; so are links of vertices that were deleted.
IdleVertex(k) ==
    LET r == VertexRequest(k)
    IN  /\ k \in DOMAIN graph.vertex
        /\ r.op = "vertexUpdate" /\ r.at \in DOMAIN graph.vertex
        /\ UpdateVertex(graph, r.at, r.body, r.mode).vertex[r.at] = graph.vertex[r.at]

\* Mutant: links of vertices that were deleted are merged, too.
IdleIfSame(l) ==
    LET r == LinkRequest(l)
    IN  /\ l \in DOMAIN graph.link
        /\ r.op = "linkUpdate" /\ r.at \in DOMAIN graph.link
        /\ Merged(graph.link[r.at], r.body) = graph.link[r.at]

IdleLink(l) ==
    LET r == LinkRequest(l)
    IN  \/ {Normal(push.tx, l[1]), Normal(push.tx, l[3])} \cap push.deleted # {}
        \/ /\ l \in DOMAIN graph.link
           /\ r.op = "linkUpdate" /\ r.at \in DOMAIN graph.link
           /\ Merged(graph.link[r.at], r.body) = graph.link[r.at]

PushVertex(k) ==
    LET r == VertexRequest(k)
    IN  /\ k \in DOMAIN graph.vertex /\ ~ IdleVertex(k)
        /\ graph' = Apply(graph, r)
        /\ push' = [push EXCEPT !.vertex = @ \ {k},
                                !.deleted = IF r.op = "vertexDelete" THEN @ \cup {r.at} ELSE @]
        /\ UNCHANGED <<lock, session, toCopy, pushes, calls, failures, asked, astray>>

PushLink(l) ==
    /\ \A k \in push.vertex : IdleVertex(k)
    /\ l \in DOMAIN graph.link /\ ~ IdleLink(l)
    /\ graph' = Apply(graph, LinkRequest(l))
    /\ push' = [push EXCEPT !.vertex = {}, !.link = @ \ {l}]
    /\ UNCHANGED <<lock, session, toCopy, pushes, calls, failures, asked, astray>>

\* Commit answers "ok", whatever became of the merge, and frees the mutex,
\* unless it has done so before.
Committed(s) ==
    /\ push' = None
    /\ session' = [session EXCEPT ![s] = Done]
    /\ lock' = IF session[s].at = "late" THEN lock ELSE [lock EXCEPT ![session[s].tx] = FALSE]

\* An element that has no body, or a request that fails, ends the merge where
\* it is.
PushAbort ==
    /\ push # None
    /\ \/ /\ UNCHANGED failures
          /\ \/ \E k \in push.vertex : k \notin DOMAIN graph.vertex
             \/ /\ \A k \in push.vertex : IdleVertex(k)
                /\ \E l \in push.link : l \notin DOMAIN graph.link /\ ~ IdleLink(l)
       \/ failures < MaxFailures /\ failures' = failures + 1
    /\ Committed(push.session)
    /\ UNCHANGED <<graph, toCopy, pushes, calls, asked, astray>>

\* At the end the transaction's part is deleted, which may fail.
PushEnd ==
    /\ push # None
    /\ \A k \in push.vertex : IdleVertex(k)
    /\ \A l \in push.link : IdleLink(l)
    /\ \/ graph' \in CascadeOutcomes(graph, <<push.tx>>) /\ UNCHANGED failures
       \/ UNCHANGED graph /\ failures < MaxFailures /\ failures' = failures + 1
    /\ Committed(push.session)
    /\ UNCHANGED <<toCopy, pushes, calls, asked, astray>>

Next ==
    \/ \E s \in Session, x \in Tx, clone \in Clones : Begin(s, x, clone)
    \/ \E s \in Session : Clone(s)
    \/ \E s \in Session : BeginFail(s)
    \/ \E s \in Session, c \in Calls : CallTx(s, c)
    \/ \E s \in Session, mode \in Modes : Commit(s, mode)
    \/ \E s \in Session : CommitTimeout(s)
    \/ PushBegin
    \/ push # None /\ \E k \in push.vertex : PushVertex(k)
    \/ push # None /\ \E l \in push.link : PushLink(l)
    \/ PushAbort
    \/ PushEnd

Spec == Init /\ [][Next]_vars

-----------------------------------------------------------------------------
(* What a transaction shows *)

\* Its elements by the ids of the main graph, and those of them with a mark.
\* What has a mark is not shown, nor are the links of such vertices.
MarkedIds(g, x) ==
    {Normal(x, k) : k \in {j \in State(g, Copy(x, root)).vertex \cap DOMAIN g.vertex : g.vertex[j].gone}}
MarkedLinks(g, x) ==
    {NormalLink(x, l) : l \in {j \in State(g, Copy(x, root)).link : g.link[j].gone}}

LinksWithout(S, vertices, links) ==
    {l \in S : l \notin links /\ l[1] \notin vertices /\ l[3] \notin vertices}

View(g, x) ==
    LET own == State(g, Copy(x, root))
        ids == {Normal(x, k) : k \in own.vertex \cap DOMAIN g.vertex} \ MarkedIds(g, x)
        links == LinksWithout({NormalLink(x, l) : l \in own.link}, MarkedIds(g, x), MarkedLinks(g, x))
    IN  [vertex |-> [v \in ids |-> g.vertex[Copy(x, v)]],
         link |-> [l \in links |-> g.link[<<Copy(x, l[1]), l[2], Copy(x, l[3])>>]]]

-----------------------------------------------------------------------------
(* Properties *)

TypeOK ==
    /\ lock \in [Tx -> BOOLEAN]
    /\ session \in [Session -> [at : {"idle", "cloning", "open", "committing", "late", "done"},
                                tx : Tx \cup {None}, clean : BOOLEAN, fresh : BOOLEAN]]
    /\ \A s \in Session : session[s].tx = None <=> session[s].at \in {"idle", "done"}
    /\ failures \in 0 .. MaxFailures

\* The parts of the graph, by their names, in which it changes.
Differ(f, h) ==
    (DOMAIN f \ DOMAIN h) \cup (DOMAIN h \ DOMAIN f) \cup {k \in DOMAIN f \cap DOMAIN h : f[k] # h[k]}
PartsThatChange(g, h) ==
    ({Head(v) : v \in Differ(g.vertex, h.vertex)}
        \cup {Head(l[1]) : l \in Differ(g.link, h.link)}
        \cup {Head(l[3]) : l \in {k \in Differ(g.link, h.link) : IsLink(k)}}) \ {"txmaster"}

\* Nothing a session does before its commit is seen in the main graph or in
\* another transaction, and a merge changes the main graph and its own
\* transaction alone; as long as no call has made copies of copies, which a
\* merge takes to be copies and links to the main graph.
StaysApart ==
    \A name \in PartsThatChange(graph, graph') :
      \/ push # None /\ name \notin Tx \ {push.tx}
      \/ \E s \in Session : \/ session'[s].tx = name /\ session'[s].at = "cloning"
                            \/ session[s].tx = name /\ session[s].at \in {"cloning", "open"}

TransactionsAreIsolated == [][graph' # graph /\ "copies" \notin astray => StaysApart]_vars

\* However commits of several transactions follow each other, and wherever one
\* of them breaks off, a vertex or link of the main graph goes only if some
\* session asked for that, or with a vertex that goes.  (A vertex that a broken
\* merge left where the root does not lead to is created again by the next one
\* that has it, and loses its links.)  This is of calls that mark what they are
\* about, and of a root that nobody asked to delete: a merge sets out from it.
OnlyAskedIsDeleted ==
    [][graph' # graph /\ astray = {} /\ root \notin asked.vertex =>
         LET lost == {v \in DOMAIN graph.vertex \ DOMAIN graph'.vertex : InMain(v)}
             lostLinks == {l \in DOMAIN graph.link \ DOMAIN graph'.link :
                             /\ InMain(l[1]) /\ InMain(l[3]) /\ {l[1], l[3]} \cap lost = {}}
         IN  /\ lost \subseteq asked.vertex
             /\ \A l \in lostLinks \ asked.link :
                  {l[1], l[3]} \ Reachable(graph, root) # {}]_vars

\* A call that is answered "ok" does to what the transaction shows what the
\* function of the same name does to the main graph, or the deletion that the
\* functions for types leave out; as long as what it is about has no mark and,
\* unless it is created, has been copied; the session is clean, and no keys have
\* dots.
Meaning(g, c) ==
    LET between == <<c.id, "__type", c.to>>
        Minus(h, v) == DeleteVertex(h, v)
        joins == {l \in DOMAIN g.link : l[1] \in TypeObjects(g, c.id) /\ l[2] = g.link[between].val}
    IN  CASE c.fn = "type.delete" ->
               {FoldLeft(Minus, g, SetToSeq(TypeObjects(g, c.id) \cup {c.id}))}
          [] c.fn = "types.link.delete" ->
               {[g EXCEPT !.link = Without(@, {between} \cup joins)]}
          [] OTHER -> Outcomes(g, [Call(c.fn, c.id) EXCEPT
                                     !.type = c.type, !.to = c.to, !.lt = c.lt, !.body = c.body,
                                     !.mode = IF c.fn = "object.delete" THEN "vertex" ELSE c.mode])

CallsActOnTheView ==
    [][calls' = calls + 1 => \A s \in Session, c \in TxCalls[calls'] :
          LET x == session[s].tx
              about == {c.id, c.to} \ {None}
              needed == (about \cup {c.type}) \ (IF c.fn \in {"type.create", "object.create"}
                                                 THEN {c.id, None} ELSE {None})
          IN  /\ session[s].at = "open" /\ session[s].clean /\ failures' = failures
              /\ "keys" \notin astray'
              /\ \E plan \in TxPlans(graph, x, c) :
                   plan.answer = "ok" /\ graph' = ApplyAll(graph, plan.todo)
              /\ (about \cup {c.type}) \cap MarkedIds(graph, x) = {}
              /\ c.to # None => MarkedLinks(graph, x) = {}
              /\ needed \subseteq DOMAIN View(graph, x).vertex
              => View(graph', x) \in Meaning(View(graph, x), c)]_vars

\* The merge of a clean and fresh session brings the elements that its transaction
\* shows, and leaves of the rest of the main graph what has no mark; unless a mark
\* is on something that the main graph did not have.  What is in both has the
\* body that the transaction shows only if the commit replaces it; by default,
\* and for links always, that body is merged into the one that is there: what a
\* call replaced, or a partial copy of the lists left out, comes back.
Brought(before, shown, merges) ==
    Over([e \in DOMAIN shown |-> IF e \in merges THEN Merged(before[e], shown[e]) ELSE shown[e]], before)

CommitIsExact ==
    [][push # None /\ push' = None /\ push.exact /\ graph' # graph =>
          LET x == push.tx
              main == Main(push.before)
              view == View(push.before, x)
              ids == MarkedIds(push.before, x)
              links == MarkedLinks(push.before, x)
              kept == LinksWithout(DOMAIN main.link, ids, links)
              merges == {v \in push.main.vertex \cap DOMAIN main.vertex : push.mode = "merge"}
          IN  ids \subseteq DOMAIN main.vertex /\ links \subseteq DOMAIN main.link =>
                Main(graph') =
                  Main([vertex |-> Brought(Without(main.vertex, ids), view.vertex, merges),
                        link |-> Brought(Restrict(main.link, kept), view.link, push.main.link)])]_vars

\* As long as no mutex expires and no request is given up, a transaction has
\* one session at a time: none begins on what is being merged.
OneSessionAtATime ==
    failures = 0 =>
      \A r, s \in Session :
        session[r].tx = session[s].tx /\ session[r].tx # None => r = s
=============================================================================
