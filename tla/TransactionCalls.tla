-------------------------- MODULE TransactionCalls --------------------------
(***************************************************************************)
(* The functions that change a transaction's part of the graph             *)
(* (embedded/graph/tx/statefun.go, helper.go): what each one asks of the   *)
(* functions for types and objects, and through them of the graph.         *)
(*                                                                         *)
(* A transaction x works on copies: the copy of id is <<x>> \o id, where   *)
(* the code puts "x=" before it.                                           *)
(***************************************************************************)
EXTENDS ObjectCalls

Copy(x, id) == <<x>> \o id
Normal(x, id) == IF Len(id) > 1 /\ Head(id) = x THEN Tail(id) ELSE id

types == <<"types">>
objects == <<"objects">>

\* A call of a transaction: a function, ids of the main graph and a body.
TxCall(fn, id) == [fn |-> fn, id |-> id, type |-> None, to |-> None, lt |-> None,
                   body |-> Body(None), mode |-> "merge"]

-----------------------------------------------------------------------------
(* Calls made one after the other *)

\* The first one that is refused ends it; what the others did stays.
Then(g, plans, Rest(_)) ==
    UNION {IF plan.answer = "failed" THEN {plan}
           ELSE {[next EXCEPT !.todo = plan.todo \o @] : next \in Rest(ApplyAll(g, plan.todo))} :
              plan \in plans}

\* Every call of a set, in some order.
ForEach(g, S) ==
    LET order == SetToSeq(S)
        plans[n \in 0 .. Len(order)] ==
            IF n = 0 THEN {Ok(<< >>)}
            ELSE LET Rest(h) == Plans(h, order[n]) IN Then(g, plans[n - 1], Rest)
    IN  plans[Len(order)]

Mark(fn, at) == [Call(fn, at) EXCEPT !.body = DeletedMeta]

-----------------------------------------------------------------------------
(* Types *)

\* Mutant: the type gets into the list of the main graph.
CreateListedInMain(g, x, c) ==
    CreateType(g, [Call("type.create", Copy(x, c.id)) EXCEPT !.body = c.body])

TxCreateType(g, x, c) ==
    CreateType(g, [Call("type.create", Copy(x, c.id)) EXCEPT !.prefix = <<x>>, !.body = c.body])

\* A type that has not been cloned is created from the main graph first.
TxUpdateType(g, x, c) ==
    LET copy == Copy(x, c.id)
        Update(h) == UpdateType(h, [Call("type.update", copy) EXCEPT !.body = c.body])
    IN  IF <<Copy(x, types), "__type", copy>> \in DOMAIN g.link THEN Update(g)
        ELSE IF c.id \notin DOMAIN g.vertex THEN {Refused}
        ELSE Then(g, TxCreateType(g, x, [c EXCEPT !.body = g.vertex[c.id]]), Update)

\* Mutant: its objects get none.
DeleteTypeAlone(g, x, c) == UpdateType(g, Mark("type.update", Copy(x, c.id)))

\* The type and its objects get a mark; Push deletes what has one.
TxDeleteType(g, x, c) ==
    LET copy == Copy(x, c.id)
        marks == {Mark("object.update", o) : o \in TypeObjects(g, copy)}
        MarkType(h) == UpdateType(h, Mark("type.update", copy))
    IN  Then(g, ForEach(g, marks), MarkType)

TxCreateTypesLink(g, x, c) ==
    CreateTypesLink(g, [Call("types.link.create", Copy(x, c.id)) EXCEPT
                          !.to = Copy(x, c.to), !.lt = c.lt])

\* Without the link in the transaction, types that are missing are cloned,
\* to copies of copies, and the link is looked up under a wrong name.
TxUpdateTypesLink(g, x, c) ==
    LET from == Copy(x, c.id)
        to == Copy(x, c.to)
        update == [Call("types.link.update", from) EXCEPT !.to = to, !.lt = c.lt, !.body = c.body]
        Clone(h, id) ==
            IF Copy(x, id) \in DOMAIN h.vertex THEN {Ok(<< >>)}
            ELSE IF id \notin DOMAIN h.vertex THEN {Refused}
            ELSE TxCreateType(h, x, [TxCall("type.create", Copy(x, id)) EXCEPT !.body = h.vertex[id]])
        CloneTo(h) == Clone(h, c.to)
        NoLink(h) == {Refused}
    IN  IF <<from, "__type", to>> \in DOMAIN g.link THEN UpdateTypesLink(g, update)
        ELSE Then(g, Then(g, Clone(g, c.id), CloneTo), NoLink)

\* The link, and every link of its type from the objects of its source.
TxDeleteTypesLink(g, x, c) ==
    LET from == Copy(x, c.id)
        to == Copy(x, c.to)
        link == <<from, "__type", to>>
        found == {l \in DOMAIN g.link : l[1] \in TypeObjects(g, from) /\ l[2] = g.link[link].val}
        marks == {[Mark("objects.link.update", l[1]) EXCEPT !.to = l[3]] : l \in found}
        MarkTypesLink(h) == UpdateTypesLink(h, [Mark("types.link.update", from) EXCEPT !.to = to])
    IN  IF link \notin DOMAIN g.link THEN {Refused}
        ELSE IF g.link[link].val = None THEN {Refused}
        ELSE Then(g, ForEach(g, marks), MarkTypesLink)

-----------------------------------------------------------------------------
(* Objects *)

TxCreateObject(g, x, c) ==
    CreateObject(g, [Call("object.create", Copy(x, c.id)) EXCEPT
                       !.prefix = <<x>>, !.type = c.type, !.body = c.body])

\* What getChildren and the cascade take for ids in keys with dots inside,
\* like "name0": no vertex has them.
fragment == <<"key">>

\* The type of the copy of an object is not the name t of its type but the key
\* of its link to it, with dots.  So the keys of the links between the copy and
\* that type all begin like those of links from the copy to its types; they
\* seem to lead to t of the main graph, to the copy itself, and to fragments.
CreateWithKey(g, x, c, t) ==
    LET copy == Copy(x, c.id)
    IN  Ok(<<VCreate(copy, g.vertex[c.id]),
             LCreate(<<Copy(x, objects), "__object", copy>>, Body(None)),
             LCreate(<<copy, "__type", fragment, "key">>, Body(None)),
             LCreate(<<copy, "__type", t, "key">>, Body(None)),
             LCreate(<<copy, "__type", copy, "key">>, Body(None))>>)

\* An object that has not been cloned is created first.
TxUpdateObject(g, x, c) ==
    LET copy == Copy(x, c.id)
        Update(h) == UpdateObject(h, [Call("object.update", copy) EXCEPT !.body = c.body, !.mode = c.mode])
    IN  IF <<Copy(x, objects), "__object", copy>> \in DOMAIN g.link THEN Update(g)
        ELSE IF c.id \notin DOMAIN g.vertex \/ ObjectTypes(g, c.id) = {None} THEN {Refused}
        ELSE Then(g, {CreateWithKey(g, x, c, t) : t \in ObjectTypes(g, c.id)}, Update)

TxDeleteObject(g, x, c) == UpdateObject(g, Mark("object.update", Copy(x, c.id)))

TxCreateObjectsLink(g, x, c) ==
    CreateObjectsLink(g, [Call("objects.link.create", Copy(x, c.id)) EXCEPT !.to = Copy(x, c.to)])

\* An object that is missing is cloned, to a copy of a copy.
CloneObject(g, x, id, type) ==
    IF Copy(x, id) \in DOMAIN g.vertex THEN {Ok(<< >>)}
    ELSE IF id \notin DOMAIN g.vertex THEN {Refused}
    ELSE TxCreateObject(g, x, [TxCall("object.create", Copy(x, id)) EXCEPT
                                 !.body = g.vertex[id], !.type = type])

CloneObjectsLink(g, x, c, lt) ==
    IF <<c.id, lt, c.to>> \notin DOMAIN g.link THEN {Refused}
    ELSE {Ok(<<LCreate(<<Copy(x, c.id), lt, Copy(x, c.to)>>, g.link[<<c.id, lt, c.to>>])>>)}

\* The type of the link is that of the main graph, where a and b are the types
\* of its ends.  Without such a link in the transaction, objects that are
\* missing and the link are cloned.
UpdateLinkOfTypes(g, x, c, a, b) ==
    LET from == Copy(x, c.id)
        to == Copy(x, c.to)
        lt == g.link[<<a, "__type", b>>].val
        CloneTo(h) == CloneObject(h, x, c.to, b)
        CloneLink(h) == CloneObjectsLink(h, x, c, lt)
        Update(h) == UpdateObjectsLink(h, [Call("objects.link.update", from) EXCEPT
                                             !.to = to, !.body = c.body])
    IN  IF <<a, "__type", b>> \notin DOMAIN g.link THEN {Refused}
        ELSE IF <<from, lt, to>> \in DOMAIN g.link THEN Update(g)
        ELSE Then(g, Then(g, Then(g, CloneObject(g, x, c.id, a), CloneTo), CloneLink), Update)

TxUpdateObjectsLink(g, x, c) ==
    UNION {UpdateLinkOfTypes(g, x, c, a, b) : a \in ObjectTypes(g, c.id), b \in ObjectTypes(g, c.to)}

TxDeleteObjectsLink(g, x, c) ==
    UpdateObjectsLink(g, [Mark("objects.link.update", Copy(x, c.id)) EXCEPT !.to = Copy(x, c.to)])

-----------------------------------------------------------------------------
TxPlans(g, x, c) ==
    CASE c.fn = "type.create"         -> TxCreateType(g, x, c)
      [] c.fn = "type.update"         -> TxUpdateType(g, x, c)
      [] c.fn = "type.delete"         -> TxDeleteType(g, x, c)
      [] c.fn = "types.link.create"   -> TxCreateTypesLink(g, x, c)
      [] c.fn = "types.link.update"   -> TxUpdateTypesLink(g, x, c)
      [] c.fn = "types.link.delete"   -> TxDeleteTypesLink(g, x, c)
      [] c.fn = "object.create"       -> TxCreateObject(g, x, c)
      [] c.fn = "object.update"       -> TxUpdateObject(g, x, c)
      [] c.fn = "object.delete"       -> TxDeleteObject(g, x, c)
      [] c.fn = "objects.link.create" -> TxCreateObjectsLink(g, x, c)
      [] c.fn = "objects.link.update" -> TxUpdateObjectsLink(g, x, c)
      [] c.fn = "objects.link.delete" -> TxDeleteObjectsLink(g, x, c)
=============================================================================
