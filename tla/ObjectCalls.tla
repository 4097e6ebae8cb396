----------------------------- MODULE ObjectCalls -----------------------------
(***************************************************************************)
(* The twelve functions for types and objects (embedded/graph/crud/        *)
(* hl_crud.go): what each one reads, and the low level requests it then    *)
(* makes, one after the other.  Module Objects executes them a request at  *)
(* a time, module Transaction as a whole.                                  *)
(***************************************************************************)
EXTENDS ObjectGraph

\* A call: the function, the id it is called for, and its arguments.  Types
\* and objects are named by ids; prefix is that of a transaction or << >>.
Call(fn, at) == [fn |-> fn, at |-> at, prefix |-> << >>, type |-> None, to |-> None,
                 lt |-> None, body |-> Body(None), mode |-> "merge"]

\* What a handler does once it has read: it is refused, or makes requests,
\* as long as they succeed, and answers "ok".
Refused == [answer |-> "failed", todo |-> << >>]
Ok(requests) == [answer |-> "ok", todo |-> requests]

-----------------------------------------------------------------------------
(* Types *)

\* Mutant: a type is created again whenever that is asked for.
CreateTypeAgain(g, c) ==
    {Ok(<<VCreate(c.at, c.body),
          LCreate(<<c.prefix \o <<"types">>, "__type", c.at>>, Body(None))>>)}

\* A type that is listed is left alone.
CreateType(g, c) ==
    LET listed == <<c.prefix \o <<"types">>, "__type", c.at>>
    IN  {IF listed \in DOMAIN g.link THEN Ok(<< >>)
         ELSE Ok(<<VCreate(c.at, c.body), LCreate(listed, Body(None))>>)}

UpdateType(g, c) == {Ok(<<VUpdate(c.at, c.body, c.mode)>>)}

\* The body of the call does not get into the link.
CreateTypesLink(g, c) ==
    LET l == <<c.at, "__type", c.to>>
    IN  {IF l \in DOMAIN g.link THEN Ok(<< >>) ELSE Ok(<<LCreate(l, Body(c.lt))>>)}

\* A new link type needs a link to change.  The links between the objects
\* keep the old one: it is looked up where no body has it, and the pattern
\* with an empty link type finds none of them.
UpdateTypesLink(g, c) ==
    LET l == <<c.at, "__type", c.to>>
        new == [c.body EXCEPT !.val = c.lt]
    IN  {IF c.lt # None /\ l \notin DOMAIN g.link THEN Refused ELSE Ok(<<LUpdate(l, new)>>)}

\* The functions that delete a type or a link between types do nothing.
DeleteNothing(g, c) == {Ok(<< >>)}

-----------------------------------------------------------------------------
(* Objects *)

\* The three links of an object; the type is not looked at.
ObjectLinks(c) ==
    <<<<c.prefix \o <<"objects">>, "__object", c.at>>,
      <<c.at, "__type", c.prefix \o c.type>>,
      <<c.prefix \o c.type, "__object", c.at>>>>

CreateObject(g, c) ==
    {IF ObjectLinks(c)[1] \in DOMAIN g.link THEN Ok(<< >>)
     ELSE Ok(<<VCreate(c.at, c.body)>>
                \o [i \in 1 .. 3 |-> LCreate(ObjectLinks(c)[i], Body(None))])}

UpdateObject(g, c) == {Ok(<<VUpdate(c.at, c.body, c.mode)>>)}

\* In mode "cascade" the requests follow from what each vertex leads to.
DeleteObject(g, c) == {Ok(IF c.mode = "cascade" THEN << >> ELSE <<VDelete(c.at)>>)}

\* The link type that the types of two objects have for links between them.
LinkTypeOf(g, from, to) ==
    {LET l == <<a, "__type", b>> IN IF l \in DOMAIN g.link THEN g.link[l].val ELSE None :
        a \in ObjectTypes(g, from), b \in ObjectTypes(g, to)}

\* The link that a call for two objects is about; refused without a type.
WithLinkType(g, c, Requests(_)) ==
    {IF lt = None THEN Refused ELSE Ok(Requests(<<c.at, lt, c.to>>)) :
        lt \in LinkTypeOf(g, c.at, c.to)}

CreateObjectsLink(g, c) ==
    LET Requests(l) == IF l \in DOMAIN g.link THEN << >> ELSE <<LCreate(l, c.body)>>
    IN  WithLinkType(g, c, Requests)

UpdateObjectsLink(g, c) ==
    LET Requests(l) == <<LUpdate(l, c.body)>> IN WithLinkType(g, c, Requests)

DeleteObjectsLink(g, c) ==
    LET Requests(l) == <<LDelete(l)>> IN WithLinkType(g, c, Requests)

-----------------------------------------------------------------------------
Plans(g, c) ==
    CASE c.fn = "type.create"         -> CreateType(g, c)
      [] c.fn = "type.update"         -> UpdateType(g, c)
      [] c.fn = "types.link.create"   -> CreateTypesLink(g, c)
      [] c.fn = "types.link.update"   -> UpdateTypesLink(g, c)
      [] c.fn = "object.create"       -> CreateObject(g, c)
      [] c.fn = "object.update"       -> UpdateObject(g, c)
      [] c.fn = "object.delete"       -> DeleteObject(g, c)
      [] c.fn = "objects.link.create" -> CreateObjectsLink(g, c)
      [] c.fn = "objects.link.update" -> UpdateObjectsLink(g, c)
      [] c.fn = "objects.link.delete" -> DeleteObjectsLink(g, c)
      [] OTHER                        -> DeleteNothing(g, c)

\* What calls made one after the other, by themselves, can leave behind.
Outcomes(g, c) == {ApplyAll(g, plan.todo) : plan \in Plans(g, c)}
=============================================================================
