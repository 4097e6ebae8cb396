---------------------------- MODULE MCTransaction ----------------------------
EXTENDS Transaction, TLC

CONSTANTS a, b

TxNames == Permutations({a, b})

Names == Tx \cup {"root", "objects", "types", "group", "nav", "key", "t", "u", "o", "p", "q", "w"}

t == <<"t">>
u == <<"u">>
o == <<"o">>
p == <<"p">>
q == <<"q">>
w == <<"w">>

\* Two types, an object of each, and a link between them.
Links == {<<types, "__type", t>>, <<types, "__type", u>>, <<t, "__type", u>>,
          <<objects, "__object", o>>, <<o, "__type", t>>, <<t, "__object", o>>,
          <<objects, "__object", p>>, <<p, "__type", u>>, <<u, "__object", p>>,
          <<o, "lt", p>>}
Prepared ==
    [vertex |-> [v \in {group, o} |-> Body("old")] @@ BuiltIn.vertex @@ [v \in {t, u, p} |-> Body(None)],
     link |-> BuiltIn.link @@ [l \in Links |-> IF l = <<t, "__type", u>> THEN Body("lt") ELSE Body(None)]]
Graphs == {Prepared}

New == Body("new")

Linking == {[TxCall("objects.link.create", q) EXCEPT !.to = p]}
Deleting == {TxCall("object.delete", o)}
Others == {TxCall("type.create", w),
           [TxCall("type.update", t) EXCEPT !.body = New],
           TxCall("type.delete", t),
           [TxCall("types.link.create", u) EXCEPT !.to = t, !.lt = "lt"],
           [TxCall("types.link.update", t) EXCEPT !.to = u],
           [TxCall("types.link.delete", t) EXCEPT !.to = u],
           [TxCall("object.create", q) EXCEPT !.type = t],
           [TxCall("object.update", o) EXCEPT !.body = New],
           [TxCall("object.update", o) EXCEPT !.mode = "replace"],
           [TxCall("objects.link.update", o) EXCEPT !.to = p],
           [TxCall("objects.link.delete", o) EXCEPT !.to = p]}

\* First anything but a link from q, which is there once it has been created;
\* then that link, or the deletion of the object that most calls are about.
FirstAndSecond == <<Others \cup Deleting, Linking \cup Deleting>>

Unsure == {o}

\* All of the graph, nothing of it, one type with its object.
Selections == {None, << >>, [v \in {t} |-> {o}]}
=============================================================================
