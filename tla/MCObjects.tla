------------------------------ MODULE MCObjects ------------------------------
EXTENDS Objects

CONSTANTS t, u, o, p, x, y

TypeIds == {<<t>>, <<u>>}
ObjectIds == {<<o>>, <<p>>}

\* Two declared types, and an object of each, linked.
Links == {<<types, "__type", <<t>>>>, <<types, "__type", <<u>>>>, <<<<t>>, "__type", <<u>>>>,
          <<objects, "__object", <<o>>>>, <<<<o>>, "__type", <<t>>>>, <<<<t>>, "__object", <<o>>>>,
          <<objects, "__object", <<p>>>>, <<<<p>>, "__type", <<u>>>>, <<<<u>>, "__object", <<p>>>>,
          <<<<o>>, x, <<p>>>>}
Prepared == [vertex |-> [v \in TypeIds \cup ObjectIds |-> Body(None)],
             link |-> [l \in Links |->
                         IF l = <<<<t>>, "__type", <<u>>>> THEN Body(x) ELSE Body(None)]]
Graphs == {EmptyGraph, Prepared}
=============================================================================
