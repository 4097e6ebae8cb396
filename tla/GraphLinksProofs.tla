-------------------------- MODULE GraphLinksProofs --------------------------
(***************************************************************************)
(* Proofs about module GraphLinks, by four invariants, each of which uses  *)
(* the ones before it.                                                     *)
(*                                                                         *)
(* IInv: the types, what a frame is at each location, and that a message   *)
(* is one that its sender waits for.  From it follow Line and Serving:     *)
(* the messages for one client are in a line, each asked for by the one    *)
(* above it, and each is about what that client's call may change.  Of the *)
(* callers' being apart then follows that one handler at a time works on a *)
(* link.                                                                   *)
(*                                                                         *)
(* KInv: the keys of a link, by where the handler that works on it is.     *)
(*                                                                         *)
(* NInv: the names of a vertex, which its links share: who holds a name    *)
(* key, which names are free, and how the generated ones are counted.      *)
(*                                                                         *)
(* DInv: what a handler has done by the time it answers.  It needs that    *)
(* the callers are apart on vertices, too.                                 *)
(***************************************************************************)
EXTENDS GraphLinks, SequenceTheorems, TLAPS

USE NoneIsNew, ClientsAreNoHandlers

\* The messages in a queue, and those that h has, the one it executes included.
Elements(s) == {s[i] : i \in 1 .. Len(s)}
Held(h) == Elements(queue[h]) \cup (IF frame[h] = None THEN {} ELSE {frame[h].msg})

\* h does not wait for an answer before it goes on with m.
Active(h, m) ==
    /\ m \in Held(h)
    /\ frame[h] # None /\ frame[h].msg = m => frame[h].pc # "await"

-----------------------------------------------------------------------------
(* Types, and what a frame is at each location *)

GraphTypes ==
    /\ vertex \subseteq Vertex
    /\ body \in [Link -> LinkBody \cup {None}]
    /\ outName \subseteq Vertex \X (Name \cup GeneratedName)
    /\ \A k \in outIndex : /\ k[1] \in Link
                           /\ \/ k[2] = "name" /\ k[3] \in Name \cup GeneratedName
                              \/ k[2] = "tag" /\ k[3] \in Tag
    /\ inLink \subseteq Link
    /\ nameGen \in [Vertex -> GeneratedName]

Puts(h) == h[1] \in {"linkCreate", "linkUpdate"}

MsgOK(h, m) ==
    /\ m \in Msg
    /\ m.in => /\ h[1] \in {"linkCreate", "linkDelete"} /\ m.link \in Link
               /\ h = <<h[1], m.link.to, m.link.to = m.link.from>>
    /\ ~m.in => /\ h = <<h[1], h[2], FALSE>>
                /\ h[1] \in LinkFunction => m.link \in Link /\ m.link.from = h[2]
                /\ h[1] \in VertexFunction => m.link = None
                /\ Puts(h) => m.body \in GivenBody

Writing == {"writeGen", "setName", "setIndex", "setBody", "setTags"}
Naming == {"name", "readGen"} \cup Writing
Dropping == {"dropName", "dropIndex", "dropTags"}

FrameOK(h, f) ==
    /\ f \in Frame
    /\ f.msg.in => f.pc \in {"inLink", "reply"}
    /\ ~f.msg.in =>
        /\ h[1] = "linkCreate" => f.pc \in Naming \cup {"start", "await", "requestIn", "reply"}
        /\ h[1] = "linkUpdate" => f.pc \in Naming \cup Dropping \cup {"start", "await", "reply"}
        /\ h[1] = "linkDelete" => f.pc \in Dropping \cup
               {"start", "await", "readBody", "dropBody", "requestIn", "reply"}
        /\ h[1] = "vertexDelete" => f.pc \in
               {"start", "await", "deleteOut", "deleteIn", "dropVertex", "reply"}
        /\ h[1] \in {"vertexCreate", "vertexUpdate"} => f.pc \in
               {"start", "await", "setVertex", "reply"}
        /\ Puts(h) => f.new \in LinkBody \cup GivenBody
    /\ f.pc \in Dropping => f.old \in LinkBody
    /\ f.pc \in Writing => f.new \in LinkBody
    /\ f.pc = "writeGen" => f.new.name \in Nat
    /\ h[1] = "vertexDelete" => \A l \in f.todo : h[2] \in {l.from, l.to}

WellFormed == \A h \in Handler : /\ \A m \in Held(h) : MsgOK(h, m)
                                 /\ frame[h] # None => FrameOK(h, frame[h])

-----------------------------------------------------------------------------
(* Requests *)

\* h has been asked by g, which waits for it.
AsksAs(f, g, h, m) ==
    LET l == f.msg.link IN
    /\ f.pc = "await" /\ ~f.msg.in
    /\ \/ /\ g[1] = "linkCreate" /\ f.then = "name"
          /\ h = <<"linkDelete", g[2], FALSE>> /\ m.link = l /\ ~m.in
       \/ /\ g[1] \in {"linkCreate", "linkDelete"} /\ f.then = "reply"
          /\ h = <<g[1], l.to, l.to = l.from>> /\ m.link = l /\ m.in
       \/ /\ g[1] = "linkUpdate" /\ f.then = "reply"
          /\ h = <<"linkCreate", g[2], FALSE>> /\ m.link = l /\ m.body = f.msg.body /\ ~m.in
       \/ /\ g[1] = "vertexCreate" /\ f.then = "setVertex"
          /\ h = <<"vertexDelete", g[2], FALSE>> /\ m.link = None /\ ~m.in
       \/ /\ g[1] = "vertexDelete" /\ f.then \in {"deleteOut", "deleteIn"}
          /\ h = <<"linkDelete", m.link.from, FALSE>> /\ m.link \in Link /\ ~m.in
          /\ g[2] \in {m.link.from, m.link.to}
Asks(g, h, m) == frame[g] # None /\ AsksAs(frame[g], g, h, m)

\* h has been called by client c.
Calling(c, h, m) ==
    /\ client[c] # None /\ h = client[c].handler
    /\ m.link = client[c].link /\ m.body = client[c].body /\ ~m.in

Served == \A h \in Handler : \A m \in Held(h) :
    /\ m.caller \in Client => Calling(m.caller, h, m)
    /\ m.caller \in Handler => Asks(m.caller, h, m)

\* Nobody waits for two answers, or for two copies of one.
Once ==
    /\ \A h, g \in Handler : \A m \in Held(h), n \in Held(g) :
          m.caller = n.caller => h = g /\ m = n
    /\ \A h \in Handler : \A i, j \in 1 .. Len(queue[h]) :
          queue[h][i] = queue[h][j] => i = j
    /\ \A h \in Handler : frame[h] # None => frame[h].msg \notin Elements(queue[h])

IInv == TypeOK /\ WellFormed /\ Served /\ Once

-----------------------------------------------------------------------------
(* What a step does to queues, frames and clients *)

\* What is appended is one more element.
LEMMA AppendElements ==
    ASSUME NEW S, NEW s \in Seq(S), NEW e \in S
    PROVE  /\ Append(s, e) \in Seq(S)
           /\ Elements(Append(s, e)) = Elements(s) \cup {e}
           /\ (\A i, j \in 1 .. Len(s) : s[i] = s[j] => i = j) /\ e \notin Elements(s)
              => \A i, j \in 1 .. Len(Append(s, e)) :
                    Append(s, e)[i] = Append(s, e)[j] => i = j
  <1>1. /\ Append(s, e) \in Seq(S) /\ Len(s) \in Nat /\ Len(Append(s, e)) = Len(s) + 1
        /\ \A i \in 1 .. Len(s) : Append(s, e)[i] = s[i]
        /\ Append(s, e)[Len(s) + 1] = e
    BY AppendProperties, LenProperties
  <1> DEFINE t == Append(s, e)
  <1> HIDE DEF t
  <1>2. Elements(t) = Elements(s) \cup {e}
    <2>1. \A i \in 1 .. Len(t) : i \in 1 .. Len(s) \/ i = Len(s) + 1
      BY <1>1 DEF t
    <2>2. \A i \in 1 .. Len(s) : i \in 1 .. Len(t)
      BY <1>1 DEF t
    <2>3. Len(s) + 1 \in 1 .. Len(t)
      BY <1>1 DEF t
    <2> QED
      BY <1>1, <2>1, <2>2, <2>3 DEF t, Elements
  <1> QED
    BY <1>1, <1>2 DEF t, Elements

\* What is taken from the front is gone, if every element is there once.
LEMMA TailElements ==
    ASSUME NEW S, NEW s \in Seq(S), s # <<>>
    PROVE  /\ Head(s) \in S /\ Tail(s) \in Seq(S)
           /\ Elements(s) = Elements(Tail(s)) \cup {Head(s)}
           /\ (\A i, j \in 1 .. Len(s) : s[i] = s[j] => i = j)
              => /\ Head(s) \notin Elements(Tail(s))
                 /\ \A i, j \in 1 .. Len(Tail(s)) : Tail(s)[i] = Tail(s)[j] => i = j
  <1>1. /\ Head(s) \in S /\ Tail(s) \in Seq(S) /\ Len(s) \in Nat /\ Len(s) > 0
        /\ Head(s) = s[1] /\ Len(Tail(s)) = Len(s) - 1
        /\ \A i \in 1 .. Len(Tail(s)) : Tail(s)[i] = s[i + 1]
    BY HeadTailProperties, LenProperties, EmptySeq
  <1> DEFINE t == Tail(s)
  <1> HIDE DEF t
  <1>2. Elements(s) = Elements(t) \cup {s[1]}
    <2>1. \A i \in 1 .. Len(t) : i + 1 \in 1 .. Len(s)
      BY <1>1 DEF t
    <2>2. ASSUME NEW i \in 1 .. Len(s), i # 1
          PROVE  i - 1 \in 1 .. Len(t) /\ s[i] = t[i - 1]
      <3>1. i - 1 \in 1 .. Len(t) /\ (i - 1) + 1 = i
        BY <1>1, <2>2 DEF t
      <3> QED
        BY <1>1, <3>1 DEF t
    <2> QED
      BY <1>1, <2>1, <2>2 DEF t, Elements
  <1>3. \A i \in 1 .. Len(t) : i + 1 \in 1 .. Len(s) /\ i + 1 # 1
    BY <1>1 DEF t
  <1>4. ASSUME \A i, j \in 1 .. Len(s) : s[i] = s[j] => i = j
        PROVE  s[1] \notin Elements(t) /\ \A i, j \in 1 .. Len(t) : t[i] = t[j] => i = j
    <2>1. 1 \in 1 .. Len(s)
      BY <1>1
    <2>2. \A i \in 1 .. Len(t) : t[i] # s[1]
      BY <1>1, <1>3, <1>4, <2>1 DEF t
    <2>3. ASSUME NEW i \in 1 .. Len(t), NEW j \in 1 .. Len(t), t[i] = t[j] PROVE i = j
      <3>1. s[i + 1] = s[j + 1]
        BY <1>1, <2>3 DEF t
      <3> QED
        BY <1>3, <1>4, <3>1
    <2> QED
      BY <2>2, <2>3 DEF Elements
  <1> QED
    BY <1>1, <1>2, <1>4 DEF t

\* h goes on by itself.
Moves(h) ==
    /\ frame[h] # None /\ frame[h].pc # "await"
    /\ frame' \in [Handler -> Frame \cup {None}]
    /\ frame'[h] # None /\ frame'[h].msg = frame[h].msg /\ frame'[h].pc # "await"
    /\ \A x \in Handler \ {h} : frame'[x] = frame[x]
    /\ UNCHANGED <<queue, client>>

\* h requests g and waits.
Sends(h, g, n) ==
    /\ frame[h] # None /\ frame[h].pc # "await"
    /\ frame' \in [Handler -> Frame \cup {None}]
    /\ frame'[h] # None /\ frame'[h].msg = frame[h].msg /\ frame'[h].pc = "await"
    /\ \A x \in Handler \ {h} : frame'[x] = frame[x]
    /\ n \in Msg /\ n.caller = h /\ g \in Handler
    /\ queue' = [queue EXCEPT ![g] = Append(@, n)]
    /\ UNCHANGED client

\* The types of the fields of a frame.
LEMMA FrameFields ==
    ASSUME NEW f \in Frame
    PROVE  /\ f.msg \in Msg /\ f.pc \in Location /\ f.then \in Location \cup {None}
           /\ f.old \in LinkBody \cup {None} /\ f.new \in LinkBody \cup GivenBody \cup {None}
           /\ f.todo \in SUBSET Link
           /\ f.msg.in \in BOOLEAN /\ f.msg.link \in Link \cup {None}
           /\ f.msg.body \in GivenBody \cup {None} /\ f.msg.caller \in Client \cup Handler
  BY DEF Frame, Msg

\* What a step that only goes on to l does.
LEMMA LocalEffect ==
    ASSUME TypeOK, NEW h \in Handler, frame[h] # None, frame[h].pc # "await",
           NEW l \in Location, l # "await", Local(h, l)
    PROVE  /\ Moves(h) /\ frame'[h] \in Frame
           /\ frame'[h].pc = l /\ frame'[h].msg = frame[h].msg
           /\ frame'[h].then = frame[h].then /\ frame'[h].old = frame[h].old
           /\ frame'[h].new = frame[h].new /\ frame'[h].todo = frame[h].todo
  <1> DEFINE f == frame[h]
  <1>1. f \in Frame /\ frame \in [Handler -> Frame \cup {None}]
    BY DEF TypeOK
  <1>2. frame' = [frame EXCEPT ![h] = [f EXCEPT !.pc = l]]
    BY DEF Local, Next_
  <1> DEFINE g == [f EXCEPT !.pc = l]
  <1>3. /\ g \in Frame /\ g.pc = l /\ g.msg = f.msg /\ g.then = f.then /\ g.old = f.old
        /\ g.new = f.new /\ g.todo = f.todo
    BY <1>1 DEF Frame
  <1> HIDE DEF g
  <1>4. frame'[h] = g /\ \A x \in Handler \ {h} : frame'[x] = frame[x]
    BY <1>1, <1>2 DEF g
  <1>5. frame' \in [Handler -> Frame \cup {None}]
    BY <1>1, <1>2, <1>3 DEF g
  <1>6. g # None
    BY <1>3
  <1> QED
    BY <1>3, <1>4, <1>5, <1>6 DEF Moves, Local

\* What a step that writes a new frame does.
LEMMA WriteEffect ==
    ASSUME TypeOK, NEW h \in Handler, frame[h] # None, frame[h].pc # "await",
           NEW g \in Frame, g.pc # "await", g.msg = frame[h].msg,
           frame' = [frame EXCEPT ![h] = g], UNCHANGED <<queue, client>>
    PROVE  Moves(h) /\ frame'[h] = g
  <1>1. frame \in [Handler -> Frame \cup {None}]
    BY DEF TypeOK
  <1>2. g # None
    OBVIOUS
  <1> QED
    BY <1>1, <1>2 DEF Moves

\* What a step that requests g does.
LEMMA RequestEffect ==
    ASSUME TypeOK, NEW h \in Handler, frame[h] # None, frame[h].pc # "await",
           NEW g \in Handler, NEW in \in BOOLEAN, NEW link \in Link \cup {None},
           NEW given \in GivenBody \cup {None}, NEW l \in Location,
           Request(h, g, in, link, given, l)
    PROVE  LET n == [in |-> in, link |-> link, body |-> given, caller |-> h] IN
           /\ Sends(h, g, n) /\ frame'[h] \in Frame
           /\ frame'[h].pc = "await" /\ frame'[h].msg = frame[h].msg
           /\ frame'[h].then = l /\ frame'[h].old = frame[h].old
           /\ frame'[h].new = frame[h].new /\ frame'[h].todo = frame[h].todo
  <1> DEFINE f == frame[h]
             n == [in |-> in, link |-> link, body |-> given, caller |-> h]
             g1 == [f EXCEPT !.pc = "await", !.then = l]
  <1>1. f \in Frame /\ frame \in [Handler -> Frame \cup {None}]
    BY DEF TypeOK
  <1>2. frame' = [frame EXCEPT ![h] = g1]
    BY DEF Request
  <1>3. /\ g1 \in Frame /\ g1.pc = "await" /\ g1.msg = f.msg /\ g1.then = l /\ g1.old = f.old
        /\ g1.new = f.new /\ g1.todo = f.todo
    <2>1. "await" \in Location
      BY DEF Location
    <2> QED
      BY <1>1, <2>1 DEF Frame
  <1> HIDE DEF g1
  <1>4. frame'[h] = g1 /\ \A x \in Handler \ {h} : frame'[x] = frame[x]
    BY <1>1, <1>2
  <1>5. frame' \in [Handler -> Frame \cup {None}]
    BY <1>1, <1>2, <1>3
  <1>6. n \in Msg /\ n.caller = h
    BY DEF Msg
  <1>7. queue' = [queue EXCEPT ![g] = Append(@, n)] /\ UNCHANGED client
    BY DEF Request
  <1>8. g1 # None
    BY <1>3
  <1> HIDE DEF n
  <1>9. Sends(h, g, n)
    BY <1>3, <1>4, <1>5, <1>6, <1>7, <1>8 DEF Sends
  <1> QED
    BY <1>3, <1>4, <1>9 DEF n
-----------------------------------------------------------------------------
(* Every action keeps the types *)

\* What h executes, by where it is.
LEMMA Located ==
    ASSUME TypeOK, WellFormed, NEW h \in Handler, frame[h] # None
    PROVE  LET f == frame[h]  l == f.msg.link IN
           /\ f \in Frame /\ FrameOK(h, f) /\ MsgOK(h, f.msg) /\ f.msg \in Held(h)
           /\ h[1] \in LinkFunction \cup VertexFunction /\ h[2] \in Vertex
           /\ f.pc = "inLink" => f.msg.in
           /\ f.pc \notin {"inLink", "reply"} => ~f.msg.in
           /\ f.pc \in Naming => Puts(h)
           /\ f.pc \in Dropping => h[1] \in {"linkUpdate", "linkDelete"}
           /\ f.pc = "requestIn" => h[1] \in {"linkCreate", "linkDelete"}
           /\ f.pc \in {"readBody", "dropBody"} => h[1] = "linkDelete"
           /\ f.pc = "setVertex" => h[1] \in {"vertexCreate", "vertexUpdate"}
           /\ f.pc \in {"deleteOut", "deleteIn", "dropVertex"} => h[1] = "vertexDelete"
           /\ h[1] \in LinkFunction => l \in Link
           /\ h[1] \in LinkFunction /\ ~f.msg.in => l.from = h[2]
           /\ h[1] \in VertexFunction => ~f.msg.in /\ l = None
           /\ ~f.msg.in => h = <<h[1], h[2], FALSE>>
  <1> DEFINE f == frame[h]
  <1>1. f \in Frame
    BY DEF TypeOK
  <1>2. f.msg \in Held(h)
    BY DEF Held
  <1>3. FrameOK(h, f) /\ MsgOK(h, f.msg)
    BY <1>2 DEF WellFormed
  <1>4. h[1] \in LinkFunction \cup VertexFunction /\ h[2] \in Vertex
    BY DEF Handler, LinkFunction, VertexFunction
  <1>5. f.msg \in Msg /\ f.msg.in \in BOOLEAN
    BY <1>1, FrameFields
  <1>6. h[1] \in VertexFunction => ~f.msg.in
    BY <1>3, <1>5 DEF MsgOK, VertexFunction
  <1>7. ~f.msg.in => h = <<h[1], h[2], FALSE>>
    BY <1>3 DEF MsgOK
  <1>8. /\ h[1] \in LinkFunction => f.msg.link \in Link
        /\ h[1] \in LinkFunction /\ ~f.msg.in => f.msg.link.from = h[2]
        /\ h[1] \in VertexFunction => f.msg.link = None
    BY <1>3, <1>5, <1>6 DEF MsgOK
  <1>9. /\ f.pc = "inLink" => f.msg.in
        /\ f.pc \notin {"inLink", "reply"} => ~f.msg.in
        /\ f.pc \in Naming => Puts(h)
        /\ f.pc \in Dropping => h[1] \in {"linkUpdate", "linkDelete"}
        /\ f.pc = "requestIn" => h[1] \in {"linkCreate", "linkDelete"}
        /\ f.pc \in {"readBody", "dropBody"} => h[1] = "linkDelete"
        /\ f.pc = "setVertex" => h[1] \in {"vertexCreate", "vertexUpdate"}
        /\ f.pc \in {"deleteOut", "deleteIn", "dropVertex"} => h[1] = "vertexDelete"
    BY <1>3, <1>4, <1>5 DEF FrameOK, LinkFunction, VertexFunction, Naming, Writing, Dropping, Puts
  <1> QED
    BY <1>1, <1>2, <1>3, <1>4, <1>6, <1>7, <1>8, <1>9

\* A step that only goes on to l keeps its frame well formed.
LEMMA LocalOK ==
    ASSUME TypeOK, WellFormed, NEW h \in Handler, frame[h] # None, frame[h].pc # "await",
           NEW l \in Location, l # "await", Local(h, l),
           frame[h].msg.in => l = "reply",
           ~frame[h].msg.in =>
             /\ l # "inLink"
             /\ l \in Naming => Puts(h)
             /\ l \in Dropping => h[1] \in {"linkUpdate", "linkDelete"}
             /\ l = "requestIn" => h[1] \in {"linkCreate", "linkDelete"}
             /\ l \in {"readBody", "dropBody"} => h[1] = "linkDelete"
             /\ l = "setVertex" => h[1] \in {"vertexCreate", "vertexUpdate"}
             /\ l \in {"deleteOut", "deleteIn", "dropVertex"} => h[1] = "vertexDelete",
           l \in Dropping => frame[h].old \in LinkBody,
           l \in Writing => frame[h].new \in LinkBody,
           l # "writeGen"
    PROVE  Moves(h) /\ FrameOK(h, frame'[h])
  <1>1. /\ Moves(h) /\ frame'[h] \in Frame
        /\ frame'[h].pc = l /\ frame'[h].msg = frame[h].msg
        /\ frame'[h].old = frame[h].old /\ frame'[h].new = frame[h].new
        /\ frame'[h].todo = frame[h].todo
    BY LocalEffect
  <1>2. h[1] \in LinkFunction \cup VertexFunction /\ FrameOK(h, frame[h]) /\ frame[h] \in Frame
    BY Located
  <1>3. frame[h].msg.in \in BOOLEAN
    BY <1>2, FrameFields
  <1> DEFINE f == frame[h]
             g == frame'[h]
  <1>4. /\ ~f.msg.in /\ Puts(h) => f.new \in LinkBody \cup GivenBody
        /\ h[1] = "vertexDelete" => \A k \in f.todo : h[2] \in {k.from, k.to}
    BY <1>2 DEF FrameOK
  <1>5. l \in Location
    OBVIOUS
  <1> QED
    BY <1>1, <1>2, <1>3, <1>4, <1>5
    DEF FrameOK, LinkFunction, VertexFunction, Naming, Writing, Dropping, Puts, Location
\* A request is one that its receiver can handle.
SendsWell(h) ==
    \E g \in Handler, n \in Msg :
        /\ Sends(h, g, n) /\ MsgOK(g, n) /\ Asks(h, g, n)'
        /\ h[1] = "vertexDelete" => n.link \in frame[h].todo

\* The steps that write a name and a body keep types and frames well formed.
LEMMA NamingOK ==
    ASSUME TypeOK, WellFormed, NEW h \in Handler,
           \/ ChooseName(h) \/ ReadGen(h) \/ WriteGen(h) \/ SetName(h)
           \/ SetIndex(h) \/ SetBody(h) \/ SetTags(h)
    PROVE  GraphTypes' /\ Moves(h) /\ FrameOK(h, frame'[h])
  <1> DEFINE f == frame[h]  l == f.msg.link
  <1>1. /\ f # None /\ f.pc \in Naming /\ f.pc # "await"
        /\ \A s \in Location : At(h, s) => f.pc = s
    BY DEF ChooseName, ReadGen, WriteGen, SetName, SetIndex, SetBody, SetTags, At,
           Naming, Writing
  <1>2. /\ f \in Frame /\ FrameOK(h, f) /\ Puts(h) /\ ~f.msg.in /\ h[2] \in Vertex
        /\ l \in Link /\ l.from = h[2] /\ f.new \in LinkBody \cup GivenBody
    <2>1. f \in Frame /\ FrameOK(h, f) /\ Puts(h) /\ ~f.msg.in /\ h[2] \in Vertex
      BY <1>1, Located DEF Naming, Writing
    <2>2. h[1] \in LinkFunction
      BY <2>1 DEF Puts, LinkFunction
    <2>3. l \in Link /\ l.from = h[2]
      BY <1>1, <2>1, <2>2, Located
    <2> QED
      BY <2>1, <2>3 DEF FrameOK
  <1>3. GraphTypes
    BY DEF TypeOK, GraphTypes
  <1>4. f.new \in LinkBody => f.new.name \in Name \cup Nat /\ f.new.tags \in SUBSET Tag
    BY DEF LinkBody, GeneratedName
  <1>5. CASE ChooseName(h)
    <2>1. PICK s \in {"setName", "readGen"} :
             Local(h, s) /\ (s = "setName" => f.new.name # None)
      BY <1>5 DEF ChooseName
    <2>2. s = "setName" => f.new \in LinkBody
      BY <1>2, <2>1 DEF LinkBody, GivenBody
    <2>3. s \in Location /\ s # "await" /\ s # "writeGen" /\ s \notin Dropping
      BY DEF Location, Dropping
    <2>4. Moves(h) /\ FrameOK(h, frame'[h])
      BY <1>1, <1>2, <2>1, <2>2, <2>3, LocalOK DEF Writing
    <2> QED
      BY <1>3, <1>5, <2>4 DEF ChooseName, GraphTypes, graph, links
  <1>6. CASE ReadGen(h)
    <2> DEFINE g == [f EXCEPT !.pc = "writeGen", !.new.name = nameGen[h[2]]]
    <2>1. nameGen[h[2]] \in Nat
      BY <1>2, <1>3 DEF GraphTypes, GeneratedName
    <2>2. [f.new EXCEPT !.name = nameGen[h[2]]] \in LinkBody
      BY <1>2, <2>1 DEF LinkBody, GivenBody, GeneratedName
    <2>3. /\ g \in Frame /\ g.pc = "writeGen" /\ g.msg = f.msg
          /\ g.new = [f.new EXCEPT !.name = nameGen[h[2]]]
      BY <1>2, <2>2 DEF Frame, Location
    <2>4. g.new \in LinkBody /\ g.new.name \in Nat
      BY <1>2, <2>1, <2>2, <2>3 DEF LinkBody, GivenBody
    <2>5. frame' = [frame EXCEPT ![h] = g] /\ UNCHANGED <<graph, queue, client>>
      BY <1>6 DEF ReadGen
    <2> HIDE DEF g
    <2>6. Moves(h) /\ frame'[h] = g
      BY <1>1, <2>3, <2>5, WriteEffect
    <2>7. FrameOK(h, g)
      BY <1>2, <2>3, <2>4 DEF FrameOK, Naming, Writing, Dropping, Puts
    <2> QED
      BY <1>3, <2>5, <2>6, <2>7 DEF GraphTypes, graph, links
  <1>7. CASE WriteGen(h)
    <2>1. f.new \in LinkBody /\ f.new.name \in Nat
      BY <1>2, <1>7 DEF FrameOK, Writing, WriteGen, At
    <2>2. Moves(h) /\ FrameOK(h, frame'[h])
      BY <1>1, <1>2, <1>7, <2>1, LocalOK DEF WriteGen, Location, Dropping
    <2>3. nameGen' \in [Vertex -> GeneratedName]
      BY <1>2, <1>3, <1>7, <2>1 DEF WriteGen, GraphTypes, GeneratedName
    <2> QED
      BY <1>3, <1>7, <2>2, <2>3 DEF WriteGen, GraphTypes
  <1>8. CASE SetName(h)
    <2>1. f.new \in LinkBody
      BY <1>2, <1>8 DEF FrameOK, Writing, SetName, At
    <2>2. Moves(h) /\ FrameOK(h, frame'[h])
      BY <1>1, <1>2, <1>8, <2>1, LocalOK DEF SetName, Location, Dropping
    <2>3. <<h[2], f.new.name>> \in Vertex \X (Name \cup GeneratedName)
      BY <1>2, <1>4, <2>1 DEF GeneratedName
    <2> QED
      BY <1>3, <1>8, <2>2, <2>3 DEF SetName, GraphTypes
  <1>9. CASE SetIndex(h)
    <2>1. f.new \in LinkBody
      BY <1>2, <1>9 DEF FrameOK, Writing, SetIndex, At
    <2>2. Moves(h) /\ FrameOK(h, frame'[h])
      BY <1>1, <1>2, <1>9, <2>1, LocalOK DEF SetIndex, Location, Dropping
    <2>3. f.new.name \in Name \cup GeneratedName
      BY <1>4, <2>1 DEF GeneratedName
    <2> QED
      BY <1>2, <1>3, <1>9, <2>2, <2>3 DEF SetIndex, GraphTypes, LinkOf
  <1>10. CASE SetBody(h)
    <2>1. f.new \in LinkBody
      BY <1>2, <1>10 DEF FrameOK, Writing, SetBody, At
    <2>2. Moves(h) /\ FrameOK(h, frame'[h])
      BY <1>1, <1>2, <1>10, <2>1, LocalOK DEF SetBody, Location, Dropping
    <2> QED
      BY <1>2, <1>3, <1>10, <2>1, <2>2 DEF SetBody, GraphTypes, LinkOf
  <1>11. CASE SetTags(h)
    <2>1. f.new \in LinkBody
      BY <1>2, <1>11 DEF FrameOK, Writing, SetTags, At
    <2>2. Moves(h) /\ FrameOK(h, frame'[h])
      BY <1>1, <1>2, <1>11, LocalOK DEF SetTags, Of, Location, Dropping, Naming, Writing
    <2>3. \A k \in TagKeys(l, f.new.tags) : k[1] \in Link /\ k[2] = "tag" /\ k[3] \in Tag
      BY <1>2, <1>4, <2>1 DEF TagKeys
    <2> QED
      BY <1>3, <1>11, <2>2, <2>3 DEF SetTags, GraphTypes, LinkOf
  <1> QED
    BY <1>5, <1>6, <1>7, <1>8, <1>9, <1>10, <1>11

\* So do the steps that delete them.
LEMMA DroppingOK ==
    ASSUME TypeOK, WellFormed, NEW h \in Handler,
           \/ InLink(h) \/ DeleteStart(h) \/ ReadBody(h)
           \/ DropBody(h) \/ DropName(h) \/ DropIndex(h) \/ DropTags(h)
    PROVE  GraphTypes' /\ Moves(h) /\ FrameOK(h, frame'[h])
  <1> DEFINE f == frame[h]  l == f.msg.link
  <1>1. f # None /\ f.pc # "await"
    BY DEF InLink, DeleteStart, ReadBody, DropBody, DropName, DropIndex, DropTags, At
  <1>2. f \in Frame /\ FrameOK(h, f) /\ GraphTypes /\ h[2] \in Vertex
    BY <1>1, Located DEF TypeOK, GraphTypes
  <1>3. CASE InLink(h)
    <2>1. f.msg.in /\ h[1] \in LinkFunction
      BY <1>3, Located DEF InLink, At
    <2>2. l \in Link
      BY <1>1, <2>1, Located
    <2>3. Moves(h) /\ FrameOK(h, frame'[h])
      BY <1>1, <1>3, <2>1, LocalOK DEF InLink, Location, Dropping, Writing
    <2> QED
      BY <1>2, <1>3, <2>2, <2>3 DEF InLink, GraphTypes, LinkOf
  <1>4. CASE DeleteStart(h)
    <2>1. ~f.msg.in
      BY <1>4, Located DEF DeleteStart, At
    <2>2. Moves(h) /\ FrameOK(h, frame'[h])
      BY <1>1, <1>4, <2>1, LocalOK DEF DeleteStart, Of, Location, Dropping, Naming, Writing
    <2> QED
      BY <1>2, <1>4, <2>2 DEF DeleteStart, GraphTypes, graph, links
  <1>5. CASE ReadBody(h)
    <2>1. ~f.msg.in /\ h[1] = "linkDelete"
      BY <1>5, Located DEF ReadBody, At
    <2>2. l \in Link
      BY <1>1, <2>1, Located DEF LinkFunction
    <2> DEFINE g == [f EXCEPT !.pc = "dropBody", !.old = body[l]]
    <2>3. body[l] \in LinkBody \cup {None}
      BY <1>2, <2>2 DEF GraphTypes
    <2>4. g \in Frame /\ g.pc = "dropBody" /\ g.msg = f.msg
      BY <1>2, <2>3 DEF Frame, Location
    <2>5. frame' = [frame EXCEPT ![h] = g] /\ UNCHANGED <<graph, queue, client>>
      BY <1>5 DEF ReadBody, LinkOf
    <2> HIDE DEF g
    <2>6. Moves(h) /\ frame'[h] = g
      BY <1>1, <2>4, <2>5, WriteEffect
    <2>7. FrameOK(h, g)
      BY <1>2, <2>1, <2>4 DEF FrameOK, Naming, Writing, Dropping, Puts
    <2> QED
      BY <1>2, <2>5, <2>6, <2>7 DEF GraphTypes, graph, links
  <1>6. CASE DropBody(h)
    <2>1. ~f.msg.in /\ h[1] = "linkDelete"
      BY <1>6, Located DEF DropBody, At
    <2>2. l \in Link
      BY <1>1, <2>1, Located DEF LinkFunction
    <2>3. f.old \in LinkBody \cup {None}
      BY <1>2, FrameFields
    <2>4. Moves(h) /\ FrameOK(h, frame'[h])
      BY <1>1, <1>6, <2>1, <2>3, LocalOK DEF DropBody, Location, Dropping, Naming, Writing
    <2> QED
      BY <1>2, <1>6, <2>2, <2>4 DEF DropBody, GraphTypes, LinkOf
  <1>7. CASE DropName(h)
    <2>1. ~f.msg.in /\ h[1] \in {"linkUpdate", "linkDelete"} /\ f.old \in LinkBody
      BY <1>2, <1>7, Located DEF DropName, At, Dropping, FrameOK
    <2>2. Moves(h) /\ FrameOK(h, frame'[h])
      BY <1>1, <1>7, <2>1, LocalOK DEF DropName, Location, Naming, Writing
    <2> QED
      BY <1>2, <1>7, <2>2 DEF DropName, GraphTypes
  <1>8. CASE DropIndex(h)
    <2>1. ~f.msg.in /\ h[1] \in {"linkUpdate", "linkDelete"} /\ f.old \in LinkBody
      BY <1>2, <1>8, Located DEF DropIndex, At, Dropping, FrameOK
    <2>2. Moves(h) /\ FrameOK(h, frame'[h])
      BY <1>1, <1>8, <2>1, LocalOK DEF DropIndex, Location, Naming, Writing
    <2> QED
      BY <1>2, <1>8, <2>2 DEF DropIndex, GraphTypes
  <1>9. CASE DropTags(h)
    <2>1. ~f.msg.in /\ h[1] \in {"linkUpdate", "linkDelete"}
      BY <1>9, Located DEF DropTags, At, Dropping
    <2>2. Moves(h) /\ FrameOK(h, frame'[h])
      BY <1>1, <1>9, <2>1, LocalOK DEF DropTags, Of, Location, Dropping, Naming, Writing, Puts
    <2> QED
      BY <1>2, <1>9, <2>2 DEF DropTags, GraphTypes
  <1> QED
    BY <1>3, <1>4, <1>5, <1>6, <1>7, <1>8, <1>9

\* So do the steps of the vertex functions.
LEMMA VertexOK ==
    ASSUME TypeOK, WellFormed, NEW h \in Handler,
           \/ SetVertex(h) \/ ListOut(h) \/ ListIn(h) \/ DropGen(h) \/ DropVertex(h)
    PROVE  GraphTypes' /\ Moves(h) /\ FrameOK(h, frame'[h])
  <1> DEFINE f == frame[h]
  <1>1. f # None /\ f.pc # "await" /\ f.pc # "reply" /\ f.pc # "inLink"
    BY DEF SetVertex, ListOut, ListIn, DropGen, DropVertex, At
  <1>2. /\ f \in Frame /\ FrameOK(h, f) /\ GraphTypes /\ h[2] \in Vertex
        /\ ~f.msg.in
    BY <1>1, Located DEF TypeOK, GraphTypes
  <1>3. CASE SetVertex(h)
    <2>1. Moves(h) /\ FrameOK(h, frame'[h])
      BY <1>1, <1>2, <1>3, LocalOK DEF SetVertex, Location, Dropping, Naming, Writing
    <2> QED
      BY <1>2, <1>3, <2>1 DEF SetVertex, GraphTypes, links
  <1>4. CASE ListOut(h)
    <2> DEFINE t == {l \in Link : l.from = h[2] /\ body[l] # None}
               g == [f EXCEPT !.pc = "deleteOut", !.todo = t]
    <2>1. t \in SUBSET Link /\ \A k \in t : h[2] \in {k.from, k.to}
      OBVIOUS
    <2> HIDE DEF t
    <2>2. g \in Frame /\ g.pc = "deleteOut" /\ g.msg = f.msg /\ g.todo = t
      BY <1>2, <2>1 DEF Frame, Location
    <2>3. frame' = [frame EXCEPT ![h] = g] /\ UNCHANGED <<graph, queue, client>>
      BY <1>4 DEF ListOut, t
    <2> HIDE DEF g
    <2>4. Moves(h) /\ frame'[h] = g
      BY <1>1, <2>2, <2>3, WriteEffect
    <2>5. h[1] = "vertexDelete"
      BY <1>4 DEF ListOut, Of
    <2>6. FrameOK(h, g)
      BY <1>2, <2>1, <2>2, <2>5 DEF FrameOK, Naming, Writing, Dropping, Puts
    <2> QED
      BY <1>2, <2>3, <2>4, <2>6 DEF GraphTypes, graph, links
  <1>5. CASE ListIn(h)
    <2> DEFINE t == {l \in inLink : l.to = h[2]}
               g == [f EXCEPT !.pc = "deleteIn", !.todo = t]
    <2>1. t \in SUBSET Link /\ \A k \in t : h[2] \in {k.from, k.to}
      BY <1>2 DEF GraphTypes
    <2> HIDE DEF t
    <2>2. g \in Frame /\ g.pc = "deleteIn" /\ g.msg = f.msg /\ g.todo = t
      BY <1>2, <2>1 DEF Frame, Location
    <2>3. frame' = [frame EXCEPT ![h] = g] /\ UNCHANGED <<graph, queue, client>>
      BY <1>5 DEF ListIn, t
    <2> HIDE DEF g
    <2>4. Moves(h) /\ frame'[h] = g
      BY <1>1, <2>2, <2>3, WriteEffect
    <2>5. h[1] = "vertexDelete"
      BY <1>5, Located DEF ListIn, At
    <2>6. FrameOK(h, g)
      BY <1>2, <2>1, <2>2, <2>5 DEF FrameOK, Naming, Writing, Dropping, Puts
    <2> QED
      BY <1>2, <2>3, <2>4, <2>6 DEF GraphTypes, graph, links
  <1>6. CASE DropGen(h)
    <2>1. h[1] = "vertexDelete"
      BY <1>6, Located DEF DropGen, At
    <2>2. Moves(h) /\ FrameOK(h, frame'[h])
      BY <1>1, <1>2, <1>6, <2>1, LocalOK DEF DropGen, Location, Dropping, Naming, Writing
    <2> QED
      BY <1>2, <1>6, <2>2 DEF DropGen, GraphTypes, GeneratedName
  <1>7. CASE DropVertex(h)
    <2>1. Moves(h) /\ FrameOK(h, frame'[h])
      BY <1>1, <1>2, <1>7, LocalOK DEF DropVertex, Location, Dropping, Naming, Writing
    <2> QED
      BY <1>2, <1>7, <2>1 DEF DropVertex, GraphTypes, links
  <1> QED
    BY <1>3, <1>4, <1>5, <1>6, <1>7

\* A request to g of the kind that h makes.
LEMMA RequestOK ==
    ASSUME TypeOK, WellFormed, NEW h \in Handler, frame[h] # None, frame[h].pc # "await",
           ~frame[h].msg.in,
           NEW g \in Handler, NEW in \in BOOLEAN, NEW link \in Link \cup {None},
           NEW given \in GivenBody \cup {None}, NEW l \in Location,
           Request(h, g, in, link, given, l),
           \/ /\ h[1] = "linkCreate" /\ l = "name" /\ link = frame[h].msg.link
              /\ g = <<"linkDelete", h[2], FALSE>> /\ in = FALSE
           \/ /\ h[1] \in {"linkCreate", "linkDelete"} /\ l = "reply" /\ link = frame[h].msg.link
              /\ g = <<h[1], link.to, link.to = link.from>> /\ in = TRUE
           \/ /\ h[1] = "linkUpdate" /\ l = "reply" /\ link = frame[h].msg.link
              /\ g = <<"linkCreate", h[2], FALSE>> /\ in = FALSE
              /\ given \in GivenBody /\ given = frame[h].msg.body
           \/ /\ h[1] = "vertexCreate" /\ l = "setVertex" /\ link = None
              /\ g = <<"vertexDelete", h[2], FALSE>> /\ in = FALSE
    PROVE  SendsWell(h) /\ FrameOK(h, frame'[h])
  <1> DEFINE f == frame[h]
             n == [in |-> in, link |-> link, body |-> given, caller |-> h]
             f1 == frame'[h]
  <1>1. /\ Sends(h, g, n) /\ f1 \in Frame
        /\ f1.pc = "await" /\ f1.msg = f.msg /\ f1.then = l /\ f1.new = f.new
        /\ f1.todo = f.todo
    BY RequestEffect
  <1>2. /\ FrameOK(h, f) /\ h[1] \in LinkFunction \cup VertexFunction
        /\ h[1] \in LinkFunction => f.msg.link \in Link /\ f.msg.link.from = h[2]
    BY Located
  <1>3. FrameOK(h, f1)
    BY <1>1, <1>2 DEF FrameOK, Naming, Writing, Dropping
  <1>4. n \in Msg /\ n.in = in /\ n.link = link /\ n.body = given
    BY <1>1 DEF Sends
  <1>5. f1 # None
    BY <1>1
  <1>6. h[1] \in {"linkCreate", "linkDelete", "linkUpdate"} => link \in Link /\ link.from = h[2]
    BY <1>2 DEF LinkFunction
  <1> HIDE DEF n, f1
  <1>7. MsgOK(g, n)
    <2>1. CASE in = FALSE
      <3>1. n.in = FALSE
        BY <1>4, <2>1
      <3>2. CASE h[1] = "linkCreate"
        <4>1. g = <<"linkDelete", h[2], FALSE>> /\ link \in Link /\ link.from = h[2]
          BY <1>6, <2>1, <3>2, Zenon
        <4> QED
          BY <1>4, <3>1, <4>1 DEF MsgOK, LinkFunction, VertexFunction, Puts
      <3>3. CASE h[1] = "linkUpdate"
        <4>1. g = <<"linkCreate", h[2], FALSE>> /\ link \in Link /\ link.from = h[2]
              /\ given \in GivenBody
          BY <1>6, <2>1, <3>3
        <4> QED
          BY <1>4, <3>1, <4>1 DEF MsgOK, LinkFunction, VertexFunction, Puts
      <3>4. CASE h[1] = "vertexCreate"
        <4>1. g = <<"vertexDelete", h[2], FALSE>> /\ link = None
          BY <2>1, <3>4
        <4> QED
          BY <1>4, <3>1, <4>1 DEF MsgOK, LinkFunction, VertexFunction, Puts
      <3> QED
        BY <2>1, <3>2, <3>3, <3>4
    <2>2. CASE in = TRUE
      <3>1. /\ n.in = TRUE /\ g[1] = h[1] /\ g = <<g[1], link.to, link.to = link.from>>
            /\ g[1] \in {"linkCreate", "linkDelete"}
        BY <1>4, <2>2
      <3> QED
        BY <1>4, <1>6, <3>1 DEF MsgOK
    <2> QED
      BY <2>1, <2>2
  <1>8. Asks(h, g, n)'
    BY <1>1, <1>4, <1>5 DEF Asks, AsksAs, f1
  <1> QED
    BY <1>1, <1>3, <1>4, <1>7, <1>8 DEF SendsWell, f1

\* So do the steps that may request something.
LEMMA StartOK ==
    ASSUME TypeOK, WellFormed, NEW h \in Handler,
           \/ CreateStart(h) \/ UpdateStart(h) \/ VertexStart(h) \/ RequestIn(h)
           \/ RequestDelete(h)
    PROVE  GraphTypes' /\ (Moves(h) \/ SendsWell(h)) /\ FrameOK(h, frame'[h])
  <1> DEFINE f == frame[h]  l == f.msg.link
  <1>1. /\ f # None /\ f.pc # "await" /\ f.pc # "reply" /\ f.pc # "inLink"
        /\ UNCHANGED graph
    BY DEF CreateStart, UpdateStart, VertexStart, RequestIn, RequestDelete, At
  <1>2. /\ f \in Frame /\ FrameOK(h, f) /\ GraphTypes /\ h[2] \in Vertex
        /\ ~f.msg.in /\ h = <<h[1], h[2], FALSE>> /\ MsgOK(h, f.msg)
        /\ h[1] \in LinkFunction => l \in Link /\ l.from = h[2]
    BY <1>1, Located DEF TypeOK, GraphTypes
  <1>3. GraphTypes'
    BY <1>1, <1>2 DEF GraphTypes, graph, links
  <1>4. CASE CreateStart(h)
    <2>1. h[1] = "linkCreate" /\ l \in Link
      BY <1>2, <1>4 DEF CreateStart, Of, LinkFunction
    <2>2. CASE body[l] # None
      <3>1. Request(h, <<"linkDelete", h[2], FALSE>>, FALSE, l, None, "name")
        BY <1>4, <2>2 DEF CreateStart, LinkOf
      <3>2. <<"linkDelete", h[2], FALSE>> \in Handler
        BY <1>2 DEF Handler, LinkFunction
      <3> QED
        BY <1>1, <1>2, <1>3, <2>1, <3>1, <3>2, RequestOK DEF Location
    <2>3. CASE body[l] = None
      <3>1. Local(h, "name")
        BY <1>4, <2>3 DEF CreateStart, LinkOf
      <3> QED
        BY <1>1, <1>2, <1>3, <2>1, <3>1, LocalOK DEF Location, Dropping, Naming, Writing, Puts
    <2> QED
      BY <2>2, <2>3
  <1>5. CASE UpdateStart(h)
    <2>1. h[1] = "linkUpdate" /\ l \in Link /\ f.msg.body \in GivenBody
      BY <1>2, <1>5 DEF UpdateStart, Of, LinkFunction, MsgOK, Puts
    <2>2. CASE body[l] = None /\ Request(h, <<"linkCreate", h[2], FALSE>>, FALSE, l, f.msg.body, "reply")
      <3>1. <<"linkCreate", h[2], FALSE>> \in Handler
        BY <1>2 DEF Handler, LinkFunction
      <3> QED
        BY <1>1, <1>2, <1>3, <2>1, <2>2, <3>1, RequestOK DEF Location
    <2>3. ASSUME NEW b \in Updated(body[l], f.msg.body), body[l] # None,
                 frame' = [frame EXCEPT ![h].pc = "dropName", ![h].old = body[l], ![h].new = b],
                 UNCHANGED <<queue, client>>
          PROVE  GraphTypes' /\ Moves(h) /\ FrameOK(h, frame'[h])
      <3>1. body[l] \in LinkBody
        BY <1>2, <2>1, <2>3 DEF GraphTypes
      <3>2. b \in LinkBody \cup GivenBody
        BY <2>1, <3>1 DEF Updated, LinkBody, GivenBody
      <3> DEFINE g == [f EXCEPT !.pc = "dropName", !.old = body[l], !.new = b]
      <3>3. g \in Frame /\ g.pc = "dropName" /\ g.msg = f.msg /\ g.old = body[l] /\ g.new = b
        BY <1>2, <3>1, <3>2 DEF Frame, Location
      <3>4. frame' = [frame EXCEPT ![h] = g] /\ UNCHANGED <<queue, client>>
        BY <2>3
      <3> HIDE DEF g
      <3>5. Moves(h) /\ frame'[h] = g
        BY <1>1, <3>3, <3>4, WriteEffect
      <3>6. FrameOK(h, g)
        BY <1>2, <2>1, <3>1, <3>2, <3>3 DEF FrameOK, Naming, Writing, Dropping, Puts
      <3> QED
        BY <1>3, <3>5, <3>6
    <2> QED
      BY <1>5, <2>2, <2>3 DEF UpdateStart, LinkOf
  <1>6. CASE VertexStart(h)
    <2>1. h[1] \in {"vertexCreate", "vertexUpdate"}
      BY <1>6 DEF VertexStart
    <2>2. CASE Of(h, "vertexCreate") /\ h[2] \in vertex
      <3>1. Request(h, <<"vertexDelete", h[2], FALSE>>, FALSE, None, None, "setVertex")
        BY <1>6, <2>2 DEF VertexStart
      <3>2. <<"vertexDelete", h[2], FALSE>> \in Handler
        BY <1>2 DEF Handler, VertexFunction
      <3>3. h[1] = "vertexCreate"
        BY <2>2 DEF Of
      <3> QED
        BY <1>1, <1>2, <1>3, <3>1, <3>2, <3>3, RequestOK DEF Location
    <2>3. CASE ~(Of(h, "vertexCreate") /\ h[2] \in vertex)
      <3>1. Local(h, "setVertex")
        BY <1>6, <2>3 DEF VertexStart
      <3> QED
        BY <1>1, <1>2, <1>3, <2>1, <3>1, LocalOK DEF Location, Dropping, Naming, Writing
    <2> QED
      BY <2>2, <2>3
  <1>7. CASE RequestIn(h)
    <2>1. h[1] \in {"linkCreate", "linkDelete"}
      BY <1>7, Located DEF RequestIn, At
    <2>2. l \in Link
      BY <1>2, <2>1 DEF LinkFunction
    <2>3. <<h[1], l.to, l.to = l.from>> \in Handler
      BY <2>1, <2>2 DEF Handler, LinkFunction, Link
    <2>4. Request(h, <<h[1], l.to, l.to = l.from>>, TRUE, l, None, "reply")
      BY <1>7 DEF RequestIn, LinkOf
    <2> QED
      BY <1>1, <1>2, <1>3, <2>1, <2>2, <2>3, <2>4, RequestOK DEF Location
  <1>8. CASE RequestDelete(h)
    <2>1. h[1] = "vertexDelete"
      BY <1>8, Located DEF RequestDelete, At
    <2>2. f.pc \in {"deleteOut", "deleteIn"}
      BY <1>8 DEF RequestDelete, At
    <2>3. PICK k \in f.todo :
             /\ queue' = [queue EXCEPT ![<<"linkDelete", k.from, FALSE>>] = Append(@,
                   [in |-> FALSE, link |-> k, body |-> None, caller |-> h])]
             /\ frame' = [frame EXCEPT ![h].pc = "await", ![h].then = frame[h].pc,
                                       ![h].todo = @ \ {k}]
             /\ UNCHANGED client
      BY <1>8 DEF RequestDelete, graph
    <2>4. k \in Link /\ f.todo \in SUBSET Link /\ f.then \in Location \cup {None} /\ f.pc \in Location
      BY <1>2, FrameFields
    <2>5. h[2] \in {k.from, k.to} /\ k.from \in Vertex
      BY <1>2, <2>1, <2>4 DEF FrameOK, Link
    <2> DEFINE t == f.todo \ {k}
               f1 == [f EXCEPT !.pc = "await", !.then = f.pc, !.todo = t]
               n == [in |-> FALSE, link |-> k, body |-> None, caller |-> h]
               g == <<"linkDelete", k.from, FALSE>>
    <2>6. t \in SUBSET Link
      BY <2>4
    <2>7. frame' = [frame EXCEPT ![h] = f1]
      BY <2>3
    <2> HIDE DEF t
    <2>8. f1 \in Frame /\ f1.pc = "await" /\ f1.msg = f.msg /\ f1.then = f.pc /\ f1.todo = t
      BY <1>2, <2>4, <2>6 DEF Frame, Location
    <2> HIDE DEF f1
    <2>9. n \in Msg /\ n.caller = h /\ ~n.in /\ n.link = k
      BY <2>4 DEF Msg
    <2>10. g \in Handler /\ g[1] = "linkDelete" /\ g[2] = k.from
      BY <2>5 DEF Handler, LinkFunction
    <2>11. queue' = [queue EXCEPT ![g] = Append(@, n)]
      BY <2>3
    <2>12. g = <<"linkDelete", k.from, FALSE>>
      OBVIOUS
    <2> HIDE DEF n, g
    <2>13. frame \in [Handler -> Frame \cup {None}]
      BY DEF TypeOK
    <2>14. frame'[h] = f1 /\ f1 # None
      BY <2>7, <2>8, <2>13
    <2>15. Sends(h, g, n)
      <3>1. frame' \in [Handler -> Frame \cup {None}] /\ \A x \in Handler \ {h} : frame'[x] = frame[x]
        BY <2>7, <2>8, <2>13
      <3> QED
        BY <1>1, <2>3, <2>8, <2>9, <2>10, <2>11, <2>14, <3>1 DEF Sends
    <2>16. MsgOK(g, n)
      BY <2>4, <2>9, <2>10, <2>12 DEF MsgOK, LinkFunction, VertexFunction, Puts
    <2>17. Asks(h, g, n)'
      BY <1>2, <2>1, <2>2, <2>4, <2>5, <2>8, <2>9, <2>12, <2>14 DEF Asks, AsksAs
    <2>18. SendsWell(h)
      BY <2>3, <2>9, <2>10, <2>15, <2>16, <2>17 DEF SendsWell
    <2>19. \A j \in t : h[2] \in {j.from, j.to}
      BY <1>2, <2>1 DEF FrameOK, t
    <2>20. FrameOK(h, f1)
      BY <1>2, <2>1, <2>8, <2>19 DEF FrameOK, Naming, Writing, Dropping, Puts
    <2> QED
      BY <1>3, <2>14, <2>18, <2>20
  <1> QED
    BY <1>4, <1>5, <1>6, <1>7, <1>8
-----------------------------------------------------------------------------
(* Steps keep track of who waits for whom *)

\* A step of h by itself gives nobody a message and takes none.
LEMMA MovesHeld ==
    ASSUME TypeOK, NEW h \in Handler, Moves(h)
    PROVE  \A x \in Handler : Held(x)' = Held(x)
  BY DEF Moves, Held

\* A request is one more message for g.
LEMMA SendsHeld ==
    ASSUME TypeOK, NEW h \in Handler, NEW g \in Handler, NEW n, Sends(h, g, n)
    PROVE  /\ queue' \in [Handler -> Seq(Msg)]
           /\ Held(g)' = Held(g) \cup {n}
           /\ \A x \in Handler \ {g} : Held(x)' = Held(x) /\ queue'[x] = queue[x]
           /\ queue'[g] = Append(queue[g], n)
  <1>1. queue \in [Handler -> Seq(Msg)] /\ queue[g] \in Seq(Msg) /\ n \in Msg
    BY DEF TypeOK, Sends
  <1>2. queue'[g] = Append(queue[g], n) /\ \A x \in Handler \ {g} : queue'[x] = queue[x]
    BY <1>1 DEF Sends
  <1>3. Append(queue[g], n) \in Seq(Msg)
        /\ Elements(Append(queue[g], n)) = Elements(queue[g]) \cup {n}
    BY <1>1, AppendElements
  <1>4. queue' \in [Handler -> Seq(Msg)]
    BY <1>1, <1>3 DEF Sends
  <1>5. \A x \in Handler : (frame'[x] = None <=> frame[x] = None)
                           /\ (frame[x] # None => frame'[x].msg = frame[x].msg)
    BY DEF Sends
  <1>6. Held(g)' = Elements(queue'[g]) \cup (IF frame'[g] = None THEN {} ELSE {frame'[g].msg})
    BY DEF Held, Elements
  <1>7. Held(g)' = Held(g) \cup {n}
    BY <1>2, <1>3, <1>5, <1>6 DEF Held
  <1>8. \A x \in Handler \ {g} : Held(x)' = Held(x)
    BY <1>2, <1>5 DEF Held, Elements
  <1> QED
    BY <1>2, <1>4, <1>7, <1>8

\* What the begin of a message does.
LEMMA BeginEffect ==
    ASSUME TypeOK, WellFormed, Once, NEW h \in Handler, HandleBegin(h)
    PROVE  /\ frame[h] = None
           /\ frame' \in [Handler -> Frame \cup {None}] /\ queue' \in [Handler -> Seq(Msg)]
           /\ UNCHANGED <<graph, client>>
           /\ \A x \in Handler : Held(x)' = Held(x)
           /\ \A x \in Handler \ {h} : frame'[x] = frame[x] /\ queue'[x] = queue[x]
           /\ LET m == frame'[h].msg IN
              /\ m \in Elements(queue[h]) /\ m \notin Elements(queue'[h])
              /\ frame'[h] # None /\ frame'[h].old = None /\ frame'[h].new = m.body
              /\ frame'[h].pc = IF m.in THEN "inLink" ELSE "start"
              /\ frame'[h].then = None /\ frame'[h].todo = {}
              /\ FrameOK(h, frame'[h])
           /\ \A i, j \in 1 .. Len(queue'[h]) : queue'[h][i] = queue'[h][j] => i = j
  <1> DEFINE q == queue[h]
             m == Head(q)
             f == [msg |-> m, then |-> None, pc |-> IF m.in THEN "inLink" ELSE "start",
                   old |-> None, new |-> m.body, todo |-> {}]
  <1>1. /\ queue \in [Handler -> Seq(Msg)] /\ q \in Seq(Msg) /\ q # <<>> /\ frame[h] = None
        /\ frame \in [Handler -> Frame \cup {None}]
    BY DEF TypeOK, HandleBegin
  <1>2. /\ m \in Msg /\ Tail(q) \in Seq(Msg) /\ Elements(q) = Elements(Tail(q)) \cup {m}
        /\ m \notin Elements(Tail(q))
        /\ \A i, j \in 1 .. Len(Tail(q)) : Tail(q)[i] = Tail(q)[j] => i = j
    BY <1>1, TailElements DEF Once
  <1>3. frame' = [frame EXCEPT ![h] = f] /\ queue' = [queue EXCEPT ![h] = Tail(q)]
        /\ UNCHANGED <<graph, client>>
    BY DEF HandleBegin
  <1>4. m \in Held(h)
    BY <1>2 DEF Held
  <1>5. MsgOK(h, m)
    BY <1>4 DEF WellFormed
  <1>6. m.body \in GivenBody \cup {None} /\ m.in \in BOOLEAN
    BY <1>2 DEF Msg
  <1> HIDE DEF m, q
  <1>7. f \in Frame
    BY <1>2, <1>6 DEF Frame, Location
  <1>8. /\ f # None /\ f.msg = m /\ f.old = None /\ f.new = m.body /\ f.then = None
        /\ f.pc = IF m.in THEN "inLink" ELSE "start"
        /\ f.todo = {}
    BY <1>7
  <1>9. FrameOK(h, f)
    BY <1>5, <1>6, <1>7, <1>8 DEF FrameOK, MsgOK, Naming, Writing, Dropping, Puts, LinkFunction
  <1> HIDE DEF f
  <1>10. frame'[h] = f /\ queue'[h] = Tail(q)
         /\ \A x \in Handler \ {h} : frame'[x] = frame[x] /\ queue'[x] = queue[x]
    BY <1>1, <1>3
  <1>11. frame' \in [Handler -> Frame \cup {None}] /\ queue' \in [Handler -> Seq(Msg)]
    BY <1>1, <1>2, <1>3, <1>7
  <1>12. Held(h)' = Elements(Tail(q)) \cup {m}
    BY <1>8, <1>10 DEF Held, Elements
  <1>13. Held(h) = Elements(q)
    BY <1>1 DEF Held, q
  <1>14. \A x \in Handler \ {h} : Held(x)' = Held(x)
    BY <1>10 DEF Held, Elements
  <1>15. \A x \in Handler : Held(x)' = Held(x)
    BY <1>2, <1>12, <1>13, <1>14
  <1>16. m \in Elements(queue[h])
    BY <1>2 DEF q
  <1> QED
    BY <1>1, <1>2, <1>3, <1>8, <1>9, <1>10, <1>11, <1>15, <1>16
\* h answers to, which has asked it and goes on.
AnswersHandler(h, to) ==
    /\ to \in Handler \ {h} /\ Asks(to, h, frame[h].msg)
    /\ frame'[to] # None /\ frame'[to].msg = frame[to].msg
    /\ frame'[to].pc = frame[to].then /\ frame'[to].old = frame[to].old
    /\ frame'[to].new = frame[to].new /\ frame'[to].todo = frame[to].todo
    /\ FrameOK(to, frame'[to])
    /\ \A x \in Handler \ {h, to} : frame'[x] = frame[x]
    /\ UNCHANGED client

AnswersClient(h, to) ==
    /\ to \in Client /\ Calling(to, h, frame[h].msg)
    /\ \A x \in Handler \ {h} : frame'[x] = frame[x]
    /\ client' = [client EXCEPT ![to] = None]

\* What an answer does.
LEMMA ReplyEffect ==
    ASSUME IInv, NEW h \in Handler, Reply(h)
    PROVE  LET m == frame[h].msg IN
           /\ frame[h] # None /\ frame[h].pc = "reply" /\ m \in Held(h)
           /\ frame' \in [Handler -> Frame \cup {None}] /\ frame'[h] = None
           /\ UNCHANGED <<graph, queue>>
           /\ Held(h)' = Held(h) \ {m}
           /\ \A x \in Handler \ {h} : Held(x)' = Held(x)
           /\ AnswersHandler(h, m.caller) \/ AnswersClient(h, m.caller)
  <1> DEFINE m == frame[h].msg  to == m.caller
  <1>1. /\ frame[h] # None /\ frame[h].pc = "reply" /\ UNCHANGED <<graph, queue>>
        /\ frame \in [Handler -> Frame \cup {None}]
    BY DEF Reply, At, IInv, TypeOK
  <1>2. m \in Held(h) /\ m \notin Elements(queue[h])
    BY <1>1 DEF Held, IInv, Once
  <1>3. CASE to \in Client /\ client' = [client EXCEPT ![to] = None]
             /\ frame' = [frame EXCEPT ![h] = None]
    <2>1. frame' \in [Handler -> Frame \cup {None}] /\ frame'[h] = None
          /\ \A x \in Handler \ {h} : frame'[x] = frame[x]
      BY <1>1, <1>3
    <2>2. Calling(to, h, m)
      BY <1>2, <1>3 DEF IInv, Served
    <2>3. AnswersClient(h, to)
      BY <1>3, <2>1, <2>2 DEF AnswersClient
    <2>4. Held(h)' = Held(h) \ {m} /\ \A x \in Handler \ {h} : Held(x)' = Held(x)
      BY <1>1, <1>2, <2>1 DEF Held, Elements
    <2> QED
      BY <1>1, <1>2, <2>1, <2>3, <2>4
  <1>4. CASE to \in Handler /\ UNCHANGED client
             /\ frame' = [frame EXCEPT ![h] = None, ![to].pc = frame[to].then]
    <2>1. Asks(to, h, m)
      BY <1>2, <1>4 DEF IInv, Served
    <2> DEFINE f == frame[to]
               g == [f EXCEPT !.pc = f.then]
    <2>2. /\ f # None /\ f \in Frame /\ f.pc = "await" /\ ~f.msg.in /\ to # h
          /\ f.then \in Location /\ f.then # "await" /\ f.then # "writeGen" /\ f.then \notin Writing
      BY <1>1, <1>4, <2>1 DEF Asks, AsksAs, Location, Writing
    <2>3. FrameOK(to, f)
      BY <1>4, <2>2 DEF IInv, WellFormed
    <2>4. /\ g \in Frame /\ g # None /\ g.msg = f.msg /\ g.pc = f.then /\ g.old = f.old
          /\ g.new = f.new /\ g.todo = f.todo
      BY <2>2 DEF Frame
    <2>5. frame' = [frame EXCEPT ![h] = None, ![to] = g]
      BY <1>1, <1>4, <2>2
    <2> HIDE DEF g
    <2>6. FrameOK(to, g)
      <3>1. \/ to[1] = "linkCreate" /\ f.then \in {"name", "reply"}
            \/ to[1] \in {"linkUpdate", "linkDelete"} /\ f.then = "reply"
            \/ to[1] = "vertexCreate" /\ f.then = "setVertex"
            \/ to[1] = "vertexDelete" /\ f.then \in {"deleteOut", "deleteIn"}
        BY <2>1, Zenon DEF Asks, AsksAs
      <3> QED
        BY <2>2, <2>3, <2>4, <3>1 DEF FrameOK, Naming, Writing, Dropping, Puts
    <2>7. /\ frame' \in [Handler -> Frame \cup {None}] /\ frame'[h] = None /\ frame'[to] = g
          /\ \A x \in Handler \ {h, to} : frame'[x] = frame[x]
      <3>1. PICK G : G = frame /\ G \in [Handler -> Frame \cup {None}]
        BY <1>1
      <3>2. PICK t : t = to /\ t \in Handler /\ t # h /\ frame' = [G EXCEPT ![h] = None, ![t] = g]
        BY <1>4, <2>2, <2>5, <3>1
      <3>3. frame' \in [Handler -> Frame \cup {None}]
        BY <2>4, <3>1, <3>2
      <3>4. frame'[h] = None /\ frame'[t] = g /\ \A x \in Handler \ {h, t} : frame'[x] = G[x]
        BY <3>1, <3>2
      <3> QED
        BY <3>1, <3>2, <3>3, <3>4
    <2>8. AnswersHandler(h, to)
      BY <1>4, <2>1, <2>2, <2>4, <2>6, <2>7 DEF AnswersHandler
    <2>9. Held(h)' = Held(h) \ {m} /\ \A x \in Handler \ {h} : Held(x)' = Held(x)
      BY <1>1, <1>2, <2>2, <2>4, <2>7 DEF Held, Elements
    <2> QED
      BY <1>1, <1>2, <2>7, <2>8, <2>9
  <1> QED
    BY <1>3, <1>4 DEF Reply

\* A handler whose id is not composite is its function and its vertex.
LEMMA PlainHandler ==
    ASSUME NEW A, NEW B, NEW x \in A \X B \X {FALSE}
    PROVE  x = <<x[1], x[2], FALSE>>
  <1>1. x = <<x[1], x[2], x[3]>>
    OBVIOUS
  <1>2. x[3] = FALSE
    OBVIOUS
  <1> QED
    BY <1>1, <1>2, Zenon

\* What a call of a client does.
LEMMA CallEffect ==
    ASSUME IInv, NEW c \in Client, NEW call \in Calls[c], ClientCall(c, call)
    PROVE  \E g \in Handler, n \in Msg :
             /\ client[c] = None /\ client' = [client EXCEPT ![c] = call]
             /\ client' \in [Client -> Call \cup {None}]
             /\ n.caller = c /\ MsgOK(g, n) /\ Calling(c, g, n)'
             /\ queue' = [queue EXCEPT ![g] = Append(@, n)]
             /\ queue' \in [Handler -> Seq(Msg)]
             /\ \A x \in Handler \ {g} : queue'[x] = queue[x]
             /\ queue'[g] = Append(queue[g], n)
             /\ Held(g)' = Held(g) \cup {n}
             /\ \A x \in Handler \ {g} : Held(x)' = Held(x)
             /\ UNCHANGED <<graph, frame>>
  <1> DEFINE g == call.handler
             n == [in |-> FALSE, link |-> call.link, body |-> call.body, caller |-> c]
  <1>1. call \in Call /\ client \in [Client -> Call \cup {None}]
        /\ queue \in [Handler -> Seq(Msg)]
    BY CallsType DEF IInv, TypeOK
  <1>2. /\ g \in Handler /\ ~g[3] /\ call.link \in Link \cup {None}
        /\ call.body \in GivenBody \cup {None}
        /\ IF g[1] \in LinkFunction
           THEN call.link # None /\ call.link.from = g[2] ELSE call.link = None
        /\ call.body # None <=> g[1] \in {"linkCreate", "linkUpdate"}
    BY <1>1 DEF Call
  <1>3. n \in Msg /\ n.caller = c /\ ~n.in /\ n.link = call.link /\ n.body = call.body
    BY <1>2 DEF Msg
  <1>4. /\ client[c] = None /\ client' = [client EXCEPT ![c] = call]
        /\ queue' = [queue EXCEPT ![g] = Append(@, n)] /\ UNCHANGED <<graph, frame>>
    BY DEF ClientCall
  <1>5. g = <<g[1], g[2], FALSE>>
    <2>1. g \in {"linkCreate", "linkDelete"} \X Vertex \X {TRUE} => g[3] = TRUE
      OBVIOUS
    <2>2. g \in (LinkFunction \cup VertexFunction) \X Vertex \X {FALSE}
      BY <1>2, <2>1 DEF Handler
    <2> QED
      BY <2>2, PlainHandler
  <1>6. call # None
    BY <1>1
  <1> HIDE DEF g, n
  <1>7. MsgOK(g, n)
    BY <1>2, <1>3, <1>5 DEF MsgOK, LinkFunction, VertexFunction, Puts
  <1>8. client'[c] = call /\ client' \in [Client -> Call \cup {None}]
    BY <1>1, <1>4
  <1>9. Calling(c, g, n)'
    BY <1>3, <1>6, <1>8 DEF Calling, g
  <1>10. queue[g] \in Seq(Msg)
    BY <1>1, <1>2
  <1>11. Append(queue[g], n) \in Seq(Msg)
         /\ Elements(Append(queue[g], n)) = Elements(queue[g]) \cup {n}
    BY <1>3, <1>10, AppendElements
  <1>12. /\ queue' \in [Handler -> Seq(Msg)] /\ queue'[g] = Append(queue[g], n)
         /\ \A x \in Handler \ {g} : queue'[x] = queue[x]
    BY <1>1, <1>2, <1>4, <1>11
  <1>13. /\ Held(g)' = Held(g) \cup {n}
         /\ \A x \in Handler \ {g} : Held(x)' = Held(x)
    BY <1>4, <1>11, <1>12 DEF Held, Elements
  <1> QED
    BY <1>2, <1>3, <1>4, <1>7, <1>8, <1>9, <1>12, <1>13
-----------------------------------------------------------------------------
(* The first invariant: types, and who waits for whom *)

\* Nobody has a message of a handler that does not wait.
LEMMA OnlyWaitersAsk ==
    ASSUME Served, NEW h \in Handler, frame[h] = None \/ frame[h].pc # "await"
    PROVE  \A x \in Handler : \A m \in Held(x) : m.caller # h
  BY DEF Served, Asks, AsksAs

\* A request stays one while the frame of who asks stays the same.
LEMMA AsksStays ==
    ASSUME NEW g, NEW h, NEW m, Asks(g, h, m), frame'[g] = frame[g]
    PROVE  Asks(g, h, m)'
  BY DEF Asks, AsksAs

\* The first invariant holds at first.
LEMMA InitIInv == Init => IInv
  <1> SUFFICES ASSUME Init PROVE IInv
    OBVIOUS
  <1>1. \A h \in Handler : queue[h] = <<>> /\ frame[h] = None /\ Len(queue[h]) = 0
    BY DEF Init
  <1>2. \A h \in Handler : Elements(queue[h]) = {} /\ Held(h) = {}
    BY <1>1 DEF Elements, Held
  <1>3. TypeOK
    <2>1. GraphTypes
      BY DEF Init, GraphTypes, GeneratedName
    <2>2. queue \in [Handler -> Seq(Msg)] /\ frame \in [Handler -> Frame \cup {None}]
      BY DEF Init
    <2>3. client \in [Client -> Call \cup {None}]
      BY DEF Init
    <2> QED
      BY <2>1, <2>2, <2>3 DEF TypeOK, GraphTypes
  <1> QED
    BY <1>1, <1>2, <1>3 DEF IInv, WellFormed, Served, Once

\* A step of h by itself keeps it.
LEMMA MovesIInv ==
    ASSUME IInv, NEW h \in Handler, GraphTypes', Moves(h), FrameOK(h, frame'[h])
    PROVE  IInv'
  <1>1. \A x \in Handler : Held(x)' = Held(x)
    BY MovesHeld DEF IInv
  <1>2. TypeOK'
    BY DEF IInv, TypeOK, GraphTypes, Moves
  <1>3. WellFormed'
    BY <1>1 DEF IInv, WellFormed, Moves
  <1>4. \A x \in Handler : \A m \in Held(x) : m.caller # h
    BY OnlyWaitersAsk DEF IInv, Moves
  <1>5. Served'
    <2> SUFFICES ASSUME NEW x \in Handler, NEW m \in Held(x)
                 PROVE  /\ m.caller \in Client => Calling(m.caller, x, m)'
                        /\ m.caller \in Handler => Asks(m.caller, x, m)'
      BY <1>1 DEF Served
    <2>1. m.caller \in Client => Calling(m.caller, x, m)'
      BY DEF IInv, Served, Calling, Moves
    <2>2. ASSUME m.caller \in Handler PROVE frame'[m.caller] = frame[m.caller]
      BY <1>4, <2>2 DEF Moves
    <2>3. m.caller \in Handler => Asks(m.caller, x, m)'
      BY <2>2, AsksStays DEF IInv, Served
    <2> QED
      BY <2>1, <2>3
  <1>6. Once'
    BY <1>1 DEF IInv, Once, Moves, Elements
  <1> QED
    BY <1>2, <1>3, <1>5, <1>6 DEF IInv

\* A request keeps it.
LEMMA SendsIInv ==
    ASSUME IInv, NEW h \in Handler, GraphTypes', SendsWell(h), FrameOK(h, frame'[h])
    PROVE  IInv'
  <1>1. PICK g \in Handler, n \in Msg : Sends(h, g, n) /\ MsgOK(g, n) /\ Asks(h, g, n)'
    BY DEF SendsWell
  <1>2. /\ queue' \in [Handler -> Seq(Msg)]
        /\ Held(g)' = Held(g) \cup {n}
        /\ \A x \in Handler \ {g} : Held(x)' = Held(x) /\ queue'[x] = queue[x]
        /\ queue'[g] = Append(queue[g], n)
    BY <1>1, SendsHeld DEF IInv
  <1>3. n.caller = h /\ \A x \in Handler : \A m \in Held(x) : m.caller # h
    BY <1>1, OnlyWaitersAsk DEF IInv, Sends
  <1>4. \A x \in Handler : \A m \in Held(x)' : m \in Held(x) \/ (x = g /\ m = n)
    BY <1>2
  <1>5. TypeOK'
    BY <1>1, <1>2 DEF IInv, TypeOK, GraphTypes, Sends
  <1>6. WellFormed'
    BY <1>1, <1>4 DEF IInv, WellFormed, Sends
  <1>7. Served'
    <2> SUFFICES ASSUME NEW x \in Handler, NEW m \in Held(x)'
                 PROVE  /\ m.caller \in Client => Calling(m.caller, x, m)'
                        /\ m.caller \in Handler => Asks(m.caller, x, m)'
      BY DEF Served
    <2>1. CASE m = n /\ x = g
      BY <1>1, <1>3, <2>1
    <2>2. CASE m \in Held(x)
      <3>1. m.caller \in Client => Calling(m.caller, x, m)'
        BY <1>1, <2>2 DEF IInv, Served, Calling, Sends
      <3>2. ASSUME m.caller \in Handler PROVE frame'[m.caller] = frame[m.caller]
        BY <1>1, <1>3, <2>2, <3>2 DEF Sends
      <3>3. m.caller \in Handler => Asks(m.caller, x, m)'
        BY <2>2, <3>2, AsksStays DEF IInv, Served
      <3> QED
        BY <3>1, <3>3
    <2> QED
      BY <1>4, <2>1, <2>2
  <1>8. Once'
    <2>1. \A x, y \in Handler : \A m \in Held(x)', k \in Held(y)' :
             m.caller = k.caller => x = y /\ m = k
      BY <1>3, <1>4 DEF IInv, Once
    <2>2. n \notin Held(g)
      BY <1>3
    <2>3. queue[g] \in Seq(Msg)
      BY DEF IInv, TypeOK
    <2>4. n \notin Elements(queue[g])
      BY <2>2 DEF Held
    <2>5. \A i, j \in 1 .. Len(queue[g]) : queue[g][i] = queue[g][j] => i = j
      BY DEF IInv, Once
    <2>6. /\ Elements(queue'[g]) = Elements(queue[g]) \cup {n}
          /\ \A i, j \in 1 .. Len(queue'[g]) : queue'[g][i] = queue'[g][j] => i = j
      BY <1>1, <1>2, <2>3, <2>4, <2>5, AppendElements DEF Sends
    <2>7. \A x \in Handler : \A i, j \in 1 .. Len(queue'[x]) :
             queue'[x][i] = queue'[x][j] => i = j
      BY <1>2, <2>6 DEF IInv, Once
    <2>8. ASSUME NEW x \in Handler, frame'[x] # None
          PROVE  frame'[x].msg \notin Elements(queue'[x])
      <3>1. frame[x] # None /\ frame'[x].msg = frame[x].msg
        BY <1>1, <2>8 DEF Sends
      <3>2. frame[x].msg \notin Elements(queue[x]) /\ frame[x].msg \in Held(x)
        BY <3>1 DEF IInv, Once, Held
      <3> QED
        BY <1>2, <2>2, <2>6, <3>1, <3>2
    <2> QED
      BY <2>1, <2>7, <2>8 DEF Once, Elements
  <1> QED
    BY <1>5, <1>6, <1>7, <1>8 DEF IInv

\* The begin of a message keeps it.
LEMMA BeginIInv ==
    ASSUME IInv, NEW h \in Handler, HandleBegin(h)
    PROVE  IInv'
  <1>1. /\ frame[h] = None
        /\ frame' \in [Handler -> Frame \cup {None}] /\ queue' \in [Handler -> Seq(Msg)]
        /\ UNCHANGED <<graph, client>>
        /\ \A x \in Handler : Held(x)' = Held(x)
        /\ \A x \in Handler \ {h} : frame'[x] = frame[x] /\ queue'[x] = queue[x]
        /\ FrameOK(h, frame'[h])
        /\ frame'[h].msg \notin Elements(queue'[h])
        /\ \A i, j \in 1 .. Len(queue'[h]) : queue'[h][i] = queue'[h][j] => i = j
    BY BeginEffect DEF IInv
  <1>2. TypeOK'
    BY <1>1 DEF IInv, TypeOK, graph, links
  <1>3. WellFormed'
    BY <1>1 DEF IInv, WellFormed
  <1>4. \A x \in Handler : \A m \in Held(x) : m.caller # h
    BY <1>1, OnlyWaitersAsk DEF IInv
  <1>5. Served'
    <2> SUFFICES ASSUME NEW x \in Handler, NEW m \in Held(x)
                 PROVE  /\ m.caller \in Client => Calling(m.caller, x, m)'
                        /\ m.caller \in Handler => Asks(m.caller, x, m)'
      BY <1>1 DEF Served
    <2>1. m.caller \in Client => Calling(m.caller, x, m)'
      BY <1>1 DEF IInv, Served, Calling
    <2>2. ASSUME m.caller \in Handler PROVE frame'[m.caller] = frame[m.caller]
      BY <1>1, <1>4, <2>2
    <2>3. m.caller \in Handler => Asks(m.caller, x, m)'
      BY <2>2, AsksStays DEF IInv, Served
    <2> QED
      BY <2>1, <2>3
  <1>6. Once'
    <2>1. \A x, y \in Handler : \A m \in Held(x)', k \in Held(y)' :
             m.caller = k.caller => x = y /\ m = k
      BY <1>1 DEF IInv, Once
    <2>2. \A x \in Handler : \A i, j \in 1 .. Len(queue'[x]) :
             queue'[x][i] = queue'[x][j] => i = j
      BY <1>1 DEF IInv, Once
    <2>3. \A x \in Handler : frame'[x] # None => frame'[x].msg \notin Elements(queue'[x])
      BY <1>1 DEF IInv, Once
    <2> QED
      BY <2>1, <2>2, <2>3 DEF Once, Elements
  <1> QED
    BY <1>2, <1>3, <1>5, <1>6 DEF IInv

\* An answer keeps it.
LEMMA ReplyIInv ==
    ASSUME IInv, NEW h \in Handler, Reply(h)
    PROVE  IInv'
  <1> DEFINE m == frame[h].msg
  <1>1. /\ frame[h] # None /\ frame[h].pc = "reply" /\ m \in Held(h)
        /\ frame' \in [Handler -> Frame \cup {None}] /\ frame'[h] = None
        /\ UNCHANGED <<graph, queue>>
        /\ Held(h)' = Held(h) \ {m}
        /\ \A x \in Handler \ {h} : Held(x)' = Held(x)
        /\ AnswersHandler(h, m.caller) \/ AnswersClient(h, m.caller)
    BY ReplyEffect
  <1>2. \A x \in Handler : \A k \in Held(x)' : k \in Held(x) /\ (k # m \/ x # h)
    BY <1>1
  <1>3. client' \in [Client -> Call \cup {None}]
    BY <1>1 DEF AnswersHandler, AnswersClient, IInv, TypeOK
  <1>4. TypeOK'
    BY <1>1, <1>3 DEF IInv, TypeOK, graph, links
  <1>5. \A x \in Handler : frame'[x] # None => FrameOK(x, frame'[x])
    BY <1>1 DEF IInv, WellFormed, AnswersHandler, AnswersClient
  <1>6. WellFormed'
    BY <1>2, <1>5 DEF IInv, WellFormed
  <1>7. \A x \in Handler : \A k \in Held(x)' : k.caller # m.caller /\ k.caller # h
    <2>1. \A x \in Handler : \A k \in Held(x)' : k.caller # m.caller
      BY <1>1, <1>2 DEF IInv, Once
    <2>2. \A x \in Handler : \A k \in Held(x) : k.caller # h
      BY <1>1, OnlyWaitersAsk DEF IInv
    <2> QED
      BY <1>2, <2>1, <2>2
  <1>8. Served'
    <2> SUFFICES ASSUME NEW x \in Handler, NEW k \in Held(x)'
                 PROVE  /\ k.caller \in Client => Calling(k.caller, x, k)'
                        /\ k.caller \in Handler => Asks(k.caller, x, k)'
      BY DEF Served
    <2>1. k \in Held(x) /\ k.caller # m.caller /\ k.caller # h
      BY <1>2, <1>7
    <2>2. ASSUME k.caller \in Client PROVE Calling(k.caller, x, k)'
      <3>1. Calling(k.caller, x, k)
        BY <2>1, <2>2 DEF IInv, Served
      <3>2. client'[k.caller] = client[k.caller]
        BY <1>1, <2>1, <2>2 DEF AnswersHandler, AnswersClient, IInv, TypeOK
      <3> QED
        BY <3>1, <3>2 DEF Calling
    <2>3. ASSUME k.caller \in Handler PROVE Asks(k.caller, x, k)'
      <3>1. frame'[k.caller] = frame[k.caller]
        BY <1>1, <2>1, <2>3 DEF AnswersHandler, AnswersClient
      <3> QED
        BY <2>1, <2>3, <3>1, AsksStays DEF IInv, Served
    <2> QED
      BY <2>2, <2>3
  <1>9. Once'
    <2>1. \A x, y \in Handler : \A j \in Held(x)', k \in Held(y)' :
             j.caller = k.caller => x = y /\ j = k
      BY <1>2 DEF IInv, Once
    <2>2. \A x \in Handler : \A i, j \in 1 .. Len(queue'[x]) :
             queue'[x][i] = queue'[x][j] => i = j
      BY <1>1 DEF IInv, Once
    <2>3. \A x \in Handler : frame'[x] # None => frame[x] # None /\ frame'[x].msg = frame[x].msg
      BY <1>1 DEF AnswersHandler, AnswersClient, Asks, AsksAs
    <2>4. \A x \in Handler : frame'[x] # None => frame'[x].msg \notin Elements(queue'[x])
      BY <1>1, <2>3 DEF IInv, Once
    <2> QED
      BY <2>1, <2>2, <2>4 DEF Once, Elements
  <1> QED
    BY <1>4, <1>6, <1>8, <1>9 DEF IInv

\* A call keeps it.
LEMMA CallIInv ==
    ASSUME IInv, NEW c \in Client, NEW call \in Calls[c], ClientCall(c, call)
    PROVE  IInv'
  <1>1. PICK g \in Handler, n \in Msg :
             /\ client[c] = None /\ client' = [client EXCEPT ![c] = call]
             /\ client' \in [Client -> Call \cup {None}]
             /\ n.caller = c /\ MsgOK(g, n) /\ Calling(c, g, n)'
             /\ queue' = [queue EXCEPT ![g] = Append(@, n)]
             /\ queue' \in [Handler -> Seq(Msg)]
             /\ \A x \in Handler \ {g} : queue'[x] = queue[x]
             /\ queue'[g] = Append(queue[g], n)
             /\ Held(g)' = Held(g) \cup {n}
             /\ \A x \in Handler \ {g} : Held(x)' = Held(x)
             /\ UNCHANGED <<graph, frame>>
    BY CallEffect
  <1>2. \A x \in Handler : \A m \in Held(x)' : m \in Held(x) \/ (x = g /\ m = n)
    BY <1>1
  <1>3. TypeOK'
    BY <1>1 DEF IInv, TypeOK, graph, links
  <1>4. WellFormed'
    BY <1>1, <1>2 DEF IInv, WellFormed
  <1>5. \A x \in Handler : \A m \in Held(x) : m.caller # c
    BY <1>1 DEF IInv, Served, Calling
  <1>6. Served'
    <2> SUFFICES ASSUME NEW x \in Handler, NEW m \in Held(x)'
                 PROVE  /\ m.caller \in Client => Calling(m.caller, x, m)'
                        /\ m.caller \in Handler => Asks(m.caller, x, m)'
      BY DEF Served
    <2>1. CASE m = n /\ x = g
      BY <1>1, <2>1
    <2>2. CASE m \in Held(x)
      <3>1. ASSUME m.caller \in Client PROVE Calling(m.caller, x, m)'
        <4>1. Calling(m.caller, x, m) /\ m.caller # c
          BY <1>5, <2>2, <3>1 DEF IInv, Served
        <4>2. client'[m.caller] = client[m.caller]
          BY <1>1, <3>1, <4>1 DEF IInv, TypeOK
        <4> QED
          BY <4>1, <4>2 DEF Calling
      <3>2. m.caller \in Handler => Asks(m.caller, x, m)'
        BY <1>1, <2>2, AsksStays DEF IInv, Served
      <3> QED
        BY <3>1, <3>2
    <2> QED
      BY <1>2, <2>1, <2>2
  <1>7. Once'
    <2>1. \A x, y \in Handler : \A m \in Held(x)', k \in Held(y)' :
             m.caller = k.caller => x = y /\ m = k
      BY <1>1, <1>2, <1>5 DEF IInv, Once
    <2>2. n \notin Held(g)
      BY <1>1, <1>5
    <2>3. queue[g] \in Seq(Msg)
      BY DEF IInv, TypeOK
    <2>4. n \notin Elements(queue[g])
      BY <2>2 DEF Held
    <2>5. \A i, j \in 1 .. Len(queue[g]) : queue[g][i] = queue[g][j] => i = j
      BY DEF IInv, Once
    <2>6. /\ Elements(queue'[g]) = Elements(queue[g]) \cup {n}
          /\ \A i, j \in 1 .. Len(queue'[g]) : queue'[g][i] = queue'[g][j] => i = j
      BY <1>1, <2>3, <2>4, <2>5, AppendElements
    <2>7. \A x \in Handler : \A i, j \in 1 .. Len(queue'[x]) :
             queue'[x][i] = queue'[x][j] => i = j
      BY <1>1, <2>6 DEF IInv, Once
    <2>8. ASSUME NEW x \in Handler, frame'[x] # None
          PROVE  frame'[x].msg \notin Elements(queue'[x])
      <3>1. frame[x] # None /\ frame'[x].msg = frame[x].msg
        BY <1>1, <2>8
      <3>2. frame[x].msg \notin Elements(queue[x]) /\ frame[x].msg \in Held(x)
        BY <3>1 DEF IInv, Once, Held
      <3> QED
        BY <1>1, <2>2, <2>6, <3>1, <3>2
    <2> QED
      BY <2>1, <2>7, <2>8 DEF Once, Elements
  <1> QED
    BY <1>3, <1>4, <1>6, <1>7 DEF IInv

\* What a handler does between the answers to its requests.
LEMMA ExecuteEffect ==
    ASSUME IInv, NEW h \in Handler, LinkStep(h) \/ VertexStep(h)
    PROVE  GraphTypes' /\ (Moves(h) \/ SendsWell(h)) /\ FrameOK(h, frame'[h])
  <1>1. TypeOK /\ WellFormed
    BY DEF IInv
  <1>2. CASE CreateStart(h) \/ UpdateStart(h) \/ VertexStart(h) \/ RequestIn(h) \/ RequestDelete(h)
    BY <1>1, <1>2, StartOK
  <1>3. CASE \/ ChooseName(h) \/ ReadGen(h) \/ WriteGen(h) \/ SetName(h)
             \/ SetIndex(h) \/ SetBody(h) \/ SetTags(h)
    BY <1>1, <1>3, NamingOK
  <1>4. CASE \/ InLink(h) \/ DeleteStart(h) \/ ReadBody(h)
             \/ DropBody(h) \/ DropName(h) \/ DropIndex(h) \/ DropTags(h)
    BY <1>1, <1>4, DroppingOK
  <1>5. CASE SetVertex(h) \/ ListOut(h) \/ ListIn(h) \/ DropGen(h) \/ DropVertex(h)
    BY <1>1, <1>5, VertexOK
  <1> QED
    BY <1>2, <1>3, <1>4, <1>5 DEF LinkStep, VertexStep

\* Every step keeps it.
LEMMA NextIInv == IInv /\ [Next]_vars => IInv'
  <1> SUFFICES ASSUME IInv, [Next]_vars PROVE IInv'
    OBVIOUS
  <1>1. ASSUME NEW c \in Client, NEW call \in Calls[c], ClientCall(c, call) PROVE IInv'
    BY <1>1, CallIInv
  <1>2. ASSUME NEW h \in Handler, HandlerStep(h) PROVE IInv'
    <2>1. CASE HandleBegin(h)
      BY <2>1, BeginIInv
    <2>2. CASE Reply(h)
      BY <2>2, ReplyIInv
    <2>3. CASE LinkStep(h) \/ VertexStep(h)
      BY <2>3, ExecuteEffect, MovesIInv, SendsIInv
    <2> QED
      BY <1>2, <2>1, <2>2, <2>3 DEF HandlerStep, Execute
  <1>3. CASE UNCHANGED vars
    <2>1. /\ UNCHANGED <<vertex, body, outName, outIndex, inLink, nameGen>>
          /\ UNCHANGED <<queue, frame, client>>
      BY <1>3 DEF vars, graph, links
    <2>2. \A h \in Handler : Held(h)' = Held(h)
      BY <2>1 DEF Held, Elements
    <2>3. TypeOK'
      BY <2>1 DEF IInv, TypeOK
    <2>4. WellFormed'
      BY <2>1, <2>2 DEF IInv, WellFormed
    <2>5. Served'
      <3> SUFFICES ASSUME NEW x \in Handler, NEW m \in Held(x)
                   PROVE  /\ m.caller \in Client => Calling(m.caller, x, m)'
                          /\ m.caller \in Handler => Asks(m.caller, x, m)'
        BY <2>2 DEF Served
      <3>1. m.caller \in Client => Calling(m.caller, x, m)'
        BY <2>1 DEF IInv, Served, Calling
      <3>2. m.caller \in Handler => Asks(m.caller, x, m)'
        BY <2>1, AsksStays DEF IInv, Served
      <3> QED
        BY <3>1, <3>2
    <2>6. Once'
      BY <2>1, <2>2 DEF IInv, Once, Elements
    <2> QED
      BY <2>3, <2>4, <2>5, <2>6 DEF IInv
  <1> QED
    BY <1>1, <1>2, <1>3 DEF Next

\* The state of the low level functions stays well typed: a link is written with
\* a name, and every answer finds a handler that goes on at the step it was
\* asked from, for any calls, also ones that change the same links.
THEOREM TypeCorrect == Spec => []TypeOK
  <1>1. IInv => TypeOK
    BY DEF IInv
  <1> QED
    BY <1>1, InitIInv, NextIInv, PTL DEF Spec
-----------------------------------------------------------------------------
(* The client that a message comes from in the end *)

\* What the handler executes that has sent m.
Above(m) == frame[m.caller].msg

\* Linking and unlinking, or vertices: no more than four handlers wait in a row.
Root(m) ==
    IF m.caller \in Client THEN m.caller
    ELSE IF Above(m).caller \in Client THEN Above(m).caller
    ELSE IF Above(Above(m)).caller \in Client THEN Above(Above(m)).caller
    ELSE Above(Above(Above(m))).caller

\* g executes n and waits for m, or for somebody who does.
Ancestor(m, g, n) ==
    /\ m.caller \in Handler
    /\ \/ g = m.caller /\ n = Above(m)
       \/ /\ Above(m).caller \in Handler
          /\ \/ g = Above(m).caller /\ n = Above(Above(m))
             \/ /\ Above(Above(m)).caller \in Handler
                /\ g = Above(Above(m)).caller /\ n = Above(Above(Above(m)))

\* Who has asked for m waits for it, and is asked by another handler or a client.
LEMMA AboveWaits ==
    ASSUME IInv, NEW h \in Handler, NEW m \in Held(h)
    PROVE  /\ MsgOK(h, m) /\ m.caller \in Client \cup Handler
           /\ m.caller \in Client => m.caller \notin Handler /\ ~m.in
           /\ m.caller \in Handler =>
                 /\ m.caller \notin Client
                 /\ frame[m.caller] # None /\ frame[m.caller].pc = "await"
                 /\ Above(m) \in Held(m.caller) /\ Asks(m.caller, h, m)
                 /\ ~Above(m).in
  <1>1. MsgOK(h, m) /\ m.caller \in Client \cup Handler
    BY DEF IInv, WellFormed, MsgOK, Msg
  <1>2. m.caller \in Client => m.caller \notin Handler /\ ~m.in
    BY DEF IInv, Served, Calling
  <1>3. ASSUME m.caller \in Handler
        PROVE  /\ m.caller \notin Client
               /\ frame[m.caller] # None /\ frame[m.caller].pc = "await"
               /\ Above(m) \in Held(m.caller) /\ Asks(m.caller, h, m)
               /\ ~Above(m).in
    <2>1. Asks(m.caller, h, m)
      BY <1>3 DEF IInv, Served
    <2>2. frame[m.caller] # None /\ frame[m.caller].pc = "await" /\ ~Above(m).in
      BY <2>1 DEF Asks, AsksAs, Above
    <2> QED
      BY <1>3, <2>1, <2>2 DEF Held, Above
  <1> QED
    BY <1>1, <1>2, <1>3

\* Who may have sent what.
LEMMA AskKinds ==
    ASSUME NEW f, NEW g, NEW h, NEW m, AsksAs(f, g, h, m)
    PROVE  \/ g[1] = "linkCreate" /\ h[1] = "linkDelete" /\ m.link = f.msg.link /\ ~m.in
           \/ g[1] \in {"linkCreate", "linkDelete"} /\ h[1] = g[1] /\ m.link = f.msg.link /\ m.in
           \/ g[1] = "linkUpdate" /\ h[1] = "linkCreate" /\ m.link = f.msg.link /\ ~m.in
           \/ /\ g[1] = "vertexCreate" /\ h[1] = "vertexDelete" /\ h[2] = g[2] /\ m.link = None
              /\ ~m.in
           \/ /\ g[1] = "vertexDelete" /\ h[1] = "linkDelete" /\ m.link \in Link /\ ~m.in
              /\ g[2] \in {m.link.from, m.link.to}
  <1> DEFINE a == f.msg
  <1>1. \/ g[1] = "linkCreate" /\ h = <<"linkDelete", g[2], FALSE>> /\ m.link = a.link /\ ~m.in
        \/ /\ g[1] \in {"linkCreate", "linkDelete"} /\ m.link = a.link /\ m.in
           /\ h = <<g[1], a.link.to, a.link.to = a.link.from>>
        \/ g[1] = "linkUpdate" /\ h = <<"linkCreate", g[2], FALSE>> /\ m.link = a.link /\ ~m.in
        \/ /\ g[1] = "vertexCreate" /\ h = <<"vertexDelete", g[2], FALSE>> /\ m.link = None
           /\ ~m.in
        \/ /\ g[1] = "vertexDelete" /\ h = <<"linkDelete", m.link.from, FALSE>>
           /\ m.link \in Link /\ ~m.in /\ g[2] \in {m.link.from, m.link.to}
    BY Zenon DEF AsksAs
  <1> HIDE DEF a
  <1>2. CASE g[1] \in {"linkCreate", "linkDelete"} /\ m.link = a.link /\ m.in
             /\ h = <<g[1], a.link.to, a.link.to = a.link.from>>
    <2>1. h[1] = g[1]
      BY <1>2
    <2> QED
      BY <1>2, <2>1 DEF a
  <1>3. CASE g[1] = "linkCreate" /\ h = <<"linkDelete", g[2], FALSE>> /\ m.link = a.link /\ ~m.in
    BY <1>3 DEF a
  <1>4. CASE g[1] = "linkUpdate" /\ h = <<"linkCreate", g[2], FALSE>> /\ m.link = a.link /\ ~m.in
    BY <1>4 DEF a
  <1>5. CASE g[1] = "vertexCreate" /\ h = <<"vertexDelete", g[2], FALSE>> /\ m.link = None
             /\ ~m.in
    BY <1>5
  <1>6. CASE g[1] = "vertexDelete" /\ h = <<"linkDelete", m.link.from, FALSE>>
             /\ m.link \in Link /\ ~m.in /\ g[2] \in {m.link.from, m.link.to}
    BY <1>6
  <1> QED
    BY <1>1, <1>2, <1>3, <1>4, <1>5, <1>6

\* What a handler is asked for tells who asks.
LEMMA SentBy ==
    ASSUME IInv, NEW h \in Handler, NEW m \in Held(h), m.caller \in Handler
    PROVE  LET g == m.caller IN
           /\ m.in => g[1] = h[1] /\ g[1] \in {"linkCreate", "linkDelete"}
           /\ h[1] = "vertexDelete" => g[1] = "vertexCreate"
           /\ h[1] = "linkCreate" /\ ~m.in => g[1] = "linkUpdate"
           /\ h[1] = "linkDelete" /\ ~m.in => g[1] \in {"linkCreate", "vertexDelete"}
           /\ h[1] \notin {"linkUpdate", "vertexCreate", "vertexUpdate"}
           /\ g[1] \in LinkFunction => Above(m).link = m.link /\ h[1] \in LinkFunction
           /\ g[1] = "vertexCreate" => h[2] = g[2] /\ m.link = None /\ h[1] = "vertexDelete"
           /\ g[1] = "vertexDelete" =>
                 m.link \in Link /\ g[2] \in {m.link.from, m.link.to} /\ h[1] = "linkDelete" /\ ~m.in
           /\ g[1] \notin {"vertexUpdate"}
  <1> DEFINE g == m.caller
  <1>1. AsksAs(frame[g], g, h, m)
    BY AboveWaits DEF Asks
  <1>2. \/ g[1] = "linkCreate" /\ h[1] = "linkDelete" /\ m.link = Above(m).link /\ ~m.in
        \/ g[1] \in {"linkCreate", "linkDelete"} /\ h[1] = g[1] /\ m.link = Above(m).link /\ m.in
        \/ g[1] = "linkUpdate" /\ h[1] = "linkCreate" /\ m.link = Above(m).link /\ ~m.in
        \/ g[1] = "vertexCreate" /\ h[1] = "vertexDelete" /\ h[2] = g[2] /\ m.link = None /\ ~m.in
        \/ /\ g[1] = "vertexDelete" /\ h[1] = "linkDelete" /\ m.link \in Link /\ ~m.in
           /\ g[2] \in {m.link.from, m.link.to}
    BY <1>1, AskKinds DEF Above
  <1> QED
    BY <1>2 DEF LinkFunction

\* How many handlers wait in a row.
LEMMA Depth ==
    ASSUME IInv, NEW h \in Handler, NEW m \in Held(h)
    PROVE  /\ h[1] \in {"linkUpdate", "vertexCreate", "vertexUpdate"} => m.caller \in Client
           /\ ~m.in /\ h[1] # "linkDelete" /\ m.caller \notin Client => Above(m).caller \in Client
           /\ ~m.in /\ m.caller \notin Client /\ Above(m).caller \notin Client
                 => Above(Above(m)).caller \in Client
           /\ m.caller \notin Client /\ Above(m).caller \notin Client
              /\ Above(Above(m)).caller \notin Client
                 => m.in /\ Above(Above(Above(m))).caller \in Client
           /\ Root(m) \in Client
  <1>1. ASSUME NEW x \in Handler, NEW n \in Held(x),
               x[1] \in {"linkUpdate", "vertexCreate", "vertexUpdate"}
        PROVE  n.caller \in Client
    BY <1>1, AboveWaits, SentBy
  <1>2. ASSUME NEW x \in Handler, NEW n \in Held(x), ~n.in, x[1] # "linkDelete",
               n.caller \notin Client
        PROVE  Above(n).caller \in Client
    <2>1. n.caller \in Handler /\ Above(n) \in Held(n.caller)
      BY <1>2, AboveWaits
    <2>2. x[1] \in LinkFunction \cup VertexFunction
      BY DEF Handler, LinkFunction, VertexFunction
    <2>3. n.caller[1] \in {"linkUpdate", "vertexCreate"}
      BY <1>2, <2>1, <2>2, SentBy DEF LinkFunction, VertexFunction
    <2> QED
      BY <1>1, <2>1, <2>3
  <1>3. ASSUME NEW x \in Handler, NEW n \in Held(x), ~n.in,
               n.caller \notin Client, Above(n).caller \notin Client
        PROVE  Above(Above(n)).caller \in Client
    <2>1. n.caller \in Handler /\ Above(n) \in Held(n.caller) /\ ~Above(n).in
      BY <1>3, AboveWaits
    <2>2. x[1] = "linkDelete"
      BY <1>2, <1>3
    <2>3. n.caller[1] \in {"linkCreate", "vertexDelete"}
      BY <1>3, <2>1, <2>2, SentBy
    <2> QED
      BY <1>2, <1>3, <2>1, <2>3
  <1>4. ASSUME m.caller \notin Client, Above(m).caller \notin Client,
               Above(Above(m)).caller \notin Client
        PROVE  m.in /\ Above(Above(Above(m))).caller \in Client
    <2>1. m.caller \in Handler /\ Above(m) \in Held(m.caller) /\ ~Above(m).in
      BY <1>4, AboveWaits
    <2>2. m.in \in BOOLEAN
      BY AboveWaits DEF MsgOK, Msg
    <2> QED
      BY <1>3, <1>4, <2>1, <2>2
  <1>5. Root(m) \in Client
    BY <1>4 DEF Root
  <1> QED
    BY <1>1, <1>2, <1>3, <1>4, <1>5

\* Whoever waits goes on executing the same message.
WaitersKeep == \A x \in Handler : frame[x] # None /\ frame[x].pc = "await" =>
    frame'[x] # None /\ frame'[x].msg = frame[x].msg

\* The client that a message is for stays the same.
LEMMA RootStays ==
    ASSUME IInv, WaitersKeep, NEW h \in Handler, NEW m \in Held(h)
    PROVE  /\ Root(m)' = Root(m)
           /\ \A g, n : Ancestor(m, g, n)' <=> Ancestor(m, g, n)
           /\ m.caller \in Handler => Above(m)' = Above(m)
  <1>1. ASSUME NEW x \in Handler, NEW n \in Held(x), n.caller \in Handler
        PROVE  Above(n) \in Held(n.caller) /\ frame'[n.caller].msg = frame[n.caller].msg
    BY <1>1, AboveWaits DEF WaitersKeep
  <1>2. m.caller \in Client \cup Handler /\ (m.caller \in Client => m.caller \notin Handler)
    BY AboveWaits
  <1>3. CASE m.caller \in Client
    BY <1>2, <1>3 DEF Root, Ancestor
  <1>4. CASE m.caller \in Handler
    <2> DEFINE a == Above(m)
    <2>1. Above(m)' = a /\ a \in Held(m.caller) /\ m.caller \notin Client
      BY <1>1, <1>4, AboveWaits DEF Above
    <2>2. a.caller \in Client \cup Handler /\ (a.caller \in Client => a.caller \notin Handler)
      BY <1>4, <2>1, AboveWaits
    <2>3. CASE a.caller \in Client
      BY <1>4, <2>1, <2>2, <2>3 DEF Root, Ancestor
    <2>4. CASE a.caller \in Handler
      <3> DEFINE b == Above(a)
      <3>1. frame'[a.caller].msg = b /\ b \in Held(a.caller) /\ a.caller \notin Client
        BY <1>1, <1>4, <2>1, <2>4, AboveWaits DEF Above
      <3>2. b.caller \in Client \cup Handler /\ (b.caller \in Client => b.caller \notin Handler)
        BY <2>4, <3>1, AboveWaits
      <3>3. Above(Above(m))' = b
        BY <2>1, <3>1 DEF Above
      <3>4. CASE b.caller \in Client
        <4>1. Root(m)' = Root(m)
          BY <1>4, <2>1, <2>4, <3>1, <3>3, <3>4 DEF Root
        <4>2. \A g, n : Ancestor(m, g, n)' <=> Ancestor(m, g, n)
          BY <1>4, <2>1, <2>4, <3>1, <3>2, <3>3, <3>4 DEF Ancestor
        <4> QED
          BY <2>1, <4>1, <4>2
      <3>5. CASE b.caller \in Handler
        <4>1. frame'[b.caller].msg = Above(b) /\ b.caller \notin Client
          <5>1. a.caller \in Handler /\ b \in Held(a.caller) /\ b.caller \in Handler
            BY <2>4, <3>1, <3>5
          <5>2. frame'[b.caller].msg = frame[b.caller].msg
            BY <1>1, <5>1
          <5> QED
            BY <5>1, <5>2 DEF Above
        <4>2. Above(Above(Above(m)))' = Above(b)
          BY <3>3, <4>1 DEF Above
        <4> QED
          BY <1>4, <2>1, <2>4, <3>1, <3>3, <3>5, <4>1, <4>2 DEF Root, Ancestor
      <3> QED
        BY <3>2, <3>4, <3>5
    <2> QED
      BY <2>2, <2>3, <2>4
  <1> QED
    BY <1>2, <1>3, <1>4

\* The client that a request is for is that of the message it is made for.
LEMMA RootOfNew ==
    ASSUME IInv, WaitersKeep, NEW h \in Handler, NEW m \in Held(h), ~m.in,
           NEW n, n.caller = h, frame'[h].msg = m
    PROVE  /\ Root(n)' = Root(m)
           /\ \A g, k : (g = h /\ k = m) \/ Ancestor(m, g, k) => Ancestor(n, g, k)'
  <1>1. ASSUME NEW x \in Handler, NEW k \in Held(x), k.caller \in Handler
        PROVE  Above(k) \in Held(k.caller) /\ frame'[k.caller].msg = frame[k.caller].msg
    BY <1>1, AboveWaits DEF WaitersKeep
  <1>2. /\ m.caller \in Client \cup Handler /\ (m.caller \in Client => m.caller \notin Handler)
        /\ n.caller \in Handler /\ n.caller \notin Client
    BY AboveWaits
  <1>3. Above(n)' = m
    BY DEF Above
  <1>4. CASE m.caller \in Client
    BY <1>2, <1>3, <1>4 DEF Root, Ancestor
  <1>5. CASE m.caller \in Handler
    <2> DEFINE a == Above(m)
    <2>1. frame'[m.caller].msg = a /\ a \in Held(m.caller) /\ m.caller \notin Client
      BY <1>1, <1>5, AboveWaits DEF Above
    <2>2. a.caller \in Client \cup Handler /\ (a.caller \in Client => a.caller \notin Handler)
      BY <1>5, <2>1, AboveWaits
    <2>3. Above(Above(n))' = a
      BY <1>3, <2>1 DEF Above
    <2>4. CASE a.caller \in Client
      BY <1>2, <1>3, <1>5, <2>1, <2>2, <2>3, <2>4 DEF Root, Ancestor
    <2>5. CASE a.caller \in Handler
      <3> DEFINE b == Above(a)
      <3>1. frame'[a.caller].msg = b /\ b \in Held(a.caller) /\ a.caller \notin Client
        BY <1>1, <1>5, <2>1, <2>5, AboveWaits DEF Above
      <3>2. b.caller \in Client /\ b.caller \notin Handler
        BY <2>1, <2>5, <3>1, AboveWaits, Depth
      <3>3. Above(Above(Above(n)))' = b
        BY <2>3, <3>1 DEF Above
      <3> QED
        BY <1>2, <1>3, <1>5, <2>1, <2>3, <2>5, <3>1, <3>2, <3>3 DEF Root, Ancestor
    <2> QED
      BY <2>2, <2>4, <2>5
  <1> QED
    BY <1>2, <1>4, <1>5

\* A message is for the client that the message above it is for.
LEMMA RootOfAbove ==
    ASSUME IInv, NEW h \in Handler, NEW m \in Held(h), m.caller \in Handler
    PROVE  /\ Root(Above(m)) = Root(m) /\ Above(m) \in Held(m.caller)
           /\ \A g, k : Ancestor(m, g, k) =>
                 (g = m.caller /\ k = Above(m)) \/ Ancestor(Above(m), g, k)
  <1>1. m.caller \notin Client /\ Above(m) \in Held(m.caller) /\ Root(m) \in Client
    BY AboveWaits, Depth
  <1> QED
    BY <1>1 DEF Root, Ancestor

\* When nobody new works for a client, the others stay in line.
Line == \A h, g \in Handler : \A m \in Held(h), n \in Held(g) :
    Active(h, m) /\ Root(m) = Root(n) => (h = g /\ m = n) \/ Ancestor(m, g, n)

\* What h is asked serves the call.
Within(h, m, call) ==
    /\ m.link # None => m.link \in Footprint(call)
    /\ h[1] \in VertexFunction => call.handler[1] \in VertexFunction /\ call.handler[2] = h[2]
    /\ h[1] \in {"vertexCreate", "vertexDelete"} => call.handler[1] # "vertexUpdate"
    /\ Puts(h) => call.handler[1] \in {"linkCreate", "linkUpdate"}
    /\ h[1] = "linkUpdate" => call.handler[1] = "linkUpdate"
Serving == \A h \in Handler : \A m \in Held(h) :
    client[Root(m)] \in Calls[Root(m)] /\ Within(h, m, client[Root(m)])

\* A step that gives nobody a message keeps messages in line.
LEMMA QuietChains ==
    ASSUME IInv, Line, Serving, WaitersKeep, UNCHANGED client,
           \A x \in Handler : Held(x)' = Held(x),
           \A x \in Handler : \A m \in Held(x) : Active(x, m)' => Active(x, m)
    PROVE  Line' /\ Serving'
  <1>1. Line'
    BY RootStays DEF Line
  <1>2. Serving'
    BY RootStays DEF Serving
  <1> QED
    BY <1>1, <1>2

\* Who waits for m, or for somebody who does, waits.
LEMMA AncestorWaits ==
    ASSUME IInv, NEW h \in Handler, NEW m \in Held(h), NEW g, NEW n, Ancestor(m, g, n)
    PROVE  /\ g \in Handler /\ n \in Held(g) /\ frame[g] # None /\ frame[g].msg = n
           /\ frame[g].pc = "await"
  <1>1. ASSUME NEW x \in Handler, NEW k \in Held(x), k.caller \in Handler
        PROVE  /\ Above(k) \in Held(k.caller) /\ frame[k.caller] # None
               /\ frame[k.caller].msg = Above(k) /\ frame[k.caller].pc = "await"
    BY <1>1, AboveWaits DEF Above
  <1>2. CASE g = m.caller /\ n = Above(m) /\ m.caller \in Handler
    BY <1>1, <1>2
  <1>3. CASE m.caller \in Handler /\ Above(m).caller \in Handler
             /\ g = Above(m).caller /\ n = Above(Above(m))
    BY <1>1, <1>3
  <1>4. CASE /\ m.caller \in Handler /\ Above(m).caller \in Handler
             /\ Above(Above(m)).caller \in Handler
             /\ g = Above(Above(m)).caller /\ n = Above(Above(Above(m)))
    BY <1>1, <1>4
  <1> QED
    BY <1>2, <1>3, <1>4 DEF Ancestor

\* A step of h by itself keeps messages in line.
LEMMA MovesChains ==
    ASSUME IInv, Line, Serving, NEW h \in Handler, Moves(h)
    PROVE  Line' /\ Serving'
  <1>1. \A x \in Handler : Held(x)' = Held(x)
    BY MovesHeld DEF IInv
  <1>2. WaitersKeep
    BY DEF WaitersKeep, Moves
  <1>3. \A x \in Handler : \A m \in Held(x) : Active(x, m)' => Active(x, m)
    BY DEF Moves, Active
  <1> QED
    BY <1>1, <1>2, <1>3, QuietChains DEF Moves

\* The begin of a message keeps them in line.
LEMMA BeginChains ==
    ASSUME IInv, Line, Serving, NEW h \in Handler, HandleBegin(h)
    PROVE  Line' /\ Serving'
  <1>1. /\ frame[h] = None /\ UNCHANGED client
        /\ \A x \in Handler : Held(x)' = Held(x)
        /\ \A x \in Handler \ {h} : frame'[x] = frame[x]
    BY BeginEffect DEF IInv
  <1>2. WaitersKeep
    BY <1>1 DEF WaitersKeep
  <1>3. \A x \in Handler : \A m \in Held(x) : Active(x, m)' => Active(x, m)
    BY <1>1 DEF Active
  <1> QED
    BY <1>1, <1>2, <1>3, QuietChains

\* What is asked serves the call that the one who asks serves.
LEMMA AskedServes ==
    ASSUME IInv, NEW h \in Handler, frame[h] # None, NEW g \in Handler, NEW n \in Msg,
           NEW f, f.msg = frame[h].msg, AsksAs(f, h, g, n),
           NEW c \in Client, NEW call \in Calls[c], Within(h, frame[h].msg, call),
           h[1] = "vertexDelete" => n.link \in frame[h].todo /\ n.link \in CalledLinks
    PROVE  Within(g, n, call)
  <1> DEFINE m == frame[h].msg
  <1>1. FrameOK(h, frame[h]) /\ m \in Held(h) /\ MsgOK(h, m)
    BY Located DEF IInv
  <1>2. \/ h[1] = "linkCreate" /\ g[1] = "linkDelete" /\ n.link = m.link /\ ~n.in
        \/ h[1] \in {"linkCreate", "linkDelete"} /\ g[1] = h[1] /\ n.link = m.link /\ n.in
        \/ h[1] = "linkUpdate" /\ g[1] = "linkCreate" /\ n.link = m.link /\ ~n.in
        \/ h[1] = "vertexCreate" /\ g[1] = "vertexDelete" /\ g[2] = h[2] /\ n.link = None /\ ~n.in
        \/ /\ h[1] = "vertexDelete" /\ g[1] = "linkDelete" /\ n.link \in Link /\ ~n.in
           /\ h[2] \in {n.link.from, n.link.to}
    BY AskKinds
  <1> HIDE DEF m
  <1>3. CASE h[1] \in LinkFunction
    <2>1. n.link = m.link
      BY <1>2, <1>3 DEF LinkFunction
    <2>2. \/ g[1] = h[1]
          \/ h[1] = "linkCreate" /\ g[1] = "linkDelete"
          \/ h[1] = "linkUpdate" /\ g[1] = "linkCreate"
      BY <1>2, <1>3 DEF LinkFunction
    <2> QED
      BY <1>3, <2>1, <2>2 DEF Within, LinkFunction, VertexFunction, Puts, m
  <1>4. CASE h[1] = "vertexCreate"
    <2>1. g[1] = "vertexDelete" /\ g[2] = h[2] /\ n.link = None
      BY <1>2, <1>4
    <2> QED
      BY <1>4, <2>1 DEF Within, VertexFunction, Puts
  <1>5. CASE h[1] = "vertexDelete"
    <2>1. /\ g[1] = "linkDelete" /\ n.link \in CalledLinks
          /\ h[2] \in {n.link.from, n.link.to}
      BY <1>2, <1>5
    <2>2. /\ call.handler[1] \in {"vertexCreate", "vertexDelete"} /\ call.handler[2] = h[2]
      BY <1>5 DEF Within, VertexFunction, m
    <2>3. Footprint(call) = {l \in CalledLinks : call.handler[2] \in {l.from, l.to}}
      BY <2>2 DEF Footprint, LinkFunction
    <2> QED
      BY <2>1, <2>2, <2>3 DEF Within, VertexFunction, Puts
  <1> QED
    BY <1>2, <1>3, <1>4, <1>5 DEF LinkFunction

\* A request keeps them in line.
LEMMA SendsChains ==
    ASSUME IInv, Line, Serving, NEW h \in Handler, SendsWell(h),
           h[1] = "vertexDelete" => frame[h].todo \subseteq CalledLinks
    PROVE  Line' /\ Serving'
  <1>1. PICK g \in Handler, n \in Msg :
             /\ Sends(h, g, n) /\ MsgOK(g, n) /\ Asks(h, g, n)'
             /\ h[1] = "vertexDelete" => n.link \in frame[h].todo
    BY DEF SendsWell
  <1> DEFINE m == frame[h].msg
  <1>2. /\ frame[h] # None /\ frame[h].pc # "await" /\ frame'[h] # None /\ frame'[h].msg = m
        /\ frame'[h].pc = "await" /\ n.caller = h /\ UNCHANGED client
        /\ \A x \in Handler \ {h} : frame'[x] = frame[x]
    BY <1>1 DEF Sends
  <1>3. Held(g)' = Held(g) \cup {n} /\ \A x \in Handler \ {g} : Held(x)' = Held(x)
    BY <1>1, SendsHeld DEF IInv
  <1>4. \A x \in Handler : \A k \in Held(x)' : k \in Held(x) \/ (x = g /\ k = n)
    BY <1>3
  <1>5. WaitersKeep
    BY <1>2 DEF WaitersKeep
  <1>6. AsksAs(frame'[h], h, g, n)
    BY <1>1 DEF Asks
  <1>7. m \in Held(h) /\ Active(h, m)
    BY <1>2 DEF Held, Active
  <1>8. ~m.in
    BY <1>2, <1>6 DEF AsksAs
  <1>9. /\ Root(n)' = Root(m)
        /\ \A x, k : (x = h /\ k = m) \/ Ancestor(m, x, k) => Ancestor(n, x, k)'
    BY <1>2, <1>5, <1>7, <1>8, RootOfNew
  <1>10. n \notin Held(g)
    BY <1>2, OnlyWaitersAsk DEF IInv
  <1>11. ASSUME NEW x \in Handler, NEW k \in Held(x), Active(x, k)'
         PROVE  Active(x, k) /\ ~(x = h /\ k = m)
    BY <1>2, <1>11 DEF Active
  <1>12. Line'
    <2> SUFFICES ASSUME NEW x \in Handler, NEW y \in Handler, NEW k \in Held(x)',
                        NEW j \in Held(y)', Active(x, k)', Root(k)' = Root(j)'
                 PROVE  (x = y /\ k = j) \/ Ancestor(k, y, j)'
      BY DEF Line
    <2>1. CASE k \in Held(x) /\ j \in Held(y)
      <3>1. Root(k) = Root(j)
        BY <1>5, <2>1, RootStays
      <3>2. (x = y /\ k = j) \/ Ancestor(k, y, j)
        BY <1>11, <2>1, <3>1 DEF Line
      <3> QED
        BY <1>5, <2>1, <3>2, RootStays
    <2>2. CASE x = g /\ k = n /\ j \in Held(y)
      <3>1. Root(m) = Root(j)
        BY <1>5, <1>9, <2>2, RootStays
      <3>2. (h = y /\ m = j) \/ Ancestor(m, y, j)
        BY <1>7, <2>2, <3>1 DEF Line
      <3> QED
        BY <1>9, <2>2, <3>2
    <2>3. CASE k \in Held(x) /\ y = g /\ j = n
      <3>1. Root(k) = Root(m) /\ Active(x, k) /\ ~(x = h /\ k = m)
        BY <1>5, <1>9, <1>11, <2>3, RootStays
      <3>2. Ancestor(k, h, m)
        BY <1>7, <2>3, <3>1 DEF Line
      <3>3. frame[h].pc = "await"
        BY <2>3, <3>2, AncestorWaits
      <3> QED
        BY <1>2, <3>3
    <2> QED
      BY <1>4, <2>1, <2>2, <2>3
  <1>13. Serving'
    <2> SUFFICES ASSUME NEW x \in Handler, NEW k \in Held(x)'
                 PROVE  /\ client[Root(k)'] \in Calls[Root(k)']
                        /\ Within(x, k, client[Root(k)'])
      BY <1>2 DEF Serving
    <2>1. CASE k \in Held(x)
      BY <1>5, <2>1, RootStays DEF Serving
    <2>2. CASE x = g /\ k = n
      <3>1. /\ client[Root(m)] \in Calls[Root(m)] /\ Within(h, m, client[Root(m)])
            /\ Root(m) \in Client
        BY <1>7, Depth DEF Serving
      <3>2. Within(g, n, client[Root(m)])
        BY <1>1, <1>2, <1>6, <3>1, AskedServes
      <3> QED
        BY <1>9, <2>2, <3>1, <3>2
    <2> QED
      BY <1>4, <2>1, <2>2
  <1> QED
    BY <1>12, <1>13

\* An answer keeps them in line.
LEMMA ReplyChains ==
    ASSUME IInv, Line, Serving, NEW h \in Handler, Reply(h)
    PROVE  Line' /\ Serving'
  <1> DEFINE m == frame[h].msg
             to == m.caller
  <1>1. /\ frame[h] # None /\ frame[h].pc = "reply" /\ m \in Held(h) /\ frame'[h] = None
        /\ UNCHANGED <<graph, queue>>
        /\ Held(h)' = Held(h) \ {m}
        /\ \A x \in Handler \ {h} : Held(x)' = Held(x)
        /\ AnswersHandler(h, to) \/ AnswersClient(h, to)
    BY ReplyEffect
  <1>2. \A x \in Handler : \A k \in Held(x)' : k \in Held(x) /\ (k # m \/ x # h)
    BY <1>1
  <1>3. WaitersKeep
    <2> SUFFICES ASSUME NEW x \in Handler, frame[x] # None, frame[x].pc = "await"
                 PROVE  frame'[x] # None /\ frame'[x].msg = frame[x].msg
      BY DEF WaitersKeep
    <2>1. x # h
      BY <1>1
    <2> QED
      BY <1>1, <2>1 DEF AnswersHandler, AnswersClient
  <1>4. Active(h, m)
    BY <1>1 DEF Active
  <1>5. ASSUME NEW x \in Handler, NEW k \in Held(x)', Active(x, k)'
        PROVE  Active(x, k) \/ (to \in Handler /\ x = to /\ k = Above(m))
    <2>1. k \in Held(x)
      BY <1>2
    <2>2. CASE x = h
      BY <1>1, <2>1, <2>2 DEF Active
    <2>3. CASE x # h /\ x # to
      <3>1. frame'[x] = frame[x]
        BY <1>1, <2>3 DEF AnswersHandler, AnswersClient
      <3> QED
        BY <1>5, <2>1, <3>1 DEF Active
    <2>4. CASE x # h /\ x = to
      <3>1. CASE k = frame[x].msg
        BY <2>4, <3>1 DEF Above
      <3>2. CASE k # frame[x].msg
        BY <2>1, <3>2 DEF Active
      <3> QED
        BY <3>1, <3>2
    <2> QED
      BY <2>2, <2>3, <2>4
  <1>6. Line'
    <2> SUFFICES ASSUME NEW x \in Handler, NEW y \in Handler, NEW k \in Held(x)',
                        NEW j \in Held(y)', Active(x, k)', Root(k)' = Root(j)'
                 PROVE  (x = y /\ k = j) \/ Ancestor(k, y, j)'
      BY DEF Line
    <2>1. k \in Held(x) /\ j \in Held(y) /\ (j # m \/ y # h)
      BY <1>2
    <2>2. Root(k) = Root(j)
      BY <1>3, <2>1, RootStays
    <2>3. CASE Active(x, k)
      BY <1>3, <2>1, <2>2, <2>3, RootStays DEF Line
    <2>4. CASE to \in Handler /\ x = to /\ k = Above(m)
      <3>1. Root(m) = Root(j)
        BY <1>1, <2>2, <2>4, RootOfAbove
      <3>2. Ancestor(m, y, j)
        BY <1>1, <1>4, <2>1, <3>1 DEF Line
      <3>3. (y = to /\ j = k) \/ Ancestor(k, y, j)
        BY <1>1, <2>4, <3>2, RootOfAbove
      <3> QED
        BY <1>3, <2>1, <2>4, <3>3, RootStays
    <2> QED
      BY <1>5, <2>3, <2>4
  <1>7. Serving'
    <2> SUFFICES ASSUME NEW x \in Handler, NEW k \in Held(x)'
                 PROVE  /\ client'[Root(k)'] \in Calls[Root(k)']
                        /\ Within(x, k, client'[Root(k)'])
      BY DEF Serving
    <2>1. k \in Held(x) /\ (k # m \/ x # h) /\ Root(k)' = Root(k)
      BY <1>2, <1>3, RootStays
    <2>2. client'[Root(k)] = client[Root(k)]
      <3>1. CASE AnswersHandler(h, to)
        BY <3>1 DEF AnswersHandler
      <3>2. CASE AnswersClient(h, to)
        <4>1. Root(m) = to /\ to \notin Handler /\ client \in [Client -> Call \cup {None}]
          BY <1>1, <3>2, AboveWaits DEF AnswersClient, Root, IInv, TypeOK
        <4>2. Root(k) # to
          BY <1>1, <1>4, <2>1, <4>1 DEF Line, Ancestor
        <4>3. Root(k) \in Client
          BY <2>1, Depth
        <4> QED
          BY <3>2, <4>1, <4>2, <4>3 DEF AnswersClient
      <3> QED
        BY <1>1, <3>1, <3>2
    <2> QED
      BY <2>1, <2>2 DEF Serving
  <1> QED
    BY <1>6, <1>7

\* A call keeps them in line.
LEMMA CallChains ==
    ASSUME IInv, Line, Serving, NEW c \in Client, NEW call \in Calls[c], ClientCall(c, call)
    PROVE  Line' /\ Serving'
  <1>1. PICK g \in Handler, n \in Msg :
             /\ client[c] = None /\ client' = [client EXCEPT ![c] = call]
             /\ client' \in [Client -> Call \cup {None}]
             /\ n.caller = c /\ MsgOK(g, n) /\ Calling(c, g, n)'
             /\ queue' = [queue EXCEPT ![g] = Append(@, n)]
             /\ queue' \in [Handler -> Seq(Msg)]
             /\ \A x \in Handler \ {g} : queue'[x] = queue[x]
             /\ queue'[g] = Append(queue[g], n)
             /\ Held(g)' = Held(g) \cup {n}
             /\ \A x \in Handler \ {g} : Held(x)' = Held(x)
             /\ UNCHANGED <<graph, frame>>
    BY CallEffect
  <1>2. \A x \in Handler : \A k \in Held(x)' : k \in Held(x) \/ (x = g /\ k = n)
    BY <1>1
  <1>3. WaitersKeep /\ UNCHANGED frame
    BY <1>1 DEF WaitersKeep
  <1>4. client \in [Client -> Call \cup {None}] /\ client'[c] = call
    BY <1>1 DEF IInv, TypeOK
  <1>5. Root(n)' = c
    BY <1>1 DEF Root
  <1>6. ASSUME NEW x \in Handler, NEW k \in Held(x)
        PROVE  /\ Root(k)' = Root(k) /\ Root(k) \in Client /\ Root(k) # c
               /\ client'[Root(k)] = client[Root(k)]
    <2>1. Root(k)' = Root(k) /\ Root(k) \in Client
      BY <1>3, RootStays, Depth
    <2>2. client[Root(k)] \in Calls[Root(k)] /\ Calls[Root(k)] \subseteq Call
      BY <2>1, CallsType DEF Serving
    <2>3. Root(k) # c
      BY <1>1, <2>2
    <2> QED
      BY <1>1, <1>4, <2>1, <2>3
  <1>7. \A x \in Handler : \A k \in Held(x) : Active(x, k)' => Active(x, k)
    BY <1>3 DEF Active
  <1>8. Line'
    <2> SUFFICES ASSUME NEW x \in Handler, NEW y \in Handler, NEW k \in Held(x)',
                        NEW j \in Held(y)', Active(x, k)', Root(k)' = Root(j)'
                 PROVE  (x = y /\ k = j) \/ Ancestor(k, y, j)'
      BY DEF Line
    <2>1. CASE k \in Held(x) /\ j \in Held(y)
      BY <1>3, <1>6, <1>7, <2>1, RootStays DEF Line
    <2>2. CASE x = g /\ k = n /\ j \in Held(y)
      BY <1>5, <1>6, <2>2
    <2>3. CASE k \in Held(x) /\ y = g /\ j = n
      BY <1>5, <1>6, <2>3
    <2> QED
      BY <1>2, <2>1, <2>2, <2>3
  <1>9. Within(g, n, call)
    <2>1. g = call.handler /\ n.link = call.link /\ ~n.in
      BY <1>4, <1>1 DEF Calling
    <2>2. n.link # None => n.link \in Footprint(call)
      <3>1. g[1] \in LinkFunction \cup VertexFunction
        BY DEF Handler, LinkFunction, VertexFunction
      <3>2. g[1] \in VertexFunction => n.link = None
        BY <1>1, <2>1, Zenon DEF MsgOK
      <3>3. call.handler[1] \in LinkFunction => Footprint(call) = {call.link}
        BY DEF Footprint, LinkFunction
      <3> QED
        BY <2>1, <3>1, <3>2, <3>3
    <2> QED
      BY <2>1, <2>2 DEF Within, Puts, VertexFunction
  <1>10. Serving'
    <2> SUFFICES ASSUME NEW x \in Handler, NEW k \in Held(x)'
                 PROVE  /\ client'[Root(k)'] \in Calls[Root(k)']
                        /\ Within(x, k, client'[Root(k)'])
      BY DEF Serving
    <2>1. CASE k \in Held(x)
      BY <1>6, <2>1 DEF Serving
    <2>2. CASE x = g /\ k = n
      BY <1>4, <1>5, <1>9, <2>2
    <2> QED
      BY <1>2, <2>1, <2>2
  <1> QED
    BY <1>8, <1>10

\* There are no messages at first.
LEMMA InitChains == Init => Line /\ Serving
  <1> SUFFICES ASSUME Init PROVE Line /\ Serving
    OBVIOUS
  <1>1. \A h \in Handler : queue[h] = <<>> /\ frame[h] = None /\ Len(queue[h]) = 0
    BY DEF Init
  <1>2. \A h \in Handler : Held(h) = {}
    BY <1>1 DEF Elements, Held
  <1> QED
    BY <1>2 DEF Line, Serving

\* Two callers that are apart never work on one link at the same time.
LEMMA OneRoot ==
    ASSUME CallersAreApart, IInv, Line, Serving,
           NEW h \in Handler, NEW g \in Handler, NEW m \in Held(h), NEW n \in Held(g),
           m.link # None, m.link = n.link
    PROVE  Root(m) = Root(n)
  <1> DEFINE c == Root(m)
             d == Root(n)
  <1>1. /\ c \in Client /\ client[c] \in Calls[c] /\ m.link \in Footprint(client[c])
        /\ d \in Client /\ client[d] \in Calls[d] /\ n.link \in Footprint(client[d])
    BY Depth DEF Serving, Within
  <1> HIDE DEF c, d
  <1>2. c = d
    BY <1>1 DEF CallersAreApart
  <1> QED
    BY <1>2 DEF c, d

\* Of the messages about one link only one is not waiting.
LEMMA OneActive ==
    ASSUME CallersAreApart, IInv, Line, Serving,
           NEW h \in Handler, NEW g \in Handler, NEW m \in Held(h), NEW n \in Held(g),
           m.link # None, m.link = n.link, Active(h, m), Active(g, n)
    PROVE  h = g /\ m = n
  <1>1. (h = g /\ m = n) \/ Ancestor(m, g, n)
    BY OneRoot DEF Line
  <1>2. ~Ancestor(m, g, n)
    BY AncestorWaits DEF Active
  <1> QED
    BY <1>1, <1>2
-----------------------------------------------------------------------------
(* The second invariant: the keys of a link *)

Index(l) == {k \in outIndex : k[1] = l}
NameKey(l, b) == {<<l, "name", b.name>>}
AllKeys(l, b) == NameKey(l, b) \cup TagKeys(l, b.tags)

\* l has all its keys, or none.
Whole(l) ==
    /\ body[l] = None => Index(l) = {} /\ l \notin inLink
    /\ body[l] # None => Index(l) = AllKeys(l, body[l]) /\ l \in inLink

\* The in link of l is the only key that is still to be written, or deleted.
Due(h, l) ==
    /\ h[1] = "linkCreate" => /\ body[l] # None /\ Index(l) = AllKeys(l, body[l])
                              /\ l \notin inLink
    /\ h[1] = "linkDelete" => body[l] = None /\ Index(l) = {} /\ l \in inLink

\* The keys of the link that h works on, by where h is.
Doing(h) ==
    LET f == frame[h]  s == f.pc  l == f.msg.link IN
    /\ s = "start" => Whole(l)
    /\ s \in {"inLink", "requestIn"} => Due(h, l)
    /\ s = "reply" => Whole(l) /\ (body[l] = None <=> h[1] = "linkDelete")
    /\ s \in Naming => (l \in inLink <=> h[1] = "linkUpdate")
    /\ s \in Naming \ {"setTags"} => (body[l] = None <=> h[1] = "linkCreate")
    /\ s \in Naming \ {"setBody", "setTags"} => Index(l) = {}
    /\ s \in {"setBody", "setTags"} => Index(l) = NameKey(l, f.new)
    /\ s = "setTags" => body[l] = f.new
    /\ s \in {"readBody", "dropBody"} => Whole(l) /\ body[l] # None
    /\ s = "dropBody" => body[l] = f.old
    /\ s \in Dropping => l \in inLink
    /\ s \in Dropping => body[l] = IF h[1] = "linkDelete" THEN None ELSE f.old
    /\ s \in {"dropName", "dropIndex"} => Index(l) = AllKeys(l, f.old)
    /\ s = "dropTags" => Index(l) = TagKeys(l, f.old.tags)

Ready(h, m) == /\ m.in => Due(h, m.link)
               /\ ~m.in => Whole(m.link)

Keys ==
    /\ \A l \in Link : Whole(l) \/ \E h \in Handler : \E m \in Held(h) : m.link = l
    /\ \A h \in Handler : frame[h] # None /\ frame[h].msg.link # None => Doing(h)
    /\ \A h \in Handler : \A m \in Elements(queue[h]) : m.link # None => Ready(h, m)

\* Nobody makes links that nobody calls for.
Known ==
    /\ \A l \in Link : body[l] # None \/ l \in inLink => l \in CalledLinks
    /\ \A h \in Handler : frame[h] # None => frame[h].todo \subseteq CalledLinks

\* What index keys of l do to those of other links, when they are added,
LEMMA IndexAdd ==
    ASSUME NEW l, NEW S, \A k \in S : k[1] = l, outIndex' = outIndex \cup S
    PROVE  Index(l)' = Index(l) \cup S /\ \A j : j # l => Index(j)' = Index(j)
  BY DEF Index

\* when they are deleted,
LEMMA IndexDrop ==
    ASSUME NEW l, NEW S, \A k \in S : k[1] = l, outIndex' = outIndex \ S
    PROVE  Index(l)' = Index(l) \ S /\ \A j : j # l => Index(j)' = Index(j)
  BY DEF Index

\* and when they are left alone.
LEMMA IndexSame ==
    ASSUME UNCHANGED outIndex
    PROVE  \A j : Index(j)' = Index(j)
  BY DEF Index

\* The index keys of a body are its name and its tags.
LEMMA KeyParts ==
    ASSUME NEW l, NEW b
    PROVE  /\ \A k \in NameKey(l, b) \cup TagKeys(l, b.tags) : k[1] = l
           /\ AllKeys(l, b) \ NameKey(l, b) = TagKeys(l, b.tags)
           /\ NameKey(l, b) \cup TagKeys(l, b.tags) = AllKeys(l, b)
  <1>1. \A k \in NameKey(l, b) : k[1] = l /\ k[2] = "name"
    BY DEF NameKey
  <1>2. \A k \in TagKeys(l, b.tags) : k[1] = l /\ k[2] = "tag"
    BY DEF TagKeys
  <1> QED
    BY <1>1, <1>2 DEF AllKeys

\* A step that leaves the keys of k alone.
SameKeys(k) == /\ body'[k] = body[k] /\ Index(k)' = Index(k)
               /\ k \in inLink' <=> k \in inLink

\* Whether l is whole depends on its keys only.
LEMMA WholeStays ==
    ASSUME NEW l, SameKeys(l)
    PROVE  /\ Whole(l)' <=> Whole(l)
           /\ \A h : Due(h, l)' <=> Due(h, l)
  BY DEF SameKeys, Whole, Due

\* So does whether a message about it is ready,
LEMMA ReadyStays ==
    ASSUME NEW h, NEW m, SameKeys(m.link), Ready(h, m)
    PROVE  Ready(h, m)'
  BY WholeStays DEF Ready

\* and what a handler has done of it.
LEMMA DoingStays ==
    ASSUME NEW h, frame'[h] = frame[h], SameKeys(frame[h].msg.link), Doing(h)
    PROVE  Doing(h)'
  <1>1. PICK l : l = frame[h].msg.link
    OBVIOUS
  <1>2. /\ body'[l] = body[l] /\ Index(l)' = Index(l)
        /\ l \in inLink' <=> l \in inLink
        /\ Whole(l)' <=> Whole(l)
        /\ Due(h, l)' <=> Due(h, l)
    BY <1>1, WholeStays DEF SameKeys
  <1>3. frame[h].msg.link = l /\ frame'[h].msg.link = l
    BY <1>1
  <1> QED
    BY <1>2, <1>3 DEF Doing
\* Callers that are apart keep to their links, and their messages in line.
Orderly == CallersAreApart /\ IInv /\ Line /\ Serving

\* Nobody else works on the link that h is working on.
LEMMA OthersElsewhere ==
    ASSUME Orderly, NEW h \in Handler, frame[h] # None, frame[h].pc # "await",
           frame[h].msg.link # None
    PROVE  /\ \A x \in Handler \ {h} : frame[x] # None /\ frame[x].pc # "await" =>
                 frame[x].msg.link # frame[h].msg.link
           /\ \A x \in Handler : \A m \in Elements(queue[x]) : m.link # frame[h].msg.link
  <1>1. \A x \in Handler : frame[x] # None =>
           frame[x].msg \in Held(x) /\ (frame[x].pc # "await" => Active(x, frame[x].msg))
    BY DEF Held, Active
  <1>2. \A x \in Handler : \A m \in Elements(queue[x]) :
           m \in Held(x) /\ Active(x, m) /\ (frame[x] # None => m # frame[x].msg)
    BY DEF Held, Active, Orderly, IInv, Once
  <1> DEFINE k == frame[h].msg
  <1>3. k \in Held(h) /\ Active(h, k) /\ k.link # None
    BY <1>1
  <1>4. ASSUME NEW x \in Handler, NEW m \in Held(x), Active(x, m), m.link = k.link
        PROVE  x = h /\ m = k
    <2> HIDE DEF k
    <2> QED
      BY <1>3, <1>4, OneActive DEF Orderly
  <1> QED
    BY <1>1, <1>2, <1>4

\* A step of h that changes no keys but those of its link.
LEMMA MovesKeys ==
    ASSUME Orderly, Keys, NEW h \in Handler, Moves(h),
           \A k \in Link : k # frame[h].msg.link => SameKeys(k),
           frame[h].msg.link # None => Doing(h)'
    PROVE  Keys'
  <1> DEFINE l == frame[h].msg.link
  <1>1. /\ frame[h] # None /\ frame'[h] # None /\ frame'[h].msg = frame[h].msg
        /\ frame[h].pc # "await" /\ UNCHANGED queue
        /\ \A x \in Handler \ {h} : frame'[x] = frame[x]
        /\ \A x \in Handler : Held(x)' = Held(x)
    BY MovesHeld DEF Moves, Orderly, IInv
  <1>2. frame[h].msg \in Held(h)
    BY <1>1 DEF Held
  <1>3. ASSUME NEW k \in Link
        PROVE  Whole(k)' \/ \E x \in Handler : \E m \in Held(x)' : m.link = k
    <2>1. CASE k = l
      BY <1>1, <1>2, <2>1
    <2>2. CASE k # l
      <3>1. Whole(k)' <=> Whole(k)
        BY <2>2, WholeStays
      <3> QED
        BY <1>1, <3>1 DEF Keys
    <2> QED
      BY <2>1, <2>2
  <1>4. ASSUME NEW x \in Handler, frame'[x] # None, frame'[x].msg.link # None
        PROVE  Doing(x)'
    <2>1. CASE x = h
      BY <1>1, <1>4, <2>1
    <2>2. CASE x # h
      <3>1. frame'[x] = frame[x] /\ Doing(x) /\ frame[x] \in Frame
        BY <1>1, <1>4, <2>2 DEF Keys, Orderly, IInv, TypeOK
      <3>2. CASE frame[x].pc = "await"
        BY <3>1, <3>2 DEF Doing, Naming, Writing, Dropping
      <3>3. CASE frame[x].pc # "await"
        <4>1. (frame[x].msg.link \in Link /\ frame[x].msg.link # l) \/ l = None
          BY <1>1, <1>4, <2>2, <3>1, <3>3, OthersElsewhere, FrameFields
        <4>2. SameKeys(frame[x].msg.link)
          BY <1>4, <3>1, <4>1, FrameFields
        <4> QED
          BY <3>1, <4>2, DoingStays
      <3> QED
        BY <3>2, <3>3
    <2> QED
      BY <2>1, <2>2
  <1>5. ASSUME NEW x \in Handler, NEW m \in Elements(queue[x]), m.link # None
        PROVE  Ready(x, m)'
    <2>1. m \in Msg /\ m.link \in Link
      <3>1. m \in Held(x)
        BY DEF Held
      <3> QED
        BY <1>5, <3>1 DEF Orderly, IInv, WellFormed, MsgOK, Msg
    <2>2. m.link # l
      BY <1>1, <1>5, OthersElsewhere
    <2> QED
      BY <1>5, <2>1, <2>2, ReadyStays DEF Keys
  <1>6. \A x \in Handler : Elements(queue[x])' = Elements(queue[x])
    BY <1>1 DEF Elements
  <1> QED
    BY <1>3, <1>4, <1>5, <1>6 DEF Keys

\* A step that writes nothing changes none of the three.
LEMMA SameGraph ==
    ASSUME UNCHANGED graph
    PROVE  /\ \A l : SameKeys(l)
           /\ \A l : Whole(l)' <=> Whole(l)
           /\ \A h, l : Due(h, l)' <=> Due(h, l)
           /\ \A h, m : Ready(h, m)' <=> Ready(h, m)
  <1>1. UNCHANGED <<body, outIndex, inLink>>
    BY DEF graph, links
  <1>2. \A l : SameKeys(l)
    BY <1>1, IndexSame DEF SameKeys
  <1>3. /\ \A l : Whole(l)' <=> Whole(l)
        /\ \A h, l : Due(h, l)' <=> Due(h, l)
    BY <1>2, WholeStays
  <1> QED
    BY <1>2, <1>3 DEF Ready

\* The begin of a message finds its link as it was when it was sent.
LEMMA BeginKeys ==
    ASSUME Orderly, Keys, NEW h \in Handler, HandleBegin(h)
    PROVE  Keys'
  <1> DEFINE m == frame'[h].msg
  <1>1. /\ frame[h] = None /\ UNCHANGED graph
        /\ \A x \in Handler : Held(x)' = Held(x)
        /\ \A x \in Handler \ {h} : frame'[x] = frame[x] /\ queue'[x] = queue[x]
        /\ m \in Elements(queue[h]) /\ frame'[h] # None
        /\ frame'[h].pc = IF m.in THEN "inLink" ELSE "start"
    BY BeginEffect DEF Orderly, IInv
  <1>2. \A k \in Elements(queue'[h]) : k \in Elements(queue[h])
    <2>1. Held(h)' = Held(h) /\ Held(h) = Elements(queue[h])
      BY <1>1 DEF Held
    <2>2. \A k \in Elements(queue'[h]) : k \in Held(h)'
      BY DEF Held, Elements
    <2> QED
      BY <2>1, <2>2
  <1>3. ASSUME m.link # None PROVE Doing(h)'
    <2>1. Ready(h, m)
      BY <1>1, <1>3 DEF Keys
    <2>2. PICK l : l = m.link
      OBVIOUS
    <2>3. /\ Whole(l)' <=> Whole(l)
          /\ Due(h, l)' <=> Due(h, l)
      BY <1>1, SameGraph
    <2>4. frame'[h].msg.link = l
      BY <2>2
    <2>5. CASE frame'[h].pc = "inLink"
      <3>1. m.in
        BY <1>1, <2>5
      <3>2. Due(h, l)'
        BY <2>1, <2>2, <2>3, <3>1 DEF Ready
      <3> QED
        BY <2>4, <2>5, <3>2 DEF Doing, Naming, Writing, Dropping
    <2>6. CASE frame'[h].pc = "start"
      <3>1. ~m.in
        BY <1>1, <2>6
      <3>2. Whole(l)'
        BY <2>1, <2>2, <2>3, <3>1 DEF Ready
      <3> QED
        BY <2>4, <2>6, <3>2 DEF Doing, Naming, Writing, Dropping
    <2> QED
      BY <1>1, <2>5, <2>6
  <1>4. ASSUME NEW x \in Handler, frame'[x] # None, frame'[x].msg.link # None
        PROVE  Doing(x)'
    <2>1. CASE x = h
      BY <1>3, <1>4, <2>1
    <2>2. CASE x # h
      <3>1. frame'[x] = frame[x] /\ Doing(x) /\ SameKeys(frame[x].msg.link)
        BY <1>1, <1>4, <2>2, SameGraph DEF Keys
      <3> QED
        BY <3>1, DoingStays
    <2> QED
      BY <2>1, <2>2
  <1>5. ASSUME NEW x \in Handler, NEW k \in Elements(queue'[x]), k.link # None
        PROVE  Ready(x, k)'
    <2>1. k \in Elements(queue[x])
      BY <1>1, <1>2
    <2> QED
      BY <1>1, <1>5, <2>1, SameGraph DEF Keys
  <1>6. \A l \in Link : Whole(l)' \/ \E x \in Handler : \E k \in Held(x)' : k.link = l
    BY <1>1, SameGraph DEF Keys
  <1> QED
    BY <1>4, <1>5, <1>6 DEF Keys, Elements

\* A call is about a link that nobody is working on.
LEMMA CallKeys ==
    ASSUME Orderly, Keys, NEW c \in Client, NEW call \in Calls[c], ClientCall(c, call)
    PROVE  Keys'
  <1>1. PICK g \in Handler, n \in Msg :
             /\ client[c] = None /\ client' = [client EXCEPT ![c] = call]
             /\ client' \in [Client -> Call \cup {None}]
             /\ n.caller = c /\ MsgOK(g, n) /\ Calling(c, g, n)'
             /\ queue' = [queue EXCEPT ![g] = Append(@, n)]
             /\ queue' \in [Handler -> Seq(Msg)]
             /\ \A x \in Handler \ {g} : queue'[x] = queue[x]
             /\ queue'[g] = Append(queue[g], n)
             /\ Held(g)' = Held(g) \cup {n}
             /\ \A x \in Handler \ {g} : Held(x)' = Held(x)
             /\ UNCHANGED <<graph, frame>>
    BY CallEffect DEF Orderly
  <1>2. client \in [Client -> Call \cup {None}] /\ client'[c] = call
    BY <1>1 DEF Orderly, IInv, TypeOK
  <1>3. g = call.handler /\ n.link = call.link /\ ~n.in
    BY <1>1, <1>2 DEF Calling
  <1>4. ASSUME n.link # None PROVE Whole(n.link)
    <2>1. g[1] \in LinkFunction
      <3>1. g[1] \in LinkFunction \cup VertexFunction
        BY DEF Handler, LinkFunction, VertexFunction
      <3>2. g[1] \in VertexFunction => n.link = None
        BY <1>1, <1>3, Zenon DEF MsgOK
      <3> QED
        BY <1>4, <3>1, <3>2
    <2>2. Footprint(call) = {n.link}
      <3>1. call.handler[1] \in LinkFunction => Footprint(call) = {call.link}
        BY DEF Footprint, LinkFunction
      <3> QED
        BY <1>3, <2>1, <3>1
    <2>3. ASSUME NEW x \in Handler, NEW k \in Held(x) PROVE k.link # n.link
      <3>1. /\ Root(k) \in Client /\ client[Root(k)] \in Calls[Root(k)]
            /\ Within(x, k, client[Root(k)])
        BY Depth DEF Orderly, Serving
      <3>2. Calls[Root(k)] \subseteq Call
        BY <3>1, CallsType
      <3>3. Root(k) # c
        BY <1>1, <3>1, <3>2
      <3>4. k.link # None => k.link \in Footprint(client[Root(k)])
        BY <3>1 DEF Within
      <3>5. Footprint(call) \cap Footprint(client[Root(k)]) = {}
        BY <3>1, <3>3 DEF Orderly, CallersAreApart
      <3> QED
        BY <1>4, <2>2, <3>4, <3>5
    <2>4. n.link \in Link
      BY <1>4 DEF Msg
    <2> QED
      BY <2>3, <2>4 DEF Keys
  <1>5. \A x \in Handler : frame'[x] = frame[x]
    BY <1>1
  <1>6. ASSUME NEW x \in Handler, frame'[x] # None, frame'[x].msg.link # None
        PROVE  Doing(x)'
    <2>1. Doing(x) /\ SameKeys(frame[x].msg.link)
      BY <1>1, <1>5, <1>6, SameGraph DEF Keys
    <2> QED
      BY <1>5, <2>1, DoingStays
  <1>7. ASSUME NEW x \in Handler, NEW k \in Elements(queue'[x]), k.link # None
        PROVE  Ready(x, k)'
    <2>1. queue[g] \in Seq(Msg)
      BY DEF Orderly, IInv, TypeOK
    <2>2. k \in Elements(queue[x]) \/ (x = g /\ k = n)
      BY <1>1, <2>1, AppendElements
    <2>3. CASE k \in Elements(queue[x])
      BY <1>1, <1>7, <2>3, SameGraph DEF Keys
    <2>4. CASE x = g /\ k = n
      <3>1. Ready(g, n)
        BY <1>3, <1>4, <1>7, <2>4 DEF Ready
      <3> QED
        BY <1>1, <2>4, <3>1, SameGraph
    <2> QED
      BY <2>2, <2>3, <2>4
  <1>8. \A l \in Link : Whole(l)' \/ \E x \in Handler : \E k \in Held(x)' : k.link = l
    BY <1>1, SameGraph DEF Keys
  <1> QED
    BY <1>6, <1>7, <1>8 DEF Keys, Elements

\* Who asks for what, and where it goes on.
LEMMA AskGoesOn ==
    ASSUME NEW f, NEW g, NEW h, NEW m, AsksAs(f, g, h, m)
    PROVE  \/ g[1] = "linkCreate" /\ f.then = "name" /\ h[1] = "linkDelete" /\ m.link = f.msg.link /\ ~m.in
           \/ g[1] \in {"linkCreate", "linkDelete"} /\ f.then = "reply" /\ h[1] = g[1] /\ m.link = f.msg.link /\ m.in
           \/ g[1] = "linkUpdate" /\ f.then = "reply" /\ h[1] = "linkCreate" /\ m.link = f.msg.link /\ ~m.in
           \/ g[1] = "vertexCreate" /\ m.link = None
           \/ g[1] = "vertexDelete" /\ m.link \in Link /\ ~m.in /\ h[1] = "linkDelete"
  <1> DEFINE a == f.msg
  <1>1. \/ g[1] = "linkCreate" /\ f.then = "name" /\ h = <<"linkDelete", g[2], FALSE>> /\ m.link = a.link /\ ~m.in
        \/ /\ g[1] \in {"linkCreate", "linkDelete"} /\ f.then = "reply" /\ m.link = a.link /\ m.in
           /\ h = <<g[1], a.link.to, a.link.to = a.link.from>>
        \/ g[1] = "linkUpdate" /\ f.then = "reply" /\ h = <<"linkCreate", g[2], FALSE>> /\ m.link = a.link /\ ~m.in
        \/ g[1] = "vertexCreate" /\ m.link = None
        \/ /\ g[1] = "vertexDelete" /\ h = <<"linkDelete", m.link.from, FALSE>>
           /\ m.link \in Link /\ ~m.in
    BY Zenon DEF AsksAs
  <1> HIDE DEF a
  <1>2. CASE g[1] \in {"linkCreate", "linkDelete"} /\ f.then = "reply" /\ m.link = a.link /\ m.in
             /\ h = <<g[1], a.link.to, a.link.to = a.link.from>>
    <2>1. h[1] = g[1]
      BY <1>2
    <2> QED
      BY <1>2, <2>1 DEF a
  <1>3. CASE g[1] = "linkCreate" /\ f.then = "name" /\ h = <<"linkDelete", g[2], FALSE>> /\ m.link = a.link /\ ~m.in
    BY <1>3 DEF a
  <1>4. CASE g[1] = "linkUpdate" /\ f.then = "reply" /\ h = <<"linkCreate", g[2], FALSE>> /\ m.link = a.link /\ ~m.in
    BY <1>4 DEF a
  <1>5. CASE g[1] = "vertexCreate" /\ m.link = None
    BY <1>5
  <1>6. CASE g[1] = "vertexDelete" /\ h = <<"linkDelete", m.link.from, FALSE>>
             /\ m.link \in Link /\ ~m.in
    BY <1>6
  <1> QED
    BY <1>1, <1>2, <1>3, <1>4, <1>5, <1>6

\* A link that a vertex is going to have deleted is worked on by nobody.
LEMMA TodoIsFree ==
    ASSUME Orderly, NEW h \in Handler, frame[h] # None, frame[h].pc # "await",
           h[1] = "vertexDelete", NEW l \in CalledLinks, h[2] \in {l.from, l.to}
    PROVE  \A x \in Handler : \A k \in Held(x) : k.link # l
  <1> DEFINE m == frame[h].msg
  <1>1. m \in Held(h) /\ Active(h, m) /\ m.link = None /\ l # None
    BY Located DEF Orderly, IInv, Active, VertexFunction, CalledLinks
  <1> SUFFICES ASSUME NEW x \in Handler, NEW k \in Held(x), k.link = l
               PROVE  FALSE
    OBVIOUS
  <1>2. /\ Root(m) \in Client /\ client[Root(m)] \in Calls[Root(m)]
        /\ Within(h, m, client[Root(m)])
        /\ Root(k) \in Client /\ client[Root(k)] \in Calls[Root(k)]
        /\ Within(x, k, client[Root(k)])
    BY <1>1, Depth DEF Orderly, Serving
  <1>3. l \in Footprint(client[Root(m)])
    <2> DEFINE call == client[Root(m)]
    <2>1. /\ call.handler[1] \in {"vertexCreate", "vertexDelete"} /\ call.handler[2] = h[2]
      BY <1>2 DEF Within, VertexFunction
    <2> HIDE DEF call
    <2>2. Footprint(call) = {j \in CalledLinks : call.handler[2] \in {j.from, j.to}}
      BY <2>1 DEF Footprint, LinkFunction
    <2>3. l \in Footprint(call)
      BY <2>1, <2>2
    <2> QED
      BY <2>3 DEF call
  <1>4. l \in Footprint(client[Root(k)])
    BY <1>1, <1>2 DEF Within
  <1>5. Root(m) = Root(k)
    BY <1>2, <1>3, <1>4 DEF Orderly, CallersAreApart
  <1>6. Ancestor(m, x, k)
    BY <1>1, <1>5 DEF Orderly, Line
  <1>7. m.caller \in Handler /\ Above(m) \in Held(m.caller) /\ m.caller[1] = "vertexCreate"
    BY <1>1, <1>6, SentBy, AboveWaits DEF Ancestor, Orderly
  <1>8. Above(m).caller \in Client /\ Above(m).caller \notin Handler
    BY <1>7, Depth, AboveWaits DEF Orderly
  <1>9. x = m.caller /\ k = Above(m)
    BY <1>6, <1>8 DEF Ancestor
  <1>10. MsgOK(x, k) /\ ~k.in
    BY <1>1, <1>7, <1>9, AboveWaits DEF Orderly
  <1>11. k.link = None
    BY <1>7, <1>9, <1>10, Zenon DEF MsgOK, VertexFunction
  <1> QED
    BY <1>1, <1>11

\* A request that h sends is about a link that is ready for it.
LEMMA SendsKeys ==
    ASSUME Orderly, Keys, NEW h \in Handler, SendsWell(h), UNCHANGED graph,
           h[1] \in LinkFunction /\ (frame'[h].then = "name" \/ h[1] = "linkUpdate")
              => Whole(frame[h].msg.link),
           h[1] \in LinkFunction /\ frame'[h].then = "reply" /\ h[1] # "linkUpdate"
              => Due(h, frame[h].msg.link),
           h[1] = "vertexDelete" => /\ frame[h].todo \subseteq CalledLinks
                                    /\ \A l \in frame[h].todo : h[2] \in {l.from, l.to}
    PROVE  Keys'
  <1>1. PICK g \in Handler, n \in Msg :
             /\ Sends(h, g, n) /\ MsgOK(g, n) /\ Asks(h, g, n)'
             /\ h[1] = "vertexDelete" => n.link \in frame[h].todo
    BY DEF SendsWell
  <1> DEFINE m == frame[h].msg
  <1>2. /\ frame[h] # None /\ frame[h].pc # "await" /\ frame'[h] # None /\ frame'[h].msg = m
        /\ frame'[h].pc = "await" /\ n.caller = h /\ UNCHANGED client
        /\ \A x \in Handler \ {h} : frame'[x] = frame[x]
    BY <1>1 DEF Sends
  <1>3. /\ Held(g)' = Held(g) \cup {n} /\ \A x \in Handler \ {g} : Held(x)' = Held(x)
        /\ \A x \in Handler \ {g} : queue'[x] = queue[x]
        /\ queue'[g] = Append(queue[g], n)
    BY <1>1, SendsHeld DEF Orderly, IInv
  <1>4. AsksAs(frame'[h], h, g, n)
    BY <1>1 DEF Asks
  <1>5. \/ h[1] = "linkCreate" /\ frame'[h].then = "name" /\ g[1] = "linkDelete" /\ n.link = m.link /\ ~n.in
        \/ h[1] \in {"linkCreate", "linkDelete"} /\ frame'[h].then = "reply" /\ g[1] = h[1] /\ n.link = m.link /\ n.in
        \/ h[1] = "linkUpdate" /\ frame'[h].then = "reply" /\ g[1] = "linkCreate" /\ n.link = m.link /\ ~n.in
        \/ h[1] = "vertexCreate" /\ n.link = None
        \/ h[1] = "vertexDelete" /\ n.link \in Link /\ ~n.in /\ g[1] = "linkDelete"
    BY <1>2, <1>4, AskGoesOn
  <1>6. ASSUME n.link # None PROVE Ready(g, n)
    <2>1. CASE h[1] = "linkCreate" /\ frame'[h].then = "name" /\ n.link = m.link /\ ~n.in
      BY <2>1 DEF Ready, LinkFunction
    <2>2. CASE h[1] \in {"linkCreate", "linkDelete"} /\ frame'[h].then = "reply" /\ g[1] = h[1]
               /\ n.link = m.link /\ n.in
      <3>1. Due(h, n.link)
        BY <2>2 DEF LinkFunction
      <3>2. Due(g, n.link)
        BY <2>2, <3>1 DEF Due
      <3> QED
        BY <2>2, <3>2 DEF Ready
    <2>3. CASE h[1] = "linkUpdate" /\ n.link = m.link /\ ~n.in
      BY <2>3 DEF Ready, LinkFunction
    <2>4. CASE h[1] = "vertexDelete" /\ n.link \in Link /\ ~n.in
      <3>1. n.link \in CalledLinks /\ h[2] \in {n.link.from, n.link.to}
        BY <1>1, <2>4
      <3>2. \A x \in Handler : \A k \in Held(x) : k.link # n.link
        BY <1>2, <2>4, <3>1, TodoIsFree
      <3>3. Whole(n.link)
        BY <2>4, <3>2 DEF Keys
      <3> QED
        BY <2>4, <3>3 DEF Ready
    <2> QED
      BY <1>5, <1>6, <2>1, <2>2, <2>3, <2>4
  <1>7. ASSUME NEW x \in Handler, frame'[x] # None, frame'[x].msg.link # None
        PROVE  Doing(x)'
    <2>1. CASE x = h
      BY <1>2, <2>1 DEF Doing, Naming, Writing, Dropping
    <2>2. CASE x # h
      <3>1. frame'[x] = frame[x] /\ Doing(x) /\ SameKeys(frame[x].msg.link)
        BY <1>2, <1>7, <2>2, SameGraph DEF Keys
      <3> QED
        BY <3>1, DoingStays
    <2> QED
      BY <2>1, <2>2
  <1>8. ASSUME NEW x \in Handler, NEW k \in Elements(queue'[x]), k.link # None
        PROVE  Ready(x, k)'
    <2>1. queue[g] \in Seq(Msg)
      BY DEF Orderly, IInv, TypeOK
    <2>2. k \in Elements(queue[x]) \/ (x = g /\ k = n)
      <3>1. Elements(Append(queue[g], n)) = Elements(queue[g]) \cup {n}
        BY <2>1, AppendElements
      <3> QED
        BY <1>3, <3>1
    <2>3. CASE k \in Elements(queue[x])
      BY <1>8, <2>3, SameGraph DEF Keys
    <2>4. CASE x = g /\ k = n
      BY <1>6, <1>8, <2>4, SameGraph
    <2> QED
      BY <2>2, <2>3, <2>4
  <1>9. \A l \in Link : Whole(l)' \/ \E x \in Handler : \E k \in Held(x)' : k.link = l
    BY <1>3, SameGraph DEF Keys
  <1> QED
    BY <1>7, <1>8, <1>9 DEF Keys, Elements

\* Who waits goes on with the link as the answer leaves it.
LEMMA ReplyKeys ==
    ASSUME Orderly, Keys, NEW h \in Handler, Reply(h)
    PROVE  Keys'
  <1>0. PICK m, to : m = frame[h].msg /\ to = m.caller
    OBVIOUS
  <1>1. /\ frame[h] # None /\ frame[h].pc = "reply" /\ m \in Held(h) /\ frame'[h] = None
        /\ UNCHANGED <<graph, queue>>
        /\ Held(h)' = Held(h) \ {m}
        /\ \A x \in Handler \ {h} : Held(x)' = Held(x)
        /\ AnswersHandler(h, to) \/ AnswersClient(h, to)
    BY <1>0, ReplyEffect DEF Orderly
  <1>2. ASSUME m.link # None
        PROVE  Whole(m.link) /\ (body[m.link] = None <=> h[1] = "linkDelete")
    BY <1>0, <1>1, <1>2 DEF Keys, Doing
  <1>3. ASSUME NEW l \in Link
        PROVE  Whole(l)' \/ \E x \in Handler : \E k \in Held(x)' : k.link = l
    <2>1. CASE m.link = l
      <3>1. Whole(l)
        BY <1>2, <2>1
      <3> QED
        BY <1>1, <3>1, SameGraph
    <2>2. CASE m.link # l
      <3>1. CASE Whole(l)
        BY <1>1, <3>1, SameGraph
      <3>2. CASE ~Whole(l)
        <4>1. PICK x \in Handler : \E k \in Held(x) : k.link = l
          BY <3>2 DEF Keys
        <4> QED
          BY <1>1, <2>2, <4>1
      <3> QED
        BY <3>1, <3>2
    <2> QED
      BY <2>1, <2>2
  <1>4. ASSUME AnswersHandler(h, to), frame[to].msg.link # None
        PROVE  Doing(to)'
    <2>1. /\ to \in Handler /\ frame[to] # None /\ frame'[to] # None
          /\ frame'[to].msg = frame[to].msg /\ frame'[to].pc = frame[to].then
          /\ AsksAs(frame[to], to, h, m)
      BY <1>0, <1>4 DEF AnswersHandler, Asks
    <2>2. to[1] \in LinkFunction
      BY <1>4, <2>1, Located DEF Orderly, IInv
    <2>3. \/ to[1] = "linkCreate" /\ frame[to].then = "name" /\ h[1] = "linkDelete" /\ m.link = frame[to].msg.link
          \/ to[1] \in {"linkCreate", "linkDelete"} /\ frame[to].then = "reply" /\ h[1] = to[1] /\ m.link = frame[to].msg.link
          \/ to[1] = "linkUpdate" /\ frame[to].then = "reply" /\ h[1] = "linkCreate" /\ m.link = frame[to].msg.link
      BY <2>1, <2>2, AskGoesOn DEF LinkFunction
    <2>4. PICK l : l = m.link
      OBVIOUS
    <2>5. /\ frame'[to].msg.link = l /\ l # None
          /\ Whole(l)'
          /\ body'[l] = None <=> h[1] = "linkDelete"
      <3>1. frame'[to].msg.link = l /\ l # None
        BY <1>4, <2>1, <2>3, <2>4
      <3>2. Whole(l) /\ (body[l] = None <=> h[1] = "linkDelete")
        BY <1>2, <2>4, <3>1
      <3>3. UNCHANGED body
        BY <1>1 DEF graph, links
      <3>4. Whole(l)'
        BY <1>1, <3>2, SameGraph
      <3> QED
        BY <3>1, <3>2, <3>3, <3>4
    <2>6. CASE frame'[to].pc = "reply"
      <3>1. to[1] = "linkDelete" <=> h[1] = "linkDelete"
        BY <2>1, <2>3, <2>6
      <3> QED
        BY <2>5, <2>6, <3>1 DEF Doing, Naming, Writing, Dropping
    <2>7. CASE frame'[to].pc = "name" /\ to[1] = "linkCreate" /\ h[1] = "linkDelete"
      <3>1. body'[l] = None /\ Index(l)' = {} /\ l \notin inLink'
        BY <2>5, <2>7 DEF Whole
      <3> QED
        BY <2>5, <2>7, <3>1 DEF Doing, Naming, Writing, Dropping
    <2> QED
      BY <2>1, <2>3, <2>6, <2>7
  <1>5. ASSUME NEW x \in Handler, frame'[x] # None, frame'[x].msg.link # None
        PROVE  Doing(x)'
    <2>1. x # h
      BY <1>1, <1>5
    <2>2. CASE frame'[x] = frame[x]
      <3>1. Doing(x) /\ SameKeys(frame[x].msg.link)
        BY <1>1, <1>5, <2>2, SameGraph DEF Keys
      <3> QED
        BY <2>2, <3>1, DoingStays
    <2>3. CASE frame'[x] # frame[x]
      <3>1. AnswersHandler(h, to) /\ x = to
        BY <1>1, <2>1, <2>3 DEF AnswersHandler, AnswersClient
      <3>2. frame[to].msg.link # None
        BY <1>5, <3>1 DEF AnswersHandler
      <3> QED
        BY <1>4, <3>1, <3>2
    <2> QED
      BY <2>2, <2>3
  <1>6. ASSUME NEW x \in Handler, NEW k \in Elements(queue[x]), k.link # None
        PROVE  Ready(x, k)'
    BY <1>1, <1>6, SameGraph DEF Keys
  <1>7. \A x \in Handler : Elements(queue[x])' = Elements(queue[x])
    BY <1>1 DEF Elements
  <1> QED
    BY <1>3, <1>5, <1>6, <1>7 DEF Keys

\* What is left of a step of h on its link when its keys have been looked at.
LEMMA StepKeys ==
    ASSUME Orderly, Keys, NEW h \in Handler, Moves(h), NEW l, l = frame[h].msg.link,
           \A j : j # l => body'[j] = body[j] /\ Index(j)' = Index(j),
           \A j : j # l => (j \in inLink' <=> j \in inLink),
           Doing(h)'
    PROVE  Keys'
  <1>1. \A k \in Link : k # frame[h].msg.link => SameKeys(k)
    BY DEF SameKeys
  <1> QED
    BY <1>1, MovesKeys

\* The keys of a link as its name and its body are written.
LEMMA NamingKeys ==
    ASSUME Orderly, Keys, NEW h \in Handler,
           \/ ChooseName(h) \/ ReadGen(h) \/ WriteGen(h) \/ SetName(h)
           \/ SetIndex(h) \/ SetBody(h) \/ SetTags(h)
    PROVE  Keys'
  <1>1. PICK f, l : f = frame[h] /\ l = f.msg.link
    OBVIOUS
  <1>2. Moves(h) /\ FrameOK(h, frame'[h]) /\ frame'[h].msg = f.msg
    BY <1>1, NamingOK DEF Orderly, IInv, Moves
  <1>3. f # None /\ f.pc \in Naming /\ f.pc # "await"
    BY <1>1 DEF ChooseName, ReadGen, WriteGen, SetName, SetIndex, SetBody, SetTags, At,
           Naming, Writing
  <1>4. /\ f \in Frame /\ FrameOK(h, f) /\ Puts(h) /\ l \in Link /\ l # None
        /\ frame \in [Handler -> Frame \cup {None}] /\ TypeOK
    <2>1. TypeOK /\ WellFormed
      BY DEF Orderly, IInv
    <2>2. f \in Frame /\ FrameOK(h, f) /\ Puts(h) /\ (h[1] \in LinkFunction => l \in Link)
      BY <1>1, <1>3, <2>1, Located
    <2> QED
      BY <2>1, <2>2 DEF TypeOK, Puts, LinkFunction
  <1>5. Doing(h) /\ frame'[h].msg.link = l
    BY <1>1, <1>2, <1>3, <1>4 DEF Keys
  <1>6. /\ l \in inLink <=> h[1] = "linkUpdate"
        /\ f.pc \in Naming \ {"setTags"} => (body[l] = None <=> h[1] = "linkCreate")
        /\ f.pc \in Naming \ {"setBody", "setTags"} => Index(l) = {}
        /\ f.pc \in {"setBody", "setTags"} => Index(l) = NameKey(l, f.new)
        /\ f.pc = "setTags" => body[l] = f.new
    BY <1>1, <1>3, <1>5 DEF Doing
  <1>7. f.pc \in Writing => f.new \in LinkBody
    BY <1>4 DEF FrameOK
  <1>8. ASSUME NEW s \in Location, s # "await", Local(h, s)
        PROVE  frame'[h].pc = s /\ frame'[h].new = f.new
    BY <1>1, <1>3, <1>4, <1>8, LocalEffect
  <1>9. CASE ChooseName(h)
    <2>1. PICK s \in {"setName", "readGen"} : Local(h, s) /\ f.pc = "name" /\ UNCHANGED graph
      BY <1>1, <1>9, <1>3 DEF ChooseName, At
    <2>2. frame'[h].pc = s
      BY <1>8, <2>1 DEF Location
    <2>3. UNCHANGED <<body, inLink>> /\ \A j : Index(j)' = Index(j)
      BY <2>1, IndexSame DEF graph, links
    <2>4. Doing(h)'
      BY <1>5, <1>6, <2>1, <2>2, <2>3 DEF Doing, Naming, Writing, Dropping
    <2> QED
      BY <1>1, <1>2, <2>3, <2>4, StepKeys
  <1>10. CASE ReadGen(h)
    <2>1. f.pc = "readGen" /\ UNCHANGED graph
          /\ frame' = [frame EXCEPT ![h].pc = "writeGen", ![h].new.name = nameGen[h[2]]]
      BY <1>1, <1>10 DEF ReadGen, At
    <2>2. frame'[h].pc = "writeGen"
      BY <1>1, <1>4, <2>1 DEF Frame
    <2>3. UNCHANGED <<body, inLink>> /\ \A j : Index(j)' = Index(j)
      BY <2>1, IndexSame DEF graph, links
    <2>4. Doing(h)'
      BY <1>5, <1>6, <2>1, <2>2, <2>3 DEF Doing, Naming, Writing, Dropping
    <2> QED
      BY <1>1, <1>2, <2>3, <2>4, StepKeys
  <1>11. CASE WriteGen(h) \/ SetName(h)
    <2>1. PICK s \in {"setName", "setIndex"} :
               /\ Local(h, s) /\ f.pc \in {"writeGen", "setName"}
               /\ UNCHANGED <<body, outIndex, inLink>>
      BY <1>1, <1>11 DEF WriteGen, SetName, At
    <2>2. frame'[h].pc = s
      BY <1>8, <2>1 DEF Location
    <2>3. \A j : Index(j)' = Index(j)
      BY <2>1, IndexSame
    <2>4. Doing(h)'
      BY <1>5, <1>6, <2>1, <2>2, <2>3 DEF Doing, Naming, Writing, Dropping
    <2> QED
      BY <1>1, <1>2, <2>1, <2>3, <2>4, StepKeys
  <1>12. CASE SetIndex(h)
    <2>1. /\ f.pc = "setIndex" /\ Local(h, "setBody") /\ UNCHANGED <<body, inLink>>
          /\ outIndex' = outIndex \cup NameKey(l, f.new)
      BY <1>1, <1>12 DEF SetIndex, At, LinkOf, NameKey
    <2>2. frame'[h].pc = "setBody" /\ frame'[h].new = f.new
      BY <1>8, <2>1 DEF Location
    <2>3. Index(l)' = Index(l) \cup NameKey(l, f.new) /\ \A j : j # l => Index(j)' = Index(j)
      BY <2>1, KeyParts, IndexAdd
    <2>4. Doing(h)'
      BY <1>5, <1>6, <2>1, <2>2, <2>3 DEF Doing, Naming, Writing, Dropping
    <2> QED
      BY <1>1, <1>2, <2>1, <2>3, <2>4, StepKeys
  <1>13. CASE SetBody(h)
    <2>1. /\ f.pc = "setBody" /\ Local(h, "setTags") /\ UNCHANGED <<outIndex, inLink>>
          /\ body' = [body EXCEPT ![l] = f.new]
      BY <1>1, <1>13 DEF SetBody, At, LinkOf
    <2>2. frame'[h].pc = "setTags" /\ frame'[h].new = f.new
      BY <1>8, <2>1 DEF Location
    <2>3. \A j : Index(j)' = Index(j)
      BY <2>1, IndexSame
    <2>4. body'[l] = f.new /\ \A j : j # l => body'[j] = body[j]
      <3>1. body \in [Link -> LinkBody \cup {None}]
        BY <1>4 DEF TypeOK
      <3> QED
        BY <1>4, <2>1, <3>1
    <2>5. Doing(h)'
      BY <1>5, <1>6, <2>1, <2>2, <2>3, <2>4 DEF Doing, Naming, Writing, Dropping
    <2> QED
      BY <1>1, <1>2, <2>1, <2>3, <2>4, <2>5, StepKeys
  <1>14. CASE SetTags(h)
    <2>1. /\ f.pc = "setTags" /\ UNCHANGED <<body, inLink>>
          /\ Local(h, IF h[1] = "linkCreate" THEN "requestIn" ELSE "reply")
          /\ outIndex' = outIndex \cup TagKeys(l, f.new.tags)
      BY <1>1, <1>14 DEF SetTags, At, LinkOf, Of
    <2>2. frame'[h].pc = IF h[1] = "linkCreate" THEN "requestIn" ELSE "reply"
      BY <1>8, <2>1 DEF Location
    <2>3. Index(l)' = Index(l) \cup TagKeys(l, f.new.tags)
          /\ \A j : j # l => Index(j)' = Index(j)
      <3>1. \A k \in TagKeys(l, f.new.tags) : k[1] = l
        BY KeyParts
      <3> QED
        BY <2>1, <3>1, IndexAdd
    <2>4. Index(l)' = AllKeys(l, f.new) /\ body'[l] = f.new /\ f.new # None
      BY <1>6, <1>7, <2>1, <2>3, KeyParts DEF Writing
    <2>5. CASE h[1] = "linkCreate"
      <3>1. Due(h, l)'
        BY <1>6, <2>1, <2>4, <2>5 DEF Due
      <3>2. Doing(h)'
        BY <1>5, <2>2, <2>5, <3>1 DEF Doing, Naming, Writing, Dropping
      <3> QED
        BY <1>1, <1>2, <2>1, <2>3, <3>2, StepKeys
    <2>6. CASE h[1] = "linkUpdate"
      <3>1. Whole(l)'
        BY <1>6, <2>1, <2>4, <2>6 DEF Whole
      <3>2. Doing(h)'
        BY <1>5, <2>2, <2>4, <2>6, <3>1 DEF Doing, Naming, Writing, Dropping
      <3> QED
        BY <1>1, <1>2, <2>1, <2>3, <3>2, StepKeys
    <2> QED
      BY <1>4, <2>5, <2>6 DEF Puts
  <1> QED
    BY <1>9, <1>10, <1>11, <1>12, <1>13, <1>14

\* The keys of a link as they are deleted.
LEMMA DroppingKeys ==
    ASSUME Orderly, Keys, NEW h \in Handler,
           \/ InLink(h) \/ DeleteStart(h) \/ ReadBody(h)
           \/ DropBody(h) \/ DropName(h) \/ DropIndex(h) \/ DropTags(h)
    PROVE  Keys'
  <1>1. PICK f, l : f = frame[h] /\ l = f.msg.link
    OBVIOUS
  <1>2. Moves(h) /\ FrameOK(h, frame'[h]) /\ frame'[h].msg = f.msg
    BY <1>1, DroppingOK DEF Orderly, IInv, Moves
  <1>3. f # None /\ f.pc # "await"
    BY <1>1 DEF InLink, DeleteStart, ReadBody, DropBody, DropName, DropIndex, DropTags, At
  <1>4. /\ f \in Frame /\ FrameOK(h, f) /\ l \in Link /\ l # None
        /\ frame \in [Handler -> Frame \cup {None}] /\ TypeOK
        /\ f.pc = "inLink" => h[1] \in {"linkCreate", "linkDelete"}
        /\ f.pc \in Dropping => h[1] \in {"linkUpdate", "linkDelete"}
        /\ f.pc \in {"readBody", "dropBody"} => h[1] = "linkDelete"
    <2>1. TypeOK /\ WellFormed
      BY DEF Orderly, IInv
    <2>2. /\ f \in Frame /\ FrameOK(h, f) /\ MsgOK(h, f.msg)
          /\ h[1] \in LinkFunction => l \in Link
          /\ f.pc = "inLink" => f.msg.in
          /\ f.pc \in Dropping => h[1] \in {"linkUpdate", "linkDelete"}
          /\ f.pc \in {"readBody", "dropBody"} => h[1] = "linkDelete"
      BY <1>1, <1>3, <2>1, Located
    <2>3. f.pc = "inLink" => h[1] \in {"linkCreate", "linkDelete"}
      BY <2>2 DEF MsgOK
    <2>4. h[1] \in LinkFunction
      BY <1>1, <2>2, <2>3 DEF InLink, DeleteStart, ReadBody, DropBody, DropName, DropIndex,
           DropTags, At, Of, Dropping, LinkFunction
    <2> QED
      BY <2>1, <2>2, <2>3, <2>4 DEF TypeOK
  <1>5. Doing(h) /\ frame'[h].msg.link = l
    BY <1>1, <1>2, <1>3, <1>4 DEF Keys
  <1>6. /\ f.pc = "start" => Whole(l)
        /\ f.pc = "inLink" => Due(h, l)
        /\ f.pc \in {"readBody", "dropBody"} => Whole(l) /\ body[l] # None
        /\ f.pc = "dropBody" => body[l] = f.old
        /\ f.pc \in Dropping => l \in inLink
        /\ f.pc \in Dropping => body[l] = IF h[1] = "linkDelete" THEN None ELSE f.old
        /\ f.pc \in {"dropName", "dropIndex"} => Index(l) = AllKeys(l, f.old)
        /\ f.pc = "dropTags" => Index(l) = TagKeys(l, f.old.tags)
    BY <1>1, <1>5 DEF Doing
  <1>7. f.pc \in Dropping => f.old \in LinkBody
    BY <1>4 DEF FrameOK
  <1>8. ASSUME NEW s \in Location, s # "await", Local(h, s)
        PROVE  frame'[h].pc = s /\ frame'[h].old = f.old
    BY <1>1, <1>3, <1>4, <1>8, LocalEffect
  <1>9. CASE InLink(h)
    <2>1. /\ f.pc = "inLink" /\ Local(h, "reply") /\ UNCHANGED <<body, outIndex>>
          /\ inLink' = IF h[1] = "linkCreate" THEN inLink \cup {l} ELSE inLink \ {l}
      BY <1>1, <1>9 DEF InLink, At, LinkOf, Of
    <2>2. frame'[h].pc = "reply"
      BY <1>8, <2>1 DEF Location
    <2>3. \A j : Index(j)' = Index(j)
      BY <2>1, IndexSame
    <2>4. Whole(l)' /\ (body'[l] = None <=> h[1] = "linkDelete")
      BY <1>4, <1>6, <2>1, <2>3 DEF Whole, Due
    <2>5. Doing(h)'
      BY <1>5, <2>2, <2>4 DEF Doing, Naming, Writing, Dropping
    <2> QED
      BY <1>1, <1>2, <2>1, <2>3, <2>5, StepKeys
  <1>10. CASE DeleteStart(h)
    <2>1. /\ f.pc = "start" /\ h[1] = "linkDelete" /\ UNCHANGED graph
          /\ Local(h, IF body[l] = None THEN "reply" ELSE "readBody")
      BY <1>1, <1>10 DEF DeleteStart, At, LinkOf, Of
    <2>2. frame'[h].pc = IF body[l] = None THEN "reply" ELSE "readBody"
      BY <1>8, <2>1 DEF Location
    <2>3. UNCHANGED <<body, inLink>> /\ \A j : Index(j)' = Index(j)
      BY <2>1, IndexSame DEF graph, links
    <2>4. Whole(l)'
      BY <1>6, <2>1, SameGraph
    <2>5. Doing(h)'
      BY <1>5, <2>1, <2>2, <2>3, <2>4 DEF Doing, Naming, Writing, Dropping
    <2> QED
      BY <1>1, <1>2, <2>3, <2>5, StepKeys
  <1>11. CASE ReadBody(h)
    <2>1. /\ f.pc = "readBody" /\ UNCHANGED graph
          /\ frame' = [frame EXCEPT ![h].pc = "dropBody", ![h].old = body[l]]
      BY <1>1, <1>11 DEF ReadBody, At, LinkOf
    <2>2. frame'[h].pc = "dropBody" /\ frame'[h].old = body[l]
      BY <1>1, <1>4, <2>1 DEF Frame
    <2>3. UNCHANGED <<body, inLink>> /\ \A j : Index(j)' = Index(j)
      BY <2>1, IndexSame DEF graph, links
    <2>4. Whole(l)' /\ body'[l] # None
      BY <1>6, <2>1, <2>3, SameGraph
    <2>5. Doing(h)'
      BY <1>5, <2>1, <2>2, <2>3, <2>4 DEF Doing, Naming, Writing, Dropping
    <2> QED
      BY <1>1, <1>2, <2>3, <2>5, StepKeys
  <1>12. CASE DropBody(h)
    <2>1. /\ f.pc = "dropBody" /\ UNCHANGED <<outIndex, inLink>>
          /\ Local(h, IF f.old = None THEN "requestIn" ELSE "dropName")
          /\ body' = [body EXCEPT ![l] = None]
      BY <1>1, <1>12 DEF DropBody, At, LinkOf
    <2>2. /\ frame'[h].pc = "dropName" /\ frame'[h].old = f.old
      BY <1>6, <1>8, <2>1 DEF Location
    <2>3. \A j : Index(j)' = Index(j)
      BY <2>1, IndexSame
    <2>4. body'[l] = None /\ \A j : j # l => body'[j] = body[j]
      <3>1. body \in [Link -> LinkBody \cup {None}]
        BY <1>4 DEF TypeOK
      <3> QED
        BY <1>4, <2>1, <3>1
    <2>5. Index(l)' = AllKeys(l, f.old) /\ l \in inLink' /\ h[1] = "linkDelete"
      BY <1>4, <1>6, <2>1, <2>3 DEF Whole
    <2>6. Doing(h)'
      BY <1>5, <2>2, <2>4, <2>5 DEF Doing, Naming, Writing, Dropping
    <2> QED
      BY <1>1, <1>2, <2>1, <2>3, <2>4, <2>6, StepKeys
  <1>13. CASE DropName(h)
    <2>1. /\ f.pc = "dropName" /\ UNCHANGED <<body, outIndex, inLink>>
          /\ Local(h, "dropIndex")
      BY <1>1, <1>13 DEF DropName, At
    <2>2. frame'[h].pc = "dropIndex" /\ frame'[h].old = f.old
      BY <1>8, <2>1 DEF Location
    <2>3. \A j : Index(j)' = Index(j)
      BY <2>1, IndexSame
    <2>4. Doing(h)'
      BY <1>5, <1>6, <2>1, <2>2, <2>3 DEF Doing, Naming, Writing, Dropping
    <2> QED
      BY <1>1, <1>2, <2>1, <2>3, <2>4, StepKeys
  <1>14. CASE DropIndex(h)
    <2>1. /\ f.pc = "dropIndex" /\ UNCHANGED <<body, inLink>> /\ Local(h, "dropTags")
          /\ outIndex' = outIndex \ NameKey(l, f.old)
      BY <1>1, <1>14 DEF DropIndex, At, LinkOf, NameKey
    <2>2. frame'[h].pc = "dropTags" /\ frame'[h].old = f.old
      BY <1>8, <2>1 DEF Location
    <2>3. Index(l)' = Index(l) \ NameKey(l, f.old) /\ \A j : j # l => Index(j)' = Index(j)
      <3>1. \A k \in NameKey(l, f.old) : k[1] = l
        BY KeyParts
      <3> QED
        BY <2>1, <3>1, IndexDrop
    <2>4. Index(l)' = TagKeys(l, f.old.tags)
      BY <1>6, <2>1, <2>3, KeyParts
    <2>5. Doing(h)'
      BY <1>5, <1>6, <2>1, <2>2, <2>4 DEF Doing, Naming, Writing, Dropping
    <2> QED
      BY <1>1, <1>2, <2>1, <2>3, <2>5, StepKeys
  <1>15. CASE DropTags(h)
    <2>1. /\ f.pc = "dropTags" /\ UNCHANGED <<body, inLink>>
          /\ Local(h, IF h[1] = "linkDelete" THEN "requestIn" ELSE "name")
          /\ outIndex' = outIndex \ TagKeys(l, f.old.tags)
      BY <1>1, <1>15 DEF DropTags, At, LinkOf, Of
    <2>2. frame'[h].pc = IF h[1] = "linkDelete" THEN "requestIn" ELSE "name"
      BY <1>8, <2>1 DEF Location
    <2>3. Index(l)' = Index(l) \ TagKeys(l, f.old.tags) /\ \A j : j # l => Index(j)' = Index(j)
      <3>1. \A k \in TagKeys(l, f.old.tags) : k[1] = l
        BY KeyParts
      <3> QED
        BY <2>1, <3>1, IndexDrop
    <2>4. Index(l)' = {} /\ l \in inLink'
      BY <1>6, <2>1, <2>3 DEF Dropping
    <2>5. CASE h[1] = "linkDelete"
      <3>1. body'[l] = None
        BY <1>6, <2>1, <2>5 DEF Dropping
      <3>2. Due(h, l)'
        BY <2>4, <2>5, <3>1 DEF Due
      <3>3. Doing(h)'
        BY <1>5, <2>2, <2>5, <3>2 DEF Doing, Naming, Writing, Dropping
      <3> QED
        BY <1>1, <1>2, <2>1, <2>3, <3>3, StepKeys
    <2>6. CASE h[1] = "linkUpdate"
      <3>1. body'[l] # None
        BY <1>6, <1>7, <2>1, <2>6 DEF Dropping
      <3>2. Doing(h)'
        BY <1>5, <2>2, <2>4, <2>6, <3>1 DEF Doing, Naming, Writing, Dropping
      <3> QED
        BY <1>1, <1>2, <2>1, <2>3, <3>2, StepKeys
    <2> QED
      BY <1>4, <2>1, <2>5, <2>6 DEF Dropping
  <1> QED
    BY <1>9, <1>10, <1>11, <1>12, <1>13, <1>14, <1>15

\* The keys of a link when a function of it begins, or requests another one.
LEMMA StartKeys ==
    ASSUME Orderly, Keys, Known, NEW h \in Handler,
           \/ CreateStart(h) \/ UpdateStart(h) \/ VertexStart(h) \/ RequestIn(h)
           \/ RequestDelete(h)
    PROVE  Keys'
  <1>1. PICK f, l : f = frame[h] /\ l = f.msg.link
    OBVIOUS
  <1>2. Moves(h) \/ SendsWell(h)
    BY StartOK DEF Orderly, IInv
  <1>3. /\ f # None /\ f.pc # "await" /\ f.pc \notin {"inLink", "reply"}
        /\ UNCHANGED graph
    BY <1>1 DEF CreateStart, UpdateStart, VertexStart, RequestIn, RequestDelete, At
  <1>4. /\ f \in Frame /\ FrameOK(h, f) /\ TypeOK
        /\ frame \in [Handler -> Frame \cup {None}]
        /\ h[1] \in LinkFunction => l \in Link /\ l # None
        /\ h[1] \in VertexFunction => l = None
        /\ f.pc = "requestIn" => h[1] \in {"linkCreate", "linkDelete"}
        /\ f.pc \in {"deleteOut", "deleteIn"} => h[1] = "vertexDelete"
    <2>1. TypeOK /\ WellFormed
      BY DEF Orderly, IInv
    <2> QED
      BY <1>1, <1>3, <2>1, Located DEF TypeOK
  <1>5. h[1] \in LinkFunction => Doing(h)
    BY <1>1, <1>3, <1>4 DEF Keys
  <1>6. /\ h[1] \in LinkFunction /\ f.pc = "start" => Whole(l)
        /\ h[1] \in LinkFunction /\ f.pc = "requestIn" => Due(h, l)
    BY <1>1, <1>5 DEF Doing
  <1>7. UNCHANGED <<body, inLink>> /\ \A j : Index(j)' = Index(j)
    BY <1>3, IndexSame DEF graph, links
  <1>8. Moves(h) => frame'[h].msg = f.msg
    BY <1>1 DEF Moves
  <1>9. ASSUME h[1] \in LinkFunction, Moves(h), Doing(h)' PROVE Keys'
    BY <1>1, <1>7, <1>9, StepKeys
  <1>10. ASSUME NEW s \in Location, Local(h, s), s # "await"
         PROVE  Moves(h) /\ frame'[h].pc = s
    BY <1>1, <1>3, <1>4, <1>10, LocalEffect
  <1>11. ASSUME NEW s \in Location,
                frame' = [frame EXCEPT ![h].pc = "await", ![h].then = s]
         PROVE  frame'[h].pc = "await" /\ frame'[h].then = s /\ ~Moves(h)
    <2>1. frame'[h].pc = "await" /\ frame'[h].then = s
      BY <1>1, <1>3, <1>4, <1>11 DEF Frame
    <2> QED
      BY <2>1 DEF Moves
  <1>12. CASE CreateStart(h) /\ body[l] = None
    <2>1. /\ f.pc = "start" /\ h[1] = "linkCreate" /\ Local(h, "name")
      BY <1>1, <1>12 DEF CreateStart, At, LinkOf, Of
    <2>2. Moves(h) /\ frame'[h].pc = "name"
      BY <1>10, <2>1 DEF Location
    <2>3. body'[l] = None /\ Index(l)' = {} /\ l \notin inLink' /\ frame'[h].msg.link = l
      BY <1>1, <1>6, <1>7, <1>8, <1>12, <2>1, <2>2 DEF Whole, LinkFunction
    <2>4. Doing(h)'
      BY <2>1, <2>2, <2>3 DEF Doing, Naming, Writing, Dropping
    <2> QED
      BY <1>9, <2>1, <2>2, <2>4 DEF LinkFunction
  <1>13. CASE CreateStart(h) /\ body[l] # None
    <2>1. /\ f.pc = "start" /\ h[1] = "linkCreate"
          /\ frame' = [frame EXCEPT ![h].pc = "await", ![h].then = "name"]
      BY <1>1, <1>13 DEF CreateStart, At, LinkOf, Of, Request
    <2>2. frame'[h].then = "name" /\ SendsWell(h)
      BY <1>2, <1>11, <2>1 DEF Location
    <2>3. Whole(frame[h].msg.link)
      BY <1>1, <1>6, <2>1 DEF LinkFunction
    <2> QED
      BY <1>3, <2>1, <2>2, <2>3, SendsKeys
  <1>14. CASE UpdateStart(h)
    <2>1. f.pc = "start" /\ h[1] = "linkUpdate" /\ h[1] \in LinkFunction
      BY <1>1, <1>14 DEF UpdateStart, At, Of, LinkFunction
    <2>2. CASE frame' = [frame EXCEPT ![h].pc = "await", ![h].then = "reply"]
      <3>1. SendsWell(h)
        BY <1>2, <1>11, <2>2 DEF Location
      <3>2. Whole(frame[h].msg.link)
        BY <1>1, <1>6, <2>1
      <3> QED
        BY <1>3, <2>1, <3>1, <3>2, SendsKeys
    <2>3. ASSUME body[l] # None, NEW b,
                 frame' = [frame EXCEPT ![h].pc = "dropName", ![h].old = body[l], ![h].new = b]
          PROVE  Keys'
      <3>1. frame'[h].pc = "dropName" /\ frame'[h].old = body[l]
        BY <1>1, <1>3, <1>4, <2>3 DEF Frame
      <3>2. Moves(h)
        BY <1>2, <3>1 DEF SendsWell, Sends
      <3>3. body'[l] = body[l] /\ Index(l)' = AllKeys(l, body[l]) /\ l \in inLink'
            /\ frame'[h].msg.link = l
        BY <1>1, <1>6, <1>7, <1>8, <2>1, <2>3, <3>2 DEF Whole
      <3>4. PICK old : old = body[l]
        OBVIOUS
      <3>5. Doing(h)'
        BY <2>1, <3>1, <3>3, <3>4 DEF Doing, Naming, Writing, Dropping
      <3> QED
        BY <1>9, <2>1, <3>2, <3>5
    <2> QED
      BY <1>1, <1>14, <2>2, <2>3 DEF UpdateStart, Request, LinkOf
  <1>15. CASE VertexStart(h)
    <2>1. h[1] \in {"vertexCreate", "vertexUpdate"} /\ frame[h].msg.link = None
      BY <1>1, <1>4, <1>15 DEF VertexStart, VertexFunction
    <2>2. CASE Moves(h)
      BY <1>3, <2>1, <2>2, SameGraph, MovesKeys
    <2>3. CASE SendsWell(h)
      BY <1>3, <2>1, <2>3, SendsKeys DEF LinkFunction
    <2> QED
      BY <1>2, <2>2, <2>3
  <1>16. CASE RequestIn(h)
    <2>1. /\ f.pc = "requestIn"
          /\ frame' = [frame EXCEPT ![h].pc = "await", ![h].then = "reply"]
      BY <1>1, <1>16 DEF RequestIn, At, Request
    <2>2. h[1] \in {"linkCreate", "linkDelete"} /\ h[1] \in LinkFunction
      BY <1>4, <2>1 DEF LinkFunction
    <2>3. frame'[h].then = "reply" /\ SendsWell(h)
      BY <1>2, <1>11, <2>1 DEF Location
    <2>4. Due(h, frame[h].msg.link)
      BY <1>1, <1>6, <2>1, <2>2
    <2> QED
      BY <1>3, <2>2, <2>3, <2>4, SendsKeys
  <1>17. CASE RequestDelete(h)
    <2>1. h[1] = "vertexDelete" /\ frame[h].msg.link = None
      BY <1>1, <1>4, <1>17 DEF RequestDelete, At, VertexFunction
    <2>2. /\ frame[h].todo \subseteq CalledLinks
          /\ \A j \in frame[h].todo : h[2] \in {j.from, j.to}
      BY <1>1, <1>3, <1>4, <2>1 DEF Known, FrameOK
    <2>3. CASE Moves(h)
      BY <1>3, <2>1, <2>3, SameGraph, MovesKeys
    <2>4. CASE SendsWell(h)
      BY <1>3, <2>1, <2>2, <2>4, SendsKeys DEF LinkFunction
    <2> QED
      BY <1>2, <2>3, <2>4
  <1> QED
    BY <1>12, <1>13, <1>14, <1>15, <1>16, <1>17

\* A vertex function writes no keys of links by itself.
LEMMA VertexKeys ==
    ASSUME Orderly, Keys, NEW h \in Handler,
           \/ SetVertex(h) \/ ListOut(h) \/ ListIn(h) \/ DropGen(h) \/ DropVertex(h)
    PROVE  Keys'
  <1>1. Moves(h)
    BY VertexOK DEF Orderly, IInv
  <1>2. UNCHANGED <<body, outIndex, inLink>>
    BY DEF SetVertex, ListOut, ListIn, DropGen, DropVertex, graph, links
  <1>3. \A k : SameKeys(k)
    BY <1>2, IndexSame DEF SameKeys
  <1>4. frame[h].msg.link = None
    <2>1. /\ frame[h] # None
          /\ frame[h].pc \in {"setVertex", "start", "deleteOut", "deleteIn", "dropVertex"}
          /\ frame[h].pc = "start" => h[1] = "vertexDelete"
      BY DEF SetVertex, ListOut, ListIn, DropGen, DropVertex, At, Of
    <2>2. h[1] \in VertexFunction
      BY <2>1, Located DEF Orderly, IInv, VertexFunction
    <2> QED
      BY <2>1, <2>2, Located DEF Orderly, IInv
  <1> QED
    BY <1>1, <1>3, <1>4, MovesKeys

\* A link that a message is about is one that somebody calls for.
LEMMA LinkIsCalled ==
    ASSUME IInv, Serving, NEW h \in Handler, NEW m \in Held(h), m.link # None
    PROVE  m.link \in CalledLinks
  <1>1. /\ Root(m) \in Client /\ client[Root(m)] \in Calls[Root(m)]
        /\ m.link \in Footprint(client[Root(m)])
    BY Depth DEF Serving, Within
  <1>2. PICK c \in Client : \E call \in Calls[c] : m.link \in Footprint(call)
    BY <1>1
  <1>3. PICK call \in Calls[c] : m.link \in Footprint(call)
    BY <1>2
  <1>4. \/ m.link = call.link
        \/ m.link \in CalledLinks
    <2>1. CASE call.handler[1] \in LinkFunction
      BY <1>3, <2>1 DEF Footprint
    <2>2. CASE call.handler[1] \notin LinkFunction /\ call.handler[1] = "vertexUpdate"
      BY <1>3, <2>2 DEF Footprint
    <2>3. CASE call.handler[1] \notin LinkFunction /\ call.handler[1] # "vertexUpdate"
      BY <1>3, <2>3 DEF Footprint
    <2> QED
      BY <2>1, <2>2, <2>3
  <1> QED
    BY <1>4 DEF CalledLinks

\* A step of a link function leaves alone what it does not write of its frame,
\* and makes no key of another link.
LEMMA LinkStepEffect ==
    ASSUME TypeOK, WellFormed, NEW h \in Handler, frame[h] # None, LinkStep(h)
    PROVE  /\ frame'[h].todo = frame[h].todo
           /\ frame[h].msg.link \in Link
           /\ \A x \in Handler \ {h} : frame'[x] = frame[x]
           /\ \A j \in Link : j # frame[h].msg.link =>
                 /\ body'[j] = body[j]
                 /\ j \in inLink' <=> j \in inLink
           /\ UNCHANGED <<vertex, client>>
  <1> DEFINE f == frame[h]
             l == f.msg.link
  <1>1. /\ f \in Frame /\ frame \in [Handler -> Frame \cup {None}]
        /\ body \in [Link -> LinkBody \cup {None}]
    BY DEF TypeOK
  <1>2. l \in Link
    <2>1. h[1] \in LinkFunction
      <3>1. f.pc \in Naming => h[1] \in LinkFunction
        BY Located DEF Puts, LinkFunction
      <3>2. f.pc \in Dropping \cup {"requestIn", "readBody", "dropBody"} => h[1] \in LinkFunction
        BY Located DEF LinkFunction
      <3>3. f.pc = "inLink" => h[1] \in LinkFunction
        <4>1. f.pc = "inLink" => f.msg.in /\ MsgOK(h, f.msg)
          BY Located
        <4> QED
          BY <4>1, Zenon DEF MsgOK, LinkFunction
      <3>4. \/ f.pc \in Naming \/ f.pc \in Dropping \cup {"requestIn", "readBody", "dropBody"}
            \/ f.pc = "inLink"
            \/ h[1] \in LinkFunction
        BY DEF LinkStep, CreateStart, UpdateStart, ChooseName, ReadGen, WriteGen, SetName,
             SetIndex, SetBody, SetTags, RequestIn, InLink, DeleteStart, ReadBody, DropBody,
             DropName, DropIndex, DropTags, At, Of, Naming, Writing, Dropping, LinkFunction
      <3> QED
        BY <3>1, <3>2, <3>3, <3>4
    <2> QED
      BY <2>1, Located
  <1>3. \/ \E s : Local(h, s)
        \/ \E s, d : frame' = [frame EXCEPT ![h].pc = s, ![h].then = d]
        \/ UpdateStart(h) \/ ReadGen(h) \/ ReadBody(h)
    BY DEF LinkStep, CreateStart, ChooseName, WriteGen, SetName,
         SetIndex, SetBody, SetTags, RequestIn, InLink, DeleteStart, DropBody,
         DropName, DropIndex, DropTags, Request
  <1>4. frame'[h].todo = f.todo /\ \A x \in Handler \ {h} : frame'[x] = frame[x]
    <2>1. CASE \E s : Local(h, s)
      BY <1>1, <2>1 DEF Local, Next_, Frame
    <2>2. CASE \E s, d : frame' = [frame EXCEPT ![h].pc = s, ![h].then = d]
      BY <1>1, <2>2 DEF Frame
    <2>3. CASE UpdateStart(h)
      <3>1. CASE \E b : frame' = [frame EXCEPT ![h].pc = "dropName", ![h].old = body[l], ![h].new = b]
        BY <1>1, <3>1 DEF Frame
      <3>2. CASE frame' = [frame EXCEPT ![h].pc = "await", ![h].then = "reply"]
        BY <1>1, <3>2 DEF Frame
      <3> QED
        BY <2>3, <3>1, <3>2 DEF UpdateStart, Request, LinkOf
    <2>4. CASE ReadGen(h)
      BY <1>1, <2>4 DEF ReadGen, Frame
    <2>5. CASE ReadBody(h)
      BY <1>1, <2>5 DEF ReadBody, Frame
    <2> QED
      BY <1>3, <2>1, <2>2, <2>3, <2>4, <2>5
  <1>5. UNCHANGED <<vertex, client>>
    BY DEF LinkStep, CreateStart, UpdateStart, ChooseName, ReadGen, WriteGen, SetName,
         SetIndex, SetBody, SetTags, RequestIn, InLink, DeleteStart, ReadBody, DropBody,
         DropName, DropIndex, DropTags, Request, Local, graph, links
  <1>6. \/ UNCHANGED body
        \/ \E b : body' = [body EXCEPT ![l] = b]
    BY DEF LinkStep, CreateStart, UpdateStart, ChooseName, ReadGen, WriteGen, SetName,
         SetIndex, SetBody, SetTags, RequestIn, InLink, DeleteStart, ReadBody, DropBody,
         DropName, DropIndex, DropTags, graph, links, LinkOf
  <1>7. UNCHANGED inLink \/ inLink' = inLink \cup {l} \/ inLink' = inLink \ {l}
    BY DEF LinkStep, CreateStart, UpdateStart, ChooseName, ReadGen, WriteGen, SetName,
         SetIndex, SetBody, SetTags, RequestIn, InLink, DeleteStart, ReadBody, DropBody,
         DropName, DropIndex, DropTags, graph, links, LinkOf
  <1> QED
    BY <1>1, <1>2, <1>4, <1>5, <1>6, <1>7

\* A step of a vertex function writes no link.
LEMMA VertexStepEffect ==
    ASSUME TypeOK, WellFormed, NEW h \in Handler, frame[h] # None, VertexStep(h)
    PROVE  /\ UNCHANGED <<body, outName, outIndex, inLink, client>>
           /\ \A x \in Handler \ {h} : frame'[x] = frame[x]
           /\ \A j \in frame'[h].todo : j \in frame[h].todo \/ body[j] # None \/ j \in inLink
           /\ frame'[h].todo \subseteq Link
           /\ h[1] \in VertexFunction /\ frame[h].msg.link = None
  <1> DEFINE f == frame[h]
  <1>1. f \in Frame /\ frame \in [Handler -> Frame \cup {None}] /\ inLink \subseteq Link
    BY DEF TypeOK
  <1>2. UNCHANGED <<body, outName, outIndex, inLink, client>>
    BY DEF VertexStep, VertexStart, SetVertex, ListOut, ListIn, RequestDelete, DropGen,
         DropVertex, Request, Local, graph, links
  <1>3. \/ \E s : Local(h, s)
        \/ \E s, d : frame' = [frame EXCEPT ![h].pc = s, ![h].then = d]
        \/ ListOut(h) \/ ListIn(h) \/ RequestDelete(h)
    BY DEF VertexStep, VertexStart, SetVertex, DropGen, DropVertex, Request
  <1>4. /\ \A x \in Handler \ {h} : frame'[x] = frame[x]
        /\ \A j \in frame'[h].todo : j \in f.todo \/ body[j] # None \/ j \in inLink
        /\ frame'[h].todo \subseteq Link
    <2>1. CASE \E s : Local(h, s)
      BY <1>1, <2>1 DEF Local, Next_, Frame
    <2>2. CASE \E s, d : frame' = [frame EXCEPT ![h].pc = s, ![h].then = d]
      BY <1>1, <2>2 DEF Frame
    <2>3. CASE ListOut(h)
      <3> DEFINE T == {j \in Link : j.from = h[2] /\ body[j] # None}
      <3>1. frame'[h].todo = T /\ \A x \in Handler \ {h} : frame'[x] = frame[x]
        BY <1>1, <2>3 DEF ListOut, Frame
      <3> QED
        BY <3>1
    <2>4. CASE ListIn(h)
      <3> DEFINE T == {j \in inLink : j.to = h[2]}
      <3>1. frame'[h].todo = T /\ \A x \in Handler \ {h} : frame'[x] = frame[x]
        BY <1>1, <2>4 DEF ListIn, Frame
      <3> QED
        BY <1>1, <3>1
    <2>5. CASE RequestDelete(h)
      <3>1. PICK j : frame' = [frame EXCEPT ![h].pc = "await", ![h].then = frame[h].pc,
                                            ![h].todo = @ \ {j}]
        BY <2>5 DEF RequestDelete
      <3>2. frame'[h].todo = f.todo \ {j} /\ \A x \in Handler \ {h} : frame'[x] = frame[x]
        BY <1>1, <3>1 DEF Frame
      <3>3. f.todo \subseteq Link
        BY <1>1 DEF Frame
      <3> QED
        BY <3>2, <3>3
    <2> QED
      BY <1>3, <2>1, <2>2, <2>3, <2>4, <2>5
  <1>5. h[1] \in VertexFunction
    <2>1. \/ h[1] = "vertexDelete" \/ h[1] \in {"vertexCreate", "vertexUpdate"}
          \/ f.pc \in {"setVertex", "deleteOut", "deleteIn", "dropVertex"}
      BY DEF VertexStep, VertexStart, SetVertex, ListOut, ListIn, RequestDelete, DropGen,
           DropVertex, At, Of
    <2> QED
      BY <2>1, Located DEF VertexFunction
  <1> QED
    BY <1>2, <1>4, <1>5, Located

\* Links that nobody calls for are not made, nor listed.
LEMMA ExecuteKnown ==
    ASSUME Orderly, Known, NEW h \in Handler, frame[h] # None, LinkStep(h) \/ VertexStep(h)
    PROVE  Known'
  <1>1. TypeOK /\ WellFormed
    BY DEF Orderly, IInv
  <1>2. CASE LinkStep(h)
    <2>1. frame[h].msg \in Held(h)
      BY DEF Held
    <2>2. PICK l : l = frame[h].msg.link
      OBVIOUS
    <2>3. /\ frame'[h].todo = frame[h].todo /\ l \in Link /\ l # None
          /\ \A x \in Handler \ {h} : frame'[x] = frame[x]
          /\ \A j \in Link : j # l => body'[j] = body[j] /\ (j \in inLink' <=> j \in inLink)
      BY <1>1, <1>2, <2>2, LinkStepEffect
    <2>4. l \in CalledLinks
      BY <2>1, <2>2, <2>3, LinkIsCalled DEF Orderly
    <2> QED
      BY <2>3, <2>4 DEF Known
  <1>3. CASE VertexStep(h)
    <2>1. /\ UNCHANGED <<body, inLink>>
          /\ \A x \in Handler \ {h} : frame'[x] = frame[x]
          /\ \A j \in frame'[h].todo : j \in frame[h].todo \/ body[j] # None \/ j \in inLink
          /\ frame'[h].todo \subseteq Link
      BY <1>1, <1>3, VertexStepEffect
    <2> QED
      BY <2>1 DEF Known
  <1> QED
    BY <1>2, <1>3

\* Steps that execute nothing make and list none.
LEMMA OtherKnown ==
    ASSUME IInv, Known,
           \/ \E h \in Handler : HandleBegin(h) \/ Reply(h)
           \/ \E c \in Client : \E call \in Calls[c] : ClientCall(c, call)
           \/ UNCHANGED vars
    PROVE  Known'
  <1> SUFFICES /\ UNCHANGED <<body, inLink>>
               /\ \A x \in Handler : frame'[x] # None =>
                    frame'[x].todo = {} \/ (frame[x] # None /\ frame'[x].todo = frame[x].todo)
    BY DEF Known
  <1>1. CASE \E h \in Handler : HandleBegin(h)
    <2>1. PICK h \in Handler : HandleBegin(h)
      BY <1>1
    <2>2. /\ UNCHANGED graph /\ \A x \in Handler \ {h} : frame'[x] = frame[x]
          /\ frame'[h].todo = {}
      BY <2>1, BeginEffect DEF IInv
    <2> QED
      BY <2>2 DEF graph, links
  <1>2. CASE \E h \in Handler : Reply(h)
    <2>1. PICK h \in Handler : Reply(h)
      BY <1>2
    <2>2. PICK to : to = frame[h].msg.caller
      OBVIOUS
    <2>3. /\ UNCHANGED graph /\ frame'[h] = None
          /\ AnswersHandler(h, to) \/ AnswersClient(h, to)
      BY <2>1, <2>2, ReplyEffect
    <2> QED
      BY <2>3 DEF graph, links, AnswersHandler, AnswersClient, Asks
  <1>3. CASE \E c \in Client : \E call \in Calls[c] : ClientCall(c, call)
    BY <1>3 DEF ClientCall, graph, links
  <1>4. CASE UNCHANGED vars
    BY <1>4 DEF vars, graph, links
  <1> QED
    BY <1>1, <1>2, <1>3, <1>4

\* The second invariant.
KInv == IInv /\ Line /\ Serving /\ Known /\ Keys

\* The second invariant holds at first.
LEMMA InitKInv == Init => KInv
  <1> SUFFICES ASSUME Init PROVE KInv
    OBVIOUS
  <1>1. /\ \A h \in Handler : queue[h] = <<>> /\ frame[h] = None /\ Len(queue[h]) = 0
        /\ \A l \in Link : body[l] = None
        /\ inLink = {} /\ outIndex = {}
    BY DEF Init
  <1>2. Known
    BY <1>1 DEF Known
  <1>3. Keys
    BY <1>1 DEF Keys, Whole, Index, Elements
  <1> QED
    BY <1>2, <1>3, InitIInv, InitChains DEF KInv

\* A step of a handler keeps it.
LEMMA ExecuteKInv ==
    ASSUME CallersAreApart, KInv, NEW h \in Handler, frame[h] # None,
           LinkStep(h) \/ VertexStep(h)
    PROVE  KInv'
  <1>1. Orderly /\ Keys /\ Known
    BY DEF KInv, Orderly
  <1>2. GraphTypes' /\ (Moves(h) \/ SendsWell(h)) /\ FrameOK(h, frame'[h])
    BY ExecuteEffect DEF KInv
  <1>3. IInv'
    BY <1>2, MovesIInv, SendsIInv DEF KInv
  <1>4. Line' /\ Serving'
    BY <1>2, MovesChains, SendsChains DEF KInv, Known
  <1>5. Known'
    BY <1>1, ExecuteKnown
  <1>6. Keys'
    <2>1. CASE CreateStart(h) \/ UpdateStart(h) \/ VertexStart(h) \/ RequestIn(h) \/ RequestDelete(h)
      BY <1>1, <2>1, StartKeys
    <2>2. CASE \/ ChooseName(h) \/ ReadGen(h) \/ WriteGen(h) \/ SetName(h)
               \/ SetIndex(h) \/ SetBody(h) \/ SetTags(h)
      BY <1>1, <2>2, NamingKeys
    <2>3. CASE \/ InLink(h) \/ DeleteStart(h) \/ ReadBody(h)
               \/ DropBody(h) \/ DropName(h) \/ DropIndex(h) \/ DropTags(h)
      BY <1>1, <2>3, DroppingKeys
    <2>4. CASE SetVertex(h) \/ ListOut(h) \/ ListIn(h) \/ DropGen(h) \/ DropVertex(h)
      BY <1>1, <2>4, VertexKeys
    <2> QED
      BY <2>1, <2>2, <2>3, <2>4 DEF LinkStep, VertexStep
  <1> QED
    BY <1>3, <1>4, <1>5, <1>6 DEF KInv

\* Every step keeps it.
LEMMA NextKInv ==
    ASSUME CallersAreApart, KInv, [Next]_vars
    PROVE  KInv'
  <1>1. Orderly /\ IInv /\ Line /\ Serving /\ Known /\ Keys /\ IInv'
    BY NextIInv DEF KInv, Orderly
  <1>2. ASSUME NEW c \in Client, NEW call \in Calls[c], ClientCall(c, call) PROVE KInv'
    BY <1>1, <1>2, CallChains, CallKeys, OtherKnown DEF KInv
  <1>3. ASSUME NEW h \in Handler, HandleBegin(h) PROVE KInv'
    BY <1>1, <1>3, BeginChains, BeginKeys, OtherKnown DEF KInv
  <1>4. ASSUME NEW h \in Handler, Reply(h) PROVE KInv'
    BY <1>1, <1>4, ReplyChains, ReplyKeys, OtherKnown DEF KInv
  <1>5. ASSUME NEW h \in Handler, frame[h] # None, LinkStep(h) \/ VertexStep(h) PROVE KInv'
    BY <1>5, ExecuteKInv
  <1>6. CASE UNCHANGED vars
    <2>1. UNCHANGED graph /\ UNCHANGED <<queue, frame, client>>
      BY <1>6 DEF vars
    <2>2. \A h \in Handler : Held(h)' = Held(h) /\ Elements(queue[h])' = Elements(queue[h])
      BY <2>1 DEF Held, Elements
    <2>3. \A h \in Handler : \A m \in Held(h) : Active(h, m)' => Active(h, m)
      BY <2>1, <2>2 DEF Active
    <2>4. WaitersKeep
      BY <2>1 DEF WaitersKeep
    <2>5. Line' /\ Serving'
      BY <1>1, <2>1, <2>2, <2>3, <2>4, QuietChains
    <2>6. Keys'
      <3>1. \A l \in Link : Whole(l)' \/ \E x \in Handler : \E k \in Held(x)' : k.link = l
        BY <1>1, <2>1, <2>2, SameGraph DEF Keys
      <3>2. ASSUME NEW x \in Handler, frame'[x] # None, frame'[x].msg.link # None
            PROVE  Doing(x)'
        <4>1. frame'[x] = frame[x] /\ Doing(x) /\ SameKeys(frame[x].msg.link)
          BY <1>1, <2>1, <3>2, SameGraph DEF Keys
        <4> QED
          BY <4>1, DoingStays
      <3>3. ASSUME NEW x \in Handler, NEW k \in Elements(queue[x]), k.link # None
            PROVE  Ready(x, k)'
        BY <1>1, <2>1, <3>3, SameGraph DEF Keys
      <3> QED
        BY <2>2, <3>1, <3>2, <3>3 DEF Keys
    <2> QED
      BY <1>1, <1>6, <2>5, <2>6, OtherKnown DEF KInv
  <1> QED
    BY <1>2, <1>3, <1>4, <1>5, <1>6 DEF Next, HandlerStep, Execute
-----------------------------------------------------------------------------
(* The third invariant: the names of the links of a vertex *)

\* Where the name key of a link is not, or not only, that of its body.
Renaming == {"dropIndex", "dropTags", "name", "readGen", "writeGen", "setName",
             "setIndex", "setBody"}
Renames(x, l) == /\ frame[x] # None /\ frame[x].msg.link = l
                 /\ frame[x].pc \in Renaming
Keeps(x, l, n) == /\ frame[x] # None /\ frame[x].msg.link = l
                  /\ \/ frame[x].pc \in {"setIndex", "setBody"} /\ n = frame[x].new.name
                     \/ frame[x].pc = "dropName" /\ n = frame[x].old.name

\* The name key that belongs to l, and the name that its body says as well.
Holds(l, n) ==
    \/ body[l] # None /\ n = body[l].name /\ \A x \in Handler : ~Renames(x, l)
    \/ \E x \in Handler : Keeps(x, l, n)
Shows(l, n) == Holds(l, n) \/ (body[l] # None /\ n = body[l].name)

NamesHaveKeys == \A l \in Link : \A n : Holds(l, n) => <<l.from, n>> \in outName
KeysHaveLinks == \A k \in outName : \E l \in Link : l.from = k[1] /\ Holds(l, k[2])
NamesDiffer == \A l, j \in Link : \A n :
    l.from = j.from /\ Shows(l, n) /\ Shows(j, n) => l = j
NamesAreCounted == \A l \in Link : \A n \in Nat : Shows(l, n) => n < nameGen[l.from]

\* The name that h is going to write is free, and has been counted.
NameIsFree(h) == frame[h] # None /\ frame[h].pc = "setName" =>
    <<h[2], frame[h].new.name>> \notin outName
NewIsCounted(h) == frame[h] # None /\ ~frame[h].msg.in /\ Puts(h) =>
    /\ frame[h].pc = "writeGen" => frame[h].new.name = nameGen[h[2]]
    /\ frame[h].pc # "writeGen" /\ frame[h].new.name \in Nat =>
          frame[h].new.name < nameGen[h[2]]

\* The out links of a vertex that is deleted are listed or requested, or gone.
Stage(f) == IF f.pc = "await" THEN f.then ELSE f.pc
OutLinksGo(h) == frame[h] # None /\ h[1] = "vertexDelete" =>
    /\ Stage(frame[h]) = "deleteOut" => \A l \in Link : l.from = h[2] /\ body[l] # None =>
          \/ l \in frame[h].todo
          \/ \E g \in Handler : \E m \in Held(g) : m.caller = h /\ m.link = l
    /\ Stage(frame[h]) = "deleteIn" => \A l \in Link : l.from = h[2] => body[l] = None

Names == /\ NamesHaveKeys /\ KeysHaveLinks /\ NamesDiffer
         /\ NamesAreCounted
         /\ \A h \in Handler : NameIsFree(h) /\ NewIsCounted(h) /\ OutLinksGo(h)

\* A call of a link function changes its link.
LEMMA LinkFootprint ==
    ASSUME NEW call, call.handler[1] \in LinkFunction
    PROVE  Footprint(call) = {call.link}
  <1>1. call.handler[1] # "vertexUpdate"
    BY DEF LinkFunction
  <1> DEFINE F == {call.link}
             O == {l \in CalledLinks : call.handler[2] \in {l.from, l.to}}
  <1>2. Footprint(call) = CASE call.handler[1] \in LinkFunction -> F
                            [] call.handler[1] = "vertexUpdate" -> {}
                            [] OTHER -> O
    BY DEF Footprint
  <1> HIDE DEF F, O
  <1>3. Footprint(call) = F
    BY <1>1, <1>2
  <1> QED
    BY <1>3 DEF F

\* Who chooses names for links of a vertex is alone.
LEMMA OneNamer ==
    ASSUME Orderly, NEW h \in Handler, NEW g \in Handler, frame[h] # None, frame[g] # None,
           ~frame[h].msg.in, ~frame[g].msg.in,
           frame[h].pc # "await", frame[g].pc # "await",
           Puts(h), Puts(g), h[2] = g[2]
    PROVE  h = g
  <1>1. ASSUME NEW x \in Handler, NEW y \in Handler, frame[x] # None, frame[y] # None,
               ~frame[x].msg.in, ~frame[y].msg.in,
               frame[x].pc # "await", frame[y].pc # "await",
               x[1] = "linkUpdate", Puts(y), x[2] = y[2]
        PROVE  x = y
    <2> DEFINE m == frame[x].msg  n == frame[y].msg
               p == client[Root(m)]  q == client[Root(n)]
    <2>1. /\ m \in Held(x) /\ n \in Held(y) /\ Active(x, m) /\ Active(y, n)
      BY <1>1 DEF Held, Active
    <2>2. /\ m.link \in Link /\ m.link.from = x[2] /\ n.link \in Link /\ n.link.from = y[2]
      BY <1>1, Located DEF Orderly, IInv, Puts, LinkFunction
    <2>3. /\ Root(m) \in Client /\ p \in Calls[Root(m)] /\ Within(x, m, p)
          /\ Root(n) \in Client /\ q \in Calls[Root(n)] /\ Within(y, n, q)
      BY <2>1, Depth DEF Orderly, Serving
    <2>4. CASE Root(m) = Root(n)
      <3>1. (x = y /\ m = n) \/ Ancestor(m, y, n)
        BY <2>1, <2>4 DEF Orderly, Line
      <3>2. ~Ancestor(m, y, n)
        BY <1>1, <2>1, AncestorWaits DEF Orderly
      <3> QED
        BY <3>1, <3>2
    <2>5. CASE Root(m) # Root(n)
      <3> HIDE DEF m, n, p, q
      <3>1. p.handler[1] = "linkUpdate" /\ q.handler[1] \in {"linkCreate", "linkUpdate"}
        BY <1>1, <2>3 DEF Within
      <3>2. m.link \in Footprint(p) /\ n.link \in Footprint(q)
        BY <2>2, <2>3 DEF Within
      <3>3. Footprint(p) = {p.link} /\ Footprint(q) = {q.link}
        <4>1. p.handler[1] \in LinkFunction /\ q.handler[1] \in LinkFunction
          BY <3>1 DEF LinkFunction
        <4> QED
          BY <4>1, LinkFootprint
      <3>4. p.link.from = q.link.from
        BY <1>1, <2>2, <3>2, <3>3
      <3>5. p.link.from # q.link.from
        BY <2>3, <2>5, <3>1 DEF Orderly, CallersAreApart
      <3> QED
        BY <3>4, <3>5
    <2> QED
      BY <2>4, <2>5
  <1>2. CASE h[1] = "linkUpdate" \/ g[1] = "linkUpdate"
    BY <1>1, <1>2
  <1>3. CASE h[1] = "linkCreate" /\ g[1] = "linkCreate"
    <2>1. h = <<h[1], h[2], FALSE>> /\ g = <<g[1], g[2], FALSE>>
      BY Located DEF Orderly, IInv
    <2> QED
      BY <1>3, <2>1
  <1> QED
    BY <1>2, <1>3 DEF Puts

\* Nobody makes a link of a vertex that is being deleted.
LEMMA NoNewLinks ==
    ASSUME Orderly, NEW h \in Handler, frame[h] # None, h[1] = "vertexDelete",
           NEW g \in Handler, Puts(g), NEW n \in Held(g), n.link \in Link
    PROVE  h[2] \notin {n.link.from, n.link.to}
  <1> DEFINE m == frame[h].msg
             p == client[Root(m)]  q == client[Root(n)]
  <1>1. m \in Held(h)
    BY DEF Held
  <1>2. /\ Root(m) \in Client /\ p \in Calls[Root(m)] /\ Within(h, m, p)
        /\ Root(n) \in Client /\ q \in Calls[Root(n)] /\ Within(g, n, q)
    BY <1>1, Depth DEF Orderly, Serving
  <1>3. n.link # None /\ n.link \in CalledLinks
    BY LinkIsCalled DEF Orderly
  <1> HIDE DEF m, p, q
  <1>4. q.handler[1] \in {"linkCreate", "linkUpdate"} /\ n.link \in Footprint(q)
    BY <1>2, <1>3 DEF Within
  <1>5. /\ p.handler[1] \in {"vertexCreate", "vertexDelete"} /\ p.handler[2] = h[2]
    BY <1>2 DEF Within, VertexFunction
  <1>6. Footprint(p) = {j \in CalledLinks : p.handler[2] \in {j.from, j.to}}
    BY <1>5 DEF Footprint, LinkFunction
  <1>7. p # q
    BY <1>4, <1>5
  <1>8. Root(m) # Root(n)
    BY <1>7 DEF p, q
  <1>9. Footprint(p) \cap Footprint(q) = {}
    BY <1>2, <1>8 DEF Orderly, CallersAreApart
  <1> QED
    BY <1>3, <1>4, <1>5, <1>6, <1>9
\* What a frame has to do with the names of its link; whether it has nothing.
HoldsAs(f, b, n) ==
    \/ b # None /\ n = b.name /\ f.pc \notin Renaming
    \/ f.pc \in {"setIndex", "setBody"} /\ n = f.new.name
    \/ f.pc = "dropName" /\ n = f.old.name
Plain(f) == f # None => f.pc \notin Renaming \cup {"dropName"}

\* A step that changes no body and no frame that has to do with names, but for
\* one that begins to choose a name for a link without a body.
LEMMA QuietHolds ==
    ASSUME UNCHANGED body,
           \A x \in Handler :
              \/ frame'[x] = frame[x]
              \/ /\ Plain(frame[x])
                 /\ \/ Plain(frame'[x])
                    \/ frame'[x] # None /\ frame'[x].pc = "name" /\ body[frame'[x].msg.link] = None
    PROVE  \A l, n : (Holds(l, n)' <=> Holds(l, n)) /\ (Shows(l, n)' <=> Shows(l, n))
  <1> TAKE l, n
  <1>1. ASSUME NEW x \in Handler
        PROVE  /\ Keeps(x, l, n)' <=> Keeps(x, l, n)
               /\ Renames(x, l) => Renames(x, l)'
               /\ Renames(x, l)' => Renames(x, l) \/ body[l] = None
    BY DEF Keeps, Renames, Plain, Renaming
  <1>2. Holds(l, n)' <=> Holds(l, n)
    BY <1>1 DEF Holds
  <1> QED
    BY <1>2 DEF Shows

\* The names of the link that h works on are known by the frame of h.
LEMMA MovesHolds ==
    ASSUME Orderly, NEW h \in Handler, Moves(h),
           NEW l \in Link, l = frame[h].msg.link,
           \A j \in Link : j # l => body'[j] = body[j]
    PROVE  /\ \A n : Holds(l, n) <=> HoldsAs(frame[h], body[l], n)
           /\ \A n : Holds(l, n)' <=> HoldsAs(frame'[h], body'[l], n)
           /\ \A j \in Link : \A n : j # l => /\ Holds(j, n)' <=> Holds(j, n)
                                              /\ Shows(j, n)' <=> Shows(j, n)
  <1>1. /\ frame[h] # None /\ frame'[h] # None /\ frame'[h].msg = frame[h].msg
        /\ frame[h].pc # "await" /\ frame'[h].pc # "await" /\ l # None
        /\ \A x \in Handler \ {h} : frame'[x] = frame[x]
    BY DEF Moves
  <1>2. \A x \in Handler \ {h} : frame[x] # None /\ frame[x].msg.link = l => frame[x].pc = "await"
    BY <1>1, OthersElsewhere
  <1>3. ASSUME NEW n
        PROVE  Holds(l, n) <=> HoldsAs(frame[h], body[l], n)
    <2>1. \A x \in Handler \ {h} : ~Renames(x, l) /\ ~Keeps(x, l, n)
      BY <1>2 DEF Renames, Keeps, Renaming
    <2> QED
      BY <1>1, <2>1 DEF Holds, HoldsAs, Renames, Keeps, Renaming
  <1>4. ASSUME NEW n
        PROVE  Holds(l, n)' <=> HoldsAs(frame'[h], body'[l], n)
    <2>1. \A x \in Handler \ {h} : ~Renames(x, l)' /\ ~Keeps(x, l, n)'
      BY <1>1, <1>2 DEF Renames, Keeps, Renaming
    <2> QED
      BY <1>1, <2>1 DEF Holds, HoldsAs, Renames, Keeps, Renaming
  <1>5. ASSUME NEW j \in Link, NEW n, j # l
        PROVE  (Holds(j, n)' <=> Holds(j, n)) /\ (Shows(j, n)' <=> Shows(j, n))
    <2>1. \A x \in Handler : (Renames(x, j)' <=> Renames(x, j)) /\ (Keeps(x, j, n)' <=> Keeps(x, j, n))
      BY <1>1, <1>5 DEF Renames, Keeps
    <2>2. Holds(j, n)' <=> Holds(j, n)
      BY <1>5, <2>1 DEF Holds
    <2> QED
      BY <1>5, <2>2 DEF Shows
  <1> QED
    BY <1>3, <1>4, <1>5

\* A step that takes no name and gives none back.
LEMMA SteadyNames ==
    ASSUME TypeOK, Names, UNCHANGED outName,
           \A l \in Link : \A n : (Holds(l, n)' <=> Holds(l, n)) /\ (Shows(l, n)' => Shows(l, n)),
           \A v \in Vertex : nameGen'[v] \in Nat /\ nameGen'[v] >= nameGen[v]
    PROVE  NamesHaveKeys' /\ KeysHaveLinks' /\ NamesDiffer' /\ NamesAreCounted'
  <1>1. NamesHaveKeys' /\ KeysHaveLinks' /\ NamesDiffer'
    BY DEF Names, NamesHaveKeys, KeysHaveLinks, NamesDiffer
  <1>2. ASSUME NEW l \in Link, NEW n \in Nat, Shows(l, n)'
        PROVE  n < nameGen'[l.from]
    <2>1. l.from \in Vertex /\ nameGen[l.from] \in Nat /\ n < nameGen[l.from]
      BY <1>2 DEF Link, TypeOK, GeneratedName, Names, NamesAreCounted
    <2>2. nameGen'[l.from] \in Nat /\ nameGen'[l.from] >= nameGen[l.from]
      BY <2>1
    <2> QED
      BY <2>1, <2>2
  <1> QED
    BY <1>1, <1>2 DEF NamesAreCounted

\* What the invariant says of a handler that the step does not touch.
LEMMA NameStays ==
    ASSUME NEW x, frame'[x] = frame[x], NameIsFree(x), outName' \subseteq outName
    PROVE  NameIsFree(x)'
  BY DEF NameIsFree

\* The same of the names that are counted.
LEMMA CountStays ==
    ASSUME NEW x, frame'[x] = frame[x], NewIsCounted(x), nameGen'[x[2]] = nameGen[x[2]]
    PROVE  NewIsCounted(x)'
  BY DEF NewIsCounted, Puts

\* A vertex that is deleted has all its out links listed, or requested, until
\* they have no body.
LEMMA OutLinksStay ==
    ASSUME NEW x \in Handler, frame'[x] = None \/ /\ frame[x] # None
                                                  /\ Stage(frame'[x]) = Stage(frame[x])
                                                  /\ frame'[x].todo = frame[x].todo,
           OutLinksGo(x),
           x[1] = "vertexDelete" /\ frame[x] # None =>
              /\ \A l \in Link : l.from = x[2] /\ body'[l] # None => body[l] # None
              /\ \A g \in Handler : \A m \in Held(g) :
                    m \in Held(g)' \/ (m.link \in Link => body'[m.link] = None)
    PROVE  OutLinksGo(x)'
  <1> SUFFICES ASSUME frame'[x] # None, x[1] = "vertexDelete" PROVE OutLinksGo(x)'
    BY DEF OutLinksGo
  <1>1. /\ frame[x] # None
        /\ \A l \in Link : l.from = x[2] /\ body'[l] # None => body[l] # None
        /\ \A g \in Handler : \A m \in Held(g) :
              m \in Held(g)' \/ (m.link \in Link => body'[m.link] = None)
        /\ Stage(frame'[x]) = Stage(frame[x]) /\ frame'[x].todo = frame[x].todo
    OBVIOUS
  <1>2. ASSUME Stage(frame'[x]) = "deleteOut", NEW l \in Link, l.from = x[2], body'[l] # None
        PROVE  \/ l \in frame'[x].todo
               \/ \E g \in Handler : \E m \in Held(g)' : m.caller = x /\ m.link = l
    <2>1. \/ l \in frame[x].todo
          \/ \E g \in Handler : \E m \in Held(g) : m.caller = x /\ m.link = l
      BY <1>1, <1>2 DEF OutLinksGo
    <2>2. CASE l \in frame[x].todo
      BY <1>1, <2>2
    <2>3. ASSUME NEW g \in Handler, NEW m \in Held(g), m.caller = x, m.link = l
          PROVE  m \in Held(g)'
      BY <1>1, <1>2, <2>3
    <2> QED
      BY <2>1, <2>2, <2>3
  <1>3. ASSUME Stage(frame'[x]) = "deleteIn", NEW l \in Link, l.from = x[2]
        PROVE  body'[l] = None
    BY <1>1, <1>3 DEF OutLinksGo
  <1> QED
    BY <1>2, <1>3 DEF OutLinksGo

\* A step that writes nothing and begins no change of a name.
LEMMA QuietNames ==
    ASSUME TypeOK, Names, UNCHANGED graph,
           \A x \in Handler :
              \/ frame'[x] = frame[x]
              \/ /\ Plain(frame[x])
                 /\ \/ Plain(frame'[x])
                    \/ frame'[x] # None /\ frame'[x].pc = "name" /\ body[frame'[x].msg.link] = None
    PROVE  NamesHaveKeys' /\ KeysHaveLinks' /\ NamesDiffer' /\ NamesAreCounted'
  <1>1. UNCHANGED <<body, outName, nameGen>>
    BY DEF graph, links
  <1>2. \A l, n : (Holds(l, n)' <=> Holds(l, n)) /\ (Shows(l, n)' <=> Shows(l, n))
    BY <1>1, QuietHolds
  <1>3. \A v \in Vertex : nameGen'[v] \in Nat /\ nameGen'[v] >= nameGen[v]
    BY <1>1 DEF TypeOK, GeneratedName
  <1> QED
    BY <1>1, <1>2, <1>3, SteadyNames

\* A message begins with a name that its caller has chosen.
LEMMA BeginNames ==
    ASSUME NamesAreChosen, IInv, Names, NEW h \in Handler, HandleBegin(h)
    PROVE  Names'
  <1> DEFINE f == frame'[h]
             m == f.msg
  <1>1. /\ frame[h] = None /\ UNCHANGED graph
        /\ \A x \in Handler : Held(x)' = Held(x)
        /\ \A x \in Handler \ {h} : frame'[x] = frame[x]
        /\ f # None /\ m \in Elements(queue[h]) /\ f.new = m.body
        /\ f.pc = IF m.in THEN "inLink" ELSE "start"
    BY BeginEffect DEF IInv
  <1>2. UNCHANGED <<body, outName, nameGen>>
    BY <1>1 DEF graph, links
  <1>3. NamesHaveKeys' /\ KeysHaveLinks' /\ NamesDiffer' /\ NamesAreCounted'
    <2>1. Plain(frame[h]) /\ Plain(f)
      BY <1>1 DEF Plain, Renaming
    <2> QED
      BY <1>1, <2>1, QuietNames DEF IInv
  <1>4. NameIsFree(h)' /\ OutLinksGo(h)'
    BY <1>1 DEF NameIsFree, OutLinksGo, Stage
  <1>5. NewIsCounted(h)'
    <2>1. m \in Held(h)
      BY <1>1 DEF Held
    <2>2. MsgOK(h, m)
      BY <2>1 DEF IInv, WellFormed
    <2>3. ~m.in /\ Puts(h) => m.body \in GivenBody
      BY <2>2 DEF MsgOK
    <2>4. ~m.in /\ Puts(h) => f.new.name \notin Nat /\ f.pc # "writeGen"
      BY <1>1, <2>3 DEF GivenBody, NamesAreChosen, GeneratedName
    <2> QED
      BY <1>1, <2>4 DEF NewIsCounted, Puts
  <1>6. ASSUME NEW x \in Handler, x # h
        PROVE  NameIsFree(x)' /\ NewIsCounted(x)' /\ OutLinksGo(x)'
    <2>1. frame'[x] = frame[x] /\ NameIsFree(x) /\ NewIsCounted(x) /\ OutLinksGo(x)
      BY <1>1, <1>6 DEF Names
    <2>2. OutLinksGo(x)'
      BY <1>1, <1>2, <2>1, OutLinksStay
    <2> QED
      BY <1>2, <2>1, <2>2, NameStays, CountStays
  <1> QED
    BY <1>3, <1>4, <1>5, <1>6 DEF Names

\* A create goes on to choose a name when the old link is gone.
LEMMA ReplyNames ==
    ASSUME Orderly, Keys, Names, NEW h \in Handler, Reply(h)
    PROVE  Names'
  <1>0. PICK m, to : m = frame[h].msg /\ to = m.caller
    OBVIOUS
  <1>1. /\ frame[h] # None /\ frame[h].pc = "reply" /\ frame'[h] = None
        /\ UNCHANGED graph /\ m \in Held(h)
        /\ Held(h)' = Held(h) \ {m}
        /\ \A x \in Handler \ {h} : Held(x)' = Held(x)
        /\ AnswersHandler(h, to) \/ AnswersClient(h, to)
    BY <1>0, ReplyEffect DEF Orderly
  <1>2. UNCHANGED <<body, outName, nameGen>>
    BY <1>1 DEF graph, links
  <1>3. m.link # None => (body[m.link] = None <=> h[1] = "linkDelete")
    BY <1>0, <1>1 DEF Keys, Doing
  <1>4. \A x \in Handler : NameIsFree(x) /\ NewIsCounted(x) /\ OutLinksGo(x)
    BY DEF Names
  <1>5. NameIsFree(h)' /\ NewIsCounted(h)' /\ OutLinksGo(h)'
    BY <1>1 DEF NameIsFree, NewIsCounted, OutLinksGo
  <1>6. Plain(frame[h]) /\ Plain(frame'[h])
    BY <1>1 DEF Plain, Renaming
  <1>7. CASE AnswersClient(h, to)
    <2>1. \A x \in Handler \ {h} : frame'[x] = frame[x]
      BY <1>7 DEF AnswersClient
    <2>2. m.link # None /\ m.caller \in Handler => FALSE
      BY <1>0, <1>7 DEF AnswersClient
    <2>3. NamesHaveKeys' /\ KeysHaveLinks' /\ NamesDiffer' /\ NamesAreCounted'
      BY <1>1, <1>6, <2>1, QuietNames DEF Orderly, IInv
    <2>4. ASSUME NEW x \in Handler, x # h
          PROVE  NameIsFree(x)' /\ NewIsCounted(x)' /\ OutLinksGo(x)'
      <3>1. frame'[x] = frame[x]
        BY <2>1, <2>4
      <3>2. NameIsFree(x)' /\ NewIsCounted(x)'
        BY <1>2, <1>4, <3>1, NameStays, CountStays
      <3>3. OutLinksGo(x)'
        <4>1. \A g \in Handler : \A k \in Held(g) : k \in Held(g)' \/ k = m
          BY <1>1
        <4>2. m.caller # x
          BY <1>0, <1>7 DEF AnswersClient
        <4> QED
          BY <1>2, <1>4, <3>1, <4>1, <4>2 DEF OutLinksGo
      <3> QED
        BY <3>2, <3>3
    <2> QED
      BY <1>5, <2>3, <2>4 DEF Names
  <1>8. CASE AnswersHandler(h, to)
    <2>1. /\ to \in Handler /\ to # h /\ frame[to] # None /\ AsksAs(frame[to], to, h, m)
          /\ frame'[to] # None /\ frame'[to].msg = frame[to].msg
          /\ frame'[to].pc = frame[to].then
          /\ frame'[to].new = frame[to].new /\ frame'[to].todo = frame[to].todo
          /\ \A x \in Handler \ {h, to} : frame'[x] = frame[x]
      BY <1>0, <1>8 DEF AnswersHandler, Asks
    <2>2. frame[to].pc = "await"
      BY <2>1, Zenon DEF AsksAs
    <2>3. frame[to].then \in {"name", "reply", "setVertex", "deleteOut", "deleteIn"}
      BY <2>1, Zenon DEF AsksAs
    <2>4. frame[to].then = "name" => h[1] = "linkDelete" /\ m.link = frame[to].msg.link
                                     /\ to[1] = "linkCreate"
      <3>1. frame[to].then = "name" =>
               h = <<"linkDelete", to[2], FALSE>> /\ m.link = frame[to].msg.link
               /\ to[1] = "linkCreate"
        BY <2>1, Zenon DEF AsksAs
      <3> QED
        BY <3>1
    <2>5. frame'[to].pc = "name" => body[frame'[to].msg.link] = None
      <3>1. to[1] = "linkCreate" => frame[to].msg.link # None
        <4>1. to[1] = "linkCreate" => frame[to].msg.link \in Link
          BY <2>1, Located DEF Orderly, IInv, LinkFunction
        <4> QED
          BY <4>1
      <3> QED
        BY <1>3, <2>1, <2>4, <3>1
    <2>6. /\ Plain(frame[to])
          /\ \/ Plain(frame'[to])
             \/ frame'[to] # None /\ frame'[to].pc = "name" /\ body[frame'[to].msg.link] = None
      BY <2>1, <2>2, <2>3, <2>5 DEF Plain, Renaming
    <2>7. NamesHaveKeys' /\ KeysHaveLinks' /\ NamesDiffer' /\ NamesAreCounted'
      BY <1>1, <1>6, <2>1, <2>6, QuietNames DEF Orderly, IInv
    <2>8. \A g \in Handler : \A k \in Held(g) : k \in Held(g)' \/ k = m
      BY <1>1
    <2>9. to[1] = "vertexDelete" /\ m.link \in Link => body'[m.link] = None
      <3>1. to[1] = "vertexDelete" => h[1] = "linkDelete" /\ m.link \in Link
        BY <2>1, AskGoesOn
      <3> QED
        BY <1>2, <1>3, <3>1
    <2>10. ASSUME NEW x \in Handler, x # h, x # to
           PROVE  NameIsFree(x)' /\ NewIsCounted(x)' /\ OutLinksGo(x)'
      <3>1. frame'[x] = frame[x] /\ m.caller # x
        BY <1>0, <2>1, <2>10
      <3>2. NameIsFree(x)' /\ NewIsCounted(x)'
        BY <1>2, <1>4, <3>1, NameStays, CountStays
      <3>3. OutLinksGo(x)'
        BY <1>2, <1>4, <2>8, <3>1 DEF OutLinksGo
      <3> QED
        BY <3>2, <3>3
    <2>11. NameIsFree(to)'
      BY <2>1, <2>3 DEF NameIsFree
    <2>12. NewIsCounted(to)'
      BY <1>2, <1>4, <2>1, <2>2, <2>3 DEF NewIsCounted, Puts
    <2>13. OutLinksGo(to)'
      <3>1. Stage(frame'[to]) = Stage(frame[to])
        BY <2>1, <2>2, <2>3 DEF Stage
      <3> QED
        BY <1>2, <1>4, <2>1, <2>8, <2>9, <3>1, OutLinksStay
    <2> QED
      BY <1>5, <2>7, <2>10, <2>11, <2>12, <2>13 DEF Names
  <1> QED
    BY <1>1, <1>7, <1>8

\* A call changes no name.
LEMMA CallNames ==
    ASSUME IInv, Names, NEW c \in Client, NEW call \in Calls[c], ClientCall(c, call)
    PROVE  Names'
  <1>1. /\ UNCHANGED <<graph, frame>>
        /\ \A x \in Handler : \A m \in Held(x) : m \in Held(x)'
    <2>1. PICK g \in Handler, n \in Msg :
             /\ Held(g)' = Held(g) \cup {n}
             /\ \A x \in Handler \ {g} : Held(x)' = Held(x)
             /\ UNCHANGED <<graph, frame>>
      BY CallEffect
    <2>2. \A x \in Handler : \A m \in Held(x) : m \in Held(x)'
      BY <2>1
    <2> QED
      BY <2>1, <2>2
  <1>2. UNCHANGED <<body, outName, nameGen>>
    BY <1>1 DEF graph, links
  <1>3. NamesHaveKeys' /\ KeysHaveLinks' /\ NamesDiffer' /\ NamesAreCounted'
    BY <1>1, QuietNames DEF IInv
  <1>4. ASSUME NEW x \in Handler
        PROVE  NameIsFree(x)' /\ NewIsCounted(x)' /\ OutLinksGo(x)'
    <2>1. frame'[x] = frame[x] /\ NameIsFree(x) /\ NewIsCounted(x) /\ OutLinksGo(x)
      BY <1>1 DEF Names
    <2>2. NameIsFree(x)' /\ NewIsCounted(x)'
      BY <1>2, <2>1, NameStays, CountStays
    <2>3. OutLinksGo(x)'
      <3>1. frame'[x] = None \/ frame[x] # None
        BY <2>1
      <3> QED
        BY <1>1, <1>2, <2>1, <3>1, OutLinksStay
    <2> QED
      BY <2>2, <2>3
  <1> QED
    BY <1>3, <1>4 DEF Names

\* The out links that a vertex function lists.
LEMMA VertexLists ==
    ASSUME IInv, NEW h \in Handler, OutLinksGo(h), frame[h] # None, VertexStep(h)
    PROVE  OutLinksGo(h)'
  <1> DEFINE f == frame[h]
  <1>1. /\ f \in Frame /\ frame \in [Handler -> Frame \cup {None}]
        /\ UNCHANGED body
    BY VertexStepEffect DEF IInv, TypeOK
  <1>2. CASE VertexStart(h) \/ SetVertex(h)
    <2>1. h[1] # "vertexDelete"
      <3>1. h[1] \in {"vertexCreate", "vertexUpdate"} \/ f.pc = "setVertex"
        BY <1>2 DEF VertexStart, SetVertex, At
      <3> QED
        BY <3>1, Located DEF IInv
    <2> QED
      BY <2>1 DEF OutLinksGo
  <1>3. CASE ListOut(h)
    <2> DEFINE T == {l \in Link : l.from = h[2] /\ body[l] # None}
    <2>1. frame' = [frame EXCEPT ![h].pc = "deleteOut", ![h].todo = T]
      BY <1>3 DEF ListOut
    <2> HIDE DEF T
    <2>2. frame'[h].pc = "deleteOut" /\ frame'[h].todo = T
      BY <1>1, <2>1 DEF Frame
    <2> QED
      BY <1>1, <2>2 DEF OutLinksGo, Stage, T
  <1>4. CASE ListIn(h)
    <2> DEFINE T == {l \in inLink : l.to = h[2]}
    <2>1. frame' = [frame EXCEPT ![h].pc = "deleteIn", ![h].todo = T] /\ f.todo = {}
          /\ f.pc = "deleteOut"
      BY <1>4 DEF ListIn, At
    <2> HIDE DEF T
    <2>2. frame'[h].pc = "deleteIn"
      BY <1>1, <2>1 DEF Frame
    <2>3. \A x \in Handler : \A m \in Held(x) : m.caller # h
      BY <2>1, OnlyWaitersAsk DEF IInv
    <2> QED
      BY <1>1, <2>1, <2>2, <2>3 DEF OutLinksGo, Stage
  <1>5. CASE RequestDelete(h)
    <2>1. PICK l \in f.todo :
            /\ queue' = [queue EXCEPT ![<<"linkDelete", l.from, FALSE>>] = Append(@,
                 [in |-> FALSE, link |-> l, body |-> None, caller |-> h])]
            /\ frame' = [frame EXCEPT ![h].pc = "await", ![h].then = frame[h].pc,
                                      ![h].todo = @ \ {l}]
      BY <1>5 DEF RequestDelete
    <2>2. f.pc \in {"deleteOut", "deleteIn"}
      BY <1>5 DEF RequestDelete, At
    <2> DEFINE n == [in |-> FALSE, link |-> l, body |-> None, caller |-> h]
               g == <<"linkDelete", l.from, FALSE>>
    <2>3. /\ frame'[h].pc = "await" /\ frame'[h].then = f.pc /\ frame'[h].todo = f.todo \ {l}
          /\ \A x \in Handler \ {h} : frame'[x] = frame[x]
          /\ frame'[h].msg = f.msg /\ frame'[h] # None
      <3> DEFINE e == [f EXCEPT !.pc = "await", !.then = f.pc, !.todo = @ \ {l}]
      <3>1. frame' = [frame EXCEPT ![h] = e]
        BY <2>1
      <3>2. e \in Frame /\ e.pc = "await" /\ e.then = f.pc /\ e.todo = f.todo \ {l} /\ e.msg = f.msg
        BY <1>1 DEF Frame, Location
      <3> HIDE DEF e
      <3>3. frame'[h] = e /\ e # None /\ \A x \in Handler \ {h} : frame'[x] = frame[x]
        BY <1>1, <3>1, <3>2
      <3> QED
        BY <3>2, <3>3
    <2>4. l \in Link /\ g \in Handler /\ n \in Msg
      <3>1. l \in Link
        BY <1>1 DEF Frame
      <3> QED
        BY <3>1 DEF Handler, LinkFunction, Link, Msg
    <2> HIDE DEF n, g
    <2>5. /\ n \in Held(g)'
          /\ \A x \in Handler : \A m \in Held(x) : m \in Held(x)'
      <3>1. queue \in [Handler -> Seq(Msg)] /\ queue[g] \in Seq(Msg)
        BY <2>4 DEF IInv, TypeOK
      <3>2. queue' = [queue EXCEPT ![g] = Append(@, n)]
        BY <2>1 DEF n, g
      <3>3. Elements(Append(queue[g], n)) = Elements(queue[g]) \cup {n}
        BY <2>4, <3>1, AppendElements
      <3>4. queue'[g] = Append(queue[g], n) /\ \A x \in Handler \ {g} : queue'[x] = queue[x]
        BY <2>4, <3>1, <3>2
      <3>5. Elements(queue[g])' = Elements(queue[g]) \cup {n}
            /\ \A x \in Handler \ {g} : Elements(queue[x])' = Elements(queue[x])
        BY <3>3, <3>4 DEF Elements
      <3>6. \A x \in Handler : \A m \in Elements(queue[x]) : m \in Elements(queue[x])'
        BY <3>5
      <3>7. ASSUME NEW x \in Handler, frame[x] # None
            PROVE  frame'[x] # None /\ frame'[x].msg = frame[x].msg
        <4>1. CASE x = h
          BY <2>3, <4>1
        <4>2. CASE x # h
          BY <2>3, <3>7, <4>2
        <4> QED
          BY <4>1, <4>2
      <3> QED
        BY <2>4, <3>5, <3>6, <3>7 DEF Held
    <2>6. n.caller = h /\ n.link = l
      BY DEF n
    <2>7. Stage(frame'[h]) = f.pc /\ Stage(f) = f.pc
      BY <2>2, <2>3 DEF Stage
    <2> QED
      BY <1>1, <2>3, <2>4, <2>5, <2>6, <2>7 DEF OutLinksGo
  <1>6. CASE DropGen(h) \/ DropVertex(h)
    <2>1. PICK s \in {"dropVertex", "reply"} : frame' = [frame EXCEPT ![h].pc = s]
      BY <1>6 DEF DropGen, DropVertex, Local, Next_
    <2>2. frame'[h].pc = s
      BY <1>1, <2>1 DEF Frame
    <2> QED
      BY <2>2 DEF OutLinksGo, Stage
  <1> QED
    BY <1>2, <1>3, <1>4, <1>5, <1>6 DEF VertexStep

\* Nobody works on a link of a vertex whose in links are being deleted.
LEMMA LinksAreFree ==
    ASSUME Orderly, NEW h \in Handler, frame[h] # None, frame[h].pc # "await",
           h[1] = "vertexDelete", NEW l \in Link, l.from = h[2],
           NEW x \in Handler, frame[x] # None
    PROVE  frame[x].msg.link # l
  <1> SUFFICES ASSUME frame[x].msg.link = l PROVE FALSE
    OBVIOUS
  <1>1. frame[x].msg \in Held(x) /\ l # None
    BY DEF Held
  <1>2. l \in CalledLinks
    BY <1>1, LinkIsCalled DEF Orderly
  <1>3. \A k \in Held(x) : k.link # l
    BY <1>2, TodoIsFree
  <1> QED
    BY <1>1, <1>3

\* A vertex function gives up the counter when its links are gone.
LEMMA VertexNames ==
    ASSUME Orderly, Names, NEW h \in Handler, frame[h] # None, VertexStep(h)
    PROVE  Names'
  <1> DEFINE f == frame[h]
  <1>1. TypeOK /\ WellFormed /\ IInv
    BY DEF Orderly, IInv
  <1>2. /\ UNCHANGED <<body, outName>>
        /\ \A x \in Handler \ {h} : frame'[x] = frame[x]
        /\ h[1] \in VertexFunction
    BY <1>1, VertexStepEffect
  <1>3. (Moves(h) \/ SendsWell(h)) /\ FrameOK(h, frame'[h])
    BY <1>1, ExecuteEffect
  <1>4. /\ frame'[h] # None /\ frame'[h].msg = f.msg /\ f.pc # "await"
        /\ \A x \in Handler : \A m \in Held(x) : m \in Held(x)'
    <2>1. CASE Moves(h)
      BY <1>1, <2>1, MovesHeld DEF Moves
    <2>2. CASE SendsWell(h)
      <3>1. PICK g \in Handler, n \in Msg : Sends(h, g, n)
        BY <2>2 DEF SendsWell
      <3>2. /\ Held(g)' = Held(g) \cup {n}
            /\ \A x \in Handler \ {g} : Held(x)' = Held(x)
        BY <1>1, <3>1, SendsHeld
      <3> QED
        BY <3>1, <3>2 DEF Sends
    <2> QED
      BY <1>3, <2>1, <2>2
  <1>5. Plain(f) /\ Plain(frame'[h])
    <2>1. ~Puts(h) /\ h[1] \notin {"linkUpdate", "linkDelete"}
      BY <1>2 DEF Puts, VertexFunction
    <2>2. ~f.msg.in /\ ~frame'[h].msg.in
      BY <1>1, <1>2, <1>4, Located
    <2>3. f.pc \notin Naming \cup Dropping
      BY <1>1, <2>1, Located
    <2>4. frame'[h].pc \notin Naming \cup Dropping
      BY <1>2, <1>3, <2>2 DEF FrameOK, VertexFunction, Naming, Writing, Dropping
    <2> QED
      BY <2>3, <2>4 DEF Plain, Renaming, Naming, Writing, Dropping
  <1>6. \A l, n : (Holds(l, n)' <=> Holds(l, n)) /\ (Shows(l, n)' <=> Shows(l, n))
    BY <1>2, <1>5, QuietHolds
  <1>7. \A x \in Handler : NameIsFree(x) /\ NewIsCounted(x) /\ OutLinksGo(x)
    BY DEF Names
  <1>8. /\ NameIsFree(h)' /\ NewIsCounted(h)' /\ OutLinksGo(h)'
    <2>1. OutLinksGo(h)'
      BY <1>1, <1>7, VertexLists
    <2> QED
      BY <1>2, <1>5, <2>1 DEF NameIsFree, NewIsCounted, Plain, Renaming, Puts, VertexFunction
  <1>9. ASSUME NEW x \in Handler, x # h
        PROVE  NameIsFree(x)' /\ OutLinksGo(x)'
    <2>1. frame'[x] = frame[x]
      BY <1>2, <1>9
    <2>2. OutLinksGo(x)'
      BY <1>2, <1>4, <1>7, <2>1, OutLinksStay
    <2> QED
      BY <1>2, <1>7, <2>1, <2>2, NameStays
  <1>10. CASE UNCHANGED nameGen
    <2>1. \A v \in Vertex : nameGen'[v] \in Nat /\ nameGen'[v] >= nameGen[v]
      BY <1>1, <1>10 DEF TypeOK, GeneratedName
    <2>2. NamesHaveKeys' /\ KeysHaveLinks' /\ NamesDiffer' /\ NamesAreCounted'
      BY <1>1, <1>2, <1>6, <2>1, SteadyNames
    <2>3. ASSUME NEW x \in Handler, x # h PROVE NewIsCounted(x)'
      BY <1>2, <1>7, <1>10, <2>3, CountStays
    <2> QED
      BY <1>8, <1>9, <2>2, <2>3 DEF Names
  <1>11. CASE DropGen(h)
    <2>1. f.pc = "deleteIn" /\ nameGen' = [nameGen EXCEPT ![h[2]] = 0]
      BY <1>11 DEF DropGen, At
    <2>2. h[1] = "vertexDelete" /\ h[2] \in Vertex
      BY <1>1, <2>1, Located
    <2>3. /\ \A v \in Vertex : v # h[2] => nameGen'[v] = nameGen[v]
          /\ \A l \in Link : l.from \in Vertex
      BY <1>1, <2>1 DEF TypeOK, Link
    <2>4. \A l \in Link : l.from = h[2] => body[l] = None
      BY <1>7, <2>1, <2>2 DEF OutLinksGo, Stage
    <2>5. ASSUME NEW l \in Link, NEW n, Shows(l, n)
          PROVE  l.from # h[2]
      <3> SUFFICES ASSUME l.from = h[2] PROVE FALSE
        OBVIOUS
      <3>1. \A x \in Handler : ~Keeps(x, l, n)
        BY <1>4, <2>2, LinksAreFree DEF Keeps
      <3> QED
        BY <2>4, <2>5, <3>1 DEF Shows, Holds
    <2>6. NamesHaveKeys' /\ KeysHaveLinks' /\ NamesDiffer'
      BY <1>2, <1>6 DEF Names, NamesHaveKeys, KeysHaveLinks, NamesDiffer
    <2>7. NamesAreCounted'
      BY <1>6, <2>3, <2>5 DEF Names, NamesAreCounted
    <2>8. ASSUME NEW x \in Handler, x # h PROVE NewIsCounted(x)'
      <3>1. frame'[x] = frame[x]
        BY <1>2, <2>8
      <3>2. CASE frame[x] # None /\ ~frame[x].msg.in /\ Puts(x)
        <4>1. frame[x].msg.link \in Link /\ frame[x].msg.link.from = x[2] /\ x[2] \in Vertex
          BY <1>1, <3>2, Located DEF Puts, LinkFunction
        <4>2. x[2] # h[2]
          BY <1>4, <2>2, <3>2, <4>1, LinksAreFree
        <4> QED
          BY <1>7, <2>3, <3>1, <4>1, <4>2, CountStays
      <3>3. CASE ~(frame[x] # None /\ ~frame[x].msg.in /\ Puts(x))
        BY <3>1, <3>3 DEF NewIsCounted, Puts
      <3> QED
        BY <3>2, <3>3
    <2> QED
      BY <1>8, <1>9, <2>6, <2>7, <2>8 DEF Names
  <1> QED
    BY <1>10, <1>11 DEF VertexStep, VertexStart, SetVertex, ListOut, ListIn, RequestDelete,
         DropVertex, Request, graph, links

\* A step on a link leaves the out links of vertices that are deleted to go.
LEMMA LinkOutLinks ==
    ASSUME Orderly, Names, NEW h \in Handler, frame[h] # None, LinkStep(h)
    PROVE  \A x \in Handler : OutLinksGo(x)'
  <1> DEFINE f == frame[h]
             l == f.msg.link
  <1>1. TypeOK /\ WellFormed /\ IInv
    BY DEF Orderly, IInv
  <1>2. /\ l \in Link
        /\ \A x \in Handler \ {h} : frame'[x] = frame[x]
        /\ \A j \in Link : j # l => body'[j] = body[j]
    BY <1>1, LinkStepEffect
  <1>3. h[1] \in LinkFunction
    <2>1. h[1] \in LinkFunction \cup VertexFunction /\ (h[1] \in VertexFunction => l = None)
      BY <1>1, Located
    <2> QED
      BY <1>2, <2>1
  <1>4. \A x \in Handler : \A m \in Held(x) : m \in Held(x)'
    <2>1. Moves(h) \/ SendsWell(h)
      BY <1>1, ExecuteEffect
    <2>2. CASE Moves(h)
      BY <1>1, <2>2, MovesHeld
    <2>3. CASE SendsWell(h)
      <3>1. PICK g \in Handler, n \in Msg : Sends(h, g, n)
        BY <2>3 DEF SendsWell
      <3>2. /\ Held(g)' = Held(g) \cup {n}
            /\ \A x \in Handler \ {g} : Held(x)' = Held(x)
        BY <1>1, <3>1, SendsHeld
      <3> QED
        BY <3>2
    <2> QED
      BY <2>1, <2>2, <2>3
  <1>5. body'[l] # None => body[l] # None \/ Puts(h)
    <2>1. CASE SetBody(h)
      BY <1>1, <2>1, Located DEF SetBody, At, Naming, Writing
    <2>2. CASE DropBody(h)
      <3>1. body' = [body EXCEPT ![l] = None] /\ body \in [Link -> LinkBody \cup {None}]
        BY <1>1, <2>2 DEF DropBody, LinkOf, TypeOK
      <3> QED
        BY <1>2, <3>1
    <2>3. CASE UNCHANGED body
      BY <2>3
    <2> QED
      BY <2>1, <2>2, <2>3
      DEF LinkStep, CreateStart, UpdateStart, ChooseName, ReadGen, WriteGen, SetName,
          SetIndex, SetTags, RequestIn, InLink, DeleteStart, ReadBody,
          DropName, DropIndex, DropTags, graph, links
  <1> TAKE x \in Handler
  <1>6. CASE x = h
    BY <1>3, <1>6 DEF OutLinksGo, LinkFunction
  <1>7. CASE x # h
    <2>1. frame'[x] = frame[x] /\ OutLinksGo(x)
      BY <1>2, <1>7 DEF Names
    <2>2. ASSUME x[1] = "vertexDelete", frame[x] # None, NEW j \in Link, j.from = x[2],
                 body'[j] # None
          PROVE  body[j] # None
      <3>1. CASE j = l
        <4>1. f.msg \in Held(h)
          BY DEF Held
        <4>2. Puts(h) => FALSE
          BY <1>2, <2>2, <3>1, <4>1, NoNewLinks
        <4> QED
          BY <1>5, <2>2, <3>1, <4>2
      <3>2. CASE j # l
        BY <1>2, <2>2, <3>2
      <3> QED
        BY <3>1, <3>2
    <2> QED
      BY <1>4, <2>1, <2>2, OutLinksStay
  <1> QED
    BY <1>6, <1>7

\* A step of h on its link that leaves its name alone.
LEMMA SteadyLink ==
    ASSUME Orderly, Names, NEW h \in Handler, Moves(h), NEW l \in Link, l = frame[h].msg.link,
           \A j \in Link : j # l => body'[j] = body[j],
           UNCHANGED <<outName, nameGen>>,
           \A n : HoldsAs(frame'[h], body'[l], n) <=> HoldsAs(frame[h], body[l], n),
           \A n : body'[l] # None /\ n = body'[l].name => Shows(l, n),
           NameIsFree(h)' /\ NewIsCounted(h)',
           \A x \in Handler : OutLinksGo(x)'
    PROVE  Names'
  <1>1. /\ \A n : Holds(l, n) <=> HoldsAs(frame[h], body[l], n)
        /\ \A n : Holds(l, n)' <=> HoldsAs(frame'[h], body'[l], n)
        /\ \A j \in Link : \A n : j # l => /\ Holds(j, n)' <=> Holds(j, n)
                                           /\ Shows(j, n)' <=> Shows(j, n)
    BY MovesHolds
  <1>2. ASSUME NEW j \in Link, NEW n
        PROVE  (Holds(j, n)' <=> Holds(j, n)) /\ (Shows(j, n)' => Shows(j, n))
    <2>1. CASE j = l
      <3>1. Holds(l, n)' <=> Holds(l, n)
        BY <1>1
      <3>2. Shows(l, n)' => Holds(l, n)' \/ (body'[l] # None /\ n = body'[l].name)
        BY DEF Shows
      <3>3. Shows(l, n)' => Shows(l, n)
        BY <3>1, <3>2 DEF Shows
      <3> QED
        BY <2>1, <3>1, <3>3
    <2>2. CASE j # l
      BY <1>1, <2>2
    <2> QED
      BY <2>1, <2>2
  <1>3. \A v \in Vertex : nameGen'[v] \in Nat /\ nameGen'[v] >= nameGen[v]
    BY DEF Orderly, IInv, TypeOK, GeneratedName
  <1>4. NamesHaveKeys' /\ KeysHaveLinks' /\ NamesDiffer' /\ NamesAreCounted'
    BY <1>2, <1>3, SteadyNames DEF Orderly, IInv
  <1>5. ASSUME NEW x \in Handler, x # h
        PROVE  NameIsFree(x)' /\ NewIsCounted(x)'
    BY <1>5, NameStays, CountStays DEF Moves, Names
  <1> QED
    BY <1>4, <1>5 DEF Names

\* A step of h on its link that only goes on to s.
LEMMA LocalNames ==
    ASSUME TypeOK, NEW h \in Handler, frame[h] # None, frame[h].pc \notin {"await", "writeGen"},
           NEW s \in Location, s \notin {"await", "writeGen", "setName"}, Local(h, s),
           NewIsCounted(h), UNCHANGED nameGen
    PROVE  NameIsFree(h)' /\ NewIsCounted(h)'
  <1>1. frame'[h] \in Frame /\ frame'[h].pc = s /\ frame'[h].msg = frame[h].msg
        /\ frame'[h].new = frame[h].new
    BY LocalEffect
  <1> QED
    BY <1>1 DEF NameIsFree, NewIsCounted, Puts

\* The link of a step, and what the step leaves alone.
LEMMA LinkStepLink ==
    ASSUME Orderly, Names, NEW h \in Handler, frame[h] # None, frame[h].pc # "await", LinkStep(h)
    PROVE  LET l == frame[h].msg.link IN
           /\ TypeOK /\ WellFormed /\ frame[h] \in Frame
           /\ frame \in [Handler -> Frame \cup {None}]
           /\ l \in Link /\ l # None
           /\ \A j \in Link : j # l => body'[j] = body[j]
           /\ \A x \in Handler : OutLinksGo(x)'
           /\ \A x \in Handler : NameIsFree(x) /\ NewIsCounted(x)
           /\ ~frame[h].msg.in => l.from = h[2] /\ h[2] \in Vertex
  <1>1. TypeOK /\ WellFormed
    BY DEF Orderly, IInv
  <1>2. frame[h].msg.link \in Link /\ \A j \in Link : j # frame[h].msg.link => body'[j] = body[j]
    BY <1>1, LinkStepEffect
  <1>3. ~frame[h].msg.in => frame[h].msg.link.from = h[2] /\ h[2] \in Vertex
    BY <1>1, <1>2, Located
  <1> QED
    BY <1>1, <1>2, <1>3, LinkOutLinks DEF TypeOK, Names

\* A step that only goes on, and leaves the bodies alone.
Silent == Renaming \ {"setIndex", "setBody"}

\* Such a step keeps the invariant.
LEMMA LocalLink ==
    ASSUME Orderly, Names, NEW h \in Handler, frame[h] # None, LinkStep(h),
           frame[h].pc \notin {"await", "writeGen"},
           NEW s \in Location, s \notin {"await", "writeGen", "setName"}, Local(h, s),
           UNCHANGED <<body, outName, nameGen>>,
           LET p == frame[h].pc  IN
           \/ {p, s} \cap (Renaming \cup {"dropName"}) = {}
           \/ p \in Silent /\ s \in Silent
           \/ /\ body[frame[h].msg.link] = None
              /\ {p, s} \cap {"setIndex", "setBody", "dropName"} = {}
           \/ p = "setIndex" /\ s = "setBody"
    PROVE  Names'
  <1>1. PICK f, l : f = frame[h] /\ l = f.msg.link
    OBVIOUS
  <1>2. /\ TypeOK /\ l \in Link
        /\ \A j \in Link : j # l => body'[j] = body[j]
        /\ \A x \in Handler : OutLinksGo(x)'
        /\ NewIsCounted(h)
    BY <1>1, LinkStepLink
  <1>3. /\ Moves(h) /\ frame'[h].pc = s /\ frame'[h].new = f.new
        /\ frame'[h].old = f.old
    BY <1>1, <1>2, LocalEffect
  <1>4. NameIsFree(h)' /\ NewIsCounted(h)'
    BY <1>2, LocalNames
  <1>5. \A n : HoldsAs(frame'[h], body'[l], n) <=> HoldsAs(f, body[l], n)
    BY <1>1, <1>3 DEF HoldsAs, Renaming, Silent
  <1>6. \A n : body'[l] # None /\ n = body'[l].name => Shows(l, n)
    BY DEF Shows
  <1> QED
    BY <1>1, <1>2, <1>3, <1>4, <1>5, <1>6, SteadyLink

\* The steps of a link function that only go on.
LEMMA GoOnNames ==
    ASSUME Orderly, Keys, Names, NEW h \in Handler,
           \/ CreateStart(h) /\ body[LinkOf(h)] = None
           \/ ChooseName(h) /\ frame'[h].pc # "setName"
           \/ SetIndex(h) \/ SetTags(h)
           \/ InLink(h) \/ DeleteStart(h) \/ DropIndex(h) \/ DropTags(h)
    PROVE  Names'
  <1>1. frame[h] # None /\ LinkStep(h) /\ frame[h].pc \notin {"await", "writeGen"}
    BY DEF CreateStart, ChooseName, SetIndex, SetTags, InLink, DeleteStart, DropIndex, DropTags,
         At, LinkStep
  <1>2. PICK f, l : f = frame[h] /\ l = f.msg.link
    OBVIOUS
  <1>3. /\ TypeOK /\ WellFormed /\ l \in Link /\ l # None
    BY <1>1, <1>2, LinkStepLink
  <1>4. UNCHANGED <<outName, nameGen, body>>
    BY DEF CreateStart, ChooseName, SetIndex, SetTags, InLink, DeleteStart, DropIndex, DropTags,
         graph, links
  <1>5. CASE CreateStart(h) /\ body[LinkOf(h)] = None
    BY <1>1, <1>4, <1>5, LocalLink DEF CreateStart, At, LinkOf, Location
  <1>6. CASE ChooseName(h) /\ frame'[h].pc # "setName"
    <2>1. PICK s \in {"setName", "readGen"} : Local(h, s) /\ f.pc = "name"
      BY <1>2, <1>6 DEF ChooseName, At
    <2>2. frame'[h].pc = s
      BY <1>1, <1>3, <2>1, LocalEffect DEF Location
    <2>3. Local(h, "readGen") /\ f.pc = "name"
      BY <1>6, <2>1, <2>2
    <2> QED
      BY <1>1, <1>2, <1>4, <2>3, LocalLink DEF Location, Silent, Renaming
  <1>7. CASE SetIndex(h)
    BY <1>1, <1>4, <1>7, LocalLink DEF SetIndex, At, Location
  <1>8. CASE SetTags(h)
    BY <1>1, <1>4, <1>8, LocalLink DEF SetTags, At, Location, Renaming
  <1>9. CASE InLink(h)
    BY <1>1, <1>4, <1>9, LocalLink DEF InLink, At, Location, Renaming
  <1>10. CASE DeleteStart(h)
    BY <1>1, <1>4, <1>10, LocalLink DEF DeleteStart, At, Location, Renaming
  <1>11. CASE DropIndex(h)
    BY <1>1, <1>4, <1>11, LocalLink DEF DropIndex, At, Location, Renaming, Silent
  <1>12. CASE DropTags(h)
    <2>1. f.pc = "dropTags" /\ Local(h, IF h[1] = "linkDelete" THEN "requestIn" ELSE "name")
      BY <1>2, <1>12 DEF DropTags, At, Of
    <2>2. CASE h[1] = "linkDelete"
      <3>1. body[l] = None
        BY <1>1, <1>2, <1>3, <2>1, <2>2 DEF Keys, Doing, Dropping
      <3> QED
        BY <1>1, <1>2, <1>4, <2>1, <2>2, <3>1, LocalLink DEF Location
    <2>3. CASE h[1] # "linkDelete"
      BY <1>1, <1>2, <1>4, <2>1, <2>3, LocalLink DEF Location, Renaming, Silent
    <2> QED
      BY <2>2, <2>3
  <1> QED
    BY <1>5, <1>6, <1>7, <1>8, <1>9, <1>10, <1>11, <1>12

\* A link function that requests another one leaves the names alone.
LEMMA AskNames ==
    ASSUME Orderly, Names, NEW h \in Handler, frame[h] # None, LinkStep(h),
           frame[h].pc \in {"start", "requestIn"}, UNCHANGED graph,
           NEW g \in Handler, NEW in \in BOOLEAN, NEW given \in GivenBody \cup {None},
           NEW l \in Location, Request(h, g, in, frame[h].msg.link, given, l)
    PROVE  Names'
  <1>1. /\ TypeOK /\ frame[h].msg.link \in Link
        /\ \A x \in Handler : OutLinksGo(x)'
        /\ \A x \in Handler : NameIsFree(x) /\ NewIsCounted(x)
    BY LinkStepLink
  <1>2. /\ frame'[h] \in Frame /\ frame'[h].pc = "await" /\ frame'[h].msg = frame[h].msg
        /\ frame'[h].new = frame[h].new
        /\ \A x \in Handler \ {h} : frame'[x] = frame[x]
    <2> DEFINE k == frame[h].msg.link
               n == [in |-> in, link |-> k, body |-> given, caller |-> h]
    <2>1. k \in Link \cup {None} /\ Request(h, g, in, k, given, l)
      BY <1>1
    <2> HIDE DEF k
    <2>2. /\ Sends(h, g, n) /\ frame'[h] \in Frame
          /\ frame'[h].pc = "await" /\ frame'[h].msg = frame[h].msg
          /\ frame'[h].new = frame[h].new
      BY <1>1, <2>1, RequestEffect
    <2> QED
      BY <2>2 DEF Sends
  <1>3. Plain(frame[h]) /\ Plain(frame'[h])
    BY <1>2 DEF Plain, Renaming
  <1>4. NamesHaveKeys' /\ KeysHaveLinks' /\ NamesDiffer' /\ NamesAreCounted'
    BY <1>1, <1>2, <1>3, QuietNames
  <1>5. UNCHANGED <<outName, nameGen>>
    BY DEF graph, links
  <1>6. NameIsFree(h)' /\ NewIsCounted(h)'
    BY <1>1, <1>2, <1>5 DEF NameIsFree, NewIsCounted, Puts
  <1>7. ASSUME NEW x \in Handler, x # h PROVE NameIsFree(x)' /\ NewIsCounted(x)'
    BY <1>1, <1>2, <1>5, <1>7, NameStays, CountStays
  <1> QED
    BY <1>1, <1>4, <1>6, <1>7 DEF Names

\* The requests of a link function.
LEMMA RequestNames ==
    ASSUME Orderly, Names, NEW h \in Handler,
           \/ CreateStart(h) /\ body[LinkOf(h)] # None
           \/ UpdateStart(h) /\ body[LinkOf(h)] = None
           \/ RequestIn(h)
    PROVE  Names'
  <1>1. /\ frame[h] # None /\ LinkStep(h) /\ frame[h].pc \in {"start", "requestIn"}
        /\ UNCHANGED graph
    BY DEF CreateStart, UpdateStart, RequestIn, At, LinkStep
  <1>2. PICK f, l : f = frame[h] /\ l = f.msg.link
    OBVIOUS
  <1>3. /\ TypeOK /\ WellFormed /\ l \in Link /\ f \in Frame
        /\ ~f.msg.in => l.from = h[2] /\ h[2] \in Vertex
    BY <1>1, <1>2, LinkStepLink
  <1>4. ~f.msg.in /\ (f.pc = "requestIn" => h[1] \in {"linkCreate", "linkDelete"})
    BY <1>1, <1>2, <1>3, Located
  <1>5. CASE CreateStart(h) /\ body[LinkOf(h)] # None
    <2>1. Request(h, <<"linkDelete", h[2], FALSE>>, FALSE, l, None, "name")
      BY <1>2, <1>5 DEF CreateStart, LinkOf
    <2>2. <<"linkDelete", h[2], FALSE>> \in Handler
      BY <1>3, <1>4 DEF Handler, LinkFunction
    <2> QED
      BY <1>1, <1>2, <2>1, <2>2, AskNames DEF Location
  <1>6. CASE UpdateStart(h) /\ body[LinkOf(h)] = None
    <2>1. Request(h, <<"linkCreate", h[2], FALSE>>, FALSE, l, f.msg.body, "reply")
      BY <1>2, <1>6 DEF UpdateStart, LinkOf
    <2>2. <<"linkCreate", h[2], FALSE>> \in Handler
      BY <1>3, <1>4 DEF Handler, LinkFunction
    <2>3. f.msg.body \in GivenBody \cup {None}
      BY <1>3, FrameFields
    <2> QED
      BY <1>1, <1>2, <2>1, <2>2, <2>3, AskNames DEF Location
  <1>7. CASE RequestIn(h)
    <2>1. Request(h, <<h[1], l.to, l.to = l.from>>, TRUE, l, None, "reply")
          /\ f.pc = "requestIn"
      BY <1>2, <1>7 DEF RequestIn, LinkOf, At
    <2>2. PICK same \in BOOLEAN : same = (l.to = l.from)
      OBVIOUS
    <2>3. h[1] \in {"linkCreate", "linkDelete"} /\ l.to \in Vertex
      BY <1>3, <1>4, <2>1 DEF Link
    <2>4. <<h[1], l.to, same>> \in Handler
      BY <2>3 DEF Handler, LinkFunction
    <2> QED
      BY <1>1, <1>2, <2>1, <2>2, <2>4, AskNames DEF Location
  <1> QED
    BY <1>5, <1>6, <1>7

\* An update begins with the name of the body that it has read.
LEMMA UpdateNames ==
    ASSUME NamesAreChosen, Orderly, Names, NEW h \in Handler,
           UpdateStart(h), body[LinkOf(h)] # None
    PROVE  Names'
  <1>1. frame[h] # None /\ LinkStep(h) /\ frame[h].pc = "start" /\ h[1] = "linkUpdate"
        /\ UNCHANGED graph
    BY DEF UpdateStart, At, LinkStep, Of
  <1>2. PICK f, l : f = frame[h] /\ l = f.msg.link
    OBVIOUS
  <1>3. /\ TypeOK /\ WellFormed /\ l \in Link /\ f \in Frame
        /\ frame \in [Handler -> Frame \cup {None}]
        /\ \A j \in Link : j # l => body'[j] = body[j]
        /\ \A x \in Handler : OutLinksGo(x)'
        /\ ~f.msg.in => l.from = h[2] /\ h[2] \in Vertex
    BY <1>1, <1>2, LinkStepLink
  <1>4. ~f.msg.in /\ MsgOK(h, f.msg)
    BY <1>1, <1>2, <1>3, Located
  <1>5. f.msg.body \in GivenBody /\ body[l] \in LinkBody /\ nameGen[h[2]] \in Nat
    <2>1. f.msg.body \in GivenBody
      BY <1>1, <1>4 DEF MsgOK, Puts
    <2> QED
      BY <1>2, <1>3, <1>4, <2>1 DEF TypeOK, LinkOf, GeneratedName
  <1>6. PICK b \in Updated(body[l], f.msg.body) :
           frame' = [frame EXCEPT ![h].pc = "dropName", ![h].old = body[l], ![h].new = b]
    BY <1>2 DEF UpdateStart, LinkOf
  <1>7. b.name \in Name \cup {None} \/ b.name = body[l].name
    BY <1>5, <1>6 DEF Updated, GivenBody
  <1>8. b \in LinkBody \cup GivenBody
    BY <1>5, <1>6 DEF Updated, GivenBody, LinkBody
  <1>9. UNCHANGED <<queue, client>>
    BY <1>2 DEF UpdateStart, LinkOf
  <1> DEFINE e == [f EXCEPT !.pc = "dropName", !.old = body[l], !.new = b]
  <1>10. /\ e \in Frame /\ e.pc = "dropName" /\ e.old = body[l] /\ e.new = b /\ e.msg = f.msg
    BY <1>3, <1>5, <1>8 DEF Frame, Location
  <1>11. frame' = [frame EXCEPT ![h] = e]
    BY <1>2, <1>6
  <1> HIDE DEF e
  <1>12. Moves(h) /\ frame'[h] = e
    BY <1>1, <1>2, <1>3, <1>9, <1>10, <1>11, WriteEffect
  <1>13. UNCHANGED <<body, outName, nameGen>>
    BY <1>1 DEF graph, links
  <1>14. \A n : HoldsAs(frame'[h], body'[l], n) <=> HoldsAs(f, body[l], n)
    BY <1>1, <1>2, <1>5, <1>10, <1>12, <1>13 DEF HoldsAs, Renaming
  <1>15. \A n : body'[l] # None /\ n = body'[l].name => Shows(l, n)
    BY <1>13 DEF Shows
  <1>16. NameIsFree(h)'
    BY <1>10, <1>12 DEF NameIsFree
  <1>17. NewIsCounted(h)'
    <2>1. b.name \in Nat => b.name < nameGen[h[2]]
      <3>1. CASE b.name \in Name \cup {None}
        BY <3>1 DEF NamesAreChosen, GeneratedName
      <3>2. CASE b.name = body[l].name
        <4>1. Shows(l, b.name)
          BY <1>5, <3>2 DEF Shows
        <4> QED
          BY <1>3, <1>4, <4>1 DEF Names, NamesAreCounted
      <3> QED
        BY <1>7, <3>1, <3>2
    <2> QED
      BY <1>10, <1>12, <1>13, <2>1 DEF NewIsCounted
  <1> QED
    BY <1>2, <1>3, <1>12, <1>13, <1>14, <1>15, <1>16, <1>17, SteadyLink

\* The steps that write a frame or a body, and keep the name of the link.
LEMMA WriteNames ==
    ASSUME Orderly, Keys, Names, NEW h \in Handler,
           \/ ChooseName(h) /\ frame'[h].pc = "setName"
           \/ ReadGen(h) \/ SetBody(h) \/ ReadBody(h) \/ DropBody(h)
    PROVE  Names'
  <1>1. frame[h] # None /\ LinkStep(h) /\ frame[h].pc \notin {"await", "start", "inLink", "reply"}
        /\ UNCHANGED <<outName, nameGen>>
    BY DEF ChooseName, ReadGen, SetBody, ReadBody, DropBody, At, LinkStep, graph, links
  <1>2. PICK f, l : f = frame[h] /\ l = f.msg.link
    OBVIOUS
  <1>3. /\ TypeOK /\ WellFormed /\ l \in Link /\ l # None /\ f \in Frame
        /\ frame \in [Handler -> Frame \cup {None}]
        /\ \A j \in Link : j # l => body'[j] = body[j]
        /\ \A x \in Handler : OutLinksGo(x)'
        /\ NameIsFree(h) /\ NewIsCounted(h)
        /\ ~f.msg.in => l.from = h[2] /\ h[2] \in Vertex
    BY <1>1, <1>2, LinkStepLink
  <1>4. ~f.msg.in /\ Doing(h) /\ FrameOK(h, f)
    BY <1>1, <1>2, <1>3, Located DEF Keys
  <1>5. ASSUME NEW s \in Location, s # "await", Local(h, s)
        PROVE  Moves(h) /\ frame'[h] \in Frame /\ frame'[h].pc = s /\ frame'[h].msg = f.msg
               /\ frame'[h].new = f.new /\ frame'[h].old = f.old
    BY <1>1, <1>2, <1>3, <1>5, LocalEffect
  <1>6. CASE ChooseName(h) /\ frame'[h].pc = "setName"
    <2>1. PICK s \in {"setName", "readGen"} : Local(h, s) /\ f.pc = "name"
                   /\ (s = "setName" => <<h[2], f.new.name>> \notin outName)
      BY <1>2, <1>6 DEF ChooseName, At
    <2>2. Moves(h) /\ frame'[h].pc = s /\ frame'[h].msg = f.msg /\ frame'[h].new = f.new
      BY <1>5, <2>1 DEF Location
    <2>3. UNCHANGED body /\ s = "setName"
      BY <1>6, <2>2 DEF ChooseName, graph, links
    <2>4. \A n : HoldsAs(frame'[h], body'[l], n) <=> HoldsAs(f, body[l], n)
      BY <2>1, <2>2, <2>3 DEF HoldsAs, Renaming
    <2>5. \A n : body'[l] # None /\ n = body'[l].name => Shows(l, n)
      BY <2>3 DEF Shows
    <2>6. NameIsFree(h)' /\ NewIsCounted(h)'
      BY <1>1, <1>2, <1>3, <2>1, <2>2, <2>3 DEF NameIsFree, NewIsCounted, Puts
    <2> QED
      BY <1>1, <1>2, <1>3, <2>2, <2>4, <2>5, <2>6, SteadyLink
  <1>7. CASE ReadGen(h)
    <2> DEFINE e == [f EXCEPT !.pc = "writeGen", !.new.name = nameGen[h[2]]]
    <2>1. f.pc = "readGen" /\ UNCHANGED <<graph, queue, client>>
          /\ frame' = [frame EXCEPT ![h].pc = "writeGen", ![h].new.name = nameGen[h[2]]]
      BY <1>2, <1>7 DEF ReadGen, At
    <2>2. Puts(h) /\ nameGen[h[2]] \in Nat /\ h[2] \in Vertex
      BY <1>2, <1>3, <1>4, <2>1, Located DEF TypeOK, GeneratedName, Naming
    <2>3. f.new \in LinkBody \cup GivenBody
      BY <1>4, <2>2 DEF FrameOK
    <2>4. e \in Frame /\ e.pc = "writeGen" /\ e.msg = f.msg /\ e.new.name = nameGen[h[2]]
      <3> DEFINE w == [f.new EXCEPT !.name = nameGen[h[2]]]
      <3>1. w \in LinkBody /\ w.name = nameGen[h[2]]
        BY <2>2, <2>3 DEF LinkBody, GivenBody, GeneratedName
      <3>2. e = [f EXCEPT !.pc = "writeGen", !.new = w]
        BY <1>3 DEF Frame
      <3> HIDE DEF w
      <3> QED
        BY <1>3, <3>1, <3>2 DEF Frame, Location
    <2>5. frame' = [frame EXCEPT ![h] = e]
      BY <1>2, <2>1
    <2> HIDE DEF e
    <2>6. Moves(h) /\ frame'[h] = e
      BY <1>1, <1>2, <1>3, <2>1, <2>4, <2>5, WriteEffect
    <2>7. UNCHANGED body
      BY <2>1 DEF graph, links
    <2>8. \A n : HoldsAs(frame'[h], body'[l], n) <=> HoldsAs(f, body[l], n)
      BY <2>1, <2>4, <2>6, <2>7 DEF HoldsAs, Renaming
    <2>9. \A n : body'[l] # None /\ n = body'[l].name => Shows(l, n)
      BY <2>7 DEF Shows
    <2>10. NameIsFree(h)' /\ NewIsCounted(h)'
      BY <1>1, <2>4, <2>6 DEF NameIsFree, NewIsCounted
    <2> QED
      BY <1>1, <1>2, <1>3, <2>6, <2>8, <2>9, <2>10, SteadyLink
  <1>8. CASE SetBody(h)
    <2>1. f.pc = "setBody" /\ Local(h, "setTags") /\ body' = [body EXCEPT ![l] = f.new]
      BY <1>2, <1>8 DEF SetBody, At, LinkOf
    <2>2. Moves(h) /\ frame'[h].pc = "setTags"
      BY <1>5, <2>1 DEF Location
    <2>3. body'[l] = f.new /\ f.new # None
      BY <1>3, <1>4, <2>1 DEF TypeOK, FrameOK, Writing
    <2>4. body[l] = None \/ body[l] # None
      OBVIOUS
    <2>5. \A n : HoldsAs(frame'[h], body'[l], n) <=> HoldsAs(f, body[l], n)
      BY <2>1, <2>2, <2>3 DEF HoldsAs, Renaming
    <2>6. \A n : body'[l] # None /\ n = body'[l].name => Shows(l, n)
      BY <1>2, <1>4, <2>1, <2>3, <1>1 DEF Shows, Holds, Keeps
    <2>7. NameIsFree(h)' /\ NewIsCounted(h)'
      BY <1>1, <1>2, <1>3, <2>1, LocalNames DEF Location
    <2> QED
      BY <1>1, <1>2, <1>3, <2>2, <2>5, <2>6, <2>7, SteadyLink
  <1>9. CASE ReadBody(h)
    <2> DEFINE e == [f EXCEPT !.pc = "dropBody", !.old = body[l]]
    <2>1. f.pc = "readBody" /\ UNCHANGED <<graph, queue, client>>
          /\ frame' = [frame EXCEPT ![h].pc = "dropBody", ![h].old = body[l]]
      BY <1>2, <1>9 DEF ReadBody, At, LinkOf
    <2>2. e \in Frame /\ e.pc = "dropBody" /\ e.msg = f.msg /\ e.new = f.new
      <3>1. body[l] \in LinkBody \cup {None}
        BY <1>3 DEF TypeOK
      <3> QED
        BY <1>3, <3>1 DEF Frame, Location
    <2>3. frame' = [frame EXCEPT ![h] = e]
      BY <1>2, <2>1
    <2> HIDE DEF e
    <2>4. Moves(h) /\ frame'[h] = e
      BY <1>1, <1>2, <1>3, <2>1, <2>2, <2>3, WriteEffect
    <2>5. UNCHANGED body
      BY <2>1 DEF graph, links
    <2>6. \A n : HoldsAs(frame'[h], body'[l], n) <=> HoldsAs(f, body[l], n)
      BY <2>1, <2>2, <2>4, <2>5 DEF HoldsAs, Renaming
    <2>7. \A n : body'[l] # None /\ n = body'[l].name => Shows(l, n)
      BY <2>5 DEF Shows
    <2>8. NameIsFree(h)' /\ NewIsCounted(h)'
      BY <1>1, <1>2, <1>3, <2>1, <2>2, <2>4 DEF NameIsFree, NewIsCounted, Puts
    <2> QED
      BY <1>1, <1>2, <1>3, <2>4, <2>6, <2>7, <2>8, SteadyLink
  <1>10. CASE DropBody(h)
    <2>1. f.pc = "dropBody" /\ body' = [body EXCEPT ![l] = None]
          /\ Local(h, IF f.old = None THEN "requestIn" ELSE "dropName")
      BY <1>2, <1>10 DEF DropBody, At, LinkOf
    <2>2. body[l] = f.old /\ f.old # None
      BY <1>2, <1>4, <2>1 DEF Doing
    <2>3. Local(h, "dropName")
      BY <2>1, <2>2
    <2>4. Moves(h) /\ frame'[h].pc = "dropName" /\ frame'[h].old = f.old
      BY <1>5, <2>3 DEF Location
    <2>5. body'[l] = None
      BY <1>3, <2>1 DEF TypeOK
    <2>6. \A n : HoldsAs(frame'[h], body'[l], n) <=> HoldsAs(f, body[l], n)
      BY <2>1, <2>2, <2>4, <2>5 DEF HoldsAs, Renaming
    <2>7. NameIsFree(h)' /\ NewIsCounted(h)'
      BY <1>1, <1>2, <1>3, <2>1, <2>3, LocalNames DEF Location
    <2> QED
      BY <1>1, <1>2, <1>3, <2>4, <2>5, <2>6, <2>7, SteadyLink
  <1> QED
    BY <1>6, <1>7, <1>8, <1>9, <1>10

\* Another handler for links of the same vertex has no name to choose.
LEMMA OthersNameNothing ==
    ASSUME Orderly, NEW h \in Handler, frame[h] # None, frame[h].pc \in {"writeGen", "setName"},
           NEW x \in Handler, x # h, frame[x] # None, ~frame[x].msg.in, x[2] = h[2], Puts(x)
    PROVE  frame[x].pc = "await"
  <1>1. ~frame[h].msg.in /\ Puts(h) /\ frame[h].pc # "await"
    BY Located DEF Orderly, IInv, Naming, Writing
  <1> QED
    BY <1>1, OneNamer

\* A generated name is not in use, for it is not below the counter.
LEMMA WriteGenNames ==
    ASSUME Orderly, Names, NEW h \in Handler, WriteGen(h)
    PROVE  Names'
  <1>1. /\ frame[h] # None /\ LinkStep(h) /\ frame[h].pc = "writeGen"
        /\ UNCHANGED <<body, outName>> /\ Local(h, "setName")
        /\ nameGen' = [nameGen EXCEPT ![h[2]] = frame[h].new.name + 1]
    BY DEF WriteGen, At, LinkStep
  <1>2. PICK f, l : f = frame[h] /\ l = f.msg.link
    OBVIOUS
  <1>3. /\ TypeOK /\ WellFormed /\ l \in Link /\ f \in Frame
        /\ \A j \in Link : j # l => body'[j] = body[j]
        /\ \A x \in Handler : OutLinksGo(x)'
        /\ \A x \in Handler : NameIsFree(x) /\ NewIsCounted(x)
        /\ ~f.msg.in => l.from = h[2] /\ h[2] \in Vertex
    BY <1>1, <1>2, LinkStepLink
  <1>4. ~f.msg.in /\ Puts(h)
    BY <1>1, <1>2, <1>3, Located DEF Naming, Writing
  <1>5. /\ Moves(h) /\ frame'[h] \in Frame /\ frame'[h].pc = "setName"
        /\ frame'[h].msg = f.msg /\ frame'[h].new = f.new
    BY <1>1, <1>2, <1>3, LocalEffect DEF Location
  <1>6. f.new.name = nameGen[h[2]] /\ h[2] \in Vertex /\ nameGen \in [Vertex -> Nat]
    BY <1>1, <1>2, <1>3, <1>4 DEF NewIsCounted, TypeOK, GeneratedName
  <1>7. /\ nameGen'[h[2]] = nameGen[h[2]] + 1
        /\ \A v \in Vertex : v # h[2] => nameGen'[v] = nameGen[v]
        /\ \A v \in Vertex : nameGen'[v] \in Nat /\ nameGen'[v] >= nameGen[v]
    BY <1>1, <1>2, <1>6
  <1>8. \A j \in Link : \A n : (Holds(j, n)' <=> Holds(j, n)) /\ (Shows(j, n)' <=> Shows(j, n))
    <2>1. \A n : HoldsAs(frame'[h], body'[l], n) <=> HoldsAs(f, body[l], n)
      BY <1>1, <1>2, <1>5 DEF HoldsAs, Renaming
    <2>2. /\ \A n : Holds(l, n)' <=> Holds(l, n)
          /\ \A j \in Link : \A n : j # l => /\ Holds(j, n)' <=> Holds(j, n)
                                             /\ Shows(j, n)' <=> Shows(j, n)
      BY <1>2, <1>3, <1>5, <2>1, MovesHolds
    <2>3. \A n : Shows(l, n)' <=> Shows(l, n)
      BY <1>1, <2>2 DEF Shows
    <2> QED
      BY <2>2, <2>3
  <1>9. NamesHaveKeys' /\ KeysHaveLinks' /\ NamesDiffer' /\ NamesAreCounted'
    BY <1>1, <1>3, <1>7, <1>8, SteadyNames
  <1>10. NameIsFree(h)'
    <2>1. <<h[2], f.new.name>> \notin outName
      <3> SUFFICES ASSUME <<h[2], f.new.name>> \in outName PROVE FALSE
        OBVIOUS
      <3>1. PICK j \in Link : j.from = h[2] /\ Holds(j, f.new.name)
        BY DEF Names, KeysHaveLinks
      <3>2. f.new.name \in Nat /\ f.new.name < nameGen[h[2]]
        BY <1>6, <3>1 DEF Names, NamesAreCounted, Shows
      <3> QED
        BY <1>6, <3>2
    <2> QED
      BY <1>1, <1>5, <2>1 DEF NameIsFree
  <1>11. NewIsCounted(h)'
    BY <1>5, <1>6, <1>7 DEF NewIsCounted
  <1>12. ASSUME NEW x \in Handler, x # h
         PROVE  NameIsFree(x)' /\ NewIsCounted(x)'
    <2>1. frame'[x] = frame[x] /\ x[2] \in Vertex
      BY <1>5, <1>12 DEF Moves, Handler, LinkFunction, VertexFunction
    <2>2. NameIsFree(x)'
      BY <1>1, <1>3, <2>1, NameStays
    <2>3. NewIsCounted(x) /\ frame'[x] = frame[x]
      BY <1>3, <2>1
    <2>4. x[2] # h[2] => nameGen'[x[2]] = nameGen[x[2]]
      BY <1>7, <2>1
    <2>5. CASE x[2] # h[2]
      BY <2>2, <2>3, <2>4, <2>5, CountStays
    <2>6. CASE x[2] = h[2]
      <3>1. nameGen'[x[2]] = nameGen[x[2]] + 1 /\ nameGen[x[2]] \in Nat
        BY <1>6, <1>7, <2>6
      <3>2. frame[x] # None /\ ~frame[x].msg.in /\ Puts(x) => frame[x].pc # "writeGen"
        BY <1>1, <1>12, <2>6, OthersNameNothing
      <3>3. ASSUME frame'[x] # None, ~frame'[x].msg.in, Puts(x)
            PROVE  /\ frame'[x].pc # "writeGen"
                   /\ frame'[x].new.name \in Nat => frame'[x].new.name < nameGen'[x[2]]
        <4>1. /\ frame[x].pc # "writeGen"
              /\ frame[x].new.name \in Nat => frame[x].new.name < nameGen[x[2]]
          BY <2>3, <3>2, <3>3 DEF NewIsCounted
        <4> QED
          BY <2>3, <3>1, <4>1
      <3>4. Puts(x)' <=> Puts(x)
        BY DEF Puts
      <3> QED
        BY <2>2, <3>3, <3>4 DEF NewIsCounted
    <2> QED
      BY <2>5, <2>6
  <1> QED
    BY <1>3, <1>9, <1>10, <1>11, <1>12 DEF Names

\* The name that h is about to write is shown by no other link of the vertex.
LEMMA NewNameIsNew ==
    ASSUME Orderly, Keys, Names, NEW h \in Handler, frame[h] # None, frame[h].pc = "setName",
           NEW j \in Link, j # frame[h].msg.link, j.from = h[2]
    PROVE  ~Shows(j, frame[h].new.name)
  <1> DEFINE n == frame[h].new.name
  <1> SUFFICES ASSUME Shows(j, n) PROVE FALSE
    OBVIOUS
  <1>1. ~Holds(j, n)
    BY DEF Names, NamesHaveKeys, NameIsFree
  <1>2. body[j] # None /\ n = body[j].name
    BY <1>1 DEF Shows
  <1> HIDE DEF n
  <1>3. PICK x \in Handler : Renames(x, j)
    BY <1>1, <1>2 DEF Holds
  <1>4. /\ frame[x] # None /\ frame[x].msg.link = j /\ frame[x].pc \in Renaming /\ x # h
        /\ frame[x].pc \in Naming \cup Dropping
    BY <1>3 DEF Renames, Renaming, Naming, Writing, Dropping
  <1>5. /\ frame[x].pc \notin {"await", "inLink", "reply"}
        /\ frame[x].pc \in Naming => Puts(x)
        /\ frame[x].pc \in Dropping => x[1] \in {"linkUpdate", "linkDelete"}
        /\ ~frame[x].msg.in
        /\ x[1] \in LinkFunction => j.from = x[2]
    <2>1. frame[x].pc \notin {"await", "inLink", "reply"}
      BY <1>4 DEF Renaming
    <2>2. ~frame[x].msg.in
      BY <1>4, <2>1, Located DEF Orderly, IInv
    <2> QED
      BY <1>4, <2>1, <2>2, Located DEF Orderly, IInv
  <1>6. Puts(x)
    <2>1. CASE frame[x].pc \in Dropping
      <3>1. Doing(x)
        BY <1>4 DEF Keys
      <3>2. x[1] # "linkDelete"
        BY <1>2, <1>4, <2>1, <3>1 DEF Doing
      <3> QED
        BY <1>5, <2>1, <3>2 DEF Puts
    <2> QED
      BY <1>4, <1>5, <2>1
  <1>7. x[2] = h[2]
    BY <1>5, <1>6 DEF Puts, LinkFunction
  <1> QED
    BY <1>4, <1>5, <1>6, <1>7, OthersNameNothing

\* A name key is written for one link only.
LEMMA SetNameNames ==
    ASSUME Orderly, Keys, Names, NEW h \in Handler, SetName(h)
    PROVE  Names'
  <1>1. /\ frame[h] # None /\ LinkStep(h) /\ frame[h].pc = "setName"
        /\ UNCHANGED <<body, nameGen>> /\ Local(h, "setIndex")
    BY DEF SetName, At, LinkStep
  <1>2. PICK f, l, new : f = frame[h] /\ l = f.msg.link /\ new = f.new.name
    OBVIOUS
  <1>3. /\ TypeOK /\ WellFormed /\ l \in Link /\ f \in Frame
        /\ \A j \in Link : j # l => body'[j] = body[j]
        /\ \A x \in Handler : OutLinksGo(x)'
        /\ \A x \in Handler : NameIsFree(x) /\ NewIsCounted(x)
        /\ ~f.msg.in => l.from = h[2] /\ h[2] \in Vertex
    BY <1>1, <1>2, LinkStepLink
  <1>4. ~f.msg.in /\ Puts(h)
    BY <1>1, <1>2, <1>3, Located DEF Naming, Writing
  <1>5. /\ Moves(h) /\ frame'[h] \in Frame /\ frame'[h].pc = "setIndex"
        /\ frame'[h].msg = f.msg /\ frame'[h].new = f.new
    BY <1>1, <1>2, <1>3, LocalEffect DEF Location
  <1>6. outName' = outName \cup {<<l.from, new>>} /\ l.from = h[2]
    BY <1>2, <1>3, <1>4 DEF SetName
  <1>7. /\ \A n : ~Holds(l, n)
        /\ \A n : Holds(l, n)' <=> n = new
        /\ \A n : Shows(l, n)' <=> Shows(l, n) \/ n = new
        /\ \A j \in Link : \A n : j # l => /\ Holds(j, n)' <=> Holds(j, n)
                                           /\ Shows(j, n)' <=> Shows(j, n)
    <2>1. /\ \A n : Holds(l, n) <=> HoldsAs(f, body[l], n)
          /\ \A n : Holds(l, n)' <=> HoldsAs(frame'[h], body'[l], n)
          /\ \A j \in Link : \A n : j # l => /\ Holds(j, n)' <=> Holds(j, n)
                                             /\ Shows(j, n)' <=> Shows(j, n)
      BY <1>2, <1>3, <1>5, MovesHolds
    <2>2. \A n : ~HoldsAs(f, body[l], n)
      BY <1>1, <1>2 DEF HoldsAs, Renaming
    <2>3. \A n : HoldsAs(frame'[h], body'[l], n) <=> n = new
      BY <1>2, <1>5 DEF HoldsAs, Renaming
    <2>4. \A n : Shows(l, n)' <=> Shows(l, n) \/ n = new
      BY <1>1, <2>1, <2>2, <2>3 DEF Shows
    <2> QED
      BY <2>1, <2>2, <2>3, <2>4
  <1>8. NamesHaveKeys'
    BY <1>6, <1>7 DEF Names, NamesHaveKeys
  <1>9. KeysHaveLinks'
    <2>1. ASSUME NEW k \in outName PROVE \E j \in Link : j.from = k[1] /\ Holds(j, k[2])'
      BY <1>7 DEF Names, KeysHaveLinks
    <2>2. Holds(l, new)'
      BY <1>7
    <2> QED
      BY <1>3, <1>6, <2>1, <2>2 DEF KeysHaveLinks
  <1>10. NamesDiffer'
    <2>1. \A j \in Link : j # l /\ j.from = l.from => ~Shows(j, new)
      BY <1>1, <1>2, <1>6, NewNameIsNew
    <2>2. \A i, j \in Link : \A n : i.from = j.from /\ Shows(i, n) /\ Shows(j, n) => i = j
      BY DEF Names, NamesDiffer
    <2>3. ASSUME NEW i \in Link, NEW j \in Link, NEW n, i.from = j.from,
                 Shows(i, n)', Shows(j, n)'
          PROVE  i = j
      <3>1. CASE i = l /\ j # l
        BY <1>7, <2>1, <2>2, <2>3, <3>1
      <3>2. CASE j = l /\ i # l
        BY <1>7, <2>1, <2>2, <2>3, <3>2
      <3>3. CASE i # l /\ j # l
        BY <1>7, <2>2, <2>3, <3>3
      <3> QED
        BY <3>1, <3>2, <3>3
    <2> QED
      BY <2>3 DEF NamesDiffer
  <1>11. NamesAreCounted'
    <2>1. new \in Nat => new < nameGen[l.from]
      BY <1>1, <1>2, <1>3, <1>4, <1>6 DEF NewIsCounted
    <2> QED
      BY <1>1, <1>7, <2>1 DEF Names, NamesAreCounted
  <1>12. NameIsFree(h)' /\ NewIsCounted(h)'
    <2>1. frame[h].pc \notin {"await", "writeGen"} /\ NewIsCounted(h) /\ UNCHANGED nameGen
      BY <1>1, <1>3
    <2> QED
      BY <1>1, <1>3, <2>1, LocalNames DEF Location
  <1>13. ASSUME NEW x \in Handler, x # h
         PROVE  NameIsFree(x)' /\ NewIsCounted(x)'
    <2>1. frame'[x] = frame[x]
      BY <1>5, <1>13 DEF Moves
    <2>2. NewIsCounted(x)'
      BY <1>1, <1>3, <2>1, CountStays
    <2>3. CASE frame[x] # None /\ frame[x].pc = "setName"
      <3>1. ~frame[x].msg.in /\ Puts(x)
        BY <1>3, <2>3, Located DEF Naming, Writing
      <3>2. x[2] # h[2]
        BY <1>1, <1>13, <2>3, <3>1, OthersNameNothing
      <3>3. <<x[2], frame[x].new.name>> \notin outName
        BY <1>3, <2>3 DEF NameIsFree
      <3>4. <<x[2], frame[x].new.name>> # <<l.from, new>>
        BY <1>6, <3>2
      <3> QED
        BY <1>6, <2>1, <2>2, <3>3, <3>4 DEF NameIsFree
    <2>4. CASE ~(frame[x] # None /\ frame[x].pc = "setName")
      BY <2>1, <2>2, <2>4 DEF NameIsFree
    <2> QED
      BY <2>3, <2>4
  <1> QED
    BY <1>3, <1>8, <1>9, <1>10, <1>11, <1>12, <1>13 DEF Names

\* A name key that is deleted was that of this link only.
LEMMA DropNameNames ==
    ASSUME Orderly, Keys, Names, NEW h \in Handler, DropName(h)
    PROVE  Names'
  <1>1. /\ frame[h] # None /\ LinkStep(h) /\ frame[h].pc = "dropName"
        /\ UNCHANGED <<body, nameGen>> /\ Local(h, "dropIndex")
    BY DEF DropName, At, LinkStep
  <1>2. PICK f, l, old : f = frame[h] /\ l = f.msg.link /\ old = f.old.name
    OBVIOUS
  <1>3. /\ TypeOK /\ WellFormed /\ l \in Link /\ l # None /\ f \in Frame
        /\ \A j \in Link : j # l => body'[j] = body[j]
        /\ \A x \in Handler : OutLinksGo(x)'
        /\ \A x \in Handler : NameIsFree(x) /\ NewIsCounted(x)
        /\ ~f.msg.in => l.from = h[2] /\ h[2] \in Vertex
    BY <1>1, <1>2, LinkStepLink
  <1>4. ~f.msg.in
    BY <1>1, <1>2, <1>3, Located
  <1>5. /\ Moves(h) /\ frame'[h] \in Frame /\ frame'[h].pc = "dropIndex"
        /\ frame'[h].msg = f.msg /\ frame'[h].new = f.new
    BY <1>1, <1>2, <1>3, LocalEffect DEF Location
  <1>6. outName' = outName \ {<<l.from, old>>} /\ l.from = h[2]
    BY <1>2, <1>3, <1>4 DEF DropName
  <1>7. /\ \A n : Holds(l, n) <=> n = old
        /\ \A n : ~Holds(l, n)'
        /\ \A n : Shows(l, n)' => Shows(l, n)
        /\ \A j \in Link : \A n : j # l => /\ Holds(j, n)' <=> Holds(j, n)
                                           /\ Shows(j, n)' <=> Shows(j, n)
    <2>1. /\ \A n : Holds(l, n) <=> HoldsAs(f, body[l], n)
          /\ \A n : Holds(l, n)' <=> HoldsAs(frame'[h], body'[l], n)
          /\ \A j \in Link : \A n : j # l => /\ Holds(j, n)' <=> Holds(j, n)
                                             /\ Shows(j, n)' <=> Shows(j, n)
      BY <1>2, <1>3, <1>5, MovesHolds
    <2>2. body[l] = None \/ body[l] = f.old
      <3>1. Doing(h)
        BY <1>1, <1>2, <1>3 DEF Keys
      <3> QED
        BY <1>1, <1>2, <3>1 DEF Doing, Dropping
    <2>3. \A n : HoldsAs(f, body[l], n) <=> n = old
      BY <1>1, <1>2, <2>2 DEF HoldsAs, Renaming
    <2>4. \A n : ~HoldsAs(frame'[h], body'[l], n)
      BY <1>5 DEF HoldsAs, Renaming
    <2>5. \A n : Shows(l, n)' => Shows(l, n)
      BY <1>1, <2>1, <2>4 DEF Shows
    <2> QED
      BY <2>1, <2>3, <2>4, <2>5
  <1>8. \A i, j \in Link : \A n : i.from = j.from /\ Shows(i, n) /\ Shows(j, n) => i = j
    BY DEF Names, NamesDiffer
  <1>9. NamesHaveKeys'
    <2>1. ASSUME NEW j \in Link, NEW n, Holds(j, n)'
          PROVE  <<j.from, n>> \in outName'
      <3>1. j # l /\ Holds(j, n)
        BY <1>7, <2>1
      <3>2. <<j.from, n>> \in outName
        BY <3>1 DEF Names, NamesHaveKeys
      <3>3. <<j.from, n>> # <<l.from, old>>
        BY <1>3, <1>7, <1>8, <3>1 DEF Shows
      <3> QED
        BY <1>6, <3>2, <3>3
    <2> QED
      BY <2>1 DEF NamesHaveKeys
  <1>10. KeysHaveLinks'
    <2>1. ASSUME NEW k \in outName'
          PROVE  \E j \in Link : j.from = k[1] /\ Holds(j, k[2])'
      <3>1. k \in outName /\ k # <<l.from, old>> /\ k = <<k[1], k[2]>>
        BY <1>3, <1>6, <2>1 DEF TypeOK
      <3>2. PICK j \in Link : j.from = k[1] /\ Holds(j, k[2])
        BY <3>1 DEF Names, KeysHaveLinks
      <3>3. j # l
        BY <1>7, <3>1, <3>2
      <3> QED
        BY <1>7, <3>2, <3>3
    <2> QED
      BY <2>1 DEF KeysHaveLinks
  <1>11. NamesDiffer' /\ NamesAreCounted'
    <2>1. \A j \in Link : \A n : Shows(j, n)' => Shows(j, n)
      BY <1>7
    <2> QED
      BY <1>1, <1>8, <2>1 DEF Names, NamesDiffer, NamesAreCounted
  <1>12. NameIsFree(h)' /\ NewIsCounted(h)'
    <2>1. frame[h].pc \notin {"await", "writeGen"} /\ NewIsCounted(h) /\ UNCHANGED nameGen
      BY <1>1, <1>3
    <2> QED
      BY <1>1, <1>3, <2>1, LocalNames DEF Location
  <1>13. ASSUME NEW x \in Handler, x # h
         PROVE  NameIsFree(x)' /\ NewIsCounted(x)'
    BY <1>1, <1>3, <1>5, <1>6, <1>13, NameStays, CountStays DEF Moves
  <1> QED
    BY <1>3, <1>9, <1>10, <1>11, <1>12, <1>13 DEF Names

\* A step of a handler keeps the third invariant.
LEMMA ExecuteNames ==
    ASSUME NamesAreChosen, Orderly, Keys, Names, NEW h \in Handler, frame[h] # None,
           LinkStep(h) \/ VertexStep(h)
    PROVE  Names'
  <1>1. CASE VertexStep(h)
    BY <1>1, VertexNames
  <1>2. CASE CreateStart(h) \/ UpdateStart(h) \/ RequestIn(h)
    BY <1>2, GoOnNames, RequestNames, UpdateNames
  <1>3. CASE SetIndex(h) \/ SetTags(h) \/ InLink(h) \/ DeleteStart(h) \/ DropIndex(h) \/ DropTags(h)
    BY <1>3, GoOnNames
  <1>4. CASE ChooseName(h)
    BY <1>4, GoOnNames, WriteNames
  <1>5. CASE ReadGen(h) \/ SetBody(h) \/ ReadBody(h) \/ DropBody(h)
    BY <1>5, WriteNames
  <1>6. CASE WriteGen(h) \/ SetName(h) \/ DropName(h)
    BY <1>6, WriteGenNames, SetNameNames, DropNameNames
  <1> QED
    BY <1>1, <1>2, <1>3, <1>4, <1>5, <1>6 DEF LinkStep

\* The invariant.
NInv == KInv /\ Names

\* It holds at first.
LEMMA InitNInv == Init => NInv
  <1> SUFFICES ASSUME Init PROVE NInv
    OBVIOUS
  <1>1. /\ \A h \in Handler : frame[h] = None
        /\ \A l \in Link : body[l] = None
        /\ outName = {}
    BY DEF Init
  <1>2. \A l \in Link : \A n : ~Holds(l, n) /\ ~Shows(l, n)
    BY <1>1 DEF Holds, Shows, Keeps
  <1>3. Names
    BY <1>1, <1>2 DEF Names, NamesHaveKeys, KeysHaveLinks, NamesDiffer, NamesAreCounted,
         NameIsFree, NewIsCounted, OutLinksGo
  <1> QED
    BY <1>3, InitKInv DEF NInv

\* Every step keeps it.
LEMMA NextNInv ==
    ASSUME CallersAreApart, NamesAreChosen, NInv, [Next]_vars
    PROVE  NInv'
  <1>1. Orderly /\ IInv /\ Keys /\ Names
    BY DEF NInv, KInv, Orderly
  <1>2. KInv'
    BY NextKInv DEF NInv
  <1>3. ASSUME NEW c \in Client, NEW call \in Calls[c], ClientCall(c, call) PROVE Names'
    BY <1>1, <1>3, CallNames
  <1>4. ASSUME NEW h \in Handler, HandleBegin(h) PROVE Names'
    BY <1>1, <1>4, BeginNames
  <1>5. ASSUME NEW h \in Handler, Reply(h) PROVE Names'
    BY <1>1, <1>5, ReplyNames
  <1>6. ASSUME NEW h \in Handler, frame[h] # None, LinkStep(h) \/ VertexStep(h) PROVE Names'
    BY <1>1, <1>6, ExecuteNames
  <1>7. ASSUME UNCHANGED vars PROVE Names'
    <2>1. UNCHANGED <<body, outName, nameGen>> /\ UNCHANGED <<queue, frame>> /\ UNCHANGED graph
      BY <1>7 DEF vars, graph, links
    <2>2. NamesHaveKeys' /\ KeysHaveLinks' /\ NamesDiffer' /\ NamesAreCounted'
      BY <1>1, <2>1, QuietNames DEF IInv
    <2>3. \A x \in Handler : Held(x)' = Held(x)
      BY <2>1 DEF Held, Elements
    <2>4. ASSUME NEW x \in Handler
          PROVE  NameIsFree(x)' /\ NewIsCounted(x)' /\ OutLinksGo(x)'
      <3>1. frame'[x] = frame[x] /\ NameIsFree(x) /\ NewIsCounted(x) /\ OutLinksGo(x)
        BY <1>1, <2>1 DEF Names
      <3>2. NameIsFree(x)' /\ NewIsCounted(x)'
        BY <2>1, <3>1, NameStays, CountStays
      <3>3. OutLinksGo(x)'
        BY <2>1, <2>3, <3>1, OutLinksStay
      <3> QED
        BY <3>2, <3>3
    <2> QED
      BY <2>2, <2>4 DEF Names
  <1> QED
    BY <1>2, <1>3, <1>4, <1>5, <1>6, <1>7 DEF NInv, Next, HandlerStep, Execute

\* It always holds.
LEMMA AlwaysNInv == CallersAreApart /\ NamesAreChosen /\ Spec => []NInv
  <1> SUFFICES ASSUME CallersAreApart, NamesAreChosen PROVE Spec => []NInv
    OBVIOUS
  <1>1. NInv /\ [Next]_vars => NInv'
    BY NextNInv
  <1> QED
    BY <1>1, InitNInv, PTL DEF Spec

\* A link that nobody is changing is worked on by nobody.
LEMMA SettledIsFree ==
    ASSUME NEW l \in Link, Settled(l)
    PROVE  \A h \in Handler : \A m \in Held(h) : m.link # l
  BY DEF Settled, Held, Elements, LinkOf

\* The keys of a link agree with its body when nobody is changing it, for any
\* vertices, names, tags and callers, if the callers are apart.
THEOREM KeysKeepAgreeing ==
    ASSUME CallersAreApart, NamesAreChosen
    PROVE  Spec => []KeysAgree
  <1>1. NInv => KeysAgree
    <2> SUFFICES ASSUME NInv, NEW l \in Link, Settled(l)
                 PROVE  /\ l \in inLink <=> body[l] # None
                        /\ {k \in outIndex : k[1] = l} =
                               IF body[l] = None THEN {}
                               ELSE {<<l, "name", body[l].name>>} \cup TagKeys(l, body[l].tags)
                        /\ body[l] # None => <<l.from, body[l].name>> \in outName
      BY DEF KeysAgree
    <2>1. \A h \in Handler : \A m \in Held(h) : m.link # l
      BY SettledIsFree
    <2>2. Whole(l)
      BY <2>1 DEF NInv, KInv, Keys
    <2>3. \A x \in Handler : ~Renames(x, l)
      BY <2>1 DEF Renames, Held
    <2>4. body[l] # None => Holds(l, body[l].name)
      BY <2>3 DEF Holds
    <2>5. body[l] # None => <<l.from, body[l].name>> \in outName
      BY <2>4 DEF NInv, Names, NamesHaveKeys
    <2> QED
      BY <2>2, <2>5 DEF Whole, Index, AllKeys, NameKey
  <1> QED
    BY <1>1, AlwaysNInv, PTL

\* A name key belongs to a link when nobody is changing one.
THEOREM NamesKeepBeingUsed ==
    ASSUME CallersAreApart, NamesAreChosen
    PROVE  Spec => []NamesAreUsed
  <1>1. NInv => NamesAreUsed
    <2> SUFFICES ASSUME NInv, \A l \in Link : Settled(l), NEW k \in outName
                 PROVE  \E l \in Link : body[l] # None /\ k = <<l.from, body[l].name>>
      BY DEF NamesAreUsed
    <2>1. PICK l \in Link : l.from = k[1] /\ Holds(l, k[2])
      BY DEF NInv, Names, KeysHaveLinks
    <2>2. \A h \in Handler : \A m \in Held(h) : m.link # l
      BY SettledIsFree
    <2>3. \A x \in Handler : ~Keeps(x, l, k[2])
      BY <2>2 DEF Keeps, Held
    <2>4. body[l] # None /\ k[2] = body[l].name
      BY <2>1, <2>3 DEF Holds
    <2>5. k = <<k[1], k[2]>>
      BY DEF NInv, KInv, IInv, TypeOK
    <2> QED
      BY <2>1, <2>4, <2>5
  <1> QED
    BY <1>1, AlwaysNInv, PTL

\* Two links of a vertex never show one name in their bodies, even while they
\* are being changed.
THEOREM NamesStayUnique ==
    ASSUME CallersAreApart, NamesAreChosen
    PROVE  Spec => []NamesAreUnique
  <1>1. NInv => NamesAreUnique
    BY DEF NInv, Names, NamesDiffer, Shows, NamesAreUnique
  <1> QED
    BY <1>1, AlwaysNInv, PTL

-----------------------------------------------------------------------------
(* The fourth invariant: what has been done when an answer is given *)

\* The tags that a call gives are in the body to be written, and in the body of
\* the link once it is written.
Written(h) == \/ frame[h].pc \in {"setTags", "requestIn", "reply"}
              \/ h[1] = "linkCreate" /\ frame[h].pc = "await" /\ frame[h].then = "reply"
TagsAreTaken(h) == frame[h] # None /\ ~frame[h].msg.in /\ Puts(h) =>
    /\ frame[h].msg.body.tags \subseteq frame[h].new.tags
    /\ Written(h) => frame[h].msg.body.tags \subseteq body[frame[h].msg.link].tags

\* The vertex is there, or gone.
VertexIsSet(h) == frame[h] # None /\ frame[h].pc = "reply" =>
    /\ h[1] \in {"vertexCreate", "vertexUpdate"} => h[2] \in vertex
    /\ h[1] = "vertexDelete" => h[2] \notin vertex

\* The in links of a vertex that is being deleted are listed, requested or gone
\* once its out links are; none is left when the vertex is dropped.
InLinksGo(h) == frame[h] # None /\ h[1] = "vertexDelete" =>
    /\ Stage(frame[h]) = "deleteIn" => \A l \in Link : l.to = h[2] /\ body[l] # None =>
          \/ l \in frame[h].todo
          \/ \E g \in Handler : \E m \in Held(g) : m.caller = h /\ m.link = l
    /\ Stage(frame[h]) \in {"dropVertex", "reply"} =>
          \A l \in Link : h[2] \in {l.from, l.to} => body[l] = None

Effects == \A h \in Handler : TagsAreTaken(h) /\ VertexIsSet(h) /\ InLinksGo(h)

\* Nobody changes the body of a link while the one who writes it waits for its
\* in link, or is not waiting.
LEMMA BodyIsKept ==
    ASSUME Orderly, NEW h \in Handler, NEW x \in Handler \ {h},
           frame[h] # None, frame[h].msg.link # None,
           frame[h].pc # "await" \/ (h[1] = "linkCreate" /\ frame[h].then = "reply"),
           frame[x] # None, frame[x].pc # "await", ~frame[x].msg.in
    PROVE  frame[x].msg.link # frame[h].msg.link
  <1> SUFFICES ASSUME frame[x].msg.link = frame[h].msg.link PROVE FALSE
    OBVIOUS
  <1>1. CASE frame[h].pc # "await"
    BY <1>1, OthersElsewhere
  <1>2. CASE frame[h].pc = "await" /\ h[1] = "linkCreate" /\ frame[h].then = "reply"
    <2>1. PICK m, n : m = frame[x].msg /\ n = frame[h].msg
      OBVIOUS
    <2>2. m \in Held(x) /\ n \in Held(h) /\ Active(x, m) /\ m.link # None /\ m.link = n.link
      BY <2>1 DEF Held, Active
    <2>3. Root(m) = Root(n)
      BY <2>2, OneRoot DEF Orderly
    <2>4. Ancestor(m, h, n)
      BY <2>2, <2>3 DEF Orderly, Line
    <2>5. ASSUME NEW y \in Handler, NEW k \in Held(y), k.caller = h
          PROVE  k.in
      <3>1. AsksAs(frame[h], h, y, k)
        BY <2>5, AboveWaits DEF Orderly, Asks
      <3> QED
        BY <1>2, <3>1, AskGoesOn
    <2>6. ASSUME NEW y \in Handler, NEW k \in Held(y), k.caller \in Handler
          PROVE  Above(k) \in Held(k.caller) /\ ~Above(k).in
      BY <2>6, AboveWaits DEF Orderly
    <2>7. CASE h = m.caller
      BY <2>1, <2>2, <2>5, <2>7
    <2>8. CASE m.caller \in Handler /\ h = Above(m).caller
      BY <2>2, <2>5, <2>6, <2>8
    <2>9. CASE /\ m.caller \in Handler /\ Above(m).caller \in Handler
               /\ h = Above(Above(m)).caller
      BY <2>2, <2>5, <2>6, <2>9
    <2> QED
      BY <2>4, <2>7, <2>8, <2>9 DEF Ancestor
  <1> QED
    BY <1>1, <1>2

\* What a handler has taken of a call, when a step leaves its frame and the body of
\* its link alone.
LEMMA TagsStay ==
    ASSUME NEW x, frame'[x] = frame[x], TagsAreTaken(x),
           frame[x] # None /\ ~frame[x].msg.in /\ Puts(x) /\ Written(x) =>
              body'[frame[x].msg.link] = body[frame[x].msg.link]
    PROVE  TagsAreTaken(x)'
  BY DEF TagsAreTaken, Written, Puts

\* A step on a link writes the body with the tags of the call.
LEMMA OwnTags ==
    ASSUME Orderly, NEW h \in Handler, frame[h] # None, LinkStep(h), TagsAreTaken(h)
    PROVE  TagsAreTaken(h)'
  <1>1. PICK f, l : f = frame[h] /\ l = f.msg.link
    OBVIOUS
  <1>2. /\ TypeOK /\ WellFormed /\ l \in Link /\ f \in Frame
        /\ frame \in [Handler -> Frame \cup {None}]
    BY <1>1, LinkStepEffect DEF Orderly, IInv, TypeOK
  <1> SUFFICES ASSUME frame'[h] # None, ~frame'[h].msg.in, Puts(h)
               PROVE  /\ frame'[h].msg.body.tags \subseteq frame'[h].new.tags
                      /\ Written(h)' => frame'[h].msg.body.tags \subseteq body'[frame'[h].msg.link].tags
    BY DEF TagsAreTaken, Puts
  <1>3. frame'[h].msg = f.msg
    <2>1. Moves(h) \/ SendsWell(h)
      BY ExecuteEffect DEF Orderly
    <2> QED
      BY <1>1, <2>1 DEF Moves, SendsWell, Sends
  <1>4. /\ f.msg.body.tags \subseteq f.new.tags
        /\ Written(h) => f.msg.body.tags \subseteq body[l].tags
    BY <1>1, <1>3 DEF TagsAreTaken
  <1>5. ASSUME NEW s \in Location, NEW d,
               \/ frame' = [frame EXCEPT ![h].pc = s]
               \/ frame' = [frame EXCEPT ![h].pc = s, ![h].then = d]
        PROVE  /\ frame'[h].new = f.new /\ frame'[h].pc = s
               /\ frame' = [frame EXCEPT ![h].pc = s, ![h].then = d] => frame'[h].then = d
    BY <1>1, <1>2, <1>5 DEF Frame
  <1>6. CASE SetBody(h)
    <2>1. frame' = [frame EXCEPT ![h].pc = "setTags"] /\ body' = [body EXCEPT ![l] = f.new]
      BY <1>1, <1>6 DEF SetBody, Local, Next_, LinkOf
    <2>2. frame'[h].new = f.new
      BY <1>5, <2>1 DEF Location
    <2>3. body'[l] = f.new
      BY <1>2, <2>1 DEF TypeOK
    <2> QED
      BY <1>1, <1>3, <1>4, <2>2, <2>3
  <1>7. CASE UpdateStart(h) /\ body[l] # None
    <2>1. PICK b \in Updated(body[l], f.msg.body) :
             frame' = [frame EXCEPT ![h].pc = "dropName", ![h].old = body[l], ![h].new = b]
      BY <1>1, <1>7 DEF UpdateStart, LinkOf
    <2>2. f.msg.body.tags \subseteq b.tags
      BY <2>1 DEF Updated
    <2>3. frame'[h].new = b /\ frame'[h].pc = "dropName"
      BY <1>1, <1>2, <2>1 DEF Frame
    <2> QED
      BY <1>3, <2>2, <2>3 DEF Written
  <1>8. CASE ReadGen(h)
    <2>1. frame' = [frame EXCEPT ![h].pc = "writeGen", ![h].new.name = nameGen[h[2]]]
      BY <1>8 DEF ReadGen
    <2>2. frame'[h].new = [f.new EXCEPT !.name = nameGen[h[2]]] /\ frame'[h].pc = "writeGen"
      BY <1>1, <1>2, <2>1 DEF Frame
    <2>3. f.new \in LinkBody \cup GivenBody
      BY <1>1, <1>2, <1>3, Located DEF FrameOK
    <2>4. frame'[h].new.tags = f.new.tags
      BY <2>2, <2>3 DEF LinkBody, GivenBody
    <2> QED
      BY <1>3, <1>4, <2>2, <2>4 DEF Written
  <1>9. CASE ChooseName(h) \/ WriteGen(h) \/ SetName(h) \/ SetIndex(h)
             \/ DropName(h) \/ DropIndex(h)
    <2>1. PICK s \in {"setName", "readGen", "setIndex", "setBody", "dropIndex", "dropTags"} :
             frame' = [frame EXCEPT ![h].pc = s]
      BY <1>9 DEF ChooseName, WriteGen, SetName, SetIndex, DropName, DropIndex, Local, Next_
    <2>2. frame'[h].new = f.new /\ frame'[h].pc = s
      BY <1>5, <2>1 DEF Location
    <2> QED
      BY <1>3, <1>4, <2>2 DEF Written
  <1>10. CASE DropTags(h) \/ DropBody(h) \/ ReadBody(h) \/ DeleteStart(h)
    <2>1. h[1] # "linkDelete"
      BY DEF Puts
    <2>2. DropTags(h)
      <3>1. ReadBody(h) \/ DropBody(h) => h[1] = "linkDelete"
        BY <1>1, <1>2, Located DEF ReadBody, DropBody, At
      <3> QED
        BY <1>10, <2>1, <3>1 DEF DeleteStart, Of
    <2>3. frame' = [frame EXCEPT ![h].pc = "name"]
      BY <2>1, <2>2 DEF DropTags, Local, Next_, Of
    <2>4. frame'[h].new = f.new /\ frame'[h].pc = "name"
      BY <1>5, <2>3 DEF Location
    <2> QED
      BY <1>3, <1>4, <2>4 DEF Written
  <1>11. CASE SetTags(h)
    <2>1. PICK s \in {"requestIn", "reply"} : frame' = [frame EXCEPT ![h].pc = s]
      BY <1>11 DEF SetTags, Local, Next_
    <2>2. frame'[h].new = f.new /\ UNCHANGED body /\ f.pc = "setTags"
      BY <1>1, <1>5, <1>11, <2>1 DEF Location, SetTags, At
    <2> QED
      BY <1>1, <1>3, <1>4, <2>2 DEF Written
  <1>12. CASE RequestIn(h)
    <2>1. frame' = [frame EXCEPT ![h].pc = "await", ![h].then = "reply"]
          /\ UNCHANGED graph /\ f.pc = "requestIn"
      BY <1>1, <1>12 DEF RequestIn, Request, At
    <2>2. frame'[h].new = f.new /\ UNCHANGED body
      BY <1>5, <2>1 DEF Location, graph, links
    <2> QED
      BY <1>1, <1>3, <1>4, <2>1, <2>2 DEF Written
  <1>13. CASE CreateStart(h)
    <2>1. \/ frame' = [frame EXCEPT ![h].pc = "await", ![h].then = "name"]
          \/ frame' = [frame EXCEPT ![h].pc = "name"]
      BY <1>13 DEF CreateStart, Request, Local, Next_
    <2>2. frame'[h].new = f.new
      BY <1>5, <2>1 DEF Location
    <2>3. frame'[h].pc = "name" \/ (frame'[h].pc = "await" /\ frame'[h].then = "name")
      BY <1>5, <2>1 DEF Location
    <2> QED
      BY <1>3, <1>4, <2>2, <2>3 DEF Written
  <1>14. CASE UpdateStart(h) /\ body[l] = None
    <2>1. frame' = [frame EXCEPT ![h].pc = "await", ![h].then = "reply"] /\ h[1] = "linkUpdate"
      BY <1>1, <1>14 DEF UpdateStart, Request, LinkOf, Of
    <2>2. frame'[h].new = f.new /\ frame'[h].pc = "await"
      BY <1>5, <2>1 DEF Location
    <2> QED
      BY <1>3, <1>4, <2>1, <2>2 DEF Written
  <1>15. ~InLink(h)
    BY <1>1, <1>2, <1>3, Located DEF InLink, At
  <1> QED
    BY <1>6, <1>7, <1>8, <1>9, <1>10, <1>11, <1>12, <1>13, <1>14, <1>15 DEF LinkStep

\* So does a step on a link for all who write one.
LEMMA LinkTags ==
    ASSUME Orderly, Effects, NEW h \in Handler, frame[h] # None, LinkStep(h)
    PROVE  \A x \in Handler : TagsAreTaken(x)'
  <1> TAKE x \in Handler
  <1>1. CASE x = h
    BY <1>1, OwnTags DEF Effects
  <1>2. CASE x # h
    <2>1. PICK l : l = frame[h].msg.link
      OBVIOUS
    <2>2. /\ TypeOK /\ WellFormed /\ l \in Link
          /\ frame'[x] = frame[x] /\ TagsAreTaken(x)
          /\ \A j \in Link : j # l => body'[j] = body[j]
      BY <1>2, <2>1, LinkStepEffect DEF Orderly, IInv, Effects
    <2>3. ASSUME frame[x] # None, ~frame[x].msg.in, Puts(x), Written(x)
          PROVE  body'[frame[x].msg.link] = body[frame[x].msg.link]
      <3>1. frame[x].msg.link \in Link
        BY <2>2, <2>3, Located DEF Puts, LinkFunction
      <3>2. CASE frame[h].msg.in
        <4>1. frame[h].pc \in {"inLink", "reply"}
          BY <2>2, <3>2, Located
        <4>2. UNCHANGED body
          BY <4>1 DEF LinkStep, CreateStart, UpdateStart, ChooseName, ReadGen, WriteGen, SetName,
             SetIndex, SetBody, SetTags, RequestIn, InLink, DeleteStart, ReadBody, DropBody,
             DropName, DropIndex, DropTags, At, graph, links
        <4> QED
          BY <4>2
      <3>3. CASE ~frame[h].msg.in
        <4>1. frame[h].pc # "await"
          BY DEF LinkStep, CreateStart, UpdateStart, ChooseName, ReadGen, WriteGen, SetName,
             SetIndex, SetBody, SetTags, RequestIn, InLink, DeleteStart, ReadBody, DropBody,
             DropName, DropIndex, DropTags, At
        <4>2. frame[h].msg.link # frame[x].msg.link
          <5>1. h \in Handler \ {x} /\ frame[x].msg.link # None
            BY <1>2, <3>1
          <5>2. frame[x].pc # "await" \/ (x[1] = "linkCreate" /\ frame[x].then = "reply")
            BY <2>3 DEF Written
          <5> QED
            BY <2>3, <3>3, <4>1, <5>1, <5>2, BodyIsKept
        <4> QED
          BY <2>1, <2>2, <3>1, <4>2
      <3> QED
        BY <3>2, <3>3
    <2> QED
      BY <2>2, <2>3, TagsStay
  <1> QED
    BY <1>1, <1>2

\* Who works on a vertex is alone there.
LEMMA OneAtVertex ==
    ASSUME VerticesAreApart, Orderly, NEW h \in Handler, NEW x \in Handler,
           frame[h] # None, frame[x] # None, frame[h].pc # "await", frame[x].pc # "await",
           h[1] \in VertexFunction, x[1] \in VertexFunction, h[2] = x[2]
    PROVE  h = x
  <1>1. PICK m, n : m = frame[h].msg /\ n = frame[x].msg
    OBVIOUS
  <1>2. m \in Held(h) /\ n \in Held(x) /\ Active(h, m) /\ Active(x, n)
    BY <1>1 DEF Held, Active
  <1>3. PICK c, d : c = Root(m) /\ d = Root(n)
    OBVIOUS
  <1>4. /\ c \in Client /\ client[c] \in Calls[c] /\ Within(h, m, client[c])
        /\ d \in Client /\ client[d] \in Calls[d] /\ Within(x, n, client[d])
    BY <1>2, <1>3, Depth DEF Orderly, Serving
  <1>5. PICK p, q : p = client[c] /\ q = client[d]
    OBVIOUS
  <1>6. /\ p \in Calls[c] /\ p.handler[1] \in VertexFunction /\ p.handler[2] = h[2]
        /\ q \in Calls[d] /\ q.handler[1] \in VertexFunction /\ q.handler[2] = x[2]
    BY <1>4, <1>5 DEF Within
  <1>7. c = d
    BY <1>4, <1>6 DEF VerticesAreApart
  <1>8. (h = x /\ m = n) \/ Ancestor(m, x, n)
    BY <1>2, <1>3, <1>7 DEF Orderly, Line
  <1>9. ~Ancestor(m, x, n)
    BY <1>2, AncestorWaits DEF Orderly
  <1> QED
    BY <1>8, <1>9

\* A step of a vertex function leaves its vertex set.
LEMMA VertexSets ==
    ASSUME VerticesAreApart, Orderly, Effects, NEW h \in Handler, frame[h] # None, VertexStep(h)
    PROVE  \A x \in Handler : VertexIsSet(x)'
  <1>1. PICK f : f = frame[h]
    OBVIOUS
  <1>2. /\ TypeOK /\ WellFormed /\ f \in Frame
        /\ frame \in [Handler -> Frame \cup {None}]
        /\ h[1] \in VertexFunction /\ \A x \in Handler \ {h} : frame'[x] = frame[x]
    BY <1>1, VertexStepEffect DEF Orderly, IInv, TypeOK
  <1>3. f.pc # "await"
    BY <1>1 DEF VertexStep, VertexStart, SetVertex, ListOut, ListIn, RequestDelete, DropGen,
       DropVertex, At
  <1>4. \/ SetVertex(h) /\ vertex' = vertex \cup {h[2]} /\ h[1] \in {"vertexCreate", "vertexUpdate"}
        \/ DropVertex(h) /\ vertex' = vertex \ {h[2]} /\ h[1] = "vertexDelete"
        \/ UNCHANGED vertex /\ frame'[h].pc # "reply"
    <2>1. CASE SetVertex(h)
      BY <1>1, <1>2, <2>1, Located DEF SetVertex, At
    <2>2. CASE DropVertex(h)
      BY <1>1, <1>2, <2>2, Located DEF DropVertex, At
    <2>3. CASE VertexStart(h)
      <3>1. \/ \E d : frame' = [frame EXCEPT ![h].pc = "await", ![h].then = d]
            \/ frame' = [frame EXCEPT ![h].pc = "setVertex"]
        BY <2>3 DEF VertexStart, Request, Local, Next_
      <3>2. frame'[h].pc # "reply"
        BY <1>1, <1>2, <3>1 DEF Frame
      <3> QED
        BY <2>3, <3>2 DEF VertexStart, graph
    <2>4. CASE ListOut(h)
      <3> DEFINE T == {l \in Link : l.from = h[2] /\ body[l] # None}
      <3>1. frame' = [frame EXCEPT ![h].pc = "deleteOut", ![h].todo = T]
        BY <2>4 DEF ListOut
      <3> HIDE DEF T
      <3>2. frame'[h].pc # "reply"
        BY <1>1, <1>2, <3>1 DEF Frame
      <3> QED
        BY <2>4, <3>2 DEF ListOut, graph
    <2>5. CASE ListIn(h)
      <3> DEFINE T == {l \in inLink : l.to = h[2]}
      <3>1. frame' = [frame EXCEPT ![h].pc = "deleteIn", ![h].todo = T]
        BY <2>5 DEF ListIn
      <3> HIDE DEF T
      <3>2. frame'[h].pc # "reply"
        BY <1>1, <1>2, <3>1 DEF Frame
      <3> QED
        BY <2>5, <3>2 DEF ListIn, graph
    <2>6. CASE RequestDelete(h)
      <3>1. PICK j : frame' = [frame EXCEPT ![h].pc = "await", ![h].then = frame[h].pc,
                                            ![h].todo = @ \ {j}]
        BY <2>6 DEF RequestDelete
      <3>2. frame'[h].pc # "reply"
        BY <1>1, <1>2, <3>1 DEF Frame
      <3> QED
        BY <2>6, <3>2 DEF RequestDelete, graph
    <2>7. CASE DropGen(h)
      <3>1. frame' = [frame EXCEPT ![h].pc = "dropVertex"]
        BY <2>7 DEF DropGen, Local, Next_
      <3>2. frame'[h].pc # "reply"
        BY <1>1, <1>2, <3>1 DEF Frame
      <3> QED
        BY <2>7, <3>2 DEF DropGen
    <2> QED
      BY <2>1, <2>2, <2>3, <2>4, <2>5, <2>6, <2>7 DEF VertexStep
  <1>5. VertexIsSet(h)'
    BY <1>4 DEF VertexIsSet
  <1>6. ASSUME NEW x \in Handler, x # h
        PROVE  VertexIsSet(x)'
    <2> SUFFICES ASSUME frame'[x] # None, frame'[x].pc = "reply", x[1] \in VertexFunction
                 PROVE  /\ x[1] \in {"vertexCreate", "vertexUpdate"} => x[2] \in vertex'
                        /\ x[1] = "vertexDelete" => x[2] \notin vertex'
      BY DEF VertexIsSet, VertexFunction
    <2>1. frame'[x] = frame[x]
      BY <1>2, <1>6
    <2>2. x[2] # h[2]
      BY <1>1, <1>2, <1>3, <1>6, <2>1, OneAtVertex
    <2> QED
      BY <1>4, <2>1, <2>2 DEF Effects, VertexIsSet
  <1> QED
    BY <1>5, <1>6


\* What a vertex that is deleted has listed of its in links stays so while its
\* handler stays where it is, and nobody makes a link of it.
LEMMA InLinksStay ==
    ASSUME NEW x \in Handler, frame'[x] = None \/ /\ frame[x] # None
                                                  /\ Stage(frame'[x]) = Stage(frame[x])
                                                  /\ frame'[x].todo = frame[x].todo,
           InLinksGo(x),
           x[1] = "vertexDelete" /\ frame[x] # None =>
              /\ \A l \in Link : x[2] \in {l.from, l.to} /\ body'[l] # None => body[l] # None
              /\ \A g \in Handler : \A m \in Held(g) : m.caller = x =>
                    m \in Held(g)' \/ (m.link \in Link => body'[m.link] = None)
    PROVE  InLinksGo(x)'
  <1> SUFFICES ASSUME frame'[x] # None, x[1] = "vertexDelete" PROVE InLinksGo(x)'
    BY DEF InLinksGo
  <1>1. /\ frame[x] # None
        /\ \A l \in Link : x[2] \in {l.from, l.to} /\ body'[l] # None => body[l] # None
        /\ \A g \in Handler : \A m \in Held(g) : m.caller = x =>
              m \in Held(g)' \/ (m.link \in Link => body'[m.link] = None)
        /\ Stage(frame'[x]) = Stage(frame[x]) /\ frame'[x].todo = frame[x].todo
    OBVIOUS
  <1>2. ASSUME Stage(frame'[x]) = "deleteIn", NEW l \in Link, l.to = x[2], body'[l] # None
        PROVE  \/ l \in frame'[x].todo
               \/ \E g \in Handler : \E m \in Held(g)' : m.caller = x /\ m.link = l
    <2>1. \/ l \in frame[x].todo
          \/ \E g \in Handler : \E m \in Held(g) : m.caller = x /\ m.link = l
      BY <1>1, <1>2 DEF InLinksGo
    <2>2. CASE l \in frame[x].todo
      BY <1>1, <2>2
    <2>3. ASSUME NEW g \in Handler, NEW m \in Held(g), m.caller = x, m.link = l
          PROVE  m \in Held(g)'
      BY <1>1, <1>2, <2>3
    <2> QED
      BY <2>1, <2>2, <2>3
  <1>3. ASSUME Stage(frame'[x]) \in {"dropVertex", "reply"}, NEW l \in Link, x[2] \in {l.from, l.to}
        PROVE  body'[l] = None
    BY <1>1, <1>3 DEF InLinksGo
  <1> QED
    BY <1>2, <1>3 DEF InLinksGo

\* Messages stay while a handler executes.
LEMMA ExecuteHeld ==
    ASSUME IInv, NEW h \in Handler, LinkStep(h) \/ VertexStep(h)
    PROVE  \A x \in Handler : \A m \in Held(x) : m \in Held(x)'
  <1>1. TypeOK /\ (Moves(h) \/ SendsWell(h))
    BY ExecuteEffect DEF IInv
  <1>2. CASE Moves(h)
    BY <1>1, <1>2, MovesHeld
  <1>3. CASE SendsWell(h)
    <2>1. PICK g \in Handler, n \in Msg : Sends(h, g, n)
      BY <1>3 DEF SendsWell
    <2>2. /\ Held(g)' = Held(g) \cup {n}
          /\ \A x \in Handler \ {g} : Held(x)' = Held(x)
      BY <1>1, <2>1, SendsHeld
    <2> QED
      BY <2>2
  <1> QED
    BY <1>1, <1>2, <1>3

\* A step on a link makes none of a vertex that is deleted.
LEMMA LinkInLinks ==
    ASSUME Orderly, Effects, NEW h \in Handler, frame[h] # None, LinkStep(h)
    PROVE  \A x \in Handler : InLinksGo(x)'
  <1>1. PICK f, l : f = frame[h] /\ l = f.msg.link
    OBVIOUS
  <1>2. /\ TypeOK /\ WellFormed /\ l \in Link /\ IInv
        /\ \A x \in Handler \ {h} : frame'[x] = frame[x]
        /\ \A j \in Link : j # l => body'[j] = body[j]
    BY <1>1, LinkStepEffect DEF Orderly, IInv
  <1>3. h[1] \in LinkFunction
    <2>1. h[1] \in LinkFunction \cup VertexFunction /\ (h[1] \in VertexFunction => l = None)
      BY <1>1, <1>2, Located
    <2> QED
      BY <1>2, <2>1
  <1>4. \A x \in Handler : \A m \in Held(x) : m \in Held(x)'
    BY <1>2, ExecuteHeld
  <1>5. body'[l] # None => body[l] # None \/ Puts(h)
    <2>1. CASE SetBody(h)
      BY <1>2, <2>1, Located DEF SetBody, At, Naming, Writing
    <2>2. CASE DropBody(h)
      <3>1. body' = [body EXCEPT ![l] = None] /\ body \in [Link -> LinkBody \cup {None}]
        BY <1>1, <1>2, <2>2 DEF DropBody, LinkOf, TypeOK
      <3> QED
        BY <1>2, <3>1
    <2>3. CASE UNCHANGED body
      BY <2>3
    <2> QED
      BY <2>1, <2>2, <2>3
      DEF LinkStep, CreateStart, UpdateStart, ChooseName, ReadGen, WriteGen, SetName,
          SetIndex, SetTags, RequestIn, InLink, DeleteStart, ReadBody,
          DropName, DropIndex, DropTags, graph, links
  <1> TAKE x \in Handler
  <1>6. CASE x = h
    BY <1>3, <1>6 DEF InLinksGo, LinkFunction
  <1>7. CASE x # h
    <2>1. frame'[x] = frame[x] /\ InLinksGo(x)
      BY <1>2, <1>7 DEF Effects
    <2>2. ASSUME x[1] = "vertexDelete", frame[x] # None, NEW j \in Link, x[2] \in {j.from, j.to},
                 body'[j] # None
          PROVE  body[j] # None
      <3>1. CASE j = l
        <4>1. f.msg \in Held(h)
          BY <1>1 DEF Held
        <4>2. Puts(h) => FALSE
          BY <1>1, <1>2, <2>2, <3>1, <4>1, NoNewLinks
        <4> QED
          BY <1>5, <2>2, <3>1, <4>2
      <3>2. CASE j # l
        BY <1>2, <2>2, <3>2
      <3> QED
        BY <3>1, <3>2
    <2> QED
      BY <1>4, <2>1, <2>2, InLinksStay
  <1> QED
    BY <1>6, <1>7

\* What a request for the deletion of a link does.
LEMMA RequestsDelete ==
    ASSUME IInv, NEW h \in Handler, RequestDelete(h)
    PROVE  \E l \in frame[h].todo :
             /\ l \in Link /\ frame[h].pc \in {"deleteOut", "deleteIn"}
             /\ frame'[h] # None /\ frame'[h].pc = "await" /\ frame'[h].then = frame[h].pc
             /\ frame'[h].todo = frame[h].todo \ {l}
             /\ \E g \in Handler : \E n \in Held(g)' : n.caller = h /\ n.link = l
             /\ \A x \in Handler : \A m \in Held(x) : m \in Held(x)'
  <1> DEFINE f == frame[h]
  <1>1. /\ f \in Frame /\ frame \in [Handler -> Frame \cup {None}]
        /\ f.pc \in {"deleteOut", "deleteIn"}
    BY DEF IInv, TypeOK, RequestDelete, At
  <1>2. PICK l \in f.todo :
          /\ queue' = [queue EXCEPT ![<<"linkDelete", l.from, FALSE>>] = Append(@,
               [in |-> FALSE, link |-> l, body |-> None, caller |-> h])]
          /\ frame' = [frame EXCEPT ![h].pc = "await", ![h].then = frame[h].pc,
                                    ![h].todo = @ \ {l}]
    BY DEF RequestDelete
  <1>3. l \in Link
    BY <1>1 DEF Frame
  <1> DEFINE n == [in |-> FALSE, link |-> l, body |-> None, caller |-> h]
             g == <<"linkDelete", l.from, FALSE>>
  <1>4. g \in Handler /\ n \in Msg /\ n.caller = h /\ n.link = l
    BY <1>3 DEF Handler, LinkFunction, Link, Msg
  <1>5. /\ frame'[h] # None /\ frame'[h].pc = "await" /\ frame'[h].then = f.pc
        /\ frame'[h].todo = f.todo \ {l}
    <2> DEFINE e == [f EXCEPT !.pc = "await", !.then = f.pc, !.todo = @ \ {l}]
    <2>1. frame' = [frame EXCEPT ![h] = e]
      BY <1>2
    <2>2. e \in Frame /\ e.pc = "await" /\ e.then = f.pc /\ e.todo = f.todo \ {l}
      BY <1>1 DEF Frame, Location
    <2> HIDE DEF e
    <2>3. frame'[h] = e
      BY <1>1, <2>1
    <2> QED
      BY <2>2, <2>3
  <1>6. n \in Held(g)'
    <2>1. queue \in [Handler -> Seq(Msg)] /\ queue[g] \in Seq(Msg)
      BY <1>4 DEF IInv, TypeOK
    <2>2. queue' = [queue EXCEPT ![g] = Append(@, n)]
      BY <1>2
    <2> HIDE DEF n, g
    <2>3. Elements(Append(queue[g], n)) = Elements(queue[g]) \cup {n}
      BY <1>4, <2>1, AppendElements
    <2>4. queue'[g] = Append(queue[g], n)
      BY <1>4, <2>1, <2>2
    <2> QED
      BY <2>3, <2>4 DEF Held, Elements
  <1>7. \A x \in Handler : \A m \in Held(x) : m \in Held(x)'
    <2>1. VertexStep(h)
      BY DEF VertexStep
    <2> QED
      BY <2>1, ExecuteHeld
  <1> QED
    BY <1>1, <1>3, <1>4, <1>5, <1>6, <1>7

\* The in links that a vertex function lists are all there are, and when they have
\* been deleted the vertex has no link.
LEMMA ListsInLinks ==
    ASSUME Orderly, Known, Keys, NEW h \in Handler, OutLinksGo(h), InLinksGo(h),
           frame[h] # None, VertexStep(h)
    PROVE  InLinksGo(h)'
  <1>1. PICK f : f = frame[h]
    OBVIOUS
  <1>2. /\ f \in Frame /\ frame \in [Handler -> Frame \cup {None}]
        /\ UNCHANGED body /\ IInv /\ TypeOK /\ WellFormed
    BY <1>1, VertexStepEffect DEF Orderly, IInv, TypeOK
  <1>3. CASE VertexStart(h) \/ SetVertex(h)
    <2>1. h[1] # "vertexDelete"
      <3>1. h[1] \in {"vertexCreate", "vertexUpdate"} \/ f.pc = "setVertex"
        BY <1>1, <1>3 DEF VertexStart, SetVertex, At
      <3> QED
        BY <1>1, <1>2, <3>1, Located
    <2> QED
      BY <2>1 DEF InLinksGo
  <1>4. CASE ListOut(h)
    <2> DEFINE T == {l \in Link : l.from = h[2] /\ body[l] # None}
    <2>1. frame' = [frame EXCEPT ![h].pc = "deleteOut", ![h].todo = T]
      BY <1>4 DEF ListOut
    <2> HIDE DEF T
    <2>2. frame'[h].pc = "deleteOut"
      BY <1>1, <1>2, <2>1 DEF Frame
    <2> QED
      BY <2>2 DEF InLinksGo, Stage
  <1>5. CASE ListIn(h)
    <2> DEFINE T == {l \in inLink : l.to = h[2]}
    <2>1. frame' = [frame EXCEPT ![h].pc = "deleteIn", ![h].todo = T] /\ f.pc = "deleteOut"
      BY <1>1, <1>5 DEF ListIn, At
    <2> HIDE DEF T
    <2>2. frame'[h].pc = "deleteIn" /\ frame'[h].todo = T
      BY <1>1, <1>2, <2>1 DEF Frame
    <2>3. h[1] = "vertexDelete"
      BY <1>1, <1>2, <2>1, Located
    <2>4. ASSUME NEW l \in Link, l.to = h[2], body[l] # None
          PROVE  l \in T
      <3>1. l \in CalledLinks
        BY <2>4 DEF Known
      <3>2. \A x \in Handler : \A k \in Held(x) : k.link # l
        BY <1>1, <2>1, <2>3, <2>4, <3>1, TodoIsFree
      <3>3. Whole(l)
        BY <3>2 DEF Keys
      <3> QED
        BY <2>4, <3>3 DEF Whole, T
    <2> QED
      BY <1>2, <2>2, <2>4 DEF InLinksGo, Stage
  <1>6. CASE RequestDelete(h)
    <2>1. PICK l \in f.todo :
             /\ l \in Link /\ f.pc \in {"deleteOut", "deleteIn"}
             /\ frame'[h] # None /\ frame'[h].pc = "await" /\ frame'[h].then = f.pc
             /\ frame'[h].todo = f.todo \ {l}
             /\ \E g \in Handler : \E n \in Held(g)' : n.caller = h /\ n.link = l
             /\ \A x \in Handler : \A m \in Held(x) : m \in Held(x)'
      BY <1>1, <1>2, <1>6, RequestsDelete
    <2>2. Stage(frame'[h]) = f.pc /\ Stage(f) = f.pc
      BY <2>1 DEF Stage
    <2> QED
      BY <1>1, <1>2, <2>1, <2>2 DEF InLinksGo
  <1>7. CASE DropGen(h)
    <2>1. f.pc = "deleteIn" /\ f.todo = {} /\ frame' = [frame EXCEPT ![h].pc = "dropVertex"]
      BY <1>1, <1>7 DEF DropGen, At, Local, Next_
    <2>2. frame'[h].pc = "dropVertex"
      BY <1>1, <1>2, <2>1 DEF Frame
    <2>3. \A x \in Handler : \A m \in Held(x) : m.caller # h
      BY <1>1, <1>2, <2>1, OnlyWaitersAsk DEF IInv
    <2>4. h[1] = "vertexDelete"
      BY <1>1, <1>2, <2>1, Located
    <2>5. /\ \A l \in Link : l.to = h[2] => body[l] = None
          /\ \A l \in Link : l.from = h[2] => body[l] = None
      BY <1>1, <2>1, <2>3, <2>4 DEF InLinksGo, OutLinksGo, Stage
    <2> QED
      BY <1>2, <2>2, <2>5 DEF InLinksGo, Stage
  <1>8. CASE DropVertex(h)
    <2>1. f.pc = "dropVertex" /\ frame' = [frame EXCEPT ![h].pc = "reply"]
      BY <1>1, <1>8 DEF DropVertex, At, Local, Next_
    <2>2. frame'[h].pc = "reply"
      BY <1>1, <1>2, <2>1 DEF Frame
    <2>3. h[1] = "vertexDelete"
      BY <1>1, <1>2, <2>1, Located
    <2> QED
      BY <1>1, <1>2, <2>1, <2>2, <2>3 DEF InLinksGo, Stage
  <1> QED
    BY <1>3, <1>4, <1>5, <1>6, <1>7, <1>8 DEF VertexStep

\* A step of a handler keeps the fourth invariant.
LEMMA ExecuteEffects ==
    ASSUME VerticesAreApart, NInv, Orderly, Effects, NEW h \in Handler, frame[h] # None,
           LinkStep(h) \/ VertexStep(h)
    PROVE  Effects'
  <1>1. TypeOK /\ WellFormed /\ IInv /\ Known /\ Keys /\ \A x \in Handler : OutLinksGo(x)
    BY DEF NInv, KInv, Names, IInv
  <1>2. CASE LinkStep(h)
    <2>1. ASSUME NEW x \in Handler
          PROVE  VertexIsSet(x)'
      <3>1. /\ UNCHANGED vertex /\ \A y \in Handler \ {h} : frame'[y] = frame[y]
            /\ frame[h].msg.link \in Link
        BY <1>1, <1>2, LinkStepEffect
      <3>2. h[1] \notin VertexFunction
        BY <1>1, <3>1, Located
      <3>3. CASE x = h
        BY <3>2, <3>3 DEF VertexIsSet, VertexFunction
      <3>4. CASE x # h
        BY <3>1, <3>4 DEF VertexIsSet, Effects
      <3> QED
        BY <3>3, <3>4
    <2> QED
      BY <1>2, <2>1, LinkTags, LinkInLinks DEF Effects
  <1>3. CASE VertexStep(h)
    <2>1. /\ UNCHANGED body /\ \A x \in Handler \ {h} : frame'[x] = frame[x]
          /\ h[1] \in VertexFunction
      BY <1>1, <1>3, VertexStepEffect
    <2>2. ASSUME NEW x \in Handler
          PROVE  TagsAreTaken(x)' /\ InLinksGo(x)'
      <3>1. CASE x = h
        <4>1. TagsAreTaken(x)'
          BY <2>1, <3>1 DEF TagsAreTaken, Puts, VertexFunction
        <4>2. InLinksGo(h)'
          BY <1>1, <1>3, ListsInLinks DEF Effects
        <4> QED
          BY <3>1, <4>1, <4>2
      <3>2. CASE x # h
        <4>1. frame'[x] = frame[x] /\ TagsAreTaken(x) /\ InLinksGo(x)
          BY <2>1, <3>2 DEF Effects
        <4>2. TagsAreTaken(x)'
          BY <2>1, <4>1, TagsStay
        <4>3. \A y \in Handler : \A m \in Held(y) : m \in Held(y)'
          BY <1>1, <1>3, ExecuteHeld
        <4>4. InLinksGo(x)'
          BY <2>1, <4>1, <4>3, InLinksStay
        <4> QED
          BY <4>2, <4>4
      <3> QED
        BY <3>1, <3>2
    <2> QED
      BY <1>3, <2>2, VertexSets DEF Effects
  <1> QED
    BY <1>2, <1>3

\* A step that leaves the graph alone, and the messages of those that have been asked.
LEMMA QuietEffects ==
    ASSUME Effects, UNCHANGED graph, NEW x \in Handler, frame'[x] = frame[x],
           \A g \in Handler : \A m \in Held(g) : m.caller = x => m \in Held(g)'
    PROVE  TagsAreTaken(x)' /\ VertexIsSet(x)' /\ InLinksGo(x)'
  <1>1. UNCHANGED <<body, vertex>> /\ TagsAreTaken(x) /\ VertexIsSet(x) /\ InLinksGo(x)
    BY DEF graph, links, Effects
  <1> QED
    BY <1>1, TagsStay, InLinksStay DEF VertexIsSet

\* A message begins with the tags that it gives, and nothing done.
LEMMA BeginEffects ==
    ASSUME IInv, Effects, NEW h \in Handler, HandleBegin(h)
    PROVE  Effects'
  <1>1. /\ frame[h] = None /\ UNCHANGED graph
        /\ \A x \in Handler : Held(x)' = Held(x)
        /\ \A x \in Handler \ {h} : frame'[x] = frame[x]
        /\ frame'[h] # None /\ frame'[h].new = frame'[h].msg.body
        /\ frame'[h].pc = IF frame'[h].msg.in THEN "inLink" ELSE "start"
    BY BeginEffect DEF IInv
  <1>2. TagsAreTaken(h)' /\ VertexIsSet(h)' /\ InLinksGo(h)'
    BY <1>1 DEF TagsAreTaken, Written, VertexIsSet, InLinksGo, Stage
  <1>3. ASSUME NEW x \in Handler, x # h
        PROVE  TagsAreTaken(x)' /\ VertexIsSet(x)' /\ InLinksGo(x)'
    BY <1>1, <1>3, QuietEffects
  <1> QED
    BY <1>2, <1>3 DEF Effects

\* An update goes on with what the create that it requested has written.
LEMMA ReplyEffects ==
    ASSUME Orderly, Keys, Effects, NEW h \in Handler, Reply(h)
    PROVE  Effects'
  <1>1. PICK m, to : m = frame[h].msg /\ to = m.caller
    OBVIOUS
  <1>2. /\ frame[h] # None /\ frame[h].pc = "reply" /\ frame'[h] = None
        /\ UNCHANGED graph /\ m \in Held(h)
        /\ Held(h)' = Held(h) \ {m}
        /\ \A x \in Handler \ {h} : Held(x)' = Held(x)
        /\ AnswersHandler(h, to) \/ AnswersClient(h, to)
    BY <1>1, ReplyEffect DEF Orderly
  <1>3. UNCHANGED <<body, vertex>>
    BY <1>2 DEF graph, links
  <1>4. TagsAreTaken(h)' /\ VertexIsSet(h)' /\ InLinksGo(h)'
    BY <1>2 DEF TagsAreTaken, VertexIsSet, InLinksGo
  <1>5. ASSUME NEW x \in Handler, x # h, x # to
        PROVE  TagsAreTaken(x)' /\ VertexIsSet(x)' /\ InLinksGo(x)'
    <2>1. frame'[x] = frame[x]
      BY <1>2, <1>5 DEF AnswersHandler, AnswersClient
    <2>2. \A g \in Handler : \A k \in Held(g) : k.caller = x => k \in Held(g)'
      BY <1>1, <1>2, <1>5
    <2> QED
      BY <1>2, <2>1, <2>2, QuietEffects
  <1>6. CASE AnswersClient(h, to)
    <2>1. to \notin Handler
      BY <1>6 DEF AnswersClient
    <2> QED
      BY <1>4, <1>5, <2>1 DEF Effects
  <1>7. CASE AnswersHandler(h, to)
    <2>1. /\ to \in Handler /\ to # h /\ frame[to] # None /\ AsksAs(frame[to], to, h, m)
          /\ frame'[to] # None /\ frame'[to].msg = frame[to].msg
          /\ frame'[to].pc = frame[to].then
          /\ frame'[to].new = frame[to].new /\ frame'[to].todo = frame[to].todo
      BY <1>1, <1>7 DEF AnswersHandler, Asks
    <2>2. frame[to].pc = "await"
      BY <2>1, Zenon DEF AsksAs
    <2>3. \/ to[1] = "linkCreate" /\ frame[to].then = "name"
          \/ to[1] \in {"linkCreate", "linkDelete"} /\ frame[to].then = "reply"
          \/ /\ to[1] = "linkUpdate" /\ frame[to].then = "reply"
             /\ h = <<"linkCreate", to[2], FALSE>> /\ m.link = frame[to].msg.link
             /\ m.body = frame[to].msg.body /\ ~m.in
          \/ to[1] = "vertexCreate" /\ frame[to].then = "setVertex"
          \/ /\ to[1] = "vertexDelete" /\ frame[to].then \in {"deleteOut", "deleteIn"}
             /\ h = <<"linkDelete", m.link.from, FALSE>> /\ m.link \in Link
      BY <2>1, Zenon DEF AsksAs
    <2>4. TagsAreTaken(h) /\ TagsAreTaken(to) /\ InLinksGo(to)
      BY <2>1 DEF Effects
    <2>5. TagsAreTaken(to)'
      <3> SUFFICES ASSUME ~frame[to].msg.in, Puts(to)
                   PROVE  /\ frame[to].msg.body.tags \subseteq frame[to].new.tags
                          /\ Written(to)' =>
                                frame[to].msg.body.tags \subseteq body[frame[to].msg.link].tags
        BY <1>3, <2>1 DEF TagsAreTaken, Puts
      <3>1. frame[to].msg.body.tags \subseteq frame[to].new.tags
        BY <2>1, <2>4 DEF TagsAreTaken
      <3>2. CASE to[1] = "linkCreate"
        <4>1. Written(to)' => frame[to].then = "reply"
          BY <2>1, <2>3, <3>2 DEF Written
        <4> QED
          BY <2>1, <2>2, <2>4, <3>1, <3>2, <4>1 DEF TagsAreTaken, Written
      <3>3. CASE to[1] = "linkUpdate"
        <4>1. /\ h[1] = "linkCreate" /\ m.link = frame[to].msg.link
              /\ m.body = frame[to].msg.body /\ ~m.in
          BY <2>3, <3>3
        <4>2. m.body.tags \subseteq body[m.link].tags
          BY <1>1, <1>2, <2>4, <4>1 DEF TagsAreTaken, Written, Puts
        <4> QED
          BY <3>1, <4>1, <4>2
      <3> QED
        BY <3>2, <3>3 DEF Puts
    <2>6. VertexIsSet(to)'
      BY <2>1, <2>3 DEF VertexIsSet
    <2>7. InLinksGo(to)'
      <3>1. CASE to[1] = "vertexDelete"
        <4>1. frame[to].then \in {"deleteOut", "deleteIn"} /\ h[1] = "linkDelete" /\ m.link \in Link
          BY <2>3, <3>1
        <4>2. Stage(frame'[to]) = Stage(frame[to])
          BY <2>1, <2>2, <4>1 DEF Stage
        <4>3. body[m.link] = None
          BY <1>1, <1>2, <4>1 DEF Keys, Doing
        <4>4. \A g \in Handler : \A k \in Held(g) : k \in Held(g)' \/ k = m
          BY <1>2
        <4> QED
          BY <1>3, <2>1, <2>4, <4>2, <4>3, <4>4, InLinksStay
      <3>2. CASE to[1] # "vertexDelete"
        BY <3>2 DEF InLinksGo
      <3> QED
        BY <3>1, <3>2
    <2> QED
      BY <1>4, <1>5, <2>5, <2>6, <2>7 DEF Effects
  <1> QED
    BY <1>2, <1>6, <1>7

\* The invariant.
DInv == NInv /\ Effects

\* It holds at first.
LEMMA InitDInv == Init => DInv
  <1> SUFFICES ASSUME Init PROVE DInv
    OBVIOUS
  <1>1. \A h \in Handler : frame[h] = None
    BY DEF Init
  <1>2. Effects
    BY <1>1 DEF Effects, TagsAreTaken, VertexIsSet, InLinksGo
  <1> QED
    BY <1>2, InitNInv DEF DInv

\* Every step keeps it.
LEMMA NextDInv ==
    ASSUME CallersAreApart, VerticesAreApart, NamesAreChosen, DInv, [Next]_vars
    PROVE  DInv'
  <1>1. Orderly /\ IInv /\ Keys /\ NInv /\ Effects /\ NInv'
    BY NextNInv DEF DInv, NInv, KInv, Orderly
  <1>2. ASSUME NEW c \in Client, NEW call \in Calls[c], ClientCall(c, call) PROVE Effects'
    <2>1. PICK g \in Handler, n \in Msg :
             /\ Held(g)' = Held(g) \cup {n}
             /\ \A x \in Handler \ {g} : Held(x)' = Held(x)
             /\ UNCHANGED <<graph, frame>>
      BY <1>1, <1>2, CallEffect
    <2>2. \A x \in Handler : \A m \in Held(x) : m \in Held(x)'
      BY <2>1
    <2> QED
      BY <1>1, <2>1, <2>2, QuietEffects DEF Effects
  <1>3. ASSUME NEW h \in Handler, HandleBegin(h) PROVE Effects'
    BY <1>1, <1>3, BeginEffects
  <1>4. ASSUME NEW h \in Handler, Reply(h) PROVE Effects'
    BY <1>1, <1>4, ReplyEffects
  <1>5. ASSUME NEW h \in Handler, frame[h] # None, LinkStep(h) \/ VertexStep(h) PROVE Effects'
    BY <1>1, <1>5, ExecuteEffects
  <1>6. ASSUME UNCHANGED vars PROVE Effects'
    <2>1. UNCHANGED graph /\ UNCHANGED <<queue, frame>>
      BY <1>6 DEF vars
    <2>2. \A x \in Handler : Held(x)' = Held(x)
      BY <2>1 DEF Held, Elements
    <2> QED
      BY <1>1, <2>1, <2>2, QuietEffects DEF Effects
  <1> QED
    BY <1>1, <1>2, <1>3, <1>4, <1>5, <1>6 DEF DInv, Next, HandlerStep, Execute

\* An answer to a client tells it what has been done.
LEMMA AnswerIsDone ==
    ASSUME DInv, [Next]_vars, NEW c \in Client, client[c] # None, client'[c] = None
    PROVE  Done(client[c])
  <1>1. IInv /\ Keys /\ Effects /\ TypeOK /\ WellFormed
    BY DEF DInv, NInv, KInv, IInv
  <1>2. ASSUME NEW d \in Client, NEW call \in Calls[d], ClientCall(d, call) PROVE FALSE
    <2>1. /\ client[d] = None /\ client' = [client EXCEPT ![d] = call]
          /\ client \in [Client -> Call \cup {None}]
      BY <1>1, <1>2 DEF ClientCall, TypeOK
    <2> QED
      BY <2>1
  <1>3. ASSUME NEW h \in Handler, frame[h] # None, LinkStep(h) \/ VertexStep(h) PROVE FALSE
    BY <1>1, <1>3, LinkStepEffect, VertexStepEffect
  <1>4. ASSUME NEW h \in Handler, Reply(h)
        PROVE  Done(client[c])
    <2>1. PICK m, to : m = frame[h].msg /\ to = m.caller
      OBVIOUS
    <2>2. /\ frame[h] # None /\ frame[h].pc = "reply"
          /\ AnswersHandler(h, to) \/ AnswersClient(h, to)
      BY <1>1, <1>4, <2>1, ReplyEffect
    <2>3. AnswersClient(h, to)
      BY <2>2 DEF AnswersHandler
    <2>4. to \in Client /\ Calling(to, h, m) /\ client' = [client EXCEPT ![to] = None]
      BY <2>1, <2>3 DEF AnswersClient
    <2>5. client \in [Client -> Call \cup {None}]
      BY <1>1 DEF TypeOK
    <2>6. c = to
      BY <2>4, <2>5
    <2>7. PICK call : call = client[c]
      OBVIOUS
    <2>8. h = call.handler /\ m.link = call.link /\ m.body = call.body /\ ~m.in
      BY <2>4, <2>6, <2>7 DEF Calling
    <2>9. /\ MsgOK(h, m) /\ h[1] \in LinkFunction \cup VertexFunction
          /\ h[1] \in LinkFunction => m.link \in Link
      BY <1>1, <2>1, <2>2, Located
    <2>10. m.link \in Link => (body[m.link] = None <=> h[1] = "linkDelete")
      BY <1>1, <2>1, <2>2 DEF Keys, Doing
    <2>11. TagsAreTaken(h) /\ VertexIsSet(h) /\ InLinksGo(h)
      BY <1>1 DEF Effects
    <2>12. CASE h[1] \in {"linkCreate", "linkUpdate"}
      <3>1. body[call.link] # None
        BY <2>8, <2>9, <2>10, <2>12 DEF LinkFunction
      <3>2. call.body.tags \subseteq body[call.link].tags
        BY <2>1, <2>2, <2>8, <2>11, <2>12 DEF TagsAreTaken, Written, Puts
      <3> QED
        BY <2>7, <2>8, <2>12, <3>1, <3>2 DEF Done
    <2>13. CASE h[1] = "linkDelete"
      <3>1. body[call.link] = None
        BY <2>8, <2>9, <2>10, <2>13 DEF LinkFunction
      <3> QED
        BY <2>7, <2>8, <2>13, <3>1 DEF Done
    <2>14. CASE h[1] = "vertexDelete"
      <3>1. h[2] \notin vertex
        BY <2>2, <2>11, <2>14 DEF VertexIsSet
      <3>2. \A l \in Link : h[2] \in {l.from, l.to} => body[l] = None
        BY <2>2, <2>11, <2>14 DEF InLinksGo, Stage
      <3> QED
        BY <2>7, <2>8, <2>14, <3>1, <3>2 DEF Done
    <2>15. CASE h[1] \in {"vertexCreate", "vertexUpdate"}
      <3>1. h[2] \in vertex
        BY <2>2, <2>11, <2>15 DEF VertexIsSet
      <3> QED
        BY <2>7, <2>8, <2>15, <3>1 DEF Done
    <2> QED
      BY <2>9, <2>12, <2>13, <2>14, <2>15 DEF LinkFunction, VertexFunction
  <1>5. ASSUME NEW h \in Handler, HandleBegin(h) PROVE FALSE
    BY <1>5 DEF HandleBegin
  <1>6. ASSUME UNCHANGED vars PROVE FALSE
    BY <1>6 DEF vars
  <1> QED
    BY <1>2, <1>3, <1>4, <1>5, <1>6 DEF Next, HandlerStep, Execute

\* A call that is answered has done what it was called for: its link has the
\* tags it gave, or is gone, and a vertex is gone with the links on both sides;
\* for any callers that are apart on links and vertices.
THEOREM AnswersAreTrue ==
    ASSUME CallersAreApart, VerticesAreApart, NamesAreChosen
    PROVE  Spec => AnswerMeansDone
  <1>1. DInv /\ [Next]_vars => DInv'
    BY NextDInv
  <1>2. DInv /\ [Next]_vars
        => [\A c \in Client : client[c] # None /\ client'[c] = None => Done(client[c])]_vars
    BY AnswerIsDone
  <1> QED
    BY <1>1, <1>2, InitDInv, PTL DEF Spec, AnswerMeansDone
=============================================================================
