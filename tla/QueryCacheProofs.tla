-------------------------- MODULE QueryCacheProofs --------------------------
(***************************************************************************)
(* The one answer of a query with direct cache result aggregation is its   *)
(* exact result, or a failure: for all graphs and queries, whatever order  *)
(* the processes run and report in, whatever signals are lost or repeated. *)
(*                                                                         *)
(* The goroutine that aggregates only knows the processes it has heard of. *)
(* Nobody reports that he is done before everybody he asks has been        *)
(* announced (ChildrenAnnounced), because the announcement of a new key is *)
(* sent while the parent of the keys is locked.  So when all it knows are  *)
(* done, what it knows is closed under asking, and is all that is reached. *)
(***************************************************************************)
EXTENDS QueryCache, SequenceTheorems, TLAPS

-----------------------------------------------------------------------------
(* Processes that ask each other *)

\* Whom a process asks, and what it finds.
LEMMA AskedIsPart ==
    ASSUME NEW g \in SUBSET Link, NEW q \in Process, NEW p \in Parts(q)
    PROVE  /\ Asked(g, p) \subseteq Parts(q)
           /\ Found(g, p) \subseteq Vertex
  <1> DEFINE s == q[2]
             n == Len(s)
  <1>1. q \in Vertex \X (Seq(Step) \ {<<>>}) /\ g \subseteq Link
    BY DEF Process
  <1>2. s \in Seq(Step) /\ s # <<>> /\ n \in Nat
    BY <1>1
  <1>3. PICK i \in 1 .. n : p[2] = SubSeq(s, i, n)
    BY DEF Parts
  <1>4. p[1] \in Vertex
    BY DEF Parts
  <1>5. ASSUME NEW type, NEW filter PROVE Objects(g, p[1], type, filter) \subseteq Vertex
    BY <1>1, <1>4 DEF Objects, Link
  <1>6. Stops(g, p) \subseteq Vertex /\ Passed(g, p) \subseteq Vertex
    BY <1>5 DEF Stops, Passed
  <1>7. Len(p[2]) = n - i + 1
    BY <1>2, <1>3, SubSeqProperties, ElementOfSeq
  <1>8. ASSUME Len(p[2]) # 1 PROVE i + 1 \in 1 .. n /\ Tail(p[2]) = SubSeq(s, i + 1, n)
    <2>1. n \in i .. n /\ i + 1 \in 1 .. n
      BY <1>2, <1>7, <1>8
    <2>2. Tail(SubSeq(s, i, n)) = SubSeq(s, i + 1, n)
      BY <1>2, <2>1, HeadTailOfSubSeq
    <2> QED
      BY <1>3, <2>1, <2>2
  <1>9. \A v \in Passed(g, p) : <<v, p[2]>> \in Parts(q)
    BY <1>3, <1>6 DEF Parts
  <1>10. Len(p[2]) # 1 => \A v \in Stops(g, p) : <<v, Tail(p[2])>> \in Parts(q)
    BY <1>6, <1>8 DEF Parts
  <1>11. Asked(g, p) \subseteq Parts(q)
    BY <1>9, <1>10 DEF Asked
  <1>12. Found(g, p) \subseteq Vertex
    BY <1>6 DEF Found
  <1> QED
    BY <1>11, <1>12

\* Reached is the least set that has the query and is closed under asking.
LEMMA ReachedIsLeast ==
    ASSUME NEW g \in SUBSET Link, NEW q \in Process
    PROVE  /\ q \in Parts(q) /\ q \in Reached(g, q) /\ Parts(q) \subseteq Process
           /\ Reached(g, q) \subseteq Parts(q)
           /\ \A p \in Reached(g, q) : Asked(g, p) \subseteq Reached(g, q)
           /\ \A S \in SUBSET Parts(q) : q \in S /\ Closed(g, S) => Reached(g, q) \subseteq S
  <1>1. q \in Parts(q)
    <2>1. q \in Vertex \X (Seq(Step) \ {<<>>})
      BY DEF Process
    <2>2. q[2] = SubSeq(q[2], 1, Len(q[2]))
      BY <2>1, SubSeqFull
    <2>3. 1 \in 1 .. Len(q[2])
      BY <2>1, EmptySeq
    <2> QED
      BY <2>1, <2>2, <2>3 DEF Parts
  <1>2. ASSUME NEW p \in Reached(g, q) PROVE Asked(g, p) \subseteq Reached(g, q)
    <2>1. p \in Parts(q) /\ Asked(g, p) \subseteq Parts(q)
      BY AskedIsPart DEF Reached
    <2>2. ASSUME NEW S \in SUBSET Parts(q), q \in S, Closed(g, S) PROVE Asked(g, p) \subseteq S
      BY <2>2 DEF Reached, Closed
    <2> QED
      BY <2>1, <2>2 DEF Reached
  <1>3. Parts(q) \subseteq Process
    <2>1. q[2] \in Seq(Step)
      BY DEF Process
    <2>2. ASSUME NEW i \in 1 .. Len(q[2])
          PROVE  SubSeq(q[2], i, Len(q[2])) \in Seq(Step) \ {<<>>}
      <3>1. Len(q[2]) \in Nat /\ \A j \in i .. Len(q[2]) : q[2][j] \in Step
        BY <2>1, ElementOfSeq
      <3>2. SubSeq(q[2], i, Len(q[2])) \in Seq(Step) /\ Len(SubSeq(q[2], i, Len(q[2]))) > 0
        BY <3>1, SubSeqProperties
      <3>3. SubSeq(q[2], i, Len(q[2])) # <<>>
        <4>1. Len(<<>>) = 0
          BY EmptySeq
        <4> QED
          BY <3>2, <4>1
      <3> QED
        BY <3>2, <3>3
    <2> QED
      BY <2>2 DEF Parts, Process
  <1> QED
    BY <1>1, <1>2, <1>3 DEF Reached

-----------------------------------------------------------------------------
(* The invariant *)

\* Where the aggregating goroutine is says what it has decided, and whether
\* it is subscribed.  Before that there is no key.
Phases ==
    /\ aggregator = "none" =>
         /\ verdict = None /\ channel = <<>>
         /\ \A p \in Universe : value[p] = None /\ pendingMap[p] = None
    /\ aggregator \in {"close", "remove", "end"} => verdict \in {Result(graph, query), Failed}
    /\ answer = IF aggregator = "end" THEN verdict ELSE None
    /\ aggregator \in {"wait", "close"} <=> subscription = "open"

\* A process is started after its key has been made, by one delivery at a time.
StartedInOrder ==
    \A p \in Universe :
        /\ value[p] = None => delivered[p] = 0
        /\ delivered[p] = 0 => waiting[p] = 0 /\ exec[p] = None
        /\ waiting[p] = 0 \/ exec[p] = None

\* An execution has made the key of its child, which nobody else starts.
ChildrenAreOwn ==
    \A p \in Universe : exec[p] # None =>
        /\ exec[p].at \in {"sendPending", "signal"} <=> exec[p].child # None
        /\ exec[p].child # None =>
             /\ value[exec[p].child] # None /\ delivered[exec[p].child] = 0
             /\ \A x \in Universe \ {p} : exec[x] # None => exec[x].child # exec[p].child

\* An execution has made, or found, the keys of those it does not have to
\* look at any more.
AskedHaveKeys ==
    \A p \in Universe : exec[p] # None =>
        /\ exec[p].todo \subseteq Asked(graph, p)
        /\ \A c \in Asked(graph, p) \ exec[p].todo : value[c] # None
        /\ exec[p].child # None => exec[p].child \in Asked(graph, p)

\* The aggregating goroutine hears of c before message i.
Told(c, i) == pendingMap[c] # None \/ \E j \in 1 .. i - 1 : channel[j][1] = c
Announced(c) == Told(c, Len(channel) + 1)

\* What has a key is announced, or is going to be by who made the key.
KeysAnnounced ==
    aggregator = "wait" =>
        \A c \in Universe : value[c] # None =>
            Announced(c) \/ \E p \in Universe : At(p, "sendPending") /\ exec[p].child = c

\* Who is done comes after those it asks.
ChildrenAnnounced ==
    aggregator = "wait" =>
        /\ \A p \in Universe : At(p, "sendDone") => \A c \in Asked(graph, p) : Announced(c)
        /\ \A i \in 1 .. Len(channel) : channel[i][2] = "done" =>
             \A c \in Asked(graph, channel[i][1]) : Told(c, i)
        /\ \A p \in Universe : pendingMap[p] = FALSE =>
             \A c \in Asked(graph, p) : pendingMap[c] # None

\* Only what the query comes to gets a key or is heard of, the query first.
OnlyReached ==
    /\ \A p \in Universe : value[p] # None \/ pendingMap[p] # None => p \in Reached(graph, query)
    /\ \A i \in 1 .. Len(channel) : channel[i][1] \in Reached(graph, query)
    /\ aggregator = "wait" =>
         pendingMap[query] # None \/ (channel # <<>> /\ channel[1][1] = query)

ResultsOfDone ==
    resultObjects = UNION {Found(graph, p) : p \in {x \in Universe : pendingMap[x] = FALSE}}

Redelivered == \E p \in Universe : delivered[p] > 1

\* Unless a signal was delivered twice, who has something to do has not
\* reported that it is done, and nobody has anything to do in the end.
Reported(p) ==
    pendingMap[p] = FALSE \/ \E i \in 1 .. Len(channel) : channel[i][1] = p /\ channel[i][2] = "done"
NotDoneYet ==
    ~Redelivered /\ aggregator = "wait" =>
        \A p \in Universe : delivered[p] = 0 \/ waiting[p] # 0 \/ exec[p] # None => ~Reported(p)
QuietAfterwards ==
    ~Redelivered /\ aggregator \in {"close", "remove", "end"} /\ verdict # Failed =>
        \A p \in Universe : waiting[p] = 0 /\ exec[p] = None

IInv ==
    /\ TypeOK /\ Phases
    /\ StartedInOrder /\ ChildrenAreOwn /\ AskedHaveKeys
    /\ KeysAnnounced /\ ChildrenAnnounced /\ OnlyReached /\ ResultsOfDone
    /\ NotDoneYet /\ QuietAfterwards /\ NoPanic

-----------------------------------------------------------------------------
(* What the actions have in common *)

LEMMA Processes ==
    ASSUME TypeOK
    PROVE  /\ query \in Universe /\ query \in Reached(graph, query)
           /\ Reached(graph, query) \subseteq Universe
           /\ \A p \in Universe : Asked(graph, p) \subseteq Universe /\ Found(graph, p) \subseteq Vertex
           /\ \A p \in Reached(graph, query) : Asked(graph, p) \subseteq Reached(graph, query)
           /\ None \notin Universe /\ None \notin Execution
           /\ None \notin {"pending", "done"} /\ None \notin BOOLEAN
  <1>1. graph \in SUBSET Link /\ query \in Process
    BY GraphsAreGraphs, QueriesAreProcesses DEF TypeOK
  <1>2. Universe \subseteq Process
    BY <1>1, ReachedIsLeast DEF Universe
  <1>3. Execution \subseteq [at : {"next", "sendPending", "signal", "sendDone"},
                             todo : SUBSET Process, child : Process \cup {None}]
    BY <1>2 DEF Execution
  <1>4. None \notin Universe /\ None \notin Execution
    BY <1>2, <1>3, NoneIsNothingElse
  <1>5. query \in Universe /\ Reached(graph, query) \subseteq Universe
    BY <1>1, ReachedIsLeast DEF Universe
  <1>6. \A p \in Universe : Asked(graph, p) \subseteq Universe /\ Found(graph, p) \subseteq Vertex
    BY <1>1, AskedIsPart DEF Universe
  <1> QED
    BY <1>1, <1>4, <1>5, <1>6, ReachedIsLeast, NoneIsNothingElse

\* No process runs before the key of the query is made.
LEMMA StartedLater ==
    ASSUME IInv, NEW p \in Universe, delivered[p] # 0 \/ waiting[p] # 0 \/ exec[p] # None
    PROVE  aggregator # "none" /\ value[p] # None /\ delivered[p] # 0 /\ p \in Reached(graph, query)
  BY DEF IInv, Phases, StartedInOrder, OnlyReached

\* A message at the end of the channel: what was told before stays told.
LEMMA AppendTells ==
    ASSUME TypeOK, NEW m \in Universe \X {"pending", "done"},
           channel' = Append(channel, m), UNCHANGED pendingMap
    PROVE  /\ channel' \in Seq(Universe \X {"pending", "done"})
           /\ Len(channel) \in Nat /\ Len(channel') = Len(channel) + 1
           /\ \A i \in 1 .. Len(channel) : channel'[i] = channel[i]
           /\ channel'[Len(channel')] = m
           /\ \A c : \A i \in 1 .. Len(channel) + 1 : Told(c, i) => Told(c, i)'
           /\ \A c : Announced(c) => Announced(c)'
           /\ Announced(m[1])'
  <1>1. channel \in Seq(Universe \X {"pending", "done"}) /\ Len(channel) \in Nat
    BY DEF TypeOK
  <1>2. /\ channel' \in Seq(Universe \X {"pending", "done"})
        /\ Len(channel') = Len(channel) + 1
        /\ \A i \in 1 .. Len(channel) : channel'[i] = channel[i]
        /\ channel'[Len(channel) + 1] = m
    BY <1>1, AppendProperties
  <1>3. ASSUME NEW c, NEW i \in 1 .. Len(channel) + 1, Told(c, i) PROVE Told(c, i)'
    BY <1>1, <1>2, <1>3 DEF Told
  <1>4. ASSUME NEW c, Announced(c) PROVE Announced(c)'
    BY <1>1, <1>2, <1>4 DEF Announced, Told
  <1>5. Announced(m[1])'
    BY <1>1, <1>2 DEF Announced, Told
  <1> QED
    BY <1>1, <1>2, <1>3, <1>4, <1>5

\* Whatever happens to processes, without a message.
LEMMA NothingTold ==
    ASSUME UNCHANGED <<channel, pendingMap>>
    PROVE  /\ \A c, i : Told(c, i)' <=> Told(c, i)
           /\ \A c : Announced(c)' <=> Announced(c)
           /\ \A c : Reported(c)' <=> Reported(c)
  BY DEF Told, Announced, Reported

LEMMA ProblemStays ==
    ASSUME UNCHANGED problem
    PROVE  graph' = graph /\ query' = query /\ Universe' = Universe /\ Execution' = Execution
  BY DEF problem, Universe, Execution

\* The signal for a process that has not been started is published, or lost.
LEMMA PublishStep ==
    ASSUME TypeOK, NEW p \in Universe, Publish(p), delivered[p] = 0, waiting[p] = 0
    PROVE  /\ delivered' \in [Universe -> 0 .. 2] /\ waiting' \in [Universe -> 0 .. 1]
           /\ \A x \in Universe \ {p} : delivered'[x] = delivered[x] /\ waiting'[x] = waiting[x]
           /\ delivered'[p] \in 0 .. 1 /\ waiting'[p] \in 0 .. 1
           /\ delivered'[p] = 0 => waiting'[p] = 0
  BY DEF Publish, TypeOK, signals

\* The aggregating goroutine moves on, and no process does.
LEMMA ProcessesStay ==
    ASSUME IInv, UNCHANGED <<problem, value, signals, exec>>
    PROVE  (StartedInOrder /\ ChildrenAreOwn /\ AskedHaveKeys)'
  <1>1. Universe' = Universe /\ graph' = graph
    BY ProblemStays
  <1> QED
    BY <1>1 DEF IInv, StartedInOrder, ChildrenAreOwn, AskedHaveKeys, signals

-----------------------------------------------------------------------------
(* One lemma for each action *)

LEMMA BeginStep ==
    ASSUME IInv, ~panic, NEW p \in Universe, Begin(p) PROVE IInv'
  <1> USE DEF IInv
  <1>1. /\ graph' = graph /\ query' = query /\ Universe' = Universe /\ Execution' = Execution
        /\ UNCHANGED <<value, delivered, subscription, channel, aggregation, panic>>
    BY ProblemStays DEF Begin
  <1>2. /\ exec[p] = None /\ waiting[p] = 1
        /\ waiting' = [waiting EXCEPT ![p] = @ - 1]
        /\ exec' = [exec EXCEPT ![p] = [at |-> "next", todo |-> Asked(graph, p), child |-> None]]
    BY DEF Begin, TypeOK
  <1>3. delivered[p] # 0 /\ value[p] # None /\ aggregator # "none"
    BY <1>2, StartedLater
  <1>4. [at |-> "next", todo |-> Asked(graph, p), child |-> None] \in Execution
    BY Processes DEF Execution
  <1>5. /\ exec'[p] = [at |-> "next", todo |-> Asked(graph, p), child |-> None] /\ exec'[p] # None
        /\ \A x \in Universe \ {p} : exec'[x] = exec[x] /\ waiting'[x] = waiting[x]
        /\ waiting'[p] = 0
    BY <1>2, <1>4, Processes DEF TypeOK
  <1>6. TypeOK'
    BY <1>1, <1>2, <1>4 DEF TypeOK, aggregation
  <1>7. Phases'
    BY <1>1 DEF Phases, aggregation
  <1>8. StartedInOrder'
    BY <1>1, <1>3, <1>5 DEF StartedInOrder
  <1>9. ChildrenAreOwn'
    BY <1>1, <1>2, <1>5 DEF ChildrenAreOwn
  <1>10. AskedHaveKeys'
    BY <1>1, <1>5 DEF AskedHaveKeys
  <1>11. \A c, i : (Told(c, i)' <=> Told(c, i)) /\ (Announced(c)' <=> Announced(c)) /\ (Reported(c)' <=> Reported(c))
    BY <1>1, NothingTold DEF aggregation
  <1>before. \A x \in Universe :
          /\ At(x, "sendPending")' <=> At(x, "sendPending")
          /\ At(x, "sendDone")' <=> At(x, "sendDone")
          /\ At(x, "sendPending") => exec'[x].child = exec[x].child
    BY <1>2, <1>5 DEF At
  <1>12. KeysAnnounced'
    BY <1>1, <1>before, <1>11 DEF KeysAnnounced, aggregation
  <1>13. ChildrenAnnounced'
    BY <1>1, <1>before, <1>11 DEF ChildrenAnnounced, aggregation
  <1>14. OnlyReached'
    BY <1>1 DEF OnlyReached, aggregation
  <1>15. ResultsOfDone'
    BY <1>1 DEF ResultsOfDone, aggregation
  <1>repeated. Redelivered' <=> Redelivered
    BY <1>1 DEF Redelivered
  <1>16. NotDoneYet'
    <2>1. exec[p] = None /\ waiting[p] # 0
      BY <1>2
    <2> QED
      BY <1>1, <1>5, <2>1, <1>repeated, <1>11 DEF NotDoneYet, aggregation
  <1>17. QuietAfterwards'
    BY <1>1, <1>2, <1>5 DEF QuietAfterwards, Redelivered, aggregation
  <1>18. NoPanic'
    BY <1>1 DEF NoPanic
  <1> QED
    BY <1>6, <1>7, <1>8, <1>9, <1>10, <1>12, <1>13, <1>14, <1>15, <1>16, <1>17, <1>18

LEMMA RedeliverStep ==
    ASSUME IInv, ~panic, NEW p \in Universe, Redeliver(p) PROVE IInv'
  <1> USE DEF IInv
  <1>1. /\ graph' = graph /\ query' = query /\ Universe' = Universe /\ Execution' = Execution
        /\ UNCHANGED <<value, exec, subscription, channel, aggregation, panic>>
    BY ProblemStays DEF Redeliver
  <1>2. /\ delivered[p] = 1 /\ waiting[p] = 0 /\ exec[p] = None
        /\ delivered' = [delivered EXCEPT ![p] = 2] /\ waiting' = [waiting EXCEPT ![p] = 1]
    BY DEF Redeliver, TypeOK
  <1>3. delivered'[p] = 2 /\ \A x \in Universe \ {p} : delivered'[x] = delivered[x] /\ waiting'[x] = waiting[x]
    BY <1>2 DEF TypeOK
  <1>4. Redelivered'
    BY <1>1, <1>3 DEF Redelivered
  <1>5. TypeOK'
    BY <1>1, <1>2 DEF TypeOK, aggregation
  <1>6. Phases'
    BY <1>1 DEF Phases, aggregation
  <1>7. StartedInOrder'
    BY <1>1, <1>2, <1>3 DEF StartedInOrder
  <1>8. ChildrenAreOwn'
    BY <1>1, <1>2, <1>3 DEF ChildrenAreOwn
  <1>9. AskedHaveKeys'
    BY <1>1 DEF AskedHaveKeys
  <1>10. \A c, i : (Told(c, i)' <=> Told(c, i)) /\ (Announced(c)' <=> Announced(c))
    BY <1>1, NothingTold DEF aggregation
  <1>11. KeysAnnounced' /\ ChildrenAnnounced'
    BY <1>1, <1>10 DEF KeysAnnounced, ChildrenAnnounced, At, aggregation
  <1>12. OnlyReached' /\ ResultsOfDone'
    BY <1>1 DEF OnlyReached, ResultsOfDone, aggregation
  <1>13. NotDoneYet' /\ QuietAfterwards'
    BY <1>4 DEF NotDoneYet, QuietAfterwards
  <1>14. NoPanic'
    BY <1>1 DEF NoPanic
  <1> QED
    BY <1>5, <1>6, <1>7, <1>8, <1>9, <1>11, <1>12, <1>13, <1>14

\* The key of a process that is asked exists already, or is made.
LEMMA InitPendingStep ==
    ASSUME IInv, ~panic, NEW p \in Universe, InitPending(p) PROVE IInv'
  <1> USE DEF IInv
  <1>1. /\ graph' = graph /\ query' = query /\ Universe' = Universe /\ Execution' = Execution
        /\ UNCHANGED <<delivered, waiting, subscription, channel, aggregation, panic>>
    BY ProblemStays DEF InitPending, signals
  <1>2. /\ exec[p] # None /\ exec[p] \in Execution /\ exec[p].at = "next" /\ exec[p].child = None
        /\ \A x \in Universe : ~At(x, "sendPending")
    BY DEF InitPending, ParentFree, At, TypeOK, ChildrenAreOwn
  <1>3. /\ aggregator # "none" /\ value[p] # None
        /\ delivered[p] # 0 /\ p \in Reached(graph, query)
    BY <1>2, StartedLater
  <1>4. PICK c \in exec[p].todo :
           \/ /\ ~Exists(c)
              /\ value' = [value EXCEPT ![c] = "pending"]
              /\ exec' = [exec EXCEPT ![p] =
                     [at |-> AfterInit, todo |-> exec[p].todo \ {c}, child |-> c]]
           \/ /\ Exists(c)
              /\ exec' = [exec EXCEPT ![p].todo = @ \ {c}]
              /\ UNCHANGED value
    BY DEF InitPending
  <1>5. c \in Asked(graph, p) /\ c \in Universe /\ c \in Reached(graph, query)
    BY <1>2, <1>3, Processes DEF AskedHaveKeys
  <1>6. \A d, i : (Told(d, i)' <=> Told(d, i)) /\ (Announced(d)' <=> Announced(d)) /\ (Reported(d)' <=> Reported(d))
    BY <1>1, NothingTold DEF aggregation
  <1>7. /\ exec'[p] \in Execution /\ exec'[p] # None /\ exec' \in [Universe -> Execution \cup {None}]
        /\ \A x \in Universe \ {p} : exec'[x] = exec[x]
        /\ exec'[p].todo = exec[p].todo \ {c}
        /\ value' \in [Universe -> {None, "pending", "done"}]
        /\ value'[c] # None /\ \A x \in Universe \ {c} : value'[x] = value[x]
        /\ \/ /\ value[c] = None /\ exec'[p].child = c
              /\ exec'[p].at = IF subscription \in {"open", "closed"} THEN "sendPending" ELSE "signal"
           \/ value[c] # None /\ value' = value /\ exec'[p].child = None /\ exec'[p].at = "next"
    <2>1. CASE ~Exists(c)
      <3>1. [at |-> AfterInit, todo |-> exec[p].todo \ {c}, child |-> c] \in Execution
        BY <1>2, <1>5 DEF Execution, AfterInit
      <3>2. exec' = [exec EXCEPT ![p] = [at |-> AfterInit, todo |-> exec[p].todo \ {c}, child |-> c]]
        BY <1>4, <2>1
      <3>3. exec'[p] = [at |-> AfterInit, todo |-> exec[p].todo \ {c}, child |-> c]
        BY <3>2 DEF TypeOK
      <3>4. value[c] = None /\ value' = [value EXCEPT ![c] = "pending"]
        BY <1>4, <2>1 DEF Exists
      <3>5. exec'[p].at = IF subscription \in {"open", "closed"} THEN "sendPending" ELSE "signal"
        BY <3>3 DEF AfterInit, Subscribed
      <3>6. exec'[p].todo = exec[p].todo \ {c} /\ exec'[p].child = c
        BY <3>3
      <3>7. /\ exec' \in [Universe -> Execution \cup {None}]
            /\ \A x \in Universe \ {p} : exec'[x] = exec[x]
            /\ exec'[p] \in Execution /\ exec'[p] # None
        BY <3>1, <3>2, <3>3, Processes DEF TypeOK
      <3>8. /\ value' \in [Universe -> {None, "pending", "done"}]
            /\ value'[c] # None /\ \A x \in Universe \ {c} : value'[x] = value[x]
        BY <1>5, <3>4, Processes DEF TypeOK
      <3> QED
        BY <3>4, <3>5, <3>6, <3>7, <3>8
    <2>2. CASE Exists(c)
      <3>1. [exec[p] EXCEPT !.todo = @ \ {c}] \in Execution
        BY <1>2 DEF Execution
      <3>2. exec' = [exec EXCEPT ![p] = [exec[p] EXCEPT !.todo = @ \ {c}]]
        BY <1>4, <2>2
      <3>3. exec'[p] = [exec[p] EXCEPT !.todo = @ \ {c}]
        BY <3>2 DEF TypeOK
      <3>4. exec'[p].todo = exec[p].todo \ {c} /\ exec'[p].child = None /\ exec'[p].at = "next"
        BY <1>2, <3>3 DEF Execution
      <3> QED
        BY <1>4, <1>5, <2>2, <3>1, <3>2, <3>3, <3>4, Processes DEF Exists, TypeOK
    <2> QED
      BY <2>1, <2>2
  <1>8. TypeOK'
    BY <1>1, <1>7 DEF TypeOK, aggregation
  <1>9. Phases'
    BY <1>1, <1>3 DEF Phases, aggregation
  <1>10. StartedInOrder'
    BY <1>1, <1>2, <1>7 DEF StartedInOrder
  <1>11. ChildrenAreOwn'
    <2> SUFFICES ASSUME NEW x \in Universe, exec'[x] # None
                 PROVE  /\ exec'[x].at \in {"sendPending", "signal"} <=> exec'[x].child # None
                        /\ exec'[x].child # None =>
                             /\ value'[exec'[x].child] # None /\ delivered'[exec'[x].child] = 0
                             /\ \A y \in Universe \ {x} : exec'[y] # None => exec'[y].child # exec'[x].child
      BY <1>1 DEF ChildrenAreOwn
    <2>1. exec'[p].child # None => exec'[p].child = c /\ value[c] = None /\ delivered[c] = 0
      BY <1>5, <1>7 DEF StartedInOrder
    <2>2. \A y \in Universe \ {p} : exec[y] # None /\ exec[y].child # None =>
             /\ exec[y].child \in Universe /\ value[exec[y].child] # None
      BY DEF ChildrenAreOwn, TypeOK, Execution
    <2>3. CASE x = p
      BY <1>1, <1>5, <1>7, <2>1, <2>2, <2>3, Processes
    <2>4. CASE x # p
      BY <1>1, <1>7, <2>1, <2>2, <2>4 DEF ChildrenAreOwn
    <2> QED
      BY <2>3, <2>4
  <1>12. AskedHaveKeys'
    <2> SUFFICES ASSUME NEW x \in Universe, exec'[x] # None
                 PROVE  /\ exec'[x].todo \subseteq Asked(graph, x)
                        /\ \A d \in Asked(graph, x) \ exec'[x].todo : value'[d] # None
                        /\ exec'[x].child # None => exec'[x].child \in Asked(graph, x)
      BY <1>1 DEF AskedHaveKeys
    <2>1. \A d \in Universe : value[d] # None => value'[d] # None
      BY <1>7
    <2>2. Asked(graph, x) \subseteq Universe
      BY Processes
    <2>3. CASE x = p
      BY <1>2, <1>5, <1>7, <2>1, <2>2, <2>3 DEF AskedHaveKeys
    <2>4. CASE x # p
      BY <1>7, <2>1, <2>2, <2>4 DEF AskedHaveKeys
    <2> QED
      BY <2>3, <2>4
  <1>13. KeysAnnounced'
    <2> SUFFICES ASSUME aggregator = "wait", NEW d \in Universe, value'[d] # None
                 PROVE  Announced(d)' \/ \E x \in Universe : At(x, "sendPending")' /\ exec'[x].child = d
      BY <1>1 DEF KeysAnnounced, aggregation
    <2>1. value[d] # None => Announced(d)
      BY <1>2 DEF KeysAnnounced
    <2>2. value[d] = None => d = c /\ At(p, "sendPending")' /\ exec'[p].child = d
      BY <1>7 DEF At, Phases
    <2> QED
      BY <1>6, <2>1, <2>2
  <1>14. ChildrenAnnounced'
    <2>1. \A x \in Universe : At(x, "sendDone")' => At(x, "sendDone")
      BY <1>7 DEF At
    <2> QED
      BY <1>1, <1>6, <2>1 DEF ChildrenAnnounced, aggregation
  <1>15. OnlyReached'
    BY <1>1, <1>5, <1>7 DEF OnlyReached, aggregation
  <1>16. ResultsOfDone'
    BY <1>1 DEF ResultsOfDone, aggregation
  <1>17. Redelivered' <=> Redelivered
    BY <1>1 DEF Redelivered
  <1>18. NotDoneYet'
    BY <1>1, <1>2, <1>6, <1>7, <1>17 DEF NotDoneYet, aggregation
  <1>19. QuietAfterwards'
    BY <1>1, <1>2, <1>17 DEF QuietAfterwards, aggregation
  <1>20. NoPanic'
    BY <1>1 DEF NoPanic
  <1> QED
    BY <1>8, <1>9, <1>10, <1>11, <1>12, <1>13, <1>14, <1>15, <1>16, <1>18, <1>19, <1>20

\* Whoever notifies on a channel that is not open: the query is over.
LEMMA NotifyPanics ==
    ASSUME IInv, NEW p \in Universe, exec[p] # None, subscription # "open"
    PROVE  /\ aggregator \in {"remove", "end"}
           /\ verdict = Failed \/ Redelivered
  <1>1. aggregator \in {"remove", "end"}
    BY StartedLater DEF IInv, TypeOK, Phases
  <1> QED
    BY <1>1 DEF IInv, QuietAfterwards

LEMMA SendPendingStep ==
    ASSUME IInv, ~panic, NEW p \in Universe, SendPending(p) PROVE IInv'
  <1> USE DEF IInv
  <1>1. /\ graph' = graph /\ query' = query /\ Universe' = Universe /\ Execution' = Execution
        /\ UNCHANGED <<value, delivered, waiting, subscription, aggregation>>
    BY ProblemStays DEF SendPending, signals
  <1>sender. /\ exec[p] # None /\ exec[p] \in Execution /\ exec[p].at = "sendPending"
        /\ exec[p].child # None /\ exec[p].child \in Universe
        /\ exec' = [exec EXCEPT ![p].at = "signal"]
        /\ Notify(<<exec[p].child, "pending">>)
    BY DEF SendPending, At, TypeOK, ChildrenAreOwn, Execution
  <1>child. PICK c \in Universe : c = exec[p].child
    BY <1>sender
  <1>2. /\ exec[p] # None /\ exec[p] \in Execution /\ exec[p].at = "sendPending"
        /\ c # None /\ c \in Universe /\ exec[p].child = c
        /\ exec' = [exec EXCEPT ![p].at = "signal"]
        /\ Notify(<<c, "pending">>)
    BY <1>sender, <1>child
  <1>3. /\ aggregator # "none" /\ c \in Reached(graph, query)
    BY <1>2, StartedLater, Processes DEF AskedHaveKeys
  <1>4. /\ exec'[p] \in Execution /\ exec'[p] # None /\ exec' \in [Universe -> Execution \cup {None}]
        /\ exec'[p].at = "signal" /\ exec'[p].todo = exec[p].todo /\ exec'[p].child = c
        /\ \A x \in Universe \ {p} : exec'[x] = exec[x]
    <2>1. [exec[p] EXCEPT !.at = "signal"] \in Execution
      BY <1>2 DEF Execution
    <2>2. exec'[p] = [exec[p] EXCEPT !.at = "signal"]
      BY <1>2 DEF TypeOK
    <2>3. exec'[p].at = "signal" /\ exec'[p].todo = exec[p].todo /\ exec'[p].child = c
      BY <1>2, <2>2 DEF Execution
    <2> QED
      BY <1>2, <2>1, <2>2, <2>3, Processes DEF TypeOK
  <1>5. StartedInOrder' /\ ResultsOfDone' /\ Phases'
    <2>1. \A x \in Universe : exec'[x] # None <=> exec[x] # None
      BY <1>2, <1>4
    <2>2. StartedInOrder'
      BY <1>1, <2>1 DEF StartedInOrder
    <2>3. ResultsOfDone'
      BY <1>1 DEF ResultsOfDone, aggregation
    <2>4. Phases'
      BY <1>1, <1>3 DEF Phases, aggregation
    <2> QED
      BY <2>2, <2>3, <2>4
  <1>6. ChildrenAreOwn'
    <2>1. /\ \A x \in Universe : exec'[x] # None <=> exec[x] # None
          /\ \A x \in Universe : exec[x] # None => exec'[x].child = exec[x].child
      BY <1>2, <1>4
    <2>2. \A x \in Universe : exec[x] # None =>
            (exec'[x].at \in {"sendPending", "signal"} <=> exec[x].at \in {"sendPending", "signal"})
      BY <1>2, <1>4
    <2> QED
      BY <1>1, <2>1, <2>2 DEF ChildrenAreOwn
  <1>7. AskedHaveKeys'
    BY <1>1, <1>2, <1>4 DEF AskedHaveKeys
  <1>8. /\ Redelivered' <=> Redelivered
        /\ \A x \in Universe : exec'[x] # None <=> exec[x] # None
        /\ \A x \in Universe : At(x, "sendDone")' <=> At(x, "sendDone")
        /\ \A x \in Universe \ {p} : At(x, "sendPending") => At(x, "sendPending")' /\ exec'[x].child = exec[x].child
    BY <1>1, <1>2, <1>4 DEF Redelivered, At
  <1>9. CASE subscription # "open"
    <2>1. panic' /\ channel' = channel /\ aggregator \in {"remove", "end"} /\ (verdict = Failed \/ Redelivered)
      BY <1>2, <1>9, NotifyPanics DEF Notify
    <2>2. TypeOK'
      BY <1>1, <1>4, <2>1 DEF TypeOK, aggregation
    <2>3. KeysAnnounced' /\ ChildrenAnnounced' /\ NotDoneYet'
      BY <1>1, <2>1 DEF KeysAnnounced, ChildrenAnnounced, NotDoneYet, aggregation
    <2>4. OnlyReached'
      BY <1>1, <2>1 DEF OnlyReached, aggregation
    <2>5. QuietAfterwards'
      BY <1>1, <1>8, <2>1 DEF QuietAfterwards, aggregation
    <2>6. NoPanic'
      BY <1>1, <2>1 DEF NoPanic, Redelivered, aggregation
    <2> QED
      BY <1>3, <1>5, <1>6, <1>7, <2>2, <2>3, <2>4, <2>5, <2>6
  <1>10. CASE subscription = "open"
    <2> DEFINE m == <<c, "pending">>
    <2>1. /\ channel' = Append(channel, m) /\ UNCHANGED <<panic, pendingMap>>
          /\ m \in Universe \X {"pending", "done"} /\ m[1] = c /\ m[2] = "pending"
      BY <1>1, <1>2, <1>10 DEF Notify, aggregation
    <2> HIDE DEF m
    <2>2. /\ channel' \in Seq(Universe \X {"pending", "done"})
          /\ Len(channel) \in Nat /\ Len(channel') = Len(channel) + 1
          /\ \A i \in 1 .. Len(channel) : channel'[i] = channel[i]
          /\ channel'[Len(channel')] = m
          /\ \A d : \A i \in 1 .. Len(channel) + 1 : Told(d, i) => Told(d, i)'
          /\ \A d : Announced(d) => Announced(d)'
          /\ Announced(c)'
      BY <2>1, AppendTells
    <2>3. TypeOK'
      BY <1>1, <1>4, <2>1, <2>2 DEF TypeOK, aggregation
    <2>4. KeysAnnounced'
      <3> SUFFICES ASSUME aggregator = "wait", NEW d \in Universe, value[d] # None
                   PROVE  Announced(d)' \/ \E x \in Universe : At(x, "sendPending")' /\ exec'[x].child = d
        BY <1>1 DEF KeysAnnounced, aggregation
      <3>1. CASE Announced(d)
        BY <2>2, <3>1
      <3>2. CASE \E x \in Universe : At(x, "sendPending") /\ exec[x].child = d
        <4>1. PICK x \in Universe : At(x, "sendPending") /\ exec[x].child = d
          BY <3>2
        <4>2. CASE x = p
          <5>1. d = c
            BY <1>2, <4>1, <4>2
          <5> QED
            BY <2>2, <5>1
        <4>3. CASE x # p
          BY <1>8, <4>1, <4>3
        <4> QED
          BY <4>2, <4>3
      <3> QED
        BY <3>1, <3>2 DEF KeysAnnounced
    <2>5. ChildrenAnnounced'
      <3> SUFFICES ASSUME aggregator = "wait"
                   PROVE  /\ \A x \in Universe : At(x, "sendDone")' => \A d \in Asked(graph, x) : Announced(d)'
                          /\ \A i \in 1 .. Len(channel') : channel'[i][2] = "done" =>
                               \A d \in Asked(graph, channel'[i][1]) : Told(d, i)'
                          /\ \A x \in Universe : pendingMap[x] = FALSE =>
                               \A d \in Asked(graph, x) : pendingMap[d] # None
        BY <1>1, <2>1 DEF ChildrenAnnounced, aggregation
      <3>1. ASSUME NEW i \in 1 .. Len(channel'), channel'[i][2] = "done", NEW d \in Asked(graph, channel'[i][1])
            PROVE  Told(d, i)'
        <4>1. i \in 1 .. Len(channel) /\ channel'[i] = channel[i]
          BY <2>1, <2>2, <3>1
        <4>2. Told(d, i)
          BY <3>1, <4>1 DEF ChildrenAnnounced
        <4> QED
          BY <2>2, <4>1, <4>2
      <3> QED
        BY <1>8, <2>2, <3>1 DEF ChildrenAnnounced
    <2>6. OnlyReached'
      <3>1. \A i \in 1 .. Len(channel') : channel'[i][1] \in Reached(graph, query)
        BY <1>3, <2>1, <2>2 DEF OnlyReached
      <3>2. aggregator = "wait" =>
              pendingMap[query] # None \/ (channel' # <<>> /\ channel'[1][1] = query)
        <4>1. channel # <<>> => 1 \in 1 .. Len(channel)
          BY EmptySeq, <2>2 DEF TypeOK
        <4>2. channel' # <<>>
          BY EmptySeq, <2>2
        <4> QED
          BY <2>2, <4>1, <4>2 DEF OnlyReached
      <3> QED
        BY <1>1, <3>1, <3>2 DEF OnlyReached, aggregation
    <2>7. NotDoneYet'
      <3>1. ASSUME NEW x \in Universe, Reported(x)' PROVE Reported(x)
        BY <2>1, <2>2, <3>1 DEF Reported
      <3> QED
        BY <1>1, <1>8, <3>1 DEF NotDoneYet, aggregation
    <2>8. QuietAfterwards'
      BY <1>1, <1>8 DEF QuietAfterwards, aggregation
    <2>9. NoPanic'
      BY <1>1, <2>1 DEF NoPanic, aggregation
    <2> QED
      BY <1>3, <1>5, <1>6, <1>7, <2>3, <2>4, <2>5, <2>6, <2>7, <2>8, <2>9
  <1> QED
    BY <1>9, <1>10

LEMMA SignalStep ==
    ASSUME IInv, ~panic, NEW p \in Universe, Signal(p) PROVE IInv'
  <1> USE DEF IInv
  <1>1. /\ graph' = graph /\ query' = query /\ Universe' = Universe /\ Execution' = Execution
        /\ UNCHANGED <<value, subscription, channel, aggregation, panic>>
    BY ProblemStays DEF Signal
  <1>2. /\ exec[p] # None /\ exec[p] \in Execution /\ exec[p].at = "signal"
        /\ exec[p].child # None /\ exec[p].child \in Universe
        /\ exec' = [exec EXCEPT ![p].at = "next", ![p].child = None]
        /\ Publish(exec[p].child)
    BY DEF Signal, At, TypeOK, ChildrenAreOwn, Execution
  <1>3. PICK c \in Universe : c = exec[p].child
    BY <1>2
  <1>4. /\ delivered[c] = 0 /\ waiting[c] = 0 /\ exec[c] = None /\ value[c] # None
        /\ \A x \in Universe \ {p} : exec[x] # None => exec[x].child # c
    BY <1>2, <1>3 DEF ChildrenAreOwn, StartedInOrder
  <1>5. /\ delivered' \in [Universe -> 0 .. 2] /\ waiting' \in [Universe -> 0 .. 1]
        /\ \A x \in Universe \ {c} : delivered'[x] = delivered[x] /\ waiting'[x] = waiting[x]
        /\ delivered'[c] \in 0 .. 1 /\ waiting'[c] \in 0 .. 1
        /\ delivered'[c] = 0 => waiting'[c] = 0
    BY <1>2, <1>3, <1>4, PublishStep
  <1>6. /\ exec'[p] \in Execution /\ exec'[p] # None /\ exec' \in [Universe -> Execution \cup {None}]
        /\ exec'[p].at = "next" /\ exec'[p].todo = exec[p].todo /\ exec'[p].child = None
        /\ \A x \in Universe \ {p} : exec'[x] = exec[x]
    <2>1. [exec[p] EXCEPT !.at = "next", !.child = None] \in Execution
      BY <1>2 DEF Execution
    <2>2. exec'[p] = [exec[p] EXCEPT !.at = "next", !.child = None]
      BY <1>2 DEF TypeOK
    <2>3. exec'[p].at = "next" /\ exec'[p].todo = exec[p].todo /\ exec'[p].child = None
      BY <1>2, <2>2 DEF Execution
    <2> QED
      BY <1>2, <2>1, <2>2, <2>3, Processes DEF TypeOK
  <1>7. /\ Redelivered' <=> Redelivered
        /\ \A x \in Universe : exec'[x] # None <=> exec[x] # None
        /\ \A x \in Universe : At(x, "sendDone")' <=> At(x, "sendDone")
        /\ \A x \in Universe : At(x, "sendPending") => At(x, "sendPending")' /\ exec'[x].child = exec[x].child
    <2>1. delivered[c] = 0 /\ ~(delivered'[c] > 1)
      BY <1>4, <1>5
    <2>2. \A x \in Universe : delivered'[x] > 1 <=> delivered[x] > 1
      BY <1>5, <2>1
    <2>3. Redelivered' <=> Redelivered
      BY <1>1, <2>2 DEF Redelivered
    <2> QED
      BY <1>2, <1>6, <2>3 DEF At
  <1>8. TypeOK'
    BY <1>1, <1>5, <1>6 DEF TypeOK, aggregation
  <1>9. Phases'
    BY <1>1 DEF Phases, aggregation
  <1>10. StartedInOrder'
    BY <1>1, <1>4, <1>5, <1>7 DEF StartedInOrder
  <1>11. ChildrenAreOwn'
    <2> SUFFICES ASSUME NEW x \in Universe, exec'[x] # None
                 PROVE  /\ exec'[x].at \in {"sendPending", "signal"} <=> exec'[x].child # None
                        /\ exec'[x].child # None =>
                             /\ value'[exec'[x].child] # None /\ delivered'[exec'[x].child] = 0
                             /\ \A y \in Universe \ {x} : exec'[y] # None => exec'[y].child # exec'[x].child
      BY <1>1 DEF ChildrenAreOwn
    <2>1. CASE x = p
      BY <1>6, <2>1
    <2>2. CASE x # p
      <3>1. exec'[x] = exec[x] /\ exec[x] \in Execution /\ exec[x].child # c
        BY <1>4, <1>6, <2>2 DEF TypeOK
      <3>2. exec[x].child # None => exec[x].child \in Universe \ {c}
        BY <3>1 DEF Execution
      <3>3. \A y \in Universe : exec'[y] # None => exec'[y].child \in {None, exec[y].child}
        BY <1>6
      <3> QED
        BY <1>1, <1>5, <1>7, <3>1, <3>2, <3>3 DEF ChildrenAreOwn
    <2> QED
      BY <2>1, <2>2
  <1>12. AskedHaveKeys'
    BY <1>1, <1>2, <1>6 DEF AskedHaveKeys
  <1>13. \A d, i : (Told(d, i)' <=> Told(d, i)) /\ (Announced(d)' <=> Announced(d)) /\ (Reported(d)' <=> Reported(d))
    BY <1>1, NothingTold DEF aggregation
  <1>14. KeysAnnounced' /\ ChildrenAnnounced'
    BY <1>1, <1>7, <1>13 DEF KeysAnnounced, ChildrenAnnounced, aggregation
  <1>15. OnlyReached' /\ ResultsOfDone'
    BY <1>1 DEF OnlyReached, ResultsOfDone, aggregation
  <1>16. NotDoneYet'
    <2> SUFFICES ASSUME ~Redelivered, aggregator = "wait", NEW x \in Universe,
                        delivered'[x] = 0 \/ waiting'[x] # 0 \/ exec'[x] # None
                 PROVE  ~Reported(x)
      BY <1>1, <1>7, <1>13 DEF NotDoneYet, aggregation
    <2>1. delivered[x] = 0 \/ waiting[x] # 0 \/ exec[x] # None
      BY <1>4, <1>5, <1>7
    <2> QED
      BY <2>1 DEF NotDoneYet
  <1>17. QuietAfterwards'
    BY <1>1, <1>2, <1>7 DEF QuietAfterwards, aggregation
  <1>18. NoPanic'
    BY <1>1 DEF NoPanic
  <1> QED
    BY <1>8, <1>9, <1>10, <1>11, <1>12, <1>14, <1>15, <1>16, <1>17, <1>18

LEMMA PutDoneStep ==
    ASSUME IInv, ~panic, NEW p \in Universe, PutDone(p) PROVE IInv'
  <1> USE DEF IInv
  <1>1. /\ graph' = graph /\ query' = query /\ Universe' = Universe /\ Execution' = Execution
        /\ UNCHANGED <<delivered, waiting, subscription, channel, aggregation, panic>>
    BY ProblemStays DEF PutDone, signals
  <1>2. /\ exec[p] # None /\ exec[p] \in Execution /\ exec[p].at = "next" /\ exec[p].child = None
        /\ exec[p].todo = {}
        /\ \A x \in Universe : ~At(x, "sendPending")
        /\ value' = [value EXCEPT ![p] = "done"]
        /\ exec' = [exec EXCEPT ![p] = IF Subscribed THEN [@ EXCEPT !.at = "sendDone"] ELSE None]
    BY DEF PutDone, ParentFree, At, TypeOK, ChildrenAreOwn
  <1>3. aggregator # "none" /\ value[p] # None /\ delivered[p] # 0 /\ p \in Reached(graph, query)
    BY <1>2, StartedLater
  <1>4. /\ exec' \in [Universe -> Execution \cup {None}]
        /\ \/ /\ Subscribed /\ exec'[p] # None /\ exec'[p].at = "sendDone"
              /\ exec'[p].todo = {} /\ exec'[p].child = None
           \/ ~Subscribed /\ exec'[p] = None
        /\ \A x \in Universe \ {p} : exec'[x] = exec[x]
    <2>1. CASE Subscribed
      <3>1. [exec[p] EXCEPT !.at = "sendDone"] \in Execution
        BY <1>2 DEF Execution
      <3>2. exec' = [exec EXCEPT ![p] = [exec[p] EXCEPT !.at = "sendDone"]]
        BY <1>2, <2>1
      <3>3. exec'[p] = [exec[p] EXCEPT !.at = "sendDone"]
        BY <3>2 DEF TypeOK
      <3>4. exec'[p].at = "sendDone" /\ exec'[p].todo = {} /\ exec'[p].child = None
        BY <1>2, <3>3 DEF Execution
      <3> QED
        BY <2>1, <3>1, <3>2, <3>3, <3>4, Processes DEF TypeOK
    <2>2. CASE ~Subscribed
      BY <1>2, <2>2 DEF TypeOK
    <2> QED
      BY <2>1, <2>2
  <1>5. /\ value' \in [Universe -> {None, "pending", "done"}]
        /\ \A x \in Universe : value'[x] # None <=> value[x] # None
    BY <1>2, <1>3, Processes DEF TypeOK
  <1>6. TypeOK'
    BY <1>1, <1>4, <1>5 DEF TypeOK, aggregation
  <1>7. Phases'
    BY <1>1, <1>3 DEF Phases, aggregation
  <1>8. StartedInOrder'
    BY <1>1, <1>2, <1>3, <1>4, <1>5 DEF StartedInOrder
  <1>9. ChildrenAreOwn'
    <2>1. \A x \in Universe \ {p} : exec[x] # None /\ exec[x].child # None => exec[x].child \in Universe
      BY DEF TypeOK, Execution
    <2> QED
      BY <1>1, <1>4, <1>5, <2>1 DEF ChildrenAreOwn
  <1>10. AskedHaveKeys'
    <2>1. \A x \in Universe : Asked(graph, x) \subseteq Universe
      BY Processes
    <2> QED
      BY <1>1, <1>2, <1>4, <1>5, <2>1 DEF AskedHaveKeys
  <1>11. \A d, i : (Told(d, i)' <=> Told(d, i)) /\ (Announced(d)' <=> Announced(d)) /\ (Reported(d)' <=> Reported(d))
    BY <1>1, NothingTold DEF aggregation
  <1>12. aggregator = "wait" => \A c \in Universe : value[c] # None => Announced(c)
    BY <1>2 DEF KeysAnnounced
  <1>13. KeysAnnounced'
    BY <1>1, <1>5, <1>11, <1>12 DEF KeysAnnounced, aggregation
  <1>14. ChildrenAnnounced'
    <2>1. \A x \in Universe \ {p} : At(x, "sendDone")' <=> At(x, "sendDone")
      BY <1>4 DEF At
    <2>2. aggregator = "wait" => \A c \in Asked(graph, p) : Announced(c)
      BY <1>2, <1>12, Processes DEF AskedHaveKeys
    <2> QED
      BY <1>1, <1>11, <2>1, <2>2 DEF ChildrenAnnounced, aggregation
  <1>15. OnlyReached' /\ ResultsOfDone'
    BY <1>1, <1>5 DEF OnlyReached, ResultsOfDone, aggregation
  <1>16. Redelivered' <=> Redelivered
    BY <1>1 DEF Redelivered
  <1>17. NotDoneYet'
    <2>1. \A x \in Universe : exec'[x] # None => exec[x] # None
      BY <1>2, <1>4
    <2> QED
      BY <1>1, <1>11, <1>16, <2>1 DEF NotDoneYet, aggregation
  <1>18. QuietAfterwards'
    BY <1>1, <1>2, <1>16 DEF QuietAfterwards, aggregation
  <1>19. NoPanic'
    BY <1>1 DEF NoPanic
  <1> QED
    BY <1>6, <1>7, <1>8, <1>9, <1>10, <1>13, <1>14, <1>15, <1>17, <1>18, <1>19

LEMMA SendDoneStep ==
    ASSUME IInv, ~panic, NEW p \in Universe, SendDone(p) PROVE IInv'
  <1> USE DEF IInv
  <1>1. /\ graph' = graph /\ query' = query /\ Universe' = Universe /\ Execution' = Execution
        /\ UNCHANGED <<value, delivered, waiting, subscription, aggregation>>
    BY ProblemStays DEF SendDone, signals
  <1>2. /\ exec[p] # None /\ exec[p] \in Execution /\ exec[p].at = "sendDone" /\ exec[p].child = None
        /\ exec' = [exec EXCEPT ![p] = None]
        /\ Notify(<<p, "done">>)
    BY DEF SendDone, At, TypeOK, ChildrenAreOwn
  <1>3. aggregator # "none" /\ delivered[p] # 0 /\ waiting[p] = 0 /\ p \in Reached(graph, query)
    BY <1>2, StartedLater DEF StartedInOrder
  <1>4. /\ exec' \in [Universe -> Execution \cup {None}] /\ exec'[p] = None
        /\ \A x \in Universe \ {p} : exec'[x] = exec[x]
    BY <1>2 DEF TypeOK
  <1>5. /\ Redelivered' <=> Redelivered
        /\ \A x \in Universe : At(x, "sendDone")' => At(x, "sendDone")
        /\ \A x \in Universe : At(x, "sendPending") => At(x, "sendPending")' /\ exec'[x].child = exec[x].child
    BY <1>1, <1>2, <1>4 DEF Redelivered, At
  <1>6. StartedInOrder' /\ ChildrenAreOwn' /\ AskedHaveKeys'
    BY <1>1, <1>2, <1>4 DEF StartedInOrder, ChildrenAreOwn, AskedHaveKeys
  <1>7. Phases' /\ ResultsOfDone'
    BY <1>1, <1>3 DEF Phases, ResultsOfDone, aggregation
  <1>8. CASE subscription # "open"
    <2>1. panic' /\ channel' = channel /\ aggregator \in {"remove", "end"} /\ (verdict = Failed \/ Redelivered)
      BY <1>2, <1>8, NotifyPanics DEF Notify
    <2>2. TypeOK'
      BY <1>1, <1>4, <2>1 DEF TypeOK, aggregation
    <2>3. KeysAnnounced' /\ ChildrenAnnounced' /\ NotDoneYet'
      BY <1>1, <2>1 DEF KeysAnnounced, ChildrenAnnounced, NotDoneYet, aggregation
    <2>4. OnlyReached'
      BY <1>1, <2>1 DEF OnlyReached, aggregation
    <2>5. QuietAfterwards'
      BY <1>1, <1>5, <2>1 DEF QuietAfterwards, aggregation
    <2>6. NoPanic'
      BY <1>1, <2>1 DEF NoPanic, Redelivered, aggregation
    <2> QED
      BY <1>6, <1>7, <2>2, <2>3, <2>4, <2>5, <2>6
  <1>9. CASE subscription = "open"
    <2> DEFINE m == <<p, "done">>
    <2>1. /\ channel' = Append(channel, m) /\ UNCHANGED <<panic, pendingMap>>
          /\ m \in Universe \X {"pending", "done"} /\ m[1] = p /\ m[2] = "done"
      BY <1>1, <1>2, <1>9 DEF Notify, aggregation
    <2> HIDE DEF m
    <2>2. /\ channel' \in Seq(Universe \X {"pending", "done"})
          /\ Len(channel) \in Nat /\ Len(channel') = Len(channel) + 1
          /\ \A i \in 1 .. Len(channel) : channel'[i] = channel[i]
          /\ channel'[Len(channel')] = m
          /\ \A d : \A i \in 1 .. Len(channel) + 1 : Told(d, i) => Told(d, i)'
          /\ \A d : Announced(d) => Announced(d)'
      BY <2>1, AppendTells
    <2>3. TypeOK'
      BY <1>1, <1>4, <2>1, <2>2 DEF TypeOK, aggregation
    <2>4. KeysAnnounced'
      BY <1>1, <1>5, <2>2 DEF KeysAnnounced, aggregation
    <2>5. ChildrenAnnounced'
      <3> SUFFICES ASSUME aggregator = "wait"
                   PROVE  /\ \A x \in Universe : At(x, "sendDone")' => \A d \in Asked(graph, x) : Announced(d)'
                          /\ \A i \in 1 .. Len(channel') : channel'[i][2] = "done" =>
                               \A d \in Asked(graph, channel'[i][1]) : Told(d, i)'
                          /\ \A x \in Universe : pendingMap[x] = FALSE =>
                               \A d \in Asked(graph, x) : pendingMap[d] # None
        BY <1>1, <2>1 DEF ChildrenAnnounced, aggregation
      <3>1. ASSUME NEW i \in 1 .. Len(channel'), channel'[i][2] = "done", NEW d \in Asked(graph, channel'[i][1])
            PROVE  Told(d, i)'
        <4>1. CASE i \in 1 .. Len(channel)
          <5>1. Told(d, i)
            BY <2>2, <3>1, <4>1 DEF ChildrenAnnounced
          <5> QED
            BY <2>2, <4>1, <5>1
        <4>2. CASE i = Len(channel) + 1
          <5>1. d \in Asked(graph, p)
            BY <2>1, <2>2, <3>1, <4>2
          <5>2. Announced(d)
            BY <1>2, <5>1 DEF ChildrenAnnounced, At
          <5>3. Told(d, i)
            BY <4>2, <5>2 DEF Announced
          <5> QED
            BY <2>2, <4>2, <5>3
        <4> QED
          BY <2>2, <4>1, <4>2
      <3> QED
        BY <1>5, <2>2, <3>1 DEF ChildrenAnnounced
    <2>6. OnlyReached'
      <3>1. \A i \in 1 .. Len(channel') : channel'[i][1] \in Reached(graph, query)
        BY <1>3, <2>1, <2>2 DEF OnlyReached
      <3>2. aggregator = "wait" =>
              pendingMap[query] # None \/ (channel' # <<>> /\ channel'[1][1] = query)
        <4>1. channel # <<>> => 1 \in 1 .. Len(channel)
          BY EmptySeq, <2>2 DEF TypeOK
        <4>2. channel' # <<>>
          BY EmptySeq, <2>2
        <4> QED
          BY <2>2, <4>1, <4>2 DEF OnlyReached
      <3> QED
        BY <1>1, <3>1, <3>2 DEF OnlyReached, aggregation
    <2>7. NotDoneYet'
      <3>1. ASSUME NEW x \in Universe \ {p}, Reported(x)' PROVE Reported(x)
        BY <2>1, <2>2, <3>1 DEF Reported
      <3>2. \A x \in Universe :
              delivered[x] = 0 \/ waiting[x] # 0 \/ exec'[x] # None => x # p /\ exec'[x] = exec[x]
        BY <1>3, <1>4
      <3> QED
        BY <1>1, <1>5, <3>1, <3>2 DEF NotDoneYet, aggregation
    <2>8. QuietAfterwards'
      BY <1>1, <1>2, <1>5 DEF QuietAfterwards, aggregation
    <2>9. NoPanic'
      BY <1>1, <2>1 DEF NoPanic, aggregation
    <2> QED
      BY <1>6, <1>7, <2>3, <2>4, <2>5, <2>6, <2>7, <2>8, <2>9
  <1> QED
    BY <1>8, <1>9

\* All processes that are known are done: they are what is reached.
LEMMA DoneIsReached ==
    ASSUME IInv, NEW done \in [Universe -> BOOLEAN \cup {None}],
           done[query] # None, \A x \in Universe : done[x] # TRUE,
           \A x \in Universe : done[x] # None => x \in Reached(graph, query),
           \A x \in Universe : done[x] = FALSE => \A c \in Asked(graph, x) : done[c] # None
    PROVE  {x \in Universe : done[x] = FALSE} = Reached(graph, query)
  <1> DEFINE S == {x \in Universe : done[x] = FALSE}
  <1>1. \A x \in Universe : done[x] # None <=> x \in S
    BY Processes DEF IInv
  <1>2. query \in S /\ Closed(graph, S) /\ S \in SUBSET Parts(query)
    BY <1>1, Processes DEF IInv, Closed, Universe
  <1>3. Reached(graph, query) \subseteq S
    BY <1>2, ReachedIsLeast, GraphsAreGraphs, QueriesAreProcesses DEF IInv, TypeOK
  <1>4. S \subseteq Reached(graph, query)
    BY <1>1
  <1> QED
    BY <1>3, <1>4

LEMMA ReceiveStep ==
    ASSUME IInv, ~panic, Receive PROVE IInv'
  <1> USE DEF IInv
  <1>1. /\ graph' = graph /\ query' = query /\ Universe' = Universe /\ Execution' = Execution
        /\ UNCHANGED <<problem, value, signals, exec, subscription, answer, panic>>
    BY ProblemStays DEF Receive
  <1>2. aggregator = "wait" /\ channel # <<>> /\ channel' = Tail(channel)
    BY DEF Receive
  <1>3. /\ Len(channel) \in Nat /\ 1 \in 1 .. Len(channel) /\ Head(channel) = channel[1]
        /\ channel[1] \in Universe \X {"pending", "done"}
        /\ channel' \in Seq(Universe \X {"pending", "done"})
        /\ Len(channel') = Len(channel) - 1
        /\ \A i \in 1 .. Len(channel') : i + 1 \in 1 .. Len(channel) /\ channel'[i] = channel[i + 1]
    <2>1. channel \in Seq(Universe \X {"pending", "done"})
      BY DEF TypeOK
    <2>2. Len(channel) \in Nat \ {0}
      BY <1>2, <2>1, EmptySeq
    <2> QED
      BY <1>2, <2>1, <2>2, HeadTailProperties, ElementOfSeq
  <1>4. PICK p \in Universe : p = channel[1][1]
    BY <1>3
  <1>5. p \in Reached(graph, query)
    BY <1>3, <1>4 DEF OnlyReached
  <1>6. /\ pendingMap' \in [Universe -> BOOLEAN \cup {None}]
        /\ \A x \in Universe \ {p} : pendingMap'[x] = pendingMap[x]
        /\ pendingMap'[p] # None
    <2>1. \/ pendingMap' = [pendingMap EXCEPT ![p] = IF @ = None THEN TRUE ELSE @]
          \/ pendingMap' = [pendingMap EXCEPT ![p] = FALSE]
      BY <1>3, <1>4 DEF Receive
    <2> QED
      BY <2>1, Processes DEF TypeOK
  <1>7. \/ /\ channel[1][2] = "pending" /\ UNCHANGED <<resultObjects, aggregator, verdict>>
           /\ pendingMap'[p] = FALSE <=> pendingMap[p] = FALSE
        \/ /\ channel[1][2] = "done" /\ pendingMap'[p] = FALSE
           /\ resultObjects' = resultObjects \cup Found(graph, p)
           /\ \/ AllDone(pendingMap') /\ aggregator' = "close" /\ verdict' = resultObjects'
              \/ UNCHANGED <<aggregator, verdict>>
    <2>1. CASE channel[1][2] = "pending"
      <3>1. pendingMap' = [pendingMap EXCEPT ![p] = IF @ = None THEN TRUE ELSE @]
        BY <1>3, <1>4, <2>1 DEF Receive, IsPending
      <3>2. pendingMap'[p] = FALSE <=> pendingMap[p] = FALSE
        BY <3>1, Processes DEF TypeOK
      <3> QED
        BY <1>3, <2>1, <3>2 DEF Receive, IsPending
    <2>2. CASE channel[1][2] = "done"
      <3>1. /\ pendingMap' = [pendingMap EXCEPT ![p] = FALSE]
            /\ resultObjects' = resultObjects \cup Found(graph, p)
            /\ IF AllDone(pendingMap') THEN aggregator' = "close" /\ verdict' = resultObjects'
               ELSE UNCHANGED <<aggregator, verdict>>
        BY <1>3, <1>4, <2>2 DEF Receive, IsPending
      <3>2. pendingMap'[p] = FALSE
        BY <3>1 DEF TypeOK
      <3> QED
        BY <2>2, <3>1, <3>2
    <2> QED
      BY <1>3, <2>1, <2>2
  <1>8. /\ \A x \in Universe : pendingMap[x] # None => pendingMap'[x] # None
        /\ pendingMap'[query] # None
        /\ \A x \in Universe : pendingMap'[x] # None => x \in Reached(graph, query)
        /\ \A i \in 1 .. Len(channel') : channel'[i][1] \in Reached(graph, query)
    <2>1. \A x \in Universe : pendingMap[x] # None => pendingMap'[x] # None
      BY <1>6, Processes DEF TypeOK
    <2>2. pendingMap'[query] # None
      BY <1>2, <1>4, <1>6, <2>1, Processes DEF OnlyReached
    <2>3. \A x \in Universe : pendingMap'[x] # None => x \in Reached(graph, query)
      BY <1>5, <1>6 DEF OnlyReached
    <2>4. \A i \in 1 .. Len(channel') : channel'[i][1] \in Reached(graph, query)
      BY <1>3 DEF OnlyReached
    <2> QED
      BY <2>1, <2>2, <2>3, <2>4
  <1>9. ASSUME NEW c \in Universe, NEW i \in 1 .. Len(channel), Told(c, i + 1) PROVE Told(c, i)'
    <2>1. CASE pendingMap[c] # None
      BY <1>8, <2>1 DEF Told
    <2>2. CASE \E j \in 1 .. i : channel[j][1] = c
      <3>1. PICK j \in 1 .. i : channel[j][1] = c
        BY <2>2
      <3>2. CASE j = 1
        BY <1>4, <1>6, <3>1, <3>2 DEF Told
      <3>3. CASE j # 1
        <4>1. j - 1 \in 1 .. i - 1 /\ j - 1 \in 1 .. Len(channel') /\ channel'[j - 1] = channel[j]
          BY <1>3, <3>1, <3>3
        <4> QED
          BY <3>1, <4>1 DEF Told
      <3> QED
        BY <3>2, <3>3
    <2> QED
      BY <1>9, <2>1, <2>2 DEF Told
  <1>10. \A c \in Universe : Announced(c) => Announced(c)'
    <2> SUFFICES ASSUME NEW c \in Universe, Announced(c) PROVE Announced(c)'
      OBVIOUS
    <2>1. PICK n \in 1 .. Len(channel) : n = Len(channel)
      BY <1>3
    <2>2. Told(c, n)'
      BY <1>3, <1>9, <2>1 DEF Announced
    <2>3. Len(channel') + 1 = n
      BY <1>3, <2>1
    <2> QED
      BY <2>2, <2>3 DEF Announced
  <1>11. \A x \in Universe : pendingMap'[x] = FALSE => \A c \in Asked(graph, x) : pendingMap'[c] # None
    <2> SUFFICES ASSUME NEW x \in Universe, pendingMap'[x] = FALSE, NEW c \in Asked(graph, x)
                 PROVE  pendingMap'[c] # None
      OBVIOUS
    <2>1. c \in Universe
      BY Processes
    <2>2. CASE pendingMap[x] = FALSE
      BY <1>2, <1>8, <2>1, <2>2 DEF ChildrenAnnounced
    <2>3. CASE pendingMap[x] # FALSE
      <3>1. x = p /\ channel[1][2] = "done"
        BY <1>6, <1>7, <2>3
      <3>2. Told(c, 1)
        BY <1>2, <1>3, <1>4, <3>1 DEF ChildrenAnnounced
      <3>3. pendingMap[c] # None
        BY <3>2 DEF Told
      <3> QED
        BY <1>8, <2>1, <3>3
    <2> QED
      BY <2>2, <2>3
  <1>12. ResultsOfDone'
    <2> DEFINE Done == {x \in Universe : pendingMap[x] = FALSE}
               DoneNext == {x \in Universe : pendingMap'[x] = FALSE}
    <2>1. resultObjects' = UNION {Found(graph, x) : x \in DoneNext}
      <3>1. CASE channel[1][2] = "pending"
        <4>1. resultObjects' = resultObjects /\ DoneNext = Done
          BY <1>6, <1>7, <3>1
        <4> QED
          BY <4>1 DEF ResultsOfDone
      <3>2. CASE channel[1][2] = "done"
        <4>1. resultObjects' = resultObjects \cup Found(graph, p) /\ DoneNext = Done \cup {p}
          BY <1>6, <1>7, <3>2
        <4> QED
          BY <4>1 DEF ResultsOfDone
      <3> QED
        BY <1>3, <3>1, <3>2
    <2> QED
      BY <1>1, <2>1 DEF ResultsOfDone
  <1>13. aggregator' \in {"wait", "close"}
         /\ (aggregator' = "wait" => verdict' = verdict)
         /\ (aggregator' = "close" => AllDone(pendingMap') /\ verdict' = resultObjects')
    BY <1>2, <1>7
  <1>14. aggregator' = "close" =>
           /\ {x \in Universe : pendingMap'[x] = FALSE} = Reached(graph, query)
           /\ verdict' = Result(graph, query)
    <2> SUFFICES ASSUME aggregator' = "close"
                 PROVE  /\ {x \in Universe : pendingMap'[x] = FALSE} = Reached(graph, query)
                        /\ verdict' = Result(graph, query)
      OBVIOUS
    <2>1. \A x \in Universe : pendingMap'[x] # TRUE
      BY <1>13 DEF AllDone
    <2>2. {x \in Universe : pendingMap'[x] = FALSE} = Reached(graph, query)
      BY <1>6, <1>8, <1>11, <2>1, DoneIsReached
    <2>3. verdict' = UNION {Found(graph, x) : x \in {y \in Universe : pendingMap'[y] = FALSE}}
      BY <1>1, <1>12, <1>13 DEF ResultsOfDone
    <2> QED
      BY <2>2, <2>3 DEF Result
  <1>15. resultObjects' \subseteq Vertex
    BY <1>7, Processes DEF TypeOK
  <1>16. TypeOK'
    BY <1>1, <1>2, <1>3, <1>6, <1>7, <1>13, <1>15 DEF TypeOK, signals, problem
  <1>17. Phases'
    BY <1>1, <1>2, <1>13, <1>14 DEF Phases
  <1>18. StartedInOrder' /\ ChildrenAreOwn' /\ AskedHaveKeys'
    BY <1>1, ProcessesStay
  <1>19. KeysAnnounced'
    BY <1>1, <1>2, <1>10 DEF KeysAnnounced, At
  <1>20. ChildrenAnnounced'
    <2>1. \A x \in Universe : At(x, "sendDone")' => \A c \in Asked(graph, x) : Announced(c)'
      BY <1>1, <1>2, <1>10, Processes DEF ChildrenAnnounced, At
    <2>2. ASSUME NEW i \in 1 .. Len(channel'), channel'[i][2] = "done", NEW c \in Asked(graph, channel'[i][1])
          PROVE  Told(c, i)'
      <3>1. i + 1 \in 1 .. Len(channel) /\ channel'[i] = channel[i + 1] /\ i \in 1 .. Len(channel)
        BY <1>3
      <3>2. channel'[i][1] \in Universe
        BY <1>8, Processes
      <3>3. Told(c, i + 1)
        BY <1>2, <2>2, <3>1 DEF ChildrenAnnounced
      <3> QED
        BY <1>9, <2>2, <3>1, <3>2, <3>3, Processes
    <2> QED
      BY <1>1, <1>11, <2>1, <2>2 DEF ChildrenAnnounced
  <1>21. OnlyReached'
    BY <1>1, <1>2, <1>8 DEF OnlyReached
  <1>22. Redelivered' <=> Redelivered
    BY <1>1 DEF Redelivered, signals
  <1>23. \A x \in Universe : Reported(x)' => Reported(x)
    <2> SUFFICES ASSUME NEW x \in Universe, Reported(x)' PROVE Reported(x)
      OBVIOUS
    <2>1. CASE pendingMap'[x] = FALSE
      BY <1>3, <1>4, <1>6, <1>7, <2>1 DEF Reported
    <2>2. CASE \E i \in 1 .. Len(channel') : channel'[i][1] = x /\ channel'[i][2] = "done"
      BY <1>3, <2>2 DEF Reported
    <2> QED
      BY <2>1, <2>2 DEF Reported
  <1>24. NotDoneYet'
    BY <1>1, <1>2, <1>22, <1>23 DEF NotDoneYet, signals
  <1>25. QuietAfterwards'
    <2> SUFFICES ASSUME ~Redelivered, aggregator' = "close", NEW x \in Universe
                 PROVE  waiting[x] = 0 /\ exec[x] = None
      BY <1>1, <1>13, <1>22 DEF QuietAfterwards, signals
    <2>1. ASSUME waiting[x] # 0 \/ exec[x] # None PROVE FALSE
      <3>1. x \in Reached(graph, query)
        BY <2>1, StartedLater
      <3>2. pendingMap'[x] = FALSE
        BY <1>14, <3>1
      <3>3. Reported(x)
        BY <1>23, <3>2 DEF Reported
      <3> QED
        BY <1>2, <2>1, <3>3 DEF NotDoneYet
    <2> QED
      BY <2>1
  <1>26. NoPanic'
    BY <1>1 DEF NoPanic
  <1> QED
    BY <1>12, <1>16, <1>17, <1>18, <1>19, <1>20, <1>21, <1>24, <1>25, <1>26

LEMMA TimeoutStep ==
    ASSUME IInv, ~panic, Timeout PROVE IInv'
  <1> USE DEF IInv
  <1>1. /\ graph' = graph /\ query' = query /\ Universe' = Universe /\ Execution' = Execution
        /\ UNCHANGED <<problem, value, signals, exec, subscription, channel,
                       pendingMap, resultObjects, answer, panic>>
        /\ aggregator = "wait" /\ aggregator' = "close" /\ verdict' = Failed
    BY ProblemStays DEF Timeout
  <1>2. TypeOK' /\ Phases'
    BY <1>1 DEF TypeOK, Phases, signals
  <1>3. StartedInOrder' /\ ChildrenAreOwn' /\ AskedHaveKeys'
    BY <1>1, ProcessesStay
  <1>4. KeysAnnounced' /\ ChildrenAnnounced' /\ NotDoneYet' /\ QuietAfterwards'
    BY <1>1 DEF KeysAnnounced, ChildrenAnnounced, NotDoneYet, QuietAfterwards
  <1>5. OnlyReached' /\ ResultsOfDone' /\ NoPanic'
    BY <1>1 DEF OnlyReached, ResultsOfDone, NoPanic
  <1> QED
    BY <1>2, <1>3, <1>4, <1>5

LEMMA CloseStep ==
    ASSUME IInv, ~panic, Close \/ Remove PROVE IInv'
  <1> USE DEF IInv
  <1>1. /\ graph' = graph /\ query' = query /\ Universe' = Universe /\ Execution' = Execution
        /\ UNCHANGED <<problem, value, signals, exec, channel, pendingMap,
                       resultObjects, verdict, panic>>
        /\ aggregator \in {"close", "remove"} /\ aggregator' \in {"remove", "end"}
        /\ subscription' \in {"none", "closed"}
        /\ answer' = IF aggregator' = "end" THEN verdict ELSE answer
    BY ProblemStays DEF Close, Remove
  <1>2. TypeOK' /\ Phases'
    BY <1>1 DEF TypeOK, Phases, signals
  <1>3. StartedInOrder' /\ ChildrenAreOwn' /\ AskedHaveKeys'
    BY <1>1, ProcessesStay
  <1>4. KeysAnnounced' /\ ChildrenAnnounced' /\ NotDoneYet'
    BY <1>1 DEF KeysAnnounced, ChildrenAnnounced, NotDoneYet
  <1>5. QuietAfterwards'
    BY <1>1 DEF QuietAfterwards, Redelivered, signals
  <1>6. OnlyReached' /\ ResultsOfDone' /\ NoPanic'
    BY <1>1 DEF OnlyReached, ResultsOfDone, NoPanic
  <1> QED
    BY <1>2, <1>3, <1>4, <1>5, <1>6

LEMMA RootStep ==
    ASSUME IInv, ~panic, Root PROVE IInv'
  <1> USE DEF IInv
  <1>1. /\ graph' = graph /\ query' = query /\ Universe' = Universe /\ Execution' = Execution
        /\ UNCHANGED <<problem, exec, pendingMap, resultObjects, verdict, answer, panic>>
        /\ aggregator = "none" /\ aggregator' = "wait" /\ subscription' = "open"
        /\ value' = [value EXCEPT ![query] = "pending"]
        /\ channel' = <<<<query, "pending">>>> /\ Publish(query)
    BY ProblemStays DEF Root
  <1>2. query \in Universe /\ query \in Reached(graph, query)
    BY Processes
  <1>3. /\ \A x \in Universe : value[x] = None /\ pendingMap[x] = None
        /\ \A x \in Universe : delivered[x] = 0 /\ waiting[x] = 0 /\ exec[x] = None
    BY <1>1 DEF Phases, StartedInOrder
  <1>4. /\ delivered' \in [Universe -> 0 .. 2] /\ waiting' \in [Universe -> 0 .. 1]
        /\ \A x \in Universe \ {query} : delivered'[x] = delivered[x] /\ waiting'[x] = waiting[x]
        /\ delivered'[query] = 0 => waiting'[query] = 0
    BY <1>1, <1>2, <1>3, PublishStep
  <1>5. /\ value' \in [Universe -> {None, "pending", "done"}] /\ value'[query] # None
        /\ \A x \in Universe \ {query} : value'[x] = None
    BY <1>1, <1>2, <1>3, Processes DEF TypeOK
  <1>6. /\ channel' \in Seq(Universe \X {"pending", "done"}) /\ Len(channel') = 1
        /\ channel'[1][1] = query /\ channel'[1][2] = "pending" /\ channel' # <<>>
    BY <1>1, <1>2
  <1>7. TypeOK'
    BY <1>1, <1>4, <1>5, <1>6 DEF TypeOK
  <1>8. Phases'
    BY <1>1 DEF Phases
  <1>9. StartedInOrder' /\ ChildrenAreOwn' /\ AskedHaveKeys'
    BY <1>1, <1>3, <1>4, <1>5 DEF StartedInOrder, ChildrenAreOwn, AskedHaveKeys
  <1>10. KeysAnnounced'
    <2>1. \A c \in Universe : value'[c] # None => c = query
      BY <1>5
    <2>2. Announced(query)'
      BY <1>1, <1>6 DEF Announced, Told
    <2> QED
      BY <1>1, <2>1, <2>2 DEF KeysAnnounced
  <1>11. ChildrenAnnounced'
    <2>1. \A x \in Universe : pendingMap'[x] # FALSE
      BY <1>1, <1>3, Processes
    <2>2. \A i \in 1 .. Len(channel') : channel'[i][2] # "done"
      BY <1>6
    <2>3. \A x \in Universe : ~At(x, "sendDone")'
      BY <1>1, <1>3 DEF At
    <2> QED
      BY <1>1, <2>1, <2>2, <2>3 DEF ChildrenAnnounced
  <1>12. OnlyReached'
    BY <1>1, <1>2, <1>3, <1>5, <1>6 DEF OnlyReached
  <1>13. ResultsOfDone' /\ NoPanic'
    BY <1>1 DEF ResultsOfDone, NoPanic
  <1>14. NotDoneYet'
    <2>1. \A x \in Universe : pendingMap'[x] # FALSE
      BY <1>1, <1>3, Processes
    <2>2. \A i \in 1 .. Len(channel') : channel'[i][2] # "done"
      BY <1>6
    <2>3. \A x \in Universe : ~Reported(x)'
      BY <2>1, <2>2 DEF Reported
    <2> QED
      BY <1>1, <2>3 DEF NotDoneYet
  <1>15. QuietAfterwards'
    BY <1>1 DEF QuietAfterwards
  <1> QED
    BY <1>7, <1>8, <1>9, <1>10, <1>11, <1>12, <1>13, <1>14, <1>15

-----------------------------------------------------------------------------
(* The theorems *)

LEMMA Initially ==
    ASSUME Init PROVE IInv
  <1>1. TypeOK
    <2>1. channel \in Seq(Universe \X {"pending", "done"})
      BY EmptySeq DEF Init
    <2>2. delivered \in [Universe -> 0 .. 2] /\ waiting \in [Universe -> 0 .. 1]
      BY DEF Init
    <2> QED
      BY <2>1, <2>2 DEF Init, TypeOK
  <1>2. query \in Universe /\ None \notin BOOLEAN
    BY <1>1, Processes
  <1>3. /\ Phases /\ StartedInOrder /\ ChildrenAreOwn /\ AskedHaveKeys
        /\ KeysAnnounced /\ ChildrenAnnounced /\ NotDoneYet /\ QuietAfterwards /\ NoPanic
    BY DEF Init, Phases, StartedInOrder, ChildrenAreOwn, AskedHaveKeys, KeysAnnounced,
           ChildrenAnnounced, NotDoneYet, QuietAfterwards, NoPanic
  <1>4. OnlyReached
    BY DEF Init, OnlyReached
  <1>5. ResultsOfDone
    BY <1>2 DEF Init, ResultsOfDone
  <1> QED
    BY <1>1, <1>3, <1>4, <1>5 DEF IInv

LEMMA EveryStep ==
    ASSUME IInv, [Next]_vars PROVE IInv'
  <1>1. CASE Next
    <2>1. ~panic
      BY <1>1 DEF Next
    <2>2. CASE Root
      BY <2>1, <2>2, RootStep
    <2>3. ASSUME NEW p \in Universe, Handle(p) PROVE IInv'
      BY <2>1, <2>3, BeginStep, InitPendingStep, SendPendingStep, SignalStep, PutDoneStep,
         SendDoneStep DEF Handle
    <2>4. ASSUME NEW p \in Universe, Redeliver(p) PROVE IInv'
      BY <2>1, <2>4, RedeliverStep
    <2>5. CASE Aggregate
      BY <2>1, <2>5, ReceiveStep, CloseStep DEF Aggregate
    <2>6. CASE Timeout
      BY <2>1, <2>6, TimeoutStep
    <2> QED
      BY <1>1, <2>2, <2>3, <2>4, <2>5, <2>6 DEF Next
  <1>2. CASE UNCHANGED vars
    <2>1. /\ graph' = graph /\ query' = query /\ Universe' = Universe /\ Execution' = Execution
          /\ UNCHANGED <<problem, value, delivered, waiting, exec, subscription, channel, pendingMap,
                         resultObjects, aggregator, verdict, answer, panic>>
      BY <1>2, ProblemStays DEF vars, signals, aggregation
    <2>2. TypeOK' /\ Phases'
      BY <2>1 DEF IInv, TypeOK, Phases
    <2>3. StartedInOrder' /\ ChildrenAreOwn' /\ AskedHaveKeys'
      BY <2>1, ProcessesStay DEF signals
    <2>4. \A c, i : (Told(c, i)' <=> Told(c, i)) /\ (Announced(c)' <=> Announced(c)) /\ (Reported(c)' <=> Reported(c))
      BY <2>1, NothingTold
    <2>5. KeysAnnounced' /\ ChildrenAnnounced'
      BY <2>1, <2>4 DEF IInv, KeysAnnounced, ChildrenAnnounced, At
    <2>6. NotDoneYet' /\ QuietAfterwards'
      BY <2>1, <2>4 DEF IInv, NotDoneYet, QuietAfterwards, Redelivered
    <2>7. OnlyReached' /\ ResultsOfDone' /\ NoPanic'
      BY <2>1 DEF IInv, OnlyReached, ResultsOfDone, NoPanic
    <2> QED
      BY <2>2, <2>3, <2>5, <2>6, <2>7 DEF IInv
  <1> QED
    BY <1>1, <1>2

LEMMA Invariance == Spec => []IInv
  <1>1. Init => IInv
    BY Initially
  <1>2. IInv /\ [Next]_vars => IInv'
    BY EveryStep
  <1> QED
    BY <1>1, <1>2, PTL DEF Spec

\* The state of a query stays well typed: a process is started once, and once
\* more if its signal is delivered again.
THEOREM TypeCorrect == Spec => []TypeOK
  <1>1. IInv => TypeOK
    BY DEF IInv
  <1> QED
    BY <1>1, Invariance, PTL

\* Nobody sends on the channel of a query that has been answered, unless it
\* timed out or a signal was delivered twice.
THEOREM SendsBeforeTheEnd == Spec => []NoPanic
  <1>1. IInv => NoPanic
    BY DEF IInv
  <1> QED
    BY <1>1, Invariance, PTL

\* The operators of JPGQL are the same in both modules.
LEMMA SameResult ==
    ASSUME NEW g, NEW p PROVE Q!Result(g, p) = Result(g, p)
  <1>1. \A h, v, t, f : Q!Objects(h, v, t, f) = Objects(h, v, t, f)
    BY DEF Q!Objects, Objects
  <1>2. \A h, x : Q!Stops(h, x) = Stops(h, x) /\ Q!Passed(h, x) = Passed(h, x)
    BY <1>1 DEF Q!Stops, Stops, Q!Passed, Passed
  <1>3. \A h, x : Q!Found(h, x) = Found(h, x) /\ Q!Asked(h, x) = Asked(h, x)
    BY <1>2 DEF Q!Found, Found, Q!Asked, Asked
  <1>4. \A x : Q!Parts(x) = Parts(x)
    BY DEF Q!Parts, Parts
  <1>5. \A h, S : Q!Closed(h, S) <=> Closed(h, S)
    BY <1>3 DEF Q!Closed, Closed
  <1>6. Q!Reached(g, p) = Reached(g, p)
    BY <1>4, <1>5 DEF Q!Reached, Reached
  <1> QED
    BY <1>3, <1>6 DEF Q!Result, Result

\* The one answer is the exact result of the query on its graph, or a failure.
THEOREM AnswersExactly == Spec => ImplementsQuery
  <1>1. Init => Q!Init
    BY DEF Init, Q!Init
  <1>2. ASSUME IInv, [Next]_vars PROVE [Q!Answer]_<<graph, query, answer>>
    <2>1. CASE Remove
      <3>1. answer = None /\ answer' = verdict /\ verdict \in {Result(graph, query), Failed}
        BY <1>2, <2>1 DEF Remove, IInv, Phases
      <3>2. UNCHANGED <<graph, query>>
        BY <2>1 DEF Remove, problem
      <3> QED
        BY <3>1, <3>2, SameResult DEF Q!Answer
    <2>2. CASE [Next]_vars /\ ~Remove
      <3>1. UNCHANGED <<problem, answer>>
        BY <2>2 DEF Next, vars, Root, Handle, Begin, InitPending, SendPending, Signal, PutDone, SendDone,
                    Redeliver, Aggregate, Receive, Timeout, Close, aggregation
      <3> QED
        BY <3>1 DEF problem
    <2> QED
      BY <1>2, <2>1, <2>2
  <1> QED
    BY <1>1, <1>2, Invariance, PTL DEF Spec, ImplementsQuery, Q!Spec
=============================================================================
