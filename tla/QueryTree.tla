----------------------------- MODULE QueryTree -----------------------------
(***************************************************************************)
(* Evaluation of a query with call-tree result aggregation                 *)
(* (embedded/graph/jpgql/jpgql.go).  A process asks others by signals and  *)
(* counts their replies in the context of its object; when it has them all *)
(* it replies to the process that asked it.                                *)
(*                                                                         *)
(* The id of a function is the object and the query, so that the signals   *)
(* to an object are handled one after the other, and only they access its  *)
(* context: handling a signal is one step.  The graph does not change      *)
(* during a query.                                                         *)
(***************************************************************************)
EXTENDS JPGQL

CONSTANTS
    Graphs,
    Queries,
    None,
    Failed,         \* the answer to a query that timed out
    Failures        \* of "lost" (signals), "timeout"

ASSUME GraphsAreGraphs == \A g \in Graphs : g \subseteq Link
ASSUME QueriesAreProcesses == Queries \subseteq Process
ASSUME VerticesAreFinite == IsFiniteSet(Vertex)
ASSUME NoneIsNothingElse ==
    /\ None \notin Process /\ \A result \in SUBSET Vertex : None # result
    /\ None \notin [callbacks : Nat, result : SUBSET Vertex, from : Process \cup {None}]

VARIABLES
    graph,
    query,          \* the first process
    signals,        \* signals under way
    lost,           \* signals that were not published
    context,        \* of each process: what it waits for, or None
    channel,        \* results the subscriber is notified of
    aggregator,     \* where the aggregating goroutine is
    answer

problem == <<graph, query>>
vars == <<problem, signals, lost, context, channel, aggregator, answer>>

Universe == Parts(query)

\* A query, or the result of one.  from is None in the query of the caller.
Query(p, from) == [to |-> p, from |-> from, result |-> None]
ResultOf(p, to, result) == [to |-> to, from |-> p, result |-> result]

Init ==
    /\ graph \in Graphs /\ query \in Queries
    /\ signals = {} /\ lost = {}
    /\ context = [p \in Universe |-> None]
    /\ channel = <<>>
    /\ aggregator = "none" /\ answer = None

-----------------------------------------------------------------------------
(* Signals are published by goroutines, which only log an error *)

\* The signal s is handled and others are sent.
Handled(s, out) ==
    \E failed \in IF "lost" \in Failures THEN SUBSET out ELSE {{}} :
        /\ signals' = (signals \ {s}) \cup (out \ failed)
        /\ lost' = lost \cup failed

-----------------------------------------------------------------------------
(* The call of the function with a plain id: it signals the first process *)
(* and subscribes to the key of the result then.                          *)

Root ==
    /\ aggregator = "none"
    /\ aggregator' = "signalled"
    /\ Handled(None, {Query(query, None)})
    /\ UNCHANGED <<problem, context, channel, answer>>

Subscribe ==
    /\ aggregator = "signalled"
    /\ aggregator' = "wait"
    /\ UNCHANGED <<problem, signals, lost, context, channel, answer>>

-----------------------------------------------------------------------------
(* The call with a composite id *)

\* replyCaller: a signal to the process that asked, or the key of the result.
Reply(s, p, from, result) ==
    IF from # None THEN Handled(s, {ResultOf(p, from, result)}) /\ UNCHANGED channel
    ELSE /\ Handled(s, {})
         /\ channel' = IF aggregator = "wait" THEN Append(channel, result) ELSE channel

\* Mutant: a process evaluates a query again that it waits for already.
NeverRegistered(p) == FALSE

Registered(p) == context[p] # None

\* replyCallerPreventSameQueryCall
SameQueryReply(s) == IF s.from = None THEN {} ELSE {ResultOf(s.to, s.from, {})}

HandleAgain(s) ==
    /\ s.result = None /\ Registered(s.to)
    /\ Handled(s, SameQueryReply(s))
    /\ UNCHANGED <<problem, context, channel, aggregator, answer>>

\* Nobody has to be asked.
HandleLeaf(s) ==
    /\ s.result = None /\ ~Registered(s.to) /\ Asked(graph, s.to) = {}
    /\ Reply(s, s.to, s.from, Found(graph, s.to))
    /\ UNCHANGED <<problem, context, aggregator, answer>>

\* Mutant: objects that are results are counted as well.
AllObjects(p) == Cardinality(Asked(graph, p)) + Cardinality(Found(graph, p))

NextCalls(p) == Cardinality(Asked(graph, p))

\* Mutant: the results of others replace what the process found.
NoImmediate(p) == {}

Immediate(p) == Found(graph, p)

HandleQuery(s) ==
    /\ s.result = None /\ ~Registered(s.to) /\ Asked(graph, s.to) # {}
    /\ context' = [context EXCEPT ![s.to] =
           [callbacks |-> NextCalls(s.to), result |-> Immediate(s.to), from |-> s.from]]
    /\ Handled(s, {Query(p, s.to) : p \in Asked(graph, s.to)})
    /\ UNCHANGED <<problem, channel, aggregator, answer>>

IsLast(callbacks) == callbacks = 1

HandleResult(s) ==
    LET p == s.to  total == context[p].result \cup s.result IN
    /\ s.result # None
    /\ IF context[p] = None             \* no valid callbacks counter
       THEN Handled(s, {}) /\ UNCHANGED <<context, channel>>
       ELSE IF IsLast(context[p].callbacks)
       THEN /\ context' = [context EXCEPT ![p] = None]
            /\ Reply(s, p, context[p].from, total)
       ELSE /\ context' = [context EXCEPT ![p].callbacks = @ - 1, ![p].result = total]
            /\ Handled(s, {}) /\ UNCHANGED channel
    /\ UNCHANGED <<problem, aggregator, answer>>

-----------------------------------------------------------------------------
(* The aggregating goroutine *)

Receive ==
    /\ aggregator = "wait" /\ channel # <<>>
    /\ aggregator' = "end" /\ answer' = Head(channel)
    /\ UNCHANGED <<problem, signals, lost, context, channel>>

Timeout ==
    /\ "timeout" \in Failures /\ aggregator = "wait"
    /\ aggregator' = "end" /\ answer' = Failed
    /\ UNCHANGED <<problem, signals, lost, context, channel>>

-----------------------------------------------------------------------------
Handle(s) == HandleAgain(s) \/ HandleLeaf(s) \/ HandleQuery(s) \/ HandleResult(s)

Aggregate == Subscribe \/ Receive

Next ==
    \/ Root
    \/ \E s \in signals : Handle(s)
    \/ Aggregate
    \/ Timeout

Spec == Init /\ [][Next]_vars

\* Signals are delivered, and the aggregating goroutine keeps running.
FairSpec ==
    /\ Spec
    /\ WF_vars(\E s \in signals : Handle(s))
    /\ WF_vars(Aggregate)

-----------------------------------------------------------------------------
(* Properties *)

Waiting == [callbacks : Nat \ {0}, result : SUBSET Vertex, from : Universe \cup {None}]

TypeOK ==
    /\ graph \in Graphs /\ query \in Queries
    /\ signals \cup lost \subseteq [to : Universe, from : Universe \cup {None},
                                    result : (SUBSET Vertex) \cup {None}]
    /\ context \in [Universe -> Waiting \cup {None}]
    /\ channel \in Seq(SUBSET Vertex)
    /\ aggregator \in {"none", "signalled", "wait", "end"}
    /\ answer \in {None, Failed} \cup SUBSET Vertex

\* The query is answered once, with exactly its result or a failure.
Q == INSTANCE Query
ImplementsQuery == Q!Spec

\* The result is what the documentation of the language says.
AnswerHasMeaning ==
    answer \notin {None, Failed} => answer = Meaning(graph, query)

\* The counter of a process is the number of processes that it has asked and
\* that have not replied: their queries and results are under way or lost, or
\* they wait themselves.
CountersMatch ==
    \A p \in Universe : context[p] # None =>
        context[p].callbacks =
            Cardinality({s \in signals \cup lost : s.result = None /\ s.from = p})
            + Cardinality({s \in signals \cup lost : s.result # None /\ s.to = p})
            + Cardinality({x \in Universe : context[x] # None /\ context[x].from = p})

\* A query ends, cycles in the graph or not, when nothing is lost and somebody
\* has subscribed to the result before it is stored.
NotReplied == Query(query, None) \in signals \/ context[query] # None

QueryEnds ==
    (aggregator = "wait" /\ NotReplied) ~> answer # None \/ lost # {}
=============================================================================
