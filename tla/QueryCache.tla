----------------------------- MODULE QueryCache -----------------------------
(***************************************************************************)
(* Evaluation of a query with direct cache result aggregation              *)
(* (embedded/graph/jpgql/jpgql.go).  Each process of the query has a key   *)
(* in the cache: pending, then what it found.  A goroutine subscribed to   *)
(* these keys answers when every process it has heard of is done.          *)
(*                                                                         *)
(* A process is started by a signal from whoever made its key; its         *)
(* executions, which redelivery may repeat, are one after the other (its   *)
(* id is its own).  Writers of the cache load the subscriber's channel     *)
(* first and send to it then.  The graph does not change during a query.   *)
(***************************************************************************)
EXTENDS JPGQL

CONSTANTS
    Graphs,
    Queries,
    None,
    Failed,         \* the answer to a query that timed out
    Failures,       \* of "lost" (signals), "redelivery", "timeout"
    MaxRedelivered  \* bound: signals that are delivered once more

ASSUME GraphsAreGraphs == \A g \in Graphs : g \subseteq Link
ASSUME QueriesAreProcesses == Queries \subseteq Process
ASSUME MaxRedeliveredIsNat == MaxRedelivered \in Nat
ASSUME NoneIsNothingElse ==
    /\ None \notin {"pending", "done"} /\ None \notin BOOLEAN /\ None \notin Process
    /\ None \notin [at : {"next", "sendPending", "signal", "sendDone"},
                    todo : SUBSET Process, child : Process \cup {None}]

VARIABLES
    graph,
    query,          \* the first process
    value,          \* key of each process in the cache: None, "pending" or "done"
    delivered,      \* deliveries of its signal; 0 before it is sent
    waiting,        \* deliveries that wait in the channel of its id
    exec,           \* its execution: [at, todo, child], or None
    subscription,   \* in notifyUpdates: "none", "open" or "closed"
    channel,        \* notifications: <<process, "pending" or "done">>
    pendingMap,     \* of the aggregating goroutine: None, TRUE or FALSE
    resultObjects,
    aggregator,     \* where it is
    verdict,        \* what it is going to answer
    answer,
    panic           \* somebody sent on a closed channel

problem == <<graph, query>>
signals == <<delivered, waiting>>
aggregation == <<pendingMap, resultObjects, aggregator, verdict, answer>>
vars == <<problem, value, signals, exec, subscription, channel, aggregation, panic>>

Universe == Parts(query)

Init ==
    /\ graph \in Graphs /\ query \in Queries
    /\ value = [p \in Universe |-> None]
    /\ delivered = [p \in Universe |-> 0]
    /\ waiting = [p \in Universe |-> 0]
    /\ exec = [p \in Universe |-> None]
    /\ subscription = "none" /\ channel = <<>>
    /\ pendingMap = [p \in Universe |-> None]
    /\ resultObjects = {}
    /\ aggregator = "none" /\ verdict = None /\ answer = None
    /\ panic = FALSE

-----------------------------------------------------------------------------
(* Signals: published by a goroutine of their own, which only logs an error *)

Publish(p) ==
    \/ /\ delivered' = [delivered EXCEPT ![p] = @ + 1]
       /\ waiting' = [waiting EXCEPT ![p] = @ + 1]
    \/ "lost" \in Failures /\ UNCHANGED signals

\* AckWait has passed, or the ack was lost.  While the signal was being
\* executed the second delivery waited.
Redeliver(p) ==
    /\ "redelivery" \in Failures /\ delivered[p] = 1
    /\ waiting[p] = 0 /\ exec[p] = None
    /\ Cardinality({x \in Universe : delivered[x] > 1}) < MaxRedelivered
    /\ delivered' = [delivered EXCEPT ![p] = @ + 1]
    /\ waiting' = [waiting EXCEPT ![p] = @ + 1]
    /\ UNCHANGED <<problem, value, exec, subscription, channel, aggregation, panic>>

-----------------------------------------------------------------------------
(* The call of the function with a plain id *)

Root ==
    /\ aggregator = "none"
    /\ subscription' = "open"
    /\ aggregator' = "wait"
    /\ value' = [value EXCEPT ![query] = "pending"]
    /\ channel' = <<<<query, "pending">>>>
    /\ Publish(query)
    /\ UNCHANGED <<problem, exec, pendingMap, resultObjects, verdict, answer, panic>>

-----------------------------------------------------------------------------
(* The call with a composite id: the execution of a process *)

At(p, l) == exec[p] # None /\ exec[p].at = l

Begin(p) ==
    /\ waiting[p] > 0 /\ exec[p] = None
    /\ waiting' = [waiting EXCEPT ![p] = @ - 1]
    /\ exec' = [exec EXCEPT ![p] =
           [at |-> "next", todo |-> Asked(graph, p), child |-> None]]
    /\ UNCHANGED <<problem, value, delivered, subscription, channel, aggregation, panic>>

\* SetValueIfDoesNotExist keeps the parent of the keys locked while it sends.
ParentFree == \A p \in Universe : ~At(p, "sendPending")

Subscribed == subscription \in {"open", "closed"}

Exists(c) == value[c] # None

\* Mutant: a new key is not announced to the subscriber.
Quietly == "signal"

AfterInit == IF Subscribed THEN "sendPending" ELSE "signal"

\* initPendingProcess: whoever makes the key starts the process.
InitPending(p) ==
    /\ At(p, "next") /\ ParentFree
    /\ \E c \in exec[p].todo :
        \/ /\ ~Exists(c)
           /\ value' = [value EXCEPT ![c] = "pending"]
           /\ exec' = [exec EXCEPT ![p] =
                  [at |-> AfterInit, todo |-> exec[p].todo \ {c}, child |-> c]]
        \/ /\ Exists(c)
           /\ exec' = [exec EXCEPT ![p].todo = @ \ {c}]
           /\ UNCHANGED value
    /\ UNCHANGED <<problem, signals, subscription, channel, aggregation, panic>>

\* notifySubscriber
Notify(n) ==
    IF subscription = "open" THEN channel' = Append(channel, n) /\ UNCHANGED panic
    ELSE panic' = TRUE /\ UNCHANGED channel

SendPending(p) ==
    /\ At(p, "sendPending")
    /\ Notify(<<exec[p].child, "pending">>)
    /\ exec' = [exec EXCEPT ![p].at = "signal"]
    /\ UNCHANGED <<problem, value, signals, subscription, aggregation>>

Signal(p) ==
    /\ At(p, "signal")
    /\ Publish(exec[p].child)
    /\ exec' = [exec EXCEPT ![p].at = "next", ![p].child = None]
    /\ UNCHANGED <<problem, value, subscription, channel, aggregation, panic>>

\* thisPendingDone stores what the process found.
PutDone(p) ==
    /\ At(p, "next") /\ exec[p].todo = {} /\ ParentFree
    /\ value' = [value EXCEPT ![p] = "done"]
    /\ exec' = [exec EXCEPT ![p] = IF Subscribed THEN [@ EXCEPT !.at = "sendDone"] ELSE None]
    /\ UNCHANGED <<problem, signals, subscription, channel, aggregation, panic>>

SendDone(p) ==
    /\ At(p, "sendDone")
    /\ Notify(<<p, "done">>)
    /\ exec' = [exec EXCEPT ![p] = None]
    /\ UNCHANGED <<problem, value, signals, subscription, aggregation>>

-----------------------------------------------------------------------------
(* The aggregating goroutine *)

\* Mutant: what found nothing counts as pending.
IsShort(n) == n[2] = "pending" \/ Found(graph, n[1]) = {}

IsPending(n) == n[2] = "pending"

\* Mutant: the first process that is done ends the query.
FirstDone(m) == TRUE

AllDone(m) == \A p \in Universe : m[p] # TRUE

\* The keys are then deleted by their last tokens, which deletes nothing.
Receive ==
    LET p == Head(channel)[1] IN
    /\ aggregator = "wait" /\ channel # <<>>
    /\ channel' = Tail(channel)
    /\ IF IsPending(Head(channel))
       THEN /\ pendingMap' = [pendingMap EXCEPT ![p] = IF @ = None THEN TRUE ELSE @]
            /\ UNCHANGED <<resultObjects, aggregator, verdict>>
       ELSE /\ pendingMap' = [pendingMap EXCEPT ![p] = FALSE]
            /\ resultObjects' = resultObjects \cup Found(graph, p)
            /\ IF AllDone(pendingMap')
               THEN aggregator' = "close" /\ verdict' = resultObjects'
               ELSE UNCHANGED <<aggregator, verdict>>
    /\ UNCHANGED <<problem, value, signals, exec, subscription, answer, panic>>

Timeout ==
    /\ "timeout" \in Failures /\ aggregator = "wait"
    /\ aggregator' = "close" /\ verdict' = Failed
    /\ UNCHANGED <<problem, value, signals, exec, subscription, channel,
                   pendingMap, resultObjects, answer, panic>>

\* UnsubscribeLevelCallback closes the channel and removes it then.
Close ==
    /\ aggregator = "close"
    /\ subscription' = "closed" /\ aggregator' = "remove"
    /\ UNCHANGED <<problem, value, signals, exec, channel, pendingMap,
                   resultObjects, verdict, answer, panic>>

Remove ==
    /\ aggregator = "remove"
    /\ subscription' = "none" /\ aggregator' = "end" /\ answer' = verdict
    /\ UNCHANGED <<problem, value, signals, exec, channel, pendingMap,
                   resultObjects, verdict, panic>>

-----------------------------------------------------------------------------
Handle(p) ==
    \/ Begin(p) \/ InitPending(p) \/ SendPending(p) \/ Signal(p)
    \/ PutDone(p) \/ SendDone(p)

Aggregate == Receive \/ Close \/ Remove

\* A panic ends the process.
Next ==
    /\ ~panic
    /\ \/ Root
       \/ \E p \in Universe : Handle(p) \/ Redeliver(p)
       \/ Aggregate
       \/ Timeout

Spec == Init /\ [][Next]_vars

AllProcesses == UNION {Parts(q) : q \in Queries}

\* Handlers and the aggregating goroutine keep running.
FairSpec ==
    /\ Spec
    /\ \A p \in AllProcesses : WF_vars(~panic /\ p \in Universe /\ Handle(p))
    /\ WF_vars(~panic /\ Aggregate)

-----------------------------------------------------------------------------
(* Properties *)

Execution == [at : {"next", "sendPending", "signal", "sendDone"},
              todo : SUBSET Universe, child : Universe \cup {None}]

TypeOK ==
    /\ graph \in Graphs /\ query \in Queries
    /\ value \in [Universe -> {None, "pending", "done"}]
    /\ delivered \in [Universe -> 0 .. 2]
    /\ waiting \in [Universe -> 0 .. 1]
    /\ exec \in [Universe -> Execution \cup {None}]
    /\ subscription \in {"none", "open", "closed"}
    /\ channel \in Seq(Universe \X {"pending", "done"})
    /\ pendingMap \in [Universe -> BOOLEAN \cup {None}]
    /\ resultObjects \subseteq Vertex
    /\ aggregator \in {"none", "wait", "close", "remove", "end"}
    /\ verdict \in {None, Failed} \cup SUBSET Vertex
    /\ answer \in {None, Failed} \cup SUBSET Vertex
    /\ panic \in BOOLEAN

\* The query is answered once, with exactly its result or a failure.
Q == INSTANCE Query
ImplementsQuery == Q!Spec

\* Nobody sends on the closed channel of a query, unless it timed out or a
\* signal was delivered twice.
NoPanic == panic => verdict = Failed \/ \E p \in Universe : delivered[p] > 1

\* A query ends, cycles in the graph or not, unless a signal was lost.
Lost(p) ==
    /\ value[p] = "pending" /\ delivered[p] = 0
    /\ \A x \in Universe : exec[x] # None => exec[x].child # p

QueryEnds ==
    aggregator # "none" ~>
        answer # None \/ panic \/ \E p \in Universe : Lost(p)
=============================================================================
