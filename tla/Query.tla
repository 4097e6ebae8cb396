------------------------------- MODULE Query -------------------------------
(***************************************************************************)
(* What the functions that evaluate JPGQL queries promise: one answer,     *)
(* which is the result of the query on the graph, or a failure.            *)
(***************************************************************************)
EXTENDS JPGQL

CONSTANTS Graphs, Queries, None, Failed

VARIABLES
    graph,
    query,          \* the vertex that is asked and the query
    answer

Init == graph \in Graphs /\ query \in Queries /\ answer = None

Answer ==
    /\ answer = None
    /\ answer' \in {Result(graph, query), Failed}
    /\ UNCHANGED <<graph, query>>

Spec == Init /\ [][Answer]_<<graph, query, answer>>
=============================================================================
