------------------------------ MODULE SerialGraph ------------------------------
(***************************************************************************)
(* What one blob per graph promises its writers, whatever they do between  *)
(* reading it and writing it back: the graph is changed one update at a    *)
(* time, each run against the graph as the last one left it, and a writer  *)
(* that keeps the graph in a store of its own writes it back only over     *)
(* what it wrote before.                                                   *)
(***************************************************************************)
EXTENDS RdfDelta

CONSTANTS
    Writers,        \* callers of rebaseAndRetry, each with one update
    Checkpointers,  \* callers of checkpointGraph, each with its own store
    Update,         \* [Writers -> Operations]
    InGraph,        \* the quads of the graph the blob holds
    Absent          \* there is no blob

GraphBody == SUBSET InGraph
Content(g) == IF g = Absent THEN {} ELSE g

VARIABLES
    graph,    \* what the blob holds, or Absent
    landed,   \* the writers whose update is in it
    basis     \* what each checkpointer believes is there, or Absent

vars == <<graph, landed, basis>>

Init ==
    /\ graph = Absent
    /\ landed = {}
    /\ basis = [c \in Checkpointers |-> Absent]

\* An update takes effect, once, on what is there; a missing graph is created.
Land(w) ==
    /\ w \notin landed
    /\ graph' = Execute(Update[w], Content(graph)) \cap InGraph
    /\ landed' = landed \cup {w}
    /\ UNCHANGED basis

\* A checkpointer replaces what it last wrote, and nothing else, by its store;
\* it may not learn that it did, or not under which token.
Publish(c) ==
    /\ basis[c] = graph
    /\ \E g \in GraphBody : graph' = g
    /\ basis' \in {[basis EXCEPT ![c] = b] : b \in {graph', Absent, basis[c]}}
    /\ UNCHANGED landed

\* Somebody deletes the blob.
Remove ==
    /\ graph # Absent
    /\ graph' = Absent
    /\ UNCHANGED <<landed, basis>>

Next ==
    \/ \E w \in Writers : Land(w)
    \/ \E c \in Checkpointers : Publish(c)
    \/ Remove

Spec == Init /\ [][Next]_vars

=============================================================================
