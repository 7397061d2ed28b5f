--------------------------- MODULE ExecutionEngine ---------------------------
(***************************************************************************)
(* Runs of a query group (api/src/lib/orchestration/ExecutionEngine.ts):   *)
(* the order in which the nodes of its graph run, how data gets from one   *)
(* to the next - as a result, or through an ephemeral store both query -   *)
(* and how a run that its client or its deadline stops leaves a node       *)
(* behind that goes on by itself (lib/cancellation.ts).  Which graphs a    *)
(* run can be given is decided when they are built (GraphBuilder.ts).      *)
(*                                                                         *)
(* What a node produces is named by the run and the node: data are pairs   *)
(* <<run, node>>, and a result, a document or a table is not looked into.  *)
(* Nodes are numbered in the order in which the graph holds them.          *)
(***************************************************************************)
EXTENDS Integers, SequencesExt, FiniteSets

CONSTANTS
    N,            \* the number of nodes
    MaxRuns,      \* bound: runs of the graph
    StoreIds,     \* ephemeral stores, as the author of the graph named them
    Backend,      \* stands for a registered backend instead
    Graphs,       \* the graphs considered
    HasDeadline,  \* is SQLIB_EXECUTION_TIMEOUT_MS other than 0?
    MaxFailures   \* bound: errors thrown by nodes, and runs refused

Nodes == 1 .. N
Runs == 1 .. MaxRuns

\* A select yields a table, a construct a graph, a patch node two halves of a
\* patch (one value here), a rule set a graph.
Queries == {"select", "construct"}
Kinds == Queries \cup {"start", "end", "patch", "rules"}

\* An edge only orders two nodes, or carries a table, or a graph.
Flows == {"control", "table", "rdf"}

ASSUME EngineAssumption ==
    /\ N \in Nat /\ MaxRuns \in Nat /\ MaxFailures \in Nat
    /\ Backend \notin StoreIds
    /\ HasDeadline \in BOOLEAN
    /\ \A g \in Graphs :
          /\ g.kind \in [Nodes -> Kinds]
          /\ g.store \in [Nodes -> StoreIds \cup {Backend}]
          \* Only nodes that run a query have a backendConfig (QueryNode, PatchNode).
          /\ \A n \in Nodes : g.store[n] # Backend => g.kind[n] \in Queries \cup {"patch"}
          /\ g.edges \in Seq([from : Nodes, to : Nodes, flow : Flows])

VARIABLES
    graph,             \* it does not change
    pc,                \* run -> where its loop stands
    queue, indeg,      \* run -> the nodes to run next; node -> predecessors to come
    done,              \* run -> the nodes its loop is past
    aborted,           \* run -> has its signal fired?
    tracked,           \* run -> the stores it is going to destroy
    at, phase,         \* run -> the node that works for it, maybe abandoned, and how far it is
    results,           \* run -> the nodes whose result it has
    read,              \* run -> node -> the data it worked on
    stores, loaded,    \* the ephemeral stores that exist, and <<store, data>> in them
    begun,             \* history: run -> node -> how often it was begun
    failures

loop == <<pc, queue, indeg, done>>
work == <<at, phase>>
data == <<results, read>>
manager == <<stores, loaded>>
vars == <<graph, loop, aborted, tracked, work, data, manager, begun, failures>>

-----------------------------------------------------------------------------
(***************************************************************************)
(* The graph, and what GraphBuilder accepts.                               *)
(***************************************************************************)

Edges(g) == {g.edges[i] : i \in DOMAIN g.edges}
Into(g, n) == {e \in Edges(g) : e.to = n}
From(g, n) == {e \in Edges(g) : e.from = n}

\* Kahn's algorithm gets past every node: no nodes each wait for another of them.
Acyclic(g) ==
    \A S \in SUBSET Nodes \ {{}} : \E n \in S : \A e \in Into(g, n) : e.from \notin S

\* How a graph may reach a node that speaks SPARQL, and what a table may come from
\* and go to.  That the result of a select is no graph is not looked at.
EdgeAccepted(g, e) ==
    LET source == g.kind[e.from]
        target == g.kind[e.to]
    IN /\ e.flow = "rdf" /\ target \in Queries \cup {"patch"} =>
             IF source = "start" THEN g.store[e.to] # Backend
             ELSE source # "patch" /\ g.store[e.from] # Backend
       /\ e.flow = "table" => source \in {"start", "select"} /\ target # "rules"

Accepted(g) ==
    /\ Acyclic(g)
    /\ \E n \in Nodes : g.kind[n] \notin {"start", "end"}
    /\ \A e \in Edges(g) : EdgeAccepted(g, e)
    \* The graph has one end node.  It returns something: a table, or graphs.
    /\ \E n \in Nodes :
          /\ {m \in Nodes : g.kind[m] = "end"} = {n}
          /\ \E e \in Into(g, n) : e.flow # "control"
          /\ \A e, f \in Into(g, n) : e # f /\ e.flow # "control" /\ f.flow # "control"
                                          => g.kind[e.from] # "select"

Kind(n) == graph.kind[n]
Ephemeral(n) == graph.store[n] # Backend

\* A node that yields a graph loads it into its store if a node other than the
\* end node is to see it.
Materializes(n) ==
    /\ Ephemeral(n) /\ Kind(n) = "construct"
    /\ \E e \in From(graph, n) : e.flow = "rdf" /\ Kind(e.to) # "end"

\* Slip: the stores of a graph are called the same in all its runs.
StoreOf_Shared(r, n) == <<1, graph.store[n]>>

\* scopeEphemeralStores: a store belongs to one run.
StoreOf(r, n) == <<r, graph.store[n]>>

Ended(r) == pc[r] \in {"answered", "failed"}

-----------------------------------------------------------------------------
(***************************************************************************)
(* The loop (Kahn's algorithm).                                            *)
(***************************************************************************)

Arrows(n, m) == {i \in DOMAIN graph.edges : graph.edges[i].from = n /\ graph.edges[i].to = m}

\* Slip: a predecessor is counted once, however many edges come from it.
Indegrees_Distinct == [m \in Nodes |-> Cardinality({n \in Nodes : Arrows(n, m) # {}})]

Indegrees == [m \in Nodes |-> Cardinality({i \in DOMAIN graph.edges : graph.edges[i].to = m})]

Init ==
    /\ graph \in {g \in Graphs : Accepted(g)}
    /\ pc = [r \in Runs |-> "idle"]
    /\ queue = [r \in Runs |-> <<>>]
    /\ indeg = [r \in Runs |-> Indegrees]
    /\ done = [r \in Runs |-> {}]
    /\ aborted = [r \in Runs |-> FALSE]
    /\ tracked = [r \in Runs |-> {}]
    /\ at = [r \in Runs |-> 0]
    /\ phase = [r \in Runs |-> "none"]
    /\ results = [r \in Runs |-> {}]
    /\ read = [r \in Runs |-> [n \in Nodes |-> {}]]
    /\ stores = {} /\ loaded = {}
    /\ begun = [r \in Runs |-> [n \in Nodes |-> 0]]
    /\ failures = 0

\* Slip: a node is let go by the first of its predecessors.
Freed_First(r, n) == {m \in Nodes : Arrows(n, m) # {} /\ m \notin done[r]}

\* The nodes that wait for nothing else once n is done ...
Freed(r, n) == {m \in Nodes : Arrows(n, m) # {} /\ indeg[r][m] = Cardinality(Arrows(n, m))}

\* ... join the queue, each at the last of its edges from n.
Advance(r, n) ==
    \E s \in SetToSeqs(Freed(r, n)) :
       /\ \A j, k \in DOMAIN s : j < k =>
             \E i \in Arrows(n, s[k]) : \A h \in Arrows(n, s[j]) : h < i
       /\ queue' = [queue EXCEPT ![r] = Tail(@) \o s]
       /\ done' = [done EXCEPT ![r] = @ \cup {n}]
       /\ indeg' = [indeg EXCEPT ![r] = [m \in Nodes |-> @[m] - Cardinality(Arrows(n, m))]]

\* The stores of a run, and what is in them, go with it (finally).
Teardown(r) ==
    /\ stores' = stores \ tracked[r]
    /\ loaded' = {l \in loaded : l[1] \notin tracked[r]}

Execute(r) ==
    /\ pc[r] = "idle" /\ \A q \in 1 .. r - 1 : pc[q] # "idle"
    /\ pc' = [pc EXCEPT ![r] = "ready"]
    /\ \E s \in SetToSeqs({n \in Nodes : indeg[r][n] = 0}) :
          /\ \A j, k \in DOMAIN s : j < k => s[j] < s[k]
          /\ queue' = [queue EXCEPT ![r] = s]
    /\ UNCHANGED <<graph, indeg, done, aborted, tracked, work, data, manager, begun, failures>>

\* Arguments that no node takes, or a declared input that was not supplied.
Refuse(r) ==
    /\ \/ pc[r] = "idle" /\ \A q \in 1 .. r - 1 : pc[q] # "idle"
       \/ pc[r] = "ready" /\ queue[r] # <<>> /\ Kind(Head(queue[r])) = "start"
    /\ failures < MaxFailures
    /\ failures' = failures + 1
    /\ pc' = [pc EXCEPT ![r] = "failed"]
    /\ Teardown(r)
    /\ UNCHANGED <<graph, queue, indeg, done, aborted, tracked, work, data, begun>>

\* Start and end nodes run nothing.
Pass(r) ==
    /\ pc[r] = "ready" /\ queue[r] # <<>>
    /\ Kind(Head(queue[r])) \in {"start", "end"}
    /\ Advance(r, Head(queue[r]))
    /\ UNCHANGED <<graph, pc, aborted, tracked, work, data, manager, begun, failures>>

\* A run that was stopped fails at the node it would have run next.  Otherwise
\* the node's executor is made at once, and with it its store.
BeginNode(r) ==
    LET n == Head(queue[r]) IN
    /\ pc[r] = "ready" /\ queue[r] # <<>>
    /\ Kind(n) \notin {"start", "end"}
    /\ tracked' = [tracked EXCEPT ![r] = @ \cup {StoreOf(r, m) : m \in {m \in {n} : Ephemeral(m)}}]
    /\ IF aborted[r]
         THEN /\ pc' = [pc EXCEPT ![r] = "rejected"]
              /\ UNCHANGED <<work, stores, begun>>
         ELSE /\ pc' = [pc EXCEPT ![r] = "waiting"]
              /\ at' = [at EXCEPT ![r] = n]
              /\ phase' = [phase EXCEPT ![r] = IF Kind(n) \in Queries THEN "loading" ELSE "asking"]
              /\ stores' = IF Ephemeral(n) THEN stores \cup {StoreOf(r, n)} ELSE stores
              /\ begun' = [begun EXCEPT ![r][n] = @ + 1]
    /\ UNCHANGED <<graph, queue, indeg, done, aborted, data, loaded, failures>>

\* The node the run waits for has settled.
Resume(r) ==
    /\ pc[r] = "waiting" /\ phase[r] \in {"settled", "threw"}
    /\ IF phase[r] = "settled"
         THEN pc' = [pc EXCEPT ![r] = "ready"] /\ Advance(r, at[r])
         ELSE pc' = [pc EXCEPT ![r] = "rejected"] /\ UNCHANGED <<done, indeg, queue>>
    /\ UNCHANGED <<graph, aborted, tracked, work, data, manager, begun, failures>>

\* What an edge carries is there: a result, or what was supplied to the run.
Supplied(r, e) == e.from \in results[r] \/ Kind(e.from) = "start"

\* Nothing is left to run: the end node's inputs are collected.
Collect(r) ==
    /\ pc[r] = "ready" /\ queue[r] = <<>>
    /\ LET end == CHOOSE n \in Nodes : Kind(n) = "end"
       IN pc' = [pc EXCEPT ![r] =
                    IF \A e \in Into(graph, end) : e.flow # "control" => Supplied(r, e)
                      THEN "answered" ELSE "failed"]
    /\ Teardown(r)
    /\ UNCHANGED <<graph, queue, indeg, done, aborted, tracked, work, data, begun, failures>>

Fail(r) ==
    /\ pc[r] = "rejected"
    /\ pc' = [pc EXCEPT ![r] = "failed"]
    /\ Teardown(r)
    /\ UNCHANGED <<graph, queue, indeg, done, aborted, tracked, work, data, begun, failures>>

-----------------------------------------------------------------------------
(***************************************************************************)
(* The work of one node, which goes on when the run no longer waits.       *)
(***************************************************************************)

\* materializeRdfResult: a store that does not exist is an error, unless there
\* is nothing to load.
LoadInto(r, store, new, next) ==
    IF store \in stores \/ new = {}
      THEN /\ loaded' = loaded \cup ({store} \X new)
           /\ phase' = [phase EXCEPT ![r] = next]
      ELSE /\ phase' = [phase EXCEPT ![r] = "threw"]
           /\ UNCHANGED loaded

\* Graphs supplied to the run are loaded into the store of the node.
LoadSupplied(r) ==
    LET sent == {e \in Into(graph, at[r]) : e.flow = "rdf" /\ Kind(e.from) = "start"}
    IN /\ phase[r] = "loading"
       /\ LoadInto(r, StoreOf(r, at[r]), {<<r, e.from>> : e \in sent}, "asking")
       /\ UNCHANGED <<graph, loop, aborted, tracked, at, data, stores, begun, failures>>

\* What a node works on: the tables its edges carry and what is in its store, or
\* for rules the graphs its edges carry.  (An abandoned node still holds a store
\* that was destroyed; nobody sees what it makes of it.)
Inputs(r, n) ==
    LET carried(flow) == {<<r, e.from>> : e \in {f \in Into(graph, n) : f.flow = flow /\ Supplied(r, f)}}
        stored == {l[2] : l \in {k \in loaded : Ephemeral(n) /\ k[1] = StoreOf(r, n)}}
    IN CASE Kind(n) \in Queries -> carried("table") \cup stored
         [] Kind(n) = "patch" -> stored
         [] OTHER -> carried("rdf")

\* The query is run, the patch derived, or the rules applied.  A graph that is
\* not there, or is the table of a select, is an error of the rules.
Answer(r) ==
    LET n == at[r] IN
    /\ phase[r] = "asking"
    /\ IF Kind(n) = "rules" /\ \E e \in Into(graph, n) :
             e.flow = "rdf" /\ (~Supplied(r, e) \/ Kind(e.from) = "select")
         THEN phase' = [phase EXCEPT ![r] = "threw"] /\ UNCHANGED data
         ELSE /\ read' = [read EXCEPT ![r][n] = Inputs(r, n)]
              /\ results' = [results EXCEPT ![r] = @ \cup {n}]
              /\ phase' = [phase EXCEPT ![r] = IF Materializes(n) THEN "materializing" ELSE "settled"]
    /\ UNCHANGED <<graph, loop, aborted, tracked, at, manager, begun, failures>>

\* Slip: a store that is not there is made.
Materialize_Creates(r) ==
    /\ phase[r] = "materializing"
    /\ stores' = stores \cup {StoreOf(r, at[r])}
    /\ loaded' = loaded \cup {<<StoreOf(r, at[r]), <<r, at[r]>>>>}
    /\ phase' = [phase EXCEPT ![r] = "settled"]
    /\ UNCHANGED <<graph, loop, aborted, tracked, at, data, begun, failures>>

Materialize(r) ==
    /\ phase[r] = "materializing"
    /\ LoadInto(r, StoreOf(r, at[r]), {<<r, at[r]>>}, "settled")
    /\ UNCHANGED <<graph, loop, aborted, tracked, at, data, stores, begun, failures>>

NodeThrows(r) ==
    /\ phase[r] \in {"loading", "asking", "materializing"}
    /\ failures < MaxFailures
    /\ failures' = failures + 1
    /\ phase' = [phase EXCEPT ![r] = "threw"]
    /\ UNCHANGED <<graph, loop, aborted, tracked, at, data, manager, begun>>

\* Slip: the signal is looked at between nodes only.
Stop_Unraced(r) ==
    /\ pc[r] \in {"ready", "waiting"} /\ ~aborted[r]
    /\ aborted' = [aborted EXCEPT ![r] = TRUE]
    /\ UNCHANGED pc

\* The signal fires: a run that waits for a node stops waiting (raceAbort).
Stop(r) ==
    /\ pc[r] \in {"ready", "waiting"} /\ ~aborted[r]
    /\ aborted' = [aborted EXCEPT ![r] = TRUE]
    /\ pc' = IF pc[r] = "waiting" /\ phase[r] \notin {"settled", "threw"}
               THEN [pc EXCEPT ![r] = "rejected"] ELSE pc

ClientLeaves(r) ==
    /\ Stop(r)
    /\ UNCHANGED <<graph, queue, indeg, done, tracked, work, data, manager, begun, failures>>

DeadlinePasses(r) ==
    /\ HasDeadline
    /\ Stop(r)
    /\ UNCHANGED <<graph, queue, indeg, done, tracked, work, data, manager, begun, failures>>

-----------------------------------------------------------------------------
\* What the event loop does for a run that does not wait for a node.
LoopStep(r) == Pass(r) \/ BeginNode(r) \/ Resume(r) \/ Collect(r) \/ Fail(r)

NodeStep(r) == LoadSupplied(r) \/ Answer(r) \/ Materialize(r) \/ NodeThrows(r)

Next ==
    \E r \in Runs :
        \/ Execute(r) \/ Refuse(r)
        \/ LoopStep(r)
        \/ NodeStep(r)
        \/ ClientLeaves(r) \/ DeadlinePasses(r)

Spec == Init /\ [][Next]_vars

\* The loop goes on and timers fire.  A node may never settle.
FairSpec == Spec /\ \A r \in Runs : WF_vars(LoopStep(r)) /\ WF_vars(DeadlinePasses(r))

-----------------------------------------------------------------------------
(***************************************************************************)
(* Properties.                                                             *)
(***************************************************************************)

\* Every variable keeps its range.  No node is begun twice in a run, and none
\* waits for fewer than no predecessors, parallel edges or not.
TypeOK ==
    /\ pc \in [Runs -> {"idle", "ready", "waiting", "rejected", "answered", "failed"}]
    /\ queue \in [Runs -> Seq(Nodes)]
    /\ indeg \in [Runs -> [Nodes -> Nat]]
    /\ done \in [Runs -> SUBSET Nodes]
    /\ aborted \in [Runs -> BOOLEAN]
    /\ tracked \in [Runs -> SUBSET (Runs \X StoreIds)]
    /\ at \in [Runs -> Nodes \cup {0}]
    /\ phase \in [Runs -> {"none", "loading", "asking", "materializing", "settled", "threw"}]
    /\ results \in [Runs -> SUBSET Nodes]
    /\ read \in [Runs -> [Nodes -> SUBSET (Runs \X Nodes)]]
    /\ stores \subseteq Runs \X StoreIds
    /\ loaded \subseteq stores \X (Runs \X Nodes)
    /\ begun \in [Runs -> [Nodes -> 0 .. 1]]
    /\ failures \in 0 .. MaxFailures

\* An edge brings its data to its target.  GraphBuilder accepts four kinds that do
\* not: a graph sent to a node that queries another store than its source loads;
\* the "graph" of a select, which loads none; a graph supplied to the run and sent
\* to a patch node, which takes none; and a table sent to a patch node, which has
\* no arguments.
Delivers(e) ==
    /\ e.flow # "control"
    /\ e.flow = "rdf" /\ Kind(e.to) \in Queries \cup {"patch"} =>
          IF Kind(e.from) = "start" THEN Kind(e.to) # "patch"
          ELSE Kind(e.from) # "select" /\ graph.store[e.from] = graph.store[e.to]
    /\ e.flow = "table" => Kind(e.to) \in Queries

\* A run that answers has run every node, and each had all the data the edges
\* that deliver bring it: a table or a graph that is not there yet is skipped in silence by
\* the nodes that query (buildArgumentSetsForNode), so only the order sees to it.
AnswersAreWhole ==
    \A r \in Runs : pc[r] = "answered" =>
        /\ done[r] = Nodes
        /\ \A n \in results[r] : \A e \in Into(graph, n) :
              Delivers(e) => <<r, e.from>> \in read[r][n]

\* Runs of one graph that overlap share no data: "across runs nothing is shared"
\* (scopeEphemeralStores).
RunsAreSeparate ==
    \A r \in Runs : \A n \in Nodes : \A d \in read[r][n] : d[1] = r

\* A run that ended leaves no store behind, nor does the node it no longer waits
\* for make one: stores are "destroyed with it" (ExecutorFactory.ts:110-112).
StoresAreGone ==
    \A r \in Runs : Ended(r) => \A s \in stores : s[1] # r

\* With a deadline every run ends, also when the node it waits for never does.
EveryRunEnds ==
    \A r \in Runs : HasDeadline /\ pc[r] = "ready" ~> Ended(r)

\* What GraphBuilder.ts:501-508 says of the graphs it accepts: RDF sent to a node
\* that speaks SPARQL reaches it, and where it would not the edge is refused.
SentGraphsArrive ==
    \A r \in Runs : \A n \in results[r] : \A e \in Into(graph, n) :
        e.flow = "rdf" /\ n \in done[r] => <<r, e.from>> \in read[r][n]

=============================================================================
