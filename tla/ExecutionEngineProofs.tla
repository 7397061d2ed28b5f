------------------------ MODULE ExecutionEngineProofs ------------------------
(***************************************************************************)
(* Runs of a query group (ExecutionEngine.tla), for any graphs that are    *)
(* accepted and any number of runs.  First their stores: they hold data of *)
(* one run alone, and none is left when it has ended, although nodes go on *)
(* when their run has stopped.  Then the order in which nodes run, and     *)
(* what that order is for: a run that answers had all its data.            *)
(***************************************************************************)
EXTENDS ExecutionEngine, FiniteSetTheorems, SequenceTheorems, TLAPS

-----------------------------------------------------------------------------
(***************************************************************************)
(* The inductive invariant.  A store is only ever made while its run goes  *)
(* on, together with the note that the run is to destroy it; and what is   *)
(* put into it, maybe by a node nobody waits for, is of its run.           *)
(***************************************************************************)

Domains ==
    /\ pc \in [Runs -> {"idle", "ready", "waiting", "rejected", "answered", "failed"}]
    /\ DOMAIN tracked = Runs /\ DOMAIN read = Runs
    /\ \A r \in Runs : DOMAIN read[r] = Nodes

StoresAreTracked ==
    /\ \A s \in stores : s[1] \in Runs /\ s \in tracked[s[1]] /\ ~Ended(s[1])
    /\ \A r \in Runs : \A s \in tracked[r] : s[1] = r

LoadedIsOwn == \A l \in loaded : l[2][1] = l[1][1]

IInv == Domains /\ StoresAreTracked /\ LoadedIsOwn /\ RunsAreSeparate

-----------------------------------------------------------------------------
\* Tearing a run down takes its stores, and no others.
LEMMA TeardownTakesTheRunsStores ==
    ASSUME Domains, StoresAreTracked, NEW r \in Runs, Teardown(r), tracked' = tracked,
           NEW x \in {"answered", "failed"}, pc' = [pc EXCEPT ![r] = x]
    PROVE  StoresAreTracked'
<1>1. ASSUME NEW s \in stores'
      PROVE  s[1] \in Runs /\ s \in tracked'[s[1]] /\ ~Ended(s[1])'
  <2>1. s \in stores /\ s \notin tracked[r]
      BY DEF Teardown
  <2>2. s[1] \in Runs /\ s \in tracked[s[1]] /\ ~Ended(s[1]) /\ s[1] # r
      BY <2>1 DEF StoresAreTracked
  <2>3. pc'[s[1]] = pc[s[1]]
      BY <2>2 DEF Domains
  <2> QED
      BY <2>2, <2>3 DEF Ended
<1> QED
    BY <1>1 DEF StoresAreTracked

LEMMA DomainsStep ==
    ASSUME Domains, Next
    PROVE  Domains'
<1> USE DEF Domains, loop, work, data, manager
<1>1. ASSUME NEW r \in Runs, Execute(r) \/ Refuse(r)
      PROVE  Domains'
    BY <1>1 DEF Execute, Refuse
<1>2. ASSUME NEW r \in Runs, LoopStep(r)
      PROVE  Domains'
    BY <1>2 DEF LoopStep, Pass, BeginNode, Resume, Collect, Fail
<1>3. ASSUME NEW r \in Runs, LoadSupplied(r) \/ Materialize(r) \/ NodeThrows(r)
      PROVE  Domains'
    BY <1>3 DEF LoadSupplied, Materialize, NodeThrows
<1>4. ASSUME NEW r \in Runs, Answer(r)
      PROVE  Domains'
    BY <1>4 DEF Answer
<1>5. ASSUME NEW r \in Runs, ClientLeaves(r) \/ DeadlinePasses(r)
      PROVE  Domains'
    BY <1>5 DEF ClientLeaves, DeadlinePasses, Stop
<1> QED
    BY <1>1, <1>2, <1>3, <1>4, <1>5 DEF Next, NodeStep

LEMMA StoresStep ==
    ASSUME Domains, StoresAreTracked, Next
    PROVE  StoresAreTracked'
<1> USE DEF loop, work, data, manager
<1>1. ASSUME NEW r \in Runs, Refuse(r) \/ Collect(r) \/ Fail(r)
      PROVE  StoresAreTracked'
  <2>1. Teardown(r) /\ tracked' = tracked
      BY <1>1 DEF Refuse, Collect, Fail
  <2>2. PICK x \in {"answered", "failed"} : pc' = [pc EXCEPT ![r] = x]
      BY <1>1 DEF Refuse, Collect, Fail
  <2> QED
      BY <2>1, <2>2, TeardownTakesTheRunsStores
<1>2. ASSUME NEW r \in Runs, BeginNode(r)
      PROVE  StoresAreTracked'
  <2> DEFINE own == {StoreOf(r, m) : m \in {m \in {Head(queue[r])} : Ephemeral(m)}}
  <2>1. /\ tracked' = [tracked EXCEPT ![r] = @ \cup own]
        /\ pc[r] = "ready" /\ pc' \in {[pc EXCEPT ![r] = "rejected"], [pc EXCEPT ![r] = "waiting"]}
      BY <1>2 DEF BeginNode
  <2>2. stores' \subseteq stores \cup own
      BY <1>2 DEF BeginNode
  <2>3. \A s \in own : s[1] = r
      BY DEF StoreOf
  <2> HIDE DEF own
  <2>4. \A q \in Runs : Ended(q)' <=> Ended(q)
      BY <2>1 DEF Ended, Domains
  <2>5. tracked'[r] = tracked[r] \cup own /\ \A q \in Runs \ {r} : tracked'[q] = tracked[q]
      BY <2>1 DEF Domains
  <2>6. ~Ended(r)
      BY <2>1 DEF Ended
  <2> QED
      BY <2>2, <2>3, <2>4, <2>5, <2>6 DEF StoresAreTracked
<1>3. ASSUME NEW r \in Runs, \/ Execute(r) \/ Pass(r) \/ Resume(r) \/ NodeStep(r)
                             \/ ClientLeaves(r) \/ DeadlinePasses(r)
      PROVE  StoresAreTracked'
  <2>1. stores' = stores /\ tracked' = tracked
      BY <1>3 DEF Execute, Pass, Resume, NodeStep, LoadSupplied, Answer, Materialize, NodeThrows,
             ClientLeaves, DeadlinePasses
  <2>2. \A q \in Runs : Ended(q)' => Ended(q)
      BY <1>3 DEF Execute, Pass, Resume, NodeStep, LoadSupplied, Answer, Materialize, NodeThrows,
             ClientLeaves, DeadlinePasses, Stop, Ended, Domains
  <2> QED
      BY <2>1, <2>2 DEF StoresAreTracked
<1> QED
    BY <1>1, <1>2, <1>3 DEF Next, LoopStep

LEMMA LoadedStep ==
    ASSUME LoadedIsOwn, Next
    PROVE  LoadedIsOwn'
<1> USE DEF loop, work, data, manager
<1>1. ASSUME NEW r \in Runs, LoadSupplied(r)
      PROVE  LoadedIsOwn'
  <2>1. PICK F : loaded' = loaded \/ loaded' = loaded \cup ({StoreOf(r, at[r])} \X {<<r, e.from>> : e \in F})
      BY <1>1 DEF LoadSupplied, LoadInto
  <2> QED
      BY <2>1 DEF LoadedIsOwn, StoreOf
<1>2. ASSUME NEW r \in Runs, Materialize(r)
      PROVE  LoadedIsOwn'
  <2>1. loaded' = loaded \/ loaded' = loaded \cup ({StoreOf(r, at[r])} \X {<<r, at[r]>>})
      BY <1>2 DEF Materialize, LoadInto
  <2> QED
      BY <2>1 DEF LoadedIsOwn, StoreOf
<1>3. ASSUME NEW r \in Runs, \/ Execute(r) \/ Refuse(r) \/ LoopStep(r) \/ Answer(r) \/ NodeThrows(r)
                             \/ ClientLeaves(r) \/ DeadlinePasses(r)
      PROVE  LoadedIsOwn'
  <2>1. loaded' \subseteq loaded
      BY <1>3 DEF Execute, Refuse, LoopStep, Pass, BeginNode, Resume, Collect, Fail, Answer, NodeThrows,
             ClientLeaves, DeadlinePasses, Teardown
  <2> QED
      BY <2>1 DEF LoadedIsOwn
<1> QED
    BY <1>1, <1>2, <1>3 DEF Next, NodeStep

\* A node works on data of its run: what edges carry is, and so is what its
\* store holds.
LEMMA InputsAreOwn ==
    ASSUME LoadedIsOwn, NEW r \in Runs, NEW n, NEW d \in Inputs(r, n)
    PROVE  d[1] = r
<1> DEFINE carried(flow) == {<<r, e.from>> : e \in {f \in Into(graph, n) : f.flow = flow /\ Supplied(r, f)}}
<1> DEFINE stored == {l[2] : l \in {k \in loaded : Ephemeral(n) /\ k[1] = StoreOf(r, n)}}
<1>1. d \in carried("table") \/ d \in carried("rdf") \/ d \in stored
    BY DEF Inputs
<1>2. d \in carried("table") \/ d \in carried("rdf") => d[1] = r
    OBVIOUS
<1>3. d \in stored => d[1] = r
    BY DEF LoadedIsOwn, StoreOf
<1> QED
    BY <1>1, <1>2, <1>3

LEMMA SeparateStep ==
    ASSUME Domains, LoadedIsOwn, RunsAreSeparate, Next
    PROVE  RunsAreSeparate'
<1> USE DEF loop, work, data, manager
<1>1. ASSUME NEW r \in Runs, Answer(r)
      PROVE  RunsAreSeparate'
  <2>1. read' = read \/ read' = [read EXCEPT ![r][at[r]] = Inputs(r, at[r])]
      BY <1>1 DEF Answer
  <2>2. ASSUME NEW q \in Runs, NEW n \in Nodes, NEW d \in read'[q][n]
        PROVE  d \in read[q][n] \/ (q = r /\ d \in Inputs(r, at[r]))
      BY <2>1, <2>2 DEF Domains
  <2> QED
      BY <2>2, InputsAreOwn DEF RunsAreSeparate
<1>2. ASSUME NEW r \in Runs, \/ Execute(r) \/ Refuse(r) \/ LoopStep(r) \/ LoadSupplied(r) \/ Materialize(r)
                             \/ NodeThrows(r) \/ ClientLeaves(r) \/ DeadlinePasses(r)
      PROVE  RunsAreSeparate'
  <2>1. read' = read
      BY <1>2 DEF Execute, Refuse, LoopStep, Pass, BeginNode, Resume, Collect, Fail, LoadSupplied, Materialize,
             NodeThrows, ClientLeaves, DeadlinePasses
  <2> QED
      BY <2>1 DEF RunsAreSeparate
<1> QED
    BY <1>1, <1>2 DEF Next, NodeStep

-----------------------------------------------------------------------------
\* The invariant holds in every state of every behaviour.
THEOREM Invariance == Spec => []IInv
<1>1. Init => IInv
    BY DEF Init, IInv, Domains, StoresAreTracked, LoadedIsOwn, RunsAreSeparate
<1>2. IInv /\ [Next]_vars => IInv'
  <2> SUFFICES ASSUME IInv, [Next]_vars
               PROVE  IInv'
      OBVIOUS
  <2>1. CASE Next
      BY <2>1, DomainsStep, StoresStep, LoadedStep, SeparateStep DEF IInv
  <2>2. CASE UNCHANGED vars
      BY <2>2 DEF vars, loop, work, data, manager, IInv, Domains, StoresAreTracked, LoadedIsOwn,
             RunsAreSeparate, Ended
  <2> QED
      BY <2>1, <2>2
<1> QED
    BY <1>1, <1>2, PTL DEF Spec

\* A run that ended leaves no store behind, not even one that a node made that it
\* no longer waits for (runNode, ExecutorFactory.ts:110-112).
THEOREM NoStoreOutlivesItsRun == Spec => []StoresAreGone
<1>1. IInv => StoresAreGone
    BY DEF IInv, StoresAreTracked, StoresAreGone
<1> QED
    BY <1>1, Invariance, PTL

\* No node works on data of another run (scopeEphemeralStores).
THEOREM NothingIsShared == Spec => []RunsAreSeparate
<1>1. IInv => RunsAreSeparate
    BY DEF IInv
<1> QED
    BY <1>1, Invariance, PTL

-----------------------------------------------------------------------------
(***************************************************************************)
(* The order.  A node is in the queue exactly when it has not run and all  *)
(* its predecessors have; that is what the count of edges still to come    *)
(* says (Kahn's algorithm), parallel edges or not.                         *)
(***************************************************************************)

GraphOK == graph \in Graphs /\ Accepted(graph)

\* The edges that a node still waits for.
Awaited(r, m) == {i \in DOMAIN graph.edges : graph.edges[i].to = m /\ graph.edges[i].from \notin done[r]}

Looping(r) == pc[r] \in {"ready", "waiting", "answered"}

Kahn(r) ==
    /\ \A m \in Nodes : indeg[r][m] = Cardinality(Awaited(r, m))
    /\ \A m \in done[r] : Awaited(r, m) = {}
    /\ pc[r] = "idle" => done[r] = {}
    /\ Looping(r) =>
         /\ IsInjective(queue[r])
         /\ Range(queue[r]) = {m \in Nodes \ done[r] : Awaited(r, m) = {}}
    /\ pc[r] = "answered" => queue[r] = <<>>

\* The node that works for the run: the first of the queue while the run waits for
\* it, one that has run, or one that nobody waits for any more.
Working(r) ==
    /\ at[r] = 0 <=> phase[r] = "none"
    /\ pc[r] = "idle" => at[r] = 0
    /\ pc[r] = "waiting" => at[r] # 0 /\ queue[r] # <<>> /\ at[r] = Head(queue[r])
    /\ pc[r] \in {"ready", "answered"} /\ at[r] # 0 => phase[r] = "settled" /\ at[r] \in done[r]
    /\ at[r] # 0 => Kind(at[r]) \notin {"start", "end"}

\* What a run has begun, and what results it has.
Progress(r) ==
    /\ \A n \in Nodes : begun[r][n] # 0 => begun[r][n] = 1 /\ n \in done[r] \cup {at[r]}
    /\ results[r] \subseteq done[r] \cup {at[r]}
    /\ \A n \in results[r] : Kind(n) \notin {"start", "end"}
    /\ \A n \in done[r] : Kind(n) \in {"start", "end"} \/ n \in results[r]
    /\ phase[r] \in {"materializing", "settled"} => at[r] \in results[r]

-----------------------------------------------------------------------------
(***************************************************************************)
(* The data.  What a node is to see in its store is there before it asks:  *)
(* what was supplied it loads itself, and the rest was loaded by a node    *)
(* that the run waited for, and nobody but the run destroys its stores.    *)
(***************************************************************************)

InStore(r, n, source) == <<StoreOf(r, n), <<r, source>>>> \in loaded

\* The graph of a node others are to see is in its store.
Stored(r) ==
    pc[r] \in {"ready", "waiting"} =>
        \A n \in done[r] \cup {m \in {at[r]} : phase[r] = "settled"} :
            Materializes(n) => InStore(r, n, n)

\* So is what was supplied, once the node that loads it asks.
Seeded(r) ==
    pc[r] = "waiting" /\ phase[r] = "asking" /\ Kind(at[r]) \in Queries =>
        \A e \in Into(graph, at[r]) :
            e.flow = "rdf" /\ Kind(e.from) = "start" => InStore(r, at[r], e.from)

\* Whoever has a result had all its data.
Whole(r) ==
    Looping(r) =>
        \A n \in results[r] : \A e \in Into(graph, n) : Delivers(e) => <<r, e.from>> \in read[r][n]

RunInv(r) == Kahn(r) /\ Working(r) /\ Progress(r) /\ Stored(r) /\ Seeded(r) /\ Whole(r)

-----------------------------------------------------------------------------
(***************************************************************************)
(* Lists of nodes, and the edges of a graph.                               *)
(***************************************************************************)

\* A listing of a finite set is a sequence with each of its elements once.
LEMMA Listings ==
    ASSUME NEW S, IsFiniteSet(S), NEW s \in SetToSeqs(S)
    PROVE  /\ s \in Seq(S)
           /\ Range(s) = S
           /\ IsInjective(s)
<1> DEFINE n == Cardinality(S)
<1>1. n \in Nat
    BY FS_CardinalityType
<1>2. /\ s \in [1 .. n -> S]
      /\ \A i, j \in 1 .. n : i # j => s[i] # s[j]
    BY DEF SetToSeqs
<1>3. s \in Seq(S)
    BY <1>1, <1>2, IsASeq
<1>4. IsFiniteSet(1 .. n) /\ Cardinality(1 .. n) = n
    BY <1>1, FS_Interval
<1>5. s \in Injection(1 .. n, S)
    BY <1>2 DEF Injection, IsInjective
<1>6. s \in Surjection(1 .. n, S)
    BY <1>4, <1>5, FS_Injection
<1>7. \A x \in S : \E k \in 1 .. n : s[k] = x
    BY <1>6 DEF Surjection
<1>8. DOMAIN s = 1 .. n
    BY <1>2
<1>9. \A x \in S : x \in Range(s)
    BY <1>7, <1>8 DEF Range
<1>10. \A x \in Range(s) : x \in S
    BY <1>2, <1>8 DEF Range
<1>11. IsInjective(s)
    BY <1>2, <1>8 DEF IsInjective
<1> QED
    BY <1>3, <1>9, <1>10, <1>11

\* What leaving the first of a list and joining others does to it.
LEMMA JoinedLists ==
    ASSUME NEW X, NEW q \in Seq(X), q # <<>>, NEW s \in Seq(X),
           IsInjective(q), IsInjective(s), \A x \in Range(q) : x \notin Range(s),
           NEW t, t = Tail(q) \o s
    PROVE  /\ t \in Seq(X)
           /\ IsInjective(t)
           /\ \A x : x \in Range(t) <=> (x \in Range(q) /\ x # Head(q)) \/ x \in Range(s)
<1> DEFINE a == Len(q) - 1
           b == Len(s)
<1>1. Len(q) \in Nat \ {0} /\ b \in Nat /\ a \in Nat /\ DOMAIN q = 1 .. a + 1 /\ DOMAIN s = 1 .. b
    BY EmptySeq, LenProperties
<1>2. /\ Tail(q) \in Seq(X) /\ Len(Tail(q)) = a /\ Head(q) = q[1]
      /\ \A k \in 1 .. a : Tail(q)[k] = q[k + 1]
    BY HeadTailProperties
<1>3. /\ t \in Seq(X) /\ Len(t) = a + b
      /\ \A k \in 1 .. a + b : t[k] = IF k <= a THEN q[k + 1] ELSE s[k - a]
    BY <1>1, <1>2, ConcatProperties
<1>4. DOMAIN t = 1 .. a + b
    BY <1>3, LenProperties
<1> HIDE DEF a, b
<1>5. \A k \in 1 .. a + b : \/ k <= a /\ k + 1 \in DOMAIN q /\ k + 1 # 1 /\ t[k] = q[k + 1]
                            \/ ~(k <= a) /\ k - a \in DOMAIN s /\ t[k] = s[k - a]
    BY <1>1, <1>3
<1>13. /\ \A j, k \in DOMAIN q : j # k => q[j] # q[k]
       /\ \A j, k \in DOMAIN s : j # k => s[j] # s[k]
    BY DEF IsInjective
<1>14. \A j \in DOMAIN q : \A k \in DOMAIN s : q[j] # s[k]
  <2>1. \A j \in DOMAIN q : q[j] \in Range(q)
      BY DEF Range
  <2>2. \A k \in DOMAIN s : s[k] \in Range(s)
      BY DEF Range
  <2> QED
      BY <2>1, <2>2
<1>6. ASSUME NEW j \in DOMAIN t, NEW k \in DOMAIN t, j # k
      PROVE  t[j] # t[k]
  <2>1. j \in Int /\ k \in Int /\ a \in Int
      BY <1>1, <1>4, <1>6
  <2>2. CASE j <= a /\ k <= a
    <3>1. /\ j + 1 \in DOMAIN q /\ t[j] = q[j + 1]
          /\ k + 1 \in DOMAIN q /\ t[k] = q[k + 1]
        BY <1>4, <1>5, <2>2
    <3>2. j + 1 # k + 1
        BY <1>6, <2>1
    <3> QED
        BY <1>13, <3>1, <3>2
  <2>3. CASE ~(j <= a) /\ ~(k <= a)
    <3>1. /\ j - a \in DOMAIN s /\ t[j] = s[j - a]
          /\ k - a \in DOMAIN s /\ t[k] = s[k - a]
        BY <1>4, <1>5, <2>3
    <3>2. j - a # k - a
        BY <1>6, <2>1
    <3> QED
        BY <1>13, <3>1, <3>2
  <2>4. CASE j <= a /\ ~(k <= a)
    <3>1. /\ j + 1 \in DOMAIN q /\ t[j] = q[j + 1]
          /\ k - a \in DOMAIN s /\ t[k] = s[k - a]
        BY <1>4, <1>5, <2>4
    <3> QED
        BY <1>14, <3>1
  <2>5. CASE ~(j <= a) /\ k <= a
    <3>1. /\ j - a \in DOMAIN s /\ t[j] = s[j - a]
          /\ k + 1 \in DOMAIN q /\ t[k] = q[k + 1]
        BY <1>4, <1>5, <2>5
    <3> QED
        BY <1>14, <3>1
  <2> QED
      BY <2>2, <2>3, <2>4, <2>5
<1>7. ASSUME NEW k \in DOMAIN t
      PROVE  t[k] \in (Range(q) \ {Head(q)}) \cup Range(s)
  <2>1. 1 \in DOMAIN q
      BY <1>1
  <2> QED
      BY <1>2, <1>4, <1>5, <1>7, <1>13, <2>1 DEF Range
<1>8. ASSUME NEW x \in Range(q), x # Head(q)
      PROVE  x \in Range(t)
  <2>1. PICK i \in DOMAIN q : x = q[i]
      BY <1>8 DEF Range
  <2>2. i # 1 /\ i - 1 \in 1 .. a /\ i - 1 \in 1 .. a + b /\ (i - 1) + 1 = i
      BY <1>1, <1>2, <1>8, <2>1
  <2>3. t[i - 1] = x /\ i - 1 \in DOMAIN t
      BY <1>3, <1>4, <2>1, <2>2
  <2> QED
      BY <2>3 DEF Range
<1>9. ASSUME NEW x \in Range(s)
      PROVE  x \in Range(t)
  <2>1. PICK i \in DOMAIN s : x = s[i]
      BY <1>9 DEF Range
  <2>2. i + a \in 1 .. a + b /\ ~(i + a <= a) /\ (i + a) - a = i
      BY <1>1, <2>1
  <2>3. t[i + a] = x /\ i + a \in DOMAIN t
      BY <1>3, <1>4, <2>1, <2>2
  <2> QED
      BY <2>3 DEF Range
<1>10. Range(t) \subseteq (Range(q) \ {Head(q)}) \cup Range(s)
    BY <1>7 DEF Range
<1>11. Range(q) \ {Head(q)} \subseteq Range(t)
    BY <1>8
<1>12. Range(s) \subseteq Range(t)
    BY <1>9
<1>15. IsInjective(t)
    BY <1>6 DEF IsInjective
<1> QED
    BY <1>3, <1>15, <1>10, <1>11, <1>12

\* The edges of a graph that was accepted, and how many there are of some of them.
LEMMA GraphFacts ==
    ASSUME GraphOK
    PROVE  /\ graph.kind \in [Nodes -> Kinds]
           /\ graph.store \in [Nodes -> StoreIds \cup {Backend}]
           /\ \A n \in Nodes : Ephemeral(n) => Kind(n) \in Queries \cup {"patch"}
           /\ \A i \in DOMAIN graph.edges :
                 graph.edges[i].from \in Nodes /\ graph.edges[i].to \in Nodes /\ graph.edges[i].flow \in Flows
           /\ \A e \in Edges(graph) : e.from \in Nodes /\ e.to \in Nodes /\ e.flow \in Flows
           /\ IsFiniteSet(DOMAIN graph.edges)
<1>1. /\ graph.kind \in [Nodes -> Kinds]
      /\ graph.store \in [Nodes -> StoreIds \cup {Backend}]
      /\ \A n \in Nodes : graph.store[n] # Backend => graph.kind[n] \in Queries \cup {"patch"}
      /\ graph.edges \in Seq([from : Nodes, to : Nodes, flow : Flows])
    BY EngineAssumption DEF GraphOK
<1>2. DOMAIN graph.edges = 1 .. Len(graph.edges) /\ Len(graph.edges) \in Nat
    BY <1>1, LenProperties
<1>3. IsFiniteSet(DOMAIN graph.edges)
  <2>1. 1 \in Int /\ Len(graph.edges) \in Int
      BY <1>2
  <2> QED
      BY <1>2, <2>1, FS_Interval
<1>4. \A i \in DOMAIN graph.edges : graph.edges[i] \in [from : Nodes, to : Nodes, flow : Flows]
    BY <1>1, <1>2, ElementOfSeq
<1>5. \A i \in DOMAIN graph.edges :
         graph.edges[i].from \in Nodes /\ graph.edges[i].to \in Nodes /\ graph.edges[i].flow \in Flows
    BY <1>4
<1> QED
    BY <1>1, <1>3, <1>5 DEF Ephemeral, Kind, Edges

LEMMA CountedEdges ==
    ASSUME GraphOK, NEW I \in SUBSET DOMAIN graph.edges
    PROVE  IsFiniteSet(I) /\ Cardinality(I) \in Nat
  BY GraphFacts, FS_Subset, FS_CardinalityType

LEMMA FiniteNodes == IsFiniteSet(Nodes) /\ \A S \in SUBSET Nodes : IsFiniteSet(S)
<1>1. 1 \in Int /\ N \in Int
    BY EngineAssumption
<1>2. IsFiniteSet(Nodes)
    BY <1>1, FS_Interval DEF Nodes
<1> QED
    BY <1>2, FS_Subset


-----------------------------------------------------------------------------
(***************************************************************************)
(* Each step is one run's.                                                 *)
(***************************************************************************)

Shapes ==
    /\ pc \in [Runs -> {"idle", "ready", "waiting", "rejected", "answered", "failed"}]
    /\ queue \in [Runs -> Seq(Nodes)]
    /\ indeg \in [Runs -> [Nodes -> Int]]
    /\ done \in [Runs -> SUBSET Nodes]
    /\ aborted \in [Runs -> BOOLEAN]
    /\ tracked \in [Runs -> SUBSET (Runs \X StoreIds)]
    /\ at \in [Runs -> Nodes \cup {0}]
    /\ phase \in [Runs -> {"none", "loading", "asking", "materializing", "settled", "threw"}]
    /\ results \in [Runs -> SUBSET Nodes]
    /\ read \in [Runs -> [Nodes -> SUBSET (Runs \X Nodes)]]
    /\ stores \subseteq Runs \X StoreIds
    /\ loaded \subseteq stores \X (Runs \X Nodes)
    /\ begun \in [Runs -> [Nodes -> Nat]]
    /\ failures \in 0 .. MaxFailures

Moves(r) ==
    \/ Execute(r) \/ Refuse(r)
    \/ LoopStep(r)
    \/ NodeStep(r)
    \/ ClientLeaves(r) \/ DeadlinePasses(r)

\* What a step leaves run q.
Same(q) ==
    /\ pc'[q] = pc[q] /\ queue'[q] = queue[q] /\ indeg'[q] = indeg[q] /\ done'[q] = done[q]
    /\ at'[q] = at[q] /\ phase'[q] = phase[q]
    /\ results'[q] = results[q] /\ read'[q] = read[q] /\ begun'[q] = begun[q]

LEMMA AdvanceParts ==
    ASSUME NEW r, NEW n, Advance(r, n)
    PROVE  \E s \in SetToSeqs(Freed(r, n)) :
              /\ queue' = [queue EXCEPT ![r] = Tail(@) \o s]
              /\ done' = [done EXCEPT ![r] = @ \cup {n}]
              /\ indeg' = [indeg EXCEPT ![r] = [m \in Nodes |-> @[m] - Cardinality(Arrows(n, m))]]
  BY DEF Advance

\* The other runs are left alone.
LEMMA Elsewhere ==
    ASSUME Shapes, NEW r \in Runs, Moves(r), NEW q \in Runs \ {r}
    PROVE  graph' = graph /\ Same(q)
<1> USE DEF loop, work, data, manager, Shapes, Same
<1>1. CASE Execute(r)
    BY <1>1 DEF Execute
<1>2. CASE Refuse(r)
    BY <1>2 DEF Refuse
<1>3. CASE Pass(r)
  <2>1. /\ graph' = graph /\ pc' = pc /\ work' = work /\ data' = data /\ begun' = begun
        /\ Advance(r, Head(queue[r]))
      BY <1>3 DEF Pass
  <2> QED
      BY <2>1, AdvanceParts
<1>4. CASE BeginNode(r)
    BY <1>4 DEF BeginNode
<1>5. CASE Resume(r)
  <2>1. /\ graph' = graph /\ work' = work /\ data' = data /\ begun' = begun
        /\ pc'[q] = pc[q]
        /\ Advance(r, at[r]) \/ UNCHANGED <<done, indeg, queue>>
      BY <1>5 DEF Resume
  <2> QED
      BY <2>1, AdvanceParts
<1>6. CASE Collect(r) \/ Fail(r)
    BY <1>6 DEF Collect, Fail
<1>7. CASE LoadSupplied(r)
    BY <1>7 DEF LoadSupplied, LoadInto
<1>8. CASE Answer(r)
    BY <1>8 DEF Answer
<1>9. CASE Materialize(r) \/ NodeThrows(r)
    BY <1>9 DEF Materialize, LoadInto, NodeThrows
<1>10. CASE ClientLeaves(r) \/ DeadlinePasses(r)
    BY <1>10 DEF ClientLeaves, DeadlinePasses, Stop
<1> QED
    BY <1>1, <1>2, <1>3, <1>4, <1>5, <1>6, <1>7, <1>8, <1>9, <1>10 DEF Moves, LoopStep, NodeStep

LEMMA GraphStays ==
    ASSUME NEW r \in Runs, Moves(r)
    PROVE  graph' = graph
  BY DEF Moves, LoopStep, NodeStep, Execute, Refuse, Pass, BeginNode, Resume, Collect, Fail, LoadSupplied,
         Answer, Materialize, NodeThrows, ClientLeaves, DeadlinePasses

\* So is what their stores hold: a run tears down its own.
LEMMA DataElsewhere ==
    ASSUME Shapes, StoresAreTracked, NEW r \in Runs, Moves(r), NEW l \in loaded, l[1][1] # r
    PROVE  l \in loaded'
<1> USE DEF loop, work, data, manager
<1>1. CASE Refuse(r) \/ Collect(r) \/ Fail(r)
  <2>1. loaded' = {k \in loaded : k[1] \notin tracked[r]}
      BY <1>1 DEF Refuse, Collect, Fail, Teardown
  <2>2. l[1] \notin tracked[r]
      BY DEF StoresAreTracked
  <2> QED
      BY <2>1, <2>2
<1>2. CASE LoadSupplied(r) \/ Materialize(r)
    BY <1>2 DEF LoadSupplied, Materialize, LoadInto
<1>3. CASE Execute(r) \/ Pass(r) \/ BeginNode(r) \/ Resume(r) \/ Answer(r) \/ NodeThrows(r)
           \/ ClientLeaves(r) \/ DeadlinePasses(r)
    BY <1>3 DEF Execute, Pass, BeginNode, Resume, Answer, NodeThrows, ClientLeaves, DeadlinePasses
<1> QED
    BY <1>1, <1>2, <1>3 DEF Moves, LoopStep, NodeStep

LEMMA KahnElsewhere ==
    ASSUME NEW q, Kahn(q), Same(q), graph' = graph
    PROVE  Kahn(q)'
  BY DEF Kahn, Same, Looping, Awaited

LEMMA WorkingElsewhere ==
    ASSUME NEW q, Working(q), Progress(q), Same(q), graph' = graph
    PROVE  Working(q)' /\ Progress(q)'
  BY DEF Working, Progress, Same, Kind

LEMMA SupplyElsewhere ==
    ASSUME NEW q, Stored(q), Seeded(q), Whole(q), Same(q), graph' = graph,
           \A l \in loaded : l[1][1] = q => l \in loaded'
    PROVE  Stored(q)' /\ Seeded(q)' /\ Whole(q)'
<1>1. \A n, m : InStore(q, n, m) => InStore(q, n, m)'
    BY DEF InStore, StoreOf
<1>2. Stored(q)'
    BY <1>1 DEF Stored, Same, Materializes, Ephemeral, Kind, From, Edges
<1>3. Seeded(q)'
    BY <1>1 DEF Seeded, Same, Kind, Into, Edges
<1>4. Whole(q)'
    BY DEF Whole, Same, Looping, Into, Edges, Delivers, Kind
<1> QED
    BY <1>2, <1>3, <1>4

-----------------------------------------------------------------------------
(***************************************************************************)
(* The loop.                                                               *)
(***************************************************************************)

\* The first of the queue has not run, and waits for nothing.
LEMMA HeadOfQueue ==
    ASSUME Shapes, NEW r \in Runs, Kahn(r), Looping(r), queue[r] # <<>>
    PROVE  /\ Head(queue[r]) \in Nodes \ done[r]
           /\ Awaited(r, Head(queue[r])) = {}
<1>1. queue[r] \in Seq(Nodes)
    BY DEF Shapes
<1>2. 1 \in DOMAIN queue[r] /\ Head(queue[r]) = queue[r][1]
    BY <1>1, EmptySeq, LenProperties, HeadTailProperties
<1>3. Head(queue[r]) \in Range(queue[r])
    BY <1>2 DEF Range
<1> QED
    BY <1>3 DEF Kahn

\* Getting past a node lets go exactly those that waited for it alone.
LEMMA Advanced ==
    ASSUME Shapes, GraphOK, graph' = graph, NEW r \in Runs, Kahn(r), Looping(r), queue[r] # <<>>,
           NEW n, n = Head(queue[r]), Advance(r, n)
    PROVE  /\ queue' \in [Runs -> Seq(Nodes)]
           /\ indeg' \in [Runs -> [Nodes -> Int]]
           /\ done' = [done EXCEPT ![r] = @ \cup {n}]
           /\ \A m \in Nodes : indeg'[r][m] = Cardinality(Awaited(r, m)')
           /\ \A m \in done'[r] : Awaited(r, m)' = {}
           /\ IsInjective(queue'[r])
           /\ Range(queue'[r]) = {m \in Nodes \ done'[r] : Awaited(r, m)' = {}}
<1>1. n \in Nodes \ done[r] /\ Awaited(r, n) = {}
    BY HeadOfQueue
<1>2. PICK s \in SetToSeqs(Freed(r, n)) :
         /\ queue' = [queue EXCEPT ![r] = Tail(@) \o s]
         /\ done' = [done EXCEPT ![r] = @ \cup {n}]
         /\ indeg' = [indeg EXCEPT ![r] = [m \in Nodes |-> @[m] - Cardinality(Arrows(n, m))]]
    BY AdvanceParts
<1>3. /\ done'[r] = done[r] \cup {n}
      /\ queue'[r] = Tail(queue[r]) \o s
      /\ \A m \in Nodes : indeg'[r][m] = indeg[r][m] - Cardinality(Arrows(n, m))
    BY <1>2 DEF Shapes
<1>4. ASSUME NEW m \in Nodes
      PROVE  /\ Arrows(n, m) \subseteq Awaited(r, m)
             /\ Awaited(r, m)' = Awaited(r, m) \ Arrows(n, m)
    BY <1>1, <1>3 DEF Awaited, Arrows
<1>5. ASSUME NEW m \in Nodes
      PROVE  /\ IsFiniteSet(Awaited(r, m)) /\ Cardinality(Arrows(n, m)) \in Nat
             /\ Cardinality(Awaited(r, m)) \in Nat
             /\ Cardinality(Awaited(r, m) \ Arrows(n, m)) =
                   Cardinality(Awaited(r, m)) - Cardinality(Arrows(n, m))
             /\ Cardinality(Awaited(r, m)) = Cardinality(Arrows(n, m)) <=> Awaited(r, m) = Arrows(n, m)
  <2>1. /\ Awaited(r, m) \in SUBSET DOMAIN graph.edges
        /\ Arrows(n, m) \in SUBSET DOMAIN graph.edges
      BY DEF Awaited, Arrows
  <2>2. /\ IsFiniteSet(Awaited(r, m)) /\ Cardinality(Awaited(r, m)) \in Nat
        /\ IsFiniteSet(Arrows(n, m)) /\ Cardinality(Arrows(n, m)) \in Nat
      BY <2>1, CountedEdges
  <2>3. Awaited(r, m) \cap Arrows(n, m) = Arrows(n, m)
      BY <1>4
  <2>4. Cardinality(Awaited(r, m) \ Arrows(n, m)) =
           Cardinality(Awaited(r, m)) - Cardinality(Awaited(r, m) \cap Arrows(n, m))
      BY <2>2, FS_Difference
  <2>5. Arrows(n, m) \in SUBSET Awaited(r, m)
      BY <1>4
  <2>6. Cardinality(Awaited(r, m)) = Cardinality(Arrows(n, m)) => Arrows(n, m) = Awaited(r, m)
      BY <2>2, <2>5, FS_Subset
  <2> QED
      BY <2>2, <2>3, <2>4, <2>6
<1>6. \A m \in Nodes : indeg'[r][m] = Cardinality(Awaited(r, m)')
    BY <1>3, <1>4, <1>5 DEF Kahn
<1>7. \A m \in Nodes : m \in Freed(r, n) <=> Arrows(n, m) # {} /\ Awaited(r, m) = Arrows(n, m)
  <2>1. \A m \in Nodes : indeg[r][m] = Cardinality(Awaited(r, m))
      BY DEF Kahn
  <2> QED
      BY <1>5, <2>1 DEF Freed
<1>8. \A m \in done'[r] : Awaited(r, m)' = {}
  <2>1. \A m \in done[r] : m \in Nodes /\ Awaited(r, m) = {}
      BY DEF Kahn, Shapes
  <2> QED
      BY <1>1, <1>3, <1>4, <2>1
<1>9. /\ s \in Seq(Freed(r, n)) /\ s \in Seq(Nodes)
      /\ Range(s) = Freed(r, n)
      /\ IsInjective(s)
  <2>1. Freed(r, n) \in SUBSET Nodes
      BY DEF Freed
  <2>2. IsFiniteSet(Freed(r, n))
      BY <2>1, FiniteNodes
  <2>3. s \in Seq(Freed(r, n)) /\ Range(s) = Freed(r, n) /\ IsInjective(s)
      BY <2>2, Listings
  <2>4. s \in Seq(Nodes)
      BY <2>1, <2>3, SeqMonotonic
  <2> QED
      BY <2>3, <2>4
<1>10. /\ queue[r] \in Seq(Nodes)
       /\ IsInjective(queue[r])
       /\ Range(queue[r]) = {m \in Nodes \ done[r] : Awaited(r, m) = {}}
    BY DEF Shapes, Kahn
<1>11. Range(queue[r]) \cap Range(s) = {}
  <2>1. \A m \in Range(queue[r]) : m \in Nodes /\ Awaited(r, m) = {}
      BY <1>10
  <2>2. \A m \in Range(s) : m \in Nodes => Awaited(r, m) # {}
      BY <1>7, <1>9
  <2> QED
      BY <2>1, <2>2
<1>12. /\ queue'[r] \in Seq(Nodes)
       /\ IsInjective(queue'[r])
       /\ \A x : x \in Range(queue'[r]) <=> (x \in Range(queue[r]) /\ x # n) \/ x \in Range(s)
  <2>1. PICK q, t : q = queue[r] /\ t = queue'[r]
      OBVIOUS
  <2>2. q \in Seq(Nodes) /\ q # <<>> /\ s \in Seq(Nodes) /\ t = Tail(q) \o s
      BY <1>3, <1>9, <1>10, <2>1
  <2>3. IsInjective(q) /\ IsInjective(s) /\ \A x \in Range(q) : x \notin Range(s)
      BY <1>9, <1>10, <1>11, <2>1
  <2>4. /\ t \in Seq(Nodes)
        /\ IsInjective(t)
        /\ \A x : x \in Range(t) <=> (x \in Range(q) /\ x # Head(q)) \/ x \in Range(s)
      BY <2>2, <2>3, JoinedLists
  <2> QED
      BY <2>1, <2>4
<1>13. Range(queue'[r]) = (Range(queue[r]) \ {n}) \cup Freed(r, n)
    BY <1>9, <1>12
<1>14. ASSUME NEW m \in Nodes
       PROVE  m \in (Range(queue[r]) \ {n}) \cup Freed(r, n) <=> m \notin done'[r] /\ Awaited(r, m)' = {}
  <2>1. CASE Awaited(r, m) = {}
    <3>1. m \notin Freed(r, n) /\ Awaited(r, m)' = {}
        BY <1>4, <1>7, <2>1
    <3> QED
        BY <1>3, <1>10, <2>1, <3>1
  <2>2. CASE Awaited(r, m) # {}
    <3>1. m \notin Range(queue[r]) /\ m \notin done[r] /\ m # n
        BY <1>1, <1>10, <2>2 DEF Kahn
    <3>2. Awaited(r, m)' = {} <=> Awaited(r, m) = Arrows(n, m)
        BY <1>4
    <3>3. m \in Freed(r, n) <=> Awaited(r, m) = Arrows(n, m)
        BY <1>7, <2>2
    <3> QED
        BY <1>3, <3>1, <3>2, <3>3
  <2> QED
      BY <2>1, <2>2
<1>15. Range(queue'[r]) = {m \in Nodes \ done'[r] : Awaited(r, m)' = {}}
  <2>1. (Range(queue[r]) \ {n}) \cup Freed(r, n) \subseteq Nodes
      BY <1>10 DEF Freed
  <2> QED
      BY <1>13, <1>14, <2>1
<1>16. queue' \in [Runs -> Seq(Nodes)]
    BY <1>2, <1>3, <1>12 DEF Shapes
<1>17. indeg' \in [Runs -> [Nodes -> Int]]
  <2>1. [m \in Nodes |-> indeg[r][m] - Cardinality(Arrows(n, m))] \in [Nodes -> Int]
    <3>1. \A m \in Nodes : indeg[r][m] \in Int /\ Cardinality(Arrows(n, m)) \in Int
      <4>1. indeg[r] \in [Nodes -> Int]
          BY DEF Shapes
      <4>2. ASSUME NEW m \in Nodes
            PROVE  Cardinality(Arrows(n, m)) \in Int
        <5>1. Cardinality(Arrows(n, m)) \in Nat
            BY <1>5
        <5> QED
            BY <5>1
      <4> QED
          BY <4>1, <4>2
    <3> QED
        BY <3>1
  <2> QED
      BY <1>2, <2>1 DEF Shapes
<1> QED
    BY <1>2, <1>6, <1>8, <1>12, <1>15, <1>16, <1>17

LEMMA RunElsewhere ==
    ASSUME Shapes, StoresAreTracked, NEW r \in Runs, Moves(r), NEW q \in Runs \ {r}, RunInv(q)
    PROVE  RunInv(q)'
<1>1. graph' = graph /\ Same(q)
    BY Elsewhere
<1>2. \A l \in loaded : l[1][1] = q => l \in loaded'
    BY DataElsewhere
<1> QED
    BY <1>1, <1>2, KahnElsewhere, WorkingElsewhere, SupplyElsewhere DEF RunInv

\* Kahn's algorithm begins with the nodes that no edge leads to.
LEMMA ExecuteStep ==
    ASSUME Shapes, GraphOK, NEW r \in Runs, RunInv(r), Execute(r)
    PROVE  Shapes' /\ RunInv(r)'
<1> DEFINE first == {n \in Nodes : indeg[r][n] = 0}
<1>1. /\ pc[r] = "idle" /\ pc' = [pc EXCEPT ![r] = "ready"]
      /\ graph' = graph /\ done' = done /\ indeg' = indeg
      /\ UNCHANGED <<aborted, tracked, at, phase, results, read, stores, loaded, begun, failures>>
    BY DEF Execute, work, data, manager
<1>2. PICK s \in SetToSeqs(first) : queue' = [queue EXCEPT ![r] = s]
    BY DEF Execute
<1>3. first \in SUBSET Nodes /\ IsFiniteSet(first)
    BY FiniteNodes
<1>4. s \in Seq(first) /\ Range(s) = first /\ IsInjective(s)
    BY <1>3, Listings
<1>5. s \in Seq(Nodes)
    BY <1>3, <1>4, SeqMonotonic
<1>6. /\ \A m \in Nodes : indeg[r][m] = Cardinality(Awaited(r, m))
      /\ \A m \in done[r] : Awaited(r, m) = {}
      /\ done[r] = {}
    BY <1>1 DEF RunInv, Kahn
<1>7. first = {m \in Nodes \ done[r] : Awaited(r, m) = {}}
  <2>1. \A m \in Nodes : Cardinality(Awaited(r, m)) = 0 <=> Awaited(r, m) = {}
    <3> SUFFICES ASSUME NEW m \in Nodes
                 PROVE  Cardinality(Awaited(r, m)) = 0 <=> Awaited(r, m) = {}
        OBVIOUS
    <3>1. Awaited(r, m) \in SUBSET DOMAIN graph.edges
        BY DEF Awaited
    <3>2. IsFiniteSet(Awaited(r, m))
        BY <3>1, CountedEdges
    <3> QED
        BY <3>2, FS_EmptySet
  <2> QED
      BY <1>6, <2>1
<1>8. pc'[r] = "ready" /\ queue'[r] = s
    BY <1>1, <1>2 DEF Shapes
<1> HIDE DEF first
<1>9. \A m : Awaited(r, m)' = Awaited(r, m)
    BY <1>1 DEF Awaited
<1>10. Kahn(r)'
  <2>1. Range(queue'[r]) = {m \in Nodes \ done'[r] : Awaited(r, m)' = {}}
      BY <1>1, <1>4, <1>7, <1>8, <1>9
  <2> QED
      BY <1>1, <1>4, <1>6, <1>8, <1>9, <2>1 DEF Kahn
<1>11. at[r] = 0 /\ phase[r] = "none" /\ results[r] = {}
  <2>1. 0 \notin Nodes
      BY DEF Nodes
  <2> QED
      BY <1>1, <1>6, <2>1 DEF RunInv, Working, Progress, Shapes
<1>12. Working(r)' /\ Progress(r)'
    BY <1>1, <1>8, <1>11 DEF RunInv, Working, Progress, Kind
<1>13. Stored(r)' /\ Seeded(r)' /\ Whole(r)'
    BY <1>1, <1>6, <1>8, <1>11 DEF Stored, Seeded, Whole
<1>14. Shapes'
  <2>1. /\ queue' \in [Runs -> Seq(Nodes)]
        /\ pc' \in [Runs -> {"idle", "ready", "waiting", "rejected", "answered", "failed"}]
      BY <1>1, <1>2, <1>5 DEF Shapes
  <2> QED
      BY <1>1, <2>1 DEF Shapes
<1> QED
    BY <1>10, <1>12, <1>13, <1>14 DEF RunInv

\* A run that has ended is only asked for what it read.
LEMMA EndingStep ==
    ASSUME Shapes, NEW r \in Runs, RunInv(r), Refuse(r) \/ Collect(r) \/ Fail(r)
    PROVE  Shapes' /\ RunInv(r)'
<1>1. PICK x \in {"answered", "failed"} :
         /\ pc' = [pc EXCEPT ![r] = x]
         /\ x = "answered" => pc[r] = "ready" /\ queue[r] = <<>>
    BY DEF Refuse, Collect, Fail
<1>2. /\ UNCHANGED <<graph, queue, indeg, done, aborted, tracked, at, phase, results, read, begun>>
      /\ failures' \in 0 .. MaxFailures
      /\ stores' = stores \ tracked[r]
      /\ loaded' = {l \in loaded : l[1] \notin tracked[r]}
    BY EngineAssumption DEF Refuse, Collect, Fail, Teardown, work, data, Shapes
<1>3. pc'[r] = x
    BY <1>1 DEF Shapes
<1>4. \A m : Awaited(r, m)' = Awaited(r, m)
    BY <1>2 DEF Awaited
<1>5. Kahn(r)'
    BY <1>1, <1>2, <1>3, <1>4 DEF RunInv, Kahn, Looping
<1>6. Working(r)' /\ Progress(r)'
    BY <1>1, <1>2, <1>3 DEF RunInv, Working, Progress, Kind
<1>7. Stored(r)' /\ Seeded(r)'
    BY <1>3 DEF Stored, Seeded
<1>8. Whole(r)'
    BY <1>1, <1>2, <1>3 DEF RunInv, Whole, Looping, Into, Edges, Delivers, Kind
<1>9. Shapes'
  <2>1. pc' \in [Runs -> {"idle", "ready", "waiting", "rejected", "answered", "failed"}]
      BY <1>1 DEF Shapes
  <2>2. stores' \subseteq Runs \X StoreIds
      BY <1>2 DEF Shapes
  <2>3. loaded' \subseteq stores' \X (Runs \X Nodes)
    <3> SUFFICES ASSUME NEW l \in loaded, l[1] \notin tracked[r]
                 PROVE  l \in stores' \X (Runs \X Nodes)
        BY <1>2
    <3>1. l \in stores \X (Runs \X Nodes)
        BY DEF Shapes
    <3> QED
        BY <1>2, <3>1
  <2> QED
      BY <1>2, <2>1, <2>2, <2>3 DEF Shapes
<1> QED
    BY <1>5, <1>6, <1>7, <1>8, <1>9 DEF RunInv

LEMMA PassStep ==
    ASSUME Shapes, GraphOK, NEW r \in Runs, RunInv(r), Pass(r)
    PROVE  Shapes' /\ RunInv(r)'
<1> DEFINE n == Head(queue[r])
<1>1. /\ pc[r] = "ready" /\ queue[r] # <<>> /\ Kind(n) \in {"start", "end"} /\ Advance(r, n)
      /\ UNCHANGED <<graph, pc, aborted, tracked, at, phase, results, read, stores, loaded, begun, failures>>
    BY DEF Pass, work, data, manager
<1>2. n \in Nodes \ done[r]
    BY <1>1, HeadOfQueue DEF RunInv, Looping
<1>3. /\ queue' \in [Runs -> Seq(Nodes)]
      /\ indeg' \in [Runs -> [Nodes -> Int]]
      /\ done' = [done EXCEPT ![r] = @ \cup {n}]
      /\ \A m \in Nodes : indeg'[r][m] = Cardinality(Awaited(r, m)')
      /\ \A m \in done'[r] : Awaited(r, m)' = {}
      /\ IsInjective(queue'[r])
      /\ Range(queue'[r]) = {m \in Nodes \ done'[r] : Awaited(r, m)' = {}}
    BY <1>1, Advanced DEF RunInv, Looping
<1> HIDE DEF n
<1>4. done'[r] = done[r] \cup {n} /\ done' \in [Runs -> SUBSET Nodes]
    BY <1>2, <1>3 DEF Shapes
<1>5. Kahn(r)'
    BY <1>1, <1>3 DEF Kahn
<1>6. Working(r)' /\ Progress(r)'
    BY <1>1, <1>4 DEF RunInv, Working, Progress, Kind
<1>7. Stored(r)' /\ Seeded(r)' /\ Whole(r)'
  <2>1. ~Materializes(n)
      BY <1>1 DEF Materializes
  <2>2. \A m, k : /\ Materializes(m)' = Materializes(m)
                  /\ InStore(r, m, k)' = InStore(r, m, k)
      BY <1>1 DEF Materializes, InStore, StoreOf, Ephemeral, Kind, From, Edges
  <2>3. Stored(r)'
      BY <1>1, <1>4, <2>1, <2>2 DEF RunInv, Stored
  <2> QED
      BY <1>1, <2>3 DEF RunInv, Seeded, Whole, Looping, Into, Edges, Delivers, Kind
<1>8. Shapes'
    BY <1>1, <1>3, <1>4 DEF Shapes
<1> QED
    BY <1>5, <1>6, <1>7, <1>8 DEF RunInv

LEMMA BeginStep ==
    ASSUME Shapes, GraphOK, NEW r \in Runs, RunInv(r), BeginNode(r)
    PROVE  Shapes' /\ RunInv(r)'
<1> DEFINE n == Head(queue[r])
           own == {StoreOf(r, m) : m \in {m \in {n} : Ephemeral(m)}}
<1>1. /\ pc[r] = "ready" /\ queue[r] # <<>> /\ Kind(n) \notin {"start", "end"}
      /\ tracked' = [tracked EXCEPT ![r] = @ \cup own]
      /\ UNCHANGED <<graph, queue, indeg, done, aborted, results, read, loaded, failures>>
    BY DEF BeginNode, data
<1>2. \/ /\ pc' = [pc EXCEPT ![r] = "rejected"]
         /\ UNCHANGED <<at, phase, stores, begun>>
      \/ /\ pc' = [pc EXCEPT ![r] = "waiting"]
         /\ at' = [at EXCEPT ![r] = n]
         /\ phase' = [phase EXCEPT ![r] = IF Kind(n) \in Queries THEN "loading" ELSE "asking"]
         /\ stores' = IF Ephemeral(n) THEN stores \cup {StoreOf(r, n)} ELSE stores
         /\ begun' = [begun EXCEPT ![r][n] = @ + 1]
    BY DEF BeginNode, work
<1>3. n \in Nodes \ done[r]
    BY <1>1, HeadOfQueue DEF RunInv, Looping
<1>4. \A s \in own : s \in Runs \X StoreIds
  <2>1. graph.store[n] \in StoreIds \cup {Backend}
      BY <1>3, GraphFacts
  <2> QED
      BY <2>1 DEF StoreOf, Ephemeral
<1>5. stores \subseteq stores' /\ stores' \subseteq stores \cup own
    BY <1>2
<1> HIDE DEF n, own
<1>6. Shapes'
  <2>1. tracked' \in [Runs -> SUBSET (Runs \X StoreIds)]
      BY <1>1, <1>4 DEF Shapes
  <2>2. /\ pc' \in [Runs -> {"idle", "ready", "waiting", "rejected", "answered", "failed"}]
        /\ at' \in [Runs -> Nodes \cup {0}]
    <3>1. PICK x \in {"rejected", "waiting"} : pc' = [pc EXCEPT ![r] = x]
        BY <1>2
    <3>2. at' = at \/ at' = [at EXCEPT ![r] = n]
        BY <1>2
    <3>3. pc' \in [Runs -> {"idle", "ready", "waiting", "rejected", "answered", "failed"}]
        BY <3>1 DEF Shapes
    <3>4. at' \in [Runs -> Nodes \cup {0}]
        BY <1>3, <3>2 DEF Shapes
    <3> QED
        BY <3>3, <3>4
  <2>3. phase' \in [Runs -> {"none", "loading", "asking", "materializing", "settled", "threw"}]
      BY <1>2 DEF Shapes
  <2>4. begun' \in [Runs -> [Nodes -> Nat]]
    <3>1. begun \in [Runs -> [Nodes -> Nat]] /\ begun[r] \in [Nodes -> Nat] /\ begun[r][n] + 1 \in Nat
        BY <1>3 DEF Shapes
    <3>2. CASE begun' = begun
        BY <3>1, <3>2
    <3>3. CASE begun' = [begun EXCEPT ![r][n] = @ + 1]
      <4>1. [begun[r] EXCEPT ![n] = @ + 1] \in [Nodes -> Nat]
          BY <3>1
      <4> QED
          BY <3>1, <3>3, <4>1
    <3>4. begun' = begun \/ begun' = [begun EXCEPT ![r][n] = @ + 1]
        BY <1>2
    <3> QED
        BY <3>2, <3>3, <3>4
  <2>5. stores' \subseteq Runs \X StoreIds
      BY <1>4, <1>5 DEF Shapes
  <2>6. loaded' \subseteq stores' \X (Runs \X Nodes)
      BY <1>1, <1>5 DEF Shapes
  <2> QED
      BY <1>1, <2>1, <2>2, <2>3, <2>4, <2>5, <2>6 DEF Shapes
<1>7. \A m : Awaited(r, m)' = Awaited(r, m)
    BY <1>1 DEF Awaited
<1>8. pc'[r] \in {"rejected", "waiting"} /\ Kahn(r)'
  <2>1. pc'[r] \in {"rejected", "waiting"}
      BY <1>2 DEF Shapes
  <2> QED
      BY <1>1, <1>7, <2>1 DEF RunInv, Kahn, Looping
<1>9. 0 \notin Nodes
    BY DEF Nodes
<1>10. at[r] # 0 => at[r] \in done[r] /\ phase[r] = "settled"
    BY <1>1 DEF RunInv, Working
<1>11. results[r] \subseteq done[r] /\ results'[r] = results[r] /\ done'[r] = done[r]
    BY <1>1, <1>9, <1>10 DEF RunInv, Progress, Shapes
<1>12. CASE pc' = [pc EXCEPT ![r] = "rejected"] /\ UNCHANGED <<at, phase, stores, begun>>
  <2>1. pc'[r] = "rejected"
      BY <1>12 DEF Shapes
  <2> QED
      BY <1>1, <1>6, <1>8, <1>12, <2>1 DEF RunInv, Working, Progress, Stored, Seeded, Whole, Looping, Kind
<1>13. CASE /\ pc' = [pc EXCEPT ![r] = "waiting"]
            /\ at' = [at EXCEPT ![r] = n]
            /\ phase' = [phase EXCEPT ![r] = IF Kind(n) \in Queries THEN "loading" ELSE "asking"]
            /\ begun' = [begun EXCEPT ![r][n] = @ + 1]
  <2>1. /\ pc'[r] = "waiting" /\ at'[r] = n
        /\ phase'[r] \in {"loading", "asking"}
        /\ phase'[r] = "asking" => Kind(n) \notin Queries
        /\ begun'[r][n] = begun[r][n] + 1
        /\ \A m \in Nodes \ {n} : begun'[r][m] = begun[r][m]
      BY <1>3, <1>13 DEF Shapes
  <2>2. Working(r)'
      BY <1>1, <1>3, <1>9, <2>1 DEF n, Working, Kind
  <2>3. \A m \in Nodes : begun'[r][m] # 0 => begun'[r][m] = 1 /\ m \in done[r] \cup {n}
    <3>1. \A m \in Nodes : begun[r][m] # 0 => begun[r][m] = 1 /\ m \in done[r]
        BY <1>9, <1>10 DEF RunInv, Progress
    <3> QED
        BY <1>3, <2>1, <3>1
  <2>4. Progress(r)'
    <3>1. \A m \in results[r] : Kind(m) \notin {"start", "end"}
        BY DEF RunInv, Progress
    <3>2. \A m \in done[r] : Kind(m) \in {"start", "end"} \/ m \in results[r]
        BY DEF RunInv, Progress
    <3>3. \A m : Kind(m)' = Kind(m)
        BY <1>1 DEF Kind
    <3> QED
        BY <1>11, <2>1, <2>3, <3>1, <3>2, <3>3 DEF Progress
  <2>5. Stored(r)'
    <3>1. \A m \in done[r] : Materializes(m) => InStore(r, m, m)
        BY <1>1 DEF RunInv, Stored
    <3>2. \A m, k : Materializes(m)' = Materializes(m) /\ InStore(r, m, k)' = InStore(r, m, k)
        BY <1>1 DEF Materializes, InStore, StoreOf, Ephemeral, Kind, From, Edges
    <3> QED
        BY <1>11, <2>1, <3>1, <3>2 DEF Stored
  <2>6. Seeded(r)'
      BY <1>1, <2>1 DEF Seeded, Kind
  <2>7. Whole(r)'
      BY <1>1, <2>1 DEF RunInv, Whole, Looping, Into, Edges, Delivers, Kind
  <2> QED
      BY <1>6, <1>8, <2>2, <2>4, <2>5, <2>6, <2>7 DEF RunInv
<1> QED
    BY <1>2, <1>12, <1>13

LEMMA ResumeStep ==
    ASSUME Shapes, GraphOK, NEW r \in Runs, RunInv(r), Resume(r)
    PROVE  Shapes' /\ RunInv(r)'
<1> DEFINE n == at[r]
<1>1. /\ pc[r] = "waiting" /\ n # 0 /\ queue[r] # <<>> /\ n = Head(queue[r])
      /\ UNCHANGED <<graph, aborted, tracked, at, phase, results, read, stores, loaded, begun, failures>>
    BY DEF Resume, work, data, manager, RunInv, Working
<1>2. CASE phase[r] = "threw"
  <2>1. pc' = [pc EXCEPT ![r] = "rejected"] /\ UNCHANGED <<done, indeg, queue>>
      BY <1>2 DEF Resume
  <2>2. pc'[r] = "rejected" /\ pc' \in [Runs -> {"idle", "ready", "waiting", "rejected", "answered", "failed"}]
      BY <2>1 DEF Shapes
  <2>3. \A m : Awaited(r, m)' = Awaited(r, m)
      BY <1>1, <2>1 DEF Awaited
  <2>4. Kahn(r)'
      BY <1>1, <2>1, <2>2, <2>3 DEF RunInv, Kahn, Looping
  <2>5. Shapes'
      BY <1>1, <2>1, <2>2 DEF Shapes
  <2> QED
      BY <1>1, <2>1, <2>2, <2>4, <2>5 DEF RunInv, Working, Progress, Stored, Seeded, Whole, Looping, Kind
<1>3. CASE phase[r] = "settled"
  <2>1. pc' = [pc EXCEPT ![r] = "ready"] /\ Advance(r, n)
      BY <1>3 DEF Resume
  <2>2. n \in Nodes \ done[r]
      BY <1>1, HeadOfQueue DEF RunInv, Looping
  <2>3. /\ queue' \in [Runs -> Seq(Nodes)]
        /\ indeg' \in [Runs -> [Nodes -> Int]]
        /\ done' = [done EXCEPT ![r] = @ \cup {n}]
        /\ \A m \in Nodes : indeg'[r][m] = Cardinality(Awaited(r, m)')
        /\ \A m \in done'[r] : Awaited(r, m)' = {}
        /\ IsInjective(queue'[r])
        /\ Range(queue'[r]) = {m \in Nodes \ done'[r] : Awaited(r, m)' = {}}
      BY <1>1, <2>1, Advanced DEF RunInv, Looping
  <2> HIDE DEF n
  <2>4. done'[r] = done[r] \cup {n} /\ done' \in [Runs -> SUBSET Nodes]
      BY <2>2, <2>3 DEF Shapes
  <2>5. pc'[r] = "ready" /\ pc' \in [Runs -> {"idle", "ready", "waiting", "rejected", "answered", "failed"}]
      BY <2>1 DEF Shapes
  <2>6. Kahn(r)'
      BY <2>3, <2>5 DEF Kahn
  <2>7. at'[r] = n /\ at[r] = n /\ phase'[r] = "settled" /\ n \in results[r]
      BY <1>1, <1>3 DEF n, RunInv, Progress
  <2>8. Working(r)'
      BY <1>1, <2>4, <2>5, <2>7 DEF RunInv, Working, Kind
  <2>9. Progress(r)'
      BY <1>1, <2>4, <2>7 DEF RunInv, Progress, Kind
  <2>10. Stored(r)'
    <3>1. \A m \in done[r] \cup {n} : Materializes(m) => InStore(r, m, m)
        BY <1>1, <1>3, <2>7 DEF RunInv, Stored
    <3>2. \A m, k : Materializes(m)' = Materializes(m) /\ InStore(r, m, k)' = InStore(r, m, k)
        BY <1>1 DEF Materializes, InStore, StoreOf, Ephemeral, Kind, From, Edges
    <3> QED
        BY <2>4, <2>7, <3>1, <3>2 DEF Stored
  <2>11. Seeded(r)'
      BY <2>5 DEF Seeded
  <2>12. Whole(r)'
      BY <1>1 DEF RunInv, Whole, Looping, Into, Edges, Delivers, Kind
  <2>13. Shapes'
      BY <1>1, <2>3, <2>4, <2>5 DEF Shapes
  <2> QED
      BY <2>6, <2>8, <2>9, <2>10, <2>11, <2>12, <2>13 DEF RunInv
<1> QED
    BY <1>2, <1>3 DEF Resume

-----------------------------------------------------------------------------
(***************************************************************************)
(* The nodes.                                                              *)
(***************************************************************************)

\* What a node leaves, whichever step it takes: where the loop stands.  The run
\* waits for the node, or was stopped, and no more comes of it.
LEMMA NodeMoves ==
    ASSUME Shapes, NEW r \in Runs, RunInv(r), NodeStep(r)
    PROVE  /\ UNCHANGED <<graph, pc, queue, indeg, done, aborted, tracked, at, stores, begun>>
           /\ loaded \subseteq loaded'
           /\ pc[r] \in {"waiting", "rejected", "failed"}
           /\ at[r] \in Nodes
           /\ Kahn(r)'
           /\ phase'[r] \in {"asking", "materializing", "settled", "threw"} => Working(r)'
<1>1. /\ UNCHANGED <<graph, pc, queue, indeg, done, aborted, tracked, at, stores, begun>>
      /\ loaded \subseteq loaded'
      /\ phase[r] \in {"loading", "asking", "materializing"}
    BY DEF NodeStep, LoadSupplied, Answer, Materialize, NodeThrows, LoadInto, loop, data, manager
<1>2. at[r] # 0 /\ pc[r] \notin {"idle", "ready", "answered"}
    BY <1>1 DEF RunInv, Working
<1>3. at[r] \in Nodes /\ pc[r] \in {"waiting", "rejected", "failed"}
    BY <1>2 DEF Shapes
<1>4. \A m : Awaited(r, m)' = Awaited(r, m)
    BY <1>1 DEF Awaited
<1>5. Kahn(r)'
    BY <1>1, <1>4 DEF RunInv, Kahn, Looping
<1>6. phase'[r] \in {"asking", "materializing", "settled", "threw"} => Working(r)'
    BY <1>1, <1>2, <1>3 DEF RunInv, Working, Kind
<1> QED
    BY <1>1, <1>3, <1>5, <1>6

\* What a store holds it keeps.
LEMMA StillStored ==
    ASSUME graph' = graph, loaded \subseteq loaded', NEW r, NEW n, NEW m
    PROVE  /\ InStore(r, n, m) => InStore(r, n, m)'
           /\ Materializes(n)' = Materializes(n)
  BY DEF InStore, StoreOf, Materializes, Ephemeral, Kind, From, Edges

LEMMA LoadTyped ==
    ASSUME Shapes, NEW r \in Runs, NEW store, NEW new \in SUBSET (Runs \X Nodes), NEW next,
           next \in {"asking", "settled"}, LoadInto(r, store, new, next), stores' = stores
    PROVE  /\ loaded' \subseteq stores' \X (Runs \X Nodes)
           /\ phase' \in [Runs -> {"none", "loading", "asking", "materializing", "settled", "threw"}]
           /\ phase'[r] \in {next, "threw"}
           /\ phase'[r] = next => \A d \in new : <<store, d>> \in loaded'
<1>1. CASE /\ store \in stores \/ new = {}
           /\ loaded' = loaded \cup ({store} \X new)
           /\ phase' = [phase EXCEPT ![r] = next]
  <2>1. {store} \X new \subseteq stores \X (Runs \X Nodes)
      BY <1>1
  <2>2. loaded' \subseteq stores' \X (Runs \X Nodes)
      BY <1>1, <2>1 DEF Shapes
  <2>3. phase' \in [Runs -> {"none", "loading", "asking", "materializing", "settled", "threw"}] /\ phase'[r] = next
      BY <1>1 DEF Shapes
  <2>4. \A d \in new : <<store, d>> \in loaded'
      BY <1>1
  <2> QED
      BY <2>2, <2>3, <2>4
<1>2. CASE phase' = [phase EXCEPT ![r] = "threw"] /\ loaded' = loaded
  <2>1. phase' \in [Runs -> {"none", "loading", "asking", "materializing", "settled", "threw"}] /\ phase'[r] = "threw"
      BY <1>2 DEF Shapes
  <2> QED
      BY <1>2, <2>1 DEF Shapes
<1> QED
    BY <1>1, <1>2 DEF LoadInto

LEMMA LoadSuppliedStep ==
    ASSUME Shapes, GraphOK, NEW r \in Runs, RunInv(r), LoadSupplied(r)
    PROVE  Shapes' /\ RunInv(r)'
<1> DEFINE new == {<<r, e.from>> : e \in {f \in Into(graph, at[r]) : f.flow = "rdf" /\ Kind(f.from) = "start"}}
<1>1. /\ UNCHANGED <<graph, pc, queue, indeg, done, aborted, tracked, at, stores, begun>>
      /\ loaded \subseteq loaded'
      /\ pc[r] \in {"waiting", "rejected", "failed"}
      /\ Kahn(r)'
      /\ phase'[r] \in {"asking", "materializing", "settled", "threw"} => Working(r)'
    BY NodeMoves DEF NodeStep
<1>2. LoadInto(r, StoreOf(r, at[r]), new, "asking") /\ UNCHANGED <<results, read, failures>>
    BY DEF LoadSupplied, data
<1>3. new \in SUBSET (Runs \X Nodes)
    BY GraphFacts DEF Into
<1>4. \A e \in Into(graph, at[r]) : e.flow = "rdf" /\ Kind(e.from) = "start" => <<r, e.from>> \in new
    OBVIOUS
<1> HIDE DEF new
<1>5. /\ loaded' \subseteq stores' \X (Runs \X Nodes)
      /\ phase' \in [Runs -> {"none", "loading", "asking", "materializing", "settled", "threw"}]
      /\ phase'[r] \in {"asking", "threw"}
      /\ phase'[r] = "asking" => \A d \in new : <<StoreOf(r, at[r]), d>> \in loaded'
    BY <1>1, <1>2, <1>3, LoadTyped
<1>6. Progress(r)'
    BY <1>1, <1>2, <1>5 DEF RunInv, Progress, Kind
<1>7. Stored(r)'
    BY <1>1, <1>5, StillStored DEF RunInv, Stored
<1>8. Seeded(r)'
    BY <1>1, <1>4, <1>5 DEF Seeded, InStore, StoreOf, Into, Edges, Kind
<1>9. Whole(r)'
    BY <1>1, <1>2 DEF RunInv, Whole, Looping, Into, Edges, Delivers, Kind
<1>10. Shapes'
    BY <1>1, <1>2, <1>5 DEF Shapes
<1> QED
    BY <1>1, <1>5, <1>6, <1>7, <1>8, <1>9, <1>10 DEF RunInv

LEMMA MaterializeStep ==
    ASSUME Shapes, GraphOK, NEW r \in Runs, RunInv(r), Materialize(r)
    PROVE  Shapes' /\ RunInv(r)'
<1>1. /\ UNCHANGED <<graph, pc, queue, indeg, done, aborted, tracked, at, stores, begun>>
      /\ loaded \subseteq loaded'
      /\ pc[r] \in {"waiting", "rejected", "failed"}
      /\ at[r] \in Nodes
      /\ Kahn(r)'
      /\ phase'[r] \in {"asking", "materializing", "settled", "threw"} => Working(r)'
    BY NodeMoves DEF NodeStep
<1>2. /\ phase[r] = "materializing"
      /\ LoadInto(r, StoreOf(r, at[r]), {<<r, at[r]>>}, "settled") /\ UNCHANGED <<results, read, failures>>
    BY DEF Materialize, data
<1>3. {<<r, at[r]>>} \in SUBSET (Runs \X Nodes)
    BY <1>1
<1>4. /\ loaded' \subseteq stores' \X (Runs \X Nodes)
      /\ phase' \in [Runs -> {"none", "loading", "asking", "materializing", "settled", "threw"}]
      /\ phase'[r] \in {"settled", "threw"}
      /\ phase'[r] = "settled" => <<StoreOf(r, at[r]), <<r, at[r]>>>> \in loaded'
    BY <1>1, <1>2, <1>3, LoadTyped
<1>5. Progress(r)'
    BY <1>1, <1>2, <1>4 DEF RunInv, Progress, Kind
<1>6. Stored(r)'
  <2>1. phase'[r] = "settled" => InStore(r, at[r], at[r])'
      BY <1>1, <1>4 DEF InStore, StoreOf
  <2> QED
      BY <1>1, <1>4, <2>1, StillStored DEF RunInv, Stored
<1>7. Seeded(r)'
    BY <1>4 DEF Seeded
<1>8. Whole(r)'
    BY <1>1, <1>2 DEF RunInv, Whole, Looping, Into, Edges, Delivers, Kind
<1>9. Shapes'
    BY <1>1, <1>2, <1>4 DEF Shapes
<1> QED
    BY <1>1, <1>4, <1>5, <1>6, <1>7, <1>8, <1>9 DEF RunInv

LEMMA ThrowsStep ==
    ASSUME Shapes, GraphOK, NEW r \in Runs, RunInv(r), NodeThrows(r)
    PROVE  Shapes' /\ RunInv(r)'
<1>1. /\ UNCHANGED <<graph, pc, queue, indeg, done, aborted, tracked, at, stores, begun>>
      /\ loaded \subseteq loaded'
      /\ Kahn(r)'
      /\ phase'[r] \in {"asking", "materializing", "settled", "threw"} => Working(r)'
    BY NodeMoves DEF NodeStep
<1>2. /\ UNCHANGED <<results, read, loaded>> /\ failures' \in 0 .. MaxFailures
      /\ phase' = [phase EXCEPT ![r] = "threw"]
    BY EngineAssumption DEF NodeThrows, data, manager, Shapes
<1>3. /\ phase' \in [Runs -> {"none", "loading", "asking", "materializing", "settled", "threw"}]
      /\ phase'[r] = "threw"
    BY <1>2 DEF Shapes
<1>4. Progress(r)'
    BY <1>1, <1>2, <1>3 DEF RunInv, Progress, Kind
<1>5. Stored(r)'
    BY <1>1, <1>3, StillStored DEF RunInv, Stored
<1>6. Seeded(r)'
    BY <1>3 DEF Seeded
<1>7. Whole(r)'
    BY <1>1, <1>2 DEF RunInv, Whole, Looping, Into, Edges, Delivers, Kind
<1>8. Shapes'
    BY <1>1, <1>2, <1>3 DEF Shapes
<1> QED
    BY <1>1, <1>3, <1>4, <1>5, <1>6, <1>7, <1>8 DEF RunInv

LEMMA StopStep ==
    ASSUME Shapes, GraphOK, NEW r \in Runs, RunInv(r), ClientLeaves(r) \/ DeadlinePasses(r)
    PROVE  Shapes' /\ RunInv(r)'
<1>1. /\ UNCHANGED <<graph, queue, indeg, done, tracked, at, phase, results, read, stores, loaded, begun, failures>>
      /\ pc' = pc \/ pc' = [pc EXCEPT ![r] = "rejected"]
      /\ aborted' = [aborted EXCEPT ![r] = TRUE]
    BY DEF ClientLeaves, DeadlinePasses, Stop, work, data, manager
<1>2. pc'[r] = pc[r] \/ pc'[r] = "rejected"
    BY <1>1 DEF Shapes
<1>3. \A m : Awaited(r, m)' = Awaited(r, m)
    BY <1>1 DEF Awaited
<1>4. Kahn(r)'
    BY <1>1, <1>2, <1>3 DEF RunInv, Kahn, Looping
<1>5. Working(r)' /\ Progress(r)'
    BY <1>1, <1>2 DEF RunInv, Working, Progress, Kind
<1>6. Stored(r)'
  <2>1. graph' = graph /\ loaded \subseteq loaded'
      BY <1>1
  <2> QED
      BY <1>1, <1>2, <2>1, StillStored DEF RunInv, Stored
<1>7. Seeded(r)'
    BY <1>1, <1>2 DEF RunInv, Seeded, InStore, StoreOf, Kind, Into, Edges
<1>8. Whole(r)'
    BY <1>1, <1>2 DEF RunInv, Whole, Looping, Into, Edges, Delivers, Kind
<1>9. Shapes'
  <2>1. pc' \in [Runs -> {"idle", "ready", "waiting", "rejected", "answered", "failed"}]
      BY <1>1 DEF Shapes
  <2>2. aborted' \in [Runs -> BOOLEAN]
      BY <1>1 DEF Shapes
  <2> QED
      BY <1>1, <2>1, <2>2 DEF Shapes
<1> QED
    BY <1>4, <1>5, <1>6, <1>7, <1>8, <1>9 DEF RunInv

\* What a node works on is data.
LEMMA InputsTyped ==
    ASSUME Shapes, GraphOK, NEW r \in Runs, NEW n \in Nodes
    PROVE  Inputs(r, n) \subseteq Runs \X Nodes
<1> DEFINE carried(flow) == {<<r, e.from>> : e \in {f \in Into(graph, n) : f.flow = flow /\ Supplied(r, f)}}
           stored == {l[2] : l \in {k \in loaded : Ephemeral(n) /\ k[1] = StoreOf(r, n)}}
<1>1. \A e \in Into(graph, n) : e.from \in Nodes
    BY GraphFacts DEF Into
<1>2. carried("table") \subseteq Runs \X Nodes /\ carried("rdf") \subseteq Runs \X Nodes
    BY <1>1
<1>3. stored \subseteq Runs \X Nodes
    BY DEF Shapes
<1>4. Inputs(r, n) = carried("table") \cup stored \/ Inputs(r, n) = stored \/ Inputs(r, n) = carried("rdf")
    BY DEF Inputs
<1> HIDE DEF carried, stored
<1> QED
    BY <1>2, <1>3, <1>4

\* A node the run waits for has all the data its edges bring it.
LEMMA InputsWhole ==
    ASSUME Shapes, GraphOK, NEW r \in Runs, RunInv(r), pc[r] = "waiting", phase[r] = "asking",
           NEW n, n = at[r],
           ~(Kind(n) = "rules" /\ \E e \in Into(graph, n) :
                 e.flow = "rdf" /\ (~Supplied(r, e) \/ Kind(e.from) = "select")),
           NEW e \in Into(graph, n), Delivers(e)
    PROVE  <<r, e.from>> \in Inputs(r, n)
<1> DEFINE d == <<r, e.from>>
           carried(flow) == {<<r, f.from>> : f \in {f \in Into(graph, n) : f.flow = flow /\ Supplied(r, f)}}
           stored == {l[2] : l \in {k \in loaded : Ephemeral(n) /\ k[1] = StoreOf(r, n)}}
<1>1. /\ Kind(n) \in Queries => Inputs(r, n) = carried("table") \cup stored
      /\ Kind(n) = "patch" => Inputs(r, n) = stored
      /\ Kind(n) = "rules" => Inputs(r, n) = carried("rdf")
    BY DEF Inputs, Queries
<1>2. /\ e.flow = "table" /\ Supplied(r, e) => d \in carried("table")
      /\ e.flow = "rdf" /\ Supplied(r, e) => d \in carried("rdf")
    OBVIOUS
<1>3. \A k \in loaded : Ephemeral(n) /\ k[1] = StoreOf(r, n) => k[2] \in stored
    OBVIOUS
<1> HIDE DEF carried, stored
<1>4. n # 0 /\ queue[r] # <<>> /\ n = Head(queue[r]) /\ Kind(n) \notin {"start", "end"}
    BY DEF RunInv, Working
<1>5. n \in Nodes \ done[r] /\ Awaited(r, n) = {}
    BY <1>4, HeadOfQueue DEF RunInv, Looping
<1>6. /\ e \in Edges(graph) /\ e.to = n
      /\ e.from \in Nodes /\ e.flow \in Flows
    BY GraphFacts DEF Into
<1>7. EdgeAccepted(graph, e)
    BY <1>6 DEF GraphOK, Accepted
<1>8. e.from \in done[r]
    BY <1>5, <1>6 DEF Awaited, Edges
<1>9. Kind(e.from) \in {"start", "end"} \/ e.from \in results[r]
    BY <1>8 DEF RunInv, Progress
<1>10. Kind(n) \in Kinds /\ Kind(e.from) \in Kinds
    BY <1>5, <1>6, GraphFacts DEF Kind
<1>11. e.flow \in {"table", "rdf"}
    BY <1>6 DEF Delivers, Flows
<1>12. CASE e.flow = "table"
  <2>1. Kind(n) \in Queries /\ Kind(e.from) \in {"start", "select"}
      BY <1>6, <1>7, <1>12 DEF Delivers, EdgeAccepted, Kind
  <2>2. Supplied(r, e)
      BY <1>9, <2>1 DEF Supplied
  <2> QED
      BY <1>1, <1>2, <1>12, <2>1, <2>2
<1>13. CASE e.flow = "rdf" /\ Kind(n) = "rules"
    BY <1>1, <1>2, <1>13
<1>14. CASE e.flow = "rdf" /\ Kind(n) \in Queries \cup {"patch"} /\ Kind(e.from) = "start"
  <2>1. Kind(n) \in Queries /\ Ephemeral(n)
      BY <1>6, <1>7, <1>14 DEF Delivers, EdgeAccepted, Kind, Ephemeral
  <2>2. InStore(r, n, e.from)
      BY <1>14, <2>1 DEF RunInv, Seeded
  <2>3. d \in stored
      BY <1>3, <2>1, <2>2 DEF InStore
  <2> QED
      BY <1>1, <2>1, <2>3
<1>15. CASE e.flow = "rdf" /\ Kind(n) \in Queries \cup {"patch"} /\ Kind(e.from) # "start"
  <2>1. /\ graph.store[e.from] = graph.store[n]
        /\ Kind(e.from) \notin {"patch", "select"} /\ Ephemeral(e.from)
      BY <1>6, <1>7, <1>15 DEF Delivers, EdgeAccepted, Kind, Ephemeral
  <2>2. Kind(e.from) = "construct"
      BY <1>6, <2>1, GraphFacts DEF Queries
  <2>3. Materializes(e.from)
    <3>1. e \in From(graph, e.from) /\ Kind(e.to) # "end"
        BY <1>4, <1>6 DEF From
    <3> QED
        BY <1>15, <2>1, <2>2, <3>1 DEF Materializes
  <2>4. InStore(r, e.from, e.from)
      BY <1>8, <2>3 DEF RunInv, Stored
  <2>5. Ephemeral(n) /\ StoreOf(r, n) = StoreOf(r, e.from)
      BY <2>1 DEF Ephemeral, StoreOf
  <2>6. d \in stored
      BY <1>3, <2>4, <2>5 DEF InStore
  <2> QED
      BY <1>1, <1>15, <2>6
<1> QED
    BY <1>4, <1>10, <1>11, <1>12, <1>13, <1>14, <1>15 DEF Kinds

LEMMA AnswerStep ==
    ASSUME Shapes, GraphOK, NEW r \in Runs, RunInv(r), Answer(r)
    PROVE  Shapes' /\ RunInv(r)'
<1> DEFINE n == at[r]
           lacks == Kind(n) = "rules" /\ \E e \in Into(graph, n) :
                        e.flow = "rdf" /\ (~Supplied(r, e) \/ Kind(e.from) = "select")
<1>1. /\ UNCHANGED <<graph, pc, queue, indeg, done, aborted, tracked, at, stores, begun>>
      /\ pc[r] \in {"waiting", "rejected", "failed"}
      /\ n \in Nodes
      /\ Kahn(r)'
      /\ phase'[r] \in {"asking", "materializing", "settled", "threw"} => Working(r)'
    BY NodeMoves DEF NodeStep
<1>2. phase[r] = "asking" /\ UNCHANGED <<loaded, failures>>
    BY DEF Answer, manager
<1>3. graph' = graph /\ loaded \subseteq loaded'
    BY <1>1, <1>2
<1>4. CASE lacks
  <2>1. phase' = [phase EXCEPT ![r] = "threw"] /\ UNCHANGED <<results, read>>
      BY <1>4 DEF Answer, data
  <2>2. /\ phase' \in [Runs -> {"none", "loading", "asking", "materializing", "settled", "threw"}]
        /\ phase'[r] = "threw"
      BY <2>1 DEF Shapes
  <2>3. Progress(r)'
      BY <1>1, <2>1, <2>2 DEF RunInv, Progress, Kind
  <2>4. Stored(r)'
      BY <1>1, <1>3, <2>2, StillStored DEF RunInv, Stored
  <2>5. Seeded(r)'
      BY <2>2 DEF Seeded
  <2>6. Whole(r)'
      BY <1>1, <2>1 DEF RunInv, Whole, Looping, Into, Edges, Delivers, Kind
  <2>7. Shapes'
      BY <1>1, <1>2, <2>1, <2>2 DEF Shapes
  <2> QED
      BY <1>1, <2>2, <2>3, <2>4, <2>5, <2>6, <2>7 DEF RunInv
<1>5. CASE ~lacks
  <2>1. /\ read' = [read EXCEPT ![r][n] = Inputs(r, n)]
        /\ results' = [results EXCEPT ![r] = @ \cup {n}]
        /\ phase' = [phase EXCEPT ![r] = IF Materializes(n) THEN "materializing" ELSE "settled"]
      BY <1>5 DEF Answer
  <2>2. \A e \in Into(graph, n) : pc[r] = "waiting" /\ Delivers(e) => <<r, e.from>> \in Inputs(r, n)
      BY <1>2, <1>5, InputsWhole
  <2>3. Inputs(r, n) \subseteq Runs \X Nodes
      BY <1>1, InputsTyped
  <2>4. at[r] # 0 /\ Kind(n) \notin {"start", "end"}
      BY <1>2 DEF RunInv, Working
  <2>5. n = at[r] /\ at'[r] = n
      BY <1>1
  <2> HIDE DEF n, lacks
  <2>6. read' \in [Runs -> [Nodes -> SUBSET (Runs \X Nodes)]]
    <3>1. /\ read \in [Runs -> [Nodes -> SUBSET (Runs \X Nodes)]]
          /\ [read[r] EXCEPT ![n] = Inputs(r, n)] \in [Nodes -> SUBSET (Runs \X Nodes)]
        BY <2>3 DEF Shapes
    <3> QED
        BY <2>1, <3>1
  <2>7. /\ read'[r][n] = Inputs(r, n)
        /\ \A m \in Nodes \ {n} : read'[r][m] = read[r][m]
      BY <1>1, <2>1 DEF Shapes
  <2>8. results' \in [Runs -> SUBSET Nodes] /\ results'[r] = results[r] \cup {n}
      BY <1>1, <2>1 DEF Shapes
  <2>9. /\ phase' \in [Runs -> {"none", "loading", "asking", "materializing", "settled", "threw"}]
        /\ phase'[r] = IF Materializes(n) THEN "materializing" ELSE "settled"
      BY <2>1 DEF Shapes
  <2>10. Progress(r)'
    <3>1. \A m : Kind(m)' = Kind(m)
        BY <1>1 DEF Kind
    <3> QED
        BY <1>1, <2>4, <2>5, <2>8, <3>1 DEF RunInv, Progress
  <2>11. Stored(r)'
      BY <1>1, <1>3, <2>5, <2>9, StillStored DEF RunInv, Stored
  <2>12. Seeded(r)'
      BY <2>9 DEF Seeded
  <2>13. Whole(r)'
    <3> SUFFICES ASSUME Looping(r)', NEW m \in results'[r], NEW e \in Into(graph, m), Delivers(e)
                 PROVE  <<r, e.from>> \in read'[r][m]
        BY <1>1 DEF Whole, Into, Edges, Delivers, Kind
    <3>1. pc[r] = "waiting" /\ Looping(r)
        BY <1>1 DEF Looping
    <3>2. CASE m = n
        BY <2>2, <2>7, <3>1, <3>2
    <3>3. CASE m # n
      <4>1. m \in results[r] /\ m \in Nodes
          BY <2>8, <3>3 DEF Shapes
      <4> QED
          BY <2>7, <3>1, <3>3, <4>1 DEF RunInv, Whole
    <3> QED
        BY <3>2, <3>3
  <2>14. Shapes'
      BY <1>1, <1>2, <2>6, <2>8, <2>9 DEF Shapes
  <2> QED
      BY <1>1, <2>9, <2>10, <2>11, <2>12, <2>13, <2>14 DEF RunInv
<1> QED
    BY <1>4, <1>5

-----------------------------------------------------------------------------
(***************************************************************************)
(* The second invariant, and what follows from it.                         *)
(***************************************************************************)

RInv == Shapes /\ GraphOK /\ \A r \in Runs : RunInv(r)

LEMMA RInvInit == Init => RInv
<1> SUFFICES ASSUME Init
             PROVE  RInv
    OBVIOUS
<1>1. GraphOK
    BY DEF Init, GraphOK
<1>2. Shapes
  <2>1. indeg \in [Runs -> [Nodes -> Int]]
    <3>1. ASSUME NEW m \in Nodes
          PROVE  Cardinality({i \in DOMAIN graph.edges : graph.edges[i].to = m}) \in Int
      <4>1. Cardinality({i \in DOMAIN graph.edges : graph.edges[i].to = m}) \in Nat
          BY <1>1, CountedEdges
      <4> QED
          BY <4>1
    <3>2. Indegrees \in [Nodes -> Int]
        BY <3>1 DEF Indegrees
    <3> QED
        BY <3>2 DEF Init
  <2>2. queue \in [Runs -> Seq(Nodes)]
      BY DEF Init
  <2>3. failures \in 0 .. MaxFailures
      BY EngineAssumption DEF Init
  <2>4. loaded \subseteq stores \X (Runs \X Nodes) /\ stores \subseteq Runs \X StoreIds
      BY DEF Init
  <2> QED
      BY <2>1, <2>2, <2>3, <2>4 DEF Init, Shapes
<1>3. ASSUME NEW r \in Runs
      PROVE  RunInv(r)
  <2>1. pc[r] = "idle" /\ done[r] = {} /\ at[r] = 0 /\ phase[r] = "none" /\ results[r] = {}
      BY DEF Init
  <2>2. \A m \in Nodes : begun[r][m] = 0
      BY DEF Init
  <2>3. \A m \in Nodes : indeg[r][m] = Cardinality(Awaited(r, m))
    <3> SUFFICES ASSUME NEW m \in Nodes
                 PROVE  indeg[r][m] = Cardinality(Awaited(r, m))
        OBVIOUS
    <3>1. Awaited(r, m) = {i \in DOMAIN graph.edges : graph.edges[i].to = m}
        BY <2>1 DEF Awaited
    <3>2. indeg[r] = Indegrees
        BY DEF Init
    <3> QED
        BY <3>1, <3>2 DEF Indegrees
  <2>4. Kahn(r)
      BY <2>1, <2>3 DEF Kahn, Looping
  <2>5. Working(r) /\ Progress(r)
      BY <2>1, <2>2 DEF Working, Progress
  <2> QED
      BY <2>1, <2>4, <2>5 DEF RunInv, Stored, Seeded, Whole, Looping
<1> QED
    BY <1>1, <1>2, <1>3 DEF RInv

LEMMA RInvStep ==
    ASSUME RInv, StoresAreTracked, Next
    PROVE  RInv'
<1>1. PICK r \in Runs : Moves(r)
    BY DEF Next, Moves
<1>2. Shapes /\ GraphOK /\ RunInv(r)
    BY DEF RInv
<1>3. Shapes' /\ RunInv(r)'
  <2>1. CASE Execute(r)
      BY <1>2, <2>1, ExecuteStep
  <2>2. CASE Refuse(r) \/ Collect(r) \/ Fail(r)
      BY <1>2, <2>2, EndingStep
  <2>3. CASE Pass(r) \/ BeginNode(r) \/ Resume(r)
      BY <1>2, <2>3, PassStep, BeginStep, ResumeStep
  <2>4. CASE LoadSupplied(r) \/ Answer(r) \/ Materialize(r) \/ NodeThrows(r)
      BY <1>2, <2>4, LoadSuppliedStep, AnswerStep, MaterializeStep, ThrowsStep
  <2>5. CASE ClientLeaves(r) \/ DeadlinePasses(r)
      BY <1>2, <2>5, StopStep
  <2> QED
      BY <1>1, <2>1, <2>2, <2>3, <2>4, <2>5 DEF Moves, LoopStep, NodeStep
<1>4. \A q \in Runs \ {r} : RunInv(q)'
    BY <1>1, <1>2, RunElsewhere DEF RInv
<1>5. GraphOK'
  <2>1. graph' = graph
      BY <1>1, GraphStays
  <2> QED
      BY <1>2, <2>1 DEF GraphOK
<1> QED
    BY <1>3, <1>4, <1>5 DEF RInv

LEMMA RInvStutter ==
    ASSUME RInv, UNCHANGED vars
    PROVE  RInv'
<1>1. UNCHANGED <<graph, pc, queue, indeg, done, aborted, tracked, at, phase, results, read, stores, loaded,
                  begun, failures>>
    BY DEF vars, loop, work, data, manager
<1>2. Shapes' /\ GraphOK'
    BY <1>1 DEF RInv, Shapes, GraphOK
<1>3. ASSUME NEW r \in Runs
      PROVE  RunInv(r)'
  <2>1. Same(r) /\ graph' = graph /\ \A l \in loaded : l[1][1] = r => l \in loaded'
      BY <1>1 DEF Same
  <2> QED
      BY <2>1, KahnElsewhere, WorkingElsewhere, SupplyElsewhere DEF RInv, RunInv
<1> QED
    BY <1>2, <1>3 DEF RInv

\* The order and the data of a run are right in every state of every behaviour.
THEOREM OrderAndData == Spec => []RInv
<1>1. Init => RInv
    BY RInvInit
<1>2. RInv /\ IInv /\ [Next]_vars => RInv'
    BY RInvStep, RInvStutter DEF IInv
<1> QED
    BY <1>1, <1>2, Invariance, PTL DEF Spec

\* Every variable keeps its range, no node is begun twice in a run, and none waits
\* for fewer than no predecessors, parallel edges or not (ExecutionEngine.execute).
THEOREM TypeCorrect == Spec => []TypeOK
<1>1. ASSUME RInv
      PROVE  TypeOK
  <2>1. Shapes /\ GraphOK
      BY <1>1 DEF RInv
  <2>2. indeg \in [Runs -> [Nodes -> Nat]]
    <3>1. ASSUME NEW r \in Runs, NEW m \in Nodes
          PROVE  indeg[r][m] \in Nat
      <4>1. Awaited(r, m) \in SUBSET DOMAIN graph.edges
          BY DEF Awaited
      <4>2. Cardinality(Awaited(r, m)) \in Nat
          BY <2>1, <4>1, CountedEdges
      <4> QED
          BY <1>1, <4>2 DEF RInv, RunInv, Kahn
    <3>2. indeg \in [Runs -> [Nodes -> Int]]
        BY <2>1 DEF Shapes
    <3> QED
        BY <3>1, <3>2
  <2>3. begun \in [Runs -> [Nodes -> 0 .. 1]]
    <3>1. \A r \in Runs : \A m \in Nodes : begun[r][m] \in 0 .. 1
        BY <1>1 DEF RInv, RunInv, Progress
    <3>2. begun \in [Runs -> [Nodes -> Nat]]
        BY <2>1 DEF Shapes
    <3> QED
        BY <3>1, <3>2
  <2> QED
      BY <2>1, <2>2, <2>3 DEF Shapes, TypeOK
<1> QED
    BY <1>1, OrderAndData, PTL

\* A run that answers has run every node of its graph, and each had all the data
\* its edges bring it (ExecutionEngine.execute, buildArgumentSetsForNode).
THEOREM WholeAnswers == Spec => []AnswersAreWhole
<1>1. ASSUME RInv
      PROVE  AnswersAreWhole
  <2> SUFFICES ASSUME NEW r \in Runs, pc[r] = "answered"
               PROVE  done[r] = Nodes /\ Whole(r)
      BY DEF AnswersAreWhole, Whole, Looping
  <2>1. Shapes /\ GraphOK /\ Kahn(r) /\ Whole(r)
      BY <1>1 DEF RInv, RunInv
  <2>2. \A m \in Nodes \ done[r] : Awaited(r, m) # {}
    <3>1. queue[r] = <<>> /\ Range(queue[r]) = {m \in Nodes \ done[r] : Awaited(r, m) = {}}
        BY <2>1 DEF Kahn, Looping
    <3>2. Range(queue[r]) = {}
        BY <3>1 DEF Range
    <3> QED
        BY <3>1, <3>2
  <2>3. done[r] \subseteq Nodes
      BY <2>1 DEF Shapes
  <2>4. ASSUME Nodes \ done[r] # {}
        PROVE  FALSE
    <3>1. PICK n \in Nodes \ done[r] : \A e \in Into(graph, n) : e.from \notin Nodes \ done[r]
        BY <2>1, <2>4 DEF GraphOK, Accepted, Acyclic
    <3>2. PICK i \in Awaited(r, n) : TRUE
        BY <2>2
    <3>3. /\ graph.edges[i] \in Into(graph, n) /\ graph.edges[i].from \notin done[r]
          /\ graph.edges[i].from \in Nodes
        BY <2>1, <3>2, GraphFacts DEF Awaited, Into, Edges
    <3> QED
        BY <3>1, <3>3
  <2> QED
      BY <2>1, <2>3, <2>4
<1> QED
    BY <1>1, OrderAndData, PTL

=============================================================================
