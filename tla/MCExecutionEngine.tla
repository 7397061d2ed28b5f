-------------------------- MODULE MCExecutionEngine --------------------------
(* Instances of ExecutionEngine for TLC: a start node, an end node and three   *)
(* nodes between them, with some of a list of edges, in one store or two.      *)
EXTENDS ExecutionEngine

CONSTANTS sa, sb

E(from, to, flow) == [from |-> from, to |-> to, flow |-> flow]

\* The start node is 5 and the end node 1: the graph holds them in no useful order.
SelectFirst == <<"end", "select", "construct", "construct", "start">>
PatchFirst == <<"end", "patch", "construct", "rules", "start">>
SelectToRules == <<"end", "select", "construct", "rules", "start">>

OneStore == <<Backend, sa, sa, sa, Backend>>
TwoStores == <<Backend, sa, sb, sa, Backend>>

MCNodes == ({SelectFirst, PatchFirst} \X {OneStore, TwoStores}) \cup {<<SelectToRules, TwoStores>>}

\* The edges a graph may have: a cycle, parallel edges, one GraphBuilder refuses
\* for some kinds of node, and a table sent to a patch node among them.
Always == <<E(5, 2, "table"), E(5, 3, "rdf"), E(3, 2, "rdf"), E(4, 1, "rdf")>>
Maybe == <<E(2, 4, "table"), E(2, 4, "rdf"), E(2, 4, "control"), E(3, 4, "rdf"), E(4, 3, "control")>>

Some(S) ==
    LET chosen == SelectSeq([i \in 1 .. Len(Maybe) |-> i], LAMBDA i : i \in S)
    IN [k \in DOMAIN chosen |-> Maybe[chosen[k]]]

MCGraphs ==
    {[kind |-> k[1], store |-> [n \in Nodes |-> IF k[1][n] = "rules" THEN Backend ELSE k[2][n]],
      edges |-> Some(S) \o Always] : k \in MCNodes, S \in SUBSET (1 .. Len(Maybe))}

=============================================================================
