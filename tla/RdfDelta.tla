------------------------------- MODULE RdfDelta -------------------------------
(***************************************************************************)
(* What a SPARQL update does to a set of quads, and the ground patch that  *)
(* packages/rdf-delta derives for it.                                      *)
(*                                                                         *)
(* An operation is a record of two functions of the graph it runs against: *)
(* op.del[g] and op.ins[g] are the quads its DELETE and INSERT templates   *)
(* instantiate to over g.  For a ground operation (DELETE DATA, INSERT     *)
(* DATA) both are constant.  Nothing else about the text of an update      *)
(* matters to a patch, so nothing else is modelled.                        *)
(***************************************************************************)
EXTENDS Naturals

CONSTANT Quads             \* the quads there are

GraphStates == SUBSET Quads

Operations == [del : [GraphStates -> GraphStates], ins : [GraphStates -> GraphStates]]

Deltas == [deletions : GraphStates, additions : GraphStates]

EmptyDelta == [deletions |-> {}, additions |-> {}]

\* SPARQL 1.1 Update: both templates are instantiated before anything changes,
\* and the deletions are made before the insertions.
Execute(op, g) == (g \ op.del[g]) \cup op.ins[g]

\* The header of derive.ts: what an observer of the operation sees change.
NetEffect(op, g) ==
    [deletions |-> (g \cap op.del[g]) \ op.ins[g],
     additions |-> op.ins[g] \ g]

\* A patch applied as DELETE DATA, then INSERT DATA, in one request.
ApplyDelta(p, g) == (g \ p.deletions) \cup p.additions

\* The patch with its two sides swapped.
Invert(p) == [deletions |-> p.additions, additions |-> p.deletions]

\* The smallest patch that takes g to h.
Difference(g, h) == [deletions |-> g \ h, additions |-> h \ g]

-----------------------------------------------------------------------------
(***************************************************************************)
(* Operations by how they are written, for the instances TLC checks.       *)
(***************************************************************************)

Ground(dels, adds) ==
    [del |-> [g \in GraphStates |-> dels], ins |-> [g \in GraphStates |-> adds]]

\* DELETE { dels } INSERT { adds } WHERE { pattern }
Modify(pattern, dels, adds) ==
    [del |-> [g \in GraphStates |-> IF pattern \subseteq g THEN dels ELSE {}],
     ins |-> [g \in GraphStates |-> IF pattern \subseteq g THEN adds ELSE {}]]

\* DELETE WHERE { ?s ?p ?o }: whatever of these quads is there.
DeleteMatching(quads) ==
    [del |-> [g \in GraphStates |-> g \cap quads], ins |-> [g \in GraphStates |-> {}]]

\* MOVE: the quads of one graph become the quads of another.
MoveQuads(from, to, Renamed) ==
    [del |-> [g \in GraphStates |-> g \cap (from \cup to)],
     ins |-> [g \in GraphStates |-> {Renamed[q] : q \in g \cap from}]]

=============================================================================
