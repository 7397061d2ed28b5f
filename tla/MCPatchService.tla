---------------------------- MODULE MCPatchService ----------------------------
(* Instances of PatchService for TLC: an update that reads what it writes.     *)
EXTENDS PatchService, TLC

CONSTANTS qa, qb

\* What it does depends on the store: qa becomes qb, and qa is put where it is not.
Flip ==
    [del |-> [g \in GraphStates |-> g \cap {qa}],
     ins |-> [g \in GraphStates |-> IF qa \in g THEN {qb} ELSE {qa}]]

MCUpdate == [flip |-> Flip]

\* The calls differ only by name.
Symmetry == Permutations(Calls)

=============================================================================
