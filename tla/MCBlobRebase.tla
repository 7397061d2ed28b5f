----------------------------- MODULE MCBlobRebase -----------------------------
(* Instances of BlobRebase for TLC: two writers, one of whose updates reads    *)
(* what the other writes, over three quads: one in the graph of the first      *)
(* writer and the checkpointer, one with a blank node, one in another graph.   *)
EXTENDS BlobRebase

CONSTANTS qa, qb, qx, w1, w2

\* Insert qa; move qa to qb, and note it in the other graph.
MCUpdate ==
    [w \in Writers |-> IF w = w1 THEN Ground({}, {qa}) ELSE Modify({qa}, {qa}, {qb, qx})]

=============================================================================
