-------------------------- MODULE MCDurableStores --------------------------
(* DurableStores for TLC.  A durable memory store meets everything at once, *)
(* so fewer callers take part.                                             *)
EXTENDS DurableStores

CONSTANTS w1, w2, v1, v2

MCCallers == [persistent |-> {w1, w2},
              durable    |-> {w1, v1, v2},
              readOnly   |-> {w1, w2, v1, v2}]
MCSaves == [persistent |-> 0, durable |-> 1, readOnly |-> 2]
MCMoves == [persistent |-> 0, durable |-> 1, readOnly |-> 2]
=============================================================================
