------------------------------- MODULE PatchLog -------------------------------
(***************************************************************************)
(* The stored patches of one backend read as a log, and the graph folded   *)
(* from it (packages/api/src/lib/patchLog.ts, packages/rdf-delta/src/      *)
(* patchLog.ts).  The constants are the records; a module that keeps them  *)
(* gives its variables for them.                                           *)
(*                                                                         *)
(* A log has no total order of its own: patches are ordered by time, then  *)
(* by content, then by a random identifier.  What holds of a log is stated *)
(* of every order those keys can give.                                     *)
(***************************************************************************)
EXTENDS Naturals, Sequences, SequencesExt, FiniteSets

CONSTANTS
    Stored,       \* the patches that are records
    status,       \* their status
    recorded,     \* the quads they delete and add
    dateApplied,  \* when they were applied
    inverseOf     \* the patch a revert undoes

\* Faulty: what was only previewed counts as history.
Log_WithPreviews == Stored

\* A reverted patch did reach the store: it and its inverse are both history.
Log == {p \in Stored : status[p] \in {"applied", "reverted"}}

\* Positions by the keys: time, then content, where the order of two contents
\* and of two records of one content is arbitrary.
KeyOrders ==
    {pos \in [Log -> 1 .. Cardinality(Log)] :
        /\ \A p, q \in Log : pos[p] = pos[q] => p = q
        /\ \A p, q \in Log : dateApplied[p] < dateApplied[q] => pos[p] < pos[q]
        /\ \A p, q, r \in Log :
             /\ dateApplied[p] = dateApplied[q] /\ recorded[p] = recorded[r]
             /\ pos[p] < pos[q] /\ pos[q] < pos[r] /\ dateApplied[q] = dateApplied[r]
             => recorded[p] = recorded[q]}

\* A revert whose target was not reached yet waits for it, and comes right after
\* it: the positions that lead from the first patch of its chain to it.
Path(pos) ==
    LET path[p \in Log] ==
            IF inverseOf[p] \in Log /\ path[inverseOf[p]][1] > pos[p]
            THEN Append(path[inverseOf[p]], pos[p])
            ELSE <<pos[p]>>
    IN  path

Before(path, p, q) ==
    \/ IsStrictPrefix(path[p], path[q])
    \/ \E k \in DOMAIN path[p] \cap DOMAIN path[q] :
         /\ SubSeq(path[p], 1, k - 1) = SubSeq(path[q], 1, k - 1)
         /\ path[p][k] < path[q][k]

\* Neighbours in the log that share a timestamp, unless they have one content or
\* the second undoes the first: their order is a guess, and the caller is told.
TiedTimestamp(path) ==
    \E p, q \in Log :
        /\ Before(path, p, q)
        /\ \A r \in Log : ~(Before(path, p, r) /\ Before(path, r, q))
        /\ dateApplied[p] = dateApplied[q]
        /\ recorded[p] # recorded[q]
        /\ inverseOf[q] # p

\* A quad is there when the last patch that names it adds it.
Fold(path) ==
    UNION {{q \in recorded[p].additions :
              \A r \in Log : Before(path, p, r) => q \notin recorded[r].deletions} : p \in Log}

=============================================================================
