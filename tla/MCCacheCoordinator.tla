-------------------------- MODULE MCCacheCoordinator --------------------------
(* Instances of CacheCoordinator for TLC. *)
EXTENDS CacheCoordinator, TLC

\* Writes and refresh slots are interchangeable.  (Ids are not: an idle slot
\* names an arbitrary one.)  Not used where a liveness property is checked.
Symmetry == Permutations(Ops) \cup Permutations(Refreshes)

=============================================================================
