-------------------------- MODULE MCVersionedEntity --------------------------
(* Instances of VersionedEntity for TLC: all saves but the third project the  *)
(* same variables.                                                            *)
EXTENDS VersionedEntity

MCShape == [s \in Saves |-> IF s = 3 THEN 2 ELSE 1]

=============================================================================
