-------------------------- MODULE MCConnectionAudit --------------------------
(* TLC instance of ConnectionAudit: the origins, entries and callers of the *)
(* runs are model values, interchangeable with each other.                  *)
EXTENDS ConnectionAudit, TLC

Symmetry == Permutations(Origins) \cup Permutations(Entries)

=============================================================================
