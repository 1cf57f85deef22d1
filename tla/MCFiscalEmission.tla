-------------------------- MODULE MCFiscalEmission --------------------------
(* Instances of FiscalEmission for TLC. *)
EXTENDS FiscalEmission, TLC

CONSTANTS d1, d2, p1, p2, e1, m1, m2

Symmetry == Permutations({d1, d2}) \cup Permutations({p1, p2}) \cup Permutations({m1, m2})
=============================================================================
