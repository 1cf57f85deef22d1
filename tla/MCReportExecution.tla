-------------------------- MODULE MCReportExecution --------------------------
(***************************************************************************)
(* Small instances of ReportExecution for TLC.                             *)
(***************************************************************************)
EXTENDS ReportExecution, TLC

CONSTANTS w1, w2, c1, u1, f1, f2, f3, f4

Symmetry == Permutations({w1, w2}) \cup Permutations({f1, f2, f3})
=============================================================================
