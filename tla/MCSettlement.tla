---------------------------- MODULE MCSettlement ----------------------------
(***************************************************************************)
(* A small instance of Settlement for TLC.                                 *)
(***************************************************************************)
EXTENDS Settlement, TLC

CONSTANTS t1, t2, a1, m1

\* A discount, and interest or a penalty.
Charges == {-2, 1}

Symmetry == Permutations(Title)
=============================================================================
