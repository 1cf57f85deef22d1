-------------------------- MODULE MCPurchaseReceipt --------------------------
(***************************************************************************)
(* Small instances of PurchaseReceipt for TLC.                             *)
(***************************************************************************)
EXTENDS PurchaseReceipt, TLC

CONSTANTS r1, r2, o1, l1, e1, e2

Symmetry == Permutations(Receipt) \cup Permutations(Editor)
=============================================================================
