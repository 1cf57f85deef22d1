-------------------------- MODULE MCLotDisposition --------------------------
(***************************************************************************)
(* Small instances of LotDisposition for TLC.                              *)
(***************************************************************************)
EXTENDS LotDisposition, TLC

CONSTANTS p1, p2, b1, b2, a1, a2

OnLot == [k \in Block |-> {"lot"}]
\* Two blocks that meet on the product.
Meeting == [k \in Block |-> IF k = b1 THEN {"lot", "product"} ELSE {"product", "supplier"}]

Symmetry == Permutations(Process) \cup Permutations(Address)
=============================================================================
