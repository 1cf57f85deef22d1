------------------------- MODULE ReservationPromise -------------------------
(***************************************************************************)
(* What a reservation of material promises, whatever orders, edits and     *)
(* other movements do to the same lots: a row claims a quantity of one lot *)
(* once, the claim is settled once and in one piece, by what is issued,    *)
(* lost and returned, and then stands for good.  Each lot has on its shelf *)
(* whatever is claimed and unsettled of it, and its counter says how much  *)
(* that is.                                                                *)
(***************************************************************************)
EXTENDS Summation

CONSTANTS RowCount, Lot, NoLot

VARIABLES claim,     \* what each row has claimed and what became of it
          shelf,     \* the quantity on hand, by lot
          reserved   \* the part of it that is claimed, by lot

promiseVars == <<claim, shelf, reserved>>

Row == 1..RowCount
Claim == [lot : Lot \cup {NoLot}, quantity : Nat, issued : Nat, lost : Nat, returned : Nat]
NoClaim == [lot |-> NoLot, quantity |-> 0, issued |-> 0, lost |-> 0, returned |-> 0]

Left(c) == c.quantity - (c.issued + c.lost + c.returned)
Used(c) == c.issued + c.lost

\* What the claims of a table hold of lot k, and what they have used of it.
HeldOf(table, k) ==
  Total([r \in Row |-> IF table[r].lot = k THEN Left(table[r]) ELSE 0], RowCount)
UsedOf(table, k) ==
  Total([r \in Row |-> IF table[r].lot = k THEN Used(table[r]) ELSE 0], RowCount)

Counted == reserved' = [k \in Lot |-> HeldOf(claim', k)]
Backed == \A k \in Lot : reserved[k] <= shelf[k]

Init ==
  /\ claim = [r \in Row |-> NoClaim]
  /\ shelf \in [Lot -> Nat]
  /\ reserved = [k \in Lot |-> 0]

\* Rows without a claim make one each, of stock that is free.
Reserve ==
  /\ claim' # claim
  /\ claim' \in [Row -> Claim]
  /\ \A r \in Row : claim'[r] # claim[r] =>
       /\ claim[r] = NoClaim
       /\ claim'[r].lot \in Lot
       /\ Left(claim'[r]) = claim'[r].quantity /\ claim'[r].quantity > 0
  /\ Counted /\ Backed'
  /\ UNCHANGED shelf

\* Claims are settled, each wholly; what they used leaves the shelf.
Settle ==
  /\ claim' # claim
  /\ claim' \in [Row -> Claim]
  /\ \A r \in Row : claim'[r] # claim[r] =>
       /\ claim'[r].lot = claim[r].lot /\ claim'[r].quantity = claim[r].quantity
       /\ Left(claim[r]) = claim[r].quantity /\ Left(claim'[r]) = 0
  /\ Counted /\ Backed'
  /\ shelf' = [k \in Lot |-> shelf[k] - (UsedOf(claim', k) - UsedOf(claim, k))]

\* Other movements bring stock to a lot or take what is free of it.
Move(k) ==
  /\ shelf'[k] # shelf[k]
  /\ \A j \in Lot \ {k} : shelf'[j] = shelf[j]
  /\ Backed'
  /\ UNCHANGED <<claim, reserved>>

Next == Reserve \/ Settle \/ \E k \in Lot : Move(k)

Spec == Init /\ [][Next]_promiseVars
=============================================================================
