---------------------------- MODULE StockBalance ----------------------------
(***************************************************************************)
(* The arithmetic of a StockBalance row (inventory/models.py): a quantity  *)
(* on hand and the part of it that is reserved.  The service methods of    *)
(* StockMovement lock the row, validate, change one or both numbers, call  *)
(* full_clean on the row and save it; the operators below are those steps, *)
(* shared by the modules that move stock.  Where the validation already    *)
(* implies that the changed row is clean, the action does not repeat it.   *)
(***************************************************************************)
EXTENDS Integers

BalanceType == [quantity : Nat, reserved : Nat]

\* StockBalance.clean: neither number is negative and no more is reserved than is on hand.
BalanceClean(b) ==
  /\ b.quantity >= 0
  /\ b.reserved >= 0
  /\ b.reserved <= b.quantity

\* StockBalance.available_quantity.
Available(b) == IF b.quantity > b.reserved THEN b.quantity - b.reserved ELSE 0

\* Wrong variants, against which the properties are tested.
CanIssue_Unlimited(b, q, lotExpired, allowReserved) == q > 0 /\ ~ lotExpired
Consumed_StillOnHand(b, q) == [quantity |-> b.quantity, reserved |-> b.reserved - q]
Released_NotSaved(b, q) == b

\* StockMovement._validate_issue of q units of an approved balance.
CanIssue(b, q, lotExpired, allowReserved) ==
  /\ q > 0
  /\ ~ lotExpired
  /\ q <= IF allowReserved THEN b.quantity ELSE Available(b)

\* reserve_stock: q more units are promised.
Reserved(b, q) == [quantity |-> b.quantity, reserved |-> b.reserved + q]

\* issue_reserved_stock and record_reserved_loss: q promised units leave the shelf.
Consumed(b, q) == [quantity |-> b.quantity - q, reserved |-> b.reserved - q]

\* release_reserved_stock: q units are promised no longer.
Released(b, q) == [quantity |-> b.quantity, reserved |-> b.reserved - q]

\* _increase_balance (q > 0), issue_stock and a negative adjust_stock (q < 0).
Moved(b, q) == [quantity |-> b.quantity + q, reserved |-> b.reserved]
=============================================================================
