--------------------------- MODULE ProductionOrder ---------------------------
(***************************************************************************)
(* Production orders and the stock they hold: the lifecycle of an order,   *)
(* its material allocations, its outputs, and the approved stock balances  *)
(* the allocations reserve and consume.                                    *)
(*                                                                         *)
(* Every operation of production/services.py and production/models.py runs *)
(* in one database transaction that locks the order, then its allocations, *)
(* then the balances, and keeps the locks until it commits; an operation   *)
(* that raises ValidationError changes nothing.  One action is one such    *)
(* transaction, and its guard is everything the transaction validates.     *)
(*                                                                         *)
(* A definition named X_Something is a deliberately wrong variant of X     *)
(* that the properties are tested against; nothing uses it.                *)
(***************************************************************************)
EXTENDS Integers, StockBalance, Summation

CONSTANTS
  Order,        \* production orders
  NumLines,     \* MaterialConsumption rows are 1..NumLines, their primary keys
  Output,       \* ProductionOutput rows
  Lot,          \* material lots, each with one approved balance at one address
  NoLot,        \* an allocation without a lot
  OrderOf,      \* the order of a row, immutable
  MaterialOf,   \* the material of a row
  LotMaterial,  \* the product of a lot, immutable
  OutputOrder,  \* the order of an output, immutable
  Formula,      \* the materials of the active components of an order's formula
  Quantity,     \* the quantities users enter
  InitialStock, \* the approved quantity of each lot at the start
  MaxStock,     \* bound: no receipt or upward adjustment takes a lot above it
  Expirable,    \* bound: the lots and rows whose expiry date can pass
  Closable,     \* bound: the lots and outputs whose address can be deactivated
  Withdrawable  \* bound: the materials and orders whose masters can be withdrawn

Line == 1..NumLines

ASSUME RowAssumption ==
  /\ NumLines \in Nat
  /\ OrderOf \in [Line -> Order]
  /\ DOMAIN MaterialOf = Line
  /\ DOMAIN LotMaterial = Lot
  /\ OutputOrder \in [Output -> Order]
  /\ DOMAIN Formula = Order
  /\ NoLot \notin Lot

ASSUME QuantityAssumption ==
  /\ Quantity \subseteq Nat
  /\ InitialStock \in [Lot -> Nat]
  /\ MaxStock \in Nat

VARIABLES
  order,       \* status of each order
  line,        \* the allocations
  bal,         \* the approved balance of each lot
  posted,      \* net quantity of the movements of each lot that no allocation made
  out,         \* the outputs
  genealogy,   \* StockLotGenealogy: quantity of each input lot in each output lot
  expired,     \* lots and rows whose expiry date has passed
  closed,      \* lots and outputs whose warehouse, location or site is inactive
  withdrawn    \* materials not available; orders whose product, formula or route is not

stockVars == <<bal, posted>>
outputVars == <<out, genealogy>>
environment == <<expired, closed, withdrawn>>
vars == <<order, line, stockVars, outputVars, environment>>

-----------------------------------------------------------------------------
(* Rows *)

OrderStatus == {"draft", "approved", "released", "in_progress", "paused",
                "completed", "cancelled"}

CancellableStatuses_WithCompleted == OrderStatus \ {"cancelled"}

CancellableStatuses == {"draft", "approved", "released", "in_progress", "paused"}

\* The fields of an allocation a user edits, and the quantities of the
\* movements linked to it (0: no movement; a movement is always positive).
\* reserved_quantity and issued_quantity equal their movement's quantity.
LineType ==
  [exists : BOOLEAN, lot : Lot \cup {NoLot},
   planned : Nat, actual : Nat, loss : Nat, returned : Nat,
   reservation : Nat, issue : Nat, lossMovement : Nat, release : Nat]

AbsentLine ==
  [exists |-> FALSE, lot |-> NoLot,
   planned |-> 0, actual |-> 0, loss |-> 0, returned |-> 0,
   reservation |-> 0, issue |-> 0, lossMovement |-> 0, release |-> 0]

\* quarantine: disposition of the output's lot; stock: what its receipt
\* movements posted to the lot's quarantine balance.
OutputType ==
  [status : {"absent", "pending", "received"}, produced : Nat,
   stock : Nat, quarantined : BOOLEAN]

AbsentOutput ==
  [status |-> "absent", produced |-> 0, stock |-> 0, quarantined |-> TRUE]

Items(o) == {l \in Line : OrderOf[l] = o /\ line[l].exists}
Outputs(o) == {x \in Output : OutputOrder[x] = o /\ out[x].status # "absent"}

\* What a row still holds of its reservation.
Outstanding(r) == r.reservation - (r.issue + r.lossMovement + r.release)

\* What the rows still hold, and what they took from the shelf.
Held == [l \in Line |-> Outstanding(line[l])]
Taken == [l \in Line |-> line[l].issue + line[l].lossMovement]

\* Each row's share f[l] if it is allocated to lot k.
OnLot(k, f) == [l \in Line |-> IF line[l].lot = k THEN f[l] ELSE 0]

\* What the quantities f demand of lot k (the defaultdict keyed by balance).
Demand(k, f) == Total(OnLot(k, f), NumLines)

\* A wrong variant: the row of a linked movement may move to another lot.
LinksMatch_LotFree(l, r) ==
  /\ r.lossMovement > 0 => r.loss = r.lossMovement
  /\ r.release > 0 => r.returned = r.release

\* _validate_stock_movement for the four links of row l: once a movement is
\* linked, the lot is the movement's lot and the quantity the movement's.
LinksMatch(l, r) ==
  /\ r.reservation > 0 => r.lot # NoLot /\ r.lot = line[l].lot
  /\ r.lossMovement > 0 => r.loss = r.lossMovement
  /\ r.release > 0 => r.returned = r.release

\* The rest of MaterialConsumption.clean: the lot is of the material, the row's
\* own expiry date has not passed and the material is available.
Usable(l, r) ==
  /\ r.lot \in Lot => LotMaterial[r.lot] = MaterialOf[l]
  /\ l \notin expired
  /\ MaterialOf[l] \notin withdrawn

LineClean(l) == LinksMatch(l, line[l]) /\ Usable(l, line[l])

-----------------------------------------------------------------------------
(* Lifecycle of an order *)

\* Statuses whose full_clean requires product, formula and route released.
Transition(o, from, to, needsRelease) ==
  /\ order[o] = from
  /\ needsRelease => o \notin withdrawn
  /\ order' = [order EXCEPT ![o] = to]
  /\ UNCHANGED <<line, stockVars, outputVars, environment>>

Approve(o) == Transition(o, "draft", "approved", FALSE)
Release(o) == Transition(o, "approved", "released", TRUE)
Start(o) == Transition(o, "released", "in_progress", TRUE)
Pause(o) == Transition(o, "in_progress", "paused", FALSE)
Resume(o) == Transition(o, "paused", "in_progress", FALSE)
Complete(o) == Transition(o, "in_progress", "completed", TRUE)

\* A wrong variant: what is planned by now.
CancelRelease_Planned(o) ==
  [l \in Line |->
     IF l \in Items(o) /\ Outstanding(line[l]) > 0 THEN line[l].planned ELSE 0]

\* What cancelling o releases of row l.
CancelRelease(o) ==
  [l \in Line |-> IF l \in Items(o) THEN Held[l] ELSE 0]

\* cancel: the outstanding part of every reservation is released, with a
\* release movement linked to the row.
Cancel(o) ==
  LET freed == CancelRelease(o) IN
  /\ order[o] \in CancellableStatuses
  /\ \A l \in Items(o) : freed[l] >= 0
  /\ \A l \in Items(o) : freed[l] > 0 =>
       /\ line[l].release = 0
       /\ line[l].lot \notin closed
       /\ LineClean(l)
       /\ bal[line[l].lot].reserved >= freed[l]
  /\ line' = [l \in Line |->
       IF freed[l] > 0
       THEN [line[l] EXCEPT !.returned = freed[l], !.release = freed[l]]
       ELSE line[l]]
  /\ bal' = [k \in Lot |-> Released(bal[k], Demand(k, freed))]
  /\ order' = [order EXCEPT ![o] = "cancelled"]
  /\ UNCHANGED <<posted, outputVars, environment>>

-----------------------------------------------------------------------------
(* Allocations *)

\* MaterialConsumption.save of a new row, or of an existing one with any of
\* the user's fields changed; the row's expiry date is one of them, and the
\* saved date has not passed.
SaveLine(l) ==
  /\ order[OrderOf[l]] \in CancellableStatuses
  /\ MaterialOf[l] \notin withdrawn
  /\ \E lot \in {NoLot} \cup {k \in Lot : LotMaterial[k] = MaterialOf[l]},
        planned, actual, loss, returned \in Quantity :
       LET r == [line[l] EXCEPT !.exists = TRUE, !.lot = lot, !.planned = planned,
                                !.actual = actual, !.loss = loss, !.returned = returned]
       IN LinksMatch(l, r) /\ line' = [line EXCEPT ![l] = r]
  /\ expired' = expired \ {l}
  /\ UNCHANGED <<order, stockVars, outputVars, closed, withdrawn>>

\* What ReserveMaterials(o) reserves for row l.
ToReserve(o) ==
  [l \in Line |->
     IF l \in Items(o) /\ line[l].reservation = 0 THEN line[l].planned ELSE 0]

\* reserve_materials: every row without a reservation gets one for its planned
\* quantity, or none does.
ReserveMaterials(o) ==
  LET wanted == ToReserve(o)
      demanded == {k \in Lot : Demand(k, wanted) > 0}
  IN
  /\ order[o] \in {"approved", "released"}
  /\ \E l \in Items(o) : line[l].reservation = 0
  /\ \A l \in Items(o) :
       /\ LineClean(l)
       /\ IF line[l].reservation > 0
          THEN line[l].reservation = line[l].planned
          ELSE line[l].lot # NoLot /\ line[l].planned > 0
  /\ \A k \in demanded :
       CanIssue(bal[k], Demand(k, wanted), k \in expired, FALSE) /\ k \notin closed
  /\ line' = [l \in Line |->
       IF wanted[l] > 0 THEN [line[l] EXCEPT !.reservation = wanted[l]] ELSE line[l]]
  /\ bal' = [k \in Lot |-> Reserved(bal[k], Demand(k, wanted))]
  /\ UNCHANGED <<order, posted, outputVars, environment>>

\* The movements IssueMaterials(o) posts for row l: entered and not yet linked.
ToPost(o, entered, linked) ==
  [l \in Line |-> IF l \in Items(o) /\ linked[l] = 0 THEN entered[l] ELSE 0]

ToIssue(o) ==
  ToPost(o, [l \in Line |-> line[l].actual], [l \in Line |-> line[l].issue])
ToLose(o) ==
  ToPost(o, [l \in Line |-> line[l].loss], [l \in Line |-> line[l].lossMovement])
ToReturn(o) ==
  ToPost(o, [l \in Line |-> line[l].returned], [l \in Line |-> line[l].release])

\* A row is reconciled when what became of the material is all that was reserved.
Reconciled_Partly(r) == r.actual + r.loss + r.returned <= r.reservation
Reconciled(r) == r.actual + r.loss + r.returned = r.reservation

\* The user has not changed the actual quantity since it was issued.
IssueMatches_Unchecked(r) == TRUE
IssueMatches(r) == r.issue > 0 => r.issue = r.actual

\* issue_materials: the consumption, loss and return of every row must add up
\* to its reservation; what is not yet posted is posted, for all rows or none.
IssueMaterials(o) ==
  LET consumed == [l \in Line |-> ToIssue(o)[l] + ToLose(o)[l]]
      settled == [l \in Line |-> consumed[l] + ToReturn(o)[l]]
      demanded == {k \in Lot : Demand(k, settled) > 0}
  IN
  /\ order[o] = "in_progress"
  /\ \A l \in Items(o) :
       /\ LineClean(l)
       /\ line[l].planned > 0 => line[l].reservation > 0
       /\ Reconciled(line[l])
       /\ IssueMatches(line[l])
  /\ \E l \in Items(o) : settled[l] > 0
  /\ \A k \in demanded :
       /\ bal[k].reserved >= Demand(k, settled)
       /\ CanIssue(bal[k], Demand(k, settled), k \in expired, TRUE)
       /\ k \notin closed
  /\ line' = [l \in Line |->
       [line[l] EXCEPT !.issue = @ + ToIssue(o)[l],
                       !.lossMovement = @ + ToLose(o)[l],
                       !.release = @ + ToReturn(o)[l]]]
  /\ bal' = [k \in Lot |->
       Released(Consumed(bal[k], Demand(k, consumed)), Demand(k, ToReturn(o)))]
  /\ UNCHANGED <<order, posted, outputVars, environment>>

-----------------------------------------------------------------------------
(* Outputs *)

\* ProductionOutput.clean: a new or changed pending output needs a running order.
SaveOutput(x) ==
  /\ order[OutputOrder[x]] \in CancellableStatuses
  /\ out[x].status \in {"absent", "pending"}
  /\ \E q \in Quantity :
       out' = [out EXCEPT ![x].status = "pending", ![x].produced = q]
  /\ UNCHANGED <<order, line, stockVars, genealogy, environment>>

\* genealogy_inputs: the consumption of the issued rows, per lot.
Inputs(o) ==
  [k \in Lot |->
     Demand(k, [l \in Line |->
       IF l \in Items(o) /\ line[l].issue > 0 THEN line[l].actual ELSE 0])]

\* ProductionOutput.clean of an unchanged row: the lot of its receipt, if any,
\* is in quarantine.
OutputClean(x) == out[x].status = "received" => out[x].quarantined

PendingOutputs_All(o) == Outputs(o)
PendingOutputs(o) == {x \in Outputs(o) : out[x].status = "pending"}

\* receive_outputs: every pending output is received into quarantine, and every
\* output gets one genealogy row per issued lot, or the call fails as a whole.
ReceiveOutputs(o) ==
  LET pending == PendingOutputs(o)
      issuedItems == {l \in Items(o) : line[l].issue > 0}
  IN
  /\ order[o] = "completed"
  /\ pending # {}
  /\ \A l \in Items(o) :
       /\ LineClean(l)
       /\ line[l].actual > 0 => line[l].issue > 0
       /\ IssueMatches(line[l])
  /\ issuedItems # {}
  /\ Formula[o] \subseteq {MaterialOf[l] : l \in issuedItems}
  /\ \A x \in pending : out[x].produced > 0 /\ x \notin closed
  /\ \A x \in Outputs(o) :
       /\ OutputClean(x)
       /\ \A k \in Lot : genealogy[x][k] > 0 /\ Inputs(o)[k] > 0
                           => genealogy[x][k] = Inputs(o)[k]
  /\ out' = [x \in Output |->
       IF x \in pending
       THEN [out[x] EXCEPT !.status = "received", !.stock = @ + out[x].produced]
       ELSE out[x]]
  /\ genealogy' = [x \in Output |->
       IF x \in Outputs(o)
       THEN [k \in Lot |-> IF Inputs(o)[k] > 0 THEN Inputs(o)[k] ELSE genealogy[x][k]]
       ELSE genealogy[x]]
  /\ UNCHANGED <<order, line, stockVars, environment>>

\* LotRelease (qa/models.py) decides on the lot of a received output.
DisposeOutput(x) ==
  /\ out[x].status = "received"
  /\ out[x].quarantined
  /\ out' = [out EXCEPT ![x].quarantined = FALSE]
  /\ UNCHANGED <<order, line, stockVars, genealogy, environment>>

-----------------------------------------------------------------------------
(* Stock movements that are not production's *)

\* A wrong variant: the changed balance is not cleaned.
Post_Unclean(k, d) ==
  /\ k \notin closed
  /\ bal' = [bal EXCEPT ![k] = Moved(@, d)]
  /\ posted' = [posted EXCEPT ![k] = @ + d]
  /\ UNCHANGED <<order, line, outputVars, environment>>

\* A movement of d units of lot k, on top of the balance's validation.
Post(k, d) ==
  /\ k \notin closed
  /\ BalanceClean(Moved(bal[k], d))
  /\ bal' = [bal EXCEPT ![k] = Moved(@, d)]
  /\ posted' = [posted EXCEPT ![k] = @ + d]
  /\ UNCHANGED <<order, line, outputVars, environment>>

\* issue_stock.
IssueStock(k, q) == CanIssue(bal[k], q, k \in expired, FALSE) /\ Post(k, -q)

\* adjust_stock by a positive delta, or a purchase receipt into the balance.
IncreaseStock(k, q) == q > 0 /\ bal[k].quantity + q <= MaxStock /\ Post(k, q)

\* adjust_stock by a negative delta: reserved stock counts as adjustable, and
\* only the balance's own clean stops the adjustment at the reservation.
DecreaseStock(k, q) == CanIssue(bal[k], q, k \in expired, TRUE) /\ Post(k, -q)

-----------------------------------------------------------------------------
(* Environment: dates pass, addresses and masters change, all unlocked *)

Expire(x) ==
  /\ x \in Expirable \ expired
  /\ expired' = expired \cup {x}
  /\ UNCHANGED <<order, line, stockVars, outputVars, closed, withdrawn>>

\* A lot's expiry date is corrected through the lot's own form.
Redate(k) ==
  /\ k \in Lot \cap expired
  /\ expired' = expired \ {k}
  /\ UNCHANGED <<order, line, stockVars, outputVars, closed, withdrawn>>

ToggleAddress(x) ==
  /\ x \in Closable
  /\ closed' = IF x \in closed THEN closed \ {x} ELSE closed \cup {x}
  /\ UNCHANGED <<order, line, stockVars, outputVars, expired, withdrawn>>

ToggleMaster(x) ==
  /\ x \in Withdrawable
  /\ withdrawn' = IF x \in withdrawn THEN withdrawn \ {x} ELSE withdrawn \cup {x}
  /\ UNCHANGED <<order, line, stockVars, outputVars, expired, closed>>

-----------------------------------------------------------------------------
Init ==
  /\ order = [o \in Order |-> "draft"]
  /\ line = [l \in Line |-> AbsentLine]
  /\ bal = [k \in Lot |-> [quantity |-> InitialStock[k], reserved |-> 0]]
  /\ posted = InitialStock
  /\ out = [x \in Output |-> AbsentOutput]
  /\ genealogy = [x \in Output |-> [k \in Lot |-> 0]]
  /\ expired = {} /\ closed = {} /\ withdrawn = {}

OrderStep(o) ==
  \/ Approve(o) \/ Release(o) \/ Start(o) \/ Pause(o) \/ Resume(o)
  \/ Complete(o) \/ Cancel(o)
  \/ ReserveMaterials(o) \/ IssueMaterials(o) \/ ReceiveOutputs(o)

StockStep(k, q) == IssueStock(k, q) \/ IncreaseStock(k, q) \/ DecreaseStock(k, q)

EnvironmentStep ==
  \/ \E x \in Expirable : Expire(x)
  \/ \E k \in Lot : Redate(k)
  \/ \E x \in Closable : ToggleAddress(x)
  \/ \E x \in Withdrawable : ToggleMaster(x)

Next ==
  \/ \E o \in Order : OrderStep(o)
  \/ \E l \in Line : SaveLine(l)
  \/ \E x \in Output : SaveOutput(x) \/ DisposeOutput(x)
  \/ \E k \in Lot, q \in Quantity : StockStep(k, q)
  \/ EnvironmentStep

Spec == Init /\ [][Next]_vars

-----------------------------------------------------------------------------
(* Properties *)

\* Every row and balance has the shape its table has; in particular no balance
\* and no movement is ever negative.
TypeOK ==
  /\ order \in [Order -> OrderStatus]
  /\ line \in [Line -> LineType]
  /\ bal \in [Lot -> BalanceType]
  /\ posted \in [Lot -> Int]
  /\ out \in [Output -> OutputType]
  /\ genealogy \in [Output -> [Lot -> Nat]]

\* What is reserved of a lot is exactly what the allocations still hold of it:
\* no reserve, issue, loss, return, cancellation or edit of a row, in whatever
\* order, leaks reserved stock or releases it twice (MaterialConsumption links
\* against StockBalance.reserved_quantity).
ReservedIsOutstanding ==
  \A k \in Lot : bal[k].reserved = Demand(k, Held)

\* The quantity on hand is what was posted to the lot less what allocations
\* consumed and lost: the balance can be rebuilt from the movements.
LedgerConservation ==
  \A k \in Lot : bal[k].quantity = posted[k] - Demand(k, Taken)

\* No more is reserved than is on hand, although a negative adjustment counts
\* reserved stock as available (StockBalance.clean).
ReservationBacked == \A k \in Lot : BalanceClean(bal[k])

\* A cancelled order holds no stock (cancel, _release_reservations_for_cancellation).
CancelledHoldsNothing ==
  \A l \in Line : order[OrderOf[l]] = "cancelled" => Outstanding(line[l]) = 0

\* A reservation is settled in one piece: a row has posted nothing of it, or
\* consumption, loss and return together make up all of it (issue_materials).
SettledWholly ==
  \A l \in Line : Outstanding(line[l]) \in {0, line[l].reservation}

\* The genealogy of a received output says what its order took from each lot,
\* for good: issues after the receipt, edits of the rows or of another output
\* never make it stale (receive_outputs).
GenealogyMatchesIssues ==
  \A x \in Output, k \in Lot :
    genealogy[x][k] =
      IF out[x].status = "received"
      THEN Demand(k, [l \in Line |->
             IF OrderOf[l] = OutputOrder[x] THEN line[l].issue ELSE 0])
      ELSE 0

\* However often receive_outputs is repeated, an output's stock is posted to
\* the quarantine balance once and in the produced quantity.
OutputStockedOnce ==
  \A x \in Output :
    out[x].stock = IF out[x].status = "received" THEN out[x].produced ELSE 0

\* What a step may not do to a row with a reservation, and to a row of an order
\* that has ended.
KeepsMovements(l) ==
  line[l].reservation > 0 =>
    /\ line'[l].reservation = line[l].reservation
    /\ line'[l].lot = line[l].lot
    /\ line[l].issue > 0 => line'[l].issue = line[l].issue
    /\ line[l].lossMovement > 0 => line'[l].lossMovement = line[l].lossMovement
    /\ line[l].release > 0 => line'[l].release = line[l].release
KeepsTerminal(l) ==
  order[OrderOf[l]] \in {"completed", "cancelled"} => line'[l] = line[l]

\* A movement linked to a row is never changed or unlinked, and the row stays
\* on the movement's lot: repeated calls and edits leave the history alone.
MovementsWriteOnce == [][\A l \in Line : KeepsMovements(l)]_vars

\* The allocations of a completed or cancelled order are frozen, whatever
\* operation runs (MaterialConsumption.save and clean).
TerminalRowsFrozen == [][\A l \in Line : KeepsTerminal(l)]_vars

\* The reservation of a row as the abstract specification keeps it.
ClaimOf(r) ==
  [lot |-> IF r.reservation > 0 THEN r.lot ELSE NoLot, quantity |-> r.reservation,
   issued |-> r.issue, lost |-> r.lossMovement, returned |-> r.release]

Promise == INSTANCE ReservationPromise
  WITH RowCount <- NumLines,
       claim    <- [l \in Line |-> ClaimOf(line[l])],
       shelf    <- [k \in Lot |-> bal[k].quantity],
       reserved <- [k \in Lot |-> bal[k].reserved]

\* Reservations keep the abstract promise through every call, repetition, edit and
\* adjustment: each is made once, of stock that is free, keeps its lot, and is settled
\* once and wholly (reserve_materials, issue_materials, cancel, MaterialConsumption.clean).
ReservationPromiseKept == Promise!Spec
=============================================================================
