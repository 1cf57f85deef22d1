--------------------------- MODULE PurchaseReceipt ---------------------------
(***************************************************************************)
(* Purchase receipts and their entry into stock (procurement/models.py,    *)
(* inventory/models.py): several receipts of one purchase order, their     *)
(* items, and the receipt movements post_stock makes of them.  post_stock, *)
(* release_quality, the NF-e import and the save of an order item lock     *)
(* what they decide by and hold it to their commit: one action each.  A    *)
(* save of a receipt writes every field as the request read it; a save of  *)
(* an item reads the receipt of the item, then locks the receipts, then    *)
(* writes the row, and other transactions fall in between.                 *)
(* Abstracted: products, units, addresses and dates only refuse requests;  *)
(* all order items belong to the order of the receipts.  A lot is held     *)
(* while its disposition is another than approved.                         *)
(***************************************************************************)
EXTENDS Summation

CONSTANTS Receipt, OrderItem, Lot, Editor,
          ItemCount,   \* bound: the items that receipts can have
          Ordered,     \* the quantities ordered
          Quantity     \* the quantities users type into receipts

ASSUME ReceiptAssumption ==
  /\ ItemCount \in Nat /\ Ordered \subseteq Nat /\ Quantity \subseteq Nat
  /\ "none" \notin Receipt

VARIABLES order,       \* PurchaseOrderItem.quantity
          receipt,     \* PurchaseReceipt rows
          item,        \* PurchaseReceiptItem rows
          movement,    \* the receipt movement of an item; quantity 0: none
          stock,       \* the approved balance the movements brought, by lot
          held,        \* lots that are not approved
          itemReq,     \* saves of an item in progress
          receiptReq,  \* saves of a receipt in progress
          overrun      \* items in stock written without the lock of their receipt (history)

vars == <<order, receipt, item, movement, stock, held, itemReq, receiptReq, overrun>>

Row == 1..ItemCount
Quality == {"pending", "approved", "rejected"}   \* pending or in quarantine
ReceiptRow == [status : {"absent", "draft", "received", "quality_released", "stock_posted"},
               quality : Quality, posted : BOOLEAN]
ItemRow == [receipt : Receipt \cup {"none"}, order : OrderItem \cup {"none"},
            lot : Lot \cup {"none"}, received : Nat, accepted : Nat, rejected : Nat]
MovementRow == [quantity : Nat, lot : Lot \cup {"none"}]
ReceiptReq == [step : {"idle", "read"}, row : Receipt \cup {"none"},
               copy : ReceiptRow, whole : BOOLEAN]

AbsentReceipt == [status |-> "absent", quality |-> "pending", posted |-> FALSE]
AbsentItem == [receipt |-> "none", order |-> "none", lot |-> "none",
               received |-> 0, accepted |-> 0, rejected |-> 0]
NoMovement == [quantity |-> 0, lot |-> "none"]
IdleItemReq == [step |-> "idle", row |-> 0, prev |-> "none", new |-> AbsentItem]
ItemReq == {IdleItemReq} \cup
  [step : {"read", "locked"}, row : Row, prev : Receipt \cup {"none"}, new : ItemRow]
IdleReceiptReq ==
  [step |-> "idle", row |-> "none", copy |-> AbsentReceipt, whole |-> FALSE]

ReceiptTypeOK ==
  /\ order \in [OrderItem -> Nat \ {0}]
  /\ receipt \in [Receipt -> ReceiptRow]
  /\ item \in [Row -> ItemRow]
  /\ movement \in [Row -> MovementRow]
  /\ stock \in [Lot -> Nat]
  /\ held \subseteq Lot
  /\ itemReq \in [Editor -> ItemReq]
  /\ receiptReq \in [Editor -> ReceiptReq]
  /\ overrun \subseteq Row

Init ==
  /\ order \in [OrderItem -> Ordered \ {0}]
  /\ receipt = [r \in Receipt |-> AbsentReceipt]
  /\ item = [i \in Row |-> AbsentItem]
  /\ movement = [i \in Row |-> NoMovement]
  /\ stock = [l \in Lot |-> 0]
  /\ held = {}
  /\ itemReq = [e \in Editor |-> IdleItemReq]
  /\ receiptReq = [e \in Editor |-> IdleReceiptReq]
  /\ overrun = {}

ItemsOf(r) == {i \in Row : item[i].receipt = r}
Moved(i) == movement[i].quantity > 0

\* The receipts a save of an item has locked; every other transaction on them waits.
Holds(e) == IF itemReq[e].step = "locked"
            THEN {itemReq[e].prev, itemReq[e].new.receipt} ELSE {}
Unlocked(r) == \A e \in Editor : r \notin Holds(e)

-----------------------------------------------------------------------------
(* The purchase order *)

\* What receipts have entered for an order item (movements through their items).
ShareOfOrder(o, items, moves) ==
  [i \in Row |-> IF items[i].order = o THEN moves[i].quantity ELSE 0]
Entered(o) == Total(ShareOfOrder(o, item, movement), ItemCount)

Orderable_Zero(o, q) == q >= Entered(o)
\* PurchaseOrderItem.save and clean, under the lock of the row.
Orderable(o, q) == q > 0 /\ q >= Entered(o)

EditOrder(o) == \E q \in Ordered :
  /\ q # order[o]
  /\ Orderable(o, q)
  /\ order' = [order EXCEPT ![o] = q]
  /\ UNCHANGED <<receipt, item, movement, stock, held, itemReq, receiptReq, overrun>>

-----------------------------------------------------------------------------
(* Receipts *)

\* The quality status is a field the user may fill in.
CreateReceipt(r) == \E q \in Quality :
  /\ receipt[r].status = "absent"
  /\ receipt' = [receipt EXCEPT ![r] = [status |-> "draft", quality |-> q, posted |-> FALSE]]
  /\ UNCHANGED <<order, item, movement, stock, held, itemReq, receiptReq, overrun>>

\* The NF-e may bring what the other receipts leave of the order.
Remaining(o) ==
  order[o] - Total([i \in Row |-> IF item[i].order = o THEN item[i].received ELSE 0], ItemCount)

ImportNfe(r, i, o, l) == \E q \in Quantity \ {0} :
  /\ receipt[r].status = "absent" /\ item[i].receipt = "none"
  /\ \A e \in Editor : itemReq[e].row # i
  /\ q <= Remaining(o)
  /\ receipt' = [receipt EXCEPT ![r] =
       [status |-> "draft", quality |-> "pending", posted |-> FALSE]]
  /\ item' = [item EXCEPT ![i] = [receipt |-> r, order |-> o, lot |-> l,
                                  received |-> q, accepted |-> 0, rejected |-> 0]]
  /\ UNCHANGED <<order, movement, stock, held, itemReq, receiptReq, overrun>>

\* mark_received decides by the copy of the request and saves the status alone; an edit
\* may set the quality status and saves the whole row.
ReadReceipt(e, r) ==
  /\ receiptReq[e].step = "idle"
  /\ receipt[r].status # "absent"
  /\ \/ receiptReq' = [receiptReq EXCEPT ![e] =
          [step |-> "read", row |-> r, whole |-> FALSE,
           copy |-> [receipt[r] EXCEPT !.status = "received"]]]
     \/ \E q \in Quality : receiptReq' = [receiptReq EXCEPT ![e] =
          [step |-> "read", row |-> r, whole |-> TRUE,
           copy |-> [receipt[r] EXCEPT !.quality = q]]]
  /\ UNCHANGED <<order, receipt, item, movement, stock, held, itemReq, overrun>>

Savable_Always(r, copy) == TRUE
\* PurchaseReceipt.save compares with the locked row.
Savable(r, copy) ==
  IF receipt[r].posted THEN copy = receipt[r] ELSE ~copy.posted /\ copy.status # "stock_posted"

SaveReceipt(e) ==
  LET req == receiptReq[e]
  IN  /\ req.step = "read"
      /\ Unlocked(req.row)
      /\ Savable(req.row, req.copy)
      /\ receipt' = [receipt EXCEPT ![req.row] =
           IF req.whole THEN req.copy ELSE [@ EXCEPT !.status = req.copy.status]]
      /\ receiptReq' = [receiptReq EXCEPT ![e] = IdleReceiptReq]
      /\ UNCHANGED <<order, item, movement, stock, held, itemReq, overrun>>

ReleaseQuality(r) == \E q \in {"approved", "rejected"} :
  /\ Unlocked(r)
  /\ receipt[r].status = "received" /\ ~receipt[r].posted
  /\ receipt' = [receipt EXCEPT ![r] =
       [@ EXCEPT !.status = "quality_released", !.quality = q]]
  /\ UNCHANGED <<order, item, movement, stock, held, itemReq, receiptReq, overrun>>

-----------------------------------------------------------------------------
(* Items *)

\* PurchaseReceiptItem.clean of what the user typed.
CleanItem(new) ==
  /\ new.received > 0 /\ new.received <= order[new.order]
  /\ new.accepted + new.rejected <= new.received

\* What the user may type for an item of a receipt.
Typed(r) == [receipt : {r}, order : OrderItem, lot : Lot, received : Quantity,
             accepted : Quantity, rejected : Quantity]

\* A new item, or an edit that has read the receipt the item belongs to and may name another.
ReadItem(e, i, r) == \E new \in Typed(r) :
  /\ itemReq[e].step = "idle"
  /\ receipt[r].status # "absent"
  /\ item[i].receipt = "none" => \A f \in Editor : itemReq[f].row # i
  /\ CleanItem(new)
  /\ itemReq' = [itemReq EXCEPT ![e] =
       [step |-> "read", row |-> i, prev |-> item[i].receipt, new |-> new]]
  /\ UNCHANGED <<order, receipt, item, movement, stock, held, receiptReq, overrun>>

ItemOpen_Always(i, rs) == TRUE
\* Checked with the receipts locked.
ItemOpen(i, rs) == ~Moved(i) /\ \A r \in rs : ~receipt[r].posted

LockReceipts(e) ==
  LET req == itemReq[e]
      rs == {req.prev, req.new.receipt} \ {"none"}
  IN  /\ req.step = "read"
      /\ \A r \in rs : Unlocked(r)
      /\ ItemOpen(req.row, rs)
      /\ itemReq' = [itemReq EXCEPT ![e].step = "locked"]
      /\ UNCHANGED <<order, receipt, item, movement, stock, held, receiptReq, overrun>>

\* The item belongs to a receipt in stock by now that the save has not locked.
Overruns(e) ==
  LET r == item[itemReq[e].row].receipt
  IN  r \notin Holds(e) \cup {"none"} /\ receipt[r].posted

WriteItem(e) ==
  /\ itemReq[e].step = "locked"
  /\ item' = [item EXCEPT ![itemReq[e].row] = itemReq[e].new]
  /\ overrun' = IF Overruns(e) THEN overrun \cup {itemReq[e].row} ELSE overrun
  /\ itemReq' = [itemReq EXCEPT ![e] = IdleItemReq]
  /\ UNCHANGED <<order, receipt, movement, stock, held, receiptReq>>

\* A request is refused or its process dies; its transaction is rolled back.
Abandon(e) ==
  /\ \/ itemReq[e].step # "idle" /\ UNCHANGED receiptReq
        /\ itemReq' = [itemReq EXCEPT ![e] = IdleItemReq]
     \/ receiptReq[e].step # "idle" /\ UNCHANGED itemReq
        /\ receiptReq' = [receiptReq EXCEPT ![e] = IdleReceiptReq]
  /\ UNCHANGED <<order, receipt, item, movement, stock, held, overrun>>

-----------------------------------------------------------------------------
(* Entry into stock *)

Accepted(r) == {i \in ItemsOf(r) : item[i].accepted > 0}

Pending_All(r) == Accepted(r)
Pending(r) == {i \in Accepted(r) : ~Moved(i)}

Cumulative_OwnReceipt(o, r) ==
  Total([i \in Row |-> IF item[i].order = o /\ i \in ItemsOf(r) THEN item[i].accepted ELSE 0],
        ItemCount)
\* Accepted here and entered by other items, _validate_first_stock_entry.
Cumulative(o, r) ==
  Total([i \in Row |-> IF item[i].order # o THEN 0
                       ELSE IF i \in ItemsOf(r) THEN item[i].accepted
                       ELSE movement[i].quantity], ItemCount)

ValidFirstEntry(r) ==
  /\ \A i \in ItemsOf(r) : /\ Cumulative(item[i].order, r) <= order[item[i].order]
                           /\ CleanItem(item[i])
                           /\ item[i].accepted + item[i].rejected = item[i].received
  /\ \A i \in Pending(r) : item[i].lot \notin held

\* _confirm_purchase_receipt_retry of an item that has its movement.
Confirmed(i) == movement[i] = [quantity |-> item[i].accepted, lot |-> item[i].lot]

\* What the movements of the rows bring to a lot.
Brought(l, rows) ==
  Total([i \in Row |-> IF i \in rows /\ item[i].lot = l THEN item[i].accepted ELSE 0], ItemCount)

\* A repeated call confirms the history and changes nothing.
PostStock(r) ==
  /\ Unlocked(r)
  /\ receipt[r].quality = "approved"
  /\ Accepted(r) # {}
  /\ IF receipt[r].posted
     THEN receipt[r].status = "stock_posted" /\ \A i \in ItemsOf(r) : Moved(i) = (i \in Accepted(r))
     ELSE ValidFirstEntry(r)
  /\ \A i \in Accepted(r) : Moved(i) => Confirmed(i)
  /\ movement' = [i \in Row |-> IF i \in Pending(r)
       THEN [quantity |-> item[i].accepted, lot |-> item[i].lot] ELSE movement[i]]
  /\ stock' = [l \in Lot |-> stock[l] + Brought(l, Pending(r))]
  /\ receipt' = [receipt EXCEPT ![r] =
       [@ EXCEPT !.status = "stock_posted", !.posted = TRUE]]
  /\ UNCHANGED <<order, item, held, itemReq, receiptReq, overrun>>

\* Quality assurance blocks, rejects or approves a lot.
Redispose(l) ==
  /\ held' = IF l \in held THEN held \ {l} ELSE held \cup {l}
  /\ UNCHANGED <<order, receipt, item, movement, stock, itemReq, receiptReq, overrun>>

Next ==
  \/ \E o \in OrderItem : EditOrder(o)
  \/ \E r \in Receipt : CreateReceipt(r) \/ ReleaseQuality(r) \/ PostStock(r)
  \/ \E r \in Receipt, i \in Row, o \in OrderItem, l \in Lot : ImportNfe(r, i, o, l)
  \/ \E e \in Editor, r \in Receipt : ReadReceipt(e, r)
  \/ \E e \in Editor, i \in Row, r \in Receipt : ReadItem(e, i, r)
  \/ \E e \in Editor : SaveReceipt(e) \/ LockReceipts(e) \/ WriteItem(e) \/ Abandon(e)
  \/ \E l \in Lot : Redispose(l)

Spec == Init /\ [][Next]_vars

-----------------------------------------------------------------------------
(* Properties *)

\* The receipts of an order enter no more of an item than was ordered, however many are
\* posted at a time, whatever becomes of the order meanwhile and wherever items are moved,
\* but for items overrun by a save without the lock (post_stock, _validate_posted_quantity).
OrderNotExceeded == \A o \in OrderItem :
  Total([i \in Row |-> IF i \in overrun THEN 0 ELSE ShareOfOrder(o, item, movement)[i]],
        ItemCount) <= order[o]

\* The balance of a lot is what the movements brought: none is posted twice, by a repeated
\* call or by two calls (post_stock, receive_purchase_receipt_item).
StockIsReceived ==
  \A l \in Lot : stock[l] =
    Total([i \in Row |-> IF movement[i].lot = l THEN movement[i].quantity ELSE 0], ItemCount)

\* A receipt is in stock wholly or not at all: its accepted items have entered as they
\* stand exactly if it is marked as posted, and it is marked as approved
\* (stock_entry_status, PurchaseReceipt.save).  Items that were overrun may differ.
PostedWholly ==
  /\ \A r \in Receipt : /\ receipt[r].posted <=> receipt[r].status = "stock_posted"
                        /\ receipt[r].posted => receipt[r].quality = "approved"
  /\ \A i \in Row \ overrun : Moved(i) \/ item[i].accepted > 0 =>
       (Moved(i) /\ Confirmed(i) <=> receipt[item[i].receipt].posted)

\* A movement is immutable, and so is its item, unless this step or an earlier one writes
\* the item without the lock of its receipt (PurchaseReceiptItem.save).
EnteredItemKept == [][\A i \in Row : Moved(i) =>
  movement'[i] = movement[i] /\ (item'[i] = item[i] \/ i \in overrun')]_vars

\* What an item has entered, as the abstract specification keeps it.
EntryOf(i) ==
  [receipt  |-> IF Moved(i) THEN item[i].receipt ELSE "none",
   order    |-> IF Moved(i) THEN item[i].order ELSE "none",
   lot      |-> IF Moved(i) THEN movement[i].lot ELSE "none",
   quantity |-> movement[i].quantity]

Promise == INSTANCE EntryPromise
  WITH EntryCount <- ItemCount,
       ordered <- order,
       entered <- {r \in Receipt : receipt[r].posted},
       entry   <- [i \in Row |-> EntryOf(i)],
       onhand  <- stock

\* Receipts keep the abstract promise until a save overruns an item: each enters once and
\* wholly, for good, its entries are what reaches the balances, and they stay within the
\* order (post_stock, PurchaseReceiptItem.save, PurchaseOrderItem.save).
EntryPromiseKept ==
  Promise!Init /\ [][Promise!Next \/ overrun' # {}]_(Promise!promiseVars)

\* What the save of an item says of itself, that items of a posted receipt are
\* immutable (procurement/models.py:1219), and TLC refutes with two editors.
PostedItemsImmutable == [][\A i \in Row : Moved(i) => item'[i] = item[i]]_vars
=============================================================================
