----------------------- MODULE PurchaseReceipt_proofs -----------------------
(***************************************************************************)
(* Proofs about PurchaseReceipt, for any receipts, order items, lots,      *)
(* editors and quantities and any number of items.                         *)
(***************************************************************************)
EXTENDS PurchaseReceipt, Summation_proofs

USE ReceiptAssumption

-----------------------------------------------------------------------------
(* Types *)

\* The sums over the rows of a well-typed state are natural numbers, share by share.
LEMMA ShareTypes ==
  ASSUME ReceiptTypeOK
  PROVE  /\ \A l \in Lot : \A rows : Brought(l, rows) \in Nat
         /\ \A o : ShareOfOrder(o, item, movement) \in [1..ItemCount -> Nat]
<1>1. \A i \in Row : item[i].accepted \in Nat /\ movement[i].quantity \in Nat
  BY DEF ReceiptTypeOK, ItemRow, MovementRow
<1>2. ASSUME NEW l \in Lot, NEW rows PROVE Brought(l, rows) \in Nat
  <2> DEFINE f == [i \in Row |-> IF i \in rows /\ item[i].lot = l THEN item[i].accepted ELSE 0]
  <2>1. f \in [1..ItemCount -> Nat]
    BY <1>1 DEF Row
  <2> HIDE DEF f
  <2>2. Total(f, ItemCount) \in Nat
    BY <2>1, TotalNat
  <2> QED BY <2>2 DEF Brought, f
<1>3. \A o : ShareOfOrder(o, item, movement) \in [1..ItemCount -> Nat]
  BY <1>1 DEF ShareOfOrder, Row
<1> QED BY <1>2, <1>3

\* The rows that are not there yet, and the requests that are not made, are well typed.
LEMMA IdleTypes ==
  /\ AbsentReceipt \in ReceiptRow /\ AbsentItem \in ItemRow /\ NoMovement \in MovementRow
  /\ IdleItemReq \in ItemReq /\ IdleReceiptReq \in ReceiptReq
<1>1. AbsentReceipt \in ReceiptRow /\ AbsentItem \in ItemRow /\ NoMovement \in MovementRow
  BY DEF AbsentReceipt, AbsentItem, NoMovement, ReceiptRow, ItemRow, MovementRow, Quality
<1>2. IdleItemReq \in ItemReq
  BY <1>1 DEF IdleItemReq, ItemReq
<1>3. IdleReceiptReq \in ReceiptReq
  BY <1>1 DEF IdleReceiptReq, ReceiptReq
<1> QED BY <1>1, <1>2, <1>3

LEMMA InitTyped == Init => ReceiptTypeOK
<1> SUFFICES ASSUME Init PROVE ReceiptTypeOK
  OBVIOUS
<1>1. order \in [OrderItem -> Nat \ {0}] /\ stock \in [Lot -> Nat] /\ held \subseteq Lot
      /\ overrun \subseteq Row
  BY DEF Init
<1>2. receipt \in [Receipt -> ReceiptRow] /\ item \in [Row -> ItemRow]
      /\ movement \in [Row -> MovementRow]
  BY IdleTypes DEF Init
<1>3. itemReq \in [Editor -> ItemReq] /\ receiptReq \in [Editor -> ReceiptReq]
  BY IdleTypes DEF Init
<1> QED BY <1>1, <1>2, <1>3 DEF ReceiptTypeOK

\* What the operations write into a receipt is a receipt row.
LEMMA RowUpdates ==
  ASSUME NEW k \in ReceiptRow, NEW q \in Quality, NEW c \in ReceiptRow
  PROVE  /\ [k EXCEPT !.status = c.status] \in ReceiptRow
         /\ [k EXCEPT !.status = "received"] \in ReceiptRow
         /\ [k EXCEPT !.quality = q] \in ReceiptRow
         /\ [k EXCEPT !.status = "quality_released", !.quality = q] \in ReceiptRow
         /\ [k EXCEPT !.status = "stock_posted", !.posted = TRUE] \in ReceiptRow
BY DEF ReceiptRow

\* Every step keeps the types.
LEMMA StepTyped == ReceiptTypeOK /\ [Next]_vars => ReceiptTypeOK'
<1> SUFFICES ASSUME ReceiptTypeOK, [Next]_vars PROVE ReceiptTypeOK'
  OBVIOUS
<1> USE DEF ReceiptTypeOK
<1>1. ASSUME NEW o \in OrderItem, EditOrder(o) PROVE ReceiptTypeOK'
  BY <1>1 DEF EditOrder, Orderable
<1>2. ASSUME NEW r \in Receipt, CreateReceipt(r) PROVE ReceiptTypeOK'
  <2>1. \A q \in Quality : [status |-> "draft", quality |-> q, posted |-> FALSE] \in ReceiptRow
    BY DEF ReceiptRow
  <2> QED BY <1>2, <2>1 DEF CreateReceipt
<1>3. ASSUME NEW r \in Receipt, ReleaseQuality(r) PROVE ReceiptTypeOK'
  <2>1. \A q \in Quality :
          [receipt[r] EXCEPT !.status = "quality_released", !.quality = q] \in ReceiptRow
    BY RowUpdates
  <2>2. {"approved", "rejected"} \subseteq Quality
    BY DEF Quality
  <2>3. \E q \in Quality :
          receipt' = [receipt EXCEPT ![r] =
            [receipt[r] EXCEPT !.status = "quality_released", !.quality = q]]
    BY <1>3, <2>2 DEF ReleaseQuality
  <2>4. receipt' \in [Receipt -> ReceiptRow]
    BY <2>1, <2>3
  <2> QED BY <1>3, <2>4 DEF ReleaseQuality
<1>4. ASSUME NEW r \in Receipt, PostStock(r) PROVE ReceiptTypeOK'
  <2>1. receipt' \in [Receipt -> ReceiptRow]
    <3>1. [receipt[r] EXCEPT !.status = "stock_posted", !.posted = TRUE] \in ReceiptRow
      <4> DEFINE k == receipt[r]
      <4>1. k \in ReceiptRow
        OBVIOUS
      <4>2. "pending" \in Quality
        BY DEF Quality
      <4> HIDE DEF k
      <4>3. [k EXCEPT !.status = "stock_posted", !.posted = TRUE] \in ReceiptRow
        BY <4>1, <4>2, RowUpdates
      <4> QED BY <4>3 DEF k
    <3> QED BY <1>4, <3>1 DEF PostStock
  <2>2. movement' \in [Row -> MovementRow]
    <3>1. \A i \in Row : [quantity |-> item[i].accepted, lot |-> item[i].lot] \in MovementRow
      BY DEF MovementRow, ItemRow
    <3> QED BY <1>4, <3>1 DEF PostStock
  <2>3. stock' \in [Lot -> Nat]
    <3>1. \A l \in Lot : stock[l] + Brought(l, Pending(r)) \in Nat
      BY ShareTypes
    <3> QED BY <1>4, <3>1 DEF PostStock
  <2> QED BY <1>4, <2>1, <2>2, <2>3 DEF PostStock
<1>5. ASSUME NEW r \in Receipt, NEW i \in Row, NEW o \in OrderItem, NEW l \in Lot,
             ImportNfe(r, i, o, l)
      PROVE  ReceiptTypeOK'
  <2>1. receipt' \in [Receipt -> ReceiptRow]
    <3>1. [status |-> "draft", quality |-> "pending", posted |-> FALSE] \in ReceiptRow
      BY DEF ReceiptRow, Quality
    <3> QED BY <1>5, <3>1 DEF ImportNfe
  <2>2. item' \in [Row -> ItemRow]
    <3>1. \A q \in Quantity : [receipt |-> r, order |-> o, lot |-> l, received |-> q,
                               accepted |-> 0, rejected |-> 0] \in ItemRow
      BY DEF ItemRow
    <3> QED BY <1>5, <3>1 DEF ImportNfe
  <2> QED BY <1>5, <2>1, <2>2 DEF ImportNfe
<1>6. ASSUME NEW e \in Editor, NEW r \in Receipt, ReadReceipt(e, r) PROVE ReceiptTypeOK'
  <2> DEFINE k == receipt[r]
             Read(c, w) == [step |-> "read", row |-> r, whole |-> w, copy |-> c]
  <2>1. k \in ReceiptRow /\ "pending" \in Quality
    BY DEF Quality
  <2>2. \A c \in ReceiptRow, w \in BOOLEAN : Read(c, w) \in ReceiptReq
    BY DEF ReceiptReq
  <2>3. \E c \in ReceiptRow, w \in BOOLEAN :
          receiptReq' = [receiptReq EXCEPT ![e] = Read(c, w)]
    <3> HIDE DEF k
    <3>1. /\ [k EXCEPT !.status = "received"] \in ReceiptRow
          /\ \A q \in Quality : [k EXCEPT !.quality = q] \in ReceiptRow
      BY <2>1, RowUpdates
    <3>2. \/ receiptReq' = [receiptReq EXCEPT ![e] =
               Read([k EXCEPT !.status = "received"], FALSE)]
          \/ \E q \in Quality :
               receiptReq' = [receiptReq EXCEPT ![e] = Read([k EXCEPT !.quality = q], TRUE)]
      BY ONLY <1>6, Zenon DEF ReadReceipt, k
    <3> HIDE DEF Read
    <3> QED BY <3>1, <3>2
  <2>4. receiptReq' \in [Editor -> ReceiptReq]
    <3> HIDE DEF Read
    <3> QED BY <2>2, <2>3
  <2> QED BY <1>6, <2>4 DEF ReadReceipt
<1>7. ASSUME NEW e \in Editor, NEW i \in Row, NEW r \in Receipt, ReadItem(e, i, r)
      PROVE  ReceiptTypeOK'
  <2> DEFINE Read(n) == [step |-> "read", row |-> i, prev |-> item[i].receipt, new |-> n]
  <2>1. Typed(r) \subseteq ItemRow
    BY DEF Typed, ItemRow
  <2>2. item[i].receipt \in Receipt \cup {"none"}
    BY DEF ItemRow
  <2>3. \A n \in ItemRow : Read(n) \in ItemReq
    BY <2>2 DEF ItemReq
  <2>4. \E n \in Typed(r) : itemReq' = [itemReq EXCEPT ![e] = Read(n)]
    BY ONLY <1>7 DEF ReadItem
  <2>5. itemReq' \in [Editor -> ItemReq]
    <3> HIDE DEF Read
    <3> QED BY <2>1, <2>3, <2>4
  <2> QED BY <1>7, <2>5 DEF ReadItem
<1>8. ASSUME NEW e \in Editor, SaveReceipt(e) PROVE ReceiptTypeOK'
  <2> DEFINE req == receiptReq[e]
  <2>1. req \in ReceiptReq
    OBVIOUS
  <2> HIDE DEF req
  <2>2. req.copy \in ReceiptRow /\ req.row \in Receipt \cup {"none"}
    BY <2>1 DEF ReceiptReq
  <2>3. \A k \in Receipt : [receipt[k] EXCEPT !.status = req.copy.status] \in ReceiptRow
    <3>1. "pending" \in Quality
      BY DEF Quality
    <3>2. ASSUME NEW m \in ReceiptRow PROVE [m EXCEPT !.status = req.copy.status] \in ReceiptRow
      BY <2>2, <3>1, RowUpdates
    <3> QED BY <3>2
  <2>4. receipt' \in [Receipt -> ReceiptRow]
    BY <1>8, <2>2, <2>3 DEF SaveReceipt, req
  <2> QED BY <1>8, <2>4, IdleTypes DEF SaveReceipt
<1>9. ASSUME NEW e \in Editor, LockReceipts(e) PROVE ReceiptTypeOK'
  <2>1. [itemReq[e] EXCEPT !.step = "locked"] \in ItemReq
    BY <1>9 DEF LockReceipts, ItemReq, IdleItemReq
  <2> QED BY <1>9, <2>1 DEF LockReceipts
<1>10. ASSUME NEW e \in Editor, WriteItem(e) PROVE ReceiptTypeOK'
  <2>1. itemReq[e].row \in Row /\ itemReq[e].new \in ItemRow
    BY <1>10 DEF WriteItem, ItemReq, IdleItemReq
  <2>2. item' \in [Row -> ItemRow] /\ overrun' \subseteq Row
    BY <1>10, <2>1 DEF WriteItem
  <2> QED BY <1>10, <2>2, IdleTypes DEF WriteItem
<1>11. ASSUME NEW e \in Editor, Abandon(e) PROVE ReceiptTypeOK'
  BY <1>11, IdleTypes DEF Abandon
<1>12. ASSUME NEW l \in Lot, Redispose(l) PROVE ReceiptTypeOK'
  BY <1>12 DEF Redispose
<1>13. CASE UNCHANGED vars
  BY <1>13 DEF vars
<1> QED BY <1>1, <1>2, <1>3, <1>4, <1>5, <1>6, <1>7, <1>8, <1>9, <1>10, <1>11, <1>12, <1>13
        DEF Next

\* Every state of every behaviour is well typed.
THEOREM TypeCorrect == Spec => []ReceiptTypeOK
<1> QED BY InitTyped, StepTyped, PTL DEF Spec

-----------------------------------------------------------------------------
(* The balance of a lot *)

\* What the movements brought to a lot, row by row.
ShareOfLot(l, moves) ==
  [i \in Row |-> IF moves[i].lot = l THEN moves[i].quantity ELSE 0]

\* An entry into stock adds to the balances what it adds to the movements: the movements
\* it makes replace rows that had brought nothing.
LEMMA EntryBalances ==
  ASSUME ReceiptTypeOK, StockIsReceived, NEW r \in Receipt, PostStock(r)
  PROVE  StockIsReceived'
<1> SUFFICES ASSUME NEW l \in Lot
             PROVE  stock'[l] = Total(ShareOfLot(l, movement'), ItemCount)
  BY DEF StockIsReceived, ShareOfLot
<1> DEFINE rows == Pending(r)
           f == ShareOfLot(l, movement)
           g == [i \in Row |-> IF i \in rows /\ item[i].lot = l THEN item[i].accepted ELSE 0]
           h == ShareOfLot(l, movement')
<1>1. \A i \in Row : item[i].accepted \in Nat /\ movement[i].quantity \in Nat
  BY DEF ReceiptTypeOK, ItemRow, MovementRow
<1>2. movement' = [i \in Row |-> IF i \in rows
        THEN [quantity |-> item[i].accepted, lot |-> item[i].lot] ELSE movement[i]]
  BY DEF PostStock
<1>3. \A i \in rows : i \in Row /\ movement[i].quantity = 0
  BY <1>1 DEF Pending, Accepted, ItemsOf, Moved
<1>4. f \in [1..ItemCount -> Int] /\ g \in [1..ItemCount -> Int]
  BY <1>1 DEF ShareOfLot, Row
<1>5. ASSUME NEW i \in Row
      PROVE  h[i] \in Int /\ h[i] = f[i] + g[i]
  <2>1. h[i] = IF movement'[i].lot = l THEN movement'[i].quantity ELSE 0
    BY DEF ShareOfLot
  <2>2. f[i] = IF movement[i].lot = l THEN movement[i].quantity ELSE 0
    BY DEF ShareOfLot
  <2>3. CASE i \in rows
    <3>1. movement'[i].lot = item[i].lot /\ movement'[i].quantity = item[i].accepted
      BY <1>2, <2>3
    <3>2. f[i] = 0
      BY <1>3, <2>2, <2>3
    <3> HIDE DEF rows, f, h
    <3> QED BY <1>1, <2>1, <2>3, <3>1, <3>2
  <2>4. CASE i \notin rows
    <3>1. movement'[i] = movement[i]
      BY <1>2, <2>4
    <3> HIDE DEF rows, f, h
    <3> QED BY <1>1, <2>1, <2>2, <2>4, <3>1
  <2> QED BY <2>3, <2>4
<1>6. h \in [1..ItemCount -> Int]
  <2>1. h = [i \in Row |-> h[i]]
    BY DEF ShareOfLot
  <2> HIDE DEF h
  <2> QED BY <1>5, <2>1 DEF Row
<1>7. Total(h, ItemCount) = Total(f, ItemCount) + Total(g, ItemCount)
  <2>1. ItemCount \in Nat /\ \A i \in 1..ItemCount : h[i] = f[i] + g[i]
    BY <1>5 DEF Row
  <2> HIDE DEF f, g, h
  <2> QED BY ONLY <1>4, <1>6, <2>1, TotalAdd
<1>8. stock'[l] = stock[l] + Brought(l, rows)
  BY DEF PostStock, ReceiptTypeOK
<1>9. stock[l] = Total(f, ItemCount) /\ Brought(l, rows) = Total(g, ItemCount)
  BY DEF StockIsReceived, ShareOfLot, Brought
<1> HIDE DEF f, g, h, rows
<1> QED BY <1>7, <1>8, <1>9 DEF h

\* Only an entry touches movements and balances.
LEMMA EntryOnly ==
  ASSUME [Next]_vars, \A r \in Receipt : ~PostStock(r)
  PROVE  UNCHANGED <<movement, stock>>
BY DEF Next, vars, EditOrder, CreateReceipt, ReleaseQuality, ImportNfe, ReadReceipt, ReadItem,
       SaveReceipt, LockReceipts, WriteItem, Abandon, Redispose

\* At first nothing has entered.
LEMMA NothingEntered == Init => StockIsReceived
<1> SUFFICES ASSUME Init, NEW l \in Lot
             PROVE  stock[l] = Total(ShareOfLot(l, movement), ItemCount)
  BY DEF StockIsReceived, ShareOfLot
<1>1. ShareOfLot(l, movement) \in [1..ItemCount -> Int]
      /\ \A i \in 1..ItemCount : ShareOfLot(l, movement)[i] = 0
  BY DEF Init, NoMovement, ShareOfLot, Row
<1>2. Total(ShareOfLot(l, movement), ItemCount) = 0
  BY <1>1, TotalZero
<1> QED BY <1>2 DEF Init

\* The balances are what the movements brought, however often and by however many callers
\* the receipts are posted.
THEOREM StockBalances == Spec => []StockIsReceived
<1>1. ReceiptTypeOK /\ StockIsReceived /\ [Next]_vars => StockIsReceived'
  <2> SUFFICES ASSUME ReceiptTypeOK, StockIsReceived, [Next]_vars PROVE StockIsReceived'
    OBVIOUS
  <2>1. CASE \E r \in Receipt : PostStock(r)
    BY <2>1, EntryBalances
  <2>2. CASE \A r \in Receipt : ~PostStock(r)
    BY <2>2, EntryOnly DEF StockIsReceived
  <2> QED BY <2>1, <2>2
<1> QED BY <1>1, NothingEntered, TypeCorrect, PTL DEF Spec

-----------------------------------------------------------------------------
(* Receipts in stock *)

\* An item without receipt was never made, and an item with a movement that was not
\* overrun is what the movement entered.
RowSound(i) ==
  /\ item[i].receipt = "none" => item[i].accepted = 0 /\ ~Moved(i)
  /\ Moved(i) /\ i \notin overrun => Confirmed(i)

\* A save in progress names a receipt, and what it has locked is not in stock.
RequestSound(e) ==
  /\ itemReq[e].step # "idle" => itemReq[e].new.receipt \in Receipt
  /\ \A r \in Holds(e) \ {"none"} : ~receipt[r].posted

\* The inductive invariant: a save that writes an item either holds the lock of the receipt
\* the item belongs to, which is then not in stock, or it overruns the item.
IndInv ==
  /\ ReceiptTypeOK
  /\ \A i \in Row : RowSound(i)
  /\ \A e \in Editor : RequestSound(e)
  /\ PostedWholly
  /\ OrderNotExceeded

\* The conjuncts other than the types.
Kept ==
  /\ \A i \in Row : RowSound(i)
  /\ \A e \in Editor : RequestSound(e)
  /\ PostedWholly
  /\ OrderNotExceeded

\* The fields of a well-typed state that the proofs count and compare.
LEMMA Fields ==
  ASSUME ReceiptTypeOK
  PROVE  /\ \A i \in Row : item[i].accepted \in Nat /\ movement[i].quantity \in Nat
         /\ \A i \in Row : item[i].receipt \in Receipt \cup {"none"}
         /\ \A e \in Editor : itemReq[e].step # "idle" =>
              itemReq[e].row \in Row /\ itemReq[e].new \in ItemRow
         /\ \A r \in Receipt : receipt[r].posted \in BOOLEAN
<1>1. \A e \in Editor : itemReq[e].step # "idle" =>
        itemReq[e].row \in Row /\ itemReq[e].new \in ItemRow
  BY DEF ReceiptTypeOK, ItemReq, IdleItemReq
<1> QED BY <1>1 DEF ReceiptTypeOK, ItemRow, MovementRow, ReceiptRow

\* What the items that were not overrun have entered for an order item.
Intact(o) ==
  [i \in Row |-> IF i \in overrun THEN 0 ELSE ShareOfOrder(o, item, movement)[i]]

LEMMA IntactTypes ==
  ASSUME ReceiptTypeOK
  PROVE  \A o : Intact(o) \in [1..ItemCount -> Nat] /\ Intact(o) \in [1..ItemCount -> Int]
BY ShareTypes DEF Intact, Row

\* A row without movement, or one that is overrun, adds nothing to an order.
LEMMA OrderStays ==
  ASSUME ReceiptTypeOK, OrderNotExceeded, ReceiptTypeOK', UNCHANGED <<order, movement>>,
         NEW k \in Row, k \in overrun' \/ movement[k].quantity = 0,
         \A j \in Row : j # k => item'[j] = item[j] /\ (j \in overrun' <=> j \in overrun)
  PROVE  OrderNotExceeded'
<1> SUFFICES ASSUME NEW o \in OrderItem PROVE Total(Intact(o)', ItemCount) <= order[o]
  BY DEF OrderNotExceeded, Intact
<1>1. Intact(o) \in [1..ItemCount -> Int] /\ Intact(o)' \in [1..ItemCount -> Int]
  BY Fields DEF Intact, ShareOfOrder, Row
<1>2. ASSUME NEW j \in Row PROVE Intact(o)'[j] <= Intact(o)[j]
  <2>1. /\ Intact(o)'[j] = IF j \in overrun' \/ item'[j].order # o THEN 0
                          ELSE movement[j].quantity
        /\ Intact(o)[j] = IF j \in overrun \/ item[j].order # o THEN 0 ELSE movement[j].quantity
    BY DEF Intact, ShareOfOrder
  <2> QED BY <2>1, Fields
<1>3. Total(Intact(o)', ItemCount) <= Total(Intact(o), ItemCount)
      /\ Total(Intact(o)', ItemCount) \in Int /\ Total(Intact(o), ItemCount) \in Int
  BY <1>1, <1>2, TotalMonotone, TotalInt DEF Row
<1>4. Total(Intact(o), ItemCount) <= order[o] /\ order[o] \in Nat
  BY DEF OrderNotExceeded, Intact, ReceiptTypeOK
<1> QED BY <1>3, <1>4

-----------------------------------------------------------------------------
(* The steps *)

\* Steps that only move receipts before or after their entry, or none of them.
LEMMA ReceiptsMove ==
  ASSUME IndInv, UNCHANGED <<order, item, movement, itemReq, overrun>>,
         \A r \in Receipt : /\ receipt'[r].posted = receipt[r].posted
                            /\ receipt'[r].posted <=> receipt'[r].status = "stock_posted"
                            /\ receipt'[r].posted => receipt'[r].quality = "approved"
  PROVE  Kept'
<1>1. (\A i \in Row : RowSound(i))' /\ OrderNotExceeded'
  BY DEF IndInv, RowSound, Moved, Confirmed, OrderNotExceeded
<1>2. ASSUME NEW e \in Editor PROVE RequestSound(e)'
  <2>1. RequestSound(e) /\ Holds(e)' = Holds(e)
    BY DEF IndInv, Holds
  <2>2. Holds(e) \ {"none"} \subseteq Receipt
    BY DEF IndInv, Holds, ReceiptTypeOK, ItemReq, IdleItemReq, ItemRow
  <2> QED BY <2>1, <2>2 DEF RequestSound
<1>3. ASSUME NEW i \in Row \ overrun, Moved(i) \/ item[i].accepted > 0
      PROVE  Moved(i) /\ Confirmed(i) <=> receipt'[item[i].receipt].posted
  <2>1. item[i].receipt \in Receipt
    BY <1>3, Fields DEF IndInv, RowSound
  <2>2. Moved(i) /\ Confirmed(i) <=> receipt[item[i].receipt].posted
    BY <1>3 DEF IndInv, PostedWholly
  <2> QED BY <2>1, <2>2
<1>4. PostedWholly'
  BY <1>3 DEF PostedWholly, Moved, Confirmed
<1> QED BY <1>1, <1>2, <1>4 DEF Kept

\* Steps that only note what a request has read.
LEMMA NothingMoves ==
  ASSUME IndInv, UNCHANGED <<order, receipt, item, movement, itemReq, overrun>>
  PROVE  Kept'
BY DEF IndInv, Kept, RowSound, RequestSound, PostedWholly, OrderNotExceeded, Holds, Moved, Confirmed

\* A save of a receipt keeps one in stock as it is and puts none there.
LEMMA SavedRows ==
  ASSUME IndInv, NEW e \in Editor, SaveReceipt(e), NEW r \in Receipt
  PROVE  /\ receipt'[r].posted = receipt[r].posted
         /\ receipt'[r].posted <=> receipt'[r].status = "stock_posted"
         /\ receipt'[r].posted => receipt'[r].quality = "approved"
<1> DEFINE req == receiptReq[e]
<1>1. /\ req.step = "read" /\ Savable(req.row, req.copy)
      /\ receipt' = [receipt EXCEPT ![req.row] =
           IF req.whole THEN req.copy ELSE [receipt[req.row] EXCEPT !.status = req.copy.status]]
      /\ UNCHANGED <<order, item, movement, itemReq, overrun>>
  BY DEF SaveReceipt
<1>2. req.copy \in ReceiptRow /\ req.row \in Receipt \cup {"none"}
  BY DEF IndInv, ReceiptTypeOK, ReceiptReq
<1>3. receipt \in [Receipt -> ReceiptRow]
  BY DEF IndInv, ReceiptTypeOK
<1> HIDE DEF req
<1> QED
  <2>1. /\ receipt[r].posted <=> receipt[r].status = "stock_posted"
        /\ receipt[r].posted => receipt[r].quality = "approved"
    BY DEF IndInv, PostedWholly
  <2>2. CASE r # req.row
    BY <1>1, <1>3, <2>1, <2>2
  <2>3. CASE r = req.row /\ req.whole
    <3>1. receipt'[r] = req.copy
      BY <1>1, <1>3, <2>3
    <3> QED BY <1>1, <1>2, <1>3, <2>1, <2>3, <3>1 DEF Savable, ReceiptRow
  <2>4. CASE r = req.row /\ ~req.whole
    <3>1. receipt'[r] = [receipt[r] EXCEPT !.status = req.copy.status]
      BY <1>1, <1>3, <2>4
    <3>2. receipt[r] \in ReceiptRow
      BY <1>3
    <3>3. /\ receipt'[r].posted = receipt[r].posted
          /\ receipt'[r].quality = receipt[r].quality
          /\ receipt'[r].status = req.copy.status
      BY <3>1, <3>2 DEF ReceiptRow
    <3> QED BY <1>1, <2>1, <2>4, <3>3 DEF Savable
  <2> QED BY <2>2, <2>3, <2>4

LEMMA SaveKeeps ==
  ASSUME IndInv, NEW e \in Editor, SaveReceipt(e)
  PROVE  Kept'
<1>1. UNCHANGED <<order, item, movement, itemReq, overrun>>
  BY DEF SaveReceipt
<1> QED BY <1>1, SavedRows, ReceiptsMove

\* A save of an item that reads, locks or gives up changes no row.
LEMMA RequestKeeps ==
  ASSUME IndInv, NEW e \in Editor, UNCHANGED <<order, receipt, item, movement, overrun>>,
         NEW q, itemReq' = [itemReq EXCEPT ![e] = q],
         q.step # "idle" => q.new.receipt \in Receipt,
         q.step = "locked" => \A r \in {q.prev, q.new.receipt} \ {"none"} : ~receipt[r].posted
  PROVE  Kept'
<1>1. (\A i \in Row : RowSound(i))' /\ OrderNotExceeded' /\ PostedWholly'
  BY DEF IndInv, RowSound, Moved, Confirmed, OrderNotExceeded, PostedWholly
<1>2. itemReq'[e] = q /\ \A f \in Editor : f # e => itemReq'[f] = itemReq[f]
  BY DEF IndInv, ReceiptTypeOK
<1>3. ASSUME NEW f \in Editor PROVE RequestSound(f)'
  <2>1. CASE f # e
    BY <1>2, <2>1 DEF IndInv, RequestSound, Holds
  <2>2. CASE f = e
    BY <1>2, <2>2 DEF RequestSound, Holds
  <2> QED BY <2>1, <2>2
<1> QED BY <1>1, <1>3 DEF Kept

LEMMA ReadKeeps ==
  ASSUME IndInv, NEW e \in Editor, NEW i \in Row, NEW r \in Receipt, ReadItem(e, i, r)
  PROVE  Kept'
<1>1. PICK new \in Typed(r) :
        /\ itemReq' = [itemReq EXCEPT ![e] =
             [step |-> "read", row |-> i, prev |-> item[i].receipt, new |-> new]]
        /\ UNCHANGED <<order, receipt, item, movement, overrun>>
  BY DEF ReadItem
<1> DEFINE q == [step |-> "read", row |-> i, prev |-> item[i].receipt, new |-> new]
<1>2. q.step = "read" /\ q.new.receipt \in Receipt /\ itemReq' = [itemReq EXCEPT ![e] = q]
  BY <1>1 DEF Typed
<1> HIDE DEF q
<1> QED BY <1>1, <1>2, RequestKeeps

LEMMA LockKeeps ==
  ASSUME IndInv, NEW e \in Editor, LockReceipts(e)
  PROVE  Kept'
<1> DEFINE q == [itemReq[e] EXCEPT !.step = "locked"]
<1>1. /\ itemReq[e].step = "read" /\ itemReq' = [itemReq EXCEPT ![e] = q]
      /\ ItemOpen(itemReq[e].row, {itemReq[e].prev, itemReq[e].new.receipt} \ {"none"})
      /\ UNCHANGED <<order, receipt, item, movement, overrun>>
  BY DEF LockReceipts
<1>2. q.prev = itemReq[e].prev /\ q.new = itemReq[e].new
  BY <1>1 DEF IndInv, ReceiptTypeOK, ItemReq, IdleItemReq
<1>3. q.new.receipt \in Receipt
  BY <1>1, <1>2 DEF IndInv, RequestSound
<1>4. \A r \in {q.prev, q.new.receipt} \ {"none"} : ~receipt[r].posted
  BY <1>1, <1>2 DEF ItemOpen
<1> HIDE DEF q
<1> QED BY <1>1, <1>3, <1>4, RequestKeeps

LEMMA AbandonKeeps ==
  ASSUME IndInv, NEW e \in Editor, Abandon(e)
  PROVE  Kept'
<1>1. CASE itemReq' = [itemReq EXCEPT ![e] = IdleItemReq]
  <2>1. IdleItemReq.step = "idle"
    BY DEF IdleItemReq
  <2> QED BY <1>1, <2>1, RequestKeeps DEF Abandon
<1>2. CASE UNCHANGED itemReq
  BY <1>2, NothingMoves DEF Abandon
<1> QED BY <1>1, <1>2 DEF Abandon

\* A save writes an item that belongs to no receipt in stock, or it overruns the item; it
\* writes it into a receipt that is not in stock.
LEMMA WrittenRow ==
  ASSUME IndInv, NEW e \in Editor, WriteItem(e)
  PROVE  LET k == itemReq[e].row
         IN  /\ k \in Row
             /\ item'[k] = itemReq[e].new
             /\ item'[k].receipt \in Receipt /\ ~receipt[item'[k].receipt].posted
             /\ \A i \in Row : i # k => item'[i] = item[i] /\ (i \in overrun' <=> i \in overrun)
             /\ overrun \subseteq overrun'
             /\ k \in overrun' \/ ~Moved(k)
<1> DEFINE k == itemReq[e].row
           n == itemReq[e].new
<1>1. /\ itemReq[e].step = "locked" /\ item' = [item EXCEPT ![k] = n]
      /\ overrun' = IF Overruns(e) THEN overrun \cup {k} ELSE overrun
  BY DEF WriteItem
<1>2. /\ k \in Row /\ n.receipt \in Receipt
      /\ \A r \in Holds(e) \ {"none"} : ~receipt[r].posted
  BY <1>1, Fields DEF IndInv, RequestSound
<1>3. n.receipt \in Holds(e) /\ n.receipt # "none"
  BY <1>1, <1>2 DEF Holds
<1>4. ASSUME k \notin overrun' PROVE ~Moved(k)
  <2>1. k \notin overrun /\ ~Overruns(e)
    BY <1>1, <1>4
  <2>2. item[k].receipt = "none" \/ ~receipt[item[k].receipt].posted
    BY <1>2, <2>1 DEF Overruns
  <2>3. CASE item[k].receipt = "none"
    BY <1>2, <2>3 DEF IndInv, RowSound
  <2>4. CASE ~receipt[item[k].receipt].posted
    BY <1>2, <2>1, <2>4 DEF IndInv, PostedWholly, RowSound
  <2> QED BY <2>2, <2>3, <2>4
<1>5. item'[k] = n /\ \A i \in Row : i # k => item'[i] = item[i]
  BY <1>1, <1>2 DEF IndInv, ReceiptTypeOK
<1> HIDE DEF k, n
<1>6. ~receipt[item'[k].receipt].posted
  BY <1>2, <1>3, <1>5
<1> QED BY <1>1, <1>2, <1>4, <1>5, <1>6 DEF k, n

LEMMA WriteKeeps ==
  ASSUME IndInv, ReceiptTypeOK', NEW e \in Editor, WriteItem(e)
  PROVE  Kept'
<1> DEFINE k == itemReq[e].row
<1>1. /\ k \in Row
      /\ item'[k].receipt \in Receipt /\ ~receipt[item'[k].receipt].posted
      /\ \A i \in Row : i # k => item'[i] = item[i] /\ (i \in overrun' <=> i \in overrun)
      /\ k \in overrun' \/ ~Moved(k)
  BY WrittenRow
<1>2. /\ itemReq' = [itemReq EXCEPT ![e] = IdleItemReq]
      /\ UNCHANGED <<order, receipt, movement>>
  BY DEF WriteItem
<1> HIDE DEF k
<1>3. ASSUME NEW i \in Row PROVE RowSound(i)'
  <2>1. CASE i = k
    BY <1>1, <1>2, <2>1 DEF RowSound, Moved
  <2>2. CASE i # k
    BY <1>1, <1>2, <2>2 DEF IndInv, RowSound, Moved, Confirmed
  <2> QED BY <2>1, <2>2
<1>4. ASSUME NEW f \in Editor PROVE RequestSound(f)'
  <2>1. itemReq'[f] = IF f = e THEN IdleItemReq ELSE itemReq[f]
    BY <1>2 DEF IndInv, ReceiptTypeOK
  <2> QED BY <1>2, <2>1 DEF IndInv, RequestSound, Holds, IdleItemReq
<1>5. PostedWholly'
  <2>1. ASSUME NEW i \in Row, i \notin overrun', Moved(i)' \/ item'[i].accepted > 0
        PROVE  (Moved(i) /\ Confirmed(i))' <=> receipt'[item'[i].receipt].posted
    <3>1. CASE i = k
      BY <1>1, <1>2, <2>1, <3>1 DEF Moved
    <3>2. CASE i # k
      BY <1>1, <1>2, <2>1, <3>2 DEF IndInv, PostedWholly, Moved, Confirmed
    <3> QED BY <3>1, <3>2
  <2> QED BY <1>2, <2>1 DEF IndInv, PostedWholly
<1>6. OrderNotExceeded'
  <2>1. k \in overrun' \/ movement[k].quantity = 0
    BY <1>1, Fields DEF IndInv, Moved
  <2> QED BY <1>1, <1>2, <2>1, OrderStays DEF IndInv
<1> QED BY <1>3, <1>4, <1>5, <1>6 DEF Kept

\* The import makes an item of a row that no item had.
LEMMA ImportKeeps ==
  ASSUME IndInv, ReceiptTypeOK',
         NEW r \in Receipt, NEW k \in Row, NEW o \in OrderItem, NEW l \in Lot,
         ImportNfe(r, k, o, l)
  PROVE  Kept'
<1>1. PICK q \in Quantity :
        /\ receipt[r].status = "absent" /\ item[k].receipt = "none"
        /\ receipt' = [receipt EXCEPT ![r] =
             [status |-> "draft", quality |-> "pending", posted |-> FALSE]]
        /\ item' = [item EXCEPT ![k] = [receipt |-> r, order |-> o, lot |-> l,
                                       received |-> q, accepted |-> 0, rejected |-> 0]]
        /\ UNCHANGED <<order, movement, itemReq, overrun>>
  BY DEF ImportNfe
<1>2. /\ item'[k].receipt = r /\ item'[k].accepted = 0
      /\ \A i \in Row : i # k => item'[i] = item[i]
  BY <1>1 DEF IndInv, ReceiptTypeOK
<1>3. ~Moved(k) /\ movement[k].quantity = 0
  BY <1>1, Fields DEF IndInv, RowSound, Moved
<1>4. \A s \in Receipt : /\ receipt'[s].posted = receipt[s].posted
                         /\ receipt'[s].posted <=> receipt'[s].status = "stock_posted"
                         /\ receipt'[s].posted => receipt'[s].quality = "approved"
  <2>1. ~receipt[r].posted
    BY <1>1 DEF IndInv, PostedWholly
  <2>2. receipt[r].posted \in BOOLEAN
    BY Fields DEF IndInv
  <2>3. receipt'[r].posted = FALSE /\ receipt'[r].status = "draft"
        /\ \A s \in Receipt : s # r => receipt'[s] = receipt[s]
    BY <1>1 DEF IndInv, ReceiptTypeOK
  <2> QED BY <2>1, <2>2, <2>3 DEF IndInv, PostedWholly
<1>5. ASSUME NEW i \in Row PROVE RowSound(i)'
  BY <1>1, <1>2, <1>3 DEF IndInv, RowSound, Moved, Confirmed
<1>6. ASSUME NEW e \in Editor PROVE RequestSound(e)'
  <2>1. RequestSound(e) /\ Holds(e)' = Holds(e) /\ itemReq'[e] = itemReq[e]
    BY <1>1 DEF IndInv, Holds
  <2>2. Holds(e) \ {"none"} \subseteq Receipt
    BY DEF IndInv, Holds, ReceiptTypeOK, ItemReq, IdleItemReq, ItemRow
  <2> QED BY <1>4, <2>1, <2>2 DEF RequestSound
<1>7. PostedWholly'
  <2>1. ASSUME NEW i \in Row, i \notin overrun', Moved(i)' \/ item'[i].accepted > 0
        PROVE  (Moved(i) /\ Confirmed(i))' <=> receipt'[item'[i].receipt].posted
    <3>1. i # k
      BY <1>1, <1>2, <1>3, <2>1 DEF Moved
    <3>2. item'[i] = item[i] /\ (Moved(i) \/ item[i].accepted > 0)
      BY <1>1, <1>2, <2>1, <3>1 DEF Moved
    <3>3. item[i].receipt \in Receipt
      BY <3>2, Fields DEF IndInv, RowSound
    <3>4. Moved(i) /\ Confirmed(i) <=> receipt[item[i].receipt].posted
      BY <1>1, <2>1, <3>2 DEF IndInv, PostedWholly
    <3>5. (Moved(i) /\ Confirmed(i))' <=> Moved(i) /\ Confirmed(i)
      BY <1>1, <3>2 DEF Moved, Confirmed
    <3>6. receipt'[item'[i].receipt].posted = receipt[item[i].receipt].posted
      BY <1>4, <3>2, <3>3
    <3> QED BY <3>4, <3>5, <3>6
  <2> QED BY <1>4, <2>1 DEF PostedWholly
<1>8. OrderNotExceeded'
  BY <1>1, <1>2, <1>3, OrderStays DEF IndInv
<1> QED BY <1>5, <1>6, <1>7, <1>8 DEF Kept

\* An edit of the order stays above what entered.
LEMMA EditKeeps ==
  ASSUME IndInv, NEW o \in OrderItem, EditOrder(o)
  PROVE  Kept'
<1>1. PICK q \in Ordered : /\ q > 0 /\ q >= Entered(o) /\ order' = [order EXCEPT ![o] = q]
                          /\ UNCHANGED <<receipt, item, movement, itemReq, overrun>>
  BY DEF EditOrder, Orderable
<1>2. (\A i \in Row : RowSound(i))' /\ (\A e \in Editor : RequestSound(e))' /\ PostedWholly'
  BY <1>1 DEF IndInv, RowSound, RequestSound, PostedWholly, Holds, Moved, Confirmed
<1>3. Total(Intact(o), ItemCount) <= Entered(o) /\ Entered(o) \in Int
      /\ Total(Intact(o), ItemCount) \in Int
  <2> DEFINE f == ShareOfOrder(o, item, movement)
  <2>1. f \in [1..ItemCount -> Nat] /\ f \in [1..ItemCount -> Int]
        /\ Intact(o) \in [1..ItemCount -> Int]
    BY ShareTypes, IntactTypes DEF IndInv
  <2>2. \A i \in 1..ItemCount : Intact(o)[i] = IF i \in overrun THEN 0 ELSE f[i]
    BY DEF Intact, Row
  <2> HIDE DEF f
  <2>3. \A i \in 1..ItemCount : Intact(o)[i] <= f[i]
    BY <2>1, <2>2
  <2> QED BY <2>1, <2>3, TotalMonotone, TotalInt DEF Entered, f
<1>4. ASSUME NEW p \in OrderItem PROVE Total(Intact(p), ItemCount) <= order'[p]
  <2>1. order'[p] = IF p = o THEN q ELSE order[p]
    BY <1>1 DEF IndInv, ReceiptTypeOK
  <2>2. Total(Intact(p), ItemCount) <= order[p] /\ q \in Nat
    BY DEF IndInv, OrderNotExceeded, Intact
  <2> QED BY <1>1, <1>3, <2>1, <2>2
<1>5. OrderNotExceeded'
  BY <1>1, <1>4 DEF OrderNotExceeded, Intact
<1> QED BY <1>2, <1>5 DEF Kept

-----------------------------------------------------------------------------
(* The entry into stock *)

\* What an entry does to the rows: the accepted items of the receipt that have no movement
\* get one, and a repeated call finds none.
LEMMA EntryRows ==
  ASSUME IndInv, NEW r \in Receipt, PostStock(r)
  PROVE  /\ UNCHANGED <<order, item, itemReq, overrun>>
         /\ Pending(r) \subseteq Accepted(r) /\ Accepted(r) \subseteq ItemsOf(r)
         /\ \A i \in ItemsOf(r) : i \in Row /\ item[i].receipt = r
         /\ \A i \in Row : IF i \in Pending(r)
              THEN /\ movement'[i].quantity = item[i].accepted /\ movement'[i].lot = item[i].lot
                   /\ Moved(i)' /\ Confirmed(i)' /\ ~Moved(i) /\ item[i].accepted > 0
              ELSE movement'[i] = movement[i]
         /\ receipt[r].posted => Pending(r) = {}
         /\ \A i \in Accepted(r) : Moved(i)' /\ Confirmed(i)'
<1>1. /\ UNCHANGED <<order, item, itemReq, overrun>>
      /\ movement' = [i \in Row |-> IF i \in Pending(r)
           THEN [quantity |-> item[i].accepted, lot |-> item[i].lot] ELSE movement[i]]
      /\ receipt[r].posted => \A i \in ItemsOf(r) : Moved(i) = (i \in Accepted(r))
      /\ \A i \in Accepted(r) : Moved(i) => Confirmed(i)
  BY DEF PostStock
<1>2. /\ Pending(r) \subseteq Accepted(r) /\ Accepted(r) \subseteq ItemsOf(r)
      /\ \A i \in ItemsOf(r) : i \in Row /\ item[i].receipt = r
      /\ \A i \in Accepted(r) : item[i].accepted > 0
      /\ \A i \in Pending(r) : ~Moved(i)
      /\ \A i \in Accepted(r) : i \in Pending(r) \/ Moved(i)
  BY DEF Pending, Accepted, ItemsOf
<1>3. ASSUME NEW i \in Pending(r)
      PROVE  /\ movement'[i].quantity = item[i].accepted /\ movement'[i].lot = item[i].lot
             /\ Moved(i)' /\ Confirmed(i)' /\ ~Moved(i) /\ item[i].accepted > 0
  <2>1. movement'[i] = [quantity |-> item[i].accepted, lot |-> item[i].lot]
    BY <1>1, <1>2
  <2> QED BY <1>1, <1>2, <2>1 DEF Moved, Confirmed
<1>4. \A i \in Row \ Pending(r) : movement'[i] = movement[i]
  BY <1>1
<1>5. receipt[r].posted => Pending(r) = {}
  BY <1>1, <1>2
<1>6. ASSUME NEW i \in Accepted(r) PROVE Moved(i)' /\ Confirmed(i)'
  <2>1. CASE i \in Pending(r)
    BY <1>3, <2>1
  <2>2. CASE i \notin Pending(r)
    <3>1. i \in Row /\ Moved(i)
      BY <1>2, <2>2
    <3>2. movement'[i] = movement[i] /\ Confirmed(i)
      BY <1>1, <1>4, <2>2, <3>1
    <3> QED BY <1>1, <3>1, <3>2 DEF Moved, Confirmed
  <2> QED BY <2>1, <2>2
<1> QED BY <1>1, <1>2, <1>3, <1>4, <1>5, <1>6

\* The entry exceeds no order: row by row, what has entered afterwards is at most what
\* post_stock has added up.
LEMMA EntryWithinOrder ==
  ASSUME IndInv, NEW r \in Receipt, PostStock(r), NEW o \in OrderItem
  PROVE  Total(Intact(o)', ItemCount) <= order[o]
<1> DEFINE f == Intact(o)
           h == Intact(o)'
           g == [i \in Row |-> IF item[i].order # o THEN 0
                              ELSE IF i \in ItemsOf(r) THEN item[i].accepted
                              ELSE movement[i].quantity]
<1>1. \A i \in Row : /\ item[i].accepted \in Nat /\ movement[i].quantity \in Nat
                     /\ movement'[i].quantity \in Nat
  BY Fields, EntryRows DEF IndInv
<1>2. ASSUME NEW i \in Row
      PROVE  /\ h[i] = IF i \in overrun \/ item[i].order # o THEN 0 ELSE movement'[i].quantity
             /\ f[i] = IF i \in overrun \/ item[i].order # o THEN 0 ELSE movement[i].quantity
             /\ g[i] = IF item[i].order # o THEN 0
                       ELSE IF i \in ItemsOf(r) THEN item[i].accepted ELSE movement[i].quantity
             /\ h[i] \in Int /\ g[i] \in Int
  <2>1. UNCHANGED <<item, overrun>>
    BY EntryRows
  <2> QED BY <1>1, <2>1 DEF Intact, ShareOfOrder
<1>3. g \in [1..ItemCount -> Int] /\ h \in [1..ItemCount -> Int]
  <2>1. h = [i \in Row |-> h[i]] /\ g = [i \in Row |-> g[i]]
    BY DEF Intact
  <2> HIDE DEF g, h
  <2> QED BY <1>2, <2>1 DEF Row
<1>4. Total(f, ItemCount) <= order[o] /\ order[o] \in Nat
  BY DEF IndInv, OrderNotExceeded, ReceiptTypeOK, Intact
<1>5. CASE \E i \in Pending(r) : item[i].order = o
  <2>1. ~receipt[r].posted /\ \E i \in ItemsOf(r) : item[i].order = o
    BY <1>5, EntryRows
  <2>2. Cumulative(o, r) <= order[o]
    BY <2>1 DEF PostStock, ValidFirstEntry
  <2>3. ASSUME NEW i \in Row PROVE h[i] <= g[i]
    <3>1. CASE i \in Pending(r)
      <4>1. i \in ItemsOf(r) /\ movement'[i].quantity = item[i].accepted
        BY <3>1, EntryRows
      <4> HIDE DEF f, g, h
      <4> QED BY <1>1, <1>2, <4>1
    <3>2. CASE i \notin Pending(r)
      <4>1. movement'[i] = movement[i]
        BY <3>2, EntryRows
      <4>2. i \notin overrun /\ movement[i].quantity > 0 => movement[i].quantity = item[i].accepted
        <5>1. RowSound(i)
          BY DEF IndInv
        <5> HIDE DEF f, g, h
        <5> QED BY <5>1 DEF RowSound, Moved, Confirmed
      <4> HIDE DEF f, g, h
      <4> QED BY <1>1, <1>2, <4>1, <4>2
    <3> QED BY <3>1, <3>2
  <2>4. Total(h, ItemCount) <= Total(g, ItemCount) /\ Total(h, ItemCount) \in Int
        /\ Total(g, ItemCount) \in Int
    <3>1. ItemCount \in Nat /\ \A i \in 1..ItemCount : h[i] <= g[i]
      BY <2>3 DEF Row
    <3> HIDE DEF g, h
    <3> QED BY ONLY <1>3, <3>1, TotalMonotone, TotalInt
  <2>5. Cumulative(o, r) = Total(g, ItemCount)
    BY DEF Cumulative
  <2> HIDE DEF f, g, h
  <2> QED BY <1>4, <2>2, <2>4, <2>5 DEF h
<1>6. CASE \A i \in Pending(r) : item[i].order # o
  <2>1. ASSUME NEW i \in Row PROVE h[i] = f[i]
    <3>1. item[i].order = o => movement'[i] = movement[i]
      BY <1>6, EntryRows
    <3> HIDE DEF f, g, h
    <3> QED BY <1>2, <3>1
  <2>2. h = f
    <3>1. h = [i \in Row |-> h[i]] /\ f = [i \in Row |-> f[i]]
      BY DEF Intact
    <3> HIDE DEF f, h
    <3> QED BY <2>1, <3>1
  <2> HIDE DEF f, h
  <2> QED BY <1>4, <2>2 DEF h
<1> QED BY <1>5, <1>6

LEMMA EntryKeeps ==
  ASSUME IndInv, NEW r \in Receipt, PostStock(r)
  PROVE  Kept'
<1>1. /\ receipt[r].quality = "approved"
      /\ receipt' = [receipt EXCEPT ![r] = [receipt[r] EXCEPT !.status = "stock_posted",
                                                            !.posted = TRUE]]
      /\ Unlocked(r)
  BY DEF PostStock
<1>2. /\ receipt'[r].posted = TRUE /\ receipt'[r].status = "stock_posted"
      /\ receipt'[r].quality = "approved"
      /\ \A s \in Receipt : s # r => receipt'[s] = receipt[s]
  <2>1. receipt[r] \in ReceiptRow /\ receipt \in [Receipt -> ReceiptRow]
    BY DEF IndInv, ReceiptTypeOK
  <2>2. receipt'[r] = [receipt[r] EXCEPT !.status = "stock_posted", !.posted = TRUE]
    BY <1>1, <2>1
  <2> QED BY <1>1, <2>1, <2>2 DEF ReceiptRow
<1>3. ASSUME NEW i \in Row PROVE RowSound(i)'
  <2>1. CASE i \in Pending(r)
    BY <2>1, EntryRows DEF RowSound, Pending, Accepted, ItemsOf
  <2>2. CASE i \notin Pending(r)
    BY <2>2, EntryRows DEF IndInv, RowSound, Moved, Confirmed
  <2> QED BY <2>1, <2>2
<1>4. ASSUME NEW e \in Editor PROVE RequestSound(e)'
  <2>1. RequestSound(e) /\ Holds(e)' = Holds(e) /\ UNCHANGED itemReq
    BY EntryRows DEF IndInv, Holds
  <2>2. r \notin Holds(e) /\ Holds(e) \ {"none"} \subseteq Receipt
    BY <1>1 DEF Unlocked, IndInv, Holds, ReceiptTypeOK, ItemReq, IdleItemReq, ItemRow
  <2> QED BY <1>2, <2>1, <2>2 DEF RequestSound
<1>5. UNCHANGED overrun
  BY EntryRows
<1>6. PostedWholly'
  <2>1. ASSUME NEW i \in Row \ overrun, Moved(i)' \/ item'[i].accepted > 0
        PROVE  (Moved(i) /\ Confirmed(i))' <=> receipt'[item'[i].receipt].posted
    <3>1. item'[i] = item[i]
      BY EntryRows
    <3>2. CASE item[i].receipt = r
      <4>1. i \in Accepted(r)
        <5>1. CASE item[i].accepted > 0
          BY <3>2, <5>1 DEF Accepted, ItemsOf
        <5>2. CASE Moved(i)
          <6>1. item[i].accepted = movement[i].quantity /\ movement[i].quantity > 0
            <7>1. RowSound(i)
              BY DEF IndInv
            <7> QED BY <5>2, <7>1 DEF RowSound, Moved, Confirmed
          <6> QED BY <3>2, <6>1 DEF Accepted, ItemsOf
        <5>3. i \in Pending(r) \/ Moved(i)' = Moved(i)
          BY EntryRows DEF Moved
        <5> QED BY <2>1, <3>1, <5>1, <5>2, <5>3, EntryRows
      <4>2. Moved(i)' /\ Confirmed(i)'
        BY <4>1, EntryRows
      <4> QED BY <1>2, <3>1, <3>2, <4>2
    <3>3. CASE item[i].receipt # r
      <4>1. i \notin Pending(r)
        BY <3>3, EntryRows
      <4>2. movement'[i] = movement[i]
        BY <4>1, EntryRows
      <4>3. (Moved(i)' <=> Moved(i)) /\ (Confirmed(i)' <=> Confirmed(i))
        BY <3>1, <4>2 DEF Moved, Confirmed
      <4>4. item[i].receipt \in Receipt
        BY <2>1, <3>1, <4>3, Fields DEF IndInv, RowSound
      <4>5. receipt'[item'[i].receipt].posted = receipt[item[i].receipt].posted
        BY <1>2, <3>1, <3>3, <4>4
      <4>6. Moved(i) /\ Confirmed(i) <=> receipt[item[i].receipt].posted
        BY <2>1, <3>1, <4>3 DEF IndInv, PostedWholly
      <4> QED BY <4>3, <4>5, <4>6
    <3> QED BY <3>2, <3>3
  <2>2. ASSUME NEW s \in Receipt
        PROVE  /\ receipt'[s].posted <=> receipt'[s].status = "stock_posted"
               /\ receipt'[s].posted => receipt'[s].quality = "approved"
    BY <1>2 DEF IndInv, PostedWholly
  <2> QED BY <1>5, <2>1, <2>2 DEF PostedWholly
<1>7. OrderNotExceeded'
  BY EntryWithinOrder, EntryRows DEF OrderNotExceeded, Intact
<1> QED BY <1>3, <1>4, <1>6, <1>7 DEF Kept

-----------------------------------------------------------------------------
(* The theorems *)

LEMMA KeptFirst == Init => Kept
<1> SUFFICES ASSUME Init PROVE Kept
  OBVIOUS
<1>1. /\ \A r \in Receipt : receipt[r] = AbsentReceipt
      /\ \A i \in Row : item[i] = AbsentItem /\ movement[i] = NoMovement
      /\ \A e \in Editor : itemReq[e] = IdleItemReq
      /\ ReceiptTypeOK
  BY InitTyped DEF Init
<1>2. \A i \in Row : ~Moved(i) /\ ~(item[i].accepted > 0) /\ item[i].accepted = 0
                     /\ movement[i].quantity = 0
  BY <1>1 DEF AbsentItem, NoMovement, Moved
<1>3. (\A i \in Row : RowSound(i)) /\ (\A e \in Editor : RequestSound(e))
  BY <1>1, <1>2 DEF RowSound, RequestSound, Holds, IdleItemReq
<1>4. PostedWholly
  BY <1>1, <1>2 DEF PostedWholly, AbsentReceipt
<1>5. ASSUME NEW o \in OrderItem PROVE Total(Intact(o), ItemCount) <= order[o]
  <2>1. Intact(o) \in [1..ItemCount -> Int] /\ \A i \in 1..ItemCount : Intact(o)[i] = 0
    BY <1>1, <1>2, IntactTypes DEF Intact, ShareOfOrder, Row
  <2>2. order[o] \in Nat
    BY <1>1 DEF ReceiptTypeOK
  <2> QED BY <2>1, <2>2, TotalZero
<1> QED BY <1>3, <1>4, <1>5 DEF Kept, OrderNotExceeded, Intact

\* Every step keeps the inductive invariant.
LEMMA Inductive == IndInv /\ [Next]_vars => IndInv'
<1> SUFFICES ASSUME IndInv, [Next]_vars, ReceiptTypeOK' PROVE Kept'
  BY StepTyped DEF IndInv, Kept
<1>1. ASSUME NEW o \in OrderItem, EditOrder(o) PROVE Kept'
  BY <1>1, EditKeeps
<1>2. ASSUME NEW r \in Receipt, CreateReceipt(r) PROVE Kept'
  <2>1. PICK q \in Quality : receipt' = [receipt EXCEPT ![r] =
          [status |-> "draft", quality |-> q, posted |-> FALSE]]
    BY <1>2 DEF CreateReceipt
  <2>2. /\ receipt[r].status = "absent" /\ receipt[r].posted \in BOOLEAN
        /\ receipt'[r].posted = FALSE /\ receipt'[r].status = "draft"
        /\ \A s \in Receipt : s # r => receipt'[s] = receipt[s]
    BY <1>2, <2>1, Fields DEF CreateReceipt, IndInv, ReceiptTypeOK
  <2>3. ASSUME NEW s \in Receipt
        PROVE  /\ receipt'[s].posted = receipt[s].posted
               /\ receipt'[s].posted <=> receipt'[s].status = "stock_posted"
               /\ receipt'[s].posted => receipt'[s].quality = "approved"
    BY <2>2 DEF IndInv, PostedWholly
  <2>4. UNCHANGED <<order, item, movement, itemReq, overrun>>
    BY <1>2 DEF CreateReceipt
  <2> QED BY <2>3, <2>4, ReceiptsMove
<1>3. ASSUME NEW r \in Receipt, ReleaseQuality(r) PROVE Kept'
  <2>1. PICK q : receipt' = [receipt EXCEPT ![r] =
          [receipt[r] EXCEPT !.status = "quality_released", !.quality = q]]
    BY <1>3 DEF ReleaseQuality
  <2>2. /\ ~receipt[r].posted /\ receipt'[r].posted = receipt[r].posted
        /\ receipt'[r].status = "quality_released"
        /\ \A s \in Receipt : s # r => receipt'[s] = receipt[s]
    BY <1>3, <2>1 DEF ReleaseQuality, IndInv, ReceiptTypeOK, ReceiptRow
  <2>3. ASSUME NEW s \in Receipt
        PROVE  /\ receipt'[s].posted = receipt[s].posted
               /\ receipt'[s].posted <=> receipt'[s].status = "stock_posted"
               /\ receipt'[s].posted => receipt'[s].quality = "approved"
    BY <2>2 DEF IndInv, PostedWholly
  <2>4. UNCHANGED <<order, item, movement, itemReq, overrun>>
    BY <1>3 DEF ReleaseQuality
  <2> QED BY <2>3, <2>4, ReceiptsMove
<1>4. ASSUME NEW r \in Receipt, PostStock(r) PROVE Kept'
  BY <1>4, EntryKeeps
<1>5. ASSUME NEW r \in Receipt, NEW i \in Row, NEW o \in OrderItem, NEW l \in Lot,
             ImportNfe(r, i, o, l)
      PROVE  Kept'
  BY <1>5, ImportKeeps
<1>6. ASSUME NEW e \in Editor, NEW r \in Receipt, ReadReceipt(e, r) PROVE Kept'
  BY <1>6, NothingMoves DEF ReadReceipt
<1>7. ASSUME NEW e \in Editor, NEW i \in Row, NEW r \in Receipt, ReadItem(e, i, r)
      PROVE  Kept'
  BY <1>7, ReadKeeps
<1>8. ASSUME NEW e \in Editor, SaveReceipt(e) PROVE Kept'
  BY <1>8, SaveKeeps
<1>9. ASSUME NEW e \in Editor, LockReceipts(e) PROVE Kept'
  BY <1>9, LockKeeps
<1>10. ASSUME NEW e \in Editor, WriteItem(e) PROVE Kept'
  BY <1>10, WriteKeeps
<1>11. ASSUME NEW e \in Editor, Abandon(e) PROVE Kept'
  BY <1>11, AbandonKeeps
<1>12. ASSUME NEW l \in Lot, Redispose(l) PROVE Kept'
  BY <1>12, NothingMoves DEF Redispose
<1>13. CASE UNCHANGED vars
  BY <1>13, NothingMoves DEF vars
<1> QED BY <1>1, <1>2, <1>3, <1>4, <1>5, <1>6, <1>7, <1>8, <1>9, <1>10, <1>11, <1>12, <1>13
        DEF Next

THEOREM Invariant == Spec => []IndInv
<1>1. Init => IndInv
  BY InitTyped, KeptFirst DEF IndInv, Kept
<1>2. IndInv /\ [Next]_vars => IndInv'
  BY Inductive
<1> QED BY <1>1, <1>2, PTL DEF Spec

\* However many receipts of an order are posted at a time, and whatever becomes of the
\* ordered quantity, no more of an item enters than is ordered by items not overrun.
THEOREM OrderBounds == Spec => []OrderNotExceeded
<1>1. IndInv => OrderNotExceeded
  BY DEF IndInv
<1> QED BY <1>1, Invariant, PTL

\* A receipt is in stock wholly or not at all, but for items that were overrun.
THEOREM EntryIsWhole == Spec => []PostedWholly
<1>1. IndInv => PostedWholly
  BY DEF IndInv
<1> QED BY <1>1, Invariant, PTL

\* A step leaves the movements, and the items that have entered unless it overruns them.
LEMMA EnteredRows ==
  ASSUME IndInv, [Next]_vars, NEW k \in Row, Moved(k)
  PROVE  movement'[k] = movement[k] /\ (item'[k] = item[k] \/ k \in overrun')
<1>1. ASSUME NEW r \in Receipt, PostStock(r) PROVE item'[k] = item[k] /\ movement'[k] = movement[k]
  BY <1>1, EntryRows
<1>2. ASSUME NEW r \in Receipt, NEW i \in Row, NEW o \in OrderItem, NEW l \in Lot,
             ImportNfe(r, i, o, l)
      PROVE  item'[k] = item[k] /\ movement'[k] = movement[k]
  <2>1. item[i].receipt = "none" /\ i # k
    BY <1>2 DEF ImportNfe, IndInv, RowSound
  <2> QED BY <1>2, <2>1 DEF ImportNfe, IndInv, ReceiptTypeOK
<1>3. ASSUME NEW e \in Editor, WriteItem(e)
      PROVE  movement'[k] = movement[k] /\ (item'[k] = item[k] \/ k \in overrun')
  BY <1>3, WrittenRow DEF WriteItem
<1>4. ASSUME UNCHANGED <<item, movement>> PROVE item'[k] = item[k] /\ movement'[k] = movement[k]
  BY <1>4
<1> QED BY <1>1, <1>2, <1>3, <1>4
        DEF Next, EditOrder, CreateReceipt, ReleaseQuality, ReadReceipt, ReadItem, SaveReceipt,
            LockReceipts, Abandon, Redispose, vars

\* No movement is ever written again, and no item that has one is, except by a save that
\* does not hold the lock of the receipt.
THEOREM EnteredStays == Spec => EnteredItemKept
<1>1. IndInv /\ [Next]_vars =>
        [\A i \in Row : Moved(i) =>
           movement'[i] = movement[i] /\ (item'[i] = item[i] \/ i \in overrun')]_vars
  BY EnteredRows
<1> QED BY <1>1, Invariant, PTL DEF Spec, EnteredItemKept

-----------------------------------------------------------------------------
(* The abstract promise *)

\* A receipt is put in stock by an entry and by nothing else, and stays there.
LEMMA PostedRows ==
  ASSUME IndInv, [Next]_vars, \A r \in Receipt : ~PostStock(r), NEW k \in Receipt
  PROVE  receipt'[k].posted = receipt[k].posted
<1>0. receipt \in [Receipt -> ReceiptRow] /\ (receipt[k].posted <=> receipt[k].status = "stock_posted")
      /\ receipt[k].posted \in BOOLEAN
  BY Fields DEF IndInv, ReceiptTypeOK, PostedWholly
<1>1. ASSUME NEW r \in Receipt, receipt[r].status = "absent", NEW q,
             receipt' = [receipt EXCEPT ![r] =
               [status |-> "draft", quality |-> q, posted |-> FALSE]]
      PROVE  receipt'[k].posted = receipt[k].posted
  BY <1>0, <1>1
<1>2. ASSUME NEW r \in Receipt, CreateReceipt(r) PROVE receipt'[k].posted = receipt[k].posted
  BY <1>1, <1>2 DEF CreateReceipt
<1>3. ASSUME NEW r \in Receipt, NEW i \in Row, NEW o \in OrderItem, NEW l \in Lot,
             ImportNfe(r, i, o, l)
      PROVE  receipt'[k].posted = receipt[k].posted
  BY <1>1, <1>3 DEF ImportNfe
<1>4. ASSUME NEW r \in Receipt, ReleaseQuality(r) PROVE receipt'[k].posted = receipt[k].posted
  <2>1. PICK q : receipt' = [receipt EXCEPT ![r] =
          [receipt[r] EXCEPT !.status = "quality_released", !.quality = q]]
    BY <1>4 DEF ReleaseQuality
  <2> QED BY <1>0, <2>1 DEF ReceiptRow
<1>5. ASSUME NEW e \in Editor, SaveReceipt(e) PROVE receipt'[k].posted = receipt[k].posted
  BY <1>5, SavedRows
<1>6. ASSUME UNCHANGED receipt PROVE receipt'[k].posted = receipt[k].posted
  BY <1>6
<1> QED BY <1>2, <1>3, <1>4, <1>5, <1>6
        DEF Next, EditOrder, ReadReceipt, ReadItem, LockReceipts, WriteItem, Abandon, Redispose,
            vars

\* The abstract specification adds up as this one does.
LEMMA SameTotal == \A f, n : Promise!Total(f, n) = Total(f, n)
BY DEF Promise!Total, Promise!Prefix, Total, Prefix

\* What the items have entered, as the abstract specification keeps it.
Table == [i \in Row |-> EntryOf(i)]

\* The entries of an order item are what has entered for it, and that is within the order.
EntriesWithin == \A o \in OrderItem : Promise!WithinOrder(o)
NoneOverrun == overrun = {}

LEMMA EntriesWithinOrder == IndInv /\ NoneOverrun => EntriesWithin
<1> SUFFICES ASSUME IndInv, overrun = {}, NEW o \in OrderItem
             PROVE  Promise!Sum(Table, Promise!OfOrder(Table, o)) = Total(Intact(o), ItemCount)
  BY DEF EntriesWithin, Promise!WithinOrder, Table, IndInv, OrderNotExceeded, Intact, NoneOverrun
<1>1. ASSUME NEW i \in Row
      PROVE  (IF i \in Promise!OfOrder(Table, o) THEN Table[i].quantity ELSE 0) =
             (IF item[i].order = o THEN movement[i].quantity ELSE 0)
  BY Fields DEF IndInv, Promise!OfOrder, Promise!Entry, Table, EntryOf, Moved, Row
<1>2. [i \in Row |-> IF i \in Promise!OfOrder(Table, o) THEN Table[i].quantity ELSE 0] =
      [i \in Row |-> IF item[i].order = o THEN movement[i].quantity ELSE 0]
  BY <1>1
<1>3. Intact(o) = [i \in Row |-> IF item[i].order = o THEN movement[i].quantity ELSE 0]
  BY DEF Intact, ShareOfOrder
<1> QED BY <1>2, <1>3, SameTotal DEF Promise!Sum, Promise!Entry, Row

LEMMA EntriesWithinAfter == IndInv' /\ NoneOverrun' => EntriesWithin'
BY EntriesWithinOrder, PTL

\* A first entry of a receipt is an entry of the promise: what it brings to the balances
\* is what its new entries come to.
LEMMA EntryIsPromised ==
  ASSUME IndInv, IndInv', overrun' = {}, NEW r \in Receipt, PostStock(r), ~receipt[r].posted
  PROVE  Promise!Enter(r)
<1>1. /\ receipt'[r].posted = TRUE
      /\ \A s \in Receipt : s # r => receipt'[s] = receipt[s]
      /\ stock' = [l \in Lot |-> stock[l] + Brought(l, Pending(r))]
      /\ Accepted(r) # {}
  BY DEF PostStock, IndInv, ReceiptTypeOK, ReceiptRow
<1>2. ASSUME NEW i \in Row, item[i].receipt = r PROVE ~Moved(i)
  <2>1. overrun = {}
    BY EntryRows
  <2> QED BY <1>2, <2>1 DEF IndInv, PostedWholly, RowSound
<1>3. Pending(r) # {} /\ Pending(r) \subseteq Row
  BY <1>1, <1>2 DEF Pending, Accepted, ItemsOf
<1>4. ASSUME NEW i \in Pending(r)
      PROVE  /\ i \in Row /\ item[i].receipt = r
             /\ EntryOf(i) = Promise!NoEntry
             /\ EntryOf(i)' = [receipt |-> r, order |-> item[i].order, lot |-> item[i].lot,
                               quantity |-> item[i].accepted]
             /\ item[i].accepted > 0
  <2>1. /\ i \in Row /\ item[i].receipt = r /\ movement[i].quantity \in Nat
        /\ UNCHANGED item
        /\ movement'[i].quantity = item[i].accepted /\ movement'[i].lot = item[i].lot
        /\ Moved(i)' /\ ~Moved(i) /\ item[i].accepted > 0
    BY EntryRows, Fields DEF IndInv
  <2> QED BY <2>1 DEF EntryOf, Promise!NoEntry, Moved
<1>5. ASSUME NEW i \in Row, i \notin Pending(r)
      PROVE  EntryOf(i)' = EntryOf(i) /\ EntryOf(i).receipt # r
  <2>1. movement'[i] = movement[i] /\ UNCHANGED item
    BY <1>5, EntryRows
  <2> QED BY <1>2, <2>1 DEF EntryOf, Moved
<1>6. ASSUME NEW l \in Lot
      PROVE  Promise!Sum(Table', Promise!Bringing(Table', r, l)) = Brought(l, Pending(r))
  <2>1. ASSUME NEW i \in Row
        PROVE  (IF i \in Promise!Bringing(Table', r, l) THEN Table'[i].quantity ELSE 0) =
               (IF i \in Pending(r) /\ item[i].lot = l THEN item[i].accepted ELSE 0)
    BY <1>4, <1>5 DEF Promise!Bringing, Promise!Entry, Table, Row
  <2>2. [i \in Row |-> IF i \in Promise!Bringing(Table', r, l) THEN Table'[i].quantity ELSE 0] =
        [i \in Row |-> IF i \in Pending(r) /\ item[i].lot = l THEN item[i].accepted ELSE 0]
    BY <2>1
  <2> QED BY <2>2, SameTotal DEF Promise!Sum, Promise!Entry, Brought, Row
<1>7. /\ \A i \in Promise!Entry : \/ Table'[i] = Table[i]
                                  \/ /\ Table[i] = Promise!NoEntry
                                     /\ Table'[i].receipt = r /\ Table'[i].quantity > 0
      /\ \E i \in Promise!Entry : Table'[i] # Table[i]
  BY <1>3, <1>4, <1>5 DEF Promise!Entry, Promise!NoEntry, Table, Row
<1>8. \A o \in OrderItem : Promise!WithinOrder(o)'
  BY EntriesWithinAfter DEF EntriesWithin, NoneOverrun
<1>9. {s \in Receipt : receipt[s].posted}' = {s \in Receipt : receipt[s].posted} \cup {r}
  BY <1>1
<1>10. stock' = [l \in Lot |-> stock[l] + Promise!Sum(Table', Promise!Bringing(Table', r, l))]
  BY <1>1, <1>6
<1>11. UNCHANGED order
  BY DEF PostStock
<1> QED BY <1>7, <1>8, <1>9, <1>10, <1>11 DEF Promise!Enter, Table

\* Every other step leaves what has entered, and only an edit of the order changes it.
LEMMA OthersKeepEntries ==
  ASSUME IndInv, [Next]_vars, overrun' = {}, \A r \in Receipt : ~PostStock(r)
  PROVE  UNCHANGED <<{r \in Receipt : receipt[r].posted}, Table, stock>>
<1>1. UNCHANGED <<movement, stock>>
  BY EntryOnly
<1>2. ASSUME NEW i \in Row PROVE EntryOf(i)' = EntryOf(i)
  BY <1>1, EnteredRows DEF EntryOf, Moved
<1> QED BY <1>1, <1>2, PostedRows DEF Table

\* While nothing is overrun, every step is one of the promise or changes nothing of it.
LEMMA PromiseStep ==
  ASSUME IndInv, IndInv', [Next]_vars, overrun' = {}
  PROVE  [Promise!Next]_(Promise!promiseVars)
<1>1. ASSUME NEW r \in Receipt, PostStock(r)
      PROVE  [Promise!Next]_(Promise!promiseVars)
  <2>1. CASE ~receipt[r].posted
    BY <1>1, <2>1, EntryIsPromised DEF Promise!Next
  <2>2. CASE receipt[r].posted
    <3>1. Pending(r) = {} /\ UNCHANGED <<order, item>> /\ \A i \in Row : movement'[i] = movement[i]
      BY <1>1, <2>2, EntryRows
    <3>2. {s \in Receipt : receipt[s].posted}' = {s \in Receipt : receipt[s].posted}
      BY <1>1, <2>2 DEF PostStock, IndInv, ReceiptTypeOK, ReceiptRow
    <3>3. UNCHANGED stock
      <4>1. ASSUME NEW l \in Lot PROVE Brought(l, Pending(r)) = 0 /\ stock[l] \in Nat
        <5> DEFINE f == [i \in Row |-> IF i \in Pending(r) /\ item[i].lot = l
                                       THEN item[i].accepted ELSE 0]
        <5>1. f \in [1..ItemCount -> Int] /\ \A i \in 1..ItemCount : f[i] = 0
          BY <3>1 DEF Row
        <5> HIDE DEF f
        <5>2. Total(f, ItemCount) = 0
          BY <5>1, TotalZero
        <5> QED BY <5>2 DEF Brought, f, IndInv, ReceiptTypeOK
      <4> QED BY <1>1, <4>1 DEF PostStock, IndInv, ReceiptTypeOK
    <3>4. Table' = Table
      BY <3>1 DEF Table, EntryOf, Moved
    <3> QED BY <3>1, <3>2, <3>3, <3>4 DEF Promise!promiseVars, Table
  <2> QED BY <2>1, <2>2
<1>2. ASSUME NEW o \in OrderItem, EditOrder(o), \A r \in Receipt : ~PostStock(r)
      PROVE  Promise!Reorder(o)
  <2>1. /\ order' \in [OrderItem -> Nat \ {0}]
        /\ \A p \in OrderItem \ {o} : order'[p] = order[p]
    BY <1>2 DEF EditOrder, IndInv, ReceiptTypeOK
  <2>2. Promise!WithinOrder(o)'
    BY EntriesWithinAfter DEF EntriesWithin, NoneOverrun
  <2> QED BY <1>2, <2>1, <2>2, OthersKeepEntries DEF Promise!Reorder, Table
<1>3. ASSUME UNCHANGED order, \A r \in Receipt : ~PostStock(r)
      PROVE  UNCHANGED Promise!promiseVars
  BY <1>3, OthersKeepEntries DEF Promise!promiseVars, Table
<1> QED BY <1>1, <1>2, <1>3
        DEF Next, CreateReceipt, ReleaseQuality, ImportNfe, ReadReceipt, ReadItem, SaveReceipt,
            LockReceipts, WriteItem, Abandon, Redispose, vars, Promise!Next

\* The receipts of any size of order, edited and posted by any number of users, implement
\* the abstract specification of an entry into stock until an item is overrun.
THEOREM EntriesAsPromised == Spec => EntryPromiseKept
<1>1. Init => Promise!Init
  <2> SUFFICES ASSUME Init PROVE Promise!Init
    OBVIOUS
  <2>1. ReceiptTypeOK /\ \A i \in Row : EntryOf(i) = Promise!NoEntry
    BY InitTyped DEF Init, NoMovement, EntryOf, Moved, Promise!NoEntry
  <2>2. {r \in Receipt : receipt[r].posted} = {}
    BY DEF Init, AbsentReceipt
  <2> QED BY <2>1, <2>2 DEF Init, ReceiptTypeOK, Promise!Init, Promise!Entry, Row
<1>2. IndInv /\ IndInv' /\ [Next]_vars => [Promise!Next \/ overrun' # {}]_(Promise!promiseVars)
  BY PromiseStep
<1> QED BY <1>1, <1>2, Invariant, PTL DEF Spec, EntryPromiseKept
=============================================================================
