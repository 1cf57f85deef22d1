------------------------ MODULE ProductionOrder_proofs ------------------------
(***************************************************************************)
(* Proofs about ProductionOrder, for any number of orders, rows and lots   *)
(* and any quantities.                                                     *)
(***************************************************************************)
EXTENDS ProductionOrder, Summation_proofs

\* A row's movements: none without a reservation, which names a lot, and
\* nothing or everything of the reservation settled; a loss or release
\* movement has the quantity the row shows.
RowConsistent(r) ==
  /\ r.reservation > 0 => r.exists /\ r.lot \in Lot
  /\ r.issue + r.lossMovement + r.release \in {0, r.reservation}
  /\ r.lossMovement > 0 => r.loss = r.lossMovement
  /\ r.release > 0 => r.returned = r.release

RowsConsistent == \A l \in Line : RowConsistent(line[l])

\* The inductive invariant.  The balances are nonnegative only because what is
\* reserved is the sum of what the rows hold, and that sum stays exact only
\* because rows settle their reservation wholly and keep their lot.
IndInv ==
  /\ TypeOK
  /\ RowsConsistent
  /\ ReservedIsOutstanding
  /\ LedgerConservation
  /\ ReservationBacked
  /\ CancelledHoldsNothing

-----------------------------------------------------------------------------
(* Sums over the rows of a lot *)

\* Shares of a lot are integers (naturals) when the quantities are.
LEMMA ShareType ==
  ASSUME NEW k, NEW f
  PROVE  /\ f \in [Line -> Int] => OnLot(k, f) \in [1..NumLines -> Int]
         /\ f \in [Line -> Nat] => OnLot(k, f) \in [1..NumLines -> Nat]
<1>1. ASSUME f \in [Line -> Int] PROVE OnLot(k, f) \in [1..NumLines -> Int]
  BY <1>1 DEF OnLot, Line
<1>2. ASSUME f \in [Line -> Nat] PROVE OnLot(k, f) \in [1..NumLines -> Nat]
  BY <1>2 DEF OnLot, Line
<1> QED BY <1>1, <1>2

\* A demand is an integer, and a natural for natural quantities.
LEMMA DemandType ==
  ASSUME NEW k, NEW f
  PROVE  /\ f \in [Line -> Int] => Demand(k, f) \in Int
         /\ f \in [Line -> Nat] => Demand(k, f) \in Nat
BY RowAssumption, ShareType, TotalInt, TotalNat DEF Demand

\* Demands add up like the quantities they come from.
LEMMA DemandAdd ==
  ASSUME NEW k, NEW f \in [Line -> Int], NEW g \in [Line -> Int], NEW h \in [Line -> Int],
         \A l \in Line : h[l] = f[l] + g[l]
  PROVE  Demand(k, h) = Demand(k, f) + Demand(k, g)
<1>1. \A l \in 1..NumLines : OnLot(k, h)[l] = OnLot(k, f)[l] + OnLot(k, g)[l]
  BY DEF OnLot, Line
<1> QED BY <1>1, RowAssumption, ShareType, TotalAdd DEF Demand

\* Demands compare like the quantities they come from.
LEMMA DemandMonotone ==
  ASSUME NEW k, NEW f \in [Line -> Int], NEW g \in [Line -> Int],
         \A l \in Line : f[l] <= g[l]
  PROVE  Demand(k, f) <= Demand(k, g)
<1>1. \A l \in 1..NumLines : OnLot(k, f)[l] <= OnLot(k, g)[l]
  BY DEF OnLot, Line
<1> QED BY <1>1, RowAssumption, ShareType, TotalMonotone DEF Demand

\* What rows hold and took are quantities.
LEMMA RowSums ==
  ASSUME line \in [Line -> LineType], RowsConsistent
  PROVE  Held \in [Line -> Nat] /\ Taken \in [Line -> Nat]
<1>1. \A l \in Line : Outstanding(line[l]) \in Nat
  BY DEF LineType, RowsConsistent, RowConsistent, Outstanding
<1>2. \A l \in Line : line[l].issue + line[l].lossMovement \in Nat
  BY DEF LineType
<1> QED BY <1>1, <1>2 DEF Held, Taken

\* The demand on a lot after a step.
NextDemand(k, f) == Total([l \in Line |-> IF line'[l].lot = k THEN f[l] ELSE 0], NumLines)

\* A step that keeps the lot of every row that counts changes the demand on a
\* lot by what it adds to the rows allocated to it.
LEMMA DemandChange ==
  ASSUME NEW k, NEW f \in [Line -> Int], NEW g \in [Line -> Int], NEW d \in [Line -> Int],
         \A l \in Line : g[l] = f[l] + d[l],
         \A l \in Line : line'[l].lot = line[l].lot \/ (f[l] = 0 /\ d[l] = 0)
  PROVE  NextDemand(k, g) = Demand(k, f) + Demand(k, d)
<1> DEFINE h == [l \in Line |-> IF line'[l].lot = k THEN g[l] ELSE 0]
<1>1. h \in [1..NumLines -> Int]
  BY DEF Line
<1>2. \A l \in 1..NumLines : h[l] = OnLot(k, f)[l] + OnLot(k, d)[l]
  BY DEF OnLot, Line
<1>3. NumLines \in Nat /\ OnLot(k, f) \in [1..NumLines -> Int] /\ OnLot(k, d) \in [1..NumLines -> Int]
  BY RowAssumption, ShareType DEF Line
<1>4. Total(h, NumLines) = Total(OnLot(k, f), NumLines) + Total(OnLot(k, d), NumLines)
  <2> HIDE DEF h
  <2> QED BY ONLY <1>1, <1>2, <1>3, TotalAdd
<1> QED BY <1>4 DEF Demand, NextDemand

\* Where NextDemand comes from.
LEMMA NextDemands ==
  ASSUME NEW k
  PROVE  Demand(k, Held)' = NextDemand(k, Held') /\ Demand(k, Taken)' = NextDemand(k, Taken')
BY DEF Demand, OnLot, NextDemand

\* Rows that ask for nothing make no demand.
LEMMA NoDemand ==
  ASSUME NEW k, NEW f \in [Line -> Int], \A l \in Line : f[l] = 0
  PROVE  Demand(k, f) = 0
<1>1. \A l \in 1..NumLines : OnLot(k, f)[l] = 0
  BY DEF OnLot, Line
<1> QED BY <1>1, RowAssumption, ShareType, TotalZero DEF Demand

\* Opposite quantities make opposite demands.
LEMMA DemandOpposite ==
  ASSUME NEW k, NEW f \in [Line -> Int], NEW g \in [Line -> Int],
         \A l \in Line : g[l] = -f[l]
  PROVE  Demand(k, f) \in Int /\ Demand(k, g) = -Demand(k, f)
<1> DEFINE zero == [l \in Line |-> 0]
<1>1. zero \in [Line -> Int] /\ \A l \in Line : zero[l] = 0 /\ zero[l] = f[l] + g[l]
  OBVIOUS
<1>2. Demand(k, zero) = 0 /\ Demand(k, zero) = Demand(k, f) + Demand(k, g)
  <2> HIDE DEF zero
  <2> QED BY <1>1, NoDemand, DemandAdd
<1>3. Demand(k, f) \in Int /\ Demand(k, g) \in Int
  BY DemandType
<1> HIDE DEF zero
<1> QED BY <1>2, <1>3

-----------------------------------------------------------------------------
(* The initial states *)

LEMMA InitInv == Init => IndInv
<1> SUFFICES ASSUME Init PROVE IndInv
  OBVIOUS
<1>1. TypeOK
  <2>1. line \in [Line -> LineType]
    BY DEF Init, LineType, AbsentLine
  <2>2. bal \in [Lot -> BalanceType] /\ posted \in [Lot -> Int]
    BY QuantityAssumption DEF Init, BalanceType
  <2>3. out \in [Output -> OutputType] /\ genealogy \in [Output -> [Lot -> Nat]]
    BY DEF Init, OutputType, AbsentOutput
  <2>4. order \in [Order -> OrderStatus]
    BY DEF Init, OrderStatus
  <2> QED BY <2>1, <2>2, <2>3, <2>4 DEF TypeOK
<1>2. RowsConsistent
  BY DEF Init, AbsentLine, RowsConsistent, RowConsistent
<1>3. \A l \in Line : Held[l] = 0 /\ Taken[l] = 0
  BY DEF Init, AbsentLine, Held, Taken, Outstanding
<1>4. \A k \in Lot : Demand(k, Held) = 0 /\ Demand(k, Taken) = 0
  <2>1. Held \in [Line -> Int] /\ Taken \in [Line -> Int]
    BY <1>1, <1>2, RowSums DEF TypeOK
  <2> QED BY <1>3, <2>1, NoDemand
<1>5. ReservedIsOutstanding /\ LedgerConservation /\ ReservationBacked
  BY <1>4, QuantityAssumption
  DEF Init, ReservedIsOutstanding, LedgerConservation, ReservationBacked, BalanceClean
<1>6. CancelledHoldsNothing
  BY RowAssumption DEF Init, CancelledHoldsNothing
<1> QED BY <1>1, <1>2, <1>5, <1>6 DEF IndInv

-----------------------------------------------------------------------------
(* Steps *)

None == [l \in Line |-> 0]

\* A step that adds d to what the rows hold and e to what they took, and moves
\* the balances by the demands of d and e, keeps the stock invariants.
LEMMA StockStepInv ==
  ASSUME IndInv, line' \in [Line -> LineType], RowsConsistent',
         NEW d \in [Line -> Int], NEW e \in [Line -> Int],
         \A l \in Line : Held'[l] = Held[l] + d[l] /\ Taken'[l] = Taken[l] + e[l],
         \A l \in Line : \/ line'[l].lot = line[l].lot
                         \/ Held[l] = 0 /\ d[l] = 0 /\ Taken[l] = 0 /\ e[l] = 0,
         bal' = [k \in Lot |-> [quantity |-> bal[k].quantity - Demand(k, e),
                                reserved |-> bal[k].reserved + Demand(k, d)]],
         \A k \in Lot : bal[k].reserved + Demand(k, d) <= bal[k].quantity - Demand(k, e),
         posted' = posted
  PROVE  /\ bal' \in [Lot -> BalanceType]
         /\ ReservedIsOutstanding' /\ LedgerConservation' /\ ReservationBacked'
<1>1. Held \in [Line -> Int] /\ Taken \in [Line -> Int]
  BY RowSums DEF IndInv, TypeOK
<1>2. Held' \in [Line -> Nat] /\ Taken' \in [Line -> Nat]
  <2>1. \A l \in Line : Outstanding(line'[l]) \in Nat
    BY DEF LineType, RowsConsistent, RowConsistent, Outstanding
  <2>2. \A l \in Line : line'[l].issue + line'[l].lossMovement \in Nat
    BY DEF LineType
  <2> QED BY <2>1, <2>2 DEF Held, Taken
<1>3. Held' \in [Line -> Int] /\ Taken' \in [Line -> Int]
  BY <1>2
<1>4. ASSUME NEW k \in Lot
      PROVE  /\ Demand(k, Held)' = Demand(k, Held) + Demand(k, d)
             /\ Demand(k, Taken)' = Demand(k, Taken) + Demand(k, e)
  <2>1. /\ d \in [Line -> Int] /\ e \in [Line -> Int]
        /\ \A l \in Line : Held'[l] = Held[l] + d[l]
        /\ \A l \in Line : Taken'[l] = Taken[l] + e[l]
    OBVIOUS
  <2>2. ASSUME NEW l \in Line, line'[l].lot # line[l].lot
        PROVE  Held[l] = 0 /\ d[l] = 0 /\ Taken[l] = 0 /\ e[l] = 0
    BY <2>2
  <2>3. NextDemand(k, Held') = Demand(k, Held) + Demand(k, d)
    <3>1. \A l \in Line : line'[l].lot = line[l].lot \/ (Held[l] = 0 /\ d[l] = 0)
      BY ONLY <2>2
    <3> QED BY ONLY <1>1, <1>3, <2>1, <3>1, DemandChange
  <2>4. NextDemand(k, Taken') = Demand(k, Taken) + Demand(k, e)
    <3>1. \A l \in Line : line'[l].lot = line[l].lot \/ (Taken[l] = 0 /\ e[l] = 0)
      BY ONLY <2>2
    <3> QED BY ONLY <1>1, <1>3, <2>1, <3>1, DemandChange
  <2> QED BY <2>3, <2>4, NextDemands
<1>5. ASSUME NEW k \in Lot
      PROVE  /\ Demand(k, Held) \in Int /\ Demand(k, Taken) \in Int
             /\ Demand(k, d) \in Int /\ Demand(k, e) \in Int
  BY <1>1, DemandType
<1>6. ASSUME NEW k \in Lot PROVE Demand(k, Held)' \in Nat
  <2>1. [l \in Line |-> IF line'[l].lot = k THEN Held'[l] ELSE 0] \in [1..NumLines -> Nat]
    BY <1>2 DEF Line
  <2>2. Total([l \in Line |-> IF line'[l].lot = k THEN Held'[l] ELSE 0], NumLines) \in Nat
    BY <2>1, RowAssumption, TotalNat
  <2> QED BY <2>2, NextDemands DEF NextDemand
<1>7. ReservedIsOutstanding'
  <2>1. \A k \in Lot : bal'[k].reserved = Demand(k, Held)'
    BY <1>4 DEF IndInv, ReservedIsOutstanding
  <2> QED BY <2>1 DEF ReservedIsOutstanding
<1>8. LedgerConservation'
  <2>1. ASSUME NEW k \in Lot PROVE bal'[k].quantity = posted'[k] - Demand(k, Taken)'
    <3>1. bal'[k].quantity = bal[k].quantity - Demand(k, e)
      OBVIOUS
    <3>2. bal[k].quantity = posted[k] - Demand(k, Taken) /\ posted[k] \in Int
      BY DEF IndInv, LedgerConservation, TypeOK
    <3> QED BY <3>1, <3>2, <1>4, <1>5
  <2> QED BY <2>1 DEF LedgerConservation
<1>9. ASSUME NEW k \in Lot
      PROVE  bal'[k] \in BalanceType /\ BalanceClean(bal'[k])
  <2>1. bal[k].quantity \in Nat /\ bal[k].reserved \in Nat
    BY DEF IndInv, TypeOK, BalanceType
  <2>2. bal'[k].reserved = Demand(k, Held)'
    BY <1>4 DEF IndInv, ReservedIsOutstanding
  <2>3. bal[k].reserved + Demand(k, d) \in Nat
    BY <2>2, <1>6
  <2>4. bal[k].quantity - Demand(k, e) \in Nat
    BY <2>1, <2>3, <1>5
  <2> QED BY <2>3, <2>4 DEF BalanceType, BalanceClean
<1> QED BY <1>7, <1>8, <1>9 DEF ReservationBacked

\* The conjuncts of TypeOK that a step of the allocations leaves alone.
LEMMA RestOfTypes ==
  ASSUME IndInv, UNCHANGED <<posted, outputVars>>,
         order' \in [Order -> OrderStatus],
         line' \in [Line -> LineType], bal' \in [Lot -> BalanceType]
  PROVE  TypeOK'
BY DEF IndInv, TypeOK, outputVars

LEMMA ReserveMaterialsInv ==
  ASSUME IndInv, NEW o \in Order, ReserveMaterials(o)
  PROVE  IndInv'
<1> DEFINE wanted == ToReserve(o)
<1>0. TypeOK /\ RowsConsistent /\ ReservationBacked /\ CancelledHoldsNothing
  BY DEF IndInv
<1>1. \A l \in Line : /\ line[l] \in LineType /\ RowConsistent(line[l])
  BY <1>0 DEF TypeOK, RowsConsistent
<1>2. wanted \in [Line -> Nat] /\ wanted \in [Line -> Int] /\ None \in [Line -> Int]
  BY <1>1 DEF ToReserve, LineType, None
<1>3. \A l \in Line : wanted[l] > 0 =>
        l \in Items(o) /\ line[l].reservation = 0 /\ line[l].lot # NoLot
  BY <1>1 DEF ReserveMaterials, ToReserve, LineType
<1>4. \A l \in Line : line'[l] =
        IF wanted[l] > 0 THEN [line[l] EXCEPT !.reservation = wanted[l]] ELSE line[l]
  BY DEF ReserveMaterials
<1>f. \A l \in Line :
        /\ line'[l].reservation = line[l].reservation + wanted[l]
        /\ line'[l].issue = line[l].issue /\ line'[l].lossMovement = line[l].lossMovement
        /\ line'[l].release = line[l].release /\ line'[l].lot = line[l].lot
        /\ line'[l].reservation \in Nat /\ line'[l].issue \in Nat
        /\ line'[l].lossMovement \in Nat /\ line'[l].release \in Nat
  <2> HIDE DEF wanted
  <2> SUFFICES ASSUME NEW l \in Line
               PROVE  /\ line'[l].reservation = line[l].reservation + wanted[l]
                      /\ line'[l].issue = line[l].issue
                      /\ line'[l].lossMovement = line[l].lossMovement
                      /\ line'[l].release = line[l].release /\ line'[l].lot = line[l].lot
                      /\ line'[l].reservation \in Nat /\ line'[l].issue \in Nat
                      /\ line'[l].lossMovement \in Nat /\ line'[l].release \in Nat
    OBVIOUS
  <2>1. line[l] \in LineType /\ wanted[l] \in Nat
    BY <1>1, <1>2
  <2>2. CASE wanted[l] > 0
    <3>1. line[l].reservation = 0 /\ line'[l] = [line[l] EXCEPT !.reservation = wanted[l]]
      BY <2>2, <1>3, <1>4
    <3> QED BY <3>1, <2>1 DEF LineType
  <2>3. CASE ~ (wanted[l] > 0)
    <3>1. wanted[l] = 0
      BY <2>1, <2>3
    <3>2. line'[l] = line[l]
      BY <2>3, <1>4, Zenon
    <3> QED BY <3>1, <3>2, <2>1 DEF LineType
  <2> QED BY <2>2, <2>3
<1>5. line' \in [Line -> LineType]
  <2> HIDE DEF wanted
  <2>1. \A l \in Line : line'[l] \in LineType
    BY <1>1, <1>2, <1>4 DEF LineType
  <2> QED BY <2>1 DEF ReserveMaterials
<1>6. RowsConsistent'
  <2> HIDE DEF wanted
  <2>1. ASSUME NEW l \in Line PROVE RowConsistent(line'[l])
    <3>1. CASE wanted[l] > 0
      BY <3>1, <1>1, <1>2, <1>3, <1>4 DEF RowConsistent, LineType, Items
    <3>2. CASE ~ (wanted[l] > 0)
      BY <3>2, <1>1, <1>4
    <3> QED BY <3>1, <3>2
  <2> QED BY <2>1 DEF RowsConsistent
<1>7. \A l \in Line : /\ Held'[l] = Held[l] + wanted[l] /\ Taken'[l] = Taken[l] + None[l]
                      /\ line'[l].lot = line[l].lot
  <2> HIDE DEF wanted
  <2>1. ASSUME NEW l \in Line
        PROVE  /\ Outstanding(line'[l]) = Outstanding(line[l]) + wanted[l]
               /\ line'[l].issue = line[l].issue
               /\ line'[l].lossMovement = line[l].lossMovement
               /\ line'[l].lot = line[l].lot
    BY <1>1, <1>2, <1>f DEF LineType, Outstanding
  <2> QED BY <2>1, <1>f DEF Held, Taken, None
<1>8. ASSUME NEW k \in Lot
      PROVE  /\ Demand(k, wanted) \in Nat /\ Demand(k, None) = 0
             /\ bal[k].reserved + Demand(k, wanted) <= bal[k].quantity
  <2>1. Demand(k, wanted) \in Nat /\ Demand(k, None) = 0
    BY <1>2, DemandType, NoDemand DEF None
  <2>2. bal[k].quantity \in Nat /\ bal[k].reserved \in Nat /\ bal[k].reserved <= bal[k].quantity
    BY <1>0 DEF TypeOK, BalanceType, ReservationBacked, BalanceClean
  <2>3. Demand(k, wanted) > 0 => Demand(k, wanted) <= Available(bal[k])
    BY DEF ReserveMaterials, CanIssue
  <2> QED BY <2>1, <2>2, <2>3 DEF Available
<1>9. bal' = [k \in Lot |-> [quantity |-> bal[k].quantity - Demand(k, None),
                             reserved |-> bal[k].reserved + Demand(k, wanted)]]
  BY <1>0, <1>8 DEF ReserveMaterials, Reserved, TypeOK, BalanceType
<1>10. bal' \in [Lot -> BalanceType]
       /\ ReservedIsOutstanding' /\ LedgerConservation' /\ ReservationBacked'
  <2>1. \A k \in Lot : bal[k].reserved + Demand(k, wanted) <= bal[k].quantity - Demand(k, None)
    BY <1>0, <1>8 DEF TypeOK, BalanceType
  <2>2. posted' = posted
    BY DEF ReserveMaterials
  <2> HIDE DEF wanted
  <2> QED BY <1>2, <1>5, <1>6, <1>7, <1>9, <2>1, <2>2, StockStepInv
<1>11. TypeOK'
  BY <1>5, <1>10, <1>0, RestOfTypes DEF ReserveMaterials, TypeOK
<1>12. CancelledHoldsNothing'
  <2> HIDE DEF wanted
  <2>1. ASSUME NEW l \in Line, order[OrderOf[l]] = "cancelled" PROVE line'[l] = line[l]
    BY <2>1, <1>2, <1>3, <1>4 DEF ReserveMaterials, Items
  <2> QED BY <1>0, <2>1 DEF CancelledHoldsNothing, ReserveMaterials
<1> QED BY <1>6, <1>10, <1>11, <1>12 DEF IndInv

LEMMA IssueMaterialsInv ==
  ASSUME IndInv, NEW o \in Order, IssueMaterials(o)
  PROVE  IndInv'
<1> DEFINE issued == ToIssue(o)
           lost == ToLose(o)
           returned == ToReturn(o)
           consumed == [l \in Line |-> issued[l] + lost[l]]
           settled == [l \in Line |-> consumed[l] + returned[l]]
           freed == [l \in Line |-> -settled[l]]
<1>0. TypeOK /\ RowsConsistent /\ ReservationBacked /\ CancelledHoldsNothing
  BY DEF IndInv
<1>1. \A l \in Line : line[l] \in LineType /\ RowConsistent(line[l])
  BY <1>0 DEF TypeOK, RowsConsistent
<1>2. issued \in [Line -> Nat] /\ lost \in [Line -> Nat] /\ returned \in [Line -> Nat]
  BY <1>1 DEF ToIssue, ToLose, ToReturn, ToPost, LineType
<1>3. /\ consumed \in [Line -> Nat] /\ consumed \in [Line -> Int]
      /\ settled \in [Line -> Nat] /\ settled \in [Line -> Int]
      /\ returned \in [Line -> Int] /\ freed \in [Line -> Int]
  <2> HIDE DEF issued, lost, returned
  <2> QED BY <1>2
<1>4. \A l \in Line : line'[l] =
        [line[l] EXCEPT !.issue = @ + issued[l], !.lossMovement = @ + lost[l],
                        !.release = @ + returned[l]]
  BY DEF IssueMaterials
<1>f. \A l \in Line :
        /\ line'[l].issue = line[l].issue + issued[l]
        /\ line'[l].lossMovement = line[l].lossMovement + lost[l]
        /\ line'[l].release = line[l].release + returned[l]
        /\ line'[l].exists = line[l].exists /\ line'[l].lot = line[l].lot
        /\ line'[l].loss = line[l].loss /\ line'[l].returned = line[l].returned
        /\ line'[l].reservation = line[l].reservation
  <2> HIDE DEF issued, lost, returned
  <2> QED BY <1>1, <1>4 DEF LineType
<1>n. \A l \in Line :
        /\ line[l].issue \in Nat /\ line[l].lossMovement \in Nat /\ line[l].release \in Nat
        /\ line[l].loss \in Nat /\ line[l].returned \in Nat /\ line[l].reservation \in Nat
        /\ line[l].actual \in Nat
        /\ issued[l] \in Nat /\ lost[l] \in Nat /\ returned[l] \in Nat
  <2> HIDE DEF issued, lost, returned
  <2> QED BY <1>1, <1>2 DEF LineType
<1>5. ASSUME NEW l \in Line, l \in Items(o)
      PROVE  /\ line[l].issue + issued[l] = line[l].actual
             /\ line[l].lossMovement + lost[l] = line[l].loss
             /\ line[l].release + returned[l] = line[l].returned
             /\ line[l].actual + line[l].loss + line[l].returned = line[l].reservation
  <2>1. Reconciled(line[l]) /\ IssueMatches(line[l])
    BY <1>5 DEF IssueMaterials
  <2>2. line[l] \in LineType /\ RowConsistent(line[l])
    BY <1>1
  <2>3. /\ issued[l] = IF line[l].issue = 0 THEN line[l].actual ELSE 0
        /\ lost[l] = IF line[l].lossMovement = 0 THEN line[l].loss ELSE 0
        /\ returned[l] = IF line[l].release = 0 THEN line[l].returned ELSE 0
    BY <1>5 DEF ToIssue, ToLose, ToReturn, ToPost
  <2> HIDE DEF issued, lost, returned
  <2> QED BY <2>1, <2>2, <2>3 DEF Reconciled, IssueMatches, RowConsistent, LineType
<1>6. ASSUME NEW l \in Line, l \notin Items(o)
      PROVE  issued[l] = 0 /\ lost[l] = 0 /\ returned[l] = 0
  BY <1>6 DEF ToIssue, ToLose, ToReturn, ToPost
<1>7. line' \in [Line -> LineType]
  <2> HIDE DEF issued, lost, returned
  <2>1. ASSUME NEW l \in Line PROVE line'[l] \in LineType
    <3>1. /\ line[l].issue + issued[l] \in Nat /\ line[l].lossMovement + lost[l] \in Nat
          /\ line[l].release + returned[l] \in Nat
      BY <1>n
    <3> QED BY <3>1, <1>1, <1>4 DEF LineType
  <2> QED BY <2>1 DEF IssueMaterials
<1>8. RowsConsistent'
  <2>1. ASSUME NEW l \in Line PROVE RowConsistent(line'[l])
    <3> HIDE DEF issued, lost, returned
    <3>1. CASE l \in Items(o)
      BY <3>1, <1>1, <1>5, <1>f, <1>n DEF RowConsistent
    <3>2. CASE l \notin Items(o)
      <4>1. /\ line'[l].issue = line[l].issue /\ line'[l].lossMovement = line[l].lossMovement
            /\ line'[l].release = line[l].release
        BY <3>2, <1>6, <1>f, <1>n
      <4> QED BY <4>1, <1>1, <1>f DEF RowConsistent
    <3> QED BY <3>1, <3>2
  <2> QED BY <2>1 DEF RowsConsistent
<1>9. \A l \in Line : /\ Held'[l] = Held[l] + freed[l] /\ Taken'[l] = Taken[l] + consumed[l]
                      /\ line'[l].lot = line[l].lot
  <2> HIDE DEF issued, lost, returned
  <2>1. ASSUME NEW l \in Line
        PROVE  /\ Outstanding(line'[l]) = Outstanding(line[l]) + freed[l]
               /\ line'[l].issue + line'[l].lossMovement
                    = line[l].issue + line[l].lossMovement + consumed[l]
               /\ line'[l].lot = line[l].lot
    BY <1>f, <1>n DEF Outstanding
  <2> HIDE DEF freed, consumed
  <2> QED BY <2>1 DEF Held, Taken
<1>10. ASSUME NEW k \in Lot
       PROVE  /\ Demand(k, consumed) \in Nat /\ Demand(k, returned) \in Nat
              /\ Demand(k, settled) = Demand(k, consumed) + Demand(k, returned)
              /\ Demand(k, freed) \in Int
              /\ Demand(k, freed) = -Demand(k, settled)
              /\ Demand(k, settled) <= bal[k].reserved
  <2> HIDE DEF issued, lost, returned
  <2>1. \A l \in Line : settled[l] = consumed[l] + returned[l] /\ freed[l] = -settled[l]
    OBVIOUS
  <2> HIDE DEF consumed, settled, freed
  <2>2. Demand(k, consumed) \in Nat /\ Demand(k, returned) \in Nat
    BY <1>2, <1>3, DemandType
  <2>3. Demand(k, settled) = Demand(k, consumed) + Demand(k, returned)
    BY <1>3, <2>1, DemandAdd
  <2>4. Demand(k, freed) = -Demand(k, settled)
    BY <1>3, <2>1, DemandOpposite
  <2>5. Demand(k, settled) > 0 => bal[k].reserved >= Demand(k, settled)
    BY DEF IssueMaterials, settled, consumed, issued, lost, returned
  <2>6. bal[k].reserved \in Nat
    BY <1>0 DEF TypeOK, BalanceType
  <2> HIDE DEF returned
  <2> QED BY <2>2, <2>3, <2>4, <2>5, <2>6
<1>11. bal' = [k \in Lot |-> [quantity |-> bal[k].quantity - Demand(k, consumed),
                              reserved |-> bal[k].reserved + Demand(k, freed)]]
  <2>1. bal' = [k \in Lot |->
          Released(Consumed(bal[k], Demand(k, consumed)), Demand(k, returned))]
    BY DEF IssueMaterials
  <2> HIDE DEF consumed, settled, freed, returned
  <2>2. ASSUME NEW k \in Lot
        PROVE  Released(Consumed(bal[k], Demand(k, consumed)), Demand(k, returned))
                 = [quantity |-> bal[k].quantity - Demand(k, consumed),
                    reserved |-> bal[k].reserved + Demand(k, freed)]
    <3>1. bal[k] \in [quantity : Nat, reserved : Nat]
      BY <1>0 DEF TypeOK, BalanceType
    <3>2. bal[k].reserved - Demand(k, consumed) - Demand(k, returned)
            = bal[k].reserved + Demand(k, freed)
      BY <3>1, <1>10
    <3>3. Consumed(bal[k], Demand(k, consumed))
            = [quantity |-> bal[k].quantity - Demand(k, consumed),
               reserved |-> bal[k].reserved - Demand(k, consumed)]
      BY <3>1 DEF Consumed
    <3> QED BY <3>2, <3>3 DEF Released
  <2> QED BY <2>1, <2>2
<1>12. bal' \in [Lot -> BalanceType]
       /\ ReservedIsOutstanding' /\ LedgerConservation' /\ ReservationBacked'
  <2> HIDE DEF consumed, settled, freed, returned
  <2>1. \A k \in Lot :
          bal[k].reserved + Demand(k, freed) <= bal[k].quantity - Demand(k, consumed)
    BY <1>0, <1>10 DEF TypeOK, BalanceType, ReservationBacked, BalanceClean
  <2>2. posted' = posted
    BY DEF IssueMaterials
  <2> QED BY <1>3, <1>7, <1>8, <1>9, <1>11, <2>1, <2>2, StockStepInv
<1>13. TypeOK'
  BY <1>7, <1>12, <1>0, RestOfTypes DEF IssueMaterials, TypeOK
<1>14. CancelledHoldsNothing'
  <2>1. ASSUME NEW l \in Line, order[OrderOf[l]] = "cancelled"
        PROVE  Outstanding(line'[l]) = Outstanding(line[l])
    <3>1. l \notin Items(o)
      BY <2>1 DEF IssueMaterials, Items
    <3> HIDE DEF issued, lost, returned
    <3>2. issued[l] = 0 /\ lost[l] = 0 /\ returned[l] = 0
      BY <3>1, <1>6
    <3> QED BY <3>2, <1>f, <1>n DEF Outstanding
  <2> QED BY <1>0, <2>1 DEF CancelledHoldsNothing, IssueMaterials
<1> QED BY <1>8, <1>12, <1>13, <1>14 DEF IndInv

LEMMA CancelInv ==
  ASSUME IndInv, NEW o \in Order, Cancel(o)
  PROVE  IndInv'
<1> DEFINE freed == CancelRelease(o)
           back == [l \in Line |-> -freed[l]]
<1>0. TypeOK /\ RowsConsistent /\ ReservationBacked /\ CancelledHoldsNothing
  BY DEF IndInv
<1>1. \A l \in Line : line[l] \in LineType /\ RowConsistent(line[l])
  BY <1>0 DEF TypeOK, RowsConsistent
<1>2. Held \in [Line -> Nat]
  BY <1>0, RowSums DEF TypeOK
<1>3. \A l \in Line : freed[l] = IF l \in Items(o) THEN Held[l] ELSE 0
  BY DEF CancelRelease
<1>4. freed \in [Line -> Nat] /\ freed \in [Line -> Int]
  BY <1>2 DEF CancelRelease
<1>5. \A l \in Line : line'[l] =
        IF freed[l] > 0 THEN [line[l] EXCEPT !.returned = freed[l], !.release = freed[l]]
                        ELSE line[l]
  BY DEF Cancel
\* A row with anything left has posted nothing: all of its reservation is freed.
<1>6. ASSUME NEW l \in Line, freed[l] > 0
      PROVE  /\ l \in Items(o) /\ freed[l] = line[l].reservation
             /\ line[l].issue = 0 /\ line[l].lossMovement = 0 /\ line[l].release = 0
             /\ line'[l] = [line[l] EXCEPT !.returned = freed[l], !.release = freed[l]]
  <2>1. l \in Items(o) /\ freed[l] = Outstanding(line[l])
    BY <1>6, <1>3 DEF Held
  <2>2. line[l] \in LineType /\ RowConsistent(line[l])
    BY <1>1
  <2>3. line'[l] = [line[l] EXCEPT !.returned = freed[l], !.release = freed[l]]
    BY <1>6, <1>5
  <2> HIDE DEF freed
  <2> QED BY <1>6, <2>1, <2>2, <2>3 DEF RowConsistent, Outstanding, LineType
<1>7. ASSUME NEW l \in Line, ~ (freed[l] > 0)
      PROVE  freed[l] = 0 /\ line'[l] = line[l]
  <2> HIDE DEF freed
  <2>1. freed[l] = 0
    BY <1>4, <1>7
  <2>2. line'[l] = line[l]
    BY <1>5, <1>7, Zenon
  <2> QED BY <2>1, <2>2
<1> HIDE DEF freed
<1>8. ASSUME NEW l \in Line
      PROVE  /\ line'[l] \in LineType /\ RowConsistent(line'[l])
             /\ Outstanding(line'[l]) = Outstanding(line[l]) - freed[l]
             /\ line'[l].issue + line'[l].lossMovement = line[l].issue + line[l].lossMovement
             /\ line'[l].lot = line[l].lot
  <2>1. line[l] \in LineType /\ RowConsistent(line[l]) /\ freed[l] \in Nat
    BY <1>1, <1>4
  <2>2. CASE freed[l] > 0
    <3>1. /\ freed[l] = line[l].reservation
          /\ line[l].issue = 0 /\ line[l].lossMovement = 0 /\ line[l].release = 0
          /\ line'[l] = [line[l] EXCEPT !.returned = freed[l], !.release = freed[l]]
      BY <2>2, <1>6
    <3>2. line'[l] \in LineType
      BY <2>1, <3>1 DEF LineType
    <3>3. /\ line'[l].exists = line[l].exists /\ line'[l].lot = line[l].lot
          /\ line'[l].reservation = line[l].reservation /\ line'[l].issue = line[l].issue
          /\ line'[l].lossMovement = line[l].lossMovement
          /\ line'[l].release = freed[l] /\ line'[l].returned = freed[l]
      BY <2>1, <3>1 DEF LineType
    <3>4. freed[l] \in Nat
      BY <2>1
    <3> QED BY <2>1, <3>1, <3>2, <3>3, <3>4 DEF RowConsistent, Outstanding
  <2>3. CASE ~ (freed[l] > 0)
    BY <2>1, <2>3, <1>7 DEF LineType, Outstanding
  <2> QED BY <2>2, <2>3
<1>9. line' \in [Line -> LineType] /\ RowsConsistent'
  BY <1>8 DEF Cancel, RowsConsistent
<1>10. back \in [Line -> Int] /\ None \in [Line -> Int] /\ \A l \in Line : back[l] = -freed[l]
  BY <1>4 DEF None
<1>11. \A l \in Line : /\ Held'[l] = Held[l] + back[l] /\ Taken'[l] = Taken[l] + None[l]
                       /\ line'[l].lot = line[l].lot
  <2>1. \A l \in Line : Outstanding(line[l]) \in Nat /\ line[l].issue \in Nat
                        /\ line[l].lossMovement \in Nat /\ freed[l] \in Nat
    BY <1>1, <1>2, <1>4 DEF Held, LineType
  <2> QED BY <1>8, <1>10, <2>1 DEF Held, Taken, None
<1> HIDE DEF back
<1>12. ASSUME NEW k \in Lot
       PROVE  /\ Demand(k, freed) \in Nat /\ Demand(k, None) = 0
              /\ Demand(k, back) = -Demand(k, freed)
              /\ bal[k].quantity \in Nat /\ bal[k].reserved \in Nat
              /\ bal[k].reserved <= bal[k].quantity
  <2>1. Demand(k, freed) \in Nat /\ Demand(k, back) = -Demand(k, freed)
    BY <1>4, <1>10, DemandType, DemandOpposite
  <2>2. Demand(k, None) = 0
    BY <1>10, NoDemand DEF None
  <2> QED BY <2>1, <2>2, <1>0 DEF TypeOK, BalanceType, ReservationBacked, BalanceClean
<1>13. bal' = [k \in Lot |-> [quantity |-> bal[k].quantity - Demand(k, None),
                              reserved |-> bal[k].reserved + Demand(k, back)]]
  <2>1. bal' = [k \in Lot |-> Released(bal[k], Demand(k, freed))]
    BY DEF Cancel, freed
  <2> QED BY <2>1, <1>12 DEF Released
<1>14. bal' \in [Lot -> BalanceType]
       /\ ReservedIsOutstanding' /\ LedgerConservation' /\ ReservationBacked'
  <2>1. \A k \in Lot : bal[k].reserved + Demand(k, back) <= bal[k].quantity - Demand(k, None)
    BY <1>12
  <2>2. posted' = posted
    BY DEF Cancel
  <2> QED BY <1>9, <1>10, <1>11, <1>13, <2>1, <2>2, StockStepInv
<1>15. TypeOK'
  <2>1. order' \in [Order -> OrderStatus]
    BY <1>0 DEF Cancel, TypeOK, OrderStatus
  <2> QED BY <1>9, <1>14, <2>1, RestOfTypes DEF Cancel
<1>16. CancelledHoldsNothing'
  <2>1. ASSUME NEW l \in Line, order'[OrderOf[l]] = "cancelled"
        PROVE  Outstanding(line'[l]) = 0
    <3>1. Outstanding(line[l]) \in Nat
      BY <1>2 DEF Held
    <3>2. CASE l \in Items(o)
      BY <3>1, <3>2, <1>3, <1>8 DEF Held
    <3>3. CASE l \notin Items(o)
      <4>1. freed[l] = 0 /\ Outstanding(line'[l]) = Outstanding(line[l])
        BY <3>1, <3>3, <1>3, <1>8
      <4>2. CASE OrderOf[l] = o
        <5>1. ~ line[l].exists
          BY <3>3, <4>2 DEF Items
        <5>2. line[l].reservation = 0
          BY <5>1, <1>1 DEF RowConsistent, LineType
        <5>3. line[l].issue + line[l].lossMovement + line[l].release = 0
          BY <5>2, <1>1 DEF RowConsistent
        <5>4. Outstanding(line[l]) = 0
          BY <5>2, <5>3 DEF Outstanding
        <5> QED BY <4>1, <5>4
      <4>3. CASE OrderOf[l] # o
        <5>1. order[OrderOf[l]] = "cancelled"
          BY <2>1, <4>3, <1>0, RowAssumption DEF Cancel, TypeOK
        <5> QED BY <4>1, <5>1, <1>0 DEF CancelledHoldsNothing
      <4> QED BY <4>2, <4>3
    <3> QED BY <3>2, <3>3
  <2> QED BY <2>1 DEF CancelledHoldsNothing
<1> QED BY <1>9, <1>14, <1>15, <1>16 DEF IndInv

LEMMA SaveLineInv ==
  ASSUME IndInv, NEW m \in Line, SaveLine(m)
  PROVE  IndInv'
<1>0. TypeOK /\ RowsConsistent /\ ReservationBacked /\ CancelledHoldsNothing
  BY DEF IndInv
<1>1. PICK lot \in {NoLot} \cup {k \in Lot : LotMaterial[k] = MaterialOf[m]},
           planned \in Quantity, actual \in Quantity, loss \in Quantity, returned \in Quantity :
        LET r == [line[m] EXCEPT !.exists = TRUE, !.lot = lot, !.planned = planned,
                                 !.actual = actual, !.loss = loss, !.returned = returned]
        IN LinksMatch(m, r) /\ line' = [line EXCEPT ![m] = r]
  BY DEF SaveLine
<1> DEFINE r == [line[m] EXCEPT !.exists = TRUE, !.lot = lot, !.planned = planned,
                                !.actual = actual, !.loss = loss, !.returned = returned]
<1>2. LinksMatch(m, r) /\ line' = [line EXCEPT ![m] = r]
  BY <1>1
<1>3. \A l \in Line : line[l] \in LineType /\ RowConsistent(line[l])
  BY <1>0 DEF TypeOK, RowsConsistent
<1>4. /\ r \in LineType
      /\ r.reservation = line[m].reservation /\ r.issue = line[m].issue
      /\ r.lossMovement = line[m].lossMovement /\ r.release = line[m].release
      /\ r.exists
  BY <1>3, QuantityAssumption DEF LineType
<1> HIDE DEF r
<1>5. RowConsistent(r) /\ (r.lot = line[m].lot \/ r.reservation = 0)
  BY <1>2, <1>3, <1>4 DEF LinksMatch, RowConsistent, LineType
<1>6. line' \in [Line -> LineType] /\ RowsConsistent'
  BY <1>0, <1>2, <1>3, <1>4, <1>5 DEF TypeOK, RowsConsistent
<1>7. ASSUME NEW l \in Line
      PROVE  /\ Outstanding(line'[l]) = Outstanding(line[l])
             /\ line'[l].issue = line[l].issue /\ line'[l].lossMovement = line[l].lossMovement
             /\ \/ line'[l].lot = line[l].lot
                \/ line[l].reservation = 0
  <2>1. CASE l = m
    BY <2>1, <1>0, <1>2, <1>4, <1>5 DEF TypeOK, Outstanding
  <2>2. CASE l # m
    BY <2>2, <1>0, <1>2 DEF TypeOK
  <2> QED BY <2>1, <2>2
<1>8. Held \in [Line -> Nat] /\ Taken \in [Line -> Nat] /\ None \in [Line -> Int]
  BY <1>0, RowSums DEF TypeOK, None
<1>9. ASSUME NEW l \in Line
      PROVE  /\ Held'[l] = Held[l] + None[l] /\ Taken'[l] = Taken[l] + None[l]
             /\ \/ line'[l].lot = line[l].lot
                \/ Held[l] = 0 /\ None[l] = 0 /\ Taken[l] = 0
  <2>1. Held'[l] = Held[l] /\ Taken'[l] = Taken[l]
    BY <1>7 DEF Held, Taken
  <2>2. line[l].reservation = 0 => Held[l] = 0 /\ Taken[l] = 0
    BY <1>3 DEF Held, Taken, Outstanding, RowConsistent, LineType
  <2>3. Held[l] \in Nat /\ Taken[l] \in Nat /\ None[l] = 0
    BY <1>8 DEF None
  <2> QED BY <2>1, <2>2, <2>3, <1>7
<1>10. \A k \in Lot :
         /\ Demand(k, None) = 0
         /\ bal[k] = [quantity |-> bal[k].quantity - Demand(k, None),
                      reserved |-> bal[k].reserved + Demand(k, None)]
         /\ bal[k].reserved + Demand(k, None) <= bal[k].quantity - Demand(k, None)
  <2>1. \A k \in Lot : Demand(k, None) = 0
    BY <1>8, NoDemand DEF None
  <2> QED BY <2>1, <1>0 DEF TypeOK, BalanceType, ReservationBacked, BalanceClean
<1>11. /\ bal' = [k \in Lot |-> [quantity |-> bal[k].quantity - Demand(k, None),
                                 reserved |-> bal[k].reserved + Demand(k, None)]]
       /\ posted' = posted /\ order' = order
  <2>1. bal' = bal /\ posted' = posted /\ order' = order
    BY DEF SaveLine, stockVars
  <2>2. bal = [k \in Lot |-> bal[k]]
    BY <1>0 DEF TypeOK
  <2> QED BY <2>1, <2>2, <1>10
<1>12. bal' \in [Lot -> BalanceType]
       /\ ReservedIsOutstanding' /\ LedgerConservation' /\ ReservationBacked'
  BY <1>6, <1>8, <1>9, <1>10, <1>11, StockStepInv
<1>13. TypeOK'
  BY <1>0, <1>6, <1>11, <1>12, RestOfTypes DEF SaveLine, TypeOK
<1>14. CancelledHoldsNothing'
  BY <1>0, <1>7, <1>11 DEF CancelledHoldsNothing
<1> QED BY <1>6, <1>12, <1>13, <1>14 DEF IndInv

LEMMA PostInv ==
  ASSUME IndInv, NEW k \in Lot, NEW d \in Int, Post(k, d)
  PROVE  IndInv'
<1>0. TypeOK /\ RowsConsistent /\ ReservedIsOutstanding /\ LedgerConservation
      /\ ReservationBacked /\ CancelledHoldsNothing
  BY DEF IndInv
<1>1. UNCHANGED <<order, line, out, genealogy>>
  BY DEF Post, outputVars
<1>2. /\ bal' = [bal EXCEPT ![k] = Moved(bal[k], d)] /\ posted' = [posted EXCEPT ![k] = posted[k] + d]
      /\ BalanceClean(Moved(bal[k], d))
  BY DEF Post
<1>3. ASSUME NEW j \in Lot
      PROVE  /\ bal[j].quantity \in Nat /\ bal[j].reserved \in Nat
             /\ bal[j] \in BalanceType /\ posted[j] \in Int
             /\ Demand(j, Held)' = Demand(j, Held) /\ Demand(j, Taken)' = Demand(j, Taken)
             /\ Demand(j, Taken) \in Int
  <2>1. Demand(j, Taken) \in Int
    BY <1>0, RowSums, DemandType DEF TypeOK
  <2>2. Demand(j, Held)' = Demand(j, Held) /\ Demand(j, Taken)' = Demand(j, Taken)
    BY <1>1 DEF Demand, OnLot, Held, Taken
  <2> QED BY <2>1, <2>2, <1>0 DEF TypeOK, BalanceType
<1>4. /\ Moved(bal[k], d).quantity = bal[k].quantity + d
      /\ Moved(bal[k], d).reserved = bal[k].reserved
      /\ Moved(bal[k], d) \in BalanceType
  BY <1>2, <1>3 DEF Moved, BalanceType, BalanceClean
<1>5. bal' \in [Lot -> BalanceType] /\ posted' \in [Lot -> Int]
  BY <1>0, <1>2, <1>3, <1>4 DEF TypeOK
<1>6. ASSUME NEW j \in Lot
      PROVE  /\ bal'[j].reserved = Demand(j, Held)'
             /\ bal'[j].quantity = posted'[j] - Demand(j, Taken)'
             /\ BalanceClean(bal'[j])
  <2>1. /\ bal[j].reserved = Demand(j, Held) /\ bal[j].quantity = posted[j] - Demand(j, Taken)
        /\ BalanceClean(bal[j])
    BY <1>0 DEF ReservedIsOutstanding, LedgerConservation, ReservationBacked
  <2>2. CASE j = k
    BY <2>1, <2>2, <1>0, <1>2, <1>3, <1>4 DEF TypeOK
  <2>3. CASE j # k
    BY <2>1, <2>3, <1>0, <1>2, <1>3 DEF TypeOK
  <2> QED BY <2>2, <2>3
<1>7. TypeOK'
  BY <1>0, <1>1, <1>5 DEF TypeOK
<1>8. RowsConsistent' /\ CancelledHoldsNothing'
  BY <1>0, <1>1 DEF RowsConsistent, CancelledHoldsNothing
<1>9. ReservedIsOutstanding' /\ LedgerConservation' /\ ReservationBacked'
  BY <1>6 DEF ReservedIsOutstanding, LedgerConservation, ReservationBacked
<1> QED BY <1>7, <1>8, <1>9 DEF IndInv

\* A step that moves no stock and cancels nothing.
LEMMA FrameInv ==
  ASSUME IndInv, UNCHANGED <<line, bal, posted>>,
         order' \in [Order -> OrderStatus],
         out' \in [Output -> OutputType], genealogy' \in [Output -> [Lot -> Nat]],
         \A o \in Order : order'[o] = "cancelled" => order[o] = "cancelled"
  PROVE  IndInv'
<1>1. TypeOK'
  BY DEF IndInv, TypeOK
<1>2. RowsConsistent' /\ CancelledHoldsNothing'
  BY RowAssumption DEF IndInv, RowsConsistent, CancelledHoldsNothing
<1>3. \A k \in Lot : Demand(k, Held)' = Demand(k, Held) /\ Demand(k, Taken)' = Demand(k, Taken)
  BY DEF Demand, OnLot, Held, Taken
<1>4. ReservedIsOutstanding' /\ LedgerConservation' /\ ReservationBacked'
  BY <1>3 DEF IndInv, ReservedIsOutstanding, LedgerConservation, ReservationBacked
<1> QED BY <1>1, <1>2, <1>4 DEF IndInv

LEMMA TransitionInv ==
  ASSUME IndInv, NEW o \in Order, NEW from, NEW to \in OrderStatus \ {"cancelled"},
         NEW needsRelease, Transition(o, from, to, needsRelease)
  PROVE  IndInv'
<1>1. order \in [Order -> OrderStatus] /\ order' = [order EXCEPT ![o] = to]
  BY DEF IndInv, TypeOK, Transition
<1>2. /\ order' \in [Order -> OrderStatus]
      /\ \A p \in Order : order'[p] = "cancelled" => order[p] = "cancelled"
  BY <1>1
<1>3. UNCHANGED <<line, bal, posted, out, genealogy>>
  BY DEF Transition, stockVars, outputVars
<1>4. out' \in [Output -> OutputType] /\ genealogy' \in [Output -> [Lot -> Nat]]
  BY <1>3 DEF IndInv, TypeOK
<1> QED BY <1>2, <1>3, <1>4, FrameInv

\* The quantities receive_outputs writes into the genealogy.
LEMMA InputsType ==
  ASSUME TypeOK, NEW o \in Order
  PROVE  Inputs(o) \in [Lot -> Nat]
<1> DEFINE f == [l \in Line |-> IF l \in Items(o) /\ line[l].issue > 0 THEN line[l].actual ELSE 0]
<1>1. f \in [Line -> Nat]
  BY DEF TypeOK, LineType
<1>2. \A k \in Lot : Demand(k, f) \in Nat
  <2> HIDE DEF f
  <2> QED BY <1>1, DemandType
<1> QED BY <1>2 DEF Inputs

LEMMA OutputInv ==
  ASSUME IndInv,
         \/ \E x \in Output : SaveOutput(x) \/ DisposeOutput(x)
         \/ \E o \in Order : ReceiveOutputs(o)
  PROVE  IndInv'
<1>0. TypeOK
  BY DEF IndInv
<1>1. UNCHANGED <<order, line, bal, posted>>
  BY DEF SaveOutput, DisposeOutput, ReceiveOutputs, stockVars
<1>2. out' \in [Output -> OutputType] /\ genealogy' \in [Output -> [Lot -> Nat]]
  <2>1. ASSUME NEW x \in Output, SaveOutput(x) \/ DisposeOutput(x)
        PROVE  out' \in [Output -> OutputType] /\ genealogy' \in [Output -> [Lot -> Nat]]
    <3>1. genealogy' = genealogy
      BY <2>1 DEF SaveOutput, DisposeOutput
    <3>2. out[x] \in OutputType
      BY <1>0 DEF TypeOK
    <3>3. CASE SaveOutput(x)
      <4>1. PICK q \in Quantity :
              out' = [out EXCEPT ![x].status = "pending", ![x].produced = q]
        BY <3>3 DEF SaveOutput
      <4>2. q \in Nat
        BY QuantityAssumption
      <4> QED BY <4>1, <4>2, <3>1, <3>2, <1>0 DEF TypeOK, OutputType
    <3>4. CASE DisposeOutput(x)
      BY <3>4, <3>1, <3>2, <1>0 DEF DisposeOutput, TypeOK, OutputType
    <3> QED BY <2>1, <3>3, <3>4
  <2>2. ASSUME NEW o \in Order, ReceiveOutputs(o)
        PROVE  out' \in [Output -> OutputType] /\ genealogy' \in [Output -> [Lot -> Nat]]
    <3>1. ASSUME NEW x \in Output PROVE out'[x] \in OutputType
      <4>1. out[x] \in OutputType /\ out[x].stock + out[x].produced \in Nat
        BY <1>0 DEF TypeOK, OutputType
      <4>2. out'[x] = out[x] \/ out'[x] = [out[x] EXCEPT !.status = "received",
                                                         !.stock = @ + out[x].produced]
        BY <2>2 DEF ReceiveOutputs
      <4> QED BY <4>1, <4>2 DEF OutputType
    <3>2. ASSUME NEW x \in Output, NEW k \in Lot
          PROVE  (IF Inputs(o)[k] > 0 THEN Inputs(o)[k] ELSE genealogy[x][k]) \in Nat
      BY <1>0, InputsType DEF TypeOK
    <3>3. genealogy' \in [Output -> [Lot -> Nat]]
      BY <2>2, <3>2, <1>0 DEF ReceiveOutputs, TypeOK
    <3> QED BY <2>2, <3>1, <3>3 DEF ReceiveOutputs
  <2> QED BY <2>1, <2>2
<1> QED BY <1>0, <1>1, <1>2, FrameInv DEF TypeOK

LEMMA EnvironmentInv ==
  ASSUME IndInv, UNCHANGED <<order, line, stockVars, outputVars>>
  PROVE  IndInv'
<1>1. UNCHANGED <<order, line, bal, posted, out, genealogy>>
  BY DEF stockVars, outputVars
<1> QED BY <1>1, FrameInv DEF IndInv, TypeOK

LEMMA StepInv ==
  ASSUME IndInv, [Next]_vars
  PROVE  IndInv'
<1>1. ASSUME NEW o \in Order, OrderStep(o) PROVE IndInv'
  <2>1. CASE Approve(o) \/ Release(o) \/ Start(o) \/ Pause(o) \/ Resume(o) \/ Complete(o)
    <3>1. \E from \in OrderStatus, to \in OrderStatus \ {"cancelled"}, n \in BOOLEAN :
            Transition(o, from, to, n)
      BY <2>1 DEF Approve, Release, Start, Pause, Resume, Complete, OrderStatus
    <3> QED BY <3>1, TransitionInv
  <2>2. CASE Cancel(o)
    BY <2>2, CancelInv
  <2>3. CASE ReserveMaterials(o)
    BY <2>3, ReserveMaterialsInv
  <2>4. CASE IssueMaterials(o)
    BY <2>4, IssueMaterialsInv
  <2>5. CASE ReceiveOutputs(o)
    BY <2>5, OutputInv
  <2> QED BY <1>1, <2>1, <2>2, <2>3, <2>4, <2>5 DEF OrderStep
<1>2. ASSUME NEW l \in Line, SaveLine(l) PROVE IndInv'
  BY <1>2, SaveLineInv
<1>3. ASSUME NEW x \in Output, SaveOutput(x) \/ DisposeOutput(x) PROVE IndInv'
  BY <1>3, OutputInv
<1>4. ASSUME NEW k \in Lot, NEW q \in Quantity, StockStep(k, q) PROVE IndInv'
  <2>1. q \in Int /\ -q \in Int
    BY QuantityAssumption
  <2>2. Post(k, q) \/ Post(k, -q)
    BY <1>4 DEF StockStep, IssueStock, IncreaseStock, DecreaseStock
  <2> QED BY <2>1, <2>2, PostInv
<1>5. CASE EnvironmentStep \/ UNCHANGED vars
  <2>1. UNCHANGED <<order, line, stockVars, outputVars>>
    BY <1>5 DEF EnvironmentStep, Expire, Redate, ToggleAddress, ToggleMaster, vars
  <2> QED BY <2>1, EnvironmentInv
<1> QED BY <1>1, <1>2, <1>3, <1>4, <1>5 DEF Next

-----------------------------------------------------------------------------
(* What a step may do to a row *)

LEMMA RowStep ==
  ASSUME IndInv, [Next]_vars, NEW l \in Line
  PROVE  KeepsMovements(l) /\ KeepsTerminal(l)
<1>0. line \in [Line -> LineType] /\ line[l] \in LineType /\ RowConsistent(line[l])
  BY DEF IndInv, TypeOK, RowsConsistent
<1>1. ASSUME line' = line PROVE KeepsMovements(l) /\ KeepsTerminal(l)
  BY <1>1 DEF KeepsMovements, KeepsTerminal
<1>2. ASSUME NEW o \in Order, ReserveMaterials(o)
      PROVE  KeepsMovements(l) /\ KeepsTerminal(l)
  <2>1. line'[l] = IF ToReserve(o)[l] > 0
                   THEN [line[l] EXCEPT !.reservation = ToReserve(o)[l]] ELSE line[l]
    BY <1>2 DEF ReserveMaterials
  <2>2. ToReserve(o)[l] = IF l \in Items(o) /\ line[l].reservation = 0
                          THEN line[l].planned ELSE 0
    BY DEF ToReserve
  <2>3. CASE l \in Items(o) /\ line[l].reservation = 0
    <3>1. ~ (order[OrderOf[l]] \in {"completed", "cancelled"})
      BY <2>3, <1>2 DEF ReserveMaterials, Items
    <3> QED BY <2>3, <3>1 DEF KeepsMovements, KeepsTerminal
  <2>4. CASE ~ (l \in Items(o) /\ line[l].reservation = 0)
    <3>1. line'[l] = line[l]
      BY <2>1, <2>2, <2>4
    <3> QED BY <3>1 DEF KeepsMovements, KeepsTerminal
  <2> QED BY <2>3, <2>4
<1>3. ASSUME NEW o \in Order, IssueMaterials(o)
      PROVE  KeepsMovements(l) /\ KeepsTerminal(l)
  <2>1. line'[l] = [line[l] EXCEPT !.issue = line[l].issue + ToIssue(o)[l],
                                   !.lossMovement = line[l].lossMovement + ToLose(o)[l],
                                   !.release = line[l].release + ToReturn(o)[l]]
    BY <1>3 DEF IssueMaterials
  <2>2. /\ ToIssue(o)[l] = IF l \in Items(o) /\ line[l].issue = 0 THEN line[l].actual ELSE 0
        /\ ToLose(o)[l] = IF l \in Items(o) /\ line[l].lossMovement = 0 THEN line[l].loss ELSE 0
        /\ ToReturn(o)[l] = IF l \in Items(o) /\ line[l].release = 0 THEN line[l].returned ELSE 0
    BY DEF ToIssue, ToLose, ToReturn, ToPost
  <2>3. /\ line'[l].reservation = line[l].reservation /\ line'[l].lot = line[l].lot
        /\ line'[l].issue = line[l].issue + ToIssue(o)[l]
        /\ line'[l].lossMovement = line[l].lossMovement + ToLose(o)[l]
        /\ line'[l].release = line[l].release + ToReturn(o)[l]
    BY <1>0, <2>1 DEF LineType
  <2>4. KeepsMovements(l)
    BY <1>0, <2>2, <2>3 DEF KeepsMovements, LineType
  <2>5. ASSUME order[OrderOf[l]] \in {"completed", "cancelled"} PROVE line'[l] = line[l]
    <3>1. l \notin Items(o)
      BY <2>5, <1>3 DEF IssueMaterials, Items
    <3>2. ToIssue(o)[l] = 0 /\ ToLose(o)[l] = 0 /\ ToReturn(o)[l] = 0
      BY <2>2, <3>1
    <3>3. /\ line[l].issue + ToIssue(o)[l] = line[l].issue
          /\ line[l].lossMovement + ToLose(o)[l] = line[l].lossMovement
          /\ line[l].release + ToReturn(o)[l] = line[l].release
      BY <1>0, <3>2 DEF LineType
    <3>4. line'[l] = [line[l] EXCEPT !.issue = line[l].issue,
                                     !.lossMovement = line[l].lossMovement,
                                     !.release = line[l].release]
      BY <2>1, <3>3
    <3> QED BY <1>0, <3>4 DEF LineType
  <2> QED BY <2>4, <2>5 DEF KeepsTerminal
<1>4. ASSUME NEW o \in Order, Cancel(o)
      PROVE  KeepsMovements(l) /\ KeepsTerminal(l)
  <2>1. line'[l] = IF CancelRelease(o)[l] > 0
                   THEN [line[l] EXCEPT !.returned = CancelRelease(o)[l],
                                        !.release = CancelRelease(o)[l]]
                   ELSE line[l]
    BY <1>4 DEF Cancel
  <2>2. CASE l \in Items(o) /\ CancelRelease(o)[l] > 0
    <3>1. line[l].release = 0 /\ ~ (order[OrderOf[l]] \in {"completed", "cancelled"})
      BY <2>2, <1>4 DEF Cancel, Items, CancellableStatuses
    <3> QED BY <2>1, <2>2, <3>1, <1>0 DEF KeepsMovements, KeepsTerminal, LineType
  <2>3. CASE ~ (l \in Items(o) /\ CancelRelease(o)[l] > 0)
    <3>1. line'[l] = line[l]
      <4>1. l \notin Items(o) => CancelRelease(o)[l] = 0
        BY DEF CancelRelease
      <4>2. ~ (CancelRelease(o)[l] > 0)
        BY <2>3, <4>1
      <4> QED BY <2>1, <4>2, Zenon
    <3> QED BY <3>1 DEF KeepsMovements, KeepsTerminal
  <2> QED BY <2>2, <2>3
<1>5. ASSUME NEW m \in Line, SaveLine(m)
      PROVE  KeepsMovements(l) /\ KeepsTerminal(l)
  <2>1. PICK lot \in {NoLot} \cup {k \in Lot : LotMaterial[k] = MaterialOf[m]},
             planned \in Quantity, actual \in Quantity, loss \in Quantity, returned \in Quantity :
          LET r == [line[m] EXCEPT !.exists = TRUE, !.lot = lot, !.planned = planned,
                                   !.actual = actual, !.loss = loss, !.returned = returned]
          IN LinksMatch(m, r) /\ line' = [line EXCEPT ![m] = r]
    BY <1>5 DEF SaveLine
  <2> DEFINE r == [line[m] EXCEPT !.exists = TRUE, !.lot = lot, !.planned = planned,
                                  !.actual = actual, !.loss = loss, !.returned = returned]
  <2>2. LinksMatch(m, r) /\ line' = [line EXCEPT ![m] = r]
    BY <2>1
  <2>3. CASE m = l
    <3>1. /\ r.reservation = line[l].reservation /\ r.issue = line[l].issue
          /\ r.lossMovement = line[l].lossMovement /\ r.release = line[l].release
      BY <2>3, <1>0 DEF LineType
    <3>2. ~ (order[OrderOf[l]] \in {"completed", "cancelled"})
      BY <2>3, <1>5 DEF SaveLine, CancellableStatuses
    <3> HIDE DEF r
    <3> QED BY <2>2, <2>3, <3>1, <3>2, <1>0 DEF LinksMatch, KeepsMovements, KeepsTerminal
  <2>4. CASE m # l
    <3>1. line'[l] = line[l]
      BY <2>2, <2>4, <1>0
    <3> QED BY <3>1 DEF KeepsMovements, KeepsTerminal
  <2> QED BY <2>3, <2>4
<1>6. ASSUME NEW o \in Order, OrderStep(o)
      PROVE  KeepsMovements(l) /\ KeepsTerminal(l)
  <2>1. CASE Approve(o) \/ Release(o) \/ Start(o) \/ Pause(o) \/ Resume(o) \/ Complete(o)
    BY <2>1, <1>1
    DEF Approve, Release, Start, Pause, Resume, Complete, Transition
  <2>2. CASE ReceiveOutputs(o)
    BY <2>2, <1>1 DEF ReceiveOutputs
  <2> QED BY <1>6, <2>1, <2>2, <1>2, <1>3, <1>4 DEF OrderStep
<1>7. ASSUME NEW k \in Lot, NEW q \in Quantity, StockStep(k, q) PROVE line' = line
  BY <1>7 DEF StockStep, IssueStock, IncreaseStock, DecreaseStock, Post
<1>8. ASSUME NEW x \in Output, SaveOutput(x) \/ DisposeOutput(x) PROVE line' = line
  BY <1>8 DEF SaveOutput, DisposeOutput
<1>9. ASSUME EnvironmentStep \/ UNCHANGED vars PROVE line' = line
  BY <1>9 DEF EnvironmentStep, Expire, Redate, ToggleAddress, ToggleMaster, vars
<1> QED BY <1>1, <1>5, <1>6, <1>7, <1>8, <1>9 DEF Next

-----------------------------------------------------------------------------
(* Outputs: what a completed order received stays true of its rows *)

\* What the rows of order o issued.
IssuedBy(o) == [l \in Line |-> IF OrderOf[l] = o THEN line[l].issue ELSE 0]

\* Only a completed order has received outputs, and it stays completed, so its
\* rows no longer change.
ReceivedWhenCompleted ==
  \A x \in Output : out[x].status = "received" => order[OutputOrder[x]] = "completed"

OutputInvariant == ReceivedWhenCompleted /\ OutputStockedOnce /\ GenealogyMatchesIssues

LEMMA InitOutput == Init => OutputInvariant
  BY DEF Init, OutputInvariant, ReceivedWhenCompleted, OutputStockedOnce,
         GenealogyMatchesIssues, AbsentOutput

\* What receive_outputs needs of the order and its rows, and what it writes.
LEMMA ReceiveEffect ==
  ASSUME NEW o \in Order, ReceiveOutputs(o)
  PROVE  /\ order[o] = "completed" /\ order' = order /\ line' = line
         /\ \A l \in Items(o) : IssueMatches(line[l])
         /\ out' = [x \in Output |->
              IF x \in PendingOutputs(o)
              THEN [out[x] EXCEPT !.status = "received", !.stock = @ + out[x].produced]
              ELSE out[x]]
         /\ genealogy' = [x \in Output |->
              IF x \in Outputs(o)
              THEN [k \in Lot |-> IF Inputs(o)[k] > 0 THEN Inputs(o)[k] ELSE genealogy[x][k]]
              ELSE genealogy[x]]
  BY Zenon DEF ReceiveOutputs

\* A step of an order other than the receipt keeps the outputs and leaves no order
\* that is completed.
LEMMA OrderStepEffect ==
  ASSUME IndInv, NEW p \in Order, OrderStep(p), ~ ReceiveOutputs(p)
  PROVE  /\ UNCHANGED <<out, genealogy>>
         /\ \A o \in Order : order[o] = "completed" => order'[o] = "completed"
<1>0. order \in [Order -> OrderStatus]
  BY DEF IndInv, TypeOK
<1>1. CASE Approve(p) \/ Release(p) \/ Start(p) \/ Pause(p) \/ Resume(p) \/ Complete(p)
  <2>1. \E from \in OrderStatus \ {"completed"}, to \in OrderStatus, n \in BOOLEAN :
          Transition(p, from, to, n)
    BY <1>1 DEF Approve, Release, Start, Pause, Resume, Complete, OrderStatus
  <2> QED BY <1>0, <2>1 DEF Transition, outputVars
<1>2. CASE Cancel(p)
  <2>1. /\ order[p] \in CancellableStatuses /\ order' = [order EXCEPT ![p] = "cancelled"]
        /\ UNCHANGED <<out, genealogy>>
    BY <1>2 DEF Cancel, outputVars
  <2> QED BY <1>0, <2>1 DEF CancellableStatuses
<1>3. CASE ReserveMaterials(p) \/ IssueMaterials(p)
  <2>1. order' = order /\ UNCHANGED <<out, genealogy>>
    BY <1>3 DEF ReserveMaterials, IssueMaterials, outputVars
  <2> QED BY <2>1
<1> QED BY <1>1, <1>2, <1>3 DEF OrderStep

\* No transaction leaves the status completed.
LEMMA CompletedStays ==
  ASSUME IndInv, [Next]_vars, NEW o \in Order, order[o] = "completed"
  PROVE  order'[o] = "completed"
<1>1. ASSUME NEW p \in Order, OrderStep(p) PROVE order'[o] = "completed"
  BY <1>1, OrderStepEffect, ReceiveEffect
<1>2. ASSUME NEW l \in Line, SaveLine(l) PROVE order'[o] = "completed"
  BY <1>2 DEF SaveLine
<1>3. ASSUME NEW x \in Output, SaveOutput(x) \/ DisposeOutput(x) PROVE order'[o] = "completed"
  BY <1>3 DEF SaveOutput, DisposeOutput
<1>4. ASSUME NEW k \in Lot, NEW q \in Quantity, StockStep(k, q) PROVE order'[o] = "completed"
  BY <1>4 DEF StockStep, IssueStock, IncreaseStock, DecreaseStock, Post
<1>5. CASE EnvironmentStep \/ UNCHANGED vars
  BY <1>5 DEF EnvironmentStep, Expire, Redate, ToggleAddress, ToggleMaster, vars
<1> QED BY <1>1, <1>2, <1>3, <1>4, <1>5 DEF Next

\* What a completed order took from a lot is settled for good.
LEMMA IssuesSettled ==
  ASSUME IndInv, [Next]_vars, NEW o \in Order, order[o] = "completed", NEW k \in Lot
  PROVE  Demand(k, IssuedBy(o))' = Demand(k, IssuedBy(o))
<1>1. ASSUME NEW l \in Line, OrderOf[l] = o PROVE line'[l] = line[l]
  BY <1>1, RowStep DEF KeepsTerminal
<1>2. OnLot(k, IssuedBy(o))' = OnLot(k, IssuedBy(o))
  BY <1>1 DEF OnLot, IssuedBy
<1> QED BY <1>2 DEF Demand

\* The inputs receive_outputs sums up are what the order's rows issued.
LEMMA InputsAreIssues ==
  ASSUME IndInv, NEW o \in Order, ReceiveOutputs(o), NEW k \in Lot
  PROVE  Inputs(o)[k] = Demand(k, IssuedBy(o)) /\ Inputs(o)[k] \in Nat
<1> DEFINE f == [l \in Line |->
                   IF l \in Items(o) /\ line[l].issue > 0 THEN line[l].actual ELSE 0]
<1>1. ASSUME NEW l \in Line PROVE f[l] = IssuedBy(o)[l]
  <2>1. line[l] \in LineType /\ RowConsistent(line[l])
    BY DEF IndInv, TypeOK, RowsConsistent
  <2>2. l \in Items(o) <=> OrderOf[l] = o /\ line[l].exists
    BY DEF Items
  <2>3. l \in Items(o) /\ line[l].issue > 0 => line[l].actual = line[l].issue
    BY ReceiveEffect DEF IssueMatches
  <2>4. ~ line[l].exists => line[l].issue = 0
    BY <2>1 DEF RowConsistent, LineType
  <2> QED BY <2>1, <2>2, <2>3, <2>4 DEF IssuedBy, LineType
<1>2. f = IssuedBy(o)
  BY <1>1 DEF IssuedBy
<1>3. Inputs(o)[k] = Demand(k, f)
  BY DEF Inputs
<1>4. Inputs(o)[k] \in Nat
  BY InputsType DEF IndInv
<1> QED BY <1>2, <1>3, <1>4

\* The three parts of the invariant for one output, in the primed state.
OutputKept(x) ==
  /\ out'[x].status = "received" => order'[OutputOrder[x]] = "completed"
  /\ out'[x].stock = IF out'[x].status = "received" THEN out'[x].produced ELSE 0
  /\ \A k \in Lot : genealogy'[x][k] =
       IF out'[x].status = "received" THEN Demand(k, IssuedBy(OutputOrder[x]))' ELSE 0

\* A step that leaves the status, the stock and the genealogy of an output, and
\* the quantity of a received one.
LEMMA OutputUntouched ==
  ASSUME IndInv, OutputInvariant, [Next]_vars, NEW x \in Output,
         out'[x].status = "received" <=> out[x].status = "received",
         out'[x].stock = out[x].stock,
         out[x].status = "received" => out'[x].produced = out[x].produced,
         genealogy'[x] = genealogy[x]
  PROVE  OutputKept(x)
<1>1. OutputOrder[x] \in Order
  BY RowAssumption
<1>2. out[x].status = "received" =>
        /\ order[OutputOrder[x]] = "completed" /\ order'[OutputOrder[x]] = "completed"
        /\ \A k \in Lot : Demand(k, IssuedBy(OutputOrder[x]))'
                            = Demand(k, IssuedBy(OutputOrder[x]))
  BY <1>1, CompletedStays, IssuesSettled DEF OutputInvariant, ReceivedWhenCompleted
<1>3. \A k \in Lot : genealogy[x][k] =
        IF out[x].status = "received" THEN Demand(k, IssuedBy(OutputOrder[x])) ELSE 0
  BY DEF OutputInvariant, GenealogyMatchesIssues, IssuedBy
<1>4. out[x].stock = IF out[x].status = "received" THEN out[x].produced ELSE 0
  BY DEF OutputInvariant, OutputStockedOnce
<1> QED BY <1>2, <1>3, <1>4 DEF OutputKept

LEMMA ReceiveKept ==
  ASSUME IndInv, OutputInvariant, NEW o \in Order, ReceiveOutputs(o), NEW x \in Output
  PROVE  OutputKept(x)
<1>0. /\ out \in [Output -> OutputType] /\ genealogy \in [Output -> [Lot -> Nat]]
      /\ line' = line /\ order' = order /\ order[o] = "completed"
  BY ReceiveEffect DEF IndInv, TypeOK
<1>n. [Next]_vars
  BY DEF Next, OrderStep
<1>u. \A y \in Output : out'[y] =
        IF y \in PendingOutputs(o)
        THEN [out[y] EXCEPT !.status = "received", !.stock = @ + out[y].produced]
        ELSE out[y]
  BY ReceiveEffect, Zenon
<1>g. \A y \in Output : genealogy'[y] =
        IF y \in Outputs(o)
        THEN [k \in Lot |-> IF Inputs(o)[k] > 0 THEN Inputs(o)[k] ELSE genealogy[y][k]]
        ELSE genealogy[y]
  BY ReceiveEffect, Zenon
<1>1. CASE x \notin Outputs(o)
  <2>1. out'[x] = out[x] /\ genealogy'[x] = genealogy[x]
    <3>1. out'[x] = out[x]
      BY <1>1, <1>u, Zenon DEF PendingOutputs
    <3>2. genealogy'[x] = genealogy[x]
      BY <1>1, <1>g, Zenon
    <3> QED BY <3>1, <3>2
  <2> QED BY <2>1, <1>n, OutputUntouched
<1>2. CASE x \in Outputs(o)
  <2>1. OutputOrder[x] = o /\ out[x].status \in {"pending", "received"}
    BY <1>0, <1>2 DEF Outputs, OutputType
  <2>2. out'[x] = IF out[x].status = "pending"
                  THEN [out[x] EXCEPT !.status = "received", !.stock = @ + out[x].produced]
                  ELSE out[x]
    BY <1>2, <1>u DEF PendingOutputs
  <2>3. out[x] \in OutputType
    BY <1>0
  <2>4. out[x].stock = IF out[x].status = "received" THEN out[x].produced ELSE 0
    BY DEF OutputInvariant, OutputStockedOnce
  <2>5. out'[x].status = "received" /\ out'[x].stock = out'[x].produced
    BY <2>1, <2>2, <2>3, <2>4 DEF OutputType
  <2>6. ASSUME NEW k \in Lot PROVE genealogy'[x][k] = Demand(k, IssuedBy(o))
    <3>1. genealogy'[x][k] = IF Inputs(o)[k] > 0 THEN Inputs(o)[k] ELSE genealogy[x][k]
      BY <1>2, <1>g, Zenon
    <3>2. Inputs(o)[k] = Demand(k, IssuedBy(o)) /\ Inputs(o)[k] \in Nat
      BY InputsAreIssues
    <3>3. genealogy[x][k] = IF out[x].status = "received" THEN Demand(k, IssuedBy(o)) ELSE 0
      BY <2>1 DEF OutputInvariant, GenealogyMatchesIssues, IssuedBy
    <3> QED BY <3>1, <3>2, <3>3
  <2>7. \A k \in Lot : Demand(k, IssuedBy(o))' = Demand(k, IssuedBy(o))
    BY <1>0 DEF Demand, OnLot, IssuedBy
  <2> QED BY <1>0, <2>1, <2>5, <2>6, <2>7 DEF OutputKept
<1> QED BY <1>1, <1>2

LEMMA OutputStep ==
  ASSUME IndInv, OutputInvariant, [Next]_vars
  PROVE  OutputInvariant'
<1> SUFFICES ASSUME NEW x \in Output PROVE OutputKept(x)
  BY DEF OutputKept, OutputInvariant, ReceivedWhenCompleted, OutputStockedOnce,
         GenealogyMatchesIssues, IssuedBy
<1>0. out \in [Output -> OutputType] /\ out[x] \in OutputType
  BY DEF IndInv, TypeOK
<1>1. ASSUME UNCHANGED <<out, genealogy>> PROVE OutputKept(x)
  BY <1>1, OutputUntouched
<1>2. ASSUME NEW o \in Order, ReceiveOutputs(o) PROVE OutputKept(x)
  BY <1>2, ReceiveKept
<1>3. ASSUME NEW o \in Order, OrderStep(o) PROVE OutputKept(x)
  BY <1>1, <1>2, <1>3, OrderStepEffect
<1>4. ASSUME NEW l \in Line, SaveLine(l) PROVE OutputKept(x)
  BY <1>4, <1>1 DEF SaveLine, outputVars
<1>5. ASSUME NEW y \in Output, SaveOutput(y) PROVE OutputKept(x)
  <2>1. PICK q \in Quantity :
          out' = [out EXCEPT ![y].status = "pending", ![y].produced = q]
    BY <1>5 DEF SaveOutput
  <2>2. genealogy' = genealogy /\ out[y].status # "received"
    BY <1>5 DEF SaveOutput
  <2>3. /\ out'[x].status = "received" <=> out[x].status = "received"
        /\ out'[x].stock = out[x].stock
        /\ out[x].status = "received" => out'[x].produced = out[x].produced
    BY <1>0, <2>1, <2>2 DEF OutputType
  <2> QED BY <2>2, <2>3, OutputUntouched
<1>6. ASSUME NEW y \in Output, DisposeOutput(y) PROVE OutputKept(x)
  <2>1. genealogy' = genealogy /\ out' = [out EXCEPT ![y].quarantined = FALSE]
    BY <1>6 DEF DisposeOutput
  <2>2. /\ out'[x].status = out[x].status /\ out'[x].stock = out[x].stock
        /\ out'[x].produced = out[x].produced
    BY <1>0, <2>1 DEF OutputType
  <2> QED BY <2>1, <2>2, OutputUntouched
<1>7. ASSUME NEW k \in Lot, NEW q \in Quantity, StockStep(k, q) PROVE OutputKept(x)
  BY <1>7, <1>1 DEF StockStep, IssueStock, IncreaseStock, DecreaseStock, Post, outputVars
<1>8. CASE EnvironmentStep \/ UNCHANGED vars
  BY <1>8, <1>1 DEF EnvironmentStep, Expire, Redate, ToggleAddress, ToggleMaster, vars, outputVars
<1> QED BY <1>3, <1>4, <1>5, <1>6, <1>7, <1>8 DEF Next

-----------------------------------------------------------------------------
(* Theorems *)

LEMMA Invariance == Spec => []IndInv
<1>1. Init => IndInv
  BY InitInv
<1>2. IndInv /\ [Next]_vars => IndInv'
  BY StepInv
<1> QED BY <1>1, <1>2, PTL DEF Spec

\* Every row and balance keeps the shape of its table, whatever the orders, the
\* quantities and the interleaving of the operations.
THEOREM TypeCorrect == Spec => []TypeOK
<1>1. IndInv => TypeOK
  BY DEF IndInv
<1> QED BY <1>1, Invariance, PTL

\* What is reserved of a lot is always exactly what the allocations hold of it.
THEOREM ReservedExactly == Spec => []ReservedIsOutstanding
<1>1. IndInv => ReservedIsOutstanding
  BY DEF IndInv
<1> QED BY <1>1, Invariance, PTL

\* The quantity on hand is always what the movements say it is.
THEOREM LedgerBalances == Spec => []LedgerConservation
<1>1. IndInv => LedgerConservation
  BY DEF IndInv
<1> QED BY <1>1, Invariance, PTL

\* No reservation is ever left without the stock behind it.
THEOREM ReservationsBacked == Spec => []ReservationBacked
<1>1. IndInv => ReservationBacked
  BY DEF IndInv
<1> QED BY <1>1, Invariance, PTL

\* A cancelled order never holds stock again.
THEOREM CancellationFrees == Spec => []CancelledHoldsNothing
<1>1. IndInv => CancelledHoldsNothing
  BY DEF IndInv
<1> QED BY <1>1, Invariance, PTL

\* A reservation is settled in one piece.
THEOREM SettlementWhole == Spec => []SettledWholly
<1>1. IndInv => SettledWholly
  <2> SUFFICES ASSUME IndInv, NEW l \in Line
               PROVE  Outstanding(line[l]) \in {0, line[l].reservation}
    BY DEF SettledWholly
  <2>1. line[l] \in LineType /\ RowConsistent(line[l])
    BY DEF IndInv, TypeOK, RowsConsistent
  <2> QED BY <2>1 DEF LineType, RowConsistent, Outstanding
<1> QED BY <1>1, Invariance, PTL

\* Linked movements are never changed or unlinked, by any operation.
THEOREM HistoryKept == Spec => MovementsWriteOnce
<1>1. IndInv /\ [Next]_vars => [\A l \in Line : KeepsMovements(l)]_vars
  BY RowStep
<1> QED BY <1>1, Invariance, PTL DEF Spec, MovementsWriteOnce

\* The rows of an order that has ended never change again.
THEOREM TerminalKept == Spec => TerminalRowsFrozen
<1>1. IndInv /\ [Next]_vars => [\A l \in Line : KeepsTerminal(l)]_vars
  BY RowStep
<1> QED BY <1>1, Invariance, PTL DEF Spec, TerminalRowsFrozen

\* Received outputs and their genealogy stay true of the rows they were made of.
LEMMA OutputInvariance == Spec => []OutputInvariant
<1>1. IndInv /\ OutputInvariant /\ [Next]_vars => OutputInvariant'
  BY OutputStep
<1> QED BY InitOutput, <1>1, Invariance, PTL DEF Spec

\* However often outputs are received, each is stocked once, in the produced quantity.
THEOREM StockedOnce == Spec => []OutputStockedOnce
<1>1. OutputInvariant => OutputStockedOnce
  BY DEF OutputInvariant
<1> QED BY <1>1, OutputInvariance, PTL

\* The genealogy of a received output never becomes stale: it says what the order's
\* rows took from each lot, because those rows can no longer change.
THEOREM GenealogyStays == Spec => []GenealogyMatchesIssues
<1>1. OutputInvariant => GenealogyMatchesIssues
  BY DEF OutputInvariant
<1> QED BY <1>1, OutputInvariance, PTL

-----------------------------------------------------------------------------
(* The abstract promise *)

\* The reservations as the abstract specification keeps them.
Claims == [l \in Line |-> ClaimOf(line[l])]

\* The abstract specification adds up as this one does.
LEMMA SameTotal == \A f, n : Promise!Total(f, n) = Total(f, n)
BY DEF Promise!Total, Promise!Prefix, Total, Prefix

\* The claims are well typed, what they hold is what is reserved, what they have used is
\* what left the shelf, and what they hold is on the shelf.
ClaimsBacked ==
  /\ Claims \in [Promise!Row -> Promise!Claim]
  /\ \A k \in Lot : /\ Promise!HeldOf(Claims, k) = bal[k].reserved
                    /\ Promise!UsedOf(Claims, k) = posted[k] - bal[k].quantity
  /\ Promise!Backed

LEMMA ClaimsAreBacked == IndInv => ClaimsBacked
<1> SUFFICES ASSUME IndInv PROVE ClaimsBacked
  OBVIOUS
<1>1. ASSUME NEW l \in Line
      PROVE  /\ ClaimOf(line[l]) \in Promise!Claim
             /\ Promise!Left(ClaimOf(line[l])) = Held[l]
             /\ Promise!Used(ClaimOf(line[l])) = Taken[l]
             /\ line[l].reservation = 0 => Held[l] = 0 /\ Taken[l] = 0
             /\ line[l].reservation > 0 => ClaimOf(line[l]).lot = line[l].lot
             /\ ~(line[l].reservation > 0) => line[l].reservation = 0 /\ ClaimOf(line[l]).lot = NoLot
  <2>1. line[l] \in LineType /\ RowConsistent(line[l])
    BY DEF IndInv, TypeOK, RowsConsistent
  <2>2. ClaimOf(line[l]) \in Promise!Claim
    BY <2>1 DEF ClaimOf, Promise!Claim, LineType
  <2> QED BY <2>1, <2>2 DEF ClaimOf, Promise!Left, Promise!Used, Held, Taken, Outstanding, LineType,
                           RowConsistent
<1>2. Claims \in [Promise!Row -> Promise!Claim]
  BY <1>1 DEF Claims, Promise!Row, Line
<1>3. ASSUME NEW k \in Lot, NEW l \in Line
      PROVE  /\ (IF Claims[l].lot = k THEN Promise!Left(Claims[l]) ELSE 0) = OnLot(k, Held)[l]
             /\ (IF Claims[l].lot = k THEN Promise!Used(Claims[l]) ELSE 0) = OnLot(k, Taken)[l]
  <2>1. Claims[l] = ClaimOf(line[l]) /\ k # NoLot
    BY RowAssumption DEF Claims
  <2>2. /\ OnLot(k, Held)[l] = IF line[l].lot = k THEN Held[l] ELSE 0
        /\ OnLot(k, Taken)[l] = IF line[l].lot = k THEN Taken[l] ELSE 0
    BY DEF OnLot
  <2> QED BY <1>1, <2>1, <2>2
<1>4. ASSUME NEW k \in Lot
      PROVE  /\ Promise!HeldOf(Claims, k) = bal[k].reserved
             /\ Promise!UsedOf(Claims, k) = posted[k] - bal[k].quantity
  <2>1. /\ [l \in Line |-> IF Claims[l].lot = k THEN Promise!Left(Claims[l]) ELSE 0] = OnLot(k, Held)
        /\ [l \in Line |-> IF Claims[l].lot = k THEN Promise!Used(Claims[l]) ELSE 0] = OnLot(k, Taken)
    BY <1>3 DEF OnLot
  <2>2. /\ Promise!HeldOf(Claims, k) = Demand(k, Held)
        /\ Promise!UsedOf(Claims, k) = Demand(k, Taken)
    BY <2>1, SameTotal DEF Promise!HeldOf, Promise!UsedOf, Promise!Row, Demand, Line
  <2>3. Demand(k, Taken) \in Int
    BY RowSums, DemandType DEF IndInv, TypeOK
  <2>4. bal[k].reserved = Demand(k, Held) /\ bal[k].quantity = posted[k] - Demand(k, Taken)
        /\ posted[k] \in Int
    BY DEF IndInv, ReservedIsOutstanding, LedgerConservation, TypeOK
  <2> QED BY <2>2, <2>3, <2>4
<1>5. Promise!Backed
  BY DEF IndInv, ReservationBacked, BalanceClean, Promise!Backed
<1> QED BY <1>2, <1>4, <1>5 DEF ClaimsBacked

LEMMA ClaimsBackedAfter == IndInv' => ClaimsBacked'
BY ClaimsAreBacked, PTL

\* What a reservation does to a row.
LEMMA ReserveRows ==
  ASSUME IndInv, IndInv', NEW o \in Order, ReserveMaterials(o), NEW l \in Line,
         ClaimOf(line'[l]) # ClaimOf(line[l])
  PROVE  /\ ClaimOf(line[l]) = Promise!NoClaim
         /\ ClaimOf(line'[l]).lot \in Lot
         /\ Promise!Left(ClaimOf(line'[l])) = ClaimOf(line'[l]).quantity
         /\ ClaimOf(line'[l]).quantity > 0
<1> DEFINE q == ToReserve(o)[l]
<1>1. /\ line[l] \in LineType /\ RowConsistent(line[l])
      /\ line'[l] \in LineType /\ RowConsistent(line'[l])
  BY DEF IndInv, TypeOK, RowsConsistent
<1>2. line'[l] = IF q > 0 THEN [line[l] EXCEPT !.reservation = q] ELSE line[l]
  BY DEF ReserveMaterials
<1>3. q > 0 => line[l].reservation = 0
  BY DEF ToReserve
<1> HIDE DEF q
<1>4. q > 0
  BY <1>2
<1>5. /\ line[l].reservation = 0 /\ line'[l].reservation = q
      /\ line'[l].issue = line[l].issue /\ line'[l].lossMovement = line[l].lossMovement
      /\ line'[l].release = line[l].release
  BY <1>1, <1>2, <1>3, <1>4 DEF LineType
<1>6. line[l].issue = 0 /\ line[l].lossMovement = 0 /\ line[l].release = 0
  BY <1>1, <1>5 DEF RowConsistent, LineType
<1>7. q \in Nat /\ line'[l].lot \in Lot
  BY <1>1, <1>4, <1>5 DEF RowConsistent, LineType
<1> QED BY <1>4, <1>5, <1>6, <1>7 DEF ClaimOf, Promise!NoClaim, Promise!Left

\* An issue settles every row of its order that it touches, and none that is settled.
LEMMA IssueRows ==
  ASSUME IndInv, IndInv', NEW o \in Order, IssueMaterials(o), NEW l \in Line,
         ClaimOf(line'[l]) # ClaimOf(line[l])
  PROVE  /\ line'[l].lot = line[l].lot /\ line'[l].reservation = line[l].reservation
         /\ Outstanding(line[l]) = line[l].reservation /\ Outstanding(line'[l]) = 0
<1> DEFINE i == ToIssue(o)[l]
           t == ToLose(o)[l]
           b == ToReturn(o)[l]
<1>1. line[l] \in LineType /\ RowConsistent(line[l]) /\ RowConsistent(line'[l])
      /\ line'[l] \in LineType
  BY DEF IndInv, TypeOK, RowsConsistent
<1>2. line'[l] = [line[l] EXCEPT !.issue = line[l].issue + i,
                                 !.lossMovement = line[l].lossMovement + t,
                                 !.release = line[l].release + b]
  BY DEF IssueMaterials
<1>3. /\ i = IF l \in Items(o) /\ line[l].issue = 0 THEN line[l].actual ELSE 0
      /\ t = IF l \in Items(o) /\ line[l].lossMovement = 0 THEN line[l].loss ELSE 0
      /\ b = IF l \in Items(o) /\ line[l].release = 0 THEN line[l].returned ELSE 0
  BY DEF ToIssue, ToLose, ToReturn, ToPost
<1> HIDE DEF i, t, b
<1>4. i \in Nat /\ t \in Nat /\ b \in Nat
  BY <1>1, <1>3 DEF LineType
<1>5. /\ line'[l].lot = line[l].lot /\ line'[l].reservation = line[l].reservation
      /\ line'[l].issue = line[l].issue + i
      /\ line'[l].lossMovement = line[l].lossMovement + t
      /\ line'[l].release = line[l].release + b
  BY <1>1, <1>2 DEF LineType
<1>6. i > 0 \/ t > 0 \/ b > 0
  <2> SUFFICES ASSUME i = 0, t = 0, b = 0 PROVE FALSE
    BY <1>4
  <2> QED BY <1>1, <1>5 DEF ClaimOf, LineType
<1>7. l \in Items(o)
  BY <1>3, <1>6
<1>8. Reconciled(line[l]) /\ IssueMatches(line[l])
  BY <1>7 DEF IssueMaterials
<1>9. line'[l].issue + line'[l].lossMovement + line'[l].release = line[l].reservation
  <2>1. /\ line[l].issue \in Nat /\ line[l].lossMovement \in Nat /\ line[l].release \in Nat
        /\ line[l].actual \in Nat /\ line[l].loss \in Nat /\ line[l].returned \in Nat
    BY <1>1 DEF LineType
  <2>2. line'[l].issue = line[l].actual
    BY <1>3, <1>5, <1>7, <1>8, <2>1 DEF IssueMatches
  <2>3. line'[l].lossMovement = line[l].loss
    BY <1>1, <1>3, <1>5, <1>7, <2>1 DEF RowConsistent
  <2>4. line'[l].release = line[l].returned
    BY <1>1, <1>3, <1>5, <1>7, <2>1 DEF RowConsistent
  <2> QED BY <1>8, <2>2, <2>3, <2>4 DEF Reconciled
<1>10. line[l].issue + line[l].lossMovement + line[l].release = 0
  BY <1>1, <1>4, <1>5, <1>6, <1>9 DEF RowConsistent, LineType
<1> QED BY <1>1, <1>5, <1>9, <1>10 DEF Outstanding, LineType

\* A cancellation settles every row it frees.
LEMMA CancelRows ==
  ASSUME IndInv, IndInv', NEW o \in Order, Cancel(o), NEW l \in Line,
         ClaimOf(line'[l]) # ClaimOf(line[l])
  PROVE  /\ line'[l].lot = line[l].lot /\ line'[l].reservation = line[l].reservation
         /\ Outstanding(line[l]) = line[l].reservation /\ Outstanding(line'[l]) = 0
<1> DEFINE q == CancelRelease(o)[l]
<1>1. line[l] \in LineType /\ RowConsistent(line[l])
  BY DEF IndInv, TypeOK, RowsConsistent
<1>2. line'[l] = IF q > 0 THEN [line[l] EXCEPT !.returned = q, !.release = q] ELSE line[l]
  BY DEF Cancel
<1>3. q = IF l \in Items(o) THEN Outstanding(line[l]) ELSE 0
  BY DEF CancelRelease, Held
<1> HIDE DEF q
<1>4. q > 0
  BY <1>2
<1>5. q = line[l].reservation /\ Outstanding(line[l]) = line[l].reservation
      /\ line[l].issue = 0 /\ line[l].lossMovement = 0
  BY <1>1, <1>3, <1>4 DEF RowConsistent, Outstanding, LineType
<1>6. /\ line'[l].lot = line[l].lot /\ line'[l].reservation = line[l].reservation
      /\ line'[l].issue = 0 /\ line'[l].lossMovement = 0 /\ line'[l].release = q
  BY <1>1, <1>2, <1>4, <1>5 DEF LineType
<1> QED BY <1>1, <1>5, <1>6 DEF Outstanding, LineType

\* An edit changes no claim: a row that has one stays on its lot.
LEMMA EditRows ==
  ASSUME IndInv, NEW m \in Line, SaveLine(m)
  PROVE  Claims' = Claims
<1> SUFFICES ASSUME NEW l \in Line PROVE ClaimOf(line'[l]) = ClaimOf(line[l])
  BY DEF Claims
<1>0. line \in [Line -> LineType] /\ line[l] \in LineType
  BY DEF IndInv, TypeOK
<1>1. PICK lot \in {NoLot} \cup {k \in Lot : LotMaterial[k] = MaterialOf[m]},
           planned \in Quantity, actual \in Quantity, loss \in Quantity, returned \in Quantity :
        LET r == [line[m] EXCEPT !.exists = TRUE, !.lot = lot, !.planned = planned,
                                 !.actual = actual, !.loss = loss, !.returned = returned]
        IN LinksMatch(m, r) /\ line' = [line EXCEPT ![m] = r]
  BY DEF SaveLine
<1> DEFINE r == [line[m] EXCEPT !.exists = TRUE, !.lot = lot, !.planned = planned,
                                !.actual = actual, !.loss = loss, !.returned = returned]
<1>2. LinksMatch(m, r) /\ line' = [line EXCEPT ![m] = r]
  BY <1>1
<1>3. CASE m = l
  <2>1. /\ r.reservation = line[l].reservation /\ r.issue = line[l].issue
        /\ r.lossMovement = line[l].lossMovement /\ r.release = line[l].release
    BY <1>0, <1>3 DEF LineType
  <2>2. line'[l] = r
    BY <1>0, <1>2, <1>3
  <2> HIDE DEF r
  <2> QED BY <1>2, <1>3, <2>1, <2>2 DEF LinksMatch, ClaimOf
<1>4. CASE m # l
  BY <1>0, <1>2, <1>4
<1> QED BY <1>3, <1>4

\* A step of the allocations is a reservation or a settlement of the promise, or changes
\* no claim and then no balance.
LEMMA ClaimStep ==
  ASSUME IndInv, IndInv', posted' = posted,
         \/ \E o \in Order : ReserveMaterials(o) \/ IssueMaterials(o) \/ Cancel(o)
         \/ Claims' = Claims
  PROVE  [Promise!Next]_(Promise!promiseVars)
<1> DEFINE Shelf == [k \in Lot |-> bal[k].quantity]
           Counter == [k \in Lot |-> bal[k].reserved]
<1>1. /\ ClaimsBacked /\ ClaimsBacked'
      /\ \A k \in Lot : posted[k] \in Int /\ bal[k].quantity \in Int /\ bal'[k].quantity \in Int
  BY ClaimsAreBacked, ClaimsBackedAfter DEF IndInv, TypeOK, BalanceType
<1>2. /\ Claims' \in [Promise!Row -> Promise!Claim]
      /\ Counter' = [k \in Lot |-> Promise!HeldOf(Claims', k)]
      /\ Counter = [k \in Lot |-> Promise!HeldOf(Claims, k)]
      /\ Promise!Backed'
  BY <1>1 DEF ClaimsBacked
<1>3. Shelf' = [k \in Lot |->
        Shelf[k] - (Promise!UsedOf(Claims', k) - Promise!UsedOf(Claims, k))]
  <2>1. ASSUME NEW k \in Lot
        PROVE  bal'[k].quantity =
                 bal[k].quantity - (Promise!UsedOf(Claims', k) - Promise!UsedOf(Claims, k))
    <3>1. /\ Promise!UsedOf(Claims, k) = posted[k] - bal[k].quantity
          /\ Promise!UsedOf(Claims', k) = posted[k] - bal'[k].quantity
      BY <1>1 DEF ClaimsBacked
    <3> QED BY <1>1, <3>1
  <2> QED BY <2>1
<1>4. CASE Claims' = Claims
  <2>1. Counter' = Counter
    BY <1>2, <1>4
  <2>2. Shelf' = Shelf
    <3>1. ASSUME NEW k \in Lot PROVE bal'[k].quantity = bal[k].quantity
      <4>1. /\ Promise!UsedOf(Claims, k) = posted[k] - bal[k].quantity
            /\ Promise!UsedOf(Claims, k) = posted[k] - bal'[k].quantity
        BY <1>1, <1>4 DEF ClaimsBacked
      <4> QED BY <1>1, <4>1
    <3> QED BY <3>1
  <2> QED BY <1>4, <2>1, <2>2 DEF Promise!promiseVars, Claims
<1>5. ASSUME NEW o \in Order, ReserveMaterials(o), Claims' # Claims
      PROVE  Promise!Reserve
  <2>1. ASSUME NEW l \in Promise!Row, Claims'[l] # Claims[l]
        PROVE  /\ Claims[l] = Promise!NoClaim
               /\ Claims'[l].lot \in Lot
               /\ Promise!Left(Claims'[l]) = Claims'[l].quantity /\ Claims'[l].quantity > 0
    <3>1. l \in Line /\ Claims[l] = ClaimOf(line[l]) /\ Claims'[l] = ClaimOf(line'[l])
      BY DEF Claims, Promise!Row, Line
    <3> QED BY <1>5, <2>1, <3>1, ReserveRows
  <2>2. Shelf' = Shelf
    <3>1. \A k \in Lot : bal'[k].quantity = bal[k].quantity
      BY <1>5 DEF ReserveMaterials, Reserved
    <3> QED BY <3>1
  <2> QED BY <1>2, <1>5, <2>1, <2>2 DEF Promise!Reserve, Promise!Counted, Claims
<1>6. ASSUME NEW o \in Order, IssueMaterials(o) \/ Cancel(o), Claims' # Claims
      PROVE  Promise!Settle
  <2>1. ASSUME NEW l \in Promise!Row, Claims'[l] # Claims[l]
        PROVE  /\ Claims'[l].lot = Claims[l].lot /\ Claims'[l].quantity = Claims[l].quantity
               /\ Promise!Left(Claims[l]) = Claims[l].quantity /\ Promise!Left(Claims'[l]) = 0
    <3>1. l \in Line /\ Claims[l] = ClaimOf(line[l]) /\ Claims'[l] = ClaimOf(line'[l])
      BY DEF Claims, Promise!Row, Line
    <3>2. /\ line'[l].lot = line[l].lot /\ line'[l].reservation = line[l].reservation
          /\ Outstanding(line[l]) = line[l].reservation /\ Outstanding(line'[l]) = 0
      BY <1>6, <2>1, <3>1, IssueRows, CancelRows
    <3> QED BY <3>1, <3>2 DEF ClaimOf, Promise!Left, Outstanding
  <2> QED BY <1>2, <1>3, <1>6, <2>1 DEF Promise!Settle, Promise!Counted, Claims
<1> QED BY <1>4, <1>5, <1>6 DEF Promise!Next

\* A movement of another kind moves one shelf, and no further down than what is reserved.
LEMMA MoveStep ==
  ASSUME IndInv, IndInv', NEW k \in Lot, NEW d \in Int, Post(k, d)
  PROVE  [Promise!Next]_(Promise!promiseVars)
<1> DEFINE Shelf == [j \in Lot |-> bal[j].quantity]
           Counter == [j \in Lot |-> bal[j].reserved]
<1>1. /\ bal' = [bal EXCEPT ![k] = Moved(bal[k], d)] /\ bal \in [Lot -> BalanceType]
      /\ Claims' = Claims
  BY DEF Post, IndInv, TypeOK, Claims
<1>2. /\ \A j \in Lot : bal'[j].reserved = bal[j].reserved
      /\ \A j \in Lot \ {k} : bal'[j].quantity = bal[j].quantity
  BY <1>1 DEF Moved
<1>3. Counter' = Counter /\ \A j \in Lot \ {k} : Shelf'[j] = Shelf[j]
  BY <1>2
<1>4. Promise!Backed'
  BY ClaimsBackedAfter DEF ClaimsBacked
<1>5. CASE Shelf'[k] # Shelf[k]
  BY <1>1, <1>3, <1>4, <1>5 DEF Promise!Next, Promise!Move, Claims
<1>6. CASE Shelf'[k] = Shelf[k]
  <2>1. \A j \in Lot : Shelf'[j] = Shelf[j]
    BY <1>3, <1>6
  <2>2. Shelf' = Shelf
    BY <2>1
  <2> QED BY <1>1, <1>3, <2>2 DEF Promise!promiseVars, Claims
<1> QED BY <1>5, <1>6

LEMMA PromiseStep ==
  ASSUME IndInv, IndInv', [Next]_vars
  PROVE  [Promise!Next]_(Promise!promiseVars)
<1>1. ASSUME NEW k \in Lot, NEW q \in Quantity, StockStep(k, q)
      PROVE  [Promise!Next]_(Promise!promiseVars)
  <2>1. q \in Int /\ -q \in Int
    BY QuantityAssumption
  <2>2. Post(k, q) \/ Post(k, -q)
    BY <1>1 DEF StockStep, IssueStock, IncreaseStock, DecreaseStock
  <2> QED BY <2>1, <2>2, MoveStep
<1>2. ASSUME NEW o \in Order, ReserveMaterials(o) \/ IssueMaterials(o) \/ Cancel(o)
      PROVE  [Promise!Next]_(Promise!promiseVars)
  BY <1>2, ClaimStep DEF ReserveMaterials, IssueMaterials, Cancel
<1>3. ASSUME NEW m \in Line, SaveLine(m) PROVE [Promise!Next]_(Promise!promiseVars)
  <2>1. posted' = posted
    BY <1>3 DEF SaveLine, stockVars
  <2> QED BY <1>3, <2>1, EditRows, ClaimStep
<1>4. ASSUME UNCHANGED <<line, bal, posted>> PROVE [Promise!Next]_(Promise!promiseVars)
  BY <1>4 DEF Promise!promiseVars
<1>5. ASSUME NEW o \in Order, OrderStep(o) PROVE [Promise!Next]_(Promise!promiseVars)
  BY <1>2, <1>4, <1>5 DEF OrderStep, Approve, Release, Start, Pause, Resume, Complete, Transition,
                          ReceiveOutputs, stockVars
<1>6. ASSUME \/ \E x \in Output : SaveOutput(x) \/ DisposeOutput(x)
             \/ EnvironmentStep \/ UNCHANGED vars
      PROVE  UNCHANGED <<line, bal, posted>>
  BY <1>6 DEF SaveOutput, DisposeOutput, EnvironmentStep, Expire, Redate, ToggleAddress,
              ToggleMaster, vars, stockVars
<1> QED BY <1>1, <1>3, <1>4, <1>5, <1>6 DEF Next

\* The allocations of any number of orders on shared lots implement the abstract
\* specification of a reservation.
THEOREM ReservationsAsPromised == Spec => ReservationPromiseKept
<1>1. Init => Promise!Init
  <2> SUFFICES ASSUME Init PROVE Promise!Init
    OBVIOUS
  <2>1. \A l \in Line : ClaimOf(line[l]) = Promise!NoClaim
    BY DEF Init, AbsentLine, ClaimOf, Promise!NoClaim
  <2>2. \A k \in Lot : bal[k].quantity \in Nat /\ bal[k].reserved = 0
    BY QuantityAssumption DEF Init
  <2> QED BY <2>1, <2>2 DEF Promise!Init, Promise!Row, Line
<1>2. IndInv /\ IndInv' /\ [Next]_vars => [Promise!Next]_(Promise!promiseVars)
  BY PromiseStep
<1> QED BY <1>1, <1>2, Invariance, PTL DEF Spec, ReservationPromiseKept, Promise!Spec
=============================================================================
