-------------------------- MODULE Settlement_proofs --------------------------
(***************************************************************************)
(* Proofs about Settlement, for any titles, accounts, amounts and charges  *)
(* and any number of settlements.                                          *)
(***************************************************************************)
EXTENDS Settlement, Summation_proofs

USE LedgerAssumption

\* A row of the ledger names a title that was made out, and an account.
RowPosted(r) ==
  r.status # "free" =>
    /\ r.title \in Title /\ r.account \in Account
    /\ r.amount > 0
    /\ title[r.title].status # "absent"

RowsPosted == \A i \in Row : RowPosted(settlement[i])

\* The inductive invariant.  A reversal finds its amount among the paid ones only because
\* the sum of the active settlements is kept, and a settlement its title open only
\* because what is open and what is paid add up.
IndInv ==
  /\ SettlementTypeOK
  /\ RowsPosted
  /\ PaidIsSettled
  /\ AccountLedger
  /\ StatusTellsPaid

-----------------------------------------------------------------------------
(* Sums over the rows of a title and of an account *)

\* The part of one row in what a title was paid and what an account was moved.
PaidBy(t, r) == IF r.status = "active" /\ r.title = t THEN r.amount ELSE 0
MovedBy(a, r) ==
  IF r.status = "active" /\ r.account = a THEN Signed(title[r.title].kind, r.net) ELSE 0

\* The shares are natural numbers and integers, before a step and after it.
LEMMA ShareType ==
  ASSUME NEW rows, NEW titles,
         \A i \in Row : rows[i].amount \in Nat /\ rows[i].net \in Nat
  PROVE  /\ RowCount \in Nat
         /\ \A t : /\ ShareOfTitle(t, rows) \in [1..RowCount -> Nat]
                  /\ ShareOfTitle(t, rows) \in [1..RowCount -> Int]
         /\ \A a : ShareOfAccount(a, rows, titles) \in [1..RowCount -> Int]
<1>1. \A t : ShareOfTitle(t, rows) \in [1..RowCount -> Nat]
  BY DEF ShareOfTitle, Row
<1>2. \A a : \A i \in Row : ShareOfAccount(a, rows, titles)[i] \in Int
  BY DEF ShareOfAccount, Signed
<1>3. \A a : ShareOfAccount(a, rows, titles) \in [1..RowCount -> Int]
  BY <1>2 DEF ShareOfAccount, Row
<1> QED BY <1>1, <1>3

\* The amounts of a well-typed table.
LEMMA Amounts ==
  ASSUME SettlementTypeOK
  PROVE  \A i \in Row : settlement[i].amount \in Nat /\ settlement[i].net \in Nat
BY DEF SettlementTypeOK, SettlementRow

\* The sums are integers, and no active settlement exceeds what its title was paid.
LEMMA SumType ==
  ASSUME SettlementTypeOK
  PROVE  /\ \A t : Settled(t) \in Nat
         /\ \A a : Moved(a) \in Int
         /\ \A t : \A i \in Row : PaidBy(t, settlement[i]) <= Settled(t)
<1>1. \A t : Settled(t) \in Nat
  BY Amounts, ShareType, TotalNat DEF Settled
<1>2. \A a : Moved(a) \in Int
  BY Amounts, ShareType, TotalInt DEF Moved
<1>3. ASSUME NEW t, NEW i \in Row PROVE PaidBy(t, settlement[i]) <= Settled(t)
  <2>1. ShareOfTitle(t, settlement)[i] <= Settled(t)
    BY Amounts, ShareType, TotalBoundsShare DEF Settled, Row
  <2> QED BY <2>1 DEF ShareOfTitle, PaidBy
<1> QED BY <1>1, <1>2, <1>3

\* A step that writes one row and keeps the direction of every title that has an active
\* settlement changes the sums by what the row gains.
LEMMA RowChange ==
  ASSUME SettlementTypeOK, SettlementTypeOK',
         NEW i \in Row, NEW r, settlement' = [settlement EXCEPT ![i] = r],
         \A j \in Row : settlement[j].status # "free" =>
           title'[settlement[j].title].kind = title[settlement[j].title].kind
  PROVE  /\ \A t : Settled(t)' = Settled(t) + PaidBy(t, r) - PaidBy(t, settlement[i])
         /\ \A a : Moved(a)' = Moved(a) + MovedBy(a, r)' - MovedBy(a, settlement[i])
<1>0. \A j \in Row : /\ settlement[j].amount \in Nat /\ settlement[j].net \in Nat
                      /\ settlement'[j].amount \in Nat /\ settlement'[j].net \in Nat
  BY DEF SettlementTypeOK, SettlementRow
<1>1. /\ settlement'[i] = r
      /\ \A j \in Row : j # i => settlement'[j] = settlement[j]
  BY DEF SettlementTypeOK, SettlementRow
<1>2. ASSUME NEW t
      PROVE  Settled(t)' = Settled(t) + PaidBy(t, r) - PaidBy(t, settlement[i])
  <2> DEFINE f == ShareOfTitle(t, settlement)
             g == ShareOfTitle(t, settlement')
  <2>1. f \in [1..RowCount -> Int] /\ g \in [1..RowCount -> Int]
    BY <1>0, ShareType
  <2>2. \A j \in 1..RowCount : j # i => g[j] = f[j]
    BY <1>1 DEF ShareOfTitle, Row
  <2>3. f[i] = PaidBy(t, settlement[i]) /\ g[i] = PaidBy(t, r)
    BY <1>1 DEF ShareOfTitle, PaidBy
  <2>4. i \in 1..RowCount /\ RowCount \in Nat
    BY DEF Row
  <2> HIDE DEF f, g
  <2>5. Total(g, RowCount) = Total(f, RowCount) + g[i] - f[i]
    BY ONLY <2>1, <2>2, <2>4, TotalPoint
  <2> QED BY <2>3, <2>5 DEF Settled, f, g
<1>3. ASSUME NEW a
      PROVE  Moved(a)' = Moved(a) + MovedBy(a, r)' - MovedBy(a, settlement[i])
  <2> DEFINE f == ShareOfAccount(a, settlement, title)
             g == ShareOfAccount(a, settlement', title')
  <2>1. f \in [1..RowCount -> Int] /\ g \in [1..RowCount -> Int]
    BY <1>0, ShareType
  <2>2. \A j \in 1..RowCount : j # i => g[j] = f[j]
    BY <1>1 DEF ShareOfAccount, Signed, Row
  <2>3. f[i] = MovedBy(a, settlement[i]) /\ g[i] = MovedBy(a, r)'
    BY <1>1 DEF ShareOfAccount, MovedBy
  <2>4. i \in 1..RowCount /\ RowCount \in Nat
    BY DEF Row
  <2> HIDE DEF f, g
  <2>5. Total(g, RowCount) = Total(f, RowCount) + g[i] - f[i]
    BY ONLY <2>1, <2>2, <2>4, TotalPoint
  <2> QED BY <2>3, <2>5 DEF Moved, f, g
<1> QED BY <1>2, <1>3

\* A step that writes no row, and keeps those directions, keeps the sums.
LEMMA RowsKept ==
  ASSUME settlement' = settlement,
         \A j \in Row : settlement[j].status # "free" =>
           title'[settlement[j].title].kind = title[settlement[j].title].kind
  PROVE  /\ \A t : Settled(t)' = Settled(t)
         /\ \A a : Moved(a)' = Moved(a)
<1>1. \A a : ShareOfAccount(a, settlement', title') = ShareOfAccount(a, settlement, title)
  BY DEF ShareOfAccount, Signed
<1> QED BY <1>1 DEF Settled, Moved, ShareOfTitle

\* A title without settlements was paid nothing.
LEMMA NothingSettled ==
  ASSUME SettlementTypeOK, NEW t, SettlementsOf(t) = {}
  PROVE  Settled(t) = 0
<1>1. \A i \in 1..RowCount : ShareOfTitle(t, settlement)[i] = 0
  BY DEF ShareOfTitle, SettlementsOf, Row
<1> QED BY <1>1, Amounts, ShareType, TotalZero DEF Settled

-----------------------------------------------------------------------------
(* The initial states *)

LEMMA InitInv == Init => IndInv
<1> SUFFICES ASSUME Init PROVE IndInv
  OBVIOUS
<1>1. SettlementTypeOK
  <2>1. AbsentTitle \in TitleRow /\ FreeRow \in SettlementRow
    BY DEF AbsentTitle, TitleRow, TitleStatus, Kind, FreeRow, SettlementRow
  <2>2. account \in [Account -> [opening : Int, balance : Int]]
    <3>1. {[opening |-> v, balance |-> v] : v \in Opening} \subseteq [opening : Int, balance : Int]
      OBVIOUS
    <3> QED BY <3>1 DEF Init
  <2> QED BY <2>1, <2>2 DEF Init, SettlementTypeOK
<1>2. \A i \in Row : settlement[i].status = "free"
  BY DEF Init, FreeRow
<1>3. RowsPosted
  BY <1>2 DEF RowsPosted, RowPosted
<1>4. \A t \in Title : Settled(t) = 0
  BY <1>1, <1>2, NothingSettled DEF SettlementsOf
<1>5. \A a : Moved(a) = 0
  <2>1. \A a : \A i \in 1..RowCount : ShareOfAccount(a, settlement, title)[i] = 0
    BY <1>2 DEF ShareOfAccount, Row
  <2> QED BY <1>1, <2>1, Amounts, ShareType, TotalZero DEF Moved
<1>6. PaidIsSettled
  BY <1>4 DEF PaidIsSettled, Init, AbsentTitle
<1>7. AccountLedger
  <2>1. \A a \in Account : account[a].opening = account[a].balance /\ account[a].balance \in Int
    BY <1>1 DEF Init, SettlementTypeOK
  <2> QED BY <1>5, <2>1 DEF AccountLedger
<1>8. StatusTellsPaid
  BY DEF StatusTellsPaid, TellsPaid, Init, AbsentTitle
<1> QED BY <1>1, <1>3, <1>6, <1>7, <1>8 DEF IndInv

-----------------------------------------------------------------------------
(* Steps that write a title *)

\* A step that writes one title, and neither a settlement nor an account, keeps the
\* invariant if the title keeps what it was paid, adds up, has a status that tells so, and
\* keeps its direction once it has a settlement.
LEMMA TitleStep ==
  ASSUME IndInv,
         NEW t \in Title, NEW r \in TitleRow,
         title' = [title EXCEPT ![t] = r],
         UNCHANGED <<settlement, account, closed>>,
         r.status # "absent",
         r.paid = title[t].paid,
         r.open + r.paid = r.original,
         TellsPaid(r),
         SettlementsOf(t) # {} => r.kind = title[t].kind
  PROVE  IndInv'
<1> USE DEF IndInv
<1>1. SettlementTypeOK'
  BY DEF SettlementTypeOK
<1>2. title'[t] = r /\ \A u \in Title : u # t => title'[u] = title[u]
  BY DEF SettlementTypeOK
<1>3. RowsPosted'
  BY <1>2 DEF RowsPosted, RowPosted
<1>4. \A j \in Row : settlement[j].status # "free" =>
        title'[settlement[j].title].kind = title[settlement[j].title].kind
  BY <1>2 DEF RowsPosted, RowPosted, SettlementsOf
<1>5. /\ \A u : Settled(u)' = Settled(u)
      /\ \A a : Moved(a)' = Moved(a)
  BY <1>4, RowsKept
<1>6. PaidIsSettled'
  <2>1. SUFFICES ASSUME NEW u \in Title
                 PROVE  /\ title'[u].paid = Settled(u)
                        /\ title'[u].open + title'[u].paid = title'[u].original
    BY <1>5 DEF PaidIsSettled
  <2> QED BY <1>2 DEF PaidIsSettled
<1>7. AccountLedger'
  BY <1>5 DEF AccountLedger
<1>8. StatusTellsPaid'
  BY <1>2 DEF StatusTellsPaid, TellsPaid
<1> QED BY <1>1, <1>3, <1>6, <1>7, <1>8

LEMMA CreateTitleInv ==
  ASSUME IndInv, NEW t \in Title, CreateTitle(t)
  PROVE  IndInv'
<1>1. PICK k \in Kind, v \in Original, s \in {"pending", "approved"} :
        /\ title[t].status = "absent"
        /\ v > 0
        /\ title' = [title EXCEPT ![t] = [status |-> s, kind |-> k,
                                          original |-> v, paid |-> 0, open |-> v]]
        /\ UNCHANGED <<settlement, account, closed>>
  BY DEF CreateTitle
<1> DEFINE r == [status |-> s, kind |-> k, original |-> v, paid |-> 0, open |-> v]
<1>2. r \in TitleRow
  BY <1>1 DEF TitleRow, TitleStatus
<1>3. title[t].paid = 0
  BY <1>1 DEF IndInv, StatusTellsPaid, TellsPaid
<1>4. SettlementsOf(t) = {}
  BY <1>1 DEF IndInv, RowsPosted, RowPosted, SettlementsOf
<1>5. r.status # "absent" /\ r.paid = title[t].paid /\ r.open + r.paid = r.original /\ TellsPaid(r)
  BY <1>2, <1>3 DEF TellsPaid, TitleRow
<1>6. title' = [title EXCEPT ![t] = r]
  BY <1>1
<1> HIDE DEF r
<1> QED BY <1>1, <1>2, <1>4, <1>5, <1>6, TitleStep

LEMMA EditTitleInv ==
  ASSUME IndInv, NEW t \in Title, EditTitle(t)
  PROVE  IndInv'
<1>1. PICK k \in Kind, v \in Original :
        /\ title[t].status # "absent"
        /\ SettlementsOf(t) = {}
        /\ v > 0 /\ v >= title[t].paid
        /\ title' = [title EXCEPT ![t].kind = k, ![t].original = v,
                                  ![t].open = v - title[t].paid]
        /\ UNCHANGED <<settlement, account, closed>>
  BY DEF EditTitle, EconomyOpen
<1> DEFINE r == [title[t] EXCEPT !.kind = k, !.original = v, !.open = v - title[t].paid]
<1>2. title[t] \in TitleRow
  BY DEF IndInv, SettlementTypeOK
<1>3. title[t].paid = 0
  BY <1>1, NothingSettled DEF IndInv, PaidIsSettled
<1>4. r \in TitleRow
  <2>1. v \in Nat /\ v - title[t].paid \in Nat
    BY <1>1, <1>3
  <2> QED BY <1>2, <2>1 DEF TitleRow
<1>5. r.status # "absent" /\ r.paid = title[t].paid /\ r.open + r.paid = r.original
  BY <1>1, <1>2, <1>3 DEF TitleRow
<1>6. TellsPaid(r)
  <2>1. title[t].status \notin {"settled", "partially_settled"}
    BY <1>3, <1>2 DEF IndInv, StatusTellsPaid, TellsPaid, TitleRow
  <2> QED BY <2>1, <1>2, <1>3 DEF TellsPaid, TitleRow
<1>7. title' = [title EXCEPT ![t] = r]
  BY <1>1 DEF IndInv, SettlementTypeOK
<1> HIDE DEF r
<1> QED BY <1>1, <1>4, <1>5, <1>6, <1>7, TitleStep

\* Approval, cancellation and the passing of the due date change the status alone, among
\* those of a title that is not paid.
LEMMA StatusStepInv ==
  ASSUME IndInv, NEW t \in Title, Approve(t) \/ Cancel(t) \/ MarkOverdue(t)
  PROVE  IndInv'
<1>1. PICK s \in {"approved", "cancelled", "overdue"} :
        /\ title[t].status \in {"pending", "approved", "overdue"}
        /\ title' = [title EXCEPT ![t].status = s]
        /\ UNCHANGED <<settlement, account, closed>>
  BY DEF Approve, Cancel, Cancellable, MarkOverdue
<1> DEFINE r == [title[t] EXCEPT !.status = s]
<1>2. title[t] \in TitleRow
  BY DEF IndInv, SettlementTypeOK
<1>3. title[t].paid = 0
  BY <1>1 DEF IndInv, StatusTellsPaid, TellsPaid
<1>4. r \in TitleRow /\ r.status = s /\ r.kind = title[t].kind
      /\ r.paid = title[t].paid /\ r.open = title[t].open /\ r.original = title[t].original
  BY <1>2 DEF TitleRow, TitleStatus
<1>5. r.status # "absent" /\ TellsPaid(r)
  BY <1>3, <1>4 DEF TellsPaid
<1>6. r.open + r.paid = r.original
  BY <1>4 DEF IndInv, PaidIsSettled
<1>7. title' = [title EXCEPT ![t] = r]
  BY <1>1 DEF IndInv, SettlementTypeOK
<1> HIDE DEF r
<1> QED BY <1>1, <1>4, <1>5, <1>6, <1>7, TitleStep

-----------------------------------------------------------------------------
(* Steps that write a settlement *)

\* Amounts of an active settlement and of its title.
LEMMA ActiveRow ==
  ASSUME IndInv, NEW i \in Row, settlement[i].status = "active"
  PROVE  /\ settlement[i].title \in Title /\ settlement[i].account \in Account
         /\ settlement[i].amount \in Nat /\ settlement[i].amount > 0
         /\ settlement[i].amount <= title[settlement[i].title].paid
         /\ title[settlement[i].title].paid <= title[settlement[i].title].original
         /\ title[settlement[i].title].status # "absent"
<1> DEFINE t == settlement[i].title
<1>1. t \in Title /\ settlement[i].account \in Account /\ settlement[i].amount > 0
      /\ title[t].status # "absent"
  BY DEF IndInv, RowsPosted, RowPosted
<1>2. settlement[i].amount \in Nat /\ title[t] \in TitleRow
  BY <1>1 DEF IndInv, SettlementTypeOK, SettlementRow
<1>3. PaidBy(t, settlement[i]) <= Settled(t)
  BY SumType DEF IndInv
<1>4. settlement[i].amount <= title[t].paid
  BY <1>1, <1>3 DEF PaidBy, IndInv, PaidIsSettled
<1>5. title[t].paid <= title[t].original
  BY <1>1, <1>2 DEF TitleRow, IndInv, PaidIsSettled
<1> QED BY <1>1, <1>2, <1>4, <1>5

\* A step writes row i, of title t and account a, and adds v to what the title was paid
\* and w to the account.
LedgerStep(i, t, a, r, v, w) ==
  /\ settlement' = [settlement EXCEPT ![i] = r]
  /\ r.title = t /\ r.account = a /\ r.amount > 0
  /\ settlement[i].status # "free" => settlement[i].title = t /\ settlement[i].account = a
  /\ \A u \in Title : u # t => title'[u] = title[u]
  /\ title[t].status # "absent" /\ title'[t].status # "absent"
  /\ title'[t].kind = title[t].kind /\ title'[t].original = title[t].original
  /\ title'[t].paid = title[t].paid + v
  /\ title'[t].open + title'[t].paid = title'[t].original
  /\ TellsPaid(title'[t])
  /\ \A b \in Account : account'[b].opening = account[b].opening
  /\ \A b \in Account : b # a => account'[b].balance = account[b].balance
  /\ account'[a].balance = account[a].balance + w

\* Such a step keeps the invariant if the row gains v and w.
LEMMA RowStep ==
  ASSUME IndInv, SettlementTypeOK',
         NEW i \in Row, NEW t \in Title, NEW a \in Account, NEW r,
         NEW v \in Int, NEW w \in Int,
         LedgerStep(i, t, a, r, v, w),
         v = PaidBy(t, r) - PaidBy(t, settlement[i]),
         w = MovedBy(a, r) - MovedBy(a, settlement[i])
  PROVE  IndInv'
<1> USE DEF LedgerStep
<1> USE DEF IndInv
<1>1. settlement'[i] = r /\ \A j \in Row : j # i => settlement'[j] = settlement[j]
  BY DEF SettlementTypeOK
<1>2. RowsPosted'
  BY <1>1 DEF RowsPosted, RowPosted
<1>3. \A j \in Row : settlement[j].status # "free" =>
        title'[settlement[j].title].kind = title[settlement[j].title].kind
  BY DEF RowsPosted, RowPosted
<1>4. /\ \A u : Settled(u)' = Settled(u) + PaidBy(u, r) - PaidBy(u, settlement[i])
      /\ \A b : Moved(b)' = Moved(b) + MovedBy(b, r)' - MovedBy(b, settlement[i])
  BY <1>3, RowChange
<1>5. /\ \A u \in Title : Settled(u) \in Int
      /\ \A b : Moved(b) \in Int
  BY SumType
<1>6. \A u \in Title : u # t => PaidBy(u, r) = 0 /\ PaidBy(u, settlement[i]) = 0
  BY DEF PaidBy
<1>7. \A b \in Account : b # a => MovedBy(b, r)' = 0 /\ MovedBy(b, settlement[i]) = 0
  BY DEF MovedBy
<1>8. MovedBy(a, r)' = MovedBy(a, r)
  BY DEF MovedBy
<1>9. /\ PaidBy(t, r) \in Int /\ PaidBy(t, settlement[i]) \in Int
      /\ MovedBy(a, r) \in Int /\ MovedBy(a, settlement[i]) \in Int
  <2>1. r.amount \in Int /\ r.net \in Int
        /\ settlement[i].amount \in Int /\ settlement[i].net \in Int
    BY <1>1 DEF SettlementTypeOK, SettlementRow
  <2> QED BY <2>1 DEF PaidBy, MovedBy, Signed
<1>10. PaidIsSettled'
  <2>1. SUFFICES ASSUME NEW u \in Title
                 PROVE  /\ title'[u].paid = Settled(u)'
                        /\ title'[u].open + title'[u].paid = title'[u].original
    BY DEF PaidIsSettled
  <2>2. CASE u = t
    <3>1. title[t].paid = Settled(t) /\ Settled(t) \in Int
      BY <1>5 DEF PaidIsSettled
    <3>2. Settled(t)' = Settled(t) + PaidBy(t, r) - PaidBy(t, settlement[i])
      BY <1>4
    <3>3. Settled(t)' = title[t].paid + v
      BY <3>1, <3>2, <1>9
    <3> QED BY <2>2, <3>3
  <2>3. CASE u # t
    <3>1. Settled(u)' = Settled(u)
      BY <1>4, <1>5, <1>6, <2>3
    <3> QED BY <2>3, <3>1 DEF PaidIsSettled
  <2> QED BY <2>2, <2>3
<1>11. AccountLedger'
  <2>1. SUFFICES ASSUME NEW b \in Account
                 PROVE  account'[b].balance = account'[b].opening + Moved(b)'
    BY DEF AccountLedger
  <2>2. /\ account[b].balance = account[b].opening + Moved(b)
        /\ account[b].opening \in Int /\ Moved(b) \in Int
        /\ account'[b].opening = account[b].opening
    BY <1>5 DEF AccountLedger, SettlementTypeOK
  <2>3. CASE b = a
    <3>1. Moved(a)' = Moved(a) + w
      <4>1. Moved(a)' = Moved(a) + MovedBy(a, r) - MovedBy(a, settlement[i])
        BY <1>4, <1>8
      <4>2. Moved(a) \in Int
        BY <1>5
      <4> QED BY <4>1, <4>2, <1>9
    <3>2. account'[a].balance = account[a].balance + w
      OBVIOUS
    <3> QED BY <2>2, <2>3, <3>1, <3>2
  <2>4. CASE b # a
    <3>1. Moved(b)' = Moved(b)
      BY <1>4, <1>5, <1>7, <2>4
    <3> QED BY <2>2, <2>4, <3>1
  <2> QED BY <2>3, <2>4
<1>12. StatusTellsPaid'
  BY DEF StatusTellsPaid, TellsPaid
<1> QED BY <1>2, <1>10, <1>11, <1>12

LEMMA RegisterInv ==
  ASSUME IndInv, NEW t \in Title, NEW a \in Account, NEW m \in Month, Register(t, a, m)
  PROVE  IndInv'
<1>1. PICK v \in Amount, c \in Charge, i \in Row :
        /\ title[t].status \in {"approved", "partially_settled"}
        /\ v > 0 /\ v + c >= 0 /\ v <= title[t].open
        /\ settlement[i].status = "free"
        /\ settlement' = [settlement EXCEPT ![i] =
             [status |-> "active", title |-> t, account |-> a, month |-> m,
              amount |-> v, net |-> v + c, reconciled |-> FALSE]]
        /\ LET paid == title[t].paid + v
               open == IF title[t].original > paid THEN title[t].original - paid ELSE 0
           IN  title' = [title EXCEPT
                 ![t].paid = paid, ![t].open = open,
                 ![t].status = IF open = 0 THEN "settled" ELSE "partially_settled"]
        /\ account' = [account EXCEPT ![a].balance = @ + Signed(title[t].kind, v + c)]
        /\ closed' = closed
  BY DEF Register, CleanSettlement, NextRow
<1> DEFINE r == [status |-> "active", title |-> t, account |-> a, month |-> m,
                 amount |-> v, net |-> v + c, reconciled |-> FALSE]
           paid == title[t].paid + v
           open == title[t].original - paid
           w == Signed(title[t].kind, v + c)
<1>2. v \in Nat /\ v + c \in Nat /\ w \in Int
  BY <1>1 DEF Signed
<1>3. /\ title[t] \in TitleRow /\ title[t].paid \in Nat /\ title[t].original \in Nat
      /\ title[t].open \in Nat
      /\ title[t].open + title[t].paid = title[t].original
  BY DEF IndInv, SettlementTypeOK, PaidIsSettled, TitleRow
<1>4. paid \in Nat /\ open \in Nat /\ paid > 0
      /\ (IF title[t].original > paid THEN title[t].original - paid ELSE 0) = open
  BY <1>1, <1>2, <1>3
<1> HIDE DEF paid, open, w
<1>5. title' = [title EXCEPT ![t].paid = paid, ![t].open = open,
                  ![t].status = IF open = 0 THEN "settled" ELSE "partially_settled"]
  BY <1>1, <1>4 DEF paid
<1>6. /\ title'[t].kind = title[t].kind /\ title'[t].original = title[t].original
      /\ title'[t].paid = paid /\ title'[t].open = open
      /\ title'[t].status = (IF open = 0 THEN "settled" ELSE "partially_settled")
      /\ \A u \in Title : u # t => title'[u] = title[u]
      /\ title' \in [Title -> TitleRow]
  <2> DEFINE q == [title[t] EXCEPT !.paid = paid, !.open = open,
                     !.status = IF open = 0 THEN "settled" ELSE "partially_settled"]
  <2>1. q \in TitleRow /\ q.kind = title[t].kind /\ q.original = title[t].original
        /\ q.paid = paid /\ q.open = open
        /\ q.status = (IF open = 0 THEN "settled" ELSE "partially_settled")
    BY <1>3, <1>4 DEF TitleRow, TitleStatus
  <2>2. title' = [title EXCEPT ![t] = q]
    BY <1>5 DEF IndInv, SettlementTypeOK
  <2> HIDE DEF q
  <2> QED BY <2>1, <2>2 DEF IndInv, SettlementTypeOK
<1>7. /\ account' \in [Account -> [opening : Int, balance : Int]]
      /\ \A b \in Account : account'[b].opening = account[b].opening
      /\ \A b \in Account : b # a => account'[b].balance = account[b].balance
      /\ account'[a].balance = account[a].balance + w
  BY <1>1, <1>2 DEF IndInv, SettlementTypeOK, w
<1>8. settlement' \in [Row -> SettlementRow] /\ settlement' = [settlement EXCEPT ![i] = r]
  <2>1. r \in SettlementRow
    BY <1>2 DEF SettlementRow
  <2> QED BY <1>1, <2>1 DEF IndInv, SettlementTypeOK
<1>9. SettlementTypeOK'
  <2>1. closed' = closed
    BY <1>1
  <2> QED BY <2>1, <1>6, <1>7, <1>8 DEF IndInv, SettlementTypeOK
<1>10. TellsPaid(title'[t])
  <2>1. open = 0 => paid = title[t].original
    BY <1>3, <1>4 DEF open
  <2>2. open # 0 => paid < title[t].original
    BY <1>3, <1>4 DEF open
  <2> QED BY <1>4, <1>6, <2>1, <2>2 DEF TellsPaid
<1>11. title'[t].paid = title[t].paid + v
       /\ title'[t].open + title'[t].paid = title'[t].original
       /\ title'[t].status # "absent"
  BY <1>2, <1>3, <1>4, <1>6 DEF paid, open
<1>12. r.title = t /\ r.account = a /\ r.amount > 0 /\ r.amount = v
       /\ r.status = "active" /\ r.net = v + c
  BY <1>1
<1>13. v = PaidBy(t, r) - PaidBy(t, settlement[i])
  BY <1>1, <1>2, <1>12 DEF PaidBy
<1>14. w = MovedBy(a, r) - MovedBy(a, settlement[i])
  BY <1>1, <1>2, <1>12 DEF MovedBy, w
<1>15. settlement[i].status = "free" /\ title[t].status # "absent"
  BY <1>1
<1> HIDE DEF r
<1>16. LedgerStep(i, t, a, r, v, w)
  BY <1>6, <1>7, <1>8, <1>10, <1>11, <1>12, <1>15 DEF LedgerStep
<1> QED BY <1>2, <1>9, <1>13, <1>14, <1>16, RowStep

LEMMA ReverseInv ==
  ASSUME IndInv, NEW i \in Row, Reverse(i)
  PROVE  IndInv'
<1> DEFINE t == settlement[i].title
           a == settlement[i].account
           v == settlement[i].amount
           w == Signed(title[t].kind, settlement[i].net)
           paid == title[t].paid - v
           r == [settlement[i] EXCEPT !.status = "reversed"]
<1>1. settlement[i].status = "active"
  BY DEF Reverse, Reversible
<1>2. /\ t \in Title /\ a \in Account /\ v \in Nat /\ v > 0 /\ v <= title[t].paid
      /\ title[t].paid <= title[t].original /\ title[t].status # "absent"
  BY <1>1, ActiveRow
<1>3. /\ title[t] \in TitleRow /\ title[t].paid \in Nat /\ title[t].original \in Nat
      /\ settlement[i] \in SettlementRow /\ settlement[i].net \in Nat
  BY <1>2 DEF IndInv, SettlementTypeOK, TitleRow, SettlementRow
<1>4. w \in Int /\ -w \in Int /\ -v \in Int
  BY <1>3, <1>2 DEF Signed
<1>5. paid \in Nat /\ title[t].original - paid \in Nat
      /\ (IF title[t].paid > v THEN title[t].paid - v ELSE 0) = paid
      /\ paid < title[t].original
  BY <1>2, <1>3
<1>6. /\ account' = [account EXCEPT ![a].balance = @ - w]
      /\ title' = [title EXCEPT ![t].paid = paid, ![t].open = title[t].original - paid,
                                ![t].status = StatusAfterReversal(paid)]
      /\ settlement' = [settlement EXCEPT ![i] = r]
      /\ closed' = closed
  BY <1>5 DEF Reverse, IndInv, SettlementTypeOK
<1>7. r \in SettlementRow /\ r.title = t /\ r.account = a /\ r.amount = v
      /\ r.status = "reversed" /\ r.net = settlement[i].net
  BY <1>3 DEF SettlementRow
<1> HIDE DEF t, a, v, w, paid, r
<1>8. /\ title'[t].kind = title[t].kind /\ title'[t].original = title[t].original
      /\ title'[t].paid = paid /\ title'[t].open = title[t].original - paid
      /\ title'[t].status = StatusAfterReversal(paid)
      /\ \A u \in Title : u # t => title'[u] = title[u]
      /\ title' \in [Title -> TitleRow]
  <2> DEFINE q == [title[t] EXCEPT !.paid = paid, !.open = title[t].original - paid,
                                   !.status = StatusAfterReversal(paid)]
  <2>1. q \in TitleRow /\ q.kind = title[t].kind /\ q.original = title[t].original
        /\ q.paid = paid /\ q.open = title[t].original - paid
        /\ q.status = StatusAfterReversal(paid)
    BY <1>3, <1>5 DEF TitleRow, TitleStatus, StatusAfterReversal
  <2>2. title' = [title EXCEPT ![t] = q]
    BY <1>6 DEF IndInv, SettlementTypeOK
  <2> HIDE DEF q
  <2> QED BY <1>2, <2>1, <2>2 DEF IndInv, SettlementTypeOK
<1>9. /\ account' \in [Account -> [opening : Int, balance : Int]]
      /\ \A b \in Account : account'[b].opening = account[b].opening
      /\ \A b \in Account : b # a => account'[b].balance = account[b].balance
      /\ account'[a].balance = account[a].balance + (-w)
  BY <1>2, <1>4, <1>6 DEF IndInv, SettlementTypeOK
<1>10. SettlementTypeOK'
  BY <1>6, <1>7, <1>8, <1>9 DEF IndInv, SettlementTypeOK
<1>11. TellsPaid(title'[t]) /\ title'[t].status # "absent"
  BY <1>5, <1>8 DEF TellsPaid, StatusAfterReversal
<1>12. title'[t].paid = title[t].paid + (-v)
       /\ title'[t].open + title'[t].paid = title'[t].original
  BY <1>2, <1>3, <1>5, <1>8 DEF paid
<1>13. -v = PaidBy(t, r) - PaidBy(t, settlement[i])
  BY <1>1, <1>2, <1>7 DEF PaidBy, t, v
<1>14. -w = MovedBy(a, r) - MovedBy(a, settlement[i])
  BY <1>1, <1>4, <1>7 DEF MovedBy, t, a, w
<1>15. settlement[i].title = t /\ settlement[i].account = a
  BY DEF t, a
<1>16. r.title = t /\ r.account = a /\ r.amount > 0
  BY <1>2, <1>7
<1>17. LedgerStep(i, t, a, r, -v, -w)
  BY <1>2, <1>6, <1>8, <1>9, <1>11, <1>12, <1>15, <1>16 DEF LedgerStep
<1> QED BY <1>2, <1>4, <1>10, <1>13, <1>14, <1>17, RowStep

\* A reconciliation adds nothing.
LEMMA ReconcileInv ==
  ASSUME IndInv, NEW i \in Row, Reconcile(i)
  PROVE  IndInv'
<1> DEFINE t == settlement[i].title
           a == settlement[i].account
           r == [settlement[i] EXCEPT !.reconciled = TRUE]
<1>1. settlement[i].status = "active" /\ UNCHANGED <<title, account, closed>>
  BY DEF Reconcile, Reconcilable
<1>2. /\ t \in Title /\ a \in Account /\ settlement[i].amount > 0
      /\ title[t].status # "absent"
  BY <1>1, ActiveRow
<1>3. settlement[i] \in SettlementRow
  BY DEF IndInv, SettlementTypeOK
<1>4. r \in SettlementRow /\ r.title = t /\ r.account = a
      /\ r.amount = settlement[i].amount /\ r.status = settlement[i].status
      /\ r.net = settlement[i].net
  BY <1>3 DEF SettlementRow
<1>5. settlement' = [settlement EXCEPT ![i] = r]
  BY DEF Reconcile, IndInv, SettlementTypeOK
<1> HIDE DEF t, a, r
<1>6. SettlementTypeOK'
  BY <1>1, <1>4, <1>5 DEF IndInv, SettlementTypeOK
<1>7. settlement[i].amount \in Nat /\ settlement[i].net \in Nat
  BY <1>3 DEF SettlementRow
<1>8. 0 = PaidBy(t, r) - PaidBy(t, settlement[i])
  BY <1>4, <1>7 DEF PaidBy, t
<1>9. 0 = MovedBy(a, r) - MovedBy(a, settlement[i])
  BY <1>4, <1>7 DEF MovedBy, Signed, a, t
<1>10. /\ title'[t] = title[t] /\ title[t].paid \in Nat
       /\ title[t].open + title[t].paid = title[t].original
       /\ TellsPaid(title'[t])
  BY <1>1, <1>2 DEF IndInv, SettlementTypeOK, PaidIsSettled, StatusTellsPaid, TitleRow
<1>11. account[a].balance \in Int /\ account' = account
  BY <1>1, <1>2 DEF IndInv, SettlementTypeOK
<1>12. title'[t].paid = title[t].paid + 0 /\ account'[a].balance = account[a].balance + 0
  BY <1>10, <1>11
<1>13. settlement[i].title = t /\ settlement[i].account = a
  BY DEF t, a
<1>14. LedgerStep(i, t, a, r, 0, 0)
  BY <1>1, <1>2, <1>4, <1>5, <1>10, <1>11, <1>12, <1>13 DEF LedgerStep
<1> QED BY <1>2, <1>6, <1>8, <1>9, <1>14, RowStep

-----------------------------------------------------------------------------
(* Steps that write neither *)

LEMMA EditOpeningInv ==
  ASSUME IndInv, NEW a \in Account, EditOpening(a)
  PROVE  IndInv'
<1> USE DEF IndInv
<1>1. PICK v \in Opening :
        /\ account' = [account EXCEPT ![a] =
             [opening |-> v, balance |-> account[a].balance + v - account[a].opening]]
        /\ UNCHANGED <<title, settlement, closed>>
  BY DEF EditOpening, Rebased
<1>2. v \in Int /\ account[a].balance \in Int /\ account[a].opening \in Int
  BY DEF SettlementTypeOK
<1>3. SettlementTypeOK'
  BY <1>1, <1>2 DEF SettlementTypeOK
<1>4. /\ \A t : Settled(t)' = Settled(t)
      /\ \A b : Moved(b)' = Moved(b)
  BY <1>1, RowsKept
<1>5. PaidIsSettled' /\ RowsPosted' /\ StatusTellsPaid'
  BY <1>1, <1>4 DEF PaidIsSettled, RowsPosted, RowPosted, StatusTellsPaid, TellsPaid
<1>6. AccountLedger'
  <2>1. SUFFICES ASSUME NEW b \in Account
                 PROVE  account'[b].balance = account'[b].opening + Moved(b)
    BY <1>4 DEF AccountLedger
  <2>2. account[b].balance = account[b].opening + Moved(b) /\ Moved(b) \in Int
    BY SumType DEF AccountLedger
  <2>3. CASE b = a
    <3>1. account'[a].balance = account[a].balance + v - account[a].opening
          /\ account'[a].opening = v
      BY <1>1 DEF SettlementTypeOK
    <3> QED BY <1>2, <2>2, <2>3, <3>1
  <2>4. CASE b # a
    <3>1. account'[b] = account[b]
      BY <1>1, <2>4 DEF SettlementTypeOK
    <3> QED BY <2>2, <3>1
  <2> QED BY <2>3, <2>4
<1> QED BY <1>3, <1>5, <1>6

LEMMA ClosingInv ==
  ASSUME IndInv, UNCHANGED <<title, settlement, account>>, closed' \subseteq Month
  PROVE  IndInv'
BY RowsKept DEF IndInv, SettlementTypeOK, RowsPosted, RowPosted, PaidIsSettled,
                AccountLedger, StatusTellsPaid, TellsPaid

-----------------------------------------------------------------------------
(* The theorems *)

LEMMA StepInv ==
  ASSUME IndInv, [Next]_vars
  PROVE  IndInv'
<1>1. ASSUME NEW t \in Title,
             CreateTitle(t) \/ EditTitle(t) \/ Approve(t) \/ Cancel(t) \/ MarkOverdue(t)
      PROVE  IndInv'
  BY <1>1, CreateTitleInv, EditTitleInv, StatusStepInv
<1>2. ASSUME NEW t \in Title, NEW a \in Account, NEW m \in Month, Register(t, a, m)
      PROVE  IndInv'
  BY <1>2, RegisterInv
<1>3. ASSUME NEW i \in Row, Reconcile(i) \/ Reverse(i)
      PROVE  IndInv'
  BY <1>3, ReconcileInv, ReverseInv
<1>4. ASSUME NEW a \in Account, EditOpening(a)
      PROVE  IndInv'
  BY <1>4, EditOpeningInv
<1>5. ASSUME NEW m \in Month, CloseOrReopen(m)
      PROVE  IndInv'
  <2>1. closed' \subseteq Month
    BY <1>5 DEF CloseOrReopen, IndInv, SettlementTypeOK
  <2> QED BY <1>5, <2>1, ClosingInv DEF CloseOrReopen
<1>6. CASE UNCHANGED vars
  <2>1. closed' \subseteq Month
    BY <1>6 DEF vars, IndInv, SettlementTypeOK
  <2> QED BY <1>6, <2>1, ClosingInv DEF vars
<1> QED BY <1>1, <1>2, <1>3, <1>4, <1>5, <1>6 DEF Next

\* The ledger keeps its invariant through every order of calls.
THEOREM Invariant == Spec => []IndInv
BY InitInv, StepInv, PTL DEF Spec

\* No full_clean lets a negative amount through (finance/models.py): of a title, a
\* settlement or its net amount.
THEOREM TypeCorrect == Spec => []SettlementTypeOK
<1>1. IndInv => SettlementTypeOK
  BY DEF IndInv
<1> QED BY <1>1, Invariant, PTL

\* A title shows as paid what its active settlements add up to, and the rest as open.
THEOREM PaidBalances == Spec => []PaidIsSettled
<1>1. IndInv => PaidIsSettled
  BY DEF IndInv
<1> QED BY <1>1, Invariant, PTL

\* An account has its opening balance and what active settlements moved.
THEOREM AccountBalances == Spec => []AccountLedger
<1>1. IndInv => AccountLedger
  BY DEF IndInv
<1> QED BY <1>1, Invariant, PTL

\* The status of a title tells whether it is paid.
THEOREM StatusTells == Spec => []StatusTellsPaid
<1>1. IndInv => StatusTellsPaid
  BY DEF IndInv
<1> QED BY <1>1, Invariant, PTL

\* A cancelled title has no active settlement.
THEOREM CancellationWins == Spec => []CancelledHasNoSettlement
<1>1. IndInv => CancelledHasNoSettlement
  <2>1. SUFFICES ASSUME IndInv, NEW t \in Title, title[t].status = "cancelled",
                        NEW i \in SettlementsOf(t)
                 PROVE  settlement[i].status = "reversed"
    BY DEF CancelledHasNoSettlement
  <2>2. i \in Row /\ settlement[i].title = t /\ settlement[i].status \in {"active", "reversed"}
    BY <2>1 DEF SettlementsOf, IndInv, SettlementTypeOK, SettlementRow
  <2>3. title[t].paid = 0
    BY <2>1 DEF IndInv, StatusTellsPaid, TellsPaid
  <2>4. settlement[i].status # "active"
    BY <2>1, <2>2, <2>3, ActiveRow
  <2> QED BY <2>2, <2>4
<1> QED BY <1>1, Invariant, PTL

\* Posted settlements change only by reconciliation and reversal, and what a title with
\* a settlement is about never changes.
THEOREM HistoryKept == Spec => PostedHistoryKept
<1>1. ASSUME IndInv, [Next]_vars, NEW i \in Row, settlement[i].status # "free"
      PROVE  Kept(i)
  <2> DEFINE s == settlement[i]
  <2>0. s.title \in Title /\ title \in [Title -> TitleRow] /\ settlement \in [Row -> SettlementRow]
    BY <1>1 DEF IndInv, RowsPosted, RowPosted, SettlementTypeOK
  <2>1. ASSUME NEW t \in Title, CreateTitle(t)
        PROVE  settlement'[i] = s /\ title'[s.title] = title[s.title]
    <3>1. s.title # t
      BY <1>1, <2>1 DEF CreateTitle, IndInv, RowsPosted, RowPosted
    <3> QED BY <2>0, <2>1, <3>1 DEF CreateTitle
  <2>2. ASSUME NEW t \in Title, EditTitle(t)
        PROVE  settlement'[i] = s /\ title'[s.title] = title[s.title]
    <3>1. s.title # t
      BY <1>1, <2>2 DEF EditTitle, EconomyOpen, SettlementsOf
    <3> QED BY <2>0, <2>2, <3>1 DEF EditTitle
  <2>3. ASSUME NEW t \in Title, Approve(t) \/ Cancel(t) \/ MarkOverdue(t)
        PROVE  /\ settlement'[i] = s
               /\ title'[s.title].kind = title[s.title].kind
               /\ title'[s.title].original = title[s.title].original
    <3>1. PICK x \in TitleStatus : settlement' = settlement /\ title' = [title EXCEPT ![t].status = x]
      BY <2>3 DEF Approve, Cancel, MarkOverdue, TitleStatus
    <3> QED BY <2>0, <3>1 DEF TitleRow
  <2>4. ASSUME NEW t \in Title, NEW a \in Account, NEW m \in Month, Register(t, a, m)
        PROVE  /\ settlement'[i] = s
               /\ title'[s.title].kind = title[s.title].kind
               /\ title'[s.title].original = title[s.title].original
    <3>1. PICK v \in Amount, c \in Charge, j \in Row :
            /\ settlement[j].status = "free"
            /\ settlement' = [settlement EXCEPT ![j] =
                 [status |-> "active", title |-> t, account |-> a, month |-> m,
                  amount |-> v, net |-> v + c, reconciled |-> FALSE]]
            /\ LET paid == title[t].paid + v
                   open == IF title[t].original > paid THEN title[t].original - paid ELSE 0
               IN  title' = [title EXCEPT
                     ![t].paid = paid, ![t].open = open,
                     ![t].status = IF open = 0 THEN "settled" ELSE "partially_settled"]
      BY <2>4 DEF Register, NextRow
    <3>2. settlement'[i] = s
      BY <1>1, <2>0, <3>1
    <3> QED BY <2>0, <3>1, <3>2 DEF TitleRow
  <2>5. ASSUME NEW j \in Row, Reconcile(j)
        PROVE  /\ \/ settlement'[i] = s
                  \/ s.status = "active" /\ settlement'[i] = [s EXCEPT !.reconciled = TRUE]
               /\ title' = title
    BY <2>0, <2>5 DEF Reconcile, Reconcilable
  <2>6. ASSUME NEW j \in Row, Reverse(j)
        PROVE  /\ \/ settlement'[i] = s
                  \/ s.status = "active" /\ settlement'[i] = [s EXCEPT !.status = "reversed"]
               /\ title'[s.title].kind = title[s.title].kind
               /\ title'[s.title].original = title[s.title].original
    <3>1. PICK t, paid, open, x :
            title' = [title EXCEPT ![t].paid = paid, ![t].open = open, ![t].status = x]
      BY <2>6 DEF Reverse
    <3> QED BY <2>0, <2>6, <3>1 DEF Reverse, Reversible, TitleRow
  <2>7. ASSUME UNCHANGED <<title, settlement>> PROVE Kept(i)
    BY <2>7 DEF Kept
  <2>8. ASSUME NEW t \in Title,
               CreateTitle(t) \/ EditTitle(t) \/ Approve(t) \/ Cancel(t) \/ MarkOverdue(t)
        PROVE  Kept(i)
    BY <2>1, <2>2, <2>3, <2>8 DEF Kept
  <2>9. ASSUME NEW j \in Row, Reconcile(j) \/ Reverse(j)
        PROVE  Kept(i)
    BY <2>5, <2>6, <2>9 DEF Kept
  <2>10. ASSUME NEW t \in Title, NEW a \in Account, NEW m \in Month, Register(t, a, m)
         PROVE  Kept(i)
    BY <2>4, <2>10 DEF Kept
  <2>11. CASE Next
    BY <2>7, <2>8, <2>9, <2>10, <2>11 DEF Next, EditOpening, CloseOrReopen
  <2>12. CASE UNCHANGED vars
    BY <2>7, <2>12 DEF vars
  <2> QED BY <1>1, <2>11, <2>12
<1>2. IndInv /\ [Next]_vars =>
        [\A i \in Row : settlement[i].status # "free" => Kept(i)]_vars
  BY <1>1
<1> QED BY <1>2, Invariant, PTL DEF Spec, PostedHistoryKept

=============================================================================
