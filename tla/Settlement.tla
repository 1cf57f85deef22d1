----------------------------- MODULE Settlement -----------------------------
(***************************************************************************)
(* The financial ledger (finance/models.py): titles to pay and to receive, *)
(* the settlements registered against them and reversed, and the accounts  *)
(* they move.  Every operation locks the title, then the settlement, then  *)
(* the account, decides by the locked rows and holds them to its commit:   *)
(* one action is one transaction.  A save of a title or an account is a    *)
(* patch of the changed fields on the locked row (LockedFinanceEditMixin), *)
(* so an edit may set its fields to any value.                             *)
(* Abstracted: amounts are small integers, interest and penalty less       *)
(* discount are one charge, a date is the month it falls in, and due dates *)
(* pass at any time.  The closing of a month is the environment: a         *)
(* transaction reads it without a lock, here at its commit.                *)
(***************************************************************************)
EXTENDS Summation

CONSTANTS Title, Account, Month,
          RowCount,   \* bound: the settlements that can be registered
          Original,   \* the amounts titles are made out for
          Amount,     \* the amounts users settle
          Charge,     \* interest and penalty less discount
          Opening     \* the opening balances of accounts

ASSUME LedgerAssumption ==
  /\ RowCount \in Nat
  /\ Original \subseteq Int /\ Amount \subseteq Int
  /\ Charge \subseteq Int /\ Opening \subseteq Int

VARIABLES title,       \* FinancialTitle rows
          settlement,  \* FinancialSettlement rows, in the order of their keys
          account,     \* FinancialAccount rows
          closed       \* months whose FinancialPeriodClosing is closed

vars == <<title, settlement, account, closed>>

Row == 1..RowCount
Kind == {"payable", "receivable"}
TitleStatus == {"absent", "pending", "approved", "overdue",
                "partially_settled", "settled", "cancelled"}
TitleRow == [status : TitleStatus, kind : Kind, original : Nat, paid : Nat, open : Nat]
SettlementRow == [status : {"free", "active", "reversed"},
                  title : Title \cup {"none"}, account : Account \cup {"none"},
                  month : Month \cup {"none"},
                  amount : Nat, net : Nat, reconciled : BOOLEAN]

AbsentTitle ==
  [status |-> "absent", kind |-> "payable", original |-> 0, paid |-> 0, open |-> 0]
FreeRow == [status |-> "free", title |-> "none", account |-> "none", month |-> "none",
            amount |-> 0, net |-> 0, reconciled |-> FALSE]

\* No full_clean lets a negative amount through; only an account may be overdrawn.
SettlementTypeOK ==
  /\ title \in [Title -> TitleRow]
  /\ settlement \in [Row -> SettlementRow]
  /\ account \in [Account -> [opening : Int, balance : Int]]
  /\ closed \subseteq Month

Init ==
  /\ title = [t \in Title |-> AbsentTitle]
  /\ settlement = [i \in Row |-> FreeRow]
  /\ account \in [Account -> {[opening |-> v, balance |-> v] : v \in Opening}]
  /\ closed = {}

SettlementsOf(t) == {i \in Row : settlement[i].status # "free" /\ settlement[i].title = t}
MovementsOf(a) == {i \in Row : settlement[i].status # "free" /\ settlement[i].account = a}

\* FinancialTitle.cash_direction with the amount that moves.
Signed(kind, v) == IF kind = "receivable" THEN v ELSE -v

-----------------------------------------------------------------------------
(* Titles and accounts *)

\* save() of a new title, which may be approved at once.
CreateTitle(t) == \E k \in Kind, v \in Original, s \in {"pending", "approved"} :
  /\ title[t].status = "absent"
  /\ v > 0
  /\ title' = [title EXCEPT ![t] = [status |-> s, kind |-> k,
                                    original |-> v, paid |-> 0, open |-> v]]
  /\ UNCHANGED <<settlement, account, closed>>

EconomyOpen_Reversed(t) == \A i \in SettlementsOf(t) : settlement[i].status = "reversed"
EconomyOpen_Always(t) == TRUE
\* What a title is about may change until its first settlement, even a reversed one.
EconomyOpen(t) == SettlementsOf(t) = {}

EditTitle(t) == \E k \in Kind, v \in Original :
  /\ title[t].status # "absent"
  /\ <<k, v>> # <<title[t].kind, title[t].original>>
  /\ EconomyOpen(t)
  /\ v > 0 /\ v >= title[t].paid
  /\ title' = [title EXCEPT ![t].kind = k, ![t].original = v,
                            ![t].open = v - title[t].paid]
  /\ UNCHANGED <<settlement, account, closed>>

Approve(t) ==
  /\ title[t].status \in {"pending", "overdue"}
  /\ title' = [title EXCEPT ![t].status = "approved"]
  /\ UNCHANGED <<settlement, account, closed>>

Cancellable(t) ==
  /\ title[t].status \in {"pending", "approved", "overdue"}
  /\ \A i \in SettlementsOf(t) : settlement[i].status # "active"

Cancel(t) ==
  /\ Cancellable(t)
  /\ title' = [title EXCEPT ![t].status = "cancelled"]
  /\ UNCHANGED <<settlement, account, closed>>

\* The due date has passed.
MarkOverdue(t) ==
  /\ title[t].status \in {"pending", "approved"}
  /\ title' = [title EXCEPT ![t].status = "overdue"]
  /\ UNCHANGED <<settlement, account, closed>>

\* A new opening balance shifts the current one.
Rebased(a, v) == [opening |-> v, balance |-> account[a].balance + v - account[a].opening]

EditOpening(a) == \E v \in Opening :
  /\ v # account[a].opening
  /\ MovementsOf(a) = {}
  /\ account' = [account EXCEPT ![a] = Rebased(a, v)]
  /\ UNCHANGED <<title, settlement, closed>>

-----------------------------------------------------------------------------
(* Settlements *)

CleanSettlement_AnyNet(t, v, net) == v > 0 /\ v <= title[t].open
\* FinancialSettlement.clean of a new settlement.
CleanSettlement(t, v, net) ==
  /\ v > 0 /\ net >= 0
  /\ v <= title[t].open

\* The next key of the table.
NextRow(i) == settlement[i].status = "free" /\ \A j \in 1..(i - 1) : settlement[j].status # "free"

Register(t, a, m) == \E v \in Amount, c \in Charge, i \in Row :
  /\ title[t].status \in {"approved", "partially_settled"}
  /\ CleanSettlement(t, v, v + c)
  /\ m \notin closed
  /\ NextRow(i)
  /\ settlement' = [settlement EXCEPT ![i] =
       [status |-> "active", title |-> t, account |-> a, month |-> m,
        amount |-> v, net |-> v + c, reconciled |-> FALSE]]
  /\ LET paid == title[t].paid + v
         open == IF title[t].original > paid THEN title[t].original - paid ELSE 0
     IN  title' = [title EXCEPT
           ![t].paid = paid, ![t].open = open,
           ![t].status = IF open = 0 THEN "settled" ELSE "partially_settled"]
  /\ account' = [account EXCEPT ![a].balance = @ + Signed(title[t].kind, v + c)]
  /\ UNCHANGED closed

Reconcilable(i) == settlement[i].status = "active"

Reconcile(i) ==
  /\ Reconcilable(i)
  /\ settlement[i].month \notin closed
  /\ settlement' = [settlement EXCEPT ![i].reconciled = TRUE]
  /\ UNCHANGED <<title, account, closed>>

Reversible_Again(i) == settlement[i].status # "free"
Reversible(i) == settlement[i].status = "active"

StatusAfterReversal_Approved(paid) == "approved"
StatusAfterReversal(paid) == IF paid = 0 THEN "approved" ELSE "partially_settled"

Reverse(i) ==
  /\ Reversible(i)
  /\ settlement[i].month \notin closed
  /\ LET t == settlement[i].title
         a == settlement[i].account
         paid == IF title[t].paid > settlement[i].amount
                 THEN title[t].paid - settlement[i].amount ELSE 0
     IN  /\ account' = [account EXCEPT
              ![a].balance = @ - Signed(title[t].kind, settlement[i].net)]
         /\ title' = [title EXCEPT
              ![t].paid = paid, ![t].open = title[t].original - paid,
              ![t].status = StatusAfterReversal(paid)]
  /\ settlement' = [settlement EXCEPT ![i].status = "reversed"]
  /\ UNCHANGED closed

\* FinancialPeriodClosing closes or reopens a month.
CloseOrReopen(m) ==
  /\ closed' = IF m \in closed THEN closed \ {m} ELSE closed \cup {m}
  /\ UNCHANGED <<title, settlement, account>>

Next ==
  \/ \E t \in Title : CreateTitle(t) \/ EditTitle(t) \/ Approve(t) \/ Cancel(t) \/ MarkOverdue(t)
  \/ \E t \in Title, a \in Account, m \in Month : Register(t, a, m)
  \/ \E i \in Row : Reconcile(i) \/ Reverse(i)
  \/ \E a \in Account : EditOpening(a)
  \/ \E m \in Month : CloseOrReopen(m)

Spec == Init /\ [][Next]_vars

-----------------------------------------------------------------------------
(* Properties *)

\* What the active settlements of a title add up to, and what they moved on an account.
ShareOfTitle(t, rows) == [i \in Row |->
  IF rows[i].status = "active" /\ rows[i].title = t THEN rows[i].amount ELSE 0]
Settled(t) == Total(ShareOfTitle(t, settlement), RowCount)

ShareOfAccount(a, rows, titles) == [i \in Row |->
  IF rows[i].status = "active" /\ rows[i].account = a
  THEN Signed(titles[rows[i].title].kind, rows[i].net) ELSE 0]
Moved(a) == Total(ShareOfAccount(a, settlement, title), RowCount)

\* What a title shows as paid is the sum of its active settlements, and the rest of it
\* is open, whatever partial settlements, reversals and edits took place in which order
\* (register_settlement, reverse, _validate_finance_edit).
PaidIsSettled ==
  \A t \in Title : /\ title[t].paid = Settled(t)
                   /\ title[t].open + title[t].paid = title[t].original

\* The balance of an account is its opening balance and the net amounts of the active
\* settlements, each in the direction its title has today: an edit that turned a payable
\* into a receivable, or moved the opening balance, would falsify it
\* (apply_movement, reverse_movement, FinancialAccount._validate_finance_edit).
AccountLedger ==
  \A a \in Account : account[a].balance = account[a].opening + Moved(a)

TellsPaid(r) ==
  CASE r.status = "settled" -> r.paid = r.original /\ r.paid > 0
    [] r.status = "partially_settled" -> 0 < r.paid /\ r.paid < r.original
    [] OTHER -> r.paid = 0

\* The status of a title tells whether it is paid: in part, wholly or not at all.  A
\* reversal after the last instalment, or an edit of the amount, may not leave a title
\* settled that is open, or approved that is paid (FinancialTitle.status).
StatusTellsPaid == \A t \in Title : TellsPaid(title[t])

\* Cancellation and settlement of one title have one winner: a cancelled title has no
\* active settlement (docs/architecture/corrections-finance.md).
CancelledHasNoSettlement ==
  \A t \in Title : title[t].status = "cancelled" =>
    \A i \in SettlementsOf(t) : settlement[i].status = "reversed"

Kept(i) ==
  LET s == settlement[i]
  IN  /\ \/ settlement'[i] = s
         \/ s.status = "active" /\ settlement'[i] = [s EXCEPT !.reconciled = TRUE]
         \/ s.status = "active" /\ settlement'[i] = [s EXCEPT !.status = "reversed"]
      /\ title'[s.title].kind = title[s.title].kind
      /\ title'[s.title].original = title[s.title].original

\* A settlement only becomes reconciled and then reversed; a reversed one never changes,
\* and a title with a settlement is about the same amount and direction for good
\* (validate_immutable_fields, ECONOMIC_FIELDS).
PostedHistoryKept == [][\A i \in Row : settlement[i].status # "free" => Kept(i)]_vars
=============================================================================
