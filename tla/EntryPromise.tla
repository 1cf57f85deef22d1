---------------------------- MODULE EntryPromise ----------------------------
(***************************************************************************)
(* What the receipts of a purchase order promise, whoever edits and posts  *)
(* them at a time: a receipt enters the stock once and wholly, each row it *)
(* brings becomes one entry that nothing changes afterwards, the balance   *)
(* of a lot grows by what the entries bring, and the entries of an order   *)
(* item never exceed what is ordered, however the order is changed.        *)
(***************************************************************************)
EXTENDS Summation

CONSTANTS Receipt, OrderItem, Lot,
          EntryCount   \* the rows that can become entries

VARIABLES ordered,   \* the quantity ordered, by order item
          entered,   \* the receipts in stock
          entry,     \* what each row entered; quantity 0: nothing yet
          onhand     \* the balance, by lot

promiseVars == <<ordered, entered, entry, onhand>>

Entry == 1..EntryCount
NoEntry == [receipt |-> "none", order |-> "none", lot |-> "none", quantity |-> 0]

\* What the given rows of a table of entries come to.
Sum(table, rows) ==
  Total([i \in Entry |-> IF i \in rows THEN table[i].quantity ELSE 0], EntryCount)
OfOrder(table, o) == {i \in Entry : table[i].order = o}
Bringing(table, r, l) == {i \in Entry : table[i].receipt = r /\ table[i].lot = l}

WithinOrder(o) == Sum(entry, OfOrder(entry, o)) <= ordered[o]

Init ==
  /\ ordered \in [OrderItem -> Nat \ {0}]
  /\ entered = {}
  /\ entry = [i \in Entry |-> NoEntry]
  /\ onhand = [l \in Lot |-> 0]

\* The ordered quantity changes, never below what has entered.
Reorder(o) ==
  /\ ordered' \in [OrderItem -> Nat \ {0}]
  /\ \A p \in OrderItem \ {o} : ordered'[p] = ordered[p]
  /\ WithinOrder(o)'
  /\ UNCHANGED <<entered, entry, onhand>>

\* A receipt enters, with all the rows it brings.
Enter(r) ==
  /\ r \notin entered
  /\ entered' = entered \cup {r}
  /\ \A i \in Entry : \/ entry'[i] = entry[i]
                      \/ /\ entry[i] = NoEntry
                         /\ entry'[i].receipt = r /\ entry'[i].quantity > 0
  /\ \E i \in Entry : entry'[i] # entry[i]
  /\ onhand' = [l \in Lot |-> onhand[l] + Sum(entry', Bringing(entry', r, l))]
  /\ UNCHANGED ordered
  /\ \A o \in OrderItem : WithinOrder(o)'

Next == (\E o \in OrderItem : Reorder(o)) \/ (\E r \in Receipt : Enter(r))

Spec == Init /\ [][Next]_promiseVars
=============================================================================
