-------------------------- MODULE StorefrontProofs --------------------------
(* Theorems about what a shopper meets: about Payments, for any number of     *)
(* orders, transfers and deliveries and anything SePay's transactions may     *)
(* say; about CheckoutLimit, for any limit, window, pool and requests; about  *)
(* Pricing, for any catalogue, cart and prices; and about the instance that   *)
(* composes them with Chat, whose theorems are ChatProofs'.                   *)
EXTENDS MCStorefront, ChatProofs

(***************************************************************************)
(* Payments                                                                *)
(***************************************************************************)

(***************************************************************************)
(* The inductive invariant.  PaidOnce needs to know that a delivery about  *)
(* to settle holds the order's row as it is, alone, and that what it has   *)
(* inserted is on record nowhere else: the row lock and the unique id.     *)
(***************************************************************************)

\* An uncommitted INSERT is the only one of its transaction, and new; a delivery
\* that answers has its transaction on record.
InsertsAreNew ==
    /\ \A d \in Deliveries :
         /\ InsertedBy(d) => log[tx[d]] = None
         /\ pc[d] = "reply" => log[tx[d]] # None
    /\ \A d, e \in Deliveries : InsertedBy(d) /\ InsertedBy(e) /\ tx[d] = tx[e] => d = e

\* A locked order is a payable one of the delivery's, is as the delivery read
\* it, and is locked by nobody else.
RowIsCurrent ==
    /\ \A d \in Deliveries : row[d] # None =>
         /\ row[d].id \in Payable(tx[d])
         /\ row[d].paid = orders[row[d].id].paid
    /\ \A d, e \in Deliveries : row[d] # None /\ row[e] # None /\ row[d].id = row[e].id => d = e

\* Only an incoming transfer looks for an order.
OnlyIncomingLock ==
    \A d \in Deliveries : pc[d] = "lock" \/ row[d] # None => payload[tx[d]].type = "in"

\* Payments on record are of orders that exist.
PaymentsHaveOrders ==
    \A t \in Transfers : log[t] # None /\ log[t].match = "matched" => log[t].order \in Placed

PaymentsInv == /\ TypeOK
        /\ InsertsAreNew
        /\ RowIsCurrent
        /\ OnlyIncomingLock
        /\ PaymentsHaveOrders
        /\ PaidOnce
        /\ PaidExactly
        /\ AckedIsRecorded

----------------------------------------------------------------------------
\* Before any delivery PaymentsInv holds.
LEMMA InitPaymentsInv == Init => PaymentsInv
  BY PaymentsAssumption
  DEF Init, PaymentsInv, TypeOK, InsertsAreNew, InsertedBy, RowIsCurrent, OnlyIncomingLock, PaymentsHaveOrders,
      PaidOnce, PaidBy, PaidExactly, AckedIsRecorded, Placed, Places, OrderRow, LogRow

\* Steps that change neither orders nor log keep what is said of the two.
LEMMA BooksUnchanged ==
    ASSUME PaymentsInv, UNCHANGED <<payload, orders, log>>
    PROVE  PaymentsHaveOrders' /\ PaidOnce' /\ PaidExactly'
  BY DEF PaymentsInv, PaymentsHaveOrders, PaidOnce, PaidBy, PaidExactly, Placed, CandidateReferences

\* A delivery begins, inserts, fails or is answered.
LEMMA DeliveryStep ==
    ASSUME PaymentsInv, NEW d \in Deliveries,
           \/ \E t \in Transfers : Deliver(d, t)
           \/ InsertTransaction(d) \/ Fail(d)
           \/ \E arrives \in BOOLEAN : Reply(d, arrives)
    PROVE  PaymentsInv'
<1> USE PaymentsAssumption
<1>0. UNCHANGED <<payload, orders, log>>
  BY DEF Deliver, InsertTransaction, Fail, Reply
<1>1. PaymentsHaveOrders' /\ PaidOnce' /\ PaidExactly'
  BY <1>0, BooksUnchanged
<1>2. TypeOK'
  BY DEF PaymentsInv, TypeOK, Deliver, InsertTransaction, Fail, Reply, Places
<1>3. InsertsAreNew'
  <2>1. ASSUME NEW t \in Transfers, Deliver(d, t)
        PROVE  InsertsAreNew'
    BY <2>1 DEF PaymentsInv, TypeOK, InsertsAreNew, InsertedBy, Deliver
  <2>2. ASSUME InsertTransaction(d)
        PROVE  InsertsAreNew'
    BY <2>2 DEF PaymentsInv, TypeOK, InsertsAreNew, InsertedBy, InsertTransaction, IsPending
  <2>3. ASSUME Fail(d) \/ \E arrives \in BOOLEAN : Reply(d, arrives)
        PROVE  InsertsAreNew'
    BY <2>3 DEF PaymentsInv, TypeOK, InsertsAreNew, InsertedBy, Fail, Reply
  <2> QED
    BY <2>1, <2>2, <2>3
<1>4. RowIsCurrent'
  BY DEF PaymentsInv, TypeOK, RowIsCurrent, Payable, CandidateReferences, Placed,
         Deliver, InsertTransaction, Fail, Reply
<1>5. AckedIsRecorded'
  BY DEF PaymentsInv, TypeOK, InsertsAreNew, AckedIsRecorded, Deliver, InsertTransaction, Fail, Reply
<1>6. OnlyIncomingLock'
  BY DEF PaymentsInv, TypeOK, OnlyIncomingLock, Deliver, InsertTransaction, Fail, Reply
<1> QED
  BY <1>1, <1>2, <1>3, <1>4, <1>5, <1>6 DEF PaymentsInv

\* The row is read as it is locked.
LEMMA LockStep ==
    ASSUME PaymentsInv, NEW d \in Deliveries, LockOrder(d)
    PROVE  PaymentsInv'
<1> USE PaymentsAssumption
<1>0. UNCHANGED <<payload, orders, log>>
  BY DEF LockOrder
<1>1. PaymentsHaveOrders' /\ PaidOnce' /\ PaidExactly'
  BY <1>0, BooksUnchanged
<1>2. AckedIsRecorded'
  BY DEF PaymentsInv, AckedIsRecorded, LockOrder
<1>3. ASSUME NEW o \in OldestPayable(tx[d])
      PROVE  o \in Orders /\ orders[o] \in OrderRow
  BY DEF PaymentsInv, TypeOK, OldestPayable, Payable, Placed
<1>4. TypeOK'
  BY <1>3 DEF PaymentsInv, TypeOK, LockOrder, Places, OrderRow
<1>5. InsertsAreNew'
  BY DEF PaymentsInv, TypeOK, InsertsAreNew, InsertedBy, LockOrder
<1>6. RowIsCurrent'
  <2>1. CASE UNCHANGED row
    BY <1>0, <2>1 DEF PaymentsInv, TypeOK, RowIsCurrent, Payable, CandidateReferences, Placed, LockOrder
  <2>2. ASSUME NEW o \in OldestPayable(tx[d]), ~IsLocked(o),
               row' = [row EXCEPT ![d] = [id |-> o, paid |-> orders[o].paid]]
        PROVE  RowIsCurrent'
    <3>1. o \in Payable(tx[d]) /\ o \in Orders /\ UNCHANGED tx
      BY <1>3 DEF OldestPayable, LockOrder
    <3>2. \A t \in Transfers : Payable(t)' = Payable(t)
      BY <1>0 DEF Payable, CandidateReferences, Placed
    <3>3. tx[d] \in Transfers
      BY DEF PaymentsInv, TypeOK, LockOrder
    <3>4. \A e \in Deliveries : row[e] # None => tx[e] \in Transfers
      BY DEF PaymentsInv, TypeOK
    <3> QED
      BY <1>0, <2>2, <3>1, <3>2, <3>3, <3>4 DEF PaymentsInv, TypeOK, RowIsCurrent, IsLocked
  <2> QED
    BY <2>1, <2>2 DEF LockOrder
<1>7. OnlyIncomingLock'
  BY DEF PaymentsInv, TypeOK, OnlyIncomingLock, LockOrder
<1> QED
  BY <1>1, <1>2, <1>4, <1>5, <1>6, <1>7 DEF PaymentsInv

\* What the branches decide: a payment is an incoming transfer of the exact total
\* for a locked order that was not paid.
LEMMA OutcomeIs ==
    ASSUME NEW t \in Transfers, NEW locked
    PROVE  /\ Outcome(t, locked) \in Matches
           /\ Outcome(t, locked) = "matched" =>
                /\ payload[t].type = "in" /\ locked # None /\ ~locked.paid
                /\ payload[t].amount = orders[locked.id].total
  BY DEF Outcome, Matches

\* The record and the payment are written together.
LEMMA SettleStep ==
    ASSUME PaymentsInv, NEW d \in Deliveries, Settle(d)
    PROVE  PaymentsInv'
<1> USE PaymentsAssumption
<1> DEFINE t == tx[d]
           match == Outcome(t, row[d])
           payee == IF row[d] = None THEN None ELSE row[d].id
           entry == [order |-> payee, match |-> match]
<1>1. /\ t \in Transfers /\ log[t] = None /\ pc[d] = "settle"
      /\ row[d] # None => row[d].id \in Payable(t) /\ row[d].paid = orders[row[d].id].paid
  BY DEF PaymentsInv, TypeOK, InsertsAreNew, InsertedBy, RowIsCurrent, Settle
<1>2. /\ log' = [log EXCEPT ![t] = entry]
      /\ orders' = IF match = "matched" THEN [orders EXCEPT ![payee].paid = TRUE] ELSE orders
      /\ pc' = [pc EXCEPT ![d] = "reply"] /\ row' = [row EXCEPT ![d] = None]
      /\ UNCHANGED <<payload, acked, tx>>
  BY DEF Settle
<1>3. /\ match \in Matches
      /\ match = "matched" =>
           /\ row[d] # None /\ payee = row[d].id /\ payee \in Payable(t) /\ ~orders[payee].paid
           /\ payload[t].type = "in" /\ payload[t].amount = orders[payee].total
  BY <1>1, OutcomeIs
<1>4. payee \in Orders \cup {None}
  BY <1>1 DEF Payable, Placed
<1>5. entry \in LogRow /\ entry # None /\ entry.order = payee /\ entry.match = match
  BY <1>3, <1>4 DEF LogRow
<1> HIDE DEF match, payee, entry, t
<1> DEFINE paid == [orders[payee] EXCEPT !.paid = TRUE]
<1>6. match = "matched" =>
         /\ payee \in Placed /\ orders' = [orders EXCEPT ![payee] = paid]
         /\ paid \in OrderRow /\ paid # None /\ paid.paid
         /\ paid.bank = orders[payee].bank /\ paid.total = orders[payee].total
  <2>1. match = "matched" => payee \in Placed /\ orders[payee] \in OrderRow
    BY <1>3 DEF PaymentsInv, TypeOK, Payable, Placed
  <2> QED
    BY <1>2, <2>1 DEF OrderRow, Placed
<1> HIDE DEF paid
<1>7. orders' \in [Orders -> OrderRow \cup {None}]
  BY <1>2, <1>6 DEF PaymentsInv, TypeOK, Placed
<1>8. TypeOK'
  BY <1>1, <1>2, <1>5, <1>7 DEF PaymentsInv, TypeOK, Places
<1>9. /\ Placed' = Placed
      /\ \A o \in Placed : /\ orders'[o].bank = orders[o].bank /\ orders'[o].total = orders[o].total
                           /\ orders'[o].paid <=> orders[o].paid \/ (match = "matched" /\ o = payee)
  <2>1. CASE match = "matched"
    <3>1. Placed' = Placed
      BY <1>6, <2>1 DEF PaymentsInv, TypeOK, Placed
    <3>2. ASSUME NEW o \in Placed, o # payee
          PROVE  orders'[o] = orders[o]
      BY <1>6, <2>1, <3>2 DEF PaymentsInv, TypeOK, Placed
    <3>3. orders'[payee] = paid /\ payee \in Orders
      BY <1>6, <2>1 DEF PaymentsInv, TypeOK, Placed
    <3> QED
      BY <1>6, <2>1, <3>1, <3>2, <3>3
  <2>2. CASE match # "matched"
    BY <1>2, <2>2 DEF Placed
  <2> QED
    BY <2>1, <2>2
<1>10. \A o \in Orders :
         PaidBy(o)' = IF match = "matched" /\ o = payee THEN PaidBy(o) \cup {t} ELSE PaidBy(o)
  BY <1>1, <1>2, <1>5 DEF PaymentsInv, TypeOK, PaidBy
<1>11. match = "matched" => PaidBy(payee) = {} /\ payee \in Placed
  BY <1>3 DEF PaymentsInv, PaidOnce, Payable
<1>12. InsertsAreNew'
  BY <1>1, <1>2, <1>5 DEF PaymentsInv, TypeOK, InsertsAreNew, InsertedBy, t
<1>13. RowIsCurrent'
  <2>1. ASSUME NEW e \in Deliveries, row'[e] # None
        PROVE  /\ row'[e] = row[e] /\ row[e] # None /\ e # d
               /\ tx[e] \in Transfers /\ row[e].id \in Orders /\ (match = "matched" => row[e].id # payee)
    BY <1>2, <1>3, <2>1 DEF PaymentsInv, TypeOK, RowIsCurrent, payee
  <2>2. \A u \in Transfers, o \in Orders : o \in Payable(u) => o \in Payable(u)'
    BY <1>2, <1>9 DEF Payable, CandidateReferences
  <2>3. ASSUME NEW e \in Deliveries, row'[e] # None
        PROVE  row'[e].id \in Payable(tx[e])' /\ row'[e].paid = orders'[row'[e].id].paid
    <3>1. row[e].id \in Payable(tx[e]) /\ row[e].paid = orders[row[e].id].paid /\ row[e].id \in Orders
      BY <2>1, <2>3 DEF PaymentsInv, RowIsCurrent
    <3>2. orders'[row[e].id] = orders[row[e].id]
      BY <1>2, <2>1, <2>3 DEF PaymentsInv, TypeOK
    <3> QED
      BY <1>2, <2>1, <2>2, <2>3, <3>1, <3>2
  <2>4. ASSUME NEW e \in Deliveries, NEW f \in Deliveries,
               row'[e] # None, row'[f] # None, row'[e].id = row'[f].id
        PROVE  e = f
    BY <2>1, <2>4 DEF PaymentsInv, RowIsCurrent
  <2> QED
    BY <2>3, <2>4 DEF RowIsCurrent
<1>14. PaymentsHaveOrders'
  BY <1>1, <1>2, <1>5, <1>9, <1>11 DEF PaymentsInv, TypeOK, PaymentsHaveOrders
<1>15. PaidOnce'
  <2>1. ASSUME NEW o \in Placed
        PROVE  (orders[o].paid <=> PaidBy(o) # {}) /\ \A u, v \in PaidBy(o) : u = v
    BY DEF PaymentsInv, PaidOnce
  <2>2. ASSUME NEW o \in Placed
        PROVE  (orders'[o].paid <=> PaidBy(o)' # {}) /\ \A u, v \in PaidBy(o)' : u = v
    <3>1. o \in Orders
      BY DEF Placed
    <3>2. CASE match = "matched" /\ o = payee
      <4>1. PaidBy(o)' = {t}
        BY <1>10, <1>11, <3>1, <3>2
      <4>2. orders'[o].paid
        BY <1>9, <3>2
      <4> QED
        BY <4>1, <4>2
    <3>3. CASE ~(match = "matched" /\ o = payee)
      <4>1. PaidBy(o)' = PaidBy(o)
        BY <1>10, <3>1, <3>3
      <4>2. orders'[o].paid <=> orders[o].paid
        BY <1>9, <3>3
      <4> QED
        BY <2>1, <4>1, <4>2
    <3> QED
      BY <3>2, <3>3
  <2> QED
    BY <1>9, <2>2 DEF PaidOnce
<1>16. PaidExactly'
  BY <1>2, <1>3, <1>9, <1>10, <1>11 DEF PaymentsInv, PaidExactly, Placed, Payable, CandidateReferences
<1>17. AckedIsRecorded'
  BY <1>1, <1>2, <1>5 DEF PaymentsInv, TypeOK, AckedIsRecorded
<1>18. OnlyIncomingLock'
  BY <1>2 DEF PaymentsInv, TypeOK, OnlyIncomingLock
<1> QED
  BY <1>8, <1>12, <1>13, <1>14, <1>15, <1>16, <1>17, <1>18 DEF PaymentsInv

\* Orders are placed unpaid, and a cancellation waits for the row's lock.
LEMMA OrderStep ==
    ASSUME PaymentsInv, NEW o \in Orders,
           (\E bank \in BOOLEAN, total \in Amounts : PlaceOrder(o, bank, total)) \/ CancelOrder(o)
    PROVE  PaymentsInv'
<1> USE PaymentsAssumption
<1>1. UNCHANGED <<payload, log, acked, pc, tx, row>>
  BY DEF PlaceOrder, CancelOrder
<1>2. PICK new \in OrderRow :
         /\ orders' = [orders EXCEPT ![o] = new]
         /\ o \in Placed => /\ new.bank = orders[o].bank /\ new.total = orders[o].total
                           /\ new.paid = orders[o].paid
         /\ o \notin Placed => new.paid = FALSE
  <2>1. ASSUME NEW bank \in BOOLEAN, NEW total \in Amounts, PlaceOrder(o, bank, total)
        PROVE  /\ o \notin Placed
               /\ \E new \in OrderRow : orders' = [orders EXCEPT ![o] = new] /\ new.paid = FALSE
    <3> DEFINE new == [bank |-> bank, total |-> total, paid |-> FALSE, cancelled |-> FALSE]
    <3>1. new \in OrderRow /\ new.paid = FALSE
      BY DEF OrderRow
    <3> QED
      BY <2>1, <3>1 DEF PlaceOrder, Placed
  <2>2. ASSUME CancelOrder(o)
        PROVE  /\ o \in Placed
               /\ \E new \in OrderRow :
                    /\ orders' = [orders EXCEPT ![o] = new]
                    /\ new.bank = orders[o].bank /\ new.total = orders[o].total
                    /\ new.paid = orders[o].paid
    <3> DEFINE new == [orders[o] EXCEPT !.cancelled = TRUE]
    <3>1. o \in Placed /\ orders[o] \in OrderRow
      BY <2>2 DEF PaymentsInv, TypeOK, CancelOrder, Placed
    <3>2. /\ new \in OrderRow /\ new.bank = orders[o].bank /\ new.total = orders[o].total
          /\ new.paid = orders[o].paid
      BY <3>1 DEF OrderRow
    <3>3. orders' = [orders EXCEPT ![o] = new]
      BY <2>2 DEF CancelOrder, PaymentsInv, TypeOK
    <3> QED
      BY <3>1, <3>2, <3>3
  <2> QED
    BY <2>1, <2>2
<1>3. /\ TypeOK' /\ InsertsAreNew' /\ AckedIsRecorded'
      /\ Placed' = Placed \cup {o}
      /\ \A p \in Placed : /\ orders'[p].bank = orders[p].bank /\ orders'[p].total = orders[p].total
                           /\ orders'[p].paid = orders[p].paid
      /\ o \notin Placed => orders'[o].paid = FALSE
  <2>1. TypeOK' /\ InsertsAreNew' /\ AckedIsRecorded'
    BY <1>1, <1>2 DEF PaymentsInv, TypeOK, InsertsAreNew, InsertedBy, AckedIsRecorded
  <2>2. new # None
    BY <1>2
  <2> QED
    BY <1>2, <2>1, <2>2 DEF PaymentsInv, TypeOK, Placed
<1>4. \A p \in Orders : PaidBy(p)' = PaidBy(p)
  BY <1>1 DEF PaidBy
<1>5. \A p \in Orders : p \notin Placed => PaidBy(p) = {}
  BY DEF PaymentsInv, PaymentsHaveOrders, PaidBy
<1>6. RowIsCurrent' /\ OnlyIncomingLock' /\ PaymentsHaveOrders'
  BY <1>1, <1>3 DEF PaymentsInv, TypeOK, RowIsCurrent, OnlyIncomingLock, PaymentsHaveOrders, Payable, CandidateReferences
<1>7. PaidOnce' /\ PaidExactly'
  BY <1>1, <1>3, <1>4, <1>5 DEF PaymentsInv, PaidOnce, PaidExactly, CandidateReferences, Placed
<1> QED
  BY <1>3, <1>6, <1>7 DEF PaymentsInv

\* Every step leaves PaymentsInv.
LEMMA NextPaymentsInv == PaymentsInv /\ [Next]_vars => PaymentsInv'
<1> SUFFICES ASSUME PaymentsInv, [Next]_vars PROVE PaymentsInv'
  OBVIOUS
<1>1. CASE UNCHANGED vars
  BY <1>1
  DEF vars, PaymentsInv, TypeOK, InsertsAreNew, InsertedBy, RowIsCurrent, OnlyIncomingLock, PaymentsHaveOrders,
      PaidOnce, PaidBy, PaidExactly, AckedIsRecorded, Payable, CandidateReferences, Placed
<1>2. CASE Next
  BY <1>2, DeliveryStep, LockStep, SettleStep, OrderStep DEF Next
<1> QED
  BY <1>1, <1>2

\* PaymentsInv holds along every behaviour.
LEMMA PaymentsInductive == Spec => []PaymentsInv
  BY InitPaymentsInv, NextPaymentsInv, PTL DEF Spec

----------------------------------------------------------------------------
\* An order is paid exactly when one transaction on record paid it.
THEOREM OrdersArePaidOnce == Spec => []PaidOnce
<1>1. PaymentsInv => PaidOnce
  BY DEF PaymentsInv
<1> QED
  BY <1>1, PaymentsInductive, PTL

\* What paid an order names it and is of its exact total.
THEOREM OrdersArePaidExactly == Spec => []PaidExactly
<1>1. PaymentsInv => PaidExactly
  BY DEF PaymentsInv
<1> QED
  BY <1>1, PaymentsInductive, PTL

\* SePay hears of success only for what is on record.
THEOREM SuccessMeansRecorded == Spec => []AckedIsRecorded
<1>1. PaymentsInv => AckedIsRecorded
  BY DEF PaymentsInv
<1> QED
  BY <1>1, PaymentsInductive, PTL

\* No record is rewritten and no payment undone.
THEOREM RecordsStay == Spec => RecordedOnce
<1> USE PaymentsAssumption
<1> DEFINE Kept == /\ \A t \in Transfers : log[t] # None => log'[t] = log[t]
                   /\ \A o \in Placed : orders[o].paid => orders'[o].paid
<1>1. ASSUME PaymentsInv, [Next]_vars PROVE [Kept]_vars
  <2>1. CASE UNCHANGED vars
    BY <2>1
  <2>2. ASSUME NEW d \in Deliveries, Settle(d) PROVE Kept
    BY <1>1, <2>2 DEF PaymentsInv, TypeOK, InsertsAreNew, InsertedBy, Settle, OrderRow, Placed
  <2>3. ASSUME NEW o \in Orders,
               (\E bank \in BOOLEAN, total \in Amounts : PlaceOrder(o, bank, total)) \/ CancelOrder(o)
        PROVE  Kept
    BY <1>1, <2>3 DEF PaymentsInv, TypeOK, PlaceOrder, CancelOrder, OrderRow, Placed
  <2>4. ASSUME NEW d \in Deliveries, UNCHANGED <<orders, log>> PROVE Kept
    BY <2>4
  <2>5. ASSUME NEW d \in Deliveries, NEW t \in Transfers, Deliver(d, t) PROVE Kept
    BY <2>4, <2>5 DEF Deliver
  <2>6. ASSUME NEW d \in Deliveries,
               \/ InsertTransaction(d) \/ LockOrder(d) \/ Fail(d)
               \/ \E arrives \in BOOLEAN : Reply(d, arrives)
        PROVE  Kept
    BY <2>4, <2>6 DEF InsertTransaction, LockOrder, Fail, Reply
  <2> HIDE DEF Kept
  <2> QED
    BY <1>1, <2>1, <2>2, <2>3, <2>5, <2>6 DEF Next
<1> QED
  BY <1>1, PaymentsInductive, PTL DEF Spec, RecordedOnce

----------------------------------------------------------------------------
(* The webhook implements the ledger: a delivery enters its record when it   *)
(* settles, and every other step leaves the ledger as it is.                 *)

\* Orders that are placed owe what they are told; cancellations change nothing.
LEMMA DueOfOrders ==
    ASSUME PaymentsInv, NEW o \in Orders,
           (\E bank \in BOOLEAN, total \in Amounts : PlaceOrder(o, bank, total)) \/ CancelOrder(o)
    PROVE  [Ledger!LedgerNext]_Ledger!ledgerVars
<1> USE PaymentsAssumption
<1>1. ASSUME NEW bank \in BOOLEAN, NEW total \in Amounts, PlaceOrder(o, bank, total)
      PROVE  [Ledger!LedgerNext]_Ledger!ledgerVars
  <2> DEFINE new == [bank |-> bank, total |-> total, paid |-> FALSE, cancelled |-> FALSE]
  <2>1. orders[o] = None /\ orders' = [orders EXCEPT ![o] = new] /\ UNCHANGED log
    BY <1>1 DEF PlaceOrder
  <2>2. new \in OrderRow /\ new # None
    <3>1. new \in OrderRow
      BY DEF OrderRow
    <3> QED
      BY <3>1
  <2>3. CASE bank
    <3>1. Due[o] = None /\ Due' = [Due EXCEPT ![o] = "unpaid"]
      BY <2>1, <2>2, <2>3 DEF PaymentsInv, TypeOK, Due
    <3> QED
      BY <2>1, <3>1 DEF Ledger!LedgerNext, Ledger!OpenOrder
  <2>4. CASE ~bank
    <3>1. Due' = Due
      BY <2>1, <2>2, <2>4 DEF PaymentsInv, TypeOK, Due
    <3> QED
      BY <2>1, <3>1 DEF Ledger!ledgerVars
  <2> QED
    BY <2>3, <2>4
<1>2. ASSUME CancelOrder(o)
      PROVE  [Ledger!LedgerNext]_Ledger!ledgerVars
  <2>1. orders[o] \in OrderRow /\ orders' = [orders EXCEPT ![o] = [orders[o] EXCEPT !.cancelled = TRUE]]
    BY <1>2 DEF PaymentsInv, TypeOK, CancelOrder
  <2>2. Due' = Due
    BY <2>1 DEF PaymentsInv, TypeOK, Due, OrderRow
  <2> QED
    BY <1>2, <2>2 DEF CancelOrder, Ledger!ledgerVars
<1> QED
  BY <1>1, <1>2

\* A delivery that settles enters its transaction, as what its branch says.
LEMMA EntryOfSettle ==
    ASSUME PaymentsInv, NEW d \in Deliveries, Settle(d)
    PROVE  Ledger!LedgerNext
<1> USE PaymentsAssumption
<1> DEFINE t == tx[d]
           locked == row[d]
           match == Outcome(t, locked)
           payee == IF locked = None THEN None ELSE locked.id
<1>1. /\ t \in Transfers /\ log[t] = None
      /\ locked # None => /\ locked.id \in Payable(t) /\ locked.paid = orders[locked.id].paid
                          /\ payload[t].type = "in"
  BY DEF PaymentsInv, TypeOK, InsertsAreNew, InsertedBy, RowIsCurrent, OnlyIncomingLock, Settle
<1>2. /\ log' = [log EXCEPT ![t] = [order |-> payee, match |-> match]]
      /\ orders' = IF match = "matched" THEN [orders EXCEPT ![payee].paid = TRUE] ELSE orders
  BY DEF Settle
<1>3. locked # None => /\ payee \in Orders /\ orders[payee] \in OrderRow /\ orders[payee].bank
                       /\ Due[payee] = IF locked.paid THEN "paid" ELSE "unpaid"
  BY <1>1 DEF PaymentsInv, TypeOK, Payable, Placed, Due
<1>4. Ledger!Enter(t, payee, match)
  BY <1>1, <1>2 DEF Ledger!Enter
<1>5. CASE payload[t].type # "in"
  <2>1. match = "ignored" /\ payee = None
    BY <1>1, <1>5 DEF Outcome
  <2>2. Due' = Due
    BY <1>2, <2>1 DEF Due
  <2> QED
    BY <1>1, <1>4, <2>1, <2>2 DEF Ledger!LedgerNext, Ledger!File
<1>6. CASE payload[t].type = "in" /\ locked = None
  <2>1. match = "unmatched" /\ payee = None
    BY <1>6 DEF Outcome
  <2>2. Due' = Due
    BY <1>2, <2>1 DEF Due
  <2> QED
    BY <1>1, <1>4, <2>1, <2>2 DEF Ledger!LedgerNext, Ledger!File
<1>7. CASE payload[t].type = "in" /\ locked # None /\ locked.paid
  <2>1. match = "already_paid"
    BY <1>7 DEF Outcome
  <2>2. Due' = Due
    BY <1>2, <2>1 DEF Due
  <2>3. payee \in Orders /\ Due[payee] = "paid"
    BY <1>3, <1>7
  <2> HIDE DEF payee, match
  <2> QED
    BY <1>1, <1>4, <2>1, <2>2, <2>3 DEF Ledger!LedgerNext, Ledger!File
<1>8. CASE /\ payload[t].type = "in" /\ locked # None /\ ~locked.paid
           /\ payload[t].amount # orders[locked.id].total
  <2>1. match = "amount_mismatch"
    BY <1>8 DEF Outcome
  <2>2. Due' = Due
    BY <1>2, <2>1 DEF Due
  <2>3. payee \in Orders /\ Due[payee] = "unpaid"
    BY <1>3, <1>8
  <2> HIDE DEF payee, match
  <2> QED
    BY <1>1, <1>4, <2>1, <2>2, <2>3 DEF Ledger!LedgerNext, Ledger!File
<1>9. CASE /\ payload[t].type = "in" /\ locked # None /\ ~locked.paid
           /\ payload[t].amount = orders[locked.id].total
  <2>1. match = "matched"
    BY <1>9 DEF Outcome
  <2>2. payee \in Orders /\ orders[payee] \in OrderRow /\ orders[payee].bank /\ Due[payee] = "unpaid"
    BY <1>3, <1>9
  <2>3. orders' = [orders EXCEPT ![payee] = [orders[payee] EXCEPT !.paid = TRUE]]
    BY <1>2, <2>1
  <2> HIDE DEF payee, match
  <2>4. Due' = [Due EXCEPT ![payee] = "paid"]
    <3> DEFINE new == [orders[payee] EXCEPT !.paid = TRUE]
    <3>1. new \in OrderRow /\ new # None /\ new.bank /\ new.paid
      BY <2>2 DEF OrderRow
    <3> HIDE DEF new
    <3>2. orders' = [orders EXCEPT ![payee] = new]
      BY <2>3 DEF new
    <3> QED
      BY <2>2, <3>1, <3>2 DEF PaymentsInv, TypeOK, Due
  <2> QED
    BY <1>1, <1>4, <2>1, <2>2, <2>4 DEF Ledger!LedgerNext, Ledger!Pay
<1> QED
  BY <1>5, <1>6, <1>7, <1>8, <1>9

\* Deliveries that repeat, race and fail leave what a ledger entered at one
\* instant per transaction would hold.
THEOREM WebhookImplementsLedger == Spec => ImplementsLedger
<1>1. Init => Ledger!LedgerInit
  BY DEF Init, Ledger!LedgerInit, Due
<1>2. ASSUME PaymentsInv, [Next]_vars PROVE [Ledger!LedgerNext]_Ledger!ledgerVars
  <2>1. CASE UNCHANGED <<orders, log>>
    BY <2>1 DEF Ledger!ledgerVars, Due
  <2>2. ASSUME NEW d \in Deliveries,
               \/ \E t \in Transfers : Deliver(d, t)
               \/ InsertTransaction(d) \/ LockOrder(d) \/ Fail(d)
               \/ \E arrives \in BOOLEAN : Reply(d, arrives)
        PROVE  [Ledger!LedgerNext]_Ledger!ledgerVars
    BY <2>1, <2>2 DEF Deliver, InsertTransaction, LockOrder, Fail, Reply
  <2> QED
    BY <1>2, <2>1, <2>2, DueOfOrders, EntryOfSettle DEF Next, vars
<1> QED
  BY <1>1, <1>2, PaymentsInductive, PTL DEF Spec, ImplementsLedger, Ledger!LedgerSpec

(***************************************************************************)
(* CheckoutLimit and Pricing                                               *)
(***************************************************************************)
----------------------------------------------------------------------------
(* Facts about numbers and finite sets *)

\* Integer division, with the remainder left out.
LEMMA Division ==
    ASSUME NEW n \in Nat, NEW d \in Nat \ {0}
    PROVE  /\ n \div d \in Nat
           /\ d * (n \div d) <= n
           /\ n < d * (n \div d) + d
  OBVIOUS

\* Of k or more things numbered by f, the k-th greatest is there.
LEMMA KthGreatest ==
    ASSUME NEW A, IsFiniteSet(A), NEW k \in Nat \ {0}, k <= Cardinality(A),
           NEW f, \A x \in A : f[x] \in Nat
    PROVE  \E x \in A : /\ Cardinality({y \in A : f[y] >= f[x]}) >= k
                        /\ Cardinality({y \in A : f[y] > f[x]}) < k
<1> DEFINE From(x)  == {y \in A : f[y] >= f[x]}
           After(x) == {y \in A : f[y] > f[x]}
           Many     == {x \in A : Cardinality(From(x)) >= k}
           Sets     == {From(x) : x \in Many}
           R        == StrictSubsetOrdering(A)
<1>1. A # {}
  BY FS_EmptySet
<1>2. Many # {}
  <2>1. PICK x \in A : \A y \in A : f[x] <= f[y]
    BY <1>1, LeastExists
  <2>2. From(x) = A
    BY <2>1
  <2> QED BY <2>2
<1>3. \A x \in A : From(x) \in SUBSET A /\ After(x) \in SUBSET A
  OBVIOUS
<1>4. Sets \subseteq FiniteSubsetsOf(A) /\ Sets # {}
  <2>1. \A x \in A : From(x) \in SUBSET A /\ IsFiniteSet(From(x))
    BY <1>3, FS_Subset
  <2> QED BY <1>2, <2>1 DEF FiniteSubsetsOf
<1>5. PICK S \in Sets : \A T \in Sets : <<T, S>> \notin R
  <2> HIDE DEF Sets
  <2> QED BY <1>4, FS_StrictSubsetOrderingWellFounded, WFMin
<1>6. PICK x \in Many : S = From(x)
  OBVIOUS
<1>7. Cardinality(After(x)) < k
  <2> SUFFICES ASSUME ~(Cardinality(After(x)) < k) PROVE FALSE
    OBVIOUS
  <2>1. IsFiniteSet(After(x)) /\ Cardinality(After(x)) \in Nat
    BY <1>3, FS_Subset, FS_CardinalityType
  <2>2. After(x) # {}
    BY <2>1, FS_EmptySet
  <2>3. PICK z \in After(x) : \A y \in After(x) : f[z] <= f[y]
    BY <2>2, LeastExists
  <2>4. From(z) = After(x)
    BY <2>3
  <2>5. From(z) \in Sets
    <3>1. Cardinality(From(z)) >= k
      BY <2>1, <2>4
    <3> QED BY <2>3, <3>1
  <2>6. x \in From(x) /\ x \notin After(x) /\ After(x) \subseteq From(x)
    OBVIOUS
  <2>7. <<From(z), From(x)>> \in R
    BY <1>3, <2>4, <2>6 DEF StrictSubsetOrdering
  <2> QED BY <1>5, <1>6, <2>5, <2>7
<1> QED
  BY <1>6, <1>7

----------------------------------------------------------------------------
(***************************************************************************)
(* The inductive invariant.  BoundedOvershoot counts committed orders, and *)
(* what commits them was decided before: so the orders of a phone in a     *)
(* window are counted together with the checkouts that have passed their   *)
(* check and may still add to it.  A check that adds one finds fewer than  *)
(* Limit committed, and all the others hold a connection.                  *)
(***************************************************************************)
InSpan(at, end) == end - Window <= at /\ at <= end

Claims(phone, end) ==
    {r \in Shoppers :
        \/ filed[r] # None /\ filed[r].phone = phone /\ InSpan(filed[r].at, end)
        \/ step[r] = "create" /\ Canonical[typed[r]] = phone /\ InSpan(start[r], end)}

ClaimsBounded ==
    \A phone \in Phones, end \in Nat : Cardinality(Claims(phone, end)) <= Limit - 1 + Pool

PoolHolds == Cardinality(Open) <= Pool

\* An order is there once its request is through; clocks do not run backwards.
RequestShape ==
    \A r \in Requests : /\ filed[r] # None <=> step[r] = "placed"
                        /\ start[r] <= now
                        /\ step[r] \in {"check", "limited"} => r \in Shoppers

\* Some order decides an advice: from its age on there are Limit orders of the
\* phone, after it there are fewer, and `until` is when it leaves the window, to
\* a second.
Decides(t, r) ==
    LET known == advice[r].known
        until == advice[r].until
    IN  /\ Cardinality({o \in known : filed[o].at > t}) < Limit
        /\ Cardinality({o \in known : filed[o].at >= t}) >= Limit
        /\ until >= t + Window
        /\ until - Second < t + Window \/ until - Second <= now

AdviceDecided ==
    \A r \in Shoppers : advice[r] # None =>
        /\ advice[r].known \subseteq OrdersOf(Canonical[typed[r]])
        /\ \E t \in Nat : Decides(t, r)

LimitInv == /\ LimitTypeOK
        /\ RequestShape
        /\ PoolHolds
        /\ ClaimsBounded
        /\ AdviceDecided

----------------------------------------------------------------------------
\* What the numbers of the configuration are.
LEMMA LimitSettings ==
    ASSUME CheckoutLimitAssumption
    PROVE  /\ Limit \in Nat \ {0} /\ Second \in Nat \ {0} /\ Pool \in Nat \ {0}
           /\ Window \in Nat /\ MaxTime \in Nat
           /\ Canonical \in [Spellings -> Spellings]
           /\ \A s \in Spellings : Canonical[s] \in Phones
           /\ IsFiniteSet(Requests) /\ IsFiniteSet(Shoppers)
           /\ Shoppers \cap Admins = {}
           /\ None \notin FiledRow \cup Advice
  BY FS_Subset DEF CheckoutLimitAssumption, Phones, Requests

\* Orders of a phone, and of a window of it, are finitely many.
LEMMA CountedFinite ==
    ASSUME CheckoutLimitAssumption, LimitTypeOK, NEW r \in Requests
    PROVE  /\ IsFiniteSet(OrdersOf(Canonical[typed[r]])) /\ IsFiniteSet(Counted(r))
           /\ Counted(r) \subseteq OrdersOf(Canonical[typed[r]])
           /\ \A o \in Counted(r) : filed[o].at \in Nat /\ filed[o].at >= start[r] - Window
           /\ Cardinality(Counted(r)) \in Nat
<1>1. OrdersOf(Canonical[typed[r]]) \in SUBSET Requests
  BY DEF OrdersOf
<1>2. Counted(r) \in SUBSET OrdersOf(Canonical[typed[r]])
  BY DEF Counted
<1>3. \A o \in Counted(r) : filed[o] \in FiledRow /\ filed[o].at >= start[r] - Window
  BY DEF Counted, OrdersOf, LimitTypeOK
<1> QED
  BY <1>1, <1>2, <1>3, LimitSettings, FS_Subset, FS_CardinalityType DEF FiledRow

\* The row that Retry-After is computed from is the Limit-th newest that is
\* counted, and the seconds are what is left of it, rounded up.
LEMMA RetryAfterIs ==
    ASSUME CheckoutLimitAssumption, LimitTypeOK, NEW r \in Requests, Cardinality(Counted(r)) >= Limit
    PROVE  /\ OldestCounted(r) \in Nat
           /\ OldestCounted(r) >= start[r] - Window
           /\ Cardinality({o \in Counted(r) : filed[o].at >= OldestCounted(r)}) >= Limit
           /\ Cardinality({o \in Counted(r) : filed[o].at > OldestCounted(r)}) < Limit
           /\ Second * RetryAfter(r) \in Nat
           /\ start[r] + Second * RetryAfter(r) >= OldestCounted(r) + Window
           /\ \/ start[r] + Second * RetryAfter(r) - Second < OldestCounted(r) + Window
              \/ start[r] + Second * RetryAfter(r) - Second = start[r]
<1> DEFINE at == [o \in Counted(r) |-> filed[o].at]
           t  == OldestCounted(r)
<1>0. start[r] \in Nat /\ Window \in Nat /\ Second \in Nat \ {0} /\ Limit \in Nat \ {0}
  BY LimitSettings DEF LimitTypeOK
<1>1. PICK x \in Counted(r) : /\ Cardinality({y \in Counted(r) : at[y] >= at[x]}) >= Limit
                              /\ Cardinality({y \in Counted(r) : at[y] > at[x]}) < Limit
  BY <1>0, CountedFinite, KthGreatest
<1>2. /\ {y \in Counted(r) : at[y] >= at[x]} = {o \in Counted(r) : filed[o].at >= filed[x].at}
      /\ {y \in Counted(r) : at[y] > at[x]} = {o \in Counted(r) : filed[o].at > filed[x].at}
  OBVIOUS
<1>3. /\ t \in {filed[o].at : o \in Counted(r)}
      /\ Cardinality({o \in Counted(r) : filed[o].at >= t}) >= Limit
      /\ Cardinality({o \in Counted(r) : filed[o].at > t}) < Limit
  BY <1>1, <1>2 DEF OldestCounted
<1>4. t \in Nat /\ t >= start[r] - Window
  BY <1>3, CountedFinite
<1> HIDE DEF t
<1> DEFINE left  == t + Window - start[r]
           units == (left + Second - 1) \div Second
<1>5. left \in Nat
  BY <1>0, <1>4
<1>6. units \in Nat /\ Second * units <= left + Second - 1 /\ left + Second - 1 < Second * units + Second
  <2>1. left + Second - 1 \in Nat
    BY <1>0, <1>5
  <2> HIDE DEF left
  <2> QED BY <1>0, <2>1, Division
<1>7. RetryAfter(r) = IF units < 1 THEN 1 ELSE units
  BY DEF RetryAfter, t
<1>8. PICK product \in Int : product = Second * units
  BY <1>0, <1>6
<1> HIDE DEF units
<1>9. CASE units < 1
  <2>1. units = 0 /\ RetryAfter(r) = 1
    BY <1>6, <1>7, <1>9
  <2>2. Second * units = 0 /\ Second * RetryAfter(r) = Second
    BY <1>0, <2>1
  <2>3. left <= 0
    BY <1>0, <1>5, <1>6, <2>2
  <2> QED
    BY <1>0, <1>3, <1>4, <2>2, <2>3 DEF t
<1>10. CASE ~(units < 1)
  <2>1. Second * RetryAfter(r) = product
    BY <1>7, <1>8, <1>10
  <2>2. left <= product /\ product <= left + Second - 1 /\ product \in Nat
    BY <1>0, <1>5, <1>6, <1>8
  <2> QED
    BY <1>0, <1>3, <1>4, <2>1, <2>2 DEF t
<1> QED
  BY <1>9, <1>10

----------------------------------------------------------------------------
\* Nobody has ordered yet.
LEMMA InitLimitInv ==
    ASSUME CheckoutLimitAssumption
    PROVE  LimitInit => LimitInv
<1> SUFFICES ASSUME LimitInit PROVE LimitInv
  OBVIOUS
<1>1. LimitTypeOK /\ RequestShape /\ AdviceDecided
  BY DEF LimitInit, LimitTypeOK, RequestShape, AdviceDecided, Requests
<1>2. Open = {} /\ \A phone \in Phones, end \in Nat : Claims(phone, end) = {}
  BY DEF LimitInit, Open, Claims, Requests
<1>3. PoolHolds /\ ClaimsBounded
  <2>1. 0 <= Pool /\ 0 <= Limit - 1 + Pool
    BY LimitSettings
  <2> QED BY <1>2, <2>1, FS_EmptySet DEF PoolHolds, ClaimsBounded
<1> QED
  BY <1>1, <1>3 DEF LimitInv

\* Each request is where create_order or its limit has left it.
LEMMA LimitTypeStep ==
    ASSUME CheckoutLimitAssumption, LimitInv, [LimitNext]_limitVars
    PROVE  LimitTypeOK' /\ RequestShape'
<1>0. LimitTypeOK /\ RequestShape
  BY DEF LimitInv
<1>1. ASSUME NEW r \in Requests, Begin(r)
      PROVE  LimitTypeOK' /\ RequestShape'
  BY <1>0, <1>1 DEF LimitTypeOK, RequestShape, Begin, Requests
<1>2. ASSUME NEW r \in Requests, CheckPhoneLimit(r)
      PROVE  LimitTypeOK' /\ RequestShape'
  <2>1. r \in Shoppers
    BY <1>0, <1>2 DEF CheckPhoneLimit, RequestShape
  <2>2. CASE step' = [step EXCEPT ![r] = "create"] /\ UNCHANGED <<start, advice>>
    BY <1>0, <1>2, <2>2 DEF LimitTypeOK, RequestShape, CheckPhoneLimit
  <2>3. CASE ~(step' = [step EXCEPT ![r] = "create"] /\ UNCHANGED <<start, advice>>)
    <3>1. /\ Cardinality(Counted(r)) >= Limit
          /\ step' = [step EXCEPT ![r] = "limited"] /\ start' = [start EXCEPT ![r] = 0]
          /\ advice' = [advice EXCEPT ![r] =
                           [until |-> start[r] + Second * RetryAfter(r),
                            known |-> OrdersOf(Canonical[typed[r]])]]
      BY <1>2, <2>3 DEF CheckPhoneLimit
    <3>2. start[r] + Second * RetryAfter(r) \in Nat
      <4>1. start[r] \in Nat /\ Second * RetryAfter(r) \in Nat
        BY <1>0, <3>1, RetryAfterIs DEF LimitTypeOK
      <4> QED BY <4>1
    <3>3. [until |-> start[r] + Second * RetryAfter(r),
           known |-> OrdersOf(Canonical[typed[r]])] \in Advice
      BY <3>2 DEF Advice, OrdersOf
    <3> HIDE DEF Advice
    <3> QED
      BY <1>0, <1>2, <2>1, <3>1, <3>3 DEF LimitTypeOK, RequestShape, CheckPhoneLimit
  <2> QED BY <2>2, <2>3
<1>3. ASSUME NEW r \in Requests, PostStorefrontOrder(r)
      PROVE  LimitTypeOK' /\ RequestShape'
  <2>0. None \notin FiledRow /\ [phone |-> CustomerPhone(r), at |-> start[r]] \in FiledRow
        /\ (r \in Shoppers => CustomerPhone(r) \in Phones)
    BY <1>0, LimitSettings DEF LimitTypeOK, CustomerPhone, FiledRow, Phones
  <2>1. step[r] = "create" /\ filed[r] = None /\ start' = [start EXCEPT ![r] = 0]
        /\ UNCHANGED <<now, typed, advice>>
    BY <1>0, <1>3 DEF PostStorefrontOrder, RequestShape
  <2>2. CASE /\ filed' = [filed EXCEPT ![r] = [phone |-> CustomerPhone(r), at |-> start[r]]]
             /\ step' = [step EXCEPT ![r] = "placed"]
    BY <1>0, <2>0, <2>1, <2>2 DEF LimitTypeOK, RequestShape, Requests
  <2>3. CASE step' = [step EXCEPT ![r] = "failed"] /\ UNCHANGED filed
    BY <1>0, <2>1, <2>3 DEF LimitTypeOK, RequestShape
  <2> QED BY <1>3, <2>2, <2>3 DEF PostStorefrontOrder
<1>4. CASE Tick \/ UNCHANGED limitVars
  BY <1>0, <1>4, LimitSettings DEF LimitTypeOK, RequestShape, Tick, limitVars
<1> QED
  BY <1>1, <1>2, <1>3, <1>4 DEF LimitNext

\* A transaction starts only while the pool has a connection left.
LEMMA PoolStep ==
    ASSUME CheckoutLimitAssumption, LimitInv, [LimitNext]_limitVars
    PROVE  PoolHolds'
<1>0. LimitTypeOK /\ PoolHolds /\ IsFiniteSet(Open) /\ Cardinality(Open) \in Nat /\ Pool \in Nat
  BY LimitSettings, FS_Subset, FS_CardinalityType DEF LimitInv, Open
<1>1. ASSUME NEW r \in Requests, Begin(r)
      PROVE  PoolHolds'
  <2>1. Open' = Open \cup {r} /\ Cardinality(Open) < Pool
    BY <1>0, <1>1 DEF Open, Begin, LimitTypeOK
  <2>2. /\ Cardinality(Open \cup {r}) <= Cardinality(Open) + 1
        /\ Cardinality(Open \cup {r}) \in Nat
    BY <1>0, FS_AddElement
  <2> QED BY <1>0, <2>1, <2>2 DEF PoolHolds
<1>2. ASSUME NEW r \in Requests, CheckPhoneLimit(r) \/ PostStorefrontOrder(r)
      PROVE  PoolHolds'
  <2>1. Open' \in SUBSET Open
    BY <1>0, <1>2 DEF Open, CheckPhoneLimit, PostStorefrontOrder, LimitTypeOK
  <2>2. Cardinality(Open') <= Cardinality(Open) /\ Cardinality(Open') \in Nat
    BY <1>0, <2>1, FS_Subset, FS_CardinalityType
  <2> QED BY <1>0, <2>2 DEF PoolHolds
<1>3. CASE Tick \/ UNCHANGED limitVars
  BY <1>0, <1>3 DEF PoolHolds, Open, Tick, limitVars
<1> QED
  BY <1>1, <1>2, <1>3 DEF LimitNext

\* Only a check that passes adds to the claims on a window; when it does, those
\* committed are what it has counted, and the rest are open.
LEMMA ClaimsStep ==
    ASSUME CheckoutLimitAssumption, LimitInv, [LimitNext]_limitVars
    PROVE  ClaimsBounded'
<1>0. LimitTypeOK /\ RequestShape /\ ClaimsBounded /\ LimitTypeOK' /\ PoolHolds'
  BY LimitTypeStep, PoolStep DEF LimitInv
<1>a. Limit \in Nat \ {0} /\ Pool \in Nat \ {0} /\ Window \in Nat /\ Shoppers \cap Admins = {}
  BY LimitSettings
<1> SUFFICES ASSUME NEW phone \in Phones, NEW end \in Nat
             PROVE  Cardinality(Claims(phone, end)') <= Limit - 1 + Pool
  BY DEF ClaimsBounded
<1>b. /\ IsFiniteSet(Claims(phone, end)) /\ Cardinality(Claims(phone, end)) \in Nat
      /\ Cardinality(Claims(phone, end)) <= Limit - 1 + Pool
  BY <1>0, LimitSettings, FS_Subset, FS_CardinalityType DEF Claims, ClaimsBounded
<1>1. ASSUME Claims(phone, end)' \in SUBSET Claims(phone, end)
      PROVE  Cardinality(Claims(phone, end)') <= Limit - 1 + Pool
  <2>1. /\ Cardinality(Claims(phone, end)') <= Cardinality(Claims(phone, end))
        /\ Cardinality(Claims(phone, end)') \in Nat
    BY <1>b, <1>1, FS_Subset, FS_CardinalityType
  <2> QED BY <1>a, <1>b, <2>1
<1>2. ASSUME NEW r \in Requests, Begin(r)
      PROVE  Claims(phone, end)' \in SUBSET Claims(phone, end)
  BY <1>0, <1>a, <1>2 DEF Claims, Begin, LimitTypeOK, Requests
<1>3. ASSUME NEW r \in Requests, CheckPhoneLimit(r)
      PROVE  Cardinality(Claims(phone, end)') <= Limit - 1 + Pool
  <2>1. CASE step'[r] = "create" /\ Canonical[typed[r]] = phone /\ InSpan(start[r], end)
    <3>1. Cardinality(Counted(r)) < Limit /\ UNCHANGED <<filed, start, typed>>
      BY <1>0, <1>3, <2>1 DEF CheckPhoneLimit, LimitTypeOK
    <3>2. Claims(phone, end)' \in SUBSET (Counted(r) \cup Open')
      <4> SUFFICES ASSUME NEW o \in Claims(phone, end)', o \notin Open'
                   PROVE  o \in Counted(r)
        OBVIOUS
      <4>1. filed[o] # None /\ filed[o].phone = phone /\ InSpan(filed[o].at, end) /\ o \in Requests
        BY <3>1 DEF Claims, Open, Requests
      <4>2. filed[o].at \in Nat /\ start[r] \in Nat
        BY <1>0, <4>1 DEF LimitTypeOK, FiledRow
      <4>3. filed[o].at >= start[r] - Window
        BY <1>a, <2>1, <4>1, <4>2 DEF InSpan
      <4> QED BY <2>1, <4>1, <4>3 DEF Counted, OrdersOf
    <3>3. IsFiniteSet(Counted(r)) /\ Cardinality(Counted(r)) \in Nat
      BY <1>0, CountedFinite
    <3>4. IsFiniteSet(Open') /\ Cardinality(Open') \in Nat /\ Cardinality(Open') <= Pool
      BY <1>0, LimitSettings, FS_Subset, FS_CardinalityType DEF Open, PoolHolds
    <3>5. /\ IsFiniteSet(Counted(r) \cup Open')
          /\ Cardinality(Counted(r) \cup Open') <= Cardinality(Counted(r)) + Cardinality(Open')
          /\ Cardinality(Counted(r) \cup Open') \in Nat
      <4>1. /\ IsFiniteSet(Counted(r) \cup Open')
            /\ Cardinality(Counted(r) \cup Open') =
                 Cardinality(Counted(r)) + Cardinality(Open') - Cardinality(Counted(r) \cap Open')
        BY <3>3, <3>4, FS_Union
      <4>2. Cardinality(Counted(r) \cap Open') \in Nat
        BY <3>3, FS_Intersection, FS_CardinalityType
      <4>3. Cardinality(Counted(r) \cup Open') \in Nat
        BY <4>1, FS_CardinalityType
      <4> QED BY <3>3, <3>4, <4>1, <4>2, <4>3
    <3>6. /\ Cardinality(Claims(phone, end)') <= Cardinality(Counted(r) \cup Open')
          /\ Cardinality(Claims(phone, end)') \in Nat
      BY <3>2, <3>5, FS_Subset, FS_CardinalityType
    <3> QED BY <1>a, <3>1, <3>3, <3>4, <3>5, <3>6
  <2>2. CASE ~(step'[r] = "create" /\ Canonical[typed[r]] = phone /\ InSpan(start[r], end))
    <3>1. Claims(phone, end)' \in SUBSET Claims(phone, end)
      BY <1>0, <1>3, <2>2 DEF Claims, CheckPhoneLimit, LimitTypeOK, Requests
    <3> QED BY <1>1, <3>1
  <2> QED BY <2>1, <2>2
<1>4. ASSUME NEW r \in Requests, PostStorefrontOrder(r)
      PROVE  Claims(phone, end)' \in SUBSET Claims(phone, end)
  <2>1. \A x \in Requests \ {r} : filed'[x] = filed[x] /\ step'[x] = step[x] /\ start'[x] = start[x]
    BY <1>0, <1>4 DEF PostStorefrontOrder, LimitTypeOK
  <2>2. step[r] = "create" /\ filed[r] = None /\ step'[r] # "create" /\ UNCHANGED typed
    BY <1>0, <1>4 DEF PostStorefrontOrder, LimitTypeOK, RequestShape
  <2>3. filed'[r] # None => filed'[r] = [phone |-> CustomerPhone(r), at |-> start[r]]
    BY <1>0, <1>4, <2>2 DEF PostStorefrontOrder, LimitTypeOK
  <2> QED
    BY <2>1, <2>2, <2>3 DEF Claims, CustomerPhone, Requests
<1>5. ASSUME Tick \/ UNCHANGED limitVars
      PROVE  Claims(phone, end)' \in SUBSET Claims(phone, end)
  BY <1>5 DEF Claims, Tick, limitVars
<1> QED
  BY <1>1, <1>2, <1>3, <1>4, <1>5 DEF LimitNext

\* An advice stays decided while orders are only added and time only passes.
LEMMA AdviceKept ==
    ASSUME CheckoutLimitAssumption, LimitTypeOK, now' \in Nat, now <= now', typed' = typed,
           \A o \in Requests : filed[o] # None => filed'[o] = filed[o],
           NEW r \in Shoppers, advice[r] # None, advice'[r] = advice[r],
           advice[r].known \subseteq OrdersOf(Canonical[typed[r]]),
           \E t \in Nat : Decides(t, r)
    PROVE  /\ advice'[r].known \subseteq OrdersOf(Canonical[typed[r]])'
           /\ (\E t \in Nat : Decides(t, r))'
<1>1. \A o \in advice[r].known : filed[o] # None /\ filed'[o] = filed[o]
  BY DEF OrdersOf
<1>2. advice'[r].known \subseteq OrdersOf(Canonical[typed[r]])'
  BY <1>1 DEF OrdersOf
<1>3. PICK t \in Nat : Decides(t, r)
  OBVIOUS
<1>4. /\ {o \in advice[r].known : filed'[o].at > t} = {o \in advice[r].known : filed[o].at > t}
      /\ {o \in advice[r].known : filed'[o].at >= t} = {o \in advice[r].known : filed[o].at >= t}
  BY <1>1
<1>5. now \in Nat /\ (advice[r].until - Second <= now => advice[r].until - Second <= now')
  <2>1. advice[r] \in Advice /\ now \in Nat /\ Second \in Nat
    BY LimitSettings DEF LimitTypeOK, Requests
  <2>2. advice[r].until \in Nat
    BY <2>1 DEF Advice
  <2> QED BY <2>1, <2>2
<1>6. Decides(t, r)'
  BY <1>3, <1>4, <1>5 DEF Decides
<1> QED
  BY <1>2, <1>6

\* What a limited checkout is told is decided when it is told, and stays so.
LEMMA AdviceStep ==
    ASSUME CheckoutLimitAssumption, LimitInv, [LimitNext]_limitVars
    PROVE  AdviceDecided'
<1>0. LimitTypeOK /\ RequestShape /\ AdviceDecided /\ LimitTypeOK' /\ Second \in Nat \ {0} /\ Window \in Nat
  BY LimitTypeStep, LimitSettings DEF LimitInv
<1>1. typed' = typed /\ now' \in Nat /\ now <= now'
  BY <1>0 DEF LimitNext, Begin, CheckPhoneLimit, PostStorefrontOrder, Tick, limitVars, LimitTypeOK
<1>2. \A o \in Requests : filed[o] # None => filed'[o] = filed[o]
  <2>1. ASSUME NEW c \in Requests, PostStorefrontOrder(c)
        PROVE  \A o \in Requests : filed[o] # None => filed'[o] = filed[o]
    BY <1>0, <2>1 DEF PostStorefrontOrder, RequestShape, LimitTypeOK
  <2> QED
    BY <2>1 DEF LimitNext, Begin, CheckPhoneLimit, Tick, limitVars
<1> SUFFICES ASSUME NEW r \in Shoppers, advice'[r] # None
             PROVE  /\ advice'[r].known \subseteq OrdersOf(Canonical[typed[r]])'
                    /\ (\E t \in Nat : Decides(t, r))'
  BY DEF AdviceDecided
<1>3. CASE advice'[r] = advice[r]
  BY <1>0, <1>1, <1>2, <1>3, AdviceKept DEF AdviceDecided
<1>4. CASE advice'[r] # advice[r]
  <2>0. r \in Requests
    BY DEF Requests
  <2>1. CheckPhoneLimit(r)
    BY <1>0, <1>4, <2>0 DEF LimitNext, Begin, CheckPhoneLimit, PostStorefrontOrder, Tick, limitVars, LimitTypeOK
  <2>2. /\ Cardinality(Counted(r)) >= Limit
        /\ advice'[r] = [until |-> start[r] + Second * RetryAfter(r),
                         known |-> OrdersOf(Canonical[typed[r]])]
        /\ UNCHANGED <<now, typed, filed>>
    BY <1>0, <1>4, <2>0, <2>1 DEF CheckPhoneLimit, LimitTypeOK
  <2> DEFINE known == OrdersOf(Canonical[typed[r]])
  <2>3. PICK t \in Nat, left \in Nat :
           /\ t = OldestCounted(r) /\ left = Second * RetryAfter(r)
           /\ t >= start[r] - Window
           /\ Cardinality({o \in Counted(r) : filed[o].at >= t}) >= Limit
           /\ Cardinality({o \in Counted(r) : filed[o].at > t}) < Limit
           /\ start[r] + left >= t + Window
           /\ start[r] + left - Second < t + Window \/ start[r] + left - Second = start[r]
    BY <1>0, <2>0, <2>2, RetryAfterIs
  <2>4. start[r] \in Nat /\ start[r] <= now /\ now' = now
    BY <1>0, <2>0, <2>2 DEF LimitTypeOK, RequestShape
  <2>5. \A o \in known : filed[o].at \in Nat
    BY <1>0 DEF OrdersOf, LimitTypeOK, FiledRow
  <2>6. /\ {o \in known : filed[o].at >= t} = {o \in Counted(r) : filed[o].at >= t}
        /\ {o \in known : filed[o].at > t} = {o \in Counted(r) : filed[o].at > t}
    BY <1>0, <2>3, <2>4, <2>5 DEF Counted
  <2>7. PICK until \in Nat : until = start[r] + left
    BY <2>3, <2>4
  <2>8. /\ advice'[r].until = until /\ advice'[r].known = known
        /\ until >= t + Window
        /\ until - Second < t + Window \/ until - Second <= now
    <3>1. advice'[r] = [until |-> until, known |-> known]
      BY <2>2, <2>3, <2>7
    <3>2. /\ until >= t + Window
          /\ until - Second < t + Window \/ until - Second <= now
      <4> HIDE DEF known
      <4> QED BY <1>0, <1>1, <2>3, <2>4, <2>7
    <3> QED BY <3>1, <3>2
  <2>9. Decides(t, r)'
    <3>1. /\ {o \in advice'[r].known : filed'[o].at >= t} = {o \in Counted(r) : filed[o].at >= t}
          /\ {o \in advice'[r].known : filed'[o].at > t} = {o \in Counted(r) : filed[o].at > t}
      BY <2>2, <2>6, <2>8
    <3> QED
      BY <2>3, <2>4, <2>8, <3>1 DEF Decides
  <2>10. advice'[r].known \subseteq OrdersOf(Canonical[typed[r]])'
    BY <2>2 DEF OrdersOf
  <2> QED BY <2>9, <2>10
<1> QED
  BY <1>3, <1>4

----------------------------------------------------------------------------
\* LimitInv holds of every reachable state, whatever the limit, the window, the
\* pool and the number of checkouts.
THEOREM LimitInductive ==
    ASSUME CheckoutLimitAssumption
    PROVE  LimitSpec => []LimitInv
<1>1. LimitInv /\ [LimitNext]_limitVars => LimitInv'
  BY LimitTypeStep, PoolStep, ClaimsStep, AdviceStep DEF LimitInv
<1> QED
  BY InitLimitInv, <1>1, PTL DEF LimitSpec

\* The rows and requests of the public checkout keep their types, and a public
\* order is filed under the canonical form of its phone.
THEOREM LimitTypesHold ==
    ASSUME CheckoutLimitAssumption
    PROVE  LimitSpec => []LimitTypeOK
<1>1. LimitInv => LimitTypeOK
  BY DEF LimitInv
<1> QED
  BY LimitInductive, <1>1, PTL

\* check_checkout_phone_limit counts without a lock, so checkouts that overlap
\* may exceed the limit, but by no more than the connections there are.
THEOREM OvershootIsBounded ==
    ASSUME CheckoutLimitAssumption
    PROVE  LimitSpec => []BoundedOvershoot
<1>1. ASSUME LimitInv PROVE BoundedOvershoot
  <2> SUFFICES ASSUME NEW x \in Requests, filed[x] # None
               PROVE  Cardinality(InWindow(x)) <= Limit - 1 + Pool
    BY DEF BoundedOvershoot
  <2>0. filed[x].at \in Nat /\ LimitTypeOK /\ ClaimsBounded
    BY <1>1 DEF LimitInv, LimitTypeOK, FiledRow
  <2>1. 0 <= Limit - 1 + Pool /\ Limit - 1 + Pool \in Nat
    BY LimitSettings
  <2>2. CASE filed[x].phone \in Phones
    <3> DEFINE claims == Claims(filed[x].phone, filed[x].at)
    <3>1. InWindow(x) \in SUBSET claims
      BY DEF InWindow, OrdersOf, Claims, InSpan
    <3>2. IsFiniteSet(claims) /\ Cardinality(claims) \in Nat /\ Cardinality(claims) <= Limit - 1 + Pool
      BY <2>0, <2>2, LimitSettings, FS_Subset, FS_CardinalityType DEF Claims, ClaimsBounded
    <3>3. Cardinality(InWindow(x)) <= Cardinality(claims) /\ Cardinality(InWindow(x)) \in Nat
      <4> HIDE DEF claims
      <4> QED BY <3>1, <3>2, FS_Subset, FS_CardinalityType
    <3> QED BY <2>1, <3>2, <3>3
  <2>3. CASE filed[x].phone \notin Phones
    <3>1. InWindow(x) = {}
      BY <2>0, <2>3 DEF InWindow, OrdersOf, LimitTypeOK
    <3> QED BY <2>1, <3>1, FS_EmptySet
  <2> QED BY <2>2, <2>3
<1> QED
  BY LimitInductive, <1>1, PTL

\* Retry-After: a second after it a phone that has ordered nothing meanwhile is
\* below the limit again, and a second before it, it is not.
THEOREM RetryAfterIsRight ==
    ASSUME CheckoutLimitAssumption
    PROVE  LimitSpec => []RetryAfterIsTight
<1>1. ASSUME LimitInv PROVE RetryAfterIsTight
  <2> SUFFICES ASSUME NEW r \in Shoppers, advice[r] # None,
                      NEW phone, phone = Canonical[typed[r]],
                      NEW ordered, ordered = {o \in OrdersOf(phone) : filed[o].at >= now - Window}
               PROVE  /\ now >= advice[r].until + Second /\ OrdersOf(phone) = advice[r].known =>
                            Cardinality(ordered) < Limit
                      /\ now < advice[r].until - Second => Cardinality(ordered) >= Limit
    BY DEF RetryAfterIsTight
  <2>0. /\ LimitTypeOK /\ AdviceDecided /\ r \in Requests
        /\ Second \in Nat \ {0} /\ Window \in Nat /\ Limit \in Nat \ {0} /\ now \in Nat
    BY <1>1, LimitSettings DEF LimitInv, LimitTypeOK, Requests
  <2>1. advice[r] \in Advice
    BY <2>0 DEF LimitTypeOK
  <2> DEFINE known == advice[r].known
             until == advice[r].until
  <2>2. until \in Nat /\ known \subseteq OrdersOf(phone)
    BY <2>0, <2>1 DEF Advice, AdviceDecided
  <2>3. PICK t \in Nat : Decides(t, r)
    BY <2>0 DEF AdviceDecided
  <2> DEFINE after == {o \in known : filed[o].at > t}
             from  == {o \in known : filed[o].at >= t}
  <2>4. /\ Cardinality(after) < Limit /\ Cardinality(from) >= Limit
        /\ until >= t + Window
        /\ until - Second < t + Window \/ until - Second <= now
    BY <2>3 DEF Decides
  <2>5. \A o \in OrdersOf(phone) : filed[o].at \in Nat
    BY <2>0 DEF OrdersOf, LimitTypeOK, FiledRow
  <2>6. IsFiniteSet(OrdersOf(phone)) /\ IsFiniteSet(ordered) /\ IsFiniteSet(after) /\ IsFiniteSet(from)
    BY <2>0, <2>2, CountedFinite, FS_Subset
  <2>7. Cardinality(ordered) \in Nat /\ Cardinality(after) \in Nat /\ Cardinality(from) \in Nat
    BY <2>6, FS_CardinalityType
  <2>8. ASSUME now >= until + Second, OrdersOf(phone) = known
        PROVE  Cardinality(ordered) < Limit
    <3>1. now - Window > t
      BY <2>0, <2>2, <2>4, <2>8
    <3>2. ordered \in SUBSET after
      BY <2>0, <2>5, <2>8, <3>1
    <3>3. Cardinality(ordered) <= Cardinality(after)
      BY <2>6, <3>2, FS_Subset
    <3> QED BY <2>0, <2>4, <2>7, <3>3
  <2>9. ASSUME now < until - Second
        PROVE  Cardinality(ordered) >= Limit
    <3>1. now - Window < t
      BY <2>0, <2>2, <2>4, <2>9
    <3>2. from \in SUBSET ordered
      BY <2>0, <2>2, <2>5, <3>1
    <3>3. Cardinality(from) <= Cardinality(ordered)
      BY <2>6, <3>2, FS_Subset
    <3> QED BY <2>0, <2>4, <2>7, <3>3
  <2> QED BY <2>8, <2>9
<1> QED
  BY LimitInductive, <1>1, PTL

----------------------------------------------------------------------------
(* Pricing: what is kept along the way *)

PricedRow == [listed : {"absent", "inactive", "active"}, price : Prices \cup {None}, stock : Nat]

\* The catalogue and the cart, whatever the bounds.
PricingShape ==
    /\ catalogue \in [Plants -> PricedRow]
    /\ cart \in Seq(Line)
    /\ result \in {"open", "rejected", "placed"}

\* What a quote says, of the catalogue and the cart as they are.
QuoteNow ==
    [price  |-> PriceOrder(cart),
     lines  |-> [i \in DOMAIN cart |-> [available |-> Available(cart[i]), max |-> MaxQuantity(cart[i])]],
     toFree |-> AmountToFreeShipping(PriceOrder(cart).subtotal)]

\* A quote stays true until an order takes its stock; its price outlasts that.
QuoteKept ==
    quote # None =>
        /\ result # "placed" => quote = QuoteNow
        /\ quote.price = PriceOrder(cart)

\* An order is the cart at the prices of the catalogue, and took its units off the stock.
OrderKept ==
    result = "placed" =>
        /\ order.price = PriceOrder(cart)
        /\ order.items = [i \in DOMAIN cart |->
                            [plant |-> cart[i].plant, qty |-> cart[i].qty,
                             unit  |-> catalogue[cart[i].plant].price]]
        /\ \A i \in DOMAIN cart : Available(cart[i])
        /\ \A p \in Plants : order.before[p] \in Nat /\ catalogue[p].stock = order.before[p] - Requested(p)

PricingInv ==
    /\ PricingShape /\ QuoteKept /\ OrderKept
    /\ result = "rejected" => ~Accepted

\* The lines of a cart, and what of each plant they ask for.
LEMMA CartLines ==
    ASSUME PricingAssumption, PricingShape
    PROVE  /\ IsFiniteSet(DOMAIN cart)
           /\ \A i \in DOMAIN cart : cart[i].plant \in Plants /\ cart[i].qty \in Nat \ {0}
           /\ \A p \in Plants : Requested(p) \in Nat
           /\ \A p \in Plants : Requested(p) > 0 <=> LinesOf(p) # {}
<1>1. /\ IsFiniteSet(DOMAIN cart)
      /\ \A i \in DOMAIN cart : cart[i].plant \in Plants /\ cart[i].qty \in Nat \ {0}
  <2>1. Len(cart) \in Nat /\ DOMAIN cart = 1 .. Len(cart) /\ \A i \in DOMAIN cart : cart[i] \in Line
    BY DEF PricingShape
  <2>2. \A l \in Line : l.plant \in Plants /\ l.qty \in Nat \ {0}
    BY DEF Line, PricingAssumption
  <2> QED
    BY <2>1, <2>2, FS_Interval
<1>2. \A i \in DOMAIN cart : Quantities[i] \in Nat \ {0}
  BY <1>1 DEF Quantities
<1>3. ASSUME NEW p \in Plants PROVE Requested(p) \in Nat /\ (Requested(p) > 0 <=> LinesOf(p) # {})
  <2>1. IsFiniteSet(LinesOf(p)) /\ \A i \in LinesOf(p) : Quantities[i] \in Nat \ {0}
    BY <1>1, <1>2, FS_Subset DEF LinesOf
  <2>2. Requested(p) \in Nat
    BY <2>1, SumNat DEF Requested
  <2>3. LinesOf(p) = {} => Requested(p) = 0
    BY SumEmpty DEF Requested
  <2>4. ASSUME NEW i \in LinesOf(p) PROVE Requested(p) > 0
    <3>1. AllInts(Quantities, LinesOf(p)) /\ IsFiniteSet(LinesOf(p) \ {i})
      BY <2>1, FS_Subset DEF AllInts
    <3>2. Requested(p) = Quantities[i] + SumFunctionOnSet(Quantities, LinesOf(p) \ {i})
      BY <3>1, SumTake DEF Requested
    <3>3. SumFunctionOnSet(Quantities, LinesOf(p) \ {i}) \in Nat
      BY <2>1, <3>1, SumNat
    <3> QED
      BY <2>1, <3>2, <3>3
  <2> QED
    BY <2>2, <2>3, <2>4
<1> QED
  BY <1>1, <1>3

\* The total of a line, of a plant with a price, and the subtotal.
LEMMA LineTotals ==
    ASSUME PricingAssumption, PricingShape
    PROVE  /\ \A i \in DOMAIN cart : LineTotal(cart[i]) \in Nat
           /\ PriceOrder(cart).subtotal = SumFunctionOnSet([i \in DOMAIN cart |-> LineTotal(cart[i])], DOMAIN cart)
           /\ PriceOrder(cart).total \in Nat
<1>1. ASSUME NEW i \in DOMAIN cart PROVE LineTotal(cart[i]) \in Nat
  <2>1. cart[i].qty \in Nat /\ cart[i].plant \in Plants
    BY CartLines
  <2>2. Available(cart[i]) => catalogue[cart[i].plant].price \in Nat
    BY <2>1 DEF Available, PricingShape, PricedRow, PricingAssumption
  <2>3. \A a, b \in Nat : a * b \in Nat
    OBVIOUS
  <2> QED
    BY <2>1, <2>2, <2>3 DEF LineTotal
<1> DEFINE totals == [i \in DOMAIN cart |-> LineTotal(cart[i])]
<1>2. PriceOrder(cart).subtotal = SumFunctionOnSet(totals, DOMAIN cart)
  BY DEF PriceOrder, SumFunction
<1>3. SumFunctionOnSet(totals, DOMAIN cart) \in Nat
  <2>1. IsFiniteSet(DOMAIN cart) /\ \A i \in DOMAIN cart : totals[i] \in Nat
    BY <1>1, CartLines
  <2> HIDE DEF totals
  <2> QED
    BY <2>1, SumNat
<1>4. PriceOrder(cart).total \in Nat
  <2>1. PriceOrder(cart).total = PriceOrder(cart).subtotal + PriceOrder(cart).shipping
    BY DEF PriceOrder
  <2>2. PriceOrder(cart).shipping \in Nat
    BY DEF PriceOrder, ShippingFeeFor, PricingAssumption
  <2> QED
    BY <1>2, <1>3, <2>1, <2>2
<1> QED
  BY <1>1, <1>2, <1>4

\* What a plant has in stock is no part of its price.
LEMMA PriceIgnoresStock ==
    ASSUME UNCHANGED cart,
           \A i \in DOMAIN cart : /\ catalogue'[cart[i].plant].listed = catalogue[cart[i].plant].listed
                                  /\ catalogue'[cart[i].plant].price = catalogue[cart[i].plant].price
    PROVE  /\ PriceOrder(cart)' = PriceOrder(cart)
           /\ \A i \in DOMAIN cart : Available(cart[i])' <=> Available(cart[i])
<1>1. \A i \in DOMAIN cart : Available(cart[i])' <=> Available(cart[i])
  BY DEF Available
<1>2. \A i \in DOMAIN cart : LineTotal(cart[i])' = LineTotal(cart[i])
  BY <1>1 DEF LineTotal
<1>3. [i \in DOMAIN cart |-> LineTotal(cart[i])]' = [i \in DOMAIN cart |-> LineTotal(cart[i])]
  BY <1>2
<1>4. SumFunction([i \in DOMAIN cart |-> LineTotal(cart[i])])' = SumFunction([i \in DOMAIN cart |-> LineTotal(cart[i])])
  BY <1>3
<1>5. (\E i \in DOMAIN cart : Available(cart[i]))' <=> \E i \in DOMAIN cart : Available(cart[i])
  BY <1>1
<1> QED
  BY <1>1, <1>4, <1>5 DEF PriceOrder, ShippingFeeFor

\* Before the first quote.
LEMMA InitPricingInv == ASSUME PricingAssumption, PricingInit PROVE PricingInv
<1>1. catalogue \in [Plants -> PricedRow]
  <2>1. 0 .. MaxStock \subseteq Nat
    BY DEF PricingAssumption
  <2>2. PlantRow \subseteq PricedRow
    BY <2>1 DEF PlantRow, PricedRow, Absent
  <2> QED
    BY <2>2 DEF PricingInit
<1>2. cart \in Seq(Line)
  BY DEF PricingInit, BoundedSeq, SeqOf
<1> QED
  BY <1>1, <1>2 DEF PricingInit, PricingInv, PricingShape, QuoteKept, OrderKept

\* A checkout takes the units off the shelf that its lines ask for.
LEMMA PlacedStep ==
    ASSUME PricingAssumption, PricingInv, CreateOrder, Accepted
    PROVE  PricingInv'
<1>1. /\ result = "open" /\ result' = "placed" /\ UNCHANGED <<cart, quote>>
      /\ order' = [price |-> PriceOrder(cart),
                   items |-> [i \in DOMAIN cart |->
                                [plant |-> cart[i].plant, qty |-> cart[i].qty,
                                 unit  |-> catalogue[cart[i].plant].price]],
                   before |-> [p \in Plants |-> catalogue[p].stock]]
      /\ catalogue' = [p \in Plants |-> [catalogue[p] EXCEPT !.stock = @ - Requested(p)]]
  BY DEF CreateOrder
<1>2. PricingShape /\ QuoteKept
  BY DEF PricingInv
<1>3. \A p \in Plants : Requested(p) \in Nat /\ Requested(p) <= catalogue[p].stock
  <2>1. \A p \in Plants : Requested(p) \in Nat /\ catalogue[p].stock \in Nat
    BY <1>2, CartLines DEF PricingShape, PricedRow
  <2>2. \A p \in Plants : Requested(p) > 0 => Requested(p) <= catalogue[p].stock
    BY DEF Accepted
  <2> QED
    BY <2>1, <2>2
<1>4. \A p \in Plants : /\ catalogue'[p].listed = catalogue[p].listed
                        /\ catalogue'[p].price = catalogue[p].price
                        /\ catalogue'[p].stock = catalogue[p].stock - Requested(p)
                        /\ catalogue'[p] \in PricedRow
  <2> SUFFICES ASSUME NEW p \in Plants
               PROVE  /\ catalogue'[p].listed = catalogue[p].listed
                      /\ catalogue'[p].price = catalogue[p].price
                      /\ catalogue'[p].stock = catalogue[p].stock - Requested(p)
                      /\ catalogue'[p] \in PricedRow
    OBVIOUS
  <2>1. catalogue[p] \in PricedRow
    BY <1>2 DEF PricingShape
  <2>2. catalogue'[p] = [catalogue[p] EXCEPT !.stock = @ - Requested(p)]
    BY <1>1
  <2>3. catalogue[p].stock \in Nat /\ catalogue[p].stock - Requested(p) \in Nat
    BY <1>3, <2>1 DEF PricedRow
  <2> QED
    BY <2>1, <2>2, <2>3 DEF PricedRow
<1>5. PricingShape'
  BY <1>1, <1>2, <1>4 DEF PricingShape
<1>6. PriceOrder(cart)' = PriceOrder(cart) /\ \A i \in DOMAIN cart : Available(cart[i])' <=> Available(cart[i])
  <2>1. \A i \in DOMAIN cart : cart[i].plant \in Plants
    BY <1>2, CartLines
  <2> QED
    BY <1>1, <1>4, <2>1, PriceIgnoresStock
<1>7. QuoteKept'
  BY <1>1, <1>2, <1>6 DEF QuoteKept
<1>8. OrderKept'
  <2>1. order'.price = PriceOrder(cart)'
    BY <1>1, <1>6
  <2>2. \A i \in DOMAIN cart : catalogue'[cart[i].plant].price = catalogue[cart[i].plant].price
    BY <1>2, <1>4, CartLines
  <2>3. order'.items = [i \in DOMAIN cart' |->
                          [plant |-> cart'[i].plant, qty |-> cart'[i].qty,
                           unit  |-> catalogue'[cart'[i].plant].price]]
    BY <1>1, <2>2
  <2>4. \A i \in DOMAIN cart' : Available(cart[i])'
    BY <1>1, <1>6 DEF Accepted
  <2>5. ASSUME NEW p \in Plants
        PROVE  order'.before[p] \in Nat /\ catalogue'[p].stock = order'.before[p] - Requested(p)'
    <3>1. Requested(p)' = Requested(p)
      BY <1>1 DEF Requested, Quantities, LinesOf
    <3>2. order'.before[p] = catalogue[p].stock /\ catalogue[p].stock \in Nat
      BY <1>1, <1>2 DEF PricingShape, PricedRow
    <3> QED
      BY <1>4, <3>1, <3>2
  <2> QED
    BY <2>1, <2>3, <2>4, <2>5 DEF OrderKept
<1> QED
  BY <1>1, <1>5, <1>7, <1>8 DEF PricingInv

\* Every step keeps the invariant.
LEMMA PricingStep ==
    ASSUME PricingAssumption, PricingInv, [PricingNext]_pricingVars
    PROVE  PricingInv'
<1>0. PricingShape /\ QuoteKept /\ OrderKept /\ (result = "rejected" => ~Accepted)
  BY DEF PricingInv
<1>1. CASE QuoteOrder
  <2>1. quote' = QuoteNow /\ result = "open" /\ UNCHANGED <<catalogue, cart, result, order>>
    BY <1>1 DEF QuoteOrder, QuoteNow
  <2>2. QuoteNow' = QuoteNow /\ QuoteNow.price = PriceOrder(cart) /\ PriceOrder(cart)' = PriceOrder(cart)
    BY <2>1 DEF QuoteNow, PriceOrder, LineTotal, Available, MaxQuantity
  <2> QED
    BY <1>0, <2>1, <2>2 DEF PricingInv, PricingShape, QuoteKept, OrderKept
<1>2. CASE CreateOrder /\ Accepted
  BY <1>2, PlacedStep
<1>3. CASE CreateOrder /\ ~Accepted
  <2>1. result = "open" /\ result' = "rejected" /\ UNCHANGED <<catalogue, cart, quote, order>>
    BY <1>3 DEF CreateOrder
  <2>2. QuoteNow' = QuoteNow /\ PriceOrder(cart)' = PriceOrder(cart) /\ (Accepted' <=> Accepted)
    BY <2>1 DEF QuoteNow, PriceOrder, LineTotal, Available, MaxQuantity, Accepted, Requested, Quantities, LinesOf
  <2> QED
    BY <1>0, <1>3, <2>1, <2>2 DEF PricingInv, PricingShape, QuoteKept, OrderKept
<1>4. ASSUME NEW p \in Plants, NEW plant \in PlantRow, EditPlant(p, plant) PROVE PricingInv'
  <2>1. result = "open" /\ quote' = None /\ UNCHANGED <<cart, result, order>>
        /\ catalogue' = [catalogue EXCEPT ![p] = plant]
    BY <1>4 DEF EditPlant
  <2>2. plant \in PricedRow
    <3>1. 0 .. MaxStock \subseteq Nat
      BY DEF PricingAssumption
    <3> QED
      BY <3>1 DEF PlantRow, PricedRow, Absent
  <2>3. PricingShape'
    BY <1>0, <2>1, <2>2 DEF PricingShape
  <2> QED
    BY <2>1, <2>3 DEF PricingInv, QuoteKept, OrderKept
<1>5. CASE UNCHANGED pricingVars
  <2>1. UNCHANGED <<catalogue, cart, quote, result, order>>
    BY <1>5 DEF pricingVars
  <2>2. QuoteNow' = QuoteNow /\ PriceOrder(cart)' = PriceOrder(cart) /\ (Accepted' <=> Accepted)
    BY <2>1 DEF QuoteNow, PriceOrder, LineTotal, Available, MaxQuantity, Accepted, Requested, Quantities, LinesOf
  <2>3. OrderKept'
    BY <1>0, <2>1 DEF OrderKept, PriceOrder, LineTotal, Available, Requested, Quantities, LinesOf
  <2> QED
    BY <1>0, <2>1, <2>2, <2>3 DEF PricingInv, PricingShape, QuoteKept
<1> QED
  BY <1>1, <1>2, <1>3, <1>4, <1>5 DEF PricingNext

\* It holds along every cart.
LEMMA PricingInvariant == ASSUME PricingAssumption PROVE PricingSpec => []PricingInv
<1>1. PricingInit => PricingInv
  BY InitPricingInv
<1>2. PricingInv /\ [PricingNext]_pricingVars => PricingInv'
  BY PricingStep
<1> QED
  BY <1>1, <1>2, PTL DEF PricingSpec

\* A quote that is still current is what the checkout charges, and an available cart within
\* the stock is not turned down (quote_order, create_order).
THEOREM QuotesAreHonoured == ASSUME PricingAssumption PROVE PricingSpec => []QuoteHonoured
<1>1. ASSUME PricingInv PROVE QuoteHonoured
  <2> SUFFICES ASSUME quote # None
               PROVE  /\ IsOrder => order.price = quote.price
                      /\ result = "rejected" =>
                            \/ cart = <<>> \/ quote.price.total > MaxTotalAmount
                            \/ \E i \in DOMAIN cart :
                                  ~quote.lines[i].available \/ Requested(cart[i].plant) > quote.lines[i].max
    BY DEF QuoteHonoured
  <2>0. PricingShape /\ QuoteKept /\ OrderKept
    BY <1>1 DEF PricingInv
  <2>1. IsOrder => order.price = quote.price
    BY <2>0 DEF IsOrder, QuoteKept, OrderKept
  <2>2. ASSUME result = "rejected", cart # <<>>, ~(quote.price.total > MaxTotalAmount),
               \A i \in DOMAIN cart :
                  quote.lines[i].available /\ ~(Requested(cart[i].plant) > quote.lines[i].max)
        PROVE  FALSE
    <3>1. ~Accepted /\ quote = QuoteNow
      BY <1>1, <2>0, <2>2 DEF PricingInv, QuoteKept
    <3>2. \A i \in DOMAIN cart : quote.lines[i] = [available |-> Available(cart[i]), max |-> MaxQuantity(cart[i])]
      BY <3>1 DEF QuoteNow
    <3>3. \A i \in DOMAIN cart : Available(cart[i]) /\ ~(Requested(cart[i].plant) > catalogue[cart[i].plant].stock)
      <4> SUFFICES ASSUME NEW i \in DOMAIN cart
                   PROVE  Available(cart[i]) /\ ~(Requested(cart[i].plant) > catalogue[cart[i].plant].stock)
        OBVIOUS
      <4>1. quote.lines[i].available = Available(cart[i]) /\ quote.lines[i].max = MaxQuantity(cart[i])
        <5>1. PICK a, m : a = Available(cart[i]) /\ m = MaxQuantity(cart[i])
          OBVIOUS
        <5>2. quote.lines[i] = [available |-> a, max |-> m]
          BY <3>2, <5>1, Zenon
        <5>3. quote.lines[i].available = a /\ quote.lines[i].max = m
          BY <5>2
        <5> QED
          BY <5>1, <5>3, Zenon
      <4>2. quote.lines[i].available /\ ~(Requested(cart[i].plant) > quote.lines[i].max)
        BY <2>2
      <4>3. Available(cart[i])
        BY <4>1, <4>2, Zenon
      <4> QED
        BY <4>1, <4>2, <4>3 DEF MaxQuantity
    <3>4. PriceOrder(cart).total <= MaxTotalAmount
      <4>1. quote.price = PriceOrder(cart) /\ PriceOrder(cart).total \in Nat /\ MaxTotalAmount \in Nat
        BY <2>0, LineTotals DEF QuoteKept, PricingAssumption
      <4> QED
        BY <2>2, <4>1
    <3>5. ASSUME NEW p \in Plants, Requested(p) > 0
          PROVE  catalogue[p].listed = "active" /\ Requested(p) <= catalogue[p].stock
      <4>1. LinesOf(p) # {} /\ Requested(p) \in Nat /\ catalogue[p].stock \in Nat
        BY <2>0, <3>5, CartLines DEF PricingShape, PricedRow
      <4>2. PICK i \in DOMAIN cart : cart[i].plant = p
        BY <4>1 DEF LinesOf
      <4>3. Available(cart[i]) /\ ~(Requested(p) > catalogue[p].stock)
        BY <3>3, <4>2
      <4> QED
        BY <4>1, <4>2, <4>3 DEF Available
    <3> QED
      BY <2>2, <3>1, <3>3, <3>4, <3>5 DEF Accepted
  <2> QED
    BY <2>1, <2>2
<1> QED
  BY <1>1, PricingInvariant, PTL

\* What leaves the shelf is what is charged for, at the prices frozen on the items
\* (create_order: plant.stock -= quantity, OrderItem.unit_price, subtotal).
THEOREM WhatLeavesIsCharged == ASSUME PricingAssumption PROVE PricingSpec => []ChargedForWhatLeaves
<1>1. ASSUME PricingInv PROVE ChargedForWhatLeaves
  <2> SUFFICES ASSUME IsOrder PROVE ChargedForWhatLeaves
    BY DEF ChargedForWhatLeaves
  <2> DEFINE Taken(p) == order.before[p] - catalogue[p].stock
             Unit1(p) == CHOOSE u \in {order.items[i].unit : i \in
                             {j \in DOMAIN order.items : order.items[j].plant = p}} : TRUE
             sold   == {p \in Plants : Taken(p) > 0}
             totals == [i \in DOMAIN cart |-> LineTotal(cart[i])]
             plantOf == [i \in DOMAIN cart |-> cart[i].plant]
  <2>0. PricingShape /\ OrderKept /\ result = "placed"
    BY <1>1 DEF PricingInv, IsOrder
  <2>1. ASSUME NEW p \in Plants
        PROVE  Taken(p) = Requested(p) /\ Requested(p) \in Nat /\ catalogue[p].stock >= 0
    <3>1. /\ order.before[p] \in Nat /\ catalogue[p].stock = order.before[p] - Requested(p)
          /\ Requested(p) \in Nat /\ catalogue[p].stock \in Nat
      BY <2>0, CartLines DEF OrderKept, PricingShape, PricedRow
    <3> QED
      BY <3>1
  <2>2. IsFiniteSet(DOMAIN cart) /\ \A i \in DOMAIN cart : cart[i].plant \in Plants /\ cart[i].qty \in Nat
    BY <2>0, CartLines
  <2>3. sold = {p \in Plants : LinesOf(p) # {}}
    BY <2>0, <2>1, CartLines
  <2>4. AllInts(totals, DOMAIN cart)
    <3>1. \A i \in DOMAIN cart : totals[i] \in Nat
      BY <2>0, LineTotals
    <3> HIDE DEF totals
    <3> QED
      BY <2>2, <3>1 DEF AllInts
  <2>5. /\ IsFiniteSet(sold) /\ \A i \in DOMAIN cart : plantOf[i] \in sold
    <3>1. IsFiniteSet(sold)
      BY FS_Subset DEF PricingAssumption
    <3>2. \A i \in DOMAIN cart : plantOf[i] \in {p \in Plants : LinesOf(p) # {}}
      BY <2>2 DEF LinesOf
    <3> QED
      BY <2>3, <3>1, <3>2
  <2>6. SumFunctionOnSet([p \in sold |-> SumFunctionOnSet(totals, {i \in DOMAIN cart : plantOf[i] = p})], sold)
          = SumFunctionOnSet(totals, DOMAIN cart)
    <3> HIDE DEF totals, plantOf, sold
    <3> QED
      BY <2>4, <2>5, SumGroups
  <2>7. ASSUME NEW p \in sold
        PROVE  SumFunctionOnSet(totals, {i \in DOMAIN cart : plantOf[i] = p}) = Taken(p) * Unit1(p)
    <3> DEFINE u == catalogue[p].price
    <3>1. {i \in DOMAIN cart : plantOf[i] = p} = LinesOf(p) /\ LinesOf(p) # {} /\ p \in Plants
      BY <2>3 DEF LinesOf
    <3>2. \A i \in LinesOf(p) : i \in DOMAIN cart /\ cart[i].plant = p /\ Available(cart[i])
      BY <2>0 DEF LinesOf, OrderKept
    <3>3. u \in Nat
      <4>1. catalogue[p].price # None
        BY <3>1, <3>2 DEF Available
      <4> QED
        BY <2>0, <3>1, <4>1 DEF PricingShape, PricedRow, PricingAssumption
    <3>4. AllInts(Quantities, LinesOf(p))
      <4>1. LinesOf(p) \subseteq DOMAIN cart /\ \A i \in LinesOf(p) : Quantities[i] \in Nat
        BY <2>2 DEF LinesOf, Quantities
      <4> QED
        BY <2>2, <4>1, FS_Subset DEF AllInts
    <3>5. \A i \in LinesOf(p) : totals[i] = u * Quantities[i]
      <4>1. \A i \in LinesOf(p) : totals[i] = u * cart[i].qty
        BY <3>2 DEF LineTotal
      <4> QED
        BY <3>2, <4>1 DEF Quantities
    <3>6. SumFunctionOnSet(totals, LinesOf(p)) = u * Requested(p)
      <4> HIDE DEF totals, u
      <4> QED
        BY <3>3, <3>4, <3>5, SumScaled DEF Requested
    <3>7. Unit1(p) = u
      <4>1. DOMAIN order.items = DOMAIN cart
            /\ \A i \in DOMAIN cart : order.items[i].plant = cart[i].plant
                                      /\ order.items[i].unit = catalogue[cart[i].plant].price
        BY <2>0 DEF OrderKept
      <4>2. {j \in DOMAIN order.items : order.items[j].plant = p} = LinesOf(p)
        BY <4>1 DEF LinesOf
      <4>3. {order.items[i].unit : i \in LinesOf(p)} = {u}
        BY <3>1, <3>2, <4>1
      <4> QED
        BY <4>2, <4>3
    <3>8. Taken(p) = Requested(p) /\ Requested(p) \in Nat
      BY <2>1, <3>1
    <3>9. \A a, b \in Nat : a * b = b * a
      OBVIOUS
    <3> HIDE DEF totals, plantOf, Taken, Unit1
    <3> QED
      BY <3>1, <3>3, <3>6, <3>7, <3>8, <3>9
  <2> DEFINE charged == [p \in Plants |-> Taken(p) * Unit1(p)]
             grouped == [p \in sold |-> SumFunctionOnSet(totals, {i \in DOMAIN cart : plantOf[i] = p})]
  <2>8. \A p \in sold : grouped[p] = charged[p]
    BY <2>7
  <2>9. AllInts(grouped, sold)
    <3>1. ASSUME NEW p \in sold PROVE grouped[p] \in Int
      <4> DEFINE mine == {i \in DOMAIN cart : plantOf[i] = p}
      <4>1. mine \subseteq DOMAIN cart
        OBVIOUS
      <4> HIDE DEF totals, mine
      <4>2. AllInts(totals, mine)
        BY <2>4, <4>1, AllIntsOfPart
      <4>3. SumFunctionOnSet(totals, mine) \in Int
        BY <4>2, SumInt
      <4> QED
        BY <4>3 DEF mine
    <3> HIDE DEF grouped, sold
    <3> QED
      BY <2>5, <3>1 DEF AllInts
  <2>10. SumFunctionOnSet(charged, sold) = SumFunctionOnSet(totals, DOMAIN cart)
    <3>1. SumFunctionOnSet(grouped, sold) = SumFunctionOnSet(totals, DOMAIN cart)
      BY <2>6
    <3> HIDE DEF charged, grouped, sold, totals
    <3> QED
      BY <2>8, <2>9, <3>1, SumSame
  <2>11. order.price.subtotal = SumFunctionOnSet(totals, DOMAIN cart)
    BY <2>0, LineTotals DEF OrderKept
  <2> QED
    BY <2>1, <2>10, <2>11 DEF ChargedForWhatLeaves
<1> QED
  BY <1>1, PricingInvariant, PTL

(***************************************************************************)
(* The storefront                                                          *)
(***************************************************************************)

\* The payments keep their types, and a delivery's place its shape.
THEOREM PaymentsTypesHold == Spec => []TypeOK
<1>1. PaymentsInv => TypeOK
  BY DEF PaymentsInv
<1> QED
  BY <1>1, PaymentsInductive, PTL

\* Whatever part a behaviour of the storefront is about, what the others see of it is
\* a behaviour of theirs: they share no state, so each theorem of a component is one of
\* the composition that TLC runs.
THEOREM StorefrontIsItsParts == SpecAll => Spec /\ LimitSpec /\ PricingSpec /\ ChatSpec
<1>1. InitAll => Init /\ LimitInit /\ PricingInit /\ ChatInit
  BY DEF InitAll
<1>2. [NextAll]_<<part, vars, limitVars, pricingVars, chatVars>> =>
        [Next]_vars /\ [LimitNext]_limitVars /\ [PricingNext]_pricingVars /\ [ChatNext]_chatVars
  BY DEF NextAll
<1> QED
  BY <1>1, <1>2, PTL DEF SpecAll, Spec, LimitSpec, PricingSpec, ChatSpec

\* Rows, deliveries, requests and streams of the storefront keep the shapes the code
\* gives them (webhook, checkout, chat stream).
THEOREM StorefrontTypesHold ==
    ASSUME CheckoutLimitAssumption, ChatAssumption
    PROVE  SpecAll => []TypesOK
<1>1. TypeOK /\ LimitTypeOK /\ ChatTypeOK => TypesOK
  BY DEF TypesOK
<1> QED
  BY <1>1, StorefrontIsItsParts, PaymentsTypesHold, LimitTypesHold, ChatTypesHold, PTL
=============================================================================
