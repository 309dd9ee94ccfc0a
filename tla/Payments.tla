------------------------------ MODULE Payments ------------------------------
(***************************************************************************)
(* Bank transfers: SePay's deliveries of its transactions to the webhook   *)
(* (process_sepay_webhook), each a transaction that may fail before its    *)
(* commit, while the same transaction is being delivered again and orders  *)
(* are placed and cancelled.  SePay repeats a delivery until it is         *)
(* answered with success.                                                  *)
(***************************************************************************)
EXTENDS Nothing, Integers, FiniteSets

CONSTANTS Orders,      \* order ids, smaller when created_at is older
          Transfers,   \* SePay transaction ids
          Deliveries,  \* webhook requests that may be in progress at once
          Amounts,     \* order totals and transferred amounts
          Traffic      \* bound: what SePay's transactions may say

Payloads == [type: {"in", "out"}, code: Orders \cup {None},
             content: SUBSET Orders, amount: Amounts]
OrderRow == [bank: BOOLEAN, total: Amounts, paid: BOOLEAN, cancelled: BOOLEAN]
Matches  == {"matched", "amount_mismatch", "already_paid", "unmatched", "ignored"}
LogRow   == [order: Orders \cup {None}, match: Matches]
Places   == {"idle", "insert", "lock", "settle", "reply"}

ASSUME PaymentsAssumption ==
    /\ Orders \subseteq Nat
    /\ Traffic \subseteq Payloads
    /\ None \notin Orders \cup Transfers \cup OrderRow \cup LogRow
    /\ None \notin [id: Orders, paid: BOOLEAN]

VARIABLES
    payload,   \* what SePay says of each transaction
    orders,    \* orders, None where none is committed
    log,       \* payment_transactions by SePay id
    acked,     \* transactions SePay knows to be delivered
    pc,        \* where each delivery is
    tx,        \* the transaction it delivers
    row        \* the order it has locked, as it read it

vars == <<payload, orders, log, acked, pc, tx, row>>

Placed == {o \in Orders : orders[o] # None}

Init ==
    /\ payload \in [Transfers -> Traffic]
    /\ orders = [o \in Orders |-> None]
    /\ log = [t \in Transfers |-> None]
    /\ acked = {}
    /\ pc = [d \in Deliveries |-> "idle"]
    /\ tx = [d \in Deliveries |-> None]
    /\ row = [d \in Deliveries |-> None]

----------------------------------------------------------------------------
(* Matching a transaction to an order *)

\* SePay's own `code` and the references in the text, as one set.
CandidateReferences(t) ==
    payload[t].content \cup (IF payload[t].code = None THEN {} ELSE {payload[t].code})

\* Fault: cash-on-delivery orders can be paid by transfer too.
Payable_AnyMethod(t) == CandidateReferences(t) \cap Placed

\* payment_reference IN (..), bank transfers only.
Payable(t) == {o \in CandidateReferences(t) \cap Placed : orders[o].bank}

\* ORDER BY created_at LIMIT 1, as the set of that one order.
OldestPayable(t) == {o \in Payable(t) : \A p \in Payable(t) : o <= p}

\* Fault: the SELECT without FOR UPDATE.
IsLocked_NoForUpdate(o) == FALSE

\* FOR UPDATE of the order is held from here to the end of the delivery.
IsLocked(o) == \E d \in Deliveries : row[d] # None /\ row[d].id = o

\* The INSERT of a transaction waits for the same one, uncommitted, elsewhere.
InsertedBy(d) == pc[d] \in {"lock", "settle"}
IsPending(t, d) == \E e \in Deliveries \ {d} : InsertedBy(e) /\ tx[e] = t

\* The branches on the locked order, or on there being none.
Outcome(t, locked) ==
    IF payload[t].type # "in" THEN "ignored"
    ELSE IF locked = None THEN "unmatched"
    ELSE IF locked.paid THEN "already_paid"
    ELSE IF payload[t].amount # orders[locked.id].total THEN "amount_mismatch"
    ELSE "matched"

----------------------------------------------------------------------------
(* The webhook *)

Deliver(d, t) ==
    /\ pc[d] = "idle"
    /\ t \notin acked
    /\ pc' = [pc EXCEPT ![d] = "insert"]
    /\ tx' = [tx EXCEPT ![d] = t]
    /\ UNCHANGED <<payload, orders, log, acked, row>>

\* Faults: a duplicate that is not committed counts as recorded; a recorded
\* transaction is processed again (ON CONFLICT DO UPDATE).
InsertTransaction_NoWait(d) ==
    /\ pc[d] = "insert"
    /\ pc' = [pc EXCEPT ![d] = IF log[tx[d]] # None \/ IsPending(tx[d], d)
                               THEN "reply" ELSE "lock"]
    /\ UNCHANGED <<payload, orders, log, acked, tx, row>>
InsertTransaction_Upsert(d) ==
    /\ pc[d] = "insert"
    /\ ~IsPending(tx[d], d)
    /\ pc' = [pc EXCEPT ![d] = "lock"]
    /\ UNCHANGED <<payload, orders, log, acked, tx, row>>

\* INSERT .. ON CONFLICT DO NOTHING; a transaction already recorded is answered
\* at once, an outgoing one needs no order.
InsertTransaction(d) ==
    /\ pc[d] = "insert"
    /\ ~IsPending(tx[d], d)
    /\ pc' = [pc EXCEPT ![d] = IF log[tx[d]] # None THEN "reply"
                               ELSE IF payload[tx[d]].type # "in" THEN "settle"
                               ELSE "lock"]
    /\ UNCHANGED <<payload, orders, log, acked, tx, row>>

LockOrder(d) ==
    /\ pc[d] = "lock"
    /\ \/ /\ Payable(tx[d]) = {}
          /\ UNCHANGED row
       \/ \E o \in OldestPayable(tx[d]) :
             /\ ~IsLocked(o)
             /\ row' = [row EXCEPT ![d] = [id |-> o, paid |-> orders[o].paid]]
    /\ pc' = [pc EXCEPT ![d] = "settle"]
    /\ UNCHANGED <<payload, orders, log, acked, tx>>

Settle(d) ==
    /\ pc[d] = "settle"
    /\ LET match == Outcome(tx[d], row[d])
           order == IF row[d] = None THEN None ELSE row[d].id
       IN  /\ log' = [log EXCEPT ![tx[d]] = [order |-> order, match |-> match]]
           /\ orders' = IF match = "matched" THEN [orders EXCEPT ![order].paid = TRUE]
                                             ELSE orders
    /\ pc' = [pc EXCEPT ![d] = "reply"]
    /\ row' = [row EXCEPT ![d] = None]
    /\ UNCHANGED <<payload, acked, tx>>

\* Fault: the connection goes back to the pool without a rollback.
Fail_NoRollback(d) ==
    /\ pc[d] \in {"insert", "lock", "settle"}
    /\ pc' = [pc EXCEPT ![d] = "idle"]
    /\ tx' = [tx EXCEPT ![d] = None]
    /\ UNCHANGED <<payload, orders, log, acked, row>>

\* An exception or a crash: the transaction rolls back and SePay gets no success.
Fail(d) ==
    /\ pc[d] \in {"insert", "lock", "settle"}
    /\ pc' = [pc EXCEPT ![d] = "idle"]
    /\ tx' = [tx EXCEPT ![d] = None]
    /\ row' = [row EXCEPT ![d] = None]
    /\ UNCHANGED <<payload, orders, log, acked>>

\* {"success": true}, which may not arrive.
Reply(d, arrives) ==
    /\ pc[d] = "reply"
    /\ pc' = [pc EXCEPT ![d] = "idle"]
    /\ tx' = [tx EXCEPT ![d] = None]
    /\ acked' = IF arrives THEN acked \cup {tx[d]} ELSE acked
    /\ UNCHANGED <<payload, orders, log, row>>

----------------------------------------------------------------------------
(* Orders: what create_order and update_order_status do to these rows *)

PlaceOrder(o, bank, total) ==
    /\ orders[o] = None
    /\ orders' = [orders EXCEPT ![o] = [bank |-> bank, total |-> total,
                                        paid |-> FALSE, cancelled |-> FALSE]]
    /\ UNCHANGED <<payload, log, acked, pc, tx, row>>

\* Fault: the whole row is written, as it was when the order was placed.
CancelOrder_WholeRow(o) ==
    /\ orders[o] # None
    /\ ~orders[o].cancelled
    /\ ~IsLocked(o)
    /\ orders' = [orders EXCEPT ![o].cancelled = TRUE, ![o].paid = FALSE]
    /\ UNCHANGED <<payload, log, acked, pc, tx, row>>

\* The UPDATE names the status column only, and waits for the row.
CancelOrder(o) ==
    /\ orders[o] # None
    /\ ~orders[o].cancelled
    /\ ~IsLocked(o)
    /\ orders' = [orders EXCEPT ![o].cancelled = TRUE]
    /\ UNCHANGED <<payload, log, acked, pc, tx, row>>

----------------------------------------------------------------------------
Next ==
    \/ \E d \in Deliveries : \/ \E t \in Transfers : Deliver(d, t)
                             \/ InsertTransaction(d)
                             \/ LockOrder(d)
                             \/ Settle(d)
                             \/ Fail(d)
                             \/ \E arrives \in BOOLEAN : Reply(d, arrives)
    \/ \E o \in Orders : \/ \E bank \in BOOLEAN, total \in Amounts : PlaceOrder(o, bank, total)
                         \/ CancelOrder(o)

Spec == Init /\ [][Next]_vars

\* SePay keeps delivering what is not acknowledged; a waiter of a lock is
\* served; a delivery may fail any number of times but not for ever.
Fairness ==
    /\ \A t \in Transfers : SF_vars(\E d \in Deliveries : Deliver(d, t))
    /\ \A d \in Deliveries : /\ WF_vars(\E arrives \in BOOLEAN : Reply(d, arrives))
    /\ \A t \in Transfers :
          /\ SF_vars(\E d \in Deliveries : tx[d] = t /\ InsertTransaction(d))
          /\ SF_vars(\E d \in Deliveries : tx[d] = t /\ LockOrder(d))
          /\ SF_vars(\E d \in Deliveries : tx[d] = t /\ Settle(d))

FairSpec == Spec /\ Fairness

----------------------------------------------------------------------------
(* Properties *)

\* A delivery has a transaction while it runs, and holds an order's row only
\* between the SELECT .. FOR UPDATE and the end of process_sepay_webhook.
TypeOK ==
    /\ payload \in [Transfers -> Payloads]
    /\ orders \in [Orders -> OrderRow \cup {None}]
    /\ log \in [Transfers -> LogRow \cup {None}]
    /\ acked \subseteq Transfers
    /\ pc \in [Deliveries -> Places]
    /\ tx \in [Deliveries -> Transfers \cup {None}]
    /\ row \in [Deliveries -> [id: Orders, paid: BOOLEAN] \cup {None}]
    /\ \A d \in Deliveries : /\ tx[d] = None <=> pc[d] = "idle"
                             /\ row[d] # None => pc[d] = "settle"

PaidBy(o) == {t \in Transfers : log[t] # None /\ log[t].order = o /\ log[t].match = "matched"}

\* An order is paid exactly when one transaction is recorded as its payment: a
\* second transfer, or the same one delivered twice at once, never pays it again.
PaidOnce ==
    \A o \in Placed :
        /\ orders[o].paid <=> PaidBy(o) # {}
        /\ \A t, u \in PaidBy(o) : t = u

\* What paid an order is an incoming transfer, naming it, of its exact total, and
\* the order is a bank-transfer one.
PaidExactly ==
    \A o \in Placed : \A t \in PaidBy(o) :
        /\ orders[o].bank
        /\ payload[t].type = "in" /\ payload[t].amount = orders[o].total
        /\ o \in CandidateReferences(t)

\* SePay is told "success" only of what is on record.
AckedIsRecorded == \A t \in acked : log[t] # None

\* A record is never rewritten, and a payment never undone: retries, duplicates
\* and a cancellation at the same time change nothing.
RecordedOnce ==
    [][/\ \A t \in Transfers : log[t] # None => log'[t] = log[t]
       /\ \A o \in Placed : orders[o].paid => orders'[o].paid]_vars

\* What each bank-transfer order still has to be paid.
Due == [o \in Orders |-> IF orders[o] = None \/ ~orders[o].bank THEN None
                         ELSE IF orders[o].paid THEN "paid" ELSE "unpaid"]

(* The ledger that the webhook's records are. *)
Ledger == INSTANCE PaymentLedger WITH due <- Due, ledger <- log

\* Deliveries that repeat, race and fail leave what a ledger entered at one
\* instant per transaction would hold.
ImplementsLedger == Ledger!LedgerSpec

\* A transaction SePay has begun to deliver is recorded in the end.
EventuallyRecorded ==
    \A t \in Transfers : (\E d \in Deliveries : tx[d] = t) ~> log[t] # None

\* "The payment code (`code`, else a `GG` + 12-digit reference found in
\* `content`) is matched to a bank-transfer order".
CodeComesFirst ==
    [][\A d \in Deliveries :
          LET t == tx[d]
          IN  pc[d] = "lock" /\ pc'[d] = "settle" /\ payload[t].code \in Payable(t)
                  => row'[d].id = payload[t].code]_vars
=============================================================================
