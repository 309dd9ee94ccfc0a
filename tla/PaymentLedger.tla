---------------------------- MODULE PaymentLedger ----------------------------
(***************************************************************************)
(* What the SePay webhook promises: each bank transaction is entered once, *)
(* at one instant, with what it did to the order it pays.                  *)
(***************************************************************************)
CONSTANTS Orders, Transfers, None

VARIABLES due,      \* what each bank-transfer order still has to be paid, or None
          ledger    \* the entry of each transaction, or None

ledgerVars == <<due, ledger>>

LedgerInit == /\ due = [o \in Orders |-> None]
              /\ ledger = [t \in Transfers |-> None]

OpenOrder(o) ==
    /\ due[o] = None
    /\ due' = [due EXCEPT ![o] = "unpaid"]
    /\ UNCHANGED ledger

Enter(t, order, match) ==
    /\ ledger[t] = None
    /\ ledger' = [ledger EXCEPT ![t] = [order |-> order, match |-> match]]

\* A transfer settles an unpaid order, and is the only one ever to do so.
Pay(t, o) ==
    /\ due[o] = "unpaid"
    /\ due' = [due EXCEPT ![o] = "paid"]
    /\ Enter(t, o, "matched")

\* Any other transfer is filed and changes no order.
File(t) ==
    /\ \/ Enter(t, None, "ignored")
       \/ Enter(t, None, "unmatched")
       \/ \E o \in Orders : due[o] = "unpaid" /\ Enter(t, o, "amount_mismatch")
       \/ \E o \in Orders : due[o] = "paid" /\ Enter(t, o, "already_paid")
    /\ UNCHANGED due

LedgerNext ==
    \/ \E o \in Orders : OpenOrder(o)
    \/ \E t \in Transfers : File(t) \/ \E o \in Orders : Pay(t, o)

LedgerSpec == LedgerInit /\ [][LedgerNext]_ledgerVars
=============================================================================
