------------------------------ MODULE OrderBook ------------------------------
(***************************************************************************)
(* What the order service promises, without transactions: a shelf and a    *)
(* book of orders.  Placing an order takes its units off the shelf and     *)
(* writes it down under the day's next number, cancelling it puts them     *)
(* back, and each happens at once.                                         *)
(***************************************************************************)
EXTENDS Integers, FiniteSets

CONSTANTS Plants, Checkouts, MaxQty, MaxStock, MaxDay, None

VARIABLES stock,  \* units on the shelf
          sold,   \* the plants that may be ordered
          book    \* the orders written down

bookVars == <<stock, sold, book>>

Pipeline == <<"pending", "confirmed", "processing", "shipping", "completed">>

Written == {o \in Checkouts : book[o] # None}
Open(o) == o \in Written /\ book[o].status \notin {"completed", "cancelled"}

NextNumber(d) == <<d, 1 + Cardinality({o \in Written : book[o].number[1] = d})>>

BookInit ==
    /\ stock \in [Plants -> 0..MaxStock]
    /\ sold \in SUBSET Plants
    /\ book = [o \in Checkouts |-> None]

Place(o, q, d) ==
    /\ o \notin Written
    /\ \A p \in Plants : q[p] > 0 => p \in sold /\ q[p] <= stock[p]
    /\ stock' = [p \in Plants |-> stock[p] - q[p]]
    /\ book' = [book EXCEPT ![o] = [qty |-> q, number |-> NextNumber(d),
                                    status |-> "pending"]]
    /\ UNCHANGED sold

Advance(o) ==
    /\ Open(o)
    /\ \E i \in 1..5, j \in 1..5 :
          /\ i < j
          /\ book[o].status = Pipeline[i]
          /\ book' = [book EXCEPT ![o].status = Pipeline[j]]
    /\ UNCHANGED <<stock, sold>>

Cancel(o) ==
    /\ Open(o)
    /\ book' = [book EXCEPT ![o].status = "cancelled"]
    /\ stock' = [p \in Plants |-> stock[p] + book[o].qty[p]]
    /\ UNCHANGED sold

Arrange(p, n, onSale) ==
    /\ stock' = [stock EXCEPT ![p] = n]
    /\ sold' = IF onSale THEN sold \cup {p} ELSE sold \ {p}
    /\ UNCHANGED book

BookNext ==
    \/ \E o \in Checkouts : \/ \E q \in [Plants -> 0..MaxQty], d \in 0..MaxDay : Place(o, q, d)
                            \/ Advance(o)
                            \/ Cancel(o)
    \/ \E p \in Plants, n \in 0..MaxStock, onSale \in BOOLEAN : Arrange(p, n, onSale)

BookSpec == BookInit /\ [][BookNext]_bookVars
=============================================================================
