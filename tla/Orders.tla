------------------------------- MODULE Orders -------------------------------
(***************************************************************************)
(* Placing an order (create_order) and moving it along its pipeline        *)
(* (update_order_status), as PostgreSQL transactions at READ COMMITTED     *)
(* that interleave at every await.  A transaction's writes and its row     *)
(* locks become visible, or are released, in its commit or rollback only,  *)
(* so the tables below hold committed rows and each transaction carries    *)
(* what it read: a plant row stays in `seen` from the SELECT .. FOR UPDATE *)
(* that locked it until the transaction ends.                              *)
(***************************************************************************)
EXTENDS Nothing, Integers, FiniteSets

CONSTANTS Plants,      \* plant ids, compared because rows are locked in id order
          Checkouts,   \* create_order calls; the order one commits has its id
          Staff,       \* admin sessions, each with one status request at a time
          Phones,      \* canonical customer phone numbers
          Targets,     \* bound: the statuses staff ask for
          MaxQty,      \* bound: units of one plant in a cart
          MaxStock,    \* bound: stock an admin enters
          MaxDay       \* bound: calendar days that begin

VARIABLES
    plant,        \* plants: stock, and whether the shop sells it
    orders,       \* orders and their items, None where nothing is committed
    customers,    \* customers by phone
    today,        \* the UTC date
    pc,           \* where each request is
    phone,        \* checkout: the customer's phone
    want,         \* units per plant a transaction deducts or gives back
    seen,         \* plant rows locked by a transaction, as it read them
    newCustomer,  \* checkout: it has an uncommitted customer row
    day,          \* checkout: the date its order number starts with
    number,       \* checkout: the number it allocated, under the advisory lock
    job,          \* staff: the order loaded, its status then, and the new one
    supply,       \* history: units an admin has put into the shop, net
    restocks      \* history: how often an order's units were given back

dbVars  == <<plant, orders, customers, today>>
txVars  == <<pc, phone, want, seen, newCustomer, day, number, job>>
history == <<supply, restocks>>
vars    == <<dbVars, txVars, history>>

Txns == Checkouts \cup Staff

Listings == {"sold", "hidden", "absent"}
PlantRow == [stock: Int, listed: Listings]

Rank == [pending |-> 0, confirmed |-> 1, processing |-> 2,
         shipping |-> 3, completed |-> 4]
Flow     == {"pending", "confirmed", "processing", "shipping", "completed"}
Terminal == {"completed", "cancelled"}
Statuses == Flow \cup {"cancelled"}

CheckoutPlaces == {"new", "resolve", "insert", "lock", "number", "commit",
                   "placed", "rejected"}
StaffPlaces    == {"idle", "lock"}

Quantities == [Plants -> Nat]
NoUnits    == [p \in Plants |-> 0]
OrderRow   == [phone: Phones, qty: Quantities, number: Nat \X Nat, status: Statuses]
BookRow    == [qty: Quantities, number: Nat \X Nat, status: Statuses]
Jobs       == [order: Checkouts, from: Statuses, to: Statuses]

ASSUME OrdersAssumption ==
    /\ Plants \subseteq Nat
    /\ IsFiniteSet(Checkouts)
    /\ Checkouts \cap Staff = {}
    /\ Targets \subseteq Statuses
    /\ MaxQty \in Nat /\ MaxStock \in Nat /\ MaxDay \in Nat
    /\ None \notin PlantRow \cup OrderRow \cup BookRow \cup Jobs \cup (Nat \X Nat) \cup Phones

Placed == {o \in Checkouts : orders[o] # None}

----------------------------------------------------------------------------
(* Row locks, the pending phone and the advisory lock *)

Locked(t) == {p \in Plants : seen[t][p] # None}

\* Fault: the SELECT without FOR UPDATE.
IsLocked_NoForUpdate(p) == FALSE

IsLocked(p) == \E t \in Txns : p \in Locked(t)

\* The rows `_lock_plants` has yet to reach: requested, existing, not locked.
ToLock(t) == {p \in Plants : /\ want[t][p] > 0
                             /\ plant[p].listed # "absent"
                             /\ p \notin Locked(t)}

\* Fault: the rows to restock are locked in the order of the items.
NextRow_ItemOrder(t, p) == /\ p \in ToLock(t)
                           /\ \A q \in ToLock(t) : IF t \in Staff THEN q <= p ELSE p <= q

\* ORDER BY plants.id: the smallest id is locked next.
NextRow(t, p) == /\ p \in ToLock(t)
                 /\ \A q \in ToLock(t) : p <= q

\* Fault: phones are not unique.
PhonePending_NotUnique(c) == FALSE

\* An INSERT of a phone waits for another uncommitted row with that phone.
PhonePending(c) == \E d \in Checkouts \ {c} : newCustomer[d] /\ phone[d] = phone[c]

\* Fault: no advisory lock.
NumberLocked_NoLock == FALSE

NumberLocked == \E c \in Checkouts : number[c] # None

----------------------------------------------------------------------------
(* Order numbers *)

Dated(d) == {o \in Placed : orders[o].number[1] = d}
Taken(d) == {orders[o].number[2] : o \in Dated(d)}

\* Fault: the orders of every date are counted.
NextSequence_AllDates(d) == Cardinality(Placed) + 1

\* Start at the count plus one and step over numbers that are taken.
NextSequence(d) ==
    LET first == Cardinality(Taken(d)) + 1
    IN  CHOOSE n \in first..(first + Cardinality(Taken(d))) :
            /\ n \notin Taken(d)
            /\ \A m \in first..(n - 1) : m \in Taken(d)

----------------------------------------------------------------------------
Init ==
    /\ plant \in [Plants -> [stock: 0..MaxStock, listed: Listings]]
    /\ customers \in [Phones -> {"none", "active", "inactive"}]
    /\ orders = [c \in Checkouts |-> None]
    /\ today = 0
    /\ pc = [t \in Txns |-> IF t \in Checkouts THEN "new" ELSE "idle"]
    /\ phone = [c \in Checkouts |-> None]
    /\ want = [t \in Txns |-> NoUnits]
    /\ seen = [t \in Txns |-> [p \in Plants |-> None]]
    /\ newCustomer = [c \in Checkouts |-> FALSE]
    /\ day = [c \in Checkouts |-> 0]
    /\ number = [c \in Checkouts |-> None]
    /\ job = [s \in Staff |-> None]
    /\ supply = [p \in Plants |-> plant[p].stock]
    /\ restocks = [c \in Checkouts |-> 0]

\* COMMIT or ROLLBACK: every lock of the transaction is released.
Release(t, outcome) ==
    /\ pc' = [pc EXCEPT ![t] = outcome]
    /\ want' = [want EXCEPT ![t] = NoUnits]
    /\ seen' = [seen EXCEPT ![t] = [p \in Plants |-> None]]
    /\ newCustomer' = [c \in Checkouts |-> IF c = t THEN FALSE ELSE newCustomer[c]]
    /\ number' = [c \in Checkouts |-> IF c = t THEN None ELSE number[c]]
    /\ job' = [s \in Staff |-> IF s = t THEN None ELSE job[s]]
    /\ phone' = [c \in Checkouts |-> IF c = t THEN None ELSE phone[c]]
    /\ day' = [c \in Checkouts |-> IF c = t THEN 0 ELSE day[c]]

----------------------------------------------------------------------------
(* create_order *)

Submit(c, ph, q) ==
    /\ pc[c] = "new"
    /\ q # NoUnits
    /\ pc' = [pc EXCEPT ![c] = "resolve"]
    /\ phone' = [phone EXCEPT ![c] = ph]
    /\ want' = [want EXCEPT ![c] = q]
    /\ UNCHANGED <<dbVars, seen, newCustomer, day, number, job, history>>

\* get_customer_by_phone, and the branch on what it returned.
ResolveCustomer(c) ==
    /\ pc[c] = "resolve"
    /\ \/ /\ customers[phone[c]] = "inactive"
          /\ Release(c, "rejected")
       \/ /\ customers[phone[c]] # "inactive"
          /\ pc' = [pc EXCEPT ![c] = IF customers[phone[c]] = "active"
                                     THEN "lock" ELSE "insert"]
          /\ UNCHANGED <<phone, want, seen, newCustomer, day, number, job>>
    /\ UNCHANGED <<dbVars, history>>

\* flush() of the new customer: the unique phone turns a lost race into an error.
InsertCustomer(c) ==
    /\ pc[c] = "insert"
    /\ ~PhonePending(c)
    /\ \/ /\ customers[phone[c]] # "none"
          /\ Release(c, "rejected")
       \/ /\ customers[phone[c]] = "none"
          /\ pc' = [pc EXCEPT ![c] = "lock"]
          /\ newCustomer' = [newCustomer EXCEPT ![c] = TRUE]
          /\ UNCHANGED <<phone, want, seen, day, number, job>>
    /\ UNCHANGED <<dbVars, history>>

\* One row of SELECT .. FOR UPDATE; a row someone holds is waited for, and is
\* read as its last committed version once it is free.
LockPlant(t) ==
    /\ pc[t] = "lock"
    /\ \E p \in Plants :
          /\ NextRow(t, p)
          /\ ~IsLocked(p)
          /\ seen' = [seen EXCEPT ![t][p] = plant[p]]
    /\ UNCHANGED <<dbVars, pc, phone, want, newCustomer, day, number, job, history>>

\* Faults: the stock, or the listing, is not checked again under the lock.
Sellable_AnyStock(c) == \A p \in Plants : want[c][p] > 0 =>
                           seen[c][p] # None /\ seen[c][p].listed = "sold"
Sellable_AnyListing(c) == \A p \in Plants : want[c][p] > 0 =>
                             seen[c][p] # None /\ want[c][p] <= seen[c][p].stock

\* Every requested plant exists, is sold, and has the stock.
Sellable(c) == \A p \in Plants : want[c][p] > 0 =>
                  /\ seen[c][p] # None
                  /\ seen[c][p].listed = "sold"
                  /\ want[c][p] <= seen[c][p].stock

\* Fault: the order number is left to a later step.
CheckOrder_NoNumber(c) ==
    /\ pc[c] = "lock" /\ ToLock(c) = {} /\ Sellable(c)
    /\ pc' = [pc EXCEPT ![c] = "commit"]
    /\ UNCHANGED <<dbVars, phone, want, seen, newCustomer, day, number, job, history>>

\* Fault: a checkout that cannot be served is left waiting for stock.
CheckOrder_WaitsForStock(c) ==
    /\ pc[c] = "lock" /\ ToLock(c) = {} /\ Sellable(c)
    /\ pc' = [pc EXCEPT ![c] = "number"]
    /\ day' = [day EXCEPT ![c] = today]
    /\ UNCHANGED <<dbVars, phone, want, seen, newCustomer, number, job, history>>

\* The checks on the locked rows, up to the await on the advisory lock: the
\* date of the number is read before that lock is waited for.
CheckOrder(c) ==
    /\ pc[c] = "lock"
    /\ ToLock(c) = {}
    /\ \/ /\ ~Sellable(c)
          /\ Release(c, "rejected")
       \/ /\ Sellable(c)
          /\ pc' = [pc EXCEPT ![c] = "number"]
          /\ day' = [day EXCEPT ![c] = today]
          /\ UNCHANGED <<phone, want, seen, newCustomer, number, job>>
    /\ UNCHANGED <<dbVars, history>>

\* pg_advisory_xact_lock, then the numbers committed for that date.
GenerateOrderNumber(c) ==
    /\ pc[c] = "number"
    /\ ~NumberLocked
    /\ number' = [number EXCEPT ![c] = <<day[c], NextSequence(day[c])>>]
    /\ pc' = [pc EXCEPT ![c] = "commit"]
    /\ UNCHANGED <<dbVars, phone, want, seen, newCustomer, day, job, history>>

\* Stock is written as the value read under the lock, minus the units.
CommitOrder(c) ==
    /\ pc[c] = "commit"
    /\ orders' = [orders EXCEPT ![c] = [phone |-> phone[c], qty |-> want[c],
                                        number |-> number[c], status |-> "pending"]]
    /\ plant' = [p \in Plants |->
                    IF want[c][p] > 0
                    THEN [plant[p] EXCEPT !.stock = seen[c][p].stock - want[c][p]]
                    ELSE plant[p]]
    /\ customers' = [ph \in Phones |-> IF newCustomer[c] /\ ph = phone[c]
                                       THEN "active" ELSE customers[ph]]
    /\ Release(c, "placed")
    /\ UNCHANGED <<today, history>>

\* Any exception (a total out of range, a lost connection, the process dying).
RollbackOrder(c) ==
    /\ pc[c] \in {"resolve", "insert", "lock", "number", "commit"}
    /\ Release(c, "rejected")
    /\ UNCHANGED <<dbVars, history>>

----------------------------------------------------------------------------
(* update_order_status *)

\* Fault: cancelling is always allowed, even twice.
EnsureTransitionAllowed_CancelAgain(current, target) ==
    target # "cancelled" => current \notin Terminal /\ Rank[target] >= Rank[current]

EnsureTransitionAllowed(current, target) ==
    /\ current \notin Terminal
    /\ target # "cancelled" => Rank[target] >= Rank[current]

\* get_order takes no lock: what it returns may be stale when it is used.
\* The same status again, or a transition that is not allowed, ends at once.
LoadOrder(s, o, target) ==
    /\ pc[s] = "idle"
    /\ orders[o] # None
    /\ orders[o].status # target
    /\ EnsureTransitionAllowed(orders[o].status, target)
    /\ pc' = [pc EXCEPT ![s] = "lock"]
    /\ job' = [job EXCEPT ![s] = [order |-> o, from |-> orders[o].status, to |-> target]]
    /\ want' = [want EXCEPT ![s] = IF target = "cancelled" THEN orders[o].qty
                                                           ELSE NoUnits]
    /\ UNCHANGED <<dbVars, phone, seen, newCustomer, day, number, history>>

\* _restore_stock once its rows are locked, the status, and the commit.
CommitStatus(s) ==
    /\ pc[s] = "lock"
    /\ s \in Staff
    /\ ToLock(s) = {}
    /\ orders' = [orders EXCEPT ![job[s].order].status = job[s].to]
    /\ plant' = [p \in Plants |->
                    IF p \in Locked(s)
                    THEN [plant[p] EXCEPT !.stock = seen[s][p].stock + want[s][p]]
                    ELSE plant[p]]
    /\ restocks' = [restocks EXCEPT ![job[s].order] =
                       IF job[s].to = "cancelled" THEN @ + 1 ELSE @]
    /\ Release(s, "idle")
    /\ UNCHANGED <<customers, today, supply>>

RollbackStatus(s) ==
    /\ pc[s] = "lock"
    /\ s \in Staff
    /\ Release(s, "idle")
    /\ UNCHANGED <<dbVars, history>>

----------------------------------------------------------------------------
(* Other writers of the rows these transactions read *)

\* update_plant and set_plant_status: the UPDATE waits for a row lock, and
\* writes absolute values.
EditPlant(p, stock, listed) ==
    /\ plant[p].listed # "absent"
    /\ ~IsLocked(p)
    /\ plant' = [plant EXCEPT ![p] = [stock |-> stock, listed |-> listed]]
    /\ supply' = [supply EXCEPT ![p] = @ + stock - plant[p].stock]
    /\ UNCHANGED <<orders, customers, today, txVars, restocks>>

\* create_customer and set_customer_status.
EditCustomer(ph, status) ==
    /\ customers[ph] = "none" =>
          /\ status = "active"
          /\ \A c \in Checkouts : ~(newCustomer[c] /\ phone[c] = ph)
    /\ customers' = [customers EXCEPT ![ph] = status]
    /\ UNCHANGED <<plant, orders, today, txVars, history>>

Midnight ==
    /\ today < MaxDay
    /\ today' = today + 1
    /\ UNCHANGED <<plant, orders, customers, txVars, history>>

----------------------------------------------------------------------------
CheckoutStep(c) ==
    \/ ResolveCustomer(c)
    \/ InsertCustomer(c)
    \/ LockPlant(c)
    \/ CheckOrder(c)
    \/ GenerateOrderNumber(c)
    \/ CommitOrder(c)

StaffStep(s) == LockPlant(s) \/ CommitStatus(s)

Next ==
    \/ \E c \in Checkouts : \/ \E ph \in Phones, q \in [Plants -> 0..MaxQty] : Submit(c, ph, q)
                            \/ CheckoutStep(c)
                            \/ RollbackOrder(c)
    \/ \E s \in Staff : \/ \E o \in Checkouts, target \in Targets : LoadOrder(s, o, target)
                        \/ StaffStep(s)
                        \/ RollbackStatus(s)
    \/ \E p \in Plants, stock \in 0..MaxStock, listed \in {"sold", "hidden"} :
          EditPlant(p, stock, listed)
    \/ \E ph \in Phones, status \in {"active", "inactive"} : EditCustomer(ph, status)
    \/ Midnight

Spec == Init /\ [][Next]_vars

\* PostgreSQL queues the waiters of a lock, so a request that waits is served:
\* strong fairness of its steps.  Nothing obliges anyone to send a request,
\* and nothing prevents one from failing.
Fairness == /\ \A c \in Checkouts : SF_vars(CheckoutStep(c))
            /\ \A s \in Staff : SF_vars(StaffStep(s))

FairSpec == Spec /\ Fairness

----------------------------------------------------------------------------
(* Properties *)

DbTypeOK ==
    /\ plant \in [Plants -> PlantRow]
    /\ orders \in [Checkouts -> OrderRow \cup {None}]
    /\ customers \in [Phones -> {"none", "active", "inactive"}]
    /\ today \in Nat

TxTypeOK ==
    /\ pc \in [Txns -> CheckoutPlaces \cup StaffPlaces]
    /\ \A c \in Checkouts : pc[c] \in CheckoutPlaces
    /\ \A s \in Staff : pc[s] \in StaffPlaces
    /\ phone \in [Checkouts -> Phones \cup {None}]
    /\ want \in [Txns -> Quantities]
    /\ seen \in [Txns -> [Plants -> PlantRow \cup {None}]]
    /\ newCustomer \in [Checkouts -> BOOLEAN]
    /\ day \in [Checkouts -> Nat]
    /\ number \in [Checkouts -> (Nat \X Nat) \cup {None}]
    /\ job \in [Staff -> Jobs \cup {None}]

\* Committed rows are whole (an order has its number, status and units), and a
\* request is in a place of create_order or of update_order_status.
TypeOK == /\ DbTypeOK
          /\ TxTypeOK
          /\ supply \in [Plants -> Int]
          /\ restocks \in [Checkouts -> Nat]

\* The CHECK on plants.stock is never what stops an oversale: whatever the
\* interleaving, concurrent checkouts only take units that are there.
NoOversell == \A p \in Plants : plant[p].stock >= 0

Live == {o \in Placed : orders[o].status # "cancelled"}

\* The units of a plant in orders that are not cancelled, one by one.
UnitsHeld(p) == UNION {{o} \X (1..orders[o].qty[p]) : o \in Live}
Held(p)      == Cardinality(UnitsHeld(p))

\* Units are neither lost nor made up: the stock and the units in orders that
\* are not cancelled are what admins have put in.  ("Cancelling restores stock
\* exactly once", with the deduction in the same transaction as the order.)
Conservation == \A p \in Plants : plant[p].stock + Held(p) = supply[p]

\* A day's order numbers count its orders: none is used twice or skipped, even
\* by checkouts that cross midnight or roll back after they took a number.
GapFreeNumbers ==
    \A d \in 0..today :
        Taken(d) = 1..Cardinality(Dated(d))

\* No checkout ever fails on the unique order number: the one it has taken
\* stays free until it commits.
NumberStaysFree ==
    \A c \in Checkouts : number[c] # None =>
        \A o \in Placed : orders[o].number # number[c]

\* The row an order's stock is computed from is the committed one until the
\* transaction ends, and nobody else computes from it.
LockedRowsCurrent ==
    \A t \in Txns, p \in Plants : seen[t][p] # None =>
        /\ seen[t][p] = plant[p]
        /\ \A u \in Txns \ {t} : seen[u][p] = None

\* An order belongs to a customer row and never to two of them: the phone's
\* row exists, and no second checkout is about to insert it again.
OneCustomerPerPhone ==
    /\ \A o \in Placed : customers[orders[o].phone] # "none"
    /\ \A c \in Checkouts : newCustomer[c] =>
          /\ customers[phone[c]] = "none"
          /\ \A d \in Checkouts \ {c} : newCustomer[d] => phone[d] # phone[c]

BlockedBy(t) ==
    {u \in Txns \ {t} :
        \/ pc[t] = "lock" /\ \E p \in Locked(u) : NextRow(t, p)
        \/ pc[t] = "number" /\ u \in Checkouts /\ number[u] # None
        \/ pc[t] = "insert" /\ u \in Checkouts /\ newCustomer[u] /\ phone[u] = phone[t]}

\* No circle of requests waiting for one another's locks: the plants in id
\* order, the new phone before them and the advisory lock after them.
NoDeadlock ==
    \A S \in SUBSET {t \in Txns : BlockedBy(t) # {}} :
        S # {} => \E t \in S : BlockedBy(t) \cap S = {}

\* The pipeline is forward-only and its ends are final, and units come back
\* with the transition into cancelled and only then.
PipelineForward ==
    [][\A o \in Placed :
          /\ orders'[o].status # orders[o].status =>
                /\ orders[o].status \notin Terminal
                /\ \/ orders'[o].status = "cancelled"
                   \/ Rank[orders[o].status] < Rank[orders'[o].status]
          /\ restocks'[o] # restocks[o] <=>
                orders'[o].status = "cancelled" /\ orders[o].status # "cancelled"]_vars

\* "Cancelling restores stock exactly once": _restore_stock never runs twice for
\* an order, however many admins cancel it.
RestoredOnce == \A o \in Checkouts : restocks[o] <= 1

\* No two status requests for one order overlap, as with a single admin at work.
OneRequestPerOrder ==
    \A s, t \in Staff : s # t /\ job[s] # None /\ job[t] # None =>
                           job[s].order # job[t].order

(* What the transactions implement, with one status request at a time. *)
Shelf  == [p \in Plants |-> plant[p].stock]
OnSale == {p \in Plants : plant[p].listed = "sold"}
Entry(order) == [qty |-> order.qty, number |-> order.number, status |-> order.status]
Entries == [o \in Checkouts |-> IF orders[o] = None THEN None ELSE Entry(orders[o])]

Book == INSTANCE OrderBook WITH stock <- Shelf, sold <- OnSale, book <- Entries

\* Every interleaving of checkouts, a status request and edits is a sequence of
\* orders placed, moved and cancelled whole, one at a time.
ImplementsOrderBook == Book!BookSpec

\* create_order ends: no checkout waits for a lock for ever.
CheckoutAnswered ==
    \A c \in Checkouts : pc[c] = "resolve" ~> pc[c] \in {"placed", "rejected"}

\* update_order_status ends, although a cancellation locks the same plants.
StatusAnswered ==
    \A s \in Staff : pc[s] = "lock" ~> pc[s] = "idle"
=============================================================================
