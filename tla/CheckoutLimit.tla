---------------------------- MODULE CheckoutLimit ----------------------------
(***************************************************************************)
(* The hourly limit per phone in front of the public checkout              *)
(* (check_checkout_phone_limit), counted from the committed orders in the  *)
(* transaction that then places the order.  PostgreSQL's now() is the time *)
(* that transaction began: it ends the window the check looks at, and it   *)
(* is the created_at of the order.  An admin's order counts but is never   *)
(* limited.                                                                *)
(***************************************************************************)
EXTENDS Nothing, Integers, FiniteSetsExt

CONSTANTS Shoppers,       \* public checkouts
          Admins,         \* orders an admin enters
          Spellings,      \* phone numbers as they are typed
          Canonical,      \* normalize_vn_phone
          Limit,          \* CHECKOUT_PHONE_LIMIT
          Window,         \* CHECKOUT_PHONE_WINDOW, in ticks of the database clock
          Second,         \* ticks in a second
          Pool,           \* db_pool_size + db_max_overflow
          MaxTime         \* bound: ticks that pass

Requests == Shoppers \cup Admins
Phones   == {Canonical[s] : s \in Spellings}
FiledRow == [phone: Spellings, at: Nat]
Advice   == [until: Nat, known: SUBSET Requests]

CheckoutLimitAssumption ==
    /\ Canonical \in [Spellings -> Spellings]
    /\ \A p \in Phones : Canonical[p] = p
    /\ {Limit, Second, Pool} \subseteq Nat \ {0}
    /\ Window \in Nat /\ MaxTime \in Nat
    /\ IsFiniteSet(Requests)
    /\ Shoppers \cap Admins = {}
    /\ None \notin FiledRow \cup Advice

VARIABLES
    now,      \* the database clock
    typed,    \* the phone each request carries
    step,       \* where each request is
    start,    \* when its open transaction began
    filed,   \* the order each request has committed
    advice    \* Retry-After, as the time it points at, and the orders there were

limitVars == <<now, typed, step, start, filed, advice>>

LimitInit ==
    /\ now = 0
    /\ typed \in [Requests -> Spellings]
    /\ step = [r \in Requests |-> "new"]
    /\ start = [r \in Requests |-> 0]
    /\ filed = [r \in Requests |-> None]
    /\ advice = [r \in Requests |-> None]

OrdersOf(phone) == {r \in Requests : filed[r] # None /\ filed[r].phone = phone}

\* Every open transaction keeps a connection of the pool.
Open == {r \in Requests : step[r] \in {"check", "create"}}

\* Fault: the phone is compared as it was typed.
Counted_AsTyped(r) ==
    {o \in OrdersOf(typed[r]) : filed[o].at >= start[r] - Window}

\* The WHERE of the check.
Counted(r) ==
    {o \in OrdersOf(Canonical[typed[r]]) : filed[o].at >= start[r] - Window}

\* Fault: the first row instead of the last.
OldestCounted_Newest(r) ==
    CHOOSE t \in {filed[o].at : o \in Counted(r)} :
        \A u \in {filed[o].at : o \in Counted(r)} : u <= t

\* ORDER BY created_at DESC LIMIT n: the last row.
OldestCounted(r) ==
    CHOOSE t \in {filed[o].at : o \in Counted(r)} :
        /\ Cardinality({o \in Counted(r) : filed[o].at >= t}) >= Limit
        /\ Cardinality({o \in Counted(r) : filed[o].at > t}) < Limit

\* max(1, ceil(remaining)), in whole seconds.
RetryAfter(r) ==
    LET remaining == OldestCounted(r) + Window - start[r]
        seconds   == (remaining + Second - 1) \div Second
    IN  IF seconds < 1 THEN 1 ELSE seconds

----------------------------------------------------------------------------
\* The first statement opens the transaction; an admin's order has no check.
Begin(r) ==
    /\ step[r] = "new"
    /\ Cardinality(Open) < Pool
    /\ start' = [start EXCEPT ![r] = now]
    /\ step' = [step EXCEPT ![r] = IF r \in Shoppers THEN "check" ELSE "create"]
    /\ UNCHANGED <<now, typed, filed, advice>>

CheckPhoneLimit(r) ==
    /\ step[r] = "check"
    /\ \/ /\ Cardinality(Counted(r)) < Limit
          /\ step' = [step EXCEPT ![r] = "create"]
          /\ UNCHANGED <<start, advice>>
       \/ /\ Cardinality(Counted(r)) >= Limit
          /\ step' = [step EXCEPT ![r] = "limited"]
          /\ start' = [start EXCEPT ![r] = 0]
          /\ advice' = [advice EXCEPT ![r] =
                           [until |-> start[r] + Second * RetryAfter(r),
                            known |-> OrdersOf(Canonical[typed[r]])]]
    /\ UNCHANGED <<now, typed, filed>>

\* create_order rewrites the number of a public checkout only.
CustomerPhone(r) == IF r \in Shoppers THEN Canonical[typed[r]] ELSE typed[r]

\* Fault: the phone is stored as it was typed.
PostStorefrontOrder_AsTyped(r) ==
    /\ step[r] = "create"
    /\ filed' = [filed EXCEPT ![r] = [phone |-> typed[r], at |-> start[r]]]
    /\ step' = [step EXCEPT ![r] = "placed"]
    /\ start' = [start EXCEPT ![r] = 0]
    /\ UNCHANGED <<now, typed, advice>>

\* create_order in the same transaction: the commit, or any way it can fail.
PostStorefrontOrder(r) ==
    /\ step[r] = "create"
    /\ \/ /\ filed' = [filed EXCEPT ![r] = [phone |-> CustomerPhone(r), at |-> start[r]]]
          /\ step' = [step EXCEPT ![r] = "placed"]
       \/ /\ step' = [step EXCEPT ![r] = "failed"]
          /\ UNCHANGED filed
    /\ start' = [start EXCEPT ![r] = 0]
    /\ UNCHANGED <<now, typed, advice>>

Tick ==
    /\ now < MaxTime
    /\ now' = now + 1
    /\ UNCHANGED <<typed, step, start, filed, advice>>

LimitNext ==
    \/ \E r \in Requests : Begin(r) \/ CheckPhoneLimit(r) \/ PostStorefrontOrder(r)
    \/ Tick

LimitSpec == LimitInit /\ [][LimitNext]_limitVars

----------------------------------------------------------------------------
(* Properties *)

\* Rows and requests are whole, and a public order is filed under the canonical
\* form of its phone.
LimitTypeOK ==
    /\ now \in Nat
    /\ typed \in [Requests -> Spellings]
    /\ step \in [Requests -> {"new", "check", "create", "placed", "limited", "failed"}]
    /\ start \in [Requests -> Nat]
    /\ filed \in [Requests -> FiledRow \cup {None}]
    /\ \A r \in Shoppers : filed[r] # None => filed[r].phone \in Phones
    /\ advice \in [Requests -> Advice \cup {None}]

\* The public orders of a phone in the window that ends with order x.
InWindow(x) ==
    {o \in OrdersOf(filed[x].phone) \cap Shoppers :
        filed[x].at - Window <= filed[o].at /\ filed[o].at <= filed[x].at}

\* Checkouts that overlap can pass the limit together, by as many as have a
\* connection at once and no more: the orders that were committed before the last
\* one checked are below the limit, the others were in progress with it.
BoundedOvershoot ==
    \A x \in Requests : filed[x] # None =>
        Cardinality(InWindow(x)) <= Limit - 1 + Pool

\* Retry-After, if the phone gets no other order meanwhile: a second after it the
\* limit is over, and a second before it the limit still holds.
RetryAfterIsTight ==
    \A r \in Shoppers : advice[r] # None =>
        LET phone   == Canonical[typed[r]]
            ordered == {o \in OrdersOf(phone) : filed[o].at >= now - Window}
        IN  /\ now >= advice[r].until + Second /\ OrdersOf(phone) = advice[r].known =>
                  Cardinality(ordered) < Limit
            /\ now < advice[r].until - Second => Cardinality(ordered) >= Limit

\* "Each normalized phone number may place at most 3 orders per hour".
AtMostLimit ==
    \A x \in Requests : filed[x] # None => Cardinality(InWindow(x)) <= Limit
=============================================================================
