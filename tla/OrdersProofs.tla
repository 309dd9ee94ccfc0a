---------------------------- MODULE OrdersProofs ----------------------------
(* Theorems about Orders, for any number of plants, checkouts and sessions. *)
EXTENDS Orders, TLAPS, FiniteSetTheorems

(***************************************************************************)
(* The inductive invariant.  NoOversell is not inductive: it needs to know *)
(* that a checkout about to commit passed its checks on rows that are      *)
(* still the committed ones, which is what the row locks are for.          *)
(***************************************************************************)
CheckoutShape ==
    \A c \in Checkouts :
        /\ pc[c] \in {"resolve", "insert", "lock", "number", "commit"} =>
              phone[c] # None /\ orders[c] = None
        /\ pc[c] = "new" => orders[c] = None
        /\ number[c] # None <=> pc[c] = "commit"

\* A status request that goes on has loaded a committed order.
StatusShape ==
    \A s \in Staff : pc[s] = "lock" => job[s] # None /\ orders[job[s].order] # None

ReadyIsSellable ==
    \A c \in Checkouts : pc[c] \in {"number", "commit"} => Sellable(c)

\* The advisory lock has one holder, and its number is the next one.
NumberIsNext ==
    \A c \in Checkouts : number[c] # None =>
        /\ number[c][2] = Cardinality(Dated(number[c][1])) + 1
        /\ \A d \in Checkouts \ {c} : number[d] = None

DenseNumbers == \A d \in Nat : Taken(d) = 1..Cardinality(Dated(d))

IInv == /\ TypeOK
        /\ CheckoutShape
        /\ StatusShape
        /\ LockedRowsCurrent
        /\ ReadyIsSellable
        /\ NoOversell
        /\ NumberIsNext
        /\ DenseNumbers

----------------------------------------------------------------------------
\* Whoever ends a transaction leaves well-typed transaction variables.
LEMMA ReleaseType ==
    ASSUME TypeOK, NEW t \in Txns, NEW outcome,
           t \in Checkouts => outcome \in CheckoutPlaces,
           t \in Staff => outcome \in StaffPlaces,
           Release(t, outcome)
    PROVE  TxTypeOK'
  BY OrdersAssumption
  DEF TypeOK, TxTypeOK, Release, Txns, Quantities, NoUnits, CheckoutPlaces, StaffPlaces

\* An order number is the count of its date's orders plus one.
LEMMA NextIsCount ==
    ASSUME TypeOK, DenseNumbers, NEW d \in Nat
    PROVE  /\ Cardinality(Dated(d)) \in Nat
           /\ NextSequence(d) = Cardinality(Dated(d)) + 1
<1> DEFINE k == Cardinality(Dated(d))
<1>1. IsFiniteSet(Dated(d)) /\ k \in Nat
  BY OrdersAssumption, FS_Subset, FS_CardinalityType DEF Dated, Placed
<1>2. Taken(d) = 1..k
  BY DEF DenseNumbers
<1>3. Cardinality(Taken(d)) = k
  BY <1>1, <1>2, FS_Interval
<1>4. NextSequence(d) = CHOOSE n \in (k + 1)..(k + 1 + k) :
                           n \notin 1..k /\ \A m \in (k + 1)..(n - 1) : m \in 1..k
  BY <1>2, <1>3 DEF NextSequence
<1>5. \A n \in (k + 1)..(k + 1 + k) :
          (n \notin 1..k /\ \A m \in (k + 1)..(n - 1) : m \in 1..k) <=> n = k + 1
  BY <1>1
<1>6. NextSequence(d) = CHOOSE n \in (k + 1)..(k + 1 + k) : n = k + 1
  BY <1>4, <1>5
<1>7. k + 1 \in (k + 1)..(k + 1 + k)
  BY <1>1
<1> QED
  BY <1>1, <1>6, <1>7

\* The empty shop, with any catalogue and customers, satisfies IInv.
LEMMA InitIInv == Init => IInv
<1> SUFFICES ASSUME Init PROVE IInv
  OBVIOUS
<1>1. TypeOK
  BY OrdersAssumption
  DEF Init, TypeOK, DbTypeOK, TxTypeOK, PlantRow, Listings, Quantities, NoUnits, Txns,
      CheckoutPlaces, StaffPlaces
<1>2. CheckoutShape /\ StatusShape /\ ReadyIsSellable /\ NoOversell /\ NumberIsNext
  BY OrdersAssumption
  DEF Init, CheckoutShape, StatusShape, ReadyIsSellable, NoOversell, NumberIsNext, Txns
<1>3. LockedRowsCurrent
  BY DEF Init, LockedRowsCurrent
<1>4. DenseNumbers
  <2> SUFFICES ASSUME NEW d \in Nat PROVE Taken(d) = 1..Cardinality(Dated(d))
    BY DEF DenseNumbers
  <2>1. Dated(d) = {} /\ Taken(d) = {}
    BY DEF Init, Dated, Taken, Placed
  <2> QED BY <2>1, FS_EmptySet
<1> QED BY <1>1, <1>2, <1>3, <1>4 DEF IInv

----------------------------------------------------------------------------
\* Every step keeps the types; a commit does because its checkout is shaped so.
LEMMA TypeStep == IInv /\ [Next]_vars => TypeOK'
<1> SUFFICES ASSUME IInv, [Next]_vars PROVE TypeOK'
  OBVIOUS
<1>a. Checkouts \cap Staff = {} /\ MaxQty \in Nat /\ MaxStock \in Nat /\ Targets \subseteq Statuses
  BY OrdersAssumption
<1>0. TypeOK
  BY DEF IInv
<1>1. ASSUME NEW c \in Checkouts, NEW ph \in Phones, NEW q \in [Plants -> 0..MaxQty],
             Submit(c, ph, q)
      PROVE  TypeOK'
  BY <1>a, <1>0, <1>1 DEF TypeOK, DbTypeOK, TxTypeOK, Submit, dbVars, history, Txns, Quantities,
                    CheckoutPlaces, StaffPlaces
<1>2. ASSUME NEW c \in Checkouts, ResolveCustomer(c)
      PROVE  TypeOK'
  <2>1. CASE Release(c, "rejected")
    <3>1. TxTypeOK'
      BY <1>a, <1>0, <2>1, ReleaseType DEF Txns, CheckoutPlaces
    <3> QED BY <1>a, <1>0, <1>2, <3>1 DEF TypeOK, DbTypeOK, ResolveCustomer, dbVars, history
  <2>2. CASE ~Release(c, "rejected")
    <3>1. PICK place \in {"lock", "insert"} : pc' = [pc EXCEPT ![c] = place]
      BY <1>2, <2>2 DEF ResolveCustomer
    <3>2. UNCHANGED <<dbVars, history, phone, want, seen, newCustomer, day, number, job>>
      BY <1>2, <2>2 DEF ResolveCustomer
    <3> QED BY <1>a, <1>0, <3>1, <3>2 DEF TypeOK, DbTypeOK, TxTypeOK, dbVars, history,
                                          Txns, CheckoutPlaces, StaffPlaces
  <2> QED BY <2>1, <2>2
<1>3. ASSUME NEW c \in Checkouts, InsertCustomer(c)
      PROVE  TypeOK'
  <2>1. CASE Release(c, "rejected")
    <3>1. TxTypeOK'
      BY <1>a, <1>0, <2>1, ReleaseType DEF Txns, CheckoutPlaces
    <3> QED BY <1>a, <1>0, <1>3, <3>1 DEF TypeOK, DbTypeOK, InsertCustomer, dbVars, history
  <2>2. CASE ~Release(c, "rejected")
    <3>1. /\ pc' = [pc EXCEPT ![c] = "lock"]
          /\ newCustomer' = [newCustomer EXCEPT ![c] = TRUE]
          /\ UNCHANGED <<dbVars, history, phone, want, seen, day, number, job>>
      BY <1>3, <2>2 DEF InsertCustomer
    <3> QED BY <1>a, <1>0, <3>1 DEF TypeOK, DbTypeOK, TxTypeOK, dbVars, history,
                                    Txns, CheckoutPlaces, StaffPlaces
  <2> QED BY <2>1, <2>2
<1>4. ASSUME NEW t \in Txns, LockPlant(t)
      PROVE  TypeOK'
  BY <1>a, <1>0, <1>4 DEF TypeOK, DbTypeOK, TxTypeOK, LockPlant, dbVars, history, Txns
<1>5. ASSUME NEW c \in Checkouts, CheckOrder(c)
      PROVE  TypeOK'
  <2>1. CASE Release(c, "rejected")
    <3>1. TxTypeOK'
      BY <1>a, <1>0, <2>1, ReleaseType DEF Txns, CheckoutPlaces
    <3> QED BY <1>a, <1>0, <1>5, <3>1 DEF TypeOK, DbTypeOK, CheckOrder, dbVars, history
  <2>2. CASE ~Release(c, "rejected")
    <3>1. /\ pc' = [pc EXCEPT ![c] = "number"]
          /\ day' = [day EXCEPT ![c] = today]
          /\ UNCHANGED <<dbVars, history, phone, want, seen, newCustomer, number, job>>
      BY <1>5, <2>2 DEF CheckOrder
    <3> QED BY <1>a, <1>0, <3>1 DEF TypeOK, DbTypeOK, TxTypeOK, dbVars, history,
                                    Txns, CheckoutPlaces, StaffPlaces
  <2> QED BY <2>1, <2>2
<1>6. ASSUME NEW c \in Checkouts, GenerateOrderNumber(c)
      PROVE  TypeOK'
  <2>1. day[c] \in Nat
    BY <1>0 DEF TypeOK, TxTypeOK
  <2>2. NextSequence(day[c]) \in Nat
    BY <1>a, <1>0, <2>1, NextIsCount DEF IInv
  <2> QED
    BY <1>a, <1>0, <1>6, <2>1, <2>2 DEF TypeOK, DbTypeOK, TxTypeOK, GenerateOrderNumber, dbVars,
                                  history, Txns, CheckoutPlaces, StaffPlaces
<1>7. ASSUME NEW c \in Checkouts, CommitOrder(c)
      PROVE  TypeOK'
  <2>1. TxTypeOK'
    BY <1>a, <1>0, <1>7, ReleaseType DEF CommitOrder, Txns, CheckoutPlaces
  <2>2. phone[c] \in Phones /\ number[c] \in Nat \X Nat
    BY <1>a, <1>0, <1>7 DEF IInv, CheckoutShape, TypeOK, TxTypeOK, CommitOrder
  <2>3. orders' \in [Checkouts -> OrderRow \cup {None}]
    BY <1>a, <1>0, <1>7, <2>2 DEF TypeOK, DbTypeOK, TxTypeOK, CommitOrder, OrderRow, Statuses,
                            Flow, Txns
  <2>4. \A p \in Plants : want[c][p] > 0 => seen[c][p] \in PlantRow
    BY <1>a, <1>0, <1>7 DEF IInv, ReadyIsSellable, Sellable, CommitOrder, TypeOK, TxTypeOK, Txns
  <2>5. \A p \in Plants : want[c][p] \in Nat
    BY <1>0 DEF TypeOK, TxTypeOK, Quantities, Txns
  <2>6. \A p \in Plants : want[c][p] > 0 =>
            [plant[p] EXCEPT !.stock = seen[c][p].stock - want[c][p]] \in PlantRow
    BY <1>0, <2>4, <2>5 DEF TypeOK, DbTypeOK, PlantRow
  <2>7. plant' \in [Plants -> PlantRow]
    BY <1>0, <1>7, <2>6 DEF TypeOK, DbTypeOK, CommitOrder
  <2> QED
    BY <1>a, <1>0, <1>7, <2>1, <2>3, <2>7 DEF TypeOK, DbTypeOK, CommitOrder, history
<1>8. ASSUME NEW c \in Checkouts, RollbackOrder(c)
      PROVE  TypeOK'
  <2>1. TxTypeOK'
    BY <1>a, <1>0, <1>8, ReleaseType DEF RollbackOrder, Txns, CheckoutPlaces
  <2> QED
    BY <1>a, <1>0, <1>8, <2>1 DEF TypeOK, DbTypeOK, RollbackOrder, dbVars, history
<1>9. ASSUME NEW s \in Staff, NEW o \in Checkouts, NEW target \in Targets,
             LoadOrder(s, o, target)
      PROVE  TypeOK'
  <2>1. orders[o] \in OrderRow
    BY <1>a, <1>0, <1>9 DEF TypeOK, DbTypeOK, LoadOrder
  <2>2. want' \in [Txns -> Quantities]
    BY <1>0, <1>9, <2>1 DEF TypeOK, TxTypeOK, LoadOrder, OrderRow, Quantities, NoUnits
  <2>3. job' \in [Staff -> Jobs \cup {None}]
    BY <1>a, <1>0, <1>9, <2>1 DEF TypeOK, TxTypeOK, LoadOrder, OrderRow, Jobs
  <2>4. /\ pc' = [pc EXCEPT ![s] = "lock"]
        /\ UNCHANGED <<dbVars, history, phone, seen, newCustomer, day, number>>
    BY <1>9 DEF LoadOrder
  <2> QED
    BY <1>a, <1>0, <2>2, <2>3, <2>4 DEF TypeOK, DbTypeOK, TxTypeOK, dbVars, history, Txns,
                                        StaffPlaces, CheckoutPlaces
<1>10. ASSUME NEW s \in Staff, CommitStatus(s)
       PROVE  TypeOK'
  <2>1. TxTypeOK'
    BY <1>a, <1>0, <1>10, ReleaseType DEF CommitStatus, Txns, StaffPlaces
  <2>2. job[s] \in Jobs
    BY <1>0, <1>10 DEF IInv, StatusShape, CommitStatus, TypeOK, TxTypeOK
  <2>3. orders' \in [Checkouts -> OrderRow \cup {None}]
    BY <1>0, <1>10, <2>2 DEF IInv, StatusShape, TypeOK, DbTypeOK, CommitStatus, Jobs, OrderRow
  <2>4. \A p \in Locked(s) : /\ seen[s][p] \in PlantRow
                             /\ want[s][p] \in Nat
    BY <1>0 DEF Locked, TypeOK, TxTypeOK, Quantities, Txns
  <2>5. \A p \in Locked(s) :
            [plant[p] EXCEPT !.stock = seen[s][p].stock + want[s][p]] \in PlantRow
    BY <1>0, <2>4 DEF TypeOK, DbTypeOK, PlantRow, Locked
  <2>6. plant' \in [Plants -> PlantRow]
    BY <1>0, <1>10, <2>5 DEF TypeOK, DbTypeOK, CommitStatus
  <2>7. restocks' \in [Checkouts -> Nat]
    BY <1>0, <1>10, <2>2 DEF TypeOK, CommitStatus, Jobs
  <2> QED
    BY <1>0, <1>10, <2>1, <2>3, <2>6, <2>7 DEF TypeOK, DbTypeOK, CommitStatus
<1>11. ASSUME NEW s \in Staff, RollbackStatus(s)
       PROVE  TypeOK'
  <2>1. TxTypeOK'
    BY <1>a, <1>0, <1>11, ReleaseType DEF RollbackStatus, Txns, StaffPlaces
  <2> QED
    BY <1>a, <1>0, <1>11, <2>1 DEF TypeOK, DbTypeOK, RollbackStatus, dbVars, history
<1>12. ASSUME NEW p \in Plants, NEW stock \in 0..MaxStock, NEW listed \in {"sold", "hidden"},
              EditPlant(p, stock, listed)
       PROVE  TypeOK'
  BY <1>a, <1>0, <1>12 DEF TypeOK, DbTypeOK, TxTypeOK, EditPlant, txVars, PlantRow, Listings
<1>13. ASSUME NEW ph \in Phones, NEW status \in {"active", "inactive"}, EditCustomer(ph, status)
       PROVE  TypeOK'
  BY <1>a, <1>0, <1>13 DEF TypeOK, DbTypeOK, TxTypeOK, EditCustomer, txVars, history
<1>14. CASE Midnight
  BY <1>a, <1>0, <1>14 DEF TypeOK, DbTypeOK, TxTypeOK, Midnight, txVars, history
<1>15. CASE UNCHANGED vars
  BY <1>a, <1>0, <1>15 DEF TypeOK, DbTypeOK, TxTypeOK, vars, dbVars, txVars, history
<1> QED
  BY <1>1, <1>2, <1>3, <1>4, <1>5, <1>6, <1>7, <1>8, <1>9, <1>10, <1>11, <1>12, <1>13,
     <1>14, <1>15 DEF Next, CheckoutStep, StaffStep, Txns

----------------------------------------------------------------------------
\* What a commit or rollback leaves of the other transactions, entry by entry.
LEMMA ReleaseEffect ==
    ASSUME TypeOK, NEW t \in Txns, NEW outcome, Release(t, outcome)
    PROVE  /\ pc'[t] = outcome
           /\ \A p \in Plants : seen'[t][p] = None
           /\ t \in Checkouts => number'[t] = None
           /\ \A u \in Txns \ {t} :
                 pc'[u] = pc[u] /\ want'[u] = want[u] /\ seen'[u] = seen[u]
           /\ \A c \in Checkouts \ {t} :
                 /\ phone'[c] = phone[c] /\ number'[c] = number[c]
                 /\ newCustomer'[c] = newCustomer[c]
           /\ \A s \in Staff \ {t} : job'[s] = job[s]
  BY DEF Release, TypeOK, TxTypeOK, Txns

\* The rows a checkout that passed its checks holds are the committed ones.
LEMMA SellableRows ==
    ASSUME IInv, NEW c \in Checkouts, pc[c] \in {"number", "commit"}
    PROVE  \A p \in Plants : want[c][p] > 0 =>
               /\ seen[c][p] = plant[p]
               /\ want[c][p] <= plant[p].stock
               /\ \A u \in Txns \ {c} : seen[u][p] = None
  BY DEF IInv, ReadyIsSellable, Sellable, LockedRowsCurrent, Txns

\* Only the holder of a row lock writes the row, and it drops its locks as it does.
LEMMA LockStep == IInv /\ [Next]_vars => LockedRowsCurrent'
<1> SUFFICES ASSUME IInv, [Next]_vars PROVE LockedRowsCurrent'
  OBVIOUS
<1>0. TypeOK /\ LockedRowsCurrent
  BY DEF IInv
<1>1. CASE UNCHANGED <<plant, seen>>
  BY <1>0, <1>1 DEF LockedRowsCurrent
<1>2. ASSUME NEW t \in Txns, NEW outcome, Release(t, outcome), UNCHANGED plant
      PROVE  LockedRowsCurrent'
  BY <1>0, <1>2, ReleaseEffect DEF LockedRowsCurrent
<1>3. ASSUME NEW t \in Txns, LockPlant(t)
      PROVE  LockedRowsCurrent'
  <2>1. PICK p \in Plants : ~IsLocked(p) /\ seen' = [seen EXCEPT ![t][p] = plant[p]]
    BY <1>3 DEF LockPlant
  <2>2. \A u \in Txns : seen[u][p] = None
    BY <2>1 DEF IsLocked, Locked
  <2>3. plant' = plant
    BY <1>3 DEF LockPlant, dbVars
  <2>4. \A u \in Txns, q \in Plants :
            seen'[u][q] = IF u = t /\ q = p THEN plant[p] ELSE seen[u][q]
    BY <1>0, <2>1 DEF TypeOK, TxTypeOK
  <2> QED
    BY <1>0, <2>2, <2>3, <2>4 DEF LockedRowsCurrent
<1>4. ASSUME NEW c \in Checkouts, CommitOrder(c)
      PROVE  LockedRowsCurrent'
  <2>1. c \in Txns /\ Release(c, "placed") /\ pc[c] = "commit"
    BY <1>4 DEF CommitOrder, Txns
  <2>2. \A p \in Plants : want[c][p] > 0 \/ plant'[p] = plant[p]
    BY <1>4 DEF CommitOrder
  <2>3. \A u \in Txns \ {c}, p \in Plants : seen[u][p] # None => plant'[p] = plant[p]
    BY <2>1, <2>2, SellableRows
  <2> QED
    BY <1>0, <2>1, <2>3, ReleaseEffect DEF LockedRowsCurrent
<1>5. ASSUME NEW s \in Staff, CommitStatus(s)
      PROVE  LockedRowsCurrent'
  <2>1. s \in Txns /\ Release(s, "idle")
    BY <1>5 DEF CommitStatus, Txns
  <2>2. \A p \in Plants : seen[s][p] # None \/ plant'[p] = plant[p]
    BY <1>5 DEF CommitStatus, Locked
  <2>3. \A u \in Txns \ {s}, p \in Plants : seen[u][p] # None => plant'[p] = plant[p]
    BY <1>0, <2>1, <2>2 DEF LockedRowsCurrent
  <2> QED
    BY <1>0, <2>1, <2>3, ReleaseEffect DEF LockedRowsCurrent
<1>6. ASSUME NEW p \in Plants, NEW stock \in 0..MaxStock, NEW listed \in {"sold", "hidden"},
             EditPlant(p, stock, listed)
      PROVE  LockedRowsCurrent'
  <2>1. \A u \in Txns : seen[u][p] = None
    BY <1>6 DEF EditPlant, IsLocked, Locked
  <2>2. seen' = seen /\ \A q \in Plants \ {p} : plant'[q] = plant[q]
    BY <1>0, <1>6 DEF EditPlant, txVars, TypeOK, DbTypeOK
  <2> QED
    BY <1>0, <2>1, <2>2 DEF LockedRowsCurrent
<1>7. \/ UNCHANGED <<plant, seen>>
      \/ \E t \in Txns : \E outcome \in {"rejected", "idle"} : Release(t, outcome) /\ UNCHANGED plant
      \/ \E t \in Txns : LockPlant(t)
      \/ \E c \in Checkouts : CommitOrder(c)
      \/ \E s \in Staff : CommitStatus(s)
      \/ \E p \in Plants, stock \in 0..MaxStock, listed \in {"sold", "hidden"} :
            EditPlant(p, stock, listed)
  BY DEF Next, CheckoutStep, StaffStep, Txns, Submit, ResolveCustomer, InsertCustomer,
         CheckOrder, GenerateOrderNumber, RollbackOrder, LoadOrder, RollbackStatus,
         EditCustomer, Midnight, vars, dbVars, txVars, history
<1> QED
  BY <1>1, <1>2, <1>3, <1>4, <1>5, <1>6, <1>7

\* Stock falls in CommitOrder only, by no more than was read under the lock.
LEMMA OversellStep == IInv /\ [Next]_vars => NoOversell'
<1> SUFFICES ASSUME IInv, [Next]_vars PROVE NoOversell'
  OBVIOUS
<1>0. TypeOK /\ NoOversell
  BY DEF IInv
<1>1. CASE UNCHANGED plant
  BY <1>0, <1>1 DEF NoOversell
<1>2. ASSUME NEW c \in Checkouts, CommitOrder(c)
      PROVE  NoOversell'
  <2>1. \A p \in Plants : want[c][p] > 0 =>
            seen[c][p] = plant[p] /\ want[c][p] <= plant[p].stock
    BY <1>2, SellableRows DEF CommitOrder
  <2>2. \A p \in Plants : plant[p] \in PlantRow /\ want[c][p] \in Nat
    BY <1>0 DEF TypeOK, DbTypeOK, TxTypeOK, Quantities, Txns
  <2>3. \A p \in Plants : want[c][p] > 0 =>
            plant'[p].stock = plant[p].stock - want[c][p]
    BY <1>2, <2>1, <2>2 DEF CommitOrder, PlantRow
  <2>4. \A p \in Plants : ~(want[c][p] > 0) => plant'[p] = plant[p]
    BY <1>2 DEF CommitOrder
  <2> QED
    BY <1>0, <2>1, <2>2, <2>3, <2>4 DEF NoOversell, PlantRow
<1>3. ASSUME NEW s \in Staff, CommitStatus(s)
      PROVE  NoOversell'
  <2>1. \A p \in Locked(s) : seen[s][p] = plant[p]
    BY DEF IInv, LockedRowsCurrent, Locked, Txns
  <2>2. \A p \in Plants : plant[p] \in PlantRow /\ want[s][p] \in Nat
    BY <1>0 DEF TypeOK, DbTypeOK, TxTypeOK, Quantities, Txns
  <2>3. \A p \in Locked(s) : plant'[p].stock = plant[p].stock + want[s][p]
    BY <1>3, <2>1, <2>2 DEF CommitStatus, PlantRow, Locked
  <2>4. \A p \in Plants \ Locked(s) : plant'[p] = plant[p]
    BY <1>3 DEF CommitStatus
  <2> QED
    BY <1>0, <2>2, <2>3, <2>4 DEF NoOversell, PlantRow
<1>4. ASSUME NEW p \in Plants, NEW stock \in 0..MaxStock, NEW listed \in {"sold", "hidden"},
             EditPlant(p, stock, listed)
      PROVE  NoOversell'
  BY <1>0, <1>4, OrdersAssumption DEF EditPlant, NoOversell, TypeOK, DbTypeOK
<1> QED
  BY <1>1, <1>2, <1>3, <1>4
  DEF Next, CheckoutStep, StaffStep, Submit, ResolveCustomer, InsertCustomer, LockPlant,
      CheckOrder, GenerateOrderNumber, RollbackOrder, LoadOrder, RollbackStatus,
      EditCustomer, Midnight, vars, dbVars

\* What passed the checks of create_order still passes them at its commit.
LEMMA SellableStep == IInv /\ [Next]_vars => ReadyIsSellable'
<1> SUFFICES ASSUME IInv, [Next]_vars,
                    NEW c \in Checkouts, pc'[c] \in {"number", "commit"}
             PROVE  Sellable(c)'
  BY DEF ReadyIsSellable
<1>0. TypeOK /\ c \in Txns
  BY DEF IInv, Txns
<1>1. ASSUME pc[c] \in {"number", "commit"}, want'[c] = want[c], seen'[c] = seen[c]
      PROVE  Sellable(c)'
  BY <1>1 DEF IInv, ReadyIsSellable, Sellable
<1>2. ASSUME NEW t \in Txns, NEW outcome \in {"rejected", "placed", "idle"},
             Release(t, outcome)
      PROVE  Sellable(c)'
  <2>1. t # c
    BY <1>0, <1>2, ReleaseEffect
  <2> QED
    BY <1>0, <1>1, <1>2, <2>1, ReleaseEffect
<1>3. ASSUME NEW t \in Txns, LockPlant(t)
      PROVE  Sellable(c)'
  <2>1. t # c
    BY <1>3 DEF LockPlant
  <2> QED
    BY <1>0, <1>1, <1>3, <2>1 DEF LockPlant, TypeOK, TxTypeOK
<1>4. ASSUME NEW d \in Checkouts, pc[d] = "lock", pc' = [pc EXCEPT ![d] = "number"],
             Sellable(d), UNCHANGED <<want, seen>>
      PROVE  Sellable(c)'
  BY <1>0, <1>1, <1>4 DEF Sellable, TypeOK, TxTypeOK
<1>5. ASSUME NEW d \in Txns, NEW place \in {"resolve", "insert", "lock"},
             pc[d] \in {"new", "resolve", "insert", "idle"},
             pc' = [pc EXCEPT ![d] = place],
             \E q : want' = [want EXCEPT ![d] = q], UNCHANGED seen
      PROVE  Sellable(c)'
  <2>1. d # c
    BY <1>0, <1>5 DEF TypeOK, TxTypeOK
  <2> QED
    BY <1>0, <1>1, <1>5, <2>1 DEF TypeOK, TxTypeOK
<1>6. ASSUME NEW d \in Txns, NEW place \in {"lock", "insert"},
             pc[d] \in {"resolve", "insert"},
             pc' = [pc EXCEPT ![d] = place], UNCHANGED <<want, seen>>
      PROVE  Sellable(c)'
  BY <1>0, <1>1, <1>6 DEF TypeOK, TxTypeOK
<1>7. ASSUME NEW d \in Checkouts, GenerateOrderNumber(d)
      PROVE  Sellable(c)'
  BY <1>0, <1>1, <1>7 DEF GenerateOrderNumber, TypeOK, TxTypeOK
<1>8. CASE UNCHANGED <<pc, want, seen>>
  BY <1>1, <1>8
<1>9. ASSUME NEW d \in Checkouts, ResolveCustomer(d) \/ InsertCustomer(d)
      PROVE  Sellable(c)'
  BY <1>2, <1>6, <1>9 DEF ResolveCustomer, InsertCustomer, Txns
<1>10. ASSUME NEW d \in Checkouts, CheckOrder(d)
       PROVE  Sellable(c)'
  BY <1>2, <1>4, <1>10 DEF CheckOrder, Txns
<1>11. ASSUME NEW d \in Checkouts, NEW ph \in Phones, NEW q \in [Plants -> 0..MaxQty],
              Submit(d, ph, q)
       PROVE  Sellable(c)'
  BY <1>5, <1>11 DEF Submit, Txns
<1>12. ASSUME NEW s \in Staff, NEW o \in Checkouts, NEW target \in Targets,
              LoadOrder(s, o, target)
       PROVE  Sellable(c)'
  BY <1>5, <1>12 DEF LoadOrder, Txns
<1>13. ASSUME NEW d \in Checkouts, CommitOrder(d) \/ RollbackOrder(d)
       PROVE  Sellable(c)'
  BY <1>2, <1>13 DEF CommitOrder, RollbackOrder, Txns
<1>14. ASSUME NEW s \in Staff, CommitStatus(s) \/ RollbackStatus(s)
       PROVE  Sellable(c)'
  BY <1>2, <1>14 DEF CommitStatus, RollbackStatus, Txns
<1> QED
  BY <1>3, <1>7, <1>8, <1>9, <1>10, <1>11, <1>12, <1>13, <1>14
  DEF Next, CheckoutStep, StaffStep, EditPlant, EditCustomer, Midnight, vars, txVars, Txns

\* Requests keep what their place in create_order or update_order_status needs.
LEMMA ShapeStep == IInv /\ [Next]_vars => CheckoutShape' /\ StatusShape'
<1> SUFFICES ASSUME IInv, [Next]_vars PROVE CheckoutShape' /\ StatusShape'
  OBVIOUS
<1>0. TypeOK /\ CheckoutShape /\ StatusShape
  BY DEF IInv
<1>a. /\ Checkouts \cap Staff = {} /\ None \notin OrderRow /\ None \notin Jobs
      /\ None \notin Phones /\ None \notin Nat \X Nat
  BY OrdersAssumption
<1>1. ASSUME NEW c \in Checkouts, NEW ph \in Phones, NEW q \in [Plants -> 0..MaxQty],
             Submit(c, ph, q)
      PROVE  CheckoutShape' /\ StatusShape'
  BY <1>0, <1>a, <1>1 DEF Submit, CheckoutShape, StatusShape, TypeOK, TxTypeOK, Txns, dbVars
<1>2. ASSUME NEW t \in Txns, NEW outcome \in {"rejected", "idle"}, Release(t, outcome),
             UNCHANGED dbVars, t \in Checkouts => outcome = "rejected"
      PROVE  CheckoutShape' /\ StatusShape'
  <2>1. orders' = orders
    BY <1>2 DEF dbVars
  <2>2. CheckoutShape'
    BY <1>0, <1>a, <1>2, <2>1, ReleaseEffect DEF CheckoutShape, Txns
  <2>3. StatusShape'
    BY <1>0, <1>a, <1>2, <2>1, ReleaseEffect DEF StatusShape, Txns
  <2> QED BY <2>2, <2>3
<1>3. ASSUME NEW c \in Checkouts, NEW place \in {"insert", "lock", "number"},
             pc[c] \in {"resolve", "insert", "lock"}, pc' = [pc EXCEPT ![c] = place],
             UNCHANGED <<dbVars, phone, number, job>>
      PROVE  CheckoutShape' /\ StatusShape'
  BY <1>0, <1>a, <1>3 DEF CheckoutShape, StatusShape, Txns, dbVars, TypeOK, TxTypeOK
<1>4. ASSUME NEW c \in Checkouts, GenerateOrderNumber(c)
      PROVE  CheckoutShape' /\ StatusShape'
  <2>1. number'[c] # None
    <3>1. day[c] \in Nat
      BY <1>0 DEF TypeOK, TxTypeOK
    <3>2. NextSequence(day[c]) \in Nat
      BY <1>0, <3>1, NextIsCount DEF IInv
    <3> QED
      BY <1>0, <1>a, <1>4, <3>1, <3>2 DEF GenerateOrderNumber, TypeOK, TxTypeOK
  <2> QED
    BY <1>0, <1>a, <1>4, <2>1 DEF GenerateOrderNumber, CheckoutShape, StatusShape, Txns,
                                  dbVars, TypeOK, TxTypeOK
<1>5. ASSUME NEW c \in Checkouts, CommitOrder(c)
      PROVE  CheckoutShape' /\ StatusShape'
  <2>1. orders'[c] # None /\ \A o \in Checkouts \ {c} : orders'[o] = orders[o]
    <3>1. orders'[c] \in OrderRow
      <4>1. phone[c] \in Phones /\ number[c] \in Nat \X Nat /\ want[c] \in Quantities
        BY <1>0, <1>5 DEF CommitOrder, CheckoutShape, TypeOK, TxTypeOK, Txns
      <4> QED
        BY <1>0, <1>5, <4>1 DEF CommitOrder, OrderRow, Statuses, Flow, TypeOK, DbTypeOK
    <3> QED
      BY <1>0, <1>a, <1>5, <3>1 DEF CommitOrder, TypeOK, DbTypeOK
  <2>2. c \in Txns /\ Release(c, "placed") /\ orders[c] = None
    BY <1>0, <1>5 DEF CommitOrder, CheckoutShape, Txns
  <2>3. CheckoutShape'
    BY <1>0, <1>a, <2>1, <2>2, ReleaseEffect DEF CheckoutShape, Txns
  <2>4. \A s \in Staff : pc'[s] = pc[s] /\ job'[s] = job[s]
    BY <1>0, <1>a, <2>2, ReleaseEffect DEF Txns
  <2>5. \A s \in Staff : job[s] # None => job[s].order \in Checkouts
    BY <1>0 DEF TypeOK, TxTypeOK, Jobs
  <2>6. StatusShape'
    BY <1>0, <2>1, <2>2, <2>4, <2>5 DEF StatusShape
  <2> QED BY <2>3, <2>6
<1>6. ASSUME NEW s \in Staff, NEW o \in Checkouts, NEW target \in Targets,
             LoadOrder(s, o, target)
      PROVE  CheckoutShape' /\ StatusShape'
  <2>1. job'[s].order = o /\ job'[s] # None
    <3>1. orders[o].status \in Statuses /\ target \in Statuses
      BY <1>0, <1>6, OrdersAssumption DEF LoadOrder, TypeOK, DbTypeOK, OrderRow
    <3> QED
      BY <1>0, <1>a, <1>6, <3>1 DEF LoadOrder, TypeOK, TxTypeOK, Jobs
  <2> QED
    BY <1>0, <1>a, <1>6, <2>1 DEF LoadOrder, CheckoutShape, StatusShape, Txns, dbVars,
                                  TypeOK, TxTypeOK
<1>7. ASSUME NEW s \in Staff, CommitStatus(s)
      PROVE  CheckoutShape' /\ StatusShape'
  <2>1. job[s] \in Jobs /\ orders[job[s].order] # None
    BY <1>0, <1>7 DEF CommitStatus, StatusShape, TypeOK, TxTypeOK
  <2>2. \A o \in Checkouts : orders'[o] # None <=> orders[o] # None
    BY <1>0, <1>a, <1>7, <2>1 DEF CommitStatus, TypeOK, DbTypeOK, Jobs, OrderRow
  <2>3. s \in Txns /\ Release(s, "idle")
    BY <1>7 DEF CommitStatus, Txns
  <2>4. \A c \in Checkouts : pc'[c] = pc[c] /\ phone'[c] = phone[c] /\ number'[c] = number[c]
    BY <1>0, <1>a, <2>3, ReleaseEffect DEF Txns
  <2>5. CheckoutShape'
    BY <1>0, <2>2, <2>4 DEF CheckoutShape
  <2>6. \A t \in Staff : job[t] # None => job[t].order \in Checkouts
    BY <1>0 DEF TypeOK, TxTypeOK, Jobs
  <2>7. \A t \in Staff \ {s} : pc'[t] = pc[t] /\ job'[t] = job[t]
    BY <1>0, <2>3, ReleaseEffect DEF Txns
  <2>8. StatusShape'
    BY <1>0, <2>2, <2>3, <2>6, <2>7, ReleaseEffect DEF StatusShape
  <2> QED BY <2>5, <2>8
<1>8. CASE UNCHANGED <<orders, pc, phone, number, job>>
  BY <1>0, <1>8 DEF CheckoutShape, StatusShape
<1>9. ASSUME NEW c \in Checkouts, ResolveCustomer(c) \/ InsertCustomer(c)
      PROVE  CheckoutShape' /\ StatusShape'
  BY <1>2, <1>3, <1>9 DEF ResolveCustomer, InsertCustomer, Txns
<1>10. ASSUME NEW c \in Checkouts, CheckOrder(c) \/ RollbackOrder(c)
       PROVE  CheckoutShape' /\ StatusShape'
  BY <1>2, <1>3, <1>10 DEF CheckOrder, RollbackOrder, Txns
<1>11. ASSUME NEW s \in Staff, RollbackStatus(s)
       PROVE  CheckoutShape' /\ StatusShape'
  BY <1>2, <1>a, <1>11 DEF RollbackStatus, Txns
<1> QED
  BY <1>1, <1>4, <1>5, <1>6, <1>7, <1>8, <1>9, <1>10, <1>11
  DEF Next, CheckoutStep, StaffStep, LockPlant, EditPlant, EditCustomer, Midnight, vars,
      dbVars, txVars

----------------------------------------------------------------------------
\* Numbers are only written by the holder of the advisory lock, one at a time.
LEMMA NumberStep == IInv /\ [Next]_vars => NumberIsNext' /\ DenseNumbers'
<1> SUFFICES ASSUME IInv, [Next]_vars PROVE NumberIsNext' /\ DenseNumbers'
  OBVIOUS
<1>0. TypeOK /\ CheckoutShape /\ StatusShape /\ NumberIsNext /\ DenseNumbers
  BY DEF IInv
<1>a. None \notin OrderRow /\ Checkouts \cap Staff = {}
  BY OrdersAssumption
<1>1. ASSUME \A o \in Checkouts : /\ orders'[o] # None <=> orders[o] # None
                                  /\ orders[o] # None => orders'[o].number = orders[o].number
      PROVE  /\ DenseNumbers'
             /\ \A d \in Nat : Dated(d)' = Dated(d)
  <2>1. ASSUME NEW d \in Nat PROVE Dated(d)' = Dated(d) /\ Taken(d)' = Taken(d)
    <3>1. Dated(d)' = {o \in Checkouts : orders'[o] # None /\ orders'[o].number[1] = d}
      BY DEF Dated, Placed
    <3>2. Dated(d) = {o \in Checkouts : orders[o] # None /\ orders[o].number[1] = d}
      BY DEF Dated, Placed
    <3>3. Dated(d)' = Dated(d)
      BY <1>1, <3>1, <3>2
    <3>4. \A o \in Dated(d) : orders'[o].number = orders[o].number
      BY <1>1 DEF Dated, Placed
    <3>5. Taken(d)' = {orders'[o].number[2] : o \in Dated(d)}
      BY <3>3 DEF Taken
    <3>6. Taken(d) = {orders[o].number[2] : o \in Dated(d)}
      BY DEF Taken
    <3> QED BY <3>3, <3>4, <3>5, <3>6
  <2> QED
    BY <1>0, <2>1 DEF DenseNumbers
<1>2. ASSUME \A c \in Checkouts : number'[c] = number[c] \/ number'[c] = None,
             \A d \in Nat : Dated(d)' = Dated(d)
      PROVE  NumberIsNext'
  BY <1>0, <1>2 DEF NumberIsNext, TypeOK, TxTypeOK
<1>3. ASSUME NEW c \in Checkouts, CommitOrder(c)
      PROVE  NumberIsNext' /\ DenseNumbers'
  <2>1. /\ number[c] \in Nat \X Nat /\ orders[c] = None
        /\ number[c][2] = Cardinality(Dated(number[c][1])) + 1
        /\ \A x \in Checkouts \ {c} : number[x] = None
    BY <1>0, <1>3 DEF CommitOrder, CheckoutShape, NumberIsNext, TypeOK, TxTypeOK
  <2>2. PICK d \in Nat : d = number[c][1]
    BY <2>1
  <2>3. PICK k : k = Cardinality(Dated(d))
    OBVIOUS
  <2>4. IsFiniteSet(Dated(d)) /\ k \in Nat
    BY <2>3, OrdersAssumption, FS_Subset, FS_CardinalityType DEF Dated, Placed
  <2>5. number[c] = <<d, k + 1>>
    BY <2>1, <2>2, <2>3
  <2>6. NumberIsNext'
    BY <1>0, <1>3, <2>1, ReleaseEffect DEF CommitOrder, NumberIsNext, Txns
  <2>7. phone[c] \in Phones /\ want[c] \in Quantities
    BY <1>0, <1>3 DEF CommitOrder, CheckoutShape, TypeOK, TxTypeOK, Txns
  <2>8. /\ orders'[c] # None /\ orders'[c].number = <<d, k + 1>>
        /\ \A o \in Checkouts \ {c} : orders'[o] = orders[o]
    <3>1. orders'[c] \in OrderRow
      BY <1>0, <1>3, <2>1, <2>7 DEF CommitOrder, OrderRow, Statuses, Flow, TypeOK, DbTypeOK
    <3> QED
      BY <1>0, <1>a, <1>3, <2>5, <3>1 DEF CommitOrder, TypeOK, DbTypeOK
  <2>9. ASSUME NEW x \in Nat
        PROVE  /\ Dated(x)' = IF x = d THEN Dated(x) \cup {c} ELSE Dated(x)
               /\ c \notin Dated(x)
               /\ \A o \in Dated(x) : orders'[o] = orders[o]
    <3>1. Dated(x)' = {o \in Checkouts : orders'[o] # None /\ orders'[o].number[1] = x}
      BY DEF Dated, Placed
    <3>2. Dated(x) = {o \in Checkouts : orders[o] # None /\ orders[o].number[1] = x}
      BY DEF Dated, Placed
    <3>3. orders'[c].number[1] = d
      BY <2>8
    <3> QED BY <2>1, <2>8, <3>1, <3>2, <3>3
  <2>10. ASSUME NEW x \in Nat
         PROVE  Taken(x)' = IF x = d THEN Taken(x) \cup {k + 1} ELSE Taken(x)
    <3>1. Taken(x)' = {orders'[o].number[2] : o \in Dated(x)'}
      BY DEF Taken
    <3>2. orders'[c].number[2] = k + 1
      BY <2>8
    <3> QED BY <2>9, <3>1, <3>2 DEF Taken
  <2>11. ASSUME NEW x \in Nat PROVE Taken(x)' = 1..Cardinality(Dated(x))'
    <3>1. CASE x = d
      <4>1. Cardinality(Dated(d))' = k + 1
        BY <2>3, <2>4, <2>9, FS_AddElement
      <4>2. Taken(d) = 1..k
        BY <1>0, <2>3 DEF DenseNumbers
      <4>3. (1..k) \cup {k + 1} = 1..(k + 1)
        BY <2>4
      <4> QED BY <2>10, <3>1, <4>1, <4>2, <4>3
    <3>2. CASE x # d
      BY <1>0, <2>9, <2>10, <3>2 DEF DenseNumbers
    <3> QED BY <3>1, <3>2
  <2>12. DenseNumbers'
    BY <2>11 DEF DenseNumbers
  <2> QED BY <2>6, <2>12
<1>4. ASSUME NEW c \in Checkouts, GenerateOrderNumber(c)
      PROVE  NumberIsNext' /\ DenseNumbers'
  <2>1. day[c] \in Nat
    BY <1>0 DEF TypeOK, TxTypeOK
  <2>2. orders' = orders
    BY <1>4 DEF GenerateOrderNumber, dbVars
  <2>3. DenseNumbers' /\ \A d \in Nat : Dated(d)' = Dated(d)
    BY <1>1, <2>2
  <2>4. number'[c] = <<day[c], Cardinality(Dated(day[c])) + 1>>
    BY <1>0, <1>4, <2>1, NextIsCount DEF GenerateOrderNumber, TypeOK, TxTypeOK
  <2>5. \A d \in Checkouts \ {c} : number'[d] = None
    BY <1>0, <1>4 DEF GenerateOrderNumber, NumberLocked, TypeOK, TxTypeOK
  <2>6. NumberIsNext'
    BY <2>1, <2>3, <2>4, <2>5 DEF NumberIsNext
  <2> QED BY <2>3, <2>6
<1>5. ASSUME NEW s \in Staff, CommitStatus(s)
      PROVE  NumberIsNext' /\ DenseNumbers'
  <2>1. job[s] \in Jobs /\ orders[job[s].order] # None
    BY <1>0, <1>5 DEF CommitStatus, StatusShape, TypeOK, TxTypeOK
  <2>2. \A o \in Checkouts : /\ orders'[o] # None <=> orders[o] # None
                             /\ orders[o] # None => orders'[o].number = orders[o].number
    BY <1>0, <1>a, <1>5, <2>1 DEF CommitStatus, TypeOK, DbTypeOK, Jobs, OrderRow
  <2>3. \A c \in Checkouts : number'[c] = number[c]
    BY <1>0, <1>a, <1>5, ReleaseEffect DEF CommitStatus, Txns
  <2> QED BY <1>1, <1>2, <2>2, <2>3
<1>6. CASE UNCHANGED <<orders, number>>
  BY <1>1, <1>2, <1>6
<1>7. ASSUME NEW t \in Txns, NEW outcome, Release(t, outcome), UNCHANGED orders
      PROVE  NumberIsNext' /\ DenseNumbers'
  <2>1. \A c \in Checkouts : number'[c] = number[c] \/ number'[c] = None
    BY <1>0, <1>7, ReleaseEffect DEF Txns
  <2> QED BY <1>1, <1>2, <1>7, <2>1
<1>8. \/ UNCHANGED <<orders, number>>
      \/ \E t \in Txns : \E outcome \in {"rejected", "idle"} : Release(t, outcome) /\ UNCHANGED orders
      \/ \E c \in Checkouts : CommitOrder(c) \/ GenerateOrderNumber(c)
      \/ \E s \in Staff : CommitStatus(s)
  BY DEF Next, CheckoutStep, StaffStep, Txns, Submit, ResolveCustomer, InsertCustomer,
         LockPlant, CheckOrder, RollbackOrder, LoadOrder, RollbackStatus, EditPlant,
         EditCustomer, Midnight, vars, dbVars, txVars, history
<1> QED
  BY <1>3, <1>4, <1>5, <1>6, <1>7, <1>8

----------------------------------------------------------------------------
\* IInv holds of every reachable state, whatever the number of requests.
THEOREM Inductive == Spec => []IInv
<1>1. IInv /\ [Next]_vars => IInv'
  BY TypeStep, ShapeStep, LockStep, SellableStep, OversellStep, NumberStep DEF IInv
<1> QED
  BY InitIInv, <1>1, PTL DEF Spec

\* The tables and the requests keep their types in create_order,
\* update_order_status and the edits around them.
THEOREM TypesHold == Spec => []TypeOK
  BY Inductive, PTL DEF IInv

\* However many checkouts and cancellations interleave, stock is never negative:
\* the CHECK on plants.stock is a net nobody falls into.
THEOREM NeverOversold == Spec => []NoOversell
  BY Inductive, PTL DEF IInv

\* FOR UPDATE: the stock a transaction computes from is the committed one, and
\* nobody else computes from it, until it ends.
THEOREM RowsStayCurrent == Spec => []LockedRowsCurrent
  BY Inductive, PTL DEF IInv

\* Under the advisory lock, a day's order numbers are 1, 2, 3 ...
THEOREM NumbersHaveNoGaps == Spec => []GapFreeNumbers
<1>1. IInv => GapFreeNumbers
  BY DEF IInv, TypeOK, DbTypeOK, DenseNumbers, GapFreeNumbers
<1> QED
  BY Inductive, <1>1, PTL

\* Between the SELECT of the numbers taken and the commit, nobody commits the
\* number a checkout has allocated: the unique column never refuses it.
THEOREM NumberIsFreeToCommit == Spec => []NumberStaysFree
<1>1. ASSUME IInv PROVE NumberStaysFree
  <2> SUFFICES ASSUME NEW c \in Checkouts, number[c] # None,
                      NEW o \in Placed, orders[o].number = number[c]
               PROVE  FALSE
    BY DEF NumberStaysFree
  <2>1. TypeOK /\ DenseNumbers /\ NumberIsNext
    BY <1>1 DEF IInv
  <2>2. number[c] \in Nat \X Nat
    BY <2>1 DEF TypeOK, TxTypeOK
  <2> DEFINE d == number[c][1]
  <2>3. d \in Nat /\ Cardinality(Dated(d)) \in Nat
    BY <2>1, <2>2, NextIsCount
  <2>4. number[c][2] = Cardinality(Dated(d)) + 1
    BY <2>1 DEF NumberIsNext
  <2>5. number[c][2] \in Taken(d)
    BY DEF Taken, Dated
  <2>6. number[c][2] \in 1..Cardinality(Dated(d))
    BY <2>1, <2>3, <2>5 DEF DenseNumbers
  <2> QED BY <2>3, <2>4, <2>6
<1> QED
  BY Inductive, <1>1, PTL

----------------------------------------------------------------------------
(***************************************************************************)
(* Customers.  OneCustomerPerPhone needs a second invariant: a checkout    *)
(* past the lookup of its customer either has inserted the row, which      *)
(* nobody else can while it is uncommitted, or has found it, and customers *)
(* are never deleted.                                                      *)
(***************************************************************************)
PastCustomer(c) == pc[c] \in {"lock", "number", "commit"}

CustomerFound ==
    \A c \in Checkouts :
        /\ newCustomer[c] => PastCustomer(c)
        /\ PastCustomer(c) => newCustomer[c] \/ customers[phone[c]] # "none"

CInv == OneCustomerPerPhone /\ CustomerFound

\* Steps that write no order's phone, no customer, and move no checkout into or
\* out of its part after the lookup keep CInv.
LEMMA CustomersKept ==
    ASSUME IInv, CInv, UNCHANGED <<customers, phone, newCustomer>>,
           \A o \in Checkouts : orders'[o] # None =>
               orders[o] # None /\ orders'[o].phone = orders[o].phone,
           \A c \in Checkouts : PastCustomer(c)' <=> PastCustomer(c)
    PROVE  CInv'
  BY DEF CInv, OneCustomerPerPhone, CustomerFound, Placed, PastCustomer

\* The end of a transaction, of whichever kind.
LEMMA CustomersReleased ==
    ASSUME IInv, CInv, NEW t \in Txns, NEW outcome \in {"rejected", "idle"}, Release(t, outcome),
           UNCHANGED customers,
           \A o \in Checkouts : orders'[o] # None =>
               orders[o] # None /\ orders'[o].phone = orders[o].phone
    PROVE  CInv'
<1>1. \A c \in Checkouts : IF c = t THEN ~newCustomer'[c] /\ ~PastCustomer(c)'
                           ELSE /\ newCustomer'[c] = newCustomer[c] /\ phone'[c] = phone[c]
                                /\ pc'[c] = pc[c]
  BY DEF Release, IInv, TypeOK, TxTypeOK, Txns, PastCustomer
<1>2. OneCustomerPerPhone'
  BY <1>1 DEF CInv, OneCustomerPerPhone, Placed
<1>3. CustomerFound'
  BY <1>1 DEF CInv, CustomerFound, PastCustomer
<1> QED
  BY <1>2, <1>3 DEF CInv

\* The lookup and the insert of the customer.
LEMMA CustomerStep ==
    ASSUME IInv, CInv, NEW c \in Checkouts, ResolveCustomer(c) \/ InsertCustomer(c)
    PROVE  CInv'
<1>0. TypeOK
  BY DEF IInv
<1>1. CASE Release(c, "rejected")
  BY <1>1, CustomersReleased DEF ResolveCustomer, InsertCustomer, dbVars, Txns
<1>2. CASE ResolveCustomer(c) /\ ~Release(c, "rejected")
  <2>1. /\ pc' = [pc EXCEPT ![c] = IF customers[phone[c]] = "active" THEN "lock" ELSE "insert"]
        /\ pc[c] = "resolve"
        /\ UNCHANGED <<customers, orders, phone, newCustomer>>
    BY <1>2 DEF ResolveCustomer, dbVars
  <2>2. \A d \in Checkouts \ {c} : pc'[d] = pc[d]
    BY <1>0, <2>1 DEF TypeOK, TxTypeOK, Txns
  <2>3. PastCustomer(c)' => customers[phone[c]] = "active"
    BY <1>0, <2>1 DEF TypeOK, TxTypeOK, Txns, PastCustomer
  <2>4. ~newCustomer[c]
    BY <2>1 DEF CInv, CustomerFound, PastCustomer
  <2>5. CustomerFound'
    BY <2>1, <2>2, <2>3, <2>4 DEF CInv, CustomerFound, PastCustomer
  <2> QED
    BY <2>1, <2>5 DEF CInv, OneCustomerPerPhone, Placed
<1>3. CASE InsertCustomer(c) /\ ~Release(c, "rejected")
  <2>1. /\ pc' = [pc EXCEPT ![c] = "lock"]
        /\ newCustomer' = [newCustomer EXCEPT ![c] = TRUE]
        /\ customers[phone[c]] = "none"
        /\ ~PhonePending(c)
        /\ UNCHANGED <<customers, orders, phone>>
    BY <1>3 DEF InsertCustomer, dbVars
  <2>2. newCustomer'[c] /\ PastCustomer(c)'
    BY <1>0, <2>1 DEF TypeOK, TxTypeOK, Txns, PastCustomer
  <2>3. \A d \in Checkouts \ {c} : pc'[d] = pc[d] /\ newCustomer'[d] = newCustomer[d]
    BY <1>0, <2>1 DEF TypeOK, TxTypeOK, Txns
  <2>4. \A d \in Checkouts \ {c} : newCustomer[d] => phone[d] # phone[c]
    BY <2>1 DEF PhonePending
  <2>5. OneCustomerPerPhone'
    BY <2>1, <2>2, <2>3, <2>4 DEF CInv, OneCustomerPerPhone, Placed
  <2>6. CustomerFound'
    BY <2>1, <2>2, <2>3 DEF CInv, CustomerFound, PastCustomer
  <2> QED
    BY <2>5, <2>6 DEF CInv
<1> QED
  BY <1>1, <1>2, <1>3

\* A commit makes its new customer the committed row of its phone.
LEMMA CustomerCommit ==
    ASSUME IInv, CInv, NEW c \in Checkouts, CommitOrder(c)
    PROVE  CInv'
<1>0. TypeOK /\ CheckoutShape /\ c \in Txns
  BY DEF IInv, Txns
<1>1. pc[c] = "commit" /\ phone[c] \in Phones
  BY <1>0 DEF CommitOrder, CheckoutShape, TypeOK, TxTypeOK
<1>2. \A ph \in Phones : customers'[ph] = IF newCustomer[c] /\ ph = phone[c] THEN "active"
                                          ELSE customers[ph]
  BY DEF CommitOrder
<1>3. customers'[phone[c]] # "none"
  BY <1>1, <1>2 DEF CInv, CustomerFound, PastCustomer
<1>4. /\ ~newCustomer'[c] /\ ~PastCustomer(c)'
      /\ \A d \in Checkouts \ {c} : /\ newCustomer'[d] = newCustomer[d]
                                    /\ phone'[d] = phone[d] /\ pc'[d] = pc[d]
  BY <1>0 DEF CommitOrder, Release, TypeOK, TxTypeOK, Txns, PastCustomer
<1>5. /\ orders'[c].phone = phone[c]
      /\ \A o \in Checkouts \ {c} : orders'[o] = orders[o]
  BY <1>0 DEF CommitOrder, TypeOK, DbTypeOK
<1>6. \A o \in Placed : orders[o].phone \in Phones
  BY <1>0 DEF TypeOK, DbTypeOK, Placed, OrderRow
<1>7. \A o \in Placed' : customers'[orders'[o].phone] # "none"
  BY <1>2, <1>3, <1>5, <1>6 DEF CInv, OneCustomerPerPhone, Placed
<1>8. \A d \in Checkouts \ {c} : newCustomer[d] => phone[d] \in Phones /\ customers'[phone[d]] = "none"
  <2> SUFFICES ASSUME NEW d \in Checkouts \ {c}, newCustomer[d]
               PROVE  phone[d] \in Phones /\ customers'[phone[d]] = "none"
    OBVIOUS
  <2>1. phone[d] \in Phones
    BY <1>0 DEF CInv, CustomerFound, PastCustomer, CheckoutShape, TypeOK, TxTypeOK
  <2> QED
    BY <1>2, <2>1 DEF CInv, OneCustomerPerPhone
<1>9. OneCustomerPerPhone'
  BY <1>4, <1>7, <1>8 DEF CInv, OneCustomerPerPhone
<1>10. CustomerFound'
  <2>1. \A d \in Checkouts : PastCustomer(d) => phone[d] \in Phones
    BY <1>0 DEF PastCustomer, CheckoutShape, TypeOK, TxTypeOK
  <2> QED
    BY <1>2, <1>4, <2>1 DEF CInv, CustomerFound, PastCustomer
<1> QED
  BY <1>9, <1>10 DEF CInv

\* An admin creates no customer whose phone is being inserted, and deletes none.
LEMMA CustomerEdit ==
    ASSUME IInv, CInv, NEW ph \in Phones, NEW status \in {"active", "inactive"},
           EditCustomer(ph, status)
    PROVE  CInv'
<1>1. /\ UNCHANGED <<orders, pc, phone, newCustomer>>
      /\ customers[ph] = "none" => \A c \in Checkouts : ~(newCustomer[c] /\ phone[c] = ph)
  BY DEF EditCustomer, txVars
<1>2. \A other \in Phones : customers'[other] = IF other = ph THEN status ELSE customers[other]
  BY DEF EditCustomer, IInv, TypeOK, DbTypeOK
<1>3. /\ \A o \in Placed : orders[o].phone \in Phones
      /\ \A c \in Checkouts : PastCustomer(c) => phone[c] \in Phones
  BY DEF IInv, CheckoutShape, PastCustomer, TypeOK, DbTypeOK, TxTypeOK, Placed, OrderRow
<1>4. OneCustomerPerPhone'
  BY <1>1, <1>2, <1>3 DEF CInv, OneCustomerPerPhone, CustomerFound, Placed
<1>5. CustomerFound'
  BY <1>1, <1>2, <1>3 DEF CInv, CustomerFound, PastCustomer
<1> QED
  BY <1>4, <1>5 DEF CInv

\* Every step of the system keeps CInv, given the invariant of the orders.
LEMMA CInvStep == IInv /\ CInv /\ [Next]_vars => CInv'
<1> SUFFICES ASSUME IInv, CInv, [Next]_vars PROVE CInv'
  OBVIOUS
<1>0. TypeOK /\ StatusShape /\ Checkouts \cap Staff = {}
  BY OrdersAssumption DEF IInv
<1>1. ASSUME NEW c \in Checkouts, NEW ph \in Phones, NEW q \in [Plants -> 0..MaxQty],
             Submit(c, ph, q)
      PROVE  CInv'
  <2>1. /\ pc[c] = "new" /\ pc' = [pc EXCEPT ![c] = "resolve"]
        /\ phone' = [phone EXCEPT ![c] = ph]
        /\ UNCHANGED <<customers, orders, newCustomer>>
    BY <1>1 DEF Submit, dbVars
  <2>2. ~newCustomer[c] /\ ~PastCustomer(c)'
    BY <1>0, <2>1 DEF CInv, CustomerFound, PastCustomer, TypeOK, TxTypeOK, Txns
  <2>3. \A d \in Checkouts \ {c} : phone'[d] = phone[d] /\ pc'[d] = pc[d]
    BY <1>0, <2>1 DEF TypeOK, TxTypeOK, Txns
  <2>4. OneCustomerPerPhone'
    BY <2>1, <2>2, <2>3 DEF CInv, OneCustomerPerPhone, Placed
  <2>5. CustomerFound'
    BY <2>1, <2>2, <2>3 DEF CInv, CustomerFound, PastCustomer
  <2> QED
    BY <2>4, <2>5 DEF CInv
<1>2. ASSUME NEW t \in Txns, LockPlant(t)
      PROVE  CInv'
  BY <1>2, CustomersKept DEF LockPlant, dbVars, PastCustomer
<1>3. ASSUME NEW c \in Checkouts, CheckOrder(c)
      PROVE  CInv'
  <2>1. CASE Release(c, "rejected")
    BY <1>3, <2>1, CustomersReleased DEF CheckOrder, dbVars, Txns
  <2>2. CASE ~Release(c, "rejected")
    <3>1. /\ pc[c] = "lock" /\ pc' = [pc EXCEPT ![c] = "number"]
          /\ UNCHANGED <<customers, orders, phone, newCustomer>>
      BY <1>3, <2>2 DEF CheckOrder, dbVars
    <3>2. \A d \in Checkouts : PastCustomer(d)' <=> PastCustomer(d)
      BY <1>0, <3>1 DEF TypeOK, TxTypeOK, Txns, PastCustomer
    <3> QED
      BY <3>1, <3>2, CustomersKept
  <2> QED
    BY <2>1, <2>2
<1>4. ASSUME NEW c \in Checkouts, GenerateOrderNumber(c)
      PROVE  CInv'
  <2>1. \A d \in Checkouts : PastCustomer(d)' <=> PastCustomer(d)
    BY <1>0, <1>4 DEF GenerateOrderNumber, TypeOK, TxTypeOK, Txns, PastCustomer
  <2> QED
    BY <1>4, <2>1, CustomersKept DEF GenerateOrderNumber, dbVars
<1>5. ASSUME NEW c \in Checkouts, RollbackOrder(c)
      PROVE  CInv'
  BY <1>5, CustomersReleased DEF RollbackOrder, dbVars, Txns
<1>6. ASSUME NEW s \in Staff, NEW o \in Checkouts, NEW target \in Targets, LoadOrder(s, o, target)
      PROVE  CInv'
  <2>1. \A d \in Checkouts : PastCustomer(d)' <=> PastCustomer(d)
    BY <1>0, <1>6 DEF LoadOrder, TypeOK, TxTypeOK, Txns, PastCustomer
  <2> QED
    BY <1>6, <2>1, CustomersKept DEF LoadOrder, dbVars
<1>7. ASSUME NEW s \in Staff, CommitStatus(s)
      PROVE  CInv'
  <2>1. \A o \in Checkouts : orders'[o] # None =>
            orders[o] # None /\ orders'[o].phone = orders[o].phone
    BY <1>0, <1>7 DEF CommitStatus, StatusShape, TypeOK, DbTypeOK, TxTypeOK, Jobs, OrderRow
  <2> QED
    BY <1>7, <2>1, CustomersReleased DEF CommitStatus, Txns
<1>8. ASSUME NEW s \in Staff, RollbackStatus(s)
      PROVE  CInv'
  BY <1>8, CustomersReleased DEF RollbackStatus, dbVars, Txns
<1>9. CASE \/ UNCHANGED vars \/ Midnight
           \/ \E p \in Plants, stock \in 0..MaxStock, listed \in {"sold", "hidden"} :
                 EditPlant(p, stock, listed)
  BY <1>9, CustomersKept DEF Midnight, EditPlant, vars, dbVars, txVars, PastCustomer
<1> QED
  BY <1>1, <1>2, <1>3, <1>4, <1>5, <1>6, <1>7, <1>8, <1>9, CustomerStep, CustomerCommit, CustomerEdit
  DEF Next, CheckoutStep, StaffStep, Txns

\* Two first checkouts of a phone never leave two customers, and an order's
\* customer is there: the unique phone stops a race, and nothing else does.
THEOREM OneCustomer == Spec => []OneCustomerPerPhone
<1>1. Init => CInv
  BY DEF Init, CInv, OneCustomerPerPhone, CustomerFound, PastCustomer, Placed, Txns
<1>2. IInv /\ IInv' /\ CInv /\ [Next]_vars => CInv'
  BY CInvStep
<1>3. CInv => OneCustomerPerPhone
  BY DEF CInv
<1> QED
  BY Inductive, <1>1, <1>2, <1>3, PTL DEF Spec

----------------------------------------------------------------------------
(***************************************************************************)
(* Locks.  NoDeadlock needs to know how far each transaction has come: row *)
(* locks are taken in id order, after the new phone and before the         *)
(* advisory lock, so along a chain of waiters the row that is waited for   *)
(* only grows; and finitely many rows are locked, so it cannot grow for    *)
(* ever.                                                                   *)
(***************************************************************************)
LockPlaces == \A t \in Txns : Locked(t) # {} => pc[t] \in {"lock", "number", "commit"}

InIdOrder == \A t \in Txns : pc[t] = "lock" => \A p \in Locked(t), q \in ToLock(t) : p < q

LockedRows == {p \in Plants : IsLocked(p)}
FewLocked  == IsFiniteSet(LockedRows)

LInv == LockPlaces /\ InIdOrder /\ FewLocked

\* No step creates or removes a plant row that a transaction could wait for.
LEMMA ListingKept ==
    ASSUME IInv, [Next]_vars, NEW p \in Plants
    PROVE  plant'[p].listed = "absent" <=> plant[p].listed = "absent"
<1>0. TypeOK /\ plant[p] \in PlantRow
  BY DEF IInv, TypeOK, DbTypeOK
<1>1. CASE plant'[p] = plant[p]
  BY <1>1
<1>2. ASSUME NEW n \in Int, plant'[p] = [plant[p] EXCEPT !.stock = n]
      PROVE  plant'[p].listed = "absent" <=> plant[p].listed = "absent"
  BY <1>0, <1>2 DEF PlantRow
<1>3. ASSUME NEW c \in Checkouts, CommitOrder(c)
      PROVE  plant'[p].listed = "absent" <=> plant[p].listed = "absent"
  <2>1. CASE want[c][p] > 0
    <3>1. plant'[p] = [plant[p] EXCEPT !.stock = seen[c][p].stock - want[c][p]]
      BY <1>3, <2>1 DEF CommitOrder
    <3>2. seen[c][p] = plant[p] /\ want[c][p] \in Nat
      BY <1>0, <1>3, <2>1, SellableRows DEF CommitOrder, TypeOK, TxTypeOK, Quantities, Txns
    <3> QED BY <1>0, <1>2, <3>1, <3>2 DEF PlantRow
  <2>2. CASE ~(want[c][p] > 0)
    BY <1>1, <1>3, <2>2 DEF CommitOrder
  <2> QED BY <2>1, <2>2
<1>4. ASSUME NEW s \in Staff, CommitStatus(s)
      PROVE  plant'[p].listed = "absent" <=> plant[p].listed = "absent"
  <2>1. CASE p \in Locked(s)
    <3>1. plant'[p] = [plant[p] EXCEPT !.stock = seen[s][p].stock + want[s][p]]
      BY <1>4, <2>1 DEF CommitStatus
    <3>2. seen[s][p] = plant[p] /\ want[s][p] \in Nat
      BY <1>0, <2>1 DEF IInv, LockedRowsCurrent, Locked, TypeOK, TxTypeOK, Quantities, Txns
    <3> QED BY <1>0, <1>2, <3>1, <3>2 DEF PlantRow
  <2>2. CASE p \notin Locked(s)
    BY <1>1, <1>4, <2>2 DEF CommitStatus
  <2> QED BY <2>1, <2>2
<1>5. ASSUME NEW q \in Plants, NEW stock \in 0..MaxStock, NEW listed \in {"sold", "hidden"},
             EditPlant(q, stock, listed)
      PROVE  plant'[p].listed = "absent" <=> plant[p].listed = "absent"
  BY <1>0, <1>5 DEF EditPlant, TypeOK, DbTypeOK
<1>6. CASE UNCHANGED plant
  BY <1>6
<1> QED
  BY <1>3, <1>4, <1>5, <1>6
  DEF Next, CheckoutStep, StaffStep, Submit, ResolveCustomer, InsertCustomer, LockPlant,
      CheckOrder, GenerateOrderNumber, RollbackOrder, LoadOrder, RollbackStatus,
      EditCustomer, Midnight, vars, dbVars

\* A step starts, advances or ends one transaction, locks one row for it, or is
\* none of a transaction.
LEMMA Moves ==
    ASSUME IInv, [Next]_vars
    PROVE  \/ UNCHANGED <<pc, want, seen>>
           \/ \E t \in Txns, outcome \in {"rejected", "placed", "idle"} : Release(t, outcome)
           \/ \E t \in Txns : LockPlant(t)
           \/ \E t \in Txns, place \in {"resolve", "insert", "lock"} :
                 /\ pc[t] \in {"new", "resolve", "insert", "idle"}
                 /\ pc' = [pc EXCEPT ![t] = place]
                 /\ \E q : want' = [want EXCEPT ![t] = q]
                 /\ UNCHANGED seen
           \/ \E t \in Txns, place \in {"number", "commit"} :
                 /\ pc[t] \in {"lock", "number"}
                 /\ pc' = [pc EXCEPT ![t] = place]
                 /\ UNCHANGED <<want, seen>>
<1> DEFINE Starts == \E t \in Txns, place \in {"resolve", "insert", "lock"} :
                        /\ pc[t] \in {"new", "resolve", "insert", "idle"}
                        /\ pc' = [pc EXCEPT ![t] = place]
                        /\ \E q : want' = [want EXCEPT ![t] = q]
                        /\ UNCHANGED seen
           Ends   == \E t \in Txns, outcome \in {"rejected", "placed", "idle"} : Release(t, outcome)
           Goes   == \E t \in Txns, place \in {"number", "commit"} :
                        /\ pc[t] \in {"lock", "number"}
                        /\ pc' = [pc EXCEPT ![t] = place]
                        /\ UNCHANGED <<want, seen>>
<1>0. TypeOK /\ \A t \in Txns : want = [want EXCEPT ![t] = want[t]]
  BY DEF IInv, TypeOK, TxTypeOK
<1>1. ASSUME NEW c \in Checkouts, NEW ph \in Phones, NEW q \in [Plants -> 0..MaxQty],
             Submit(c, ph, q)
      PROVE  Starts
  BY <1>1 DEF Submit, Txns
<1>2. ASSUME NEW c \in Checkouts, ResolveCustomer(c) \/ InsertCustomer(c)
      PROVE  Starts \/ Ends
  <2>1. CASE Release(c, "rejected")
    BY <2>1 DEF Txns
  <2>2. CASE ~Release(c, "rejected")
    <3>1. PICK place \in {"insert", "lock"} : /\ pc[c] \in {"resolve", "insert"}
                                              /\ pc' = [pc EXCEPT ![c] = place]
                                              /\ UNCHANGED <<want, seen>>
      BY <1>2, <2>2 DEF ResolveCustomer, InsertCustomer
    <3>2. c \in Txns /\ want' = [want EXCEPT ![c] = want[c]]
      BY <1>0, <3>1 DEF Txns
    <3> QED BY <3>1, <3>2
  <2> QED BY <2>1, <2>2
<1>3. ASSUME NEW c \in Checkouts, CheckOrder(c) \/ GenerateOrderNumber(c)
      PROVE  Goes \/ Ends
  BY <1>3 DEF CheckOrder, GenerateOrderNumber, Txns
<1>4. ASSUME NEW c \in Checkouts, CommitOrder(c) \/ RollbackOrder(c)
      PROVE  Ends
  BY <1>4 DEF CommitOrder, RollbackOrder, Txns
<1>5. ASSUME NEW s \in Staff, NEW o \in Checkouts, NEW target \in Targets, LoadOrder(s, o, target)
      PROVE  Starts
  BY <1>5 DEF LoadOrder, Txns
<1>6. ASSUME NEW s \in Staff, CommitStatus(s) \/ RollbackStatus(s)
      PROVE  Ends
  BY <1>6 DEF CommitStatus, RollbackStatus, Txns
<1> QED
  BY <1>1, <1>2, <1>3, <1>4, <1>5, <1>6
  DEF Next, CheckoutStep, StaffStep, Txns, EditPlant, EditCustomer, Midnight, vars, txVars

\* Every step keeps the order and the number of the locks.
LEMMA LInvStep ==
    ASSUME IInv, LInv, [Next]_vars
    PROVE  LInv'
<1>0. /\ TypeOK /\ LockPlaces /\ InIdOrder /\ FewLocked
      /\ \A p \in Plants : plant'[p].listed = "absent" <=> plant[p].listed = "absent"
  BY ListingKept DEF IInv, LInv
<1>a. Plants \subseteq Nat
  BY OrdersAssumption
<1>1. ASSUME NEW t \in Txns,
             Locked(t)' = {},
             \A u \in Txns \ {t} : pc'[u] = pc[u] /\ want'[u] = want[u] /\ seen'[u] = seen[u]
      PROVE  LInv'
  <2>1. \A u \in Txns \ {t} : Locked(u)' = Locked(u) /\ ToLock(u)' = ToLock(u)
    BY <1>0, <1>1 DEF Locked, ToLock
  <2>2. LockPlaces' /\ InIdOrder'
    BY <1>0, <1>1, <2>1 DEF LockPlaces, InIdOrder
  <2>3. LockedRows' \in SUBSET LockedRows
    BY <1>1, <2>1 DEF LockedRows, IsLocked
  <2> QED BY <1>0, <2>2, <2>3, FS_Subset DEF LInv, FewLocked
<1>2. ASSUME NEW t \in Txns, NEW outcome \in {"rejected", "placed", "idle"}, Release(t, outcome)
      PROVE  LInv'
  BY <1>0, <1>1, <1>2, ReleaseEffect DEF Locked
<1>3. ASSUME NEW t \in Txns, LockPlant(t)
      PROVE  LInv'
  <2>1. PICK p \in Plants : NextRow(t, p) /\ seen' = [seen EXCEPT ![t][p] = plant[p]]
    BY <1>3 DEF LockPlant
  <2>2. pc[t] = "lock" /\ UNCHANGED <<plant, pc, want>>
    BY <1>3 DEF LockPlant, dbVars
  <2>3. plant[p] # None
    BY <1>0, OrdersAssumption DEF TypeOK, DbTypeOK
  <2>4. \A u \in Txns, q \in Plants :
            seen'[u][q] = IF u = t /\ q = p THEN plant[p] ELSE seen[u][q]
    BY <1>0, <2>1 DEF TypeOK, TxTypeOK
  <2>5. /\ Locked(t)' = Locked(t) \cup {p} /\ ToLock(t)' = ToLock(t) \ {p}
        /\ \A u \in Txns \ {t} : Locked(u)' = Locked(u) /\ ToLock(u)' = ToLock(u)
    BY <2>2, <2>3, <2>4 DEF Locked, ToLock
  <2>6. \A q \in ToLock(t) \ {p} : p < q
    BY <1>a, <2>1 DEF NextRow, ToLock
  <2>7. LockPlaces' /\ InIdOrder'
    BY <1>0, <2>2, <2>5, <2>6 DEF LockPlaces, InIdOrder
  <2>8. LockedRows' \in SUBSET (LockedRows \cup {p})
    BY <2>5 DEF LockedRows, IsLocked
  <2>9. IsFiniteSet(LockedRows \cup {p})
    BY <1>0, FS_AddElement DEF FewLocked
  <2> QED BY <2>7, <2>8, <2>9, FS_Subset DEF LInv, FewLocked
<1>4. ASSUME NEW t \in Txns, pc[t] \in {"new", "resolve", "insert", "idle"},
             NEW place, pc' = [pc EXCEPT ![t] = place],
             NEW q, want' = [want EXCEPT ![t] = q], UNCHANGED seen
      PROVE  LInv'
  <2>1. Locked(t)' = {}
    BY <1>0, <1>4 DEF LockPlaces, Locked
  <2>2. \A u \in Txns \ {t} : pc'[u] = pc[u] /\ want'[u] = want[u] /\ seen'[u] = seen[u]
    BY <1>0, <1>4 DEF TypeOK, TxTypeOK
  <2> QED BY <1>1, <2>1, <2>2
<1>5. ASSUME NEW t \in Txns, NEW place \in {"number", "commit"},
             pc' = [pc EXCEPT ![t] = place], UNCHANGED <<want, seen>>
      PROVE  LInv'
  <2>1. \A u \in Txns : /\ Locked(u)' = Locked(u) /\ ToLock(u)' = ToLock(u)
                        /\ pc'[u] = IF u = t THEN place ELSE pc[u]
    BY <1>0, <1>5 DEF Locked, ToLock, TypeOK, TxTypeOK
  <2>2. LockPlaces' /\ InIdOrder'
    BY <1>0, <1>5, <2>1 DEF LockPlaces, InIdOrder
  <2>3. LockedRows' = LockedRows
    BY <2>1 DEF LockedRows, IsLocked
  <2> QED BY <1>0, <2>2, <2>3 DEF LInv, FewLocked
<1>6. CASE UNCHANGED <<pc, want, seen>>
  <2>1. \A u \in Txns : Locked(u)' = Locked(u) /\ ToLock(u)' = ToLock(u)
    BY <1>0, <1>6 DEF Locked, ToLock
  <2>2. LockPlaces' /\ InIdOrder'
    BY <1>0, <1>6, <2>1 DEF LockPlaces, InIdOrder
  <2>3. LockedRows' = LockedRows
    BY <2>1 DEF LockedRows, IsLocked
  <2> QED BY <1>0, <2>2, <2>3 DEF LInv, FewLocked
<1> QED
  BY <1>2, <1>3, <1>4, <1>5, <1>6, Moves

\* A finite set of numbers has a greatest.
LEMMA GreatestExists ==
    ASSUME NEW A \in SUBSET Nat, IsFiniteSet(A), A # {}
    PROVE  \E x \in A : \A y \in A : y <= x
<1> DEFINE Above(x) == {y \in A : y > x}
           Sets     == {Above(x) : x \in A}
<1>1. \A x \in A : Above(x) \in SUBSET A /\ IsFiniteSet(Above(x))
  BY FS_Subset
<1>2. Sets \subseteq FiniteSubsetsOf(A) /\ Sets # {}
  BY <1>1 DEF FiniteSubsetsOf
<1>3. PICK S \in Sets : \A T \in Sets : <<T, S>> \notin StrictSubsetOrdering(A)
  <2> HIDE DEF Sets
  <2> QED BY <1>2, FS_StrictSubsetOrderingWellFounded, WFMin
<1>4. PICK x \in A : S = Above(x)
  OBVIOUS
<1>5. \A y \in A : ~(y > x)
  <2> SUFFICES ASSUME NEW y \in A, y > x PROVE FALSE
    OBVIOUS
  <2>1. Above(y) \subseteq Above(x) /\ y \in Above(x) /\ y \notin Above(y)
    <3>1. \A z \in A : z \in Nat
      OBVIOUS
    <3>2. \A z \in A : z > y => z > x
      BY <3>1
    <3>3. ~(y > y)
      BY <3>1
    <3> HIDE DEF Sets
    <3> QED BY <3>2, <3>3
  <2>2. <<Above(y), Above(x)>> \in StrictSubsetOrdering(A)
    BY <1>1, <2>1 DEF StrictSubsetOrdering
  <2> QED BY <1>3, <1>4, <2>2
<1> QED
  BY <1>5

\* Requests that wait are never all waiting for one another: a circle would have
\* a greatest row that is waited for, and whoever holds it waits for a greater.
THEOREM NeverDeadlocked == Spec => []NoDeadlock
<1>1. Init => LInv
  <2> SUFFICES ASSUME Init PROVE LInv
    OBVIOUS
  <2>1. \A t \in Txns : Locked(t) = {}
    BY DEF Init, Locked
  <2>2. LockedRows = {}
    BY <2>1 DEF LockedRows, IsLocked
  <2> QED BY <2>1, <2>2, FS_EmptySet DEF LInv, LockPlaces, InIdOrder, FewLocked
<1>2. IInv /\ LInv /\ [Next]_vars => LInv'
  BY LInvStep
<1>3. ASSUME IInv, CInv, LInv PROVE NoDeadlock
  <2> SUFFICES ASSUME NEW S, S \subseteq Txns, \A t \in S : BlockedBy(t) # {}, S # {},
                      \A t \in S : BlockedBy(t) \cap S # {}
               PROVE  FALSE
    BY DEF NoDeadlock
  <2>0. CheckoutShape /\ CustomerFound /\ LockPlaces /\ InIdOrder /\ FewLocked
    BY <1>3 DEF IInv, CInv, LInv
  <2>1. \A t \in S : pc[t] \in {"lock", "number", "insert"}
    BY DEF BlockedBy
  <2>2. \A t \in S : pc[t] # "number"
    BY <2>0, <2>1 DEF BlockedBy, CheckoutShape
  <2> DEFINE Rows == {p \in Plants : \E t \in S : NextRow(t, p) /\ pc[t] = "lock" /\ IsLocked(p)}
  <2>3. \A t \in S : pc[t] = "lock" =>
            \E p \in Plants, u \in S : /\ NextRow(t, p) /\ p \in Locked(u) /\ pc[u] = "lock"
    BY <2>0, <2>1, <2>2 DEF BlockedBy, LockPlaces, NextRow, ToLock
  <2>4. ASSUME NEW p \in Rows PROVE \E q \in Rows : p < q
    <3>1. PICK t \in S : NextRow(t, p) /\ pc[t] = "lock"
      OBVIOUS
    <3>2. PICK u \in S : p \in Locked(u) /\ pc[u] = "lock"
      <4>1. PICK r \in Plants, u \in S : NextRow(t, r) /\ r \in Locked(u) /\ pc[u] = "lock"
        BY <2>3, <3>1
      <4>2. r = p
        BY <3>1, <4>1, OrdersAssumption DEF NextRow, ToLock
      <4> QED BY <4>1, <4>2
    <3>3. PICK q \in Plants, v \in S : NextRow(u, q) /\ q \in Locked(v)
      BY <2>3, <3>2
    <3>4. q \in Rows
      BY <3>2, <3>3 DEF IsLocked
    <3>5. p < q
      BY <2>0, <3>2, <3>3 DEF InIdOrder, NextRow
    <3> QED BY <3>4, <3>5
  <2>5. Rows \in SUBSET LockedRows /\ Rows \in SUBSET Nat
    BY OrdersAssumption DEF LockedRows
  <2>6. IsFiniteSet(Rows)
    BY <2>0, <2>5, FS_Subset DEF FewLocked
  <2>7. Rows = {}
    <3> HIDE DEF Rows
    <3> QED BY <2>4, <2>5, <2>6, GreatestExists
  <2>8. \A t \in S : pc[t] = "insert"
    BY <2>1, <2>2, <2>3, <2>7 DEF IsLocked
  <2> QED
    BY <2>0, <2>8 DEF BlockedBy, CustomerFound, PastCustomer
<1>4. Init => CInv
  BY DEF Init, CInv, OneCustomerPerPhone, CustomerFound, PastCustomer, Placed, Txns
<1>5. IInv /\ CInv /\ [Next]_vars => CInv'
  BY CInvStep
<1> QED
  BY Inductive, <1>1, <1>2, <1>3, <1>4, <1>5, PTL DEF Spec

----------------------------------------------------------------------------
(***************************************************************************)
(* The order book.  What the transactions do to orders and stock is what   *)
(* OrderBook says if a status request still finds the order as it loaded   *)
(* it.  get_order takes no lock, so that is true only while no two status  *)
(* requests for one order overlap: the hypothesis of the theorems below.   *)
(***************************************************************************)
OrderedExist == \A o \in Placed, p \in Plants : orders[o].qty[p] > 0 => plant[p].listed # "absent"

Bounds ==
    /\ today \in 0..MaxDay
    /\ \A c \in Checkouts : /\ want[c] \in [Plants -> 0..MaxQty]
                            /\ day[c] \in 0..MaxDay
                            /\ number[c] # None => number[c][1] \in 0..MaxDay

JobFresh ==
    \A s \in Staff : pc[s] = "lock" =>
        LET o == job[s].order
        IN  /\ orders[o].status = job[s].from
            /\ job[s].from # job[s].to
            /\ EnsureTransitionAllowed(job[s].from, job[s].to)
            /\ want[s] = IF job[s].to = "cancelled" THEN orders[o].qty ELSE NoUnits

RestocksCounted == \A o \in Checkouts : restocks[o] = IF o \in Placed \ Live THEN 1 ELSE 0

BInv == OrderedExist /\ Bounds /\ JobFresh /\ RestocksCounted

\* Only a commit of a checkout or of a status request writes orders.
LEMMA OrderSteps ==
    ASSUME [Next]_vars
    PROVE  \/ UNCHANGED <<orders, restocks>>
           \/ \E c \in Checkouts : CommitOrder(c)
           \/ \E s \in Staff : CommitStatus(s)
  BY DEF Next, CheckoutStep, StaffStep, Submit, ResolveCustomer, InsertCustomer, LockPlant,
         CheckOrder, GenerateOrderNumber, RollbackOrder, LoadOrder, RollbackStatus, EditPlant,
         EditCustomer, Midnight, vars, dbVars, history

\* Stock is written by these and by an admin.
LEMMA StockSteps ==
    ASSUME [Next]_vars
    PROVE  \/ UNCHANGED <<orders, plant, supply>>
           \/ \E c \in Checkouts : CommitOrder(c)
           \/ \E s \in Staff : CommitStatus(s)
           \/ \E p \in Plants, stock \in 0..MaxStock, listed \in {"sold", "hidden"} :
                 EditPlant(p, stock, listed)
  BY DEF Next, CheckoutStep, StaffStep, Submit, ResolveCustomer, InsertCustomer, LockPlant,
         CheckOrder, GenerateOrderNumber, RollbackOrder, LoadOrder, RollbackStatus,
         EditCustomer, Midnight, vars, dbVars, history

\* A status request begins by loading its order and ends idle.
LEMMA StaffSteps ==
    ASSUME IInv, [Next]_vars, NEW s \in Staff
    PROVE  \/ pc'[s] = pc[s] /\ job'[s] = job[s] /\ want'[s] = want[s]
           \/ pc'[s] = "idle"
           \/ \E o \in Checkouts, target \in Targets : LoadOrder(s, o, target)
<1>0. TypeOK /\ Checkouts \cap Staff = {} /\ s \in Txns /\ s \notin Checkouts
  BY OrdersAssumption DEF IInv, Txns
<1>1. ASSUME NEW t \in Txns, NEW outcome \in {"rejected", "placed", "idle"}, Release(t, outcome),
             t \in Staff => outcome = "idle"
      PROVE  pc'[s] = "idle" \/ (pc'[s] = pc[s] /\ job'[s] = job[s] /\ want'[s] = want[s])
  BY <1>0, <1>1, ReleaseEffect
<1>2. ASSUME NEW c \in Checkouts, NEW ph \in Phones, NEW q \in [Plants -> 0..MaxQty],
             Submit(c, ph, q)
      PROVE  pc'[s] = pc[s] /\ job'[s] = job[s] /\ want'[s] = want[s]
  BY <1>0, <1>2 DEF Submit, TypeOK, TxTypeOK
<1>3. ASSUME NEW c \in Checkouts, NEW place, pc' = [pc EXCEPT ![c] = place], UNCHANGED <<want, job>>
      PROVE  pc'[s] = pc[s] /\ job'[s] = job[s] /\ want'[s] = want[s]
  BY <1>0, <1>3 DEF TypeOK, TxTypeOK
<1>4. ASSUME NEW c \in Checkouts,
             \/ ResolveCustomer(c) \/ InsertCustomer(c) \/ CheckOrder(c)
             \/ GenerateOrderNumber(c) \/ CommitOrder(c) \/ RollbackOrder(c)
      PROVE  pc'[s] = "idle" \/ (pc'[s] = pc[s] /\ job'[s] = job[s] /\ want'[s] = want[s])
  <2>1. (\E outcome \in {"rejected", "placed"} : Release(c, outcome))
        \/ (\E place : pc' = [pc EXCEPT ![c] = place] /\ UNCHANGED <<want, job>>)
    BY <1>4 DEF ResolveCustomer, InsertCustomer, CheckOrder, GenerateOrderNumber, CommitOrder,
                RollbackOrder
  <2>2. c \in Txns /\ c \notin Staff
    BY <1>0 DEF Txns
  <2> QED BY <1>1, <1>3, <2>1, <2>2
<1>5. ASSUME NEW t \in Staff, CommitStatus(t) \/ RollbackStatus(t)
      PROVE  pc'[s] = "idle" \/ (pc'[s] = pc[s] /\ job'[s] = job[s] /\ want'[s] = want[s])
  BY <1>1, <1>5 DEF CommitStatus, RollbackStatus, Txns
<1>6. ASSUME NEW t \in Staff \ {s}, NEW o \in Checkouts, NEW target \in Targets, LoadOrder(t, o, target)
      PROVE  pc'[s] = pc[s] /\ job'[s] = job[s] /\ want'[s] = want[s]
  BY <1>0, <1>6 DEF LoadOrder, TypeOK, TxTypeOK
<1>7. CASE UNCHANGED <<pc, want, job>>
  BY <1>7
<1> QED
  BY <1>2, <1>4, <1>5, <1>6, <1>7
  DEF Next, CheckoutStep, StaffStep, LockPlant, EditPlant, EditCustomer, Midnight, vars, txVars

\* What a checkout's commit writes, entry by entry.
LEMMA CommitOrderEffect ==
    ASSUME IInv, NEW c \in Checkouts, CommitOrder(c)
    PROVE  /\ c \notin Placed /\ Placed' = Placed \cup {c}
           /\ number[c] \in Nat \X Nat /\ want[c] \in Quantities
           /\ orders'[c].qty = want[c] /\ orders'[c].number = number[c]
           /\ orders'[c].status = "pending"
           /\ \A o \in Checkouts \ {c} : orders'[o] = orders[o]
           /\ \A p \in Plants :
                 /\ want[c][p] > 0 => plant[p].listed = "sold" /\ want[c][p] <= plant[p].stock
                 /\ plant'[p].stock = plant[p].stock - want[c][p]
                 /\ plant'[p].listed = plant[p].listed
           /\ UNCHANGED <<restocks, supply>>
<1>0. TypeOK /\ CheckoutShape /\ pc[c] = "commit" /\ c \in Txns
  BY DEF IInv, CommitOrder, Txns
<1>1. orders[c] = None /\ number[c] \in Nat \X Nat /\ phone[c] \in Phones /\ want[c] \in Quantities
  BY <1>0 DEF CheckoutShape, TypeOK, TxTypeOK
<1>2. orders'[c] = [phone |-> phone[c], qty |-> want[c], number |-> number[c], status |-> "pending"]
  BY <1>0 DEF CommitOrder, TypeOK, DbTypeOK
<1>3. orders'[c] \in OrderRow
  BY <1>1, <1>2 DEF OrderRow, Statuses, Flow
<1>4. \A o \in Checkouts \ {c} : orders'[o] = orders[o]
  BY <1>0 DEF CommitOrder, TypeOK, DbTypeOK
<1>5. Placed' = Placed \cup {c} /\ c \notin Placed
  BY <1>1, <1>3, <1>4, OrdersAssumption DEF Placed
<1>6. ASSUME NEW p \in Plants
      PROVE  /\ want[c][p] > 0 => plant[p].listed = "sold" /\ want[c][p] <= plant[p].stock
             /\ plant'[p].stock = plant[p].stock - want[c][p]
             /\ plant'[p].listed = plant[p].listed
  <2>1. plant[p] \in PlantRow /\ want[c][p] \in Nat
    BY <1>0, <1>1 DEF TypeOK, DbTypeOK, Quantities
  <2>2. CASE want[c][p] > 0
    <3>1. seen[c][p] = plant[p] /\ want[c][p] <= plant[p].stock /\ plant[p].listed = "sold"
      BY <1>0, <2>2, SellableRows DEF IInv, ReadyIsSellable, Sellable
    <3>2. plant'[p] = [plant[p] EXCEPT !.stock = plant[p].stock - want[c][p]]
      BY <2>2, <3>1 DEF CommitOrder
    <3> QED BY <2>1, <3>1, <3>2 DEF PlantRow
  <2>3. CASE ~(want[c][p] > 0)
    <3>1. plant'[p] = plant[p] /\ want[c][p] = 0
      BY <2>1, <2>3 DEF CommitOrder
    <3> QED BY <2>1, <2>3, <3>1 DEF PlantRow
  <2> QED BY <2>2, <2>3
<1> QED
  BY <1>1, <1>2, <1>4, <1>5, <1>6 DEF CommitOrder, history

\* What the commit of a status request writes, if it found its order fresh.
LEMMA CommitStatusEffect ==
    ASSUME IInv, OrderedExist, JobFresh, NEW s \in Staff, CommitStatus(s)
    PROVE  LET o == job[s].order
           IN  /\ o \in Placed /\ Placed' = Placed /\ job[s] \in Jobs
               /\ orders[o].status = job[s].from /\ job[s].from # job[s].to
               /\ EnsureTransitionAllowed(job[s].from, job[s].to)
               /\ orders' = [orders EXCEPT ![o].status = job[s].to]
               /\ orders'[o].qty = orders[o].qty /\ orders'[o].number = orders[o].number
               /\ orders'[o].status = job[s].to
               /\ \A x \in Checkouts \ {o} : orders'[x] = orders[x]
               /\ \A p \in Plants :
                     /\ plant'[p].stock = IF job[s].to = "cancelled"
                                          THEN plant[p].stock + orders[o].qty[p] ELSE plant[p].stock
                     /\ plant'[p].listed = plant[p].listed
               /\ restocks' = [restocks EXCEPT ![o] = IF job[s].to = "cancelled" THEN @ + 1 ELSE @]
               /\ UNCHANGED supply
<1> DEFINE o == job[s].order
<1>0. TypeOK /\ StatusShape /\ pc[s] = "lock" /\ s \in Txns
  BY DEF IInv, CommitStatus, Txns
<1>1. job[s] \in Jobs /\ o \in Placed /\ o \in Checkouts /\ orders[o] \in OrderRow
  BY <1>0 DEF StatusShape, TypeOK, DbTypeOK, TxTypeOK, Jobs, Placed
<1>2. /\ orders[o].status = job[s].from /\ job[s].from # job[s].to
      /\ EnsureTransitionAllowed(job[s].from, job[s].to)
      /\ want[s] = IF job[s].to = "cancelled" THEN orders[o].qty ELSE NoUnits
  BY <1>0 DEF JobFresh
<1>3. orders' = [orders EXCEPT ![o].status = job[s].to]
  BY DEF CommitStatus
<1>4. /\ orders'[o] = [orders[o] EXCEPT !.status = job[s].to]
      /\ \A x \in Checkouts \ {o} : orders'[x] = orders[x]
  BY <1>0, <1>1, <1>3 DEF TypeOK, DbTypeOK
<1>5. orders'[o] \in OrderRow /\ orders'[o].qty = orders[o].qty
      /\ orders'[o].number = orders[o].number /\ orders'[o].status = job[s].to
  BY <1>1, <1>4 DEF OrderRow, Jobs
<1>6. Placed' = Placed
  BY <1>1, <1>4, <1>5, OrdersAssumption DEF Placed
<1>7. ASSUME NEW p \in Plants
      PROVE  /\ plant'[p].stock = IF job[s].to = "cancelled"
                                  THEN plant[p].stock + orders[o].qty[p] ELSE plant[p].stock
             /\ plant'[p].listed = plant[p].listed
  <2>1. plant[p] \in PlantRow /\ want[s][p] \in Nat /\ orders[o].qty[p] \in Nat
    BY <1>0, <1>1 DEF TypeOK, DbTypeOK, TxTypeOK, Quantities, OrderRow
  <2>2. want[s][p] = IF job[s].to = "cancelled" THEN orders[o].qty[p] ELSE 0
    BY <1>2 DEF NoUnits
  <2>3. want[s][p] > 0 => p \in Locked(s)
    BY <1>1, <2>1, <2>2 DEF CommitStatus, ToLock, OrderedExist
  <2>4. CASE p \in Locked(s)
    <3>1. seen[s][p] = plant[p]
      BY <1>0, <2>4 DEF IInv, LockedRowsCurrent, Locked
    <3>2. plant'[p] = [plant[p] EXCEPT !.stock = plant[p].stock + want[s][p]]
      BY <2>4, <3>1 DEF CommitStatus
    <3> QED BY <2>1, <2>2, <3>2 DEF PlantRow
  <2>5. CASE p \notin Locked(s)
    <3>1. plant'[p] = plant[p] /\ want[s][p] = 0
      BY <2>1, <2>3, <2>5 DEF CommitStatus
    <3> QED BY <2>1, <2>2, <3>1 DEF PlantRow
  <2> QED BY <2>4, <2>5
<1>8. restocks' = [restocks EXCEPT ![o] = IF job[s].to = "cancelled" THEN @ + 1 ELSE @] /\ UNCHANGED supply
  BY DEF CommitStatus
<1> QED
  BY <1>1, <1>2, <1>3, <1>4, <1>5, <1>6, <1>7, <1>8

\* An order holds plants that exist, and numbers stay within the days.
LEMMA BoundsStep ==
    ASSUME IInv, OrderedExist, Bounds, JobFresh, [Next]_vars
    PROVE  OrderedExist' /\ Bounds'
<1>0. TypeOK /\ MaxDay \in Nat /\ MaxQty \in Nat /\ Checkouts \cap Staff = {}
  BY OrdersAssumption DEF IInv
<1>1. OrderedExist'
  <2>1. \A p \in Plants : plant'[p].listed = "absent" <=> plant[p].listed = "absent"
    BY ListingKept
  <2>2. CASE UNCHANGED <<orders, restocks>>
    BY <2>1, <2>2 DEF OrderedExist, Placed
  <2>3. ASSUME NEW c \in Checkouts, CommitOrder(c) PROVE OrderedExist'
    <3>1. \A p \in Plants : orders'[c].qty[p] > 0 => plant[p].listed # "absent"
      BY <2>3, CommitOrderEffect
    <3> QED BY <2>1, <2>3, <3>1, CommitOrderEffect DEF OrderedExist, Placed
  <2>4. ASSUME NEW s \in Staff, CommitStatus(s) PROVE OrderedExist'
    <3>1. \A o \in Placed' : o \in Placed /\ orders'[o].qty = orders[o].qty
      BY <2>4, CommitStatusEffect DEF Placed
    <3> QED BY <2>1, <3>1 DEF OrderedExist
  <2> QED BY <2>2, <2>3, <2>4, OrderSteps
<1>2. today' \in 0..MaxDay
  <2>1. CASE Midnight
    BY <1>0, <2>1 DEF Midnight, Bounds
  <2>2. CASE ~Midnight
    BY <2>2 DEF Next, CheckoutStep, StaffStep, Submit, ResolveCustomer, InsertCustomer, LockPlant,
       CheckOrder, GenerateOrderNumber, CommitOrder, RollbackOrder, LoadOrder, CommitStatus,
       RollbackStatus, EditPlant, EditCustomer, vars, dbVars, Bounds
  <2> QED BY <2>1, <2>2
<1>3. ASSUME NEW d \in Checkouts
      PROVE  /\ want'[d] \in [Plants -> 0..MaxQty]
             /\ day'[d] \in 0..MaxDay
             /\ number'[d] # None => number'[d][1] \in 0..MaxDay
  <2>0. /\ want[d] \in [Plants -> 0..MaxQty] /\ day[d] \in 0..MaxDay
        /\ number[d] # None => number[d][1] \in 0..MaxDay
        /\ d \in Txns /\ d \notin Staff
    BY <1>0 DEF Bounds, Txns
  <2> DEFINE Goal == /\ want'[d] \in [Plants -> 0..MaxQty]
                     /\ day'[d] \in 0..MaxDay
                     /\ number'[d] # None => number'[d][1] \in 0..MaxDay
  <2>1. CASE want'[d] = want[d] /\ day'[d] = day[d] /\ number'[d] = number[d]
    BY <2>0, <2>1
  <2>2. ASSUME NEW t \in Txns, NEW outcome, Release(t, outcome) PROVE Goal
    BY <1>0, <2>0, <2>2 DEF Release, NoUnits, TypeOK, TxTypeOK
  <2>3. ASSUME NEW c \in Checkouts, NEW ph \in Phones, NEW q \in [Plants -> 0..MaxQty],
               Submit(c, ph, q)
        PROVE  Goal
    BY <1>0, <2>0, <2>3 DEF Submit, TypeOK, TxTypeOK
  <2>4. ASSUME NEW c \in Checkouts, CheckOrder(c) PROVE Goal
    <3>1. CASE Release(c, "rejected")
      BY <2>2, <3>1 DEF Txns
    <3>2. CASE ~Release(c, "rejected")
      BY <1>0, <2>0, <2>4, <3>2 DEF CheckOrder, Bounds, TypeOK, TxTypeOK
    <3> QED BY <3>1, <3>2
  <2>5. ASSUME NEW c \in Checkouts, GenerateOrderNumber(c) PROVE Goal
    <3>1. number'[c] = <<day[c], NextSequence(day[c])>> /\ UNCHANGED <<want, day>>
      BY <1>0, <2>5 DEF GenerateOrderNumber, TypeOK, TxTypeOK
    <3>2. \A x \in Checkouts \ {c} : number'[x] = number[x]
      BY <1>0, <2>5 DEF GenerateOrderNumber, TypeOK, TxTypeOK
    <3> QED BY <2>0, <3>1, <3>2
  <2>6. ASSUME NEW s \in Staff, NEW o \in Checkouts, NEW target \in Targets, LoadOrder(s, o, target)
        PROVE  Goal
    BY <1>0, <2>0, <2>1, <2>6 DEF LoadOrder, TypeOK, TxTypeOK
  <2>7. ASSUME NEW c \in Checkouts, ResolveCustomer(c) \/ InsertCustomer(c) PROVE Goal
    BY <2>1, <2>2, <2>7 DEF ResolveCustomer, InsertCustomer, Txns
  <2>8. ASSUME NEW c \in Checkouts, CommitOrder(c) \/ RollbackOrder(c) PROVE Goal
    BY <2>2, <2>8 DEF CommitOrder, RollbackOrder, Txns
  <2>9. ASSUME NEW s \in Staff, CommitStatus(s) \/ RollbackStatus(s) PROVE Goal
    BY <2>2, <2>9 DEF CommitStatus, RollbackStatus, Txns
  <2> QED
    BY <2>1, <2>3, <2>4, <2>5, <2>6, <2>7, <2>8, <2>9
    DEF Next, CheckoutStep, StaffStep, LockPlant, EditPlant, EditCustomer, Midnight, vars, txVars
<1> QED
  BY <1>1, <1>2, <1>3 DEF Bounds

\* A status request's order stays as it was loaded, since no other one is at it.
LEMMA FreshStep ==
    ASSUME IInv, OneRequestPerOrder, OrderedExist, JobFresh, [Next]_vars
    PROVE  JobFresh'
<1> SUFFICES ASSUME NEW s \in Staff, pc'[s] = "lock"
             PROVE  LET o == job'[s].order
                    IN  /\ orders'[o].status = job'[s].from
                        /\ job'[s].from # job'[s].to
                        /\ EnsureTransitionAllowed(job'[s].from, job'[s].to)
                        /\ want'[s] = IF job'[s].to = "cancelled" THEN orders'[o].qty ELSE NoUnits
  BY DEF JobFresh, EnsureTransitionAllowed, NoUnits
<1>0. TypeOK /\ StatusShape /\ Checkouts \cap Staff = {}
  BY OrdersAssumption DEF IInv
<1>1. ASSUME NEW o \in Checkouts, NEW target \in Targets, LoadOrder(s, o, target)
      PROVE  /\ job'[s] = [order |-> o, from |-> orders[o].status, to |-> target]
             /\ orders' = orders /\ orders[o].status # target
             /\ EnsureTransitionAllowed(orders[o].status, target)
             /\ want'[s] = IF target = "cancelled" THEN orders[o].qty ELSE NoUnits
  BY <1>0, <1>1 DEF LoadOrder, dbVars, TypeOK, TxTypeOK, Txns
<1>2. CASE \E o \in Checkouts, target \in Targets : LoadOrder(s, o, target)
  <2>1. PICK o \in Checkouts, target \in Targets : LoadOrder(s, o, target)
    BY <1>2
  <2>2. /\ job'[s] = [order |-> o, from |-> orders[o].status, to |-> target]
        /\ orders' = orders /\ orders[o].status # target
        /\ EnsureTransitionAllowed(orders[o].status, target)
        /\ want'[s] = IF target = "cancelled" THEN orders[o].qty ELSE NoUnits
    BY <1>1, <2>1
  <2>3. job'[s].order = o /\ job'[s].from = orders[o].status /\ job'[s].to = target
    BY <2>2
  <2> QED BY <2>2, <2>3
<1>3. CASE pc'[s] = pc[s] /\ job'[s] = job[s] /\ want'[s] = want[s]
  <2> DEFINE o == job[s].order
  <2>1. /\ orders[o].status = job[s].from
        /\ job[s].from # job[s].to
        /\ EnsureTransitionAllowed(job[s].from, job[s].to)
        /\ want[s] = IF job[s].to = "cancelled" THEN orders[o].qty ELSE NoUnits
    BY <1>3 DEF JobFresh
  <2>2. job[s] # None /\ orders[o] # None /\ o \in Checkouts
    BY <1>0, <1>3 DEF StatusShape, TypeOK, TxTypeOK, Jobs
  <2>3. orders'[o] = orders[o]
    <3>1. ASSUME NEW c \in Checkouts, CommitOrder(c) PROVE orders'[o] = orders[o]
      BY <2>2, <3>1, CommitOrderEffect DEF Placed
    <3>2. ASSUME NEW t \in Staff, CommitStatus(t) PROVE orders'[o] = orders[o]
      <4>1. t # s
        BY <1>0, <3>2, ReleaseEffect DEF CommitStatus, Txns
      <4>2. job[t] # None
        BY <1>0, <3>2 DEF CommitStatus, StatusShape
      <4>3. job[t].order # o
        BY <2>2, <4>1, <4>2 DEF OneRequestPerOrder
      <4> QED BY <2>2, <3>2, <4>3, CommitStatusEffect
    <3> QED BY <3>1, <3>2, OrderSteps
  <2> QED BY <1>3, <2>1, <2>3
<1> QED
  BY <1>2, <1>3, StaffSteps

\* Units are given back with the step that makes an order cancelled.
LEMMA RestockStep ==
    ASSUME IInv, OrderedExist, JobFresh, RestocksCounted, [Next]_vars
    PROVE  RestocksCounted'
<1>0. restocks \in [Checkouts -> Nat]
  BY DEF IInv, TypeOK
<1>1. ASSUME NEW c \in Checkouts, CommitOrder(c) PROVE RestocksCounted'
  <2>1. (Placed \ Live)' = Placed \ Live
    BY <1>1, CommitOrderEffect DEF Placed, Live
  <2> QED BY <1>1, <2>1, CommitOrderEffect DEF RestocksCounted
<1>2. ASSUME NEW s \in Staff, CommitStatus(s) PROVE RestocksCounted'
  <2> DEFINE o == job[s].order
  <2>1. /\ o \in Placed /\ Placed' = Placed /\ orders[o].status # "cancelled"
        /\ orders'[o].status = job[s].to
        /\ \A x \in Checkouts \ {o} : orders'[x] = orders[x]
        /\ restocks' = [restocks EXCEPT ![o] = IF job[s].to = "cancelled" THEN @ + 1 ELSE @]
    BY <1>2, CommitStatusEffect DEF EnsureTransitionAllowed, Terminal
  <2>2. o \in Checkouts /\ restocks[o] = 0
    BY <2>1 DEF RestocksCounted, Placed, Live
  <2>3. restocks'[o] = IF o \in (Placed \ Live)' THEN 1 ELSE 0
    BY <1>0, <2>1, <2>2 DEF Live
  <2>4. \A x \in Checkouts \ {o} : restocks'[x] = IF x \in (Placed \ Live)' THEN 1 ELSE 0
    BY <1>0, <2>1 DEF RestocksCounted, Live
  <2> QED BY <2>3, <2>4 DEF RestocksCounted
<1>3. CASE UNCHANGED <<orders, restocks>>
  BY <1>3 DEF RestocksCounted, Placed, Live
<1> QED
  BY <1>1, <1>2, <1>3, OrderSteps

\* BInv holds of every behaviour in which requests for an order do not overlap.
LEMMA BookInvariant == Spec /\ []OneRequestPerOrder => []BInv
<1>1. Init => BInv
  <2> SUFFICES ASSUME Init PROVE BInv
    OBVIOUS
  <2>1. Placed = {}
    BY DEF Init, Placed
  <2>2. OrderedExist /\ Bounds
    BY <2>1, OrdersAssumption DEF Init, OrderedExist, Bounds, NoUnits, Txns
  <2>3. JobFresh /\ RestocksCounted
    BY <2>1, OrdersAssumption DEF Init, JobFresh, RestocksCounted, Txns
  <2> QED BY <2>2, <2>3 DEF BInv
<1>2. IInv /\ OneRequestPerOrder /\ BInv /\ [Next]_vars => BInv'
  BY BoundsStep, FreshStep, RestockStep DEF BInv
<1> QED
  BY Inductive, <1>1, <1>2, PTL DEF Spec

----------------------------------------------------------------------------
\* update_order_status moves an order forward only, and gives its units back
\* with the transition into cancelled and only then.
THEOREM PipelineIsForward == Spec /\ []OneRequestPerOrder => PipelineForward
<1> DEFINE Forward(o) ==
            /\ orders'[o].status # orders[o].status =>
                  /\ orders[o].status \notin Terminal
                  /\ \/ orders'[o].status = "cancelled"
                     \/ Rank[orders[o].status] < Rank[orders'[o].status]
            /\ restocks'[o] # restocks[o] <=>
                  orders'[o].status = "cancelled" /\ orders[o].status # "cancelled"
<1>1. ASSUME IInv, BInv, [Next]_vars PROVE \A o \in Placed : Forward(o)
  <2> SUFFICES ASSUME NEW o \in Placed PROVE Forward(o)
    OBVIOUS
  <2>1. CASE UNCHANGED <<orders, restocks>>
    BY <2>1
  <2>2. ASSUME NEW c \in Checkouts, CommitOrder(c) PROVE Forward(o)
    BY <1>1, <2>2, CommitOrderEffect DEF Placed
  <2>3. ASSUME NEW s \in Staff, CommitStatus(s) PROVE Forward(o)
    <3>1. restocks \in [Checkouts -> Nat] /\ o \in Checkouts
      BY <1>1 DEF IInv, TypeOK, Placed
    <3>2. CASE o # job[s].order
      BY <1>1, <2>3, <3>1, <3>2, CommitStatusEffect DEF BInv
    <3>3. CASE o = job[s].order
      <4>1. PICK from \in Statuses, to \in Statuses :
               /\ orders[o].status = from /\ orders'[o].status = to
               /\ from # to /\ EnsureTransitionAllowed(from, to)
               /\ restocks' = [restocks EXCEPT ![o] = IF to = "cancelled" THEN @ + 1 ELSE @]
        <5>1. job[s] \in Jobs
          BY <1>1, <2>3, CommitStatusEffect DEF BInv
        <5> QED BY <1>1, <2>3, <3>3, <5>1, CommitStatusEffect DEF BInv, Jobs
      <4>2. from \notin Terminal /\ (to = "cancelled" \/ Rank[from] < Rank[to])
        BY <4>1 DEF EnsureTransitionAllowed, Terminal, Statuses, Flow, Rank
      <4>3. restocks'[o] # restocks[o] <=> to = "cancelled"
        BY <3>1, <4>1
      <4> QED BY <4>1, <4>2, <4>3 DEF Terminal
    <3> QED BY <3>2, <3>3
  <2> QED BY <1>1, <2>1, <2>2, <2>3, OrderSteps
<1>2. IInv /\ BInv /\ [Next]_vars => [\A o \in Placed : Forward(o)]_vars
  BY <1>1
<1> QED
  BY Inductive, BookInvariant, <1>2, PTL DEF Spec, PipelineForward

\* "Cancelling restores stock exactly once", while no two cancellations of an
\* order overlap.
THEOREM UnitsRestoredOnce == Spec /\ []OneRequestPerOrder => []RestoredOnce
<1>1. BInv => RestoredOnce
  BY DEF BInv, RestocksCounted, RestoredOnce
<1> QED
  BY BookInvariant, <1>1, PTL

----------------------------------------------------------------------------
(* Units *)

\* Units added to a set that has none of them are counted one by one.
LEMMA AddUnits ==
    ASSUME NEW U, IsFiniteSet(U), NEW o, NEW n \in Nat, U \cap ({o} \X (1..n)) = {}
    PROVE  /\ IsFiniteSet(U \cup ({o} \X (1..n)))
           /\ Cardinality(U \cup ({o} \X (1..n))) = Cardinality(U) + n
<1> DEFINE New == {o} \X (1..n)
<1>1. IsFiniteSet(1..n) /\ Cardinality(1..n) = n /\ IsFiniteSet({o}) /\ Cardinality({o}) = 1
  <2>1. IsFiniteSet(1..n) /\ Cardinality(1..n) = n
    BY FS_Interval
  <2>2. IsFiniteSet({o}) /\ Cardinality({o}) = 1
    BY FS_Singleton
  <2> QED BY <2>1, <2>2
<1>2. IsFiniteSet(New) /\ Cardinality(New) = n
  <2>1. PICK A, B : A = {o} /\ B = 1..n
    OBVIOUS
  <2>2. IsFiniteSet(A) /\ IsFiniteSet(B) /\ Cardinality(A) = 1 /\ Cardinality(B) = n
    BY <1>1, <2>1
  <2>3. IsFiniteSet(A \X B) /\ Cardinality(A \X B) = 1 * n
    BY <2>2, FS_Product
  <2> QED BY <2>1, <2>3
<1>3. Cardinality(U) \in Nat /\ Cardinality(U \cap New) = 0
  BY FS_CardinalityType, FS_EmptySet
<1> HIDE DEF New
<1>4. /\ IsFiniteSet(U \cup New)
      /\ Cardinality(U \cup New) = Cardinality(U) + Cardinality(New) - Cardinality(U \cap New)
  BY <1>2, FS_Union
<1> QED
  BY <1>2, <1>3, <1>4 DEF New

\* Finitely many units are held.
LEMMA UnitsFinite ==
    ASSUME IInv, NEW p \in Plants
    PROVE  IsFiniteSet(UnitsHeld(p))
<1> DEFINE Of(o) == {o} \X (1..orders[o].qty[p])
           Sets  == {Of(o) : o \in Live}
           f     == [o \in Live |-> Of(o)]
<1>1. IsFiniteSet(Live)
  BY OrdersAssumption, FS_Subset DEF Live, Placed
<1>2. f \in Surjection(Live, Sets)
  BY DEF Surjection
<1>3. IsFiniteSet(Sets)
  <2> HIDE DEF f, Sets
  <2> QED BY <1>1, <1>2, FS_Surjection
<1>4. \A T \in Sets : IsFiniteSet(T)
  <2> SUFFICES ASSUME NEW o \in Live PROVE IsFiniteSet(Of(o))
    OBVIOUS
  <2>1. orders[o].qty[p] \in Nat
    BY DEF Live, Placed, IInv, TypeOK, DbTypeOK, OrderRow, Quantities
  <2>2. PICK n \in Nat : n = orders[o].qty[p]
    BY <2>1
  <2>3. IsFiniteSet(1..n)
    BY FS_Interval
  <2>4. IsFiniteSet({o})
    BY FS_Singleton
  <2> QED BY <2>2, <2>3, <2>4, FS_Product
<1> HIDE DEF Sets
<1>5. IsFiniteSet(UNION Sets)
  BY <1>3, <1>4, FS_UNION
<1> QED
  BY <1>5 DEF UnitsHeld, Sets

\* A commit moves units between the shelf and an order, an admin changes the supply.
LEMMA ConservationStep ==
    ASSUME IInv, BInv, Conservation, [Next]_vars
    PROVE  Conservation'
<1> SUFFICES ASSUME NEW p \in Plants
             PROVE  plant'[p].stock + Held(p)' = supply'[p]
  BY DEF Conservation
<1>0. /\ plant[p].stock + Held(p) = supply[p] /\ IsFiniteSet(UnitsHeld(p)) /\ Held(p) \in Nat
      /\ plant[p].stock \in Int /\ supply[p] \in Int
      /\ OrderedExist /\ JobFresh
  <2>1. IsFiniteSet(UnitsHeld(p)) /\ Held(p) \in Nat
    BY UnitsFinite, FS_CardinalityType DEF Held
  <2> QED BY <2>1 DEF Conservation, IInv, TypeOK, DbTypeOK, PlantRow, BInv
<1>1. CASE UNCHANGED <<orders, plant, supply>>
  BY <1>0, <1>1 DEF Held, UnitsHeld, Live, Placed
<1>2. ASSUME NEW q \in Plants, NEW stock \in 0..MaxStock, NEW listed \in {"sold", "hidden"},
             EditPlant(q, stock, listed)
      PROVE  plant'[p].stock + Held(p)' = supply'[p]
  <2>1. Held(p)' = Held(p)
    BY <1>2 DEF EditPlant, Held, UnitsHeld, Live, Placed
  <2>2. stock \in Int
    BY OrdersAssumption
  <2>3. CASE q = p
    <3>1. plant'[p].stock = stock /\ supply'[p] = supply[p] + stock - plant[p].stock
      BY <1>2, <2>3 DEF EditPlant, IInv, TypeOK, DbTypeOK
    <3> QED BY <1>0, <2>1, <2>2, <3>1
  <2>4. CASE q # p
    <3>1. plant'[p] = plant[p] /\ supply'[p] = supply[p]
      BY <1>2, <2>4 DEF EditPlant, IInv, TypeOK, DbTypeOK
    <3> QED BY <1>0, <2>1, <3>1
  <2> QED BY <2>3, <2>4
<1>3. ASSUME NEW c \in Checkouts, CommitOrder(c)
      PROVE  plant'[p].stock + Held(p)' = supply'[p]
  <2> DEFINE n == want[c][p]
  <2>1. /\ n \in Nat /\ plant'[p].stock = plant[p].stock - n /\ supply' = supply
        /\ orders'[c].qty[p] = n
    BY <1>3, CommitOrderEffect DEF Quantities
  <2>2. /\ Live' = Live \cup {c} /\ c \notin Live
        /\ \A o \in Live : orders'[o] = orders[o]
    BY <1>3, CommitOrderEffect DEF Live, Placed
  <2>3. UnitsHeld(p)' = UnitsHeld(p) \cup ({c} \X (1..n))
    BY <2>1, <2>2 DEF UnitsHeld
  <2>4. UnitsHeld(p) \cap ({c} \X (1..n)) = {}
    BY <2>2 DEF UnitsHeld
  <2>5. Cardinality(UnitsHeld(p) \cup ({c} \X (1..n))) = Cardinality(UnitsHeld(p)) + n
    <3> HIDE DEF n
    <3> QED BY <1>0, <2>1, <2>4, AddUnits
  <2>6. Held(p)' = Held(p) + n
    BY <2>3, <2>5 DEF Held
  <2> QED BY <1>0, <2>1, <2>6
<1>4. ASSUME NEW s \in Staff, CommitStatus(s)
      PROVE  plant'[p].stock + Held(p)' = supply'[p]
  <2> DEFINE o == job[s].order
             n == orders[o].qty[p]
  <2>1. /\ o \in Placed /\ Placed' = Placed /\ supply' = supply
        /\ orders[o].status # "cancelled" /\ orders'[o].status = job[s].to
        /\ orders'[o].qty = orders[o].qty
        /\ \A x \in Checkouts \ {o} : orders'[x] = orders[x]
        /\ plant'[p].stock = IF job[s].to = "cancelled" THEN plant[p].stock + n ELSE plant[p].stock
    BY <1>0, <1>4, CommitStatusEffect DEF EnsureTransitionAllowed, Terminal
  <2>2. n \in Nat
    BY <2>1 DEF Placed, IInv, TypeOK, DbTypeOK, OrderRow, Quantities
  <2>3. CASE job[s].to = "cancelled"
    <3>1. /\ Live = Live' \cup {o} /\ o \notin Live'
          /\ \A x \in Live' : orders'[x] = orders[x]
      BY <2>1, <2>3 DEF Live, Placed
    <3>2. UnitsHeld(p) = UnitsHeld(p)' \cup ({o} \X (1..n))
      BY <3>1 DEF UnitsHeld
    <3>3. UnitsHeld(p)' \cap ({o} \X (1..n)) = {}
      BY <3>1 DEF UnitsHeld
    <3>4. IsFiniteSet(UnitsHeld(p)')
      BY <1>0, <3>2, FS_Subset
    <3>5. Cardinality(UnitsHeld(p)' \cup ({o} \X (1..n))) = Cardinality(UnitsHeld(p)') + n
      <4> HIDE DEF n, o
      <4> QED BY <2>2, <3>3, <3>4, AddUnits
    <3>6. Held(p) = Held(p)' + n /\ Held(p)' \in Nat
      BY <3>2, <3>4, <3>5, FS_CardinalityType DEF Held
    <3> QED BY <1>0, <2>1, <2>2, <2>3, <3>6
  <2>4. CASE job[s].to # "cancelled"
    <3>1. Live' = Live /\ \A x \in Live : orders'[x].qty = orders[x].qty
      BY <2>1, <2>4 DEF Live, Placed
    <3>2. UnitsHeld(p)' = UnitsHeld(p)
      BY <3>1 DEF UnitsHeld
    <3> QED BY <1>0, <2>1, <2>4, <3>2 DEF Held
  <2> QED BY <2>3, <2>4
<1> QED
  BY <1>1, <1>2, <1>3, <1>4, StockSteps

\* Units are neither lost nor made up by checkouts, cancellations and edits, for
\* any number of them.
THEOREM UnitsConserved == Spec /\ []OneRequestPerOrder => []Conservation
<1>1. Init => Conservation
  <2> SUFFICES ASSUME Init, NEW p \in Plants PROVE plant[p].stock + Held(p) = supply[p]
    BY DEF Conservation
  <2>1. UnitsHeld(p) = {} /\ supply[p] = plant[p].stock /\ plant[p].stock \in Int
    BY OrdersAssumption DEF Init, UnitsHeld, Live, Placed
  <2> QED BY <2>1, FS_EmptySet DEF Held
<1>2. IInv /\ BInv /\ Conservation /\ [Next]_vars => Conservation'
  BY ConservationStep
<1> QED
  BY Inductive, BookInvariant, <1>1, <1>2, PTL DEF Spec

----------------------------------------------------------------------------
(* The refinement *)

\* The book has the orders that are placed, under the numbers of their days.
LEMMA EntriesAre ==
    ASSUME TypeOK
    PROVE  /\ Entries \in [Checkouts -> BookRow \cup {None}] /\ None \notin BookRow
           /\ Book!Written = Placed
           /\ \A o \in Placed : /\ Entries[o].qty = orders[o].qty
                                 /\ Entries[o].number = orders[o].number
                                 /\ Entries[o].status = orders[o].status
           /\ \A d : Book!NextNumber(d) = <<d, 1 + Cardinality(Dated(d))>>
<1>1. \A o \in Placed : orders[o] \in OrderRow
  BY DEF Placed, TypeOK, DbTypeOK
<1>2. \A o \in Placed : Entry(orders[o]) \in BookRow
  BY <1>1 DEF Entry, OrderRow, BookRow
<1>3. None \notin BookRow
  BY OrdersAssumption
<1>4. Entries \in [Checkouts -> BookRow \cup {None}]
  BY <1>2 DEF Entries, Placed
<1>5. \A o \in Placed : Entries[o] = Entry(orders[o])
  BY DEF Entries, Placed
<1>6. Book!Written = Placed
  BY <1>2, <1>3, <1>5 DEF Book!Written, Placed, Entries
<1>7. \A o \in Placed : /\ Entries[o].qty = orders[o].qty
                        /\ Entries[o].number = orders[o].number
                        /\ Entries[o].status = orders[o].status
  <2> SUFFICES ASSUME NEW o \in Placed
               PROVE  /\ Entries[o].qty = orders[o].qty
                      /\ Entries[o].number = orders[o].number
                      /\ Entries[o].status = orders[o].status
    OBVIOUS
  <2>1. Entries[o] = [qty |-> orders[o].qty, number |-> orders[o].number, status |-> orders[o].status]
    BY <1>5 DEF Entry
  <2> QED BY <2>1
<1>8. ASSUME NEW d PROVE Book!NextNumber(d) = <<d, 1 + Cardinality(Dated(d))>>
  <2>1. {o \in Book!Written : Entries[o].number[1] = d} = Dated(d)
    BY <1>6, <1>7 DEF Dated
  <2>2. \A S : Book!Cardinality(S) = Cardinality(S)
    BY DEF Book!Cardinality, Cardinality
  <2> QED BY <2>1, <2>2 DEF Book!NextNumber
<1> QED
  BY <1>3, <1>4, <1>6, <1>7, <1>8

\* A checkout's commit is Place.
LEMMA PlaceStep ==
    ASSUME IInv, IInv', BInv, NEW c \in Checkouts, CommitOrder(c)
    PROVE  Book!BookNext
<1>0. TypeOK /\ TypeOK' /\ Bounds /\ NumberIsNext /\ CheckoutShape
  BY DEF IInv, BInv
<1>1. /\ c \notin Placed /\ number[c] \in Nat \X Nat
      /\ orders'[c].qty = want[c] /\ orders'[c].number = number[c] /\ orders'[c].status = "pending"
      /\ orders'[c] # None
      /\ \A o \in Checkouts \ {c} : orders'[o] = orders[o]
      /\ \A p \in Plants :
            /\ want[c][p] > 0 => plant[p].listed = "sold" /\ want[c][p] <= plant[p].stock
            /\ plant'[p].stock = plant[p].stock - want[c][p]
            /\ plant'[p].listed = plant[p].listed
  BY CommitOrderEffect DEF Placed
<1>2. PICK d \in 0..MaxDay : d = number[c][1]
  BY <1>0, <1>1, OrdersAssumption DEF Bounds
<1>3. number[c] # None
  BY <1>1, OrdersAssumption
<1>4. number[c][2] = 1 + Cardinality(Dated(d))
  <2>1. d \in Nat /\ Cardinality(Dated(d)) \in Nat
    BY OrdersAssumption, FS_Subset, FS_CardinalityType DEF Dated, Placed
  <2> QED BY <1>0, <1>2, <1>3, <2>1 DEF NumberIsNext
<1>5. number[c] = Book!NextNumber(d)
  BY <1>0, <1>1, <1>2, <1>4, EntriesAre
<1>6. Entries' = [Entries EXCEPT ![c] = [qty |-> want[c], number |-> Book!NextNumber(d),
                                         status |-> "pending"]]
  BY <1>1, <1>5 DEF Entries, Entry
<1>7. Shelf' = [p \in Plants |-> Shelf[p] - want[c][p]]
  BY <1>1 DEF Shelf
<1>8. OnSale' = OnSale
  BY <1>1 DEF OnSale
<1>9. \A p \in Plants : want[c][p] > 0 => p \in OnSale /\ want[c][p] <= Shelf[p]
  BY <1>1 DEF OnSale, Shelf
<1>10. c \notin Book!Written
  BY <1>0, <1>1, EntriesAre
<1>11. Book!Place(c, want[c], d)
  BY <1>6, <1>7, <1>8, <1>9, <1>10 DEF Book!Place
<1> QED
  BY <1>0, <1>11 DEF Book!BookNext, Bounds

\* The commit of a status request is Advance or Cancel.
LEMMA MoveStep ==
    ASSUME IInv, BInv, NEW s \in Staff, CommitStatus(s)
    PROVE  Book!BookNext
<1>0. TypeOK /\ OrderedExist /\ JobFresh
  BY DEF IInv, BInv
<1>1. PICK o \in Placed, from \in Statuses, to \in Statuses :
         /\ orders[o].status = from /\ from # to /\ EnsureTransitionAllowed(from, to)
         /\ orders'[o].qty = orders[o].qty /\ orders'[o].number = orders[o].number
         /\ orders'[o].status = to /\ orders'[o] # None
         /\ \A x \in Checkouts \ {o} : orders'[x] = orders[x]
         /\ \A p \in Plants :
               /\ plant'[p].stock = IF to = "cancelled"
                                    THEN plant[p].stock + orders[o].qty[p] ELSE plant[p].stock
               /\ plant'[p].listed = plant[p].listed
  <2>1. job[s].from \in Statuses /\ job[s].to \in Statuses
    BY <1>0, CommitStatusEffect DEF Jobs
  <2>2. orders'[job[s].order] # None
    BY <1>0, CommitStatusEffect DEF Placed
  <2>3. /\ job[s].order \in Placed /\ orders[job[s].order].status = job[s].from
        /\ job[s].from # job[s].to /\ EnsureTransitionAllowed(job[s].from, job[s].to)
        /\ orders'[job[s].order].qty = orders[job[s].order].qty
        /\ orders'[job[s].order].number = orders[job[s].order].number
        /\ orders'[job[s].order].status = job[s].to
        /\ \A x \in Checkouts \ {job[s].order} : orders'[x] = orders[x]
        /\ \A p \in Plants :
              /\ plant'[p].stock = IF job[s].to = "cancelled"
                                   THEN plant[p].stock + orders[job[s].order].qty[p]
                                   ELSE plant[p].stock
              /\ plant'[p].listed = plant[p].listed
    BY <1>0, CommitStatusEffect
  <2> QED BY <2>1, <2>2, <2>3
<1>2. /\ o \in Checkouts /\ o \in Book!Written /\ Entries[o].status = from
      /\ Entries[o].qty = orders[o].qty
  BY <1>0, <1>1, EntriesAre DEF Placed
<1>3. Entries' = [Entries EXCEPT ![o].status = to]
  <2>1. Entries[o] = Entry(orders[o]) /\ Entries'[o] = [Entry(orders[o]) EXCEPT !.status = to]
    BY <1>1 DEF Entries, Entry, Placed
  <2>2. \A x \in Checkouts \ {o} : Entries'[x] = Entries[x]
    BY <1>1 DEF Entries
  <2> QED BY <2>1, <2>2 DEF Entries
<1>4. Book!Open(o)
  BY <1>1, <1>2 DEF Book!Open, EnsureTransitionAllowed, Terminal
<1>5. OnSale' = OnSale
  BY <1>1 DEF OnSale
<1>6. CASE to = "cancelled"
  <2>1. Shelf' = [p \in Plants |-> Shelf[p] + Entries[o].qty[p]]
    BY <1>1, <1>2, <1>6 DEF Shelf
  <2>2. Book!Cancel(o)
    BY <1>3, <1>4, <1>5, <1>6, <2>1 DEF Book!Cancel
  <2> QED BY <1>2, <2>2 DEF Book!BookNext
<1>7. CASE to # "cancelled"
  <2>1. Shelf' = Shelf
    BY <1>1, <1>7 DEF Shelf
  <2>2. PICK i \in 1..5, j \in 1..5 :
           i < j /\ from = Book!Pipeline[i] /\ to = Book!Pipeline[j]
    <3>1. from \in Flow /\ to \in Flow /\ Rank[from] < Rank[to]
      BY <1>1, <1>7 DEF EnsureTransitionAllowed, Terminal, Statuses, Flow, Rank
    <3>2. \A f \in Flow : Rank[f] \in 0..4 /\ Book!Pipeline[Rank[f] + 1] = f
      BY DEF Flow, Rank, Book!Pipeline
    <3>3. Rank[from] + 1 \in 1..5 /\ Rank[to] + 1 \in 1..5 /\ Rank[from] + 1 < Rank[to] + 1
      BY <3>1, <3>2
    <3> QED BY <3>1, <3>2, <3>3
  <2>3. Book!Advance(o)
    BY <1>2, <1>3, <1>4, <1>5, <2>1, <2>2 DEF Book!Advance
  <2> QED BY <1>2, <2>3 DEF Book!BookNext
<1> QED
  BY <1>6, <1>7

\* An admin's edit is Arrange.
LEMMA ArrangeStep ==
    ASSUME IInv, NEW p \in Plants, NEW n \in 0..MaxStock, NEW listed \in {"sold", "hidden"},
           EditPlant(p, n, listed)
    PROVE  Book!BookNext
<1>1. \A q \in Plants : plant'[q] = IF q = p THEN [stock |-> n, listed |-> listed] ELSE plant[q]
  BY DEF EditPlant, IInv, TypeOK, DbTypeOK
<1>2. Shelf' = [Shelf EXCEPT ![p] = n]
  <2>1. \A q \in Plants : plant'[q].stock = IF q = p THEN n ELSE plant[q].stock
    BY <1>1
  <2> QED BY <2>1 DEF Shelf
<1>3. OnSale' = IF listed = "sold" THEN OnSale \cup {p} ELSE OnSale \ {p}
  BY <1>1 DEF OnSale
<1>4. Entries' = Entries
  BY DEF EditPlant, Entries
<1>5. PICK onSale \in BOOLEAN : onSale <=> listed = "sold"
  OBVIOUS
<1>6. Book!Arrange(p, n, onSale)
  BY <1>2, <1>3, <1>4, <1>5 DEF Book!Arrange
<1> QED
  BY <1>6 DEF Book!BookNext

\* Every interleaving of checkouts, status requests and edits is a sequence of
\* orders placed, moved and cancelled whole, one at a time.
THEOREM OrdersImplementBook == Spec /\ []OneRequestPerOrder => ImplementsOrderBook
<1>1. Init => Book!BookInit
  <2> SUFFICES ASSUME Init PROVE Book!BookInit
    OBVIOUS
  <2>1. Shelf \in [Plants -> 0..MaxStock] /\ OnSale \in SUBSET Plants
    BY DEF Init, Shelf, OnSale
  <2>2. Entries = [o \in Checkouts |-> None]
    BY DEF Init, Entries
  <2> QED BY <2>1, <2>2 DEF Book!BookInit
<1>2. ASSUME IInv, IInv', BInv, [Next]_vars
      PROVE  [Book!BookNext]_Book!bookVars
  <2>1. CASE UNCHANGED <<orders, plant, supply>>
    BY <2>1 DEF Book!bookVars, Shelf, OnSale, Entries
  <2> QED
    BY <1>2, <2>1, PlaceStep, MoveStep, ArrangeStep, StockSteps
<1>3. IInv /\ IInv' /\ BInv /\ [Next]_vars => [Book!BookNext]_Book!bookVars
  BY <1>2
<1> QED
  BY Inductive, BookInvariant, <1>1, <1>3, PTL DEF Spec, ImplementsOrderBook, Book!BookSpec

\* With a single admin at work the hypothesis is met: what the sessions of one
\* admin do one after the other is a book of orders that neither loses a unit nor
\* moves an order back.
COROLLARY WithOneSession ==
    ASSUME \A s, t \in Staff : s = t
    PROVE  Spec => /\ ImplementsOrderBook /\ PipelineForward
                   /\ []Conservation /\ []RestoredOnce
<1>1. OneRequestPerOrder
  BY DEF OneRequestPerOrder
<1> QED
  BY <1>1, OrdersImplementBook, PipelineIsForward, UnitsConserved, UnitsRestoredOnce, PTL
=============================================================================
