--------------------------- MODULE OverviewProofs ---------------------------
(* Theorems about Overview, for any number of orders, plants, months and     *)
(* prices: that what one reading shows, a later reading covers, but for the  *)
(* orders that a request with an old reading took out of `completed`.        *)
EXTENDS Overview, Sums

----------------------------------------------------------------------------
(* Overview: the orders, and sums over them *)

\* The rows, the clock and the figures read so far, whatever the bounds.
OverviewShape ==
    /\ orders \in Seq(OrderRow)
    /\ \A i \in DOMAIN orders : orders[i].at <= clock
    /\ plants \in [Plants -> PlantRow]
    /\ clock \in 0 .. OverviewTime
    /\ today = None \/ today \in 0 .. Today
    /\ Len(view) \in 0 .. 7 /\ \E S : view \in Seq(S)
    /\ Len(view) > 0 => today # None
    /\ asked \in [Clerks -> Move \cup {None}]
    /\ \A c \in Clerks : asked[c] # None => asked[c].order \in DOMAIN orders
    /\ undone \subseteq DOMAIN orders

Covers(a, b) == a.orders <= b.orders /\ a.revenue <= b.revenue
CoversBut(a, b, less) == a.orders <= b.orders /\ a.revenue <= b.revenue + less

\* A sum over fewer things, of which each has the same number.
LEMMA GrownSum ==
    ASSUME NEW A, NEW B, IsFiniteSet(B), A \subseteq B, NEW f, NEW g,
           \A x \in A : f[x] = g[x], \A x \in B : g[x] \in Nat
    PROVE  /\ SumFunctionOnSet(f, A) \in Nat /\ SumFunctionOnSet(g, B) \in Nat
           /\ SumFunctionOnSet(f, A) <= SumFunctionOnSet(g, B)
<1>1. IsFiniteSet(A)
  BY FS_Subset
<1>2. SumFunctionOnSet(f, A) = SumFunctionOnSet(g, A)
  BY <1>1, SumSame DEF AllInts
<1>3. SumFunctionOnSet(g, A) <= SumFunctionOnSet(g, B)
  BY SumPart
<1>4. SumFunctionOnSet(f, A) \in Nat /\ SumFunctionOnSet(g, B) \in Nat
  BY <1>1, <1>2, SumNat
<1> QED
  BY <1>2, <1>3, <1>4

\* The numbers that are summed are naturals, and there are finitely many.
LEMMA RowsAre ==
    ASSUME OverviewAssumption, OverviewShape
    PROVE  /\ IsFiniteSet(DOMAIN orders) /\ Cardinality(DOMAIN orders) = Len(orders) /\ Len(orders) \in Nat
           /\ \A i \in DOMAIN orders : orders[i] \in OrderRow /\ Goods[i] \in Nat /\ Totals[i] \in Nat
           /\ \A A : A \subseteq DOMAIN orders => IsFiniteSet(A) /\ Cardinality(A) \in Nat
           /\ Completed \subseteq DOMAIN orders
<1>1. /\ IsFiniteSet(DOMAIN orders) /\ Cardinality(DOMAIN orders) = Len(orders) /\ Len(orders) \in Nat
  <2>1. Len(orders) \in Nat /\ DOMAIN orders = 1 .. Len(orders)
    BY DEF OverviewShape
  <2>2. IsFiniteSet(1 .. Len(orders)) /\ Cardinality(1 .. Len(orders)) = IF 1 > Len(orders) THEN 0 ELSE Len(orders) - 1 + 1
    BY <2>1, FS_Interval
  <2> QED
    BY <2>1, <2>2
<1>2. ASSUME NEW i \in DOMAIN orders
      PROVE  orders[i] \in OrderRow /\ Goods[i] \in Nat /\ Totals[i] \in Nat
  <2>1. orders[i] \in OrderRow
    BY DEF OverviewShape
  <2>2. orders[i].qty \in Nat /\ Price[orders[i].plant] \in Nat /\ Fee \in Nat
    BY <2>1 DEF OrderRow, OverviewAssumption
  <2>3. \A a, b \in Nat : a * b \in Nat
    OBVIOUS
  <2>4. Goods[i] \in Nat
    BY <2>2, <2>3 DEF Goods
  <2> QED
    BY <2>1, <2>2, <2>4 DEF Totals
<1>3. ASSUME NEW A, A \subseteq DOMAIN orders PROVE IsFiniteSet(A) /\ Cardinality(A) \in Nat
  BY <1>1, <1>3, FS_Subset, FS_CardinalityType
<1>4. Completed \subseteq DOMAIN orders
  BY DEF Completed, WithStatus
<1> QED
  BY <1>1, <1>2, <1>3, <1>4

\* What a period of more orders has more of.
LEMMA PeriodIs ==
    ASSUME OverviewAssumption, OverviewShape, NEW B, B \subseteq DOMAIN orders, NEW A, A \subseteq B
    PROVE  /\ Period(A).orders \in Nat /\ Period(A).revenue \in Nat
           /\ Covers(Period(A), Period(B))
<1>1. A \subseteq DOMAIN orders /\ A \cap Completed \subseteq B \cap Completed /\ B \cap Completed \subseteq DOMAIN orders
  BY RowsAre
<1>2. IsFiniteSet(A) /\ IsFiniteSet(B) /\ IsFiniteSet(B \cap Completed)
  BY <1>1, RowsAre
<1>3. Cardinality(A) \in Nat /\ Cardinality(A) <= Cardinality(B)
  BY <1>2, FS_Subset, FS_CardinalityType
<1>4. \A i \in B \cap Completed : Totals[i] \in Nat
  BY <1>1, RowsAre
<1>5. /\ SumFunctionOnSet(Totals, A \cap Completed) \in Nat
      /\ SumFunctionOnSet(Totals, A \cap Completed) <= SumFunctionOnSet(Totals, B \cap Completed)
  BY <1>1, <1>2, <1>4, GrownSum
<1> QED
  BY <1>3, <1>5 DEF Period, Revenue, Covers

\* What is sold: the goods of all completed orders.
GoodsSold == SumFunctionOnSet(Goods, Completed)

\* The totals of orders are their goods and a fee for each.
LEMMA TotalsOf ==
    ASSUME OverviewAssumption, OverviewShape, NEW A, A \subseteq DOMAIN orders
    PROVE  /\ SumFunctionOnSet(Totals, A) = SumFunctionOnSet(Goods, A) + Fee * Cardinality(A)
           /\ SumFunctionOnSet(Totals, A) \in Nat /\ SumFunctionOnSet(Goods, A) \in Nat /\ Cardinality(A) \in Nat
<1>1. IsFiniteSet(A) /\ Cardinality(A) \in Nat
  BY RowsAre
<1>2. \A i \in A : Goods[i] \in Nat /\ Totals[i] \in Nat
  BY RowsAre
<1> DEFINE fees == [i \in DOMAIN orders |-> Fee]
<1>3. \A i \in A : fees[i] = Fee /\ Totals[i] = Goods[i] + fees[i]
  BY DEF Totals
<1>4. AllInts(Goods, A) /\ AllInts(fees, A) /\ Fee \in Int
  BY <1>1, <1>2, <1>3 DEF AllInts, OverviewAssumption
<1> HIDE DEF fees
<1>5. SumFunctionOnSet(Totals, A) = SumFunctionOnSet(Goods, A) + SumFunctionOnSet(fees, A)
  BY <1>3, <1>4, SumPlus
<1>6. SumFunctionOnSet(fees, A) = Fee * Cardinality(A)
  BY <1>1, <1>3, <1>4, SumConstant
<1>7. SumFunctionOnSet(Goods, A) \in Nat /\ SumFunctionOnSet(Totals, A) \in Nat
  BY <1>1, <1>2, SumNat
<1> QED
  BY <1>1, <1>5, <1>6, <1>7

\* The orders that are completed, or have been since the dashboard began.
Once             == Completed \cup undone
GoodsOnce        == SumFunctionOnSet(Goods, Once)
RevenueOnce(set) == SumFunctionOnSet(Totals, set \cap Once)
PeriodOnce(set)  == [orders |-> Cardinality(set), revenue |-> RevenueOnce(set)]

\* The sum over two sets, which may have elements in common.
LEMMA SumBoth ==
    ASSUME NEW f, NEW A, NEW B, IsFiniteSet(A), IsFiniteSet(B), \A x \in A \cup B : f[x] \in Nat
    PROVE  /\ SumFunctionOnSet(f, A \cup B) \in Nat
           /\ SumFunctionOnSet(f, A) \in Nat /\ SumFunctionOnSet(f, B) \in Nat
           /\ SumFunctionOnSet(f, A \cup B) <= SumFunctionOnSet(f, A) + SumFunctionOnSet(f, B)
<1>1. IsFiniteSet(B \ A) /\ IsFiniteSet(A \cup B)
  BY FS_Subset, FS_Union
<1>2. A \cup B = A \cup (B \ A) /\ A \cap (B \ A) = {}
  OBVIOUS
<1>3. AllInts(f, A) /\ AllInts(f, B \ A)
  BY <1>1 DEF AllInts
<1>4. SumFunctionOnSet(f, A \cup B) = SumFunctionOnSet(f, A) + SumFunctionOnSet(f, B \ A)
  BY <1>2, <1>3, SumUnion
<1>5. SumFunctionOnSet(f, B \ A) <= SumFunctionOnSet(f, B)
  BY SumPart
<1>6. /\ SumFunctionOnSet(f, A \cup B) \in Nat /\ SumFunctionOnSet(f, B \ A) \in Nat
      /\ SumFunctionOnSet(f, A) \in Nat /\ SumFunctionOnSet(f, B) \in Nat
  BY <1>1, SumNat
<1> QED
  BY <1>4, <1>5, <1>6

\* What has been completed once is completed, or missing.
LEMMA OnceIs ==
    ASSUME OverviewAssumption, OverviewShape
    PROVE  /\ Once \subseteq DOMAIN orders /\ Completed \subseteq Once
           /\ Missing = SumFunctionOnSet(Goods, undone) + Fee * Cardinality(undone)
           /\ Missing \in Nat /\ SumFunctionOnSet(Goods, undone) \in Nat /\ Cardinality(undone) \in Nat
           /\ GoodsOnce \in Nat /\ GoodsOnce <= GoodsSold + SumFunctionOnSet(Goods, undone)
           /\ Cardinality(Once) \in Nat /\ Cardinality(Once) <= Cardinality(Completed) + Cardinality(undone)
           /\ GoodsSold \in Nat /\ Cardinality(Completed) \in Nat
<1>1. undone \subseteq DOMAIN orders /\ Completed \subseteq DOMAIN orders
  BY RowsAre DEF OverviewShape
<1>2. IsFiniteSet(undone) /\ IsFiniteSet(Completed) /\ Cardinality(undone) \in Nat /\ Cardinality(Completed) \in Nat
  BY <1>1, RowsAre
<1>3. Once \subseteq DOMAIN orders /\ Completed \subseteq Once
  BY <1>1 DEF Once
<1>4. \A i \in Completed \cup undone : Goods[i] \in Nat
  BY <1>1, RowsAre
<1>5. /\ SumFunctionOnSet(Goods, Completed \cup undone) \in Nat
      /\ SumFunctionOnSet(Goods, Completed) \in Nat /\ SumFunctionOnSet(Goods, undone) \in Nat
      /\ SumFunctionOnSet(Goods, Completed \cup undone)
           <= SumFunctionOnSet(Goods, Completed) + SumFunctionOnSet(Goods, undone)
  BY <1>2, <1>4, SumBoth
<1>6. Missing = SumFunctionOnSet(Goods, undone) + Fee * Cardinality(undone) /\ Missing \in Nat
  BY <1>1, TotalsOf DEF Missing
<1>7. Cardinality(Once) \in Nat
  BY <1>3, RowsAre
<1>8. Cardinality(Completed \cup undone) <= Cardinality(Completed) + Cardinality(undone)
  <2>1. Cardinality(Completed \cup undone)
          = Cardinality(Completed) + Cardinality(undone) - Cardinality(Completed \cap undone)
    BY <1>2, FS_Union
  <2>2. Cardinality(Completed \cap undone) \in Nat
    BY <1>2, FS_Subset, FS_CardinalityType
  <2> QED
    BY <1>2, <2>1, <2>2
<1> QED
  BY <1>2, <1>3, <1>5, <1>6, <1>7, <1>8 DEF Once, GoodsOnce, GoodsSold

\* A period counts no more than it has counted, and no less but for what is missing.
LEMMA PeriodOnceIs ==
    ASSUME OverviewAssumption, OverviewShape, NEW A, A \subseteq DOMAIN orders
    PROVE  /\ PeriodOnce(A).orders \in Nat /\ PeriodOnce(A).revenue \in Nat
           /\ Covers(Period(A), PeriodOnce(A)) /\ CoversBut(PeriodOnce(A), Period(A), Missing)
<1>1. undone \subseteq DOMAIN orders /\ IsFiniteSet(undone) /\ IsFiniteSet(A) /\ Cardinality(A) \in Nat
  BY RowsAre DEF OverviewShape
<1> DEFINE paid == A \cap Completed
           lost == A \cap undone
<1>2. A \cap Once = paid \cup lost /\ paid \subseteq DOMAIN orders /\ lost \subseteq undone
  BY DEF Once
<1>3. IsFiniteSet(paid) /\ IsFiniteSet(lost) /\ IsFiniteSet(paid \cup lost)
  BY <1>1, FS_Subset, FS_Union
<1>4. /\ \A i \in paid \cup lost : Totals[i] \in Nat
      /\ \A i \in undone : Totals[i] \in Nat
  BY <1>1, RowsAre
<1> HIDE DEF paid, lost
<1>5. /\ SumFunctionOnSet(Totals, paid \cup lost) \in Nat
      /\ SumFunctionOnSet(Totals, paid) \in Nat /\ SumFunctionOnSet(Totals, lost) \in Nat
      /\ SumFunctionOnSet(Totals, paid \cup lost) <= SumFunctionOnSet(Totals, paid) + SumFunctionOnSet(Totals, lost)
  BY <1>3, <1>4, SumBoth
<1>6. SumFunctionOnSet(Totals, lost) <= Missing
  BY <1>1, <1>2, <1>4, SumPart DEF Missing
<1>7. SumFunctionOnSet(Totals, paid) <= SumFunctionOnSet(Totals, paid \cup lost)
  <2>1. paid \subseteq paid \cup lost
    OBVIOUS
  <2> QED
    BY <1>3, <1>4, <2>1, SumPart
<1>8. Missing \in Nat
  BY OnceIs
<1>9. PICK counted, was, is : /\ counted = Cardinality(A) /\ was = SumFunctionOnSet(Totals, paid \cup lost)
                              /\ is = SumFunctionOnSet(Totals, paid)
  OBVIOUS
<1>10. PeriodOnce(A) = [orders |-> counted, revenue |-> was] /\ Period(A) = [orders |-> counted, revenue |-> is]
  BY <1>2, <1>9 DEF PeriodOnce, RevenueOnce, Period, Revenue, paid
<1>11. was \in Nat /\ is \in Nat /\ counted \in Nat /\ is <= was /\ was <= is + Missing
  BY <1>1, <1>5, <1>6, <1>7, <1>8, <1>9
<1> QED
  BY <1>10, <1>11 DEF Covers, CoversBut

\* Grouped, they are as many.
LEMMA CountGroups ==
    ASSUME NEW S, IsFiniteSet(S), NEW key, NEW P, IsFiniteSet(P), \A x \in S : key[x] \in P
    PROVE  SumFunctionOnSet([p \in P |-> Cardinality({x \in S : key[x] = p})], P) = Cardinality(S)
<1> DEFINE one == [x \in S |-> 1]
           count == [p \in P |-> Cardinality({x \in S : key[x] = p})]
           grouped == [p \in P |-> SumFunctionOnSet(one, {x \in S : key[x] = p})]
<1>1. AllInts(one, S)
  BY DEF AllInts
<1>2. Cardinality(S) \in Nat /\ SumFunctionOnSet(one, S) = Cardinality(S)
  <2>1. \A x \in S : one[x] = 1
    OBVIOUS
  <2>2. Cardinality(S) \in Nat
    BY FS_CardinalityType
  <2> HIDE DEF one
  <2>3. SumFunctionOnSet(one, S) = 1 * Cardinality(S)
    BY <2>1, SumConstant
  <2> QED
    BY <2>2, <2>3
<1>3. ASSUME NEW p \in P PROVE grouped[p] = count[p]
  <2> DEFINE mine == {x \in S : key[x] = p}
  <2>1. IsFiniteSet(mine) /\ Cardinality(mine) \in Nat /\ \A x \in mine : one[x] = 1
    BY FS_Subset, FS_CardinalityType
  <2>2. grouped[p] = SumFunctionOnSet(one, mine) /\ count[p] = Cardinality(mine)
    OBVIOUS
  <2> HIDE DEF one, mine, grouped, count
  <2>3. SumFunctionOnSet(one, mine) = 1 * Cardinality(mine)
    BY <2>1, SumConstant
  <2> QED
    BY <2>1, <2>2, <2>3
<1>4. SumFunctionOnSet(grouped, P) = SumFunctionOnSet(one, S)
  <2> HIDE DEF one
  <2> QED
    BY <1>1, SumGroups
<1>5. grouped = count
  BY <1>3
<1> QED
  BY <1>2, <1>4, <1>5

\* The statuses add up to the orders.
LEMMA StatusesAddUp ==
    ASSUME OverviewAssumption, OverviewShape
    PROVE  SumFunction(LoadOrdersByStatus) = Len(orders)
<1> DEFINE key == [i \in DOMAIN orders |-> orders[i].status]
<1>1. IsFiniteSet(OrderStatuses)
  <2>1. IsFiniteSet({"pending"})
    BY FS_Singleton
  <2>2. IsFiniteSet({"pending"} \cup {"confirmed"})
    BY <2>1, FS_AddElement
  <2>3. IsFiniteSet({"pending", "confirmed"} \cup {"processing"})
    BY <2>2, FS_AddElement
  <2>4. IsFiniteSet({"pending", "confirmed", "processing"} \cup {"shipping"})
    BY <2>3, FS_AddElement
  <2>5. IsFiniteSet({"pending", "confirmed", "processing", "shipping"} \cup {"completed"})
    BY <2>4, FS_AddElement
  <2>6. IsFiniteSet({"pending", "confirmed", "processing", "shipping", "completed"} \cup {"cancelled"})
    BY <2>5, FS_AddElement
  <2> QED
    BY <2>6 DEF OrderStatuses
<1>2. \A i \in DOMAIN orders : key[i] \in OrderStatuses
  BY RowsAre DEF OrderRow
<1> DEFINE count == [s \in OrderStatuses |-> Cardinality({i \in DOMAIN orders : key[i] = s})]
<1>3. LoadOrdersByStatus = count
  <2>1. \A s \in OrderStatuses : WithStatus(s) = {i \in DOMAIN orders : key[i] = s}
    BY DEF WithStatus
  <2> QED
    BY <2>1 DEF LoadOrdersByStatus
<1>4. IsFiniteSet(DOMAIN orders) /\ Cardinality(DOMAIN orders) = Len(orders)
  BY RowsAre
<1>5. SumFunctionOnSet(count, OrderStatuses) = Cardinality(DOMAIN orders)
  <2> HIDE DEF key
  <2> QED
    BY <1>1, <1>2, <1>4, CountGroups
<1>6. DOMAIN LoadOrdersByStatus = OrderStatuses
  BY DEF LoadOrdersByStatus
<1> QED
  BY <1>3, <1>4, <1>5, <1>6 DEF SumFunction

----------------------------------------------------------------------------
(* Overview: days and months *)

\* The order of products with a common factor, and of quotients.
LEMMA Scaled ==
    ASSUME NEW d \in Nat \ {0}, NEW a \in Nat, NEW b \in Nat
    PROVE  /\ a <= b => a * d <= b * d
           /\ a < b => a * d + d <= b * d
<1>1. ASSUME NEW k \in Nat PROVE (a + k) * d = a * d + k * d /\ k * d \in Nat /\ a * d \in Nat
  OBVIOUS
<1>2. ASSUME NEW k \in Nat \ {0} PROVE d <= k * d
  <2>1. k - 1 \in Nat /\ k = 1 + (k - 1)
    OBVIOUS
  <2>2. (1 + (k - 1)) * d = 1 * d + (k - 1) * d /\ (k - 1) * d \in Nat
    BY <2>1
  <2> QED
    BY <2>1, <2>2
<1>3. ASSUME a <= b PROVE a * d <= b * d
  <2>1. b - a \in Nat /\ b = a + (b - a)
    BY <1>3
  <2>2. (a + (b - a)) * d = a * d + (b - a) * d /\ (b - a) * d \in Nat /\ a * d \in Nat
    BY <1>1, <2>1
  <2> QED
    BY <2>1, <2>2
<1>4. ASSUME a < b PROVE a * d + d <= b * d
  <2>1. b - a \in Nat \ {0} /\ b = a + (b - a)
    BY <1>4
  <2>2. (a + (b - a)) * d = a * d + (b - a) * d /\ (b - a) * d \in Nat /\ a * d \in Nat
    BY <1>1, <2>1
  <2>3. d <= (b - a) * d
    BY <1>2, <2>1
  <2> QED
    BY <2>1, <2>2, <2>3
<1> QED
  BY <1>3, <1>4

\* A moment is of a day if it is not before its start nor after its end.
LEMMA DayOf ==
    ASSUME OverviewAssumption, NEW t \in Nat, NEW day \in Nat
    PROVE  /\ UtcDay(t) \in Nat
           /\ StartOfDay(day) <= t <=> day <= UtcDay(t)
<1> DEFINE d == TicksPerDay
           q == t \div d
<1>1. d \in Nat \ {0}
  BY DEF OverviewAssumption
<1>2. q \in Nat /\ q * d <= t /\ t < q * d + d
  <2>1. ASSUME NEW e \in Nat \ {0}
        PROVE  t \div e \in Nat /\ e * (t \div e) <= t /\ t < e * (t \div e) + e /\ e * (t \div e) = (t \div e) * e
    OBVIOUS
  <2> QED
    BY <1>1, <2>1
<1> HIDE DEF q
<1>3. day <= q => day * d <= q * d
  BY <1>1, <1>2, Scaled
<1>4. q < day => q * d + d <= day * d
  BY <1>1, <1>2, Scaled
<1>5. day * d \in Nat /\ q * d \in Nat
  <2>1. \A a, b \in Nat : a * b \in Nat
    OBVIOUS
  <2> QED
    BY <1>1, <1>2, <2>1
<1>6. day * d <= t <=> day <= q
  BY <1>1, <1>2, <1>3, <1>4, <1>5
<1> QED
  BY <1>2, <1>6 DEF UtcDay, StartOfDay, q

\* The first of a month is the last one so far.
LEMMA FirstDayIs ==
    ASSUME OverviewAssumption, NEW day \in Nat
    PROVE  FirstDay(day) \in Nat /\ FirstDay(day) <= day
<1> DEFINE past == {d \in MonthStarts : d <= day}
           left == [d \in past |-> day - d]
<1>1. 0 \in past /\ past \subseteq Nat
  <2>1. 0 \in MonthStarts /\ MonthStarts \subseteq Nat /\ 0 <= day
    BY DEF OverviewAssumption
  <2> QED
    BY <2>1
<1>2. \A d \in past : left[d] \in Nat
  BY <1>1
<1>3. PICK d \in past : \A e \in past : left[d] <= left[e]
  <2> HIDE DEF left, past
  <2> QED
    BY <1>1, <1>2, LeastExists
<1>4. d \in MonthStarts /\ d <= day /\ \A e \in MonthStarts : e <= day => e <= d
  BY <1>1, <1>3
<1>5. FirstDay(day) \in MonthStarts /\ FirstDay(day) <= day
  BY <1>4 DEF FirstDay
<1> QED
  BY <1>5 DEF OverviewAssumption

\* Today, and this month, as the statements cut them.
DayOrders   == CreatedIn(StartOfDay(today), StartOfDay(today + 1))
MonthOrders == CreatedIn(StartOfDay(FirstDay(today)), StartOfNextMonth(today))
ThisMonth   == CreatedIn(StartOfDay(FirstDay(today)), StartOfDay(today + 1))

\* When the rows were created.
LEMMA CreatedAt ==
    ASSUME OverviewAssumption, OverviewShape, NEW i \in DOMAIN orders
    PROVE  orders[i].at \in Nat /\ orders[i].at <= clock /\ clock \in Nat /\ orders[i].at <= OverviewTime
                /\ OverviewTime \in Nat
<1>1. OverviewTime \in Nat
  BY DEF OverviewAssumption
<1>2. orders[i] \in OrderRow /\ orders[i].at <= clock /\ clock \in 0 .. OverviewTime
  BY RowsAre DEF OverviewShape
<1>3. orders[i].at \in 0 .. OverviewTime
  BY <1>2 DEF OrderRow
<1> QED
  BY <1>1, <1>2, <1>3

\* Today is a part of the month, and so is every day since its first.
LEMMA DayInMonth ==
    ASSUME OverviewAssumption, OverviewShape, today \in Nat
    PROVE  /\ DayOrders \subseteq MonthOrders /\ MonthOrders \subseteq DOMAIN orders
           /\ Today = today => MonthOrders \subseteq ThisMonth
<1>1. FirstDay(today) \in Nat /\ FirstDay(today) <= today
  BY FirstDayIs
<1>2. ASSUME NEW i \in DayOrders PROVE i \in MonthOrders
  <2>1. i \in DOMAIN orders /\ StartOfDay(today) <= orders[i].at /\ orders[i].at < StartOfDay(today + 1)
    BY DEF DayOrders, CreatedIn
  <2>2. orders[i].at \in Nat /\ orders[i].at <= OverviewTime /\ OverviewTime \in Nat
    BY <2>1, CreatedAt
  <2>3. StartOfDay(FirstDay(today)) <= orders[i].at
    <3>1. today <= UtcDay(orders[i].at) /\ UtcDay(orders[i].at) \in Nat
      BY <2>1, <2>2, DayOf
    <3>2. FirstDay(today) <= UtcDay(orders[i].at)
      BY <1>1, <3>1
    <3> QED
      BY <1>1, <2>2, <3>2, DayOf
  <2>4. orders[i].at < StartOfNextMonth(today)
    <3> DEFINE later == {StartOfDay(e) : e \in {e \in MonthStarts : e > today}}
    <3>1. CASE later = {}
      BY <2>2, <3>1 DEF StartOfNextMonth
    <3>2. CASE later # {}
      <4>1. later \subseteq Nat
        <5>1. \A a, b \in Nat : a * b \in Nat
          OBVIOUS
        <5> QED
          BY <5>1 DEF StartOfDay, OverviewAssumption
      <4>2. Min(later) \in later
        <5> HIDE DEF later
        <5>1. \E n \in later : \A m \in later : n <= m
          BY <3>2, <4>1, LeastNatural
        <5> QED
          BY <5>1 DEF Min
      <4>3. PICK e \in MonthStarts : e > today /\ Min(later) = StartOfDay(e)
        BY <4>2
      <4>4. e \in Nat /\ ~(today + 1 <= UtcDay(orders[i].at)) /\ UtcDay(orders[i].at) \in Nat
        <5>1. e \in Nat /\ today + 1 \in Nat /\ ~(StartOfDay(today + 1) <= orders[i].at)
          <6>1. StartOfDay(today + 1) \in Nat
            <7>1. \A a, b \in Nat : a * b \in Nat
              OBVIOUS
            <7> QED
              BY <7>1 DEF StartOfDay, OverviewAssumption
          <6> QED
            BY <2>1, <2>2, <6>1 DEF OverviewAssumption
        <5> QED
          BY <2>2, <5>1, DayOf
      <4>5. ~(StartOfDay(e) <= orders[i].at)
        <5>1. ~(e <= UtcDay(orders[i].at))
          BY <4>3, <4>4
        <5> QED
          BY <2>2, <4>4, <5>1, DayOf
      <4>6. StartOfNextMonth(today) = StartOfDay(e) /\ StartOfDay(e) \in Nat
        BY <3>2, <4>1, <4>2, <4>3 DEF StartOfNextMonth
      <4> QED
        BY <2>2, <4>5, <4>6
    <3> QED
      BY <3>1, <3>2
  <2> QED
    BY <2>1, <2>3, <2>4 DEF MonthOrders, CreatedIn
<1>3. ASSUME Today = today, NEW i \in MonthOrders PROVE i \in ThisMonth
  <2>1. i \in DOMAIN orders /\ StartOfDay(FirstDay(today)) <= orders[i].at
    BY DEF MonthOrders, CreatedIn
  <2>2. orders[i].at \in Nat /\ orders[i].at <= clock /\ clock \in Nat
    BY <2>1, CreatedAt
  <2>3. clock < StartOfDay(today + 1)
    <3>1. UtcDay(clock) = today
      BY <1>3 DEF UtcDay, Today
    <3>2. ~(StartOfDay(today + 1) <= clock)
      BY <2>2, <3>1, DayOf
    <3>3. StartOfDay(today + 1) \in Nat
      <4>1. \A a, b \in Nat : a * b \in Nat
        OBVIOUS
      <4> QED
        BY <4>1 DEF StartOfDay, OverviewAssumption
    <3> QED
      BY <2>2, <3>2, <3>3
  <2>4. orders[i].at < StartOfDay(today + 1)
    <3>1. StartOfDay(today + 1) \in Nat
      <4>1. \A a, b \in Nat : a * b \in Nat
        OBVIOUS
      <4> QED
        BY <4>1 DEF StartOfDay, OverviewAssumption
    <3> QED
      BY <2>2, <2>3, <3>1
  <2> QED
    BY <2>1, <2>4 DEF ThisMonth, CreatedIn
<1> QED
  BY <1>2, <1>3 DEF MonthOrders, CreatedIn

\* The points of the chart add up to what is recent, and the last is today's.
LEMMA ChartAddsUp ==
    ASSUME OverviewAssumption, OverviewShape, today \in Nat, NEW series, series = LoadRevenueByDay
    PROVE  /\ Covers(Period(DayOrders), series[today])
           /\ series[today].orders \in Nat /\ series[today].revenue \in Nat
           /\ SumFunction([d \in DOMAIN series |-> series[d].orders]) = Period(ThisMonth).orders
           /\ SumFunction([d \in DOMAIN series |-> series[d].revenue]) = Period(ThisMonth).revenue
<1> DEFINE days == FirstDay(today) .. today
           key  == [i \in DOMAIN orders |-> UtcDay(orders[i].at)]
           on(d) == {i \in ThisMonth : key[i] = d}
<1>1. FirstDay(today) \in Nat /\ FirstDay(today) <= today
  BY FirstDayIs
<1>2. IsFiniteSet(days) /\ today \in days
  BY <1>1, FS_Interval
<1>3. ThisMonth \subseteq DOMAIN orders /\ IsFiniteSet(ThisMonth)
  <2>1. ThisMonth \subseteq DOMAIN orders
    BY DEF ThisMonth, CreatedIn
  <2> QED
    BY <2>1, RowsAre
<1>4. ASSUME NEW i \in ThisMonth PROVE key[i] \in days
  <2>1. /\ i \in DOMAIN orders /\ key[i] = UtcDay(orders[i].at)
        /\ StartOfDay(FirstDay(today)) <= orders[i].at /\ orders[i].at < StartOfDay(today + 1)
    BY DEF ThisMonth, CreatedIn
  <2>2. orders[i].at \in Nat
    BY <2>1, CreatedAt
  <2>3. FirstDay(today) <= UtcDay(orders[i].at) /\ UtcDay(orders[i].at) \in Nat
    BY <1>1, <2>1, <2>2, DayOf
  <2>4. ~(today + 1 <= UtcDay(orders[i].at))
    <3>1. StartOfDay(today + 1) \in Nat
      <4>1. \A a, b \in Nat : a * b \in Nat
        OBVIOUS
      <4> QED
        BY <4>1 DEF StartOfDay, OverviewAssumption
    <3>2. ~(StartOfDay(today + 1) <= orders[i].at)
      BY <2>1, <2>2, <3>1
    <3> QED
      BY <2>2, <3>2, DayOf
  <2> QED
    BY <1>1, <2>1, <2>3, <2>4
<1>5. /\ DOMAIN series = days
      /\ \A d \in days : series[d] = Period(on(d))
  <2>1. \A d \in days : {i \in ThisMonth : UtcDay(orders[i].at) = d} = on(d)
    BY <1>3
  <2> QED
    BY <2>1 DEF LoadRevenueByDay, ThisMonth
<1>6. Covers(Period(DayOrders), series[today]) /\ series[today].orders \in Nat /\ series[today].revenue \in Nat
  <2>1. DayOrders \subseteq on(today)
    <3> SUFFICES ASSUME NEW i \in DayOrders PROVE i \in ThisMonth /\ key[i] = today
      OBVIOUS
    <3>1. i \in DOMAIN orders /\ StartOfDay(today) <= orders[i].at /\ orders[i].at < StartOfDay(today + 1)
      BY DEF DayOrders, CreatedIn
    <3>2. i \in MonthOrders
      BY DayInMonth
    <3>3. i \in ThisMonth
      BY <3>1, <3>2 DEF MonthOrders, ThisMonth, CreatedIn
    <3>4. today <= UtcDay(orders[i].at) /\ UtcDay(orders[i].at) \in Nat
      BY <3>1, CreatedAt, DayOf
    <3>5. key[i] \in days /\ key[i] = UtcDay(orders[i].at)
      BY <1>4, <3>1, <3>3
    <3> QED
      BY <1>1, <3>3, <3>4, <3>5
  <2>2. on(today) \subseteq DOMAIN orders
    BY <1>3
  <2> HIDE DEF on
  <2>3. Covers(Period(DayOrders), Period(on(today)))
    BY <2>1, <2>2, PeriodIs
  <2>4. Period(on(today)).orders \in Nat /\ Period(on(today)).revenue \in Nat
    BY <2>2, PeriodIs
  <2> QED
    BY <1>2, <1>5, <2>3, <2>4
<1>7. SumFunction([d \in DOMAIN series |-> series[d].orders]) = Cardinality(ThisMonth)
  <2>1. \A d \in days : series[d].orders = Cardinality(on(d))
    BY <1>5 DEF Period
  <2>2. [d \in DOMAIN series |-> series[d].orders] = [d \in days |-> Cardinality(on(d))]
    BY <1>5, <2>1
  <2>3. SumFunctionOnSet([d \in days |-> Cardinality(on(d))], days) = Cardinality(ThisMonth)
    <3> HIDE DEF key, days
    <3> QED
      BY <1>2, <1>3, <1>4, CountGroups
  <2> HIDE DEF on, days
  <2> QED
    BY <2>2, <2>3 DEF SumFunction
<1>8. SumFunction([d \in DOMAIN series |-> series[d].revenue]) = Revenue(ThisMonth)
  <2> DEFINE paid == ThisMonth \cap Completed
             paidOn(d) == {i \in paid : key[i] = d}
  <2>1. paid \subseteq DOMAIN orders /\ IsFiniteSet(paid) /\ \A i \in paid : i \in ThisMonth
    <3>1. paid \subseteq DOMAIN orders
      BY <1>3
    <3> QED
      BY <3>1, RowsAre
  <2>2. AllInts(Totals, paid)
    <3>1. \A i \in paid : Totals[i] \in Nat
      BY <2>1, RowsAre
    <3> QED
      BY <2>1, <3>1 DEF AllInts
  <2>3. \A d \in days : series[d].revenue = SumFunctionOnSet(Totals, paidOn(d))
    <3>1. \A d \in days : on(d) \cap Completed = paidOn(d)
      OBVIOUS
    <3>2. \A d \in days : series[d].revenue = SumFunctionOnSet(Totals, on(d) \cap Completed)
      <4>1. \A B : Period(B).revenue = SumFunctionOnSet(Totals, B \cap Completed)
        BY DEF Period, Revenue
      <4> HIDE DEF on, days
      <4> QED
        BY <1>5, <4>1
    <3> HIDE DEF paidOn, on, days
    <3> QED
      BY <3>1, <3>2
  <2>4. [d \in DOMAIN series |-> series[d].revenue] = [d \in days |-> SumFunctionOnSet(Totals, paidOn(d))]
    BY <1>5, <2>3
  <2>5. SumFunctionOnSet([d \in days |-> SumFunctionOnSet(Totals, paidOn(d))], days)
          = SumFunctionOnSet(Totals, paid)
    <3>1. \A i \in paid : key[i] \in days
      BY <1>4, <2>1
    <3>2. IsFiniteSet(days)
      BY <1>2
    <3> HIDE DEF key, days, paid, on
    <3> QED
      BY <2>2, <3>1, <3>2, SumGroups
  <2> HIDE DEF paidOn, days
  <2> QED
    BY <2>4, <2>5 DEF SumFunction, Revenue
<1> QED
  BY <1>6, <1>7, <1>8 DEF Period

----------------------------------------------------------------------------
(* Overview: the best sellers *)

\* The smaller of two numbers.
LEMMA MinOfTwo ==
    ASSUME NEW a \in Int, NEW b \in Int
    PROVE  Min({a, b}) = IF a <= b THEN a ELSE b
<1>1. \E n \in {a, b} : \A m \in {a, b} : n <= m
  OBVIOUS
<1>2. Min({a, b}) \in {a, b} /\ \A m \in {a, b} : Min({a, b}) <= m
  BY <1>1 DEF Min
<1> QED
  BY <1>2

\* A ranking lists each element once.
LEMMA RankingIs ==
    ASSUME NEW set, IsFiniteSet(set), NEW s \in SetToSeqs(set)
    PROVE  /\ s \in Seq(set) /\ Len(s) = Cardinality(set) /\ Len(s) \in Nat
           /\ \A i, j \in DOMAIN s : s[i] = s[j] => i = j
           /\ {s[i] : i \in DOMAIN s} = set
<1> DEFINE n == Cardinality(set)
<1>1. n \in Nat
  BY FS_CardinalityType
<1>2. s \in [1 .. n -> set] /\ \A i, j \in 1 .. n : i # j => s[i] # s[j]
  BY DEF SetToSeqs
<1>3. s \in Seq(set) /\ Len(s) = n /\ DOMAIN s = 1 .. n
  BY <1>1, <1>2
<1>4. s \in Injection(1 .. n, set)
  BY <1>2 DEF Injection, IsInjective
<1>5. Cardinality(1 .. n) = n
  <2>1. Cardinality(1 .. n) = IF 1 > n THEN 0 ELSE n - 1 + 1
    BY <1>1, FS_Interval
  <2> QED
    BY <1>1, <2>1
<1>6. s \in Surjection(1 .. n, set)
  BY <1>4, <1>5, FS_Injection
<1>7. \A x \in set : \E i \in 1 .. n : s[i] = x
  BY <1>6 DEF Surjection
<1> QED
  BY <1>1, <1>2, <1>3, <1>7

\* The best sellers, when their list is not cut off, make up what is sold.
LEMMA TopIsAll ==
    ASSUME OverviewAssumption, OverviewShape, NEW top \in LoadTopPlants,
           Len(top) < ListLimit \/ Cardinality(Plants) <= ListLimit
    PROVE  SumFunction([i \in DOMAIN top |-> top[i].revenue]) = GoodsSold
<1> DEFINE sellers == {p \in Plants : Sold(p) # {}}
           set == {Sales(p) : p \in sellers}
           sale == [p \in sellers |-> Sales(p)]
           revenueOf == [p \in sellers |-> SumFunctionOnSet(Goods, Sold(p))]
           revenue == [r \in set |-> r.revenue]
<1>1. PICK s \in SetToSeqs(set) : top = SubSeq(s, 1, Min({ListLimit, Len(s)}))
  BY DEF LoadTopPlants, Best
<1>2. IsFiniteSet(sellers) /\ Cardinality(sellers) \in Nat /\ Cardinality(Plants) \in Nat
      /\ Cardinality(sellers) <= Cardinality(Plants)
  BY FS_Subset, FS_CardinalityType DEF OverviewAssumption
<1>3. IsFiniteSet(set) /\ Cardinality(set) <= Cardinality(sellers) /\ Cardinality(set) \in Nat
  <2>1. sale \in Surjection(sellers, set)
    BY DEF Surjection
  <2> HIDE DEF sale, set, sellers
  <2> QED
    BY <1>2, <2>1, FS_Surjection, FS_CardinalityType
<1>4. /\ s \in Seq(set) /\ Len(s) = Cardinality(set) /\ Len(s) \in Nat
      /\ \A i, j \in DOMAIN s : s[i] = s[j] => i = j
      /\ {s[i] : i \in DOMAIN s} = set
  <2> HIDE DEF set
  <2> QED
    BY <1>3, RankingIs
<1>5. top = s
  <2> HIDE DEF set, sellers
  <2>1. ListLimit \in Nat /\ Min({ListLimit, Len(s)}) = IF ListLimit <= Len(s) THEN ListLimit ELSE Len(s)
    <3>1. ListLimit \in Nat /\ ListLimit \in Int /\ Len(s) \in Int
      BY <1>4 DEF OverviewAssumption
    <3> QED
      BY <3>1, MinOfTwo
  <2>2. Min({ListLimit, Len(s)}) = Len(s)
    <3>1. CASE Len(top) < ListLimit
      <4>1. ASSUME ListLimit <= Len(s) PROVE FALSE
        <5>1. top = SubSeq(s, 1, ListLimit)
          BY <1>1, <2>1, <4>1
        <5>2. Len(top) = ListLimit
          BY <1>4, <2>1, <4>1, <5>1
        <5> QED
          BY <2>1, <3>1, <5>2
      <4> QED
        BY <1>4, <2>1, <4>1
    <3>2. CASE Cardinality(Plants) <= ListLimit
      BY <1>2, <1>3, <1>4, <2>1, <3>2
    <3> QED
      BY <3>1, <3>2
  <2>3. top = SubSeq(s, 1, Len(s))
    BY <1>1, <2>2
  <2>4. Len(top) = Len(s) /\ top \in Seq(set) /\ \A k \in 1 .. Len(s) : top[k] = s[k]
    BY <1>4, <2>3
  <2> QED
    BY <1>4, <2>4
<1>6. \A p \in sellers : Sales(p).revenue = revenueOf[p] /\ Sales(p).plant = p
  BY DEF Sales
<1>7. AllInts(revenueOf, sellers) /\ IsFiniteSet(Completed) /\ AllInts(Goods, Completed)
  <2>1. IsFiniteSet(Completed) /\ Completed \subseteq DOMAIN orders /\ \A i \in Completed : Goods[i] \in Nat
    BY RowsAre
  <2>2. ASSUME NEW p \in sellers PROVE revenueOf[p] \in Nat
    <3>1. Sold(p) \subseteq Completed
      BY DEF Sold
    <3>2. SumFunctionOnSet(Goods, Sold(p)) \in Nat
      BY <2>1, <3>1, SumNat, FS_Subset
    <3> QED
      BY <3>2
  <2> HIDE DEF revenueOf, sellers
  <2> QED
    BY <1>2, <2>1, <2>2 DEF AllInts
<1>8. SumFunctionOnSet(revenueOf, sellers) = GoodsSold
  <2> DEFINE plantOf == [i \in DOMAIN orders |-> orders[i].plant]
  <2>1. \A p \in sellers : Sold(p) = {i \in Completed : plantOf[i] = p}
    BY RowsAre DEF Sold
  <2>2. revenueOf = [p \in sellers |-> SumFunctionOnSet(Goods, {i \in Completed : plantOf[i] = p})]
    BY <2>1
  <2>3. \A i \in Completed : plantOf[i] \in sellers
    <3> SUFFICES ASSUME NEW i \in Completed PROVE plantOf[i] \in sellers
      OBVIOUS
    <3>1. i \in DOMAIN orders /\ orders[i].plant \in Plants
      BY RowsAre DEF OrderRow
    <3>2. i \in Sold(orders[i].plant)
      BY DEF Sold
    <3> QED
      BY <3>1, <3>2
  <2>4. SumFunctionOnSet([p \in sellers |-> SumFunctionOnSet(Goods, {i \in Completed : plantOf[i] = p})], sellers)
          = SumFunctionOnSet(Goods, Completed)
    <3> HIDE DEF plantOf, sellers
    <3> QED
      BY <1>2, <1>7, <2>3, SumGroups
  <2> HIDE DEF revenueOf, sellers, plantOf
  <2> QED
    BY <2>2, <2>4 DEF GoodsSold
<1>9. SumFunctionOnSet(revenue, set) = SumFunctionOnSet(revenueOf, sellers)
  <2>1. {sale[p] : p \in sellers} = set
    OBVIOUS
  <2>2. \A p, q \in sellers : sale[p] = sale[q] => p = q
    BY <1>6
  <2>3. \A p \in sellers : revenue[sale[p]] = revenueOf[p]
    BY <1>6
  <2> HIDE DEF revenue, revenueOf, sale, set, sellers
  <2>4. SumFunctionOnSet(revenue, {sale[p] : p \in sellers}) = SumFunctionOnSet(revenueOf, sellers)
    BY <1>7, <2>2, <2>3, SumRenamed
  <2> QED
    BY <2>1, <2>4
<1> DEFINE column == [i \in DOMAIN s |-> s[i].revenue]
<1>10. SumFunctionOnSet(column, DOMAIN s) = SumFunctionOnSet(revenue, set)
  <2>1. \A i \in DOMAIN s : s[i] \in set
    BY <1>4
  <2>2. \A i \in DOMAIN s : revenue[s[i]] = column[i]
    BY <2>1
  <2>3. AllInts(column, DOMAIN s)
    <3>1. IsFiniteSet(DOMAIN s)
      BY <1>4, FS_Interval
    <3>2. ASSUME NEW i \in DOMAIN s PROVE column[i] \in Int
      <4>1. PICK p \in sellers : s[i] = Sales(p)
        BY <2>1
      <4>2. column[i] = revenueOf[p]
        BY <1>6, <4>1
      <4> HIDE DEF column, revenueOf, sellers
      <4> QED
        BY <1>7, <4>2 DEF AllInts
    <3> HIDE DEF column
    <3> QED
      BY <3>1, <3>2 DEF AllInts
  <2> HIDE DEF column, revenue, set
  <2>4. SumFunctionOnSet(revenue, {s[i] : i \in DOMAIN s}) = SumFunctionOnSet(column, DOMAIN s)
    BY <1>4, <2>2, <2>3, SumRenamed
  <2> QED
    BY <1>4, <2>4
<1>11. [i \in DOMAIN top |-> top[i].revenue] = column /\ DOMAIN column = DOMAIN s
  BY <1>5
<1> HIDE DEF column
<1> QED
  BY <1>8, <1>9, <1>10, <1>11 DEF SumFunction

\* The newest orders are as many as there are, or as the list holds.
LEMMA RecentOrdersAre ==
    ASSUME OverviewAssumption, OverviewShape, NEW newest \in LoadRecentOrders
    PROVE  Len(newest) = Min({ListLimit, Len(orders)})
<1>1. PICK s \in SetToSeqs(DOMAIN orders) : newest = SubSeq(s, 1, Min({ListLimit, Len(s)}))
  BY DEF LoadRecentOrders, Best
<1>2. IsFiniteSet(DOMAIN orders) /\ Cardinality(DOMAIN orders) = Len(orders) /\ Len(orders) \in Nat
  BY RowsAre
<1>3. s \in Seq(DOMAIN orders) /\ Len(s) = Len(orders)
  BY <1>2, RankingIs
<1>4. Min({ListLimit, Len(s)}) = IF ListLimit <= Len(s) THEN ListLimit ELSE Len(s)
  <2>1. ListLimit \in Int /\ Len(s) \in Int
    BY <1>2, <1>3 DEF OverviewAssumption
  <2> QED
    BY <2>1, MinOfTwo
<1>5. Min({ListLimit, Len(s)}) \in 0 .. Len(s)
  BY <1>2, <1>3, <1>4 DEF OverviewAssumption
<1> HIDE DEF Min
<1> QED
  BY <1>1, <1>3, <1>5

----------------------------------------------------------------------------
(* Overview: what is kept of the figures *)

\* The chart, added up.
InAll(series) == [orders  |-> SumFunction([d \in DOMAIN series |-> series[d].orders]),
                  revenue |-> SumFunction([d \in DOMAIN series |-> series[d].revenue])]

SummaryKept ==
    Len(view) >= 1 =>
        /\ view[1].orders \in Nat /\ view[1].orders <= Len(orders)
        /\ view[1].revenue \in Nat
        /\ Len(view) < 3 => view[1].revenue <= RevenueOnce(DOMAIN orders)

SalesKept ==
    Len(view) >= 2 =>
        /\ Covers(view[2].today, view[2].month)
        /\ \A period \in {view[2].today, view[2].month} : period.orders \in Nat /\ period.revenue \in Nat
        /\ Len(view) < 4 => /\ Covers(view[2].today, PeriodOnce(DayOrders))
                            /\ Covers(view[2].month, PeriodOnce(MonthOrders))

StatusKept ==
    Len(view) >= 3 =>
        /\ view[3]["completed"] \in Nat
        /\ view[1].orders <= SumFunction(view[3])
        /\ view[1].revenue <= GoodsOnce + Fee * view[3]["completed"] + Fee * Cardinality(undone)

SeriesKept ==
    Len(view) >= 4 /\ Today = today =>
        /\ CoversBut(view[2].today, view[4][today], Missing)
        /\ CoversBut(view[2].month, InAll(view[4]), Missing)
        /\ \A chart \in {view[4][today], InAll(view[4])} : chart.revenue \in Nat

TopKept ==
    Len(view) >= 5 /\ (Len(view[5]) < ListLimit \/ Cardinality(Plants) <= ListLimit) =>
        /\ SumFunction([i \in DOMAIN view[5] |-> view[5][i].revenue]) \in Nat
        /\ view[1].revenue <= SumFunction([i \in DOMAIN view[5] |-> view[5][i].revenue])
                               + Fee * view[3]["completed"] + Missing

NewestKept == Len(view) >= 7 => Len(view[7]) >= Min({ListLimit, view[1].orders})

FiguresKept == SummaryKept /\ SalesKept /\ StatusKept /\ SeriesKept /\ TopKept /\ NewestKept

OverviewInv == OverviewShape /\ FiguresKept

\* Once all are read, these are the property.
LEMMA KeptCover == OverviewInv => LaterFiguresCover
<1> SUFFICES ASSUME OverviewInv, Len(view) = 7 PROVE LaterFiguresCover
  BY DEF LaterFiguresCover
<1>1. FiguresKept
  BY DEF OverviewInv
<1>2. view[1].orders <= SumFunction(view[3]) /\ Covers(view[2].today, view[2].month)
  BY <1>1 DEF FiguresKept, StatusKept, SalesKept
<1>3. Len(view[5]) < ListLimit \/ Cardinality(Plants) <= ListLimit =>
        view[1].revenue <= SumFunction([i \in DOMAIN view[5] |-> view[5][i].revenue])
                             + Fee * view[3]["completed"] + Missing
  BY <1>1 DEF FiguresKept, TopKept
<1>4. Today = today => /\ CoversBut(view[2].today, view[4][today], Missing)
                       /\ CoversBut(view[2].month, InAll(view[4]), Missing)
  BY <1>1 DEF FiguresKept, SeriesKept
<1>5. Len(view[7]) >= Min({ListLimit, view[1].orders})
  BY <1>1 DEF FiguresKept, NewestKept
<1>6. view[2].today.revenue <= view[2].month.revenue + 0
  BY <1>1, <1>2 DEF FiguresKept, SalesKept, Covers
<1> QED
  BY <1>2, <1>3, <1>4, <1>5, <1>6 DEF LaterFiguresCover, Covers, CoversBut, InAll

\* Orders are added and moved; what leaves `completed` is noted; time goes by.
Grows ==
    /\ DOMAIN orders \subseteq DOMAIN orders' /\ Len(orders) <= Len(orders')
    /\ \A i \in DOMAIN orders :
          /\ orders'[i].plant = orders[i].plant /\ orders'[i].qty = orders[i].qty /\ orders'[i].at = orders[i].at
          /\ orders[i].status = "completed" => orders'[i].status = "completed" \/ i \in undone'
    /\ undone \subseteq undone'
    /\ clock <= clock'

RowFacts ==
    /\ IsFiniteSet(DOMAIN orders) /\ Len(orders) \in Nat
    /\ \A i \in DOMAIN orders : Goods[i] \in Nat /\ Totals[i] \in Nat
    /\ \A A : A \subseteq DOMAIN orders => IsFiniteSet(A) /\ Cardinality(A) \in Nat
    /\ Once \subseteq DOMAIN orders /\ undone \subseteq DOMAIN orders

\* The facts about rows, of a step's end.
LEMMA RowsThen == OverviewAssumption /\ OverviewShape' => RowFacts'
<1>1. OverviewAssumption /\ OverviewShape => RowFacts
  BY RowsAre, OnceIs DEF RowFacts, OverviewShape
<1>2. OverviewAssumption => OverviewAssumption'
  BY DEF OverviewAssumption
<1> QED
  BY <1>1, <1>2, PTL

\* What grows keeps what has been counted.
LEMMA SumsGrow ==
    ASSUME OverviewAssumption, OverviewShape, OverviewShape', Grows
    PROVE  /\ GoodsOnce <= GoodsOnce' /\ GoodsOnce \in Nat /\ GoodsOnce' \in Nat
           /\ Missing <= Missing' /\ Missing \in Nat /\ Missing' \in Nat
           /\ Cardinality(undone) <= Cardinality(undone') /\ Cardinality(undone) \in Nat /\ Cardinality(undone') \in Nat
           /\ \A A, B : A \subseteq B /\ A \subseteq DOMAIN orders /\ B \subseteq DOMAIN orders' =>
                 /\ Cardinality(A) \in Nat /\ Cardinality(B) \in Nat /\ Cardinality(A) <= Cardinality(B)
                 /\ RevenueOnce(A) \in Nat /\ RevenueOnce(B)' \in Nat /\ RevenueOnce(A) <= RevenueOnce(B)'
<1>1. /\ \A i \in DOMAIN orders' : Goods'[i] \in Nat /\ Totals'[i] \in Nat
      /\ \A A : A \subseteq DOMAIN orders' => IsFiniteSet(A) /\ Cardinality(A) \in Nat
      /\ Once' \subseteq DOMAIN orders' /\ undone' \subseteq DOMAIN orders'
  BY RowsThen DEF RowFacts
<1>2. \A i \in DOMAIN orders : Goods[i] = Goods'[i] /\ Totals[i] = Totals'[i]
  BY DEF Grows, Goods, Totals
<1>3. Once \subseteq Once' /\ Once \subseteq DOMAIN orders /\ undone \subseteq undone' /\ undone \subseteq DOMAIN orders
  <2>1. Once \subseteq DOMAIN orders /\ undone \subseteq DOMAIN orders
    BY OnceIs DEF OverviewShape
  <2> QED
    BY <2>1 DEF Once, Completed, WithStatus, Grows
<1>4. GoodsOnce <= GoodsOnce' /\ GoodsOnce \in Nat /\ GoodsOnce' \in Nat
  <2>1. /\ IsFiniteSet(Once') /\ \A i \in Once : Goods[i] = Goods'[i]
        /\ \A i \in Once' : Goods'[i] \in Nat
    BY <1>1, <1>2, <1>3
  <2>2. /\ SumFunctionOnSet(Goods, Once) \in Nat /\ SumFunctionOnSet(Goods', Once') \in Nat
        /\ SumFunctionOnSet(Goods, Once) <= SumFunctionOnSet(Goods', Once')
    BY <1>3, <2>1, GrownSum
  <2> QED
    BY <2>2 DEF GoodsOnce
<1>5. Missing <= Missing' /\ Missing \in Nat /\ Missing' \in Nat
  <2>1. /\ IsFiniteSet(undone') /\ \A i \in undone : Totals[i] = Totals'[i]
        /\ \A i \in undone' : Totals'[i] \in Nat
    BY <1>1, <1>2, <1>3
  <2>2. /\ SumFunctionOnSet(Totals, undone) \in Nat /\ SumFunctionOnSet(Totals', undone') \in Nat
        /\ SumFunctionOnSet(Totals, undone) <= SumFunctionOnSet(Totals', undone')
    BY <1>3, <2>1, GrownSum
  <2> QED
    BY <2>2 DEF Missing
<1>6. Cardinality(undone) <= Cardinality(undone') /\ Cardinality(undone) \in Nat /\ Cardinality(undone') \in Nat
  BY <1>1, <1>3, FS_Subset
<1>7. ASSUME NEW A, NEW B, A \subseteq B, A \subseteq DOMAIN orders, B \subseteq DOMAIN orders'
      PROVE  /\ Cardinality(A) \in Nat /\ Cardinality(B) \in Nat /\ Cardinality(A) <= Cardinality(B)
             /\ RevenueOnce(A) \in Nat /\ RevenueOnce(B)' \in Nat /\ RevenueOnce(A) <= RevenueOnce(B)'
  <2>1. /\ Cardinality(A) \in Nat /\ Cardinality(B) \in Nat /\ Cardinality(A) <= Cardinality(B)
    BY <1>1, <1>7, FS_Subset
  <2>2. /\ IsFiniteSet(B \cap Once') /\ A \cap Once \subseteq B \cap Once'
        /\ \A i \in A \cap Once : Totals[i] = Totals'[i]
        /\ \A i \in B \cap Once' : Totals'[i] \in Nat
    BY <1>1, <1>2, <1>3, <1>7
  <2>3. /\ SumFunctionOnSet(Totals, A \cap Once) \in Nat
        /\ SumFunctionOnSet(Totals', B \cap Once') \in Nat
        /\ SumFunctionOnSet(Totals, A \cap Once) <= SumFunctionOnSet(Totals', B \cap Once')
    BY <2>2, GrownSum
  <2> QED
    BY <2>1, <2>3 DEF RevenueOnce
<1> QED
  BY <1>4, <1>5, <1>6, <1>7

\* The day only goes forward.
LEMMA DaysPass ==
    ASSUME OverviewAssumption, NEW t \in Nat, NEW u \in Nat, t <= u
    PROVE  UtcDay(t) \in Nat /\ UtcDay(u) \in Nat /\ UtcDay(t) <= UtcDay(u)
<1>1. UtcDay(t) \in Nat /\ UtcDay(u) \in Nat
  BY DayOf
<1>2. StartOfDay(UtcDay(t)) <= t
  BY <1>1, DayOf
<1>3. StartOfDay(UtcDay(t)) \in Nat
  <2>1. \A a, b \in Nat : a * b \in Nat
    OBVIOUS
  <2> QED
    BY <1>1, <2>1 DEF StartOfDay, OverviewAssumption
<1>4. StartOfDay(UtcDay(t)) <= u
  BY <1>2, <1>3
<1> QED
  BY <1>1, <1>4, DayOf

\* What covers what covers, covers.
LEMMA CoversAlong ==
    ASSUME NEW a, NEW b, NEW c, Covers(a, b), Covers(b, c),
           \A p \in {a, b, c} : p.orders \in Nat /\ p.revenue \in Nat
    PROVE  Covers(a, c)
  BY DEF Covers

\* What covers all but a part, covers all but that part of what it covers.
LEMMA LackingAlong ==
    ASSUME NEW a, NEW b, NEW c, NEW d, NEW less \in Nat, Covers(a, b), CoversBut(b, c, less), Covers(c, d),
           \A p \in {a, b, c, d} : p.orders \in Nat /\ p.revenue \in Nat
    PROVE  CoversBut(a, d, less)
  BY DEF Covers, CoversBut

\* What lacks no more than less of it, lacks no more than more.
LEMMA LackingMore ==
    ASSUME NEW a, NEW b, NEW less \in Nat, NEW more \in Nat, less <= more, CoversBut(a, b, less),
           a.revenue \in Nat, b.revenue \in Nat
    PROVE  CoversBut(a, b, more)
  BY DEF CoversBut

\* A bound whose parts grow.
LEMMA BoundGrows ==
    ASSUME NEW r \in Nat, NEW a \in Nat, NEW b \in Nat, NEW f \in Nat, NEW c \in Nat, NEW d \in Nat,
           a <= b, c <= d, r <= a + f + c
    PROVE  r <= b + f + d
  OBVIOUS

\* What grows stays as large when it is multiplied.
LEMMA FeesGrow ==
    ASSUME OverviewAssumption, NEW m \in Nat, NEW n \in Nat, m <= n
    PROVE  Fee * m \in Nat /\ Fee * n \in Nat /\ Fee * m <= Fee * n
<1>1. \A k \in Nat : Fee * k \in Nat
  <2>1. \A a, b \in Nat : a * b \in Nat
    OBVIOUS
  <2> QED
    BY <2>1 DEF OverviewAssumption
<1>2. CASE Fee = 0
  <2>1. \A k \in Nat : 0 * k = 0
    OBVIOUS
  <2> QED
    BY <1>1, <1>2, <2>1
<1>3. CASE Fee # 0
  <2>1. Fee \in Nat \ {0}
    BY <1>3 DEF OverviewAssumption
  <2>2. m * Fee <= n * Fee
    BY <2>1, Scaled
  <2>3. \A a, b \in Nat : a * b = b * a
    OBVIOUS
  <2> QED
    BY <1>1, <2>1, <2>2, <2>3
<1> QED
  BY <1>2, <1>3

\* Fees are naturals.
LEMMA FeesAre == ASSUME OverviewAssumption, NEW m \in Nat PROVE Fee * m \in Nat
<1>1. \A a, b \in Nat : a * b \in Nat
  OBVIOUS
<1> QED
  BY <1>1 DEF OverviewAssumption

\* What happens meanwhile keeps the figures.
LEMMA GrowthKeeps ==
    ASSUME OverviewAssumption, OverviewInv, OverviewShape', Grows, UNCHANGED <<today, view>>
    PROVE  FiguresKept'
<1>0. OverviewShape /\ FiguresKept
  BY DEF OverviewInv
<1>1. /\ GoodsOnce <= GoodsOnce' /\ GoodsOnce \in Nat /\ GoodsOnce' \in Nat
      /\ Missing <= Missing' /\ Missing \in Nat /\ Missing' \in Nat
      /\ Cardinality(undone) <= Cardinality(undone') /\ Cardinality(undone) \in Nat /\ Cardinality(undone') \in Nat
  BY <1>0, SumsGrow
<1>2. \A A, B : A \subseteq B /\ A \subseteq DOMAIN orders /\ B \subseteq DOMAIN orders' =>
                 /\ Cardinality(A) \in Nat /\ Cardinality(B) \in Nat /\ Cardinality(A) <= Cardinality(B)
                 /\ RevenueOnce(A) \in Nat /\ RevenueOnce(B)' \in Nat /\ RevenueOnce(A) <= RevenueOnce(B)'
  BY <1>0, SumsGrow
<1>3. Len(orders) \in Nat /\ Len(orders') \in Nat /\ Len(orders) <= Len(orders')
  BY <1>0 DEF OverviewShape, Grows
<1>4. DOMAIN orders \subseteq DOMAIN orders'
  BY DEF Grows
<1>5. SummaryKept'
  <2> SUFFICES ASSUME Len(view) >= 1
               PROVE  /\ view[1].orders \in Nat /\ view[1].orders <= Len(orders')
                      /\ view[1].revenue \in Nat
                      /\ Len(view) < 3 => view[1].revenue <= RevenueOnce(DOMAIN orders)'
    BY DEF SummaryKept
  <2>1. /\ view[1].orders \in Nat /\ view[1].orders <= Len(orders)
        /\ view[1].revenue \in Nat
        /\ Len(view) < 3 => view[1].revenue <= RevenueOnce(DOMAIN orders)
    BY <1>0 DEF FiguresKept, SummaryKept
  <2>2. PICK all : all = DOMAIN orders'
    OBVIOUS
  <2>3. /\ RevenueOnce(DOMAIN orders) \in Nat /\ RevenueOnce(all)' \in Nat
        /\ RevenueOnce(DOMAIN orders) <= RevenueOnce(all)'
    BY <1>2, <1>4, <2>2
  <2>4. RevenueOnce(all)' = RevenueOnce(DOMAIN orders)'
    BY <2>2 DEF RevenueOnce
  <2> QED
    BY <1>3, <2>1, <2>3, <2>4
<1>6. SalesKept'
  <2> SUFFICES ASSUME Len(view) >= 2
               PROVE  /\ Covers(view[2].today, view[2].month)
                      /\ \A period \in {view[2].today, view[2].month} : period.orders \in Nat /\ period.revenue \in Nat
                      /\ Len(view) < 4 => /\ Covers(view[2].today, PeriodOnce(DayOrders)')
                                          /\ Covers(view[2].month, PeriodOnce(MonthOrders)')
    BY DEF SalesKept, Covers
  <2>1. /\ Covers(view[2].today, view[2].month)
        /\ \A period \in {view[2].today, view[2].month} : period.orders \in Nat /\ period.revenue \in Nat
        /\ Len(view) < 4 => /\ Covers(view[2].today, PeriodOnce(DayOrders))
                            /\ Covers(view[2].month, PeriodOnce(MonthOrders))
    BY <1>0 DEF FiguresKept, SalesKept
  <2>2. /\ DayOrders \subseteq DayOrders' /\ DayOrders \subseteq DOMAIN orders /\ DayOrders' \subseteq DOMAIN orders'
        /\ MonthOrders \subseteq MonthOrders' /\ MonthOrders \subseteq DOMAIN orders /\ MonthOrders' \subseteq DOMAIN orders'
    BY DEF DayOrders, MonthOrders, CreatedIn, Grows
  <2>3. /\ PeriodOnce(DayOrders).orders \in Nat /\ PeriodOnce(DayOrders)'.orders \in Nat
        /\ PeriodOnce(DayOrders).revenue \in Nat /\ PeriodOnce(DayOrders)'.revenue \in Nat
        /\ Covers(PeriodOnce(DayOrders), PeriodOnce(DayOrders)')
    BY <1>2, <2>2 DEF PeriodOnce, Covers
  <2>4. /\ PeriodOnce(MonthOrders).orders \in Nat /\ PeriodOnce(MonthOrders)'.orders \in Nat
        /\ PeriodOnce(MonthOrders).revenue \in Nat /\ PeriodOnce(MonthOrders)'.revenue \in Nat
        /\ Covers(PeriodOnce(MonthOrders), PeriodOnce(MonthOrders)')
    BY <1>2, <2>2 DEF PeriodOnce, Covers
  <2>5. PICK day, month : day = PeriodOnce(DayOrders)' /\ month = PeriodOnce(MonthOrders)'
    OBVIOUS
  <2>6. Len(view) < 4 => Covers(view[2].today, day)
    BY <2>1, <2>3, <2>5, CoversAlong
  <2>7. Len(view) < 4 => Covers(view[2].month, month)
    BY <2>1, <2>4, <2>5, CoversAlong
  <2> QED
    BY <2>1, <2>5, <2>6, <2>7
<1>7. StatusKept'
  <2> SUFFICES ASSUME Len(view) >= 3
               PROVE  /\ view[3]["completed"] \in Nat
                      /\ view[1].orders <= SumFunction(view[3])
                      /\ view[1].revenue <= GoodsOnce' + Fee * view[3]["completed"] + Fee * Cardinality(undone')
    BY DEF StatusKept
  <2>1. /\ view[3]["completed"] \in Nat
        /\ view[1].orders <= SumFunction(view[3])
        /\ view[1].revenue <= GoodsOnce + Fee * view[3]["completed"] + Fee * Cardinality(undone)
        /\ view[1].revenue \in Nat
    BY <1>0 DEF FiguresKept, StatusKept, SummaryKept, OverviewShape
  <2>2. Fee * view[3]["completed"] \in Nat
    BY <2>1, FeesAre
  <2>3. /\ Fee * Cardinality(undone) \in Nat /\ Fee * Cardinality(undone') \in Nat
        /\ Fee * Cardinality(undone) <= Fee * Cardinality(undone')
    BY <1>1, FeesGrow
  <2> QED
    BY <1>1, <2>1, <2>2, <2>3, BoundGrows
<1>8. SeriesKept'
  <2>1. ASSUME Len(view) >= 4, Today' = today PROVE Today = today
    <3>1. Today = UtcDay(clock) /\ Today' = UtcDay(clock') /\ clock \in Nat /\ clock' \in Nat /\ clock <= clock'
      <4>1. clock \in 0 .. OverviewTime /\ clock' \in 0 .. OverviewTime /\ OverviewTime \in Nat
        BY <1>0 DEF OverviewShape, OverviewAssumption
      <4> QED
        BY <4>1 DEF Today, UtcDay, Grows
    <3>2. today \in 0 .. Today
      BY <1>0, <2>1 DEF OverviewShape
    <3>3. Today \in Nat /\ Today' \in Nat /\ Today <= Today'
      BY <3>1, DaysPass
    <3> QED
      BY <2>1, <3>2, <3>3
  <2> SUFFICES ASSUME Len(view) >= 4, Today' = today
               PROVE  /\ CoversBut(view[2].today, view[4][today], Missing')
                      /\ CoversBut(view[2].month, InAll(view[4]), Missing')
                      /\ \A chart \in {view[4][today], InAll(view[4])} : chart.revenue \in Nat
    BY DEF SeriesKept, CoversBut, InAll
  <2>2. /\ CoversBut(view[2].today, view[4][today], Missing)
        /\ CoversBut(view[2].month, InAll(view[4]), Missing)
        /\ \A chart \in {view[4][today], InAll(view[4])} : chart.revenue \in Nat
    BY <1>0, <2>1 DEF FiguresKept, SeriesKept
  <2>3. \A period \in {view[2].today, view[2].month} : period.orders \in Nat /\ period.revenue \in Nat
    BY <1>0 DEF FiguresKept, SalesKept, OverviewShape
  <2>4. PICK day, inAll, more : day = view[4][today] /\ inAll = InAll(view[4]) /\ more = Missing'
    OBVIOUS
  <2>5. CoversBut(view[2].today, day, more) /\ CoversBut(view[2].month, inAll, more)
    BY <1>1, <2>2, <2>3, <2>4, LackingMore
  <2> QED
    BY <2>2, <2>4, <2>5
<1>9. TopKept'
  <2> SUFFICES ASSUME Len(view) >= 5, Len(view[5]) < ListLimit \/ Cardinality(Plants) <= ListLimit
               PROVE  /\ SumFunction([i \in DOMAIN view[5] |-> view[5][i].revenue]) \in Nat
                      /\ view[1].revenue <= SumFunction([i \in DOMAIN view[5] |-> view[5][i].revenue])
                                             + Fee * view[3]["completed"] + Missing'
    BY DEF TopKept
  <2>1. /\ SumFunction([i \in DOMAIN view[5] |-> view[5][i].revenue]) \in Nat
        /\ view[1].revenue <= SumFunction([i \in DOMAIN view[5] |-> view[5][i].revenue])
                               + Fee * view[3]["completed"] + Missing
    BY <1>0 DEF FiguresKept, TopKept
  <2>2. view[3]["completed"] \in Nat /\ view[1].revenue \in Nat
    BY <1>0 DEF FiguresKept, StatusKept, SummaryKept, OverviewShape
  <2>3. Fee * view[3]["completed"] \in Nat
    BY <2>2, FeesAre
  <2>4. PICK sold : sold = SumFunction([i \in DOMAIN view[5] |-> view[5][i].revenue])
    OBVIOUS
  <2>5. sold <= sold
    BY <2>1, <2>4
  <2>6. view[1].revenue <= sold + Fee * view[3]["completed"] + Missing'
    BY <1>1, <2>1, <2>2, <2>3, <2>4, <2>5, BoundGrows
  <2> QED
    BY <2>1, <2>4, <2>6
<1>10. NewestKept'
  BY <1>0 DEF FiguresKept, NewestKept
<1> QED
  BY <1>5, <1>6, <1>7, <1>8, <1>9, <1>10 DEF FiguresKept

\* A statement adds its figures to the ones before it.
LEMMA ReadKeeps ==
    ASSUME OverviewAssumption, OverviewInv, NextStatement
    PROVE  OverviewInv'
<1>0. OverviewShape /\ FiguresKept /\ today # None /\ Len(view) \in 0 .. 7 /\ Len(view) < 7
      /\ UNCHANGED <<orders, plants, clock, today, asked, events, undone>>
  BY DEF OverviewInv, OverviewShape, NextStatement
<1>1. PICK figures \in Statement(Len(view) + 1) : view' = Append(view, figures)
  BY DEF NextStatement
<1> DEFINE n == Len(view) + 1
<1>2. /\ Len(view') = n /\ n \in 1 .. 7 /\ view'[n] = figures /\ \E S : view' \in Seq(S)
      /\ \A k \in 1 .. n - 1 : view'[k] = view[k]
  <2>1. PICK S : view \in Seq(S)
    BY <1>0 DEF OverviewShape
  <2>2. view \in Seq(S \cup {figures}) /\ view' \in Seq(S \cup {figures})
    BY <1>1, <2>1
  <2> QED
    BY <1>0, <1>1, <2>2
<1>3. today \in Nat /\ clock \in Nat
  BY <1>0 DEF OverviewShape, OverviewAssumption, Today
<1>4. /\ GoodsOnce' = GoodsOnce /\ Missing' = Missing /\ Today' = Today
      /\ RevenueOnce(DOMAIN orders)' = RevenueOnce(DOMAIN orders)
      /\ PeriodOnce(DayOrders)' = PeriodOnce(DayOrders) /\ PeriodOnce(MonthOrders)' = PeriodOnce(MonthOrders)
  BY <1>0 DEF GoodsOnce, Missing, Goods, Totals, Once, Completed, WithStatus, Today, PeriodOnce, RevenueOnce,
              DayOrders, MonthOrders, CreatedIn
<1>5. OverviewShape'
  BY <1>0, <1>2, <1>4 DEF OverviewShape
<1>6. SummaryKept'
  <2>1. CASE n = 1
    <3>1. figures = LoadSummary
      BY <2>1 DEF Statement
    <3>2. figures.orders = Len(orders) /\ Len(orders) \in Nat /\ figures.revenue = Period(DOMAIN orders).revenue
      BY <1>0, <3>1, RowsAre DEF LoadSummary, Period
    <3>3. Period(DOMAIN orders).revenue \in Nat /\ Period(DOMAIN orders).revenue <= RevenueOnce(DOMAIN orders)
      <4>1. Covers(Period(DOMAIN orders), PeriodOnce(DOMAIN orders))
        BY <1>0, PeriodOnceIs
      <4> QED
        BY <1>0, <4>1, PeriodIs DEF Covers, PeriodOnce
    <3> QED
      BY <1>0, <1>2, <1>4, <2>1, <3>2, <3>3 DEF SummaryKept
  <2>2. CASE n > 1
    <3>1. view'[1] = view[1]
      BY <1>2, <2>2
    <3> QED
      BY <1>0, <1>2, <1>4, <2>2, <3>1 DEF FiguresKept, SummaryKept
  <2> QED
    BY <1>2, <2>1, <2>2
<1>7. SalesKept'
  <2>1. CASE n = 2
    <3>1. figures = LoadSales
      BY <2>1 DEF Statement
    <3>2. figures.today = Period(DayOrders) /\ figures.month = Period(MonthOrders)
      BY <3>1 DEF LoadSales, DayOrders, MonthOrders
    <3>3. DayOrders \subseteq MonthOrders /\ MonthOrders \subseteq DOMAIN orders
      BY <1>0, <1>3, DayInMonth
    <3>4. /\ Covers(Period(DayOrders), Period(MonthOrders))
          /\ Period(DayOrders).orders \in Nat /\ Period(DayOrders).revenue \in Nat
          /\ Period(MonthOrders).orders \in Nat /\ Period(MonthOrders).revenue \in Nat
      BY <1>0, <3>3, PeriodIs
    <3>5. Covers(Period(DayOrders), PeriodOnce(DayOrders)) /\ Covers(Period(MonthOrders), PeriodOnce(MonthOrders))
      BY <1>0, <3>3, PeriodOnceIs
    <3>6. view'[2].today = Period(DayOrders) /\ view'[2].month = Period(MonthOrders)
      BY <1>2, <2>1, <3>2
    <3> QED
      BY <1>4, <3>4, <3>5, <3>6 DEF SalesKept, Covers
  <2>2. CASE n > 2
    <3>1. view'[2] = view[2]
      BY <1>2, <2>2
    <3> QED
      BY <1>0, <1>2, <1>4, <2>2, <3>1 DEF FiguresKept, SalesKept, Covers
  <2>3. CASE n < 2
    BY <1>2, <2>3 DEF SalesKept
  <2> QED
    BY <1>2, <2>1, <2>2, <2>3
<1>8. StatusKept'
  <2>1. CASE n = 3
    <3>1. figures = LoadOrdersByStatus
      BY <2>1 DEF Statement
    <3>2. figures["completed"] = Cardinality(Completed) /\ Cardinality(Completed) \in Nat
      <4>1. "completed" \in OrderStatuses
        BY DEF OrderStatuses
      <4> QED
        BY <1>0, <3>1, <4>1, OnceIs DEF LoadOrdersByStatus, Completed
    <3>3. SumFunction(figures) = Len(orders)
      BY <1>0, <3>1, StatusesAddUp
    <3>4. view[1].orders <= Len(orders) /\ view[1].revenue \in Nat /\ view[1].revenue <= RevenueOnce(DOMAIN orders)
      BY <1>0, <2>1 DEF FiguresKept, SummaryKept
    <3>5. RevenueOnce(DOMAIN orders) = GoodsOnce + Fee * Cardinality(Once) /\ GoodsOnce \in Nat
      <4>1. Once \subseteq DOMAIN orders /\ DOMAIN orders \cap Once = Once
        BY <1>0, OnceIs
      <4> QED
        BY <1>0, <4>1, TotalsOf DEF RevenueOnce, GoodsOnce
    <3>6. Fee * Cardinality(Once) \in Nat /\ Fee * (Cardinality(Completed) + Cardinality(undone)) \in Nat
          /\ Fee * Cardinality(Once) <= Fee * (Cardinality(Completed) + Cardinality(undone))
      <4>1. Cardinality(Once) \in Nat /\ Cardinality(Completed) + Cardinality(undone) \in Nat
            /\ Cardinality(Once) <= Cardinality(Completed) + Cardinality(undone)
        BY <1>0, OnceIs
      <4> QED
        BY <4>1, FeesGrow
    <3>7. /\ Fee * (Cardinality(Completed) + Cardinality(undone)) = Fee * Cardinality(Completed) + Fee * Cardinality(undone)
          /\ Fee * Cardinality(Completed) \in Nat /\ Fee * Cardinality(undone) \in Nat
      <4>1. \A a, b, c \in Nat : a * (b + c) = a * b + a * c /\ a * b \in Nat /\ a * c \in Nat
        OBVIOUS
      <4>2. Fee \in Nat /\ Cardinality(Completed) \in Nat /\ Cardinality(undone) \in Nat
        BY <1>0, OnceIs DEF OverviewAssumption
      <4> QED
        BY <4>1, <4>2
    <3>8. view[1].revenue <= GoodsOnce + Fee * figures["completed"] + Fee * Cardinality(undone)
      BY <3>2, <3>4, <3>5, <3>6, <3>7
    <3>9. view'[1] = view[1] /\ view'[3] = figures
      BY <1>2, <2>1
    <3> QED
      BY <1>0, <1>4, <3>2, <3>3, <3>4, <3>8, <3>9 DEF StatusKept
  <2>2. CASE n > 3
    <3>1. view'[1] = view[1] /\ view'[3] = view[3]
      BY <1>2, <2>2
    <3> QED
      BY <1>0, <1>2, <1>4, <2>2, <3>1 DEF FiguresKept, StatusKept
  <2>3. CASE n < 3
    BY <1>2, <2>3 DEF StatusKept
  <2> QED
    BY <1>2, <2>1, <2>2, <2>3
<1>9. SeriesKept'
  <2>1. CASE n = 4
    <3>1. figures = LoadRevenueByDay
      BY <2>1 DEF Statement
    <3> SUFFICES ASSUME Today = today
                 PROVE  /\ CoversBut(view[2].today, figures[today], Missing)
                        /\ CoversBut(view[2].month, InAll(figures), Missing)
                        /\ \A chart \in {figures[today], InAll(figures)} : chart.revenue \in Nat
      <4>1. view'[2] = view[2] /\ view'[4] = figures
        BY <1>2, <2>1
      <4> QED
        BY <1>0, <1>4, <4>1 DEF SeriesKept, CoversBut, InAll
    <3>2. /\ Covers(view[2].today, PeriodOnce(DayOrders)) /\ Covers(view[2].month, PeriodOnce(MonthOrders))
          /\ \A period \in {view[2].today, view[2].month} : period.orders \in Nat /\ period.revenue \in Nat
      BY <1>0, <2>1 DEF FiguresKept, SalesKept
    <3>3. /\ Covers(Period(DayOrders), figures[today])
          /\ figures[today].orders \in Nat /\ figures[today].revenue \in Nat
          /\ InAll(figures).orders = Period(ThisMonth).orders /\ InAll(figures).revenue = Period(ThisMonth).revenue
      BY <1>0, <1>3, <3>1, ChartAddsUp DEF InAll
    <3>4. DayOrders \subseteq MonthOrders /\ MonthOrders \subseteq DOMAIN orders /\ MonthOrders \subseteq ThisMonth
          /\ ThisMonth \subseteq DOMAIN orders
      BY <1>0, <1>3, DayInMonth DEF ThisMonth, CreatedIn
    <3>5. /\ Covers(Period(MonthOrders), Period(ThisMonth))
          /\ Period(DayOrders).orders \in Nat /\ Period(DayOrders).revenue \in Nat
          /\ Period(MonthOrders).orders \in Nat /\ Period(MonthOrders).revenue \in Nat
          /\ Period(ThisMonth).orders \in Nat /\ Period(ThisMonth).revenue \in Nat
      BY <1>0, <3>4, PeriodIs
    <3>6. /\ CoversBut(PeriodOnce(DayOrders), Period(DayOrders), Missing)
          /\ CoversBut(PeriodOnce(MonthOrders), Period(MonthOrders), Missing)
          /\ PeriodOnce(DayOrders).orders \in Nat /\ PeriodOnce(DayOrders).revenue \in Nat
          /\ PeriodOnce(MonthOrders).orders \in Nat /\ PeriodOnce(MonthOrders).revenue \in Nat
          /\ Missing \in Nat
      <4>1. DayOrders \subseteq DOMAIN orders
        BY <3>4
      <4> QED
        BY <1>0, <3>4, <4>1, PeriodOnceIs, OnceIs
    <3>7. CoversBut(view[2].today, figures[today], Missing)
      BY <3>2, <3>3, <3>5, <3>6, LackingAlong
    <3>8. CoversBut(view[2].month, Period(ThisMonth), Missing)
      BY <3>2, <3>4, <3>5, <3>6, LackingAlong
    <3> QED
      BY <3>3, <3>5, <3>7, <3>8 DEF CoversBut
  <2>2. CASE n > 4
    <3>1. view'[2] = view[2] /\ view'[4] = view[4]
      BY <1>2, <2>2
    <3> QED
      BY <1>0, <1>2, <1>4, <2>2, <3>1 DEF FiguresKept, SeriesKept, CoversBut, InAll
  <2>3. CASE n < 4
    BY <1>2, <2>3 DEF SeriesKept
  <2> QED
    BY <1>2, <2>1, <2>2, <2>3
<1>10. TopKept'
  <2>1. CASE n = 5
    <3>1. figures \in LoadTopPlants
      BY <2>1 DEF Statement
    <3>2. view'[1] = view[1] /\ view'[3] = view[3] /\ view'[5] = figures
      BY <1>2, <2>1
    <3>3. /\ view[1].revenue <= GoodsOnce + Fee * view[3]["completed"] + Fee * Cardinality(undone)
          /\ view[1].revenue \in Nat /\ view[3]["completed"] \in Nat
      BY <1>0, <2>1 DEF FiguresKept, StatusKept, SummaryKept
    <3>4. Len(figures) < ListLimit \/ Cardinality(Plants) <= ListLimit =>
             SumFunction([i \in DOMAIN figures |-> figures[i].revenue]) = GoodsSold
      BY <1>0, <3>1, TopIsAll
    <3>5. /\ GoodsOnce \in Nat /\ GoodsSold \in Nat /\ SumFunctionOnSet(Goods, undone) \in Nat
          /\ GoodsOnce <= GoodsSold + SumFunctionOnSet(Goods, undone)
          /\ Missing = SumFunctionOnSet(Goods, undone) + Fee * Cardinality(undone) /\ Cardinality(undone) \in Nat
      BY <1>0, OnceIs
    <3>6. Fee * view[3]["completed"] \in Nat /\ Fee * Cardinality(undone) \in Nat
      BY <1>0, <3>3, <3>5, FeesAre
    <3>7. view[1].revenue <= GoodsSold + Fee * view[3]["completed"] + Missing
      <4>1. ASSUME NEW r \in Nat, NEW g \in Nat, NEW s \in Nat, NEW u \in Nat, NEW f \in Nat, NEW m \in Nat,
                   r <= g + f + m, g <= s + u
            PROVE  r <= s + f + (u + m)
        BY <4>1
      <4> QED
        BY <3>3, <3>5, <3>6, <4>1
    <3> QED
      BY <1>4, <3>2, <3>4, <3>5, <3>7 DEF TopKept
  <2>2. CASE n > 5
    <3>1. view'[1] = view[1] /\ view'[3] = view[3] /\ view'[5] = view[5]
      BY <1>2, <2>2
    <3> QED
      BY <1>0, <1>2, <1>4, <2>2, <3>1 DEF FiguresKept, TopKept
  <2>3. CASE n < 5
    BY <1>2, <2>3 DEF TopKept
  <2> QED
    BY <1>2, <2>1, <2>2, <2>3
<1>11. NewestKept'
  <2>1. CASE n = 7
    <3>1. figures \in LoadRecentOrders
      BY <2>1 DEF Statement
    <3>2. view'[1] = view[1] /\ view'[7] = figures
      BY <1>2, <2>1
    <3>3. Len(figures) = Min({ListLimit, Len(orders)})
      BY <1>0, <3>1, RecentOrdersAre
    <3>4. view[1].orders \in Nat /\ view[1].orders <= Len(orders) /\ Len(orders) \in Nat /\ ListLimit \in Nat
      BY <1>0, <2>1, RowsAre DEF FiguresKept, SummaryKept, OverviewAssumption
    <3>5. /\ Min({ListLimit, Len(orders)}) = IF ListLimit <= Len(orders) THEN ListLimit ELSE Len(orders)
          /\ Min({ListLimit, view[1].orders}) = IF ListLimit <= view[1].orders THEN ListLimit ELSE view[1].orders
      BY <3>4, MinOfTwo
    <3>6. Len(figures) >= Min({ListLimit, view[1].orders})
      BY <3>3, <3>4, <3>5
    <3> QED
      BY <3>2, <3>6 DEF NewestKept
  <2>2. CASE n < 7
    BY <1>2, <2>2 DEF NewestKept
  <2> QED
    BY <1>2, <2>1, <2>2
<1> QED
  BY <1>5, <1>6, <1>7, <1>8, <1>9, <1>10, <1>11 DEF OverviewInv, FiguresKept

\* Nothing has been read at first.
LEMMA InitOverviewInv == ASSUME OverviewAssumption, OverviewInit PROVE OverviewInv
<1>1. orders \in Seq(OrderRow) /\ \A i \in DOMAIN orders : orders[i].at = 0
  <2> DEFINE Early == [plant : Plants, qty : {MaxQty}, status : {"shipping"}, at : {0}]
  <2>1. orders \in Seq(Early)
    <3>1. orders \in BoundedSeq(Early, 2)
      BY DEF OverviewInit
    <3> HIDE DEF Early
    <3> QED
      <4>1. PICK m \in 0 .. 2 : orders \in [1 .. m -> Early]
        BY <3>1 DEF BoundedSeq, SeqOf
      <4>2. m \in Nat
        OBVIOUS
      <4> QED
        BY <4>1, <4>2
  <2>2. Early \subseteq OrderRow /\ \A r \in Early : r.at = 0
    <3>1. MaxQty \in 1 .. MaxQty /\ 0 \in 0 .. OverviewTime /\ "shipping" \in OrderStatuses
      BY DEF OverviewAssumption, OrderStatuses
    <3> QED
      BY <3>1 DEF OrderRow
  <2> HIDE DEF Early
  <2> QED
    BY <2>1, <2>2
<1>2. clock \in 0 .. OverviewTime /\ today = None /\ view = <<>> /\ clock \in Nat
  BY DEF OverviewInit, OverviewAssumption
<1>3. plants \in [Plants -> PlantRow]
  BY DEF OverviewInit, OverviewAssumption, PlantRow
<1>4. OverviewShape
  BY <1>1, <1>2, <1>3 DEF OverviewShape, OverviewInit
<1>5. FiguresKept
  BY <1>2 DEF FiguresKept, SummaryKept, SalesKept, StatusKept, SeriesKept, TopKept, NewestKept
<1> QED
  BY <1>4, <1>5 DEF OverviewInv

\* An order that is placed.
LEMMA PlaceKeeps ==
    ASSUME OverviewAssumption, OverviewInv, NEW p \in Plants, NEW qty \in 1 .. MaxQty, NEW at \in 0 .. clock,
           Place(p, qty, at)
    PROVE  OverviewInv'
<1> DEFINE row == [plant |-> p, qty |-> qty, status |-> "pending", at |-> at]
<1>0. /\ OverviewShape /\ plants[p].stock >= qty
      /\ orders' = Append(orders, row) /\ plants' = [plants EXCEPT ![p].stock = @ - qty]
      /\ UNCHANGED <<clock, today, view, asked, undone>>
  BY DEF OverviewInv, Place
<1>1. clock \in 0 .. OverviewTime /\ OverviewTime \in Nat
  BY <1>0 DEF OverviewShape, OverviewAssumption
<1>2. row \in OrderRow /\ row.at <= clock
  BY <1>1 DEF OrderRow, OrderStatuses
<1>3. /\ orders \in Seq(OrderRow) /\ orders' \in Seq(OrderRow) /\ Len(orders') = Len(orders) + 1 /\ Len(orders) \in Nat
      /\ \A i \in 1 .. Len(orders) : orders'[i] = orders[i]
      /\ orders'[Len(orders) + 1] = row
  <2> HIDE DEF row
  <2> QED
    BY <1>0, <1>2 DEF OverviewShape
<1>4. plants' \in [Plants -> PlantRow]
  <2>1. plants \in [Plants -> PlantRow] /\ qty \in Nat
    BY <1>0 DEF OverviewShape
  <2>2. plants[p].stock \in Nat /\ plants[p].stock - qty \in Nat
    BY <1>0, <2>1 DEF PlantRow
  <2> QED
    BY <1>0, <2>1, <2>2 DEF PlantRow
<1>5. \A i \in DOMAIN orders' : orders'[i].at <= clock
  <2> SUFFICES ASSUME NEW i \in DOMAIN orders' PROVE orders'[i].at <= clock
    OBVIOUS
  <2>1. CASE i \in 1 .. Len(orders)
    BY <1>0, <1>3, <2>1 DEF OverviewShape
  <2>2. CASE i = Len(orders) + 1
    BY <1>2, <1>3, <2>2
  <2> QED
    BY <1>3, <2>1, <2>2
<1> HIDE DEF row
<1>6. OverviewShape'
  <2>1. DOMAIN orders \subseteq DOMAIN orders'
    BY <1>3
  <2> QED
    BY <1>0, <1>3, <1>4, <1>5, <2>1 DEF OverviewShape, Today
<1>7. Grows
  BY <1>0, <1>1, <1>3 DEF Grows
<1>8. FiguresKept'
  BY <1>0, <1>6, <1>7, GrowthKeeps
<1> QED
  BY <1>6, <1>8 DEF OverviewInv

\* A request that decides on a status.
LEMMA ReadStatusKeeps ==
    ASSUME OverviewAssumption, OverviewInv, NEW c \in Clerks, NEW i \in DOMAIN orders, NEW s \in OrderStatuses,
           ReadStatus(c, i, s)
    PROVE  OverviewInv'
<1>0. /\ OverviewShape /\ asked' = [asked EXCEPT ![c] = [order |-> i, to |-> s]]
      /\ UNCHANGED <<orders, plants, clock, today, view, undone>>
  BY DEF OverviewInv, ReadStatus
<1>1. [order |-> i, to |-> s] \in Move
  BY <1>0, RowsAre DEF Move, OverviewShape
<1>2. /\ asked' \in [Clerks -> Move \cup {None}]
      /\ \A d \in Clerks : asked'[d] # None => asked'[d].order \in DOMAIN orders
  BY <1>0, <1>1 DEF OverviewShape
<1>3. OverviewShape'
  BY <1>0, <1>2 DEF OverviewShape, Today
<1>4. clock \in Nat
  BY <1>0 DEF OverviewShape, OverviewAssumption
<1>5. Grows
  BY <1>0, <1>4 DEF Grows, OverviewShape
<1>6. FiguresKept'
  BY <1>0, <1>3, <1>5, GrowthKeeps
<1> QED
  BY <1>3, <1>6 DEF OverviewInv

\* A request that ends without a write.
LEMMA RollBackKeeps ==
    ASSUME OverviewAssumption, OverviewInv, NEW c \in Clerks, RollBack(c)
    PROVE  OverviewInv'
<1>0. /\ OverviewShape /\ asked' = [asked EXCEPT ![c] = None]
      /\ UNCHANGED <<orders, plants, clock, today, view, undone>>
  BY DEF OverviewInv, RollBack
<1>1. /\ asked' \in [Clerks -> Move \cup {None}]
      /\ \A d \in Clerks : asked'[d] # None => asked'[d].order \in DOMAIN orders
  BY <1>0 DEF OverviewShape
<1>2. OverviewShape'
  BY <1>0, <1>1 DEF OverviewShape, Today
<1>3. clock \in Nat
  BY <1>0 DEF OverviewShape, OverviewAssumption
<1>4. Grows
  BY <1>0, <1>3 DEF Grows, OverviewShape
<1>5. FiguresKept'
  BY <1>0, <1>2, <1>4, GrowthKeeps
<1> QED
  BY <1>2, <1>5 DEF OverviewInv

\* A status that is written over whatever it has become.
LEMMA WriteStatusKeeps ==
    ASSUME OverviewAssumption, OverviewInv, NEW c \in Clerks, WriteStatus(c)
    PROVE  OverviewInv'
<1>1. PICK i, s : i = asked[c].order /\ s = asked[c].to
  OBVIOUS
<1>0. /\ OverviewShape /\ asked[c] # None
      /\ asked' = [asked EXCEPT ![c] = None]
      /\ orders' = [orders EXCEPT ![i].status = s]
      /\ plants' = IF s = "cancelled"
                   THEN [plants EXCEPT ![orders[i].plant].stock = @ + orders[i].qty] ELSE plants
      /\ undone' = IF orders[i].status = "completed" /\ s # "completed" THEN undone \cup {i} ELSE undone
      /\ UNCHANGED <<clock, today, view>>
  BY <1>1 DEF OverviewInv, WriteStatus
<1>2. /\ orders \in Seq(OrderRow) /\ Len(orders) \in Nat /\ DOMAIN orders = 1 .. Len(orders)
      /\ \A k \in DOMAIN orders : orders[k] \in OrderRow
      /\ i \in DOMAIN orders /\ s \in OrderStatuses
  BY <1>0, <1>1 DEF OverviewShape, Move
<1>3. /\ DOMAIN orders' = DOMAIN orders
      /\ \A k \in DOMAIN orders : k # i => orders'[k] = orders[k]
      /\ orders'[i] = [orders[i] EXCEPT !.status = s]
  BY <1>0, <1>2
<1>4. /\ orders'[i] \in OrderRow /\ orders'[i].plant = orders[i].plant /\ orders'[i].qty = orders[i].qty
      /\ orders'[i].at = orders[i].at /\ orders'[i].status = s
  BY <1>2, <1>3 DEF OrderRow
<1>5. orders' \in Seq(OrderRow) /\ Len(orders') = Len(orders)
  <2>1. orders' \in [1 .. Len(orders) -> OrderRow]
    BY <1>0, <1>2, <1>3, <1>4
  <2> QED
    BY <1>2, <2>1
<1>6. plants' \in [Plants -> PlantRow]
  <2>1. plants \in [Plants -> PlantRow] /\ orders[i].plant \in Plants /\ orders[i].qty \in Nat
    BY <1>0, <1>2 DEF OverviewShape, OrderRow
  <2>2. plants[orders[i].plant].stock + orders[i].qty \in Nat
    BY <2>1 DEF PlantRow
  <2> QED
    BY <1>0, <2>1, <2>2 DEF PlantRow
<1>7. \A k \in DOMAIN orders' : orders'[k].at <= clock
  BY <1>0, <1>3, <1>4 DEF OverviewShape
<1>8. /\ asked' \in [Clerks -> Move \cup {None}]
      /\ \A d \in Clerks : asked'[d] # None => asked'[d].order \in DOMAIN orders'
      /\ undone' \subseteq DOMAIN orders' /\ undone \subseteq undone'
  BY <1>0, <1>2, <1>3 DEF OverviewShape
<1>9. OverviewShape'
  BY <1>0, <1>5, <1>6, <1>7, <1>8 DEF OverviewShape, Today
<1>10. clock \in Nat
  BY <1>0 DEF OverviewShape, OverviewAssumption
<1>11. Grows
  <2>1. \A k \in DOMAIN orders : orders[k].status = "completed" => orders'[k].status = "completed" \/ k \in undone'
    BY <1>0, <1>3, <1>4
  <2> QED
    BY <1>0, <1>2, <1>3, <1>4, <1>5, <1>8, <1>10, <2>1 DEF Grows
<1>12. FiguresKept'
  BY <1>0, <1>9, <1>11, GrowthKeeps
<1> QED
  BY <1>9, <1>12 DEF OverviewInv

\* Every step keeps the invariant.
LEMMA OverviewStep ==
    ASSUME OverviewAssumption, OverviewInv, [OverviewNext]_overviewVars
    PROVE  OverviewInv'
<1>0. OverviewShape /\ FiguresKept
  BY DEF OverviewInv
<1>1. clock \in Nat /\ clock \in 0 .. OverviewTime /\ OverviewTime \in Nat /\ UtcDay(clock) = Today /\ Today \in Nat
  <2>1. clock \in Nat /\ clock \in 0 .. OverviewTime /\ OverviewTime \in Nat
    BY <1>0 DEF OverviewShape, OverviewAssumption
  <2> QED
    BY <2>1, DayOf DEF UtcDay, Today
<1>2. CASE BuildOverview
  <2>1. today = None /\ today' = Today /\ undone' = {} /\ UNCHANGED <<orders, plants, clock, view, asked>>
    BY <1>2 DEF BuildOverview
  <2>2. Len(view) = 0
    BY <1>0, <2>1 DEF OverviewShape
  <2>3. OverviewShape'
    BY <1>0, <1>1, <2>1, <2>2 DEF OverviewShape, Today
  <2>4. FiguresKept'
    BY <2>1, <2>2 DEF FiguresKept, SummaryKept, SalesKept, StatusKept, SeriesKept, TopKept, NewestKept
  <2> QED
    BY <2>3, <2>4 DEF OverviewInv
<1>3. CASE NextStatement
  BY <1>3, ReadKeeps
<1>4. ASSUME NEW p \in Plants, NEW qty \in 1 .. MaxQty, NEW at \in 0 .. clock, Place(p, qty, at)
      PROVE  OverviewInv'
  BY <1>4, PlaceKeeps
<1>5. ASSUME NEW c \in Clerks,
             \/ \E i \in DOMAIN orders, s \in OrderStatuses : ReadStatus(c, i, s)
             \/ WriteStatus(c) \/ RollBack(c)
      PROVE  OverviewInv'
  BY <1>5, ReadStatusKeeps, WriteStatusKeeps, RollBackKeeps
<1>6. CASE OverviewTick
  <2>1. clock < OverviewTime /\ clock' = clock + 1 /\ UNCHANGED <<orders, plants, today, view, asked, undone>>
    BY <1>6 DEF OverviewTick
  <2>2. Today' = UtcDay(clock') /\ Today' \in Nat /\ Today <= Today'
    <3>1. clock' \in Nat /\ clock <= clock' /\ Today' = UtcDay(clock')
      BY <1>1, <2>1 DEF Today, UtcDay
    <3> QED
      BY <1>1, <3>1, DaysPass
  <2>3. \A i \in DOMAIN orders : orders[i].at \in Nat /\ orders[i].at <= clock
    BY <1>0, CreatedAt
  <2>4. OverviewShape'
    <3>1. today' = None \/ today' \in 0 .. Today'
      BY <1>0, <1>1, <2>1, <2>2 DEF OverviewShape
    <3>2. clock' \in 0 .. OverviewTime /\ \A i \in DOMAIN orders' : orders'[i].at <= clock'
      BY <1>1, <2>1, <2>3
    <3> QED
      BY <1>0, <2>1, <3>1, <3>2 DEF OverviewShape
  <2>5. Grows
    BY <1>0, <1>1, <2>1 DEF Grows, OverviewShape
  <2>6. FiguresKept'
    BY <2>1, <2>4, <2>5, GrowthKeeps
  <2> QED
    BY <2>4, <2>6 DEF OverviewInv
<1>7. CASE UNCHANGED overviewVars
  <2>1. UNCHANGED <<orders, plants, clock, today, view, asked, undone>>
    BY <1>7 DEF overviewVars
  <2>2. OverviewShape'
    BY <1>0, <2>1 DEF OverviewShape, Today
  <2>3. Grows
    BY <1>0, <1>1, <2>1 DEF Grows, OverviewShape
  <2>4. FiguresKept'
    BY <2>1, <2>2, <2>3, GrowthKeeps
  <2> QED
    BY <2>2, <2>4 DEF OverviewInv
<1> QED
  BY <1>2, <1>3, <1>4, <1>5, <1>6, <1>7 DEF OverviewNext

\* It holds along every dashboard.
LEMMA OverviewInvariant == ASSUME OverviewAssumption PROVE OverviewSpec => []OverviewInv
<1>1. OverviewInit => OverviewInv
  BY InitOverviewInv
<1>2. OverviewInv /\ [OverviewNext]_overviewVars => OverviewInv'
  BY OverviewStep
<1> QED
  BY <1>1, <1>2, PTL DEF OverviewSpec

\* Rows are of the shapes the code gives them, requests name orders there are, and no
\* figure is read for a day to come (Order, Plant, update_order_status, build_overview).
THEOREM OverviewTypesHold == ASSUME OverviewAssumption PROVE OverviewSpec => []OverviewTypeOK
<1>1. OverviewInv => OverviewTypeOK
  <2> SUFFICES ASSUME OverviewInv PROVE OverviewTypeOK
    OBVIOUS
  <2>1. OverviewShape
    BY DEF OverviewInv
  <2>2. \A i \in DOMAIN orders : orders[i] \in OrderRow
    BY <2>1 DEF OverviewShape
  <2> QED
    BY <2>1, <2>2 DEF OverviewShape, OverviewTypeOK
<1> QED
  BY <1>1, OverviewInvariant, PTL

\* What an earlier figure of the dashboard counts, the later ones account for, whatever is
\* placed, moved or restocked between the statements, but for the revenue of the orders
\* that a stale status request took out of `completed` meanwhile (build_overview and its
\* _load functions, update_order_status).
THEOREM FiguresCover == ASSUME OverviewAssumption PROVE OverviewSpec => []LaterFiguresCover
  BY KeptCover, OverviewInvariant, PTL

=============================================================================
