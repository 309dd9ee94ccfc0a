------------------------------ MODULE Overview ------------------------------
(***************************************************************************)
(* The dashboard: one request reads its figures with seven statements, and *)
(* each sees what is committed when it starts.  Orders are placed, stock is *)
(* sold, and the day may end, between them.  A request that moves an order *)
(* reads its status without a lock and writes the new one later, over      *)
(* whatever it is by then.  An order's created_at is when its transaction  *)
(* began, which may be before the statement that cannot see it yet.  The   *)
(* counters of categories and customers are left out.                      *)
(***************************************************************************)
EXTENDS Nothing, Integers, SequencesExt

CONSTANTS Plants,
          Price,              \* unit_price of each plant
          Fee,                \* shipping_fee of each order
          MonthStarts,        \* the days that are the first of a month
          TicksPerDay,
          LOW_STOCK_THRESHOLD, ListLimit,
          Clerks,             \* requests that change the status of an order
          MaxEvents, MaxQty, MaxStock, OverviewStart, OverviewTime    \* bounds

OrderStatuses == {"pending", "confirmed", "processing", "shipping", "completed", "cancelled"}
OrderRow == [plant: Plants, qty: 1 .. MaxQty, status: OrderStatuses, at: 0 .. OverviewTime]
PlantRow == [stock: Nat, active: BOOLEAN]
Move     == [order: Nat, to: OrderStatuses]

OverviewAssumption ==
    /\ {Fee, TicksPerDay, LOW_STOCK_THRESHOLD, ListLimit, MaxEvents, MaxQty, MaxStock} \subseteq Nat
    /\ OverviewTime \in Nat /\ OverviewStart \in 0 .. OverviewTime
    /\ Price \in [Plants -> Nat]
    /\ IsFiniteSet(Plants)
    /\ None \notin Move
    /\ 0 \in MonthStarts /\ MonthStarts \subseteq Nat /\ TicksPerDay > 0 /\ MaxQty > 0

VARIABLES
    orders,   \* orders with their one line, in the order they are committed
    plants,
    clock,
    today,    \* the day build_overview works for
    view,     \* what its statements have returned so far
    asked,    \* the status each request has decided on and not yet written
    events,   \* how often an order was placed, or asked to be moved
    undone    \* history: orders taken out of `completed` since the dashboard began

overviewVars == <<orders, plants, clock, today, view, asked, events, undone>>

OverviewInit ==
    /\ clock = OverviewStart
    /\ orders \in BoundedSeq([plant: Plants, qty: {MaxQty}, status: {"shipping"}, at: {0}], 2)
    /\ plants \in [Plants -> [stock: {MaxStock}, active: BOOLEAN]]
    /\ today = None
    /\ view = <<>>
    /\ asked = [c \in Clerks |-> None]
    /\ events = 0
    /\ undone = {}

\* Rows are named by their place in `orders`.
Goods  == [i \in DOMAIN orders |-> orders[i].qty * Price[orders[i].plant]]
Totals == [i \in DOMAIN orders |-> Goods[i] + Fee]
WithStatus(s) == {i \in DOMAIN orders : orders[i].status = s}
Completed     == WithStatus("completed")
Revenue(set)  == SumFunctionOnSet(Totals, set \cap Completed)

\* Fault: days are cut in the local time of the database.
UtcDay_Local(t) == (t + 1) \div TicksPerDay

UtcDay(t) == t \div TicksPerDay

Today == clock \div TicksPerDay

StartOfDay(day)    == day * TicksPerDay
FirstDay(day)      == CHOOSE d \in MonthStarts : d <= day /\ \A e \in MonthStarts : e <= day => e <= d
StartOfNextMonth(day) ==
    LET later == {StartOfDay(d) : d \in {e \in MonthStarts : e > day}}
    IN IF later = {} THEN OverviewTime + 1 ELSE Min(later)

CreatedIn(from, until) == {i \in DOMAIN orders : from <= orders[i].at /\ orders[i].at < until}

----------------------------------------------------------------------------
(* The statements *)

LoadSummary ==
    [orders  |-> Len(orders),
     pending |-> Cardinality(WithStatus("pending")),
     revenue |-> Revenue(DOMAIN orders),
     plants  |-> Cardinality(Plants),
     active  |-> Cardinality({p \in Plants : plants[p].active})]

Period(set) == [orders |-> Cardinality(set), revenue |-> Revenue(set)]

LoadSales ==
    [today |-> Period(CreatedIn(StartOfDay(today), StartOfDay(today + 1))),
     month |-> Period(CreatedIn(StartOfDay(FirstDay(today)), StartOfNextMonth(today)))]

LoadOrdersByStatus ==
    [s \in OrderStatuses |-> Cardinality(WithStatus(s))]

\* A point for each day of the month up to today.
LoadRevenueByDay ==
    LET recent == CreatedIn(StartOfDay(FirstDay(today)), StartOfDay(today + 1))
    IN [day \in FirstDay(today) .. today |-> Period({i \in recent : UtcDay(orders[i].at) = day})]

\* The lists that an ORDER BY and a LIMIT may give: what neither comes before the
\* other comes in any order.
Best(set, before(_, _)) ==
    LET ranked == {s \in SetToSeqs(set) : \A i, j \in DOMAIN s : i < j => ~before(s[j], s[i])}
    IN {SubSeq(s, 1, Min({ListLimit, Len(s)})) : s \in ranked}

Sold(p)  == {i \in Completed : orders[i].plant = p}
Sales(p) == [plant   |-> p,
             qty     |-> SumFunctionOnSet([i \in DOMAIN orders |-> orders[i].qty], Sold(p)),
             revenue |-> SumFunctionOnSet(Goods, Sold(p))]

\* By units sold, then by revenue, over the lines of completed orders.
LoadTopPlants ==
    Best({Sales(p) : p \in {p \in Plants : Sold(p) # {}}},
         LAMBDA a, b : a.qty > b.qty \/ (a.qty = b.qty /\ a.revenue > b.revenue))

\* Scarcest first, and then by name, of which the model has none.
LoadLowStock ==
    Best({p \in Plants : plants[p].active /\ plants[p].stock <= LOW_STOCK_THRESHOLD},
         LAMBDA p, q : plants[p].stock < plants[q].stock)

\* Newest first, by created_at, and then by id, which says nothing about when.
LoadRecentOrders == Best(DOMAIN orders, LAMBDA i, j : orders[i].at > orders[j].at)

\* build_overview: one day for all, then the statements one after another.
BuildOverview ==
    /\ today = None
    /\ today' = Today
    /\ undone' = {}
    /\ UNCHANGED <<orders, plants, clock, view, asked, events>>

\* What a statement may return.
Statement(n) ==
    CASE n = 1 -> {LoadSummary}      [] n = 2 -> {LoadSales}   [] n = 3 -> {LoadOrdersByStatus}
      [] n = 4 -> {LoadRevenueByDay} [] n = 5 -> LoadTopPlants [] n = 6 -> LoadLowStock
      [] n = 7 -> LoadRecentOrders

NextStatement ==
    /\ today # None /\ Len(view) < 7
    /\ \E figures \in Statement(Len(view) + 1) : view' = Append(view, figures)
    /\ UNCHANGED <<orders, plants, clock, today, asked, events, undone>>

----------------------------------------------------------------------------
(* What others do meanwhile *)

\* A checkout that began at `at` commits.
Place(p, qty, at) ==
    /\ events < MaxEvents /\ events' = events + 1
    /\ plants[p].active /\ plants[p].stock >= qty
    /\ orders' = Append(orders, [plant |-> p, qty |-> qty, status |-> "pending", at |-> at])
    /\ plants' = [plants EXCEPT ![p].stock = @ - qty]
    /\ UNCHANGED <<clock, today, view, asked, undone>>

Stage == [pending |-> 0, confirmed |-> 1, processing |-> 2, shipping |-> 3, completed |-> 4]

\* get_order and _ensure_transition_allowed, on the status as it is committed: any
\* stage further on, or cancelled; nothing to do for the status it has.
ReadStatus(c, i, s) ==
    /\ asked[c] = None
    /\ events < MaxEvents /\ events' = events + 1
    /\ s # orders[i].status
    /\ orders[i].status \notin {"completed", "cancelled"}
    /\ s # "cancelled" => Stage[s] > Stage[orders[i].status]
    /\ asked' = [asked EXCEPT ![c] = [order |-> i, to |-> s]]
    /\ UNCHANGED <<orders, plants, clock, today, view, undone>>

\* update_order_status: the status is written, and the stock of a cancelled order
\* restored, whatever has become of the order since.
WriteStatus(c) ==
    LET i == asked[c].order
        s == asked[c].to
    IN /\ asked[c] # None
       /\ asked' = [asked EXCEPT ![c] = None]
       /\ orders' = [orders EXCEPT ![i].status = s]
       /\ plants' = IF s = "cancelled"
                    THEN [plants EXCEPT ![orders[i].plant].stock = @ + orders[i].qty] ELSE plants
       /\ undone' = IF orders[i].status = "completed" /\ s # "completed" THEN undone \cup {i} ELSE undone
       /\ UNCHANGED <<clock, today, view, events>>

\* The commit fails, or the lock of the plant, and nothing is written.
RollBack(c) ==
    /\ asked[c] # None
    /\ asked' = [asked EXCEPT ![c] = None]
    /\ UNCHANGED <<orders, plants, clock, today, view, events, undone>>

OverviewTick ==
    /\ clock < OverviewTime
    /\ clock' = clock + 1
    /\ UNCHANGED <<orders, plants, today, view, asked, events, undone>>

OverviewNext ==
    \/ BuildOverview
    \/ NextStatement
    \/ \E p \in Plants, qty \in 1 .. MaxQty, at \in 0 .. clock : Place(p, qty, at)
    \/ \E c \in Clerks :
         \/ \E i \in DOMAIN orders, s \in OrderStatuses : ReadStatus(c, i, s)
         \/ WriteStatus(c) \/ RollBack(c)
    \/ OverviewTick

OverviewSpec == OverviewInit /\ [][OverviewNext]_overviewVars

----------------------------------------------------------------------------
(* Properties *)

\* The revenue of the orders that have left `completed` meanwhile.
Missing == SumFunctionOnSet(Totals, undone)

\* What an earlier figure counts, the later ones account for, but for the revenue of
\* orders that a request with an old reading took out of `completed` meanwhile: no
\* order is deleted, so the statuses add up to the total at least; the best sellers
\* and the shipping to the revenue, if the list of them is not cut off; and, unless
\* the day has ended meanwhile, the points of the chart to today and this month.
LaterFiguresCover ==
    Len(view) = 7 =>
      LET summary == view[1]
          sales   == view[2]
          status  == view[3]
          series  == view[4]
          top     == view[5]
          inAll   == [orders  |-> SumFunction([d \in DOMAIN series |-> series[d].orders]),
                      revenue |-> SumFunction([d \in DOMAIN series |-> series[d].revenue])]
          covers(a, b, less) == a.orders <= b.orders /\ a.revenue <= b.revenue + less
      IN /\ summary.orders <= SumFunction(status)
         /\ Len(top) < ListLimit \/ Cardinality(Plants) <= ListLimit =>
              summary.revenue <= SumFunction([i \in DOMAIN top |-> top[i].revenue])
                                 + Fee * status["completed"] + Missing
         /\ covers(sales.today, sales.month, 0)
         /\ Today = today =>
              covers(sales.today, series[today], Missing) /\ covers(sales.month, inAll, Missing)
         /\ Len(view[7]) >= Min({ListLimit, summary.orders})

\* The rows are of the shapes the code gives them, and requests name orders.
OverviewTypeOK ==
    /\ \A i \in DOMAIN orders : orders[i] \in OrderRow
    /\ plants \in [Plants -> PlantRow]
    /\ clock \in 0 .. OverviewTime
    /\ Len(view) > 0 => today \in 0 .. Today
    /\ asked \in [Clerks -> Move \cup {None}]
    /\ \A c \in Clerks : asked[c] # None => asked[c].order \in DOMAIN orders
    /\ undone \subseteq DOMAIN orders
=============================================================================
