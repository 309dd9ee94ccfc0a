------------------------------- MODULE Pricing -------------------------------
(***************************************************************************)
(* What an order costs: price_order and the shipping rule, as the quote    *)
(* shows it to a shopper and as the checkout charges it, and the amount a  *)
(* bank transfer is asked for.  Here one cart is quoted and checked out    *)
(* while an admin may edit the catalogue in between.  Money counts the     *)
(* smallest unit a price has (0.01 VND); Unit of them make one VND.        *)
(***************************************************************************)
EXTENDS Nothing, Integers, SequencesExt, FiniteSetsExt

CONSTANTS Plants,
          Prices,       \* bound: the price_vi values an admin enters
          MaxQty,       \* bound: units on one line
          MaxLines,     \* bound: lines of a cart
          MaxStock,     \* bound: stock of a plant
          FreeShippingAbove, ShippingFee, MaxTotalAmount,
          Unit

Absent    == [listed |-> "absent", price |-> None, stock |-> 0]
PlantRow  == [listed: {"active", "inactive"}, price: Prices \cup {None}, stock: 0..MaxStock] \cup {Absent}
Line      == [plant: Plants, qty: 1..MaxQty]

PricingAssumption ==
    /\ IsFiniteSet(Plants) /\ Prices \subseteq Nat
    /\ {MaxQty, MaxLines, MaxStock, FreeShippingAbove, ShippingFee, MaxTotalAmount} \subseteq Nat
    /\ Unit \in Nat \ {0}

VARIABLES
    catalogue,  \* plants
    cart,       \* the lines a shopper sends
    quote,      \* the answer to the last quote, until the catalogue changes
    result,    \* of the checkout: open, rejected or placed
    order       \* the order it placed

pricingVars == <<catalogue, cart, quote, result, order>>

PricingInit ==
    /\ catalogue \in [Plants -> PlantRow]
    /\ cart \in BoundedSeq(Line, MaxLines)
    /\ quote = None
    /\ result = "open"
    /\ order = None

----------------------------------------------------------------------------
(* price_order *)

\* A line is available unless its plant is unknown, inactive or has no VND price.
Available(line) ==
    /\ catalogue[line.plant].listed = "active"
    /\ catalogue[line.plant].price # None

LineTotal(line) == IF Available(line) THEN catalogue[line.plant].price * line.qty ELSE 0

ShippingFeeFor(subtotal) == IF subtotal >= FreeShippingAbove THEN 0 ELSE ShippingFee

AmountToFreeShipping(subtotal) ==
    IF subtotal >= FreeShippingAbove THEN 0 ELSE FreeShippingAbove - subtotal

PriceOrder(lines) ==
    LET subtotal == SumFunction([i \in DOMAIN lines |-> LineTotal(lines[i])])
        shipping == IF \E i \in DOMAIN lines : Available(lines[i])
                    THEN ShippingFeeFor(subtotal) ELSE 0
    IN  [subtotal |-> subtotal, shipping |-> shipping, total |-> subtotal + shipping]

----------------------------------------------------------------------------
(* The quote *)

MaxQuantity(line) == IF Available(line) THEN catalogue[line.plant].stock ELSE 0

QuoteOrder ==
    /\ result = "open"
    /\ quote' = [price  |-> PriceOrder(cart),
                 lines  |-> [i \in DOMAIN cart |-> [available |-> Available(cart[i]),
                                                    max |-> MaxQuantity(cart[i])]],
                 toFree |-> AmountToFreeShipping(PriceOrder(cart).subtotal)]
    /\ UNCHANGED <<catalogue, cart, result, order>>

----------------------------------------------------------------------------
(* create_order: its checks on the locked rows, its price, its writes *)

Quantities == [i \in DOMAIN cart |-> cart[i].qty]
LinesOf(p) == {i \in DOMAIN cart : cart[i].plant = p}

\* Fault: the last line of a plant decides, instead of their sum.
Requested_LastLine(p) == SumFunctionOnSet(Quantities, {i \in LinesOf(p) : \A j \in LinesOf(p) : j <= i})

Requested(p) == SumFunctionOnSet(Quantities, LinesOf(p))

\* Fault: the last unit in stock is not sold.
Accepted_Strict ==
    /\ cart # <<>>
    /\ \A p \in Plants : Requested(p) > 0 =>
          /\ catalogue[p].listed = "active"
          /\ Requested(p) < catalogue[p].stock
    /\ \A i \in DOMAIN cart : Available(cart[i])
    /\ PriceOrder(cart).total <= MaxTotalAmount

Accepted ==
    /\ cart # <<>>
    /\ \A p \in Plants : Requested(p) > 0 =>
          /\ catalogue[p].listed = "active"
          /\ Requested(p) <= catalogue[p].stock
    /\ \A i \in DOMAIN cart : Available(cart[i])
    /\ PriceOrder(cart).total <= MaxTotalAmount

CreateOrder ==
    /\ result = "open"
    /\ \/ /\ ~Accepted
          /\ result' = "rejected"
          /\ UNCHANGED <<catalogue, order>>
       \/ /\ Accepted
          /\ result' = "placed"
          /\ order' = [price |-> PriceOrder(cart),
                       items |-> [i \in DOMAIN cart |->
                                    [plant |-> cart[i].plant, qty |-> cart[i].qty,
                                     unit  |-> catalogue[cart[i].plant].price]],
                       before |-> [p \in Plants |-> catalogue[p].stock]]
          /\ catalogue' = [p \in Plants |-> [catalogue[p] EXCEPT !.stock = @ - Requested(p)]]
    /\ UNCHANGED <<cart, quote>>

\* update_plant and set_plant_status.
EditPlant(p, plant) ==
    /\ result = "open"
    /\ catalogue[p] # Absent
    /\ plant # Absent
    /\ plant # catalogue[p]
    /\ catalogue' = [catalogue EXCEPT ![p] = plant]
    /\ quote' = None
    /\ UNCHANGED <<cart, result, order>>

----------------------------------------------------------------------------
PricingNext ==
    \/ QuoteOrder
    \/ CreateOrder
    \/ \E p \in Plants, plant \in PlantRow : EditPlant(p, plant)

PricingSpec == PricingInit /\ [][PricingNext]_pricingVars

----------------------------------------------------------------------------
(* bank_transfer_info: the total in whole VND, half to even *)

TransferAmount(total) ==
    LET whole == total \div Unit
        rest  == total % Unit
        up    == 2 * rest > Unit \/ (2 * rest = Unit /\ whole % 2 = 1)
    IN  Unit * (IF up THEN whole + 1 ELSE whole)

----------------------------------------------------------------------------
(* Properties *)

IsOrder == result = "placed"

\* What leaves the shelf is what is charged for: the units deducted, per plant
\* and whatever the lines, at the prices frozen on the items, make the subtotal.
ChargedForWhatLeaves ==
    IsOrder =>
        LET Taken(p) == order.before[p] - catalogue[p].stock
            Unit1(p) == CHOOSE u \in {order.items[i].unit : i \in
                            {j \in DOMAIN order.items : order.items[j].plant = p}} : TRUE
        IN  /\ \A p \in Plants : catalogue[p].stock >= 0
            /\ order.price.subtotal =
                 SumFunctionOnSet([p \in Plants |-> Taken(p) * Unit1(p)], {p \in Plants : Taken(p) > 0})

\* "Prices cart lines exactly as checkout would": a quote that is still current
\* is what the checkout charges, and a cart it shows as available, with what is
\* asked of each plant in stock, is not turned down.
QuoteHonoured ==
    quote # None =>
        /\ IsOrder => order.price = quote.price
        /\ result = "rejected" =>
              \/ cart = <<>> \/ quote.price.total > MaxTotalAmount
              \/ \E i \in DOMAIN cart :
                    ~quote.lines[i].available \/ Requested(cart[i].plant) > quote.lines[i].max

\* "exactly 500,000 VND still pays the fee".
ThresholdPaysFee ==
    IsOrder /\ order.price.subtotal = FreeShippingAbove => order.price.shipping = ShippingFee

\* "Where and how much to transfer": the amount shown settles the order, which
\* the webhook does for a transfer of the exact total only.
ShownAmountSettles == IsOrder => TransferAmount(order.price.total) = order.price.total
=============================================================================
