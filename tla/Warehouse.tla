----------------------------- MODULE Warehouse -----------------------------
(* What stock-keeping promises, with every sale and every rejection in one step:
   a sale takes whole lines of an order and says whether it took them all, a
   rejection of a complete sale puts them all back, and a figure a supplier types
   comes before or after a sale but never in the middle of one. *)
EXTENDS Integers, Sequences

CONSTANTS
  Orders,          \* order ids
  Listings,        \* supplier_fuels rows of one supplier
  Baskets,         \* bound: the lines an order may be placed with
  InitStock,       \* available_quantity of each listing at the start
  Levels           \* bound: the figures the supplier may type

Sources == {"CATALOGUE", "REQUEST"}
Lines == [listing : Listings, litres : Nat \ {0}]

ASSUME WarehouseAssumption ==
  /\ Baskets \subseteq Seq(Lines) \ {<<>>}
  /\ InitStock \in [Listings -> Nat]
  /\ Levels \subseteq Nat

VARIABLES
  stock,           \* supplier_fuels.available_quantity, as committed
  order            \* orders: status, source, items, inventory_deducted

\* the statuses that matter to stock; Checkout has the others
Statuses == {"NONE", "PENDING", "AWAITING_CONFIRMATION", "CONFIRMED", "REJECTED"}

Init ==
  /\ stock = InitStock
  /\ order = [o \in Orders |-> [status |-> "NONE", source |-> "CATALOGUE",
                               items |-> <<>>, deducted |-> FALSE]]

\* what each line of a basket adds to a listing, of the lines given
Shares(items, lines, l) ==
  [i \in 1 .. Len(items) |->
     IF i \in lines /\ items[i].listing = l THEN items[i].litres ELSE 0]

\* the sum of the first n shares, for every n
Running(shares) ==
  LET sum[n \in 0 .. Len(shares)] == IF n = 0 THEN 0 ELSE sum[n - 1] + shares[n]
  IN  sum

\* the litres of a listing that the given lines of a basket add up to
Litres(items, lines, l) == Running(Shares(items, lines, l))[Len(items)]

-----------------------------------------------------------------------------
Place(o, source, basket) ==
  /\ order[o].status = "NONE"
  /\ order' = [order EXCEPT ![o].status = "PENDING", ![o].source = source,
                            ![o].items = basket]
  /\ UNCHANGED stock

\* an order agreed through a request takes nothing, and says it took everything
Sell(o, lines) ==
  /\ order[o].status = "PENDING"
  /\ order[o].source = "REQUEST" => lines = {}
  /\ stock' = [l \in Listings |-> stock[l] - Litres(order[o].items, lines, l)]
  /\ \A l \in Listings : stock'[l] >= 0
  /\ order' = [order EXCEPT
       ![o].status = "AWAITING_CONFIRMATION",
       ![o].deducted =
         order[o].source = "REQUEST" \/ lines = DOMAIN order[o].items]

Confirm(o) ==
  /\ order[o].status = "AWAITING_CONFIRMATION"
  /\ order' = [order EXCEPT ![o].status = "CONFIRMED"]
  /\ UNCHANGED stock

Reject(o) ==
  /\ order[o].status = "AWAITING_CONFIRMATION"
  /\ stock' = IF order[o].deducted
              THEN [l \in Listings |->
                      stock[l] + Litres(order[o].items, DOMAIN order[o].items, l)]
              ELSE stock
  /\ order' = [order EXCEPT ![o].status = "REJECTED", ![o].deducted = FALSE]

TypeIn(l, figure) ==
  /\ stock' = [stock EXCEPT ![l] = figure]
  /\ UNCHANGED order

Next ==
  \/ \E o \in Orders :
       \/ \E source \in Sources, basket \in Baskets : Place(o, source, basket)
       \/ \E lines \in SUBSET (DOMAIN order[o].items) : Sell(o, lines)
       \/ Confirm(o) \/ Reject(o)
  \/ \E l \in Listings, figure \in Levels : TypeIn(l, figure)

Spec == Init /\ [][Next]_<<stock, order>>
=============================================================================
