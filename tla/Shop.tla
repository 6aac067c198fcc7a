-------------------------------- MODULE Shop --------------------------------
(* The constants every module of the order-and-payment flow is written over:
   the rows that exist, what each order asks for, and how many requests the
   server handles at once. *)
EXTENDS Naturals, Sequences, FiniteSets, OrderStatus

CONSTANTS
  Orders,          \* order ids
  Listings,        \* supplier_fuels rows (one supplier and fuel type each)
  Refs,            \* the payment references randomUUID() may hand out
  Calls,           \* requests the server may be handling at once
  NoRef,           \* "no payment row yet"
  Qty,             \* litres of each listing an order's lines ask for (0: no line)
  Source,          \* "CATALOGUE" or "REQUEST", per order
  InitStock        \* availableQuantity of each listing when payment starts

OrderSources == {"CATALOGUE", "REQUEST"}

ASSUME ShopAssumption ==
  /\ NoRef \notin Refs
  /\ Qty \in [Orders -> [Listings -> Nat]]
  /\ Source \in [Orders -> OrderSources]
  /\ InitStock \in [Listings -> Nat]
=============================================================================
