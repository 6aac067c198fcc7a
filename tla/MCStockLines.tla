---------------------------- MODULE MCStockLines ----------------------------
(* Small instances of StockLines for TLC. *)
EXTENDS StockLines

CONSTANTS o1, o2, petrol, diesel

Of(l, n) == [listing |-> l, litres |-> n]

\* two fuels in one order and in the other, one fuel named twice, one line
TwoFuels ==
  {<<Of(petrol, 1), Of(diesel, 1)>>, <<Of(diesel, 1), Of(petrol, 1)>>,
   <<Of(petrol, 1), Of(petrol, 1)>>, <<Of(diesel, 1)>>}
PetrolTwice == {<<Of(petrol, 1), Of(petrol, 1)>>}

TwoAndOne == [l \in Listings |-> IF l = petrol THEN 2 ELSE 1]
OneEach == [l \in Listings |-> 1]
=============================================================================
