---------------------------- MODULE MCOrderTotal ----------------------------
(***************************************************************************)
(* Small orders for TLC: a unit has 10 nanos, an order has up to two lines *)
(* of up to four items, and the amounts stand on both sides of every      *)
(* boundary of Sum: zero, half a unit, a full unit, a carry.               *)
(***************************************************************************)
EXTENDS CartPage

Of(units, nanos) == [currency |-> Currency, units |-> units, nanos |-> nanos]

\* 0 is what the quote service answers when it swallows an exception; the
\* others stand for the 40 and more it asks per item.
MCShippingCosts == {Of(0, 0), Of(1, 0), Of(1, 9), Of(40, 5)}

\* 0.9 stands for the lowest price in the catalogue, 0.99.  Its files are
\* reloaded while the shop runs and may come to hold less than half a unit.
MCCosts == {Of(0, 3), Of(0, 5), Of(0, 9), Of(1, 0), Of(2, 7), Of(3, 9)}

MCLines == [cost : MCCosts, quantity : 1 .. 4]

\* An order has a line: shipping refuses an empty cart (null in the JSON).
MCOrders == {<<a>> : a \in MCLines} \cup {<<a, b>> : a, b \in MCLines}

\* Two of an item that costs 0.40.
TwoCheapItems == {<<[cost |-> Of(0, 4), quantity |-> 2]>>}
PaidShipping == {Of(40, 5)}
=============================================================================
