------------------------------- MODULE CartPage -------------------------------
(***************************************************************************)
(* The total the cart page shows under the items of an order, beside the   *)
(* total PlaceOrder charges for them (OrderTotal).  The page adds numbers  *)
(* up itself: src/frontend/components/CartItems/CartItems.tsx.             *)
(***************************************************************************)
EXTENDS OrderTotal

\* list.reduce((acc, x) => acc + x, 0), after each of its steps.
reduced(list) ==
  LET acc[k \in 0..Len(list)] == IF k = 0 THEN 0 ELSE acc[k - 1] + list[k]
  IN acc

lineNanos == [k \in DOMAIN lines |-> lines[k].cost.nanos]
lineUnits == [k \in DOMAIN lines |-> lines[k].cost.units]

\* The sums over the list of products, each with its part of shipping.
nanoSum(quoted) == reduced(lineNanos)[Len(lines)] + quoted.nanos
unitSum(quoted) == reduced(lineUnits)[Len(lines)] + quoted.units

\* Faulty: the nanos are not carried.
TotalUncarried(quoted) ==
  [currency |-> Currency, units |-> unitSum(quoted), nanos |-> nanoSum(quoted) % NanosMod]

\* The page's items cost what the order's do (see Prices), and shipping what the
\* page was quoted.
Total(quoted) ==
  [currency |-> Currency,
   units |-> unitSum(quoted) + nanoSum(quoted) \div NanosMod,
   nanos |-> nanoSum(quoted) % NanosMod]

\* The page's total is what the card is charged, digit by digit, when shipping
\* is quoted as before and the cart has one item of each product.  It leaves the
\* quantities out: with two of an item it shows less, never more.
PageTotalIsCharged ==
  pc = "priced" /\ SafeOrder =>
    IF \A k \in DOMAIN lines : lines[k].quantity = 1
    THEN Total(shipping) = total
    ELSE Value(Total(shipping)) < Value(total)
=============================================================================
