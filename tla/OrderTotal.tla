----------------------------- MODULE OrderTotal -----------------------------
(***************************************************************************)
(* How PlaceOrder (src/src/checkout/main.go) prices one order: the         *)
(* localized shipping cost, then for every line money.MultiplySlow, a loop *)
(* of money.Sum, then the sum into the total.  money.Must turns an error   *)
(* of Sum into a panic, which ends the checkout process.                   *)
(*                                                                         *)
(* One step is one call of Sum.  The variable due is auxiliary: the exact  *)
(* amount owed for what the code has added so far.                         *)
(***************************************************************************)
EXTENDS Money, Sequences

CONSTANTS
  Currency,          \* req.UserCurrency: every converted amount carries it
  Orders,            \* the orders priced: sequences of lines
  ShippingCosts,     \* the localized shipping costs
  MaxQuantity        \* the greatest int32 in the code

\* A quantity is positive here: quoteShipping came first, and the shipping
\* service refuses a negative one (a u32 there) and zero (absent from the JSON).
Line == [cost : Amount, quantity : 1 .. MaxQuantity]

ASSUME OrderTotalAssumption ==
  /\ Currency \in STRING
  /\ ShippingCosts \subseteq Amount
  /\ Orders \subseteq Seq(Line)
  /\ MaxQuantity \in Nat

VARIABLES pc, lines, shipping, i, n, out, total, due

vars == <<pc, lines, shipping, i, n, out, total, due>>

Init ==
  /\ lines \in Orders
  /\ shipping \in ShippingCosts
  /\ pc = "shipping"
  /\ i = 1
  /\ n = 0
  /\ out = Zero(Currency)
  /\ total = Zero(Currency)
  /\ due = 0

\* money.Must(money.Sum(l, r)) panics.
Panic(l, r) ==
  /\ SumError(l, r) # "nil"
  /\ pc' = "panic"
  /\ UNCHANGED <<lines, shipping, i, n, out, total, due>>

AddShipping ==
  /\ pc = "shipping"
  /\ \/ Panic(total, shipping)
     \/ /\ SumError(total, shipping) = "nil"
        /\ total' = Sum(total, shipping)
        /\ due' = due + Value(shipping)
        /\ pc' = "lines"
        /\ UNCHANGED <<lines, shipping, i, n, out>>

\* The call of MultiplySlow: out := m, and the quantity cast to uint32.
StartLine ==
  /\ pc = "lines"
  /\ i <= Len(lines)
  /\ out' = lines[i].cost
  /\ n' = lines[i].quantity
  /\ pc' = "multiply"
  /\ UNCHANGED <<lines, shipping, i, total, due>>

\* A faulty variant: the loop runs once too often.
LoopGoesOnOnce == n > 0

\* The condition of MultiplySlow's loop, and n-- at its end.
LoopGoesOn == n > 1
Counted == n - 1

\* One iteration: out = Must(Sum(out, m)).
MultiplyOnce ==
  /\ pc = "multiply"
  /\ LoopGoesOn
  /\ \/ Panic(out, lines[i].cost)
     \/ /\ SumError(out, lines[i].cost) = "nil"
        /\ out' = Sum(out, lines[i].cost)
        /\ n' = Counted
        /\ UNCHANGED <<pc, lines, shipping, i, total, due>>

AddLine ==
  /\ pc = "multiply"
  /\ ~LoopGoesOn
  /\ \/ Panic(total, out)
     \/ /\ SumError(total, out) = "nil"
        /\ total' = Sum(total, out)
        /\ due' = due + Value(lines[i].cost) * lines[i].quantity
        /\ i' = i + 1
        /\ pc' = "lines"
        /\ UNCHANGED <<lines, shipping, n, out>>

\* A faulty variant: the loop over the lines only ends at the last one.
PricedAtLast ==
  /\ pc = "lines"
  /\ i = Len(lines)
  /\ pc' = "priced"
  /\ UNCHANGED <<lines, shipping, i, n, out, total, due>>

\* The loop over prep.orderItems is over: the total goes to chargeCard.
Priced ==
  /\ pc = "lines"
  /\ i > Len(lines)
  /\ pc' = "priced"
  /\ UNCHANGED <<lines, shipping, i, n, out, total, due>>

Next == AddShipping \/ StartLine \/ MultiplyOnce \/ AddLine \/ Priced

Spec == Init /\ [][Next]_vars /\ WF_vars(Next)

-----------------------------------------------------------------------------
TypeOK ==
  /\ pc \in {"shipping", "lines", "multiply", "priced", "panic"}
  /\ lines \in Seq(Line)
  /\ shipping \in Amount
  /\ i \in 1 .. Len(lines) + 1
  /\ pc = "multiply" => i \in 1 .. Len(lines)
  /\ n \in 0 .. MaxQuantity
  /\ out \in Amount
  /\ total \in Amount
  /\ due \in Int

\* An amount PlaceOrder can price safely: valid, in the order's currency and
\* at least half a unit (two of it carry into the units), as every catalogue
\* price is.
SafeCost(m) ==
  /\ m.currency = Currency
  /\ IsValid(m)
  /\ m.units >= 0
  /\ m.nanos >= 0
  /\ m.units >= 1 \/ 2 * m.nanos >= NanosMod

\* The same of an order: shipping costs at least one unit (the quote service
\* asks 40 or more per item).
SafeOrder ==
  /\ SafeCost(shipping)
  /\ shipping.units >= 1
  /\ \A k \in DOMAIN lines : SafeCost(lines[k].cost)

\* The card is charged exactly what is owed: shipping plus, for every line,
\* cost times quantity, whatever carries and borrows Sum made on the way and
\* even when a sum is not in normal form.
TotalIsExact == pc = "priced" => Value(total) = due

\* No order of safe amounts makes money.Must panic, in whatever order and
\* number the sums are made: a panic takes the checkout process down with
\* every other order in flight.
SafeOrderNeverPanics == SafeOrder => pc # "panic"

\* Every total and every intermediate product of a safe order is in the
\* normal form demo.proto gives Money.
SafeTotalIsValid == SafeOrder => IsValid(total) /\ IsValid(out)

\* Pricing ends: the order is priced or the process panics.
PricingEnds == <>(pc \in {"priced", "panic"})

\* What demo.proto (lines 154-159) and the comment at money.go:95 say of every
\* amount: the fraction is less than a unit and has the units' sign.
SumsStayValid == IsValid(total) /\ IsValid(out)
=============================================================================
