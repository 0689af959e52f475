-------------------------- MODULE OrderTotalProofs --------------------------
(***************************************************************************)
(* What OrderTotal promises for every currency, every set of orders and    *)
(* shipping costs and every number of nanos in a unit; and that the cart   *)
(* page shows the total that is charged.                                   *)
(***************************************************************************)
EXTENDS CartPage, WellFoundedInduction, TLAPS

LEMMA QuoInt == ASSUME NEW k \in Int PROVE Quo(k) \in Int
  BY NanosModAssumption DEF Quo

\* Distributivity, which the provers need spelt out.
LEMMA CarryKeepsValue ==
  ASSUME NEW u \in Int, NEW k \in Int, NEW q \in Int, NEW m \in Int
  PROVE  (u + q) * m + (k - m * q) = u * m + k
  OBVIOUS

LEMMA BorrowKeepsValue ==
  ASSUME NEW u \in Int, NEW k \in Int, NEW m \in Int
  PROVE  /\ (u - 1) * m + (k + m) = u * m + k
         /\ (u + 1) * m + (k - m) = u * m + k
  OBVIOUS

LEMMA ValueDistributes ==
  ASSUME NEW u1 \in Int, NEW u2 \in Int, NEW k1 \in Int, NEW k2 \in Int, NEW m \in Int
  PROVE  (u1 + u2) * m + (k1 + k2) = (u1 * m + k1) + (u2 * m + k2)
  OBVIOUS

\* Sum loses nothing, on any two amounts, normalised or not.
LEMMA SumExact ==
  ASSUME NEW l \in Amount, NEW r \in Amount
  PROVE  /\ Sum(l, r) \in Amount
         /\ Sum(l, r).currency = l.currency
         /\ Value(Sum(l, r)) = Value(l) + Value(r)
<1> DEFINE units == l.units + r.units
           nanos == l.nanos + r.nanos
<1>1. units \in Int /\ nanos \in Int /\ l.currency \in STRING
  BY DEF Amount
<1>2. Value(l) + Value(r) = units * NanosMod + nanos
  BY ValueDistributes, NanosModAssumption DEF Amount, Value
<1>3. CASE SameSign(units, nanos)
  <2>1. Sum(l, r) = Carry(l.currency, units, nanos)
    BY <1>3 DEF Sum
  <2>2. Quo(nanos) \in Int
    BY <1>1, QuoInt
  <2>3. (units + Quo(nanos)) * NanosMod + (nanos - NanosMod * Quo(nanos))
          = units * NanosMod + nanos
    BY <1>1, <2>2, CarryKeepsValue, NanosModAssumption
  <2>4. Rem(nanos) \in Int
    BY <1>1, <2>2, NanosModAssumption DEF Rem
  <2> QED
    BY <1>1, <1>2, <2>1, <2>2, <2>3, <2>4 DEF Carry, Amount, Value, Rem
<1>4. CASE ~SameSign(units, nanos)
  <2>1. Sum(l, r) = Borrow(l.currency, units, nanos)
    BY <1>4 DEF Sum
  <2>2. /\ (units - 1) * NanosMod + (nanos + NanosMod) = units * NanosMod + nanos
        /\ (units + 1) * NanosMod + (nanos - NanosMod) = units * NanosMod + nanos
    BY <1>1, BorrowKeepsValue, NanosModAssumption
  <2> QED
    BY <1>1, <1>2, <2>1, <2>2, NanosModAssumption DEF Borrow, Amount, Value
<1> QED
  BY <1>3, <1>4

-----------------------------------------------------------------------------
\* The total never drifts from what is owed.

LEMMA OneMoreTime ==
  ASSUME NEW v \in Int, NEW q \in Int, NEW k \in Int
  PROVE  v * (q - k + 1) + v = v * (q - (k - 1) + 1)
  OBVIOUS

LEMMA Times ==
  ASSUME NEW v \in Int, NEW q \in Int
  PROVE  v * q \in Int /\ v * (q - q + 1) = v /\ v * (q - 1 + 1) = v * q
  OBVIOUS

LEMMA ValueInt == ASSUME NEW m \in Amount PROVE Value(m) \in Int
  BY NanosModAssumption DEF Value, Amount

LEMMA Counters ==
  /\ 0 \in 0 .. MaxQuantity
  /\ \A k \in 0 .. MaxQuantity : k \in Int /\ k >= 0 /\ (k >= 1 => k - 1 \in 0 .. MaxQuantity)
  BY OrderTotalAssumption

LEMMA LineOK ==
  ASSUME NEW s \in Seq(Line), NEW k \in 1 .. Len(s)
  PROVE  s[k].cost \in Amount /\ s[k].quantity \in 1 .. MaxQuantity /\ s[k].quantity \in Int
<1>1. s[k] \in Line
  OBVIOUS
<1> QED
  BY <1>1, OrderTotalAssumption DEF Line

LEMMA ZeroAmount == Zero(Currency) \in Amount /\ Value(Zero(Currency)) = 0
  BY OrderTotalAssumption, NanosModAssumption DEF Zero, Amount, Value

\* While a line is multiplied, out is worth the items counted so far.
Multiplying ==
  pc = "multiply" =>
    /\ n >= 1
    /\ Value(out) = Value(lines[i].cost) * (lines[i].quantity - n + 1)

ExactInv ==
  /\ TypeOK
  /\ Value(total) = due
  /\ Multiplying

LEMMA ExactInit == Init => ExactInv
<1> SUFFICES ASSUME Init PROVE ExactInv
  OBVIOUS
<1>1. TypeOK
  BY ZeroAmount, Counters, OrderTotalAssumption DEF Init, TypeOK
<1> QED
  BY <1>1, ZeroAmount DEF Init, ExactInv, Multiplying

LEMMA ExactStep == ExactInv /\ [Next]_vars => ExactInv'
<1> SUFFICES ASSUME ExactInv, [Next]_vars PROVE ExactInv'
  OBVIOUS
<1> USE DEF ExactInv
<1>1. CASE AddShipping
  <2>1. CASE Panic(total, shipping)
    BY <2>1 DEF Panic, TypeOK, Multiplying, Value
  <2>2. CASE ~Panic(total, shipping)
    <3>1. /\ pc = "shipping" /\ pc' = "lines"
          /\ total' = Sum(total, shipping) /\ due' = due + Value(shipping)
          /\ UNCHANGED <<lines, shipping, i, n, out>>
      BY <1>1, <2>2 DEF AddShipping
    <3>2. total' \in Amount /\ Value(total)' = Value(total) + Value(shipping)
      BY <3>1, SumExact DEF TypeOK, Value
    <3>3. Value(shipping) \in Int /\ Value(total) \in Int
      BY ValueInt DEF TypeOK
    <3> QED
      BY <3>1, <3>2, <3>3 DEF TypeOK, Multiplying
  <2> QED
    BY <2>1, <2>2
<1>2. CASE StartLine
  <2>1. i \in 1 .. Len(lines)
    BY <1>2 DEF StartLine, TypeOK
  <2>2. lines[i].cost \in Amount /\ lines[i].quantity \in 1 .. MaxQuantity /\ lines[i].quantity \in Int
    BY <2>1, LineOK DEF TypeOK
  <2>3. n' \in 0 .. MaxQuantity /\ n' \in Int /\ n' >= 1 /\ n' = lines[i].quantity
    BY <1>2, <2>2, Counters, OrderTotalAssumption DEF StartLine
  <2>4. Value(lines[i].cost) \in Int
    BY <2>2, ValueInt
  <2>5. TypeOK'
    BY <1>2, <2>1, <2>2, <2>3 DEF StartLine, TypeOK
  <2>6. Multiplying'
    <3>1. out' = lines[i].cost /\ UNCHANGED <<lines, i>>
      BY <1>2 DEF StartLine
    <3>2. Value(lines[i].cost) * (lines[i].quantity - lines[i].quantity + 1) = Value(lines[i].cost)
      BY <2>2, <2>4, Times
    <3> QED
      BY <2>3, <3>1, <3>2 DEF Multiplying, Value
  <2> QED
    BY <1>2, <2>5, <2>6 DEF StartLine, Value
<1>3. CASE MultiplyOnce
  <2>1. CASE Panic(out, lines[i].cost)
    BY <2>1 DEF Panic, TypeOK, Multiplying, Value
  <2>2. CASE ~Panic(out, lines[i].cost)
    <3>1. /\ pc = "multiply" /\ n > 1
          /\ out' = Sum(out, lines[i].cost) /\ n' = n - 1
          /\ UNCHANGED <<pc, lines, shipping, i, total, due>>
      BY <1>3, <2>2 DEF MultiplyOnce, LoopGoesOn, Counted
    <3>2. i \in 1 .. Len(lines) /\ lines[i].cost \in Amount /\ lines[i].quantity \in Int
      BY <3>1, LineOK DEF TypeOK
    <3>3. out' \in Amount /\ Value(out)' = Value(out) + Value(lines[i].cost)
      BY <3>1, <3>2, SumExact DEF TypeOK, Value
    <3>4. Value(lines[i].cost) \in Int
      BY <3>2, ValueInt
    <3>5. TypeOK'
      BY <3>1, <3>3, Counters DEF TypeOK
    <3>6. Value(out)' = Value(lines[i].cost) * (lines[i].quantity - (n - 1) + 1)
      <4>1. Value(out) = Value(lines[i].cost) * (lines[i].quantity - n + 1)
        BY <3>1 DEF Multiplying
      <4>2. n \in Int /\ Value(out)' = Value(out) + Value(lines[i].cost)
        BY <3>3, Counters DEF TypeOK
      <4>3. Value(lines[i].cost) * (lines[i].quantity - n + 1) + Value(lines[i].cost)
              = Value(lines[i].cost) * (lines[i].quantity - (n - 1) + 1)
        BY <3>2, <3>4, <4>2, OneMoreTime
      <4> QED
        BY <4>1, <4>2, <4>3
    <3>7. n' >= 1
      BY <3>1, Counters DEF TypeOK
    <3>8. Multiplying'
      BY <3>1, <3>6, <3>7 DEF Multiplying, Value
    <3> QED
      BY <3>1, <3>5, <3>7, <3>8 DEF Value
  <2> QED
    BY <2>1, <2>2
<1>4. CASE AddLine
  <2>1. CASE Panic(total, out)
    BY <2>1 DEF Panic, TypeOK, Multiplying, Value
  <2>2. CASE ~Panic(total, out)
    <3>1. /\ pc = "multiply" /\ ~(n > 1) /\ pc' = "lines" /\ i' = i + 1
          /\ total' = Sum(total, out)
          /\ due' = due + Value(lines[i].cost) * lines[i].quantity
          /\ UNCHANGED <<lines, shipping, n, out>>
      BY <1>4, <2>2 DEF AddLine, LoopGoesOn
    <3>2. i \in 1 .. Len(lines) /\ lines[i].cost \in Amount /\ lines[i].quantity \in Int
      BY <3>1, LineOK DEF TypeOK
    <3>3. total' \in Amount /\ Value(total)' = Value(total) + Value(out)
      BY <3>1, SumExact DEF TypeOK, Value
    <3>4. Value(lines[i].cost) \in Int /\ Value(lines[i].cost) * lines[i].quantity \in Int
      BY <3>2, ValueInt, Times
    <3>5. TypeOK'
      <4>1. i' \in 1 .. Len(lines) + 1 /\ due' \in Int
        BY <3>1, <3>2, <3>4 DEF TypeOK
      <4> QED
        BY <3>1, <3>3, <4>1 DEF TypeOK
    <3>6. Value(out) = Value(lines[i].cost) * lines[i].quantity
      <4>1. n = 1
        BY <3>1, Counters DEF Multiplying, TypeOK
      <4> QED
        BY <3>1, <3>2, <3>4, <4>1, Times DEF Multiplying
    <3> QED
      BY <3>1, <3>3, <3>5, <3>6 DEF Multiplying
  <2> QED
    BY <2>1, <2>2
<1>5. CASE Priced
  BY <1>5 DEF Priced, TypeOK, Multiplying, Value
<1>6. CASE UNCHANGED vars
  BY <1>6 DEF vars, TypeOK, Multiplying, Value
<1> QED
  BY <1>1, <1>2, <1>3, <1>4, <1>5, <1>6 DEF Next

LEMMA ExactAlways == Spec => []ExactInv
  BY ExactInit, ExactStep, PTL DEF Spec

\* The type invariant, for all orders and prices.
THEOREM TypeCorrect == Spec => []TypeOK
  BY ExactAlways, PTL DEF ExactInv

\* The card is charged exactly what is owed: money.go's Sum and MultiplySlow
\* lose and invent nothing, whether or not the sums they make are normalised.
THEOREM TotalExact == Spec => []TotalIsExact
<1>1. ExactInv => TotalIsExact
  BY DEF ExactInv, TotalIsExact
<1> QED
  BY <1>1, ExactAlways, PTL

-----------------------------------------------------------------------------
\* A safe order never makes Must panic.

\* What a sum of two safe amounts is: a safe amount of at least one unit.
WholeUnits(m) ==
  /\ m.currency = Currency
  /\ IsValid(m)
  /\ m.units >= 1
  /\ m.nanos >= 0

LEMMA QuoOfCarry ==
  ASSUME NEW k \in Int, 0 <= k, k <= 2 * (NanosMod - 1)
  PROVE  /\ k < NanosMod => Quo(k) = 0 /\ Rem(k) = k
         /\ k >= NanosMod => Quo(k) = 1 /\ Rem(k) = k - NanosMod
<1>1. CASE k < NanosMod
  <2>1. k \div NanosMod = 0
    BY <1>1, NanosModAssumption
  <2> QED
    BY <1>1, <2>1, NanosModAssumption DEF Quo, Rem
<1>2. CASE k >= NanosMod
  <2>1. k \div NanosMod = 1
    BY <1>2, NanosModAssumption
  <2> QED
    BY <1>2, <2>1, NanosModAssumption DEF Quo, Rem
<1> QED
  BY <1>1, <1>2, NanosModAssumption

\* Two non-negative amounts whose sum reaches a unit add up to whole units.
LEMMA SumReachesUnits ==
  ASSUME NEW l \in Amount, NEW r \in Amount,
         IsValid(l), IsValid(r), l.currency = Currency, r.currency = Currency,
         l.units >= 0, r.units >= 0, l.nanos >= 0, r.nanos >= 0,
         l.units + r.units >= 1 \/ l.nanos + r.nanos >= NanosMod
  PROVE  SumError(l, r) = "nil" /\ WholeUnits(Sum(l, r))
<1> DEFINE units == l.units + r.units
           nanos == l.nanos + r.nanos
<1>1. /\ units \in Int /\ nanos \in Int /\ units >= 0
      /\ 0 <= nanos /\ nanos <= 2 * (NanosMod - 1)
  BY NanosModAssumption DEF Amount, IsValid, ValidNanos
<1>2. SumError(l, r) = "nil"
  BY DEF SumError
<1>3. CASE units >= 1
  <2>1. Sum(l, r) = Carry(Currency, units, nanos)
    BY <1>1, <1>3 DEF Sum, SameSign
  <2>2. /\ Quo(nanos) \in {0, 1}
        /\ 0 <= Rem(nanos) /\ Rem(nanos) < NanosMod /\ Rem(nanos) \in Int
    BY <1>1, QuoOfCarry, NanosModAssumption
  <2> QED
    BY <1>1, <1>2, <1>3, <2>1, <2>2, NanosModAssumption
    DEF Carry, WholeUnits, IsValid, SignMatches, ValidNanos
<1>4. CASE units = 0
  <2>1. nanos >= NanosMod
    BY <1>4, NanosModAssumption DEF Amount
  <2>2. Sum(l, r) = Borrow(Currency, units, nanos)
    BY <1>1, <1>4, <2>1, NanosModAssumption DEF Sum, SameSign
  <2> QED
    BY <1>1, <1>2, <1>4, <2>1, <2>2, NanosModAssumption
    DEF Borrow, WholeUnits, IsValid, SignMatches, ValidNanos
<1> QED
  BY <1>1, <1>3, <1>4

LEMMA WholeUnitsAreSafe == ASSUME NEW m \in Amount, WholeUnits(m) PROVE SafeCost(m)
  BY DEF WholeUnits, SafeCost, Amount

LEMMA SafeSum ==
  ASSUME NEW l \in Amount, NEW r \in Amount, SafeCost(l), SafeCost(r)
  PROVE  /\ SumError(l, r) = "nil"
         /\ WholeUnits(Sum(l, r))
         /\ SafeCost(Sum(l, r))
<1>1. l.units + r.units >= 1 \/ l.nanos + r.nanos >= NanosMod
  BY NanosModAssumption DEF SafeCost, Amount
<1>2. SumError(l, r) = "nil" /\ WholeUnits(Sum(l, r))
  BY <1>1, SumReachesUnits DEF SafeCost
<1> QED
  BY <1>2, WholeUnitsAreSafe, SumExact

\* Where a safe order stands, step by step.
SafeInv ==
  /\ TypeOK
  /\ SafeOrder =>
       /\ pc # "panic"
       /\ pc = "shipping" => total = Zero(Currency)
       /\ pc # "shipping" => WholeUnits(total)
       /\ out = Zero(Currency) \/ SafeCost(out)
       /\ pc = "multiply" => SafeCost(out)

LEMMA SafeInit == Init => SafeInv
<1>1. Init => TypeOK
  BY ExactInit DEF ExactInv
<1> QED
  BY <1>1 DEF Init, SafeInv

LEMMA SafeStep == SafeInv /\ TypeOK' /\ [Next]_vars => SafeInv'
<1> SUFFICES ASSUME SafeInv, TypeOK', [Next]_vars, SafeOrder' PROVE SafeInv'
  BY DEF SafeInv
<1>0. lines' = lines /\ shipping' = shipping
  BY DEF Next, AddShipping, StartLine, MultiplyOnce, AddLine, Priced, Panic, vars
<1>1. SafeOrder
  BY <1>0 DEF SafeOrder, SafeCost
<1>2. /\ TypeOK
      /\ pc # "panic"
      /\ pc = "shipping" => total = Zero(Currency)
      /\ pc # "shipping" => WholeUnits(total)
      /\ out = Zero(Currency) \/ SafeCost(out)
      /\ pc = "multiply" => SafeCost(out)
  BY <1>1 DEF SafeInv
<1>3. ASSUME NEW k \in 1 .. Len(lines)
      PROVE  lines[k].cost \in Amount /\ SafeCost(lines[k].cost)
  <2>1. k \in DOMAIN lines
    BY <1>2, <1>3 DEF TypeOK
  <2> QED
    BY <1>1, <1>2, <1>3, <2>1, LineOK DEF SafeOrder, TypeOK
<1>4. CASE AddShipping
  <2>1. SumError(total, shipping) = "nil" /\ WholeUnits(Sum(total, shipping))
    <3>1. /\ IsValid(total) /\ total.currency = Currency
          /\ total.units = 0 /\ total.nanos = 0 /\ total \in Amount
      BY <1>2, <1>4, NanosModAssumption
      DEF AddShipping, Zero, IsValid, SignMatches, ValidNanos, TypeOK
    <3>2. /\ shipping \in Amount /\ IsValid(shipping) /\ shipping.currency = Currency
          /\ shipping.units >= 1 /\ shipping.nanos >= 0 /\ total.units + shipping.units >= 1
      BY <1>1, <1>2, <3>1 DEF SafeOrder, SafeCost, TypeOK, Amount
    <3> QED
      BY <3>1, <3>2, SumReachesUnits DEF Amount
  <2> QED
    BY <1>2, <1>4, <2>1 DEF AddShipping, Panic, SafeInv
<1>5. CASE StartLine
  BY <1>2, <1>3, <1>5 DEF StartLine, SafeInv, TypeOK
<1>6. CASE MultiplyOnce
  <2>1. i \in 1 .. Len(lines) /\ SafeCost(out) /\ out \in Amount /\ WholeUnits(total)
    BY <1>2, <1>6 DEF MultiplyOnce, TypeOK
  <2>2. SumError(out, lines[i].cost) = "nil" /\ SafeCost(Sum(out, lines[i].cost))
    BY <1>3, <2>1, SafeSum
  <2> QED
    BY <1>2, <1>6, <2>1, <2>2 DEF MultiplyOnce, Panic, SafeInv
<1>7. CASE AddLine
  <2>1. SafeCost(out) /\ out \in Amount /\ total \in Amount /\ SafeCost(total)
    BY <1>2, <1>7, WholeUnitsAreSafe DEF AddLine, TypeOK
  <2>2. SumError(total, out) = "nil" /\ WholeUnits(Sum(total, out))
    BY <2>1, SafeSum
  <2> QED
    BY <1>2, <1>7, <2>1, <2>2 DEF AddLine, Panic, SafeInv
<1>8. CASE Priced
  BY <1>2, <1>8 DEF Priced, SafeInv
<1>9. CASE UNCHANGED vars
  BY <1>2, <1>9 DEF vars, SafeInv
<1> QED
  BY <1>4, <1>5, <1>6, <1>7, <1>8, <1>9 DEF Next

LEMMA SafeAlways == Spec => []SafeInv
  BY SafeInit, SafeStep, TypeCorrect, PTL DEF Spec

\* What SafeInv says of a run: zero is in the normal form, and whole units are.
LEMMA SafeMeaning == SafeInv => SafeOrderNeverPanics /\ SafeTotalIsValid
<1>1. IsValid(Zero(Currency))
  BY NanosModAssumption DEF Zero, IsValid, SignMatches, ValidNanos
<1> QED
  BY <1>1 DEF SafeInv, SafeOrderNeverPanics, SafeTotalIsValid, WholeUnits, SafeCost

\* No order of safe amounts takes the checkout process down (Must), for any
\* number of lines and items.
THEOREM NeverPanics == Spec => []SafeOrderNeverPanics
  BY SafeMeaning, SafeAlways, PTL

\* All the sums of such an order keep the normal form of demo.proto.
THEOREM SafeTotalsValid == Spec => []SafeTotalIsValid
  BY SafeMeaning, SafeAlways, PTL

-----------------------------------------------------------------------------
(* The total of the cart page.  What its sums are is proved by induction on  *)
(* the number of lines, in the form that every set of naturals has a least   *)
(* element.                                                                  *)

LEMMA LeastNatural ==
  ASSUME NEW S \in SUBSET Nat, S # {}
  PROVE  \E k \in S : \A j \in S : k <= j
<1> DEFINE R == OpToRel(<, Nat)
<1>1. \A j, k \in Nat : j < k => <<j, k>> \in R
  <2> TAKE j, k \in Nat
  <2> HAVE j < k
  <2>1. <<j, k>> \in Nat \X Nat /\ <<j, k>>[1] < <<j, k>>[2]
    OBVIOUS
  <2> QED
    BY <2>1, Zenon DEF OpToRel
<1>2. IsWellFoundedOn(R, Nat)
  BY NatLessThanWellFounded
<1> HIDE DEF R
<1>3. PICK k \in S : \A j \in S : ~(<<j, k>> \in R)
  BY <1>2, WFMin
<1>4. \A j \in S : ~(j < k)
  BY <1>1, <1>3
<1> QED
  BY <1>4

\* There is one function that adds up a list step by step, so reduced is it.
LEMMA ReducedExists ==
  ASSUME NEW list
  PROVE  \A m \in Nat :
           \E acc : acc = [k \in 0..m |-> IF k = 0 THEN 0 ELSE acc[k - 1] + list[k]]
<1> DEFINE Adds(acc, m) == acc = [k \in 0..m |-> IF k = 0 THEN 0 ELSE acc[k - 1] + list[k]]
           S == {m \in Nat : ~ \E acc : Adds(acc, m)}
<1> SUFFICES ASSUME S # {} PROVE FALSE
  OBVIOUS
<1>1. PICK m \in S : \A j \in S : m <= j
  <2> HIDE DEF S
  <2>1. S \in SUBSET Nat
    BY DEF S
  <2> QED
    BY <2>1, LeastNatural
<1>2. Adds([k \in 0..0 |-> 0], 0)
  OBVIOUS
<1>3. m \in Nat \ {0}
  BY <1>2
<1>4. PICK acc : Adds(acc, m - 1)
  BY <1>1, <1>3
<1> DEFINE longer == [k \in 0..m |-> IF k = m THEN acc[m - 1] + list[m] ELSE acc[k]]
<1>5. Adds(longer, m)
  <2>1. ASSUME NEW k \in 0..m
        PROVE  longer[k] = IF k = 0 THEN 0 ELSE longer[k - 1] + list[k]
    BY <1>3, <1>4
  <2> QED
    BY <2>1
<1> QED
  BY <1>1, <1>5

LEMMA ReducedSteps ==
  ASSUME NEW list, Len(list) \in Nat
  PROVE  /\ reduced(list)[0] = 0
         /\ \A k \in 1..Len(list) : reduced(list)[k] = reduced(list)[k - 1] + list[k]
<1> DEFINE Adds(acc) ==
      acc = [k \in 0..Len(list) |-> IF k = 0 THEN 0 ELSE acc[k - 1] + list[k]]
<1>1. \E acc : Adds(acc)
  BY ReducedExists
<1>2. reduced(list) = CHOOSE acc : Adds(acc)
  BY DEF reduced
<1>3. Adds(reduced(list))
  BY <1>1, <1>2
<1> QED
  BY <1>3

LEMMA ReducedInts ==
  ASSUME NEW list, Len(list) \in Nat, \A k \in 1..Len(list) : list[k] \in Int
  PROVE  \A k \in 0..Len(list) : reduced(list)[k] \in Int
<1> DEFINE acc == reduced(list)
           S == {k \in 0..Len(list) : acc[k] \notin Int}
<1>1. acc[0] = 0 /\ \A k \in 1..Len(list) : acc[k] = acc[k - 1] + list[k]
  BY ReducedSteps
<1> HIDE DEF acc
<1> SUFFICES ASSUME S # {} PROVE FALSE
  BY DEF acc
<1>2. PICK k \in S : \A j \in S : k <= j
  <2>1. S \in SUBSET Nat
    OBVIOUS
  <2> HIDE DEF S
  <2> QED
    BY <2>1, LeastNatural
<1>3. k \in 1..Len(list) /\ k - 1 \in 0..Len(list)
  BY <1>1
<1>4. acc[k - 1] \in Int
  BY <1>2, <1>3
<1>5. acc[k] = acc[k - 1] + list[k] /\ list[k] \in Int
  BY <1>1, <1>3
<1>6. acc[k] \in Int
  BY <1>4, <1>5
<1> QED
  BY <1>2, <1>6

LEMMA OneMoreLine ==
  ASSUME NEW e \in Int, NEW u \in Int, NEW v \in Int, NEW k \in Int, NEW j \in Int,
         NEW m \in Int
  PROVE  e + (u + v) * m + (k + j) = (e + u * m + k) + (v * m + j)
<1>1. (u + v) * m = u * m + v * m /\ u * m \in Int /\ v * m \in Int
  OBVIOUS
<1> QED
  BY <1>1

\* What the page has added up after k lines, in nanos.
Shown(k) ==
  Value(shipping) + reduced(lineUnits)[k] * NanosMod + reduced(lineNanos)[k]

LEMMA ShownSteps ==
  ASSUME TypeOK
  PROVE  /\ Shown(0) = Value(shipping)
         /\ \A k \in 1..Len(lines) : Shown(k) = Shown(k - 1) + Value(lines[k].cost)
         /\ \A k \in 0..Len(lines) : /\ reduced(lineUnits)[k] \in Int
                                     /\ reduced(lineNanos)[k] \in Int
                                     /\ Shown(k) \in Int
<1>1. Len(lines) \in Nat /\ DOMAIN lines = 1..Len(lines)
  BY DEF TypeOK
<1>2. /\ Len(lineUnits) = Len(lines) /\ Len(lineNanos) = Len(lines)
      /\ \A k \in 1..Len(lines) : /\ lineUnits[k] = lines[k].cost.units
                                  /\ lineNanos[k] = lines[k].cost.nanos
                                  /\ lineUnits[k] \in Int /\ lineNanos[k] \in Int
  <2>1. \A k \in 1..Len(lines) : lines[k].cost.units \in Int /\ lines[k].cost.nanos \in Int
    BY LineOK DEF TypeOK, Amount
  <2>2. lineUnits \in [1..Len(lines) -> Int] /\ lineNanos \in [1..Len(lines) -> Int]
    BY <1>1, <2>1 DEF lineUnits, lineNanos
  <2>3. Len(lineUnits) = Len(lines) /\ Len(lineNanos) = Len(lines)
    BY <1>1, <2>2
  <2> QED
    BY <1>1, <2>1, <2>3 DEF lineUnits, lineNanos
<1>3. /\ reduced(lineUnits)[0] = 0 /\ reduced(lineNanos)[0] = 0
      /\ \A k \in 1..Len(lines) :
           /\ reduced(lineUnits)[k] = reduced(lineUnits)[k - 1] + lineUnits[k]
           /\ reduced(lineNanos)[k] = reduced(lineNanos)[k - 1] + lineNanos[k]
  BY <1>1, <1>2, ReducedSteps
<1>4. \A k \in 0..Len(lines) : reduced(lineUnits)[k] \in Int /\ reduced(lineNanos)[k] \in Int
  BY <1>1, <1>2, ReducedInts
<1>5. Value(shipping) \in Int
  BY ValueInt DEF TypeOK
<1>6. Shown(0) = Value(shipping)
  BY <1>3, <1>5, NanosModAssumption DEF Shown
<1>7. \A k \in 0..Len(lines) : Shown(k) \in Int
  BY <1>4, <1>5, NanosModAssumption DEF Shown
<1>8. ASSUME NEW k \in 1..Len(lines) PROVE Shown(k) = Shown(k - 1) + Value(lines[k].cost)
  <2>1. k - 1 \in 0..Len(lines)
    BY <1>1
  <2>2. Value(lines[k].cost) = lineUnits[k] * NanosMod + lineNanos[k]
    BY <1>2 DEF Value
  <2> DEFINE u == reduced(lineUnits)[k - 1]
             j == reduced(lineNanos)[k - 1]
             a == lineUnits[k]
             b == lineNanos[k]
             e == Value(shipping)
  <2>3. u \in Int /\ j \in Int /\ a \in Int /\ b \in Int /\ e \in Int
    BY <1>2, <1>4, <1>5, <2>1
  <2>4. Shown(k) = e + (u + a) * NanosMod + (j + b)
    BY <1>3 DEF Shown
  <2>5. Shown(k - 1) = e + u * NanosMod + j
    BY DEF Shown
  <2> HIDE DEF u, j, a, b, e
  <2>6. e + (u + a) * NanosMod + (j + b) = (e + u * NanosMod + j) + (a * NanosMod + b)
    BY <2>3, OneMoreLine, NanosModAssumption
  <2> QED
    BY <2>2, <2>4, <2>5, <2>6 DEF a, b
<1> QED
  BY <1>4, <1>6, <1>7, <1>8

LEMMA MoreOfAnItem ==
  ASSUME NEW v \in Int, NEW q \in Int, v >= 1
  PROVE  /\ q = 1 => v * q = v
         /\ q >= 2 => v * q > v /\ v * q \in Int
<1>1. v * q = v + v * (q - 1)
  OBVIOUS
<1>2. q >= 2 => v * (q - 1) >= 1
  OBVIOUS
<1> QED
  BY <1>1, <1>2

\* Two ways to count an amount in nanos that have less than a unit of them.
LEMMA NormalFormIsOne ==
  ASSUME NEW u \in Int, NEW k \in Int, NEW v \in Int, NEW j \in Int, NEW m \in Int,
         0 <= k, k < m, 0 <= j, j < m, u * m + k = v * m + j
  PROVE  u = v /\ k = j
<1>1. (u - v) * m = j - k
  <2>1. (u - v) * m = u * m - v * m /\ u * m \in Int /\ v * m \in Int
    OBVIOUS
  <2> QED
    BY <2>1
<1>2. ~(u - v >= 1)
  <2>1. u - v >= 1 => (u - v) * m >= m
    OBVIOUS
  <2> QED
    BY <1>1, <2>1
<1>3. ~(v - u >= 1)
  <2>1. v - u >= 1 => (v - u) * m >= m
    OBVIOUS
  <2>2. (u - v) * m = -((v - u) * m) /\ (v - u) * m \in Int
    OBVIOUS
  <2> QED
    BY <1>1, <2>1, <2>2
<1>4. u = v
  BY <1>2, <1>3
<1> QED
  BY <1>1, <1>4

\* What is owed for the lines added so far is what the page has added up for
\* them, and more if there was more than one of an item.
PageInv ==
  SafeOrder =>
    /\ pc = "shipping" => due = 0 /\ i = 1
    /\ pc = "priced" => i = Len(lines) + 1
    /\ pc \in {"lines", "multiply", "priced"} =>
         IF \A k \in 1..i - 1 : lines[k].quantity = 1
         THEN due = Shown(i - 1)
         ELSE due > Shown(i - 1)

LEMMA PageInit == Init => PageInv
BY DEF Init, PageInv

\* What a line of a safe order adds: at least a nano for each of its items.
LEMMA SafeLine ==
  ASSUME TypeOK, SafeOrder, NEW k \in 1..Len(lines)
  PROVE  Value(lines[k].cost) \in Int /\ Value(lines[k].cost) >= 1
<1>1. lines[k].cost \in Amount /\ SafeCost(lines[k].cost)
  BY LineOK DEF TypeOK, SafeOrder
<1> DEFINE u == lines[k].cost.units
           f == lines[k].cost.nanos
<1>2. u \in Int /\ f \in Int /\ u >= 0 /\ f >= 0 /\ (u >= 1 \/ f >= 1)
  BY <1>1, NanosModAssumption DEF SafeCost, Amount
<1>3. Value(lines[k].cost) = u * NanosMod + f
  BY DEF Value
<1> HIDE DEF u, f
<1>4. CASE u = 0
  <2>1. u * NanosMod = 0
    BY <1>4, NanosModAssumption
  <2> QED
    BY <1>2, <1>3, <1>4, <2>1
<1>5. CASE u >= 1
  <2>1. u * NanosMod \in Int /\ u * NanosMod >= 1
    BY <1>2, <1>5, NanosModAssumption
  <2> QED
    BY <1>2, <1>3, <2>1
<1> QED
  BY <1>2, <1>4, <1>5

LEMMA PageStep == TypeOK /\ PageInv /\ [Next]_vars => PageInv'
<1> SUFFICES ASSUME TypeOK, PageInv, [Next]_vars, SafeOrder' PROVE PageInv'
  BY DEF PageInv
<1>1. lines' = lines /\ shipping' = shipping /\ \A k : Shown(k)' = Shown(k)
  BY DEF Next, AddShipping, StartLine, MultiplyOnce, AddLine, Priced, Panic, vars,
         Shown, lineUnits, lineNanos
<1>2. SafeOrder
  BY <1>1 DEF SafeOrder, SafeCost
<1>3. CASE AddShipping
  <2>1. CASE pc' = "panic"
    BY <1>1, <2>1 DEF PageInv
  <2>2. CASE pc' # "panic"
    <3>1. pc = "shipping" /\ pc' = "lines" /\ due' = due + Value(shipping) /\ i' = i
      BY <1>3, <2>2 DEF AddShipping, Panic
    <3> QED
      BY <1>1, <1>2, <3>1, ShownSteps DEF PageInv
  <2> QED
    BY <2>1, <2>2
<1>4. CASE StartLine
  BY <1>1, <1>2, <1>4 DEF StartLine, PageInv
<1>5. CASE MultiplyOnce
  <2>1. pc = "multiply" /\ pc' \in {"multiply", "panic"} /\ due' = due /\ i' = i
    BY <1>5 DEF MultiplyOnce, Panic
  <2> QED
    BY <1>1, <1>2, <2>1 DEF PageInv
<1>6. CASE AddLine
  <2>1. CASE pc' = "panic"
    BY <1>1, <2>1 DEF PageInv
  <2>2. CASE pc' # "panic"
    <3> DEFINE v == Value(lines[i].cost)
               q == lines[i].quantity
    <3>1. pc = "multiply" /\ pc' = "lines" /\ due' = due + v * q /\ i' = i + 1
      BY <1>6, <2>2 DEF AddLine, Panic
    <3>2. /\ i \in 1..Len(lines) /\ i - 1 \in 0..Len(lines)
          /\ v \in Int /\ v >= 1 /\ q \in Int /\ q >= 1
      BY <1>2, <3>1, SafeLine, LineOK, OrderTotalAssumption DEF TypeOK
    <3>3. Shown(i) = Shown(i - 1) + v /\ Shown(i - 1) \in Int /\ due \in Int
      BY <3>2, ShownSteps DEF TypeOK
    <3>4. /\ q = 1 => v * q = v
          /\ q # 1 => v * q > v /\ v * q \in Int
      <4> HIDE DEF v, q
      <4> QED
        BY <3>2, MoreOfAnItem
    <3>5. (\A k \in 1..i : lines[k].quantity = 1)
            <=> q = 1 /\ \A k \in 1..i - 1 : lines[k].quantity = 1
      BY <3>2
    <3>6. IF \A k \in 1..i - 1 : lines[k].quantity = 1
          THEN due = Shown(i - 1) ELSE due > Shown(i - 1)
      BY <1>2, <3>1 DEF PageInv
    <3> HIDE DEF v, q
    <3>7. IF \A k \in 1..i : lines[k].quantity = 1
          THEN due + v * q = Shown(i) ELSE due + v * q > Shown(i)
      <4>1. CASE \A k \in 1..i : lines[k].quantity = 1
        <5>1. q = 1 /\ due = Shown(i - 1) /\ v * q = v
          BY <3>4, <3>5, <3>6, <4>1
        <5> QED
          BY <3>2, <3>3, <4>1, <5>1
      <4>2. CASE ~(\A k \in 1..i : lines[k].quantity = 1)
        <5>1. /\ due >= Shown(i - 1) /\ v * q >= v /\ v * q \in Int
              /\ q # 1 => v * q > v
              /\ q = 1 => due > Shown(i - 1)
          BY <3>2, <3>3, <3>4, <3>5, <3>6, <4>2
        <5>2. due + v * q > Shown(i)
          BY <3>2, <3>3, <5>1
        <5> QED
          BY <4>2, <5>2
      <4> QED
        BY <4>1, <4>2
    <3>8. i' - 1 = i
      BY <3>1, <3>2
    <3> QED
      BY <1>1, <3>1, <3>7, <3>8 DEF PageInv
  <2> QED
    BY <2>1, <2>2
<1>7. CASE Priced
  <2>1. i = Len(lines) + 1
    BY <1>7 DEF Priced, TypeOK
  <2> QED
    BY <1>1, <1>2, <1>7, <2>1 DEF Priced, PageInv
<1>8. CASE UNCHANGED vars
  BY <1>1, <1>2, <1>8 DEF vars, PageInv
<1> QED
  BY <1>3, <1>4, <1>5, <1>6, <1>7, <1>8 DEF Next

\* The page's total, worth what it has added up for all lines, in normal form.
LEMMA TotalOfPage ==
  ASSUME TypeOK
  PROVE  /\ Total(shipping).units \in Int /\ Total(shipping).nanos \in Int
         /\ Value(Total(shipping)) = Shown(Len(lines))
         /\ 0 <= Total(shipping).nanos /\ Total(shipping).nanos < NanosMod
<1> DEFINE u == unitSum(shipping)
           k == nanoSum(shipping)
<1>1. Len(lines) \in 0..Len(lines) /\ shipping.units \in Int /\ shipping.nanos \in Int
  BY DEF TypeOK, Amount
<1>2. u \in Int /\ k \in Int /\ Shown(Len(lines)) = u * NanosMod + k
  <2> DEFINE us == reduced(lineUnits)[Len(lines)]
             ns == reduced(lineNanos)[Len(lines)]
             su == shipping.units
             sk == shipping.nanos
  <2>1. us \in Int /\ ns \in Int /\ su \in Int /\ sk \in Int
    BY <1>1, ShownSteps
  <2>2. u = us + su /\ k = ns + sk
    BY DEF unitSum, nanoSum
  <2>3. Shown(Len(lines)) = (su * NanosMod + sk) + us * NanosMod + ns
    BY DEF Shown, Value
  <2> HIDE DEF us, ns, su, sk, u, k
  <2>4. (us + su) * NanosMod = us * NanosMod + su * NanosMod
        /\ us * NanosMod \in Int /\ su * NanosMod \in Int
    BY <2>1, NanosModAssumption
  <2> QED
    BY <2>1, <2>2, <2>3, <2>4
<1>3. /\ Total(shipping).units = u + k \div NanosMod
      /\ Total(shipping).nanos = k % NanosMod
  BY DEF Total
<1> HIDE DEF u, k
<1> DEFINE d == k \div NanosMod
           r == k % NanosMod
<1>4. d \in Int /\ r \in Int /\ 0 <= r /\ r < NanosMod /\ k = NanosMod * d + r
  BY <1>2, NanosModAssumption
<1> HIDE DEF d, r
<1>5. (u + d) * NanosMod + r = u * NanosMod + k
  <2>1. (u + d) * NanosMod = u * NanosMod + NanosMod * d
        /\ u * NanosMod \in Int /\ NanosMod * d \in Int
    BY <1>2, <1>4, NanosModAssumption
  <2> QED
    BY <1>2, <1>4, <2>1
<1> QED
  BY <1>2, <1>3, <1>4, <1>5 DEF Value, d, r

\* The total on the cart page (CartItems.tsx:37) is what the card is charged,
\* digit by digit, for one item of each product, and less with more of one.
THEOREM PageTotalCharged == Spec => []PageTotalIsCharged
<1>1. ExactInv /\ SafeInv /\ PageInv => PageTotalIsCharged
  <2> SUFFICES ASSUME ExactInv, SafeInv, PageInv, pc = "priced", SafeOrder
               PROVE  IF \A k \in DOMAIN lines : lines[k].quantity = 1
                      THEN Total(shipping) = total
                      ELSE Value(Total(shipping)) < Value(total)
    BY DEF PageTotalIsCharged
  <2>1. TypeOK /\ Value(total) = due /\ WholeUnits(total)
    BY DEF ExactInv, SafeInv
  <2>2. /\ i - 1 = Len(lines) /\ DOMAIN lines = 1..i - 1
        /\ IF \A k \in 1..i - 1 : lines[k].quantity = 1
           THEN due = Shown(i - 1) ELSE due > Shown(i - 1)
    BY <2>1 DEF PageInv, TypeOK
  <2>3. Value(Total(shipping)) = Shown(i - 1) /\ Shown(i - 1) \in Int /\ due \in Int
    BY <2>1, <2>2, TotalOfPage, ShownSteps DEF TypeOK
  <2>4. CASE \A k \in DOMAIN lines : lines[k].quantity = 1
    <3>1. Value(Total(shipping)) = Value(total)
      BY <2>1, <2>2, <2>3, <2>4
    <3>2. /\ total \in Amount /\ total.currency = Currency
          /\ 0 <= total.nanos /\ total.nanos < NanosMod
      BY <2>1 DEF WholeUnits, IsValid, ValidNanos, TypeOK
    <3>3. total.units = Total(shipping).units /\ total.nanos = Total(shipping).nanos
      <4> DEFINE u == total.units
                 k == total.nanos
                 v == Total(shipping).units
                 j == Total(shipping).nanos
      <4>1. /\ u \in Int /\ k \in Int /\ v \in Int /\ j \in Int
            /\ 0 <= k /\ k < NanosMod /\ 0 <= j /\ j < NanosMod
        BY <2>1, <3>2, TotalOfPage DEF Amount
      <4>2. u * NanosMod + k = v * NanosMod + j
        BY <3>1 DEF Value
      <4> HIDE DEF u, k, v, j
      <4>3. u = v /\ k = j
        BY <4>1, <4>2, NormalFormIsOne, NanosModAssumption
      <4> QED
        BY <4>3 DEF u, k, v, j
    <3>4. total = [currency |-> Currency, units |-> Total(shipping).units,
                   nanos |-> Total(shipping).nanos]
      BY <3>2, <3>3 DEF Amount
    <3> QED
      BY <2>4, <3>4 DEF Total
  <2>5. CASE ~(\A k \in DOMAIN lines : lines[k].quantity = 1)
    BY <2>1, <2>2, <2>3, <2>5
  <2> QED
    BY <2>4, <2>5
<1>2. ExactInv => TypeOK
  BY DEF ExactInv
<1> QED
  BY <1>1, <1>2, PageInit, PageStep, ExactAlways, SafeAlways, PTL DEF Spec
=============================================================================
