---------------------------- MODULE FrontendProofs ----------------------------
(***************************************************************************)
(* Proofs about the frontend: its prices (Prices) and its gRPC clients     *)
(* (Rpc, over the messages of DemoProto).                                  *)
(*                                                                         *)
(* What a page shows is what checkout charges, and shipping costs what was *)
(* quoted, for every table of rates, every price and every quote: two ways *)
(* through the currency service that read the same digits end at most a    *)
(* nano apart, and in dollars where they began.                            *)
(*                                                                         *)
(* What is written is read, in any order of the fields, or refused, and    *)
(* JSON keeps it, for every message of every call.                         *)
(***************************************************************************)
EXTENDS Prices, Rpc, TLAPS

-----------------------------------------------------------------------------
(* Prices. *)

\* The rate Convert finds for a code.
RateOf(code) == IF code \in DOMAIN Rate THEN Rate[code] ELSE 0

\* The answers Convert may give for an amount of dollars.
Answers(m, code) ==
  {MoneyOf(code, n) : n \in Truncated(GetDouble(m) * RateOf(code), Rate["USD"])}

\* What a page may show for a price, and what checkout may charge for it.
Showable(p, code) == IF code = "USD" THEN {MoneyOf("USD", p)} ELSE Answers(MoneyOf("USD", p), code)
Chargeable(p, code) == Answers(MoneyOf("USD", p), code)

\* The table differs from the rates only by codes nobody has a rate for.
TableHasRates ==
  /\ DOMAIN Rate \subseteq DOMAIN table
  /\ DOMAIN table \subseteq DOMAIN Rate \cup UnknownCodes
  /\ \A c \in DOMAIN table : table[c] = RateOf(c)

PricesKnown ==
  /\ price \in Prices
  /\ selected \in DOMAIN Rate \cup UnknownCodes

\* The page shows a price it was given, in the currency that is selected, and the
\* order has one, though perhaps another price and another currency.
ShownWasConverted ==
  shown # None =>
    \E p \in Prices : \E m \in Showable(p, selected) :
      shown = [price |-> p, code |-> selected, cost |-> m]

OrderWasConverted ==
  order # None =>
    \E p \in Prices, code \in DOMAIN Rate \cup UnknownCodes, tenths \in Quotes :
      \E m \in Chargeable(p, code), quote \in GetQuote(tenths) :
        \E shipping \in Answers(quote, code) :
          order = [price |-> p, code |-> code, cost |-> m,
                   tenths |-> tenths, shipping |-> shipping]

PricesInv == TableHasRates /\ PricesKnown /\ ShownWasConverted /\ OrderWasConverted

-----------------------------------------------------------------------------
(* Digits. *)

\* Nanos are counted in hundredths: a cent is a whole number of them.
LEMMA CentsAndTenths ==
  /\ Cent \in Nat \ {0} /\ NanosMod = 100 * Cent /\ NanosMod \div 10 = 10 * Cent
  /\ NanosMod \in Nat /\ NanosMod >= 100
<1>1. PICK p \in PowersOfTen \ {1} : NanosMod = 10 * p
  BY PricesAssumption
<1>2. NanosMod \in {100, 1000, 10000, 100000, 1000000, 10000000, 100000000, 1000000000}
  BY <1>1 DEF PowersOfTen
<1> QED
  BY <1>2 DEF Cent

\* Division by a positive number leaves a remainder below it.
LEMMA DivisionRemains ==
  ASSUME NEW n \in Int, NEW d \in Nat \ {0}
  PROVE  /\ n \div d \in Int /\ n % d \in 0 .. d - 1
         /\ n = d * (n \div d) + (n % d)
OBVIOUS

LEMMA QuotientOfProduct ==
  ASSUME NEW a \in Int, NEW d \in Nat \ {0}
  PROVE  (a * d) \div d = a /\ (a * d) % d = 0
<1> DEFINE q == (a * d) \div d
           r == (a * d) % d
<1>1. q \in Int /\ r \in 0 .. d - 1 /\ a * d = d * q + r
  <2>1. a * d \in Int
    OBVIOUS
  <2> QED
    BY <2>1, DivisionRemains
<1> HIDE DEF q, r
<1>2. d * (a - q) = r
  BY <1>1
<1>3. a - q < 1
  <2>1. SUFFICES ASSUME a - q >= 1 PROVE FALSE
    BY <1>1
  <2>2. d * (a - q) >= d
    BY <1>1, <2>1
  <2> QED
    BY <1>1, <1>2, <2>2
<1>4. a - q > -1
  <2>1. SUFFICES ASSUME a - q <= -1 PROVE FALSE
    BY <1>1
  <2>2. d * (a - q) <= -d
    BY <1>1, <2>1
  <2> QED
    BY <1>1, <1>2, <2>2
<1>5. a = q
  BY <1>1, <1>3, <1>4
<1> QED
  BY <1>1, <1>2, <1>5 DEF q, r

\* An amount is worth the nanos it was made of.
LEMMA WorthItsNanos ==
  ASSUME NEW c, NEW n \in Int
  PROVE  /\ Value(MoneyOf(c, n)) = n /\ MoneyOf(c, n).currency = c
         /\ MoneyOf(c, n).units \in Int /\ MoneyOf(c, n).nanos \in 0 .. NanosMod - 1
         /\ n >= 0 => MoneyOf(c, n).units >= 0
<1>1. NanosMod \in Nat \ {0}
  BY CentsAndTenths
<1>2. /\ n \div NanosMod \in Int /\ n % NanosMod \in 0 .. NanosMod - 1
      /\ n = NanosMod * (n \div NanosMod) + (n % NanosMod)
  BY <1>1, DivisionRemains
<1>3. n >= 0 => n \div NanosMod >= 0
  BY <1>1
<1> QED
  BY <1>1, <1>2, <1>3 DEF MoneyOf, Value

\* getDouble reads a fraction of as many digits as it has; it is right about one
\* with a digit other than zero after the point.
LEMMA FractionRead ==
  ASSUME NEW nanos \in 0 .. NanosMod - 1
  PROVE  /\ Fraction(nanos) \in 0 .. NanosMod - 1
         /\ nanos = 0 \/ nanos >= NanosMod \div 10 => Fraction(nanos) = nanos
<1> DEFINE tenth == NanosMod \div 10
           In(n) == tenth <= n /\ n < NanosMod
           readings == {nanos * p : p \in Scales}
<1>1. CASE nanos = 0
  BY <1>1, CentsAndTenths DEF Fraction
<1>2. CASE nanos # 0
  <2>1. NanosMod \in {100, 1000, 10000, 100000, 1000000, 10000000, 100000000, 1000000000}
    BY PricesAssumption DEF PowersOfTen
  <2>2. \E p \in Scales : In(nanos * p)
    <3> SUFFICES ASSUME \A p \in Scales : ~In(nanos * p) PROVE FALSE
      OBVIOUS
    <3>1. PICK top \in PowersOfTen : NanosMod = 10 * top /\ tenth = top
      BY PricesAssumption, <2>1 DEF PowersOfTen
    <3>2. ASSUME NEW p \in PowersOfTen, p <= top, nanos * p < NanosMod
          PROVE  nanos * p < top
      <4>1. p \in Nat /\ top \in Nat /\ nanos \in Nat
        BY <2>1 DEF PowersOfTen
      <4>2. p \in Scales
        BY <3>1, <3>2, <4>1 DEF Scales, PowersOfTen
      <4>3. ~In(nanos * p)
        BY <4>2
      <4> QED
        BY <3>1, <3>2, <4>1, <4>3
    <3>3. ASSUME NEW p \in PowersOfTen, p < top, nanos * p < top
          PROVE  nanos * (10 * p) < top
      <4>1. nanos * (10 * p) < NanosMod
        BY <3>1, <3>3 DEF PowersOfTen
      <4>2. 10 * p \in PowersOfTen /\ 10 * p <= top
        BY <3>1, <3>3 DEF PowersOfTen
      <4> QED
        BY <4>1, <4>2, <3>2
    <3>4. nanos * 1 < top
      BY <3>1, <3>2 DEF PowersOfTen
    <3>5. nanos * top < top
      <4> DEFINE Low(p) == p <= top => nanos * p < top
      <4>1. \A p \in PowersOfTen : Low(p) /\ p < top => Low(10 * p)
        <5>1. \A p \in PowersOfTen : p \in Nat /\ top \in Nat
          BY DEF PowersOfTen
        <5> QED
          BY <3>3, <5>1
      <4>2. Low(1) /\ Low(10) /\ Low(100) /\ Low(1000) /\ Low(10000)
        BY <3>1, <3>4, <4>1 DEF PowersOfTen
      <4>3. Low(100000) /\ Low(1000000) /\ Low(10000000) /\ Low(100000000)
        BY <3>1, <4>1, <4>2 DEF PowersOfTen
      <4> QED
        BY <3>1, <4>2, <4>3 DEF PowersOfTen
    <3> QED
      BY <1>2, <3>1, <3>5 DEF PowersOfTen
  <2>3. Fraction(nanos) = CHOOSE n \in readings : In(n)
    BY <1>2 DEF Fraction
  <2>4. Fraction(nanos) \in readings /\ In(Fraction(nanos))
    BY <2>2, <2>3
  <2>5. PICK p \in Scales : Fraction(nanos) = nanos * p /\ In(nanos * p)
    BY <2>4
  <2>6. p \in Nat /\ (p = 1 \/ p >= 10)
    BY DEF Scales, PowersOfTen
  <2>7. Fraction(nanos) \in 0 .. NanosMod - 1
    BY <2>5, <2>6, CentsAndTenths
  <2>8. ASSUME nanos >= tenth PROVE p = 1
    <3>1. SUFFICES ASSUME p >= 10 PROVE FALSE
      BY <2>6
    <3>2. nanos * p >= nanos * 10
      BY <2>6, <3>1
    <3>3. nanos * 10 >= NanosMod
      BY <2>8, CentsAndTenths
    <3> QED
      BY <2>5, <2>6, <3>2, <3>3, CentsAndTenths
  <2> QED
    BY <1>2, <2>5, <2>7, <2>8
<1> QED
  BY <1>1, <1>2

\* What Convert finds for an amount, and that it finds an amount read right again
\* where it is asked for dollars.
LEMMA DoubleRead ==
  ASSUME NEW m, m.units \in Nat, m.nanos \in 0 .. NanosMod - 1
  PROVE  /\ GetDouble(m) \in Nat
         /\ m.nanos = 0 \/ m.nanos >= NanosMod \div 10 => GetDouble(m) = Value(m)
BY FractionRead, CentsAndTenths DEF GetDouble, Value

LEMMA RatesAreRates ==
  ASSUME NEW code PROVE RateOf(code) \in Nat /\ Rate["USD"] \in Nat \ {0}
BY PricesAssumption DEF RateOf

LEMMA TruncatedNumbers ==
  ASSUME NEW n \in Nat, NEW d \in Nat \ {0}
  PROVE  /\ \A k \in Truncated(n, d) : k \in Nat
         /\ \A j, k \in Truncated(n, d) : Distance(j, k) <= 1
<1>1. n \div d \in Nat
  OBVIOUS
<1>2. n % d = 0 /\ n > 0 => n \div d >= 1
  <2>1. n = d * (n \div d) + (n % d)
    BY DivisionRemains
  <2> QED
    BY <1>1, <2>1
<1> DEFINE q == n \div d
<1>3. /\ Truncated(n, d) \subseteq {q, q - 1}
      /\ q - 1 \in Truncated(n, d) => q >= 1
  BY <1>1, <1>2 DEF Truncated
<1> HIDE DEF q
<1> QED
  BY <1>1, <1>3 DEF Distance, q
\* An amount of nanos can be paid.
LEMMA PayableMoney ==
  ASSUME NEW code, NEW n \in Nat
  PROVE  IsCost(MoneyOf(code, n), code)
BY WorthItsNanos, CentsAndTenths DEF IsCost, IsValid, SignMatches, ValidNanos

\* Two answers to one question are at most a nano apart; one in dollars is worth
\* what getDouble read of the question, or a nano less.
LEMMA AnswersAreClose ==
  ASSUME NEW m, m.units \in Nat, m.nanos \in 0 .. NanosMod - 1, NEW code
  PROVE  /\ \A x \in Answers(m, code) : IsCost(x, code)
         /\ \A x, y \in Answers(m, code) : Distance(Value(x), Value(y)) <= 1
         /\ code = "USD" =>
              \A x \in Answers(m, code) : Value(x) \in {GetDouble(m), GetDouble(m) - 1}
<1> DEFINE d == GetDouble(m)
           found == d * RateOf(code)
           dollar == Rate["USD"]
<1>1. d \in Nat /\ RateOf(code) \in Nat /\ dollar \in Nat \ {0}
  BY DoubleRead, RatesAreRates
<1>2. found \in Nat
  BY <1>1
<1>3. /\ \A k \in Truncated(found, dollar) : k \in Nat
      /\ \A j, k \in Truncated(found, dollar) : Distance(j, k) <= 1
  BY <1>1, <1>2, TruncatedNumbers
<1>4. \A x \in Answers(m, code) :
        \E n \in Truncated(found, dollar) : n \in Nat /\ x = MoneyOf(code, n) /\ Value(x) = n
  BY <1>3, WorthItsNanos DEF Answers
<1>5. code = "USD" => Truncated(found, dollar) \subseteq {d, d - 1}
  <2>1. ASSUME code = "USD" PROVE found \div dollar = d
    <3>1. RateOf(code) = dollar
      BY <2>1, PricesAssumption DEF RateOf
    <3> QED
      BY <1>1, <3>1, QuotientOfProduct
  <2> QED
    BY <2>1 DEF Truncated
<1>6. \A x \in Answers(m, code) : IsCost(x, code)
  BY <1>4, PayableMoney
<1>7. \A x, y \in Answers(m, code) : Distance(Value(x), Value(y)) <= 1
  BY <1>3, <1>4
<1>8. code = "USD" => \A x \in Answers(m, code) : Value(x) \in {d, d - 1}
  BY <1>4, <1>5
<1> QED
  BY <1>6, <1>7, <1>8

LEMMA PriceInDollars ==
  ASSUME NEW p \in Prices
  PROVE  /\ MoneyOf("USD", p).units \in Nat /\ MoneyOf("USD", p).nanos \in 0 .. NanosMod - 1
         /\ Value(MoneyOf("USD", p)) = p /\ MoneyOf("USD", p).nanos = p % NanosMod
         /\ MoneyOf("USD", p).currency = "USD"
<1>1. p \in Nat
  BY PricesAssumption
<1>2. MoneyOf("USD", p).nanos = p % NanosMod
  BY DEF MoneyOf
<1> QED
  BY <1>1, <1>2, WorthItsNanos

\* A quote is as many cents as its tenths make, or one less.
LEMMA QuoteInDollars ==
  ASSUME NEW tenths \in Quotes, NEW quote \in GetQuote(tenths)
  PROVE  /\ quote.units \in Nat /\ quote.nanos \in 0 .. NanosMod - 1
         /\ quote.currency = "USD"
         /\ tenths % 10 # 1 => Distance(GetDouble(quote), tenths * (NanosMod \div 10)) <= Cent
<1> DEFINE t == tenths % 10
           u == tenths \div 10
<1>1. tenths \in Nat /\ t \in 0 .. 9 /\ u \in Nat /\ tenths = 10 * u + t
  BY PricesAssumption
<1>2. PICK c : /\ quote = [currency |-> "USD", units |-> u, nanos |-> c * Cent]
               /\ c = t * 10 \/ (t > 0 /\ c = t * 10 - 1)
  <2> DEFINE cents == t * 10
             Of(c) == [currency |-> "USD", units |-> u, nanos |-> c * Cent]
  <2>1. quote \in {Of(c) : c \in {cents} \cup IF cents > 0 THEN {cents - 1} ELSE {}}
    BY DEF GetQuote
  <2>2. PICK c \in {cents} \cup IF cents > 0 THEN {cents - 1} ELSE {} : quote = Of(c)
    BY <2>1
  <2>3. c = cents \/ (cents > 0 /\ c = cents - 1)
    OBVIOUS
  <2>4. cents > 0 => t > 0
    BY <1>1
  <2> QED
    BY <2>2, <2>3, <2>4
<1> HIDE DEF t, u
<1>3. c \in 0 .. 90
  BY <1>1, <1>2
<1>4. c * Cent \in 0 .. NanosMod - 1
  BY <1>3, CentsAndTenths
<1>5. ASSUME t # 1 PROVE Distance(GetDouble(quote), tenths * (NanosMod \div 10)) <= Cent
  <2>1. c = 0 \/ c >= 10
    BY <1>1, <1>2, <1>5
  <2>2. c * Cent = 0 \/ c * Cent >= NanosMod \div 10
    BY <1>3, <2>1, CentsAndTenths
  <2>3. GetDouble(quote) = u * NanosMod + c * Cent
    BY <1>1, <1>2, <1>4, <2>2, DoubleRead DEF Value
  <2>4. tenths * (NanosMod \div 10) = u * NanosMod + (t * 10) * Cent
    BY <1>1, CentsAndTenths
  <2>5. c * Cent = (t * 10) * Cent \/ c * Cent = (t * 10) * Cent - Cent
    BY <1>1, <1>2, CentsAndTenths
  <2> DEFINE whole == u * NanosMod
             part == (t * 10) * Cent
  <2>6. whole \in Int /\ part \in Int /\ Cent \in Nat
    BY <1>1, CentsAndTenths
  <2> HIDE DEF whole, part
  <2>7. GetDouble(quote) \in {whole + part, whole + (part - Cent)}
    BY <2>3, <2>5 DEF whole, part
  <2>8. tenths * (NanosMod \div 10) = whole + part
    BY <2>4 DEF whole, part
  <2> QED
    BY <2>6, <2>7, <2>8 DEF Distance
<1> QED
  BY <1>1, <1>2, <1>4, <1>5 DEF t

-----------------------------------------------------------------------------
(* The invariant. *)

\* A lookup leaves the rates alone, and finds them.
LEMMA LookupFindsRate ==
  ASSUME TableHasRates, NEW code \in DOMAIN Rate \cup UnknownCodes
  PROVE  /\ Looked(table, code)[code] = RateOf(code)
         /\ table' = Looked(table, code) => TableHasRates'
<1>1. \A c \in DOMAIN table \cup {code} : Looked(table, code)[c] = RateOf(c)
  BY DEF TableHasRates, Looked, RateOf
<1>2. DOMAIN Looked(table, code) = DOMAIN table \cup {code}
  BY DEF Looked
<1> QED
  BY <1>1, <1>2 DEF TableHasRates

LEMMA ConvertAnswers ==
  ASSUME TableHasRates, NEW code \in DOMAIN Rate \cup UnknownCodes, NEW m,
         m.currency = "USD"
  PROVE  Converted(m, code) = Answers(m, code)
BY LookupFindsRate DEF Converted, Answers

LEMMA PricesInvInit == PricesInit => PricesInv
BY PricesAssumption
DEF PricesInit, PricesInv, TableHasRates, PricesKnown, ShownWasConverted, OrderWasConverted, RateOf

LEMMA PricesInvNext == PricesInv /\ [PricesNext]_pricesVars => PricesInv'
<1> SUFFICES ASSUME PricesInv, [PricesNext]_pricesVars PROVE PricesInv'
  OBVIOUS
<1>1. ASSUME NEW p \in Prices, Reload(p) PROVE PricesInv'
  BY <1>1 DEF Reload, PricesInv, TableHasRates, PricesKnown, ShownWasConverted, OrderWasConverted
<1>2. ASSUME NEW c \in DOMAIN Rate \cup UnknownCodes, SelectCurrency(c) PROVE PricesInv'
  BY <1>2
  DEF SelectCurrency, PricesInv, TableHasRates, PricesKnown, ShownWasConverted, OrderWasConverted
<1>3. CASE ShowProduct
  <2>1. TableHasRates'
    <3>1. CASE selected = "USD"
      BY <1>3, <3>1 DEF ShowProduct, PricesInv, TableHasRates
    <3>2. CASE selected # "USD"
      BY <1>3, <3>2, LookupFindsRate DEF ShowProduct, PricesInv, PricesKnown
    <3> QED
      BY <3>1, <3>2
  <2>2. PICK m \in Showable(price, selected) :
          shown' = [price |-> price, code |-> selected, cost |-> m]
    <3>1. selected # "USD" =>
            Converted(MoneyOf("USD", price), selected) = Answers(MoneyOf("USD", price), selected)
      BY PriceInDollars, ConvertAnswers DEF PricesInv, PricesKnown
    <3> QED
      BY <1>3, <3>1 DEF ShowProduct, Showable
  <2>3. PricesKnown' /\ ShownWasConverted' /\ OrderWasConverted'
    BY <1>3, <2>2 DEF ShowProduct, PricesInv, PricesKnown, ShownWasConverted, OrderWasConverted
  <2> QED
    BY <2>1, <2>3 DEF PricesInv
<1>4. ASSUME NEW tenths \in Quotes, PlaceOrder(tenths) PROVE PricesInv'
  <2>1. TableHasRates'
    BY <1>4, LookupFindsRate DEF PlaceOrder, PricesInv, PricesKnown
  <2>2. PICK m \in ItemCosts(price, selected), quote \in GetQuote(tenths) :
          \E shipping \in Converted(quote, selected) :
            order' = [price |-> price, code |-> selected, cost |-> m,
                      tenths |-> tenths, shipping |-> shipping]
    BY <1>4 DEF PlaceOrder
  <2>3. m \in Chargeable(price, selected)
    BY PriceInDollars, ConvertAnswers DEF ItemCosts, Chargeable, PricesInv, PricesKnown
  <2>4. Converted(quote, selected) = Answers(quote, selected)
    BY QuoteInDollars, ConvertAnswers DEF PricesInv, PricesKnown
  <2>5. OrderWasConverted'
    BY <2>2, <2>3, <2>4 DEF PricesInv, PricesKnown, OrderWasConverted
  <2>6. PricesKnown' /\ ShownWasConverted'
    BY <1>4 DEF PlaceOrder, PricesInv, PricesKnown, ShownWasConverted
  <2> QED
    BY <2>1, <2>5, <2>6 DEF PricesInv
<1>5. CASE UNCHANGED pricesVars
  BY <1>5 DEF pricesVars, PricesInv, TableHasRates, PricesKnown, ShownWasConverted, OrderWasConverted
<1> QED
  BY <1>1, <1>2, <1>3, <1>4, <1>5 DEF PricesNext

LEMMA AlwaysPricesInv == PricesSpec => []PricesInv
BY PricesInvInit, PricesInvNext, PTL DEF PricesSpec

-----------------------------------------------------------------------------

\* The table keeps every rate it began with and finds none for another code, and
\* what a page shows and an order says can be paid, in the currency it is in.
THEOREM PricesTypeCorrect == PricesSpec => []PricesTypeOK
<1>1. PricesInv => PricesTypeOK
  <2> SUFFICES ASSUME PricesInv PROVE PricesTypeOK
    OBVIOUS
  <2>1. \A code : \A p \in Prices : \A m \in Chargeable(p, code) : IsCost(m, code)
    BY PriceInDollars, AnswersAreClose DEF Chargeable
  <2>2. \A code : \A p \in Prices : \A m \in Showable(p, code) : IsCost(m, code)
    BY <2>1, PayableMoney, PricesAssumption DEF Showable, Chargeable
  <2>3. \A code : \A tenths \in Quotes : \A quote \in GetQuote(tenths) :
          \A m \in Answers(quote, code) : IsCost(m, code)
    BY QuoteInDollars, AnswersAreClose
  <2>4. shown # None => shown.code = selected /\ IsCost(shown.cost, shown.code)
    BY <2>2 DEF PricesInv, ShownWasConverted
  <2>5. order # None => IsCost(order.cost, order.code) /\ IsCost(order.shipping, order.code)
    BY <2>1, <2>3 DEF PricesInv, OrderWasConverted
  <2> QED
    BY <2>4, <2>5 DEF PricesTypeOK, PricesInv, TableHasRates, PricesKnown, RateOf
<1> QED
  BY <1>1, AlwaysPricesInv, PTL

\* Whichever of the two ways a price took, the order's is at most a nano from the
\* page's - the frontend's dollars, which are not converted, included, if the
\* currency service reads their fraction right.
THEOREM ChargeMatchesPage == PricesSpec => []ChargedAsShown
<1>1. PricesInv => ChargedAsShown
  <2> SUFFICES ASSUME PricesInv, shown # None, order # None,
                      order.price = shown.price, order.code = shown.code,
                      order.code = "USD" => WholeDigits(order.price)
               PROVE  Distance(Value(order.cost), Value(shown.cost)) <= 1
    BY DEF ChargedAsShown
  <2> DEFINE p == order.price
             code == order.code
  <2>1. p \in Prices /\ order.cost \in Chargeable(p, code)
    BY DEF PricesInv, OrderWasConverted
  <2> HIDE DEF p, code
  <2>2. shown.cost \in Showable(p, code)
    <3>1. PICK q \in Prices : \E m \in Showable(q, selected) :
            shown = [price |-> q, code |-> selected, cost |-> m]
      BY DEF PricesInv, ShownWasConverted
    <3>2. PICK m \in Showable(q, selected) :
            shown = [price |-> q, code |-> selected, cost |-> m]
      BY <3>1
    <3>3. shown.price = q /\ shown.code = selected /\ shown.cost = m
      BY <3>2
    <3>4. q = p /\ selected = code
      BY <3>3 DEF p, code
    <3> QED
      BY <3>3, <3>4
  <2>3. CASE code # "USD"
    BY <2>1, <2>2, <2>3, PriceInDollars, AnswersAreClose DEF Showable, Chargeable
  <2>4. CASE code = "USD"
    <3>1. Value(shown.cost) = p /\ p \in Nat
      BY <2>1, <2>2, <2>4, PriceInDollars, PricesAssumption DEF Showable
    <3>2. GetDouble(MoneyOf("USD", p)) = p
      BY <2>1, <2>4, PriceInDollars, DoubleRead DEF WholeDigits, p, code
    <3>3. Value(order.cost) \in {p, p - 1}
      BY <2>1, <2>4, <3>2, PriceInDollars, AnswersAreClose DEF Chargeable
    <3> QED
      BY <3>1, <3>3 DEF Distance
  <2> QED
    BY <2>3, <2>4
<1> QED
  BY <1>1, AlwaysPricesInv, PTL

\* The shipping in a dollar order is at most a cent and a nano from the quote, but
\* for a quote of one tenth that lost its cent.
THEOREM ShippingMatchesQuote == PricesSpec => []ShippingAsQuoted
<1>1. PricesInv => ShippingAsQuoted
  <2> SUFFICES ASSUME PricesInv, order # None, order.code = "USD", order.tenths % 10 # 1
               PROVE  Distance(Value(order.shipping), order.tenths * (NanosMod \div 10))
                        <= Cent + 1
    BY DEF ShippingAsQuoted
  <2>1. PICK tenths \in Quotes :
          /\ order.tenths = tenths
          /\ \E quote \in GetQuote(tenths) : order.shipping \in Answers(quote, "USD")
    BY DEF PricesInv, OrderWasConverted
  <2>2. PICK quote \in GetQuote(tenths) : order.shipping \in Answers(quote, "USD")
    BY <2>1
  <2> DEFINE asked == tenths * (NanosMod \div 10)
             d == GetDouble(quote)
  <2>3. Distance(d, asked) <= Cent /\ d \in Nat /\ Value(order.shipping) \in {d, d - 1}
    BY <2>1, <2>2, QuoteInDollars, DoubleRead, AnswersAreClose
  <2>4. asked \in Int /\ Cent \in Int
    BY <2>1, PricesAssumption, CentsAndTenths
  <2> HIDE DEF asked, d
  <2>5. Distance(Value(order.shipping), asked) <= Cent + 1
    BY <2>3, <2>4 DEF Distance
  <2> QED
    BY <2>1, <2>5 DEF asked
<1> QED
  BY <1>1, AlwaysPricesInv, PTL

-----------------------------------------------------------------------------
(* The lemmas of MessageProofs, at each depth of nesting. *)

P1 == INSTANCE MessageProofs WITH
  NestedType <- NoType, NestedIs <- Never, NestedInt64s <- NoInt64s,
  NestedEncode <- Kept, NestedDecode <- Kept, NestedRefuses <- Never,
  NestedToJSON <- Kept, NestedStringified <- Kept, NestedFromPartial <- Kept

P2 == INSTANCE MessageProofs WITH
  NestedType <- Depth1!IsType, NestedIs <- Depth1!Is, NestedInt64s <- Depth1!Int64s,
  NestedEncode <- Depth1!Encode, NestedDecode <- Depth1!Decode, NestedRefuses <- Depth1!Refuses,
  NestedToJSON <- Depth1!ToJSON, NestedStringified <- Depth1!Stringified,
  NestedFromPartial <- Depth1!FromPartial

P3 == INSTANCE MessageProofs WITH
  NestedType <- Depth2!IsType, NestedIs <- Depth2!Is, NestedInt64s <- Depth2!Int64s,
  NestedEncode <- Depth2!Encode, NestedDecode <- Depth2!Decode, NestedRefuses <- Depth2!Refuses,
  NestedToJSON <- Depth2!ToJSON, NestedStringified <- Depth2!Stringified,
  NestedFromPartial <- Depth2!FromPartial

P4 == INSTANCE MessageProofs WITH
  NestedType <- Depth3!IsType, NestedIs <- Depth3!Is, NestedInt64s <- Depth3!Int64s,
  NestedEncode <- Depth3!Encode, NestedDecode <- Depth3!Decode, NestedRefuses <- Depth3!Refuses,
  NestedToJSON <- Depth3!ToJSON, NestedStringified <- Depth3!Stringified,
  NestedFromPartial <- Depth3!FromPartial

LEMMA Faithful1 == P1!Faithful
<1>1. P1!NestedFaithful
  BY DEF P1!NestedFaithful, NoType
<1> QED
  BY <1>1, MaxSafeAssumption, P1!FaithfulIfNested

LEMMA Nested2 == P1!Faithful => P2!NestedFaithful
BY Zenon DEF P1!Faithful, P2!NestedFaithful, P2!Safe,
    P1!IsType, P1!IsField, P1!MaxNum, P1!Fields, P1!FieldNames, P1!FieldOf,
    P1!Default, P1!Base, P1!WireType, P1!Tagged, P1!PutField, P1!Written,
    P1!Encode, P1!CasesFor, P1!CaseFor, P1!Received, P1!Put, P1!Take, P1!Read,
    P1!Merge, P1!Decode, P1!Safe, P1!Throws, P1!Refuses, P1!ValueToJSON,
    P1!ToJSON, P1!ValueStringified, P1!Stringified, P1!ValueFromPartial,
    P1!FromPartial, P1!IsList, P1!IsElement, P1!IsValue, P1!Is, P1!Int64sIn,
    P1!Int64s, Depth1!IsType, Depth1!IsField, Depth1!MaxNum, Depth1!Fields,
    Depth1!FieldNames, Depth1!FieldOf, Depth1!Default, Depth1!Base,
    Depth1!WireType, Depth1!Tagged, Depth1!PutField, Depth1!Written,
    Depth1!Encode, Depth1!CasesFor, Depth1!CaseFor, Depth1!Received,
    Depth1!Put, Depth1!Take, Depth1!Read, Depth1!Merge, Depth1!Decode,
    Depth1!Safe, Depth1!Throws, Depth1!Refuses, Depth1!ValueToJSON,
    Depth1!ToJSON, Depth1!ValueStringified, Depth1!Stringified,
    Depth1!ValueFromPartial, Depth1!FromPartial, Depth1!IsList,
    Depth1!IsElement, Depth1!IsValue, Depth1!Is, Depth1!Int64sIn,
    Depth1!Int64s

LEMMA Faithful2 == P2!Faithful
BY Nested2, Faithful1, MaxSafeAssumption, P2!FaithfulIfNested

LEMMA Nested3 == P2!Faithful => P3!NestedFaithful
BY Zenon DEF P2!Faithful, P3!NestedFaithful, P3!Safe,
    P2!IsType, P2!IsField, P2!MaxNum, P2!Fields, P2!FieldNames, P2!FieldOf,
    P2!Default, P2!Base, P2!WireType, P2!Tagged, P2!PutField, P2!Written,
    P2!Encode, P2!CasesFor, P2!CaseFor, P2!Received, P2!Put, P2!Take, P2!Read,
    P2!Merge, P2!Decode, P2!Safe, P2!Throws, P2!Refuses, P2!ValueToJSON,
    P2!ToJSON, P2!ValueStringified, P2!Stringified, P2!ValueFromPartial,
    P2!FromPartial, P2!IsList, P2!IsElement, P2!IsValue, P2!Is, P2!Int64sIn,
    P2!Int64s, Depth2!IsType, Depth2!IsField, Depth2!MaxNum, Depth2!Fields,
    Depth2!FieldNames, Depth2!FieldOf, Depth2!Default, Depth2!Base,
    Depth2!WireType, Depth2!Tagged, Depth2!PutField, Depth2!Written,
    Depth2!Encode, Depth2!CasesFor, Depth2!CaseFor, Depth2!Received,
    Depth2!Put, Depth2!Take, Depth2!Read, Depth2!Merge, Depth2!Decode,
    Depth2!Safe, Depth2!Throws, Depth2!Refuses, Depth2!ValueToJSON,
    Depth2!ToJSON, Depth2!ValueStringified, Depth2!Stringified,
    Depth2!ValueFromPartial, Depth2!FromPartial, Depth2!IsList,
    Depth2!IsElement, Depth2!IsValue, Depth2!Is, Depth2!Int64sIn,
    Depth2!Int64s

LEMMA Faithful3 == P3!Faithful
BY Nested3, Faithful2, MaxSafeAssumption, P3!FaithfulIfNested

LEMMA Nested4 == P3!Faithful => P4!NestedFaithful
BY Zenon DEF P3!Faithful, P4!NestedFaithful, P4!Safe,
    P3!IsType, P3!IsField, P3!MaxNum, P3!Fields, P3!FieldNames, P3!FieldOf,
    P3!Default, P3!Base, P3!WireType, P3!Tagged, P3!PutField, P3!Written,
    P3!Encode, P3!CasesFor, P3!CaseFor, P3!Received, P3!Put, P3!Take, P3!Read,
    P3!Merge, P3!Decode, P3!Safe, P3!Throws, P3!Refuses, P3!ValueToJSON,
    P3!ToJSON, P3!ValueStringified, P3!Stringified, P3!ValueFromPartial,
    P3!FromPartial, P3!IsList, P3!IsElement, P3!IsValue, P3!Is, P3!Int64sIn,
    P3!Int64s, Depth3!IsType, Depth3!IsField, Depth3!MaxNum, Depth3!Fields,
    Depth3!FieldNames, Depth3!FieldOf, Depth3!Default, Depth3!Base,
    Depth3!WireType, Depth3!Tagged, Depth3!PutField, Depth3!Written,
    Depth3!Encode, Depth3!CasesFor, Depth3!CaseFor, Depth3!Received,
    Depth3!Put, Depth3!Take, Depth3!Read, Depth3!Merge, Depth3!Decode,
    Depth3!Safe, Depth3!Throws, Depth3!Refuses, Depth3!ValueToJSON,
    Depth3!ToJSON, Depth3!ValueStringified, Depth3!Stringified,
    Depth3!ValueFromPartial, Depth3!FromPartial, Depth3!IsList,
    Depth3!IsElement, Depth3!IsValue, Depth3!Is, Depth3!Int64sIn,
    Depth3!Int64s

LEMMA Faithful4 == P4!Faithful
BY Nested4, Faithful3, MaxSafeAssumption, P4!FaithfulIfNested

\* All messages are read as they were written, refused exactly when an int64 of
\* them is not safe, and kept by JSON.
THEOREM MessagesFaithful ==
  \A T, m : IsType(T) /\ Is(T, m) =>
    /\ Decode(T, Encode(T, m)) = m
    /\ Refuses(T, Encode(T, m)) <=> ~(Int64s(T, m) \subseteq Safe)
    /\ FromPartial(T, ToJSON(T, m)) = m
    /\ FromPartial(T, Stringified(T, m)) = m
BY Faithful4, Zenon DEF P4!Faithful,
    P4!IsType, P4!IsField, P4!MaxNum, P4!Fields, P4!FieldNames, P4!FieldOf,
    P4!Default, P4!Base, P4!WireType, P4!Tagged, P4!PutField, P4!Written,
    P4!Encode, P4!CasesFor, P4!CaseFor, P4!Received, P4!Put, P4!Take, P4!Read,
    P4!Merge, P4!Decode, P4!Safe, P4!Throws, P4!Refuses, P4!ValueToJSON,
    P4!ToJSON, P4!ValueStringified, P4!Stringified, P4!ValueFromPartial,
    P4!FromPartial, P4!IsList, P4!IsElement, P4!IsValue, P4!Is, P4!Int64sIn,
    P4!Int64s, IsType, IsField, MaxNum, Fields, FieldNames, FieldOf, Default,
    Base, WireType, Tagged, PutField, Written, Encode, CasesFor, CaseFor,
    Received, Put, Take, Read, Merge, Decode, Safe, Throws, Refuses,
    ValueToJSON, ToJSON, ValueStringified, Stringified, ValueFromPartial,
    FromPartial, IsList, IsElement, IsValue, Is, Int64sIn, Int64s

-----------------------------------------------------------------------------
(* The types of the messages, from the inmost on. *)

LEMMA Types1 ==
  /\ Depth1!IsType(CartItem) /\ Depth1!IsType(Money)
<1> USE DEF Depth1!IsType, Depth1!IsField, Depth1!MaxNum, Field
<1>1. Depth1!IsType(CartItem)
  BY DEF CartItem, Int32, String
<1>2. Depth1!IsType(Money)
  BY DEF Money, Int32, Int64, String
<1> QED
  BY <1>1, <1>2

LEMMA Types2 ==
  /\ Depth2!IsType(Money) /\ Depth2!IsType(Address)
  /\ Depth2!IsType(OrderItem)
<1> USE DEF Depth2!IsType, Depth2!IsField, Depth2!MaxNum, Field
<1>1. Depth2!IsType(Money)
  BY DEF Money, Int32, Int64, String
<1>2. Depth2!IsType(Address)
  BY DEF Address, String
<1>3. Depth2!IsType(OrderItem)
  BY Types1 DEF OrderItem, Sub
<1> QED
  BY <1>1, <1>2, <1>3

LEMMA Types3 ==
  /\ Depth3!IsType(CartItem) /\ Depth3!IsType(Product)
  /\ Depth3!IsType(Money) /\ Depth3!IsType(Address)
  /\ Depth3!IsType(CreditCardInfo) /\ Depth3!IsType(OrderResult)
  /\ Depth3!IsType(Ad) /\ Depth3!IsType(Flag)
<1> USE DEF Depth3!IsType, Depth3!IsField, Depth3!MaxNum, Field
<1>1. Depth3!IsType(CartItem)
  BY DEF CartItem, Int32, String
<1>2. Depth3!IsType(Product)
  BY Types2 DEF Product, String, Strings, Sub
<1>3. Depth3!IsType(Money)
  BY DEF Money, Int32, Int64, String
<1>4. Depth3!IsType(Address)
  BY DEF Address, String
<1>5. Depth3!IsType(CreditCardInfo)
  BY DEF CreditCardInfo, Int32, String
<1>6. Depth3!IsType(OrderResult)
  BY Types2 DEF OrderResult, String, Sub, Subs
<1>7. Depth3!IsType(Ad)
  BY DEF Ad, String
<1>8. Depth3!IsType(Flag)
  BY DEF Flag, Bool, String
<1> QED
  BY <1>1, <1>2, <1>3, <1>4, <1>5, <1>6, <1>7, <1>8

LEMMA Types4 ==
  /\ IsType(AddItemRequest) /\ IsType(Empty) /\ IsType(GetCartRequest)
  /\ IsType(Cart) /\ IsType(EmptyCartRequest)
  /\ IsType(ListRecommendationsRequest)
  /\ IsType(ListRecommendationsResponse) /\ IsType(ListProductsResponse)
  /\ IsType(GetProductRequest) /\ IsType(Product)
  /\ IsType(SearchProductsRequest) /\ IsType(SearchProductsResponse)
  /\ IsType(GetQuoteRequest) /\ IsType(GetQuoteResponse)
  /\ IsType(ShipOrderRequest) /\ IsType(ShipOrderResponse)
  /\ IsType(GetSupportedCurrenciesResponse)
  /\ IsType(CurrencyConversionRequest) /\ IsType(Money)
  /\ IsType(ChargeRequest) /\ IsType(ChargeResponse)
  /\ IsType(SendOrderConfirmationRequest) /\ IsType(PlaceOrderRequest)
  /\ IsType(PlaceOrderResponse) /\ IsType(AdRequest)
  /\ IsType(AdResponse) /\ IsType(GetFlagRequest)
  /\ IsType(GetFlagResponse) /\ IsType(CreateFlagRequest)
  /\ IsType(CreateFlagResponse) /\ IsType(UpdateFlagRequest)
  /\ IsType(UpdateFlagResponse) /\ IsType(ListFlagsRequest)
  /\ IsType(ListFlagsResponse) /\ IsType(DeleteFlagRequest)
  /\ IsType(DeleteFlagResponse)
<1> USE DEF IsType, IsField, MaxNum, Field
<1>1. IsType(AddItemRequest)
  BY Types3 DEF AddItemRequest, String, Sub
<1>2. IsType(Empty)
  BY DEF Empty
<1>3. IsType(GetCartRequest)
  BY DEF GetCartRequest, String
<1>4. IsType(Cart)
  BY Types3 DEF Cart, String, Subs
<1>5. IsType(EmptyCartRequest)
  BY DEF EmptyCartRequest, String
<1>6. IsType(ListRecommendationsRequest)
  BY DEF ListRecommendationsRequest, String, Strings
<1>7. IsType(ListRecommendationsResponse)
  BY DEF ListRecommendationsResponse, Strings
<1>8. IsType(ListProductsResponse)
  BY Types3 DEF ListProductsResponse, Subs
<1>9. IsType(GetProductRequest)
  BY DEF GetProductRequest, String
<1>10. IsType(Product)
  BY Types3 DEF Product, String, Strings, Sub
<1>11. IsType(SearchProductsRequest)
  BY DEF SearchProductsRequest, String
<1>12. IsType(SearchProductsResponse)
  BY Types3 DEF SearchProductsResponse, Subs
<1>13. IsType(GetQuoteRequest)
  BY Types3 DEF GetQuoteRequest, Sub, Subs
<1>14. IsType(GetQuoteResponse)
  BY Types3 DEF GetQuoteResponse, Sub
<1>15. IsType(ShipOrderRequest)
  BY Types3 DEF ShipOrderRequest, Sub, Subs
<1>16. IsType(ShipOrderResponse)
  BY DEF ShipOrderResponse, String
<1>17. IsType(GetSupportedCurrenciesResponse)
  BY DEF GetSupportedCurrenciesResponse, Strings
<1>18. IsType(CurrencyConversionRequest)
  BY Types3 DEF CurrencyConversionRequest, String, Sub
<1>19. IsType(Money)
  BY DEF Money, Int32, Int64, String
<1>20. IsType(ChargeRequest)
  BY Types3 DEF ChargeRequest, Sub
<1>21. IsType(ChargeResponse)
  BY DEF ChargeResponse, String
<1>22. IsType(SendOrderConfirmationRequest)
  BY Types3 DEF SendOrderConfirmationRequest, String, Sub
<1>23. IsType(PlaceOrderRequest)
  BY Types3 DEF PlaceOrderRequest, String, Sub
<1>24. IsType(PlaceOrderResponse)
  BY Types3 DEF PlaceOrderResponse, Sub
<1>25. IsType(AdRequest)
  BY DEF AdRequest, Strings
<1>26. IsType(AdResponse)
  BY Types3 DEF AdResponse, Subs
<1>27. IsType(GetFlagRequest)
  BY DEF GetFlagRequest, String
<1>28. IsType(GetFlagResponse)
  BY Types3 DEF GetFlagResponse, Sub
<1>29. IsType(CreateFlagRequest)
  BY DEF CreateFlagRequest, Bool, String
<1>30. IsType(CreateFlagResponse)
  BY Types3 DEF CreateFlagResponse, Sub
<1>31. IsType(UpdateFlagRequest)
  BY DEF UpdateFlagRequest, Bool, String
<1>32. IsType(UpdateFlagResponse)
  BY DEF UpdateFlagResponse
<1>33. IsType(ListFlagsRequest)
  BY DEF ListFlagsRequest
<1>34. IsType(ListFlagsResponse)
  BY Types3 DEF ListFlagsResponse, Subs
<1>35. IsType(DeleteFlagRequest)
  BY DEF DeleteFlagRequest, String
<1>36. IsType(DeleteFlagResponse)
  BY DEF DeleteFlagResponse
<1> QED
  BY <1>1, <1>2, <1>3, <1>4, <1>5, <1>6, <1>7, <1>8, <1>9, <1>10, <1>11, <1>12,
     <1>13, <1>14, <1>15, <1>16, <1>17, <1>18, <1>19, <1>20, <1>21, <1>22,
     <1>23, <1>24, <1>25, <1>26, <1>27, <1>28, <1>29, <1>30, <1>31, <1>32,
     <1>33, <1>34, <1>35, <1>36

\* The messages of every call are of a type.
LEMMA CallTypes == \A c \in Calls : IsType(c.request) /\ IsType(c.response)
<1>1. \A c \in CartServiceService : IsType(c.request) /\ IsType(c.response)
  BY Types4 DEF CartServiceService, Rpc
<1>2. \A c \in RecommendationServiceService : IsType(c.request) /\ IsType(c.response)
  BY Types4 DEF RecommendationServiceService, Rpc
<1>3. \A c \in ProductCatalogServiceService : IsType(c.request) /\ IsType(c.response)
  BY Types4 DEF ProductCatalogServiceService, Rpc
<1>4. \A c \in ShippingServiceService : IsType(c.request) /\ IsType(c.response)
  BY Types4 DEF ShippingServiceService, Rpc
<1>5. \A c \in CurrencyServiceService : IsType(c.request) /\ IsType(c.response)
  BY Types4 DEF CurrencyServiceService, Rpc
<1>6. \A c \in PaymentServiceService : IsType(c.request) /\ IsType(c.response)
  BY Types4 DEF PaymentServiceService, Rpc
<1>7. \A c \in EmailServiceService : IsType(c.request) /\ IsType(c.response)
  BY Types4 DEF EmailServiceService, Rpc
<1>8. \A c \in CheckoutServiceService : IsType(c.request) /\ IsType(c.response)
  BY Types4 DEF CheckoutServiceService, Rpc
<1>9. \A c \in AdServiceService : IsType(c.request) /\ IsType(c.response)
  BY Types4 DEF AdServiceService, Rpc
<1>10. \A c \in FeatureFlagServiceService : IsType(c.request) /\ IsType(c.response)
  BY Types4 DEF FeatureFlagServiceService, Rpc
<1> QED
  BY <1>1, <1>2, <1>3, <1>4, <1>5, <1>6, <1>7, <1>8, <1>9, <1>10 DEF Calls

-----------------------------------------------------------------------------
(* What is read on the wire, whoever wrote it. *)

\* A message that comes after fields of a newer version is read, and refused, as
\* if they were not there.
LEMMA NewerSkipped ==
  \A T, m, newer :
    /\ IsType(T) /\ Is(T, m)
    /\ IsList(newer) /\ \A i \in DOMAIN newer : CasesFor(T, newer[i]) = {}
    => /\ IsList(newer \o Encode(T, m))
       /\ Merge(T, Base(T), newer \o Encode(T, m)) = m
       /\ Refuses(T, newer \o Encode(T, m)) <=> ~(Int64s(T, m) \subseteq Safe)
<1>1. P4!NestedFaithful
  BY Nested4, Faithful3
<1>2. P4!NewerSkipped
  BY <1>1, MaxSafeAssumption, P4!UnknownFieldsAreSkipped
<1> QED
  BY <1>2, Zenon DEF P4!NewerSkipped,
    P4!IsType, P4!IsField, P4!MaxNum, P4!Fields, P4!FieldNames, P4!FieldOf,
    P4!Default, P4!Base, P4!WireType, P4!Tagged, P4!PutField, P4!Written,
    P4!Encode, P4!CasesFor, P4!CaseFor, P4!Received, P4!Put, P4!Take, P4!Read,
    P4!Merge, P4!Decode, P4!Safe, P4!Throws, P4!Refuses, P4!ValueToJSON,
    P4!ToJSON, P4!ValueStringified, P4!Stringified, P4!ValueFromPartial,
    P4!FromPartial, P4!IsList, P4!IsElement, P4!IsValue, P4!Is, P4!Int64sIn,
    P4!Int64s, IsType, IsField, MaxNum, Fields, FieldNames, FieldOf, Default,
    Base, WireType, Tagged, PutField, Written, Encode, CasesFor, CaseFor,
    Received, Put, Take, Read, Merge, Decode, Safe, Throws, Refuses,
    ValueToJSON, ToJSON, ValueStringified, Stringified, ValueFromPartial,
    FromPartial, IsList, IsElement, IsValue, Is, Int64sIn, Int64s

\* No field of its number precedes field i of w, and rest is w without it.
TakenFirst(w, i, rest) ==
  /\ Len(w) \in Nat /\ i \in 1..Len(w)
  /\ \A j \in 1..(i - 1) : w[j].num # w[i].num
  /\ Len(rest) = Len(w) - 1
  /\ \A j \in 1..(Len(w) - 1) : rest[j] = IF j < i THEN w[j] ELSE w[j + 1]

\* Such a field may be read first, and with nothing left on the wire a message is
\* what was read.
LEMMA AnyOrder ==
  /\ \A T, m, w, i, rest :
       IsType(T) /\ TakenFirst(w, i, rest) => Merge(T, m, w) = Merge(T, Take(T, m, w[i]), rest)
  /\ \A T, m : Merge(T, m, <<>>) = m
<1>1. P4!OrderFree
  BY P4!AnyOrder
<1> QED
  BY <1>1, Zenon DEF P4!OrderFree, P4!TakenFirst, TakenFirst,
    P4!IsType, P4!IsField, P4!MaxNum, P4!Fields, P4!FieldNames, P4!FieldOf,
    P4!Default, P4!Base, P4!WireType, P4!Tagged, P4!PutField, P4!Written,
    P4!Encode, P4!CasesFor, P4!CaseFor, P4!Received, P4!Put, P4!Take, P4!Read,
    P4!Merge, P4!Decode, P4!Safe, P4!Throws, P4!Refuses, P4!ValueToJSON,
    P4!ToJSON, P4!ValueStringified, P4!Stringified, P4!ValueFromPartial,
    P4!FromPartial, P4!IsList, P4!IsElement, P4!IsValue, P4!Is, P4!Int64sIn,
    P4!Int64s, IsType, IsField, MaxNum, Fields, FieldNames, FieldOf, Default,
    Base, WireType, Tagged, PutField, Written, Encode, CasesFor, CaseFor,
    Received, Put, Take, Read, Merge, Decode, Safe, Throws, Refuses,
    ValueToJSON, ToJSON, ValueStringified, Stringified, ValueFromPartial,
    FromPartial, IsList, IsElement, IsValue, Is, Int64sIn, Int64s

\* Without lists a wire without its field i.
LEMMA WithoutFacts ==
  ASSUME NEW w, IsList(w), NEW i \in DOMAIN w,
         \A j \in 1..(i - 1) : w[j].num # w[i].num
  PROVE  /\ IsList(Without(w, i))
         /\ TakenFirst(w, i, Without(w, i))
<1> DEFINE S == {w[j] : j \in DOMAIN w}
           rest == Without(w, i)
<1>1. w \in Seq(S)
  BY DEF IsList
<1> HIDE DEF S
<1>2. Len(w) \in Nat /\ DOMAIN w = 1..Len(w)
  BY <1>1
<1>3. Len(w) - 1 \in Nat /\ rest = [j \in 1..(Len(w) - 1) |-> IF j < i THEN w[j] ELSE w[j + 1]]
  BY <1>2 DEF Without
<1> HIDE DEF rest
<1>4. rest = [j \in 1..(Len(w) - 1) |-> rest[j]] /\ DOMAIN rest = 1..(Len(w) - 1)
  BY <1>3
<1> DEFINE R == {rest[j] : j \in DOMAIN rest}
<1>5. \A j \in 1..(Len(w) - 1) : rest[j] \in R
  BY <1>4
<1> HIDE DEF R
<1>6. rest \in Seq(R)
  BY <1>3, <1>4, <1>5
<1>7. Len(rest) = Len(w) - 1
  BY <1>3, <1>4, <1>6
<1>8. IsList(rest)
  BY <1>6 DEF IsList, R
<1>9. TakenFirst(w, i, rest)
  BY <1>2, <1>3, <1>7 DEF TakenFirst
<1> QED
  BY <1>8, <1>9 DEF rest

-----------------------------------------------------------------------------
(* The inductive invariant. *)

\* The messages passed are of their types, and at every phase what is read and
\* what is on the wire make up the message sent.
IInv ==
  /\ phase \in {"idle", "asked", "serving", "rejected", "reading", "resolved", "refused"}
  /\ phase # "idle" => call \in Calls
  /\ phase \in {"idle", "rejected"} => sent = Undefined
  /\ phase \in {"asked", "serving"} => Is(call.request, sent)
  /\ phase \in {"reading", "resolved", "refused"} => Is(call.response, sent)
  /\ phase = "asked" => wire = Encode(call.request, sent)
  /\ phase \in {"serving", "resolved"} => read = sent
  /\ phase = "reading" =>
       /\ IsList(wire)
       /\ Merge(call.response, read, wire) = sent
       /\ Refuses(call.response, wire) <=> ~(Int64s(call.response, sent) \subseteq Safe)
  /\ phase = "resolved" => Int64s(call.response, sent) \subseteq Safe
  /\ phase = "refused" => ~(Int64s(call.response, sent) \subseteq Safe)

LEMMA InitIInv == Init => IInv
BY DEF Init, IInv

\* A type knows none of the fields that a newer version brings.
LEMMA NewerUnknown ==
  ASSUME NEW T, IsType(T), NEW newer \in Newer
  PROVE  IsList(newer) /\ \A i \in DOMAIN newer : CasesFor(T, newer[i]) = {}
<1>1. \A f \in Fields(T) : f.num \in 1..15
  BY DEF IsType, Fields, IsField, MaxNum
<1>2. ASSUME NEW w, w.num = 99 \/ w.wire = "fixed64"
      PROVE  CasesFor(T, w) = {}
  BY <1>1, <1>2 DEF CasesFor, WireType
<1>3. CASE newer = <<>>
  BY <1>3 DEF IsList
<1>4. ASSUME NEW w, w.num = 99 \/ w.wire = "fixed64", newer = <<w>>
      PROVE  IsList(newer) /\ \A i \in DOMAIN newer : CasesFor(T, newer[i]) = {}
  <2>1. DOMAIN newer = {1} /\ newer[1] = w /\ newer \in Seq({w})
    BY <1>4
  <2> QED
    BY <1>2, <1>4, <2>1 DEF IsList
<1> QED
  BY <1>3, <1>4 DEF Newer

LEMMA StepIInv ==
  ASSUME IInv, Next
  PROVE  IInv'
<1> DEFINE T == call.response
<1>1. ASSUME NEW c \in Calls, NEW m \in Requests(c.request), Ask(c, m)
      PROVE  IInv'
  <2>1. Is(c.request, m)
    BY MessagesAssumption
  <2> QED
    BY <1>1, <2>1 DEF Ask, IInv
<1>2. CASE Serve
  <2>1. call \in Calls /\ Is(call.request, sent) /\ wire = Encode(call.request, sent)
    BY <1>2 DEF Serve, IInv
  <2>2. Decode(call.request, wire) = sent
    BY <2>1, CallTypes, MessagesFaithful
  <2> QED
    BY <1>2, <2>1, <2>2 DEF Serve, IInv
<1>3. ASSUME NEW m \in Responses(T), NEW newer \in Newer, Reply(m, newer)
      PROVE  IInv'
  <2>1. call \in Calls
    BY <1>3 DEF Reply, IInv
  <2>2. Is(T, m) /\ IsType(T)
    BY <2>1, MessagesAssumption, CallTypes
  <2>3. IsList(newer) /\ \A i \in DOMAIN newer : CasesFor(T, newer[i]) = {}
    BY <2>2, NewerUnknown
  <2>4. /\ IsList(newer \o Encode(T, m))
        /\ Merge(T, Base(T), newer \o Encode(T, m)) = m
        /\ Refuses(T, newer \o Encode(T, m)) <=> ~(Int64s(T, m) \subseteq Safe)
    BY <2>2, <2>3, NewerSkipped
  <2>5. /\ sent' = m /\ wire' = newer \o Encode(T, m) /\ read' = Base(T)
        /\ phase' = "reading" /\ call' = call
    BY <1>3 DEF Reply
  <2> QED
    BY <2>1, <2>2, <2>4, <2>5 DEF IInv
<1>4. CASE Fail
  BY <1>4 DEF Fail, IInv
<1>5. CASE ReadField
  <2>1. PICK i \in DOMAIN wire :
          /\ FirstOfField(i) /\ ~Throws(T, wire[i])
          /\ read' = Take(T, read, wire[i]) /\ wire' = Without(wire, i)
    BY <1>5 DEF ReadField
  <2>2. phase = "reading" /\ UNCHANGED <<call, phase, sent>>
    BY <1>5 DEF ReadField
  <2>3. /\ call \in Calls /\ Is(T, sent) /\ IsList(wire)
        /\ Merge(T, read, wire) = sent
        /\ Refuses(T, wire) <=> ~(Int64s(T, sent) \subseteq Safe)
    BY <2>2 DEF IInv
  <2>4. IsType(T)
    BY <2>3, CallTypes
  <2>5. IsList(wire') /\ TakenFirst(wire, i, wire')
    BY <2>1, <2>3, WithoutFacts DEF FirstOfField
  <2>6. Merge(T, read', wire') = sent
    BY <2>1, <2>3, <2>4, <2>5, AnyOrder
  <2>7. Refuses(T, wire') <=> Refuses(T, wire)
    <3>1. DOMAIN wire = 1..Len(wire) /\ DOMAIN wire' = 1..(Len(wire) - 1)
      BY <2>1, <2>3 DEF IsList, Without
    <3>2. ASSUME NEW j \in DOMAIN wire, Throws(T, wire[j])
          PROVE  Refuses(T, wire')
      <4>1. j # i
        BY <2>1, <3>2
      <4>2. CASE j < i
        <5>1. j \in DOMAIN wire' /\ wire'[j] = wire[j]
          BY <2>5, <3>1, <4>2 DEF TakenFirst
        <5> QED
          BY <3>2, <5>1 DEF Refuses
      <4>3. CASE j > i
        <5>1. j - 1 \in DOMAIN wire' /\ wire'[j - 1] = wire[j]
          BY <2>5, <3>1, <4>3 DEF TakenFirst
        <5> QED
          BY <3>2, <5>1 DEF Refuses
      <4> QED
        BY <3>1, <4>1, <4>2, <4>3
    <3>3. ASSUME NEW j \in DOMAIN wire', Throws(T, wire'[j])
          PROVE  Refuses(T, wire)
      <4>1. j \in DOMAIN wire /\ j + 1 \in DOMAIN wire
        BY <2>5, <3>1 DEF TakenFirst
      <4>2. wire'[j] = wire[j] \/ wire'[j] = wire[j + 1]
        BY <2>5, <3>1 DEF TakenFirst
      <4> QED
        BY <3>3, <4>1, <4>2 DEF Refuses
    <3> QED
      BY <3>2, <3>3 DEF Refuses
  <2> QED
    BY <2>2, <2>3, <2>5, <2>6, <2>7 DEF IInv
<1>6. CASE ReadThrows
  <2>1. Refuses(T, wire) /\ phase = "reading"
    BY <1>6 DEF ReadThrows, Refuses
  <2> QED
    BY <1>6, <2>1 DEF ReadThrows, IInv
<1>7. CASE Resolve
  <2>1. phase = "reading" /\ wire = <<>> /\ UNCHANGED <<call, sent, read>> /\ phase' = "resolved"
    BY <1>7 DEF Resolve
  <2>2. ~Refuses(T, wire)
    BY <2>1 DEF Refuses
  <2>3. read = sent
    BY <2>1, AnyOrder DEF IInv
  <2> QED
    BY <2>1, <2>2, <2>3 DEF IInv
<1>8. CASE Return
  BY <1>8 DEF Return, IInv
<1> QED
  BY <1>1, <1>2, <1>3, <1>4, <1>5, <1>6, <1>7, <1>8 DEF Next

LEMMA AlwaysIInv == Spec => []IInv
<1>1. IInv /\ [Next]_vars => IInv'
  <2>1. CASE Next
    BY <2>1, StepIInv
  <2>2. CASE UNCHANGED vars
    BY <2>2 DEF vars, IInv
  <2> QED
    BY <2>1, <2>2
<1> QED
  BY <1>1, InitIInv, PTL DEF Spec

-----------------------------------------------------------------------------
(* The properties. *)

\* What was written is what is read, in whatever order the fields come and
\* whatever a newer service adds; an answer is refused exactly when an int64 of
\* it is not a safe integer (the decode functions and longToNumber of demo.ts).
THEOREM MessagesAlwaysArrive == Spec => []MessagesArrive
<1>1. IInv => MessagesArrive
  BY DEF IInv, MessagesArrive
<1> QED
  BY <1>1, AlwaysIInv, PTL

\* Every message that is passed survives toJSON and JSON.stringify (fromPartial,
\* fromJSON and toJSON of demo.ts, and the API routes of the frontend).
THEOREM JsonAlwaysKeepsMessages == Spec => []JsonKeepsMessages
<1>1. ASSUME IInv, sent # Undefined
      PROVE  Is(Type, sent) /\ IsType(Type)
  <2>1. CASE phase \in {"asked", "serving"}
    BY <1>1, <2>1, CallTypes DEF IInv, Type
  <2>2. CASE phase \in {"reading", "resolved", "refused"}
    BY <1>1, <2>2, CallTypes DEF IInv, Type
  <2> QED
    BY <1>1, <2>1, <2>2 DEF IInv
<1>2. IInv => JsonKeepsMessages
  BY <1>1, MessagesFaithful DEF JsonKeepsMessages
<1> QED
  BY <1>2, AlwaysIInv, PTL
=============================================================================
