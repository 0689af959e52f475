------------------------------- MODULE Prices -------------------------------
(***************************************************************************)
(* The way of a price to the shopper and into the order: the catalogue's   *)
(* dollars and the shipping quote pass through the currency service        *)
(* (src/src/currency/src/server.cpp), once for the pages of the frontend   *)
(* and once more when checkout prepares the order.                         *)
(*                                                                         *)
(* The doubles the service calculates with are exact here up to one nano:  *)
(* of a result that should be a whole number of nanos, the truncation in   *)
(* getUnitsAndNanos may keep one less.                                     *)
(***************************************************************************)
EXTENDS Money

CONSTANTS
  Rate,              \* currency_conversion: code -> rate, as integers of one scale
  UnknownCodes,      \* codes a client may ask for that are not in it
  Prices,            \* what products of the catalogue cost, in nanos of a dollar
  Quotes             \* what quote answers, in tenths of a dollar

\* Ten to the 0 .. 8, for as many digits as a fraction may have.
PowersOfTen ==
  {1, 10, 100, 1000, 10000, 100000, 1000000, 10000000, 100000000}

ASSUME PricesAssumption ==
  /\ \E p \in PowersOfTen \ {1} : NanosMod = 10 * p
  /\ "USD" \in DOMAIN Rate
  /\ \A c \in DOMAIN Rate : Rate[c] \in Nat \ {0}
  /\ UnknownCodes \cap DOMAIN Rate = {}
  /\ Prices \subseteq Nat
  /\ Quotes \subseteq Nat

VARIABLES
  table,             \* currency_conversion as the process has it now
  price,             \* priceUsd of the product, in nanos: the catalogue
  selected,          \* the currency the shopper selected
  shown,             \* the product's price on the page
  order              \* what checkout put into the order

pricesVars == <<table, price, selected, shown, order>>

None == [price |-> -1]

PricesInit ==
  /\ table = Rate
  /\ price \in Prices
  /\ selected = "USD"
  /\ shown = None
  /\ order = None

MoneyOf(c, nanos) == [currency |-> c, units |-> nanos \div NanosMod, nanos |-> nanos % NanosMod]

-----------------------------------------------------------------------------
(***************************************************************************)
(* The currency service.                                                   *)
(***************************************************************************)
Scales == {p \in PowersOfTen : p < NanosMod}

\* The loop of getDouble consumes the decimal digits from the last to the
\* first, and the first becomes the tenths - however many digits there are.
Fraction(nanos) ==
  IF nanos = 0 THEN 0
  ELSE CHOOSE n \in {nanos * p : p \in Scales} : NanosMod \div 10 <= n /\ n < NanosMod

\* getDouble, in nanos.
GetDouble(m) == m.units * NanosMod + Fraction(m.nanos)

\* currency_conversion[code]: a code that is not there is inserted with 0.
Looked(t, code) == [c \in DOMAIN t \cup {code} |-> IF c \in DOMAIN t THEN t[c] ELSE 0]

\* The nanos getUnitsAndNanos may find in a value of n / d.
Truncated(n, d) == IF n % d = 0 /\ n > 0 THEN {n \div d, n \div d - 1} ELSE {n \div d}

\* The answers of Convert, which is asked for dollars only.
Converted(m, code) ==
  {MoneyOf(code, n) : n \in Truncated(GetDouble(m) * Looked(table, code)[code], Rate[m.currency])}

-----------------------------------------------------------------------------
(***************************************************************************)
(* The shipping quote: create_quote_from_float takes the cents from        *)
(* value * 100 in doubles, where a fraction may come out a cent short.     *)
(***************************************************************************)
Cent == NanosMod \div 100

\* A faulty variant: the dollars are rounded to the nearest.
DollarsRounded(tenths) ==
  {[currency |-> "USD", units |-> (tenths + 5) \div 10, nanos |-> (tenths % 10) * 10 * Cent]}

GetQuote(tenths) ==
  LET cents == (tenths % 10) * 10
  IN {[currency |-> "USD", units |-> tenths \div 10, nanos |-> c * Cent] :
        c \in {cents} \cup IF cents > 0 THEN {cents - 1} ELSE {}}

-----------------------------------------------------------------------------
\* The catalogue is reloaded with another price of the product.
Reload(p) ==
  /\ price' = p
  /\ UNCHANGED <<table, selected, shown, order>>

\* The pages are fetched anew for another currency.
SelectCurrency(c) ==
  /\ selected' = c
  /\ shown' = None
  /\ UNCHANGED <<table, price, order>>

\* The frontend converts unless dollars are asked for.
ShowProduct ==
  /\ \E m \in IF selected = "USD" THEN {MoneyOf("USD", price)}
              ELSE Converted(MoneyOf("USD", price), selected) :
       shown' = [price |-> price, code |-> selected, cost |-> m]
  /\ table' = IF selected = "USD" THEN table ELSE Looked(table, selected)
  /\ UNCHANGED <<price, selected, order>>

\* A faulty variant: the catalogue's dollars go into the order as they are.
DollarsOrdered(p, code) == {MoneyOf("USD", p)}

\* Checkout converts every price, dollars to dollars too.
ItemCosts(p, code) == Converted(MoneyOf("USD", p), code)

PlaceOrder(tenths) ==
  /\ \E cost \in ItemCosts(price, selected), quote \in GetQuote(tenths) :
       \E shipping \in Converted(quote, selected) :
         order' = [price |-> price, code |-> selected, cost |-> cost,
                   tenths |-> tenths, shipping |-> shipping]
  /\ table' = Looked(table, selected)
  /\ UNCHANGED <<price, selected, shown>>

PricesNext ==
  \/ \E p \in Prices : Reload(p)
  \/ \E c \in DOMAIN Rate \cup UnknownCodes : SelectCurrency(c)
  \/ ShowProduct
  \/ \E tenths \in Quotes : PlaceOrder(tenths)

PricesSpec == PricesInit /\ [][PricesNext]_pricesVars

-----------------------------------------------------------------------------
IsCost(m, code) == IsValid(m) /\ m.units >= 0 /\ m.nanos >= 0 /\ m.currency = code

PricesTypeOK ==
  /\ DOMAIN Rate \subseteq DOMAIN table
  /\ DOMAIN table \subseteq DOMAIN Rate \cup UnknownCodes
  /\ \A c \in DOMAIN table : table[c] = IF c \in DOMAIN Rate THEN Rate[c] ELSE 0
  /\ price \in Prices
  /\ selected \in DOMAIN Rate \cup UnknownCodes
  /\ shown # None => shown.code = selected /\ IsCost(shown.cost, shown.code)
  /\ order # None => IsCost(order.cost, order.code) /\ IsCost(order.shipping, order.code)

Distance(a, b) == IF a > b THEN a - b ELSE b - a

\* A fraction without a zero after the point: getDouble reads it right.
WholeDigits(p) == p % NanosMod = 0 \/ p % NanosMod >= NanosMod \div 10

\* The shopper is charged what the page shows, to the nano, whichever of the
\* two ways the price took - as long as the catalogue was not reloaded in
\* between and, in dollars, the fraction has no zero after the point.
ChargedAsShown ==
  /\ shown # None
  /\ order # None
  /\ order.price = shown.price
  /\ order.code = shown.code
  /\ order.code = "USD" => WholeDigits(order.price)
  => Distance(Value(order.cost), Value(shown.cost)) <= 1

\* Shipping in dollars costs what quote asked for, to the cent and a nano -
\* unless it ends in .1 and lost a cent, which makes it .90.
ShippingAsQuoted ==
  order # None /\ order.code = "USD" /\ order.tenths % 10 # 1
    => Distance(Value(order.shipping), order.tenths * (NanosMod \div 10)) <= Cent + 1

\* demo.proto: nanos counts 10^-9 units, so dollars converted to dollars stay
\* what they were.  The code reads 57.08 as 57.80.
DollarsStayDollars ==
  order # None /\ order.code = "USD" => Distance(Value(order.cost), order.price) <= 1
=============================================================================
