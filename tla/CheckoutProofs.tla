--------------------------- MODULE CheckoutProofs ---------------------------
(***************************************************************************)
(* The safety of PlaceOrder for every number of requests, users and items, *)
(* with or without Kafka.  IInv strengthens the properties of Checkout to  *)
(* an inductive invariant: what a request has done is told by the call it  *)
(* is about to make, and the ledgers of a user hold for what its requests  *)
(* and AddItem calls in flight carry as well as for its cart.              *)
(***************************************************************************)
EXTENDS Checkout, TLAPS

BeforeCharge == {"idle", "getUserCart", "prepOrderItems", "quoteShipping", "convertCurrency",
                 "total", "chargeCard"}
BeforeShip == BeforeCharge \cup {"shipOrder"}
AfterShip == {"emptyUserCart", "sendOrderConfirmation", "sendToPostProcessor"}

\* Calls made with a cart read and not yet shipped.
CarriesCart == {"prepOrderItems", "quoteShipping", "convertCurrency", "total", "chargeCard",
                "shipOrder"}

\* What request o has done, by where it stands.
Progress(o) ==
  /\ pc[o] # "idle" => user[o] \in Users
  /\ pc[o] \in CarriesCart \cup AfterShip => cartItems[o] # None
  /\ pc[o] \in BeforeCharge => charged[o] = None
  /\ pc[o] \in BeforeShip => shipped[o] = None
  /\ pc[o] \in AfterShip \cup {"shipOrder"} => charged[o] = cartItems[o]
  /\ pc[o] \in AfterShip => shipped[o] = cartItems[o]
  /\ pc[o] \in BeforeShip \cup {"emptyUserCart"} => o \notin emptied
  /\ pc[o] # "done" => reply[o] = "none"

\* The conjuncts of the properties, for one request.
Charged(o) == shipped[o] # None => charged[o] = shipped[o]
Announced(o) == o \in mailed \cup published => shipped[o] # None
Told(o) ==
  /\ reply[o] = "OK" => charged[o] # None /\ shipped[o] # None
  /\ reply[o] = "Internal" => shipped[o] = None /\ o \notin emptied \cup mailed \cup published
  /\ reply[o] = "Unavailable" => charged[o] # None /\ o \notin emptied \cup mailed \cup published

\* What u wants is covered by its cart, by every copy an AddItem of u is yet to
\* write back, by every cart a request of u is yet to ship, and, once that is
\* shipped, by what u was shipped alone.
Covered(u, p) ==
  /\ wanted[u][p] <= bought[u][p] + cart[u][p]
  /\ \A h \in Adding(u) : wanted[u][p] <= bought[u][p] + adding[h].copy[p]
  /\ \A o \in Orders :
       user[o] = u =>
         /\ pc[o] \in CarriesCart => wanted[u][p] <= bought[u][p] + cartItems[o][p]
         /\ pc[o] = "emptyUserCart" => wanted[u][p] <= bought[u][p]

\* The requests of u take turns, and what each carries was added but not yet
\* shipped; so is the cart, and what an AddItem of u has read, unless it is
\* outdated, but between the shipping of an order and the emptying of its cart.
OneAtATime(u) ==
  \A a, b \in Orders : user[a] = u /\ user[b] = u /\ InFlight(a) /\ InFlight(b) => a = b
Unshipped(u, p) ==
  /\ \/ \E o \in Orders : user[o] = u /\ pc[o] = "emptyUserCart"
     \/ /\ bought[u][p] + cart[u][p] <= added[u][p]
        /\ \A h \in Adding(u) :
             \/ adding[h].outdated
             \/ bought[u][p] + adding[h].copy[p] <= added[u][p]
  /\ \A o \in Orders :
       user[o] = u =>
         /\ pc[o] \in CarriesCart => bought[u][p] + cartItems[o][p] <= added[u][p]
         /\ pc[o] = "emptyUserCart" => bought[u][p] <= added[u][p]

Requests == \A o \in Orders : Progress(o) /\ Charged(o) /\ Announced(o) /\ Told(o)
Coverage == \A u \in Users, p \in Products : u \notin raced => Covered(u, p)
Turns == \A u \in Users : u \notin mayRepeat => OneAtATime(u)
Repeats == \A u \in Users, p \in Products : u \notin mayRepeat => Unshipped(u, p)

IInv == TypeOK /\ Requests /\ Coverage /\ Turns /\ Repeats

-----------------------------------------------------------------------------
USE DEF request, process, store, effects, ledger, vars

\* Adding the items of two carts gives a cart.
LEMMA PlusType == \A a, b \in Contents : Plus(a, b) \in Contents
BY DEF Contents, Plus

LEMMA NoItemsType == NoItems \in Contents
BY DEF Contents, NoItems

\* A cart with one more item is a cart.
LEMMA OneMoreType == \A c \in Contents, p \in Products : OneMore(c, p) \in Contents
BY DEF Contents, OneMore

\* Every step keeps every variable in its type.
LEMMA TypeStep == TypeOK /\ Requests /\ [Next]_vars => TypeOK'
<1> SUFFICES ASSUME TypeOK, Requests, [Next]_vars PROVE TypeOK'
  OBVIOUS
<1> USE CheckoutAssumption, NoItemsType DEF TypeOK, Calls
<1>a. \A o \in Orders :
        /\ pc[o] # "idle" => user[o] \in Users
        /\ pc[o] = "shipOrder" => cartItems[o] \in Contents
  BY DEF Requests, Progress, CarriesCart
<1>1. ASSUME NEW u \in Users, DropCart(u) PROVE TypeOK'
  BY <1>1 DEF DropCart
<1>2. ASSUME NEW h \in Adders, NEW u \in Users, NEW p \in Products, ReadToAdd(h, u, p)
      PROVE TypeOK'
  <2>1. [user |-> u, product |-> p, copy |-> cart[u], outdated |-> FALSE] \in Additions
    BY DEF Additions
  <2>2. adding' \in [Adders -> Additions \cup {None}]
    BY <1>2, <2>1 DEF ReadToAdd
  <2> QED BY <1>2, <2>2 DEF ReadToAdd
<1>3. ASSUME NEW o \in Orders, NEW u \in Users, PlaceOrder(o, u) PROVE TypeOK'
  BY <1>3 DEF PlaceOrder, Proceed
<1>4. ASSUME NEW o \in Orders, Cancel(o) PROVE TypeOK'
  BY <1>4 DEF Cancel
<1>5. ASSUME NEW o \in Orders, GetUserCart(o) PROVE TypeOK'
  <2>1. user[o] \in Users
    BY <1>a, <1>5 DEF GetUserCart
  <2>2. cart[user[o]] \in Contents
    BY <2>1
  <2>3. cartItems' \in [Orders -> Contents \cup {None}]
    BY <1>5, <2>2 DEF GetUserCart
  <2> QED BY <1>5, <2>3 DEF GetUserCart, Proceed, Return, ReturnError
<1>6. ASSUME NEW o \in Orders, PrepOrderItems(o) \/ QuoteShipping(o) \/ ConvertCurrency(o)
      PROVE TypeOK'
  BY <1>6 DEF PrepOrderItems, QuoteShipping, ConvertCurrency, Prepare, Proceed, Return, ReturnError
<1>7. ASSUME Die PROVE TypeOK'
  <2>1. mayRepeat' \subseteq Users
    BY <1>a, <1>7 DEF Die
  <2> QED BY <1>7, <2>1 DEF Die, InFlight
<1>8. ASSUME NEW o \in Orders, Total(o) PROVE TypeOK'
  BY <1>7, <1>8 DEF Total, Proceed
<1>9. ASSUME NEW o \in Orders, ChargeCard(o) PROVE TypeOK'
  BY <1>9 DEF ChargeCard, Proceed, Return, ReturnError
<1>10. ASSUME NEW o \in Orders, ShipOrder(o) PROVE TypeOK'
  <2>1. user[o] \in Users /\ cartItems[o] \in Contents
    BY <1>a, <1>10 DEF ShipOrder
  <2>2. Plus(bought[user[o]], cartItems[o]) \in Contents
    BY <2>1, PlusType
  <2>3. /\ shipped' \in [Orders -> Contents \cup {None}]
        /\ bought' \in [Users -> Contents]
        /\ mayRepeat' \subseteq Users
    BY <1>10, <2>1, <2>2 DEF ShipOrder
  <2> QED BY <1>10, <2>3 DEF ShipOrder, Proceed, Return, ReturnError
<1>11. ASSUME NEW o \in Orders, EmptyUserCart(o) PROVE TypeOK'
  <2>1. user[o] \in Users
    BY <1>a, <1>11 DEF EmptyUserCart
  <2>2. \A a \in Additions : [a EXCEPT !.outdated = TRUE] \in Additions
    BY DEF Additions
  <2>3. /\ cart' \in [Users -> Contents]
        /\ emptied' \subseteq Orders
        /\ mayRepeat' \subseteq Users
    BY <1>11, <2>1 DEF EmptyUserCart
  <2>4. adding' \in [Adders -> Additions \cup {None}]
    BY <1>11, <2>2 DEF EmptyUserCart, Adding
  <2> QED BY <1>11, <2>3, <2>4 DEF EmptyUserCart, Proceed
<1>12. ASSUME NEW o \in Orders, SendOrderConfirmation(o) PROVE TypeOK'
  BY <1>12 DEF SendOrderConfirmation, Proceed, Return
<1>13. ASSUME NEW o \in Orders, SendToPostProcessor(o) PROVE TypeOK'
  BY <1>7, <1>13 DEF SendToPostProcessor, Return
<1>14. CASE Crash
  BY <1>7, <1>14 DEF Crash
<1>15. CASE Restart
  BY <1>15 DEF Restart
<1>16. CASE UNCHANGED vars
  BY <1>16
<1>17. ASSUME NEW h \in Adders, WriteAdded(h) PROVE TypeOK'
  <2>1. adding[h] \in Additions
    BY <1>17 DEF WriteAdded
  <2>2. adding[h].user \in Users /\ OneMore(adding[h].copy, adding[h].product) \in Contents
    BY <2>1, OneMoreType DEF Additions
  <2>3. cart' \in [Users -> Contents] /\ adding' \in [Adders -> Additions \cup {None}]
    <3>1. /\ cart' = [cart EXCEPT ![adding[h].user] = OneMore(adding[h].copy, adding[h].product)]
          /\ adding' = [adding EXCEPT ![h] = None]
      BY <1>17 DEF WriteAdded
    <3> QED BY <2>2, <3>1
  <2>4. raced' \subseteq Users /\ mayRepeat' \subseteq Users
    BY <1>17, <2>2 DEF WriteAdded
  <2>5. added' \in [Users -> Contents] /\ wanted' \in [Users -> Contents]
    <3>1. /\ added' = [added EXCEPT ![adding[h].user][adding[h].product] = @ + 1]
          /\ wanted' = [wanted EXCEPT ![adding[h].user][adding[h].product] = @ + 1]
      BY <1>17 DEF WriteAdded
    <3> QED BY <2>1, <3>1 DEF Additions, Contents
  <2> QED BY <1>17, <2>3, <2>4, <2>5 DEF WriteAdded
<1>18. ASSUME NEW h \in Adders, AddFails(h) PROVE TypeOK'
  BY <1>18 DEF AddFails
<1> QED
  BY <1>1, <1>2, <1>3, <1>4, <1>5, <1>6, <1>8, <1>9, <1>10, <1>11, <1>12, <1>13, <1>14, <1>15,
     <1>16, <1>17, <1>18 DEF Next, Handler

\* Every step keeps what the stage of a request says of it.
LEMMA RequestStep == TypeOK /\ Requests /\ [Next]_vars => Requests'
<1> SUFFICES ASSUME TypeOK, Requests, [Next]_vars, NEW x \in Orders
             PROVE (Progress(x) /\ Charged(x) /\ Announced(x) /\ Told(x))'
  BY DEF Requests
<1> DEFINE Holds == Progress(x) /\ Charged(x) /\ Announced(x) /\ Told(x)
<1>a. Holds
  BY DEF Requests
<1>b. /\ pc \in [Orders -> Calls \cup {"idle", "done"}]
      /\ user \in [Orders -> Users \cup {None}]
      /\ cartItems \in [Orders -> Contents \cup {None}]
      /\ reply \in [Orders -> {"none", "OK", "Internal", "Unavailable", "lost"}]
      /\ charged \in [Orders -> Contents \cup {None}]
      /\ shipped \in [Orders -> Contents \cup {None}]
      /\ cart \in [Users -> Contents]
  BY DEF TypeOK
<1> USE <1>a, <1>b, CheckoutAssumption
    DEF Holds, Progress, Charged, Announced, Told, BeforeCharge, BeforeShip, AfterShip,
        CarriesCart, Calls
<1>1. ASSUME NEW u \in Users, DropCart(u) PROVE Holds'
  BY <1>1 DEF DropCart
<1>2. ASSUME NEW h \in Adders, NEW u \in Users, NEW p \in Products, ReadToAdd(h, u, p)
      PROVE Holds'
  BY <1>2 DEF ReadToAdd
<1>3. ASSUME NEW o \in Orders, NEW u \in Users, PlaceOrder(o, u) PROVE Holds'
  BY <1>3 DEF PlaceOrder, Proceed
<1>4. ASSUME NEW o \in Orders, Cancel(o) PROVE Holds'
  BY <1>4 DEF Cancel
<1>5. ASSUME NEW o \in Orders, GetUserCart(o) PROVE Holds'
  <2>1. pc[o] = "getUserCart" /\ user[o] \in Users
    BY <1>5 DEF GetUserCart, Requests
  <2>2. cart[user[o]] # None
    BY <2>1
  <2> QED BY <1>5, <2>1, <2>2 DEF GetUserCart, Proceed, Return, ReturnError
<1>6. ASSUME NEW o \in Orders, PrepOrderItems(o) \/ QuoteShipping(o) \/ ConvertCurrency(o)
      PROVE Holds'
  BY <1>6 DEF PrepOrderItems, QuoteShipping, ConvertCurrency, Prepare, Proceed, Return, ReturnError
<1>7. ASSUME Die PROVE Holds'
  BY <1>7 DEF Die, InFlight
<1>8. ASSUME NEW o \in Orders, Total(o) PROVE Holds'
  BY <1>7, <1>8 DEF Total, Proceed
<1>9. ASSUME NEW o \in Orders, ChargeCard(o) PROVE Holds'
  <2>1. PICK outcome \in Outcomes(o) :
          /\ charged' = IF Executed(outcome) THEN [charged EXCEPT ![o] = cartItems[o]] ELSE charged
          /\ IF outcome = "ok" THEN Proceed(o, "shipOrder") ELSE ReturnError(o, "Internal")
    BY <1>9 DEF ChargeCard
  <2>2. pc[o] = "chargeCard" /\ UNCHANGED <<user, cartItems, shipped, emptied, mailed, published>>
    BY <1>9 DEF ChargeCard
  <2>3. CASE x # o
    BY <2>1, <2>2, <2>3 DEF Proceed, Return, ReturnError
  <2>4. CASE x = o /\ outcome = "ok"
    BY <2>1, <2>2, <2>4 DEF Proceed, Executed
  <2>5. CASE x = o /\ outcome # "ok"
    BY <2>1, <2>2, <2>5 DEF Return, ReturnError
  <2> QED BY <2>3, <2>4, <2>5
<1>10. ASSUME NEW o \in Orders, ShipOrder(o) PROVE Holds'
  <2>1. PICK outcome \in Outcomes(o) :
          /\ shipped' = IF Executed(outcome) THEN [shipped EXCEPT ![o] = cartItems[o]] ELSE shipped
          /\ IF outcome = "ok" THEN Proceed(o, "emptyUserCart") ELSE ReturnError(o, "Unavailable")
    BY <1>10 DEF ShipOrder
  <2>2. pc[o] = "shipOrder" /\ UNCHANGED <<user, cartItems, charged, emptied, mailed, published>>
    BY <1>10 DEF ShipOrder
  <2>3. CASE x # o
    BY <2>1, <2>2, <2>3 DEF Proceed, Return, ReturnError
  <2>4. CASE x = o /\ outcome = "ok"
    BY <2>1, <2>2, <2>4 DEF Proceed, Executed
  <2>5. CASE x = o /\ outcome # "ok"
    BY <2>1, <2>2, <2>5 DEF Return, ReturnError
  <2> QED BY <2>3, <2>4, <2>5
<1>11. ASSUME NEW o \in Orders, EmptyUserCart(o) PROVE Holds'
  BY <1>11 DEF EmptyUserCart, Proceed
<1>12. ASSUME NEW o \in Orders, SendOrderConfirmation(o) PROVE Holds'
  BY <1>12 DEF SendOrderConfirmation, Proceed, Return
<1>13. ASSUME NEW o \in Orders, SendToPostProcessor(o) PROVE Holds'
  BY <1>7, <1>13 DEF SendToPostProcessor, Return
<1>14. CASE Crash
  BY <1>7, <1>14 DEF Crash
<1>15. CASE Restart
  BY <1>15 DEF Restart
<1>16. CASE UNCHANGED vars
  BY <1>16
<1>17. ASSUME NEW h \in Adders, WriteAdded(h) PROVE Holds'
  BY <1>17 DEF WriteAdded
<1>18. ASSUME NEW h \in Adders, AddFails(h) PROVE Holds'
  BY <1>18 DEF AddFails
<1> QED
  BY <1>1, <1>2, <1>3, <1>4, <1>5, <1>6, <1>8, <1>9, <1>10, <1>11, <1>12, <1>13, <1>14, <1>15,
     <1>16, <1>17, <1>18 DEF Next, Handler

\* The items of a cart are counted by natural numbers.
LEMMA Counts ==
  ASSUME TypeOK, NEW u \in Users, NEW p \in Products
  PROVE  /\ cart[u][p] \in Nat /\ added[u][p] \in Nat
         /\ wanted[u][p] \in Nat /\ bought[u][p] \in Nat
         /\ \A o \in Orders : cartItems[o] # None => cartItems[o][p] \in Nat
         /\ \A h \in Adders : adding[h] # None => adding[h].copy[p] \in Nat
BY DEF TypeOK, Contents, Additions

\* What a handler that has read a cart holds.
LEMMA AdditionType ==
  ASSUME TypeOK, NEW h \in Adders, adding[h] # None
  PROVE  /\ adding[h].user \in Users /\ adding[h].product \in Products
         /\ adding[h].copy \in Contents /\ adding[h].outdated \in BOOLEAN
BY DEF TypeOK, Additions

\* What WriteAdded leaves in the cart and the ledgers.
LEMMA WriteEffect ==
  ASSUME TypeOK, NEW h \in Adders, WriteAdded(h), NEW u \in Users, NEW p \in Products
  PROVE  /\ adding[h] # None
         /\ UNCHANGED <<pc, user, cartItems, bought>>
         /\ Adding(u)' = Adding(u) \ {h}
         /\ \A k \in Adding(u)' : adding'[k] = adding[k]
         /\ adding[h].user # u =>
              /\ cart'[u] = cart[u] /\ added'[u] = added[u] /\ wanted'[u] = wanted[u]
         /\ adding[h].user = u => \E n \in {0, 1} :
              /\ cart'[u][p] = adding[h].copy[p] + n
              /\ added'[u][p] = added[u][p] + n
              /\ wanted'[u][p] = wanted[u][p] + n
<1>1. /\ adding[h] # None
      /\ UNCHANGED <<pc, user, cartItems, bought>>
      /\ adding' = [adding EXCEPT ![h] = None]
      /\ cart' = [cart EXCEPT ![adding[h].user] = OneMore(adding[h].copy, adding[h].product)]
      /\ added' = [added EXCEPT ![adding[h].user][adding[h].product] = @ + 1]
      /\ wanted' = [wanted EXCEPT ![adding[h].user][adding[h].product] = @ + 1]
  BY DEF WriteAdded
<1>2. /\ adding \in [Adders -> Additions \cup {None}]
      /\ \A f \in {cart, added, wanted} : f \in [Users -> Contents]
  BY DEF TypeOK
<1>3. /\ Adding(u)' = Adding(u) \ {h}
      /\ \A k \in Adding(u)' : adding'[k] = adding[k]
  BY <1>1, <1>2 DEF Adding
<1>4. CASE adding[h].user # u
  BY <1>1, <1>2, <1>3, <1>4
<1>5. CASE adding[h].user = u
  <2>1. adding[h].copy \in Contents /\ adding[h].product \in Products
    BY <1>1, AdditionType
  <2>2. CASE adding[h].product = p
    <3>1. cart'[u][p] = adding[h].copy[p] + 1
      BY <1>1, <1>2, <1>5, <2>1, <2>2 DEF OneMore, Contents
    <3>2. added'[u][p] = added[u][p] + 1 /\ wanted'[u][p] = wanted[u][p] + 1
      BY <1>1, <1>2, <1>5, <2>2 DEF Contents
    <3> QED BY <1>1, <1>3, <1>5, <3>1, <3>2
  <2>3. CASE adding[h].product # p
    <3>1. cart'[u][p] = adding[h].copy[p]
      BY <1>1, <1>2, <1>5, <2>1, <2>3 DEF OneMore, Contents
    <3>2. added'[u][p] = added[u][p] /\ wanted'[u][p] = wanted[u][p]
      BY <1>1, <1>2, <1>5, <2>3 DEF Contents
    <3>3. /\ adding[h].copy[p] \in Nat /\ added[u][p] \in Nat /\ wanted[u][p] \in Nat
      BY <1>1, Counts
    <3> QED BY <1>1, <1>3, <1>5, <3>1, <3>2, <3>3
  <2> QED BY <2>2, <2>3
<1> QED BY <1>4, <1>5

\* EmptyUserCart changes no copy that an AddItem has read; when it is carried
\* out, every copy of the user's is marked as outdated.
LEMMA EmptyEffect ==
  ASSUME TypeOK, NEW o \in Orders, EmptyUserCart(o), NEW u \in Users
  PROVE  \A h \in Adding(u)' :
           /\ h \in Adding(u)
           /\ adding'[h].copy = adding[h].copy
           /\ (adding'[h].outdated \/ adding'[h] = adding[h])
           /\ user[o] = u /\ user[o] \notin mayRepeat' => adding'[h].outdated
<1>1. adding \in [Adders -> Additions \cup {None}] /\ None \notin Additions
  BY CheckoutAssumption DEF TypeOK
<1>2. \A a \in Additions :
        /\ [a EXCEPT !.outdated = TRUE] # None
        /\ [a EXCEPT !.outdated = TRUE].user = a.user
        /\ [a EXCEPT !.outdated = TRUE].copy = a.copy
        /\ [a EXCEPT !.outdated = TRUE].outdated
  <2>1. \A a \in Additions : [a EXCEPT !.outdated = TRUE] \in Additions
    BY DEF Additions
  <2> QED BY <1>1, <2>1 DEF Additions
<1>3. CASE UNCHANGED adding /\ user[o] \in mayRepeat'
  BY <1>3 DEF Adding
<1>4. CASE adding' = [h \in Adders |-> IF h \in Adding(user[o])
                                     THEN [adding[h] EXCEPT !.outdated = TRUE] ELSE adding[h]]
  <2> SUFFICES ASSUME NEW h \in Adders, adding'[h] # None, adding'[h].user = u
               PROVE  /\ adding[h] # None /\ adding[h].user = u
                      /\ adding'[h].copy = adding[h].copy
                      /\ (adding'[h].outdated \/ adding'[h] = adding[h])
                      /\ user[o] = u => adding'[h].outdated
    BY DEF Adding
  <2>1. CASE h \in Adding(user[o])
    <3>1. adding[h] \in Additions /\ adding'[h] = [adding[h] EXCEPT !.outdated = TRUE]
      BY <1>1, <1>4, <2>1 DEF Adding
    <3> QED BY <1>1, <1>2, <3>1
  <2>2. CASE h \notin Adding(user[o])
    BY <1>4, <2>2 DEF Adding
  <2> QED BY <2>1, <2>2
<1> QED BY <1>3, <1>4 DEF EmptyUserCart

\* Every step keeps what a user wants covered.
LEMMA CoverageStep == TypeOK /\ Requests /\ Coverage /\ [Next]_vars => Coverage'
<1> SUFFICES ASSUME TypeOK, Requests, Coverage, [Next]_vars,
                    NEW u \in Users, NEW p \in Products, u \notin raced'
             PROVE Covered(u, p)'
  BY DEF Coverage
<1>a. u \notin raced => Covered(u, p)
  BY DEF Coverage
<1>b. /\ pc \in [Orders -> Calls \cup {"idle", "done"}]
      /\ user \in [Orders -> Users \cup {None}]
      /\ cartItems \in [Orders -> Contents \cup {None}]
      /\ \A f \in {cart, added, wanted, bought} : f \in [Users -> Contents]
  BY DEF TypeOK
<1>c. \A o \in Orders : /\ pc[o] # "idle" => user[o] \in Users
                        /\ pc[o] \in CarriesCart \cup AfterShip => cartItems[o] # None
  BY DEF Requests, Progress
<1>d. adding \in [Adders -> Additions \cup {None}]
  BY DEF TypeOK
<1>e. UNCHANGED adding => UNCHANGED Adding(u)
  BY DEF Adding
<1> USE <1>a, <1>b, <1>c, <1>e, Counts, CheckoutAssumption
    DEF Covered, AfterShip, CarriesCart, Calls
<1>f. \A h \in Adding(u) : adding[h].copy[p] \in Nat
  BY DEF Adding
<1>1. ASSUME NEW v \in Users, DropCart(v) PROVE Covered(u, p)'
  <2>1. /\ UNCHANGED <<pc, user, cartItems, adding, bought, raced>>
        /\ \/ cart'[u] = cart[u] /\ wanted'[u][p] = wanted[u][p]
           \/ cart'[u] = NoItems /\ wanted'[u][p] = bought[u][p]
    BY <1>1 DEF DropCart
  <2> QED BY <1>f, <2>1 DEF NoItems
<1>2. ASSUME NEW h \in Adders, NEW v \in Users, NEW q \in Products, ReadToAdd(h, v, q)
      PROVE Covered(u, p)'
  <2>1. \A k \in Adding(u)' : \/ k \in Adding(u) /\ adding'[k] = adding[k]
                             \/ adding'[k].copy = cart[u]
    BY <1>2, <1>d DEF ReadToAdd, Adding
  <2> QED BY <1>2, <2>1 DEF ReadToAdd
<1>3. ASSUME NEW o \in Orders, NEW v \in Users, PlaceOrder(o, v) PROVE Covered(u, p)'
  BY <1>3 DEF PlaceOrder, Proceed
<1>4. ASSUME NEW o \in Orders, Cancel(o) PROVE Covered(u, p)'
  BY <1>4 DEF Cancel
<1>5. ASSUME NEW o \in Orders, GetUserCart(o) PROVE Covered(u, p)'
  BY <1>5 DEF GetUserCart, Proceed, Return, ReturnError
<1>6. ASSUME NEW o \in Orders, PrepOrderItems(o) \/ QuoteShipping(o) \/ ConvertCurrency(o)
      PROVE Covered(u, p)'
  BY <1>6 DEF PrepOrderItems, QuoteShipping, ConvertCurrency, Prepare, Proceed, Return, ReturnError
<1>7. ASSUME Die PROVE Covered(u, p)'
  BY <1>7 DEF Die, InFlight
<1>8. ASSUME NEW o \in Orders, Total(o) PROVE Covered(u, p)'
  BY <1>7, <1>8 DEF Total, Proceed
<1>9. ASSUME NEW o \in Orders, ChargeCard(o) PROVE Covered(u, p)'
  BY <1>9 DEF ChargeCard, Proceed, Return, ReturnError
<1>10. ASSUME NEW o \in Orders, ShipOrder(o) PROVE Covered(u, p)'
  <2>1. /\ pc[o] = "shipOrder"
        /\ UNCHANGED <<user, cartItems, cart, adding, wanted, raced>>
        /\ bought' \in {bought, [bought EXCEPT ![user[o]] = Plus(@, cartItems[o])]}
        /\ \/ /\ bought' = [bought EXCEPT ![user[o]] = Plus(@, cartItems[o])]
              /\ pc' = [pc EXCEPT ![o] = "emptyUserCart"]
           \/ pc' = [pc EXCEPT ![o] = "done"]
    BY <1>10 DEF ShipOrder, Proceed, Return, ReturnError, Executed
  <2>2. /\ bought'[u][p] \in Nat
        /\ bought[u][p] <= bought'[u][p]
        /\ (user[o] = u /\ bought' # bought) => bought'[u][p] = bought[u][p] + cartItems[o][p]
    BY <2>1 DEF Plus
  <2>3. user[o] = u /\ pc'[o] = "emptyUserCart" => wanted[u][p] <= bought'[u][p]
    BY <2>1, <2>2 DEF Plus
  <2> QED BY <1>f, <2>1, <2>2, <2>3
<1>11. ASSUME NEW o \in Orders, EmptyUserCart(o) PROVE Covered(u, p)'
  <2>1. /\ pc[o] = "emptyUserCart" /\ user[o] \in Users
        /\ UNCHANGED <<user, cartItems, wanted, bought, raced>>
        /\ pc' = [pc EXCEPT ![o] = "sendOrderConfirmation"]
        /\ cart' \in {cart, [cart EXCEPT ![user[o]] = NoItems]}
    BY <1>11 DEF EmptyUserCart, Proceed
  <2>2. \A k \in Adding(u)' : k \in Adding(u) /\ adding'[k].copy = adding[k].copy
    BY <1>11, EmptyEffect
  <2>3. wanted[u][p] <= bought[u][p] + cart'[u][p]
    BY <2>1 DEF NoItems
  <2> QED BY <2>1, <2>2, <2>3
<1>12. ASSUME NEW o \in Orders, SendOrderConfirmation(o) PROVE Covered(u, p)'
  BY <1>12 DEF SendOrderConfirmation, Proceed, Return
<1>13. ASSUME NEW o \in Orders, SendToPostProcessor(o) PROVE Covered(u, p)'
  BY <1>7, <1>13 DEF SendToPostProcessor, Return
<1>14. CASE Crash
  BY <1>7, <1>14 DEF Crash
<1>15. CASE Restart
  BY <1>15 DEF Restart
<1>16. CASE UNCHANGED vars
  BY <1>16
<1>17. ASSUME NEW h \in Adders, WriteAdded(h) PROVE Covered(u, p)'
  <2>1. CASE adding[h].user = u
    <3>1. /\ u \notin raced
          /\ \A o \in Orders : user[o] = u => ~InFlight(o)
          /\ Adding(u) = {h}
      BY <1>17, <2>1 DEF WriteAdded
    <3>2. Adding(u)' = {}
      BY <1>17, <3>1, WriteEffect
    <3>3. wanted'[u][p] <= bought'[u][p] + cart'[u][p]
      BY <1>17, <2>1, <3>1, WriteEffect
    <3> QED BY <1>17, <3>1, <3>2, <3>3, WriteEffect DEF InFlight
  <2>2. CASE adding[h].user # u
    <3>1. u \notin raced
      BY <1>17 DEF WriteAdded
    <3> QED BY <1>17, <2>2, <3>1, WriteEffect
  <2> QED BY <2>1, <2>2
<1>18. ASSUME NEW h \in Adders, AddFails(h) PROVE Covered(u, p)'
  <2>1. \A k \in Adding(u)' : adding'[k] = adding[k] /\ k \in Adding(u)
    BY <1>18, <1>d DEF AddFails, Adding
  <2> QED BY <1>18, <2>1 DEF AddFails
<1> QED
  BY <1>1, <1>2, <1>3, <1>4, <1>5, <1>6, <1>8, <1>9, <1>10, <1>11, <1>12, <1>13, <1>14, <1>15,
     <1>16, <1>17, <1>18 DEF Next, Handler

\* No step but an overlapping PlaceOrder, which is recorded in mayRepeat,
\* gives a user two requests in flight.
LEMMA TurnStep == TypeOK /\ Requests /\ Turns /\ [Next]_vars => Turns'
<1> SUFFICES ASSUME TypeOK, Requests, Turns, [Next]_vars,
                    NEW u \in Users, u \notin mayRepeat'
             PROVE OneAtATime(u)'
  BY DEF Turns
<1>a. u \notin mayRepeat => OneAtATime(u)
  BY DEF Turns
<1>b. /\ pc \in [Orders -> Calls \cup {"idle", "done"}]
      /\ user \in [Orders -> Users \cup {None}]
  BY DEF TypeOK
<1> USE <1>a, <1>b DEF OneAtATime, InFlight, Calls
<1>1. ASSUME NEW o \in Orders, NEW v \in Users, PlaceOrder(o, v) PROVE OneAtATime(u)'
  <2>1. CASE u = v
    <3>1. \A x \in Orders : user[x] = u => ~InFlight(x)
      BY <1>1, <2>1 DEF PlaceOrder
    <3> QED BY <1>1, <2>1, <3>1 DEF PlaceOrder, Proceed
  <2>2. CASE u # v
    BY <1>1, <2>2 DEF PlaceOrder, Proceed
  <2> QED BY <2>1, <2>2
<1>2. ASSUME NEW o \in Orders, Handler(o), ~Die PROVE OneAtATime(u)'
  <2>1. /\ pc[o] \in Calls /\ user' = user
        /\ \E s \in Calls \cup {"done"} : pc' = [pc EXCEPT ![o] = s]
        /\ mayRepeat \subseteq mayRepeat'
    BY <1>2
       DEF Handler, GetUserCart, PrepOrderItems, QuoteShipping, ConvertCurrency, Prepare, Total,
           ChargeCard, ShipOrder, EmptyUserCart, SendOrderConfirmation, SendToPostProcessor,
           Proceed, Return, ReturnError
  <2> QED BY <2>1
<1>3. ASSUME Die PROVE OneAtATime(u)'
  BY <1>3 DEF Die
<1>4. CASE UNCHANGED <<pc, user>> /\ mayRepeat \subseteq mayRepeat'
  BY <1>4
<1>5. \/ \E o \in Orders, v \in Users : PlaceOrder(o, v)
      \/ \E o \in Orders : Handler(o)
      \/ Die
      \/ UNCHANGED <<pc, user>> /\ mayRepeat \subseteq mayRepeat'
  BY DEF Next, DropCart, ReadToAdd, WriteAdded, AddFails, Cancel, Crash, Restart
<1> QED
  BY <1>1, <1>2, <1>3, <1>4, <1>5

\* No step ships a user what is not counted as added, unless it is recorded
\* in mayRepeat.
LEMMA RepeatStep == TypeOK /\ Requests /\ Turns /\ Repeats /\ [Next]_vars => Repeats'
<1> SUFFICES ASSUME TypeOK, Requests, Turns, Repeats, [Next]_vars,
                    NEW u \in Users, NEW p \in Products, u \notin mayRepeat'
             PROVE Unshipped(u, p)'
  BY DEF Repeats
<1>a. u \notin mayRepeat => Unshipped(u, p) /\ OneAtATime(u)
  BY DEF Repeats, Turns
<1>b. /\ pc \in [Orders -> Calls \cup {"idle", "done"}]
      /\ user \in [Orders -> Users \cup {None}]
      /\ cartItems \in [Orders -> Contents \cup {None}]
      /\ \A f \in {cart, added, wanted, bought} : f \in [Users -> Contents]
  BY DEF TypeOK
<1>c. \A o \in Orders : /\ pc[o] # "idle" => user[o] \in Users
                        /\ pc[o] \in CarriesCart \cup AfterShip => cartItems[o] # None
  BY DEF Requests, Progress
<1>d. adding \in [Adders -> Additions \cup {None}]
  BY DEF TypeOK
<1>e. UNCHANGED adding => UNCHANGED Adding(u)
  BY DEF Adding
<1> USE <1>a, <1>b, <1>c, <1>e, Counts, CheckoutAssumption
    DEF Unshipped, AfterShip, CarriesCart, Calls
<1>1. ASSUME NEW v \in Users, DropCart(v) PROVE Unshipped(u, p)'
  BY <1>1 DEF DropCart, NoItems
<1>2. ASSUME NEW h \in Adders, NEW v \in Users, NEW q \in Products, ReadToAdd(h, v, q)
      PROVE Unshipped(u, p)'
  <2>1. \A k \in Adding(u)' : \/ k \in Adding(u) /\ adding'[k] = adding[k]
                             \/ adding'[k].copy = cart[u]
    BY <1>2, <1>d DEF ReadToAdd, Adding
  <2> QED BY <1>2, <2>1 DEF ReadToAdd
<1>3. ASSUME NEW o \in Orders, NEW v \in Users, PlaceOrder(o, v) PROVE Unshipped(u, p)'
  BY <1>3 DEF PlaceOrder, Proceed
<1>4. ASSUME NEW o \in Orders, Cancel(o) PROVE Unshipped(u, p)'
  BY <1>4 DEF Cancel
<1>5. ASSUME NEW o \in Orders, GetUserCart(o) PROVE Unshipped(u, p)'
  <2>1. /\ pc[o] = "getUserCart" /\ user[o] \in Users
        /\ UNCHANGED <<user, cart, adding, added, bought, mayRepeat>>
        /\ \/ /\ pc' = [pc EXCEPT ![o] = "prepOrderItems"]
              /\ cartItems' = [cartItems EXCEPT ![o] = cart[user[o]]]
           \/ pc' = [pc EXCEPT ![o] = "done"] /\ cartItems' = cartItems
    BY <1>5 DEF GetUserCart, Proceed, Return, ReturnError
  <2>2. user[o] = u => \A x \in Orders : user[x] = u => pc[x] # "emptyUserCart"
    BY <2>1 DEF OneAtATime, InFlight
  <2> QED BY <2>1, <2>2
<1>6. ASSUME NEW o \in Orders, PrepOrderItems(o) \/ QuoteShipping(o) \/ ConvertCurrency(o)
      PROVE Unshipped(u, p)'
  BY <1>6 DEF PrepOrderItems, QuoteShipping, ConvertCurrency, Prepare, Proceed, Return, ReturnError
<1>7. ASSUME Die PROVE Unshipped(u, p)'
  BY <1>7 DEF Die, InFlight
<1>8. ASSUME NEW o \in Orders, Total(o) PROVE Unshipped(u, p)'
  BY <1>7, <1>8 DEF Total, Proceed
<1>9. ASSUME NEW o \in Orders, ChargeCard(o) PROVE Unshipped(u, p)'
  BY <1>9 DEF ChargeCard, Proceed, Return, ReturnError
<1>10. ASSUME NEW o \in Orders, ShipOrder(o) PROVE Unshipped(u, p)'
  <2>1. /\ pc[o] = "shipOrder" /\ user[o] \in Users
        /\ UNCHANGED <<user, cartItems, cart, adding, added>>
        /\ mayRepeat \subseteq mayRepeat'
        /\ \/ /\ bought' = [bought EXCEPT ![user[o]] = Plus(@, cartItems[o])]
              /\ pc' = [pc EXCEPT ![o] = "emptyUserCart"]
           \/ bought' = bought /\ pc' = [pc EXCEPT ![o] = "done"]
           \/ /\ user[o] # u
              /\ bought' = [bought EXCEPT ![user[o]] = Plus(@, cartItems[o])]
              /\ pc' = [pc EXCEPT ![o] = "done"]
    BY <1>10 DEF ShipOrder, Proceed, Return, ReturnError, Executed
  <2>2. user[o] = u => bought'[u][p] \in {bought[u][p], bought[u][p] + cartItems[o][p]}
    BY <2>1 DEF Plus
  <2>3. user[o] # u => bought'[u] = bought[u]
    BY <2>1
  <2>4. user[o] = u => \A x \in Orders : user[x] = u /\ x # o => pc[x] \notin Calls
    BY <2>1 DEF OneAtATime, InFlight
  <2> QED BY <2>1, <2>2, <2>3, <2>4
<1>11. ASSUME NEW o \in Orders, EmptyUserCart(o) PROVE Unshipped(u, p)'
  <2>1. /\ pc[o] = "emptyUserCart" /\ user[o] \in Users
        /\ UNCHANGED <<user, cartItems, bought, added>>
        /\ mayRepeat \subseteq mayRepeat'
        /\ pc' = [pc EXCEPT ![o] = "sendOrderConfirmation"]
        /\ \/ cart' = [cart EXCEPT ![user[o]] = NoItems]
           \/ cart' = cart /\ user[o] # u
    BY <1>11 DEF EmptyUserCart, Proceed
  <2>2. \A k \in Adding(u)' : /\ k \in Adding(u)
                             /\ adding'[k].copy = adding[k].copy
                             /\ (adding'[k].outdated \/ adding'[k] = adding[k])
    BY <1>11, EmptyEffect
  <2>3. CASE user[o] = u
    <3>1. cart' = [cart EXCEPT ![u] = NoItems] /\ u \notin mayRepeat
      BY <2>1, <2>3
    <3>2. \A k \in Adding(u)' : adding'[k].outdated
      BY <1>11, <2>3, <3>1, EmptyEffect
    <3> QED BY <2>1, <2>3, <3>1, <3>2 DEF NoItems
  <2>4. CASE user[o] # u
    BY <2>1, <2>2, <2>4
  <2> QED BY <2>3, <2>4
<1>12. ASSUME NEW o \in Orders, SendOrderConfirmation(o) PROVE Unshipped(u, p)'
  BY <1>12 DEF SendOrderConfirmation, Proceed, Return
<1>13. ASSUME NEW o \in Orders, SendToPostProcessor(o) PROVE Unshipped(u, p)'
  BY <1>7, <1>13 DEF SendToPostProcessor, Return
<1>14. CASE Crash
  BY <1>7, <1>14 DEF Crash
<1>15. CASE Restart
  BY <1>15 DEF Restart
<1>16. CASE UNCHANGED vars
  BY <1>16
<1>17. ASSUME NEW h \in Adders, WriteAdded(h) PROVE Unshipped(u, p)'
  <2>1. u \notin mayRepeat /\ (adding[h].user = u => ~adding[h].outdated)
    BY <1>17 DEF WriteAdded
  <2>2. CASE adding[h].user = u
    <3>1. h \in Adding(u)
      BY <1>17, <2>2 DEF Adding, WriteAdded
    <3>2. PICK n \in {0, 1} : /\ cart'[u][p] = adding[h].copy[p] + n
                             /\ added'[u][p] = added[u][p] + n
      BY <1>17, <2>2, WriteEffect
    <3>3. /\ UNCHANGED <<pc, user, cartItems, bought>>
          /\ \A k \in Adding(u)' : k \in Adding(u) /\ adding'[k] = adding[k]
      BY <1>17, WriteEffect
    <3>4. adding[h].copy[p] \in Nat /\ \A k \in Adding(u) : adding[k].copy[p] \in Nat
      BY <3>1 DEF Adding
    <3> QED BY <2>1, <2>2, <3>1, <3>2, <3>3, <3>4
  <2>3. CASE adding[h].user # u
    BY <1>17, <2>1, <2>3, WriteEffect
  <2> QED BY <2>2, <2>3
<1>18. ASSUME NEW h \in Adders, AddFails(h) PROVE Unshipped(u, p)'
  <2>1. \A k \in Adding(u)' : adding'[k] = adding[k] /\ k \in Adding(u)
    BY <1>18, <1>d DEF AddFails, Adding
  <2> QED BY <1>18, <2>1 DEF AddFails
<1> QED
  BY <1>1, <1>2, <1>3, <1>4, <1>5, <1>6, <1>8, <1>9, <1>10, <1>11, <1>12, <1>13, <1>14, <1>15,
     <1>16, <1>17, <1>18 DEF Next, Handler

-----------------------------------------------------------------------------
LEMMA InitIInv == Init => IInv
<1> SUFFICES ASSUME Init PROVE IInv
  OBVIOUS
<1> USE CheckoutAssumption DEF Init
<1>1. TypeOK
  BY NoItemsType DEF TypeOK
<1>2. Requests
  BY DEF Requests, Progress, Charged, Announced, Told, CarriesCart, AfterShip
<1>3. Coverage
  BY DEF Coverage, Covered, Adding, NoItems, CarriesCart
<1>4. Turns
  BY DEF Turns, OneAtATime, InFlight, Calls
<1>5. Repeats
  BY DEF Repeats, Unshipped, Adding, NoItems, CarriesCart
<1> QED BY <1>1, <1>2, <1>3, <1>4, <1>5 DEF IInv

\* The strengthened invariant holds of every behaviour.
LEMMA Inductive == Spec => []IInv
<1>1. IInv /\ [Next]_vars => IInv'
  BY TypeStep, RequestStep, CoverageStep, TurnStep, RepeatStep DEF IInv
<1> QED BY InitIInv, <1>1, PTL DEF Spec

\* Every variable stays in its type: no request is at an unknown call, no
\* count of items is negative.
THEOREM TypeCorrect == Spec => []TypeOK
<1>1. IInv => TypeOK
  BY DEF IInv
<1> QED BY Inductive, <1>1, PTL

\* PlaceOrder ships nothing it did not charge the card for, item for item,
\* whichever calls fail or are cancelled and whenever the process dies.
THEOREM ShippedCharged == Spec => []ShippedWasCharged
<1>1. IInv => ShippedWasCharged
  BY DEF IInv, Requests, Charged, ShippedWasCharged
<1> QED BY Inductive, <1>1, PTL

\* PlaceOrder mails and publishes only orders that were shipped.
THEOREM AnnouncedShipped == Spec => []AnnouncedWasShipped
<1>1. IInv => AnnouncedWasShipped
  BY DEF IInv, TypeOK, Requests, Announced, AnnouncedWasShipped
<1> QED BY Inductive, <1>1, PTL

\* The status code that PlaceOrder returns tells its client what was charged,
\* shipped, announced and emptied.
THEOREM ReplyTells == Spec => []ReplyTellsOutcome
<1>1. IInv => ReplyTellsOutcome
  BY DEF IInv, Requests, Told, ReplyTellsOutcome
<1> QED BY Inductive, <1>1, PTL

\* No item a user wants vanishes between the cart and the shipment, unless
\* the user added to the cart while PlaceOrder, or another AddItem, was at work.
THEOREM NothingLost == Spec => []NothingVanishes
<1>1. IInv => NothingVanishes
  BY DEF IInv, Coverage, Covered, NothingVanishes
<1> QED BY Inductive, <1>1, PTL

\* PlaceOrder ships no item twice, unless orders of one user overlap, one stops
\* between shipping and emptying the cart, or AddItem writes back a cart that it
\* had read before an order emptied it.
THEOREM ShippedOnce == Spec => []NothingShippedTwice
<1>1. IInv => NothingShippedTwice
  BY DEF IInv, Repeats, Unshipped, NothingShippedTwice
<1> QED BY Inductive, <1>1, PTL
=============================================================================
