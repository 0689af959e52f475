------------------------------ MODULE Storefront ------------------------------
(***************************************************************************)
(* What a shopper sees and presses in src/frontend, over the cart service, *)
(* the catalogue and checkout: the cart query of a page (Cart.provider and *)
(* react-query's cache), the API routes behind it (pages/api/cart.ts and   *)
(* checkout.ts) and the presses that change the cart.                      *)
(*                                                                         *)
(* One tab's view is watched; the other tabs press as well, their views    *)
(* are like this one's.  A press is a request under way: the page does not *)
(* wait for one before it lets the shopper press again.  As in CartStore,  *)
(* the cart service adds to a cart by reading it and, later, writing the   *)
(* changed copy back; it empties a cart in one command.                    *)
(***************************************************************************)
EXTENDS Session

CONSTANTS
  Watched,     \* the tab whose view is modelled
  Products,
  Slots,       \* bound: presses under way at once
  MaxPresses,  \* bound: presses in all
  NoData,      \* undefined, no answer so far
  NoPress

ASSUME WatchedAssumption == Watched \in Tabs

VARIABLES
  cart,       \* the cart service: of each user, the quantity of each product
  catalogue,  \* the products product-catalog finds
  query,      \* the cart query of the watched page, by currency
  press,      \* the presses under way
  pressed,    \* how many there were
  excused,    \* history: why the watched page may not show its cart
  balance,    \* history: of each user, what was added and has not been shipped
  doubtful    \* history: the users who may have a cart shipped twice

shopVars == <<cart, catalogue, query, press, pressed, excused, balance, doubtful>>
vars == <<sessionVars, shopVars>>

None == [p \in Products |-> 0]
One(product) == [p \in Products |-> IF p = product THEN 1 ELSE 0]
Plus(a, b) == [p \in Products |-> a[p] + b[p]]
Minus(a, b) == [p \in Products |-> a[p] - b[p]]
In(items) == {p \in Products : items[p] > 0}

Unasked == [data |-> NoData, fetch |-> "idle", answer |-> NoData]

ShopInit ==
  /\ cart = [u \in 1..MaxUsers |-> None]
  /\ catalogue = Products
  /\ query = [c \in Currencies |-> Unasked]
  /\ press = [i \in Slots |-> NoPress]
  /\ pressed = 0
  /\ excused = FALSE
  /\ balance = [u \in 1..MaxUsers |-> None]
  /\ doubtful = {}

Api == page[Watched].captured[ApiGateway].user
Currency == page[Watched].currency

\* const { data: cart = { items: [] } }
View == IF query[Currency].data = NoData THEN None ELSE query[Currency].data

UnderWay == {i \in Slots : press[i] # NoPress}

-----------------------------------------------------------------------------
(* Sessions, and what they do to the page. *)

\* A page that is loaded again starts without answers, and nothing hears the
\* answers to the presses made on the old one.
Open(t) ==
  /\ OpenPage(t)
  /\ press' = [i \in Slots |-> IF i \in UnderWay /\ t = Watched
                               THEN [press[i] EXCEPT !.heard = FALSE] ELSE press[i]]
  /\ IF t = Watched
     THEN query' = [c \in Currencies |-> Unasked] /\ excused' = FALSE
     ELSE UNCHANGED <<query, excused>>
  /\ UNCHANGED <<cart, catalogue, pressed, balance, doubtful>>

\* CartDetail is shown by pages/cart only over a cart that is not empty.
Evaluate(t) ==
  /\ Capture(t)
  /\ t = Watched /\ Len(page[t].captured) + 1 = CartDetail => In(View) # {}
  /\ UNCHANGED shopVars

Fetching(q) == [q EXCEPT !.fetch = "asked", !.answer = NoData]

\* The query has a key of its own for each currency: what is cached for the new
\* one, however old, is shown while it is fetched, or its old fetch goes on.
Select(t, c) ==
  /\ SelectCurrency(t, c)
  /\ IF t # Watched THEN UNCHANGED <<query, excused>>
     ELSE IF query[c].fetch = "idle"
     THEN query' = [query EXCEPT ![c] = Fetching(@)] /\ UNCHANGED excused
     ELSE excused' = TRUE /\ UNCHANGED query
  /\ UNCHANGED <<cart, catalogue, press, pressed, balance, doubtful>>

SetItemOf(t) == SetItem(t) /\ UNCHANGED shopVars

Clear == ClearStorage /\ UNCHANGED shopVars

-----------------------------------------------------------------------------
(* The query of the watched page. *)

\* Mount, focus of the window, reconnection, retry.
FetchCart ==
  /\ Loaded(Watched)
  /\ query[Currency].fetch = "idle"
  /\ query' = [query EXCEPT ![Currency] = Fetching(@)]
  /\ UNCHANGED <<sessionVars, cart, catalogue, press, pressed, excused, balance, doubtful>>

\* GET /api/cart: getCart answers.
ReadCart(c) ==
  /\ query[c].fetch = "asked"
  /\ query' = [query EXCEPT ![c].fetch = "read", ![c].answer = cart[Api]]
  /\ excused' = (excused /\ c # Currency)
  /\ UNCHANGED <<sessionVars, cart, catalogue, press, pressed, balance, doubtful>>

\* Every product of it was found, and the answer reaches the page.
ShowCart(c) ==
  /\ query[c].fetch = "read"
  /\ In(query[c].answer) \subseteq catalogue
  /\ query' = [query EXCEPT ![c] =
                 [data |-> query[c].answer, fetch |-> "idle", answer |-> NoData]]
  /\ UNCHANGED <<sessionVars, cart, catalogue, press, pressed, excused, balance, doubtful>>

\* A service, a product or the network fails: the body is no JSON, the query
\* keeps its old data.
FetchFails(c) ==
  /\ query[c].fetch # "idle"
  /\ query' = [query EXCEPT ![c].fetch = "idle", ![c].answer = NoData]
  /\ excused' = (excused \/ c = Currency)
  /\ UNCHANGED <<sessionVars, cart, catalogue, press, pressed, balance, doubtful>>

-----------------------------------------------------------------------------
(* Presses. *)

Press(t, kind, user, items) ==
  /\ pressed < MaxPresses
  /\ pressed' = pressed + 1
  /\ \E i \in Slots \ UnderWay :
       press' = [press EXCEPT ![i] =
         [heard |-> (t = Watched), kind |-> kind, user |-> user, items |-> items,
          copy |-> None, status |-> "sent", unlisted |-> FALSE]]
  /\ UNCHANGED <<sessionVars, cart, catalogue, query, excused, balance, doubtful>>

\* The product page's button.
PressAdd(t, p) ==
  /\ Loaded(t)
  /\ Press(t, "add", page[t].captured[ApiGateway].user, One(p))

CanUseCart(t) == Idle(t) /\ Has(t, CartDetail) /\ (t = Watched => In(View) # {})

PressEmpty(t) ==
  /\ CanUseCart(t)
  /\ Press(t, "empty", page[t].captured[ApiGateway].user, None)

\* onPlaceOrder sends the id CartDetail captured, and no items.
PressOrder(t) ==
  /\ CanUseCart(t)
  /\ Press(t, "order", page[t].captured[CartDetail].user, None)

At(i, kind, status) ==
  i \in UnderWay /\ press[i].kind = kind /\ press[i].status = status

GoOn(i, status) == press' = [press EXCEPT ![i].status = status]

\* It was pressed on the watched page as it is now, which hears the answer.
Mine(i) == press[i].heard

\* A change of the watched page's cart that it will not hear of.
Unheard(i) ==
  excused' = (excused \/ /\ page[Watched].captured # <<>>
                         /\ press[i].user = Api
                         /\ ~Mine(i))

\* POST /api/cart: addItem, for which the cart service reads the cart,
ReadToAdd(i) ==
  /\ At(i, "add", "sent")
  /\ press' = [press EXCEPT ![i].status = "read", ![i].copy = cart[press[i].user]]
  /\ UNCHANGED <<sessionVars, cart, catalogue, query, pressed, excused, balance, doubtful>>

\* and writes what it read and the new item over whatever the cart has become;
\* and then getCart.
WriteAdded(i) ==
  /\ At(i, "add", "read") \/ At(i, "add", "outdated")
  /\ cart' = [cart EXCEPT ![press[i].user] = Plus(press[i].copy, press[i].items)]
  /\ balance' = [balance EXCEPT ![press[i].user] = Plus(@, press[i].items)]
  /\ doubtful' = IF press[i].status = "outdated" THEN doubtful \cup {press[i].user} ELSE doubtful
  /\ press' = [press EXCEPT ![i].status = "added", ![i].copy = None]
  /\ Unheard(i)
  /\ UNCHANGED <<sessionVars, catalogue, query, pressed>>

\* DELETE /api/cart.
EmptyCart(i) ==
  /\ At(i, "empty", "sent")
  /\ cart' = [cart EXCEPT ![press[i].user] = None]
  /\ GoOn(i, "emptied")
  /\ Unheard(i)
  /\ UNCHANGED <<sessionVars, catalogue, query, pressed, balance, doubtful>>

\* Faulty: the products are not looked up before the order.
PrepareUnlisted(i) ==
  /\ At(i, "order", "sent")
  /\ press' = [press EXCEPT ![i].status = "prepared", ![i].items = cart[press[i].user]]
  /\ doubtful' = IF \E j \in UnderWay : /\ press[j].user = press[i].user
                                        /\ press[j].status \in {"prepared", "shipped"}
                 THEN doubtful \cup {press[i].user} ELSE doubtful
  /\ UNCHANGED <<sessionVars, cart, catalogue, query, pressed, excused, balance>>

\* POST /api/checkout: checkout reads the cart and looks its products up,
PrepareOrder(i) ==
  /\ At(i, "order", "sent")
  /\ In(cart[press[i].user]) \subseteq catalogue
  /\ press' = [press EXCEPT ![i].status = "prepared", ![i].items = cart[press[i].user]]
  /\ doubtful' = IF \E j \in UnderWay : /\ press[j].user = press[i].user
                                        /\ press[j].status \in {"prepared", "shipped"}
                 THEN doubtful \cup {press[i].user} ELSE doubtful
  /\ UNCHANGED <<sessionVars, cart, catalogue, query, pressed, excused, balance>>

\* charges and ships,
Ship(i) ==
  /\ At(i, "order", "prepared")
  /\ GoOn(i, "shipped")
  /\ balance' = [balance EXCEPT ![press[i].user] = Minus(@, press[i].items)]
  /\ UNCHANGED <<sessionVars, cart, catalogue, query, pressed, excused, doubtful>>

\* Faulty: the cart is not emptied.
KeepCart(i) ==
  /\ At(i, "order", "shipped")
  /\ GoOn(i, "emptied")
  /\ Unheard(i)
  /\ UNCHANGED <<sessionVars, cart, catalogue, query, pressed, balance, doubtful>>

\* and empties the cart.  What additions of the user have read is outdated.
EmptyAfterOrder(i) ==
  /\ At(i, "order", "shipped")
  /\ cart' = [cart EXCEPT ![press[i].user] = None]
  /\ press' = [j \in Slots |->
       IF j = i THEN [press[j] EXCEPT !.status = "emptied"]
       ELSE IF At(j, "add", "read") /\ press[j].user = press[i].user
       THEN [press[j] EXCEPT !.status = "outdated"]
       ELSE press[j]]
  /\ Unheard(i)
  /\ UNCHANGED <<sessionVars, catalogue, query, pressed, balance, doubtful>>

\* That may fail, and nobody is told.
EmptyFails(i) ==
  /\ At(i, "order", "shipped")
  /\ GoOn(i, "emptied")
  /\ doubtful' = doubtful \cup {press[i].user}
  /\ UNCHANGED <<sessionVars, cart, catalogue, query, pressed, excused, balance>>

\* loadProductCatalog, whose failure leaves no catalogue.
Reload(products) ==
  /\ catalogue' = products
  /\ press' = [i \in Slots |->
                 IF products = {} /\ i \in UnderWay
                    /\ press[i].kind = "order" /\ press[i].status # "sent"
                 THEN [press[i] EXCEPT !.unlisted = TRUE] ELSE press[i]]
  /\ UNCHANGED <<sessionVars, cart, query, pressed, excused, balance, doubtful>>

-----------------------------------------------------------------------------
(* Answers. *)

\* All that is left is the answer; that to an order has its products looked up.
Done(i) ==
  \/ At(i, "add", "added")
  \/ At(i, "empty", "emptied")
  \/ At(i, "order", "emptied") /\ In(press[i].items) \subseteq catalogue

Settle(i) == press' = [press EXCEPT ![i] = NoPress]

\* Faulty: a fetch under way is left alone.
InvalidateIdle(q) == IF q.fetch = "idle" THEN Fetching(q) ELSE q

\* invalidateQueries: a fetch under way is started again, unless it is the
\* query's first.
Invalidate(q) == IF q.fetch = "idle" \/ q.data # NoData THEN Fetching(q) ELSE q

\* The mutation succeeds: onSuccess invalidates the cart.
Succeed(i) ==
  /\ Done(i)
  /\ Settle(i)
  /\ IF Mine(i)
     THEN /\ query' = [query EXCEPT ![Currency] = Invalidate(@)]
          /\ excused' = \/ excused
                        \/ query[Currency].fetch = "read" /\ query[Currency].data = NoData
     ELSE UNCHANGED <<query, excused>>
  /\ UNCHANGED <<sessionVars, cart, catalogue, pressed, balance, doubtful>>

\* The page hears of a failure, whatever was done before, and does not look at
\* the cart again.
Failed(i) ==
  /\ Settle(i)
  /\ excused' = (excused \/ Mine(i))
  /\ UNCHANGED <<sessionVars, cart, catalogue, query, pressed, balance>>

\* A product is not found: before the order, or when its answer is made up.
NotFound(i) ==
  /\ \/ At(i, "order", "sent") /\ ~(In(cart[press[i].user]) \subseteq catalogue)
     \/ At(i, "order", "emptied") /\ ~(In(press[i].items) \subseteq catalogue)
  /\ Failed(i)
  /\ UNCHANGED doubtful

\* The watched page hears of a failure, and what it asked for goes on.
Disconnect(i) ==
  /\ i \in UnderWay
  /\ Mine(i)
  /\ press' = [press EXCEPT ![i].heard = FALSE]
  /\ excused' = TRUE
  /\ UNCHANGED <<sessionVars, cart, catalogue, query, pressed, balance, doubtful>>

\* A service fails, and what was still to be done is not.
Lose(i) ==
  /\ i \in UnderWay
  /\ Failed(i)
  /\ doubtful' = IF press[i].status = "shipped" THEN doubtful \cup {press[i].user}
                                                ELSE doubtful

-----------------------------------------------------------------------------

SessionNext ==
  \/ \E t \in Tabs : Open(t) \/ Evaluate(t) \/ SetItemOf(t)
  \/ \E t \in Tabs, c \in Currencies : Select(t, c)
  \/ Clear

ShopNext ==
  \/ \E t \in Tabs : PressEmpty(t) \/ PressOrder(t) \/ \E p \in Products : PressAdd(t, p)
  \/ \E products \in {{}, Products} : Reload(products)
  \/ FetchCart
  \/ \E c \in Currencies : ReadCart(c) \/ ShowCart(c) \/ FetchFails(c)
  \/ \E i \in Slots : \/ ReadToAdd(i) \/ WriteAdded(i) \/ EmptyCart(i)
                      \/ PrepareOrder(i) \/ Ship(i) \/ EmptyAfterOrder(i) \/ EmptyFails(i)
                      \/ Succeed(i) \/ NotFound(i) \/ Lose(i) \/ Disconnect(i)

Init == SessionInit /\ ShopInit
Next == SessionNext \/ ShopNext
Spec == Init /\ [][Next]_vars

-----------------------------------------------------------------------------
(* Properties. *)

\* The page waits for nothing it has asked for.
Quiet ==
  /\ page[Watched].captured # <<>>
  /\ query[Currency].fetch = "idle"
  /\ query[Currency].data # NoData
  /\ \A i \in UnderWay : ~Mine(i)

\* A page that waits for nothing shows the cart as it is, except after a failure
\* (a mutation has the cart fetched again only when it succeeds, and
\* POST /api/cart fails after addItem when getCart does), after a change made
\* elsewhere, after a press answered while the page's first answer was on its
\* way (react-query does not start a first load again), or when a currency was
\* selected whose query was still under way.
ViewFresh == Quiet /\ ~excused => View = cart[Api]

\* Nothing is shipped that was not put into the cart: two orders of one cart, by
\* pressing twice or in two tabs, ship it once, unless the second order was
\* prepared before the first had emptied the cart, emptying it failed, or an
\* addition had read the cart before it was emptied and wrote it back after.
ShippedOnce ==
  \A u \in 1..MaxUsers : u \in doubtful \/ \A p \in Products : balance[u][p] >= 0

\* When the answer to an order that was shipped cannot be made up, because
\* pages/api/checkout.ts looks the products up once more and one is not found,
\* the catalogue was lost while the order was under way: the page is told that
\* its order failed for no other reason.
HiddenOrderHasCause ==
  \A i \in UnderWay :
    At(i, "order", "emptied") /\ ~(In(press[i].items) \subseteq catalogue) => press[i].unlisted

-----------------------------------------------------------------------------
(* What the proofs rest on. *)

Quantities == [Products -> Nat]
Ledgers == [1..MaxUsers -> [Products -> Int]]

PressRecords ==
  [heard : BOOLEAN, kind : {"add", "empty", "order"}, user : 1..MaxUsers,
   items : Quantities, copy : Quantities, unlisted : BOOLEAN,
   status : {"sent", "read", "outdated", "added", "emptied", "prepared", "shipped"}]

ASSUME NoPressAssumption == NoPress \notin PressRecords

ShopTypeOK ==
  /\ cart \in [1..MaxUsers -> Quantities]
  /\ balance \in Ledgers
  /\ press \in [Slots -> PressRecords \cup {NoPress}]
  /\ doubtful \subseteq 1..MaxUsers

\* An order that was prepared has products that are not found only after the
\* catalogue was lost.
LostHasCause ==
  \A i \in UnderWay :
    /\ press[i].kind = "order" /\ press[i].status # "sent"
    /\ ~(In(press[i].items) \subseteq catalogue)
    => press[i].unlisted

\* Between PrepareOrder and the end of emptying the cart.
Ordering(i, u) ==
  /\ i \in UnderWay
  /\ press[i].user = u
  /\ press[i].status \in {"prepared", "shipped"}

\* An addition of u has read the cart, and no order has emptied it since.
HasRead(i, u) == At(i, "add", "read") /\ press[i].user = u

\* Of a user who is not in doubt one order at a time has read the cart; what it
\* is about to ship was added, and so is, until it has, what the cart holds and
\* what additions have read of it.
UserLedgerOK(u) ==
  /\ \A p \in Products : balance[u][p] >= 0
  /\ \A i, j \in Slots : Ordering(i, u) /\ Ordering(j, u) => i = j
  /\ \A i \in Slots, p \in Products :
       Ordering(i, u) /\ press[i].status = "prepared" => press[i].items[p] <= balance[u][p]
  /\ (\A i \in Slots : Ordering(i, u) => press[i].status # "shipped")
       => \A p \in Products :
            /\ cart[u][p] <= balance[u][p]
            /\ \A i \in Slots : HasRead(i, u) => press[i].copy[p] <= balance[u][p]

LedgerOK == \A u \in 1..MaxUsers : u \in doubtful \/ UserLedgerOK(u)

ShopInv == ShopTypeOK /\ LostHasCause /\ LedgerOK
=============================================================================
