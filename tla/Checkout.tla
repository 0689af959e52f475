------------------------------ MODULE Checkout ------------------------------
(***************************************************************************)
(* CheckoutService.PlaceOrder (src/src/checkout/main.go): one request      *)
(* reads the user's cart, prices it, charges the card, ships, empties the  *)
(* cart, mails a confirmation and hands the order to Kafka, calling a      *)
(* remote service for each and undoing nothing when one fails.  Requests   *)
(* run concurrently in one process; users change their carts meanwhile.    *)
(*                                                                         *)
(* The cart service is here what CartStore makes of it: reading and        *)
(* emptying a cart are one command each, AddItem is a read of the whole    *)
(* cart and, later, a write of the changed copy.  What an order costs is   *)
(* told by the cart it was priced from (module OrderTotal does the sums),  *)
(* and publication to Kafka is one step that may lose the message.         *)
(***************************************************************************)
EXTENDS Integers

CONSTANTS
  Orders,            \* the PlaceOrder requests
  Users, Products,
  Adders,            \* bound: the AddItem calls the cart service serves at once
  None,
  KafkaConfigured,   \* KAFKA_ADDR is set
  SafeAmounts,       \* every amount is a SafeCost of OrderTotal
  MaxItems           \* bound: items of one product a user puts into a cart

Contents == [Products -> Nat]
Additions == [user : Users, product : Products, copy : Contents, outdated : BOOLEAN]

ASSUME CheckoutAssumption ==
  /\ None \notin Contents
  /\ None \notin Users
  /\ None \notin Additions
  /\ KafkaConfigured \in BOOLEAN
  /\ SafeAmounts \in BOOLEAN
  /\ MaxItems \in Nat

VARIABLES
  pc, user,          \* per request: the call it is about to make, its user
  cartItems,         \* per request: the cart it read (prep.cartItems)
  reply,             \* per request: the status code PlaceOrder returned
  cancelled,         \* requests whose context is done
  producer,          \* KafkaProducerClient: "ready", or "nil" when creating it failed
  up,                \* the checkout process runs
  cart,              \* the cart service: cart[u][p]
  adding,            \* per AddItem call: the copy of the cart it is changing
  charged, shipped,  \* per request: what payment and shipping were asked for
  emptied,           \* requests whose emptying of the cart was carried out
  mailed, published, \* requests confirmed by mail, and on the topic "orders"
  \* auxiliary, per user and product:
  added,             \* put into the cart
  wanted,            \* added and not given up by emptying the cart
  bought,            \* shipped
  raced,             \* users who added with an order, or a second AddItem, under way
  mayRepeat          \* users left, once, with a cart that had been shipped

request == <<pc, user, cartItems, reply, cancelled>>
process == <<producer, up>>
store == <<cart, adding>>
effects == <<charged, shipped, emptied, mailed, published>>
ledger == <<added, wanted, bought, raced, mayRepeat>>
vars == <<request, process, store, effects, ledger>>

NoItems == [p \in Products |-> 0]
Plus(a, b) == [p \in Products |-> a[p] + b[p]]

Calls == {"getUserCart", "prepOrderItems", "quoteShipping", "convertCurrency", "total",
          "chargeCard", "shipOrder", "emptyUserCart", "sendOrderConfirmation",
          "sendToPostProcessor"}

InFlight(o) == pc[o] \in Calls

\* The AddItem calls that have read u's cart and not yet written it.
Adding(u) == {h \in Adders : adding[h] # None /\ adding[h].user = u}

Init ==
  /\ pc = [o \in Orders |-> "idle"]
  /\ user = [o \in Orders |-> None]
  /\ cartItems = [o \in Orders |-> None]
  /\ reply = [o \in Orders |-> "none"]
  /\ cancelled = {}
  /\ up = TRUE
  /\ producer \in IF KafkaConfigured THEN {"ready", "nil"} ELSE {"nil"}
  /\ cart = [u \in Users |-> NoItems]
  /\ adding = [h \in Adders |-> None]
  /\ charged = [o \in Orders |-> None]
  /\ shipped = [o \in Orders |-> None]
  /\ emptied = {}
  /\ mailed = {}
  /\ published = {}
  /\ added = [u \in Users |-> NoItems]
  /\ wanted = [u \in Users |-> NoItems]
  /\ bought = [u \in Users |-> NoItems]
  /\ raced = {}
  /\ mayRepeat = {}

-----------------------------------------------------------------------------
\* How a remote call ends.  A call on a context that is done fails at once;
\* any other may also fail after the service did what it was asked to.
Outcomes(o) == IF o \in cancelled THEN {"failed"} ELSE {"ok", "failed", "unknown"}

Executed(outcome) == outcome \in {"ok", "unknown"}

Proceed(o, call) ==
  /\ pc' = [pc EXCEPT ![o] = call]
  /\ UNCHANGED reply

Return(o, code) ==
  /\ pc' = [pc EXCEPT ![o] = "done"]
  /\ reply' = [reply EXCEPT ![o] = code]

\* Faulty variants: a payment error, or a shipping error, is only logged; a
\* shipping error is reported like every other.
PaymentErrorLogged(o, code) ==
  IF pc[o] = "chargeCard" THEN Proceed(o, "shipOrder") ELSE Return(o, code)
ShippingErrorLogged(o, code) ==
  IF pc[o] = "shipOrder" THEN Proceed(o, "emptyUserCart") ELSE Return(o, code)
AlwaysInternal(o, code) == Return(o, "Internal")

\* A failed call ends the request: return nil, status.Errorf(code, ...).
ReturnError(o, code) == Return(o, code)

\* The end of the process: every request in flight dies with it.
Die ==
  /\ up' = FALSE
  /\ pc' = [o \in Orders |-> IF InFlight(o) THEN "done" ELSE pc[o]]
  /\ reply' = [o \in Orders |-> IF InFlight(o) THEN "lost" ELSE reply[o]]
  /\ mayRepeat' = mayRepeat \cup {user[o] : o \in {x \in Orders : pc[x] = "emptyUserCart"}}
  /\ UNCHANGED <<user, cartItems, cancelled, producer, store, effects, added, wanted, bought, raced>>

-----------------------------------------------------------------------------
\* The customers.

\* AddItemAsync reads the cart,
ReadToAdd(h, u, p) ==
  /\ adding[h] = None
  /\ added[u][p] < MaxItems
  /\ adding' = [adding EXCEPT ![h] =
       [user |-> u, product |-> p, copy |-> cart[u], outdated |-> FALSE]]
  /\ UNCHANGED <<request, process, cart, effects, ledger>>

\* A faulty variant: the quantity is subtracted.
OneLess(copy, p) == [copy EXCEPT ![p] = @ - 1]

\* adds to the copy it read,
OneMore(copy, p) == [copy EXCEPT ![p] = @ + 1]

\* and writes it back, over whatever has become of the cart since.
WriteAdded(h) ==
  /\ adding[h] # None
  /\ LET u == adding[h].user
         p == adding[h].product
     IN  /\ cart' = [cart EXCEPT ![u] = OneMore(adding[h].copy, p)]
         /\ added' = [added EXCEPT ![u][p] = @ + 1]
         /\ wanted' = [wanted EXCEPT ![u][p] = @ + 1]
         /\ raced' = IF \/ \E o \in Orders : user[o] = u /\ InFlight(o)
                        \/ Adding(u) # {h}
                     THEN raced \cup {u} ELSE raced
         /\ mayRepeat' = IF adding[h].outdated THEN mayRepeat \cup {u} ELSE mayRepeat
  /\ adding' = [adding EXCEPT ![h] = None]
  /\ UNCHANGED <<request, process, effects, bought>>

\* Valkey fails, or the cart service ends, before the write.
AddFails(h) ==
  /\ adding[h] # None
  /\ adding' = [adding EXCEPT ![h] = None]
  /\ UNCHANGED <<request, process, cart, effects, ledger>>

\* The user empties the cart, or it expires.
DropCart(u) ==
  /\ cart[u] # NoItems
  /\ cart' = [cart EXCEPT ![u] = NoItems]
  /\ wanted' = [wanted EXCEPT ![u] = bought[u]]
  /\ UNCHANGED <<request, process, adding, effects, added, bought, raced, mayRepeat>>

PlaceOrder(o, u) ==
  /\ up
  /\ pc[o] = "idle"
  /\ user' = [user EXCEPT ![o] = u]
  /\ Proceed(o, "getUserCart")
  /\ mayRepeat' = IF \E x \in Orders : user[x] = u /\ InFlight(x)
                  THEN mayRepeat \cup {u} ELSE mayRepeat
  /\ UNCHANGED <<cartItems, cancelled, process, store, effects, added, wanted, bought, raced>>

\* The client gives up: ctx is done.
Cancel(o) ==
  /\ InFlight(o)
  /\ o \notin cancelled
  /\ cancelled' = cancelled \cup {o}
  /\ UNCHANGED <<pc, user, cartItems, reply, process, store, effects, ledger>>

-----------------------------------------------------------------------------
\* prepareOrderItemsAndShippingQuoteFromCart: four calls that change nothing.

GetUserCart(o) ==
  /\ pc[o] = "getUserCart"
  /\ \/ /\ "ok" \in Outcomes(o)
        /\ cartItems' = [cartItems EXCEPT ![o] = cart[user[o]]]
        /\ Proceed(o, "prepOrderItems")
     \/ /\ ReturnError(o, "Internal")
        /\ UNCHANGED cartItems
  /\ UNCHANGED <<user, cancelled, process, store, effects, ledger>>

\* A faulty variant: the cart is emptied as soon as the order is priced.
EmptiedWhenPriced(o, call, next) ==
  /\ pc[o] = call
  /\ Proceed(o, next)
  /\ cart' = IF next = "total" THEN [cart EXCEPT ![user[o]] = NoItems] ELSE cart
  /\ UNCHANGED <<user, cartItems, cancelled, process, adding, effects, ledger>>

\* A step of the preparation: it succeeds, or PlaceOrder returns Internal.
Prepare(o, call, next) ==
  /\ pc[o] = call
  /\ \/ "ok" \in Outcomes(o) /\ Proceed(o, next)
     \/ ReturnError(o, "Internal")
  /\ UNCHANGED <<user, cartItems, cancelled, process, store, effects, ledger>>

PrepOrderItems(o) == Prepare(o, "prepOrderItems", "quoteShipping")
ConvertCurrency(o) == Prepare(o, "convertCurrency", "total")

\* Shipping refuses the items of an empty cart: null in the JSON, not a list.
QuoteShipping(o) ==
  /\ Prepare(o, "quoteShipping", "convertCurrency")
  /\ cartItems[o] = NoItems => pc'[o] = "done"

\* The sums of the total; money.Must panics on an invalid amount.
Total(o) ==
  /\ pc[o] = "total"
  /\ \/ /\ Proceed(o, "chargeCard")
        /\ UNCHANGED <<user, cartItems, cancelled, process, store, effects, ledger>>
     \/ ~SafeAmounts /\ Die

ChargeCard(o) ==
  /\ pc[o] = "chargeCard"
  /\ \E outcome \in Outcomes(o) :
       /\ charged' = IF Executed(outcome) THEN [charged EXCEPT ![o] = cartItems[o]] ELSE charged
       /\ IF outcome = "ok" THEN Proceed(o, "shipOrder") ELSE ReturnError(o, "Internal")
  /\ UNCHANGED <<user, cartItems, cancelled, process, store, shipped, emptied, mailed, published,
                 ledger>>

ShipOrder(o) ==
  /\ pc[o] = "shipOrder"
  /\ \E outcome \in Outcomes(o) :
       /\ IF Executed(outcome)
          THEN /\ shipped' = [shipped EXCEPT ![o] = cartItems[o]]
               /\ bought' = [bought EXCEPT ![user[o]] = Plus(@, cartItems[o])]
          ELSE UNCHANGED <<shipped, bought>>
       /\ IF outcome = "ok" THEN Proceed(o, "emptyUserCart") ELSE ReturnError(o, "Unavailable")
       /\ mayRepeat' = IF outcome = "unknown" THEN mayRepeat \cup {user[o]} ELSE mayRepeat
  /\ UNCHANGED <<user, cartItems, cancelled, process, store, charged, emptied, mailed, published,
                 added, wanted, raced>>

\* A faulty variant: the cart is left to the frontend to empty.
CartKept(o) ==
  /\ pc[o] = "emptyUserCart"
  /\ Proceed(o, "sendOrderConfirmation")
  /\ UNCHANGED <<user, cartItems, cancelled, process, store, effects, ledger>>

\* _ = cs.emptyUserCart(...): its error is ignored.  What AddItem calls under
\* way have read is no longer the cart.
EmptyUserCart(o) ==
  /\ pc[o] = "emptyUserCart"
  /\ \E outcome \in Outcomes(o) :
       IF Executed(outcome)
       THEN /\ cart' = [cart EXCEPT ![user[o]] = NoItems]
            /\ adding' = [h \in Adders |-> IF h \in Adding(user[o])
                                         THEN [adding[h] EXCEPT !.outdated = TRUE] ELSE adding[h]]
            /\ emptied' = emptied \cup {o}
            /\ UNCHANGED mayRepeat
       ELSE /\ mayRepeat' = mayRepeat \cup {user[o]}
            /\ UNCHANGED <<store, emptied>>
  /\ Proceed(o, "sendOrderConfirmation")
  /\ UNCHANGED <<user, cartItems, cancelled, process, charged, shipped, mailed, published,
                 added, wanted, bought, raced>>

\* A failed mail is only logged.  Without KAFKA_ADDR the order ends here.
SendOrderConfirmation(o) ==
  /\ pc[o] = "sendOrderConfirmation"
  /\ \E outcome \in Outcomes(o) :
       mailed' = IF Executed(outcome) THEN mailed \cup {o} ELSE mailed
  /\ IF KafkaConfigured THEN Proceed(o, "sendToPostProcessor") ELSE Return(o, "OK")
  /\ UNCHANGED <<user, cartItems, cancelled, process, store, charged, shipped, emptied, published,
                 ledger>>

\* A producer that could not be created is a nil interface: calling it panics.
\* Otherwise the message reaches the topic, or is lost, and the order is OK.
SendToPostProcessor(o) ==
  /\ pc[o] = "sendToPostProcessor"
  /\ \/ producer = "nil" /\ Die
     \/ /\ producer = "ready"
        /\ published' \in {published, published \cup {o}}
        /\ Return(o, "OK")
        /\ UNCHANGED <<user, cartItems, cancelled, process, store, charged, shipped, emptied,
                       mailed, ledger>>

-----------------------------------------------------------------------------
\* The process is killed; Docker restarts it, with or without a broker there.
Crash == up /\ Die

Restart ==
  /\ ~up
  /\ up' = TRUE
  /\ producer' \in IF KafkaConfigured THEN {"ready", "nil"} ELSE {"nil"}
  /\ UNCHANGED <<request, store, effects, ledger>>

Handler(o) ==
  \/ GetUserCart(o) \/ PrepOrderItems(o) \/ QuoteShipping(o) \/ ConvertCurrency(o)
  \/ Total(o) \/ ChargeCard(o) \/ ShipOrder(o) \/ EmptyUserCart(o)
  \/ SendOrderConfirmation(o) \/ SendToPostProcessor(o)

Next ==
  \/ \E u \in Users : DropCart(u)
  \/ \E h \in Adders : \/ WriteAdded(h) \/ AddFails(h)
                       \/ \E u \in Users, p \in Products : ReadToAdd(h, u, p)
  \/ \E o \in Orders : Cancel(o) \/ Handler(o) \/ (\E u \in Users : PlaceOrder(o, u))
  \/ Crash
  \/ Restart

Spec == Init /\ [][Next]_vars

-----------------------------------------------------------------------------
TypeOK ==
  /\ pc \in [Orders -> Calls \cup {"idle", "done"}]
  /\ user \in [Orders -> Users \cup {None}]
  /\ cartItems \in [Orders -> Contents \cup {None}]
  /\ reply \in [Orders -> {"none", "OK", "Internal", "Unavailable", "lost"}]
  /\ cancelled \subseteq Orders
  /\ producer \in {"ready", "nil"}
  /\ up \in BOOLEAN
  /\ cart \in [Users -> Contents]
  /\ adding \in [Adders -> Additions \cup {None}]
  /\ charged \in [Orders -> Contents \cup {None}]
  /\ shipped \in [Orders -> Contents \cup {None}]
  /\ emptied \subseteq Orders
  /\ mailed \subseteq Orders
  /\ published \subseteq Orders
  /\ added \in [Users -> Contents]
  /\ wanted \in [Users -> Contents]
  /\ bought \in [Users -> Contents]
  /\ raced \subseteq Users
  /\ mayRepeat \subseteq Users

\* Whatever fails, is cancelled or crashes, nothing is shipped that the card
\* was not charged for, item for item, although the cart may have changed.
ShippedWasCharged == \A o \in Orders : shipped[o] # None => charged[o] = shipped[o]

\* Accounting and fraud detection see only orders that were charged and
\* shipped, and the customer is mailed about no other.
AnnouncedWasShipped == \A o \in mailed \cup published : shipped[o] # None

\* What the codes that PlaceOrder itself returns tell its client.  OK: charged
\* and shipped.  Internal: nothing was shipped or announced, and the cart was
\* not emptied (the card may have been charged when the payment service's
\* answer was lost).  Unavailable: the card was charged and is not refunded,
\* and the cart was not emptied.  Nothing is said of an UNAVAILABLE that gRPC
\* makes up for a process that died or cannot be reached: there, any of the
\* effects may have been had.
ReplyTellsOutcome ==
  \A o \in Orders :
    /\ reply[o] = "OK" => charged[o] # None /\ shipped[o] # None
    /\ reply[o] = "Internal" => shipped[o] = None /\ o \notin emptied \cup mailed \cup published
    /\ reply[o] = "Unavailable" => charged[o] # None /\ o \notin emptied \cup mailed \cup published

\* What a user put into the cart and did not give up is in the cart or was
\* shipped, after any failures, retries and crashes, unless the user added to
\* the cart while an order was under way (the cart is emptied of more than the
\* order holds) or while another AddItem was (the later write loses the
\* earlier one's item).
NothingVanishes ==
  \A u \in Users, p \in Products :
    u \notin raced => wanted[u][p] <= bought[u][p] + cart[u][p]

\* A user is shipped no item twice, retries included, unless orders of the
\* user overlapped, or one ended between shipping and emptying the cart (the
\* shipping answer was lost, the cart service failed or the process died), or
\* an AddItem that had read the cart before an order emptied it wrote what it
\* had read back afterwards.
NothingShippedTwice ==
  \A u \in Users, p \in Products :
    \/ u \in mayRepeat
    \/ \E o \in Orders : user[o] = u /\ pc[o] = "emptyUserCart"
    \/ bought[u][p] + cart[u][p] <= added[u][p]
=============================================================================
