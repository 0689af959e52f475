------------------------------ MODULE CartStore ------------------------------
(***************************************************************************)
(* The cart service over Valkey: src/src/cart/src/services/CartService.cs  *)
(* and src/src/cart/src/cartstore/ValkeyCartStore.cs.  A cart is one hash  *)
(* field holding the serialized message; AddItemAsync reads it, changes    *)
(* its copy and writes the whole cart back, then renews the key's expiry,  *)
(* awaiting each of the three.  Nothing orders two handlers of one user.   *)
(*                                                                         *)
(* A handler serves one call.  The service keeps nothing between calls, so *)
(* a crash of its process is the failure of every call in flight.          *)
(***************************************************************************)
EXTENDS Integers, Sequences, FiniteSets

CONSTANTS
  Users, Products,
  Quantities,        \* the quantities AddItem is called with
  Handlers,          \* one per call served
  SerialUsers,       \* users whose client awaits each call before the next
  NoCart, NoUser, NoItem

Item == [product : Products, quantity : Nat \ {0}]
CartMessage == [userId : Users \cup {NoUser}, items : Seq(Item)]
Ops == {"AddItem", "EmptyCart", "GetCart"}
Call == [op : Ops \cup {"none"}, user : Users \cup {NoUser}, item : Item \cup {NoItem}]

ASSUME CartStoreAssumption ==
  /\ SerialUsers \subseteq Users
  /\ Quantities \subseteq Nat \ {0}
  /\ NoUser \notin Users
  /\ NoCart \notin CartMessage
  /\ NoItem \notin Item

VARIABLES
  store,        \* store[u]: what HashGet(u, "cart") returns
  expires,      \* expires[u]: the key u has a time to live
  pc, call,     \* per handler: where it stands, and the request it serves
  value,        \* per handler: the cart HashGetAsync returned
  asked,        \* auxiliary: asked[u][p], the quantity AddItem calls asked for
  unrenewed     \* auxiliary: users one of whose writers failed before KeyExpire

vars == <<store, expires, pc, call, value, asked, unrenewed>>

Init ==
  /\ store = [u \in Users |-> NoCart]
  /\ expires = [u \in Users |-> FALSE]
  /\ pc = [h \in Handlers |-> "idle"]
  /\ call = [h \in Handlers |-> [op |-> "none", user |-> NoUser, item |-> NoItem]]
  /\ value = [h \in Handlers |-> NoCart]
  /\ asked = [u \in Users |-> [p \in Products |-> 0]]
  /\ unrenewed = {}

InFlight(u) == {h \in Handlers : call[h].user = u /\ pc[h] \in {"read", "write", "expire"}}

-----------------------------------------------------------------------------
\* The cart AddItemAsync writes back, from the copy it read.

EmptyMessage == [userId |-> NoUser, items |-> <<>>]     \* _emptyCartBytes

LinesOf(items, p) == {k \in DOMAIN items : items[k].product = p}

\* Faulty variants: every call adds a line; a known product's quantity is
\* replaced.
AlwaysAppended(items, item) == Append(items, item)
Replaced(items, item) ==
  IF LinesOf(items, item.product) = {} THEN Append(items, item)
  ELSE [k \in DOMAIN items |-> IF items[k].product = item.product THEN item ELSE items[k]]

ItemAdded(items, item) ==
  IF LinesOf(items, item.product) = {} THEN Append(items, item)
  ELSE [k \in DOMAIN items |->
          IF items[k].product = item.product
          THEN [items[k] EXCEPT !.quantity = @ + item.quantity]
          ELSE items[k]]

CartWithItem(read, u, item) ==
  IF read = NoCart
  THEN [userId |-> u, items |-> <<item>>]
  ELSE [userId |-> read.userId, items |-> ItemAdded(read.items, item)]

-----------------------------------------------------------------------------
\* A call arrives.  A serial user's client has no other call under way.
Receive(h) ==
  /\ pc[h] = "idle"
  /\ \E u \in Users, op \in Ops, p \in Products, q \in Quantities :
       /\ u \in SerialUsers => InFlight(u) = {}
       /\ call' = [call EXCEPT ![h] =
            [op |-> op, user |-> u,
             item |-> IF op = "AddItem" THEN [product |-> p, quantity |-> q] ELSE NoItem]]
       /\ pc' = [pc EXCEPT ![h] = IF op = "EmptyCart" THEN "write" ELSE "read"]
       /\ asked' = IF op = "AddItem" THEN [asked EXCEPT ![u][p] = @ + q] ELSE asked
  /\ UNCHANGED <<store, expires, value, unrenewed>>

\* AddItemAsync and GetCartAsync: await db.HashGetAsync(userId, "cart").
HashGet(h) ==
  /\ pc[h] = "read"
  /\ value' = [value EXCEPT ![h] = store[call[h].user]]
  /\ pc' = [pc EXCEPT ![h] = IF call[h].op = "GetCart" THEN "done" ELSE "write"]
  /\ UNCHANGED <<store, expires, call, asked, unrenewed>>

\* SingleOrDefault throws when the copy has two lines of one product.
SingleOrDefaultThrows(h) ==
  /\ call[h].op = "AddItem"
  /\ value[h] # NoCart
  /\ Cardinality(LinesOf(value[h].items, call[h].item.product)) > 1

\* What the handler writes: AddItemAsync its changed copy, EmptyCartAsync the
\* bytes of an empty message.
Written(h) ==
  IF call[h].op = "AddItem" THEN CartWithItem(value[h], call[h].user, call[h].item)
  ELSE EmptyMessage

\* A faulty variant: EmptyCartAsync answers without renewing the expiry.
RenewedByAddItem(h) == IF call[h].op = "EmptyCart" THEN "done" ELSE "expire"

AfterWrite(h) == "expire"

\* await db.HashSetAsync(userId, cart).  The key keeps the expiry it has; a
\* new key has none.
HashSet(h) ==
  /\ pc[h] = "write"
  /\ ~SingleOrDefaultThrows(h)
  /\ store' = [store EXCEPT ![call[h].user] = Written(h)]
  /\ pc' = [pc EXCEPT ![h] = AfterWrite(h)]
  /\ UNCHANGED <<expires, call, value, asked, unrenewed>>

\* await db.KeyExpireAsync(userId, 60 minutes): no effect on an absent key.
KeyExpire(h) ==
  /\ pc[h] = "expire"
  /\ expires' = [expires EXCEPT ![call[h].user] = store[call[h].user] # NoCart]
  /\ unrenewed' = unrenewed \ {call[h].user}
  /\ pc' = [pc EXCEPT ![h] = "done"]
  /\ UNCHANGED <<store, call, value, asked>>

\* A faulty variant of Fail: a write whose outcome is unknown is tried again.
Retry(h) ==
  /\ pc[h] = "write" /\ ~SingleOrDefaultThrows(h)
  /\ store' = [store EXCEPT ![call[h].user] = Written(h)]
  /\ pc' = [pc EXCEPT ![h] = "read"]
  /\ UNCHANGED <<expires, call, value, asked, unrenewed>>

\* Any of the awaited commands throws, or the service dies: the caller gets
\* FailedPrecondition (EmptyCart also when the flag cartFailure sends it to
\* the unreachable store).  A command that timed out may have been executed.
Fail(h) ==
  /\ pc[h] \in {"read", "write", "expire"}
  /\ pc' = [pc EXCEPT ![h] = "failed"]
  /\ \/ /\ pc[h] = "write" /\ ~SingleOrDefaultThrows(h)
        /\ store' = [store EXCEPT ![call[h].user] = Written(h)]
        /\ unrenewed' = unrenewed \cup {call[h].user}
        /\ UNCHANGED expires
     \/ /\ pc[h] = "expire"
        /\ unrenewed' = unrenewed \cup {call[h].user}
        /\ \/ UNCHANGED expires
           \/ expires' = [expires EXCEPT ![call[h].user] = store[call[h].user] # NoCart]
        /\ UNCHANGED store
     \/ /\ pc[h] \in {"read", "write"}
        /\ UNCHANGED <<store, expires, unrenewed>>
  /\ UNCHANGED <<call, value, asked>>

\* Valkey removes a key whose hour is over.
Expire(u) ==
  /\ expires[u]
  /\ store' = [store EXCEPT ![u] = NoCart]
  /\ expires' = [expires EXCEPT ![u] = FALSE]
  /\ UNCHANGED <<pc, call, value, asked, unrenewed>>

Next ==
  \/ \E h \in Handlers : Receive(h) \/ HashGet(h) \/ HashSet(h) \/ KeyExpire(h) \/ Fail(h)
  \/ \E u \in Users : Expire(u)

Spec == Init /\ [][Next]_vars

-----------------------------------------------------------------------------
QuantityOf(m, p) ==
  IF m = NoCart \/ LinesOf(m.items, p) = {} THEN 0
  ELSE m.items[CHOOSE k \in LinesOf(m.items, p) : TRUE].quantity

TypeOK ==
  /\ store \in [Users -> CartMessage \cup {NoCart}]
  /\ expires \in [Users -> BOOLEAN]
  /\ pc \in [Handlers -> {"idle", "read", "write", "expire", "done", "failed"}]
  /\ call \in [Handlers -> Call]
  /\ \A h \in Handlers : pc[h] # "idle" => /\ call[h].op \in Ops
                                           /\ call[h].user \in Users
                                           /\ call[h].op = "AddItem" => call[h].item \in Item
  /\ value \in [Handlers -> CartMessage \cup {NoCart}]
  /\ asked \in [Users -> [Products -> Nat]]
  /\ unrenewed \subseteq Users

\* A stored cart has one line per product however the calls interleave: with
\* two, SingleOrDefault would throw and the product could never be added again.
OneLinePerProduct ==
  \A u \in Users, p \in Products :
    store[u] # NoCart => Cardinality(LinesOf(store[u].items, p)) <= 1

\* Racing calls may lose each other's items, but a cart never holds more of a
\* product than its user asked for: no interleaving of stale copies, failed
\* writes and expiry counts one AddItem twice.
NothingAddedTwice ==
  \A u \in Users, p \in Products : QuantityOf(store[u], p) <= asked[u][p]

\* A cart stays for ever only where a call failed between the write and the
\* renewal; otherwise a key without expiry has a handler about to set it.
CartsExpire ==
  \A u \in Users :
    (store[u] # NoCart /\ ~expires[u]) =>
      u \in unrenewed \/ \E h \in Handlers : call[h].user = u /\ pc[h] = "expire"

\* A handler of u whose copy of the cart outlived the stored one.
Outlived(u, h) ==
  /\ store[u] = NoCart
  /\ call[h].user = u
  /\ call[h].op = "AddItem"
  /\ pc[h] = "write"
  /\ value[h] # NoCart

\* What u has: a cart that expires between the read and the write of an
\* AddItem is cleared when that call fails, or not at all.
EffectiveCart(u) ==
  IF \E h \in Handlers : Outlived(u, h)
  THEN value[CHOOSE h \in Handlers : Outlived(u, h)]
  ELSE store[u]

\* The call of u that is to change its cart, as the abstract cart sees it.
PendingOf(u) ==
  LET writers == {h \in InFlight(u) : call[h].op # "GetCart"}
      h == CHOOSE w \in writers : TRUE
  IN IF writers = {} THEN [status |-> "none"]
     ELSE IF pc[h] = "expire" THEN [status |-> "applied"]
     ELSE IF call[h].op = "EmptyCart" THEN [status |-> "empty"]
     ELSE [status |-> "add", product |-> call[h].item.product, quantity |-> call[h].item.quantity]

\* For a user whose client awaits each call, the store is an atomic cart: an
\* acknowledged AddItem or EmptyCart took effect exactly once, in one step.
AtomicCart ==
  INSTANCE Cart WITH Users <- SerialUsers,
                     cart <- [u \in SerialUsers |->
                                [p \in Products |-> QuantityOf(EffectiveCart(u), p)]],
                     pending <- [u \in SerialUsers |-> PendingOf(u)]
ImplementsCart == AtomicCart!Spec

\* What the service's tests assert (CartServiceTests.cs:95): GetCart after an
\* AddItem answers a cart that carries the user's id.
CartCarriesUserId ==
  \A h \in Handlers :
    (/\ call[h].op = "GetCart" /\ pc[h] = "done"
     /\ value[h] # NoCart /\ value[h].items # <<>>) => value[h].userId = call[h].user
=============================================================================
