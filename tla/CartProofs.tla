------------------------------ MODULE CartProofs ------------------------------
(***************************************************************************)
(* The cart service, for any numbers of users, products and calls: what a  *)
(* stored cart may look like and hold, which carts expire, and that the    *)
(* store is an atomic cart for a user whose client awaits each call.  And  *)
(* its connection, for any number of threads, failures and attempts.       *)
(***************************************************************************)
EXTENDS CartStore, CartConnection, FiniteSetTheorems, SequenceTheorems, TLAPS

-----------------------------------------------------------------------------
(* Carts. *)

\* SingleOrDefault finds one line at most.
UniqueLines(items) ==
  \A j, k \in DOMAIN items : items[j].product = items[k].product => j = k

Unique(m) == m # NoCart => UniqueLines(m.items)

\* The lines of a stored or copied message.
LEMMA CartMessageFields ==
  ASSUME NEW m \in CartMessage
  PROVE  /\ m # NoCart
         /\ m.userId \in Users \cup {NoUser}
         /\ m.items \in Seq(Item)
BY CartStoreAssumption DEF CartMessage

LEMMA UniqueMeansOne ==
  ASSUME NEW items, UniqueLines(items), NEW p
  PROVE  IsFiniteSet(LinesOf(items, p)) /\ Cardinality(LinesOf(items, p)) <= 1
<1>1. CASE LinesOf(items, p) = {}
  BY <1>1, FS_EmptySet
<1>2. CASE LinesOf(items, p) # {}
  <2>1. PICK k \in LinesOf(items, p) : TRUE
    BY <1>2
  <2>2. LinesOf(items, p) = {k}
    BY <2>1 DEF LinesOf, UniqueLines
  <2>3. IsFiniteSet({k}) /\ Cardinality({k}) = 1
    BY FS_Singleton
  <2> QED
    BY <2>2, <2>3
<1> QED
  BY <1>1, <1>2

\* ItemAdded keeps a cart a cart with one line per product.
LEMMA ItemAddedUnique ==
  ASSUME NEW items \in Seq(Item), UniqueLines(items), NEW item \in Item
  PROVE  /\ ItemAdded(items, item) \in Seq(Item)
         /\ UniqueLines(ItemAdded(items, item))
<1>1. CASE LinesOf(items, item.product) = {}
  <2>1. ItemAdded(items, item) = Append(items, item)
    BY <1>1 DEF ItemAdded
  <2> QED
    BY <1>1, <2>1 DEF UniqueLines, LinesOf
<1>2. CASE LinesOf(items, item.product) # {}
  <2> DEFINE changed(k) == [items[k] EXCEPT !.quantity = @ + item.quantity]
             new == [k \in DOMAIN items |->
                       IF items[k].product = item.product THEN changed(k) ELSE items[k]]
  <2>1. ItemAdded(items, item) = new
    BY <1>2 DEF ItemAdded
  <2>2. \A k \in DOMAIN items : items[k] \in Item
    OBVIOUS
  <2>3. \A k \in DOMAIN items : changed(k) \in Item /\ changed(k).product = items[k].product
    BY <2>2 DEF Item
  <2>4. \A k \in DOMAIN items : new[k] \in Item /\ new[k].product = items[k].product
    BY <2>2, <2>3
  <2>5. DOMAIN new = 1 .. Len(items)
    OBVIOUS
  <2>6. new \in Seq(Item)
    <3>1. new \in [1 .. Len(items) -> Item]
      BY <2>4, <2>5
    <3> QED
      BY <3>1, SeqDef, Len(items) \in Nat
  <2> QED
    BY <2>1, <2>4, <2>5, <2>6 DEF UniqueLines
<1> QED
  BY <1>1, <1>2

\* A cart holds of a product what its one line says.
LEMMA QuantityAtLine ==
  ASSUME NEW m \in CartMessage, UniqueLines(m.items), NEW p,
         NEW k \in LinesOf(m.items, p)
  PROVE  QuantityOf(m, p) = m.items[k].quantity
<1>1. LinesOf(m.items, p) = {k}
  BY DEF LinesOf, UniqueLines
<1>2. (CHOOSE j \in LinesOf(m.items, p) : TRUE) = k
  BY <1>1
<1> QED
  BY <1>1, <1>2, CartMessageFields DEF QuantityOf

LEMMA QuantityType ==
  ASSUME NEW m \in CartMessage \cup {NoCart}, Unique(m), NEW p
  PROVE  /\ QuantityOf(m, p) \in Nat
         /\ m = NoCart => QuantityOf(m, p) = 0
         /\ m # NoCart /\ LinesOf(m.items, p) = {} => QuantityOf(m, p) = 0
<1>1. CASE m = NoCart \/ LinesOf(m.items, p) = {}
  BY <1>1 DEF QuantityOf
<1>2. CASE m # NoCart /\ LinesOf(m.items, p) # {}
  <2>1. PICK k \in LinesOf(m.items, p) : TRUE
    BY <1>2
  <2>2. m \in CartMessage /\ UniqueLines(m.items)
    BY <1>2 DEF Unique
  <2>3. QuantityOf(m, p) = m.items[k].quantity
    BY <2>1, <2>2, QuantityAtLine
  <2>4. k \in DOMAIN m.items /\ m.items \in Seq(Item)
    BY <2>1, <2>2, CartMessageFields DEF LinesOf
  <2>5. m.items[k] \in Item
    BY <2>4
  <2> QED
    BY <1>2, <2>3, <2>5 DEF Item
<1> QED
  BY <1>1, <1>2

\* What a cart with an added item is, and that it holds so many more of that
\* product, and as many of every other.
LEMMA CartWithItemHolds ==
  ASSUME NEW m \in CartMessage \cup {NoCart}, Unique(m),
         NEW u \in Users, NEW item \in Item
  PROVE  LET new == CartWithItem(m, u, item)
         IN /\ new \in CartMessage
            /\ Unique(new)
            /\ \A p : QuantityOf(new, p) =
                 QuantityOf(m, p) + IF p = item.product THEN item.quantity ELSE 0
<1> DEFINE new == CartWithItem(m, u, item)
<1>1. item.quantity \in Nat
  BY DEF Item
<1>2. CASE m = NoCart
  <2>1. new = [userId |-> u, items |-> <<item>>]
    BY <1>2 DEF CartWithItem
  <2>2. new \in CartMessage /\ UniqueLines(new.items)
    BY <2>1 DEF CartMessage, UniqueLines
  <2>3. ASSUME NEW p
        PROVE  QuantityOf(new, p) = IF p = item.product THEN item.quantity ELSE 0
    <3>1. CASE p = item.product
      <4>1. 1 \in LinesOf(new.items, p)
        BY <2>1, <3>1 DEF LinesOf
      <4>2. QuantityOf(new, p) = new.items[1].quantity
        BY <2>2, <4>1, QuantityAtLine
      <4> QED
        BY <2>1, <3>1, <4>2
    <3>2. CASE p # item.product
      <4>1. LinesOf(new.items, p) = {}
        BY <2>1, <3>2 DEF LinesOf
      <4> QED
        BY <3>2, <4>1 DEF QuantityOf
    <3> QED
      BY <3>1, <3>2
  <2>4. \A p : QuantityOf(m, p) = 0
    BY <1>2 DEF QuantityOf
  <2> QED
    BY <1>1, <2>2, <2>3, <2>4 DEF Unique
<1>3. CASE m # NoCart
  <2>1. m \in CartMessage /\ UniqueLines(m.items)
    BY <1>3 DEF Unique
  <2>2. new = [userId |-> m.userId, items |-> ItemAdded(m.items, item)]
    BY <1>3 DEF CartWithItem
  <2>3. m.items \in Seq(Item) /\ m.userId \in Users \cup {NoUser}
    BY <2>1, CartMessageFields
  <2>4. new \in CartMessage /\ UniqueLines(new.items)
    BY <2>1, <2>2, <2>3, ItemAddedUnique DEF CartMessage
  <2>5. ASSUME NEW p
        PROVE  QuantityOf(new, p) =
                 QuantityOf(m, p) + IF p = item.product THEN item.quantity ELSE 0
    <3>1. CASE LinesOf(m.items, item.product) = {}
      <4>1. new.items = Append(m.items, item)
        BY <2>2, <3>1 DEF ItemAdded
      <4>2. CASE p = item.product
        <5>1. Len(m.items) + 1 \in LinesOf(new.items, p)
          BY <2>3, <4>1, <4>2 DEF LinesOf
        <5>2. new.items[Len(m.items) + 1] = item
          BY <2>3, <4>1
        <5>3. QuantityOf(new, p) = item.quantity
          BY <2>4, <5>1, <5>2, QuantityAtLine
        <5>4. QuantityOf(m, p) = 0
          BY <3>1, <4>2 DEF QuantityOf
        <5> QED
          BY <1>1, <4>2, <5>3, <5>4
      <4>3. CASE p # item.product
        <5>1. LinesOf(new.items, p) = LinesOf(m.items, p)
          BY <2>3, <4>1, <4>3 DEF LinesOf
        <5>2. QuantityOf(new, p) = QuantityOf(m, p)
          <6>1. CASE LinesOf(m.items, p) = {}
            BY <5>1, <6>1 DEF QuantityOf
          <6>2. CASE LinesOf(m.items, p) # {}
            <7>1. PICK k \in LinesOf(m.items, p) : TRUE
              BY <6>2
            <7>2. new.items[k] = m.items[k]
              BY <2>3, <4>1, <7>1 DEF LinesOf
            <7> QED
              BY <2>1, <2>4, <5>1, <7>1, <7>2, QuantityAtLine
          <6> QED
            BY <6>1, <6>2
        <5>3. QuantityOf(m, p) \in Nat
          BY <2>1, QuantityType DEF Unique
        <5> QED
          BY <4>3, <5>2, <5>3
      <4> QED
        BY <4>2, <4>3
    <3>2. CASE LinesOf(m.items, item.product) # {}
      <4>1. /\ DOMAIN new.items = DOMAIN m.items
            /\ \A k \in DOMAIN m.items :
                 new.items[k] = IF m.items[k].product = item.product
                                THEN [m.items[k] EXCEPT !.quantity = @ + item.quantity]
                                ELSE m.items[k]
        BY <2>2, <3>2 DEF ItemAdded
      <4>2. \A k \in DOMAIN m.items : m.items[k] \in Item
        BY <2>3
      <4>3. \A k \in DOMAIN m.items : new.items[k].product = m.items[k].product
        BY <4>1, <4>2 DEF Item
      <4>4. LinesOf(new.items, p) = LinesOf(m.items, p)
        BY <4>1, <4>3 DEF LinesOf
      <4>5. CASE LinesOf(m.items, p) = {}
        <5>1. p # item.product
          BY <3>2, <4>5
        <5> QED
          BY <4>4, <4>5, <5>1 DEF QuantityOf
      <4>6. CASE LinesOf(m.items, p) # {}
        <5>1. PICK k \in LinesOf(m.items, p) : TRUE
          BY <4>6
        <5>2. k \in DOMAIN m.items /\ m.items[k].product = p /\ m.items[k] \in Item
          BY <4>2, <5>1 DEF LinesOf
        <5>3. new.items[k].quantity =
                m.items[k].quantity + IF p = item.product THEN item.quantity ELSE 0
          <6>1. CASE p = item.product
            BY <4>1, <5>2, <6>1 DEF Item
          <6>2. CASE p # item.product
            <7>1. new.items[k] = m.items[k]
              BY <4>1, <5>2, <6>2
            <7>2. m.items[k].quantity \in Nat
              BY <5>2 DEF Item
            <7> HIDE DEF new
            <7> QED
              BY <6>2, <7>1, <7>2
          <6> QED
            BY <6>1, <6>2
        <5>4. QuantityOf(new, p) = new.items[k].quantity
          BY <2>4, <4>4, <5>1, QuantityAtLine
        <5>5. QuantityOf(m, p) = m.items[k].quantity
          BY <2>1, <5>1, QuantityAtLine
        <5> QED
          BY <5>3, <5>4, <5>5
      <4> QED
        BY <4>5, <4>6
    <3> QED
      BY <3>1, <3>2
  <2> QED
    BY <2>4, <2>5 DEF Unique
<1> QED
  BY <1>2, <1>3

\* An emptied cart holds nothing.
LEMMA EmptyMessageHolds ==
  /\ EmptyMessage \in CartMessage
  /\ Unique(EmptyMessage)
  /\ \A p : QuantityOf(EmptyMessage, p) = 0
<1>1. EmptyMessage \in CartMessage
  BY DEF EmptyMessage, CartMessage
<1>2. DOMAIN EmptyMessage.items = {}
  BY DEF EmptyMessage
<1>3. Unique(EmptyMessage) /\ \A p : LinesOf(EmptyMessage.items, p) = {}
  BY <1>2 DEF Unique, UniqueLines, LinesOf
<1> QED
  BY <1>1, <1>3 DEF QuantityOf

-----------------------------------------------------------------------------
(* The inductive invariant of the store. *)

\* The units AddItem calls asked for of a product, one by one, and those whose
\* call has read the cart by now, or failed.
Asking(u, p) ==
  {a \in Handlers \X Nat : /\ call[a[1]].op = "AddItem"
                           /\ call[a[1]].user = u
                           /\ call[a[1]].item.product = p
                           /\ a[2] \in 1 .. call[a[1]].item.quantity}
Begun(u, p) == {a \in Asking(u, p) : pc[a[1]] # "read"}

IdleHasNoCall == \A h \in Handlers : pc[h] = "idle" => call[h].op = "none"

AllUnique ==
  /\ \A u \in Users : Unique(store[u])
  /\ \A h \in Handlers : Unique(value[h])

AskedCounted ==
  \A u \in Users, p \in Products :
    IsFiniteSet(Asking(u, p)) /\ asked[u][p] = Cardinality(Asking(u, p))

\* Each unit a cart holds, or that a call is about to write, was asked for by a
\* call that has read the cart: so a call that still has to read it may add to
\* whatever it finds.
HeldWasBegun ==
  /\ \A u \in Users, p \in Products : QuantityOf(store[u], p) <= Cardinality(Begun(u, p))
  /\ \A h \in Handlers : pc[h] = "write" /\ call[h].op = "AddItem" =>
       \A p \in Products :
         QuantityOf(Written(h), p) <= Cardinality(Begun(call[h].user, p))

StoreInv ==
  /\ TypeOK
  /\ IdleHasNoCall
  /\ AllUnique
  /\ AskedCounted
  /\ HeldWasBegun
  /\ CartsExpire

-----------------------------------------------------------------------------
(* Counting units. *)

LEMMA BegunCounted ==
  ASSUME AskedCounted, NEW u \in Users, NEW p \in Products
  PROVE  /\ IsFiniteSet(Begun(u, p))
         /\ Cardinality(Begun(u, p)) \in Nat
         /\ Cardinality(Begun(u, p)) <= asked[u][p]
<1>1. IsFiniteSet(Asking(u, p)) /\ Begun(u, p) \in SUBSET Asking(u, p)
  BY DEF AskedCounted, Begun
<1>2. IsFiniteSet(Begun(u, p)) /\ Cardinality(Begun(u, p)) <= Cardinality(Asking(u, p))
  BY <1>1, FS_Subset
<1> QED
  BY <1>2, FS_CardinalityType DEF AskedCounted

\* The same after a step.
LEMMA BegunCountedNext ==
  ASSUME AskedCounted', NEW u \in Users, NEW p \in Products
  PROVE  IsFiniteSet(Begun(u, p)') /\ Cardinality(Begun(u, p)') \in Nat
<1>1. IsFiniteSet(Asking(u, p)') /\ Begun(u, p)' \in SUBSET (Asking(u, p)')
  BY DEF AskedCounted, Begun
<1>2. IsFiniteSet(Begun(u, p)')
  BY <1>1, FS_Subset
<1> QED
  BY <1>2, FS_CardinalityType

\* Units are added to a set that has none of them.
LEMMA UnitsAdded ==
  ASSUME NEW S, IsFiniteSet(S), NEW h, NEW q \in Nat, \A a \in S : a[1] # h
  PROVE  /\ IsFiniteSet(S \cup ({h} \X (1 .. q)))
         /\ Cardinality(S \cup ({h} \X (1 .. q))) = Cardinality(S) + q
<1> DEFINE T == {h} \X (1 .. q)
<1>1. IsFiniteSet({h}) /\ Cardinality({h}) = 1
  BY FS_Singleton
<1>2. IsFiniteSet(1 .. q) /\ Cardinality(1 .. q) = q
  <2>1. IsFiniteSet(1 .. q) /\ Cardinality(1 .. q) = IF 1 > q THEN 0 ELSE q - 1 + 1
    BY FS_Interval
  <2> QED
    BY <2>1
<1>3. IsFiniteSet(T) /\ Cardinality(T) = q
  <2>1. IsFiniteSet(T) /\ Cardinality(T) = Cardinality({h}) * Cardinality(1 .. q)
    BY <1>1, <1>2, FS_Product
  <2>2. Cardinality({h}) * Cardinality(1 .. q) = q
    BY <1>1, <1>2
  <2> QED
    BY <2>1, <2>2
<1>4. S \cap T = {}
  OBVIOUS
<1>5. /\ IsFiniteSet(S \cup T)
      /\ Cardinality(S \cup T) = Cardinality(S) + Cardinality(T) - Cardinality(S \cap T)
  BY <1>3, FS_Union
<1>6. Cardinality(S \cap T) = 0
  BY <1>4, FS_EmptySet
<1>7. Cardinality(S) \in Nat
  BY FS_CardinalityType
<1> HIDE DEF T
<1>8. Cardinality(S \cup T) = Cardinality(S) + q
  BY <1>3, <1>5, <1>6, <1>7
<1> QED
  BY <1>5, <1>8 DEF T

\* Calls end or go on, but none begins: what was begun stays so.
LEMMA BegunGrows ==
  ASSUME TypeOK, AskedCounted, call' = call, asked' = asked,
         \A h \in Handlers : pc'[h] = "read" => pc[h] = "read"
  PROVE  /\ AskedCounted'
         /\ \A u \in Users, p \in Products :
              Cardinality(Begun(u, p)) <= Cardinality(Begun(u, p)')
<1>1. \A u \in Users, p \in Products : Asking(u, p)' = Asking(u, p)
  BY DEF Asking
<1>2. AskedCounted'
  BY <1>1 DEF AskedCounted
<1>3. ASSUME NEW u \in Users, NEW p \in Products
      PROVE  Cardinality(Begun(u, p)) <= Cardinality(Begun(u, p)')
  <2>1. Begun(u, p) \in SUBSET (Begun(u, p)')
    BY <1>1 DEF Begun, Asking
  <2>2. IsFiniteSet(Begun(u, p)')
    <3>1. Begun(u, p)' \in SUBSET Asking(u, p)
      BY <1>1 DEF Begun
    <3> QED
      BY <3>1, FS_Subset DEF AskedCounted
  <2> QED
    BY <2>1, <2>2, FS_Subset
<1> QED
  BY <1>2, <1>3

\* What a handler writes is a cart, and all it holds was asked for.
LEMMA WrittenHolds ==
  ASSUME StoreInv, NEW h \in Handlers, pc[h] = "write"
  PROVE  /\ call[h].user \in Users
         /\ Written(h) \in CartMessage
         /\ Unique(Written(h))
         /\ \A p \in Products :
              QuantityOf(Written(h), p) <= Cardinality(Begun(call[h].user, p))
<1> USE DEF StoreInv
<1>1. call[h].user \in Users /\ (call[h].op = "AddItem" => call[h].item \in Item)
  BY DEF TypeOK
<1>2. CASE call[h].op = "AddItem"
  <2>1. value[h] \in CartMessage \cup {NoCart} /\ Unique(value[h])
    BY DEF TypeOK, AllUnique
  <2>2. Written(h) = CartWithItem(value[h], call[h].user, call[h].item)
    BY <1>2 DEF Written
  <2>3. Written(h) \in CartMessage /\ Unique(Written(h))
    BY <1>1, <1>2, <2>1, <2>2, CartWithItemHolds
  <2> QED
    BY <1>1, <1>2, <2>3 DEF HeldWasBegun
<1>3. CASE call[h].op # "AddItem"
  <2>1. Written(h) = EmptyMessage
    BY <1>3 DEF Written
  <2>2. \A p \in Products : 0 <= Cardinality(Begun(call[h].user, p))
    BY <1>1, BegunCounted
  <2> QED
    BY <1>1, <2>1, <2>2, EmptyMessageHolds
<1> QED
  BY <1>2, <1>3

-----------------------------------------------------------------------------
(* Every step keeps it. *)

LEMMA InitStoreInv == Init => StoreInv
<1> SUFFICES ASSUME Init PROVE StoreInv
  OBVIOUS
<1> USE DEF Init
<1>1. TypeOK /\ IdleHasNoCall /\ CartsExpire
  BY DEF TypeOK, IdleHasNoCall, CartsExpire, Call
<1>2. AllUnique
  BY DEF AllUnique, Unique
<1>3. \A u \in Users, p \in Products : Asking(u, p) = {} /\ Begun(u, p) = {}
  BY DEF Asking, Begun
<1>4. AskedCounted
  BY <1>3, FS_EmptySet DEF AskedCounted
<1>5. HeldWasBegun
  <2>1. \A u \in Users, p \in Products : QuantityOf(store[u], p) = 0
    BY DEF QuantityOf
  <2>2. \A u \in Users, p \in Products : Cardinality(Begun(u, p)) = 0
    BY <1>3, FS_EmptySet
  <2>3. \A h \in Handlers : pc[h] # "write"
    OBVIOUS
  <2> QED
    BY <2>1, <2>2, <2>3 DEF HeldWasBegun
<1> QED
  BY <1>1, <1>2, <1>4, <1>5 DEF StoreInv

\* A call arrives: what it asks for is counted, and not begun.
LEMMA ReceiveKeepsStoreInv ==
  ASSUME StoreInv, NEW h \in Handlers, Receive(h)
  PROVE  StoreInv'
<1> USE DEF StoreInv
<1>1. PICK u \in Users, op \in Ops, p \in Products, q \in Quantities :
        /\ u \in SerialUsers => InFlight(u) = {}
        /\ call' = [call EXCEPT ![h] =
             [op |-> op, user |-> u,
              item |-> IF op = "AddItem" THEN [product |-> p, quantity |-> q] ELSE NoItem]]
        /\ pc' = [pc EXCEPT ![h] = IF op = "EmptyCart" THEN "write" ELSE "read"]
        /\ asked' = IF op = "AddItem" THEN [asked EXCEPT ![u][p] = @ + q] ELSE asked
  BY DEF Receive
<1>2. pc[h] = "idle" /\ UNCHANGED <<store, expires, value, unrenewed>>
  BY DEF Receive
<1>3. q \in Nat \ {0} /\ [product |-> p, quantity |-> q] \in Item
  BY CartStoreAssumption DEF Item
<1>4. /\ call'[h].op = op /\ call'[h].user = u
      /\ op = "AddItem" => call'[h].item = [product |-> p, quantity |-> q]
      /\ \A g \in Handlers \ {h} : call'[g] = call[g] /\ pc'[g] = pc[g]
      /\ pc'[h] = IF op = "EmptyCart" THEN "write" ELSE "read"
  BY <1>1 DEF TypeOK
<1>5. TypeOK'
  <2>1. call' \in [Handlers -> Call]
    BY <1>1, <1>3 DEF TypeOK, Call
  <2>2. asked' \in [Users -> [Products -> Nat]]
    BY <1>1, <1>3 DEF TypeOK
  <2>3. pc' \in [Handlers -> {"idle", "read", "write", "expire", "done", "failed"}]
    BY <1>1 DEF TypeOK
  <2>4. \A g \in Handlers : pc'[g] # "idle" =>
          /\ call'[g].op \in Ops
          /\ call'[g].user \in Users
          /\ call'[g].op = "AddItem" => call'[g].item \in Item
    BY <1>3, <1>4 DEF TypeOK
  <2> QED
    BY <1>2, <2>1, <2>2, <2>3, <2>4 DEF TypeOK
<1>6. IdleHasNoCall'
  BY <1>4 DEF IdleHasNoCall
<1>7. AllUnique'
  BY <1>2 DEF AllUnique
<1>8. call[h].op = "none"
  BY <1>2 DEF IdleHasNoCall
<1>9. ASSUME NEW v \in Users, NEW r \in Products
      PROVE  /\ IsFiniteSet(Asking(v, r)') /\ asked'[v][r] = Cardinality(Asking(v, r)')
             /\ Begun(v, r)' = Begun(v, r)
  <2>1. \A a \in Asking(v, r) : a[1] # h
    BY <1>8 DEF Asking
  <2>2. CASE op = "AddItem" /\ v = u /\ r = p
    <3>1. Asking(v, r)' = Asking(v, r) \cup ({h} \X (1 .. q))
      BY <1>3, <1>4, <2>1, <2>2 DEF Asking
    <3>2. /\ IsFiniteSet(Asking(v, r)')
          /\ Cardinality(Asking(v, r)') = Cardinality(Asking(v, r)) + q
      <4>1. IsFiniteSet(Asking(v, r)) /\ q \in Nat
        BY <1>3 DEF AskedCounted
      <4>2. /\ IsFiniteSet(Asking(v, r) \cup ({h} \X (1 .. q)))
            /\ Cardinality(Asking(v, r) \cup ({h} \X (1 .. q))) = Cardinality(Asking(v, r)) + q
        BY <2>1, <4>1, UnitsAdded
      <4> QED
        BY <3>1, <4>2
    <3>3. asked'[v][r] = asked[v][r] + q
      BY <1>1, <2>2 DEF TypeOK
    <3>4. Begun(v, r)' = Begun(v, r)
      BY <1>4, <2>1, <2>2, <3>1 DEF Begun, Asking
    <3> QED
      BY <3>2, <3>3, <3>4 DEF AskedCounted
  <2>3. CASE ~(op = "AddItem" /\ v = u /\ r = p)
    <3>1. Asking(v, r)' = Asking(v, r)
      BY <1>4, <2>1, <2>3 DEF Asking
    <3>2. asked'[v][r] = asked[v][r]
      BY <1>1, <2>3 DEF TypeOK
    <3>3. Begun(v, r)' = Begun(v, r)
      BY <1>4, <2>1, <3>1 DEF Begun, Asking
    <3> QED
      BY <3>1, <3>2, <3>3 DEF AskedCounted
  <2> QED
    BY <2>2, <2>3
<1>10. AskedCounted'
  BY <1>9 DEF AskedCounted
<1>11. HeldWasBegun'
  <2>1. \A v \in Users, r \in Products :
          QuantityOf(store'[v], r) <= Cardinality(Begun(v, r)')
    BY <1>2, <1>9 DEF HeldWasBegun
  <2>2. ASSUME NEW g \in Handlers, pc'[g] = "write", call'[g].op = "AddItem",
               NEW r \in Products
        PROVE  QuantityOf(Written(g)', r) <= Cardinality(Begun(call[g].user, r)')
    <3>1. g # h
      BY <1>4, <2>2
    <3>2. call'[g] = call[g] /\ pc'[g] = pc[g] /\ value'[g] = value[g]
      BY <1>2, <1>4, <3>1
    <3>3. Written(g)' = Written(g) /\ call[g].user \in Users
      BY <2>2, <3>2 DEF Written, TypeOK
    <3>4. QuantityOf(Written(g), r) <= Cardinality(Begun(call[g].user, r))
      BY <2>2, <3>2 DEF HeldWasBegun
    <3> QED
      BY <1>9, <3>2, <3>3, <3>4
  <2> QED
    BY <2>1, <2>2 DEF HeldWasBegun
<1>12. CartsExpire'
  BY <1>2, <1>4 DEF CartsExpire
<1> QED
  BY <1>5, <1>6, <1>7, <1>10, <1>11, <1>12

\* The cart is read: a call that adds to its copy has begun now.
LEMMA HashGetKeepsStoreInv ==
  ASSUME StoreInv, NEW h \in Handlers, HashGet(h)
  PROVE  StoreInv'
<1> USE DEF StoreInv
<1> DEFINE next == IF call[h].op = "GetCart" THEN "done" ELSE "write"
<1>1. /\ pc[h] = "read"
      /\ value' = [value EXCEPT ![h] = store[call[h].user]]
      /\ pc' = [pc EXCEPT ![h] = next]
      /\ UNCHANGED <<store, expires, call, asked, unrenewed>>
  BY DEF HashGet
<1>0. PICK u \in Users : u = call[h].user
  BY <1>1 DEF TypeOK
<1>2. u = call[h].user /\ u = call'[h].user /\ (call[h].op = "AddItem" => call[h].item \in Item)
  BY <1>1, <1>0 DEF TypeOK
<1>3. /\ pc'[h] = next /\ value'[h] = store[u]
      /\ \A g \in Handlers \ {h} : pc'[g] = pc[g] /\ value'[g] = value[g]
  BY <1>1, <1>2 DEF TypeOK
<1>4. TypeOK'
  BY <1>1, <1>2, <1>3 DEF TypeOK
<1>5. IdleHasNoCall'
  BY <1>1, <1>3 DEF IdleHasNoCall
<1>6. AllUnique'
  BY <1>1, <1>2, <1>3 DEF AllUnique
<1>7. /\ AskedCounted'
      /\ \A v \in Users, r \in Products :
           Cardinality(Begun(v, r)) <= Cardinality(Begun(v, r)')
  <2>1. \A g \in Handlers : pc'[g] = "read" => pc[g] = "read"
    BY <1>3
  <2> QED
    BY <1>1, <2>1, BegunGrows
<1>8. \A v \in Users, r \in Products : Cardinality(Begun(v, r)) \in Nat /\ Cardinality(Begun(v, r)') \in Nat
  BY <1>7, BegunCounted, BegunCountedNext
<1>9. HeldWasBegun'
  <2>1. \A v \in Users, r \in Products :
          QuantityOf(store'[v], r) <= Cardinality(Begun(v, r)')
    <3>1. \A v \in Users, r \in Products : QuantityOf(store[v], r) \in Nat
      BY QuantityType DEF TypeOK, AllUnique
    <3> QED
      BY <1>1, <1>7, <1>8, <3>1 DEF HeldWasBegun
  <2>2. ASSUME NEW g \in Handlers, pc'[g] = "write", call'[g].op = "AddItem",
               NEW r \in Products
        PROVE  QuantityOf(Written(g), r)' <= Cardinality(Begun(call[g].user, r))'
    <3>1. CASE g = h
      <4>1. Written(h)' = CartWithItem(store[u], u, call[h].item)
        BY <1>1, <1>2, <1>3, <2>2, <3>1 DEF Written
      <4>2. store[u] \in CartMessage \cup {NoCart} /\ Unique(store[u]) /\ call[h].item \in Item
        BY <1>1, <1>2, <2>2, <3>1 DEF TypeOK, AllUnique
      <4>3. QuantityOf(Written(h)', r) =
              QuantityOf(store[u], r) + IF r = call[h].item.product THEN call[h].item.quantity ELSE 0
        BY <1>2, <4>1, <4>2, CartWithItemHolds
      <4>4. QuantityOf(store[u], r) \in Nat
        BY <4>2, QuantityType
      <4>5. QuantityOf(store[u], r) <= Cardinality(Begun(u, r))
        BY <1>2 DEF HeldWasBegun
      <4>6. CASE r = call[h].item.product
        <5>1. Begun(u, r)' = Begun(u, r) \cup ({h} \X (1 .. call[h].item.quantity))
          <6>1. next = "write"
            BY <1>3, <2>2, <3>1
          <6> QED
            BY <1>1, <1>2, <1>3, <2>2, <3>1, <4>6, <6>1, <4>2 DEF Begun, Asking, Item
        <5>2. \A a \in Begun(u, r) : a[1] # h
          BY <1>1 DEF Begun
        <5>3. IsFiniteSet(Begun(u, r)) /\ call[h].item.quantity \in Nat
          BY <1>2, <4>2, BegunCounted DEF Item
        <5>4. Cardinality(Begun(u, r) \cup ({h} \X (1 .. call[h].item.quantity)))
                = Cardinality(Begun(u, r)) + call[h].item.quantity
          BY <5>2, <5>3, UnitsAdded
        <5>5. Cardinality(Begun(u, r)') = Cardinality(Begun(u, r)) + call[h].item.quantity
          BY <5>1, <5>4
        <5>6. QuantityOf(Written(h)', r) <= Cardinality(Begun(u, r)')
          BY <1>2, <1>8, <4>3, <4>4, <4>5, <4>6, <5>3, <5>5
        <5> QED
          BY <1>2, <3>1, <5>6
      <4>7. CASE r # call[h].item.product
        <5>1. QuantityOf(Written(h)', r) <= Cardinality(Begun(u, r)')
          BY <1>2, <1>7, <1>8, <4>3, <4>4, <4>5, <4>7
        <5> QED
          BY <1>2, <3>1, <5>1
      <4> QED
        BY <4>6, <4>7
    <3>2. CASE g # h
      <4>1. pc[g] = "write" /\ call[g].op = "AddItem" /\ Written(g)' = Written(g)
        BY <1>1, <1>3, <2>2, <3>2 DEF Written
      <4>2. call[g].user \in Users /\ Written(g) \in CartMessage /\ Unique(Written(g))
        BY <4>1, WrittenHolds
      <4>3. QuantityOf(Written(g), r) \in Nat
        BY <4>2, QuantityType
      <4>4. QuantityOf(Written(g), r) <= Cardinality(Begun(call[g].user, r))
        BY <4>1 DEF HeldWasBegun
      <4> QED
        BY <1>1, <1>7, <1>8, <4>1, <4>2, <4>3, <4>4
    <3> QED
      BY <3>1, <3>2
  <2> QED
    BY <2>1, <2>2 DEF HeldWasBegun
<1>10. CartsExpire'
  BY <1>1, <1>3 DEF CartsExpire
<1> QED
  BY <1>4, <1>5, <1>6, <1>7, <1>9, <1>10

\* The other steps begin no call: a stored cart stays, goes, or becomes what
\* some handler writes.
LEMMA StoreMoves ==
  ASSUME StoreInv, UNCHANGED <<call, value, asked>>,
         \A h \in Handlers : (pc'[h] \in {"read", "write"}) => pc'[h] = pc[h],
         store' \in [Users -> CartMessage \cup {NoCart}],
         \A u \in Users : \/ store'[u] = store[u] \/ store'[u] = NoCart
                          \/ \E h \in Handlers : /\ pc[h] = "write" /\ call[h].user = u
                                                 /\ store'[u] = Written(h)
  PROVE  AllUnique' /\ AskedCounted' /\ HeldWasBegun'
<1> USE DEF StoreInv
<1>1. /\ AskedCounted'
      /\ \A v \in Users, r \in Products :
           Cardinality(Begun(v, r)) <= Cardinality(Begun(v, r)')
  BY BegunGrows
<1>2. \A v \in Users, r \in Products :
        Cardinality(Begun(v, r)) \in Nat /\ Cardinality(Begun(v, r)') \in Nat
  BY <1>1, BegunCounted, BegunCountedNext
<1>3. ASSUME NEW u \in Users
      PROVE  /\ Unique(store'[u])
             /\ \A r \in Products : QuantityOf(store'[u], r) <= Cardinality(Begun(u, r)')
  <2>1. /\ Unique(store'[u])
        /\ \A r \in Products : QuantityOf(store'[u], r) <= Cardinality(Begun(u, r))
    <3>1. CASE store'[u] = store[u]
      BY <3>1 DEF AllUnique, HeldWasBegun
    <3>2. CASE store'[u] = NoCart
      BY <1>2, <3>2 DEF Unique, QuantityOf
    <3>3. CASE \E h \in Handlers : /\ pc[h] = "write" /\ call[h].user = u
                                   /\ store'[u] = Written(h)
      BY <3>3, WrittenHolds
    <3> QED
      BY <3>1, <3>2, <3>3
  <2>2. \A r \in Products : QuantityOf(store'[u], r) \in Nat
    BY <2>1, QuantityType
  <2> QED
    BY <1>1, <1>2, <2>1, <2>2
<1>4. AllUnique'
  BY <1>3 DEF AllUnique
<1>5. ASSUME NEW g \in Handlers, pc'[g] = "write", call'[g].op = "AddItem",
             NEW r \in Products
      PROVE  QuantityOf(Written(g), r)' <= Cardinality(Begun(call[g].user, r))'
  <2>1. pc[g] = "write" /\ call'[g] = call[g] /\ Written(g)' = Written(g)
    BY <1>5 DEF Written
  <2>2. /\ call[g].user \in Users /\ Written(g) \in CartMessage /\ Unique(Written(g))
        /\ QuantityOf(Written(g), r) <= Cardinality(Begun(call[g].user, r))
    BY <2>1, WrittenHolds
  <2>3. QuantityOf(Written(g), r) \in Nat
    BY <2>2, QuantityType
  <2>0. PICK u \in Users : u = call[g].user /\ u = call'[g].user
    BY <2>1, <2>2
  <2>4. QuantityOf(Written(g), r) <= Cardinality(Begun(u, r)')
    BY <1>1, <1>2, <2>2, <2>3, <2>0
  <2> QED
    BY <2>1, <2>4, <2>0
<1>6. HeldWasBegun'
  BY <1>3, <1>5 DEF HeldWasBegun
<1> QED
  BY <1>1, <1>4, <1>6

LEMMA HashSetKeepsStoreInv ==
  ASSUME StoreInv, NEW h \in Handlers, HashSet(h)
  PROVE  StoreInv'
<1> USE DEF StoreInv
<1>1. /\ pc[h] = "write"
      /\ store' = [store EXCEPT ![call[h].user] = Written(h)]
      /\ pc' = [pc EXCEPT ![h] = "expire"]
      /\ UNCHANGED <<expires, call, value, asked, unrenewed>>
  BY DEF HashSet, AfterWrite
<1>2. call[h].user \in Users /\ Written(h) \in CartMessage
  BY <1>1, WrittenHolds
<1>3. TypeOK'
  BY <1>1, <1>2 DEF TypeOK
<1>4. IdleHasNoCall'
  BY <1>1 DEF IdleHasNoCall, TypeOK
<1>5. AllUnique' /\ AskedCounted' /\ HeldWasBegun'
  <2>1. \A g \in Handlers : (pc'[g] \in {"read", "write"}) => pc'[g] = pc[g]
    BY <1>1 DEF TypeOK
  <2>2. \A u \in Users : store'[u] = store[u] \/ (u = call[h].user /\ store'[u] = Written(h))
    BY <1>1 DEF TypeOK
  <2>3. store' \in [Users -> CartMessage \cup {NoCart}]
    BY <1>3 DEF TypeOK
  <2> QED
    BY <1>1, <2>1, <2>2, <2>3, StoreMoves
<1>6. CartsExpire'
  BY <1>1 DEF CartsExpire, TypeOK
<1> QED
  BY <1>3, <1>4, <1>5, <1>6

LEMMA KeyExpireKeepsStoreInv ==
  ASSUME StoreInv, NEW h \in Handlers, KeyExpire(h)
  PROVE  StoreInv'
<1> USE DEF StoreInv
<1>1. /\ pc[h] = "expire"
      /\ expires' = [expires EXCEPT ![call[h].user] = store[call[h].user] # NoCart]
      /\ unrenewed' = unrenewed \ {call[h].user}
      /\ pc' = [pc EXCEPT ![h] = "done"]
      /\ UNCHANGED <<store, call, value, asked>>
  BY DEF KeyExpire
<1>2. call[h].user \in Users
  BY <1>1 DEF TypeOK
<1>3. TypeOK'
  BY <1>1, <1>2 DEF TypeOK
<1>4. IdleHasNoCall'
  BY <1>1 DEF IdleHasNoCall, TypeOK
<1>5. AllUnique' /\ AskedCounted' /\ HeldWasBegun'
  <2>1. \A g \in Handlers : (pc'[g] \in {"read", "write"}) => pc'[g] = pc[g]
    BY <1>1 DEF TypeOK
  <2>2. store' \in [Users -> CartMessage \cup {NoCart}]
    BY <1>3 DEF TypeOK
  <2> QED
    BY <1>1, <2>1, <2>2, StoreMoves
<1>6. CartsExpire'
  <2>1. ASSUME NEW u \in Users, store'[u] # NoCart, ~expires'[u]
        PROVE  u \in unrenewed' \/ \E g \in Handlers : call'[g].user = u /\ pc'[g] = "expire"
    <3>1. u # call[h].user
      BY <1>1, <1>2, <2>1 DEF TypeOK
    <3>2. expires'[u] = expires[u] /\ store'[u] = store[u]
      BY <1>1, <3>1 DEF TypeOK
    <3>3. CASE u \in unrenewed
      BY <1>1, <3>1, <3>3
    <3>4. CASE \E g \in Handlers : call[g].user = u /\ pc[g] = "expire"
      <4>1. PICK g \in Handlers : call[g].user = u /\ pc[g] = "expire"
        BY <3>4
      <4>2. g # h /\ pc'[g] = pc[g]
        BY <1>1, <3>1, <4>1 DEF TypeOK
      <4> QED
        BY <1>1, <4>1, <4>2
    <3> QED
      BY <2>1, <3>2, <3>3, <3>4 DEF CartsExpire
  <2> QED
    BY <2>1 DEF CartsExpire
<1> QED
  BY <1>3, <1>4, <1>5, <1>6

\* A call fails, its write done or not: an unrenewed key is remembered.
LEMMA FailKeepsStoreInv ==
  ASSUME StoreInv, NEW h \in Handlers, Fail(h)
  PROVE  StoreInv'
<1> USE DEF StoreInv
<1>1. /\ pc[h] \in {"read", "write", "expire"}
      /\ pc' = [pc EXCEPT ![h] = "failed"]
      /\ UNCHANGED <<call, value, asked>>
  BY DEF Fail
<1>2. call[h].user \in Users /\ (pc[h] = "write" => Written(h) \in CartMessage)
  BY <1>1, WrittenHolds DEF TypeOK
<1>3. \/ /\ pc[h] = "write"
         /\ store' = [store EXCEPT ![call[h].user] = Written(h)]
         /\ unrenewed' = unrenewed \cup {call[h].user}
         /\ UNCHANGED expires
      \/ /\ pc[h] = "expire"
         /\ unrenewed' = unrenewed \cup {call[h].user}
         /\ \/ UNCHANGED expires
            \/ expires' = [expires EXCEPT ![call[h].user] = store[call[h].user] # NoCart]
         /\ UNCHANGED store
      \/ pc[h] \in {"read", "write"} /\ UNCHANGED <<store, expires, unrenewed>>
  BY DEF Fail
<1>4. TypeOK'
  <2>1. store' \in [Users -> CartMessage \cup {NoCart}] /\ unrenewed' \subseteq Users
    BY <1>2, <1>3 DEF TypeOK
  <2>2. expires' \in [Users -> BOOLEAN]
    BY <1>2, <1>3 DEF TypeOK
  <2>3. pc' \in [Handlers -> {"idle", "read", "write", "expire", "done", "failed"}]
    BY <1>1 DEF TypeOK
  <2>4. \A g \in Handlers : pc'[g] # "idle" => pc[g] # "idle"
    BY <1>1 DEF TypeOK
  <2> QED
    BY <1>1, <2>1, <2>2, <2>3, <2>4 DEF TypeOK
<1>5. IdleHasNoCall'
  BY <1>1 DEF IdleHasNoCall, TypeOK
<1>6. AllUnique' /\ AskedCounted' /\ HeldWasBegun'
  <2>1. \A g \in Handlers : (pc'[g] \in {"read", "write"}) => pc'[g] = pc[g]
    BY <1>1 DEF TypeOK
  <2>2. store' \in [Users -> CartMessage \cup {NoCart}]
    BY <1>4 DEF TypeOK
  <2>3. \A u \in Users : \/ store'[u] = store[u]
                         \/ pc[h] = "write" /\ u = call[h].user /\ store'[u] = Written(h)
    BY <1>3 DEF TypeOK
  <2> QED
    BY <1>1, <2>1, <2>2, <2>3, StoreMoves
<1>7. CartsExpire'
  <2>1. ASSUME NEW u \in Users, store'[u] # NoCart, ~expires'[u]
        PROVE  u \in unrenewed' \/ \E g \in Handlers : call'[g].user = u /\ pc'[g] = "expire"
    <3>1. CASE call[h].user \in unrenewed' /\ u = call[h].user
      BY <3>1
    <3>2. CASE u # call[h].user
      <4>1. expires'[u] = expires[u] /\ store'[u] = store[u] /\ (u \in unrenewed => u \in unrenewed')
        BY <1>3, <3>2 DEF TypeOK
      <4>2. \A g \in Handlers : call[g].user = u /\ pc[g] = "expire" => pc'[g] = "expire"
        BY <1>1, <3>2 DEF TypeOK
      <4> QED
        BY <1>1, <2>1, <4>1, <4>2 DEF CartsExpire
    <3>3. CASE pc[h] # "expire" /\ UNCHANGED <<store, expires, unrenewed>>
      <4>1. \A g \in Handlers : pc[g] = "expire" => pc'[g] = "expire"
        BY <1>1, <3>3 DEF TypeOK
      <4> QED
        BY <1>1, <2>1, <3>3, <4>1 DEF CartsExpire
    <3> QED
      BY <1>1, <1>3, <3>1, <3>2, <3>3
  <2> QED
    BY <2>1 DEF CartsExpire
<1> QED
  BY <1>4, <1>5, <1>6, <1>7

\* Valkey removes a key.
LEMMA ExpireKeepsStoreInv ==
  ASSUME StoreInv, NEW u \in Users, Expire(u)
  PROVE  StoreInv'
<1> USE DEF StoreInv
<1>1. /\ store' = [store EXCEPT ![u] = NoCart]
      /\ expires' = [expires EXCEPT ![u] = FALSE]
      /\ UNCHANGED <<pc, call, value, asked, unrenewed>>
  BY DEF Expire
<1>2. TypeOK' /\ IdleHasNoCall'
  BY <1>1 DEF TypeOK, IdleHasNoCall
<1>3. AllUnique' /\ AskedCounted' /\ HeldWasBegun'
  <2>1. \A v \in Users : store'[v] = store[v] \/ store'[v] = NoCart
    BY <1>1 DEF TypeOK
  <2>2. store' \in [Users -> CartMessage \cup {NoCart}]
    BY <1>2 DEF TypeOK
  <2> QED
    BY <1>1, <2>1, <2>2, StoreMoves
<1>4. CartsExpire'
  BY <1>1 DEF CartsExpire, TypeOK
<1> QED
  BY <1>2, <1>3, <1>4

\* Nothing happens, and the invariant stays.
LEMMA StutterKeepsStoreInv ==
  ASSUME StoreInv, UNCHANGED vars
  PROVE  StoreInv'
<1> USE DEF StoreInv, vars
<1>1. TypeOK' /\ IdleHasNoCall' /\ CartsExpire'
  BY DEF TypeOK, IdleHasNoCall, CartsExpire
<1>2. AllUnique' /\ AskedCounted' /\ HeldWasBegun'
  <2>1. store' \in [Users -> CartMessage \cup {NoCart}]
    BY <1>1 DEF TypeOK
  <2> QED
    BY <2>1, StoreMoves
<1> QED
  BY <1>1, <1>2

LEMMA StepKeepsStoreInv == StoreInv /\ [Next]_vars => StoreInv'
BY ReceiveKeepsStoreInv, HashGetKeepsStoreInv, HashSetKeepsStoreInv, KeyExpireKeepsStoreInv,
   FailKeepsStoreInv, ExpireKeepsStoreInv, StutterKeepsStoreInv DEF Next

-----------------------------------------------------------------------------
(* What holds of the store always. *)

LEMMA AlwaysStoreInv == Spec => []StoreInv
BY InitStoreInv, StepKeepsStoreInv, PTL DEF Spec

\* Each variable has its type, and every handler past its call has one to serve.
THEOREM TypeCorrect == Spec => []TypeOK
<1>1. StoreInv => TypeOK
  BY DEF StoreInv
<1> QED
  BY <1>1, AlwaysStoreInv, PTL

\* SingleOrDefault (ValkeyCartStore.cs:150) never meets two lines of a product,
\* whatever calls interleave, fail or outlive the key.
THEOREM OneLineAlways == Spec => []OneLinePerProduct
<1>1. StoreInv => OneLinePerProduct
  BY UniqueMeansOne DEF StoreInv, AllUnique, Unique, OneLinePerProduct
<1> QED
  BY <1>1, AlwaysStoreInv, PTL

\* A cart never holds more of a product than its user asked AddItem for.
THEOREM NothingCountedTwice == Spec => []NothingAddedTwice
<1>1. ASSUME StoreInv, NEW u \in Users, NEW p \in Products
      PROVE  QuantityOf(store[u], p) <= asked[u][p]
  <2>1. QuantityOf(store[u], p) <= Cardinality(Begun(u, p))
    BY <1>1 DEF StoreInv, HeldWasBegun
  <2>2. Cardinality(Begun(u, p)) \in Nat /\ Cardinality(Begun(u, p)) <= asked[u][p]
    BY <1>1, BegunCounted DEF StoreInv
  <2>3. QuantityOf(store[u], p) \in Nat /\ asked[u][p] \in Nat
    BY <1>1, QuantityType DEF StoreInv, TypeOK, AllUnique
  <2> QED
    BY <2>1, <2>2, <2>3
<1>2. StoreInv => NothingAddedTwice
  BY <1>1 DEF NothingAddedTwice
<1> QED
  BY <1>2, AlwaysStoreInv, PTL

\* A key stays without expiry only where a call failed between its write and its
\* renewal.
THEOREM KeysExpire == Spec => []CartsExpire
<1>1. StoreInv => CartsExpire
  BY DEF StoreInv
<1> QED
  BY <1>1, AlwaysStoreInv, PTL

-----------------------------------------------------------------------------
(* A user whose client awaits each call. *)

\* One call at a time.
Alone == \A u \in SerialUsers : \A g, h \in InFlight(u) : g = h

\* GetCart writes nothing.
WritersWrite == \A h \in Handlers : pc[h] \in {"write", "expire"} => call[h].op # "GetCart"

\* The copy an AddItem is about to change is the stored cart, if that has not
\* expired.
CopyIsCurrent ==
  \A h \in Handlers :
    (/\ pc[h] = "write" /\ call[h].op = "AddItem"
     /\ call[h].user \in SerialUsers)
      => store[call[h].user] \in {value[h], NoCart}

SerialInv == StoreInv /\ Alone /\ WritersWrite /\ CopyIsCurrent

\* Nothing but the arrival of a call adds to those under way.
LEMMA StaysAlone ==
  ASSUME Alone, call' = call,
         \A h \in Handlers : pc'[h] \in {"read", "write", "expire"}
                               => pc[h] \in {"read", "write", "expire"}
  PROVE  Alone'
<1>1. \A u \in SerialUsers : InFlight(u)' \subseteq InFlight(u)
  BY DEF InFlight
<1> QED
  BY <1>1 DEF Alone

LEMMA InitSerialInv == Init => SerialInv
<1>1. Init => Alone
  BY DEF Init, Alone, InFlight
<1>2. Init => WritersWrite /\ CopyIsCurrent
  BY DEF Init, WritersWrite, CopyIsCurrent
<1> QED
  BY <1>1, <1>2, InitStoreInv DEF SerialInv

LEMMA ReceiveKeepsSerialInv ==
  ASSUME SerialInv, StoreInv', NEW h \in Handlers, Receive(h)
  PROVE  SerialInv'
<1>1. pc[h] = "idle" /\ UNCHANGED <<store, value>>
  BY DEF Receive
<1>2. PICK u \in Users, op \in Ops, p \in Products, q \in Quantities :
        /\ u \in SerialUsers => InFlight(u) = {}
        /\ call' = [call EXCEPT ![h] =
             [op |-> op, user |-> u,
              item |-> IF op = "AddItem" THEN [product |-> p, quantity |-> q] ELSE NoItem]]
        /\ pc' = [pc EXCEPT ![h] = IF op = "EmptyCart" THEN "write" ELSE "read"]
        /\ asked' = IF op = "AddItem" THEN [asked EXCEPT ![u][p] = @ + q] ELSE asked
  BY DEF Receive
<1>3. /\ call'[h].op = op /\ call'[h].user = u
      /\ pc'[h] = IF op = "EmptyCart" THEN "write" ELSE "read"
      /\ \A g \in Handlers \ {h} : call'[g] = call[g] /\ pc'[g] = pc[g]
  BY <1>2 DEF SerialInv, StoreInv, TypeOK
<1>4. Alone'
  <2>1. ASSUME NEW v \in SerialUsers, NEW g \in InFlight(v)', NEW k \in InFlight(v)'
        PROVE  g = k
    <3>1. CASE v = u
      BY <1>2, <1>3, <2>1, <3>1 DEF InFlight
    <3>2. CASE v # u
      <4>1. g \in InFlight(v) /\ k \in InFlight(v)
        BY <1>3, <2>1, <3>2 DEF InFlight
      <4> QED
        BY <4>1 DEF SerialInv, Alone
    <3> QED
      BY <3>1, <3>2
  <2> QED
    BY <2>1 DEF Alone
<1>5. WritersWrite'
  BY <1>3 DEF SerialInv, WritersWrite
<1>6. CopyIsCurrent'
  BY <1>1, <1>3 DEF SerialInv, CopyIsCurrent
<1> QED
  BY <1>4, <1>5, <1>6 DEF SerialInv

LEMMA HashGetKeepsSerialInv ==
  ASSUME SerialInv, StoreInv', NEW h \in Handlers, HashGet(h)
  PROVE  SerialInv'
<1>1. /\ pc[h] = "read" /\ UNCHANGED <<store, call>>
      /\ value'[h] = store[call[h].user]
      /\ pc'[h] = IF call[h].op = "GetCart" THEN "done" ELSE "write"
      /\ \A g \in Handlers \ {h} : pc'[g] = pc[g] /\ value'[g] = value[g]
  BY DEF HashGet, SerialInv, StoreInv, TypeOK
<1>2. Alone'
  BY <1>1, StaysAlone DEF SerialInv
<1>3. WritersWrite' /\ CopyIsCurrent'
  BY <1>1 DEF SerialInv, WritersWrite, CopyIsCurrent
<1> QED
  BY <1>2, <1>3 DEF SerialInv

\* A handler writes, with or without its caller hearing of it.
LEMMA WriteKeepsSerialInv ==
  ASSUME SerialInv, StoreInv', NEW h \in Handlers, NEW next \in {"expire", "failed"},
         pc[h] = "write", UNCHANGED <<call, value>>,
         pc' = [pc EXCEPT ![h] = next],
         store' = [store EXCEPT ![call[h].user] = Written(h)]
  PROVE  SerialInv'
<1>1. /\ pc'[h] = next
      /\ \A g \in Handlers \ {h} : pc'[g] = pc[g]
      /\ \A u \in Users : u # call[h].user => store'[u] = store[u]
      /\ \A g \in Handlers : pc[g] = "write" => call[g].user \in Users
  BY DEF SerialInv, StoreInv, TypeOK
<1>2. Alone' /\ WritersWrite'
  BY <1>1, StaysAlone DEF SerialInv, WritersWrite
<1>3. CopyIsCurrent'
  <2>1. ASSUME NEW g \in Handlers, pc'[g] = "write", call'[g].op = "AddItem",
               call'[g].user \in SerialUsers
        PROVE  store'[call'[g].user] \in {value'[g], NoCart}
    <3>1. g # h /\ pc[g] = "write"
      BY <1>1, <2>1
    <3>2. call[g].user # call[h].user
      BY <2>1, <3>1 DEF SerialInv, Alone, InFlight
    <3> QED
      BY <1>1, <2>1, <3>1, <3>2 DEF SerialInv, CopyIsCurrent
  <2> QED
    BY <2>1 DEF CopyIsCurrent
<1> QED
  BY <1>2, <1>3 DEF SerialInv

\* A handler goes on, or fails, and writes nothing.
LEMMA EndKeepsSerialInv ==
  ASSUME SerialInv, StoreInv', NEW h \in Handlers, NEW next \in {"done", "failed"},
         pc[h] \in {"read", "write", "expire"}, UNCHANGED <<store, call, value>>,
         pc' = [pc EXCEPT ![h] = next]
  PROVE  SerialInv'
<1>1. pc'[h] = next /\ \A g \in Handlers \ {h} : pc'[g] = pc[g]
  BY DEF SerialInv, StoreInv, TypeOK
<1>2. Alone'
  BY <1>1, StaysAlone DEF SerialInv
<1>3. WritersWrite' /\ CopyIsCurrent'
  BY <1>1 DEF SerialInv, WritersWrite, CopyIsCurrent
<1> QED
  BY <1>2, <1>3 DEF SerialInv

LEMMA ExpireKeepsSerialInv ==
  ASSUME SerialInv, StoreInv', NEW u \in Users, Expire(u)
  PROVE  SerialInv'
<1>1. /\ UNCHANGED <<pc, call, value>>
      /\ \A v \in Users : store'[v] \in {store[v], NoCart}
  BY DEF Expire, SerialInv, StoreInv, TypeOK
<1>2. Alone'
  BY <1>1, StaysAlone DEF SerialInv
<1>3. WritersWrite' /\ CopyIsCurrent'
  BY <1>1, CartStoreAssumption DEF SerialInv, WritersWrite, CopyIsCurrent
<1> QED
  BY <1>2, <1>3 DEF SerialInv

LEMMA StepKeepsSerialInv == SerialInv /\ [Next]_vars => SerialInv'
<1> SUFFICES ASSUME SerialInv, [Next]_vars PROVE SerialInv'
  OBVIOUS
<1>1. StoreInv'
  BY StepKeepsStoreInv DEF SerialInv
<1>2. CASE \E h \in Handlers : Receive(h) \/ HashGet(h)
  BY <1>1, <1>2, ReceiveKeepsSerialInv, HashGetKeepsSerialInv
<1>3. ASSUME NEW h \in Handlers, HashSet(h)
      PROVE  SerialInv'
  BY <1>1, <1>3, WriteKeepsSerialInv DEF HashSet, AfterWrite
<1>4. ASSUME NEW h \in Handlers, KeyExpire(h)
      PROVE  SerialInv'
  BY <1>1, <1>4, EndKeepsSerialInv DEF KeyExpire
<1>5. ASSUME NEW h \in Handlers, Fail(h)
      PROVE  SerialInv'
  <2>1. /\ pc[h] \in {"read", "write", "expire"} /\ UNCHANGED <<call, value>>
        /\ pc' = [pc EXCEPT ![h] = "failed"]
        /\ \/ pc[h] = "write" /\ store' = [store EXCEPT ![call[h].user] = Written(h)]
           \/ UNCHANGED store
    BY <1>5 DEF Fail
  <2> QED
    BY <1>1, <2>1, WriteKeepsSerialInv, EndKeepsSerialInv
<1>6. CASE \E u \in Users : Expire(u)
  BY <1>1, <1>6, ExpireKeepsSerialInv
<1>7. CASE UNCHANGED vars
  <2>1. Alone' /\ WritersWrite' /\ CopyIsCurrent'
    BY <1>7 DEF vars, SerialInv, Alone, InFlight, WritersWrite, CopyIsCurrent
  <2> QED
    BY <1>1, <2>1 DEF SerialInv
<1> QED
  BY <1>2, <1>3, <1>4, <1>5, <1>6, <1>7 DEF Next

-----------------------------------------------------------------------------
(* What the abstract cart sees of the store. *)

\* The call that h serves, as the abstract cart sees it.
CallOf(h) ==
  IF pc[h] = "expire" THEN [status |-> "applied"]
  ELSE IF call[h].op = "EmptyCart" THEN [status |-> "empty"]
  ELSE [status |-> "add", product |-> call[h].item.product, quantity |-> call[h].item.quantity]

\* The cart that h, under way, leaves in sight: an AddItem about to write has
\* the copy it read.
SeenBy(h, u) == IF call[h].op = "AddItem" /\ pc[h] = "write" THEN value[h] ELSE store[u]

QuietView(u) ==
  (\A h \in InFlight(u) : call[h].op = "GetCart") =>
    PendingOf(u) = [status |-> "none"] /\ EffectiveCart(u) = store[u]

BusyView(u) ==
  \A h \in InFlight(u) : call[h].op # "GetCart" =>
    PendingOf(u) = CallOf(h) /\ EffectiveCart(u) = SeenBy(h, u)

View(u) == QuietView(u) /\ BusyView(u)

\* The user's one call under way determines both.
LEMMA SerialView == SerialInv => \A u \in SerialUsers : View(u)
<1> SUFFICES ASSUME SerialInv, NEW u \in SerialUsers PROVE View(u)
  OBVIOUS
<1>1. \A h \in Handlers : Outlived(u, h) => h \in InFlight(u) /\ call[h].op = "AddItem"
  BY DEF Outlived, InFlight
<1>2. QuietView(u)
  <2>1. ASSUME \A h \in InFlight(u) : call[h].op = "GetCart"
        PROVE  PendingOf(u) = [status |-> "none"] /\ EffectiveCart(u) = store[u]
    <3>1. {h \in InFlight(u) : call[h].op # "GetCart"} = {}
      BY <2>1
    <3>2. \A h \in Handlers : ~Outlived(u, h)
      BY <1>1, <2>1
    <3> QED
      BY <3>1, <3>2 DEF PendingOf, EffectiveCart
  <2> QED
    BY <2>1 DEF QuietView
<1>3. ASSUME NEW h \in InFlight(u), call[h].op # "GetCart"
      PROVE  PendingOf(u) = CallOf(h) /\ EffectiveCart(u) = SeenBy(h, u)
  <2>1. {g \in InFlight(u) : call[g].op # "GetCart"} = {h}
    BY <1>3 DEF SerialInv, Alone
  <2>2. (CHOOSE g \in {h} : TRUE) = h
    OBVIOUS
  <2>3. PendingOf(u) = CallOf(h)
    BY <2>1, <2>2 DEF PendingOf, CallOf
  <2>4. h \in Handlers /\ call[h].user = u
    BY DEF InFlight
  <2>5. \A g \in Handlers : Outlived(u, g) => g = h
    BY <1>1, <2>1
  <2>6. CASE Outlived(u, h)
    <3>1. \A g \in Handlers : Outlived(u, g) <=> g = h
      BY <2>5, <2>6
    <3>2. (CHOOSE g \in Handlers : Outlived(u, g)) = h
      BY <2>4, <3>1
    <3>3. EffectiveCart(u) = value[h]
      BY <2>4, <2>6, <3>2 DEF EffectiveCart
    <3> QED
      BY <2>3, <2>6, <3>3 DEF Outlived, SeenBy
  <2>7. CASE ~Outlived(u, h)
    <3>1. EffectiveCart(u) = store[u]
      BY <2>5, <2>7 DEF EffectiveCart
    <3>2. SeenBy(h, u) = store[u]
      BY <2>4, <2>7 DEF SeenBy, Outlived, SerialInv, CopyIsCurrent
    <3> QED
      BY <2>3, <3>1, <3>2
  <2> QED
    BY <2>6, <2>7
<1>4. BusyView(u)
  BY <1>3 DEF BusyView
<1> QED
  BY <1>2, <1>4 DEF View

\* A user none of whose handlers moves, and whose cart stays, sees nothing.
LEMMA Untouched ==
  ASSUME NEW u \in SerialUsers, View(u), View(u)',
         store'[u] = store[u], InFlight(u)' = InFlight(u),
         \A h \in InFlight(u) : pc'[h] = pc[h] /\ call'[h] = call[h] /\ value'[h] = value[h]
  PROVE  PendingOf(u)' = PendingOf(u) /\ EffectiveCart(u)' = EffectiveCart(u)
<1>1. CASE \A h \in InFlight(u) : call[h].op = "GetCart"
  <2>1. \A h \in InFlight(u)' : call'[h].op = "GetCart"
    BY <1>1
  <2> QED
    BY <1>1, <2>1 DEF View, QuietView
<1>2. CASE \E h \in InFlight(u) : call[h].op # "GetCart"
  <2>1. PICK h \in InFlight(u) : call[h].op # "GetCart"
    BY <1>2
  <2>2. PendingOf(u) = CallOf(h) /\ EffectiveCart(u) = SeenBy(h, u)
    BY <2>1 DEF View, BusyView
  <2>3. h \in InFlight(u)' /\ call'[h].op # "GetCart"
    BY <2>1
  <2>4. PendingOf(u)' = CallOf(h)' /\ EffectiveCart(u)' = SeenBy(h, u)'
    BY <2>3 DEF View, BusyView
  <2>5. CallOf(h)' = CallOf(h) /\ SeenBy(h, u)' = SeenBy(h, u)
    BY <2>1 DEF CallOf, SeenBy
  <2> QED
    BY <2>2, <2>4, <2>5
<1> QED
  BY <1>1, <1>2

LEMMA ViewNext == SerialInv /\ [Next]_vars => \A u \in SerialUsers : View(u) /\ View(u)'
<1>1. SerialInv' => (\A u \in SerialUsers : View(u))'
  BY SerialView, PTL
<1> QED
  BY <1>1, SerialView, StepKeepsSerialInv

-----------------------------------------------------------------------------
(* The steps of the abstract cart. *)

CartSeen(u) == [p \in Products |-> QuantityOf(EffectiveCart(u), p)]

\* No user but u sees anything of a step.
OnlySeenBy(u) ==
  \A v \in SerialUsers \ {u} :
    PendingOf(v)' = PendingOf(v) /\ EffectiveCart(v)' = EffectiveCart(v)

\* What u sees of it too: nothing, or a step of the abstract cart.
StepSeen(u) ==
  \/ PendingOf(u)' = PendingOf(u) /\ CartSeen(u)' = CartSeen(u)
  \/ /\ PendingOf(u) = [status |-> "none"]
     /\ \/ PendingOf(u)' = [status |-> "empty"]
        \/ \E p \in Products, q \in Quantities :
             PendingOf(u)' = [status |-> "add", product |-> p, quantity |-> q]
     /\ CartSeen(u)' = CartSeen(u)
  \/ /\ PendingOf(u).status = "add"
     /\ PendingOf(u)' \in {[status |-> "applied"], [status |-> "none"]}
     /\ CartSeen(u)' = [CartSeen(u) EXCEPT ![PendingOf(u).product] = @ + PendingOf(u).quantity]
  \/ /\ PendingOf(u).status = "empty"
     /\ PendingOf(u)' \in {[status |-> "applied"], [status |-> "none"]}
     /\ CartSeen(u)' = [p \in Products |-> 0]
  \/ /\ PendingOf(u).status = "applied"
     /\ PendingOf(u)' = [status |-> "none"]
     /\ CartSeen(u)' = CartSeen(u)
  \/ /\ PendingOf(u).status \in {"add", "empty"}
     /\ PendingOf(u)' = [status |-> "none"]
     /\ CartSeen(u)' \in {CartSeen(u), [p \in Products |-> 0]}
  \/ PendingOf(u)' = PendingOf(u) /\ CartSeen(u)' = [p \in Products |-> 0]

\* Such a step is one of the abstract cart, or none.
LEMMA SeenIsAbstract ==
  ASSUME NEW u \in SerialUsers, OnlySeenBy(u), StepSeen(u)
  PROVE  AtomicCart!Next \/ UNCHANGED <<[v \in SerialUsers |-> CartSeen(v)],
                                        [v \in SerialUsers |-> PendingOf(v)]>>
<1> DEFINE seen == [v \in SerialUsers |-> CartSeen(v)]
           pend == [v \in SerialUsers |-> PendingOf(v)]
<1>1. \A v \in SerialUsers \ {u} : CartSeen(v)' = CartSeen(v)
  BY DEF OnlySeenBy, CartSeen
<1>2. seen' = [seen EXCEPT ![u] = CartSeen(u)'] /\ pend' = [pend EXCEPT ![u] = PendingOf(u)']
  BY <1>1 DEF OnlySeenBy
<1>3. seen[u] = CartSeen(u) /\ pend[u] = PendingOf(u)
  OBVIOUS
<1>4. CASE PendingOf(u)' = PendingOf(u) /\ CartSeen(u)' = CartSeen(u)
  <2>1. seen' = seen /\ pend' = pend
    BY <1>2, <1>3, <1>4
  <2> QED
    BY <2>1
<1>5. CASE /\ PendingOf(u) = [status |-> "none"]
           /\ \/ PendingOf(u)' = [status |-> "empty"]
              \/ \E p \in Products, q \in Quantities :
                   PendingOf(u)' = [status |-> "add", product |-> p, quantity |-> q]
           /\ CartSeen(u)' = CartSeen(u)
  <2>1. AtomicCart!Ask(u, PendingOf(u)')
    BY <1>2, <1>3, <1>5 DEF AtomicCart!Ask, AtomicCart!NoCall, CartSeen
  <2> QED
    BY <1>5, <2>1 DEF AtomicCart!Next
<1>6. CASE /\ PendingOf(u).status = "add"
           /\ PendingOf(u)' \in {[status |-> "applied"], [status |-> "none"]}
           /\ CartSeen(u)' = [CartSeen(u) EXCEPT ![PendingOf(u).product] = @ + PendingOf(u).quantity]
  <2>1. AtomicCart!Add(u)
    BY <1>2, <1>3, <1>6 DEF AtomicCart!Add, CartSeen
  <2>2. AtomicCart!Apply(u) \/ AtomicCart!Fail(u)
    BY <1>2, <1>3, <1>6, <2>1 DEF AtomicCart!Apply, AtomicCart!Fail, AtomicCart!NoCall, CartSeen
  <2> QED
    BY <2>2 DEF AtomicCart!Next
<1>7. CASE /\ PendingOf(u).status = "empty"
           /\ PendingOf(u)' \in {[status |-> "applied"], [status |-> "none"]}
           /\ CartSeen(u)' = [p \in Products |-> 0]
  <2>1. AtomicCart!Empty(u)
    BY <1>2, <1>3, <1>7 DEF AtomicCart!Empty, AtomicCart!NoItems, CartSeen
  <2>2. AtomicCart!Apply(u) \/ AtomicCart!Fail(u)
    BY <1>2, <1>3, <1>7, <2>1 DEF AtomicCart!Apply, AtomicCart!Fail, AtomicCart!NoCall, CartSeen
  <2> QED
    BY <2>2 DEF AtomicCart!Next
<1>8. CASE /\ PendingOf(u).status = "applied"
           /\ PendingOf(u)' = [status |-> "none"]
           /\ CartSeen(u)' = CartSeen(u)
  <2>1. AtomicCart!Return(u)
    BY <1>2, <1>3, <1>8 DEF AtomicCart!Return, AtomicCart!NoCall, CartSeen
  <2> QED
    BY <2>1 DEF AtomicCart!Next
<1>9. CASE /\ PendingOf(u).status \in {"add", "empty"}
            /\ PendingOf(u)' = [status |-> "none"]
            /\ CartSeen(u)' \in {CartSeen(u), [p \in Products |-> 0]}
  <2>1. /\ pend[u].status \in {"add", "empty"}
        /\ pend' = [pend EXCEPT ![u] = [status |-> "none"]]
        /\ seen' = seen \/ seen' = [seen EXCEPT ![u] = [p \in Products |-> 0]]
    BY <1>2, <1>3, <1>9
  <2>2. AtomicCart!Fail(u)
    BY <2>1 DEF AtomicCart!Fail, AtomicCart!NoCall, AtomicCart!NoItems, CartSeen
  <2> QED
    BY <2>2 DEF AtomicCart!Next
<1>10. CASE PendingOf(u)' = PendingOf(u) /\ CartSeen(u)' = [p \in Products |-> 0]
  <2>1. AtomicCart!Clear(u)
    BY <1>2, <1>3, <1>10 DEF AtomicCart!Clear, AtomicCart!NoItems, CartSeen
  <2> QED
    BY <2>1 DEF AtomicCart!Next
<1> QED
  BY <1>4, <1>5, <1>6, <1>7, <1>8, <1>9, <1>10 DEF StepSeen

-----------------------------------------------------------------------------
(* Every step of the store is one, or nothing. *)

Watched == SerialInv /\ SerialInv' /\ \A u \in SerialUsers : View(u) /\ View(u)'

\* A step of one handler is seen by its user only.
LEMMA OthersSeeNothing ==
  ASSUME Watched, NEW h \in Handlers, NEW u, u = call'[h].user,
         call'[h] = call[h] \/ pc[h] = "idle",
         \A g \in Handlers \ {h} : pc'[g] = pc[g] /\ call'[g] = call[g] /\ value'[g] = value[g],
         \A v \in Users \ {u} : store'[v] = store[v]
  PROVE  OnlySeenBy(u)
<1>1. ASSUME NEW v \in SerialUsers \ {u}
      PROVE  PendingOf(v)' = PendingOf(v) /\ EffectiveCart(v)' = EffectiveCart(v)
  <2>1. h \notin InFlight(v) /\ InFlight(v)' = InFlight(v)
    BY DEF InFlight
  <2>2. \A g \in InFlight(v) : pc'[g] = pc[g] /\ call'[g] = call[g] /\ value'[g] = value[g]
    BY <2>1 DEF InFlight
  <2>3. store'[v] = store[v] /\ View(v) /\ View(v)'
    BY CartStoreAssumption DEF Watched
  <2> QED
    BY <2>1, <2>2, <2>3, Untouched
<1> QED
  BY <1>1 DEF OnlySeenBy

\* A user with nothing under way asks for something.
LEMMA ReceiveSeen ==
  ASSUME Watched, NEW h \in Handlers, Receive(h), NEW u \in SerialUsers, u = call'[h].user
  PROVE  StepSeen(u)
<1>1. pc[h] = "idle" /\ UNCHANGED <<store, value>>
  BY DEF Receive
<1>2. PICK v \in Users, op \in Ops, p \in Products, q \in Quantities :
        /\ v \in SerialUsers => InFlight(v) = {}
        /\ call' = [call EXCEPT ![h] =
             [op |-> op, user |-> v,
              item |-> IF op = "AddItem" THEN [product |-> p, quantity |-> q] ELSE NoItem]]
        /\ pc' = [pc EXCEPT ![h] = IF op = "EmptyCart" THEN "write" ELSE "read"]
        /\ asked' = IF op = "AddItem" THEN [asked EXCEPT ![v][p] = @ + q] ELSE asked
  BY DEF Receive
<1>3. /\ call'[h].op = op /\ v = u
      /\ op = "AddItem" => call'[h].item = [product |-> p, quantity |-> q]
      /\ pc'[h] = IF op = "EmptyCart" THEN "write" ELSE "read"
      /\ \A g \in Handlers \ {h} : call'[g] = call[g] /\ pc'[g] = pc[g]
  BY <1>2 DEF Watched, SerialInv, StoreInv, TypeOK
<1>4. View(u) /\ View(u)'
  BY <1>3 DEF Watched
<1>5. PendingOf(u) = [status |-> "none"] /\ EffectiveCart(u) = store[u]
  BY <1>2, <1>3, <1>4 DEF View, QuietView
<1>6. InFlight(u)' = {h}
  BY <1>2, <1>3 DEF InFlight
<1>7. EffectiveCart(u)' = store[u]
  <2>1. CASE op = "GetCart"
    BY <1>1, <1>3, <1>4, <1>6, <2>1 DEF View, QuietView
  <2>2. CASE op # "GetCart"
    <3>1. EffectiveCart(u)' = SeenBy(h, u)'
      BY <1>3, <1>4, <1>6, <2>2 DEF View, BusyView
    <3> QED
      BY <1>1, <1>3, <3>1 DEF SeenBy
  <2> QED
    BY <2>1, <2>2
<1>8. CartSeen(u)' = CartSeen(u)
  BY <1>5, <1>7 DEF CartSeen
<1>9. CASE op = "GetCart"
  <2>1. PendingOf(u)' = [status |-> "none"]
    BY <1>3, <1>4, <1>6, <1>9 DEF View, QuietView
  <2> QED
    BY <1>3, <1>5, <1>8, <2>1 DEF StepSeen
<1>10. CASE op # "GetCart"
  <2>1. PendingOf(u)' = CallOf(h)'
    BY <1>3, <1>4, <1>6, <1>10 DEF View, BusyView
  <2>2. PendingOf(u)' = IF op = "EmptyCart" THEN [status |-> "empty"]
                        ELSE [status |-> "add", product |-> p, quantity |-> q]
    BY <1>3, <1>10, <2>1 DEF CallOf, Ops
  <2> QED
    BY <1>3, <1>5, <1>8, <2>2 DEF StepSeen
<1> QED
  BY <1>9, <1>10

\* Reading shows nothing.
LEMMA HashGetSeen ==
  ASSUME Watched, NEW h \in Handlers, HashGet(h), NEW u \in SerialUsers, u = call[h].user
  PROVE  StepSeen(u)
<1>1. /\ pc[h] = "read" /\ UNCHANGED <<store, call>>
      /\ value'[h] = store[u]
      /\ pc'[h] = IF call[h].op = "GetCart" THEN "done" ELSE "write"
      /\ \A g \in Handlers \ {h} : pc'[g] = pc[g]
  BY DEF HashGet, Watched, SerialInv, StoreInv, TypeOK
<1>2. View(u) /\ View(u)' /\ InFlight(u) = {h}
  BY <1>1 DEF Watched, SerialInv, Alone, InFlight
<1>3. CASE call[h].op = "GetCart"
  <2>1. PendingOf(u) = [status |-> "none"] /\ EffectiveCart(u) = store[u]
    BY <1>2, <1>3 DEF View, QuietView
  <2>2. InFlight(u)' = {}
    <3>1. \A g \in InFlight(u)' : g \in InFlight(u) /\ g # h
      BY <1>1, <1>3 DEF InFlight
    <3> QED
      BY <1>2, <3>1
  <2>3. PendingOf(u)' = [status |-> "none"] /\ EffectiveCart(u)' = store[u]
    BY <1>1, <1>2, <2>2 DEF View, QuietView
  <2> QED
    BY <2>1, <2>3 DEF StepSeen, CartSeen
<1>4. CASE call[h].op # "GetCart"
  <2>1. PendingOf(u) = CallOf(h) /\ EffectiveCart(u) = store[u]
    BY <1>1, <1>2, <1>4 DEF View, BusyView, SeenBy
  <2>2. h \in InFlight(u)' /\ call'[h].op # "GetCart"
    BY <1>1, <1>4 DEF InFlight
  <2>3. PendingOf(u)' = CallOf(h)' /\ EffectiveCart(u)' = store[u]
    BY <1>1, <1>2, <1>4, <2>2 DEF View, BusyView, SeenBy
  <2>4. CallOf(h)' = CallOf(h)
    BY <1>1, <1>4 DEF CallOf
  <2> QED
    BY <2>1, <2>3, <2>4 DEF StepSeen, CartSeen
<1> QED
  BY <1>3, <1>4

\* What a serial user's handler writes is what the abstract cart becomes.
LEMMA WriteSeen ==
  ASSUME SerialInv, NEW h \in Handlers, pc[h] = "write", NEW u \in SerialUsers, u = call[h].user,
         View(u)
  PROVE  \/ /\ call[h].op = "AddItem"
            /\ PendingOf(u) = [status |-> "add", product |-> call[h].item.product,
                               quantity |-> call[h].item.quantity]
            /\ [p \in Products |-> QuantityOf(Written(h), p)]
                 = [CartSeen(u) EXCEPT ![PendingOf(u).product] = @ + PendingOf(u).quantity]
         \/ /\ call[h].op = "EmptyCart"
            /\ PendingOf(u) = [status |-> "empty"]
            /\ [p \in Products |-> QuantityOf(Written(h), p)] = [p \in Products |-> 0]
<1>1. /\ h \in InFlight(u) /\ call[h].op \in {"AddItem", "EmptyCart"}
      /\ call[h].op = "AddItem" => call[h].item \in Item
  BY DEF InFlight, SerialInv, StoreInv, TypeOK, WritersWrite, Ops
<1>2. PendingOf(u) = CallOf(h) /\ EffectiveCart(u) = SeenBy(h, u)
  BY <1>1 DEF View, BusyView
<1>3. CASE call[h].op = "AddItem"
  <2>1. value[h] \in CartMessage \cup {NoCart} /\ Unique(value[h]) /\ u \in Users
    BY CartStoreAssumption DEF SerialInv, StoreInv, TypeOK, AllUnique
  <2>2. \A p \in Products : QuantityOf(Written(h), p) =
          QuantityOf(value[h], p) + IF p = call[h].item.product THEN call[h].item.quantity ELSE 0
    BY <1>1, <1>3, <2>1, CartWithItemHolds DEF Written
  <2>3. \A p \in Products : QuantityOf(value[h], p) \in Nat
    BY <2>1, QuantityType
  <2>4. CartSeen(u) = [p \in Products |-> QuantityOf(value[h], p)]
    BY <1>2, <1>3 DEF CartSeen, SeenBy
  <2>5. PendingOf(u) = [status |-> "add", product |-> call[h].item.product,
                        quantity |-> call[h].item.quantity]
    BY <1>2, <1>3 DEF CallOf
  <2>6. [p \in Products |-> QuantityOf(Written(h), p)]
          = [CartSeen(u) EXCEPT ![call[h].item.product] = @ + call[h].item.quantity]
    BY <2>2, <2>3, <2>4
  <2> QED
    BY <1>3, <2>5, <2>6
<1>4. CASE call[h].op = "EmptyCart"
  BY <1>2, <1>4, EmptyMessageHolds DEF CallOf, Written
<1> QED
  BY <1>1, <1>3, <1>4

\* A user's only call is over: the store is what the user has.
LEMMA EndSeen ==
  ASSUME Watched, NEW h \in Handlers, NEW u \in SerialUsers, h \in InFlight(u),
         call' = call, pc'[h] \in {"done", "failed"},
         \A g \in Handlers \ {h} : pc'[g] = pc[g]
  PROVE  PendingOf(u)' = [status |-> "none"] /\ EffectiveCart(u)' = store'[u]
<1>1. \A g \in InFlight(u)' : g \in InFlight(u) /\ g # h
  BY DEF InFlight
<1>2. InFlight(u)' = {}
  BY <1>1 DEF Watched, SerialInv, Alone
<1> QED
  BY <1>2 DEF Watched, View, QuietView

\* The write is the effect of the call.
LEMMA HashSetSeen ==
  ASSUME Watched, NEW h \in Handlers, HashSet(h), NEW u \in SerialUsers, u = call[h].user
  PROVE  StepSeen(u)
<1>1. /\ pc[h] = "write" /\ call' = call /\ pc'[h] = "expire"
      /\ store'[u] = Written(h)
  BY CartStoreAssumption DEF HashSet, AfterWrite, Watched, SerialInv, StoreInv, TypeOK
<1>2. View(u) /\ View(u)' /\ call[h].op # "GetCart" /\ h \in InFlight(u)'
  BY <1>1 DEF Watched, SerialInv, WritersWrite, InFlight
<1>3. PendingOf(u)' = [status |-> "applied"] /\ EffectiveCart(u)' = store'[u]
  BY <1>1, <1>2 DEF View, BusyView, CallOf, SeenBy
<1>4. CartSeen(u)' = [p \in Products |-> QuantityOf(Written(h), p)]
  BY <1>1, <1>3 DEF CartSeen
<1>5. \/ /\ PendingOf(u).status = "add"
         /\ CartSeen(u)' = [CartSeen(u) EXCEPT ![PendingOf(u).product] = @ + PendingOf(u).quantity]
      \/ /\ PendingOf(u).status = "empty"
         /\ CartSeen(u)' = [p \in Products |-> 0]
  BY <1>1, <1>2, <1>4, WriteSeen DEF Watched
<1> QED
  BY <1>3, <1>5 DEF StepSeen

\* A call whose write is done returns, whether it renewed the expiry or failed to.
LEMMA RenewedSeen ==
  ASSUME Watched, NEW h \in Handlers, pc[h] = "expire", NEW u \in SerialUsers,
         u = call[h].user, call' = call, store' = store, pc'[h] \in {"done", "failed"},
         \A g \in Handlers \ {h} : pc'[g] = pc[g]
  PROVE  StepSeen(u)
<1>1. View(u) /\ call[h].op # "GetCart" /\ h \in InFlight(u)
  BY DEF Watched, SerialInv, WritersWrite, InFlight
<1>2. PendingOf(u) = [status |-> "applied"] /\ EffectiveCart(u) = store[u]
  BY <1>1 DEF View, BusyView, CallOf, SeenBy
<1>3. PendingOf(u)' = [status |-> "none"] /\ EffectiveCart(u)' = store[u]
  BY <1>1, EndSeen
<1> QED
  BY <1>2, <1>3 DEF StepSeen, CartSeen

LEMMA KeyExpireSeen ==
  ASSUME Watched, NEW h \in Handlers, KeyExpire(h), NEW u \in SerialUsers, u = call[h].user
  PROVE  StepSeen(u)
<1>1. /\ pc[h] = "expire" /\ call' = call /\ store' = store /\ pc'[h] = "done"
      /\ \A g \in Handlers \ {h} : pc'[g] = pc[g]
  BY DEF KeyExpire, Watched, SerialInv, StoreInv, TypeOK
<1> QED
  BY <1>1, RenewedSeen

\* A call fails with its effect, without it, or without it on a cart that had
\* expired under its copy.
LEMMA FailSeen ==
  ASSUME Watched, NEW h \in Handlers, Fail(h), NEW u \in SerialUsers, u = call[h].user
  PROVE  StepSeen(u)
<1>1. /\ pc[h] \in {"read", "write", "expire"} /\ call' = call /\ pc'[h] = "failed"
      /\ \A g \in Handlers \ {h} : pc'[g] = pc[g]
      /\ \/ pc[h] = "write" /\ store'[u] = Written(h)
         \/ pc[h] = "expire" /\ store' = store
         \/ pc[h] \in {"read", "write"} /\ store' = store
  BY CartStoreAssumption DEF Fail, Watched, SerialInv, StoreInv, TypeOK
<1>2. View(u) /\ h \in InFlight(u) /\ call[h].op \in Ops
  BY <1>1 DEF Watched, SerialInv, StoreInv, TypeOK, InFlight
<1>3. PendingOf(u)' = [status |-> "none"] /\ EffectiveCart(u)' = store'[u]
  BY <1>1, <1>2, EndSeen
<1>4. CASE pc[h] = "write" /\ store'[u] = Written(h)
  <2>1. CartSeen(u)' = [p \in Products |-> QuantityOf(Written(h), p)]
    BY <1>3, <1>4 DEF CartSeen
  <2>2. \/ /\ PendingOf(u).status = "add"
           /\ CartSeen(u)' = [CartSeen(u) EXCEPT ![PendingOf(u).product] = @ + PendingOf(u).quantity]
        \/ /\ PendingOf(u).status = "empty"
           /\ CartSeen(u)' = [p \in Products |-> 0]
    BY <1>2, <1>4, <2>1, WriteSeen DEF Watched
  <2> QED
    BY <1>3, <2>2 DEF StepSeen
<1>5. CASE pc[h] = "expire" /\ store' = store
  BY <1>1, <1>5, RenewedSeen
<1>6. CASE pc[h] \in {"read", "write"} /\ store' = store
  <2>1. CASE call[h].op = "GetCart"
    <3>1. \A g \in InFlight(u) : call[g].op = "GetCart"
      BY <1>2, <2>1 DEF Watched, SerialInv, Alone
    <3>2. PendingOf(u) = [status |-> "none"] /\ EffectiveCart(u) = store[u]
      BY <1>2, <3>1 DEF View, QuietView
    <3> QED
      BY <1>3, <1>6, <3>2 DEF StepSeen, CartSeen
  <2>2. CASE call[h].op # "GetCart"
    <3>1. PendingOf(u) = CallOf(h) /\ EffectiveCart(u) = SeenBy(h, u)
      BY <1>2, <2>2 DEF View, BusyView
    <3>2. PendingOf(u).status \in {"add", "empty"}
      BY <1>6, <2>2, <3>1 DEF CallOf
    <3>3. store[u] = SeenBy(h, u) \/ store[u] = NoCart
      BY <1>2, <1>6 DEF SeenBy, Watched, SerialInv, CopyIsCurrent, InFlight
    <3>4. CartSeen(u)' \in {CartSeen(u), [p \in Products |-> 0]}
      <4>1. CASE store[u] = SeenBy(h, u)
        BY <1>3, <1>6, <3>1, <4>1 DEF CartSeen
      <4>2. CASE store[u] = NoCart
        BY <1>3, <1>6, <4>2 DEF CartSeen, QuantityOf
      <4> QED
        BY <3>3, <4>1, <4>2
    <3> QED
      BY <1>3, <3>2, <3>4 DEF StepSeen
  <2> QED
    BY <2>1, <2>2
<1> QED
  BY <1>1, <1>4, <1>5, <1>6

\* An expired cart is cleared, unless an AddItem still has a copy of it.
LEMMA ExpireSeen ==
  ASSUME Watched, NEW u \in SerialUsers, Expire(u)
  PROVE  StepSeen(u)
<1>1. UNCHANGED <<pc, call, value>> /\ store'[u] = NoCart
  BY CartStoreAssumption DEF Expire, Watched, SerialInv, StoreInv, TypeOK
<1>2. View(u) /\ View(u)' /\ InFlight(u)' = InFlight(u)
  BY <1>1 DEF Watched, InFlight
<1>3. CASE \A h \in InFlight(u) : call[h].op = "GetCart"
  <2>1. PendingOf(u) = [status |-> "none"]
    BY <1>2, <1>3 DEF View, QuietView
  <2>2. PendingOf(u)' = [status |-> "none"] /\ EffectiveCart(u)' = NoCart
    BY <1>1, <1>2, <1>3 DEF View, QuietView
  <2>3. CartSeen(u)' = [p \in Products |-> 0]
    BY <2>2 DEF CartSeen, QuantityOf
  <2> QED
    BY <2>1, <2>2, <2>3 DEF StepSeen
<1>4. CASE \E h \in InFlight(u) : call[h].op # "GetCart"
  <2>1. PICK h \in InFlight(u) : call[h].op # "GetCart"
    BY <1>4
  <2>2. PendingOf(u) = CallOf(h) /\ EffectiveCart(u) = SeenBy(h, u)
    BY <1>2, <2>1 DEF View, BusyView
  <2>3. PendingOf(u)' = CallOf(h)' /\ EffectiveCart(u)' = SeenBy(h, u)'
    BY <1>1, <1>2, <2>1 DEF View, BusyView
  <2>4. CallOf(h)' = CallOf(h)
    BY <1>1 DEF CallOf
  <2>5. SeenBy(h, u)' \in {SeenBy(h, u), NoCart}
    BY <1>1 DEF SeenBy
  <2>6. CartSeen(u)' \in {CartSeen(u), [p \in Products |-> 0]}
    <3>1. CASE EffectiveCart(u)' = EffectiveCart(u)
      BY <3>1 DEF CartSeen
    <3>2. CASE EffectiveCart(u)' = NoCart
      BY <3>2 DEF CartSeen, QuantityOf
    <3> QED
      BY <2>2, <2>3, <2>5, <3>1, <3>2
  <2> QED
    BY <2>2, <2>3, <2>4, <2>6 DEF StepSeen
<1> QED
  BY <1>3, <1>4

\* A step of a handler, whosever it is.
LEMMA HandlerIsAbstract ==
  ASSUME Watched, NEW h \in Handlers,
         Receive(h) \/ HashGet(h) \/ HashSet(h) \/ KeyExpire(h) \/ Fail(h)
  PROVE  AtomicCart!Next \/ UNCHANGED <<[v \in SerialUsers |-> CartSeen(v)],
                                        [v \in SerialUsers |-> PendingOf(v)]>>
<1>1. PICK u \in Users : u = call'[h].user
  BY DEF Watched, SerialInv, StoreInv, TypeOK, Receive, HashGet, HashSet, KeyExpire, Fail
<1>2. OnlySeenBy(u)
  <2>1. call'[h] = call[h] \/ pc[h] = "idle"
    BY DEF Receive, HashGet, HashSet, KeyExpire, Fail
  <2>2. \A g \in Handlers \ {h} : pc'[g] = pc[g] /\ call'[g] = call[g] /\ value'[g] = value[g]
    BY DEF Watched, SerialInv, StoreInv, TypeOK, Receive, HashGet, HashSet, KeyExpire, Fail
  <2>3. \A v \in Users \ {u} : store'[v] = store[v]
    BY <1>1 DEF Watched, SerialInv, StoreInv, TypeOK, Receive, HashGet, HashSet, KeyExpire, Fail
  <2> QED
    BY <1>1, <2>1, <2>2, <2>3, OthersSeeNothing
<1>3. CASE u \in SerialUsers
  <2>1. Receive(h) \/ u = call[h].user
    BY <1>1 DEF HashGet, HashSet, KeyExpire, Fail
  <2>2. StepSeen(u)
    BY <1>1, <1>3, <2>1, ReceiveSeen, HashGetSeen, HashSetSeen, KeyExpireSeen, FailSeen
  <2> QED
    BY <1>2, <1>3, <2>2, SeenIsAbstract
<1>4. CASE u \notin SerialUsers
  <2>1. \A v \in SerialUsers : PendingOf(v)' = PendingOf(v) /\ CartSeen(v)' = CartSeen(v)
    BY <1>2, <1>4 DEF OnlySeenBy, CartSeen
  <2> QED
    BY <2>1
<1> QED
  BY <1>3, <1>4

LEMMA ExpireIsAbstract ==
  ASSUME Watched, NEW u \in Users, Expire(u)
  PROVE  AtomicCart!Next \/ UNCHANGED <<[v \in SerialUsers |-> CartSeen(v)],
                                        [v \in SerialUsers |-> PendingOf(v)]>>
<1>1. ASSUME NEW v \in SerialUsers \ {u}
      PROVE  PendingOf(v)' = PendingOf(v) /\ EffectiveCart(v)' = EffectiveCart(v)
  <2>1. UNCHANGED <<pc, call, value>> /\ store'[v] = store[v]
    BY CartStoreAssumption DEF Expire, Watched, SerialInv, StoreInv, TypeOK
  <2>2. InFlight(v)' = InFlight(v) /\ View(v) /\ View(v)'
    BY <2>1 DEF InFlight, Watched
  <2> QED
    BY <2>1, <2>2, Untouched
<1>2. CASE u \in SerialUsers
  <2>1. OnlySeenBy(u) /\ StepSeen(u)
    BY <1>1, <1>2, ExpireSeen DEF OnlySeenBy
  <2> QED
    BY <1>2, <2>1, SeenIsAbstract
<1>3. CASE u \notin SerialUsers
  <2>1. \A v \in SerialUsers : PendingOf(v)' = PendingOf(v) /\ CartSeen(v)' = CartSeen(v)
    BY <1>1, <1>3 DEF CartSeen
  <2> QED
    BY <2>1
<1> QED
  BY <1>2, <1>3

\* The store is an atomic cart for a user whose client awaits each call, however
\* the calls of others interleave with it, fail, or meet an expired key: the
\* three awaited commands of AddItemAsync (ValkeyCartStore.cs:124) take effect
\* once and in one step, before the call returns.
THEOREM StoreIsAtomicCart == Spec => ImplementsCart
<1>1. Init => AtomicCart!Init
  <2> SUFFICES ASSUME Init PROVE AtomicCart!Init
    OBVIOUS
  <2>1. \A u \in SerialUsers : InFlight(u) = {} /\ \A h \in Handlers : ~Outlived(u, h)
    BY DEF Init, InFlight, Outlived
  <2>2. \A u \in SerialUsers : PendingOf(u) = [status |-> "none"]
    BY <2>1 DEF PendingOf
  <2>3. \A u \in SerialUsers : EffectiveCart(u) = NoCart
    BY <2>1, CartStoreAssumption DEF EffectiveCart, Init
  <2>4. \A u \in SerialUsers, p \in Products : QuantityOf(EffectiveCart(u), p) = 0
    BY <2>3 DEF QuantityOf
  <2> QED
    BY <2>2, <2>4 DEF AtomicCart!Init, AtomicCart!NoItems, AtomicCart!NoCall
<1>2. SerialInv /\ [Next]_vars =>
        [AtomicCart!Next]_<<[u \in SerialUsers |->
                               [p \in Products |-> QuantityOf(EffectiveCart(u), p)]],
                            [u \in SerialUsers |-> PendingOf(u)]>>
  <2> SUFFICES ASSUME SerialInv, [Next]_vars
               PROVE  AtomicCart!Next \/ UNCHANGED <<[v \in SerialUsers |-> CartSeen(v)],
                                                     [v \in SerialUsers |-> PendingOf(v)]>>
    BY DEF CartSeen
  <2>1. Watched
    BY ViewNext, StepKeepsSerialInv DEF Watched
  <2>2. CASE Next
    BY <2>1, <2>2, HandlerIsAbstract, ExpireIsAbstract DEF Next
  <2>3. CASE UNCHANGED vars
    <3>1. \A v \in SerialUsers : PendingOf(v)' = PendingOf(v) /\ EffectiveCart(v)' = EffectiveCart(v)
      <4>1. UNCHANGED <<store, pc, call, value>> /\ \A v \in SerialUsers : InFlight(v)' = InFlight(v)
        BY <2>3 DEF vars, InFlight
      <4> QED
        BY <2>1, <4>1, Untouched DEF Watched
    <3>2. \A v \in SerialUsers : CartSeen(v)' = CartSeen(v)
      BY <3>1 DEF CartSeen
    <3> QED
      BY <3>1, <3>2
  <2> QED
    BY <2>2, <2>3
<1>3. Spec => []SerialInv
  BY InitSerialInv, StepKeepsSerialInv, PTL DEF Spec
<1> QED
  BY <1>1, <1>2, <1>3, PTL DEF Spec, ImplementsCart, AtomicCart!Spec

-----------------------------------------------------------------------------
(* The connection.  OneConnectionPerLoss alone is not inductive: whoever is  *)
(* about to connect needs a loss or a miss that no connection has been made  *)
(* for, and only who holds the lock is about to connect.                     *)

SettingUp == {"connect", "test", "subscribe", "open"}

ConnTypes ==
  /\ thread \in [Threads -> {"idle", "wait", "use", "failed"} \cup SettingUp]
  /\ created \in Nat
  /\ lost \in Nat
  /\ misses \in Nat

HolderSetsUp == \A t \in Threads : thread[t] \in SettingUp => locker = t

\* A loss or a miss that no connection has been made for.
Owed == created <= lost + misses

OwedBeforeConnect ==
  /\ ~opened /\ locker = NoThread => Owed
  /\ \A t \in Threads : thread[t] = "connect" => Owed

ConnInv == ConnTypes /\ HolderSetsUp /\ OwedBeforeConnect /\ OneConnectionPerLoss

\* The steps of EnsureRedisConnected and of the calls (ValkeyCartStore.cs) keep
\* the invariant.
LEMMA ThreadKeepsConnInv ==
  ASSUME ConnInv, NEW t \in Threads, CallBegins(t) \/ ThreadStep(t)
  PROVE  ConnInv'
<1> USE NoThreadAssumption DEF ConnInv, ConnTypes, HolderSetsUp, Owed, OwedBeforeConnect,
          OneConnectionPerLoss, SettingUp, Stands, GoTo
<1>1. CASE CallBegins(t)
  BY <1>1 DEF CallBegins
<1>2. CASE Lock(t)
  BY <1>2 DEF Lock
<1>3. CASE Connect(t)
  <2>1. locker = t /\ Owed
    BY <1>3 DEF Connect
  <2>2. CASE Throw(t)
    BY <1>3, <2>1, <2>2 DEF Connect, Throw
  <2>3. CASE thread' = [thread EXCEPT ![t] = "test"] /\ UNCHANGED <<locker, misses>>
    BY <1>3, <2>1, <2>3 DEF Connect
  <2> QED
    BY <1>3, <2>2, <2>3 DEF Connect
<1>4. CASE ConnectThrows(t)
  BY <1>4 DEF ConnectThrows, Throw
<1>5. CASE SmallTest(t)
  BY <1>5 DEF SmallTest, Throw
<1>6. CASE Subscribe(t)
  BY <1>6 DEF Subscribe
<1>7. CASE SetOpened(t)
  BY <1>7 DEF SetOpened
<1>8. CASE UseRedis(t)
  BY <1>8 DEF UseRedis
<1> QED
  BY <1>1, <1>2, <1>3, <1>4, <1>5, <1>6, <1>7, <1>8 DEF ThreadStep

\* So do connections that fail and come back, and the handlers of their events,
\* in whatever order.
LEMMA EventsKeepConnInv ==
  ASSUME ConnInv, NEW m,
         ConnectionFails(m) \/ Reconnects(m) \/ HandleRestored(m) \/ HandleFailed(m)
  PROVE  ConnInv'
<1> USE DEF ConnInv, ConnTypes, HolderSetsUp, Owed, OwedBeforeConnect, OneConnectionPerLoss,
            SettingUp
<1>1. CASE ConnectionFails(m) \/ Reconnects(m)
  BY <1>1 DEF ConnectionFails, Reconnects
<1>2. CASE HandleRestored(m)
  BY <1>2 DEF HandleRestored
<1>3. CASE HandleFailed(m)
  BY <1>3 DEF HandleFailed
<1> QED
  BY <1>1, <1>2, <1>3

\* Nothing happens, and the invariant stays.
LEMMA StutterKeepsConnInv ==
  ASSUME ConnInv, UNCHANGED connVars
  PROVE  ConnInv'
BY DEF ConnInv, ConnTypes, HolderSetsUp, Owed, OwedBeforeConnect, OneConnectionPerLoss, connVars

\* However many calls find the connection closed at once, and however late the
\* events of replaced connections: one connection more only for a failure the
\* service heard of or an attempt that failed (ValkeyCartStore.cs:81).
THEOREM ConnectionsHaveCause == ConnSpec => []OneConnectionPerLoss
<1>1. ConnInit => ConnInv
  BY DEF ConnInit, ConnInv, ConnTypes, HolderSetsUp, Owed, OwedBeforeConnect,
         OneConnectionPerLoss, SettingUp
<1>2. ConnInv /\ [ConnNext]_connVars => ConnInv'
  BY ThreadKeepsConnInv, EventsKeepConnInv, StutterKeepsConnInv DEF ConnNext
<1>3. ConnInv => OneConnectionPerLoss
  BY DEF ConnInv
<1> QED
  BY <1>1, <1>2, <1>3, PTL DEF ConnSpec
=============================================================================
