-------------------------------- MODULE Cart --------------------------------
(***************************************************************************)
(* What the cart service promises a client that awaits each call, before   *)
(* any thought of how a cart is stored: an AddItem or EmptyCart it asks    *)
(* for takes effect once and in one step, and always before the call       *)
(* returns; a call that fails may or may not have taken effect.  The       *)
(* service clears a cart that was left alone.                              *)
(***************************************************************************)
EXTENDS Integers

CONSTANTS Users, Products, Quantities

VARIABLES
  cart,       \* cart[u][p]: how many of product p user u has
  pending     \* pending[u]: the call of u under way

NoItems == [p \in Products |-> 0]
NoCall == [status |-> "none"]

Init ==
  /\ cart = [u \in Users |-> NoItems]
  /\ pending = [u \in Users |-> NoCall]

Ask(u, r) ==
  /\ pending[u] = NoCall
  /\ pending' = [pending EXCEPT ![u] = r]
  /\ UNCHANGED cart

Add(u) ==
  /\ pending[u].status = "add"
  /\ cart' = [cart EXCEPT ![u][pending[u].product] = @ + pending[u].quantity]

Empty(u) ==
  /\ pending[u].status = "empty"
  /\ cart' = [cart EXCEPT ![u] = NoItems]

\* The one effect of the call.
Apply(u) ==
  /\ Add(u) \/ Empty(u)
  /\ pending' = [pending EXCEPT ![u] = [status |-> "applied"]]

Return(u) ==
  /\ pending[u].status = "applied"
  /\ pending' = [pending EXCEPT ![u] = NoCall]
  /\ UNCHANGED cart

\* The call fails: without effect, with it, or after the cart was cleared.
Fail(u) ==
  /\ pending[u].status \in {"add", "empty"}
  /\ UNCHANGED cart \/ Add(u) \/ Empty(u) \/ cart' = [cart EXCEPT ![u] = NoItems]
  /\ pending' = [pending EXCEPT ![u] = NoCall]

Clear(u) ==
  /\ cart' = [cart EXCEPT ![u] = NoItems]
  /\ UNCHANGED pending

Next ==
  \E u \in Users :
    \/ \E p \in Products, q \in Quantities :
         Ask(u, [status |-> "add", product |-> p, quantity |-> q])
    \/ Ask(u, [status |-> "empty"])
    \/ Apply(u) \/ Return(u) \/ Fail(u) \/ Clear(u)

Spec == Init /\ [][Next]_<<cart, pending>>
=============================================================================
