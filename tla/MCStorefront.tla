---------------------------- MODULE MCStorefront ----------------------------
(***************************************************************************)
(* Storefront and Phone in four scenes, as all of it at once is beyond     *)
(* TLC.  In the first, pages are loaded, read and write their sessions.    *)
(* In two, two loaded pages have seen their carts, with the sessions such  *)
(* a race or none has left them, and the shopper uses the carts: without,  *)
(* and with fewer presses, with switching currencies.  In the last, the    *)
(* shopper uses the phone.                                                 *)
(***************************************************************************)
EXTENDS Storefront, Phone

LOCAL INSTANCE TLC

CONSTANT MaxSwitching   \* bound: presses while currencies are switched

VARIABLE scene

SessionOf(user) == [user |-> user, currency |-> DefaultCurrency]

\* The users of Api.gateway, Currency.provider and CartDetail in the watched
\* tab, and in the others; the last is also stored.  1 2 2 is what is left when
\* both tabs found no session and the other one wrote last.
Captured(users) == [i \in 1..3 |-> SessionOf(users[i])]

PagesAfter(last) ==
  [t \in Tabs |->
    [Blank(IF t = Watched THEN 1 ELSE 2) EXCEPT
       !.captured = Captured(IF t = Watched THEN <<1, last, last>> ELSE <<last, last, last>>)]]

ShoppingInit ==
  /\ \E last \in 1..2 :
       /\ stored = SessionOf(last)
       /\ page = PagesAfter(last)
       /\ raced = (last = 2)
  /\ opened = 2
  /\ cleared = FALSE

MCInit ==
  /\ scene \in {"sessions", "shopping", "switching", "phone"}
  /\ IF scene \in {"sessions", "phone"} THEN SessionInit ELSE ShoppingInit
  /\ ShopInit
  /\ PhoneInit

MCNext ==
  /\ \/ scene = "sessions" /\ SessionNext /\ UNCHANGED phoneVars
     \/ scene = "shopping" /\ ShopNext /\ UNCHANGED phoneVars
     \/ scene = "switching" /\ ShopNext /\ pressed' <= MaxSwitching /\ UNCHANGED phoneVars
     \/ /\ scene = "switching"
        /\ \E c \in Currencies : Select(Watched, c) \/ SetItemOf(Watched)
        /\ UNCHANGED phoneVars
     \/ scene = "phone" /\ PhoneNext /\ UNCHANGED vars
  /\ UNCHANGED scene

Symmetry == Permutations(Slots) \cup Permutations(PhoneCalls)

MCSpec == MCInit /\ [][MCNext]_<<vars, phoneVars, scene>>
=============================================================================
