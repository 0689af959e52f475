-------------------------- MODULE StorefrontProofs --------------------------
(***************************************************************************)
(* All tabs are one shopper, and so is the phone; and what the shop        *)
(* promises the shopper: nothing is shipped that was not put into the      *)
(* cart, an order that was shipped is reported as failed only when the     *)
(* catalogue was lost meanwhile, and a page that waits for nothing shows   *)
(* the cart as it is.  For every number of tabs, presses, products,        *)
(* currencies, overlapping calls and restarts.                             *)
(***************************************************************************)
EXTENDS Storefront, Phone, TLAPS

-----------------------------------------------------------------------------
(* The tabs.  The invariant adds to OneShopper what a tab may be about to    *)
(* write.                                                                    *)

LEMMA InitSessionInv == Init => SessionInv
<1> SUFFICES ASSUME Init PROVE SessionInv
  OBVIOUS
<1> USE MaxUsersAssumption, CurrencyAssumption DEF Init, SessionInit
<1>1. SessionTypeOK
  <2>1. <<>> \in Seq(Sessions)
    OBVIOUS
  <2>2. Blank(0) \in Pages
    BY <2>1 DEF Pages, Blank
  <2>3. page \in [Tabs -> Pages]
    BY <2>2
  <2>4. stored \in Sessions \cup {NoSession} /\ opened \in 0..MaxUsers
    OBVIOUS
  <2>5. raced \in BOOLEAN /\ cleared \in BOOLEAN
    OBVIOUS
  <2> QED
    BY ONLY <2>3, <2>4, <2>5 DEF SessionTypeOK
<1>2. OneShopper
  BY DEF OneShopper, UsersOf, Blank
<1>3. OneWriter
  BY DEF OneWriter, Blank
<1> QED
  BY <1>1, <1>2, <1>3 DEF SessionInv

\* The user of a stored session is one; null has none.
LEMMA UserInType ==
  ASSUME SessionTypeOK
  PROVE /\ UserIn(stored) \in 0..MaxUsers
        /\ UserIn(stored) = 0 <=> stored = NoSession
        /\ \A t \in Tabs : UserIn(page[t].saw) \in 0..MaxUsers
        /\ stored # NoSession => stored \in Sessions
BY MaxUsersAssumption DEF SessionTypeOK, Pages, UserIn, Sessions

LEMMA UsersOfType ==
  ASSUME SessionTypeOK, NEW t \in Tabs
  PROVE UsersOf(t) \subseteq 1..MaxUsers
<1> SUFFICES ASSUME NEW v \in UsersOf(t) PROVE v \in 1..MaxUsers
  OBVIOUS
<1>1. PICK i \in DOMAIN page[t].captured : v = page[t].captured[i].user
  BY DEF UsersOf
<1>2. page[t].captured \in Seq(Sessions)
  BY DEF SessionTypeOK, Pages
<1>3. page[t].captured[i] \in Sessions
  BY <1>1, <1>2
<1> QED
  BY <1>1, <1>3 DEF Sessions

\* Until something goes wrong, an idle page that found no session has captured
\* none yet, and one that found a session is its user's.
LEMMA IdlePage ==
  ASSUME SessionInv, NEW t \in Tabs, page[t].writes = <<>>, ~raced, ~cleared
  PROVE \A v \in UsersOf(t) : stored # NoSession /\ v = stored.user
<1>1. \A v \in UsersOf(t) : v = UserIn(stored)
  BY DEF SessionInv, OneShopper
<1> QED
  BY <1>1, UsersOfType, UserInType DEF SessionInv, UserIn

LEMMA DefaultSessionType ==
  ASSUME SessionTypeOK, NEW t \in Tabs, page[t].own # 0
  PROVE defaultSession(t) \in Sessions
BY CurrencyAssumption DEF SessionTypeOK, Pages, defaultSession, Sessions

\* A script that reads localStorage, then writes w: the default first if there
\* is nothing.
LEMMA GetSessionType ==
  ASSUME SessionTypeOK, NEW t \in Tabs, page[t].own # 0
  PROVE /\ getSession(t) \in Sessions
        /\ getSessionWrites(t) \in Seq(Sessions)
        /\ \A i \in DOMAIN getSessionWrites(t) :
             getSessionWrites(t)[i].user = getSession(t).user
        /\ UserIn(stored) \in {0, getSession(t).user}
        /\ getSessionWrites(t) = <<>> => getSession(t) = stored
<1>1. CASE stored = NoSession
  BY <1>1, DefaultSessionType DEF getSession, getSessionWrites, UserIn
<1>2. CASE stored # NoSession
  BY <1>2, UserInType DEF getSession, getSessionWrites, UserIn
<1> QED
  BY <1>1, <1>2

LEMMA OpenPageStep ==
  ASSUME SessionInv, NEW t \in Tabs, OpenPage(t)
  PROVE SessionInv'
<1> USE MaxUsersAssumption, CurrencyAssumption DEF OpenPage
<1>1. SessionTypeOK'
  BY DEF SessionInv, SessionTypeOK, Pages, Blank
<1>2. /\ page'[t].writes = <<>> /\ UsersOf(t)' = {}
      /\ \A u \in Tabs \ {t} : page'[u] = page[u] /\ UsersOf(u)' = UsersOf(u)
  BY DEF SessionInv, SessionTypeOK, Pages, Blank, UsersOf
<1>3. OneShopper'
  BY <1>2 DEF SessionInv, OneShopper, UserIn
<1>4. OneWriter'
  BY <1>2 DEF SessionInv, OneWriter, WritesFor, UserIn
<1> QED
  BY <1>1, <1>3, <1>4 DEF SessionInv

LEMMA AppendUsers ==
  ASSUME NEW s \in Seq(Sessions), NEW x \in Sessions, NEW long, long = Append(s, x), NEW v
  PROVE (\E i \in DOMAIN long : v = long[i].user)
          <=> v = x.user \/ \E i \in DOMAIN s : v = s[i].user
<1>1. /\ DOMAIN s = 1..Len(s) /\ DOMAIN long = 1..(Len(s) + 1) /\ Len(s) \in Nat
      /\ long[Len(s) + 1] = x
      /\ \A i \in 1..Len(s) : long[i] = s[i]
  OBVIOUS
<1>2. ASSUME NEW i \in DOMAIN long, i # Len(s) + 1 PROVE i \in DOMAIN s /\ long[i] = s[i]
  BY <1>1, <1>2
<1>3. ASSUME NEW i \in DOMAIN s PROVE i \in DOMAIN long /\ long[i] = s[i]
  BY <1>1
<1>4. Len(s) + 1 \in DOMAIN long /\ long[Len(s) + 1] = x
  BY <1>1
<1> QED
  BY ONLY <1>2, <1>3, <1>4

LEMMA CaptureStep ==
  ASSUME SessionInv, NEW t \in Tabs, Capture(t)
  PROVE SessionInv'
<1> DEFINE session == getSession(t)
<1>0. page[t].own # 0 /\ page[t].writes = <<>> /\ SessionTypeOK
  BY DEF Capture, Idle, SessionInv
<1> DEFINE currency == IF Len(page[t].captured) + 1 = CurrencyProvider
                       THEN session.currency ELSE page[t].currency
           new == [page[t] EXCEPT !.captured = Append(page[t].captured, session),
                                  !.currency = currency,
                                  !.writes = getSessionWrites(t), !.saw = stored]
<1>1. page' = [page EXCEPT ![t] = new] /\ UNCHANGED <<stored, opened, raced, cleared>>
  BY DEF Capture
<1>2. page[t] \in Pages /\ page \in [Tabs -> Pages]
  BY <1>0 DEF SessionTypeOK
<1>2a. /\ new \in Pages
       /\ new.captured = Append(page[t].captured, session)
       /\ new.writes = getSessionWrites(t) /\ new.saw = stored
  <2>1. currency \in Currencies
    BY <1>0, <1>2, GetSessionType DEF Pages, Sessions
  <2>2. Append(page[t].captured, session) \in Seq(Sessions)
    BY <1>0, <1>2, GetSessionType DEF Pages
  <2>3. getSessionWrites(t) \in Seq(Sessions) /\ stored \in Sessions \cup {NoSession}
    BY <1>0, GetSessionType DEF SessionTypeOK
  <2> HIDE DEF currency, session
  <2> QED
    BY <1>2, <2>1, <2>2, <2>3 DEF Pages
<1> HIDE DEF new
<1>2b. SessionTypeOK'
  BY <1>0, <1>1, <1>2, <1>2a DEF SessionTypeOK
<1>3. /\ page'[t].writes = getSessionWrites(t) /\ page'[t].saw = stored
      /\ UsersOf(t)' = UsersOf(t) \cup {session.user}
      /\ \A u \in Tabs \ {t} : page'[u] = page[u] /\ UsersOf(u)' = UsersOf(u)
  <2>0. page'[t] = new /\ \A u \in Tabs \ {t} : page'[u] = page[u]
    BY <1>1, <1>2
  <2>1. page'[t].captured = Append(page[t].captured, session)
    BY <2>0, <1>2a
  <2>2. page[t].captured \in Seq(Sessions)
    BY <1>0 DEF SessionTypeOK, Pages
  <2>3. UsersOf(t)' = UsersOf(t) \cup {session.user}
    <3>1. session \in Sessions
      BY <1>0, GetSessionType
    <3> HIDE DEF session
    <3> DEFINE old == page[t].captured
               long == page'[t].captured
    <3>2. old \in Seq(Sessions) /\ long = Append(old, session)
      BY <2>1, <2>2
    <3> HIDE DEF old, long
    <3>3. ASSUME NEW v
          PROVE (\E i \in DOMAIN long : v = long[i].user)
                  <=> v = session.user \/ \E i \in DOMAIN old : v = old[i].user
      BY ONLY <3>1, <3>2, AppendUsers
    <3> QED
      BY <3>3 DEF UsersOf, old, long
  <2>4. page'[t].writes = getSessionWrites(t) /\ page'[t].saw = stored
    BY <2>0, <1>2a
  <2> QED
    BY <2>0, <2>3, <2>4 DEF UsersOf
<1>4. ASSUME ~raced, ~cleared PROVE \A v \in UsersOf(t)' : v = session.user
  BY <1>0, <1>3, <1>4, IdlePage DEF getSession
<1>5. OneShopper'
  <2> SUFFICES ASSUME ~raced, ~cleared, NEW u \in Tabs, page'[u].writes = <<>>,
                      NEW v \in UsersOf(u)'
               PROVE v = UserIn(stored)
    BY <1>1 DEF OneShopper, UserIn
  <2>1. CASE u = t
    <3>1. session = stored /\ session \in Sessions
      BY <1>0, <1>3, <2>1, GetSessionType
    <3>2. v = stored.user
      BY <1>4, <2>1, <3>1
    <3>3. stored # NoSession
      BY <3>1, NoSessionAssumption, MaxUsersAssumption DEF Sessions
    <3> QED
      BY <3>2, <3>3 DEF UserIn
  <2>2. CASE u # t
    BY <1>3, <2>2 DEF SessionInv, OneShopper
  <2> QED
    BY <2>1, <2>2
<1>6. OneWriter'
  <2> SUFFICES ASSUME ~raced, ~cleared, NEW u \in Tabs, page'[u].writes # <<>>
               PROVE \E user \in 1..MaxUsers : WritesFor(u, user)'
    BY <1>1 DEF OneWriter
  <2>1. CASE u = t
    <3>1. PICK user \in 1..MaxUsers : user = session.user
      BY <1>0, GetSessionType DEF Sessions
    <3>2. WritesFor(t, user)'
      BY <3>1, <1>0, <1>3, <1>4, GetSessionType DEF WritesFor, UserIn
    <3> QED
      BY <2>1, <3>2
  <2>2. CASE u # t
    BY <1>3, <2>2 DEF SessionInv, OneWriter, WritesFor, UserIn
  <2> QED
    BY <2>1, <2>2
<1> QED
  BY <1>2b, <1>5, <1>6 DEF SessionInv

LEMMA SelectCurrencyStep ==
  ASSUME SessionInv, NEW t \in Tabs, NEW c \in Currencies, SelectCurrency(t, c)
  PROVE SessionInv'
<1> DEFINE session == getSession(t)
           last == [session EXCEPT !.currency = c]
<1>0. page[t].own # 0 /\ page[t].writes = <<>> /\ SessionTypeOK
  BY DEF SelectCurrency, Loaded, Idle, SessionInv
<1> DEFINE new == [page[t] EXCEPT !.currency = c,
                                  !.writes = Append(getSessionWrites(t), last),
                                  !.saw = stored]
<1>1. page' = [page EXCEPT ![t] = new] /\ UNCHANGED <<stored, opened, raced, cleared>>
  BY DEF SelectCurrency
<1>2. last \in Sessions /\ last.user = session.user
  BY <1>0, GetSessionType DEF Sessions
<1> HIDE DEF last
<1>3. /\ Append(getSessionWrites(t), last) \in Seq(Sessions)
      /\ Append(getSessionWrites(t), last) # <<>>
      /\ \A i \in DOMAIN Append(getSessionWrites(t), last) :
           Append(getSessionWrites(t), last)[i].user = session.user
  BY <1>0, <1>2, GetSessionType
<1>3a. page[t] \in Pages /\ page \in [Tabs -> Pages]
  BY <1>0 DEF SessionTypeOK
<1>3b. /\ new \in Pages /\ new.captured = page[t].captured
       /\ new.writes = Append(getSessionWrites(t), last) /\ new.saw = stored
  <2>1. stored \in Sessions \cup {NoSession}
    BY <1>0 DEF SessionTypeOK
  <2> QED
    BY <1>3, <1>3a, <2>1 DEF Pages
<1> HIDE DEF new
<1>4. SessionTypeOK'
  BY <1>0, <1>1, <1>3a, <1>3b DEF SessionTypeOK
<1>5. /\ page'[t].writes = Append(getSessionWrites(t), last) /\ page'[t].saw = stored
      /\ \A u \in Tabs : UsersOf(u)' = UsersOf(u)
      /\ \A u \in Tabs \ {t} : page'[u] = page[u]
  <2>1. page'[t] = new /\ \A u \in Tabs \ {t} : page'[u] = page[u]
    BY <1>1, <1>3a
  <2> QED
    BY <2>1, <1>3b DEF UsersOf
<1>6. OneShopper'
  BY <1>1, <1>3, <1>5 DEF SessionInv, OneShopper, UserIn
<1>7. ASSUME ~raced, ~cleared PROVE \A v \in UsersOf(t) : v = session.user
  BY <1>0, <1>7, IdlePage DEF getSession
<1>8. OneWriter'
  <2> SUFFICES ASSUME ~raced, ~cleared, NEW u \in Tabs, page'[u].writes # <<>>
               PROVE \E user \in 1..MaxUsers : WritesFor(u, user)'
    BY <1>1 DEF OneWriter
  <2>1. CASE u = t
    <3>1. PICK user \in 1..MaxUsers : user = session.user
      BY <1>0, GetSessionType DEF Sessions
    <3>2. WritesFor(t, user)'
      BY <3>1, <1>0, <1>3, <1>5, <1>7, GetSessionType DEF WritesFor, UserIn
    <3> QED
      BY <2>1, <3>2
  <2>2. CASE u # t
    BY <1>5, <2>2 DEF SessionInv, OneWriter, WritesFor, UserIn
  <2> QED
    BY <2>1, <2>2
<1> QED
  BY <1>4, <1>6, <1>8 DEF SessionInv

LEMMA SetItemStep ==
  ASSUME SessionInv, NEW t \in Tabs, SetItem(t)
  PROVE SessionInv'
<1> DEFINE session == Head(page[t].writes)
<1>0. SessionTypeOK /\ page[t].writes \in Seq(Sessions) /\ page[t].writes # <<>>
  BY DEF SetItem, SessionInv, SessionTypeOK, Pages
<1>1. /\ session \in Sessions /\ session = page[t].writes[1]
      /\ Tail(page[t].writes) \in Seq(Sessions)
      /\ 1 \in DOMAIN page[t].writes
      /\ \A i \in DOMAIN Tail(page[t].writes) :
           /\ i + 1 \in DOMAIN page[t].writes
           /\ Tail(page[t].writes)[i] = page[t].writes[i + 1]
  BY <1>0
<1> HIDE DEF session
<1> DEFINE new == [page[t] EXCEPT !.writes = Tail(page[t].writes), !.saw = session]
<1>2. /\ page' = [page EXCEPT ![t] = new]
      /\ stored' = session
      /\ raced' = (raced \/ UserIn(stored) # UserIn(page[t].saw))
      /\ UNCHANGED <<opened, cleared>>
  BY DEF SetItem, session
<1>2a. page[t] \in Pages /\ page \in [Tabs -> Pages]
  BY <1>0 DEF SessionTypeOK
<1>2b. /\ new \in Pages /\ new.captured = page[t].captured
       /\ new.writes = Tail(page[t].writes) /\ new.saw = session
  BY <1>1, <1>2a DEF Pages
<1> HIDE DEF new
<1>3. SessionTypeOK'
  BY <1>0, <1>1, <1>2, <1>2a, <1>2b DEF SessionTypeOK
<1>4. /\ page'[t].writes = Tail(page[t].writes) /\ page'[t].saw = session
      /\ \A u \in Tabs : UsersOf(u)' = UsersOf(u)
      /\ \A u \in Tabs \ {t} : page'[u] = page[u]
  <2>1. page'[t] = new /\ \A u \in Tabs \ {t} : page'[u] = page[u]
    BY <1>2, <1>2a
  <2> QED
    BY <2>1, <1>2b DEF UsersOf
<1>5. UserIn(stored)' = session.user /\ UserIn(page[t].saw)' = session.user
      /\ session.user \in 1..MaxUsers
  BY <1>1, <1>2, <1>4, NoSessionAssumption DEF UserIn, Sessions
<1>6. ASSUME ~raced', ~cleared'
      PROVE /\ ~raced /\ ~cleared
            /\ WritesFor(t, session.user)
            /\ UserIn(stored) \in {0, session.user}
  <2>1. ~raced /\ ~cleared /\ UserIn(stored) = UserIn(page[t].saw)
    BY <1>2, <1>6
  <2>2. PICK user \in 1..MaxUsers : WritesFor(t, user)
    BY <1>0, <2>1 DEF SessionInv, OneWriter
  <2>3. user = session.user
    BY <1>1, <2>2 DEF WritesFor
  <2> QED
    BY <2>1, <2>2, <2>3 DEF WritesFor
<1>7. OneShopper'
  <2> SUFFICES ASSUME ~raced', ~cleared', NEW u \in Tabs, page'[u].writes = <<>>,
                      NEW v \in UsersOf(u)'
               PROVE v = session.user
    BY <1>5 DEF OneShopper
  <2>1. CASE u = t
    BY <1>4, <1>6, <2>1 DEF WritesFor
  <2>2. CASE u # t
    <3>1. v = UserIn(stored) /\ v \in 1..MaxUsers
      BY <1>0, <1>4, <1>6, <2>2, UsersOfType DEF SessionInv, OneShopper
    <3> QED
      BY <1>6, <3>1, MaxUsersAssumption
  <2> QED
    BY <2>1, <2>2
<1>8. OneWriter'
  <2> SUFFICES ASSUME ~raced', ~cleared', NEW u \in Tabs, page'[u].writes # <<>>
               PROVE \E user \in 1..MaxUsers : WritesFor(u, user)'
    BY DEF OneWriter
  <2>1. CASE u = t
    <3>1. PICK user \in 1..MaxUsers : user = session.user
      BY <1>5
    <3>2. WritesFor(t, user)'
      BY <3>1, <1>1, <1>4, <1>5, <1>6 DEF WritesFor
    <3> QED
      BY <2>1, <3>2
  <2>2. CASE u # t
    BY <1>4, <1>6, <2>2 DEF SessionInv, OneWriter, WritesFor, UserIn
  <2> QED
    BY <2>1, <2>2
<1> QED
  BY <1>3, <1>7, <1>8 DEF SessionInv

\* Clearing localStorage ends what is promised.
LEMMA ClearStorageStep ==
  ASSUME SessionInv, ClearStorage
  PROVE SessionInv'
BY DEF ClearStorage, SessionInv, SessionTypeOK, OneShopper, OneWriter

LEMMA UnchangedStep ==
  ASSUME SessionInv, UNCHANGED sessionVars
  PROVE SessionInv'
BY DEF sessionVars, SessionInv, SessionTypeOK, OneShopper, OneWriter, WritesFor,
       UsersOf, UserIn

\* Of the storefront, only what has to do with sessions changes them.
LEMMA ShopNextSession == ShopNext => UNCHANGED sessionVars
BY DEF ShopNext, PressEmpty, PressOrder, PressAdd, Press, Reload, FetchCart, ReadCart,
       ShowCart, FetchFails, ReadToAdd, WriteAdded, EmptyCart, PrepareOrder, Ship,
       EmptyAfterOrder, EmptyFails, Succeed, NotFound, Lose, Failed, Disconnect

LEMMA NextSessionInv == SessionInv /\ [Next]_vars => SessionInv'
<1> SUFFICES ASSUME SessionInv, [Next]_vars PROVE SessionInv'
  OBVIOUS
<1>1. ASSUME NEW t \in Tabs, Open(t) PROVE SessionInv'
  BY <1>1, OpenPageStep DEF Open
<1>2. ASSUME NEW t \in Tabs, Evaluate(t) PROVE SessionInv'
  BY <1>2, CaptureStep DEF Evaluate
<1>3. ASSUME NEW t \in Tabs, SetItemOf(t) PROVE SessionInv'
  BY <1>3, SetItemStep DEF SetItemOf
<1>4. ASSUME NEW t \in Tabs, NEW c \in Currencies, Select(t, c) PROVE SessionInv'
  BY <1>4, SelectCurrencyStep DEF Select
<1>5. CASE Clear
  BY <1>5, ClearStorageStep DEF Clear
<1>6. CASE ShopNext
  BY <1>6, ShopNextSession, UnchangedStep
<1>7. CASE UNCHANGED vars
  BY <1>7, UnchangedStep DEF vars
<1> QED
  BY <1>1, <1>2, <1>3, <1>4, <1>5, <1>6, <1>7 DEF Next, SessionNext

\* The user ids captured by the modules of all pages (Api.gateway.ts:11,
\* Currency.provider.tsx:9, CartDetail.tsx:14) are the stored one, whatever the
\* tabs and the shop do, until two scripts cross or localStorage is cleared.
THEOREM OneShopperHolds == Spec => []OneShopper
<1>1. SessionInv => OneShopper
  BY DEF SessionInv
<1> QED
  BY InitSessionInv, NextSessionInv, <1>1, PTL DEF Spec

-----------------------------------------------------------------------------
(* The shop. *)

\* The user a module captured.
LEMMA CapturedType ==
  ASSUME SessionTypeOK, NEW t \in Tabs, NEW module \in 1..3, Has(t, module)
  PROVE page[t].captured[module].user \in 1..MaxUsers
<1>1. page[t].captured \in Seq(Sessions) /\ module \in DOMAIN page[t].captured
  BY DEF SessionTypeOK, Pages, Has
<1>2. page[t].captured[module] \in Sessions
  BY <1>1
<1> QED
  BY <1>2 DEF Sessions

LEMMA InitShopInv == ShopInit => ShopInv
<1> SUFFICES ASSUME ShopInit PROVE ShopInv
  OBVIOUS
<1> USE MaxUsersAssumption DEF ShopInit, UnderWay, None
<1>1. ShopTypeOK
  BY DEF ShopTypeOK, Quantities, Ledgers
<1>2. LostHasCause
  BY DEF LostHasCause
<1>3. LedgerOK
  BY DEF LedgerOK, UserLedgerOK, Ordering, HasRead, At
<1> QED
  BY <1>1, <1>2, <1>3 DEF ShopInv

\* Nothing is said of the query, the sessions or the history of failures.
LEMMA ShopUnchanged ==
  ASSUME ShopInv, UNCHANGED <<cart, catalogue, press, balance, doubtful>>
  PROVE ShopInv'
BY DEF ShopInv, ShopTypeOK, LostHasCause, LedgerOK, UserLedgerOK, Ordering, HasRead, At, UnderWay

\* The ledger of a user whose orders, additions, cart and balance stay as they
\* are.
LEMMA LedgerKept ==
  ASSUME ShopInv, NEW u \in 1..MaxUsers, UserLedgerOK(u),
         cart'[u] = cart[u], balance'[u] = balance[u],
         \A i \in Slots : Ordering(i, u)' <=> Ordering(i, u),
         \A i \in Slots : Ordering(i, u) => /\ press'[i].status = press[i].status
                                            /\ press'[i].items = press[i].items,
         \A i \in Slots : HasRead(i, u)' => HasRead(i, u) /\ press'[i].copy = press[i].copy
  PROVE UserLedgerOK(u)'
BY DEF UserLedgerOK

LEMMA OpenShop ==
  ASSUME ShopInv, NEW t \in Tabs, Open(t)
  PROVE ShopInv'
<1> USE DEF Open, ShopInv, ShopTypeOK, UnderWay
<1>1. ShopTypeOK'
  <2>1. UNCHANGED <<cart, balance, doubtful>>
    OBVIOUS
  <2>2. press' = [i \in Slots |-> press'[i]]
    OBVIOUS
  <2>3. ASSUME NEW i \in Slots PROVE press'[i] \in PressRecords \cup {NoPress}
    <3>0. press' = [j \in Slots |->
          IF j \in UnderWay /\ t = Watched THEN [press[j] EXCEPT !.heard = FALSE] ELSE press[j]]
      BY ONLY Open(t) DEF Open
    <3>2. press[i] \in PressRecords \cup {NoPress}
      OBVIOUS
    <3>1. CASE i \in UnderWay /\ t = Watched
      <4>1. press'[i] = [press[i] EXCEPT !.heard = FALSE]
        BY ONLY <2>3, <3>0, <3>1
      <4>2. press[i] \in PressRecords
        BY ONLY <3>1, <3>2 DEF UnderWay
      <4> QED
        BY ONLY <4>1, <4>2 DEF PressRecords
    <3>3. CASE ~(i \in UnderWay /\ t = Watched)
      <4>1. press'[i] = press[i]
        BY ONLY <2>3, <3>0, <3>3
      <4> QED
        BY ONLY <4>1, <3>2
    <3> QED
      BY ONLY <3>1, <3>3
  <2>4. press' \in [Slots -> PressRecords \cup {NoPress}]
    BY ONLY <2>2, <2>3
  <2>5. /\ cart \in [1..MaxUsers -> Quantities]
        /\ balance \in Ledgers
        /\ doubtful \subseteq 1..MaxUsers
    OBVIOUS
  <2> QED
    BY ONLY <2>1, <2>4, <2>5 DEF ShopTypeOK
<1>2. ASSUME NEW i \in Slots, press[i] # NoPress
      PROVE /\ press'[i] # NoPress /\ press[i] \in PressRecords
            /\ press'[i].user = press[i].user /\ press'[i].status = press[i].status
            /\ press'[i].items = press[i].items /\ press'[i].kind = press[i].kind
            /\ press'[i].unlisted = press[i].unlisted /\ press'[i].copy = press[i].copy
  BY <1>2, NoPressAssumption DEF PressRecords
<1>3. \A i \in Slots : press[i] = NoPress => press'[i] = NoPress
  OBVIOUS
<1>4. LostHasCause'
  BY <1>2, <1>3 DEF LostHasCause
<1>5. UNCHANGED <<cart, balance, doubtful>>
  OBVIOUS
<1> HIDE DEF Open
<1>6. ASSUME NEW u \in 1..MaxUsers, u \notin doubtful PROVE UserLedgerOK(u)'
  <2>1. UserLedgerOK(u)
    BY <1>6 DEF LedgerOK
  <2>2. ASSUME NEW i \in Slots PROVE Ordering(i, u)' <=> Ordering(i, u)
    BY ONLY <1>2, <1>3, <2>2 DEF Ordering, UnderWay
  <2>3. ASSUME NEW i \in Slots, Ordering(i, u)
        PROVE press'[i].status = press[i].status /\ press'[i].items = press[i].items
    BY ONLY <1>2, <2>3 DEF Ordering, UnderWay
  <2>4. ASSUME NEW i \in Slots, HasRead(i, u)'
        PROVE HasRead(i, u) /\ press'[i].copy = press[i].copy
    BY ONLY <1>2, <1>3, <2>4 DEF HasRead, At, UnderWay
  <2> HIDE DEF ShopInv
  <2> QED
    BY <1>5, <2>1, <2>2, <2>3, <2>4, LedgerKept
<1> QED
  BY <1>1, <1>4, <1>5, <1>6 DEF LedgerOK

\* A new press has done nothing yet.
LEMMA PressShop ==
  ASSUME ShopInv, NEW t \in Tabs, NEW kind \in {"add", "empty", "order"},
         NEW user \in 1..MaxUsers, NEW items \in Quantities, Press(t, kind, user, items)
  PROVE ShopInv'
<1> USE DEF ShopInv, ShopTypeOK, UnderWay
<1>1. PICK i \in Slots \ UnderWay :
        press' = [press EXCEPT ![i] =
          [heard |-> (t = Watched), kind |-> kind, user |-> user, items |-> items,
           copy |-> None, status |-> "sent", unlisted |-> FALSE]]
  BY DEF Press
<1>2. UNCHANGED <<cart, catalogue, balance, doubtful>>
  BY DEF Press
<1>3. ShopTypeOK'
  BY <1>1, <1>2 DEF PressRecords, None, Quantities
<1>4. press'[i].status = "sent" /\ \A j \in Slots \ {i} : press'[j] = press[j]
  BY <1>1
<1>5. LostHasCause'
  BY <1>2, <1>4 DEF LostHasCause
<1>6. LedgerOK'
  <2>1. \A j \in Slots, u \in 1..MaxUsers : Ordering(j, u)' <=> j # i /\ Ordering(j, u)
    BY <1>1, <1>4 DEF Ordering
  <2>1a. \A u \in 1..MaxUsers : ~Ordering(i, u)
    BY <1>1 DEF Ordering
  <2>1b. ASSUME NEW j \in Slots, NEW u \in 1..MaxUsers, HasRead(j, u)'
         PROVE HasRead(j, u) /\ press'[j].copy = press[j].copy
    BY <1>4, <2>1b DEF HasRead, At
  <2>2. ASSUME NEW u \in 1..MaxUsers, u \notin doubtful PROVE UserLedgerOK(u)'
    BY <1>2, <1>4, <2>1, <2>1a, <2>1b, <2>2, LedgerKept DEF LedgerOK, ShopInv
  <2> QED
    BY <1>2, <2>2 DEF LedgerOK
<1> QED
  BY <1>3, <1>5, <1>6

LEMMA ReloadShop ==
  ASSUME ShopInv, NEW products \in {{}, Products}, Reload(products)
  PROVE ShopInv'
<1> USE DEF ShopInv, ShopTypeOK, UnderWay, Reload
<1>1. ShopTypeOK'
  <2>1. UNCHANGED <<cart, balance, doubtful>>
    OBVIOUS
  <2>2. press' = [i \in Slots |-> press'[i]]
    OBVIOUS
  <2>3. ASSUME NEW i \in Slots PROVE press'[i] \in PressRecords \cup {NoPress}
    <3>0. press' = [j \in Slots |->
          IF products = {} /\ j \in UnderWay /\ press[j].kind = "order" /\ press[j].status # "sent"
          THEN [press[j] EXCEPT !.unlisted = TRUE] ELSE press[j]]
      BY ONLY Reload(products) DEF Reload
    <3>2. press[i] \in PressRecords \cup {NoPress}
      OBVIOUS
    <3>1. CASE /\ products = {} /\ i \in UnderWay
            /\ press[i].kind = "order" /\ press[i].status # "sent"
      <4>1. press'[i] = [press[i] EXCEPT !.unlisted = TRUE]
        BY ONLY <2>3, <3>0, <3>1
      <4>2. press[i] \in PressRecords
        BY ONLY <3>1, <3>2 DEF UnderWay
      <4> QED
        BY ONLY <4>1, <4>2 DEF PressRecords
    <3>3. CASE ~(products = {} /\ i \in UnderWay /\ press[i].kind = "order" /\ press[i].status # "sent")
      <4>1. press'[i] = press[i]
        BY ONLY <2>3, <3>0, <3>3
      <4> QED
        BY ONLY <4>1, <3>2
    <3> QED
      BY ONLY <3>1, <3>3
  <2>4. press' \in [Slots -> PressRecords \cup {NoPress}]
    BY ONLY <2>2, <2>3
  <2>5. /\ cart \in [1..MaxUsers -> Quantities]
        /\ balance \in Ledgers
        /\ doubtful \subseteq 1..MaxUsers
    OBVIOUS
  <2> QED
    BY ONLY <2>1, <2>4, <2>5 DEF ShopTypeOK
<1>2. ASSUME NEW i \in Slots, press[i] # NoPress
      PROVE /\ press'[i] # NoPress /\ press[i] \in PressRecords
            /\ press'[i].user = press[i].user /\ press'[i].status = press[i].status
            /\ press'[i].items = press[i].items /\ press'[i].kind = press[i].kind
            /\ press'[i].copy = press[i].copy
            /\ press[i].unlisted => press'[i].unlisted
            /\ products = {} /\ press[i].kind = "order" /\ press[i].status # "sent"
                 => press'[i].unlisted
  BY <1>2, NoPressAssumption DEF PressRecords
<1>3. \A i \in Slots : press[i] = NoPress => press'[i] = NoPress
  OBVIOUS
<1>4. LostHasCause'
  BY <1>2, <1>3 DEF LostHasCause, In
<1>5. ASSUME NEW u \in 1..MaxUsers, u \notin doubtful PROVE UserLedgerOK(u)'
  <2>1. UserLedgerOK(u)
    BY <1>5 DEF LedgerOK
  <2>2. \A i \in Slots : Ordering(i, u)' <=> Ordering(i, u)
    BY <1>2, <1>3 DEF Ordering
  <2>3. ShopInv
    BY DEF ShopInv
  <2>4. ASSUME NEW i \in Slots, HasRead(i, u)'
        PROVE HasRead(i, u) /\ press'[i].copy = press[i].copy
    BY ONLY <1>2, <1>3, <2>4 DEF HasRead, At, UnderWay
  <2> QED
    BY <1>2, <2>1, <2>2, <2>3, <2>4, LedgerKept DEF Ordering
<1> QED
  BY <1>1, <1>4, <1>5 DEF LedgerOK

\* A press under way, and the press at i changed to another or to none.
LEMMA InSlot ==
  ASSUME ShopInv, NEW i \in UnderWay
  PROVE /\ i \in Slots /\ press[i] \in PressRecords /\ press[i].user \in 1..MaxUsers
        /\ press[i].items \in Quantities /\ press[i].copy \in Quantities
        /\ cart[press[i].user] \in Quantities
        /\ balance[press[i].user] \in [Products -> Int]
BY DEF ShopInv, ShopTypeOK, UnderWay, PressRecords, Ledgers

LEMMA OnePress ==
  ASSUME ShopInv, NEW i \in UnderWay, NEW new \in PressRecords \cup {NoPress},
         press' = [press EXCEPT ![i] = new]
  PROVE /\ press' \in [Slots -> PressRecords \cup {NoPress}]
        /\ press'[i] = new /\ \A j \in Slots \ {i} : press'[j] = press[j]
        /\ \A j \in Slots \ {i}, u \in 1..MaxUsers : Ordering(j, u)' <=> Ordering(j, u)
        /\ \A u \in 1..MaxUsers :
             Ordering(i, u)' <=> /\ new # NoPress
                                 /\ new.user = u
                                 /\ new.status \in {"prepared", "shipped"}
BY DEF ShopInv, ShopTypeOK, UnderWay, Ordering

LEMMA OneReader ==
  ASSUME ShopInv, NEW i \in UnderWay, NEW new \in PressRecords \cup {NoPress},
         press' = [press EXCEPT ![i] = new]
  PROVE \A j \in Slots, u \in 1..MaxUsers :
          HasRead(j, u)' =>
            \/ j # i /\ HasRead(j, u) /\ press'[j] = press[j]
            \/ /\ j = i /\ new # NoPress
               /\ new.user = u /\ new.kind = "add" /\ new.status = "read"
<1>1. press'[i] = new /\ \A j \in Slots \ {i} : press'[j] = press[j]
  BY OnePress
<1> QED
  BY <1>1 DEF UnderWay, HasRead, At

\* A step of one press: what is left to show of it concerns its user only.
LEMMA OneSlot ==
  ASSUME ShopInv, NEW i \in UnderWay, NEW new \in PressRecords \cup {NoPress},
         NEW user \in 1..MaxUsers, press[i].user = user,
         press' = [press EXCEPT ![i] = new],
         new # NoPress => new.user = user,
         cart' \in [1..MaxUsers -> Quantities], balance' \in Ledgers,
         \A u \in 1..MaxUsers \ {user} :
           cart'[u] = cart[u] /\ balance'[u] = balance[u],
         doubtful \subseteq doubtful', doubtful' \subseteq 1..MaxUsers,
         UNCHANGED catalogue,
         /\ new # NoPress /\ new.kind = "order" /\ new.status # "sent"
         /\ ~(In(new.items) \subseteq catalogue)
         => new.unlisted,
         user \notin doubtful' => UserLedgerOK(user)'
  PROVE ShopInv'
<1>1. ShopTypeOK'
  BY OnePress DEF ShopTypeOK
<1>2. LostHasCause'
  BY OnePress, InSlot DEF ShopInv, LostHasCause, UnderWay
<1>3. ASSUME NEW u \in 1..MaxUsers, u \notin doubtful', u # user
      PROVE UserLedgerOK(u)'
  <2>1. UserLedgerOK(u)
    BY <1>3 DEF ShopInv, LedgerOK
  <2>2. ~Ordering(i, u) /\ ~Ordering(i, u)'
    <3>1. ~Ordering(i, u)
      BY <1>3 DEF Ordering
    <3>2. Ordering(i, u)' => new # NoPress /\ new.user = u
      BY OnePress
    <3> QED
      BY <1>3, <3>1, <3>2
  <2>3. \A j \in Slots : Ordering(j, u)' <=> Ordering(j, u)
    BY <1>3, <2>2, OnePress
  <2>4. \A j \in Slots : Ordering(j, u) => press'[j] = press[j]
    BY <1>3, <2>2, OnePress
  <2>5. \A j \in Slots : HasRead(j, u)' => HasRead(j, u) /\ press'[j] = press[j]
    <3>1. \A j \in Slots : HasRead(j, u)' =>
            \/ j # i /\ HasRead(j, u) /\ press'[j] = press[j]
            \/ /\ j = i /\ new # NoPress
               /\ new.user = u /\ new.kind = "add" /\ new.status = "read"
      BY OneReader
    <3> QED
      BY <1>3, <3>1
  <2> QED
    BY <1>3, <2>1, <2>3, <2>4, <2>5, LedgerKept
<1> QED
  BY <1>1, <1>2, <1>3 DEF ShopInv, LedgerOK

\* An addition reads the cart.
LEMMA ReadToAddShop ==
  ASSUME ShopInv, NEW i \in Slots, ReadToAdd(i)
  PROVE ShopInv'
<1>1. i \in UnderWay /\ press[i].kind = "add" /\ press[i].status = "sent"
  BY DEF ReadToAdd, At
<1>0. PICK user \in 1..MaxUsers : user = press[i].user
  BY <1>1, InSlot
<1> DEFINE new == [press[i] EXCEPT !.status = "read", !.copy = cart[user]]
<1>2. /\ new \in PressRecords /\ new.user = user /\ new.status = "read" /\ new.kind = "add"
      /\ new.copy = cart[user]
  BY <1>0, <1>1, InSlot DEF PressRecords
<1>3. press' = [press EXCEPT ![i] = new] /\ UNCHANGED <<catalogue, cart, balance, doubtful>>
  BY <1>0 DEF ReadToAdd
<1> HIDE DEF new
<1>4. /\ cart' \in [1..MaxUsers -> Quantities] /\ balance' \in Ledgers
      /\ doubtful' \subseteq 1..MaxUsers
  BY <1>3 DEF ShopInv, ShopTypeOK
<1>5. ASSUME user \notin doubtful' PROVE UserLedgerOK(user)'
  <2>1. UserLedgerOK(user)
    BY <1>3, <1>5 DEF ShopInv, LedgerOK
  <2>2. ~Ordering(i, user) /\ ~Ordering(i, user)'
    BY <1>0, <1>1, <1>2, <1>3, OnePress DEF Ordering
  <2>3. \A j \in Slots : Ordering(j, user)' <=> Ordering(j, user)
    BY <1>0, <1>1, <1>2, <1>3, <2>2, OnePress, InSlot
  <2>4. \A j \in Slots : Ordering(j, user) => press'[j] = press[j]
    BY <1>0, <1>1, <1>2, <1>3, <2>2, OnePress
  <2>5. \A j \in Slots : HasRead(j, user)' =>
          \/ HasRead(j, user) /\ press'[j] = press[j]
          \/ press'[j].copy = cart[user]
    <3>1. press'[i].copy = cart[user]
      BY <1>1, <1>2, <1>3, OnePress
    <3>2. \A j \in Slots : HasRead(j, user)' =>
            j = i \/ (HasRead(j, user) /\ press'[j] = press[j])
      BY <1>1, <1>2, <1>3, OneReader
    <3> QED
      BY <3>1, <3>2
  <2> QED
    BY <1>3, <2>1, <2>3, <2>4, <2>5 DEF UserLedgerOK
<1> QED
  BY <1>0, <1>1, <1>2, <1>3, <1>4, <1>5, OneSlot

\* What is added is added to the balance; so was what is written back with it,
\* unless an order has emptied the cart since it was read.
LEMMA WriteAddedShop ==
  ASSUME ShopInv, NEW i \in Slots, WriteAdded(i)
  PROVE ShopInv'
<1> DEFINE items == press[i].items
           copy == press[i].copy
           new == [press[i] EXCEPT !.status = "added", !.copy = None]
<1>1. i \in UnderWay /\ press[i].kind = "add" /\ press[i].status \in {"read", "outdated"}
  BY DEF WriteAdded, At
<1>0. PICK user \in 1..MaxUsers : user = press[i].user
  BY <1>1, InSlot
<1>2. new \in PressRecords /\ new.user = user /\ new.status = "added" /\ new.kind = "add"
  BY <1>0, <1>1, InSlot DEF PressRecords, None, Quantities
<1>3. /\ press' = [press EXCEPT ![i] = new] /\ UNCHANGED catalogue
      /\ cart' = [cart EXCEPT ![user] = Plus(copy, items)]
      /\ balance' = [balance EXCEPT ![user] = Plus(balance[user], items)]
      /\ doubtful' = IF press[i].status = "outdated" THEN doubtful \cup {user} ELSE doubtful
  BY <1>0 DEF WriteAdded
<1> HIDE DEF new
<1>4. /\ Plus(copy, items) \in Quantities
      /\ Plus(balance[user], items) \in [Products -> Int]
      /\ items \in Quantities /\ copy \in Quantities
  BY <1>0, <1>1, InSlot DEF Plus, Quantities
<1>5. /\ cart' \in [1..MaxUsers -> Quantities] /\ balance' \in Ledgers
      /\ cart'[user] = Plus(copy, items) /\ balance'[user] = Plus(balance[user], items)
      /\ \A u \in 1..MaxUsers \ {user} : cart'[u] = cart[u] /\ balance'[u] = balance[u]
  BY <1>0, <1>1, <1>3, <1>4, InSlot DEF ShopInv, ShopTypeOK, Ledgers
<1>6. doubtful \subseteq doubtful' /\ doubtful' \subseteq 1..MaxUsers
  BY <1>3 DEF ShopInv, ShopTypeOK
<1>7. ASSUME user \notin doubtful' PROVE UserLedgerOK(user)'
  <2>1. UserLedgerOK(user) /\ press[i].status = "read"
    BY <1>0, <1>1, <1>3, <1>7, InSlot DEF ShopInv, LedgerOK
  <2>2. HasRead(i, user)
    BY <1>0, <1>1, <2>1 DEF HasRead, At
  <2>3. ~Ordering(i, user) /\ ~Ordering(i, user)'
    BY <1>0, <1>1, <1>2, <1>3, OnePress DEF Ordering
  <2>4. \A j \in Slots : Ordering(j, user)' <=> Ordering(j, user)
    BY <1>0, <1>1, <1>2, <1>3, <2>3, OnePress, InSlot
  <2>5. \A j \in Slots : Ordering(j, user) => press'[j] = press[j]
    BY <1>0, <1>1, <1>2, <1>3, <2>3, OnePress
  <2>6. \A j \in Slots : HasRead(j, user)' => HasRead(j, user) /\ press'[j] = press[j]
    BY <1>0, <1>1, <1>2, <1>3, OneReader
  <2>7. \A p \in Products : /\ cart'[user][p] = copy[p] + items[p]
                            /\ balance'[user][p] = balance[user][p] + items[p]
                            /\ items[p] \in Nat
                            /\ copy[p] \in Int /\ balance[user][p] \in Int
    BY <1>0, <1>1, <1>4, <1>5, InSlot DEF Plus, Quantities
  <2>8. \A j \in Slots, p \in Products :
          Ordering(j, user) \/ HasRead(j, user) =>
            press[j].items[p] \in Int /\ press[j].copy[p] \in Int
    BY InSlot DEF Ordering, HasRead, At, Quantities
  <2>9. (\A j \in Slots : Ordering(j, user) => press[j].status # "shipped")
          => \A p \in Products : copy[p] <= balance[user][p]
    BY <2>1, <2>2 DEF UserLedgerOK
  <2> HIDE DEF items, copy
  <2> QED
    BY <2>1, <2>4, <2>5, <2>6, <2>7, <2>8, <2>9 DEF UserLedgerOK
<1> QED
  BY <1>0, <1>1, <1>2, <1>3, <1>5, <1>7, <1>6, OneSlot

\* The cart is emptied by the shopper.
LEMMA EmptyCartShop ==
  ASSUME ShopInv, NEW i \in Slots, EmptyCart(i)
  PROVE ShopInv'
<1> DEFINE new == [press[i] EXCEPT !.status = "emptied"]
<1>1. i \in UnderWay /\ press[i].kind = "empty" /\ press[i].status = "sent"
  BY DEF EmptyCart, At
<1>0. PICK user \in 1..MaxUsers : user = press[i].user
  BY <1>1, InSlot
<1>2. /\ new \in PressRecords /\ new.user = user /\ new.status = "emptied"
      /\ new.kind = "empty"
  BY <1>0, <1>1, InSlot DEF PressRecords
<1>3. /\ press' = [press EXCEPT ![i] = new] /\ UNCHANGED <<catalogue, balance, doubtful>>
      /\ cart' = [cart EXCEPT ![user] = None]
  BY <1>0 DEF EmptyCart, GoOn
<1> HIDE DEF new
<1>4. /\ cart' \in [1..MaxUsers -> Quantities] /\ balance' \in Ledgers
      /\ cart'[user] = None /\ balance'[user] = balance[user]
      /\ \A u \in 1..MaxUsers \ {user} : cart'[u] = cart[u] /\ balance'[u] = balance[u]
      /\ doubtful' = doubtful /\ doubtful \subseteq 1..MaxUsers
  BY <1>0, <1>1, <1>3, InSlot DEF ShopInv, ShopTypeOK, Ledgers, None, Quantities
<1>5. ASSUME user \notin doubtful' PROVE UserLedgerOK(user)'
  <2>1. UserLedgerOK(user)
    BY <1>0, <1>1, <1>3, <1>5, InSlot DEF ShopInv, LedgerOK
  <2>2. ~Ordering(i, user) /\ ~Ordering(i, user)'
    BY <1>0, <1>1, <1>2, <1>3, OnePress, InSlot DEF Ordering
  <2>3. \A j \in Slots : /\ Ordering(j, user)' <=> Ordering(j, user)
                         /\ Ordering(j, user) => press'[j] = press[j]
    BY <1>0, <1>1, <1>2, <1>3, <2>2, OnePress, InSlot
  <2>4. \A p \in Products : cart'[user][p] = 0
    BY <1>4 DEF None
  <2>5. \A j \in Slots : HasRead(j, user)' => HasRead(j, user) /\ press'[j] = press[j]
    BY <1>0, <1>1, <1>2, <1>3, OneReader
  <2> QED
    BY <1>4, <2>1, <2>3, <2>4, <2>5 DEF UserLedgerOK
<1> QED
  BY <1>0, <1>1, <1>2, <1>3, <1>4, <1>5, OneSlot

\* What EmptyAfterOrder does to the presses: the order's own goes on, the
\* additions of its user that had read the cart are outdated, and nothing else
\* about any press changes.
LEMMA EmptiedPresses ==
  ASSUME ShopInv, NEW i \in Slots, EmptyAfterOrder(i)
  PROVE  /\ i \in UnderWay /\ press[i].kind = "order" /\ press[i].status = "shipped"
         /\ press[i].user \in 1..MaxUsers
         /\ press' \in [Slots -> PressRecords \cup {NoPress}]
         /\ press'[i] \in PressRecords /\ press'[i].status = "emptied"
         /\ \A j \in Slots : press[j] = NoPress => press'[j] = NoPress
         /\ \A j \in Slots : press[j] # NoPress =>
              /\ press'[j] # NoPress
              /\ press'[j].user = press[j].user /\ press'[j].kind = press[j].kind
              /\ press'[j].items = press[j].items /\ press'[j].copy = press[j].copy
              /\ press'[j].unlisted = press[j].unlisted /\ press'[j].heard = press[j].heard
              /\ \/ press'[j].status = press[j].status /\ j # i
                    /\ ~(HasRead(j, press[i].user))
                 \/ press'[j].status = "emptied" /\ j = i
                 \/ press'[j].status = "outdated" /\ HasRead(j, press[i].user)
<1>1. /\ i \in UnderWay /\ press[i].kind = "order" /\ press[i].status = "shipped"
      /\ press' = [j \in Slots |->
           IF j = i THEN [press[j] EXCEPT !.status = "emptied"]
           ELSE IF HasRead(j, press[i].user) THEN [press[j] EXCEPT !.status = "outdated"]
           ELSE press[j]]
  BY DEF EmptyAfterOrder, At, HasRead
<1>2. press \in [Slots -> PressRecords \cup {NoPress}] /\ NoPress \notin PressRecords
  BY NoPressAssumption DEF ShopInv, ShopTypeOK
<1>3. \A j \in Slots : HasRead(j, press[i].user) => press[j] # NoPress /\ press[j].status = "read"
  BY DEF HasRead, At, UnderWay
<1>4. ASSUME NEW j \in Slots, press[j] # NoPress,
             NEW status \in {"emptied", "outdated"}, press'[j] = [press[j] EXCEPT !.status = status]
      PROVE  /\ press'[j] \in PressRecords /\ press'[j].status = status
             /\ press'[j].user = press[j].user /\ press'[j].kind = press[j].kind
             /\ press'[j].items = press[j].items /\ press'[j].copy = press[j].copy
             /\ press'[j].unlisted = press[j].unlisted /\ press'[j].heard = press[j].heard
  BY <1>2, <1>4 DEF PressRecords
<1>5. press[i] # NoPress
  BY <1>1 DEF UnderWay
<1>6. press'[i] \in PressRecords /\ press'[i].status = "emptied"
  BY <1>1, <1>4, <1>5
<1>7. ASSUME NEW j \in Slots
      PROVE  /\ press'[j] \in PressRecords \cup {NoPress}
             /\ press[j] = NoPress => press'[j] = NoPress
             /\ press[j] # NoPress =>
                  /\ press'[j] # NoPress
                  /\ press'[j].user = press[j].user /\ press'[j].kind = press[j].kind
                  /\ press'[j].items = press[j].items /\ press'[j].copy = press[j].copy
                  /\ press'[j].unlisted = press[j].unlisted /\ press'[j].heard = press[j].heard
                  /\ \/ press'[j].status = press[j].status /\ j # i
                        /\ ~(HasRead(j, press[i].user))
                     \/ press'[j].status = "emptied" /\ j = i
                     \/ press'[j].status = "outdated" /\ HasRead(j, press[i].user)
  <2>1. CASE j = i
    BY <1>1, <1>2, <1>4, <1>5, <2>1
  <2>2. CASE j # i /\ HasRead(j, press[i].user)
    BY <1>1, <1>2, <1>3, <1>4, <2>2
  <2>3. CASE j # i /\ ~HasRead(j, press[i].user)
    BY <1>1, <1>2, <2>3
  <2> QED
    BY <2>1, <2>2, <2>3
<1>8. press' \in [Slots -> PressRecords \cup {NoPress}]
  BY <1>1, <1>7
<1> QED
  BY <1>1, <1>6, <1>7, <1>8, InSlot

\* An order that was shipped empties the cart.
LEMMA EmptyAfterOrderShop ==
  ASSUME ShopInv, NEW i \in Slots, EmptyAfterOrder(i)
  PROVE ShopInv'
<1> USE EmptiedPresses
<1>0. PICK user \in 1..MaxUsers : user = press[i].user
  OBVIOUS
<1>1. /\ UNCHANGED <<catalogue, balance, doubtful>>
      /\ cart' = [cart EXCEPT ![user] = None]
  BY <1>0 DEF EmptyAfterOrder
<1>2. /\ cart' \in [1..MaxUsers -> Quantities]
      /\ cart'[user] = None /\ \A u \in 1..MaxUsers \ {user} : cart'[u] = cart[u]
  BY <1>1 DEF ShopInv, ShopTypeOK, None, Quantities
<1>3. ShopTypeOK'
  BY <1>1, <1>2 DEF ShopInv, ShopTypeOK
<1>4. LostHasCause'
  <2> SUFFICES ASSUME NEW j \in Slots, press'[j] # NoPress, press'[j].kind = "order",
                      press'[j].status # "sent", ~(In(press'[j].items) \subseteq catalogue)
               PROVE press'[j].unlisted
    BY <1>1 DEF LostHasCause, UnderWay
  <2>1. /\ j \in UnderWay /\ press[j].kind = "order" /\ press[j].items = press'[j].items
        /\ press'[j].unlisted = press[j].unlisted
    BY DEF UnderWay
  <2>2. press[j].status # "sent"
    BY <2>1 DEF HasRead, At
  <2> QED
    BY <2>1, <2>2 DEF ShopInv, LostHasCause
<1>5. \A j \in Slots, u \in 1..MaxUsers : Ordering(j, u)' <=> j # i /\ Ordering(j, u)
  BY DEF Ordering, UnderWay, HasRead, At
<1>6. \A j \in Slots, u \in 1..MaxUsers : Ordering(j, u) /\ j # i =>
        press'[j].status = press[j].status /\ press'[j].items = press[j].items
  BY DEF Ordering, UnderWay, HasRead, At
<1>7. \A j \in Slots, u \in 1..MaxUsers : HasRead(j, u)' =>
        /\ HasRead(j, u) /\ u # user
        /\ press'[j].copy = press[j].copy
  BY <1>0 DEF HasRead, At, UnderWay
<1>8. ASSUME NEW u \in 1..MaxUsers, u \notin doubtful PROVE UserLedgerOK(u)'
  <2>1. UserLedgerOK(u)
    BY <1>8 DEF ShopInv, LedgerOK
  <2>2. CASE u # user
    <3>1. ~Ordering(i, u)
      BY <1>0, <2>2 DEF Ordering
    <3> QED
      BY <1>1, <1>2, <1>5, <1>6, <1>7, <2>1, <2>2, <3>1, LedgerKept
  <2>3. CASE u = user
    <3>1. \A p \in Products : cart'[u][p] = 0
      BY <1>2, <2>3 DEF None
    <3>2. \A j \in Slots : ~HasRead(j, u)'
      BY <1>7, <2>3
    <3> QED
      BY <1>1, <1>5, <1>6, <2>1, <3>1, <3>2 DEF UserLedgerOK
  <2> QED
    BY <2>2, <2>3
<1> QED
  BY <1>1, <1>3, <1>4, <1>8 DEF ShopInv, LedgerOK

\* An order reads the cart: of a user not in doubt, no other order has.
LEMMA PrepareOrderShop ==
  ASSUME ShopInv, NEW i \in Slots, PrepareOrder(i)
  PROVE ShopInv'
<1>1. i \in UnderWay /\ press[i].kind = "order" /\ press[i].status = "sent"
  BY DEF PrepareOrder, At
<1>0. PICK user \in 1..MaxUsers : user = press[i].user
  BY <1>1, InSlot
<1> DEFINE new == [press[i] EXCEPT !.status = "prepared", !.items = cart[user]]
<1>2. /\ new \in PressRecords /\ new.user = user /\ new.status = "prepared"
      /\ new.items = cart[user] /\ new.kind = "order"
  BY <1>0, <1>1, InSlot DEF PressRecords
<1>3. /\ press' = [press EXCEPT ![i] = new] /\ UNCHANGED <<catalogue, balance, cart>>
      /\ In(cart[user]) \subseteq catalogue
  BY <1>0 DEF PrepareOrder
<1>4. /\ doubtful \subseteq doubtful' /\ doubtful' \subseteq 1..MaxUsers
      /\ user \notin doubtful' => \A j \in Slots : ~Ordering(j, user)
  BY <1>0 DEF PrepareOrder, ShopInv, ShopTypeOK, Ordering
<1>5. cart' \in [1..MaxUsers -> Quantities] /\ balance' \in Ledgers
  BY <1>3 DEF ShopInv, ShopTypeOK
<1> HIDE DEF new
<1>6. ASSUME user \notin doubtful' PROVE UserLedgerOK(user)'
  <2>1. UserLedgerOK(user)
    BY <1>4, <1>6 DEF ShopInv, LedgerOK
  <2>2. \A j \in Slots : ~Ordering(j, user)
    BY <1>4, <1>6
  <2>3. \A j \in Slots : Ordering(j, user)' => j = i
    BY <1>0, <1>1, <1>2, <1>3, <2>2, OnePress
  <2>4. press'[i].items = cart[user]
    BY <1>1, <1>2, <1>3, OnePress
  <2>5. \A p \in Products : cart[user][p] <= balance[user][p]
    BY <2>1, <2>2 DEF UserLedgerOK
  <2>6. \A j \in Slots : HasRead(j, user)' => HasRead(j, user) /\ press'[j] = press[j]
    BY <1>1, <1>2, <1>3, OneReader
  <2> QED
    BY <1>3, <2>1, <2>2, <2>3, <2>4, <2>5, <2>6 DEF UserLedgerOK
<1> QED
  BY <1>0, <1>1, <1>2, <1>3, <1>4, <1>5, <1>6, OneSlot

\* What is shipped was in the balance.
LEMMA ShipShop ==
  ASSUME ShopInv, NEW i \in Slots, Ship(i)
  PROVE ShopInv'
<1>1. i \in UnderWay /\ press[i].kind = "order" /\ press[i].status = "prepared"
  BY DEF Ship, At
<1>0. PICK user \in 1..MaxUsers : user = press[i].user
  BY <1>1, InSlot
<1> DEFINE new == [press[i] EXCEPT !.status = "shipped"]
           items == press[i].items
<1>2. /\ new \in PressRecords /\ new.user = user /\ new.status = "shipped"
      /\ new.kind = "order" /\ new.items = items /\ new.unlisted = press[i].unlisted
  BY <1>0, <1>1, InSlot DEF PressRecords
<1>3. /\ press' = [press EXCEPT ![i] = new] /\ UNCHANGED <<catalogue, cart, doubtful>>
      /\ balance' = [balance EXCEPT ![user] = Minus(balance[user], items)]
  BY <1>0 DEF Ship, GoOn
<1> HIDE DEF new
<1>4. Minus(balance[user], items) \in [Products -> Int] /\ items \in Quantities
  BY <1>0, <1>1, InSlot DEF Minus, Quantities
<1>5. /\ cart' \in [1..MaxUsers -> Quantities] /\ balance' \in Ledgers
      /\ balance'[user] = Minus(balance[user], items)
      /\ \A u \in 1..MaxUsers \ {user} : cart'[u] = cart[u] /\ balance'[u] = balance[u]
      /\ doubtful' = doubtful /\ doubtful \subseteq 1..MaxUsers
  BY <1>3, <1>4 DEF ShopInv, ShopTypeOK, Ledgers
<1>6. ASSUME user \notin doubtful' PROVE UserLedgerOK(user)'
  <2>1. UserLedgerOK(user)
    BY <1>5, <1>6 DEF ShopInv, LedgerOK
  <2>2. Ordering(i, user)
    BY <1>0, <1>1 DEF Ordering
  <2>3. \A j \in Slots : Ordering(j, user)' => j = i
    BY <1>0, <1>1, <1>2, <1>3, <2>1, <2>2, OnePress DEF UserLedgerOK
  <2>4. Ordering(i, user)' /\ press'[i].status = "shipped"
    BY <1>0, <1>1, <1>2, <1>3, OnePress, NoPressAssumption
  <2>5. \A p \in Products : items[p] <= balance[user][p]
    BY <1>1, <2>1, <2>2 DEF UserLedgerOK
  <2>6. \A p \in Products : /\ balance'[user][p] = balance[user][p] - items[p]
                            /\ balance[user][p] \in Int /\ items[p] \in Int
    BY <1>0, <1>1, <1>4, <1>5, InSlot DEF Minus, Quantities
  <2>7. \A p \in Products : balance'[user][p] >= 0
    BY ONLY <2>5, <2>6
  <2> QED
    BY <2>3, <2>4, <2>7 DEF UserLedgerOK
<1>7. /\ new.kind = "order" /\ new.status # "sent" /\ ~(In(new.items) \subseteq catalogue)
      => new.unlisted
  BY <1>1, <1>2 DEF ShopInv, LostHasCause
<1> QED
  BY <1>0, <1>1, <1>2, <1>3, <1>5, <1>6, <1>7, OneSlot

LEMMA EmptyFailsShop ==
  ASSUME ShopInv, NEW i \in Slots, EmptyFails(i)
  PROVE ShopInv'
<1>1. i \in UnderWay /\ press[i].kind = "order" /\ press[i].status = "shipped"
  BY DEF EmptyFails, At
<1>0. PICK user \in 1..MaxUsers : user = press[i].user
  BY <1>1, InSlot
<1> DEFINE new == [press[i] EXCEPT !.status = "emptied"]
<1>2. /\ new \in PressRecords /\ new.user = user /\ new.items = press[i].items
      /\ new.unlisted = press[i].unlisted
  BY <1>0, <1>1, InSlot DEF PressRecords
<1>3. /\ press' = [press EXCEPT ![i] = new] /\ UNCHANGED <<catalogue, cart, balance>>
      /\ doubtful' = doubtful \cup {user}
  BY <1>0 DEF EmptyFails, GoOn
<1> HIDE DEF new
<1>4. /\ cart' \in [1..MaxUsers -> Quantities] /\ balance' \in Ledgers
      /\ doubtful' \subseteq 1..MaxUsers
  BY <1>3 DEF ShopInv, ShopTypeOK
<1>5. /\ new.kind = "order" /\ new.status # "sent" /\ ~(In(new.items) \subseteq catalogue)
      => new.unlisted
  BY <1>1, <1>2 DEF ShopInv, LostHasCause
<1> QED
  BY <1>0, <1>1, <1>2, <1>3, <1>4, <1>5, OneSlot

\* The watched page no longer hears the answer.
LEMMA DisconnectShop ==
  ASSUME ShopInv, NEW i \in Slots, Disconnect(i)
  PROVE ShopInv'
<1> DEFINE new == [press[i] EXCEPT !.heard = FALSE]
<1>1. i \in UnderWay /\ press' = [press EXCEPT ![i] = new]
      /\ UNCHANGED <<catalogue, cart, balance, doubtful>>
  BY DEF Disconnect
<1>0. PICK user \in 1..MaxUsers : user = press[i].user
  BY <1>1, InSlot
<1>2. /\ new \in PressRecords /\ new.user = user /\ new.items = press[i].items
      /\ new.status = press[i].status /\ new.kind = press[i].kind
      /\ new.unlisted = press[i].unlisted /\ new.copy = press[i].copy
  BY <1>0, <1>1, InSlot DEF PressRecords
<1> HIDE DEF new
<1>3. /\ cart' \in [1..MaxUsers -> Quantities] /\ balance' \in Ledgers
      /\ doubtful' \subseteq 1..MaxUsers
  BY <1>1 DEF ShopInv, ShopTypeOK
<1>4. ASSUME user \notin doubtful' PROVE UserLedgerOK(user)'
  <2>1. UserLedgerOK(user)
    BY <1>1, <1>4 DEF ShopInv, LedgerOK
  <2>2. press'[i] = new /\ \A j \in Slots \ {i} : press'[j] = press[j]
    BY <1>1, <1>2, OnePress
  <2>3. \A j \in Slots : j \in UnderWay' <=> j \in UnderWay
    BY <1>1, <1>2, <2>2, NoPressAssumption DEF UnderWay
  <2>4. \A j \in Slots : press'[j].user = press[j].user /\ press'[j].kind = press[j].kind
                        /\ press'[j].status = press[j].status
    BY <1>0, <1>2, <2>2
  <2>5. \A j \in Slots : Ordering(j, user)' <=> Ordering(j, user)
    BY <2>3, <2>4 DEF Ordering
  <2>6. \A j \in Slots : HasRead(j, user)' <=> HasRead(j, user)
    BY <2>3, <2>4 DEF HasRead, At
  <2>7. \A j \in Slots : /\ press'[j].status = press[j].status /\ press'[j].items = press[j].items
                         /\ press'[j].copy = press[j].copy
    BY <1>2, <2>2
  <2> QED
    BY <1>1, <2>1, <2>5, <2>6, <2>7, LedgerKept
<1>5. /\ new.kind = "order" /\ new.status # "sent" /\ ~(In(new.items) \subseteq catalogue)
      => new.unlisted
  BY <1>1, <1>2 DEF ShopInv, LostHasCause
<1> QED
  BY <1>0, <1>1, <1>2, <1>3, <1>4, <1>5, OneSlot

\* A press is answered, or lost: a user whose order was shipped and whose cart
\* was not emptied is in doubt.
LEMMA SettleShop ==
  ASSUME ShopInv, NEW i \in UnderWay, Settle(i), UNCHANGED <<catalogue, cart, balance>>,
         doubtful' = IF press[i].status = "shipped" THEN doubtful \cup {press[i].user}
                                                    ELSE doubtful
  PROVE ShopInv'
<1>0. PICK user \in 1..MaxUsers : user = press[i].user
  BY InSlot
<1>1. press' = [press EXCEPT ![i] = NoPress]
  BY DEF Settle
<1>2. /\ cart' \in [1..MaxUsers -> Quantities] /\ balance' \in Ledgers
      /\ doubtful \subseteq doubtful' /\ doubtful' \subseteq 1..MaxUsers
  BY <1>0 DEF ShopInv, ShopTypeOK
<1>3. ASSUME user \notin doubtful' PROVE UserLedgerOK(user)'
  <2>1. UserLedgerOK(user) /\ press[i].status # "shipped"
    BY <1>0, <1>2, <1>3 DEF ShopInv, LedgerOK
  <2>2. ~Ordering(i, user)'
    BY <1>1, OnePress
  <2>3. \A j \in Slots \ {i} : Ordering(j, user)' <=> Ordering(j, user)
    BY <1>1, OnePress
  <2>4. \A j \in Slots \ {i} : press'[j] = press[j]
    BY <1>1, OnePress
  <2>5. \A j \in Slots : HasRead(j, user)' => HasRead(j, user) /\ press'[j] = press[j]
    BY <1>1, OneReader
  <2>6. CASE \A j \in Slots : Ordering(j, user)' => press'[j].status # "shipped"
    <3>1. \A j \in Slots : Ordering(j, user) => press[j].status # "shipped"
      BY <2>1, <2>3, <2>4, <2>6
    <3> QED
      BY <1>2, <2>1, <2>2, <2>3, <2>4, <2>5, <3>1 DEF UserLedgerOK
  <2>7. CASE ~(\A j \in Slots : Ordering(j, user)' => press'[j].status # "shipped")
    BY <2>1, <2>2, <2>3, <2>4, <2>7 DEF UserLedgerOK
  <2> QED
    BY <2>6, <2>7
<1> QED
  BY <1>0, <1>1, <1>2, <1>3, OneSlot

-----------------------------------------------------------------------------

LEMMA PressesShop ==
  ASSUME ShopInv, SessionInv, NEW t \in Tabs,
         PressEmpty(t) \/ PressOrder(t) \/ \E p \in Products : PressAdd(t, p)
  PROVE ShopInv'
<1>0. SessionTypeOK
  BY DEF SessionInv
<1>1. None \in Quantities /\ \A p \in Products : One(p) \in Quantities
  BY DEF None, One, Quantities
<1>2. CASE PressEmpty(t) \/ PressOrder(t)
  <2>1. Has(t, 1) /\ Has(t, 3)
    BY <1>0, <1>2 DEF PressEmpty, PressOrder, CanUseCart, Has, CartDetail, SessionTypeOK, Pages
  <2>2. \A module \in {1, 3} : page[t].captured[module].user \in 1..MaxUsers
    BY <1>0, <2>1, CapturedType
  <2> QED
    BY <1>1, <1>2, <2>2, PressShop DEF PressEmpty, PressOrder, ApiGateway, CartDetail
<1>3. ASSUME NEW p \in Products, PressAdd(t, p) PROVE ShopInv'
  <2>1. Has(t, 1)
    BY <1>0, <1>3 DEF PressAdd, Loaded, Has, CurrencyProvider, SessionTypeOK, Pages
  <2>2. page[t].captured[1].user \in 1..MaxUsers
    BY <1>0, <2>1, CapturedType
  <2> QED
    BY <1>1, <1>3, <2>2, PressShop DEF PressAdd, ApiGateway
<1> QED
  BY <1>2, <1>3

LEMMA NextShopInv == SessionInv /\ ShopInv /\ [Next]_vars => ShopInv'
<1> SUFFICES ASSUME SessionInv, ShopInv, [Next]_vars PROVE ShopInv'
  OBVIOUS
<1>1. ASSUME NEW t \in Tabs, Open(t) PROVE ShopInv'
  BY <1>1, OpenShop
<1>2. ASSUME NEW t \in Tabs, Evaluate(t) \/ SetItemOf(t) PROVE ShopInv'
  BY <1>2, ShopUnchanged DEF Evaluate, SetItemOf, shopVars
<1>3. ASSUME NEW t \in Tabs, NEW c \in Currencies, Select(t, c) PROVE ShopInv'
  BY <1>3, ShopUnchanged DEF Select
<1>4. CASE Clear
  BY <1>4, ShopUnchanged DEF Clear, shopVars
<1>5. ASSUME NEW t \in Tabs,
             PressEmpty(t) \/ PressOrder(t) \/ \E p \in Products : PressAdd(t, p)
      PROVE ShopInv'
  BY <1>5, PressesShop
<1>6. ASSUME NEW products \in {{}, Products}, Reload(products) PROVE ShopInv'
  BY <1>6, ReloadShop
<1>7. CASE FetchCart
  BY <1>7, ShopUnchanged DEF FetchCart
<1>8. ASSUME NEW c \in Currencies, ReadCart(c) \/ ShowCart(c) \/ FetchFails(c)
      PROVE ShopInv'
  BY <1>8, ShopUnchanged DEF ReadCart, ShowCart, FetchFails
<1>9. ASSUME NEW i \in Slots,
             \/ ReadToAdd(i) \/ WriteAdded(i) \/ EmptyCart(i) \/ PrepareOrder(i) \/ Ship(i)
             \/ EmptyAfterOrder(i) \/ EmptyFails(i) \/ Disconnect(i)
      PROVE ShopInv'
  BY <1>9, ReadToAddShop, WriteAddedShop, EmptyCartShop, PrepareOrderShop, ShipShop,
     EmptyAfterOrderShop, EmptyFailsShop, DisconnectShop
<1>10. ASSUME NEW i \in Slots, Succeed(i) \/ NotFound(i) \/ Lose(i) PROVE ShopInv'
  <2>1. i \in UnderWay
    BY <1>10 DEF Succeed, NotFound, Lose, Done, At
  <2>2. Settle(i) /\ UNCHANGED <<catalogue, cart, balance>>
    BY <1>10 DEF Succeed, NotFound, Lose, Failed
  <2>3. doubtful' = IF press[i].status = "shipped" THEN doubtful \cup {press[i].user}
                                                   ELSE doubtful
    BY <1>10 DEF Succeed, NotFound, Lose, Done, At
  <2> QED
    BY <2>1, <2>2, <2>3, SettleShop
<1>11. CASE UNCHANGED vars
  BY <1>11, ShopUnchanged DEF vars, shopVars
<1> QED
  BY <1>1, <1>2, <1>3, <1>4, <1>5, <1>6, <1>7, <1>8, <1>9, <1>10, <1>11
  DEF Next, SessionNext, ShopNext

LEMMA ShopAlways == Spec => []ShopInv
<1>1. Init => SessionInv /\ ShopInv
  BY InitSessionInv, InitShopInv DEF Init
<1> QED
  BY <1>1, NextSessionInv, NextShopInv, PTL DEF Spec

\* Pressing "Place Order" twice, in one tab or in several, ships nothing that was
\* not put into the cart (CartDetail.tsx:33, PlaceOrder's emptyUserCart), unless
\* the second order was prepared before the first had emptied the cart, emptying
\* it failed, or AddItemAsync wrote back a cart that it had read before.
THEOREM NothingShippedUnadded == Spec => []ShippedOnce
<1>1. ShopInv => ShippedOnce
  BY DEF ShopInv, LedgerOK, UserLedgerOK, ShippedOnce
<1> QED
  BY <1>1, ShopAlways, PTL

\* The answer to an order that was shipped fails for want of a product
\* (pages/api/checkout.ts:20) only when the catalogue was lost meanwhile.
THEOREM HiddenOnlyByLoss == Spec => []HiddenOrderHasCause
<1>1. ShopInv => HiddenOrderHasCause
  BY DEF ShopInv, LostHasCause, HiddenOrderHasCause, At
<1> QED
  BY <1>1, ShopAlways, PTL

-----------------------------------------------------------------------------
(* The view. *)

Answered == Quantities \cup {NoData}
Queries == [data : Answered, fetch : {"idle", "asked", "read"}, answer : Answered]

\* A page that has not read its currency has asked for nothing, and nothing it
\* did is under way.
AsksWhenLoaded ==
  ~Has(Watched, CurrencyProvider) =>
    /\ \A c \in Currencies : query[c] = Unasked
    /\ \A i \in UnderWay : ~Mine(i)

\* A press has changed a cart and its answer is to come: then the page asks anew
\* or is excused.
Owed == \E i \in UnderWay : Mine(i) /\ press[i].status \in {"added", "emptied"}

\* What a query shows, and what it is about to show, is what the cart holds.
UpToDate(q, items) ==
  /\ q.fetch = "idle" /\ q.data # NoData => q.data = items
  /\ q.fetch = "read" => q.answer = items

ViewKept ==
  /\ page[Watched].captured # <<>>
  /\ ~excused /\ ~Owed
  => UpToDate(query[Currency], cart[Api])

ViewInv ==
  /\ query \in [Currencies -> Queries]
  /\ AsksWhenLoaded
  /\ ViewKept

LEMMA InitViewInv == Init => ViewInv
<1> SUFFICES ASSUME Init PROVE ViewInv
  OBVIOUS
<1>1. query = [c \in Currencies |-> Unasked] /\ UnderWay = {}
  BY DEF Init, ShopInit, UnderWay
<1>2. Unasked \in Queries
  BY DEF Unasked, Queries, Answered
<1>3. page[Watched].captured = <<>>
  BY WatchedAssumption DEF Init, SessionInit, Blank
<1> QED
  BY <1>1, <1>2, <1>3 DEF ViewInv, AsksWhenLoaded, ViewKept

\* What a fetch, a restart of one and the queries of a page are.
LEMMA WatchedPage ==
  ASSUME SessionTypeOK
  PROVE  /\ page[Watched] \in Pages /\ Currency \in Currencies
         /\ page[Watched].captured \in Seq(Sessions)
         /\ Has(Watched, CurrencyProvider) => page[Watched].captured # <<>>
         /\ page[Watched].captured # <<>> => Api \in 1..MaxUsers
<1>1. page[Watched] \in Pages
  BY WatchedAssumption DEF SessionTypeOK
<1>2. page[Watched].captured \in Seq(Sessions) /\ page[Watched].currency \in Currencies
  BY <1>1 DEF Pages
<1>3. Has(Watched, CurrencyProvider) => page[Watched].captured # <<>>
  BY <1>2 DEF Has, CurrencyProvider
<1>4. ASSUME page[Watched].captured # <<>> PROVE Api \in 1..MaxUsers
  <2>1. Has(Watched, 1)
    BY <1>2, <1>4 DEF Has
  <2> QED
    BY <2>1, CapturedType, WatchedAssumption DEF Api, ApiGateway
<1> QED
  BY <1>1, <1>2, <1>3, <1>4 DEF Currency

LEMMA FetchingQuery ==
  ASSUME NEW q \in Queries
  PROVE  /\ Fetching(q) \in Queries /\ Fetching(q).fetch = "asked"
         /\ \A items : UpToDate(Fetching(q), items)
BY DEF Fetching, Queries, Answered, UpToDate

\* The view as far as a step leaves the page, its carts and its presses alone.
LEMMA SamePage ==
  ASSUME page'[Watched].captured = page[Watched].captured,
         page'[Watched].currency = page[Watched].currency
  PROVE  /\ Api' = Api /\ Currency' = Currency
         /\ Has(Watched, CurrencyProvider)' <=> Has(Watched, CurrencyProvider)
BY DEF Api, Currency, Has

LEMMA SamePresses ==
  ASSUME press' = press
  PROVE  /\ UnderWay' = UnderWay /\ Owed' = Owed
         /\ \A i \in Slots : Mine(i)' = Mine(i)
BY DEF UnderWay, Owed, Mine

\* The query alone changes: what it shows of the page's currency is to be shown.
LEMMA QueryStep ==
  ASSUME ViewInv, NEW c \in Currencies, NEW q \in Queries,
         Has(Watched, CurrencyProvider),
         query' = [query EXCEPT ![c] = q],
         page'[Watched] = page[Watched], press' = press, cart' = cart,
         ~excused' /\ ~Owed /\ c = Currency => UpToDate(q, cart[Api]),
         c # Currency => (~excused' => ~excused)
  PROVE  ViewInv'
<1>1. query' \in [Currencies -> Queries] /\ query'[c] = q
      /\ \A k \in Currencies \ {c} : query'[k] = query[k]
  BY DEF ViewInv
<1>2. /\ Api' = Api /\ Currency' = Currency /\ Owed' = Owed
      /\ Has(Watched, CurrencyProvider)'
  BY SamePage, SamePresses
<1>3. AsksWhenLoaded'
  BY <1>2 DEF AsksWhenLoaded
<1>4. ViewKept'
  BY <1>1, <1>2 DEF ViewInv, ViewKept, UpToDate
<1> QED
  BY <1>1, <1>3, <1>4 DEF ViewInv

LEMMA QueryView ==
  ASSUME SessionTypeOK, ViewInv, NEW c \in Currencies,
         FetchCart \/ ReadCart(c) \/ ShowCart(c) \/ FetchFails(c),
         cart \in [1..MaxUsers -> Quantities]
  PROVE  ViewInv'
<1>1. /\ page' = page /\ press' = press /\ cart' = cart
      /\ query \in [Currencies -> Queries] /\ query[c] \in Queries
      /\ Currency \in Currencies
  BY WatchedPage DEF FetchCart, ReadCart, ShowCart, FetchFails, sessionVars, ViewInv
<1>2. ASSUME ReadCart(c) \/ ShowCart(c) \/ FetchFails(c) PROVE Has(Watched, CurrencyProvider)
  BY <1>2 DEF ReadCart, ShowCart, FetchFails, ViewInv, AsksWhenLoaded, Unasked
<1>3. CASE FetchCart
  <2>1. Has(Watched, CurrencyProvider) /\ query' = [query EXCEPT ![Currency] = Fetching(query[Currency])]
        /\ excused' = excused
    BY <1>3 DEF FetchCart, Loaded
  <2> QED
    BY <1>1, <2>1, FetchingQuery, QueryStep
<1>4. CASE ReadCart(c)
  <2> DEFINE items == cart[Api]
             q == [query[c] EXCEPT !.fetch = "read", !.answer = items]
  <2>1. Has(Watched, CurrencyProvider) /\ items \in Quantities
    BY <1>2, <1>4, WatchedPage
  <2>2. query' = [query EXCEPT ![c] = q] /\ excused' = (excused /\ c # Currency)
    BY <1>4 DEF ReadCart
  <2>3. UpToDate(q, items)
    BY <1>1 DEF Queries, UpToDate
  <2> HIDE DEF items
  <2>4. q \in Queries
    BY <1>1, <2>1 DEF Queries, Answered
  <2> HIDE DEF q
  <2> QED
    BY <1>1, <2>1, <2>2, <2>3, <2>4, QueryStep DEF items
<1>5. CASE ShowCart(c)
  <2> DEFINE q == [data |-> query[c].answer, fetch |-> "idle", answer |-> NoData]
  <2>1. Has(Watched, CurrencyProvider) /\ query' = [query EXCEPT ![c] = q]
        /\ excused' = excused /\ query[c].fetch = "read"
    BY <1>2, <1>5 DEF ShowCart
  <2>2. q \in Queries
    BY <1>1 DEF Queries, Answered
  <2>3. ASSUME ~excused, ~Owed, c = Currency PROVE UpToDate(q, cart[Api])
    BY <2>1, <2>3, WatchedPage DEF ViewInv, ViewKept, UpToDate
  <2> HIDE DEF q
  <2> QED
    BY <1>1, <2>1, <2>2, <2>3, QueryStep
<1>6. CASE FetchFails(c)
  <2> DEFINE q == [query[c] EXCEPT !.fetch = "idle", !.answer = NoData]
  <2>1. Has(Watched, CurrencyProvider) /\ query' = [query EXCEPT ![c] = q]
        /\ excused' = (excused \/ c = Currency)
    BY <1>2, <1>6 DEF FetchFails
  <2>2. q \in Queries
    BY <1>1 DEF Queries, Answered
  <2> HIDE DEF q
  <2> QED
    BY <1>1, <2>1, <2>2, QueryStep
<1> QED
  BY <1>3, <1>4, <1>5, <1>6

\* A step that leaves the page and its queries alone.
LEMMA PressView ==
  ASSUME ViewInv, page' = page, query' = query,
         \A i \in Slots : i \in UnderWay' /\ Mine(i)' =>
           \/ i \in UnderWay /\ Mine(i)
           \/ Has(Watched, CurrencyProvider),
         page[Watched].captured # <<>> /\ ~excused' /\ ~Owed' =>
           ~excused /\ ~Owed /\ cart'[Api] = cart[Api]
  PROVE  ViewInv'
<1>1. Api' = Api /\ Currency' = Currency
      /\ (Has(Watched, CurrencyProvider)' <=> Has(Watched, CurrencyProvider))
  BY SamePage
<1>2. AsksWhenLoaded'
  <2>1. UnderWay' \subseteq Slots
    BY DEF UnderWay
  <2> QED
    BY <1>1, <2>1 DEF ViewInv, AsksWhenLoaded
<1>3. ViewKept'
  BY <1>1 DEF ViewInv, ViewKept, UpToDate
<1> QED
  BY <1>2, <1>3 DEF ViewInv

\* Presses under way go on: the cart changes only if the page is to ask anew, or
\* is excused.
LEMMA GoOnView ==
  ASSUME ViewInv, NEW i \in UnderWay, page' = page, query' = query,
         \A j \in Slots :
           /\ j \in UnderWay' <=> j \in UnderWay
           /\ j \in UnderWay =>
                /\ Mine(j)' <=> Mine(j)
                /\ press[j].status \in {"added", "emptied"} => press'[j].status = press[j].status,
         page[Watched].captured # <<>> /\ ~excused' =>
           /\ ~excused
           /\ \/ cart'[Api] = cart[Api]
              \/ Mine(i) /\ press'[i].status \in {"added", "emptied"}
  PROVE  ViewInv'
<1>1. UnderWay \subseteq Slots /\ UnderWay' = UnderWay
  BY DEF UnderWay
<1>2. Owed => Owed'
  BY <1>1 DEF Owed
<1>3. Mine(i) /\ press'[i].status \in {"added", "emptied"} => Owed'
  BY <1>1 DEF Owed
<1> QED
  BY <1>1, <1>2, <1>3, PressView

\* One press under way changes to another: what is left to show.
LEMMA OnePressView ==
  ASSUME ShopInv, NEW i \in UnderWay, NEW new \in PressRecords,
         press' = [press EXCEPT ![i] = new], new.heard = press[i].heard,
         press[i].status \notin {"added", "emptied"}
  PROVE  /\ press'[i] = new
         /\ \A j \in Slots :
              /\ j \in UnderWay' <=> j \in UnderWay
              /\ j \in UnderWay =>
                   /\ Mine(j)' <=> Mine(j)
                   /\ press[j].status \in {"added", "emptied"} =>
                        press'[j].status = press[j].status
<1>1. /\ i \in Slots /\ press'[i] = new /\ new # NoPress
      /\ \A j \in Slots \ {i} : press'[j] = press[j]
  BY InSlot, OnePress, NoPressAssumption
<1> QED
  BY <1>1 DEF UnderWay, Mine

\* The watched page hears of a change of its cart, or is excused.
LEMMA UnheardView ==
  ASSUME SessionTypeOK, NEW i \in Slots, Unheard(i),
         \A u \in 1..MaxUsers \ {press[i].user} : cart'[u] = cart[u],
         page[Watched].captured # <<>>, ~excused'
  PROVE  ~excused /\ (cart'[Api] = cart[Api] \/ Mine(i))
<1>1. Api \in 1..MaxUsers
  BY WatchedPage
<1>2. ~excused /\ ~(press[i].user = Api /\ ~Mine(i))
  BY DEF Unheard
<1> QED
  BY <1>1, <1>2

LEMMA ChangeView ==
  ASSUME ShopInv, ViewInv, SessionTypeOK, NEW i \in Slots,
         WriteAdded(i) \/ EmptyCart(i)
  PROVE  ViewInv'
<1>1. /\ i \in UnderWay /\ press[i].status \notin {"added", "emptied"}
      /\ page' = page /\ query' = query /\ Unheard(i)
  BY DEF WriteAdded, EmptyCart, At, sessionVars
<1>2. press[i] \in PressRecords /\ press[i].user \in 1..MaxUsers
  BY <1>1, InSlot
<1>3. PICK new \in PressRecords : /\ press' = [press EXCEPT ![i] = new]
                                  /\ new.heard = press[i].heard
                                  /\ new.status \in {"added", "emptied"}
  <2>1. CASE WriteAdded(i)
    <3> DEFINE new == [press[i] EXCEPT !.status = "added", !.copy = None]
    <3>1. /\ new \in PressRecords /\ new.heard = press[i].heard /\ new.status = "added"
      BY <1>2 DEF PressRecords, None, Quantities
    <3>2. press' = [press EXCEPT ![i] = new]
      BY <2>1 DEF WriteAdded
    <3> HIDE DEF new
    <3> QED
      BY <3>1, <3>2
  <2>2. CASE EmptyCart(i)
    <3> DEFINE new == [press[i] EXCEPT !.status = "emptied"]
    <3>1. /\ new \in PressRecords /\ new.heard = press[i].heard /\ new.status = "emptied"
      BY <1>2 DEF PressRecords
    <3>2. press' = [press EXCEPT ![i] = new]
      BY <2>2 DEF EmptyCart, GoOn
    <3> HIDE DEF new
    <3> QED
      BY <3>1, <3>2
  <2> QED
    BY <2>1, <2>2
<1>4. \A u \in 1..MaxUsers \ {press[i].user} : cart'[u] = cart[u]
  BY <1>2 DEF WriteAdded, EmptyCart, ShopInv, ShopTypeOK
<1> QED
  BY <1>1, <1>3, <1>4, UnheardView, OnePressView, GoOnView

LEMMA EmptyAfterOrderView ==
  ASSUME ShopInv, ViewInv, SessionTypeOK, NEW i \in Slots, EmptyAfterOrder(i)
  PROVE  ViewInv'
<1>1. page' = page /\ query' = query /\ Unheard(i)
  BY DEF EmptyAfterOrder, sessionVars
<1>2. i \in UnderWay /\ press[i].status = "shipped" /\ press'[i].status = "emptied"
  BY EmptiedPresses
<1>3. \A j \in Slots :
        /\ j \in UnderWay' <=> j \in UnderWay
        /\ j \in UnderWay =>
             /\ Mine(j)' <=> Mine(j)
             /\ press[j].status \in {"added", "emptied"} => press'[j].status = press[j].status
  BY <1>2, EmptiedPresses DEF UnderWay, Mine, HasRead, At
<1>4. \A u \in 1..MaxUsers \ {press[i].user} : cart'[u] = cart[u]
  BY DEF EmptyAfterOrder, ShopInv, ShopTypeOK
<1> QED
  BY <1>1, <1>2, <1>3, <1>4, UnheardView, GoOnView

LEMMA OrderView ==
  ASSUME ShopInv, ViewInv, NEW i \in Slots,
         ReadToAdd(i) \/ PrepareOrder(i) \/ Ship(i) \/ EmptyFails(i)
  PROVE  ViewInv'
<1>1. /\ i \in UnderWay /\ press[i].status \notin {"added", "emptied"}
      /\ page' = page /\ query' = query /\ cart' = cart /\ excused' = excused
  BY DEF ReadToAdd, PrepareOrder, Ship, EmptyFails, At, sessionVars
<1>2. press[i] \in PressRecords /\ cart[press[i].user] \in Quantities
  BY <1>1, InSlot
<1>3. PICK new \in PressRecords : /\ press' = [press EXCEPT ![i] = new]
                                  /\ new.heard = press[i].heard
  <2>1. CASE PrepareOrder(i)
    <3> DEFINE new == [press[i] EXCEPT !.status = "prepared", !.items = cart[press[i].user]]
    <3>1. new \in PressRecords /\ new.heard = press[i].heard
      BY <1>2 DEF PressRecords
    <3>2. press' = [press EXCEPT ![i] = new]
      BY <2>1 DEF PrepareOrder
    <3> HIDE DEF new
    <3> QED
      BY <3>1, <3>2
  <2>2. CASE ReadToAdd(i)
    <3> DEFINE new == [press[i] EXCEPT !.status = "read", !.copy = cart[press[i].user]]
    <3>1. new \in PressRecords /\ new.heard = press[i].heard
      BY <1>2 DEF PressRecords
    <3>2. press' = [press EXCEPT ![i] = new]
      BY <2>2 DEF ReadToAdd
    <3> HIDE DEF new
    <3> QED
      BY <3>1, <3>2
  <2>3. CASE Ship(i) \/ EmptyFails(i)
    <3>1. PICK status \in {"shipped", "emptied"} : press' = [press EXCEPT ![i].status = status]
      BY <2>3 DEF Ship, EmptyFails, GoOn
    <3> DEFINE new == [press[i] EXCEPT !.status = status]
    <3>2. new \in PressRecords /\ new.heard = press[i].heard
      BY <1>2 DEF PressRecords
    <3>3. press' = [press EXCEPT ![i] = new]
      BY <3>1
    <3> HIDE DEF new
    <3> QED
      BY <3>2, <3>3
  <2> QED
    BY <2>1, <2>2, <2>3
<1> QED
  BY <1>1, <1>3, OnePressView, GoOnView

\* A page that no longer hears an answer is excused.
LEMMA DisconnectView ==
  ASSUME ShopInv, ViewInv, NEW i \in Slots, Disconnect(i)
  PROVE  ViewInv'
<1>1. /\ i \in UnderWay /\ press' = [press EXCEPT ![i].heard = FALSE]
      /\ page' = page /\ query' = query /\ excused'
  BY DEF Disconnect, sessionVars
<1>2. press[i] \in PressRecords
  BY <1>1, InSlot
<1>3. ~press'[i].heard /\ \A j \in Slots \ {i} : press'[j] = press[j]
  BY <1>1, <1>2 DEF ShopInv, ShopTypeOK, PressRecords
<1>4. \A j \in Slots : j \in UnderWay' /\ Mine(j)' => j \in UnderWay /\ Mine(j)
  BY <1>3 DEF UnderWay, Mine
<1> QED
  BY <1>1, <1>4, PressView

\* An answer that the page hears is one it asks anew for, or is excused.
LEMMA AnswerView ==
  ASSUME ShopInv, ViewInv, SessionTypeOK, NEW i \in Slots,
         Succeed(i) \/ NotFound(i) \/ Lose(i)
  PROVE  ViewInv'
<1>1. i \in UnderWay /\ Settle(i) /\ page' = page /\ cart' = cart
  BY DEF Succeed, NotFound, Lose, Failed, Done, At, sessionVars
<1>2. press'[i] = NoPress /\ \A j \in Slots \ {i} : press'[j] = press[j]
  BY <1>1, OnePress DEF Settle
<1>3. \A j \in UnderWay' : /\ j \in UnderWay /\ j # i /\ j \in Slots
                           /\ Mine(j)' <=> Mine(j)
                           /\ press'[j] = press[j]
  BY <1>2 DEF UnderWay, Mine
<1>4. CASE query' = query /\ (~excused' => ~excused /\ ~Mine(i))
  <2>1. ~Mine(i) /\ Owed => Owed'
    <3> SUFFICES ASSUME ~Mine(i), NEW j \in UnderWay, Mine(j),
                        press[j].status \in {"added", "emptied"}
                 PROVE Owed'
      BY DEF Owed
    <3>1. j \in Slots \ {i} /\ press'[j] = press[j]
      BY <1>2 DEF UnderWay
    <3>2. j \in UnderWay' /\ Mine(j)'
      BY <3>1 DEF UnderWay, Mine
    <3> QED
      BY <3>1, <3>2 DEF Owed
  <2> QED
    BY <1>1, <1>3, <1>4, <2>1, PressView
<1>5. CASE Succeed(i) /\ Mine(i)
  <2>1. /\ query' = [query EXCEPT ![Currency] = Invalidate(query[Currency])]
        /\ excused' = \/ excused
                      \/ query[Currency].fetch = "read" /\ query[Currency].data = NoData
    BY <1>5 DEF Succeed
  <2> DEFINE q == Invalidate(query[Currency])
  <2>2. query[Currency] \in Queries /\ Currency \in Currencies
    BY WatchedPage DEF ViewInv
  <2>3. q \in Queries /\ (q.fetch = "asked" \/ excused')
    <3>1. CASE query[Currency].fetch = "idle" \/ query[Currency].data # NoData
      BY <2>2, <3>1, FetchingQuery DEF Invalidate
    <3>2. CASE ~(query[Currency].fetch = "idle" \/ query[Currency].data # NoData)
      BY <2>1, <2>2, <3>2 DEF Invalidate, Queries
    <3> QED
      BY <3>1, <3>2
  <2> HIDE DEF q
  <2>4. query' \in [Currencies -> Queries] /\ query'[Currency] = q
    BY <2>1, <2>2, <2>3 DEF ViewInv, q
  <2>5. Has(Watched, CurrencyProvider)' /\ Currency' = Currency
    BY <1>1, <1>5, SamePage DEF ViewInv, AsksWhenLoaded
  <2>6. AsksWhenLoaded' /\ ViewKept'
    BY <2>3, <2>4, <2>5 DEF AsksWhenLoaded, ViewKept, UpToDate
  <2> QED
    BY <2>4, <2>6 DEF ViewInv
<1>6. ASSUME ~(Succeed(i) /\ Mine(i))
      PROVE query' = query /\ (~excused' => ~excused /\ ~Mine(i))
  BY <1>6 DEF Succeed, NotFound, Lose, Failed
<1> QED
  BY <1>4, <1>5, <1>6

\* A press of a page that has read its currency, on whose behalf nothing is
\* done yet.
LEMMA PressesView ==
  ASSUME ShopInv, ViewInv, SessionTypeOK, NEW t \in Tabs,
         PressEmpty(t) \/ PressOrder(t) \/ \E p \in Products : PressAdd(t, p)
  PROVE  ViewInv'
<1>1. page' = page /\ query' = query /\ cart' = cart /\ excused' = excused
  BY DEF PressEmpty, PressOrder, PressAdd, Press, sessionVars
<1>2. PICK i \in Slots \ UnderWay : \E kind, user, items :
        press' = [press EXCEPT ![i] =
          [heard |-> (t = Watched), kind |-> kind, user |-> user, items |-> items,
           copy |-> None, status |-> "sent", unlisted |-> FALSE]]
  BY DEF PressEmpty, PressOrder, PressAdd, Press
<1>3. /\ press'[i].heard = (t = Watched) /\ press'[i].status = "sent"
      /\ \A j \in Slots \ {i} : press'[j] = press[j]
  BY <1>2 DEF ShopInv, ShopTypeOK
<1>4. Has(t, CurrencyProvider)
  <2>1. CASE \E p \in Products : PressAdd(t, p)
    BY <2>1 DEF PressAdd, Loaded
  <2>2. CASE PressEmpty(t) \/ PressOrder(t)
    <3>1. Has(t, CartDetail) /\ page[t].captured \in Seq(Sessions)
      BY <2>2 DEF PressEmpty, PressOrder, CanUseCart, SessionTypeOK, Pages
    <3> QED
      BY <3>1 DEF Has, CartDetail, CurrencyProvider
  <2> QED
    BY <2>1, <2>2
<1>5. \A j \in Slots : j \in UnderWay' /\ Mine(j)' =>
        (j \in UnderWay /\ Mine(j)) \/ Has(Watched, CurrencyProvider)
  BY <1>3, <1>4 DEF UnderWay, Mine
<1>6. Owed => Owed'
  <2> SUFFICES ASSUME NEW j \in UnderWay, Mine(j), press[j].status \in {"added", "emptied"}
               PROVE Owed'
    BY DEF Owed
  <2>1. j \in Slots \ {i} /\ press'[j] = press[j]
    BY <1>3 DEF UnderWay
  <2>2. j \in UnderWay' /\ Mine(j)'
    BY <2>1 DEF UnderWay, Mine
  <2> QED
    BY <2>1, <2>2 DEF Owed
<1> QED
  BY <1>1, <1>5, <1>6, PressView

LEMMA ReloadView ==
  ASSUME ShopInv, ViewInv, NEW products \in {{}, Products}, Reload(products)
  PROVE  ViewInv'
<1>1. page' = page /\ query' = query /\ cart' = cart /\ excused' = excused
  BY DEF Reload, sessionVars
<1>2. \A i \in Slots : /\ i \in UnderWay' <=> i \in UnderWay
                       /\ i \in UnderWay => /\ Mine(i)' <=> Mine(i)
                                            /\ press'[i].status = press[i].status
  <2> SUFFICES ASSUME NEW i \in Slots
               PROVE /\ i \in UnderWay' <=> i \in UnderWay
                     /\ i \in UnderWay => /\ Mine(i)' <=> Mine(i)
                                          /\ press'[i].status = press[i].status
    OBVIOUS
  <2>1. \/ press'[i] = press[i]
        \/ i \in UnderWay /\ press'[i] = [press[i] EXCEPT !.unlisted = TRUE]
    BY DEF Reload
  <2>2. CASE press'[i] = press[i]
    BY <2>2 DEF UnderWay, Mine
  <2>3. CASE i \in UnderWay /\ press'[i] = [press[i] EXCEPT !.unlisted = TRUE]
    <3>1. press[i] \in PressRecords
      BY <2>3, InSlot
    <3>2. /\ press'[i] \in PressRecords
          /\ press'[i].heard = press[i].heard /\ press'[i].status = press[i].status
      BY <2>3, <3>1 DEF PressRecords
    <3> QED
      BY <2>3, <3>2, NoPressAssumption DEF UnderWay, Mine
  <2> QED
    BY <2>1, <2>2, <2>3
<1>3. Owed => Owed'
  <2>1. UnderWay \subseteq Slots
    BY DEF UnderWay
  <2> QED
    BY <1>2, <2>1 DEF Owed
<1> QED
  BY <1>1, <1>2, <1>3, PressView

\* A page is loaded: the watched one starts without answers, the presses of its
\* old one are no longer heard.
LEMMA OpenView ==
  ASSUME ShopInv, ViewInv, SessionTypeOK, NEW t \in Tabs, Open(t)
  PROVE  ViewInv'
<1>1. /\ cart' = cart /\ page' = [page EXCEPT ![t] = Blank(opened + 1)]
      /\ press' = [i \in Slots |->
           IF i \in UnderWay /\ t = Watched
           THEN [press[i] EXCEPT !.heard = FALSE] ELSE press[i]]
  BY DEF Open, OpenPage
<1>2. ASSUME t = Watched, NEW i \in UnderWay' PROVE ~Mine(i)'
  <2>1. i \in Slots /\ press'[i] # NoPress
    BY DEF UnderWay
  <2>2. i \in UnderWay
    BY <1>1, <2>1 DEF UnderWay
  <2>3. press[i] \in PressRecords /\ press'[i] = [press[i] EXCEPT !.heard = FALSE]
    BY <1>1, <1>2, <2>1, <2>2, InSlot
  <2> QED
    BY <2>3 DEF Mine, PressRecords
<1>3. UnderWay \subseteq Slots /\ UnderWay' \subseteq Slots
  BY DEF UnderWay
<1>4. CASE t = Watched
  <2>1. /\ page'[Watched] = Blank(opened + 1)
        /\ query' = [c \in Currencies |-> Unasked]
    BY <1>1, <1>4, WatchedAssumption DEF Open, SessionTypeOK
  <2>2. page'[Watched].captured = <<>>
    BY <2>1 DEF Blank
  <2>3. \A i \in UnderWay' : ~Mine(i)'
    BY <1>2, <1>4
  <2>4. query' \in [Currencies -> Queries] /\ AsksWhenLoaded'
    BY <2>1, <2>3 DEF AsksWhenLoaded, Unasked, Queries, Answered
  <2>5. ViewKept'
    BY <2>2 DEF ViewKept
  <2> QED
    BY <2>4, <2>5 DEF ViewInv
<1>5. CASE t # Watched
  <2>1. page'[Watched] = page[Watched] /\ query' = query /\ excused' = excused
    BY <1>1, <1>5, WatchedAssumption DEF Open, SessionTypeOK
  <2>2. press' = press
    BY <1>1, <1>5 DEF ShopInv, ShopTypeOK
  <2>3. (Owed' <=> Owed) /\ \A i \in UnderWay' : i \in UnderWay /\ (Mine(i)' <=> Mine(i))
    BY <1>3, <2>2, SamePresses
  <2>4. Api' = Api /\ Currency' = Currency
        /\ (Has(Watched, CurrencyProvider)' <=> Has(Watched, CurrencyProvider))
    BY <2>1, SamePage
  <2>5. AsksWhenLoaded'
    BY <2>1, <2>3, <2>4 DEF ViewInv, AsksWhenLoaded
  <2>6. ViewKept'
    BY <1>1, <2>1, <2>3, <2>4 DEF ViewInv, ViewKept, UpToDate
  <2> QED
    BY <2>1, <2>5, <2>6 DEF ViewInv
<1> QED
  BY <1>4, <1>5

\* The watched page keeps what it shows and whose cart that is.
LEMMA SameView ==
  ASSUME ViewInv, UNCHANGED shopVars,
         page'[Watched].captured = page[Watched].captured,
         page'[Watched].currency = page[Watched].currency
  PROVE  ViewInv'
<1>1. query' = query /\ press' = press /\ cart' = cart /\ excused' = excused
  BY DEF shopVars
<1>2. /\ Api' = Api /\ Currency' = Currency
      /\ Has(Watched, CurrencyProvider)' <=> Has(Watched, CurrencyProvider)
  BY SamePage
<1>3. UnderWay' = UnderWay /\ Owed' = Owed /\ \A i \in UnderWay : Mine(i)' = Mine(i)
  BY <1>1, SamePresses DEF UnderWay
<1>4. AsksWhenLoaded'
  BY <1>1, <1>2, <1>3 DEF ViewInv, AsksWhenLoaded
<1>5. ViewKept'
  BY <1>1, <1>2, <1>3 DEF ViewInv, ViewKept, UpToDate
<1> QED
  BY <1>1, <1>4, <1>5 DEF ViewInv

\* A module is evaluated: the currency changes before the page has asked for
\* anything, and whose cart it shows is settled by the first module.
LEMMA EvaluateView ==
  ASSUME ViewInv, SessionTypeOK, NEW t \in Tabs, Evaluate(t)
  PROVE  ViewInv'
<1>1. UNCHANGED shopVars /\ Capture(t)
  BY DEF Evaluate
<1>2. CASE t # Watched
  <2>1. page'[Watched] = page[Watched]
    BY <1>1, <1>2, WatchedAssumption DEF Capture, SessionTypeOK
  <2> QED
    BY <1>1, <2>1, SameView
<1>3. CASE t = Watched
  <2> DEFINE old == page[Watched].captured
             long == page'[Watched].captured
  <2>1. query' = query /\ press' = press /\ cart' = cart /\ excused' = excused
    BY <1>1 DEF shopVars
  <2>2. /\ old \in Seq(Sessions)
        /\ \E x : long = Append(old, x)
        /\ Len(old) + 1 # CurrencyProvider => page'[Watched].currency = page[Watched].currency
        /\ page'[Watched].currency \in Currencies
    <3>1. page[Watched] \in Pages /\ page \in [Tabs -> Pages] /\ page[Watched].own # 0
      BY <1>1, <1>3, WatchedAssumption DEF SessionTypeOK, Capture, Idle
    <3>2. getSession(Watched) \in Sessions
      BY <1>1, <1>3, <3>1, GetSessionType
    <3> QED
      BY <1>1, <1>3, <3>1, <3>2 DEF Capture, Pages, Sessions
  <2>3. /\ Len(long) = Len(old) + 1 /\ Len(old) \in Nat /\ long # <<>>
        /\ old # <<>> => long[1] = old[1]
    BY <2>2
  <2> HIDE DEF old, long
  <2>4. UnderWay' = UnderWay /\ Owed' = Owed /\ \A i \in UnderWay : Mine(i)' = Mine(i)
    BY <2>1, SamePresses DEF UnderWay
  <2>5. CASE Has(Watched, CurrencyProvider)
    <3>1. /\ Has(Watched, CurrencyProvider)' /\ Currency' = Currency
          /\ old # <<>>
      BY <2>2, <2>3, <2>5 DEF Has, CurrencyProvider, Currency, old, long
    <3>2. Api' = Api
      BY <2>3, <3>1 DEF Api, ApiGateway, old, long
    <3>3. AsksWhenLoaded'
      BY <3>1 DEF AsksWhenLoaded
    <3>4. ViewKept'
      BY <2>1, <2>4, <3>1, <3>2 DEF ViewInv, ViewKept, UpToDate, old
    <3> QED
      BY <2>1, <3>3, <3>4 DEF ViewInv
  <2>6. CASE ~Has(Watched, CurrencyProvider)
    <3>1. /\ \A c \in Currencies : query'[c] = Unasked
          /\ \A i \in UnderWay' : ~Mine(i)'
      BY <2>1, <2>4, <2>6 DEF ViewInv, AsksWhenLoaded
    <3>2. AsksWhenLoaded'
      BY <3>1 DEF AsksWhenLoaded
    <3>3. ViewKept'
      BY <2>2, <3>1 DEF ViewKept, UpToDate, Unasked, Currency
    <3> QED
      BY <2>1, <3>2, <3>3 DEF ViewInv
  <2> QED
    BY <2>5, <2>6
<1> QED
  BY <1>2, <1>3

\* A currency is selected: its query is fetched, or is under way already.
LEMMA SelectView ==
  ASSUME ViewInv, SessionTypeOK, NEW t \in Tabs, NEW c \in Currencies, Select(t, c)
  PROVE  ViewInv'
<1>1. press' = press /\ cart' = cart /\ SelectCurrency(t, c)
  BY DEF Select
<1>2. CASE t # Watched
  <2>1. page'[Watched] = page[Watched]
    BY <1>1, <1>2, WatchedAssumption DEF SelectCurrency, SessionTypeOK
  <2>2. UNCHANGED shopVars
    BY <1>2 DEF Select, shopVars
  <2> QED
    BY <2>1, <2>2, SameView
<1>3. CASE t = Watched
  <2>1. /\ page'[Watched].captured = page[Watched].captured
        /\ page'[Watched].currency = c /\ Has(Watched, CurrencyProvider)
    BY <1>1, <1>3, WatchedAssumption DEF SelectCurrency, Loaded, SessionTypeOK, Pages
  <2>2. Has(Watched, CurrencyProvider)' /\ Currency' = c
    BY <2>1 DEF Has, Currency
  <2>3. AsksWhenLoaded'
    BY <2>2 DEF AsksWhenLoaded
  <2>4. query[c] \in Queries
    BY DEF ViewInv
  <2>5. CASE query[c].fetch = "idle"
    <3> DEFINE q == Fetching(query[c])
    <3>1. q \in Queries /\ q.fetch = "asked"
      BY <2>4, FetchingQuery
    <3>2. query' = [query EXCEPT ![c] = q]
      BY <1>3, <2>5 DEF Select
    <3> HIDE DEF q
    <3>3. query' \in [Currencies -> Queries] /\ query'[c] = q
      BY <3>1, <3>2 DEF ViewInv
    <3>4. ViewKept'
      BY <2>2, <3>1, <3>3 DEF ViewKept, UpToDate
    <3> QED
      BY <2>3, <3>3, <3>4 DEF ViewInv
  <2>6. CASE query[c].fetch # "idle"
    <3>1. query' = query /\ excused'
      BY <1>3, <2>6 DEF Select
    <3>2. ViewKept'
      BY <3>1 DEF ViewKept
    <3> QED
      BY <2>3, <3>1, <3>2 DEF ViewInv
  <2> QED
    BY <2>5, <2>6
<1> QED
  BY <1>2, <1>3

LEMMA NextViewInv == SessionInv /\ ShopInv /\ ViewInv /\ [Next]_vars => ViewInv'
<1> SUFFICES ASSUME SessionInv, ShopInv, ViewInv, [Next]_vars PROVE ViewInv'
  OBVIOUS
<1>0. SessionTypeOK /\ cart \in [1..MaxUsers -> Quantities]
  BY DEF SessionInv, ShopInv, ShopTypeOK
<1>1. ASSUME NEW t \in Tabs, Open(t) PROVE ViewInv'
  BY <1>0, <1>1, OpenView
<1>2. ASSUME NEW t \in Tabs, Evaluate(t) PROVE ViewInv'
  BY <1>0, <1>2, EvaluateView
<1>3. ASSUME NEW t \in Tabs, SetItemOf(t) PROVE ViewInv'
  <2>1. page'[Watched].captured = page[Watched].captured
        /\ page'[Watched].currency = page[Watched].currency
    BY <1>0, <1>3, WatchedAssumption DEF SetItemOf, SetItem, SessionTypeOK, Pages
  <2> QED
    BY <1>3, <2>1, SameView DEF SetItemOf
<1>4. ASSUME NEW t \in Tabs, NEW c \in Currencies, Select(t, c) PROVE ViewInv'
  BY <1>0, <1>4, SelectView
<1>5. CASE Clear
  BY <1>5, SameView DEF Clear, ClearStorage
<1>6. ASSUME NEW t \in Tabs,
             PressEmpty(t) \/ PressOrder(t) \/ \E p \in Products : PressAdd(t, p)
      PROVE ViewInv'
  BY <1>0, <1>6, PressesView
<1>7. ASSUME NEW products \in {{}, Products}, Reload(products) PROVE ViewInv'
  BY <1>7, ReloadView
<1>8. CASE FetchCart
  BY <1>0, <1>8, WatchedPage, QueryView
<1>9. ASSUME NEW c \in Currencies, ReadCart(c) \/ ShowCart(c) \/ FetchFails(c)
      PROVE ViewInv'
  BY <1>0, <1>9, QueryView
<1>10. ASSUME NEW i \in Slots,
              \/ ReadToAdd(i) \/ WriteAdded(i) \/ EmptyCart(i) \/ PrepareOrder(i) \/ Ship(i)
              \/ EmptyAfterOrder(i) \/ EmptyFails(i) \/ Disconnect(i)
       PROVE ViewInv'
  BY <1>0, <1>10, ChangeView, EmptyAfterOrderView, OrderView, DisconnectView
<1>11. ASSUME NEW i \in Slots, Succeed(i) \/ NotFound(i) \/ Lose(i) PROVE ViewInv'
  BY <1>0, <1>11, AnswerView
<1>12. CASE UNCHANGED vars
  BY <1>12, SameView DEF vars, sessionVars
<1> QED
  BY <1>1, <1>2, <1>3, <1>4, <1>5, <1>6, <1>7, <1>8, <1>9, <1>10, <1>11, <1>12
  DEF Next, SessionNext, ShopNext

\* A page that waits for nothing shows what its user's cart holds
\* (Cart.provider.tsx:36, onSuccess invalidates the cart), unless a failure, a
\* change made elsewhere or a fetch that was not started again excuses it.
THEOREM ViewIsFresh == Spec => []ViewFresh
<1>1. Init => SessionInv /\ ShopInv /\ ViewInv
  BY InitSessionInv, InitShopInv, InitViewInv DEF Init
<1>2. ViewInv => ViewFresh
  <2> SUFFICES ASSUME ViewInv, Quiet, ~excused PROVE View = cart[Api]
    BY DEF ViewFresh
  <2>1. ~Owed
    BY DEF Quiet, Owed
  <2> QED
    BY <2>1 DEF ViewInv, ViewKept, UpToDate, Quiet, View
<1> QED
  BY <1>1, <1>2, NextSessionInv, NextShopInv, NextViewInv, PTL DEF Spec

-----------------------------------------------------------------------------
(* The phone. *)

LEMMA InitPhoneInv == PhoneInit => PhoneInv
<1> SUFFICES ASSUME PhoneInit PROVE PhoneInv
  OBVIOUS
<1> USE MaxLaunchesAssumption DEF PhoneInit, NoCalls
<1>1. PhoneTypeOK
  BY DEF PhoneTypeOK
<1>2. CallsAgree /\ SessionSent /\ OnePhoneUser
  BY DEF CallsAgree, SessionSent, OnePhoneUser
<1> QED
  BY <1>1, <1>2 DEF PhoneInv

\* A call goes from one record to another, and says no more than it knew.
LEMMA CallStep ==
  ASSUME PhoneInv, NEW c \in PhoneCalls, NEW new \in Call \cup {NoCall},
         call' = [call EXCEPT ![c] = new], UNCHANGED <<device, launch, sent>>,
         new # NoCall =>
           /\ \A i \in DOMAIN new.users : new.users[i] = device
           /\ new.step = "store" => device \in {0, launch}
           /\ device = 0 => new.users = <<>>
  PROVE PhoneInv'
<1> USE DEF PhoneInv
<1>1. PhoneTypeOK'
  BY DEF PhoneTypeOK
<1>2. call'[c] = new /\ \A d \in PhoneCalls \ {c} : call'[d] = call[d]
  BY DEF PhoneTypeOK
<1>3. CallsAgree'
  BY <1>2 DEF CallsAgree
<1>4. SessionSent'
  BY <1>2 DEF SessionSent
<1>5. OnePhoneUser'
  BY DEF OnePhoneUser
<1> QED
  BY <1>1, <1>3, <1>4, <1>5

LEMMA CallType ==
  ASSUME PhoneInv, NEW c \in PhoneCalls, call[c] # NoCall
  PROVE /\ call[c] \in Call /\ call[c].users \in Seq(1..MaxLaunches)
        /\ \A i \in DOMAIN call[c].users : call[c].users[i] = device
        /\ device = 0 => call[c].users = <<>>
BY DEF PhoneInv, PhoneTypeOK, CallsAgree, SessionSent, Call

\* What getSession returns is added to what its caller knows.
LEMMA ReturnedCall ==
  ASSUME PhoneInv, NEW c \in PhoneCalls, call[c] # NoCall, NEW user \in 1..MaxLaunches,
         Returned(c, user), device \in {0, user}
  PROVE \E new \in Call :
          /\ call' = [call EXCEPT ![c] = new]
          /\ new.step = "read" /\ new.users # <<>>
          /\ \A i \in DOMAIN new.users : new.users[i] = user
<1> DEFINE users == Append(call[c].users, user)
           new == [call[c] EXCEPT !.step = "read", !.users = users]
<1>1. call[c] \in Call /\ call[c].users \in Seq(1..MaxLaunches)
  BY CallType
<1>2. \A i \in DOMAIN call[c].users : call[c].users[i] = user
  <2>1. CASE device = 0
    BY <2>1, CallType
  <2>2. CASE device = user
    BY <2>2, CallType
  <2> QED
    BY <2>1, <2>2
<1>3. call' = [call EXCEPT ![c] = new]
  BY DEF Returned
<1>4. users \in Seq(1..MaxLaunches) /\ users # <<>> /\ \A i \in DOMAIN users : users[i] = user
  <2> DEFINE old == call[c].users
  <2>1. old \in Seq(1..MaxLaunches) /\ (\A i \in DOMAIN old : old[i] = user) /\ users = Append(old, user)
    BY <1>1, <1>2
  <2> HIDE DEF old, users
  <2>2. users \in Seq(1..MaxLaunches) /\ Len(users) = Len(old) + 1 /\ Len(old) \in Nat
    BY <2>1
  <2>3. users # <<>>
    BY <2>2
  <2>4. ASSUME NEW i \in DOMAIN users PROVE users[i] = user
    BY <2>1, <2>2
  <2> QED
    BY <2>2, <2>3, <2>4
<1> HIDE DEF users
<1>5. new \in Call /\ new.step = "read" /\ new.users = users
  BY <1>1, <1>4 DEF Call
<1> QED
  BY <1>3, <1>4, <1>5

LEMMA ReadSessionStep ==
  ASSUME PhoneInv, NEW c \in PhoneCalls, ReadSession(c)
  PROVE PhoneInv'
<1>1. call[c] # NoCall /\ UNCHANGED <<device, launch, sent>>
  BY DEF ReadSession, Reading
<1>2. CASE device = 0
  <2> DEFINE new == [call[c] EXCEPT !.step = "store"]
  <2>1. new \in Call /\ new.users = call[c].users
    BY <1>1, CallType DEF Call
  <2>2. call' = [call EXCEPT ![c] = new]
    BY <1>2 DEF ReadSession
  <2> HIDE DEF new
  <2> QED
    BY <1>1, <1>2, <2>1, <2>2, CallType, CallStep
<1>3. CASE device # 0
  <2>1. device \in 1..MaxLaunches
    BY <1>3, MaxLaunchesAssumption DEF PhoneInv, PhoneTypeOK
  <2>2. Returned(c, device)
    BY <1>3 DEF ReadSession
  <2> QED
    BY <1>1, <1>3, <2>1, <2>2, ReturnedCall, CallStep
<1> QED
  BY <1>2, <1>3

\* Of overlapping calls that found nothing, all write the same session.
LEMMA StoreDefaultStep ==
  ASSUME PhoneInv, NEW c \in PhoneCalls, StoreDefault(c)
  PROVE PhoneInv'
<1>1. /\ call[c] # NoCall /\ call[c].step = "store" /\ Returned(c, launch)
      /\ device' = launch /\ UNCHANGED <<launch, sent>>
  BY DEF StoreDefault
<1>2. device \in {0, launch} /\ launch \in 1..MaxLaunches
  BY <1>1 DEF PhoneInv, CallsAgree, PhoneTypeOK
<1>3. PICK new \in Call : /\ call' = [call EXCEPT ![c] = new]
                          /\ new.step = "read"
                          /\ \A i \in DOMAIN new.users : new.users[i] = launch
  BY <1>1, <1>2, ReturnedCall
<1>4. PhoneTypeOK'
  BY <1>1, <1>2, <1>3, MaxLaunchesAssumption DEF PhoneInv, PhoneTypeOK
<1>5. call'[c] = new /\ \A d \in PhoneCalls \ {c} : call'[d] = call[d]
  BY <1>3 DEF PhoneInv, PhoneTypeOK
<1>6. CallsAgree'
  <2> SUFFICES ASSUME NEW d \in PhoneCalls, call'[d] # NoCall
               PROVE /\ \A i \in DOMAIN call'[d].users : call'[d].users[i] = launch
                     /\ call'[d].step = "store" => launch \in {0, launch}
    BY <1>1 DEF CallsAgree
  <2>1. CASE d = c
    BY <1>3, <1>5, <2>1
  <2>2. CASE d # c
    <3>1. call[d] # NoCall /\ call'[d] = call[d]
      BY <1>5, <2>2
    <3>2. \A i \in DOMAIN call[d].users : call[d].users[i] = device
      BY <3>1, CallType
    <3>3. device = 0 => call[d].users = <<>>
      BY <3>1, CallType
    <3> QED
      BY <1>2, <3>1, <3>2, <3>3
  <2> QED
    BY <2>1, <2>2
<1>7. SessionSent'
  BY <1>1, <1>2 DEF SessionSent
<1>8. OnePhoneUser'
  BY <1>1, <1>2 DEF PhoneInv, OnePhoneUser, SessionSent
<1> QED
  BY <1>4, <1>6, <1>7, <1>8 DEF PhoneInv

LEMMA EndStep ==
  ASSUME PhoneInv, NEW c \in PhoneCalls, End(c), UNCHANGED <<device, launch, sent>>
  PROVE PhoneInv'
BY CallStep DEF End

\* Both ids of what is sent are the stored one.
LEMMA SendStep ==
  ASSUME PhoneInv, NEW c \in PhoneCalls, SendRequest(c) \/ SendOrder(c)
  PROVE PhoneInv'
<1>1. /\ call[c] # NoCall /\ Len(call[c].users) = 2
      /\ call' = [call EXCEPT ![c] = NoCall] /\ UNCHANGED <<device, launch>>
  BY DEF SendRequest, SendOrder, Ready, Of, Rounds, End
<1>2. call[c].users[1] = device /\ call[c].users[2] = device /\ device # 0
  BY <1>1, CallType
<1>3. sent' = sent \cup {[user |-> device, baggage |-> device]}
  <2>1. CASE SendRequest(c)
    BY <1>2, <2>1 DEF SendRequest
  <2>2. CASE SendOrder(c)
    BY <1>2, <2>2 DEF SendOrder
  <2> QED
    BY <2>1, <2>2
<1>4. PhoneTypeOK'
  BY <1>1 DEF PhoneInv, PhoneTypeOK
<1>5. call'[c] = NoCall /\ \A d \in PhoneCalls \ {c} : call'[d] = call[d]
  BY <1>1 DEF PhoneInv, PhoneTypeOK
<1>6. CallsAgree'
  BY <1>1, <1>5 DEF PhoneInv, CallsAgree
<1>7. SessionSent' /\ OnePhoneUser'
  BY <1>1, <1>2, <1>3 DEF PhoneInv, SessionSent, OnePhoneUser
<1> QED
  BY <1>4, <1>6, <1>7 DEF PhoneInv

LEMMA BeginStep ==
  ASSUME PhoneInv, NEW c \in PhoneCalls, NEW kind \in {"request", "order", "span"},
         Begin(c, kind)
  PROVE PhoneInv'
<1> DEFINE new == [kind |-> kind, step |-> "read", users |-> <<>>]
<1>1. /\ new \in Call /\ new.users = <<>> /\ new.step = "read"
      /\ \A i \in DOMAIN new.users : new.users[i] = device
  BY DEF Call
<1>2. call' = [call EXCEPT ![c] = new] /\ UNCHANGED <<device, launch, sent>>
  BY DEF Begin
<1> HIDE DEF new
<1> QED
  BY <1>1, <1>2, CallStep

LEMMA LaunchStep ==
  ASSUME PhoneInv, Restart \/ ClearData
  PROVE PhoneInv'
<1> USE DEF PhoneInv, Restart, ClearData, NoCalls
<1>1. PhoneTypeOK'
  BY MaxLaunchesAssumption DEF PhoneTypeOK
<1>2. CallsAgree'
  BY DEF CallsAgree
<1>3. SessionSent' /\ OnePhoneUser'
  BY DEF SessionSent, OnePhoneUser
<1> QED
  BY <1>1, <1>2, <1>3

LEMMA NextPhoneInv == PhoneInv /\ [PhoneNext]_phoneVars => PhoneInv'
<1> SUFFICES ASSUME PhoneInv, [PhoneNext]_phoneVars PROVE PhoneInv'
  OBVIOUS
<1>1. CASE Restart \/ ClearData
  BY <1>1, LaunchStep
<1>2. ASSUME NEW c \in PhoneCalls, BeginRequest(c) \/ BeginOrder(c) \/ BeginSpan(c)
      PROVE PhoneInv'
  BY <1>2, BeginStep DEF BeginRequest, BeginOrder, BeginSpan
<1>3. ASSUME NEW c \in PhoneCalls, StorageFails(c) \/ EndSpan(c) PROVE PhoneInv'
  BY <1>3, EndStep DEF StorageFails, EndSpan
<1>4. CASE UNCHANGED phoneVars
  BY <1>4 DEF phoneVars, PhoneInv, PhoneTypeOK, CallsAgree, SessionSent, OnePhoneUser
<1> QED
  BY <1>1, <1>2, <1>3, <1>4, ReadSessionStep, StoreDefaultStep, SendStep
  DEF PhoneNext, PhoneStep

\* Whatever the phone sends, it sends for the stored user (Session.gateway.ts:22
\* awaits setItem before it returns the default session it wrote).
THEOREM PhoneUserHolds == PhoneSpec => []OnePhoneUser
<1>1. PhoneInv => OnePhoneUser
  BY DEF PhoneInv
<1> QED
  BY InitPhoneInv, NextPhoneInv, <1>1, PTL DEF PhoneSpec
=============================================================================
