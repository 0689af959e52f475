------------------------------- MODULE Session -------------------------------
(***************************************************************************)
(* Who the shopper is: src/frontend/gateways/Session.gateway.ts and the    *)
(* modules that read a session when they are loaded.                       *)
(*                                                                         *)
(* Every tab makes up a default session of its own when its page is        *)
(* loaded.  localStorage, which the tabs share, keeps the first one that   *)
(* was written, and each module of a page keeps the user id it read when   *)
(* it was evaluated.  Tabs run in parallel: getItem and setItem are atomic, *)
(* what a tab does between them is not.                                    *)
(***************************************************************************)
EXTENDS Integers, Sequences

CONSTANTS
  Tabs,            \* the tabs of one browser
  MaxUsers,        \* bound: pages loaded, each with a user id of its own
  Currencies,
  DefaultCurrency, \* 'USD'
  NoSession        \* null, the item is not in localStorage

ASSUME MaxUsersAssumption == MaxUsers \in Nat
ASSUME CurrencyAssumption == DefaultCurrency \in Currencies
ASSUME NoSessionAssumption == NoSession \notin [user : Nat, currency : Currencies]

VARIABLES
  stored,   \* localStorage's 'session'
  page,     \* of each tab, its page
  opened,   \* pages loaded so far
  raced,    \* history: a tab wrote over a user it had not read
  cleared   \* history: the shopper cleared localStorage

sessionVars == <<stored, page, opened, raced, cleared>>

Sessions == [user : 1..MaxUsers, currency : Currencies]

\* A page: its default session's user id, the sessions its modules captured, in
\* the order they are evaluated, the currency it shows, the setItem calls still
\* to be made by the script that runs, and what that script last saw stored.
Blank(own) ==
  [own |-> own, captured |-> <<>>, currency |-> DefaultCurrency,
   writes |-> <<>>, saw |-> NoSession]

\* The captures: Api.gateway and Currency.provider while the page loads,
\* CartDetail when the chunk of the /cart page is first needed.
ApiGateway == 1
CurrencyProvider == 2
CartDetail == 3

Has(t, module) == Len(page[t].captured) >= module
Idle(t) == page[t].own # 0 /\ page[t].writes = <<>>
Loaded(t) == Idle(t) /\ Has(t, CurrencyProvider)

defaultSession(t) == [user |-> page[t].own, currency |-> DefaultCurrency]

\* What getSession returns, and what it writes.
getSession(t) == IF stored = NoSession THEN defaultSession(t) ELSE stored
getSessionWrites(t) == IF stored = NoSession THEN <<defaultSession(t)>> ELSE <<>>

SessionInit ==
  /\ stored = NoSession
  /\ page = [t \in Tabs |-> Blank(0)]
  /\ opened = 0
  /\ raced = FALSE
  /\ cleared = FALSE

\* A page is loaded, or loaded again.
OpenPage(t) ==
  /\ page[t].writes = <<>>
  /\ opened < MaxUsers
  /\ opened' = opened + 1
  /\ page' = [page EXCEPT ![t] = Blank(opened + 1)]
  /\ UNCHANGED <<stored, raced, cleared>>

\* The next module of a page is evaluated: its getSession reads localStorage.
Capture(t) ==
  /\ Idle(t)
  /\ ~Has(t, CartDetail)
  /\ LET session == getSession(t) IN
     page' = [page EXCEPT ![t] = [@ EXCEPT
       !.captured = Append(page[t].captured, session),
       !.currency = IF Len(page[t].captured) + 1 = CurrencyProvider
                    THEN session.currency ELSE page[t].currency,
       !.writes = getSessionWrites(t),
       !.saw = stored]]
  /\ UNCHANGED <<stored, opened, raced, cleared>>

\* Faulty: the session a page writes back is the one it would start with.
SelectCurrencyOfDefault(t, c) ==
  /\ Loaded(t)
  /\ c # page[t].currency
  /\ page' = [page EXCEPT ![t] = [@ EXCEPT
       !.currency = c,
       !.writes = Append(getSessionWrites(t), [defaultSession(t) EXCEPT !.currency = c]),
       !.saw = stored]]
  /\ UNCHANGED <<stored, opened, raced, cleared>>

\* onSelectCurrency: setSessionValue writes the whole session it read back.
SelectCurrency(t, c) ==
  /\ Loaded(t)
  /\ c # page[t].currency
  /\ page' = [page EXCEPT ![t] = [@ EXCEPT
       !.currency = c,
       !.writes = Append(getSessionWrites(t), [getSession(t) EXCEPT !.currency = c]),
       !.saw = stored]]
  /\ UNCHANGED <<stored, opened, raced, cleared>>

\* The user of what localStorage holds, if any.
UserIn(item) == IF item = NoSession THEN 0 ELSE item.user

\* The next setItem of the script that runs in a tab.
SetItem(t) ==
  /\ page[t].writes # <<>>
  /\ LET session == Head(page[t].writes) IN
     /\ stored' = session
     /\ page' = [page EXCEPT ![t] = [@ EXCEPT !.writes = Tail(page[t].writes), !.saw = session]]
  /\ raced' = (raced \/ UserIn(stored) # UserIn(page[t].saw))
  /\ UNCHANGED <<opened, cleared>>

\* The shopper clears the site's data, once.
ClearStorage ==
  /\ ~cleared
  /\ cleared' = TRUE
  /\ stored' = NoSession
  /\ UNCHANGED <<page, opened, raced>>

-----------------------------------------------------------------------------

\* The user ids a page acts as, or will be seen as.
UsersOf(t) == {page[t].captured[i].user : i \in DOMAIN page[t].captured}

\* All tabs are one shopper: every id a module captured is the one that is
\* stored, so any two of them agree, and the id CartDetail orders for is the id
\* Api.gateway fills the cart of.  It holds as long as no tab's getSession
\* crossed another's (there is no lock) and localStorage was not cleared; a
\* page that has not yet written the session it captured is alone with it.
OneShopper ==
  ~raced /\ ~cleared =>
    \A t \in Tabs :
      page[t].writes = <<>> => \A user \in UsersOf(t) : user = UserIn(stored)

-----------------------------------------------------------------------------
(* What the proof rests on. *)

Pages ==
  [own : 0..MaxUsers, captured : Seq(Sessions), currency : Currencies,
   writes : Seq(Sessions), saw : Sessions \cup {NoSession}]

SessionTypeOK ==
  /\ stored \in Sessions \cup {NoSession}
  /\ opened \in 0..MaxUsers
  /\ page \in [Tabs -> Pages]
  /\ raced \in BOOLEAN
  /\ cleared \in BOOLEAN

\* A script writes for one user, the one its page captured, and has read
\* nobody else's session.
WritesFor(t, user) ==
  /\ \A i \in DOMAIN page[t].writes : page[t].writes[i].user = user
  /\ \A v \in UsersOf(t) : v = user
  /\ UserIn(page[t].saw) \in {0, user}

OneWriter ==
  ~raced /\ ~cleared =>
    \A t \in Tabs : page[t].writes # <<>> => \E user \in 1..MaxUsers : WritesFor(t, user)

SessionInv == SessionTypeOK /\ OneShopper /\ OneWriter
=============================================================================
