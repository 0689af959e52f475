--------------------------------- MODULE Phone ---------------------------------
(***************************************************************************)
(* Who the shopper is in src/react-native-app: the session lives in        *)
(* AsyncStorage, whose getItem and setItem are awaited, so that calls of   *)
(* getSession overlap: those of requests, of the proxy that sets a         *)
(* request's baggage, of every span.  The app may be killed at any await.  *)
(***************************************************************************)
EXTENDS Integers, Sequences

CONSTANTS
  PhoneCalls,    \* bound: requests, orders and spans under way at once
  MaxLaunches,   \* bound: how often the app is started
  NoCall

ASSUME MaxLaunchesAssumption == MaxLaunches \in Nat \ {0}

VARIABLES
  device,   \* AsyncStorage's session: its user id, 0 if there is none
  launch,   \* the process, and the user id of its defaultSession
  call,     \* of each call, the user ids getSession has returned to it
  sent      \* history: the requests sent for the user of this installation

phoneVars == <<device, launch, call, sent>>

NoCalls == [c \in PhoneCalls |-> NoCall]

PhoneInit ==
  /\ device = 0
  /\ launch = 1
  /\ call = NoCalls
  /\ sent = {}

Of(c, kind) == call[c] # NoCall /\ call[c].kind = kind

\* A span has its id set by one getSession.  The proxy around a request calls
\* getSession before the function it wraps; an order is made up by its page,
\* with one, before the proxy.
Rounds(kind) == IF kind = "span" THEN 1 ELSE 2

Begin(c, kind) ==
  /\ call[c] = NoCall
  /\ call' = [call EXCEPT ![c] = [kind |-> kind, step |-> "read", users |-> <<>>]]
  /\ UNCHANGED <<device, launch, sent>>

\* The cart query, addItem, emptyCart.
BeginRequest(c) == Begin(c, "request")

\* onPlaceOrder.
BeginOrder(c) == Begin(c, "order")

\* SessionIdProcessor.onStart.
BeginSpan(c) == Begin(c, "span")

Returned(c, user) ==
  LET users == Append(call[c].users, user)
  IN call' = [call EXCEPT ![c] = [call[c] EXCEPT !.step = "read", !.users = users]]

Reading(c) ==
  /\ call[c] # NoCall
  /\ call[c].step = "read"
  /\ Len(call[c].users) < Rounds(call[c].kind)

\* Faulty: setItem is not awaited.
ReadSessionAlone(c) ==
  /\ Reading(c)
  /\ device' \in IF device = 0 THEN {0, launch} ELSE {device}
  /\ Returned(c, IF device = 0 THEN launch ELSE device)
  /\ UNCHANGED <<launch, sent>>

\* getSession: what getItem finds is returned.
ReadSession(c) ==
  /\ Reading(c)
  /\ IF device = 0 THEN call' = [call EXCEPT ![c].step = "store"]
                   ELSE Returned(c, device)
  /\ UNCHANGED <<device, launch, sent>>

\* It found nothing: the default session is written, and returned.
StoreDefault(c) ==
  /\ call[c] # NoCall
  /\ call[c].step = "store"
  /\ device' = launch
  /\ Returned(c, launch)
  /\ UNCHANGED <<launch, sent>>

Ready(c, kind) == Of(c, kind) /\ Len(call[c].users) = Rounds(kind)

End(c) == call' = [call EXCEPT ![c] = NoCall]

\* getCart, addCartItem, emptyCart.
SendRequest(c) ==
  /\ Ready(c, "request")
  /\ sent' = sent \cup {[baggage |-> call[c].users[1], user |-> call[c].users[2]]}
  /\ End(c)
  /\ UNCHANGED <<device, launch>>

\* placeOrder, with the user id the page has put into the order.
SendOrder(c) ==
  /\ Ready(c, "order")
  /\ sent' = sent \cup {[user |-> call[c].users[1], baggage |-> call[c].users[2]]}
  /\ End(c)
  /\ UNCHANGED <<device, launch>>

EndSpan(c) ==
  /\ Ready(c, "span")
  /\ End(c)
  /\ UNCHANGED <<device, launch, sent>>

\* getItem or setItem is rejected.
StorageFails(c) ==
  /\ call[c] # NoCall
  /\ End(c)
  /\ UNCHANGED <<device, launch, sent>>

\* The app was killed, and is started again: it makes up another default.
Restart ==
  /\ launch < MaxLaunches
  /\ launch' = launch + 1
  /\ call' = NoCalls
  /\ UNCHANGED <<device, sent>>

\* The app's data is cleared, which ends it: the next is another shopper.
ClearData ==
  /\ launch < MaxLaunches
  /\ launch' = launch + 1
  /\ call' = NoCalls
  /\ device' = 0
  /\ sent' = {}

PhoneStep(c) ==
  \/ BeginRequest(c) \/ BeginOrder(c) \/ BeginSpan(c)
  \/ ReadSession(c) \/ StoreDefault(c) \/ StorageFails(c)
  \/ SendRequest(c) \/ SendOrder(c) \/ EndSpan(c)

PhoneNext == Restart \/ ClearData \/ \E c \in PhoneCalls : PhoneStep(c)

PhoneSpec == PhoneInit /\ [][PhoneNext]_phoneVars

-----------------------------------------------------------------------------

\* The phone is one shopper, with no exception: whatever it sends, an item or
\* the order, is sent for the stored user and carries that id as baggage, though
\* calls of getSession overlap on a fresh installation and the app may be killed
\* between any two of their steps.
OnePhoneUser == \A request \in sent : request.user = device /\ request.baggage = device

-----------------------------------------------------------------------------
(* What the proof rests on. *)

Call ==
  [kind : {"request", "order", "span"}, step : {"read", "store"},
   users : Seq(1..MaxLaunches)]

PhoneTypeOK ==
  /\ launch \in 1..MaxLaunches
  /\ device \in 0..MaxLaunches
  /\ call \in [PhoneCalls -> Call \cup {NoCall}]

\* A call has been told the stored id only, and what it is about to write is the
\* id that is stored if one is.
CallsAgree ==
  \A c \in PhoneCalls :
    call[c] # NoCall =>
      /\ \A i \in DOMAIN call[c].users : call[c].users[i] = device
      /\ call[c].step = "store" => device \in {0, launch}

\* Nothing was sent without a session.
SessionSent == device = 0 => sent = {} /\ \A c \in PhoneCalls :
                                             call[c] # NoCall => call[c].users = <<>>

PhoneInv == PhoneTypeOK /\ CallsAgree /\ SessionSent /\ OnePhoneUser
=============================================================================
