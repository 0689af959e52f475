# A TLA+ verification of the Astronomy Shop and its incident-management additions

The repository is the OpenTelemetry demo shop - a dozen services in as many
languages that sell telescopes - with scripts that turn its feature flags into
PagerDuty incidents and act on them.  This directory models the services that
keep state or make promises to each other, checks the models with TLC and
proves the most important results with TLAPS.

    tlc -config MCCheckout.cfg Checkout        # a run: see "Runs"
    tlapm CheckoutProofs.tla                   # a proof: see "Proofs"

`PROJECT.json` lists the components, runs, mutants and theorems, and maps every
definition to the lines of the source it translates.


## The system

A shopper's browser, or the mobile app, talks to `frontend` (Next.js), which
calls the services by gRPC and HTTP.  An order goes through `checkout`, which
calls every other service in turn and ends by putting the order on the Kafka
topic `orders`, read by `accounting` and `fraud-detection`.  Feature flags,
served by `flagd` from a file, switch failures on; `flagd-ui` and the drills of
`test/pagerduty` write that file.

| component | state | operations | what is hard | what makes it correct |
|---|---|---|---|---|
| checkout: `PlaceOrder` (`checkout/main.go`) | the requests in flight, the Kafka client | ten remote calls in a fixed order | any call fails or loses its answer, the client gives up, the process dies; orders of one user overlap; the user changes the cart meanwhile; nothing is ever undone | what was charged, shipped, announced and answered agree; nothing is lost or shipped twice but under named conditions |
| checkout: money (`checkout/money/money.go`) | none (loop variables) | `Sum`, `MultiplySlow`, `Must` | signs, carries; an invalid value panics | the total is exact, no order of the catalogue panics |
| checkout: Kafka producer (`checkout/kafka/producer.go`, `sendToPostProcessor`) | three channels shared by all calls | hand over, take an event, give up, log errors, overload | events have no addressee, several receivers compete, channels fill | a call comes back; the producer does not clog |
| cart (`cart/src`) | one hash field per user in Valkey; the connection | AddItem, GetCart, EmptyCart, reconnect | read-modify-write without a lock, two commands that are not one, expiry, time-outs of writes that happened; events of a replaced connection | never more than was added, one line per product, carts expire; atomic for a client that awaits its calls |
| accounting (`accounting/Consumer.cs`) | the Kafka offset, an entity context, three tables | consume, save, commit | redelivery, failed saves, a context that is never cleared, offsets committed anyway | a consumed order is stored or going to be; what stops storage |
| currency (`currency/src/server.cpp`) | the table of rates, which lookups extend | Convert, GetSupportedCurrencies | digits, truncation, unsynchronised insertion | a price keeps its worth; page and order agree |
| shipping, quote | none | get-quote, ship-order | cents in doubles | the quote is charged as it was made |
| product-catalog (`product-catalog/main.go`) | the catalogue, reloaded every 10 s | ListProducts, GetProduct, SearchProducts | replaced while it is read, nil after a failed reload | products do not disappear |
| recommendation | `cached_ids`, `first_run` | ListRecommendations | concurrent read-modify-write; `first_run` is cleared before the call that may fail | concurrent misses never empty the cache |
| ad | the CPU-load switch, its workers | execute, GetAds | unsynchronised switch and singleton | switched off, the load ends |
| payment, email | none | Charge, SendOrderConfirmation | a retry is a second charge | see checkout |
| fraud-detection | a count | consume | stops at the first bad message | - |
| frontend: sessions | the session in localStorage; what each module of a page captured of it | getSession, setSessionValue, open, reload | several tabs read and write it without a lock; each module reads once, at a time of its own | all tabs are one shopper |
| frontend: cart page and API routes | react-query's cache, requests under way | add, empty, order, refetch, switch currency | presses overlap; answers cross changes; a route fails after the order succeeded | a page at rest shows the cart; nothing is shipped twice; an order answered as failed was not placed |
| frontend: gRPC clients and messages (`protos/demo.ts`) | none | encode, decode, fromPartial, toJSON; a call | another version at the other end; int64 as numbers | what is written is read, or refused |
| frontend: cart total (`CartItems.tsx`) | none | the total under a cart | its own sums, beside those of `checkout` | it is what is charged |
| react-native-app | the session in AsyncStorage | getSession; requests, orders, spans | calls overlap across awaits; the app is killed between them | the phone is one shopper |
| feature flags: flagd, flagd-ui, `test/pagerduty/flag_helpers.py` | one JSON file; the copy each page and drill has read | read, edit, save, set and restore | every writer writes all of the copy it read; a write truncates first; writes overlap, fail, are killed | the file stays readable; a saved change stays |
| incident response: `test/pagerduty`, `docker-build/response-automation` | escalation policies, containers | acknowledge, restart, scale | a sequence of requests that may stop half way, retries | a restart restarts each container once |

Interactions the models rest on: `checkout` empties the cart it read several
calls earlier (shared state of cart and checkout); `accounting` gets what the
producer handed over, perhaps not at all or more than once; `currency` is asked
by `frontend` for the page and by `checkout` for the order, at different times;
the tabs of a browser share localStorage and the carts on the server; a reload of
`product-catalog` that fails takes the products from orders, carts and
recommendations alike; `ad` and `recommendation` evaluate, in every call, flags
of a file that several programs overwrite.


## Modules

| module | models | checked by | proofs |
|---|---|---|---|
| `Checkout` | `PlaceOrder` with all its calls, concurrent requests, crash and restart | `checkout` | `CheckoutProofs` |
| `Money` | `money.go` on amounts with `NanosMod` nanos to a unit | with `OrderTotal` and `Prices` | - |
| `OrderTotal` (+ `MCOrderTotal`) | the loop of `PlaceOrder` that sums an order up, through `MultiplySlow` and `Must` | `order_total`, `sum_normal_form` | `OrderTotalProofs` |
| `CartPage` | the total the cart page adds up, over `OrderTotal` | `order_total` | `OrderTotalProofs` |
| `KafkaProducer` (+ `MCKafkaProducer`) | the hand-over to Kafka | `kafka_producer` | `OrdersTopicProofs` |
| `Cart` | what a cart promises a client that awaits its calls (abstract) | as a property of `cart_store` | `CartProofs` |
| `CartStore` | the cart service over Valkey | `cart_store`, `cart_user_id` | `CartProofs` |
| `CartConnection` | the cart service's connection to Valkey: its lock, its flag, its events | `cart_store` | `CartProofs` |
| `MCCart` | the two above in two scenes | `cart_store` | - |
| `Accounting` | the consumer, its context, its tables | `accounting` | `OrdersTopicProofs` |
| `Prices` (+ `MCPrices`) | a price's way from the catalogue, and the quote's, through currency to the page and into the order | `prices`, `dollars_stay_dollars` | `FrontendProofs` |
| `Message` | the functions `demo.ts` has for one message, over any list of fields | with `Rpc` | `MessageProofs` |
| `DemoProto` | every message and service of `demo.ts`, and `Message` at each depth of nesting | with `Rpc` | `FrontendProofs` |
| `Rpc` (+ `MCRpc`) | a call over the generated clients | `rpc` | `FrontendProofs` |
| `Session` | who the shopper is, in every tab | with `Storefront` | `StorefrontProofs` |
| `Storefront` (+ `MCStorefront`) | the cart query, the presses and the API routes behind them, over `Session`, the cart service, the catalogue and checkout | `storefront` | `StorefrontProofs` |
| `Phone` | the mobile app's session | `storefront` (fourth scene) | `StorefrontProofs` |
| `FlagFile` | the pages, routes and drills that write the flag file, and flagd, which reads it | with `Drill` | `DrillProofs` |
| `AdLoad` | the CPU load of the ad service | with `Drill` | - |
| `Recommendation` | the recommendation service's cache | with `Drill` | `DrillProofs` |
| `Drill` (+ `MCDrill`) | the three composed: the file, flagd, and the services that obey its flags | `drill` | `DrillProofs` |

`Storefront` extends `Session`; `Drill` extends `FlagFile`, `AdLoad` and
`Recommendation`, and hands the flags flagd serves to the actions of the latter
two; `CartPage` and `OrderTotal` share `Money` with `Prices`.  `KafkaProducer` and
`Accounting`, the two ends of the topic, have their proofs in one module, and so
have `Prices` and `Rpc`; where the names of two such modules would meet, the first
carries its module's (`ProducerSpec`, `PricesSpec`).

### Checkout

`pc[o]` names the call request `o` makes next, after the Go functions.  Each call
is one action in three outcomes: it succeeds; it fails and changed nothing; it
fails although the service did it ("unknown": the answer was lost).  A request
whose context is done fails every further call.  `PlaceOrder` goes on after a
failed `emptyUserCart` and a failed mail and returns `Internal`, or for shipping
`Unavailable`, otherwise.  A panic - in `Must`, or by calling the Kafka client
that could not be created - kills the process with every request in flight, for
`main` installs no recovery.  A request that dies so is "lost": its client hears
`UNAVAILABLE` from gRPC itself, which `ReplyTellsOutcome` is not about; it says what
the codes that `PlaceOrder` returns tell of the card, the parcel, the cart
(`emptied`) and the announcements.

A shopper adds items and empties the cart at any time; a further request of the
same user is a retry.  The cart service empties a cart in one command of Valkey and
reads it in one, but `AddItemAsync` reads the whole cart (`ReadToAdd`), changes its
copy (`OneMore`) and writes that back (`WriteAdded`), with no lock in between:
`adding` has the copies, of several calls at once, and `outdated` those whose cart an
order has emptied since.  When one is written, items that were shipped are in the
cart again and the next order ships them once more; so the user is then in
`mayRepeat`.  Two additions at once lose one item, which puts the user into `raced`.
The ledger of auxiliary variables says what each user put in, gave up and was
shipped.  That a cart is an atomic one for clients that await their calls
(`ImplementsCart`) is not used here: an order's `EmptyCart` waits for no `AddItem`.

Abstractions: expiry, lost answers and the text of the cart are `CartStore`'s
concern; an order costs what the cart it was priced from says (`OrderTotal` does the
sums, and `SafeAmounts` says whether they may panic), and the hand-over to Kafka is
one step that may lose the message (`KafkaProducer` has the details).

### OrderTotal and Money

One action per statement of the pricing loop, one step of `MultiplyOnce` per
addition.  `Sum` is translated branch by branch, with Go's `/` and `%`.
Quantities are positive: shipping, asked before the sums, refuses others (`u32`
in `shipping_types.rs`, and 0 is omitted from the JSON).

### KafkaProducer

Senders are calls and overload goroutines.  The channel of inputs and the
producer's buffers are one `pipeline`; events are counted, for nothing tells one
from another.  Both channels have the same size in sarama.

### CartStore

A handler stands before one of its awaited commands (`read`, `write`, `expire`).
`Fail` covers an exception, a time-out of a command that was executed all the
same, and the death of the service.  The users in `SerialUsers` have one call
under way at a time; for them `ImplementsCart` shows the atomic `Cart`, which is checked
and proved.  The
mapping takes the cart from the store, except while a handler holds the copy of
a cart that expired since: the write to come brings it back, so that in the
abstract cart nothing happened yet.

### CartConnection

`thread[t]` is where a call stands in `EnsureRedisConnected`.  `created` numbers the
multiplexers, `redis` is the one in use.  A connection fails and is made again when
it likes; `raised` holds the events on their way, which the handlers take in any
order, those of replaced multiplexers too.  `abortConnect=false` lets `Connect`
return a multiplexer that is not connected, in which case the call throws and
`_redis` keeps that multiplexer; one nobody subscribed to raises events nobody hears.
The log says "Disposing the object" when a connection fails
(`ValkeyCartStore.cs:116`), but nothing is disposed: it is the replaced multiplexers
that go on.

### Accounting

`orderRow` and `shipRow` are the states Entity Framework keeps of its entities.
The items of an order share the state of its row.  `SaveChanges` inserts all that
is "added" in one transaction, fails when a key exists, may fail for any other
reason, and may commit without the service learning of it.

### Prices

Amounts are exact integers of nanos, and the doubles of the currency service
exact up to the one nano that truncation may cost.  The loop of `getDouble` is
modelled by what it computes: the digits of the fraction, the first of which
becomes the tenths.

### CartPage

The page makes two reductions of its own, over the items' prices, and carries
once.  `PageTotalIsCharged` compares its total with `PlaceOrder`'s for the same
prices and the same quote of shipping: they agree digit by digit if there is one
of each item, and otherwise the page shows less, for it leaves the quantities
out.  That the prices agree is `Prices`' concern.  The quotes need not be the
same: the quote service makes one up for every request.

### Message, DemoProto and Rpc

`demo.ts` repeats one template for each of its messages.  A message is here its
list of fields - number, name, kind, repeated or not - and `Message` is the
template over such a list: `Encode`, `Decode`, `FromPartial`, `ToJSON`, and `Is`,
its interface.  What it calls for the messages nested in it are constants
(`NestedEncode`, ...), as in the generated code no function calls itself.
`DemoProto` has the lists, mapped each to its own code, and instantiates `Message`
four times, each on top of the last, for messages nest at most four deep: a
`PlaceOrderResponse` has an `OrderResult` has `OrderItem`s has a `CartItem`.

A wire is a sequence of tagged fields.  Left out: the bytes of tags, varints and
lengths, and the tags at which a loop stops early, which no writer of these
messages emits.  JSON is a record without the keys that are undefined.

`Rpc` lets any call of the ten services be made, with the messages `Requests` and
`Responses` allow: `MCRpc` has samples, the proofs all sets of messages.  The
service writes the fields of its answer in an order of its own; the answer may come
from a newer version (an unknown field, a known number with another wire type) and
hold int64 values beyond 2^53 (`MaxSafe` stands for that), at which `longToNumber`
throws.  The messages of react-native-app come from the same file and an older
generator; the app uses their types only.

### Session

`page[t]` is a loaded page: `own`, the user id `v4()` gave it; `captured`, the
sessions `Api.gateway`, `Currency.provider` and `CartDetail` read when each was
evaluated; `currency`; `writes`, the `setItem` calls still to be made by the
script that runs, and `saw`, what it last read.  `getItem` and `setItem` are
atomic; what a tab does between them is not, for tabs run in parallel.  `raced`
records that a tab wrote over a user it had not read.  The captures of telemetry
and labels are left out: they change nothing.

### Storefront

The view of one tab is modelled, with a query per currency as react-query keeps
it: `data`, and a `fetch` that is idle, asked, or answered and not arrived.  The
others press buttons as well.  A press is a request under way, in the steps of its
route: `POST /api/cart` adds, for which the cart service reads the cart into `copy`
and writes it back changed, and then reads; `POST /api/checkout` prepares, ships,
empties and then looks the products up once more.  An order's emptying makes the
copies that additions of its user hold "outdated", as in `Checkout`.  `heard` says
whether the watched page as it is now will hear the answer.  `Lose` is a failure of a
service, at any step, after which nothing further is done; `Disconnect` one that the
page hears of while its request goes on.
Prices are left out (`Prices`, `OrderTotal`), and so is what fails within
`PlaceOrder` (`Checkout`).  `balance` is what a user added and was not shipped;
`doubtful` the users of whom an order was prepared before another had emptied the
cart, or emptying failed, or an addition wrote an outdated copy back; `excused` why
the page may not show its cart.

### Phone

A call is a request, an order or a span, and goes through one or two rounds of
`getSession`, each of which may wait before `getItem` and before `setItem`.
Storage calls may be rejected, the app killed at any await, its data cleared.  All
that is sent carries two ids: the one it is sent for and the one of its baggage.

### FlagFile

A writer - a basic page, an advanced page, a drill - holds the copy it read, with
the flags it changed.  A text is a configuration, `null`, an error, nothing, or
torn (the end of a longer text behind a shorter one, when two writes overlapped);
"validated against the schema" is "is a configuration".  A write opens the file,
which empties it, and writes the text; either may fail.  An answer is shown when
the file is read; a page that is loaded again while its request is under way
leaves it to the route, which is for the file one more page.  `wanted` is the file
as those who saved meant it: each save's own changes applied in order.

### AdLoad

One action per statement of `getInstance`, `execute` and the methods it calls.
The fields `instance` and `running` are shared without a lock, so a read may miss
what an overlapping call wrote (`Seen`); the list of workers has its lock.
`spinning` counts groups of workers that were not told to stop.

### Recommendation

`cached_ids += x` is a load and a store; which calls come between is free.  The
cache is the set of the products in it: how often each occurs, which makes it grow
by a quarter per miss, and the draw of five of them are left out.


## Runs

| run | instance | states | what it shows |
|---|---|---|---|
| `checkout` | 2 orders, 2 `AddItem` calls at a time, 1 user, 1 product, 2 items, Kafka configured, amounts that may panic | 3,087,160 | overlap and retry of orders, with every failure, cancellation, crash and restart, and additions that straddle an order's emptying or each other; two of each are enough to ship twice and to race, and no property relates three |
| `order_total` | 10 nanos, 1 or 2 lines of 1-4 items, amounts on both sides of every branch of `Sum` | 21,489 | the total is exact, does not panic when items cost at least half a unit, and is what the cart page adds up when there is one of each |
| `sum_normal_form` | two items of 0.4 | - | finding 1 |
| `cart_store` | two scenes: 2 users (one serial), 3 handlers, 2 products, quantity 1; 2 threads, 2 failures of connections, 1 attempt that fails | about 70,000 up to symmetry | three handlers are a writer, its rival and a reader, or two writers in a row and one that is late; two threads, two connections and late events of the first are every race for the connection |
| `cart_user_id` | the first scene of these | - | finding 2 |
| `kafka_producer` | 3 calls, 2 overload goroutines of the first, room for one message and one event of each kind | 10,776 | the smallest channels that fill up, with more competitors than events |
| `accounting` | 3 orders, one without an address, 4 messages, 2 crashes | 312,361 | a duplicate across a restart, a poisoned context and an order that comes after it |
| `prices` | 3 digits, 3 currencies and an unknown one, 4 prices, 3 quotes | 18,384 | fractions with and without a leading zero, quotes with and without one |
| `dollars_stay_dollars` | the same | - | finding 3 |
| `rpc` | (`MCRpc`) every call of the ten services; each field at its default or not, nested messages absent, empty and full, int64 values on both sides of `MaxSafe`; three kinds of newer answers | 12,803 | what is written is read, in any order, or refused; JSON keeps it |
| `storefront` | four scenes: 2 tabs that load 2 pages and write sessions; 2 loaded pages with 4 presses, two at a time; the same with 2 presses and 2 currencies; a phone with 2 calls at a time and 3 launches | 1,331,746 | two pages are enough for every race in getSession; an order needs an addition, a rival order and one more press to go wrong, or an addition that straddles its emptying; the currencies matter to the query only |
| `drill` | three scenes: any 2 of a basic page, an advanced page and two drills, with 2 saves; a drill that raises the CPU load while 2 calls go on; a drill that breaks the cache while 2 calls and reloads go on | 243,124 | two writers are enough for overwriting, overlapping and tearing; two calls for every race of the services |

Bounds: `MaxItems`, `MaxLog`, `MaxCrashes`, `Adders` and the sets of calls and handlers cap
how often something happens; `NanosMod` stands for 10^9 (what the sums do depends
on comparisons with it, not on its size - the proofs hold for any); `PipelineCap`
and `EventCap` stand for sarama's 256; `MaxPresses`, `MaxUsers`, `MaxLaunches`,
`MaxWrites` and `MaxInstances` cap what shoppers, users and threads may do.
`MaxFailures` and `MaxMisses` cap the failures of connections: the multiplexers they
can lead to are `Multiplexers`, and more are never made (`OneConnectionPerLoss`).
`MaxSpinning` caps the groups of workers that spin: at the bound a call finds the
load running, so that no call is ever held up by the bound, which would make
liveness hold for the wrong reason.  The scenes of `MCStorefront`, `MCDrill` and `MCCart`
split state spaces whose product is beyond TLC; each scene takes the actions of
the modules as they are, and the theorems need no scenes.

Deadlock is not checked where the program may stop: all orders are served, all
calls used up.

Every property has a mutant, a faulty variant defined beside the definition it
replaces, under which its run fails.

### Fairness

- `OrderTotal`: weak fairness of the loop, which is sequential Go.
- `KafkaProducer`: strong fairness of each sender, for Go queues the receivers of
  a channel first in, first out, so that one who keeps waiting gets its turn; weak
  fairness of the producer, which answers every message it took.  Neither the
  client's cancellation nor the kind of an answer is fair.
- `CartConnection`: weak fairness of each thread, that a call goes on once begun, and
  of each multiplexer's reconnecting, whose policy never gives up
  (`ValkeyCartStore.cs:58`).  Nobody has to call, and events may be late for ever.
  `CallsGetThrough` says that after the last failure no call fails, whatever the flag
  says: the flag may stay wrong, at the price of one more connection.
- `Accounting`: weak fairness of the consuming loop.  No save needs to succeed and
  no crash to happen.
- `Drill`: weak fairness of flagd's watcher, of the threads that serve ads, and of
  ads being asked for (the load generator never stops, locustfile.py:144).  Nobody
  has to press a button, and a drill need not end: `LoadStops` speaks of files that
  say "off" for good.
- The other modules: none; their properties are safety.

### Findings

1. `SumsStayValid`: 0.40 + 0.40 is {units 1, nanos -0.2}, which `demo.proto`
   forbids and the next `Sum` rejects: `Must` panics and ends the process.  It
   takes an item below half a unit, which today's catalogue has not.  Above that
   nothing panics (`NeverPanics`, proved).
2. `CartCarriesUserId`: a cart that was emptied and filled again carries no user
   id, although the service's tests expect one.  No caller reads it today.
3. `DollarsStayDollars`: the currency service drops the leading zeros of a
   fraction.  The catalogue's 57.08 is shown as 57.08 and charged as 57.80.

What holds only under conditions is stated with them and is worth as much: who
may be shipped twice (`NothingShippedTwice`, `ShippedOnce`), whose items may
vanish (`NothingVanishes`), what poisons accounting (`PoisonHasCause`), what clogs
the producer (`ClogsOnlyAfterLeaks`), when two tabs are two shoppers
(`OneShopper`), when a page shows an old cart (`ViewFresh`), what spoils the flag
file (`BadFileHasCause`) and which changes of it are lost (`ChangesSurvive`).

Facts that came up while modelling, beside the findings: the cart page's total
leaves out quantities and shows a quote of shipping that is made anew for the
order; calls of GetAds that race at the start may create two CPULoads, and the
workers of one of them then spin for good, which the comment at `CPULoad.java:42`
does not foresee (`LoadStops` excepts it); the save button of flagd-ui's basic
page works before the file was read and then writes `null`; `setSessionValue` of
the mobile app spreads a Promise and would lose the user id - nobody calls it.


## Proofs

For every value of the constants:

- **`CheckoutProofs`** - all six invariants of the run.  `IInv` adds, per request,
  what its place in the sequence implies: before `chargeCard` nothing was
  charged, before `shipOrder` nothing shipped, past `emptyUserCart` what was
  shipped is what was read, and so on; and it relates the ledger of a user to the
  orders between shipping and emptying.  `NothingShippedTwice` needs that at most
  one order of a user who is not in `mayRepeat` is in flight, and that what is held in
  copies that are not outdated has, like the cart, not been shipped; for
  `NothingVanishes`, that each copy an `AddItem` holds makes up, with what was shipped,
  for all the user wants, as the cart does.
- **`OrderTotalProofs`** - the total is exact: the invariant is that `total` is
  worth `due` and, inside `MultiplySlow`, that `out` is worth the price times the
  additions made.  That is `ExactInv`; it needs that `Sum` preserves worth, for
  all amounts.  `SafeInv`, for `NeverPanics` and `SafeTotalsValid`, says that every
  amount on the way is a valid one of at least half a unit, and needs that two of
  those have a sum of whole units.  And over `CartPage`, `PageTotalIsCharged`:
  `PageInv` compares what is owed for the lines added so far with what the page has
  added up for them (`Shown`); at the end both are amounts in normal form, and
  those of one worth are one (`NormalFormIsOne`).  What the page's sums are is
  proved by induction on the lines of the order (`ReducedSteps`): the library's
  induction theorems are out of the provers' reach, but `WFMin`, that a set of
  naturals has a least element, is not, and serves as well (`LeastNatural`).
- **`OrdersTopicProofs`** - over `KafkaProducer`, all three invariants of its run,
  for any number of calls, overload goroutines and places in the channels.
  `ProducerInv` adds to the count of events, which is `EventsAccountedFor`, that
  an overload goroutine exists only after its call (`OverloadFollowsCall`); the
  rest is counting, over the sets of senders that wait and that have given up.
  Over `Accounting`, all four invariants of its run and the action property
  `PoisonStopsStorage`: `IInv` adds that tracked orders were consumed by this
  process, that "unchanged" ones are in their table, and that shipments are
  "added" together with their orders.
- **`CartProofs`** - the three invariants of the store, `OneConnectionPerLoss`, and
  the refinement: a client that awaits its calls sees the atomic `Cart`
  (`StoreIsAtomicCart`).  `StoreInv` counts units one by one: each unit a cart
  holds, and each that is being added, belongs to a call that was begun
  (`HeldWasBegun`), which is why nothing is added twice.  `SerialInv` adds, of a
  serial user, that at most one handler has work for it (`Alone`), that only a
  handler that read may write (`WritersWrite`), and that the copy it read is what
  is stored unless the cart expired since (`CopyIsCurrent`).  From it the mapped
  state is read off (`View`), and each step is shown to be one of `Cart` or a
  stutter (`StepSeen`, `OnlySeenBy`).  For the connection, `ConnInv` adds that who
  sets a connection up holds the lock, and that who is about to connect, and whoever
  could be next, has a failure or a missed attempt that no connection was made for
  (`OwedBeforeConnect`).
- **`FrontendProofs`** - over `Prices`, both invariants of its run, for every
  table of rates, every price and every quote, with 10^2 to 10^9 nanos to a unit.
  `PricesInv` says that what a page shows and what an order charges are answers
  the currency service may give to the same question, asked with the rates the
  table began with; the lemmas say which number the loop of `getDouble` makes of a
  fraction (`FractionRead`), that two answers to a question are a nano apart at
  most (`AnswersAreClose`), and what a quote loses on its way to cents
  (`QuoteInDollars`).
  Over `Rpc`, both invariants of its run, for every set of requests and answers that
  are messages of their types, whatever their values: `IInv` says that, at each round of
  the client's decoding loop, what was read, completed by what is left on the wire, is
  the answer, and that what is left will be refused exactly when the answer has an
  int64 that is no safe integer.  A round keeps the first because fields of different
  numbers commute (`AnyOrder`), a first round because fields of a newer version are
  skipped (`NewerSkipped`); a request, and an answer before the first round, because
  reading undoes writing (`MessagesFaithful`).
- **`MessageProofs`** - one message of any list of fields whose numbers and names
  differ: decoding undoes encoding, refuses exactly the unsafe integers, and
  `FromPartial` undoes `ToJSON` and `Stringified`, if so it is for the messages nested
  in it (`FaithfulIfNested`).  Encoding and decoding are functions of the number of
  fields and of rounds, and the proof is by induction on these; as the library's induction
  theorems take a predicate, `Induct` takes a set for it and rests on `WFMin`.
  `FrontendProofs` applies the theorem four times, from the messages that nest nothing
  upwards (`Faithful1` to `Faithful4`), and shows that the requests and answers of all
  ten services are of types that it covers (`CallTypes`).
- **`StorefrontProofs`** - over all of `Storefront`, for any number of tabs, pages,
  presses, currencies and products:
  `OneShopper`: `SessionInv` adds `OneWriter`: a script with writes to make writes
  for one user, its captures are that user's, and it has seen nobody else's session -
  which is why a write over another user's session must be a race.
  `ShippedOnce` and `HiddenOrderHasCause`: `ShopInv` adds, of every user not in
  `doubtful`, that at most one order stands between reading the cart and emptying it,
  that what it is about to ship was added and not shipped yet, and that otherwise
  all of the cart was, and all that additions have read of it (`UserLedgerOK`).
  `ViewFresh`: `ViewInv` adds what a page is still owed while it waits: unless it is
  excused or a press of its own has changed a cart and will be answered (`Owed`), a
  query that has been read is about to show the cart as it is, not only one that shows
  it (`ViewKept`); and a page that has not read its currency has asked for nothing
  (`AsksWhenLoaded`), so that the currency it reads late changes no view.
  And over `Phone`, for any number of calls and launches, `OnePhoneUser`: `PhoneInv`
  adds that every id a call was told is the stored one and that what it is about to
  write is stored already or nothing is (`CallsAgree`): a process writes one default
  only, which is why overlapping calls do no harm here.
- **`DrillProofs`** - all three invariants of the run, over all of `Drill`.
  `EmptyCacheHasCause`: `RecInv` adds that what a call is about to store is not empty
  and that once a call has stored its answer the cache stays filled, unless the
  catalogue was once empty.
  `BadFileHasCause` and `ChangesSurvive`, for any number of pages, drills and flags:
  `FileInv` has what texts each writer may hold (`FileShape`); that a writer at
  work overlaps with another or finds the file as it truncated it
  (`DamageHasCause`); and that, as long as nobody wrote an old copy and no drill was
  cut short or can be, each copy that is still fresh has what is wanted but for
  its own changes, and a drill at work holds what is wanted once it has restored its
  flag (`WantedKept`).

Assumptions are those the modules state about their constants; nothing else is
assumed.  Those of `Rpc` (`MessagesAssumption`, `MaxSafeAssumption`) say that what
is passed has the type its interface declares, and that `undefined` is no value of
a field but an absent message; TLC evaluates them for the samples of `MCRpc`.
Each inductive invariant was checked by TLC on its run's instance before it was
proved.

Left to TLC: the five liveness properties (`PricingEnds`, `CallsGetThrough`,
`PlaceOrderReturns`, `EverythingConsumed`, `LoadStops`), which are beyond the prover,
and the three findings, which are counterexamples.  Every other property of a run, 35
of 40, is a theorem.  The type invariants of `OrderTotal`, `KafkaProducer`, `CartStore`
and `Prices`, which are proved, are checked by no run: they serve the proofs.
Only `MCRpc`, which builds sample messages, declares RECURSIVE operators.


## Not modelled

Card validation, ad and product search (pure); telemetry, logging and dashboards
(no effect on the services' state, beyond the amounts they report); Docker, Envoy,
Terraform and generated code other than `demo.ts` (third-party or configuration).
The load generator is a client whose calls the models make already.  Of the mobile
app, the screens and the cart query, which repeat the frontend's.  The incident
response: what it changes is kept by PagerDuty and Docker;
`ensure_team_has_real_oncall`, which would rewrite the escalation policies
(`pd_helpers.py:34`), is called by nothing in the repository, and the tests import
a `wait_for_assignment_and_ack` that `pd_helpers.py` does not have.
`fraud-detection`, a counter that is only logged.  The configuration of accounting
without a database, which stores nothing.  Data races inside libraries (the hash
table of currency) are named under hazards only.


## Plan

`response-automation`: a restart that failed half way is retried from the first
container.
