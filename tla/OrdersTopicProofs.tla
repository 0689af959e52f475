------------------------- MODULE OrdersTopicProofs -------------------------
(***************************************************************************)
(* Proofs about the two ends of the topic "orders": the producer of        *)
(* checkout (KafkaProducer) and the accounting service (Accounting).       *)
(*                                                                         *)
(* The events of the producer are accounted for, for any numbers of calls, *)
(* of overload goroutines and of places in the channels; who can wait in   *)
(* vain, and when the producer clogs, follows by counting.                 *)
(*                                                                         *)
(* What accounting loses, and what poisons it, holds for every number of   *)
(* orders, messages and crashes.  IInv adds to the properties of Accounting *)
(* what the context's entities say of the topic and the tables.            *)
(***************************************************************************)
EXTENDS Accounting, KafkaProducer, FiniteSetTheorems, TLAPS

-----------------------------------------------------------------------------
(* The producer. *)

\* An overload goroutine is started by the end of its call, so none waits for an
\* event when its call is about to start it.
OverloadFollowsCall ==
  \A g \in Overloads : at[g] # "idle" => at[g[1]] = "returned"

ProducerInv == ProducerTypeOK /\ OverloadFollowsCall /\ EventsAccountedFor

-----------------------------------------------------------------------------
\* Counting those who wait.

LEMMA SendersFinite ==
  /\ IsFiniteSet(Senders)
  /\ \A g \in Overloads : g[1] \in Calls
<1>1. IsFiniteSet(Senders)
  BY ProducerAssumption, FS_Union DEF Senders
<1>2. \A g \in Overloads : g[1] \in Calls
  BY ProducerAssumption
<1> QED
  BY <1>1, <1>2

LEMMA AwaitingFinite == IsFiniteSet(Awaiting) /\ Cardinality(Awaiting) \in Nat
<1>1. IsFiniteSet(Awaiting)
  BY SendersFinite, FS_Subset DEF Awaiting
<1> QED
  BY <1>1, FS_CardinalityType

\* One more waits for an event.
LEMMA OneMoreWaits ==
  ASSUME NEW s \in Senders, at[s] # "await", Awaiting' = Awaiting \cup {s}
  PROVE  Cardinality(Awaiting)' = Cardinality(Awaiting) + 1
<1>1. s \notin Awaiting
  BY DEF Awaiting
<1> QED
  BY <1>1, AwaitingFinite, FS_AddElement

\* One waits no more.
LEMMA OneWaitsNoMore ==
  ASSUME NEW s \in Senders, at[s] = "await", Awaiting' = Awaiting \ {s}
  PROVE  Cardinality(Awaiting)' = Cardinality(Awaiting) - 1
<1>1. s \in Awaiting
  BY DEF Awaiting
<1> QED
  BY <1>1, AwaitingFinite, FS_RemoveElement

-----------------------------------------------------------------------------
\* What becomes of the senders.

\* A call or goroutine goes on to another step, and is not started anew.
LEMMA SenderMoves ==
  ASSUME ProducerTypeOK, OverloadFollowsCall, NEW s \in Senders,
         NEW step \in {"input", "await", "returned"},
         at' = [at EXCEPT ![s] = step],
         s \in Overloads => at[s] # "idle",
         at[s] # "returned"
  PROVE  /\ at' \in [Senders -> {"idle", "input", "await", "returned"}]
         /\ OverloadFollowsCall'
         /\ Awaiting' = IF step = "await" THEN Awaiting \cup {s} ELSE Awaiting \ {s}
<1>1. at' \in [Senders -> {"idle", "input", "await", "returned"}]
  BY DEF ProducerTypeOK
<1>2. OverloadFollowsCall'
  BY SendersFinite, ProducerAssumption DEF ProducerTypeOK, OverloadFollowsCall, Senders
<1>3. Awaiting' = IF step = "await" THEN Awaiting \cup {s} ELSE Awaiting \ {s}
  BY DEF ProducerTypeOK, Awaiting
<1> QED
  BY <1>1, <1>2, <1>3

\* A call returns, and may start its goroutines: they were all idle.
LEMMA CallReturns ==
  ASSUME ProducerTypeOK, OverloadFollowsCall, NEW c \in Calls, at[c] = "await",
         NEW flagOn \in BOOLEAN, ReturnAndOverload(c, flagOn)
  PROVE  /\ at' \in [Senders -> {"idle", "input", "await", "returned"}]
         /\ OverloadFollowsCall'
         /\ Awaiting' = Awaiting \ {c}
<1> USE DEF ProducerTypeOK, OverloadFollowsCall, ReturnAndOverload, Senders
<1>1. at' \in [Senders -> {"idle", "input", "await", "returned"}]
  OBVIOUS
<1>2. OverloadFollowsCall'
  BY SendersFinite, ProducerAssumption
<1>3. \A g \in Overloads : g[1] = c => at[g] = "idle"
  OBVIOUS
<1>4. Awaiting' = Awaiting \ {c}
  BY <1>3 DEF Awaiting
<1> QED
  BY <1>1, <1>2, <1>4

-----------------------------------------------------------------------------
LEMMA ProducerInvInit == ProducerInit => ProducerInv
<1> SUFFICES ASSUME ProducerInit PROVE ProducerInv
  OBVIOUS
<1>1. ProducerTypeOK /\ OverloadFollowsCall
  BY ProducerAssumption DEF ProducerInit, ProducerTypeOK, OverloadFollowsCall, Senders
<1>2. Awaiting = {}
  BY DEF ProducerInit, Awaiting
<1>3. EventsAccountedFor
  BY <1>2, FS_EmptySet DEF ProducerInit, EventsAccountedFor
<1> QED
  BY <1>1, <1>3 DEF ProducerInv

\* A message is handed over, by a call or by a goroutine.
LEMMA InputKeepsInv ==
  ASSUME ProducerInv, NEW s \in Senders, Input(s)
  PROVE  ProducerInv'
<1> USE DEF ProducerInv, Input
<1>1. /\ at' \in [Senders -> {"idle", "input", "await", "returned"}]
      /\ OverloadFollowsCall'
      /\ Awaiting' = Awaiting \cup {s}
  BY SenderMoves
<1>2. ProducerTypeOK'
  BY <1>1, ProducerAssumption DEF ProducerTypeOK
<1>3. Cardinality(Awaiting)' = Cardinality(Awaiting) + 1
  BY <1>1, OneMoreWaits
<1>4. EventsAccountedFor'
  BY <1>3, AwaitingFinite DEF EventsAccountedFor, ProducerTypeOK
<1> QED
  BY <1>1, <1>2, <1>4

\* Nobody begins or ends to wait.
LEMMA SamePlaces ==
  ASSUME ProducerInv, Awaiting' = Awaiting, OverloadFollowsCall', ProducerTypeOK',
         abandoned' = abandoned,
         pipeline' + successes' + errors' + drained' = pipeline + successes + errors + drained
  PROVE  ProducerInv'
BY DEF ProducerInv, EventsAccountedFor

\* The steps of a call (sendToPostProcessor), each of its five ways on.
LEMMA CallKeepsInv ==
  ASSUME ProducerInv, NEW c \in Calls, Send(c) \/ ContextDone(c) \/ Call(c)
  PROVE  ProducerInv'
<1> USE DEF ProducerInv
<1>1. c \in Senders /\ c \notin Overloads
  BY ProducerAssumption DEF Senders
<1>2. CASE Send(c) \/ GiveUpInput(c)
  <2>1. PICK step \in {"input", "returned"} : at' = [at EXCEPT ![c] = step]
    BY <1>2 DEF Send, GiveUpInput
  <2>2. UNCHANGED <<done, pipeline, successes, errors, drained, abandoned>>
    BY <1>2 DEF Send, GiveUpInput, channels
  <2>3. at[c] \in {"idle", "input"}
    BY <1>2 DEF Send, GiveUpInput
  <2>4. /\ at' \in [Senders -> {"idle", "input", "await", "returned"}]
        /\ OverloadFollowsCall'
        /\ Awaiting' = Awaiting \ {c}
    BY <1>1, <2>1, <2>3, SenderMoves
  <2>5. Awaiting' = Awaiting
    BY <2>3, <2>4 DEF Awaiting
  <2>6. ProducerTypeOK'
    BY <2>2, <2>4 DEF ProducerTypeOK
  <2> QED
    BY <2>2, <2>4, <2>5, <2>6, SamePlaces
<1>3. CASE ContextDone(c)
  <2>1. UNCHANGED <<at, pipeline, successes, errors, drained, abandoned>>
    BY <1>3 DEF ContextDone, channels
  <2>2. ProducerTypeOK'
    BY <1>3, <2>1 DEF ContextDone, ProducerTypeOK
  <2>3. OverloadFollowsCall' /\ Awaiting' = Awaiting
    BY <2>1 DEF OverloadFollowsCall, Awaiting
  <2> QED
    BY <2>1, <2>2, <2>3, SamePlaces
<1>4. CASE Input(c)
  BY <1>1, <1>4, InputKeepsInv
<1>5. CASE TakeSuccess(c) \/ TakeError(c) \/ Abandon(c)
  <2>1. at[c] = "await"
    BY <1>5 DEF TakeSuccess, TakeError, Abandon
  <2>2. PICK flagOn \in BOOLEAN : ReturnAndOverload(c, flagOn)
    BY <1>5 DEF TakeSuccess, TakeError, Abandon
  <2>3. /\ at' \in [Senders -> {"idle", "input", "await", "returned"}]
        /\ OverloadFollowsCall'
        /\ Awaiting' = Awaiting \ {c}
    BY <2>1, <2>2, CallReturns
  <2>4. Cardinality(Awaiting)' = Cardinality(Awaiting) - 1
    BY <1>1, <2>1, <2>3, OneWaitsNoMore
  <2>5. ProducerTypeOK'
    BY <1>5, <2>3, ProducerAssumption DEF TakeSuccess, TakeError, Abandon, ProducerTypeOK, channels
  <2>6. EventsAccountedFor'
    BY <1>5, <2>4, AwaitingFinite
    DEF TakeSuccess, TakeError, Abandon, EventsAccountedFor, ProducerTypeOK, channels
  <2> QED
    BY <2>3, <2>5, <2>6
<1> QED
  BY <1>2, <1>3, <1>4, <1>5 DEF Call

\* The steps of an overload goroutine.
LEMMA OverloadKeepsInv ==
  ASSUME ProducerInv, NEW g \in Overloads, Overload(g)
  PROVE  ProducerInv'
<1> USE DEF ProducerInv
<1>1. g \in Senders
  BY DEF Senders
<1>2. CASE Input(g)
  BY <1>1, <1>2, InputKeepsInv
<1>3. CASE OverloadTakesSuccess(g)
  <2> USE <1>3 DEF OverloadTakesSuccess
  <2>1. /\ at' \in [Senders -> {"idle", "input", "await", "returned"}]
        /\ OverloadFollowsCall'
        /\ Awaiting' = Awaiting \ {g}
    BY <1>1, SenderMoves
  <2>2. Cardinality(Awaiting)' = Cardinality(Awaiting) - 1
    BY <1>1, <2>1, OneWaitsNoMore
  <2>3. ProducerTypeOK'
    BY <2>1, ProducerAssumption DEF ProducerTypeOK
  <2>4. EventsAccountedFor'
    BY <2>2, AwaitingFinite DEF EventsAccountedFor, ProducerTypeOK
  <2> QED
    BY <2>1, <2>3, <2>4
<1> QED
  BY <1>2, <1>3 DEF Overload

\* The steps of the producer, and of the goroutine that logs its errors.
LEMMA ProducerKeepsInv ==
  ASSUME ProducerInv, Succeed \/ Fail \/ LogError
  PROVE  ProducerInv'
<1> USE DEF ProducerInv, Succeed, Fail, LogError
<1>1. at' = at /\ done' = done /\ abandoned' = abandoned
  OBVIOUS
<1>2. ProducerTypeOK'
  BY <1>1, ProducerAssumption DEF ProducerTypeOK
<1>3. OverloadFollowsCall' /\ Awaiting' = Awaiting
  BY <1>1 DEF OverloadFollowsCall, Awaiting
<1>4. pipeline' + successes' + errors' + drained' = pipeline + successes + errors + drained
  BY DEF ProducerTypeOK
<1> QED
  BY <1>1, <1>2, <1>3, <1>4, SamePlaces

LEMMA StutterKeepsInv ==
  ASSUME ProducerInv, UNCHANGED producerVars
  PROVE  ProducerInv'
BY DEF ProducerInv, ProducerTypeOK, OverloadFollowsCall, EventsAccountedFor, Awaiting, producerVars, channels

\* The inductive invariant of the hand-over to Kafka.
LEMMA AlwaysProducerInv == ProducerSpec => []ProducerInv
<1>1. ProducerInv /\ [ProducerNext]_producerVars => ProducerInv'
  BY CallKeepsInv, OverloadKeepsInv, ProducerKeepsInv, StutterKeepsInv DEF ProducerNext
<1> QED
  BY <1>1, ProducerInvInit, PTL DEF ProducerSpec

-----------------------------------------------------------------------------
\* The values of the variables: no channel ever holds more than it has room for.
THEOREM ProducerTypeCorrect == ProducerSpec => []ProducerTypeOK
<1>1. ProducerInv => ProducerTypeOK
  BY DEF ProducerInv
<1> QED
  BY <1>1, AlwaysProducerInv, PTL

\* Every message handed over to the producer has exactly one event, and every
\* event one sender that takes it, but for errors the logging goroutine takes and
\* calls that gave up (sendToPostProcessor, producer.go).
THEOREM EventsCounted == ProducerSpec => []EventsAccountedFor
<1>1. ProducerInv => EventsAccountedFor
  BY DEF ProducerInv
<1> QED
  BY <1>1, AlwaysProducerInv, PTL

\* A call or goroutine waits in vain - no event there or to come - only after the
\* logging goroutine took an error that one of them waited for.
THEOREM InVainOnlyAfterDrain == ProducerSpec => []WaitsInVainOnlyAfterDrain
<1>1. ProducerInv => WaitsInVainOnlyAfterDrain
  <2> SUFFICES ASSUME ProducerInv, InVain PROVE drained > abandoned
    BY DEF WaitsInVainOnlyAfterDrain
  <2>1. Cardinality(Awaiting) # 0
    BY AwaitingFinite, FS_EmptySet DEF InVain
  <2> QED
    BY <2>1, AwaitingFinite DEF ProducerInv, ProducerTypeOK, EventsAccountedFor, InVain
<1> QED
  BY <1>1, AlwaysProducerInv, PTL

\* The producer is full for good, with nobody left to take an event, only after
\* as many calls gave up as it has room for.
THEOREM ClogsAfterLeaks == ProducerSpec => []ClogsOnlyAfterLeaks
<1>1. ProducerInv => ClogsOnlyAfterLeaks
  <2> SUFFICES ASSUME ProducerInv, Clogged PROVE abandoned >= PipelineCap + EventCap
    BY DEF ClogsOnlyAfterLeaks
  <2>1. Cardinality(Awaiting) = 0
    BY FS_EmptySet DEF Clogged
  <2> QED
    BY <2>1, ProducerAssumption DEF ProducerInv, ProducerTypeOK, EventsAccountedFor, Clogged
<1> QED
  BY <1>1, AlwaysProducerInv, PTL

-----------------------------------------------------------------------------
(* The accounting service. *)

\* A tracked order was consumed by this process.
TrackedWasConsumed ==
  \A o \in Orders : orderRow[o] # "untracked" => \E k \in 1 .. position : log[k] = o

\* An "unchanged" order is in its table; a stored order is "unchanged", or
\* some former process or a lost answer explains why it is not.
UnchangedIsStored == \A o \in Orders : orderRow[o] = "unchanged" => o \in stored
StoredIsExplained == \A o \in stored : orderRow[o] = "unchanged" \/ o \in former \cup unknown

\* The shipment of an order is to be inserted exactly when the order is,
\* unless it has no address.
RowsGoTogether ==
  \A o \in Orders : shipRow[o] = "added" <=> orderRow[o] = "added" /\ o \notin NoAddress

IInv ==
  /\ TypeOK
  /\ TrackedWasConsumed /\ UnchangedIsStored /\ StoredIsExplained /\ RowsGoTogether
  /\ ConsumedIsAccountedFor /\ PoisonHasCause /\ ShipmentsFollowOrders

USE DEF kafka, context, database, ghosts, vars

-----------------------------------------------------------------------------
LEMMA InitIInv == Init => IInv
BY AccountingAssumption
   DEF Init, IInv, TypeOK, TrackedWasConsumed, UnchangedIsStored, StoredIsExplained,
       RowsGoTogether, ConsumedIsAccountedFor, PoisonHasCause, ShipmentsFollowOrders,
       Untracked, Added, RowState

\* Every step keeps every variable in its type.
LEMMA TypeStep == TypeOK /\ [Next]_vars => TypeOK'
<1> SUFFICES ASSUME TypeOK, [Next]_vars PROVE TypeOK'
  OBVIOUS
<1> USE AccountingAssumption DEF TypeOK, RowState
<1>1. ASSUME NEW o \in Orders, Publish(o) PROVE TypeOK'
  BY <1>1 DEF Publish
<1>2. CASE Consume
  BY <1>2 DEF Consume
<1>3. CASE AutoCommit
  BY <1>3 DEF AutoCommit
<1>4. CASE ProcessMessage
  <2>1. position \in 1 .. Len(log) /\ Order \in Orders
    BY <1>4 DEF ProcessMessage, Order
  <2>2. /\ UNCHANGED <<log, position, committed, crashes, forgotten, former>>
        /\ pc' = "poll"
    BY <1>4 DEF ProcessMessage
  <2>3. CASE AddThrows
    BY <2>2, <2>3 DEF AddThrows
  <2>4. CASE AddressThrows
    BY <2>1, <2>2, <2>4 DEF AddressThrows
  <2>5. CASE AddAndSave
    <3> DEFINE orders == [orderRow EXCEPT ![Order] = "added"]
               ships == [shipRow EXCEPT ![Order] = "added"]
    <3>1. orders \in [Orders -> RowState] /\ ships \in [Orders -> RowState]
      BY <2>1
    <3> HIDE DEF orders, ships
    <3>2. PICK outcome \in {"ok", "failed", "unknown"} : Save(orders, ships, outcome)
      BY <2>5 DEF AddAndSave, orders, ships
    <3> QED
      BY <2>2, <3>1, <3>2 DEF Save, AfterSave, AllUnchanged, Added
  <2> QED BY <1>4, <2>3, <2>4, <2>5 DEF ProcessMessage
<1>5. CASE Crash
  BY <1>5 DEF Crash, Untracked, Added, Order
<1>6. CASE UNCHANGED vars
  BY <1>6
<1> QED BY <1>1, <1>2, <1>3, <1>4, <1>5, <1>6 DEF Next

\* What AddAndSave does, outcome by outcome.
SavedOutcome(outcome) ==
  LET rows == Added(orderRow) \cup {Order}
  IN /\ outcome = "ok" =>
          /\ rows \cap stored = {}
          /\ stored' = stored \cup rows
          /\ shipments' = shipments \cup Added(shipRow) \cup {Order}
          /\ orderRow' = [o \in Orders |-> IF o \in rows THEN "unchanged" ELSE orderRow[o]]
          /\ Added(shipRow') = {}
          /\ unknown' = unknown
     /\ outcome # "ok" =>
          /\ orderRow' = [orderRow EXCEPT ![Order] = "added"]
          /\ shipRow' = [shipRow EXCEPT ![Order] = "added"]
     /\ outcome = "failed" => UNCHANGED <<database, unknown>>
     /\ outcome = "unknown" =>
          /\ stored' = stored \cup rows
          /\ shipments' = shipments \cup Added(shipRow) \cup {Order}
          /\ unknown' = unknown \cup rows

LEMMA SaveOutcomes ==
  ASSUME TypeOK, AddAndSave, Order \in Orders
  PROVE  \E outcome \in {"ok", "failed", "unknown"} : SavedOutcome(outcome)
<1> DEFINE orders == [orderRow EXCEPT ![Order] = "added"]
           ships == [shipRow EXCEPT ![Order] = "added"]
<1>1. /\ orders \in [Orders -> RowState] /\ ships \in [Orders -> RowState]
      /\ Added(orders) = Added(orderRow) \cup {Order}
      /\ Added(ships) = Added(shipRow) \cup {Order}
  BY DEF TypeOK, RowState, Added
<1>2. AllUnchanged(orders)
        = [o \in Orders |-> IF o \in Added(orderRow) \cup {Order} THEN "unchanged" ELSE orderRow[o]]
  BY DEF TypeOK, AllUnchanged, Added
<1>3. Added(AllUnchanged(ships)) = {}
  BY <1>1 DEF AllUnchanged, Added, RowState
<1>4. PICK outcome \in {"ok", "failed", "unknown"} : Save(orders, ships, outcome)
  BY DEF AddAndSave
<1> HIDE DEF orders, ships
<1>5. outcome = "ok" => SavedOutcome(outcome)
  BY <1>1, <1>2, <1>3, <1>4 DEF Save, AfterSave, SavedOutcome, Insertable
<1>6. outcome # "ok" => SavedOutcome(outcome)
  BY <1>1, <1>4 DEF Save, AfterSave, SavedOutcome, orders, ships
<1> QED BY <1>5, <1>6

-----------------------------------------------------------------------------
Rest ==
  /\ TrackedWasConsumed /\ UnchangedIsStored /\ StoredIsExplained /\ RowsGoTogether
  /\ ConsumedIsAccountedFor /\ PoisonHasCause /\ ShipmentsFollowOrders

LEMMA RestStep == IInv /\ [Next]_vars => Rest'
<1> SUFFICES ASSUME IInv, [Next]_vars PROVE Rest'
  OBVIOUS
<1>t. TypeOK /\ TypeOK'
  BY TypeStep DEF IInv
<1> USE <1>t, AccountingAssumption DEF IInv, Rest
<1>1. ASSUME NEW o \in Orders, Publish(o) PROVE Rest'
  <2>1. /\ \A k \in 1 .. position : log'[k] = log[k]
        /\ UNCHANGED <<pc, position, committed, context, database, ghosts>>
    BY <1>1 DEF Publish, TypeOK
  <2> QED
    BY <2>1 DEF TrackedWasConsumed, UnchangedIsStored, StoredIsExplained, RowsGoTogether,
                ConsumedIsAccountedFor, PoisonHasCause, ShipmentsFollowOrders, Added
<1>2. CASE Consume
  BY <1>2 DEF Consume, TrackedWasConsumed, UnchangedIsStored, StoredIsExplained, RowsGoTogether,
              ConsumedIsAccountedFor, PoisonHasCause, ShipmentsFollowOrders, Added, TypeOK
<1>3. CASE AutoCommit
  BY <1>3 DEF AutoCommit, TrackedWasConsumed, UnchangedIsStored, StoredIsExplained, RowsGoTogether,
              ConsumedIsAccountedFor, PoisonHasCause, ShipmentsFollowOrders, Added
<1>4. CASE ProcessMessage
  <2>1. /\ pc = "process" /\ position \in 1 .. Len(log)
        /\ Order = log[position] /\ Order \in Orders
    BY <1>4 DEF ProcessMessage, Order, TypeOK
  <2>2. UNCHANGED <<log, position, committed, crashes, forgotten, former>> /\ pc' = "poll"
    BY <1>4 DEF ProcessMessage
  <2>3. CASE AddThrows
    BY <2>1, <2>2, <2>3
       DEF AddThrows, TrackedWasConsumed, UnchangedIsStored, StoredIsExplained, RowsGoTogether,
           ConsumedIsAccountedFor, PoisonHasCause, ShipmentsFollowOrders, Added, TypeOK, RowState
  <2>4. CASE AddressThrows
    BY <2>1, <2>2, <2>4
       DEF AddressThrows, TrackedWasConsumed, UnchangedIsStored, StoredIsExplained, RowsGoTogether,
           ConsumedIsAccountedFor, PoisonHasCause, ShipmentsFollowOrders, Added, TypeOK, RowState
  <2>5. CASE AddAndSave
    <3>1. orderRow[Order] = "untracked" /\ Order \notin NoAddress
      BY <2>5 DEF AddAndSave
    <3>2. PICK outcome \in {"ok", "failed", "unknown"} : SavedOutcome(outcome)
      BY <2>1, <2>5, SaveOutcomes
    <3>3. TrackedWasConsumed'
      BY <2>1, <2>2, <3>2 DEF TrackedWasConsumed, SavedOutcome, Added, TypeOK
    <3>4. UnchangedIsStored' /\ StoredIsExplained'
      BY <2>1, <2>2, <3>1, <3>2 DEF UnchangedIsStored, StoredIsExplained, SavedOutcome, Added, TypeOK
    <3>5. RowsGoTogether'
      BY <2>1, <3>1, <3>2 DEF RowsGoTogether, SavedOutcome, Added, TypeOK
    <3>6. ConsumedIsAccountedFor'
      BY <2>1, <2>2, <3>1, <3>2 DEF ConsumedIsAccountedFor, SavedOutcome, Added, TypeOK
    <3>7. PoisonHasCause'
      BY <2>1, <2>2, <3>1, <3>2 DEF PoisonHasCause, StoredIsExplained, SavedOutcome, Added, TypeOK
    <3>8. ShipmentsFollowOrders'
      BY <2>1, <3>1, <3>2 DEF ShipmentsFollowOrders, RowsGoTogether, SavedOutcome, Added, TypeOK
    <3> QED BY <3>3, <3>4, <3>5, <3>6, <3>7, <3>8
  <2> QED BY <1>4, <2>3, <2>4, <2>5 DEF ProcessMessage
<1>5. CASE Crash
  <2>1. /\ position' = committed /\ committed' = committed /\ log' = log /\ pc' = "poll"
        /\ orderRow' = Untracked /\ shipRow' = Untracked
        /\ stored' = stored /\ shipments' = shipments /\ unknown' = unknown
        /\ former' = former \cup {log[k] : k \in 1 .. position}
        /\ forgotten' = forgotten \cup Added(orderRow)
                          \cup (IF pc = "process" /\ committed = position THEN {Order} ELSE {})
    BY <1>5 DEF Crash
  <2>2. TrackedWasConsumed' /\ UnchangedIsStored' /\ RowsGoTogether'
    BY <2>1 DEF TrackedWasConsumed, UnchangedIsStored, RowsGoTogether, Untracked
  <2>3. StoredIsExplained'
    BY <2>1 DEF StoredIsExplained, TrackedWasConsumed, TypeOK
  <2>4. ConsumedIsAccountedFor'
    BY <2>1 DEF ConsumedIsAccountedFor, TypeOK, Order, Added, Untracked
  <2>5. PoisonHasCause'
    BY <2>1 DEF PoisonHasCause, Added, Untracked
  <2>6. ShipmentsFollowOrders'
    BY <2>1 DEF ShipmentsFollowOrders
  <2> QED BY <2>2, <2>3, <2>4, <2>5, <2>6
<1>6. CASE UNCHANGED vars
  BY <1>6 DEF TrackedWasConsumed, UnchangedIsStored, StoredIsExplained, RowsGoTogether,
              ConsumedIsAccountedFor, PoisonHasCause, ShipmentsFollowOrders, Added
<1> QED BY <1>1, <1>2, <1>3, <1>4, <1>5, <1>6 DEF Next

LEMMA Inductive == Spec => []IInv
<1>1. IInv /\ [Next]_vars => IInv'
  BY TypeStep, RestStep DEF IInv, Rest
<1> QED BY InitIInv, <1>1, PTL DEF Spec

-----------------------------------------------------------------------------
\* The variables keep their types; the committed offset never passes what was consumed.
THEOREM TypeCorrect == Spec => []TypeOK
<1>1. IInv => TypeOK
  BY DEF IInv
<1> QED BY Inductive, <1>1, PTL

\* No failed save loses an order; only a crash does.
THEOREM NothingForgotten == Spec => []ConsumedIsAccountedFor
<1>1. IInv => ConsumedIsAccountedFor
  BY DEF IInv
<1> QED BY Inductive, <1>1, PTL

\* Duplicates on one side of a restart never poison the context.
THEOREM PoisonExplained == Spec => []PoisonHasCause
<1>1. IInv => PoisonHasCause
  BY DEF IInv
<1> QED BY Inductive, <1>1, PTL

\* A shipment row goes with its order row unless the order has no address.
THEOREM ShipmentsGoWithOrders == Spec => []ShipmentsFollowOrders
<1>1. IInv => ShipmentsFollowOrders
  BY DEF IInv
<1> QED BY Inductive, <1>1, PTL

\* While an entity that is "added" has its row already, no save succeeds.
LEMMA PoisonedStep ==
  ASSUME TypeOK, [Next]_vars, Poisoned
  PROVE  UNCHANGED database /\ (Poisoned' \/ crashes' # crashes)
<1>1. CASE \E o \in Orders : Publish(o)
  BY <1>1 DEF Publish, Poisoned, Added, context, database
<1>2. CASE Consume \/ AutoCommit \/ UNCHANGED vars
  BY <1>2 DEF Consume, AutoCommit, vars, Poisoned, Added, context, database
<1>3. CASE ProcessMessage
  <2>1. Order \in Orders
    BY <1>3 DEF ProcessMessage, Order, TypeOK
  <2>2. CASE AddThrows
    BY <2>2 DEF AddThrows, Poisoned, Added, context, database
  <2>3. CASE AddressThrows
    BY <2>1, <2>3 DEF AddressThrows, Poisoned, Added, TypeOK
  <2>4. CASE AddAndSave
    <3> DEFINE orders == [orderRow EXCEPT ![Order] = "added"]
               ships == [shipRow EXCEPT ![Order] = "added"]
    <3>1. PICK outcome \in {"ok", "failed", "unknown"} : Save(orders, ships, outcome)
      BY <2>4 DEF AddAndSave
    <3>2. Added(orderRow) \subseteq Added(orders)
      BY <2>1 DEF Added, TypeOK
    <3>3. ~ Insertable(Added(orders), Added(ships))
      BY <3>2 DEF Insertable, Poisoned
    <3>4. UNCHANGED database /\ orderRow' = orders
      BY <3>1, <3>3 DEF Save, AfterSave
    <3>5. Added(orderRow)' = Added(orders)
      BY <3>4 DEF Added
    <3> QED BY <3>2, <3>4, <3>5 DEF Poisoned, database
  <2> QED BY <1>3, <2>2, <2>3, <2>4 DEF ProcessMessage
<1>4. CASE Crash
  BY <1>4, AccountingAssumption DEF Crash, database, TypeOK
<1> QED BY <1>1, <1>2, <1>3, <1>4 DEF Next

\* A poisoned service stores nothing more until it is restarted.
THEOREM PoisonedStoresNothing == Spec => PoisonStopsStorage
<1>1. TypeOK /\ [Next]_vars
        => [Poisoned => UNCHANGED database /\ (Poisoned' \/ crashes' # crashes)]_vars
  BY PoisonedStep
<1> QED BY TypeCorrect, <1>1, PTL DEF Spec, PoisonStopsStorage
=============================================================================
