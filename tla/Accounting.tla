----------------------------- MODULE Accounting -----------------------------
(***************************************************************************)
(* The accounting service (src/src/accounting/Consumer.cs): it consumes    *)
(* the topic "orders" and writes each order, with its items and shipment,  *)
(* to PostgreSQL through one Entity Framework context that lives as long   *)
(* as the process and is never cleared.                                    *)
(*                                                                         *)
(* Offsets are committed in the background (EnableAutoCommit) once a       *)
(* message has been handed to the application, written or not.  The items  *)
(* of an order share the fate of its row in "order".                       *)
(***************************************************************************)
EXTENDS Integers, Sequences

CONSTANTS
  Orders,
  NoAddress,         \* orders whose ShippingAddress is null
  MaxLog,            \* bound: messages on the topic
  MaxCrashes         \* bound: crashes of the service

ASSUME AccountingAssumption ==
  /\ NoAddress \subseteq Orders
  /\ MaxLog \in Nat
  /\ MaxCrashes \in Nat

VARIABLES
  log,               \* the topic: order ids, some more than once
  pc,                \* "poll", or "process" for the message before position
  position,          \* messages consumed
  committed,         \* messages the committed offset covers
  orderRow, shipRow, \* the context's entities: "untracked", "added" or "unchanged"
  stored, shipments, \* rows of the tables "order" and shipping
  \* auxiliary:
  crashes,
  forgotten,         \* orders a crash dropped from memory for good
  former,            \* orders consumed by a process that died
  unknown            \* orders in a save whose outcome the service never learnt

kafka == <<log, position, committed>>
context == <<orderRow, shipRow>>
database == <<stored, shipments>>
ghosts == <<crashes, forgotten, former, unknown>>
vars == <<kafka, pc, context, database, ghosts>>

Untracked == [o \in Orders |-> "untracked"]

Init ==
  /\ log = <<>>
  /\ pc = "poll"
  /\ position = 0
  /\ committed = 0
  /\ orderRow = Untracked
  /\ shipRow = Untracked
  /\ stored = {}
  /\ shipments = {}
  /\ crashes = 0
  /\ forgotten = {}
  /\ former = {}
  /\ unknown = {}

Added(rows) == {o \in Orders : rows[o] = "added"}

-----------------------------------------------------------------------------
\* Checkout publishes an order, or publishes it again (kafkaQueueProblems).
Publish(o) ==
  /\ Len(log) < MaxLog
  /\ log' = Append(log, o)
  /\ UNCHANGED <<pc, position, committed, context, database, ghosts>>

Consume ==
  /\ pc = "poll"
  /\ position < Len(log)
  /\ position' = position + 1
  /\ pc' = "process"
  /\ UNCHANGED <<log, committed, context, database, ghosts>>

\* A faulty variant: the offset after the next message is committed.
CommitAhead ==
  /\ committed < position
  /\ committed' = position + 1
  /\ UNCHANGED <<log, pc, position, context, database, ghosts>>

AutoCommit ==
  /\ committed < position
  /\ committed' = position
  /\ UNCHANGED <<log, pc, position, context, database, ghosts>>

Order == log[position]

\* Add throws: an order of this key is tracked already.  Only logged.
\* A message processed twice by one process ends here.
AddThrows ==
  /\ orderRow[Order] # "untracked"
  /\ UNCHANGED <<context, database, unknown>>

\* order.ShippingAddress.StreetAddress throws when the order and its items
\* have been added to the context; nothing is saved.
AddressThrows ==
  /\ orderRow[Order] = "untracked"
  /\ Order \in NoAddress
  /\ orderRow' = [orderRow EXCEPT ![Order] = "added"]
  /\ UNCHANGED <<shipRow, database, unknown>>

AllUnchanged(rows) == [o \in Orders |-> IF rows[o] = "added" THEN "unchanged" ELSE rows[o]]

\* Faulty variants of what SaveChanges leaves in the context: it is cleared
\* after a save that worked; it is cleared after one that failed.
ClearedOnSuccess(rows, outcome) == IF outcome = "ok" THEN Untracked ELSE rows
ClearedOnFailure(rows, outcome) == IF outcome = "ok" THEN AllUnchanged(rows) ELSE Untracked

\* Entities stay "added" until a SaveChanges succeeds.
AfterSave(rows, outcome) == IF outcome = "ok" THEN AllUnchanged(rows) ELSE rows

\* A faulty variant: rows that are there already are skipped.
AlwaysInsertable(orders, ships) == TRUE

\* A key that exists fails the whole transaction.
Insertable(orders, ships) == orders \cap stored = {} /\ ships \cap shipments = {}

\* SaveChanges inserts every entity that is "added", in one transaction.
Save(orders, ships, outcome) ==
  /\ outcome # "failed" => Insertable(Added(orders), Added(ships))
  /\ IF outcome = "failed"
     THEN UNCHANGED database
     ELSE /\ stored' = stored \cup Added(orders)
          /\ shipments' = shipments \cup Added(ships)
  /\ orderRow' = AfterSave(orders, outcome)
  /\ shipRow' = AfterSave(ships, outcome)
  /\ unknown' = IF outcome = "unknown" THEN unknown \cup Added(orders) ELSE unknown

\* A faulty variant: saved before the shipment is added.
SavedTooEarly ==
  /\ orderRow[Order] = "untracked"
  /\ Order \notin NoAddress
  /\ \E outcome \in {"ok", "failed", "unknown"} :
       Save([orderRow EXCEPT ![Order] = "added"], shipRow, outcome)

AddAndSave ==
  /\ orderRow[Order] = "untracked"
  /\ Order \notin NoAddress
  /\ \E outcome \in {"ok", "failed", "unknown"} :
       Save([orderRow EXCEPT ![Order] = "added"], [shipRow EXCEPT ![Order] = "added"], outcome)

\* A faulty variant: a message is processed until it is stored.
ProcessUntilStored ==
  /\ pc = "process"
  /\ AddThrows \/ AddressThrows \/ AddAndSave
  /\ pc' = IF Order \in stored' THEN "poll" ELSE "process"
  /\ UNCHANGED <<kafka, crashes, forgotten, former>>

ProcessMessage ==
  /\ pc = "process"
  /\ AddThrows \/ AddressThrows \/ AddAndSave
  /\ pc' = "poll"
  /\ UNCHANGED <<kafka, crashes, forgotten, former>>

\* The process dies and is restarted: it resumes at the committed offset with
\* an empty context.
Crash ==
  /\ crashes < MaxCrashes
  /\ crashes' = crashes + 1
  /\ position' = committed
  /\ pc' = "poll"
  /\ orderRow' = Untracked
  /\ shipRow' = Untracked
  /\ forgotten' = forgotten \cup Added(orderRow)
                    \cup (IF pc = "process" /\ committed = position THEN {Order} ELSE {})
  /\ former' = former \cup {log[k] : k \in 1 .. position}
  /\ UNCHANGED <<log, committed, database, unknown>>

Next ==
  \/ \E o \in Orders : Publish(o)
  \/ Consume \/ AutoCommit \/ ProcessMessage \/ Crash

\* The consuming loop runs on; what SaveChanges comes to is open.
Spec == Init /\ [][Next]_vars /\ WF_vars(Consume) /\ WF_vars(ProcessMessage)

-----------------------------------------------------------------------------
RowState == {"untracked", "added", "unchanged"}

TypeOK ==
  /\ log \in Seq(Orders)
  /\ pc \in {"poll", "process"}
  /\ position \in 0 .. Len(log)
  /\ committed \in 0 .. position
  /\ pc = "process" => position > 0
  /\ orderRow \in [Orders -> RowState]
  /\ shipRow \in [Orders -> RowState]
  /\ stored \subseteq Orders
  /\ shipments \subseteq Orders
  /\ crashes \in 0 .. MaxCrashes
  /\ forgotten \subseteq Orders
  /\ former \subseteq Orders
  /\ unknown \subseteq Orders

\* An order whose message was consumed is in the database, or in the context
\* and inserted by the next save that succeeds, or about to be processed: a
\* failed save loses nothing.  Only a crash does, of what the context alone
\* held or a message whose offset was already committed.
ConsumedIsAccountedFor ==
  \A k \in 1 .. position :
    \/ log[k] \in stored \cup Added(orderRow) \cup forgotten
    \/ pc = "process" /\ k = position

\* An entity the context keeps trying to insert is in the database already.
Poisoned == Added(orderRow) \cap stored # {}

\* That takes messages of one order on both sides of a restart - delivered
\* again, or published twice - or a commit whose answer was lost; within one
\* process duplicates do no harm.
PoisonHasCause == Added(orderRow) \cap stored \subseteq former \cup unknown

\* Once poisoned, the service stores nothing more, whatever arrives, until it
\* is restarted - and goes on committing offsets.
PoisonStopsStorage ==
  [][Poisoned => UNCHANGED database /\ (Poisoned' \/ crashes' # crashes)]_vars

\* An order is stored without its shipment only if it has no address, and a
\* shipment never without its order.
ShipmentsFollowOrders == shipments \subseteq stored /\ stored \ shipments \subseteq NoAddress

\* No failure stops consumption: every message is consumed in the end.
EverythingConsumed == <>[](position = Len(log) /\ pc = "poll")
=============================================================================
