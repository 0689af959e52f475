---------------------------- MODULE KafkaProducer ----------------------------
(***************************************************************************)
(* The hand-over of orders to Kafka: sendToPostProcessor                   *)
(* (src/src/checkout/main.go) over the one asynchronous producer of        *)
(* src/src/checkout/kafka/producer.go.                                     *)
(*                                                                         *)
(* All calls share the producer's channels, and its events carry no        *)
(* address: a call that has handed over its message takes whichever event  *)
(* comes, and so do the overload goroutines of the flag kafkaQueueProblems *)
(* (successes only) and the goroutine that logs errors (errors only).      *)
(***************************************************************************)
EXTENDS Integers, FiniteSets

CONSTANTS
  Calls,             \* the calls of sendToPostProcessor
  Overloads,         \* overload goroutines: <<call, i>>, i below the flag's value
  PipelineCap,       \* messages the producer takes in before it answers any
  EventCap           \* events each of its two event channels holds

ASSUME ProducerAssumption ==
  /\ IsFiniteSet(Calls) /\ IsFiniteSet(Overloads)
  /\ Overloads \subseteq Calls \X Nat
  /\ Calls \cap Overloads = {}
  /\ PipelineCap \in Nat \ {0}
  /\ EventCap \in Nat \ {0}

Senders == Calls \cup Overloads

VARIABLES
  at,                \* per sender: "idle", "input", "await" or "returned"
  done,              \* calls whose context is done
  pipeline,          \* messages the producer took in and has not answered
  successes, errors, \* events in the two channels
  drained,           \* auxiliary: errors the logging goroutine took
  abandoned          \* auxiliary: calls that stopped waiting for their event

channels == <<pipeline, successes, errors>>
producerVars == <<at, done, channels, drained, abandoned>>

ProducerInit ==
  /\ at = [s \in Senders |-> "idle"]
  /\ done = {}
  /\ pipeline = 0
  /\ successes = 0
  /\ errors = 0
  /\ drained = 0
  /\ abandoned = 0

\* The call returns; when the flag is on it starts its overload goroutines.
ReturnAndOverload(c, flagOn) ==
  at' = [s \in Senders |-> IF s = c THEN "returned"
                           ELSE IF flagOn /\ s \in Overloads /\ s[1] = c THEN "input"
                           ELSE at[s]]

Send(c) ==
  /\ at[c] = "idle"
  /\ at' = [at EXCEPT ![c] = "input"]
  /\ UNCHANGED <<done, channels, drained, abandoned>>

ContextDone(c) ==
  /\ at[c] \in {"input", "await"}
  /\ done' = done \cup {c}
  /\ UNCHANGED <<at, channels, drained, abandoned>>

\* Input() <- &msg, by a call or an overload goroutine.
Input(s) ==
  /\ at[s] = "input"
  /\ pipeline < PipelineCap
  /\ pipeline' = pipeline + 1
  /\ at' = [at EXCEPT ![s] = "await"]
  /\ UNCHANGED <<done, successes, errors, drained, abandoned>>

\* case <-ctx.Done() of the outer select: the message was never handed over.
GiveUpInput(c) ==
  /\ at[c] = "input"
  /\ c \in done
  /\ at' = [at EXCEPT ![c] = "returned"]
  /\ UNCHANGED <<done, channels, drained, abandoned>>

\* The inner select of a call: any success, any error, or ctx.Done().
TakeSuccess(c) ==
  /\ at[c] = "await"
  /\ successes > 0
  /\ successes' = successes - 1
  /\ \E flagOn \in BOOLEAN : ReturnAndOverload(c, flagOn)
  /\ UNCHANGED <<done, pipeline, errors, drained, abandoned>>

TakeError(c) ==
  /\ at[c] = "await"
  /\ errors > 0
  /\ errors' = errors - 1
  /\ \E flagOn \in BOOLEAN : ReturnAndOverload(c, flagOn)
  /\ UNCHANGED <<done, pipeline, successes, drained, abandoned>>

Abandon(c) ==
  /\ at[c] = "await"
  /\ c \in done
  /\ abandoned' = abandoned + 1
  /\ \E flagOn \in BOOLEAN : ReturnAndOverload(c, flagOn)
  /\ UNCHANGED <<done, channels, drained>>

\* A faulty variant: the goroutine does not wait for its success.
FireAndForget(g) ==
  /\ at[g] = "await"
  /\ at' = [at EXCEPT ![g] = "returned"]
  /\ UNCHANGED <<done, channels, drained, abandoned>>

\* An overload goroutine: _ = <-Successes().
OverloadTakesSuccess(g) ==
  /\ at[g] = "await"
  /\ successes > 0
  /\ successes' = successes - 1
  /\ at' = [at EXCEPT ![g] = "returned"]
  /\ UNCHANGED <<done, pipeline, errors, drained, abandoned>>

-----------------------------------------------------------------------------
\* The producer answers every message, by a success even when the broker lost
\* it (RequiredAcks is NoResponse); a full channel holds it up.
Succeed ==
  /\ pipeline > 0
  /\ successes < EventCap
  /\ pipeline' = pipeline - 1
  /\ successes' = successes + 1
  /\ UNCHANGED <<at, done, errors, drained, abandoned>>

Fail ==
  /\ pipeline > 0
  /\ errors < EventCap
  /\ pipeline' = pipeline - 1
  /\ errors' = errors + 1
  /\ UNCHANGED <<at, done, successes, drained, abandoned>>

\* A faulty variant: the goroutine also reads the successes.
LogAnyEvent ==
  \/ /\ errors > 0 /\ errors' = errors - 1 /\ drained' = drained + 1
     /\ UNCHANGED <<at, done, pipeline, successes, abandoned>>
  \/ /\ successes > 0 /\ successes' = successes - 1
     /\ UNCHANGED <<at, done, pipeline, errors, drained, abandoned>>

\* The goroutine CreateKafkaProducer starts: for err := range Errors().
LogError ==
  /\ errors > 0
  /\ errors' = errors - 1
  /\ drained' = drained + 1
  /\ UNCHANGED <<at, done, pipeline, successes, abandoned>>

Call(c) ==
  \/ Input(c) \/ GiveUpInput(c)
  \/ TakeSuccess(c) \/ TakeError(c) \/ Abandon(c)

Overload(g) == Input(g) \/ OverloadTakesSuccess(g)

ProducerNext ==
  \/ \E c \in Calls : Send(c) \/ ContextDone(c) \/ Call(c)
  \/ \E g \in Overloads : Overload(g)
  \/ Succeed \/ Fail \/ LogError

\* Go runs every goroutine that can run, and the producer answers; whether a
\* client ever cancels, and which answer comes, is open.
Fairness ==
  /\ \A c \in Calls : SF_producerVars(Call(c))
  /\ \A g \in Overloads : SF_producerVars(Overload(g))
  /\ WF_producerVars(Succeed \/ Fail)

ProducerSpec == ProducerInit /\ [][ProducerNext]_producerVars /\ Fairness

-----------------------------------------------------------------------------
Awaiting == {s \in Senders : at[s] = "await"}

\* What the values of the variables are.
ProducerTypeOK ==
  /\ at \in [Senders -> {"idle", "input", "await", "returned"}]
  /\ done \subseteq Calls
  /\ pipeline \in 0 .. PipelineCap
  /\ successes \in 0 .. EventCap
  /\ errors \in 0 .. EventCap
  /\ drained \in Nat
  /\ abandoned \in Nat

\* Every message handed over has exactly one event, and every event one
\* sender to take it, except that the logging goroutine takes events senders
\* wait for, and calls that gave up leave events nobody waits for.
EventsAccountedFor ==
  Cardinality(Awaiting) + abandoned = pipeline + successes + errors + drained

\* Nobody waits in vain - no event there or to come - unless the logging
\* goroutine took an error a call was waiting for.
InVain ==
  /\ pipeline = 0 /\ successes = 0 /\ errors = 0
  /\ Awaiting # {}
WaitsInVainOnlyAfterDrain == InVain => drained > abandoned

\* The producer clogs - full, with nobody left to take an event, so that no
\* order can be handed over any more - only after as many calls gave up
\* waiting as the producer has room for.
Clogged == pipeline = PipelineCap /\ successes = EventCap /\ Awaiting = {}
ClogsOnlyAfterLeaks == Clogged => abandoned >= PipelineCap + EventCap

\* PlaceOrder comes back from Kafka, without a deadline and whatever the
\* other calls and goroutines take, unless the logging goroutine took an
\* error or calls that gave up have clogged the producer.
PlaceOrderReturns ==
  \A c \in Calls :
    at[c] = "input" ~> \/ at[c] = "returned"
                       \/ drained > 0
                       \/ abandoned >= PipelineCap + EventCap
=============================================================================
