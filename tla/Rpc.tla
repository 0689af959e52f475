--------------------------------- MODULE Rpc ---------------------------------
(***************************************************************************)
(* A unary call over the generated clients of demo.ts: the client encodes  *)
(* the request, a service reads it and answers, the client decodes the     *)
(* answer field by field and hands it, or an error, to its callback.       *)
(*                                                                         *)
(* The services are built by other generators, maybe from another version  *)
(* of demo.proto: they write the fields of an answer in an order of their  *)
(* own, may add fields the client does not know, and have int64 values no  *)
(* JavaScript number holds.                                                *)
(***************************************************************************)
EXTENDS DemoProto

CONSTANTS
  Requests(_),    \* the messages of a type that the frontend passes a client
  Responses(_)    \* and those that a service answers

VARIABLES
  call,    \* the call under way
  phase,   \* how far it is
  sent,    \* the message its writer encoded last
  wire,    \* what is left of the encoded message
  read     \* what its reader has decoded

vars == <<call, phase, sent, wire, read>>

Calls ==
  UNION {CartServiceService, RecommendationServiceService,
         ProductCatalogServiceService, ShippingServiceService,
         CurrencyServiceService, PaymentServiceService, EmailServiceService,
         CheckoutServiceService, AdServiceService, FeatureFlagServiceService}

NoCall == Rpc("none", <<>>, <<>>)

ASSUME MessagesAssumption ==
  \A c \in Calls :
    /\ \A m \in Requests(c.request) : Is(c.request, m)
    /\ \A m \in Responses(c.response) : Is(c.response, m)

\* What a newer version of a message may bring: a field of an unknown number,
\* or a known number that has changed its type.
Newer ==
  {<<>>, <<[num |-> 99, wire |-> "len", value |-> "new"]>>,
   <<[num |-> 1, wire |-> "fixed64", value |-> "new"]>>}

-----------------------------------------------------------------------------

Init ==
  /\ call = NoCall
  /\ phase = "idle"
  /\ sent = Undefined
  /\ wire = <<>>
  /\ read = Undefined

\* client.method(request, callback): the request is serialised.
Ask(c, m) ==
  /\ phase = "idle"
  /\ call' = c
  /\ sent' = m
  /\ wire' = Encode(c.request, m)
  /\ read' = Undefined
  /\ phase' = "asked"

\* The service reads the request as its definition says.
Serve ==
  /\ phase = "asked"
  /\ read' = Decode(call.request, wire)
  /\ wire' = <<>>
  /\ phase' = "serving"
  /\ UNCHANGED <<call, sent>>

Reply(m, newer) ==
  /\ phase = "serving"
  /\ sent' = m
  /\ wire' = newer \o Encode(call.response, m)
  /\ read' = Base(call.response)
  /\ phase' = "reading"
  /\ UNCHANGED call

\* The service answers an error.
Fail ==
  /\ phase = "serving"
  /\ phase' = "rejected"
  /\ sent' = Undefined
  /\ read' = Undefined
  /\ UNCHANGED <<call, wire>>

\* The writer's order: any field may be next, each repeated one in its order.
FirstOfField(i) == \A j \in 1..(i - 1) : wire[j].num # wire[i].num

Without(s, i) == [j \in 1..(Len(s) - 1) |-> IF j < i THEN s[j] ELSE s[j + 1]]

\* A round of the client's decoding loop.
ReadField ==
  /\ phase = "reading"
  /\ \E i \in DOMAIN wire :
       /\ FirstOfField(i)
       /\ ~Throws(call.response, wire[i])
       /\ read' = Take(call.response, read, wire[i])
       /\ wire' = Without(wire, i)
  /\ UNCHANGED <<call, phase, sent>>

\* The round in which the loop throws: the callback gets an error.
ReadThrows ==
  /\ phase = "reading"
  /\ \E i \in DOMAIN wire : FirstOfField(i) /\ Throws(call.response, wire[i])
  /\ wire' = <<>>
  /\ read' = Undefined
  /\ phase' = "refused"
  /\ UNCHANGED <<call, sent>>

\* callback(null, response).
Resolve ==
  /\ phase = "reading"
  /\ wire = <<>>
  /\ phase' = "resolved"
  /\ UNCHANGED <<call, sent, wire, read>>

Return ==
  /\ phase \in {"resolved", "rejected", "refused"}
  /\ phase' = "idle"
  /\ call' = NoCall
  /\ sent' = Undefined
  /\ read' = Undefined
  /\ UNCHANGED wire

Next ==
  \/ \E c \in Calls : \E m \in Requests(c.request) : Ask(c, m)
  \/ Serve
  \/ \E m \in Responses(call.response), newer \in Newer : Reply(m, newer)
  \/ Fail
  \/ ReadField \/ ReadThrows \/ Resolve \/ Return

Spec == Init /\ [][Next]_vars

-----------------------------------------------------------------------------
(* Properties. *)

\* The type of the message that was encoded last.
Type == IF phase \in {"asked", "serving"} THEN call.request ELSE call.response

\* What was written is what is read, and an answer that cannot be read is
\* refused.  The service reads the request the client passed (encode); at every
\* round of the client's decoding loop what was read, completed by what is left
\* on the wire, is the answer, in whatever order the fields come and whatever a
\* newer service adds.  The client gets it exactly when each int64 of it is a
\* safe integer (longToNumber): one amount of an order beyond that and the whole
\* answer is an error, and no amount is ever rounded in silence.
MessagesArrive ==
  /\ phase \in {"serving", "resolved"} => read = sent
  /\ phase = "reading" =>
       sent = Merge(call.response, read, wire)
  /\ phase \in {"resolved", "refused"} =>
       ((phase = "resolved") <=> (Int64s(call.response, sent) \subseteq Safe))

\* A message survives JSON, by toJSON as well as by JSON.stringify, which is how
\* the API routes of the frontend pass answers on: defaults and absent messages
\* are restored, and an absent message stays distinct from an empty one.
JsonKeepsMessages ==
  sent # Undefined =>
    /\ FromPartial(Type, ToJSON(Type, sent)) = sent
    /\ FromPartial(Type, Stringified(Type, sent)) = sent
=============================================================================
