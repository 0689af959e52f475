------------------------------- MODULE Message -------------------------------
(***************************************************************************)
(* What src/frontend/protos/demo.ts does with one message: its interface   *)
(* and its encode, decode, fromPartial and toJSON.                         *)
(*                                                                         *)
(* ts-proto repeats one template for every message, so a message is here   *)
(* its list of fields T, and the template is written once, over any such   *)
(* list.  As in the generated code, no function calls itself: what a       *)
(* nested message does is left to operators of its own, the constants      *)
(* Nested...                                                               *)
(*                                                                         *)
(* A wire is the sequence of its tagged fields, in the order they were     *)
(* written; the bytes of a tag, a varint and a length are left out.        *)
(* The two tags at which a decoding loop stops early (0 and end-group) are *)
(* left out too: nothing that writes these messages emits them.            *)
(***************************************************************************)
EXTENDS Integers, Sequences

CONSTANTS
  Undefined,   \* JavaScript's undefined, an absent message
  MaxSafe,     \* Number.MAX_SAFE_INTEGER, small
  NestedType(_), NestedIs(_, _), NestedInt64s(_, _),
  NestedEncode(_, _), NestedDecode(_, _), NestedRefuses(_, _),
  NestedToJSON(_, _), NestedStringified(_, _), NestedFromPartial(_, _)

Safe == -MaxSafe..MaxSafe

-----------------------------------------------------------------------------
(* The fields of a message. *)

MaxNum == 15   \* of a field whose tag is one byte

IsField(f) ==
  /\ f.num \in 1..MaxNum
  /\ f.kind \in {"string", "int32", "int64", "bool", "message"}
  /\ f.repeated => f.kind \in {"string", "message"}
  /\ f.kind = "message" => NestedType(f.of)

IsType(T) ==
  /\ Len(T) \in Nat /\ DOMAIN T = 1..Len(T)
  /\ \A i \in DOMAIN T : IsField(T[i])
  /\ \A i, j \in DOMAIN T : T[i].num = T[j].num \/ T[i].name = T[j].name => i = j

Fields(T) == {T[i] : i \in DOMAIN T}
FieldNames(T) == {f.name : f \in Fields(T)}
FieldOf(T, name) == CHOOSE f \in Fields(T) : f.name = name

Default(f) ==
  IF f.repeated THEN <<>>
  ELSE CASE f.kind = "message" -> Undefined
         [] f.kind = "string" -> ""
         [] f.kind = "bool" -> FALSE
         [] f.kind \in {"int32", "int64"} -> 0

\* createBase...
Base(T) == [n \in FieldNames(T) |-> Default(FieldOf(T, n))]

-----------------------------------------------------------------------------
(* encode *)

WireType(f) == IF f.kind \in {"string", "message"} THEN "len" ELSE "varint"

Tagged(f, v) ==
  [num |-> f.num, wire |-> WireType(f),
   value |-> IF f.kind = "message" THEN NestedEncode(f.of, v) ELSE v]

\* A field that has its default is left out.
PutField(f, v) ==
  CASE f.repeated -> [j \in DOMAIN v |-> Tagged(f, v[j])]
    [] ~f.repeated /\ v = Default(f) -> <<>>
    [] ~f.repeated /\ v # Default(f) -> <<Tagged(f, v)>>

\* What is written after each field.
Written(T, m) ==
  LET written[i \in 0..Len(T)] ==
        IF i = 0 THEN <<>> ELSE written[i - 1] \o PutField(T[i], m[T[i].name])
  IN written

Encode(T, m) == Written(T, m)[Len(T)]

-----------------------------------------------------------------------------
(* decode *)

\* Faulty: the wire type is not looked at.
CasesByNumber(T, w) == {f \in Fields(T) : f.num = w.num}

\* The case of the decoding switch that takes the field w, if any: a known
\* number with another wire type is skipped like an unknown number.
CasesFor(T, w) == {f \in Fields(T) : f.num = w.num /\ WireType(f) = w.wire}

CaseFor(T, w) == CHOOSE c \in CasesFor(T, w) : TRUE

Received(f, w) == IF f.kind = "message" THEN NestedDecode(f.of, w.value) ELSE w.value

Put(m, f, v) == [m EXCEPT ![f.name] = IF f.repeated THEN Append(@, v) ELSE v]

\* One round of the decoding loop.
Take(T, m, w) ==
  IF CasesFor(T, w) = {} THEN m
  ELSE Put(m, CaseFor(T, w), Received(CaseFor(T, w), w))

\* The loop, from a message m on: what is read after each round.
Read(T, m, wire) ==
  LET read[i \in 0..Len(wire)] ==
        IF i = 0 THEN m ELSE Take(T, read[i - 1], wire[i])
  IN read

Merge(T, m, wire) == Read(T, m, wire)[Len(wire)]

Decode(T, wire) == Merge(T, Base(T), wire)

\* longToNumber throws when an int64 is not safe in a number, and the whole
\* decode with it.
Throws(T, w) ==
  \E f \in CasesFor(T, w) :
    \/ f.kind = "int64" /\ w.value \notin Safe
    \/ f.kind = "message" /\ NestedRefuses(f.of, w.value)

Refuses(T, wire) == \E i \in DOMAIN wire : Throws(T, wire[i])

-----------------------------------------------------------------------------
(* toJSON, JSON.stringify, fromJSON and fromPartial *)

ValueToJSON(f, v) ==
  CASE f.kind = "message" /\ f.repeated ->
         [i \in DOMAIN v |-> NestedToJSON(f.of, v[i])]
    [] f.kind = "message" /\ ~f.repeated -> NestedToJSON(f.of, v)
    [] f.kind # "message" -> v

\* Faulty: an empty nested message is dropped with the defaults.
TerseJSON(T, m) ==
  LET kept == {f \in Fields(T) : /\ m[f.name] # Default(f)
                                 /\ f.kind = "message" => m[f.name] # Base(f.of)}
  IN [n \in {f.name : f \in kept} |-> ValueToJSON(FieldOf(T, n), m[n])]

\* toJSON leaves out what has its default.
ToJSON(T, m) ==
  LET kept == {f \in Fields(T) : m[f.name] # Default(f)}
  IN [n \in {f.name : f \in kept} |-> ValueToJSON(FieldOf(T, n), m[n])]

ValueStringified(f, v) ==
  CASE f.kind = "message" /\ f.repeated ->
         [i \in DOMAIN v |-> NestedStringified(f.of, v[i])]
    [] f.kind = "message" /\ ~f.repeated -> NestedStringified(f.of, v)
    [] f.kind # "message" -> v

\* JSON.stringify, which response.json() calls, leaves out what is undefined.
Stringified(T, m) ==
  [n \in {k \in FieldNames(T) : m[k] # Undefined} |->
     ValueStringified(FieldOf(T, n), m[n])]

ValueFromPartial(f, v) ==
  CASE f.kind = "message" /\ f.repeated ->
         [i \in DOMAIN v |-> NestedFromPartial(f.of, v[i])]
    [] f.kind = "message" /\ ~f.repeated -> NestedFromPartial(f.of, v)
    [] f.kind # "message" -> v

\* fromJSON and fromPartial fill in what is not set; the conversions of
\* fromJSON change no value of the declared type.
FromPartial(T, o) ==
  LET Filled(f) ==
        IF f.name \in DOMAIN o /\ o[f.name] # Undefined
        THEN ValueFromPartial(f, o[f.name]) ELSE Default(f)
  IN [n \in FieldNames(T) |-> Filled(FieldOf(T, n))]

-----------------------------------------------------------------------------
(* The interface of a message. *)

IsList(s) == s \in Seq({s[i] : i \in DOMAIN s})

IsElement(f, v) ==
  CASE f.kind = "string" -> v \in STRING
    [] f.kind = "bool" -> v \in BOOLEAN
    [] f.kind \in {"int32", "int64"} -> v \in Int
    [] f.kind = "message" -> NestedIs(f.of, v)

\* Only an absent message is undefined, in JSON too.
IsValue(f, v) ==
  IF v = Undefined THEN f.kind = "message" /\ ~f.repeated
  ELSE /\ IF f.repeated THEN IsList(v) /\ \A i \in DOMAIN v : IsElement(f, v[i])
          ELSE IsElement(f, v)
       /\ Undefined \notin {ValueToJSON(f, v), ValueStringified(f, v)}

Is(T, m) ==
  /\ m = [n \in FieldNames(T) |-> m[n]]
  /\ \A f \in Fields(T) : IsValue(f, m[f.name])

\* The int64 values of a message, at any depth.
Int64sIn(f, v) ==
  CASE f.kind = "int64" -> {v}
    [] f.kind = "message" /\ f.repeated ->
         UNION {NestedInt64s(f.of, v[i]) : i \in DOMAIN v}
    [] f.kind = "message" /\ ~f.repeated ->
         IF v = Undefined THEN {} ELSE NestedInt64s(f.of, v)
    [] OTHER -> {}

Int64s(T, m) == UNION {Int64sIn(f, m[f.name]) : f \in Fields(T)}
=============================================================================
