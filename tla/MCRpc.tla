-------------------------------- MODULE MCRpc --------------------------------
(***************************************************************************)
(* Every call of the ten services, with sample messages: at each field its *)
(* default or a value of its own, a nested message absent, empty or full,  *)
(* and int64 values on both sides of the safe ones in what a service       *)
(* answers.                                                                *)
(***************************************************************************)
EXTENDS Rpc

LOCAL INSTANCE SequencesExt
LOCAL INSTANCE TLC

RECURSIVE Full(_)
Full(T) ==
  LET Value(f) ==
        CASE f.kind = "message" /\ f.repeated -> <<Base(f.of), Full(f.of)>>
          [] f.kind = "message" -> Full(f.of)
          [] f.repeated -> <<f.name, "more">>
          [] f.kind = "string" -> f.name
          [] f.kind = "bool" -> TRUE
          [] OTHER -> 1
  IN [n \in FieldNames(T) |-> Value(FieldOf(T, n))]

\* A full message with the int64 values of it, at any depth, set to n.
RECURSIVE WithInt64(_, _)
WithInt64(T, n) ==
  LET Value(f) ==
        CASE f.kind = "int64" -> n
          [] f.kind = "message" /\ f.repeated -> <<WithInt64(f.of, n)>>
          [] f.kind = "message" -> WithInt64(f.of, n)
          [] OTHER -> Full(T)[f.name]
  IN [m \in FieldNames(T) |-> Value(FieldOf(T, m))]

Values(f, ints) ==
  CASE f.kind = "message" /\ f.repeated ->
         {<<>>, <<Full(f.of)>>, <<Base(f.of), Full(f.of)>>}
           \cup {<<WithInt64(f.of, n)>> : n \in ints}
    [] f.kind = "message" ->
         {Undefined, Base(f.of)} \cup {WithInt64(f.of, n) : n \in ints}
    [] f.repeated -> {<<>>, <<f.name>>, <<f.name, "more">>}
    [] f.kind = "string" -> {"", f.name}
    [] f.kind = "bool" -> BOOLEAN
    [] f.kind = "int64" -> {0} \cup ints
    [] OTHER -> {0, f.num}

Messages(T, ints) ==
  FoldLeft(LAMBDA ms, f : {m @@ (f.name :> v) : m \in ms, v \in Values(f, ints)},
           {<<>>}, T)

\* Numbers of JavaScript, and those of a service.
SafeInts == {1, -MaxSafe}
ServiceInts == {1, -MaxSafe, MaxSafe + 1, -(MaxSafe + 1)}


MCRequests(T) == Messages(T, SafeInts)
MCResponses(T) == Messages(T, ServiceInts)
=============================================================================
