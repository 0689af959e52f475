--------------------------- MODULE MCKafkaProducer ---------------------------
(***************************************************************************)
(* Three calls, the first of which may start two overload goroutines, over *)
(* a producer that holds one message and one event of each kind.           *)
(***************************************************************************)
EXTENDS KafkaProducer

CONSTANTS c1, c2, c3

MCCalls == {c1, c2, c3}
MCOverloads == {<<c1, 0>>, <<c1, 1>>}
=============================================================================
