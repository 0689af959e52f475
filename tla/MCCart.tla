------------------------------- MODULE MCCart -------------------------------
(***************************************************************************)
(* CartStore and CartConnection in two scenes: calls over a connection     *)
(* that is there, and calls that need one.                                 *)
(***************************************************************************)
EXTENDS CartStore, CartConnection

LOCAL INSTANCE TLC

VARIABLE scene

MCInit ==
  /\ scene \in {"carts", "connection"}
  /\ Init
  /\ ConnInit

MCNext ==
  /\ \/ scene = "carts" /\ Next /\ UNCHANGED connVars
     \/ scene = "connection" /\ ConnNext /\ UNCHANGED vars
  /\ UNCHANGED scene

\* Sound here: with properties over behaviours too, as a serial user has one
\* handler at most and the connection, whose calls must get through, has none.
Symmetry == Permutations(Handlers)

MCSpec ==
  /\ MCInit
  /\ [][MCNext]_<<vars, connVars, scene>>
  /\ scene = "connection" => ConnFairness
=============================================================================
