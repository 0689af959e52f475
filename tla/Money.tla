------------------------------- MODULE Money -------------------------------
(***************************************************************************)
(* The arithmetic of src/src/checkout/money/money.go on the protobuf       *)
(* message Money: whole units and "nanos", the fraction counted in         *)
(* 1/NanosMod of a unit (10^9 in the code, a small number under TLC).      *)
(*                                                                         *)
(* int64 units and int32 nanos are unbounded here: two valid nanos add up  *)
(* to less than 2 * 10^9 < 2^31, and no catalogue price brings the units   *)
(* near 2^63.                                                              *)
(***************************************************************************)
EXTENDS Integers

CONSTANT NanosMod       \* nanosMod of money.go: nanos in one unit

ASSUME NanosModAssumption == NanosMod \in Nat /\ NanosMod >= 2

Amount == [currency : STRING, units : Int, nanos : Int]

Zero(c) == [currency |-> c, units |-> 0, nanos |-> 0]

SignMatches(m) ==
  \/ m.nanos = 0
  \/ m.units = 0
  \/ (m.nanos < 0) <=> (m.units < 0)

ValidNanos(n) == -NanosMod < n /\ n < NanosMod

IsValid(m) == SignMatches(m) /\ ValidNanos(m.nanos)

\* Go's / and % on signed integers truncate towards zero.
Quo(n) == IF n >= 0 THEN n \div NanosMod ELSE -((-n) \div NanosMod)
Rem(n) == n - NanosMod * Quo(n)

\* The error Sum returns: "nil" when it returns a value.
SumError(l, r) ==
  IF ~IsValid(l) \/ ~IsValid(r) THEN "ErrInvalidValue"
  ELSE IF l.currency # r.currency THEN "ErrMismatchingCurrency" ELSE "nil"

\* A faulty variant of the guard below: a sum of whole units is not of one sign.
SameSignStrict(units, nanos) ==
  \/ units = 0 /\ nanos = 0
  \/ units > 0 /\ nanos > 0
  \/ units < 0 /\ nanos < 0

\* The guard of Sum's first branch, on the unnormalised sums.
SameSign(units, nanos) ==
  \/ units = 0 /\ nanos = 0
  \/ units > 0 /\ nanos >= 0
  \/ units < 0 /\ nanos <= 0

\* A faulty variant of Carry: the carried unit is lost.
CarryLost(c, units, nanos) ==
  [currency |-> c, units |-> units, nanos |-> Rem(nanos)]

Carry(c, units, nanos) ==
  [currency |-> c, units |-> units + Quo(nanos), nanos |-> Rem(nanos)]

Borrow(c, units, nanos) ==
  IF units > 0
  THEN [currency |-> c, units |-> units - 1, nanos |-> nanos + NanosMod]
  ELSE [currency |-> c, units |-> units + 1, nanos |-> nanos - NanosMod]

\* The value Sum returns with a nil error.
Sum(l, r) ==
  LET units == l.units + r.units
      nanos == l.nanos + r.nanos
  IN IF SameSign(units, nanos)
     THEN Carry(l.currency, units, nanos)
     ELSE Borrow(l.currency, units, nanos)

-----------------------------------------------------------------------------
\* What an amount is worth, counted in nanos: the reference Sum is held to.
Value(m) == m.units * NanosMod + m.nanos
=============================================================================
