-------------------------- MODULE ExtendedIntegers --------------------------
(***************************************************************************)
(* Integers in the place of floating-point numbers that are told apart no  *)
(* further, with the values that take no part in arithmetic: minus zero,   *)
(* infinities, NaN, and Spoilt, a number that has lost its meaning.        *)
(***************************************************************************)
EXTENDS Integers

Number(k) == [kind |-> "number", k |-> k]
MinusZero == [kind |-> "minuszero", k |-> 0]
Infinity == [kind |-> "inf", k |-> 1]
MinusInfinity == [kind |-> "inf", k |-> -1]
Undefined == [kind |-> "nan", k |-> 0]
Spoilt == [kind |-> "spoilt", k |-> 0]

\* What an argument may be besides a number
Specials == {MinusZero, Infinity, MinusInfinity, Undefined}

Finite(x) == x.kind \in {"number", "minuszero"}
Abs(k) == IF k < 0 THEN -k ELSE k

\* The sign bit; vmulsign
HasMinus(x) == x = MinusZero \/ x.k < 0
Opposed(r) ==
  IF r = Number(0) THEN MinusZero
  ELSE [kind |-> IF r = MinusZero THEN "number" ELSE r.kind, k |-> -r.k]
SignedAs(r, x) == IF HasMinus(x) THEN Opposed(r) ELSE r
Magnitude(x) == IF HasMinus(x) THEN Opposed(x) ELSE x
=============================================================================
