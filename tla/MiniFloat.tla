------------------------------ MODULE MiniFloat ------------------------------
(***************************************************************************)
(* Binary floating-point numbers of IEEE 754 in a small format: a number   *)
(* is its bit pattern, sign, exponent (EBits bits) and fraction (P-1       *)
(* bits).  The operations are those of arch/helperpurec_scalar.h, rounded  *)
(* to the nearest even.  A unit is the least positive number.              *)
(***************************************************************************)
EXTENDS Integers

CONSTANTS P, EBits, IntBits   \* IntBits: the width of vint

\* All of the arithmetic fits in 31 bits.
ASSUME FormatAssumption == P \in 3..4 /\ EBits \in 3..4 /\ IntBits \in 2..6

Bias == 2^(EBits-1) - 1
Frac == 2^(P-1)
SignBit == 2^(EBits+P-1)
Inf == (2^EBits - 1) * Frac
NaN == Inf + Frac \div 2
Patterns == 0..(2 * SignBit - 1)
MaxFinite == Inf - 1
MinNormal == Frac

Mag(x) == x % SignBit
Negative(x) == x >= SignBit
IsNaN(x) == Mag(x) > Inf
IsInf(x) == Mag(x) = Inf
IsZero(x) == Mag(x) = 0
IsFinite(x) == Mag(x) < Inf

WithSign(neg, m) == IF neg THEN SignBit + m ELSE m
Negated(x) == (x + SignBit) % (2 * SignBit)
MulSign(x, y) == IF Negative(y) THEN Negated(x) ELSE x
OrSign(x, y) == IF Negative(y) THEN WithSign(TRUE, Mag(x)) ELSE x
CopySign(x, y) == WithSign(Negative(y), Mag(x))

\* A finite number is Sig * 2^Shift units; 1 is 2^One units.
One == Bias + P - 2
Expo(x) == Mag(x) \div Frac
Sig(x) == IF Expo(x) = 0 THEN Mag(x) ELSE Frac + (Mag(x) % Frac)
Shift(x) == IF Expo(x) = 0 THEN 0 ELSE Expo(x) - 1
Units(x) == (IF Negative(x) THEN -1 ELSE 1) * Sig(x) * 2^Shift(x)

BitLen(m) == CHOOSE b \in 0..30 : m < 2^b /\ (b = 0 \/ m >= 2^(b-1))

\* m \div 2^d, to the nearest, ties to the even; m is less than 2^30.
UpOrDown(q, r, n) ==
  IF 2 * r > n \/ (2 * r = n /\ q % 2 = 1) THEN q + 1 ELSE q
Nearest(m, d) == UpOrDown(m \div 2^d, m % 2^d, 2^d)

\* The number nearest to m * 2^e units; what is too large is infinite.
\* t is how much larger than that of a unit its exponent is.
NoLess(k) == IF k < 0 THEN 0 ELSE k
AtMostInf(b) == IF b > Inf THEN Inf ELSE b
Rounding(m, e, t) ==
  AtMostInf(t * Frac + (IF t <= e THEN m * 2^(e-t) ELSE Nearest(m, t - e)))
Round(neg, m, e) ==
  WithSign(neg, IF m = 0 THEN 0 ELSE Rounding(m, e, NoLess(BitLen(m) + e - P)))

FromUnits(u) == Round(u < 0, IF u < 0 THEN -u ELSE u, 0)
FromInt(k) == Round(k < 0, IF k < 0 THEN -k ELSE k, One)
Pow2(k) == Round(FALSE, 1, One + k)

Opposite(x, y) == Negative(x) # Negative(y)
\* An exact zero is positive, unless both terms are negative.
ZeroOr(x, y, u, e) ==
  IF u = 0 THEN WithSign(Negative(x) /\ Negative(y), 0)
  ELSE Round(u < 0, IF u < 0 THEN -u ELSE u, e)

Add(x, y) ==
  IF IsNaN(x) \/ IsNaN(y) \/ (IsInf(x) /\ IsInf(y) /\ Opposite(x, y)) THEN NaN
  ELSE IF IsInf(x) THEN x
  ELSE IF IsInf(y) THEN y
  ELSE ZeroOr(x, y, Units(x) + Units(y), 0)
Sub(x, y) == Add(x, Negated(y))

NoProduct(x, y) ==
  IsNaN(x) \/ IsNaN(y) \/ (IsInf(x) /\ IsZero(y)) \/ (IsZero(x) /\ IsInf(y))
Mul(x, y) ==
  IF NoProduct(x, y) THEN NaN
  ELSE IF IsInf(x) \/ IsInf(y) THEN WithSign(Opposite(x, y), Inf)
  ELSE Round(Opposite(x, y), Sig(x) * Sig(y), Shift(x) + Shift(y) - One)

\* The quotient has enough bits, the last of which says if more follow.
WithRest(n, d) == 2 * (n \div d) + (IF n % d = 0 THEN 0 ELSE 1)
Div(x, y) ==
  IF \/ IsNaN(x) \/ IsNaN(y)
     \/ (IsInf(x) /\ IsInf(y)) \/ (IsZero(x) /\ IsZero(y))
  THEN NaN
  ELSE IF IsInf(x) \/ IsZero(y) THEN WithSign(Opposite(x, y), Inf)
  ELSE IF IsInf(y) THEN WithSign(Opposite(x, y), 0)
  ELSE Round(Opposite(x, y), WithRest(Sig(x) * 2^(2*P+2), Sig(y)),
             Shift(x) - Shift(y) + One - 2*P - 3)

\* x * y + z, rounded once.  A product beyond 4 * MaxFinite is cut there.
Cut(s, e) == IF BitLen(s) + e > 28 THEN 2^28 ELSE s * 2^e
Fma(x, y, z) ==
  IF NoProduct(x, y) THEN NaN
  ELSE IF IsInf(x) \/ IsInf(y) THEN Add(WithSign(Opposite(x, y), Inf), z)
  ELSE IF ~IsFinite(z) THEN z
  ELSE ZeroOr(WithSign(Opposite(x, y), 0), z,
              (IF Opposite(x, y) THEN -1 ELSE 1)
                * Cut(Sig(x) * Sig(y), Shift(x) + Shift(y))
              + Units(z) * 2^One, -One)

\* The integer root of v, bit by bit: r is right above bit b.
RECURSIVE IntRoot(_, _, _)
IntRoot(v, r, b) ==
  IF b < 0 THEN r
  ELSE IntRoot(v, IF (r + 2^b) * (r + 2^b) <= v THEN r + 2^b ELSE r, b - 1)

\* The last bit of what is rounded says if the root is exact.
Sqrt(x) ==
  LET v == Units(x) * 2^One
      r == IntRoot(v, 0, 13)
  IN
  IF IsZero(x) THEN x
  ELSE IF IsNaN(x) \/ Negative(x) THEN NaN
  ELSE IF IsInf(x) THEN x
  ELSE Round(FALSE, 2 * r + (IF r * r = v THEN 0 ELSE 1), -1)

\* Comparisons: of numbers the order is that of the patterns.
Rank(x) == IF Negative(x) THEN -Mag(x) ELSE Mag(x)
Comparable(x, y) == ~IsNaN(x) /\ ~IsNaN(y)
Lt(x, y) == Comparable(x, y) /\ Rank(x) < Rank(y)
Le(x, y) == Comparable(x, y) /\ Rank(x) <= Rank(y)
Eq(x, y) == Comparable(x, y) /\ Rank(x) = Rank(y)

\* vmax, vmin
Larger(x, y)  == IF Lt(y, x) THEN x ELSE y
Smaller(x, y) == IF Lt(x, y) THEN x ELSE y

\* The integer part of a finite number, as a number
Truncated(x) ==
  IF ~IsFinite(x) THEN x
  ELSE Round(Negative(x), (Sig(x) * 2^Shift(x)) \div 2^One, One)
\* vtruncate_vi_vd: what does not fit becomes the least integer.
ToInt(x) ==
  LET k == (IF Negative(x) THEN -1 ELSE 1) * ((Sig(x) * 2^Shift(x)) \div 2^One)
  IN  IF IsFinite(x) /\ k \in (-2^(IntBits-1))..(2^(IntBits-1) - 1) THEN k
      ELSE -2^(IntBits-1)
=============================================================================
