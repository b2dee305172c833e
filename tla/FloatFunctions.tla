--------------------------- MODULE FloatFunctions ---------------------------
(***************************************************************************)
(* The functions of the math library whose results are exact, or are built *)
(* from few operations: rounding, remainders, parts of a number, next      *)
(* number, hypot, and the double-double sums and products they rest on.    *)
(* A call is one lane of a vector; the loops go on for all lanes at once.  *)
(* The constants of the code that follow from the format (2^52, DBL_MIN,   *)
(* 2^31, the number of rounds) are written in terms of P, EBits, IntBits.  *)
(***************************************************************************)
EXTENDS MiniFloat

CONSTANTS
  Calls,        \* the calls: function, arguments
  Rounds,       \* 21: how often the loops of fmod and remainder are run
  ExtraScale    \* by how many powers of 2 more than P frexp scales

VARIABLES
  call,   \* the call under way: function, arguments x and y, and whether the
          \* build has FULL_FP_ROUNDING
  pc,     \* "start", "fmod", "remainder", "done"
  rem,    \* locals of the loops: n, d, s, rd, r, qisodd
  round,  \* passes of the loop done
  ret     \* what is returned

fvars == <<call, pc, rem, round, ret>>

-----------------------------------------------------------------------------
(* commonfuncs.h *)

OneHalf == Pow2(-1)
\* 2^52: from here on all numbers are integers.
AllInt == Pow2(P-1)
\* 2^31
IntSize == Pow2(IntBits-1)

\* Mutant of Toward0: nothing is stepped
Toward0Same(x) == x

\* vtoward0: nextafter(x, 0)
Toward0(x) == IF IsZero(x) THEN 0 ELSE x - 1

\* The fraction of x, in two steps as an int holds 31 bits
Fraction(x) ==
  LET high == Mul(IntSize, FromInt(ToInt(Mul(x, Pow2(1-IntBits)))))
      fr == Sub(x, high)
  IN  Sub(fr, FromInt(ToInt(fr)))

Kept(x) == IsInf(x) \/ Le(AllInt, Mag(x))

Truncate2(x, full) ==
  IF full THEN Truncated(x)
  ELSE IF Kept(x) THEN x ELSE CopySign(Sub(x, Fraction(x)), x)

Floor2(x) ==
  LET f == Fraction(x)
      fr == IF Lt(f, 0) THEN Add(f, Pow2(0)) ELSE f
  IN  IF Kept(x) THEN x ELSE CopySign(Sub(x, fr), x)

Ceil2(x) ==
  LET f == Fraction(x)
      fr == IF Le(f, 0) THEN f ELSE Sub(f, Pow2(0))
  IN  IF Kept(x) THEN x ELSE CopySign(Sub(x, fr), x)

\* Mutant of Round2: the number just below 1/2 is not treated apart
Round2Plain(d) ==
  LET x == Add(d, OneHalf)
      f == Fraction(x)
      x1 == IF Le(x, 0) /\ Eq(f, 0) THEN Sub(x, Pow2(0)) ELSE x
      fr == IF Lt(f, 0) THEN Add(f, Pow2(0)) ELSE f
  IN  IF Kept(d) THEN d ELSE CopySign(Sub(x1, fr), d)

Round2(d) ==
  LET x == Add(d, OneHalf)
      f == Fraction(x)
      x1 == IF Le(x, 0) /\ Eq(f, 0) THEN Sub(x, Pow2(0)) ELSE x
      fr == IF Lt(f, 0) THEN Add(f, Pow2(0)) ELSE f
      x2 == IF d = OneHalf - 1 THEN 0 ELSE x1   \* 0.4999...
  IN  IF Kept(d) THEN d ELSE CopySign(Sub(x2, fr), d)

\* vrint2 and vrintk2; with full rounding in hardware they are one operation.
Rint2(d) ==
  LET c == MulSign(AllInt, d) IN
  IF Lt(AllInt, Mag(d)) THEN d ELSE OrSign(Sub(Add(d, c), c), d)

\* vptrunc
PTrunc(x, full) ==
  LET high == ToInt(Mul(x, Pow2(1-IntBits)))
      f == Fma(Negated(IntSize), FromInt(high), x)
      fr == Sub(f, FromInt(ToInt(f)))
  IN  IF full THEN Truncated(x)
      ELSE IF Le(AllInt, Mag(x)) THEN x ELSE Sub(x, fr)

IsOdd(d) == LET h == Mul(d, OneHalf) IN ~Eq(Rint2(h), h)

\* vilogbk: small numbers are scaled first.
IlogbK(d) ==
  LET small == Lt(d, Pow2(-P)) IN
  IF small THEN Expo(Mul(Pow2(P), d)) - P - Bias ELSE Expo(d) - Bias

IntMax == 2147483647

\* xilogb: zero, NaN and infinities have values of their own.
Ilogb(x) ==
  IF ~IsFinite(x) THEN IntMax
  ELSE IF IsZero(x) THEN -IntMax - 1 ELSE IlogbK(Mag(x))

\* vpow2i: the exponent is put into its field, what is beyond goes to the
\* sign.
Pow2i(q) == ((Bias + q) * Frac) % (2 * SignBit)

\* vldexp: by 2^m four times, then by what is left of q.  The exponent of 2^m
\* is clipped to its field, so that for a large q the factor is 0 or infinite.
QuarterOf(q) ==
  LET group == 2^(EBits-2)
      m0 == IF q < 0 THEN -1 ELSE 0
  IN  (((m0 + q) \div group) - m0) * 2^(EBits-4)
Factor(m) ==
  LET f == Bias + m IN
  (IF f < 0 THEN 0 ELSE IF f > 2^EBits - 1 THEN 2^EBits - 1 ELSE f) * Frac
Ldexp(x, q) ==
  LET m == QuarterOf(q)
      y == Factor(m)
  IN  Mul(Mul(Mul(Mul(Mul(x, y), y), y), y), Pow2i(q - 4 * m))

-----------------------------------------------------------------------------
(* dd.h: a double-double number is the sum of two. *)

\* ddadd2: the sum of two numbers and its error
DDAdd2(x, y) ==
  LET s == Add(x, y)  v == Sub(s, x) IN
  <<s, Add(Sub(x, Sub(s, v)), Sub(y, v))>>
\* ddadd: the same when |x| >= |y|
DDAdd(x, y) == LET s == Add(x, y) IN <<s, Add(Sub(x, s), y)>>

DDNormalize(t) == LET s == Add(t[1], t[2]) IN <<s, Add(Sub(t[1], s), t[2])>>

DDAdd2Pairs(x, y) ==
  LET s == Add(x[1], y[1])  v == Sub(s, x[1])
      t == Add(Sub(x[1], Sub(s, v)), Sub(y[1], v))
  IN  <<s, Add(t, Add(x[2], y[2]))>>
DDAdd2To(x, y) ==
  LET s == Add(x[1], y)  v == Sub(s, x[1])
      w == Add(Sub(x[1], Sub(s, v)), Sub(y, v))
  IN  <<s, Add(w, x[2])>>

DDMul(x, y) == LET s == Mul(x, y) IN <<s, Fma(x, y, Negated(s))>>
DDMulBy(x, y) ==
  LET s == Mul(x[1], y) IN <<s, Fma(x[2], y, Fma(x[1], y, Negated(s)))>>
DDMulPairs(x, y) ==
  LET s == Mul(x[1], y[1]) IN
  <<s, Fma(x[1], y[2], Fma(x[2], y[1], Fma(x[1], y[1], Negated(s))))>>
DDSqu(x) ==
  LET s == Mul(x[1], x[1]) IN
  <<s, Fma(Add(x[1], x[1]), x[2], Fma(x[1], x[1], Negated(s)))>>
DDRec(d) ==
  LET s == Div(Pow2(0), d) IN <<s, Mul(s, Fma(Negated(d), s, Pow2(0)))>>
DDDiv(n, d) ==
  LET t == Div(Pow2(0), d[1])
      s == Mul(n[1], t)
      u == Fma(t, n[1], Negated(s))
      v == Fma(Negated(d[2]), t, Fma(Negated(d[1]), t, Pow2(0)))
  IN  <<s, Fma(s, v, Fma(n[2], t, u))>>
DDSqrt(d) ==
  LET t == Sqrt(Add(d[1], d[2]))
      q == DDMulPairs(DDAdd2Pairs(d, DDMul(t, t)), DDRec(t))
  IN  <<Mul(q[1], OneHalf), Mul(q[2], OneHalf)>>

-----------------------------------------------------------------------------
(* sleefsimddp.c: functions without a loop *)

\* xnextafter: as a signed number a pattern is one more or less than the next.
NextAfter(x0, y) ==
  LET full == 2 * SignBit
      x == IF Eq(x0, 0) THEN MulSign(0, y) ELSE x0
      c == Negative(x) # Le(x, y)
      Flip(v) == IF c THEN (SignBit - v) % full ELSE v
      step == IF Eq(x, y) THEN 0 ELSE 1
      r == Flip((Flip(x) - step) % full)
  IN
  IF IsNaN(x) \/ IsNaN(y) THEN NaN
  ELSE IF IsZero(x) /\ IsZero(y) THEN y
  ELSE IF IsZero(r) /\ ~IsZero(x) THEN MulSign(0, x) ELSE r

FrexpScaled(x) ==
  IF Lt(Mag(x), MinNormal) THEN Mul(x, Pow2(P + ExtraScale)) ELSE x

\* xfrfrexp, xexpfrexp
FrFrexp(x0) ==
  LET x == FrexpScaled(x0) IN
  IF IsZero(x) \/ IsInf(x) THEN x
  ELSE WithSign(Negative(x), (Bias - 1) * Frac + (Mag(x) % Frac))
ExpFrexp(x0) ==
  LET x == FrexpScaled(x0) IN
  IF IsZero(x) \/ ~IsFinite(x) THEN 0 ELSE Expo(x) - (Bias - 1)

\* What both of xhypot_u05 and xhypot_u35 do with the result
HypotOf(x, y, min, max, r) ==
  IF IsInf(x) \/ IsInf(y) THEN Inf
  ELSE IF IsNaN(x) \/ IsNaN(y) THEN NaN
  ELSE IF IsZero(min) THEN max ELSE r

HypotU05(x0, y0) ==
  LET x == Mag(x0)  y == Mag(y0)
      min == Smaller(x, y)  max == Larger(x, y)
      Scaled54(v) == IF Lt(max, MinNormal) THEN Mul(v, Pow2(P+1)) ELSE v
      t == DDDiv(<<Scaled54(min), 0>>, <<Scaled54(max), 0>>)
      u == DDMulBy(DDSqrt(DDAdd2To(DDSqu(t), Pow2(0))), max)
      r == Add(u[1], u[2])
  IN  HypotOf(x, y, min, max, IF IsNaN(r) THEN Inf ELSE r)

HypotU35(x0, y0) ==
  LET x == Mag(x0)  y == Mag(y0)
      min == Smaller(x, y)  max == Larger(x, y)
      t == Div(min, max)
  IN  HypotOf(x, y, min, max, Mul(max, Sqrt(Fma(t, t, Pow2(0)))))

\* What a call without a loop returns; some functions return a pair.
Value(c) ==
  CASE c.fn = "trunc" -> Truncate2(c.x, c.full)
    [] c.fn = "floor" -> Floor2(c.x)
    [] c.fn = "ceil" -> Ceil2(c.x)
    [] c.fn = "round" -> Round2(c.x)
    [] c.fn = "rint" -> Rint2(c.x)
    [] c.fn = "nextafter" -> NextAfter(c.x, c.y)
    [] c.fn = "frexp" -> <<FrFrexp(c.x), ExpFrexp(c.x)>>
    [] c.fn = "ilogb" -> Ilogb(c.x)
    [] c.fn = "ldexp" -> Ldexp(c.x, c.y)
    [] c.fn = "hypot_u05" -> HypotU05(c.x, c.y)
    [] c.fn = "hypot_u35" -> HypotU35(c.x, c.y)
    [] c.fn = "ddadd2" -> DDAdd2(c.x, c.y)
    [] c.fn = "ddadd" -> DDAdd(c.x, c.y)
    [] c.fn = "ddmul" -> DDMul(c.x, c.y)

Loops == {"fmod", "remainder"}

-----------------------------------------------------------------------------
(* Actions *)

NoRem == [n |-> 0, d |-> 0, s |-> 0, rd |-> 0, r |-> <<0, 0>>, odd |-> FALSE]

FInit ==
  /\ call \in Calls
  /\ pc = "start"
  /\ rem = NoRem
  /\ round = 0
  /\ ret = 0

Evaluate ==
  /\ pc = "start" /\ call.fn \notin Loops
  /\ ret' = Value(call)
  /\ pc' = "done"
  /\ UNCHANGED <<call, rem, round>>

\* n, d and s of fmod and remainder: a divisor below limit is scaled.
Operands(limit) ==
  LET small == Lt(Mag(call.y), limit)
      Scaled54(v) == IF small THEN Mul(v, Pow2(P+1)) ELSE v
  IN  [NoRem EXCEPT !.n = Scaled54(Mag(call.x)), !.d = Scaled54(Mag(call.y)),
                    !.s = IF small THEN Pow2(-P-1) ELSE Pow2(0),
                    !.r = <<Scaled54(Mag(call.x)), 0>>]

StartFmod ==
  /\ pc = "start" /\ call.fn = "fmod"
  /\ LET o == Operands(MinNormal) IN
       rem' = [o EXCEPT !.rd = Toward0(Div(Pow2(0), o.d))]
  /\ pc' = "fmod"
  /\ UNCHANGED <<call, round, ret>>

StartRemainder ==
  /\ pc = "start" /\ call.fn = "remainder"
  /\ LET o == Operands(2 * Frac) IN   \* DBL_MIN * 2
       rem' = [o EXCEPT !.rd = Div(Pow2(0), o.d)]
  /\ pc' = "remainder"
  /\ UNCHANGED <<call, round, ret>>

\* r - q * d
Reduced(q) ==
  DDNormalize(DDAdd2Pairs(rem.r, DDMul(q, Negated(rem.d))))

FmodQuotient ==
  LET r == rem.r[1]
      d == rem.d
  IN
  IF Lt(r, Add(d, d)) /\ Le(d, r) THEN Pow2(0)
  ELSE IF Lt(r, Mul(Add(Pow2(1), Pow2(0)), d)) /\ Le(d, r) THEN Pow2(1)
  ELSE PTrunc(Mul(Toward0(r), rem.rd), call.full)

\* The loop goes on while any lane of the vector needs it, so a lane that is
\* done may be run again.
FmodPass ==
  /\ pc = "fmod" /\ round < Rounds
  /\ rem' = [rem EXCEPT !.r = Reduced(FmodQuotient)]
  /\ round' = round + 1
  /\ UNCHANGED <<call, pc, ret>>

FmodReturn ==
  /\ pc = "fmod" /\ round > 0
  /\ round = Rounds \/ Lt(rem.r[1], rem.d)
  /\ ret' =
       IF IsZero(rem.d) THEN NaN
       ELSE IF Lt(rem.n, rem.d) THEN call.x
       ELSE MulSign(IF Eq(Add(rem.r[1], rem.r[2]), rem.d) THEN 0
                    ELSE Mul(rem.r[1], rem.s), call.x)
  /\ pc' = "done"
  /\ UNCHANGED <<call, rem, round>>

\* Mutant of RemainderQuotient: a tie is always rounded down
RemainderQuotientDown ==
  LET r == rem.r[1]
      a == Mag(r)
  IN
  IF Le(a, Mul(rem.d, OneHalf)) THEN 0
  ELSE IF Lt(a, Mul(rem.d, Add(Pow2(0), OneHalf))) THEN MulSign(Pow2(0), r)
  ELSE Rint2(Mul(r, rem.rd))

RemainderQuotient ==
  LET r == rem.r[1]
      a == Mag(r)
      half == Mul(rem.d, OneHalf)
  IN
  IF Lt(a, half) \/ (~rem.odd /\ Eq(a, half)) THEN 0
  ELSE IF Lt(a, Mul(rem.d, Add(Pow2(0), OneHalf))) THEN MulSign(Pow2(0), r)
  ELSE Rint2(Mul(r, rem.rd))

RemainderPass ==
  /\ pc = "remainder" /\ round < Rounds
  /\ LET q0 == RemainderQuotient
         q == IF IsInf(Mul(q0, Negated(rem.d)))
              THEN Add(q0, MulSign(Negated(Pow2(0)), rem.r[1])) ELSE q0
     IN
     \/ Eq(q0, 0) /\ round' = Rounds /\ UNCHANGED rem   \* in all lanes
     \/ /\ rem' = [rem EXCEPT !.r = Reduced(q),
                               !.odd = rem.odd # IsOdd(q)]
        /\ round' = round + 1
  /\ UNCHANGED <<call, pc, ret>>

RemainderReturn ==
  /\ pc = "remainder" /\ round = Rounds
  /\ ret' =
       IF IsZero(rem.d) THEN NaN
       ELSE IF IsInf(call.y) THEN IF IsInf(call.x) THEN NaN ELSE call.x
       ELSE MulSign(Mul(rem.r[1], rem.s), call.x)
  /\ pc' = "done"
  /\ UNCHANGED <<call, rem, round>>

FNext ==
  \/ Evaluate \/ StartFmod \/ FmodPass \/ FmodReturn
  \/ StartRemainder \/ RemainderPass \/ RemainderReturn

FSpec == FInit /\ [][FNext]_fvars

-----------------------------------------------------------------------------
(* Properties.  Exact values are integers: units, or multiples of 1.       *)

Returned(fns) == pc = "done" /\ call.fn \in fns
Size(u) == IF u < 0 THEN -u ELSE u

\* u / 1, rounded to an integer as the function fn says
Rounded(fn, u) ==
  LET one == 2^One
      m == Size(u)
      near == (2 * m + one) \div (2 * one)   \* ties away from zero
      tie == m % one = one \div 2
      s == IF u < 0 THEN -1 ELSE 1
  IN
  CASE fn = "trunc" -> s * (m \div one)
    [] fn = "floor" -> u \div one
    [] fn = "ceil" -> -((-u) \div one)
    [] fn = "round" -> s * near
    [] fn = "rint" -> s * (IF tie /\ near % 2 = 1 THEN near - 1 ELSE near)

\* Rounding to integers is exact, for every number and with either build, keeps
\* the sign of zeros, and passes infinities on; NaN remains NaN.
RoundsExactly ==
  Returned({"trunc", "floor", "ceil", "round", "rint"}) =>
    IF IsNaN(call.x) THEN IsNaN(ret)
    ELSE IF IsInf(call.x) THEN ret = call.x
    ELSE /\ IsFinite(ret)
         /\ Units(ret) = Rounded(call.fn, Units(call.x)) * 2^One
         /\ Negative(ret) = Negative(call.x)

\* No number lies between x and nextafter(x, y), which is on y's side.
StepsToNeighbour ==
  Returned({"nextafter"}) =>
    LET x == call.x  y == call.y IN
    IF IsNaN(x) \/ IsNaN(y) THEN IsNaN(ret)
    ELSE IF Eq(x, y) THEN ret = y
    ELSE /\ Rank(ret) = Rank(x) + (IF Lt(x, y) THEN 1 ELSE -1)
         /\ IsZero(ret) => Negative(ret) = Negative(x)

\* The number with the sign of x whose parts are those in r
MadeUp(x, r) == Round(Negative(x), Sig(r[1]), Shift(r[1]) + r[2])

\* frexp gives a fraction in [1/2, 1) and, of a normal number, the exponent
\* that makes up x with it; ilogb gives the exponent of the leading bit, of
\* subnormal numbers, too.  What frexp makes of subnormal numbers is not C99's
\* (FrexpAsC99), nor that the fraction of NaN is a number (docs/purec.xhtml:2087):
\* of NaN nothing is asked.
PartsMakeUp ==
  /\ Returned({"frexp"}) /\ IsFinite(call.x) /\ ~IsZero(call.x) =>
       /\ Mag(ret[1]) \in Pow2(-1)..(Pow2(0) - 1)
       /\ Mag(call.x) >= MinNormal =>
            MadeUp(call.x, ret) = call.x
  /\ Returned({"ilogb"}) /\ IsFinite(call.x) /\ ~IsZero(call.x) =>
       ret = BitLen(Size(Units(call.x))) - 1 - One

\* frexp as C99 has it, of all numbers but zero
FrexpAsC99 ==
  Returned({"frexp"}) /\ IsFinite(call.x) /\ ~IsZero(call.x) =>
    MadeUp(call.x, ret) = call.x

\* The factor is a number: |q| < 4096 in double precision
Unclipped(q) == Factor(QuarterOf(q)) \in 1..MaxFinite

\* ldexp is exact where x * 2^q is a number, and yields one of the two numbers
\* next to it elsewhere, however large q is.  Infinities and zeros are kept as
\* long as the factor is not clipped; beyond that they may get NaN, which is
\* not what C99 says (docs/purec.xhtml:2055-2058).
LdexpFaithful ==
  Returned({"ldexp"}) =>
    LET x == call.x
        e == Shift(x) + call.y
        exact == Round(Negative(x), Sig(x), IF e < -2*P THEN -2*P ELSE e)
    IN   \* less than 2^-P units are rounded to 0
    IF IsNaN(x) THEN IsNaN(ret)
    ELSE IF IsInf(x) \/ IsZero(x)
    THEN ret = x \/ (~Unclipped(call.y) /\ IsNaN(ret))
    ELSE /\ Rank(ret) \in (Rank(exact) - 1)..(Rank(exact) + 1)
         /\ e >= 0 => ret = exact

\* The arguments for which fmod and remainder promise the exact result:
\* |x / y| < 1e300
Promised ==
  /\ call.fn \in Loops /\ IsFinite(call.x) /\ IsFinite(call.y)
  /\ ~IsZero(call.y)
  /\ Size(Units(call.x)) < 2^Bias * Size(Units(call.y))

\* However often the loop is run, for this lane or for others, n - r is a
\* multiple of d, without an error, and the remainder of fmod is not negative.
StaysCongruent ==
  Promised /\ pc # "start" =>
    LET r == Units(rem.r[1]) + Units(rem.r[2]) IN
    /\ IsFinite(rem.n) /\ IsFinite(rem.r[1]) /\ IsFinite(rem.r[2])
    /\ (Units(rem.n) - r) % Units(rem.d) = 0
    /\ call.fn = "fmod" => r >= 0

\* The passes suffice, and fmod and remainder are exact, with the sign of x.
RemaindersExact ==
  Promised /\ pc = "done" =>
    LET x == Size(Units(call.x))
        y == Size(Units(call.y))
        q == x \div y
        up == 2 * (x % y) > y \/ (2 * (x % y) = y /\ q % 2 = 1)
        r == IF call.fn = "remainder" /\ up THEN (x % y) - y ELSE x % y
    IN  /\ IsFinite(ret)
        /\ Units(ret) = IF Negative(call.x) THEN -r ELSE r
        /\ r = 0 => Negative(ret) = Negative(call.x)

\* The errors of sums and products that dd.h computes are exact: of ddadd2 and,
\* when |x| >= |y|, of ddadd below half of the largest number, of ddmul when it
\* is not below the least number.
ErrorsExact ==
  /\ Returned({"ddadd2", "ddadd"})
     /\ Expo(call.x) < 2^EBits - 2 /\ Expo(call.y) < 2^EBits - 2
     /\ (call.fn = "ddadd" => Mag(call.x) >= Mag(call.y)) =>
       Units(ret[1]) + Units(ret[2]) = Units(call.x) + Units(call.y)
  /\ Returned({"ddmul"})
     /\ IsFinite(call.x) /\ IsFinite(call.y) /\ IsFinite(ret[1])
     /\ Shift(call.x) + Shift(call.y) >= One =>
       Units(ret[1]) + Units(ret[2])
         = (IF Opposite(call.x, call.y) THEN -1 ELSE 1)
           * Sig(call.x) * Sig(call.y) * 2^(Shift(call.x) + Shift(call.y) - One)

\* hypot does not overflow on the way and loses no small numbers: what it
\* yields is less than three units in the last place from the distance.
HypotWithin ==
  Returned({"hypot_u05", "hypot_u35"}) =>
    LET x == Mag(call.x)  y == Mag(call.y) IN
    IF IsInf(x) \/ IsInf(y) THEN ret = Inf
    ELSE IF IsNaN(x) \/ IsNaN(y) THEN IsNaN(ret)
    ELSE IF IsZero(Larger(x, y)) THEN IsZero(ret)
    ELSE LET k == IF Shift(x) < Shift(y) THEN Shift(x) ELSE Shift(y)
             a == Sig(x) * 2^(Shift(x) - k)
             b == Sig(y) * 2^(Shift(y) - k)
             Twice(v) == (2 * Units(v)) \div 2^k
             Square(v) == Twice(v) * Twice(v)
             square == 4 * (a * a + b * b)
         IN
         IF a > 2^12 \/ b > 2^12   \* the other one is below the last place
         THEN ret \in Larger(x, y)..(Larger(x, y) + 1)
         ELSE /\ ret >= 3 => Square(ret - 3) < square
              /\ IsInf(ret) \/ square < Square(ret + 3)

\* What the functions without a loop return is right for every number of the
\* format: rounding to integers, the neighbours of a number, its parts, scaling
\* by powers of two, the errors of sums and products, and hypot.
ResultsRight ==
  /\ RoundsExactly /\ StepsToNeighbour /\ PartsMakeUp
  /\ LdexpFaithful /\ ErrorsExact /\ HypotWithin
=============================================================================
