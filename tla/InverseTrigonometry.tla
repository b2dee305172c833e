------------------------ MODULE InverseTrigonometry ------------------------
(***************************************************************************)
(* Arc sine, arc cosine and arc tangent: which argument the polynomial     *)
(* gets, how the angle it returns is brought to the right quadrant, and    *)
(* what is selected for zeros, infinities and NaN.  Angles are multiples   *)
(* of pi/48.  A number is named by the angle that has it for its sine or   *)
(* tangent; a quotient of two numbers, by the angle whose tangent it is.   *)
(* Numbers beyond 1, which have no arc sine, are written as infinities.    *)
(***************************************************************************)
EXTENDS ExtendedIntegers

CONSTANTS
  InverseCalls,   \* function, argument x (arc sine, cosine and tangent)
  Quotients,      \* or the calls of atan2
  MaxSize         \* the exponent, in steps of 53 (24) bits, of large numbers

ASSUME InverseAssumption == MaxSize \in Nat \ {0}

VARIABLES
  icall,   \* the call
  iret     \* what it returns, in a sequence; before that, empty

invvars == <<icall, iret>>

RightAngle == 24
Straight == 48

\* c + f * r
Combined(c, f, r) == IF Finite(r) THEN Number(c + f * r.k) ELSE r

\* What a polynomial makes of a number of angles up to bound
ArcPoly(x, bound) == IF Finite(x) /\ Abs(x.k) > bound THEN Spoilt ELSE x

-----------------------------------------------------------------------------
(* Arc sine and arc cosine.  The sine of 8 is 1/2.                         *)

Slight(d) == Finite(d) /\ Abs(d.k) < 8
IsUnit(d) == Finite(d) /\ Abs(d.k) = RightAngle

\* sqrt((1 - |d|) / 2): the sine of half of the angle's complement
RootOf(d) ==
  IF Finite(d) THEN Number((RightAngle - Abs(d.k)) \div 2) ELSE Undefined
\* As a double-double number the root of 0 is NaN.
DDRootOf(d) == IF IsUnit(d) THEN Undefined ELSE RootOf(d)
UnlessUnit(d, x) == IF IsUnit(d) THEN Number(0) ELSE x

ArcOf(d, root) == ArcPoly(IF Slight(d) THEN Magnitude(d) ELSE root, 8)

ArcSine(d, u) ==
  SignedAs(IF Slight(d) THEN u ELSE Combined(RightAngle, -2, u), d)
\* The complement is subtracted before it is doubled.
ArcSineDD(d, u) ==
  SignedAs(IF Slight(d) THEN u
           ELSE Combined(0, 2, Combined(RightAngle \div 2, -1, u)), d)

\* Mutant of ArcCosine: a negative number that is not slight keeps its angle
ArcCosinePositive(d, u) ==
  IF Slight(d) THEN Combined(RightAngle, -1, SignedAs(u, d))
  ELSE Combined(0, 2, u)

ArcCosine(d, u) ==
  IF Slight(d) THEN Combined(RightAngle, -1, SignedAs(u, d))
  ELSE IF d.k < 0 THEN Combined(Straight, -1, Combined(0, 2, u))
  ELSE Combined(0, 2, u)

xasin(d) == ArcSine(d, ArcOf(d, RootOf(d)))
xasin_u1(d) == ArcSineDD(d, ArcOf(d, UnlessUnit(d, DDRootOf(d))))
xacos(d) == ArcCosine(d, ArcOf(d, UnlessUnit(d, RootOf(d))))
xacos_u1(d) == ArcCosine(d, ArcOf(d, UnlessUnit(d, DDRootOf(d))))

\* sleefsimdsp.c
xasinf(d) == ArcSine(d, ArcOf(d, RootOf(d)))
xasinf_u1(d) == ArcSineDD(d, ArcOf(d, UnlessUnit(d, DDRootOf(d))))
xacosf(d) == ArcCosine(d, ArcOf(d, UnlessUnit(d, RootOf(d))))
xacosf_u1(d) == ArcCosine(d, ArcOf(d, UnlessUnit(d, DDRootOf(d))))

-----------------------------------------------------------------------------
(* Arc tangent.  The tangent of 12 is 1; 1/s is that of the complement.    *)

AboveOne(s) == s.kind = "inf" \/ Abs(s.k) > 12
Inverted(s) == IF Finite(s) THEN Number(RightAngle - s.k) ELSE Number(0)
ArcTangent(s, t) ==
  SignedAs(IF AboveOne(s) THEN Combined(RightAngle, -1, t) ELSE t, s)

xatan(s) ==
  ArcTangent(s, ArcPoly(IF AboveOne(s) THEN Inverted(Magnitude(s))
                        ELSE Magnitude(s), 12))
xatanf(s) == xatan(s)

\* The numbers of atan2: sign and size.  Zero, infinity and NaN are the sizes
\* beyond MaxSize on both sides.
ZeroSize == -MaxSize - 1
InfSize == MaxSize + 1
NaNSize == MaxSize + 2
IsNaNSize(v) == v.size = NaNSize

\* The angle of y / x, for positive numbers: it is given when they are of one
\* size, and next to 0 or to a right angle otherwise.
Arc(y, x, angle) ==
  IF y.size = x.size THEN angle
  ELSE IF y.size < x.size THEN 0 ELSE RightAngle

LessThan(x, y, angle) ==
  /\ ~IsNaNSize(x) /\ ~IsNaNSize(y)
  /\ \/ x.size < y.size
     \/ x.size = y.size /\ x.size \in (-MaxSize)..MaxSize /\ angle > 12

\* Division of numbers, and of double-double numbers, for which the
\* reciprocal must be finite and not zero
Divisible(n, d) ==
  /\ ~IsNaNSize(n) /\ ~IsNaNSize(d)
  /\ ~(n.size = d.size /\ n.size \in {ZeroSize, InfSize})
DDDivisible(n, d) ==
  ~IsNaNSize(n) /\ d.size \in (-MaxSize + 1)..MaxSize

\* atan2k, atan2k_u1: of |y| and x.  The quotient is -x / y if |x| < |y|.
AtanK(y, x, angle, minus, CanDivide(_, _)) ==
  LET less == LessThan(x, y, angle)
      q == (IF minus THEN -2 ELSE 0) + (IF less THEN 1 ELSE 0)
      s == IF less THEN Arc(y, x, angle) - RightAngle ELSE Arc(y, x, angle)
  IN
  IF ~(IF less THEN CanDivide(x, y) ELSE CanDivide(y, x)) THEN Undefined
  ELSE Combined(q * RightAngle, 1, ArcPoly(Number(s), 12))

atan2k(y, x, angle) == AtanK(y, x, angle, x.minus, Divisible)
atan2k_u1(y, x, angle) == AtanK(y, x, angle, x.minus, DDDivisible)
atan2kf(y, x, angle) == AtanK(y, x, angle, x.minus, Divisible)
\* compares x with 0, which a minus zero is not less than
atan2kf_u1(y, x, angle) ==
  AtanK(y, x, angle, x.minus /\ x.size > ZeroSize, DDDivisible)

\* visinf2: the right angle moves if x is infinite.
Infinitely(x, m) ==
  IF x.size # InfSize THEN RightAngle
  ELSE IF x.minus THEN RightAngle + m ELSE RightAngle - m

\* What is selected instead of r, one after the other
Selected(y, x, r) ==
  IF y.size = ZeroSize THEN Number(IF x.minus THEN Straight ELSE 0)
  ELSE IF y.size = InfSize THEN Number(Infinitely(x, RightAngle \div 2))
  ELSE IF x.size \in {InfSize, ZeroSize} THEN Number(Infinitely(x, RightAngle))
  ELSE IF x.minus THEN Opposed(r) ELSE r

Atan2(y, x, r) ==
  IF IsNaNSize(y) \/ IsNaNSize(x) THEN Undefined
  ELSE IF y.minus THEN Opposed(Selected(y, x, r)) ELSE Selected(y, x, r)

\* Times 2^53 (2^24)
Raised(v) ==
  IF v.size \in (-MaxSize)..MaxSize THEN [v EXCEPT !.size = @ + 1] ELSE v

\* Mutant of ScaledUp: not of numbers the reciprocal of which is infinite
ScaledUpNever(v, x) == v

\* Both numbers, if the reciprocal of x would be infinite
ScaledUp(v, x) == IF x.size <= -MaxSize THEN Raised(v) ELSE v

xatan2(y, x, angle) == Atan2(y, x, atan2k(y, x, angle))
xatan2_u1(y0, x0, angle) ==
  LET y == ScaledUp(y0, x0)  x == ScaledUp(x0, x0)
  IN  Atan2(y, x, atan2k_u1(y, x, angle))
xatan2f(y, x, angle) == Atan2(y, x, atan2kf(y, x, angle))
xatan2f_u1(y0, x0, angle) ==
  LET y == ScaledUp(y0, x0)  x == ScaledUp(x0, x0)
  IN  Atan2(y, x, atan2kf_u1(y, x, angle))

\* d / 1.  An arc tangent near a right angle has a large tangent.
Sized(d) == [minus |-> HasMinus(d),
             size |-> IF d = Undefined THEN NaNSize
                      ELSE IF Finite(d) THEN 0 ELSE InfSize]
AtanU1(d, r) ==
  SignedAs(IF d.kind = "inf" THEN Number(RightAngle) ELSE r, d)
xatan_u1(d) ==
  AtanU1(d, atan2k_u1(Sized(Magnitude(d)), Sized(Number(0)), Abs(d.k)))
xatanf_u1(d) ==
  AtanU1(d, atan2kf_u1(Sized(Magnitude(d)), Sized(Number(0)), Abs(d.k)))

-----------------------------------------------------------------------------
(* sleefsimdqp.c: the root of a triple-double number 0 is 0, quotients have *)
(* a wide exponent, and a itself is returned where it is tiny.             *)

TdxSlight(d) == Finite(d) /\ Abs(d.k) <= 8
TdxArcOf(d) == ArcPoly(IF TdxSlight(d) THEN Magnitude(d) ELSE RootOf(d), 8)

asin_tdx_tdx(a) ==
  LET u == TdxArcOf(a) IN
  IF a.kind = "inf" THEN Undefined
  ELSE IF a = MinusZero THEN a
  ELSE SignedAs(IF TdxSlight(a) THEN u ELSE Combined(RightAngle, -2, u), a)

acos_tdx_tdx(a) ==
  LET u == TdxArcOf(a) IN
  IF TdxSlight(a) THEN Combined(RightAngle, -1, SignedAs(u, a))
  ELSE IF HasMinus(a) THEN Combined(Straight, -1, Combined(0, 2, u))
  ELSE Combined(0, 2, u)

\* Between 1/4 and 2^17 the polynomial gets the tangent of half the angle, and
\* what it returns is doubled; elsewhere the number itself or its reciprocal.
HalfAngle(s) == s.kind = "number" /\ Abs(s.k) \in 4..(RightAngle - 1)
TdxArc(s) ==
  ArcPoly(IF AboveOne(s) THEN Inverted(Magnitude(s)) ELSE Magnitude(s),
          IF HalfAngle(s) THEN 12 ELSE 3)
atan_tdx_tdx(a) ==
  IF a \in {MinusZero, Undefined} THEN a ELSE ArcTangent(a, TdxArc(a))

\* |y| is compared with x, which it exceeds whenever that is negative.
TdxExceeds(y, x, angle) ==
  (x.minus /\ x.size > ZeroSize) \/ LessThan(x, y, angle)
TdxAtanK(y, x, angle) ==
  LET o == TdxExceeds(y, x, angle)
      q == (IF x.minus THEN -2 ELSE 0) + (IF o THEN 1 ELSE 0)
      s == IF o THEN Arc(y, x, angle) - RightAngle ELSE Arc(y, x, angle)
  IN
  IF ~(IF o THEN Divisible(x, y) ELSE Divisible(y, x)) THEN Undefined
  ELSE Combined(q * RightAngle, 1, atan_tdx_tdx(Number(s)))
atan2_tdx_tdx_tdx(y, x, angle) == Atan2(y, x, TdxAtanK(y, x, angle))

xasinq_u10(a) == asin_tdx_tdx(a)
xacosq_u10(a) == acos_tdx_tdx(a)
xatanq_u10(a) == atan_tdx_tdx(a)
xatan2q_u10(y, x, angle) == atan2_tdx_tdx_tdx(y, x, angle)

-----------------------------------------------------------------------------
InverseResult(c) ==
  CASE c.fn = "xasin" -> xasin(c.x)
    [] c.fn = "xasin_u1" -> xasin_u1(c.x)
    [] c.fn = "xacos" -> xacos(c.x)
    [] c.fn = "xacos_u1" -> xacos_u1(c.x)
    [] c.fn = "xasinf" -> xasinf(c.x)
    [] c.fn = "xasinf_u1" -> xasinf_u1(c.x)
    [] c.fn = "xacosf" -> xacosf(c.x)
    [] c.fn = "xacosf_u1" -> xacosf_u1(c.x)
    [] c.fn = "xatan" -> xatan(c.x)
    [] c.fn = "xatan_u1" -> xatan_u1(c.x)
    [] c.fn = "xatanf" -> xatanf(c.x)
    [] c.fn = "xatanf_u1" -> xatanf_u1(c.x)
    [] c.fn = "xasinq_u10" -> xasinq_u10(c.x)
    [] c.fn = "xacosq_u10" -> xacosq_u10(c.x)
    [] c.fn = "xatanq_u10" -> xatanq_u10(c.x)
    [] c.fn = "xatan2q_u10" -> xatan2q_u10(c.y, c.x, c.angle)
    [] c.fn = "xatan2" -> xatan2(c.y, c.x, c.angle)
    [] c.fn = "xatan2_u1" -> xatan2_u1(c.y, c.x, c.angle)
    [] c.fn = "xatan2f" -> xatan2f(c.y, c.x, c.angle)
    [] c.fn = "xatan2f_u1" -> xatan2f_u1(c.y, c.x, c.angle)

InverseInit == icall \in InverseCalls \cup Quotients /\ iret = <<>>

InverseCall ==
  /\ iret = <<>>
  /\ iret' = <<InverseResult(icall)>>
  /\ UNCHANGED icall

InverseSpec == InverseInit /\ [][InverseCall]_invvars

-----------------------------------------------------------------------------
ArcSines == {"xasin", "xasin_u1", "xasinf", "xasinf_u1",
             "xasinq_u10"}
ArcCosines == {"xacos", "xacos_u1", "xacosf", "xacosf_u1",
             "xacosq_u10"}
ArcTangents == {"xatan", "xatan_u1", "xatanf", "xatanf_u1",
             "xatanq_u10"}

Atan2s == {"xatan2", "xatan2_u1", "xatan2f", "xatan2f_u1", "xatan2q_u10"}

\* Numbers that have an arc sine (even ones, as their angle is halved), numbers
\* that are a tangent, and the operands of atan2
SineArguments ==
  {Number(k) : k \in {j \in (-RightAngle)..RightAngle : j % 2 = 0}}
  \cup Specials
TangentArguments ==
  {Number(k) : k \in (1 - RightAngle)..(RightAngle - 1)}
  \cup Specials
AtanOperands == [minus : BOOLEAN, size : ZeroSize..NaNSize]

ASSUME InverseCallsAssumption ==
  /\ \A c \in InverseCalls :
       \/ c.fn \in ArcSines \cup ArcCosines /\ c.x \in SineArguments
       \/ c.fn \in ArcTangents /\ c.x \in TangentArguments
  /\ \A c \in Quotients :
       /\ c.fn \in Atan2s /\ c.x \in AtanOperands /\ c.y \in AtanOperands
       /\ c.angle \in 1..(RightAngle - 1)

\* atan2 as C99 has it: annex F.9.1.4
Atan2C99(y, x, angle) ==
  LET zero(v) == v.size = ZeroSize
      inf(v) == v.size = InfSize
      size ==
        CASE zero(y) -> IF x.minus THEN Straight ELSE 0
          [] inf(y) /\ inf(x) -> IF x.minus THEN 36 ELSE 12
          [] inf(y) /\ ~inf(x) -> RightAngle
          [] ~zero(y) /\ ~inf(y) /\ zero(x) -> RightAngle
          [] OTHER -> IF x.minus THEN Straight - Arc(y, x, angle)
                                 ELSE Arc(y, x, angle)
  IN
  IF IsNaNSize(y) \/ IsNaNSize(x) THEN Undefined
  ELSE IF y.minus THEN Opposed(Number(size)) ELSE Number(size)

\* The inverse functions return the angle their argument is named by, in the
\* quadrant its signs say, with the sign of zeros; NaN where there is none; and
\* of infinities, of zeros, and of numbers the reciprocals or multiples of which
\* are out of range, what C99 says.
AnglesRight ==
  \A i \in DOMAIN iret :
    LET x == icall.x
        r == iret[i]
    IN
    CASE icall.fn \in ArcSines -> r = IF Finite(x) THEN x ELSE Undefined
      [] icall.fn \in ArcCosines ->
           r = IF Finite(x) THEN Number(RightAngle - x.k) ELSE Undefined
      [] icall.fn \in ArcTangents ->
           r = IF x.kind = "inf" THEN Number(x.k * RightAngle) ELSE x
      [] OTHER -> r = Atan2C99(icall.y, x, icall.angle)
=============================================================================
