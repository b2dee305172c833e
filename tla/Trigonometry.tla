---------------------------- MODULE Trigonometry ----------------------------
(***************************************************************************)
(* Sine, cosine and tangent of the lanes of a vector: which reduction of   *)
(* the argument a lane gets, and what is made of quotient and remainder.   *)
(* Angles are multiples of pi/16.  The polynomials stand for the functions *)
(* they approximate, where they do: a sine (a tangent) is named by the     *)
(* angle around 0 that has it.  Arguments of odd multiples stand for those *)
(* near them, so that a quotient half way between two integers is rounded  *)
(* to either.                                                              *)
(***************************************************************************)
EXTENDS ExtendedIntegers

CONSTANTS
  TrigCalls,    \* function, arguments, error of the quotient, rest in rempi
  NearRange,    \* 15, or 125: to here two (three) parts of pi suffice
  MiddleRange,  \* 1e+14, 39000 or 2^28: to here four parts of pi suffice
  TanRange,     \* 1e+6, where xtan uses it instead
  FastRange,    \* 30: to here one part suffices the fast functions
  PiRange,      \* 2.5e+8 (TRIGRANGEMAX3/4), 1e+7 or 8e+6
  IntRange,     \* 2^29: 4 times that does not fit in an int
  Split         \* 2^24: what the upper part of a quotient is a multiple of

ASSUME TrigAssumption ==
  /\ {NearRange, MiddleRange, TanRange, FastRange, PiRange, IntRange, Split}
       \subseteq Nat
  /\ FastRange <= NearRange /\ NearRange <= TanRange /\ TanRange <= MiddleRange
  /\ PiRange < IntRange /\ MiddleRange > 5 /\ Split > 0 /\ Split % 4 = 0

VARIABLES
  tcall,   \* the call
  tret     \* what it returns for each lane; before that, empty

trigvars == <<tcall, tret>>

HalfTurn == 16      \* pi
QuarterTurn == 8    \* pi / 2
Turn == 32

Below(x, range) == Finite(x) /\ Abs(x.k) < range
Bit(q, b) == (q \div b) % 2 = 1

-----------------------------------------------------------------------------
(* Reductions: a quotient q, or enough of it, and a remainder d            *)

\* rint(k / n)
Nearest2(k, n) == (k + n \div 2) \div n
\* The same where k / n is itself rounded
Quot(k, n) == Nearest2(k + tcall.err, n)
Chopped(k, n) == IF k < 0 THEN -((-k) \div n) ELSE k \div n

Reduction(q, k, right) ==
  [q |-> q, d |-> IF right THEN Number(k) ELSE Spoilt]

\* With a quotient in one part; step is pi or pi / 2.
Simply(x, step, range) ==
  Reduction(Quot(x.k, step), x.k - step * Quot(x.k, step), Below(x, range))

\* With a quotient in two parts, qh and what is added to it; of the sum only
\* the lower part is kept.
High(k, n) == Split * Chopped(k, n * Split)
InParts(x, step, qh, ql) ==
  Reduction(ql, x.k - step * (qh + ql), Below(x, MiddleRange))
Doubly(x, step) ==
  InParts(x, step, High(x.k, step),
          Quot(x.k - step * High(x.k, step), step))

\* xtan_u1 adds 1/2 with the sign of the argument and chops.
DoublyChopped(x) ==
  InParts(x, QuarterTurn, High(x.k, QuarterTurn),
          Chopped(x.k - QuarterTurn * High(x.k, QuarterTurn)
                    + (IF x.k < 0 THEN -1 ELSE 1) * (QuarterTurn \div 2),
                  QuarterTurn))

\* For cosine the quotient of pi / 2 is odd.
OddQuot(k) == 2 * Quot(k - QuarterTurn, HalfTurn) + 1
CosSimply(x, range) ==
  Reduction(OddQuot(x.k), x.k - QuarterTurn * OddQuot(x.k), Below(x, range))
\* 5 is HalfTurn / pi.
CosHigh(k) == Split * Chopped(2 * k - 5, HalfTurn * Split)
CosDoubly(x) ==
  InParts(x, QuarterTurn, CosHigh(x.k),
          OddQuot(x.k - QuarterTurn * CosHigh(x.k)))

\* rempisub: to the nearest multiple of pi / 2; what counts of whole turns is
\* dropped.
RempiSub(k) ==
  [q |-> Nearest2(k, QuarterTurn) - 4 * Nearest2(k, Turn),
   rest |-> k - QuarterTurn * Nearest2(k, QuarterTurn)]
Rempi2(x, first, second) ==
  Reduction(first.q + second.q,
            IF Abs(x.k) <= 3 THEN x.k ELSE second.rest, TRUE)   \* 0.7
Rempi1(x, tail, first) == Rempi2(x, first, RempiSub(first.rest + tail))
\* rempi: the product with the first number of the table leaves out tail, which
\* is added afterwards.
Rempi(x) ==
  IF Finite(x) THEN Rempi1(x, tcall.tail, RempiSub(x.k - tcall.tail))
  ELSE [q |-> 0, d |-> Undefined]

Moved(x, k) == IF Finite(x) THEN Number(x.k + k) ELSE x
TowardZero(x) == IF x.k > 0 THEN -QuarterTurn ELSE QuarterTurn

\* Multiples of pi / 2 into those of pi, for sine
SinQuadrant(r) ==
  [q |-> (2 * (r.q % 4) + (IF r.d.k > 0 THEN 2 ELSE 1)) \div 4,
   d |-> IF Bit(r.q, 1) THEN Moved(r.d, TowardZero(r.d)) ELSE r.d]
\* and into odd ones of pi / 2, for cosine
CosQuadrant(r) ==
  [q |-> (2 * (r.q % 4) + (IF r.d.k > 0 THEN 8 ELSE 7)) \div 2,
   d |-> IF Bit(r.q, 1) THEN r.d ELSE Moved(r.d, TowardZero(r.d))]

\* The next reduction is run, for all lanes, if a lane is beyond the range of
\* the last one, and taken where it is.
Staged(v, First(_), range1, Second(_), range2, Third(_)) ==
  LET second == [l \in DOMAIN v |->
                   IF Below(v[l], range1) THEN First(v[l]) ELSE Second(v[l])]
  IN
  IF \A l \in DOMAIN v : Below(v[l], range1)
  THEN [l \in DOMAIN v |-> First(v[l])]
  ELSE IF \A l \in DOMAIN v : Below(v[l], range2) THEN second
  ELSE [l \in DOMAIN v |->
          IF Below(v[l], range2) THEN second[l] ELSE Third(v[l])]

-----------------------------------------------------------------------------
(* What the polynomials compute, within a bound                            *)

\* The angle from -pi/2 to pi/2 of the same sine
Folded(m) ==
  IF m <= QuarterTurn THEN m
  ELSE IF m <= 3 * QuarterTurn THEN HalfTurn - m ELSE m - Turn
SineOf(k) == Number(Folded(k % Turn))
TangentOf(k) == Number(((k + QuarterTurn) % HalfTurn) - QuarterTurn)

Poly(x, bound, Of(_)) ==
  IF ~Finite(x) THEN x ELSE IF Abs(x.k) > bound + 1 THEN Spoilt ELSE Of(x.k)
CosineOf(k) == SineOf(k + QuarterTurn)
NegCotangentOf(k) == TangentOf(k + QuarterTurn)

Sine(x) == IF x = MinusZero THEN x ELSE Poly(x, QuarterTurn, SineOf)
SmallSine(x) == IF x = MinusZero THEN x ELSE Poly(x, QuarterTurn \div 2, SineOf)
SmallCosine(x) == Poly(x, QuarterTurn \div 2, CosineOf)

Flipped(x, yes) == IF yes /\ x.kind = "number" THEN Number(-x.k) ELSE x
Recip(x) == IF Finite(x) THEN TangentOf(QuarterTurn - x.k) ELSE x

SinFrom(r) == Flipped(Sine(r.d), Bit(r.q, 1))
CosFrom(r) == Flipped(Sine(r.d), ~Bit(r.q, 2))
\* By the half of the angle: of an odd quotient numerator and denominator are
\* exchanged.
TanFrom(r) ==
  IF Bit(r.q, 1) THEN Poly(r.d, QuarterTurn \div 2, NegCotangentOf)
  ELSE Poly(r.d, QuarterTurn \div 2, TangentOf)
TanfFrom(r) ==
  IF Bit(r.q, 1)
  THEN Recip(Poly(Flipped(r.d, TRUE), QuarterTurn \div 2, TangentOf))
  ELSE Poly(r.d, QuarterTurn \div 2, TangentOf)

\* Sine and cosine, exchanged and with signs as the bits of q say
Signed(s, c, exchange, sneg, cneg) ==
  <<Flipped(IF exchange THEN c ELSE s, sneg),
    Flipped(IF exchange THEN s ELSE c, cneg)>>
SinCosFrom(x, r) ==
  Signed(IF x = MinusZero THEN x ELSE SmallSine(r.d), SmallCosine(r.d),
         Bit(r.q, 1), Bit(r.q, 2), Bit(r.q + 1, 2))

-----------------------------------------------------------------------------
(* sleefsimddp.c.  v holds the arguments.                                  *)

\* The argument itself where it is a negative zero (elsewhere: is zero)
Each(v, Result(_)) ==
  [l \in DOMAIN v |-> IF v[l] = MinusZero THEN v[l] ELSE Result(l)]

SinNear(x) == Simply(x, HalfTurn, NearRange)
SinMiddle(x) == Doubly(x, HalfTurn)
SinFar(x) == SinQuadrant(Rempi(x))
CosNear(x) == CosSimply(x, NearRange)
CosFar(x) == CosQuadrant(Rempi(x))
PairNear(x) == Simply(x, QuarterTurn, NearRange)
PairMiddle(x) == Doubly(x, QuarterTurn)

SinReduced(v) ==
  Staged(v, SinNear, NearRange, SinMiddle, MiddleRange, SinFar)
CosReduced(v) ==
  Staged(v, CosNear, NearRange, CosDoubly, MiddleRange, CosFar)
\* Mutant of PairReduced: where a lane needs rempi, those in the middle keep
\* what the first reduction made of them
PairReducedLost(v, range) ==
  IF \A l \in DOMAIN v : Below(v[l], range)
  THEN Staged(v, PairNear, NearRange, PairMiddle, range, Rempi)
  ELSE [l \in DOMAIN v |->
          IF Below(v[l], range) THEN PairNear(v[l]) ELSE Rempi(v[l])]
PairReduced(v, range) ==
  Staged(v, PairNear, NearRange, PairMiddle, range, Rempi)

xsin(v) == Each(v, LAMBDA l : SinFrom(SinReduced(v)[l]))
xsin_u1(v) ==
  [l \in DOMAIN v |->
     IF v[l].k = 0 /\ Finite(v[l]) THEN v[l] ELSE SinFrom(SinReduced(v)[l])]
xcos(v) == [l \in DOMAIN v |-> CosFrom(CosReduced(v)[l])]
xcos_u1(v) == [l \in DOMAIN v |-> CosFrom(CosReduced(v)[l])]
xsincos(v) ==
  [l \in DOMAIN v |-> SinCosFrom(v[l], PairReduced(v, MiddleRange)[l])]
xsincos_u1(v) ==
  [l \in DOMAIN v |-> SinCosFrom(v[l], PairReduced(v, MiddleRange)[l])]
xtan(v) == Each(v, LAMBDA l : TanFrom(PairReduced(v, TanRange)[l]))
xtan_u1(v) ==
  Each(v, LAMBDA l : TanFrom(Staged(v, PairNear, NearRange, DoublyChopped,
                                    MiddleRange, Rempi)[l]))

-----------------------------------------------------------------------------
(* Functions of multiples of pi: the quotient of pi/4 is even.             *)

EvenUp(t) == 2 * ((IF t < 0 THEN t ELSE t + 1) \div 2)
PiReduced(x) ==
  IF x = MinusZero \/ ~Finite(x) THEN [q |-> 0, d |-> x]
  ELSE Reduction(EvenUp(Chopped(x.k, 4)), x.k - 4 * EvenUp(Chopped(x.k, 4)),
                 Abs(x.k) < IntRange)

sinpik(r) ==
  Flipped(IF Bit(r.q, 2) THEN SmallCosine(r.d) ELSE SmallSine(r.d),
          Bit(r.q, 4))
cospik(r) ==
  Flipped(IF Bit(r.q, 2) THEN SmallSine(r.d) ELSE SmallCosine(r.d),
          Bit(r.q + 2, 4))

Limited(x, value, instead) ==
  IF x.kind = "inf" THEN Undefined
  ELSE IF Finite(x) /\ Abs(x.k) > PiRange THEN instead ELSE value

xsinpi_u05(v) ==
  Each(v, LAMBDA l : Limited(v[l], sinpik(PiReduced(v[l])), Number(0)))
xcospi_u05(v) ==
  [l \in DOMAIN v |->
     Limited(v[l], cospik(PiReduced(v[l])), Number(QuarterTurn))]

PairOfPi(x, r, instead) ==
  LET pair == Signed(SmallSine(r.d), SmallCosine(r.d),
                     Bit(r.q, 2), Bit(r.q, 4), Bit(r.q + 2, 4))
  IN  <<Limited(x, pair[1], Number(0)), Limited(x, pair[2], instead)>>
xsincospi_u05(v) ==
  [l \in DOMAIN v |-> PairOfPi(v[l], PiReduced(v[l]), Number(QuarterTurn))]
xsincospi_u35(v) ==
  [l \in DOMAIN v |-> PairOfPi(v[l], PiReduced(v[l]), Number(0))]

-----------------------------------------------------------------------------
(* sleefsimdsp.c: the quotient fits in one part; the more accurate         *)
(* functions go on to rempif at once.                                      *)

SinMiddlef(x) == Simply(x, HalfTurn, MiddleRange)
CosMiddlef(x) == CosSimply(x, MiddleRange)
PairMiddlef(x) == Simply(x, QuarterTurn, MiddleRange)

xsinf(v) ==
  Each(v, LAMBDA l : SinFrom(Staged(v, SinNear, NearRange, SinMiddlef,
                                    MiddleRange, SinFar)[l]))
xcosf(v) ==
  [l \in DOMAIN v |-> CosFrom(Staged(v, CosNear, NearRange, CosMiddlef,
                                     MiddleRange, CosFar)[l])]
xsincosf(v) ==
  [l \in DOMAIN v |-> SinCosFrom(v[l], Staged(v, PairNear, NearRange,
                                    PairMiddlef, MiddleRange, Rempi)[l])]
\* Of a negative zero the quotient is a positive one, which leaves it as it is.
xtanf(v) ==
  Each(v, LAMBDA l : TanfFrom(Staged(v, PairNear, NearRange \div 2, PairMiddlef,
                                     MiddleRange, Rempi)[l]))

xsinf_u1(v) ==
  Each(v, LAMBDA l : SinFrom(Staged(v, SinNear, NearRange, SinFar, NearRange,
                                    SinFar)[l]))
xcosf_u1(v) ==
  [l \in DOMAIN v |-> CosFrom(Staged(v, CosNear, NearRange, CosFar, NearRange,
                                     CosFar)[l])]
xsincosf_u1(v) ==
  [l \in DOMAIN v |-> SinCosFrom(v[l], Staged(v, PairNear, NearRange, Rempi,
                                              NearRange, Rempi)[l])]
xtanf_u1(v) ==
  Each(v, LAMBDA l : TanfFrom(Staged(v, PairNear, NearRange, Rempi, NearRange,
                                     Rempi)[l]))

FastQuot(k) == Quot(k - QuarterTurn, HalfTurn)
xfastsinf_u3500(v) ==
  [l \in DOMAIN v |->
     IF Below(v[l], FastRange) THEN SinFrom(Simply(v[l], HalfTurn, FastRange))
     ELSE xsinf(v)[l]]
xfastcosf_u3500(v) ==
  [l \in DOMAIN v |->
     IF Below(v[l], FastRange)
     THEN Flipped(Sine(Number(v[l].k - QuarterTurn
                                - HalfTurn * FastQuot(v[l].k))),
                  ~Bit(FastQuot(v[l].k), 1))
     ELSE xcosf(v)[l]]

xsinpif_u05(v) ==
  Each(v, LAMBDA l : Limited(v[l], sinpik(PiReduced(v[l])), Number(0)))
xcospif_u05(v) ==
  [l \in DOMAIN v |->
     Limited(v[l], cospik(PiReduced(v[l])), Number(QuarterTurn))]
xsincospif_u05(v) ==
  [l \in DOMAIN v |-> PairOfPi(v[l], PiReduced(v[l]), Number(0))]
xsincospif_u35(v) ==
  [l \in DOMAIN v |-> PairOfPi(v[l], PiReduced(v[l]), Number(0))]

-----------------------------------------------------------------------------
(* sleefsimdqp.c: a triple-double number d serves up to MiddleRange, 2^28;  *)
(* a itself is returned where it is tiny.                                  *)

\* The product with one part of the table after the other is added to what
\* the parts before have left, which counts their quarters of a turn.
AddPart(r, part) ==
  [q |-> r.q + RempiSub(r.rest + part).q,
   rest |-> RempiSub(r.rest + part).rest]
rempio2q(a) ==
  LET r == AddPart(AddPart([q |-> 0, rest |-> 0], a.k - tcall.tail),
                   tcall.tail)
  IN
  IF Finite(a) THEN Reduction(r.q, IF Abs(a.k) <= 5 THEN a.k ELSE r.rest, TRUE)
  ELSE [q |-> 0, d |-> Undefined]

QuadNear(a, Near(_), Far(_)) ==
  IF Below(a, MiddleRange) THEN Near(a) ELSE Far(a)
SinQuadFar(a) == SinQuadrant(rempio2q(a))
CosQuadFar(a) == CosQuadrant(rempio2q(a))

sin_tdx_tdx(a) ==
  IF a = MinusZero THEN a ELSE SinFrom(QuadNear(a, SinMiddlef, SinQuadFar))
cos_tdx_tdx(a) == CosFrom(QuadNear(a, CosMiddlef, CosQuadFar))
tan_tdx_tdx(a) ==
  IF a = MinusZero THEN a ELSE TanFrom(QuadNear(a, PairMiddlef, rempio2q))

xsinq_u10(v) == [l \in DOMAIN v |-> sin_tdx_tdx(v[l])]
xcosq_u10(v) == [l \in DOMAIN v |-> cos_tdx_tdx(v[l])]
xtanq_u10(v) == [l \in DOMAIN v |-> tan_tdx_tdx(v[l])]

-----------------------------------------------------------------------------
(* Calls.  A pair is returned by the functions of sine and cosine.         *)

Sines == {"xsin", "xsin_u1", "xsinf", "xsinf_u1", "xsinq_u10"}
Cosines == {"xcos", "xcos_u1", "xcosf", "xcosf_u1", "xfastcosf_u3500",
            "xcosq_u10"}
Tangents == {"xtan", "xtan_u1", "xtanf", "xtanf_u1", "xtanq_u10"}
Pairs == {"xsincos", "xsincos_u1", "xsincosf", "xsincosf_u1"}
PiSines == {"xsinpi_u05", "xsinpif_u05"}
PiCosines == {"xcospi_u05", "xcospif_u05"}
PiPairs == {"xsincospi_u05", "xsincospi_u35", "xsincospif_u05", "xsincospif_u35"}

\* Numbers of pi/16, zeros, infinities and NaN
TrigArguments == [kind : {"number"}, k : Int] \cup Specials

ASSUME TrigCallsAssumption ==
  \A c \in TrigCalls :
    /\ c.fn \in {"xfastsinf_u3500"} \cup Sines \cup Cosines \cup Tangents
               \cup Pairs \cup PiSines \cup PiCosines \cup PiPairs
    /\ \A l \in DOMAIN c.v : c.v[l] \in TrigArguments
    /\ c.err \in -1..1 /\ c.tail \in Int

TrigResult(fn, v) ==
  CASE fn = "xsin" -> xsin(v)
    [] fn = "xsin_u1" -> xsin_u1(v)
    [] fn = "xcos" -> xcos(v)
    [] fn = "xcos_u1" -> xcos_u1(v)
    [] fn = "xsincos" -> xsincos(v)
    [] fn = "xsincos_u1" -> xsincos_u1(v)
    [] fn = "xtan" -> xtan(v)
    [] fn = "xtan_u1" -> xtan_u1(v)
    [] fn = "xsinpi_u05" -> xsinpi_u05(v)
    [] fn = "xcospi_u05" -> xcospi_u05(v)
    [] fn = "xsincospi_u05" -> xsincospi_u05(v)
    [] fn = "xsincospi_u35" -> xsincospi_u35(v)
    [] fn = "xsinf" -> xsinf(v)
    [] fn = "xsinf_u1" -> xsinf_u1(v)
    [] fn = "xcosf" -> xcosf(v)
    [] fn = "xcosf_u1" -> xcosf_u1(v)
    [] fn = "xsincosf" -> xsincosf(v)
    [] fn = "xsincosf_u1" -> xsincosf_u1(v)
    [] fn = "xtanf" -> xtanf(v)
    [] fn = "xtanf_u1" -> xtanf_u1(v)
    [] fn = "xfastsinf_u3500" -> xfastsinf_u3500(v)
    [] fn = "xfastcosf_u3500" -> xfastcosf_u3500(v)
    [] fn = "xsinpif_u05" -> xsinpif_u05(v)
    [] fn = "xcospif_u05" -> xcospif_u05(v)
    [] fn = "xsincospif_u05" -> xsincospif_u05(v)
    [] fn = "xsincospif_u35" -> xsincospif_u35(v)
    [] fn = "xsinq_u10" -> xsinq_u10(v)
    [] fn = "xcosq_u10" -> xcosq_u10(v)
    [] fn = "xtanq_u10" -> xtanq_u10(v)

TrigInit == tcall \in TrigCalls /\ tret = <<>>

TrigCall ==
  /\ tret = <<>>
  /\ tret' = TrigResult(tcall.fn, tcall.v)
  /\ UNCHANGED tcall

TrigSpec == TrigInit /\ [][TrigCall]_trigvars

-----------------------------------------------------------------------------
(* What x stands for is right: an exact zero argument keeps its sign.      *)

SineRight(x, s) ==
  IF ~Finite(x) THEN s = Undefined
  ELSE s = IF x = MinusZero THEN x ELSE SineOf(x.k)
CosineRight(x, c) == c = IF Finite(x) THEN CosineOf(x.k) ELSE Undefined
TangentRight(x, t) ==
  IF ~Finite(x) THEN t = Undefined
  ELSE t = IF x = MinusZero THEN x ELSE TangentOf(x.k)
\* Beyond the range the code is written for any number from -1 to 1 will do.
\* That range, PiRange, is smaller than the documented one, in which the result
\* is not right everywhere: PiAsDocumented, in MCTrigonometry, fails.
OfPi(x, y, right) ==
  IF Finite(x) /\ Abs(x.k) > PiRange THEN y.kind = "number" ELSE right

\* In every lane the result is the function of the argument in that lane, by
\* whichever reductions the other lanes make the vector go, however quotients
\* next to a half are rounded, and for zeros, infinities and NaN.  Of a multiple
\* of pi beyond PiRange, where the code gives up, only a number is asked, which
\* is less than docs/purec.xhtml:332-336 promises (see OfPi).
LanesRight ==
  \A l \in DOMAIN tret :
    LET x == tcall.v[l]
        y == tret[l]
        fn == tcall.fn
    IN
    CASE fn = "xfastsinf_u3500" ->   \* does not tell zeros apart
           (x = MinusZero /\ y \in {x, Number(0)}) \/ SineRight(x, y)
      [] fn \in Sines -> SineRight(x, y)
      [] fn \in Cosines -> CosineRight(x, y)
      [] fn \in Tangents -> TangentRight(x, y)
      [] fn \in Pairs -> SineRight(x, y[1]) /\ CosineRight(x, y[2])
      [] fn \in PiSines -> OfPi(x, y, SineRight(x, y))
      [] fn \in PiCosines -> OfPi(x, y, CosineRight(x, y))
      [] fn \in PiPairs -> /\ OfPi(x, y[1], SineRight(x, y[1]))
                           /\ OfPi(x, y[2], CosineRight(x, y[2]))
=============================================================================
