---------------------------- MODULE Exponentials ----------------------------
(***************************************************************************)
(* Exponential functions, logarithms, powers and cube roots: how an        *)
(* exponent is split into a power of 2 and the argument of a polynomial,   *)
(* how a number is scaled by a power of 2 that is itself out of range, and *)
(* what is selected for zeros, subnormal numbers, infinities and NaN.      *)
(* A positive number is named by its logarithm, in eighths of log 2, zero  *)
(* by minus infinity; the logarithm itself is that many eighths.           *)
(***************************************************************************)
EXTENDS ExtendedIntegers

CONSTANTS
  ExpCalls,    \* function, arguments x and y, rounding error err
  MaxExpo,     \* the largest exponent of a number: 1023 (127)
  Precision,   \* the bits of a mantissa: 53 (24)
  MaxInt       \* the largest int

\* 13 (MaxExpo + 1) eighths of log 2 are the limit of exp10q (Large10), which
\* no number that is not 0 is below the inverse of (Underflow).
ASSUME ExpAssumption ==
  /\ MaxExpo \in Nat /\ (MaxExpo + 1) % 8 = 0
  /\ Precision \in 3..(MaxExpo - 2)
  /\ 8 * (MaxExpo + Precision - 1) <= 13 * (MaxExpo + 1)
  /\ MaxInt \in Nat /\ MaxInt >= 4 * MaxExpo

VARIABLES
  ecall,   \* the call
  eret     \* what it returns, in a sequence; before that, empty

expvars == <<ecall, eret>>

Ln2 == 8
MaxLog == Ln2 * (MaxExpo + 1) - 1
LeastNormal == Ln2 * (1 - MaxExpo)
Underflow == LeastNormal - Ln2 * Precision   \* half of the least number
Nought == MinusInfinity
LogOne == Number(0)

Bounded(k) ==
  IF k > MaxLog THEN Infinity ELSE IF k <= Underflow THEN Nought ELSE Number(k)

-----------------------------------------------------------------------------
(* Scaling by 2^q.                                                         *)

\* u times the float whose exponent field is e + bias (vpow2i): at the ends of
\* the range that is 0 and infinity, beyond them the sign bit is hit.
TimesPow2(u, e) ==
  CASE u.kind \in {"nan", "spoilt"} -> u
    [] OTHER ->
       CASE e \notin (-MaxExpo)..(MaxExpo + 1) -> Spoilt
         [] e = -MaxExpo -> IF u = Infinity THEN Undefined ELSE Nought
         [] e = MaxExpo + 1 -> IF u = Nought THEN Undefined ELSE Infinity
         [] OTHER -> IF u.kind = "number" THEN Bounded(u.k + Ln2 * e) ELSE u

\* Mutant of Ldexp2: a single step
Ldexp2Single(u, q) == TimesPow2(u, q)

\* vldexp2: two steps
Ldexp2(u, q) == TimesPow2(TimesPow2(u, q \div 2), q - q \div 2)

\* vldexp: four equal steps, limited to the range, and the rest
LdexpStep(q) ==
  LET group == (MaxExpo + 1) \div 2
      minus == IF q < 0 THEN -1 ELSE 0
  IN  ((q + minus) \div group - minus) * (group \div 4)
Clamped(e) ==
  IF e > MaxExpo + 1 THEN MaxExpo + 1 ELSE IF e < -MaxExpo THEN -MaxExpo ELSE e
LdexpFull(u, q) ==
  LET step(v) == TimesPow2(v, Clamped(LdexpStep(q)))
  IN  TimesPow2(step(step(step(step(u)))), q - 4 * LdexpStep(q))

-----------------------------------------------------------------------------
(* Exponential functions                                                   *)

\* The rounded quotient of d and log 2.  Half of log 2 goes either way.
Quotient(d, err) == (d.k + 3 + err) \div Ln2
\* What the polynomial makes of d - q log 2
ExpPoly(s) == IF Abs(s) <= 4 THEN Number(s) ELSE Spoilt
Mantissa(d, q) == IF Finite(d) THEN ExpPoly(d.k - Ln2 * q) ELSE Undefined

RawExp(d, err) == Ldexp2(Mantissa(d, Quotient(d, err)), Quotient(d, err))

IsBelow(d, bound) == d = MinusInfinity \/ (Finite(d) /\ d.k < bound)
IsAbove(d, bound) == d = Infinity \/ (Finite(d) /\ d.k > bound)
CutOff(d, low, high, u) ==
  IF IsBelow(d, low) THEN Nought ELSE IF IsAbove(d, high) THEN Infinity ELSE u
CutBelow(d, low, u) == IF IsBelow(d, low) THEN Nought ELSE u

\* The bounds lie between what over- or underflows and what vldexp2 takes:
\* -1000, -2000 and -350 of -745 to -1418, -1075 to -2046 and -324 to -616;
\* in single precision -104, -150 and -50 of -104 to -176, -150 to -254 and
\* -45 to -76.  Only 100 (of 88.7 to 177) is above what just does not overflow.
Room == Underflow + 2 * Ln2 * MaxExpo
Low == Underflow - (3 * Room) \div 8
Low2 == Underflow - (19 * Room) \div 20
Low10 == Underflow - Room \div 12
Low10f == Underflow - (3 * Room) \div 20
Highf == MaxLog + Ln2 * ((MaxExpo + 1) \div 8)

xexp(d, err) == CutOff(d, Low, MaxLog, RawExp(d, err))
xexpf(d, err) == CutOff(d, Underflow, Highf, RawExp(d, err))
xexp2(d, err) == CutOff(d, Low2, MaxLog, RawExp(d, err))
xexp2_u35(d, err) == xexp2(d, err)
xexp10(d, err) == CutOff(d, Low10, MaxLog, RawExp(d, err))
xexp10_u35(d, err) == xexp10(d, err)
xexp2f(d, err) == CutOff(d, Underflow, MaxLog, RawExp(d, err))
xexp2f_u35(d, err) == xexp2f(d, err)
xexp10f(d, err) == CutOff(d, Low10f, MaxLog, RawExp(d, err))
xexp10f_u35(d, err) == xexp10f(d, err)

\* Of double-double numbers, and exp of the fast power: no upper bound
expk(d, err) == CutBelow(d, Low, RawExp(d, err))
expk3f(d, err) == CutBelow(d, Underflow, RawExp(d, err))
\* scales by vldexp; a quotient that is no int makes the polynomial overflow
expkf(d, err) ==
  LET q == Quotient(d, err)
      u == IF Abs(q) > MaxInt THEN Undefined ELSE Mantissa(d, q)
  IN  CutBelow(d, Underflow, LdexpFull(u, q))

-----------------------------------------------------------------------------
(* Logarithms of x = [minus, log], a number with its sign                  *)

Unsigned(log) == [minus |-> FALSE, log |-> log]
NaNNumber == Unsigned(Undefined)
IsNought(x) == x.log = Nought
IsNaNNumber(x) == x.log = Undefined

\* Below the normal numbers, which all negative ones are
IsSmall(x) ==
  ~IsNaNNumber(x) /\ (x.minus \/ IsBelow(x.log, LeastNormal))

\* 2^64, which makes subnormal numbers normal
Raise == Precision + 1

\* The exponent of x / 0.75, as it was before x was raised
LogExponent(k, small) == (k + 3) \div Ln2 - (IF small THEN Raise ELSE 0)

\* The mantissa is found by an integer subtraction from the exponent field, for
\* which the number must be positive and normal.
RawLog(x) ==
  LET small == IsSmall(x)
      k == x.log.k + (IF small THEN Ln2 * Raise ELSE 0)
      m == k - Ln2 * ((k + 3) \div Ln2)
  IN
  IF x.minus \/ x.log.kind # "number" \/ k < LeastNormal THEN Spoilt
  ELSE Number(Ln2 * LogExponent(k, small) + m)

Logarithm(x) ==
  IF IsNought(x) THEN MinusInfinity
  ELSE IF x.minus \/ IsNaNNumber(x) THEN Undefined
  ELSE IF x.log = Infinity THEN Infinity ELSE RawLog(x)

xlog(x) == Logarithm(x)
xlog_u1(x) == Logarithm(x)
xlog10(x) == Logarithm(x)
xlog2(x) == Logarithm(x)
xlog2_u35(x) == Logarithm(x)
xlogf(x) == Logarithm(x)
xlogf_u1(x) == Logarithm(x)
xlog10f(x) == Logarithm(x)
xlog2f(x) == Logarithm(x)
xlog2f_u35(x) == Logarithm(x)
logk(x) == RawLog(x)
logkf(x) == RawLog(x)
logk3f(x) == RawLog(x)

-----------------------------------------------------------------------------
(* Powers.  The exponent y counts halves.                                  *)

IntPower(y) == y.kind = "inf" \/ (Finite(y) /\ y.k % 2 = 0)
OddPower(y) == Finite(y) /\ y.k % 4 = 2
OppositeOf(v) == IF IsNaNNumber(v) THEN v ELSE [v EXCEPT !.minus = ~@]
AbsNumber(x) == Unsigned(x.log)

\* log |x| times y, as a double-double number; one that overflows has an
\* infinite first part, and is no number after that.
Product(log, y) ==
  IF log = Spoilt /\ Finite(y) THEN Spoilt
  ELSE IF ~Finite(y) THEN Undefined
  ELSE LET k == (log.k * y.k) \div 2
       IN  IF k > MaxInt * MaxInt THEN Infinity
           ELSE IF k < -MaxInt * MaxInt THEN MinusInfinity ELSE Number(k)

\* result, times 1, -1 or NaN
PowSign(x, y, result) ==
  IF ~x.minus /\ ~IsNought(x) /\ ~IsNaNNumber(x) THEN Unsigned(result)
  ELSE IF ~IntPower(y) THEN NaNNumber
  ELSE IF OddPower(y) THEN OppositeOf(Unsigned(result)) ELSE Unsigned(result)

\* |x|^y for an infinite y: |x| - 1 with the sign of y tells
PowOfInfinite(x, y) ==
  IF x.log = LogOne THEN LogOne
  ELSE IF IsAbove(x.log, 0) = HasMinus(y) THEN Nought ELSE Infinity

\* What is selected of x and y, the last one first
PowSelected(x, y, r) ==
  IF y \in {Number(0), MinusZero} \/ x = Unsigned(LogOne) THEN Unsigned(LogOne)
  ELSE IF IsNaNNumber(x) \/ y = Undefined THEN NaNNumber
  ELSE IF x.log \in {Infinity, Nought} THEN
    [minus |-> x.minus /\ OddPower(y),
     log |-> IF HasMinus(y) # IsNought(x) THEN Nought ELSE Infinity]
  ELSE IF y.kind = "inf" THEN Unsigned(PowOfInfinite(x, y)) ELSE r

xpow(x, y, err) ==
  LET d == Product(logk(AbsNumber(x)), y)
      u == IF IsAbove(d, MaxLog) THEN Infinity ELSE expk(d, err)
  IN  PowSelected(x, y, PowSign(x, y, u))

xpowf(x, y, err) ==
  LET d == Product(logkf(AbsNumber(x)), y)
      u == expkf(d, err)
  IN  PowSelected(x, y, PowSign(x, y, IF u = Undefined THEN Infinity ELSE u))

\* selects only for zeros
xfastpowf_u3500(x, y, err) ==
  LET u == Unsigned(expk3f(Product(logk3f(AbsNumber(x)), y), err))
  IN
  IF y \in {Number(0), MinusZero} THEN Unsigned(LogOne)
  ELSE IF IsNought(x) THEN Unsigned(Nought)
  ELSE IF x.minus /\ OddPower(y) THEN OppositeOf(u) ELSE u

-----------------------------------------------------------------------------
(* Cube roots, each named by the number it is the root of.                 *)

\* vilogbk + 1, which is right for subnormal numbers and low for 0
CubeExpo(log) ==
  CASE log.kind = "number" -> log.k \div Ln2 + 1
    [] log = Nought -> 1 - MaxExpo - Raise
    [] OTHER -> MaxExpo + 2

\* A third of e, rounded down: what is truncated is made positive first.
CubeThird(e) == (e + 6 * (MaxExpo + 1)) \div 3 - 2 * (MaxExpo + 1)

\* A number from 1/2 to 1 times 1, 2 or 4, the root of which the polynomial
\* approximates, and a power of 8.  Zero, infinity and NaN pass through it.
RawCbrt(log) ==
  LET e == CubeExpo(log)
      d == Ldexp2(log, -e)
      re == e - 3 * CubeThird(e)
      k == d.k + Ln2 * re + 3 * Ln2 * CubeThird(e)
  IN
  IF d.kind # "number" THEN d
  ELSE IF d.k \in -Ln2..-1 /\ re \in 0..2 THEN Number(k) ELSE Spoilt

xcbrt(x) == [minus |-> x.minus, log |-> RawCbrt(x.log)]
xcbrtf(x) == xcbrt(x)
\* As a double-double number the root of infinity is NaN.
xcbrt_u1(x) ==
  LET r == RawCbrt(x.log)
      dd == IF r = Infinity THEN Undefined ELSE r
  IN  [minus |-> x.minus,
       log |-> IF IsNought(x) THEN Nought
               ELSE IF x.log = Infinity THEN Infinity ELSE dd]
xcbrtf_u1(x) == xcbrt_u1(x)

-----------------------------------------------------------------------------
(* sleefsimdqp.c.  Triple-double numbers have an exponent of 64 bits: only *)
(* what is converted back is out of range.                                 *)

\* cast_vq_tdx, slowcast_vq_tdx: the result as a quadruple-precision number
Narrowed(u) == IF u.kind = "number" THEN Bounded(u.k) ELSE u

WideExp(a, err) ==
  LET q == Quotient(a, err)
      u == Mantissa(a, q)
  IN  IF u.kind = "number" THEN Number(u.k + Ln2 * q) ELSE u

\* Infinite, or with an exponent above the limit of the function: 2^15 (exp and
\* exp2) and 2^13 (exp10), the quotients of which with log 2 are ints
TdxLarge(a, limit) == a.kind = "inf" \/ (Finite(a) /\ Abs(a.k) >= limit)
LargeE == 23 * (MaxExpo + 1)
Large2 == 16 * (MaxExpo + 1)
Large10 == 13 * (MaxExpo + 1)

TdxExp(a, err, limit) ==
  IF TdxLarge(a, limit) THEN (IF HasMinus(a) THEN Nought ELSE Infinity)
  ELSE WideExp(a, err)
exp_tdx_tdx(a, err) == TdxExp(a, err, LargeE)
exp2_tdx_tdx(a, err) == TdxExp(a, err, Large2)
exp10_tdx_tdx(a, err) == TdxExp(a, err, Large10)

\* Of a number from 3/4 to 3/2 and the rest of its exponent
TdxLogOf(k) ==
  LET e == (k + 3) \div Ln2 IN
  IF k - Ln2 * e \in -3..4 THEN Number(Ln2 * e + (k - Ln2 * e)) ELSE Spoilt
TdxLog(d) ==
  IF IsNought(d) THEN MinusInfinity
  ELSE IF d.minus \/ IsNaNNumber(d) THEN Undefined
  ELSE IF d.log = Infinity THEN Infinity ELSE TdxLogOf(d.log.k)
log_tdx_tdx(d) == TdxLog(d)
log2_tdx_tdx(d) == TdxLog(d)
log10_tdx_tdx(d) == TdxLog(d)
logk_tdx_tdx(d) == TdxLog(d)

isint_vo_tdx(y) == ~Finite(y) \/ y.k % 2 = 0
\* Whether half of y is no integer
isodd_vo_tdx(y) == Finite(y) /\ y.k % 4 # 0

mul_tdx_tdx_tdx(log, y) ==
  IF log.kind = "number" /\ Finite(y) THEN Number((log.k * y.k) \div 2)
  ELSE Undefined

TdxSign(x, y, result) ==
  IF ~x.minus /\ ~IsNought(x) /\ ~IsNaNNumber(x) THEN Unsigned(result)
  ELSE IF ~isint_vo_tdx(y) THEN NaNNumber
  ELSE IF isodd_vo_tdx(y) THEN OppositeOf(Unsigned(result))
  ELSE Unsigned(result)

\* A product above half of LargeE, and one that is no number, give infinity.
pow_tdx_tdx_tdx(x, y, err) ==
  LET d == mul_tdx_tdx_tdx(logk_tdx_tdx(AbsNumber(x)), y)
      r == exp_tdx_tdx(d, err)
      u == IF r = Undefined \/ (Finite(d) /\ 2 * d.k >= LargeE)
           THEN Infinity ELSE r
  IN  PowSelected(x, y, TdxSign(x, y, u))

\* A third of the exponent, which is made positive before it is truncated
TdxThird(e) == (e + 3 * (MaxExpo + 2)) \div 3 - (MaxExpo + 2)
cbrt_tdx_tdx(log) ==
  LET e == log.k \div Ln2 + 1
      re == e - 3 * TdxThird(e)
      d == log.k - Ln2 * e
  IN
  IF log.kind # "number" THEN log
  ELSE IF d \in -Ln2..-1 /\ re \in 0..2 /\ e + 3 * (MaxExpo + 2) >= 0
       THEN Number(d + Ln2 * re + 3 * Ln2 * TdxThird(e))
  ELSE Spoilt

xexpq_u10(a, err) == Narrowed(exp_tdx_tdx(a, err))
xexp2q_u10(a, err) == Narrowed(exp2_tdx_tdx(a, err))
xexp10q_u10(a, err) == Narrowed(exp10_tdx_tdx(a, err))
xlogq_u10(a) == log_tdx_tdx(a)
xlog2q_u10(a) == log2_tdx_tdx(a)
xlog10q_u10(a) == log10_tdx_tdx(a)
xpowq_u10(a, b, err) ==
  LET r == pow_tdx_tdx_tdx(a, b, err) IN [r EXCEPT !.log = Narrowed(@)]
xcbrtq_u10(a) == [minus |-> a.minus, log |-> Narrowed(cbrt_tdx_tdx(a.log))]

-----------------------------------------------------------------------------
ExpResult(c) ==
  CASE c.fn = "xexp" -> xexp(c.x, c.err)
    [] c.fn = "xexpf" -> xexpf(c.x, c.err)
    [] c.fn = "xexp2" -> xexp2(c.x, c.err)
    [] c.fn = "xexp2_u35" -> xexp2_u35(c.x, c.err)
    [] c.fn = "xexp10" -> xexp10(c.x, c.err)
    [] c.fn = "xexp10_u35" -> xexp10_u35(c.x, c.err)
    [] c.fn = "xexp2f" -> xexp2f(c.x, c.err)
    [] c.fn = "xexp2f_u35" -> xexp2f_u35(c.x, c.err)
    [] c.fn = "xexp10f" -> xexp10f(c.x, c.err)
    [] c.fn = "xexp10f_u35" -> xexp10f_u35(c.x, c.err)
    [] c.fn = "xlog" -> xlog(c.x)
    [] c.fn = "xlog_u1" -> xlog_u1(c.x)
    [] c.fn = "xlog10" -> xlog10(c.x)
    [] c.fn = "xlog2" -> xlog2(c.x)
    [] c.fn = "xlog2_u35" -> xlog2_u35(c.x)
    [] c.fn = "xlogf" -> xlogf(c.x)
    [] c.fn = "xlogf_u1" -> xlogf_u1(c.x)
    [] c.fn = "xlog10f" -> xlog10f(c.x)
    [] c.fn = "xlog2f" -> xlog2f(c.x)
    [] c.fn = "xlog2f_u35" -> xlog2f_u35(c.x)
    [] c.fn = "xpow" -> xpow(c.x, c.y, c.err)
    [] c.fn = "xpowf" -> xpowf(c.x, c.y, c.err)
    [] c.fn = "xfastpowf_u3500" -> xfastpowf_u3500(c.x, c.y, c.err)
    [] c.fn = "xcbrt" -> xcbrt(c.x)
    [] c.fn = "xcbrt_u1" -> xcbrt_u1(c.x)
    [] c.fn = "xcbrtf" -> xcbrtf(c.x)
    [] c.fn = "xcbrtf_u1" -> xcbrtf_u1(c.x)
    [] c.fn = "xexpq_u10" -> xexpq_u10(c.x, c.err)
    [] c.fn = "xexp2q_u10" -> xexp2q_u10(c.x, c.err)
    [] c.fn = "xexp10q_u10" -> xexp10q_u10(c.x, c.err)
    [] c.fn = "xlogq_u10" -> xlogq_u10(c.x)
    [] c.fn = "xlog2q_u10" -> xlog2q_u10(c.x)
    [] c.fn = "xlog10q_u10" -> xlog10q_u10(c.x)
    [] c.fn = "xpowq_u10" -> xpowq_u10(c.x, c.y, c.err)
    [] c.fn = "xcbrtq_u10" -> xcbrtq_u10(c.x)

ExpInit == ecall \in ExpCalls /\ eret = <<>>

ExpCall ==
  /\ eret = <<>>
  /\ ecall \in ExpCalls
  /\ eret' = <<ExpResult(ecall)>>
  /\ UNCHANGED ecall

ExpSpec == ExpInit /\ [][ExpCall]_expvars

-----------------------------------------------------------------------------
Exps == {"xexp", "xexp2", "xexp2_u35", "xexp10", "xexp10_u35",
         "xexpf", "xexp2f", "xexp2f_u35", "xexp10f", "xexp10f_u35",
         "xexpq_u10", "xexp2q_u10", "xexp10q_u10"}
Logs == {"xlog", "xlog_u1", "xlog10", "xlog2", "xlog2_u35",
         "xlogf", "xlogf_u1", "xlog10f", "xlog2f", "xlog2f_u35",
         "xlogq_u10", "xlog2q_u10", "xlog10q_u10"}
Roots == {"xcbrt", "xcbrt_u1", "xcbrtf", "xcbrtf_u1", "xcbrtq_u10"}
Powers == {"xpow", "xpowf", "xpowq_u10"}
FastPowers == {"xfastpowf_u3500"}

\* Numbers with their sign, each named by its logarithm, and exponents
Exponents == [kind : {"number"}, k : Int] \cup Specials
SignedNumbers ==
  [minus : BOOLEAN,
   log : {Number(k) : k \in (Underflow + 1)..MaxLog} \cup {Nought, Infinity}]
  \cup {NaNNumber}

ASSUME ExpCallsAssumption ==
  \A c \in ExpCalls :
    \/ c.fn \in Exps /\ c.x \in Exponents /\ c.err \in {0, 1}
    \/ c.fn \in Logs \cup Roots /\ c.x \in SignedNumbers
    \/ /\ c.fn \in Powers \cup FastPowers /\ c.x \in SignedNumbers
       /\ c.y \in Exponents /\ c.err \in {0, 1}

\* pow as C99 has it: annex F.9.4.4
PowC99(x, y) ==
  LET signed(log) == [minus |-> x.minus /\ OddPower(y), log |-> log]
      one == y \in {Number(0), MinusZero} \/ x = Unsigned(LogOne)
      nan == IsNaNNumber(x) \/ y = Undefined
      large == IsAbove(x.log, 0)
  IN
  CASE one -> Unsigned(LogOne)
    [] ~one /\ nan -> NaNNumber
    [] OTHER ->
       CASE IsNought(x) -> signed(IF y.k < 0 THEN Infinity ELSE Nought)
         [] x.log = Infinity -> signed(IF y.k < 0 THEN Nought ELSE Infinity)
         [] x.log.kind = "number" /\ y.kind = "inf" ->
              Unsigned(IF x.log = LogOne THEN LogOne
                       ELSE IF large = (y = Infinity) THEN Infinity ELSE Nought)
         [] x.minus /\ x.log.kind = "number" /\ ~IntPower(y) -> NaNNumber
         [] OTHER -> signed(Bounded((x.log.k * y.k) \div 2))

\* The exponential functions return the number with the logarithm given,
\* infinity and zero where it is out of range; the logarithms that of a number
\* of any size; powers and cube roots have the sign and the special cases of
\* C99.  The fast power does so for positive numbers, unless it overflows.
PowersRight ==
  \A i \in DOMAIN eret :
    LET x == ecall.x
        r == eret[i]
    IN
    CASE ecall.fn \in Exps ->
           r = IF Finite(x) THEN Bounded(x.k) ELSE x
      [] ecall.fn \in Logs ->
           r = IF x.minus /\ ~IsNought(x) THEN Undefined ELSE x.log
      [] ecall.fn \in Roots -> r = x
      [] ecall.fn \in Powers -> r = PowC99(x, ecall.y)
      [] ecall.fn \in FastPowers ->
           LET c99 == PowC99(x, ecall.y)
           IN  /\ ~x.minus /\ x.log.kind = "number" /\ Finite(ecall.y)
               /\ c99.log # Infinity
               => r = c99
      [] OTHER -> TRUE
=============================================================================
