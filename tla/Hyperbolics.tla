----------------------------- MODULE Hyperbolics -----------------------------
(***************************************************************************)
(* The functions that are made of an exponential or a logarithm: expm1,    *)
(* log1p, the hyperbolic functions and their inverses.  Here a result is   *)
(* named by the argument it belongs to, and the argument of an inverse by  *)
(* the result, so that right is what keeps its name: e^k - 1, sinh k,      *)
(* tanh k are all Number(k).  The limits -1 of expm1 and 1 of tanh are the *)
(* infinities; Beyond stands for numbers on the other side of a limit.     *)
(***************************************************************************)
EXTENDS Exponentials

CONSTANTS
  HypCalls,    \* function, argument x, rounding error err
  DoubleExpo   \* the largest exponent of the parts of a triple-double number

ASSUME HypAssumption == DoubleExpo \in (Precision + 1)..MaxExpo

Beyond(k) == [kind |-> "beyond", k |-> k]

-----------------------------------------------------------------------------
(* What the functions are made of                                          *)

\* e^d as a double-double number
expk2(d, err) == CutBelow(d, Low, RawExp(d, err))
expk2f(d, err) == CutBelow(d, Underflow, RawExp(d, err))

\* Double-double arithmetic makes NaN of infinity, as does a quotient of two.
NoInfinity(u) == IF u = Infinity THEN Undefined ELSE u

\* u - 1; of one number, as of a sum the digits of which have been lost
MinusOne(u) == IF u.kind = "number" /\ Abs(u.k) < 4 THEN Spoilt ELSE u

\* expm1k, expm1fk
expm1k(d, err) ==
  IF Finite(d) /\ Quotient(d, err) = 0 THEN Mantissa(d, 0)
  ELSE MinusOne(RawExp(d, err))

\* logk2, logk2f: of a double-double number that is not subnormal
logk2(u) ==
  LET e == (u.k + 3) \div Ln2
      d == TimesPow2(u, -e)
  IN  IF u.kind # "number" THEN u
      ELSE IF d.kind = "number" THEN Number(Ln2 * e + d.k) ELSE Spoilt

OrNaN(x, r) == IF x = Undefined THEN Undefined ELSE r
OrMinusZero(x, r) == IF x = MinusZero THEN MinusZero ELSE r

-----------------------------------------------------------------------------
(* e^x - 1 and log(1 + x)                                                  *)

\* In double-double arithmetic the difference is exact; infinity is selected.
Expm1(a, r, low) ==
  OrMinusZero(a,
    IF IsBelow(a, low) THEN MinusInfinity
    ELSE IF IsAbove(a, MaxLog) THEN Infinity ELSE NoInfinity(r))
\* below -36.7 (-16.6), log of 2^-53 (2^-24)
Expm1Low == -Ln2 * Precision
xexpm1(a, err) == Expm1(a, expk2(a, err), Expm1Low)
xexpm1f(a, err) == Expm1(a, expk2f(a, err), Expm1Low)

\* Up to bound, x times t = 2^-e and t - 1 are added, for which t must be a
\* normal number; beyond it 1 is negligible.
Log1p(d, bound) ==
  LET e == (d.k + 3) \div Ln2
      m == d.k - Ln2 * e
      core == IF d.kind # "number" \/ -e < 1 - MaxExpo THEN Spoilt
              ELSE Number(Ln2 * e + m)
  IN
  CASE d = MinusZero -> MinusZero
    [] d = MinusInfinity -> MinusInfinity
    [] d \in {Beyond(-1), Undefined} -> Undefined
    [] OTHER -> IF IsAbove(d, bound) THEN Logarithm(Unsigned(d)) ELSE core

\* LOG1P_BOUND is 2^1019.8, LOG1PF_BOUND 2^126.2
xlog1p(d) == Log1p(d, Ln2 * (MaxExpo - 3) - 2)
xlog1pf(d) == Log1p(d, Ln2 * (MaxExpo - 1) + 2)

-----------------------------------------------------------------------------
(* sinh, cosh and tanh                                                     *)

\* limit is selected where |x| is above cut and where y is NaN.
Selection(x, y, cut, limit) ==
  OrNaN(x, IF IsAbove(Magnitude(x), cut) \/ y = Undefined THEN limit ELSE y)
OddSelection(x, y, cut) == SignedAs(Selection(x, y, cut, Infinity), x)

\* The cuts: 710 (89), 709 (88), and 18.7 (8.66) for tanh
Cut710 == MaxLog + 3
Cut709 == MaxLog - 8
CutTanh == 4 * (Precision + 1)

\* Sums, differences and quotients of e^|x| and its reciprocal
OfExp(x, err) == NoInfinity(expk2(Magnitude(x), err))
OfExpf(x, err) == NoInfinity(expk2f(Magnitude(x), err))

xsinh(x, err) == OddSelection(x, OfExp(x, err), Cut710)
xcosh(x, err) == Selection(x, OfExp(x, err), Cut710, Infinity)
xtanh(x, err) == OddSelection(x, OfExp(x, err), CutTanh)
xsinhf(x, err) == OddSelection(x, OfExpf(x, err), Cut710)
xcoshf(x, err) == Selection(x, OfExpf(x, err), Cut710, Infinity)
xtanhf(x, err) == OddSelection(x, OfExpf(x, err), CutTanh)

\* e = e^|x| - 1: (e + 2) / (e + 1), and e / (e + 2) with the double of |x|
Doubled(x) == IF x.kind = "number" THEN Number(2 * x.k) ELSE x
Halved(r) == IF r.kind = "number" THEN Number(r.k \div 2) ELSE r
OfExpm1(x, err) == NoInfinity(expm1k(Magnitude(x), err))
OfExpm1Doubled(x, err) == Halved(NoInfinity(expm1k(Doubled(Magnitude(x)), err)))

xsinh_u35(x, err) == OddSelection(x, OfExpm1(x, err), Cut709)
xcosh_u35(x, err) == Selection(x, xexp(Magnitude(x), err), Cut709, Infinity)
xtanh_u35(x, err) == OddSelection(x, OfExpm1Doubled(x, err), CutTanh)
xsinhf_u35(x, err) == xsinh_u35(x, err)
xcoshf_u35(x, err) == Selection(x, xexpf(Magnitude(x), err), Cut709, Infinity)
xtanhf_u35(x, err) == xtanh_u35(x, err)

-----------------------------------------------------------------------------
(* Their inverses.  asinh x and acosh x are about log 2x for large x.      *)

\* The name of 1, which is sinh 0.88, and of the root of the largest number
AsinhOne == 10
CutRoot == Ln2 * ((MaxExpo + 1) \div 2) + Ln2

\* sqrt(x^2 + 1) + x, where x above 1 is squared as 1/x, and must not vanish
AsinhSum(x) ==
  IF ~Finite(x) THEN Undefined
  ELSE IF Abs(x.k) > AsinhOne /\ 2 * (Abs(x.k) - Ln2) >= -Underflow THEN Spoilt
  ELSE Number(x.k)

xasinh(x) ==
  LET y == logk2(AsinhSum(x))
      r == IF IsAbove(Magnitude(x), CutRoot) \/ y = Undefined
           THEN SignedAs(Infinity, x) ELSE y
  IN  OrMinusZero(x, OrNaN(x, r))
xasinhf(x) == xasinh(x)

\* The root of 0, for x = 1, is NaN, as are those of infinity and below 0.
AcoshSum(x) ==
  IF x.kind = "number" /\ x.k > 0 THEN Number(x.k) ELSE Undefined
xacosh(x) ==
  LET y == logk2(AcoshSum(x)) IN
  IF x \in {Beyond(-1), Undefined} THEN Undefined
  ELSE IF x = Number(0) THEN Number(0)
  ELSE IF IsAbove(x, CutRoot) \/ y = Undefined THEN Infinity ELSE y
xacoshf(x) == xacosh(x)

\* Half of log (1 + y) / (1 - y); 1 has the infinity for its name.
xatanh(x) ==
  LET y == Magnitude(x)
      u == logk2(IF Finite(y) THEN Number(2 * y.k) ELSE Undefined)
  IN  IF x.kind = "beyond" THEN Undefined
      ELSE SignedAs(OrNaN(x, IF y = Infinity THEN Infinity ELSE Halved(u)), x)
xatanhf(x) == xatanh(x)

-----------------------------------------------------------------------------
(* sleefsimdqp.c.  Only the last conversion rounds to -1 or 1, or is out of *)
(* range.  The argument itself is returned where it is tiny.               *)

\* -100, of -78 where the difference to -1 vanishes; 128 for tanh, of 39
TdxLow == -Ln2 * (Precision + 3)
TdxCutTanh == 12 * (Precision + 1)

expm1_tdx_tdx(a, err) ==
  IF a \in {MinusZero, Undefined} THEN a
  ELSE IF IsBelow(a, TdxLow) THEN MinusInfinity
  ELSE IF TdxLarge(a, LargeE) THEN Infinity
  ELSE IF Quotient(a, err) = 0 THEN Mantissa(a, 0)
  ELSE MinusOne(WideExp(a, err))

\* d and 2^-e - 1 are added as double numbers, up to an exponent at which d + 1
\* and 2^-e are some.
log1p_tdx_tdx(d) ==
  LET e == (d.k + 3) \div Ln2 IN
  CASE d \in {Beyond(-1), Undefined} -> Undefined
    [] d \in {MinusZero, Infinity, MinusInfinity} -> d
    [] OTHER -> IF /\ d.k < Ln2 * (DoubleExpo - 1)
                   /\ e \notin (1 - DoubleExpo)..(DoubleExpo - 1)
                THEN Spoilt ELSE TdxLogOf(d.k)

\* With d = e^2|x| - 1: d / sqrt(d + 1) and d / (d + 2)
sinh_tdx_tdx(x, err) ==
  LET d == NoInfinity(expm1_tdx_tdx(Doubled(Magnitude(x)), err)) IN
  IF x \in {MinusZero, Undefined} THEN x
  ELSE SignedAs(IF TdxLarge(Doubled(x), LargeE) THEN Infinity ELSE Halved(d), x)
cosh_tdx_tdx(x, err) ==
  OrNaN(x, IF TdxLarge(Doubled(x), LargeE) THEN Infinity
           ELSE NoInfinity(exp_tdx_tdx(Magnitude(x), err)))
tanh_tdx_tdx(x, err) ==
  LET d == NoInfinity(expm1_tdx_tdx(Doubled(Magnitude(x)), err)) IN
  IF x \in {MinusZero, Undefined} THEN x
  ELSE SignedAs(IF TdxLarge(x, TdxCutTanh) THEN Infinity ELSE Halved(d), x)

\* The arguments of log1p, sqrt(x^2 + 1) - 1 + x and sqrt(x^2 - 1) + x - 1,
\* have the names of the arguments of the functions.
asinh_tdx_tdx(x) ==
  LET d == log1p_tdx_tdx(NoInfinity(Magnitude(x))) IN
  IF x = MinusZero THEN x
  ELSE SignedAs(IF x.kind = "inf" THEN Infinity ELSE d, x)
acosh_tdx_tdx(x) ==
  IF x = Infinity THEN x
  ELSE log1p_tdx_tdx(IF x.kind = "number" THEN x ELSE Undefined)
\* 2x / (1 - x), which is below -1 for x above 1
atanh_tdx_tdx(x) ==
  LET y == Magnitude(x)
      d == log1p_tdx_tdx(IF y.kind = "beyond" THEN Beyond(-1) ELSE Doubled(y))
  IN
  IF x = MinusZero THEN x
  ELSE SignedAs(IF y = Infinity THEN Infinity ELSE Halved(d), x)

\* What the conversion makes of u: rounding to the limits low and high
LimitedTo(u, low, high) ==
  IF IsBelow(u, low) THEN MinusInfinity
  ELSE IF IsAbove(u, high) THEN Infinity ELSE u
LimitTanh == 4 * (Precision + 2)

xexpm1q_u10(a, err) ==
  LimitedTo(expm1_tdx_tdx(a, err), -Ln2 * Precision, MaxLog)
xlog1pq_u10(a) == log1p_tdx_tdx(a)
xsinhq_u10(a, err) ==
  LimitedTo(sinh_tdx_tdx(a, err), -MaxLog - Ln2, MaxLog + Ln2)
xcoshq_u10(a, err) ==
  LimitedTo(cosh_tdx_tdx(a, err), -MaxLog - Ln2, MaxLog + Ln2)
xtanhq_u10(a, err) == LimitedTo(tanh_tdx_tdx(a, err), -LimitTanh, LimitTanh)
xasinhq_u10(a) == asinh_tdx_tdx(a)
xacoshq_u10(a) == acosh_tdx_tdx(a)
xatanhq_u10(a) == atanh_tdx_tdx(a)

-----------------------------------------------------------------------------
HypResult(c) ==
  CASE c.fn = "xexpm1" -> xexpm1(c.x, c.err)
    [] c.fn = "xexpm1f" -> xexpm1f(c.x, c.err)
    [] c.fn = "xlog1p" -> xlog1p(c.x)
    [] c.fn = "xlog1pf" -> xlog1pf(c.x)
    [] c.fn = "xsinh" -> xsinh(c.x, c.err)
    [] c.fn = "xcosh" -> xcosh(c.x, c.err)
    [] c.fn = "xtanh" -> xtanh(c.x, c.err)
    [] c.fn = "xsinh_u35" -> xsinh_u35(c.x, c.err)
    [] c.fn = "xcosh_u35" -> xcosh_u35(c.x, c.err)
    [] c.fn = "xtanh_u35" -> xtanh_u35(c.x, c.err)
    [] c.fn = "xsinhf" -> xsinhf(c.x, c.err)
    [] c.fn = "xcoshf" -> xcoshf(c.x, c.err)
    [] c.fn = "xtanhf" -> xtanhf(c.x, c.err)
    [] c.fn = "xsinhf_u35" -> xsinhf_u35(c.x, c.err)
    [] c.fn = "xcoshf_u35" -> xcoshf_u35(c.x, c.err)
    [] c.fn = "xtanhf_u35" -> xtanhf_u35(c.x, c.err)
    [] c.fn = "xasinh" -> xasinh(c.x)
    [] c.fn = "xacosh" -> xacosh(c.x)
    [] c.fn = "xatanh" -> xatanh(c.x)
    [] c.fn = "xasinhf" -> xasinhf(c.x)
    [] c.fn = "xacoshf" -> xacoshf(c.x)
    [] c.fn = "xatanhf" -> xatanhf(c.x)
    [] c.fn = "xexpm1q_u10" -> xexpm1q_u10(c.x, c.err)
    [] c.fn = "xlog1pq_u10" -> xlog1pq_u10(c.x)
    [] c.fn = "xsinhq_u10" -> xsinhq_u10(c.x, c.err)
    [] c.fn = "xcoshq_u10" -> xcoshq_u10(c.x, c.err)
    [] c.fn = "xtanhq_u10" -> xtanhq_u10(c.x, c.err)
    [] c.fn = "xasinhq_u10" -> xasinhq_u10(c.x)
    [] c.fn = "xacoshq_u10" -> xacoshq_u10(c.x)
    [] c.fn = "xatanhq_u10" -> xatanhq_u10(c.x)

HypInit == ecall \in ExpCalls \cup HypCalls /\ eret = <<>>

HypCall ==
  /\ eret = <<>>
  /\ ecall \in HypCalls
  /\ eret' = <<HypResult(ecall)>>
  /\ UNCHANGED ecall

HypSpec == HypInit /\ [][ExpCall \/ HypCall]_expvars

-----------------------------------------------------------------------------
Expm1s == {"xexpm1", "xexpm1f", "xexpm1q_u10"}
Log1ps == {"xlog1p", "xlog1pf", "xlog1pq_u10"}
Sinhs == {"xsinh", "xsinh_u35", "xsinhf", "xsinhf_u35", "xsinhq_u10"}
Coshs == {"xcosh", "xcosh_u35", "xcoshf", "xcoshf_u35", "xcoshq_u10"}
Tanhs == {"xtanh", "xtanh_u35", "xtanhf", "xtanhf_u35", "xtanhq_u10"}
Asinhs == {"xasinh", "xasinhf", "xasinhq_u10"}
Acoshs == {"xacosh", "xacoshf", "xacoshq_u10"}
Atanhs == {"xatanh", "xatanhf", "xatanhq_u10"}

\* The arguments of log1p and of the inverse hyperbolic functions
NumbersIn(low, high) == {Number(k) : k \in low..high}
Log1pArguments == NumbersIn(Expm1Low, MaxLog) \cup Specials \cup {Beyond(-1)}
AsinhArguments == NumbersIn(-MaxLog, MaxLog) \cup Specials
AcoshArguments == NumbersIn(0, MaxLog) \cup {Infinity, Undefined, Beyond(-1)}
AtanhArguments ==
  NumbersIn(-CutTanh, CutTanh) \cup Specials \cup {Beyond(-1), Beyond(1)}

ASSUME HypCallsAssumption ==
  \A c \in HypCalls :
    \/ /\ c.fn \in Expm1s \cup Sinhs \cup Coshs \cup Tanhs
       /\ c.x \in Exponents /\ c.err \in {0, 1}
    \/ c.fn \in Log1ps /\ c.x \in Log1pArguments
    \/ c.fn \in Asinhs /\ c.x \in AsinhArguments
    \/ c.fn \in Acoshs /\ c.x \in AcoshArguments
    \/ c.fn \in Atanhs /\ c.x \in AtanhArguments

\* x itself, up to the documented range; from far on, limit; either between
Within(r, x, range, far, limit) ==
  IF ~Finite(x) THEN r = x
  ELSE IF Abs(x.k) <= range THEN r = x
  ELSE IF Abs(x.k) > far THEN r = limit ELSE r \in {x, limit}

\* The functions keep the name of their argument, with its sign if they are
\* odd, in the range their documentation gives; they return infinity, or 1 or
\* -1, beyond it, and NaN where there is no result.
HyperbolicsRight ==
  \A i \in DOMAIN eret :
    LET x == ecall.x
        r == eret[i]
    IN
    CASE ecall.fn \in Expm1s ->
           IF IsBelow(x, 0) THEN Within(r, x, Ln2 * Precision, Ln2 * Precision,
                                        MinusInfinity)
           ELSE Within(r, x, MaxLog, MaxLog, Infinity)
      [] ecall.fn \in Log1ps ->
           r = IF x = Beyond(-1) THEN Undefined ELSE x
      [] ecall.fn \in Sinhs ->
           Within(r, x, Cut709, MaxLog + Ln2, SignedAs(Infinity, x))
      [] ecall.fn \in Coshs ->
           Within(r, Magnitude(x), Cut709, MaxLog + Ln2, Infinity)
      [] ecall.fn \in Tanhs ->
           Within(r, x, CutTanh, CutTanh + Ln2, SignedAs(Infinity, x))
      [] ecall.fn \in Asinhs ->
           Within(r, x, CutRoot, MaxLog, SignedAs(Infinity, x))
      [] ecall.fn \in Acoshs ->
           IF x = Beyond(-1) THEN r = Undefined
           ELSE Within(r, x, CutRoot, MaxLog, Infinity)
      [] ecall.fn \in Atanhs ->
           r = IF x.kind = "beyond" THEN Undefined ELSE x
      [] OTHER -> TRUE

\* Both, of every function that is made of an exponential or a logarithm
ElementaryRight == PowersRight /\ HyperbolicsRight
=============================================================================
