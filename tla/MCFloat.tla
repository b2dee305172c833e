------------------------------ MODULE MCFloat ------------------------------
(***************************************************************************)
(* Calls of the math functions in the small format: of one argument for    *)
(* every number, of two for every pair of positive ones and of pairs that  *)
(* are treated apart.                                                      *)
(***************************************************************************)
EXTENDS FloatFunctions

Numbers == {x \in Patterns : Mag(x) <= Inf} \cup {NaN}
Positive == {x \in Numbers : ~Negative(x)}
Some == {0, SignBit, 1, SignBit + 1, Frac, Pow2(0), Negated(Pow2(0)), MaxFinite,
         Inf, Negated(Inf), NaN}

Call(fns, xs, ys, builds) ==
  [fn : fns, x : xs, y : ys, full : builds]

\* Numbers of the exponents around those from which on operands are scaled, of
\* the middle one and of the largest ones
Divisors == {x \in Positive : Expo(x) \in {0, 1, 2, Bias} \cup ((2*Bias)..(2*Bias+1))}

\* Without those whose second argument is the larger one
Descending(calls) == {c \in calls : Mag(c.x) >= Mag(c.y)}

LdexpCalls == Call({"ldexp"}, Numbers, (-40)..40, {TRUE})
FrexpCalls == Call({"frexp"}, Numbers, {0}, {TRUE})

AllCalls ==
  Call({"trunc", "floor", "ceil", "round", "rint"}, Numbers, {0}, BOOLEAN)
  \cup Call({"frexp", "ilogb"}, Numbers, {0}, {TRUE})
  \cup LdexpCalls
  \cup Call({"nextafter"}, Numbers, Some, {TRUE})
  \cup Call({"fmod"}, Positive, Divisors, {FALSE})
  \cup Call({"fmod"}, Positive, Some, {TRUE})
  \cup Call({"remainder"}, Positive, Divisors, {TRUE})
  \cup Call({"fmod", "remainder"}, Some, Some, BOOLEAN)
  \cup Descending(Call({"hypot_u05", "hypot_u35"}, Positive, Positive, {TRUE}))
  \cup Descending(Call({"ddadd2", "ddadd", "ddmul"}, Positive, Numbers, {TRUE}))
  \cup Call({"ddadd2"}, Some, Numbers, {TRUE})
=============================================================================
