-------------------------- MODULE ElementaryProofs --------------------------
(***************************************************************************)
(* What the elementary functions return, for every argument that has a     *)
(* name, every format of numbers, every range of a reduction and every way *)
(* a quotient may be rounded: inverse trigonometric functions first, then  *)
(* exponential functions, logarithms and powers, what is made of them, and *)
(* sine, cosine and tangent of all lanes of a vector.  Each part tells the *)
(* arguments apart, shows what reduction and polynomial make of them, then *)
(* what is selected, and ends with a theorem about all functions by name.  *)
(***************************************************************************)
EXTENDS Trigonometry, InverseTrigonometry, Hyperbolics, TLAPS

\* What the operations on extended integers do to numbers
LEMMA OfNumbers ==
  ASSUME NEW k \in Int
  PROVE  /\ Number(k).kind = "number" /\ Number(k).k = k /\ Finite(Number(k))
         /\ HasMinus(Number(k)) <=> k < 0
         /\ Opposed(Number(k)) = IF k = 0 THEN MinusZero ELSE Number(-k)
         /\ Magnitude(Number(k)) = Number(Abs(k))
         /\ Number(k) \notin
              {MinusZero, Infinity, MinusInfinity, Undefined, Spoilt}
<1>1. /\ Number(k).kind = "number" /\ Number(k).k = k
      /\ Number(k) # MinusZero
      /\ Number(k) # Infinity /\ Number(k) # MinusInfinity
      /\ Number(k) # Undefined /\ Number(k) # Spoilt
  BY DEF Number, MinusZero, Infinity, MinusInfinity, Undefined, Spoilt
<1>2. Finite(Number(k)) /\ (HasMinus(Number(k)) <=> k < 0)
  BY <1>1 DEF Finite, HasMinus
<1>3. Number(k) = Number(0) <=> k = 0
  <2>1. Number(0).k = 0  BY DEF Number
  <2> QED  BY <1>1, <2>1
<1>4. Opposed(Number(k)) = IF k = 0 THEN MinusZero ELSE Number(-k)
  <2>1. k # 0 => Opposed(Number(k)) = [kind |-> "number", k |-> -k]
    BY <1>1, <1>3 DEF Opposed
  <2> QED  BY <1>3, <2>1 DEF Opposed, Number
<1>5. Magnitude(Number(k)) = Number(Abs(k))
  BY <1>2, <1>4 DEF Magnitude, Abs
<1> QED  BY <1>1, <1>2, <1>4, <1>5

\* and to the other values
LEMMA OfSpecials ==
  /\ Finite(MinusZero) /\ ~Finite(Infinity) /\ ~Finite(MinusInfinity)
  /\ ~Finite(Undefined) /\ ~Finite(Spoilt)
  /\ HasMinus(MinusZero) /\ ~HasMinus(Infinity) /\ HasMinus(MinusInfinity)
  /\ ~HasMinus(Undefined) /\ ~HasMinus(Spoilt)
  /\ Opposed(MinusZero) = Number(0) /\ Opposed(Infinity) = MinusInfinity
  /\ Opposed(MinusInfinity) = Infinity /\ Opposed(Undefined) = Undefined
  /\ MinusZero.k = 0 /\ Infinity.k = 1 /\ MinusInfinity.k = -1
  /\ Undefined.k = 0 /\ Spoilt.k = 0
  /\ MinusZero.kind = "minuszero" /\ Infinity.kind = "inf"
  /\ MinusInfinity.kind = "inf" /\ Undefined.kind = "nan"
  /\ Spoilt.kind = "spoilt"
<1>1. /\ MinusZero.k = 0 /\ Infinity.k = 1 /\ MinusInfinity.k = -1
      /\ Undefined.k = 0 /\ Spoilt.k = 0
      /\ MinusZero.kind = "minuszero" /\ Infinity.kind = "inf"
      /\ MinusInfinity.kind = "inf" /\ Undefined.kind = "nan"
      /\ Spoilt.kind = "spoilt"
      /\ Number(0).kind = "number" /\ Number(0).k = 0
  BY DEF MinusZero, Infinity, MinusInfinity, Undefined, Spoilt, Number
<1>2. /\ Finite(MinusZero) /\ ~Finite(Infinity) /\ ~Finite(MinusInfinity)
      /\ ~Finite(Undefined) /\ ~Finite(Spoilt)
  BY <1>1 DEF Finite
<1>3. /\ HasMinus(MinusZero) /\ ~HasMinus(Infinity) /\ HasMinus(MinusInfinity)
      /\ ~HasMinus(Undefined) /\ ~HasMinus(Spoilt)
  BY <1>1 DEF HasMinus
<1>4. /\ Opposed(MinusZero) = Number(0) /\ Opposed(Infinity) = MinusInfinity
      /\ Opposed(MinusInfinity) = Infinity /\ Opposed(Undefined) = Undefined
  <2>1. Opposed(MinusZero) = [kind |-> "number", k |-> 0]
    BY <1>1 DEF Opposed
  <2>2. Opposed(Infinity) = [kind |-> "inf", k |-> -1]
    BY <1>1 DEF Opposed
  <2>3. Opposed(MinusInfinity) = [kind |-> "inf", k |-> 1]
    BY <1>1 DEF Opposed
  <2>4. Opposed(Undefined) = [kind |-> "nan", k |-> 0]
    BY <1>1 DEF Opposed
  <2> QED
    BY <2>1, <2>2, <2>3, <2>4 DEF Number, Infinity, MinusInfinity, Undefined
<1> QED  BY <1>1, <1>2, <1>3, <1>4, Zenon

\* The values that take part in arithmetic, and those that do not
Finites == {Number(k) : k \in Int} \cup {MinusZero}

Infinites == {Infinity, MinusInfinity, Undefined}

\* Signs and magnitudes of what takes part in arithmetic
LEMMA OfFinites ==
  ASSUME NEW x \in Finites
  PROVE  /\ x.k \in Int /\ Finite(x) /\ x.kind \in {"number", "minuszero"}
         /\ x # MinusZero => x = Number(x.k) /\ x.kind = "number"
         /\ x = MinusZero => x.k = 0 /\ x.kind = "minuszero"
         /\ Magnitude(x) = Number(Abs(x.k)) /\ Abs(x.k) \in Nat
         /\ HasMinus(x) <=> x = MinusZero \/ x.k < 0
         /\ SignedAs(Number(Abs(x.k)), x) = x
         /\ \A j \in Int : j # 0 /\ x # MinusZero =>
              SignedAs(Number(j), x) = Number(IF x.k < 0 THEN -j ELSE j)
<1>1. CASE x = MinusZero
  <2>1. Magnitude(x) = Number(0)  BY <1>1, OfSpecials DEF Magnitude
  <2>2. Opposed(Number(0)) = MinusZero  BY OfNumbers
  <2>3. Abs(0) = 0  BY DEF Abs
  <2> QED  BY <1>1, <2>1, <2>2, <2>3, OfSpecials DEF SignedAs
<1>2. ASSUME NEW k \in Int, x = Number(k)
      PROVE  /\ x.k \in Int /\ Finite(x) /\ x.kind \in {"number", "minuszero"}
             /\ x = Number(x.k) /\ x.kind = "number" /\ x # MinusZero
             /\ Magnitude(x) = Number(Abs(x.k)) /\ Abs(x.k) \in Nat
             /\ HasMinus(x) <=> x.k < 0
             /\ SignedAs(Number(Abs(x.k)), x) = x
             /\ \A j \in Int : j # 0 =>
                  SignedAs(Number(j), x) = Number(IF x.k < 0 THEN -j ELSE j)
  <2>1. /\ x.k = k /\ Finite(x) /\ x.kind = "number" /\ x # MinusZero
        /\ Magnitude(x) = Number(Abs(k)) /\ (HasMinus(x) <=> k < 0)
    BY <1>2, OfNumbers
  <2>2. Abs(k) \in Nat /\ (k < 0 => Abs(k) # 0 /\ -Abs(k) = k)
        /\ (~(k < 0) => Abs(k) = k)
    BY DEF Abs
  <2>3. \A j \in Int : j # 0 =>
          SignedAs(Number(j), x) = Number(IF k < 0 THEN -j ELSE j)
    BY <2>1, OfNumbers DEF SignedAs
  <2>4. SignedAs(Number(Abs(k)), x) = Number(k)
    <3>1. CASE k = 0  BY <3>1, <2>1, <2>2 DEF SignedAs
    <3>2. CASE k # 0
      <4>1. Abs(k) \in Int /\ Abs(k) # 0  BY <3>2, <2>2
      <4> QED  BY <4>1, <2>2, <2>3
    <3> QED  BY <3>1, <3>2
  <2> QED  BY <1>2, <2>1, <2>2, <2>3, <2>4
<1> QED  BY <1>1, <1>2 DEF Finites

\* and of what does not
LEMMA OfInfinites ==
  ASSUME NEW x \in Infinites
  PROVE  /\ ~Finite(x) /\ x \notin Finites
         /\ Magnitude(x) = IF x = Undefined THEN Undefined ELSE Infinity
         /\ SignedAs(Undefined, x) = Undefined
         /\ SignedAs(Infinity, x) = IF x = MinusInfinity THEN x ELSE Infinity
         /\ x.kind # "number" /\ x.kind # "minuszero"
<1>1. ~Finite(x) /\ x.kind # "number" /\ x.kind # "minuszero"
  BY OfSpecials DEF Infinites
<1>2. Undefined # Infinity /\ Undefined # MinusInfinity
      /\ Infinity # MinusInfinity
  BY OfSpecials
<1>3. /\ Magnitude(x) = IF x = Undefined THEN Undefined ELSE Infinity
      /\ SignedAs(Undefined, x) = Undefined
      /\ SignedAs(Infinity, x) = IF x = MinusInfinity THEN x ELSE Infinity
  BY <1>2, OfSpecials DEF Infinites, Magnitude, SignedAs
<1>4. x \notin Finites  BY <1>1, OfFinites
<1> QED  BY <1>1, <1>3, <1>4

-----------------------------------------------------------------------------
(* Inverse trigonometric functions *)

\* c + f * x, for any summand and factor
LEMMA OfCombined ==
  /\ \A c, f \in Int : \A x \in Finites :
       Combined(c, f, x) = Number(c + f * x.k)
  /\ \A c, f \in Int : \A k \in Int :
       Combined(c, f, Number(k)) = Number(c + f * k)
  /\ \A c, f : Combined(c, f, Undefined) = Undefined
<1>1. \A c, f \in Int : \A x \in Finites :
        Combined(c, f, x) = Number(c + f * x.k)
  BY OfFinites DEF Combined
<1>2. \A k \in Int : Number(k) \in Finites /\ Number(k).k = k
  BY OfNumbers DEF Finites
<1>3. \A c, f : Combined(c, f, Undefined) = Undefined
  BY OfSpecials DEF Combined
<1> QED  BY <1>1, <1>2, <1>3

\* The arguments of arc sine and arc cosine that have one
Sines1 == {x \in Finites : x.k \in -24..24 /\ x.k % 2 = 0}

\* The arguments of arc sine, told apart
LEMMA SineArgumentsAre == SineArguments \subseteq Sines1 \cup Infinites
<1>1. ASSUME NEW k \in -24..24, k % 2 = 0  PROVE Number(k) \in Sines1
  BY <1>1, OfNumbers DEF Sines1, Finites
<1>2. MinusZero \in Sines1
  BY OfSpecials DEF Sines1, Finites
<1> QED  BY <1>1, <1>2 DEF SineArguments, Specials, RightAngle, Infinites

\* What the polynomial of arc sine returns
Half(x) == (RightAngle - Abs(x.k)) \div 2

ArcU(x) == IF Abs(x.k) < 8 THEN Number(Abs(x.k)) ELSE Number(Half(x))

\* Half of the complement of an angle
LEMMA HalfIs ==
  ASSUME NEW x \in Sines1
  PROVE  /\ x \in Finites /\ Abs(x.k) \in 0..24
         /\ Half(x) \in 0..12 /\ 2 * Half(x) = 24 - Abs(x.k)
         /\ Abs(x.k) = IF x.k < 0 THEN -x.k ELSE x.k
BY DEF Sines1, Half, Abs, RightAngle

\* All the ways to it return the angle, or half of its complement.
LEMMA ArcUIs ==
  ASSUME NEW x \in Sines1
  PROVE  /\ Slight(x) <=> Abs(x.k) < 8
         /\ ArcOf(x, RootOf(x)) = ArcU(x)
         /\ ArcOf(x, UnlessUnit(x, RootOf(x))) = ArcU(x)
         /\ ArcOf(x, UnlessUnit(x, DDRootOf(x))) = ArcU(x)
         /\ TdxSlight(x) <=> Abs(x.k) <= 8
         /\ TdxArcOf(x) = ArcU(x)
<1> DEFINE a == Abs(x.k)
           h == Half(x)
<1>1. /\ x \in Finites /\ Finite(x) /\ a \in 0..24 /\ h \in 0..12
      /\ 2 * h = 24 - a /\ Magnitude(x) = Number(a)
  BY HalfIs, OfFinites
<1>2. /\ Slight(x) <=> a < 8
      /\ TdxSlight(x) <=> a <= 8
      /\ IsUnit(x) <=> a = 24
  BY <1>1 DEF Slight, TdxSlight, IsUnit, RightAngle
<1>3. RootOf(x) = Number(h)  BY <1>1 DEF RootOf, Half
<1>4. a = 24 => h = 0  BY <1>1
<1>5. /\ UnlessUnit(x, RootOf(x)) = Number(h)
      /\ UnlessUnit(x, DDRootOf(x)) = Number(h)
  BY <1>2, <1>3, <1>4 DEF UnlessUnit, DDRootOf
<1> HIDE DEF a, h
<1>6. \A j \in 0..8 : ArcPoly(Number(j), 8) = Number(j)
  BY OfNumbers DEF ArcPoly, Abs
<1>7. ArcOf(x, Number(h)) = IF a < 8 THEN Number(a) ELSE Number(h)
  <2>1. a < 8 => a \in 0..8  BY <1>1
  <2>2. ~(a < 8) => h \in 0..8  BY <1>1
  <2> QED  BY <1>1, <1>2, <1>6, <2>1, <2>2 DEF ArcOf
<1>8. TdxArcOf(x) = IF a < 8 THEN Number(a) ELSE Number(h)
  <2>1. a <= 8 => a \in 0..8  BY <1>1
  <2>2. ~(a <= 8) => h \in 0..8  BY <1>1
  <2>3. a = 8 => h = a  BY <1>1
  <2> QED  BY <1>1, <1>2, <1>3, <1>6, <2>1, <2>2, <2>3 DEF TdxArcOf
<1> QED  BY <1>2, <1>3, <1>5, <1>7, <1>8 DEF ArcU, a, h

\* Arc sine and arc cosine of what has none
LEMMA NoArc ==
  ASSUME NEW x \in Infinites
  PROVE  /\ ~Slight(x) /\ ~TdxSlight(x) /\ ~IsUnit(x)
         /\ ArcOf(x, RootOf(x)) = Undefined
         /\ ArcOf(x, UnlessUnit(x, RootOf(x))) = Undefined
         /\ ArcOf(x, UnlessUnit(x, DDRootOf(x))) = Undefined
         /\ TdxArcOf(x) = Undefined
<1>1. ~Finite(x) /\ ~Finite(Undefined)  BY OfInfinites, OfSpecials
<1> QED
  BY <1>1 DEF Slight, TdxSlight, IsUnit, ArcOf, RootOf, UnlessUnit, DDRootOf,
              TdxArcOf, ArcPoly

\* Arc sine, by the polynomial or by that of half the complement
LEMMA ArcSinesRight ==
  ASSUME NEW x \in SineArguments
  PROVE  LET r == IF Finite(x) THEN x ELSE Undefined IN
         /\ xasin(x) = r /\ xasin_u1(x) = r /\ xasinf(x) = r
         /\ xasinf_u1(x) = r /\ asin_tdx_tdx(x) = r
<1>1. CASE x \in Sines1
  <2> DEFINE a == Abs(x.k)
             h == Half(x)
  <2>1. /\ x \in Finites /\ Finite(x) /\ a \in 0..24 /\ h \in 0..12
        /\ 2 * h = 24 - a /\ SignedAs(Number(a), x) = x
    BY <1>1, HalfIs, OfFinites
  <2>2. SignedAs(IF a < 8 THEN ArcU(x) ELSE Combined(RightAngle, -2, ArcU(x)),
                 x) = x
    <3>1. CASE a < 8  BY <3>1, <2>1 DEF ArcU
    <3>2. CASE ~(a < 8)
      <4> HIDE DEF a, h
      <4>0. h \in Int /\ -2 \in Int  BY <2>1
      <4>1. Combined(RightAngle, -2, Number(h)) = Number(24 + (-2) * h)
        BY <4>0, OfCombined DEF RightAngle
      <4>2. 24 + (-2) * h = a  BY <2>1
      <4> QED  BY <3>2, <2>1, <4>1, <4>2 DEF ArcU, a, h
    <3> QED  BY <3>1, <3>2
  <2>3. SignedAs(IF a < 8 THEN ArcU(x)
                 ELSE Combined(0, 2, Combined(RightAngle \div 2, -1, ArcU(x))),
                 x) = x
    <3>1. CASE a < 8  BY <3>1, <2>1 DEF ArcU
    <3>2. CASE ~(a < 8)
      <4> HIDE DEF a, h
      <4>0. /\ h \in Int /\ -1 \in Int /\ 12 + (-1) * h \in Int
            /\ RightAngle \div 2 = 12
        BY <2>1 DEF RightAngle
      <4>1. Combined(RightAngle \div 2, -1, Number(h)) = Number(12 + (-1) * h)
        BY <4>0, OfCombined
      <4>2. Combined(0, 2, Number(12 + (-1) * h)) =
              Number(0 + 2 * (12 + (-1) * h))
        BY <4>0, OfCombined
      <4>3. 0 + 2 * (12 + (-1) * h) = a  BY <2>1
      <4> QED  BY <3>2, <2>1, <4>1, <4>2, <4>3 DEF ArcU, a, h
    <3> QED  BY <3>1, <3>2
  <2>4. SignedAs(IF a <= 8 THEN ArcU(x) ELSE Combined(RightAngle, -2, ArcU(x)),
                 x) = x
    <3>1. CASE a = 8
      <4>1. h = a  BY <3>1, <2>1
      <4> QED  BY <3>1, <2>1, <4>1 DEF ArcU
    <3>2. CASE a # 8
      <4>1. a <= 8 <=> a < 8  BY <3>2, <2>1
      <4> QED  BY <4>1, <2>2
    <3> QED  BY <3>1, <3>2
  <2> HIDE DEF a, h
  <2>5. asin_tdx_tdx(x) = x
    <3>1. x.kind # "inf"  BY <2>1, OfFinites
    <3> QED  BY <1>1, <2>1, <2>4, <3>1, ArcUIs DEF asin_tdx_tdx, a
  <2>6. xasin(x) = x  BY <1>1, <2>2, ArcUIs DEF xasin, ArcSine, a
  <2>7. xasin_u1(x) = x  BY <1>1, <2>3, ArcUIs DEF xasin_u1, ArcSineDD, a
  <2>8. xasinf(x) = xasin(x) /\ xasinf_u1(x) = xasin_u1(x)
    BY DEF xasin, xasinf, xasin_u1, xasinf_u1
  <2> QED  BY <2>1, <2>5, <2>6, <2>7, <2>8
<1>2. CASE x \in Infinites
  <2>1. ~Finite(x) /\ SignedAs(Undefined, x) = Undefined  BY <1>2, OfInfinites
  <2>2. xasin(x) = Undefined /\ xasin_u1(x) = Undefined
    BY <1>2, <2>1, NoArc, OfCombined DEF xasin, xasin_u1, ArcSine, ArcSineDD
  <2>3. xasinf(x) = xasin(x) /\ xasinf_u1(x) = xasin_u1(x)
    BY DEF xasin, xasinf, xasin_u1, xasinf_u1
  <2>4. asin_tdx_tdx(x) = Undefined
    <3>1. x # MinusZero  BY <1>2, OfInfinites, OfSpecials
    <3> QED  BY <1>2, <2>1, <3>1, NoArc, OfCombined DEF asin_tdx_tdx
  <2> QED  BY <2>1, <2>2, <2>3, <2>4
<1> QED  BY <1>1, <1>2, SineArgumentsAre

\* Arc cosine likewise, with an obtuse angle for a negative number
LEMMA ArcCosinesRight ==
  ASSUME NEW x \in SineArguments
  PROVE  LET r == IF Finite(x) THEN Number(RightAngle - x.k) ELSE Undefined IN
         /\ xacos(x) = r /\ xacos_u1(x) = r /\ xacosf(x) = r
         /\ xacosf_u1(x) = r /\ acos_tdx_tdx(x) = r
<1>0. /\ xacosf(x) = xacos(x) /\ xacosf_u1(x) = xacos_u1(x)
  BY DEF xacos, xacosf, xacos_u1, xacosf_u1
<1>1. CASE x \in Sines1
  <2> DEFINE a == Abs(x.k)
             h == Half(x)
             r == Number(24 + (-1) * x.k)
  <2>1. /\ x \in Finites /\ Finite(x) /\ a \in 0..24 /\ h \in 0..12
        /\ 2 * h = 24 - a /\ SignedAs(Number(a), x) = x /\ x.k \in Int
        /\ a = IF x.k < 0 THEN -x.k ELSE x.k
        /\ HasMinus(x) <=> x = MinusZero \/ x.k < 0
        /\ x = MinusZero => x.k = 0
    BY <1>1, HalfIs, OfFinites
  <2> HIDE DEF a, h
  <2>2. /\ h \in Int /\ 2 \in Int /\ 0 \in Int /\ -1 \in Int
        /\ 0 + 2 * h \in Int
        /\ 48 \in Int
    BY <2>1
  <2>3. Combined(0, 2, Number(h)) = Number(0 + 2 * h)  BY <2>2, OfCombined
  <2>4. Combined(48, -1, Number(0 + 2 * h)) = Number(48 + (-1) * (0 + 2 * h))
    BY <2>2, OfCombined
  <2>5. Combined(24, -1, x) = r  BY <2>1, OfCombined
  <2>6. a < 8 => ArcU(x) = Number(a)  BY DEF ArcU, a
  <2>7. ~(a < 8) => ArcU(x) = Number(h)  BY DEF ArcU, a, h
  <2>8. CASE a < 8
    <3>1. SignedAs(ArcU(x), x) = x  BY <2>8, <2>1, <2>6
    <3> QED  BY <1>1, <2>8, <3>1, <2>5, ArcUIs, <1>0, <2>1
             DEF xacos, xacos_u1, acos_tdx_tdx, ArcCosine, RightAngle, a
  <2>9. CASE ~(a < 8)
    <3>1. x.k < 0 => 48 + (-1) * (0 + 2 * h) = 24 + (-1) * x.k  BY <2>1
    <3>2. ~(x.k < 0) => 0 + 2 * h = 24 + (-1) * x.k  BY <2>1
    <3>3. HasMinus(x) <=> x.k < 0  BY <2>1, <2>9
    <3>4. a = 8 => SignedAs(ArcU(x), x) = x
      <4>1. a = 8 => h = a  BY <2>1
      <4> QED  BY <4>1, <2>1, <2>7
    <3>5. (IF x.k < 0 THEN Combined(48, -1, Combined(0, 2, ArcU(x)))
           ELSE Combined(0, 2, ArcU(x))) = r
      BY <2>3, <2>4, <2>7, <2>9, <3>1, <3>2
    <3>6. xacos(x) = r /\ xacos_u1(x) = r
      BY <1>1, <2>9, <3>5, ArcUIs
         DEF xacos, xacos_u1, ArcCosine, RightAngle, Straight, a
    <3>7. acos_tdx_tdx(x) = r
      <4>1. a <= 8 => a = 8  BY <2>1, <2>9
      <4> HIDE DEF r
      <4> QED  BY <1>1, <2>5, <3>3, <3>4, <3>5, <4>1, ArcUIs
               DEF acos_tdx_tdx, RightAngle, Straight, a
    <3>8. r = Number(24 - x.k)
      <4>1. 24 + (-1) * x.k = 24 - x.k  BY <2>1
      <4> QED  BY <4>1
    <3> QED  BY <1>0, <2>1, <3>6, <3>7, <3>8 DEF RightAngle
  <2> QED  BY <2>8, <2>9
<1>2. CASE x \in Infinites
  <2>1. ~Finite(x) /\ SignedAs(Undefined, x) = Undefined  BY <1>2, OfInfinites
  <2>2. xacos(x) = Undefined /\ xacos_u1(x) = Undefined
    BY <1>2, <2>1, NoArc, OfCombined DEF xacos, xacos_u1, ArcCosine
  <2>3. acos_tdx_tdx(x) = Undefined
    BY <1>2, <2>1, NoArc, OfCombined DEF acos_tdx_tdx
  <2> QED  BY <1>0, <2>1, <2>2, <2>3
<1> QED  BY <1>1, <1>2, SineArgumentsAre

\* The arguments of arc tangent, and a right angle for the sake of atan2
Tangents1 == {x \in Finites : x.k \in -24..24}

\* The arguments of arc tangent, told apart
LEMMA TangentArgumentsAre ==
  ASSUME NEW x \in TangentArguments
  PROVE  x \in Infinites \/ (x \in Tangents1 /\ x.k \in -23..23)
<1>1. ASSUME NEW k \in -23..23
      PROVE  Number(k) \in Tangents1 /\ Number(k).k = k
  BY <1>1, OfNumbers DEF Tangents1, Finites
<1>2. MinusZero \in Tangents1 /\ MinusZero.k = 0
  BY OfSpecials DEF Tangents1, Finites
<1> QED  BY <1>1, <1>2 DEF TangentArguments, Specials, RightAngle, Infinites

\* The reciprocal has the complement for its angle.
LEMMA OfTangents ==
  ASSUME NEW x \in Tangents1
  PROVE  /\ x \in Finites /\ Finite(x) /\ Abs(x.k) \in 0..24
         /\ Magnitude(x) = Number(Abs(x.k)) /\ SignedAs(Number(Abs(x.k)), x) = x
         /\ AboveOne(x) <=> Abs(x.k) > 12
         /\ Inverted(Magnitude(x)) = Number(24 - Abs(x.k))
         /\ Combined(RightAngle, -1, Number(24 - Abs(x.k))) = Number(Abs(x.k))
<1> DEFINE a == Abs(x.k)
<1>1. /\ x \in Finites /\ Finite(x) /\ a \in 0..24 /\ Magnitude(x) = Number(a)
      /\ SignedAs(Number(a), x) = x /\ x.kind # "inf"
  <2>1. x \in Finites /\ x.k \in -24..24  BY DEF Tangents1
  <2>2. a \in 0..24  BY <2>1 DEF Abs
  <2> QED  BY <2>1, <2>2, OfFinites
<1> HIDE DEF a
<1>2. AboveOne(x) <=> a > 12  BY <1>1 DEF AboveOne, a
<1>3. Inverted(Number(a)) = Number(24 - a)
  BY <1>1, OfNumbers DEF Inverted, RightAngle
<1>4. Combined(RightAngle, -1, Number(24 - a)) = Number(a)
  <2>1. 24 - a \in Int /\ 24 \in Int /\ -1 \in Int /\ 24 + (-1) * (24 - a) = a
    BY <1>1
  <2>2. Combined(24, -1, Number(24 - a)) = Number(24 + (-1) * (24 - a))
    BY <2>1, OfCombined
  <2> QED  BY <2>1, <2>2 DEF RightAngle
<1> QED  BY <1>1, <1>2, <1>3, <1>4 DEF a

\* Where the polynomial is meant for an angle it returns that angle.
LEMMA OfArcPoly ==
  ASSUME NEW k \in Int, NEW bound \in Nat, Abs(k) <= bound
  PROVE  ArcPoly(Number(k), bound) = Number(k)
<1>1. ~(Abs(k) > bound)
  <2>1. Abs(k) \in Int  BY DEF Abs
  <2> QED  BY <2>1
<1> QED  BY <1>1, OfNumbers DEF ArcPoly

\* Arc tangents by the reciprocal
LEMMA ArcTangentsRight ==
  ASSUME NEW x \in Tangents1 \cup Infinites
  PROVE  LET r == IF x.kind = "inf" THEN Number(x.k * RightAngle) ELSE x IN
         xatan(x) = r /\ xatanf(x) = r /\ atan_tdx_tdx(x) = r
<1>0. xatanf(x) = xatan(x)  BY DEF xatanf
<1>1. CASE x \in Tangents1
  <2> DEFINE a == Abs(x.k)
  <2>1. /\ x \in Finites /\ Finite(x) /\ a \in 0..24
        /\ Magnitude(x) = Number(a) /\ SignedAs(Number(a), x) = x
        /\ AboveOne(x) <=> a > 12
        /\ Inverted(Magnitude(x)) = Number(24 - a)
        /\ Combined(RightAngle, -1, Number(24 - a)) = Number(a)
    BY <1>1, OfTangents
  <2> HIDE DEF a
  <2>2. \A b \in {3, 12} : a > 12 /\ 24 - a <= b =>
          ArcPoly(Number(24 - a), b) = Number(24 - a)
    <3>1. 24 - a \in Int /\ Abs(24 - a) = 24 - a  BY <2>1 DEF Abs
    <3> QED  BY <3>1, OfArcPoly
  <2>3. \A b \in {3, 12} : a <= b => ArcPoly(Number(a), b) = Number(a)
    <3>1. a \in Int /\ Abs(a) = a  BY <2>1 DEF Abs
    <3> QED  BY <3>1, OfArcPoly
  <2>4. \A b \in {3, 12} :
          (IF a > 12 THEN 24 - a ELSE a) <= b =>
          ArcTangent(x, ArcPoly(IF AboveOne(x) THEN Inverted(Magnitude(x))
                                ELSE Magnitude(x), b)) = x
    <3>1. CASE a > 12  BY <3>1, <2>1, <2>2 DEF ArcTangent
    <3>2. CASE ~(a > 12)  BY <3>2, <2>1, <2>3 DEF ArcTangent
    <3> QED  BY <3>1, <3>2
  <2>5. xatan(x) = x
    <3>1. (IF a > 12 THEN 24 - a ELSE a) <= 12  BY <2>1
    <3> QED  BY <2>4, <3>1 DEF xatan
  <2>6. atan_tdx_tdx(x) = x
    <3>1. CASE x = MinusZero  BY <3>1 DEF atan_tdx_tdx
    <3>2. CASE x # MinusZero
      <4>1. x.kind = "number" /\ x # Undefined
        BY <2>1, <3>2, OfFinites, OfSpecials
      <4>2. HalfAngle(x) <=> a \in 4..23  BY <4>1 DEF HalfAngle, RightAngle, a
      <4>3. (IF a > 12 THEN 24 - a ELSE a) <= (IF HalfAngle(x) THEN 12 ELSE 3)
        BY <4>2, <2>1
      <4> QED  BY <2>4, <3>2, <4>1, <4>3 DEF atan_tdx_tdx, TdxArc
    <3> QED  BY <3>1, <3>2
  <2>7. x.kind # "inf"  BY <2>1, OfFinites
  <2> QED  BY <1>0, <2>5, <2>6, <2>7
<1>2. CASE x = Undefined
  <2>1. /\ ~AboveOne(x) /\ Magnitude(x) = Undefined /\ x.kind # "inf"
        /\ SignedAs(x, x) = x
    BY <1>2, OfSpecials, OfInfinites DEF AboveOne, Infinites, Abs
  <2>2. ArcPoly(x, 12) = x  BY <1>2, OfSpecials DEF ArcPoly
  <2> QED  BY <1>0, <1>2, <2>1, <2>2 DEF xatan, ArcTangent, atan_tdx_tdx
<1>3. CASE x \in {Infinity, MinusInfinity}
  <2>1. /\ AboveOne(x) /\ Inverted(Magnitude(x)) = Number(0) /\ x.kind = "inf"
        /\ x # MinusZero /\ x # Undefined
    <3>1. Magnitude(x) = Infinity
      BY <1>3, OfInfinites, OfSpecials DEF Infinites
    <3> QED  BY <1>3, <3>1, OfSpecials DEF AboveOne, Inverted
  <2>2. ArcPoly(Number(0), 12) = Number(0) /\ ArcPoly(Number(0), 3) = Number(0)
    BY OfArcPoly DEF Abs
  <2>3. Combined(24, -1, Number(0)) = Number(24)
    <3>1. Combined(24, -1, Number(0)) = Number(24 + (-1) * 0)  BY OfCombined
    <3>2. 24 + (-1) * 0 = 24  OBVIOUS
    <3> QED  BY <3>1, <3>2
  <2>4. SignedAs(Number(24), x) = Number(x.k * 24)
    <3>1. Infinity.k * 24 = 24 /\ MinusInfinity.k * 24 = -24  BY OfSpecials
    <3>2. Opposed(Number(24)) = Number(-24)  BY OfNumbers
    <3> QED  BY <1>3, <3>1, <3>2, OfSpecials DEF SignedAs
  <2>5. xatan(x) = Number(x.k * 24)
    BY <2>1, <2>2, <2>3, <2>4 DEF xatan, ArcTangent, RightAngle
  <2>6. atan_tdx_tdx(x) = Number(x.k * 24)
    <3>1. ~HalfAngle(x)  BY <2>1 DEF HalfAngle
    <3> QED  BY <2>1, <2>2, <2>3, <2>4, <3>1
             DEF atan_tdx_tdx, TdxArc, ArcTangent, RightAngle
  <2> QED  BY <1>0, <2>1, <2>5, <2>6 DEF RightAngle
<1> QED  BY <1>1, <1>2, <1>3 DEF Infinites

-----------------------------------------------------------------------------
(* atan2 *)

\* Operands that are numbers, not zero and not too large
Plain == [minus : BOOLEAN, size : (-MaxSize)..MaxSize]

\* The angle of y / x for a positive or negative x and a positive y, with a
\* straight angle less if x is negative
Less(a, minus) == a - (IF minus THEN 48 ELSE 0)

\* The quotient of two such operands is at most 1 once they are exchanged.
LEMMA OfPlain ==
  ASSUME NEW y \in Plain, NEW x \in Plain, NEW angle \in 0..23
  PROVE  /\ LET less == LessThan(x, y, angle)
                s == IF less THEN Arc(y, x, angle) - RightAngle
                     ELSE Arc(y, x, angle) IN
            /\ less \in BOOLEAN /\ s \in -12..12
            /\ less => y.size >= x.size
         /\ Arc(y, x, angle) \in 0..24
         /\ Divisible(x, y) /\ Divisible(y, x)
         /\ ~IsNaNSize(x) /\ ~IsNaNSize(y) /\ x.size > ZeroSize
<1>1. /\ x.size \in Int /\ y.size \in Int /\ MaxSize \in Int
      /\ -MaxSize <= x.size /\ x.size <= MaxSize
      /\ -MaxSize <= y.size /\ y.size <= MaxSize
  BY InverseAssumption DEF Plain
<1>2. ~IsNaNSize(x) /\ ~IsNaNSize(y) /\ x.size > ZeroSize
  BY <1>1 DEF IsNaNSize, NaNSize, ZeroSize
<1>3. Divisible(x, y) /\ Divisible(y, x)
  BY <1>1, <1>2 DEF Divisible, ZeroSize, InfSize
<1>4. LessThan(x, y, angle) <=>
        x.size < y.size \/ (x.size = y.size /\ angle > 12)
  BY <1>1, <1>2 DEF LessThan
<1>5. Arc(y, x, angle) \in 0..24  BY DEF Arc, RightAngle
<1> DEFINE less == LessThan(x, y, angle)
           s == IF less THEN Arc(y, x, angle) - RightAngle
                ELSE Arc(y, x, angle)
<1>6. less \in BOOLEAN  BY DEF LessThan
<1>7. less => y.size >= x.size  BY <1>1, <1>4
<1>8. s \in -12..12
  <2>1. CASE x.size < y.size
    <3>1. less /\ Arc(y, x, angle) = 24  BY <2>1, <1>1, <1>4 DEF Arc, RightAngle
    <3> HIDE DEF less
    <3> QED  BY <3>1 DEF RightAngle
  <2>2. CASE x.size = y.size
    <3>1. (less <=> angle > 12) /\ Arc(y, x, angle) = angle
      BY <2>2, <1>1, <1>4 DEF Arc
    <3> HIDE DEF less
    <3> QED  BY <3>1 DEF RightAngle
  <2>3. CASE y.size < x.size
    <3>1. ~less /\ Arc(y, x, angle) = 0  BY <2>3, <1>1, <1>4 DEF Arc
    <3> HIDE DEF less
    <3> QED  BY <3>1
  <2> QED  BY <1>1, <2>1, <2>2, <2>3
<1> HIDE DEF less, s
<1> QED  BY <1>2, <1>3, <1>5, <1>6, <1>7, <1>8 DEF less, s

\* What is put together of the quadrant and of the polynomial
LEMMA Quadrants ==
  ASSUME NEW a \in 0..24, NEW o \in BOOLEAN, NEW minus \in BOOLEAN
  PROVE  LET q == (IF minus THEN -2 ELSE 0) + (IF o THEN 1 ELSE 0)
             s == IF o THEN a - RightAngle ELSE a IN
         /\ Combined(q * RightAngle, 1, Number(s)) = Number(Less(a, minus))
         /\ s \in -12..12 => ArcPoly(Number(s), 12) = Number(s)
         /\ Number(s) \in Tangents1
<1> DEFINE q == (IF minus THEN -2 ELSE 0) + (IF o THEN 1 ELSE 0)
           s == IF o THEN a - RightAngle ELSE a
<1>1. /\ s \in -24..24 /\ q * RightAngle \in Int
      /\ q * RightAngle + 1 * s = Less(a, minus)
  BY DEF RightAngle, Less
<1> HIDE DEF q, s
<1>2. Combined(q * RightAngle, 1, Number(s)) = Number(q * RightAngle + 1 * s)
  <2>1. s \in Int /\ 1 \in Int  BY <1>1
  <2> QED  BY <1>1, <2>1, OfCombined
<1>3. s \in -12..12 => ArcPoly(Number(s), 12) = Number(s)
  <2>1. s \in -12..12 => s \in Int /\ Abs(s) <= 12  BY DEF Abs
  <2> QED  BY <2>1, OfArcPoly
<1>4. Number(s) \in Tangents1
  <2>1. s \in Int  BY <1>1
  <2> QED  BY <1>1, <2>1, OfNumbers DEF Tangents1, Finites
<1> QED  BY <1>1, <1>2, <1>3, <1>4 DEF q, s

\* atan2k and its variants in double-double arithmetic
LEMMA AtanKsRight ==
  ASSUME NEW y \in Plain, NEW x \in Plain, NEW angle \in 0..23,
         NEW minus \in BOOLEAN
  PROVE  LET r == Number(Less(Arc(y, x, angle), minus)) IN
         /\ AtanK(y, x, angle, minus, Divisible) = r
         /\ x.size # -MaxSize => AtanK(y, x, angle, minus, DDDivisible) = r
<1> DEFINE less == LessThan(x, y, angle)
           a == Arc(y, x, angle)
           q == (IF minus THEN -2 ELSE 0) + (IF less THEN 1 ELSE 0)
           s == IF less THEN a - RightAngle ELSE a
           r == Number(Less(a, minus))
<1>1. /\ less \in BOOLEAN /\ a \in 0..24 /\ s \in -12..12
      /\ Divisible(x, y) /\ Divisible(y, x)
      /\ less => y.size >= x.size
      /\ ~IsNaNSize(x) /\ ~IsNaNSize(y)
  BY OfPlain
<1> HIDE DEF less, a
<1>2. Combined(q * RightAngle, 1, ArcPoly(Number(s), 12)) = r
  BY <1>1, Quadrants
<1>3. AtanK(y, x, angle, minus, Divisible) =
        IF ~(IF less THEN Divisible(x, y) ELSE Divisible(y, x)) THEN Undefined
        ELSE Combined(q * RightAngle, 1, ArcPoly(Number(s), 12))
  BY DEF AtanK, less, a
<1>4. AtanK(y, x, angle, minus, DDDivisible) =
        IF ~(IF less THEN DDDivisible(x, y) ELSE DDDivisible(y, x))
        THEN Undefined
        ELSE Combined(q * RightAngle, 1, ArcPoly(Number(s), 12))
  BY DEF AtanK, less, a
<1>5. x.size # -MaxSize =>
        DDDivisible(y, x) /\ (less => DDDivisible(x, y))
  <2>1. /\ x.size \in Int /\ y.size \in Int /\ MaxSize \in Int
        /\ -MaxSize <= x.size /\ x.size <= MaxSize
        /\ -MaxSize <= y.size /\ y.size <= MaxSize
    BY InverseAssumption DEF Plain
  <2> QED  BY <1>1, <2>1 DEF DDDivisible
<1> HIDE DEF q, s, r
<1> QED  BY <1>1, <1>2, <1>3, <1>4, <1>5 DEF r, a

\* and in triple-double arithmetic
LEMMA TdxAtanKRight ==
  ASSUME NEW y \in Plain, NEW x \in Plain, NEW angle \in 0..23
  PROVE  TdxAtanK(y, x, angle) = Number(Less(Arc(y, x, angle), x.minus))
<1> DEFINE o == TdxExceeds(y, x, angle)
           a == Arc(y, x, angle)
           q == (IF x.minus THEN -2 ELSE 0) + (IF o THEN 1 ELSE 0)
           s == IF o THEN a - RightAngle ELSE a
           r == Number(Less(a, x.minus))
<1>1. /\ o \in BOOLEAN /\ a \in 0..24 /\ x.minus \in BOOLEAN
      /\ Divisible(x, y) /\ Divisible(y, x)
  BY OfPlain DEF TdxExceeds, Plain
<1> HIDE DEF o, a
<1>2. Combined(q * RightAngle, 1, Number(s)) = r /\ Number(s) \in Tangents1
  BY <1>1, Quadrants
<1> HIDE DEF r
<1>3. atan_tdx_tdx(Number(s)) = Number(s)
  <2>1. Number(s).kind # "inf"
    <3>1. Number(s) \in Finites  BY <1>2, OfTangents
    <3> QED  BY <3>1, OfFinites
  <2> QED  BY <1>2, <2>1, ArcTangentsRight
<1>4. TdxAtanK(y, x, angle) =
        IF ~(IF o THEN Divisible(x, y) ELSE Divisible(y, x)) THEN Undefined
        ELSE Combined(q * RightAngle, 1, atan_tdx_tdx(Number(s)))
  BY DEF TdxAtanK, o, a
<1> QED  BY <1>1, <1>2, <1>3, <1>4 DEF r, a

\* What is selected instead of the angle is what C99 says.
LEMMA Atan2Right ==
  ASSUME NEW y \in AtanOperands, NEW x \in AtanOperands, NEW angle \in 1..23,
         NEW r,
         y \in Plain /\ x \in Plain =>
           r = Number(Less(Arc(y, x, angle), x.minus))
  PROVE  Atan2(y, x, r) = Atan2C99(y, x, angle)
<1> DEFINE size ==
             CASE y.size = ZeroSize -> IF x.minus THEN Straight ELSE 0
               [] y.size = InfSize /\ x.size = InfSize ->
                    IF x.minus THEN 36 ELSE 12
               [] y.size = InfSize /\ ~(x.size = InfSize) -> RightAngle
               [] /\ ~(y.size = ZeroSize) /\ ~(y.size = InfSize)
                  /\ x.size = ZeroSize ->
                    RightAngle
               [] OTHER -> IF x.minus THEN Straight - Arc(y, x, angle)
                                      ELSE Arc(y, x, angle)
<1>1. Atan2C99(y, x, angle) =
        IF IsNaNSize(y) \/ IsNaNSize(x) THEN Undefined
        ELSE IF y.minus THEN Opposed(Number(size)) ELSE Number(size)
  BY DEF Atan2C99
<1>2. /\ x.size \in Int /\ y.size \in Int /\ MaxSize \in Int /\ MaxSize >= 1
      /\ ZeroSize = -MaxSize - 1 /\ InfSize = MaxSize + 1
      /\ NaNSize = MaxSize + 2
      /\ ZeroSize <= x.size /\ x.size <= NaNSize
      /\ ZeroSize <= y.size /\ y.size <= NaNSize
      /\ x.minus \in BOOLEAN /\ y.minus \in BOOLEAN
  BY InverseAssumption DEF AtanOperands, ZeroSize, InfSize, NaNSize
<1>3. ASSUME ~IsNaNSize(y), ~IsNaNSize(x)
      PROVE  Selected(y, x, r) = Number(size)
  <2>1. /\ y.size # NaNSize /\ x.size # NaNSize  BY <1>3 DEF IsNaNSize
  <2>2. CASE y.size = ZeroSize
    <3>1. y.size # InfSize  BY <1>2, <2>2
    <3> QED  BY <2>2, <3>1 DEF Selected
  <2>3. CASE y.size = InfSize
    <3>1. y.size # ZeroSize  BY <1>2, <2>3
    <3>2. CASE x.size = InfSize
      <4>1. Infinitely(x, RightAngle \div 2) = IF x.minus THEN 36 ELSE 12
        BY <1>2, <3>2 DEF Infinitely, RightAngle
      <4> QED  BY <2>3, <3>1, <3>2, <4>1 DEF Selected
    <3>3. CASE x.size # InfSize
      BY <2>3, <3>1, <3>3 DEF Selected, Infinitely
    <3> QED  BY <3>2, <3>3
  <2>4. CASE y.size # ZeroSize /\ y.size # InfSize /\ x.size = ZeroSize
    <3>1. x.size # InfSize  BY <1>2, <2>4
    <3> QED  BY <2>4, <3>1 DEF Selected, Infinitely
  <2>5. CASE y.size # ZeroSize /\ y.size # InfSize /\ x.size = InfSize
    <3>1. y.size < x.size /\ y.size # x.size /\ x.size # ZeroSize
      BY <1>2, <2>1, <2>5
    <3>2. Arc(y, x, angle) = 0  BY <3>1 DEF Arc
    <3>3. Infinitely(x, RightAngle) = IF x.minus THEN 48 ELSE 0
      BY <2>5, <1>2 DEF Infinitely, RightAngle
    <3>4. (IF x.minus THEN Straight - 0 ELSE 0) = IF x.minus THEN 48 ELSE 0
      BY DEF Straight
    <3>5. size = IF x.minus THEN Straight - Arc(y, x, angle)
                 ELSE Arc(y, x, angle)
      BY <2>5, <3>1
    <3> QED  BY <2>5, <3>1, <3>2, <3>3, <3>4, <3>5 DEF Selected
  <2>6. CASE /\ y.size # ZeroSize /\ y.size # InfSize
             /\ x.size # ZeroSize /\ x.size # InfSize
    <3>1. y \in Plain /\ x \in Plain
      <4>1. x.size \in (-MaxSize)..MaxSize /\ y.size \in (-MaxSize)..MaxSize
        BY <1>2, <2>1, <2>6
      <4>2. y = [minus |-> y.minus, size |-> y.size]
            /\ x = [minus |-> x.minus, size |-> x.size]
        BY DEF AtanOperands
      <4> QED  BY <1>2, <4>1, <4>2 DEF Plain
    <3>2. Arc(y, x, angle) \in 0..24
      BY DEF Arc, RightAngle
    <3>3. Selected(y, x, r) = IF x.minus THEN Opposed(r) ELSE r
      BY <2>6 DEF Selected
    <3>4. size = IF x.minus THEN Straight - Arc(y, x, angle)
                 ELSE Arc(y, x, angle)
      BY <2>6
    <3> HIDE DEF size
    <3>5. CASE x.minus
      <4> DEFINE j == Arc(y, x, angle) - 48
      <4>1. j \in Int /\ j # 0 /\ -j = Straight - Arc(y, x, angle)
        BY <3>2 DEF Straight
      <4>2. r = Number(j)  BY <3>1, <3>5 DEF Less
      <4> HIDE DEF j
      <4>3. Opposed(Number(j)) = Number(-j)  BY <4>1, OfNumbers
      <4> QED  BY <3>3, <3>4, <3>5, <4>1, <4>2, <4>3
    <3>6. CASE ~x.minus
      <4>1. Arc(y, x, angle) - 0 = Arc(y, x, angle)  BY <3>2
      <4>2. r = Number(Arc(y, x, angle) - 0)  BY <3>1, <3>6 DEF Less
      <4> QED  BY <3>3, <3>4, <3>6, <4>1, <4>2
    <3> QED  BY <3>5, <3>6
  <2> QED  BY <2>2, <2>3, <2>4, <2>5, <2>6
<1> HIDE DEF size
<1> QED  BY <1>1, <1>3 DEF Atan2

\* Both operands may be multiplied by 2^53 (2^24) first.
LEMMA ScaledUpRight ==
  ASSUME NEW y0 \in AtanOperands, NEW x0 \in AtanOperands, NEW angle \in 1..23
  PROVE  LET y == ScaledUp(y0, x0)
             x == ScaledUp(x0, x0) IN
         /\ y \in AtanOperands /\ x \in AtanOperands
         /\ x.size # -MaxSize
         /\ x.minus = x0.minus
         /\ Atan2C99(y, x, angle) = Atan2C99(y0, x0, angle)
<1>1. /\ x0.size \in Int /\ y0.size \in Int /\ MaxSize \in Int /\ MaxSize >= 1
      /\ ZeroSize = -MaxSize - 1 /\ InfSize = MaxSize + 1
      /\ NaNSize = MaxSize + 2
      /\ ZeroSize <= x0.size /\ x0.size <= NaNSize
      /\ ZeroSize <= y0.size /\ y0.size <= NaNSize
      /\ x0.minus \in BOOLEAN /\ y0.minus \in BOOLEAN
  BY InverseAssumption DEF AtanOperands, ZeroSize, InfSize, NaNSize
<1>2. ASSUME NEW v \in AtanOperands
      PROVE  /\ Raised(v) \in AtanOperands /\ Raised(v).minus = v.minus
             /\ Raised(v).size = IF v.size \in (-MaxSize)..MaxSize
                                 THEN v.size + 1 ELSE v.size
  <2>1. CASE v.size \in (-MaxSize)..MaxSize
    <3>1. Raised(v) = [v EXCEPT !.size = v.size + 1]  BY <2>1 DEF Raised
    <3>2. v.size + 1 \in ZeroSize..NaNSize  BY <2>1, <1>1
    <3> QED  BY <2>1, <3>1, <3>2 DEF AtanOperands
  <2>2. CASE v.size \notin (-MaxSize)..MaxSize  BY <2>2 DEF Raised
  <2> QED  BY <2>1, <2>2
<1>3. CASE x0.size > -MaxSize
  <2>1. ScaledUp(y0, x0) = y0 /\ ScaledUp(x0, x0) = x0
    BY <1>1, <1>3 DEF ScaledUp
  <2>2. x0.size # -MaxSize  BY <1>1, <1>3
  <2> QED  BY <2>1, <2>2
<1>4. CASE x0.size <= -MaxSize
  <2> DEFINE y == Raised(y0)
             x == Raised(x0)
  <2>1. ScaledUp(y0, x0) = y /\ ScaledUp(x0, x0) = x
    BY <1>4 DEF ScaledUp
  <2>2. /\ y \in AtanOperands /\ x \in AtanOperands
        /\ x.minus = x0.minus /\ y.minus = y0.minus
        /\ x.size = IF x0.size \in (-MaxSize)..MaxSize
                    THEN x0.size + 1 ELSE x0.size
        /\ y.size = IF y0.size \in (-MaxSize)..MaxSize
                    THEN y0.size + 1 ELSE y0.size
    BY <1>2
  <2> HIDE DEF x, y
  <2>3. x.size # -MaxSize  BY <1>1, <1>4, <2>2
  <2>4. /\ (IsNaNSize(y) <=> IsNaNSize(y0)) /\ (IsNaNSize(x) <=> IsNaNSize(x0))
    BY <1>1, <2>2 DEF IsNaNSize
  <2>5. /\ (y.size = ZeroSize <=> y0.size = ZeroSize)
        /\ (x.size = ZeroSize <=> x0.size = ZeroSize)
        /\ x.size # InfSize /\ x0.size # InfSize
        /\ y0.size = InfSize => y.size = InfSize
        /\ y.size = InfSize /\ y0.size # InfSize => y0.size = MaxSize
    BY <1>1, <1>4, <2>2
  <2>6. Atan2C99(y, x, angle) = Atan2C99(y0, x0, angle)
    <3>1. CASE y0.size = ZeroSize \/ y0.size = InfSize \/ x0.size = ZeroSize
               \/ IsNaNSize(y0) \/ IsNaNSize(x0)
      <4>1. CASE IsNaNSize(y0) \/ IsNaNSize(x0)  BY <2>4, <4>1 DEF Atan2C99
      <4>2. CASE y0.size = ZeroSize
        <5>1. y0.size # InfSize /\ y.size # InfSize  BY <1>1, <4>2, <2>5
        <5> QED  BY <2>2, <2>4, <2>5, <4>2, <5>1 DEF Atan2C99
      <4>3. CASE y0.size = InfSize
        <5>1. y0.size # ZeroSize /\ y.size # ZeroSize  BY <1>1, <4>3, <2>5
        <5> QED  BY <2>2, <2>4, <2>5, <4>3, <5>1 DEF Atan2C99
      <4>4. CASE x0.size = ZeroSize /\ y0.size # ZeroSize
        BY <2>2, <2>4, <2>5, <4>4 DEF Atan2C99
      <4> QED  BY <3>1, <4>1, <4>2, <4>3, <4>4
    <3>2. CASE /\ y0.size # ZeroSize /\ y0.size # InfSize /\ x0.size # ZeroSize
               /\ ~IsNaNSize(y0) /\ ~IsNaNSize(x0)
      <4>1. /\ x0.size = -MaxSize /\ x.size = 1 - MaxSize
            /\ y0.size \in (-MaxSize)..MaxSize /\ y.size = y0.size + 1
        BY <1>1, <1>4, <2>2, <2>5, <3>2 DEF IsNaNSize
      <4>2. Arc(y, x, angle) = Arc(y0, x0, angle)
        <5>1. /\ y.size = x.size <=> y0.size = x0.size
              /\ y.size < x.size <=> y0.size < x0.size
          BY <1>1, <4>1
        <5> QED  BY <5>1 DEF Arc
      <4>3. CASE y.size # InfSize
        BY <2>2, <2>4, <2>5, <3>2, <4>2, <4>3 DEF Atan2C99
      <4>4. CASE y.size = InfSize
        <5>1. Arc(y0, x0, angle) = RightAngle
          BY <1>1, <4>1, <4>4 DEF Arc
        <5>2. Straight - RightAngle = RightAngle  BY DEF Straight, RightAngle
        <5> QED  BY <2>2, <2>4, <2>5, <3>2, <4>4, <5>1, <5>2 DEF Atan2C99
      <4> QED  BY <4>3, <4>4
    <3> QED  BY <3>1, <3>2
  <2> QED  BY <2>1, <2>2, <2>3, <2>6
<1> QED  BY <1>1, <1>3, <1>4

\* atan2 of every precision
LEMMA QuotientsRight ==
  ASSUME NEW y \in AtanOperands, NEW x \in AtanOperands, NEW angle \in 1..23
  PROVE  LET r == Atan2C99(y, x, angle) IN
         /\ xatan2(y, x, angle) = r /\ xatan2_u1(y, x, angle) = r
         /\ xatan2f(y, x, angle) = r /\ xatan2f_u1(y, x, angle) = r
         /\ xatan2q_u10(y, x, angle) = r
<1>0. angle \in 0..23  OBVIOUS
<1>1. xatan2(y, x, angle) = Atan2C99(y, x, angle)
  <2>1. y \in Plain /\ x \in Plain =>
          atan2k(y, x, angle) = Number(Less(Arc(y, x, angle), x.minus))
    BY <1>0, AtanKsRight DEF atan2k, Plain
  <2> QED  BY <2>1, Atan2Right DEF xatan2
<1>2. xatan2f(y, x, angle) = xatan2(y, x, angle)
  BY DEF xatan2f, xatan2, atan2k, atan2kf
<1>3. xatan2q_u10(y, x, angle) = Atan2C99(y, x, angle)
  <2>1. y \in Plain /\ x \in Plain =>
          TdxAtanK(y, x, angle) = Number(Less(Arc(y, x, angle), x.minus))
    BY <1>0, TdxAtanKRight
  <2> QED  BY <2>1, Atan2Right DEF xatan2q_u10, atan2_tdx_tdx_tdx
<1> DEFINE y1 == ScaledUp(y, x)
           x1 == ScaledUp(x, x)
<1>4. /\ y1 \in AtanOperands /\ x1 \in AtanOperands /\ x1.size # -MaxSize
      /\ Atan2C99(y1, x1, angle) = Atan2C99(y, x, angle)
  BY ScaledUpRight
<1>5. xatan2_u1(y, x, angle) = Atan2(y1, x1, atan2k_u1(y1, x1, angle))
  BY DEF xatan2_u1
<1>6. xatan2f_u1(y, x, angle) = Atan2(y1, x1, atan2kf_u1(y1, x1, angle))
  BY DEF xatan2f_u1
<1> HIDE DEF y1, x1
<1>7. y1 \in Plain /\ x1 \in Plain =>
        /\ atan2k_u1(y1, x1, angle) = Number(Less(Arc(y1, x1, angle), x1.minus))
        /\ atan2kf_u1(y1, x1, angle) =
             Number(Less(Arc(y1, x1, angle), x1.minus))
  <2> SUFFICES ASSUME y1 \in Plain, x1 \in Plain
               PROVE  /\ atan2k_u1(y1, x1, angle) =
                           Number(Less(Arc(y1, x1, angle), x1.minus))
                      /\ atan2kf_u1(y1, x1, angle) =
                           Number(Less(Arc(y1, x1, angle), x1.minus))
    OBVIOUS
  <2>1. x1.minus \in BOOLEAN /\ x1.size > ZeroSize
    BY <1>0, OfPlain DEF Plain
  <2>2. (x1.minus /\ x1.size > ZeroSize) = x1.minus  BY <2>1
  <2>3. AtanK(y1, x1, angle, x1.minus, DDDivisible) =
          Number(Less(Arc(y1, x1, angle), x1.minus))
    BY <1>0, <1>4, <2>1, AtanKsRight
  <2> QED  BY <2>2, <2>3 DEF atan2k_u1, atan2kf_u1
<1> QED  BY <1>1, <1>2, <1>3, <1>4, <1>5, <1>6, <1>7, Atan2Right

\* An arc tangent as that of a quotient by 1
LEMMA ArcTangentsByAtan2 ==
  ASSUME NEW x \in TangentArguments
  PROVE  LET r == IF x.kind = "inf" THEN Number(x.k * RightAngle) ELSE x IN
         xatan_u1(x) = r /\ xatanf_u1(x) = r
<1> DEFINE n == Sized(Magnitude(x))
           d == Sized(Number(0))
           a == Abs(x.k)
<1>1. d = [minus |-> FALSE, size |-> 0]
  <2>1. /\ Number(0) # Undefined /\ Finite(Number(0))
        /\ HasMinus(Number(0)) = FALSE
    BY OfNumbers
  <2> QED  BY <2>1 DEF Sized
<1> HIDE DEF d
<1>2. d \in Plain /\ ~d.minus /\ d.minus \in BOOLEAN /\ d.size = 0
      /\ d.size # -MaxSize
  <2>1. /\ 0 \in (-MaxSize)..MaxSize /\ 0 # -MaxSize /\ FALSE \in BOOLEAN
    BY InverseAssumption
  <2>2. ~d.minus /\ d.minus \in BOOLEAN /\ d.size = 0  BY <1>1
  <2>3. d \in Plain  BY <1>1, <2>1 DEF Plain
  <2> QED  BY <2>1, <2>2, <2>3
<1> HIDE DEF n
<1>3. CASE x \in Tangents1 /\ x.k \in -23..23
  <2>1. /\ a \in 0..23 /\ SignedAs(Number(a), x) = x /\ x.kind # "inf"
        /\ Magnitude(x) = Number(a)
    <3>1. /\ x \in Finites /\ SignedAs(Number(a), x) = x
          /\ Magnitude(x) = Number(a)
      BY <1>3, OfTangents
    <3>2. a \in 0..23  BY <1>3 DEF Abs
    <3> QED  BY <3>1, <3>2, OfFinites
  <2> HIDE DEF a
  <2>2. n = [minus |-> FALSE, size |-> 0]
    <3>1. a \in Int /\ ~(a < 0)  BY <2>1
    <3>2. /\ Number(a) # Undefined /\ Finite(Number(a))
          /\ HasMinus(Number(a)) = FALSE
      BY <3>1, OfNumbers
    <3> QED  BY <2>1, <3>2 DEF n, Sized
  <2>3. n \in Plain /\ n.size = d.size
    BY <1>1, <1>2, <2>2, InverseAssumption DEF Plain
  <2>4. Arc(n, d, a) = a  BY <2>3 DEF Arc
  <2>5. Less(a, d.minus) = a /\ d.minus \in BOOLEAN
    <3>1. (IF d.minus THEN 48 ELSE 0) = 0  BY <1>2
    <3> QED  BY <1>2, <2>1, <3>1 DEF Less
  <2>6. /\ atan2k_u1(n, d, a) = Number(a)
        /\ atan2kf_u1(n, d, a) = Number(a)
    <3>1. AtanK(n, d, a, d.minus, DDDivisible) = Number(a)
      BY <1>2, <2>1, <2>3, <2>4, <2>5, AtanKsRight
    <3>2. (d.minus /\ d.size > ZeroSize) = d.minus  BY <1>2
    <3> QED  BY <3>1, <3>2 DEF atan2k_u1, atan2kf_u1
  <2>7. xatan_u1(x) = x /\ xatanf_u1(x) = x
    BY <2>1, <2>6 DEF xatan_u1, xatanf_u1, AtanU1, n, d, a
  <2> QED  BY <2>1, <2>7
<1>4. CASE x = Undefined
  <2>1. /\ x.kind # "inf" /\ SignedAs(Undefined, x) = Undefined
        /\ Magnitude(x) = Undefined
    BY <1>4, OfSpecials, OfInfinites DEF Infinites
  <2>2. n.size = NaNSize  BY <2>1 DEF n, Sized
  <2>3. /\ atan2k_u1(n, d, a) = Undefined
        /\ atan2kf_u1(n, d, a) = Undefined
    BY <2>2 DEF atan2k_u1, atan2kf_u1, AtanK, DDDivisible, LessThan, IsNaNSize
  <2> QED  BY <1>4, <2>1, <2>3 DEF xatan_u1, xatanf_u1, AtanU1, n, d, a
<1>5. CASE x \in {Infinity, MinusInfinity}
  <2>1. x.kind = "inf"  BY <1>5, OfSpecials
  <2>2. SignedAs(Number(24), x) = Number(x.k * 24)
    <3>1. Infinity.k * 24 = 24 /\ MinusInfinity.k * 24 = -24  BY OfSpecials
    <3>2. Opposed(Number(24)) = Number(-24)  BY OfNumbers
    <3> QED  BY <1>5, <3>1, <3>2, OfSpecials DEF SignedAs
  <2> QED  BY <2>1, <2>2 DEF xatan_u1, xatanf_u1, AtanU1, RightAngle
<1> QED  BY <1>3, <1>4, <1>5, TangentArgumentsAre DEF Infinites

\* The functions of one argument and of two, by name
LEMMA InverseFamilies ==
  ASSUME NEW c
  PROVE  /\ c.fn \in ArcSines /\ c.x \in SineArguments =>
              InverseResult(c) = IF Finite(c.x) THEN c.x ELSE Undefined
         /\ c.fn \in ArcCosines /\ c.x \in SineArguments =>
              InverseResult(c) = IF Finite(c.x) THEN Number(RightAngle - c.x.k)
                                 ELSE Undefined
         /\ c.fn \in ArcTangents /\ c.x \in TangentArguments =>
              InverseResult(c) = IF c.x.kind = "inf"
                                 THEN Number(c.x.k * RightAngle) ELSE c.x
         /\ (/\ c.fn \in Atan2s /\ c.x \in AtanOperands
             /\ c.y \in AtanOperands /\ c.angle \in 1..(RightAngle - 1)) =>
              InverseResult(c) = Atan2C99(c.y, c.x, c.angle)
<1> DEFINE x == c.x
<1>1. ASSUME c.fn \in ArcSines, x \in SineArguments
      PROVE  InverseResult(c) = IF Finite(x) THEN x ELSE Undefined
  <2> DEFINE r == IF Finite(x) THEN x ELSE Undefined
  <2>1. /\ xasin(x) = r /\ xasin_u1(x) = r /\ xasinf(x) = r
        /\ xasinf_u1(x) = r /\ xasinq_u10(x) = r
    BY <1>1, ArcSinesRight DEF xasinq_u10
  <2> HIDE DEF r
  <2> QED  BY <1>1, <2>1, Zenon DEF InverseResult, ArcSines, r
<1>2. ASSUME c.fn \in ArcCosines, x \in SineArguments
      PROVE  InverseResult(c) = IF Finite(x) THEN Number(RightAngle - x.k)
                                ELSE Undefined
  <2> DEFINE r == IF Finite(x) THEN Number(RightAngle - x.k) ELSE Undefined
  <2>1. /\ xacos(x) = r /\ xacos_u1(x) = r /\ xacosf(x) = r
        /\ xacosf_u1(x) = r /\ xacosq_u10(x) = r
    BY <1>2, ArcCosinesRight DEF xacosq_u10
  <2> HIDE DEF r
  <2> QED  BY <1>2, <2>1, Zenon DEF InverseResult, ArcCosines, r
<1>3. ASSUME c.fn \in ArcTangents, x \in TangentArguments
      PROVE  InverseResult(c) = IF x.kind = "inf" THEN Number(x.k * RightAngle)
                                ELSE x
  <2> DEFINE r == IF x.kind = "inf" THEN Number(x.k * RightAngle) ELSE x
  <2>1. /\ xatan(x) = r /\ xatan_u1(x) = r /\ xatanf(x) = r
        /\ xatanf_u1(x) = r /\ xatanq_u10(x) = r
    BY <1>3, ArcTangentsRight, ArcTangentsByAtan2, TangentArgumentsAre
       DEF xatanq_u10
  <2> HIDE DEF r
  <2> QED  BY <1>3, <2>1, Zenon DEF InverseResult, ArcTangents, r
<1>4. ASSUME c.fn \in Atan2s, x \in AtanOperands, c.y \in AtanOperands,
             c.angle \in 1..(RightAngle - 1)
      PROVE  InverseResult(c) = Atan2C99(c.y, x, c.angle)
  <2> DEFINE r == Atan2C99(c.y, x, c.angle)
  <2>0. c.angle \in 1..23  BY <1>4 DEF RightAngle
  <2>1. /\ xatan2(c.y, x, c.angle) = r /\ xatan2_u1(c.y, x, c.angle) = r
        /\ xatan2f(c.y, x, c.angle) = r /\ xatan2f_u1(c.y, x, c.angle) = r
        /\ xatan2q_u10(c.y, x, c.angle) = r
    BY <1>4, <2>0, QuotientsRight
  <2> HIDE DEF r
  <2> QED  BY <1>4, <2>1, Zenon DEF InverseResult, Atan2s, r
<1> QED  BY <1>1, <1>2, <1>3, <1>4

\* No name is in two families.
LEMMA FamiliesApart ==
  /\ ArcSines \cap ArcCosines = {} /\ ArcSines \cap ArcTangents = {}
  /\ ArcSines \cap Atan2s = {} /\ ArcCosines \cap ArcTangents = {}
  /\ ArcCosines \cap Atan2s = {} /\ ArcTangents \cap Atan2s = {}
BY DEF ArcSines, ArcCosines, ArcTangents, Atan2s

\* The call of an inverse function, and its result once there is one
InverseState ==
  /\ icall \in InverseCalls \cup Quotients
  /\ iret \in {<<>>, <<InverseResult(icall)>>}

\* The inverse functions return the angle their argument is named by, or what
\* C99 says, for all their arguments.
THEOREM AnglesAreRight == InverseSpec => []AnglesRight
<1>1. InverseInit => InverseState  BY DEF InverseInit, InverseState
<1>2. InverseState /\ [InverseCall]_invvars => InverseState'
  <2> SUFFICES ASSUME InverseState, [InverseCall]_invvars  PROVE InverseState'
    OBVIOUS
  <2>1. CASE InverseCall  BY <2>1 DEF InverseState, InverseCall
  <2>2. CASE UNCHANGED invvars  BY <2>2 DEF InverseState, invvars
  <2> QED  BY <2>1, <2>2
<1>3. InverseState => AnglesRight
  <2> SUFFICES ASSUME InverseState, NEW i \in DOMAIN iret
               PROVE  CASE icall.fn \in ArcSines ->
                              iret[i] = IF Finite(icall.x) THEN icall.x
                                        ELSE Undefined
                        [] icall.fn \in ArcCosines ->
                              iret[i] = IF Finite(icall.x)
                                        THEN Number(RightAngle - icall.x.k)
                                        ELSE Undefined
                        [] icall.fn \in ArcTangents ->
                              iret[i] = IF icall.x.kind = "inf"
                                        THEN Number(icall.x.k * RightAngle)
                                        ELSE icall.x
                        [] OTHER ->
                              iret[i] = Atan2C99(icall.y, icall.x, icall.angle)
    BY DEF AnglesRight
  <2>1. iret[i] = InverseResult(icall)
    <3>1. iret # <<>>  OBVIOUS
    <3>2. iret = <<InverseResult(icall)>>  BY <3>1 DEF InverseState
    <3> QED  BY <3>2
  <2>2. \/ icall.fn \in ArcSines \cup ArcCosines /\ icall.x \in SineArguments
        \/ icall.fn \in ArcTangents /\ icall.x \in TangentArguments
        \/ /\ icall.fn \in Atan2s /\ icall.x \in AtanOperands
           /\ icall.y \in AtanOperands /\ icall.angle \in 1..(RightAngle - 1)
    BY InverseCallsAssumption DEF InverseState
  <2>3. CASE icall.fn \in ArcSines
    BY <2>1, <2>2, <2>3, FamiliesApart, InverseFamilies, Zenon
  <2>4. CASE icall.fn \in ArcCosines
    BY <2>1, <2>2, <2>4, FamiliesApart, InverseFamilies, Zenon
  <2>5. CASE icall.fn \in ArcTangents
    BY <2>1, <2>2, <2>5, FamiliesApart, InverseFamilies, Zenon
  <2>6. CASE icall.fn \in Atan2s
    BY <2>1, <2>2, <2>6, FamiliesApart, InverseFamilies, Zenon
  <2> QED  BY <2>2, <2>3, <2>4, <2>5, <2>6, Zenon
<1> QED  BY <1>1, <1>2, <1>3, PTL DEF InverseSpec

-----------------------------------------------------------------------------
(* Exponential functions, logarithms, powers and cube roots *)

\* The limits, written out
LEMMA Limits ==
  /\ MaxExpo \in Int /\ MaxExpo >= 7 /\ Precision \in Int /\ 3 <= Precision
  /\ Precision <= MaxExpo - 2 /\ 8 * Precision <= 5 * MaxExpo + 21
  /\ MaxInt \in Int /\ MaxInt >= 4 * MaxExpo
  /\ MaxLog \in Int /\ MaxLog = 8 * MaxExpo + 7 /\ Ln2 = 8
  /\ LeastNormal \in Int /\ LeastNormal = 8 - 8 * MaxExpo
  /\ Underflow \in Int /\ Underflow = 8 - 8 * MaxExpo - 8 * Precision
<1>1. /\ MaxExpo \in Int /\ Precision \in Int /\ 3 <= Precision
      /\ Precision <= MaxExpo - 2 /\ 8 * Precision <= 5 * MaxExpo + 21
      /\ MaxInt \in Int /\ MaxInt >= 4 * MaxExpo /\ MaxExpo >= 0
  BY ExpAssumption
<1>2. MaxExpo >= 7
  <2>1. MaxExpo \in Nat /\ (MaxExpo + 1) % 8 = 0  BY ExpAssumption
  <2> QED  BY <2>1
<1> QED  BY <1>1, <1>2 DEF MaxLog, Ln2, LeastNormal, Underflow

\* The logarithm of zero is told from all the others.
LEMMA NoughtIs ==
  /\ Nought = MinusInfinity /\ Nought # Infinity /\ Nought # Undefined
  /\ Nought # Spoilt /\ Nought # MinusZero /\ Infinity # Undefined
  /\ Infinity # Spoilt /\ Undefined # Spoilt
  /\ Nought.kind = "inf" /\ Nought.kind \notin {"nan", "spoilt", "number"}
  /\ Infinity.kind \notin {"nan", "spoilt", "number"}
  /\ \A k \in Int : Nought # Number(k) /\ Infinity # Number(k)
  /\ ~Finite(Nought)
BY OfSpecials, OfNumbers DEF Nought

\* A number out of range is infinite, or zero.
LEMMA OfBounded ==
  ASSUME NEW k \in Int
  PROVE  /\ k > MaxLog => Bounded(k) = Infinity
         /\ k <= Underflow => Bounded(k) = Nought
         /\ k > Underflow /\ k <= MaxLog => Bounded(k) = Number(k)
         /\ Bounded(k) \in {Infinity, Nought, Number(k)}
         /\ Bounded(k) # Undefined /\ Bounded(k) # Spoilt
<1>1. ~(k > MaxLog /\ k <= Underflow)  BY Limits
<1>2. k <= Underflow <=> ~(k > Underflow)  BY Limits
<1>3. k <= MaxLog <=> ~(k > MaxLog)  BY Limits
<1> QED  BY <1>1, <1>2, <1>3, OfNumbers, NoughtIs DEF Bounded

\* Multiplication by a power of 2 that can be written as a number
LEMMA TimesPow2Is ==
  /\ \A k \in Int : \A e \in (1 - MaxExpo)..MaxExpo :
       TimesPow2(Number(k), e) = Bounded(k + 8 * e)
  /\ \A k \in Int : TimesPow2(Number(k), -MaxExpo) = Nought
  /\ \A k \in Int : TimesPow2(Number(k), MaxExpo + 1) = Infinity
  /\ \A e \in (1 - MaxExpo)..(MaxExpo + 1) : TimesPow2(Infinity, e) = Infinity
  /\ \A e \in (-MaxExpo)..MaxExpo : TimesPow2(Nought, e) = Nought
  /\ \A e \in Int : TimesPow2(Undefined, e) = Undefined
<1>1. ASSUME NEW k \in Int, NEW e \in (1 - MaxExpo)..MaxExpo
      PROVE  TimesPow2(Number(k), e) = Bounded(k + 8 * e)
  <2>1. /\ e \in (-MaxExpo)..(MaxExpo + 1) /\ e # -MaxExpo /\ e # MaxExpo + 1
    BY Limits
  <2>2. Number(k).kind = "number" /\ Number(k).k = k  BY OfNumbers
  <2> QED  BY <2>1, <2>2 DEF TimesPow2, Ln2
<1>2. ASSUME NEW k \in Int
      PROVE  /\ TimesPow2(Number(k), -MaxExpo) = Nought
             /\ TimesPow2(Number(k), MaxExpo + 1) = Infinity
  <2>1. /\ -MaxExpo \in (-MaxExpo)..(MaxExpo + 1)
        /\ MaxExpo + 1 \in (-MaxExpo)..(MaxExpo + 1)
        /\ MaxExpo + 1 # -MaxExpo
    BY Limits
  <2>2. /\ Number(k).kind = "number" /\ Number(k) # Infinity
        /\ Number(k) # Nought
    BY OfNumbers, NoughtIs
  <2> QED  BY <2>1, <2>2 DEF TimesPow2
<1>3. ASSUME NEW e \in (1 - MaxExpo)..(MaxExpo + 1)
      PROVE  TimesPow2(Infinity, e) = Infinity
  <2>1. e \in (-MaxExpo)..(MaxExpo + 1) /\ e # -MaxExpo  BY Limits
  <2> QED  BY <2>1, NoughtIs DEF TimesPow2
<1>4. ASSUME NEW e \in (-MaxExpo)..MaxExpo
      PROVE  TimesPow2(Nought, e) = Nought
  <2>1. e \in (-MaxExpo)..(MaxExpo + 1) /\ e # MaxExpo + 1  BY Limits
  <2> QED  BY <2>1, NoughtIs DEF TimesPow2
<1>5. ASSUME NEW e \in Int  PROVE TimesPow2(Undefined, e) = Undefined
  <2>1. Undefined.kind \in {"nan", "spoilt"}  BY OfSpecials
  <2> QED  BY <2>1 DEF TimesPow2
<1> QED  BY <1>1, <1>2, <1>3, <1>4, <1>5

\* A number that is out of range on the way up is so at the end, and one that
\* vanishes on the way down.
LEMMA Climbs ==
  ASSUME NEW k \in Int, k > Underflow, NEW e \in 0..MaxExpo
  PROVE  TimesPow2(Bounded(k), e) = Bounded(k + 8 * e)
<1>1. e \in (1 - MaxExpo)..MaxExpo /\ e \in (1 - MaxExpo)..(MaxExpo + 1)
  BY Limits
<1>2. CASE k <= MaxLog  BY <1>1, <1>2, OfBounded, TimesPow2Is
<1>3. CASE k > MaxLog
  <2>1. k + 8 * e \in Int /\ k + 8 * e > MaxLog  BY <1>3, Limits
  <2> QED  BY <1>1, <1>3, <2>1, OfBounded, TimesPow2Is
<1> QED  BY <1>2, <1>3, Limits

\* The same downwards
LEMMA Falls ==
  ASSUME NEW k \in Int, k <= MaxLog, NEW e \in (1 - MaxExpo)..0
  PROVE  TimesPow2(Bounded(k), e) = Bounded(k + 8 * e)
<1>1. e \in (1 - MaxExpo)..MaxExpo /\ e \in (-MaxExpo)..MaxExpo
  BY Limits
<1>2. CASE k > Underflow  BY <1>1, <1>2, OfBounded, TimesPow2Is
<1>3. CASE k <= Underflow
  <2>1. k + 8 * e \in Int /\ k + 8 * e <= Underflow  BY <1>3, Limits
  <2> QED  BY <1>1, <1>3, <2>1, OfBounded, TimesPow2Is
<1> QED  BY <1>2, <1>3, Limits

\* Two steps to a number within the range, or beyond it in their direction
LEMMA Ldexp2Right ==
  ASSUME NEW k \in Int, NEW q \in (-2 * MaxExpo)..(2 * MaxExpo),
         k > Underflow, k <= MaxLog - 8,
         q < 0 => k + 8 * q <= MaxLog, q >= 0 => k + 8 * q >= k,
         q \in {-2 * MaxExpo, 1 - 2 * MaxExpo} => k + 8 * q <= Underflow
  PROVE  Ldexp2(Number(k), q) = Bounded(k + 8 * q)
<1> DEFINE h == q \div 2
<1>1. /\ h \in Int /\ q \in Int /\ q - h \in {h, h + 1} /\ 2 * h <= q
      /\ q <= 2 * h + 1 /\ MaxExpo \in Int /\ MaxExpo >= 7
  BY Limits
<1>2. Ldexp2(Number(k), q) = TimesPow2(TimesPow2(Number(k), h), q - h)
  BY DEF Ldexp2
<1> HIDE DEF h
<1>3. Bounded(k) = Number(k)  BY OfBounded, Limits
<1>4. CASE q >= 0
  <2>1. h \in 0..MaxExpo /\ q - h \in 0..MaxExpo  BY <1>1, <1>4
  <2>2. k + 8 * h \in Int /\ k + 8 * h > Underflow  BY <2>1, Limits
  <2>3. k + 8 * h + 8 * (q - h) = k + 8 * q  BY <1>1
  <2> QED  BY <1>2, <1>3, <2>1, <2>2, <2>3, Climbs
<1>5. CASE q < 0 /\ q \notin {-2 * MaxExpo, 1 - 2 * MaxExpo}
  <2>1. h \in (1 - MaxExpo)..0 /\ q - h \in (1 - MaxExpo)..0  BY <1>1, <1>5
  <2>2. k + 8 * h \in Int /\ k + 8 * h <= MaxLog  BY <2>1, Limits
  <2>3. k + 8 * h + 8 * (q - h) = k + 8 * q  BY <1>1
  <2>4. k <= MaxLog  BY Limits
  <2> QED  BY <1>2, <1>3, <2>1, <2>2, <2>3, <2>4, Falls
<1>6. CASE q \in {-2 * MaxExpo, 1 - 2 * MaxExpo}
  <2>1. h = -MaxExpo /\ q - h \in (-MaxExpo)..MaxExpo  BY <1>1, <1>6
  <2>2. k + 8 * q \in Int  BY <1>1
  <2> QED  BY <1>2, <1>6, <2>1, <2>2, TimesPow2Is, OfBounded
<1> QED  BY <1>1, <1>4, <1>5, <1>6

\* What the reduction leaves
LEMMA QuotientIs ==
  ASSUME NEW d, d.k \in Int, NEW err \in {0, 1}
  PROVE  /\ Quotient(d, err) \in Int
         /\ d.k - 8 * Quotient(d, err) \in -4..4
<1>1. \A k \in Int : k \div 8 \in Int /\ 8 * (k \div 8) <= k
        /\ k <= 8 * (k \div 8) + 7
  OBVIOUS
<1> DEFINE n == d.k + 3 + err
           q == n \div 8
<1>2. n \in Int /\ d.k + 3 <= n /\ n <= d.k + 4  OBVIOUS
<1>3. q \in Int /\ 8 * q <= n /\ n <= 8 * q + 7  BY <1>1, <1>2
<1>4. Quotient(d, err) = q  BY DEF Quotient, Ln2
<1> HIDE DEF n, q
<1> QED  BY <1>2, <1>3, <1>4

\* The polynomial gets what it is meant for.
LEMMA MantissaIs ==
  ASSUME NEW d \in Finites, NEW q \in Int, d.k - 8 * q \in -4..4
  PROVE  Mantissa(d, q) = Number(d.k - 8 * q)
<1>1. Finite(d) /\ d.k \in Int  BY OfFinites
<1>2. Abs(d.k - 8 * q) <= 4  BY DEF Abs
<1> QED  BY <1>1, <1>2 DEF Mantissa, ExpPoly, Ln2

\* An exponential in the range of two steps of vldexp2
LEMMA RawExpRight ==
  ASSUME NEW d \in Finites, NEW err \in {0, 1},
         d.k >= 1 - 16 * MaxExpo, d.k <= 9 * MaxExpo + 8
  PROVE  RawExp(d, err) = Bounded(d.k)
<1> DEFINE q == Quotient(d, err)
           m == d.k - 8 * q
<1>1. d.k \in Int /\ q \in Int /\ m \in -4..4 /\ m \in Int
  BY OfFinites, QuotientIs
<1> HIDE DEF q
<1>2. Mantissa(d, q) = Number(m)  BY <1>1, MantissaIs
<1>3. /\ q \in (-2 * MaxExpo)..(2 * MaxExpo)
      /\ m > Underflow /\ m <= MaxLog - 8
      /\ q < 0 => m + 8 * q <= MaxLog
      /\ q >= 0 => m + 8 * q >= m
      /\ q \in {-2 * MaxExpo, 1 - 2 * MaxExpo} => m + 8 * q <= Underflow
      /\ m + 8 * q = d.k
  <2> HIDE DEF m
  <2>1. m + 8 * q = d.k  BY <1>1 DEF m
  <2>2. q >= -2 * MaxExpo /\ q <= 2 * MaxExpo  BY <1>1, <2>1, Limits
  <2>3. m > Underflow /\ m <= MaxLog - 8  BY <1>1, Limits
  <2>4. q < 0 => m + 8 * q <= MaxLog  BY <1>1, Limits
  <2>5. q >= 0 => m + 8 * q >= m  BY <1>1
  <2>6. q = -2 * MaxExpo \/ q = 1 - 2 * MaxExpo => m + 8 * q <= Underflow
    BY <1>1, Limits
  <2>7. 2 * MaxExpo \in Int /\ -2 * MaxExpo \in Int  BY Limits
  <2> QED  BY <1>1, <2>1, <2>2, <2>3, <2>4, <2>5, <2>6, <2>7
<1> HIDE DEF m
<1>4. Ldexp2(Number(m), q) = Bounded(m + 8 * q)  BY <1>1, <1>3, Ldexp2Right
<1> QED  BY <1>2, <1>3, <1>4 DEF RawExp, q

\* and of what is no number
LEMMA RawExpOfInfinites ==
  ASSUME NEW d \in Infinites, NEW err \in {0, 1}
  PROVE  RawExp(d, err) = Undefined
<1>1. d.k \in Int /\ ~Finite(d)  BY OfSpecials DEF Infinites
<1> DEFINE q == Quotient(d, err)
<1>2. q \in Int /\ q \div 2 \in Int /\ q - q \div 2 \in Int
  BY <1>1, QuotientIs
<1>3. Mantissa(d, q) = Undefined  BY <1>1 DEF Mantissa
<1> HIDE DEF q
<1>4. RawExp(d, err) = TimesPow2(TimesPow2(Undefined, q \div 2), q - q \div 2)
  BY <1>3 DEF RawExp, Ldexp2, q
<1> QED  BY <1>2, <1>4, TimesPow2Is

\* The arguments of exponential functions
LEMMA ExponentsAre == Exponents = Finites \cup Infinites
<1>1. \A x \in [kind : {"number"}, k : Int] : x.k \in Int /\ x = Number(x.k)
  BY DEF Number
<1>2. \A k \in Int : Number(k) \in [kind : {"number"}, k : Int]
  BY DEF Number
<1> QED  BY <1>1, <1>2 DEF Exponents, Specials, Finites, Infinites

\* e^x, 2^x or 10^x for every argument
ExpOf(x) == IF Finite(x) THEN Bounded(x.k) ELSE x

\* The limits of the functions are between the range of the results and what
\* the two steps of vldexp2 can do.
LEMMA CutsAre ==
  /\ Low \in (1 - 16 * MaxExpo)..Underflow
  /\ Low2 \in (1 - 16 * MaxExpo)..Underflow
  /\ Low10 \in (1 - 16 * MaxExpo)..Underflow
  /\ Low10f \in (1 - 16 * MaxExpo)..Underflow
  /\ Underflow \in (1 - 16 * MaxExpo)..Underflow
  /\ Highf \in MaxLog..(9 * MaxExpo + 8) /\ MaxLog \in MaxLog..(9 * MaxExpo + 8)
<1>1. Room = 8 + 8 * MaxExpo - 8 * Precision /\ Room \in Int /\ Room >= 16
  BY Limits DEF Room
<1>2. Underflow = Room - 16 * MaxExpo  BY <1>1, Limits
<1>3. /\ (3 * Room) \div 8 \in 0..(Room - 1)
      /\ (19 * Room) \div 20 \in 0..(Room - 1)
      /\ Room \div 12 \in 0..(Room - 1)
      /\ (3 * Room) \div 20 \in 0..(Room - 1)
  BY <1>1
<1>4. /\ Low \in (1 - 16 * MaxExpo)..Underflow
      /\ Low2 \in (1 - 16 * MaxExpo)..Underflow
      /\ Low10 \in (1 - 16 * MaxExpo)..Underflow
      /\ Low10f \in (1 - 16 * MaxExpo)..Underflow
      /\ Underflow \in (1 - 16 * MaxExpo)..Underflow
  <2>1. \A j \in 0..(Room - 1) : Underflow - j \in (1 - 16 * MaxExpo)..Underflow
    BY <1>1, <1>2, Limits
  <2>2. Underflow - 0 = Underflow /\ 0 \in 0..(Room - 1)  BY <1>1, Limits
  <2> QED  BY <1>3, <2>1, <2>2 DEF Low, Low2, Low10, Low10f
<1>5. 8 * ((MaxExpo + 1) \div 8) = MaxExpo + 1
  <2>1. MaxExpo \in Nat /\ (MaxExpo + 1) % 8 = 0  BY ExpAssumption
  <2> QED  BY <2>1
<1>6. Highf = 9 * MaxExpo + 8  BY <1>5, Limits DEF Highf
<1> QED  BY <1>4, <1>6, Limits

\* Comparisons with a limit, which NaN is on neither side of
LEMMA BelowAbove ==
  ASSUME NEW b \in Int
  PROVE  /\ \A d \in Finites : /\ IsBelow(d, b) <=> d.k < b
                               /\ IsAbove(d, b) <=> d.k > b
         /\ IsBelow(MinusInfinity, b) /\ ~IsBelow(Infinity, b)
         /\ ~IsBelow(Undefined, b) /\ ~IsAbove(MinusInfinity, b)
         /\ IsAbove(Infinity, b) /\ ~IsAbove(Undefined, b)
<1>1. /\ Infinity # MinusInfinity /\ Undefined # MinusInfinity
      /\ Undefined # Infinity
  BY OfSpecials
<1>2. \A d \in Finites : Finite(d) /\ d # MinusInfinity /\ d # Infinity
  BY OfFinites, OfSpecials
<1> QED  BY <1>1, <1>2, OfSpecials DEF IsBelow, IsAbove

\* An exponential that is replaced on both sides of its limits
LEMMA CutOffRight ==
  ASSUME NEW x \in Exponents, NEW err \in {0, 1},
         NEW low \in (1 - 16 * MaxExpo)..Underflow,
         NEW high \in MaxLog..(9 * MaxExpo + 8)
  PROVE  CutOff(x, low, high, RawExp(x, err)) = ExpOf(x)
<1>1. low \in Int /\ high \in Int /\ low <= Underflow /\ high >= MaxLog
      /\ low >= 1 - 16 * MaxExpo /\ high <= 9 * MaxExpo + 8
  BY Limits
<1>2. CASE x \in Finites
  <2>1. /\ x.k \in Int /\ Finite(x) /\ (IsBelow(x, low) <=> x.k < low)
        /\ IsAbove(x, high) <=> x.k > high
    BY <1>1, <1>2, OfFinites, BelowAbove
  <2>2. x.k < low => Bounded(x.k) = Nought  BY <1>1, <2>1, Limits, OfBounded
  <2>3. x.k > high => Bounded(x.k) = Infinity  BY <1>1, <2>1, Limits, OfBounded
  <2>4. ~(x.k < low) /\ ~(x.k > high) => RawExp(x, err) = Bounded(x.k)
    <3>1. ~(x.k < low) /\ ~(x.k > high) =>
            x.k >= 1 - 16 * MaxExpo /\ x.k <= 9 * MaxExpo + 8
      BY <1>1, <2>1, Limits
    <3> QED  BY <1>2, <3>1, RawExpRight
  <2> QED  BY <2>1, <2>2, <2>3, <2>4 DEF CutOff, ExpOf
<1>3. CASE x \in Infinites
  BY <1>1, <1>3, RawExpOfInfinites, BelowAbove, OfSpecials
     DEF CutOff, ExpOf, Infinites, Nought
<1> QED  BY <1>2, <1>3, ExponentsAre

\* and one that is replaced below only
LEMMA CutBelowRight ==
  ASSUME NEW x \in Exponents, NEW err \in {0, 1},
         NEW low \in (1 - 16 * MaxExpo)..Underflow,
         Finite(x) => x.k <= 9 * MaxExpo + 8
  PROVE  CutBelow(x, low, RawExp(x, err)) =
           IF x = Infinity THEN Undefined ELSE ExpOf(x)
<1>1. low \in Int /\ low <= Underflow /\ low >= 1 - 16 * MaxExpo
  BY Limits
<1>2. CASE x \in Finites
  <2>1. /\ x.k \in Int /\ Finite(x) /\ (IsBelow(x, low) <=> x.k < low)
        /\ x # Infinity
    BY <1>1, <1>2, OfFinites, OfSpecials, BelowAbove
  <2>2. x.k < low => Bounded(x.k) = Nought  BY <1>1, <2>1, Limits, OfBounded
  <2>3. ~(x.k < low) => RawExp(x, err) = Bounded(x.k)
    <3>1. ~(x.k < low) => x.k >= 1 - 16 * MaxExpo  BY <1>1, <2>1, Limits
    <3> QED  BY <1>2, <2>1, <3>1, RawExpRight
  <2> QED  BY <2>1, <2>2, <2>3 DEF CutBelow, ExpOf
<1>3. CASE x \in Infinites
  BY <1>1, <1>3, RawExpOfInfinites, BelowAbove, OfSpecials
     DEF CutBelow, ExpOf, Infinites, Nought
<1> QED  BY <1>2, <1>3, ExponentsAre

\* Where cast_vq_tdx puts what is out of range
LEMMA TdxExpRight ==
  ASSUME NEW x \in Exponents, NEW err \in {0, 1}, NEW limit \in Int,
         limit >= 13 * (MaxExpo + 1)
  PROVE  /\ Narrowed(TdxExp(x, err, limit)) = ExpOf(x)
         /\ Finite(x) => TdxExp(x, err, limit) =
              IF x.k >= limit THEN Infinity
              ELSE IF x.k <= -limit THEN Nought ELSE Number(x.k)
         /\ TdxExp(Undefined, err, limit) = Undefined
<1>0. /\ limit > MaxLog /\ -limit <= Underflow /\ limit \in Int /\ limit > 0
      /\ Infinity.kind # "number" /\ Nought.kind # "number"
      /\ Undefined.kind # "number" /\ Undefined.kind # "inf"
  BY Limits, NoughtIs, OfSpecials
<1>1. CASE x \in Finites
  <2> DEFINE q == Quotient(x, err)
             m == x.k - 8 * q
  <2>1. /\ x.k \in Int /\ q \in Int /\ m \in -4..4 /\ Finite(x)
        /\ x.kind # "inf" /\ (HasMinus(x) <=> x = MinusZero \/ x.k < 0)
        /\ x = MinusZero => x.k = 0
    BY <1>1, OfFinites, QuotientIs
  <2>2. WideExp(x, err) = Number(x.k)
    <3> HIDE DEF q
    <3>1. Mantissa(x, q) = Number(m) /\ m \in Int  BY <1>1, <2>1, MantissaIs
    <3>2. m + 8 * q = x.k  BY <2>1
    <3> HIDE DEF m
    <3>3. Number(m).kind = "number" /\ Number(m).k = m  BY <3>1, OfNumbers
    <3> QED  BY <3>1, <3>2, <3>3 DEF WideExp, Ln2, q
  <2> HIDE DEF q
  <2>3. TdxLarge(x, limit) <=> x.k >= limit \/ x.k <= -limit
    <3>1. Abs(x.k) >= limit <=> x.k >= limit \/ x.k <= -limit
      BY <1>0, <2>1 DEF Abs
    <3> QED  BY <2>1, <3>1 DEF TdxLarge
  <2>4. TdxExp(x, err, limit) =
          IF x.k >= limit THEN Infinity
          ELSE IF x.k <= -limit THEN Nought ELSE Number(x.k)
    <3>1. x.k >= limit => ~HasMinus(x)  BY <1>0, <2>1
    <3>2. ~(x.k >= limit) /\ x.k <= -limit => HasMinus(x)  BY <1>0, <2>1
    <3> QED  BY <2>2, <2>3, <3>1, <3>2 DEF TdxExp
  <2>5. Narrowed(TdxExp(x, err, limit)) = Bounded(x.k)
    <3>1. CASE x.k >= limit
      <4>1. x.k > MaxLog  BY <1>0, <2>1, <3>1, Limits
      <4> QED  BY <1>0, <2>1, <2>4, <3>1, <4>1, OfBounded DEF Narrowed
    <3>2. CASE ~(x.k >= limit) /\ x.k <= -limit
      <4>1. x.k <= Underflow  BY <1>0, <2>1, <3>2, Limits
      <4> QED  BY <1>0, <2>1, <2>4, <3>2, <4>1, OfBounded DEF Narrowed
    <3>3. CASE ~(x.k >= limit) /\ ~(x.k <= -limit)
      BY <2>1, <2>4, <3>3, OfNumbers DEF Narrowed
    <3> QED  BY <3>1, <3>2, <3>3
  <2>6. TdxExp(Undefined, err, limit) = Undefined
    BY <1>0, OfSpecials DEF TdxExp, TdxLarge, WideExp, Mantissa
  <2> QED  BY <2>1, <2>4, <2>5, <2>6 DEF ExpOf
<1>2. CASE x \in Infinites
  <2>1. TdxExp(Undefined, err, limit) = Undefined
    BY <1>0, OfSpecials DEF TdxExp, TdxLarge, WideExp, Mantissa
  <2>2. TdxExp(Infinity, err, limit) = Infinity
    BY OfSpecials DEF TdxExp, TdxLarge
  <2>3. TdxExp(MinusInfinity, err, limit) = Nought
    BY OfSpecials DEF TdxExp, TdxLarge
  <2>4. /\ Narrowed(Undefined) = Undefined /\ Narrowed(Infinity) = Infinity
        /\ Narrowed(Nought) = MinusInfinity
    BY <1>0, NoughtIs DEF Narrowed
  <2> QED  BY <1>2, <2>1, <2>2, <2>3, <2>4, OfInfinites DEF ExpOf, Infinites
<1> QED  BY <1>1, <1>2, ExponentsAre

\* All exponential functions, by their bases
LEMMA ExpsRight ==
  ASSUME NEW x \in Exponents, NEW err \in {0, 1}
  PROVE  LET r == ExpOf(x) IN
         /\ xexp(x, err) = r /\ xexpf(x, err) = r /\ xexp2(x, err) = r
         /\ xexp2_u35(x, err) = r /\ xexp10(x, err) = r
         /\ xexp10_u35(x, err) = r /\ xexp2f(x, err) = r
         /\ xexp2f_u35(x, err) = r /\ xexp10f(x, err) = r
         /\ xexp10f_u35(x, err) = r /\ xexpq_u10(x, err) = r
         /\ xexp2q_u10(x, err) = r /\ xexp10q_u10(x, err) = r
<1>1. /\ xexp(x, err) = ExpOf(x) /\ xexpf(x, err) = ExpOf(x)
      /\ xexp2(x, err) = ExpOf(x) /\ xexp10(x, err) = ExpOf(x)
      /\ xexp2f(x, err) = ExpOf(x) /\ xexp10f(x, err) = ExpOf(x)
  BY CutOffRight, CutsAre DEF xexp, xexpf, xexp2, xexp10, xexp2f, xexp10f
<1>2. /\ xexp2_u35(x, err) = ExpOf(x) /\ xexp10_u35(x, err) = ExpOf(x)
      /\ xexp2f_u35(x, err) = ExpOf(x) /\ xexp10f_u35(x, err) = ExpOf(x)
  BY <1>1 DEF xexp2_u35, xexp10_u35, xexp2f_u35, xexp10f_u35
<1>3. /\ LargeE \in Int /\ LargeE >= 13 * (MaxExpo + 1)
      /\ Large2 \in Int /\ Large2 >= 13 * (MaxExpo + 1)
      /\ Large10 \in Int /\ Large10 >= 13 * (MaxExpo + 1)
  BY Limits DEF LargeE, Large2, Large10
<1>4. /\ xexpq_u10(x, err) = ExpOf(x) /\ xexp2q_u10(x, err) = ExpOf(x)
      /\ xexp10q_u10(x, err) = ExpOf(x)
  BY <1>3, TdxExpRight
     DEF xexpq_u10, xexp2q_u10, xexp10q_u10, exp_tdx_tdx, exp2_tdx_tdx,
         exp10_tdx_tdx
<1> QED  BY <1>1, <1>2, <1>4

-----------------------------------------------------------------------------

\* The logarithms that name a positive number, or zero
LogRange == (Underflow + 1)..MaxLog

\* The arguments of logarithms, told apart
LEMMA SignedNumbersAre ==
  ASSUME NEW x \in SignedNumbers
  PROVE  /\ x = [minus |-> x.minus, log |-> x.log] /\ x.minus \in BOOLEAN
         /\ \/ /\ x.log.kind = "number" /\ x.log.k \in LogRange
               /\ x.log = Number(x.log.k) /\ x.log \in Finites
            \/ x.log = Nought \/ x.log = Infinity
            \/ x.log = Undefined /\ ~x.minus /\ x = NaNNumber
         /\ IsNaNNumber(x) => x = NaNNumber
<1>1. CASE x = NaNNumber
  BY <1>1 DEF NaNNumber, Unsigned
<1>2. CASE x \in [minus : BOOLEAN,
                  log : {Number(k) : k \in LogRange} \cup {Nought, Infinity}]
  <2>1. x = [minus |-> x.minus, log |-> x.log] /\ x.minus \in BOOLEAN
        /\ x.log \in {Number(k) : k \in LogRange} \cup {Nought, Infinity}
    BY <1>2
  <2>2. ASSUME NEW k \in LogRange, x.log = Number(k)
        PROVE  /\ x.log.kind = "number" /\ x.log.k = k /\ x.log \in Finites
               /\ x.log # Undefined
    <3>1. k \in Int  BY Limits DEF LogRange
    <3> QED  BY <2>2, <3>1, OfNumbers DEF Finites
  <2>3. Nought # Undefined /\ Infinity # Undefined  BY NoughtIs
  <2> QED  BY <2>1, <2>2, <2>3 DEF IsNaNNumber
<1> QED  BY <1>1, <1>2 DEF SignedNumbers, LogRange

\* A logarithm, scaled up first if its argument is subnormal
LEMMA RawLogRight ==
  ASSUME NEW k \in LogRange
  PROVE  RawLog(Unsigned(Number(k))) = Number(k)
<1> DEFINE x == Unsigned(Number(k))
           small == IsSmall(x)
           k1 == k + (IF small THEN Ln2 * Raise ELSE 0)
           e == (k1 + 3) \div 8
           m == k1 - 8 * e
<1>1. k \in Int /\ k > Underflow /\ k <= MaxLog  BY Limits DEF LogRange
<1>2. /\ x.minus = FALSE /\ x.log = Number(k) /\ x.log.kind = "number"
      /\ x.log.k = k
  BY <1>1, OfNumbers DEF Unsigned
<1>3. small <=> k < LeastNormal
  <2>1. Number(k) \in Finites /\ Number(k) # Undefined
    BY <1>1, OfNumbers DEF Finites
  <2>2. IsBelow(Number(k), LeastNormal) <=> k < LeastNormal
    BY <1>1, <2>1, Limits, BelowAbove, OfNumbers
  <2> QED  BY <1>2, <2>1, <2>2 DEF IsSmall, IsNaNNumber
<1> HIDE DEF x, small
<1>4. /\ k1 \in Int /\ k1 >= LeastNormal /\ e \in Int /\ m \in Int
  BY <1>1, <1>3, Limits DEF Raise
<1>5. 8 * (e - (IF small THEN Raise ELSE 0)) + m = k
  <2>1. e \in Int /\ Raise \in Int /\ m = k1 - 8 * e
    BY <1>4, Limits DEF Raise
  <2> HIDE DEF e, m
  <2> QED  BY <1>1, <2>1, Limits
<1>6. RawLog(x) =
        IF x.minus \/ x.log.kind # "number" \/ k1 < LeastNormal THEN Spoilt
        ELSE Number(8 * (e - (IF small THEN Raise ELSE 0)) + m)
  BY <1>2 DEF RawLog, LogExponent, Ln2, small
<1> HIDE DEF k1, e, m
<1>7. ~(k1 < LeastNormal)  BY <1>4, Limits
<1> QED  BY <1>2, <1>5, <1>6, <1>7 DEF x

\* The exponent of a triple-double number, taken off and added again
LEMMA TdxLogOfIs ==
  ASSUME NEW k \in Int
  PROVE  TdxLogOf(k) = Number(k)
<1> DEFINE e == (k + 3) \div 8
<1>1. /\ k - 8 * e \in -3..4 /\ 8 * e + (k - 8 * e) = k
  OBVIOUS
<1> HIDE DEF e
<1>2. TdxLogOf(k) = IF k - 8 * e \in -3..4 THEN Number(8 * e + (k - 8 * e))
                    ELSE Spoilt
  BY DEF TdxLogOf, Ln2, e
<1> QED  BY <1>1, <1>2

\* All logarithms: of a negative number there is none.
LEMMA LogsRight ==
  ASSUME NEW x \in SignedNumbers
  PROVE  LET r == IF x.minus /\ ~IsNought(x) THEN Undefined ELSE x.log IN
         /\ Logarithm(x) = r /\ TdxLog(x) = r
<1> DEFINE r == IF x.minus /\ ~IsNought(x) THEN Undefined ELSE x.log
<1>1. CASE x.log = Nought
  BY <1>1, NoughtIs DEF Logarithm, TdxLog, IsNought
<1>2. CASE x.log # Nought /\ x.minus
  BY <1>2 DEF Logarithm, TdxLog, IsNought
<1>3. CASE x.log \in {Infinity, Undefined} /\ ~x.minus
  BY <1>3, NoughtIs DEF Logarithm, TdxLog, IsNought, IsNaNNumber
<1>4. CASE x.log.kind = "number" /\ ~x.minus
  <2>1. /\ x.log.k \in LogRange /\ x.log = Number(x.log.k)
        /\ x = [minus |-> x.minus, log |-> x.log] /\ x.minus \in BOOLEAN
    BY <1>4, SignedNumbersAre, NoughtIs, OfSpecials
  <2>2. x = Unsigned(Number(x.log.k))
    <3>1. x.minus = FALSE  BY <1>4, <2>1
    <3> QED  BY <2>1, <3>1 DEF Unsigned
  <2>3. x.log.k \in Int  BY <2>1, Limits DEF LogRange
  <2>4. x.log # Nought /\ x.log # Infinity /\ x.log # Undefined
    BY <1>4, NoughtIs, OfSpecials
  <2>5. RawLog(x) = x.log /\ TdxLogOf(x.log.k) = x.log
    BY <2>1, <2>2, <2>3, RawLogRight, TdxLogOfIs
  <2> QED  BY <1>4, <2>4, <2>5 DEF Logarithm, TdxLog, IsNought, IsNaNNumber
<1> QED  BY <1>1, <1>2, <1>3, <1>4, SignedNumbersAre

\* Cube roots: the scaling to a number from 1/2 to 1
LEMMA RawCbrtRight ==
  ASSUME NEW log,
         \/ log = Nought \/ log = Infinity \/ log = Undefined
         \/ log = Number(log.k) /\ log.k \in LogRange
  PROVE  RawCbrt(log) = log /\ Narrowed(cbrt_tdx_tdx(log)) = log
<1>1. CASE log = Number(log.k) /\ log.k \in LogRange
  <2> DEFINE k == log.k
             e == k \div 8 + 1
             t == (e + 6 * (MaxExpo + 1)) \div 3 - 2 * (MaxExpo + 1)
             u == (e + 3 * (MaxExpo + 2)) \div 3 - (MaxExpo + 2)
             d == k - 8 * e
  <2>1. /\ k \in Int /\ k > Underflow /\ k <= MaxLog /\ log.kind = "number"
    <3>1. k \in Int /\ k > Underflow /\ k <= MaxLog
      BY <1>1, Limits DEF LogRange
    <3> QED  BY <1>1, <3>1, OfNumbers
  <2> HIDE DEF k
  <2>2. /\ e \in Int /\ d \in -8..-1 /\ e <= MaxExpo + 1
        /\ e >= 2 - MaxExpo - Precision
    <3>1. /\ k \div 8 \in Int /\ 8 * (k \div 8) <= k
          /\ k <= 8 * (k \div 8) + 7
      BY <2>1
    <3> QED  BY <2>1, <3>1, Limits
  <2> HIDE DEF e
  <2>3. /\ t \in Int /\ e - 3 * t \in 0..2 /\ u \in Int /\ e - 3 * u \in 0..2
        /\ e + 3 * (MaxExpo + 2) >= 0
    BY <2>2, Limits
  <2>4. CubeExpo(log) = e
    <3>1. log # Nought  BY <2>1, NoughtIs
    <3> QED  BY <2>1, <3>1 DEF CubeExpo, Ln2, e, k
  <2>5. CubeThird(e) = t  BY DEF CubeThird
  <2>6. TdxThird(e) = u  BY DEF TdxThird
  <2> HIDE DEF t, u, d
  <2>7. Ldexp2(log, -e) = Number(d)
    <3> DEFINE h == (-e) \div 2
    <3>1. /\ h \in Int /\ 2 * h <= -e /\ -e <= 2 * h + 1
      BY <2>2
    <3>2. Ldexp2(log, -e) = TimesPow2(TimesPow2(Number(k), h), -e - h)
      BY <1>1 DEF Ldexp2, k
    <3> HIDE DEF h
    <3>3. k + 8 * (-e) = d  BY <2>1, <2>2 DEF d
    <3>4. /\ h \in (1 - MaxExpo)..MaxExpo /\ -e - h \in (1 - MaxExpo)..MaxExpo
      BY <2>2, <3>1, Limits
    <3>5. k + 8 * h > Underflow /\ k + 8 * h <= MaxLog /\ k + 8 * h \in Int
      <4>1. CASE e >= 0  BY <2>1, <2>2, <3>1, <3>3, <4>1, Limits
      <4>2. CASE e < 0  BY <2>1, <2>2, <3>1, <3>3, <4>2, Limits
      <4> QED  BY <2>2, <4>1, <4>2
    <3>6. TimesPow2(Number(k), h) = Number(k + 8 * h)
      BY <2>1, <3>4, <3>5, TimesPow2Is, OfBounded
    <3>7. TimesPow2(Number(k + 8 * h), -e - h) =
            Bounded(k + 8 * h + 8 * (-e - h))
      BY <3>4, <3>5, TimesPow2Is
    <3>8. k + 8 * h + 8 * (-e - h) = d  BY <2>1, <2>2, <3>1, <3>3
    <3>9. d \in Int /\ d > Underflow /\ d <= MaxLog  BY <2>2, Limits
    <3> QED  BY <3>2, <3>6, <3>7, <3>8, <3>9, OfBounded
  <2>8. /\ Number(d).kind = "number" /\ Number(d).k = d
        /\ d \in (-8)..(-1)
    <3>1. d \in Int  BY <2>2
    <3> QED  BY <2>2, <3>1, OfNumbers
  <2>9. /\ d + 8 * (e - 3 * t) + 3 * 8 * t = k
        /\ d + 8 * (e - 3 * u) + 3 * 8 * u = k
    <3>1. d = k - 8 * e /\ d \in Int  BY <2>1, <2>2 DEF d
    <3> QED  BY <2>1, <2>2, <2>3, <3>1
  <2>10. RawCbrt(log) = Number(k)
    <3>1. RawCbrt(log) =
            IF d \in (-8)..(-1) /\ e - 3 * t \in 0..2
            THEN Number(d + 8 * (e - 3 * t) + 3 * 8 * t) ELSE Spoilt
      BY <2>4, <2>5, <2>7, <2>8 DEF RawCbrt, Ln2
    <3> QED  BY <2>3, <2>8, <2>9, <3>1
  <2>11. cbrt_tdx_tdx(log) = Number(k)
    <3>1. cbrt_tdx_tdx(log) =
            IF /\ d \in (-8)..(-1) /\ e - 3 * u \in 0..2
               /\ e + 3 * (MaxExpo + 2) >= 0
            THEN Number(d + 8 * (e - 3 * u) + 3 * 8 * u) ELSE Spoilt
      BY <2>1, <2>6 DEF cbrt_tdx_tdx, Ln2, d, e, k
    <3> QED  BY <2>3, <2>8, <2>9, <3>1
  <2>12. Narrowed(Number(k)) = Number(k)
    BY <2>1, OfNumbers, OfBounded DEF Narrowed
  <2> QED  BY <1>1, <2>10, <2>11, <2>12 DEF k
<1>2. CASE log = Nought
  <2>1. log.kind # "number"  BY <1>2, NoughtIs
  <2> DEFINE q == -(1 - MaxExpo - Raise)
  <2>2. /\ q \div 2 \in (-MaxExpo)..MaxExpo
        /\ q - q \div 2 \in (-MaxExpo)..MaxExpo
    <3>1. q = MaxExpo + Precision  BY Limits DEF Raise
    <3> HIDE DEF q
    <3> QED  BY <3>1, Limits
  <2>3. CubeExpo(log) = 1 - MaxExpo - Raise
    BY <1>2, <2>1 DEF CubeExpo
  <2>4. Ldexp2(log, q) = log  BY <1>2, <2>2, TimesPow2Is DEF Ldexp2
  <2> HIDE DEF q
  <2>5. RawCbrt(log) = log  BY <2>1, <2>3, <2>4 DEF RawCbrt, q
  <2> QED  BY <2>1, <2>5 DEF cbrt_tdx_tdx, Narrowed
<1>3. CASE log \in {Infinity, Undefined}
  <2>1. log.kind # "number" /\ log # Nought
    BY <1>3, NoughtIs, OfSpecials
  <2> DEFINE q == -(MaxExpo + 2)
  <2>2. /\ q \div 2 \in (1 - MaxExpo)..(MaxExpo + 1)
        /\ q - q \div 2 \in (1 - MaxExpo)..(MaxExpo + 1)
        /\ q \div 2 \in Int /\ q - q \div 2 \in Int
    BY Limits
  <2>3. CubeExpo(log) = MaxExpo + 2
    BY <2>1 DEF CubeExpo
  <2>4. Ldexp2(log, q) = log  BY <1>3, <2>2, TimesPow2Is DEF Ldexp2
  <2> HIDE DEF q
  <2>5. RawCbrt(log) = log  BY <2>1, <2>3, <2>4 DEF RawCbrt, q
  <2> QED  BY <2>1, <2>5 DEF cbrt_tdx_tdx, Narrowed
<1> QED  BY <1>1, <1>2, <1>3

\* All cube roots
LEMMA RootsRight ==
  ASSUME NEW x \in SignedNumbers
  PROVE  /\ xcbrt(x) = x /\ xcbrt_u1(x) = x /\ xcbrtf(x) = x
         /\ xcbrtf_u1(x) = x /\ xcbrtq_u10(x) = x
<1>1. /\ x = [minus |-> x.minus, log |-> x.log]
      /\ RawCbrt(x.log) = x.log /\ Narrowed(cbrt_tdx_tdx(x.log)) = x.log
  BY SignedNumbersAre, RawCbrtRight
<1>2. xcbrt(x) = x /\ xcbrtf(x) = x /\ xcbrtq_u10(x) = x
  BY <1>1 DEF xcbrt, xcbrtf, xcbrtq_u10
<1>3. xcbrt_u1(x) = x /\ xcbrtf_u1(x) = x
  <2> DEFINE l == IF IsNought(x) THEN Nought
                  ELSE IF x.log = Infinity THEN Infinity
                  ELSE IF x.log = Infinity THEN Undefined ELSE x.log
  <2>1. l = x.log  BY DEF IsNought
  <2>2. xcbrt_u1(x) = [minus |-> x.minus, log |-> l]
    BY <1>1 DEF xcbrt_u1
  <2> QED  BY <1>1, <2>1, <2>2 DEF xcbrtf_u1
<1> QED  BY <1>2, <1>3

\* Powers: the four equal steps of vldexp and the rest
LEMMA Divides ==
  ASSUME NEW a \in Int, NEW b \in Int, b > 0
  PROVE  a \div b \in Int /\ b * (a \div b) <= a /\ a < b * (a \div b) + b
OBVIOUS

\* The quarter of an exponent, rounded down
LEMMA LdexpStepIs ==
  ASSUME NEW q \in Int
  PROVE  LET s == LdexpStep(q)
             g == (MaxExpo + 1) \div 2 IN
         /\ s \in Int /\ g \in Int /\ 2 * g = MaxExpo + 1
         /\ q >= 0 => 0 <= s /\ 4 * s <= q /\ q < 4 * s + g
         /\ q < 0 => s <= 0 /\ q <= 4 * s /\ 4 * s - g < q
<1> DEFINE g == (MaxExpo + 1) \div 2
           b == g \div 4
           minus == IF q < 0 THEN -1 ELSE 0
           t == (q + minus) \div g - minus
<1>1. g \in Int /\ 2 * g = MaxExpo + 1 /\ b \in Int /\ g = 4 * b /\ b >= 1
  <2>1. MaxExpo \in Nat /\ (MaxExpo + 1) % 8 = 0  BY ExpAssumption
  <2> QED  BY <2>1, Limits
<1>2. LdexpStep(q) = t * b  BY DEF LdexpStep
<1> HIDE DEF g, b
<1>2a. q >= 0 => t = q \div g
  <2> SUFFICES ASSUME q >= 0  PROVE t = q \div g  OBVIOUS
  <2>1. minus = 0 /\ q + 0 = q  OBVIOUS
  <2> HIDE DEF minus
  <2>2. q \div g \in Int  BY <1>1, Divides
  <2>3. t = q \div g - 0  BY <2>1
  <2> QED  BY <2>2, <2>3
<1>2b. q < 0 => t = (q - 1) \div g + 1 /\ q - 1 \in Int
  <2> SUFFICES ASSUME q < 0
               PROVE  t = (q - 1) \div g + 1 /\ q - 1 \in Int
    OBVIOUS
  <2>1. minus = -1 /\ q + (-1) = q - 1 /\ q - 1 \in Int  OBVIOUS
  <2> HIDE DEF minus
  <2>2. (q - 1) \div g \in Int
    <3>1. g > 0  BY <1>1
    <3> QED  BY <1>1, <2>1, <3>1, Divides
  <2>3. t = (q - 1) \div g - (-1)  BY <2>1
  <2> QED  BY <2>1, <2>2, <2>3
<1> HIDE DEF t
<1>3. t \in Int /\ 4 * (t * b) = g * t /\ t * b \in Int
  <2>1. t \in Int
    <3>1. g > 0  BY <1>1
    <3>2. CASE q >= 0  BY <1>1, <1>2a, <3>1, <3>2, Divides
    <3>3. CASE q < 0
      <4>1. (q - 1) \div g \in Int  BY <1>1, <1>2b, <3>1, <3>3, Divides
      <4> QED  BY <1>2b, <3>3, <4>1
    <3> QED  BY <3>2, <3>3
  <2> QED  BY <2>1, <1>1
<1>4. q >= 0 => 0 <= t /\ g * t <= q /\ q < g * t + g
  <2> SUFFICES ASSUME q >= 0  PROVE 0 <= t /\ g * t <= q /\ q < g * t + g
    OBVIOUS
  <2>1. t = q \div g  BY <1>2a
  <2>2. g * t <= q /\ q < g * t + g
    <3>1. g > 0  BY <1>1
    <3>2. g * (q \div g) <= q /\ q < g * (q \div g) + g
      BY <1>1, <3>1, Divides
    <3> QED  BY <2>1, <3>2
  <2>3. 0 <= t
    <3>1. t < 0 => g * t <= -g  BY <1>1, <1>3
    <3> QED  BY <1>1, <1>3, <2>2, <3>1
  <2> QED  BY <2>2, <2>3
<1>5. q < 0 => t <= 0 /\ q <= g * t /\ g * t - g < q
  <2> SUFFICES ASSUME q < 0  PROVE t <= 0 /\ q <= g * t /\ g * t - g < q
    OBVIOUS
  <2> DEFINE v == (q - 1) \div g
  <2>1. t = v + 1  BY <1>2b
  <2>2. v \in Int /\ g * v <= q - 1 /\ q - 1 < g * v + g
    <3>1. q - 1 \in Int /\ g > 0  BY <1>1
    <3> QED  BY <1>1, <3>1, Divides
  <2> HIDE DEF v
  <2>3. g * t = g * v + g  BY <1>1, <2>1, <2>2
  <2>4. g * t \in Int /\ g * v \in Int  BY <1>1, <1>3, <2>2
  <2>5. t <= 0
    <3>1. v >= 0 => g * v >= 0  BY <1>1, <2>2
    <3> QED  BY <2>1, <2>2, <2>4, <3>1
  <2> QED  BY <1>1, <2>2, <2>3, <2>4, <2>5
<1> DEFINE s == LdexpStep(q)
<1>6. s = t * b /\ s \in Int /\ 4 * s = g * t  BY <1>2, <1>3
<1>7. (0 <= t => 0 <= s) /\ (t <= 0 => s <= 0)  BY <1>1, <1>3, <1>6
<1> HIDE DEF s
<1> QED  BY <1>1, <1>3, <1>4, <1>5, <1>6, <1>7 DEF s, g

\* All of vldexp
LEMMA LdexpFullRight ==
  ASSUME NEW m \in -4..4, NEW q \in Int, q >= -3 * MaxExpo
  PROVE  LdexpFull(Number(m), q) = Bounded(m + 8 * q)
<1> DEFINE s == LdexpStep(q)
           g == (MaxExpo + 1) \div 2
           c == Clamped(s)
           v1 == TimesPow2(Number(m), c)
           v2 == TimesPow2(v1, c)
           v3 == TimesPow2(v2, c)
           v4 == TimesPow2(v3, c)
<1>1. /\ s \in Int /\ g \in Int /\ 2 * g = MaxExpo + 1
      /\ q >= 0 => 0 <= s /\ 4 * s <= q /\ q < 4 * s + g
      /\ q < 0 => s <= 0 /\ q <= 4 * s /\ 4 * s - g < q
  BY LdexpStepIs
<1>2. LdexpFull(Number(m), q) = TimesPow2(v4, q - 4 * s)
  BY DEF LdexpFull
<1> HIDE DEF s, g
<1>3. m \in Int /\ m > Underflow /\ m <= MaxLog /\ Bounded(m) = Number(m)
  <2>1. m \in Int /\ m > Underflow /\ m <= MaxLog  BY Limits
  <2> QED  BY <2>1, OfBounded
<1>4. CASE q >= 0 /\ s <= MaxExpo
  <2>1. c = s /\ s \in 0..MaxExpo /\ q - 4 * s \in 0..MaxExpo
    <3>1. ~(s > MaxExpo + 1) /\ ~(s < -MaxExpo)  BY <1>1, <1>4, Limits
    <3>2. c = s  BY <3>1 DEF Clamped
    <3> HIDE DEF c
    <3> QED  BY <1>1, <1>4, <3>2, Limits
  <2> HIDE DEF c
  <2>2. /\ m + 8 * s \in Int /\ m + 8 * s > Underflow
        /\ m + 16 * s \in Int /\ m + 16 * s > Underflow
        /\ m + 24 * s \in Int /\ m + 24 * s > Underflow
        /\ m + 32 * s \in Int /\ m + 32 * s > Underflow
        /\ m + 8 * s + 8 * s = m + 16 * s
        /\ m + 16 * s + 8 * s = m + 24 * s
        /\ m + 24 * s + 8 * s = m + 32 * s
        /\ m + 32 * s + 8 * (q - 4 * s) = m + 8 * q
    BY <1>3, <2>1, Limits
  <2>3. v1 = Bounded(m + 8 * s)  BY <1>3, <2>1, Climbs
  <2> HIDE DEF v1
  <2>4. v2 = Bounded(m + 16 * s)  BY <2>1, <2>2, <2>3, Climbs
  <2> HIDE DEF v2
  <2>5. v3 = Bounded(m + 24 * s)  BY <2>1, <2>2, <2>4, Climbs
  <2> HIDE DEF v3
  <2>6. v4 = Bounded(m + 32 * s)  BY <2>1, <2>2, <2>5, Climbs
  <2> HIDE DEF v4
  <2>7. TimesPow2(v4, q - 4 * s) = Bounded(m + 32 * s + 8 * (q - 4 * s))
    BY <2>1, <2>2, <2>6, Climbs
  <2> QED  BY <1>2, <2>2, <2>7
<1>5. CASE q >= 0 /\ s > MaxExpo
  <2>1. c = MaxExpo + 1
    <3>1. s > MaxExpo + 1 \/ s = MaxExpo + 1  BY <1>1, <1>5, Limits
    <3>2. ~(MaxExpo + 1 > MaxExpo + 1) /\ ~(MaxExpo + 1 < -MaxExpo)  BY Limits
    <3> QED  BY <3>1, <3>2 DEF Clamped
  <2> HIDE DEF c
  <2>2. /\ c \in (1 - MaxExpo)..(MaxExpo + 1)
        /\ q - 4 * s \in (1 - MaxExpo)..(MaxExpo + 1)
    BY <1>1, <1>5, <2>1, Limits
  <2>3. v1 = Infinity  BY <1>3, <2>1, TimesPow2Is
  <2> HIDE DEF v1
  <2>4. v2 = Infinity  BY <2>2, <2>3, TimesPow2Is
  <2> HIDE DEF v2
  <2>5. v3 = Infinity  BY <2>2, <2>4, TimesPow2Is
  <2> HIDE DEF v3
  <2>6. v4 = Infinity  BY <2>2, <2>5, TimesPow2Is
  <2> HIDE DEF v4
  <2>7. TimesPow2(v4, q - 4 * s) = Infinity  BY <2>2, <2>6, TimesPow2Is
  <2>8. m + 8 * q \in Int /\ m + 8 * q > MaxLog  BY <1>1, <1>5, Limits
  <2> QED  BY <1>2, <2>7, <2>8, OfBounded
<1>6. CASE q < 0
  <2>1. c = s /\ s \in (1 - MaxExpo)..0 /\ q - 4 * s \in (1 - MaxExpo)..0
    <3>1. s >= 1 - MaxExpo /\ s <= 0  BY <1>1, <1>6, Limits
    <3>2. ~(s > MaxExpo + 1) /\ ~(s < -MaxExpo)  BY <1>1, <3>1, Limits
    <3>3. c = s  BY <3>2 DEF Clamped
    <3> HIDE DEF c
    <3> QED  BY <1>1, <1>6, <3>1, <3>3, Limits
  <2> HIDE DEF c
  <2>2. /\ m + 8 * s \in Int /\ m + 8 * s <= MaxLog
        /\ m + 16 * s \in Int /\ m + 16 * s <= MaxLog
        /\ m + 24 * s \in Int /\ m + 24 * s <= MaxLog
        /\ m + 32 * s \in Int /\ m + 32 * s <= MaxLog
        /\ m + 8 * s + 8 * s = m + 16 * s
        /\ m + 16 * s + 8 * s = m + 24 * s
        /\ m + 24 * s + 8 * s = m + 32 * s
        /\ m + 32 * s + 8 * (q - 4 * s) = m + 8 * q
    BY <1>3, <2>1, Limits
  <2>3. v1 = Bounded(m + 8 * s)  BY <1>3, <2>1, Falls
  <2> HIDE DEF v1
  <2>4. v2 = Bounded(m + 16 * s)  BY <2>1, <2>2, <2>3, Falls
  <2> HIDE DEF v2
  <2>5. v3 = Bounded(m + 24 * s)  BY <2>1, <2>2, <2>4, Falls
  <2> HIDE DEF v3
  <2>6. v4 = Bounded(m + 32 * s)  BY <2>1, <2>2, <2>5, Falls
  <2> HIDE DEF v4
  <2>7. TimesPow2(v4, q - 4 * s) = Bounded(m + 32 * s + 8 * (q - 4 * s))
    BY <2>1, <2>2, <2>6, Falls
  <2> QED  BY <1>2, <2>2, <2>7
<1> QED  BY <1>1, <1>4, <1>5, <1>6, Limits

\* Beyond the range of numbers expkf may return NaN.
LEMMA ExpkfRight ==
  ASSUME NEW x \in Finites, NEW err \in {0, 1}
  PROVE  \/ expkf(x, err) = Bounded(x.k)
         \/ expkf(x, err) = Undefined /\ x.k > MaxLog
<1> DEFINE q == Quotient(x, err)
           m == x.k - 8 * q
           u == IF Abs(q) > MaxInt THEN Undefined ELSE Mantissa(x, q)
<1>1. x.k \in Int /\ q \in Int /\ m \in -4..4  BY OfFinites, QuotientIs
<1>2. IsBelow(x, Underflow) <=> x.k < Underflow  BY Limits, BelowAbove
<1>3. expkf(x, err) = IF x.k < Underflow THEN Nought ELSE LdexpFull(u, q)
  BY <1>2 DEF expkf, CutBelow
<1> HIDE DEF q
<1>4. CASE x.k < Underflow
  BY <1>1, <1>3, <1>4, Limits, OfBounded
<1>5. CASE ~(x.k < Underflow) /\ Abs(q) > MaxInt
  <2>1. x.k > MaxLog
    <3>1. q > MaxInt \/ -q > MaxInt  BY <1>1, <1>5 DEF Abs
    <3>2. x.k = m + 8 * q  BY <1>1
    <3> HIDE DEF m
    <3> QED  BY <1>1, <1>5, <3>1, <3>2, Limits
  <2>2. u = Undefined  BY <1>5
  <2>3. LdexpFull(Undefined, q) = Undefined
    <3>1. LdexpStep(q) \in Int /\ q - 4 * LdexpStep(q) \in Int
      <4>1. LdexpStep(q) \in Int  BY <1>1, LdexpStepIs
      <4> QED  BY <1>1, <4>1
    <3>2. Clamped(LdexpStep(q)) \in Int  BY <3>1, Limits DEF Clamped
    <3> QED  BY <3>1, <3>2, TimesPow2Is DEF LdexpFull
  <2> QED  BY <1>3, <1>5, <2>1, <2>2, <2>3
<1>6. CASE ~(x.k < Underflow) /\ ~(Abs(q) > MaxInt)
  <2>1. u = Number(m)  BY <1>1, <1>6, MantissaIs
  <2>2. q >= -3 * MaxExpo /\ m + 8 * q = x.k
    <3>1. m + 8 * q = x.k  BY <1>1
    <3> HIDE DEF m
    <3> QED  BY <1>1, <1>6, <3>1, Limits
  <2> HIDE DEF m, u
  <2>3. LdexpFull(Number(m), q) = Bounded(m + 8 * q)
    BY <1>1, <2>2, LdexpFullRight
  <2> QED  BY <1>3, <1>6, <2>1, <2>2, <2>3
<1> QED  BY <1>4, <1>5, <1>6

\* The logarithm of a power, and what the exponential makes of it
Times(k, h) == (k * h) \div 2

\* The product of a logarithm and an exponent
LEMMA ProductIs ==
  ASSUME NEW k \in Int, NEW y \in Finites
  PROVE  LET j == Times(k, y.k)
             d == Product(Number(k), y) IN
         /\ j \in Int /\ mul_tdx_tdx_tdx(Number(k), y) = Number(j)
         /\ \/ d = Number(j)
            \/ d = Infinity /\ j > MaxLog
            \/ d = Nought /\ j <= Underflow
<1> DEFINE n == k * y.k
           j == n \div 2
           b == MaxInt * MaxInt
<1>1. y.k \in Int /\ Finite(y)  BY OfFinites
<1>2. n \in Int  BY <1>1
<1> HIDE DEF n
<1>3. j \in Int  BY <1>2
<1>4. b \in Int /\ b >= MaxLog /\ b >= -Underflow
  <2>1. MaxInt \in Int /\ MaxInt >= 28  BY Limits
  <2>2. b \in Int /\ b >= 28 * MaxInt  BY <2>1
  <2> HIDE DEF b
  <2> QED  BY <2>1, <2>2, Limits
<1>5. /\ Number(k).k = k /\ Number(k).kind = "number" /\ Number(k) # Spoilt
  BY OfNumbers
<1>6. mul_tdx_tdx_tdx(Number(k), y) = Number(j)
  BY <1>1, <1>5 DEF mul_tdx_tdx_tdx, n
<1>7. Product(Number(k), y) =
        IF j > b THEN Infinity ELSE IF j < -b THEN MinusInfinity ELSE Number(j)
  BY <1>1, <1>5 DEF Product, n
<1> HIDE DEF j, b
<1>8. (j > b => j > MaxLog) /\ (j < -b => j <= Underflow)
  BY <1>3, <1>4, Limits
<1>9. Times(k, y.k) = j  BY DEF Times, n, j
<1> QED  BY <1>3, <1>6, <1>7, <1>8, <1>9, NoughtIs

\* What the four powers scale by a power of 2
RaisedTo(d, err) == IF IsAbove(d, MaxLog) THEN Infinity ELSE expk(d, err)

RaisedTof(d, err) ==
  IF expkf(d, err) = Undefined THEN Infinity ELSE expkf(d, err)

RaisedToq(d, err) ==
  LET r == exp_tdx_tdx(d, err) IN
  IF r = Undefined \/ (Finite(d) /\ 2 * d.k >= LargeE) THEN Infinity ELSE r

\* Each of the four scales by it.
LEMMA PowersAre ==
  ASSUME NEW k \in LogRange, NEW y \in Finites, NEW err \in {0, 1}
  PROVE  LET d == Product(Number(k), y)
             r == Bounded(Times(k, y.k)) IN
         /\ RaisedTo(d, err) = r /\ RaisedTof(d, err) = r
         /\ r # Infinity => expk3f(d, err) = r
         /\ Narrowed(RaisedToq(mul_tdx_tdx_tdx(Number(k), y), err)) = r
<1> DEFINE j == Times(k, y.k)
           d == Product(Number(k), y)
           r == Bounded(j)
<1>0. k \in Int  BY Limits DEF LogRange
<1>1. /\ j \in Int /\ mul_tdx_tdx_tdx(Number(k), y) = Number(j)
      /\ \/ d = Number(j)
         \/ d = Infinity /\ j > MaxLog
         \/ d = Nought /\ j <= Underflow
  BY <1>0, ProductIs
<1>2. r # Undefined  BY <1>1, OfBounded
<1> HIDE DEF j, d, r
<1>3. /\ Number(j) \in Exponents /\ Number(j) \in Finites /\ Finite(Number(j))
      /\ Number(j).k = j /\ Nought \in Exponents /\ ~Finite(Nought)
      /\ Nought # Infinity /\ Number(j) # Infinity /\ Nought \in Infinites
      /\ ExpOf(Number(j)) = r /\ ExpOf(Nought) = Nought
  BY <1>1, OfNumbers, OfSpecials, NoughtIs, ExponentsAre
     DEF Finites, Infinites, ExpOf, r
<1>4. /\ MaxLog \in Int
      /\ j > MaxLog => r = Infinity
      /\ j <= Underflow => r = Nought
  BY <1>1, Limits, OfBounded DEF r
<1>5. ASSUME d = Number(j)
      PROVE  /\ RaisedTo(d, err) = r /\ RaisedTof(d, err) = r
             /\ r # Infinity => expk3f(d, err) = r
  <2>1. IsAbove(d, MaxLog) <=> j > MaxLog  BY <1>3, <1>4, <1>5, BelowAbove
  <2>2. ~(j > MaxLog) => /\ expk(d, err) = r /\ expk3f(d, err) = r
    <3> SUFFICES ASSUME ~(j > MaxLog)
                 PROVE  expk(d, err) = r /\ expk3f(d, err) = r
      OBVIOUS
    <3>1. d.k <= 9 * MaxExpo + 8  BY <1>1, <1>3, <1>5, Limits
    <3>2. \A low \in (1 - 16 * MaxExpo)..Underflow :
            CutBelow(d, low, RawExp(d, err)) = r
      BY <1>3, <1>5, <3>1, CutBelowRight
    <3> QED  BY <3>2, CutsAre DEF expk, expk3f
  <2>3. RaisedTo(d, err) = r  BY <1>4, <2>1, <2>2 DEF RaisedTo
  <2>4. r # Infinity => expk3f(d, err) = r  BY <1>4, <2>2
  <2>5. RaisedTof(d, err) = r
    <3>1. \/ expkf(d, err) = r
          \/ expkf(d, err) = Undefined /\ j > MaxLog
      BY <1>3, <1>5, ExpkfRight DEF r
    <3> QED  BY <1>2, <1>4, <3>1 DEF RaisedTof
  <2> QED  BY <2>3, <2>4, <2>5
<1>6. ASSUME d = Infinity /\ j > MaxLog
      PROVE  /\ RaisedTo(d, err) = r /\ RaisedTof(d, err) = r
             /\ r # Infinity => expk3f(d, err) = r
  <2>1. RaisedTo(d, err) = r  BY <1>4, <1>6, BelowAbove DEF RaisedTo
  <2>2. expkf(d, err) \in {Undefined, Infinity}
    <3> DEFINE q == Quotient(d, err)
               u == IF Abs(q) > MaxInt THEN Undefined ELSE Mantissa(d, q)
    <3>1. ~Finite(d) /\ d.k \in Int  BY <1>6, OfSpecials
    <3>2. q \in Int  BY <3>1, QuotientIs
    <3>3. u = Undefined  BY <3>1 DEF Mantissa
    <3>4. ~IsBelow(d, Underflow)  BY <1>6, Limits, BelowAbove
    <3> HIDE DEF q
    <3>5. LdexpStep(q) \in Int /\ q - 4 * LdexpStep(q) \in Int
      <4>1. LdexpStep(q) \in Int  BY <3>2, LdexpStepIs
      <4> QED  BY <3>2, <4>1
    <3>6. Clamped(LdexpStep(q)) \in Int  BY <3>5, Limits DEF Clamped
    <3>7. LdexpFull(Undefined, q) = Undefined
      BY <3>5, <3>6, TimesPow2Is DEF LdexpFull
    <3>8. expkf(d, err) = CutBelow(d, Underflow, LdexpFull(u, q))
      BY DEF expkf, q
    <3> QED  BY <3>3, <3>4, <3>7, <3>8 DEF CutBelow
  <2>3. RaisedTof(d, err) = r  BY <1>4, <1>6, <2>2 DEF RaisedTof
  <2> QED  BY <1>4, <1>6, <2>1, <2>3
<1>7. ASSUME d = Nought /\ j <= Underflow
      PROVE  /\ RaisedTo(d, err) = r /\ RaisedTof(d, err) = r
             /\ r # Infinity => expk3f(d, err) = r
  <2>1. /\ ~IsAbove(d, MaxLog) /\ IsBelow(d, Low) /\ IsBelow(d, Underflow)
    <3>1. Low \in Int /\ Underflow \in Int  BY CutsAre, Limits
    <3> QED  BY <1>4, <1>7, <3>1, BelowAbove DEF Nought
  <2>2. expk(d, err) = Nought /\ expk3f(d, err) = Nought
        /\ expkf(d, err) = Nought
    BY <2>1 DEF expk, expk3f, expkf, CutBelow
  <2>3. Nought # Undefined  BY NoughtIs
  <2> QED  BY <1>4, <1>7, <2>1, <2>2, <2>3 DEF RaisedTo, RaisedTof
<1>8. Narrowed(RaisedToq(Number(j), err)) = r
  <2>1. LargeE \in Int /\ LargeE >= 13 * (MaxExpo + 1)
        /\ LargeE = 23 * (MaxExpo + 1)
    BY Limits DEF LargeE
  <2> DEFINE e == exp_tdx_tdx(Number(j), err)
  <2>2. /\ Narrowed(e) = r
        /\ e = IF j >= LargeE THEN Infinity
               ELSE IF j <= -LargeE THEN Nought ELSE Number(j)
    BY <1>3, <2>1, TdxExpRight DEF exp_tdx_tdx
  <2>3. e # Undefined
    BY <1>1, <2>2, NoughtIs, OfNumbers
  <2> HIDE DEF e
  <2>4. RaisedToq(Number(j), err) = IF 2 * j >= LargeE THEN Infinity ELSE e
    BY <1>3, <2>3 DEF RaisedToq, e
  <2>5. 2 * j >= LargeE => j > MaxLog  BY <1>1, <2>1, Limits
  <2>6. Narrowed(Infinity) = Infinity  BY NoughtIs DEF Narrowed
  <2> QED  BY <1>4, <2>2, <2>4, <2>5, <2>6
<1> QED  BY <1>1, <1>5, <1>6, <1>7, <1>8 DEF j, d, r

\* Whether a power is that of a negative number, an even or an odd one, or one
\* of a zero, an infinity or a NaN
LEMMA PowSelectedRight ==
  ASSUME NEW x \in SignedNumbers, NEW y \in Exponents, NEW r,
         x.log.kind = "number" /\ y \in Finites =>
           LET b == Bounded(Times(x.log.k, y.k)) IN
           r = IF ~x.minus THEN Unsigned(b)
               ELSE IF ~IntPower(y) THEN NaNNumber
               ELSE IF OddPower(y) THEN OppositeOf(Unsigned(b)) ELSE Unsigned(b)
  PROVE  PowSelected(x, y, r) = PowC99(x, y)
<1> DEFINE signed(log) == [minus |-> x.minus /\ OddPower(y), log |-> log]
           one == y \in {Number(0), MinusZero} \/ x = Unsigned(LogOne)
           nan == IsNaNNumber(x) \/ y = Undefined
           c99 ==
             CASE IsNought(x) -> signed(IF y.k < 0 THEN Infinity ELSE Nought)
               [] x.log = Infinity ->
                    signed(IF y.k < 0 THEN Nought ELSE Infinity)
               [] x.log.kind = "number" /\ y.kind = "inf" ->
                    Unsigned(IF x.log = LogOne THEN LogOne
                             ELSE IF IsAbove(x.log, 0) = (y = Infinity)
                                  THEN Infinity ELSE Nought)
               [] x.minus /\ x.log.kind = "number" /\ ~IntPower(y) -> NaNNumber
               [] OTHER -> signed(Bounded((x.log.k * y.k) \div 2))
<1>0. /\ x = [minus |-> x.minus, log |-> x.log] /\ x.minus \in BOOLEAN
      /\ \/ /\ x.log.kind = "number" /\ x.log.k \in LogRange
            /\ x.log = Number(x.log.k) /\ x.log \in Finites
         \/ x.log = Nought \/ x.log = Infinity
         \/ x.log = Undefined /\ ~x.minus /\ x = NaNNumber
      /\ IsNaNNumber(x) => x = NaNNumber
  BY SignedNumbersAre
<1>1. PowC99(x, y) = CASE one -> Unsigned(LogOne)
                       [] ~one /\ nan -> NaNNumber [] OTHER -> c99
  BY DEF PowC99
<1>2. PowSelected(x, y, r) =
        IF one THEN Unsigned(LogOne)
        ELSE IF nan THEN NaNNumber
        ELSE IF x.log \in {Infinity, Nought} THEN
          [minus |-> x.minus /\ OddPower(y),
           log |-> IF HasMinus(y) # IsNought(x) THEN Nought ELSE Infinity]
        ELSE IF y.kind = "inf" THEN Unsigned(PowOfInfinite(x, y)) ELSE r
  BY DEF PowSelected
<1>3. one \in BOOLEAN /\ nan \in BOOLEAN  OBVIOUS
<1>4. ASSUME ~one, ~nan
      PROVE  /\ y # MinusZero /\ y # Number(0) /\ y # Undefined
             /\ y \in Finites \/ y = Infinity \/ y = MinusInfinity
             /\ HasMinus(y) <=> y.k < 0
             /\ y.kind = "inf" <=> y = Infinity \/ y = MinusInfinity
             /\ y.k < 0 \/ ~(y.k < 0)
  <2>1. y # MinusZero /\ y # Number(0) /\ y # Undefined  BY <1>4
  <2>2. y \in Finites \/ y = Infinity \/ y = MinusInfinity
    BY <2>1, ExponentsAre DEF Infinites
  <2>3. (y.kind = "inf" <=> y = Infinity \/ y = MinusInfinity)
    BY <2>2, OfFinites, OfSpecials
  <2> QED  BY <2>1, <2>2, <2>3 DEF HasMinus
<1> HIDE DEF one, nan
<1>5. ASSUME ~one, ~nan, x.log = Nought
      PROVE  PowSelected(x, y, r) = c99
  <2>1. IsNought(x) /\ x.log # Infinity /\ x.log.kind # "number"
    BY <1>5, NoughtIs DEF IsNought
  <2>2. c99 = signed(IF y.k < 0 THEN Infinity ELSE Nought)
    BY <2>1, Zenon
  <2> HIDE DEF c99
  <2>3. (IF HasMinus(y) # IsNought(x) THEN Nought ELSE Infinity) =
          IF y.k < 0 THEN Infinity ELSE Nought
    <3>1. HasMinus(y) \in BOOLEAN /\ IsNought(x) \in BOOLEAN
      BY DEF HasMinus, IsNought
    <3> QED  BY <1>4, <1>5, <2>1, <3>1
  <2> QED  BY <1>2, <1>5, <2>2, <2>3
<1>6. ASSUME ~one, ~nan, x.log = Infinity
      PROVE  PowSelected(x, y, r) = c99
  <2>1. ~IsNought(x) /\ x.log.kind # "number"
    BY <1>6, NoughtIs DEF IsNought
  <2>2. c99 = signed(IF y.k < 0 THEN Nought ELSE Infinity)
    BY <1>6, <2>1, Zenon
  <2> HIDE DEF c99
  <2>3. (IF HasMinus(y) # IsNought(x) THEN Nought ELSE Infinity) =
          IF y.k < 0 THEN Nought ELSE Infinity
    <3>1. HasMinus(y) \in BOOLEAN /\ IsNought(x) \in BOOLEAN
      BY DEF HasMinus, IsNought
    <3> QED  BY <1>4, <1>6, <2>1, <3>1
  <2> QED  BY <1>2, <1>6, <2>2, <2>3
<1>7. ASSUME ~one, ~nan, x.log.kind = "number", y.kind = "inf"
      PROVE  PowSelected(x, y, r) = c99
  <2>1. ~IsNought(x) /\ x.log \notin {Infinity, Nought} /\ IntPower(y)
    BY <1>7, NoughtIs DEF IsNought, IntPower
  <2>2. c99 = Unsigned(IF x.log = LogOne THEN LogOne
                       ELSE IF IsAbove(x.log, 0) = (y = Infinity)
                            THEN Infinity ELSE Nought)
    BY <1>7, <2>1, Zenon
  <2> HIDE DEF c99
  <2>3. PowOfInfinite(x, y) =
          IF x.log = LogOne THEN LogOne
          ELSE IF IsAbove(x.log, 0) = (y = Infinity) THEN Infinity ELSE Nought
    <3>1. IsAbove(x.log, 0) \in BOOLEAN /\ HasMinus(y) \in BOOLEAN
      BY DEF IsAbove, HasMinus
    <3>2. HasMinus(y) <=> ~(y = Infinity)
      <4>1. y = Infinity \/ y = MinusInfinity  BY <1>4, <1>7
      <4> QED  BY <4>1, OfSpecials
    <3> QED  BY <3>1, <3>2 DEF PowOfInfinite
  <2> QED  BY <1>2, <1>7, <2>1, <2>2, <2>3
<1>8. ASSUME ~one, ~nan, x.log.kind = "number", y.kind # "inf"
      PROVE  PowSelected(x, y, r) = c99
  <2> DEFINE b == Bounded(Times(x.log.k, y.k))
  <2>0. y \in Finites  BY <1>4, <1>8, OfSpecials
  <2>1. ~IsNought(x) /\ x.log \notin {Infinity, Nought}
    BY <1>8, NoughtIs DEF IsNought
  <2>2. c99 = IF x.minus /\ ~IntPower(y) THEN NaNNumber ELSE signed(b)
    BY <1>8, <2>1 DEF Times
  <2> HIDE DEF c99
  <2>3. PowSelected(x, y, r) = r  BY <1>2, <1>8, <2>1
  <2>4. /\ ~x.minus => r = Unsigned(b)
        /\ x.minus /\ ~IntPower(y) => r = NaNNumber
        /\ x.minus /\ IntPower(y) /\ OddPower(y) => r = OppositeOf(Unsigned(b))
        /\ x.minus /\ IntPower(y) /\ ~OddPower(y) => r = Unsigned(b)
    BY <1>8, <2>0
  <2>5. b # Undefined
    <3>1. x.log.k \in Int  BY <1>0, <1>8, NoughtIs, OfSpecials, OfFinites
    <3>2. Times(x.log.k, y.k) \in Int  BY <2>0, <3>1, ProductIs
    <3> QED  BY <3>2, OfBounded
  <2> HIDE DEF b
  <2>6. OppositeOf(Unsigned(b)) = [minus |-> TRUE, log |-> b]
    BY <2>5 DEF OppositeOf, Unsigned, IsNaNNumber
  <2>7. CASE ~x.minus
    <3>1. (x.minus /\ OddPower(y)) = FALSE  BY <2>7
    <3> QED  BY <2>2, <2>3, <2>4, <2>7, <3>1 DEF Unsigned
  <2>8. CASE x.minus /\ ~IntPower(y)  BY <2>2, <2>3, <2>4, <2>8
  <2>9. CASE x.minus /\ IntPower(y) /\ OddPower(y)
    <3>1. (x.minus /\ OddPower(y)) = TRUE  BY <2>9
    <3> QED  BY <2>2, <2>3, <2>4, <2>6, <2>9, <3>1
  <2>10. CASE x.minus /\ IntPower(y) /\ ~OddPower(y)
    <3>1. (x.minus /\ OddPower(y)) = FALSE  BY <2>10
    <3> QED  BY <2>2, <2>3, <2>4, <2>10, <3>1 DEF Unsigned
  <2> QED  BY <2>7, <2>8, <2>9, <2>10
<1>9. ASSUME ~one, ~nan  PROVE PowSelected(x, y, r) = c99
  <2>1. x.log # Undefined  BY <1>9 DEF nan, IsNaNNumber
  <2> HIDE DEF c99
  <2> QED  BY <1>0, <1>5, <1>6, <1>7, <1>8, <1>9, <2>1
<1> HIDE DEF c99
<1> QED  BY <1>1, <1>2, <1>3, <1>9

\* The power of a number that is not zero, infinite or NaN, with its sign
SignedPower(x, y, b) ==
  IF ~x.minus THEN Unsigned(b)
  ELSE IF ~IntPower(y) THEN NaNNumber
  ELSE IF OddPower(y) THEN OppositeOf(Unsigned(b)) ELSE Unsigned(b)

\* The sign of a power is that of an odd power of a negative number.
LEMMA SignsAre ==
  ASSUME NEW x \in SignedNumbers, NEW y \in Finites, NEW u,
         x.log.kind = "number"
  PROVE  /\ PowSign(x, y, u) = SignedPower(x, y, u)
         /\ TdxSign(x, y, u) = SignedPower(x, y, u)
         /\ logk(AbsNumber(x)) = x.log /\ logkf(AbsNumber(x)) = x.log
         /\ logk3f(AbsNumber(x)) = x.log
         /\ logk_tdx_tdx(AbsNumber(x)) = x.log
         /\ x.log = Number(x.log.k) /\ x.log.k \in LogRange /\ x.log.k \in Int
<1>1. /\ x.log = Number(x.log.k) /\ x.log.k \in LogRange /\ x.log # Nought
      /\ x.log # Undefined /\ x.log # Infinity
  BY SignedNumbersAre, NoughtIs, OfSpecials
<1>2. x.log.k \in Int  BY <1>1, Limits DEF LogRange
<1>3. ~IsNought(x) /\ ~IsNaNNumber(x)  BY <1>1 DEF IsNought, IsNaNNumber
<1>4. PowSign(x, y, u) = SignedPower(x, y, u)
  BY <1>3 DEF PowSign, SignedPower
<1>5. isint_vo_tdx(y) <=> IntPower(y)
  BY OfFinites DEF isint_vo_tdx, IntPower
<1>6. IntPower(y) => (isodd_vo_tdx(y) <=> OddPower(y))
  <2>1. y.k \in Int /\ Finite(y) /\ y.kind # "inf"  BY OfFinites
  <2>2. y.k % 2 = 0 => (y.k % 4 # 0 <=> y.k % 4 = 2)  BY <2>1
  <2> QED  BY <2>1, <2>2 DEF isodd_vo_tdx, OddPower, IntPower
<1>7. TdxSign(x, y, u) = SignedPower(x, y, u)
  BY <1>3, <1>5, <1>6 DEF TdxSign, SignedPower
<1>8. /\ logk(AbsNumber(x)) = x.log /\ logkf(AbsNumber(x)) = x.log
      /\ logk3f(AbsNumber(x)) = x.log
  <2>1. RawLog(Unsigned(x.log)) = x.log  BY <1>1, RawLogRight
  <2> QED  BY <2>1 DEF logk, logkf, logk3f, AbsNumber
<1>9. logk_tdx_tdx(AbsNumber(x)) = x.log
  <2>1. /\ Unsigned(x.log).log = x.log /\ Unsigned(x.log).minus = FALSE
    BY DEF Unsigned
  <2>2. TdxLogOf(x.log.k) = x.log  BY <1>1, <1>2, TdxLogOfIs
  <2> QED  BY <1>1, <2>1, <2>2
           DEF logk_tdx_tdx, TdxLog, AbsNumber, IsNought, IsNaNNumber
<1> QED  BY <1>1, <1>2, <1>4, <1>7, <1>8, <1>9

\* Updates of a number with a sign
LEMMA RecordUpdates ==
  ASSUME NEW m, NEW v, NEW w, NEW r, r = [minus |-> m, log |-> v]
  PROVE  [r EXCEPT !.log = w] = [minus |-> m, log |-> w] /\ r.log = v
OBVIOUS

\* and of one without
LEMMA UnsignedUpdates ==
  ASSUME NEW v, NEW w
  PROVE  Unsigned(v).log = v /\ [Unsigned(v) EXCEPT !.log = w] = Unsigned(w)
<1> DEFINE r == Unsigned(v)
           no == FALSE
<1>1. r = [minus |-> no, log |-> v]  BY DEF Unsigned
<1>2. Unsigned(w) = [minus |-> no, log |-> w]  BY DEF Unsigned
<1> HIDE DEF r, no
<1>3. r.log = v /\ [r EXCEPT !.log = w] = [minus |-> no, log |-> w]
  BY <1>1, RecordUpdates
<1> QED  BY <1>2, <1>3 DEF r

\* What is selected is not touched by the conversion of a triple-double number.
LEMMA NarrowedSelection ==
  ASSUME NEW x \in SignedNumbers, NEW y \in Exponents, NEW r
  PROVE  [PowSelected(x, y, r) EXCEPT !.log = Narrowed(@)] =
           PowSelected(x, y, [r EXCEPT !.log = Narrowed(@)])
<1> DEFINE N(v) == [v EXCEPT !.log = Narrowed(v.log)]
           one == y \in {Number(0), MinusZero} \/ x = Unsigned(LogOne)
           nan == IsNaNNumber(x) \/ y = Undefined
           large == [minus |-> x.minus /\ OddPower(y),
                     log |-> IF HasMinus(y) # IsNought(x) THEN Nought
                             ELSE Infinity]
           inf == Unsigned(PowOfInfinite(x, y))
           S(v) == IF one THEN Unsigned(LogOne)
                   ELSE IF nan THEN NaNNumber
                   ELSE IF x.log \in {Infinity, Nought} THEN large
                   ELSE IF y.kind = "inf" THEN inf ELSE v
<1>1. \A v : PowSelected(x, y, v) = S(v)  BY DEF PowSelected
<1>2. /\ Narrowed(LogOne) = LogOne /\ Narrowed(Nought) = Nought
      /\ Narrowed(Infinity) = Infinity /\ Narrowed(Undefined) = Undefined
  <2>1. Bounded(0) = Number(0)  BY OfBounded, Limits
  <2>2. Number(0).kind = "number" /\ Number(0).k = 0  BY OfNumbers
  <2> QED  BY <2>1, <2>2, NoughtIs, OfSpecials DEF Narrowed, LogOne
<1>3. /\ N(Unsigned(LogOne)) = Unsigned(LogOne) /\ N(NaNNumber) = NaNNumber
      /\ N(large) = large
  <2>1. N(Unsigned(LogOne)) = Unsigned(LogOne)  BY <1>2, UnsignedUpdates
  <2>2. N(NaNNumber) = NaNNumber  BY <1>2, UnsignedUpdates DEF NaNNumber
  <2>3. N(large) = large
    <3> DEFINE m == x.minus /\ OddPower(y)
               l == IF HasMinus(y) # IsNought(x) THEN Nought ELSE Infinity
    <3>1. Narrowed(l) = l  BY <1>2
    <3>2. large = [minus |-> m, log |-> l]  OBVIOUS
    <3> HIDE DEF m, l, large
    <3>3. large.log = l  BY <3>2
    <3>4. N(large) = [large EXCEPT !.log = l]  BY <3>1, <3>3
    <3> QED  BY <3>2, <3>4, RecordUpdates
  <2> QED  BY <2>1, <2>2, <2>3
<1>4. N(inf) = inf
  <2>1. PowOfInfinite(x, y) \in {LogOne, Nought, Infinity}
    BY DEF PowOfInfinite
  <2>2. Narrowed(PowOfInfinite(x, y)) = PowOfInfinite(x, y)  BY <1>2, <2>1
  <2> QED  BY <2>2, UnsignedUpdates
<1> HIDE DEF one, nan, large, inf
<1>5. N(S(r)) = S(N(r))  BY <1>3, <1>4
<1> HIDE DEF S
<1> QED  BY <1>1, <1>5

\* All powers are what C99 says.
LEMMA AllPowersRight ==
  ASSUME NEW x \in SignedNumbers, NEW y \in Exponents, NEW err \in {0, 1}
  PROVE  /\ xpow(x, y, err) = PowC99(x, y)
         /\ xpowf(x, y, err) = PowC99(x, y)
         /\ xpowq_u10(x, y, err) = PowC99(x, y)
         /\ ~x.minus /\ x.log.kind = "number" /\ Finite(y)
            /\ PowC99(x, y).log # Infinity =>
              xfastpowf_u3500(x, y, err) = PowC99(x, y)
<1> DEFINE b == Bounded(Times(x.log.k, y.k))
           plain == x.log.kind = "number" /\ y \in Finites
<1>1. \A r : (plain => r = SignedPower(x, y, b)) =>
        PowSelected(x, y, r) = PowC99(x, y)
  BY PowSelectedRight DEF SignedPower
<1>2. xpow(x, y, err) = PowC99(x, y)
  <2> DEFINE u == RaisedTo(Product(logk(AbsNumber(x)), y), err)
  <2>1. plain => u = b  BY SignsAre, PowersAre
  <2>2. xpow(x, y, err) = PowSelected(x, y, PowSign(x, y, u))
    BY DEF xpow, RaisedTo
  <2> HIDE DEF u, b
  <2>3. plain => PowSign(x, y, u) = SignedPower(x, y, b)  BY <2>1, SignsAre
  <2> QED  BY <1>1, <2>2, <2>3
<1>3. xpowf(x, y, err) = PowC99(x, y)
  <2> DEFINE u == RaisedTof(Product(logkf(AbsNumber(x)), y), err)
  <2>1. plain => u = b  BY SignsAre, PowersAre
  <2>2. xpowf(x, y, err) = PowSelected(x, y, PowSign(x, y, u))
    BY DEF xpowf, RaisedTof
  <2> HIDE DEF u, b
  <2>3. plain => PowSign(x, y, u) = SignedPower(x, y, b)  BY <2>1, SignsAre
  <2> QED  BY <1>1, <2>2, <2>3
<1>4. xpowq_u10(x, y, err) = PowC99(x, y)
  <2> DEFINE u == RaisedToq(mul_tdx_tdx_tdx(logk_tdx_tdx(AbsNumber(x)), y), err)
             s == TdxSign(x, y, u)
             n == [s EXCEPT !.log = Narrowed(s.log)]
  <2>1. plain => Narrowed(u) = b  BY SignsAre, PowersAre
  <2>2. pow_tdx_tdx_tdx(x, y, err) = PowSelected(x, y, s)
    BY DEF pow_tdx_tdx_tdx, RaisedToq
  <2> HIDE DEF u
  <2>3. xpowq_u10(x, y, err) = PowSelected(x, y, n)
    <3> HIDE DEF s
    <3> QED  BY <2>2, NarrowedSelection DEF xpowq_u10
  <2>4. plain => n = SignedPower(x, y, b)
    <3> SUFFICES ASSUME plain  PROVE n = SignedPower(x, y, b)
      OBVIOUS
    <3>1. s = SignedPower(x, y, u)  BY SignsAre
    <3>2. Times(x.log.k, y.k) \in Int  BY SignsAre, ProductIs
    <3>3. b # Undefined  BY <3>2, OfBounded
    <3>4. Narrowed(Undefined) = Undefined /\ u # Undefined
      <4>1. Narrowed(Undefined) = Undefined  BY OfSpecials DEF Narrowed
      <4> HIDE DEF b
      <4> QED  BY <2>1, <3>3, <4>1
    <3> HIDE DEF b, s
    <3>5. /\ OppositeOf(Unsigned(u)) = [minus |-> TRUE, log |-> u]
          /\ OppositeOf(Unsigned(b)) = [minus |-> TRUE, log |-> b]
      BY <3>3, <3>4 DEF OppositeOf, Unsigned, IsNaNNumber
    <3>6. /\ [Unsigned(u) EXCEPT !.log = Narrowed(Unsigned(u).log)] =
               Unsigned(b)
          /\ [NaNNumber EXCEPT !.log = Narrowed(NaNNumber.log)] = NaNNumber
      BY <2>1, <3>4, UnsignedUpdates DEF NaNNumber
    <3>7. CASE ~x.minus  BY <3>1, <3>6, <3>7 DEF SignedPower
    <3>8. CASE x.minus /\ ~IntPower(y)  BY <3>1, <3>6, <3>8 DEF SignedPower
    <3>9. CASE x.minus /\ IntPower(y) /\ OddPower(y)
      <4> DEFINE yes == TRUE
      <4>1. s = [minus |-> yes, log |-> u]  BY <3>1, <3>5, <3>9 DEF SignedPower
      <4>2. SignedPower(x, y, b) = [minus |-> yes, log |-> b]
        BY <3>5, <3>9 DEF SignedPower
      <4> HIDE DEF yes
      <4>3. s.log = u /\ [s EXCEPT !.log = b] = [minus |-> yes, log |-> b]
        BY <4>1, RecordUpdates
      <4>4. n = [s EXCEPT !.log = b]  BY <2>1, <4>3
      <4> QED  BY <4>2, <4>3, <4>4
    <3>10. CASE x.minus /\ IntPower(y) /\ ~OddPower(y)
      BY <3>1, <3>6, <3>10 DEF SignedPower
    <3> QED  BY <3>7, <3>8, <3>9, <3>10
  <2> HIDE DEF n, b
  <2> QED  BY <1>1, <2>3, <2>4
<1>5. ASSUME ~x.minus, x.log.kind = "number", Finite(y),
             PowC99(x, y).log # Infinity
      PROVE  xfastpowf_u3500(x, y, err) = PowC99(x, y)
  <2>1. y \in Finites /\ plain
    BY <1>5, ExponentsAre, OfInfinites
  <2>2. PowSelected(x, y, Unsigned(b)) = PowC99(x, y)
    <3>1. SignedPower(x, y, b) = Unsigned(b)  BY <1>5 DEF SignedPower
    <3> QED  BY <1>1, <2>1, <3>1
  <2> DEFINE u == Unsigned(expk3f(Product(logk3f(AbsNumber(x)), y), err))
  <2>3. b # Infinity => u = Unsigned(b)  BY <1>5, <2>1, SignsAre, PowersAre
  <2>4. xfastpowf_u3500(x, y, err) =
          IF y \in {Number(0), MinusZero} THEN Unsigned(LogOne) ELSE u
    <3>1. ~IsNought(x)  BY <1>5, NoughtIs DEF IsNought
    <3> QED  BY <1>5, <3>1 DEF xfastpowf_u3500
  <2> HIDE DEF u
  <2>5. CASE y \in {Number(0), MinusZero}
    BY <2>2, <2>4, <2>5 DEF PowSelected
  <2>6. CASE y \notin {Number(0), MinusZero} /\ x = Unsigned(LogOne)
    <3>1. x.log = Number(0) /\ x.log.k = 0 /\ y.k \in Int
      BY <2>1, <2>6, OfNumbers, OfFinites DEF Unsigned, LogOne
    <3>2. Times(0, y.k) = 0
      <4>1. 0 * y.k = 0  BY <3>1
      <4>2. 0 \div 2 = 0  OBVIOUS
      <4> QED  BY <4>1, <4>2 DEF Times
    <3>3. b = Number(0) /\ b # Infinity
      BY <3>1, <3>2, OfBounded, NoughtIs, Limits
    <3> HIDE DEF b
    <3> QED  BY <2>2, <2>3, <2>4, <2>6, <3>3 DEF PowSelected, LogOne
  <2>7. CASE y \notin {Number(0), MinusZero} /\ x # Unsigned(LogOne)
    <3>1. PowSelected(x, y, Unsigned(b)) = Unsigned(b)
      <4>1. /\ x.log # Undefined /\ x.log # Infinity /\ x.log # Nought
            /\ y # Undefined /\ y.kind # "inf"
        BY <1>5, <2>1, NoughtIs, OfSpecials, OfFinites
      <4> HIDE DEF b
      <4> QED  BY <2>7, <4>1 DEF PowSelected, IsNaNNumber
    <3>2. b # Infinity
      <4> HIDE DEF b
      <4> QED  BY <1>5, <2>2, <3>1 DEF Unsigned
    <3> HIDE DEF b
    <3> QED  BY <2>2, <2>3, <2>4, <2>7, <3>1, <3>2
  <2> QED  BY <2>5, <2>6, <2>7
<1> QED  BY <1>2, <1>3, <1>4, <1>5

\* Exponential functions, logarithms, cube roots and powers, by name
LEMMA ExpFamilies ==
  ASSUME NEW c
  PROVE  /\ c.fn \in Exps /\ c.x \in Exponents /\ c.err \in {0, 1} =>
              ExpResult(c) = IF Finite(c.x) THEN Bounded(c.x.k) ELSE c.x
         /\ c.fn \in Logs /\ c.x \in SignedNumbers =>
              ExpResult(c) = IF c.x.minus /\ ~IsNought(c.x) THEN Undefined
                             ELSE c.x.log
         /\ c.fn \in Roots /\ c.x \in SignedNumbers => ExpResult(c) = c.x
         /\ (/\ c.fn \in Powers /\ c.x \in SignedNumbers
             /\ c.y \in Exponents /\ c.err \in {0, 1}) =>
              ExpResult(c) = PowC99(c.x, c.y)
         /\ (/\ c.fn \in FastPowers /\ c.x \in SignedNumbers
             /\ c.y \in Exponents /\ c.err \in {0, 1}
             /\ ~c.x.minus /\ c.x.log.kind = "number" /\ Finite(c.y)
             /\ PowC99(c.x, c.y).log # Infinity) =>
              ExpResult(c) = PowC99(c.x, c.y)
<1> DEFINE x == c.x
           y == c.y
           err == c.err
<1>1. ASSUME c.fn \in Exps, x \in Exponents, err \in {0, 1}
      PROVE  ExpResult(c) = IF Finite(x) THEN Bounded(x.k) ELSE x
  <2> DEFINE r == ExpOf(x)
  <2>1. /\ xexp(x, err) = r /\ xexpf(x, err) = r /\ xexp2(x, err) = r
        /\ xexp2_u35(x, err) = r /\ xexp10(x, err) = r
        /\ xexp10_u35(x, err) = r /\ xexp2f(x, err) = r
        /\ xexp2f_u35(x, err) = r /\ xexp10f(x, err) = r
        /\ xexp10f_u35(x, err) = r /\ xexpq_u10(x, err) = r
        /\ xexp2q_u10(x, err) = r /\ xexp10q_u10(x, err) = r
    BY <1>1, ExpsRight
  <2>2. r = IF Finite(x) THEN Bounded(x.k) ELSE x  BY DEF ExpOf
  <2> HIDE DEF r
  <2>3. ExpResult(c) = r  BY <1>1, <2>1, Zenon DEF ExpResult, Exps
  <2> QED  BY <2>2, <2>3
<1>2. ASSUME c.fn \in Logs, x \in SignedNumbers
      PROVE  ExpResult(c) = IF x.minus /\ ~IsNought(x) THEN Undefined ELSE x.log
  <2> DEFINE r == IF x.minus /\ ~IsNought(x) THEN Undefined ELSE x.log
  <2>1. /\ xlog(x) = r /\ xlog_u1(x) = r /\ xlog10(x) = r /\ xlog2(x) = r
        /\ xlog2_u35(x) = r /\ xlogf(x) = r /\ xlogf_u1(x) = r
        /\ xlog10f(x) = r /\ xlog2f(x) = r /\ xlog2f_u35(x) = r
        /\ xlogq_u10(x) = r /\ xlog2q_u10(x) = r /\ xlog10q_u10(x) = r
    BY <1>2, LogsRight
       DEF xlog, xlog_u1, xlog10, xlog2, xlog2_u35, xlogf, xlogf_u1, xlog10f,
           xlog2f, xlog2f_u35, xlogq_u10, xlog2q_u10, xlog10q_u10,
           log_tdx_tdx, log2_tdx_tdx, log10_tdx_tdx
  <2> HIDE DEF r
  <2> QED  BY <1>2, <2>1, Zenon DEF ExpResult, Logs, r
<1>3. ASSUME c.fn \in Roots, x \in SignedNumbers
      PROVE  ExpResult(c) = x
  <2>1. /\ xcbrt(x) = x /\ xcbrt_u1(x) = x /\ xcbrtf(x) = x
        /\ xcbrtf_u1(x) = x /\ xcbrtq_u10(x) = x
    BY <1>3, RootsRight
  <2> QED  BY <1>3, <2>1, Zenon DEF ExpResult, Roots
<1>4. ASSUME c.fn \in Powers, x \in SignedNumbers, y \in Exponents,
             err \in {0, 1}
      PROVE  ExpResult(c) = PowC99(x, y)
  <2> DEFINE r == PowC99(x, y)
  <2>1. /\ xpow(x, y, err) = r /\ xpowf(x, y, err) = r
        /\ xpowq_u10(x, y, err) = r
    BY <1>4, AllPowersRight
  <2> HIDE DEF r
  <2> QED  BY <1>4, <2>1, Zenon DEF ExpResult, Powers, r
<1>5. ASSUME c.fn \in FastPowers, x \in SignedNumbers, y \in Exponents,
             err \in {0, 1}, ~x.minus, x.log.kind = "number", Finite(y),
             PowC99(x, y).log # Infinity
      PROVE  ExpResult(c) = PowC99(x, y)
  <2>1. xfastpowf_u3500(x, y, err) = PowC99(x, y)  BY <1>5, AllPowersRight
  <2>2. ExpResult(c) = xfastpowf_u3500(x, y, err)
    BY <1>5, Zenon DEF ExpResult, FastPowers
  <2> QED  BY <2>1, <2>2
<1> QED  BY <1>1, <1>2, <1>3, <1>4, <1>5

-----------------------------------------------------------------------------
(* Functions that are made of an exponential or a logarithm *)

\* An odd and an even function up to c, and their limits beyond
Odd(x, c) ==
  IF Finite(x) /\ Abs(x.k) > c THEN SignedAs(Infinity, x) ELSE x

Even(x, c) ==
  IF Finite(x) /\ Abs(x.k) > c THEN Infinity ELSE Magnitude(x)

\* An odd function that gives up in time is within its limits;
LEMMA OddIsWithin ==
  ASSUME NEW x \in Exponents, NEW c \in Int, NEW range \in Int, NEW far \in Int,
         range <= c, c <= far
  PROVE  Within(Odd(x, c), x, range, far, SignedAs(Infinity, x))
<1>1. CASE x \in Finites
  <2>1. Finite(x) /\ Abs(x.k) \in Int  BY <1>1, OfFinites
  <2> HIDE DEF Abs
  <2> QED  BY <2>1 DEF Within, Odd
<1>2. CASE x \in Infinites
  BY <1>2, OfInfinites DEF Within, Odd
<1> QED  BY <1>1, <1>2, ExponentsAre

\* The argument without its sign
LEMMA MagnitudeIs ==
  ASSUME NEW x \in Exponents
  PROVE  /\ x \in Finites =>
              /\ Magnitude(x) = Number(Abs(x.k)) /\ Abs(x.k) \in Nat
              /\ Number(Abs(x.k)).k = Abs(x.k) /\ Finite(Number(Abs(x.k)))
              /\ Number(Abs(x.k)) \in Finites
              /\ Number(Abs(x.k)) \in Exponents
              /\ Abs(Abs(x.k)) = Abs(x.k)
         /\ x \in {Infinity, MinusInfinity} => Magnitude(x) = Infinity
         /\ Magnitude(Undefined) = Undefined
<1>1. ASSUME x \in Finites
      PROVE  /\ Magnitude(x) = Number(Abs(x.k)) /\ Abs(x.k) \in Nat
             /\ Number(Abs(x.k)).k = Abs(x.k) /\ Finite(Number(Abs(x.k)))
             /\ Number(Abs(x.k)) \in Finites
             /\ Number(Abs(x.k)) \in Exponents
             /\ Abs(Abs(x.k)) = Abs(x.k)
  <2>1. Magnitude(x) = Number(Abs(x.k)) /\ Abs(x.k) \in Nat  BY <1>1, OfFinites
  <2>2. Abs(Abs(x.k)) = Abs(x.k)
    <3> DEFINE a == Abs(x.k)
    <3>1. a \in Nat  BY <2>1
    <3> HIDE DEF a
    <3>2. Abs(a) = a  BY <3>1 DEF Abs
    <3> QED  BY <3>2 DEF a
  <2>3. Abs(x.k) \in Int  BY <2>1
  <2> QED  BY <2>1, <2>2, <2>3, OfNumbers, ExponentsAre DEF Finites
<1>2. x \in {Infinity, MinusInfinity} => Magnitude(x) = Infinity
  BY OfInfinites, OfSpecials DEF Infinites
<1>3. Magnitude(Undefined) = Undefined  BY OfInfinites DEF Infinites
<1> QED  BY <1>1, <1>2, <1>3

\* so is an even one.
LEMMA EvenIsWithin ==
  ASSUME NEW x \in Exponents, NEW c \in Int, NEW range \in Int, NEW far \in Int,
         range <= c, c <= far
  PROVE  Within(Even(x, c), Magnitude(x), range, far, Infinity)
<1>1. CASE x \in Finites
  <2> DEFINE a == Abs(x.k)
  <2>1. /\ Finite(x) /\ Magnitude(x) = Number(a) /\ Finite(Number(a))
        /\ a \in Int /\ Abs(Number(a).k) = a
    BY <1>1, OfFinites, MagnitudeIs
  <2> HIDE DEF a
  <2>2. Even(x, c) = IF a > c THEN Infinity ELSE Number(a)
    BY <2>1 DEF Even, a
  <2> QED  BY <2>1, <2>2 DEF Within
<1>2. CASE x \in Infinites
  <2>1. ~Finite(x) /\ ~Finite(Magnitude(x))
    BY <1>2, OfInfinites, OfSpecials
  <2> QED  BY <2>1 DEF Within, Even
<1> QED  BY <1>1, <1>2, ExponentsAre

\* What is selected of y, which is NaN beyond top
LEMMA SelectionIs ==
  ASSUME NEW x \in Exponents, NEW y, NEW cut \in Int, NEW top \in Int,
         x \in Finites /\ Abs(x.k) <= cut =>
           y = IF Abs(x.k) <= top THEN Number(Abs(x.k)) ELSE Undefined
  PROVE  LET c == IF top < cut THEN top ELSE cut IN
         /\ OddSelection(x, y, cut) = Odd(x, c)
         /\ Selection(x, y, cut, Infinity) = Even(x, c)
<1> DEFINE c == IF top < cut THEN top ELSE cut
<1>1. CASE x \in Finites
  <2> DEFINE a == Abs(x.k)
  <2>1. /\ Finite(x) /\ x # Undefined /\ a \in Int /\ Magnitude(x) = Number(a)
        /\ Number(a) # Undefined /\ SignedAs(Number(a), x) = x
        /\ Number(a) \in Finites /\ Number(a).k = a
    <3>1. a \in Int  BY <1>1, OfFinites
    <3> QED  BY <1>1, <3>1, OfFinites, OfSpecials, OfNumbers, MagnitudeIs
  <2> HIDE DEF a
  <2>2. IsAbove(Magnitude(x), cut) <=> a > cut  BY <2>1, BelowAbove
  <2>3. Selection(x, y, cut, Infinity) = IF a > c THEN Infinity ELSE Number(a)
    <3>1. CASE a > cut
      <4>1. a > c  BY <2>1, <3>1
      <4> QED  BY <2>1, <2>2, <3>1, <4>1 DEF Selection, OrNaN
    <3>2. CASE ~(a > cut) /\ a <= top
      <4>1. ~(a > c) /\ a <= cut  BY <2>1, <3>2
      <4>2. y = Number(a)  BY <1>1, <3>2, <4>1 DEF a
      <4> QED  BY <2>1, <2>2, <3>2, <4>1, <4>2 DEF Selection, OrNaN
    <3>3. CASE ~(a > cut) /\ ~(a <= top)
      <4>1. a > c /\ a <= cut  BY <2>1, <3>3
      <4>2. y = Undefined  BY <1>1, <3>3, <4>1 DEF a
      <4> QED  BY <2>1, <2>2, <3>3, <4>1, <4>2 DEF Selection, OrNaN
    <3> QED  BY <3>1, <3>2, <3>3
  <2> HIDE DEF c
  <2> QED  BY <2>1, <2>3 DEF OddSelection, Odd, Even, c, a
<1>2. CASE x = Undefined
  <2>1. /\ Selection(x, y, cut, Infinity) = Undefined /\ ~Finite(x)
        /\ Magnitude(x) = Undefined /\ SignedAs(Undefined, x) = Undefined
    BY <1>2, OfInfinites DEF Selection, OrNaN, Infinites
  <2> QED  BY <1>2, <2>1 DEF OddSelection, Odd, Even
<1>3. CASE x \in {Infinity, MinusInfinity}
  <2>1. /\ Magnitude(x) = Infinity /\ x # Undefined /\ ~Finite(x)
        /\ SignedAs(Infinity, x) = x
    BY <1>3, OfInfinites, OfSpecials, MagnitudeIs DEF Infinites
  <2>2. IsAbove(Infinity, cut)  BY BelowAbove
  <2> QED  BY <2>1, <2>2 DEF Selection, OrNaN, OddSelection, Odd, Even
<1> QED  BY <1>1, <1>2, <1>3, ExponentsAre DEF Infinites

\* The exponential of the argument's size, which is not negative
LEMMA OfExpsAre ==
  ASSUME NEW x \in Finites, NEW err \in {0, 1}
  PROVE  LET a == Abs(x.k) IN
         /\ a <= 8 * MaxExpo + 10 =>
              /\ OfExp(x, err) = IF a <= MaxLog THEN Number(a) ELSE Undefined
              /\ OfExpf(x, err) = IF a <= MaxLog THEN Number(a) ELSE Undefined
         /\ a <= MaxLog =>
              /\ OfExpm1(x, err) = Number(a)
              /\ xexp(Magnitude(x), err) = Number(a)
              /\ xexpf(Magnitude(x), err) = Number(a)
         /\ 2 * a <= MaxLog => OfExpm1Doubled(x, err) = Number(a)
<1> DEFINE a == Abs(x.k)
<1>0. x \in Exponents  BY ExponentsAre
<1>1. /\ Magnitude(x) = Number(a) /\ a \in Nat /\ Number(a) \in Finites
      /\ Number(a) \in Exponents /\ Number(a).k = a /\ Finite(Number(a))
      /\ Number(a) # Infinity /\ Number(a).kind = "number"
  BY <1>0, MagnitudeIs, OfNumbers, OfSpecials, OfFinites
<1> HIDE DEF a
<1>2. ExpOf(Number(a)) = IF a <= MaxLog THEN Number(a) ELSE Infinity
  <2>1. a > Underflow /\ (~(a <= MaxLog) => a > MaxLog)  BY <1>1, Limits
  <2>2. ExpOf(Number(a)) = Bounded(a)  BY <1>1 DEF ExpOf
  <2> QED  BY <1>1, <2>1, <2>2, OfBounded
<1>3. ASSUME a <= 8 * MaxExpo + 10
      PROVE  /\ OfExp(x, err) = IF a <= MaxLog THEN Number(a) ELSE Undefined
             /\ OfExpf(x, err) = IF a <= MaxLog THEN Number(a) ELSE Undefined
  <2>1. Number(a).k <= 9 * MaxExpo + 8  BY <1>1, <1>3, Limits
  <2>2. \A low \in (1 - 16 * MaxExpo)..Underflow :
          CutBelow(Number(a), low, RawExp(Number(a), err)) = ExpOf(Number(a))
    BY <1>1, <2>1, CutBelowRight
  <2>3. /\ expk2(Number(a), err) = ExpOf(Number(a))
        /\ expk2f(Number(a), err) = ExpOf(Number(a))
    BY <2>2, CutsAre DEF expk2, expk2f
  <2> QED  BY <1>1, <1>2, <2>3 DEF OfExp, OfExpf, NoInfinity
<1>4. \A b \in Nat : b <= MaxLog => expm1k(Number(b), err) = Number(b)
  <2> SUFFICES ASSUME NEW b \in Nat, b <= MaxLog
               PROVE  expm1k(Number(b), err) = Number(b)
    OBVIOUS
  <2> DEFINE q == Quotient(Number(b), err)
  <2>1. /\ b \in Int /\ Finite(Number(b)) /\ Number(b).k = b
        /\ Number(b).kind = "number" /\ Number(b) \in Finites
    BY OfNumbers DEF Finites
  <2>2. q \in Int /\ b - 8 * q \in -4..4  BY <2>1, QuotientIs
  <2> HIDE DEF q
  <2>3. CASE q = 0
    <3>1. b - 8 * 0 \in -4..4 /\ b - 8 * 0 = b /\ 0 \in Int  BY <2>2, <2>3
    <3>2. Mantissa(Number(b), 0) = Number(b - 8 * 0)
      BY <2>1, <3>1, MantissaIs
    <3> QED  BY <2>1, <2>3, <3>1, <3>2 DEF expm1k, q
  <2>4. CASE q # 0
    <3>1. b >= 4 /\ ~(Abs(b) < 4)  BY <2>2, <2>4 DEF Abs
    <3>2. b >= 1 - 16 * MaxExpo /\ b <= 9 * MaxExpo + 8 /\ b > Underflow
      BY Limits
    <3>3. RawExp(Number(b), err) = Number(b)
      BY <2>1, <3>2, RawExpRight, OfBounded
    <3> QED  BY <2>1, <2>4, <3>1, <3>3 DEF expm1k, MinusOne, q
  <2> QED  BY <2>3, <2>4
<1>5. ASSUME a <= MaxLog
      PROVE  /\ OfExpm1(x, err) = Number(a)
             /\ xexp(Magnitude(x), err) = Number(a)
             /\ xexpf(Magnitude(x), err) = Number(a)
  <2>1. OfExpm1(x, err) = Number(a)
    BY <1>1, <1>4, <1>5 DEF OfExpm1, NoInfinity
  <2>2. /\ xexp(Number(a), err) = ExpOf(Number(a))
        /\ xexpf(Number(a), err) = ExpOf(Number(a))
    BY <1>1, ExpsRight
  <2> QED  BY <1>1, <1>2, <1>5, <2>1, <2>2
<1>6. ASSUME 2 * a <= MaxLog  PROVE OfExpm1Doubled(x, err) = Number(a)
  <2>1. 2 * a \in Nat /\ 2 * a \in Int /\ (2 * a) \div 2 = a  BY <1>1
  <2>2. expm1k(Number(2 * a), err) = Number(2 * a)  BY <1>4, <1>6, <2>1
  <2>3. /\ Number(2 * a) # Infinity /\ Number(2 * a).kind = "number"
        /\ Number(2 * a).k = 2 * a
    BY <2>1, OfNumbers
  <2>4. Doubled(Number(a)) = Number(2 * a)  BY <1>1 DEF Doubled
  <2>5. Halved(Number(2 * a)) = Number(a)  BY <2>1, <2>3 DEF Halved
  <2> QED  BY <1>1, <2>2, <2>3, <2>4, <2>5 DEF OfExpm1Doubled, NoInfinity
<1> QED  BY <1>3, <1>5, <1>6 DEF a

-----------------------------------------------------------------------------

\* The call of an elementary function, and its result once there is one
ExpState ==
  /\ ecall \in ExpCalls
  /\ eret \in {<<>>, <<ExpResult(ecall)>>}

\* No name is in two families.
LEMMA ExpFamiliesApart ==
  /\ Exps \cap Logs = {} /\ Exps \cap Roots = {} /\ Exps \cap Powers = {}
  /\ Exps \cap FastPowers = {} /\ Logs \cap Roots = {}
  /\ Logs \cap Powers = {} /\ Logs \cap FastPowers = {}
  /\ Roots \cap Powers = {} /\ Roots \cap FastPowers = {}
  /\ Powers \cap FastPowers = {}
BY DEF Exps, Logs, Roots, Powers, FastPowers

\* What PowersRight says of a result r of the call c
RightPower(c, r) ==
  /\ c.fn \in Exps => r = IF Finite(c.x) THEN Bounded(c.x.k) ELSE c.x
  /\ c.fn \in Logs =>
       r = IF c.x.minus /\ ~IsNought(c.x) THEN Undefined ELSE c.x.log
  /\ c.fn \in Roots => r = c.x
  /\ c.fn \in Powers => r = PowC99(c.x, c.y)
  /\ (/\ c.fn \in FastPowers /\ ~c.x.minus /\ c.x.log.kind = "number"
      /\ Finite(c.y) /\ PowC99(c.x, c.y).log # Infinity) => r = PowC99(c.x, c.y)

\* PowersRight follows from what is right for each family.
LEMMA PowersRightIs ==
  ASSUME \A i \in DOMAIN eret : RightPower(ecall, eret[i])
  PROVE  PowersRight
<1> DEFINE fast(i) ==
             /\ ~ecall.x.minus /\ ecall.x.log.kind = "number"
             /\ Finite(ecall.y)
             /\ PowC99(ecall.x, ecall.y).log # Infinity
             => eret[i] = PowC99(ecall.x, ecall.y)
<1> SUFFICES ASSUME NEW i \in DOMAIN eret
             PROVE  CASE ecall.fn \in Exps ->
                           eret[i] = IF Finite(ecall.x)
                                     THEN Bounded(ecall.x.k) ELSE ecall.x
                      [] ecall.fn \in Logs ->
                           eret[i] = IF ecall.x.minus /\ ~IsNought(ecall.x)
                                     THEN Undefined ELSE ecall.x.log
                      [] ecall.fn \in Roots -> eret[i] = ecall.x
                      [] ecall.fn \in Powers ->
                           eret[i] = PowC99(ecall.x, ecall.y)
                      [] ecall.fn \in FastPowers -> fast(i)
                      [] OTHER -> TRUE
  BY DEF PowersRight
<1>0. RightPower(ecall, eret[i])  OBVIOUS
<1>1. CASE ecall.fn \in Exps
  BY <1>0, <1>1, ExpFamiliesApart, Zenon DEF RightPower
<1>2. CASE ecall.fn \in Logs
  BY <1>0, <1>2, ExpFamiliesApart, Zenon DEF RightPower
<1>3. CASE ecall.fn \in Roots
  BY <1>0, <1>3, ExpFamiliesApart, Zenon DEF RightPower
<1>4. CASE ecall.fn \in Powers
  BY <1>0, <1>4, ExpFamiliesApart, Zenon DEF RightPower
<1>5. CASE ecall.fn \in FastPowers
  <2>1. ecall.fn \notin Exps \cup Logs \cup Roots \cup Powers
    BY <1>5, ExpFamiliesApart
  <2>2. fast(i)  BY <1>0, <1>5, Zenon DEF RightPower
  <2> HIDE DEF fast
  <2> QED  BY <1>5, <2>1, <2>2, Zenon
<1>6. CASE ecall.fn \notin Exps \cup Logs \cup Roots \cup Powers \cup FastPowers
  BY <1>6, Zenon
<1> QED  BY <1>1, <1>2, <1>3, <1>4, <1>5, <1>6, Zenon

\* Every function returns what is right for its family.
LEMMA ExpResultsRight ==
  ASSUME NEW c \in ExpCalls
  PROVE  RightPower(c, ExpResult(c))
<1>1. \/ c.fn \in Exps /\ c.x \in Exponents /\ c.err \in {0, 1}
      \/ c.fn \in Logs \cup Roots /\ c.x \in SignedNumbers
      \/ /\ c.fn \in Powers \cup FastPowers /\ c.x \in SignedNumbers
         /\ c.y \in Exponents /\ c.err \in {0, 1}
  BY ExpCallsAssumption
<1>2. CASE c.fn \in Exps
  BY <1>1, <1>2, ExpFamiliesApart, ExpFamilies, Zenon DEF RightPower
<1>3. CASE c.fn \in Logs
  BY <1>1, <1>3, ExpFamiliesApart, ExpFamilies, Zenon DEF RightPower
<1>4. CASE c.fn \in Roots
  BY <1>1, <1>4, ExpFamiliesApart, ExpFamilies, Zenon DEF RightPower
<1>5. CASE c.fn \in Powers
  BY <1>1, <1>5, ExpFamiliesApart, ExpFamilies, Zenon DEF RightPower
<1>6. CASE c.fn \in FastPowers
  BY <1>1, <1>6, ExpFamiliesApart, ExpFamilies, Zenon DEF RightPower
<1> QED  BY <1>1, <1>2, <1>3, <1>4, <1>5, <1>6, Zenon

\* Exponential functions, logarithms, roots and powers return what C99 says,
\* for all their arguments.
THEOREM PowersAreRight == ExpSpec => []PowersRight
<1>1. ExpInit => ExpState  BY DEF ExpInit, ExpState
<1>2. ExpState /\ [ExpCall]_expvars => ExpState'
  <2> SUFFICES ASSUME ExpState, [ExpCall]_expvars  PROVE ExpState'
    OBVIOUS
  <2>1. CASE ExpCall  BY <2>1 DEF ExpState, ExpCall
  <2>2. CASE UNCHANGED expvars  BY <2>2 DEF ExpState, expvars
  <2> QED  BY <2>1, <2>2
<1>3. ExpState => PowersRight
  <2> SUFFICES ASSUME ExpState  PROVE PowersRight
    OBVIOUS
  <2>1. ASSUME NEW i \in DOMAIN eret  PROVE RightPower(ecall, eret[i])
    <3>1. eret # <<>>  OBVIOUS
    <3>2. eret = <<ExpResult(ecall)>>  BY <3>1 DEF ExpState
    <3>3. eret[i] = ExpResult(ecall)  BY <3>2
    <3> QED  BY <3>3, ExpResultsRight DEF ExpState
  <2> QED  BY <2>1, PowersRightIs
<1> QED  BY <1>1, <1>2, <1>3, PTL DEF ExpSpec

-----------------------------------------------------------------------------
(* The hyperbolic functions *)

\* The limits of the hyperbolic functions, written out
LEMMA HypLimits ==
  /\ CutTanh \in Int /\ CutTanh = 4 * Precision + 4
  /\ Cut709 \in Int /\ Cut709 = 8 * MaxExpo - 1
  /\ Cut710 \in Int /\ Cut710 = 8 * MaxExpo + 10
  /\ LargeE \in Int /\ LargeE = 23 * MaxExpo + 23
  /\ LimitTanh \in Int /\ LimitTanh = 4 * Precision + 8
  /\ TdxCutTanh \in Int /\ TdxCutTanh = 12 * Precision + 12
  /\ TdxLow \in Int /\ TdxLow = -8 * Precision - 24
  /\ Expm1Low \in Int /\ Expm1Low = -8 * Precision
  /\ CutTanh < Cut709
BY Limits
   DEF CutTanh, Cut709, Cut710, LargeE, LimitTanh, TdxCutTanh, TdxLow, Expm1Low

\* Hyperbolic functions by the exponential of the magnitude
LEMMA SinhsRight ==
  ASSUME NEW x \in Exponents, NEW err \in {0, 1}
  PROVE  /\ xsinh(x, err) = Odd(x, MaxLog) /\ xsinhf(x, err) = Odd(x, MaxLog)
         /\ xcosh(x, err) = Even(x, MaxLog) /\ xcoshf(x, err) = Even(x, MaxLog)
         /\ xtanh(x, err) = Odd(x, CutTanh) /\ xtanhf(x, err) = Odd(x, CutTanh)
<1> DEFINE a == Abs(x.k)
<1>1. MaxLog \in Int /\ Cut710 \in Int /\ CutTanh \in Int
      /\ MaxLog < Cut710 /\ ~(MaxLog < CutTanh)
      /\ Cut710 <= 8 * MaxExpo + 10 /\ CutTanh <= 8 * MaxExpo + 10
  BY Limits, HypLimits
<1>2. x \in Finites => a \in Int  BY OfFinites
<1>3. x \in Finites /\ a <= 8 * MaxExpo + 10 =>
        /\ OfExp(x, err) = IF a <= MaxLog THEN Number(a) ELSE Undefined
        /\ OfExpf(x, err) = IF a <= MaxLog THEN Number(a) ELSE Undefined
  BY OfExpsAre
<1> HIDE DEF a
<1>4. \A cut \in {Cut710, CutTanh} : x \in Finites /\ a <= cut =>
        /\ OfExp(x, err) = IF a <= MaxLog THEN Number(a) ELSE Undefined
        /\ OfExpf(x, err) = IF a <= MaxLog THEN Number(a) ELSE Undefined
  <2>1. \A cut \in {Cut710, CutTanh} :
          x \in Finites /\ a <= cut => a <= 8 * MaxExpo + 10
    BY <1>1, <1>2, Limits
  <2> QED  BY <1>3, <2>1
<1>5. \A y \in {OfExp(x, err), OfExpf(x, err)} :
        /\ OddSelection(x, y, Cut710) = Odd(x, MaxLog)
        /\ Selection(x, y, Cut710, Infinity) = Even(x, MaxLog)
        /\ OddSelection(x, y, CutTanh) = Odd(x, CutTanh)
  <2> SUFFICES ASSUME NEW y \in {OfExp(x, err), OfExpf(x, err)}
               PROVE  /\ OddSelection(x, y, Cut710) = Odd(x, MaxLog)
                      /\ Selection(x, y, Cut710, Infinity) = Even(x, MaxLog)
                      /\ OddSelection(x, y, CutTanh) = Odd(x, CutTanh)
    OBVIOUS
  <2>1. \A cut \in {Cut710, CutTanh} : x \in Finites /\ Abs(x.k) <= cut =>
          y = IF Abs(x.k) <= MaxLog THEN Number(Abs(x.k)) ELSE Undefined
    BY <1>4 DEF a
  <2>2. /\ OddSelection(x, y, Cut710) = Odd(x, MaxLog)
        /\ Selection(x, y, Cut710, Infinity) = Even(x, MaxLog)
    BY <1>1, <2>1, SelectionIs
  <2>3. OddSelection(x, y, CutTanh) = Odd(x, CutTanh)
    BY <1>1, <2>1, SelectionIs
  <2> QED  BY <2>2, <2>3
<1> QED
  BY <1>5 DEF xsinh, xsinhf, xcosh, xcoshf, xtanh, xtanhf

\* and by expm1
LEMMA Sinhs35Right ==
  ASSUME NEW x \in Exponents, NEW err \in {0, 1}
  PROVE  /\ xsinh_u35(x, err) = Odd(x, Cut709)
         /\ xsinhf_u35(x, err) = Odd(x, Cut709)
         /\ xcosh_u35(x, err) = Even(x, Cut709)
         /\ xcoshf_u35(x, err) = Even(x, Cut709)
         /\ xtanh_u35(x, err) = Odd(x, CutTanh)
         /\ xtanhf_u35(x, err) = Odd(x, CutTanh)
<1> DEFINE a == Abs(x.k)
<1>1. MaxLog \in Int /\ Cut709 \in Int /\ CutTanh \in Int
      /\ ~(MaxLog < Cut709) /\ ~(MaxLog < CutTanh)
  BY Limits, HypLimits
<1>2. x \in Finites => a \in Int /\ a >= 0  BY OfFinites
<1>3. /\ x \in Finites /\ a <= MaxLog =>
           /\ OfExpm1(x, err) = Number(a)
           /\ xexp(Magnitude(x), err) = Number(a)
           /\ xexpf(Magnitude(x), err) = Number(a)
      /\ x \in Finites /\ 2 * a <= MaxLog => OfExpm1Doubled(x, err) = Number(a)
  BY OfExpsAre
<1> HIDE DEF a
<1>4. x \in Finites /\ a <= Cut709 =>
        /\ a <= MaxLog /\ OfExpm1(x, err) = Number(a)
        /\ xexp(Magnitude(x), err) = Number(a)
        /\ xexpf(Magnitude(x), err) = Number(a)
  <2>1. x \in Finites /\ a <= Cut709 => a <= MaxLog  BY <1>1, <1>2
  <2> QED  BY <1>3, <2>1
<1>5. x \in Finites /\ a <= CutTanh =>
        a <= MaxLog /\ OfExpm1Doubled(x, err) = Number(a)
  <2>1. x \in Finites /\ a <= CutTanh => 2 * a <= MaxLog /\ a <= MaxLog
    BY <1>1, <1>2, Limits, HypLimits
  <2> QED  BY <1>3, <2>1
<1>6. OddSelection(x, OfExpm1(x, err), Cut709) = Odd(x, Cut709)
  BY <1>1, <1>4, SelectionIs DEF a
<1>7. Selection(x, xexp(Magnitude(x), err), Cut709, Infinity) = Even(x, Cut709)
  BY <1>1, <1>4, SelectionIs DEF a
<1>8. Selection(x, xexpf(Magnitude(x), err), Cut709, Infinity)
        = Even(x, Cut709)
  BY <1>1, <1>4, SelectionIs DEF a
<1>9. OddSelection(x, OfExpm1Doubled(x, err), CutTanh) = Odd(x, CutTanh)
  BY <1>1, <1>5, SelectionIs DEF a
<1> QED
  BY <1>6, <1>7, <1>8, <1>9
     DEF xsinh_u35, xsinhf_u35, xcosh_u35, xcoshf_u35, xtanh_u35, xtanhf_u35

\* e^x and e^x - 1 of triple-double numbers
LEMMA WideExpIs ==
  ASSUME NEW x \in Finites, NEW err \in {0, 1}
  PROVE  WideExp(x, err) = Number(x.k)
<1> DEFINE q == Quotient(x, err)
<1>1. x.k \in Int  BY OfFinites
<1>2. q \in Int /\ x.k - 8 * q \in -4..4  BY <1>1, QuotientIs
<1> HIDE DEF q
<1>3. Mantissa(x, q) = Number(x.k - 8 * q)  BY <1>2, MantissaIs
<1>4. x.k - 8 * q \in Int /\ x.k - 8 * q + 8 * q = x.k  BY <1>1, <1>2
<1>5. /\ Number(x.k - 8 * q).kind = "number"
      /\ Number(x.k - 8 * q).k = x.k - 8 * q
  BY <1>4, OfNumbers
<1>6. WideExp(x, err) = Number(x.k - 8 * q + 8 * q)
  BY <1>3, <1>5, Limits DEF WideExp, q
<1> QED  BY <1>4, <1>6

\* u - 1 has lost no digits unless u is near 1.
LEMMA DiffersAlways ==
  ASSUME NEW x \in Finites, NEW err \in {0, 1}
  PROVE  /\ Quotient(x, err) = 0 => Mantissa(x, 0) = Number(x.k)
         /\ Quotient(x, err) # 0 => MinusOne(Number(x.k)) = Number(x.k)
<1> DEFINE q == Quotient(x, err)
<1>1. x.k \in Int  BY OfFinites
<1>2. q \in Int /\ x.k - 8 * q \in -4..4  BY <1>1, QuotientIs
<1> HIDE DEF q
<1>3. ASSUME q = 0  PROVE Mantissa(x, 0) = Number(x.k)
  <2>1. x.k - 8 * 0 \in -4..4 /\ x.k - 8 * 0 = x.k /\ 0 \in Int
    BY <1>1, <1>2, <1>3
  <2>2. Mantissa(x, 0) = Number(x.k - 8 * 0)  BY <2>1, MantissaIs
  <2> QED  BY <2>1, <2>2
<1>4. ASSUME q # 0  PROVE MinusOne(Number(x.k)) = Number(x.k)
  <2> DEFINE k == x.k
  <2>0. k \in Int /\ k - 8 * q \in -4..4  BY <1>1, <1>2
  <2> HIDE DEF k
  <2>1. ~(Abs(k) < 4)  BY <1>2, <1>4, <2>0 DEF Abs
  <2>2. Number(k).k = k  BY <2>0, OfNumbers
  <2>3. MinusOne(Number(k)) = Number(k)  BY <2>1, <2>2 DEF MinusOne
  <2> QED  BY <2>3 DEF k
<1> QED  BY <1>3, <1>4 DEF q

\* The triple-double expm1 from its lower to its upper limit
LEMMA Expm1TdxIs ==
  ASSUME NEW x \in Finites, x # MinusZero, NEW err \in {0, 1}
  PROVE  expm1_tdx_tdx(x, err) =
           IF x.k < TdxLow THEN MinusInfinity
           ELSE IF x.k >= LargeE THEN Infinity ELSE x
<1>1. x.k \in Int /\ Finite(x) /\ x = Number(x.k) /\ x.kind # "inf"
      /\ x # Undefined
  <2>1. x.k \in Int /\ Finite(x) /\ x = Number(x.k) /\ x.kind = "number"
    BY OfFinites
  <2> QED  BY <2>1, OfNumbers
<1>2. IsBelow(x, TdxLow) <=> x.k < TdxLow  BY BelowAbove, HypLimits
<1>3. ~(x.k < TdxLow) => (TdxLarge(x, LargeE) <=> x.k >= LargeE)
  <2> DEFINE k == x.k
  <2>1. k \in Int  BY <1>1
  <2>2. TdxLarge(x, LargeE) <=> Abs(k) >= LargeE  BY <1>1 DEF TdxLarge
  <2> HIDE DEF k
  <2>3. ~(k < TdxLow) => (Abs(k) >= LargeE <=> k >= LargeE)
    BY <2>1, Limits, HypLimits DEF Abs
  <2> QED  BY <2>2, <2>3 DEF k
<1>4. WideExp(x, err) = x  BY <1>1, WideExpIs
<1>5. /\ Quotient(x, err) = 0 => Mantissa(x, 0) = x
      /\ Quotient(x, err) # 0 => MinusOne(x) = x
  BY <1>1, DiffersAlways
<1> QED  BY <1>1, <1>2, <1>3, <1>4, <1>5 DEF expm1_tdx_tdx

\* A limit on both sides is that of an odd or of an even function.
LEMMA LimitedIs ==
  ASSUME NEW x \in Exponents, NEW c \in Int, c >= 0
  PROVE  /\ LimitedTo(x, -c, c) = Odd(x, c)
         /\ LimitedTo(Magnitude(x), -c, c) = Even(x, c)
         /\ LimitedTo(Infinity, -c, c) = Infinity
         /\ LimitedTo(MinusInfinity, -c, c) = MinusInfinity
         /\ LimitedTo(SignedAs(Infinity, x), -c, c) = SignedAs(Infinity, x)
<1>0. -c \in Int  OBVIOUS
<1>1. /\ LimitedTo(Infinity, -c, c) = Infinity
      /\ LimitedTo(MinusInfinity, -c, c) = MinusInfinity
      /\ LimitedTo(Undefined, -c, c) = Undefined
  BY <1>0, BelowAbove DEF LimitedTo
<1>2. SignedAs(Infinity, x) \in {Infinity, MinusInfinity}
  BY OfSpecials DEF SignedAs
<1>3. CASE x \in Finites
  <2> DEFINE k == x.k
             a == Abs(x.k)
  <2>1. /\ k \in Int /\ Finite(x) /\ Magnitude(x) = Number(a) /\ a \in Nat
        /\ Number(a) \in Finites /\ Number(a).k = a
        /\ (HasMinus(x) <=> x = MinusZero \/ k < 0)
        /\ (x = MinusZero => k = 0)
    BY <1>3, OfFinites, MagnitudeIs
  <2>2. a = IF k < 0 THEN -k ELSE k  BY DEF Abs
  <2>3. /\ (IsBelow(x, -c) <=> k < -c) /\ (IsAbove(x, c) <=> k > c)
        /\ (IsBelow(Number(a), -c) <=> a < -c)
        /\ (IsAbove(Number(a), c) <=> a > c)
    BY <1>0, <1>3, <2>1, BelowAbove
  <2>4. /\ Odd(x, c) = IF a > c THEN SignedAs(Infinity, x) ELSE x
        /\ Even(x, c) = IF a > c THEN Infinity ELSE Number(a)
    BY <2>1 DEF Odd, Even
  <2>5. SignedAs(Infinity, x) = IF HasMinus(x) THEN MinusInfinity ELSE Infinity
    BY OfSpecials DEF SignedAs
  <2> HIDE DEF k, a
  <2>6. ~(a < -c) /\ (k < -c => a > c /\ k < 0)
        /\ (k > c => a > c /\ ~(k < 0) /\ k # 0)
        /\ (a > c => k < -c \/ k > c)
    BY <2>1, <2>2
  <2>7. LimitedTo(x, -c, c) = Odd(x, c)
    <3>1. CASE k < -c  BY <2>1, <2>3, <2>4, <2>5, <2>6, <3>1 DEF LimitedTo
    <3>2. CASE ~(k < -c) /\ k > c
      <4>1. ~HasMinus(x)  BY <2>1, <2>6, <3>2
      <4> QED  BY <2>3, <2>4, <2>5, <2>6, <3>2, <4>1 DEF LimitedTo
    <3>3. CASE ~(k < -c) /\ ~(k > c)
      BY <2>3, <2>4, <2>6, <3>3 DEF LimitedTo
    <3> QED  BY <3>1, <3>2, <3>3
  <2>8. LimitedTo(Magnitude(x), -c, c) = Even(x, c)
    BY <2>1, <2>3, <2>4, <2>6 DEF LimitedTo
  <2> QED  BY <1>1, <1>2, <2>7, <2>8
<1>4. CASE x \in Infinites
  <2>1. ~Finite(x) /\ Magnitude(x) \in Infinites
    BY <1>4, OfInfinites DEF Infinites
  <2>2. LimitedTo(x, -c, c) = x
        /\ LimitedTo(Magnitude(x), -c, c) = Magnitude(x)
    BY <1>1, <1>4, <2>1 DEF Infinites
  <2> QED  BY <1>1, <1>2, <2>1, <2>2 DEF Odd, Even
<1> QED  BY <1>3, <1>4, ExponentsAre

\* The hyperbolic functions of quad precision
LEMMA QuadHyperbolicsRight ==
  ASSUME NEW x \in Exponents, NEW err \in {0, 1}
  PROVE  /\ xsinhq_u10(x, err) = Odd(x, MaxLog + Ln2)
         /\ xcoshq_u10(x, err) = Even(x, MaxLog + Ln2)
         /\ xtanhq_u10(x, err) = Odd(x, LimitTanh)
<1> DEFINE c == MaxLog + Ln2
           d == NoInfinity(expm1_tdx_tdx(Doubled(Magnitude(x)), err))
<1>0. /\ c \in Int /\ c >= 0 /\ -c \in Int /\ LimitTanh \in Int
      /\ LimitTanh >= 0 /\ -c = -MaxLog - Ln2
  BY Limits, HypLimits
<1> HIDE DEF c, d
<1>1. CASE x \in Finites
  <2> DEFINE k == x.k
             a == Abs(x.k)
  <2>1. /\ k \in Int /\ a \in Int /\ a >= 0 /\ Finite(x)
        /\ Magnitude(x) = Number(a) /\ Number(a) \in Finites
        /\ Number(a).k = a /\ Number(a).kind = "number"
        /\ SignedAs(Number(a), x) = x /\ x # Undefined /\ x.kind # "inf"
        /\ (x = MinusZero => k = 0) /\ (x # MinusZero => x.kind = "number")
        /\ Number(a) # Infinity /\ Finite(Number(a))
    BY <1>1, OfFinites, MagnitudeIs, ExponentsAre, OfNumbers, OfSpecials
  <2>2. a = IF k < 0 THEN -k ELSE k  BY DEF Abs
  <2> HIDE DEF k, a
  <2>3. /\ 2 * a \in Int /\ (2 * a) \div 2 = a /\ 2 * k \in Int
        /\ Abs(2 * k) = 2 * a
    BY <2>1, <2>2 DEF Abs
  <2>4. /\ Doubled(Magnitude(x)) = Number(2 * a)
        /\ Number(2 * a).k = 2 * a /\ Number(2 * a).kind = "number"
        /\ Number(2 * a) # MinusZero /\ Number(2 * a) \in Finites
        /\ Number(2 * a) # Infinity
    BY <2>1, <2>3, OfNumbers DEF Doubled, Finites
  <2>5. ~(2 * a < TdxLow)  BY <2>1, HypLimits, Limits
  <2>6. expm1_tdx_tdx(Number(2 * a), err) =
          IF 2 * a >= LargeE THEN Infinity ELSE Number(2 * a)
    BY <2>4, <2>5, Expm1TdxIs
  <2>7. ~(2 * a >= LargeE) => Halved(d) = Number(a)
    BY <2>3, <2>4, <2>6 DEF NoInfinity, Halved, d
  <2>8. TdxLarge(Doubled(x), LargeE) <=> 2 * a >= LargeE
    <3>1. CASE x = MinusZero
      <4>1. k = 0 /\ a = 0 /\ 2 * a = 0  BY <2>1, <2>2, <3>1
      <4>2. Doubled(x) = x  BY <3>1, OfSpecials DEF Doubled
      <4>3. TdxLarge(Doubled(x), LargeE) <=> Abs(k) >= LargeE
        BY <2>1, <4>2 DEF TdxLarge, k
      <4> QED  BY <4>1, <4>3 DEF Abs
    <3>2. CASE x # MinusZero
      <4>1. Doubled(x) = Number(2 * k)  BY <2>1, <3>2 DEF Doubled, k
      <4>2. /\ Finite(Number(2 * k)) /\ Number(2 * k).k = 2 * k
            /\ Number(2 * k).kind = "number"
        BY <2>3, OfNumbers
      <4>3. TdxLarge(Number(2 * k), LargeE) <=> Abs(2 * k) >= LargeE
        BY <4>2 DEF TdxLarge
      <4> QED  BY <2>3, <4>1, <4>3
    <3> QED  BY <3>1, <3>2
  <2>9. TdxLarge(x, TdxCutTanh) <=> a >= TdxCutTanh
    BY <2>1 DEF TdxLarge, a
  <2>10. /\ 2 * a >= LargeE => a > c
         /\ a >= TdxCutTanh => a > LimitTanh
         /\ ~(a >= TdxCutTanh) => ~(2 * a >= LargeE)
    <3>1. 2 * a >= LargeE => a > c  BY <2>1, Limits, HypLimits DEF c
    <3>2. a >= TdxCutTanh => a > LimitTanh  BY <2>1, Limits, HypLimits
    <3>3. ~(a >= TdxCutTanh) => ~(2 * a >= LargeE)
      BY <2>1, Limits, HypLimits
    <3> QED  BY <3>1, <3>2, <3>3
  <2>11. /\ a > c => Odd(x, c) = SignedAs(Infinity, x)
                     /\ Even(x, c) = Infinity
         /\ a > LimitTanh => Odd(x, LimitTanh) = SignedAs(Infinity, x)
         /\ ~(0 > c) /\ ~(0 > LimitTanh)
    BY <1>0, <2>1 DEF Odd, Even, a
  <2>12. \A e \in {c, LimitTanh} :
           /\ LimitedTo(x, -e, e) = Odd(x, e)
           /\ LimitedTo(Number(a), -e, e) = Even(x, e)
           /\ LimitedTo(Infinity, -e, e) = Infinity
           /\ LimitedTo(SignedAs(Infinity, x), -e, e) = SignedAs(Infinity, x)
    BY <1>0, <2>1, LimitedIs
  <2>13. LimitedTo(sinh_tdx_tdx(x, err), -c, c) = Odd(x, c)
    <3>1. CASE x = MinusZero
      <4>1. sinh_tdx_tdx(x, err) = x  BY <3>1 DEF sinh_tdx_tdx
      <4> QED  BY <2>12, <4>1
    <3>2. CASE x # MinusZero
      <4>1. sinh_tdx_tdx(x, err) =
              SignedAs(IF TdxLarge(Doubled(x), LargeE) THEN Infinity
                       ELSE Halved(d), x)
        BY <2>1, <3>2 DEF sinh_tdx_tdx, d
      <4>2. CASE 2 * a >= LargeE
        BY <2>8, <2>10, <2>11, <2>12, <4>1, <4>2
      <4>3. CASE ~(2 * a >= LargeE)
        BY <2>1, <2>7, <2>8, <2>12, <4>1, <4>3
      <4> QED  BY <4>2, <4>3
    <3> QED  BY <3>1, <3>2
  <2>14. LimitedTo(cosh_tdx_tdx(x, err), -c, c) = Even(x, c)
    <3>1. ~(2 * a >= LargeE) => exp_tdx_tdx(Number(a), err) = Number(a)
      <4>1. LargeE >= 13 * (MaxExpo + 1) /\ LargeE \in Int
        BY Limits, HypLimits
      <4>2. Number(a) \in Exponents  BY <2>1, ExponentsAre
      <4>3. TdxExp(Number(a), err, LargeE) =
              IF a >= LargeE THEN Infinity
              ELSE IF a <= -LargeE THEN Nought ELSE Number(a)
        BY <2>1, <4>1, <4>2, TdxExpRight
      <4>4. ~(2 * a >= LargeE) => ~(a >= LargeE) /\ ~(a <= -LargeE)
        BY <2>1, Limits, HypLimits
      <4> QED  BY <4>3, <4>4 DEF exp_tdx_tdx
    <3>2. cosh_tdx_tdx(x, err) =
            IF 2 * a >= LargeE THEN Infinity
            ELSE NoInfinity(exp_tdx_tdx(Number(a), err))
      BY <2>1, <2>8 DEF cosh_tdx_tdx, OrNaN
    <3>3. CASE 2 * a >= LargeE
      BY <2>10, <2>11, <2>12, <3>2, <3>3
    <3>4. CASE ~(2 * a >= LargeE)
      BY <2>1, <2>12, <3>1, <3>2, <3>4 DEF NoInfinity
    <3> QED  BY <3>3, <3>4
  <2>15. LimitedTo(tanh_tdx_tdx(x, err), -LimitTanh, LimitTanh)
           = Odd(x, LimitTanh)
    <3>1. CASE x = MinusZero
      <4>1. tanh_tdx_tdx(x, err) = x  BY <3>1 DEF tanh_tdx_tdx
      <4> QED  BY <2>12, <4>1
    <3>2. CASE x # MinusZero
      <4>1. tanh_tdx_tdx(x, err) =
              SignedAs(IF TdxLarge(x, TdxCutTanh) THEN Infinity
                       ELSE Halved(d), x)
        BY <2>1, <3>2 DEF tanh_tdx_tdx, d
      <4>2. CASE a >= TdxCutTanh
        BY <2>9, <2>10, <2>11, <2>12, <4>1, <4>2
      <4>3. CASE ~(a >= TdxCutTanh)
        BY <2>1, <2>7, <2>9, <2>10, <2>12, <4>1, <4>3
      <4> QED  BY <4>2, <4>3
    <3> QED  BY <3>1, <3>2
  <2> QED
    BY <1>0, <2>13, <2>14, <2>15 DEF xsinhq_u10, xcoshq_u10, xtanhq_u10, c
<1>2. CASE x \in Infinites
  <2>1. ~Finite(x) /\ \A e : Odd(x, e) = x /\ Even(x, e) = Magnitude(x)
    BY <1>2, OfInfinites DEF Odd, Even
  <2>2. \A e \in {c, LimitTanh} :
          /\ LimitedTo(x, -e, e) = x
          /\ LimitedTo(Magnitude(x), -e, e) = Magnitude(x)
    BY <1>0, <2>1, LimitedIs, <1>2, ExponentsAre
  <2>3. CASE x = Undefined
    <3>1. /\ sinh_tdx_tdx(x, err) = x /\ cosh_tdx_tdx(x, err) = x
          /\ tanh_tdx_tdx(x, err) = x /\ Magnitude(x) = x
      BY <2>3, MagnitudeIs
         DEF sinh_tdx_tdx, cosh_tdx_tdx, tanh_tdx_tdx, OrNaN
    <3> QED  BY <1>0, <2>1, <2>2, <3>1
                DEF xsinhq_u10, xcoshq_u10, xtanhq_u10, c
  <2>4. CASE x \in {Infinity, MinusInfinity}
    <3>1. /\ x.kind = "inf" /\ Doubled(x) = x /\ x # Undefined
          /\ x # MinusZero /\ SignedAs(Infinity, x) = x
          /\ Magnitude(x) = Infinity
      BY <2>4, OfSpecials, OfInfinites, MagnitudeIs DEF Doubled, Infinites
    <3>2. \A limit : TdxLarge(x, limit)  BY <3>1 DEF TdxLarge
    <3>3. /\ sinh_tdx_tdx(x, err) = x /\ cosh_tdx_tdx(x, err) = Infinity
          /\ tanh_tdx_tdx(x, err) = x
      BY <3>1, <3>2 DEF sinh_tdx_tdx, cosh_tdx_tdx, tanh_tdx_tdx, OrNaN
    <3> QED  BY <1>0, <2>1, <2>2, <3>1, <3>3
                DEF xsinhq_u10, xcoshq_u10, xtanhq_u10, c
  <2> QED  BY <1>2, <2>3, <2>4 DEF Infinites
<1> QED  BY <1>1, <1>2, ExponentsAre

-----------------------------------------------------------------------------
(* e^x - 1 and log(1 + x) *)

\* All functions e^x - 1
LEMMA Expm1sRight ==
  ASSUME NEW x \in Exponents, NEW err \in {0, 1}
  PROVE  LET r == LimitedTo(x, Expm1Low, MaxLog) IN
         /\ xexpm1(x, err) = r /\ xexpm1f(x, err) = r
         /\ xexpm1q_u10(x, err) = r
<1> DEFINE r == LimitedTo(x, Expm1Low, MaxLog)
<1>0. /\ Expm1Low \in Int /\ MaxLog \in Int /\ Expm1Low = -Ln2 * Precision
      /\ 0 \in Int /\ ~(0 < Expm1Low) /\ ~(0 > MaxLog)
  BY Limits, HypLimits DEF Expm1Low
<1>1. CASE x = MinusZero
  <2>1. r = x  BY <1>0, <1>1, BelowAbove, OfFinites DEF LimitedTo, Finites
  <2>2. expm1_tdx_tdx(x, err) = x  BY <1>1 DEF expm1_tdx_tdx
  <2>3. xexpm1q_u10(x, err) = r  BY <1>0, <2>2 DEF xexpm1q_u10
  <2> QED  BY <1>1, <2>1, <2>3 DEF xexpm1, xexpm1f, Expm1, OrMinusZero
<1>2. CASE x \in Finites /\ x # MinusZero
  <2> DEFINE k == x.k
  <2>1. k \in Int /\ Finite(x) /\ x = Number(k) /\ x # Infinity
        /\ x # Undefined
    <3>1. k \in Int /\ Finite(x) /\ x = Number(k)  BY <1>2, OfFinites
    <3> QED  BY <3>1, OfNumbers
  <2> HIDE DEF k
  <2>2. /\ IsBelow(x, Expm1Low) <=> k < Expm1Low
        /\ IsAbove(x, MaxLog) <=> k > MaxLog
    BY <1>0, <1>2, BelowAbove DEF k
  <2>3. ~(k < Expm1Low) /\ ~(k > MaxLog) =>
          expk2(x, err) = x /\ expk2f(x, err) = x
    <3>1. ASSUME ~(k < Expm1Low), ~(k > MaxLog)
          PROVE  expk2(x, err) = x /\ expk2f(x, err) = x
      <4>1. k <= 9 * MaxExpo + 8 /\ k > Underflow /\ k <= MaxLog
        BY <2>1, <3>1, Limits, HypLimits
      <4>2. \A low \in (1 - 16 * MaxExpo)..Underflow :
              CutBelow(x, low, RawExp(x, err)) = ExpOf(x)
        BY <2>1, <4>1, CutBelowRight DEF k
      <4>3. ExpOf(x) = x  BY <2>1, <4>1, OfBounded DEF ExpOf, k
      <4> QED  BY <4>2, <4>3, CutsAre DEF expk2, expk2f
    <3> QED  BY <3>1
  <2>4. xexpm1(x, err) = r /\ xexpm1f(x, err) = r
    BY <1>2, <2>1, <2>2, <2>3
       DEF xexpm1, xexpm1f, Expm1, OrMinusZero, LimitedTo, NoInfinity
  <2>5. xexpm1q_u10(x, err) = r
    <3>1. /\ LimitedTo(MinusInfinity, Expm1Low, MaxLog) = MinusInfinity
          /\ LimitedTo(Infinity, Expm1Low, MaxLog) = Infinity
      BY <1>0, BelowAbove DEF LimitedTo
    <3>2. expm1_tdx_tdx(x, err) = IF k < TdxLow THEN MinusInfinity
                                  ELSE IF k >= LargeE THEN Infinity ELSE x
      BY <1>2, Expm1TdxIs DEF k
    <3>3. /\ k < TdxLow => k < Expm1Low
          /\ k >= LargeE => k > MaxLog /\ ~(k < Expm1Low)
      BY <2>1, Limits, HypLimits
    <3>4. xexpm1q_u10(x, err) =
            LimitedTo(expm1_tdx_tdx(x, err), Expm1Low, MaxLog)
      BY <1>0 DEF xexpm1q_u10
    <3>5. r = IF k < Expm1Low THEN MinusInfinity
              ELSE IF k > MaxLog THEN Infinity ELSE x
      BY <2>2 DEF LimitedTo
    <3> HIDE DEF r
    <3>6. CASE k < TdxLow  BY <3>1, <3>2, <3>3, <3>4, <3>5, <3>6
    <3>7. CASE ~(k < TdxLow) /\ k >= LargeE
      BY <3>1, <3>2, <3>3, <3>4, <3>5, <3>7
    <3>8. CASE ~(k < TdxLow) /\ ~(k >= LargeE)
      BY <3>2, <3>4, <3>8 DEF r
    <3> QED  BY <3>6, <3>7, <3>8
  <2> QED  BY <2>4, <2>5
<1>3. CASE x \in Infinites
  <2>1. \A b \in Int : /\ IsBelow(x, b) <=> x = MinusInfinity
                       /\ IsAbove(x, b) <=> x = Infinity
    BY <1>3, BelowAbove, OfSpecials DEF Infinites
  <2>2. x # MinusZero /\ ~Finite(x) /\ Infinity # MinusInfinity
        /\ Undefined # Infinity /\ Undefined # MinusInfinity
    BY <1>3, OfInfinites, OfSpecials DEF Infinites
  <2>3. r = x  BY <1>0, <1>3, <2>1, <2>2 DEF LimitedTo, Infinites
  <2>4. x = Undefined => expk2(x, err) = x /\ expk2f(x, err) = x
    <3>1. ASSUME x = Undefined
          PROVE  expk2(x, err) = x /\ expk2f(x, err) = x
      <4>1. \A low \in (1 - 16 * MaxExpo)..Underflow :
              CutBelow(x, low, RawExp(x, err)) = ExpOf(x)
        BY <2>2, <3>1, CutBelowRight
      <4>2. ExpOf(x) = x  BY <2>2 DEF ExpOf
      <4> QED  BY <4>1, <4>2, CutsAre DEF expk2, expk2f
    <3> QED  BY <3>1
  <2>5. xexpm1(x, err) = x /\ xexpm1f(x, err) = x
    BY <1>0, <1>3, <2>1, <2>2, <2>4
       DEF xexpm1, xexpm1f, Expm1, OrMinusZero, NoInfinity, Infinites
  <2>6. expm1_tdx_tdx(x, err) = x
    <3>1. x # Undefined => x.kind = "inf"  BY <1>3, OfSpecials DEF Infinites
    <3>2. IsBelow(x, TdxLow) <=> x = MinusInfinity  BY <2>1, HypLimits
    <3> QED  BY <1>3, <2>2, <3>1, <3>2
                DEF expm1_tdx_tdx, TdxLarge, Infinites
  <2>7. xexpm1q_u10(x, err) = r  BY <1>0, <2>6 DEF xexpm1q_u10
  <2> HIDE DEF r
  <2> QED  BY <2>3, <2>5, <2>7 DEF r
<1> QED  BY <1>1, <1>2, <1>3, ExponentsAre

\* and that this is what they should return
LEMMA Expm1sAreWithin ==
  ASSUME NEW x \in Exponents
  PROVE  LET r == LimitedTo(x, Expm1Low, MaxLog) IN
         IF IsBelow(x, 0)
         THEN Within(r, x, Ln2 * Precision, Ln2 * Precision, MinusInfinity)
         ELSE Within(r, x, MaxLog, MaxLog, Infinity)
<1> DEFINE r == LimitedTo(x, Expm1Low, MaxLog)
<1>0. /\ Expm1Low \in Int /\ MaxLog \in Int /\ Ln2 * Precision \in Int
      /\ Expm1Low = -(Ln2 * Precision) /\ 0 \in Int /\ MaxLog >= 0
      /\ Ln2 * Precision >= 0
  BY Limits, HypLimits
<1>1. CASE x \in Finites
  <2> DEFINE k == x.k
             p == Ln2 * Precision
  <2>1. k \in Int /\ Finite(x)  BY <1>1, OfFinites
  <2>2. /\ IsBelow(x, Expm1Low) <=> k < Expm1Low
        /\ IsAbove(x, MaxLog) <=> k > MaxLog
        /\ IsBelow(x, 0) <=> k < 0
    BY <1>0, <1>1, BelowAbove
  <2>3. Abs(x.k) = IF k < 0 THEN -k ELSE k  BY DEF Abs
  <2>4. r = IF k < Expm1Low THEN MinusInfinity
            ELSE IF k > MaxLog THEN Infinity ELSE x
    BY <2>2 DEF LimitedTo
  <2>5. p \in Int /\ p >= 0 /\ Expm1Low = -p  BY <1>0
  <2> HIDE DEF k, p, r
  <2>6. CASE k < 0
    <3>1. /\ (Abs(x.k) <= p <=> ~(k < Expm1Low))
          /\ (Abs(x.k) > p <=> k < Expm1Low) /\ ~(k > MaxLog)
      BY <1>0, <2>1, <2>3, <2>5, <2>6
    <3>2. Within(r, x, p, p, MinusInfinity)
      BY <2>1, <2>4, <3>1 DEF Within
    <3> QED  BY <2>2, <2>6, <3>2 DEF p, r
  <2>7. CASE ~(k < 0)
    <3>1. /\ (Abs(x.k) <= MaxLog <=> ~(k > MaxLog))
          /\ (Abs(x.k) > MaxLog <=> k > MaxLog) /\ ~(k < Expm1Low)
      BY <1>0, <2>1, <2>3, <2>5, <2>7
    <3>2. Within(r, x, MaxLog, MaxLog, Infinity)
      BY <2>1, <2>4, <3>1 DEF Within
    <3> QED  BY <2>2, <2>7, <3>2 DEF r
  <2> QED  BY <2>6, <2>7
<1>2. CASE x \in Infinites
  <2>1. /\ ~Finite(x)
        /\ IsBelow(x, Expm1Low) => x = MinusInfinity
        /\ IsAbove(x, MaxLog) => x = Infinity
    BY <1>0, <1>2, OfInfinites, BelowAbove DEF Infinites
  <2>2. r = x  BY <2>1 DEF LimitedTo
  <2> HIDE DEF r
  <2> QED  BY <2>1, <2>2 DEF Within, r
<1> QED  BY <1>1, <1>2, ExponentsAre

\* What is beyond a limit is told from all the others.
LEMMA OfBeyond ==
  ASSUME NEW k \in Int
  PROVE  /\ Beyond(k).kind = "beyond" /\ Beyond(k).k = k
         /\ ~Finite(Beyond(k))
         /\ Beyond(k) \notin Specials /\ Beyond(k) # Spoilt
         /\ \A j : Beyond(k) # Number(j)
         /\ HasMinus(Beyond(k)) <=> k < 0
         /\ k # 0 => Opposed(Beyond(k)) = Beyond(-k)
BY DEF Beyond, Finite, Specials, MinusZero, Infinity, MinusInfinity, Undefined,
       Spoilt, Number, HasMinus, Opposed

\* All functions log(1 + x)
LEMMA Log1psRight ==
  ASSUME NEW x \in Log1pArguments
  PROVE  LET r == IF x = Beyond(-1) THEN Undefined ELSE x IN
         xlog1p(x) = r /\ xlog1pf(x) = r /\ xlog1pq_u10(x) = r
<1>1. CASE x \in NumbersIn(Expm1Low, MaxLog)
  <2>1. PICK k \in Expm1Low..MaxLog : x = Number(k)  BY <1>1 DEF NumbersIn
  <2>2. /\ k \in Int /\ k >= -8 * Precision /\ k <= 8 * MaxExpo + 7
        /\ k \in LogRange
    BY Limits, HypLimits DEF LogRange
  <2>3. /\ x.kind = "number" /\ x.k = k /\ x \in Finites
        /\ x \notin {MinusZero, MinusInfinity, Undefined, Infinity}
        /\ x # Beyond(-1)
    BY <2>1, <2>2, OfNumbers, OfBeyond DEF Finites
  <2> DEFINE e == (k + 3) \div 8
  <2>4. e \in Int /\ 8 * e <= k + 3 /\ k + 3 < 8 * e + 8  BY <2>2
  <2> HIDE DEF e
  <2>5. Logarithm(Unsigned(x)) = x
    <3>1. [minus |-> FALSE, log |-> x] \in SignedNumbers
      BY <2>1, <2>2 DEF SignedNumbers, LogRange
    <3> DEFINE u == Unsigned(x)
    <3>2. u \in SignedNumbers /\ ~u.minus /\ u.log = x
      BY <3>1 DEF Unsigned
    <3> HIDE DEF u
    <3>3. Logarithm(u) = x  BY <3>2, LogsRight
    <3> QED  BY <3>3 DEF u
  <2>6. \A b \in Int : b <= 8 * MaxExpo - 6 => Log1p(x, b) = x
    <3> SUFFICES ASSUME NEW b \in Int, b <= 8 * MaxExpo - 6
                 PROVE  Log1p(x, b) = x
      OBVIOUS
    <3>1. IsAbove(x, b) <=> k > b  BY <2>3, BelowAbove
    <3>2. CASE k > b
      <4>1. IsAbove(x, b)  BY <3>1, <3>2
      <4> QED  BY <2>3, <2>5, <4>1 DEF Log1p
    <3>3. CASE ~(k > b)
      <4>1. ~(-e < 1 - MaxExpo) /\ 8 * e + (k - 8 * e) = k
        BY <2>2, <2>4, <3>3, Limits
      <4>2. ~IsAbove(x, b)  BY <3>1, <3>3
      <4> QED  BY <2>1, <2>3, <4>1, <4>2, Limits DEF Log1p, e
    <3> QED  BY <3>2, <3>3
  <2>7. /\ Ln2 * (MaxExpo - 3) - 2 \in Int
        /\ Ln2 * (MaxExpo - 3) - 2 <= 8 * MaxExpo - 6
        /\ Ln2 * (MaxExpo - 1) + 2 \in Int
        /\ Ln2 * (MaxExpo - 1) + 2 <= 8 * MaxExpo - 6
    BY Limits
  <2>8. xlog1p(x) = x /\ xlog1pf(x) = x  BY <2>6, <2>7 DEF xlog1p, xlog1pf
  <2>9. log1p_tdx_tdx(x) = x
    <3>1. /\ DoubleExpo \in Int /\ Precision + 1 <= DoubleExpo
          /\ Ln2 * (DoubleExpo - 1) = 8 * DoubleExpo - 8
      BY HypAssumption, Limits
    <3>2. k < 8 * DoubleExpo - 8 => e \in (1 - DoubleExpo)..(DoubleExpo - 1)
      BY <2>2, <2>4, <3>1, Limits
    <3>3. TdxLogOf(k) = x  BY <2>1, <2>2, TdxLogOfIs
    <3> QED  BY <2>3, <3>1, <3>2, <3>3, Limits DEF log1p_tdx_tdx, e
  <2> QED  BY <2>3, <2>8, <2>9 DEF xlog1pq_u10
<1>2. CASE x \in Specials \cup {Beyond(-1)}
  <2>1. /\ Beyond(-1) \notin {MinusZero, Infinity, MinusInfinity, Undefined}
        /\ MinusZero # MinusInfinity /\ MinusZero # Undefined
        /\ MinusInfinity # Undefined /\ MinusZero # Infinity
        /\ Infinity # MinusInfinity /\ Infinity # Undefined
    BY OfBeyond, OfSpecials DEF Specials
  <2>2. x \in {MinusZero, Infinity, MinusInfinity, Undefined, Beyond(-1)}
    BY <1>2 DEF Specials
  <2>3. log1p_tdx_tdx(x) = IF x = Beyond(-1) THEN Undefined ELSE x
    <3>1. CASE x \in {MinusZero, Infinity, MinusInfinity}
      BY <2>1, <3>1 DEF log1p_tdx_tdx
    <3>2. CASE x \in {Beyond(-1), Undefined}
      BY <2>1, <3>2 DEF log1p_tdx_tdx
    <3> QED  BY <2>2, <3>1, <3>2
  <2>4. \A b \in Int :
          Log1p(x, b) = IF x = Beyond(-1) THEN Undefined ELSE x
    <3> SUFFICES ASSUME NEW b \in Int
                 PROVE  Log1p(x, b) = IF x = Beyond(-1) THEN Undefined ELSE x
      OBVIOUS
    <3>1. CASE x = MinusZero  BY <2>1, <3>1 DEF Log1p
    <3>2. CASE x = MinusInfinity  BY <2>1, <3>2 DEF Log1p
    <3>3. CASE x \in {Beyond(-1), Undefined}  BY <2>1, <3>3 DEF Log1p
    <3>4. CASE x = Infinity
      <4>1. IsAbove(x, b)  BY <3>4, BelowAbove
      <4>2. Logarithm(Unsigned(x)) = x
        <5> DEFINE u == Unsigned(x)
        <5>1. u.log = Infinity /\ u.minus = FALSE  BY <3>4 DEF Unsigned
        <5> HIDE DEF u
        <5>2. ~IsNought(u) /\ ~IsNaNNumber(u)
          BY <5>1, NoughtIs DEF IsNought, IsNaNNumber
        <5>3. Logarithm(u) = x  BY <3>4, <5>1, <5>2 DEF Logarithm
        <5> QED  BY <5>3 DEF u
      <4> QED  BY <2>1, <3>4, <4>1, <4>2 DEF Log1p
    <3> QED  BY <2>2, <3>1, <3>2, <3>3, <3>4
  <2>5. /\ Ln2 * (MaxExpo - 3) - 2 \in Int /\ Ln2 * (MaxExpo - 1) + 2 \in Int
    BY Limits
  <2> QED  BY <2>3, <2>4, <2>5 DEF xlog1p, xlog1pf, xlog1pq_u10
<1> QED  BY <1>1, <1>2 DEF Log1pArguments

-----------------------------------------------------------------------------
(* The inverse hyperbolic functions *)

\* The double-double logarithm
LEMMA Logk2Is ==
  /\ \A k \in (-8 * MaxExpo)..(8 * MaxExpo - 4) :
       logk2(Number(k)) = Number(k)
  /\ logk2(Undefined) = Undefined
<1>1. ASSUME NEW k \in (-8 * MaxExpo)..(8 * MaxExpo - 4)
      PROVE  logk2(Number(k)) = Number(k)
  <2> DEFINE e == (k + 3) \div 8
             m == k - 8 * e
  <2>0. k \in Int /\ k >= -8 * MaxExpo /\ k <= 8 * MaxExpo - 4  BY Limits
  <2>1. e \in Int /\ 8 * e <= k + 3 /\ k + 3 < 8 * e + 8  BY <2>0
  <2>2. Number(k).kind = "number" /\ Number(k).k = k  BY <2>0, OfNumbers
  <2> HIDE DEF e
  <2>3. m \in Int /\ k + 8 * (-e) = m /\ m > Underflow /\ m <= MaxLog
        /\ 8 * e + m = k
    BY <2>0, <2>1, Limits
  <2>4. -e \in (1 - MaxExpo)..MaxExpo  BY <2>0, <2>1, Limits
  <2> HIDE DEF m
  <2>5. TimesPow2(Number(k), -e) = Number(m)
    BY <2>0, <2>3, <2>4, TimesPow2Is, OfBounded
  <2>6. Number(m).kind = "number" /\ Number(m).k = m  BY <2>3, OfNumbers
  <2> QED  BY <2>2, <2>3, <2>5, <2>6, Limits DEF logk2, e
<1>2. logk2(Undefined) = Undefined  BY OfSpecials DEF logk2
<1> QED  BY <1>1, <1>2

\* From here on the square of the argument is infinite.
LEMMA CutRootIs == CutRoot \in Int /\ CutRoot = 4 * MaxExpo + 12
<1>1. MaxExpo \in Int /\ (MaxExpo + 1) % 8 = 0  BY ExpAssumption
<1>2. 8 * ((MaxExpo + 1) \div 2) = 4 * (MaxExpo + 1)  BY <1>1
<1> QED  BY <1>1, <1>2 DEF CutRoot, Ln2

\* Inverse hyperbolic sine,
LEMMA AsinhsRight ==
  ASSUME NEW x \in Exponents
  PROVE  /\ xasinh(x) = Odd(x, CutRoot) /\ xasinhf(x) = Odd(x, CutRoot)
         /\ (Finite(x) => Abs(x.k) <= MaxLog) => xasinhq_u10(x) = x
<1>1. xasinh(x) = Odd(x, CutRoot)
  <2>1. CASE x = MinusZero
    <3>1. Finite(x) /\ Abs(x.k) = 0 /\ ~(Abs(x.k) > CutRoot)
      BY <2>1, OfSpecials, CutRootIs, Limits DEF Abs
    <3> QED  BY <2>1, <3>1 DEF xasinh, OrMinusZero, Odd
  <2>2. CASE x \in Finites /\ x # MinusZero
    <3> DEFINE k == x.k
               a == Abs(x.k)
    <3>1. /\ k \in Int /\ Finite(x) /\ x = Number(k) /\ a \in Int
          /\ Magnitude(x) = Number(a) /\ Number(a) \in Finites
          /\ Number(a).k = a /\ x # Undefined
      <4>1. /\ k \in Int /\ Finite(x) /\ x = Number(k) /\ a \in Int
            /\ Magnitude(x) = Number(a) /\ Number(a) \in Finites
            /\ Number(a).k = a
        BY <2>2, OfFinites, MagnitudeIs
      <4> QED  BY <4>1, OfNumbers
    <3>2. a = IF k < 0 THEN -k ELSE k  BY DEF Abs
    <3>3. IsAbove(Magnitude(x), CutRoot) <=> a > CutRoot
      BY <3>1, CutRootIs, BelowAbove
    <3>4. Odd(x, CutRoot) = IF a > CutRoot THEN SignedAs(Infinity, x) ELSE x
      BY <3>1 DEF Odd
    <3>5. ~(a > CutRoot) => logk2(AsinhSum(x)) = x
      <4>1. ASSUME ~(a > CutRoot)  PROVE logk2(AsinhSum(x)) = x
        <5> HIDE DEF k, a
        <5>1. ~(2 * (a - 8) >= -Underflow)
          BY <3>1, <4>1, CutRootIs, Limits
        <5>2. k \in (-8 * MaxExpo)..(8 * MaxExpo - 4)
          BY <3>1, <3>2, <4>1, CutRootIs, Limits
        <5>3. AsinhSum(x) = x
          BY <3>1, <5>1, Limits DEF AsinhSum, a, k
        <5> QED  BY <3>1, <5>2, <5>3, Logk2Is
      <4> QED  BY <4>1
    <3> HIDE DEF k, a
    <3>6. CASE a > CutRoot
      BY <2>2, <3>1, <3>3, <3>4, <3>6 DEF xasinh, OrMinusZero, OrNaN
    <3>7. CASE ~(a > CutRoot)
      BY <2>2, <3>1, <3>3, <3>4, <3>5, <3>7 DEF xasinh, OrMinusZero, OrNaN
    <3> QED  BY <3>6, <3>7
  <2>3. CASE x = Undefined
    BY <2>3, OfSpecials DEF xasinh, OrMinusZero, OrNaN, Odd
  <2>4. CASE x \in {Infinity, MinusInfinity}
    <3>1. /\ Magnitude(x) = Infinity /\ ~Finite(x) /\ x # MinusZero
          /\ x # Undefined /\ SignedAs(Infinity, x) = x
      BY <2>4, OfSpecials, OfInfinites, MagnitudeIs DEF Infinites
    <3>2. IsAbove(Infinity, CutRoot)  BY CutRootIs, BelowAbove
    <3> QED  BY <3>1, <3>2 DEF xasinh, OrMinusZero, OrNaN, Odd
  <2> QED  BY <2>1, <2>2, <2>3, <2>4, ExponentsAre DEF Infinites
<1>2. ASSUME Finite(x) => Abs(x.k) <= MaxLog  PROVE xasinhq_u10(x) = x
  <2>1. CASE x = MinusZero
    BY <2>1 DEF xasinhq_u10, asinh_tdx_tdx
  <2>2. CASE x \in Finites /\ x # MinusZero
    <3> DEFINE a == Abs(x.k)
    <3>1. /\ Magnitude(x) = Number(a) /\ a \in Int /\ a >= 0 /\ a <= MaxLog
          /\ SignedAs(Number(a), x) = x /\ x.kind = "number"
      BY <1>2, <2>2, OfFinites, MagnitudeIs
    <3> HIDE DEF a
    <3>2. Number(a) # Infinity /\ Number(a) # Beyond(-1)
      BY <3>1, OfNumbers, OfBeyond
    <3>3. a \in Expm1Low..MaxLog  BY <3>1, HypLimits, Limits
    <3>4. Number(a) \in Log1pArguments
      BY <3>3 DEF Log1pArguments, NumbersIn
    <3>5. log1p_tdx_tdx(Number(a)) = Number(a)
      BY <3>2, <3>4, Log1psRight DEF xlog1pq_u10
    <3> QED
      BY <2>2, <3>1, <3>2, <3>5 DEF xasinhq_u10, asinh_tdx_tdx, NoInfinity
  <2>3. CASE x = Undefined
    <3>1. /\ Magnitude(x) = x /\ x.kind # "inf" /\ x # Infinity
          /\ x # MinusZero /\ SignedAs(x, x) = x
      BY <2>3, OfSpecials, OfInfinites, MagnitudeIs DEF Infinites
    <3>2. log1p_tdx_tdx(x) = x
      <4>1. x \in Log1pArguments /\ x # Beyond(-1)
        BY <2>3, OfBeyond DEF Log1pArguments, Specials
      <4> QED  BY <4>1, Log1psRight DEF xlog1pq_u10
    <3> QED  BY <3>1, <3>2 DEF xasinhq_u10, asinh_tdx_tdx, NoInfinity
  <2>4. CASE x \in {Infinity, MinusInfinity}
    <3>1. x.kind = "inf" /\ x # MinusZero /\ SignedAs(Infinity, x) = x
      BY <2>4, OfSpecials, OfInfinites DEF Infinites
    <3> QED  BY <3>1 DEF xasinhq_u10, asinh_tdx_tdx
  <2> QED  BY <2>1, <2>2, <2>3, <2>4, ExponentsAre DEF Infinites
<1> QED  BY <1>1, <1>2 DEF xasinhf

\* cosine
LEMMA AcoshsRight ==
  ASSUME NEW x \in AcoshArguments
  PROVE  /\ x = Beyond(-1) => xacosh(x) = Undefined /\ xacoshf(x) = Undefined
                              /\ xacoshq_u10(x) = Undefined
         /\ x # Beyond(-1) =>
              /\ x \in Exponents /\ SignedAs(Infinity, x) = Infinity
              /\ Finite(x) => Abs(x.k) <= MaxLog
              /\ xacosh(x) = Odd(x, CutRoot) /\ xacoshf(x) = Odd(x, CutRoot)
              /\ xacoshq_u10(x) = x
<1>0. /\ Beyond(-1) \notin {MinusZero, Infinity, MinusInfinity, Undefined}
      /\ Beyond(-1).kind = "beyond" /\ \A j : Beyond(-1) # Number(j)
  BY OfBeyond DEF Specials
<1>1. log1p_tdx_tdx(Undefined) = Undefined
  BY DEF log1p_tdx_tdx
<1>2. CASE x = Beyond(-1)
  BY <1>0, <1>1, <1>2 DEF xacosh, xacoshf, xacoshq_u10, acosh_tdx_tdx
<1>3. CASE x \in NumbersIn(0, MaxLog)
  <2>1. PICK k \in 0..MaxLog : x = Number(k)  BY <1>3 DEF NumbersIn
  <2>2. k \in Int /\ k >= 0 /\ k <= MaxLog /\ Abs(k) = k
    BY Limits DEF Abs
  <2>3. /\ x.kind = "number" /\ x.k = k /\ Finite(x) /\ x \in Finites
        /\ x \notin {MinusZero, Infinity, MinusInfinity, Undefined}
        /\ ~HasMinus(x) /\ x # Beyond(-1)
    BY <1>0, <2>1, <2>2, OfNumbers DEF Finites
  <2>4. x \in Exponents /\ SignedAs(Infinity, x) = Infinity
    BY <2>3, ExponentsAre DEF SignedAs
  <2>5. acosh_tdx_tdx(x) = x
    <3>1. k \in Expm1Low..MaxLog  BY <2>2, HypLimits, Limits
    <3>2. x \in Log1pArguments  BY <2>1, <3>1 DEF Log1pArguments, NumbersIn
    <3>3. log1p_tdx_tdx(x) = x
      BY <2>3, <3>2, Log1psRight DEF xlog1pq_u10
    <3> QED  BY <2>3, <3>3 DEF acosh_tdx_tdx
  <2>6. IsAbove(x, CutRoot) <=> k > CutRoot  BY <2>3, CutRootIs, BelowAbove
  <2>7. Odd(x, CutRoot) = IF k > CutRoot THEN Infinity ELSE x
    BY <2>2, <2>3, <2>4 DEF Odd
  <2>8. xacosh(x) = Odd(x, CutRoot)
    <3>1. CASE k = 0
      <4>1. ~(k > CutRoot) /\ x = Number(0)
        BY <2>1, <3>1, CutRootIs, Limits
      <4> QED  BY <2>3, <2>7, <4>1 DEF xacosh
    <3>2. CASE k # 0 /\ k > CutRoot
      <4>1. x # Number(0)
        <5>1. Number(0).k = 0  BY OfNumbers
        <5> QED  BY <2>3, <3>2, <5>1
      <4> QED  BY <2>3, <2>6, <2>7, <3>2, <4>1 DEF xacosh
    <3>3. CASE k # 0 /\ ~(k > CutRoot)
      <4>1. x # Number(0) /\ k > 0
        <5>1. Number(0).k = 0  BY OfNumbers
        <5> QED  BY <2>2, <2>3, <3>3, <5>1
      <4>2. k \in (-8 * MaxExpo)..(8 * MaxExpo - 4)
        BY <2>2, <3>3, CutRootIs, Limits
      <4>3. AcoshSum(x) = x  BY <2>1, <2>3, <4>1 DEF AcoshSum
      <4>4. logk2(AcoshSum(x)) = x  BY <2>1, <4>2, <4>3, Logk2Is
      <4> QED  BY <2>3, <2>6, <2>7, <3>3, <4>1, <4>4 DEF xacosh
    <3> QED  BY <3>1, <3>2, <3>3
  <2> QED  BY <2>2, <2>3, <2>4, <2>5, <2>8 DEF xacoshf, xacoshq_u10
<1>4. CASE x \in {Infinity, Undefined}
  <2>1. /\ ~Finite(x) /\ x \in Exponents /\ x # Beyond(-1)
        /\ SignedAs(Infinity, x) = Infinity /\ x.kind # "number"
        /\ x # Number(0) /\ Infinity # Undefined
    BY <1>0, <1>4, OfSpecials, OfNumbers, ExponentsAre
       DEF SignedAs, Infinites
  <2>2. Odd(x, CutRoot) = x  BY <2>1 DEF Odd
  <2>3. x = Infinity => IsAbove(x, CutRoot)  BY CutRootIs, BelowAbove
  <2>4. xacosh(x) = x  BY <1>4, <2>1, <2>3 DEF xacosh
  <2>5. acosh_tdx_tdx(x) = x  BY <1>1, <1>4, <2>1 DEF acosh_tdx_tdx
  <2> QED  BY <2>1, <2>2, <2>4, <2>5 DEF xacoshf, xacoshq_u10
<1> QED  BY <1>2, <1>3, <1>4 DEF AcoshArguments

\* and tangent
LEMMA AtanhsRight ==
  ASSUME NEW x \in AtanhArguments
  PROVE  LET r == IF x.kind = "beyond" THEN Undefined ELSE x IN
         xatanh(x) = r /\ xatanhf(x) = r /\ xatanhq_u10(x) = r
<1>1. /\ log1p_tdx_tdx(Undefined) = Undefined
      /\ log1p_tdx_tdx(Beyond(-1)) = Undefined
  <2>1. Beyond(-1) \notin {MinusZero, Infinity, MinusInfinity}
    BY OfBeyond DEF Specials
  <2>2. Undefined \notin {MinusZero, Infinity, MinusInfinity}
    BY OfSpecials
  <2> QED  BY <2>1, <2>2 DEF log1p_tdx_tdx
<1>2. ASSUME x \in {Beyond(-1), Beyond(1)}
      PROVE  /\ x.kind = "beyond" /\ xatanh(x) = Undefined
             /\ xatanhq_u10(x) = Undefined
  <2>1. x.kind = "beyond" /\ x # MinusZero
    BY <1>2, OfBeyond DEF Specials
  <2>2. Magnitude(x) = Beyond(1)
    <3>2. CASE x = Beyond(-1)
      <4> DEFINE one == -1
      <4>1. one \in Int /\ one < 0 /\ one # 0 /\ one + 1 = 0  OBVIOUS
      <4>2. x = Beyond(one)  BY <3>2
      <4> HIDE DEF one
      <4>3. -one = 1  BY <4>1
      <4>4. HasMinus(x) /\ Opposed(x) = Beyond(1)
        BY <4>1, <4>2, <4>3, OfBeyond
      <4> QED  BY <4>4 DEF Magnitude
    <3>3. CASE x = Beyond(1)
      <4>1. ~HasMinus(x)  BY <3>3, OfBeyond
      <4> QED  BY <3>3, <4>1 DEF Magnitude
    <3> QED  BY <1>2, <3>2, <3>3
  <2>3. Beyond(1).kind = "beyond" /\ Beyond(1) # Infinity
    BY OfBeyond DEF Specials
  <2>4. Halved(Undefined) = Undefined /\ SignedAs(Undefined, x) = Undefined
    BY OfSpecials DEF Halved, SignedAs
  <2> QED  BY <1>1, <2>1, <2>2, <2>3, <2>4
              DEF xatanh, xatanhq_u10, atanh_tdx_tdx
<1>3. ASSUME x \in Finites, Abs(x.k) <= CutTanh
      PROVE  x.kind # "beyond" /\ xatanh(x) = x /\ xatanhq_u10(x) = x
  <2> DEFINE a == Abs(x.k)
  <2>1. /\ Magnitude(x) = Number(a) /\ a \in Int /\ a >= 0 /\ a <= CutTanh
        /\ SignedAs(Number(a), x) = x /\ Number(a).kind = "number"
        /\ Number(a).k = a /\ Finite(Number(a)) /\ Number(a) # Infinity
        /\ x.kind # "beyond" /\ x # Undefined
    BY <1>3, OfFinites, MagnitudeIs, ExponentsAre, OfNumbers, OfSpecials
  <2> HIDE DEF a
  <2>2. /\ 2 * a \in Int /\ (2 * a) \div 2 = a
        /\ 2 * a \in (-8 * MaxExpo)..(8 * MaxExpo - 4)
        /\ 2 * a \in Expm1Low..MaxLog
    BY <2>1, HypLimits, Limits
  <2>3. /\ Number(2 * a).kind = "number" /\ Number(2 * a).k = 2 * a
        /\ Number(2 * a) # Beyond(-1)
    BY <2>2, OfNumbers, OfBeyond
  <2>4. Halved(Number(2 * a)) = Number(a)  BY <2>2, <2>3 DEF Halved
  <2>5. logk2(Number(2 * a)) = Number(2 * a)  BY <2>2, Logk2Is
  <2>6. log1p_tdx_tdx(Number(2 * a)) = Number(2 * a)
    <3>1. Number(2 * a) \in Log1pArguments
      BY <2>2 DEF Log1pArguments, NumbersIn
    <3> QED  BY <2>3, <3>1, Log1psRight DEF xlog1pq_u10
  <2>7. Doubled(Number(a)) = Number(2 * a)  BY <2>1 DEF Doubled
  <2>8. xatanh(x) = x
    BY <2>1, <2>4, <2>5 DEF xatanh, OrNaN
  <2>9. atanh_tdx_tdx(x) = x
    BY <2>1, <2>4, <2>6, <2>7 DEF atanh_tdx_tdx
  <2> QED  BY <2>1, <2>8, <2>9 DEF xatanhq_u10
<1>4. ASSUME x \in Infinites
      PROVE  x.kind # "beyond" /\ xatanh(x) = x /\ xatanhq_u10(x) = x
  <2>1. /\ x.kind \in {"inf", "nan"} /\ x # MinusZero
        /\ Infinity # Undefined /\ Undefined.kind = "nan"
        /\ Infinity.kind = "inf"
    BY <1>4, OfSpecials DEF Infinites
  <2>2. Halved(Undefined) = Undefined /\ Doubled(Undefined) = Undefined
    BY OfSpecials DEF Halved, Doubled
  <2>3. CASE x = Undefined
    <3>1. Magnitude(x) = x /\ SignedAs(x, x) = x
      BY <2>3, MagnitudeIs, ExponentsAre, OfInfinites DEF Infinites
    <3> QED  BY <1>1, <2>1, <2>2, <2>3, <3>1
                DEF xatanh, xatanhq_u10, atanh_tdx_tdx, OrNaN
  <2>4. CASE x \in {Infinity, MinusInfinity}
    <3>1. /\ Magnitude(x) = Infinity /\ SignedAs(Infinity, x) = x
          /\ x # Undefined
      BY <1>4, <2>4, OfInfinites, OfSpecials DEF Infinites
    <3> QED  BY <2>1, <3>1 DEF xatanh, xatanhq_u10, atanh_tdx_tdx, OrNaN
  <2> QED  BY <1>4, <2>1, <2>3, <2>4 DEF Infinites
<1>5. \/ x \in {Beyond(-1), Beyond(1)} \/ x \in Infinites
      \/ x \in Finites /\ Abs(x.k) <= CutTanh
  <2>1. CASE x \in NumbersIn(-CutTanh, CutTanh)
    <3>1. PICK k \in (-CutTanh)..CutTanh : x = Number(k)
      BY <2>1 DEF NumbersIn
    <3>2. k \in Int /\ Abs(k) <= CutTanh  BY HypLimits, Limits DEF Abs
    <3>3. Number(k).k = k  BY <3>2, OfNumbers
    <3> QED  BY <3>1, <3>2, <3>3 DEF Finites
  <2>2. CASE x = MinusZero
    <3>1. Abs(x.k) = 0 /\ 0 <= CutTanh
      BY <2>2, OfSpecials, HypLimits, Limits DEF Abs
    <3> QED  BY <2>2, <3>1 DEF Finites
  <2> QED  BY <2>1, <2>2 DEF AtanhArguments, Specials, Infinites
<1> QED  BY <1>2, <1>3, <1>4, <1>5 DEF xatanhf

-----------------------------------------------------------------------------

\* What HyperbolicsRight says of a result r of the call c
RightHyperbolic(c, r) ==
  /\ c.fn \in Expm1s =>
       IF IsBelow(c.x, 0)
       THEN Within(r, c.x, Ln2 * Precision, Ln2 * Precision, MinusInfinity)
       ELSE Within(r, c.x, MaxLog, MaxLog, Infinity)
  /\ c.fn \in Log1ps => r = IF c.x = Beyond(-1) THEN Undefined ELSE c.x
  /\ c.fn \in Sinhs =>
       Within(r, c.x, Cut709, MaxLog + Ln2, SignedAs(Infinity, c.x))
  /\ c.fn \in Coshs =>
       Within(r, Magnitude(c.x), Cut709, MaxLog + Ln2, Infinity)
  /\ c.fn \in Tanhs =>
       Within(r, c.x, CutTanh, CutTanh + Ln2, SignedAs(Infinity, c.x))
  /\ c.fn \in Asinhs =>
       Within(r, c.x, CutRoot, MaxLog, SignedAs(Infinity, c.x))
  /\ c.fn \in Acoshs =>
       IF c.x = Beyond(-1) THEN r = Undefined
       ELSE Within(r, c.x, CutRoot, MaxLog, Infinity)
  /\ c.fn \in Atanhs => r = IF c.x.kind = "beyond" THEN Undefined ELSE c.x

Hyperbolic ==
  Expm1s \cup Log1ps \cup Sinhs \cup Coshs \cup Tanhs \cup Asinhs \cup Acoshs
    \cup Atanhs

\* No name is in two families.
LEMMA HypFamiliesApart ==
  /\ Expm1s \cap (Log1ps \cup Sinhs \cup Coshs \cup Tanhs \cup Asinhs
                  \cup Acoshs \cup Atanhs) = {}
  /\ Log1ps \cap (Sinhs \cup Coshs \cup Tanhs \cup Asinhs \cup Acoshs
                  \cup Atanhs) = {}
  /\ Sinhs \cap (Coshs \cup Tanhs \cup Asinhs \cup Acoshs \cup Atanhs) = {}
  /\ Coshs \cap (Tanhs \cup Asinhs \cup Acoshs \cup Atanhs) = {}
  /\ Tanhs \cap (Asinhs \cup Acoshs \cup Atanhs) = {}
  /\ Asinhs \cap (Acoshs \cup Atanhs) = {}
  /\ Acoshs \cap Atanhs = {}
  /\ Hyperbolic \cap (Exps \cup Logs \cup Roots \cup Powers \cup FastPowers)
       = {}
<1>1. /\ Expm1s \cap (Log1ps \cup Sinhs \cup Coshs \cup Tanhs \cup Asinhs
                  \cup Acoshs \cup Atanhs) = {}
      /\ Log1ps \cap (Sinhs \cup Coshs \cup Tanhs \cup Asinhs \cup Acoshs
                  \cup Atanhs) = {}
      /\ Sinhs \cap (Coshs \cup Tanhs \cup Asinhs \cup Acoshs \cup Atanhs)
           = {}
  BY DEF Expm1s, Log1ps, Sinhs, Coshs, Tanhs, Asinhs, Acoshs, Atanhs
<1>2. /\ Coshs \cap (Tanhs \cup Asinhs \cup Acoshs \cup Atanhs) = {}
      /\ Tanhs \cap (Asinhs \cup Acoshs \cup Atanhs) = {}
      /\ Asinhs \cap (Acoshs \cup Atanhs) = {}
      /\ Acoshs \cap Atanhs = {}
  BY DEF Coshs, Tanhs, Asinhs, Acoshs, Atanhs
<1>3. /\ Hyperbolic \cap Exps = {} /\ Hyperbolic \cap Logs = {}
      /\ Hyperbolic \cap Roots = {} /\ Hyperbolic \cap Powers = {}
      /\ Hyperbolic \cap FastPowers = {}
  BY DEF Hyperbolic, Expm1s, Log1ps, Sinhs, Coshs, Tanhs, Asinhs, Acoshs,
         Atanhs, Exps, Logs, Roots, Powers, FastPowers
<1> QED  BY <1>1, <1>2, <1>3

\* The arguments of asinh are exponents in the range of results.
LEMMA AsinhArgumentsAre ==
  ASSUME NEW x \in AsinhArguments
  PROVE  x \in Exponents /\ (Finite(x) => Abs(x.k) <= MaxLog)
<1>1. CASE x \in NumbersIn(-MaxLog, MaxLog)
  <2>1. PICK k \in (-MaxLog)..MaxLog : x = Number(k)  BY <1>1 DEF NumbersIn
  <2>2. k \in Int /\ Abs(k) <= MaxLog  BY Limits DEF Abs
  <2>3. Number(k).k = k  BY <2>2, OfNumbers
  <2> QED  BY <2>1, <2>2, <2>3, ExponentsAre DEF Finites
<1>2. CASE x = MinusZero
  <2>1. Abs(x.k) = 0 /\ 0 <= MaxLog  BY <1>2, OfSpecials, Limits DEF Abs
  <2> QED  BY <1>2, <2>1, ExponentsAre DEF Finites
<1>3. CASE x \in Infinites
  BY <1>3, OfInfinites, ExponentsAre
<1> QED  BY <1>1, <1>2, <1>3 DEF AsinhArguments, Specials, Infinites

\* Every hyperbolic function, by name
LEMMA HypFamilies ==
  ASSUME NEW c
  PROVE  /\ c.fn \in Expm1s /\ c.x \in Exponents /\ c.err \in {0, 1} =>
              HypResult(c) = LimitedTo(c.x, Expm1Low, MaxLog)
         /\ c.fn \in Log1ps /\ c.x \in Log1pArguments =>
              HypResult(c) = IF c.x = Beyond(-1) THEN Undefined ELSE c.x
         /\ c.fn \in Sinhs /\ c.x \in Exponents /\ c.err \in {0, 1} =>
              \E e \in Cut709..(MaxLog + Ln2) : HypResult(c) = Odd(c.x, e)
         /\ c.fn \in Coshs /\ c.x \in Exponents /\ c.err \in {0, 1} =>
              \E e \in Cut709..(MaxLog + Ln2) : HypResult(c) = Even(c.x, e)
         /\ c.fn \in Tanhs /\ c.x \in Exponents /\ c.err \in {0, 1} =>
              \E e \in CutTanh..(CutTanh + Ln2) : HypResult(c) = Odd(c.x, e)
         /\ c.fn \in Asinhs /\ c.x \in AsinhArguments =>
              HypResult(c) \in {Odd(c.x, CutRoot), c.x}
         /\ c.fn \in Acoshs /\ c.x \in AcoshArguments =>
              IF c.x = Beyond(-1) THEN HypResult(c) = Undefined
              ELSE HypResult(c) \in {Odd(c.x, CutRoot), c.x}
         /\ c.fn \in Atanhs /\ c.x \in AtanhArguments =>
              HypResult(c) = IF c.x.kind = "beyond" THEN Undefined ELSE c.x
<1> DEFINE x == c.x
           err == c.err
<1>1. ASSUME c.fn \in Expm1s, x \in Exponents, err \in {0, 1}
      PROVE  HypResult(c) = LimitedTo(x, Expm1Low, MaxLog)
  <2> DEFINE r == LimitedTo(x, Expm1Low, MaxLog)
  <2>1. /\ xexpm1(x, err) = r /\ xexpm1f(x, err) = r
        /\ xexpm1q_u10(x, err) = r
    BY <1>1, Expm1sRight
  <2> HIDE DEF r
  <2>2. HypResult(c) = r  BY <1>1, <2>1, Zenon DEF HypResult, Expm1s
  <2> QED  BY <2>2 DEF r
<1>2. ASSUME c.fn \in Log1ps, x \in Log1pArguments
      PROVE  HypResult(c) = IF x = Beyond(-1) THEN Undefined ELSE x
  <2> DEFINE r == IF x = Beyond(-1) THEN Undefined ELSE x
  <2>1. xlog1p(x) = r /\ xlog1pf(x) = r /\ xlog1pq_u10(x) = r
    BY <1>2, Log1psRight
  <2> HIDE DEF r
  <2>2. HypResult(c) = r  BY <1>2, <2>1, Zenon DEF HypResult, Log1ps
  <2> QED  BY <2>2 DEF r
<1>3. /\ MaxLog \in Cut709..(MaxLog + Ln2) /\ Cut709 \in Cut709..(MaxLog + Ln2)
      /\ MaxLog + Ln2 \in Cut709..(MaxLog + Ln2)
      /\ CutTanh \in CutTanh..(CutTanh + Ln2)
      /\ LimitTanh \in CutTanh..(CutTanh + Ln2)
  BY Limits, HypLimits
<1>4. ASSUME c.fn \in Sinhs, x \in Exponents, err \in {0, 1}
      PROVE  \E e \in Cut709..(MaxLog + Ln2) : HypResult(c) = Odd(x, e)
  <2> DEFINE rs == {Odd(x, MaxLog), Odd(x, Cut709), Odd(x, MaxLog + Ln2)}
  <2>1. /\ xsinh(x, err) \in rs /\ xsinhf(x, err) \in rs
        /\ xsinh_u35(x, err) \in rs /\ xsinhf_u35(x, err) \in rs
        /\ xsinhq_u10(x, err) \in rs
    BY <1>4, SinhsRight, Sinhs35Right, QuadHyperbolicsRight
  <2> HIDE DEF rs
  <2>2. HypResult(c) \in rs  BY <1>4, <2>1, Zenon DEF HypResult, Sinhs
  <2> QED  BY <1>3, <2>2 DEF rs
<1>5. ASSUME c.fn \in Coshs, x \in Exponents, err \in {0, 1}
      PROVE  \E e \in Cut709..(MaxLog + Ln2) : HypResult(c) = Even(x, e)
  <2> DEFINE rs == {Even(x, MaxLog), Even(x, Cut709), Even(x, MaxLog + Ln2)}
  <2>1. /\ xcosh(x, err) \in rs /\ xcoshf(x, err) \in rs
        /\ xcosh_u35(x, err) \in rs /\ xcoshf_u35(x, err) \in rs
        /\ xcoshq_u10(x, err) \in rs
    BY <1>5, SinhsRight, Sinhs35Right, QuadHyperbolicsRight
  <2> HIDE DEF rs
  <2>2. HypResult(c) \in rs  BY <1>5, <2>1, Zenon DEF HypResult, Coshs
  <2> QED  BY <1>3, <2>2 DEF rs
<1>6. ASSUME c.fn \in Tanhs, x \in Exponents, err \in {0, 1}
      PROVE  \E e \in CutTanh..(CutTanh + Ln2) : HypResult(c) = Odd(x, e)
  <2> DEFINE rs == {Odd(x, CutTanh), Odd(x, LimitTanh)}
  <2>1. /\ xtanh(x, err) \in rs /\ xtanhf(x, err) \in rs
        /\ xtanh_u35(x, err) \in rs /\ xtanhf_u35(x, err) \in rs
        /\ xtanhq_u10(x, err) \in rs
    BY <1>6, SinhsRight, Sinhs35Right, QuadHyperbolicsRight
  <2> HIDE DEF rs
  <2>2. HypResult(c) \in rs  BY <1>6, <2>1, Zenon DEF HypResult, Tanhs
  <2> QED  BY <1>3, <2>2 DEF rs
<1>7. ASSUME c.fn \in Asinhs, x \in AsinhArguments
      PROVE  HypResult(c) \in {Odd(x, CutRoot), x}
  <2>1. x \in Exponents /\ (Finite(x) => Abs(x.k) <= MaxLog)
    BY <1>7, AsinhArgumentsAre
  <2> DEFINE rs == {Odd(x, CutRoot), x}
  <2>2. xasinh(x) \in rs /\ xasinhf(x) \in rs /\ xasinhq_u10(x) \in rs
    BY <2>1, AsinhsRight
  <2> HIDE DEF rs
  <2>3. HypResult(c) \in rs  BY <1>7, <2>2, Zenon DEF HypResult, Asinhs
  <2> QED  BY <2>3 DEF rs
<1>8. ASSUME c.fn \in Acoshs, x \in AcoshArguments
      PROVE  IF x = Beyond(-1) THEN HypResult(c) = Undefined
             ELSE HypResult(c) \in {Odd(x, CutRoot), x}
  <2> DEFINE rs == IF x = Beyond(-1) THEN {Undefined}
                   ELSE {Odd(x, CutRoot), x}
  <2>1. xacosh(x) \in rs /\ xacoshf(x) \in rs /\ xacoshq_u10(x) \in rs
    BY <1>8, AcoshsRight
  <2> HIDE DEF rs
  <2>2. HypResult(c) \in rs  BY <1>8, <2>1, Zenon DEF HypResult, Acoshs
  <2> QED  BY <2>2 DEF rs
<1>9. ASSUME c.fn \in Atanhs, x \in AtanhArguments
      PROVE  HypResult(c) = IF x.kind = "beyond" THEN Undefined ELSE x
  <2> DEFINE r == IF x.kind = "beyond" THEN Undefined ELSE x
  <2>1. xatanh(x) = r /\ xatanhf(x) = r /\ xatanhq_u10(x) = r
    BY <1>9, AtanhsRight
  <2> HIDE DEF r
  <2>2. HypResult(c) = r  BY <1>9, <2>1, Zenon DEF HypResult, Atanhs
  <2> QED  BY <2>2 DEF r
<1> QED  BY <1>1, <1>2, <1>4, <1>5, <1>6, <1>7, <1>8, <1>9

\* Every function returns what is right for its family.
LEMMA HypResultsRight ==
  ASSUME NEW c \in HypCalls
  PROVE  RightHyperbolic(c, HypResult(c)) /\ c.fn \in Hyperbolic
<1> DEFINE x == c.x
           r == HypResult(c)
<1>1. \/ /\ c.fn \in Expm1s \cup Sinhs \cup Coshs \cup Tanhs
         /\ x \in Exponents /\ c.err \in {0, 1}
      \/ c.fn \in Log1ps /\ x \in Log1pArguments
      \/ c.fn \in Asinhs /\ x \in AsinhArguments
      \/ c.fn \in Acoshs /\ x \in AcoshArguments
      \/ c.fn \in Atanhs /\ x \in AtanhArguments
  BY HypCallsAssumption
<1>2. /\ Cut709 \in Int /\ MaxLog + Ln2 \in Int /\ CutTanh \in Int
      /\ CutTanh + Ln2 \in Int /\ CutRoot \in Int /\ MaxLog \in Int
      /\ CutRoot <= MaxLog
  BY Limits, HypLimits, CutRootIs
<1> HIDE DEF x, r
<1>3. CASE c.fn \in Expm1s
  <2>1. x \in Exponents /\ c.err \in {0, 1}
    BY <1>1, <1>3, HypFamiliesApart
  <2>2. r = LimitedTo(x, Expm1Low, MaxLog)
    BY <1>3, <2>1, HypFamilies DEF x, r
  <2>3. IF IsBelow(x, 0)
        THEN Within(r, x, Ln2 * Precision, Ln2 * Precision, MinusInfinity)
        ELSE Within(r, x, MaxLog, MaxLog, Infinity)
    BY <2>1, <2>2, Expm1sAreWithin
  <2> QED  BY <1>3, <2>3, HypFamiliesApart, Zenon
              DEF RightHyperbolic, Hyperbolic, x, r
<1>4. CASE c.fn \in Log1ps
  <2>1. x \in Log1pArguments  BY <1>1, <1>4, HypFamiliesApart
  <2>2. r = IF x = Beyond(-1) THEN Undefined ELSE x
    BY <1>4, <2>1, HypFamilies DEF x, r
  <2> QED  BY <1>4, <2>2, HypFamiliesApart, Zenon
              DEF RightHyperbolic, Hyperbolic, x, r
<1>5. CASE c.fn \in Sinhs
  <2>1. x \in Exponents /\ c.err \in {0, 1}
    BY <1>1, <1>5, HypFamiliesApart
  <2>2. PICK e \in Cut709..(MaxLog + Ln2) : r = Odd(x, e)
    BY <1>5, <2>1, HypFamilies DEF x, r
  <2>3. Within(r, x, Cut709, MaxLog + Ln2, SignedAs(Infinity, x))
    BY <1>2, <2>1, <2>2, OddIsWithin
  <2> QED  BY <1>5, <2>3, HypFamiliesApart, Zenon
              DEF RightHyperbolic, Hyperbolic, x, r
<1>6. CASE c.fn \in Coshs
  <2>1. x \in Exponents /\ c.err \in {0, 1}
    BY <1>1, <1>6, HypFamiliesApart
  <2>2. PICK e \in Cut709..(MaxLog + Ln2) : r = Even(x, e)
    BY <1>6, <2>1, HypFamilies DEF x, r
  <2>3. Within(r, Magnitude(x), Cut709, MaxLog + Ln2, Infinity)
    BY <1>2, <2>1, <2>2, EvenIsWithin
  <2> QED  BY <1>6, <2>3, HypFamiliesApart, Zenon
              DEF RightHyperbolic, Hyperbolic, x, r
<1>7. CASE c.fn \in Tanhs
  <2>1. x \in Exponents /\ c.err \in {0, 1}
    BY <1>1, <1>7, HypFamiliesApart
  <2>2. PICK e \in CutTanh..(CutTanh + Ln2) : r = Odd(x, e)
    BY <1>7, <2>1, HypFamilies DEF x, r
  <2>3. Within(r, x, CutTanh, CutTanh + Ln2, SignedAs(Infinity, x))
    BY <1>2, <2>1, <2>2, OddIsWithin
  <2> QED  BY <1>7, <2>3, HypFamiliesApart, Zenon
              DEF RightHyperbolic, Hyperbolic, x, r
<1>0. ASSUME x \in Exponents, Finite(x) => Abs(x.k) <= MaxLog,
             r \in {Odd(x, CutRoot), x}
      PROVE  Within(r, x, CutRoot, MaxLog, SignedAs(Infinity, x))
  <2>1. Within(Odd(x, CutRoot), x, CutRoot, MaxLog, SignedAs(Infinity, x))
    BY <1>0, <1>2, OddIsWithin
  <2>2. Within(Odd(x, MaxLog), x, CutRoot, MaxLog, SignedAs(Infinity, x))
    BY <1>0, <1>2, OddIsWithin
  <2>3. Odd(x, MaxLog) = x
    <3>1. Finite(x) => Abs(x.k) \in Int  BY <1>0, OfFinites, OfInfinites,
                                            ExponentsAre
    <3>2. Finite(x) => ~(Abs(x.k) > MaxLog)
      <4> DEFINE a == Abs(x.k)
      <4>1. Finite(x) => a \in Int /\ a <= MaxLog  BY <1>0, <3>1
      <4> HIDE DEF a
      <4>2. Finite(x) => ~(a > MaxLog)  BY <1>2, <4>1
      <4> QED  BY <4>2 DEF a
    <3> QED  BY <3>2 DEF Odd
  <2> QED  BY <1>0, <2>1, <2>2, <2>3
<1>8. CASE c.fn \in Asinhs
  <2>1. x \in AsinhArguments  BY <1>1, <1>8, HypFamiliesApart
  <2>2. r \in {Odd(x, CutRoot), x}  BY <1>8, <2>1, HypFamilies DEF x, r
  <2>3. Within(r, x, CutRoot, MaxLog, SignedAs(Infinity, x))
    BY <1>0, <2>1, <2>2, AsinhArgumentsAre
  <2> QED  BY <1>8, <2>3, HypFamiliesApart, Zenon
              DEF RightHyperbolic, Hyperbolic, x, r
<1>9. CASE c.fn \in Acoshs
  <2>1. x \in AcoshArguments  BY <1>1, <1>9, HypFamiliesApart
  <2>2. IF x = Beyond(-1) THEN r = Undefined
        ELSE r \in {Odd(x, CutRoot), x}
    BY <1>9, <2>1, HypFamilies DEF x, r
  <2>3. x # Beyond(-1) => Within(r, x, CutRoot, MaxLog, Infinity)
    <3>1. x # Beyond(-1) =>
            /\ x \in Exponents /\ SignedAs(Infinity, x) = Infinity
            /\ Finite(x) => Abs(x.k) <= MaxLog
      BY <2>1, AcoshsRight
    <3>2. x # Beyond(-1) =>
            Within(r, x, CutRoot, MaxLog, SignedAs(Infinity, x))
      BY <1>0, <2>2, <3>1
    <3> QED  BY <3>1, <3>2
  <2>4. IF x = Beyond(-1) THEN r = Undefined
        ELSE Within(r, x, CutRoot, MaxLog, Infinity)
    BY <2>2, <2>3
  <2> QED  BY <1>9, <2>4, HypFamiliesApart, Zenon
              DEF RightHyperbolic, Hyperbolic, x, r
<1>10. CASE c.fn \in Atanhs
  <2>1. x \in AtanhArguments  BY <1>1, <1>10, HypFamiliesApart
  <2>2. r = IF x.kind = "beyond" THEN Undefined ELSE x
    BY <1>10, <2>1, HypFamilies DEF x, r
  <2> QED  BY <1>10, <2>2, HypFamiliesApart, Zenon
              DEF RightHyperbolic, Hyperbolic, x, r
<1> QED
  BY <1>1, <1>3, <1>4, <1>5, <1>6, <1>7, <1>8, <1>9, <1>10, Zenon

\* HyperbolicsRight follows from what is right for each family.
LEMMA HyperbolicsRightIs ==
  ASSUME \A i \in DOMAIN eret : RightHyperbolic(ecall, eret[i])
  PROVE  HyperbolicsRight
<1> DEFINE c == ecall
           x == ecall.x
           sinh(r) ==
             Within(r, x, Cut709, MaxLog + Ln2, SignedAs(Infinity, x))
           cosh(r) == Within(r, Magnitude(x), Cut709, MaxLog + Ln2, Infinity)
           tanh(r) ==
             Within(r, x, CutTanh, CutTanh + Ln2, SignedAs(Infinity, x))
           asinh(r) ==
             Within(r, x, CutRoot, MaxLog, SignedAs(Infinity, x))
           acosh(r) == IF x = Beyond(-1) THEN r = Undefined
                       ELSE Within(r, x, CutRoot, MaxLog, Infinity)
           atanh(r) == r = IF x.kind = "beyond" THEN Undefined ELSE x
           expm1(r) ==
             IF IsBelow(x, 0)
             THEN Within(r, x, Ln2 * Precision, Ln2 * Precision, MinusInfinity)
             ELSE Within(r, x, MaxLog, MaxLog, Infinity)
           log1p(r) == r = IF x = Beyond(-1) THEN Undefined ELSE x
<1> SUFFICES ASSUME NEW i \in DOMAIN eret
             PROVE  CASE c.fn \in Expm1s -> expm1(eret[i])
                      [] c.fn \in Log1ps -> log1p(eret[i])
                      [] c.fn \in Sinhs -> sinh(eret[i])
                      [] c.fn \in Coshs -> cosh(eret[i])
                      [] c.fn \in Tanhs -> tanh(eret[i])
                      [] c.fn \in Asinhs -> asinh(eret[i])
                      [] c.fn \in Acoshs -> acosh(eret[i])
                      [] c.fn \in Atanhs -> atanh(eret[i])
                      [] OTHER -> TRUE
  BY Zenon DEF HyperbolicsRight
<1>1. /\ c.fn \in Expm1s => expm1(eret[i])
      /\ c.fn \in Log1ps => log1p(eret[i])
      /\ c.fn \in Sinhs => sinh(eret[i])
      /\ c.fn \in Coshs => cosh(eret[i])
      /\ c.fn \in Tanhs => tanh(eret[i])
      /\ c.fn \in Asinhs => asinh(eret[i])
      /\ c.fn \in Acoshs => acosh(eret[i])
      /\ c.fn \in Atanhs => atanh(eret[i])
  <2>1. RightHyperbolic(ecall, eret[i])  OBVIOUS
  <2> QED  BY <2>1, Zenon DEF RightHyperbolic
<1> HIDE DEF x, expm1, log1p, sinh, cosh, tanh, asinh, acosh, atanh
<1>2. \/ c.fn \notin Hyperbolic
      \/ c.fn \in Expm1s \/ c.fn \in Log1ps \/ c.fn \in Sinhs
      \/ c.fn \in Coshs \/ c.fn \in Tanhs \/ c.fn \in Asinhs
      \/ c.fn \in Acoshs \/ c.fn \in Atanhs
  BY DEF Hyperbolic
<1>3. CASE c.fn \notin Hyperbolic  BY <1>3, Zenon DEF Hyperbolic
<1>4. CASE c.fn \in Expm1s  BY <1>1, <1>4, HypFamiliesApart, Zenon
<1>5. CASE c.fn \in Log1ps  BY <1>1, <1>5, HypFamiliesApart, Zenon
<1>6. CASE c.fn \in Sinhs  BY <1>1, <1>6, HypFamiliesApart, Zenon
<1>7. CASE c.fn \in Coshs  BY <1>1, <1>7, HypFamiliesApart, Zenon
<1>8. CASE c.fn \in Tanhs  BY <1>1, <1>8, HypFamiliesApart, Zenon
<1>9. CASE c.fn \in Asinhs  BY <1>1, <1>9, HypFamiliesApart, Zenon
<1>10. CASE c.fn \in Acoshs  BY <1>1, <1>10, HypFamiliesApart, Zenon
<1>11. CASE c.fn \in Atanhs  BY <1>1, <1>11, HypFamiliesApart, Zenon
<1> QED
  BY <1>2, <1>3, <1>4, <1>5, <1>6, <1>7, <1>8, <1>9, <1>10, <1>11, Zenon

\* The same state with the hyperbolic functions
HypState ==
  /\ ecall \in ExpCalls \cup HypCalls
  /\ \/ eret = <<>>
     \/ ecall \in ExpCalls /\ eret = <<ExpResult(ecall)>>
     \/ ecall \in HypCalls /\ eret = <<HypResult(ecall)>>

\* All functions made of an exponential or a logarithm, for all arguments that
\* have a name: the result of C99 or, of a hyperbolic function beyond its
\* documented range, the limit.
THEOREM ElementaryIsRight == HypSpec => []ElementaryRight
<1>1. HypInit => HypState  BY DEF HypInit, HypState
<1>2. HypState /\ [ExpCall \/ HypCall]_expvars => HypState'
  <2> SUFFICES ASSUME HypState, [ExpCall \/ HypCall]_expvars
               PROVE  HypState'
    OBVIOUS
  <2>1. CASE ExpCall  BY <2>1 DEF HypState, ExpCall
  <2>2. CASE HypCall  BY <2>2 DEF HypState, HypCall
  <2>3. CASE UNCHANGED expvars  BY <2>3 DEF HypState, expvars
  <2> QED  BY <2>1, <2>2, <2>3
<1>3. HypState => ElementaryRight
  <2> SUFFICES ASSUME HypState  PROVE ElementaryRight
    OBVIOUS
  <2>1. ASSUME NEW i \in DOMAIN eret
        PROVE  /\ RightPower(ecall, eret[i])
               /\ RightHyperbolic(ecall, eret[i])
    <3>1. eret # <<>>  OBVIOUS
    <3>2. CASE ecall \in ExpCalls /\ eret = <<ExpResult(ecall)>>
      <4>1. eret[i] = ExpResult(ecall)  BY <3>2
      <4>2. ecall.fn \in Exps \cup Logs \cup Roots \cup Powers
                           \cup FastPowers
        BY <3>2, ExpCallsAssumption
      <4>3. ecall.fn \notin Hyperbolic  BY <4>2, HypFamiliesApart
      <4> QED  BY <3>2, <4>1, <4>3, ExpResultsRight
                  DEF RightHyperbolic, Hyperbolic
    <3>3. CASE ecall \in HypCalls /\ eret = <<HypResult(ecall)>>
      <4>1. eret[i] = HypResult(ecall)  BY <3>3
      <4>2. ecall.fn \in Hyperbolic  BY <3>3, HypResultsRight
      <4>3. ecall.fn \notin Exps \cup Logs \cup Roots \cup Powers
                              \cup FastPowers
        BY <4>2, HypFamiliesApart
      <4> QED  BY <3>3, <4>1, <4>3, HypResultsRight DEF RightPower
    <3> QED  BY <3>1, <3>2, <3>3 DEF HypState
  <2> QED  BY <2>1, PowersRightIs, HyperbolicsRightIs DEF ElementaryRight
<1> QED  BY <1>1, <1>2, <1>3, PTL DEF HypSpec

-----------------------------------------------------------------------------
(* Sine, cosine and tangent *)

\* The arguments of sine, cosine and tangent, told apart
LEMMA TrigArgumentsAre == TrigArguments = Finites \cup Infinites
<1>1. \A k \in Int : Number(k) \in [kind : {"number"}, k : Int]  BY DEF Number
<1>2. \A x \in [kind : {"number"}, k : Int] : x.k \in Int /\ x = Number(x.k)
  BY DEF Number
<1> QED  BY <1>1, <1>2 DEF TrigArguments, Finites, Infinites, Specials

\* The ranges, as integers in their order
LEMMA TrigLimits ==
  /\ NearRange \in Int /\ MiddleRange \in Int /\ TanRange \in Int
  /\ FastRange \in Int /\ PiRange \in Int /\ IntRange \in Int
  /\ Split \in Int /\ FastRange <= NearRange /\ NearRange <= TanRange
  /\ TanRange <= MiddleRange /\ PiRange < IntRange /\ MiddleRange > 5
  /\ Split > 0 /\ Split % 4 = 0 /\ 0 <= NearRange /\ 0 <= PiRange
  /\ QuarterTurn = 8 /\ HalfTurn = 16 /\ Turn = 32
BY TrigAssumption DEF QuarterTurn, HalfTurn, Turn

\* Half turns change the sign of a sine.
LEMMA SineFolds ==
  ASSUME NEW d \in -9..9, NEW n \in Int
  PROVE  /\ Folded(d % 32) \in Int
         /\ SineOf(d) = Number(Folded(d % 32))
         /\ SineOf(d + 16 * n) =
              Number(IF n % 2 = 1 THEN -Folded(d % 32) ELSE Folded(d % 32))
<1>0. d \in Int /\ d + 16 * n \in Int  OBVIOUS
<1>1. Folded(d % 32) \in Int  BY <1>0 DEF Folded, QuarterTurn, HalfTurn, Turn
<1>2. CASE n % 2 = 1
  <2>1. PICK j \in Int : n = 2 * j + 1
    <3>1. n = 2 * (n \div 2) + 1 /\ n \div 2 \in Int  BY <1>2
    <3> QED  BY <3>1
  <2>2. (d + 16 * n) % 32 = (d + 16) % 32  BY <2>1
  <2>3. Folded((d + 16) % 32) = -Folded(d % 32)
    BY DEF Folded, QuarterTurn, HalfTurn, Turn
  <2> QED  BY <1>1, <1>2, <2>2, <2>3 DEF SineOf, Turn
<1>3. CASE n % 2 # 1
  <2>1. PICK j \in Int : n = 2 * j
    <3>1. n = 2 * (n \div 2) /\ n \div 2 \in Int  BY <1>3
    <3> QED  BY <3>1
  <2>2. (d + 16 * n) % 32 = d % 32  BY <2>1
  <2> QED  BY <1>1, <1>3, <2>2 DEF SineOf, Turn
<1> QED  BY <1>2, <1>3

\* A change of sign, where there is one to change
LEMMA FlippedIs ==
  /\ \A k \in Int : \A yes \in BOOLEAN :
       Flipped(Number(k), yes) = Number(IF yes THEN -k ELSE k)
  /\ \A yes : Flipped(Undefined, yes) = Undefined
  /\ \A yes : Flipped(MinusZero, yes) = MinusZero
BY OfNumbers, OfSpecials DEF Flipped

\* Right reductions of k: for sine to multiples of pi, for cosine to odd ones
\* of pi / 2, for tangent and pairs to all of pi / 2.
SinReduction(r, k) ==
  \E n \in Int : /\ k - 16 * n \in -9..9 /\ r.d = Number(k - 16 * n)
                 /\ r.q \in Int /\ (Bit(r.q, 1) <=> n % 2 = 1)

CosReduction(r, k) ==
  \E n \in Int : /\ k - 16 * n - 8 \in -9..9 /\ r.d = Number(k - 16 * n - 8)
                 /\ r.q \in Int /\ (Bit(r.q, 2) <=> n % 2 = 1)

PairReduction(r, k) ==
  \E n \in Int : /\ k - 8 * n \in -5..5 /\ r.d = Number(k - 8 * n)
                 /\ r.q \in Int /\ (r.q - n) % 4 = 0

NoReduction(r) == r.q = 0 /\ r.d = Undefined

\* The bits of a quotient, and of an even one
LEMMA BitsAre ==
  ASSUME NEW q \in Int
  PROVE  /\ Bit(q, 1) <=> q % 2 = 1
         /\ Bit(q, 2) <=> q % 4 \in {2, 3}
         /\ Bit(q, 1) \in BOOLEAN /\ Bit(q, 2) \in BOOLEAN
         /\ Bit(q, 4) \in BOOLEAN
         /\ Bit(2 * q, 2) <=> q % 2 = 1
         /\ Bit(2 * q, 4) <=> q % 4 \in {2, 3}
<1>1. Bit(q, 1) <=> q % 2 = 1  BY DEF Bit
<1>2. Bit(q, 2) <=> q % 4 \in {2, 3}  BY DEF Bit
<1>3. Bit(2 * q, 2) <=> q % 2 = 1  BY DEF Bit
<1>4. Bit(2 * q, 4) <=> q % 4 \in {2, 3}  BY DEF Bit
<1>5. Bit(q, 1) \in BOOLEAN /\ Bit(q, 2) \in BOOLEAN /\ Bit(q, 4) \in BOOLEAN
  BY DEF Bit
<1> QED  BY <1>1, <1>2, <1>3, <1>4, <1>5

\* The polynomials near 0
LEMMA PolyIs ==
  ASSUME NEW d \in Int
  PROVE  /\ d \in -9..9 => Sine(Number(d)) = SineOf(d)
         /\ d \in -5..5 => /\ SmallSine(Number(d)) = SineOf(d)
                           /\ SmallCosine(Number(d)) = CosineOf(d)
                           /\ Poly(Number(d), QuarterTurn \div 2, TangentOf)
                                = TangentOf(d)
                           /\ Poly(Number(d), QuarterTurn \div 2,
                                   NegCotangentOf) = NegCotangentOf(d)
<1>1. Finite(Number(d)) /\ Number(d).k = d /\ Number(d) # MinusZero
  BY OfNumbers
<1>2. d \in -9..9 => ~(Abs(d) > QuarterTurn + 1)  BY DEF QuarterTurn, Abs
<1>3. d \in -5..5 => ~(Abs(d) > QuarterTurn \div 2 + 1)
  BY DEF QuarterTurn, Abs
<1> QED  BY <1>1, <1>2, <1>3 DEF Sine, SmallSine, SmallCosine, Poly

\* A right reduction gives the sine,
LEMMA SinFromRight ==
  ASSUME NEW k \in Int, NEW r, SinReduction(r, k)
  PROVE  SinFrom(r) = SineOf(k)
<1>1. PICK n \in Int : /\ k - 16 * n \in -9..9 /\ r.d = Number(k - 16 * n)
                       /\ r.q \in Int /\ (Bit(r.q, 1) <=> n % 2 = 1)
  BY DEF SinReduction
<1> DEFINE d == k - 16 * n
           f == Folded(d % 32)
           odd == Bit(r.q, 1)
<1>2. d \in -9..9 /\ d \in Int /\ d + 16 * n = k  BY <1>1
<1>3. odd \in BOOLEAN /\ (odd <=> n % 2 = 1)  BY <1>1, BitsAre
<1> HIDE DEF d, odd
<1>4. /\ f \in Int /\ SineOf(d) = Number(f)
      /\ SineOf(d + 16 * n) = Number(IF n % 2 = 1 THEN -f ELSE f)
  BY <1>2, SineFolds
<1> HIDE DEF f
<1>5. SinFrom(r) = Flipped(SineOf(d), odd)
  BY <1>1, <1>2, PolyIs DEF SinFrom, d, odd
<1> QED  BY <1>2, <1>3, <1>4, <1>5, FlippedIs

\* the cosine
LEMMA CosFromRight ==
  ASSUME NEW k \in Int, NEW r, CosReduction(r, k)
  PROVE  CosFrom(r) = CosineOf(k)
<1>1. PICK n \in Int : /\ k - 16 * n - 8 \in -9..9
                       /\ r.d = Number(k - 16 * n - 8)
                       /\ r.q \in Int /\ (Bit(r.q, 2) <=> n % 2 = 1)
  BY DEF CosReduction
<1> DEFINE d == k - 16 * n - 8
           m == n + 1
           f == Folded(d % 32)
           odd == Bit(r.q, 2)
<1>2. d \in -9..9 /\ d \in Int /\ m \in Int /\ d + 16 * m = k + 8
      /\ (m % 2 = 1 <=> ~(n % 2 = 1))
  BY <1>1
<1>3. odd \in BOOLEAN /\ (odd <=> n % 2 = 1)  BY <1>1, BitsAre
<1> HIDE DEF d, odd, m
<1>4. /\ f \in Int /\ SineOf(d) = Number(f)
      /\ SineOf(d + 16 * m) = Number(IF m % 2 = 1 THEN -f ELSE f)
  BY <1>2, SineFolds
<1> HIDE DEF f
<1>5. CosFrom(r) = Flipped(SineOf(d), ~odd)
  BY <1>1, <1>2, PolyIs DEF CosFrom, d, odd
<1>6. CosineOf(k) = SineOf(d + 16 * m)  BY <1>2 DEF CosineOf, QuarterTurn
<1> QED  BY <1>2, <1>3, <1>4, <1>5, <1>6, FlippedIs

\* Tangents repeat every half turn.
LEMMA TangentIs ==
  ASSUME NEW d \in -5..5, NEW j \in Int
  PROVE  /\ TangentOf(d) = Number(d)
         /\ TangentOf(d + 16 * j) = Number(d)
         /\ TangentOf(d + 8 + 16 * j) = NegCotangentOf(d)
         /\ NegCotangentOf(d) = TangentOf(d + 8)
<1>1. ((d + 8) % 16) - 8 = d  OBVIOUS
<1>2. ((d + 16 * j + 8) % 16) - 8 = d  OBVIOUS
<1>3. (d + 8 + 16 * j + 8) % 16 = (d + 8 + 8) % 16  OBVIOUS
<1> QED  BY <1>1, <1>2, <1>3
            DEF TangentOf, NegCotangentOf, QuarterTurn, HalfTurn

\* and the tangent, by either way to compute it.
LEMMA TanFromRight ==
  ASSUME NEW k \in Int, NEW r, PairReduction(r, k)
  PROVE  TanFrom(r) = TangentOf(k) /\ TanfFrom(r) = TangentOf(k)
<1>1. PICK n \in Int : /\ k - 8 * n \in -5..5 /\ r.d = Number(k - 8 * n)
                       /\ r.q \in Int /\ (r.q - n) % 4 = 0
  BY DEF PairReduction
<1> DEFINE d == k - 8 * n
           odd == Bit(r.q, 1)
<1>2. d \in -5..5 /\ d \in Int /\ -d \in -5..5 /\ -d \in Int  BY <1>1
<1>3. odd \in BOOLEAN /\ (odd <=> n % 2 = 1)
  <2>1. odd <=> r.q % 2 = 1  BY <1>1, BitsAre
  <2>2. r.q % 2 = n % 2
    <3> DEFINE q == r.q
    <3>1. q \in Int /\ (q - n) % 4 = 0  BY <1>1
    <3> HIDE DEF q
    <3>2. q % 2 = n % 2  BY <3>1
    <3> QED  BY <3>2 DEF q
  <2> QED  BY <1>1, <2>1, <2>2, BitsAre
<1>4. TangentOf(k) = IF n % 2 = 1 THEN NegCotangentOf(d) ELSE Number(d)
  <2>1. n % 2 = 1 => \E j \in Int : k = d + 8 + 16 * j
    <3>1. n % 2 = 1 => n \div 2 \in Int /\ k = d + 8 + 16 * (n \div 2)
      BY DEF d
    <3> QED  BY <3>1
  <2>2. n % 2 # 1 => \E j \in Int : k = d + 16 * j
    <3>1. n % 2 # 1 => n \div 2 \in Int /\ k = d + 16 * (n \div 2)
      BY DEF d
    <3> QED  BY <3>1
  <2> HIDE DEF d
  <2> QED  BY <1>2, <2>1, <2>2, TangentIs
<1> HIDE DEF d, odd
<1>5. TanFrom(r) = IF odd THEN NegCotangentOf(d) ELSE TangentOf(d)
  BY <1>1, <1>2, PolyIs DEF TanFrom, d, odd
<1>6. TangentOf(d) = Number(d) /\ TangentOf(-d) = Number(-d)
  BY <1>2, TangentIs
<1>7. TanfFrom(r) = IF odd THEN NegCotangentOf(d) ELSE TangentOf(d)
  <2>1. CASE odd
    <3> DEFINE yes == TRUE
    <3>0. yes \in BOOLEAN /\ yes  OBVIOUS
    <3> HIDE DEF yes
    <3>1. Flipped(r.d, yes) = Number(-d)
      BY <1>1, <1>2, <3>0, FlippedIs DEF d
    <3>2. Poly(Number(-d), QuarterTurn \div 2, TangentOf) = Number(-d)
      BY <1>2, <1>6, PolyIs
    <3>3. Finite(Number(-d)) /\ Number(-d).k = -d  BY <1>2, OfNumbers
    <3>4. QuarterTurn - (-d) = d + 8  BY <1>2 DEF QuarterTurn
    <3>5. Recip(Number(-d)) = TangentOf(d + 8)  BY <3>3, <3>4 DEF Recip
    <3>6. NegCotangentOf(d) = TangentOf(d + 8)
      <4>1. 0 \in Int  OBVIOUS
      <4> QED  BY <1>2, <4>1, TangentIs
    <3> QED  BY <2>1, <3>1, <3>2, <3>5, <3>6 DEF TanfFrom, odd, yes
  <2>2. CASE ~odd
    BY <1>1, <1>2, <2>2, PolyIs DEF TanfFrom, d, odd
  <2> QED  BY <2>1, <2>2
<1> QED  BY <1>3, <1>4, <1>5, <1>6, <1>7

\* Sine and cosine of d exchanged and negated for n quarter turns
LEMMA PairIs ==
  ASSUME NEW d \in -5..5, NEW n \in Int, NEW s
  PROVE  LET f == Folded(d % 32)
             g == Folded((d + 8) % 32)
             odd == n % 2 = 1
             high == n % 4 \in {2, 3}
             next == (n + 1) % 4 \in {2, 3}
         IN
         /\ f \in Int /\ g \in Int
         /\ SineOf(d) = Number(f) /\ CosineOf(d) = Number(g)
         /\ SineOf(d + 8 * n) =
              Flipped(IF odd THEN CosineOf(d) ELSE SineOf(d), high)
         /\ CosineOf(d + 8 * n) =
              Flipped(IF odd THEN SineOf(d) ELSE CosineOf(d), next)
<1> DEFINE f == Folded(d % 32)
           g == Folded((d + 8) % 32)
           odd == n % 2 = 1
           high == n % 4 \in {2, 3}
           next == (n + 1) % 4 \in {2, 3}
           h(k) == Folded(k % 32)
<1>1. \A k \in Int : h(k) \in Int /\ SineOf(k) = Number(h(k))
                     /\ CosineOf(k) = Number(h(k + 8))
  BY DEF Folded, SineOf, CosineOf, QuarterTurn, HalfTurn, Turn
<1>2. f \in Int /\ g \in Int  BY <1>1
<1>3. SineOf(d) = Number(f) /\ CosineOf(d) = Number(g)
  <2>1. d \in Int  OBVIOUS
  <2> HIDE DEF h
  <2>2. SineOf(d) = Number(h(d)) /\ CosineOf(d) = Number(h(d + 8))
    BY <1>1, <2>1
  <2> QED  BY <2>2 DEF h
<1>4. h(d + 8 * n) = IF odd THEN (IF high THEN -g ELSE g)
                     ELSE (IF high THEN -f ELSE f)
  <2>1. PICK m \in Int : n = 4 * m + (n % 4)
    <3>1. n = 4 * (n \div 4) + (n % 4) /\ n \div 4 \in Int  OBVIOUS
    <3> QED  BY <3>1
  <2>2. (d + 8 * n) % 32 = (d + 8 * (n % 4)) % 32  BY <2>1
  <2>3. CASE n % 4 = 0
    BY <2>2, <2>3 DEF Folded, QuarterTurn, HalfTurn, Turn
  <2>4. CASE n % 4 = 1
    BY <2>2, <2>4 DEF Folded, QuarterTurn, HalfTurn, Turn
  <2>5. CASE n % 4 = 2
    BY <2>2, <2>5 DEF Folded, QuarterTurn, HalfTurn, Turn
  <2>6. CASE n % 4 = 3
    BY <2>2, <2>6 DEF Folded, QuarterTurn, HalfTurn, Turn
  <2>7. n % 4 \in 0..3  OBVIOUS
  <2> QED  BY <2>3, <2>4, <2>5, <2>6, <2>7
<1>5. h(d + 8 * n + 8) = IF odd THEN (IF next THEN -f ELSE f)
                         ELSE (IF next THEN -g ELSE g)
  <2>1. PICK m \in Int : n = 4 * m + (n % 4)
    <3>1. n = 4 * (n \div 4) + (n % 4) /\ n \div 4 \in Int  OBVIOUS
    <3> QED  BY <3>1
  <2>2. (d + 8 * n + 8) % 32 = (d + 8 * (n % 4) + 8) % 32  BY <2>1
  <2>3. CASE n % 4 = 0
    BY <2>2, <2>3 DEF Folded, QuarterTurn, HalfTurn, Turn
  <2>4. CASE n % 4 = 1
    BY <2>2, <2>4 DEF Folded, QuarterTurn, HalfTurn, Turn
  <2>5. CASE n % 4 = 2
    BY <2>2, <2>5 DEF Folded, QuarterTurn, HalfTurn, Turn
  <2>6. CASE n % 4 = 3
    BY <2>2, <2>6 DEF Folded, QuarterTurn, HalfTurn, Turn
  <2>7. n % 4 \in 0..3  OBVIOUS
  <2> QED  BY <2>3, <2>4, <2>5, <2>6, <2>7
<1>6. /\ SineOf(d + 8 * n) = Number(h(d + 8 * n))
      /\ CosineOf(d + 8 * n) = Number(h(d + 8 * n + 8))
  <2>1. d + 8 * n \in Int  OBVIOUS
  <2> HIDE DEF h
  <2> QED  BY <1>1, <2>1
<1>7. odd \in BOOLEAN /\ high \in BOOLEAN /\ next \in BOOLEAN  OBVIOUS
<1> HIDE DEF f, g, h, odd, high, next
<1>8. /\ Flipped(Number(f), high) = Number(IF high THEN -f ELSE f)
      /\ Flipped(Number(g), high) = Number(IF high THEN -g ELSE g)
      /\ Flipped(Number(f), next) = Number(IF next THEN -f ELSE f)
      /\ Flipped(Number(g), next) = Number(IF next THEN -g ELSE g)
  BY <1>2, <1>7, FlippedIs
<1>9. SineOf(d + 8 * n) = Flipped(IF odd THEN Number(g) ELSE Number(f), high)
  BY <1>4, <1>6, <1>7, <1>8
<1>10. CosineOf(d + 8 * n) =
         Flipped(IF odd THEN Number(f) ELSE Number(g), next)
  BY <1>5, <1>6, <1>7, <1>8
<1> QED  BY <1>2, <1>3, <1>9, <1>10 DEF f, g, odd, high, next

\* Both sine and cosine, exchanged and with signs as q says
LEMMA SinCosFromRight ==
  ASSUME NEW x \in TrigArguments, NEW r,
         x \in Finites => PairReduction(r, x.k),
         x \notin Finites => NoReduction(r),
         x = MinusZero => r.q % 4 = 0
  PROVE  /\ SineRight(x, SinCosFrom(x, r)[1])
         /\ CosineRight(x, SinCosFrom(x, r)[2])
<1>1. CASE x \in Finites
  <2> DEFINE k == x.k
  <2>0. k \in Int /\ Finite(x)  BY <1>1, OfFinites
  <2>1. PICK n \in Int : /\ k - 8 * n \in -5..5 /\ r.d = Number(k - 8 * n)
                         /\ r.q \in Int /\ (r.q - n) % 4 = 0
    BY <1>1 DEF PairReduction
  <2> DEFINE d == k - 8 * n
             q == r.q
  <2>2. d \in -5..5 /\ d \in Int /\ d + 8 * n = k  BY <2>0, <2>1
  <2>3. q \in Int /\ (q - n) % 4 = 0 /\ q + 1 \in Int  BY <2>1
  <2>3a. x = MinusZero => q % 4 = 0  OBVIOUS
  <2> HIDE DEF d, q, k
  <2>4. q % 2 = n % 2 /\ q % 4 = n % 4 /\ (q + 1) % 4 = (n + 1) % 4
    BY <2>3
  <2>5. /\ Bit(q, 1) <=> n % 2 = 1
        /\ Bit(q, 2) <=> n % 4 \in {2, 3}
        /\ Bit(q + 1, 2) <=> (n + 1) % 4 \in {2, 3}
        /\ Bit(q, 1) \in BOOLEAN
        /\ Bit(q, 2) \in BOOLEAN /\ Bit(q + 1, 2) \in BOOLEAN
    BY <2>3, <2>4, BitsAre
  <2> DEFINE odd == Bit(q, 1)
             high == Bit(q, 2)
             next == Bit(q + 1, 2)
             s == IF x = MinusZero THEN x ELSE SmallSine(r.d)
             c == SmallCosine(r.d)
  <2>6. /\ SineOf(d + 8 * n) =
             Flipped(IF odd THEN CosineOf(d) ELSE SineOf(d), high)
        /\ CosineOf(d + 8 * n) =
             Flipped(IF odd THEN SineOf(d) ELSE CosineOf(d), next)
    BY <2>2, <2>5, PairIs
  <2>7. SinCosFrom(x, r) = <<Flipped(IF odd THEN c ELSE s, high),
                             Flipped(IF odd THEN s ELSE c, next)>>
    BY DEF SinCosFrom, Signed, q
  <2>8. SmallSine(r.d) = SineOf(d) /\ c = CosineOf(d)
    BY <2>1, <2>2, PolyIs DEF d
  <2>9. x = MinusZero => ~odd /\ k = 0
    <3>1. x = MinusZero => q % 2 = 0  BY <2>3, <2>3a
    <3>2. x = MinusZero => k = 0  BY OfSpecials DEF k
    <3> QED  BY <2>4, <2>5, <3>1, <3>2
  <2>10. x = MinusZero => Flipped(s, high) = MinusZero
    BY FlippedIs
  <2> HIDE DEF odd, high, next, c, s
  <2>11. CASE x = MinusZero
    <3>1. SinCosFrom(x, r)[1] = MinusZero  BY <2>7, <2>9, <2>10, <2>11
    <3>2. SinCosFrom(x, r)[2] = CosineOf(k)
      BY <2>2, <2>6, <2>7, <2>8, <2>9, <2>11
    <3> QED  BY <2>0, <2>11, <3>1, <3>2 DEF SineRight, CosineRight, k
  <2>12. CASE x # MinusZero
    <3>1. s = SineOf(d)  BY <2>8, <2>12 DEF s
    <3>2. SinCosFrom(x, r)[1] = SineOf(k) /\ SinCosFrom(x, r)[2] = CosineOf(k)
      BY <2>2, <2>6, <2>7, <2>8, <3>1
    <3> QED  BY <2>0, <2>12, <3>2 DEF SineRight, CosineRight, k
  <2> QED  BY <2>11, <2>12
<1>2. CASE x \in Infinites
  <2>1. r.d = Undefined /\ ~Finite(x) /\ x # MinusZero
    BY <1>2, OfInfinites, OfSpecials DEF NoReduction
  <2>2. SmallSine(Undefined) = Undefined /\ SmallCosine(Undefined) = Undefined
    BY OfSpecials DEF SmallSine, SmallCosine, Poly
  <2>3. SinCosFrom(x, r) = <<Undefined, Undefined>>
    BY <2>1, <2>2, FlippedIs DEF SinCosFrom, Signed
  <2> QED  BY <2>1, <2>3 DEF SineRight, CosineRight
<1> QED  BY <1>1, <1>2, TrigArgumentsAre

-----------------------------------------------------------------------------
(* The reductions.  tcall is a call with an error and a rest as assumed. *)

\* A quotient that is itself rounded leaves a little more than half a step.
LEMMA QuotIs ==
  ASSUME tcall \in TrigCalls, NEW k \in Int
  PROVE  /\ tcall.tail \in Int
         /\ Quot(k, 8) \in Int /\ k - 8 * Quot(k, 8) \in -5..5
         /\ Quot(k, 16) \in Int /\ k - 16 * Quot(k, 16) \in -9..9
<1> DEFINE e == tcall.err
<1>1. e \in -1..1 /\ tcall.tail \in Int  BY TrigCallsAssumption
<1>2. Quot(k, 8) = (k + e + 4) \div 8 /\ Quot(k, 16) = (k + e + 8) \div 16
  BY DEF Quot, Nearest2
<1> HIDE DEF e
<1> QED  BY <1>1, <1>2

\* Where the reduction suffices nothing is spoilt.
LEMMA ReductionIs ==
  ASSUME NEW q, NEW k, NEW right \in BOOLEAN, right
  PROVE  Reduction(q, k, right).q = q /\ Reduction(q, k, right).d = Number(k)
BY DEF Reduction

\* What the range is compared with is a number.
LEMMA BelowIs ==
  ASSUME NEW x \in Finites, NEW range
  PROVE  Below(x, range) \in BOOLEAN
BY DEF Below

\* A quotient in one part,
LEMMA SimplyRight ==
  ASSUME tcall \in TrigCalls, NEW x \in Finites, NEW range, Below(x, range)
  PROVE  /\ SinReduction(Simply(x, HalfTurn, range), x.k)
         /\ PairReduction(Simply(x, QuarterTurn, range), x.k)
         /\ x = MinusZero => Simply(x, QuarterTurn, range).q % 4 = 0
<1> DEFINE k == x.k
           m == Quot(k, 16)
           n == Quot(k, 8)
           r == Simply(x, HalfTurn, range)
           p == Simply(x, QuarterTurn, range)
<1>0. k \in Int  BY OfFinites
<1>1. /\ n \in Int /\ k - 8 * n \in -5..5 /\ m \in Int /\ k - 16 * m \in -9..9
  BY <1>0, QuotIs
<1>2. /\ r.q = m /\ r.d = Number(k - 16 * m) /\ p.q = n
      /\ p.d = Number(k - 8 * n)
  BY BelowIs, ReductionIs, TrigLimits DEF Simply
<1>3. x = MinusZero => k = 0  BY OfSpecials
<1> HIDE DEF k, m, n, r, p
<1>4. Bit(m, 1) <=> m % 2 = 1  BY <1>1, BitsAre
<1>5. (n - n) % 4 = 0 /\ (k = 0 => n % 4 = 0)  BY <1>0, <1>1
<1> QED
  BY <1>1, <1>2, <1>3, <1>4, <1>5 DEF SinReduction, PairReduction, k, r, p

\* an odd one for the cosine;
LEMMA CosSimplyRight ==
  ASSUME tcall \in TrigCalls, NEW x \in Finites, NEW range, Below(x, range)
  PROVE  CosReduction(CosSimply(x, range), x.k)
<1> DEFINE k == x.k
           n == Quot(k - 8, 16)
           r == CosSimply(x, range)
<1>0. k \in Int /\ k - 8 \in Int  BY OfFinites
<1>1. n \in Int /\ k - 8 - 16 * n \in -9..9  BY <1>0, QuotIs
<1>2. r.q = 2 * n + 1 /\ r.d = Number(k - 8 * (2 * n + 1))
  BY BelowIs, ReductionIs, TrigLimits DEF CosSimply, OddQuot
<1> HIDE DEF k, n, r
<1>3. k - 8 * (2 * n + 1) = k - 16 * n - 8 /\ k - 16 * n - 8 \in -9..9
      /\ 2 * n + 1 \in Int
  BY <1>0, <1>1
<1>4. Bit(2 * n + 1, 2) <=> n % 2 = 1
  <2>1. (2 * n + 1) % 4 \in {2, 3} <=> n % 2 = 1  BY <1>1
  <2> QED  BY <1>3, <2>1, BitsAre
<1> QED  BY <1>1, <1>2, <1>3, <1>4 DEF CosReduction, k, r

\* The upper part of a quotient, which counts whole turns
LEMMA HighIs ==
  ASSUME NEW k \in Int, NEW n \in {8, 16}
  PROVE  /\ High(k, n) \in Int /\ High(k, n) % 4 = 0
         /\ CosHigh(k) \in Int /\ CosHigh(k) % 4 = 0
         /\ k >= 0 => n * High(k, n) <= k
         /\ k <= 0 => n * High(k, n) >= k
<1>1. \A c \in Int : Split * c \in Int /\ (Split * c) % 4 = 0
  <2> SUFFICES ASSUME NEW c \in Int
               PROVE  Split * c \in Int /\ (Split * c) % 4 = 0
    OBVIOUS
  <2>1. PICK s \in Int : Split = 4 * s
    <3>1. Split \div 4 \in Int /\ Split = 4 * (Split \div 4)  BY TrigLimits
    <3> QED  BY <3>1
  <2>2. s * c \in Int /\ Split * c = 4 * (s * c)  BY <2>1
  <2> DEFINE p == s * c
  <2>3. p \in Int /\ Split * c = 4 * p  BY <2>2
  <2> HIDE DEF p
  <2> QED  BY <2>3
<1> DEFINE b == n * Split
<1>2. b \in Int /\ b > 0 /\ -k \in Int  BY TrigLimits
<1>3. /\ k \div b \in Int /\ b * (k \div b) <= k
      /\ (-k) \div b \in Int /\ b * ((-k) \div b) <= -k
  BY <1>2, Divides
<1>4. /\ High(k, n) = Split * (IF k < 0 THEN -((-k) \div b) ELSE k \div b)
  BY DEF High, Chopped
<1>5. /\ CosHigh(k) \in Int /\ CosHigh(k) % 4 = 0
  <2> DEFINE a == 2 * k - 5
             e == 16 * Split
  <2>1. a \in Int /\ -a \in Int /\ e \in Int /\ e > 0  BY TrigLimits
  <2>2. a \div e \in Int /\ (-a) \div e \in Int  BY <2>1, Divides
  <2>3. CosHigh(k) = Split * (IF a < 0 THEN -((-a) \div e) ELSE a \div e)
    BY TrigLimits DEF CosHigh, Chopped
  <2> HIDE DEF a, e
  <2>4. (IF a < 0 THEN -((-a) \div e) ELSE a \div e) \in Int  BY <2>1, <2>2
  <2> QED  BY <1>1, <2>3, <2>4
<1>6. CASE k < 0
  <2> DEFINE c == (-k) \div b
  <2>1. c \in Int /\ -c \in Int /\ b * c <= -k  BY <1>3
  <2>2. High(k, n) = Split * (-c)  BY <1>4, <1>6
  <2> HIDE DEF c
  <2>3. n * (Split * (-c)) = -(b * c) /\ b * c \in Int
    BY <2>1, TrigLimits
  <2>4. n * High(k, n) >= k  BY <2>1, <2>2, <2>3
  <2> QED  BY <1>1, <1>5, <1>6, <2>1, <2>2, <2>4
<1>7. CASE ~(k < 0)
  <2> DEFINE c == k \div b
  <2>1. c \in Int /\ b * c <= k  BY <1>3
  <2>2. High(k, n) = Split * c  BY <1>4, <1>7
  <2>0. k = 0 => c = 0  BY <1>2, TrigLimits, Divides
  <2> HIDE DEF c
  <2>3. n * (Split * c) = b * c /\ b * c \in Int
    BY <2>1, TrigLimits
  <2>4. n * High(k, n) <= k  BY <2>1, <2>2, <2>3
  <2>5. k <= 0 => n * High(k, n) >= k
    <3>1. k <= 0 => k = 0 /\ c = 0  BY <1>7, <2>0
    <3>2. c = 0 => n * High(k, n) = 0  BY <2>2, TrigLimits
    <3> QED  BY <3>1, <3>2
  <2> QED  BY <1>1, <1>5, <1>7, <2>1, <2>2, <2>4, <2>5
<1> QED  BY <1>6, <1>7

\* a quotient in two parts, of which the lower one is kept,
LEMMA DoublyRight ==
  ASSUME tcall \in TrigCalls, NEW x \in Finites, Below(x, MiddleRange)
  PROVE  /\ SinReduction(Doubly(x, HalfTurn), x.k)
         /\ PairReduction(Doubly(x, QuarterTurn), x.k)
         /\ x = MinusZero => Doubly(x, QuarterTurn).q % 4 = 0
<1> DEFINE k == x.k
           h == High(k, 16)
           m == Quot(k - 16 * h, 16)
           g == High(k, 8)
           n == Quot(k - 8 * g, 8)
           r == Doubly(x, HalfTurn)
           p == Doubly(x, QuarterTurn)
<1>0. k \in Int  BY OfFinites
<1>1. /\ h \in Int /\ h % 4 = 0 /\ g \in Int /\ g % 4 = 0
      /\ k = 0 => 8 * g <= k /\ 8 * g >= k
  <2>1. 8 \in {8, 16} /\ 16 \in {8, 16} /\ (k = 0 => k >= 0 /\ k <= 0)
    OBVIOUS
  <2> QED  BY <1>0, <2>1, HighIs
<1>2. x = MinusZero => k = 0  BY OfSpecials
<1>3. /\ r.q = m /\ r.d = Number(k - 16 * (h + m))
      /\ p.q = n /\ p.d = Number(k - 8 * (g + n))
  BY BelowIs, ReductionIs, TrigLimits DEF Doubly, InParts
<1> HIDE DEF k, h, g
<1>4. k - 16 * h \in Int /\ k - 8 * g \in Int  BY <1>0, <1>1
<1>5. /\ n \in Int /\ k - 8 * g - 8 * n \in -5..5
      /\ m \in Int /\ k - 16 * h - 16 * m \in -9..9
      /\ k - 8 * g = 0 => n = Quot(0, 8)
  BY <1>4, QuotIs
<1>5a. Quot(0, 8) \in Int /\ 0 - 8 * Quot(0, 8) \in -5..5
  BY QuotIs
<1> HIDE DEF m, n, r, p
<1>6. /\ h + m \in Int /\ k - 16 * (h + m) \in -9..9
      /\ (h + m) % 2 = m % 2
      /\ g + n \in Int /\ k - 8 * (g + n) \in -5..5
      /\ (n - (g + n)) % 4 = 0
  BY <1>0, <1>1, <1>5
<1>7. Bit(m, 1) <=> (h + m) % 2 = 1  BY <1>5, <1>6, BitsAre
<1>8. x = MinusZero => p.q % 4 = 0
  <2>1. ASSUME k = 0  PROVE n % 4 = 0
    <3>1. k - 8 * g = 0  BY <1>1, <2>1
    <3>2. n \in -5..5 /\ 8 * n \in -5..5  BY <1>5, <3>1
    <3>3. n = 0  BY <1>5, <3>2
    <3> QED  BY <3>3
  <2> QED  BY <1>2, <1>3, <2>1
<1> QED
  BY <1>3, <1>5, <1>6, <1>7, <1>8 DEF SinReduction, PairReduction, k, r, p

\* an odd one for the cosine,
LEMMA CosDoublyRight ==
  ASSUME tcall \in TrigCalls, NEW x \in Finites, Below(x, MiddleRange)
  PROVE  CosReduction(CosDoubly(x), x.k)
<1> DEFINE k == x.k
           h == CosHigh(k)
           n == Quot(k - 8 * h - 8, 16)
           r == CosDoubly(x)
<1>0. k \in Int  BY OfFinites
<1>1. h \in Int /\ h % 4 = 0
  <2>1. 8 \in {8, 16}  OBVIOUS
  <2> QED  BY <1>0, <2>1, HighIs
<1>2. r.q = 2 * n + 1 /\ r.d = Number(k - 8 * (h + (2 * n + 1)))
  BY BelowIs, ReductionIs, TrigLimits DEF CosDoubly, InParts, OddQuot
<1> HIDE DEF k, h
<1>3. k - 8 * h - 8 \in Int  BY <1>0, <1>1
<1>4. n \in Int /\ k - 8 * h - 8 - 16 * n \in -9..9  BY <1>3, QuotIs
<1> HIDE DEF n, r
<1>5. PICK j \in Int : h = 4 * j
  <2>1. h \div 4 \in Int /\ h = 4 * (h \div 4)  BY <1>1
  <2> QED  BY <2>1
<1> DEFINE m == n + 2 * j
<1>6. /\ m \in Int /\ k - 16 * m - 8 \in -9..9 /\ 2 * n + 1 \in Int
      /\ k - 8 * (h + (2 * n + 1)) = k - 16 * m - 8 /\ m % 2 = n % 2
  BY <1>0, <1>1, <1>4, <1>5
<1> HIDE DEF m
<1>7. Bit(2 * n + 1, 2) <=> m % 2 = 1
  <2>1. (2 * n + 1) % 4 \in {2, 3} <=> n % 2 = 1  BY <1>4
  <2> QED  BY <1>6, <2>1, BitsAre
<1> QED  BY <1>2, <1>6, <1>7 DEF CosReduction, k, r

\* and the one of xtan_u1, which is chopped
LEMMA DoublyChoppedRight ==
  ASSUME tcall \in TrigCalls, NEW x \in Finites, Below(x, MiddleRange)
  PROVE  PairReduction(DoublyChopped(x), x.k)
<1> DEFINE k == x.k
           g == High(k, 8)
           a == k - 8 * g + (IF k < 0 THEN -1 ELSE 1) * 4
           n == IF a < 0 THEN -((-a) \div 8) ELSE a \div 8
           p == DoublyChopped(x)
<1>0. k \in Int  BY OfFinites
<1>1. /\ g \in Int /\ g % 4 = 0
      /\ k >= 0 => 8 * g <= k
      /\ k <= 0 => 8 * g >= k
  <2>1. 8 \in {8, 16}  OBVIOUS
  <2> QED  BY <1>0, <2>1, HighIs
<1>2. p.q = n /\ p.d = Number(k - 8 * (g + n))
  <2>1. QuarterTurn \div 2 = 4 /\ QuarterTurn = 8  BY TrigLimits
  <2>2. Chopped(a, 8) = n  BY DEF Chopped
  <2> HIDE DEF n
  <2>3. p = InParts(x, 8, g, n)  BY <2>1, <2>2 DEF DoublyChopped
  <2> HIDE DEF g, p
  <2> QED  BY <2>3, BelowIs, ReductionIs DEF InParts
<1> HIDE DEF k, g, p
<1>3. CASE k < 0
  <2>1. a = k - 8 * g - 4 /\ a \in Int /\ a < 0 /\ n = -((-a) \div 8)
    BY <1>0, <1>1, <1>3
  <2> HIDE DEF a, n
  <2>2. n \in Int /\ k - 8 * (g + n) \in -5..5  BY <1>0, <1>1, <2>1
  <2>3. g + n \in Int /\ (n - (g + n)) % 4 = 0  BY <1>1, <2>2
  <2> QED  BY <1>2, <2>2, <2>3 DEF PairReduction, k, p
<1>4. CASE ~(k < 0)
  <2>1. a = k - 8 * g + 4 /\ a \in Int /\ ~(a < 0) /\ n = a \div 8
    BY <1>0, <1>1, <1>4
  <2> HIDE DEF a, n
  <2>2. n \in Int /\ k - 8 * (g + n) \in -5..5  BY <1>0, <1>1, <2>1
  <2>3. g + n \in Int /\ (n - (g + n)) % 4 = 0  BY <1>1, <2>2
  <2> QED  BY <1>2, <2>2, <2>3 DEF PairReduction, k, p
<1> QED  BY <1>3, <1>4

\* q counts the quarter turns, to a whole turn, between k and rest.
Counts(q, rest, k) ==
  \E n \in Int : /\ q \in Int /\ (q - n) % 4 = 0
                 /\ rest = k - 8 * n /\ rest \in -4..3

\* One step of rempi counts what it takes off.
LEMMA RempiSubIs ==
  ASSUME NEW k \in Int
  PROVE  Counts(RempiSub(k).q, RempiSub(k).rest, k)
<1> DEFINE n == (k + 4) \div 8
           m == (k + 16) \div 32
<1>1. n \in Int /\ m \in Int /\ k - 8 * n \in -4..3  OBVIOUS
<1>2. RempiSub(k).q = n - 4 * m /\ RempiSub(k).rest = k - 8 * n
  BY DEF RempiSub, Nearest2, QuarterTurn, Turn
<1> HIDE DEF n, m
<1>3. n - 4 * m \in Int /\ (n - 4 * m - n) % 4 = 0  BY <1>1
<1> QED  BY <1>1, <1>2, <1>3 DEF Counts

\* A second step counts on, from the rest of the first and what it left out.
LEMMA CountsTwice ==
  ASSUME NEW k \in Int, NEW t \in Int, NEW q, NEW rest, NEW p, NEW last,
         Counts(q, rest, k - t), Counts(p, last, rest + t)
  PROVE  Counts(q + p, last, k) /\ (k \in -3..3 => (q + p) % 4 = 0)
<1>1. PICK n \in Int : /\ q \in Int /\ (q - n) % 4 = 0
                       /\ rest = k - t - 8 * n /\ rest \in -4..3
  BY DEF Counts
<1>2. PICK m \in Int : /\ p \in Int /\ (p - m) % 4 = 0
                       /\ last = rest + t - 8 * m /\ last \in -4..3
  BY DEF Counts
<1> DEFINE z == n + m
           s == q + p
<1>3. z \in Int /\ s \in Int /\ (s - z) % 4 = 0 /\ last = k - 8 * z
  BY <1>1, <1>2
<1> HIDE DEF z, s
<1>4. k \in -3..3 => s % 4 = 0
  <2>1. k \in -3..3 => z = 0  BY <1>2, <1>3
  <2>2. z = 0 => s % 4 = 0  BY <1>3
  <2> QED  BY <2>1, <2>2
<1>5. Counts(s, last, k)  BY <1>2, <1>3 DEF Counts
<1> QED  BY <1>4, <1>5 DEF s

\* What has been counted is a right reduction;
LEMMA CountsPair ==
  ASSUME NEW k \in Int, NEW q, NEW rest, Counts(q, rest, k), NEW r,
         r.q = q, r.d = Number(rest)
  PROVE  PairReduction(r, k)
<1>1. PICK n \in Int : /\ q \in Int /\ (q - n) % 4 = 0
                       /\ rest = k - 8 * n /\ rest \in -4..3
  BY DEF Counts
<1>2. k - 8 * n \in -5..5 /\ r.d = Number(k - 8 * n)  BY <1>1
<1>3. r.q \in Int /\ (r.q - n) % 4 = 0  BY <1>1
<1> QED  BY <1>2, <1>3 DEF PairReduction

\* of less than half a quarter turn all of it remains.
LEMMA CountsRest ==
  ASSUME NEW k \in -3..3, NEW q, NEW rest, Counts(q, rest, k)
  PROVE  rest = k
BY DEF Counts

\* rempi and rempif
LEMMA RempiRight ==
  ASSUME tcall \in TrigCalls, NEW x \in TrigArguments
  PROVE  /\ x \in Finites => PairReduction(Rempi(x), x.k)
         /\ x \notin Finites => NoReduction(Rempi(x))
         /\ x = MinusZero => Rempi(x).q % 4 = 0
<1>1. CASE x \in Finites
  <2> DEFINE k == x.k
             t == tcall.tail
             u == RempiSub(k - t)
             v == RempiSub(u.rest + t)
             r == Rempi(x)
  <2>1. k \in Int /\ t \in Int /\ Finite(x) /\ k - t \in Int
    BY <1>1, OfFinites, QuotIs
  <2>2. Counts(u.q, u.rest, k - t)  BY <2>1, RempiSubIs
  <2>3. u.rest + t \in Int
    <3>1. u.rest \in Int  BY <2>2 DEF Counts
    <3> QED  BY <2>1, <3>1
  <2>4. Counts(v.q, v.rest, u.rest + t)  BY <2>3, RempiSubIs
  <2>5. r = Rempi2(x, u, v)  BY <2>1 DEF Rempi, Rempi1
  <2> HIDE DEF k, t, u, v, r
  <2>6. Counts(u.q + v.q, v.rest, k) /\ (k \in -3..3 => (u.q + v.q) % 4 = 0)
    BY <2>1, <2>2, <2>4, CountsTwice
  <2> DEFINE yes == TRUE
  <2>7. yes \in BOOLEAN /\ yes  OBVIOUS
  <2> HIDE DEF yes
  <2>8. r = Reduction(u.q + v.q, IF Abs(x.k) <= 3 THEN x.k ELSE v.rest, yes)
    BY <2>5 DEF Rempi2, yes
  <2>9. /\ r.q = u.q + v.q
        /\ r.d = Number(IF Abs(x.k) <= 3 THEN x.k ELSE v.rest)
    BY <2>7, <2>8, ReductionIs
  <2>10. Abs(x.k) <= 3 => k \in -3..3 /\ x.k = k  BY <2>1 DEF Abs, k
  <2>11. k \in -3..3 => v.rest = k  BY <2>6, CountsRest
  <2>12. r.d = Number(v.rest)  BY <2>9, <2>10, <2>11
  <2>13. PairReduction(r, k)  BY <2>1, <2>6, <2>9, <2>12, CountsPair
  <2>14. x = MinusZero => r.q % 4 = 0
    <3>1. x = MinusZero => k \in -3..3  BY OfSpecials DEF k
    <3> QED  BY <2>6, <2>9, <3>1
  <2> QED  BY <1>1, <2>13, <2>14 DEF r, k
<1>2. CASE x \in Infinites
  <2>1. ~Finite(x) /\ x \notin Finites /\ x # MinusZero
    BY <1>2, OfInfinites, OfSpecials DEF Finites
  <2>2. NoReduction(Rempi(x))  BY <2>1 DEF Rempi, NoReduction
  <2> QED  BY <2>1, <2>2
<1> QED  BY <1>1, <1>2, TrigArgumentsAre

\* rempio2q, beyond the range of the reduction before it
LEMMA QuadRempiRight ==
  ASSUME tcall \in TrigCalls, NEW x \in TrigArguments,
         ~Below(x, MiddleRange)
  PROVE  /\ x \in Finites => PairReduction(rempio2q(x), x.k)
         /\ x \notin Finites => NoReduction(rempio2q(x))
<1>1. CASE x \in Finites
  <2> DEFINE k == x.k
             t == tcall.tail
             zero == [q |-> 0, rest |-> 0]
             u == AddPart(zero, k - t)
             v == AddPart(u, t)
             r == rempio2q(x)
  <2>1. k \in Int /\ t \in Int /\ Finite(x) /\ k - t \in Int
        /\ 0 + (k - t) = k - t
    BY <1>1, OfFinites, QuotIs
  <2>2. Counts(u.q, u.rest, k - t)
    <3> DEFINE w == k - t
    <3>1. w \in Int /\ 0 + w = w  BY <2>1
    <3> HIDE DEF w
    <3>2. Counts(RempiSub(w).q, RempiSub(w).rest, w)  BY <3>1, RempiSubIs
    <3>3. RempiSub(w).q \in Int  BY <3>2 DEF Counts
    <3>4. u.q = 0 + RempiSub(0 + w).q /\ u.rest = RempiSub(0 + w).rest
      BY DEF AddPart, w
    <3>5. u.q = RempiSub(w).q /\ u.rest = RempiSub(w).rest
      BY <3>1, <3>3, <3>4
    <3> HIDE DEF u
    <3> QED  BY <3>2, <3>5 DEF w
  <2>3. u.rest + t \in Int
    <3>1. u.rest \in Int  BY <2>2 DEF Counts
    <3> QED  BY <2>1, <3>1
  <2> DEFINE p == RempiSub(u.rest + t).q
             last == RempiSub(u.rest + t).rest
  <2>4. Counts(p, last, u.rest + t)  BY <2>3, RempiSubIs
  <2>5. v.q = u.q + p /\ v.rest = last  BY DEF AddPart
  <2> DEFINE yes == TRUE
  <2>6. yes \in BOOLEAN /\ yes  OBVIOUS
  <2>7. r = Reduction(v.q, IF Abs(x.k) <= 5 THEN x.k ELSE v.rest, yes)
    BY <2>1 DEF rempio2q
  <2> HIDE DEF k, t, u, v, r, p, last, yes
  <2>8. Counts(u.q + p, last, k)  BY <2>1, <2>2, <2>4, CountsTwice
  <2>9. ~(Abs(x.k) <= 5)
    <3>1. ~(Abs(x.k) < MiddleRange)  BY <2>1 DEF Below
    <3>2. Abs(x.k) \in Int  BY <1>1, OfFinites
    <3> DEFINE a == Abs(x.k)
    <3>3. a \in Int /\ ~(a < MiddleRange)  BY <3>1, <3>2
    <3> HIDE DEF a
    <3>4. ~(a <= 5)  BY <3>3, TrigLimits
    <3> QED  BY <3>4 DEF a
  <2>10. r.q = u.q + p /\ r.d = Number(last)
    BY <2>5, <2>6, <2>7, <2>9, ReductionIs
  <2>11. PairReduction(r, k)  BY <2>1, <2>8, <2>10, CountsPair
  <2> QED  BY <1>1, <2>11 DEF r, k
<1>2. CASE x \in Infinites
  <2>1. ~Finite(x) /\ x \notin Finites
    BY <1>2, OfInfinites
  <2>2. NoReduction(rempio2q(x))  BY <2>1 DEF rempio2q, NoReduction
  <2> QED  BY <2>1, <2>2
<1> QED  BY <1>1, <1>2, TrigArgumentsAre

\* From multiples of pi / 2 to those of pi, and to odd ones of pi / 2
LEMMA QuadrantsAre ==
  ASSUME NEW k \in Int, NEW r, PairReduction(r, k)
  PROVE  SinReduction(SinQuadrant(r), k) /\ CosReduction(CosQuadrant(r), k)
<1>1. PICK n \in Int : /\ k - 8 * n \in -5..5 /\ r.d = Number(k - 8 * n)
                       /\ r.q \in Int /\ (r.q - n) % 4 = 0
  BY DEF PairReduction
<1> DEFINE d == k - 8 * n
           q == r.q
           w == q % 4
           up == d > 0
           s == SinQuadrant(r)
           c == CosQuadrant(r)
<1>2. d \in -5..5 /\ d \in Int /\ k = d + 8 * n /\ up \in BOOLEAN
      /\ (up <=> d > 0)
  BY <1>1
<1>3. q \in Int /\ (q - n) % 4 = 0 /\ r.d = Number(d)  BY <1>1
<1> HIDE DEF d, q, up
<1>4. r.d.k = d /\ Finite(r.d) /\ (r.d.k > 0 <=> up)
  BY <1>2, <1>3, OfNumbers DEF up
<1>5. w \in 0..3 /\ n % 4 = w /\ (Bit(q, 1) <=> w \in {1, 3})
  <2>1. w \in 0..3 /\ n % 4 = w /\ (q % 2 = 1 <=> w \in {1, 3})
    BY <1>3
  <2> QED  BY <1>3, <2>1, BitsAre
<1>6. \A e \in Int : Moved(r.d, e) = Number(d + e)
  BY <1>3, <1>4 DEF Moved
<1>7. TowardZero(r.d) = IF up THEN -8 ELSE 8
  BY <1>4, TrigLimits DEF TowardZero
<1>8. Moved(r.d, TowardZero(r.d)) = Number(IF up THEN d - 8 ELSE d + 8)
  <2>1. CASE up
    <3>1. -8 \in Int /\ d + -8 = d - 8  BY <1>2
    <3> QED  BY <1>6, <1>7, <2>1, <3>1
  <2>2. CASE ~up
    <3>1. 8 \in Int  OBVIOUS
    <3> QED  BY <1>6, <1>7, <2>2, <3>1
  <2> QED  BY <2>1, <2>2
<1>9. /\ s.q = (2 * w + (IF up THEN 2 ELSE 1)) \div 4
      /\ s.d = Number(IF w \in {1, 3} THEN (IF up THEN d - 8 ELSE d + 8)
                      ELSE d)
  BY <1>3, <1>4, <1>5, <1>8 DEF SinQuadrant, q
<1>10. /\ c.q = (2 * w + (IF up THEN 8 ELSE 7)) \div 2
       /\ c.d = Number(IF w \in {1, 3} THEN d
                       ELSE (IF up THEN d - 8 ELSE d + 8))
  BY <1>3, <1>4, <1>5, <1>8 DEF CosQuadrant, q
<1> HIDE DEF s, c, w
<1>11. PICK j \in Int : n = 4 * j + w
  <2>1. n \div 4 \in Int /\ n = 4 * (n \div 4) + w  BY <1>5
  <2> QED  BY <2>1
<1>12. SinReduction(s, k)
  <2> DEFINE sq == (2 * w + (IF up THEN 2 ELSE 1)) \div 4
             sd == IF w \in {1, 3} THEN (IF up THEN d - 8 ELSE d + 8) ELSE d
             m == 2 * j + sq
  <2>1. sq \in Int /\ m \in Int /\ k - 16 * m = sd /\ sd \in -9..9
        /\ m % 2 = sq % 2
    <3>1. CASE w = 0  BY <1>2, <1>11, <3>1
    <3>2. CASE w = 1  BY <1>2, <1>11, <3>2
    <3>3. CASE w = 2  BY <1>2, <1>11, <3>3
    <3>4. CASE w = 3  BY <1>2, <1>11, <3>4
    <3> QED  BY <1>5, <3>1, <3>2, <3>3, <3>4
  <2>2. s.q = sq /\ s.d = Number(sd)  BY <1>9
  <2> HIDE DEF sq, sd, m
  <2>3. Bit(sq, 1) <=> m % 2 = 1  BY <2>1, BitsAre
  <2> QED  BY <2>1, <2>2, <2>3 DEF SinReduction
<1>13. CosReduction(c, k)
  <2> DEFINE cq == (2 * w + (IF up THEN 8 ELSE 7)) \div 2
             cd == IF w \in {1, 3} THEN d ELSE (IF up THEN d - 8 ELSE d + 8)
             m == IF w = 0 THEN (IF up THEN 2 * j ELSE 2 * j - 1)
                  ELSE IF w = 1 THEN 2 * j
                  ELSE IF w = 2 THEN (IF up THEN 2 * j + 1 ELSE 2 * j)
                  ELSE 2 * j + 1
  <2>1. cq \in Int /\ m \in Int /\ k - 16 * m - 8 = cd /\ cd \in -9..9
        /\ (cq % 4 \in {2, 3} <=> m % 2 = 1)
    <3>1. CASE w = 0  BY <1>2, <1>11, <3>1
    <3>2. CASE w = 1  BY <1>2, <1>11, <3>2
    <3>3. CASE w = 2  BY <1>2, <1>11, <3>3
    <3>4. CASE w = 3  BY <1>2, <1>11, <3>4
    <3> QED  BY <1>5, <3>1, <3>2, <3>3, <3>4
  <2>2. c.q = cq /\ c.d = Number(cd)  BY <1>10
  <2> HIDE DEF cq, cd, m
  <2>3. Bit(cq, 2) <=> m % 2 = 1  BY <2>1, BitsAre
  <2> QED  BY <2>1, <2>2, <2>3 DEF CosReduction
<1> QED  BY <1>12, <1>13 DEF s, c

-----------------------------------------------------------------------------
(* Whichever reduction a lane gets *)

\* Reductions of arguments, finite or not
SinDone(r, x) ==
  /\ x \in Finites => SinReduction(r, x.k)
  /\ x \notin Finites => r.d = Undefined

CosDone(r, x) ==
  /\ x \in Finites => CosReduction(r, x.k)
  /\ x \notin Finites => r.d = Undefined

PairDone(r, x) ==
  /\ x \in Finites => PairReduction(r, x.k)
  /\ x \notin Finites => NoReduction(r)

\* Only a number is below a range.
LEMMA BelowFinite ==
  ASSUME NEW x \in TrigArguments, NEW range, Below(x, range)
  PROVE  x \in Finites
BY TrigArgumentsAre, OfInfinites DEF Below

\* Where a lane is below a range it is below any wider one.
LEMMA BelowWider ==
  ASSUME NEW x \in TrigArguments, NEW low \in Int, NEW high \in Int,
         low <= high, Below(x, low)
  PROVE  Below(x, high)
<1>1. x \in Finites  BY BelowFinite
<1>2. Abs(x.k) \in Int /\ Abs(x.k) < low /\ Finite(x)
  BY <1>1, OfFinites DEF Below
<1> DEFINE a == Abs(x.k)
<1>3. a \in Int /\ a < low  BY <1>2
<1> HIDE DEF a
<1>4. a < high  BY <1>3
<1> QED  BY <1>2, <1>4 DEF Below, a

\* The first reduction is right where a lane is in its range,
LEMMA FirstDone ==
  ASSUME tcall \in TrigCalls, NEW x \in TrigArguments, NEW range,
         Below(x, range)
  PROVE  /\ SinDone(Simply(x, HalfTurn, range), x)
         /\ CosDone(CosSimply(x, range), x)
         /\ PairDone(Simply(x, QuarterTurn, range), x)
         /\ x = MinusZero => Simply(x, QuarterTurn, range).q % 4 = 0
BY BelowFinite, SimplyRight, CosSimplyRight DEF SinDone, CosDone, PairDone

\* so is the second,
LEMMA SecondDone ==
  ASSUME tcall \in TrigCalls, NEW x \in TrigArguments,
         Below(x, MiddleRange)
  PROVE  /\ SinDone(SinMiddle(x), x)
         /\ CosDone(CosDoubly(x), x)
         /\ PairDone(PairMiddle(x), x)
         /\ x = MinusZero => PairMiddle(x).q % 4 = 0
         /\ PairDone(DoublyChopped(x), x)
BY BelowFinite, DoublyRight, CosDoublyRight, DoublyChoppedRight
   DEF SinDone, CosDone, PairDone, SinMiddle, PairMiddle

\* Quadrants of what is no number
LEMMA NoQuadrants ==
  ASSUME NEW r, NoReduction(r)
  PROVE  SinQuadrant(r).d = Undefined /\ CosQuadrant(r).d = Undefined
<1>1. r.d = Undefined /\ r.q = 0 /\ ~Bit(0, 1)  BY DEF NoReduction, Bit
<1>2. Moved(r.d, TowardZero(r.d)) = Undefined
  BY <1>1, OfSpecials DEF Moved
<1> QED  BY <1>1, <1>2 DEF SinQuadrant, CosQuadrant

\* and the last one everywhere.
LEMMA LastDone ==
  ASSUME tcall \in TrigCalls, NEW x \in TrigArguments
  PROVE  /\ SinDone(SinFar(x), x) /\ CosDone(CosFar(x), x)
         /\ PairDone(Rempi(x), x)
         /\ x = MinusZero => Rempi(x).q % 4 = 0
<1>1. PairDone(Rempi(x), x) /\ (x = MinusZero => Rempi(x).q % 4 = 0)
  BY RempiRight DEF PairDone
<1>2. CASE x \in Finites
  <2>1. x.k \in Int /\ PairReduction(Rempi(x), x.k)
    BY <1>1, <1>2, OfFinites DEF PairDone
  <2> QED  BY <1>1, <1>2, <2>1, QuadrantsAre
              DEF SinDone, CosDone, SinFar, CosFar
<1>3. CASE x \notin Finites
  <2>1. NoReduction(Rempi(x))  BY <1>1, <1>3 DEF PairDone
  <2> QED  BY <1>1, <1>3, <2>1, NoQuadrants
              DEF SinDone, CosDone, SinFar, CosFar
<1> QED  BY <1>2, <1>3

\* In quad precision the last one serves where the first does not.
LEMMA QuadLastDone ==
  ASSUME tcall \in TrigCalls, NEW x \in TrigArguments,
         ~Below(x, MiddleRange)
  PROVE  /\ SinDone(SinQuadFar(x), x) /\ CosDone(CosQuadFar(x), x)
         /\ PairDone(rempio2q(x), x)
<1>1. PairDone(rempio2q(x), x)  BY QuadRempiRight DEF PairDone
<1>2. CASE x \in Finites
  <2>1. x.k \in Int /\ PairReduction(rempio2q(x), x.k)
    BY <1>1, <1>2, OfFinites DEF PairDone
  <2> QED  BY <1>1, <1>2, <2>1, QuadrantsAre
              DEF SinDone, CosDone, SinQuadFar, CosQuadFar
<1>3. CASE x \notin Finites
  <2>1. NoReduction(rempio2q(x))  BY <1>1, <1>3 DEF PairDone
  <2> QED  BY <1>1, <1>3, <2>1, NoQuadrants
              DEF SinDone, CosDone, SinQuadFar, CosQuadFar
<1> QED  BY <1>2, <1>3

\* What is made of a right reduction
LEMMA SinDoneRight ==
  ASSUME NEW x \in TrigArguments, NEW r, SinDone(r, x)
  PROVE  /\ x # MinusZero => SineRight(x, SinFrom(r))
         /\ x = MinusZero => SinFrom(r) = Number(0) /\ SineRight(x, x)
<1>1. CASE x \in Finites
  <2>1. x.k \in Int /\ Finite(x) /\ SinFrom(r) = SineOf(x.k)
    BY <1>1, OfFinites, SinFromRight DEF SinDone
  <2>2. SineOf(0) = Number(0)
    BY DEF SineOf, Folded, QuarterTurn, HalfTurn, Turn
  <2>3. x = MinusZero => x.k = 0  BY OfSpecials
  <2> QED  BY <2>1, <2>2, <2>3 DEF SineRight
<1>2. CASE x \notin Finites
  <2>1. x \in Infinites  BY <1>2, TrigArgumentsAre
  <2>2. ~Finite(x) /\ x # MinusZero  BY <2>1, OfInfinites, OfSpecials
  <2>3. r.d = Undefined  BY <1>2 DEF SinDone
  <2>4. Sine(Undefined) = Undefined  BY OfSpecials DEF Sine, Poly
  <2>5. SinFrom(r) = Undefined  BY <2>3, <2>4, FlippedIs DEF SinFrom
  <2> QED  BY <2>2, <2>5 DEF SineRight
<1> QED  BY <1>1, <1>2

\* and cosines,
LEMMA CosDoneRight ==
  ASSUME NEW x \in TrigArguments, NEW r, CosDone(r, x)
  PROVE  CosineRight(x, CosFrom(r))
<1>1. CASE x \in Finites
  BY <1>1, OfFinites, CosFromRight DEF CosDone, CosineRight
<1>2. CASE x \notin Finites
  <2>1. ~Finite(x)  BY <1>2, TrigArgumentsAre, OfInfinites
  <2>2. r.d = Undefined  BY <1>2 DEF CosDone
  <2>3. Sine(Undefined) = Undefined  BY OfSpecials DEF Sine, Poly
  <2>4. CosFrom(r) = Undefined  BY <2>2, <2>3, FlippedIs DEF CosFrom
  <2> QED  BY <2>1, <2>4 DEF CosineRight
<1> QED  BY <1>1, <1>2

\* tangents,
LEMMA TanDoneRight ==
  ASSUME NEW x \in TrigArguments, NEW r, PairDone(r, x)
  PROVE  /\ TangentRight(x, IF x = MinusZero THEN x ELSE TanFrom(r))
         /\ TangentRight(x, IF x = MinusZero THEN x ELSE TanfFrom(r))
<1>1. CASE x \in Finites
  BY <1>1, OfFinites, TanFromRight DEF PairDone, TangentRight
<1>2. CASE x \notin Finites
  <2>1. x \in Infinites  BY <1>2, TrigArgumentsAre
  <2>2. ~Finite(x) /\ x # MinusZero  BY <2>1, OfInfinites, OfSpecials
  <2>3. r.d = Undefined /\ r.q = 0  BY <1>2 DEF PairDone, NoReduction
  <2>4. ~Bit(0, 1)  BY DEF Bit
  <2>5. Poly(Undefined, QuarterTurn \div 2, TangentOf) = Undefined
    BY OfSpecials DEF Poly
  <2>6. TanFrom(r) = Undefined /\ TanfFrom(r) = Undefined
    BY <2>3, <2>4, <2>5 DEF TanFrom, TanfFrom
  <2> QED  BY <2>2, <2>6 DEF TangentRight
<1> QED  BY <1>1, <1>2

\* pairs
LEMMA PairDoneRight ==
  ASSUME NEW x \in TrigArguments, NEW r, PairDone(r, x),
         x = MinusZero => r.q % 4 = 0
  PROVE  /\ SineRight(x, SinCosFrom(x, r)[1])
         /\ CosineRight(x, SinCosFrom(x, r)[2])
BY SinCosFromRight DEF PairDone

-----------------------------------------------------------------------------
(* Whatever the other lanes make the vector go through, the reduction of a *)
(* lane is one whose range it is in.                                       *)

\* Sines in double precision
LEMMA SinReducedDone ==
  ASSUME tcall \in TrigCalls, NEW v, NEW l \in DOMAIN v,
         v[l] \in TrigArguments
  PROVE  SinDone(SinReduced(v)[l], v[l])
<1> DEFINE x == v[l]
           r == SinReduced(v)[l]
<1>1. \/ Below(x, NearRange) /\ r = SinNear(x)
      \/ Below(x, MiddleRange) /\ r = SinMiddle(x)
      \/ r = SinFar(x)
  BY DEF SinReduced, Staged
<1>2. CASE Below(x, NearRange) /\ r = SinNear(x)
  BY <1>2, FirstDone DEF SinNear
<1>3. CASE Below(x, MiddleRange) /\ r = SinMiddle(x)
  BY <1>3, SecondDone
<1>4. CASE r = SinFar(x)  BY <1>4, LastDone
<1> QED  BY <1>1, <1>2, <1>3, <1>4

\* Cosines
LEMMA CosReducedDone ==
  ASSUME tcall \in TrigCalls, NEW v, NEW l \in DOMAIN v,
         v[l] \in TrigArguments
  PROVE  CosDone(CosReduced(v)[l], v[l])
<1> DEFINE x == v[l]
           r == CosReduced(v)[l]
<1>1. \/ Below(x, NearRange) /\ r = CosNear(x)
      \/ Below(x, MiddleRange) /\ r = CosDoubly(x)
      \/ r = CosFar(x)
  BY DEF CosReduced, Staged
<1>2. CASE Below(x, NearRange) /\ r = CosNear(x)
  BY <1>2, FirstDone DEF CosNear
<1>3. CASE Below(x, MiddleRange) /\ r = CosDoubly(x)
  BY <1>3, SecondDone
<1>4. CASE r = CosFar(x)  BY <1>4, LastDone
<1> QED  BY <1>1, <1>2, <1>3, <1>4

\* Pairs, and tangents with a range of their own
LEMMA PairReducedDone ==
  ASSUME tcall \in TrigCalls, NEW v, NEW l \in DOMAIN v,
         v[l] \in TrigArguments, NEW range \in {MiddleRange, TanRange}
  PROVE  /\ PairDone(PairReduced(v, range)[l], v[l])
         /\ v[l] = MinusZero => PairReduced(v, range)[l].q % 4 = 0
<1> DEFINE x == v[l]
           r == PairReduced(v, range)[l]
<1>1. \/ Below(x, NearRange) /\ r = PairNear(x)
      \/ Below(x, range) /\ r = PairMiddle(x)
      \/ r = Rempi(x)
  BY DEF PairReduced, Staged
<1>2. CASE Below(x, NearRange) /\ r = PairNear(x)
  BY <1>2, FirstDone DEF PairNear
<1>3. CASE Below(x, range) /\ r = PairMiddle(x)
  <2>1. Below(x, MiddleRange)
    <3>1. range \in Int /\ MiddleRange \in Int /\ range <= MiddleRange
      BY TrigLimits
    <3> QED  BY <1>3, <3>1, BelowWider
  <2> QED  BY <1>3, <2>1, SecondDone
<1>4. CASE r = Rempi(x)  BY <1>4, LastDone
<1> QED  BY <1>1, <1>2, <1>3, <1>4

\* xtan_u1's
LEMMA ChoppedDone ==
  ASSUME tcall \in TrigCalls, NEW v, NEW l \in DOMAIN v,
         v[l] \in TrigArguments
  PROVE  PairDone(Staged(v, PairNear, NearRange, DoublyChopped, MiddleRange,
                         Rempi)[l], v[l])
<1> DEFINE x == v[l]
           r == Staged(v, PairNear, NearRange, DoublyChopped, MiddleRange,
                       Rempi)[l]
<1>1. \/ Below(x, NearRange) /\ r = PairNear(x)
      \/ Below(x, MiddleRange) /\ r = DoublyChopped(x)
      \/ r = Rempi(x)
  BY DEF Staged
<1>2. CASE Below(x, NearRange) /\ r = PairNear(x)
  BY <1>2, FirstDone DEF PairNear
<1>3. CASE Below(x, MiddleRange) /\ r = DoublyChopped(x)
  BY <1>3, SecondDone
<1>4. CASE r = Rempi(x)  BY <1>4, LastDone
<1> QED  BY <1>1, <1>2, <1>3, <1>4

\* In single precision
LEMMA SinStagedDone ==
  ASSUME tcall \in TrigCalls, NEW v, NEW l \in DOMAIN v,
         v[l] \in TrigArguments
  PROVE  /\ SinDone(Staged(v, SinNear, NearRange, SinMiddlef, MiddleRange,
                           SinFar)[l], v[l])
         /\ SinDone(Staged(v, SinNear, NearRange, SinFar, NearRange,
                           SinFar)[l], v[l])
<1> DEFINE x == v[l]
           r == Staged(v, SinNear, NearRange, SinMiddlef, MiddleRange,
                       SinFar)[l]
           u == Staged(v, SinNear, NearRange, SinFar, NearRange, SinFar)[l]
<1>1. \/ Below(x, NearRange) /\ r = SinNear(x)
      \/ Below(x, MiddleRange) /\ r = SinMiddlef(x)
      \/ r = SinFar(x)
  BY DEF Staged
<1>2. \/ Below(x, NearRange) /\ u = SinNear(x)
      \/ u = SinFar(x)
  BY DEF Staged
<1>3. Below(x, NearRange) => SinDone(SinNear(x), x)
  BY FirstDone DEF SinNear
<1>4. Below(x, MiddleRange) => SinDone(SinMiddlef(x), x)
  BY FirstDone DEF SinMiddlef
<1>5. SinDone(SinFar(x), x)  BY LastDone
<1> QED  BY <1>1, <1>2, <1>3, <1>4, <1>5

\* Cosines
LEMMA CosStagedDone ==
  ASSUME tcall \in TrigCalls, NEW v, NEW l \in DOMAIN v,
         v[l] \in TrigArguments
  PROVE  /\ CosDone(Staged(v, CosNear, NearRange, CosMiddlef, MiddleRange,
                           CosFar)[l], v[l])
         /\ CosDone(Staged(v, CosNear, NearRange, CosFar, NearRange,
                           CosFar)[l], v[l])
<1> DEFINE x == v[l]
           r == Staged(v, CosNear, NearRange, CosMiddlef, MiddleRange,
                       CosFar)[l]
           u == Staged(v, CosNear, NearRange, CosFar, NearRange, CosFar)[l]
<1>1. \/ Below(x, NearRange) /\ r = CosNear(x)
      \/ Below(x, MiddleRange) /\ r = CosMiddlef(x)
      \/ r = CosFar(x)
  BY DEF Staged
<1>2. \/ Below(x, NearRange) /\ u = CosNear(x)
      \/ u = CosFar(x)
  BY DEF Staged
<1>3. Below(x, NearRange) => CosDone(CosNear(x), x)
  BY FirstDone DEF CosNear
<1>4. Below(x, MiddleRange) => CosDone(CosMiddlef(x), x)
  BY FirstDone DEF CosMiddlef
<1>5. CosDone(CosFar(x), x)  BY LastDone
<1> QED  BY <1>1, <1>2, <1>3, <1>4, <1>5

\* Pairs and tangents
LEMMA PairStagedDone ==
  ASSUME tcall \in TrigCalls, NEW v, NEW l \in DOMAIN v,
         v[l] \in TrigArguments
  PROVE  LET r == Staged(v, PairNear, NearRange, PairMiddlef, MiddleRange,
                         Rempi)[l]
             u == Staged(v, PairNear, NearRange, Rempi, NearRange, Rempi)[l]
             h == Staged(v, PairNear, NearRange \div 2, PairMiddlef,
                         MiddleRange, Rempi)[l]
         IN  /\ PairDone(r, v[l]) /\ (v[l] = MinusZero => r.q % 4 = 0)
             /\ PairDone(u, v[l]) /\ (v[l] = MinusZero => u.q % 4 = 0)
             /\ PairDone(h, v[l])
<1> DEFINE x == v[l]
           r == Staged(v, PairNear, NearRange, PairMiddlef, MiddleRange,
                       Rempi)[l]
           u == Staged(v, PairNear, NearRange, Rempi, NearRange, Rempi)[l]
           h == Staged(v, PairNear, NearRange \div 2, PairMiddlef,
                       MiddleRange, Rempi)[l]
           done(a) == PairDone(a, x) /\ (x = MinusZero => a.q % 4 = 0)
<1>1. \/ Below(x, NearRange) /\ r = PairNear(x)
      \/ Below(x, MiddleRange) /\ r = PairMiddlef(x)
      \/ r = Rempi(x)
  BY DEF Staged
<1>2. \/ Below(x, NearRange) /\ u = PairNear(x)
      \/ u = Rempi(x)
  BY DEF Staged
<1>3. \/ Below(x, NearRange \div 2) /\ h = PairNear(x)
      \/ Below(x, MiddleRange) /\ h = PairMiddlef(x)
      \/ h = Rempi(x)
  BY DEF Staged
<1>4. Below(x, NearRange) => done(PairNear(x))
  BY FirstDone DEF PairNear
<1>5. Below(x, MiddleRange) => done(PairMiddlef(x))
  BY FirstDone DEF PairMiddlef
<1>6. done(Rempi(x))  BY LastDone
<1>7. Below(x, NearRange \div 2) => Below(x, NearRange)
  <2>1. NearRange \div 2 \in Int /\ NearRange \div 2 <= NearRange
        /\ NearRange \in Int
    BY TrigLimits
  <2> QED  BY <2>1, BelowWider
<1> HIDE DEF r, u, h
<1>8. done(r) /\ done(u) /\ done(h)
  BY <1>1, <1>2, <1>3, <1>4, <1>5, <1>6, <1>7
<1> QED  BY <1>8 DEF r, u, h

\* In quad precision
LEMMA QuadDone ==
  ASSUME tcall \in TrigCalls, NEW x \in TrigArguments
  PROVE  /\ SinDone(QuadNear(x, SinMiddlef, SinQuadFar), x)
         /\ CosDone(QuadNear(x, CosMiddlef, CosQuadFar), x)
         /\ PairDone(QuadNear(x, PairMiddlef, rempio2q), x)
<1>1. CASE Below(x, MiddleRange)
  BY <1>1, FirstDone DEF QuadNear, SinMiddlef, CosMiddlef, PairMiddlef
<1>2. CASE ~Below(x, MiddleRange)
  BY <1>2, QuadLastDone DEF QuadNear
<1> QED  BY <1>1, <1>2

-----------------------------------------------------------------------------
(* The functions of multiples of pi *)

\* The even quotient of pi / 4 leaves at most pi / 4.
LEMMA EvenUpIs ==
  ASSUME NEW k \in Int
  PROVE  \E n \in Int : EvenUp(Chopped(k, 4)) = 2 * n /\ k - 8 * n \in -5..5
<1> DEFINE t == IF k < 0 THEN -((-k) \div 4) ELSE k \div 4
           n == (IF t < 0 THEN t ELSE t + 1) \div 2
<1>1. EvenUp(Chopped(k, 4)) = 2 * n  BY DEF EvenUp, Chopped
<1>2. n \in Int /\ k - 8 * n \in -5..5
  <2>1. CASE k < 0
    <3>1. t \in Int /\ t <= 0 /\ 4 * t - 3 <= k /\ k <= 4 * t  BY <2>1
    <3> HIDE DEF t
    <3>2. CASE t < 0
      <4>1. n = t \div 2  BY <3>2
      <4> QED  BY <3>1, <4>1
    <3>3. CASE t = 0
      <4>1. n = 1 \div 2  BY <3>3
      <4> QED  BY <3>1, <3>3, <4>1
    <3> QED  BY <3>1, <3>2, <3>3
  <2>2. CASE ~(k < 0)
    <3>1. t \in Int /\ ~(t < 0) /\ 4 * t <= k /\ k <= 4 * t + 3  BY <2>2
    <3> HIDE DEF t
    <3>2. n = (t + 1) \div 2  BY <3>1
    <3> QED  BY <3>1, <3>2
  <2> QED  BY <2>1, <2>2
<1> QED  BY <1>1, <1>2

\* Within the range both functions are right,
LEMMA PiPolysRight ==
  ASSUME NEW x \in Finites, ~(Abs(x.k) > PiRange)
  PROVE  /\ sinpik(PiReduced(x)) = IF x = MinusZero THEN x ELSE SineOf(x.k)
         /\ cospik(PiReduced(x)) = CosineOf(x.k)
<1> DEFINE r == PiReduced(x)
           k == x.k
<1>1. CASE x = MinusZero
  <2>1. r.q = 0 /\ r.d = x /\ k = 0  BY <1>1, OfSpecials DEF PiReduced
  <2>2. ~Bit(0, 2) /\ ~Bit(2, 4)  BY DEF Bit
  <2>3. SmallSine(x) = MinusZero  BY <1>1 DEF SmallSine
  <2>4. SmallCosine(x) = CosineOf(0)
    BY <1>1, OfSpecials DEF SmallCosine, Poly, QuarterTurn, Abs
  <2>5. sinpik(r) = MinusZero  BY <2>1, <2>2, <2>3, FlippedIs DEF sinpik
  <2> HIDE DEF r
  <2>6. cospik(r) = CosineOf(0)
    <3>1. 0 + 2 = 2  OBVIOUS
    <3> QED  BY <2>1, <2>2, <2>4, <3>1 DEF cospik, Flipped
  <2> QED  BY <1>1, <2>1, <2>5, <2>6 DEF r
<1>2. CASE x # MinusZero
  <2>1. k \in Int /\ Finite(x) /\ Abs(k) \in Int  BY OfFinites
  <2>2. Abs(k) < IntRange
    <3> DEFINE a == Abs(k)
    <3>1. a \in Int /\ ~(a > PiRange)  BY <2>1
    <3> HIDE DEF a
    <3>2. a < IntRange  BY <3>1, TrigLimits
    <3> QED  BY <3>2 DEF a
  <2> HIDE DEF k
  <2>3. PICK n \in Int : /\ EvenUp(Chopped(k, 4)) = 2 * n
                         /\ k - 8 * n \in -5..5
    BY <2>1, EvenUpIs
  <2> DEFINE d == k - 8 * n
             odd == Bit(2 * n, 2)
             high == Bit(2 * n, 4)
             next == Bit(2 * n + 2, 4)
  <2>4. r.q = 2 * n /\ r.d = Number(d)
    <3> DEFINE yes == Abs(k) < IntRange
    <3>1. yes \in BOOLEAN /\ yes  BY <2>2
    <3> HIDE DEF yes
    <3>2. r = Reduction(2 * n, k - 4 * (2 * n), yes)
      BY <1>2, <2>1, <2>3 DEF PiReduced, yes, k
    <3>3. k - 4 * (2 * n) = d  BY <2>1
    <3> HIDE DEF r, d
    <3> QED  BY <3>1, <3>2, <3>3, ReductionIs
  <2>5. d \in -5..5 /\ d \in Int /\ d + 8 * n = k  BY <2>1, <2>3
  <2>6. /\ odd <=> n % 2 = 1
        /\ high <=> n % 4 \in {2, 3}
        /\ next <=> (n + 1) % 4 \in {2, 3}
        /\ odd \in BOOLEAN /\ high \in BOOLEAN /\ next \in BOOLEAN
    <3>1. 2 * n + 2 = 2 * (n + 1) /\ n + 1 \in Int /\ 2 * n \in Int
          /\ 2 * (n + 1) \in Int
      OBVIOUS
    <3> QED  BY <3>1, BitsAre
  <2> HIDE DEF d, r
  <2>7. /\ SineOf(d + 8 * n) =
             Flipped(IF odd THEN CosineOf(d) ELSE SineOf(d), high)
        /\ CosineOf(d + 8 * n) =
             Flipped(IF odd THEN SineOf(d) ELSE CosineOf(d), next)
    <3> HIDE DEF odd, high, next
    <3> QED  BY <2>5, <2>6, PairIs
  <2>8. SmallSine(r.d) = SineOf(d) /\ SmallCosine(r.d) = CosineOf(d)
    BY <2>4, <2>5, PolyIs
  <2>9. /\ sinpik(r) = Flipped(IF odd THEN CosineOf(d) ELSE SineOf(d), high)
        /\ cospik(r) = Flipped(IF odd THEN SineOf(d) ELSE CosineOf(d), next)
    BY <2>4, <2>8 DEF sinpik, cospik
  <2> QED  BY <1>2, <2>5, <2>7, <2>9 DEF r, k
<1> QED  BY <1>1, <1>2

\* beyond it some number is returned, and NaN where there is no result.
LEMMA OfPiRight ==
  ASSUME NEW x \in TrigArguments, NEW i \in Int
  PROVE  LET s == Limited(x, sinpik(PiReduced(x)), Number(0))
             c == Limited(x, cospik(PiReduced(x)), Number(i))
         IN  /\ OfPi(x, s, SineRight(x, s))
             /\ x = MinusZero => OfPi(x, x, SineRight(x, x))
             /\ OfPi(x, c, CosineRight(x, c))
<1> DEFINE r == PiReduced(x)
           s == Limited(x, sinpik(r), Number(0))
           c == Limited(x, cospik(r), Number(i))
           far == Abs(x.k) > PiRange
<1>1. CASE x \in Finites /\ far
  <2>1. Finite(x) /\ x.kind # "inf"  BY <1>1, OfFinites
  <2>2. s = Number(0) /\ c = Number(i)  BY <1>1, <2>1 DEF Limited
  <2>3. s.kind = "number" /\ c.kind = "number"  BY <2>2, OfNumbers
  <2>4. x # MinusZero
    <3>1. x = MinusZero => x.k = 0  BY OfSpecials
    <3>2. ~(Abs(0) > PiRange)  BY TrigLimits DEF Abs
    <3> QED  BY <1>1, <3>1, <3>2
  <2> HIDE DEF s, c
  <2> QED  BY <1>1, <2>1, <2>3, <2>4 DEF OfPi, s, c, r
<1>2. CASE x \in Finites /\ ~far
  <2>1. Finite(x) /\ x.kind # "inf"  BY <1>2, OfFinites
  <2>2. s = sinpik(r) /\ c = cospik(r)  BY <1>2, <2>1 DEF Limited
  <2>3. /\ sinpik(r) = IF x = MinusZero THEN x ELSE SineOf(x.k)
        /\ cospik(r) = CosineOf(x.k)
    BY <1>2, PiPolysRight
  <2>4. SineRight(x, s) /\ CosineRight(x, c)
    BY <2>1, <2>2, <2>3 DEF SineRight, CosineRight
  <2>5. x = MinusZero => SineRight(x, x)  BY <2>1 DEF SineRight
  <2> HIDE DEF s, c
  <2> QED  BY <1>2, <2>4, <2>5 DEF OfPi, s, c, r
<1>3. CASE x \in Infinites
  <2>1. ~Finite(x) /\ x # MinusZero  BY <1>3, OfInfinites, OfSpecials
  <2>2. s = Undefined /\ c = Undefined
    <3>1. CASE x = Undefined
      <4>1. r.d = Undefined /\ x.kind # "inf"
        BY <2>1, <3>1, OfSpecials DEF PiReduced
      <4>2. SmallSine(Undefined) = Undefined
            /\ SmallCosine(Undefined) = Undefined
        BY OfSpecials DEF SmallSine, SmallCosine, Poly
      <4>3. sinpik(r) = Undefined /\ cospik(r) = Undefined
        BY <4>1, <4>2, FlippedIs DEF sinpik, cospik
      <4> QED  BY <2>1, <4>1, <4>3 DEF Limited
    <3>2. CASE x # Undefined
      <4>1. x.kind = "inf"  BY <1>3, <3>2, OfSpecials DEF Infinites
      <4> QED  BY <4>1 DEF Limited
    <3> QED  BY <3>1, <3>2
  <2>3. SineRight(x, s) /\ CosineRight(x, c)
    BY <2>1, <2>2 DEF SineRight, CosineRight
  <2> HIDE DEF s, c
  <2> QED  BY <2>1, <2>3 DEF OfPi, s, c, r
<1> QED  BY <1>1, <1>2, <1>3, TrigArgumentsAre

\* A pair is of the sine and the cosine that are computed alone.
LEMMA PairOfPiRight ==
  ASSUME NEW x \in TrigArguments, NEW i \in Int
  PROVE  LET p == PairOfPi(x, PiReduced(x), Number(i))
         IN  /\ OfPi(x, p[1], SineRight(x, p[1]))
             /\ OfPi(x, p[2], CosineRight(x, p[2]))
<1> DEFINE r == PiReduced(x)
           p == PairOfPi(x, r, Number(i))
<1>1. p[1] = Limited(x, sinpik(r), Number(0))
      /\ p[2] = Limited(x, cospik(r), Number(i))
  BY DEF PairOfPi, Signed, sinpik, cospik
<1> HIDE DEF p
<1> QED  BY <1>1, OfPiRight DEF p

-----------------------------------------------------------------------------
(* The functions, lane by lane *)

RightSines(v, y) ==
  DOMAIN y = DOMAIN v /\ \A l \in DOMAIN v : SineRight(v[l], y[l])

RightCosines(v, y) ==
  DOMAIN y = DOMAIN v /\ \A l \in DOMAIN v : CosineRight(v[l], y[l])

RightTangents(v, y) ==
  DOMAIN y = DOMAIN v /\ \A l \in DOMAIN v : TangentRight(v[l], y[l])

RightPairs(v, y) ==
  /\ DOMAIN y = DOMAIN v
  /\ \A l \in DOMAIN v : /\ SineRight(v[l], y[l][1])
                         /\ CosineRight(v[l], y[l][2])

RightPiSines(v, y) ==
  /\ DOMAIN y = DOMAIN v
  /\ \A l \in DOMAIN v : OfPi(v[l], y[l], SineRight(v[l], y[l]))

RightPiCosines(v, y) ==
  /\ DOMAIN y = DOMAIN v
  /\ \A l \in DOMAIN v : OfPi(v[l], y[l], CosineRight(v[l], y[l]))

RightPiPairs(v, y) ==
  /\ DOMAIN y = DOMAIN v
  /\ \A l \in DOMAIN v :
       /\ OfPi(v[l], y[l][1], SineRight(v[l], y[l][1]))
       /\ OfPi(v[l], y[l][2], CosineRight(v[l], y[l][2]))

RightFastSines(v, y) ==
  /\ DOMAIN y = DOMAIN v
  /\ \A l \in DOMAIN v : \/ v[l] = MinusZero /\ y[l] \in {v[l], Number(0)}
                         \/ SineRight(v[l], y[l])

\* All sines
LEMMA SinesRight ==
  ASSUME tcall \in TrigCalls, NEW v,
         \A l \in DOMAIN v : v[l] \in TrigArguments
  PROVE  /\ RightSines(v, xsin(v)) /\ RightSines(v, xsin_u1(v))
         /\ RightSines(v, xsinf(v)) /\ RightSines(v, xsinf_u1(v))
         /\ RightSines(v, xsinq_u10(v))
<1>1. RightSines(v, xsin(v))
  <2>1. DOMAIN xsin(v) = DOMAIN v  BY DEF xsin, Each
  <2>2. ASSUME NEW l \in DOMAIN v  PROVE SineRight(v[l], xsin(v)[l])
    <3>1. xsin(v)[l] = IF v[l] = MinusZero THEN v[l]
                       ELSE SinFrom(SinReduced(v)[l])
      BY DEF xsin, Each
    <3>2. SinDone(SinReduced(v)[l], v[l])  BY SinReducedDone
    <3> QED  BY <3>1, <3>2, SinDoneRight
  <2> QED  BY <2>1, <2>2 DEF RightSines
<1>2. RightSines(v, xsin_u1(v))
  <2>1. DOMAIN xsin_u1(v) = DOMAIN v  BY DEF xsin_u1
  <2>2. ASSUME NEW l \in DOMAIN v  PROVE SineRight(v[l], xsin_u1(v)[l])
    <3> DEFINE x == v[l]
    <3>0. x \in TrigArguments  OBVIOUS
    <3>1. xsin_u1(v)[l] = IF x.k = 0 /\ Finite(x) THEN x
                          ELSE SinFrom(SinReduced(v)[l])
      BY DEF xsin_u1
    <3>2. SinDone(SinReduced(v)[l], x)  BY SinReducedDone
    <3> HIDE DEF x
    <3>3. CASE x.k = 0 /\ Finite(x)
      <4>1. x = MinusZero \/ x = Number(0)
        BY <3>0, <3>3, TrigArgumentsAre, OfFinites, OfInfinites
      <4>2. SineOf(0) = Number(0)
        BY DEF SineOf, Folded, QuarterTurn, HalfTurn, Turn
      <4>3. SineRight(x, x)
        BY <3>3, <4>1, <4>2, OfNumbers DEF SineRight
      <4> QED  BY <3>1, <3>3, <4>3 DEF x
    <3>4. CASE ~(x.k = 0 /\ Finite(x))
      <4>1. x # MinusZero  BY <3>4, OfSpecials
      <4> QED  BY <3>0, <3>1, <3>2, <3>4, <4>1, SinDoneRight DEF x
    <3> QED  BY <3>3, <3>4
  <2> QED  BY <2>1, <2>2 DEF RightSines
<1>3. RightSines(v, xsinf(v)) /\ RightSines(v, xsinf_u1(v))
  <2>1. DOMAIN xsinf(v) = DOMAIN v /\ DOMAIN xsinf_u1(v) = DOMAIN v
    BY DEF xsinf, xsinf_u1, Each
  <2>2. ASSUME NEW l \in DOMAIN v
        PROVE  SineRight(v[l], xsinf(v)[l]) /\ SineRight(v[l], xsinf_u1(v)[l])
    <3> DEFINE r == Staged(v, SinNear, NearRange, SinMiddlef, MiddleRange,
                           SinFar)[l]
               u == Staged(v, SinNear, NearRange, SinFar, NearRange,
                           SinFar)[l]
    <3>1. /\ xsinf(v)[l] = IF v[l] = MinusZero THEN v[l] ELSE SinFrom(r)
          /\ xsinf_u1(v)[l] = IF v[l] = MinusZero THEN v[l] ELSE SinFrom(u)
      BY DEF xsinf, xsinf_u1, Each
    <3>2. SinDone(r, v[l]) /\ SinDone(u, v[l])  BY SinStagedDone
    <3> HIDE DEF r, u
    <3> QED  BY <3>1, <3>2, SinDoneRight
  <2> QED  BY <2>1, <2>2 DEF RightSines
<1>4. RightSines(v, xsinq_u10(v))
  <2>1. DOMAIN xsinq_u10(v) = DOMAIN v  BY DEF xsinq_u10
  <2>2. ASSUME NEW l \in DOMAIN v  PROVE SineRight(v[l], xsinq_u10(v)[l])
    <3> DEFINE r == QuadNear(v[l], SinMiddlef, SinQuadFar)
    <3>1. xsinq_u10(v)[l] = IF v[l] = MinusZero THEN v[l] ELSE SinFrom(r)
      BY DEF xsinq_u10, sin_tdx_tdx
    <3>2. SinDone(r, v[l])  BY QuadDone
    <3> HIDE DEF r
    <3> QED  BY <3>1, <3>2, SinDoneRight
  <2> QED  BY <2>1, <2>2 DEF RightSines
<1> QED  BY <1>1, <1>2, <1>3, <1>4

\* The fast sine, which may drop the sign of a zero
LEMMA FastSinesRight ==
  ASSUME tcall \in TrigCalls, NEW v,
         \A l \in DOMAIN v : v[l] \in TrigArguments
  PROVE  RightFastSines(v, xfastsinf_u3500(v))
<1> DEFINE y == xfastsinf_u3500(v)
<1>1. DOMAIN y = DOMAIN v  BY DEF xfastsinf_u3500
<1>2. ASSUME NEW l \in DOMAIN v
      PROVE  \/ v[l] = MinusZero /\ y[l] \in {v[l], Number(0)}
             \/ SineRight(v[l], y[l])
  <2>1. CASE Below(v[l], FastRange)
    <3> DEFINE r == Simply(v[l], HalfTurn, FastRange)
    <3>1. y[l] = SinFrom(r)  BY <2>1 DEF xfastsinf_u3500
    <3>2. SinDone(r, v[l])  BY <2>1, FirstDone
    <3> HIDE DEF r, y
    <3> QED  BY <3>1, <3>2, SinDoneRight
  <2>2. CASE ~Below(v[l], FastRange)
    <3>1. y[l] = xsinf(v)[l]  BY <2>2 DEF xfastsinf_u3500
    <3>2. SineRight(v[l], xsinf(v)[l])  BY SinesRight DEF RightSines
    <3> HIDE DEF y
    <3> QED  BY <3>1, <3>2
  <2> QED  BY <2>1, <2>2
<1> HIDE DEF y
<1>3. RightFastSines(v, y)  BY <1>1, <1>2 DEF RightFastSines
<1> QED  BY <1>3 DEF y

\* The fast cosine has the quotient of pi.
LEMMA FastCosRight ==
  ASSUME tcall \in TrigCalls, NEW x \in TrigArguments, Below(x, FastRange)
  PROVE  CosineRight(x, Flipped(Sine(Number(x.k - QuarterTurn
                                              - HalfTurn * FastQuot(x.k))),
                                ~Bit(FastQuot(x.k), 1)))
<1> DEFINE k == x.k
           n == FastQuot(x.k)
           r == [q |-> 2 * n, d |-> Number(k - 16 * n - 8)]
<1>1. x \in Finites  BY BelowFinite
<1>2. k \in Int /\ Finite(x) /\ k - 8 \in Int  BY <1>1, OfFinites
<1>3. n \in Int /\ k - 8 - 16 * n \in -9..9
  BY <1>2, QuotIs, TrigLimits DEF FastQuot
<1> HIDE DEF k, n
<1>4. k - 16 * n - 8 \in -9..9 /\ 2 * n \in Int
      /\ k - 8 - 16 * n = k - 16 * n - 8
  BY <1>2, <1>3
<1>5. (Bit(2 * n, 2) <=> n % 2 = 1) /\ (Bit(n, 1) <=> n % 2 = 1)
      /\ Bit(2 * n, 2) \in BOOLEAN /\ Bit(n, 1) \in BOOLEAN
  BY <1>3, <1>4, BitsAre
<1>6. r.q = 2 * n /\ r.d = Number(k - 16 * n - 8)  OBVIOUS
<1> HIDE DEF r
<1>7. CosReduction(r, k)  BY <1>3, <1>4, <1>5, <1>6 DEF CosReduction
<1>8. CosFrom(r) = CosineOf(k)  BY <1>2, <1>7, CosFromRight
<1>9. CosFrom(r) = Flipped(Sine(Number(k - 8 - 16 * n)), ~Bit(n, 1))
  BY <1>4, <1>5, <1>6 DEF CosFrom
<1> QED  BY <1>2, <1>8, <1>9, TrigLimits DEF CosineRight, k, n

\* All cosines
LEMMA CosinesRight ==
  ASSUME tcall \in TrigCalls, NEW v,
         \A l \in DOMAIN v : v[l] \in TrigArguments
  PROVE  /\ RightCosines(v, xcos(v)) /\ RightCosines(v, xcos_u1(v))
         /\ RightCosines(v, xcosf(v)) /\ RightCosines(v, xcosf_u1(v))
         /\ RightCosines(v, xfastcosf_u3500(v))
         /\ RightCosines(v, xcosq_u10(v))
<1>1. RightCosines(v, xcos(v)) /\ RightCosines(v, xcos_u1(v))
  <2>1. DOMAIN xcos(v) = DOMAIN v /\ DOMAIN xcos_u1(v) = DOMAIN v
    BY DEF xcos, xcos_u1
  <2>2. ASSUME NEW l \in DOMAIN v
        PROVE  CosineRight(v[l], xcos(v)[l]) /\ CosineRight(v[l], xcos_u1(v)[l])
    <3>1. /\ xcos(v)[l] = CosFrom(CosReduced(v)[l])
          /\ xcos_u1(v)[l] = CosFrom(CosReduced(v)[l])
      BY DEF xcos, xcos_u1
    <3>2. CosDone(CosReduced(v)[l], v[l])  BY CosReducedDone
    <3> QED  BY <3>1, <3>2, CosDoneRight
  <2> QED  BY <2>1, <2>2 DEF RightCosines
<1>2. RightCosines(v, xcosf(v)) /\ RightCosines(v, xcosf_u1(v))
  <2>1. DOMAIN xcosf(v) = DOMAIN v /\ DOMAIN xcosf_u1(v) = DOMAIN v
    BY DEF xcosf, xcosf_u1
  <2>2. ASSUME NEW l \in DOMAIN v
        PROVE  /\ CosineRight(v[l], xcosf(v)[l])
               /\ CosineRight(v[l], xcosf_u1(v)[l])
    <3> DEFINE r == Staged(v, CosNear, NearRange, CosMiddlef, MiddleRange,
                           CosFar)[l]
               u == Staged(v, CosNear, NearRange, CosFar, NearRange,
                           CosFar)[l]
    <3>1. xcosf(v)[l] = CosFrom(r) /\ xcosf_u1(v)[l] = CosFrom(u)
      BY DEF xcosf, xcosf_u1
    <3>2. CosDone(r, v[l]) /\ CosDone(u, v[l])  BY CosStagedDone
    <3> HIDE DEF r, u
    <3> QED  BY <3>1, <3>2, CosDoneRight
  <2> QED  BY <2>1, <2>2 DEF RightCosines
<1>3. RightCosines(v, xfastcosf_u3500(v))
  <2> DEFINE y == xfastcosf_u3500(v)
  <2>1. DOMAIN y = DOMAIN v  BY DEF xfastcosf_u3500
  <2>2. ASSUME NEW l \in DOMAIN v  PROVE CosineRight(v[l], y[l])
    <3>1. CASE Below(v[l], FastRange)
      <4>1. y[l] = Flipped(Sine(Number(v[l].k - QuarterTurn
                                         - HalfTurn * FastQuot(v[l].k))),
                           ~Bit(FastQuot(v[l].k), 1))
        BY <3>1 DEF xfastcosf_u3500
      <4> HIDE DEF y
      <4> QED  BY <3>1, <4>1, FastCosRight
    <3>2. CASE ~Below(v[l], FastRange)
      <4>1. y[l] = xcosf(v)[l]  BY <3>2 DEF xfastcosf_u3500
      <4> HIDE DEF y
      <4> QED  BY <1>2, <4>1 DEF RightCosines
    <3> QED  BY <3>1, <3>2
  <2> HIDE DEF y
  <2>3. RightCosines(v, y)  BY <2>1, <2>2 DEF RightCosines
  <2> QED  BY <2>3 DEF y
<1>4. RightCosines(v, xcosq_u10(v))
  <2>1. DOMAIN xcosq_u10(v) = DOMAIN v  BY DEF xcosq_u10
  <2>2. ASSUME NEW l \in DOMAIN v  PROVE CosineRight(v[l], xcosq_u10(v)[l])
    <3> DEFINE r == QuadNear(v[l], CosMiddlef, CosQuadFar)
    <3>1. xcosq_u10(v)[l] = CosFrom(r)  BY DEF xcosq_u10, cos_tdx_tdx
    <3>2. CosDone(r, v[l])  BY QuadDone
    <3> HIDE DEF r
    <3> QED  BY <3>1, <3>2, CosDoneRight
  <2> QED  BY <2>1, <2>2 DEF RightCosines
<1> QED  BY <1>1, <1>2, <1>3, <1>4

\* All tangents
LEMMA TangentsRight ==
  ASSUME tcall \in TrigCalls, NEW v,
         \A l \in DOMAIN v : v[l] \in TrigArguments
  PROVE  /\ RightTangents(v, xtan(v)) /\ RightTangents(v, xtan_u1(v))
         /\ RightTangents(v, xtanf(v)) /\ RightTangents(v, xtanf_u1(v))
         /\ RightTangents(v, xtanq_u10(v))
<1>1. /\ DOMAIN xtan(v) = DOMAIN v /\ DOMAIN xtan_u1(v) = DOMAIN v
      /\ DOMAIN xtanf(v) = DOMAIN v /\ DOMAIN xtanf_u1(v) = DOMAIN v
      /\ DOMAIN xtanq_u10(v) = DOMAIN v
  BY DEF xtan, xtan_u1, xtanf, xtanf_u1, xtanq_u10, Each
<1>2. ASSUME NEW l \in DOMAIN v
      PROVE  /\ TangentRight(v[l], xtan(v)[l])
             /\ TangentRight(v[l], xtan_u1(v)[l])
             /\ TangentRight(v[l], xtanf(v)[l])
             /\ TangentRight(v[l], xtanf_u1(v)[l])
             /\ TangentRight(v[l], xtanq_u10(v)[l])
  <2> DEFINE x == v[l]
             a == PairReduced(v, TanRange)[l]
             b == Staged(v, PairNear, NearRange, DoublyChopped, MiddleRange,
                         Rempi)[l]
             h == Staged(v, PairNear, NearRange \div 2, PairMiddlef,
                         MiddleRange, Rempi)[l]
             u == Staged(v, PairNear, NearRange, Rempi, NearRange, Rempi)[l]
             q == QuadNear(x, PairMiddlef, rempio2q)
  <2>1. /\ xtan(v)[l] = IF x = MinusZero THEN x ELSE TanFrom(a)
        /\ xtan_u1(v)[l] = IF x = MinusZero THEN x ELSE TanFrom(b)
        /\ xtanf(v)[l] = IF x = MinusZero THEN x ELSE TanfFrom(h)
    BY DEF xtan, xtan_u1, xtanf, Each
  <2>2. /\ xtanf_u1(v)[l] = IF x = MinusZero THEN x ELSE TanfFrom(u)
        /\ xtanq_u10(v)[l] = IF x = MinusZero THEN x ELSE TanFrom(q)
    BY DEF xtanf_u1, Each, xtanq_u10, tan_tdx_tdx
  <2>3. PairDone(a, x)
    <3>1. TanRange \in {MiddleRange, TanRange}  OBVIOUS
    <3> QED  BY <3>1, PairReducedDone
  <2>4. PairDone(b, x)  BY ChoppedDone
  <2>5. PairDone(h, x) /\ PairDone(u, x)  BY PairStagedDone
  <2>6. PairDone(q, x) /\ x \in TrigArguments  BY QuadDone
  <2> HIDE DEF a, b, h, u, q
  <2>7. TangentRight(x, xtan(v)[l]) /\ TangentRight(x, xtan_u1(v)[l])
    BY <2>1, <2>3, <2>4, <2>6, TanDoneRight
  <2>8. TangentRight(x, xtanf(v)[l]) /\ TangentRight(x, xtanf_u1(v)[l])
    BY <2>1, <2>2, <2>5, <2>6, TanDoneRight
  <2>9. TangentRight(x, xtanq_u10(v)[l])  BY <2>2, <2>6, TanDoneRight
  <2> QED  BY <2>7, <2>8, <2>9
<1> QED  BY <1>1, <1>2 DEF RightTangents

\* All pairs
LEMMA PairsRight ==
  ASSUME tcall \in TrigCalls, NEW v,
         \A l \in DOMAIN v : v[l] \in TrigArguments
  PROVE  /\ RightPairs(v, xsincos(v)) /\ RightPairs(v, xsincos_u1(v))
         /\ RightPairs(v, xsincosf(v)) /\ RightPairs(v, xsincosf_u1(v))
<1>1. /\ DOMAIN xsincos(v) = DOMAIN v /\ DOMAIN xsincos_u1(v) = DOMAIN v
      /\ DOMAIN xsincosf(v) = DOMAIN v /\ DOMAIN xsincosf_u1(v) = DOMAIN v
  BY DEF xsincos, xsincos_u1, xsincosf, xsincosf_u1
<1> DEFINE right(x, y) == SineRight(x, y[1]) /\ CosineRight(x, y[2])
<1>2. ASSUME NEW l \in DOMAIN v
      PROVE  /\ right(v[l], xsincos(v)[l]) /\ right(v[l], xsincos_u1(v)[l])
             /\ right(v[l], xsincosf(v)[l]) /\ right(v[l], xsincosf_u1(v)[l])
  <2> DEFINE x == v[l]
             a == PairReduced(v, MiddleRange)[l]
             r == Staged(v, PairNear, NearRange, PairMiddlef, MiddleRange,
                         Rempi)[l]
             u == Staged(v, PairNear, NearRange, Rempi, NearRange, Rempi)[l]
  <2>1. /\ xsincos(v)[l] = SinCosFrom(x, a)
        /\ xsincos_u1(v)[l] = SinCosFrom(x, a)
        /\ xsincosf(v)[l] = SinCosFrom(x, r)
        /\ xsincosf_u1(v)[l] = SinCosFrom(x, u)
    BY DEF xsincos, xsincos_u1, xsincosf, xsincosf_u1
  <2>2. x \in TrigArguments  OBVIOUS
  <2>3. PairDone(a, x) /\ (x = MinusZero => a.q % 4 = 0)
    <3>1. MiddleRange \in {MiddleRange, TanRange}  OBVIOUS
    <3> QED  BY <3>1, PairReducedDone
  <2>4. /\ PairDone(r, x) /\ (x = MinusZero => r.q % 4 = 0)
        /\ PairDone(u, x) /\ (x = MinusZero => u.q % 4 = 0)
    BY PairStagedDone
  <2> HIDE DEF a, r, u
  <2>5. /\ right(x, SinCosFrom(x, a)) /\ right(x, SinCosFrom(x, r))
        /\ right(x, SinCosFrom(x, u))
    BY <2>2, <2>3, <2>4, PairDoneRight
  <2> HIDE DEF right
  <2> QED  BY <2>1, <2>5
<1> QED  BY <1>1, <1>2 DEF RightPairs

\* All functions of multiples of pi
LEMMA PisRight ==
  ASSUME NEW v, \A l \in DOMAIN v : v[l] \in TrigArguments
  PROVE  /\ RightPiSines(v, xsinpi_u05(v)) /\ RightPiSines(v, xsinpif_u05(v))
         /\ RightPiCosines(v, xcospi_u05(v))
         /\ RightPiCosines(v, xcospif_u05(v))
         /\ RightPiPairs(v, xsincospi_u05(v))
         /\ RightPiPairs(v, xsincospi_u35(v))
         /\ RightPiPairs(v, xsincospif_u05(v))
         /\ RightPiPairs(v, xsincospif_u35(v))
<1> DEFINE s(x) == Limited(x, sinpik(PiReduced(x)), Number(0))
           c(x) == Limited(x, cospik(PiReduced(x)), Number(QuarterTurn))
           p(x) == PairOfPi(x, PiReduced(x), Number(QuarterTurn))
           z(x) == PairOfPi(x, PiReduced(x), Number(0))
<1>0. QuarterTurn \in Int /\ 0 \in Int  BY TrigLimits
<1>1. /\ DOMAIN xsinpi_u05(v) = DOMAIN v /\ DOMAIN xsinpif_u05(v) = DOMAIN v
      /\ DOMAIN xcospi_u05(v) = DOMAIN v /\ DOMAIN xcospif_u05(v) = DOMAIN v
      /\ DOMAIN xsincospi_u05(v) = DOMAIN v
      /\ DOMAIN xsincospi_u35(v) = DOMAIN v
      /\ DOMAIN xsincospif_u05(v) = DOMAIN v
      /\ DOMAIN xsincospif_u35(v) = DOMAIN v
  BY DEF xsinpi_u05, xsinpif_u05, xcospi_u05, xcospif_u05, xsincospi_u05,
         xsincospi_u35, xsincospif_u05, xsincospif_u35, Each
<1>2. ASSUME NEW l \in DOMAIN v
      PROVE  /\ xsinpi_u05(v)[l] = IF v[l] = MinusZero THEN v[l] ELSE s(v[l])
             /\ xsinpif_u05(v)[l] = IF v[l] = MinusZero THEN v[l] ELSE s(v[l])
             /\ xcospi_u05(v)[l] = c(v[l]) /\ xcospif_u05(v)[l] = c(v[l])
             /\ xsincospi_u05(v)[l] = p(v[l])
             /\ xsincospi_u35(v)[l] = z(v[l])
             /\ xsincospif_u05(v)[l] = z(v[l])
             /\ xsincospif_u35(v)[l] = z(v[l])
  <2>1. /\ xsinpi_u05(v)[l] = IF v[l] = MinusZero THEN v[l] ELSE s(v[l])
        /\ xsinpif_u05(v)[l] = IF v[l] = MinusZero THEN v[l] ELSE s(v[l])
    BY DEF xsinpi_u05, xsinpif_u05, Each
  <2>2. xcospi_u05(v)[l] = c(v[l]) /\ xcospif_u05(v)[l] = c(v[l])
    BY DEF xcospi_u05, xcospif_u05
  <2>3. xsincospi_u05(v)[l] = p(v[l]) /\ xsincospi_u35(v)[l] = z(v[l])
    BY DEF xsincospi_u05, xsincospi_u35
  <2>4. xsincospif_u05(v)[l] = z(v[l]) /\ xsincospif_u35(v)[l] = z(v[l])
    BY DEF xsincospif_u05, xsincospif_u35
  <2> QED  BY <2>1, <2>2, <2>3, <2>4
<1>3. ASSUME NEW x \in TrigArguments
      PROVE  /\ OfPi(x, s(x), SineRight(x, s(x)))
             /\ x = MinusZero => OfPi(x, x, SineRight(x, x))
             /\ OfPi(x, c(x), CosineRight(x, c(x)))
             /\ OfPi(x, p(x)[1], SineRight(x, p(x)[1]))
             /\ OfPi(x, p(x)[2], CosineRight(x, p(x)[2]))
             /\ OfPi(x, z(x)[1], SineRight(x, z(x)[1]))
             /\ OfPi(x, z(x)[2], CosineRight(x, z(x)[2]))
  BY <1>0, OfPiRight, PairOfPiRight
<1> HIDE DEF s, c, p, z
<1>4. RightPiSines(v, xsinpi_u05(v)) /\ RightPiSines(v, xsinpif_u05(v))
  <2>1. ASSUME NEW l \in DOMAIN v
        PROVE  /\ OfPi(v[l], xsinpi_u05(v)[l],
                       SineRight(v[l], xsinpi_u05(v)[l]))
               /\ OfPi(v[l], xsinpif_u05(v)[l],
                       SineRight(v[l], xsinpif_u05(v)[l]))
    BY <1>2, <1>3
  <2> QED  BY <1>1, <2>1 DEF RightPiSines
<1>5. RightPiCosines(v, xcospi_u05(v)) /\ RightPiCosines(v, xcospif_u05(v))
  BY <1>1, <1>2, <1>3 DEF RightPiCosines
<1>6. /\ RightPiPairs(v, xsincospi_u05(v)) /\ RightPiPairs(v, xsincospi_u35(v))
      /\ RightPiPairs(v, xsincospif_u05(v))
      /\ RightPiPairs(v, xsincospif_u35(v))
  BY <1>1, <1>2, <1>3 DEF RightPiPairs
<1> QED  BY <1>4, <1>5, <1>6

\* No name is in two families.
LEMMA TrigFamiliesApart ==
  /\ "xfastsinf_u3500" \notin Sines \cup Cosines \cup Tangents \cup Pairs
                              \cup PiSines \cup PiCosines \cup PiPairs
  /\ Sines \cap (Cosines \cup Tangents \cup Pairs \cup PiSines \cup PiCosines
                 \cup PiPairs) = {}
  /\ Cosines \cap (Tangents \cup Pairs \cup PiSines \cup PiCosines
                   \cup PiPairs) = {}
  /\ Tangents \cap (Pairs \cup PiSines \cup PiCosines \cup PiPairs) = {}
  /\ Pairs \cap (PiSines \cup PiCosines \cup PiPairs) = {}
  /\ PiSines \cap (PiCosines \cup PiPairs) = {} /\ PiCosines \cap PiPairs = {}
<1>1. "xfastsinf_u3500" \notin Sines \cup Cosines \cup Tangents \cup Pairs
                               \cup PiSines \cup PiCosines \cup PiPairs
  BY DEF Sines, Cosines, Tangents, Pairs, PiSines, PiCosines, PiPairs
<1>2. Sines \cap (Cosines \cup Tangents \cup Pairs \cup PiSines \cup PiCosines
                  \cup PiPairs) = {}
  BY DEF Sines, Cosines, Tangents, Pairs, PiSines, PiCosines, PiPairs
<1>3. Cosines \cap (Tangents \cup Pairs \cup PiSines \cup PiCosines
                    \cup PiPairs) = {}
  BY DEF Cosines, Tangents, Pairs, PiSines, PiCosines, PiPairs
<1>4. Tangents \cap (Pairs \cup PiSines \cup PiCosines \cup PiPairs) = {}
  BY DEF Tangents, Pairs, PiSines, PiCosines, PiPairs
<1>5. Pairs \cap (PiSines \cup PiCosines \cup PiPairs) = {}
  BY DEF Pairs, PiSines, PiCosines, PiPairs
<1>6. PiSines \cap (PiCosines \cup PiPairs) = {} /\ PiCosines \cap PiPairs = {}
  BY DEF PiSines, PiCosines, PiPairs
<1> QED  BY <1>1, <1>2, <1>3, <1>4, <1>5, <1>6

\* Every function, by name
LEMMA TrigFamilies ==
  ASSUME tcall \in TrigCalls, NEW fn, NEW v,
         \A l \in DOMAIN v : v[l] \in TrigArguments
  PROVE  LET y == TrigResult(fn, v) IN
         /\ fn = "xfastsinf_u3500" => RightFastSines(v, y)
         /\ fn \in Sines => RightSines(v, y)
         /\ fn \in Cosines => RightCosines(v, y)
         /\ fn \in Tangents => RightTangents(v, y)
         /\ fn \in Pairs => RightPairs(v, y)
         /\ fn \in PiSines => RightPiSines(v, y)
         /\ fn \in PiCosines => RightPiCosines(v, y)
         /\ fn \in PiPairs => RightPiPairs(v, y)
<1> DEFINE y == TrigResult(fn, v)
<1>1. fn = "xfastsinf_u3500" => RightFastSines(v, y)
  BY FastSinesRight, Zenon DEF TrigResult
<1>2. fn \in Sines => RightSines(v, y)
  BY SinesRight, Zenon DEF TrigResult, Sines
<1>3. fn \in Cosines => RightCosines(v, y)
  BY CosinesRight, Zenon DEF TrigResult, Cosines
<1>4. fn \in Tangents => RightTangents(v, y)
  BY TangentsRight, Zenon DEF TrigResult, Tangents
<1>5. fn \in Pairs => RightPairs(v, y)
  BY PairsRight, Zenon DEF TrigResult, Pairs
<1>6. fn \in PiSines => RightPiSines(v, y)
  BY PisRight, Zenon DEF TrigResult, PiSines
<1>7. fn \in PiCosines => RightPiCosines(v, y)
  BY PisRight, Zenon DEF TrigResult, PiCosines
<1>8. fn \in PiPairs => RightPiPairs(v, y)
  BY PisRight, Zenon DEF TrigResult, PiPairs
<1> QED  BY <1>1, <1>2, <1>3, <1>4, <1>5, <1>6, <1>7, <1>8

\* What LanesRight says of the result y for lane l of the call c
RightLane(c, l, y) ==
  /\ c.fn = "xfastsinf_u3500" =>
       \/ c.v[l] = MinusZero /\ y \in {c.v[l], Number(0)}
       \/ SineRight(c.v[l], y)
  /\ c.fn \in Sines => SineRight(c.v[l], y)
  /\ c.fn \in Cosines => CosineRight(c.v[l], y)
  /\ c.fn \in Tangents => TangentRight(c.v[l], y)
  /\ c.fn \in Pairs => SineRight(c.v[l], y[1]) /\ CosineRight(c.v[l], y[2])
  /\ c.fn \in PiSines => OfPi(c.v[l], y, SineRight(c.v[l], y))
  /\ c.fn \in PiCosines => OfPi(c.v[l], y, CosineRight(c.v[l], y))
  /\ c.fn \in PiPairs => /\ OfPi(c.v[l], y[1], SineRight(c.v[l], y[1]))
                         /\ OfPi(c.v[l], y[2], CosineRight(c.v[l], y[2]))

\* In every lane every function returns what is right for its family.
LEMMA TrigResultsRight ==
  ASSUME tcall \in TrigCalls
  PROVE  \A l \in DOMAIN TrigResult(tcall.fn, tcall.v) :
           RightLane(tcall, l, TrigResult(tcall.fn, tcall.v)[l])
<1> DEFINE fn == tcall.fn
           v == tcall.v
           y == TrigResult(fn, v)
<1>1. /\ fn = "xfastsinf_u3500" \/ fn \in Sines \/ fn \in Cosines
         \/ fn \in Tangents \/ fn \in Pairs \/ fn \in PiSines
         \/ fn \in PiCosines \/ fn \in PiPairs
      /\ \A l \in DOMAIN v : v[l] \in TrigArguments
  BY TrigCallsAssumption, Zenon
<1>2. /\ fn = "xfastsinf_u3500" => RightFastSines(v, y)
      /\ fn \in Sines => RightSines(v, y)
      /\ fn \in Cosines => RightCosines(v, y)
      /\ fn \in Tangents => RightTangents(v, y)
      /\ fn \in Pairs => RightPairs(v, y)
      /\ fn \in PiSines => RightPiSines(v, y)
      /\ fn \in PiCosines => RightPiCosines(v, y)
      /\ fn \in PiPairs => RightPiPairs(v, y)
  BY <1>1, TrigFamilies
<1> HIDE DEF y
<1>3. DOMAIN y = DOMAIN v
  BY <1>1, <1>2, Zenon
     DEF RightFastSines, RightSines, RightCosines, RightTangents, RightPairs,
         RightPiSines, RightPiCosines, RightPiPairs
<1>4. ASSUME NEW l \in DOMAIN v  PROVE RightLane(tcall, l, y[l])
  <2>1. /\ fn = "xfastsinf_u3500" =>
             \/ v[l] = MinusZero /\ y[l] \in {v[l], Number(0)}
             \/ SineRight(v[l], y[l])
        /\ fn \in Sines => SineRight(v[l], y[l])
        /\ fn \in Cosines => CosineRight(v[l], y[l])
        /\ fn \in Tangents => TangentRight(v[l], y[l])
    BY <1>2, Zenon
       DEF RightFastSines, RightSines, RightCosines, RightTangents
  <2>2. /\ fn \in Pairs =>
             SineRight(v[l], y[l][1]) /\ CosineRight(v[l], y[l][2])
        /\ fn \in PiSines => OfPi(v[l], y[l], SineRight(v[l], y[l]))
        /\ fn \in PiCosines => OfPi(v[l], y[l], CosineRight(v[l], y[l]))
        /\ fn \in PiPairs => /\ OfPi(v[l], y[l][1], SineRight(v[l], y[l][1]))
                             /\ OfPi(v[l], y[l][2],
                                     CosineRight(v[l], y[l][2]))
    BY <1>2, Zenon DEF RightPairs, RightPiSines, RightPiCosines, RightPiPairs
  <2> QED  BY <2>1, <2>2, Zenon DEF RightLane
<1> QED  BY <1>3, <1>4 DEF y

\* LanesRight follows from what is right for each family.
LEMMA LanesRightIs ==
  ASSUME tcall \in TrigCalls,
         \A l \in DOMAIN tret : RightLane(tcall, l, tret[l])
  PROVE  LanesRight
<1> DEFINE fn == tcall.fn
           fast(x, y) ==
             (x = MinusZero /\ y \in {x, Number(0)}) \/ SineRight(x, y)
           pair(x, y) == SineRight(x, y[1]) /\ CosineRight(x, y[2])
           pisine(x, y) == OfPi(x, y, SineRight(x, y))
           picosine(x, y) == OfPi(x, y, CosineRight(x, y))
           pipair(x, y) == /\ OfPi(x, y[1], SineRight(x, y[1]))
                           /\ OfPi(x, y[2], CosineRight(x, y[2]))
<1> SUFFICES ASSUME NEW l \in DOMAIN tret
             PROVE  CASE fn = "xfastsinf_u3500" -> fast(tcall.v[l], tret[l])
                      [] fn \in Sines -> SineRight(tcall.v[l], tret[l])
                      [] fn \in Cosines -> CosineRight(tcall.v[l], tret[l])
                      [] fn \in Tangents -> TangentRight(tcall.v[l], tret[l])
                      [] fn \in Pairs -> pair(tcall.v[l], tret[l])
                      [] fn \in PiSines -> pisine(tcall.v[l], tret[l])
                      [] fn \in PiCosines -> picosine(tcall.v[l], tret[l])
                      [] fn \in PiPairs -> pipair(tcall.v[l], tret[l])
  BY Zenon DEF LanesRight
<1> DEFINE x == tcall.v[l]
           y == tret[l]
<1>1. /\ fn = "xfastsinf_u3500" => fast(x, y)
      /\ fn \in Sines => SineRight(x, y)
      /\ fn \in Cosines => CosineRight(x, y)
      /\ fn \in Tangents => TangentRight(x, y)
      /\ fn \in Pairs => pair(x, y)
      /\ fn \in PiSines => pisine(x, y)
      /\ fn \in PiCosines => picosine(x, y)
      /\ fn \in PiPairs => pipair(x, y)
  <2>1. RightLane(tcall, l, tret[l])  OBVIOUS
  <2> QED  BY <2>1, Zenon DEF RightLane
<1>2. fn = "xfastsinf_u3500" \/ fn \in Sines \/ fn \in Cosines
      \/ fn \in Tangents \/ fn \in Pairs \/ fn \in PiSines
      \/ fn \in PiCosines \/ fn \in PiPairs
  BY TrigCallsAssumption, Zenon
<1> HIDE DEF fast, pair, pisine, picosine, pipair, x, y, fn
<1>3. CASE fn = "xfastsinf_u3500"
  BY <1>1, <1>3, TrigFamiliesApart, Zenon DEF x, y
<1>4. CASE fn \in Sines
  BY <1>1, <1>4, TrigFamiliesApart, Zenon DEF x, y
<1>5. CASE fn \in Cosines
  BY <1>1, <1>5, TrigFamiliesApart, Zenon DEF x, y
<1>6. CASE fn \in Tangents
  BY <1>1, <1>6, TrigFamiliesApart, Zenon DEF x, y
<1>7. CASE fn \in Pairs
  BY <1>1, <1>7, TrigFamiliesApart, Zenon DEF x, y
<1>8. CASE fn \in PiSines
  BY <1>1, <1>8, TrigFamiliesApart, Zenon DEF x, y
<1>9. CASE fn \in PiCosines
  BY <1>1, <1>9, TrigFamiliesApart, Zenon DEF x, y
<1>10. CASE fn \in PiPairs
  BY <1>1, <1>10, TrigFamiliesApart, Zenon DEF x, y
<1> QED
  BY <1>2, <1>3, <1>4, <1>5, <1>6, <1>7, <1>8, <1>9, <1>10, Zenon

TrigState ==
  /\ tcall \in TrigCalls
  /\ \A l \in DOMAIN tret : RightLane(tcall, l, tret[l])

\* Sine, cosine and tangent of every function: in every lane the result is that
\* of the argument in this lane, whatever the arguments in the other lanes,
\* their number, the ranges of the reductions and the errors of the quotients.
THEOREM LanesAreRight == TrigSpec => []LanesRight
<1>1. TrigInit => TrigState  BY DEF TrigInit, TrigState
<1>2. TrigState /\ [TrigCall]_trigvars => TrigState'
  <2> SUFFICES ASSUME TrigState, [TrigCall]_trigvars  PROVE TrigState'
    OBVIOUS
  <2>1. CASE TrigCall
    <3>1. /\ tcall \in TrigCalls /\ tcall' = tcall
          /\ tret' = TrigResult(tcall.fn, tcall.v)
      BY <2>1 DEF TrigState, TrigCall
    <3>2. \A l \in DOMAIN tret' : RightLane(tcall, l, tret'[l])
      BY <3>1, TrigResultsRight
    <3> QED  BY <3>1, <3>2 DEF TrigState
  <2>2. CASE UNCHANGED trigvars
    BY <2>2 DEF TrigState, trigvars
  <2> QED  BY <2>1, <2>2
<1>3. TrigState => LanesRight  BY LanesRightIs DEF TrigState
<1> QED  BY <1>1, <1>2, <1>3, PTL DEF TrigSpec
=============================================================================
