----------------------------- MODULE Butterflies -----------------------------
(***************************************************************************)
(* The butterfly kernels of unroll0.cpp.in and unroll1.cpp.in, in exact    *)
(* arithmetic.  A real number is an integer modulo Prime, where the sine   *)
(* and the cosine of every angle 2 pi k / 2^LogOrder exist: Root, of order *)
(* 2^LogOrder, is exp(2 pi i / 2^LogOrder).  What the sums and products of *)
(* the code yield in the reals, they yield modulo Prime.  Rounding is not  *)
(* modelled.                                                               *)
(* A kernel is given here for one column c, that is one lane of one        *)
(* iteration of its loop: the function from the places it writes to what   *)
(* it writes there.                                                        *)
(***************************************************************************)
EXTENDS Integers, Sequences, FiniteSets, SequencesExt, FiniteSetsExt

CONSTANTS
  Prime, Root, LogOrder,
  MaxButWidth   \* MAXBUTWIDTH: the widest butterfly

ASSUME FieldAssumption ==
  /\ Prime \in Nat /\ Prime > 2 /\ Root \in 1..(Prime-1)
  /\ LogOrder \in Nat /\ LogOrder >= 2
  /\ FoldLeft(LAMBDA r, k : (r * r) % Prime, Root,
              [k \in 1..(LogOrder-1) |-> k]) = Prime - 1

ASSUME WidthAssumption == MaxButWidth \in 1..7

VARIABLE plan   \* the plan whose passes the kernels do

-----------------------------------------------------------------------------
(* Numbers *)

Order == 2^LogOrder
Mod(x) == x % Prime
Half == (Prime + 1) \div 2
RootPower ==
  FoldLeft(LAMBDA s, k :
             s \o [i \in 1..Len(s) |-> Mod(s[i] * Mod(Last(s) * Root))],
           <<1>>, [k \in 1..LogOrder |-> k])
Exp(k) == RootPower[(k % Order) + 1]

\* sincospi(a/b) in the libraries: the angle is 2 pi (a/b) / 2.
Angle(a, b) == (a * (Order \div 2)) \div b
Cos(a, b) == Mod(Half * (Exp(Angle(a, b)) + Exp(-Angle(a, b))))
Sin(a, b) == Mod(Mod(Half * Exp(3 * (Order \div 4)))
                 * Mod(Exp(Angle(a, b)) - Exp(-Angle(a, b))))

Zero == <<0, 0>>
Plus(a, b) == <<Mod(a[1] + b[1]), Mod(a[2] + b[2])>>
Minus(a, b) == <<Mod(a[1] - b[1]), Mod(a[2] - b[2])>>
Scaled(a, c) == <<Mod(c * a[1]), Mod(c * a[2])>>
\* timesminusplus(a, c, times(reverse(a), s)): a is multiplied by c + i s.
Rotated(a, c, s) == <<Mod(a[1] * c - a[2] * s), Mod(a[1] * s + a[2] * c)>>

\* constK: how many numbers the butterfly of width 2^N takes from its table
ConstK == <<2, 6, 14, 38, 94, 230, 542, 1254>>

-----------------------------------------------------------------------------
(* The split-radix network that the unrolled code of every kernel          *)
(* computes, on the elements a[0..2^m-1]                                   *)

\* The constants ctbl of the kernels of the last pass, in the order of the
\* tables of the others
RECURSIVE LastFrom(_, _)
LastFrom(m, backward) ==
  IF m <= 1 THEN <<>>
  ELSE FlattenSeq([i \in 1..2^(m-2) |->
         LET s == IF backward THEN i - 1 ELSE 1 - i  b == 2^(m-1) IN
         <<Sin(s, b), Mod(-Cos(s, b)), Sin(3 * s, b), Mod(-Cos(3 * s, b))>>])
       \o LastFrom(m - 1, backward)
       \o LastFrom(m - 2, backward) \o LastFrom(m - 2, backward)

LastTwiddles(N, backward) == <<1, 0>> \o LastFrom(N, backward)

\* How many factors a block of 2^m elements takes
BlockSize(m) == IF m <= 1 THEN 0 ELSE ConstK[m] - 2

\* The factors of a block begin at tw[off + 1]; two common ones are tw[1..2].
RECURSIVE Network(_, _, _, _, _)
Network(a, m, tw, off, backward) ==
  LET h == 2^m \div 2
      q == 2^m \div 4
      Sum(i) == Plus(a[i], a[i + h])
      Diff(i) == Minus(a[i], a[i + h])
      Turned(i) ==   \* the other difference, turned by a right angle
        LET d == Minus(a[i + q], a[i + q + h])
        IN  IF backward THEN Rotated(d, 0, 1) ELSE Rotated(d, 0, Mod(-1))
      o == off + 4 * q
      Factor(i, k) == off + 4 * i + k
      First == Network([i \in 0..(h-1) |-> Sum(i)], m - 1, tw, o, backward)
      Second ==
        Network([i \in 0..(q-1) |->
                   Rotated(Plus(Diff(i), Turned(i)),
                           -tw[Factor(i, 2)], tw[Factor(i, 1)])],
                m - 2, tw, o + BlockSize(m - 1), backward)
      Third ==
        Network([i \in 0..(q-1) |->
                   Rotated(Minus(Diff(i), Turned(i)),
                           -tw[Factor(i, 4)], tw[Factor(i, 3)])],
                m - 2, tw, o + BlockSize(m - 1) + BlockSize(m - 2), backward)
  IN
  IF m = 0 THEN a
  ELSE IF m = 1
  THEN [k \in 0..1 |-> IF k = 0 THEN Sum(0) ELSE Rotated(Diff(0), tw[1], tw[2])]
  ELSE [k \in 0..(2 * h - 1) |->
          IF k % 2 = 0 THEN First[k \div 2]
          ELSE IF k % 4 = 1 THEN Second[k \div 4] ELSE Third[k \div 4]]

\* The factors of the kernels of the last pass, by width and direction
ctbl == [x \in (1..MaxButWidth) \X BOOLEAN |-> LastTwiddles(x[1], x[2])]

Forward(N, a, tw) == Network(a, N, tw, 2, FALSE)
Backward(N, a, tw) == Network(a, N, tw, 2, TRUE)

-----------------------------------------------------------------------------
(* What a kernel reads and writes.  Lane v of iteration i does column      *)
(* i * 2^W + v.                                                            *)

W == plan.log2vecwidth
Lane(c) == c % 2^W
FirstLane(c) == c - Lane(c)    \* i0

\* Element j of the column, at in[i0 * 2 + 2 * (j << shift)]
load(in, c, N, shift) == [j \in 0..(2^N - 1) |-> in[c + j * 2^shift]]

\* The results in order from a place on
store(first, shift, r) ==
  [x \in {first + j * 2^shift : j \in DOMAIN r} |-> r[(x - first) \div 2^shift]]

\* Where q moves the column to: out0 + q[i]
MovedBy(q, c) == q[c \div 2^W] \div 2 + Lane(c)

\* vscatter2 with step 2^N: the results of a lane are stored side by side.
scatter(q, N, c, r) ==
  LET first == q[c \div 2^W] \div 2 + 2^N * Lane(c) IN
  [x \in first..(first + 2^N - 1) |-> r[x - first]]

\* The factors: the same for all lanes, or in vectors
Scalars(tbl, N, outShift, c) ==
  [k \in 1..ConstK[N] |-> tbl[ConstK[N] * (FirstLane(c) \div 2^outShift) + k]]
Vectors(tbl, N, c) ==
  [k \in 1..ConstK[N] |->
     tbl[ConstK[N] * FirstLane(c) + (k - 1) * 2^W + Lane(c) + 1]]

-----------------------------------------------------------------------------
(* The kernels of the last pass: out[c + j * 2^shift] in order *)

dft2f(in, shift, c) ==
  store(c, shift, Forward(1, load(in, c, 1, shift), ctbl[<<1, FALSE>>]))
dft4f(in, shift, c) ==
  store(c, shift, Forward(2, load(in, c, 2, shift), ctbl[<<2, FALSE>>]))
dft4b(in, shift, c) ==
  store(c, shift, Backward(2, load(in, c, 2, shift), ctbl[<<2, TRUE>>]))
dft8f(in, shift, c) ==
  store(c, shift, Forward(3, load(in, c, 3, shift), ctbl[<<3, FALSE>>]))
dft8b(in, shift, c) ==
  store(c, shift, Backward(3, load(in, c, 3, shift), ctbl[<<3, TRUE>>]))
dft16f(in, shift, c) ==
  store(c, shift, Forward(4, load(in, c, 4, shift), ctbl[<<4, FALSE>>]))
dft16b(in, shift, c) ==
  store(c, shift, Backward(4, load(in, c, 4, shift), ctbl[<<4, TRUE>>]))
dft32f(in, shift, c) ==
  store(c, shift, Forward(5, load(in, c, 5, shift), ctbl[<<5, FALSE>>]))
dft32b(in, shift, c) ==
  store(c, shift, Backward(5, load(in, c, 5, shift), ctbl[<<5, TRUE>>]))
dft64f(in, shift, c) ==
  store(c, shift, Forward(6, load(in, c, 6, shift), ctbl[<<6, FALSE>>]))
dft64b(in, shift, c) ==
  store(c, shift, Backward(6, load(in, c, 6, shift), ctbl[<<6, TRUE>>]))
dft128f(in, shift, c) ==
  store(c, shift, Forward(7, load(in, c, 7, shift), ctbl[<<7, FALSE>>]))
dft128b(in, shift, c) ==
  store(c, shift, Backward(7, load(in, c, 7, shift), ctbl[<<7, TRUE>>]))

-----------------------------------------------------------------------------
(* The kernels of the passes between *)

but2f(q, outShift, in, inShift, tbl, c) ==
  store(MovedBy(q, c), outShift,
        Forward(1, load(in, c, 1, inShift), Scalars(tbl, 1, outShift, c)))
but2b(q, outShift, in, inShift, tbl, c) ==
  store(MovedBy(q, c), outShift,
        Backward(1, load(in, c, 1, inShift), Scalars(tbl, 1, outShift, c)))
but4f(q, outShift, in, inShift, tbl, c) ==
  store(MovedBy(q, c), outShift,
        Forward(2, load(in, c, 2, inShift), Scalars(tbl, 2, outShift, c)))
but4b(q, outShift, in, inShift, tbl, c) ==
  store(MovedBy(q, c), outShift,
        Backward(2, load(in, c, 2, inShift), Scalars(tbl, 2, outShift, c)))
but8f(q, outShift, in, inShift, tbl, c) ==
  store(MovedBy(q, c), outShift,
        Forward(3, load(in, c, 3, inShift), Scalars(tbl, 3, outShift, c)))
but8b(q, outShift, in, inShift, tbl, c) ==
  store(MovedBy(q, c), outShift,
        Backward(3, load(in, c, 3, inShift), Scalars(tbl, 3, outShift, c)))
but16f(q, outShift, in, inShift, tbl, c) ==
  store(MovedBy(q, c), outShift,
        Forward(4, load(in, c, 4, inShift), Scalars(tbl, 4, outShift, c)))
but16b(q, outShift, in, inShift, tbl, c) ==
  store(MovedBy(q, c), outShift,
        Backward(4, load(in, c, 4, inShift), Scalars(tbl, 4, outShift, c)))
but32f(q, outShift, in, inShift, tbl, c) ==
  store(MovedBy(q, c), outShift,
        Forward(5, load(in, c, 5, inShift), Scalars(tbl, 5, outShift, c)))
but32b(q, outShift, in, inShift, tbl, c) ==
  store(MovedBy(q, c), outShift,
        Backward(5, load(in, c, 5, inShift), Scalars(tbl, 5, outShift, c)))
but64f(q, outShift, in, inShift, tbl, c) ==
  store(MovedBy(q, c), outShift,
        Forward(6, load(in, c, 6, inShift), Scalars(tbl, 6, outShift, c)))
but64b(q, outShift, in, inShift, tbl, c) ==
  store(MovedBy(q, c), outShift,
        Backward(6, load(in, c, 6, inShift), Scalars(tbl, 6, outShift, c)))
but128f(q, outShift, in, inShift, tbl, c) ==
  store(MovedBy(q, c), outShift,
        Forward(7, load(in, c, 7, inShift), Scalars(tbl, 7, outShift, c)))
but128b(q, outShift, in, inShift, tbl, c) ==
  store(MovedBy(q, c), outShift,
        Backward(7, load(in, c, 7, inShift), Scalars(tbl, 7, outShift, c)))

-----------------------------------------------------------------------------
(* The kernels of the first pass *)

tbut2f(q, in, inShift, tbl, c) ==
  scatter(q, 1, c, Forward(1, load(in, c, 1, inShift), Vectors(tbl, 1, c)))
tbut2b(q, in, inShift, tbl, c) ==
  scatter(q, 1, c, Backward(1, load(in, c, 1, inShift), Vectors(tbl, 1, c)))
tbut4f(q, in, inShift, tbl, c) ==
  scatter(q, 2, c, Forward(2, load(in, c, 2, inShift), Vectors(tbl, 2, c)))
tbut4b(q, in, inShift, tbl, c) ==
  scatter(q, 2, c, Backward(2, load(in, c, 2, inShift), Vectors(tbl, 2, c)))
tbut8f(q, in, inShift, tbl, c) ==
  scatter(q, 3, c, Forward(3, load(in, c, 3, inShift), Vectors(tbl, 3, c)))
tbut8b(q, in, inShift, tbl, c) ==
  scatter(q, 3, c, Backward(3, load(in, c, 3, inShift), Vectors(tbl, 3, c)))
tbut16f(q, in, inShift, tbl, c) ==
  scatter(q, 4, c, Forward(4, load(in, c, 4, inShift), Vectors(tbl, 4, c)))
tbut16b(q, in, inShift, tbl, c) ==
  scatter(q, 4, c, Backward(4, load(in, c, 4, inShift), Vectors(tbl, 4, c)))
tbut32f(q, in, inShift, tbl, c) ==
  scatter(q, 5, c, Forward(5, load(in, c, 5, inShift), Vectors(tbl, 5, c)))
tbut32b(q, in, inShift, tbl, c) ==
  scatter(q, 5, c, Backward(5, load(in, c, 5, inShift), Vectors(tbl, 5, c)))
tbut64f(q, in, inShift, tbl, c) ==
  scatter(q, 6, c, Forward(6, load(in, c, 6, inShift), Vectors(tbl, 6, c)))
tbut64b(q, in, inShift, tbl, c) ==
  scatter(q, 6, c, Backward(6, load(in, c, 6, inShift), Vectors(tbl, 6, c)))
tbut128f(q, in, inShift, tbl, c) ==
  scatter(q, 7, c, Forward(7, load(in, c, 7, inShift), Vectors(tbl, 7, c)))
tbut128b(q, in, inShift, tbl, c) ==
  scatter(q, 7, c, Backward(7, load(in, c, 7, inShift), Vectors(tbl, 7, c)))

-----------------------------------------------------------------------------
(* The kernels of the first pass that are compiled for one shift *)

tbut2f_s(SHIFT, q, in, tbl, c) ==
  scatter(q, 1, c,
          Forward(1, load(in, c, 1, SHIFT + W), Vectors(tbl, 1, c)))
tbut2b_s(SHIFT, q, in, tbl, c) ==
  scatter(q, 1, c,
          Backward(1, load(in, c, 1, SHIFT + W), Vectors(tbl, 1, c)))
tbut4f_s(SHIFT, q, in, tbl, c) ==
  scatter(q, 2, c,
          Forward(2, load(in, c, 2, SHIFT + W), Vectors(tbl, 2, c)))
tbut4b_s(SHIFT, q, in, tbl, c) ==
  scatter(q, 2, c,
          Backward(2, load(in, c, 2, SHIFT + W), Vectors(tbl, 2, c)))
tbut8f_s(SHIFT, q, in, tbl, c) ==
  scatter(q, 3, c,
          Forward(3, load(in, c, 3, SHIFT + W), Vectors(tbl, 3, c)))
tbut8b_s(SHIFT, q, in, tbl, c) ==
  scatter(q, 3, c,
          Backward(3, load(in, c, 3, SHIFT + W), Vectors(tbl, 3, c)))
tbut16f_s(SHIFT, q, in, tbl, c) ==
  scatter(q, 4, c,
          Forward(4, load(in, c, 4, SHIFT + W), Vectors(tbl, 4, c)))
tbut16b_s(SHIFT, q, in, tbl, c) ==
  scatter(q, 4, c,
          Backward(4, load(in, c, 4, SHIFT + W), Vectors(tbl, 4, c)))
tbut32f_s(SHIFT, q, in, tbl, c) ==
  scatter(q, 5, c,
          Forward(5, load(in, c, 5, SHIFT + W), Vectors(tbl, 5, c)))
tbut32b_s(SHIFT, q, in, tbl, c) ==
  scatter(q, 5, c,
          Backward(5, load(in, c, 5, SHIFT + W), Vectors(tbl, 5, c)))
tbut64f_s(SHIFT, q, in, tbl, c) ==
  scatter(q, 6, c,
          Forward(6, load(in, c, 6, SHIFT + W), Vectors(tbl, 6, c)))
tbut64b_s(SHIFT, q, in, tbl, c) ==
  scatter(q, 6, c,
          Backward(6, load(in, c, 6, SHIFT + W), Vectors(tbl, 6, c)))
tbut128f_s(SHIFT, q, in, tbl, c) ==
  scatter(q, 7, c,
          Forward(7, load(in, c, 7, SHIFT + W), Vectors(tbl, 7, c)))
tbut128b_s(SHIFT, q, in, tbl, c) ==
  scatter(q, 7, c,
          Backward(7, load(in, c, 7, SHIFT + W), Vectors(tbl, 7, c)))

-----------------------------------------------------------------------------
(* The tables of kernels that mkdispatch.c writes *)

DFTF(N, in, shift, c) ==
  CASE N = 1 -> dft2f(in, shift, c)
    [] N = 2 -> dft4f(in, shift, c)
    [] N = 3 -> dft8f(in, shift, c)
    [] N = 4 -> dft16f(in, shift, c)
    [] N = 5 -> dft32f(in, shift, c)
    [] N = 6 -> dft64f(in, shift, c)
    [] N = 7 -> dft128f(in, shift, c)
DFTB(N, in, shift, c) ==
  CASE N = 1 -> dft2f(in, shift, c)
    [] N = 2 -> dft4b(in, shift, c)
    [] N = 3 -> dft8b(in, shift, c)
    [] N = 4 -> dft16b(in, shift, c)
    [] N = 5 -> dft32b(in, shift, c)
    [] N = 6 -> dft64b(in, shift, c)
    [] N = 7 -> dft128b(in, shift, c)
TBUTF(N, q, in, inShift, tbl, c) ==
  CASE N = 1 -> tbut2f(q, in, inShift, tbl, c)
    [] N = 2 -> tbut4f(q, in, inShift, tbl, c)
    [] N = 3 -> tbut8f(q, in, inShift, tbl, c)
    [] N = 4 -> tbut16f(q, in, inShift, tbl, c)
    [] N = 5 -> tbut32f(q, in, inShift, tbl, c)
    [] N = 6 -> tbut64f(q, in, inShift, tbl, c)
    [] N = 7 -> tbut128f(q, in, inShift, tbl, c)
TBUTB(N, q, in, inShift, tbl, c) ==
  CASE N = 1 -> tbut2b(q, in, inShift, tbl, c)
    [] N = 2 -> tbut4b(q, in, inShift, tbl, c)
    [] N = 3 -> tbut8b(q, in, inShift, tbl, c)
    [] N = 4 -> tbut16b(q, in, inShift, tbl, c)
    [] N = 5 -> tbut32b(q, in, inShift, tbl, c)
    [] N = 6 -> tbut64b(q, in, inShift, tbl, c)
    [] N = 7 -> tbut128b(q, in, inShift, tbl, c)
TBUTFS(N, SHIFT, q, in, tbl, c) ==
  CASE N = 1 -> tbut2f_s(SHIFT, q, in, tbl, c)
    [] N = 2 -> tbut4f_s(SHIFT, q, in, tbl, c)
    [] N = 3 -> tbut8f_s(SHIFT, q, in, tbl, c)
    [] N = 4 -> tbut16f_s(SHIFT, q, in, tbl, c)
    [] N = 5 -> tbut32f_s(SHIFT, q, in, tbl, c)
    [] N = 6 -> tbut64f_s(SHIFT, q, in, tbl, c)
    [] N = 7 -> tbut128f_s(SHIFT, q, in, tbl, c)
TBUTBS(N, SHIFT, q, in, tbl, c) ==
  CASE N = 1 -> tbut2b_s(SHIFT, q, in, tbl, c)
    [] N = 2 -> tbut4b_s(SHIFT, q, in, tbl, c)
    [] N = 3 -> tbut8b_s(SHIFT, q, in, tbl, c)
    [] N = 4 -> tbut16b_s(SHIFT, q, in, tbl, c)
    [] N = 5 -> tbut32b_s(SHIFT, q, in, tbl, c)
    [] N = 6 -> tbut64b_s(SHIFT, q, in, tbl, c)
    [] N = 7 -> tbut128b_s(SHIFT, q, in, tbl, c)
BUTF(N, q, outShift, in, inShift, tbl, c) ==
  CASE N = 1 -> but2f(q, outShift, in, inShift, tbl, c)
    [] N = 2 -> but4f(q, outShift, in, inShift, tbl, c)
    [] N = 3 -> but8f(q, outShift, in, inShift, tbl, c)
    [] N = 4 -> but16f(q, outShift, in, inShift, tbl, c)
    [] N = 5 -> but32f(q, outShift, in, inShift, tbl, c)
    [] N = 6 -> but64f(q, outShift, in, inShift, tbl, c)
    [] N = 7 -> but128f(q, outShift, in, inShift, tbl, c)
BUTB(N, q, outShift, in, inShift, tbl, c) ==
  CASE N = 1 -> but2b(q, outShift, in, inShift, tbl, c)
    [] N = 2 -> but4b(q, outShift, in, inShift, tbl, c)
    [] N = 3 -> but8b(q, outShift, in, inShift, tbl, c)
    [] N = 4 -> but16b(q, outShift, in, inShift, tbl, c)
    [] N = 5 -> but32b(q, outShift, in, inShift, tbl, c)
    [] N = 6 -> but64b(q, outShift, in, inShift, tbl, c)
    [] N = 7 -> but128b(q, outShift, in, inShift, tbl, c)
=============================================================================
