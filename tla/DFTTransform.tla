----------------------------- MODULE DFTTransform -----------------------------
(***************************************************************************)
(* What a 1D plan computes: the tables, the permutations, the passes of    *)
(* butterfly kernels (Butterflies) that dispatch calls, and the passes for *)
(* real data, in exact arithmetic modulo Prime.                            *)
(***************************************************************************)
EXTENDS Butterflies

CONSTANTS
  MinShift, MaxShift,   \* MINSHIFT, MAXSHIFT: there are kernels for these shifts
  Plans,        \* plans to execute: length, vector width, mode bits, path
  FullInputs,   \* longest plan (log2) that is given every input,
  Samples       \* and where the input of the others is not zero

\* The path is a chain of passes the kernels can do (Executable of DFTPlanner).
\* A complex transform of length 1 is left out: it reads a second element.
IsPlan(p) ==
  /\ p.real \in BOOLEAN /\ p.backward \in BOOLEAN /\ p.alt \in BOOLEAN
  /\ p.alt => p.real
  /\ p.log2len \in (IF p.real THEN 0 ELSE 1)..(LogOrder-1)
  /\ p.log2len > 1 =>
       LET N(i) == p.path[i]
           Level(i) == FoldLeft(LAMBDA l, w : l - w, p.log2len,
                                SubSeq(p.path, 1, i - 1))
       IN
       /\ Len(p.path) >= 2 /\ 2 * p.log2vecwidth <= p.log2len
       /\ p.log2vecwidth <= N(1) /\ p.log2len - N(1) >= p.log2vecwidth
       /\ Level(Len(p.path) + 1) = 0
       /\ \A i \in 1..Len(p.path) : N(i) \in 1..MaxButWidth
       /\ \A i \in 2..Len(p.path) :
            /\ p.log2len - N(i) >= p.log2vecwidth
            /\ i < Len(p.path) => p.log2len - Level(i) >= p.log2vecwidth

ASSUME PlansAssumption ==
  \A p \in Plans : IsPlan(p)

ASSUME ShiftAssumption ==
  MinShift \in Nat /\ MaxShift \in Nat /\ 1 <= MinShift /\ MinShift <= MaxShift

VARIABLES
  input,   \* which value of the input is 1, while the others are 0
  buf,     \* the buffer lb: complex numbers <<re, im>>
  level,   \* the level the next pass starts from
  done     \* how many actions of the path are done, or -1 before REALSUB1

tvars == <<plan, input, buf, level, done>>

-----------------------------------------------------------------------------
(* The tables.  N: log2 of the width of a butterfly; L: log2len *)

\* i with its low bits cleared: i & (-1 << s)
Cleared(i, s) == (i \div 2^s) * 2^s

\* r2coefsc, srcoefsc: <<sine, cosine>> of an element's angle at a level
R2Coef(i, L, lv) ==
  LET a == Cleared(i, L - lv) % 2^L IN <<Sin(a, 2^(L-1)), Cos(a, 2^(L-1))>>
SrCoef(i, L, lv) ==
  LET a == (3 * Cleared(i, L - lv)) % 2^L
  IN  <<Sin(a, 2^(L-1)), Cos(a, 2^(L-1))>>

\* The bits of k < 2^nbits, reversed
Reversed(nbits, k) ==
  FoldLeft(LAMBDA r, j : 2 * r + ((k \div 2^(j-1)) % 2), 0,
           [j \in 1..nbits |-> j])

\* Mutant of UPerm: the bits of the passes done so far are reversed too
UPermReversed(nbits, k, s, d) ==
  LET r == Reversed(nbits, k) IN
  (r % 2^d) + ((((k \div 2^s) + Cleared(r, nbits - s)) * 2^d) % 2^nbits)

\* uperm: of the bits of k the low s stay, the next d - s are reversed and
\* go below, and the others go to the top.
UPerm(nbits, k, s, d) ==
  LET r == Reversed(nbits, k) IN
  ((r * 2^s + (k % 2^s)) % 2^d)
    + ((((k \div 2^s) + Cleared(r, nbits - s)) * 2^d) % 2^nbits)

\* The two twiddle factors of an element, as the kernels take them
Twiddles(a, L, lv) ==
  LET r == R2Coef(a, L, lv)  t == SrCoef(a, L, lv)
  IN  <<Mod(-r[1]), Mod(-r[2]), Mod(-t[1]), Mod(-t[2])>>

\* makeTableRecurse: p[j][i] is the place of element i after j levels.
RECURSIVE TableFrom(_, _, _, _, _, _, _, _)
TableFrom(p, L, lorg, linc, sign, top, bot, N) ==
  LET lv == lorg - linc
      bl == 2^(N - linc)
      TwiddlesAt(i) ==
        Twiddles(sign * Cleared(p[linc][i], L - lv), L, lv)
  IN
  IF linc >= N - 1 THEN <<>>
  ELSE IF bot - top > 4
  THEN FlattenSeq([b \in 1..((bot - top) \div bl) |->
         LET first == top + bl * (b - 1) IN
           FlattenSeq([i \in 1..(bl \div 4) |-> TwiddlesAt(first + i - 1)])
           \o TableFrom(p, L, lorg, linc + 1, sign, first, first + bl \div 2, N)
           \o TableFrom(p, L, lorg, linc + 2, sign, first + bl \div 2,
                        first + bl, N)])
  ELSE IF bot - top = 4 THEN TwiddlesAt(top)
  ELSE <<>>

\* Mutant of TableAt: the last factor has the sign of the others
TableAtSign(L, lv, N, sign) ==
  FlattenSeq([b \in 1..2^(lv-N) |->
    LET i0 == (b - 1) * 2^(L-lv)
        p == [j \in 0..N |-> [i \in 0..(2^N-1) |->
                UPerm(L, i0 + i * 2^(L-N), L - lv, L - (lv - j))]]
        sc == R2Coef(sign * Cleared(p[N-1][0], L - lv), L, lv - N + 1)
    IN  <<sc[2], sc[1]>> \o TableFrom(p, L, lv, 0, sign, 0, 2^N, N)])

\* makeTable at one level
TableAt(L, lv, N, sign) ==
  FlattenSeq([b \in 1..2^(lv-N) |->
    LET i0 == (b - 1) * 2^(L-lv)
        p == [j \in 0..N |-> [i \in 0..(2^N-1) |->
                UPerm(L, i0 + i * 2^(L-N), L - lv, L - (lv - j))]]
        sc == R2Coef(-sign * Cleared(p[N-1][0], L - lv), L, lv - N + 1)
    IN  <<sc[2], sc[1]>> \o TableFrom(p, L, lv, 0, sign, 0, 2^N, N)])

\* The table of the first pass, arranged in vectors of lanes: of K * lanes
\* numbers, number v * K + k becomes number k * lanes + v, written twice.
Interleaved(tbl, K, lanes) ==
  [x \in 1..Len(tbl) |->
     LET o == (x - 1) % (K * lanes) IN
     tbl[(x - 1) - o + (o % lanes) * K + (o \div lanes) + 1]]

\* rtCoef0 and rtCoef1, for the passes of real transforms of length 2^(L+1)
RtCoef0(i, L, backward) ==
  LET h == Mod(Half * Sin(-i, 2^L)) IN IF backward THEN Mod(Half + h)
                                       ELSE Mod(Half - h)
RtCoef1(i, L) == Mod(Half * Cos(-i, 2^L))

-----------------------------------------------------------------------------
(* The passes of the plan *)

L == plan.log2len
n == 2^L
Sign == IF plan.backward THEN -1 ELSE 1

\* The passes of a plan: width and level.  The constructor keeps the result
\* of makeTable for every one that may occur in tbl[N][level].
PassesOf(p) ==
  {<<p.path[i], p.log2len - FoldLeft(LAMBDA l, w : l + w, 0,
                                     SubSeq(p.path, 1, i - 1))>> :
     i \in DOMAIN p.path}
Tables ==
  [x \in UNION {{<<p.log2len, ps[1], ps[2], IF p.backward THEN -1 ELSE 1>> :
                   ps \in PassesOf(p)} : p \in Plans} |->
     TableAt(x[1], x[3], x[2], x[4])]
TableOf(lv, N) ==
  LET tbl == Tables[<<L, N, lv, Sign>>] IN
  IF lv = L THEN Interleaved(tbl, ConstK[N], 2^W) ELSE tbl

\* generatePerm: where each vector of columns goes
Perm(lv, N) ==
  [i \in 0..(2^(L-N-W) - 1) |-> 2 * UPerm(L, i * 2^W, L - lv, L - (lv - N))]

ColumnsOf(N) == 0..(2^(L-N) - 1)

\* dispatch chooses the kernel, here for column c of the input in.
Dispatched(in, c, lv, N, tbl, perm) ==
  LET shift == L - N - W IN
  IF lv = N
  THEN IF ~plan.backward THEN DFTF(N, in, L - N, c) ELSE DFTB(N, in, L - N, c)
  ELSE IF lv = L
  THEN IF MinShift <= shift /\ shift < MaxShift
       THEN IF ~plan.backward THEN TBUTFS(N, shift, perm, in, tbl, c)
            ELSE TBUTBS(N, shift, perm, in, tbl, c)
       ELSE IF ~plan.backward THEN TBUTF(N, perm, in, L - N, tbl, c)
       ELSE TBUTB(N, perm, in, L - N, tbl, c)
  ELSE IF ~plan.backward THEN BUTF(N, perm, L - lv, in, L - N, tbl, c)
  ELSE BUTB(N, perm, L - lv, in, L - N, tbl, c)

\* What a cell holds that no column wrote
Unwritten == <<-1, -1>>

\* One pass over the buffer: what the columns from first to last write
RECURSIVE Gathered(_, _, _, _, _, _, _)
Gathered(in, first, last, lv, N, tbl, perm) ==
  IF first = last THEN Dispatched(in, first, lv, N, tbl, perm)
  ELSE LET mid == (first + last) \div 2 IN
       Gathered(in, first, mid, lv, N, tbl, perm)
         @@ Gathered(in, mid + 1, last, lv, N, tbl, perm)
Passed(in, lv, N) ==
  LET out == Gathered(in, 0, 2^(L-N) - 1, lv, N,
                      IF lv = N THEN <<>> ELSE TableOf(lv, N),
                      IF lv = N THEN <<>> ELSE Perm(lv, N))
  IN  [x \in 0..n |-> IF x \in DOMAIN out THEN out[x] ELSE Unwritten]

\* realSub0: from the transform of packed real data to that of the data
RealSub0(s) ==
  [x \in 0..n |->
    LET k == IF x < n - x THEN x ELSE n - x
        tr == s[k][1] - s[n-k][1]    ti == s[k][2] + s[n-k][2]
        ur == RtCoef0(k, L, plan.backward)    ui == RtCoef1(k, L)
        m == <<ti * ui - tr * ur, tr * ui + ti * ur>>
    IN  IF x = 0 THEN <<Mod(s[0][1] + s[0][2]), Mod(s[0][1] - s[0][2])>>
        ELSE IF x = n \/ 2 * x = n THEN s[x]
        ELSE IF x = k THEN <<Mod(s[x][1] + m[1]), Mod(s[x][2] - m[2])>>
        ELSE <<Mod(s[x][1] - m[1]), Mod(s[x][2] - m[2])>>]

\* realSub1: the way back; not in the alternative packing the values are
\* doubled, and the last one is read from its own place.
RealSub1(s) ==
  LET c == IF plan.alt THEN 1 ELSE 2
      last == IF plan.alt THEN s[0][2] ELSE s[n][1]
  IN
  [x \in 0..n |->
    LET k == IF x < n - x THEN x ELSE n - x
        tr == s[k][1] - s[n-k][1]    ti == s[k][2] + s[n-k][2]
        ur == RtCoef0(k, L, plan.backward)    ui == RtCoef1(k, L)
        m == <<ti * ui - tr * ur, tr * ui + ti * ur>>
    IN  IF x = 0 THEN Scaled(<<s[0][1] + last, s[0][1] - last>>, Half * c)
        ELSE IF x = n THEN s[x]
        ELSE IF 2 * x = n THEN Scaled(s[x], c)
        ELSE IF x = k THEN Scaled(<<s[n-x][1] - m[1], m[2] - s[n-x][2]>>, c)
        ELSE Scaled(<<m[1] + s[k][1], m[2] - s[k][2]>>, c)]

\* A real transform is preceded by REALSUB1 or followed by REALSUB0.
Pre(p)  == p.log2len > 1 /\ p.real /\ p.backward # p.alt
Post(p) == p.log2len > 1 /\ p.real /\ (~p.backward) # p.alt

\* The transforms of length 1 and 2, in execute itself: s[0], ..., s[5] of
\* the code are s[0][1], ..., s[2][2].
ShortComplex(s) == <<Plus(s[0], s[1]), Minus(s[0], s[1])>>
ShortReal1(s) ==
  LET s0 == s[0][1]  s1 == s[0][2]  s2 == s[1][1] IN
  IF ~plan.alt
  THEN IF ~plan.backward THEN <<<<s0 + s1, 0>>, <<s0 - s1, 0>>>>
       ELSE <<<<s0 + s2, s0 - s2>>>>
  ELSE <<Scaled(<<s0 + s1, s0 - s1>>, IF plan.backward THEN Half ELSE 1)>>
ShortReal2(s) ==
  LET s0 == s[0][1]  s1 == s[0][2]  s2 == s[1][1]  s3 == s[1][2]
      s4 == s[2][1]
      Half2(x) == Mod(Half * x)
  IN
  IF ~plan.alt
  THEN IF ~plan.backward
       THEN <<<<s0 + s2 + s1 + s3, 0>>, <<s0 - s2, s3 - s1>>,
              <<s0 + s2 - (s1 + s3), 0>>>>
       ELSE <<Scaled(<<Half2(s0 + s4) + s2, Half2(s0 - s4) - s3>>, 2),
              Scaled(<<Half2(s0 + s4) - s2, Half2(s0 - s4) + s3>>, 2)>>
  ELSE IF ~plan.backward
       THEN <<<<s0 + s2 + s1 + s3, s0 + s2 - (s1 + s3)>>, <<s0 - s2, s1 - s3>>>>
       ELSE <<<<Half2(s0 + s1) + s2, Half2(s0 - s1) + s3>>,
              <<Half2(s0 + s1) - s2, Half2(s0 - s1) - s3>>>>
ShortResult(s) ==
  LET r == IF ~plan.real THEN ShortComplex(s)
           ELSE IF L = 1 THEN ShortReal2(s) ELSE ShortReal1(s)
  IN  [x \in 0..n |-> IF x < Len(r) THEN <<Mod(r[x+1][1]), Mod(r[x+1][2])>>
                      ELSE s[x]]

-----------------------------------------------------------------------------
\* The direction the application asked for: the constructor turns it for
\* alternative real transforms.
Requested(p) == IF p.alt /\ p.log2len > 1 THEN ~p.backward ELSE p.backward

\* Where the input may hold values: <<index, part>>
Inputs(p) ==
  LET m == 2^p.log2len IN
  IF p.log2len > FullInputs THEN Samples \X {1, 2}
  ELSE IF p.real /\ Requested(p) /\ ~p.alt
  THEN ((0..m) \X {1}) \cup ((1..(m-1)) \X {2})
  ELSE (0..(m-1)) \X {1, 2}

Init ==
  /\ plan \in Plans
  /\ input \in Inputs(plan)
  /\ buf = [x \in 0..(2^plan.log2len) |->
              IF x # input[1] THEN Zero
              ELSE IF input[2] = 1 THEN <<1, 0>> ELSE <<0, 1>>]
  /\ level = plan.log2len
  /\ done = IF Pre(plan) THEN -1 ELSE 0

\* REALSUB1, and the correction of execute for data not packed
BeforePasses ==
  /\ done = -1
  /\ buf' = LET d == RealSub1(buf) IN
            IF plan.alt THEN d
            ELSE [d EXCEPT ![n \div 2][2] = Mod(-2 * buf[n \div 2][2])]
  /\ done' = 0
  /\ UNCHANGED <<plan, input, level>>

Pass ==
  /\ L > 1 /\ done \in 0..(Len(plan.path) - 1)
  /\ LET N == plan.path[done + 1] IN
       buf' = Passed(buf, level, N) /\ level' = level - N
  /\ done' = done + 1
  /\ UNCHANGED <<plan, input>>

\* REALSUB0, and the places of the values not packed
AfterPasses ==
  /\ Post(plan) /\ done = Len(plan.path)
  /\ buf' = LET d == RealSub0(buf) IN
            IF plan.alt THEN d
            ELSE [d EXCEPT ![n \div 2][2] = Mod(-d[n \div 2][2]),
                           ![n] = <<d[0][2], 0>>, ![0][2] = 0]
  /\ done' = done + 1
  /\ UNCHANGED <<plan, input, level>>

Short ==
  /\ L <= 1 /\ done = 0
  /\ buf' = ShortResult(buf)
  /\ done' = 1
  /\ UNCHANGED <<plan, input, level>>

Next == BeforePasses \/ Pass \/ AfterPasses \/ Short

Spec == Init /\ [][Next]_tvars

-----------------------------------------------------------------------------
(* The definition of the transforms, from naivetest.c *)

\* omega(m, kt), and what forward and backward sum up to in place k, for the
\* terms that are not zero: pairs of a place and a value
Omega(m, kt) == <<Cos(-2 * kt, m), Sin(-2 * kt, m)>>
Naive(terms, m, backward, k) ==
  FoldSet(LAMBDA t, sum :
            LET w == Omega(m, (IF backward THEN -1 ELSE 1) * t[1] * k)
            IN  Plus(sum, Rotated(t[2], w[1], w[2])),
          Zero, terms)

Unit == IF input[2] = 1 THEN <<1, 0>> ELSE <<0, 1>>

\* A spectrum of real data: place m - i holds the conjugate of place i.
Hermitian(i) ==
  IF i = 0 \/ i = n THEN {<<i, <<1, 0>>>>}
  ELSE {<<i, Unit>>, <<2 * n - i, <<Unit[1], -Unit[2]>>>>}

\* check_cf, check_cb, check_rf, check_arf, check_rb and check_arb: what
\* place k of the output must hold
Expected(k) ==
  LET t == 2 * input[1] + input[2] - 1
      RealIn(b, j) == Naive({<<t, <<1, 0>>>>}, 2 * n, b, j)
      RealOut(b, i) == <<Naive(Hermitian(i), 2 * n, b, 2 * k)[1],
                         Naive(Hermitian(i), 2 * n, b, 2 * k + 1)[1]>>
      \* the alternative packing keeps the last value beside the first
      packed == IF input = <<0, 2>> THEN n ELSE input[1]
  IN
  IF ~plan.real THEN Naive({<<input[1], Unit>>}, n, plan.backward, k)
  ELSE IF ~Requested(plan)
  THEN IF ~plan.alt THEN RealIn(FALSE, k)
       ELSE IF k = 0 THEN <<RealIn(TRUE, 0)[1], RealIn(TRUE, n)[1]>>
       ELSE RealIn(TRUE, k)
  ELSE IF ~plan.alt THEN RealOut(TRUE, input[1])
  ELSE Scaled(RealOut(FALSE, packed), Half)

OutputCells ==
  0..(IF plan.real /\ ~plan.alt /\ ~plan.backward THEN n ELSE n - 1)

Finished == done = IF L <= 1 THEN 1
                   ELSE Len(plan.path) + (IF Post(plan) THEN 1 ELSE 0)

\* Whatever chain of passes the planner chose, with whatever vectors, execute
\* computes the transform of naivetest.c, for every plan that may be made.
ComputesDFT == Finished => \A k \in OutputCells : buf[k] = Expected(k)

PassDone == L > 1 /\ done \in 1..Len(plan.path)
NextN == plan.path[done + 1]
PassNext == L > 1 /\ done \in 0..(Len(plan.path) - 1)

\* A pass writes every element of its output: the tables that generatePerm
\* made are permutations, as it writes as many results as there are elements.
EachCellOnce == PassDone => \A k \in 0..(n-1) : buf[k] # Unwritten

\* makeTable fills the memory that is allocated for a table.
TablesExact ==
  PassNext /\ level # NextN =>
    Len(TableOf(level, NextN)) = ConstK[NextN] * 2^(level - NextN)

\* The tables of a plan fit its passes, the ones that place the elements and
\* the ones that hold the coefficients.
TablesSound == EachCellOnce /\ TablesExact
=============================================================================
