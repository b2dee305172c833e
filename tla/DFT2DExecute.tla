---------------------------- MODULE DFT2DExecute ----------------------------
(***************************************************************************)
(* The execution of a 2D plan (SleefDFT2DXX::execute): transform the rows  *)
(* into tBuf, transpose into d, transform the rows into tBuf, transpose    *)
(* into d.  With several threads each step is an OpenMP loop that ends in  *)
(* a barrier.  The 1D transform of a row is DFTExecute's; here it is one   *)
(* read and one write of a row, with other threads in between.             *)
(***************************************************************************)
EXTENDS Integers

CONSTANTS
  Worker,  \* threads of the team
  Main,    \* the thread that calls execute
  Sizes,   \* log2vlen and log2hlen of the plans
  Log2BS   \* LOG2BS: blocks of the transposition (4)

ASSUME ExecuteAssumption ==
  /\ Main \in Worker /\ Log2BS \in Nat
  /\ \A z \in Sizes : z.v \in Nat /\ z.h \in Nat
\* 1 << n is positive (arithmetic: a fact about ^ on Nat, not about the code).
ASSUME PowerAssumption ==
  /\ 2^Log2BS \in Nat \ {0}
  /\ \A z \in Sizes : 2^z.v \in Nat \ {0} /\ 2^z.h \in Nat \ {0}

VARIABLES
  size, inPlace2D, mt,  \* the plan, whether s0 = d0, which branch is taken
  s, tBuf, d,           \* buffers, by index of complex element
  phase,                \* the loop that is executed, 1..4, or 5 on return
  todo,                 \* its iterations that no thread has begun
  at, row               \* at[w]: the iteration of w or Idle; what it has read

matrixvars == <<size, inPlace2D, mt, s, tBuf, d, phase, todo, at, row>>

Idle == -1
VLen == 2^size.v
HLen == 2^size.h
Index == 0..(VLen*HLen-1)

\* Element x of row y, with the rows and the columns transformed or not
Elem(y, x, h, v) == [y |-> y, x |-> x, h |-> h, v |-> v]
Garbage == [y |-> -1, x |-> -1, h |-> FALSE, v |-> FALSE]
Matrix(h, v) == [k \in Index |-> Elem(k \div HLen, k % HLen, h, v)]

\* The 1D transform of a row, if it is all of a row or column, in order
Transformed(r) ==
  LET n == DOMAIN r
      Done(h, v) == [k \in n |-> Elem(r[k].y, r[k].x, h, v)]
  IN  IF \A k \in n : r[k] = Elem(r[0].y, k, FALSE, FALSE)
      THEN Done(TRUE, FALSE)
      ELSE IF \A k \in n : r[k] = Elem(k, r[0].x, TRUE, FALSE)
      THEN Done(TRUE, TRUE)
      ELSE [k \in n |-> Garbage]

IsRows == phase \in {1, 3}

\* What the loop goes over: vlen rows of hlen elements or the reverse
Rows == IF phase \in {1, 2} THEN VLen ELSE HLen
Cols == IF phase \in {1, 2} THEN HLen ELSE VLen

\* transpose works on blocks unless the matrix is too small.
Blocked == size.v >= Log2BS /\ size.h >= Log2BS
BS == 2^Log2BS

\* The iterations of loop p; a small transposition is one piece of work.
Iterations(p) ==
  LET n == IF p \in {1, 2} THEN VLen ELSE HLen IN
  IF p \in {1, 3} THEN 0..(n-1)
  ELSE IF Blocked THEN {y \in 0..(n-1) : y % BS = 0} ELSE {0}

\* The rows that iteration k reads
Band(k) == IF IsRows THEN {k} ELSE IF Blocked THEN k..(k+BS-1) ELSE 0..(Rows-1)

ReadSet(k) == {j \in Index : j \div Cols \in Band(k)}

\* Rows are written where they were; a band of rows becomes one of columns.
WriteSet(k) ==
  IF IsRows THEN ReadSet(k) ELSE {j \in Index : j % Rows \in Band(k)}

\* Mutant of SrcName: the first loop works on the output, as the third does
SrcNameOutput == IF IsRows THEN "d" ELSE "tBuf"

\* Buffers are told by name: s0 and d0 may be the same.
SrcName ==
  IF IsRows THEN IF phase = 1 /\ ~inPlace2D THEN "s" ELSE "d" ELSE "tBuf"

\* Mutant of DstName: what is in tBuf is transposed there
DstNameScratch == "tBuf"

DstName == IF IsRows THEN "tBuf" ELSE "d"
Src == IF SrcName = "s" THEN s ELSE IF SrcName = "d" THEN d ELSE tBuf

\* What iteration at[w] writes at index j
Produced(w, j) ==
  IF IsRows
  THEN LET base == at[w] * Cols IN
       Transformed([k \in 0..(Cols-1) |-> row[w][base + k]])[j - base]
  ELSE row[w][(j % Rows) * Cols + j \div Rows]

Stored(w, buf) ==
  [j \in Index |-> IF j \in WriteSet(at[w]) THEN Produced(w, j) ELSE buf[j]]

\* Loops of one thread: plans without MT, and small transpositions
Serial == ~mt \/ (~IsRows /\ ~Blocked)
-----------------------------------------------------------------------------
\* Which branch execute takes: MT2D, and planMT or, in debug mode, a random bit
MatrixInit ==
  /\ size \in Sizes /\ inPlace2D \in BOOLEAN /\ mt \in BOOLEAN
  /\ s = IF inPlace2D THEN [j \in Index |-> Garbage] ELSE Matrix(FALSE, FALSE)
  /\ d = IF inPlace2D THEN Matrix(FALSE, FALSE) ELSE [j \in Index |-> Garbage]
  /\ tBuf = [j \in Index |-> Garbage]
  /\ phase = 1 /\ todo = Iterations(1)
  /\ at = [w \in Worker |-> Idle] /\ row = [w \in Worker |-> <<>>]

\* Thread w begins iteration k and reads.
BeginIteration(w, k) ==
  /\ at[w] = Idle /\ k \in todo
  /\ Serial => w = Main /\ \A j \in todo : k <= j
  /\ todo' = todo \ {k}
  /\ at' = [at EXCEPT ![w] = k]
  /\ row' = [row EXCEPT ![w] = [j \in ReadSet(k) |-> Src[j]]]
  /\ UNCHANGED <<size, inPlace2D, mt, s, tBuf, d, phase>>

\* It writes the result.
End(w) ==
  /\ at[w] # Idle
  /\ tBuf' = IF DstName = "tBuf" THEN Stored(w, tBuf) ELSE tBuf
  /\ d' = IF DstName = "d" THEN Stored(w, d) ELSE d
  /\ at' = [at EXCEPT ![w] = Idle] /\ row' = [row EXCEPT ![w] = <<>>]
  /\ UNCHANGED <<size, inPlace2D, mt, s, phase, todo>>

\* Mutant of Barrier: the loops are nowait
BarrierNoWait ==
  /\ phase <= 4 /\ todo = {} /\ at[Main] = Idle
  /\ phase' = phase + 1
  /\ todo' = IF phase < 4 THEN Iterations(phase + 1) ELSE {}
  /\ UNCHANGED <<size, inPlace2D, mt, s, tBuf, d, at, row>>

\* The end of a parallel loop: all iterations are done.
Barrier ==
  /\ phase <= 4 /\ todo = {} /\ \A w \in Worker : at[w] = Idle
  /\ phase' = phase + 1
  /\ todo' = IF phase < 4 THEN Iterations(phase + 1) ELSE {}
  /\ UNCHANGED <<size, inPlace2D, mt, s, tBuf, d, at, row>>

MatrixNext ==
  \/ Barrier
  \/ \E w \in Worker : End(w) \/ \E k \in todo : BeginIteration(w, k)

MatrixSpec == MatrixInit /\ [][MatrixNext]_matrixvars
-----------------------------------------------------------------------------
Content == [y : Int, x : Int, h : BOOLEAN, v : BOOLEAN]

MatrixTypeOK ==
  /\ size \in Sizes /\ inPlace2D \in BOOLEAN /\ mt \in BOOLEAN
  /\ s \in [Index -> Content] /\ d \in [Index -> Content]
  /\ tBuf \in [Index -> Content]
  /\ phase \in 1..5 /\ todo \subseteq Nat
  /\ at \in [Worker -> Nat \cup {Idle}]
  /\ \A w \in Worker : at[w] # Idle => DOMAIN row[w] = ReadSet(at[w])

\* On return d holds the transform of all rows and columns at its place, for
\* square and other sizes, in place or not, with one thread or several.
Result == phase = 5 => d = Matrix(TRUE, TRUE)

\* What the iteration of w under way reads and writes, by buffer and index
Reads(w) == {SrcName} \X ReadSet(at[w])
Writes(w) == {DstName} \X WriteSet(at[w])

\* No thread writes an element that another reads or writes in the same loop.
RaceFree ==
  \A v, w \in Worker :
    v # w /\ at[v] # Idle /\ at[w] # Idle =>
      Writes(v) \cap (Reads(w) \cup Writes(w)) = {}
=============================================================================
