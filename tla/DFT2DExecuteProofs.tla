------------------------- MODULE DFT2DExecuteProofs -------------------------
(***************************************************************************)
(* The 2D transform for every size, block size and team: no thread writes  *)
(* what another one reads or writes, and on return all rows and columns    *)
(* are transformed and at their place.                                     *)
(***************************************************************************)
EXTENDS DFT2DExecute, TLAPS

(* Rows, columns and indices *)

\* Multiplication keeps the order.
LEMMA Monotone ==
  ASSUME NEW a \in Int, NEW b \in Int, a <= b, NEW n \in Nat
  PROVE  a * n <= b * n
<1>1. (b - a) * n >= 0  OBVIOUS
<1> QED  BY <1>1

\* The row and the column of index j
LEMMA RowCol ==
  ASSUME NEW n \in Nat \ {0}, NEW j \in Nat
  PROVE  /\ j \div n \in Nat /\ j % n \in 0..(n-1)
         /\ j = (j \div n) * n + (j % n)
<1>1. j \div n \in Int /\ j % n \in 0..(n-1)  OBVIOUS
<1>2. j = n * (j \div n) + (j % n)  OBVIOUS
<1>3. n * (j \div n) = (j \div n) * n  BY <1>1
<1>4. CASE j \div n < 0
  <2>1. (j \div n) * n <= (-1) * n  BY <1>1, <1>4, Monotone
  <2> QED  BY <1>1, <1>2, <1>3, <2>1
<1> QED  BY <1>1, <1>2, <1>3, <1>4

\* The index of row k and column i
LEMMA IndexOf ==
  ASSUME NEW n \in Nat \ {0}, NEW k \in Nat, NEW i \in 0..(n-1)
  PROVE  /\ k * n + i \in Nat
         /\ (k * n + i) \div n = k
         /\ (k * n + i) % n = i
<1>0. k * n \in Nat  OBVIOUS
<1> PICK j \in Nat : j = k * n + i  BY <1>0
<1> PICK q \in Nat : q = j \div n  BY RowCol
<1> PICK r \in 0..(n-1) : r = j % n  BY RowCol
<1>1. q * n + r = k * n + i  BY RowCol
<1>2. CASE q < k
  <2>1. (q + 1) * n <= k * n  BY <1>2, Monotone
  <2> QED  BY <1>0, <1>1, <2>1
<1>3. CASE q > k
  <2>1. (k + 1) * n <= q * n  BY <1>3, Monotone
  <2> QED  BY <1>0, <1>1, <2>1
<1> QED  BY <1>0, <1>1, <1>2, <1>3

\* A row and a column of the matrix give an index of it,
LEMMA InMatrix ==
  ASSUME NEW m \in Nat, NEW n \in Nat, NEW y \in 0..(m-1), NEW x \in 0..(n-1)
  PROVE  y * n + x \in 0..(m*n-1)
<1>1. (y + 1) * n <= m * n  BY Monotone
<1>2. y * n \in Nat  OBVIOUS
<1> QED  BY <1>1, <1>2

\* and an index a row and a column.
LEMMA OfMatrix ==
  ASSUME NEW m \in Nat, NEW n \in Nat \ {0}, NEW j \in 0..(m*n-1)
  PROVE  /\ j \in Nat /\ j \div n \in 0..(m-1) /\ j % n \in 0..(n-1)
<1> PICK p \in Nat : p = m * n  OBVIOUS
<1>1. j \in Nat  OBVIOUS
<1> PICK q \in Nat : q = j \div n  BY <1>1, RowCol
<1> PICK r \in 0..(n-1) : r = j % n  BY <1>1, RowCol
<1>2. j = q * n + r  BY <1>1, RowCol
<1>3. CASE q >= m
  <2>1. m * n <= q * n  BY <1>3, Monotone
  <2> QED  BY <1>2, <2>1
<1> QED  BY <1>1, <1>3

\* Each number is in a block of b,
LEMMA InBlock ==
  ASSUME NEW b \in Nat \ {0}, NEW y \in Nat
  PROVE  \E k \in 0..y : k % b = 0 /\ y \in k..(k+b-1)
<1> PICK q \in Nat : q = y \div b  BY RowCol
<1> PICK r \in 0..(b-1) : r = y % b  BY RowCol
<1> PICK k \in Nat : k = q * b  OBVIOUS
<1>1. y = k + r  BY RowCol
<1>2. 0 \in 0..(b-1)  OBVIOUS
<1>3. (q * b + 0) % b = 0  BY <1>2, IndexOf
<1>4. q * b + 0 = k  OBVIOUS
<1>5. k % b = 0  BY <1>3, <1>4
<1>6. k \in 0..y /\ y \in k..(k+b-1)  BY <1>1
<1> QED  BY <1>5, <1>6

\* and in no other.
LEMMA OneBlock ==
  ASSUME NEW b \in Nat \ {0}, NEW k \in Nat, NEW l \in Nat,
         k % b = 0, l % b = 0, NEW y \in k..(k+b-1), y \in l..(l+b-1)
  PROVE  k = l
<1> PICK q \in Nat : q = k \div b  BY RowCol
<1> PICK r \in Nat : r = l \div b  BY RowCol
<1>1. k = q * b /\ l = r * b  BY RowCol
<1>2. CASE q < r
  <2>1. (q + 1) * b <= r * b  BY <1>2, Monotone
  <2>2. (q + 1) * b = k + b  BY <1>1
  <2> QED  BY <1>1, <2>1, <2>2
<1>3. CASE r < q
  <2>1. (r + 1) * b <= q * b  BY <1>3, Monotone
  <2>2. (r + 1) * b = l + b  BY <1>1
  <2> QED  BY <1>1, <2>1, <2>2
<1> QED  BY <1>1, <1>2, <1>3

-----------------------------------------------------------------------------
(* What is in the buffers *)

\* The transposed matrix
Turned(v) == [j \in Index |-> Elem(j % VLen, j \div VLen, TRUE, v)]

\* What loop p reads, and what the last one leaves
Stage(p) ==
  IF p = 1 THEN Matrix(FALSE, FALSE)
  ELSE IF p = 2 THEN Matrix(TRUE, FALSE)
  ELSE IF p = 3 THEN Turned(FALSE)
  ELSE IF p = 4 THEN Turned(TRUE) ELSE Matrix(TRUE, TRUE)

Dst == IF DstName = "tBuf" THEN tBuf ELSE d

\* Each iteration is to do, in the hands of one thread, or done.
Shared ==
  /\ phase \in 1..4 => todo \subseteq Iterations(phase)
  /\ phase = 5 => todo = {}
  /\ DOMAIN row = Worker
  /\ \A w \in Worker : at[w] # Idle =>
       phase \in 1..4 /\ at[w] \in Iterations(phase) /\ at[w] \notin todo
  /\ \A v, w \in Worker : v # w /\ at[v] # Idle => at[v] # at[w]

\* Nobody is going to write element j.
Settled(j) ==
  /\ \A k \in todo : j \notin WriteSet(k)
  /\ \A w \in Worker : at[w] # Idle => j \notin WriteSet(at[w])

\* What is read stays, and what is written is right.
Buffers ==
  /\ phase \in 1..4 =>
       /\ Src = Stage(phase)
       /\ \A j \in Index : Settled(j) => Dst[j] = Stage(phase + 1)[j]
  /\ phase = 5 => d = Stage(5)
  /\ \A w \in Worker : at[w] # Idle =>
       row[w] = [j \in ReadSet(at[w]) |-> Stage(phase)[j]]

IInv == MatrixTypeOK /\ Shared /\ Buffers

-----------------------------------------------------------------------------
(* What an iteration reads and writes *)

\* The sizes of matrix and blocks
LEMMA SizesAre ==
  ASSUME size \in Sizes
  PROVE  /\ VLen \in Nat \ {0} /\ HLen \in Nat \ {0} /\ BS \in Nat \ {0}
         /\ Rows \in Nat \ {0} /\ Cols \in Nat \ {0}
         /\ VLen * HLen = Rows * Cols /\ Index \subseteq Nat
<1>1. VLen \in Nat \ {0} /\ HLen \in Nat \ {0} /\ BS \in Nat \ {0}
  BY PowerAssumption DEF VLen, HLen, BS
<1>2. VLen * HLen = HLen * VLen /\ VLen * HLen \in Nat  BY <1>1
<1>3. Index \subseteq Nat  BY <1>2 DEF Index
<1> QED  BY <1>1, <1>2, <1>3 DEF Rows, Cols

\* Each index is one of a row and a column of what the loop goes over.
LEMMA Places ==
  ASSUME size \in Sizes, NEW j \in Index
  PROVE  /\ j \div Cols \in 0..(Rows-1) /\ j % Cols \in 0..(Cols-1)
         /\ j % Rows \in 0..(Rows-1) /\ j \div Rows \in 0..(Cols-1)
         /\ j = (j \div Cols) * Cols + (j % Cols)
<1> PICK m \in Nat \ {0} : m = Rows  BY SizesAre
<1> PICK n \in Nat \ {0} : n = Cols  BY SizesAre
<1>1. m * n = n * m  OBVIOUS
<1>2. j \in 0..(m*n-1) /\ j \in 0..(n*m-1)  BY <1>1, SizesAre DEF Index
<1>3. j \in Nat /\ j \div n \in 0..(m-1) /\ j % n \in 0..(n-1)
  BY <1>2, OfMatrix
<1>4. j \div m \in 0..(n-1) /\ j % m \in 0..(m-1)  BY <1>2, OfMatrix
<1>5. j = (j \div n) * n + (j % n)  BY <1>3, RowCol
<1> QED  BY <1>3, <1>4, <1>5

\* Element i of row k
LEMMA RowElement ==
  ASSUME size \in Sizes, NEW k \in 0..(Rows-1), NEW i \in 0..(Cols-1)
  PROVE  /\ k * Cols + i \in Index
         /\ (k * Cols + i) \div Cols = k
         /\ (k * Cols + i) % Cols = i
<1> PICK m \in Nat \ {0} : m = Rows  BY SizesAre
<1> PICK n \in Nat \ {0} : n = Cols  BY SizesAre
<1>1. k * n + i \in 0..(m*n-1)  BY InMatrix
<1>2. (k * n + i) \div n = k /\ (k * n + i) % n = i  BY IndexOf
<1> QED  BY <1>1, <1>2, SizesAre DEF Index

\* The iterations of a loop
LEMMA IterationsAre ==
  ASSUME size \in Sizes, phase \in 1..4
  PROVE  /\ IsRows => Iterations(phase) = 0..(Rows-1)
         /\ ~IsRows /\ Blocked =>
              Iterations(phase) = {y \in 0..(Rows-1) : y % BS = 0}
         /\ ~IsRows /\ ~Blocked => Iterations(phase) = {0}
         /\ Iterations(phase) \subseteq 0..(Rows-1)
<1>1. /\ IsRows => Iterations(phase) = 0..(Rows-1)
      /\ ~IsRows /\ Blocked =>
           Iterations(phase) = {y \in 0..(Rows-1) : y % BS = 0}
      /\ ~IsRows /\ ~Blocked => Iterations(phase) = {0}
  BY DEF Iterations, IsRows, Rows
<1>2. 0 \in 0..(Rows-1)  BY SizesAre
<1> QED  BY <1>1, <1>2

\* Every element is written by some iteration.
LEMMA Cover ==
  ASSUME size \in Sizes, phase \in 1..4, NEW j \in Index
  PROVE  \E k \in Iterations(phase) : j \in WriteSet(k)
<1>1. CASE IsRows
  <2>1. j \in WriteSet(j \div Cols)
    BY <1>1, Places DEF WriteSet, ReadSet, Band
  <2> QED  BY <1>1, <2>1, Places, IterationsAre
<1>2. CASE ~IsRows /\ Blocked
  <2> PICK y \in 0..(Rows-1) : y = j % Rows  BY Places
  <2>1. y \in Nat /\ Rows \in Nat  BY SizesAre
  <2>2. PICK k \in 0..y : k % BS = 0 /\ y \in k..(k+BS-1)
    BY <2>1, SizesAre, InBlock
  <2>3. k \in Iterations(phase)  BY <1>2, <2>1, <2>2, IterationsAre
  <2>4. j \in WriteSet(k)  BY <1>2, <2>2 DEF WriteSet, Band
  <2> QED  BY <2>3, <2>4
<1>3. CASE ~IsRows /\ ~Blocked
  <2>1. j \in WriteSet(0)  BY <1>3, Places DEF WriteSet, Band
  <2> QED  BY <1>3, <2>1, IterationsAre
<1> QED  BY <1>1, <1>2, <1>3

\* And by no other.
LEMMA Disjoint ==
  ASSUME size \in Sizes, phase \in 1..4, NEW k \in Iterations(phase),
         NEW l \in Iterations(phase), k # l
  PROVE  WriteSet(k) \cap WriteSet(l) = {}
<1> SUFFICES ASSUME NEW j \in Index, j \in WriteSet(k), j \in WriteSet(l)
             PROVE  FALSE
  BY DEF WriteSet, ReadSet
<1>1. CASE IsRows
  BY <1>1 DEF WriteSet, ReadSet, Band
<1>2. CASE ~IsRows /\ Blocked
  <2>1. k \in Nat /\ l \in Nat /\ k % BS = 0 /\ l % BS = 0
    BY <1>2, IterationsAre, SizesAre
  <2>2. j % Rows \in k..(k+BS-1) /\ j % Rows \in l..(l+BS-1)
    BY <1>2 DEF WriteSet, Band
  <2> QED  BY <2>1, <2>2, SizesAre, OneBlock
<1>3. CASE ~IsRows /\ ~Blocked
  BY <1>3, IterationsAre
<1> QED  BY <1>1, <1>2, <1>3

-----------------------------------------------------------------------------
(* What it writes *)

\* A stage is a matrix of elements.
LEMMA StageType ==
  ASSUME size \in Sizes, NEW p \in 1..5
  PROVE  Stage(p) \in [Index -> Content]
<1>1. /\ Index \subseteq Nat
      /\ VLen \in Nat \ {0} /\ HLen \in Nat \ {0}
  BY SizesAre
<1>2. ASSUME NEW j \in Index
      PROVE  /\ j \div HLen \in Int /\ j % HLen \in Int
             /\ j \div VLen \in Int /\ j % VLen \in Int
  BY <1>1, RowCol
<1>3. \A h, v \in BOOLEAN : Matrix(h, v) \in [Index -> Content]
  BY <1>2 DEF Matrix, Elem, Content
<1>4. \A v \in BOOLEAN : Turned(v) \in [Index -> Content]
  BY <1>2 DEF Turned, Elem, Content
<1> QED  BY <1>3, <1>4 DEF Stage

\* The transform of all of a row, and of all of a column
LEMMA TransformedRow ==
  ASSUME NEW n \in Nat \ {0}, NEW k \in Nat, NEW r,
         r = [i \in 0..(n-1) |-> Elem(k, i, FALSE, FALSE)]
  PROVE  Transformed(r) = [i \in 0..(n-1) |-> Elem(k, i, TRUE, FALSE)]
<1>1. DOMAIN r = 0..(n-1) /\ 0 \in 0..(n-1)  OBVIOUS
<1>2. \A i \in 0..(n-1) : r[i].y = k /\ r[i].x = i  BY DEF Elem
<1>3. \A i \in DOMAIN r : r[i] = Elem(r[0].y, i, FALSE, FALSE)
  BY <1>1, <1>2
<1> QED  BY <1>1, <1>2, <1>3 DEF Transformed

\* The same for a column that has become a row
LEMMA TransformedColumn ==
  ASSUME NEW n \in Nat \ {0}, NEW k \in Nat, NEW r,
         r = [i \in 0..(n-1) |-> Elem(i, k, TRUE, FALSE)]
  PROVE  Transformed(r) = [i \in 0..(n-1) |-> Elem(i, k, TRUE, TRUE)]
<1>1. DOMAIN r = 0..(n-1) /\ 0 \in 0..(n-1)  OBVIOUS
<1>2. \A i \in 0..(n-1) : r[i].y = i /\ r[i].x = k /\ r[i].h = TRUE
  BY DEF Elem
<1>3. r[0] # Elem(r[0].y, 0, FALSE, FALSE)
  BY <1>1, <1>2 DEF Elem
<1>4. \A i \in DOMAIN r : r[i] = Elem(i, r[0].x, TRUE, FALSE)
  BY <1>1, <1>2
<1> QED  BY <1>1, <1>2, <1>3, <1>4 DEF Transformed

\* What loop phase reads and what it is to write, by the rows and columns it
\* goes over
LEMMA StageAt ==
  ASSUME NEW j \in Index
  PROVE  /\ phase = 1 =>
              /\ Stage(1)[j] = Elem(j \div Cols, j % Cols, FALSE, FALSE)
              /\ Stage(2)[j] = Elem(j \div Cols, j % Cols, TRUE, FALSE)
         /\ phase = 2 =>
              /\ Stage(2)[j] = Elem(j \div Cols, j % Cols, TRUE, FALSE)
              /\ Stage(3)[j] = Elem(j % Rows, j \div Rows, TRUE, FALSE)
         /\ phase = 3 =>
              /\ Stage(3)[j] = Elem(j % Cols, j \div Cols, TRUE, FALSE)
              /\ Stage(4)[j] = Elem(j % Cols, j \div Cols, TRUE, TRUE)
         /\ phase = 4 =>
              /\ Stage(4)[j] = Elem(j % Cols, j \div Cols, TRUE, TRUE)
              /\ Stage(5)[j] = Elem(j \div Rows, j % Rows, TRUE, TRUE)
<1>1. /\ Stage(1)[j] = Elem(j \div HLen, j % HLen, FALSE, FALSE)
      /\ Stage(2)[j] = Elem(j \div HLen, j % HLen, TRUE, FALSE)
      /\ Stage(5)[j] = Elem(j \div HLen, j % HLen, TRUE, TRUE)
  BY DEF Stage, Matrix
<1>2. /\ Stage(3)[j] = Elem(j % VLen, j \div VLen, TRUE, FALSE)
      /\ Stage(4)[j] = Elem(j % VLen, j \div VLen, TRUE, TRUE)
  BY DEF Stage, Turned
<1>3. /\ phase \in {1, 2} => Rows = VLen /\ Cols = HLen
      /\ phase \in {3, 4} => Rows = HLen /\ Cols = VLen
  BY DEF Rows, Cols
<1> QED  BY <1>1, <1>2, <1>3

\* A row is transformed,
LEMMA MakesRow ==
  ASSUME size \in Sizes, NEW w \in Worker, NEW k \in 0..(Rows-1), at[w] = k,
         IsRows, row[w] = [j \in ReadSet(k) |-> Stage(phase)[j]],
         NEW j \in WriteSet(k)
  PROVE  Produced(w, j) = Stage(phase + 1)[j]
<1>1. /\ Rows \in Nat \ {0} /\ Cols \in Nat \ {0} /\ k \in Nat
      /\ j \in Index /\ j \div Cols = k
  BY SizesAre DEF WriteSet, ReadSet, Band
<1>i. PICK i \in 0..(Cols-1) : i = j % Cols  BY <1>1, Places
<1>b. PICK base \in Nat : base = k * Cols  BY <1>1
<1>r. PICK r : r = [c \in 0..(Cols-1) |-> row[w][base + c]]  OBVIOUS
<1>2. j = base + i /\ j - base = i
  BY <1>1, <1>i, <1>b, Places
<1>3. Produced(w, j) = Transformed(r)[i]
  BY <1>2, <1>b, <1>r DEF Produced
<1>4. ASSUME NEW c \in 0..(Cols-1)
      PROVE  /\ base + c \in Index
             /\ (base + c) \div Cols = k
             /\ (base + c) % Cols = c
  BY <1>b, RowElement
<1>5. ASSUME NEW c \in 0..(Cols-1)
      PROVE  row[w][base + c] = Stage(phase)[base + c]
  <2>1. base + c \in ReadSet(k)  BY <1>4 DEF ReadSet, Band
  <2> QED  BY <2>1
<1>6. CASE phase = 1
  <2>1. ASSUME NEW c \in 0..(Cols-1)
        PROVE  row[w][base + c] = Elem(k, c, FALSE, FALSE)
    BY <1>4, <1>5, <1>6, StageAt
  <2>2. r = [c \in 0..(Cols-1) |-> Elem(k, c, FALSE, FALSE)]
    BY <1>r, <2>1
  <2>3. Transformed(r) = [c \in 0..(Cols-1) |-> Elem(k, c, TRUE, FALSE)]
    BY <1>1, <2>2, TransformedRow
  <2>4. Stage(2)[j] = Elem(k, i, TRUE, FALSE)
    BY <1>1, <1>i, <1>6, StageAt
  <2>5. phase + 1 = 2  BY <1>6
  <2>6. Produced(w, j) = Stage(2)[j]  BY <1>3, <2>3, <2>4
  <2> QED  BY <2>5, <2>6
<1>7. CASE phase = 3
  <2>1. ASSUME NEW c \in 0..(Cols-1)
        PROVE  row[w][base + c] = Elem(c, k, TRUE, FALSE)
    BY <1>4, <1>5, <1>7, StageAt
  <2>2. r = [c \in 0..(Cols-1) |-> Elem(c, k, TRUE, FALSE)]
    BY <1>r, <2>1
  <2>3. Transformed(r) = [c \in 0..(Cols-1) |-> Elem(c, k, TRUE, TRUE)]
    BY <1>1, <2>2, TransformedColumn
  <2>4. Stage(4)[j] = Elem(i, k, TRUE, TRUE)
    BY <1>1, <1>i, <1>7, StageAt
  <2>5. phase + 1 = 4  BY <1>7
  <2>6. Produced(w, j) = Stage(4)[j]  BY <1>3, <2>3, <2>4
  <2> QED  BY <2>5, <2>6
<1> QED  BY <1>6, <1>7 DEF IsRows

\* and a band of rows gets to its columns.
LEMMA MakesColumns ==
  ASSUME size \in Sizes, phase \in {2, 4}, NEW w \in Worker,
         NEW k \in Nat, at[w] = k,
         row[w] = [j \in ReadSet(k) |-> Stage(phase)[j]],
         NEW j \in WriteSet(k)
  PROVE  Produced(w, j) = Stage(phase + 1)[j]
<1>1. ~IsRows /\ j \in Index /\ j % Rows \in Band(k)
  BY DEF IsRows, WriteSet
<1>y. PICK y \in 0..(Rows-1) : y = j % Rows  BY <1>1, Places
<1>x. PICK x \in 0..(Cols-1) : x = j \div Rows  BY <1>1, Places
<1>q. PICK q : q = y * Cols + x  OBVIOUS
<1>2. Produced(w, j) = row[w][q]  BY <1>1, <1>y, <1>x, <1>q DEF Produced
<1>3. q \in Index /\ q \div Cols = y /\ q % Cols = x
  BY <1>q, RowElement
<1>4. q \in ReadSet(k)  BY <1>1, <1>3, <1>y DEF ReadSet
<1>5. Produced(w, j) = Stage(phase)[q]  BY <1>2, <1>4
<1>6. CASE phase = 2
  <2>1. Stage(2)[q] = Elem(y, x, TRUE, FALSE)  BY <1>3, <1>6, StageAt
  <2>2. Stage(3)[j] = Elem(y, x, TRUE, FALSE)
    BY <1>1, <1>6, <1>y, <1>x, StageAt
  <2>3. phase + 1 = 3  BY <1>6
  <2>4. Produced(w, j) = Stage(3)[j]  BY <1>5, <1>6, <2>1, <2>2
  <2> QED  BY <2>3, <2>4
<1>7. CASE phase = 4
  <2>1. Stage(4)[q] = Elem(x, y, TRUE, TRUE)  BY <1>3, <1>7, StageAt
  <2>2. Stage(5)[j] = Elem(x, y, TRUE, TRUE)
    BY <1>1, <1>7, <1>y, <1>x, StageAt
  <2>3. phase + 1 = 5  BY <1>7
  <2>4. Produced(w, j) = Stage(5)[j]  BY <1>5, <1>7, <2>1, <2>2
  <2> QED  BY <2>3, <2>4
<1> QED  BY <1>6, <1>7

-----------------------------------------------------------------------------
(* The invariant *)

\* Both kinds of iterations
LEMMA Makes ==
  ASSUME IInv, NEW w \in Worker, at[w] # Idle, NEW j \in WriteSet(at[w])
  PROVE  Produced(w, j) = Stage(phase + 1)[j]
<1>1. /\ size \in Sizes /\ phase \in 1..4 /\ at[w] \in Iterations(phase)
      /\ row[w] = [i \in ReadSet(at[w]) |-> Stage(phase)[i]]
  BY DEF IInv, MatrixTypeOK, Shared, Buffers
<1>2. at[w] \in 0..(Rows-1) /\ at[w] \in Nat
  BY <1>1, IterationsAre, SizesAre
<1>3. CASE IsRows  BY <1>1, <1>2, <1>3, MakesRow
<1>4. CASE ~IsRows
  <2>1. phase \in {2, 4}  BY <1>1, <1>4 DEF IsRows
  <2> QED  BY <1>1, <1>2, <2>1, MakesColumns
<1> QED  BY <1>3, <1>4

\* What does not change in a loop
LEMMA Frame ==
  ASSUME size' = size, inPlace2D' = inPlace2D, phase' = phase
  PROVE  /\ Index' = Index /\ IsRows' = IsRows
         /\ \A k : ReadSet(k)' = ReadSet(k) /\ WriteSet(k)' = WriteSet(k)
         /\ \A p : Iterations(p)' = Iterations(p) /\ Stage(p)' = Stage(p)
         /\ SrcName' = SrcName /\ DstName' = DstName
<1>1. /\ VLen' = VLen /\ HLen' = HLen /\ Index' = Index /\ BS' = BS
      /\ IsRows' = IsRows /\ Rows' = Rows /\ Cols' = Cols
      /\ Blocked' = Blocked
  BY DEF VLen, HLen, Index, IsRows, Rows, Cols, Blocked, BS
<1>2. \A k : Band(k)' = Band(k)  BY <1>1 DEF Band
<1>3. \A k : ReadSet(k)' = ReadSet(k)  BY <1>1, <1>2 DEF ReadSet
<1>4. \A k : WriteSet(k)' = WriteSet(k)  BY <1>1, <1>2, <1>3 DEF WriteSet
<1>5. \A p : Iterations(p)' = Iterations(p)  BY <1>1 DEF Iterations
<1>6. \A p : Stage(p)' = Stage(p)  BY <1>1 DEF Stage, Matrix, Turned
<1>7. SrcName' = SrcName /\ DstName' = DstName
  BY <1>1 DEF SrcName, DstName
<1> QED  BY <1>1, <1>3, <1>4, <1>5, <1>6, <1>7

\* An iteration begins on what the loop before it has left.
LEMMA BeginIInv ==
  ASSUME IInv, NEW w \in Worker, NEW k \in todo, BeginIteration(w, k)
  PROVE  IInv'
<1>1. /\ at[w] = Idle /\ todo' = todo \ {k} /\ at' = [at EXCEPT ![w] = k]
      /\ row' = [row EXCEPT ![w] = [j \in ReadSet(k) |-> Src[j]]]
      /\ size' = size /\ inPlace2D' = inPlace2D /\ phase' = phase /\ mt' = mt
      /\ s' = s /\ tBuf' = tBuf /\ d' = d
  BY DEF BeginIteration
<1>2. MatrixTypeOK /\ Shared /\ Buffers  BY DEF IInv
<1>3. /\ phase \in 1..4 /\ k \in Iterations(phase) /\ k \in Nat /\ k # Idle
  BY <1>2 DEF MatrixTypeOK, Shared, Idle
<1>4. \A v \in Worker : at[v] # k
  BY <1>2, <1>3 DEF Shared
<1>5. /\ Index' = Index
      /\ \A l : ReadSet(l)' = ReadSet(l) /\ WriteSet(l)' = WriteSet(l)
      /\ \A p : Iterations(p)' = Iterations(p) /\ Stage(p)' = Stage(p)
      /\ Src' = Src /\ Dst' = Dst
  BY <1>1, Frame DEF Src, Dst
<1>6. MatrixTypeOK'
  <2>1. \A v \in Worker : at'[v] # Idle => DOMAIN row'[v] = ReadSet(at'[v])
    BY <1>1, <1>2 DEF MatrixTypeOK, Shared
  <2>2. \A v \in Worker : at'[v] # Idle => DOMAIN row'[v] = ReadSet(at[v])'
    BY <1>5, <2>1, Frame, <1>1 DEF ReadSet, Band, IsRows, Blocked, BS, Rows,
       Cols, VLen, HLen
  <2> QED  BY <1>1, <1>2, <1>3, <1>5, <2>2 DEF MatrixTypeOK, Idle
<1>7. Shared'
  BY <1>1, <1>2, <1>3, <1>4, <1>5 DEF Shared, MatrixTypeOK
<1>8. Buffers'
  <2>1. \A j \in Index : Settled(j)' => Settled(j)
    BY <1>1, <1>2, <1>3, <1>5 DEF Settled, MatrixTypeOK
  <2>2. Src = Stage(phase)  BY <1>2, <1>3 DEF Buffers
  <2>3. \A v \in Worker : at'[v] # Idle =>
          row'[v] = [j \in ReadSet(at[v])' |-> Stage(phase)[j]]
    BY <1>1, <1>2, <1>5, <2>2 DEF Buffers, Shared, MatrixTypeOK
  <2> QED
    BY <1>1, <1>2, <1>3, <1>5, <2>1, <2>3 DEF Buffers
<1> QED  BY <1>6, <1>7, <1>8 DEF IInv

\* The thread writes its part of the next stage, and nobody else's.
LEMMA EndIInv ==
  ASSUME IInv, NEW w \in Worker, End(w)
  PROVE  IInv'
<1>1. /\ at[w] # Idle /\ at' = [at EXCEPT ![w] = Idle]
      /\ row' = [row EXCEPT ![w] = <<>>]
      /\ size' = size /\ inPlace2D' = inPlace2D /\ phase' = phase /\ mt' = mt
      /\ s' = s /\ todo' = todo
      /\ tBuf' = IF DstName = "tBuf" THEN Stored(w, tBuf) ELSE tBuf
      /\ d' = IF DstName = "d" THEN Stored(w, d) ELSE d
  BY DEF End
<1>2. MatrixTypeOK /\ Shared /\ Buffers  BY DEF IInv
<1>3. phase \in 1..4 /\ size \in Sizes /\ phase + 1 \in 1..5
  BY <1>1, <1>2 DEF MatrixTypeOK, Shared
<1>4. /\ Index' = Index
      /\ \A l : ReadSet(l)' = ReadSet(l) /\ WriteSet(l)' = WriteSet(l)
      /\ \A p : Iterations(p)' = Iterations(p) /\ Stage(p)' = Stage(p)
      /\ SrcName' = SrcName /\ DstName' = DstName
  BY <1>1, Frame
<1>5. /\ \/ DstName = "tBuf" /\ SrcName \in {"s", "d"}
         \/ DstName = "d" /\ SrcName = "tBuf"
  BY DEF DstName, SrcName
<1>6. Src' = Src
  BY <1>1, <1>4, <1>5 DEF Src
<1>7. Dst' = Stored(w, Dst)
  BY <1>1, <1>4, <1>5 DEF Dst
<1>8. \A j \in Index :
        /\ j \in WriteSet(at[w]) => Dst'[j] = Stage(phase + 1)[j]
        /\ j \notin WriteSet(at[w]) => Dst'[j] = Dst[j]
  BY <1>1, <1>7, Makes DEF Stored
<1>9. MatrixTypeOK'
  <2>1. \A buf \in [Index -> Content] : Stored(w, buf) \in [Index -> Content]
    BY <1>1, <1>3, Makes, StageType DEF Stored
  <2>2. s' \in [Index -> Content]' /\ d' \in [Index -> Content]'
        /\ tBuf' \in [Index -> Content]'
    BY <1>1, <1>2, <1>4, <2>1 DEF MatrixTypeOK, Content
  <2>3. \A v \in Worker : at'[v] # Idle => DOMAIN row'[v] = ReadSet(at[v])'
    <3>1. \A v \in Worker : at'[v] # Idle =>
            v # w /\ at'[v] = at[v] /\ row'[v] = row[v]
      BY <1>1, <1>2 DEF MatrixTypeOK, Shared
    <3>2. ASSUME NEW v \in Worker, at'[v] # Idle
          PROVE  DOMAIN row'[v] = ReadSet(at[v])'
      <4>1. PICK k : k = at[v]  OBVIOUS
      <4>2. DOMAIN row'[v] = ReadSet(k)
        BY <1>2, <3>1, <3>2, <4>1 DEF MatrixTypeOK
      <4>3. at'[v] = k  BY <3>1, <3>2, <4>1
      <4> QED  BY <1>4, <4>2, <4>3
    <3> QED  BY <3>2
  <2> QED  BY <1>1, <1>2, <2>2, <2>3 DEF MatrixTypeOK, Idle
<1>10. Shared'
  BY <1>1, <1>2, <1>4 DEF Shared, MatrixTypeOK
<1>11. Buffers'
  <2>1. \A j \in Index :
          Settled(j)' => Settled(j) \/ j \in WriteSet(at[w])
    BY <1>1, <1>2, <1>4 DEF Settled, MatrixTypeOK
  <2>2. \A j \in Index : Settled(j)' => Dst'[j] = Stage(phase + 1)[j]
    BY <1>2, <1>3, <1>8, <2>1 DEF Buffers
  <2>3. \A v \in Worker : at'[v] # Idle =>
          row'[v] = [j \in ReadSet(at[v])' |-> Stage(phase)[j]]
    BY <1>1, <1>2, <1>4 DEF Buffers, Shared, MatrixTypeOK
  <2> QED
    BY <1>1, <1>2, <1>3, <1>4, <1>6, <2>2, <2>3 DEF Buffers
<1> QED  BY <1>9, <1>10, <1>11 DEF IInv

\* When a loop begins every element is going to be written.
Unsettled == \A j \in Index : ~Settled(j)

\* Then nothing is settled.
LEMMA Fresh ==
  size \in Sizes /\ phase \in 1..4 /\ todo = Iterations(phase) => Unsettled
BY Cover DEF Unsettled, Settled

\* At the end of a loop every element has been written.
LEMMA BarrierIInv == IInv /\ Barrier => IInv'
<1> SUFFICES ASSUME IInv, Barrier PROVE IInv'  OBVIOUS
<1>1. /\ phase <= 4 /\ todo = {} /\ \A w \in Worker : at[w] = Idle
      /\ phase' = phase + 1
      /\ todo' = IF phase < 4 THEN Iterations(phase + 1) ELSE {}
      /\ size' = size /\ inPlace2D' = inPlace2D /\ mt' = mt /\ s' = s
      /\ tBuf' = tBuf /\ d' = d /\ at' = at /\ row' = row
  BY DEF Barrier
<1>2. MatrixTypeOK /\ Shared /\ Buffers  BY DEF IInv
<1>3. phase \in 1..4 /\ phase' \in 2..5 /\ size' \in Sizes
  BY <1>1, <1>2 DEF MatrixTypeOK
<1>4. /\ VLen' = VLen /\ HLen' = HLen /\ Index' = Index /\ BS' = BS
      /\ Blocked' = Blocked
  BY <1>1 DEF VLen, HLen, Index, Blocked, BS
<1>5. \A p : Iterations(p)' = Iterations(p) /\ Stage(p)' = Stage(p)
  BY <1>4 DEF Iterations, Stage, Matrix, Turned
<1>6. \A j \in Index : Dst[j] = Stage(phase')[j]
  BY <1>1, <1>2, <1>3 DEF Buffers, Settled
<1>7. Dst = Stage(phase')
  <2>1. Dst \in [Index -> Content]  BY <1>2 DEF MatrixTypeOK, Dst
  <2>2. Stage(phase') \in [Index -> Content]
    BY <1>2, <1>3, StageType DEF MatrixTypeOK
  <2> QED  BY <1>6, <2>1, <2>2
<1>8. phase' \in 1..4 => Src' = Stage(phase')
  <2>1. phase \in {1, 3} => Dst = tBuf  BY DEF Dst, DstName, IsRows
  <2>2. phase \in {2, 4} => Dst = d  BY DEF Dst, DstName, IsRows
  <2>3. phase' \in {2, 4} => Src' = tBuf'  BY DEF Src, SrcName, IsRows
  <2>4. phase' = 3 => Src' = d'  BY DEF Src, SrcName, IsRows
  <2> QED  BY <1>1, <1>3, <1>7, <2>1, <2>2, <2>3, <2>4
<1>9. phase' = 5 => d' = Stage(5)
  BY <1>1, <1>3, <1>7 DEF Dst, DstName, IsRows
<1>10. MatrixTypeOK'
  BY <1>1, <1>2, <1>3, <1>4, <1>5, SizesAre, IterationsAre
  DEF MatrixTypeOK, Iterations, Content, Idle
<1>11. Shared'
  BY <1>1, <1>2, <1>3, <1>5 DEF Shared
<1>12. Buffers'
  <2>1. CASE phase' \in 1..4
    <3>1. (size \in Sizes /\ phase \in 1..4 /\ todo = Iterations(phase))'
      BY <1>1, <1>2, <1>3, <1>4, <2>1 DEF Iterations
    <3>2. Unsettled'  BY <3>1, Fresh, PTL
    <3> QED  BY <1>1, <1>3, <1>5, <1>8, <2>1, <3>2 DEF Buffers, Unsettled
  <2>2. CASE phase' = 5  BY <1>1, <1>5, <1>9, <2>2 DEF Buffers
  <2> QED  BY <1>3, <2>1, <2>2
<1> QED  BY <1>10, <1>11, <1>12 DEF IInv

\* At first the input is where loop 1 reads it.
LEMMA InitIInv == MatrixInit => IInv
<1> SUFFICES ASSUME MatrixInit PROVE IInv  OBVIOUS
<1>1. size \in Sizes /\ phase = 1 /\ todo = Iterations(1)
      /\ \A w \in Worker : at[w] = Idle
  BY DEF MatrixInit
<1>2. /\ Matrix(FALSE, FALSE) \in [Index -> Content]
      /\ [j \in Index |-> Garbage] \in [Index -> Content]
  <2>1. Stage(1) \in [Index -> Content]  BY <1>1, StageType
  <2>2. Garbage \in Content  BY DEF Garbage, Content
  <2> QED  BY <2>1, <2>2 DEF Stage
<1>3. todo \subseteq Nat /\ Unsettled
  BY <1>1, IterationsAre, SizesAre, Fresh
<1>4. MatrixTypeOK
  <2>1. /\ s \in [Index -> Content] /\ d \in [Index -> Content]
        /\ tBuf \in [Index -> Content]
    BY <1>2 DEF MatrixInit
  <2>2. at \in [Worker -> Nat \cup {Idle}]  BY DEF MatrixInit
  <2>3. inPlace2D \in BOOLEAN /\ mt \in BOOLEAN  BY DEF MatrixInit
  <2> QED  BY <1>1, <1>3, <2>1, <2>2, <2>3 DEF MatrixTypeOK
<1>5. Shared  BY <1>1 DEF MatrixInit, Shared
<1>6. Src = Stage(phase)  BY <1>1 DEF MatrixInit, Src, SrcName, IsRows, Stage
<1>7. Buffers  BY <1>1, <1>3, <1>6 DEF Buffers, Unsettled
<1> QED  BY <1>4, <1>5, <1>7 DEF IInv

\* The invariant is inductive.
LEMMA NextIInv == IInv /\ [MatrixNext]_matrixvars => IInv'
<1> SUFFICES ASSUME IInv, [MatrixNext]_matrixvars PROVE IInv'  OBVIOUS
<1>1. CASE UNCHANGED matrixvars
  <2>1. /\ Index' = Index
        /\ \A l : ReadSet(l)' = ReadSet(l) /\ WriteSet(l)' = WriteSet(l)
        /\ \A p : Iterations(p)' = Iterations(p) /\ Stage(p)' = Stage(p)
        /\ Src' = Src /\ Dst' = Dst
    BY <1>1, Frame DEF matrixvars, Src, Dst
  <2>2. MatrixTypeOK'  BY <1>1, <2>1 DEF IInv, matrixvars, MatrixTypeOK, Content
  <2>3. Shared'  BY <1>1, <2>1 DEF IInv, matrixvars, Shared
  <2>4. Buffers'  BY <1>1, <2>1 DEF IInv, matrixvars, Buffers, Settled
  <2> QED  BY <2>2, <2>3, <2>4 DEF IInv
<1> QED  BY <1>1, BarrierIInv, BeginIInv, EndIInv DEF MatrixNext

\* Throughout the execution the buffers hold elements of the matrix.
THEOREM Typed == MatrixSpec => []MatrixTypeOK
<1>1. IInv => MatrixTypeOK  BY DEF IInv
<1> QED  BY <1>1, InitIInv, NextIInv, PTL DEF MatrixSpec

\* A loop does not write the buffer that it reads.
LEMMA TwoBuffers == SrcName # DstName
  BY DEF SrcName, DstName

\* However the iterations are shared among threads, none writes an element that
\* another one reads or writes in the same loop.
THEOREM NoRace == MatrixSpec => []RaceFree
<1>1. ASSUME IInv PROVE RaceFree
  <2> SUFFICES ASSUME NEW v \in Worker, NEW w \in Worker, v # w,
                      at[v] # Idle, at[w] # Idle
               PROVE  Writes(v) \cap (Reads(w) \cup Writes(w)) = {}
    BY DEF RaceFree
  <2>1. /\ size \in Sizes /\ phase \in 1..4 /\ at[v] # at[w]
        /\ at[v] \in Iterations(phase) /\ at[w] \in Iterations(phase)
    BY <1>1 DEF IInv, MatrixTypeOK, Shared
  <2>2. WriteSet(at[v]) \cap WriteSet(at[w]) = {}  BY <2>1, Disjoint
  <2>3. Writes(v) \cap Writes(w) = {}  BY <2>2 DEF Writes
  <2>4. Writes(v) \cap Reads(w) = {}  BY TwoBuffers DEF Writes, Reads
  <2> QED  BY <2>3, <2>4
<1> QED  BY <1>1, InitIInv, NextIInv, PTL DEF MatrixSpec

\* And on return all rows and columns are transformed and at their place: for
\* every size, in place or not, and every number of threads.
THEOREM TransformsAll == MatrixSpec => []Result
<1>1. IInv => Result  BY DEF IInv, Buffers, Result, Stage
<1> QED  BY <1>1, InitIInv, NextIInv, PTL DEF MatrixSpec
=============================================================================
