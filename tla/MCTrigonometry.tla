--------------------------- MODULE MCTrigonometry ---------------------------
(***************************************************************************)
(* The functions of multiples of pi in double precision, for every angle   *)
(* to the end of the range that is documented and one lane.  The limits    *)
(* keep their order: that of the code, then that of an int, then that of   *)
(* the document, which is four times that of the code.                     *)
(***************************************************************************)
EXTENDS Trigonometry

CONSTANT PiDocumented   \* 1e+9: beyond IntRange, and 4 * PiRange

PiCalls ==
  [fn : {"xsinpi_u05", "xcospi_u05", "xsincospi_u05", "xsincospi_u35"},
   v : {<<Number(k)>> : k \in (-PiDocumented - 3)..(PiDocumented + 3)},
   err : {0}, tail : {0}]

\* docs/purec.xhtml:332-336, 367-371, 403-407, 440-444: in [-1e+9, 1e+9] the
\* result is accurate, beyond it any number from -1 to 1 may be returned.  The
\* code stops at a quarter of that (TRIGRANGEMAX3/4) and returns 0 or 1.
Documented(x, right) ==
  Finite(x) /\ Abs(x.k) <= PiDocumented => right
PiAsDocumented ==
  \A l \in DOMAIN tret :
    LET x == tcall.v[l]
        y == tret[l]
    IN
    Documented(x,
      CASE tcall.fn \in PiSines -> SineRight(x, y)
        [] tcall.fn \in PiCosines -> CosineRight(x, y)
        [] tcall.fn \in PiPairs -> SineRight(x, y[1]) /\ CosineRight(x, y[2]))
=============================================================================
