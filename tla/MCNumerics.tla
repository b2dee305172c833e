----------------------------- MODULE MCNumerics -----------------------------
(***************************************************************************)
(* The modules whose subject is what is computed, side by side: a          *)
(* behaviour is either the execution of a plan (DFTTransform), a call of a *)
(* function on floats (FloatFunctions), of one of an angle (Trigonometry), *)
(* of an inverse (InverseTrigonometry) or of one that is made of an        *)
(* exponential or a logarithm (Exponentials, Hyperbolics), while all       *)
(* others rest.                                                            *)
(* Plans: every mode, every length to 2^MaxLog2Len, every vector width and *)
(* every chain of passes.                                                  *)
(* Angles: every second one on both sides of all ranges, every one for the *)
(* functions of multiples of pi, next to an argument that another          *)
(* reduction, or none, suits.  A quotient is exact or not, and what rempi  *)
(* leaves to its second part is little or more than a turn.                *)
(***************************************************************************)
EXTENDS DFTTransform, MCFloat, Trigonometry, InverseTrigonometry,
        Hyperbolics

CONSTANTS MaxLog2Len, MaxLog2VecWidth

\* The ways to write l as a sum of widths
Compositions(l) ==
  LET to[k \in 0..l] ==
        IF k = 0 THEN {<<>>}
        ELSE UNION {{Append(q, w) : q \in to[k - w]} :
                    w \in 1..(IF k < MaxButWidth THEN k ELSE MaxButWidth)}
  IN  to[l]

Modes == {m \in [real : BOOLEAN, backward : BOOLEAN, alt : BOOLEAN] :
            m.alt => m.real}

PlanOf(m, l, w, p) == [real |-> m.real, backward |-> m.backward, alt |-> m.alt,
                       log2len |-> l, log2vecwidth |-> w, path |-> p]

\* In the long plans every kernel takes each place in the path.
LongPaths ==
  {<<1, 4>>, <<4, 1>>, <<1, 3, 1>>, <<1, 4, 1>>, <<5, 3>>, <<3, 5>>, <<1, 5, 1>>,
   <<6, 2>>, <<2, 6>>, <<1, 6, 1>>, <<7, 1>>, <<1, 7>>, <<1, 7, 1>>}
Length(p) == FoldLeft(LAMBDA l, w : l + w, 0, p)

AllPlans ==
  {q \in UNION {{PlanOf(m, l, w, p) : m \in Modes, w \in 0..MaxLog2VecWidth,
                  p \in IF l <= 1 THEN {<<>>} ELSE Compositions(l)} :
                l \in 0..MaxLog2Len}
         \cup {q \in {PlanOf(m, Length(p), w, p) :
                       m \in Modes, w \in 0..MaxLog2VecWidth, p \in LongPaths} :
                  q.real => q.log2vecwidth = 1} :
     IsPlan(q)}

Special == {MinusZero, Infinity, Undefined}
Angles == {Number(k) : k \in {j \in -171..171 : j % 2 = 1 \/ j = 0}} \cup Special
AllAngles == {Number(k) : k \in -171..171} \cup Special
Companions == {Number(1), Number(-57), Number(151), Infinity, Undefined}

AllTrigCalls ==
  UNION {[fn : {"xfastsinf_u3500"} \cup Sines \cup Cosines \cup Tangents \cup Pairs,
          v : Angles \X Companions, err : {e[1]}, tail : {e[2]}] :
         e \in {<<0, -2>>, <<1, 2>>, <<-1, 34>>}}
  \cup [fn : PiSines \cup PiCosines \cup PiPairs,
        v : AllAngles \X {Number(1), Infinity}, err : {0}, tail : {0}]

AllInverseCalls ==
  [fn : ArcSines \cup ArcCosines, x : SineArguments]
  \cup [fn : ArcTangents, x : TangentArguments]
AllQuotients ==
  {c \in [fn : Atan2s, x : AtanOperands, y : AtanOperands, angle : 1..23] :
     c.x.size = c.y.size \/ c.angle = 1}

\* Around all the limits, and far beyond them
SomeExponents ==
  {Number(k) : k \in {-4000, 4000} \cup (-260..260)} \cup Specials
Logarithms ==
  {Number(k) : k \in (Underflow + Ln2)..MaxLog} \cup {Nought, Infinity}
PowLogs == {Number(k) : k \in {-192, -112, -57, -8, -3, 0, 3, 57, 127}}
           \cup {Nought, Infinity}
PowExponents ==
  {Number(h) : h \in (-4..4) \cup {-51, -22, 18, 40, 2000, -6000000, 6000000}}
  \cup Specials
WithSigns(S) == [minus : BOOLEAN, log : S] \cup {NaNNumber}
AllExpCalls ==
  [fn : Exps, x : SomeExponents, err : {0, 1}]
  \cup [fn : Logs \cup Roots, x : WithSigns(Logarithms)]
  \cup [fn : Powers \cup FastPowers, x : WithSigns(PowLogs),
         y : PowExponents, err : {0}]
AllHypCalls ==
  [fn : Expm1s \cup Sinhs \cup Coshs \cup Tanhs, x : SomeExponents, err : {0, 1}]
  \cup [fn : Log1ps, x : Log1pArguments]
  \cup [fn : Asinhs, x : AsinhArguments]
  \cup [fn : Acoshs, x : AcoshArguments]
  \cup [fn : Atanhs, x : AtanhArguments]

PlanRests ==
  LET m == [real |-> TRUE, backward |-> FALSE, alt |-> FALSE] IN
  /\ plan = PlanOf(m, 0, 0, <<>>)
  /\ input = <<0, 1>> /\ buf = <<>> /\ level = 0 /\ done = 0

CallRests ==
  /\ call = [fn |-> "none", x |-> 0, y |-> 0, full |-> TRUE]
  /\ pc = "done" /\ rem = NoRem /\ round = 0 /\ ret = 0

TrigRests ==
  /\ tcall = [fn |-> "none", v |-> <<>>, err |-> 0, tail |-> 0]
  /\ tret = <<>>

InverseRests == icall = [fn |-> "none"] /\ iret = <<>>

ExpRests == ecall = [fn |-> "none"] /\ eret = <<>>

AllInit ==
  \/ Init /\ CallRests /\ TrigRests /\ InverseRests /\ ExpRests
  \/ FInit /\ PlanRests /\ TrigRests /\ InverseRests /\ ExpRests
  \/ TrigInit /\ PlanRests /\ CallRests /\ InverseRests /\ ExpRests
  \/ InverseInit /\ PlanRests /\ CallRests /\ TrigRests /\ ExpRests
  \/ HypInit /\ PlanRests /\ CallRests /\ TrigRests /\ InverseRests
AllNext ==
  \/ /\ CallRests /\ TrigRests /\ InverseRests /\ ExpRests
     /\ Next /\ UNCHANGED <<fvars, trigvars, invvars, expvars>>
  \/ FNext /\ UNCHANGED <<tvars, trigvars, invvars, expvars>>
  \/ ~TrigRests /\ TrigCall /\ UNCHANGED <<tvars, fvars, invvars, expvars>>
  \/ ~InverseRests /\ InverseCall /\ UNCHANGED <<tvars, fvars, trigvars, expvars>>
  \/ ExpCall /\ UNCHANGED <<tvars, fvars, trigvars, invvars>>
  \/ HypCall /\ UNCHANGED <<tvars, fvars, trigvars, invvars>>
AllSpec == AllInit /\ [][AllNext]_<<tvars, fvars, trigvars, invvars, expvars>>
=============================================================================
