----------------------------- MODULE PathStrings -----------------------------
(***************************************************************************)
(* How a path is written into a plan file and read back: to_string,        *)
(* parsePathStr and the two parts of a 2D plan.  A string is a sequence of *)
(* tokens: characters, and the words that configurations are named by.     *)
(***************************************************************************)
EXTENDS Integers, Sequences, SequencesExt

CONSTANT MaxButWidth   \* MAXBUTWIDTHALL, less than 8

Digits == <<"0", "1", "2", "3", "4", "5", "6", "7", "8", "9">>
IsDigit(c) == \E i \in 1..10 : Digits[i] = c
Value(c) == (CHOOSE i \in 1..10 : Digits[i] = c) - 1

ConfigStr ==
  [c \in 0..3 |-> IF c = 0 THEN <<"ST">> ELSE IF c = 1 THEN <<"ST", " stream">>
                  ELSE IF c = 2 THEN <<"MT">> ELSE <<"MT", " stream">>]

\* Nothing can be read from the string: parsePathStr throws.
Malformed == <<[config |-> -1, level |-> 0, N |-> 0]>>

StepString(a) ==
  <<Digits[a.N + 1], "(">> \o ConfigStr[a.config] \o <<")", " ">>

PathString(path) == FlattenSeq([k \in 1..Len(path) |-> StepString(path[k])])

\* The configurations are tried from the last, as one name extends another.
NamedConfig(s) ==
  LET named == {c \in 0..3 : IsPrefix(ConfigStr[c], s)} IN
  IF named = {} THEN -1 ELSE CHOOSE c \in named : \A d \in named : c >= d

\* How many digits the string begins with, and the number they write
DigitCount(s) == SelectInSeq(s \o <<"">>, LAMBDA c : ~IsDigit(c)) - 1
Number(s) ==
  LET read[k \in 0..DigitCount(s)] ==
        IF k = 0 THEN 0 ELSE 10 * read[k - 1] + Value(s[k])
  IN  read[DigitCount(s)]

Rest(s, n) == SubSeq(s, n + 1, Len(s))

\* One pass more in front, unless what follows it could not be read
Followed(a, path) == IF path = Malformed THEN Malformed ELSE <<a>> \o path

\* One turn of the loop of parsePathStr at the place where i tokens have been
\* read, with level to go: what[k][l] is what is read from place k on.
Turn(s, what, i, level) ==
  LET r == Rest(s, i)
      n == DigitCount(r)
      N == Number(r)
      config == NamedConfig(Rest(r, n + 1))
      end == n + 1 + Len(ConfigStr[config])
      Pass(c) == [config |-> c, level |-> level, N |-> N]
  IN
  IF i = Len(s) THEN IF level = 0 THEN <<>> ELSE Malformed
  ELSE IF r[1] = " " THEN what[i + 1][level]
  ELSE IF n = 0 \/ N > MaxButWidth \/ N > level THEN Malformed
  ELSE IF n = Len(r) \/ r[n + 1] # "("
  THEN Followed(Pass(0), what[i + n][level - N])
  ELSE IF config = -1 \/ end = Len(r) \/ r[end + 1] # ")" THEN Malformed
  ELSE Followed(Pass(config), what[i + end + 1][level - N])

\* parsePathStr, from the beginning of the string to its end
ParsePathStr(s, log2len) ==
  LET what[i \in 0..Len(s)] ==
        [level \in 0..log2len |-> Turn(s, what, i, level)]
  IN  what[0][log2len]

\* Mutant of Path2DString: the paths run together
Path2DStringNoComma(mt, pathH, pathV) ==
  <<IF mt THEN "1" ELSE "0", ":">> \o pathH \o pathV

\* getPath and setPath of a 2D plan: planMT, a colon, the two paths
Path2DString(mt, pathH, pathV) ==
  <<IF mt THEN "1" ELSE "0", ":">> \o pathH \o <<",">> \o pathV

\* Mutant of PlanMT: any number means threads
PlanMTAny(s) == SelectInSeq(s, IsDigit) # 0

\* sscanf("%d") skips white space; a plan file holds no signs.
HasNumber(s) == \E k \in 1..Len(s) :
  IsDigit(s[k]) /\ \A i \in 1..(k-1) : s[i] = " "
PlanMT(s) == Number(SubSeq(s, SelectInSeq(s, IsDigit), Len(s))) # 0

Colon(s) == SelectInSeq(s, LAMBDA c : c = ":")
Comma(s) == SelectInSeq(Rest(s, Colon(s)), LAMBDA c : c = ",")

\* Both paths are given: a colon, and a comma behind it
HasPaths(s) == Colon(s) # 0 /\ Comma(s) # 0
PathH(s) == SubSeq(s, Colon(s) + 1, Colon(s) + Comma(s) - 1)
PathV(s) == Rest(s, Colon(s) + Comma(s))
=============================================================================
