------------------------- MODULE PlanLifecycleProofs -------------------------
(***************************************************************************)
(* For every list of instruction sets, all sizes and any number of plans:  *)
(* a path is read back as it is written (RoundTrip, RoundTrip2D); what is  *)
(* allocated is what the plans consist of, whatever paths the application  *)
(* sets (MemoryIsBalanced).  Under OwnPaths -- paths are only set where    *)
(* they were got, and plans whose keys collide do no harm to each other -- *)
(* each plan can be executed, each stored string read by whoever may look  *)
(* it up, and a plan that is made has the path that is stored for it (the  *)
(* last three theorems).  Without that condition they do not hold.         *)
(***************************************************************************)
EXTENDS PlanLifecycle, SequenceTheorems, FiniteSetTheorems, TLAPS

\* Induction over the naturals: the strict subsets of finite sets are well
\* founded, and n stands for 1..n.
LEMMA LeastNatural ==
  ASSUME NEW T \in SUBSET Nat, T # {}
  PROVE  \E x \in T : \A y \in T : x <= y
<1> DEFINE Upto(n) == 1..n
           U == {Upto(n) : n \in T}
           R == StrictSubsetOrdering(Nat)
<1>1. \A n \in Nat : Upto(n) \in FiniteSubsetsOf(Nat)
  <2> SUFFICES ASSUME NEW n \in Nat PROVE Upto(n) \in FiniteSubsetsOf(Nat)
    OBVIOUS
  <2>1. IsFiniteSet(1..n)  BY FS_Interval
  <2>2. 1..n \subseteq Nat  BY SMT
  <2> QED  BY <2>1, <2>2 DEF FiniteSubsetsOf
<1>2. PICK b \in U : \A c \in U : <<c, b>> \notin R
  <2>1. U \subseteq FiniteSubsetsOf(Nat) /\ U # {}  BY <1>1
  <2>2. IsWellFoundedOn(R, FiniteSubsetsOf(Nat))
    BY FS_StrictSubsetOrderingWellFounded
  <2> HIDE DEF U, R
  <2> QED  BY <2>1, <2>2, WFMin, Zenon
<1>3. PICK x \in T : b = Upto(x)  BY <1>2
<1>4. ASSUME NEW y \in T, ~(x <= y) PROVE FALSE
  <2>1. y < x  BY <1>4, SMT
  <2>2. Upto(y) \subseteq Upto(x) /\ x \in Upto(x) /\ x \notin Upto(y)
    BY <2>1, SMT
  <2>3. Upto(y) \in SUBSET Nat /\ Upto(x) \in SUBSET Nat  BY SMT
  <2>4. <<Upto(y), Upto(x)>> \in R
    BY <2>2, <2>3, SMT DEF StrictSubsetOrdering
  <2> QED  BY <2>4, <1>2, <1>3
<1> QED  BY <1>3, <1>4

-----------------------------------------------------------------------------
(* What is written for a path is read back. *)

\* A width is one digit.
LEMMA WidthIs == MaxButWidth \in 1..7
BY LifecycleAssumption

\* A set of numbers has its minimum.
LEMMA MinIs ==
  ASSUME NEW T \in SUBSET Nat, T # {}
  PROVE  Min(T) \in T /\ \A y \in T : Min(T) <= y
<1>1. \E x \in T : \A y \in T : x <= y  BY LeastNatural
<1> QED  BY <1>1, Zenon DEF Min

\* The characters and words a string consists of
Words == {"", " ", "(", ")", ":", ",", "ST", " stream", "MT"}
Open == "("
Close == ")"
Blank == " "
ST == "ST"
MT == "MT"
Stream == " stream"
Token == Words \cup {Digits[i] : i \in 1..10}

\* Those of paths
PathToken == Token \ {":", ","}

\* The words of paths are tokens, and some of them differ.
LEMMA WordsAre ==
  /\ {Open, Close, Blank, ST, MT, Stream} \subseteq PathToken
  /\ PathToken \subseteq Token
  /\ ST # MT /\ Stream # Close
BY DEF PathToken, Token, Words, Open, Close, Blank, ST, MT, Stream

\* The digits by their places
LEMMA TenDigits ==
  /\ Digits[1] = "0" /\ Digits[2] = "1" /\ Digits[3] = "2" /\ Digits[4] = "3"
  /\ Digits[5] = "4" /\ Digits[6] = "5" /\ Digits[7] = "6" /\ Digits[8] = "7"
  /\ Digits[9] = "8" /\ Digits[10] = "9"
BY DEF Digits

\* The digits, and characters that are none
LEMMA DigitsAre ==
  /\ \A n \in 0..9 : /\ IsDigit(Digits[n + 1]) /\ Value(Digits[n + 1]) = n
                     /\ Digits[n + 1] \in PathToken
  /\ \A c \in Words : ~IsDigit(c)
<1>0. \A i \in 1..10 : \/ i = 1 \/ i = 2 \/ i = 3 \/ i = 4 \/ i = 5 \/ i = 6
                       \/ i = 7 \/ i = 8 \/ i = 9 \/ i = 10
  OBVIOUS
<1>1. ASSUME NEW n \in 0..9, NEW i \in 1..10, Digits[i] = Digits[n + 1]
      PROVE  i = n + 1
  <2>1. n + 1 \in 1..10  OBVIOUS
  <2> QED  BY <1>0, <1>1, <2>1, TenDigits, SMTT(60)
<1>2. ASSUME NEW n \in 0..9
      PROVE  IsDigit(Digits[n + 1]) /\ Value(Digits[n + 1]) = n
  <2> DEFINE c == Digits[n + 1]
  <2>1. n + 1 \in 1..10 /\ (n + 1) - 1 = n OBVIOUS
  <2>2. IsDigit(c)  BY <2>1 DEF IsDigit
  <2>3. (CHOOSE i \in 1..10 : Digits[i] = c) = n + 1
    BY <1>1, <2>1
  <2>4. Value(c) = (CHOOSE i \in 1..10 : Digits[i] = c) - 1  BY DEF Value
  <2> HIDE DEF c
  <2>5. Value(c) = n  BY <2>1, <2>3, <2>4
  <2> QED  BY <2>2, <2>5 DEF c
<1>3. ASSUME NEW n \in 0..9 PROVE Digits[n + 1] \in PathToken
  <2>1. n + 1 \in 1..10  OBVIOUS
  <2>2. Digits[n + 1] \in Token  BY <2>1 DEF Token
  <2>3. Digits[n + 1] # ":" /\ Digits[n + 1] # ","  BY <1>0, <2>1, TenDigits
  <2> QED  BY <2>2, <2>3 DEF PathToken
<1>4. ASSUME NEW c \in Words
      PROVE  ~IsDigit(c)
  BY <1>0, TenDigits DEF IsDigit, Words
<1> QED  BY <1>2, <1>3, <1>4

\* A sequence with one element more at its end
LEMMA AppendedIs ==
  ASSUME NEW S, NEW s \in Seq(S), NEW c \in S
  PROVE  /\ s \o <<c>> \in Seq(S) /\ Len(s) \in Nat
         /\ Len(s \o <<c>>) = Len(s) + 1 /\ (s \o <<c>>)[Len(s) + 1] = c
         /\ \A i \in 1..Len(s) : (s \o <<c>>)[i] = s[i]
<1>1. <<c>> \in Seq(S) /\ Len(<<c>>) = 1 /\ <<c>>[1] = c  OBVIOUS
<1>2. Len(s) \in Nat  BY LenProperties
<1> DEFINE e == <<c>>
           t == s \o e
<1>3. e \in Seq(S) /\ Len(e) = 1 /\ e[1] = c  BY <1>1
<1> HIDE DEF e
<1>4. /\ t \in Seq(S) /\ Len(t) = Len(s) + Len(e)
      /\ \A i \in 1..(Len(s) + Len(e)) :
           t[i] = IF i <= Len(s) THEN s[i] ELSE e[i - Len(s)]
  BY <1>3, ConcatProperties
<1> HIDE DEF t
<1>5. /\ Len(t) = Len(s) + 1 /\ t[Len(s) + 1] = c
      /\ \A i \in 1..Len(s) : t[i] = s[i]
  BY <1>2, <1>3, <1>4
<1> QED  BY <1>2, <1>4, <1>5 DEF t, e

\* How many digits there are: the first character that is none ends them.
LEMMA DigitCountIs ==
  ASSUME NEW s \in Seq(Token)
  PROVE  /\ DigitCount(s) \in 0..Len(s)
         /\ \A i \in 1..DigitCount(s) : IsDigit(s[i])
         /\ DigitCount(s) < Len(s) => ~IsDigit(s[DigitCount(s) + 1])
<1> DEFINE t == s \o <<"">>
           I == {i \in 1..Len(t) : ~IsDigit(t[i])}
           m == Min(I)
<1>0. "" \in Token /\ ~IsDigit("")  BY DigitsAre DEF Token, Words
<1>1. Len(s) \in Nat /\ Len(t) = Len(s) + 1  BY <1>0, AppendedIs, Zenon
<1>2. ~IsDigit(t[Len(s) + 1])
  <2>1. t[Len(s) + 1] = ""  BY <1>0, AppendedIs, Zenon
  <2> QED  BY <1>0, <2>1, Zenon
<1>3. \A i \in 1..Len(s) : t[i] = s[i]
  <2> DEFINE c == ""
  <2>1. c \in Token  BY <1>0
  <2> HIDE DEF c
  <2>2. \A i \in 1..Len(s) : (s \o <<c>>)[i] = s[i]  BY <2>1, AppendedIs
  <2> QED  BY <2>2 DEF c
<1>4. DigitCount(s) = (IF I # {} THEN m ELSE 0) - 1
  BY Zenon DEF DigitCount, SelectInSeq
<1> HIDE DEF t
<1>5. I \in SUBSET Nat /\ Len(s) + 1 \in I
  BY <1>1, <1>2
<1>6. m \in I /\ \A y \in I : m <= y
  <2> HIDE DEF I
  <2> QED  BY <1>5, MinIs
<1>7. m \in 1..(Len(s) + 1) /\ ~IsDigit(t[m])  BY <1>1, <1>6
<1>8. \A i \in 1..Len(t) : ~(m <= i) => IsDigit(t[i])  BY <1>6
<1>9. DigitCount(s) = m - 1  BY <1>4, <1>5
<1> HIDE DEF m, I
<1>10. \A i \in 1..(m - 1) : IsDigit(t[i])  BY <1>1, <1>7, <1>8
<1> QED  BY <1>1, <1>3, <1>7, <1>9, <1>10

\* A number of one digit
LEMMA OneDigit ==
  ASSUME NEW s \in Seq(Token), NEW n \in 0..9, Len(s) >= 2,
         s[1] = Digits[n + 1], ~IsDigit(s[2])
  PROVE  DigitCount(s) = 1 /\ Number(s) = n
<1>1. DigitCount(s) = 1
  <2>1. IsDigit(s[1]) /\ Len(s) \in Nat  BY DigitsAre, LenProperties
  <2> QED  BY <2>1, DigitCountIs
<1>2. Value(s[1]) = n  BY DigitsAre
<1> DEFINE Read(f) == f = [k \in 0..1 |-> IF k = 0 THEN 0
                                          ELSE 10 * f[k - 1] + Value(s[k])]
           w == [k \in 0..1 |-> IF k = 0 THEN 0 ELSE n]
<1>3. Read(w)  BY <1>2
<1>4. Read(CHOOSE f : Read(f))
  <2> HIDE DEF Read, w
  <2> QED  BY <1>3
<1>5. ASSUME NEW f, Read(f) PROVE f[1] = n
  <2>1. f[0] = 0 /\ f[1] = 10 * f[0] + Value(s[1])  BY <1>5
  <2> QED  BY <2>1, <1>2
<1>6. Number(s) = (CHOOSE f : Read(f))[1]  BY <1>1 DEF Number
<1> HIDE DEF Read
<1> QED  BY <1>1, <1>4, <1>5, <1>6

\* What is left of a sequence behind its first n elements
LEMMA RestIs ==
  ASSUME NEW S, NEW s \in Seq(S), NEW n \in 0..Len(s)
  PROVE  /\ Rest(s, n) \in Seq(S) /\ Len(Rest(s, n)) = Len(s) - n
         /\ \A i \in 1..(Len(s) - n) : Rest(s, n)[i] = s[n + i]
<1>1. Len(s) \in Nat  BY LenProperties
<1>2. n \in Int /\ n + 1 \in Int /\ Len(s) \in Int  BY <1>1
<1>3. \A i \in (n + 1)..Len(s) : s[i] \in S
  <2>1. \A i \in (n + 1)..Len(s) : i \in 1..Len(s)  BY <1>2
  <2> QED  BY <2>1, ElementOfSeq
<1> DEFINE m == n + 1
           l == Len(s)
           r == SubSeq(s, m, l)
<1>4. /\ r \in Seq(S) /\ Len(r) = IF m <= l THEN l - m + 1 ELSE 0
      /\ \A i \in 1..(l - m + 1) : r[i] = s[m + i - 1]
  <2> HIDE DEF m, l
  <2> QED  BY <1>2, <1>3, SubSeqProperties DEF m, l
<1>5. Rest(s, n) = r  BY DEF Rest
<1> HIDE DEF r
<1>6. Len(r) = Len(s) - n /\ \A i \in 1..(Len(s) - n) : r[i] = s[n + i]
  <2>1. Len(r) = Len(s) - n  BY <1>1, <1>4
  <2>2. ASSUME NEW i \in 1..(Len(s) - n) PROVE r[i] = s[n + i]
    <3>1. i \in 1..(l - m + 1) /\ m + i - 1 = n + i  BY <1>1
    <3> QED  BY <1>4, <3>1
  <2> QED  BY <2>1, <2>2
<1> QED  BY <1>4, <1>5, <1>6

\* What it is to begin with another sequence
LEMMA PrefixIs ==
  ASSUME NEW S, NEW s \in Seq(S), NEW t \in Seq(S)
  PROVE  IsPrefix(s, t) <=>
           Len(s) <= Len(t) /\ \A i \in 1..Len(s) : s[i] = t[i]
<1> DEFINE n == Len(s)
           u == SubSeq(t, 1, n)
<1>1. Len(s) \in Nat /\ Len(t) \in Nat  BY LenProperties
<1>2. SubSeq(s, 1, n) = s  BY SubSeqFull
<1>3. IsPrefix(s, t) <=> n <= Len(t) /\ s = u  BY <1>2 DEF IsPrefix
<1>4. ASSUME n <= Len(t)
      PROVE  u \in Seq(S) /\ Len(u) = n /\ \A i \in 1..n : u[i] = t[i]
  <2>1. \A i \in 1..n : t[i] \in S
    <3>1. \A i \in 1..n : i \in 1..Len(t)  BY <1>1, <1>4
    <3> QED  BY <3>1, ElementOfSeq
  <2>2. n \in Int /\ 1 \in Int  BY <1>1
  <2>3. /\ u \in Seq(S) /\ Len(u) = IF 1 <= n THEN n - 1 + 1 ELSE 0
        /\ \A i \in 1..(n - 1 + 1) : u[i] = t[1 + i - 1]
    <3> HIDE DEF n
    <3> QED  BY <2>1, <2>2, SubSeqProperties
  <2> HIDE DEF u
  <2>4. Len(u) = n  BY <1>1, <2>3
  <2>5. ASSUME NEW i \in 1..n PROVE u[i] = t[i]
    <3>1. i \in 1..(n - 1 + 1) /\ 1 + i - 1 = i  BY <1>1
    <3> QED  BY <2>3, <3>1
  <2> QED  BY <2>3, <2>4, <2>5
<1> HIDE DEF u
<1>5. ASSUME n <= Len(t) PROVE s = u <=> \A i \in 1..n : s[i] = t[i]
  <2>1. ASSUME \A i \in 1..n : s[i] = t[i] PROVE s = u
    BY <1>4, <1>5, <2>1, SeqEqual
  <2> QED  BY <1>4, <1>5, <2>1
<1> QED  BY <1>3, <1>5

\* The names of the configurations
LEMMA ConfigsAre ==
  /\ ConfigStr[0] = <<ST>> /\ ConfigStr[1] = <<ST, Stream>>
  /\ ConfigStr[2] = <<MT>> /\ ConfigStr[3] = <<MT, Stream>>
<1>1. 0 \in 0..3 /\ 1 \in 0..3 /\ 2 \in 0..3 /\ 3 \in 0..3  OBVIOUS
<1>2. 1 # 0 /\ 2 # 0 /\ 2 # 1 /\ 3 # 0 /\ 3 # 1 /\ 3 # 2  OBVIOUS
<1> QED  BY <1>1, <1>2, Zenon DEF ConfigStr, ST, MT, Stream

\* Sequences of one and of two elements
LEMMA PairIs ==
  ASSUME NEW S, NEW a \in S, NEW b \in S
  PROVE  /\ <<a>> \in Seq(S) /\ Len(<<a>>) = 1 /\ <<a>>[1] = a
         /\ <<a, b>> \in Seq(S) /\ Len(<<a, b>>) = 2
         /\ <<a, b>>[1] = a /\ <<a, b>>[2] = b
OBVIOUS

\* What it is to begin with one token, or with two
LEMMA BeginsWith ==
  ASSUME NEW t \in Seq(Token)
  PROVE  /\ \A a \in Token : IsPrefix(<<a>>, t) <=> Len(t) >= 1 /\ t[1] = a
         /\ \A a, b \in Token : IsPrefix(<<a, b>>, t) <=>
              Len(t) >= 2 /\ t[1] = a /\ t[2] = b
<1>1. Len(t) \in Nat  BY LenProperties
<1>2. ASSUME NEW a \in Token
      PROVE  IsPrefix(<<a>>, t) <=> Len(t) >= 1 /\ t[1] = a
  <2> DEFINE s == <<a>>
  <2>1. s \in Seq(Token) /\ Len(s) = 1 /\ s[1] = a  BY PairIs
  <2> HIDE DEF s
  <2>2. IsPrefix(s, t) <=>
           Len(s) <= Len(t) /\ \A i \in 1..Len(s) : s[i] = t[i]
    <3>1. s \in Seq(Token)  BY <2>1
    <3> QED  BY <3>1, PrefixIs
  <2>3. IsPrefix(s, t) <=> Len(t) >= 1 /\ t[1] = a  BY <1>1, <2>1, <2>2
  <2> QED  BY <2>3 DEF s
<1>3. ASSUME NEW a \in Token, NEW b \in Token
      PROVE  IsPrefix(<<a, b>>, t) <=> Len(t) >= 2 /\ t[1] = a /\ t[2] = b
  <2> DEFINE s == <<a, b>>
  <2>1. s \in Seq(Token) /\ Len(s) = 2 /\ s[1] = a /\ s[2] = b  BY PairIs
  <2> HIDE DEF s
  <2>2. IsPrefix(s, t) <=>
           Len(s) <= Len(t) /\ \A i \in 1..Len(s) : s[i] = t[i]
    <3>1. s \in Seq(Token)  BY <2>1
    <3> QED  BY <3>1, PrefixIs
  <2>4. (\A i \in 1..Len(s) : s[i] = t[i]) <=> t[1] = a /\ t[2] = b
    BY <2>1
  <2>3. IsPrefix(s, t) <=> Len(t) >= 2 /\ t[1] = a /\ t[2] = b
    BY <1>1, <2>1, <2>2, <2>4
  <2> QED  BY <2>3 DEF s
<1> QED  BY <1>2, <1>3

\* The names that a string can begin with are told apart by what follows.
LEMMA NamedIs ==
  ASSUME NEW t \in Seq(Token), NEW c \in 0..3, IsPrefix(ConfigStr[c], t),
         Len(t) > Len(ConfigStr[c]), t[Len(ConfigStr[c]) + 1] = Close
  PROVE  NamedConfig(t) = c
<1> DEFINE named == {d \in 0..3 : IsPrefix(ConfigStr[d], t)}
<1>1. /\ IsPrefix(ConfigStr[0], t) <=> Len(t) >= 1 /\ t[1] = ST
      /\ IsPrefix(ConfigStr[1], t) <=> Len(t) >= 2 /\ t[1] = ST /\ t[2] = Stream
      /\ IsPrefix(ConfigStr[2], t) <=> Len(t) >= 1 /\ t[1] = MT
      /\ IsPrefix(ConfigStr[3], t) <=> Len(t) >= 2 /\ t[1] = MT /\ t[2] = Stream
  BY WordsAre, ConfigsAre, BeginsWith
<1>2. /\ Len(ConfigStr[0]) = 1 /\ Len(ConfigStr[1]) = 2
      /\ Len(ConfigStr[2]) = 1 /\ Len(ConfigStr[3]) = 2
  BY ConfigsAre
<1>3. c = 0 \/ c = 1 \/ c = 2 \/ c = 3  OBVIOUS
<1>4. ASSUME NEW d \in named PROVE d <= c
  <2>1. d \in 0..3 /\ IsPrefix(ConfigStr[d], t)  OBVIOUS
  <2>2. d = 0 \/ d = 1 \/ d = 2 \/ d = 3  BY <2>1
  <2>3. c = 0 \/ c = 2 => t[2] # Stream
    <3>1. c = 0 \/ c = 2 => Len(ConfigStr[c]) = 1  BY <1>2, Zenon
    <3>2. 1 + 1 = 2  OBVIOUS
    <3>3. c = 0 \/ c = 2 => t[2] = Close  BY <3>1, <3>2, Zenon
    <3> QED  BY <3>3, WordsAre, Zenon
  <2>4. c = 0 \/ c = 1 => t[1] # MT  BY <1>1, WordsAre
  <2>5. d = 2 \/ d = 3 => t[1] = MT  BY <1>1, <2>1
  <2>6. d = 1 \/ d = 3 => t[2] = Stream  BY <1>1, <2>1
  <2> HIDE DEF named
  <2> QED  BY <1>3, <2>2, <2>3, <2>4, <2>5, <2>6
<1>5. c \in named /\ named \subseteq 0..3  OBVIOUS
<1>6. NamedConfig(t) = IF named = {} THEN -1
                       ELSE CHOOSE x \in named : \A d \in named : x >= d
  BY DEF NamedConfig
<1> HIDE DEF named
<1>7. \A x \in named : (\A d \in named : x >= d) => x = c
  BY <1>4, <1>5
<1>8. \E x \in named : \A d \in named : x >= d
  BY <1>4, <1>5
<1> QED  BY <1>5, <1>6, <1>7, <1>8

\* A pass that can be written
IsPass(a) ==
  /\ a = [config |-> a.config, level |-> a.level, N |-> a.N]
  /\ a.config \in 0..3 /\ a.level \in Nat /\ a.N \in 1..MaxButWidth
  /\ a.N <= a.level

\* The tokens a pass is written with: a digit, and a name in brackets
LEMMA StepIs ==
  ASSUME NEW S, PathToken \subseteq S, NEW a, IsPass(a)
  PROVE  LET u == StepString(a)
             l == Len(ConfigStr[a.config]) IN
         /\ u \in Seq(S) /\ l \in {1, 2} /\ Len(u) = l + 4
         /\ ConfigStr[a.config] \in Seq(S)
         /\ u[1] = Digits[a.N + 1] /\ u[2] = Open /\ u[l + 3] = Close
         /\ u[l + 4] = Blank
         /\ \A i \in 1..l : u[i + 2] = ConfigStr[a.config][i]
<1> DEFINE digit == Digits[a.N + 1]
           name == ConfigStr[a.config]
           x == <<digit, Open>>
           y == <<Close, Blank>>
           u == x \o name \o y
           l == Len(name)
<1>1. StepString(a) = u
  BY DEF StepString, Open, Close, Blank
<1>2. name \in Seq(S) /\ l \in {1, 2}
  <2>1. \A c \in 0..3 : ConfigStr[c] \in Seq(S) /\ Len(ConfigStr[c]) \in {1, 2}
    <3>1. \A c \in 0..3 : c = 0 \/ c = 1 \/ c = 2 \/ c = 3  OBVIOUS
    <3>2. /\ <<ST>> \in Seq(S) /\ Len(<<ST>>) = 1
          /\ <<MT>> \in Seq(S) /\ Len(<<MT>>) = 1
          /\ <<ST, Stream>> \in Seq(S) /\ Len(<<ST, Stream>>) = 2
          /\ <<MT, Stream>> \in Seq(S) /\ Len(<<MT, Stream>>) = 2
      BY WordsAre, PairIs
    <3> QED  BY <3>1, <3>2, ConfigsAre
  <2> QED  BY <2>1 DEF IsPass
<1>3. digit \in S
  <2>1. a.N \in 0..9  BY WidthIs DEF IsPass
  <2> QED  BY <2>1, DigitsAre
<1> HIDE DEF digit
<1>4. x \in Seq(S) /\ Len(x) = 2 /\ x[1] = digit /\ x[2] = Open
  BY <1>3, WordsAre, PairIs
<1>5. y \in Seq(S) /\ Len(y) = 2 /\ y[1] = Close /\ y[2] = Blank
  BY WordsAre, PairIs
<1> HIDE DEF x, y, name
<1> DEFINE v == x \o name
<1>6. /\ v \in Seq(S) /\ Len(v) = Len(x) + Len(name)
      /\ \A i \in 1..(Len(x) + Len(name)) :
           v[i] = IF i <= Len(x) THEN x[i] ELSE name[i - Len(x)]
  BY <1>2, <1>4, ConcatProperties
<1> HIDE DEF v
<1>7. /\ v \o y \in Seq(S) /\ Len(v \o y) = Len(v) + Len(y)
      /\ \A i \in 1..(Len(v) + Len(y)) :
           (v \o y)[i] = IF i <= Len(v) THEN v[i] ELSE y[i - Len(v)]
  <2>1. v \in Seq(S) /\ y \in Seq(S)  BY <1>5, <1>6
  <2> QED  BY <2>1, ConcatProperties
<1> DEFINE w == v \o y
<1>8. u = w  BY DEF v
<1> HIDE DEF l, u, w
<1>9. l \in Int /\ Len(v) = l + 2 /\ Len(w) = l + 4
  BY <1>2, <1>4, <1>5, <1>6, <1>7 DEF w, l
<1>10. ASSUME NEW i \in 1..(l + 4)
       PROVE  w[i] = IF i <= 2 THEN x[i] ELSE
                     IF i <= l + 2 THEN name[i - 2] ELSE y[i - (l + 2)]
  <2>1. w[i] = IF i <= l + 2 THEN v[i] ELSE y[i - (l + 2)]
    BY <1>5, <1>7, <1>9 DEF w
  <2>2. i <= l + 2 => v[i] = IF i <= 2 THEN x[i] ELSE name[i - 2]
    BY <1>4, <1>6, <1>9 DEF l
  <2> QED  BY <1>2, <1>9, <2>1, <2>2
<1>11. /\ w[1] = digit /\ w[2] = Open /\ w[l + 3] = Close /\ w[l + 4] = Blank
       /\ \A i \in 1..l : w[i + 2] = name[i]
  <2>1. w[1] = x[1] /\ w[2] = x[2]  BY <1>2, <1>10
  <2>2. w[l + 3] = y[1] /\ w[l + 4] = y[2]  BY <1>2, <1>10
  <2>3. ASSUME NEW i \in 1..l PROVE w[i + 2] = name[i]
    <3>1. /\ i + 2 \in 1..(l + 4) /\ ~(i + 2 <= 2) /\ i + 2 <= l + 2
          /\ (i + 2) - 2 = i
      BY <1>9
    <3> QED  BY <1>10, <3>1
  <2> QED  BY <1>4, <1>5, <2>1, <2>2, <2>3
<1> QED  BY <1>1, <1>2, <1>7, <1>8, <1>9, <1>11 DEF l, name, digit, w

\* A blank is behind each pass.
LEMMA StepEnds ==
  ASSUME NEW a, IsPass(a)
  PROVE  /\ Len(StepString(a)) \in Nat /\ Len(StepString(a)) >= 1
         /\ StepString(a)[Len(StepString(a))] = Blank
<1> DEFINE u == StepString(a)
           l == Len(ConfigStr[a.config])
<1>1. l \in {1, 2} /\ Len(u) = l + 4 /\ u[l + 4] = Blank
  BY WordsAre, StepIs
<1> HIDE DEF u, l
<1>2. Len(u) \in Nat /\ Len(u) >= 1 /\ u[Len(u)] = Blank  BY <1>1
<1> QED  BY <1>2 DEF u

\* The tokens of u are in s, behind the first i.
At(u, s, i) ==
  /\ i \in Nat /\ i + Len(u) <= Len(s)
  /\ \A j \in 1..Len(u) : s[i + j] = u[j]

\* A blank is skipped.
LEMMA ReadsBlank ==
  ASSUME NEW s \in Seq(Token), NEW i \in 0..Len(s), i # Len(s),
         s[i + 1] = Blank, NEW what, NEW level
  PROVE  Turn(s, what, i, level) = what[i + 1][level]
<1>1. Rest(s, i)[1] = s[i + 1]
  <2>1. Len(s) \in Nat  BY LenProperties
  <2>2. 1 \in 1..(Len(s) - i) /\ i + 1 = i + 1  BY <2>1
  <2> QED  BY <2>2, RestIs
<1> QED  BY <1>1, Zenon DEF Turn, Blank

\* The end of the string ends the path.
LEMMA ReadsEnd ==
  ASSUME NEW s, NEW what
  PROVE  Turn(s, what, Len(s), 0) = <<>>
BY DEF Turn

\* A pass is read as it was written, up to the blank behind it.
LEMMA ReadsPass ==
  ASSUME NEW s \in Seq(Token), NEW a, IsPass(a), NEW i,
         At(StepString(a), s, i), NEW what
  PROVE  Turn(s, what, i, a.level) =
           Followed(a, what[i + Len(StepString(a)) - 1][a.level - a.N])
<1> DEFINE u == StepString(a)
           name == ConfigStr[a.config]
           l == Len(name)
           r == Rest(s, i)
           t == Rest(r, 2)
<1>1. /\ u \in Seq(Token) /\ l \in {1, 2} /\ Len(u) = l + 4
      /\ u[1] = Digits[a.N + 1] /\ u[2] = Open /\ u[l + 3] = Close
      /\ \A j \in 1..l : u[j + 2] = name[j]
      /\ name \in Seq(Token)
  BY WordsAre, StepIs
<1>2. i \in Nat /\ i + Len(u) <= Len(s) /\ \A j \in 1..Len(u) : s[i + j] = u[j]
  BY DEF At
<1> HIDE DEF u, l
<1>3. Len(s) \in Nat /\ i \in 0..Len(s)
  <2>1. Len(s) \in Nat  BY LenProperties
  <2> QED  BY <1>1, <1>2, <2>1
<1>4. r \in Seq(Token) /\ Len(r) = Len(s) - i
      /\ \A j \in 1..(Len(s) - i) : r[j] = s[i + j]
  BY <1>3, RestIs
<1> HIDE DEF r
<1>5. Len(r) \in Nat /\ Len(r) >= l + 4 /\ \A j \in 1..(l + 4) : r[j] = u[j]
  <2>1. Len(r) \in Nat /\ Len(r) >= l + 4  BY <1>1, <1>2, <1>3, <1>4
  <2>2. ASSUME NEW j \in 1..(l + 4) PROVE r[j] = u[j]
    <3>1. j \in 1..(Len(s) - i) /\ j \in 1..Len(u)
      BY <1>1, <1>2, <1>3, <1>4, <2>1
    <3> QED  BY <1>2, <1>4, <3>1
  <2> QED  BY <2>1, <2>2
<1>6. r[1] = Digits[a.N + 1] /\ r[2] = Open /\ r[l + 3] = Close
  <2>1. 1 \in 1..(l + 4) /\ 2 \in 1..(l + 4) /\ l + 3 \in 1..(l + 4)  BY <1>1
  <2> QED  BY <1>1, <1>5, <2>1, Zenon
<1>7. DigitCount(r) = 1 /\ Number(r) = a.N
  <2>1. a.N \in 0..9  BY WidthIs DEF IsPass
  <2>2. ~IsDigit(Open)  BY DigitsAre DEF Words, Open
  <2>3. ~IsDigit(r[2])  BY <1>6, <2>2, Zenon
  <2>4. Len(r) >= 2  BY <1>1, <1>5
  <2> QED  BY <1>4, <1>6, <2>1, <2>3, <2>4, OneDigit, Zenon
<1>8. t \in Seq(Token) /\ Len(t) = Len(r) - 2
      /\ \A j \in 1..(Len(r) - 2) : t[j] = r[2 + j]
  <2>1. 2 \in 0..Len(r) /\ r \in Seq(Token)  BY <1>1, <1>4, <1>5
  <2> QED  BY <2>1, RestIs
<1> HIDE DEF t
<1>9. IsPrefix(name, t) /\ Len(t) > l /\ t[l + 1] = Close
  <2>1. Len(t) \in Nat /\ l + 1 <= Len(t)  BY <1>1, <1>5, <1>8
  <2>2. ASSUME NEW j \in 1..l PROVE name[j] = t[j]
    <3>1. j \in 1..(Len(r) - 2) /\ 2 + j \in 1..(l + 4) /\ 2 + j = j + 2
      BY <1>1, <1>8, <2>1
    <3>2. t[j] = r[2 + j]  BY <1>8, <3>1
    <3>3. r[2 + j] = u[2 + j]  BY <1>5, <3>1
    <3>4. u[2 + j] = name[j]  BY <1>1, <3>1
    <3> QED  BY <3>2, <3>3, <3>4
  <2>3. t[l + 1] = Close
    <3>1. l + 1 \in 1..(Len(r) - 2) /\ 2 + (l + 1) = l + 3
      BY <1>1, <1>8, <2>1
    <3>2. t[l + 1] = r[2 + (l + 1)]  BY <1>8, <3>1
    <3> QED  BY <1>6, <3>1, <3>2, Zenon
  <2>4. IsPrefix(name, t)
    <3>1. l <= Len(t)  BY <1>1, <2>1
    <3> QED  BY <1>1, <1>8, <2>2, <3>1, PrefixIs DEF l
  <2> QED  BY <1>1, <2>1, <2>3, <2>4
<1>10. NamedConfig(t) = a.config
  <2>1. a.config \in 0..3  BY DEF IsPass
  <2> QED  BY <1>8, <1>9, <2>1, NamedIs, Zenon DEF l, name
<1> DEFINE Pass == [config |-> a.config, level |-> a.level, N |-> a.N]
<1>11. Turn(s, what, i, a.level) =
         Followed(Pass, what[i + (2 + l) + 1][a.level - a.N])
  <2>1. i # Len(s) /\ 1 # 0 /\ 1 # Len(r) /\ 2 + l # Len(r) /\ a.config # -1
        /\ ~(a.N > MaxButWidth) /\ ~(a.N > a.level)
        /\ 1 + 1 + l = 2 + l /\ 1 + 1 = 2
    <3>1. l \in Nat /\ Len(u) \in Nat /\ Len(u) > 0  BY <1>1
    <3>2. i # Len(s)  BY <1>2, <1>3, <3>1
    <3>3. 1 # Len(r) /\ 2 + l # Len(r) /\ 1 + 1 + l = 2 + l
      BY <1>5, <3>1
    <3>4. a.config # -1 /\ ~(a.N > MaxButWidth) /\ ~(a.N > a.level)
      <4>1. /\ a.config \in 0..3 /\ a.level \in Nat /\ a.N <= a.level
            /\ a.N \in 1..MaxButWidth
        BY DEF IsPass
      <4> QED  BY <4>1, WidthIs
    <3> QED  BY <3>2, <3>3, <3>4
  <2>2. r[1] # Blank
    <3>1. IsDigit(r[1])  BY <1>6, DigitsAre, WidthIs DEF IsPass
    <3>2. ~IsDigit(Blank)  BY DigitsAre DEF Words, Blank
    <3> QED  BY <3>1, <3>2, Zenon
  <2> DEFINE Body(n, N, config, end) ==
               IF i = Len(s) THEN IF a.level = 0 THEN <<>> ELSE Malformed
               ELSE IF r[1] = Blank THEN what[i + 1][a.level]
               ELSE IF n = 0 \/ N > MaxButWidth \/ N > a.level THEN Malformed
               ELSE IF n = Len(r) \/ r[n + 1] # Open
               THEN Followed([config |-> 0, level |-> a.level, N |-> N],
                             what[i + n][a.level - N])
               ELSE IF config = -1 \/ end = Len(r) \/ r[end + 1] # Close
               THEN Malformed
               ELSE Followed([config |-> config, level |-> a.level, N |-> N],
                             what[i + end + 1][a.level - N])
  <2>3. Turn(s, what, i, a.level) =
          LET n == DigitCount(r)
              config == NamedConfig(Rest(r, n + 1)) IN
          Body(n, Number(r), config, n + 1 + Len(ConfigStr[config]))
    BY DEF Turn, r, Blank, Open, Close
  <2>4. Turn(s, what, i, a.level) = Body(1, a.N, a.config, 2 + l)
    BY <1>7, <1>10, <2>1, <2>3 DEF t, l, name
  <2>5. r[2 + l + 1] = Close /\ r[1 + 1] = Open
    <3>1. 2 + l + 1 = l + 3  BY <1>1
    <3> QED  BY <1>6, <2>1, <3>1
  <2> QED  BY <2>1, <2>2, <2>4, <2>5, Zenon
<1>12. Pass = a  BY DEF IsPass
<1>13. i + (2 + l) + 1 = i + Len(u) - 1  BY <1>1, <1>2
<1> QED  BY <1>11, <1>12, <1>13 DEF u

\* What a named configuration is
LEMMA NamedConfigIs ==
  ASSUME NEW t
  PROVE  \/ NamedConfig(t) = -1
         \/ /\ NamedConfig(t) \in 0..3
            /\ IsPrefix(ConfigStr[NamedConfig(t)], t)
<1> DEFINE named == {d \in 0..3 : IsPrefix(ConfigStr[d], t)}
<1>1. NamedConfig(t) = IF named = {} THEN -1
                       ELSE CHOOSE x \in named : \A d \in named : x >= d
  BY DEF NamedConfig
<1>2. ASSUME named # {} PROVE \E x \in named : \A d \in named : x >= d
  <2>1. named \subseteq 0..3  OBVIOUS
  <2> HIDE DEF named
  <2>2. \A d \in named : d = 0 \/ d = 1 \/ d = 2 \/ d = 3  BY <2>1
  <2> QED  BY <1>2, <2>2
<1>3. named = {} \/ NamedConfig(t) \in named
  <2> HIDE DEF named
  <2> QED  BY <1>1, <1>2
<1> QED  BY <1>1, <1>3

\* f and g are the same behind place i of s.
Agree(f, g, i, s) == \A j \in (i + 1)..Len(s) : f[j] = g[j]

\* A turn looks only at what is read from places further on.
LEMMA TurnLocal ==
  ASSUME NEW s \in Seq(Token), NEW i \in 0..Len(s), NEW f, NEW g,
         Agree(f, g, i, s), NEW level
  PROVE  Turn(s, f, i, level) = Turn(s, g, i, level)
<1> DEFINE r == Rest(s, i)
           n == DigitCount(r)
           config == NamedConfig(Rest(r, n + 1))
           end == n + 1 + Len(ConfigStr[config])
<1>1. Len(s) \in Nat /\ i \in Nat /\ i <= Len(s)  BY LenProperties
<1>2. r \in Seq(Token) /\ Len(r) = Len(s) - i  BY RestIs
<1> HIDE DEF r
<1>3. n \in Nat /\ n <= Len(r)  BY <1>1, <1>2, DigitCountIs
<1> HIDE DEF n
<1>4. ASSUME i # Len(s) PROVE f[i + 1] = g[i + 1]
  <2>1. i + 1 \in (i + 1)..Len(s)  BY <1>1, <1>4
  <2> QED  BY <2>1 DEF Agree
<1>5. ASSUME n # 0 PROVE f[i + n] = g[i + n]
  <2>1. i + n \in (i + 1)..Len(s)  BY <1>1, <1>2, <1>3, <1>5
  <2> QED  BY <2>1 DEF Agree
<1>6. ASSUME n # Len(r), config # -1, end # Len(r)
      PROVE  f[i + end + 1] = g[i + end + 1]
  <2>1. n + 1 \in 0..Len(r)  BY <1>1, <1>2, <1>3, <1>6
  <2>2. Len(Rest(r, n + 1)) = Len(r) - (n + 1)  BY <1>2, <2>1, RestIs
  <2>3. config \in 0..3 /\ IsPrefix(ConfigStr[config], Rest(r, n + 1))
    BY <1>6, NamedConfigIs
  <2> DEFINE l == Len(ConfigStr[config])
  <2>4. l <= Len(r) - (n + 1)  BY <2>2, <2>3 DEF IsPrefix
  <2>5. l \in Nat
    <3>1. \A c \in 0..3 : c = 0 \/ c = 1 \/ c = 2 \/ c = 3  OBVIOUS
    <3>2. \A c \in 0..3 : Len(ConfigStr[c]) \in Nat
      BY <3>1, ConfigsAre
    <3> QED  BY <2>3, <3>2
  <2>6. end = n + 1 + l  OBVIOUS
  <2> HIDE DEF l, end
  <2>7. end \in Nat /\ end < Len(r)
    <3>1. end \in Nat  BY <1>3, <2>5, <2>6
    <3>2. end <= Len(r)  BY <1>1, <1>2, <1>3, <2>4, <2>5, <2>6
    <3>3. end # Len(r)  BY <1>6
    <3> QED  BY <1>1, <1>2, <3>1, <3>2, <3>3
  <2>8. i + end + 1 \in (i + 1)..Len(s)  BY <1>1, <1>2, <2>7
  <2> QED  BY <2>8 DEF Agree
<1> DEFINE N == Number(r)
           Body(h) ==
             IF i = Len(s) THEN IF level = 0 THEN <<>> ELSE Malformed
             ELSE IF r[1] = " " THEN h[i + 1][level]
             ELSE IF n = 0 \/ N > MaxButWidth \/ N > level THEN Malformed
             ELSE IF n = Len(r) \/ r[n + 1] # "("
             THEN Followed([config |-> 0, level |-> level, N |-> N],
                           h[i + n][level - N])
             ELSE IF config = -1 \/ end = Len(r) \/ r[end + 1] # ")"
             THEN Malformed
             ELSE Followed([config |-> config, level |-> level, N |-> N],
                           h[i + end + 1][level - N])
<1>7. ASSUME NEW h PROVE Turn(s, h, i, level) = Body(h)
  BY DEF Turn, r, n
<1> HIDE DEF config, end, N
<1>8. Body(f) = Body(g)  BY <1>4, <1>5, <1>6, Zenon
<1> HIDE DEF Body
<1> QED  BY <1>7, <1>8

\* f is what is read from the places m on, where there are l levels at most.
Reads(f, s, l, m) ==
  f = [i \in m..Len(s) |-> [level \in 0..l |-> Turn(s, f, i, level)]]

\* There is such a table for each place: a turn does not look back.
LEMMA SomeReading ==
  ASSUME NEW s \in Seq(Token), NEW l, NEW n \in 0..Len(s)
  PROVE  \E f : Reads(f, s, l, Len(s) - n)
<1> DEFINE T == {k \in 0..Len(s) : ~ \E f : Reads(f, s, l, Len(s) - k)}
<1> SUFFICES ASSUME T # {} PROVE FALSE  OBVIOUS
<1>1. Len(s) \in Nat  BY LenProperties
<1>2. PICK k \in T : \A j \in T : k <= j
  <2>1. T \in SUBSET Nat  BY <1>1
  <2> HIDE DEF T
  <2> QED  BY <2>1, LeastNatural
<1>3. k \in 0..Len(s) /\ ~ \E f : Reads(f, s, l, Len(s) - k)  BY <1>2
<1> DEFINE m == Len(s) - k
<1>4. PICK f : \A i \in (m + 1)..Len(s) :
                 f[i] = [level \in 0..l |-> Turn(s, f, i, level)]
  <2>1. CASE k = 0
    <3>1. (m + 1)..Len(s) = {}  BY <1>1, <2>1
    <3> QED  BY <3>1
  <2>2. CASE k # 0
    <3>1. k - 1 \in 0..Len(s) /\ ~(k <= k - 1)  BY <1>1, <1>3, <2>2
    <3>2. PICK f : Reads(f, s, l, Len(s) - (k - 1))  BY <1>2, <3>1
    <3>3. Len(s) - (k - 1) = m + 1  BY <1>1, <1>3
    <3> QED  BY <3>2, <3>3 DEF Reads
  <2> QED  BY <2>1, <2>2
<1>5. m \in 0..Len(s) /\ m \in Nat  BY <1>1, <1>3
<1> HIDE DEF m
<1> DEFINE g == [i \in m..Len(s) |->
                   IF i = m THEN [level \in 0..l |-> Turn(s, f, m, level)]
                   ELSE f[i]]
<1>6. \A i \in (m + 1)..Len(s) : g[i] = f[i]  BY <1>1, <1>5
<1>7. ASSUME NEW i \in m..Len(s)
      PROVE  g[i] = [level \in 0..l |-> Turn(s, g, i, level)]
  <2>1. i \in 0..Len(s) /\ Agree(f, g, i, s)
    BY <1>1, <1>5, <1>6 DEF Agree
  <2>2. g[i] = [level \in 0..l |-> Turn(s, f, i, level)]
    <3>1. CASE i = m  BY <1>1, <1>5, <3>1
    <3>2. CASE i # m
      <4>1. i \in (m + 1)..Len(s)  BY <1>1, <1>5, <3>2
      <4> QED  BY <1>4, <1>6, <4>1 DEF m
    <3> QED  BY <3>1, <3>2
  <2> HIDE DEF g
  <2>3. \A level : Turn(s, f, i, level) = Turn(s, g, i, level)
    BY <2>1, TurnLocal
  <2> QED  BY <2>2, <2>3
<1>8. Reads(g, s, l, m)
  <2>1. g = [i \in m..Len(s) |-> g[i]]  OBVIOUS
  <2> HIDE DEF g
  <2> QED  BY <1>7, <2>1 DEF Reads
<1> QED  BY <1>3, <1>8 DEF m

\* The table that parsePathStr looks its result up in
LEMMA ParseUnfold ==
  ASSUME NEW s \in Seq(Token), NEW l \in Nat
  PROVE  \E f : /\ \A i \in 0..Len(s) : \A level \in 0..l :
                     f[i][level] = Turn(s, f, i, level)
                /\ ParsePathStr(s, l) = f[0][l]
<1> DEFINE f == CHOOSE what : Reads(what, s, l, 0)
<1>1. Len(s) \in 0..Len(s) /\ Len(s) - Len(s) = 0
  <2>1. Len(s) \in Nat  BY LenProperties
  <2> QED  BY <2>1
<1>2. Reads(f, s, l, 0)  BY <1>1, SomeReading
<1>3. ParsePathStr(s, l) = f[0][l]  BY DEF ParsePathStr, Reads
<1> HIDE DEF f
<1>4. \A i \in 0..Len(s) : f[i] = [level \in 0..l |-> Turn(s, f, i, level)]
  BY <1>2 DEF Reads
<1> QED  BY <1>3, <1>4

\* The passes that can be written, and the paths from level l down to 0
Written ==
  {a \in [config : 0..3, level : Nat, N : 1..MaxButWidth] : a.N <= a.level}

\* The level that is left to go behind the first k passes
Left(q, k) == IF k = Len(q) THEN 0 ELSE q[k + 1].level

IsPath(q, l) ==
  /\ q \in Seq(Written) /\ Left(q, 0) = l
  /\ \A k \in 1..Len(q) : q[k].level - q[k].N = Left(q, k)

\* Passes of paths can be written.
LEMMA WrittenArePasses == \A a \in Written : IsPass(a)
BY DEF Written, IsPass

\* text[k] is how the first k passes of q are written.
Texts(text, q) ==
  /\ text[0] = <<>>
  /\ \A k \in 1..Len(q) : text[k] = text[k - 1] \o StepString(q[k])

Flattens(f, seqs, m) ==
  f = [i \in 1..m |-> IF i = 1 THEN seqs[i] ELSE f[i - 1] \o seqs[i]]

\* The function that FlattenSeq defines by recursion exists.
LEMMA SomeFlattening ==
  ASSUME NEW seqs, NEW n \in Nat
  PROVE  \E f : Flattens(f, seqs, n)
<1> DEFINE T == {k \in Nat : ~ \E f : Flattens(f, seqs, k)}
<1> SUFFICES ASSUME T # {} PROVE FALSE  OBVIOUS
<1>1. PICK k \in T : \A j \in T : k <= j
  <2>1. T \in SUBSET Nat  OBVIOUS
  <2> HIDE DEF T
  <2> QED  BY <2>1, LeastNatural
<1>2. k \in Nat /\ ~ \E f : Flattens(f, seqs, k)  BY <1>1
<1>3. PICK f : \A i \in 1..(k - 1) :
                 f[i] = IF i = 1 THEN seqs[i] ELSE f[i - 1] \o seqs[i]
  <2>1. CASE k = 0
    <3>1. 1..(k - 1) = {}  BY <1>2, <2>1
    <3> QED  BY <3>1
  <2>2. CASE k # 0
    <3>1. k - 1 \in Nat /\ ~(k <= k - 1)  BY <1>2, <2>2
    <3>2. PICK f : Flattens(f, seqs, k - 1)  BY <1>1, <3>1
    <3> QED  BY <3>2 DEF Flattens
  <2> QED  BY <2>1, <2>2
<1> DEFINE g == [i \in 1..k |->
                   IF i = k THEN IF i = 1 THEN seqs[i] ELSE f[i - 1] \o seqs[i]
                   ELSE f[i]]
<1>4. \A i \in 1..(k - 1) : g[i] = f[i]  BY <1>2
<1>5. ASSUME NEW i \in 1..k
      PROVE  g[i] = IF i = 1 THEN seqs[i] ELSE g[i - 1] \o seqs[i]
  <2>1. i # 1 => i - 1 \in 1..(k - 1)  BY <1>2
  <2>2. i = k => g[i] = IF i = 1 THEN seqs[i] ELSE f[i - 1] \o seqs[i]
    OBVIOUS
  <2>3. i # k => i \in 1..(k - 1)  BY <1>2
  <2> HIDE DEF g
  <2> QED  BY <1>3, <1>4, <2>1, <2>2, <2>3
<1>6. Flattens(g, seqs, k)
  <2>1. g = [i \in 1..k |-> g[i]]  OBVIOUS
  <2> HIDE DEF g
  <2> QED  BY <1>5, <2>1 DEF Flattens
<1> QED  BY <1>2, <1>6

\* PathString is the last of these texts.
LEMMA TextsExist ==
  ASSUME NEW q \in Seq(Written)
  PROVE  \E text : Texts(text, q) /\ PathString(q) = text[Len(q)]
<1> DEFINE n == Len(q)
           seqs == [k \in 1..n |-> StepString(q[k])]
           f == CHOOSE g : Flattens(g, seqs, n)
           text == [k \in 0..n |-> IF k = 0 THEN <<>> ELSE f[k]]
<1>1. n \in Nat  BY LenProperties
<1>2. Flattens(f, seqs, n)
  <2> HIDE DEF seqs, n
  <2> QED  BY <1>1, SomeFlattening
<1>3. \A k \in 1..n : /\ seqs[k] = StepString(q[k])
                     /\ StepString(q[k]) \in Seq(Token)
  <2>1. \A k \in 1..n : q[k] \in Written  BY ElementOfSeq
  <2> QED  BY <2>1, WrittenArePasses, WordsAre, StepIs
<1>4. Len(seqs) = n  BY <1>1
<1>5. PathString(q) = IF n = 0 THEN seqs ELSE f[n]
  <2>1. PathString(q) = FlattenSeq(seqs)  BY DEF PathString
  <2> HIDE DEF seqs, n
  <2>2. FlattenSeq(seqs) =
          IF Len(seqs) = 0 THEN seqs
          ELSE (CHOOSE g : Flattens(g, seqs, Len(seqs)))[Len(seqs)]
    BY Zenon DEF FlattenSeq, Flattens
  <2> QED  BY <1>4, <2>1, <2>2
<1>6. n = 0 => seqs = <<>>  OBVIOUS
<1> HIDE DEF n, seqs, f
<1>7. \A k \in 1..n : f[k] = IF k = 1 THEN seqs[k] ELSE f[k - 1] \o seqs[k]
  BY <1>2 DEF Flattens
<1>8. text[0] = <<>> /\ \A k \in 1..n : text[k] = f[k]  BY <1>1
<1> HIDE DEF text
<1>9. ASSUME NEW k \in 1..n PROVE text[k] = text[k - 1] \o StepString(q[k])
  <2>1. CASE k = 1
    <3>1. text[k - 1] = <<>>  BY <1>8, <2>1
    <3>2. <<>> \o StepString(q[k]) = StepString(q[k])
      BY <1>3, ConcatEmptySeq
    <3> QED  BY <1>3, <1>7, <1>8, <2>1, <3>1, <3>2
  <2>2. CASE k # 1
    <3>1. k - 1 \in 1..n  BY <1>1, <2>2
    <3> QED  BY <1>3, <1>7, <1>8, <2>2, <3>1
  <2> QED  BY <2>1, <2>2
<1>10. PathString(q) = text[n]
  <2>1. n # 0 => n \in 1..n  BY <1>1
  <2> QED  BY <1>5, <1>6, <1>8, <2>1
<1> QED  BY <1>8, <1>9, <1>10 DEF Texts, n

\* What is in a string stays in it when it grows.
LEMMA AtGrows ==
  ASSUME NEW S, NEW s \in Seq(S), NEW u \in Seq(S)
  PROVE  /\ s \o u \in Seq(S) /\ At(u, s \o u, Len(s))
         /\ Len(s \o u) = Len(s) + Len(u)
         /\ \A v, i : At(v, s, i) /\ Len(v) \in Nat => At(v, s \o u, i)
<1>1. Len(s) \in Nat /\ Len(u) \in Nat  BY LenProperties
<1> DEFINE t == s \o u
<1>2. /\ t \in Seq(S) /\ Len(t) = Len(s) + Len(u)
      /\ \A i \in 1..(Len(s) + Len(u)) :
           t[i] = IF i <= Len(s) THEN s[i] ELSE u[i - Len(s)]
  BY ConcatProperties
<1> HIDE DEF t
<1>3. At(u, t, Len(s))
  <2>1. ASSUME NEW j \in 1..Len(u) PROVE t[Len(s) + j] = u[j]
    <3>1. /\ Len(s) + j \in 1..(Len(s) + Len(u)) /\ ~(Len(s) + j <= Len(s))
          /\ (Len(s) + j) - Len(s) = j
      BY <1>1
    <3> QED  BY <1>2, <3>1
  <2> QED  BY <1>1, <1>2, <2>1 DEF At
<1>4. ASSUME NEW v, NEW i, At(v, s, i), Len(v) \in Nat PROVE At(v, t, i)
  <2>1. /\ i \in Nat /\ i + Len(v) <= Len(s)
        /\ \A j \in 1..Len(v) : s[i + j] = v[j]
    BY <1>4 DEF At
  <2>2. ASSUME NEW j \in 1..Len(v) PROVE t[i + j] = v[j]
    <3>1. i + j \in 1..(Len(s) + Len(u)) /\ i + j <= Len(s)
      BY <1>1, <1>4, <2>1
    <3> QED  BY <1>2, <2>1, <3>1
  <2>3. i + Len(v) <= Len(t)  BY <1>1, <1>2, <1>4, <2>1
  <2> QED  BY <2>1, <2>2, <2>3 DEF At
<1> QED  BY <1>2, <1>3, <1>4 DEF t

\* The texts consist of tokens.
LEMMA TextsAre ==
  ASSUME NEW S, PathToken \subseteq S, NEW q \in Seq(Written), NEW text,
         Texts(text, q), NEW n \in 0..Len(q)
  PROVE  text[n] \in Seq(S)
<1> DEFINE T == {k \in 0..Len(q) : text[k] \notin Seq(S)}
<1> SUFFICES ASSUME T # {} PROVE FALSE  OBVIOUS
<1>1. Len(q) \in Nat  BY LenProperties
<1>2. PICK k \in T : \A j \in T : k <= j
  <2>1. T \in SUBSET Nat  BY <1>1
  <2> HIDE DEF T
  <2> QED  BY <2>1, LeastNatural
<1>3. k \in 0..Len(q) /\ text[k] \notin Seq(S)  BY <1>2
<1>4. k # 0
  <2>1. text[0] = <<>>  BY DEF Texts
  <2>2. <<>> \in Seq(S)  BY EmptySeq
  <2> QED  BY <1>3, <2>1, <2>2
<1>5. k - 1 \in 0..Len(q) /\ ~(k <= k - 1) /\ k \in 1..Len(q)
  BY <1>1, <1>3, <1>4
<1>6. text[k - 1] \in Seq(S)  BY <1>2, <1>5
<1>7. StepString(q[k]) \in Seq(S)
  <2>1. q[k] \in Written  BY <1>5, ElementOfSeq
  <2> QED  BY <2>1, WrittenArePasses, StepIs
<1>8. text[k] = text[k - 1] \o StepString(q[k])  BY <1>5 DEF Texts
<1>9. text[k] \in Seq(S)  BY <1>6, <1>7, <1>8, ConcatProperties
<1> QED  BY <1>3, <1>9

\* Each pass is at its place in the string of the path.
LEMMA PassAt ==
  ASSUME NEW q \in Seq(Written), NEW text, Texts(text, q),
         NEW k \in 1..Len(q), NEW n \in k..Len(q)
  PROVE  /\ At(StepString(q[k]), text[n], Len(text[k - 1]))
         /\ Len(text[k]) = Len(text[k - 1]) + Len(StepString(q[k]))
<1> DEFINE u == StepString(q[k])
           T == {m \in k..Len(q) : ~At(u, text[m], Len(text[k - 1]))}
<1>1. Len(q) \in Nat /\ k \in Nat  BY LenProperties
<1>2. \A j \in 0..Len(q) : text[j] \in Seq(Token)  BY WordsAre, TextsAre
<1>3. \A j \in 1..Len(q) : /\ StepString(q[j]) \in Seq(Token)
                           /\ text[j] = text[j - 1] \o StepString(q[j])
  <2>1. \A j \in 1..Len(q) : q[j] \in Written  BY ElementOfSeq
  <2> QED  BY <2>1, WrittenArePasses, WordsAre, StepIs DEF Texts
<1>4. u \in Seq(Token) /\ Len(u) \in Nat  BY <1>3, LenProperties
<1>5. k - 1 \in 0..Len(q)  BY <1>1
<1>6. /\ At(u, text[k], Len(text[k - 1]))
      /\ Len(text[k]) = Len(text[k - 1]) + Len(u)
  <2>1. text[k] = text[k - 1] \o u  BY <1>3
  <2>2. text[k - 1] \in Seq(Token)  BY <1>2, <1>5
  <2> HIDE DEF u
  <2> QED  BY <1>4, <2>1, <2>2, AtGrows
<1>7. ASSUME T # {} PROVE FALSE
  <2>1. PICK m \in T : \A j \in T : m <= j
    <3>1. T \in SUBSET Nat  BY <1>1
    <3> HIDE DEF T
    <3> QED  BY <1>7, <3>1, LeastNatural
  <2>2. m \in k..Len(q) /\ ~At(u, text[m], Len(text[k - 1]))  BY <2>1
  <2>3. m # k  BY <1>6, <2>2
  <2>4. /\ m - 1 \in k..Len(q) /\ ~(m <= m - 1) /\ m \in 1..Len(q)
        /\ m - 1 \in 0..Len(q)
    BY <1>1, <2>2, <2>3
  <2>5. At(u, text[m - 1], Len(text[k - 1]))  BY <2>1, <2>4
  <2>6. /\ text[m - 1] \in Seq(Token) /\ StepString(q[m]) \in Seq(Token)
        /\ text[m] = text[m - 1] \o StepString(q[m])
    BY <1>2, <1>3, <2>4
  <2> HIDE DEF u, T
  <2>7. At(u, text[m], Len(text[k - 1]))  BY <1>4, <2>5, <2>6, AtGrows
  <2> QED  BY <2>2, <2>7
<1>8. n \notin T  BY <1>7
<1> QED  BY <1>6, <1>8

\* From each place of a path there are no more levels to go than at its begin.
LEMMA LevelsFall ==
  ASSUME NEW q, NEW l \in Nat, IsPath(q, l), NEW n \in 0..Len(q)
  PROVE  Left(q, n) \in 0..l
<1> DEFINE T == {k \in 0..Len(q) : Left(q, k) \notin 0..l}
<1> SUFFICES ASSUME T # {} PROVE FALSE  OBVIOUS
<1>1. Len(q) \in Nat  BY LenProperties DEF IsPath
<1>2. PICK k \in T : \A j \in T : k <= j
  <2>1. T \in SUBSET Nat  BY <1>1
  <2> HIDE DEF T
  <2> QED  BY <2>1, LeastNatural
<1>3. k \in 0..Len(q) /\ Left(q, k) \notin 0..l  BY <1>2
<1>4. k # 0  BY <1>3 DEF IsPath
<1>5. k - 1 \in 0..Len(q) /\ ~(k <= k - 1) /\ k \in 1..Len(q)
  BY <1>1, <1>3, <1>4
<1>6. Left(q, k - 1) \in 0..l  BY <1>2, <1>5
<1>7. Left(q, k - 1) = q[k].level
  <2>1. k - 1 # Len(q) /\ (k - 1) + 1 = k  BY <1>1, <1>3
  <2> QED  BY <2>1 DEF Left
<1>8. q[k] \in Written  BY <1>5, ElementOfSeq DEF IsPath
<1>9. q[k].N \in Nat /\ q[k].N <= q[k].level
  BY <1>8, WidthIs DEF Written
<1>10. Left(q, k) = q[k].level - q[k].N  BY <1>5 DEF IsPath
<1> QED  BY <1>3, <1>6, <1>7, <1>9, <1>10

\* What stands for a string that cannot be read is no path.
LEMMA NotMalformed ==
  ASSUME NEW p \in Seq(Written)
  PROVE  p # Malformed
<1> DEFINE bad == [config |-> -1, level |-> 0, N |-> 0]
<1>1. bad \notin Written  BY DEF Written
<1>2. Malformed = <<bad>>  BY DEF Malformed
<1>3. Len(Malformed) = 1 /\ Malformed[1] = bad  BY <1>2
<1> HIDE DEF bad
<1>4. ASSUME p = Malformed PROVE FALSE
  <2>1. 1 \in 1..Len(p)  BY <1>3, <1>4
  <2>2. p[1] \in Written  BY <2>1, ElementOfSeq
  <2> QED  BY <1>1, <1>3, <1>4, <2>2
<1> QED  BY <1>4

\* A path is read back as it was written: parsePathStr of the string that
\* to_string makes of a path from level l down is that path.
THEOREM RoundTrip ==
  ASSUME NEW q, NEW l \in Nat, IsPath(q, l)
  PROVE  ParsePathStr(PathString(q), l) = q
<1> DEFINE n == Len(q)
           s == PathString(q)
<1>1. q \in Seq(Written) /\ n \in Nat  BY LenProperties DEF IsPath
<1>2. PICK text : Texts(text, q) /\ s = text[n]  BY <1>1, TextsExist
<1>3. \A k \in 0..n : text[k] \in Seq(Token)
  BY <1>1, <1>2, TextsAre, WordsAre
<1> HIDE DEF s
<1>4. s \in Seq(Token) /\ Len(s) \in Nat
  <2>1. s \in Seq(Token)  BY <1>1, <1>2, <1>3
  <2> QED  BY <2>1, LenProperties
<1>5. PICK f : /\ \A i \in 0..Len(s) : \A level \in 0..l :
                    f[i][level] = Turn(s, f, i, level)
               /\ ParsePathStr(s, l) = f[0][l]
  BY <1>4, ParseUnfold
<1> DEFINE Read(k) == f[Len(text[k])][Left(q, k)]
           Good(k) == Read(k) = SubSeq(q, k + 1, n)
           T == {j \in 0..n : ~Good(n - j)}
<1>6. ASSUME T # {} PROVE FALSE
  <2>1. PICK j \in T : \A i \in T : j <= i
    <3>1. T \in SUBSET Nat  BY <1>1
    <3> HIDE DEF T
    <3> QED  BY <1>6, <3>1, LeastNatural
  <2> DEFINE k == n - j
  <2>2. j \in 0..n /\ ~Good(k)  BY <2>1
  <2>3. k \in 0..n /\ k \in Nat  BY <1>1, <2>2
  <2>4. Left(q, k) \in 0..l  BY <2>3, LevelsFall
  <2>5. CASE k = n
    <3>1. Left(q, k) = 0 /\ Len(text[k]) = Len(s)  BY <1>2, <2>5 DEF Left
    <3>2. f[Len(s)][0] = Turn(s, f, Len(s), 0)  BY <1>4, <1>5
    <3>3. SubSeq(q, k + 1, n) = <<>>  BY <1>1, <2>5, SubSeqEmpty
    <3>4. Read(k) = <<>>  BY <3>1, <3>2, ReadsEnd
    <3> QED  BY <2>2, <3>3, <3>4
  <2>6. CASE k # n
    <3> DEFINE a == q[k + 1]
               u == StepString(a)
               i == Len(text[k])
    <3>1. /\ k + 1 \in 1..n /\ n \in (k + 1)..n /\ k + 1 \in 0..n
          /\ (k + 1) - 1 = k
      BY <1>1, <2>3, <2>6
    <3>2. a \in Written /\ IsPass(a)
      <4>1. a \in Written  BY <1>1, <3>1, ElementOfSeq
      <4> QED  BY <4>1, WrittenArePasses
    <3>3. At(u, s, i) /\ Len(text[k + 1]) = i + Len(u)
      BY <1>1, <1>2, <3>1, PassAt
    <3>4. Left(q, k) = a.level /\ a.level - a.N = Left(q, k + 1)
      BY <2>6, <3>1 DEF Left, IsPath
    <3>5. Left(q, k + 1) \in 0..l  BY <3>1, LevelsFall
    <3>6. Good(k + 1)
      <4>1. j - 1 \in 0..n /\ ~(j <= j - 1) /\ n - (j - 1) = k + 1
        BY <1>1, <2>2, <2>6
      <4>2. j - 1 \notin T  BY <2>1, <4>1
      <4> QED  BY <4>1, <4>2
    <3>7. Len(u) \in Nat /\ Len(u) >= 1 /\ u[Len(u)] = Blank
      BY <3>2, StepEnds
    <3>8. i \in Nat /\ i + Len(u) <= Len(s) /\ s[i + Len(u)] = Blank
      <4>1. Len(u) \in 1..Len(u)  BY <3>7
      <4> QED  BY <3>3, <3>7, <4>1 DEF At
    <3> HIDE DEF a, u, i, k, T
    <3> DEFINE b == i + Len(u) - 1
    <3>9. b \in 0..Len(s) /\ b # Len(s) /\ b + 1 = i + Len(u) /\ i \in 0..Len(s)
      BY <1>4, <3>7, <3>8
    <3> HIDE DEF b
    <3>10. f[i][a.level] = Followed(a, f[b][a.level - a.N])
      <4>1. f[i][a.level] = Turn(s, f, i, a.level)
        BY <1>5, <2>4, <3>4, <3>9
      <4>2. Turn(s, f, i, a.level) = Followed(a, f[b][a.level - a.N])
        BY <1>4, <3>2, <3>3, ReadsPass DEF u, b
      <4> QED  BY <4>1, <4>2
    <3>11. f[b][Left(q, k + 1)] = f[b + 1][Left(q, k + 1)]
      <4>1. f[b][Left(q, k + 1)] = Turn(s, f, b, Left(q, k + 1))
        BY <1>5, <3>5, <3>9
      <4>2. s[b + 1] = Blank  BY <3>8, <3>9
      <4> QED  BY <1>4, <3>9, <4>1, <4>2, ReadsBlank
    <3> DEFINE p == SubSeq(q, (k + 1) + 1, n)
    <3>12. f[b][a.level - a.N] = p
      <4>1. f[b + 1][Left(q, k + 1)] = p  BY <3>3, <3>6, <3>9
      <4> QED  BY <3>4, <3>11, <4>1
    <3>13. p # Malformed
      <4>1. \A x \in ((k + 1) + 1)..n : q[x] \in Written
        <5>1. \A x \in ((k + 1) + 1)..n : x \in 1..n  BY <2>3
        <5> QED  BY <1>1, <5>1, ElementOfSeq
      <4>2. p \in Seq(Written)
        <5>1. (k + 1) + 1 \in Int /\ n \in Int  BY <1>1, <2>3
        <5> QED  BY <4>1, <5>1, SubSeqProperties
      <4> HIDE DEF p
      <4> QED  BY <4>2, NotMalformed
    <3>14. f[i][a.level] = <<a>> \o p  BY <3>10, <3>12, <3>13 DEF Followed
    <3>15. <<a>> \o p = SubSeq(q, k + 1, n)
      BY <1>1, <3>1, SubSeqRecursiveFirst DEF a
    <3> QED  BY <2>2, <3>4, <3>14, <3>15 DEF i
  <2> QED  BY <2>5, <2>6
<1>7. Good(0)
  <2>1. n \in 0..n /\ n - n = 0  BY <1>1
  <2>2. n \notin T
    <3> HIDE DEF T
    <3> QED  BY <1>6
  <2>3. Good(n - n)  BY <2>1, <2>2
  <2> QED  BY <2>1, <2>3
<1>8. Len(text[0]) = 0 /\ Left(q, 0) = l  BY <1>2 DEF Texts, IsPath
<1>9. SubSeq(q, 0 + 1, n) = q
  <2>1. 0 + 1 = 1  OBVIOUS
  <2> QED  BY <1>1, <2>1, SubSeqFull
<1> QED  BY <1>5, <1>7, <1>8, <1>9 DEF s

\* What separates the parts of a 2D plan
ColonSign == ":"
CommaSign == ","

\* Neither separator is in a path, or a digit.
LEMMA SeparatorsAre ==
  /\ ColonSign \in Token /\ CommaSign \in Token /\ ColonSign # CommaSign
  /\ ColonSign \notin PathToken /\ CommaSign \notin PathToken
  /\ ~IsDigit(ColonSign)
BY DigitsAre DEF Token, PathToken, Words, ColonSign, CommaSign

\* n is the first place where c is in s.
IsFirst(s, n, c) ==
  /\ Len(s) \in Nat /\ n \in 1..Len(s) /\ s[n] = c
  /\ \A i \in 1..(n - 1) : s[i] # c

\* SelectInSeq finds the first place.
LEMMA FirstIs ==
  ASSUME NEW s, NEW n, NEW c, IsFirst(s, n, c)
  PROVE  LET I == {i \in 1..Len(s) : s[i] = c} IN
         I # {} /\ Min(I) = n
<1> USE DEF IsFirst
<1> DEFINE I == {i \in 1..Len(s) : s[i] = c}
<1>1. I \in SUBSET Nat /\ n \in I  OBVIOUS
<1>2. \A i \in I : n <= i  OBVIOUS
<1>3. n \in Nat /\ I \subseteq Nat  BY <1>1
<1> HIDE DEF I
<1> DEFINE k == Min(I)
<1>4. k \in I /\ \A i \in I : k <= i  BY <1>1, MinIs
<1> HIDE DEF k
<1>5. k \in Nat /\ k <= n /\ n <= k  BY <1>1, <1>2, <1>3, <1>4
<1>6. k = n  BY <1>3, <1>5
<1> QED  BY <1>1, <1>6 DEF I, k

\* What getPath of a 2D plan writes setPath reads back: whether there are
\* threads, and the strings of the two paths.
THEOREM RoundTrip2D ==
  ASSUME NEW x \in Seq(PathToken), NEW y \in Seq(PathToken), NEW mt \in BOOLEAN
  PROVE  LET s == Path2DString(mt, x, y) IN
         /\ HasNumber(s) /\ PlanMT(s) = mt /\ HasPaths(s)
         /\ PathH(s) = x /\ PathV(s) = y /\ s # <<>>
<1> DEFINE d == IF mt THEN Digits[2] ELSE Digits[1]
           n == IF mt THEN 1 ELSE 0
           u == <<d, ColonSign>>
           v == <<CommaSign>>
           s == u \o x \o v \o y
<1>1. Path2DString(mt, x, y) = s
  BY TenDigits DEF Path2DString, ColonSign, CommaSign
<1>2. d = Digits[n + 1] /\ n \in 0..9 /\ (n # 0 <=> mt)  OBVIOUS
<1>3. d \in PathToken /\ IsDigit(d) /\ d \in Token
  BY <1>2, DigitsAre, WordsAre
<1> HIDE DEF d, n
<1>4. x \in Seq(Token) /\ y \in Seq(Token)  BY WordsAre, SeqMonotonic
<1>5. u \in Seq(Token) /\ Len(u) = 2 /\ u[1] = d /\ u[2] = ColonSign
  BY <1>3, SeparatorsAre, PairIs
<1>6. v \in Seq(Token) /\ Len(v) = 1 /\ v[1] = CommaSign
  BY SeparatorsAre, PairIs
<1>7. Len(x) \in Nat /\ Len(y) \in Nat  BY LenProperties
<1> HIDE DEF u, v
<1> DEFINE t == u \o x
           w == t \o v
<1>8. /\ t \in Seq(Token) /\ Len(t) = Len(u) + Len(x)
      /\ \A i \in 1..(Len(u) + Len(x)) :
           t[i] = IF i <= Len(u) THEN u[i] ELSE x[i - Len(u)]
  BY <1>4, <1>5, ConcatProperties
<1> HIDE DEF t
<1>9. /\ w \in Seq(Token) /\ Len(w) = Len(t) + Len(v)
      /\ \A i \in 1..(Len(t) + Len(v)) :
           w[i] = IF i <= Len(t) THEN t[i] ELSE v[i - Len(t)]
  <2>1. t \in Seq(Token) /\ v \in Seq(Token)  BY <1>6, <1>8
  <2> QED  BY <2>1, ConcatProperties
<1>10. s = w \o y  BY DEF t
<1> HIDE DEF w, s
<1>11. /\ s \in Seq(Token) /\ Len(s) = Len(w) + Len(y)
       /\ \A i \in 1..(Len(w) + Len(y)) :
            s[i] = IF i <= Len(w) THEN w[i] ELSE y[i - Len(w)]
  <2>1. w \in Seq(Token)  BY <1>9
  <2> QED  BY <1>4, <1>10, <2>1, ConcatProperties
<1> DEFINE l == Len(x)
           m == Len(y)
<1>12. /\ Len(t) = l + 2 /\ Len(w) = l + 3 /\ Len(s) = l + 3 + m
  BY <1>5, <1>6, <1>7, <1>8, <1>9, <1>11
<1>13. s[1] = d /\ s[2] = ColonSign /\ s[l + 3] = CommaSign
  <2>1. s[1] = u[1] /\ s[2] = u[2]
    BY <1>5, <1>6, <1>7, <1>8, <1>9, <1>11, <1>12
  <2>2. s[l + 3] = v[1]
    BY <1>5, <1>6, <1>7, <1>8, <1>9, <1>11, <1>12
  <2> QED  BY <1>5, <1>6, <2>1, <2>2
<1>14. ASSUME NEW i \in 1..l PROVE s[i + 2] = x[i] /\ x[i] \in PathToken
  <2>1. s[i + 2] = w[i + 2]  BY <1>7, <1>11, <1>12
  <2>2. w[i + 2] = t[i + 2]  BY <1>6, <1>7, <1>9, <1>12
  <2>3. t[i + 2] = x[i]
    <3>1. /\ i + 2 \in 1..(Len(u) + Len(x)) /\ ~(i + 2 <= Len(u))
          /\ (i + 2) - Len(u) = i
      BY <1>5, <1>7
    <3> QED  BY <1>8, <3>1
  <2> QED  BY <2>1, <2>2, <2>3, ElementOfSeq
<1>15. ASSUME NEW i \in 1..m PROVE s[l + 3 + i] = y[i]
  <2>1. /\ l + 3 + i \in 1..(Len(w) + Len(y)) /\ ~(l + 3 + i <= Len(w))
        /\ (l + 3 + i) - Len(w) = i
    BY <1>7, <1>12
  <2> QED  BY <1>11, <2>1
<1> DEFINE r == Rest(s, 2)
<1>16. /\ r \in Seq(Token) /\ Len(r) = l + 1 + m
       /\ \A i \in 1..(l + 1 + m) : r[i] = s[2 + i]
  <2>1. 2 \in 0..Len(s) /\ Len(s) - 2 = l + 1 + m  BY <1>7, <1>12
  <2>2. s \in Seq(Token)  BY <1>11
  <2> HIDE DEF l, m
  <2> QED  BY <2>1, <2>2, RestIs
<1> HIDE DEF r, l, m
<1>17. l \in Nat /\ m \in Nat  BY <1>7 DEF l, m
<1>18. Colon(s) = 2
  <2> DEFINE I == {i \in 1..Len(s) : s[i] = ColonSign}
             J == {i \in 1..Len(s) : s[i] = ":"}
  <2>1. 2 \in 1..Len(s) /\ Len(s) \in Nat  BY <1>12, <1>17
  <2>2. s[1] # ColonSign  BY <1>3, <1>13, SeparatorsAre
  <2>3. IsFirst(s, 2, ColonSign)  BY <1>13, <2>1, <2>2 DEF IsFirst
  <2>4. I # {} /\ Min(I) = 2  BY <2>3, FirstIs
  <2>5. I = J  BY DEF ColonSign
  <2>6. Colon(s) = IF J # {} THEN Min(J) ELSE 0
    BY Zenon DEF Colon, SelectInSeq
  <2> HIDE DEF I, J
  <2> QED  BY <2>4, <2>5, <2>6
<1>19. Comma(s) = l + 1
  <2> DEFINE I == {i \in 1..Len(r) : r[i] = CommaSign}
             J == {i \in 1..Len(r) : r[i] = ","}
  <2>1. l + 1 \in 1..Len(r) /\ Len(r) \in Nat  BY <1>16, <1>17
  <2>2. r[l + 1] = CommaSign
    <3>1. l + 1 \in 1..(l + 1 + m) /\ 2 + (l + 1) = l + 3  BY <1>17
    <3> QED  BY <1>13, <1>16, <3>1
  <2>3. ASSUME NEW i \in 1..((l + 1) - 1) PROVE r[i] # CommaSign
    <3>1. i \in 1..l /\ i \in 1..(l + 1 + m) /\ 2 + i = i + 2  BY <1>17
    <3>2. r[i] \in PathToken  BY <1>14, <1>16, <3>1
    <3> QED  BY <3>2, SeparatorsAre
  <2>7. IsFirst(r, l + 1, CommaSign)  BY <2>1, <2>2, <2>3 DEF IsFirst
  <2>4. I # {} /\ Min(I) = l + 1  BY <2>7, FirstIs
  <2>5. I = J  BY DEF CommaSign
  <2>6. Comma(s) = IF J # {} THEN Min(J) ELSE 0
    BY <1>18, Zenon DEF Comma, SelectInSeq, r
  <2> HIDE DEF I, J
  <2> QED  BY <2>4, <2>5, <2>6
<1>20. HasPaths(s)  BY <1>17, <1>18, <1>19 DEF HasPaths
<1>21. PathH(s) = x
  <2> DEFINE a == 2 + 1
             b == 2 + (l + 1) - 1
             h == SubSeq(s, a, b)
  <2>1. PathH(s) = h  BY <1>18, <1>19 DEF PathH
  <2>2. a = 3 /\ b = l + 2 /\ a \in Int /\ b \in Int  BY <1>17
  <2> HIDE DEF a, b
  <2>3. \A i \in a..b : s[i] \in Token
    <3>1. \A i \in a..b : i \in 1..Len(s)  BY <1>12, <1>17, <2>2
    <3> QED  BY <1>11, <3>1, ElementOfSeq
  <2>4. /\ h \in Seq(Token) /\ Len(h) = IF a <= b THEN b - a + 1 ELSE 0
        /\ \A i \in 1..(b - a + 1) : h[i] = s[a + i - 1]
    BY <2>2, <2>3, SubSeqProperties
  <2> HIDE DEF h
  <2>5. Len(h) = l  BY <1>17, <2>2, <2>4
  <2>6. ASSUME NEW i \in 1..l PROVE h[i] = x[i]
    <3>1. i \in 1..(b - a + 1) /\ a + i - 1 = i + 2  BY <1>17, <2>2
    <3> QED  BY <1>14, <2>4, <3>1
  <2>7. Len(h) = Len(x) /\ \A i \in 1..Len(h) : h[i] = x[i]
    BY <2>5, <2>6 DEF l
  <2>8. h = x  BY <1>4, <2>4, <2>7, SeqEqual
  <2> QED  BY <2>1, <2>8
<1>22. PathV(s) = y
  <2> DEFINE k == 2 + (l + 1)
             h == Rest(s, k)
  <2>1. PathV(s) = h  BY <1>18, <1>19 DEF PathV
  <2>2. k \in 0..Len(s) /\ Len(s) - k = m /\ k = l + 3  BY <1>12, <1>17
  <2> HIDE DEF k
  <2>3. h \in Seq(Token) /\ Len(h) = m /\ \A i \in 1..m : h[i] = s[k + i]
    <3>1. s \in Seq(Token)  BY <1>11
    <3> HIDE DEF m
    <3> QED  BY <2>2, <3>1, RestIs
  <2> HIDE DEF h
  <2>4. Len(h) = Len(y) /\ \A i \in 1..Len(h) : h[i] = y[i]
    BY <1>15, <2>2, <2>3 DEF m
  <2>5. h = y  BY <1>4, <2>3, <2>4, SeqEqual
  <2> QED  BY <2>1, <2>5
<1>23. HasNumber(s) /\ PlanMT(s) = mt
  <2> DEFINE I == {i \in 1..Len(s) : IsDigit(s[i])}
  <2>1. 1 \in 1..Len(s) /\ Len(s) \in Nat /\ Len(s) >= 2  BY <1>12, <1>17
  <2>2. IsDigit(s[1])  BY <1>3, <1>13
  <2>3. HasNumber(s)
    <3>1. 1..(1 - 1) = {}  OBVIOUS
    <3> QED  BY <2>1, <2>2, <3>1, Zenon DEF HasNumber
  <2>4. I # {} /\ Min(I) = 1
    <3>1. 1 \in I /\ I \in SUBSET Nat  BY <2>1, <2>2
    <3>2. \A i \in I : i >= 1  BY <2>1
    <3> HIDE DEF I
    <3> DEFINE k == Min(I)
    <3>3. k \in I /\ k <= 1  BY <3>1, MinIs
    <3> HIDE DEF k
    <3>4. k \in Nat /\ k >= 1 /\ k <= 1  BY <3>1, <3>2, <3>3
    <3>5. k = 1  BY <3>4
    <3> QED  BY <3>1, <3>5 DEF k
  <2>5. SelectInSeq(s, IsDigit) = 1
    <3>1. SelectInSeq(s, IsDigit) = IF I # {} THEN Min(I) ELSE 0
      BY Zenon DEF SelectInSeq
    <3> HIDE DEF I
    <3> QED  BY <2>4, <3>1
  <2>6. SubSeq(s, 1, Len(s)) = s  BY <1>11, SubSeqFull
  <2>7. Number(s) = n
    <3>1. ~IsDigit(s[2])  BY <1>13, SeparatorsAre
    <3> QED  BY <1>2, <1>11, <1>13, <2>1, <3>1, OneDigit
  <2>8. PlanMT(s) = (n # 0)  BY <2>5, <2>6, <2>7, Zenon DEF PlanMT
  <2> QED  BY <1>2, <2>3, <2>8
<1>24. s # <<>>  BY <1>12, <1>17
<1> QED  BY <1>1, <1>20, <1>21, <1>22, <1>23, <1>24

-----------------------------------------------------------------------------
(* The chains of passes *)

\* A pass in front of a path, where its level ends
LEMMA ConsPath ==
  ASSUME NEW a \in Written, NEW p, IsPath(p, a.level - a.N)
  PROVE  IsPath(<<a>> \o p, a.level) /\ <<a>> \o p # <<>>
<1> DEFINE u == <<a>>
           q == u \o p
<1>1. u \in Seq(Written) /\ Len(u) = 1 /\ u[1] = a  OBVIOUS
<1>2. p \in Seq(Written) /\ Len(p) \in Nat  BY LenProperties DEF IsPath
<1> HIDE DEF u
<1>3. /\ q \in Seq(Written) /\ Len(q) = Len(u) + Len(p)
      /\ \A i \in 1..(Len(u) + Len(p)) :
           q[i] = IF i <= Len(u) THEN u[i] ELSE p[i - Len(u)]
  BY <1>1, <1>2, ConcatProperties
<1> HIDE DEF q
<1>4. Len(q) = Len(p) + 1 /\ q[1] = a  BY <1>1, <1>2, <1>3
<1>5. ASSUME NEW i \in 1..Len(p) PROVE q[i + 1] = p[i]
  <2>1. i + 1 \in 1..(Len(u) + Len(p)) /\ ~(i + 1 <= Len(u))
        /\ (i + 1) - Len(u) = i
    BY <1>1, <1>2
  <2> QED  BY <1>3, <2>1
<1>6. ASSUME NEW k \in 0..Len(p) PROVE Left(q, k + 1) = Left(p, k)
  <2>1. CASE k = Len(p)  BY <1>4, <2>1 DEF Left
  <2>2. CASE k # Len(p)
    <3>1. k + 1 \in 1..Len(p) /\ k + 1 # Len(q)  BY <1>2, <1>4, <2>2
    <3> QED  BY <1>5, <2>2, <3>1 DEF Left
  <2> QED  BY <2>1, <2>2
<1>7. Left(q, 0) = a.level
  <2>1. 0 # Len(q) /\ 0 + 1 = 1  BY <1>2, <1>4
  <2> QED  BY <1>4, <2>1 DEF Left
<1>8. ASSUME NEW k \in 1..Len(q) PROVE q[k].level - q[k].N = Left(q, k)
  <2>1. CASE k = 1
    <3>1. 0 \in 0..Len(p) /\ 0 + 1 = 1  BY <1>2
    <3>2. Left(q, 1) = Left(p, 0)  BY <1>6, <3>1
    <3> QED  BY <1>4, <2>1, <3>2 DEF IsPath
  <2>2. CASE k # 1
    <3>1. /\ k - 1 \in 1..Len(p) /\ k - 1 \in 0..Len(p) /\ (k - 1) + 1 = k
      BY <1>2, <1>4, <2>2
    <3>2. q[k] = p[k - 1] /\ Left(q, k) = Left(p, k - 1)
      BY <1>5, <1>6, <3>1
    <3> QED  BY <3>1, <3>2 DEF IsPath
  <2> QED  BY <2>1, <2>2
<1>9. q # <<>>  BY <1>2, <1>4
<1> QED  BY <1>3, <1>7, <1>8, <1>9 DEF q, u, IsPath

\* No pass is left to do.
LEMMA NoPathIs == IsPath(NoPath, 0)
<1>1. NoPath \in Seq(Written) /\ Len(NoPath) = 0  BY DEF NoPath
<1> QED  BY <1>1 DEF IsPath, Left

\* What Chains looks up for level k
Linked(passes, f, k) ==
  IF k = 0 THEN {NoPath}
  ELSE UNION {{<<a>> \o p : p \in
         {q \in f[k - a.N] : q = NoPath \/
            (q[1].config >= 2) = (a.config >= 2)}} :
       a \in {b \in passes : b.level = k}}

Links(f, passes, l) == f = [k \in 0..l |-> Linked(passes, f, k)]

\* f and g are the same below level k.
Below(f, g, k) == \A j \in 0..(k - 1) : f[j] = g[j]

\* Only lower levels are looked up.
LEMMA LinkedLocal ==
  ASSUME NEW passes \in SUBSET Written, NEW k \in Nat, NEW f, NEW g,
         Below(f, g, k)
  PROVE  Linked(passes, f, k) = Linked(passes, g, k)
<1>1. ASSUME NEW a \in passes, a.level = k PROVE f[k - a.N] = g[k - a.N]
  <2>1. a.N \in 1..MaxButWidth /\ a.N <= k /\ MaxButWidth \in Nat
    BY <1>1, WidthIs DEF Written
  <2>2. k - a.N \in 0..(k - 1)  BY <2>1
  <2> QED  BY <2>2 DEF Below
<1> DEFINE From(h, a) == {<<a>> \o p : p \in
                           {q \in h[k - a.N] : q = NoPath \/
                              (q[1].config >= 2) = (a.config >= 2)}}
           A == {b \in passes : b.level = k}
<1>2. \A a \in A : From(f, a) = From(g, a)  BY <1>1
<1>3. \A h : Linked(passes, h, k) =
               IF k = 0 THEN {NoPath} ELSE UNION {From(h, a) : a \in A}
  BY DEF Linked
<1> HIDE DEF From, A
<1>4. {From(f, a) : a \in A} = {From(g, a) : a \in A}  BY <1>2
<1> QED  BY <1>3, <1>4

\* The function that Chains defines by recursion exists.
LEMMA SomeLinks ==
  ASSUME NEW passes \in SUBSET Written, NEW l \in Nat
  PROVE  \E f : Links(f, passes, l)
<1> DEFINE T == {k \in Nat : ~ \E f : Links(f, passes, k)}
<1> SUFFICES ASSUME T # {} PROVE FALSE  OBVIOUS
<1>1. PICK k \in T : \A j \in T : k <= j
  <2>1. T \in SUBSET Nat  OBVIOUS
  <2> HIDE DEF T
  <2> QED  BY <2>1, LeastNatural
<1>2. k \in Nat /\ ~ \E f : Links(f, passes, k)  BY <1>1
<1>3. PICK f : \A i \in 0..(k - 1) : f[i] = Linked(passes, f, i)
  <2>1. CASE k = 0
    <3>1. 0..(k - 1) = {}  BY <1>2, <2>1
    <3> QED  BY <3>1
  <2>2. CASE k # 0
    <3>1. k - 1 \in Nat /\ ~(k <= k - 1)  BY <1>2, <2>2
    <3>2. PICK f : Links(f, passes, k - 1)  BY <1>1, <3>1
    <3> QED  BY <3>2 DEF Links
  <2> QED  BY <2>1, <2>2
<1> DEFINE g == [i \in 0..k |-> IF i = k THEN Linked(passes, f, k) ELSE f[i]]
<1>4. \A i \in 0..(k - 1) : g[i] = f[i]  BY <1>2
<1>5. ASSUME NEW i \in 0..k PROVE g[i] = Linked(passes, g, i)
  <2>1. g[i] = Linked(passes, f, i)
    <3>1. CASE i = k  BY <3>1
    <3>2. CASE i # k
      <4>1. i \in 0..(k - 1)  BY <1>2, <3>2
      <4> QED  BY <1>3, <1>4, <4>1
    <3> QED  BY <3>1, <3>2
  <2>2. Below(f, g, i)  BY <1>2, <1>4 DEF Below
  <2> HIDE DEF g
  <2>3. Linked(passes, f, i) = Linked(passes, g, i)  BY <2>2, LinkedLocal
  <2> QED  BY <2>1, <2>3
<1>6. Links(g, passes, k)
  <2>1. g = [i \in 0..k |-> g[i]]  OBVIOUS
  <2> HIDE DEF g
  <2> QED  BY <1>5, <2>1 DEF Links
<1> QED  BY <1>2, <1>6

\* The chains from a level down are paths.
LEMMA ChainsArePaths ==
  ASSUME NEW passes \in SUBSET Written, NEW l \in Nat,
         NEW c \in Chains(passes, l)
  PROVE  IsPath(c, l) /\ (l # 0 => c # <<>>)
<1> DEFINE f == CHOOSE g : Links(g, passes, l)
           OK(k) == \A q \in f[k] : IsPath(q, k) /\ (k # 0 => q # <<>>)
           T == {k \in 0..l : ~OK(k)}
<1>1. Links(f, passes, l)  BY SomeLinks
<1>2. Chains(passes, l) = f[l]  BY DEF Chains, Links, Linked
<1> HIDE DEF f
<1>3. \A k \in 0..l : f[k] = Linked(passes, f, k)  BY <1>1 DEF Links
<1>4. ASSUME T # {} PROVE FALSE
  <2>1. PICK k \in T : \A j \in T : k <= j
    <3>1. T \in SUBSET Nat  OBVIOUS
    <3> HIDE DEF T
    <3> QED  BY <1>4, <3>1, LeastNatural
  <2>2. k \in 0..l /\ ~OK(k)  BY <2>1
  <2>3. PICK q \in f[k] : ~(IsPath(q, k) /\ (k # 0 => q # <<>>))  BY <2>2
  <2>4. q \in Linked(passes, f, k)  BY <1>3, <2>2
  <2>5. CASE k = 0
    <3>1. q = NoPath  BY <2>4, <2>5 DEF Linked
    <3> QED  BY <2>3, <2>5, <3>1, NoPathIs
  <2>6. CASE k # 0
    <3>1. PICK a \in passes :
            \E p \in f[k - a.N] : a.level = k /\ q = <<a>> \o p
      BY <2>4, <2>6 DEF Linked
    <3> PICK p \in f[k - a.N] : q = <<a>> \o p  BY <3>1
    <3>2. a \in Written /\ a.N \in 1..MaxButWidth /\ a.N <= k
      BY <3>1 DEF Written
    <3>3. k - a.N \in 0..l /\ ~(k <= k - a.N)
      BY <2>2, <3>2, WidthIs
    <3>4. OK(k - a.N)  BY <2>1, <3>3
    <3>5. IsPath(p, a.level - a.N)  BY <3>1, <3>4
    <3> HIDE DEF OK, T
    <3>6. IsPath(q, k) /\ q # <<>>  BY <3>1, <3>2, <3>5, ConsPath
    <3> QED  BY <2>3, <3>6
  <2> QED  BY <2>5, <2>6
<1>5. OK(l)
  <2>1. l \in 0..l  OBVIOUS
  <2>2. l \notin T
    <3> HIDE DEF T
    <3> QED  BY <1>4
  <2> QED  BY <2>1, <2>2
<1> QED  BY <1>2, <1>5

\* Along a path the levels differ.
LEMMA LevelsDiffer ==
  ASSUME NEW q, NEW l \in Nat, IsPath(q, l), NEW i \in 1..Len(q),
         NEW j \in 1..Len(q), i < j
  PROVE  q[i].level # q[j].level
<1> DEFINE T == {k \in (i + 1)..Len(q) : ~(q[k].level < q[i].level)}
<1>1. Len(q) \in Nat /\ i \in Nat /\ j \in Nat  BY LenProperties DEF IsPath
<1>2. ASSUME NEW k \in 1..Len(q)
      PROVE  /\ q[k].level \in Nat /\ q[k].N \in Nat /\ q[k].N >= 1
             /\ k # Len(q) => q[k + 1].level = q[k].level - q[k].N
  <2>1. q[k] \in Written  BY ElementOfSeq DEF IsPath
  <2>2. q[k].level - q[k].N = Left(q, k)  BY DEF IsPath
  <2> QED  BY <2>1, <2>2, WidthIs DEF Written, Left
<1>3. ASSUME T # {} PROVE FALSE
  <2>1. PICK k \in T : \A m \in T : k <= m
    <3>1. T \in SUBSET Nat  BY <1>1
    <3> HIDE DEF T
    <3> QED  BY <1>3, <3>1, LeastNatural
  <2>2. k \in (i + 1)..Len(q) /\ ~(q[k].level < q[i].level)  BY <2>1
  <2>3. /\ k - 1 \in 1..Len(q) /\ k - 1 # Len(q) /\ (k - 1) + 1 = k
        /\ k \in 1..Len(q)
    BY <1>1, <2>2
  <2>4. q[k].level = q[k - 1].level - q[k - 1].N  BY <1>2, <2>3
  <2>5. q[k].level < q[k - 1].level
    <3> DEFINE x == q[k - 1].level  n == q[k - 1].N
    <3>1. x \in Nat /\ n \in Nat /\ n >= 1  BY <1>2, <2>3
    <3>2. q[k].level = x - n  BY <2>4
    <3> HIDE DEF x, n
    <3>3. q[k].level < x  BY <3>1, <3>2
    <3> QED  BY <3>3 DEF x
  <2>6. k - 1 # i  BY <2>2, <2>5
  <2>7. k - 1 \in (i + 1)..Len(q) /\ ~(k <= k - 1)  BY <1>1, <2>2, <2>6
  <2>8. q[k - 1].level < q[i].level  BY <2>1, <2>7
  <2> QED  BY <1>2, <2>2, <2>3, <2>5, <2>8
<1>4. j \in (i + 1)..Len(q)  BY <1>1
<1>5. q[j].level < q[i].level
  <2>1. j \notin T
    <3> HIDE DEF T
    <3> QED  BY <1>3
  <2> QED  BY <1>4, <2>1
<1> QED  BY <1>2, <1>5

-----------------------------------------------------------------------------
(* The instruction set of a plan *)

\* The list of instruction sets begins with pure C.
LEMMA Isas ==
  /\ Len(ISA) \in Nat \ {0} /\ DOMAIN ISA = 1..Len(ISA)
  /\ \A i \in 1..Len(ISA) : /\ ISA[i].priority \in Nat
                            /\ ISA[i].log2vecwidth \in 0..MaxButWidth
  /\ ISA[1].log2vecwidth = 0 /\ MaxButWidth \in 1..7
<1> DEFINE R == [priority : Nat, log2vecwidth : 0..MaxButWidth]
<1>1. /\ MaxButWidth \in 1..7 /\ ISA \in Seq(R) /\ ISA # <<>>
      /\ ISA[1].log2vecwidth = 0
  BY LifecycleAssumption
<1>2. \A x \in R : x.priority \in Nat /\ x.log2vecwidth \in 0..MaxButWidth
  OBVIOUS
<1> HIDE DEF R
<1> QED  BY <1>1, <1>2

Fits(i, log2len) == 2 * ISA[i].log2vecwidth <= log2len

\* i is the best of the first n of those that fit.
IsBest(i, n, log2len) ==
  /\ i \in 1..n /\ Fits(i, log2len)
  /\ \A k \in 1..n : Fits(k, log2len) => ISA[k].priority <= ISA[i].priority

\* There is a best one, since pure C fits.
LEMMA SomeBest ==
  ASSUME NEW log2len \in Nat
  PROVE  \A n \in 1..Len(ISA) : \E i : IsBest(i, n, log2len)
<1> DEFINE T == {m \in 1..Len(ISA) : ~ \E i : IsBest(i, m, log2len)}
<1> SUFFICES ASSUME T # {} PROVE FALSE  OBVIOUS
<1>1. Len(ISA) \in Nat /\ \A i \in 1..Len(ISA) : ISA[i].priority \in Nat
  BY Isas
<1>2. PICK m \in T : \A j \in T : m <= j
  <2>1. T \in SUBSET Nat  BY <1>1
  <2> HIDE DEF T
  <2> QED  BY <2>1, LeastNatural
<1>3. m \in 1..Len(ISA) /\ ~ \E i : IsBest(i, m, log2len)  BY <1>2
<1>4. CASE m = 1
  <2>1. Fits(1, log2len)  BY Isas DEF Fits
  <2>2. IsBest(1, 1, log2len)  BY <1>1, <1>3, <1>4, <2>1 DEF IsBest
  <2> QED  BY <1>3, <1>4, <2>2
<1>5. CASE m # 1
  <2>1. m - 1 \in 1..Len(ISA) /\ ~(m <= m - 1)  BY <1>1, <1>3, <1>5
  <2>2. PICK i : IsBest(i, m - 1, log2len)  BY <1>2, <2>1
  <2> HIDE DEF T
  <2>3. CASE Fits(m, log2len) /\ ISA[i].priority <= ISA[m].priority
    <3>1. IsBest(m, m, log2len)
      BY <1>1, <1>3, <2>1, <2>2, <2>3 DEF IsBest
    <3> QED  BY <1>3, <3>1
  <2>4. CASE ~(Fits(m, log2len) /\ ISA[i].priority <= ISA[m].priority)
    <3>1. IsBest(i, m, log2len)
      BY <1>1, <1>3, <2>1, <2>2, <2>4 DEF IsBest
    <3> QED  BY <1>3, <3>1
  <2> QED  BY <2>3, <2>4
<1> QED  BY <1>4, <1>5

\* BestIsa is such a one.
LEMMA BestFits ==
  ASSUME NEW log2len \in Nat
  PROVE  /\ BestIsa(log2len) \in DOMAIN ISA
         /\ ISA[BestIsa(log2len)].log2vecwidth \in 0..MaxButWidth
         /\ 2 * ISA[BestIsa(log2len)].log2vecwidth <= log2len
<1>1. Len(ISA) \in 1..Len(ISA) /\ DOMAIN ISA = 1..Len(ISA)
  BY Isas
<1>2. \E i \in DOMAIN ISA :
        /\ 2 * ISA[i].log2vecwidth <= log2len
        /\ \A k \in DOMAIN ISA : 2 * ISA[k].log2vecwidth <= log2len =>
             ISA[k].priority <= ISA[i].priority
  BY <1>1, SomeBest DEF Fits, IsBest
<1>3. /\ BestIsa(log2len) \in DOMAIN ISA
      /\ 2 * ISA[BestIsa(log2len)].log2vecwidth <= log2len
  BY <1>2 DEF BestIsa
<1> QED  BY <1>3, Isas

-----------------------------------------------------------------------------
(* Passes that can be executed *)

\* A butterfly as wide as the vector can be the first pass.
LEMMA StartExists ==
  ASSUME NEW o, o.log2len \in Nat, o.log2len > 1,
         o.isa = BestIsa(o.log2len)
  PROVE  HasStart(o)
<1> DEFINE L == o.log2len
           w == ISA[o.isa].log2vecwidth
           N == IF w = 0 THEN 1 ELSE w
           a == [config |-> 0, level |-> L, N |-> N]
<1>1. w \in 0..MaxButWidth /\ 2 * w <= L /\ MaxButWidth \in 1..7
  BY BestFits, Isas
<1> HIDE DEF w
<1>2. N \in 1..MaxButWidth /\ N < L /\ N <= L - w /\ w <= L - N /\ w <= N
  BY <1>1
<1> HIDE DEF N
<1>3. a \in [config : 0..3, level : {L}, N : 1..MaxButWidth]  BY <1>2
<1>4. P(L, w, o.mt)!BelowNMax(a.N)  BY <1>2 DEF P!BelowNMax
<1>5. P(L, w, o.mt)!Executable(a)
  BY <1>1, <1>2 DEF P!Executable, P!Stream, P!Mt
<1>6. a \in P(L, w, o.mt)!Passes(L)
  BY <1>3, <1>4, <1>5 DEF P!Passes, P!Config
<1>7. a \in Marked(o)  BY <1>6 DEF Marked, w
<1> QED  BY <1>7 DEF HasStart

-----------------------------------------------------------------------------
(* What the constructors make, and setPath keeps *)

Fields == {"log2len", "real", "mt", "path", "isa", "perm", "marked", "buffers"}

IsaOf(log2len) == IF log2len <= 1 THEN 1 ELSE BestIsa(log2len)

\* o is an object of this length and mode, with its buffers.
Is(o, log2len, real, mt) ==
  /\ o = [f \in Fields |-> o[f]]
  /\ o.log2len = log2len /\ o.real = real /\ o.mt = mt
  /\ o.isa = IsaOf(log2len) /\ o.buffers = TRUE

\* That does not depend on the path and what is made for it.
LEMMA IsStill ==
  ASSUME NEW o, NEW log2len, NEW real, NEW mt, Is(o, log2len, real, mt), NEW v
  PROVE  /\ Is([o EXCEPT !.path = v], log2len, real, mt)
         /\ Is([o EXCEPT !.perm = v], log2len, real, mt)
         /\ [o EXCEPT !.path = v].path = v
         /\ [o EXCEPT !.perm = v].path = o.path
         /\ [o EXCEPT !.perm = v].perm = v
         /\ [o EXCEPT !.perm = v].marked = o.marked
         /\ [o EXCEPT !.path = v].marked = o.marked
BY DEF Is, Fields

\* generatePerm makes tables only.
LEMMA PermutedIs ==
  ASSUME NEW o, NEW log2len, NEW real, NEW mt, Is(o, log2len, real, mt)
  PROVE  /\ Is(Permuted(o), log2len, real, mt)
         /\ Permuted(o).path = o.path /\ Permuted(o).marked = o.marked
BY IsStill DEF Permuted

\* setPath changes the path only.
LEMMA SetPathIs ==
  ASSUME NEW o, NEW log2len, NEW real, NEW mt, Is(o, log2len, real, mt), NEW s
  PROVE  /\ Is(SetPath1D(o, s), log2len, real, mt)
         /\ SetPath1D(o, s).marked = o.marked
BY IsStill DEF SetPath1D

\* The object before a path is known
LEMMA FreshIs ==
  ASSUME NEW r
  PROVE  /\ Is(Fresh(r), r.log2len, r.real, r.mt)
         /\ Fresh(r).path = NoPath /\ Fresh(r).marked = FALSE
BY DEF Is, Fresh, Fields, IsaOf

\* The fall-back is not taken.
LEMMA MeasuredIs ==
  ASSUME NEW r, r.log2len \in Nat, r.log2len > 1, NEW o \in Measured(Fresh(r))
  PROVE  /\ Is(o, r.log2len, r.real, r.mt) /\ o.marked = TRUE
         /\ o.path \in Chains(Marked(Fresh(r)), r.log2len)
<1> DEFINE f == Fresh(r)
<1>1. Is(f, r.log2len, r.real, r.mt)  BY FreshIs
<1>2. HasStart(f)
  <2>1. f.log2len = r.log2len /\ f.isa = BestIsa(r.log2len)
    BY <1>1 DEF Is, IsaOf
  <2> QED  BY <2>1, StartExists
<1> HIDE DEF f
<1>3. PICK q \in Chains(Marked(f), f.log2len) :
        o = [f EXCEPT !.marked = TRUE, !.path = q]
  BY <1>2 DEF Measured, f
<1>4. f.log2len = r.log2len  BY <1>1 DEF Is
<1>5. Is(o, r.log2len, r.real, r.mt) /\ o.marked = TRUE /\ o.path = q
  BY <1>1, <1>3 DEF Is, Fields
<1> QED  BY <1>3, <1>4, <1>5 DEF f

\* What the constructor of a direction makes, loaded or measured
LEMMA ConstructedIs ==
  ASSUME NEW r, r.log2len \in Nat, NEW o \in Constructed(r)
  PROVE  Is(o, r.log2len, r.real, r.mt)
<1>1. CASE r.log2len <= 1  BY <1>1, FreshIs DEF Constructed
<1>2. CASE r.log2len > 1 /\ Stored(Key1D(r)) # NoString
  <2>1. o = Permuted(SetPath1D(Fresh(r), Stored(Key1D(r))))
    BY <1>2 DEF Constructed
  <2> QED  BY <2>1, FreshIs, SetPathIs, PermutedIs
<1>3. CASE r.log2len > 1 /\ Stored(Key1D(r)) = NoString
  <2>1. PICK m \in Measured(Fresh(r)) : o = Permuted(m)
    BY <1>3 DEF Constructed
  <2> QED  BY <1>3, <2>1, MeasuredIs, PermutedIs
<1> QED  BY <1>1, <1>2, <1>3

-----------------------------------------------------------------------------
(* The invariant about memory *)

\* id is an object of plan h.
Belongs(id, h) ==
  \/ kind[h] = "1d" /\ id = <<h, "1d">>
  \/ kind[h] = "2d" /\ \E role \in Roles(size[h]) : id = <<h, role>>

\* Each plan has the objects of its kind, of the sizes it was asked for.
Held ==
  /\ kind \in [Handle -> {"none", "1d", "2d"}]
  /\ planMT \in [Handle -> BOOLEAN]
  /\ \A h \in Handle : kind[h] = "2d" => size[h] \in Requests2D
  /\ DOMAIN size = Handle
  /\ obj = [id \in DOMAIN obj |-> obj[id]]
  /\ \A id : id \in DOMAIN obj <=> \E h \in Handle : Belongs(id, h)
  /\ \A h \in Handle :
       /\ kind[h] = "1d" =>
            \E r \in Requests1D :
              Is(obj[<<h, "1d">>], r.log2len, r.real, r.mt)
       /\ kind[h] = "2d" =>
            \A role \in Roles(size[h]) :
              Is(obj[<<h, role>>], Length(size[h], role), FALSE, FALSE)

\* The names of the blocks of an object
Names(o) ==
  IF o.log2len <= 1 THEN {"this"}
  ELSE {"this", "perm", "tbl"} \cup (IF o.buffers THEN {"x0, x1"} ELSE {})
         \cup (IF o.real THEN {"rtCoef"} ELSE {})

\* The blocks of an object, by their names
LEMMA BlocksAre ==
  ASSUME NEW id, NEW o
  PROVE  Blocks(id, o) = {<<id, b>> : b \in Names(o)}
BY DEF Blocks, Names

\* Block x belongs to a plan.
Owned(x) ==
  \/ \E id \in DOMAIN obj : \E b \in Names(obj[id]) : x = <<id, b>>
  \/ \E h \in Handle : /\ kind[h] = "2d"
                      /\ \E b \in {"this", "tBuf"} : x = <<<<h, "2d">>, b>>

Balanced == ~wild /\ \A x : x \in mem <=> Owned(x)

\* MemoryBalanced, said of one block at a time
LEMMA Balance == MemoryBalanced <=> Balanced
<1> DEFINE Objs == UNION {Blocks(id, obj[id]) : id \in DOMAIN obj}
           Own2D == {<<<<h, "2d">>, b>> :
                       h \in {g \in Handle : kind[g] = "2d"},
                       b \in {"this", "tBuf"}}
           M == Objs \cup Own2D
<1>1. \A x : x \in M <=> Owned(x)
  <2>1. \A x : x \in Objs <=> \E id \in DOMAIN obj : x \in Blocks(id, obj[id])
    OBVIOUS
  <2>2. \A x : x \in Objs <=>
          \E id \in DOMAIN obj : \E b \in Names(obj[id]) : x = <<id, b>>
    BY <2>1, BlocksAre
  <2>3. \A x : x \in Own2D <=>
          \E h \in Handle : /\ kind[h] = "2d"
                          /\ \E b \in {"this", "tBuf"} : x = <<<<h, "2d">>, b>>
    OBVIOUS
  <2> HIDE DEF Objs, Own2D
  <2> QED  BY <2>2, <2>3 DEF Owned
<1>2. MemoryBalanced <=> ~wild /\ mem = M  BY DEF MemoryBalanced
<1> HIDE DEF M, Objs, Own2D
<1>3. mem = M <=> \A x : x \in mem <=> x \in M  OBVIOUS
<1> QED  BY <1>1, <1>2, <1>3 DEF Balanced

\* What init1d and init2d can be asked for
LEMMA Requests ==
  /\ \A r \in Requests1D : /\ r.log2len \in Nat /\ r.real \in BOOLEAN
                           /\ r.mt \in BOOLEAN /\ r.measure \in BOOLEAN
  /\ \A r \in Requests2D : /\ r.log2vlen \in Nat /\ r.log2hlen \in Nat
                           /\ r.mt \in BOOLEAN /\ r.measure \in BOOLEAN
BY LifecycleAssumption

\* Plan h, of kind k, gets objects for the roles R, and the blocks of these.
Grows(h, k, R, objs) ==
  /\ kind[h] = "none" /\ kind' = [kind EXCEPT ![h] = k]
  /\ planMT' \in [Handle -> BOOLEAN] /\ DOMAIN size' = Handle
  /\ \A g \in Handle \ {h} : size'[g] = size[g]
  /\ DOMAIN obj' = DOMAIN obj \cup {<<h, role>> : role \in R}
  /\ obj' = [id \in DOMAIN obj' |-> obj'[id]]
  /\ \A id \in DOMAIN obj : obj'[id] = obj[id]
  /\ \A role \in R : obj'[<<h, role>>] = objs[role]
  /\ k = "1d" => /\ R = {"1d"}
                 /\ \E r \in Requests1D :
                      Is(objs["1d"], r.log2len, r.real, r.mt)
  /\ k = "2d" => /\ size'[h] \in Requests2D /\ R = Roles(size'[h])
                 /\ \A role \in R :
                      Is(objs[role], Length(size'[h], role), FALSE, FALSE)
  /\ ~wild'
  /\ \A x : x \in mem' <=>
       \/ x \in mem
       \/ \E role \in R : \E b \in Names(objs[role]) : x = <<<<h, role>>, b>>
       \/ k = "2d" /\ \E b \in {"this", "tBuf"} : x = <<<<h, "2d">>, b>>

\* Growing by a plan keeps the invariant.
LEMMA Grown ==
  ASSUME Held, Balanced, NEW h \in Handle, NEW k \in {"1d", "2d"},
         NEW R, NEW objs, Grows(h, k, R, objs)
  PROVE  Held' /\ Balanced'
<1>1. /\ kind'[h] = k /\ kind' \in [Handle -> {"none", "1d", "2d"}]
      /\ \A g \in Handle \ {h} : kind'[g] = kind[g]
  BY DEF Held, Grows
<1>0. kind[h] = "none" /\ \A g \in Handle \ {h} : size'[g] = size[g]
  BY DEF Grows
<1>2. /\ \A id : \A g \in Handle \ {h} : Belongs(id, g)' <=> Belongs(id, g)
      /\ \A id : Belongs(id, h)' <=> \E role \in R : id = <<h, role>>
      /\ \A id : ~Belongs(id, h)
  BY <1>0, <1>1 DEF Belongs, Grows
<1>3. \A id : id \in DOMAIN obj' <=> \E g \in Handle : Belongs(id, g)'
  BY <1>2 DEF Held, Grows
<1>4. ASSUME NEW g \in Handle, g # h
      PROVE  /\ kind'[g] = "1d" =>
                  \E q \in Requests1D :
                    Is(obj'[<<g, "1d">>], q.log2len, q.real, q.mt)
             /\ kind'[g] = "2d" =>
                  \A role \in Roles(size'[g]) :
                    Is(obj'[<<g, role>>], Length(size'[g], role), FALSE,
                       FALSE)
  <2>1. /\ kind[g] = "1d" => <<g, "1d">> \in DOMAIN obj
        /\ kind[g] = "2d" =>
             \A role \in Roles(size[g]) : <<g, role>> \in DOMAIN obj
    BY DEF Held, Belongs
  <2>2. \A id \in DOMAIN obj : obj'[id] = obj[id]  BY DEF Grows
  <2> QED  BY <1>0, <1>1, <1>4, <2>1, <2>2 DEF Held
<1>5. /\ kind'[h] = "1d" =>
           \E q \in Requests1D :
             Is(obj'[<<h, "1d">>], q.log2len, q.real, q.mt)
      /\ kind'[h] = "2d" =>
           \A role \in Roles(size'[h]) :
             Is(obj'[<<h, role>>], Length(size'[h], role), FALSE, FALSE)
  BY <1>1 DEF Grows
<1>6. \A g \in Handle : kind'[g] = "2d" => size'[g] \in Requests2D
  BY <1>1 DEF Held, Grows
<1>7. Held'  BY <1>1, <1>3, <1>4, <1>5, <1>6 DEF Held, Grows
<1>8. \A x : Owned(x)' <=>
        \/ Owned(x)
        \/ \E role \in R : \E b \in Names(objs[role]) : x = <<<<h, role>>, b>>
        \/ k = "2d" /\ \E b \in {"this", "tBuf"} : x = <<<<h, "2d">>, b>>
  <2> DEFINE Two(x, g) == \E b \in {"this", "tBuf"} : x = <<<<g, "2d">>, b>>
             Of(x, id, o) == \E b \in Names(o) : x = <<id, b>>
  <2>1. \A x : (\E g \in Handle : kind'[g] = "2d" /\ Two(x, g)) <=>
          \/ \E g \in Handle : kind[g] = "2d" /\ Two(x, g)
          \/ k = "2d" /\ Two(x, h)
    <3>1. \A g \in Handle : kind'[g] = "2d" <=>
            kind[g] = "2d" \/ (g = h /\ k = "2d")
      <4>1. ASSUME NEW g \in Handle, g # h PROVE kind'[g] = kind[g]
        BY <1>1, <4>1
      <4>2. kind[h] # "2d" /\ kind'[h] = k  BY <1>0, <1>1
      <4> QED  BY <4>1, <4>2, Zenon
    <3> HIDE DEF Two
    <3> QED  BY <3>1
  <2>2. \A x : (\E id \in DOMAIN obj' : Of(x, id, obj'[id])) <=>
          \/ \E id \in DOMAIN obj : Of(x, id, obj[id])
          \/ \E role \in R : Of(x, <<h, role>>, objs[role])
    <3>1. /\ \A id \in DOMAIN obj : id \in DOMAIN obj' /\ obj'[id] = obj[id]
          /\ \A role \in R : /\ <<h, role>> \in DOMAIN obj'
                             /\ obj'[<<h, role>>] = objs[role]
          /\ \A id \in DOMAIN obj' :
               id \in DOMAIN obj \/ \E role \in R : id = <<h, role>>
      BY DEF Grows
    <3> HIDE DEF Of
    <3>2. ASSUME NEW x, NEW id \in DOMAIN obj', Of(x, id, obj'[id])
          PROVE  \/ \E i \in DOMAIN obj : Of(x, i, obj[i])
                 \/ \E role \in R : Of(x, <<h, role>>, objs[role])
      <4>1. CASE id \in DOMAIN obj  BY <3>1, <3>2, <4>1
      <4>2. CASE \E role \in R : id = <<h, role>>
        <5>1. PICK role \in R : id = <<h, role>>  BY <4>2
        <5> QED  BY <3>1, <3>2, <5>1
      <4> QED  BY <3>1, <4>1, <4>2
    <3>3. ASSUME NEW x, NEW id \in DOMAIN obj, Of(x, id, obj[id])
          PROVE  \E i \in DOMAIN obj' : Of(x, i, obj'[i])
      BY <3>1, <3>3
    <3>4. ASSUME NEW x, NEW role \in R, Of(x, <<h, role>>, objs[role])
          PROVE  \E i \in DOMAIN obj' : Of(x, i, obj'[i])
      BY <3>1, <3>4
    <3> QED  BY <3>2, <3>3, <3>4
  <2>3. \A x : Owned(x)' <=>
          \/ \E id \in DOMAIN obj' : Of(x, id, obj'[id])
          \/ \E g \in Handle : kind'[g] = "2d" /\ Two(x, g)
    BY DEF Owned
  <2>4. \A x : Owned(x) <=>
          \/ \E id \in DOMAIN obj : Of(x, id, obj[id])
          \/ \E g \in Handle : kind[g] = "2d" /\ Two(x, g)
    BY DEF Owned
  <2>5. \A x : Owned(x)' <=>
          \/ Owned(x)
          \/ \E role \in R : Of(x, <<h, role>>, objs[role])
          \/ k = "2d" /\ Two(x, h)
    <3> HIDE DEF Of, Two
    <3> QED  BY <2>1, <2>2, <2>3, <2>4
  <2> QED  BY <2>5
<1>9. Balanced'  BY <1>8 DEF Balanced, Grows
<1> QED  BY <1>7, <1>9

\* A 1D plan is made.
LEMMA Init1DM ==
  ASSUME Held, Balanced, NEW h \in Handle, NEW r \in Requests1D, Init1D(h, r)
  PROVE  Held' /\ Balanced'
<1>1. PICK o \in Constructed(r) :
        /\ obj' = With(obj, <<h, "1d">>, o)
        /\ mem' = mem \cup Blocks(<<h, "1d">>, o)
        /\ wild' = (wild \/ (r.measure /\ ~o.buffers))
  BY DEF Init1D
<1>2. Is(o, r.log2len, r.real, r.mt)  BY Requests, ConstructedIs
<1>3. /\ kind[h] = "none" /\ kind' = [kind EXCEPT ![h] = "1d"]
      /\ size' = size /\ planMT' = planMT
  BY DEF Init1D
<1>4. \A b : <<h, b>> \notin DOMAIN obj  BY <1>3 DEF Held, Belongs
<1> DEFINE objs == [role \in {"1d"} |-> o]
<1>5. /\ DOMAIN obj' = DOMAIN obj \cup {<<h, role>> : role \in {"1d"}}
      /\ obj' = [id \in DOMAIN obj' |-> obj'[id]]
      /\ \A id \in DOMAIN obj : obj'[id] = obj[id]
      /\ \A role \in {"1d"} : obj'[<<h, role>>] = objs[role]
  BY <1>1, <1>4 DEF With
<1>6. ~wild'  BY <1>1, <1>2 DEF Balanced, Is
<1>7. \A x : x \in mem' <=>
        \/ x \in mem
        \/ \E role \in {"1d"} :
             \E b \in Names(objs[role]) : x = <<<<h, role>>, b>>
        \/ /\ "1d" = "2d"
           /\ \E b \in {"this", "tBuf"} : x = <<<<h, "2d">>, b>>
  BY <1>1, BlocksAre
<1>8. objs["1d"] = o  OBVIOUS
<1> HIDE DEF objs
<1>9. /\ planMT' \in [Handle -> BOOLEAN] /\ DOMAIN size' = Handle
      /\ \A g \in Handle \ {h} : size'[g] = size[g]
  BY <1>3 DEF Held
<1>10. Grows(h, "1d", {"1d"}, objs)
  BY <1>2, <1>3, <1>5, <1>6, <1>7, <1>8, <1>9 DEF Grows
<1> QED  BY <1>10, Grown

\* The objects of 2D plan r, one per role
Are(objs, r) ==
  \A role \in Roles(r) : Is(objs[role], Length(r, role), FALSE, FALSE)

\* The objects of a 2D plan stay what they are when a path is set ...
LEMMA SetPath2DAre ==
  ASSUME NEW r, NEW objs, Are(objs, r), NEW s
  PROVE  Are(SetPath2D(objs, r, s), r)
<1> SUFFICES ASSUME NEW role \in Roles(r)
             PROVE  Is(SetPath2D(objs, r, s)[role], Length(r, role), FALSE,
                       FALSE)
  BY DEF Are
<1>1. Is(objs[role], Length(r, role), FALSE, FALSE)  BY DEF Are
<1>2. \A t : Is(SetPath1D(objs[role], t), Length(r, role), FALSE, FALSE)
  BY <1>1, SetPathIs
<1>3. \A t, u : Is(SetPath1D(SetPath1D(objs[role], t), u), Length(r, role),
                  FALSE, FALSE)
  BY <1>2, SetPathIs
<1>4. CASE ~HasPaths(s)  BY <1>1, <1>4 DEF SetPath2D
<1>5. CASE HasPaths(s) /\ role = "V"  BY <1>2, <1>5 DEF SetPath2D
<1>6. CASE HasPaths(s) /\ role # "V"  BY <1>2, <1>3, <1>6 DEF SetPath2D
<1> QED  BY <1>4, <1>5, <1>6

\* ... and in the constructor, wherever the path comes from.
LEMMA PlannedAre ==
  ASSUME NEW r \in Requests2D, NEW objs, Are(objs, r),
         NEW plan \in Planned2D(objs, r)
  PROVE  Are(plan.objs, r) /\ plan.mt \in BOOLEAN
<1> DEFINE s == Stored(Key2D(r))
<1>1. CASE plan \in Loaded2D(objs, r, s)
  <2> HIDE DEF s
  <2>1. /\ plan.objs \in {SetPath2D(objs, r, s), objs}
        /\ plan.mt = (HasNumber(s) /\ PlanMT(s))
    BY <1>1 DEF Loaded2D
  <2> QED  BY <2>1, SetPath2DAre DEF HasNumber, PlanMT
<1>2. CASE plan \in Measured2D(objs, r)
  <2>1. PICK q : \E mt \in {FALSE, r.mt} :
          plan = [objs |-> [role \in Roles(r) |->
                              [objs[role] EXCEPT !.path = q[role]]],
                  mt |-> mt, save |-> TRUE]
    BY <1>2 DEF Measured2D, ForEach
  <2> DEFINE found == [role \in Roles(r) |->
                         [objs[role] EXCEPT !.path = q[role]]]
  <2>2. plan.mt \in {FALSE, r.mt} /\ plan.objs = found
    <3>1. PICK mt \in {FALSE, r.mt} :
            plan = [objs |-> found, mt |-> mt, save |-> TRUE]
      BY <2>1
    <3> HIDE DEF found
    <3> QED  BY <3>1
  <2>3. ASSUME NEW role \in Roles(r)
        PROVE  Is(found[role], Length(r, role), FALSE, FALSE)
    <3>1. found[role] = [objs[role] EXCEPT !.path = q[role]]  OBVIOUS
    <3>2. Is(objs[role], Length(r, role), FALSE, FALSE)  BY DEF Are
    <3> HIDE DEF found
    <3> QED  BY <3>1, <3>2 DEF Is, Fields
  <2>4. Are(plan.objs, r)  BY <2>2, <2>3 DEF Are
  <2> QED  BY <2>2, <2>4, Requests
<1>3. CASE plan \in Estimated2D(objs, r)
  <2>1. /\ plan.objs = objs
        /\ plan.mt = (r.log2hlen + r.log2vlen >= 14)
    BY <1>3 DEF Estimated2D
  <2> QED  BY <2>1
<1> QED  BY <1>1, <1>2, <1>3 DEF Planned2D

\* The state that the constructor of a 2D plan leaves
Makes2D(h, r, plan, objs) ==
  /\ obj' = [id \in DOMAIN obj \cup {<<h, role>> : role \in Roles(r)} |->
               IF id \in DOMAIN obj THEN obj[id] ELSE objs[id[2]]]
  /\ mem' = mem \cup {<<<<h, "2d">>, b>> : b \in {"this", "tBuf"}}
               \cup UNION {Blocks(<<h, role>>, objs[role]) :
                              role \in Roles(r)}
  /\ planMT' = [planMT EXCEPT ![h] = plan.mt]
  /\ wild' = \/ wild
              \/ (r.measure /\ \E role \in Roles(r) : ~objs[role].buffers)

\* A 2D plan is made.
LEMMA Init2DM ==
  ASSUME Held, Balanced, NEW h \in Handle, NEW r \in Requests2D, Init2D(h, r)
  PROVE  Held' /\ Balanced'
<1>1. PICK made :
        /\ \A role \in Roles(r) :
             made[role] \in Constructed(Direction(Length(r, role)))
        /\ \E plan \in Planned2D(made, r) :
            Makes2D(h, r, plan,
                    [role \in Roles(r) |-> Permuted(plan.objs[role])])
  BY DEF Init2D, ForEach, Makes2D
<1>2. \A role \in Roles(r) : Length(r, role) \in Nat  BY Requests DEF Length
<1>3. Are(made, r)
  <2>1. ASSUME NEW role \in Roles(r)
        PROVE  Is(made[role], Length(r, role), FALSE, FALSE)
    <3>1. made[role] \in Constructed(Direction(Length(r, role)))  BY <1>1
    <3>2. /\ Direction(Length(r, role)).log2len = Length(r, role)
          /\ Direction(Length(r, role)).real = FALSE
          /\ Direction(Length(r, role)).mt = FALSE
      BY DEF Direction
    <3> QED  BY <1>2, <3>1, <3>2, ConstructedIs
  <2> QED  BY <2>1 DEF Are
<1>4. PICK plan \in Planned2D(made, r) :
            Makes2D(h, r, plan,
                    [role \in Roles(r) |-> Permuted(plan.objs[role])])
  BY <1>1
<1>5. Are(plan.objs, r) /\ plan.mt \in BOOLEAN  BY <1>3, PlannedAre
<1> DEFINE objs == [role \in Roles(r) |-> Permuted(plan.objs[role])]
<1>6. Are(objs, r)  BY <1>5, PermutedIs DEF Are
<1>7. Makes2D(h, r, plan, objs)  BY <1>4
<1> HIDE DEF objs
<1>8. /\ kind[h] = "none" /\ kind' = [kind EXCEPT ![h] = "2d"]
      /\ size' = [size EXCEPT ![h] = r]
  BY DEF Init2D
<1>9. \A b : <<h, b>> \notin DOMAIN obj  BY <1>8 DEF Held, Belongs
<1>10. /\ DOMAIN obj' = DOMAIN obj \cup {<<h, role>> : role \in Roles(r)}
       /\ obj' = [id \in DOMAIN obj' |-> obj'[id]]
       /\ \A id \in DOMAIN obj : obj'[id] = obj[id]
       /\ \A role \in Roles(r) : obj'[<<h, role>>] = objs[role]
  BY <1>7, <1>9 DEF Makes2D
<1>11. ~wild'  BY <1>6, <1>7 DEF Makes2D, Balanced, Are, Is
<1>12. \A x : x \in mem' <=>
         \/ x \in mem
         \/ \E role \in Roles(r) :
              \E b \in Names(objs[role]) : x = <<<<h, role>>, b>>
         \/ \E b \in {"this", "tBuf"} : x = <<<<h, "2d">>, b>>
  <2>1. \A x : x \in UNION {Blocks(<<h, role>>, objs[role]) : role \in Roles(r)}
          <=> \E role \in Roles(r) : x \in Blocks(<<h, role>>, objs[role])
    OBVIOUS
  <2> QED  BY <1>7, <2>1, BlocksAre DEF Makes2D
<1>13. /\ planMT' \in [Handle -> BOOLEAN] /\ DOMAIN size' = Handle
       /\ \A g \in Handle \ {h} : size'[g] = size[g]
       /\ size'[h] = r
  BY <1>5, <1>7, <1>8 DEF Makes2D, Held
<1>14. Grows(h, "2d", Roles(r), objs)
  BY <1>6, <1>8, <1>10, <1>11, <1>12, <1>13 DEF Grows, Are
<1> QED  BY <1>14, Grown

\* The objects of a plan
LEMMA Objects ==
  ASSUME Held, NEW h \in Handle
  PROVE  /\ \A id : Belongs(id, h) =>
              /\ id \in DOMAIN obj
              /\ \E l, real, mt : Is(obj[id], l, real, mt)
         /\ \A id : id \in Own(h) <=> Belongs(id, h)
         /\ kind[h] = "2d" => Are(ObjsOf(h), size[h])
<1>1. \A id : Belongs(id, h) => id \in DOMAIN obj /\ id[1] = h
  BY DEF Held, Belongs
<1>2. ASSUME NEW id, Belongs(id, h)
      PROVE  \E l, real, mt : Is(obj[id], l, real, mt)
  BY <1>2 DEF Held, Belongs
<1>3. ASSUME NEW id \in Own(h) PROVE Belongs(id, h)
  <2>1. PICK g \in Handle : Belongs(id, g)  BY DEF Own, Held
  <2>2. g = h  BY <2>1 DEF Own, Belongs
  <2> QED  BY <2>1, <2>2
<1>4. \A id : Belongs(id, h) => id \in Own(h)  BY <1>1 DEF Own
<1>5. ASSUME kind[h] = "2d", NEW role \in Roles(size[h])
      PROVE  Is(ObjsOf(h)[role], Length(size[h], role), FALSE, FALSE)
  <2>1. Belongs(<<h, role>>, h)  BY <1>5 DEF Belongs
  <2>2. <<h, role>> \in Own(h)  BY <2>1, <1>4
  <2>3. <<h, role>>[2] = role  OBVIOUS
  <2>4. role \in {id[2] : id \in Own(h)}  BY <2>2, <2>3
  <2>5. ObjsOf(h)[role] = obj[<<h, role>>]  BY <2>4 DEF ObjsOf
  <2> QED  BY <1>5, <2>5 DEF Held
<1> QED  BY <1>1, <1>2, <1>3, <1>4, <1>5 DEF Are

\* Objects of the same length and mode have blocks of the same names.
LEMMA SameNames ==
  ASSUME NEW o, NEW p, NEW l, NEW real, NEW mt, Is(o, l, real, mt),
         Is(p, l, real, mt)
  PROVE  Names(p) = Names(o)
BY DEF Is, Names

\* Plan h gets other paths.
LEMMA SetPathM ==
  ASSUME Held, Balanced, NEW h \in Handle, NEW s, SetPath(h, s)
  PROVE  Held' /\ Balanced'
<1>1. /\ kind' = kind /\ size' = size /\ mem' = mem /\ wild' = wild
      /\ kind[h] # "none"
  BY DEF SetPath
<1>2. /\ planMT' \in [Handle -> BOOLEAN]
      /\ DOMAIN obj' = DOMAIN obj /\ obj' = [id \in DOMAIN obj' |-> obj'[id]]
  BY DEF SetPath, Held, PlanMT
<1>3. ASSUME NEW id \in DOMAIN obj, ~Belongs(id, h)
      PROVE  obj'[id] = obj[id]
  <2>1. id \notin Own(h)  BY <1>3, Objects
  <2>2. CASE kind[h] = "1d"
    <3>1. id # <<h, "1d">>  BY <1>3, <2>2 DEF Belongs
    <3> QED  BY <2>2, <3>1 DEF SetPath
  <2>3. CASE kind[h] # "1d"  BY <2>1, <2>3 DEF SetPath, Own
  <2> QED  BY <2>2, <2>3
<1>4. ASSUME kind[h] = "1d", NEW l, NEW real, NEW mt,
             Is(obj[<<h, "1d">>], l, real, mt)
      PROVE  Is(obj'[<<h, "1d">>], l, real, mt)
  <2>1. <<h, "1d">> \in DOMAIN obj  BY <1>4 DEF Held, Belongs
  <2>2. obj'[<<h, "1d">>] = SetPath1D(obj[<<h, "1d">>], s)
    BY <1>4, <2>1 DEF SetPath
  <2> QED  BY <1>4, <2>2, SetPathIs
<1>5. ASSUME kind[h] = "2d", NEW role \in Roles(size[h])
      PROVE  Is(obj'[<<h, role>>], Length(size[h], role), FALSE, FALSE)
  <2>1. CASE HasNumber(s)
    <3>1. Belongs(<<h, role>>, h)  BY <1>5 DEF Belongs
    <3>2. <<h, role>> \in DOMAIN obj  BY <3>1, Objects
    <3>3. obj' = [id \in DOMAIN obj |->
                    IF id[1] = h THEN SetPath2D(ObjsOf(h), size[h], s)[id[2]]
                                 ELSE obj[id]]
      BY <1>5, <2>1 DEF SetPath
    <3>4. obj'[<<h, role>>] = SetPath2D(ObjsOf(h), size[h], s)[role]
      BY <3>2, <3>3
    <3>5. Are(SetPath2D(ObjsOf(h), size[h], s), size[h])
      BY <1>5, Objects, SetPath2DAre
    <3> QED  BY <1>5, <3>4, <3>5 DEF Are
  <2>2. CASE ~HasNumber(s)  BY <1>5, <2>2 DEF SetPath, Held
  <2> QED  BY <2>1, <2>2
<1>6. ASSUME NEW id \in DOMAIN obj PROVE Names(obj'[id]) = Names(obj[id])
  <2>1. CASE ~Belongs(id, h)  BY <1>3, <2>1
  <2>2. CASE kind[h] = "1d" /\ Belongs(id, h)
    <3>1. id = <<h, "1d">>  BY <2>2 DEF Belongs
    <3>2. PICK l, real, mt : Is(obj[id], l, real, mt)  BY <2>2, Objects
    <3> QED  BY <1>4, <2>2, <3>1, <3>2, SameNames
  <2>3. CASE kind[h] = "2d" /\ Belongs(id, h)
    <3>1. PICK role \in Roles(size[h]) : id = <<h, role>>
      BY <2>3 DEF Belongs
    <3>2. Is(obj[id], Length(size[h], role), FALSE, FALSE)
      BY <2>3, <3>1 DEF Held
    <3> QED  BY <1>5, <2>3, <3>1, <3>2, SameNames
  <2> QED  BY <2>1, <2>2, <2>3 DEF Belongs
<1>7. Held'
  <2>1. \A id, g : Belongs(id, g)' <=> Belongs(id, g)  BY <1>1 DEF Belongs
  <2>2. \A id : id \in DOMAIN obj' <=> \E g \in Handle : Belongs(id, g)'
    BY <1>2, <2>1 DEF Held
  <2>3. ASSUME NEW g \in Handle
        PROVE  /\ kind'[g] = "1d" =>
                    \E r \in Requests1D :
                      Is(obj'[<<g, "1d">>], r.log2len, r.real, r.mt)
               /\ kind'[g] = "2d" =>
                    \A role \in Roles(size'[g]) :
                      Is(obj'[<<g, role>>], Length(size'[g], role), FALSE,
                         FALSE)
    <3>1. CASE g = h  BY <1>1, <1>4, <1>5, <3>1 DEF Held
    <3>2. CASE g # h
      <4>1. \A b : /\ Belongs(<<g, b>>, g) => <<g, b>> \in DOMAIN obj
                   /\ ~Belongs(<<g, b>>, h)
        BY <3>2, Objects DEF Belongs
      <4>2. \A b : Belongs(<<g, b>>, g) => obj'[<<g, b>>] = obj[<<g, b>>]
        BY <1>3, <4>1
      <4> QED  BY <1>1, <4>2 DEF Held, Belongs
    <3> QED  BY <3>1, <3>2
  <2> QED  BY <1>1, <1>2, <2>2, <2>3 DEF Held
<1>8. \A x : Owned(x)' <=> Owned(x)
  BY <1>1, <1>2, <1>6 DEF Owned
<1> QED  BY <1>1, <1>7, <1>8 DEF Balanced

\* Plan h goes, and what it consists of goes with it.
LEMMA DisposeM ==
  ASSUME Held, Balanced, NEW h \in Handle, Dispose(h)
  PROVE  Held' /\ Balanced'
<1> DEFINE Two(x) == \E b \in {"this", "tBuf"} : x = <<<<h, "2d">>, b>>
           Mine(x) == \/ \E id \in Own(h) :
                           \E b \in Names(obj[id]) : x = <<id, b>>
                      \/ kind[h] = "2d" /\ Two(x)
<1>1. /\ kind[h] # "none" /\ kind' = [kind EXCEPT ![h] = "none"]
      /\ planMT' = [planMT EXCEPT ![h] = FALSE]
      /\ size' = [size EXCEPT ![h] = NoSize]
      /\ obj' = [id \in DOMAIN obj \ Own(h) |-> obj[id]]
      /\ mem' = mem \ ReleasedBlocks(h)
      /\ wild' = (wild \/ ~(Deleted(h) \subseteq DOMAIN obj)
                       \/ ~(ReleasedBlocks(h) \subseteq mem))
  BY DEF Dispose
<1>2. Deleted(h) = Own(h) /\ Own(h) \subseteq DOMAIN obj
  <2>1. \A id : id \in Deleted(h) <=> Belongs(id, h)
    BY <1>1 DEF Deleted, Belongs, Held
  <2>2. \A id : id \in Own(h) <=> Belongs(id, h)  BY Objects
  <2>3. Own(h) \subseteq DOMAIN obj  BY DEF Own
  <2> QED  BY <2>1, <2>2, <2>3
<1>3. \A x : x \in ReleasedBlocks(h) <=> Mine(x)
  <2>1. ASSUME NEW id \in Own(h) PROVE Freed(id, obj[id]) = Blocks(id, obj[id])
    <3>1. PICK l, real, mt : Is(obj[id], l, real, mt)  BY <2>1, Objects
    <3>2. [obj[id] EXCEPT !.buffers = TRUE] = obj[id]  BY <3>1 DEF Is, Fields
    <3> QED  BY <3>2 DEF Freed
  <2> DEFINE B == UNION {Freed(id, obj[id]) : id \in Deleted(h) \cap DOMAIN obj}
             C == IF kind[h] = "2d"
                  THEN {<<<<h, "2d">>, b>> : b \in {"this", "tBuf"}} ELSE {}
  <2>2. \A x : x \in B <=> \E id \in Own(h) : x \in Blocks(id, obj[id])
    BY <1>2, <2>1
  <2>3. \A x : x \in B <=>
          \E id \in Own(h) : \E b \in Names(obj[id]) : x = <<id, b>>
    BY <2>2, BlocksAre
  <2>4. \A x : x \in C <=> kind[h] = "2d" /\ Two(x)  OBVIOUS
  <2>5. ReleasedBlocks(h) = B \cup C  BY DEF ReleasedBlocks
  <2> HIDE DEF B, C, Two
  <2> QED  BY <2>3, <2>4, <2>5
<1>4. \A x : Mine(x) => Owned(x)  BY <1>2 DEF Owned
<1>5. ReleasedBlocks(h) \subseteq mem  BY <1>3, <1>4 DEF Balanced
<1>6. ~wild'  BY <1>1, <1>2, <1>5 DEF Balanced
<1>7. /\ kind'[h] = "none" /\ kind' \in [Handle -> {"none", "1d", "2d"}]
      /\ \A g \in Handle \ {h} : kind'[g] = kind[g] /\ size'[g] = size[g]
      /\ planMT' \in [Handle -> BOOLEAN] /\ DOMAIN size' = Handle
  BY <1>1 DEF Held
<1>8. /\ \A id : \A g \in Handle \ {h} : Belongs(id, g)' <=> Belongs(id, g)
      /\ \A id : ~Belongs(id, h)'
      /\ \A id : \A g \in Handle \ {h} : Belongs(id, g) => ~Belongs(id, h)
  BY <1>7 DEF Belongs
<1>9. Held'
  <2>1. ASSUME NEW id
        PROVE  id \in DOMAIN obj' <=> \E g \in Handle : Belongs(id, g)'
    <3>1. id \in DOMAIN obj' <=> id \in DOMAIN obj /\ id \notin Own(h)  BY <1>1
    <3>2. id \in Own(h) <=> Belongs(id, h)  BY Objects
    <3>3. id \in DOMAIN obj <=> \E g \in Handle : Belongs(id, g)  BY DEF Held
    <3> QED  BY <1>8, <3>1, <3>2, <3>3
  <2>2. ASSUME NEW g \in Handle, g # h, NEW id, Belongs(id, g)
        PROVE  obj'[id] = obj[id]
    <3>1. id \in DOMAIN obj /\ id \notin Own(h)  BY <1>8, <2>2, Objects
    <3> QED  BY <1>1, <3>1
  <2>3. ASSUME NEW g \in Handle
        PROVE  /\ kind'[g] = "1d" =>
                    \E r \in Requests1D :
                      Is(obj'[<<g, "1d">>], r.log2len, r.real, r.mt)
               /\ kind'[g] = "2d" =>
                    \A role \in Roles(size'[g]) :
                      Is(obj'[<<g, role>>], Length(size'[g], role), FALSE,
                         FALSE)
    <3>1. CASE g = h  BY <1>7, <3>1
    <3>2. CASE g # h
      BY <1>7, <2>2, <3>2 DEF Held, Belongs
    <3> QED  BY <3>1, <3>2
  <2>4. \A g \in Handle : kind'[g] = "2d" => size'[g] \in Requests2D
    BY <1>7 DEF Held
  <2>5. obj' = [id \in DOMAIN obj' |-> obj'[id]]  BY <1>1
  <2> QED  BY <1>7, <2>1, <2>3, <2>4, <2>5 DEF Held
<1>10. ASSUME NEW x PROVE Owned(x)' <=> Owned(x) /\ ~Mine(x)
  <2> DEFINE Of(id) == \E b \in Names(obj[id]) : x = <<id, b>>
             Pair(g) == \E b \in {"this", "tBuf"} : x = <<<<g, "2d">>, b>>
  <2>1. Owned(x) <=> \/ \E id \in DOMAIN obj : Of(id)
                     \/ \E g \in Handle : kind[g] = "2d" /\ Pair(g)
    BY DEF Owned
  <2>2. Owned(x)' <=> \/ \E id \in DOMAIN obj \ Own(h) : Of(id)
                      \/ \E g \in Handle \ {h} : kind[g] = "2d" /\ Pair(g)
    BY <1>1, <1>7 DEF Owned
  <2>3. Mine(x) <=> \/ \E id \in Own(h) : Of(id)
                    \/ kind[h] = "2d" /\ Pair(h)
    OBVIOUS
  <2>4. \A id, i : Of(id) /\ Of(i) => id = i  OBVIOUS
  <2>5. \A g, i : Pair(g) /\ Pair(i) => g = i  OBVIOUS
  <2>6. \A id \in DOMAIN obj, g \in Handle : ~(Of(id) /\ Pair(g))
    <3>1. \A id \in DOMAIN obj : \A g \in Handle : id # <<g, "2d">>
      BY DEF Held, Belongs, Roles
    <3> QED  BY <3>1
  <2> HIDE DEF Of, Pair, Mine
  <2> QED  BY <1>2, <2>1, <2>2, <2>3, <2>4, <2>5, <2>6
<1>11. Balanced'
  <2> HIDE DEF Mine
  <2> QED  BY <1>1, <1>3, <1>6, <1>10 DEF Balanced
<1> QED  BY <1>9, <1>11

\* Every step keeps the invariant.
LEMMA NextM == Held /\ Balanced /\ [Next]_vars => Held' /\ Balanced'
<1> SUFFICES ASSUME Held, Balanced, [Next]_vars PROVE Held' /\ Balanced'
  OBVIOUS
<1>1. ASSUME NEW h \in Handle, NEW r \in Requests1D, Init1D(h, r)
      PROVE  Held' /\ Balanced'
  BY <1>1, Init1DM
<1>2. ASSUME NEW h \in Handle, NEW r \in Requests2D, Init2D(h, r)
      PROVE  Held' /\ Balanced'
  BY <1>2, Init2DM
<1>3. ASSUME NEW h \in Handle, NEW s, SetPath(h, s) PROVE Held' /\ Balanced'
  BY <1>3, SetPathM
<1>4. ASSUME NEW h \in Handle, Dispose(h) PROVE Held' /\ Balanced'
  BY <1>4, DisposeM
<1>5. CASE UNCHANGED vars
  <2>1. \A id, h : Belongs(id, h)' <=> Belongs(id, h)
    BY <1>5 DEF vars, Belongs
  <2>2. \A x : Owned(x)' <=> Owned(x)  BY <1>5 DEF vars, Owned
  <2> QED  BY <1>5, <2>1, <2>2 DEF vars, Held, Balanced
<1> QED  BY <1>1, <1>2, <1>3, <1>4, <1>5 DEF Next

\* However plans are constructed, given paths and disposed, what is allocated
\* is what the plans of the application consist of, and the destructors free
\* each block once.
THEOREM MemoryIsBalanced == Spec => []MemoryBalanced
<1>1. Init => Held /\ Balanced
  BY DEF Init, Held, Belongs, Balanced, Owned
<1> QED  BY <1>1, NextM, Balance, PTL DEF Spec
-----------------------------------------------------------------------------
(* What a plan may run *)

\* A path is written as a string of tokens, and no path of passes as none.
LEMMA PathStringIs ==
  ASSUME NEW q, NEW l, IsPath(q, l)
  PROVE  /\ PathString(q) \in Seq(PathToken)
         /\ q # <<>> => PathString(q) # <<>>
<1> DEFINE n == Len(q)
           s == PathString(q)
<1>1. q \in Seq(Written) /\ n \in Nat  BY LenProperties DEF IsPath
<1>2. PICK text : Texts(text, q) /\ s = text[n]  BY <1>1, TextsExist
<1>3. n \in 0..n  BY <1>1
<1>4. text[n] \in Seq(PathToken)
  <2>1. PathToken \subseteq PathToken  OBVIOUS
  <2> QED  BY <1>1, <1>2, <1>3, <2>1, TextsAre
<1> HIDE DEF s
<1>5. ASSUME q # <<>> PROVE s # <<>>
  <2>1. n \in 1..n
    <3>1. n # 0  BY <1>1, <1>5, EmptySeq
    <3> QED  BY <1>1, <3>1
  <2> DEFINE u == StepString(q[n])
             i == Len(text[n - 1])
  <2>2. At(u, s, i)
    <3>1. n \in n..n  BY <1>1
    <3> QED  BY <1>1, <1>2, <2>1, <3>1, PassAt
  <2>3. Len(u) \in Nat /\ Len(u) >= 1
    <3>1. q[n] \in Written  BY <1>1, <2>1, ElementOfSeq
    <3> QED  BY <3>1, WrittenArePasses, StepEnds
  <2> HIDE DEF u, i
  <2>4. Len(s) \in Nat  BY <1>2, <1>4, LenProperties
  <2>5. i \in Nat /\ i + Len(u) <= Len(s)  BY <2>2 DEF At
  <2>6. Len(s) # 0  BY <2>3, <2>4, <2>5
  <2> QED  BY <2>6
<1> QED  BY <1>2, <1>4, <1>5 DEF s

\* Where there is no pass to read there is no path to get, for some lengths.
LEMMA NothingIsRead ==
  ASSUME NEW l \in Nat
  PROVE  /\ PathString(NoPath) \in Seq(PathToken)
         /\ ParsePathStr(PathString(NoPath), l) \in {NoPath, Malformed}
<1>1. NoPath \in Seq(Written) /\ Len(NoPath) = 0 /\ NoPath = <<>>
  BY DEF NoPath
<1>2. PathString(NoPath) = <<>>
  <2>1. PICK text : /\ Texts(text, NoPath)
                    /\ PathString(NoPath) = text[Len(NoPath)]
    BY <1>1, TextsExist
  <2> QED  BY <1>1, <2>1 DEF Texts
<1> DEFINE s == PathString(NoPath)
<1>3. s \in Seq(Token) /\ s \in Seq(PathToken) /\ Len(s) = 0
  BY <1>2, EmptySeq
<1> HIDE DEF s
<1>4. PICK f : /\ \A i \in 0..Len(s) : \A level \in 0..l :
                    f[i][level] = Turn(s, f, i, level)
               /\ ParsePathStr(s, l) = f[0][l]
  BY <1>3, ParseUnfold
<1>5. ParsePathStr(s, l) = Turn(s, f, 0, l)
  <2>1. 0 \in 0..Len(s) /\ l \in 0..l  BY <1>3
  <2> QED  BY <1>4, <2>1
<1>6. Turn(s, f, 0, l) = IF l = 0 THEN <<>> ELSE Malformed
  BY <1>3, Zenon DEF Turn
<1> QED  BY <1>1, <1>3, <1>5, <1>6, Zenon DEF s

\* What measure() marks for objects of this length and mode
MarkedFor(l, mt) ==
  LET w == ISA[IsaOf(l)].log2vecwidth IN
  UNION {P(l, w, mt)!Passes(k) : k \in 1..l}

\* It is what the model marks.
LEMMA MarkedIs ==
  ASSUME NEW o, NEW l, NEW real, NEW mt, Is(o, l, real, mt)
  PROVE  Marked(o) = MarkedFor(l, mt)
BY DEF Is, Marked, MarkedFor

\* Passes that are marked can be written.
LEMMA MarkedAreWritten ==
  ASSUME NEW l \in Nat, NEW mt
  PROVE  MarkedFor(l, mt) \in SUBSET Written
<1> DEFINE w == ISA[IsaOf(l)].log2vecwidth
<1>1. ASSUME NEW k \in 1..l, NEW a \in P(l, w, mt)!Passes(k)
      PROVE  a \in Written
  <2>1. /\ a \in [config : P(l, w, mt)!Config, level : {k},
                  N : 1..MaxButWidth]
        /\ P(l, w, mt)!Executable(a)
    BY <1>1 DEF P!Passes
  <2>2. a.N <= a.level  BY <2>1 DEF P!Executable
  <2>3. P(l, w, mt)!Config = 0..3  BY DEF P!Config
  <2>4. k \in Nat  OBVIOUS
  <2> HIDE DEF w
  <2> QED  BY <2>1, <2>2, <2>3, <2>4 DEF Written
<1> QED  BY <1>1 DEF MarkedFor

\* A path that can be executed with this length and mode
Runs(q, l, mt) ==
  IF l <= 1 THEN q = NoPath ELSE q \in Chains(MarkedFor(l, mt), l)

\* It can be written and read.
LEMMA RunsIs ==
  ASSUME NEW l \in Nat, NEW mt, NEW q, Runs(q, l, mt)
  PROVE  /\ PathString(q) \in Seq(PathToken)
         /\ l > 1 => /\ IsPath(q, l) /\ PathString(q) # NoString
                     /\ ParsePathStr(PathString(q), l) = q /\ q # Malformed
<1>1. CASE l <= 1
  <2>1. q = NoPath  BY <1>1 DEF Runs
  <2> QED  BY <1>1, <2>1, NothingIsRead
<1>2. CASE ~(l <= 1)
  <2>1. q \in Chains(MarkedFor(l, mt), l)  BY <1>2 DEF Runs
  <2>2. IsPath(q, l) /\ (l # 0 => q # <<>>)
    BY <2>1, MarkedAreWritten, ChainsArePaths
  <2>3. q \in Seq(Written)  BY <2>2 DEF IsPath
  <2>4. q # Malformed  BY <2>3, NotMalformed
  <2>5. ParsePathStr(PathString(q), l) = q  BY <2>2, RoundTrip
  <2>6. PathString(q) \in Seq(PathToken) /\ PathString(q) # NoString
    BY <1>2, <2>2, PathStringIs DEF NoString
  <2> QED  BY <2>2, <2>4, <2>5, <2>6
<1> QED  BY <1>1, <1>2

\* setPath gives an object the path that was written.
LEMMA SetPathReads ==
  ASSUME NEW o, NEW l \in Nat, NEW real, NEW mt, Is(o, l, real, mt),
         l <= 1 => o.path = NoPath, NEW q, Runs(q, l, mt)
  PROVE  SetPath1D(o, PathString(q)) = [o EXCEPT !.path = q]
<1>0. o.log2len = l  BY DEF Is
<1>1. CASE l <= 1
  <2>1. q = NoPath /\ o.path = NoPath  BY <1>1 DEF Runs
  <2>2. o = [o EXCEPT !.path = q]  BY <2>1 DEF Is, Fields
  <2>3. ParsePathStr(PathString(q), l) \in {q, Malformed}
    BY <2>1, NothingIsRead
  <2> QED  BY <1>0, <2>2, <2>3 DEF SetPath1D
<1>2. CASE ~(l <= 1)  BY <1>0, <1>2, RunsIs DEF SetPath1D
<1> QED  BY <1>1, <1>2

\* There is a table for each pass.
Tables(o) ==
  \A k \in 1..Len(o.path) : o.perm[o.path[k].level] = o.path[k].N

\* generatePerm makes them.
LEMMA PermutedTables ==
  ASSUME NEW o, NEW l \in Nat, NEW real, NEW mt, Is(o, l, real, mt),
         Runs(o.path, l, mt)
  PROVE  Tables(Permuted(o))
<1> DEFINE q == o.path
           At1(k) == {i \in 1..Len(q) : q[i].level = k}
<1>0. o.log2len = l /\ Permuted(o).path = q  BY PermutedIs DEF Is
<1>1. CASE l <= 1
  <2>1. Len(q) = 0  BY <1>1 DEF Runs, NoPath
  <2> QED  BY <1>0, <2>1 DEF Tables
<1>2. CASE ~(l <= 1)
  <2>1. IsPath(q, l)  BY <1>2, RunsIs
  <2>2. q \in Seq(Written) /\ Len(q) \in Nat
    BY <2>1, LenProperties DEF IsPath
  <2>3. ASSUME NEW k \in 1..Len(q)
        PROVE  Permuted(o).perm[q[k].level] = q[k].N
    <3>1. q[k].level \in 1..l
      <4>1. q[k] \in Written  BY <2>2, ElementOfSeq
      <4>2. q[k].level \in Nat /\ q[k].N \in Nat /\ q[k].N >= 1
            /\ q[k].N <= q[k].level
        BY <4>1, WidthIs DEF Written
      <4>3. k - 1 \in 0..Len(q) /\ k - 1 # Len(q) /\ (k - 1) + 1 = k
        BY <2>2
      <4>4. q[k].level = Left(q, k - 1)  BY <4>3 DEF Left
      <4>5. Left(q, k - 1) \in 0..l  BY <2>1, <4>3, LevelsFall
      <4>6. q[k].level <= l  BY <4>4, <4>5
      <4> QED  BY <4>2, <4>6
    <3>2. At1(q[k].level) = {k}
      <4>1. ASSUME NEW i \in 1..Len(q), q[i].level = q[k].level
            PROVE  i = k
        <5>1. ~(i < k) /\ ~(k < i)  BY <2>1, <4>1, LevelsDiffer
        <5> QED  BY <2>2, <5>1
      <4> QED  BY <4>1
    <3> DEFINE Chosen == CHOOSE i \in At1(q[k].level) : TRUE
    <3>3. Chosen = k  BY <3>2
    <3>4. Permuted(o).perm =
            [m \in 1..l |-> IF At1(m) = {} THEN o.perm[m]
                            ELSE q[CHOOSE i \in At1(m) : TRUE].N]
      <4>1. o = [f \in Fields |-> o[f]]  BY DEF Is
      <4> QED  BY <1>0, <4>1 DEF Permuted, Fields
    <3>5. Permuted(o).perm[q[k].level] = q[Chosen].N
      <4> HIDE DEF q
      <4> QED  BY <3>1, <3>2, <3>4
    <3> QED  BY <3>3, <3>5
  <2> QED  BY <1>0, <2>3 DEF Tables
<1> QED  BY <1>1, <1>2

-----------------------------------------------------------------------------
(* The invariant about paths *)

\* The application sets only paths of the plan itself, and no two of the plans
\* it makes have keys that collide where the code cannot cope.  Complex 1D
\* plans without threads are among them, which share the keys of directions,
\* and 2D plans with columns of length 1, unless something is stored for both.
OwnPaths == ForeignPaths = FALSE /\ KeysApart

Ready(o) == Runs(o.path, o.log2len, o.mt) /\ Tables(o)

AllReady == \A id \in DOMAIN obj : Ready(obj[id])

\* The role that comes second in the string of a 2D plan
Second(r) == IF r.log2hlen = r.log2vlen THEN "H" ELSE "V"

\* What plans of one and of two dimensions store
Stores1D(key, s) ==
  \E r \in Requests1D :
    /\ r.log2len > 1 /\ r.measure /\ key = Key1D(r)
    /\ \E q : Runs(q, r.log2len, r.mt) /\ s = PathString(q)

RunAll(q, r) == \A role \in Roles(r) : Runs(q[role], Length(r, role), FALSE)

Text2D(q, r, mt) ==
  Path2DString(mt, PathString(q["H"]), PathString(q[Second(r)]))

Stores2D(key, s) ==
  \E r \in Requests2D :
    /\ r.measure /\ key = Key2D(r)
    /\ \E q : \E mt \in BOOLEAN : RunAll(q, r) /\ s = Text2D(q, r, mt)

Kept ==
  \A key \in DOMAIN store :
    Stores1D(key, store[key]) \/ Stores2D(key, store[key])

\* The roles of a 2D plan
LEMMA RolesAre ==
  ASSUME NEW r \in Requests2D
  PROVE  /\ "H" \in Roles(r) /\ Second(r) \in Roles(r)
         /\ Length(r, "H") = r.log2hlen /\ Length(r, Second(r)) = r.log2vlen
         /\ \A role \in Roles(r) : Length(r, role) \in Nat
         /\ ("V" \in Roles(r)) = (r.log2hlen # r.log2vlen)
<1>1. r.log2hlen \in Nat /\ r.log2vlen \in Nat  BY Requests
<1> QED  BY <1>1 DEF Roles, Length, Second

\* What a 2D plan writes can be read.
LEMMA Text2DIs ==
  ASSUME NEW r \in Requests2D, NEW q, RunAll(q, r), NEW mt \in BOOLEAN
  PROVE  LET s == Text2D(q, r, mt) IN
         /\ HasNumber(s) /\ PlanMT(s) = mt /\ HasPaths(s) /\ s # NoString
         /\ PathH(s) = PathString(q["H"]) /\ PathV(s) = PathString(q[Second(r)])
<1>1. ASSUME NEW role \in Roles(r)
      PROVE  PathString(q[role]) \in Seq(PathToken)
  <2>1. Runs(q[role], Length(r, role), FALSE)  BY DEF RunAll
  <2>2. Length(r, role) \in Nat  BY RolesAre
  <2> QED  BY <2>1, <2>2, RunsIs
<1> DEFINE x == PathString(q["H"])
           y == PathString(q[Second(r)])
<1>2. x \in Seq(PathToken) /\ y \in Seq(PathToken)  BY <1>1, RolesAre
<1>3. Text2D(q, r, mt) = Path2DString(mt, x, y)  BY DEF Text2D
<1> HIDE DEF x, y
<1> DEFINE s == Path2DString(mt, x, y)
<1>4. /\ HasNumber(s) /\ PlanMT(s) = mt /\ HasPaths(s)
      /\ PathH(s) = x /\ PathV(s) = y /\ s # <<>>
  BY <1>2, RoundTrip2D
<1> HIDE DEF s
<1>5. Text2D(q, r, mt) = s  BY <1>3 DEF s
<1> QED  BY <1>4, <1>5, Zenon DEF NoString, x, y

\* Keys of the same kind tell lengths and threads.
LEMMA KeysTell ==
  /\ \A r, c \in Requests1D : Key1D(r) = Key1D(c) =>
       r.log2len = c.log2len /\ r.mt = c.mt
  /\ \A r, c \in Requests2D : Key2D(r) = Key2D(c) =>
       r.log2hlen = c.log2hlen /\ r.log2vlen = c.log2vlen
  /\ \A l : \A c \in Requests1D : Key1D(Direction(l)) = Key1D(c) =>
       l = c.log2len /\ c.mt = FALSE
<1> USE DEF Key1D, Key2D, Direction
<1>1. \A r, c \in Requests1D : Key1D(r) = Key1D(c) =>
        r.log2len = c.log2len /\ r.mt = c.mt
  OBVIOUS
<1>2. \A r, c \in Requests2D : Key2D(r) = Key2D(c) =>
        r.log2hlen = c.log2hlen /\ r.log2vlen = c.log2vlen
  OBVIOUS
<1>3. \A l : \A c \in Requests1D : Key1D(Direction(l)) = Key1D(c) =>
        l = c.log2len /\ c.mt = FALSE
  OBVIOUS
<1> QED  BY <1>1, <1>2, <1>3

\* The objects of a 2D plan look up the keys of directions.
LEMMA DirectionKeysAre ==
  ASSUME NEW r, NEW role \in Roles(r), Length(r, role) > 1
  PROVE  Key1D(Direction(Length(r, role))) \in DirectionKeys(r)
BY DEF DirectionKeys

\* No string that is stored is empty.
LEMMA StoredIsSome ==
  ASSUME Kept, NEW key \in DOMAIN store
  PROVE  store[key] # NoString /\ Stored(key) = store[key]
<1>1. CASE Stores1D(key, store[key])
  <2>1. PICK r \in Requests1D :
          r.log2len > 1 /\ \E q : /\ Runs(q, r.log2len, r.mt)
                                  /\ store[key] = PathString(q)
    BY <1>1 DEF Stores1D
  <2>2. r.log2len \in Nat  BY Requests
  <2> QED  BY <2>1, <2>2, RunsIs DEF Stored
<1>2. CASE Stores2D(key, store[key])
  <2>1. PICK r \in Requests2D :
          \E q : \E mt \in BOOLEAN :
            RunAll(q, r) /\ store[key] = Text2D(q, r, mt)
    BY <1>2 DEF Stores2D
  <2> QED  BY <2>1, Text2DIs DEF Stored
<1> QED  BY <1>1, <1>2 DEF Kept

\* A string with the key of a 1D plan is that of a 1D plan.
LEMMA StoredFor1D ==
  ASSUME OwnPaths, Kept, NEW r \in Requests1D, Key1D(r) \in DOMAIN store
  PROVE  /\ r.log2len > 1
         /\ \E q : Runs(q, r.log2len, r.mt) /\ store[Key1D(r)] = PathString(q)
<1> DEFINE key == Key1D(r)
<1>1. Stores1D(key, store[key])
  <2>1. ~Stores2D(key, store[key])  BY DEF Stores2D, OwnPaths, KeysApart
  <2> QED  BY <2>1 DEF Kept
<1>2. PICK c \in Requests1D :
        /\ c.log2len > 1 /\ key = Key1D(c)
        /\ \E q : Runs(q, c.log2len, c.mt) /\ store[key] = PathString(q)
  BY <1>1 DEF Stores1D
<1>3. r.log2len = c.log2len /\ r.mt = c.mt  BY <1>2, KeysTell
<1> QED  BY <1>2, <1>3

\* A string with the key of a 2D plan is that of a 2D plan.
LEMMA StoredFor2D ==
  ASSUME OwnPaths, Kept, NEW r \in Requests2D, Key2D(r) \in DOMAIN store
  PROVE  \E q : \E mt \in BOOLEAN :
           RunAll(q, r) /\ store[Key2D(r)] = Text2D(q, r, mt)
<1> DEFINE key == Key2D(r)
<1>1. Stores2D(key, store[key])
  <2>1. ~Stores1D(key, store[key])  BY DEF Stores1D, OwnPaths, KeysApart
  <2> QED  BY <2>1 DEF Kept
<1>2. PICK c \in Requests2D :
        /\ key = Key2D(c)
        /\ \E q : \E mt \in BOOLEAN :
             RunAll(q, c) /\ store[key] = Text2D(q, c, mt)
  BY <1>1 DEF Stores2D
<1>3. r.log2hlen = c.log2hlen /\ r.log2vlen = c.log2vlen
  BY <1>2, KeysTell
<1>4. /\ Roles(r) = Roles(c) /\ Second(r) = Second(c)
      /\ \A role : Length(r, role) = Length(c, role)
  BY <1>3 DEF Roles, Second, Length
<1>5. \A q : RunAll(q, c) => RunAll(q, r)  BY <1>4 DEF RunAll
<1>6. \A q, mt : Text2D(q, r, mt) = Text2D(q, c, mt)  BY <1>4 DEF Text2D
<1> QED  BY <1>2, <1>5, <1>6

\* A string with the key of a direction is that of a complex 1D plan without
\* threads, of the same length; directions of measured plans have none.
LEMMA StoredForDirection ==
  ASSUME OwnPaths, Kept, NEW r \in Requests2D, NEW role \in Roles(r),
         NEW l, l = Length(r, role), l > 1,
         Key1D(Direction(l)) \in DOMAIN store
  PROVE  /\ ~r.measure
         /\ \E q : /\ Runs(q, l, FALSE)
                   /\ store[Key1D(Direction(l))] = PathString(q)
<1> DEFINE key == Key1D(Direction(l))
<1>1. key \in DirectionKeys(r)  BY DirectionKeysAre
<1>2. Stores1D(key, store[key])
  <2>1. ~Stores2D(key, store[key])
    BY <1>1 DEF Stores2D, OwnPaths, KeysApart
  <2> QED  BY <2>1 DEF Kept
<1>3. PICK c \in Requests1D :
        /\ c.log2len > 1 /\ c.measure /\ key = Key1D(c)
        /\ \E q : Runs(q, c.log2len, c.mt) /\ store[key] = PathString(q)
  BY <1>2 DEF Stores1D
<1>4. ~r.measure  BY <1>1, <1>3 DEF OwnPaths, KeysApart
<1>5. l = c.log2len /\ c.mt = FALSE  BY <1>3, KeysTell
<1> QED  BY <1>3, <1>4, <1>5

-----------------------------------------------------------------------------
(* The constructors make plans that can be executed. *)

\* What is stored for a 1D plan, if anything, is a path it can run.
Loads(r) ==
  Stored(Key1D(r)) # NoString =>
    \E q : Runs(q, r.log2len, r.mt) /\ Stored(Key1D(r)) = PathString(q)

\* A plan loads the path that is stored, or finds one: it can run either.
LEMMA ConstructedReady ==
  ASSUME NEW r, r.log2len \in Nat, r.log2len > 1 => Loads(r),
         NEW o \in Constructed(r)
  PROVE  /\ Is(o, r.log2len, r.real, r.mt) /\ Ready(o)
         /\ r.log2len > 1 /\ Stored(Key1D(r)) # NoString =>
              PathString(o.path) = Stored(Key1D(r))
         /\ r.log2len > 1 /\ Stored(Key1D(r)) = NoString => o.marked = TRUE
<1> DEFINE f == Fresh(r)
           l == r.log2len
<1>1. /\ Is(f, l, r.real, r.mt) /\ f.path = NoPath
      /\ Is(o, l, r.real, r.mt) /\ o.log2len = l /\ o.mt = r.mt
  BY FreshIs, ConstructedIs DEF Is
<1> HIDE DEF f
<1>2. CASE l <= 1
  <2>1. o = f  BY <1>2 DEF Constructed, f
  <2>2. o.path = NoPath /\ Len(o.path) = 0  BY <1>1, <2>1 DEF NoPath
  <2>3. Ready(o)  BY <1>1, <1>2, <2>2 DEF Ready, Runs, Tables
  <2> QED  BY <1>1, <1>2, <2>3
<1>3. CASE l > 1 /\ Stored(Key1D(r)) # NoString
  <2>1. PICK q : Runs(q, l, r.mt) /\ Stored(Key1D(r)) = PathString(q)
    BY <1>3 DEF Loads
  <2> DEFINE p == [f EXCEPT !.path = q]
  <2>2. o = Permuted(p)
    <3>1. o = Permuted(SetPath1D(f, PathString(q)))
      BY <1>3, <2>1 DEF Constructed, f
    <3>2. SetPath1D(f, PathString(q)) = p
      BY <1>1, <2>1, SetPathReads
    <3> QED  BY <3>1, <3>2
  <2>3. Is(p, l, r.real, r.mt) /\ p.path = q
    <3>1. Is(f, l, r.real, r.mt)  BY <1>1
    <3>2. ASSUME NEW real, NEW mt, NEW n, Is(f, n, real, mt)
          PROVE  Is([f EXCEPT !.path = q], n, real, mt)
      BY <3>2, IsStill
    <3>3. [f EXCEPT !.path = q].path = q  BY <3>1, IsStill
    <3> QED  BY <3>1, <3>2, <3>3
  <2> HIDE DEF p
  <2>4. o.path = q  BY <2>2, <2>3, PermutedIs
  <2>5. Tables(o)  BY <2>1, <2>2, <2>3, PermutedTables
  <2> QED  BY <1>1, <1>3, <2>1, <2>4, <2>5 DEF Ready
<1>4. CASE l > 1 /\ Stored(Key1D(r)) = NoString
  <2>1. PICK m \in Measured(f) : o = Permuted(m)
    BY <1>4 DEF Constructed, f
  <2>2. /\ Is(m, l, r.real, r.mt) /\ m.marked = TRUE
        /\ m.path \in Chains(Marked(f), l)
    BY <1>4, MeasuredIs DEF f
  <2>3. Runs(m.path, l, r.mt)
    <3>1. Marked(f) = MarkedFor(l, r.mt)  BY <1>1, MarkedIs
    <3> QED  BY <1>4, <2>2, <3>1 DEF Runs
  <2>4. o.path = m.path /\ o.marked = TRUE  BY <2>1, <2>2, PermutedIs
  <2>5. Tables(o)  BY <2>1, <2>2, <2>3, PermutedTables
  <2> QED  BY <1>1, <1>4, <2>3, <2>4, <2>5 DEF Ready
<1>5. l <= 1 \/ l > 1  OBVIOUS
<1> QED  BY <1>2, <1>3, <1>4, <1>5, Zenon

\* 1D plans, whether their path is loaded or found
LEMMA Loads1D ==
  ASSUME OwnPaths, Kept, NEW r \in Requests1D
  PROVE  Loads(r)
<1>1. Stored(Key1D(r)) # NoString => Key1D(r) \in DOMAIN store  BY DEF Stored
<1> QED  BY <1>1, StoredIsSome, StoredFor1D DEF Loads

\* The directions of a 2D plan load or find their paths; if it is measured they
\* find them, and keep the marks.
LEMMA DirectionReady ==
  ASSUME OwnPaths, Kept, NEW r \in Requests2D, NEW role \in Roles(r),
         NEW l \in Nat, l = Length(r, role),
         NEW o \in Constructed(Direction(l))
  PROVE  /\ Is(o, l, FALSE, FALSE) /\ Ready(o)
         /\ r.measure /\ l > 1 => o.marked = TRUE
<1> DEFINE d == Direction(l)
           key == Key1D(d)
<1>1. d.log2len = l /\ d.real = FALSE /\ d.mt = FALSE  BY DEF Direction
<1>2. ASSUME l > 1, Stored(key) # NoString
      PROVE  /\ ~r.measure
             /\ \E q : Runs(q, l, FALSE) /\ Stored(key) = PathString(q)
  <2>1. key \in DOMAIN store  BY <1>2 DEF Stored
  <2>2. /\ ~r.measure
        /\ \E q : Runs(q, l, FALSE) /\ store[key] = PathString(q)
    BY <1>2, <2>1, StoredForDirection
  <2>3. Stored(key) = store[key]  BY <2>1, StoredIsSome
  <2> QED  BY <2>2, <2>3
<1>3. o \in Constructed(d)  OBVIOUS
<1> HIDE DEF d
<1>4. l > 1 => Loads(d)  BY <1>1, <1>2 DEF Loads
<1> QED  BY <1>1, <1>2, <1>3, <1>4, ConstructedReady

\* A path that is set twice, or is there already
LEMMA SetTwice ==
  ASSUME NEW o, NEW l, NEW real, NEW mt, Is(o, l, real, mt), NEW q
  PROVE  /\ [[o EXCEPT !.path = q] EXCEPT !.path = q] = [o EXCEPT !.path = q]
         /\ q = o.path => [o EXCEPT !.path = q] = o
BY DEF Is, Fields

\* That is so when a square plan sets the second path, too.
LEMMA SetsTwice ==
  ASSUME NEW o, NEW l \in Nat, NEW real, NEW mt, Is(o, l, real, mt),
         l <= 1 => o.path = NoPath, NEW q, Runs(q, l, mt)
  PROVE  /\ SetPath1D(o, PathString(q)) = [o EXCEPT !.path = q]
         /\ SetPath1D([o EXCEPT !.path = q], PathString(q)) =
              [o EXCEPT !.path = q]
<1> DEFINE p == [o EXCEPT !.path = q]
<1>1. SetPath1D(o, PathString(q)) = p  BY SetPathReads
<1>2. Is(p, l, real, mt) /\ p.path = q  BY IsStill
<1>3. [p EXCEPT !.path = q] = p  BY SetTwice
<1> HIDE DEF p
<1>4. l <= 1 => p.path = NoPath  BY <1>2 DEF Runs
<1>5. SetPath1D(p, PathString(q)) = p  BY <1>2, <1>3, <1>4, SetPathReads
<1> QED  BY <1>1, <1>5 DEF p

\* setPath gives the objects of a 2D plan the paths that were written.
LEMMA SetPath2DReads ==
  ASSUME NEW r \in Requests2D, NEW objs, Are(objs, r),
         NEW q, RunAll(q, r), NEW mt \in BOOLEAN,
         \A ro \in Roles(r) : Length(r, ro) <= 1 => objs[ro].path = NoPath,
         NEW role \in Roles(r)
  PROVE  SetPath2D(objs, r, Text2D(q, r, mt))[role] =
           [objs[role] EXCEPT !.path = q[role]]
<1> DEFINE s == Text2D(q, r, mt)
           o == objs[role]
           l == Length(r, role)
           p == [o EXCEPT !.path = q[role]]
           t == PathString(q[role])
<1>1. /\ HasPaths(s) /\ PathH(s) = PathString(q["H"])
      /\ PathV(s) = PathString(q[Second(r)])
  BY Text2DIs
<1>2. /\ Is(o, l, FALSE, FALSE) /\ l \in Nat /\ Runs(q[role], l, FALSE)
      /\ l <= 1 => o.path = NoPath
  BY RolesAre DEF Are, RunAll
<1> HIDE DEF o, l
<1>3. SetPath1D(o, t) = p /\ SetPath1D(p, t) = p
  <2>1. ASSUME NEW real, Is(o, l, real, real), Runs(q[role], l, real)
        PROVE  SetPath1D(o, t) = p /\ SetPath1D(p, t) = p
    BY <1>2, <2>1, SetsTwice
  <2> QED  BY <1>2, <2>1, Zenon
<1>5. SetPath2D(objs, r, s)[role] =
        IF role = "V" THEN SetPath1D(o, PathV(s))
        ELSE LET first == SetPath1D(o, PathH(s)) IN
             IF "V" \in Roles(r) THEN first ELSE SetPath1D(first, PathV(s))
  BY <1>1, Zenon DEF SetPath2D, o
<1> HIDE DEF s, p
<1>6. CASE role = "V"
  <2>1. Second(r) = role  BY <1>6 DEF Roles, Second
  <2> QED  BY <1>1, <1>3, <1>5, <1>6, <2>1, Zenon DEF s, o, p
<1>7. CASE role # "V" /\ "V" \in Roles(r)
  <2>1. role = "H"  BY <1>7 DEF Roles
  <2> QED  BY <1>1, <1>3, <1>5, <1>7, <2>1, Zenon DEF s, o, p
<1>8. CASE role # "V" /\ "V" \notin Roles(r)
  <2>1. role = "H" /\ Second(r) = role  BY <1>8 DEF Roles, Second
  <2>2. PathH(s) = t /\ PathV(s) = t  BY <1>1, <2>1
  <2> QED  BY <1>3, <1>5, <1>8, <2>2, Zenon DEF s, o, p
<1> QED  BY <1>6, <1>7, <1>8

\* The paths of the objects of a 2D plan
PathsOf(objs, r) == [role \in Roles(r) |-> objs[role].path]

\* getPath writes these paths.
LEMMA GetPath2DIs ==
  ASSUME NEW r \in Requests2D, NEW objs, DOMAIN objs = Roles(r), NEW mt
  PROVE  GetPath2D(objs, mt) = Text2D(PathsOf(objs, r), r, mt)
<1>1. "H" \in Roles(r) /\ Second(r) \in Roles(r)  BY RolesAre
<1>2. (IF "V" \in DOMAIN objs THEN "V" ELSE "H") = Second(r)
  BY RolesAre DEF Second
<1>3. /\ PathsOf(objs, r)["H"] = objs["H"].path
      /\ PathsOf(objs, r)[Second(r)] = objs[Second(r)].path
  BY <1>1 DEF PathsOf
<1> QED  BY <1>2, <1>3, Zenon DEF GetPath2D, Text2D

\* The objects of a 2D plan while it is constructed: they have paths, and, if
\* the plan is to be measured, the marks of the passes that were.
MadeFor(made, r) ==
  /\ Are(made, r) /\ RunAll(PathsOf(made, r), r)
  /\ r.measure =>
       \A role \in Roles(r) : Length(r, role) > 1 => made[role].marked = TRUE

\* The search in two dimensions finds paths that the directions can run, and
\* a stored string gives them and planMT back.
LEMMA PlannedReady ==
  ASSUME OwnPaths, Kept, NEW r \in Requests2D, NEW made, MadeFor(made, r),
         NEW plan \in Planned2D(made, r)
  PROVE  /\ RunAll(PathsOf(plan.objs, r), r)
         /\ plan.save => r.measure
         /\ Stored(Key2D(r)) # NoString =>
              /\ plan.save = FALSE
              /\ Text2D(PathsOf(plan.objs, r), r, plan.mt) = Stored(Key2D(r))
<1> DEFINE key == Key2D(r)
           s == Stored(key)
<1>0. ASSUME NEW role \in Roles(r)
      PROVE  /\ Is(made[role], Length(r, role), FALSE, FALSE)
             /\ Runs(made[role].path, Length(r, role), FALSE)
             /\ r.measure /\ Length(r, role) > 1 => made[role].marked = TRUE
             /\ Length(r, role) \in Nat
  BY RolesAre DEF MadeFor, Are, RunAll, PathsOf
<1>1. CASE s # NoString
  <2>1. key \in DOMAIN store  BY <1>1 DEF Stored
  <2>2. PICK q : \E mt \in BOOLEAN :
                   RunAll(q, r) /\ store[key] = Text2D(q, r, mt)
    BY <2>1, StoredFor2D
  <2>3. PICK mt \in BOOLEAN : RunAll(q, r) /\ s = Text2D(q, r, mt)
    BY <2>1, <2>2 DEF Stored
  <2>4. HasNumber(s) /\ PlanMT(s) = mt  BY <2>3, Text2DIs
  <2>5. plan \in Loaded2D(made, r, s)  BY <1>1 DEF Planned2D
  <2>6. /\ plan.objs = SetPath2D(made, r, s) /\ plan.save = FALSE
        /\ plan.mt = mt
    <3> HIDE DEF s
    <3> QED  BY <2>4, <2>5 DEF Loaded2D
  <2>7. ASSUME NEW role \in Roles(r) PROVE plan.objs[role].path = q[role]
    <3>1. Are(made, r)  BY DEF MadeFor
    <3>2. \A ro \in Roles(r) : Length(r, ro) <= 1 => made[ro].path = NoPath
      BY <1>0 DEF Runs
    <3>3. plan.objs[role] = [made[role] EXCEPT !.path = q[role]]
      BY <2>3, <2>6, <3>1, <3>2, SetPath2DReads
    <3> QED  BY <1>0, <3>3, IsStill
  <2>8. RunAll(PathsOf(plan.objs, r), r)  BY <2>3, <2>7 DEF RunAll, PathsOf
  <2>9. Text2D(PathsOf(plan.objs, r), r, mt) = Text2D(q, r, mt)
    <3>1. "H" \in Roles(r) /\ Second(r) \in Roles(r)  BY RolesAre
    <3>2. /\ PathsOf(plan.objs, r)["H"] = q["H"]
          /\ PathsOf(plan.objs, r)[Second(r)] = q[Second(r)]
      BY <2>7, <3>1 DEF PathsOf
    <3> QED  BY <3>2 DEF Text2D
  <2> QED  BY <2>3, <2>6, <2>8, <2>9
<1>2. CASE s = NoString /\ r.measure
  <2>1. plan \in Measured2D(made, r)  BY <1>2 DEF Planned2D
  <2>2. PICK q : /\ \A role \in Roles(r) : q[role] \in FoundFor(made[role])
                 /\ \E mt \in {FALSE, r.mt} :
                      plan = [objs |-> [role \in Roles(r) |->
                                          [made[role] EXCEPT !.path = q[role]]],
                              mt |-> mt, save |-> TRUE]
    BY <2>1 DEF Measured2D, ForEach
  <2>3. ASSUME NEW role \in Roles(r)
        PROVE  /\ plan.objs[role].path = q[role]
               /\ Runs(q[role], Length(r, role), FALSE)
    <3> DEFINE o == made[role]
    <3>1. plan.objs[role] = [o EXCEPT !.path = q[role]]  BY <2>2
    <3>2. Is(o, Length(r, role), FALSE, FALSE)  BY <1>0
    <3>3. q[role] \in FoundFor(o)  BY <2>2
    <3> HIDE DEF o
    <3>4. plan.objs[role].path = q[role]  BY <3>1, <3>2, IsStill
    <3>5. o.log2len = Length(r, role)  BY <3>2 DEF Is
    <3>6. Marked(o) = MarkedFor(Length(r, role), FALSE)  BY <3>2, MarkedIs
    <3>7. Length(r, role) > 1 => o.marked = TRUE  BY <1>0, <1>2 DEF o
    <3>8. Length(r, role) \in Nat  BY <1>0
    <3>9. CASE Length(r, role) <= 1
      BY <3>3, <3>4, <3>5, <3>9 DEF FoundFor, Runs
    <3>10. CASE ~(Length(r, role) <= 1)
      <4>1. o.marked = TRUE  BY <3>7, <3>8, <3>10
      <4> QED  BY <3>3, <3>4, <3>5, <3>6, <3>10, <4>1 DEF FoundFor, Runs
    <3> QED  BY <3>9, <3>10
  <2> QED  BY <1>2, <2>3 DEF RunAll, PathsOf
<1>3. CASE s = NoString /\ ~r.measure
  <2>1. plan \in Estimated2D(made, r)  BY <1>3 DEF Planned2D
  <2>2. plan.objs = made /\ plan.save = FALSE  BY <2>1 DEF Estimated2D
  <2> QED  BY <1>3, <2>2 DEF MadeFor
<1> QED  BY <1>1, <1>2, <1>3

\* The roles of the objects D of a handle
LEMMA RolesOf ==
  ASSUME NEW D, NEW h, NEW R,
         \A id \in D : \E role \in R : id = <<h, role>>,
         \A role \in R : <<h, role>> \in D
  PROVE  {id[2] : id \in D} = R
<1> DEFINE E == {id[2] : id \in D}
<1>1. ASSUME NEW role \in E PROVE role \in R
  <2>1. PICK id \in D : role = id[2]  OBVIOUS
  <2>2. PICK b \in R : id = <<h, b>>  BY <2>1
  <2> QED  BY <2>1, <2>2
<1>2. ASSUME NEW role \in R PROVE role \in E
  <2>1. <<h, role>> \in D /\ <<h, role>>[2] = role  OBVIOUS
  <2> QED  BY <2>1
<1> HIDE DEF E
<1>3. E = R  BY <1>1, <1>2
<1> QED  BY <1>3 DEF E

-----------------------------------------------------------------------------
(* The steps *)

\* A new plan has the path that is stored for it.
UsesStored(h) ==
  KeyOf(h)' \in DOMAIN store' => GetPath(h)' = store'[KeyOf(h)']

\* One string more is stored.
LEMMA KeptWith ==
  ASSUME Kept, NEW key, NEW s, Stores1D(key, s) \/ Stores2D(key, s),
         store' = With(store, key, s)
  PROVE  Kept' /\ key \in DOMAIN store' /\ store'[key] = s
<1>1. /\ DOMAIN store' = DOMAIN store \cup {key} /\ store'[key] = s
      /\ \A k \in DOMAIN store : k # key => store'[k] = store[k]
  BY DEF With
<1>2. ASSUME NEW k \in DOMAIN store'
      PROVE  Stores1D(k, store'[k]) \/ Stores2D(k, store'[k])
  <2>1. CASE k = key  BY <1>1, <2>1
  <2>2. CASE k # key
    <3>1. k \in DOMAIN store /\ store'[k] = store[k]  BY <1>1, <2>2
    <3> QED  BY <3>1 DEF Kept
  <2> QED  BY <2>1, <2>2
<1> QED  BY <1>1, <1>2 DEF Kept

\* A 1D plan is made.
LEMMA Init1DR ==
  ASSUME OwnPaths, Held, AllReady, Kept, NEW h \in Handle,
         NEW r \in Requests1D, Init1D(h, r)
  PROVE  AllReady' /\ Kept' /\ UsesStored(h)
<1> DEFINE key == Key1D(r)
           new == <<h, "1d">>
<1>1. PICK o \in Constructed(r) :
        /\ obj' = With(obj, new, o)
        /\ IF SavesOwn(r) THEN Save(key, PathString(o.path))
                          ELSE UNCHANGED store
  BY DEF Init1D
<1>2. kind[h] = "none" /\ kind' = [kind EXCEPT ![h] = "1d"]  BY DEF Init1D
<1>3. r.log2len \in Nat  BY Requests
<1>4. /\ Is(o, r.log2len, r.real, r.mt) /\ Ready(o)
      /\ r.log2len > 1 /\ Stored(key) # NoString =>
           PathString(o.path) = Stored(key)
  BY <1>3, Loads1D, ConstructedReady
<1>5. /\ DOMAIN obj' = DOMAIN obj \cup {new} /\ obj'[new] = o
      /\ \A id \in DOMAIN obj : id # new => obj'[id] = obj[id]
  BY <1>1 DEF With
<1>6. AllReady'
  <2>1. ASSUME NEW id \in DOMAIN obj' PROVE Ready(obj[id])'
    <3>1. CASE id = new  BY <1>4, <1>5, <3>1
    <3>2. CASE id # new
      <4>1. id \in DOMAIN obj /\ obj'[id] = obj[id]  BY <1>5, <3>2
      <4> QED  BY <4>1 DEF AllReady
    <3> QED  BY <3>1, <3>2
  <2> QED  BY <2>1 DEF AllReady
<1>7. KeyOf(h)' = key /\ GetPath(h)' = PathString(o.path)
  <2>1. kind'[h] = "1d"  BY <1>2 DEF Held
  <2>2. Key1D(o) = key  BY <1>4 DEF Is, Key1D
  <2> QED  BY <1>5, <2>1, <2>2 DEF KeyOf, GetPath
<1> HIDE DEF key
<1>8. CASE SavesOwn(r)
  <2>1. store' = With(store, key, PathString(o.path))
    BY <1>1, <1>8 DEF Save
  <2>2. Stores1D(key, PathString(o.path))
    <3>1. r.log2len > 1 /\ r.measure  BY <1>8 DEF SavesOwn
    <3>2. Runs(o.path, r.log2len, r.mt)  BY <1>4 DEF Ready, Is
    <3> QED  BY <3>1, <3>2 DEF Stores1D, key
  <2>3. Kept' /\ store'[key] = PathString(o.path)  BY <2>1, <2>2, KeptWith
  <2> QED  BY <1>6, <1>7, <2>3 DEF UsesStored
<1>9. CASE ~SavesOwn(r)
  <2>1. store' = store  BY <1>1, <1>9
  <2>2. Kept'  BY <2>1 DEF Kept
  <2>3. ASSUME key \in DOMAIN store PROVE PathString(o.path) = store[key]
    <3>1. r.log2len > 1  BY <2>3, StoredFor1D DEF key
    <3>2. store[key] # NoString /\ Stored(key) = store[key]
      BY <2>3, StoredIsSome
    <3> QED  BY <1>4, <3>1, <3>2
  <2> QED  BY <1>6, <1>7, <2>1, <2>2, <2>3 DEF UsesStored
<1> QED  BY <1>8, <1>9

\* What the constructor of a 2D plan leaves, with the store
Saves2D(r, plan, objs) ==
  IF plan.save THEN Save(Key2D(r), GetPath2D(objs, plan.mt))
               ELSE UNCHANGED store

\* A 2D plan is made.
LEMMA Init2DR ==
  ASSUME OwnPaths, Held, AllReady, Kept, NEW h \in Handle,
         NEW r \in Requests2D, Init2D(h, r)
  PROVE  AllReady' /\ Kept' /\ UsesStored(h)
<1> DEFINE key == Key2D(r)
<1>1. PICK made :
        /\ \A role \in Roles(r) :
             made[role] \in Constructed(Direction(Length(r, role)))
        /\ \E plan \in Planned2D(made, r) :
             LET objs == [role \in Roles(r) |-> Permuted(plan.objs[role])] IN
             Makes2D(h, r, plan, objs) /\ Saves2D(r, plan, objs)
  BY DEF Init2D, ForEach, Makes2D, Saves2D
<1>2. PICK plan \in Planned2D(made, r) :
        LET objs == [role \in Roles(r) |-> Permuted(plan.objs[role])] IN
        Makes2D(h, r, plan, objs) /\ Saves2D(r, plan, objs)
  BY <1>1
<1>3. MadeFor(made, r)
  <2>1. ASSUME NEW role \in Roles(r)
        PROVE  /\ Is(made[role], Length(r, role), FALSE, FALSE)
               /\ Runs(made[role].path, Length(r, role), FALSE)
               /\ r.measure /\ Length(r, role) > 1 => made[role].marked = TRUE
    <3>1. Length(r, role) \in Nat  BY RolesAre
    <3>2. /\ Is(made[role], Length(r, role), FALSE, FALSE) /\ Ready(made[role])
          /\ r.measure /\ Length(r, role) > 1 => made[role].marked = TRUE
      BY <1>1, <3>1, DirectionReady
    <3> QED  BY <3>2 DEF Ready, Is
  <2> QED  BY <2>1 DEF MadeFor, Are, RunAll, PathsOf
<1>4. /\ RunAll(PathsOf(plan.objs, r), r)
      /\ plan.save => r.measure
      /\ Stored(key) # NoString =>
           /\ plan.save = FALSE
           /\ Text2D(PathsOf(plan.objs, r), r, plan.mt) = Stored(key)
  BY <1>3, PlannedReady
<1>5. Are(plan.objs, r) /\ plan.mt \in BOOLEAN
  BY <1>3, PlannedAre DEF MadeFor
<1> DEFINE objs == [role \in Roles(r) |-> Permuted(plan.objs[role])]
<1>6. Makes2D(h, r, plan, objs) /\ Saves2D(r, plan, objs)  BY <1>2
<1>7. ASSUME NEW role \in Roles(r)
      PROVE  /\ Is(objs[role], Length(r, role), FALSE, FALSE)
             /\ Ready(objs[role]) /\ objs[role].path = plan.objs[role].path
  <2> DEFINE o == plan.objs[role]
             l == Length(r, role)
  <2>1. Is(o, l, FALSE, FALSE) /\ Runs(o.path, l, FALSE) /\ l \in Nat
    BY <1>4, <1>5, RolesAre DEF Are, RunAll, PathsOf
  <2>2. objs[role] = Permuted(o)  OBVIOUS
  <2> HIDE DEF objs, o, l
  <2>3. ASSUME NEW real, NEW mt, Is(o, l, real, mt), Runs(o.path, l, mt)
        PROVE  /\ Is(Permuted(o), l, real, mt) /\ Permuted(o).path = o.path
               /\ Ready(Permuted(o))
    <3>1. Is(Permuted(o), l, real, mt) /\ Permuted(o).path = o.path
      BY <2>3, PermutedIs
    <3>2. Tables(Permuted(o))  BY <2>1, <2>3, PermutedTables
    <3>3. Permuted(o).log2len = l /\ Permuted(o).mt = mt  BY <3>1 DEF Is
    <3> QED  BY <2>3, <3>1, <3>2, <3>3 DEF Ready
  <2> QED  BY <2>1, <2>2, <2>3, Zenon DEF o, l
<1>8. DOMAIN objs = Roles(r)  OBVIOUS
<1> HIDE DEF objs
<1>9. /\ kind[h] = "none" /\ kind' = [kind EXCEPT ![h] = "2d"]
      /\ size' = [size EXCEPT ![h] = r]
  BY DEF Init2D
<1>10. \A b : <<h, b>> \notin DOMAIN obj  BY <1>9 DEF Held, Belongs
<1>11. /\ DOMAIN obj' = DOMAIN obj \cup {<<h, role>> : role \in Roles(r)}
       /\ \A id \in DOMAIN obj : obj'[id] = obj[id] /\ id[1] # h
       /\ \A role \in Roles(r) : obj'[<<h, role>>] = objs[role]
  <2>1. \A id \in DOMAIN obj : id[1] # h
    <3>1. ASSUME NEW id \in DOMAIN obj PROVE id[1] # h
      <4>1. PICK g \in Handle : Belongs(id, g)  BY DEF Held
      <4>2. g # h  BY <1>9, <4>1 DEF Belongs
      <4> QED  BY <4>1, <4>2 DEF Belongs
    <3> QED  BY <3>1
  <2> QED  BY <1>6, <1>10, <2>1 DEF Makes2D
<1>12. AllReady'
  <2>1. ASSUME NEW id \in DOMAIN obj' PROVE Ready(obj[id])'
    <3>1. CASE id \in DOMAIN obj  BY <1>11, <3>1 DEF AllReady
    <3>2. CASE \E role \in Roles(r) : id = <<h, role>>
      BY <1>7, <1>11, <3>2
    <3> QED  BY <1>11, <3>1, <3>2
  <2> QED  BY <2>1 DEF AllReady
<1>13. GetPath(h)' = GetPath2D(objs, plan.mt) /\ KeyOf(h)' = key
  <2>1. kind'[h] = "2d" /\ size'[h] = r /\ planMT'[h] = plan.mt
    BY <1>6, <1>9 DEF Held, Makes2D
  <2>2. ObjsOf(h)' = [role \in Roles(r) |-> obj'[<<h, role>>]]
    <3> DEFINE D == {id \in DOMAIN obj' : id[1] = h}
    <3>1. \A id \in D : \E role \in Roles(r) : id = <<h, role>>
      BY <1>11
    <3>2. \A role \in Roles(r) : <<h, role>> \in D  BY <1>11
    <3>3. ObjsOf(h)' = [role \in {id[2] : id \in D} |-> obj'[<<h, role>>]]
      BY DEF ObjsOf, Own
    <3> HIDE DEF D
    <3>4. {id[2] : id \in D} = Roles(r)  BY <3>1, <3>2, RolesOf
    <3> QED  BY <3>3, <3>4
  <2>3. [role \in Roles(r) |-> obj'[<<h, role>>]] = objs
    <3>1. objs = [role \in Roles(r) |-> objs[role]]  BY DEF objs
    <3> QED  BY <1>11, <3>1
  <2>4. GetPath(h)' = GetPath2D(ObjsOf(h)', planMT'[h])
    BY <2>1, Zenon DEF GetPath
  <2> QED  BY <2>1, <2>2, <2>3, <2>4 DEF KeyOf
<1>14. /\ PathsOf(objs, r) = PathsOf(plan.objs, r)
       /\ GetPath2D(objs, plan.mt) = Text2D(PathsOf(plan.objs, r), r, plan.mt)
  <2>1. PathsOf(objs, r) = PathsOf(plan.objs, r)  BY <1>7 DEF PathsOf
  <2> QED  BY <1>8, <2>1, GetPath2DIs
<1> DEFINE s == GetPath2D(objs, plan.mt)
<1>15. CASE plan.save
  <2>1. store' = With(store, key, s)  BY <1>6, <1>15 DEF Saves2D, Save
  <2>2. Stores2D(key, s)
    BY <1>4, <1>5, <1>14, <1>15 DEF Stores2D
  <2> HIDE DEF s, key
  <2>3. Kept' /\ store'[key] = s  BY <2>1, <2>2, KeptWith
  <2> QED  BY <1>12, <1>13, <2>3 DEF UsesStored, s, key
<1>16. CASE ~plan.save
  <2>1. store' = store  BY <1>6, <1>16 DEF Saves2D
  <2>2. Kept'  BY <2>1 DEF Kept
  <2>3. ASSUME key \in DOMAIN store PROVE s = store[key]
    <3>1. store[key] # NoString /\ Stored(key) = store[key]
      BY <2>3, StoredIsSome
    <3> QED  BY <1>4, <1>14, <3>1
  <2> HIDE DEF s, key
  <2> QED  BY <1>12, <1>13, <2>1, <2>2, <2>3 DEF UsesStored, s, key
<1> QED  BY <1>15, <1>16

\* Plan h is given the path it has, and nothing changes.
LEMMA SetPathR ==
  ASSUME Held, AllReady, NEW h \in Handle, kind[h] # "none",
         SetPath(h, GetPath(h))
  PROVE  UNCHANGED <<store, kind, size, obj, wild>>
<1>1. UNCHANGED <<store, kind, size, wild>>  BY DEF SetPath
<1>2. CASE kind[h] = "1d"
  <2> DEFINE id == <<h, "1d">>
             o == obj[id]
  <2>1. id \in DOMAIN obj  BY <1>2 DEF Held, Belongs
  <2>2. PICK r \in Requests1D : Is(o, r.log2len, r.real, r.mt)
    BY <1>2 DEF Held
  <2>3. r.log2len \in Nat  BY Requests
  <2>4. Runs(o.path, r.log2len, r.mt)
    <3>1. Ready(o)  BY <2>1 DEF AllReady
    <3>2. o.log2len = r.log2len /\ o.mt = r.mt  BY <2>2 DEF Is
    <3> QED  BY <3>1, <3>2 DEF Ready
  <2>5. GetPath(h) = PathString(o.path)  BY <1>2 DEF GetPath
  <2>6. obj' = [obj EXCEPT ![id] = SetPath1D(o, GetPath(h))]
    BY <1>2 DEF SetPath
  <2> HIDE DEF o, id
  <2>7. SetPath1D(o, PathString(o.path)) = o
    <3>1. r.log2len <= 1 => o.path = NoPath  BY <2>4 DEF Runs
    <3>2. SetPath1D(o, PathString(o.path)) = [o EXCEPT !.path = o.path]
      BY <2>2, <2>3, <2>4, <3>1, SetPathReads
    <3> QED  BY <2>2, <3>2, SetTwice
  <2>8. obj' = obj
    <3>1. obj = [i \in DOMAIN obj |-> obj[i]]  BY DEF Held
    <3>2. obj' = [obj EXCEPT ![id] = obj[id]]  BY <2>5, <2>6, <2>7 DEF o
    <3> QED  BY <2>1, <3>1, <3>2
  <2> QED  BY <1>1, <2>8
<1>3. CASE kind[h] = "2d"
  <2> DEFINE r == size[h]
             objs == ObjsOf(h)
             q == PathsOf(objs, r)
             s == Text2D(q, r, planMT[h])
  <2>1. r \in Requests2D /\ Are(objs, r) /\ planMT[h] \in BOOLEAN
    BY <1>3, Objects DEF Held
  <2>2. objs = [role \in Roles(r) |-> obj[<<h, role>>]]
    <3>1. \A id \in Own(h) : \E role \in Roles(r) : id = <<h, role>>
      BY <1>3, Objects DEF Belongs
    <3>2. \A role \in Roles(r) : <<h, role>> \in Own(h)
      BY <1>3, Objects DEF Belongs
    <3> HIDE DEF r
    <3>3. {id[2] : id \in Own(h)} = Roles(r)  BY <3>1, <3>2, RolesOf
    <3> QED  BY <3>3 DEF ObjsOf
  <2>3. ASSUME NEW role \in Roles(r)
        PROVE  /\ objs[role] = obj[<<h, role>>] /\ <<h, role>> \in DOMAIN obj
               /\ Is(objs[role], Length(r, role), FALSE, FALSE)
               /\ q[role] = objs[role].path
               /\ Runs(q[role], Length(r, role), FALSE)
    <3>1. objs[role] = obj[<<h, role>>] /\ q[role] = objs[role].path
      BY <2>2 DEF PathsOf
    <3>2. <<h, role>> \in DOMAIN obj  BY <1>3, Objects DEF Belongs
    <3>3. Ready(objs[role])  BY <3>1, <3>2 DEF AllReady
    <3>4. Is(objs[role], Length(r, role), FALSE, FALSE)  BY <2>1 DEF Are
    <3> QED  BY <3>1, <3>2, <3>3, <3>4 DEF Ready, Is
  <2>4. RunAll(q, r)  BY <2>3 DEF RunAll
  <2>5. GetPath(h) = s
    <3>1. GetPath(h) = GetPath2D(objs, planMT[h])
      BY <1>3, Zenon DEF GetPath
    <3>2. DOMAIN objs = Roles(r)  BY <2>2
    <3> HIDE DEF objs, r
    <3> QED  BY <2>1, <3>1, <3>2, GetPath2DIs
  <2>6. HasNumber(s)
    <3> HIDE DEF r, q
    <3> QED  BY <2>1, <2>4, Text2DIs
  <2>7. obj' = [id \in DOMAIN obj |->
                  IF id[1] = h THEN SetPath2D(objs, r, s)[id[2]] ELSE obj[id]]
    <3> HIDE DEF s
    <3> QED  BY <1>3, <2>5, <2>6, Zenon DEF SetPath
  <2>8. ASSUME NEW role \in Roles(r)
        PROVE  SetPath2D(objs, r, s)[role] = objs[role]
    <3>1. \A ro \in Roles(r) : Length(r, ro) <= 1 => objs[ro].path = NoPath
      BY <2>3 DEF Runs
    <3> HIDE DEF r, objs, q
    <3>2. SetPath2D(objs, r, s)[role] = [objs[role] EXCEPT !.path = q[role]]
      BY <2>1, <2>4, <3>1, SetPath2DReads
    <3>3. [objs[role] EXCEPT !.path = q[role]] = objs[role]
      <4>1. ASSUME NEW o, NEW l, NEW real, Is(o, l, real, real), NEW p,
                   p = o.path
            PROVE  [o EXCEPT !.path = p] = o
        BY <4>1, SetTwice
      <4> QED  BY <2>3, <4>1, Zenon
    <3> QED  BY <3>2, <3>3
  <2>9. ASSUME NEW id \in DOMAIN obj, id[1] = h
        PROVE  SetPath2D(objs, r, s)[id[2]] = obj[id]
    <3>1. Belongs(id, h)  BY <2>9, Objects DEF Own
    <3>2. PICK role \in Roles(r) : id = <<h, role>>
      BY <1>3, <3>1 DEF Belongs
    <3>3. id[2] = role  BY <3>2
    <3> HIDE DEF r, objs, s
    <3> QED  BY <2>3, <2>8, <3>2, <3>3
  <2>10. obj' = obj
    <3>1. obj = [i \in DOMAIN obj |-> obj[i]]  BY DEF Held
    <3> HIDE DEF r, objs, s
    <3> QED  BY <2>7, <2>9, <3>1
  <2> QED  BY <1>1, <2>10
<1> QED  BY <1>2, <1>3 DEF Held

\* The invariant
Steady == Held /\ AllReady /\ Kept /\ wild \in BOOLEAN

\* Each step keeps this, and a plan that is made uses what is stored.
LEMMA NextR ==
  ASSUME OwnPaths, Steady, [Next]_vars
  PROVE  /\ AllReady' /\ Kept' /\ wild' \in BOOLEAN
         /\ \A h \in Handle : kind[h] = "none" /\ kind'[h] # "none" =>
              UsesStored(h)
<1> USE DEF Steady
<1>0. \A h \in Handle : \A k : kind' = [kind EXCEPT ![h] = k] =>
        \A g \in Handle : g # h => kind'[g] = kind[g]
  BY DEF Held
<1>1. ASSUME NEW h \in Handle, NEW r \in Requests1D, Init1D(h, r)
      PROVE  /\ AllReady' /\ Kept' /\ wild' \in BOOLEAN
             /\ \A g \in Handle : kind[g] = "none" /\ kind'[g] # "none" =>
                  UsesStored(g)
  <2>1. kind' = [kind EXCEPT ![h] = "1d"]  BY <1>1 DEF Init1D
  <2>2. AllReady' /\ Kept' /\ UsesStored(h)  BY <1>1, Init1DR
  <2>3. \A g \in Handle : g # h => kind'[g] = kind[g]  BY <1>0, <2>1
  <2>4. wild' \in BOOLEAN  BY <1>1 DEF Init1D
  <2> QED  BY <2>2, <2>3, <2>4, Zenon
<1>2. ASSUME NEW h \in Handle, NEW r \in Requests2D, Init2D(h, r)
      PROVE  /\ AllReady' /\ Kept' /\ wild' \in BOOLEAN
             /\ \A g \in Handle : kind[g] = "none" /\ kind'[g] # "none" =>
                  UsesStored(g)
  <2>1. kind' = [kind EXCEPT ![h] = "2d"]  BY <1>2 DEF Init2D
  <2>2. AllReady' /\ Kept' /\ UsesStored(h)  BY <1>2, Init2DR
  <2>3. \A g \in Handle : g # h => kind'[g] = kind[g]  BY <1>0, <2>1
  <2>4. wild' \in BOOLEAN  BY <1>2 DEF Init2D
  <2> QED  BY <2>2, <2>3, <2>4, Zenon
<1>3. ASSUME UNCHANGED <<store, kind, obj, wild>>
      PROVE  /\ AllReady' /\ Kept' /\ wild' \in BOOLEAN
             /\ \A g \in Handle : kind[g] = "none" /\ kind'[g] # "none" =>
                  UsesStored(g)
  BY <1>3 DEF AllReady, Kept
<1>4. ASSUME NEW h \in Handle, NEW g \in Handle, ForeignPaths \/ g = h,
             kind[g] # "none", SetPath(h, GetPath(g))
      PROVE  UNCHANGED <<store, kind, obj, wild>>
  <2>1. g = h  BY <1>4 DEF OwnPaths
  <2> QED  BY <1>4, <2>1, SetPathR
<1>5. ASSUME NEW h \in Handle, Dispose(h)
      PROVE  /\ AllReady' /\ Kept' /\ wild' \in BOOLEAN
             /\ \A g \in Handle : kind[g] = "none" /\ kind'[g] # "none" =>
                  UsesStored(g)
  <2>1. /\ store' = store /\ kind' = [kind EXCEPT ![h] = "none"]
        /\ obj' = [id \in DOMAIN obj \ Own(h) |-> obj[id]]
    BY <1>5 DEF Dispose
  <2>2. AllReady' /\ Kept'  BY <2>1 DEF AllReady, Kept
  <2>3. \A g \in Handle : kind'[g] = kind[g] \/ kind'[g] = "none"
    BY <2>1 DEF Held
  <2>4. wild' \in BOOLEAN  BY <1>5 DEF Dispose
  <2> QED  BY <2>2, <2>3, <2>4, Zenon
<1>6. UNCHANGED vars => UNCHANGED <<store, kind, obj, wild>>  BY DEF vars
<1> QED  BY <1>1, <1>2, <1>3, <1>4, <1>5, <1>6 DEF Next

\* What the invariant says of the plans
LEMMA ReadyPlans ==
  ASSUME Steady, Balanced
  PROVE  PlansRunnable
<1> USE DEF Steady
<1>1. ASSUME NEW id \in DOMAIN obj
      PROVE  /\ \E h \in Handle : Belongs(id, h)
             /\ \E l \in Nat : \E real, mt : Is(obj[id], l, real, mt)
  <2>1. PICK h \in Handle : Belongs(id, h)  BY DEF Held
  <2>2. CASE kind[h] = "1d"
    <3>1. PICK r \in Requests1D : Is(obj[id], r.log2len, r.real, r.mt)
      BY <2>1, <2>2 DEF Held, Belongs
    <3> QED  BY <2>1, <3>1, Requests
  <2>3. CASE kind[h] = "2d"
    <3>1. PICK role \in Roles(size[h]) :
            Is(obj[id], Length(size[h], role), FALSE, FALSE)
      BY <2>1, <2>3 DEF Held, Belongs
    <3>2. Length(size[h], role) \in Nat  BY <2>3, RolesAre DEF Held
    <3> QED  BY <2>1, <3>1, <3>2
  <2> QED  BY <2>1, <2>2, <2>3 DEF Belongs
<1>2. TypeOK
  <2>1. ASSUME NEW id \in DOMAIN obj
        PROVE  /\ id[1] \in Handle /\ id[2] \in {"1d", "H", "V"}
               /\ obj[id].isa \in DOMAIN ISA
    <3>1. PICK h \in Handle : Belongs(id, h)  BY <1>1
    <3>2. id[1] \in Handle /\ id[2] \in {"1d", "H", "V"}
      BY <3>1 DEF Belongs, Roles
    <3>3. PICK l \in Nat : \E real, mt : Is(obj[id], l, real, mt)  BY <1>1
    <3>4. obj[id].isa = IsaOf(l)  BY <3>3 DEF Is
    <3>5. IsaOf(l) \in DOMAIN ISA  BY BestFits, Isas DEF IsaOf
    <3> QED  BY <3>2, <3>4, <3>5
  <2>2. \A key \in DOMAIN store : store[key] # NoString  BY StoredIsSome
  <2> QED  BY <2>1, <2>2 DEF TypeOK, Held, Balanced
<1>3. ASSUME NEW id \in DOMAIN obj, NEW o, o = obj[id]
      PROVE  /\ o.log2len > 1 => o.path \in Chains(Marked(o), o.log2len)
             /\ \A k \in 1..(Len(o.path) - 1) :
                  o.perm[o.path[k].level] = o.path[k].N
             /\ o.buffers
  <2>1. PICK l \in Nat : \E real, mt : Is(o, l, real, mt)  BY <1>1, <1>3
  <2>2. PICK real, mt : Is(o, l, real, mt)  BY <2>1
  <2>3. o.log2len = l /\ o.mt = mt /\ o.buffers = TRUE  BY <2>2 DEF Is
  <2>4. Runs(o.path, l, mt) /\ Tables(o)
    BY <1>3, <2>3 DEF AllReady, Ready
  <2>5. l > 1 => o.path \in Chains(Marked(o), l)
    <3>1. Marked(o) = MarkedFor(l, mt)  BY <2>2, MarkedIs
    <3> QED  BY <2>4, <3>1 DEF Runs
  <2>6. Len(o.path) \in Nat
    <3>1. CASE l <= 1  BY <2>4, <3>1 DEF Runs, NoPath
    <3>2. CASE ~(l <= 1)
      <4>1. IsPath(o.path, l)  BY <2>4, <3>2, RunsIs
      <4> QED  BY <4>1, LenProperties DEF IsPath
    <3> QED  BY <3>1, <3>2
  <2>7. \A k \in 1..(Len(o.path) - 1) : k \in 1..Len(o.path)  BY <2>6
  <2> QED  BY <2>3, <2>4, <2>5, <2>7 DEF Tables
<1>4. PathsRunnable /\ TablesFit /\ NoFallBack
  BY <1>3 DEF PathsRunnable, TablesFit, NoFallBack
<1> QED  BY <1>2, <1>4 DEF PlansRunnable

\* What it says of the strings
LEMMA KeptIsReadable ==
  ASSUME OwnPaths, Kept
  PROVE  StoredReadable
<1> DEFINE Read(l, s) == l > 1 => ParsePathStr(s, l) # Malformed
<1>1. ASSUME NEW r \in Requests1D, Key1D(r) \in DOMAIN store
      PROVE  Read(r.log2len, store[Key1D(r)])
  <2>1. PICK q : Runs(q, r.log2len, r.mt) /\ store[Key1D(r)] = PathString(q)
    BY <1>1, StoredFor1D
  <2> QED  BY <2>1, Requests, RunsIs
<1>2. ASSUME NEW r \in Requests2D, NEW key \in DirectionKeys(r),
             key \in DOMAIN store
      PROVE  Read(key[3], store[key])
  <2>1. PICK role \in Roles(r) :
          /\ Length(r, role) > 1
          /\ key = Key1D(Direction(Length(r, role)))
    BY <1>2 DEF DirectionKeys
  <2>2. PICK q : Runs(q, Length(r, role), FALSE) /\ store[key] = PathString(q)
    BY <1>2, <2>1, StoredForDirection
  <2>3. key[3] = Length(r, role)  BY <2>1 DEF Key1D, Direction
  <2> QED  BY <2>2, <2>3, RolesAre, RunsIs
<1>3. ASSUME NEW r \in Requests2D, NEW key, key = Key2D(r), key \in DOMAIN store
      PROVE  /\ HasNumber(store[key]) /\ HasPaths(store[key])
             /\ Read(r.log2hlen, PathH(store[key]))
             /\ Read(r.log2vlen, PathV(store[key]))
  <2>1. PICK q : \E mt \in BOOLEAN :
          RunAll(q, r) /\ store[key] = Text2D(q, r, mt)
    BY <1>3, StoredFor2D
  <2>2. /\ HasNumber(store[key]) /\ HasPaths(store[key])
        /\ PathH(store[key]) = PathString(q["H"])
        /\ PathV(store[key]) = PathString(q[Second(r)])
    BY <2>1, Text2DIs
  <2>3. ASSUME NEW role \in Roles(r)
        PROVE  Read(Length(r, role), PathString(q[role]))
    <3>1. Runs(q[role], Length(r, role), FALSE)  BY <2>1 DEF RunAll
    <3> QED  BY <3>1, RolesAre, RunsIs
  <2>4. /\ "H" \in Roles(r) /\ Second(r) \in Roles(r)
        /\ Length(r, "H") = r.log2hlen /\ Length(r, Second(r)) = r.log2vlen
    BY RolesAre
  <2> HIDE DEF Read
  <2> QED  BY <2>2, <2>3, <2>4, Zenon
<1> QED  BY <1>1, <1>2, <1>3 DEF StoredReadable

\* What holds of every step holds always.
LEMMA AlwaysSteady ==
  ASSUME OwnPaths
  PROVE  Spec => [](Steady /\ Balanced)
<1>1. Init => Steady /\ Balanced
  BY DEF Init, Steady, Held, Belongs, Balanced, Owned, AllReady, Kept
<1>2. Steady /\ Balanced /\ [Next]_vars => (Steady /\ Balanced)'
  BY NextM, NextR DEF Steady
<1> QED  BY <1>1, <1>2, PTL DEF Spec

\* With own paths and keys that do not collide every plan can be executed,
\* wherever its path came from: it is a chain of passes of the kernels that were
\* generated for its instruction set, each with its table; so the constructor
\* never falls back after it has made a choice.
THEOREM PlansAreRunnable ==
  ASSUME OwnPaths
  PROVE  Spec => []PlansRunnable
<1>1. Steady /\ Balanced => PlansRunnable  BY ReadyPlans
<1> QED  BY <1>1, AlwaysSteady, PTL

\* Under the same condition, what measure() has stored is read completely by 1D
\* plans, 2D plans and their directions that look it up.
THEOREM StoredIsReadable ==
  ASSUME OwnPaths
  PROVE  Spec => []StoredReadable
<1>1. Steady => StoredReadable  BY KeptIsReadable DEF Steady
<1> QED  BY <1>1, AlwaysSteady, PTL

\* Under the same condition, a plan that is constructed has the path that is
\* stored for it.
THEOREM StoredPathIsUsed ==
  ASSUME OwnPaths
  PROVE  Spec => StoredIsUsed
<1> DEFINE A == \A h \in Handle :
                  /\ kind[h] = "none" /\ kind'[h] # "none"
                  /\ KeyOf(h)' \in DOMAIN store'
                  => GetPath(h)' = store'[KeyOf(h)']
<1>1. Steady /\ [Next]_vars => A
  BY NextR DEF UsesStored
<1>2. Steady /\ [Next]_vars => [A]_vars
  <2> HIDE DEF A
  <2> QED  BY <1>1
<1>3. StoredIsUsed <=> [][A]_vars  BY DEF StoredIsUsed
<1> HIDE DEF A
<1> QED  BY <1>2, <1>3, AlwaysSteady, PTL DEF Spec
=============================================================================
