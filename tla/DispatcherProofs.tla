-------------------------- MODULE DispatcherProofs --------------------------
(***************************************************************************)
(* While the application keeps the two probers apart, no probe kills the   *)
(* process or jumps into another thread's stack, every answer is right,    *)
(* and no probe leaves its handler behind: for any number of threads and   *)
(* extensions, any order of their steps and any handler the application    *)
(* has installed before.                                                   *)
(*                                                                         *)
(* What threads do that call functions of the math library and plan        *)
(* transforms is, for the probers, a behaviour of CpuProbe; and however    *)
(* many of them meet in the dispatcher of a function, its pointer changes  *)
(* once, to the same implementation for all of them.                       *)
(***************************************************************************)
EXTENDS Dispatcher, TLAPS

(***************************************************************************)
(* The probers                                                             *)
(***************************************************************************)
\* t holds its mutex, or has its handler installed.
Holding(t) == pc[t] \in {"install", "setjmp", "try", "restore"}
Installed(t) == pc[t] \in {"setjmp", "try", "restore"}

\* All calls under way are of one prober.
ApartInv == \A t, u \in Thread : Idle(t) \/ Idle(u) \/ prober[t] = prober[u]

\* A thread past its Acquire, and no other, holds the mutex of its prober; so
\* what signal() and SETJMP recorded is its own.
MutexInv ==
  /\ \A t \in Thread, q \in Prober :
       mtx[q] = t <=> Holding(t) /\ prober[t] = q
  /\ \A t \in Thread : Installed(t) => handler = prober[t]
  /\ \A t \in Thread :
       pc[t] \in {"try", "restore"} => sigjmp[prober[t]] = t

\* Inductive while the probers do not overlap
IInv == TypeOK /\ ApartInv /\ MutexInv /\ Survives

\* Until a thread has installed its handler the one to be kept is there, and
\* the math library's prober remembers it.
HandlerInv ==
  /\ (\A t \in Thread : ~Installed(t)) => handler = Kept
  /\ \A t \in Thread : Installed(t) /\ prober[t] = "ext" => org[t] = Kept

\* What is answered and what is kept in the cache is right.
AnswerInv ==
  /\ \A x \in Ext : cache[x] \in {-1, Has(x)}
  /\ \A t \in Thread : pc[t] \in {"restore", "done"} => ret[t] = Has(ext[t])

\* Nobody has asked yet.
LEMMA InitIInv == ASSUME Init PROVE IInv /\ HandlerInv /\ AnswerInv
<1> USE ProbeAssumption DEF Init, Prober, Handlers
<1>1. TypeOK  BY SMT DEF TypeOK
<1>2. \A t \in Thread : prober[t] \in Prober  BY Zenon
<1>3. ApartInv  BY SMT DEF ApartInv, Idle
<1>4. MutexInv  BY <1>2, SMT DEF MutexInv, Holding, Installed
<1>5. Survives  BY DEF Survives
<1>6. HandlerInv  BY SMT DEF HandlerInv, Installed, Kept
<1>7. AnswerInv  BY SMT DEF AnswerInv
<1> QED  BY <1>1, <1>3, <1>4, <1>5, <1>6, <1>7 DEF IInv

\* The two probers kept apart, no step lets two threads in.
LEMMA NextIInv == ASSUME ~Overlap, IInv, [Next]_vars PROVE IInv'
<1> USE ProbeAssumption DEF IInv, TypeOK, Prober, Handlers
<1> USE DEF ApartInv, MutexInv, Holding, Installed, Idle, Survives
<1>1. CASE UNCHANGED vars  BY <1>1, SMT DEF vars
<1>2. ASSUME NEW t \in Thread, NEW q \in Prober, NEW x \in Ext,
             Call(t, q, x)
      PROVE IInv'
  BY <1>2, SMT DEF Call, Apart, Ask, Goto
<1>3. ASSUME NEW t \in Thread, Step(t) PROVE IInv'
  <2>1. CASE Acquire(t)
    BY <2>1, SMT DEF Acquire, Goto
  <2>2. CASE Install(t)
    <3>1. \A u \in Thread : u # t => ~Holding(u)
      BY <2>2, SMT DEF Install
    <3> QED  BY <2>2, <3>1, SMT DEF Install, Goto
  <2>3. CASE SetJmp(t)
    BY <2>3, SMT DEF SetJmp, Goto
  <2>4. CASE Return(t)
    BY <2>4, SMT DEF Return, Answer, Goto
  <2>5. CASE Deny(t)
    BY <2>5, SMT DEF Deny, Answer, Goto
  <2>6. CASE Fault(t)
    BY <2>6, SMT DEF Fault, Answer, Goto
  <2>7. CASE Restore(t)
    <3>1. \A u \in Thread : u # t => ~Holding(u)
      BY <2>7, SMT DEF Restore
    <3> QED  BY <2>7, <3>1, SMT DEF Restore, Restored, Goto
  <2> QED  BY <1>3, <2>1, <2>2, <2>3, <2>4, <2>5, <2>6, <2>7 DEF Step
<1> QED  BY <1>1, <1>2, <1>3 DEF Next, Call

\* The thread that has installed its handler is the one that restores the other.
LEMMA NextHandler ==
  ASSUME ~Overlap, IInv, HandlerInv, [Next]_vars PROVE HandlerInv'
<1> USE ProbeAssumption DEF IInv, TypeOK, Prober, Handlers
<1> USE DEF HandlerInv, Installed, Kept
<1>1. CASE UNCHANGED vars  BY <1>1, SMT DEF vars
<1>2. ASSUME NEW t \in Thread, NEW q \in Prober, NEW x \in Ext, Ask(t, q, x)
      PROVE HandlerInv'
  BY <1>2, SMT DEF Ask, Goto
<1>3. ASSUME NEW t \in Thread, Step(t) PROVE HandlerInv'
  <2>0. \A u \in Thread \ {t} : Holding(t) => ~Holding(u)
    BY SMT DEF ApartInv, MutexInv, Holding, Idle
  <2>1. CASE Acquire(t)
    BY <2>1, SMT DEF Acquire, Goto
  <2>2. CASE Install(t)
    BY <2>0, <2>2, SMT DEF Install, Goto, Holding
  <2>3. CASE SetJmp(t)
    BY <2>0, <2>3, SMT DEF SetJmp, Goto, Holding
  <2>4. CASE Return(t)
    BY <2>4, SMT DEF Return, Answer, Goto
  <2>5. CASE Deny(t)
    BY <2>5, SMT DEF Deny, Answer, Goto
  <2>6. CASE Fault(t)
    BY <2>6, SMT DEF Fault, Answer, Goto
  <2>7. CASE Restore(t)
    BY <2>0, <2>7, SMT DEF Restore, Restored, Goto, Holding, MutexInv
  <2> QED  BY <1>3, <2>1, <2>2, <2>3, <2>4, <2>5, <2>6, <2>7 DEF Step
<1> QED  BY <1>1, <1>2, <1>3 DEF Next, Call

\* The probers give right answers whether they overlap or not.
LEMMA NextAnswer ==
  ASSUME TypeOK, AnswerInv, [Next]_vars PROVE AnswerInv'
<1> USE ProbeAssumption DEF TypeOK, Prober, AnswerInv, Has
<1>1. CASE UNCHANGED vars  BY <1>1, SMT DEF vars
<1>2. ASSUME NEW t \in Thread, NEW q \in Prober, NEW x \in Ext, Ask(t, q, x)
      PROVE AnswerInv'
  BY <1>2, SMT DEF Ask, Goto
<1>3. ASSUME NEW t \in Thread, Step(t) PROVE AnswerInv'
  <2>1. CASE Acquire(t) \/ Install(t) \/ SetJmp(t) \/ Restore(t)
    BY <2>1, SMT DEF Acquire, Install, SetJmp, Restore, Goto
  <2>2. CASE Return(t)
    BY <2>2, SMT DEF Return, Answer, Goto
  <2>3. CASE Deny(t)
    BY <2>3, SMT DEF Deny, Answer, Goto
  <2>4. CASE Fault(t)
    BY <2>4, SMT DEF Fault, Answer, Goto
  <2> QED  BY <1>3, <2>1, <2>2, <2>3, <2>4 DEF Step
<1> QED  BY <1>1, <1>2, <1>3 DEF Next, Call

(***************************************************************************)
(* However many threads probe at once, while the two probers are kept      *)
(* apart none is killed by its probe or jumps astray.                      *)
(***************************************************************************)
THEOREM ApartSurvives == ASSUME ~Overlap PROVE Spec => []Survives
<1>1. Init => IInv  BY InitIInv
<1>2. IInv /\ [Next]_vars => IInv'  BY NextIInv
<1>3. IInv => Survives  BY DEF IInv
<1> QED  BY <1>1, <1>2, <1>3, PTL DEF Spec

(***************************************************************************)
(* Then SIGILL does what it did before, or the default once a transform    *)
(* has been planned, whenever no probe is under way.                       *)
(***************************************************************************)
THEOREM ApartKeepsHandler == ASSUME ~Overlap PROVE Spec => []HandlerKept
<1>1. Init => IInv /\ HandlerInv  BY InitIInv
<1>2. IInv /\ HandlerInv /\ [Next]_vars => (IInv /\ HandlerInv)'
  BY NextIInv, NextHandler
<1>3. HandlerInv => HandlerKept
  BY SMT DEF HandlerInv, HandlerKept, Installed, Idle
<1> QED  BY <1>1, <1>2, <1>3, PTL DEF Spec

(***************************************************************************)
(* Every thread that gets an answer gets the right one, from the cache or  *)
(* from a probe.                                                           *)
(***************************************************************************)
THEOREM ApartAnswersRight == ASSUME ~Overlap PROVE Spec => []AnswersRight
<1>1. Init => IInv /\ AnswerInv  BY InitIInv
<1>2. IInv /\ AnswerInv /\ [Next]_vars => (IInv /\ AnswerInv)'
  BY NextIInv, NextAnswer DEF IInv
<1>3. AnswerInv => AnswersRight  BY DEF AnswerInv, AnswersRight
<1> QED  BY <1>1, <1>2, <1>3, PTL DEF Spec

(***************************************************************************)
(* The dispatchers                                                         *)
(***************************************************************************)
\* x is what the dispatcher would take after the first n - 1 tests.
Usable(n) == {i \in 1..n - 1 : Substs[i] \in Supported}
Chosen(x, n) ==
  \/ Usable(n) = {} /\ x = Base
  \/ \E i \in Usable(n) : x = Substs[i] /\ \A j \in Usable(n) : j <= i

\* Types, tighter than DTypeOK
DTypes ==
  /\ pfn \in [Func -> Ext \cup {Base, "dispatcher"}]
  /\ at \in [Thread -> {"outside", "subst", "ask", "jump", "run"}]
  /\ fun \in [Thread -> Func]
  /\ p \in [Thread -> Ext \cup {Base}]
  /\ next \in [Thread -> 1..Len(Substs) + 1]

\* The probe under way is the one the dispatcher has asked for.
AskInv == \A t \in Thread : at[t] = "ask" =>
            next[t] <= Len(Substs) /\ ext[t] = Substs[next[t]]

\* What a dispatcher has of its tests so far is right.
ChoiceInv ==
  \A t \in Thread : at[t] \in {"subst", "ask"} => Chosen(p[t], next[t])

\* A pointer is set to the best implementation or not at all.
PointerInv ==
  /\ \A f \in Func : pfn[f] \in {"dispatcher", Best}
  /\ \A t \in Thread : at[t] = "jump" => pfn[fun[t]] = Best
  /\ \A t \in Thread : at[t] = "run" => p[t] = Best

\* After the last test it is the best implementation,
LEMMA BestChosen ==
  ASSUME NEW x, Chosen(x, Len(Substs) + 1) PROVE x = Best
<1> DEFINE U == {i \in DOMAIN Substs : Substs[i] \in Supported}
<1>1. U = Usable(Len(Substs) + 1)
  BY DispatchAssumption, SMT DEF Usable
<1>2. CASE U = {}
  BY <1>1, <1>2 DEF Chosen, Best
<1>3. CASE U # {}
  <2>1. PICK i \in U : x = Substs[i] /\ \A j \in U : j <= i
    BY <1>1, <1>3 DEF Chosen
  <2>2. \A k \in U : (\A j \in U : j <= k) => k = i
    BY <2>1, DispatchAssumption, SMT
  <2>3. i = CHOOSE k \in U : \A j \in U : j <= k
    BY <2>1, <2>2
  <2> QED  BY <1>3, <2>1, <2>3 DEF Best
<1> QED  BY <1>2, <1>3

\* and each test keeps it right.
LEMMA ChosenNext ==
  ASSUME NEW x, NEW n \in 1..Len(Substs), Chosen(x, n)
  PROVE  Chosen(IF Substs[n] \in Supported THEN Substs[n] ELSE x, n + 1)
<1>1. Usable(n + 1) = Usable(n) \cup
                      (IF Substs[n] \in Supported THEN {n} ELSE {})
  BY DispatchAssumption, SMT DEF Usable
<1>2. n \in Nat /\ \A j \in Usable(n) : j <= n
  BY DispatchAssumption, SMT DEF Usable
<1> QED  BY <1>1, <1>2, SMT DEF Chosen

\* No function has been dispatched.
LEMMA DInitInv ==
  ASSUME DInit PROVE DTypes /\ AskInv /\ ChoiceInv /\ PointerInv
<1> USE DispatchAssumption DEF DInit
<1>1. Len(Substs) \in Nat  BY SMT
<1>2. Usable(1) = {}  BY SMT DEF Usable
<1>3. DTypes  BY <1>1, SMT DEF DTypes
<1>4. AskInv /\ ChoiceInv /\ PointerInv
  BY <1>2, SMT DEF AskInv, ChoiceInv, Chosen, PointerInv
<1> QED  BY <1>3, <1>4

\* Every step is one of the probers', or leaves what they share alone.
LEMMA DNextNext == ASSUME DTypes, DNext PROVE [Next]_vars
<1>1. ASSUME NEW t \in Thread, Enter(t) PROVE [Next]_vars
  <2>1. ASSUME NEW f \in Func, CallFunction(t, f) PROVE [Next]_vars
    BY <2>1 DEF CallFunction, Jump
  <2>2. ASSUME NEW x \in Ext, Plan(t, x) PROVE [Next]_vars
    BY <2>2 DEF Plan, Next, Prober
  <2> QED  BY <1>1, <2>1, <2>2 DEF Enter
<1>2. ASSUME NEW t \in Thread, Within(t) PROVE [Next]_vars
  <2>1. CASE Step(t)  BY <2>1 DEF Next
  <2>2. CASE Test(t)
    <3>1. Len(Substs) \in Nat /\ Substs \in [1..Len(Substs) -> Ext]
      BY DispatchAssumption, SMT
    <3>2. PICK x \in Prober, y \in Ext : Call(t, x, y)
      BY <2>2, <3>1, SMT DEF Test, Prober, DTypes
    <3> QED  BY <3>2 DEF Next
  <2>3. CASE Substitute(t) \/ Store(t) \/ Again(t) \/ Finish(t)
    BY <2>3 DEF Substitute, Store, Again, Jump, Finish
  <2> QED  BY <1>2, <2>1, <2>2, <2>3 DEF Within
<1> QED  BY <1>1, <1>2 DEF DNext

\* A step of a prober does not change what is asked for.
LEMMA ExtKept == ASSUME NEW t \in Thread, Step(t) PROVE ext' = ext
BY DEF Step, Acquire, Install, SetJmp, Return, Deny, Fault, Answer, Restore

\* Neither a dispatcher nor a probe of a plan disturbs a choice under way.
LEMMA DNextInv ==
  ASSUME TypeOK, AnswerInv, DTypes, AskInv, ChoiceInv, PointerInv,
         [DNext]_<<vars, dvars>>
  PROVE  DTypes' /\ AskInv' /\ ChoiceInv' /\ PointerInv'
<1>0. Len(Substs) \in Nat /\ Substs \in [1..Len(Substs) -> Ext]
  BY DispatchAssumption, SMT
<1> USE <1>0 DEF DTypes, AskInv, ChoiceInv, PointerInv
<1>1. CASE UNCHANGED <<vars, dvars>>
  BY <1>1 DEF vars, dvars
<1>2. ASSUME NEW t \in Thread, NEW f \in Func, Jump(t, f)
      PROVE DTypes' /\ AskInv' /\ ChoiceInv' /\ PointerInv'
  <2>1. Usable(1) = {}  BY SMT DEF Usable
  <2>2. ext' = ext  BY <1>2 DEF Jump, vars
  <2>3. DTypes'  BY <1>2, SMT DEF Jump
  <2>4. AskInv'  BY <1>2, <2>2, SMT DEF Jump
  <2>5. ChoiceInv'
    <3>1. Chosen(Base, 1)  BY <2>1 DEF Chosen
    <3>2. \A u \in Thread : u # t =>
            at'[u] = at[u] /\ p'[u] = p[u] /\ next'[u] = next[u]
      BY <1>2, SMT DEF Jump
    <3>3. at'[t] # "ask" /\ (at'[t] = "subst" => p'[t] = Base /\ next'[t] = 1)
      BY <1>2, SMT DEF Jump
    <3> QED  BY <3>1, <3>2, <3>3, Zenon
  <2>6. PointerInv'  BY <1>2, SMT DEF Jump
  <2> QED  BY <2>3, <2>4, <2>5, <2>6
<1>3. ASSUME NEW t \in Thread, NEW x \in Ext, Plan(t, x)
      PROVE DTypes' /\ AskInv' /\ ChoiceInv' /\ PointerInv'
  <2>1. \A u \in Thread : u # t => ext'[u] = ext[u]
    BY <1>3, SMT DEF Plan, Call, Ask, TypeOK
  <2> QED  BY <1>3, <2>1 DEF Plan, dvars
<1>4. ASSUME NEW t \in Thread, Within(t)
      PROVE DTypes' /\ AskInv' /\ ChoiceInv' /\ PointerInv'
  <2>1. CASE Step(t) /\ UNCHANGED dvars
    <3>1. ext' = ext  BY <2>1, ExtKept
    <3> QED  BY <2>1, <3>1 DEF dvars
  <2>2. CASE Test(t)
    <3>1. \A u \in Thread : u # t => ext'[u] = ext[u]
      BY <2>2, SMT DEF Test, Call, Ask, TypeOK
    <3>2. ext'[t] = Substs[next[t]] /\ next[t] <= Len(Substs)
      BY <2>2, SMT DEF Test, Call, Ask, TypeOK
    <3>3. DTypes' /\ ChoiceInv' /\ PointerInv'
      BY <2>2, SMT DEF Test
    <3>4. AskInv'
      BY <2>2, <3>1, <3>2, SMT DEF Test
    <3> QED  BY <3>3, <3>4
  <2>3. CASE Substitute(t)
    <3>1. next[t] \in 1..Len(Substs) /\ ext[t] = Substs[next[t]]
      BY <2>3, SMT DEF Substitute
    <3>2. ret[t] = 1 <=> ext[t] \in Supported
      BY <2>3, <3>1, SMT DEF Substitute, AnswerInv, Has
    <3>3. Chosen(p'[t], next'[t])
      <4>1. next'[t] = next[t] + 1  BY <2>3, SMT DEF Substitute
      <4>2. p'[t] = IF Substs[next[t]] \in Supported THEN Substs[next[t]]
                    ELSE p[t]
        BY <2>3, <3>1, <3>2, SMT DEF Substitute
      <4>3. Chosen(p[t], next[t])  BY <2>3 DEF Substitute
      <4> QED  BY <3>1, <4>1, <4>2, <4>3, ChosenNext
    <3>4. \A u \in Thread : u # t => p'[u] = p[u] /\ next'[u] = next[u]
      BY <2>3, SMT DEF Substitute
    <3>5. DTypes' /\ AskInv' /\ PointerInv'
      BY <2>3, <3>1, SMT DEF Substitute, vars
    <3>6. ChoiceInv'
      BY <2>3, <3>3, <3>4, SMT DEF Substitute
    <3> QED  BY <3>5, <3>6
  <2>4. CASE Store(t)
    <3>1. next[t] = Len(Substs) + 1  BY <2>4, SMT DEF Store
    <3>2. p[t] = Best
      <4>1. Chosen(p[t], Len(Substs) + 1)  BY <2>4, <3>1 DEF Store
      <4> QED  BY <4>1, BestChosen
    <3>3. DTypes' /\ AskInv' /\ ChoiceInv'
      BY <2>4, SMT DEF Store, vars
    <3>4. PointerInv'
      BY <2>4, <3>2, SMT DEF Store
    <3> QED  BY <3>3, <3>4
  <2>5. CASE Again(t)
    BY <2>5, <1>2 DEF Again
  <2>6. CASE Finish(t)
    BY <2>6, SMT DEF Finish, vars
  <2> QED  BY <1>4, <2>1, <2>2, <2>3, <2>4, <2>5, <2>6 DEF Within
<1> QED  BY <1>1, <1>2, <1>3, <1>4 DEF DNext, Enter, CallFunction

\* The dispatchers' invariant is inductive together with the probers' typing.
DInv == TypeOK /\ AnswerInv /\ DTypes /\ AskInv /\ ChoiceInv /\ PointerInv

\* TypeOK does not need the probers to be kept apart.
LEMMA NextTypeOK == ASSUME TypeOK, [Next]_vars PROVE TypeOK'
<1> USE ProbeAssumption DEF TypeOK, Prober, Handlers
<1>1. CASE UNCHANGED vars  BY <1>1, SMT DEF vars
<1>2. ASSUME NEW t \in Thread, NEW x \in Prober, NEW y \in Ext, Call(t, x, y)
      PROVE TypeOK'
  BY <1>2, SMT DEF Call, Ask, Goto
<1>3. ASSUME NEW t \in Thread, Step(t) PROVE TypeOK'
  <2>1. CASE Acquire(t) \/ Install(t) \/ SetJmp(t)
    BY <2>1, SMT DEF Acquire, Install, SetJmp, Goto
  <2>2. CASE Return(t) \/ Deny(t)
    BY <2>2, SMT DEF Return, Deny, Answer, Goto
  <2>3. CASE Fault(t)
    BY <2>3, SMT DEF Fault, Answer, Goto
  <2>4. CASE Restore(t)
    BY <2>4, SMT DEF Restore, Restored, Goto
  <2> QED  BY <1>3, <2>1, <2>2, <2>3, <2>4 DEF Step
<1> QED  BY <1>1, <1>2, <1>3 DEF Next

\* Both together
LEMMA DInvariance == DSpec => []DInv
<1>1. DInit => DInv
  BY DInitInv, InitIInv DEF DInit, DInv, IInv
<1>2. DInv /\ [DNext]_<<vars, dvars>> => DInv'
  <2> SUFFICES ASSUME DInv, [DNext]_<<vars, dvars>> PROVE DInv'
    OBVIOUS
  <2>1. [Next]_vars  BY DNextNext DEF DInv
  <2> QED  BY <2>1, NextTypeOK, NextAnswer, DNextInv DEF DInv
<1> QED  BY <1>1, <1>2, PTL DEF DSpec

(***************************************************************************)
(* What the dispatchers do is allowed by CpuProbe, so that its theorems    *)
(* hold of a program that calls math functions and plans transforms.       *)
(***************************************************************************)
THEOREM DispatchersProbe == DSpec => Spec
<1>1. DInit => Init  BY DEF DInit
<1>2. DInv /\ [DNext]_<<vars, dvars>> => [Next]_vars
  BY DNextNext DEF DInv
<1> QED  BY <1>1, <1>2, DInvariance, PTL DEF DSpec, Spec

(***************************************************************************)
(* The pointers, and what each thread has of them, keep their types.       *)
(***************************************************************************)
THEOREM DTypeCorrect == DSpec => []DTypeOK
<1>1. DInv => DTypeOK  BY DEF DInv, DTypes, DTypeOK
<1> QED  BY <1>1, DInvariance, PTL

(***************************************************************************)
(* Hence no probe of a dispatcher kills the process, as long as the        *)
(* probers are kept apart.                                                 *)
(***************************************************************************)
THEOREM DispatchersSurvive == ASSUME ~Overlap PROVE DSpec => []Survives
BY DispatchersProbe, ApartSurvives, PTL

(***************************************************************************)
(* Whatever runs is the last of the implementations that the CPU can run,  *)
(* for every thread: for any number of threads, functions and extensions,  *)
(* and even while the probers overlap.                                     *)
(***************************************************************************)
THEOREM OneCode == DSpec => []SameCodeForAll
<1>1. DInv => SameCodeForAll  BY DEF DInv, PointerInv, SameCodeForAll
<1> QED  BY <1>1, DInvariance, PTL

\* The second jump of a dispatcher does not get back into a dispatcher.
THEOREM SecondJump == DSpec => []NoSecondDispatch
<1>1. DInv => NoSecondDispatch  BY DEF DInv, PointerInv, NoSecondDispatch
<1> QED  BY <1>1, DInvariance, PTL

(***************************************************************************)
(* Once a function's pointer has been set it is not changed any more,      *)
(* though any number of dispatchers may still be about to set it.          *)
(***************************************************************************)
THEOREM PointerSetOnce == DSpec => DispatchedOnce
<1>1. DInv /\ DInv' /\ [DNext]_<<vars, dvars>> =>
        [\A f \in Func :
           pfn[f] # "dispatcher" => pfn'[f] = pfn[f]]_<<vars, dvars>>
  <2> SUFFICES ASSUME DInv, DInv', DNext,
                      NEW f \in Func, pfn[f] # "dispatcher"
               PROVE  pfn'[f] = pfn[f]
    OBVIOUS
  <2>1. pfn[f] = Best  BY DEF DInv, PointerInv
  <2>2. pfn'[f] = pfn[f] \/ \E t \in Thread : Store(t)
    BY DEF DNext, Enter, Within, CallFunction, Jump, Plan, dvars, Test,
           Substitute, Again, Finish
  <2>3. ASSUME NEW t \in Thread, Store(t) PROVE pfn'[f] = Best
    <3>1. pfn'[fun[t]] = Best
      BY <2>3, SMT DEF Store, DInv, DTypes, PointerInv
    <3> QED  BY <2>1, <2>3, <3>1, SMT DEF Store, DInv, DTypes
  <2> QED  BY <2>1, <2>2, <2>3
<1> QED  BY <1>1, DInvariance, PTL DEF DSpec, DispatchedOnce
=============================================================================
