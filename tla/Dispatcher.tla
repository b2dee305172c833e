----------------------------- MODULE Dispatcher -----------------------------
(***************************************************************************)
(* Functions of the math library for which there is more than one          *)
(* implementation are called through a pointer.  At first it points to a   *)
(* dispatcher, which asks for the extensions the library has code for, one *)
(* after the other, sets the pointer, without synchronisation, and calls   *)
(* through it.  The extensions are asked for by CpuProbe; the application  *)
(* may also plan transforms, which uses the other prober.                  *)
(***************************************************************************)
EXTENDS CpuProbe, Sequences

CONSTANTS
  Func,      \* the functions of the library that have a dispatcher
  Base,      \* the implementation every CPU can run: vector extension 0
  Substs     \* the extensions SUBST_IF_EXT1, SUBST_IF_EXT2 ask for, in order

ASSUME DispatchAssumption ==
  /\ Base \notin Ext /\ "dispatcher" \notin Ext \cup {Base}
  /\ Substs \in Seq(Ext)

VARIABLES
  pfn,    \* pfn[f]: the pointer
  at,     \* at[t]: where thread t is in its call
  fun,    \* fun[t]: the function it calls
  p,      \* p[t]: the dispatcher's local variable
  next    \* next[t]: which SUBST_IF_EXT comes next

dvars == <<pfn, at, fun, p, next>>

DInit ==
  /\ Init
  /\ pfn = [f \in Func |-> "dispatcher"]
  /\ at = [t \in Thread |-> "outside"]
  /\ fun \in [Thread -> Func]
  /\ p = [t \in Thread |-> Base]
  /\ next = [t \in Thread |-> 1]

\* funcName: jump through the pointer.
Jump(t, f) ==
  /\ at' = [at EXCEPT ![t] = IF pfn[f] = "dispatcher" THEN "subst" ELSE "run"]
  /\ fun' = [fun EXCEPT ![t] = f]
  /\ p' = [p EXCEPT ![t] = IF pfn[f] = "dispatcher" THEN Base ELSE pfn[f]]
  /\ next' = [next EXCEPT ![t] = 1]
  /\ UNCHANGED <<vars, pfn>>

CallFunction(t, f) == at[t] = "outside" /\ Jump(t, f)

\* SUBST_IF_EXT: ask whether the CPU has the extension,
Test(t) ==
  /\ at[t] = "subst" /\ next[t] <= Len(Substs)
  /\ at' = [at EXCEPT ![t] = "ask"]
  /\ Call(t, "ext", Substs[next[t]])
  /\ UNCHANGED <<pfn, fun, p, next>>

\* and if so, take its implementation.
Substitute(t) ==
  /\ at[t] = "ask" /\ pc[t] = "done"
  /\ at' = [at EXCEPT ![t] = "subst"]
  /\ p' = [p EXCEPT ![t] = IF ret[t] = 1 THEN ext[t] ELSE @]
  /\ next' = [next EXCEPT ![t] = @ + 1]
  /\ UNCHANGED <<vars, pfn, fun>>

\* Mutant of Store: the pointer is set as soon as an extension is asked for
StoreEarly(t) ==
  /\ at[t] = "subst" /\ (next[t] > 1 \/ next[t] > Len(Substs))
  /\ pfn' = [pfn EXCEPT ![fun[t]] = p[t]]
  /\ at' = [at EXCEPT ![t] = IF next[t] > Len(Substs) THEN "jump" ELSE "subst"]
  /\ UNCHANGED <<vars, fun, p, next>>

\* Mutant of Store: the pointer is not set
StoreForgotten(t) ==
  /\ at[t] = "subst" /\ next[t] > Len(Substs)
  /\ at' = [at EXCEPT ![t] = "jump"]
  /\ UNCHANGED <<vars, pfn, fun, p, next>>

\* pfn = p, whoever else has set it meanwhile;
Store(t) ==
  /\ at[t] = "subst" /\ next[t] > Len(Substs)
  /\ pfn' = [pfn EXCEPT ![fun[t]] = p[t]]
  /\ at' = [at EXCEPT ![t] = "jump"]
  /\ UNCHANGED <<vars, fun, p, next>>

\* return (*pfn)(...), which reads the pointer again
Again(t) == at[t] = "jump" /\ Jump(t, fun[t])

\* The implementation returns.
Finish(t) ==
  /\ at[t] = "run" /\ at' = [at EXCEPT ![t] = "outside"]
  /\ UNCHANGED <<vars, pfn, fun, p, next>>

\* SleefDFT_init: checkISAAvailability.  It may be called while functions of
\* the math library are, but not (unless Overlap) while the other prober works.
Plan(t, x) ==
  /\ at[t] = "outside" /\ Call(t, "isa", x)
  /\ UNCHANGED dvars

\* What a thread does by itself once it is in the library
Within(t) ==
  /\ fate = "alive"
  /\ \/ Step(t) /\ UNCHANGED dvars
     \/ Test(t) \/ Substitute(t) \/ Store(t) \/ Again(t) \/ Finish(t)

Enter(t) ==
  /\ fate = "alive" /\ Idle(t)
  /\ \/ \E f \in Func : CallFunction(t, f)
     \/ \E x \in Ext : Plan(t, x)

DNext == \E t \in Thread : Enter(t) \/ Within(t)

DSpec == DInit /\ [][DNext]_<<vars, dvars>>

\* A thread that is in the library goes on; those that plan do so only MaxCalls
\* times, so that the probers do not keep each other out for ever.
DFairSpec == DSpec /\ \A t \in Thread : WF_<<vars, dvars>>(Within(t))
-----------------------------------------------------------------------------
DTypeOK ==
  /\ TypeOK
  /\ pfn \in [Func -> Ext \cup {Base, "dispatcher"}]
  /\ at \in [Thread -> {"outside", "subst", "ask", "jump", "run"}]
  /\ fun \in [Thread -> Func]
  /\ p \in [Thread -> Ext \cup {Base}]
  /\ next \in [Thread -> 1..Len(Substs) + 1]

\* The last extension of Substs that the CPU has, or the base
Best ==
  LET Usable == {i \in DOMAIN Substs : Substs[i] \in Supported} IN
  IF Usable = {} THEN Base
  ELSE Substs[CHOOSE i \in Usable : \A j \in Usable : j <= i]

\* However many threads meet in the dispatcher, each runs code the CPU has the
\* instructions for, and all run the same: results do not depend on who was
\* first (docs/additional.xhtml:306).
SameCodeForAll == \A t \in Thread : at[t] = "run" => p[t] = Best

\* A call that has been dispatched has set the pointer for good: nobody who
\* comes later probes again.
DispatchedOnce ==
  [][\A f \in Func : pfn[f] # "dispatcher" => pfn'[f] = pfn[f]]_<<vars, dvars>>

\* Nobody who jumps through the pointer once more gets back into the dispatcher.
NoSecondDispatch == \A t \in Thread : at[t] = "jump" => pfn[fun[t]] = Best

\* Every call of a function gets to its implementation.
Runs == \A t \in Thread : at[t] = "subst" ~> at[t] = "run"

\* Nobody waits for ever in a prober, or above it: whoever asks for an
\* extension gets an answer, and whoever calls a function gets to run it.
Served == Answered /\ Runs
=============================================================================
