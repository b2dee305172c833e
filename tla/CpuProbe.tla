------------------------------- MODULE CpuProbe -------------------------------
(***************************************************************************)
(* How the library finds out whether the CPU has an extension: install a   *)
(* handler for SIGILL, try, and jump back if the handler is called.  Two   *)
(* parts of the library do so, each with its own mutex, handler and        *)
(* sigjmp: checkISAAvailability when a transform is planned, and           *)
(* Sleef_internal_cpuSupportsExt when a math function is first called,     *)
(* which planning a transform does, too, for its tables of coefficients.   *)
(* What SIGILL does is a property of the process.                          *)
(***************************************************************************)
EXTENDS Integers

CONSTANTS
  Thread, Nobody,
  Ext,        \* instruction set extensions
  Supported,  \* those this CPU has
  Overlap,    \* both probers may be in use at once: plans are constructed
              \* by several threads, or while math functions are first called
  Original,   \* what SIGILL does before the library is called
  MaxCalls    \* bound: probes for transforms; the others end with the cache

Prober == {"isa", "ext"}  \* checkISAAvailability, Sleef_internal_cpuSupportsExt

ASSUME ProbeAssumption ==
  /\ Nobody \notin Thread /\ Supported \subseteq Ext
  /\ Overlap \in BOOLEAN /\ Original \in {"default", "application"}
  /\ MaxCalls \in Nat

VARIABLES
  handler,   \* what SIGILL does: "default", "application" or a prober's own
  sigjmp,    \* sigjmp[p]: the thread whose stack SETJMP has recorded last
  mtx,       \* mtx[p]: the thread that holds the prober's mutex
  cache,     \* cache[x]: -1 until Sleef_internal_cpuSupportsExt knows
  pc, prober, ext, ret,
  org,       \* org[t]: the handler that signal() returned
  fate,      \* "alive", "killed" by SIGILL, or "astray" on another stack
  calls

vars == <<handler, sigjmp, mtx, cache, pc, prober, ext, ret, org, fate, calls>>

Handlers == {"default", "application"} \cup Prober
Goto(t, label) == pc' = [pc EXCEPT ![t] = label]
Has(x) == IF x \in Supported THEN 1 ELSE 0

Init ==
  /\ handler = Original
  /\ sigjmp = [p \in Prober |-> Nobody]
  /\ mtx = [p \in Prober |-> Nobody]
  /\ cache = [x \in Ext |-> -1]
  /\ pc = [t \in Thread |-> "idle"]
  /\ prober \in [Thread -> Prober] /\ ext \in [Thread -> Ext]
  /\ ret = [t \in Thread |-> -1]
  /\ org = [t \in Thread |-> Original]
  /\ fate = "alive" /\ calls = 0

\* Mutant of Ask: the cache is not tested for -1
AskUnchecked(t, p, x) ==
  /\ pc[t] \in {"idle", "done"}
  /\ prober' = [prober EXCEPT ![t] = p] /\ ext' = [ext EXCEPT ![t] = x]
  /\ IF p = "ext"
     THEN Goto(t, "done") /\ ret' = [ret EXCEPT ![t] = cache[x]]
     ELSE Goto(t, "wait") /\ UNCHANGED ret
  /\ UNCHANGED <<handler, sigjmp, mtx, cache, org, fate>>

\* The prober is called; a known extension is answered from the cache.
Ask(t, p, x) ==
  /\ pc[t] \in {"idle", "done"}
  /\ prober' = [prober EXCEPT ![t] = p] /\ ext' = [ext EXCEPT ![t] = x]
  /\ IF p = "ext" /\ cache[x] # -1
     THEN Goto(t, "done") /\ ret' = [ret EXCEPT ![t] = cache[x]]
     ELSE Goto(t, "wait") /\ UNCHANGED ret
  /\ UNCHANGED <<handler, sigjmp, mtx, cache, org, fate>>

\* Mutant of Acquire: there is no mutex
AcquireUnguarded(t) ==
  /\ pc[t] = "wait" /\ Goto(t, "install")
  /\ mtx' = [mtx EXCEPT ![prober[t]] = t]
  /\ UNCHANGED <<handler, sigjmp, cache, prober, ext, ret, org, fate, calls>>

Acquire(t) ==
  /\ pc[t] = "wait" /\ mtx[prober[t]] = Nobody /\ Goto(t, "install")
  /\ mtx' = [mtx EXCEPT ![prober[t]] = t]
  /\ UNCHANGED <<handler, sigjmp, cache, prober, ext, ret, org, fate, calls>>

Install(t) ==
  /\ pc[t] = "install" /\ Goto(t, "setjmp")
  /\ handler' = prober[t] /\ org' = [org EXCEPT ![t] = handler]
  /\ UNCHANGED <<sigjmp, mtx, cache, prober, ext, ret, fate, calls>>

SetJmp(t) ==
  /\ pc[t] = "setjmp" /\ Goto(t, "try")
  /\ sigjmp' = [sigjmp EXCEPT ![prober[t]] = t]
  /\ UNCHANGED <<handler, mtx, cache, prober, ext, ret, org, fate, calls>>

\* The answer, which the math library also keeps
Answer(t, r) ==
  /\ Goto(t, "restore") /\ ret' = [ret EXCEPT ![t] = r]
  /\ cache' = IF prober[t] = "ext" THEN [cache EXCEPT ![ext[t]] = r] ELSE cache
  /\ UNCHANGED <<handler, sigjmp, mtx, prober, ext, org, fate, calls>>

\* The code that was tried returns.
Return(t) == pc[t] = "try" /\ ext[t] \in Supported /\ Answer(t, 1)

\* availability() of the transforms may also find out without a fault.
Deny(t) ==
  pc[t] = "try" /\ ext[t] \notin Supported /\ prober[t] = "isa" /\ Answer(t, 0)

\* SIGILL: the handler jumps to where its own SETJMP was.
Fault(t) ==
  /\ pc[t] = "try" /\ ext[t] \notin Supported
  /\ IF handler = prober[t] /\ sigjmp[handler] = t
     THEN Answer(t, 0)
     ELSE /\ fate' = IF handler \in Prober THEN "astray" ELSE "killed"
          /\ UNCHANGED <<handler, sigjmp, mtx, cache, pc, prober, ext, ret, org,
                         calls>>

\* Mutant of Restored: the math library resets the handler, too
RestoredDefault(t) == "default"

Restored(t) == IF prober[t] = "isa" THEN "default" ELSE org[t]

\* Mutant of Restore: the mutex is not released
RestoreHolding(t) ==
  /\ pc[t] = "restore" /\ Goto(t, "done")
  /\ handler' = Restored(t)
  /\ UNCHANGED <<sigjmp, mtx, cache, prober, ext, ret, org, fate, calls>>

\* Put the handler back, and release the mutex on return.
Restore(t) ==
  /\ pc[t] = "restore" /\ Goto(t, "done")
  /\ handler' = Restored(t)
  /\ mtx' = [mtx EXCEPT ![prober[t]] = Nobody]
  /\ UNCHANGED <<sigjmp, cache, prober, ext, ret, org, fate, calls>>

Step(t) ==
  /\ fate = "alive"
  /\ \/ Acquire(t) \/ Install(t) \/ SetJmp(t)
     \/ Return(t) \/ Deny(t) \/ Fault(t) \/ Restore(t)

Idle(t) == pc[t] \in {"idle", "done"}

\* Unless they may overlap, no prober is called while the other is in use.
Apart(p) == \A t \in Thread : Idle(t) \/ prober[t] = p

Call(t, p, x) ==
  /\ fate = "alive" /\ (Overlap \/ Apart(p))
  /\ Ask(t, p, x)
  /\ IF p = "isa" THEN calls < MaxCalls /\ calls' = calls + 1
                  ELSE UNCHANGED calls

Next ==
  \E t \in Thread : Step(t) \/ \E p \in Prober, x \in Ext : Call(t, p, x)

Spec == Init /\ [][Next]_vars

\* A thread is scheduled while it can run.
FairSpec == Spec /\ \A t \in Thread : WF_vars(Step(t))
-----------------------------------------------------------------------------
TypeOK ==
  /\ handler \in Handlers
  /\ sigjmp \in [Prober -> Thread \cup {Nobody}]
  /\ mtx \in [Prober -> Thread \cup {Nobody}]
  /\ cache \in [Ext -> {-1, 0, 1}]
  /\ pc \in [Thread -> {"idle", "wait", "install", "setjmp", "try", "restore",
                        "done"}]
  /\ prober \in [Thread -> Prober] /\ ext \in [Thread -> Ext]
  /\ ret \in [Thread -> {-1, 0, 1}]
  /\ org \in [Thread -> Handlers]
  /\ fate \in {"alive", "killed", "astray"} /\ calls \in 0..MaxCalls

\* No thread is killed by its own probe, and none returns from the handler
\* into a stack frame of another thread or of a call that has returned.
Survives == fate = "alive"

\* Every thread gets the right answer, from the cache or from a probe.
AnswersRight == \A t \in Thread : pc[t] = "done" => ret[t] = Has(ext[t])

\* What SIGILL does while nobody probes, as long as the probers are kept apart:
\* what it did before, or the default once a transform has been planned
Kept == IF sigjmp["isa"] = Nobody THEN Original ELSE "default"

\* No probe leaves its handler behind; those of the math functions leave the
\* one the application had.
HandlerKept ==
  (\A t \in Thread : Idle(t) \/ pc[t] = "wait") => handler = Kept

\* Whoever calls gets an answer, though the mutex is held across a jump out
\* of a signal handler.
Answered == \A t \in Thread : pc[t] = "wait" ~> pc[t] = "done"
=============================================================================
