--------------------------- MODULE StartAllThreads ---------------------------
(***************************************************************************)
(* startAllThreads: before a path for several threads is timed, each       *)
(* iteration of a parallel loop raises a flag and then spins until all     *)
(* flags are up, so that every thread of the team is awake.  Which thread  *)
(* runs which iterations is up to OpenMP.                                  *)
(***************************************************************************)
EXTENDS Integers

CONSTANTS
  Member,  \* threads of the OpenMP team
  Nth      \* nThread: what omp_thread_count() answered at construction

ASSUME NthAssumption == Nth \in Nat

Iteration == 0..(Nth-1)

VARIABLES
  owner,   \* owner[th]: the thread that OpenMP has iteration th run by
  state,   \* the flags
  th, i,   \* th[w], i[w]: the iteration w is at, the flag it looks at next
  place,   \* "fork", "raise", "spin" or "join"
  freed    \* the flags have been freed: startAllThreads has returned

teamvars == <<owner, state, th, i, place, freed>>

\* The iterations of w that follow iteration k
Later(w, k) == {x \in Iteration : x > k /\ owner[x] = w}

\* w goes to its first iteration after k, or to the end of the loop.
Proceed(w, k) ==
  IF Later(w, k) = {}
  THEN place' = [place EXCEPT ![w] = "join"] /\ UNCHANGED th
  ELSE /\ place' = [place EXCEPT ![w] = "raise"]
       /\ \E x \in Later(w, k) : /\ \A y \in Later(w, k) : x <= y
                                 /\ th' = [th EXCEPT ![w] = x]

TeamInit ==
  /\ owner \in [Iteration -> Member]
  /\ state = [x \in Iteration |-> 0]
  /\ th = [w \in Member |-> 0] /\ i = [w \in Member |-> 0]
  /\ place = [w \in Member |-> "fork"] /\ freed = FALSE

Fork(w) ==
  /\ place[w] = "fork" /\ Proceed(w, -1)
  /\ UNCHANGED <<owner, state, i, freed>>

\* Mutant of Raise: the flag of the first iteration is raised every time
RaiseFirst(w) ==
  /\ place[w] = "raise" /\ place' = [place EXCEPT ![w] = "spin"]
  /\ state' = [state EXCEPT ![0] = 1] /\ i' = [i EXCEPT ![w] = 0]
  /\ UNCHANGED <<owner, th, freed>>

Raise(w) ==
  /\ place[w] = "raise" /\ place' = [place EXCEPT ![w] = "spin"]
  /\ state' = [state EXCEPT ![th[w]] = 1] /\ i' = [i EXCEPT ![w] = 0]
  /\ UNCHANGED <<owner, th, freed>>

\* Mutant of Look: a flag that is down is passed over
LookOn(w) ==
  /\ place[w] = "spin" /\ i[w] < Nth
  /\ i' = [i EXCEPT ![w] = @ + 1]
  /\ UNCHANGED <<owner, state, th, place, freed>>

\* One turn of the inner loop; it starts again at a flag that is down.
Look(w) ==
  /\ place[w] = "spin" /\ i[w] < Nth
  /\ i' = [i EXCEPT ![w] = IF state[i[w]] = 0 THEN 0 ELSE @ + 1]
  /\ UNCHANGED <<owner, state, th, place, freed>>

\* All flags were up.
Leave(w) ==
  /\ place[w] = "spin" /\ i[w] = Nth /\ Proceed(w, th[w])
  /\ UNCHANGED <<owner, state, i, freed>>

\* The loop ends when all threads have joined; then the flags are freed.
Free ==
  /\ ~freed /\ \A w \in Member : place[w] = "join"
  /\ freed' = TRUE /\ UNCHANGED <<owner, state, th, i, place>>

Step(w) == Fork(w) \/ Raise(w) \/ Look(w) \/ Leave(w)

TeamNext == Free \/ \E w \in Member : Step(w)

TeamSpec == TeamInit /\ [][TeamNext]_teamvars

\* The threads of a team are scheduled by the operating system.
TeamFairSpec ==
  TeamSpec /\ WF_teamvars(Free) /\ \A w \in Member : WF_teamvars(Step(w))
-----------------------------------------------------------------------------
TeamTypeOK ==
  /\ owner \in [Iteration -> Member] /\ state \in [Iteration -> {0, 1}]
  /\ th \in [Member -> Nat] /\ i \in [Member -> 0..Nth]
  /\ \A w \in Member : place[w] \in {"raise", "spin"} =>
       th[w] \in Iteration /\ owner[th[w]] = w
  /\ place \in [Member -> {"fork", "raise", "spin", "join"}]
  /\ freed \in BOOLEAN

\* w has been through one of its iterations.
Passed(w) ==
  \E x \in Iteration :
    /\ owner[x] = w
    /\ place[w] = "join" \/ (place[w] \in {"raise", "spin"} /\ x < th[w])

\* Nobody gets past the barrier before every iteration has been started.
AllStarted ==
  \A w \in Member : Passed(w) => \A x \in Iteration : state[x] = 1

\* startAllThreads returns only if no thread was given two iterations: it is
\* counted on that the team is as large as it was when nThread was counted.
ReturnNeedsFullTeam ==
  freed => \A x, y \in Iteration : owner[x] = owner[y] => x = y

\* If each iteration has a thread of its own, startAllThreads returns.
Returns == (\A x, y \in Iteration : owner[x] = owner[y] => x = y) ~> freed
=============================================================================
