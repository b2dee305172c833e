------------------------ MODULE StartAllThreadsProofs ------------------------
(***************************************************************************)
(* The barrier of startAllThreads, for any team, any number of iterations  *)
(* and any schedule: nobody passes it early, and if it is passed at all    *)
(* then each iteration had a thread of its own.                            *)
(***************************************************************************)
EXTENDS StartAllThreads, TLAPS

\* A flag is up only if its owner is at that iteration or beyond it.
FlagInv ==
  \A x \in Iteration : state[x] = 1 =>
    \/ place[owner[x]] = "join"
    \/ place[owner[x]] = "spin" /\ x <= th[owner[x]]
    \/ place[owner[x]] = "raise" /\ x < th[owner[x]]

\* The flags a thread has looked at since it started at 0 are up.
SpinInv ==
  \A w \in Member : place[w] = "spin" =>
    \A x \in Iteration : x < i[w] => state[x] = 1

\* A thread that has got past the barrier had one iteration.
OnceInv ==
  \A w \in Member : Passed(w) =>
    \A x, y \in Iteration : owner[x] = w /\ owner[y] = w => x = y

\* The parallel loop is over when all threads of the team have joined.
Joined == freed => \A w \in Member : place[w] = "join"

IInv == /\ TeamTypeOK /\ FlagInv /\ SpinInv /\ OnceInv
        /\ AllStarted /\ Joined

LEMMA InitIInv == ASSUME TeamInit PROVE IInv
<1> USE NthAssumption DEF TeamInit, Iteration
<1>1. TeamTypeOK
  <2>1. 0 \in 0..Nth /\ 0 \in Nat  BY SMT
  <2>2. state \in [Iteration -> {0, 1}] /\ i \in [Member -> 0..Nth]
    BY <2>1, Zenon
  <2>3. /\ th \in [Member -> Nat] /\ freed \in BOOLEAN
        /\ place \in [Member -> {"fork", "raise", "spin", "join"}]
    BY <2>1, Zenon
  <2>4. \A w \in Member : place[w] \notin {"raise", "spin"}  BY Zenon
  <2> QED  BY <2>2, <2>3, <2>4, Zenon DEF TeamTypeOK
<1>2. FlagInv /\ SpinInv /\ OnceInv
  BY SMT DEF FlagInv, SpinInv, OnceInv, Passed
<1>3. AllStarted /\ Joined
  BY SMT DEF AllStarted, Joined, Passed
<1> QED  BY <1>1, <1>2, <1>3 DEF IInv

\* Proceed ends the loop or goes on with the least of the later iterations.
LEMMA ProceedGoesOn ==
  ASSUME NEW w \in Member, NEW k \in Int, TeamTypeOK, Proceed(w, k)
  PROVE  \/ /\ place' = [place EXCEPT ![w] = "join"] /\ th' = th
            /\ \A y \in Iteration : owner[y] = w => y <= k
         \/ \E x \in Iteration :
              /\ place' = [place EXCEPT ![w] = "raise"]
              /\ th' = [th EXCEPT ![w] = x]
              /\ x > k /\ owner[x] = w
              /\ \A y \in Iteration : owner[y] = w /\ y > k => x <= y
<1> USE DEF Later
<1>1. CASE Later(w, k) = {}
  <2>1. \A y \in Iteration : ~(y > k /\ owner[y] = w)  BY <1>1, Zenon
  <2>2. \A y \in Iteration : owner[y] = w => y <= k
    BY <2>1, NthAssumption, SMT DEF Iteration
  <2>3. place' = [place EXCEPT ![w] = "join"] /\ th' = th
    BY <1>1, Zenon DEF Proceed
  <2> QED  BY <2>2, <2>3
<1>2. CASE Later(w, k) # {}
  <2>1. PICK x \in Later(w, k) : /\ \A y \in Later(w, k) : x <= y
                                 /\ th' = [th EXCEPT ![w] = x]
    BY <1>2, Zenon DEF Proceed
  <2>2. place' = [place EXCEPT ![w] = "raise"]  BY <1>2, Zenon DEF Proceed
  <2>3. x \in Iteration /\ x > k /\ owner[x] = w  BY <2>1, Zenon
  <2>4. \A y \in Iteration : owner[y] = w /\ y > k => x <= y  BY <2>1, Zenon
  <2> QED  BY <2>1, <2>2, <2>3, <2>4, Zenon
<1> QED  BY <1>1, <1>2

LEMMA NextIInv == ASSUME IInv, [TeamNext]_teamvars PROVE IInv'
<1> USE NthAssumption DEF Iteration
<1>1. CASE UNCHANGED teamvars
  BY <1>1, SMT DEF teamvars, IInv, TeamTypeOK, FlagInv, SpinInv, OnceInv,
     AllStarted, Joined, Passed
<1>2. CASE Free
  BY <1>2, SMT DEF Free, IInv, TeamTypeOK, FlagInv, SpinInv, OnceInv,
     AllStarted, Joined, Passed
<1>3. ASSUME NEW w \in Member, Fork(w) PROVE IInv'
  <2>1. Proceed(w, -1) /\ -1 \in Int /\ TeamTypeOK
    BY <1>3, SMT DEF Fork, IInv
  <2>2. \/ /\ place' = [place EXCEPT ![w] = "join"] /\ th' = th
           /\ \A y \in Iteration : owner[y] # w
        \/ \E x \in Iteration :
             /\ place' = [place EXCEPT ![w] = "raise"]
             /\ th' = [th EXCEPT ![w] = x] /\ owner[x] = w
             /\ \A y \in Iteration : owner[y] = w => x <= y
    BY <2>1, ProceedGoesOn, SMT
  <2>3. TeamTypeOK'
    <3>1. CASE place' = [place EXCEPT ![w] = "join"] /\ th' = th
      BY <1>3, <3>1, SMT DEF Fork, IInv, TeamTypeOK
    <3>2. ASSUME NEW x \in Iteration, place' = [place EXCEPT ![w] = "raise"],
                 th' = [th EXCEPT ![w] = x], owner[x] = w
          PROVE  TeamTypeOK'
      BY <1>3, <3>2, SMT DEF Fork, IInv, TeamTypeOK
    <3> QED  BY <2>2, <3>1, <3>2
  <2>4. FlagInv' /\ SpinInv'
    <3>1. \A x \in Iteration : owner[x] = w => state[x] # 1
      BY <1>3, SMT DEF Fork, IInv, TeamTypeOK, FlagInv
    <3>2. /\ \A v \in Member : v # w => place'[v] = place[v] /\ th'[v] = th[v]
          /\ place'[w] # "spin"
      BY <2>2, SMT DEF IInv, TeamTypeOK
    <3>3. state' = state /\ owner' = owner /\ i' = i  BY <1>3 DEF Fork
    <3>4. \A x \in Iteration : owner[x] \in Member
      BY Zenon DEF IInv, TeamTypeOK
    <3>5. FlagInv'
      BY <3>1, <3>2, <3>3, <3>4, Zenon DEF IInv, FlagInv
    <3>6. SpinInv'  BY <3>2, <3>3, Zenon DEF IInv, SpinInv
    <3> QED  BY <3>5, <3>6
  <2>5. \A v \in Member : Passed(v)' => Passed(v)
    BY <1>3, <2>2, SMT DEF Fork, IInv, TeamTypeOK, Passed
  <2>6. OnceInv' /\ AllStarted'
    BY <1>3, <2>5, SMT DEF Fork, IInv, OnceInv, AllStarted
  <2>7. Joined'
    BY <1>3, <2>2, SMT DEF Fork, IInv, TeamTypeOK, Joined
  <2> QED  BY <2>3, <2>4, <2>6, <2>7 DEF IInv
<1>4. ASSUME NEW w \in Member, Raise(w) PROVE IInv'
  <2>1. TeamTypeOK'  BY <1>4, SMT DEF Raise, IInv, TeamTypeOK
  <2>2. FlagInv' /\ SpinInv'
    BY <1>4, SMT DEF Raise, IInv, TeamTypeOK, FlagInv, SpinInv
  <2>3. \A v \in Member : Passed(v)' => Passed(v)
    BY <1>4, SMT DEF Raise, IInv, TeamTypeOK, Passed
  <2>4. OnceInv'
    BY <1>4, <2>3, SMT DEF Raise, IInv, OnceInv
  <2>5. AllStarted'
    BY <1>4, <2>3, SMT DEF Raise, IInv, TeamTypeOK, AllStarted
  <2>6. Joined'
    BY <1>4, SMT DEF Raise, IInv, TeamTypeOK, Joined
  <2> QED  BY <2>1, <2>2, <2>4, <2>5, <2>6 DEF IInv
<1>5. ASSUME NEW w \in Member, Look(w) PROVE IInv'
  <2>1. TeamTypeOK'  BY <1>5, SMT DEF Look, IInv, TeamTypeOK
  <2>2. FlagInv'  BY <1>5, SMT DEF Look, IInv, TeamTypeOK, FlagInv
  <2>3. SpinInv'  BY <1>5, SMT DEF Look, IInv, TeamTypeOK, SpinInv
  <2>4. OnceInv' /\ AllStarted' /\ Joined'
    BY <1>5, SMT DEF Look, IInv, OnceInv, AllStarted, Joined, Passed
  <2> QED  BY <2>1, <2>2, <2>3, <2>4 DEF IInv
<1>6. ASSUME NEW w \in Member, Leave(w) PROVE IInv'
  <2>1. \A x \in Iteration : state[x] = 1
    BY <1>6, SMT DEF Leave, IInv, TeamTypeOK, SpinInv
  <2>2. th[w] \in Iteration /\ owner[th[w]] = w
    BY <1>6, SMT DEF Leave, IInv, TeamTypeOK
  <2>3. \A x \in Iteration : owner[x] = w => x = th[w]
    <3>1. \A x \in Iteration : owner[x] = w => x <= th[w]
      BY <1>6, <2>1, SMT DEF Leave, IInv, FlagInv
    <3>2. \A x \in Iteration : owner[x] = w /\ x < th[w] => Passed(w)
      BY <1>6, SMT DEF Leave, Passed
    <3> QED  BY <2>2, <3>1, <3>2, SMT DEF IInv, OnceInv
  <2>4. place' = [place EXCEPT ![w] = "join"] /\ th' = th
    <3>1. Proceed(w, th[w]) /\ th[w] \in Int /\ TeamTypeOK
      BY <1>6, <2>2, SMT DEF Leave, IInv
    <3> QED  BY <2>3, <3>1, ProceedGoesOn, SMT
  <2>5. TeamTypeOK'  BY <1>6, <2>4, SMT DEF Leave, IInv, TeamTypeOK
  <2>6. FlagInv' /\ SpinInv' /\ Joined'
    BY <1>6, <2>4, SMT DEF Leave, IInv, TeamTypeOK, FlagInv, SpinInv,
       Joined
  <2>7. AllStarted'  BY <1>6, <2>1, SMT DEF Leave, AllStarted
  <2>8. \A v \in Member : v # w => (Passed(v)' => Passed(v))
    BY <1>6, <2>4, SMT DEF Leave, IInv, TeamTypeOK, Passed
  <2>9. OnceInv'
    BY <1>6, <2>3, <2>8, SMT DEF Leave, IInv, OnceInv
  <2> QED  BY <2>5, <2>6, <2>7, <2>9 DEF IInv
<1> QED  BY <1>1, <1>2, <1>3, <1>4, <1>5, <1>6 DEF TeamNext, Step

\* The inductive invariant holds throughout, for any team.
THEOREM Invariance == TeamSpec => []IInv
<1> QED  BY InitIInv, NextIInv, PTL DEF TeamSpec

(***************************************************************************)
(* Whatever the schedule, no thread of the team gets past the barrier      *)
(* before all iterations have been started.                                *)
(***************************************************************************)
THEOREM NobodyEarly == TeamSpec => []AllStarted
<1>1. IInv => AllStarted  BY DEF IInv
<1> QED  BY <1>1, Invariance, PTL

(***************************************************************************)
(* The flags and the threads' indices keep their types: no thread looks at *)
(* a flag beyond the last, whatever iterations it was given.               *)
(***************************************************************************)
THEOREM TypeCorrect == TeamSpec => []TeamTypeOK
<1>1. IInv => TeamTypeOK  BY DEF IInv
<1> QED  BY <1>1, Invariance, PTL

(***************************************************************************)
(* startAllThreads returns only if every iteration had a thread of its     *)
(* own: with a smaller team it cannot return.                              *)
(***************************************************************************)
THEOREM FullTeamOrNoReturn == TeamSpec => []ReturnNeedsFullTeam
<1>1. IInv => ReturnNeedsFullTeam
  <2> SUFFICES ASSUME IInv, freed, NEW x \in Iteration, NEW y \in Iteration,
                      owner[x] = owner[y]
               PROVE  x = y
    BY DEF ReturnNeedsFullTeam
  <2>1. owner[x] \in Member  BY Zenon DEF IInv, TeamTypeOK
  <2>2. Passed(owner[x])  BY <2>1, Zenon DEF IInv, Joined, Passed
  <2> QED  BY <2>1, <2>2, Zenon DEF IInv, OnceInv
<1> QED  BY <1>1, Invariance, PTL
=============================================================================
