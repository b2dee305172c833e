--------------------------- MODULE PlanManagerProofs ---------------------------
(***************************************************************************)
(* The store of plans, for every number of threads, files and transforms:  *)
(* what mtx protects in every process; what a single process never loses   *)
(* and never measures twice; what a single thread finds in its file.       *)
(***************************************************************************)
EXTENDS PlanManager, TLAPS

(* What the operations on a manager make of it *)

\* What the proofs need of the constants, in the form they need it
LEMMA FlagTypes ==
  /\ {"REFERTOENVVAR"} \in SUBSET Flag
  /\ EnvFile \in File \cup {NoFile} /\ DefaultArch \in Arch
  /\ NoFile \notin File /\ NoThread \notin Thread /\ NoPath \notin Path
  BY FileAssumption DEF Flag

\* An empty file is a plan without paths.
LEMMA EmptyType == Empty \in Plan /\ NoPlan \in [Slot -> Path \cup {NoPath}]
  BY DEF Empty, Plan, NoPlan

\* The state of a process that starts
LEMMA NewManagerType == NewManager \in Manager
  BY FlagTypes, EmptyType DEF NewManager, Manager

\* PlanManager::put changes one path.
LEMMA PutType ==
  ASSUME NEW plan \in Plan, NEW s \in Slot, NEW path \in Path
  PROVE  /\ Put(plan, s, path) \in Plan
         /\ Put(plan, s, path).id = plan.id
         /\ Put(plan, s, path).path[s] = path
         /\ \A r \in Slot : r # s => Put(plan, s, path).path[r] = plan.path[r]
  BY DEF Put, Plan

\* setPlanFilePath sets mode, file and architecture.
LEMMA SetPathType ==
  ASSUME NEW m \in Manager, NEW file \in File \cup {NoFile}, NEW arch \in Arch,
         NEW mode \in SUBSET Flag
  PROVE  /\ SetPath(m, file, arch, mode) \in Manager
         /\ SetPath(m, file, arch, mode).file = file
         /\ SetPath(m, file, arch, mode).id = arch
         /\ SetPath(m, file, arch, mode).mode = mode
<1>1. m.plan \in Plan  BY DEF Manager
<1>2. [m.plan EXCEPT !.path =
         [s \in Slot |-> IF s[1] = arch THEN NoPath ELSE @[s]]] \in Plan
  BY <1>1 DEF Plan
<1> QED  BY <1>1, <1>2 DEF SetPath, Manager

\* Looking at SLEEFDFTPLAN twice is looking at it once.
LEMMA ReferType ==
  ASSUME NEW m \in Manager
  PROVE  /\ Refer(m) \in Manager /\ Refer(m).mode = m.mode
         /\ EnvFile = NoFile => Refer(m) = m
         /\ Refer(Refer(m)).file = Refer(m).file
         /\ Refer(Refer(m)).id = Refer(m).id
<1> DEFINE s == SetPath(m, EnvFile, DefaultArch, m.mode)
<1>1. CASE "REFERTOENVVAR" \in m.mode /\ EnvFile # NoFile
  <2>1. m.mode \in SUBSET Flag  BY DEF Manager
  <2>2. s \in Manager /\ s.file = EnvFile /\ s.id = DefaultArch
        /\ s.mode = m.mode
    BY <1>1, <2>1, SetPathType, FlagTypes
  <2>3. Refer(m) = s  BY <1>1 DEF Refer
  <2> HIDE DEF s
  <2>4. Refer(s).file = EnvFile /\ Refer(s).id = DefaultArch
    BY <1>1, <2>1, <2>2, SetPathType, FlagTypes DEF Refer
  <2> QED  BY <1>1, <2>2, <2>3, <2>4
<1>2. CASE ~("REFERTOENVVAR" \in m.mode /\ EnvFile # NoFile)
  BY <1>2 DEF Refer
<1> QED  BY <1>1, <1>2

\* Reading replaces the plans by those of a plan file.
LEMMA ReadType ==
  ASSUME NEW m \in Manager, NEW content \in Plan
  PROVE  /\ Read(m, content) \in Manager
         /\ Read(m, content).mode = m.mode /\ Read(m, content).file = m.file
         /\ Read(m, content).id = m.id
         /\ Read(m, content).plan = IF content.id THEN content ELSE m.plan
  BY DEF Read, Manager

\* Reading and putting keeps mode, file and architecture.
LEMMA UpdatedType ==
  ASSUME NEW m \in Manager, NEW content \in Plan, NEW s \in Slot,
         NEW path \in Path, NEW u, u = Updated(m, content, s, path)
  PROVE  /\ u \in Manager
         /\ u.mode = m.mode
         /\ u.file = m.file
         /\ u.id = m.id
         /\ u.plan \in Plan
<1> DEFINE r == Read(m, content)
           base == [r.plan EXCEPT !.id = TRUE]
<1>1. /\ r \in Manager /\ r.mode = m.mode /\ r.file = m.file /\ r.id = m.id
      /\ r.plan \in Plan
  <2>1. r \in Manager => r.plan \in Plan  BY DEF Manager
  <2> HIDE DEF r
  <2> QED  BY <2>1, ReadType DEF r
<1>2. Updated(m, content, s, path) = [r EXCEPT !.plan = Put(base, s, path)]
  BY DEF Updated
<1> HIDE DEF r
<1>3. base \in Plan  BY <1>1 DEF Plan
<1> HIDE DEF base
<1>4. Put(base, s, path) \in Plan  BY <1>3, PutType
<1> QED  BY <1>1, <1>2, <1>4 DEF Manager

\* What is put into is what was read, if that was a plan file.
LEMMA UpdatedPlan ==
  ASSUME NEW m \in Manager, NEW content \in Plan, NEW s \in Slot,
         NEW path \in Path
  PROVE  \E base \in Plan :
           /\ base.id = TRUE
           /\ content.id = TRUE => base.path = content.path
           /\ content.id = FALSE => base.path = m.plan.path
           /\ Updated(m, content, s, path).plan = Put(base, s, path)
<1> DEFINE was == IF content.id THEN content ELSE m.plan
           base == [was EXCEPT !.id = TRUE]
<1>1. was \in Plan  BY DEF Manager
<1>2. Updated(m, content, s, path).plan = Put(base, s, path)
  <2>1. Read(m, content) \in Manager /\ Read(m, content).plan = was
    BY ReadType
  <2> HIDE DEF was
  <2> QED  BY <2>1 DEF Updated, Manager
<1>3. /\ content.id = TRUE => was.path = content.path
      /\ content.id = FALSE => was.path = m.plan.path
  OBVIOUS
<1> HIDE DEF was
<1>4. base \in Plan /\ base.id = TRUE /\ base.path = was.path
  BY <1>1 DEF Plan
<1> HIDE DEF base
<1> QED  BY <1>2, <1>3, <1>4

-----------------------------------------------------------------------------
(* The inductive invariants *)

\* The steps of a constructor that hold mtx
Critical(t) ==
  pc[t] \in {"rlock", "read", "get", "create", "slock", "update", "close"}

\* mtx is held throughout them, and savePlan has the process to itself.
Mutex ==
  /\ \A t \in Thread : Critical(t) => mtx[Proc(t)] = t
  /\ \A t, u \in Thread :
       Saving(t) /\ u # t /\ Proc(u) = Proc(t) => Between(u)

\* The file a thread reads from or writes to is there, and a thread that stores
\* a path has one.
Open ==
  \A t \in Thread :
    /\ pc[t] \in {"rlock", "read", "slock", "update", "close"} =>
         Mgr(t).file \in DOMAIN disk
    /\ pc[t] = "create" => Mgr(t).file \in File
    /\ Saving(t) => target[t] \in Targets
    /\ pc[t] \in {"save", "create", "slock", "update", "close", "ready"} =>
         got[t] \in Path

AInv == TypeOK /\ Mutex /\ Open

\* What will be flushed has all that can be loaded now, but for the path it is
\* flushed for; an empty file is created only where there was none.
Flushed(t) ==
  /\ pc[t] = "create" => Mgr(t).file \notin DOMAIN disk
  /\ pc[t] = "close" =>
       /\ buf[t].id = TRUE
       /\ buf[t].path[SlotOf(t)] = got[t]
       /\ \A s \in Slot : s # SlotOf(t) =>
            Loadable[Mgr(t).file][s] \in {NoPath, buf[t].path[s]}
  /\ pc[t] = "aclose" => buf[t].id = TRUE

\* A path that was known to be saved is in memory when it is looked for, and is
\* not measured.
Found(t) ==
  known[t] =>
    /\ pc[t] \in {"rlock", "read"} => saved[Mgr(t).file][SlotOf(t)] # NoPath
    /\ pc[t] = "get" => Mgr(t).plan.path[SlotOf(t)] # NoPath
    /\ pc[t] # "measure"

BInv == SavedStays /\ \A t \in Thread : Flushed(t) /\ Found(t)

\* With AUTOMATIC, what is in memory came from the file or has gone there.
Backed ==
  \A t \in Thread :
    LET m == Mgr(t) IN
    "AUTOMATIC" \in m.mode /\ m.file # NoFile =>
      /\ \/ Holds(m.file)
         \/ m.plan.path = NoPlan
         \/ pc[t] = "close"
         \/ Saving(t) /\ target[t] = m.file
      /\ pc[t] = "get" /\ Holds(m.file) => m.plan.path = disk[m.file].path

CInv == ReadyIsStored /\ Backed

\* A manager that refers to SLEEFDFTPLAN has done so.
Stable(m) ==
  "REFERTOENVVAR" \in m.mode /\ EnvFile # NoFile => m.id = DefaultArch

\* Slot s of process p has been measured and waits to be put into memory.
Pending(p, s) ==
  \E t \in Thread : Proc(t) = p /\ pc[t] = "save" /\ SlotOf(t) = s

\* Without AUTOMATIC, what was made and not lost is in memory or on its way.
KeptIn(p) ==
  "AUTOMATIC" \notin mgr[p].mode =>
    \A s \in made[p] \ lost[p] :
      mgr[p].plan.path[s] # NoPath \/ Pending(p, s)

\* A constructor past its load has a stable manager, and without AUTOMATIC it
\* does not store to a file.
Chosen(t) ==
  /\ ~Between(t) /\ ~Saving(t) /\ pc[t] # "load" => Stable(Mgr(t))
  /\ "AUTOMATIC" \notin Mgr(t).mode =>
       pc[t] \notin {"create", "slock", "update", "close"}

\* What savePlan of thread t is about to flush is all there.
Complete(t) ==
  pc[t] = "aclose" /\ "AUTOMATIC" \notin Mgr(t).mode =>
    \A s \in made[Proc(t)] \ lost[Proc(t)] : buf[t].path[s] # NoPath

DIn(p) ==
  KeptIn(p) /\ \A t \in Thread : Proc(t) = p => Chosen(t) /\ Complete(t)

DInv == \A p \in Process : DIn(p)

-----------------------------------------------------------------------------
(* Every step keeps the types, what mtx protects and the files that are open *)

\* What the state of the process of a thread is made of
LEMMA Types ==
  ASSUME TypeOK, NEW t \in Thread
  PROVE  /\ Proc(t) \in Process /\ Mgr(t) \in Manager /\ SlotOf(t) \in Slot
         /\ pc[t] \in Label /\ Mgr(t).plan \in Plan
         /\ Mgr(t).file \in File \cup {NoFile} /\ Mgr(t).id \in Arch
         /\ Mgr(t).mode \in SUBSET Flag
<1>1. Proc(t) \in Process  BY ProcessAssumption DEF Proc
<1>2. Mgr(t) \in Manager  BY <1>1 DEF TypeOK, Mgr
<1>3. /\ Mgr(t).plan \in Plan /\ Mgr(t).id \in Arch
      /\ Mgr(t).file \in File \cup {NoFile} /\ Mgr(t).mode \in SUBSET Flag
  BY <1>2 DEF Manager
<1>4. key[t] \in Key /\ pc[t] \in Label  BY DEF TypeOK
<1> QED  BY <1>1, <1>2, <1>3, <1>4 DEF SlotOf, Slot

\* What writing to a file does to the files that exist
LEMMA WriteType ==
  ASSUME TypeOK, NEW f \in File, NEW content \in Plan, Write(f, content)
  PROVE  /\ DOMAIN disk' = DOMAIN disk \cup {f} /\ DOMAIN disk' \subseteq File
         /\ \A g \in DOMAIN disk' : disk'[g] \in Plan
         /\ disk'[f] = content
         /\ \A g \in DOMAIN disk : g # f => disk'[g] = disk[g]
  BY DEF Write, TypeOK

\* A load changes the manager, and what counts as lost.
LEMMA LoadType ==
  ASSUME TypeOK, NEW t \in Thread, NEW m, Load(t, m)
  PROVE  /\ mgr' = [mgr EXCEPT ![Proc(t)] = m]
         /\ lost' \in [Process -> SUBSET Slot]
<1>1. \A q \in Process : made[q] \subseteq Slot /\ lost[q] \subseteq Slot
  BY DEF TypeOK
<1>2. lost[Proc(t)] \cup (made[Proc(t)] \cap Gone(Mgr(t), m))
        \in SUBSET Slot
  BY <1>1, ProcessAssumption DEF Proc
<1> QED  BY <1>2 DEF Load, SetMgr, TypeOK

\* mtx is taken; the file is locked only if it is there.
LEMMA LoadOpenA ==
  ASSUME AInv, NEW t \in Thread, LoadOpen(t)
  PROVE  AInv'
<1>1. TypeOK /\ Mgr(t) \in Manager /\ Proc(t) \in Process
      /\ SlotOf(t) \in Slot
  BY Types DEF AInv
<1> DEFINE m == Refer(Mgr(t))
<1>5. /\ mgr' = [mgr EXCEPT ![Proc(t)] = m]
      /\ lost' \in [Process -> SUBSET Slot]
  BY <1>1, LoadType DEF LoadOpen
<1>6. TypeOK'
  BY <1>1, <1>5, ReferType, FlagTypes
  DEF LoadOpen, TakeMtx, Goto, TypeOK, Label, request, bounds
<1>3. Mutex'
  BY <1>1, ReferType, FlagTypes
  DEF LoadOpen, TakeMtx, Goto, AInv, TypeOK, Mutex, Critical, Saving,
      Between, Proc
<1>4. Open'
  BY <1>1, <1>5, ReferType, FlagTypes
  DEF LoadOpen, TakeMtx, Mutex,
      Critical, Goto, AInv, TypeOK, Open, Saving, Mgr, Proc, request
<1> QED  BY <1>6, <1>3, <1>4 DEF AInv

\* The lock of a file that is open
LEMMA LoadLockA ==
  ASSUME AInv, NEW t \in Thread, LoadLock(t)
  PROVE  AInv'
<1>1. TypeOK /\ Mgr(t) \in Manager /\ Proc(t) \in Process
      /\ SlotOf(t) \in Slot
  BY Types DEF AInv
<1>2. TypeOK'
  BY <1>1, FlagTypes
  DEF LoadLock, Lock, Goto, TypeOK, Label, request, bounds, history
<1>3. Mutex'
  BY <1>1, FlagTypes
  DEF LoadLock, Lock, Goto, AInv, TypeOK, Mutex, Critical, Saving, Between, Proc
<1>4. Open'
  BY <1>1, FlagTypes
  DEF LoadLock, Lock, Goto, AInv, TypeOK, Open, Saving, Mgr, Proc, request
<1> QED  BY <1>2, <1>3, <1>4 DEF AInv

\* What is read is a plan.
LEMMA LoadReadA ==
  ASSUME AInv, NEW t \in Thread, LoadRead(t)
  PROVE  AInv'
<1> DEFINE m == Read(Mgr(t), disk[Mgr(t).file])
<1>1. /\ pc[t] = "read" /\ pc' = [pc EXCEPT ![t] = "get"]
      /\ mgr' = [mgr EXCEPT ![Proc(t)] = m]
  BY DEF LoadRead, Goto, Load, SetMgr
<1>2. /\ TypeOK /\ Proc(t) \in Process /\ Mgr(t) \in Manager
      /\ m \in Manager /\ m.file = Mgr(t).file
  <2>1. disk[Mgr(t).file] \in Plan  BY <1>1 DEF AInv, TypeOK, Open
  <2> QED  BY <2>1, Types, ReadType DEF AInv
<1> HIDE DEF m
<1>3. TypeOK'
  <2>1. lost' \in [Process -> SUBSET Slot]
    BY <1>2, LoadType DEF LoadRead
  <2> QED
    BY <1>1, <1>2, <2>1 DEF LoadRead, Unlock, TypeOK, Label, request, bounds
<1>4. Mutex'
  BY <1>1, <1>2
  DEF LoadRead, AInv, TypeOK, Mutex, Critical, Saving, Between, Proc
<1>5. Open'
  BY <1>1, <1>2 DEF LoadRead, AInv, TypeOK, Open, Saving, Mgr, Proc, request
<1> QED  BY <1>3, <1>4, <1>5 DEF AInv

\* A plan gets ready only with a path.
LEMMA LoadGetA ==
  ASSUME AInv, NEW t \in Thread, LoadGet(t)
  PROVE  AInv'
<1> DEFINE path == Mgr(t).plan.path[SlotOf(t)]
<1>1. /\ pc[t] = "get" /\ mtx' = [mtx EXCEPT ![Proc(t)] = NoThread]
      /\ pc' = [pc EXCEPT ![t] = IF path = NoPath THEN "measure" ELSE "ready"]
      /\ got' = [got EXCEPT ![t] = path]
  BY DEF LoadGet, DropMtx, Goto
<1>2. TypeOK /\ Proc(t) \in Process /\ path \in Path \cup {NoPath}
  BY Types DEF AInv, Plan
<1> HIDE DEF path
<1>3. TypeOK'
  BY <1>1, <1>2, FlagTypes DEF LoadGet, TypeOK, Label, request, bounds, history
<1>4. Mutex'
  BY <1>1, <1>2, FlagTypes
  DEF LoadGet, AInv, TypeOK, Mutex, Critical, Saving, Between, Proc
<1>5. Open'
  BY <1>1, <1>2, FlagTypes
  DEF LoadGet, AInv, TypeOK, Open, Saving, Mgr, Proc, request
<1> QED  BY <1>3, <1>4, <1>5 DEF AInv

\* Whatever path is measured, it is one.
LEMMA MeasureA ==
  ASSUME AInv, NEW t \in Thread, NEW path \in Path, Measure(t, path)
  PROVE  AInv'
<1>1. TypeOK /\ Mgr(t) \in Manager /\ Proc(t) \in Process
      /\ SlotOf(t) \in Slot
  BY Types DEF AInv
<1>2. TypeOK'
  BY <1>1, FlagTypes
  DEF Measure, Goto, TypeOK, Label, request, bounds, history
<1>3. Mutex'
  BY <1>1, FlagTypes
  DEF Measure, Goto, AInv, TypeOK, Mutex, Critical, Saving, Between, Proc
<1>4. Open'
  BY <1>1, FlagTypes
  DEF Measure, Goto, AInv, TypeOK, Open, Saving, Mgr, Proc, request
<1> QED  BY <1>2, <1>3, <1>4 DEF AInv

\* The path put into memory is one.
LEMMA SavePutA ==
  ASSUME AInv, NEW t \in Thread, SavePut(t)
  PROVE  AInv'
<1> DEFINE m == [Mgr(t) EXCEPT !.plan = Put(@, SlotOf(t), got[t])]
<1>1. /\ pc[t] = "save" /\ mtx[Proc(t)] = NoThread
      /\ pc' = [pc EXCEPT ![t] = "ready"]
      /\ mgr' = [mgr EXCEPT ![Proc(t)] = m]
  BY DEF SavePut, Goto, SetMgr
<1>2. /\ TypeOK /\ Proc(t) \in Process /\ m \in Manager /\ m.file = Mgr(t).file
      /\ got[t] \in Path
  <2>1. got[t] \in Path  BY <1>1 DEF AInv, Open
  <2>2. /\ Mgr(t) \in Manager
        /\ Put(Mgr(t).plan, SlotOf(t), got[t]) \in Plan
    BY <2>1, Types, PutType DEF AInv
  <2> QED  BY <2>1, <2>2, Types DEF AInv, Manager
<1> HIDE DEF m
<1>3. TypeOK'
  BY <1>1, <1>2, FlagTypes DEF SavePut, TypeOK, Label, request, bounds, history
<1>4. Mutex'
  BY <1>1, <1>2, FlagTypes
  DEF SavePut, AInv, TypeOK, Mutex, Critical, Saving, Between, Proc
<1>5. Open'
  BY <1>1, <1>2, FlagTypes
  DEF SavePut, AInv, TypeOK, Mutex, Critical, Open, Saving, Mgr, Proc, request
<1> QED  BY <1>3, <1>4, <1>5 DEF AInv

\* Without a file name only SLEEFDFTPLAN is looked at.
LEMMA SaveNowhereA ==
  ASSUME AInv, NEW t \in Thread, SaveNowhere(t)
  PROVE  AInv'
<1>1. TypeOK /\ Mgr(t) \in Manager /\ Proc(t) \in Process
      /\ SlotOf(t) \in Slot
  BY Types DEF AInv
<1>2. TypeOK'
  BY <1>1, ReferType, FlagTypes
  DEF SaveNowhere, SetMgr, AInv,
      Open, Goto, TypeOK, Label, request, bounds, history
<1>3. Mutex'
  BY <1>1, ReferType, FlagTypes
  DEF SaveNowhere, Goto, AInv, TypeOK, Mutex, Critical, Saving, Between, Proc
<1>4. Open'
  BY <1>1, ReferType, FlagTypes
  DEF SaveNowhere, SetMgr, Mutex,
      Critical, Goto, AInv, TypeOK, Open, Saving, Mgr, Proc, request
<1> QED  BY <1>2, <1>3, <1>4 DEF AInv

\* mtx is taken; the file that is opened or will be created is a file.
LEMMA SaveOpenA ==
  ASSUME AInv, NEW t \in Thread, SaveOpen(t)
  PROVE  AInv'
<1>1. TypeOK /\ Mgr(t) \in Manager /\ Proc(t) \in Process
      /\ SlotOf(t) \in Slot
  BY Types DEF AInv
<1>2. TypeOK'
  BY <1>1, ReferType, FlagTypes
  DEF SaveOpen, TakeMtx, SetMgr, Goto, TypeOK, Label, request, bounds, history
<1>3. Mutex'
  BY <1>1, ReferType, FlagTypes
  DEF SaveOpen, TakeMtx, Goto, AInv, TypeOK, Mutex, Critical, Saving,
      Between, Proc
<1>4. Open'
  BY <1>1, ReferType, FlagTypes
  DEF SaveOpen, TakeMtx, SetMgr, Mutex,
      Critical, Goto, AInv, TypeOK, Open, Saving, Mgr, Proc, request
<1> QED  BY <1>2, <1>3, <1>4 DEF AInv

\* Now the file is there.
LEMMA SaveCreateA ==
  ASSUME AInv, NEW t \in Thread, SaveCreate(t)
  PROVE  AInv'
<1>1. TypeOK /\ Mgr(t) \in Manager /\ Proc(t) \in Process
      /\ SlotOf(t) \in Slot
  BY Types DEF AInv
<1>2. TypeOK'
  BY <1>1, EmptyType, FlagTypes
  DEF SaveCreate, Write, AInv, Open, Goto, TypeOK, Label, request, bounds,
      history
<1>3. Mutex'
  BY <1>1, EmptyType, FlagTypes
  DEF SaveCreate, Write, Goto, AInv, TypeOK, Mutex, Critical, Saving,
      Between, Proc
<1>4. Open'
  BY <1>1, EmptyType, FlagTypes
  DEF SaveCreate, Write, Goto, AInv, TypeOK, Open, Saving, Mgr, Proc, request
<1> QED  BY <1>2, <1>3, <1>4 DEF AInv

\* It is locked while mtx is held.
LEMMA SaveLockA ==
  ASSUME AInv, NEW t \in Thread, SaveLock(t)
  PROVE  AInv'
<1>1. TypeOK /\ Mgr(t) \in Manager /\ Proc(t) \in Process
      /\ SlotOf(t) \in Slot
  BY Types DEF AInv
<1>2. TypeOK'
  BY <1>1, FlagTypes
  DEF SaveLock, Lock, Goto, TypeOK, Label, request, bounds, history
<1>3. Mutex'
  BY <1>1, FlagTypes
  DEF SaveLock, Lock, Goto, AInv, TypeOK, Mutex, Critical, Saving, Between, Proc
<1>4. Open'
  BY <1>1, FlagTypes
  DEF SaveLock, Lock, Goto, AInv, TypeOK, Open, Saving, Mgr, Proc, request
<1> QED  BY <1>2, <1>3, <1>4 DEF AInv

\* What goes into the buffer is a plan.
LEMMA SaveUpdateA ==
  ASSUME AInv, NEW t \in Thread, SaveUpdate(t)
  PROVE  AInv'
<1> PICK m : m = Updated(Mgr(t), disk[Mgr(t).file], SlotOf(t), got[t])
  OBVIOUS
<1>1. /\ pc[t] = "update" /\ pc' = [pc EXCEPT ![t] = "close"]
      /\ mgr' = [mgr EXCEPT ![Proc(t)] = m]
      /\ buf' = [buf EXCEPT ![t] = m.plan]
  BY DEF SaveUpdate, Goto, SetMgr
<1>2. /\ TypeOK /\ Proc(t) \in Process /\ m \in Manager /\ m.file = Mgr(t).file
      /\ m.plan \in Plan
  <2>1. got[t] \in Path /\ disk[Mgr(t).file] \in Plan
    BY <1>1 DEF AInv, Open, TypeOK
  <2>2. Mgr(t) \in Manager /\ SlotOf(t) \in Slot  BY Types DEF AInv
  <2>3. m \in Manager /\ m.file = Mgr(t).file /\ m.plan \in Plan
    BY <2>1, <2>2, UpdatedType
  <2> QED  BY <2>3, Types DEF AInv
<1>3. TypeOK'
  BY <1>1, <1>2
  DEF SaveUpdate, Unlock, TypeOK, Label, request, bounds, history
<1>4. Mutex'
  BY <1>1, <1>2
  DEF SaveUpdate, AInv, TypeOK, Mutex, Critical, Saving, Between, Proc
<1>5. Open'
  BY <1>1, <1>2, FlagTypes
  DEF SaveUpdate, AInv, TypeOK, Open, Saving, Mgr, Proc, request
<1> QED  BY <1>3, <1>4, <1>5 DEF AInv

\* What is flushed is a plan; mtx is released.
LEMMA SaveCloseA ==
  ASSUME AInv, NEW t \in Thread, SaveClose(t)
  PROVE  AInv'
<1> DEFINE f == Mgr(t).file
<1>1. /\ pc[t] = "close" /\ pc' = [pc EXCEPT ![t] = "ready"]
      /\ mtx' = [mtx EXCEPT ![Proc(t)] = NoThread]
      /\ Write(f, buf[t]) /\ buf' = [buf EXCEPT ![t] = Empty]
      /\ saved' = [saved EXCEPT ![f][SlotOf(t)] = got[t]]
  BY DEF SaveClose, DropMtx, Goto
<1>2. /\ TypeOK /\ Proc(t) \in Process /\ f \in File /\ SlotOf(t) \in Slot
      /\ got[t] \in Path /\ buf[t] \in Plan
  BY <1>1, Types DEF AInv, Open, TypeOK
<1> HIDE DEF f
<1>3. /\ DOMAIN disk' = DOMAIN disk \cup {f} /\ DOMAIN disk' \subseteq File
      /\ \A g \in DOMAIN disk' : disk'[g] \in Plan
  BY <1>1, <1>2, WriteType
<1>4. TypeOK'
  <2>1. saved' \in [File -> [Slot -> Path \cup {NoPath}]]
    BY <1>1, <1>2 DEF TypeOK
  <2> QED
    BY <1>1, <1>2, <1>3, <2>1, EmptyType, FlagTypes
    DEF SaveClose, TypeOK, Label, request, bounds
<1>5. Mutex'
  BY <1>1, <1>2, FlagTypes
  DEF SaveClose, AInv, TypeOK, Mutex, Critical, Saving, Between, Proc
<1>6. Open'
  BY <1>1, <1>2, <1>3, FlagTypes
  DEF SaveClose, AInv, TypeOK, Open, Saving, Mgr, Proc, request
<1> QED  BY <1>4, <1>5, <1>6 DEF AInv

\* A constructor starts only where no savePlan runs.
LEMMA StartInitA ==
  ASSUME AInv, NEW t \in Thread, NEW k \in Key, NEW h \in How,
         StartInit(t, k, h)
  PROVE  AInv'
<1>1. /\ Between(t) /\ pc' = [pc EXCEPT ![t] = "load"]
      /\ \A u \in Thread : Proc(u) = Proc(t) => ~Saving(u)
      /\ key' = [key EXCEPT ![t] = k] /\ how' = [how EXCEPT ![t] = h]
      /\ got' = [got EXCEPT ![t] = NoPath]
      /\ calls < MaxCalls /\ calls' = calls + 1
  BY DEF StartInit, Goto, Counted
<1>2. TypeOK  BY DEF AInv
<1>3. TypeOK'
  <2>1. calls' \in 0..MaxCalls  BY <1>1, <1>2, BoundAssumption DEF TypeOK
  <2>2. /\ key' \in [Thread -> Key] /\ how' \in [Thread -> How \cup {"measure"}]
        /\ got' \in [Thread -> Path \cup {NoPath}]
    BY <1>1, <1>2 DEF TypeOK
  <2> QED
    BY <1>1, <1>2, <2>1, <2>2 DEF StartInit, TypeOK, Label, history
<1>4. Mutex'
  BY <1>1, <1>2
  DEF StartInit, AInv, TypeOK, Mutex, Critical, Saving, Between, Proc
<1>5. Open'
  BY <1>1, <1>2
  DEF StartInit, AInv, TypeOK, Open, Saving, Mgr, Proc
<1> QED  BY <1>3, <1>4, <1>5 DEF AInv

\* No thread of the process is in the library.
LEMMA SetPlanFilePathA ==
  ASSUME AInv, NEW t \in Thread, NEW s \in Settings, SetPlanFilePath(t, s)
  PROVE  AInv'
<1> DEFINE m == SetPath(Mgr(t), s.file, s.arch, s.mode)
<1>1. /\ Alone(t) /\ mgr' = [mgr EXCEPT ![Proc(t)] = m]
      /\ pc' = [u \in Thread |-> IF Proc(u) = Proc(t) THEN "idle" ELSE pc[u]]
      /\ made' = [made EXCEPT ![Proc(t)] = {}]
      /\ lost' = [lost EXCEPT ![Proc(t)] = {}]
      /\ calls < MaxCalls /\ calls' = calls + 1
  BY DEF SetPlanFilePath, SetMgr, Counted
<1>2. TypeOK /\ Proc(t) \in Process /\ m \in Manager
  <2>1. /\ s.file \in File \cup {NoFile} /\ s.arch \in Arch
        /\ s.mode \in SUBSET Flag
    BY FileAssumption
  <2> QED  BY <2>1, Types, SetPathType DEF AInv
<1> HIDE DEF m
<1>3. TypeOK'
  <2>1. calls' \in 0..MaxCalls  BY <1>1, <1>2, BoundAssumption DEF TypeOK
  <2>2. pc' \in [Thread -> Label] /\ made' \in [Process -> SUBSET Slot]
        /\ lost' \in [Process -> SUBSET Slot]
    BY <1>1, <1>2 DEF TypeOK, Label
  <2>3. \A u \in Thread : pc'[u] = "ready" => pc[u] = "ready"  BY <1>1
  <2> QED
    BY <1>1, <1>2, <2>1, <2>2, <2>3 DEF SetPlanFilePath, TypeOK, request
<1>4. Mutex'
  BY <1>1, <1>2
  DEF SetPlanFilePath, AInv, TypeOK, Mutex, Critical, Saving, Between, Proc,
      Alone
<1>5. Open'
  BY <1>1, <1>2
  DEF SetPlanFilePath, AInv, TypeOK, Open, Saving, Mgr, Proc, request
<1> QED  BY <1>3, <1>4, <1>5 DEF AInv

\* Nor is one here, and so savePlan is alone.
LEMMA SavePlanA ==
  ASSUME AInv, NEW t \in Thread, NEW f \in Targets, SavePlan(t, f)
  PROVE  AInv'
<1>1. /\ Alone(t) /\ pc' = [pc EXCEPT ![t] = "alock"]
      /\ target' = [target EXCEPT ![t] = f] /\ Write(f, Empty)
      /\ saved' = [saved EXCEPT ![f] = NoPlan]
      /\ calls < MaxCalls /\ calls' = calls + 1
  BY DEF SavePlan, Goto, Counted
<1>2. TypeOK /\ f \in File  BY FileAssumption DEF AInv
<1>3. /\ DOMAIN disk' = DOMAIN disk \cup {f} /\ DOMAIN disk' \subseteq File
      /\ \A g \in DOMAIN disk' : disk'[g] \in Plan
  BY <1>1, <1>2, WriteType, EmptyType
<1>4. TypeOK'
  <2>1. calls' \in 0..MaxCalls  BY <1>1, <1>2, BoundAssumption DEF TypeOK
  <2>2. saved' \in [File -> [Slot -> Path \cup {NoPath}]]
    BY <1>1, <1>2, EmptyType DEF TypeOK
  <2> QED
    BY <1>1, <1>2, <1>3, <2>1, <2>2 DEF SavePlan, TypeOK, Label
<1>5. Mutex'
  BY <1>1, <1>2
  DEF SavePlan, AInv, TypeOK, Mutex, Critical, Saving, Between, Proc, Alone
<1>6. Open'
  <2>1. \A u \in Thread : got'[u] = got[u] /\ Mgr(u)' = Mgr(u)
    BY DEF SavePlan, Mgr, Proc
  <2> QED
    BY <1>1, <1>2, <1>3, <2>1 DEF AInv, TypeOK, Open, Saving
<1> QED  BY <1>4, <1>5, <1>6 DEF AInv

\* The file to be written is locked.
LEMMA SavePlanLockA ==
  ASSUME AInv, NEW t \in Thread, SavePlanLock(t)
  PROVE  AInv'
<1>1. TypeOK /\ Mgr(t) \in Manager /\ Proc(t) \in Process
      /\ SlotOf(t) \in Slot
  BY Types DEF AInv
<1>2. TypeOK'
  BY <1>1, FlagTypes
  DEF SavePlanLock, Lock, Goto, TypeOK, Label, request, bounds, history
<1>3. Mutex'
  BY <1>1, FlagTypes
  DEF SavePlanLock, Lock, Goto, AInv, TypeOK, Mutex, Critical, Saving,
      Between, Proc
<1>4. Open'
  BY <1>1, FlagTypes
  DEF SavePlanLock, Lock, Goto, AInv, TypeOK, Open, Saving, Mgr, Proc, request
<1> QED  BY <1>2, <1>3, <1>4 DEF AInv

\* What is in memory gets PLANFILEID and goes into the buffer.
LEMMA SavePlanWriteA ==
  ASSUME AInv, NEW t \in Thread, SavePlanWrite(t)
  PROVE  AInv'
<1> DEFINE plan == [Mgr(t).plan EXCEPT !.id = TRUE]
           m == [Mgr(t) EXCEPT !.plan = plan]
<1>1. /\ pc[t] = "awrite" /\ pc' = [pc EXCEPT ![t] = "aclose"]
      /\ mgr' = [mgr EXCEPT ![Proc(t)] = m]
      /\ buf' = [buf EXCEPT ![t] = plan]
  BY DEF SavePlanWrite, Goto, SetMgr
<1>2. /\ TypeOK /\ Proc(t) \in Process /\ plan \in Plan /\ m \in Manager
      /\ m.file = Mgr(t).file
  <2>1. Mgr(t).plan \in Plan /\ Mgr(t) \in Manager  BY Types DEF AInv
  <2>2. plan \in Plan  BY <2>1 DEF Plan
  <2> HIDE DEF plan
  <2> QED  BY <2>1, <2>2, Types DEF AInv, Manager
<1> HIDE DEF m, plan
<1>3. TypeOK'
  BY <1>1, <1>2
  DEF SavePlanWrite, Unlock, TypeOK, Label, request, bounds, history
<1>4. Mutex'
  BY <1>1, <1>2
  DEF SavePlanWrite, AInv, TypeOK, Mutex, Critical, Saving, Between, Proc
<1>5. Open'
  BY <1>1, <1>2, FlagTypes
  DEF SavePlanWrite, AInv, TypeOK, Open, Saving, Mgr, Proc, request
<1> QED  BY <1>3, <1>4, <1>5 DEF AInv

\* It is flushed.
LEMMA SavePlanCloseA ==
  ASSUME AInv, NEW t \in Thread, SavePlanClose(t)
  PROVE  AInv'
<1> DEFINE f == target[t]
<1>1. /\ pc[t] = "aclose" /\ pc' = [pc EXCEPT ![t] = "idle"]
      /\ Write(f, buf[t]) /\ buf' = [buf EXCEPT ![t] = Empty]
      /\ saved' = [saved EXCEPT ![f] = buf[t].path]
  BY DEF SavePlanClose, Goto
<1>2. /\ TypeOK /\ Proc(t) \in Process /\ f \in File /\ buf[t] \in Plan
      /\ buf[t].path \in [Slot -> Path \cup {NoPath}]
  BY <1>1, Types, FileAssumption DEF AInv, Open, TypeOK, Saving, Plan
<1> HIDE DEF f
<1>3. /\ DOMAIN disk' = DOMAIN disk \cup {f} /\ DOMAIN disk' \subseteq File
      /\ \A g \in DOMAIN disk' : disk'[g] \in Plan
  BY <1>1, <1>2, WriteType
<1>4. TypeOK'
  <2>1. saved' \in [File -> [Slot -> Path \cup {NoPath}]]
    BY <1>1, <1>2 DEF TypeOK
  <2> QED
    BY <1>1, <1>2, <1>3, <2>1, EmptyType, FlagTypes
    DEF SavePlanClose, TypeOK, Label, request, bounds
<1>5. Mutex'
  BY <1>1, <1>2, FlagTypes
  DEF SavePlanClose, AInv, TypeOK, Mutex, Critical, Saving, Between, Proc
<1>6. Open'
  BY <1>1, <1>2, <1>3, FlagTypes
  DEF SavePlanClose, AInv, TypeOK, Open, Saving, Mgr, Proc, request
<1> QED  BY <1>4, <1>5, <1>6 DEF AInv

\* Only threads of other processes are left where they were.
LEMMA CrashA ==
  ASSUME AInv, NEW p \in Process, Crash(p)
  PROVE  AInv'
<1>1. /\ mgr' = [mgr EXCEPT ![p] = NewManager]
      /\ mtx' = [mtx EXCEPT ![p] = NoThread]
      /\ pc' = [t \in Thread |-> IF Proc(t) = p THEN "idle" ELSE pc[t]]
      /\ got' = [t \in Thread |-> IF Proc(t) = p THEN NoPath ELSE got[t]]
      /\ buf' = [t \in Thread |-> IF Proc(t) = p THEN Empty ELSE buf[t]]
      /\ made' = [made EXCEPT ![p] = {}]
      /\ lost' = [lost EXCEPT ![p] = {}]
      /\ crashes < MaxCrashes /\ crashes' = crashes + 1
  BY DEF Crash
<1>2. TypeOK  BY DEF AInv
<1>3. TypeOK'
  <2>1. crashes' \in 0..MaxCrashes  BY <1>1, <1>2, BoundAssumption DEF TypeOK
  <2>2. /\ pc' \in [Thread -> Label] /\ made' \in [Process -> SUBSET Slot]
        /\ lost' \in [Process -> SUBSET Slot]
        /\ got' \in [Thread -> Path \cup {NoPath}] /\ buf' \in [Thread -> Plan]
        /\ mgr' \in [Process -> Manager]
        /\ mtx' \in [Process -> Thread \cup {NoThread}]
    BY <1>1, <1>2, NewManagerType, EmptyType DEF TypeOK, Label
  <2>3. flock' \in [File -> Thread \cup {NoThread}]
    BY <1>2 DEF Crash, TypeOK
  <2>4. \A t \in Thread :
          pc'[t] = "ready" => pc[t] = "ready" /\ got'[t] = got[t]
    BY <1>1
  <2> QED
    BY <1>2, <2>1, <2>2, <2>3, <2>4 DEF Crash, TypeOK, request
<1>4. Mutex'
  BY <1>1, <1>2 DEF AInv, TypeOK, Mutex, Critical, Saving, Between, Proc
<1>5. Open'
  BY <1>1, <1>2, ProcessAssumption
  DEF Crash, AInv, TypeOK, Open, Saving, Mgr, Proc, request
<1> QED  BY <1>3, <1>4, <1>5 DEF AInv

\* At first nobody is in the library.
LEMMA InitA == Init => AInv
<1> SUFFICES ASSUME Init PROVE AInv  OBVIOUS
<1>1. DOMAIN disk \subseteq File /\ \A f \in DOMAIN disk : disk[f] \in Plan
  BY FileAssumption DEF Init
<1>2. saved \in [File -> [Slot -> Path \cup {NoPath}]]
  BY <1>1, EmptyType DEF Init, Holds, Plan
<1>3. key \in [Thread -> Key]  BY BoundAssumption DEF Init
<1>4. calls \in 0..MaxCalls /\ crashes \in 0..MaxCrashes
  BY BoundAssumption DEF Init
<1>5. TypeOK
  BY <1>1, <1>2, <1>3, <1>4, EmptyType, NewManagerType, FlagTypes
  DEF Init, TypeOK, Label
<1>6. Mutex /\ Open
  BY DEF Init, Mutex, Open, Critical, Saving, Between
<1> QED  BY <1>5, <1>6 DEF AInv

\* The three are inductive together.
LEMMA NextA == AInv /\ [Next]_vars => AInv'
<1> SUFFICES ASSUME AInv, [Next]_vars PROVE AInv'  OBVIOUS
<1>1. ASSUME NEW t \in Thread, Application(t) PROVE AInv'
  BY <1>1, StartInitA, SetPlanFilePathA, SavePlanA DEF Application
<1>2. ASSUME NEW t \in Thread, Work(t) PROVE AInv'
  BY <1>2, LoadOpenA, LoadLockA, LoadReadA, LoadGetA, MeasureA, SavePutA,
     SaveNowhereA, SaveOpenA, SaveCreateA, SaveLockA, SaveUpdateA, SaveCloseA,
     SavePlanLockA, SavePlanWriteA, SavePlanCloseA
  DEF Work
<1>3. ASSUME NEW p \in Process, Crash(p) PROVE AInv'
  BY <1>3, CrashA
<1>4. CASE UNCHANGED vars
  <2>1. TypeOK'
    BY <1>4 DEF AInv, vars, request, bounds, history, TypeOK
  <2>2. Mutex'
    BY <1>4 DEF AInv, vars, Mutex, Critical, Saving, Between
  <2>3. Open'
    BY <1>4 DEF AInv, vars, request, Open, Saving, Mgr
  <2> QED  BY <2>1, <2>2, <2>3 DEF AInv
<1> QED  BY <1>1, <1>2, <1>3, <1>4 DEF Next

\* In every process, with any number of them: managers, files and buffers hold
\* plans, and a plan that is ready has a path.
THEOREM PlansTyped == Spec => []TypeOK
<1>1. AInv => TypeOK  BY DEF AInv
<1> QED  BY <1>1, InitA, NextA, PTL DEF Spec

\* Loading and storing exclude each other in a process, and savePlan excludes
\* both.
THEOREM MtxProtects == Spec => []Mutex
<1>1. AInv => Mutex  BY DEF AInv
<1> QED  BY <1>1, InitA, NextA, PTL DEF Spec

-----------------------------------------------------------------------------
(* What a single process never loses and never measures twice *)

\* While a thread holds mtx, or nobody does, no other thread is where it should
\* be held.
LEMMA Exclusive ==
  ASSUME NEW p, Process = {p}, AInv, NEW t \in Thread,
         Critical(t) \/ Saving(t) \/ Alone(t) \/ mtx[Proc(t)] = NoThread
  PROVE  \A u \in Thread : u # t => ~Critical(u)
<1> SUFFICES ASSUME NEW u \in Thread, u # t PROVE ~Critical(u)  OBVIOUS
<1>1. Proc(t) = p /\ Proc(u) = p  BY ProcessAssumption DEF Proc
<1>2. CASE Critical(t) \/ mtx[Proc(t)] = NoThread
  BY <1>1, <1>2, FlagTypes DEF AInv, Mutex
<1>3. CASE Saving(t) \/ Alone(t)
  BY <1>1, <1>3 DEF AInv, Mutex, Between, Critical, Alone
<1> QED  BY <1>2, <1>3

\* A thread that does not hold mtx does not mind what the others do.
LEMMA OtherB ==
  ASSUME NEW u \in Thread, ~Critical(u), Flushed(u), Found(u),
         pc'[u] = pc[u], buf'[u] = buf[u], known'[u] = known[u]
  PROVE  Flushed(u)' /\ Found(u)'
  BY DEF Critical, Flushed, Found

\* Nor does one that does, if files and managers stay.
LEMMA SameB ==
  ASSUME NEW u \in Thread, Flushed(u), Found(u), disk' = disk, mgr' = mgr,
         saved' = saved, pc'[u] = pc[u], buf'[u] = buf[u],
         known'[u] = known[u], key'[u] = key[u], got'[u] = got[u]
  PROVE  Flushed(u)' /\ Found(u)'
<1>1. Loadable' = Loadable  BY DEF Loadable, Holds
<1>2. Mgr(u)' = Mgr(u) /\ SlotOf(u)' = SlotOf(u)  BY DEF Mgr, SlotOf
<1>3. Flushed(u)'  BY <1>1, <1>2 DEF Flushed
<1>4. Found(u)'  BY <1>1, <1>2 DEF Found
<1> QED  BY <1>3, <1>4

\* The steps that leave the files and the managers alone
LEMMA QuietB ==
  ASSUME BInv, TypeOK, NEW t \in Thread,
         \/ LoadLock(t) \/ LoadGet(t) \/ \E path \in Path : Measure(t, path)
         \/ SaveLock(t) \/ SavePlanLock(t)
         \/ \E k \in Key, h \in How : StartInit(t, k, h)
  PROVE  BInv'
<1>1. /\ disk' = disk /\ mgr' = mgr /\ saved' = saved /\ known' = known
      /\ buf' = buf
      /\ \A u \in Thread : u # t => /\ pc'[u] = pc[u] /\ key'[u] = key[u]
                                    /\ got'[u] = got[u]
  BY DEF LoadLock, LoadGet, Measure, SaveLock, SavePlanLock, StartInit, Goto,
         TypeOK, request, history
<1>2. SavedStays'  BY <1>1 DEF BInv, SavedStays, Holds
<1>3. \A u \in Thread : u # t => Flushed(u)' /\ Found(u)'
  BY <1>1, SameB DEF BInv
<1>4. Flushed(t)'
  <2>1. pc'[t] \in {"read", "measure", "ready", "save", "update", "awrite",
                    "load"}
    BY DEF LoadLock, LoadGet, Measure, SaveLock, SavePlanLock, StartInit, Goto,
           TypeOK
  <2> QED  BY <2>1 DEF Flushed
<1>5. Found(t)'
  <2>1. CASE LoadLock(t)
    <3>1. pc[t] = "rlock" /\ pc'[t] = "read" /\ key' = key
      BY <2>1 DEF LoadLock, Goto, TypeOK, request
    <3> QED  BY <1>1, <3>1 DEF BInv, Found, Mgr, SlotOf
  <2>2. CASE LoadGet(t)
    <3>1. /\ pc[t] = "get"
          /\ pc'[t] = IF Mgr(t).plan.path[SlotOf(t)] = NoPath
                      THEN "measure" ELSE "ready"
      BY <2>2 DEF LoadGet, Goto, TypeOK
    <3> QED  BY <1>1, <3>1 DEF BInv, Found
  <2>3. CASE ~LoadLock(t) /\ ~LoadGet(t)
    <3>1. pc'[t] \in {"ready", "save", "update", "awrite", "load"}
      BY <2>3 DEF Measure, SaveLock, SavePlanLock, StartInit, Goto, TypeOK
    <3> QED  BY <3>1 DEF Found
  <2> QED  BY <2>1, <2>2, <2>3
<1> QED  BY <1>2, <1>3, <1>4, <1>5 DEF BInv

\* The steps that change the manager while no other thread looks at it; none of
\* these threads is about to look a path up or to flush one.
LEMMA PutB ==
  ASSUME NEW p, Process = {p}, AInv, BInv, NEW t \in Thread,
         \/ SavePut(t) \/ SaveNowhere(t) \/ SavePlanWrite(t)
         \/ \E s \in Settings : SetPlanFilePath(t, s)
  PROVE  BInv'
<1>1. /\ disk' = disk /\ saved' = saved /\ known' = known
      /\ \A u \in Thread : u # t =>
           /\ pc'[u] = pc[u] \/ pc'[u] = "idle"
           /\ buf'[u] = buf[u]
  BY DEF SavePut, SaveNowhere, SavePlanWrite, SetPlanFilePath, Goto, AInv,
         TypeOK, history
<1>2. SavedStays'  BY <1>1 DEF BInv, SavedStays, Holds
<1>3. ASSUME NEW u \in Thread, u # t
      PROVE  Flushed(u)' /\ Found(u)'
  <2>1. ~Critical(u)
    BY <1>3, Exclusive
    DEF SavePut, SaveNowhere, SavePlanWrite, SetPlanFilePath, Saving
  <2>2. CASE pc'[u] = "idle"  BY <2>2 DEF Flushed, Found
  <2>3. CASE pc'[u] = pc[u]
    BY <1>1, <1>3, <2>1, <2>3, OtherB DEF BInv
  <2> QED  BY <1>1, <1>3, <2>2, <2>3
<1>4. Flushed(t)' /\ Found(t)'
  <2>1. CASE SavePlanWrite(t)
    <3>1. pc'[t] = "aclose" /\ buf'[t] = [Mgr(t).plan EXCEPT !.id = TRUE]
      BY <2>1 DEF SavePlanWrite, Goto, AInv, TypeOK
    <3>2. Mgr(t).plan \in Plan  BY Types DEF AInv
    <3>3. buf'[t].id = TRUE  BY <3>1, <3>2 DEF Plan
    <3> QED  BY <3>1, <3>3 DEF Flushed, Found
  <2>2. CASE ~SavePlanWrite(t)
    <3>1. pc'[t] \in {"ready", "idle"}
      BY <2>2 DEF SavePut, SaveNowhere, SetPlanFilePath, Goto, AInv, TypeOK
    <3> QED  BY <3>1 DEF Flushed, Found
  <2> QED  BY <2>1, <2>2
<1> QED  BY <1>2, <1>3, <1>4 DEF BInv

\* A path that is saved is in a file that is there.
LEMMA LoadOpenB ==
  ASSUME NEW p, Process = {p}, AInv, BInv, NEW t \in Thread, LoadOpen(t)
  PROVE  BInv'
<1> PICK m : m = Refer(Mgr(t))  OBVIOUS
<1>1. /\ disk' = disk /\ saved' = saved /\ buf' = buf /\ key' = key
      /\ mtx[Proc(t)] = NoThread
      /\ mgr' = [mgr EXCEPT ![Proc(t)] = m]
      /\ pc' = [pc EXCEPT ![t] = IF m.file \notin DOMAIN disk THEN "get"
                                 ELSE IF Locking(m) THEN "rlock" ELSE "read"]
      /\ known' = [known EXCEPT ![t] =
           m.file \in File /\ saved[m.file][<<m.id, key[t]>>] # NoPath]
  BY DEF LoadOpen, TakeMtx, Load, SetMgr, Goto, request
<1>2. SavedStays'  BY <1>1 DEF BInv, SavedStays, Holds
<1>3. ASSUME NEW u \in Thread, u # t
      PROVE  Flushed(u)' /\ Found(u)'
  <2>1. ~Critical(u)  BY <1>1, <1>3, Exclusive
  <2> QED  BY <1>1, <1>3, <2>1, OtherB DEF BInv, AInv, TypeOK
<1>4. Flushed(t)'  BY <1>1 DEF AInv, TypeOK, Flushed
<1>5. Found(t)'
  <2>1. Mgr(t)' = m /\ SlotOf(t)' = <<m.id, key[t]>>
    BY <1>1, Types DEF AInv, TypeOK, Mgr, SlotOf, Proc
  <2>2. <<m.id, key[t]>> \in Slot
    BY Types, ReferType DEF AInv, TypeOK, Manager, Slot
  <2>3. CASE m.file \notin DOMAIN disk
    <3>1. ~(m.file \in File /\ saved[m.file][<<m.id, key[t]>>] # NoPath)
      BY <2>2, <2>3 DEF BInv, SavedStays, Holds
    <3>2. known'[t] = FALSE  BY <1>1, <3>1 DEF AInv, TypeOK
    <3> QED  BY <3>2 DEF Found
  <2>4. CASE m.file \in DOMAIN disk
    <3>1. pc'[t] \in {"rlock", "read"}  BY <1>1, <2>4 DEF AInv, TypeOK
    <3>2. known'[t] => saved[m.file][<<m.id, key[t]>>] # NoPath
      BY <1>1 DEF AInv, TypeOK
    <3> QED  BY <1>1, <2>1, <3>1, <3>2 DEF Found
  <2> QED  BY <2>3, <2>4
<1> QED  BY <1>2, <1>3, <1>4, <1>5 DEF BInv

\* And reading that file gets it into memory.
LEMMA LoadReadB ==
  ASSUME NEW p, Process = {p}, AInv, BInv, NEW t \in Thread, LoadRead(t)
  PROVE  BInv'
<1> PICK m : m = Read(Mgr(t), disk[Mgr(t).file])  OBVIOUS
<1>1. /\ disk' = disk /\ saved' = saved /\ buf' = buf /\ key' = key
      /\ known' = known /\ pc[t] = "read"
      /\ mgr' = [mgr EXCEPT ![Proc(t)] = m]
      /\ pc' = [pc EXCEPT ![t] = "get"]
  BY DEF LoadRead, Load, SetMgr, Goto, request, history
<1>2. SavedStays'  BY <1>1 DEF BInv, SavedStays, Holds
<1>3. ASSUME NEW u \in Thread, u # t
      PROVE  Flushed(u)' /\ Found(u)'
  <2>1. ~Critical(u)  BY <1>1, <1>3, Exclusive DEF Critical
  <2> QED  BY <1>1, <1>3, <2>1, OtherB DEF BInv, AInv, TypeOK
<1>4. Flushed(t)'  BY <1>1 DEF AInv, TypeOK, Flushed
<1>5. Found(t)'
  <2> SUFFICES ASSUME known[t]
               PROVE  Mgr(t)'.plan.path[SlotOf(t)'] # NoPath
    BY <1>1 DEF AInv, TypeOK, Found
  <2>1. /\ Mgr(t) \in Manager /\ Mgr(t).file \in File /\ SlotOf(t) \in Slot
        /\ disk[Mgr(t).file] \in Plan
    BY <1>1, Types DEF AInv, TypeOK, Open
  <2>2. m.id = Mgr(t).id
        /\ m.plan = IF disk[Mgr(t).file].id THEN disk[Mgr(t).file]
                    ELSE Mgr(t).plan
    BY <2>1, ReadType
  <2>3. Mgr(t)' = m /\ SlotOf(t)' = SlotOf(t)
    BY <1>1, <2>2, Types DEF AInv, TypeOK, Mgr, SlotOf, Proc
  <2>4. saved[Mgr(t).file][SlotOf(t)] # NoPath  BY <1>1 DEF BInv, Found
  <2>5. /\ disk[Mgr(t).file].id
        /\ disk[Mgr(t).file].path[SlotOf(t)] # NoPath
    BY <2>1, <2>4 DEF BInv, SavedStays, Holds
  <2> QED  BY <2>2, <2>3, <2>5
<1> QED  BY <1>2, <1>3, <1>4, <1>5 DEF BInv

\* A file is to be created only if it is not there: mtx keeps it so.
LEMMA SaveOpenB ==
  ASSUME NEW p, Process = {p}, AInv, BInv, NEW t \in Thread, SaveOpen(t)
  PROVE  BInv'
<1> PICK m : m = Refer(Mgr(t))  OBVIOUS
<1>1. /\ disk' = disk /\ saved' = saved /\ buf' = buf /\ known' = known
      /\ mtx[Proc(t)] = NoThread
      /\ mgr' = [mgr EXCEPT ![Proc(t)] = m]
      /\ pc' = [pc EXCEPT ![t] = IF m.file \notin DOMAIN disk THEN "create"
                                 ELSE IF Locking(m) THEN "slock" ELSE "update"]
  BY DEF SaveOpen, TakeMtx, SetMgr, Goto, history
<1>2. SavedStays'  BY <1>1 DEF BInv, SavedStays, Holds
<1>3. ASSUME NEW u \in Thread, u # t
      PROVE  Flushed(u)' /\ Found(u)'
  <2>1. ~Critical(u)  BY <1>1, <1>3, Exclusive
  <2> QED  BY <1>1, <1>3, <2>1, OtherB DEF BInv, AInv, TypeOK
<1>4. Mgr(t)' = m
  BY <1>1, Types DEF AInv, TypeOK, Mgr, Proc
<1>5. Flushed(t)' /\ Found(t)'
  BY <1>1, <1>4 DEF AInv, TypeOK, Flushed, Found
<1> QED  BY <1>2, <1>3, <1>5 DEF BInv

\* Where the file is created there was none: nothing that was saved is lost.
LEMMA SaveCreateB ==
  ASSUME NEW p, Process = {p}, AInv, BInv, NEW t \in Thread, SaveCreate(t)
  PROVE  BInv' /\ Loadable' = Loadable
<1> PICK f : f = Mgr(t).file  OBVIOUS
<1>1. /\ Write(f, Empty) /\ saved' = saved /\ buf' = buf /\ known' = known
      /\ pc[t] = "create" /\ f \in File /\ f \notin DOMAIN disk
      /\ pc' = [pc EXCEPT ![t] = IF Locking(Mgr(t)) THEN "slock" ELSE "update"]
  BY DEF SaveCreate, Goto, history, AInv, Open, BInv, Flushed
<1>2. /\ DOMAIN disk' = DOMAIN disk \cup {f} /\ disk'[f] = Empty
      /\ \A g \in DOMAIN disk : disk'[g] = disk[g]
  BY <1>1, WriteType, EmptyType DEF AInv
<1>3. \A g \in File : Holds(g)' <=> Holds(g)
  BY <1>1, <1>2 DEF Holds, Empty
<1>4. SavedStays'
  BY <1>1, <1>2, <1>3 DEF BInv, SavedStays, Holds
<1>5. Loadable' = Loadable
  BY <1>2, <1>3 DEF Loadable, Holds
<1>6. ASSUME NEW u \in Thread, u # t
      PROVE  Flushed(u)' /\ Found(u)'
  <2>1. ~Critical(u)  BY <1>1, <1>6, Exclusive DEF Critical
  <2> QED  BY <1>1, <1>6, <2>1, OtherB DEF BInv, AInv, TypeOK
<1>7. Flushed(t)' /\ Found(t)'
  BY <1>1 DEF AInv, TypeOK, Flushed, Found
<1> QED  BY <1>4, <1>5, <1>6, <1>7 DEF BInv

\* What is written is what the file had, with the new path.
LEMMA SaveUpdateB ==
  ASSUME NEW p, Process = {p}, AInv, BInv, NEW t \in Thread, SaveUpdate(t)
  PROVE  BInv'
<1> PICK m : m = Updated(Mgr(t), disk[Mgr(t).file], SlotOf(t), got[t])
  OBVIOUS
<1>1. /\ disk' = disk /\ saved' = saved /\ key' = key /\ known' = known
      /\ got' = got /\ pc[t] = "update" /\ buf' = [buf EXCEPT ![t] = m.plan]
      /\ mgr' = [mgr EXCEPT ![Proc(t)] = m]
      /\ pc' = [pc EXCEPT ![t] = "close"]
  BY DEF SaveUpdate, SetMgr, Goto, request, history
<1>2. SavedStays'  BY <1>1 DEF BInv, SavedStays, Holds
<1>3. ASSUME NEW u \in Thread, u # t
      PROVE  Flushed(u)' /\ Found(u)'
  <2>1. ~Critical(u)  BY <1>1, <1>3, Exclusive DEF Critical
  <2> QED  BY <1>1, <1>3, <2>1, OtherB DEF BInv, AInv, TypeOK
<1>4. Found(t)'  BY <1>1 DEF AInv, TypeOK, Found
<1>5. Flushed(t)'
  <2>1. /\ Mgr(t) \in Manager /\ Mgr(t).file \in DOMAIN disk
        /\ Mgr(t).file \in File /\ SlotOf(t) \in Slot
        /\ disk[Mgr(t).file] \in Plan /\ got[t] \in Path
    BY <1>1, Types DEF AInv, TypeOK, Open
  <2>2. m.id = Mgr(t).id /\ m.file = Mgr(t).file
    BY <2>1, UpdatedType
  <2>3. /\ m.plan.id = TRUE
        /\ m.plan.path[SlotOf(t)] = got[t]
        /\ disk[Mgr(t).file].id => \A s \in Slot : s # SlotOf(t) =>
             m.plan.path[s] = disk[Mgr(t).file].path[s]
    <3>1. PICK base \in Plan :
            /\ disk[Mgr(t).file].id = TRUE =>
                 base.path = disk[Mgr(t).file].path
            /\ base.id = TRUE
            /\ m.plan = Put(base, SlotOf(t), got[t])
      BY <2>1, UpdatedPlan
    <3> QED  BY <2>1, <3>1, PutType
  <2>4. Mgr(t)' = m /\ SlotOf(t)' = SlotOf(t)
    BY <1>1, <2>2, Types DEF AInv, TypeOK, Mgr, SlotOf, Proc
  <2>5. buf'[t] = m.plan  BY <1>1 DEF AInv, TypeOK
  <2>6. Loadable' = Loadable  BY <1>1 DEF Loadable, Holds
  <2>7. \A s \in Slot : s # SlotOf(t) =>
          Loadable[Mgr(t).file][s] \in {NoPath, m.plan.path[s]}
    BY <2>1, <2>3 DEF Loadable, Holds, NoPlan
  <2> QED
    BY <1>1, <2>2, <2>3, <2>4, <2>5, <2>6, <2>7 DEF AInv, TypeOK, Flushed
<1> QED  BY <1>2, <1>3, <1>4, <1>5 DEF BInv

\* What it is after fclose, and what that is for a user of the file
LEMMA SaveCloseB ==
  ASSUME NEW p, Process = {p}, AInv, BInv, NEW t \in Thread, SaveClose(t)
  PROVE  /\ BInv'
         /\ \E f \in File, S \in SUBSET Slot : \E paths \in [S -> Path] :
              Store!Record(f, paths)
<1> PICK f : f = Mgr(t).file  OBVIOUS
<1> PICK s : s = SlotOf(t)  OBVIOUS
<1>1. /\ Write(f, buf[t]) /\ buf' = [buf EXCEPT ![t] = Empty]
      /\ pc[t] = "close" /\ pc' = [pc EXCEPT ![t] = "ready"]
      /\ saved' = [saved EXCEPT ![f][s] = got[t]] /\ known' = known
  BY DEF SaveClose, Goto
<1>2. /\ f \in File /\ s \in Slot /\ got[t] \in Path /\ buf[t] \in Plan
      /\ buf[t].path \in [Slot -> Path \cup {NoPath}]
      /\ saved \in [File -> [Slot -> Path \cup {NoPath}]]
  BY <1>1, Types DEF AInv, TypeOK, Open, Plan
<1>3. /\ DOMAIN disk' = DOMAIN disk \cup {f} /\ disk'[f] = buf[t]
      /\ \A g \in DOMAIN disk : g # f => disk'[g] = disk[g]
  BY <1>1, <1>2, WriteType DEF AInv
<1>4. /\ buf[t].id = TRUE
      /\ buf[t].path[s] = got[t]
      /\ \A r \in Slot : r # s => Loadable[f][r] \in {NoPath, buf[t].path[r]}
  BY <1>1 DEF BInv, Flushed
<1>5. /\ Holds(f)'
      /\ \A g \in File : g # f => (Holds(g)' <=> Holds(g))
  BY <1>3, <1>4 DEF Holds
<1>6. Loadable' = [Loadable EXCEPT ![f] = buf[t].path]
  BY <1>2, <1>3, <1>5 DEF Loadable, Holds
<1>7. SavedStays'
  <2> SUFFICES ASSUME NEW g \in File, NEW r \in Slot, saved'[g][r] # NoPath
               PROVE  Holds(g)' /\ disk'[g].path[r] = saved'[g][r]
    BY DEF SavedStays, Holds
  <2>1. CASE g # f
    <3>1. saved'[g][r] = saved[g][r]  BY <1>1, <1>2, <2>1
    <3>2. Holds(g) /\ disk[g].path[r] = saved[g][r]
      BY <3>1 DEF BInv, SavedStays
    <3> QED  BY <1>3, <1>5, <2>1, <3>1, <3>2 DEF Holds
  <2>2. CASE g = f /\ r = s
    <3>1. saved'[f][s] = got[t]  BY <1>1, <1>2
    <3> QED  BY <1>3, <1>4, <1>5, <2>2, <3>1
  <2>3. CASE g = f /\ r # s
    <3>1. saved'[f][r] = saved[f][r]  BY <1>1, <1>2, <2>3
    <3>2. Holds(f) /\ disk[f].path[r] = saved[f][r]
      BY <2>3, <3>1 DEF BInv, SavedStays
    <3>3. Loadable[f][r] = saved[f][r]  BY <1>2, <3>2 DEF Loadable
    <3> QED  BY <1>3, <1>4, <1>5, <2>3, <3>1, <3>3
  <2> QED  BY <2>1, <2>2, <2>3
<1>8. ASSUME NEW u \in Thread, u # t
      PROVE  Flushed(u)' /\ Found(u)'
  <2>1. ~Critical(u)  BY <1>1, <1>8, Exclusive DEF Critical
  <2> QED  BY <1>1, <1>8, <2>1, OtherB DEF BInv, AInv, TypeOK
<1>9. Flushed(t)' /\ Found(t)'
  BY <1>1 DEF AInv, TypeOK, Flushed, Found
<1>10. \E S \in SUBSET Slot : \E paths \in [S -> Path] : Store!Record(f, paths)
  <2> DEFINE S == {r \in Slot : buf[t].path[r] # NoPath}
             paths == [r \in S |-> buf[t].path[r]]
  <2>1. paths \in [S -> Path]  BY <1>2
  <2>2. [r \in Slot |-> IF r \in DOMAIN paths THEN paths[r] ELSE Loadable[f][r]]
          = buf[t].path
    <3>1. \A r \in Slot \ S : Loadable[f][r] = NoPath
      BY <1>2, <1>4, FlagTypes
    <3>2. \A r \in Slot :
            (IF r \in DOMAIN paths THEN paths[r] ELSE Loadable[f][r])
              = buf[t].path[r]
      BY <3>1
    <3> QED  BY <1>2, <3>2
  <2>3. Loadable' = [Loadable EXCEPT ![f] =
          [r \in Slot |-> IF r \in DOMAIN paths THEN paths[r] ELSE @[r]]]
    BY <1>2, <1>6, <2>2 DEF Loadable
  <2> HIDE DEF paths, S
  <2>4. Store!Record(f, paths)  BY <2>3 DEF Store!Record
  <2> QED  BY <2>1, <2>4 DEF S
<1> QED  BY <1>2, <1>7, <1>8, <1>9, <1>10 DEF BInv

\* The application empties a file and writes it anew.
LEMMA SavePlanB ==
  ASSUME NEW p, Process = {p}, AInv, BInv, NEW t \in Thread,
         NEW f \in Targets, SavePlan(t, f)
  PROVE  BInv'
<1>1. /\ Write(f, Empty) /\ buf' = buf /\ known' = known
      /\ pc' = [pc EXCEPT ![t] = "alock"] /\ Alone(t)
      /\ saved' = [saved EXCEPT ![f] = NoPlan]
  BY DEF SavePlan, Goto
<1>2. f \in File /\ saved \in [File -> [Slot -> Path \cup {NoPath}]]
  BY FileAssumption DEF AInv, TypeOK
<1>3. /\ DOMAIN disk' = DOMAIN disk \cup {f}
      /\ \A g \in DOMAIN disk : g # f => disk'[g] = disk[g]
  BY <1>1, <1>2, WriteType, EmptyType DEF AInv
<1>4. SavedStays'
  <2> SUFFICES ASSUME NEW g \in File, NEW r \in Slot, saved'[g][r] # NoPath
               PROVE  Holds(g)' /\ disk'[g].path[r] = saved'[g][r]
    BY DEF SavedStays, Holds
  <2>1. g # f  BY <1>1, <1>2 DEF NoPlan
  <2>2. saved'[g][r] = saved[g][r]  BY <1>1, <1>2, <2>1
  <2>3. Holds(g) /\ disk[g].path[r] = saved[g][r]
    BY <2>2 DEF BInv, SavedStays
  <2> QED  BY <1>3, <2>1, <2>2, <2>3 DEF Holds
<1>5. ASSUME NEW u \in Thread, u # t
      PROVE  Flushed(u)' /\ Found(u)'
  <2>1. ~Critical(u)  BY <1>1, <1>5, Exclusive
  <2> QED  BY <1>1, <1>5, <2>1, OtherB DEF BInv, AInv, TypeOK
<1>6. Flushed(t)' /\ Found(t)'
  BY <1>1 DEF AInv, TypeOK, Flushed, Found
<1> QED  BY <1>4, <1>5, <1>6 DEF BInv

\* What savePlan flushed is saved, and nothing else in the file is.
LEMMA SavePlanCloseB ==
  ASSUME NEW p, Process = {p}, AInv, BInv, NEW t \in Thread, SavePlanClose(t)
  PROVE  BInv'
<1> PICK f : f = target[t]  OBVIOUS
<1>1. /\ Write(f, buf[t]) /\ buf' = [buf EXCEPT ![t] = Empty]
      /\ known' = known /\ pc[t] = "aclose" /\ Saving(t)
      /\ pc' = [pc EXCEPT ![t] = "idle"]
      /\ saved' = [saved EXCEPT ![f] = buf[t].path]
  BY DEF SavePlanClose, Goto, Saving
<1>2. /\ f \in File /\ saved \in [File -> [Slot -> Path \cup {NoPath}]]
      /\ buf[t] \in Plan /\ buf[t].id = TRUE
  BY <1>1, FileAssumption DEF AInv, TypeOK, Open, BInv, Flushed
<1>3. /\ DOMAIN disk' = DOMAIN disk \cup {f} /\ disk'[f] = buf[t]
      /\ \A g \in DOMAIN disk : g # f => disk'[g] = disk[g]
  BY <1>1, <1>2, WriteType DEF AInv
<1>4. SavedStays'
  <2> SUFFICES ASSUME NEW g \in File, NEW r \in Slot, saved'[g][r] # NoPath
               PROVE  Holds(g)' /\ disk'[g].path[r] = saved'[g][r]
    BY DEF SavedStays, Holds
  <2>1. CASE g = f  BY <1>1, <1>2, <1>3, <2>1 DEF Holds
  <2>2. CASE g # f
    <3>1. saved'[g][r] = saved[g][r]  BY <1>1, <1>2, <2>2
    <3>2. Holds(g) /\ disk[g].path[r] = saved[g][r]
      BY <3>1 DEF BInv, SavedStays
    <3> QED  BY <1>3, <2>2, <3>1, <3>2 DEF Holds
  <2> QED  BY <2>1, <2>2
<1>5. ASSUME NEW u \in Thread, u # t
      PROVE  Flushed(u)' /\ Found(u)'
  <2>1. ~Critical(u)  BY <1>1, <1>5, Exclusive
  <2> QED  BY <1>1, <1>5, <2>1, OtherB DEF BInv, AInv, TypeOK
<1>6. Flushed(t)' /\ Found(t)'
  BY <1>1 DEF AInv, TypeOK, Flushed, Found
<1> QED  BY <1>4, <1>5, <1>6 DEF BInv

\* A process that dies leaves the files as they are.
LEMMA CrashB ==
  ASSUME NEW p, Process = {p}, AInv, BInv, Crash(p)
  PROVE  BInv'
<1>1. \A t \in Thread : Proc(t) = p  BY ProcessAssumption DEF Proc
<1>2. disk' = disk /\ saved' = saved /\ \A t \in Thread : pc'[t] = "idle"
  BY <1>1 DEF Crash
<1>3. SavedStays'  BY <1>2 DEF BInv, SavedStays, Holds
<1> QED  BY <1>2, <1>3 DEF BInv, Flushed, Found

\* At first just what the files hold is saved.
LEMMA InitB == Init => BInv
<1> SUFFICES ASSUME Init PROVE BInv  OBVIOUS
<1>1. SavedStays
  BY DEF Init, SavedStays, Holds, NoPlan
<1>2. \A t \in Thread : pc[t] = "idle"  BY DEF Init
<1> QED  BY <1>1, <1>2 DEF BInv, Flushed, Found

\* In one process the invariant is inductive, given types and mtx.
LEMMA NextB ==
  ASSUME NEW p, Process = {p}
  PROVE  AInv /\ BInv /\ [Next]_vars => BInv'
<1> SUFFICES ASSUME AInv, BInv, [Next]_vars PROVE BInv'  OBVIOUS
<1>1. TypeOK  BY DEF AInv
<1>2. ASSUME NEW t \in Thread, Application(t) PROVE BInv'
  BY <1>1, <1>2, QuietB, PutB, SavePlanB DEF Application
<1>3. ASSUME NEW t \in Thread, Work(t) PROVE BInv'
  BY <1>1, <1>3, QuietB, PutB, LoadOpenB, LoadReadB, SaveOpenB, SaveCreateB,
     SaveUpdateB, SaveCloseB, SavePlanCloseB
  DEF Work
<1>4. ASSUME NEW q \in Process, Crash(q) PROVE BInv'
  BY <1>4, CrashB
<1>5. CASE UNCHANGED vars
  <2>1. SavedStays'
    BY <1>5 DEF BInv, vars, history, SavedStays, Holds
  <2>2. \A t \in Thread : Flushed(t)' /\ Found(t)'
    BY <1>5, SameB DEF BInv, vars, request, history
  <2> QED  BY <2>1, <2>2 DEF BInv
<1> QED  BY <1>2, <1>3, <1>4, <1>5 DEF Next

\* However many threads store paths next to each other and whenever the process
\* dies, a path that was stored stays in its file.
THEOREM NothingIsLost ==
  ASSUME NEW p, Process = {p}
  PROVE  Spec => []SavedStays
<1>1. BInv => SavedStays  BY DEF BInv
<1> QED  BY <1>1, InitA, NextA, InitB, NextB, PTL DEF Spec

\* And what was in the plan file when it was looked for is not measured again.
THEOREM NothingIsMeasuredTwice ==
  ASSUME NEW p, Process = {p}
  PROVE  Spec => []NotRegenerated
<1>1. BInv => NotRegenerated  BY DEF BInv, Found, NotRegenerated
<1> QED  BY <1>1, InitA, NextA, InitB, NextB, PTL DEF Spec

\* For a user of the files each step is nothing, or some paths are recorded.
LEMMA StoreStep ==
  ASSUME NEW p, Process = {p}, Targets = {}, AInv, BInv, [Next]_vars
  PROVE  [Store!Next]_Loadable
<1>1. \/ disk' = disk
      \/ \E t \in Thread : SaveCreate(t) \/ SaveClose(t) \/ SavePlanClose(t)
      \/ \E t \in Thread, f \in Targets : SavePlan(t, f)
  BY DEF Next, vars, Application, Work, StartInit, SetPlanFilePath, LoadOpen,
         LoadLock, LoadRead, LoadGet, Measure, SavePut, SaveNowhere, SaveOpen,
         SaveLock, SaveUpdate, SavePlanLock, SavePlanWrite, Crash
<1>2. CASE disk' = disk  BY <1>2 DEF Loadable, Holds
<1>3. ASSUME NEW t \in Thread, SaveCreate(t) PROVE [Store!Next]_Loadable
  BY <1>3, SaveCreateB
<1>4. ASSUME NEW t \in Thread, SaveClose(t) PROVE [Store!Next]_Loadable
  BY <1>4, SaveCloseB DEF Store!Next
<1>5. ASSUME NEW t \in Thread PROVE ~SavePlanClose(t)
  BY DEF SavePlanClose, AInv, Open, Saving
<1> QED  BY <1>1, <1>2, <1>3, <1>4, <1>5

\* If the application does not empty files with savePlan, a file only ever gets
\* paths recorded in it: the files implement the store.
THEOREM FilesImplementStore ==
  ASSUME NEW p, Process = {p}, Targets = {}
  PROVE  Spec => ImplementsStore
<1>1. Init => Store!Init
  <2> SUFFICES ASSUME Init PROVE Store!Init  OBVIOUS
  <2>1. TypeOK  BY InitA DEF AInv
  <2>2. Loadable \in [File -> [Slot -> Path \cup {NoPath}]]
    BY <2>1, EmptyType DEF TypeOK, Loadable, Holds, Plan
  <2> QED  BY <2>2 DEF Store!Init
<1>2. AInv /\ BInv /\ [Next]_vars => [Store!Next]_Loadable
  BY StoreStep
<1> QED
  BY <1>1, <1>2, InitA, NextA, InitB, NextB, PTL
  DEF Spec, ImplementsStore, Store!Spec

-----------------------------------------------------------------------------
(* What a single thread finds in its file *)

\* The conditions: one thread, in one process; no SLEEFDFTPLAN; and memory is
\* cleared before a new file is chosen.
SingleThread(t) ==
  /\ Thread = {t} /\ Process = {Proc(t)}
  /\ EnvFile = NoFile /\ ResetOnSwitch

\* Where the files and the manager stay, and no plan gets ready.
LEMMA QuietC ==
  ASSUME NEW t, SingleThread(t), AInv, CInv,
         \/ LoadOpen(t) \/ LoadLock(t) \/ SaveNowhere(t) \/ SaveOpen(t)
         \/ SaveLock(t) \/ SavePlanLock(t)
         \/ \E k \in Key, h \in How : StartInit(t, k, h)
         \/ \E path \in Path : Measure(t, path)
  PROVE  CInv'
<1>1. t \in Thread /\ \A u \in Thread : u = t  BY DEF SingleThread
<1>2. Refer(Mgr(t)) = Mgr(t)
  BY <1>1, Types, ReferType DEF SingleThread, AInv
<1>3. disk' = disk /\ mgr' = mgr
  BY <1>1, <1>2, Types DEF LoadOpen, LoadLock, SaveNowhere, SaveOpen, SaveLock,
     SavePlanLock, StartInit, Measure, Load, SetMgr, Mgr, AInv, TypeOK
<1>4. Mgr(t)' = Mgr(t)  BY <1>3 DEF Mgr
<1>5. ReadyIsStored'
  <2>1. CASE SaveNowhere(t)
    <3>1. Mgr(t).file = NoFile  BY <1>2, <2>1 DEF SaveNowhere
    <3> QED  BY <1>1, <1>4, <3>1 DEF ReadyIsStored
  <2>2. CASE ~SaveNowhere(t)
    <3>1. pc'[t] # "ready" \/ how'[t] # "measure"
      BY <1>1, <2>2 DEF LoadOpen, LoadLock, SaveOpen, SaveLock, SavePlanLock,
         StartInit, Measure, Goto, AInv, TypeOK, request
    <3> QED  BY <1>1, <3>1 DEF ReadyIsStored
  <2> QED  BY <2>1, <2>2
<1>6. Backed'
  <2>1. Holds(Mgr(t).file)' <=> Holds(Mgr(t).file)  BY <1>3, <1>4 DEF Holds
  <2>2. pc[t] # "close"
    BY DEF LoadOpen, LoadLock, SaveNowhere, SaveOpen, SaveLock, SavePlanLock,
       StartInit, Measure, Between
  <2>3. Saving(t) => Saving(t)' /\ target'[t] = target[t]
    BY <1>1 DEF LoadOpen, LoadLock, SaveNowhere, SaveOpen, SaveLock,
       SavePlanLock, StartInit, Measure, Goto, AInv, TypeOK, request, Saving,
       Between
  <2>4. pc'[t] = "get" => ~Holds(Mgr(t).file)
    BY <1>1, <1>2 DEF LoadOpen, LoadLock, SaveNowhere, SaveOpen, SaveLock,
       SavePlanLock, StartInit, Measure, Goto, AInv, TypeOK, Holds
  <2> QED
    BY <1>1, <1>4, <2>1, <2>2, <2>3, <2>4 DEF CInv, Backed
<1> QED  BY <1>5, <1>6 DEF CInv

\* After reading, memory and plan file agree.
LEMMA LoadReadC ==
  ASSUME NEW t, SingleThread(t), AInv, CInv, LoadRead(t)
  PROVE  CInv'
<1>1. t \in Thread /\ \A u \in Thread : u = t  BY DEF SingleThread
<1> PICK m : m = Read(Mgr(t), disk[Mgr(t).file])  OBVIOUS
<1>2. /\ disk' = disk /\ pc[t] = "read" /\ pc'[t] = "get" /\ Mgr(t)' = m
  BY <1>1, Types DEF LoadRead, Goto, Load, SetMgr, Mgr, Proc, AInv, TypeOK
<1>3. /\ Mgr(t) \in Manager /\ disk[Mgr(t).file] \in Plan
      /\ Mgr(t).file \in DOMAIN disk
  BY <1>1, <1>2, Types DEF AInv, TypeOK, Open
<1>4. /\ m.file = Mgr(t).file /\ m.mode = Mgr(t).mode
      /\ m.plan = IF disk[Mgr(t).file].id THEN disk[Mgr(t).file]
                  ELSE Mgr(t).plan
  BY <1>3, ReadType
<1>5. ReadyIsStored'  BY <1>1, <1>2 DEF ReadyIsStored
<1>6. Backed'
  <2>1. Holds(m.file)' <=> disk[Mgr(t).file].id
    BY <1>2, <1>3, <1>4 DEF Holds
  <2>2. "AUTOMATIC" \in m.mode /\ m.file # NoFile =>
          Holds(Mgr(t).file) \/ Mgr(t).plan.path = NoPlan
    BY <1>1, <1>2, <1>4 DEF CInv, Backed, Saving
  <2>3. "AUTOMATIC" \in m.mode /\ m.file # NoFile =>
          Holds(m.file)' \/ m.plan.path = NoPlan
    BY <1>3, <1>4, <2>1, <2>2 DEF Holds
  <2>4. Holds(m.file)' => m.plan.path = disk'[m.file].path
    BY <1>2, <1>4, <2>1
  <2> QED  BY <1>1, <1>2, <2>3, <2>4 DEF Backed
<1> QED  BY <1>5, <1>6 DEF CInv

\* A path that is looked up successfully is in the file.
LEMMA LoadGetC ==
  ASSUME NEW t, SingleThread(t), AInv, CInv, LoadGet(t)
  PROVE  CInv'
<1>1. t \in Thread /\ \A u \in Thread : u = t  BY DEF SingleThread
<1> PICK m : m = Mgr(t)  OBVIOUS
<1> PICK s : s = SlotOf(t)  OBVIOUS
<1>2. /\ disk' = disk /\ pc[t] = "get" /\ Mgr(t)' = m /\ SlotOf(t)' = s
      /\ pc'[t] = IF m.plan.path[s] = NoPath THEN "measure" ELSE "ready"
      /\ got'[t] = m.plan.path[s]
  BY <1>1 DEF LoadGet, Goto, Mgr, SlotOf, AInv, TypeOK, request
<1>3. m.plan.path[s] # NoPath => m.plan.path # NoPlan
  BY <1>1, Types DEF NoPlan, AInv
<1>4. Holds(m.file)' <=> Holds(m.file)  BY <1>2 DEF Holds
<1>5. ReadyIsStored'
  BY <1>1, <1>2, <1>3, <1>4 DEF ReadyIsStored, CInv, Backed, Saving
<1>6. Backed'
  BY <1>1, <1>2, <1>4 DEF CInv, Backed, Saving
<1> QED  BY <1>5, <1>6 DEF CInv

\* Without AUTOMATIC nothing is said of the file.
LEMMA SavePutC ==
  ASSUME NEW t, SingleThread(t), AInv, CInv, SavePut(t)
  PROVE  CInv'
<1>1. t \in Thread /\ \A u \in Thread : u = t  BY DEF SingleThread
<1>2. "AUTOMATIC" \notin Mgr(t).mode /\ Mgr(t)'.mode = Mgr(t).mode
  BY <1>1, Types DEF SavePut, SetMgr, Mgr, Proc, AInv, TypeOK, Manager
<1> QED  BY <1>1, <1>2 DEF CInv, ReadyIsStored, Backed

\* The file was missing, so there is nothing in memory.
LEMMA SaveCreateC ==
  ASSUME NEW t, SingleThread(t), AInv, BInv, CInv, SaveCreate(t)
  PROVE  CInv'
<1>1. t \in Thread /\ \A u \in Thread : u = t  BY DEF SingleThread
<1>2. /\ pc[t] = "create" /\ pc'[t] \in {"slock", "update"} /\ mgr' = mgr
      /\ Mgr(t).file \notin DOMAIN disk /\ Mgr(t)' = Mgr(t)
  BY <1>1 DEF SaveCreate, Goto, Mgr, AInv, TypeOK, BInv, Flushed
<1>3. ReadyIsStored'  BY <1>1, <1>2 DEF ReadyIsStored
<1>4. ~Holds(Mgr(t).file)  BY <1>2 DEF Holds
<1>5. Backed'  BY <1>1, <1>2, <1>4 DEF CInv, Backed, Saving
<1> QED  BY <1>3, <1>5 DEF CInv

\* Nothing is said before fclose.
LEMMA SaveUpdateC ==
  ASSUME NEW t, SingleThread(t), SaveUpdate(t), AInv
  PROVE  CInv'
<1>1. \A u \in Thread : u = t /\ pc'[u] = "close"
  BY DEF SingleThread, SaveUpdate, Goto, AInv, TypeOK
<1> QED  BY <1>1 DEF CInv, ReadyIsStored, Backed

\* The path that was measured has been flushed when the constructor returns.
LEMMA SaveCloseC ==
  ASSUME NEW t, SingleThread(t), AInv, BInv, SaveClose(t)
  PROVE  CInv'
<1>1. t \in Thread /\ \A u \in Thread : u = t  BY DEF SingleThread
<1>2. /\ pc[t] = "close" /\ pc'[t] = "ready" /\ Mgr(t)' = Mgr(t)
      /\ SlotOf(t)' = SlotOf(t) /\ got'[t] = got[t]
      /\ Write(Mgr(t).file, buf[t])
  BY <1>1 DEF SaveClose, Goto, Mgr, SlotOf, AInv, TypeOK, request
<1>3. Mgr(t).file \in File /\ buf[t] \in Plan
  BY <1>1, <1>2 DEF AInv, TypeOK, Open
<1>4. Mgr(t).file \in DOMAIN disk' /\ disk'[Mgr(t).file] = buf[t]
  BY <1>2, <1>3, WriteType DEF AInv
<1>5. buf[t].id = TRUE /\ buf[t].path[SlotOf(t)] = got[t]
  BY <1>1, <1>2 DEF BInv, Flushed
<1>6. Holds(Mgr(t).file)'  BY <1>2, <1>4, <1>5 DEF Holds
<1> QED  BY <1>1, <1>2, <1>4, <1>5, <1>6 DEF CInv, ReadyIsStored, Backed

\* Memory is cleared, or the file that is chosen is a plan file.
LEMMA SetPlanFilePathC ==
  ASSUME NEW t, SingleThread(t), AInv, NEW s \in Settings,
         SetPlanFilePath(t, s)
  PROVE  CInv'
<1>1. t \in Thread /\ \A u \in Thread : u = t  BY DEF SingleThread
<1> PICK m : m = SetPath(Mgr(t), s.file, s.arch, s.mode)  OBVIOUS
<1>2. /\ disk' = disk /\ pc'[t] = "idle" /\ Mgr(t)' = m
      /\ s.file # NoFile => Holds(s.file) \/ Mgr(t).plan.path = NoPlan
  BY <1>1, Types DEF SetPlanFilePath, SingleThread, SetMgr, Mgr, Proc, AInv,
     TypeOK
<1>3. /\ s.file \in File \cup {NoFile} /\ s.arch \in Arch
      /\ s.mode \in SUBSET Flag /\ Mgr(t) \in Manager /\ Mgr(t).plan \in Plan
  BY <1>1, Types, FileAssumption DEF AInv
<1>4. m.file = s.file  BY <1>3, SetPathType
<1>5. Mgr(t).plan.path = NoPlan => m.plan.path = NoPlan
  BY <1>3 DEF SetPath, Plan, NoPlan
<1>6. Holds(s.file)' <=> Holds(s.file)  BY <1>2 DEF Holds
<1> QED
  BY <1>1, <1>2, <1>4, <1>5, <1>6 DEF CInv, ReadyIsStored, Backed

\* The file savePlan empties is the one it fills again.
LEMMA SavePlanC ==
  ASSUME NEW t, SingleThread(t), AInv, CInv, NEW f \in Targets, SavePlan(t, f)
  PROVE  CInv'
<1>1. t \in Thread /\ \A u \in Thread : u = t  BY DEF SingleThread
<1>2. /\ pc'[t] = "alock" /\ target'[t] = f /\ Mgr(t)' = Mgr(t) /\ Between(t)
      /\ Write(f, Empty) /\ f \in File
  BY <1>1, FileAssumption
  DEF SavePlan, Goto, Mgr, AInv, TypeOK, Alone
<1>3. \A g : g # f => (Holds(g)' <=> Holds(g))
  BY <1>2, WriteType, EmptyType DEF Holds, AInv
<1>4. Mgr(t).file # f => (Holds(Mgr(t).file)' <=> Holds(Mgr(t).file))
  BY <1>2, <1>3
<1>5. Backed'
  BY <1>1, <1>2, <1>4 DEF CInv, Backed, Saving, Between
<1>6. ReadyIsStored'  BY <1>1, <1>2 DEF ReadyIsStored
<1> QED  BY <1>5, <1>6 DEF CInv

\* PLANFILEID is added, the paths stay.
LEMMA SavePlanWriteC ==
  ASSUME NEW t, SingleThread(t), AInv, CInv, SavePlanWrite(t)
  PROVE  CInv'
<1>1. t \in Thread /\ \A u \in Thread : u = t  BY DEF SingleThread
<1> PICK plan : plan = [Mgr(t).plan EXCEPT !.id = TRUE]  OBVIOUS
<1> PICK m : m = [Mgr(t) EXCEPT !.plan = plan]  OBVIOUS
<1>2. /\ pc[t] = "awrite" /\ pc'[t] = "aclose" /\ Mgr(t)' = m
      /\ target' = target /\ disk' = disk
  BY <1>1, Types
  DEF SavePlanWrite, Goto, SetMgr, Mgr, Proc, AInv, TypeOK, request
<1>3. Mgr(t) \in Manager /\ Mgr(t).plan \in Plan  BY <1>1, Types DEF AInv
<1>4. plan.path = Mgr(t).plan.path  BY <1>3 DEF Plan
<1>5. m.file = Mgr(t).file /\ m.mode = Mgr(t).mode /\ m.plan = plan
  BY <1>3 DEF Manager
<1>6. Holds(m.file)' <=> Holds(m.file)  BY <1>2 DEF Holds
<1>7. "AUTOMATIC" \in m.mode /\ m.file # NoFile =>
        \/ Holds(m.file)
        \/ m.plan.path = NoPlan
        \/ target[t] = m.file
  BY <1>1, <1>2, <1>4, <1>5 DEF CInv, Backed
<1>8. Saving(t)'  BY <1>2 DEF Saving
<1>9. Backed'  BY <1>1, <1>2, <1>6, <1>7, <1>8 DEF Backed
<1>10. ReadyIsStored'  BY <1>1, <1>2 DEF ReadyIsStored
<1> QED  BY <1>9, <1>10 DEF CInv

\* The file that was written is a plan file.
LEMMA SavePlanCloseC ==
  ASSUME NEW t, SingleThread(t), AInv, BInv, CInv, SavePlanClose(t)
  PROVE  CInv'
<1>1. t \in Thread /\ \A u \in Thread : u = t  BY DEF SingleThread
<1> PICK f : f = target[t]  OBVIOUS
<1>2. /\ pc[t] = "aclose" /\ pc'[t] = "idle" /\ Mgr(t)' = Mgr(t)
      /\ Write(f, buf[t]) /\ f \in File /\ buf[t] \in Plan
      /\ buf[t].id = TRUE
  BY <1>1, FileAssumption
  DEF SavePlanClose, Goto, Mgr, AInv, BInv, TypeOK, Open, Saving, Flushed
<1>3. DOMAIN disk' = DOMAIN disk \cup {f} /\ disk'[f] = buf[t]
  BY <1>2, WriteType DEF AInv
<1>4. Holds(f)'  BY <1>2, <1>3 DEF Holds
<1>5. \A g : g # f => (Holds(g)' <=> Holds(g))
  BY <1>2, WriteType DEF Holds, AInv
<1>6. Backed'
  BY <1>1, <1>2, <1>4, <1>5 DEF CInv, Backed
<1>7. ReadyIsStored'  BY <1>1, <1>2 DEF ReadyIsStored
<1> QED  BY <1>6, <1>7 DEF CInv

\* A manager that has just been constructed refers to no file.
LEMMA CrashC ==
  ASSUME NEW t, SingleThread(t), AInv, NEW p \in Process, Crash(p)
  PROVE  CInv'
<1>1. t \in Thread /\ \A u \in Thread : u = t  BY DEF SingleThread
<1>2. Mgr(t)' = NewManager
  BY <1>1, Types DEF SingleThread, Crash, Mgr, Proc, AInv, TypeOK
<1>3. NewManager.file = NoFile  BY DEF NewManager
<1> QED  BY <1>1, <1>2, <1>3 DEF CInv, ReadyIsStored, Backed

\* At first no file is chosen.
LEMMA InitC == Init => CInv
<1> SUFFICES ASSUME Init PROVE CInv  OBVIOUS
<1>1. \A t \in Thread : pc[t] = "idle" /\ Mgr(t).file = NoFile
  BY ProcessAssumption DEF Init, Mgr, Proc, NewManager
<1> QED  BY <1>1 DEF CInv, ReadyIsStored, Backed

\* The invariant is inductive, given the two before.
LEMMA NextC ==
  ASSUME NEW t, SingleThread(t)
  PROVE  AInv /\ BInv /\ CInv /\ [Next]_vars => CInv'
<1> SUFFICES ASSUME AInv, BInv, CInv, [Next]_vars PROVE CInv'  OBVIOUS
<1>1. \A u \in Thread : u = t  BY DEF SingleThread
<1>2. CASE Application(t)
  BY <1>2, QuietC, SetPlanFilePathC, SavePlanC DEF Application
<1>3. CASE Work(t)
  BY <1>3, QuietC, LoadReadC, LoadGetC, SavePutC, SaveCreateC, SaveUpdateC,
     SaveCloseC, SavePlanWriteC, SavePlanCloseC
  DEF Work
<1>4. ASSUME NEW p \in Process, Crash(p) PROVE CInv'  BY <1>4, CrashC
<1>5. CASE UNCHANGED vars
  <2>1. \A f : Holds(f)' <=> Holds(f)  BY <1>5 DEF vars, Holds
  <2>2. \A u \in Thread : Mgr(u)' = Mgr(u) /\ SlotOf(u)' = SlotOf(u)
    BY <1>5 DEF vars, request, Mgr, SlotOf
  <2> QED
    BY <1>5, <2>1, <2>2
    DEF CInv, vars, request, ReadyIsStored, Backed, Saving
<1> QED  BY <1>1, <1>2, <1>3, <1>4, <1>5 DEF Next

\* With AUTOMATIC, the path of a plan that was measured is in the file chosen
\* when the constructor returns.
THEOREM MeasuredPlansAreStored ==
  ASSUME NEW t, SingleThread(t)
  PROVE  Spec => []ReadyIsStored
<1>1. Process = {Proc(t)}  BY DEF SingleThread
<1>2. AInv /\ BInv /\ [Next]_vars => BInv'  BY <1>1, NextB
<1>3. CInv => ReadyIsStored  BY DEF CInv
<1> QED
  BY <1>2, <1>3, InitA, NextA, InitB, InitC, NextC, PTL DEF Spec

-----------------------------------------------------------------------------
(* What savePlan writes, with any number of threads and processes *)

\* Looking at SLEEFDFTPLAN makes a manager stable, and a stable one is not
\* given to another architecture.
LEMMA Stability ==
  ASSUME NEW m \in Manager
  PROVE  /\ Stable(Refer(m))
         /\ Stable(m) => Refer(m).id = m.id
<1> DEFINE s == SetPath(m, EnvFile, DefaultArch, m.mode)
<1>1. m.mode \in SUBSET Flag  BY DEF Manager
<1>2. s.id = DefaultArch /\ s.mode = m.mode
  BY <1>1, FlagTypes, SetPathType
<1> HIDE DEF s
<1>3. Refer(m) = IF "REFERTOENVVAR" \in m.mode /\ EnvFile # NoFile
                 THEN s ELSE m
  BY DEF Refer, s
<1> QED  BY <1>2, <1>3 DEF Stable

\* A step of a thread leaves alone the other threads, but for the processes
\* they run in, and the other processes.
LEMMA Frame ==
  ASSUME AInv, NEW t \in Thread, Work(t) \/ Application(t)
  PROVE  /\ \A u \in Thread : u # t =>
              /\ key'[u] = key[u] /\ buf'[u] = buf[u]
              /\ Proc(u) # Proc(t) \/ Work(t) => pc'[u] = pc[u]
         /\ \A q \in Process : q # Proc(t) =>
              mgr'[q] = mgr[q] /\ made'[q] = made[q] /\ lost'[q] = lost[q]
<1> USE DEF AInv, TypeOK, Goto, request, history
<1>1. CASE Work(t)
  <2>1. CASE LoadOpen(t) \/ LoadLock(t) \/ LoadRead(t) \/ LoadGet(t)
    BY <2>1 DEF LoadOpen, LoadLock, LoadRead, LoadGet, Load, SetMgr
  <2>2. CASE \E path \in Path : Measure(t, path)
    BY <2>2 DEF Measure
  <2>3. CASE SavePut(t) \/ SaveNowhere(t) \/ SaveOpen(t)
    BY <2>3 DEF SavePut, SaveNowhere, SaveOpen, SetMgr
  <2>4. CASE SaveCreate(t) \/ SaveLock(t) \/ SaveUpdate(t) \/ SaveClose(t)
    BY <2>4 DEF SaveCreate, SaveLock, SaveUpdate, SaveClose, SetMgr
  <2>5. CASE SavePlanLock(t) \/ SavePlanWrite(t) \/ SavePlanClose(t)
    BY <2>5 DEF SavePlanLock, SavePlanWrite, SavePlanClose, SetMgr
  <2> QED  BY <1>1, <2>1, <2>2, <2>3, <2>4, <2>5 DEF Work
<1>2. CASE Application(t) /\ ~Work(t)
  <2>1. CASE \E k \in Key, h \in How : StartInit(t, k, h)
    BY <1>2, <2>1 DEF StartInit
  <2>2. CASE \E s \in Settings : SetPlanFilePath(t, s)
    BY <1>2, <2>2 DEF SetPlanFilePath, SetMgr
  <2>3. CASE \E f \in Targets : SavePlan(t, f)
    BY <1>2, <2>3 DEF SavePlan
  <2> QED  BY <1>2, <2>1, <2>2, <2>3 DEF Application
<1> QED  BY <1>1, <1>2

\* What is true of a process stays true if nothing of it changes.
LEMMA SameD ==
  ASSUME NEW q \in Process, DIn(q), mgr'[q] = mgr[q], made'[q] = made[q],
         lost'[q] = lost[q],
         \A u \in Thread : Proc(u) = q =>
           pc'[u] = pc[u] /\ key'[u] = key[u] /\ buf'[u] = buf[u]
  PROVE  DIn(q)'
<1>1. \A u \in Thread : Proc(u) = q =>
        /\ Proc(u)' = q /\ Mgr(u)' = Mgr(u) /\ SlotOf(u)' = SlotOf(u)
        /\ Between(u)' = Between(u) /\ Saving(u)' = Saving(u)
  BY DEF Proc, Mgr, SlotOf, Between, Saving
<1>2. KeptIn(q)'  BY <1>1 DEF DIn, KeptIn, Pending, Proc
<1>3. \A u \in Thread : Proc(u) = q => Chosen(u)' /\ Complete(u)'
  BY <1>1 DEF DIn, Chosen, Complete
<1> QED  BY <1>2, <1>3 DEF DIn, Proc

\* So only the process of the thread that takes a step needs to be looked at.
LEMMA OthersD ==
  ASSUME AInv, DInv, NEW t \in Thread, Work(t) \/ Application(t),
         DIn(Proc(t))'
  PROVE  DInv'
<1>1. ASSUME NEW q \in Process, q # Proc(t) PROVE DIn(q)'
  <2>1. \A u \in Thread : Proc(u) = q => u # t  BY <1>1
  <2> QED  BY <1>1, <2>1, Frame, SameD DEF DInv
<1> QED  BY <1>1 DEF DInv, Proc

\* A step of the library after which nothing has gone from memory but what
\* counts as lost, and the others wait as before
LEMMA KeptD ==
  ASSUME AInv, DInv, NEW t \in Thread, Work(t), pc[t] # "save",
         Mgr(t)'.mode = Mgr(t).mode,
         Stable(Mgr(t)) => Mgr(t)'.id = Mgr(t).id,
         made'[Proc(t)] = made[Proc(t)],
         \A s \in made[Proc(t)] \ lost'[Proc(t)] :
           /\ s \notin lost[Proc(t)]
           /\ Mgr(t).plan.path[s] # NoPath => Mgr(t)'.plan.path[s] # NoPath
  PROVE  KeptIn(Proc(t))'
<1> DEFINE p == Proc(t)
<1>1. p \in Process /\ mgr[p] = Mgr(t) /\ mgr'[p] = Mgr(t)' /\ DIn(p)
  BY ProcessAssumption DEF DInv, Mgr, Proc
<1>2. ASSUME NEW s, Pending(p, s) PROVE Pending(p, s)'
  <2>1. PICK u \in Thread : Proc(u) = p /\ pc[u] = "save" /\ SlotOf(u) = s
    BY <1>2 DEF Pending
  <2>2. u # t /\ pc'[u] = "save" /\ key'[u] = key[u]  BY <2>1, Frame
  <2>3. Mgr(u) = Mgr(t) /\ Mgr(u)' = Mgr(t)'  BY <2>1 DEF Mgr, Proc
  <2>4. Stable(Mgr(t))
    BY <1>1, <2>1, <2>3 DEF DIn, Chosen, Between, Saving
  <2>5. SlotOf(u)' = s  BY <2>1, <2>2, <2>3, <2>4 DEF SlotOf
  <2> QED  BY <2>1, <2>2, <2>5 DEF Pending, Proc
<1> HIDE DEF p
<1>3. KeptIn(p)  BY <1>1 DEF DIn
<1>4. made'[p] = made[p]  BY DEF p
<1>5. \A s \in made[p] \ lost'[p] :
        /\ s \notin lost[p]
        /\ Mgr(t).plan.path[s] # NoPath => Mgr(t)'.plan.path[s] # NoPath
  BY DEF p
<1>6. KeptIn(p)'  BY <1>1, <1>2, <1>3, <1>4, <1>5 DEF KeptIn
<1> QED  BY <1>6 DEF p, Proc

\* The threads of a process, but for the one that takes a step: no savePlan is
\* under way, and the manager stays stable.
LEMMA ThreadsD ==
  ASSUME AInv, DInv, NEW t \in Thread, Work(t), Chosen(t)', Complete(t)',
         Mgr(t)'.mode = Mgr(t).mode, Stable(Mgr(t)) => Stable(Mgr(t)'),
         KeptIn(Proc(t))'
  PROVE  DInv'
<1>1. ASSUME NEW u \in Thread, u # t, Proc(u) = Proc(t)
      PROVE  Chosen(u)' /\ Complete(u)'
  <2>1. pc'[u] = pc[u] /\ buf'[u] = buf[u]  BY <1>1, Frame
  <2>2. Mgr(u) = Mgr(t) /\ Mgr(u)' = Mgr(t)'  BY <1>1 DEF Mgr, Proc
  <2>3. ~Between(t)
    BY DEF Work, LoadOpen, LoadLock, LoadRead, LoadGet, Measure, SavePut,
       SaveNowhere, SaveOpen, SaveCreate, SaveLock, SaveUpdate, SaveClose,
       SavePlanLock, SavePlanWrite, SavePlanClose, Between
  <2>4. pc[u] # "aclose"  BY <1>1, <2>3 DEF AInv, Mutex, Saving
  <2>5. Chosen(u)
    BY <1>1, ProcessAssumption DEF DInv, DIn, Proc
  <2>6. Chosen(u)'
    BY <2>1, <2>2, <2>5 DEF Chosen, Between, Saving
  <2> QED  BY <2>1, <2>4, <2>6 DEF Complete
<1>2. DIn(Proc(t))'  BY <1>1 DEF DIn, Proc
<1> QED  BY <1>2, OthersD

\* What LoadOpen and LoadRead lose from memory counts as lost.
LEMMA LoadD ==
  ASSUME AInv, DInv, NEW t \in Thread, Work(t), NEW m, Load(t, m),
         m.mode = Mgr(t).mode, Stable(Mgr(t)) => Stable(m) /\ m.id = Mgr(t).id,
         made' = made, pc[t] # "save", pc'[t] \in {"rlock", "read", "get"},
         Stable(m)
  PROVE  DInv'
<1>1. Proc(t) \in Process  BY ProcessAssumption DEF Proc
<1>2. Mgr(t)' = m  BY <1>1 DEF Load, SetMgr, Mgr, Proc, AInv, TypeOK
<1>3. lost'[Proc(t)] = lost[Proc(t)] \cup (made[Proc(t)] \cap Gone(Mgr(t), m))
  BY <1>1 DEF Load, AInv, TypeOK
<1>4. made[Proc(t)] \subseteq Slot  BY <1>1 DEF AInv, TypeOK
<1>5. \A s \in made[Proc(t)] \ lost'[Proc(t)] :
        /\ s \notin lost[Proc(t)]
        /\ Mgr(t).plan.path[s] # NoPath => m.plan.path[s] # NoPath
  BY <1>3, <1>4 DEF Gone
<1>6. KeptIn(Proc(t))'  BY <1>2, <1>5, KeptD
<1>7. Chosen(t)' /\ Complete(t)'  BY <1>2 DEF Chosen, Complete
<1> QED  BY <1>2, <1>6, <1>7, ThreadsD

\* The manager is made stable when the file is opened.
LEMMA LoadOpenD ==
  ASSUME AInv, DInv, NEW t \in Thread, LoadOpen(t)
  PROVE  DInv'
<1> DEFINE m == Refer(Mgr(t))
<1>1. Mgr(t) \in Manager  BY Types DEF AInv
<1>2. m.mode = Mgr(t).mode /\ Stable(m) /\ (Stable(Mgr(t)) => m.id = Mgr(t).id)
  BY <1>1, ReferType, Stability
<1>3. Load(t, m) /\ made' = made /\ pc[t] = "load"
      /\ pc'[t] \in {"rlock", "read", "get"}
  BY DEF LoadOpen, Goto, AInv, TypeOK
<1>4. Work(t)  BY DEF Work
<1> HIDE DEF m
<1> QED  BY <1>2, <1>3, <1>4, LoadD

\* The file read replaces what is in memory.
LEMMA LoadReadD ==
  ASSUME AInv, DInv, NEW t \in Thread, LoadRead(t)
  PROVE  DInv'
<1> DEFINE m == Read(Mgr(t), disk[Mgr(t).file])
<1>1. pc[t] = "read" /\ pc'[t] = "get" /\ Load(t, m) /\ made' = made
  BY DEF LoadRead, Goto, AInv, TypeOK
<1>2. disk[Mgr(t).file] \in Plan /\ Mgr(t) \in Manager
  BY <1>1, Types DEF AInv, TypeOK, Open
<1>3. m.mode = Mgr(t).mode /\ m.id = Mgr(t).id  BY <1>2, ReadType
<1>4. Stable(Mgr(t))
  BY <1>1, ProcessAssumption DEF DInv, DIn, Chosen, Proc, Between, Saving
<1>5. Work(t)  BY DEF Work
<1> HIDE DEF m
<1>6. Stable(m)  BY <1>3, <1>4 DEF Stable
<1> QED  BY <1>1, <1>3, <1>5, <1>6, LoadD

\* The steps that leave the manager alone
LEMMA QuietD ==
  ASSUME AInv, DInv, NEW t \in Thread,
         \/ LoadLock(t) \/ LoadGet(t) \/ SaveCreate(t) \/ SaveLock(t)
         \/ SaveClose(t) \/ SavePlanLock(t) \/ SavePlanClose(t)
  PROVE  DInv'
<1>1. /\ mgr' = mgr /\ made' = made /\ lost' = lost
      /\ pc[t] \in {"rlock", "get", "create", "slock", "close", "alock",
                    "aclose"}
      /\ pc[t] \in {"rlock", "get"} => pc'[t] \in {"read", "measure", "ready"}
      /\ pc[t] \in {"create", "slock"} => pc'[t] \in {"slock", "update"}
      /\ pc[t] = "close" => pc'[t] = "ready"
      /\ pc[t] = "alock" => pc'[t] = "awrite"
      /\ pc[t] = "aclose" => pc'[t] = "idle"
  BY DEF LoadLock, LoadGet, SaveCreate, SaveLock, SaveClose, SavePlanLock,
     SavePlanClose, Goto, history, AInv, TypeOK
<1>2. Mgr(t)' = Mgr(t)  BY <1>1 DEF Mgr
<1>3. Work(t)  BY DEF Work
<1>4. KeptIn(Proc(t))'  BY <1>1, <1>2, <1>3, KeptD
<1>5. Chosen(t)  BY ProcessAssumption DEF DInv, DIn, Proc
<1>6. Chosen(t)' /\ Complete(t)'
  BY <1>1, <1>2, <1>5 DEF Chosen, Complete, Between, Saving
<1> QED  BY <1>2, <1>3, <1>4, <1>6, ThreadsD

\* The steps that are taken only with AUTOMATIC
LEMMA AutomaticD ==
  ASSUME AInv, DInv, NEW t \in Thread,
         SaveNowhere(t) \/ SaveOpen(t) \/ SaveUpdate(t)
  PROVE  DInv'
<1> DEFINE r == Refer(Mgr(t))
           u == Updated(Mgr(t), disk[Mgr(t).file], SlotOf(t), got[t])
<1>1. Mgr(t) \in Manager /\ Proc(t) \in Process  BY Types DEF AInv
<1>2. r.mode = Mgr(t).mode /\ Stable(r)  BY <1>1, ReferType, Stability
<1>3. Chosen(t)  BY ProcessAssumption DEF DInv, DIn, Proc
<1>4. /\ "AUTOMATIC" \in Mgr(t).mode /\ Mgr(t)'.mode = Mgr(t).mode
      /\ Stable(Mgr(t)')
      /\ pc'[t] # "aclose"
  <2>1. CASE SaveNowhere(t) \/ SaveOpen(t)
    <3>1. mgr' = [mgr EXCEPT ![Proc(t)] = r] /\ pc'[t] # "aclose"
      BY <2>1 DEF SaveNowhere, SaveOpen, SetMgr, Goto, AInv, TypeOK
    <3>2. "AUTOMATIC" \in Mgr(t).mode
      BY <1>2, <2>1 DEF SaveNowhere, SaveOpen
    <3> HIDE DEF r
    <3>3. Mgr(t)' = r  BY <1>1, <3>1 DEF Mgr, Proc, AInv, TypeOK
    <3> QED  BY <1>2, <3>1, <3>2, <3>3
  <2>2. CASE SaveUpdate(t)
    <3>1. /\ mgr' = [mgr EXCEPT ![Proc(t)] = u] /\ pc'[t] # "aclose"
          /\ pc[t] = "update"
      BY <2>2 DEF SaveUpdate, SetMgr, Goto, AInv, TypeOK
    <3>2. /\ disk[Mgr(t).file] \in Plan /\ SlotOf(t) \in Slot
          /\ got[t] \in Path
      BY <3>1, Types DEF AInv, TypeOK, Open
    <3>3. u.mode = Mgr(t).mode /\ u.id = Mgr(t).id
      BY <1>1, <3>2, UpdatedType
    <3> HIDE DEF u
    <3>4. Mgr(t)' = u  BY <1>1, <3>1 DEF Mgr, Proc, AInv, TypeOK
    <3>5. "AUTOMATIC" \in Mgr(t).mode /\ Stable(Mgr(t))
      BY <1>3, <3>1 DEF Chosen, Between, Saving
    <3> QED  BY <3>1, <3>3, <3>4, <3>5 DEF Stable
  <2> QED  BY <2>1, <2>2
<1>5. KeptIn(Proc(t))'  BY <1>4 DEF KeptIn, Mgr, Proc
<1>6. Chosen(t)' /\ Complete(t)'  BY <1>4 DEF Chosen, Complete
<1>7. Work(t)  BY DEF Work
<1> QED  BY <1>4, <1>5, <1>6, <1>7, ThreadsD

\* What is measured is on its way.
LEMMA MeasureD ==
  ASSUME AInv, DInv, NEW t \in Thread, NEW path \in Path, Measure(t, path)
  PROVE  DInv'
<1> DEFINE p == Proc(t)
           new == IF how[t] = "measure" THEN {SlotOf(t)} ELSE {}
<1>1. /\ mgr' = mgr /\ key' = key /\ pc[t] = "measure"
      /\ pc'[t] = IF how[t] = "measure" THEN "save" ELSE "ready"
      /\ \A u \in Thread : u # t => pc'[u] = pc[u]
      /\ made'[p] = made[p] \cup new /\ lost'[p] = lost[p] \ new
  BY ProcessAssumption DEF Measure, Goto, request, AInv, TypeOK, Proc
<1>2. \A u \in Thread : Mgr(u)' = Mgr(u) /\ SlotOf(u)' = SlotOf(u)
  BY <1>1 DEF Mgr, SlotOf
<1>3. Work(t)  BY DEF Work
<1>4. p \in Process /\ DIn(p) /\ Chosen(t)
  BY ProcessAssumption DEF DInv, DIn, Proc
<1> HIDE DEF p
<1>5. ASSUME NEW s, Pending(p, s) PROVE Pending(p, s)'
  BY <1>1, <1>2, <1>5 DEF Pending, Proc
<1>6. ASSUME NEW s \in new PROVE Pending(p, s)'
  BY <1>1, <1>2, <1>6 DEF Pending, Proc, p
<1> HIDE DEF new
<1>7. KeptIn(p)'  BY <1>1, <1>4, <1>5, <1>6 DEF DIn, KeptIn
<1>8. KeptIn(Proc(t))'  BY <1>7 DEF p, Proc
<1>9. Chosen(t)' /\ Complete(t)'
  BY <1>1, <1>2, <1>4 DEF Chosen, Complete, Between, Saving
<1>10. Mgr(t)' = Mgr(t)  BY <1>2
<1> QED  BY <1>3, <1>8, <1>9, <1>10, ThreadsD

\* What is put is in memory; the others still wait.
LEMMA SavePutD ==
  ASSUME AInv, DInv, NEW t \in Thread, SavePut(t)
  PROVE  DInv'
<1> DEFINE p == Proc(t)
           plan == Put(Mgr(t).plan, SlotOf(t), got[t])
           m == [Mgr(t) EXCEPT !.plan = plan]
<1>1. /\ mgr' = [mgr EXCEPT ![p] = m] /\ key' = key /\ pc[t] = "save"
      /\ pc'[t] = "ready" /\ \A u \in Thread : u # t => pc'[u] = pc[u]
      /\ made' = made /\ lost' = lost
  BY DEF SavePut, SetMgr, Goto, request, history, AInv, TypeOK
<1>2. /\ Mgr(t) \in Manager /\ Mgr(t).plan \in Plan /\ SlotOf(t) \in Slot
      /\ got[t] \in Path /\ p \in Process /\ made[p] \subseteq Slot
  BY <1>1, Types DEF AInv, TypeOK, Open
<1>3. /\ plan.path[SlotOf(t)] # NoPath
      /\ \A s \in Slot : s # SlotOf(t) => plan.path[s] = Mgr(t).plan.path[s]
  BY <1>2, PutType, FlagTypes
<1> HIDE DEF plan
<1>4. m.plan = plan /\ m.id = Mgr(t).id /\ m.mode = Mgr(t).mode
  BY <1>2 DEF Manager
<1> HIDE DEF m
<1>5. mgr[p] = Mgr(t) /\ mgr'[p] = m /\ Mgr(t)' = m
  BY <1>1, <1>2 DEF Mgr, Proc, AInv, TypeOK
<1>6. DIn(p) /\ Chosen(t)  BY ProcessAssumption DEF DInv, DIn, Proc
<1> HIDE DEF p
<1>7. \A u \in Thread : Proc(u) = p => SlotOf(u)' = SlotOf(u)
  BY <1>1, <1>4, <1>5 DEF SlotOf, Mgr, Proc
<1>8. ASSUME NEW s \in made[p], s # SlotOf(t), Pending(p, s)
      PROVE  Pending(p, s)'
  BY <1>1, <1>7, <1>8 DEF Pending, Proc
<1>9. KeptIn(p)'
  <2>1. ASSUME "AUTOMATIC" \notin m.mode, NEW s \in made[p] \ lost[p]
        PROVE  m.plan.path[s] # NoPath \/ Pending(p, s)'
    <3>1. Mgr(t).plan.path[s] # NoPath \/ Pending(p, s)
      BY <1>4, <1>5, <1>6, <2>1 DEF DIn, KeptIn
    <3>2. s \in Slot  BY <1>2, <2>1
    <3> QED  BY <1>3, <1>4, <1>8, <3>1, <3>2
  <2> QED  BY <1>1, <1>5, <2>1 DEF KeptIn
<1>10. KeptIn(Proc(t))'  BY <1>9 DEF p, Proc
<1>11. Stable(Mgr(t))  BY <1>1, <1>6 DEF Chosen, Between, Saving
<1>12. Stable(m)  BY <1>4, <1>11 DEF Stable
<1>13. Chosen(t)' /\ Complete(t)'
  BY <1>1, <1>5 DEF Chosen, Complete, Between, Saving
<1>14. Work(t)  BY DEF Work
<1> QED  BY <1>4, <1>5, <1>10, <1>12, <1>13, <1>14, ThreadsD

\* All that was kept is in memory, for nobody else is in the library, and so
\* it is in what will be flushed.
LEMMA SavePlanWriteD ==
  ASSUME AInv, DInv, NEW t \in Thread, SavePlanWrite(t)
  PROVE  DInv'
<1> DEFINE p == Proc(t)
           plan == [Mgr(t).plan EXCEPT !.id = TRUE]
           m == [Mgr(t) EXCEPT !.plan = plan]
<1>1. /\ mgr' = [mgr EXCEPT ![p] = m] /\ pc[t] = "awrite"
      /\ pc'[t] = "aclose" /\ made' = made /\ lost' = lost /\ buf'[t] = plan
  BY DEF SavePlanWrite, SetMgr, Goto, history, AInv, TypeOK
<1>2. Mgr(t) \in Manager /\ Mgr(t).plan \in Plan /\ p \in Process
  BY Types DEF AInv
<1>3. plan.path = Mgr(t).plan.path  BY <1>2 DEF Plan
<1> HIDE DEF plan
<1>4. m.plan = plan /\ m.id = Mgr(t).id /\ m.mode = Mgr(t).mode
  BY <1>2 DEF Manager
<1> HIDE DEF m
<1>5. mgr[p] = Mgr(t) /\ Mgr(t)' = m
  BY <1>1, <1>2 DEF Mgr, Proc, AInv, TypeOK
<1>6. DIn(p)  BY <1>2 DEF DInv
<1>7. \A s : ~Pending(p, s)
  BY <1>1 DEF AInv, Mutex, Saving, Between, Pending
<1>8. KeptIn(p)  BY <1>6 DEF DIn
<1>9. Complete(t)'
  BY <1>1, <1>3, <1>4, <1>5, <1>7, <1>8 DEF Complete, KeptIn, Proc
<1>10. Chosen(t)'  BY <1>1 DEF Chosen, Saving
<1>11. Work(t)  BY DEF Work
<1>12. Stable(Mgr(t)) => Stable(m)  BY <1>4 DEF Stable
<1>13. KeptIn(Proc(t))'
  BY <1>1, <1>3, <1>4, <1>5, <1>11, KeptD
<1> QED  BY <1>4, <1>5, <1>9, <1>10, <1>11, <1>12, <1>13, ThreadsD

\* A constructor that starts, and savePlan, are not past a load; they find and
\* leave the process as it is.
LEMMA StartD ==
  ASSUME AInv, DInv, NEW t \in Thread,
         \/ \E k \in Key, h \in How : StartInit(t, k, h)
         \/ \E f \in Targets : SavePlan(t, f)
  PROVE  DInv'
<1> DEFINE p == Proc(t)
<1>1. /\ mgr' = mgr /\ made' = made /\ lost' = lost /\ buf' = buf /\ Between(t)
      /\ pc'[t] \in {"load", "alock"} /\ \A u \in Thread : u # t =>
           pc'[u] = pc[u] /\ key'[u] = key[u]
  BY DEF StartInit, SavePlan, Alone, Goto, history, AInv, TypeOK
<1>2. p \in Process /\ DIn(p)  BY ProcessAssumption DEF DInv, Proc
<1> HIDE DEF p
<1>3. \A u \in Thread : Mgr(u)' = Mgr(u)  BY <1>1 DEF Mgr
<1>4. \A u \in Thread : u # t => SlotOf(u)' = SlotOf(u)
  BY <1>1, <1>3 DEF SlotOf
<1>5. ASSUME NEW s, Pending(p, s) PROVE Pending(p, s)'
  <2>1. PICK u \in Thread : Proc(u) = p /\ pc[u] = "save" /\ SlotOf(u) = s
    BY <1>5 DEF Pending
  <2>2. u # t  BY <1>1, <2>1 DEF Between
  <2> QED  BY <1>1, <1>4, <2>1, <2>2 DEF Pending, Proc
<1>6. KeptIn(p)'  BY <1>1, <1>2, <1>5 DEF DIn, KeptIn
<1>7. ASSUME NEW u \in Thread, Proc(u) = p PROVE Chosen(u)' /\ Complete(u)'
  <2>1. Chosen(u) /\ Complete(u)  BY <1>2, <1>7 DEF DIn
  <2>2. CASE u = t
    BY <1>1, <2>2 DEF Chosen, Complete, Saving
  <2>3. CASE u # t
    BY <1>1, <1>3, <2>1, <2>3 DEF Chosen, Complete, Between, Saving, Proc
  <2> QED  BY <2>2, <2>3
<1>8. DIn(p)'  BY <1>6, <1>7 DEF DIn, Proc
<1>9. DIn(Proc(t))'  BY <1>8 DEF p, Proc
<1>10. Application(t)  BY DEF Application
<1> QED  BY <1>9, <1>10, OthersD

\* Nothing counts as made after a new choice, nor in a new process.
LEMMA AfreshD ==
  ASSUME AInv, DInv, NEW p \in Process, made'[p] = {},
         \A t \in Thread : Proc(t) = p => pc'[t] = "idle"
  PROVE  DIn(p)'
  BY DEF DIn, KeptIn, Chosen, Complete, Between, Proc

\* setPlanFilePath, and a crash, begin afresh.
LEMMA AgainD ==
  ASSUME AInv, DInv,
         \/ \E t \in Thread, s \in Settings : SetPlanFilePath(t, s)
         \/ \E p \in Process : Crash(p)
  PROVE  DInv'
<1>1. ASSUME NEW t \in Thread, NEW s \in Settings, SetPlanFilePath(t, s)
      PROVE  DInv'
  <2>1. /\ made'[Proc(t)] = {} /\ Proc(t) \in Process
        /\ \A u \in Thread : Proc(u) = Proc(t) => pc'[u] = "idle"
    BY <1>1, ProcessAssumption DEF SetPlanFilePath, Proc, AInv, TypeOK
  <2>2. DIn(Proc(t))'  BY <2>1, AfreshD DEF Proc
  <2>3. Application(t)  BY <1>1 DEF Application
  <2> QED  BY <2>2, <2>3, OthersD
<1>2. ASSUME NEW p \in Process, Crash(p) PROVE DInv'
  <2>1. DIn(p)'
    BY <1>2, AfreshD DEF Crash, AInv, TypeOK
  <2>2. ASSUME NEW q \in Process, q # p PROVE DIn(q)'
    <3>1. /\ mgr'[q] = mgr[q] /\ made'[q] = made[q] /\ lost'[q] = lost[q]
          /\ \A u \in Thread : Proc(u) = q =>
               pc'[u] = pc[u] /\ key'[u] = key[u] /\ buf'[u] = buf[u]
      BY <1>2, <2>2 DEF Crash, request, AInv, TypeOK
    <3> QED  BY <3>1, SameD DEF DInv
  <2> QED  BY <2>1, <2>2 DEF DInv
<1> QED  BY <1>1, <1>2

\* At first nothing is made.
LEMMA InitD == Init => DInv
  BY ProcessAssumption
  DEF Init, DInv, DIn, KeptIn, Chosen, Complete, Between, Proc

\* The invariant is inductive, given types and mtx.
LEMMA NextD == AInv /\ DInv /\ [Next]_vars => DInv'
<1> SUFFICES ASSUME AInv, DInv, [Next]_vars PROVE DInv'  OBVIOUS
<1>1. ASSUME NEW t \in Thread, Application(t) PROVE DInv'
  BY <1>1, StartD, AgainD DEF Application
<1>2. ASSUME NEW t \in Thread, Work(t) PROVE DInv'
  BY <1>2, LoadOpenD, LoadReadD, QuietD, AutomaticD, MeasureD, SavePutD,
     SavePlanWriteD DEF Work
<1>3. ASSUME NEW p \in Process, Crash(p) PROVE DInv'  BY <1>3, AgainD
<1>4. CASE UNCHANGED vars
  <2>1. ASSUME NEW q \in Process PROVE DIn(q)'
    BY <1>4, SameD DEF DInv, vars, request, history
  <2> QED  BY <2>1 DEF DInv
<1> QED  BY <1>1, <1>2, <1>3, <1>4 DEF Next

\* Between a measurement and savePlan only a load, or a new choice of the
\* application, loses a path: whatever the settings, a plan file without
\* AUTOMATIC and SLEEFDFTPLAN among them, with any threads and processes.
THEOREM OnlyLoadsLosePlans == Spec => []SavePlanComplete
<1>1. AInv /\ DInv => SavePlanComplete
  BY ProcessAssumption DEF DInv, DIn, Complete, SavePlanComplete, Proc
<1> QED  BY <1>1, InitA, NextA, InitD, NextD, PTL DEF Spec
=============================================================================
