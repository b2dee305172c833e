----------------------------- MODULE PlanManager -----------------------------
(***************************************************************************)
(* The store of execution plans: in every process one PlanManager, guarded *)
(* by mtx while a plan is being constructed, and the plan files that the   *)
(* processes share, guarded by flock.  A thread that constructs a plan     *)
(* looks its path up, and when there is none measures one and stores it.   *)
(* What goes into a FILE* stays in its buffer until fclose.                *)
(***************************************************************************)
EXTENDS Naturals, FiniteSets

CONSTANTS
  Process, Thread,
  ProcessOf,    \* ProcessOf[t]: the process thread t runs in
  File,         \* plan files
  Key,          \* planKeyString(): type, mode and size of a transform
  Arch,         \* micro architectures a plan can be for
  DefaultArch,  \* what Sleef_getCpuIdString() detects
  Path,         \* paths a measurement may find best
  NoFile, NoThread, NoPath,
  EnvFile,      \* the file SLEEFDFTPLAN names, or NoFile
  OnDisk,       \* possible initial contents of the files that exist
  Settings,     \* what the application passes to SleefDFT_setPlanFilePath
  Targets,      \* the files the application passes to SleefDFT_savePlan
  How,          \* "measure", "estimate": the modes of the constructed plans
  ResetOnSwitch,\* the application clears memory before it chooses a new file
  MaxCalls,     \* bound: calls of the application
  MaxCrashes    \* bound: crashes

Flag == {"READONLY", "RESET", "AUTOMATIC", "NOLOCK", "REFERTOENVVAR"}
Slot == Arch \X Key
NoPlan == [s \in Slot |-> NoPath]

\* thePlan, in memory and in a file: id says that it carries PLANFILEID.
Plan == [id : BOOLEAN, path : [Slot -> Path \cup {NoPath}]]
Empty == [id |-> FALSE, path |-> NoPlan]

ASSUME ProcessAssumption == ProcessOf \in [Thread -> Process]
ASSUME FileAssumption ==
  /\ NoFile \notin File /\ EnvFile \in File \cup {NoFile}
  /\ NoThread \notin Thread /\ NoPath \notin Path
  /\ DefaultArch \in Arch
  /\ \A d \in OnDisk : d \in UNION {[D -> Plan] : D \in SUBSET File}
  /\ \A s \in Settings : /\ s.file \in File \cup {NoFile}
                         /\ s.arch \in Arch /\ s.mode \subseteq Flag
  /\ Targets \subseteq File
ASSUME BoundAssumption ==
  Key # {} /\ MaxCalls \in Nat /\ MaxCrashes \in Nat

VARIABLES
  disk,     \* the files that exist, with what has been flushed to them
  flock,    \* flock[f]: the thread that holds the lock of file f
  mgr,      \* mgr[p]: planMode_, dftPlanFilePath, planID and thePlan
  mtx,      \* mtx[p]: the thread that holds planManager.mtx
  pc, key, how, got,
  target,   \* target[t]: the file savePlan of thread t writes
  buf,      \* buf[t]: what thread t has written to the FILE* it has open
  calls, crashes,
  saved,    \* history: saved[f][s], what the last store of s into f stored
  known,    \* history: known[t], the path was saved when t looked it up
  made,     \* history: made[p], slots measured since setPlanFilePath
  lost      \* history: lost[p], those of them that a load has thrown away

request == <<key, how, target>>
bounds == <<calls, crashes>>
history == <<saved, known, made, lost>>
vars == <<disk, flock, mgr, mtx, pc, request, got, buf, bounds, history>>

Manager == [mode : SUBSET Flag, file : File \cup {NoFile}, id : Arch,
            plan : Plan]

\* PlanManager::PlanManager and the initial planMode_
NewManager == [mode |-> {"REFERTOENVVAR"}, file |-> NoFile,
               id |-> DefaultArch, plan |-> Empty]

\* PlanManager::setPlanFilePath: RESET clears the plans of this architecture.
SetPath(m, file, arch, mode) ==
  [mode |-> mode, file |-> file, id |-> arch,
   plan |-> IF "RESET" \notin mode THEN m.plan
            ELSE [m.plan EXCEPT !.path =
                    [s \in Slot |-> IF s[1] = arch THEN NoPath ELSE @[s]]]]

\* Loading and storing first look at the environment variable.
Refer(m) ==
  IF "REFERTOENVVAR" \in m.mode /\ EnvFile # NoFile
  THEN SetPath(m, EnvFile, DefaultArch, m.mode) ELSE m

\* Mutant of Read: the test of PLANFILEID is inverted
ReadInverted(m, content) ==
  IF ~content.id THEN [m EXCEPT !.plan = content] ELSE m

\* A file that carries PLANFILEID replaces all of thePlan.
Read(m, content) == IF content.id THEN [m EXCEPT !.plan = content] ELSE m

\* The slots that have a path in m and none in n
Gone(m, n) ==
  {s \in Slot : m.plan.path[s] # NoPath /\ n.plan.path[s] = NoPath}

\* File f exists and is a plan file.
Holds(f) == f \in DOMAIN disk /\ disk[f].id

Proc(t) == ProcessOf[t]
Mgr(t) == mgr[Proc(t)]
SlotOf(t) == <<Mgr(t).id, key[t]>>
Locking(m) == "NOLOCK" \notin m.mode
Put(plan, s, path) == [plan EXCEPT !.path[s] = path]

Between(t) == pc[t] \in {"idle", "ready"}
Saving(t) == pc[t] \in {"alock", "awrite", "aclose"}

\* setPlanFilePath and savePlan do not take mtx: the application calls them
\* while no other thread of the process is in the library.
Alone(t) == \A u \in Thread : Proc(u) = Proc(t) => Between(u)

Goto(t, label) == pc' = [pc EXCEPT ![t] = label]
SetMgr(t, m) == mgr' = [mgr EXCEPT ![Proc(t)] = m]

\* A load replaces thePlan by what m holds.
Load(t, m) ==
  /\ SetMgr(t, m)
  /\ lost' = [lost EXCEPT ![Proc(t)] =
                @ \cup (made[Proc(t)] \cap Gone(Mgr(t), m))]
TakeMtx(t) == /\ mtx[Proc(t)] = NoThread
              /\ mtx' = [mtx EXCEPT ![Proc(t)] = t]
DropMtx(t) == mtx' = [mtx EXCEPT ![Proc(t)] = NoThread]
Lock(t, f) == /\ flock[f] = NoThread
              /\ flock' = [flock EXCEPT ![f] = t]

\* Mutant of Unlock: the file lock is kept
UnlockForgotten(t) == UNCHANGED flock

Unlock(t) ==
  flock' = [f \in File |-> IF flock[f] = t THEN NoThread ELSE flock[f]]
Counted == calls < MaxCalls /\ calls' = calls + 1
Write(f, content) ==
  disk' = [g \in DOMAIN disk \cup {f} |-> IF g = f THEN content ELSE disk[g]]
-----------------------------------------------------------------------------
Init ==
  /\ disk \in OnDisk
  /\ flock = [f \in File |-> NoThread]
  /\ mgr = [p \in Process |-> NewManager]
  /\ mtx = [p \in Process |-> NoThread]
  /\ pc = [t \in Thread |-> "idle"]
  /\ key = [t \in Thread |-> CHOOSE k \in Key : TRUE]
  /\ how = [t \in Thread |-> "measure"]
  /\ got = [t \in Thread |-> NoPath]
  /\ target = [t \in Thread |-> NoFile]
  /\ buf = [t \in Thread |-> Empty]
  /\ calls = 0 /\ crashes = 0
  /\ saved = [f \in File |-> IF Holds(f) THEN disk[f].path ELSE NoPlan]
  /\ known = [t \in Thread |-> FALSE]
  /\ made = [p \in Process |-> {}]
  /\ lost = [p \in Process |-> {}]

\* SleefDFTXX or SleefDFT2DXX is constructed (longer than 2: the others have
\* no path).
StartInit(t, k, h) ==
  /\ Between(t) /\ Counted
  /\ \A u \in Thread : Proc(u) = Proc(t) => ~Saving(u)
  /\ Goto(t, "load")
  /\ key' = [key EXCEPT ![t] = k]
  /\ how' = [how EXCEPT ![t] = h]
  /\ got' = [got EXCEPT ![t] = NoPath]
  /\ UNCHANGED <<disk, flock, mgr, mtx, target, buf, crashes, history>>

\* loadMeasurementResults, loadPlanFromFile: lock mtx, open the file to read.
LoadOpen(t) ==
  /\ pc[t] = "load" /\ TakeMtx(t)
  /\ LET m == Refer(Mgr(t)) IN
     /\ Load(t, m)
     /\ known' = [known EXCEPT ![t] =
                    m.file \in File /\ saved[m.file][<<m.id, key[t]>>] # NoPath]
     /\ Goto(t, IF m.file \notin DOMAIN disk THEN "get"
                ELSE IF Locking(m) THEN "rlock" ELSE "read")
  /\ UNCHANGED <<disk, flock, request, got, buf, bounds, saved, made>>

LoadLock(t) ==
  /\ pc[t] = "rlock" /\ Lock(t, Mgr(t).file) /\ Goto(t, "read")
  /\ UNCHANGED <<disk, mgr, mtx, request, got, buf, bounds, history>>

LoadRead(t) ==
  /\ pc[t] = "read" /\ Goto(t, "get")
  /\ Load(t, Read(Mgr(t), disk[Mgr(t).file]))
  /\ Unlock(t)
  /\ UNCHANGED <<disk, mtx, request, got, buf, bounds, saved, known, made>>

\* Mutant of LoadGet: a missing path is not noticed
LoadGetUnchecked(t) ==
  /\ pc[t] = "get" /\ DropMtx(t) /\ Goto(t, "ready")
  /\ got' = [got EXCEPT ![t] = Mgr(t).plan.path[SlotOf(t)]]
  /\ UNCHANGED <<disk, flock, mgr, request, buf, bounds, history>>

\* PlanManager::get; a path that is found is taken by setPath.
LoadGet(t) ==
  LET path == Mgr(t).plan.path[SlotOf(t)] IN
  /\ pc[t] = "get" /\ DropMtx(t)
  /\ Goto(t, IF path = NoPath THEN "measure" ELSE "ready")
  /\ got' = [got EXCEPT ![t] = path]
  /\ UNCHANGED <<disk, flock, mgr, request, buf, bounds, history>>

\* measure: only a measured path is stored, an estimated one is not.
Measure(t, path) ==
  /\ pc[t] = "measure"
  /\ got' = [got EXCEPT ![t] = path]
  /\ Goto(t, IF how[t] = "measure" THEN "save" ELSE "ready")
  /\ LET new == IF how[t] = "measure" THEN {SlotOf(t)} ELSE {} IN
     /\ made' = [made EXCEPT ![Proc(t)] = @ \cup new]
     /\ lost' = [lost EXCEPT ![Proc(t)] = @ \ new]
  /\ UNCHANGED <<disk, flock, mgr, mtx, request, buf, bounds, saved, known>>

\* Mutants of SavePut: AUTOMATIC is not tested; the path is not put
SavePutAlways(t) ==
  /\ pc[t] = "save" /\ mtx[Proc(t)] = NoThread
  /\ SetMgr(t, [Mgr(t) EXCEPT !.plan = Put(@, SlotOf(t), got[t])])
  /\ Goto(t, "ready")
  /\ UNCHANGED <<disk, flock, mtx, request, got, buf, bounds, history>>

SavePutForgotten(t) ==
  /\ pc[t] = "save" /\ mtx[Proc(t)] = NoThread
  /\ "AUTOMATIC" \notin Mgr(t).mode
  /\ Goto(t, "ready")
  /\ UNCHANGED <<disk, flock, mgr, mtx, request, got, buf, bounds, history>>

\* saveMeasurementResults without AUTOMATIC: PlanManager::put, under mtx
SavePut(t) ==
  /\ pc[t] = "save" /\ mtx[Proc(t)] = NoThread
  /\ "AUTOMATIC" \notin Mgr(t).mode
  /\ SetMgr(t, [Mgr(t) EXCEPT !.plan = Put(@, SlotOf(t), got[t])])
  /\ Goto(t, "ready")
  /\ UNCHANGED <<disk, flock, mtx, request, got, buf, bounds, history>>

\* loadAndPutToFile without a file name returns false.
SaveNowhere(t) ==
  /\ pc[t] = "save" /\ mtx[Proc(t)] = NoThread
  /\ "AUTOMATIC" \in Mgr(t).mode /\ Refer(Mgr(t)).file = NoFile
  /\ SetMgr(t, Refer(Mgr(t)))
  /\ Goto(t, "ready")
  /\ UNCHANGED <<disk, flock, mtx, request, got, buf, bounds, history>>

\* Mutant of SaveOpen: the file is opened with "w+b" only
SaveOpenTruncating(t) ==
  LET m == Refer(Mgr(t)) IN
  /\ pc[t] = "save" /\ TakeMtx(t)
  /\ "AUTOMATIC" \in m.mode /\ m.file \in File
  /\ SetMgr(t, m)
  /\ Goto(t, "create")
  /\ UNCHANGED <<disk, flock, request, got, buf, bounds, history>>

\* loadAndPutToFile: fopen "r+b"
SaveOpen(t) ==
  LET m == Refer(Mgr(t)) IN
  /\ pc[t] = "save" /\ TakeMtx(t)
  /\ "AUTOMATIC" \in m.mode /\ m.file \in File
  /\ SetMgr(t, m)
  /\ Goto(t, IF m.file \notin DOMAIN disk THEN "create"
             ELSE IF Locking(m) THEN "slock" ELSE "update")
  /\ UNCHANGED <<disk, flock, request, got, buf, bounds, history>>

\* fopen "w+b" after "r+b" failed: it empties a file created meanwhile.
SaveCreate(t) ==
  /\ pc[t] = "create"
  /\ Write(Mgr(t).file, Empty)
  /\ Goto(t, IF Locking(Mgr(t)) THEN "slock" ELSE "update")
  /\ UNCHANGED <<flock, mgr, mtx, request, got, buf, bounds, history>>

SaveLock(t) ==
  /\ pc[t] = "slock" /\ Lock(t, Mgr(t).file) /\ Goto(t, "update")
  /\ UNCHANGED <<disk, mgr, mtx, request, got, buf, bounds, history>>

\* Mutant of Updated: only the new path is written
UpdatedAlone(m, content, s, path) ==
  [m EXCEPT !.plan = Put([Empty EXCEPT !.id = TRUE], s, path)]

\* Read the file back, put the path
Updated(m, content, s, path) ==
  [Read(m, content) EXCEPT !.plan = Put([@ EXCEPT !.id = TRUE], s, path)]

\* and write it all, into the FILE*'s buffer, before the lock is released.
SaveUpdate(t) ==
  LET m == Updated(Mgr(t), disk[Mgr(t).file], SlotOf(t), got[t]) IN
  /\ pc[t] = "update" /\ Goto(t, "close")
  /\ SetMgr(t, m)
  /\ buf' = [buf EXCEPT ![t] = m.plan]
  /\ Unlock(t)
  /\ UNCHANGED <<disk, mtx, request, got, bounds, history>>

\* fclose flushes the buffer; then mtx is released.
SaveClose(t) ==
  /\ pc[t] = "close" /\ Goto(t, "ready") /\ DropMtx(t)
  /\ Write(Mgr(t).file, buf[t])
  /\ buf' = [buf EXCEPT ![t] = Empty]
  /\ saved' = [saved EXCEPT ![Mgr(t).file][SlotOf(t)] = got[t]]
  /\ UNCHANGED <<flock, mgr, request, got, bounds, known, made, lost>>

\* SleefDFT_setPlanFilePath.  The plans constructed so far are returned to
\* the application: what is said of "ready" is said of plans since then.
SetPlanFilePath(t, s) ==
  /\ Alone(t) /\ Counted
  /\ ResetOnSwitch /\ s.file # NoFile =>
       Holds(s.file) \/ Mgr(t).plan.path = NoPlan
  /\ SetMgr(t, SetPath(Mgr(t), s.file, s.arch, s.mode))
  /\ pc' = [u \in Thread |-> IF Proc(u) = Proc(t) THEN "idle" ELSE pc[u]]
  /\ made' = [made EXCEPT ![Proc(t)] = {}]
  /\ lost' = [lost EXCEPT ![Proc(t)] = {}]
  /\ UNCHANGED <<disk, flock, mtx, request, got, buf, crashes, saved, known>>

\* SleefDFT_savePlan: fopen "wb" empties the file before it is locked.
SavePlan(t, f) ==
  /\ Alone(t) /\ Counted /\ Goto(t, "alock")
  /\ target' = [target EXCEPT ![t] = f]
  /\ Write(f, Empty)
  /\ saved' = [saved EXCEPT ![f] = NoPlan]
  /\ UNCHANGED <<flock, mgr, mtx, key, how, got, buf, crashes>>
  /\ UNCHANGED <<known, made, lost>>

SavePlanLock(t) ==
  /\ pc[t] = "alock" /\ Lock(t, target[t]) /\ Goto(t, "awrite")
  /\ UNCHANGED <<disk, mgr, mtx, request, got, buf, bounds, history>>

SavePlanWrite(t) ==
  LET plan == [Mgr(t).plan EXCEPT !.id = TRUE] IN
  /\ pc[t] = "awrite" /\ Goto(t, "aclose") /\ Unlock(t)
  /\ SetMgr(t, [Mgr(t) EXCEPT !.plan = plan])
  /\ buf' = [buf EXCEPT ![t] = plan]
  /\ UNCHANGED <<disk, mtx, request, got, bounds, history>>

SavePlanClose(t) ==
  /\ pc[t] = "aclose" /\ Goto(t, "idle")
  /\ Write(target[t], buf[t])
  /\ saved' = [saved EXCEPT ![target[t]] = buf[t].path]
  /\ buf' = [buf EXCEPT ![t] = Empty]
  /\ UNCHANGED <<flock, mgr, mtx, request, got, bounds, known, made, lost>>

\* Process p dies and is started again: memory, locks and buffers are lost.
Crash(p) ==
  /\ crashes < MaxCrashes /\ crashes' = crashes + 1
  /\ mgr' = [mgr EXCEPT ![p] = NewManager]
  /\ mtx' = [mtx EXCEPT ![p] = NoThread]
  /\ flock' = [f \in File |-> IF flock[f] \in Thread /\ Proc(flock[f]) = p
                             THEN NoThread ELSE flock[f]]
  /\ pc' = [t \in Thread |-> IF Proc(t) = p THEN "idle" ELSE pc[t]]
  /\ got' = [t \in Thread |-> IF Proc(t) = p THEN NoPath ELSE got[t]]
  /\ buf' = [t \in Thread |-> IF Proc(t) = p THEN Empty ELSE buf[t]]
  /\ made' = [made EXCEPT ![p] = {}]
  /\ lost' = [lost EXCEPT ![p] = {}]
  /\ UNCHANGED <<disk, request, calls, saved, known>>

\* What the library does by itself once it has been called
Work(t) ==
  \/ LoadOpen(t) \/ LoadLock(t) \/ LoadRead(t) \/ LoadGet(t)
  \/ \E path \in Path : Measure(t, path)
  \/ SavePut(t) \/ SaveNowhere(t)
  \/ SaveOpen(t) \/ SaveCreate(t) \/ SaveLock(t)
  \/ SaveUpdate(t) \/ SaveClose(t)
  \/ SavePlanLock(t) \/ SavePlanWrite(t) \/ SavePlanClose(t)

Application(t) ==
  \/ \E k \in Key, h \in How : StartInit(t, k, h)
  \/ \E s \in Settings : SetPlanFilePath(t, s)
  \/ \E f \in Targets : SavePlan(t, f)

Next ==
  \/ \E t \in Thread : Application(t) \/ Work(t)
  \/ \E p \in Process : Crash(p)

Spec == Init /\ [][Next]_vars

\* A thread that can go on does: mtx and flock are held for a few steps only,
\* and the number of calls that compete for them is finite.
FairSpec == Spec /\ \A t \in Thread : WF_vars(Work(t))

-----------------------------------------------------------------------------
Label == {"idle", "load", "rlock", "read", "get", "measure", "save", "create",
          "slock", "update", "close", "ready", "alock", "awrite", "aclose"}

TypeOK ==
  /\ DOMAIN disk \subseteq File /\ \A f \in DOMAIN disk : disk[f] \in Plan
  /\ flock \in [File -> Thread \cup {NoThread}]
  /\ mgr \in [Process -> Manager]
  /\ mtx \in [Process -> Thread \cup {NoThread}]
  /\ pc \in [Thread -> Label]
  /\ key \in [Thread -> Key] /\ how \in [Thread -> How \cup {"measure"}]
  /\ got \in [Thread -> Path \cup {NoPath}]
  /\ target \in [Thread -> File \cup {NoFile}]
  /\ buf \in [Thread -> Plan]
  /\ calls \in 0..MaxCalls /\ crashes \in 0..MaxCrashes
  /\ saved \in [File -> [Slot -> Path \cup {NoPath}]]
  /\ known \in [Thread -> BOOLEAN]
  /\ made \in [Process -> SUBSET Slot] /\ lost \in [Process -> SUBSET Slot]
  /\ \A t \in Thread : pc[t] = "ready" => got[t] # NoPath

\* A path that was stored stays in its file, whatever is stored next to it,
\* and whenever the process dies.
SavedStays ==
  \A f \in File, s \in Slot :
    saved[f][s] # NoPath => Holds(f) /\ disk[f].path[s] = saved[f][s]

\* A path that was in the plan file when the constructor looked for it is not
\* measured again: plans are generated only if they do not exist.
NotRegenerated == \A t \in Thread : pc[t] = "measure" => ~known[t]

\* With AUTOMATIC, the path a measured plan got is in the file chosen, so that
\* a later process gets the same.
ReadyIsStored ==
  \A t \in Thread :
    LET m == Mgr(t) IN
    (/\ pc[t] = "ready" /\ how[t] = "measure"
     /\ "AUTOMATIC" \in m.mode /\ m.file # NoFile) =>
      Holds(m.file) /\ disk[m.file].path[SlotOf(t)] = got[t]

\* savePlan writes every path measured since setPlanFilePath that no load has
\* thrown away: whatever the threads of the process do, between measure and
\* savePlan only a load loses a path.
SavePlanComplete ==
  \A t \in Thread : pc[t] = "aclose" /\ "AUTOMATIC" \notin Mgr(t).mode =>
    \A s \in made[Proc(t)] \ lost[Proc(t)] : buf[t].path[s] # NoPath

\* What the documentation of SleefDFT_savePlan says: without AUTOMATIC it
\* saves the generated plan, all that was measured since setPlanFilePath.
ManualSaveComplete ==
  \A t \in Thread : pc[t] = "aclose" /\ "AUTOMATIC" \notin Mgr(t).mode =>
    \A s \in made[Proc(t)] : buf[t].path[s] # NoPath

\* What a user can load: a file that is no plan file has no paths.
Loadable == [f \in File |-> IF Holds(f) THEN disk[f].path ELSE NoPlan]

\* Seen from outside, a plan file only ever gets paths recorded in it.
Store == INSTANCE PlanStore WITH store <- Loadable

ImplementsStore == Store!Spec

\* Whoever waits for mtx or a file lock gets it: a constructor returns.
InitReturns ==
  \A t \in Thread : pc[t] = "load" ~> pc[t] = "ready"
=============================================================================
