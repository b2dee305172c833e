---------------------------- MODULE PlanLifecycle ----------------------------
(***************************************************************************)
(* The life of execution plans: a 1D or 2D plan is constructed from a path *)
(* that was stored or is searched for, its path may be replaced, and it is *)
(* disposed.  What the planner finds is any of the paths DFTPlanner may    *)
(* return; the plan manager is reduced to the strings it holds by key.     *)
(***************************************************************************)
EXTENDS Integers, Sequences, FiniteSets, PathStrings

CONSTANTS
  Handle,      \* pointers to SleefDFT that the application holds
  ISA,         \* ISA[i]: priority and log2 of the vector width; 1 is pure C
  EnableStream,   \* ENABLE_STREAM
  Requests1D,  \* arguments of init1d: [log2len, real, mt, measure]
  Requests2D,  \* arguments of init2d: [log2vlen, log2hlen, mt, measure]
  ForeignPaths,\* setPath may get the path of another plan
  MaxStored    \* bound: paths that are measured and stored

ASSUME LifecycleAssumption ==
  /\ MaxButWidth \in 1..7 /\ EnableStream \in BOOLEAN
  /\ ISA \in Seq([priority : Nat, log2vecwidth : 0..MaxButWidth])
  /\ ISA # <<>> /\ ISA[1].log2vecwidth = 0
  /\ Requests1D \subseteq
       [log2len : Nat, real : BOOLEAN, mt : BOOLEAN, measure : BOOLEAN]
  /\ Requests2D \subseteq
       [log2vlen : Nat, log2hlen : Nat, mt : BOOLEAN, measure : BOOLEAN]

VARIABLES
  store,   \* thePlan: the strings of this computer, by key
  kind,    \* kind[h]: "none", "1d" or "2d"
  size,    \* size[h]: the arguments of init2d, if kind[h] is "2d"
  planMT,  \* planMT[h] of a 2D plan
  obj,     \* the SleefDFTXX objects that exist, by handle and role
  mem,     \* blocks of memory that are allocated
  wild     \* history: memory was used or freed that was not allocated

vars == <<store, kind, size, planMT, obj, mem, wild>>

P(log2len, log2vecwidth, mt) ==
  INSTANCE DFTPlanner WITH
    NPaths <- 1, Instances <- {}, Weights <- {},
    inst <- [log2len |-> log2len, log2vecwidth |-> log2vecwidth, mt |-> mt,
             stream |-> EnableStream, mode |-> "measure"],
    weight <- 0, heap <- {}, reached <- {}, round <- 0, status <- "search",
    found <- 0, best <- 0, tries <- 0

NoString == <<>>
NoPath == <<>>
NoSize == [log2vlen |-> 0, log2hlen |-> 0, mt |-> FALSE, measure |-> FALSE]

\* planKeyString: the second size of a 1D transform is written as 0.
Key1D(r) == <<r.real, r.mt, r.log2len, 0>>

Key2D(r) == <<FALSE, r.mt, r.log2hlen, r.log2vlen>>

Stored(key) == IF key \in DOMAIN store THEN store[key] ELSE NoString

\* The chains of passes from level down, all with or all without threads
Chains(passes, level) ==
  LET from[k \in 0..level] ==
        IF k = 0 THEN {NoPath}
        ELSE UNION {{<<a>> \o p : p \in
               {q \in from[k - a.N] : q = NoPath \/
                  (q[1].config >= 2) = (a.config >= 2)}} :
             a \in {b \in passes : b.level = k}}
  IN  from[level]

\* The passes that measure() marks for an object
Marked(o) ==
  LET w == ISA[o.isa].log2vecwidth IN
  UNION {P(o.log2len, w, o.mt)!Passes(k) : k \in 1..o.log2len}

\* What passes may look like that nobody has marked
AnyPass(o) ==
  {a \in [config : 0..3, level : 1..o.log2len, N : 1..MaxButWidth] :
     a.N <= a.level /\ a.N < o.log2len}

\* The instruction set of the highest priority whose vectors fit twice
BestIsa(log2len) ==
  CHOOSE i \in DOMAIN ISA :
    /\ 2 * ISA[i].log2vecwidth <= log2len
    /\ \A k \in DOMAIN ISA : 2 * ISA[k].log2vecwidth <= log2len =>
         ISA[k].priority <= ISA[i].priority

\* generatePerm: for each pass of the path the table of its level
Permuted(o) ==
  [o EXCEPT !.perm = [k \in 1..o.log2len |->
     LET at == {i \in 1..Len(o.path) : o.path[i].level = k} IN
     IF at = {} THEN o.perm[k] ELSE o.path[CHOOSE i \in at : TRUE].N]]

\* SleefDFTXX::setPath: a string that cannot be read changes nothing.
SetPath1D(o, s) ==
  LET p == ParsePathStr(s, o.log2len) IN
  IF p = Malformed THEN o ELSE [o EXCEPT !.path = p]

\* The object before a path is known; its table of executable passes is new
\* memory.  Lengths 1 and 2 have no tables and buffers.
Fresh(r) ==
  [log2len |-> r.log2len, real |-> r.real, mt |-> r.mt, path |-> NoPath,
   isa |-> IF r.log2len <= 1 THEN 1 ELSE BestIsa(r.log2len),
   perm |-> [k \in 1..r.log2len |-> 0], marked |-> FALSE, buffers |-> TRUE]

\* Passes of one thread that are as wide as the vector can start a path.
HasStart(o) == \E a \in Marked(o) : a.level = o.log2len /\ a.config = 0

\* measure(): the search ends with some chain of marked passes.  If there is
\* none the tables are made for pure C; freeTables has freed x0 and x1, too.
Measured(o) ==
  LET p == IF HasStart(o) THEN o ELSE [o EXCEPT !.isa = 1, !.buffers = FALSE] IN
  {[p EXCEPT !.marked = TRUE, !.path = q] : q \in Chains(Marked(p), p.log2len)}

\* Mutant of Constructed: no tables for a path that was loaded
ConstructedLoadedBare(r) ==
  LET o == Fresh(r) IN
  IF r.log2len <= 1 THEN {o}
  ELSE IF Stored(Key1D(r)) # NoString
  THEN {SetPath1D(o, Stored(Key1D(r)))}
  ELSE {Permuted(m) : m \in Measured(o)}

\* SleefDFTXX::SleefDFTXX
Constructed(r) ==
  LET o == Fresh(r) IN
  IF r.log2len <= 1 THEN {o}
  ELSE IF Stored(Key1D(r)) # NoString
  THEN {Permuted(SetPath1D(o, Stored(Key1D(r))))}
  ELSE {Permuted(m) : m \in Measured(o)}

\* What the search of a 2D plan returns for one direction: it relies on the
\* marks in the object, and where nobody made them it may return anything.
FoundFor(o) ==
  IF o.log2len <= 1 THEN {NoPath}
  ELSE IF o.marked THEN Chains(Marked(o), o.log2len)
  ELSE {NoPath} \cup Chains(AnyPass(o), o.log2len)

\* The blocks of an object, without and with the object itself
Blocks(id, o) ==
  IF o.log2len <= 1 THEN {<<id, "this">>}
  ELSE {<<id, b>> : b \in {"this", "perm", "tbl"}}
         \cup (IF o.buffers THEN {<<id, "x0, x1">>} ELSE {})
         \cup (IF o.real THEN {<<id, "rtCoef">>} ELSE {})

\* What ~SleefDFTXX frees; x0 and x1 are dereferenced on the way.
Freed(id, o) == Blocks(id, [o EXCEPT !.buffers = TRUE])

-----------------------------------------------------------------------------
Init ==
  /\ store = [k \in {} |-> NoString]
  /\ kind = [h \in Handle |-> "none"]
  /\ size = [h \in Handle |-> NoSize]
  /\ planMT = [h \in Handle |-> FALSE]
  /\ obj = [id \in {} |-> 0]
  /\ mem = {} /\ wild = FALSE

\* There is room for what a plan that is measured will store.
Room(r, key) ==
  r.measure /\ Stored(key) = NoString => Cardinality(DOMAIN store) < MaxStored

With(f, k, v) == [x \in DOMAIN f \cup {k} |-> IF x = k THEN v ELSE f[x]]

\* saveMeasurementResults: the path of a measured plan is put into the store.
\* An empty string counts as no string when it is looked up.
Save(key, s) == store' = With(store, key, s)

\* Paths are saved by measure(), so not when one was loaded.
SavesOwn(r) == r.log2len > 1 /\ r.measure /\ Stored(Key1D(r)) = NoString

\* SleefDFT_double_init1d
Init1D(h, r) ==
  /\ kind[h] = "none" /\ Room(r, Key1D(r))
  /\ \E o \in Constructed(r) :
       /\ obj' = With(obj, <<h, "1d">>, o)
       /\ mem' = mem \cup Blocks(<<h, "1d">>, o)
       /\ IF SavesOwn(r) THEN Save(Key1D(r), PathString(o.path))
                         ELSE UNCHANGED store
       \* a plan that is measured after the fall-back uses x0 and x1
       /\ wild' = (wild \/ (r.measure /\ ~o.buffers))
  /\ kind' = [kind EXCEPT ![h] = "1d"]
  /\ UNCHANGED <<size, planMT>>

\* The objects for the rows and the columns: estimated, without threads
Direction(log2len) ==
  [log2len |-> log2len, real |-> FALSE, mt |-> FALSE, measure |-> FALSE]

\* The roles of the objects of a 2D plan; a square plan has one object.
Roles(r) == IF r.log2hlen = r.log2vlen THEN {"H"} ELSE {"H", "V"}

Length(r, role) == IF role = "H" THEN r.log2hlen ELSE r.log2vlen

\* A path was given to each direction; a square plan takes the second one.
SetPath2D(objs, r, s) ==
  [role \in Roles(r) |->
     IF ~HasPaths(s) THEN objs[role]
     ELSE IF role = "V" THEN SetPath1D(objs[role], PathV(s))
     ELSE LET o == SetPath1D(objs[role], PathH(s)) IN
          IF "V" \in Roles(r) THEN o ELSE SetPath1D(o, PathV(s))]

GetPath2D(objs, mt) ==
  Path2DString(mt, PathString(objs["H"].path),
    PathString(objs[IF "V" \in DOMAIN objs THEN "V" ELSE "H"].path))

\* The paths, planMT and the string to save of a 2D plan whose objects have
\* been constructed.  setPath does nothing where it finds no number.
Loaded2D(objs, r, s) ==
  {[objs |-> IF HasNumber(s) THEN SetPath2D(objs, r, s) ELSE objs,
    mt |-> HasNumber(s) /\ PlanMT(s), save |-> FALSE]}

\* The ways to choose an element of F(role) for each role
ForEach(R, F(_)) ==
  {f \in [R -> UNION {F(role) : role \in R}] :
     \A role \in R : f[role] \in F(role)}

\* ULLONG_MAX stands for the time with threads if they are not allowed.
Measured2D(objs, r) ==
  {[objs |-> [role \in Roles(r) |-> [objs[role] EXCEPT !.path = q[role]]],
    mt |-> mt, save |-> TRUE] :
     q \in ForEach(Roles(r), LAMBDA role : FoundFor(objs[role])),
     mt \in {FALSE, r.mt}}

Estimated2D(objs, r) ==
  {[objs |-> objs, mt |-> r.log2hlen + r.log2vlen >= 14, save |-> FALSE]}

Planned2D(objs, r) ==
  LET s == Stored(Key2D(r)) IN
  IF s # NoString THEN Loaded2D(objs, r, s)
  ELSE IF r.measure THEN Measured2D(objs, r) ELSE Estimated2D(objs, r)

\* SleefDFT_double_init2d
Init2D(h, r) ==
  /\ kind[h] = "none" /\ Room(r, Key2D(r))
  /\ \E made \in ForEach(Roles(r),
                   LAMBDA role : Constructed(Direction(Length(r, role)))) :
     \E plan \in Planned2D(made, r) :
       LET objs == [role \in Roles(r) |-> Permuted(plan.objs[role])] IN
       /\ obj' = [id \in DOMAIN obj \cup {<<h, role>> : role \in Roles(r)} |->
                    IF id \in DOMAIN obj THEN obj[id] ELSE objs[id[2]]]
       /\ mem' = mem \cup {<<<<h, "2d">>, b>> : b \in {"this", "tBuf"}}
                   \cup UNION {Blocks(<<h, role>>, objs[role]) :
                                  role \in Roles(r)}
       /\ planMT' = [planMT EXCEPT ![h] = plan.mt]
       /\ IF plan.save THEN Save(Key2D(r), GetPath2D(objs, plan.mt))
                       ELSE UNCHANGED store
       /\ wild' = \/ wild
                   \/ (r.measure /\ \E role \in Roles(r) : ~objs[role].buffers)
  /\ kind' = [kind EXCEPT ![h] = "2d"]
  /\ size' = [size EXCEPT ![h] = r]

\* The objects of handle h
Own(h) == {id \in DOMAIN obj : id[1] = h}
ObjsOf(h) == [role \in {id[2] : id \in Own(h)} |-> obj[<<h, role>>]]

\* SleefDFT_getPath
GetPath(h) ==
  IF kind[h] = "1d" THEN PathString(obj[<<h, "1d">>].path)
  ELSE GetPath2D(ObjsOf(h), planMT[h])

\* SleefDFT_setPath: bestPath is replaced, and nothing else.
SetPath(h, s) ==
  /\ kind[h] # "none"
  /\ IF kind[h] = "1d"
     THEN /\ obj' = [obj EXCEPT ![<<h, "1d">>] = SetPath1D(@, s)]
          /\ UNCHANGED planMT
     ELSE IF HasNumber(s)
     THEN LET objs == SetPath2D(ObjsOf(h), size[h], s) IN
          /\ obj' = [id \in DOMAIN obj |->
                       IF id[1] = h THEN objs[id[2]] ELSE obj[id]]
          /\ planMT' = [planMT EXCEPT ![h] = PlanMT(s)]
     ELSE UNCHANGED <<obj, planMT>>
  /\ UNCHANGED <<store, kind, size, mem, wild>>

\* Mutant of Deleted: the destructor does not compare hlen and vlen
DeletedBoth(h) ==
  IF kind[h] = "1d" THEN {<<h, "1d">>} ELSE {<<h, "H">>, <<h, "V">>}

\* The SleefDFTXX objects that the destructors delete
Deleted(h) ==
  IF kind[h] = "1d" THEN {<<h, "1d">>}
  ELSE {<<h, role>> : role \in Roles(size[h])}

\* All blocks they free
ReleasedBlocks(h) ==
  (UNION {Freed(id, obj[id]) : id \in Deleted(h) \cap DOMAIN obj})
    \cup (IF kind[h] = "2d" THEN {<<<<h, "2d">>, b>> : b \in {"this", "tBuf"}}
                            ELSE {})

\* SleefDFT_dispose
Dispose(h) ==
  /\ kind[h] # "none"
  /\ mem' = mem \ ReleasedBlocks(h)
  /\ wild' = (wild \/ ~(Deleted(h) \subseteq DOMAIN obj)
                   \/ ~(ReleasedBlocks(h) \subseteq mem))
  /\ obj' = [id \in DOMAIN obj \ Own(h) |-> obj[id]]
  /\ kind' = [kind EXCEPT ![h] = "none"]
  /\ planMT' = [planMT EXCEPT ![h] = FALSE]
  /\ size' = [size EXCEPT ![h] = NoSize]
  /\ UNCHANGED store

Next ==
  \E h \in Handle :
    \/ \E r \in Requests1D : Init1D(h, r)
    \/ \E r \in Requests2D : Init2D(h, r)
    \/ \E g \in Handle :
         (ForeignPaths \/ g = h) /\ kind[g] # "none" /\ SetPath(h, GetPath(g))
    \/ Dispose(h)

Spec == Init /\ [][Next]_vars
-----------------------------------------------------------------------------
TypeOK ==
  /\ kind \in [Handle -> {"none", "1d", "2d"}]
  /\ planMT \in [Handle -> BOOLEAN] /\ wild \in BOOLEAN
  /\ \A id \in DOMAIN obj : /\ id[1] \in Handle /\ id[2] \in {"1d", "H", "V"}
                            /\ obj[id].isa \in DOMAIN ISA
  /\ \A key \in DOMAIN store : store[key] # NoString

\* Every plan the application holds can be executed: the path is a chain of
\* passes for which there are functions and tables, wherever it came from.
\* This is what the model of the execution assumes of a plan, and what
\* docs/dft.xhtml:478-479 promises of one.  It fails where a 1D plan was stored
\* with the key of the rows of a 2D plan that is measured (MCSharedKeys).
PathsRunnable ==
  \A id \in DOMAIN obj : LET o == obj[id] IN
    o.log2len > 1 => o.path \in Chains(Marked(o), o.log2len)

\* The permutation table of each pass but the last, which takes none, has been
\* generated for the width of that pass.
TablesFit ==
  \A id \in DOMAIN obj : \A k \in 1..(Len(obj[id].path)-1) :
    LET a == obj[id].path[k] IN obj[id].perm[a.level] = a.N

\* No plan falls back to pure C after its instruction set was chosen, so that
\* none is left without scratch buffers.
NoFallBack == \A id \in DOMAIN obj : obj[id].buffers

\* Every plan the application holds is of its type and has a path that can be
\* executed, the tables for it, and scratch buffers.
PlansRunnable == TypeOK /\ PathsRunnable /\ TablesFit /\ NoFallBack

\* What is allocated belongs to a plan the application holds, and nothing is
\* freed or used that is not allocated.
MemoryBalanced ==
  /\ ~wild
  /\ mem = (UNION {Blocks(id, obj[id]) : id \in DOMAIN obj})
             \cup {<<<<h, "2d">>, b>> : h \in {g \in Handle : kind[g] = "2d"},
                                        b \in {"this", "tBuf"}}

\* The keys under which the objects of a 2D plan look for their paths
DirectionKeys(r) ==
  {Key1D(Direction(Length(r, role))) :
     role \in {o \in Roles(r) : Length(r, o) > 1}}

\* Whoever may look up a stored string can read it, and completely: 1D plans,
\* the objects of 2D plans, and 2D plans.
StoredReadable ==
  \A key \in DOMAIN store :
    LET Reads(log2len, s) ==
          log2len > 1 => ParsePathStr(s, log2len) # Malformed
    IN
    /\ \A r \in Requests1D :
         key = Key1D(r) => Reads(r.log2len, store[key])
    /\ \A r \in Requests2D :
         /\ key \in DirectionKeys(r) => Reads(key[3], store[key])
         /\ key = Key2D(r) => /\ HasNumber(store[key]) /\ HasPaths(store[key])
                              /\ Reads(r.log2hlen, PathH(store[key]))
                              /\ Reads(r.log2vlen, PathV(store[key]))

\* The key of the plan h has
KeyOf(h) == IF kind[h] = "1d" THEN Key1D(obj[<<h, "1d">>]) ELSE Key2D(size[h])

\* A plan gets the path that is stored for it, as the test of the planner
\* compares: what was measured is saved, and what was saved is used.
StoredIsUsed ==
  [][\A h \in Handle :
       /\ kind[h] = "none" /\ kind'[h] # "none"
       /\ KeyOf(h)' \in DOMAIN store'
       => GetPath(h)' = store'[KeyOf(h)']]_vars

-----------------------------------------------------------------------------
(* planKeyString gives plans of different kinds the same key: a 2D plan    *)
(* with columns of length 1 that of the 1D plan of its rows, and the rows  *)
(* and columns of a 2D plan, which are complex and run without threads,    *)
(* that of such a 1D plan.  The requests are apart if no 1D and 2D plan    *)
(* share a key one of them stores under, no 2D plan stores what a          *)
(* direction looks up, and no 1D plan what a direction of a measured 2D    *)
(* plan does.  A direction of an estimated one may take a 1D plan's path.  *)
KeysApart ==
  /\ \A r \in Requests1D, c \in Requests2D :
       /\ r.measure \/ c.measure => Key1D(r) # Key2D(c)
       /\ r.measure /\ c.measure => Key1D(r) \notin DirectionKeys(c)
  /\ \A c, d \in Requests2D : c.measure => Key2D(c) \notin DirectionKeys(d)
=============================================================================
