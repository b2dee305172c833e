# SLEEF in TLA+

SLEEF is a library of vectorized elementary functions (`src/libm`,
`src/quad`) with a library of discrete Fourier transforms on top of it
(`src/dft`).  What has state, threads, files, signals and search is in the DFT
library and in the code that finds out what the CPU can do: half of these modules
are about it, and the proofs.  The other half is about what is computed: the
network of a transform in exact arithmetic, the functions that handle the bits
of floating-point numbers in a small format, and of the elementary functions
everything but the polynomials: how arguments are reduced and how results are
put together from what the polynomials return.
Paths below are relative to the root of the repository.

## 1. Inventory

| Component | Source | State | Operations | What makes it correct |
|---|---|---|---|---|
| 1D execution | `SleefDFTXX::execute`, `src/dft/dft.cpp:1247` | the plan (path of passes, mode); per call the locals `nb`, `lb`, `level` and the scratch buffers `x0[tn]`, `x1[tn]` | one call: REALSUB1, a pass per action of the path, REALSUB0 | the result is in `d0`, no pass works in place, the input is kept, threads do not disturb each other |
| 2D execution | `SleefDFT2DXX::execute`, `transpose`, `transposeMT` | `tBuf`, the caller's buffers | four loops, each parallel or not | each element ends transformed at its place; no data race |
| Planner | `KShortest`, `QuickFinder`, `PathEstimator`, `measure`, `searchFor*` | heap and costs of the best-first search, best path | estimate, measure, random path | a plan is always found, it can be dispatched, the estimate is optimal |
| Plan manager | `PlanManager`, `src/dft/dftcommon.cpp:315` | `thePlan`, `planMode_`, `planID`, the file name, `mtx`; the plan files and their locks | setPlanFilePath, load, put, loadAndPut, savePlan | what was stored is found again; nothing is lost to threads, processes or crashes |
| Probing of the CPU | `checkISAAvailability`, `src/common/commonxx.cpp` | the handler of SIGILL, two `sigjmp`, two mutexes, caches | ask for an extension | right answers, nobody is killed, the handler is restored |
| Start-up barrier | `startAllThreads`, `src/dft/dft.cpp:71` | flags | one call before a threaded path is timed | nobody passes early; it returns |
| Plan construction and disposal | constructors, destructors, `setPath`, `dft.cpp:1007-1240`, `dftcommon.cpp:100-240` | the objects of a plan, their tables, permutations and buffers; the stored paths | init, fall-back to ISA 0, getPath, setPath, dispose | all of what execute uses is allocated once and freed once; the tables fit the path |
| Tables and permutations | `makeTable`, `uperm`, `generatePerm` | none | pure | each factor is where a pass looks for it, permutations are permutations |
| Kernels | `src/dft/unroll*.in`, `dispatch`, `realSub0`, `realSub1` | none | one butterfly or pass each | together they compute the transform |
| Path strings, plan files as bytes | `parsePathStr`, `to_string`, `serializer.hpp` | none | pure | what is written is read back |
| Dispatchers | `src/libm/dispatcher.h`, `src/quad/qdispatcher.h` | a function pointer per function | first and later calls | the pointer changes once, to code the CPU can run |
| Functions on bits | rounding, `nextafter`, `frexp`, `ldexp`, `fmod`, `hypot`, ..., `src/libm/sleefsimd[ds]p.c`, `src/common/commonfuncs.h` | the loops' locals | pure | exact results, special cases |
| Elementary functions | `src/libm/sleefsimddp.c`, `sleefsimdsp.c` | none | pure, for all lanes of a vector | error bounds, special cases, each lane gets its own result |
| Double-double arithmetic | `src/common/dd.h`, `df.h` | none | pure | the errors of sums and products are exact |
| Vector helpers | `src/arch` | none | one intrinsic each | the same operation on every instruction set |
| Quad-precision functions | `src/quad` | none | pure, on triple-double numbers with an exponent of 64 bits | error bounds, special cases, results out of range |
| Generators, testers | `src/gencoef`, `mk*.c`, `src/*-tester` | none | off-line | text output |

### How they interact

`SleefDFT_init*` constructs a plan: it probes the instruction sets
(*CpuProbe*), allocates tables whose coefficients it computes with
`Sleef_sincospi_u05`, which goes through a dispatcher and so through the other
prober, then asks the plan manager for a path (*PlanManager*); if there is none
it runs the planner (*DFTPlanner*), which in measure mode times paths, after
`startAllThreads` (*StartAllThreads*) for those with several threads; and it
stores the path that was found.  `SleefDFT_execute` runs the path
(*DFTExecute*); a 2D plan runs two 1D plans on all rows, in parallel loops
(*DFT2DExecute*), so that several threads are in one 1D plan at once.  A thread
hands work to another only through the buffers; processes meet only in a plan
file.

### What is hard

* One plan is executed by several threads, and a path may have any parity:
  which of three buffers the first pass writes decides whether the last one
  writes `d`.
* The OpenMP loops of a 2D plan follow each other with nothing but the implicit
  barrier between them.
* The search is pruned (a pass is pushed once), and it must not prune the best
  path or end without one.
* A plan is looked up, measured and stored in three steps, with `mtx` released
  in between; a file is read, changed and written back under a lock that is
  released before the buffer is flushed; a process may die anywhere.
* SIGILL is a property of the process; a handler is installed, a fault taken
  and a jump made out of the handler while a mutex is held.
* A spin barrier within a parallel loop needs a thread per iteration.
* A function pointer that several threads find unset at once is set by each.
* A plan gets its path from one of four places, its tables from another; a 2D
  plan shares one object for rows and columns if it is square.
* A vector function computes every case for all lanes and selects; a lane goes
  through reductions and loops that only its neighbours need.
* Offsets into tables of twiddle factors depend on length, level, width of the
  butterfly and of the vector.

`PROJECT.json` lists these and the others as hazards, at their lines.

## 2. Modules

| Module | Models | Uses |
|---|---|---|
| `DFTExecute` | a 1D plan executed by threads | |
| `DFTExecuteProofs` | theorems about it | `DFTExecute` |
| `DFT2DExecute` | a 2D plan executed by a team | |
| `DFT2DExecuteProofs` | theorems about it | `DFT2DExecute` |
| `Butterflies` | every butterfly kernel, and the tables of kernels | |
| `DFTTransform` | what a 1D plan computes: tables, permutations, passes | `Butterflies` |
| `DFTPlanner` | the search for a path | |
| `DFTPlannerProofs` | theorems about it | `DFTPlanner` |
| `PathStrings` | a path as the text that is stored | |
| `PlanLifecycle` | construction, setPath, disposal of plans | `DFTPlanner`, `PathStrings` |
| `PlanLifecycleProofs` | theorems about it | `PlanLifecycle` |
| `PlanManager` | threads, processes, memory and files | `PlanStore` |
| `PlanManagerProofs` | theorems about it, and that it refines `PlanStore` | `PlanManager` |
| `PlanStore` | what a user of plan files counts on (abstract) | |
| `CpuProbe` | the two probers and SIGILL | |
| `Dispatcher` | function pointers set on the first call | `CpuProbe` |
| `DispatcherProofs` | theorems about both, and that it refines `CpuProbe` | `Dispatcher` |
| `StartAllThreads` | the spin barrier | |
| `StartAllThreadsProofs` | theorems about it | `StartAllThreads` |
| `MiniFloat` | binary floating point in a small format | |
| `FloatFunctions` | functions with exact results, double-double arithmetic | `MiniFloat` |
| `ExtendedIntegers` | integers with -0, infinities and NaN, in the place of numbers | |
| `Trigonometry` | sines, cosines, tangents: reductions and quadrants | `ExtendedIntegers` |
| `InverseTrigonometry` | arc sine, cosine, tangent and atan2: quadrants and special cases | `ExtendedIntegers` |
| `Exponentials` | exponentials, logarithms, powers, cube roots: scaling and special cases | `ExtendedIntegers` |
| `Hyperbolics` | what is made of them: expm1, log1p, hyperbolic functions and their inverses | `Exponentials` |
| `ElementaryProofs` | theorems about the last four | `Trigonometry`, `InverseTrigonometry`, `Hyperbolics` |
| `MC*` | instances for TLC | the module named |

Each of these has one action per step that another actor could observe.  Steps
of one thread on data that is its own are one action.  The mutants (`Mutant of
...`) are definitions that a plausible mistake would have put in the place of
the next one; nothing uses them, they are there to see that a property notices.

### DFTExecute

`pc`, `nb`, `lb`, `level`, `j` are the locals of `execute`.  `content[b]` says
how far the transform in buffer `b` has got: the level the next pass expects,
and whether the pre- or post-processing of real transforms has been applied;
anything else is `Junk`.  A pass yields `Junk` if it works in place (the kernels
take `RESTRICT` pointers) or reads data of another level.  `Begin` is the code up
to the loop, `Dispatch` one iteration, `Finish` the code behind it;
`ExecuteSmall` is the branch for the lengths 1 and 2, which uses no pass.
`IsPlan` is what *DFTPlanner* shows of a path (`SearchSound`, `ResultIsPlan`) and
*PlanLifecycle* of every plan an application holds (`PlansRunnable`).
`TnAssumption` is what the code takes for granted of OpenMP: the team has no more
threads than were counted at construction.

### DFT2DExecute

The state is the element found at each index of `s`, `tBuf` and `d`, with its
place in the matrix and whether its row and column have been transformed.  An
iteration of a loop reads its rows (`BeginIteration`) and writes its result (`End`), with
other threads in between; `Barrier` is the end of a parallel loop.  `Transformed`
gives `Garbage` unless it gets all of a row (or column) in order, so that any
mistake in the order of loops, the sizes or the transposition shows.  `RaceFree`
compares what each iteration writes (`Writes`) with what those of other threads
read and write (`Reads`, `Writes`).  Blocks of
`transposeMT` are taken a band at a time: the loop over `x` within a band is run
by one thread.  The 1D transform is not repeated here: that it is right when
several threads run it is `OutputInD` of *DFTExecute*.

### Butterflies

A complex number is a pair of integers modulo `Prime`, a field in which the sines
and cosines of all angles that occur exist (`Root` is a root of unity of order
`2^LogOrder`); an identity of sums and products that holds in the reals for
algebraic reasons holds there too, and one that fails, fails there but by
coincidence.  There is one definition per kernel: `dft8f`, `but8f`, `tbut8f` and
so on for the widths 2 to 128 and both directions (`unroll0.cpp.in`), and `tbut8f_s`
and so on for those compiled for one shift (`unroll1.cpp.in`).  Each says what one
column of its loop reads (`load`), where its factors come from (`ctbl` for the last
pass, `Scalars` and `Vectors` of the table for the others), and which places it
writes (`store`, `scatter`, with the permutation `q`).  What the hundreds of
unrolled lines compute is `Network`, the split-radix network.  The model does not
repeat the lines themselves: they were compared with `Network` once, by executing
them, and an index mistaken in one of them later would not show in a run.  `DFTF`, `TBUTFS` and so on are
the tables of function pointers that `mkdispatch.c` writes.  The variants of a
kernel with streaming stores or an OpenMP loop do the same to each column.

### DFTTransform

`UPerm`, `TableAt` (`makeTable`, `makeTableRecurse`), `Perm` (`generatePerm`) and
`Interleaved` are translated with their index arithmetic, `Dispatched` is
`dispatch`.  `realSub0`, `realSub1` and the transforms of length 1 and 2 are
operators of their own.  One pass is one action; a place that no column writes is
`Unwritten` after it.  `ComputesDFT` compares the result with the sums of
`src/dft-tester/naivetest.c`, for unit vectors as input (the code is linear);
`TablesSound` says that each pass writes every place and that `makeTable` fills its
tables (TLC would stop at a factor that is looked for beyond the end).

### DFTPlanner

`Executable` is the table that `measure` fills, `Passes`, `Adjacent`, `Estimate`
and `Cost` are the methods of `QuickFinder`, `PathEstimator` and the measuring
finder; `heap` and `reached` are those of `KShortest`.  The heap is a vector in
the code; `Before` is the order in it (by round, config, width), so `Cheapest` is
the element the loop of `execute` picks, and the search is as deterministic as in
the code.  Times are natural numbers, one per width and kind of pass
(`Weights`); the clock is exact, and the time of a path is the sum of those of
its passes.  `RandomStep` picks any pass that is not drawn again.
`SearchSound` is that whatever is in the heap, is returned or kept as the best is a
chain of executable passes from the whole length down; `ResultIsPlan`, that no
search ends without a chain that gets to 0.

### PathStrings

A string is a sequence of tokens: digits, brackets, blanks and the names of the
configurations, of which one is the beginning of another.  `ParsePathStr` is
`parsePathStr`, a table of what is read from each place of the string with so many
levels to go, and `Turn` one turn of its loop; `Malformed` stands for its
exceptions.  It is a table, and not a recursive operator, so that it can be
reasoned about (`RoundTrip`, section 5).

### PlanLifecycle

`obj` holds the `SleefDFTXX` objects, by handle and role (`"1d"`, or `"H"` and `"V"`
of a 2D plan), `mem` the blocks that are allocated, `store` the strings of
`thePlan` by key.  `Init1D` and `Init2D` are the constructors: the instruction set
(`BestIsa`), tables, buffers, the stored string or a search (any chain of the
passes that *DFTPlanner* marks), the permutations of the path, and what is saved.
`Dispose` is the destructors, which free what they find: `wild` records a block
that was freed twice or never allocated.  `PlansRunnable` is that the path is one
the kernels can run and the permutations are those of its passes; `MemoryBalanced`
that after every call exactly the blocks of the plans that exist are allocated;
`StoredReadable` that whoever may look up a string, a 1D plan, a direction of a 2D
plan or a 2D plan, can read all of it, and `StoredIsUsed` that a constructor takes
the path that is stored for it.

What the run shows beside: the fall-back to pure C is never taken, since the
choice of the instruction set leaves a pass to start with (`NoFallBack`, part of
`PlansRunnable`) -- which is as well, as it frees `x0` and `x1` for good.  With
`ForeignPaths` an application gives a plan the path of another one of the same
length; then `TablesFit` fails, since `setPath` does not make the permutations
again (`dftcommon.cpp:124`), and the run excludes it.

A key holds the sizes, the mode and whether threads are used, and different plans
may have the same one: the rows and columns of a 2D plan look their paths up as
complex 1D plans without threads do (`DirectionKeys`), and a 2D plan with columns
of length 1 has the key of the 1D plan of its rows.  `KeysApart` says which
collisions the requests must not have:

* a 1D plan and a 2D plan with one key, if one of them stores under it;
* a 2D plan that is measured with the key of a direction of another one;
* a 1D plan that is measured with the key of a direction of a 2D plan that is
  measured.  The direction loads that path and is not measured itself, so that the
  search of the 2D plan reads a table nobody has filled (`dft.cpp:876`).  The run
  `shared_keys` shows it.

Any other may collide: in `lifecycle` complex 1D plans of all kinds, with and
without threads, are measured and stored, and an estimated 2D plan whose rows have
the length of one of them takes its path.  `KeysApart` is an `ASSUME` of the run
(`RequestsApart`), and the sizes of `test_dftplanner` (1D plans of 1024 and 512, 2D
plans of 2048x64 and 128x128) satisfy it.

### PlanManager and PlanStore

`mgr[p]` is the one `planManager` of process `p`, `disk` what has been flushed to
the files, `flock` their locks, `buf[t]` the buffer of the `FILE*` that thread
`t` has open.  The constructor is `StartInit`, `LoadOpen` ... `LoadGet`,
`Measure`, then `SavePut` or `SaveOpen` ... `SaveClose`: the steps between which
another thread or process can act.  `Refer` (the environment variable) is part
of the steps in which the code calls it.  `saved`, `known`, `made` and `lost` are
history variables that the properties refer to: `made` has what was constructed
since the file was chosen, `lost` those of it that a load has thrown away, as
`loadPlanFromFile` replaces `thePlan` by what the file holds (`Load`).
`SavePlanComplete` says that `savePlan` writes all of `made` but `lost`, whatever the
application has set: a load is the only step that loses a plan.  That it writes
all of `made`, as the documentation says, is `ManualSaveComplete`, and the run
`manual_save` shows that it does not.  `Crash` loses memory, locks and buffers
of one process.  `PlanStore` is the abstract specification: paths are only ever
recorded.  *PlanManager* implements it (`ImplementsStore`) with one process per
file.

Taken for granted: a plan file fits in the buffer of a `FILE*`, so that it is
written by `fclose` in one step, and a file half written is not a state of the
model; `fopen` fails only when a file that is to be read does not
exist; the application calls `setPlanFilePath` and `savePlan` while no other
thread of its process is in the library (`Alone`), as they do not take `mtx`.
`ResetOnSwitch` says that the application clears the plans in memory before it
chooses a file that is not a plan file yet, as `test_dftplanner` does.

### CpuProbe

`Ask` ... `Restore` are the steps of both probers: test of the cache (math
library only), mutex, `signal`, `SETJMP`, the code under test, `signal`, unlock.
A fault goes to the handler that is installed at that moment, and that jumps to
where its own `sigjmp` was last set: if this is not the thread that faulted the
process is `astray`, and if the handler is the default it is `killed`.
`Overlap` says whether the two probers may be in use at once.  Since the
constructor of a plan calls both, `Overlap = FALSE` means that an application
constructs its first plans one at a time, and not while other threads call
functions of the math library for the first time.  libsleefquad has a copy of the
prober of its own.

### Dispatcher

A step is one of *CpuProbe* or one of the dispatcher: `Jump` (through the
pointer), `Test` and `Substitute` (one `SUBST_IF_EXT`: the call of the prober and
what is done with its answer), `Store`, and the jump through the pointer once
more, which reads it again.  The dispatchers of `src/quad/qdispatcher.h` have the
same control.  `SameCodeForAll` is what `docs/additional.xhtml:306` promises:
results do not depend on which thread was first.

### StartAllThreads

`owner` is chosen initially: any way OpenMP may give iterations to threads.
`Look` is one turn of the inner loop, which starts again at a flag that is down.

### MiniFloat and FloatFunctions

A number is its bit pattern: sign, `EBits` bits of exponent, `P-1` of fraction;
`IntBits` is the width of `vint`, less than `P` as 32 is less than 53.  *MiniFloat*
has the operations of `src/arch/helperpurec_scalar.h`, correctly rounded.
*FloatFunctions* has the functions of `sleefsimddp.c` and `commonfuncs.h` that are
made of few such operations, with their constants in terms of the format; the
control of those of `sleefsimdsp.c` is the same.  A call without a loop is one
action (`Evaluate`); of `fmod` and `remainder` each pass is one, and as the loops
go on for all lanes of a vector, a lane that is done may be run again
(`FmodPass`).  `full` tells builds with `FULL_FP_ROUNDING`; fused
multiply-add is assumed.  The reference of each function is integer arithmetic on
units of the least number: `Rounded`, the neighbour in the order of patterns, the
exact remainder, the sum of squares.

Limits that show: `ldexp` multiplies by a power of two whose exponent is clipped
to what the field holds, from |q| = 32 on here and from 4096 on in double
precision.  `LdexpFaithful` says that zeros and infinities are kept below that
(`Unclipped`), and that all other numbers are right for every q; calls go to ±40.
Beyond it, `ldexp(0, q)` and `ldexp(±Inf, -q)` are NaN, which the property allows
and C99 does not (section 4).  `frfrexp(NaN)` is a number, and `PartsMakeUp` asks
nothing of it.
`ddadd2` is exact below half of the largest number; `fmod` and `remainder` are
promised for |x/y| < 1e+300 only (`docs/purec.xhtml`), which is `Promised`.

### Trigonometry

An angle is an integer, in units of pi/16; a sine (a tangent) is named by the
angle around 0 that has it.  What a polynomial returns for a remainder is the
sine of that remainder if it is within the interval the polynomial is for, and
`Spoilt` otherwise, so that a wrong quotient, a lost sign, an exchanged quadrant
or a reduction that is used beyond its range shows.  `Staged` is the code common to these
functions: the next reduction is run for all lanes if one of them needs it and
selected for those that do.  `err` moves a quotient to the other side of a half,
`tail` is what the first product of `rempi` leaves to the later ones.  That each
reduction is accurate within its range is assumed.  `LanesRight` compares every lane with
the function of its own argument.

For the functions of multiples of pi it does so up to `PiRange`, which is the cutoff
of the code (`TRIGRANGEMAX3/4`); beyond it `OfPi` only asks for a number from -1 to 1.
The documentation promises accuracy up to four times that, `PiDocumented` in
*MCTrigonometry*: `PiAsDocumented` asks for it and is violated (`sinpi_documented`).

The quad-precision functions (`src/quad/sleefsimdqp.c`) have a range of their own for
tiny arguments and, in `rempio2q`, add a product per part of the table
(`AddPart`), reducing after each.

### InverseTrigonometry

A number is named by the angle that has it for its sine or tangent, in units of
pi/48, so that a polynomial returns the name of its argument, or `Spoilt` beyond
the interval it is for (sines to 1/2, tangents to 1).  A number beyond 1 is an
infinity for the arc sine: both have none.  The numbers of atan2 have a sign and a
size, their exponent in steps of 53 bits (24 in single precision); for two of the
same size the angle of the quotient is given, otherwise the quotient is next to 0
or out of range.  A quotient of double-double numbers is made of a reciprocal: it
is NaN if the divisor is 0, infinite, or so small that its reciprocal is infinite
(`DDDivisible`).  Those of triple-double numbers have no such limit, and their
`atan2` compares |y| with x rather than with |x|.  `AnglesRight` compares with the angle, and atan2 with annex F of
C99.

### Exponentials and Hyperbolics

A positive number is named by its logarithm, in eighths of log 2; zero by minus
infinity.  `TimesPow2` is a product with the number that `vpow2i` makes of an
exponent: within the range a power of 2, at its ends 0 and infinity, beyond them
`Spoilt`.  Hence `Ldexp2` and `LdexpFull`, which take several steps, are right only
as far as each step is, and the bounds below and above which 0 and infinity are
selected must be within that.  The bounds of the model lie between the limit of
what over- or underflows and that of the steps as those of the code do.  The
logarithms find the exponent by a subtraction in the exponent field, which
spoils a number that is not normal, and subtract again what they added.

The functions on triple-double numbers (`..._tdx_tdx`) have an exponent of 64 bits:
nothing is out of range before the result is converted (`Narrowed`, `LimitedTo`),
and arguments are told from too large ones by their exponent.

In *Hyperbolics* a result is named by its argument, since e^x, its difference
from 1, and sinh x determine each other; double-double arithmetic makes NaN of
infinity, which a selection replaces; `MinusOne` spoils a number next to 1, as
the digits of the difference are lost.  `ElementaryRight` compares with the exact
logarithm, with annex F of C99 for powers, and with the documented ranges.

## 3. Runs

| Run | States | Shows |
|---|---|---|
| `execution` | 252181 | the planner: `SearchSound`, `ResultIsPlan`, `EstimateOptimal`, `Terminates`; `startAllThreads`, three iterations and up to three threads: `AllStarted`, `ReturnNeedsFullTeam`, `Returns`; 1D execution by two threads, paths of 2 to 4 passes and lengths 1 and 2, all modes, in place or not: `OutputInD`, `PassOutOfPlace`, `InputPreserved`; 2D execution by two threads, sizes 1x2 to 8x4 with blocks of 2: `MatrixTypeOK`, `Result`, `RaceFree` |
| `plan_auto` | 124k | one process, two threads, a file that is missing, foreign or old, a crash: `TypeOK`, `SavedStays`, `NotRegenerated`, `ImplementsStore` |
| `plan_protocol` | 147717 | one thread, two files, each kept automatically, the protocol of `test_dftplanner`; or a file that is only read, or none, and plans saved by hand: `ReadyIsStored`, `SavePlanComplete` |
| `plan_two_processes` | 238097 | two processes of two threads each, a file with and without locks, kept automatically or by hand: `InitReturns`, `SavePlanComplete` |
| `lifecycle` | 99062 | two handles, 1D and 2D plans, three instruction sets: `PlansRunnable`, `MemoryBalanced`, `StoredReadable`, `StoredIsUsed` |
| `probe` | 140920 | two threads that call functions and plan transforms, two functions, two extensions, probers apart: `Survives`, `AnswersRight`, `HandlerKept`, `SameCodeForAll`, `NoSecondDispatch`, `DispatchedOnce`, `Served` |
| `numerics` | 513764 | transforms, functions on bits, trigonometry and its inverses, exponentials and hyperbolic functions: `ComputesDFT`, `TablesSound`, `ResultsRight`, `StaysCongruent`, `RemaindersExact`, `LanesRight`, `AnglesRight`, `ElementaryRight` |
| `manual_save` | | violated: `ManualSaveComplete`, a file chosen without `SLEEF_PLAN_AUTOMATIC` |
| `shared_keys` | | violated: `PathsRunnable`, a 1D plan and a 2D plan with rows of its length, both measured |
| `frexp_subnormal` | | violated: `FrexpAsC99` |
| `sinpi_documented` | | violated: `PiAsDocumented`, up to the range that is documented |
| `probe_overlap` | | violated: `Survives`, with both probers at once |

`numerics` and `execution` put side by side modules that share no state (`AllSpec` in
*MCNumerics* and *MCExecution*): in a behaviour one of them works and the others
rest.  Names like `TeamInit` or `MatrixNext` keep such modules apart.  Of the
states of `execution` 8584 are of *DFTExecute*, 14032 of *DFT2DExecute*, 227825 of
*DFTPlanner* and 1740 of *StartAllThreads*.

### Bounds

* `execution`, 1D: what matters of a path is its parity and whether it has two passes
  or more; two threads are enough for interference.  Proved for all (section 5).
* `execution`, 2D: the block size is 2 instead of 16, so that sizes below, at and
  above it, square and oblong, stay small.
* `execution`, planner: widths to 4 (8 in the code) and lengths to 2^6 contain the
  conditions of `Executable` with each of their outcomes; estimates, which are
  cheap, go to 2^10 and one is beyond 2^14, where the estimate for several
  threads is halved.  A pass takes 1 or 2 units, for each width and kind.
  `NPaths` is 3 instead of 32.
* `PlanManager`: `MaxCalls` (4 to 6) calls suffice for a plan that is saved,
  lost, and looked up again, in two slots; `MaxCrashes` is 1.  With two threads in
  each of two processes, one waits for the file lock while it holds the `mtx` its
  neighbour waits for.
  `SavePlanComplete` is checked twice: `plan_protocol` has the loads that lose a
  plan before a save (`ManualSaveComplete` fails there), `plan_two_processes` has
  several threads that construct plans, but no such load within its bounds.
* `lifecycle`: vectors of 1, 2 and 4; lengths 2 and 16 (without and with a path),
  complex with and without threads, real without; 2D sizes 2 and 4, and one 2x16
  whose rows have the key of 1D plans; two stored paths (`MaxStored`).
* `probe`: three plans (`MaxCalls`) and any number of calls of functions; the CPU
  has the second of the extensions asked for.  Proved for all, except `Served`.
* `execution`, `startAllThreads`: three iterations have a first, a middle and a last flag.
* `numerics`: every path for lengths to 2^4 with every unit vector, and paths of
  length 2^5 to 2^9 that take every kernel of every width to 2^7, in its place
  and both ways through `dispatch` (`MinShift`, `MaxShift`), with two unit
  vectors each; vectors of 1, 2 and 4.  `Prime` = 12289 has roots of unity of
  order 1024.  Numbers of 4 bits with 4 of
  exponent, all of them, and exponents for `ldexp` to ±40, on both sides of where
  its factor is clipped; `Rounds` = 4 is to this format what 21 is to `double`.
  Divisors are restricted to a few exponents (loops and results are the same for
  other ones but for a power of two).  `hypot` is within three units rather than
  one, as in so small a format squares lose more.  Angles to ±171/16 pi, with the
  ranges of the reductions (`NearRange` 40 ... `IntRange` 160) in the order they
  have in the code; two lanes, one of which takes every range.  Arguments of the
  inverse functions by steps of pi/48 (1/2 has the angle 8, 1 the angle 24); two sizes
  of numbers above and below 1, zero, infinity and NaN, in all pairs of signs.
  Exponents to ±15 with 11 bits of mantissa (`MaxExpo`, `Precision`), every eighth of
  log 2; `DoubleExpo` = 13 bounds the parts of triple-double numbers (1023 to 16383
  in the code); arguments beyond what `vldexp2` takes on both sides, and ±4000; for powers
  eleven sizes of either sign and twenty exponents, whole, halves, odd and huge.

`CHECK_DEADLOCK FALSE` is said where the program ends: the calls are used up, the
search or the loop is over, or no more plan may be stored.

### Fairness

* `Terminates`: weak fairness of the planner's only thread.
* `InitReturns`: weak fairness of each thread's steps in the library.  Waiting
  for `mtx` or a file lock needs no strong fairness here, as the calls that
  compete for it are finite in number: at some time nobody else wants it.
* `Served`: the same; calls of functions are not bounded, but once a pointer is
  set they need no mutex.
* `Returns`: the operating system schedules all threads of a team.

No fairness is assumed of the application, and none of crashes.

## 4. Where code and documentation part

With a run:

* `probe_overlap` (`src/dft/dft.cpp:52`): two mutexes for one handler.  Two
  threads that plan transforms at once are enough.
* `manual_save` (`src/dft/dftcommon.cpp:349`): without `SLEEF_PLAN_AUTOMATIC`, each
  constructor that finds a plan file replaces the plans in memory, and with them
  those that were constructed since; `SleefDFT_savePlan` does not save them
  (`docs/dft.xhtml:323-326`).
* `shared_keys` (`src/dft/dft.cpp:876`): a 1D plan is measured, then a 2D plan with
  rows of that length; the search reads passes nobody has marked, and the rows end
  up without a path (`docs/dft.xhtml:478`).
* `frexp_subnormal` (`src/libm/sleefsimddp.c:2320`): `xexpfrexp` scales subnormal
  numbers and does not undo it in the exponent.
* `sinpi_documented` (`sleefsimddp.c:731`, 791, 859, 909): `docs/purec.xhtml:332-336`
  (and 369, 405, 442) promises accuracy of `sinpi`, `cospi` and `sincospi` up to 1e+9;
  the code cuts at 2.5e+8 and returns a sine of 0 and a cosine of 1 (of 0:
  `sincospi_u35`) beyond.  In single precision 1e+7 is promised, and `sinpif` and
  `cospif` cut at 8e+6.  The tests go to 1e+8.

Seen while modelling, without a run:

* `src/common/commonfuncs.h:342`: `ldexp(0, q)` for q ≥ 4096 and `ldexp(±Inf, q)` for
  q ≤ -4096 are NaN, as the exponent of the factor is clipped to that of infinity
  or 0; `docs/purec.xhtml:2055-2058` promises what C99 says.  The calls of `numerics`
  reach this (`Unclipped`).
* `sleefsimddp.c:2308`: `xfrfrexp` makes a number of NaN (`docs/purec.xhtml:2087`).
* `src/libm/sleefsimdsp.c:2322`: `xexpfrexpf` returns 0 for every number;
  `docs/purec.xhtml:2119` promises the exponent of `frexpf`.
* `src/dft/dftcommon.cpp:402`: the lock of the plan file is released before
  `fclose` writes the file, and a missing file may be emptied by the second
  `fopen` (`:383`) after another process has filled it.  `NotRegenerated` fails
  with two processes: plans that were saved are lost and measured again.
* `dftcommon.cpp:375`: with `SLEEF_PLAN_AUTOMATIC` the flag `SLEEF_PLAN_READONLY`
  is not looked at, and plans are saved (`docs/dft.xhtml:295`).
* `SLEEF_PLAN_RESET` together with a file that exists loads the plans it was to
  reset; `setPlanFilePath(NULL, ...)` does not make the environment variable be
  read unless `SLEEF_PLAN_REFERTOENVVAR` is passed again; `getPlanIdPrefix` tests
  with `#ifdef` a macro that is defined as 0 or 1.
* The constructor of a 2D transform with a side of 1 or 2 adds infinity, the time
  of a path that was not found, to an integer (`tmMT`).
* Where no instruction set can be used the constructor sets the magic number to 0
  (`dft.cpp:1061`) and `init` returns the plan all the same.
* A complex plan of length 1 reads and writes a second element (`dft.cpp:1256`).

## 5. Proofs

All are checked by TLAPS, for every value of the constants that meets the named
assumptions.

* **DFTExecuteProofs** (`PlansAssumption`, `TnAssumption`): `TypeCorrect`,
  `ResultInD`, `NoPassInPlace`, `InputKept`.  That the result is in `d` is not
  inductive: one has to know that from each point of the loop the number of
  passes left has the parity that makes the last write go to `d` (`ParityInv`),
  that the last buffer holds the transform so far (`StageInv`), and that a
  thread's scratch buffers are its own (`OwnDisjoint`).  The invariant is the
  conjunction over the threads; `Frame` and `OthersKept` say that a step of one
  thread keeps the conjuncts of the others.
* **DispatcherProofs** (`ProbeAssumption`, `~Overlap`): of the probers `ApartSurvives`,
  `ApartKeepsHandler`, `ApartAnswersRight`.  `ApartInv`: the calls under way are
  of one prober; `MutexInv`: whoever is past `Acquire`, and nobody else, holds
  that prober's mutex, hence the handler is its own and `sigjmp` points to its
  stack; `HandlerInv`: until a handler has been installed the one to keep is
  there, and afterwards `org` is it; `AnswerInv`: the cache is -1 or right.
  Of the dispatchers (also `DispatchAssumption`): `DispatchersProbe` is a
  refinement: every step of the dispatchers is one of *CpuProbe* or none, so that
  what was proved of the probers holds below the dispatchers
  (`DispatchersSurvive`).  `OneCode`, `SecondJump` and `PointerSetOnce` rest on an
  invariant that says of a thread within a dispatcher that `p` is the last
  extension before `next` the CPU has, which takes `AnswersRight`; a thread that
  sets a pointer another one has set writes the same value.
* **StartAllThreadsProofs** (`NthAssumption`): `TypeCorrect`, `NobodyEarly`,
  `FullTeamOrNoReturn`.  `FlagInv`: a flag is up only if its
  owner has got to that iteration; `SpinInv`: the flags a thread has gone past are
  up; `OnceInv`: a thread past the barrier had one iteration.  The last follows
  since a second iteration of the same thread would have its flag down, which the
  first waits for.

* **DFT2DExecuteProofs** (`ExecuteAssumption`, `PowerAssumption`): `Typed`, `NoRace`,
  `TransformsAll`, for every size of matrix, size of block and team.  `NoRace` is that no iteration writes what the
  iteration of another thread reads or writes.  `Shared`: an
  iteration is to do, in the hands of one thread, or done.  `Buffers`: while a loop
  runs, the buffer it reads is as the loop before has left it (`Stage`), and every
  element nobody is still going to write (`Settled`) has its final value of this
  loop.  At a barrier that is all of them, which is the premise of the next loop.
  The arithmetic is in lemmas of its own: an index is a row and a column in one way
  (`RowCol`, `IndexOf`), the iterations of a loop write disjoint parts of the matrix
  (`Disjoint`) and all of it (`Cover`).  `PowerAssumption` says that a power of 2 is a
  positive number: the provers know nothing of `^`.
* **DFTPlannerProofs** (`PlannerAssumption`): `SearchIsSound`, `AlwaysAPlan`,
  `FirstIsCheapest`.  That no search ends without a plan takes `Reach`: a pass to
  which no more paths are pushed has been reached by one in the heap, or all that
  can follow it has been reached too; and there is a first pass, since two vectors
  fit into the transform.  `FirstIsCheapest` is the argument of Dijkstra:
  there are costs of the passes reached (`Reaching`) that no path in the heap can
  improve, though a pass is pushed only once.  What the result is compared with,
  `LeastCost`, is a recursive function; that it exists and is a minimum is shown
  level by level (`LeastNatural`, `SomeSolution`, `LeastUnfold`).
* **PlanManagerProofs** (`ProcessAssumption`, `FileAssumption`, `BoundAssumption`):
  - `PlansTyped` and `MtxProtects`, for any number of threads, processes and
    crashes.  `Mutex`: the steps of a constructor between lock and unlock hold `mtx`;
    `Open`: the file a thread reads from or writes to exists.
  - `NothingIsLost`, `NothingIsMeasuredTwice`: one process, any number of threads.
    `Flushed`: what is going to be flushed has all that can be loaded now, and a file
    is only created where there is none; `Found`: a path that was in the file when a
    constructor looked there is in memory when it is asked for.  Two processes do
    lose plans, as the lock is released before the buffer is flushed (section 4), so
    no more can be proved.
  - `FilesImplementStore`: also without `savePlan` (`Targets = {}`), which empties
    the file it writes to.  Each step is one of `PlanStore` or changes nothing for
    who reads the files (`Loadable`).
  - `MeasuredPlansAreStored`: one thread, no `SLEEFDFTPLAN` in the environment, and
    an application that clears memory before it chooses another file
    (`SingleThread`).  This is how `test_dftplanner` goes about it, and the run that
    checks it.  Of two threads that measure one key, the second one replaces what
    the first has stored.  `Backed`: what is in memory is from the file or has gone
    there.
  - `OnlyLoadsLosePlans`: without any such condition, for every number of processes
    and threads, every setting and every file, crashes included, what `savePlan`
    leaves out has been thrown away by a load.  `DInv`: what was constructed and not
    lost is in memory or on its way there, and in the buffer of the thread that saves.  That loads do
    throw plans away is `manual_save`.

* **PlanLifecycleProofs** (`LifecycleAssumption`), for every list of instruction
  sets that begins with pure C, and all sizes:
  - `MemoryIsBalanced`, whatever paths the application sets, those of other plans and
    strings nobody can read included.  `Held`: a plan has the objects of its kind, of
    the lengths it was asked for, and each of them the instruction set of its length
    and its scratch buffers, whatever path it has.  The last is what the code relies
    on without a word: the destructor dereferences `x0` and `x1`, which the fall-back
    to pure C has freed.  The fall-back is not taken, since a pass as wide as the
    vector can always be the first one (`StartExists`).
  - `RoundTrip`, `RoundTrip2D`: what `getPathStr` writes, `parsePathStr` and `setPath`
    read, for every path in which each pass begins at the level where the one before
    has ended (`IsPath`).  That `ParsePathStr` has a value at all takes a proof: a
    reading of the string from each place on exists since a turn of the loop looks
    only ahead, at shorter readings (`TurnLocal`, `SomeReading`).  The step of the
    induction is one pass: its digits are those of one number, and the name of its
    configuration is found although it may extend another name, because a
    bracket follows the whole of it (`NamedIs`).
  - `PlansAreRunnable`, `StoredIsReadable`, `StoredPathIsUsed`, under `OwnPaths`.
    `AllReady`: each object has a path its kernels can run and the permutations of its
    passes.  The levels of a path differ, so that no pass overwrites the permutation
    of another (`LevelsDiffer`, `PermutedTables`).  `Kept`: what is stored is a path
    that plans with this key can run, written as they write it; with the round trip
    they get back a path they can run.

    `OwnPaths` is what the run `lifecycle` assumes, and no more: applications set
    paths of the plan itself (`ForeignPaths = FALSE`), and `KeysApart` (section 2).
    Plans of every kind and size meet it, complex 1D plans without threads and 2D
    plans with columns of length 1 too: what it excludes are certain pairs of
    requests in one application.  Which of the others can look up a string follows
    from the shape of the keys (`KeysTell`, `DirectionKeysAre`), for each who may
    have stored it (`StoredFor1D`, `StoredFor2D`, `StoredForDirection`).  An object of
    a 2D plan may get its path from a 1D plan, which is why `Kept` speaks of
    whoever may read a string and not of who wrote it.  Where the
    assumption does not hold the code does not keep the properties
    (`shared_keys`, and `TablesFit` with `ForeignPaths`).

* **ElementaryProofs** (`TrigAssumption`, `InverseAssumption`, `ExpAssumption`,
  `HypAssumption`, and for each module what its calls may be, `TrigCallsAssumption`
  to `HypCallsAssumption`): `LanesAreRight`, `AnglesAreRight`, `PowersAreRight`,
  `ElementaryIsRight`, for vectors of any number of lanes, any argument, any format
  of numbers and any ranges of the reductions that the assumptions allow.  A call
  is one step, so the invariants (`TrigState`, `InverseState`, `ExpState`,
  `HypState`) only say that the result is that of the call: what takes the proofs
  is that this is right.  As with everything here, the polynomials are taken for
  granted on the intervals they are meant for.
  - *Trigonometry*: a reduction returns a remainder its polynomial is meant for, and
    a quotient that leaves the quadrant right, for every argument in its range and
    every side of a half `err` may take (`ReductionIs`, `SimplyRight`, `DoublyRight`;
    `RempiRight`, whose parts each round their own quotient and may only be off by
    whole turns together).  Whatever lanes a vector has, `Staged` gives each one a
    reduction in whose range it is (`FirstDone`, `SecondDone`, `LastDone`); the
    last also takes the lanes another reduction would do for.  Quadrants and signs
    then give back the angle (`SinFromRight` to `SinCosFromRight`, `SineFolds`).
  - *InverseTrigonometry*: complement, half angle and reciprocal bring an argument
    into the interval of the polynomial and the angle back (`ArcUIs`, `OfTangents`),
    and nothing that is selected away for an infinity is needed for a number
    (`Atan2Right`).
  - *Exponentials*: between the limits at which 0 or infinity is selected each
    of the steps of `vldexp2` and of `vldexp` multiplies by a number there is
    (`Ldexp2Right`, `LdexpFullRight`), and a number that is out of range after the
    first of two steps is so after both (`Climbs`, `Falls`); logarithms take off as much exponent as they put on
    (`RawLogRight`, `TdxLogOfIs`); powers select C99's special cases in an order in
    which each one is right (`PowSelectedRight`).
  - *Hyperbolics*: the exponential of the magnitude is finite wherever no limit is
    selected, and what double-double arithmetic spoils is selected away
    (`SinhsRight`, `LimitedIs`, `OddIsWithin`, `EvenIsWithin`).

  The parameters are those of the formats: the assumptions hold of single, double
  and quad precision, and of the small one of the runs.  Two of them were found by
  the proofs.  `rempio2q` returns an argument up to 5/16 pi itself whatever quotient it has
  counted, which is right because the functions only call it beyond `MiddleRange`,
  and that must be larger; and `exp10` in quad precision returns 0 below minus
  13/8 log 2 of the largest exponent (`Large10`), which is right as long as a mantissa
  is too short for numbers below that (`ExpAssumption`).  They also showed that two definitions had overlapping cases
  (`TimesPow2`, `PowC99`), of which `CASE` may choose any; TLC takes the first.
  Their cases now exclude each other.

An induction over the naturals, over a path or over a string is done with sets
throughout: a set of numbers without the property would have a least member
(`LeastNatural`).

The types of *DFTExecute*, *CpuProbe*, *Dispatcher* and *StartAllThreads* are proved
and not among the runs' properties.
The invariants the proofs are about were model-checked on the runs' instances
before they were proved.

Only model-checked, and why:

* the liveness properties (`Terminates`, `InitReturns`, `Served`, `Returns`): they
  rest on fairness and on `ENABLED`;
* `ComputesDFT` and `TablesSound`: they are about sums over all elements and
  tables of particular kernels.  What a recursive definition computes is an
  induction over data, and `^` is beyond the provers;
* `ResultsRight`, `StaysCongruent`, `RemaindersExact`: the operations on bits
  (*MiniFloat*) are recursive, and that a loop keeps congruence and ends with the
  exact remainder is an induction over its turns;
* `NotRegenerated` and the others of *PlanManager* for two processes do not hold.

## 6. Not modelled

* Rounding errors of transforms and elementary functions: the polynomials, their
  coefficients, and the error bounds of the documentation.  TLC has no real
  numbers, and an interval of `double` is beyond exhaustive search.
* Gamma and error functions: section 7.  The builds for AVX512F, in which the
  logarithms and cube roots use instructions of their own.
* The bytes of `serializer.hpp`; the search of 2D plans and how `measure` times
  paths: loops around the clock; what the memory allocator returns.
* `src/quad`: triple-double arithmetic, and what is made of it without a polynomial
  (sums to remainders); conversions to other types and strings.  Its dispatchers
  are those of *Dispatcher*.
* The intrinsics of each instruction set (`src/arch`): *MiniFloat* stands for all.
* Generators, testers, examples, build files: they are not in the libraries.

## 7. Plan

Order: first what a user's result depends on, then what is shared, then what is
pure.

1. Done: the modules of section 2 with their runs, and the proofs about
   thirteen of them, with what *PlanManager* promises for one process, its refinement of
   *PlanStore*, and that plans are runnable wherever their paths come from.
2. Gamma and error functions, as in *Hyperbolics* with what the polynomials return
   taken for granted.
3. The planner of 2D transforms.
