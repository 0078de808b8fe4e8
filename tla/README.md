# Break (Lockout): a TLA+ verification project

Break makes deadlocks of a multithreaded program more likely in testing. An
LLVM pass puts hooks around the program's mutex calls; a runtime, linked into
the binary, delays some acquisitions. From run to run the runtime keeps a
lock-order graph in a file: the acquisitions that lie on a cycle of that graph
are the ones it delays. The README of the repository promises that this
preserves "program semantics".

The modules here model the runtime with the program it is linked into, the file
that links one run to the next, the script that drives the runs, and the map
that numbers source locations. They ask whether the runtime's records are right,
whether the numbering of the graph supports the delays, whether the instrumented
program really is the program, and what survives a run that hangs or is killed.
The repository also holds a static tool, the race detector Strator with an alias
analysis; two modules model its traversal and the analysis' solver.

## 1. The system and its parts

| Part | State | Operations | Hard because |
|---|---|---|---|
| `LockGraph` (`tools/LockTracer/LockTracer.cpp`) | nodes by mutex address, in- and out-edges with weights | `getNode`, `addEdge`, neighbours, `load`, `save` | file written and read by runs that may be killed |
| `findSCC` (same file) | `component`, `visited`, `topologicalOrder`, `componentNum` | `topSort`, `assignCompNumber`, `findSCC` | two depth-first searches in heap-address order; the second one follows the wrong edges |
| Lock tracer hooks (same file, `LockTracer-lp.cpp`) | `tracerBigLock`; per thread `locks`, `lockHistory`, `diffLocksHeldNum`; `lockThreadMap`, `allLocksHeld`, `RAOG` | `initialize`, `beforeLock`/`checkSCC`, `afterLock`/`Thread::lock`, `beforeUnlock`, `afterUnlock`/`Thread::unlock`, `finalize` | hooks of all threads interleave with each other and with the real calls between them; one hook gives its lock up in the middle |
| Deadlock selection, "Idea #2" (same file) | `theDeadlock` | `selectDeadlock`, `tryDeadlock` | timed condition wait; not called in this commit |
| `LockInstrumenter`, `MemInstrumenter` (`lib/Instrumentation`) | location-index map, kept in a file | `runOnModule` | map shared by two passes and by every file compiled |
| `YieldInjector` (`tools/YieldInjector`) | none | `sched_yield` in two hooks | - |
| `Strator` (`lib/Strator`) | task list, per-worker function summaries, lock sets, accesses | `runOnModule`, `work`, `traverseFunction`, `detectRaces`, `reportRaces` | a pool of 50 threads; memoised traversal with a context that is not in the key |
| Alias analysis (`lib/AliasAnalysis`) | constraint graph | Andersen's solver, an evaluation pass | carried over from LLVM and changed; unions, discarded work and three ways to find cycles interact |
| Scripts (`tools/scripts`) | log directory | run a binary in loops, kill it, count hangs | guesses from files whether a run hangs; kills runs in the middle of a save |

How they interact: the instrumenter decides which calls get hooks and inserts
`initialize` at the start of `main`. `initialize` loads the graph and runs
`findSCC`. The hooks read `component` and extend `RAOG`. `finalize` and the
destructor of `RAOG` write the graph for the next run. `Strator` and the alias
analysis are a separate static tool and share nothing with the runtime.

What makes each part correct:

- `findSCC`: it ends; mutexes on a common cycle get one number; numbers never
  rise along an edge; without cycles every mutex has a number of its own.
- Hooks: they exclude each other; the records agree with the real mutexes; the
  graph has exactly the nested acquisitions that happened; an acquisition on a
  cycle is delayed and a known consistent order is not; the program can do
  nothing new and loses no progress; a correct program is not ended.
- Persistence: what a run saved the next one knows; a run killed in a save may
  lose orders but never makes one up; the loop of the driver forgets nothing.
- Driver: a hang is reported as a hang, a crash as a crash.
- Location map: an index names one location, in every module compiled.
- Strator: every entry point is traversed, no path is lost to the caches, a
  reported pair really conflicts, the pool ends.
- Alias analysis: the solver ends with the least solution of its constraints.

`PROJECT.json` lists every hazard with its line and the properties that cover it.

## 2. Modules

| Module | Models |
|---|---|
| `LockGraph` | class `LockGraph`: a set of nodes and a set of edges. `GetInNeibours` is what the code does (it iterates `outEdges`). Also the reference definitions `Reaches`, `OnCommonCycle`, `Acyclic`. |
| `Program` | The program without instrumentation: each thread has a script of mutex calls, mutexes have an owner and a count. Default mutexes do not check the owner at unlock, recursive ones do. Abstract specification `ProgSpec`, with progress `ProgFairSpec`. External: modelled from how the code uses pthreads. |
| `FindSCC` | `topSort`, `assignCompNumber`, `findSCC`. The recursion is an explicit stack; a call and a return are one action each. The next node is any unvisited one because `std::set<Node*>` is ordered by heap address. |
| `LockTracer` | Composes `Program` and `FindSCC` with the hooks. |
| `Loops` | Loops as functions: `Repeat`, a number of passes, and `Least`, passes until nothing changes. |
| `GraphFile` | The text form of the graph: both stream operators, with the weights. The two reading loops are `Repeat`; the edges of a node are written in any order, as the code iterates a set of pointers. |
| `TestDriver` | One test of `test.sh`: the loop of `start`, `log`, `stop`. |
| `Campaign` | Composes `GraphFile` and `TestDriver`: runs that load, record, save line by line, hang and are killed. |
| `OrderStore` | Abstract specification of the persistent graph: a set of lock orders that runs read at the start and save in one step. `Campaign` implements it. |
| `LocationIndex` | `location-index-map.txt` under the two instrumentation passes. |
| `Strator` | The race detector: pool, traversal, caches, report. |
| `StratorPaths` | Its reference: what the paths of a module give, without caches and workers, as least fixpoints; the properties. |
| `Andersen` | The solver of the alias analysis, with the offline cycle search HCD. |
| `PointsTo` | Its reference: the least solution of a constraint set; the properties. |
| `MCFindSCC`, `MCLockTracer`, `MCLocationIndex`, `MCStrator`, `MCAndersen` | Instances for TLC. |
| `LoopProofs`, `FindSCCProofs`, `LockTracerProofs`, `LockTracerRecords`, `GraphFileProofs`, `CampaignProofs`, `LocationIndexProofs`, `StratorProofs` | Theorems. |

### State and actions of `LockTracer`

`at[t]` is where a thread is in its hooked call:

    program -> checkSCC -> [usleep -> endBefore ->] pthread_lock -> afterLock -> lock -> program
    program -> pthread_unlock -> afterUnlock -> program

| Action | Code |
|---|---|
| `Initialize` | `initialize`: one step of `findSCC`; nothing else runs before it ends |
| `BeforeLock` | the wrapper takes `tracerBigLock` |
| `CheckSCC` | `checkSCC` up to the sleep, or to the wrapper's unlock |
| `WakeUp`, `EndBeforeLock` | the sleep ends, `tracerBigLock` is taken again, then released by the wrapper |
| `LockReturns`, `UnlockReturns` | the real call between two hooks |
| `AfterLock`, `ThreadLock` | the wrapper takes `tracerBigLock`; `Thread::lock` and the wrapper's unlock |
| `BeforeUnlock` | takes `tracerBigLock` and keeps it over the real unlock |
| `ThreadUnlock`, `AssertFails` | `Thread::unlock` and the wrapper's unlock, or its assert |
| `PlainCall` | a call without hooks: trylock, or a call in code that was not instrumented |
| `CancelThread` | an asynchronous `pthread_cancel`, anywhere |

A hook body between two operations on `tracerBigLock` is one action: nothing
outside hooks touches its data, and `SerializedHooks` shows that no two bodies
overlap. `lockHistory` keeps only its last entry because only `back()` is read.
`component` and `assigned` model the map and its keys apart, because `checkSCC`
tells a missing key from a 0 and then creates the key by `operator[]`.
`NewComponent` is the number for a mutex without a component: 0 in
`LockTracer.cpp`, 1000000 in `LockTracer-lp.cpp`. The runs use one each. The
file's RAOG is the constant `Graphs`: any graph an earlier run may have saved.
The program is a constant too, so the model ranges over programs as TLC ranges
over initial states; `nested` and `misuse` are history variables of `Program`
that only properties read.

### State and actions of `Campaign`

`mem` is `RAOG` of the current run, `file` the text on disk as a header and a
sequence of pairs. `run` is `none`, `up`, `hung`, `saving`, `finalized` (after
`finalize`'s save) or `exiting` (after the destructor's). A save is several
steps, one per line, because `endl` flushes and a kill can fall between two
(a line that does not fit the stream's buffer would be more than one write);
`finalize` takes no lock, so other threads may add nodes and edges between lines
as well (`Record`, `Touch`). `Parse` is `operator>>`: reads past the end leave
variables as they were, and variables without a value may have any (`Junk`).
`quiet`, `disk`, `learned` and `disturbed` are history.

| Action | Code |
|---|---|
| `DriverRun`, `ManualRun` | a run starts and `initialize` loads the graph, from the loop of `test.sh` or by hand |
| `Record`, `Touch` | `Thread::lock` adds an edge, for a recursive mutex also one to itself, which is no order; `checkSCC` asks for a node and so creates it |
| `Hang` | the program deadlocks (or loops) |
| `Finalize`, `Destructor` | the two places that save |
| `WriteHeader`, `WriteNode`, `WriteEdges`, `Close` | `save` with `operator<<` |
| `Exit`, `Kill` | the process ends, and the loop writes its result and goes on or ends |
| `Start`, `Stop`, `LogCommand` | the commands of `test.sh` |

`stop` kills the loop and its `time` or `perf` child and removes the directory:
a program that survives writes into a directory that is gone, so in the model it
ends with the test.

### `LocationIndex`

A pass reads the file (`StartPass`), numbers locations as it meets them
(`GetLocationIndex`), and writes the file (`EndPass`). The passes differ: the
LockInstrumenter writes nothing if it has no location. A location with a blank
in its file name is one that `operator>>` cannot read back; its first word is
taken for a location with index 0 and reading ends. `overlapped` remembers that
two passes were on at a time.

### `Strator`

A worker is a record: a stack of frames (function, entry lock set, exits so far,
statements still to visit), both caches, the multithreaded flags, `parentValue`
and the accesses. One action per kind of statement (`Ret`, `Access`,
`LockOperation`, `Plain`, `Call`), and `StatementCached`, `EndFunction`,
`GetTask`, `ReportRaces`. Exit lock sets are followed in any order, as
`std::set` orders them by address. The options have their defaults: level 1,
no upward propagation, alias analysis and parent values on. The alias analysis is
a given relation. `getDefOperand` is its loop, `Repeat(DefPass(parent), ...)`: from a
value to what `parentValue` has for it, or to what a constant cast casts. For mutexes
the code has a further rule: one that an instruction computes (`base`: a field of a
struct, a loaded pointer) goes by the first operand of that instruction, traced by
`getDefOperand`. `GetLockValue` is that rule. Two mutexes of one struct are one then;
the reference names them in the same way (`MutexOf`), so that the properties are about
the traversal and not about the names.

The analysed module is a constant, a record that satisfies `WellFormed`: what the
LLVM verifier guarantees about operands, callees and single assignment. The
reference `Points` has, for every function and every set of mutexes it may be
called with, the statements reached and the mutexes held there; it is the least
set closed under the steps of a path and knows no cache, no stack and no worker.
In it a mutex has one name whatever the call, which is what `Regular` asks for.

### `Andersen`

One step is one pass of a loop of `SolveConstraints`: the lazy cycle detection
(`DetectCycles`), one node from the work list (`ProcessNode`), or the switch of
the lists. The operators follow the code down to which sets a union resets,
which edges are rewritten and which entries are discarded, because that is where
the solver can go wrong. It starts from any constraint vector; the offline
substitutions that produce one are left out.

## 3. Runs

| Run | Checks | Shows |
|---|---|---|
| `find_scc` | types, `QueuedOnce`, `EdgesDescend`, `CyclesShareComponent`, `AcyclicSingletons`, `FindSCCTerminates` | The second search walks successors instead of predecessors. The queue is served first-finished first, so the numbering is still usable: cycles share a number and edges go down. The two departures from Kosaraju's algorithm cancel: mending `getInNeibours` alone breaks `EdgesDescend` and `AcyclicSingletons` (the mutant `GetInNeiboursFixed`). |
| `find_scc_strict` (violation) | `ComponentsAreSCCs` | The components are not the SCCs that the comment announces: a component can be larger than its cycle. |
| `tracer` | types, `SerializedHooks`, `RecordsExact`, `OneRecordedHolder`, `HeldNumExact`, `RaogSound`, `RaogComplete`, `AbortOnlyOnMisuse`, `CycleDelayed`, `NoNeedlessDelay` | The records and the graph agree with the real mutexes in every interleaving, with cancellation of one thread. |
| `tracer_fair` | `SemanticsPreserved`, `NestingLearned` | The instrumented program implements `ProgFairSpec`, and a nesting is learned even if the program deadlocks on it. |
| `tracer_cancel` (violation) | `SemanticsPreserved` | Asynchronous cancellation inside a hook blocks threads that shared nothing with the cancelled one. |
| `tracer_trylock` (violation) | `AssertMessageTrue` | The assert ends a correct program that uses trylock. |
| `campaign` | types, `SavedExactly`, `NothingForgotten`, `CrashVerdictTrue`, `IsStore`, `TroubleReported` | The runs implement `OrderStore`: a torn file is read as a part of the graph and never as an order nobody saw, although the reader uses values it never read. The loop's rule to end with the first failed run is what keeps a test from forgetting (mutant `LoopContinuesAlways`). |
| `location_index` | types, `FileDense`, `IndicesUnique`, `NamesRight` | The count of lines is a free index in every history without blanks, overlapping passes included; uniqueness over all modules needs passes that do not overlap. |
| `strator` | types, `SummariesExact`, `PathsCovered`, `RacesReal`, `ParametersBound`, `Terminates` | The two caches neither lose a path nor make up a lock set, in any distribution of the tasks over the workers. |
| `strator_cache` (violation) | `MultithreadedCallsRecorded` | A summary made before the threads were created hides the accesses of later calls. |
| `andersen` | types, `Sound`, `Precise`, `WorkIsQueued`, `NeverAborts`, `VisitsBounded` | The solver finds the least solution; every node with work to do is in a list. |
| `andersen_nested` (violation) | `SolvedAlways` | The union of two offline pairs inside `UniteNodes` is queued nowhere, and the solver ends too early. |

`OneRecordedHolder` excludes recursive mutexes: `Thread::unlock` erases the map
entry at an inner unlock, which the model keeps and which only the inactive
deadlock selection would notice. The records' properties hold for *traced*
mutexes (every call on them is hooked) as long as no thread unlocks a mutex it
does not hold. `AbortOnlyOnMisuse` is the exact complement: the assert fires
only on misuse or on a mutex that is not traced.

Preconditions of the newer properties, each because the code does not give more:
`NothingForgotten` excludes tests with a save that other threads disturbed.
`FileDense` excludes names with a blank, `IndicesUnique` and `NamesRight`
overlapping passes too. `SummariesExact`, `PathsCovered` and `ParametersBound`
exclude recursive modules (`NonRecursive`): `traverseFunction` ignores recursion by
design. `SummariesExact`, `PathsCovered` and `RacesReal` are stated for `Regular`
modules: threads are created without a mutex held and end without one, because
the code traverses `pthread_create` like a call and gives the thread the creator's
mutexes; and no mutex that is locked or unlocked is computed from a parameter, from
the result of a cast or from a constant cast. There `getLockValue` finds what
`parentValue` has at the moment: the argument of the current call, or the operand of
a cast if it was met before. The caches do not know about it, and the three properties
are false: `lockit(p)` with `lock(&p->m)`, called with `a` and then with `b` from one
lock set, is answered the second time with the exit lock set of the first, that of
`a`, since a summary is found by the entry lock set alone (`Strator.cpp:277-283`). A
store behind the second call is then filed under the wrong mutex, and reported against
one of another thread although both hold the mutex of `b`. The module `Struct` is this
program; it is in the run for the other properties. `Sound`,
`WorkIsQueued` and `NeverAborts` exclude the nested unions of `andersen_nested`
(the program `Tangled` shows that such a union can also make the assert of
`UniteNodes` fail). `Precise` excludes calls through pointers, whose offsets are
wrong by one in places, and inputs for which HCD pairs nodes on no cycle: `Search`
leaves a component of one node unmarked (`FalsePair` is such an input).
`TroubleReported` says that a hang is reported, not that a report means a hang: a
finished or slow test "looks like deadlock!" too.

### Bounds

- `MCFindSCC`: all 512 graphs on three nodes, self-loops included, and the 256
  loop-free graphs on four nodes with the edges out of two nodes or into the
  first. Three nodes suffice for a cycle with a tail on either side; four add
  two cycles with a bridge and diamonds.
- `MCLockTracer`: three threads, three mutexes (the third recursive). The
  programs are the shapes of `evaluation/ubench` (two- and three-lock
  deadlocks), nesting of depth three, hand-over-hand release, reentrance,
  unlocks by a thread that is not the owner, a condition wait and a trylock.
  The graphs are none, a total order, a two-cycle, and a cycle with a tail and
  a self-loop. Deadlocks of three threads, stale `lockHistory`, new mutexes and
  delays in and out of cycles all occur.
- Scripts are finite, so no counter of the tracer needs a bound.
- `Campaign`: two mutexes, edges recorded while the graph has fewer
  than two others (`MaxEdges`), edges to themselves included, weights
  counted to `MaxWeight` = 1, tests of three runs (`RUNS`) and any number of tests
  and manual runs. Two mutexes give every shape of file that matters: empty,
  header only, a node without its edges, a node missing, a cycle. Larger weights,
  more mutexes and longer tests are left to the theorems of section 4.
- `MCLocationIndex`: four locations, one with a blank, a LockInstrumenter and a
  MemInstrumenter. Once the blank is in use nothing is claimed, and histories end
  after `MaxBroken` = 2 hooks.
- `MCStrator`: six modules in the manner of `evaluation/ubench` (a helper called
  with and without a lock; a function that may return with a lock, in a loop;
  mutual recursion with casts; a function used before and after the threads
  start; a function that never returns; a function that locks the mutex of a struct
  it is given), both modes, up to three workers for up to three tasks. In three of
  them mutexes are loaded from a pointer. All but the last are regular and all but one
  are not recursive, so no property holds for want of a precondition. Other modules
  and pools are left to the theorems.
- `MCAndersen`: all choices of up to three copies, loads and stores between three
  pointers (about 3300 inputs), and six larger ones: indirect calls, nested cycles
  and shared pairs.

`tracer_fair` leaves out cancellation and the programs that misuse mutexes or use
trylock: what becomes of those is the subject of the two violation runs.
`tracer` has all nine programs.

Deadlock checking is off for the tracer: programs end, and they may deadlock,
which is the purpose of the tool. `findSCC` and Strator end too. It is on for
`Campaign`, `LocationIndex` and `Andersen` (which stutters when it is done).

### Fairness

`FairSpec` assumes weak fairness of `Initialize` (`main` runs it before anything
else) and of each thread's steps: the scheduler starves no thread, `usleep`
returns, a mutex that stays free is granted. Nothing is assumed about
cancellation or about who wins a contested mutex. `ProgFairSpec` assumes the
same of the program alone. The scripts are finite, so every thread that keeps
competing for `tracerBigLock` gets it; for programs with endless loops the same
result would need strong fairness of the lock, which pthreads do not promise.

`Strator`'s `FairSpec` assumes that no worker and no report is starved.
`Campaign`'s assumes only that somebody asks for the log again and again; nothing
is assumed of the program, which may hang, or of the loop.

## 4. Proofs

The theorems hold for every set of threads and mutexes, every program and every
loaded graph. Their assumptions, each evaluated by TLC in the runs:

- `ProgramAssumption`, `GraphAssumption`, `NewComponentAssumption`: scripts are
  sequences of calls, recursive mutexes are mutexes, a graph's edges join its nodes.
- `MutexesAssumption`: fewer mutexes than `INF` (10000000, the number that
  `checkSCC` uses for a thread without locks). The code needs it, see
  `NoNeedlessDelayCorrect`; no other theorem uses it.
- `LocksAssumption`, `RunsAssumption` (`Campaign`): finitely many mutexes, whose
  addresses are positive numbers; a positive bound on weights; a test has a
  positive number of runs.
- `LocationsAssumption` (`LocationIndex`), below.
- `ModulesAssumption`, `FlowAssumption` (`Strator`): the modules are well-formed, a
  statement belongs to one function, the pool has room for one worker.

**`FindSCCProofs`**: `SccTypeCorrect`, `EdgesDescendCorrect`,
`CyclesShareComponentCorrect`. `EdgesDescend` only speaks of the end, so the
invariant `SccInv` adds: topSort loses no node (`SortKeepsNodes`), an unvisited
node is still queued (`AssignKeepsNodes`), active calls carry the highest number
(`AssignNumbers`), and the successors of a node whose call has returned are
visited and numbered no higher (`AssignDescends`). The last one is where the
forward edges of `getInNeibours` help: a call returns when all *successors* are
visited. Cycles follow: the nodes numbered at most `component[n]` are closed
under edges, so both nodes of a cycle are below each other. The proof never uses
the queue's order: any order would do for these two.

Also there: `QueuedOnceCorrect`, `AcyclicSingletonsCorrect`. These two do
need the order. `OrderInv` adds: a node is in the queue or on the stack, not both,
and once (`Distinct`, `SortVisitsOnce`); the stack is a path of the graph
(`StackIsPath`), so that a successor on the stack closes a cycle; and without
cycles a node is queued after all its successors (`QueueDescends`). So without
cycles a node that the second search takes from the queue has only visited
successors, its call goes no deeper, and numbers differ (`NumbersDiffer`).

**`LockTracerProofs`**: `TypeCorrect`, `SerializedHooksCorrect`,
`CycleDelayedCorrect`, `ImplementsProgram`, `HeldNumExactCorrect`,
`NoNeedlessDelayCorrect`. `BaseInv`
adds to the types that a thread's place fits its script (`PlacesInv`), that
counts fit owners (`MutexInv`) and that a thread with records has a history
(`HistoryInv`), without which `lockHistory.back()` has no type. `SccInv` is a
conjunct of it: `checkSCC` extends the component map, so `EdgesDescend` has to
survive the hooks. `CycleDelayed` then follows, since the two lookups of
`checkSCC` find equal numbers. `ImplementsProgram` is the refinement: a step of
the tracer is a step of `ProgSpec` or changes nothing in it. For
`NoNeedlessDelay` the hooks also preserve `OrderInv`, so the two mutexes of a known
order have different numbers; and no number reaches `INF`, because there is one
per visited mutex at most (`NumbersBound`).

**`LockTracerRecords`**: `RecordsExactCorrect`, `OneRecordedHolderCorrect`,
`RaogSoundCorrect`, `RaogCompleteCorrect`, `AbortOnlyOnMisuseCorrect`. The five
are proved together (`RecordsInv`), because the edges that `Thread::lock` adds
are right only if the records are. Two facts are added: after a real unlock of a
default mutex its thread no longer owns it (`ReleasedInv`), and what a thread
holds when its after-hook is pending it held at the acquisition (`NestedInv`).

**`LocationIndexProofs`**: `TypeCorrect`, `FileStaysDense`, `IndicesAreUnique`,
`NamesAreRight`, for every set of locations and of passes, under
`LocationsAssumption` (locations are numbers, in the order of their texts; what is
left of a name with a blank is no location). `IInv` has two parts. `Dense`: the file
and the map of every pass that is on are dense over locations without blanks, and
the pass's `locNum` is the number of its locations; it survives overlap, since a
pass starts from a dense file and only extends it. `Kept`: without overlap at most
one pass is on, and it, or else the file, gives every hook compiled so far its
index. Both together make the numbering injective. The type theorem needs that
the first line with a blank exists, which comes from the well-foundedness of the
naturals.

**`GraphFileProofs`** says what `operator>>` makes of a file, for every file that
`operator<<` may leave behind. `ReadsAs(f, g, D, p)`: whatever is written behind
`f`, the reader first gets the edges of the nodes `D` of `g`, and is then at
position `p`. It holds of a header and no node (`ReadsHeader`), is kept when
anything is appended (`ReadsLonger`), and gains a node with its lines
(`ReadsNode`). It gives `ReadsWhole`, a finished file is read as the graph that was
saved, and `ReadsTorn`, a file that ends between two lines is read as a graph
without an order that the saved one does not have. `JunkIrrelevant`: the values
of variables that were never assigned make no order.

**`LoopProofs`** has the induction that the reading loops and Strator's reference
need. The library's theorems on induction take an operator, so it is done here with
sets: `LeastNumber` (well-foundedness), `Inductive`, `LoopInvariant`. `LeastIsClosed`
and `LeastIsLeast`: over a finite universe `Least` is a set closed under the step, and
is contained in every closed set. This is how the reference definitions of
`StratorPaths` are used in proofs.

**`CampaignProofs`**: `CampaignTypeCorrect`, `SavedExactlyCorrect`,
`NothingForgottenCorrect`, `CrashVerdictCorrect` and the refinement
`CampaignIsStore` (`Spec => IsStore`), for every number of mutexes, weights and
runs. `CampaignInv` adds what links the parts: the driver's counter, log and result
file fit its place in the loop (`DriverInv`) and the state of the run (`Together`);
unless a save is on, any run would find the orders `disk` in the file
(`DiskHolds`); during a save that nobody disturbed the nodes up to the cursor can
be read back, the last one only after its second line (`SaveGoesOn`: `NodesSaved`,
`HalfSaved`); what a test learned is in the graph of its run, and on disk before
the next run (`Knowledge`). A kill in the middle of a save maps to the step `Torn`
of `OrderStore`, which stores a part of the known orders. The proof of the
refinement failed at first: `Learn` of `OrderStore` needed a pair of two mutexes
even where nothing is learned, so with one mutex the step `Touch` during a save,
which disturbs it and adds no order, had no counterpart. TLC's instance has two.

**`StratorProofs`**: `StratorTypeCorrect`, `SummariesExactCorrect`,
`PathsCoveredCorrect`, `RacesRealCorrect`, `ParametersBoundCorrect`, for every set of
well-formed modules, both modes and every size of the pool. `StratorInv` is the
inductive invariant (TLC checked it on `MCStrator`'s modules first). Workers share
nothing but the task counter, so nearly all of it speaks of one worker:

- `StackInv`: the functions on the stack are different, each is called by the
  statement at the head of the frame below, with that frame's mutexes.
- `CacheInv`: a pair of function and entry lock set is traversed at most once, and
  cached statements belong to such traversals.
- `SearchInv`, the invariant of the depth-first search: whatever is reached from a
  cached statement is cached or still to visit (`Settled`), unless the statement is
  a call under way (`Pending`); a visited return has left its lock set (`RetKept`).
  It explains why stopping at a cached statement loses nothing: its exits were, or
  will be, collected in the same frame.
- `SoundInv`: what is still to visit lies on a path, exits are exits of paths, and
  a summary without exits belongs to a function that never returns.
- `ExactInv`: summaries have all exits.
- `RecordInv`: a binding comes from some call or cast; flags and accesses belong to
  functions that run beside other threads.
- `BoundInv`: `ParametersBound`, and that the bottom frame's parameter is unbound.

`PoolInv` says that every task taken from the list has been begun by some worker and
that a worker whose thread has ended has no frames. When a function is left, its
todo list is empty, so nothing is pending in its frame: the cached statements with
its entry lock set are closed under the steps of a path, and `PointsLeast` (the
reference is the least such set) gives that all exits were met (`AllExitsMet`). The
same argument over all functions and workers gives `PathsCovered` at the end. The
precondition `Regular` enters at two leaves: `LockedStraight`, the mutex that
`LockOperation` finds is the one on the path (by `DefOperand`, `getDefOperand` leaves a
value alone that is no parameter, no result of a cast and no constant cast), and the
steps over `pthread_create`.

Only model-checked:

- Everything under fairness, which this prover does not reach: the progress part
  of `SemanticsPreserved`, `NestingLearned`, `FindSCCTerminates`, `Terminates`,
  `TroubleReported`.
- The properties of `PointsTo`: the solver's searches and unions call themselves
  within folds (`Search`, `QueryNode`, `UniteNodes` in `Andersen`) and are recursive
  operators, which the prover cannot take.

## 5. Not modelled

- Deadlock selection ("Idea #2": `selectDeadlock`, `tryDeadlock`): its calls are
  commented out, so nothing in this commit reaches it.
- Edge weights in the tracer, log output: no decision reads them.
- `YieldInjector` and the store hooks: no state; a yield or a sleep is an
  interleaving the model already has.
- LLVM rewriting as such; the sample pass and tool; vendored programs under
  `evaluation/bench`, which only serve as examples of how mutexes are used (they
  are by far the largest part of the repository).
- Strator: options that are off by default, indirect branches (an assert),
  `functionMap` (written without a lock, read only by a report that is off), and
  a module without entry points (reads `workers[0]` of an empty vector).
- Alias analysis: the collection of constraints, the offline substitutions HVN and
  HU with the rewriting, and the queries; `InterpAAEval` prints statistics.
- A line of the graph file that is longer than the stream's buffer, and so is written,
  and perhaps torn, in pieces.
- The averages of `test.sh`, and `run.sh` and `compare.py`, which only count.
- A partly written `location-index-map.txt` (a compiler killed in the write).

## 6. Plan

1. A thread id that is reused by a later thread (`Thread::self`).
2. `QueryNode` and `UniteNodes` of `Andersen` with explicit stacks, as `FindSCC` has
   them, so that `NeverAborts` and `WorkIsQueued` can be proved.
3. HVN and the rewriting of constraints, so that `Andersen` starts from the
   constraints of a program.
