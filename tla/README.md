# A TLA+ verification of unwintel

unwintel runs a 32-bit Windows program on another machine by static recompilation, on demand.
It loads the executable and its DLLs into a simulated address space and runs what has been
translated so far. When the program calls a function that has not been, unwintel decodes the
function, turns its control flow graph into structured C++, writes that to a source file, has
`make` rebuild itself and `exec`s the result, which starts the program again. One *iteration* per
missing function, until the program runs to its end.

This directory holds a model of that system: TLA+ modules translated from the source, TLC
configurations that check them on small instances, and theorems that TLAPS proves for all
instances. `PROJECT.json` maps each definition to the lines it stands for and lists runs, mutants,
hazards, findings and theorems.

    tlc -config MCContext.cfg Context        # check one instance (see "Runs")
    tlapm RoundRobinProofs.tla               # check the proofs of a module

## Inventory

Paths are relative to `src/uwt/`.

| Component | State | Operations | Hard behaviours | What makes it correct |
|---|---|---|---|---|
| **Execution contexts** `x86/context.*` | three mutexes, `m_turn`, `m_state`, one thread per context | `cont`, `run`, `yield`, `exit`, `interrupt`, constructor, destructor | two threads hand control over by unlocking each other's mutexes, whose roles rotate; exceptions of the translated code unwind up to `run` | strict alternation; no mutex unlocked twice or destroyed locked; every hand-over is noticed; the scheduler learns why a context ended |
| **Iterations** `iterbox.*`, `unwintel.cc`, `win/winnt.*`, `win/module.*`, `templates/` | sources, lists (`functions.inc`), objects, archives, programs, their times | `run`, `restart`, `execute`, `trans`, `transmulate`, `make` | death between two writes; `make` sees times to the second; two modules made for a function of a DLL | a process knows all that was translated before it started; progress up to the end of the program |
| **Decoding** `trans/functionlab.cc` | blocs by address, the entry | `decode` | functions that share code paths with themselves: loops, joins | the graph is the function's |
| **Blocs and patterns** `trans/ibloc.*` | exits, hand-made reference counts, statements | `set_exit`, `duplicate`, `GraphMatch` | a count that is off; backtracking that must restore its trial | counts are exact |
| **Collapse** `trans/cfg.*`, `trans/statement.hh` | the pool of blocs, its order, dominators | `refresh_props`, `reducible`, `collapse` (merge of sequences, forks, loops; funnel; hammock; duplication) | thousands of rewritings in a row, each relying on the previous ones; termination | ends with one bloc; the dominators are the dominators; the code that is left does what the graph did |
| **Control statements** `trans/ctrlstmt.*` | the text being written | `translate` of each | nesting | braces match, jumps are in loops, no variable is read unassigned |
| **Flag analysis** `trans/functionlab.cc`, `trans/insnstmt.cc` | needs and products of each bloc | the round robin of `decompile`, `GetFlagStats`, `SetNeededFlags` | stop condition of the round robin; flags written on one path only | a least fixpoint; no read misses a write that was dropped |
| **Symbolic execution** `trans/core.*`, `trans/insnstmt.cc` | registers cut in parts, flags, FPU stack; the tree of the paths | `eregread`, `eregwrite`, `concretize`, `close`, `translate` | AL, AH, AX, EAX in any order; updates committed one by one although they happen at once | the emitted code does what the accesses mean |
| **Address space** `win/memmgr.*` | a map of disjoint ranges | `record`, `allocate` (both ends of a region) | a comparison that is no order on overlapping ranges; 32-bit arithmetic; iterators at the ends of the map | ranges disjoint; what is allocated was free; the first hole is found if there is one |
| **Guest memory** `x86/memory.*` | a hash of pages, chained | reads, writes, `zfill` | lookups move pages; accesses cross pages and the end of the space | an array of bytes |
| **Loader** `win/module.*`, `win/winnt.*` | modules, imports, symbols, the working directory | `mount`, `link`, `hostcodemap`, `loadmodule` | circular imports; the working directory is global and nested | every import resolved to where the function ends up; each module loaded once |
| **Translation cache** `x86/calldb.*` | a hash of functions | `add`, lookup, conflicts | two functions at one address | the last lookup finds what was added |
| **Test generator** `trans/cfg_testbench.*`, `tests/` | the chain of choices of the seed, its position in it; the graph being made | `choose`, `nextwave`, `generate`, `test`, `main` of `scan` | millions of runs, each of which must replay all but one choice of the one before | no run is skipped or comes twice; every graph is made; each collapses |
| **PE format, command line, utilities** `win/pef.*`, `utils/`, `launchbox.*`, `win/filesystem.*` | a position in a file, settings | parsing, printing | none beyond a sequential program's | parsing |

How they interact. `WinNT::execute` resumes contexts (`cont`); translated code running in a context
reads and writes the guest memory and the registers, and calls through the translation cache. A
failed lookup throws `TransRequest`, which ends the context with `CallException`; `WinNT::trans`
then asks the module of the address (found by `MemMgr::module_at`) to `transmulate` the function:
`FunctionLab` decodes it from the guest memory, executes each instruction symbolically, finds the
flags it needs, collapses the graph and prints it; the module appends the function to its
`functions.inc` and runs `make`; `IterBox` execs the new program.

## Modules

| Module | Models | Composition |
|---|---|---|
| `Coroutine` | what a context promises: alternation (abstract) | |
| `Context` | `context.cc`, step by step, both threads | implements `Coroutine` |
| `RoundRobinProofs` | proofs about the two round robins, `Context` and `FlagFlow` | extends both |
| `IBloc` | `ibloc.*`: exits, counts, statements | operators on a graph (a record) |
| `GraphMatch` | `ibloc.cc`: the pattern search | extends `IBloc` |
| `RefreshProps` | `cfg.cc`: order, dominators, reducibility, with their definitions | extends `IBloc` |
| `Collapse` | `cfg.cc`: the rewritings | extends the two above |
| `CollapseLoop` | `CFG::collapse`: the loop around them, an action per round | extends `Collapse` |
| `EmittedCode` | the meaning of the printed structured code | |
| `Decompile` | decode, then collapse, then run the code beside the function | composes all of these |
| `GraphProofs` | proofs about `Decompile` and `Comprehensive` | extends both, which `Scan` composes |
| `CollapseProofs` | proofs about a round: `RefreshProps`, reducibility, the code of the blocs | extends `GraphProofs` |
| `Comprehensive` | the seed of the test generator, for any client | |
| `TestBench` | `CFG_TestBench::generate`: a client of the seed that makes a graph | extends `Comprehensive`, `CollapseLoop` |
| `Scan` | `tests/scan.cc` and `CFG_TestBench::test`: all graphs of a size are made and collapsed | extends `TestBench`; implements `SeedSpec` of `Comprehensive` |
| `MCScan` | `Scan` on small graphs, with fairness as TLC can evaluate it | |
| `FlagFlow` | the flag analysis and the run of the filtered function | |
| `Registers` | `eregread`, `eregwrite` on the parts of a register | operators |
| `Instruction`, `InstructionProofs` | an instruction from its symbolic execution to the run of its code | extends `Registers`; the proofs are those of the three modules `Registers`, `Instruction`, `FpuStack` |
| `FpuStack` | the same instruction with the stack of the FPU | extends `Instruction`, and implements it (`Projection`) |
| `MemMgr`, `MemMgrProofs` | `record`, `allocate` | |
| `FlatMemory` | what the guest memory promises (abstract) | |
| `Memory`, `MemoryProofs` | the hash of pages and the chunks of an access | implements `FlatMemory` |
| `Iteration`, `IterationProofs` | iterations, with faults | |
| `Loader`, `LoaderProofs` | loading and linking of the modules, `CallDB::add` | uses of `MemMgr` only what its theorems say |

Conventions. Definitions keep the names of the source (`eregwrite`, `m_turn`, `modmap`). A
definition whose comment begins with "Mutant:" is no part of the model: it is the definition that
follows it with a bug that the code could have, and `PROJECT.json` says which property catches it.
History variables, which only properties read, are marked "history". The specifications of
`Comprehensive` (`SeedInit`, `SeedSpec`) and `FlagFlow` (`FlowInit`, `FlowSpec`) have names of their own
because modules that extend them extend another specification as well.

### Correspondence

**Context.** A step is one access to a mutex, or the code between two accesses that touches
`m_turn` or `m_state`. The variable `turn` is the local of `cont`. What the translated program does
(yield, ask for an untranslated function, exit, trap, throw anything, return) is a choice each time
it has control. `Rotation` spells out where all three mutexes are in each phase of a hand-over.

**Decompile.** The memory is not chosen in advance: each instruction is when it is fetched, so that
all graphs of up to `MaxBlocs` instructions are decoded. `lab` is the graph; each action of the
collapse phase is one round of the loop of `CFG::collapse` with the `refresh_props` that starts it.
Hammocks are chosen nondeterministically among those of the smallest size (the code keeps the
first it meets, which is one of them). At the end the statements of the one bloc left are parsed
into loops and conditionals and executed, each branch choosing freely, while `at` follows the
original graph; `phase = "diverged"` if the code runs an instruction that the graph would not.
Statements are references, as in the code, so that a bloc and its duplicate share theirs. The field
`clash` is history: a shared statement was told to put its condition in two places. The matching of a
pattern is a function of the trial in progress (`Match`); whether a match is one, with the exit and the
entry that `close` asks for, is `Accepted`, and `FirstMatch` is the one of the first bloc of the pool that
has one. `CodeWellFormed` has the shape of the code checked where a run starts, as it does not change
while it runs. Loops of the code that end for a reason (a search that goes on along the graph, an
iteration up to a fixpoint) are functions defined by recursion with the number of rounds they can take.

**Comprehensive, TestBench, Scan.** The chain of `Choice`s is a sequence, `tail` the position of
`base.tail` in it. The client of the seed is anything that makes the same choices after the same
answers, which is what `Client` says: it may ask for another number of alternatives, or stop, only
where the wave before has left no choice to replay. `TestBench` is the one client there is: `todo`
holds the recursive calls of `process` that are still to come, each action makes one choice, and the
graph is built with the operators of `IBloc`. `Scan` composes it with `CollapseLoop`: the loop of
`scan` leaves the reducible graphs aside (it only prints them), that of `test` collapses them all.
`missing` is history: the rooted graphs, up to the names of their blocs, that were not generated yet.

**FlagFlow.** A bloc holds one instruction, as it does when the analysis is run, before any merge.
`Analyse` is one round of the loop. After it the filtered function is run; `fresh` is the set of
flags whose value is the original function's. `CanSkip` says which flags an instruction may leave
alone on one of its paths (shifts by a variable count). The analysis takes a call for an instruction
without flags (a FIXME, `functionlab.cc:171-173`), although the callee reads and writes the same
ones: after `RunCall` no flag is the caller's `own`, and `ReadsServed` promises what it can, that a
read of a flag that the function wrote itself since its last call sees that write. That flags are not
kept across calls is what `docs/whiteboard.txt` asks for.

**Registers, Instruction.** A value is four bytes and a byte is the set of the symbols merged into
it, a symbol being a byte of a register before the instruction. Masks, shifts by bytes and
concatenations are then computed, so that two expressions are equal exactly if they have the same
value for all contents of the registers, and running the emitted code on symbols runs it on all
values at once. What an instruction does is any sequence of reads, writes and moves of parts; both
paths of a condition are executed from their common start. `simplify`, which the library provides,
is taken to give the node above the updates common to both paths; temporaries for subexpressions
are left out, which only makes more expressions depend on the registers at the time they are
printed. `bytes` and the field `value` of an operand are history: what the accesses mean.

**FpuStack.** The registers of the FPU are a ring of `Depth`. `Core` keeps `ftop`, how far the top
has moved, and `fpuregs`, numbered from the top before the instruction, which it does not know; the
emitted code computes absolute numbers of registers (`ftop_update`) from the top it reads, writes
registers with them, and moves the top. `top` is arbitrary. Updates of registers, of FPU registers
and of the top are committed in any order, as they are in one set ordered by what they are. A value
is the index of the ST register that held it: the code moves values and the library computes with
them. `stack` is history: ST(0), ST(1)... as the pushes, pops and writes mean them. `CoreNext` takes
the steps of `Instruction` together with those of the FPU; what `Instruction` says of the other
registers is not changed by them, which is the theorem `Projection`.

**MemMgr.** The map is a set of ranges; iterators are sets of at most one range, so that
decrementing `begin()` may give anything. `allocate` is a loop whose every round is a step.
Regions are those that `Module::allocate` passes: whole pages.

**Memory.** A step is a chunk of an access, `getpage` included. A write through a `std::istream`
may find the stream ended, which leaves the rest of the buffer as it was. `Content` is the
refinement mapping: a byte of a page not made yet is zero.

**Iteration.** A file is what it defines or lists, plus `Error` where it is cut. Of the
modification times all that matters is which files were written in the current second and which
are strictly newer than their target. A fault is the death of the process (or the failure of a
translation), possible between any two writes; a user starts again, with `unwintel run` or
`unwintel make`. What a buffered stream has flushed when the process dies is any prefix, here any
subset for a list.

**Loader.** `frames` is the stack of the calls of `loadmodule`, `phase` says where `init` of each
module is, and an action is the code between two of its effects that a circular import or an
exception can tell apart. What the files of the program say is chosen when it is read: where an
image goes, its imports and their entries (by name or by ordinal), the names in an export table.
Addresses are pages, and a function is a page and a number. `written` is the module whose sections
were written last to a page; a lookup in the export table of a module whose data directories were
not read, or whose pages are another's, gives `garbage`, which is in no type. `MemMgr` is there by
what is proved of it: `record` refuses a range that is not free, `allocate` finds the first hole.
An exception is `error`, and `Unwind` leaves one frame, whose `WorkingDir` is destroyed. The user
may have linked `shared/b` in the directory of a DLL (`links`); `setup` makes `shared/` at the root
only. The `init` of a host module is the user's: it allocates one range.

## Runs

| Run | Instance | Shows |
|---|---|---|
| `context` | one context, any program | `NonPreemptive`, `MutexUse`, `Rotation`; liveness `HandedOver`; `Context` implements `Coroutine` (`Alternation`) |
| `context_exit` | the same | finding 1 |
| `decompile` | 4 instructions | `RefCounts`, `CollapseSucceeds`, `DominatorsExact`, `ReducibleExact`, `ReducibleStays`, `CodeWellFormed`, `FollowsFlowUnshared`, `AssignedBeforeRead` |
| `scan` | graphs of 3 blocs for `scan`, of 4 for `test` | `Lexicographic`, `ScanSucceeds`, `EveryGraph`; `Scan` implements the seed (`SeedSpec`); liveness `ScanEnds` |
| `decompile_shared` | 4 instructions | finding 2 |
| `flags` | 3 blocs, calls among them, one flag | `AllSettled`, `NothingSuperfluous`, `ReadsServed`; liveness `AnalysisEnds` |
| `flags_skip` | 2 blocs, 2 flags, one skipped | finding 3 |
| `memmgr` | 4 pages of 2 addresses | `Disjoint`, `FirstHole`, `WholePages`; liveness `SearchEnds` |
| `memory` | 3 pages of 2 bytes, 2 keys, accesses of 4 bytes | `Chained`; `Memory` implements `FlatMemory` (`Flat`) |
| `instruction` | 2 registers, an FPU of 3, 3 accesses | `Exact`, `StackExact` |
| `iteration` | 3 functions, one of a DLL, 3 calls, 2 faults | `FreshProgram`, `NoMakeError` (an action property); liveness `Finishes` |
| `loader` | the program, 2 DLLs, a host module and a name that no module has; 8 pages, 3 imports | `Resolved`, `InDirectory`, `LoadedOnce`; liveness `Ends` |

The runs `decompile`, `iteration` and `loader` also check the type invariant of their module; those of
the others are theorems, or conjuncts of one.

**Bounds, and why they are enough.**
- `Context` has none: its state space is finite.
- `MaxBlocs = 4`: four is the least number of blocs for an irreducible graph with an entry, a
  loop entered at two places and an exit, and for nested loops with two exits; all transformations,
  duplication included, are taken.
- In `scan`, three blocs (299 waves) for the program that is compared with the set of all rooted
  graphs, four (5817 waves, below `MaxSteps`) for the collapse of all graphs. The code has 6 and 8.
  Size 6 has 4,335,389 waves, less than the 0x1000000 that `scan` allows itself, so that it does end
  by `Stop`; size 8 has 6,131,101,662, so that `test` sees the first 0.3% of them. `MaxDepth = 20`
  is above the number of choices of a graph of four blocs. The theorems about the seed have no bound.
- `N = 3` in `FlagFlow`: a bloc, one that invalidates it and one between them in the round robin,
  with all graphs and all reads and writes. One flag is enough, as flags are independent; the
  second one of `flags_skip` only makes the skipped flag one of several. The theorems remove both
  bounds.
- `MemMgr`, `Memory`: the smallest spaces with a hole between two ranges of different sizes, and
  with an access that crosses two page boundaries, one of them between pages of the same chain, and
  one at the end of the space. The theorems remove the bounds.
- `MaxOps = 3` in `Instruction`: any two writes of parts of a register, then a read; an exchange of
  two registers; a read, a condition on it, and an access on each path. Two registers are enough for
  one to be read after the other is updated. `Depth = 3` in `FpuStack`, instead of 8: with three
  registers, unlike two, a push and a pop differ. The theorems remove the three bounds.
- `MaxCalls = 3`, `MaxFaults = 2` in `Iteration`: two functions of the program and one of the DLL,
  hence a second function of a module after a fault, and a fault during the recovery of another.
- `MaxImports = 3` in `Loader`: the program imports a DLL that imports another one that imports the
  first, or all three modules. One function for each module and one entry for each import are
  enough for an address to be right, null or another module's. `Base` and `Last` let an image meet
  the stack, the heap and another image, and a host module find no room. To bound the choices all
  functions of the program and of its DLLs have been translated, which is the worst for `CallDB`.

**Fairness.** `Context`: both threads are scheduled (weak fairness of each thread's next step); a
mutex that stays free is eventually taken, and no more is needed since there is never a contender.
That the translated program ever yields is not assumed. `Coroutine`: the scheduler resumes a context
that it may resume (`execute` loops over its contexts). `Decompile`, `FlagFlow`, `MemMgr`: a
sequential program goes on (weak fairness of its steps; so does `Loader`; in `MemMgr` only of the loop, since nobody
has to call it). `Scan` too is one thread; `MCScan` writes its
fairness with the parity of the number of steps, as evaluating ENABLED of a collapse is too slow for
TLC; a step is possible in every state before the end, or the run would find a deadlock. `Iteration`: the processes go on and time passes (`Tick`,
the wait of `waitnewtimestamp` is a busy one); that a user starts the program again is part of the
progress assumed, faults are never fair.

**Deadlock** is checked in all runs; states where a component is over have an explicit stuttering
step (`Over`, `Terminating`, ...).

### Findings

1. *A trap is reported as an exit.* `interrupt` (`context.cc:174-175`) sets `FatalError` and throws
   `Stop`; the handler of `Stop` in `run` (`context.cc:132-133`) sets `Exited` over it. The
   scheduler removes the context as one that "exited normally" (`winnt.cc:96`).
2. *A duplicated bloc shares its condition.* `duplicate` (`ibloc.cc:43-49`) copies references to the
   statements. If the two copies then end up in different patterns, the last `SetCondTerm`
   (`insnstmt.hh:70`) decides the variable and the sense of both conditions. `FollowsFlowUnshared`
   says that this is the only way for the code of four instructions to diverge: it holds.
3. *A flag written on one path only.* `GetFlagStats` (`insnstmt.cc:173-185`) takes a flag written on
   one path of an instruction (a shift by CL) as written on both. The write before it is dropped, and
   a read after it may get a value that was not computed. `ReadsServed` holds if no instruction is
   of that kind, and that is a theorem.

Two more, which no run is spent on but which the properties of `Loader` state as exceptions.
`LibModule::WorkingDir` (`module.cc:470`) looks for `shared/` in the current directory: a DLL that
is the first to import another one has changed it, so that `chdir` fails and loading crashes unless
the user has linked `shared/` there (`InDirectory` tells where the process is). And
`LibModule::symboladdr` of an ordinal uses it as an index without subtracting the ordinal base that
`rva` has at hand (`module.cc:392-402`): with the usual base, 1, the address is that of the next
function, although the comment of `module.cc:82-83` says that `LibModule` "should support it"
(`Based` in `Resolved`).

Observations made while reading, which no property states:
- `getkey` (`cfg.cc:957-1080`), which names a graph so that `scan` reports each irreducible graph
  once, announces "a canonical node order", but isomorphic graphs of five blocs may have different
  keys (194 of the 12008 classes of graphs of five blocs have several; none with four). Reports are
  repeated, nothing else depends on it.
- The test generator may make a graph twice: an exit that would lead where the other one does is
  dropped, and the choice that dropped it gives the same graph as the one that set no exit.
- After `Stop`, `base.tail` points to a deleted choice; both callers end there.
- `finit` does not reset `ftop` (a TODO, `core.hh:310-311`).
- `Memory::r<8>` and `w<8>` take a `uint32_t`, so that floats of 64 and 80 bits keep the low 32;
  `fpustore64p` (`context.cc:237`) shifts by 32 and more; code that is emitted for `ldmxcsr` names
  a field `MXCSR` that `Context` does not have.

## Theorems

All are proved for all values of the constants, from the assumptions named in the modules only.

- **`RoundRobinProofs`, the hand-over.** The inductive invariant is `Rotation` (with the types): the
  disjunction of six phases, each of which says where both threads are, which mutexes are locked and how the local
  `turn` relates to `m_turn`. It is needed since mutual exclusion alone does not say which mutex is
  free. `NonPreemptive`, `MutexUse`, `SideUndisturbed` follow from it, and so does
  `Implementation`: each step is a step or a stutter of `Coroutine`.
- **`RoundRobinProofs`, the flags.** The invariant of the round robin is `AllSettled`: the blocs visited
  since the last update satisfy their equations. `NothingSuperfluous` is inductive with the fact that what a
  bloc reads is needed. `FilteredReadsServed` adds that the flags needed at the current instruction
  are fresh if they are the function's own, which the equations carry from an instruction to its
  successors and calls make void; it assumes `CanSkip = {}`.
- **`MemMgrProofs`.** The invariant relates the iterator of a search to its candidate: all ranges
  before the iterator (after it, downwards) are out of reach of the candidate, which is in the
  region, and no place that was passed was free. `Disjoint` and `FirstHole` (that
  is `InsertsFree`, `FirstFit` and `FullOnly`) follow. `WholePages` needs that the candidate begins
  and ends at the boundary of a page at each round, which the sizes, rounded, and the ends of the
  ranges that push it keep.
- **`MemoryProofs`.** The invariant is the types, `Chained`, the relation between the running
  variables of `zfill` and the address, and the fact that an access in progress has bytes left.
  `Implementation` proves `Spec => Flat`: most of it is what a chain holds once a page was moved or
  made, and that the bytes of a chunk are those of the flat memory, modulo the size of the space.
- **`InstructionProofs`.** First the data: `Holds` says that the parts of a register are slices of its value, cut in one of three ways (whole, by half, or with AL and AH apart). `ReadExact`
  and `WriteExact` say that reads give the bytes they are meant to and that writes keep `Holds`, the
  loop of `eregwrite` cutting exactly what surrounds the range. The invariant of `Instruction`, `Inv`
  (checked with TLC before it was proved), adds that operands are what they are meant to be; that the
  tree, wherever `simplify` has put an update, leads from the registers before the instruction to those
  that the accesses left; that a temporary holds the value its expression had before the instruction;
  and, while the updates are committed one by one, which registers have which value. `Exactness`,
  `Spec => []Exact`, follows. `StackExactness` is the same for the FPU, with an invariant of its own:
  while accesses are made, `fpuregs` read from `ftop` is the stack; in each state of the run, a
  register that is not to be written any more has the value it should have in the end; what is
  `fleft` or `topleft` has its value and its register number in temporaries, which were computed from
  the top as it was. It is because those numbers are absolute that the top may move first.
  `Projection`: each step of `CoreSpec` is a step of `Spec` or a stutter.

- **`LoaderProofs`.** `InDirectory` says nothing of the directories that nested `WorkingDir`s have
  saved, so it is not preserved by the return of one. The invariant is `Stacked` (the frames are
  distinct loaded modules, since a module is marked before its imports are followed) and
  `Directories`: the current directory is that of the innermost frame with a `WorkingDir`, and each
  of these has saved that of the next one out. A step pushes a frame, enters a directory, or pops,
  by a return or by an exception; lemmas say what each does to the invariant.
  `OneLoad` and `Resolution` rest on `Loading`: `Placement` (a module that is placed is in the map,
  once, and its pages hold its own sections, since nothing else was put there), `Nested` (all frames
  but the innermost are in the middle of an import, and a loaded module is in a frame or is mapped),
  `Entered` (the CallDB has the functions of the mapped modules, and no others, so that a `Conflict`
  would need two modules with one base) and `Looked`: a lookup made again would give what it gave.
  The last one is what makes cyclic imports harmless: all that `symboladdr` depends on is settled
  once the directories of a module are read, although its own imports are not resolved. It is also
  what `TypeCorrect` needs to exclude `garbage` from the import tables.
- **`IterationProofs`.** `TypeCorrect` holds with any faults. `Freshness` and `MakeSucceeds` are about
  runs without one so far (`faults = 0`), and rest on `Clean`: a source is the translation of its
  function and a list has functions that have a source (`Sources`, `Lists`); what was compiled and
  archived is what the source says, unless it has been written and not made since (`Objects`,
  `LibraryObjects`), which `-W` tells make whatever the times are; the process knows what is listed
  (`Knowledge`); and the program is linked with all that, or make will see that it is not (`Links`).
  The last part is where times matter, and `Clock` is what it needs: once the process has waited, the
  program is not among the files of the current second, so that the archive of a DLL made from then
  on is strictly newer than it, and main_exe is linked again although it is told of no new file.
  `Recovery` proves `NoMakeError` with any faults, from `Sound`. Times to the second never hide a
  changed source: an object that is up to date is compiled from its source (`Compiled`), and a link
  ends a second in which all was compiled (`Seconds`). A program that starts has the tables of the
  archives, and they hold their functions (`Settled`, `Linking`); in main_exe nothing is left to
  compile but what `-W` will name (`MainDone`). A source of the DLL that a fault has cut is the first
  call that the program does not know: nothing can have been linked since, so that it is the next
  source to be written again, before any make (`Damage`, `IsNext`, `Knowing`). Listed functions have
  a whole source (`Whole`), and during the make the archives keep what the program knew
  (`Remaking`). The start after a fault may still fail (`Damaged`): `Recovery` is about the make
  that follows a translation.
- **`GraphProofs`, the graph.** A property of the graph has to survive any sequence of rewrites, each of
  which is a few updates of exits, counts and statements made by hand. The invariant is `Shaped`
  (checked with TLC on four blocs before it was proved): the graph is `Sane`, that is `Pooled` (the pool
  has each bloc once, the entry first, under names that were used), `Linked` (exits lead to blocs of the
  pool, and the natural one is set first) and `Counted` (the counts are exact); it is `Rooted` (the entry
  leads to every bloc); the exits that decode has still to set are not set (`Waiting`); and nothing was
  thrown but "bad graph". `Rooted` is what `Counted` needs and the other way round: a merge deletes blocs
  whose count is zero once their exits are dropped, which leaves no dangling exit because counts are
  exact, and leaves nothing unreachable because a bloc that nobody refers to does not lead the entry
  anywhere; and the order of `refresh_props` has every bloc because all are reached. The proof has a
  lemma for each operation on a graph (`Link`, `Cut`, `Drop`, `Move`, `Delete`, `duplicate`), then for
  the search of a pattern: `Tried` is the invariant of its trials (the blocs matched so far are
  different, follow one another by their exits and have no other predecessor, backtracking restores
  them), `Grouped` what a match is in the end. Then each merge is shown to be a sequence of those
  operations (`ChainFacts`, `DriveFacts`, `MergeLoopFacts`, `FunnelFacts`, `DuplicateWorstFacts`).
  `TypeCorrect`, `CountsExact`, `OneException` and `NoneStranded` follow. That merge_loop strands no bloc
  needs two facts about the order of the patterns: `LoopFound` (a bloc that leads to itself matches the
  pattern of a loop) and `NoneLost` (a bloc of the loop that would be lost is one that the pattern of a
  sequence, which comes first, would have taken).
- **`CollapseProofs`, the dominators.** `DominanceExact` is about an iteration, and has an invariant of its
  own, `Halfway`, kept by each of the updates that a pass makes (`UpdateKeeps`). The *line* of a bloc is
  the bloc, its ancestor, and so on: the lines make a tree with ancestors earlier in the order
  (`Forest`); a first pass goes through the blocs in order, so that those of the line come first
  (`Covered`); a line has every dominator (`Dominated`), and all that the lines of the predecessors
  agree on (`Agreed`), which makes it an upper bound that an update can only lower. The part that makes
  an update lower it is `Inherited`: forward edges add at most their end to a line, but for what
  the pass has not yet come to. Each pass that changes something makes `Weight`, a set of at most
  n² pairs, smaller, so that n² + 1 passes are enough, the bound that `Idom` gives them
  (`PassFacts`, `FixpointFacts`): the loop of the code ends. Where it ends, a bloc that is not on a line
  can be gone around: the blocs whose line has not a given one are closed under the edges that avoid it
  (`IdomExact`). `ReducibilityExact` adds the order of `refresh_props`: a graph is reducible when the blocs
  have *ranks* that every edge raises, but for the edges to a bloc that dominates their tail
  (`RankedIff`). The order gives such ranks when no retreating edge is bad (`OrderRanked`); ranks give
  each cycle a bloc of lowest rank, its only entrance (`OneHead`); and the head of a retreating edge
  leads to its tail through blocs that come after it (`Within`), which is a cycle with two ways in unless
  the head dominates (`EdgeDominated`).
- **`CollapseProofs`, the rounds.** Ranks are what a rewriting can be shown to keep: the bloc that a group
  leaves keeps the rank of the first of the group (`MergeRanked`); a funnel comes after its part and what
  ranks before the head of the part, and everything else after the funnel (`FunnelRanked`). The invariant `Followed`
  carries them from the decoded function to the graph at hand, and `ReducibilityKept` and
  `ReducibleUncut` follow: a reducible function stays reducible, and where it comes to `StepDuplicate`
  no edge is cut, an exception is thrown (`OneException` tells which).
- **`CollapseProofs`, the code.** `CodeCorrect` has `CodeWellFormed` for functions of any size. The
  invariant is `Controlled`: the code of each bloc of the pool is `Formed` (it closes what it opens, the
  nesting never falls below where it starts, and each break and continue is in a `for` that is not
  closed yet) and its two exits are `Parted`; control starts at the first statement and stays in the code. A
  fork leads to two blocs, which is what its two branches are counted as, hence `Parted`. Each rewriting keeps it: `SequenceSpoken`,
  `IfSpoken`, `LoopSpoken`, `FunnelSpoken`, `DuplicateWorstSpoken`. The blocs of a group come
  in the order in which the search reached them (`MatchArranged`), so that the branches of a
  conditional come after its test. The hard one is the loop: merge_loop keeps a stack of what remains to be closed,
  and pops it as it prints. Its height is the number of blocs that the printed ones lead to and
  that are still to come (`FrontierCount`), so that there is one to pop for each bloc, and none is left at
  the last. Control follows: a closing brace has its opening one and the other way around (the
  matches of `EmittedCode`), so that no branch and no jump leads out of the code (`ControlledRun`).
- **`GraphProofs`, the seed.** `LexicographicOrder`: the choices of a wave are, up to `tail`, the first
  ones of the successor of the wave before, and the replayed ones have the same count, for any tree
  of choices; `Exhaustive` states that no sequence of choices lies between a wave and its successor,
  before the first or after the last, so that no run of the client is skipped. `Scan` implements
  `SeedSpec`, so that both hold of the graphs.

Induction over data is done without the library's induction theorems, which take an operator as a
parameter: `Induction` states it for sets, from the least element of a set of numbers (`WFMin`), and
`Recursion` and `RecUnique` say what a function defined by recursion is.

Only model-checked:
- liveness (`HandedOver`, `ScanEnds`, `AnalysisEnds`, `SearchEnds`, `Finishes`, `Ends`), which is
  beyond the proof system;
- `CollapseSucceeds`: `OneException` leaves "bad graph", and the bound on duplications. That the patterns
  and the funnel are enough for every acyclic graph is what `tests/scan.cc` was written to try;
- `FollowsFlowUnshared`, `AssignedBeforeRead`: they relate the statements of the last bloc to the
  whole history of its merges, by what the code means. `CodeCorrect` is the part of it about the shape;
- `ScanSucceeds`, `EveryGraph`, which depend on the last two.

## What is not modelled, and why

- The semantics of x86 instructions: the unisim library, which is not part of the repository. An
  instruction is a step in `Decompile` and `FlagFlow`, and a sequence of accesses to registers in
  `Instruction`.
- In `Instruction`: flags and segment registers, which are not cut in parts and otherwise go through
  the same updates and temporaries; loads and stores. In `FpuStack`: the status and control words but
  for the top, conversions of floats, and `finit`.
- In `Collapse`: the translation log (`record_trans`, `cfg.cc:111-119`), which is off unless asked
  for and sorts the pool once more; a fork whose exits are the same bloc, which decoding does not
  produce; dumps and `getkey`.
- In `Scan`: the random seed, the reports, and the graphs that `tests/patho.cc` builds by hand.
- In `Iteration`: the settings `APPNAME` and `STEP`, and what loading does (see `Loader`).
- In `Loader`: headers of the files, the start of the main thread. The chains of `CallDB`, which only
  grow at their head, are a partial function there.
- The words of the guest memory (`r<>`, `w<>`): a composition of bytes without state.
- Parsing of PE files, command line, strings and logs: sequential reads and output.

## Plan

1. `Loader` and `Iteration` together: the addresses of host functions across iterations.
2. Loads and stores of an instruction beside its registers, as `FpuStack` is.
3. The bits of `Flags` and the settings of the command line.
