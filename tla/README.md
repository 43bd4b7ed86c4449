# sCr++ verification

sCr++ compiles C and C++ to Scratch projects. LLVM IR is lowered to Scratch
blocks over one byte array, `__scl_memory`; a C runtime, an event package, a
pen console and a debugger run on top of it, and `scrate` distributes packages.
This directory specifies the parts of that system whose correctness is a matter
of order, sharing and failure, model-checks them with TLC and proves some of
the results for all parameters with TLAPS.

Paths are relative to the repository. `PROJECT.json` lists the runs, the
mutants (one plausible bug per property, which must break it), the source lines
of each definition, the hazards and the theorems.

## 1. Inventory

| Component | Source | State | Operations | Hard behaviour | What makes it correct |
|---|---|---|---|---|---|
| Edges and phis | `src/backend.cpp` `edge` | pending copies, temporaries, frame size | emit a copy, break a cycle, branch | any permutation of overlapping slots | phis change simultaneously; nothing else changes; it ends; temporaries are reserved |
| Slot layout, block loop | `src/backend.cpp` `layout`, `emit_function` | slots, views, pc in the frame | run a block, take an edge | values that share a slot, loops that redefine them | the frame implements SSA |
| Procedures and tail calls | `src/backend.cpp`, `src/slot_memory.cpp` | `__scl_sp`, `__scl_tail_id`, argument areas, frames | call, musttail, return, alloca, stackrestore, va_arg | shared static areas, byval objects in dying frames, exhaustion in mid-sequence | calls implement activations that share nothing; the stack pointer comes back |
| Integer arithmetic | `src/numeric.cpp`, `src/slot_numeric.cpp` | bytes of operands and results | every LLVM integer operation | carries, partial top bytes, signs, overlapping operands | the numbers LLVM means, nothing else written |
| Byte memory | `src/slot_memory.cpp`, `src/backend.cpp` | `__scl_memory` | copy, fill, load, store, memmove, masked and atomic accesses | overlap, accesses past the end, pointers that do not fit an address | the bytes the access names, moved whole, or a stop |
| Constants | `src/constants.cpp` | initial memory | lay out, encode and fold constant expressions | a second implementation of the arithmetic | the bytes the run time would compute |
| Frontend | `src/frontend.cpp` | JSON of the IR, what is reachable | read a module through LLVM's C API | reachability before and after linking | a faithful dump |
| Pruning | `src/prune.cpp`, `src/main.cpp` | reachable definitions, addresses retained | closure over references, twice | indirect calls, aliases, initialisers, runtime entries known late | nothing a run comes to is removed; pruning again removes nothing |
| Float lowering | `src/float_lower.cpp` | rewritten IR | one rule per instruction | NaNs, signed zeros, unordered comparisons | each rule keeps the meaning |
| Inline assembly | `src/assembly.cpp` | templates, the temporaries of operands and output | check a template, convert operands and results, run | an output that is not assigned on some path, odd widths, subnormals | no stale output is read, the template sees the numbers and its result arrives |
| Project building | `src/blocks.cpp` | the table of blocks, lists, the event collectors | build scripts, validate, archive | links in both directions, Boolean sockets; bounded lists filled by hats | the table reads back as the scripts; collectors drop only when full |
| Allocator | `runtime/stdlib/src/runtime.cpp` | blocks in the heap array | malloc, free, calloc, realloc, aligned_alloc, posix_memalign | splitting and merging in place over long histories | blocks tile the heap, keep their contents, fail only when full |
| Exit and statics | `runtime/stdlib/src/runtime.cpp` | handler lists, guards | atexit family, exit, quick_exit, finalize, guards | handlers that register, finalize and exit | each handler once, latest first; the program ends |
| Memory and search functions | `runtime/stdlib/src/runtime.cpp` | the array they work in, strtok's pointer | memmove, qsort, bsearch, strtok, operator new | writing into what is still to be read, equal keys, delimiters that change | their C definitions |
| Standard streams | `runtime/stdlib/src/stdio.cpp`, `include/console/stdio.cpp` | FILE buffers and flags, the adapter's line | read, put back, write, flush, close, exit | handlers inside flushes and blocked reads, ends of input between bytes on their way | bytes in order and whole; what was flushed is on the screen |
| Soft float | `runtime/softfloat` | none | IEEE operations on integers | rounding, subnormals, cancellation | correct rounding |
| Number conversion | `runtime/stdlib` (adapted libc code) | none | printf/scanf/strtod | long exact arithmetic | correct rounding |
| Events | `include/events/events.cpp` | handlers, tokens, batches, the collectors' lists | subscribe, unsubscribe, poll, run, quit | callbacks that re-enter; hats that append meanwhile | each event once, to those registered in time; the loop keeps serving |
| Console | `include/console/console.cpp` | ring of lines, view, input session, painted cells, cursor | write, poll, flush, read, cancel, close | handlers between the keys of a batch; incremental painting | the edited line stays whole; the screen shows the text; readers return |
| Pen packages | `include/pte`, `include/triangle` | none | draw | none | - |
| Debug engine | `debugger/engine.js` | paused, mode, breakpoints, skip | boundary, resume, pause, set breakpoints | requests between two slices | stops where it should, once |
| RSP server and bridge | `debugger/rsp.cjs`, `debugger/llvmdbg.cjs` | packet queue, pending requests, breakpoints | packets, interrupts, timeouts, events | crossing messages, late answers | LLDB, server and engine agree |
| Debug adapter, terminal | `debugger/llvmdbg.cjs`, `cli.cjs`, `scratch-debug.cjs` | session and optimistic state | launch, configure, commands | start race, failure after the fact | the program starts once, the prompt tells the truth |
| Symbols, player, editor | `debugger/` | none | generate ELF, load a page | none | data conversion |
| scrate | `tools/scrate.py` | registry, cache, receipts, locks | pack, resolve, install | several processes, kills, damage; graphs with cycles and conflicts; edits behind a lock | whatever names a build leads to it, whole; exactly the sound graphs resolve |
| Builds, SDK scripts | `tools/` | files | run compilers | none | - |

Interactions. The backend's parts share the frame layout: `emit_function` uses
`edge` for every branch, `marshal_call` and the tail loop share the outgoing
and `tail_args` areas, and an operation on integers is folded by the constant
evaluator, reduced to moves, or a call of a `SlotNumeric` helper with slot
addresses. Float operations become calls of the float runtime, which is linked
only when the pruned program needs it; `main` then reads and prunes again. At run time the console calls `poll`
of the events package and is called back by it; program handlers are called
from both and may call either again. Hats are separate Scratch threads that
touch only the collectors' lists, and run whenever `poll` yields. The debugger
is four programs joined by ordered channels: LLDB, the RSP server and its
bridge (one Node process), and the engine in the browser, called by the
interpreter before each instruction. `scrate` processes share only files.

## 2. Modules

| Module | Models | State and actions in the code |
|---|---|---|
| `PhiEdge` | `Compiler::edge` | the list of copies, emitted when ready (`EmitCopy`), a source saved when all are stuck (`BreakCycle`), then `Branch`. The compiler decides from offsets alone, so emitting and executing a copy are one step |
| `SsaMachine` | abstract | SSA: an environment of values; phis of a block change at once |
| `SsaFrame` | `layout`, `emit_function` | slots and views from the layout, blocks by the dispatch tree over the pc in the frame, edges by the actions of `PhiEdge`, which it extends |
| `Activations` | abstract | calls as activations with an argument, a result and objects of their own; musttail replaces |
| `CallStack` | procedures, `frame_enter`/`frame_leave`, tail loop | `mem`, `__scl_sp`, `__scl_tail_id`; `calls` holds what the Scratch procedure stack holds (frame, argument and result pointers) |
| `CallStackProofs` | - | its inductive invariant, and that it implements `Activations` |
| `Numeric` | the emitter of `numeric.cpp` | operators on sequences of bytes: what the emitted blocks compute |
| `SlotNumeric` | `slot_numeric.cpp` | which of these a helper uses, and shifts by constants |
| `SlotMemory` | `slot_memory.cpp` | each procedure as the sequence of byte moves it makes, or the trap |
| `Operations` | `computed`, vector and scalar intrinsics of `backend.cpp` | lanes, packing, select, shuffles, reductions, pointer arithmetic over `SlotNumeric` |
| `Constants` | `constants.cpp` | the second arithmetic, bit by bit: constant expressions, aggregates, resolved symbols |
| `Floats` | `float_lower.cpp`, `runtime.c` | what a float instruction is rewritten to, and the entries it calls |
| `SoftFloat` | the single-precision functions of Berkeley SoftFloat | the algorithms over a format of `ExpBits`, `FracBits` and `GuardBits` |
| `Instruction` | `instruction`, `invoke`, `masked`, `share_instruction` | one instruction: `Execute` chooses between folding, moves, helpers and shared operations (`Moves`), `MoveByte` writes byte by byte, `Stop` is a trap |
| `Meaning`, `FloatMeaning` | reference | LLVM's results as numbers; IEEE results as exactly rounded fractions |
| `Pruning` | `prune.cpp`, `reachable_values`, `main.cpp` | the worklist of each pass (`Visit`), the passes in order (`Read`, `Prune`, `Link`, `Compile`), then a run of the program |
| `CompilerProofs` | - | the inductive invariants and theorems of `PhiEdge`, `SsaFrame`, `Pruning` and `Assembly`; the refinement of `SsaMachine` |
| `Heap` | the allocator | `blocks` are the headers, `mem` the array, `live` what the program was promised; one action per libc call |
| `Exit` | `__cxa_atexit` ... `quick_exit`, guards | the one thread's stack of handlers and finalizations is explicit; handlers are the program's and do anything |
| `Streams` | `stdio.cpp` of the library and of the console | a reading call goes on byte by byte (`ReadByte`); a flush polls first, so that handlers run (`dispatching`) inside it and inside a blocked read; what a handler calls is over within one action. The console is abstracted to one line of input and to how much of the output is painted |
| `Library` | `memmove`, `qsort`, `bsearch`, `strtok` | one action per turn of a loop, on the array that the caller handed over |
| `RuntimeProofs` | - | the inductive invariants and theorems of `Heap`, `Exit`, `Streams` and `Library` |
| `WellOrder` | - | least and largest elements of sets of numbers, and functions by recursion, for the proofs |
| `Events` | `events.cpp` with the collectors of `blocks.cpp` | the two lists, the batch, slots and tokens; hats act between any two steps at which poll yields |
| `EventsProofs` | - | the inductive invariants and theorems of `Events` and `Blocks` |
| `Console` | `console.cpp` | ring, view, input session, blocked reader, noted changes, painted cells and cursor. Program calls are actions, also between two events of a batch |
| `ConsoleProofs` | - | its inductive invariant and theorems |
| `Engine` | `engine.js` | `boundary` and the request methods |
| `DebugSession` | `rsp.cjs`, `llvmdbg.cjs` composed with `Engine` (EXTENDS) and an external LLDB | three ordered channels, the packet queue, pending requests with timeouts and late answers, the page's stop button |
| `Launch` | `Adapter` of `llvmdbg.cjs` | `ready`, `configured`, `started` and the handler that waits; each action runs a handler to its next await |
| `Terminal` | `TerminalDebugger` of `cli.cjs`, `LldbConnection` | `state`, `stopSerial`, the queue of commands and the pending request, with an external LLDB |
| `DebugProofs` | - | the inductive invariants and theorems of `DebugSession`, `Launch` and `Terminal` |
| `PackageCache` | `scrate.py` | files of registry and cache, two kinds of processes; a kill can come between any two file operations |
| `Resolution` | `resolve` of `scrate.py` | the recursion as a stack of visits, `seen`, the lock, what was fetched before; edits of the manifest and of directories between the calls |
| `Assembly` | `assembly.cpp` | a template is emitted (`Emit`) or rejected by the operators of `validate_operation` and `Lowerer::sequence` (`Valid`, `Known`), functions by the depth of nesting that the parser limits; then its blocks run with any outcome of conditions |
| `Blocks` | `Builder` of `blocks.cpp` | scripts as trees, the table they become, one action for each step of `hat`, `procedure`, `sequence`, `ast_block` and `input`, with the C++ stack of their calls as `activations`; `validate`; then a Scratch VM that follows the links (`ReadTop`, `Follow`) |
| `PackageCacheProofs` | - | the inductive invariants and theorems of `PackageCache` and `Resolution` |

Modules named `MC...` give the constants values; `Events` and `Console` need none, numbers
and model values in the cfg are enough. `MCCompiler` holds `Instruction`,
`Pruning`, `Assembly` and `Blocks` (with the data of `MCBlocks`) side by side, `MCRuntime`
`Heap`, `Exit`, `Streams` and `Library`, `MCPackages` `PackageCache` and `Resolution`, `MCDebugSession`
`DebugSession`, `Launch` and `Terminal`: a behaviour belongs to one part, chosen at the start, and the
variables of the others never change. A property of a part is about the
behaviours of that part; in the others its state is the initial one, where it
holds, and none of the other parts' fair actions is enabled, so that fairness
of one part asks nothing of another. Two refinements are stated by INSTANCE:
`SsaFrame` implements `SsaMachine`, and `CallStack` implements `Activations`.
`SsaFrame` extends `PhiEdge`: its edges take the steps of `PhiEdge`, and
`PlansLegal` says that every list they start from satisfies the assumption of
`PhiEdge`'s theorems.

*Why views are right.* A view shares its source's slot, and the slot is
overwritten when a loop redefines the source. That happens only on an edge into
the source's block. The source dominates the view and the view dominates its
uses, so every path from that edge to a use evaluates the view again, and until
then the view is not available. The mapping `AbstractEnv` therefore claims of a
slot only the values that dominance makes available (`Available`).

## 3. Runs

| Run | Question | What it shows |
|---|---|---|
| `phi_edge` | Do the ordered copies equal a simultaneous assignment? | `Simultaneous`, `Untouched`, `Reserved` for all lists of up to four phis over four slots, parts of slots, outer values and constants. `BrokenFrugally`: only real cycles are broken, and temporaries stay below half of what moves. `Terminates` |
| `ssa_frame` | Does the frame implement SSA? | `ImplementsSsa` for all generated programs with a loop: swapped phis, views of phis, chains of views, trivial phis, parts of aggregates |
| `runtime` | What do long sequences of allocator calls leave behind, what do re-entrant exit handlers do, do streams keep order among handlers, and do the functions that work in place do what C says? | `WellFormed` (tiling, no adjacent free blocks, blocks are what the program owns, contents and headers intact, all freed is one block again, bounded waste, alignment, failing only when full); `EachRunsOnce` (handlers, and constructors of statics), `LatestFirst`, `ExitEnds`; `InputFaithful` (typed bytes arrive in order, none lost or doubled, and the end of input after them), `OutputShown` (what was flushed is painted, whoever wrote it); `LibraryMeans` |
| `exit_unflushed` | Does exit always show what was written? | violated, see findings |
| `compiler` | Does the destination hold what LLVM means, whichever way was taken; does pruning keep what is needed; do templates and the table of blocks say what they should? | `ComputesMeaning` for integers, vectors, aggregates and pointers, folded or not, with every overlap of operands and destination, and floats against exact rounding (`FloatsMean`, a part of it); `MovesWhole` for memory accesses, which either move exactly their bytes or stop; `RunsWhole`, `PrunesOnce`; `NoStaleOutput` for every path through accepted templates; `BridgesMean` for every content of operands and every number, NaN, infinity and text as a result; `ReadsBack`: following the links gives the scripts, every block has one place, Boolean sockets hold Boolean blocks |
| `call_stack` | Do calls share nothing? | `ImplementsCalls` through the shared areas, `StackDisciplined`: ownership is nested and the stack pointer comes back after any chain of tail calls |
| `events` | Who is called, for what? | `DeliveredOnce`, `CalledRightly` (new ones wait, removed ones are not called, survivors are all served), `KeepsServing` |
| `debug_session` | Do three programs agree, is a program launched as configured, and does the terminal know its state? | `InAgreement`, `StepsExpected` (no breakpoint is run over, no reply comes unasked), `EveryoneHears`, with packets that arrive together, the stop button and one timeout; `StartsAsConfigured`, `ProgramStarts`; `PromptTruthful` |
| `debug_interrupt_lost` | Does an interrupt always stop the program? | violated, see findings |
| `console` | Is the line whole, the screen right, the reader served? | `LineWhole`, `FlushShows`, `BatchIsolated`, `EnterEndsRead` |
| `console_delete` | Is the screen right after every deletion? | violated, see findings |
| `packages` | Does the cache survive kills, damage and company; which graphs resolve, in which order are they installed, and does a lock repeat the build? | `Backed`: index, receipt and locks always lead to an archive; `InstalledWhole`: success hands out the whole package, whatever was left behind; `SolvesExactly`: precisely the acyclic graphs with one version and source per name, each package after those it needs; `RepeatsOffline`: a lock that still fits is enough without a registry |

### Bounds, and why they are enough

* `PhiEdge`: four phis give every shape of dependency the algorithm tells apart
  (chains, two-cycles, two disjoint cycles, a cycle with readers hanging off
  it, sources that are part of a target). A unit is 8 bytes; the proofs hold
  for any number of phis, so the run only has to find mistakes in the formulas.
* `SsaFrame`: a loop with two header phis, a body and an exit; the programs
  enumerate what the phis take. One loop suffices for the hazard, an overwritten
  source.
* `CallStack`: room for two frames and two objects, so that the stack is full,
  or one short, in the middle of every kind of sequence; tail chains are
  unbounded. `MaxCells` bounds the allocas of one activation.
* `Instruction`: a byte of two bits, addresses of two bytes, pointers of three, so
  that a pointer can fail to be an address; a memory of fifteen bytes. One, two
  and three bytes, whole and partial, with all contents (three bytes: the values
  0, 1 and 3) make every carry, borrow, mask and sign case happen; nothing in
  the algorithms depends on 8 but through `ByteBits`. Vectors, aggregates,
  pointers and accesses are met with four contents of memory and constants
  chosen at their limits; accesses use every address and some beyond.
* `Floats`: four bits of exponent and three of fraction, with every number as one
  operand and the numbers where something changes (zeros, subnormals, around one,
  largest, infinity, NaNs) as the other. Rounding up to even, double rounding,
  cancellation, overflow and underflow all occur; products whose exact value
  TLC's integers cannot hold are left out.
* `Pruning`: nine definitions with every choice of a callee, an address in an
  initialiser or a body, an indirect call, a constructor list and float
  operations. The proofs hold for any program; the run finds mistakes in the
  formulas.
* `Launch`: two sources, three `setBreakpoints`, one late answer: a change can
  come before, between and after the two loops over the breakpoints.
* `Terminal`: three commands and one late answer: a command, the one queued
  behind it, and a pause.
* `Heap`: 14 units hold at most three blocks, which is what splitting, merging
  with either neighbour, growing in place and moving need. A base that is not
  aligned for the larger alignments, sizes that fit exactly, too large ones and
  products that overflow (`SizeMax`) are included. Of the alignments 3, 8 and 16 the first
  is no power of two and the last is larger than the heap, which the allocator refuses
  before it looks for a block: `FailsOnlyWhenFull` leaves that one out.
* `Streams`: a buffer of two bytes under lines of up to three, so that a line is larger than
  the buffer, equal to it or shorter; two lines and four calls of the program, at any
  place a handler can run: a call that starts a flush or a read, and three inside it.
* `Library`: every array of up to five elements with equal and different keys, every
  pair of blocks, every string of up to five characters and every sequence of
  delimiter sets. A heap of five has parents with two, one and no children.
* `Events`: slots, lists and batches of two items, three events and three
  registrations: a full list, a slot taken again and a batch with successors.
  Two tokens in all, so that `next_token` wraps within the run and meets one that is in use.
* `Exit`: a list of three entries that fills up, three registrations, a stack of
  four frames, so that handlers finalize and exit within finalizations.
* `DebugSession`: two instructions, three commands of LLDB, one timeout. Longer
  sessions repeat these: after each reply nothing of the old exchange is left
  but a late answer, which is kept.
* `Console`: two columns, one visible row of a history of two, with a wide and
  an ordinary character; four calls of the program and two key events. Every
  line wraps, scrolls and drops out of history within these.
* `PackageCache`: two builds, packers and projects, two files, one kill and one
  damage. The processes and builds are interchangeable and no property is
  temporal beyond invariants, so symmetry is sound.
* `Resolution`: every graph on four packages of three names, one of which has two
  versions, one of which may be missing or of another ABI (17280 worlds, one
  call each), which has every shape of cycle, diamond and conflict a depth-first
  search tells apart; and one world with two registries and two directories for
  three calls and two edits or moves, enough for a lock, its edit and its check.
* `Assembly`: programs of up to three statements with branches two deep (`MaxNesting`), so that an
  assignment can be missing in one branch, behind a loop that may not run, or
  after a stop. A byte of four bits and integers of one to nine bits have every
  relation of width and byte boundary. A double of three such bytes (seven bits of fraction,
  four of exponent) is taken apart for every one of its values; numbers are integers in
  units of the least of them, so no rounding is hidden by the model.
* `Blocks`: expressions two deep, scripts of two statements, branches two deep, and
  projects of two hats and two procedures: every kind of socket with every kind of
  content, and a statement before, after, inside and around another.

Deadlock is checked in `events` and, for the cache, in `packages`. The others stop: an edge is
taken, a function returns, a program ends or its bounded number of calls is used
up, and an aborted runtime does nothing more.

### Fairness

* `PhiEdge`: the compiler's loop goes on (weak fairness of `Next`).
* `Events`: `Poller` is weakly fair: Scratch resumes every thread, and callbacks
  return. Neither hats nor the program's choice to poll are fair.
* `Exit`: the finalizing loops go on (weak); handlers and constructors return
  whenever they get control often enough (strong: nested finalizations
  interrupt them again and again). A handler that loops for ever is the
  program's affair.
* `DebugSession`: sockets deliver, the event loops of Node and the browser turn,
  the interpreter is stepped. LLDB need not send anything, no timeout needs to
  happen, nobody has to press the button.
* `Launch`: the browser connects, handles its requests and answers, and Node's event
  loop resumes the handler that waits. No client request is fair.
* `Console`: the blocked reader keeps polling (its loop in `read_line`), handlers
  return, painting ends. The user need not type.

## 4. Proofs

`CompilerProofs` proves of `PhiEdge`, for every plan of any length, any slots and sizes, and
any memory, from `LayoutAssumption`: pc, slots and outgoing area lie in this order in the frame,
the alignment is positive, and the plans are legal (slots inside the frame, no
two targets share a byte, a local source is a slot or a part of one, so it lies in one target
or in none):

* `TypeCorrect`: `TypeOK`, a part of `BrokenFrugally`;
* `PhisSimultaneous`: `Simultaneous`, the correctness of the lowering;
* `OtherSlotsUntouched`: `Untouched`;
* `TemporariesReserved`: `Reserved`;
* `CyclesBrokenFrugally`: `BrokenFrugally`, which says that a copy is saved only where the
  copies block each other in a circle, and that this costs at most half of the bytes that move.

`Simultaneous` speaks of the end only, so it is not inductive. `Inv` adds what
holds on the way: a pending copy reads either the slot it has in the plan or a
temporary below `Outgoing + temporary` (`SourcesPlaced`); that source still holds
what the planned one held when the edge was entered (`PendingIntact`); a copy that
is done has its value in its target (`Arrived`); temporaries are counted in the
frame (`FrameHolds`). `EmitPreserves` rests on the readiness test (no other pending
source overlaps the target) for `PendingIntact` and on disjoint targets for
`Arrived`; `BreakPreserves` on the saved bytes lying beyond all slots and earlier
temporaries; `BranchPreserves` on there being nothing left to do. `CopyRead` and
`Bytewise` say what a copy of bytes does, `AlignUpBound` that rounding the frame
size up never shrinks it.

`BrokenFrugally` needs `FrugalInv`: each saved copy has a partner, a copy whose target it was
read from and no other pending copy reads, and these pairs hold at least twice the saved bytes. A
local source lies in one target, so a copy is blocked by one other only (`ReadsOne`). Where
every copy is blocked, choosing one that each blocks is an injection of a finite set into
itself, hence a bijection; whoever follows it from any copy is back after at most as many steps as there are
copies (`WalkReturns`), which is the circle (`CyclesReal`). Nobody in it was
saved or paired before (`StuckPairs`), so breaking it adds a fresh pair and the sums grow by
twice the saved bytes or more (`BytesWith`, `BreakFrugal`).

It proves of `SsaFrame`, for any set of functions, any number of blocks and values, any frame and
alignment, from `BodiesAssumption`:

* `FramePlansLegal`: `PlansLegal`, so the theorems on `PhiEdge` cover every edge of every
  compiled function;
* `FrameImplementsSsa`: `ImplementsSsa`, the refinement of `SsaMachine`.

`BodiesAssumption` says that the slots of a function end below its outgoing area, which `layout`
puts behind them, that a value has one or two units, and what LLVM's verifier guarantees: branches go to blocks but never to the first, an
operand dominates its use, a phi has one incoming value per predecessor, and sizes agree.
Dominance is not computed there but defined by closed sets of blocks, with no paths
(`Dominators`). It also says that every block can be reached: two values in code
nothing reaches may be views of one another, and for those `layout` stops with an error.
The argument, in order:

1. *Views end.* A view leads to a value whose block dominates its own, and in the same block to
   an earlier one. The number of dominators of its block, then the order of the source, is therefore
   a rank that falls (`RankFalls`), also for a phi with a single source: that source dominates every
   predecessor, hence the block of the phi, and is not in it (`PhiSource`). So `resolve_view` ends
   and every value has a root in whose slot it lies (`Rooted`).
2. *A slot is written in time.* What is written when `w` is computed overlaps no value that is
   available then, although loops write slots again (`SlotsApart`): a value in the slot of `w` would have
   `w` as its root, hence be dominated by it, and two blocks cannot each dominate the other.
3. *Edges.* The list of an edge names each phi with a slot of its own once, and phis that are
   views need no copy (`MovesListed`, `MovedIsRoot`); so it is legal (`MovesLegal`).
4. *The invariant* (`FrameInv`) says that the slots are those of the layout, and, between the first copy of
   an edge and its branch, that the invariant of `PhiEdge` holds for the list of that edge
   (`OnEdge`). `TreeFinds`: the dispatch tree finds the block of every pc.
5. *The refinement.* The instructions of a block leave in the slots what SSA computes
   (`BlockRan`, `EnvRuns`); the copies of an edge change the phis of the target at once and
   no other value that is available behind it (`EdgeSpares`, `PhiArrives`). `Execute`, `Jump` and `Return` are
   the abstract steps, the others leave the abstract state as it is (`StepRefines`).

`PackageCacheProofs` proves, for any builds and files, any number of packers and
projects, of kills and of damage, from `PackageAssumption` (no build is `None`, the
manifest is a file of the package):

* `TypeCorrect`: `TypeOK`, with what processes past their first steps hold;
* `NamesBacked`: `Backed`;
* `ReturnedWhole`: `InstalledWhole`.

None of them is inductive without what a process relies on between two operations
on files. A packer that is about to write the index has published the archive
that index will name, unless the version had an index already (`ArchiveFirst`: the
write order of `pack` together with links that never replace). An installer past the
download has an archive in the cache (`Fetched`: archives are replaced or damaged, but
never removed). From the comparison on, the package is whole or someone else
touched it (`FoundWhole`). A project whose installation returned has a build in its
lock (`Chosen`). `InstallerStep` covers the actions that leave the package alone,
`PackageStep` those that write it: every other installer of the same digest is then
disturbed, every other digest is untouched.

It proves of `Resolution`, for any packages, versions, registries and directories:

* `RepeatsWithoutNetwork`: `RepeatsOffline`, from no assumption at all;
* `ResolvesExactly`: `SolvesExactly`, from `ResolutionAssumption` (dependencies are of the forms
  `_dependency` accepts, a registry has packages under their own names and versions, as
  `_cached_package` insists, and there are finitely many names, versions and directories).

That a call does not fail depends on a call before it, which is over and of which only the lock
remains. `ResolutionInv` therefore speaks of walks: sequences of stacks, packages seen and
records, each of which leads to the next by entering a package, by finding that it
was seen, or by leaving one (`Goes`). The world alone determines a walk (`OneWay`): the flags of the call decide at most
where it stops. A call that visits has walked to where it is (`OnItsWay`); so
when it returns there is a walk to its end, and the lock holds what that walk ends with. From then on, until the
next edit, the lock is the end of a walk, and a call with the same registry is somewhere on it
(`SameWay`). There it can always go on: whatever the walk visits was fetched, and is kept (`GoesOn`:
a walk stays one when more is fetched), and at its end it finds the lock that it has to find (`OnTheWay`).
`ResolutionInv` quantifies over walks of any length, which no run can enumerate; the run checks
`RepeatsOffline` itself.

`SolvesExactly` compares a call, which goes through the dependencies depth first and in order, with
the graph, which has no order. `SolvesInv` holds both against what can be found (`Net`: the directories, the registry and,
without the network, what was fetched, none of which a call changes for itself). Below a package is the least set
with its dependencies and theirs (`Under`); the rounds of `AllBelow` reach it because each round adds a
package or is the last, and there are at most as many packages as rounds (`FoundsFew`, `RoundsReach`).

* `WalkOK` is what holds of a visit: each package on the stack is below those under it (`Beneath`); of what is no
  longer to be visited everything was met and is recorded, or is the next on the stack (`Passed`); whatever was
  met is recorded or still on the stack, under one name once (`OneEach`, `OnPath`); a recorded package has those
  it needs before it (`Ordered`). Each step keeps it (`PassesAgain`, `PassesFirst`, `LeavesOK`).
* A call that fails on a name on its stack has found a package below itself, since it is below all on
  the stack; one that fails for a missing package, a conflict or the ABI has found that one (`FailsRightly`). So the graph is not sound.
* A call at its end has met all below the project, since what it met is closed, and each record follows the ones it
  needs, so none is below itself (`EndsOK`). So the graph is sound.
* Which lock a call that only checks accepts is the hard half: the lock lists the records in an order, `Describes`
  only asks for the same set. The set determines the list: the walk of a call goes by names only
  (`KnownWalk`), and two walks through the same packages are the same, step by step (`LocksAgree`).

`CompilerProofs` proves of `Pruning`, for any sets of definitions and programs, from
`ProgramAssumption` (calls and addresses name definitions, the float runtime refers
to itself only and has no float operations):

* `NothingMissing`: `RunsWhole`;
* `Idempotent`: `PrunesOnce`;
* `Invariance`: the inductive invariant behind both.

`RunsWhole` speaks of the run, and what makes it true happened two passes before.
A set of definitions is `Complete` if it has the roots, is closed under calls and
addresses, and, if it has an indirect call, contains every address that any
definition read shows, even a definition that is not in it. The invariant says that
a pass stays inside every complete set (`Least`) and has done its part for what it
has visited (`PassInv`); `FinishedComplete` concludes that what it ends with is
complete itself. The second pass begins with the least complete set, and the
addresses retained stand for those whose showing definitions are gone (`PruneInv`),
so it finds the same set again: that is `Idempotent`. The entries of the runtime
were taken from a complete set of the program without it (`EntriesInv`);
`WithRuntimeComplete` shows that a complete set with the runtime contains that one,
so no float operation in it lacks its entry.

`CompilerProofs` proves of `Assembly`, for templates of any length and with branches nested to any depth, any
opcodes, operands and reported values, and any outcome of conditions and counts, from `AssemblyAssumption` (a template
is a list of operations nested up to `MaxNesting`, the parser's 128, and what an earlier execution left
in $0 is told apart from what reporters give):

* `OutputAssigned`: `NoStaleOutput`.

The analysis follows branches, the run keeps a stack of lists. `FlowOf` relates them: each list on the stack was
accepted from what `known` says of it, and where that counts $0 as assigned, it is, or the list above, which runs
before, is sure to assign it; the outermost list, if there is an output, ends with one. Four
lemmas keep it, one for each way the stack changes: the list on top goes on (`FlowGoesOn`), a branch is
entered (`FlowEnters`), a list ends (`FlowReturns`), a template starts. `HeadAccepted` is what the analysis
says of the next operation: it is readable, and the rest of its list is accepted from what is known after it and ends
as the whole does. Behind it are the recursions: `Known` is unfolded by depth (`ListsOfDepth`, `KnownOfDepth`),
the pass along a list by its length (`SequencedRest`). A loop is run from its own beginning again, so its
branch is accepted from what was known before it, and only if-else may conclude that both of its branches assigned.

`RuntimeProofs` proves of `Library`, for arrays and strings of every length and any keys, from
`LibraryAssumption` (keys are integers, no character is 0):

* `LibraryCorrect`: `LibraryMeans`.

One invariant per function. `MoveInv` says which bytes have arrived and that those
still to be read are the original ones, which is where the direction matters.
`SearchInv`: everything before the rest is smaller than the key, everything behind
it larger. `TokInv`: nothing was written from where strtok goes on, and nothing
before it is written again (`TokenKept` with its limit). `QsortInv`: a heap in front
but for one open place (`HeapedBut`), whose children are no larger than its parent
(`Bypassed`), sorted elements behind that are no smaller (`SortedBehind`), and a
permutation (`PermutedSwapped`). That the root of a heap is its largest element
needs induction over places: `RootIsLargest` takes the least place of a larger one,
which exists because the order of the numbers is well founded (`LeastElement` of
`WellOrder`, from the library's facts about well-founded sets), and looks at its parent.

`RuntimeProofs` proves of `Exit`, for any libraries and statics, any capacity of the lists and any
number of registrations and nested calls, from `ExitAssumption` (the null object is
no library, the list holds at least one entry):

* `RunsOnce`: `EachRunsOnce`, of which `ExitTypeOK` is a part;
* `YoungestFirst`: `LatestFirst`;
* `ExitInvariant`: the inductive invariant behind both.

`ListHolds` relates the list to the calls made so far: ids rise along it, an entry
that is active was not called, and every accepted handler that was not called has an
active entry. It survives a call because the entry is marked first (`TakenHolds`;
the handler may do anything afterwards), and the loss of inactive entries at the tail
because they were all called (`CompactedHolds`). `QuickHolds` says the same of the
quick list, `Nested` what a stack of calls is: it rests on main or on the exit that
replaced it, an exit finalizes everything, and a static that is being constructed is
on it once and has a busy guard. The program ends from two loops only, and each
only when its list has nothing left to call (`EndStep`), so everything accepted was
called. That the scan for the last active entry and the one for the next handler find one
is `LeastElement` and `LargestElement` of `WellOrder`.

`RuntimeProofs` proves of `Streams`, for every size of buffer and request, any lines and any
number of calls, from `StreamsAssumption` (numbers, buffer and requests not empty):

* `StreamsInputFaithful`: `InputFaithful`;
* `StreamsOutputShown`: `OutputShown`.

`InputInv` adds that a read that waits has nothing left to read, so that the line that
arrives may be put behind what was read. `OutputInv` adds that closed streams are clean (so
what a closed stream skips loses nothing), that a flush under way belongs to a call of fflush
or to a read that waits, and what `exit` has done so far (`Closing`): while it flushes one
stream after the other only the handlers that its flushes call run, so when stderr's turn comes
stdout is clean, or was dirtied inside the flush that shows everything.

`RuntimeProofs` proves of `Heap`, for every size of heap, header and alignment, every base, and any
sizes, counts, alignments and pointers, from `HeapAssumption` (heap, header and base are
multiples of the alignment, as `alignas` and the `static_assert` make them; the heap holds
one block; addresses do not wrap):

* `HeapWellFormed`: `WellFormed`, all its parts.

The invariant `HeapInv` speaks of blocks, promises and bytes (`Sound`). `Tiles` is the
tiling, `Sealed` that no two free blocks touch; `Owned` ties every allocated block to one
promise and bounds its waste; `Kept` is what a promise says; `HeadersIn` and `ContentsIn`
are what the bytes hold. Tiling is stronger than "the walk over the spans ends at the
end": no header lies within another block, so that a byte belongs to one block
(`OneBlock`), from which everything about memory follows (`PayloadsApart`). The operators
are proved one by one: rounding up stays below the next multiple, so that
`span - rounded` in `split` never wraps (`SplitIs`, which needs every span to be a
multiple of the alignment); `coalesce` in one walk merges every run of free blocks,
because what a kept block grows to ends before the next kept one (`CoalesceIs`, with
`Predecessor`); taking a block keeps `Sealed` although the rest of it becomes free, because
what followed it was allocated (`TakeIs`). realloc needs more than malloc and free: the block is without
`Sealed` between absorbing its neighbour and `coalesce` (`AbsorbIs`, `ResizedIs`), and the copy to
the new block is made before the old one is freed and may touch neither headers nor
another's contents (`CopyIs`). `FailsFull` takes a free run that is long enough, finds the block it begins
in (`LargestElement`), shows that the run cannot leave it (`FreeRun`), and that a payload
further to the front is placed no later (`RoundToRises`).

`EventsProofs` proves, for any hats and items, any capacities, any number of slots, range
of tokens and bound on the length of a behaviour, from `BoundsAssumption` (numbers,
and at least as many tokens as slots):

* `EventsDeliveredOnce`: `DeliveredOnce`;
* `EventsCalledRightly`: `CalledRightly`, an action property.

`EventsInv` follows an event on its way: what was accepted is what was delivered, then the
rest of the batch, then the two lists, in this order and without repetition (`Flows`). A
token is held by one registration at a time (`Holders`); poll noted at its start exactly
what was registered then (`Noted`); the registrations still to be served for an event are
those behind the place where the loop stands (`Served`). `CalledRightly` follows: the
callback of a step was registered when poll began, because its token is the noted one, and
a registration that was skipped had another token by then, so it had been removed.

`EventsProofs` proves of `Blocks`, for any projects, with scripts of any length and expressions and
branches nested to any depth, from `ProjectAssumption` (parts of expressions are expressions; `CONDITION`
belongs to the four blocks that have it, the logical operators have no socket but their operands, no
branch stands in a Boolean socket, nothing is called `next`; argument ids are distinct, which
`register_procedure` guarantees):

* `TableReadsBack`: `ReadsBack`.

`ReadsBack` speaks of the finished table, and each step of the recursion changes only one place of it. `TableInv`
therefore carries a map `o` from blocks to scripts, what begins at each block, and says of the table that
it is right but for the places in `left`, which are still to be filled, and the blocks in `free`, which have no
place yet (`TableOK`: links lead to where the script goes on, inputs hold what
`Filled` says, every place names a block that names it as its parent). Which places and blocks these are, the
activations know: a block whose inputs are being made leaves open its sockets and its successor
(`OpenOf`), a script that is being made has not handed over its first block (`Unlinked`), and the blocks
of an activation are older than those of the activations above it (`Later`), so no two have the same block
(`Apart`). There is one lemma for each way the table grows
(`BlockAdded`, `HatAdded`, `DefinitionAdded`) and each way a place is settled (`NextPut`,
`SocketPut`, `PlaceDropped`), and one for each return (`StatementDone`, `InputDone`,
`ScriptDone`). `TableValidated` is why nothing is refused; `TreesProper` is why comparing a value with zero
in Boolean sockets is what the VM wants, where the source asks for a socket's name and operator and the VM for the
socket's meaning.

`CallStackProofs` proves, for any functions, values and size of memory, from
`StackAssumption` (addresses of functions rise and are not 0, main is not called with
byval, a byval function is not variadic, main's frame fits into memory):

* `DispatchFinds`: the tree of comparisons finds the function at each address;
* `StackNests`: `StackDisciplined`;
* `CallsMeanActivations`: `ImplementsCalls`, the refinement of `Activations`;
* `CallInvariant`: the inductive invariant behind them.

`CallInv` says of each call that it fits on those below it (`Fits`): its ceiling is the
floor of its caller's part of the stack, its result and argument point to slots of the
caller, so that every part of memory has one owner; that a caller that waits has noted where its part
begins (`Settled`), which is what `frame_leave` comes back to after any chain of tail
calls; that variadic arguments still hold what was passed, and that the argument of a byval
function is the callee's copy. A frame is carved below all others (`EnterKeeps`,
`Packed`), so a write below the floor of a call changes nothing that the call's activation
means (`SameView`). From there each action is a step of `Activations` or, where it only
prepares or copies, a stutter.

`DebugProofs` proves of `Terminal`, for any number of commands and of requests that are
answered too late:

* `TerminalPromptTruthful`: `PromptTruthful`.

`TerminalInv` lists what may be under way unless a resumption was mistaken for a failed one
(`Phases`): both stand still; the terminal says already that the program runs, for a
resumption is on its way to LLDB (`ResumptionSent`) or has failed there, which will be told
(`ResumptionFailed`); the program runs or has halted, and the last message about it says which
(`Runs`); both ended. A stop that comes before the failure of a resumption is told apart from it by its
serial number, and late answers bear the numbers of other requests.

It proves of `Launch`, for any sources and any number of requests and of late answers:

* `LaunchStartsAsConfigured`: `StartsAsConfigured`.

`LaunchInv` follows the loops over the breakpoints: a source before the place where the loop stands
has been sent as it is wanted, or is sent by `setBreakpoints` itself once `ready`; one
behind it is still to come, also when it is added while the loop waits. So when `start` is sent all of them are
on their way, in the order of the requests (`LaunchPhases`), and since `started` is set before the first wait
only one of `launch` and `configurationDone` sends it.

It proves of `DebugSession` with `Engine`, for any instructions, any number of packets and of
timeouts, packets that come together or one by one, and a stop button pressed at any moment, from
`EntryAssumption` (the entry is an instruction, 0 is none) and `SessionAssumption` (the types of
the bounds):

* `SessionInAgreement`: `InAgreement`;
* `SessionStepsExpected`: `StepsExpected`.

What the engine promises by itself needs `EngineInv`: while it runs, `skip` is either the
instruction it was resumed at and nothing was executed, or 0; hence no other breakpoint is run
over. What LLDB, the server and the engine agree on needs `SessionAgrees`:

* `EndTold`: the end of the program was told, or is on its way, exactly when the program ended.
* `Token`: LLDB has one packet outstanding at most, and the invariant says where it is: with
  LLDB (`AtLldb`), on the wire, in the server's queue, waiting for the engine's answer
  (`Querying`), the run it began (`Running`), or its reply is on the way (`IsReplied`). Hence LLDB
  waits for each reply it gets.
* `StaleAlone`: a resumption that nobody awaits any more, because it timed out, is the only one,
  comes before the request that is awaited, and the engine stands still until it takes it.
* `StopsLast`, `InStep`: the order of answers, stops and the end on the way from the
  engine. A stop that is told follows the answer to its resumption and leaves the engine still; with one
  timeout it may be taken for the stop of the next resumption, and then no second one comes.
* `Placed`, `BreakpointsAgree`: stops, states and requests on the way carry the engine's place and
  the breakpoints that LLDB set.

Without timeouts all of it holds; with one the first four; with two LLDB may get a reply
nobody waits for (section 5), so `SessionAgrees` says no more than `EndTold` then. The queue lemmas (`EngineTells`,
`ServerReads`, `ServerAsks`, `EngineTakes`, `GivenUp`) say what appending to and taking from a
queue does to these orders; `FeedMoves` that the packets of a chunk go on to the queue in
order, with the interrupt taken out.

`ConsoleProofs` proves, for every size of screen and history, any letters, printed characters and
prompts, any limit of the input and any number of calls and keys, from `ConfigAssumption` (what
`init` clamps: two columns, one row, a history not smaller than the screen; typed letters are
narrow; control characters, the empty cell and the right half are no letters):

* `ConsoleLineWhole`: `LineWhole`;
* `ConsoleFlushShows`: `FlushShows`, an action property;
* `ConsoleBatchIsolated`: `BatchIsolated`, an action property;
* `ConsoleKept`: the inductive invariant behind them.

`ConsoleInv` has three parts. `TextOK` is the ring: the window is not longer than the history, the
viewport is between its first row and the last position, and every row holds wide characters whole. Only rows of
the window are spoken of, because `clear` leaves the others as they were. `LineInv` says where the edited
line stands (`Stands`): its letters are in the cells from its beginning on, the program writes behind
the last one, and the limit keeps the whole line in the ring (`CapacityFacts`), so that `next_line`, which drops the
oldest row, never drops the line's first. It also says that nothing is to the right of the line in a row of its own:
otherwise a deletion that takes that row back would leave something behind the end. After Enter no
handler can open a line while its poll lasts, hence `BatchIsolated`.

`PaintInv` relates three things: the text, the cells the package takes to be drawn (`painted`) and the
ink on the layer. The ink is what the painted cells and the drawn cursor make it (`PaintOK`), and every cell
that looks different from the text is listed, itself or with the left half of its character (`Covered`), or a
complete repaint is due, or a deletion moved the view (`Current`). Each operation on the text *tells* the painter
what it changed (`Tells`, one lemma for each operation: `RowChangedTells`, `NextLineFacts`, `PutFacts`, `DeleteFacts`), and what
was told before stays told (`TellsCurrent`). An update erases and draws a region: `Region` goes on as long as a
right half, drawn or to be drawn, follows, so it cuts no character in two, in neither row
(`RegionFacts`), and the row that is drawn afterwards is whole again, with the ink of its own
characters only (`MergedFacts`, `UpdateFacts`). An update makes no other cell worse, so after the last one
that is due all are right (`UpdatedFacts`, by induction over the cells; `AllUpdated`).

Model-checked only: liveness everywhere (fairness and ENABLED are outside the
prover), and what `Instruction` and the conversions of `Assembly` compute (`ComputesMeaning`, `MovesWhole`,
`BridgesMean`). The
induction theorems of the library take an operator as a parameter, which the prover cannot
instantiate. Where a proof needs induction it takes a least counterexample instead
(`LeastElement`), once for each shape of recursion: down a rank (`RankedSolved`), up the first
numbers (`CountedSolved`, `CountedInduction`). That works for functions over numbers, with depth or length as the number; `Numeric`,
`Constants` and `SoftFloat` compute by recursive operators over digits, which stay with TLC.

## 5. Findings

* `debugger/rsp.cjs:68`: the interrupt byte is acted on at once, a packet
  before it in the same chunk only when its turn in the queue comes. With a
  resumption and an interrupt in one chunk the pause overtakes the resumption,
  finds the engine paused, and is lost: the program runs on
  (`debug_interrupt_lost`).
* `include/console/console.cpp:209`: a deletion that takes back a line after
  scrolling lowers the view without asking for a repaint, so the other lines stay
  a row too high until something else repaints (`console_delete`). `FlushShows`
  in the run `console` states the rest: in all other cases the screen is right.

* `include/console/console.cpp:370`: handlers run inside `flush`. When one of them
  calls `exit`, the flush in `exit` returns at once because a flush is under way, and
  the project stops before that one paints: the last text is never shown
  (`exit_unflushed`). `OutputShown` states the rest: whenever no flush is under
  way, and at every other end of the program, what was flushed is on the screen.

Limits of the code that the properties state around, and why:

* After `next_token` has wrapped, a new registration can get the token a running
  poll noted for its slot, and is called in that poll (`events.cpp:20,110`).
  `CalledRightly` speaks of the time before the wrap.
* A full collector drops events. That is documented; `DeliveredOnce` speaks of
  accepted ones.
* The terminal, too, takes a resumption to have failed when its answer is late,
  and a stop of the program that runs nevertheless may be taken for the next
  command's (`cli.cjs:256`). `PromptTruthful` leaves this case out.
* A request that timed out may have resumed the engine: LLDB then believes a
  running program stopped. `InAgreement` speaks of sessions without a timeout;
  `StepsExpected` and `EveryoneHears` hold with one. A second one can break `RepliesExpected`:
  LLDB takes the late stop of the first resumption for that of the second, whose own timer then
  reports a failure that nobody waits for (`rsp.cjs:82`).
* Two processes that install the same package at the same time can remove it
  under each other's feet; one of them fails, or is handed a directory that the
  other is replacing. `InstalledWhole` excepts an installation that another
  process disturbed; `Backed` holds regardless.
* Two first installations around an exchange of the registry's files can lock
  different builds, since both read the receipt before either wrote it.

## 6. Not modelled

* The frontend beyond `reachable_values`, the parser of inline assembly, archive writing, number
  conversion, pen packages, symbols, player, editor extension: conversions
  without shared state, or third-party code. Decimal conversion of floats is
  exact arithmetic on long digit arrays, out of TLC's reach.
* Float division and square root, which use tables of reciprocals made for
  single precision; conversions between formats; double precision, whose
  algorithms differ in the splitting of words; exception flags, which no
  instruction reads.
* Overflow intrinsics, counts of trailing zero elements and getelementptr of vectors;
  the validation of kinds of symbols in pruning.
* `tools/` other than `scrate.py`: sequences of tool calls.
* Within modelled parts: the instructions of a function are one operation on
  values (`SsaFrame`); the register save area and va_copy (`CallStack`); UTF-8
  decoding, tabs and pen geometry (`Console`); source-line steps, evaluation and
  disposal (`Engine`); the socket handshake and memory reads (`DebugSession`);
  disconnection (`Launch`); frames, variables and queries (`Terminal`); validation
  of archives and manifests (`PackageCache`, `Resolution`);
  a tree compared file by file is compared at once there.

The map covers a tenth of the repository's lines of code. Of about 50 000 that count, some
37 000 are the vendored Berkeley SoftFloat, 400 files of which a program links
a few: its single-precision algorithms are modelled once, with the sizes of the
format as parameters, and the variants for other widths are not linked or repeat them.

## 7. Plan

Done: the modules above, in the order lowering, heap, calls, arithmetic,
events, exit, debugger, console, packages; then byte memory, constants, floats,
pruning, the adapter and the terminal; then package resolution, inline assembly and
the table of blocks; then the standard streams and the library functions that work in place.

Next, extending the models:

1. `Console`: the UTF-8 decoder and tabs. `CallStack`: va_copy and the register
   save area.
2. Operator new with its handler.
3. The composition of `Terminal` with `Launch` over one adapter, and of `Streams` with
   `Console`.

Then, more proofs:

1. The conversions of `Assembly`, and `Instruction`: what they compute, once their digits and packed bits are
   functions over numbers, like `Console` and `Resolution`.
