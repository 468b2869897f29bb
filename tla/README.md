# Verification of the LLVM tutor tools

The repository ports the passes of llvm-tutor to standalone programs
(`src/llvm-tutor/`) and adds a few of its own (`src/work/`), among them a compiler
wrapper that instruments what it compiles. This directory holds TLA+ models of the
parts in which something can go wrong that a test would hardly reach, their TLC
configurations, and proofs for TLAPS.

Contents: [the system](#1-the-system), [the modules](#2-the-modules),
[the runs](#3-the-runs), [bounds](#4-bounds), [fairness](#5-fairness),
[proofs](#6-proofs), [disagreements](#7-disagreements-between-the-code-and-what-it-says),
[not modelled](#8-not-modelled), [plan](#9-plan).

## 1. The system

Every tool is a process of its own. The tools meet in two places only:

* **IR files.** A tool reads the file it is given, transforms the module, lets
  `verifyModule` judge it and prints it over the same file. A tool can therefore be
  run on another tool's output, or on its own.
* **Code they share.** Each has a copy of the same `main`; `duplicate_bb` has a copy of
  `riv`'s `BuildRiv`, so what `BuildRiv` returns decides what `duplicate_bb` does.

Two tools produce programs with a run time of their own: the call counters of
`dynamic_call_counter` and the coverage counters of `my_clang_wrapper` are updated by
all threads of the instrumented program.

| component | state | operations | what is hard | what makes it correct |
|---|---|---|---|---|
| `merge_bb` | the function: branch targets, PHI entries; `delete_list`; two totals | `RunOnFunction`, `MergeDuplicatedBlock`, `CanMergeInstructions`, `CanRemoveInst`, `UpdateBranchTargets`, `DeleteDeadBlock`, `verifyModule` | blocks already merged stay in the function, in the use lists and among the predecessors, until the walk is over; a retained block may be merged later; PHIs of retained blocks are not updated | the output has the executions of the input; nothing live refers to what is erased; what the tool cannot do right it refuses |
| `riv` | the dominator tree, a deque of nodes, `result_map` | `BuildRiv` | order of the deque against the order of the tree's children | a block's RIVs are defined on every path to it |
| `duplicate_bb` | context values chosen for all blocks up front; `then_map`, `else_map`, `re_mapper` (LLVM `ValueMap`s); the function being rewritten | `FindBBsToDuplicate`, `CloneBB` | values chosen or mapped are erased later; the loop rewrites the list it walks over | every operand exists and dominates its use; either branch does what the block did, once |
| `dynamic_call_counter` | globals `counter_for_*`, `printf_wrapper`, `llvm.global_dtors` | `RunOnModule`; in the program: load, add, store, print | threads interleave inside an increment and during exit; i32 wraps; the tool meets its own output | counts are those of the calls, and all are printed |
| `my_clang_wrapper`, driver | the argument vector, marks, the file system | `GenerateIr`, `Instrument`, `Execute` (link, `rm`) | clang fails, the process is killed, a file is named twice, x.ll exists already | nobody's files are lost; what is linked is fresh and instrumented; what was made is removed |
| `my_clang_wrapper`, coverage | a 64K area of 8-bit counters, `__mcw_prev_loc` of each thread, the state of `rand` | `RunOnModule`, `runtime_lib.c`; in the program: load, add, store | unsynchronised 8-bit counters that wrap; several modules, instrumented by one process or several, linked together | an edge taken is recorded, and no other |
| tool driver (`main`) | the file | parse, run, verify, truncate, print | crash between truncating and printing; `ec` never read | a file that holds a module computes what it did |
| `mba_add`, `mba_sub` | a block's list of instructions | replace a binary operation by an identity | wrap-around at each width; the list grows while it is walked, and holds additions again; a tool meets its own output | same values, each replaced once, the verifier agrees |
| `convert_fcmp_eq`, `find_fcmp_eq` | a list of comparisons | replace `a == b` by a comparison with an epsilon | NaN, infinity, types | a comparison's outcome changes only near equality, `float` functions are refused whole |
| `inject_func_call` | globals of the module | insert a `printf` | a module that defines `printf` | one call for each function entered |
| `static_call_counter`, `opcode_counter`, `hello_world` | a map of counts | read-only walk | nothing | counts are right |
| `work1`, `work2`, `work3`, `parsetest` | a block's list of instructions | rewrite or clamp additions | `work2` splits blocks while it holds a list of instructions to come; each tool meets what the others made | the program computes what the tools promise, in the order they were run |

The hazards, each at its line and with the properties that catch it, are under
`hazards` in `PROJECT.json`.

## 2. The modules

A module `X` is the component; `XMC` gives its constants values for TLC; `XProofs` has
the theorems.

### Dominators
The dominator tree LLVM hands to `riv` and `duplicate_bb`, defined as it must be and
not as LLVM computes it: `Reached` and `ReachedAvoiding` are least sets closed under
successor, `Dominates(g, a, b)` says that every path to `b` goes through `a`,
`Children(g, a)` are the blocks whose immediate dominator is `a`. No recursion, so
that `RivProofs` can reason about it.

### MergeBB (`src/llvm-tutor/merge_bb/merge_bb.cc`)
One function. `fn` is the function read and never changes; `targets`, `incoming` and
`alive` are what the pass changes of it; `next` is the place of the walk of
`RunOnFunction`, `delete_list` and the two totals are its locals; `build` says whether
`assert` is compiled in. `kept` is a history variable: which block now stands for each
block of the input. A block's instructions are compared by `op`, which abstracts what
`isSameOperationAs` compares; debug intrinsics, which the pass skips, are left out.

| action | code |
|---|---|
| `MergeBlock` | `MergeDuplicatedBlock` finds a candidate for the block the walk is at: all guards, `UpdateBranchTargets`, the totals, `delete_list` |
| `AssertionFails` | the same, in a build with assertions, when no operand was changed (line 192) |
| `KeepBlock` | it finds none |
| `ReadMissingEntry` | `getIncomingValueForBlock` for a block the PHI has no entry for: undefined behaviour, a final state |
| `DeleteBlock` | `DeleteDeadBlock` on a member of `delete_list`, with `removePredecessor` on its successor |
| `Verify` | `verifyModule`, as far as it can fail after this pass |

The candidates come in the order of a use list; the model takes any candidate.

### Riv (`src/llvm-tutor/riv/riv.cc`)
`BuildRiv`: `basic_blocks_to_process` is the deque, `result_map` the result,
`dominator_tree` the children `RunOnFunction` computed. One action, `ProcessNode`,
for one turn of the loop; the order of a node's children is any order. `processed` is
history.

### DuplicateBB (`src/llvm-tutor/duplicate_bb/duplicate_bb.cc`)
A block is cut into pieces `head`, `then`, `else`, `tail`; `code` has the values each
holds, `opnds` the operands of each. Values are tagged: `<<"inst", i>>` is read,
`<<"then", i>>`, `<<"else", i>>` are its clones, `<<"phi", i>>` what replaces it,
`<<"cond", b>>` the test that is inserted. The maps are those of the code, and
`Follow` is what a `ValueMap` does when its key is replaced.

| action | code |
|---|---|
| `SkipBlock`, `ChooseContext`, `ReturnTargets` | one turn of the loop of `FindBBsToDuplicate`, lines 113-160, any outcome of the generator, and its return |
| `SplitBlock` | the condition and `SplitBlockAndInsertIfThenElse` |
| `CloneInst`, `CloneVoidInst` | one turn of `CloneBB`'s loop, for an instruction with a value, and without |
| `EndOfTail`, `EraseInst`, `EndOfPurge` | the loop meets the terminator; the instructions of `to_remove` are erased one by one |
| `Finish` | no block is left to duplicate |

`iter` is the place of the loop that runs: over the blocks, or over the tail. A function
read is `WellFormed`: its operands dominate their uses (`UsesDominated`), as the verifier
of LLVM requires of any module.

`Rivs` is `BuildRiv`'s result as `Riv!OnlyIdomValues` states it (and proves it), plus
the values of invokes, which `BuildRiv` counts among those of their block.

### CallCounter (`src/llvm-tutor/dynamic_call_counter/dynamic_call_counter.cc`)
Two halves. While `phase` is `"build"`, `RunOnModule` may be run up to `MaxPasses`
times, since the tool rewrites its input: `incs` counts the increments at the head of
each function, `reports` what the reachable block of `printf_wrapper` prints, `dtors`
the entries of `llvm.global_dtors`. Then the program runs: `Call`, `LoadCounter`,
`StoreCounter` per thread (the load, and the add and store, of lines 72-75), `Exit`
when `main` returns, and `PrintCount`, `EndDtor` for the destructors. The other
threads go on until the process is over. `calls` and `raced` are history.

### McwWrapper (`src/work/work4/my_clang_wrapper.cc`)
`main` with `GenerateIr`, `Instrument` and `Execute`, on a file system `fs` that also
holds files of the user (`before`). A file's content is who wrote it and how often it
was instrumented, or `Empty`. `new_argv`, `to_remove` and `i` are main's locals, `pc`
the loop it is in. `OpenOutput` and `PrintModule` are two actions because opening the
output truncates the file. `GenerateIrFails` covers a clang that fails, `SkipInstrument`
a module that does not parse or verify (and every other argument), `Kill` the process
being killed at any point.

### Mba (`src/llvm-tutor/mba_add/mba_add.cc`, `mba_sub/mba_sub.cc`)
Integer instructions and what the two tools put in their place. An instruction has a
name, an op, the size of its type (2 to the bit width) and two operands, each a name or
a constant. `Result` is the value an instruction computes, wrapping at its size;
`AddReplacement` and `SubReplacement` are the instructions the tools build, in order.
The bitwise operations are constants of the module, of which `BitsAssumption` says what
is used: they stay in the type, `b xor -1` is the complement, and at eight bits
`(a xor b) + 2 * (a and b) = a + b`.

### PassDriver (`main` of the tools, as in `mba_add.cc` and `mba_sub.cc`)
One file that holds a function of one block, and tools run on it one after the other,
each `mba_add` or `mba_sub`. `block`, `inst` and `last` are the module in memory, the
iterator and the last name in use; `fn` and `read` are history.

| action | code |
|---|---|
| `Parse`, `ParseFails` | `parseIRFile`; an empty file is an empty module, a part of one is an error |
| `SkipInst`, `ReplaceInst` | one turn of `RunOnBasicBlock`'s loop; `ReplaceInstWithInst` moves the iterator to the new instruction |
| `Verify` | `verifyModule`; if it refuses the module, the file is left alone |
| `OpenOutput`, `OpenFails`, `PrintModule` | `raw_fd_ostream`, which truncates the file, its error that nobody reads, and `print` |
| `Kill` | the process is killed at any point |

### FloatPasses, with Floats and SourceProgram (`src/work/work1` to `work3`, `src/parsetest.cc`, `convert_fcmp_eq`, `find_fcmp_eq`)
The tools that put other instructions in the place of one. `FloatPasses` has a file that
holds a function of several blocks, the module in a tool's memory, and the list `todo` of
instructions the tool has collected; in the end the program in the file is run.

| action | code |
|---|---|
| `Parse` | `main` up to the end of the loop that collects instructions: `FindInstsToConvert` of work2, `FindFAddsToConvert`, `find_fcmp_eq::RunOnFunction`; work1 and parsetest look for `main` |
| `NoMain` | `getFunction("main")` is null, and is dereferenced: the process dies, the file stays |
| `Replace` | one instruction: `SubFAdd` (work1), `ClampFAdd` (work2), `HookFAdd` (work3), `ConvertFCmpEqInstruction`, `NegateConstant` (parsetest) |
| `AssertionFails` | with an LLVM that was built with assertions: work3 aborts at its first `fadd`, convert_fcmp_eq at its first comparison of floats ([section 7](#7-disagreements-between-the-code-and-what-it-says)); the file stays |
| `Verify` | `verifyModule`, and the module printed over the file if it is accepted |
| `Start`, `Execute`, `Branch`, `Return` | the program |

`SplitBlockAndInsertIfThenElse` does what LLVM's does, the PHIs of the successors included
(`UpdatePhis`). `WellFormed` is what the parser lets through, `Valid` is `verifyModule` as
far as these tools can offend it: names, entries of PHIs, dominance of operands, doubles
where a double is needed. `WellTyped` has the types of names and operands. All three are
assumed of the functions a user writes (`FunctionsAssumption`), which a compiler made, and
that the entry, which nothing branches to, has no PHI.

`Floats` has the values. A number is a multiple of a unit well below epsilon, an infinity,
or NaN, and `FloatSum` is exact until it overflows: rounding is left out, the special values and
the order are not. A comparison is one of four relations, a predicate a set of them. The
integer type has `Word` values, a multiple of the `CInt` values of an `int`.

`SourceProgram` is the abstract specification: the function *the user wrote*, never
rewritten, in which an addition, a comparison for equality and a constant mean something
else after tools have run (`Added`, `Compared`, `Offset`), in one step each. It says
nothing of equal infinities compared after convert_fcmp_eq, or of constants too wide for
the `int v` of parsetest. `FloatPasses!Implements` is the refinement: the
names, blocks and branches that tools put in are hidden, `at` and `from` are history that
says where in the user's function the program is.

### Coverage (`RunOnModule` of `src/work/work4/my_clang_wrapper.cc`, `runtime_lib.c`)
While `phase` is `"build"` modules are instrumented: `RunOnModule` draws a number from `rand`
for each block, `NewProcess` is another run of the wrapper, in which the unseeded `rand`
begins again, `Start` links. Then each thread goes from any block to any other:
`LoadCounter` is the code up to the load of the cell, `StoreCounter` the add and the two
stores. `area` is shared, `prev_loc` is not. `taken`, `hits` and `last` are history, kept by
blocks and not by `prev_loc`, so that they say what the map should hold; `by` tells which
process drew a block's number, `raced` is as in CallCounter.

## 3. The runs

| run | module, cfg | what it shows |
|---|---|---|
| `merge_bb` | MergeBBMC, MergeBB.cfg | `DeadBlocksUntargeted`: no terminator targets a block to be erased. `PathsPreserved`: after any chain of merges the block that stands for a block does the same and goes, operand by operand, where it went. `PhiValuesPreserved`: a PHI entry has the value it had on each edge folded into it. `ErasedInstsUnused`: what is erased has no user left. `BadOutcomeNeedsPhi`: the tool refuses the module, or meets a PHI entry that is not there, only after merging blocks that start with a PHI |
| `riv` | RivMC, Riv.cfg | `RivsAvailable`: a RIV is an argument or defined in a strict dominator. `OnlyIdomValues`: the result is a function of the graph, whatever the order of the children. `AllBlocksMet`: at the end, every reachable block has its set. `EventuallyEmpty`: the loop ends |
| `duplicate_bb` | DuplicateBBMC, DuplicateBB.cfg | `OperandsAvailable`: after each instruction that is moved, all operands everywhere exist and are defined where they are used. `SameComputation`: copies compute what the original did, a condition tests the value chosen for it. `EffectsOnce`: each branch has each instruction once and in order, the tail only PHIs |
| `call_counter` | CallCounterMC, CallCounter.cfg | `ExactUnlessRaced`: a counter is calls times runs of the tool, at its width, unless two threads met in an increment. `NeverOvercounts`, `CalledNotZero`: what racing threads cannot do to it. `OneThreadPrintsExactly`: without threads the printed counts are exact. `EveryFunctionReported`: all are printed, even while other threads go on |
| `mcw_wrapper` | McwWrapperMC, McwWrapper.cfg | `SourcesKept`: no C file is touched. `UserIrSurvives`: IR of the user that no named source compiles to survives and is what is linked. `LinksFreshIr`: at a compiled source's place the link gets IR made from it in this run. `InstrumentedAsNamed`: at most as often instrumented as named. `GeneratedIrRemoved`: generated IR goes away unless the process is killed |
| `pass_driver` | PassDriverMC, PassDriver.cfg | `FileKeepsMeaning`: after any runs of the tools, killed or not, a file that still holds a module computes every value it computed at first. `VerifierAccepts`: at the end of each loop the module is one `verifyModule` accepts. `EachReplacedOnce`: the loop replaces every instruction it should, and none that it put there itself. |
| `float_passes` | FloatPassesMC, FloatPasses.cfg | `Implements`: after any three runs of the tools the program computes, value by value and branch by branch, what SourceProgram says. `OnlyFloatRefused`: the verifier accepts all they make, but converted comparisons and calls of Hook on `float`. `RerunsChangeNothing`: work1, work3, convert_fcmp_eq and find_fcmp_eq leave a file alone that they have been run on, whatever ran in between. `TypeOK` has that what a tool has collected is still there, once, and still to be replaced |
| `coverage` | CoverageMC, Coverage.cfg | `CellsExactUnlessRaced`: a cell is the number of passages over its edges, modulo its width, unless two threads met at it. `OnlyTakenEdges`: a cell that is not zero is one of an edge some thread took. `TakenNotZero`: an edge taken shows, whatever races lose, until the cell can have wrapped. `DirectionsApart`: edges between two blocks of one run of the wrapper have a direction unless two draws gave these two the same number |
| `merge_bb_assert`, `merge_bb_simple_preds`, `merge_bb_phi_use`, `duplicate_bb_invoke` | | each is one disagreement of [section 7](#7-disagreements-between-the-code-and-what-it-says): TLC finds the violation |

Each run also checks its module's `TypeOK`. In CallCounter, McwWrapper and Coverage it includes
what ties the control variables together, in DuplicateBB what the maps may hold.

Beside a definition the modules keep variants of it, named after it, with a fault
seeded (`UpdateBranchTargets_bug`, `Call_bug`, `RemoveIr_all`, ...). No specification
uses them. With such a variant in place of the definition, some property of the run
is violated, which shows that the property can fail; `mutants` in `PROJECT.json` says
which.

Deadlock is checked in every run: a module's `Terminating` step is enabled only where
the program has ended.

To repeat a run: `tlc -config MergeBB.cfg MergeBBMC.tla`; to check proofs:
`tlapm MergeBBProofs.tla`.

## 4. Bounds

* **MergeBB**: six blocks (entry, four that may be duplicates, the common successor)
  with at most two instructions each, in three families. *Control*: three blocks with
  any targets among themselves and the successor, entered by a switch or an invoke,
  one perhaps unreachable: merges that chain, loops, duplicates nothing branches to.
  *Data*: duplicates that differ in their instructions, in the values they give one
  or two PHIs, or start with a PHI; a switch that reaches one block twice. *Chains*:
  two layers of duplicates in three layouts, so that a block becomes a duplicate only
  once others were merged. A merge reads two blocks, their successor and their uses; a
  third block gives chains and a fourth gives layers, and what a longer chain does is
  covered by the proof.
* **Riv**: every graph on an entry and three blocks with up to two successors each,
  and every order of the children. Trees, diamonds, loops with two entries and
  unreachable blocks are among them.
* **DuplicateBB**: a diamond (values used across blocks, stores, a value that is no
  integer), a loop with PHIs, an exit and an unreachable block, and an invoke
  with a landing pad; every choice of context values. Blocks interact only through
  context values and operands, and each kind of use occurs.
* **CallCounter**: two functions, two threads, three calls for each thread, two runs
  of the tool, counters of two bits (`Modulus = 4`; the code has 2^32) so that twelve
  increments wrap, also during a race. Two threads suffice to lose an increment.
* **McwWrapper**: every command line of one to three arguments out of two sources,
  their IR and an option, every set of files of the user, every outcome of clang. A
  conflict is between two arguments; the third may stand between them.
* **PassDriver**: blocks of two instructions on bytes and on numbers of four bits; the
  second uses the result of the first, once or twice (`x - x`), or is independent of it,
  and some are replaced by neither tool; two runs of any two tools (`MaxRuns`). That
  gives each tool its own output and the other's. Calls are with six sample values,
  among them the least, the greatest and the sign bit; for all values there is the
  proof. `BitsAssumption` is evaluated for every pair of bytes.

* **FloatPasses**: 13 functions: straight-line code of two additions and a comparison, with
  each predicate, of `double`, `float`, marked `optnone` and outside `main`; a loop on one
  block, which is its own successor and predecessor; a diamond with additions in both
  branches and behind them; integer constants that fit an `int`, do not, and are the least
  one (an `int` of 3 bits, a type of 4). Three runs (`MaxRuns`) let each pair of tools meet in
  both orders with a third between or after. Arguments are NaN, infinity, 0, 1 and -4, with
  epsilon 2, the limit 5 and overflow past 8, so that sums are near and far, clamped, wrapped
  by `fmod`, infinite of both signs and NaN.
* **Coverage**: two modules of two blocks and of one, two threads that enter three blocks
  each, any edge between blocks, a map of 8 cells and counters of two bits (`Modulus`), so
  that six passages wrap; one sequence of `rand` gives different locations, the other gives
  one twice. Two threads make a race, and the third block makes an edge neither is on.

## 5. Fairness

* Riv: `WF_vars(ProcessNode)`. A sequential program that has not returned goes on.
* McwWrapper: `WF_vars(Step)`: main goes on. `Kill` is not fair, it may or may not
  happen. That clang returns is assumed.
* CallCounter: weak fairness of `Exit`, `EndDtor` and `PrintCount` (the thread that
  runs `main` and the destructors goes on) and of each thread's load and store. Nothing
  is assumed of `Call`: other threads may call for ever or never.
* MergeBB, DuplicateBB, PassDriver, FloatPasses and Coverage have no liveness property: their loops run over a fixed
  layout and over lists in which the place moves on (`EachReplacedOnce` says that
  PassDriver's does not meet what it put there), and the programs of the last two may
  loop for ever.

## 6. Proofs

All constants are arbitrary; what is assumed of them is named in the module that
declares them, and TLC evaluates it in the runs.

**MergeBBProofs**, for all blocks, instructions and functions that satisfy `WellFormed`
(what the parser and the verifier of LLVM guarantee of a function): `TypeCorrect`,
`NoEdgeIntoDeadBlock`, `ExecutionsPreserved`, `MergesKeepPhiValues`, `NoDanglingUse` and
`OnlyPhisGoWrong`. The invariant is `IInv == Typed /\ Safe`. None of the properties is
inductive alone. That a chain of merges keeps the paths needs that a block that stands for
others was not itself merged (`KeptLive`), which holds because a merge rewrites `kept`
for all blocks that bb1 stood for; that an edge ends in the right place
needs that the two blocks had the same successor *now*, after earlier merges, hence
`PathsPreserved` and `DeadBlocksUntargeted` together. `NoDanglingUse` goes through the
lockstep comparison: a value with a user in its own block would need its twin, a
different value, to be the operand of the twin's user. For `OnlyPhisGoWrong`, `EInv` adds
that as long as no block with a PHI was merged the entries of each PHI are its incoming
edges, one for one, so that the verifier has nothing to refuse.

**RivProofs**, for every finite graph: `TypeCorrect`, `RivsAreIdomValues`,
`RivsSound`, `WalkIsComplete`. The invariant adds to the result that `result_map` has a set
exactly for those blocks whose parent was processed (`MetFromParent`); it needs that a block
has one immediate dominator, which is proved from the definition of dominance
as least closed sets. For completeness, `Walk` says that what was met is on the deque or was
processed. Were a reachable block never met, take one with a least set of dominators: its
immediate dominator has fewer, so it was met and, the deque being empty, processed.

**DuplicateBBProofs**, for every function that satisfies `WellFormed`: `TypeCorrect`,
`DuplicatedOnce`, `ComputedAsBefore`, `OperandsStayAvailable`. The invariant `IInv` has one
part for each thing the code keeps: blocks were chosen once, each with a RIV of its own
(`Control`); `re_mapper` has an entry for exactly the values moved so far (`Remembered`);
what each piece holds, as a function of the block read and of how far the loop is (`Heads`,
`Branches`, `Tails`); `to_remove` is the instructions without a value passed (`ToErase`);
the keys of a map of clones are the instructions of the tail already passed (`Clones`); and
every operand is the one read, renamed or cloned (`Operands`). A context chosen for a block
may have been replaced by a PHI before the block's turn, which is why `Operands` and the
context must follow `re_mapper`, and not the function read. `OperandsStayAvailable` then follows from
`UsesDominated`: a use that a definition dominated within a block is in a later piece or later in
the same one (`Kept`, `AtEndKept`); across blocks, the value is still, or its PHI is, in the
same block.

**McwWrapperProofs**, for all names, arguments and files: `TypeCorrect`,
`UserSourcesKept`, `UserIrKept`, `InstrumentedOncePerName`, `LinkedIrIsFresh`. The first
invariant, `Typed /\ SourcesKept /\ SparedKept`,
says where main is when a file is empty, that the loops write and remove only what
`new_argv` names at marked or IR arguments, and that a mark means that the
argument's name was replaced. `LInv` adds that a file was instrumented at most as often as
the places of `new_argv` already passed name it (`Counted`), and that the IR at the place
of a compiled source is from that source or is still to be made (`Fresh`).

**CallCounterProofs**, for any functions, threads, width, calls and runs of the tool:
`TypeCorrect`, `OneThreadExact`, `ExactWithoutRace`, `NoCallInvented`, `CalledIsSeen`. The
invariant for one thread is `TypeOK /\ (Alone => Exact)`: a
counter plus the increments its only thread still has to do is the product of calls
and increments, modulo the width, and a loaded value is the counter's value. For several
threads, a sum over threads is the size of a set: `Unstored` has a pair for each
increment that a thread still owes, so that `RInv` can say what a counter and the owed
increments together are (`Unraced`) or do not exceed (`Bounded`), and each step moves one
pair. `Seen` is why a counter that was stored to does not return to zero before it
wraps. The lemmas about `%` are proved first (`Remainder`, `UniqueRemainder`,
`IncrementModulo`).

**PassDriverProofs**, for any functions, any sizes of types and any number of runs:
`TypeCorrect`, `NeverRefused`, `MeaningKept`, `ReplacesOnce` and `FileMeansTheSame`. The
invariant says of the file and of
the block in memory alike that names are at most `last` (`Bounded`), that the verifier
accepts them (`Valid`) and that every valuation of the names that satisfies them satisfies
the function that was there first (`Means`). All three are needed: a replaced
instruction's operands have values of their type only because the module is valid, and the
names put there are new only because of the bound. `ReplacementSound` is the algebra:
`a + ~b + 1 = a - b` at any size, and the identity of `mba_add`, whose 39 and 151 are
inverse modulo 256, at bytes; both from `BitsAssumption`. `Splice...` and `Replaced...`
carry it to an instruction in the middle of a block. `ReplacesOnce` needs `Walk`: from the
iterator on the block is the rest of what was read, and before it there are as many
instructions, and as many that the tool would replace, as those of the part of `read` passed
give. `FileMeansTheSame` turns
valuations into executions: no name of the first function is lost (`NInv`), and a block
executed instruction by instruction gives a valuation that satisfies it (`Executed`,
`ValuesSatisfy`).

**CoverageProofs**, for any modules, threads, sizes and numbers drawn: all properties of the run
(`TypeCorrect`, `CellsExact`, `NoEdgeMadeUp`, `NoEdgeLost`, `EdgesHaveDirections`, the last
for any two blocks whose own draws differ, whatever others collide). The
invariant `IInv` says that a thread's address is the cell of the edge it is on
(`IndexOfEdge`), which needs that `prev_loc` follows the thread's own blocks (in `TypeOK`);
that a value loaded from an unraced cell is still there (`Exact`); that until a cell can
have wrapped nobody holds more than was counted (`NothingForgotten`), so a late store never
stores zero; and that no two blocks share a draw of one process (`DrawnOnce`). `GrayCode`
is why `cur_loc` is shifted: with `d = i xor j`, equal cells of both directions give
`d = d >> 1`, hence `d = 0`; it rests on `XorAssumption`.

**FloatPassesProofs**: `ConvertedComparison` and `ConvertedInfinities`, for every number,
every epsilon and every limit: what convert_fcmp_eq puts in the place of a comparison answers
as `SourceProgram!Compared` says. It goes through how the absolute difference relates to
epsilon in each of the cases near, far, infinite and NaN. `TypeCorrect` and
`RerunsLeaveAlone`, for every set of functions that satisfy `FunctionsAssumption`, and any
number of runs of the tools in any order, rest on `FInv`: what `file` and the module hold is
`WellFormed` (`Typed`); the targets in the module are those that `todo` still names, for a
tool that leaves none behind (`Pending`); and neither holds a target of such a tool that has
run (`Settled`). `Rewritten` is what `Replace` needs to know of each of the five
replacements: all other instructions are still there, `Alike` but for the entries of PHIs,
and what is new has other opcodes. For work2 it goes through two replacements and
`SplitIs`, in which each instruction of the split function is followed to where it was
(`From`, `Was`); `NewOpsAre` has that a tool makes targets of another (work2 of work1 and
work3) only out of such targets, so that none come back. `CollectedIs` is about the pass's
loop, from what `FlattenSeq` returns.

`OnlyFloatsRefused`, under the same assumption, rests on `Accepted`: the file is `Valid`, and
of the module being rewritten names are unique, operands dominate, and types match but
where a tool has put a call or an absolute difference in the place of a float. The part that
matters is that `OperandsDominate` survives each replacement. `ReachedIs` says that what is
reached without a block is the least set that has the entry and is closed under its branches,
so that a set that is closed bounds it and no path need be built. An operand is in order if
it is a constant, an argument, or `Known` where it is used: defined in a block `Above` this
one or before it in this one (`DominateIs`); a PHI's, if known where its edge is `Leaving`.
An instruction replaced in place leaves known what was (`ReplaceKnown`). A block split does
too: the blocks reached without a block are those of before with the parts they were split
into (`SplitReached`), so what was known is known in the part that now has the instruction
(`SplitKnown`), and the PHIs of the successors, which now name the tail, find their values
leaving it. What is new uses what the replaced one used (`Uses`) and itself, and the PHI of
work2 has an entry for each of its two predecessors.

`ImplementsSource` is the refinement `Spec => Implements`, for every set of functions that
satisfy `FunctionsAssumption`, any arguments and any number of runs. It has two halves. The
first is about the file, whatever is executed: `Mapped` says that a rewritten function goes
through the user's instructions in their order (`Follows`: its block `b` belongs to the user's
`O[b]`, its place `j` to the user's `K[b][j]`), and that each instruction does its part of the
work for that one (`Means`), as the tools so far have left it (`OperationAfter`,
`ClampedAfter`, `ConvertedAfter`, `TurnsAfter`, the same functions of `ran` that SourceProgram
has). Of the module it says the same, but that what `todo` still names means what it did before
the run: this is where the order of replacements does not matter. `ParseMeans` is that what a
tool does not collect means the same after it as before; then there is one lemma per tool
(`SubMeans`, `ClampMeans`, `ConvertMeans`, `NegateMeans`), over `ReplaceMeans` and `SplitMeans`
for the rest of the function. A sum that work2 has split may have been limited before, so
`Clamps` describes a limited sum where all that stays recognisable: two empty blocks between a
comparison with 100 and a PHI, in blocks that may since have been split again.

The second half is the execution. `Simulating` says of the place in the file and the place in
the user's function that they correspond under `O` and `K`; that every value the user's
instruction can use is there and of its type (`Knows`, from dominance in the *user's* function);
that the instruction a tool put in last holds what the next one needs (`HeldAt`: the sum, its
comparison, the difference, its absolute value); and that on the edges of a limited sum the PHI
will take the limited sum (`TakenAt`). A step of an instruction a tool put in leaves all that
the user sees (`HiddenSimulates`); one of a user's name has a value that `Source!Meanings` allows
(`MeaningsHave`, which for comparisons is `ConvertedComparison` and `ConvertedInfinities`) and
takes the user's place one on (`UserSimulates`); a branch is the user's or stays within one of
its instructions (`UserBranch`, `OtherBranch`). So every step is a step of SourceProgram or
leaves its variables (`SimulatingStep`).

Where a proof needs induction (over a walk, the dominators of a block, the instructions
executed), it takes the least element of a set of finite sets (`MinimalSet`) or of prefixes
of the numbers: the library's induction theorems take an operator as a parameter, which the
provers here cannot instantiate.

Only model-checked: liveness, `EventuallyEmpty`, `GeneratedIrRemoved` and
`EveryFunctionReported`, which is out of the prover's reach.

## 7. Disagreements between the code and what it says

1. `merge_bb.cc:192` asserts that a merge updates a branch target. A duplicated block
   that nothing branches to is merged too, and the assertion fails (`merge_bb_assert`).
2. `merge_bb.cc:148-149` says edges other than `br` and `switch` are left alone. The
   `continue` at line 153 is the one of the inner loop, and a block entered by an invoke
   is merged into (`merge_bb_simple_preds`).
3. `merge_bb.h:23-24` says an instruction whose only user is a PHI can be removed. Line
   36 casts the value used, not its user, and refuses it (`merge_bb_phi_use`).
4. `riv.cc:91` says the parent's RIVs are added. Lines 92-93 add `parent_defs` once
   more: a block has its immediate dominator's values only (`OnlyIdomValues` in the run
   `riv`, and proved), which is sound (`RivsSound`) and less than is reachable.
5. `work3.cc:85-88` asks of LLVM what it does not allow. `CreateCall` puts the call before the
   `fadd`, and `ReplaceInstWithInst`, which wants an instruction that is in no block, puts it
   there again. An LLVM with assertions aborts at the first `fadd`, and the file stays as it
   was (`AssertionFails`). Without assertions the call comes to be its own predecessor in the
   list of the block, while the list is right for whoever reads it forwards, as the verifier
   and the printer do: the file is the one `HookFAdd` describes, and what goes wrong when the
   tool frees the module comes after it is written and is not modelled. No comment of the
   repository speaks of it, so no run refutes one. (convert_fcmp_eq likewise asks for the
   cast of a `float` to `i64`, which is an assertion or else left to the verifier.)
6. `duplicate_bb.h:31-32` says the context value is reachable in its block. The value of
   an invoke is not, where its normal and its unwind path join (`duplicate_bb_invoke`).

## 8. Not modelled

* `static_call_counter`, `opcode_counter`, `hello_world`: walks that only print, every
  behaviour of which a test reaches. `inject_func_call`: one insertion per function, the
  same as CallCounter's, with nothing that reads it.
* The shell: `Execute` of the wrapper (`my_clang_wrapper.cc:79-93`) joins its arguments with
  spaces and no quotes. Names are taken to be words that a shell leaves alone.
* What a kill destroys is a step of the runs and forbidden by no property: a user's IR that is
  empty, IR left behind, a tool's input truncated. `UserIrSurvives`, `GeneratedIrRemoved` and
  `FileKeepsMeaning` say what holds all the same. Nor does a property say what numbers
  `printf_wrapper` prints while other threads count.
* PHIs of one block are taken to be executed one after the other, in the file's program and in
  SourceProgram alike, where LLVM has them read their operands at once. It makes a difference
  only to a PHI that has another PHI of its block for an operand, and the same one to both.
* Rounding; vectors; fast-math and overflow flags of the instructions FloatPasses has; `-v` of
  the least `int` is taken to wrap. The text of IR and of the reports; names of blocks.
* A module that defines `Hook` with an `fadd`, which work3 makes call itself.
* Signal handlers of a covered program, which share the thread's `__mcw_prev_loc`.
* LLVM itself: its dominator tree, verifier, `ValueMap` and block utilities are modelled
  by what the code here relies on. Clang, `rm` and the loader likewise.
* Constants as operands of the instructions `mba_add` and `mba_sub` read, which
  `IRBuilder` folds; the other passes under PassDriver's `main`.
* Funclet pads in `duplicate_bb` (only landing pads), and modules that define `printf`.

## 9. Plan

Done, in this order: MergeBB, Dominators and Riv, McwWrapper, CallCounter,
DuplicateBB, Mba and PassDriver, FloatPasses with SourceProgram and Floats, Coverage, and
the proofs of the safety properties of all of them, the refinement by FloatPasses included.

Next:

1. `PassDriver` with the passes of FloatPasses, so that a kill falls between them too.
