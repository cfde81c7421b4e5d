# LLTFI in TLA+

LLTFI (the directory `LLTFI/` of the repository) is a fault injector. It
compiles a C or ML program to LLVM IR, instruments it twice - once to count
instructions, once to corrupt registers - runs the counting executable, and then
runs the other one again and again, each time with a fault placed at a random
point of the execution, to see whether the program notices. The value of every
number such a campaign produces rests on a few facts that are hard to test: a
fault strikes exactly where the configuration file says, once; what the records
say was injected is what was injected, also when the program crashes an
instruction later; "cycle n" means the same in the profile and in every run; and
the results filed under a run are the results of that run. This directory states
these facts and checks them.

## Inventory

| Part | Code | State | Operations | Module |
|---|---|---|---|---|
| Fault injection runtime | `runtime_lib/FaultInjectionLib.c`, `CommonFaultInjectors.cpp`, `FaultInjectorManager.cpp` | configuration, cycle counter, injection switch, "already injected in this instruction" flag, remaining plan, records file | `initInjections`, `preFunc`, `injectFunc`, `turnOff/OnInjections`, `postInjections` | `FaultInjectionLib`, `CommonFaultInjectors`, `FaultPlan` |
| ML runtime | `runtime_lib/MLFaultInjectionLib.cpp` | sorted plan, index into it, its own cycle counter | the same interface | `MLFaultInjectionLib` |
| Instruction trace | `runtime_lib/InstTraceLib.c`, `tools/tracediff.py` | the tracing flag shared with the runtime, counters, trace file | print an instruction; align two traces | `InstTraceLib` |
| Register selection and passes | `llvm_passes/core/FIRegSelector.cpp`, `RegLocBasedFIRegSelector.cpp`, `FaultInjectionPass.cpp`, `ProfilingPass.cpp`, `Utils.cpp` | none between instructions | which registers of an instruction are targets, which calls go around it, in which order | `InjectionPasses` |
| Instruction selection | `Controller.cpp`, `FIInstSelector*.cpp`, `CustomTensorOperatorInstSelector.cpp` | set of instructions, scan of the operators | opcode lists, closure under traces, intersection, layers | `InstSelection`, `TensorOperators`, `Passes` |
| Instruction duplication | `instruction_duplication/InstructionDuplication.cpp`, `SIDHelperFunctions.cpp` | scan of the operators, chains | duplicate, compare | `InstructionDuplication` |
| Profiling runtime | `runtime_lib/ProfilingLib.cpp` | counters per opcode, cycle counter, open layer, closed layers | `doProfiling`, `lltfiMLLayer`, `endProfiling` | `ProfilingLib` |
| Driver | `bin/injectfault.py` | variables of the current option, configuration file, snapshot of the directory, saved input, four result directories | read an option, write the configuration file, run with a timeout, move outputs, restore input, report | `RuntimeConfig`, `InjectFault` |
| One run, end to end | the passes, both runtimes and the driver | all of the above | profile, plan, inject | `Campaign` |
| Scripts | `bin/batchInstrument.py`, `batchProfile.py`, `batchInjectfault.py`, with `instrument.py` and `profile.py` | a directory per model | prepare, split, instrument, profile, inject | `BatchScripts` |

How they interact: `instrument.py` runs the passes and links either runtime. The
profiling executable writes `llfi.stat.prof.txt`; the driver reads its
`total_cycle` and layers and writes `llfi.config.runtime.txt` before each run;
the runtime reads that on entry of `main` and appends to
`llfi.stat.fi.injectedfaults.txt`; the driver moves that file, under the id of
the run, to the result directories. Everything between processes is a file, and
nothing but names and order ties a file to a run.

What is hard: calls around one instruction share a global flag; a loop over bits
advances a plan of cycles; the process may die at every point, by design; the
driver can die too, and be started again over what it left; two passes that were
written apart must agree on what counts; the window arithmetic at the end of the
profile; a flag that one library sets and another resets; directories that
outlive the script that made them. `PROJECT.json` lists the hazards with their
lines.

## Modules

**FaultInjectionLib** models the runtime inside one process. The program is the
environment: it executes instrumented instructions in any order, and for each
one the calls that the pass put around it, which the constant `RegCalls` gives as
the register indexes in the order they run. `preFunc` is one step
(`PreFuncSkips`, `PreFuncSelects`, `PreFuncDeclines` are its outcomes).
`injectFunc` is split where a crash can be seen: `PrintRecord` (pick a bit, write
to the stdio buffer), `FlushRecord`, `Corrupt` (advance the plan, change the bit),
`InjectReturns`; `BitTooLarge` is its assertion. `Kill` can happen anywhere. The
code's variables keep their names; `trace`, `hits` and `corrupted` are history.
`fi_next_cycles` holds what is not yet marked -1 of the array of that name.
**CommonFaultInjectors** holds the three injectors and the registry.
**FaultPlan** is the abstract specification of faults placed by cycle: cycles
pass, and no cycle passes while its fault is due.

**MLFaultInjectionLib** models the second implementation of that interface, which
`instrument.py` links on request and of which the driver knows nothing. The
program is any sequence of calls, also after `postInjections`. `preFunc` is three
actions (off, declined, selected); the comparison with an element past the end of
the vector may come out either way. `MLInject` and `MLPrint` are the halves of
`injectFunc` between which a process may die. `calls`, `mlHits` and `mlCorrupted`
are history.

**InstTraceLib** models `printInstTracer` as one action, whose three conditions
are the operators `Headed`, `Prints` and `NextFlag`, with `EnterMain` and `Strike`
for what the fault injection runtime does to the flag. `before` and `marks` are
history. `Compared` is the alignment that `tracediff.py` makes of the file and the
trace of a run without faults.

**InjectionPasses** is pure: for an instruction (a record of what the passes tell
apart) and a `regloc`, the register list, the calls and their order, and whether
the profiling pass counts it. So are **InstSelection** (the graph of uses is a
function from instructions to those they use, cycles included; the depth-first
visits are a recursive function), **TensorOperators** (`main_graph` is a sequence
in which points mark the operators, scanned as the selector does; `Emitted` is the form in
which the onnx-mlir of this repository marks them, which is another one than the passes
read) and **InstructionDuplication** (which items are duplicated, and the value of every
item under one fault: clean, with raised bits, or wrong; a call is left on the unprotected
original by the pass, and any other user reads the comparison). **Passes** has a state for
every input of one of these passes, and states what their outcomes promise; its constants
are the sets of inputs, which `MCInjectionPasses` makes small.

**ProfilingLib** models the profiling runtime under any sequence of calls,
layers that are nested, empty or left open included.

**RuntimeConfig** is pure: which options the driver refuses, the defaults it adds, when
writing the configuration fails, and the set of files it may write; all of them read the
local variables of `main`, as the code does, and not only the option. **InjectFault** is
the driver with its files and child process, one action per step of `execute` and of the
loop in `main`. `main`'s variables live across options: `ReadOption` deletes them one by
one (`Reset`), assigns those the option gives (`Assigned`) and adds the defaults, and
`WriteConfig` draws a cycle into the variable that a pinned cycle would have; that
nothing leaks from one option into another is `OwnOption`, which compares the file
written with those a script with that option alone writes. A file's content is the set
of runs that wrote to it, so that mixing and misfiling can be seen. `Dies` cuts the
script at any step, and `Start` runs it again in the same directory.

**Campaign** composes the passes, the profiling runtime, the driver's planning and the
fault injection runtime: profile a program, plan a run with the driver's arithmetic,
execute the same program under the fault injection runtime, whose constants are computed
by the passes' operators, and whose configuration file is one that the driver writes
from this profile. Its properties relate the executables: `ProfiledPath` is what the
profile counted, `trace` what the injection run counted.

**BatchScripts** models the directories of the software failure models. Exit statuses are
those of Python: 255 for `sys.exit(-1)`, 1 for an exception that nobody catches, and the
number of failures modulo 256 otherwise. A
directory is a record: has it a yaml, which executables, from which
instrumentation, whose profile, and the runs filed in it. The scripts' steps are
actions per model; each has the failures the code gives it, `BatchKill` cuts any of
them in the middle, and the user calls the scripts and `instrument.py` in any
order.

The modules beginning with `MC` hold the small instances, and those ending in
`_proofs` the proofs. The last section of a module that is proved about holds the
inductive invariants, so that TLC can check them as well.

## Runs

| Run | What it checks | Bounds | States |
|---|---|---|---|
| `runtime` | `TypeOK`; `OneRegisterPerInstruction`; `CycleCountExact`; `RecordedFirst`; `BitsCorrupted`; `EveryInstance`; the runtime implements `FaultPlan` (`PlanCarriedOut`); `InjectFuncEnds` | three instructions with one, two and three registers, one of an unknown opcode; four dynamic instructions; two bits; 56 configuration files | 399,877 |
| `parts` | four parts that share nothing: | | 154,844 |
| - the ML runtime | `MLTypeOK`; `MLPlanStruck`: faults at the planned calls and no others; `MLNoMoreThanAsked`; `MLRecordFollows`; `MLClosedForGood` | the driver's files for ten options, with a layer or without, and files written by hand with cycles out of order; two bits; six calls | |
| - the tracer | `TraceTypeOK`; `PrintedAroundFaults`: the windows behind the faults and nothing else; `HeadersMarkFaults`; `ComparesSameInstruction` | nine traced instructions, windows of three, faults anywhere | |
| - the passes | `EachRegisterOnce`, `OneSidedUnlessAll`, `PassesAgree`; `TracedSelection`: the selection is what the transitive closure of uses gives; `TargetsInLayers`; `RaisedBitsMasked` | all instruction records of up to four operands, phis that use themselves among them, under six locations; all graphs of three instructions; up to three operators in a row; three duplicated instructions with any uses and gaps, and a call that uses any of them | |
| - the scripts | `BatchTypeOK`; `SameBuild`: results, executables and profile of one instrumentation; `StatusCountsFailures` | three models, two instrumentations | |
| `driver_runs` | `TypeOK`, `RunsAttributed`, `AllRunsDone`, `RunsStartAlike`, `OwnOption`, `PlanIncreases` | two options, three runs, one session, profile of three cycles | 4,081,641 |
| `driver_sessions` | `NoMixedResults`, `ScriptEnds` | two options, two sessions | 282,840 |
| `campaign` | `SameCycles`; `FaultWhereProfiled`: the fault strikes the instruction profiled at its cycle; `EveryRunHasItsFault`; `ProfTypeOK`, `LayersLabelCycles`, `TotalCountsCycles` of the profile that is used | four static instructions, every path of up to three, two layers, two faults in a window | 436,046 |
| `all_registers` | violated: at most one fault per instruction execution (`architecture.md:413`) does not hold under `regloc: allreg` | destination called last | |
| `index_mode` | violated: index mode injects the first occurrence of the instruction (`architecture.md:412`); it injects every one | one file | |
| `bits_and_locations` | violated: with several bits and several locations, a planned location is lost | one file | |
| `intrinsics` | violated: one fault per run, when intrinsics have destinations | as `campaign`, paths of up to four | |
| `operator_boundaries` | violated: the duplication pass duplicates in the operators it is given | as `parts` | |
| `operator_points` | violated: the operators that onnx-mlir marks are recognised (`architecture.md:329`) | as `parts` | |
| `altered_input` | violated: an input file that a run alters is restored (`injectfault.py:174`) | two options, one session | |

The passes, the ML runtime, the tracer and the scripts share no state, so one run does
for all four: in each behaviour of `MCParts` one of them works, from any of its initial
states, and the others stay in one. Its states are the sum of theirs (53,863 inputs of
passes, 9,546, 4,082 and 87,353), not the product.

Why the bounds are enough: the runtime keeps nothing of an instruction but the flag and
the counter, so a plan needs two planned cycles next to each other and two apart, and
one cycle before and after; a second instance of an index; three registers give a first,
a middle and a last one. Two bits allow fewer, as many and more bits than the register
has. The ML runtime keeps a counter and an index, so three cycles and a call behind the
last suffice. Nine traced instructions hold two separate windows, two that overlap and
two that touch, before and behind untraced ones. In the driver, leftovers of one run
show in the next, and of one session in the next, so two of each suffice for a pair of
them to be mixed; a third run is the one that follows the change of option. Two layers
allow nesting, an empty one and a cycle between them. The closure of a set of three
instructions has all the ways two selected instructions can share, or miss, a third.
Three models are one that fails, one that does not and one whose failure status 1 cannot
tell from an exception; two instrumentations are an old one and a new one, by a script
or by hand. `MaxDyn`, `MaxPreFunc`, `MaxTraced`, `MaxCalls`, `MaxLayers`, `MaxSessions`
and `MaxBuild` are the bounds in the guards, and so is `MaxDyn` for the paths of
`Campaign`; all are arbitrary in the proofs. Deadlock is checked in all runs: where a
process or script has ended, an explicit stuttering action says so (`Ended`, `MLEnded`,
`ProfEnded`, `Finished`, `Over`); the tracer's environment and the user of the scripts
can always go on.

Fairness. `FaultInjectionLib!FairSpec` assumes that a call of the runtime that has
begun goes on (weak fairness of `PreFunc` and of `InjectFuncGoesOn`, which leaves
out the one draw that returns `RAND_MAX`): it is straight computation without
waiting. Nothing is assumed of the program. `InjectFault!FairSpec` assumes that the
script goes on (weak fairness of `Script`, which contains the expiry of the
timeout); nothing is assumed of the child, which may run for ever, and `ScriptEnds`
holds because of the timeout alone.

## Where code and documents disagree

The violated runs above, each with the lines in `PROJECT.json` under `findings`:

* Under `allreg`, the tutorial's choice, the flag that allows one fault per
  instruction is reset by the call for register 0, which runs last.
* The advance to the next location is inside the loop over the bits, so
  `fi_num_bits: 2` with several locations skips every second one.
* An intrinsic with a destination register is profiled but not instrumented, so
  the last cycles of the profile never come in a run.
* The duplication pass takes the flag that ends an operator for its start, and
  duplicates what lies between the operators. Its reading, 2 for the start and 1 for the
  end, is also the documented one (`architecture.md:336`, `tutorial_ml_experiment.md:118`,
  `test_instruction_duplication.py:104`), but not that of the selector, of the profile or
  of onnx-mlir's own pass, which have 1 before an operator and 2 after it.
  `TargetsInLayers` is about the code's reading.
* onnx-mlir calls `OMInstrumentPoint` with a pointer, a tag and a pointer
  (`KrnlInstrument.cpp:121`; `docs/TROUBLESHOOTING.md`, D7, tells which option makes it do
  so); the selector and the duplication look for two constants and skip such calls, so
  that no layer is found, and the profiling pass copies the three arguments to
  `lltfiMLLayer`, which takes two integers. `TargetsInLayers` and `RaisedBitsMasked` say
  what the passes do with points they recognise.
* Index mode injects into every instance, as the comment in `preFunc` and the driver's
  message say, where `architecture.md:412` says the first. `EveryInstance` is what the
  code does, `FirstOccurrenceOnly` what the document says.
* `replenishInput` restores input files that were deleted, not those that were altered,
  which the comment at its call speaks of as well. `RunsStartAlike` is what does hold:
  what a run reads is the user's input but for what earlier runs altered in it.

Others were met while modelling and have no run of their own.

Runtime: `architecture.md:411` says that cycle mode counts every call; it counts
instructions, in the call for the last register (`CycleCountExact`), and adds the weight
of the opcode. `input_yaml_guide.md:251` says of `stuck_at_0` that it forces all bits to
0, and of `stuck_at_1` all bits to 1; both force the bits picked, one by default
(`BitsCorrupted`); `fi_bit` with `fi_num_bits: 2` flips one bit twice; `rand() /
(RAND_MAX * 1.0) * size` can be `size`, an abort (`BitTooLarge`) that the driver counts
as a crash caused by the fault.

ML runtime: a cycle is a call of `preFunc`, so one register, where the profile
counts instructions; with several targets per instruction faults strike earlier
than planned. It corrupts before it records. Two equal cycles stall the plan. Most
of the options the driver writes make it exit.

Tracer: `instrument.py:349` adds the tracing pass to the profiling executable only,
so the traces of faulty runs that `input_yaml_guide.md:210` describes are not written
by an executable it builds. With two faults in a trace, `tracediff.py` reads the
second header as an instruction; with instructions before `main`, it finds no header
in the first line and fails.

Driver: `window_len: 0` is accepted and then refused by `randint`; when the first
fault falls on the last cycle, a `window_len` run has one fault; result directories
survive a session, and a run that succeeds does not remove the error file an earlier
session left under its id.

Passes: a phi that has itself for an operand, under `allreg` or under the `srcreg` of
that operand, ends the compiler with status 2, because the selector takes the operand
for the destination and the pass finds no place for a call before a phi (`EndsCompiler`;
the profiling pass does not mind); `srcreg3` and `allreg` select the case constants of a
`switch`, which the comment in the selector says must stay; the end of an operator
nested in a `loop` ends the selection of the loop. The duplication's comparison keeps
the bits both copies have, so a fault that raises bits is masked and one that lowers
bits is passed on, against `architecture.md:366`, "the AND masks the corrupted bits";
calls that use a duplicated result keep the unprotected original, and in a chain only
the last pair is compared; its `llfiIndex` option matches nothing when the pass runs
before instructions are numbered.

Scripts: `batchInstrument.py:115` copies a subdirectory onto a directory that exists,
which always fails; its exit status is the number of failures, but an exception that
nothing catches ends it with 1, as one failure does, and 256 failures are status 0; a
failing profile run overwrites the golden output while the profile of the last good one
stays; a bad option leaves an empty `llfi`, for which the next try is
refused. `traceunion.py:33` never resets its inner index, and keeps reports apart that
it should join.

## Proofs

Every safety property that a passing run checks is proved for every value of the constants:
programs, instructions and their operands, locations, files, widths, options, numbers of
runs, models and sessions. The assumptions on constants are those of the modules: indexes
are positive, opcodes are finitely many and each weighs 1 or is unknown, calls name registers
below the number the pass gives, files obey the parser's assertions (and its array of 100
next cycles), an option gives its numbers or leaves them out, a module has finitely
many instructions, and an instruction of a straight-line function uses those before it. TLC
evaluates each on the runs of the module that states it.

### The parts

`FaultInjectionLib_proofs` is about the runtime. Three hypotheses are stated where they are
needed. `OneSidedProgram`: the calls around an instruction come in the order of its
registers. It fails under `allreg`, where the conclusion of `OneRegisterCorrect` fails too
(run `all_registers`); that the passes establish it under every other location is
`OneSidedUnlessAllCorrect`. `IndexAlone`: a file plans further locations only from a first
one; that of the driver's files is `WrittenIndexAlone`. `IndexHasRegister`: in index mode,
the register named by the file is one of the instruction's; nothing in the driver checks
that.

* `TypeCorrect`, `CycleCountCorrect`, `OneRegisterCorrect`. `CycleCountExact` speaks of
  the time between instructions and is not inductive: `CountInv` says what the counter
  is inside one, still that of the current instruction until the call for its last
  register and one more after it. `HitInv`: a hit in the current instruction is
  remembered by the flag as long as calls of this instruction may follow.
* `RecordedFirstCorrect` from `RecordInv`: inside `injectFunc` the file is one record
  ahead of the register, that record is the one being served, and the cycle it gives is
  that of the last hit although the configuration has moved on. `ConfigInv` says that
  moving on changes nothing else.
* `BitsCorruptedCorrect`, for random bits (no `fi_bit`) and the three registered
  injectors, from `BitsInv`: the score board is the set of bits changed so far, and its
  cardinality the number of the round.
* `EveryInstanceCorrect` from `InstanceInv`: the instances struck are those executed,
  and the current one once its register has been called.
* `PlanCarriedOutCorrect` is the refinement `Spec => Plan!Spec`, for files that place
  faults by increasing cycles with one bit each, and name no register or one that every
  instruction has (`PlannedFile`); other files map to an empty plan and are not spoken
  of. Of a step it must be known whether the fault of this cycle is still due, which
  `ScheduleInv` gives: the hits are the first cycles of the schedule, the configuration
  holds the rest (`Taken` says how many the library has taken up, one more than the hits
  except while `injectFunc` has not yet moved on), and none of the rest has been passed.
  A call then maps to `Inject`, `InjectAndPass`, `Pass` or a stutter.

`MLFaultInjectionLib_proofs`: `PlanInv` ties the switch, the index, the counter and the
closed file together; `StruckInv` says that what was struck is a prefix of the sorted
cycles and what is next lies ahead; `MLRecordInv` counts hits, flips and records in each
phase. Five theorems, one for each property of the run.

`InstTraceLib_proofs`: `WindowInv` says that `cutOff` ends the window of the last fault, so
that the flag decides what the history of faults does; `FileInv` that the file is about
the past; `OneFaultInv` gives the file line by line when there was one fault. Four
theorems.

`Passes_proofs`: a pass is a function of its input, so each of its six theorems is about an
operator, for inputs of any size. The recursive ones - filtering a sequence, the scan of the
operators, the depth-first visits, the values under a fault - are functions that TLA+
defines by a choice, so `Recursion` first shows that a function that satisfies the equations
exists, whenever the recursion descends in a natural number; from there the equations can be
used (`KeptEquation`, `ScanEquation`, `ValuesEquation` and that of the visits), and what
they compute is shown of the least input that would be a counterexample (`Least`).
`EachRegisterOnceCorrect`, `OneSidedUnlessAllCorrect` and `PassesAgreeCorrect` rest on the
form of the register list and of the calls (`RegListForm`, `CallsForm`).
`TracedSelectionCorrect`: a visit adds only what is reached; what it adds is closed under
uses but for the instructions still being visited, so that at the end nothing is left out,
although instructions visited before are passed over and the graph has cycles. The visits
descend because the unvisited instructions decrease (`Rank`). `TargetsInLayersCorrect`
compares the scan's flag with the last operator entered; `RaisedBitsMaskedCorrect` shows
that behind the comparison of a fault every value is clean (`CleanReads`), as long as no
call has used the original.

`ProfilingLib_proofs`: `ProfTypeCorrect`; `LayersLabelCyclesCorrect` from `LayerInv`: the
range of every layer is exactly the cycles it was open at (`Ranged`), and the open one
reaches up to the last cycle; `TotalCountsCyclesCorrect` from `TotalInv`: the counters of
the opcodes add up to the cycle counter. The sum over the opcodes is reasoned about as the
size of a set, the instances of an opcode being numbered; a new cycle adds one element to it.

`InjectFault_proofs`: seven theorems. `PlaceInv` ties the script's place to its option,
and main's variables to what the option means by itself (`OptionRead`), which gives
`OwnOption` because `Reset` leaves none of the old ones; the files' contents are typed
with it. `NoMixedResults` needs `FilesInv`, what is new in the directory was written by
the run under way, whatever a killed session left there; `RunsStartAlike` needs
`AlikeInv`, up to the first death every run leaves in the directory what it found there,
and for the content of the input `OutcomeInv` (the runs so far are those before this
one) and `InputInv` (the saved copy has nothing of this session, and after a run that
deleted the input it is what comes back); `AllRunsDone` needs `DoneInv`, the runs before
this one are reported; and `RunsAttributed` needs `AttributedInv`: nothing is filed for
runs to come (`NotYet`), and what the current run wrote is either still in the directory
or filed under its id (`UnderWay`, `StillHere`).

`BatchScripts_proofs`: `DirInv` and `BuildInv` (a directory's profile and runs are of its
executable, and a directory that a running script has come past is newly made) give
`SameBuild`; `FailInv` (the models a script has come past without success are at most
`num_failed`) gives `StatusCountsFailures`, for fewer than 256 models and statuses other
than 1 and 255, which do not tell a count from an end in the middle.

### The whole

`Campaign_proofs` extends the proofs of the runtime, the profile and the passes. A step of a
campaign is a step of the profiling runtime or leaves it alone (`ProfilingPart`), so that a
campaign implements `ProfSpec` (`CampaignProfiles`) and what is proved of the profile
holds. It is a step of the fault injection runtime, or the driver's writing of the file
between profile and run (`InjectionPart`), so that the runtime's lemmas about a step serve
here too. Three invariants connect them. `PathInv`: the profile counts the profiled
instructions on the path, all of them of known opcodes once there is a file. `RepeatInv`:
until the first fault, what the run has counted are the instrumented instructions on the
same path, up to where it is. `FirstFaultInv`: the first planned cycle lies ahead and within
the profile, and when it is this one, the register the file names is still to be called.

| Theorem | says | for programs |
|---|---|---|
| `SameCyclesCorrect` | cycle n of the run is cycle n of the profile | with `NoIntrinsicTargets`, any location |
| `FaultWhereProfiledCorrect` | the first fault strikes the instruction profiled under its cycle | the same |
| `EveryRunHasItsFaultCorrect` | a run that ends by itself has had its fault | with `NoIntrinsicTargets` and `EveryInstHasRegister`, any location but `allreg` |

The hypotheses are where the code leaves a campaign open. `NoIntrinsicTargets`: no intrinsic
has a register of the location; run `intrinsics` shows a campaign without it that plans a
cycle that never comes. `EveryInstHasRegister`: the option names no register that a target
does not have. The driver accepts any `fi_reg_index`, and when the instruction at the planned
cycle has fewer registers the run ends without a fault. Under `allreg`, the proof of
`EveryRunHasItsFault` would have to speak of the register called last; `SameCycles` and
`FaultWhereProfiled` hold there.

### What stays with TLC

Liveness (`InjectFuncEnds`, `ScriptEnds`), which is beyond the prover. No module declares
RECURSIVE operators.

## Not modelled

* Threads: the runtime's statics are unsynchronised, and the code promises nothing to
  programs with several threads. The runtime's process has one.
* A stack of calls in `Campaign`: programs are flat sequences of instructions, so the shift
  of cycles inside a callee under `allreg` on call instructions does not show.
* Code that runs after `postInjections` in the first runtime (the second one's is modelled).
* Selection by function name and by index, the numbering of instructions and the registry
  of custom selectors: set membership. The construction of IR by the passes.
* The report of `tracediff.py` after its alignment, the union and the graphs of traces:
  sequential formatting of files.
* `executeParallel.py`: independent processes in copies of a directory. IR-only builds, the
  command lines of the compiler tools.
* The software fault injectors and their generator, the analysis and plotting scripts, the
  graphical interface, and `bin/FaultInjectionLib.c`, an old copy that nothing compiles.
* `onnx-mlir`, which is vendored and by far the largest part of the repository's lines: a
  compiler, of which LLTFI uses the calls of `OMInstrumentPoint` that it emits around tensor
  operators: `Tag` and `Emitted` in `TensorOperators` model its pass and its lowering of them,
  without the bits of the tag that ask for reports and the lengths of names.
* A user who removes `llfi` by hand, as `instrument.py:137` advises, and keeps the results and
  the profile beside it; directories that `rmtree` has removed in part.

Abstractions to keep in mind when reading the modules: registers have bits and no values,
except in `InstructionDuplication`, where values are clean, raised or wrong; operands with a
type that no function can return occur only in intrinsics; the driver has one input file
and the program one output file; the child dies with the script; the options given to
`batchInjectfault.py` are some that draw a cycle.
