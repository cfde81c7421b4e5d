------------------------- MODULE FaultInjectionLib --------------------------
(***************************************************************************)
(* The fault injection runtime, runtime_lib/FaultInjectionLib.c, linked    *)
(* into an instrumented program.                                           *)
(*                                                                         *)
(* The program is the environment: it executes instrumented instructions   *)
(* in any order, and for each of them the calls the injection pass put     *)
(* around it (RegCalls), each a call of the generated function that stores *)
(* the register, calls preFunc and, if that returns true, injectFunc.  It  *)
(* may call turnOffInjections and turnOnInjections between instructions,   *)
(* exit, and be killed at any point (the driver's timeout, a crash of the  *)
(* corrupted program).                                                     *)
(*                                                                         *)
(* One action is one step the rest of the system can tell apart: preFunc   *)
(* is atomic; injectFunc is split where a crash would show, around the     *)
(* write of the record, its flush and the corruption of the register.      *)
(***************************************************************************)
EXTENDS Integers, Sequences, FiniteSets, CommonFaultInjectors

CONSTANTS
  Inst,        \* LLFI indexes of the instrumented static instructions
  Cycles,      \* opcodecyclearray at the instruction's opcode, -1 if unknown
  RegNum,      \* total_reg_target_num the pass passes for the instruction
  RegCalls,    \* the my_reg_index of its calls, in the order they run
  Width,       \* size of a target register in bits
  Values,      \* the contents a target register may have (sets of bits)
  ConfigFile,  \* the contents llfi.config.runtime.txt may have
  MaxDyn       \* bound on the dynamic instructions a program executes

Unset == -1    \* the value that says an option is not in the file
None  == 0     \* no instruction: LLFI indexes start from 1

Unregistered == "unregistered"   \* any fi_type the registry lacks
FiType  == RegisteredInjectors \cup {Unregistered}
Cycle   == Nat \ {0}
Bit     == 0 .. Width - 1

(* The next cycles the array of struct config has room for.  The parser    *)
(* does not count them; the driver writes fewer.                           *)
MULTIPLE_CYCLE_LENGTH == 100

(* The options of the file that matter here, with the values the parser's  *)
(* assertions let through; ok is FALSE for a file that is missing or names *)
(* an unknown option.                                                      *)
ConfigOptions ==
  [ok : BOOLEAN, fi_type : FiType, fi_cycle : Cycle \cup {Unset},
   fi_index : Nat \cup {Unset}, fi_reg_index : Nat \cup {Unset},
   fi_bit : Nat \cup {Unset}, fi_num_bits : Nat \cup {Unset},
   fi_second_cycle : Cycle \cup {Unset}, fi_next_cycles : Seq(Cycle)]

(* Every opcode of Instruction.def weighs 1; one it does not list weighs   *)
(* -1.  The pass puts at least one call around an instruction it           *)
(* instruments, and numbers registers below the total it passes.           *)
ASSUME InstAssumption  == Inst \subseteq Nat \ {None}
ASSUME CycleAssumption == Cycles \in [Inst -> {-1, 1}]
ASSUME RegAssumption   ==
  /\ RegNum \in [Inst -> Nat \ {0}]
  /\ RegCalls \in [Inst -> Seq(Nat)]
  /\ \A i \in Inst : /\ RegCalls[i] # << >>
                     /\ \A k \in 1 .. Len(RegCalls[i]) : RegCalls[i][k] < RegNum[i]
ASSUME ValueAssumption == /\ Width \in Nat \ {0}
                          /\ Values \subseteq SUBSET Bit
ASSUME FileAssumption  ==
  /\ ConfigFile \subseteq ConfigOptions
  /\ \A f \in ConfigFile : Len(f.fi_next_cycles) <= MULTIPLE_CYCLE_LENGTH
ASSUME BoundAssumption == MaxDyn \in Nat

VARIABLES
  phase,       \* where the process is, see Phase
  cfgFile,     \* llfi.config.runtime.txt, written before the process starts
  config,      \* the static struct config
  curr_cycle,  \* cycle number of the next instruction to be counted
  fiFlag,      \* whether injections are on
  injectedInCurrInst,  \* is_fault_injected_in_curr_dyn_inst
  start_tracing_flag,  \* what InstTraceLib.c is told
  cur,         \* the instruction being executed, or None
  call,        \* which of its calls is next
  value,       \* tmploc: the register of the call being served
  original,    \* what that register held before injectFunc
  score_board, \* bits injectFunc has already picked
  runs,        \* iterations of injectFunc's loop
  fi_bit,      \* the bit of this iteration
  fi_cycle_to_print,   \* config.fi_cycle when injectFunc was entered
  buffered,    \* records in the stdio buffer of injectedfaultsFile
  recorded,    \* records on disk in llfi.stat.fi.injectedfaults.txt
  \* history of the run, which the code does not keep
  trace,       \* instructions executed and counted, in order
  hits,        \* registers preFunc selected
  corrupted    \* bits injectFaultImpl changed

libVars  == <<config, curr_cycle, fiFlag, injectedInCurrInst, start_tracing_flag>>
loopVars == <<value, original, score_board, runs, fi_bit, fi_cycle_to_print>>
fileVars == <<buffered, recorded>>
progVars == <<phase, cur, call, trace>>
vars == <<libVars, loopVars, fileVars, progVars, cfgFile, hits, corrupted>>

Phase == {"boot", "run", "call", "inject", "flush", "corrupt", "exited", "aborted",
          "killed"}
TracingFlag == {"golden", "init", "fault_inserted"}

-----------------------------------------------------------------------------
(* The struct after _parseLLFIConfigFile read f over the static defaults:  *)
(* fi_cycle, when given, wins over fi_index, and fi_num_bits defaults to 1. *)
Parsed(f) ==
  [fi_type |-> f.fi_type,
   fi_accordingto_cycle |-> f.fi_cycle # Unset,
   fi_cycle |-> f.fi_cycle,
   fi_index |-> f.fi_index,
   fi_reg_index |-> f.fi_reg_index,
   fi_bit |-> f.fi_bit,
   fi_num_bits |-> IF f.fi_num_bits = Unset THEN 1 ELSE f.fi_num_bits,
   fi_second_cycle |-> f.fi_second_cycle,
   fi_next_cycles |-> f.fi_next_cycles]

Defaults == [fi_type |-> "bitflip", fi_accordingto_cycle |-> FALSE,
             fi_cycle |-> Unset, fi_index |-> Unset, fi_reg_index |-> Unset,
             fi_bit |-> Unset, fi_num_bits |-> 1, fi_second_cycle |-> Unset,
             fi_next_cycles |-> << >>]

Init ==
  /\ phase = "boot"
  /\ cfgFile \in ConfigFile
  /\ config = Defaults
  /\ curr_cycle = 1
  /\ fiFlag = 1
  /\ injectedInCurrInst = FALSE
  /\ start_tracing_flag = "golden"
  /\ cur = None /\ call = 0
  /\ value = {} /\ original = {} /\ score_board = {}
  /\ runs = 0 /\ fi_bit = 0 /\ fi_cycle_to_print = Unset
  /\ buffered = << >> /\ recorded = << >>
  /\ trace = << >> /\ hits = << >> /\ corrupted = << >>

(* initInjections, called on entry of main. *)
InitInjections ==
  /\ phase = "boot"
  /\ IF cfgFile.ok
       THEN /\ config' = Parsed(cfgFile)
            /\ start_tracing_flag' = "init"
            /\ phase' = "run"
       ELSE /\ phase' = "exited"
            /\ UNCHANGED <<config, start_tracing_flag>>
  /\ UNCHANGED <<curr_cycle, fiFlag, injectedInCurrInst, cur, call, trace>>
  /\ UNCHANGED <<loopVars, fileVars, cfgFile, hits, corrupted>>

-----------------------------------------------------------------------------
(* The program reaches an instrumented instruction. *)
BeginInst(i) ==
  /\ phase = "run"
  /\ Len(trace) < MaxDyn
  /\ cur' = i /\ call' = 1 /\ phase' = "call"
  /\ UNCHANGED <<libVars, loopVars, fileVars, cfgFile, trace, hits, corrupted>>

(* The call being served returns: the next call of the instruction, or     *)
(* the instruction has executed.  It counts if preFunc got past its early  *)
(* returns.                                                                *)
Counted(i) == Cycles[i] >= 0 /\ fiFlag = 1

CallReturns ==
  IF call < Len(RegCalls[cur])
    THEN /\ call' = call + 1 /\ phase' = "call"
         /\ UNCHANGED <<cur, trace>>
    ELSE /\ call' = 0 /\ cur' = None /\ phase' = "run"
         /\ trace' = IF Counted(cur) THEN Append(trace, cur) ELSE trace

MyRegIndex == RegCalls[cur][call]

(* preFunc's early returns: unknown opcode, injections turned off. *)
PreFuncSkips ==
  /\ phase = "call"
  /\ ~Counted(cur)
  /\ CallReturns
  /\ UNCHANGED <<libVars, loopVars, fileVars, cfgFile, hits, corrupted>>

(* Is the fault due in the current instruction? *)
InstSelected ==
  IF config.fi_accordingto_cycle
    THEN config.fi_cycle \in curr_cycle .. (curr_cycle + Cycles[cur] - 1)
    ELSE config.fi_index = cur

(* Drawing lots among the registers left: the r-th of n is taken with      *)
(* probability 1 / (n - r), the last one for certain.                      *)
DrawAmongAll(r, n) ==   \* mutant: 1 / n for the last register too
  IF config.fi_reg_index >= 0 THEN {r = config.fi_reg_index} ELSE BOOLEAN

Draw(r, n) ==
  IF config.fi_reg_index >= 0 THEN {r = config.fi_reg_index}
  ELSE IF r = n - 1 THEN {TRUE} ELSE BOOLEAN

(* The flag as the call finds it: the call for register 0 resets it. *)
FlagNotTested == FALSE   \* mutant: the lots are drawn again after a selection

AlreadyInjected == MyRegIndex # 0 /\ injectedInCurrInst

Selections ==
  IF InstSelected /\ ~AlreadyInjected THEN Draw(MyRegIndex, RegNum[cur]) ELSE {FALSE}

CycleAfterEveryCall == curr_cycle + Cycles[cur]   \* mutant: one cycle per register

CycleAfterCall ==
  curr_cycle + (IF MyRegIndex = RegNum[cur] - 1 THEN Cycles[cur] ELSE 0)

(* preFunc on a known opcode with injections on.  It selects the register, *)
(* and the generated function calls injectFunc on what it stored ...       *)
PreFuncSelects ==
  /\ phase = "call"
  /\ Counted(cur)
  /\ TRUE \in Selections
  /\ phase' = "inject"
  /\ injectedInCurrInst' = TRUE
  /\ curr_cycle' = CycleAfterCall
  /\ start_tracing_flag' = "fault_inserted"
  /\ fi_cycle_to_print' = config.fi_cycle
  /\ score_board' = {} /\ runs' = 0
  /\ \E v \in Values : value' = v /\ original' = v
  /\ hits' = Append(hits, [at |-> Len(trace) + 1, index |-> cur, reg |-> MyRegIndex])
  /\ UNCHANGED <<config, fiFlag, fi_bit, fileVars, cur, call, trace, cfgFile, corrupted>>

(* ... or it does not, and the register goes back as it came. *)
PreFuncDeclines ==
  /\ phase = "call"
  /\ Counted(cur)
  /\ FALSE \in Selections
  /\ CallReturns
  /\ injectedInCurrInst' = AlreadyInjected
  /\ curr_cycle' = CycleAfterCall
  /\ UNCHANGED <<config, fiFlag, start_tracing_flag, loopVars, fileVars, cfgFile>>
  /\ UNCHANGED <<hits, corrupted>>

PreFunc == PreFuncSkips \/ PreFuncSelects \/ PreFuncDeclines

-----------------------------------------------------------------------------
(* The loop of injectFunc goes round once for every bit to corrupt, and    *)
(* never more often than the register has bits.                            *)
AsManyAsAsked == runs < config.fi_num_bits   \* mutant: runs < size is missing

MoreBits == runs < config.fi_num_bits /\ runs < Width

(* The bits an iteration may pick: the one the file gives, if the register *)
(* has it, or a random one the score board does not have.                  *)
AnyBit ==          \* mutant: the score board is not consulted
  IF config.fi_bit >= 0 THEN {config.fi_bit} ELSE Bit

NotAsserted ==     \* mutant: the assertion fi_bit < size is missing
  IF config.fi_bit >= 0 THEN {config.fi_bit} ELSE 0 .. Width \ score_board

PickableBits ==
  IF config.fi_bit >= 0 THEN {config.fi_bit} \cap Bit ELSE Bit \ score_board

(* The assertion fails: the file's bit is past the end of this register,   *)
(* or rand() returned RAND_MAX, which scales to size itself.               *)
BitTooLarge ==
  /\ phase = "inject"
  /\ MoreBits
  /\ config.fi_bit \notin Bit
  /\ phase' = "aborted"
  /\ buffered' = << >>
  /\ UNCHANGED <<libVars, loopVars, recorded, cur, call, trace, cfgFile, hits, corrupted>>

(* Pick a bit and write the record of it. *)
PrintRecord ==
  /\ phase = "inject"
  /\ MoreBits
  /\ \E b \in PickableBits :
       /\ fi_bit' = b
       /\ score_board' = IF config.fi_bit >= 0 THEN score_board ELSE score_board \cup {b}
       /\ buffered' = Append(buffered, [cycle |-> fi_cycle_to_print, index |-> cur,
                                        reg |-> MyRegIndex, bit |-> b])
  /\ phase' = "flush"
  /\ UNCHANGED <<libVars, value, original, runs, fi_cycle_to_print, recorded>>
  /\ UNCHANGED <<cur, call, trace, cfgFile, hits, corrupted>>

(* fflush: what is buffered reaches the file. *)
NoFlush ==         \* mutant: the record stays in the buffer
  /\ phase = "flush"
  /\ phase' = "corrupt"
  /\ UNCHANGED <<libVars, loopVars, fileVars, cur, call, trace, cfgFile, hits, corrupted>>

FlushRecord ==
  /\ phase = "flush"
  /\ recorded' = recorded \o buffered
  /\ buffered' = << >>
  /\ phase' = "corrupt"
  /\ UNCHANGED <<libVars, loopVars, cur, call, trace, cfgFile, hits, corrupted>>

(* The next location becomes the current one: the second cycle if there    *)
(* is one left, otherwise the first of the next cycles not yet marked -1.  *)
NextNotMarked ==   \* mutant: fi_next_cycles[index] = -1 is missing
  IF config.fi_second_cycle # Unset
    THEN [config EXCEPT !.fi_cycle = config.fi_second_cycle,
                        !.fi_second_cycle = Unset]
  ELSE IF config.fi_next_cycles # << >>
    THEN [config EXCEPT !.fi_cycle = Head(config.fi_next_cycles)]
  ELSE config

Advanced ==
  IF config.fi_second_cycle # Unset
    THEN [config EXCEPT !.fi_cycle = config.fi_second_cycle,
                        !.fi_second_cycle = Unset]
  ELSE IF config.fi_next_cycles # << >>
    THEN [config EXCEPT !.fi_cycle = Head(config.fi_next_cycles),
                        !.fi_next_cycles = Tail(config.fi_next_cycles)]
  ELSE config

(* The rest of the iteration: advance to the next location, then change    *)
(* the bit; an injector that is not registered ends the process.           *)
Corrupt ==
  /\ phase = "corrupt"
  /\ config' = Advanced
  /\ IF Known(config.fi_type)
       THEN /\ value' = InjectFaultImpl(config.fi_type, value, fi_bit)
            /\ corrupted' = Append(corrupted, [cycle |-> hits[Len(hits)].at, index |-> cur,
                                               reg |-> MyRegIndex, bit |-> fi_bit])
            /\ runs' = runs + 1
            /\ phase' = "inject"
       ELSE /\ phase' = "exited"
            /\ UNCHANGED <<value, corrupted, runs>>
  /\ UNCHANGED <<curr_cycle, fiFlag, injectedInCurrInst, start_tracing_flag>>
  /\ UNCHANGED <<original, score_board, fi_bit, fi_cycle_to_print, fileVars>>
  /\ UNCHANGED <<cur, call, trace, cfgFile, hits>>

(* The loop is over and the generated function returns the register. *)
InjectReturns ==
  /\ phase = "inject"
  /\ ~MoreBits
  /\ CallReturns
  /\ UNCHANGED <<libVars, loopVars, fileVars, cfgFile, hits, corrupted>>

InjectFunc == BitTooLarge \/ PrintRecord \/ FlushRecord \/ Corrupt \/ InjectReturns

-----------------------------------------------------------------------------
(* The program's own calls of the runtime, between instructions. *)
TurnOffInjections ==
  /\ phase = "run" /\ fiFlag = 1
  /\ fiFlag' = 0
  /\ UNCHANGED <<config, curr_cycle, injectedInCurrInst, start_tracing_flag>>
  /\ UNCHANGED <<loopVars, fileVars, progVars, cfgFile, hits, corrupted>>

TurnOnInjections ==
  /\ phase = "run" /\ fiFlag = 0
  /\ fiFlag' = 1
  /\ UNCHANGED <<config, curr_cycle, injectedInCurrInst, start_tracing_flag>>
  /\ UNCHANGED <<loopVars, fileVars, progVars, cfgFile, hits, corrupted>>

(* postInjections before an exit of the program: fclose writes the buffer. *)
PostInjections ==
  /\ phase = "run"
  /\ recorded' = recorded \o buffered
  /\ buffered' = << >>
  /\ phase' = "exited"
  /\ UNCHANGED <<libVars, loopVars, cur, call, trace, cfgFile, hits, corrupted>>

(* The process dies where it stands: what stdio buffered is lost. *)
Kill ==
  /\ phase \in Phase \ {"exited", "aborted", "killed"}
  /\ phase' = "killed"
  /\ buffered' = << >>
  /\ UNCHANGED <<libVars, loopVars, recorded, cur, call, trace, cfgFile, hits, corrupted>>

(* The process is gone. *)
Ended == phase \in {"exited", "aborted", "killed"} /\ UNCHANGED vars

Runtime == InitInjections \/ PreFunc \/ InjectFunc

Next ==
  \/ Runtime
  \/ \E i \in Inst : BeginInst(i)
  \/ TurnOffInjections \/ TurnOnInjections \/ PostInjections
  \/ Kill
  \/ Ended

Spec == Init /\ [][Next]_vars

(* A call of the runtime that has started is computation: it goes on       *)
(* unless the process is killed.  That rand() returns RAND_MAX is not owed *)
(* to anyone, and the program owes nothing.                                *)
InjectFuncGoesOn ==
  \/ config.fi_bit # Unset /\ BitTooLarge
  \/ PrintRecord \/ FlushRecord \/ Corrupt \/ InjectReturns

FairSpec == Spec /\ WF_vars(PreFunc) /\ WF_vars(InjectFuncGoesOn)

-----------------------------------------------------------------------------
HitRecord == [at : Cycle, index : Inst, reg : Nat]
FaultRecord == [cycle : Cycle \cup {Unset}, index : Inst, reg : Nat, bit : Bit]

ConfigType ==
  [fi_type : FiType, fi_accordingto_cycle : BOOLEAN, fi_cycle : Cycle \cup {Unset},
   fi_index : Nat \cup {Unset}, fi_reg_index : Nat \cup {Unset},
   fi_bit : Nat \cup {Unset}, fi_num_bits : Nat,
   fi_second_cycle : Cycle \cup {Unset}, fi_next_cycles : Seq(Cycle)]

(* Type invariant; in the middle of an instruction cur and call name one   *)
(* of its calls, and injectFunc runs only for a register preFunc selected. *)
TypeOK ==
  /\ phase \in Phase
  /\ cfgFile \in ConfigFile
  /\ config \in ConfigType
  /\ curr_cycle \in Cycle
  /\ fiFlag \in {0, 1}
  /\ injectedInCurrInst \in BOOLEAN
  /\ start_tracing_flag \in TracingFlag
  /\ cur \in Inst \cup {None}
  /\ call \in Nat
  /\ phase \in {"call", "inject", "flush", "corrupt"} =>
       cur \in Inst /\ call \in 1 .. Len(RegCalls[cur])
  /\ phase \in {"inject", "flush", "corrupt"} => hits # << >>
  /\ phase \in {"flush", "corrupt"} => runs < Width
  /\ value \in SUBSET Bit
  /\ original \in SUBSET Bit
  /\ score_board \in SUBSET Bit
  /\ runs \in 0 .. Width
  /\ fi_bit \in Bit
  /\ fi_cycle_to_print \in Cycle \cup {Unset}
  /\ buffered \in Seq(FaultRecord)
  /\ recorded \in Seq(FaultRecord)
  /\ trace \in Seq(Inst)
  /\ hits \in Seq(HitRecord)
  /\ corrupted \in Seq(FaultRecord)

-----------------------------------------------------------------------------
(* The cycles the file plans faults at, in the order the library takes     *)
(* them up.                                                                *)
Schedule(f) ==
  <<f.fi_cycle>>
    \o (IF f.fi_second_cycle # Unset THEN <<f.fi_second_cycle>> ELSE << >>)
    \o f.fi_next_cycles

(* The register lists of an instruction lie on one side of it, all its     *)
(* destination or all its sources, and every register got its call.  Then  *)
(* the calls come in the order of the register numbers.                    *)
OneSided(i) ==
  /\ Len(RegCalls[i]) = RegNum[i]
  /\ \A k \in 1 .. RegNum[i] : RegCalls[i][k] = k - 1

(* What the driver writes for faults at given cycles: one bit each, cycles *)
(* that increase, and a register that every instruction has, if it names   *)
(* one.                                                                    *)
PlannedFile(f) ==
  /\ f.fi_cycle # Unset
  /\ f.fi_num_bits \in {Unset, 1}
  /\ \A j \in 1 .. Len(Schedule(f)) - 1 : Schedule(f)[j] < Schedule(f)[j + 1]
  /\ \A i \in Inst : f.fi_reg_index < RegNum[i]

(* No dynamic instruction has two of its registers selected, however many  *)
(* faults are planned: preFunc's flag survives the calls of one            *)
(* instruction and is reset by the first call of the next.                 *)
OneRegisterPerInstruction ==
  \A j, k \in 1 .. Len(hits) : j # k => hits[j].at # hits[k].at

(* Between instructions the cycle counter agrees with the instructions     *)
(* executed while injections were on, whichever registers were called and  *)
(* whatever was injected: a cycle number means the same in every run.      *)
CycleCountExact == phase = "run" => curr_cycle = Len(trace) + 1

(* A register is corrupted only after the record of that bit is in the     *)
(* file, and the record names the bit, the register and, for faults placed *)
(* by cycle, the cycle at which it really happened: also when the loop has *)
(* already moved on to the next location, and whenever the process dies.   *)
RecordedFirst ==
  /\ Len(corrupted) <= Len(recorded)
  /\ \A k \in 1 .. Len(corrupted) :
       recorded[k] = [corrupted[k] EXCEPT
                        !.cycle = IF config.fi_accordingto_cycle THEN @ ELSE Unset]

(* When injectFunc with random bits returns, it has picked fi_num_bits     *)
(* different bits, or all of them when the register has fewer, and has     *)
(* inverted, cleared or set exactly these, as fi_type says: no bit is      *)
(* picked twice and no other bit of the register changes.                  *)
AskedBits == IF config.fi_num_bits < Width THEN config.fi_num_bits ELSE Width

ValueStruck(fi_type, old, bits) ==
  CASE fi_type = "bitflip"    -> (old \ bits) \cup (bits \ old)
    [] fi_type = "stuck_at_0" -> old \ bits
    [] fi_type = "stuck_at_1" -> old \cup bits

BitsCorrupted ==
  phase \in {"run", "call"} /\ hits # << >> /\ config.fi_bit = Unset
    /\ Known(config.fi_type)
  => /\ Cardinality(score_board) = AskedBits
     /\ value = ValueStruck(config.fi_type, original, score_board)

(* In index mode every instance of the instruction that ran while          *)
(* injections were on had one register selected, and no other instruction  *)
(* did (the comment in preFunc: "inject into every runtime instance").     *)
EveryInstance ==
  phase = "run" /\ ~config.fi_accordingto_cycle =>
    {hits[k].at : k \in 1 .. Len(hits)} =
      {k \in 1 .. Len(trace) : trace[k] = config.fi_index}

(* What is planned and what was done, as FaultPlan sees it; a file that    *)
(* plans no faults in this form is an empty plan.                          *)
Plan == INSTANCE FaultPlan WITH
  now  <- IF PlannedFile(cfgFile) THEN curr_cycle ELSE 1,
  plan <- IF PlannedFile(cfgFile)
            THEN SubSeq(Schedule(cfgFile), Len(hits) + 1, Len(Schedule(cfgFile)))
            ELSE << >>,
  done <- IF PlannedFile(cfgFile) THEN [k \in 1 .. Len(hits) |-> hits[k].at] ELSE << >>

(* The library carries a plan out: faults strike at the planned cycles and *)
(* nowhere else, in order, once each, and the program never gets past a    *)
(* planned cycle without its fault, for the files of PlannedFile (the plan *)
(* of any other one is taken to be empty).                                 *)
PlanCarriedOut == Plan!Spec

(* injectFunc always ends: its search for a bit not yet picked never runs  *)
(* out of bits, although fi_num_bits may exceed the width.                 *)
InjectFuncEnds == phase = "inject" ~> phase \notin {"inject", "flush", "corrupt"}

-----------------------------------------------------------------------------
(* The invariants behind the proofs (FaultInjectionLib_proofs).            *)

OneSidedProgram == \A i \in Inst : OneSided(i)

(* injectFunc is running for the current call. *)
Serving == phase \in {"inject", "flush", "corrupt"}

(* The counter is one ahead of the instructions executed, and the call for *)
(* the last register has already moved it on.                              *)
CountInv ==
  /\ phase \in {"boot", "run", "call"} => curr_cycle = Len(trace) + 1
  /\ Serving => Counted(cur)
  /\ Serving /\ call < RegNum[cur] => curr_cycle = Len(trace) + 1
  /\ Serving /\ call = RegNum[cur] => curr_cycle = Len(trace) + 2

(* A hit in the current instruction is remembered by preFunc's flag.       *)
HitInv ==
  /\ phase = "boot" => hits = << >>
  /\ \A k \in 1 .. Len(hits) : hits[k].at <= Len(trace) + 1
  /\ \A k \in 1 .. Len(hits) : hits[k].at = Len(trace) + 1 =>
       /\ phase # "run"
       /\ phase = "call" => call > 1 /\ Counted(cur) /\ injectedInCurrInst
  /\ Serving => injectedInCurrInst
  /\ OneRegisterPerInstruction

(* Further locations are planned only from a first one: injectfault.py     *)
(* fails on any other option (RuntimeConfig).                              *)
IndexAlone ==
  \A f \in ConfigFile : f.fi_cycle = Unset =>
    f.fi_second_cycle = Unset /\ f.fi_next_cycles = << >>

(* In index mode the file's register, if it names one, is a register of    *)
(* the instruction it names.                                               *)
IndexHasRegister ==
  \A f \in ConfigFile : f.fi_cycle = Unset /\ f.fi_index \in Inst =>
    f.fi_reg_index < RegNum[f.fi_index]

(* Moving on to the next location changes the locations and nothing else.  *)
ConfigInv ==
  phase \in {"run", "call", "inject", "flush", "corrupt"} =>
    LET c == Parsed(cfgFile) IN
      /\ config.fi_type = c.fi_type /\ config.fi_index = c.fi_index
      /\ config.fi_accordingto_cycle = c.fi_accordingto_cycle
      /\ config.fi_reg_index = c.fi_reg_index
      /\ config.fi_bit = c.fi_bit /\ config.fi_num_bits = c.fi_num_bits

CurrentRecord ==
  [cycle |-> fi_cycle_to_print, index |-> cur, reg |-> MyRegIndex, bit |-> fi_bit]

(* The record of the bit being served is one ahead, in the buffer and then *)
(* in the file; the cycle it gives is that of the last hit.                *)
RecordInv ==
  /\ phase = "boot" => recorded = << >>
  /\ phase \in {"boot", "run", "call", "inject"} =>
       Len(recorded) = Len(corrupted) /\ buffered = << >>
  /\ phase = "flush" => Len(recorded) = Len(corrupted) /\ buffered = <<CurrentRecord>>
  /\ phase = "corrupt" =>
       /\ Len(recorded) = Len(corrupted) + 1 /\ buffered = << >>
       /\ recorded[Len(recorded)] = CurrentRecord
  /\ Serving =>
       fi_cycle_to_print = IF config.fi_accordingto_cycle THEN hits[Len(hits)].at ELSE Unset
  /\ ~config.fi_accordingto_cycle =>
       /\ config.fi_cycle = Unset /\ config.fi_second_cycle = Unset
       /\ config.fi_next_cycles = << >>
  /\ RecordedFirst

(* The score board has the bits struck so far, and with a record under way *)
(* the bit that is next.                                                   *)
BitsInv ==
  /\ phase = "boot" => hits = << >>
  /\ config.fi_bit = Unset /\ Known(config.fi_type) =>
       /\ phase = "inject" => /\ value = ValueStruck(config.fi_type, original, score_board)
                              /\ Cardinality(score_board) = runs
                              /\ runs <= config.fi_num_bits
       /\ phase \in {"flush", "corrupt"} =>
            /\ fi_bit \in score_board
            /\ value = ValueStruck(config.fi_type, original, score_board \ {fi_bit})
            /\ Cardinality(score_board) = runs + 1 /\ runs < config.fi_num_bits
       /\ BitsCorrupted

(* Index mode: the instances before the current instruction have had their *)
(* hit and no others, and the current one has had it once its register was *)
(* called.                                                                 *)
HitCyclesSet == {hits[k].at : k \in 1 .. Len(hits)}
Instances == {k \in 1 .. Len(trace) : trace[k] = config.fi_index}
HitNow == Counted(cur) /\ call > 1 /\ injectedInCurrInst

InstanceInv ==
  /\ phase = "boot" => hits = << >> /\ trace = << >>
  /\ ~config.fi_accordingto_cycle =>
      /\ phase = "run" => HitCyclesSet = Instances
      /\ phase \in {"call", "inject", "flush", "corrupt"} /\ cur = config.fi_index =>
           config.fi_reg_index < RegNum[cur]
      /\ phase = "call" =>
           /\ HitCyclesSet = Instances \cup (IF HitNow THEN {Len(trace) + 1} ELSE {})
           /\ HitNow => cur = config.fi_index
           /\ cur = config.fi_index /\ Counted(cur) /\ config.fi_reg_index >= 0
                 /\ config.fi_reg_index < call - 1 => HitNow
      /\ Serving => /\ cur = config.fi_index
                    /\ HitCyclesSet = Instances \cup {Len(trace) + 1}

(* The cycles the configuration still holds after the current one, and how *)
(* many of the schedule the library has taken up: one more than the hits,  *)
(* except while injectFunc has not yet moved on from the last hit.         *)
Queue ==
  (IF config.fi_second_cycle # Unset THEN <<config.fi_second_cycle>> ELSE << >>)
    \o config.fi_next_cycles

Ahead == phase \in {"flush", "corrupt"} \/ (phase = "inject" /\ runs = 0)

Taken ==
  IF Ahead \/ Len(hits) = Len(Schedule(cfgFile)) THEN Len(hits) ELSE Len(hits) + 1

HitsPlanned ==
  /\ Len(hits) <= Len(Schedule(cfgFile))
  /\ \A k \in 1 .. Len(hits) : hits[k].at = Schedule(cfgFile)[k]

RestHeld ==
  /\ config.fi_cycle = Schedule(cfgFile)[Taken]
  /\ Len(Queue) = Len(Schedule(cfgFile)) - Taken
  /\ \A j \in 1 .. Len(Queue) : Queue[j] = Schedule(cfgFile)[Taken + j]

NonePassed ==
  Len(hits) < Len(Schedule(cfgFile)) => Schedule(cfgFile)[Len(hits) + 1] >= curr_cycle

(* If the instruction under way is due, the file's register is to come.    *)
RegisterAhead ==
  Counted(cur) /\ ~HitNow /\ config.fi_cycle = curr_cycle /\ config.fi_reg_index >= 0
    => call - 1 <= config.fi_reg_index

(* A plan: the hits so far are its first cycles, the configuration holds   *)
(* the rest, no cycle of it has been passed, and injectFunc's loop goes    *)
(* round once for each.                                                    *)
ScheduleInv ==
  PlannedFile(cfgFile) =>
    /\ phase = "boot" => hits = << >> /\ trace = << >>
    /\ phase \in {"run", "call", "inject", "flush", "corrupt"} =>
         HitsPlanned /\ RestHeld /\ NonePassed
    /\ phase = "inject" => runs \in {0, 1}
    /\ phase \in {"flush", "corrupt"} => runs = 0
    /\ Serving \/ (phase = "call" /\ HitNow) =>
         Len(hits) > 0 /\ hits[Len(hits)].at = Len(trace) + 1
    /\ phase = "call" => RegisterAhead

-----------------------------------------------------------------------------
(* What the documents say, where the code does something else.             *)

(* architecture.md: index mode "injects the first dynamic occurrence of    *)
(* that static instruction".  Every register that preFunc selects is one   *)
(* of the first instance of the instruction.                               *)
FirstOccurrenceOnly ==
  phase = "run" /\ ~config.fi_accordingto_cycle =>
    \A h \in 1 .. Len(hits) :
      \A k \in 1 .. Len(trace) : trace[k] = config.fi_index => hits[h].at <= k

(* injectFunc's comment: several bits in each of several locations.  Once  *)
(* a planned cycle has been executed, its fault has been injected.         *)
EveryLocationInjected ==
  phase = "run" /\ config.fi_accordingto_cycle =>
    \A k \in 1 .. Len(Schedule(cfgFile)) :
      Schedule(cfgFile)[k] <= Len(trace) =>
        \E h \in 1 .. Len(hits) : hits[h].at = Schedule(cfgFile)[k]
=============================================================================
