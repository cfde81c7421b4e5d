------------------------ MODULE MLFaultInjectionLib -------------------------
(***************************************************************************)
(* The ML runtime, runtime_lib/MLFaultInjectionLib.cpp: a second           *)
(* implementation of initInjections, preFunc, injectFunc and               *)
(* postInjections, linked instead of FaultInjectionLib.c when              *)
(* instrument.py gets --use-ml-specific-rt.  The driver does not know      *)
(* which one it runs, and writes the same file for both.                   *)
(*                                                                         *)
(* preFunc ignores its arguments: a cycle of this library is one call, so  *)
(* one register, where a cycle of the other one is one instruction.  The   *)
(* program is any sequence of calls, also after postInjections (handlers   *)
(* of atexit, destructors), and may be killed at any point.                *)
(***************************************************************************)
EXTENDS Integers, Sequences, FiniteSets

CONSTANTS
  MLConfigFile,  \* what llfi.config.runtime.txt may hold
  Size,          \* bits of a target register
  MaxPreFunc     \* bound on the calls of preFunc

NoOption == -1   \* the file does not have the option
MLCycle  == Nat \ {0}

(* The options of the driver's file; ok is FALSE when there is no file,    *)
(* unknown lists the options this library does not know, ml_layer_number   *)
(* is the layer of fi_cycle in the profile of an ML model.                 *)
MLOptions ==
  [ok : BOOLEAN, fi_type : STRING, fi_cycle : MLCycle \cup {NoOption},
   fi_next_cycles : Seq(MLCycle), fi_max_multiple : MLCycle \cup {NoOption},
   ml_layer_number : Nat \cup {NoOption},
   unknown : SUBSET {"fi_index", "fi_reg_index", "fi_bit", "fi_num_bits",
                     "fi_second_cycle"}]

ASSUME MLFileAssumption  == MLConfigFile \subseteq MLOptions
ASSUME MLSizeAssumption  == Size \in Nat \ {0}
ASSUME MLBoundAssumption == MaxPreFunc \in Nat

VARIABLES
  mlPhase,         \* where the process is, see MLPhase
  mlFile,          \* the file
  fi_cycle,        \* LLTFI_config.fi_cycle, sorted
  fi_max_multiple, \* LLTFI_config.fi_max_multiple
  CurrentCycle,    \* LLTFI_CurrentCycle
  FICycleIndex,    \* LLTFI_FICycleIndex, the next element of fi_cycle from 0
  doFI,            \* LLTFI_doFI
  closed,          \* postInjections closed injectedfaultsFile
  mlRecorded,      \* records in llfi.stat.fi.injectedfaults.txt
  \* history
  calls,           \* calls of preFunc
  mlHits,          \* those that returned true
  mlCorrupted      \* bits injectFunc flipped

configVars == <<mlFile, fi_cycle, fi_max_multiple>>
countVars  == <<CurrentCycle, FICycleIndex, calls, mlHits>>
mlVars == <<mlPhase, configVars, countVars, doFI, closed, mlRecorded, mlCorrupted>>

MLPhase == {"boot", "run", "inject", "print", "exited", "aborted", "killed"}

MLInit ==
  /\ mlPhase = "boot" /\ mlFile \in MLConfigFile
  /\ fi_cycle = << >> /\ fi_max_multiple = 0
  /\ CurrentCycle = 0 /\ FICycleIndex = 0 /\ calls = 0 /\ mlHits = << >>
  /\ doFI = TRUE /\ closed = FALSE
  /\ mlRecorded = << >> /\ mlCorrupted = << >>

-----------------------------------------------------------------------------
(* fi_cycle and fi_next_cycle are pushed in the order of the file ...      *)
Pushed(f) == (IF f.fi_cycle = NoOption THEN << >> ELSE <<f.fi_cycle>>) \o f.fi_next_cycles

(* ... and sorted.                                                         *)
Times(s, c) == Cardinality({k \in DOMAIN s : s[k] = c})

Sorted(s) ==
  {t \in [DOMAIN s -> {s[k] : k \in DOMAIN s}] :
     /\ \A j, k \in DOMAIN s : j < k => t[j] <= t[k]
     /\ \A k \in DOMAIN s : Times(t, s[k]) = Times(s, s[k])}

(* No file or an unknown option: exit(1).  No cycle, no fi_max_multiple, a *)
(* layer 0: the sanity checks abort (NoOption is also their "no layer").   *)
Rejected == ~mlFile.ok \/ mlFile.unknown # {}

OnlyCycles ==       \* mutant: assert(fi_max_multiple > 0) is missing
  Pushed(mlFile) = << >> \/ mlFile.ml_layer_number = 0

Insane == Pushed(mlFile) = << >> \/ mlFile.fi_max_multiple = NoOption
            \/ mlFile.ml_layer_number = 0

MLInitInjections ==
  /\ mlPhase = "boot"
  /\ IF Rejected \/ Insane
       THEN /\ mlPhase' = IF Rejected THEN "exited" ELSE "aborted"
            /\ UNCHANGED configVars
       ELSE /\ mlPhase' = "run"
            /\ fi_cycle' \in Sorted(Pushed(mlFile))
            /\ fi_max_multiple' = mlFile.fi_max_multiple
            /\ UNCHANGED mlFile
  /\ UNCHANGED <<countVars, doFI, closed, mlRecorded, mlCorrupted>>

(* CurrentCycle == fi_cycle[FICycleIndex] after the increment; past the    *)
(* end of the vector the comparison reads memory that may hold anything.   *)
CountedLate ==     \* mutant: the cycle is incremented after the comparison
  IF FICycleIndex < Len(fi_cycle) THEN {CurrentCycle = fi_cycle[FICycleIndex + 1]}
  ELSE BOOLEAN

IsFICycle ==
  IF FICycleIndex < Len(fi_cycle) THEN {CurrentCycle + 1 = fi_cycle[FICycleIndex + 1]}
  ELSE BOOLEAN

(* preFunc with injections off counts nothing ...                          *)
MLPreFuncOff ==
  /\ mlPhase = "run" /\ calls < MaxPreFunc /\ ~doFI
  /\ calls' = calls + 1
  /\ UNCHANGED <<mlPhase, configVars, CurrentCycle, FICycleIndex, mlHits, doFI, closed>>
  /\ UNCHANGED <<mlRecorded, mlCorrupted>>

(* ... or the cycle is not one of the plan ...                             *)
MLPreFuncDeclines ==
  /\ mlPhase = "run" /\ calls < MaxPreFunc /\ doFI
  /\ FALSE \in IsFICycle
  /\ CurrentCycle' = CurrentCycle + 1 /\ calls' = calls + 1
  /\ UNCHANGED <<mlPhase, configVars, FICycleIndex, mlHits, doFI, closed>>
  /\ UNCHANGED <<mlRecorded, mlCorrupted>>

(* ... or it is: the plan moves on, and fi_max_multiple faults end it.     *)
OneMore == FICycleIndex < fi_max_multiple     \* mutant: the index before the increment

StaysOn == FICycleIndex + 1 < fi_max_multiple

MLPreFuncSelects ==
  /\ mlPhase = "run" /\ calls < MaxPreFunc /\ doFI
  /\ TRUE \in IsFICycle
  /\ CurrentCycle' = CurrentCycle + 1 /\ calls' = calls + 1
  /\ FICycleIndex' = FICycleIndex + 1 /\ doFI' = StaysOn
  /\ mlHits' = Append(mlHits, calls + 1)
  /\ mlPhase' = "inject"
  /\ UNCHANGED <<configVars, closed, mlRecorded, mlCorrupted>>

(* injectFunc flips a bit; any other type fails its assertion ...          *)
MLInject ==
  /\ mlPhase = "inject"
  /\ IF mlFile.fi_type = "bitflip"
       THEN /\ \E b \in 0 .. Size - 1 : mlCorrupted' = Append(mlCorrupted, b)
            /\ mlPhase' = "print"
       ELSE mlPhase' = "aborted" /\ UNCHANGED mlCorrupted
  /\ UNCHANGED <<configVars, countVars, doFI, closed, mlRecorded>>

(* ... and then writes the record of it, and flushes it.                   *)
IndexForCycle == [cycle |-> FICycleIndex, bit |-> mlCorrupted[Len(mlCorrupted)]]
   \* mutant: the record has the number of the fault

Record == [cycle |-> CurrentCycle, bit |-> mlCorrupted[Len(mlCorrupted)]]

MLPrint ==
  /\ mlPhase = "print"
  /\ mlRecorded' = Append(mlRecorded, Record)
  /\ mlPhase' = "run"
  /\ UNCHANGED <<configVars, countVars, doFI, closed, mlCorrupted>>

(* postInjections closes the file and turns injections off.                *)
OnlyCloses ==              \* mutant: as in FaultInjectionLib.c
  /\ mlPhase = "run" /\ ~closed
  /\ closed' = TRUE
  /\ UNCHANGED <<mlPhase, configVars, countVars, doFI, mlRecorded, mlCorrupted>>

MLPostInjections ==
  /\ mlPhase = "run" /\ ~closed
  /\ closed' = TRUE /\ doFI' = FALSE
  /\ UNCHANGED <<mlPhase, configVars, countVars, mlRecorded, mlCorrupted>>

(* The program ends, or is killed.                                         *)
MLEnds ==
  /\ mlPhase \in {"boot", "run", "inject", "print"}
  /\ mlPhase' \in {"killed"} \cup (IF closed /\ mlPhase = "run" THEN {"exited"} ELSE {})
  /\ UNCHANGED <<configVars, countVars, doFI, closed, mlRecorded, mlCorrupted>>

MLEnded == mlPhase \in {"exited", "aborted", "killed"} /\ UNCHANGED mlVars

MLNext ==
  \/ MLInitInjections \/ MLPreFuncOff \/ MLPreFuncDeclines \/ MLPreFuncSelects
  \/ MLInject \/ MLPrint \/ MLPostInjections \/ MLEnds \/ MLEnded

MLSpec == MLInit /\ [][MLNext]_mlVars

-----------------------------------------------------------------------------
(* Type invariant; injectFunc runs only for a call that was selected.      *)
MLTypeOK ==
  /\ mlPhase \in MLPhase /\ mlFile \in MLOptions
  /\ fi_cycle \in Seq(MLCycle) /\ fi_max_multiple \in Nat
  /\ mlPhase \in {"run", "inject", "print"} => fi_max_multiple > 0
  /\ CurrentCycle \in Nat /\ FICycleIndex \in Nat /\ calls \in Nat
  /\ mlHits \in Seq(MLCycle)
  /\ doFI \in BOOLEAN /\ closed \in BOOLEAN
  /\ mlCorrupted \in Seq(0 .. Size - 1)
  /\ mlPhase = "print" => mlCorrupted # << >>
  /\ mlRecorded \in Seq([cycle : Nat, bit : 0 .. Size - 1])

(* The file has its cycles once each, and enough of them.                  *)
Regular ==
  /\ \A j, k \in 1 .. Len(fi_cycle) : j < k => fi_cycle[j] < fi_cycle[k]
  /\ fi_max_multiple <= Len(fi_cycle)

(* The plan that fi_max_multiple leaves of the cycles of the file.         *)
Planned == SubSeq(fi_cycle, 1, IF fi_max_multiple < Len(fi_cycle) THEN fi_max_multiple
                               ELSE Len(fi_cycle))

(* Faults strike at the planned calls, in their order and at no other call,*)
(* and none is passed over, if the file is regular.                        *)
MLPlanStruck ==
  Regular =>
    /\ Len(mlHits) <= Len(Planned)
    /\ \A k \in 1 .. Len(mlHits) : mlHits[k] = Planned[k]
    /\ ~closed => \A k \in 1 .. Len(Planned) : Planned[k] <= calls => k <= Len(mlHits)

(* There are never more faults than fi_max_multiple, whatever lies behind  *)
(* the vector when the file has fewer cycles (the driver stops at the end  *)
(* of the profile, and writes fi_max_multiple before it knows).            *)
MLNoMoreThanAsked == Len(mlHits) <= fi_max_multiple

(* The records are those of the bits flipped, with their calls, and lag    *)
(* behind by the one being injected at most: unlike the other runtime,     *)
(* which writes first, this one may die with a fault it did not record.    *)
MLRecordFollows ==
  /\ Len(mlCorrupted) \in {Len(mlRecorded), Len(mlRecorded) + 1}
  /\ Len(mlCorrupted) > Len(mlRecorded) => mlPhase \in {"print", "killed"}
  /\ \A k \in 1 .. Len(mlRecorded) :
       mlRecorded[k] = [cycle |-> mlHits[k], bit |-> mlCorrupted[k]]

(* Nothing is injected, and so nothing is written to the closed file,      *)
(* after postInjections, although instrumented code may still run.         *)
MLClosedForGood == mlPhase \in {"inject", "print"} => ~closed

-----------------------------------------------------------------------------
(* The invariants behind the proofs (MLFaultInjectionLib_proofs).          *)

(* While injections are on, CurrentCycle counts the calls and the plan is  *)
(* not yet carried out; they go off when it is, or when the file closes.   *)
PlanInv ==
  /\ FICycleIndex = Len(mlHits)
  /\ FICycleIndex <= fi_max_multiple
  /\ doFI => CurrentCycle = calls
  /\ doFI /\ fi_max_multiple > 0 => FICycleIndex < fi_max_multiple
  /\ doFI \/ closed \/ FICycleIndex = fi_max_multiple
  /\ closed => ~doFI
  /\ mlPhase = "boot" => /\ fi_cycle = << >> /\ fi_max_multiple = 0
                         /\ calls = 0 /\ mlHits = << >> /\ doFI

(* Of such a file, what was struck is a prefix, and what is next is ahead. *)
StruckInv ==
  Regular =>
    /\ \A k \in 1 .. Len(mlHits) : mlHits[k] = fi_cycle[k]
    /\ doFI /\ FICycleIndex < Len(fi_cycle) => calls < fi_cycle[FICycleIndex + 1]

(* The fault being served is the last one selected, at CurrentCycle.       *)
MLRecordInv ==
  /\ mlPhase \in {"boot", "run", "exited"} =>
       Len(mlHits) = Len(mlRecorded) /\ Len(mlCorrupted) = Len(mlRecorded)
  /\ mlPhase = "inject" =>
       Len(mlHits) = Len(mlRecorded) + 1 /\ Len(mlCorrupted) = Len(mlRecorded)
  /\ mlPhase = "print" =>
       Len(mlHits) = Len(mlRecorded) + 1 /\ Len(mlCorrupted) = Len(mlRecorded) + 1
  /\ mlPhase = "aborted" => Len(mlCorrupted) = Len(mlRecorded)
  /\ mlPhase = "killed" => Len(mlCorrupted) \in {Len(mlRecorded), Len(mlRecorded) + 1}
  /\ mlPhase \in {"inject", "print"} => CurrentCycle = mlHits[Len(mlHits)] /\ ~closed
  /\ \A k \in 1 .. Len(mlRecorded) :
       mlRecorded[k] = [cycle |-> mlHits[k], bit |-> mlCorrupted[k]]
=============================================================================
