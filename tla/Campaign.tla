------------------------------ MODULE Campaign ------------------------------
(***************************************************************************)
(* One run of a campaign, end to end: the passes instrument the same       *)
(* program twice (InjectionPasses), the profiling executable runs it and   *)
(* leaves llfi.stat.prof.txt (ProfilingLib), injectfault.py turns an       *)
(* option and total_cycle into llfi.config.runtime.txt (RuntimeConfig),    *)
(* and the fault injection executable runs under it (FaultInjectionLib).   *)
(*                                                                         *)
(* The program is deterministic: until a fault strikes, the fault          *)
(* injection executable repeats the path of the profiling executable;      *)
(* afterwards it may go anywhere.                                          *)
(***************************************************************************)
EXTENDS FaultInjectionLib, ProfilingLib, RuntimeConfig, InjectionPasses

CONSTANTS
  Code,       \* the selected instructions; their LLFI indexes are 1, 2, ...
  Location,   \* regloc of input.yaml
  Option      \* the runOption

(* The runtime's constants are what the passes made of the program.        *)
ASSUME CompiledAssumption ==
  /\ Inst = {i \in DOMAIN Code : CallsAround(Code[i], Location) # << >>}
  /\ RegCalls = [i \in Inst |-> CallsAround(Code[i], Location)]
  /\ RegNum = [i \in Inst |-> Len(RegList(Code[i], Location))]
  /\ Opcode = DOMAIN Code
  /\ Cycles = [i \in Inst |-> Weight[i]]

ASSUME CodeAssumption ==
  \A i \in DOMAIN Code :
    /\ Code[i].nsrc \in Nat /\ (Code[i].self # {} => Code[i].kind = "phi")
    /\ ~EndsCompiler(Code[i], Location)

ASSUME OptionAssumption == Keys \subseteq DOMAIN Option

(* The runtime reads the files that the driver writes; a program of no     *)
(* more than MaxCalls cycles has no more in its profile.                   *)
ASSUME WrittenAssumption ==
  \A total \in 0 .. MaxCalls :
    Accepted(Option, total) /\ ~Fails(Option, total) =>
      ConfigFiles(Option, total) \subseteq ConfigFile

VARIABLES
  path,   \* instructions the profiling executable executed
  at      \* how far along it the fault injection executable is

campaignVars == <<profVars, vars, path, at>>

CampaignInit == ProfInit /\ Init /\ ~cfgFile.ok /\ path = << >> /\ at = 0

-----------------------------------------------------------------------------
(* The profiling executable. *)
Execute(i) ==
  /\ profPhase = "run" /\ Len(path) < MaxDyn
  /\ path' = Append(path, i)
  /\ IF Profiled(Code[i], Location) THEN doProfiling(i) ELSE UNCHANGED profVars
  /\ UNCHANGED <<vars, at>>

Layers == (LayerStarts \/ LayerEnds) /\ UNCHANGED <<vars, path, at>>

ProfileEnds == endProfiling /\ UNCHANGED <<vars, path, at>>

ProfileDies == ProfKill /\ UNCHANGED <<vars, path, at>>

(* injectfault.py reads the total and writes the file. *)
OneTooMany == profile[1].total_cycle + 1    \* mutant: the profile counts from 0
Total == profile[1].total_cycle

PlanRun ==
  /\ profile # << >> /\ phase = "boot" /\ ~cfgFile.ok
  /\ Accepted(Option, Total) /\ ~Fails(Option, Total)
  /\ cfgFile' \in ConfigFiles(Option, Total)
  /\ UNCHANGED <<libVars, loopVars, fileVars, progVars, hits, corrupted>>
  /\ UNCHANGED <<profVars, path, at>>

(* The fault injection executable: an instruction without calls leaves no  *)
(* trace in the runtime.                                                   *)
FIStep(A) == A /\ UNCHANGED <<profVars, path, at>>

Repeat ==
  \E k \in at + 1 .. Len(path) :
    /\ hits = << >>
    /\ path[k] \in Inst /\ \A j \in at + 1 .. k - 1 : path[j] \notin Inst
    /\ BeginInst(path[k])
    /\ at' = k
    /\ UNCHANGED <<profVars, path>>

Exits ==
  /\ hits # << >> \/ \A k \in at + 1 .. Len(path) : path[k] \notin Inst
  /\ PostInjections

FIRun ==
  \/ cfgFile.ok /\ FIStep(InitInjections)
  \/ Repeat
  \/ hits # << >> /\ \E i \in Inst : FIStep(BeginInst(i))
  \/ FIStep(PreFunc) \/ FIStep(InjectFunc) \/ FIStep(Exits) \/ FIStep(Kill)

(* Nothing more happens: a process is gone, or the script refused. *)
Over ==
  /\ \/ phase \in {"exited", "aborted", "killed"}
     \/ profPhase # "run" /\ phase = "boot"
  /\ UNCHANGED campaignVars

CampaignNext ==
  \/ \E i \in DOMAIN Code : Execute(i)
  \/ Layers \/ ProfileEnds \/ ProfileDies \/ PlanRun \/ FIRun \/ Over

CampaignSpec == CampaignInit /\ [][CampaignNext]_campaignVars

-----------------------------------------------------------------------------
(* The cycle of the fault and the layer it is labelled with were computed  *)
(* from the profile.  Until the fault strikes, the n-th cycle of the fault *)
(* injection executable is the n-th cycle of the profiling executable.     *)
ProfiledPath == Kept(path, {i \in DOMAIN Code : Profiled(Code[i], Location)})

SameCycles == hits = << >> => IsPrefix(trace, ProfiledPath)

(* The first fault strikes the instruction that the profile counted at its *)
(* cycle, whichever way the program goes on from there.                    *)
FaultWhereProfiled ==
  hits # << >> =>
    hits[1].at \in DOMAIN ProfiledPath /\ hits[1].index = ProfiledPath[hits[1].at]

(* A run that ends by itself had its fault: the driver never draws a cycle *)
(* the program does not reach, and the runtime never misses one.           *)
EveryRunHasItsFault ==
  phase = "exited" /\ cfgFile.fi_cycle # Absent =>
    hits # << >> /\ hits[1].at = cfgFile.fi_cycle

(* The same, over any code: the tutorial's campaign is "injecting one      *)
(* fault per run".                                                         *)
OneFaultPerRun ==
  phase = "exited" /\ cfgFile.fi_cycle # Absent => hits # << >>

-----------------------------------------------------------------------------
(* The invariants behind the proofs (Campaign_proofs).                     *)

(* The passes agree on the instructions: an intrinsic is not a target.     *)
NoIntrinsicTargets ==
  \A i \in DOMAIN Code : Intrinsic(Code[i]) => ~Selected(Code[i], Location)

(* The register that the option names, if it names one, is one that every  *)
(* instruction has.                                                        *)
EveryInstHasRegister == \A i \in Inst : Option.fi_reg_index < RegNum[i]

(* The profile counts the instructions on the path that are profiled, all  *)
(* of them of known opcodes once there is a file.                          *)
PathInv ==
  /\ path \in Seq(DOMAIN Code)
  /\ globalCycle = Len(ProfiledPath)
  /\ \A k \in 1 .. Len(path) :
       Profiled(Code[path[k]], Location) => opcodecount[path[k]] > 0
  /\ profile # << >> =>
       profPhase = "ended" /\ \A o \in Opcode : opcodecount[o] > 0 => Weight[o] >= 0

(* Until the fault, what was counted are the instrumented instructions on  *)
(* the path up to at, and inside an instruction up to the one before it.   *)
Counting == KeptBy(path, Inst)

RepeatInv ==
  /\ fiFlag = 1 /\ at \in 0 .. Len(path)
  /\ phase = "boot" \/ ~cfgFile.ok => at = 0 /\ trace = << >> /\ hits = << >>
  /\ cfgFile.ok => profile # << >>
  /\ cfgFile.ok \/ phase \in {"boot", "killed"}
  /\ hits = << >> =>
       /\ phase = "run" => trace = Counting[at]
       /\ phase = "call" => at > 0 /\ cur = path[at] /\ trace = Counting[at - 1]
       /\ \E k \in 0 .. at : trace = Counting[k]

(* Until the fault, its cycle is ahead; if it is this one, so is the       *)
(* register that the file names.                                           *)
FirstFaultInv ==
  /\ cfgFile.ok =>
       /\ cfgFile.fi_cycle <= globalCycle /\ cfgFile.fi_reg_index = Option.fi_reg_index
  /\ hits = << >> => ~injectedInCurrInst
  /\ hits = << >> /\ phase \in {"run", "call"} /\ cfgFile.fi_cycle # Absent =>
       /\ config = Parsed(cfgFile) /\ curr_cycle <= cfgFile.fi_cycle
       /\ phase = "call" /\ curr_cycle = cfgFile.fi_cycle /\ cfgFile.fi_reg_index >= 0 =>
            call - 1 <= cfgFile.fi_reg_index
  /\ hits # << >> /\ cfgFile.fi_cycle # Absent => hits[1].at = cfgFile.fi_cycle
  /\ EveryRunHasItsFault
=============================================================================
