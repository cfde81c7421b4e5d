---------------------------- MODULE ProfilingLib ----------------------------
(***************************************************************************)
(* The profiling runtime, runtime_lib/ProfilingLib.cpp, linked into the    *)
(* program the profiling pass instrumented.  The program is the            *)
(* environment: it calls doProfiling beside every profiled instruction,    *)
(* lltfiMLLayer beside every OMInstrumentPoint call of the model, and      *)
(* endProfiling before it exits.                                           *)
(***************************************************************************)
EXTENDS Integers, Sequences, FiniteSets, FiniteSetsExt

CONSTANTS
  Opcode,      \* opcodes of the profiled instructions, below 100
  Weight,      \* opcode_cycle_arr: 1, or -1 for one Instruction.def lacks
  MaxCalls,    \* bound on the calls of doProfiling
  MaxLayers    \* bound on the layers started

(* opcodecount is an array of 100 entries. *)
ASSUME OpcodeAssumption == IsFiniteSet(Opcode)
ASSUME WeightAssumption == Weight \in [Opcode -> {-1, 1}]
ASSUME ProfBoundAssumption == MaxCalls \in Nat /\ MaxLayers \in Nat

NoCycle == -1    \* cycleStart and cycleEnd of a layer no cycle was registered in
nullptr == [layerNo |-> 0, cycleStart |-> NoCycle, cycleEnd |-> NoCycle]

VARIABLES
  profPhase,         \* "run", "ended", "aborted" or "killed"
  opcodecount,       \* calls of doProfiling per opcode
  globalCycle,       \* calls of doProfiling
  globalLayerNo,     \* layers started
  currentLayer,      \* the layer that is open, or nullptr
  layerProfileInfo,  \* the layers that were closed, in that order
  profile,           \* llfi.stat.prof.txt: << >> or <<its content>>
  layerOf            \* history: the layer open at each cycle, 0 if none

profVars == <<profPhase, opcodecount, globalCycle, globalLayerNo, currentLayer,
              layerProfileInfo, profile, layerOf>>

ProfInit ==
  /\ profPhase = "run"
  /\ opcodecount = [o \in Opcode |-> 0]
  /\ globalCycle = 0 /\ globalLayerNo = 0
  /\ currentLayer = nullptr
  /\ layerProfileInfo = << >> /\ profile = << >> /\ layerOf = << >>

(* lltfiMLLayer(name, 1): a layer starts.  One that is open is forgotten.  *)
LayerStarts ==
  /\ profPhase = "run" /\ globalLayerNo < MaxLayers
  /\ globalLayerNo' = globalLayerNo + 1
  /\ currentLayer' = [nullptr EXCEPT !.layerNo = globalLayerNo + 1]
  /\ UNCHANGED <<profPhase, opcodecount, globalCycle, layerProfileInfo, profile, layerOf>>

(* lltfiMLLayer(name, 2): the layer that is open ends.  Without one, the   *)
(* copy of *currentLayer reads through a null pointer.                     *)
LayerEnds ==
  /\ profPhase = "run" /\ globalLayerNo > 0
  /\ IF currentLayer # nullptr
       THEN /\ layerProfileInfo' = Append(layerProfileInfo, currentLayer)
            /\ currentLayer' = nullptr
            /\ UNCHANGED profPhase
       ELSE /\ profPhase' = "killed"
            /\ UNCHANGED <<layerProfileInfo, currentLayer>>
  /\ UNCHANGED <<opcodecount, globalCycle, globalLayerNo, profile, layerOf>>

StaleStart(layer, cycle) == [layer EXCEPT !.cycleStart = cycle, !.cycleEnd = cycle]
   \* mutant: the test that cycleStart is still -1 is missing

CycleAhead(layer, cycle) ==    \* mutant: counts the cycle a second time
  [layer EXCEPT !.cycleStart = IF @ = NoCycle THEN cycle + 1 ELSE @,
                !.cycleEnd = cycle + 1]

registerCycle(layer, cycle) ==
  [layer EXCEPT !.cycleStart = IF @ = NoCycle THEN cycle ELSE @, !.cycleEnd = cycle]

doProfiling(o) ==
  /\ profPhase = "run" /\ globalCycle < MaxCalls
  /\ opcodecount' = [opcodecount EXCEPT ![o] = @ + 1]
  /\ globalCycle' = globalCycle + 1
  /\ currentLayer' = IF currentLayer # nullptr
                       THEN registerCycle(currentLayer, globalCycle + 1)
                       ELSE currentLayer
  /\ layerOf' = Append(layerOf, currentLayer.layerNo)
  /\ UNCHANGED <<profPhase, globalLayerNo, layerProfileInfo, profile>>

(* The file is opened, and so emptied, before the opcodes are checked; the *)
(* assertion on an opcode without weight leaves it empty.                  *)
Profile == [total_cycle |-> SumFunction([o \in Opcode |-> opcodecount[o] * Weight[o]]),
            ml_layers |-> layerProfileInfo]

NoWeightCheck ==    \* mutant: the assertion on the opcode's weight is missing
  /\ profPhase = "run"
  /\ profPhase' = "ended" /\ profile' = <<Profile>>
  /\ UNCHANGED <<opcodecount, globalCycle, globalLayerNo, currentLayer, layerProfileInfo,
                 layerOf>>

endProfiling ==
  /\ profPhase = "run"
  /\ IF \A o \in Opcode : opcodecount[o] > 0 => Weight[o] >= 0
       THEN profPhase' = "ended" /\ profile' = <<Profile>>
       ELSE profPhase' = "aborted" /\ profile' = << >>
  /\ UNCHANGED <<opcodecount, globalCycle, globalLayerNo, currentLayer, layerProfileInfo,
                 layerOf>>

(* The program dies before its end: profile.py has no timeout, but the     *)
(* user may interrupt it.                                                  *)
ProfKill ==
  /\ profPhase = "run"
  /\ profPhase' = "killed"
  /\ UNCHANGED <<opcodecount, globalCycle, globalLayerNo, currentLayer, layerProfileInfo,
                 profile, layerOf>>

ProfEnded == profPhase # "run" /\ UNCHANGED profVars

ProfNext ==
  \/ LayerStarts \/ LayerEnds
  \/ \E o \in Opcode : doProfiling(o)
  \/ endProfiling \/ ProfKill \/ ProfEnded

ProfSpec == ProfInit /\ [][ProfNext]_profVars

-----------------------------------------------------------------------------
Layer == [layerNo : 0 .. MaxLayers, cycleStart : {NoCycle} \cup 1 .. MaxCalls,
          cycleEnd : {NoCycle} \cup 1 .. MaxCalls]

(* Type invariant. *)
ProfTypeOK ==
  /\ profPhase \in {"run", "ended", "aborted", "killed"}
  /\ opcodecount \in [Opcode -> 0 .. MaxCalls]
  /\ globalCycle \in 0 .. MaxCalls
  /\ globalLayerNo \in 0 .. MaxLayers
  /\ currentLayer \in Layer
  /\ \A k \in 1 .. Len(layerProfileInfo) : layerProfileInfo[k] \in Layer
  /\ Len(profile) <= 1
  /\ Len(layerOf) = globalCycle

(* The driver's lookup of a cycle among the layers of the file. *)
LayersAt(layers, cycle) ==
  {layers[k].layerNo : k \in {j \in 1 .. Len(layers) :
      cycle >= layers[j].cycleStart /\ cycle <= layers[j].cycleEnd}}

(* The driver labels a fault with the layer that was really open at its    *)
(* cycle, or with none: the ranges in the file do not overlap and leave    *)
(* out no cycle of a layer that was closed, however layers were nested,    *)
(* empty or left open.                                                     *)
LayersLabelCycles ==
  \A c \in 1 .. globalCycle :
    LayersAt(layerProfileInfo, c) =
      {layerOf[c]} \cap {layerProfileInfo[k].layerNo : k \in 1 .. Len(layerProfileInfo)}

(* A file with a total gives the number of cycles that were executed, and  *)
(* every layer's range lies inside it: the driver draws cycles from 1 to   *)
(* the total, and labels them with these ranges.                           *)
TotalCountsCycles ==
  profile # << >> =>
    /\ profile[1].total_cycle = Len(layerOf)
    /\ \A k \in 1 .. Len(profile[1].ml_layers) :
         profile[1].ml_layers[k].cycleEnd <= profile[1].total_cycle

-----------------------------------------------------------------------------
(* The invariants behind the proofs (ProfilingLib_proofs).                 *)

(* The range of a layer is the cycles it was open at.                      *)
Ranged(layer) ==
  /\ layer.layerNo \in 1 .. globalLayerNo
  /\ layer.cycleStart <= layer.cycleEnd /\ layer.cycleEnd <= globalCycle
  /\ layer.cycleStart = NoCycle <=> layer.cycleEnd = NoCycle
  /\ \A c \in 1 .. globalCycle :
       layer.cycleStart <= c /\ c <= layer.cycleEnd <=> layerOf[c] = layer.layerNo

(* The layer that is open is the last that was started, is not among those *)
(* that were closed, and once it has a cycle, has every one since.         *)
LayerInv ==
  /\ \A k \in 1 .. Len(layerProfileInfo) :
       /\ Ranged(layerProfileInfo[k])
       /\ layerProfileInfo[k].layerNo # currentLayer.layerNo
  /\ currentLayer # nullptr =>
       /\ Ranged(currentLayer) /\ currentLayer.layerNo = globalLayerNo
       /\ currentLayer.cycleEnd \in {NoCycle, globalCycle}
  /\ \A c \in 1 .. globalCycle : layerOf[c] \in 0 .. globalLayerNo

(* No opcode was counted more often than there were cycles.                *)
CountsBounded ==
  /\ \A o \in Opcode : opcodecount[o] <= globalCycle
  /\ layerProfileInfo \in Seq(Layer) /\ layerOf \in Seq(Nat)

(* The counts of the opcodes add up to the cycles, and the file was        *)
(* written by a program that has ended.                                    *)
TotalInv ==
  /\ SumFunction(opcodecount) = globalCycle
  /\ profPhase = "run" => profile = << >>
  /\ TotalCountsCycles
=============================================================================
