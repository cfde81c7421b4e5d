------------------------- MODULE ProfilingLib_proofs -------------------------
(***************************************************************************)
(* Proofs about the profiling runtime, for any opcodes and any number of   *)
(* cycles and layers.                                                      *)
(***************************************************************************)
EXTENDS ProfilingLib, SequenceTheorems, FiniteSetTheorems, TLAPS

LEMMA NullType == nullptr \in Layer /\ nullptr.layerNo = 0
BY ProfBoundAssumption DEF nullptr, Layer, NoCycle

(* A layer that gets a cycle.                                              *)
LEMMA RegisterType ==
  ASSUME NEW layer \in Layer, NEW c \in 1 .. MaxCalls
  PROVE  /\ registerCycle(layer, c) \in Layer
         /\ registerCycle(layer, c).layerNo = layer.layerNo
         /\ registerCycle(layer, c).cycleEnd = c
         /\ registerCycle(layer, c).cycleStart =
              IF layer.cycleStart = NoCycle THEN c ELSE layer.cycleStart
BY DEF registerCycle, Layer

LEMMA ProfTypeInit == ProfInit => ProfTypeOK /\ CountsBounded
<1> SUFFICES ASSUME ProfInit PROVE ProfTypeOK /\ CountsBounded
  OBVIOUS
<1>1. << >> \in Seq(Layer) /\ << >> \in Seq(Nat) /\ Len(<< >>) = 0
  BY EmptySeq
<1>2. QED
  BY <1>1, NullType, ProfBoundAssumption DEF ProfInit, ProfTypeOK, CountsBounded

LEMMA ProfTypeStep ==
  ASSUME ProfTypeOK, CountsBounded, [ProfNext]_profVars
  PROVE  (ProfTypeOK /\ CountsBounded)'
<1>0. /\ MaxCalls \in Nat /\ MaxLayers \in Nat /\ globalCycle \in 0 .. MaxCalls
      /\ globalLayerNo \in 0 .. MaxLayers /\ currentLayer \in Layer
      /\ opcodecount \in [Opcode -> 0 .. MaxCalls]
      /\ layerProfileInfo \in Seq(Layer) /\ layerOf \in Seq(Nat) /\ Len(layerOf) = globalCycle
  BY ProfBoundAssumption DEF ProfTypeOK, CountsBounded
<1>1. CASE LayerStarts
  <2>1. currentLayer' \in Layer
    <3>1. globalLayerNo + 1 \in 0 .. MaxLayers
      BY <1>0, <1>1 DEF LayerStarts
    <3>2. currentLayer' = [nullptr EXCEPT !.layerNo = globalLayerNo + 1]
      BY <1>1 DEF LayerStarts
    <3>3. QED
      BY <3>1, <3>2, NullType DEF Layer
  <2>2. QED
    BY <1>0, <1>1, <2>1 DEF LayerStarts, ProfTypeOK, CountsBounded
<1>2. CASE LayerEnds
  <2>1. CASE currentLayer # nullptr
    <3>1. /\ layerProfileInfo' = Append(layerProfileInfo, currentLayer)
          /\ currentLayer' = nullptr
          /\ UNCHANGED <<profPhase, opcodecount, globalCycle, globalLayerNo, profile, layerOf>>
      BY <1>2, <2>1 DEF LayerEnds
    <3>2. layerProfileInfo' \in Seq(Layer)
      BY <1>0, <3>1, AppendProperties
    <3>3. \A k \in 1 .. Len(layerProfileInfo') : layerProfileInfo'[k] \in Layer
      BY <3>2
    <3>4. QED
      BY <1>0, <3>1, <3>2, <3>3, NullType DEF ProfTypeOK, CountsBounded
  <2>2. CASE currentLayer = nullptr
    BY <1>0, <1>2, <2>2 DEF LayerEnds, ProfTypeOK, CountsBounded
  <2>3. QED
    BY <2>1, <2>2
<1>3. ASSUME NEW o \in Opcode, doProfiling(o) PROVE (ProfTypeOK /\ CountsBounded)'
  <2>1. /\ globalCycle < MaxCalls /\ globalCycle' = globalCycle + 1
        /\ opcodecount' = [opcodecount EXCEPT ![o] = @ + 1]
        /\ layerOf' = Append(layerOf, currentLayer.layerNo)
        /\ currentLayer' = IF currentLayer # nullptr
                             THEN registerCycle(currentLayer, globalCycle + 1)
                             ELSE currentLayer
        /\ UNCHANGED <<profPhase, globalLayerNo, layerProfileInfo, profile>>
    BY <1>3 DEF doProfiling
  <2>2. currentLayer' \in Layer
    <3>1. globalCycle + 1 \in 1 .. MaxCalls
      BY <1>0, <2>1
    <3>2. QED
      BY <1>0, <2>1, <3>1, RegisterType
  <2>3. opcodecount[o] <= globalCycle
    BY DEF CountsBounded
  <2>4. /\ opcodecount' \in [Opcode -> 0 .. MaxCalls]
        /\ \A p \in Opcode : opcodecount'[p] <= globalCycle'
    <3>1. \A p \in Opcode : opcodecount'[p] = IF p = o THEN opcodecount[p] + 1 ELSE opcodecount[p]
      BY <1>0, <2>1
    <3>2. \A p \in Opcode : opcodecount[p] <= globalCycle /\ opcodecount[p] \in 0 .. MaxCalls
      BY <1>0 DEF CountsBounded
    <3>3. \A p \in Opcode : opcodecount'[p] \in 0 .. MaxCalls /\ opcodecount'[p] <= globalCycle'
      BY <1>0, <2>1, <2>3, <3>1, <3>2
    <3>4. opcodecount' = [p \in Opcode |-> opcodecount'[p]]
      BY <1>0, <2>1
    <3>5. QED
      BY <3>3, <3>4
  <2>5. layerOf' \in Seq(Nat) /\ Len(layerOf') = globalCycle'
    <3>1. currentLayer.layerNo \in Nat
      BY <1>0 DEF Layer
    <3>2. QED
      BY <1>0, <2>1, <3>1, AppendProperties
  <2>6. globalCycle' \in 0 .. MaxCalls
    BY <1>0, <2>1
  <2>7. QED
    BY <1>0, <2>1, <2>2, <2>4, <2>5, <2>6 DEF ProfTypeOK, CountsBounded
<1>4. CASE endProfiling
  <2>1. Len(profile') <= 1 /\ profPhase' \in {"ended", "aborted"}
    <3>1. profile' = << >> \/ profile' = <<Profile>>
      BY <1>4 DEF endProfiling
    <3>2. Len(profile') = 0 \/ Len(profile') = 1
      BY <3>1, EmptySeq
    <3>3. profPhase' \in {"ended", "aborted"}
      BY <1>4 DEF endProfiling
    <3>4. Len(profile') <= 1
      <4>1. \A n : n = 0 \/ n = 1 => n <= 1
        OBVIOUS
      <4>2. QED
        BY <3>2, <4>1
    <3>5. QED
      BY <3>3, <3>4
  <2>2. QED
    BY <1>0, <1>4, <2>1 DEF endProfiling, ProfTypeOK, CountsBounded
<1>5. CASE ProfKill
  BY <1>0, <1>5 DEF ProfKill, ProfTypeOK, CountsBounded
<1>6. CASE UNCHANGED profVars
  BY <1>6 DEF profVars, ProfTypeOK, CountsBounded
<1>7. QED
  BY <1>1, <1>2, <1>3, <1>4, <1>5, <1>6 DEF ProfNext, ProfEnded

LEMMA ProfTypeInvariant == ProfSpec => [](ProfTypeOK /\ CountsBounded)
<1>1. ProfTypeOK /\ CountsBounded /\ [ProfNext]_profVars => (ProfTypeOK /\ CountsBounded)'
  BY ProfTypeStep
<1>2. QED
  BY <1>1, ProfTypeInit, PTL DEF ProfSpec

(* Types; the history is as long as the counter.                           *)
THEOREM ProfTypeCorrect == ProfSpec => []ProfTypeOK
BY ProfTypeInvariant, PTL

-----------------------------------------------------------------------------
LEMMA LayerInit == ProfInit => LayerInv
<1> SUFFICES ASSUME ProfInit PROVE LayerInv
  OBVIOUS
<1>1. Len(layerProfileInfo) = 0 /\ globalCycle = 0 /\ currentLayer = nullptr
  BY EmptySeq DEF ProfInit
<1>2. QED
  BY <1>1 DEF LayerInv

(* A layer that gets no cycle keeps its range.                             *)
LEMMA KeepsRange ==
  ASSUME NEW layer \in Layer, Ranged(layer), globalCycle \in Nat, globalLayerNo \in Nat,
         layerOf \in Seq(Nat), Len(layerOf) = globalCycle, NEW n \in Nat,
         globalCycle' = globalCycle + 1, layerOf' = Append(layerOf, n),
         globalLayerNo' = globalLayerNo, n # layer.layerNo
  PROVE  Ranged(layer)'
<1>1. \A c \in 1 .. globalCycle : layerOf'[c] = layerOf[c]
  BY AppendProperties
<1>2. layerOf'[globalCycle + 1] = n
  BY AppendProperties
<1>3. /\ layer.cycleEnd \in {NoCycle} \cup 1 .. MaxCalls
      /\ layer.cycleStart \in {NoCycle} \cup 1 .. MaxCalls /\ MaxCalls \in Nat
  BY ProfBoundAssumption DEF Layer
<1>4. /\ layer.cycleEnd <= globalCycle
      /\ \A c \in 1 .. globalCycle :
           layer.cycleStart <= c /\ c <= layer.cycleEnd <=> layerOf[c] = layer.layerNo
  BY DEF Ranged
<1>5. ASSUME NEW c \in 1 .. globalCycle + 1
      PROVE  layer.cycleStart <= c /\ c <= layer.cycleEnd <=> layerOf'[c] = layer.layerNo
  <2>1. CASE c \in 1 .. globalCycle
    BY <1>1, <1>4, <2>1
  <2>2. CASE c = globalCycle + 1
    <3>1. ~(c <= layer.cycleEnd)
      BY <1>3, <1>4, <2>2 DEF NoCycle
    <3>2. QED
      BY <1>2, <2>2, <3>1
  <2>3. QED
    BY <2>1, <2>2
<1>6. QED
  <2>1. /\ layer.layerNo \in 1 .. globalLayerNo'
        /\ layer.cycleStart = NoCycle <=> layer.cycleEnd = NoCycle
    BY DEF Ranged
  <2>2. layer.cycleStart <= layer.cycleEnd /\ layer.cycleEnd <= globalCycle'
    <3>1. layer.cycleStart <= layer.cycleEnd
      BY DEF Ranged
    <3>2. layer.cycleEnd <= globalCycle
      BY DEF Ranged
    <3>3. layer.cycleEnd <= globalCycle + 1
      BY <1>3, <3>2 DEF NoCycle
    <3>4. QED
      BY <3>1, <3>3
  <2>3. QED
    BY <1>5, <2>1, <2>2 DEF Ranged

(* The open layer gets the cycle.                                          *)
LEMMA ExtendsRange ==
  ASSUME NEW layer \in Layer, Ranged(layer), layer.cycleEnd \in {NoCycle, globalCycle},
         globalCycle \in Nat, globalCycle < MaxCalls, globalLayerNo \in Nat,
         layerOf \in Seq(Nat), Len(layerOf) = globalCycle,
         globalCycle' = globalCycle + 1, layerOf' = Append(layerOf, layer.layerNo),
         globalLayerNo' = globalLayerNo, NEW next,
         next = registerCycle(layer, globalCycle + 1)
  PROVE  Ranged(next)' /\ next.layerNo = layer.layerNo /\ next.cycleEnd = globalCycle + 1
<1>0. globalCycle + 1 \in 1 .. MaxCalls /\ layer.layerNo \in Nat
  BY ProfBoundAssumption DEF Layer
<1>1. \A c \in 1 .. globalCycle : layerOf'[c] = layerOf[c]
  BY <1>0, AppendProperties
<1>2. layerOf'[globalCycle + 1] = layer.layerNo
  BY <1>0, AppendProperties
<1>3. /\ next.layerNo = layer.layerNo /\ next.cycleEnd = globalCycle + 1
      /\ next.cycleStart = IF layer.cycleStart = NoCycle THEN globalCycle + 1
                           ELSE layer.cycleStart
  BY <1>0, RegisterType
<1>4. /\ layer.layerNo \in 1 .. globalLayerNo
      /\ layer.cycleStart = NoCycle <=> layer.cycleEnd = NoCycle
      /\ \A c \in 1 .. globalCycle :
           layer.cycleStart <= c /\ c <= layer.cycleEnd <=> layerOf[c] = layer.layerNo
  BY DEF Ranged
<1>5. CASE layer.cycleStart = NoCycle
  <2>1. \A c \in 1 .. globalCycle : layerOf[c] # layer.layerNo
    BY <1>4, <1>5 DEF NoCycle
  <2>2. ASSUME NEW c \in 1 .. globalCycle + 1
        PROVE  next.cycleStart <= c /\ c <= next.cycleEnd <=> layerOf'[c] = layer.layerNo
    <3>1. CASE c \in 1 .. globalCycle
      BY <1>1, <1>3, <1>5, <2>1, <3>1
    <3>2. CASE c = globalCycle + 1
      BY <1>2, <1>3, <1>5, <3>2
    <3>3. QED
      BY <3>1, <3>2
  <2>3. QED
    BY <1>0, <1>3, <1>4, <1>5, <2>2 DEF Ranged, NoCycle
<1>6. CASE layer.cycleStart # NoCycle
  <2>1. layer.cycleEnd = globalCycle /\ layer.cycleStart \in 1 .. MaxCalls
    BY <1>4, <1>6 DEF Layer
  <2>2. layer.cycleStart <= globalCycle + 1
    BY <2>1, ProfBoundAssumption DEF Ranged
  <2>3. ASSUME NEW c \in 1 .. globalCycle + 1
        PROVE  next.cycleStart <= c /\ c <= next.cycleEnd <=> layerOf'[c] = layer.layerNo
    <3>1. CASE c \in 1 .. globalCycle
      BY <1>1, <1>3, <1>4, <1>6, <2>1, <3>1
    <3>2. CASE c = globalCycle + 1
      BY <1>2, <1>3, <1>6, <2>1, <2>2, <3>2
    <3>3. QED
      BY <3>1, <3>2
  <2>4. QED
    BY <1>0, <1>3, <1>4, <1>6, <2>1, <2>3 DEF Ranged, NoCycle
<1>7. QED
  BY <1>3, <1>5, <1>6

LEMMA LayerStep ==
  ASSUME ProfTypeOK, CountsBounded, LayerInv, [ProfNext]_profVars
  PROVE  LayerInv'
<1>0. /\ MaxCalls \in Nat /\ MaxLayers \in Nat /\ globalCycle \in Nat
      /\ globalLayerNo \in Nat /\ currentLayer \in Layer
      /\ layerProfileInfo \in Seq(Layer) /\ Len(layerProfileInfo) \in Nat
      /\ layerOf \in Seq(Nat) /\ Len(layerOf) = globalCycle
  BY ProfBoundAssumption DEF ProfTypeOK, CountsBounded
<1>1. CASE LayerStarts
  <2>1. /\ globalLayerNo' = globalLayerNo + 1
        /\ currentLayer' = [nullptr EXCEPT !.layerNo = globalLayerNo + 1]
        /\ UNCHANGED <<globalCycle, layerProfileInfo, layerOf>>
    BY <1>1 DEF LayerStarts
  <2>2. /\ currentLayer'.layerNo = globalLayerNo + 1
        /\ currentLayer'.cycleStart = NoCycle /\ currentLayer'.cycleEnd = NoCycle
    BY <2>1 DEF nullptr
  <2>3. \A c \in 1 .. globalCycle : layerOf[c] \in 0 .. globalLayerNo
    BY DEF LayerInv
  <2>4. \A c \in 1 .. globalCycle' : layerOf'[c] \in 0 .. globalLayerNo' /\ layerOf'[c] # globalLayerNo + 1
    BY <1>0, <2>1, <2>3
  <2>5. Ranged(currentLayer)'
    <3>1. \A c \in 1 .. globalCycle' :
            ~(currentLayer'.cycleStart <= c /\ c <= currentLayer'.cycleEnd)
      BY <2>2 DEF NoCycle
    <3>2. QED
      BY <1>0, <2>1, <2>2, <2>4, <3>1 DEF Ranged, NoCycle
  <2>6. ASSUME NEW k \in 1 .. Len(layerProfileInfo)
        PROVE  /\ Ranged(layerProfileInfo[k])'
               /\ layerProfileInfo'[k].layerNo # currentLayer'.layerNo
    <3>1. Ranged(layerProfileInfo[k])
      BY DEF LayerInv
    <3>2. layerProfileInfo'[k] = layerProfileInfo[k]
      BY <2>1
    <3>3. layerProfileInfo[k].layerNo \in 1 .. globalLayerNo
      BY <3>1 DEF Ranged
    <3>4. QED
      BY <1>0, <2>1, <2>2, <3>1, <3>2, <3>3 DEF Ranged
  <2>7. QED
    BY <2>1, <2>2, <2>4, <2>5, <2>6 DEF LayerInv
<1>2. CASE LayerEnds
  <2>1. UNCHANGED <<globalCycle, globalLayerNo, layerOf>>
    BY <1>2 DEF LayerEnds
  <2>2. \A layer : Ranged(layer) => Ranged(layer)'
    BY <2>1 DEF Ranged
  <2>3. CASE currentLayer # nullptr
    <3>1. layerProfileInfo' = Append(layerProfileInfo, currentLayer) /\ currentLayer' = nullptr
      BY <1>2, <2>3 DEF LayerEnds
    <3>2. /\ Len(layerProfileInfo') = Len(layerProfileInfo) + 1
          /\ \A k \in 1 .. Len(layerProfileInfo) : layerProfileInfo'[k] = layerProfileInfo[k]
          /\ layerProfileInfo'[Len(layerProfileInfo) + 1] = currentLayer
      BY <1>0, <3>1, AppendProperties
    <3>3. ASSUME NEW k \in 1 .. Len(layerProfileInfo')
          PROVE  Ranged(layerProfileInfo'[k])
      <4>1. CASE k \in 1 .. Len(layerProfileInfo)
        BY <3>2, <4>1 DEF LayerInv
      <4>2. CASE k = Len(layerProfileInfo) + 1
        BY <2>3, <3>2, <4>2 DEF LayerInv
      <4>3. QED
        BY <1>0, <3>2, <4>1, <4>2
    <3>4. ASSUME NEW k \in 1 .. Len(layerProfileInfo')
          PROVE  /\ Ranged(layerProfileInfo[k])'
                 /\ layerProfileInfo'[k].layerNo # currentLayer'.layerNo
      <4>1. Ranged(layerProfileInfo'[k])
        BY <3>3
      <4>2. layerProfileInfo'[k].layerNo # 0
        BY <1>0, <4>1 DEF Ranged
      <4>3. Ranged(layerProfileInfo[k])'
        BY <2>1, <4>1 DEF Ranged
      <4>4. QED
        BY <3>1, <4>2, <4>3, NullType
    <3>5. QED
      BY <2>1, <3>1, <3>4 DEF LayerInv
  <2>4. CASE currentLayer = nullptr
    <3>1. UNCHANGED <<layerProfileInfo, currentLayer>>
      BY <1>2, <2>4 DEF LayerEnds
    <3>2. QED
      BY <2>1, <2>4, <3>1 DEF LayerInv, Ranged
  <2>5. QED
    BY <2>3, <2>4
<1>3. ASSUME NEW o \in Opcode, doProfiling(o) PROVE LayerInv'
  <2>1. /\ globalCycle < MaxCalls /\ globalCycle' = globalCycle + 1
        /\ layerOf' = Append(layerOf, currentLayer.layerNo)
        /\ currentLayer' = IF currentLayer # nullptr
                             THEN registerCycle(currentLayer, globalCycle + 1)
                             ELSE currentLayer
        /\ UNCHANGED <<globalLayerNo, layerProfileInfo>>
    BY <1>3 DEF doProfiling
  <2>2. currentLayer.layerNo \in Nat /\ currentLayer.layerNo \in 0 .. globalLayerNo
    <3>1. CASE currentLayer = nullptr
      BY <1>0, <3>1, NullType
    <3>2. CASE currentLayer # nullptr
      BY <1>0, <3>2 DEF LayerInv
    <3>3. QED
      BY <3>1, <3>2
  <2>3. currentLayer'.layerNo = currentLayer.layerNo
    <3>1. globalCycle + 1 \in 1 .. MaxCalls
      BY <1>0, <2>1
    <3>2. QED
      BY <1>0, <2>1, <3>1, RegisterType
  <2>4. ASSUME NEW k \in 1 .. Len(layerProfileInfo')
        PROVE  /\ Ranged(layerProfileInfo[k])'
               /\ layerProfileInfo'[k].layerNo # currentLayer'.layerNo
    <3>0. PICK layer : layer = layerProfileInfo[k]
      OBVIOUS
    <3>1. layer \in Layer /\ Ranged(layer) /\ layer.layerNo # currentLayer.layerNo
      BY <1>0, <2>1, <3>0 DEF LayerInv
    <3>2. layerProfileInfo'[k] = layer
      BY <2>1, <3>0
    <3>3. Ranged(layer)'
      BY <1>0, <2>1, <2>2, <3>1, KeepsRange
    <3>4. Ranged(layerProfileInfo[k])'
      BY <3>2, <3>3 DEF Ranged
    <3>5. QED
      BY <2>3, <3>1, <3>2, <3>4
  <2>5. ASSUME currentLayer' # nullptr
        PROVE  /\ Ranged(currentLayer)' /\ currentLayer'.layerNo = globalLayerNo'
               /\ currentLayer'.cycleEnd \in {NoCycle, globalCycle'}
    <3>1. currentLayer # nullptr
      BY <2>1, <2>5
    <3>2. /\ Ranged(currentLayer) /\ currentLayer.layerNo = globalLayerNo
          /\ currentLayer.cycleEnd \in {NoCycle, globalCycle}
      BY <3>1 DEF LayerInv
    <3>3. PICK next : next = registerCycle(currentLayer, globalCycle + 1)
      OBVIOUS
    <3>4. currentLayer' = next
      BY <2>1, <3>1, <3>3
    <3>5. PICK layer : layer = currentLayer
      OBVIOUS
    <3>6. Ranged(next)' /\ next.layerNo = globalLayerNo /\ next.cycleEnd = globalCycle + 1
      BY <1>0, <2>1, <3>2, <3>3, <3>5, ExtendsRange
    <3>7. Ranged(currentLayer)'
      BY <3>4, <3>6 DEF Ranged
    <3>8. QED
      BY <2>1, <3>4, <3>6, <3>7
  <2>6. ASSUME NEW c \in 1 .. globalCycle' PROVE layerOf'[c] \in 0 .. globalLayerNo'
    <3>1. /\ \A d \in 1 .. globalCycle : layerOf'[d] = layerOf[d]
          /\ layerOf'[globalCycle + 1] = currentLayer.layerNo
      BY <1>0, <2>1, <2>2, AppendProperties
    <3>2. \A d \in 1 .. globalCycle : layerOf[d] \in 0 .. globalLayerNo
      BY DEF LayerInv
    <3>3. c \in 1 .. globalCycle \/ c = globalCycle + 1
      BY <1>0, <2>1
    <3>4. QED
      BY <2>1, <2>2, <3>1, <3>2, <3>3
  <2>7. QED
    BY <2>4, <2>5, <2>6 DEF LayerInv
<1>4. CASE endProfiling \/ ProfKill \/ UNCHANGED profVars
  <2>1. UNCHANGED <<globalCycle, globalLayerNo, currentLayer, layerProfileInfo, layerOf>>
    BY <1>4 DEF endProfiling, ProfKill, profVars
  <2>2. QED
    BY <2>1 DEF LayerInv, Ranged
<1>5. QED
  BY <1>1, <1>2, <1>3, <1>4 DEF ProfNext, ProfEnded

(* The layers of the file give each cycle the layer it was executed in.    *)
THEOREM LayersLabelCyclesCorrect == ProfSpec => []LayersLabelCycles
<1>1. LayerInv => LayersLabelCycles
  <2>1. SUFFICES ASSUME LayerInv, NEW c \in 1 .. globalCycle
                 PROVE  LayersAt(layerProfileInfo, c) = {layerOf[c]} \cap
                          {layerProfileInfo[k].layerNo : k \in 1 .. Len(layerProfileInfo)}
    BY DEF LayersLabelCycles
  <2>2. \A k \in 1 .. Len(layerProfileInfo) :
          c >= layerProfileInfo[k].cycleStart /\ c <= layerProfileInfo[k].cycleEnd
            <=> layerOf[c] = layerProfileInfo[k].layerNo
    BY <2>1 DEF LayerInv, Ranged
  <2>3. QED
    BY <2>2 DEF LayersAt
<1>2. ProfTypeOK /\ CountsBounded /\ LayerInv /\ [ProfNext]_profVars => LayerInv'
  BY LayerStep
<1>3. QED
  BY <1>1, <1>2, LayerInit, ProfTypeInvariant, PTL DEF ProfSpec

-----------------------------------------------------------------------------
(* A set of subsets of a finite set has one that no element can leave.     *)
LEMMA SmallestSubset ==
  ASSUME NEW S, IsFiniteSet(S), NEW T \in SUBSET SUBSET S, T # {}
  PROVE  \E s \in T : \A x \in s : s \ {x} \notin T
<1>1. IsWellFoundedOn(StrictSubsetOrdering(S), SUBSET S)
  BY FS_StrictSubsetOrderingWellFounded, FS_FiniteSubsetsOfFinite
<1>2. PICK s \in T : \A t \in T : <<t, s>> \notin StrictSubsetOrdering(S)
  BY <1>1, WFMin
<1>3. ASSUME NEW x \in s, s \ {x} \in T PROVE FALSE
  <2>1. <<s \ {x}, s>> \in StrictSubsetOrdering(S)
    BY <1>3 DEF StrictSubsetOrdering
  <2>2. QED
    BY <1>2, <1>3, <2>1
<1>4. QED
  BY <1>3

(* The calls of the opcodes in s, numbered for each opcode.                *)
Numbered(f, s) == {p \in s \X Nat : p[2] \in 1 .. f[p[1]]}

LEMMA NumberedStep ==
  ASSUME NEW S, IsFiniteSet(S), NEW N \in Nat, NEW f \in [S -> 0 .. N], NEW s \in SUBSET S
  PROVE  /\ IsFiniteSet(Numbered(f, s))
         /\ Cardinality(Numbered(f, s)) \in Nat
         /\ Cardinality(Numbered(f, {})) = 0
         /\ \A x \in s : Cardinality(Numbered(f, s)) =
                           f[x] + Cardinality(Numbered(f, s \ {x}))
<1>1. \A t \in SUBSET S : IsFiniteSet(Numbered(f, t)) /\ Cardinality(Numbered(f, t)) \in Nat
  <2>0. IsFiniteSet(0 .. N)
    BY FS_Interval
  <2>1. IsFiniteSet(S \X (0 .. N))
    BY <2>0, FS_Product
  <2>2. TAKE t \in SUBSET S
  <2>3. Numbered(f, t) \in SUBSET (S \X (0 .. N))
    <3>1. ASSUME NEW p \in Numbered(f, t) PROVE p \in S \X (0 .. N)
      <4>1. p \in t \X Nat /\ p[2] \in 1 .. f[p[1]]
        BY DEF Numbered
      <4>2. p = <<p[1], p[2]>> /\ p[1] \in S /\ p[2] \in Nat
        BY <4>1
      <4>3. f[p[1]] \in 0 .. N
        BY <4>2
      <4>4. p[2] \in 0 .. N
        BY <4>1, <4>2, <4>3
      <4>5. QED
        BY <4>2, <4>4
    <3>2. QED
      BY <3>1
  <2>4. QED
    BY <2>1, <2>3, FS_Subset, FS_CardinalityType
<1>2. Cardinality(Numbered(f, {})) = 0
  <2>1. Numbered(f, {}) = {}
    BY DEF Numbered
  <2>2. QED
    BY <2>1, FS_EmptySet
<1>3. ASSUME NEW x \in s
      PROVE  Cardinality(Numbered(f, s)) = f[x] + Cardinality(Numbered(f, s \ {x}))
  <2>1. Numbered(f, s) = ({x} \X (1 .. f[x])) \cup Numbered(f, s \ {x})
    <3>1. \A p : p \in {x} \X (1 .. f[x]) <=> p \in s \X Nat /\ p[1] = x /\ p[2] \in 1 .. f[p[1]]
      <4>1. f[x] \in Nat /\ 1 .. f[x] \subseteq Nat
        OBVIOUS
      <4>2. QED
        BY <4>1
    <3>2. \A p : p \in s \X Nat <=> p \in (s \ {x}) \X Nat \/ (p \in s \X Nat /\ p[1] = x)
      OBVIOUS
    <3>3. \A p \in (s \ {x}) \X Nat : p[1] # x
      OBVIOUS
    <3>4. QED
      BY <3>1, <3>2, <3>3 DEF Numbered
  <2>2. ({x} \X (1 .. f[x])) \cap Numbered(f, s \ {x}) = {}
    <3>1. \A p \in {x} \X (1 .. f[x]) : p[1] = x
      OBVIOUS
    <3>2. \A p \in (s \ {x}) \X Nat : p[1] # x
      OBVIOUS
    <3>3. QED
      BY <3>1, <3>2 DEF Numbered
  <2>3. IsFiniteSet({x} \X (1 .. f[x])) /\ Cardinality({x} \X (1 .. f[x])) = f[x]
    <3>0. f[x] \in Nat
      OBVIOUS
    <3>1. IsFiniteSet({x}) /\ Cardinality({x}) = 1
      BY FS_Singleton, Zenon
    <3>2. IsFiniteSet(1 .. f[x]) /\ Cardinality(1 .. f[x]) = f[x]
      <4>1. IsFiniteSet(1 .. f[x]) /\ Cardinality(1 .. f[x]) = IF 1 > f[x] THEN 0 ELSE f[x] - 1 + 1
        <5>1. f[x] \in Int /\ 1 \in Int
          BY <3>0
        <5>2. QED
          BY <5>1, FS_Interval, Zenon
      <4>2. QED
        BY <3>0, <4>1
    <3>3. IsFiniteSet({x} \X (1 .. f[x])) /\ Cardinality({x} \X (1 .. f[x])) = 1 * f[x]
      <4>1. Cardinality({x} \X (1 .. f[x])) = Cardinality({x}) * Cardinality(1 .. f[x])
        BY <3>1, <3>2, FS_Product, Zenon
      <4>2. IsFiniteSet({x} \X (1 .. f[x]))
        BY <3>1, <3>2, FS_Product, Zenon
      <4>3. QED
        BY <3>0, <3>1, <3>2, <4>1, <4>2
    <3>4. QED
      BY <3>0, <3>3
  <2>4. Cardinality({}) = 0
    BY FS_EmptySet
  <2>5. IsFiniteSet(Numbered(f, s \ {x})) /\ Cardinality(Numbered(f, s \ {x})) \in Nat
    BY <1>1
  <2>6. Cardinality(Numbered(f, s)) =
          Cardinality({x} \X (1 .. f[x])) + Cardinality(Numbered(f, s \ {x})) - Cardinality({})
    BY <2>1, <2>2, <2>3, <2>5, FS_Union, ZenonT(30)
  <2>7. QED
    BY <2>3, <2>4, <2>5, <2>6
<1>4. QED
  BY <1>1, <1>2, <1>3

(* The recursion that SumFunction stands for has one solution: the sum of  *)
(* counts is the number of things counted.                                 *)
LEMMA SumIsCount ==
  ASSUME NEW S, IsFiniteSet(S), NEW N \in Nat, NEW f \in [S -> 0 .. N]
  PROVE  SumFunction(f) = Cardinality(Numbered(f, S))
<1> DEFINE Sums(g) == g = [s \in SUBSET S |->
                             IF s = {} THEN 0
                             ELSE f[CHOOSE x \in s : TRUE] + g[s \ {CHOOSE x \in s : TRUE}]]
<1>1. SumFunction(f) = (CHOOSE g : Sums(g))[S]
  BY DEF SumFunction, SumFunctionOnSet, FoldFunctionOnSet, MapThenFoldSet
<1> DEFINE count(s) == Cardinality(Numbered(f, s))
           pick(s)  == CHOOSE x \in s : TRUE
<1>2. /\ count({}) = 0
      /\ \A s \in SUBSET S : /\ count(s) \in Nat
                            /\ \A x \in s : count(s) = f[x] + count(s \ {x})
  BY NumberedStep
<1>3. \A s \in SUBSET S : s # {} => pick(s) \in s /\ s \ {pick(s)} \in SUBSET S
  OBVIOUS
<1> HIDE DEF count, pick
<1>4. \A s \in SUBSET S : count(s) = IF s = {} THEN 0 ELSE f[pick(s)] + count(s \ {pick(s)})
  BY <1>2, <1>3
<1>5. Sums([s \in SUBSET S |-> count(s)])
  <2>1. \A s \in SUBSET S : s # {} =>
          [t \in SUBSET S |-> count(t)][s \ {pick(s)}] = count(s \ {pick(s)})
    BY <1>3
  <2>2. QED
    BY <1>4, <2>1 DEF pick
<1>6. PICK g : g = (CHOOSE h : Sums(h)) /\ Sums(g)
  <2> HIDE DEF Sums
  <2>1. QED
    BY <1>5
<1>7. ASSUME NEW s \in SUBSET S, g[s] # count(s) PROVE FALSE
  <2> DEFINE T == {t \in SUBSET S : g[t] # count(t)}
  <2>1. PICK t \in T : \A x \in t : t \ {x} \notin T
    <3>1. T \in SUBSET SUBSET S /\ T # {}
      BY <1>7
    <3> HIDE DEF T
    <3>2. QED
      BY <3>1, SmallestSubset
  <2>2. g[t] = IF t = {} THEN 0 ELSE f[pick(t)] + g[t \ {pick(t)}]
    BY <1>6 DEF pick
  <2>3. t # {} => g[t \ {pick(t)}] = count(t \ {pick(t)})
    BY <1>3, <2>1
  <2>4. QED
    BY <1>4, <2>1, <2>2, <2>3
<1>8. QED
  <2> HIDE DEF Sums
  <2>1. g[S] = count(S)
    BY <1>7
  <2>2. QED
    BY <1>1, <1>6, <2>1 DEF count

(* One more of one opcode adds one to the sum.                             *)
LEMMA SumIncremented ==
  ASSUME NEW S, IsFiniteSet(S), NEW N \in Nat, NEW f \in [S -> 0 .. N], NEW o \in S,
         NEW g, g = [f EXCEPT ![o] = @ + 1]
  PROVE  SumFunction(g) = SumFunction(f) + 1
<1>1. g \in [S -> 0 .. N + 1] /\ f \in [S -> 0 .. N + 1] /\ N + 1 \in Nat
  OBVIOUS
<1>2. SumFunction(g) = Cardinality(Numbered(g, S)) /\ SumFunction(f) = Cardinality(Numbered(f, S))
  BY <1>1, SumIsCount
<1>3. f[o] \in Nat /\ g[o] = f[o] + 1 /\ \A x \in S : x # o => g[x] = f[x]
  OBVIOUS
<1>4. Numbered(g, S \ {o}) = Numbered(f, S \ {o})
  BY <1>3 DEF Numbered
<1>5. ASSUME NEW h \in [S -> 0 .. N + 1]
      PROVE  /\ Cardinality(Numbered(h, S)) = h[o] + Cardinality(Numbered(h, S \ {o}))
             /\ Cardinality(Numbered(h, S \ {o})) \in Nat
  <2>1. S \in SUBSET S /\ S \ {o} \in SUBSET S
    OBVIOUS
  <2>2. Cardinality(Numbered(h, S)) = h[o] + Cardinality(Numbered(h, S \ {o}))
    BY <1>1, <2>1, NumberedStep
  <2>3. Cardinality(Numbered(h, S \ {o})) \in Nat
    BY <1>1, <2>1, NumberedStep
  <2>4. QED
    BY <2>2, <2>3
<1>6. QED
  <2>1. /\ Cardinality(Numbered(f, S)) = f[o] + Cardinality(Numbered(f, S \ {o}))
        /\ Cardinality(Numbered(g, S)) = g[o] + Cardinality(Numbered(f, S \ {o}))
        /\ Cardinality(Numbered(f, S \ {o})) \in Nat
    BY <1>1, <1>4, <1>5
  <2>2. QED
    BY <1>2, <1>3, <2>1

LEMMA TotalInit == ProfInit => TotalInv
<1> SUFFICES ASSUME ProfInit PROVE TotalInv
  OBVIOUS
<1>1. opcodecount \in [Opcode -> 0 .. 0] /\ opcodecount = [o \in Opcode |-> 0]
  BY DEF ProfInit
<1>2. Numbered(opcodecount, Opcode) = {}
  BY <1>1 DEF Numbered
<1>3. SumFunction(opcodecount) = 0
  BY <1>1, <1>2, SumIsCount, OpcodeAssumption, FS_EmptySet
<1>4. QED
  BY <1>3 DEF ProfInit, TotalInv, TotalCountsCycles

LEMMA TotalStep ==
  ASSUME ProfTypeOK, CountsBounded, LayerInv, TotalInv, [ProfNext]_profVars
  PROVE  TotalInv'
<1>0. /\ globalCycle \in 0 .. MaxCalls /\ MaxCalls \in Nat /\ Len(layerOf) = globalCycle
      /\ opcodecount \in [Opcode -> 0 .. MaxCalls]
  BY ProfBoundAssumption DEF ProfTypeOK
<1>1. CASE LayerStarts
  BY <1>1 DEF LayerStarts, TotalInv, TotalCountsCycles
<1>2. CASE LayerEnds
  BY <1>2 DEF LayerEnds, TotalInv, TotalCountsCycles
<1>3. ASSUME NEW o \in Opcode, doProfiling(o) PROVE TotalInv'
  <2>1. SumFunction(opcodecount') = globalCycle'
    <3>1. SumFunction(opcodecount') = SumFunction(opcodecount) + 1
      BY <1>0, <1>3, SumIncremented, OpcodeAssumption DEF doProfiling
    <3>2. QED
      BY <1>3, <3>1 DEF doProfiling, TotalInv
  <2>2. profile' = << >>
    BY <1>3 DEF doProfiling, TotalInv
  <2>3. QED
    BY <2>1, <2>2 DEF TotalInv, TotalCountsCycles
<1>4. CASE endProfiling
  <2>1. profPhase' # "run" /\ SumFunction(opcodecount') = globalCycle'
    BY <1>4 DEF endProfiling, TotalInv
  <2>2. CASE profile' = << >>
    BY <2>1, <2>2 DEF TotalInv, TotalCountsCycles
  <2>3. CASE profile' # << >>
    <3>1. profile' = <<Profile>> /\ \A o \in Opcode : opcodecount[o] > 0 => Weight[o] >= 0
      BY <1>4, <2>3 DEF endProfiling
    <3>2. ASSUME NEW o \in Opcode PROVE opcodecount[o] * Weight[o] = opcodecount[o]
      <4>1. opcodecount[o] \in Nat /\ Weight[o] \in {-1, 1}
        BY <1>0, WeightAssumption
      <4>2. CASE opcodecount[o] = 0
        BY <4>1, <4>2
      <4>3. CASE opcodecount[o] > 0
        BY <3>1, <4>1, <4>3
      <4>4. QED
        BY <4>1, <4>2, <4>3
    <3>3. [o \in Opcode |-> opcodecount[o] * Weight[o]] = opcodecount
      BY <1>0, <3>2
    <3>4. Profile.total_cycle = globalCycle /\ Profile.ml_layers = layerProfileInfo
      BY <3>3 DEF Profile, TotalInv
    <3>5. \A k \in 1 .. Len(layerProfileInfo) : layerProfileInfo[k].cycleEnd <= globalCycle
      BY DEF LayerInv, Ranged
    <3>6. profile'[1] = Profile
      BY <3>1
    <3>7. layerOf' = layerOf
      BY <1>4 DEF endProfiling
    <3>8. TotalCountsCycles'
      BY <1>0, <3>4, <3>5, <3>6, <3>7 DEF TotalCountsCycles
    <3>9. QED
      BY <2>1, <3>8 DEF TotalInv
  <2>4. QED
    BY <2>2, <2>3
<1>5. CASE ProfKill
  BY <1>5 DEF ProfKill, TotalInv, TotalCountsCycles
<1>6. CASE UNCHANGED profVars
  BY <1>6 DEF profVars, TotalInv, TotalCountsCycles
<1>7. QED
  BY <1>1, <1>2, <1>3, <1>4, <1>5, <1>6 DEF ProfNext, ProfEnded

LEMMA TotalInvariant == ProfSpec => [](ProfTypeOK /\ CountsBounded /\ TotalInv)
<1>1. ProfInit => ProfTypeOK /\ CountsBounded /\ LayerInv /\ TotalInv
  BY ProfTypeInit, LayerInit, TotalInit
<1>2. ProfTypeOK /\ CountsBounded /\ LayerInv /\ TotalInv /\ [ProfNext]_profVars
        => (ProfTypeOK /\ CountsBounded /\ LayerInv /\ TotalInv)'
  BY ProfTypeStep, LayerStep, TotalStep
<1>3. QED
  BY <1>1, <1>2, PTL DEF ProfSpec

(* A total in the file is the number of cycles executed, and every layer's *)
(* range in the file lies within it.                                       *)
THEOREM TotalCountsCyclesCorrect == ProfSpec => []TotalCountsCycles
<1>1. TotalInv => TotalCountsCycles
  BY DEF TotalInv
<1>2. QED
  BY <1>1, TotalInvariant, PTL
=============================================================================
