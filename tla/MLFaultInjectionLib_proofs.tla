--------------------- MODULE MLFaultInjectionLib_proofs ---------------------
(***************************************************************************)
(* Proofs about the ML runtime, for every configuration file, every        *)
(* register width and every program.                                       *)
(***************************************************************************)
EXTENDS MLFaultInjectionLib, SequenceTheorems, TLAPS

(* Sorting the cycles of the file gives as many cycles.                    *)
LEMMA SortedCycles ==
  ASSUME NEW f \in MLOptions, NEW t \in Sorted(Pushed(f))
  PROVE  /\ t \in Seq(MLCycle)
         /\ Len(t) = Len(Pushed(f))
<1>1. Pushed(f) \in Seq(MLCycle)
  <2>1. f.fi_next_cycles \in Seq(MLCycle)
    BY DEF MLOptions
  <2>2. f.fi_cycle # NoOption => <<f.fi_cycle>> \in Seq(MLCycle)
    BY DEF MLOptions
  <2>3. << >> \in Seq(MLCycle)
    BY EmptySeq
  <2>4. QED
    BY <2>1, <2>2, <2>3, ConcatProperties DEF Pushed
<1>2. \A k \in DOMAIN Pushed(f) : Pushed(f)[k] \in MLCycle
  BY <1>1
<1>3. t \in [DOMAIN Pushed(f) -> {Pushed(f)[k] : k \in DOMAIN Pushed(f)}]
  BY DEF Sorted
<1>4. t \in [1 .. Len(Pushed(f)) -> MLCycle]
  BY <1>1, <1>2, <1>3
<1>5. QED
  BY <1>1, <1>4, IsASeq

LEMMA LastElement ==
  ASSUME NEW S, NEW s \in Seq(S), s # << >>
  PROVE  Len(s) \in Nat \ {0} /\ s[Len(s)] \in S
<1>1. Len(s) \in Nat /\ Len(s) # 0
  BY EmptySeq
<1>2. QED
  BY <1>1

LEMMA MLInitType == MLInit => MLTypeOK
<1> SUFFICES ASSUME MLInit PROVE MLTypeOK
  OBVIOUS
<1>1. doFI \in BOOLEAN /\ closed \in BOOLEAN
  BY DEF MLInit
<1>2. /\ << >> \in Seq(MLCycle) /\ << >> \in Seq(0 .. Size - 1)
      /\ << >> \in Seq([cycle : Nat, bit : 0 .. Size - 1])
  BY EmptySeq
<1>3. QED
  BY <1>1, <1>2, MLFileAssumption DEF MLInit, MLTypeOK, MLPhase

(* Every step keeps the types. *)
LEMMA MLNextType == MLTypeOK /\ [MLNext]_mlVars => MLTypeOK'
<1> SUFFICES ASSUME MLTypeOK, [MLNext]_mlVars PROVE MLTypeOK'
  OBVIOUS
<1> USE DEF MLTypeOK, MLPhase
<1>1. CASE MLInitInjections
  <2>1. CASE Rejected \/ Insane
    BY <1>1, <2>1 DEF MLInitInjections, configVars, countVars
  <2>2. CASE ~(Rejected \/ Insane)
    <3>1. fi_cycle' \in Seq(MLCycle)
      BY <1>1, <2>2, SortedCycles DEF MLInitInjections
    <3>2. fi_max_multiple' \in Nat /\ fi_max_multiple' > 0
      <4>1. mlFile.fi_max_multiple \in MLCycle
        BY <2>2, MLFileAssumption DEF Insane, MLOptions
      <4>2. QED
        BY <1>1, <2>2, <4>1 DEF MLInitInjections, MLCycle
    <3>3. QED
      BY <1>1, <2>2, <3>1, <3>2 DEF MLInitInjections, countVars
  <2>3. QED
    BY <2>1, <2>2
<1>2. CASE MLPreFuncOff \/ MLPreFuncDeclines
  <2>1. doFI' \in BOOLEAN /\ closed' \in BOOLEAN
    BY <1>2 DEF MLPreFuncOff, MLPreFuncDeclines
  <2>2. /\ UNCHANGED <<mlPhase, configVars, FICycleIndex, mlHits, mlRecorded, mlCorrupted>>
        /\ CurrentCycle' \in {CurrentCycle, CurrentCycle + 1} /\ calls' = calls + 1
    BY <1>2 DEF MLPreFuncOff, MLPreFuncDeclines
  <2>3. QED
    BY <2>1, <2>2 DEF configVars
<1>3. CASE MLPreFuncSelects
  <2>1. mlHits' \in Seq(MLCycle)
    BY <1>3, AppendProperties DEF MLPreFuncSelects, MLCycle
  <2>2. QED
    BY <1>3, <2>1 DEF MLPreFuncSelects, StaysOn, configVars
<1>4. CASE MLInject
  <2>1. CASE mlFile.fi_type = "bitflip"
    <3>1. PICK b \in 0 .. Size - 1 : mlCorrupted' = Append(mlCorrupted, b)
      BY <1>4, <2>1 DEF MLInject
    <3>2. mlCorrupted \in Seq(0 .. Size - 1)
      OBVIOUS
    <3>3. mlCorrupted' \in Seq(0 .. Size - 1) /\ mlCorrupted' # << >>
      <4> HIDE DEF MLTypeOK, MLPhase
      <4>1. QED
        BY ONLY <3>1, <3>2, AppendProperties
    <3>4. QED
      BY <1>4, <2>1, <3>3 DEF MLInject, configVars, countVars
  <2>2. CASE mlFile.fi_type # "bitflip"
    BY <1>4, <2>2 DEF MLInject, configVars, countVars
  <2>3. QED
    BY <2>1, <2>2
<1>5. CASE MLPrint
  <2>1. Record \in [cycle : Nat, bit : 0 .. Size - 1]
    <3>1. mlCorrupted \in Seq(0 .. Size - 1) /\ mlCorrupted # << >>
      BY <1>5 DEF MLPrint
    <3>2. mlCorrupted[Len(mlCorrupted)] \in 0 .. Size - 1
      BY <3>1, LastElement
    <3>3. QED
      BY <3>2 DEF Record
  <2>2. QED
    BY <1>5, <2>1, AppendProperties DEF MLPrint, configVars, countVars
<1>6. CASE MLPostInjections
  BY <1>6 DEF MLPostInjections, configVars, countVars
<1>7. CASE MLEnds
  BY <1>7 DEF MLEnds, configVars, countVars
<1>8. CASE UNCHANGED mlVars
  BY <1>8 DEF mlVars, configVars, countVars
<1>9. QED
  BY <1>1, <1>2, <1>3, <1>4, <1>5, <1>6, <1>7, <1>8 DEF MLNext, MLEnded

(* The state of the ML runtime is well formed.                             *)
THEOREM MLTypeCorrect == MLSpec => []MLTypeOK
<1>1. QED
  BY MLInitType, MLNextType, PTL DEF MLSpec

-----------------------------------------------------------------------------
LEMMA PlanInit == MLInit => PlanInv
BY EmptySeq DEF MLInit, PlanInv

(* Injections go off with the fault that completes the plan.               *)
LEMMA PlanStep ==
  ASSUME MLTypeOK, PlanInv, [MLNext]_mlVars
  PROVE  PlanInv'
<1> USE DEF PlanInv, MLTypeOK
<1>1. CASE MLInitInjections
  <2>1. CASE Rejected \/ Insane
    BY <1>1, <2>1 DEF MLInitInjections, configVars, countVars
  <2>2. CASE ~(Rejected \/ Insane)
    <3>1. mlFile.fi_max_multiple \in MLCycle
      BY <2>2, MLFileAssumption DEF Insane, MLOptions
    <3>2. fi_max_multiple' \in Nat /\ fi_max_multiple' > 0
      BY <1>1, <2>2, <3>1 DEF MLInitInjections, MLCycle
    <3>3. QED
      BY <1>1, <2>2, <3>2, EmptySeq DEF MLInitInjections, countVars
  <2>3. QED
    BY <2>1, <2>2
<1>2. CASE MLPreFuncOff \/ MLPreFuncDeclines
  <2>1. /\ UNCHANGED <<fi_max_multiple, FICycleIndex, mlHits, doFI, closed>>
        /\ doFI => CurrentCycle' = CurrentCycle + 1
        /\ calls' = calls + 1 /\ mlPhase' = "run"
    BY <1>2 DEF MLPreFuncOff, MLPreFuncDeclines, configVars
  <2>2. QED
    BY <2>1
<1>3. CASE MLPreFuncSelects
  <2>1. Len(mlHits') = Len(mlHits) + 1
    BY <1>3, AppendProperties DEF MLPreFuncSelects
  <2>2. /\ doFI /\ FICycleIndex' = FICycleIndex + 1 /\ doFI' = StaysOn
        /\ CurrentCycle' = CurrentCycle + 1 /\ calls' = calls + 1
        /\ mlPhase = "run" /\ mlPhase' = "inject"
        /\ UNCHANGED <<fi_max_multiple, closed>>
    BY <1>3 DEF MLPreFuncSelects, configVars
  <2>3. doFI' <=> FICycleIndex + 1 < fi_max_multiple
    BY <2>2 DEF StaysOn
  <2>4. FICycleIndex < fi_max_multiple /\ ~closed
    BY <2>2
  <2>5. QED
    BY <2>1, <2>2, <2>3, <2>4
<1>4. CASE MLInject \/ MLPrint
  BY <1>4 DEF MLInject, MLPrint, configVars, countVars
<1>5. CASE MLPostInjections
  BY <1>5 DEF MLPostInjections, configVars, countVars
<1>6. CASE MLEnds
  BY <1>6 DEF MLEnds, configVars, countVars
<1>7. CASE UNCHANGED mlVars
  BY <1>7 DEF mlVars, configVars, countVars
<1>8. QED
  BY <1>1, <1>2, <1>3, <1>4, <1>5, <1>6, <1>7 DEF MLNext, MLEnded

(* No file makes the ML runtime inject more faults than it asks for.       *)
THEOREM MLNoMoreThanAskedCorrect == MLSpec => []MLNoMoreThanAsked
<1>1. PlanInv => MLNoMoreThanAsked
  BY DEF PlanInv, MLNoMoreThanAsked
<1>2. MLTypeOK /\ PlanInv /\ [MLNext]_mlVars => PlanInv'
  BY PlanStep
<1>3. QED
  BY <1>1, <1>2, PlanInit, MLTypeCorrect, PTL DEF MLSpec

-----------------------------------------------------------------------------
LEMMA Cycles ==
  ASSUME MLTypeOK
  PROVE  /\ Len(fi_cycle) \in Nat /\ Len(mlHits) \in Nat
         /\ \A k \in 1 .. Len(fi_cycle) : fi_cycle[k] \in Nat /\ fi_cycle[k] > 0
BY DEF MLTypeOK, MLCycle

LEMMA StruckInit == MLInit => StruckInv
BY EmptySeq DEF MLInit, StruckInv

(* The plan is taken up in its order, and nothing of it is passed.         *)
LEMMA StruckStep ==
  ASSUME MLTypeOK, MLTypeOK', PlanInv, StruckInv, [MLNext]_mlVars
  PROVE  StruckInv'
<1>c. /\ Len(fi_cycle) \in Nat /\ Len(mlHits) \in Nat
      /\ FICycleIndex \in Nat /\ calls \in Nat /\ fi_max_multiple \in Nat
      /\ mlPhase = "run" => fi_max_multiple > 0
      /\ \A k \in 1 .. Len(fi_cycle) : fi_cycle[k] \in Nat /\ fi_cycle[k] > 0
  BY Cycles DEF MLTypeOK
<1> USE DEF StruckInv
<1>1. CASE MLInitInjections
  <2>1. CASE Rejected \/ Insane
    BY <1>1, <2>1 DEF MLInitInjections, configVars, countVars, Regular
  <2>2. CASE ~(Rejected \/ Insane)
    <3>1. calls' = 0 /\ FICycleIndex' = 0 /\ Len(mlHits') = 0
      BY <1>1, <2>2, EmptySeq DEF MLInitInjections, countVars, PlanInv
    <3>2. \A k \in 1 .. Len(fi_cycle') : fi_cycle'[k] > 0
      BY ONLY MLTypeOK' DEF MLTypeOK, MLCycle
    <3>3. QED
      BY <3>1, <3>2
  <2>3. QED
    BY <2>1, <2>2
<1>2. CASE MLPreFuncOff
  BY <1>2 DEF MLPreFuncOff, configVars, Regular
<1>3. CASE MLPreFuncDeclines
  <2>1. /\ UNCHANGED <<fi_cycle, fi_max_multiple, mlHits, FICycleIndex, doFI>>
        /\ doFI /\ FALSE \in IsFICycle /\ calls' = calls + 1
    BY <1>3 DEF MLPreFuncDeclines, configVars
  <2>2. FICycleIndex < Len(fi_cycle) => calls + 1 # fi_cycle[FICycleIndex + 1]
    BY <2>1 DEF IsFICycle, PlanInv
  <2>3. FICycleIndex < Len(fi_cycle) => fi_cycle[FICycleIndex + 1] \in Nat
    <3>1. FICycleIndex < Len(fi_cycle) => FICycleIndex + 1 \in 1 .. Len(fi_cycle)
      BY <1>c
    <3>2. QED
      BY <3>1, <1>c
  <2>4. QED
    BY <2>1, <2>2, <2>3, <1>c DEF Regular
<1>4. CASE MLPreFuncSelects
  <2>1. /\ UNCHANGED <<fi_cycle, fi_max_multiple>>
        /\ doFI /\ TRUE \in IsFICycle /\ calls' = calls + 1
        /\ FICycleIndex' = FICycleIndex + 1
        /\ mlHits' = Append(mlHits, calls + 1)
        /\ mlPhase = "run"
    BY <1>4 DEF MLPreFuncSelects, configVars
  <2>2. SUFFICES ASSUME Regular PROVE StruckInv'
    BY <2>1 DEF Regular
  <2>3. FICycleIndex < Len(fi_cycle) /\ FICycleIndex = Len(mlHits)
    BY <1>c, <2>1, <2>2 DEF Regular, PlanInv
  <2>4. calls + 1 = fi_cycle[FICycleIndex + 1]
    BY <2>1, <2>3 DEF IsFICycle, PlanInv
  <2>5. /\ Len(mlHits') = Len(mlHits) + 1
        /\ mlHits'[Len(mlHits) + 1] = calls + 1
        /\ \A k \in 1 .. Len(mlHits) : mlHits'[k] = mlHits[k]
    <3>1. mlHits \in Seq(Nat) /\ calls + 1 \in Nat
      BY <1>c DEF MLTypeOK, MLCycle
    <3>2. QED
      BY ONLY <2>1, <3>1, AppendProperties
  <2>6. ASSUME NEW k \in 1 .. Len(mlHits') PROVE mlHits'[k] = fi_cycle[k]
    <3>1. CASE k \in 1 .. Len(mlHits)
      <4>1. mlHits[k] = fi_cycle[k]
        BY <2>2, <3>1
      <4>2. QED
        BY <2>5, <3>1, <4>1
    <3>2. CASE k \notin 1 .. Len(mlHits)
      <4>1. k = Len(mlHits) + 1
        BY <2>5, <3>2, <1>c
      <4>2. QED
        BY <2>3, <2>4, <2>5, <4>1
    <3>3. QED
      BY <3>1, <3>2
  <2>7. ASSUME FICycleIndex + 1 < Len(fi_cycle)
        PROVE  calls + 1 < fi_cycle[FICycleIndex + 2]
    <3>1. /\ FICycleIndex + 1 \in 1 .. Len(fi_cycle)
          /\ FICycleIndex + 2 \in 1 .. Len(fi_cycle)
          /\ FICycleIndex + 1 < FICycleIndex + 2
      BY <2>7, <1>c
    <3>2. fi_cycle[FICycleIndex + 1] < fi_cycle[FICycleIndex + 2]
      BY <2>2, <3>1 DEF Regular
    <3>3. QED
      BY <2>4, <3>2
  <2>8. doFI' /\ FICycleIndex' < Len(fi_cycle') => calls' < fi_cycle'[FICycleIndex' + 1]
    <3>1. FICycleIndex' + 1 = FICycleIndex + 2
      BY <1>c, <2>1
    <3>2. QED
      BY <2>1, <2>7, <3>1
  <2>9. QED
    BY <2>6, <2>1, <2>8
<1>5. CASE MLInject \/ MLPrint
  BY <1>5 DEF MLInject, MLPrint, configVars, countVars, Regular
<1>6. CASE MLPostInjections
  BY <1>6 DEF MLPostInjections, configVars, countVars, Regular
<1>7. CASE MLEnds
  BY <1>7 DEF MLEnds, configVars, countVars, Regular
<1>8. CASE UNCHANGED mlVars
  BY <1>8 DEF mlVars, configVars, countVars, Regular
<1>9. QED
  BY <1>1, <1>2, <1>3, <1>4, <1>5, <1>6, <1>7, <1>8 DEF MLNext, MLEnded

LEMMA StruckPlan ==
  ASSUME MLTypeOK, PlanInv, StruckInv
  PROVE  MLPlanStruck
<1> USE DEF MLTypeOK, MLCycle
<1> SUFFICES ASSUME Regular
             PROVE  /\ Len(mlHits) <= Len(Planned)
                    /\ \A k \in 1 .. Len(mlHits) : mlHits[k] = Planned[k]
                    /\ ~closed => \A k \in 1 .. Len(Planned) :
                                    Planned[k] <= calls => k <= Len(mlHits)
  BY DEF MLPlanStruck
<1>1. /\ Planned = SubSeq(fi_cycle, 1, fi_max_multiple)
      /\ fi_max_multiple <= Len(fi_cycle)
  BY DEF Planned, Regular
<1>2. /\ Len(Planned) = fi_max_multiple
      /\ \A k \in 1 .. fi_max_multiple : Planned[k] = fi_cycle[k]
  BY <1>1, SubSeqProperties
<1>3. Len(mlHits) <= fi_max_multiple /\ FICycleIndex = Len(mlHits)
  BY DEF PlanInv
<1>4. ASSUME NEW k \in 1 .. Len(mlHits) PROVE mlHits[k] = Planned[k]
  <2>1. mlHits[k] = fi_cycle[k]
    BY DEF StruckInv
  <2>2. k \in 1 .. fi_max_multiple
    BY <1>3, Cycles
  <2>3. QED
    BY <1>2, <2>1, <2>2
<1>5. ASSUME ~closed, NEW k \in 1 .. fi_max_multiple, Planned[k] <= calls,
             k > Len(mlHits)
      PROVE  FALSE
  <2>1. doFI /\ FICycleIndex < Len(fi_cycle)
    BY <1>1, <1>3, <1>5 DEF PlanInv
  <2>2. calls < fi_cycle[FICycleIndex + 1]
    BY <2>1 DEF StruckInv
  <2>3. FICycleIndex + 1 \in 1 .. Len(fi_cycle) /\ k \in 1 .. Len(fi_cycle)
    BY <1>1, <1>5, <2>1, Cycles
  <2>4. fi_cycle[k] \in Nat /\ fi_cycle[FICycleIndex + 1] \in Nat
    BY <2>3, Cycles
  <2>5. fi_cycle[FICycleIndex + 1] <= fi_cycle[k]
    <3>1. FICycleIndex + 1 < k \/ FICycleIndex + 1 = k
      BY <1>3, <1>5
    <3>2. QED
      BY <2>3, <2>4, <3>1 DEF Regular
  <2>6. QED
    BY <1>2, <1>5, <2>2, <2>4, <2>5
<1>6. QED
  BY <1>2, <1>3, <1>4, <1>5

(* Faults strike at the planned calls, at all of them and at no others,    *)
(* for every regular file.                                                 *)
THEOREM MLPlanStruckCorrect == MLSpec => []MLPlanStruck
<1>1. MLTypeOK /\ PlanInv /\ StruckInv => MLPlanStruck
  BY StruckPlan
<1>2. MLTypeOK /\ PlanInv /\ [MLNext]_mlVars => PlanInv'
  BY PlanStep
<1>3. MLTypeOK /\ MLTypeOK' /\ PlanInv /\ StruckInv /\ [MLNext]_mlVars => StruckInv'
  BY StruckStep
<1>4. QED
  BY <1>1, <1>2, <1>3, PlanInit, StruckInit, MLTypeCorrect, PTL DEF MLSpec

-----------------------------------------------------------------------------
LEMMA RecordInit == MLInit => MLRecordInv
BY EmptySeq DEF MLInit, MLRecordInv

(* A fault is selected, injected and recorded before the next one.         *)
LEMMA RecordStep ==
  ASSUME MLTypeOK, PlanInv, MLRecordInv, [MLNext]_mlVars
  PROVE  MLRecordInv'
<1> USE DEF MLRecordInv, MLTypeOK
<1>1. CASE MLInitInjections
  BY <1>1 DEF MLInitInjections, countVars
<1>2. CASE MLPreFuncOff \/ MLPreFuncDeclines
  BY <1>2 DEF MLPreFuncOff, MLPreFuncDeclines
<1>3. CASE MLPreFuncSelects
  <2>1. /\ Len(mlHits') = Len(mlHits) + 1
        /\ mlHits'[Len(mlHits) + 1] = calls + 1
        /\ \A k \in 1 .. Len(mlHits) : mlHits'[k] = mlHits[k]
    BY <1>3, AppendProperties DEF MLPreFuncSelects
  <2>2. CurrentCycle' = calls + 1 /\ ~closed'
    BY <1>3 DEF MLPreFuncSelects, PlanInv
  <2>3. QED
    BY <1>3, <2>1, <2>2 DEF MLPreFuncSelects
<1>4. CASE MLInject
  <2>1. CASE mlFile.fi_type = "bitflip"
    <3>1. PICK b \in 0 .. Size - 1 : mlCorrupted' = Append(mlCorrupted, b)
      BY <1>4, <2>1 DEF MLInject
    <3>2. /\ Len(mlCorrupted') = Len(mlCorrupted) + 1
          /\ \A k \in 1 .. Len(mlCorrupted) : mlCorrupted'[k] = mlCorrupted[k]
      BY <3>1, AppendProperties
    <3>3. QED
      BY <1>4, <2>1, <3>2 DEF MLInject, countVars
  <2>2. CASE mlFile.fi_type # "bitflip"
    BY <1>4, <2>2 DEF MLInject, countVars
  <2>3. QED
    BY <2>1, <2>2
<1>5. CASE MLPrint
  <2>1. Record \in [cycle : Nat, bit : 0 .. Size - 1]
    <3>1. mlCorrupted \in Seq(0 .. Size - 1) /\ mlCorrupted # << >>
      BY <1>5 DEF MLPrint
    <3>2. mlCorrupted[Len(mlCorrupted)] \in 0 .. Size - 1
      BY <3>1, LastElement
    <3>3. QED
      BY <3>2 DEF Record
  <2>2. /\ Len(mlRecorded') = Len(mlRecorded) + 1
        /\ mlRecorded'[Len(mlRecorded) + 1] = Record
        /\ \A k \in 1 .. Len(mlRecorded) : mlRecorded'[k] = mlRecorded[k]
    BY <1>5, <2>1, AppendProperties DEF MLPrint
  <2>3. Record = [cycle |-> mlHits[Len(mlRecorded) + 1],
                  bit |-> mlCorrupted[Len(mlRecorded) + 1]]
    BY <1>5 DEF MLPrint, Record
  <2>4. QED
    BY <1>5, <2>2, <2>3 DEF MLPrint, countVars
<1>6. CASE MLPostInjections
  BY <1>6 DEF MLPostInjections, countVars
<1>7. CASE MLEnds
  BY <1>7 DEF MLEnds, countVars
<1>8. CASE UNCHANGED mlVars
  BY <1>8 DEF mlVars, countVars
<1>9. QED
  BY <1>1, <1>2, <1>3, <1>4, <1>5, <1>6, <1>7, <1>8 DEF MLNext, MLEnded

LEMMA RecordFollows ==
  ASSUME MLTypeOK, MLRecordInv
  PROVE  MLRecordFollows
<1>1. Len(mlRecorded) \in Nat /\ Len(mlCorrupted) \in Nat
  <2>1. mlRecorded \in Seq([cycle : Nat, bit : 0 .. Size - 1]) /\ mlCorrupted \in Seq(0 .. Size - 1)
    BY DEF MLTypeOK
  <2>2. QED
    BY ONLY <2>1, LenProperties
<1>2. mlPhase \in MLPhase
  BY DEF MLTypeOK
<1>3. /\ mlPhase \in {"boot", "run", "inject", "exited", "aborted"} =>
           Len(mlCorrupted) = Len(mlRecorded)
      /\ mlPhase = "print" => Len(mlCorrupted) = Len(mlRecorded) + 1
      /\ mlPhase = "killed" => Len(mlCorrupted) \in {Len(mlRecorded), Len(mlRecorded) + 1}
  BY DEF MLRecordInv
<1>4. /\ Len(mlCorrupted) \in {Len(mlRecorded), Len(mlRecorded) + 1}
      /\ Len(mlCorrupted) > Len(mlRecorded) => mlPhase \in {"print", "killed"}
  BY <1>1, <1>2, <1>3 DEF MLPhase
<1>5. \A k \in 1 .. Len(mlRecorded) :
        mlRecorded[k] = [cycle |-> mlHits[k], bit |-> mlCorrupted[k]]
  BY DEF MLRecordInv
<1>6. QED
  BY <1>4, <1>5 DEF MLRecordFollows

(* The records are those of the bits flipped, and at most one behind.      *)
THEOREM MLRecordFollowsCorrect == MLSpec => []MLRecordFollows
<1>1. MLTypeOK /\ MLRecordInv => MLRecordFollows
  BY RecordFollows
<1>2. MLTypeOK /\ PlanInv /\ [MLNext]_mlVars => PlanInv'
  BY PlanStep
<1>3. MLTypeOK /\ PlanInv /\ MLRecordInv /\ [MLNext]_mlVars => MLRecordInv'
  BY RecordStep
<1>4. QED
  BY <1>1, <1>2, <1>3, PlanInit, RecordInit, MLTypeCorrect, PTL DEF MLSpec

(* Nothing is injected after the file was closed.                          *)
THEOREM MLClosedForGoodCorrect == MLSpec => []MLClosedForGood
<1>1. MLRecordInv => MLClosedForGood
  BY DEF MLRecordInv, MLClosedForGood
<1>2. MLTypeOK /\ PlanInv /\ [MLNext]_mlVars => PlanInv'
  BY PlanStep
<1>3. MLTypeOK /\ PlanInv /\ MLRecordInv /\ [MLNext]_mlVars => MLRecordInv'
  BY RecordStep
<1>4. QED
  BY <1>1, <1>2, <1>3, PlanInit, RecordInit, MLTypeCorrect, PTL DEF MLSpec
=============================================================================
