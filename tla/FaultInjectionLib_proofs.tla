---------------------- MODULE FaultInjectionLib_proofs ----------------------
(***************************************************************************)
(* Proofs about the fault injection runtime, for every program, every      *)
(* register width and every configuration file.                            *)
(***************************************************************************)
EXTENDS FaultInjectionLib, SequenceTheorems, FiniteSetTheorems, TLAPS

(* The register index of a call that is being served. *)
LEMMA RegIndexType ==
  ASSUME TypeOK, phase \in {"call", "inject", "flush", "corrupt"}
  PROVE  cur \in Inst /\ MyRegIndex \in Nat
<1>1. cur \in Inst /\ call \in 1 .. Len(RegCalls[cur])
  BY DEF TypeOK
<1>2. RegCalls[cur] \in Seq(Nat)
  BY <1>1, RegAssumption
<1>3. QED
  BY <1>1, <1>2 DEF MyRegIndex

(* The parsed configuration is a value of the struct. *)
LEMMA ParsedType ==
  ASSUME NEW f \in ConfigFile
  PROVE  Parsed(f) \in ConfigType
<1>1. f \in ConfigOptions
  BY FileAssumption
<1>2. QED
  BY <1>1 DEF Parsed, ConfigType, ConfigOptions, Unset

(* So is the configuration after the library moved to the next location. *)
LEMMA AdvancedType ==
  ASSUME config \in ConfigType
  PROVE  Advanced \in ConfigType
<1>1. CASE config.fi_second_cycle # Unset
  <2>1. config.fi_second_cycle \in Cycle
    BY <1>1 DEF ConfigType
  <2>2. Advanced = [config EXCEPT !.fi_cycle = config.fi_second_cycle,
                                  !.fi_second_cycle = Unset]
    BY <1>1 DEF Advanced
  <2>3. QED
    BY <2>1, <2>2 DEF ConfigType
<1>2. CASE config.fi_second_cycle = Unset /\ config.fi_next_cycles # << >>
  <2>1. config.fi_next_cycles \in Seq(Cycle)
    BY DEF ConfigType
  <2>2. /\ Head(config.fi_next_cycles) \in Cycle
        /\ Tail(config.fi_next_cycles) \in Seq(Cycle)
    BY <1>2, <2>1
  <2>3. Advanced = [config EXCEPT !.fi_cycle = Head(config.fi_next_cycles),
                                  !.fi_next_cycles = Tail(config.fi_next_cycles)]
    BY <1>2 DEF Advanced
  <2>4. QED
    BY <2>2, <2>3 DEF ConfigType
<1>3. CASE config.fi_second_cycle = Unset /\ config.fi_next_cycles = << >>
  BY <1>3 DEF Advanced
<1>4. QED
  BY <1>1, <1>2, <1>3

(* An injector keeps the register within its width. *)
LEMMA InjectType ==
  ASSUME NEW t, Known(t), NEW v \in SUBSET Bit, NEW b \in Bit
  PROVE  InjectFaultImpl(t, v, b) \in SUBSET Bit
<1>1. CASE t = "bitflip"
  BY <1>1 DEF InjectFaultImpl, BitFlip
<1>2. CASE t = "stuck_at_0"
  BY <1>2 DEF InjectFaultImpl, StuckAt0
<1>3. CASE t = "stuck_at_1"
  BY <1>3 DEF InjectFaultImpl, StuckAt1
<1>4. QED
  BY <1>1, <1>2, <1>3 DEF Known, RegisteredInjectors

(* Cycles[i] is the cycles of opcode i: an instruction that counts, counts *)
(* one.                                                                    *)
LEMMA CountedCycle ==
  ASSUME NEW i \in Inst, Counted(i)
  PROVE  Cycles[i] = 1
<1>1. Cycles[i] >= 0 /\ Cycles[i] \in {-1, 1}
  BY CycleAssumption DEF Counted
<1>2. QED
  BY <1>1

(* A call that returns leaves a well-typed program state. *)
LEMMA CallReturnsType ==
  ASSUME TypeOK, phase \in {"call", "inject"}, CallReturns
  PROVE  /\ phase' \in {"call", "run"}
         /\ cur' \in Inst \cup {None}
         /\ call' \in Nat
         /\ phase' = "call" => cur' \in Inst /\ call' \in 1 .. Len(RegCalls[cur'])
         /\ trace' \in Seq(Inst)
<1>1. cur \in Inst /\ call \in 1 .. Len(RegCalls[cur]) /\ trace \in Seq(Inst)
  BY DEF TypeOK
<1>2. Len(RegCalls[cur]) \in Nat
  BY <1>1, RegAssumption
<1>3. CASE call < Len(RegCalls[cur])
  BY <1>1, <1>2, <1>3 DEF CallReturns
<1>4. CASE ~(call < Len(RegCalls[cur]))
  BY <1>1, <1>2, <1>4 DEF CallReturns, None
<1>5. QED
  BY <1>3, <1>4

LEMMA InitType == Init => TypeOK
<1> SUFFICES ASSUME Init PROVE TypeOK
  OBVIOUS
<1>1. Defaults \in ConfigType
  <2>1. << >> \in Seq(Cycle) /\ "bitflip" \in FiType
    BY EmptySeq DEF FiType, RegisteredInjectors
  <2>2. ASSUME NEW s \in Seq(Cycle), NEW t \in FiType
        PROVE  [fi_type |-> t, fi_accordingto_cycle |-> FALSE,
                fi_cycle |-> Unset, fi_index |-> Unset, fi_reg_index |-> Unset,
                fi_bit |-> Unset, fi_num_bits |-> 1, fi_second_cycle |-> Unset,
                fi_next_cycles |-> s] \in ConfigType
    BY DEF ConfigType
  <2>3. QED
    BY <2>1, <2>2 DEF Defaults
<1>2. 0 \in Bit /\ 0 \in 0 .. Width 
  BY ValueAssumption DEF Bit
<1>3. << >> \in Seq(FaultRecord) /\ << >> \in Seq(Inst) /\ << >> \in Seq(HitRecord)
  BY EmptySeq
<1>4. injectedInCurrInst \in BOOLEAN
  BY DEF Init
<1>5. QED
  BY <1>1, <1>2, <1>3, <1>4 DEF Init, TypeOK, Phase, TracingFlag, None, Cycle

(* Every step keeps the types. *)
LEMMA NextType == TypeOK /\ [Next]_vars => TypeOK'
<1> SUFFICES ASSUME TypeOK, [Next]_vars PROVE TypeOK'
  OBVIOUS
<1> USE DEF Phase, TracingFlag, Cycle
<1>1. CASE InitInjections
  <2>1. config' \in ConfigType
    BY <1>1, ParsedType DEF InitInjections, TypeOK
  <2>2. phase' \in {"run", "exited"} /\ start_tracing_flag' \in TracingFlag
    BY <1>1 DEF InitInjections, TypeOK
  <2>3. QED
    BY <1>1, <2>1, <2>2, SMTT(60) DEF InitInjections, TypeOK, loopVars, fileVars
<1>2. ASSUME NEW i \in Inst, BeginInst(i) PROVE TypeOK'
  <2>1. RegCalls[i] \in Seq(Nat) /\ RegCalls[i] # << >>
    BY RegAssumption
  <2>2. 1 \in 1 .. Len(RegCalls[i])
    BY <2>1
  <2>3. QED
    BY <1>2, <2>2 DEF BeginInst, TypeOK, libVars, loopVars, fileVars
<1>3. CASE PreFuncSkips
  <2>1. CallReturns /\ phase \in {"call", "inject"}
    BY <1>3 DEF PreFuncSkips
  <2>2. QED
    BY <1>3, <2>1, CallReturnsType DEF PreFuncSkips, TypeOK, libVars, loopVars, fileVars
<1>4. ASSUME PreFuncSelects \/ PreFuncDeclines PROVE TypeOK'
  <2>1. phase = "call" /\ cur \in Inst /\ call \in 1 .. Len(RegCalls[cur])
        /\ trace \in Seq(Inst)
    BY <1>4 DEF PreFuncSelects, PreFuncDeclines, TypeOK
  <2>2. Cycles[cur] = 1
    <3>1. Counted(cur)
      BY <1>4 DEF PreFuncSelects, PreFuncDeclines
    <3>2. QED
      BY <2>1, <3>1, CountedCycle
  <2>3. RegNum[cur] \in Nat \ {0} /\ MyRegIndex \in Nat
    BY <2>1, RegAssumption DEF MyRegIndex
  <2>4. curr_cycle' \in Cycle
    <3>1. curr_cycle' = CycleAfterCall
      BY <1>4 DEF PreFuncSelects, PreFuncDeclines
    <3>2. QED
      BY <2>2, <2>3, <3>1 DEF CycleAfterCall, TypeOK
  <2>5. CASE PreFuncSelects
    <3>1. hits' \in Seq(HitRecord) /\ hits' # << >>
      <4>1. [at |-> Len(trace) + 1, index |-> cur, reg |-> MyRegIndex] \in HitRecord
        <5>1. Len(trace) \in Nat
          BY <2>1
        <5>2. QED
          BY <2>1, <2>3, <5>1 DEF HitRecord
      <4>2. QED
        BY <2>5, <4>1, AppendProperties DEF PreFuncSelects, TypeOK
    <3>2. fi_cycle_to_print' \in Cycle \cup {Unset}
      BY <2>5 DEF PreFuncSelects, TypeOK, ConfigType
    <3>3. value' \in SUBSET Bit /\ original' \in SUBSET Bit
          /\ runs' \in 0 .. Width
      BY <2>5, ValueAssumption DEF PreFuncSelects
    <3>4. QED
      BY <2>1, <2>4, <2>5, <3>1, <3>2, <3>3 DEF PreFuncSelects, TypeOK, fileVars
  <2>6. CASE PreFuncDeclines
    <3>1. CallReturns
      BY <2>6 DEF PreFuncDeclines
    <3>2. injectedInCurrInst' \in BOOLEAN
      BY <2>6 DEF PreFuncDeclines, AlreadyInjected, TypeOK
    <3>3. QED
      BY <2>1, <2>4, <2>6, <3>1, <3>2, CallReturnsType
         DEF PreFuncDeclines, TypeOK, loopVars, fileVars
  <2>7. QED
    BY <1>4, <2>5, <2>6
<1>5. CASE PrintRecord
  <2>1. PICK b \in PickableBits :
          /\ fi_bit' = b
          /\ score_board' = IF config.fi_bit >= 0 THEN score_board ELSE score_board \cup {b}
          /\ buffered' = Append(buffered, [cycle |-> fi_cycle_to_print, index |-> cur,
                                           reg |-> MyRegIndex, bit |-> b])
    BY <1>5 DEF PrintRecord
  <2>2. b \in Bit
    BY DEF PickableBits
  <2>3. buffered' \in Seq(FaultRecord)
    <3>1. cur \in Inst /\ MyRegIndex \in Nat
      BY <1>5, RegIndexType DEF PrintRecord
    <3>2. [cycle |-> fi_cycle_to_print, index |-> cur, reg |-> MyRegIndex, bit |-> b]
            \in FaultRecord
      BY <2>2, <3>1 DEF TypeOK, FaultRecord
    <3>3. buffered \in Seq(FaultRecord)
      BY DEF TypeOK
    <3>4. QED
      BY ONLY <2>1, <3>2, <3>3, AppendProperties
  <2>4. score_board' \in SUBSET Bit /\ fi_bit' \in Bit
    BY <2>1, <2>2 DEF TypeOK
  <2>5. QED
    BY <1>5, <2>3, <2>4 DEF PrintRecord, MoreBits, TypeOK, libVars
<1>6. CASE FlushRecord
  BY <1>6 DEF FlushRecord, TypeOK, libVars, loopVars
<1>7. CASE Corrupt
  <2>1. config' \in ConfigType
    BY <1>7, AdvancedType DEF Corrupt, TypeOK
  <2>2. CASE Known(config.fi_type)
    <3>1. value' \in SUBSET Bit
      BY <1>7, <2>2, InjectType DEF Corrupt, TypeOK
    <3>2. corrupted' \in Seq(FaultRecord)
      <4>1. cur \in Inst /\ MyRegIndex \in Nat
        BY <1>7, RegIndexType DEF Corrupt
      <4>2. hits \in Seq(HitRecord) /\ hits # << >>
        BY <1>7 DEF Corrupt, TypeOK
      <4>3. hits[Len(hits)] \in HitRecord
        BY <4>2, EmptySeq
      <4>4. [cycle |-> hits[Len(hits)].at, index |-> cur, reg |-> MyRegIndex,
             bit |-> fi_bit] \in FaultRecord
        BY <4>1, <4>3 DEF HitRecord, FaultRecord, TypeOK
      <4>5. corrupted' = Append(corrupted, [cycle |-> hits[Len(hits)].at, index |-> cur,
                                            reg |-> MyRegIndex, bit |-> fi_bit])
        BY <1>7, <2>2 DEF Corrupt
      <4>6. QED
        BY <4>4, <4>5, AppendProperties DEF TypeOK
    <3>3. runs' \in 0 .. Width
      BY <1>7, <2>2, ValueAssumption DEF Corrupt, TypeOK
    <3>4. QED
      BY <1>7, <2>1, <2>2, <3>1, <3>2, <3>3 DEF Corrupt, TypeOK, fileVars
  <2>3. CASE ~Known(config.fi_type)
    BY <1>7, <2>1, <2>3 DEF Corrupt, TypeOK, fileVars
  <2>4. QED
    BY <2>2, <2>3
<1>8. CASE InjectReturns
  <2>1. CallReturns /\ phase \in {"call", "inject"}
    BY <1>8 DEF InjectReturns
  <2>2. QED
    BY <1>8, <2>1, CallReturnsType DEF InjectReturns, TypeOK, libVars, loopVars, fileVars
<1>9. CASE TurnOffInjections \/ TurnOnInjections
  BY <1>9 DEF TurnOffInjections, TurnOnInjections, TypeOK, loopVars, fileVars, progVars
<1>10. CASE PostInjections
  BY <1>10 DEF PostInjections, TypeOK, libVars, loopVars
<1>11. CASE Kill
  BY <1>11 DEF Kill, TypeOK, libVars, loopVars
<1>12. CASE BitTooLarge
  BY <1>12 DEF BitTooLarge, TypeOK, libVars, loopVars
<1>13. CASE UNCHANGED vars
  BY <1>13 DEF TypeOK, vars, libVars, loopVars, fileVars, progVars
<1>14. QED
  BY <1>1, <1>2, <1>3, <1>4, <1>5, <1>6, <1>7, <1>8, <1>9, <1>10, <1>11, <1>12, <1>13
     DEF Next, Runtime, PreFunc, InjectFunc, Ended

(* Whatever program, file and schedule, the runtime's state is well formed. *)
THEOREM TypeCorrect == Spec => []TypeOK
<1>1. QED
  BY InitType, NextType, PTL DEF Spec

-----------------------------------------------------------------------------
(* Programs instrumented on one side of each instruction.                  *)

(* The calls of an instruction come in the order of its registers.         *)
LEMMA OneSidedCalls ==
  ASSUME OneSidedProgram, TypeOK, phase \in {"call", "inject", "flush", "corrupt"}
  PROVE  /\ cur \in Inst /\ call \in 1 .. RegNum[cur] /\ RegNum[cur] \in Nat \ {0}
         /\ Len(RegCalls[cur]) = RegNum[cur]
         /\ MyRegIndex = call - 1
<1>1. cur \in Inst /\ call \in 1 .. Len(RegCalls[cur])
  BY DEF TypeOK
<1>2. RegNum[cur] \in Nat \ {0}
  BY <1>1, RegAssumption
<1>3. /\ Len(RegCalls[cur]) = RegNum[cur]
      /\ \A k \in 1 .. RegNum[cur] : RegCalls[cur][k] = k - 1
  BY <1>1 DEF OneSidedProgram, OneSided
<1>4. QED
  BY <1>1, <1>2, <1>3 DEF MyRegIndex

(* What a returning call does to the program, counting or not. *)
LEMMA OneSidedReturn ==
  ASSUME OneSidedProgram, TypeOK, phase \in {"call", "inject"}, CallReturns
  PROVE  \/ /\ call < RegNum[cur]
            /\ phase' = "call" /\ call' = call + 1 /\ cur' = cur /\ trace' = trace
         \/ /\ call = RegNum[cur]
            /\ phase' = "run"
            /\ trace' = IF Counted(cur) THEN Append(trace, cur) ELSE trace
            /\ Counted(cur) => Len(trace') = Len(trace) + 1
<1>1. /\ cur \in Inst /\ call \in 1 .. RegNum[cur] /\ RegNum[cur] \in Nat \ {0}
      /\ Len(RegCalls[cur]) = RegNum[cur]
  BY OneSidedCalls
<1>2. trace \in Seq(Inst)
  BY DEF TypeOK
<1>3. CASE call < RegNum[cur]
  BY <1>1, <1>3 DEF CallReturns
<1>4. CASE ~(call < RegNum[cur])
  <2>1. call = RegNum[cur]
    BY <1>1, <1>4
  <2>2. phase' = "run" /\ trace' = IF Counted(cur) THEN Append(trace, cur) ELSE trace
    BY <1>1, <1>4 DEF CallReturns
  <2>3. Len(Append(trace, cur)) = Len(trace) + 1
    BY <1>1, <1>2
  <2>4. QED
    BY <2>1, <2>2, <2>3
<1>5. QED
  BY <1>3, <1>4

LEMMA CountInit == Init => CountInv
BY EmptySeq DEF Init, CountInv, Serving

(* The counter stays one ahead of the instructions executed. *)
LEMMA CountStep ==
  ASSUME OneSidedProgram, TypeOK, CountInv, [Next]_vars
  PROVE  CountInv'
<1> USE DEF CountInv, Serving
<1>0. Len(trace) \in Nat /\ curr_cycle \in Nat
  BY DEF TypeOK, Cycle
<1>1. CASE InitInjections
  BY <1>1 DEF InitInjections
<1>2. ASSUME NEW i \in Inst, BeginInst(i) PROVE CountInv'
  BY <1>2 DEF BeginInst, libVars
<1>3. CASE PreFuncSkips
  <2>1. CallReturns /\ phase = "call" /\ ~Counted(cur) /\ curr_cycle' = curr_cycle
    BY <1>3 DEF PreFuncSkips, libVars
  <2>2. trace' = trace /\ phase' \in {"call", "run"}
    BY <2>1, OneSidedReturn
  <2>3. QED
    BY <2>1, <2>2
<1>4. ASSUME PreFuncSelects \/ PreFuncDeclines PROVE CountInv'
  <2>1. /\ cur \in Inst /\ call \in 1 .. RegNum[cur] /\ RegNum[cur] \in Nat \ {0}
        /\ MyRegIndex = call - 1
    BY <1>4, OneSidedCalls DEF PreFuncSelects, PreFuncDeclines
  <2>2. Counted(cur) /\ phase = "call" /\ curr_cycle' = CycleAfterCall
    BY <1>4 DEF PreFuncSelects, PreFuncDeclines
  <2>3. Cycles[cur] = 1
    BY <2>1, <2>2, CountedCycle
  <2>4. curr_cycle' = Len(trace) + 1 + (IF call = RegNum[cur] THEN 1 ELSE 0)
    BY <1>0, <2>1, <2>2, <2>3 DEF CycleAfterCall
  <2>5. CASE PreFuncSelects
    <3>1. phase' = "inject" /\ UNCHANGED <<cur, call, trace, fiFlag>>
      BY <2>5 DEF PreFuncSelects
    <3>2. Counted(cur)'
      BY <2>2, <3>1 DEF Counted
    <3>3. QED
      BY <1>0, <2>1, <2>4, <3>1, <3>2
  <2>6. CASE PreFuncDeclines
    <3>1. CallReturns
      BY <2>6 DEF PreFuncDeclines
    <3>2. QED
      BY <1>0, <2>1, <2>2, <2>4, <3>1, OneSidedReturn
  <2>7. QED
    BY <1>4, <2>5, <2>6
<1>5. CASE PrintRecord \/ FlushRecord
  BY <1>5 DEF PrintRecord, FlushRecord, libVars, Counted
<1>6. CASE Corrupt
  BY <1>6 DEF Corrupt, Counted
<1>7. CASE InjectReturns
  <2>1. CallReturns /\ phase = "inject" /\ curr_cycle' = curr_cycle /\ Counted(cur)
    BY <1>7 DEF InjectReturns, libVars
  <2>2. call \in Nat /\ RegNum[cur] \in Nat
    BY <2>1, OneSidedCalls
  <2>3. QED
    BY <1>0, <2>1, <2>2, OneSidedReturn
<1>8. CASE TurnOffInjections \/ TurnOnInjections
  BY <1>8 DEF TurnOffInjections, TurnOnInjections, progVars
<1>9. CASE PostInjections
  BY <1>9 DEF PostInjections
<1>10. CASE Kill \/ BitTooLarge
  BY <1>10 DEF Kill, BitTooLarge
<1>11. CASE UNCHANGED vars
  BY <1>11 DEF vars, libVars, progVars, Counted
<1>12. QED
  BY <1>1, <1>2, <1>3, <1>4, <1>5, <1>6, <1>7, <1>8, <1>9, <1>10, <1>11
     DEF Next, Runtime, PreFunc, InjectFunc, Ended

(* A cycle number means the same instruction in every run of a program     *)
(* whose instructions are instrumented on one side.                        *)
THEOREM CycleCountCorrect ==
  ASSUME OneSidedProgram
  PROVE  Spec => []CycleCountExact
<1>1. CountInv => CycleCountExact
  BY DEF CountInv, CycleCountExact
<1>2. TypeOK /\ CountInv /\ [Next]_vars => CountInv'
  BY CountStep
<1>3. QED
  BY <1>1, <1>2, CountInit, TypeCorrect, PTL DEF Spec

-----------------------------------------------------------------------------
LEMMA HitCycles ==
  ASSUME TypeOK
  PROVE  Len(hits) \in Nat /\ \A k \in 1 .. Len(hits) : hits[k].at \in Nat
<1>1. hits \in Seq(HitRecord)
  BY DEF TypeOK
<1>2. Len(hits) \in Nat /\ \A k \in 1 .. Len(hits) : hits[k] \in HitRecord
  BY <1>1
<1>3. QED
  BY <1>2 DEF HitRecord, Cycle

LEMMA HitInit == Init => HitInv
BY EmptySeq DEF Init, HitInv, Serving, OneRegisterPerInstruction

(* A returning call that changed no hit keeps the invariant.               *)
LEMMA HitReturn ==
  ASSUME OneSidedProgram, TypeOK, HitInv, phase \in {"call", "inject"}, CallReturns,
         hits' = hits,
         \A k \in 1 .. Len(hits) : hits[k].at = Len(trace) + 1 =>
           Counted(cur) /\ Counted(cur)' /\ injectedInCurrInst'
  PROVE  HitInv'
<1> USE DEF HitInv, Serving, OneRegisterPerInstruction
<1>1. Len(trace) \in Nat /\ call \in Nat /\ call >= 1
  BY OneSidedCalls DEF TypeOK
<1>2. \A k \in 1 .. Len(hits) : hits[k].at \in Nat
  BY HitCycles
<1>3. CASE /\ call < RegNum[cur]
           /\ phase' = "call" /\ call' = call + 1 /\ cur' = cur /\ trace' = trace
  BY <1>1, <1>2, <1>3
<1>4. CASE /\ call = RegNum[cur]
           /\ phase' = "run"
           /\ trace' = IF Counted(cur) THEN Append(trace, cur) ELSE trace
           /\ Counted(cur) => Len(trace') = Len(trace) + 1
  <2>1. CASE Counted(cur)
    BY <1>1, <1>2, <1>4, <2>1
  <2>2. CASE ~Counted(cur)
    BY <1>1, <1>2, <1>4, <2>2
  <2>3. QED
    BY <2>1, <2>2
<1>5. QED
  BY <1>3, <1>4, OneSidedReturn

(* Selecting a register twice in one instruction is what the flag prevents.*)
LEMMA HitStep ==
  ASSUME OneSidedProgram, TypeOK, CountInv, HitInv, [Next]_vars
  PROVE  HitInv'
<1> USE DEF HitInv, Serving, OneRegisterPerInstruction
<1>0. /\ Len(trace) \in Nat /\ Len(hits) \in Nat
      /\ \A k \in 1 .. Len(hits) : hits[k].at \in Nat
  BY HitCycles DEF TypeOK
<1>1. CASE InitInjections
  BY <1>1, EmptySeq DEF InitInjections
<1>2. ASSUME NEW i \in Inst, BeginInst(i) PROVE HitInv'
  BY <1>2 DEF BeginInst, libVars
<1>3. CASE PreFuncSkips
  <2>1. /\ CallReturns /\ phase = "call" /\ ~Counted(cur)
        /\ hits' = hits /\ UNCHANGED <<injectedInCurrInst, fiFlag>>
    BY <1>3 DEF PreFuncSkips, libVars
  <2>2. QED
    BY <2>1, HitReturn
<1>4. CASE PreFuncSelects
  <2>1. /\ phase = "call" /\ phase' = "inject" /\ injectedInCurrInst' = TRUE
        /\ TRUE \in Selections
        /\ hits' = Append(hits, [at |-> Len(trace) + 1, index |-> cur, reg |-> MyRegIndex])
        /\ UNCHANGED <<cur, call, trace>>
    BY <1>4 DEF PreFuncSelects
  <2>2. call \in Nat /\ MyRegIndex = call - 1
    BY <2>1, OneSidedCalls
  <2>3. ~AlreadyInjected
    BY <2>1 DEF Selections
  <2>4. \A k \in 1 .. Len(hits) : hits[k].at # Len(trace) + 1
    <3>1. ~(call > 1 /\ injectedInCurrInst)
      <4>1. call > 1 => MyRegIndex # 0
        BY <2>2
      <4>2. QED
        BY <2>3, <4>1 DEF AlreadyInjected
    <3>2. QED
      BY <2>1, <3>1
  <2>5. /\ Len(hits') = Len(hits) + 1
        /\ hits'[Len(hits) + 1].at = Len(trace) + 1
        /\ \A k \in 1 .. Len(hits) : hits'[k] = hits[k]
    BY <2>1, AppendProperties DEF TypeOK
  <2>6. QED
    BY <1>0, <2>1, <2>4, <2>5
<1>5. CASE PreFuncDeclines
  <2>1. /\ CallReturns /\ phase = "call" /\ Counted(cur) /\ hits' = hits
        /\ injectedInCurrInst' = AlreadyInjected /\ fiFlag' = fiFlag
    BY <1>5 DEF PreFuncDeclines
  <2>2. call \in Nat /\ MyRegIndex = call - 1
    BY <2>1, OneSidedCalls
  <2>3. ASSUME NEW k \in 1 .. Len(hits), hits[k].at = Len(trace) + 1
        PROVE  Counted(cur) /\ injectedInCurrInst'
    <3>1. call > 1 /\ injectedInCurrInst
      BY <2>1, <2>3
    <3>2. MyRegIndex # 0
      BY <2>2, <3>1
    <3>3. QED
      BY <2>1, <3>1, <3>2 DEF AlreadyInjected
  <2>4. CASE call < RegNum[cur]
    <3>1. cur' = cur
      BY <2>1, <2>4, OneSidedReturn, OneSidedCalls
    <3>2. QED
      BY <2>1, <2>3, <3>1, HitReturn DEF Counted
  <2>5. CASE ~(call < RegNum[cur])
    <3>1. phase' = "run" /\ Len(trace') = Len(trace) + 1
      BY <2>1, <2>5, OneSidedReturn
    <3>2. QED
      BY <1>0, <2>1, <3>1
  <2>6. QED
    BY <2>4, <2>5
<1>6. CASE PrintRecord \/ FlushRecord
  BY <1>6 DEF PrintRecord, FlushRecord, libVars
<1>7. CASE Corrupt
  BY <1>7 DEF Corrupt
<1>8. CASE InjectReturns
  <2>1. /\ CallReturns /\ phase = "inject" /\ hits' = hits
        /\ UNCHANGED <<injectedInCurrInst, fiFlag>>
    BY <1>8 DEF InjectReturns, libVars
  <2>2. Counted(cur) /\ injectedInCurrInst
    BY <2>1 DEF CountInv
  <2>3. CASE call < RegNum[cur]
    <3>1. cur' = cur
      BY <2>1, <2>3, OneSidedReturn, OneSidedCalls
    <3>2. QED
      BY <2>1, <2>2, <3>1, HitReturn DEF Counted
  <2>4. CASE ~(call < RegNum[cur])
    <3>1. phase' = "run" /\ Len(trace') = Len(trace) + 1
      BY <2>1, <2>2, <2>4, OneSidedReturn
    <3>2. QED
      BY <1>0, <2>1, <3>1
  <2>5. QED
    BY <2>3, <2>4
<1>9. CASE TurnOffInjections \/ TurnOnInjections
  BY <1>9 DEF TurnOffInjections, TurnOnInjections, progVars
<1>10. CASE PostInjections
  BY <1>10 DEF PostInjections
<1>11. CASE Kill \/ BitTooLarge
  BY <1>11 DEF Kill, BitTooLarge
<1>12. CASE UNCHANGED vars
  BY <1>12 DEF vars, libVars, progVars, Counted
<1>13. QED
  BY <1>1, <1>2, <1>3, <1>4, <1>5, <1>6, <1>7, <1>8, <1>9, <1>10, <1>11, <1>12
     DEF Next, Runtime, PreFunc, InjectFunc, Ended

(* However many faults are planned, no dynamic instruction of a program    *)
(* instrumented on one side has two of its registers corrupted.            *)
THEOREM OneRegisterCorrect ==
  ASSUME OneSidedProgram
  PROVE  Spec => []OneRegisterPerInstruction
<1>1. HitInv => OneRegisterPerInstruction
  BY DEF HitInv
<1>2. TypeOK /\ CountInv /\ [Next]_vars => CountInv'
  BY CountStep
<1>3. TypeOK /\ CountInv /\ HitInv /\ [Next]_vars => HitInv'
  BY HitStep
<1>4. QED
  BY <1>1, <1>2, <1>3, CountInit, HitInit, TypeCorrect, PTL DEF Spec

-----------------------------------------------------------------------------
(***************************************************************************)
(* The record of the faults, the bits of the register, and index mode.     *)
(***************************************************************************)
(* Moving on to the next location leaves the rest of the struct alone.     *)
LEMMA AdvancedRest ==
  ASSUME config \in ConfigType
  PROVE  /\ Advanced.fi_type = config.fi_type
         /\ Advanced.fi_accordingto_cycle = config.fi_accordingto_cycle
         /\ Advanced.fi_index = config.fi_index
         /\ Advanced.fi_reg_index = config.fi_reg_index
         /\ Advanced.fi_bit = config.fi_bit
         /\ Advanced.fi_num_bits = config.fi_num_bits
         /\ config.fi_second_cycle = Unset /\ config.fi_next_cycles = << >> =>
              Advanced = config
BY DEF Advanced, ConfigType

LEMMA ConfigInit == Init => ConfigInv
BY DEF Init, ConfigInv

LEMMA ConfigStep ==
  ASSUME TypeOK, ConfigInv, [Next]_vars
  PROVE  ConfigInv'
<1>1. CASE InitInjections
  <2>1. CASE cfgFile.ok
    BY <1>1, <2>1 DEF InitInjections, ConfigInv, Parsed
  <2>2. CASE ~cfgFile.ok
    BY <1>1, <2>2 DEF InitInjections, ConfigInv
  <2>3. QED
    BY <2>1, <2>2
<1>2. CASE Corrupt
  <2>1. config \in ConfigType
    BY DEF TypeOK
  <2>2. config' = Advanced /\ cfgFile' = cfgFile /\ phase = "corrupt"
    BY <1>2 DEF Corrupt
  <2>3. QED
    BY <2>1, <2>2, AdvancedRest DEF ConfigInv, Parsed
<1>3. CASE PreFunc \/ InjectReturns
  <2>1. UNCHANGED <<config, cfgFile>> /\ phase \in {"call", "inject"}
    BY <1>3 DEF PreFunc, PreFuncSkips, PreFuncSelects, PreFuncDeclines, InjectReturns, libVars
  <2>2. QED
    BY <2>1 DEF ConfigInv, Parsed
<1>4. CASE BitTooLarge \/ PostInjections \/ Kill
  BY <1>4 DEF BitTooLarge, PostInjections, Kill, ConfigInv
<1>5. CASE \/ PrintRecord \/ FlushRecord \/ TurnOffInjections \/ TurnOnInjections
           \/ \E i \in Inst : BeginInst(i)
  <2>1. /\ UNCHANGED <<config, cfgFile>>
        /\ phase \in {"run", "call", "inject", "flush", "corrupt"}
    BY <1>5 DEF PrintRecord, FlushRecord, TurnOffInjections, TurnOnInjections, BeginInst,
                libVars, progVars
  <2>2. QED
    BY <2>1 DEF ConfigInv, Parsed
<1>6. CASE UNCHANGED vars
  BY <1>6 DEF ConfigInv, Parsed, vars, libVars, progVars
<1>7. QED
  BY <1>1, <1>2, <1>3, <1>4, <1>5, <1>6 DEF Next, Runtime, PreFunc, InjectFunc, Ended

-----------------------------------------------------------------------------
LEMMA RecordInit == Init => RecordInv
BY EmptySeq DEF Init, RecordInv, Serving, RecordedFirst, Defaults

(* A hit by cycle is in the cycle that was planned.                        *)
LEMMA HitAt ==
  ASSUME OneSidedProgram, TypeOK, CountInv, PreFuncSelects
  PROVE  /\ Len(hits') = Len(hits) + 1 /\ hits'[Len(hits')].at = Len(trace) + 1
         /\ \A k \in 1 .. Len(hits) : hits'[k] = hits[k]
         /\ Len(trace) \in Nat /\ curr_cycle = Len(trace) + 1
         /\ config.fi_accordingto_cycle => config.fi_cycle = Len(trace) + 1
         /\ ~config.fi_accordingto_cycle => config.fi_index = cur
<1>1. /\ phase = "call" /\ InstSelected /\ Counted(cur)
      /\ hits' = Append(hits, [at |-> Len(trace) + 1, index |-> cur, reg |-> MyRegIndex])
  BY DEF PreFuncSelects, Selections
<1>2. cur \in Inst /\ MyRegIndex \in Nat /\ Len(trace) \in Nat /\ call \in Nat
  BY <1>1, OneSidedCalls DEF TypeOK
<1>3. Cycles[cur] = 1
  BY <1>1, <1>2, CountedCycle
<1>4. curr_cycle = Len(trace) + 1
  BY <1>1 DEF CountInv
<1>5. [at |-> Len(trace) + 1, index |-> cur, reg |-> MyRegIndex] \in HitRecord
  BY <1>2 DEF HitRecord, Cycle
<1>6. /\ Len(hits') = Len(hits) + 1 /\ hits'[Len(hits')].at = Len(trace) + 1
      /\ \A k \in 1 .. Len(hits) : hits'[k] = hits[k]
  <2>1. hits \in Seq(HitRecord)
    BY DEF TypeOK
  <2>2. QED
    BY <1>1, <1>5, <2>1, AppendProperties
<1>7. config.fi_accordingto_cycle => config.fi_cycle = Len(trace) + 1
  BY <1>1, <1>2, <1>3, <1>4 DEF InstSelected, TypeOK, ConfigType
<1>8. ~config.fi_accordingto_cycle => config.fi_index = cur
  BY <1>1 DEF InstSelected
<1>9. QED
  BY <1>2, <1>4, <1>6, <1>7, <1>8

(* The record goes to the buffer, to the file, and then the bit changes.   *)
LEMMA RecordStep ==
  ASSUME OneSidedProgram, IndexAlone, TypeOK, CountInv, RecordInv, [Next]_vars
  PROVE  RecordInv'
<1>0. /\ recorded \in Seq(FaultRecord) /\ corrupted \in Seq(FaultRecord)
      /\ buffered \in Seq(FaultRecord) /\ config \in ConfigType
      /\ Len(recorded) \in Nat /\ Len(corrupted) \in Nat
  BY DEF TypeOK
<1>1. CASE InitInjections
  <2>1. CASE cfgFile.ok
    <3>1. /\ config' = Parsed(cfgFile) /\ phase = "boot" /\ phase' = "run"
          /\ UNCHANGED <<recorded, buffered, corrupted>> /\ cfgFile \in ConfigFile
      BY <1>1, <2>1 DEF InitInjections, fileVars, TypeOK
    <3>2. Len(recorded) = 0 /\ Len(corrupted) = 0 /\ buffered = << >>
      BY <3>1, EmptySeq DEF RecordInv
    <3>3. ~config'.fi_accordingto_cycle =>
            /\ config'.fi_cycle = Unset /\ config'.fi_second_cycle = Unset
            /\ config'.fi_next_cycles = << >>
      BY <3>1 DEF IndexAlone, Parsed
    <3>4. RecordedFirst'
      BY <3>1, <3>2 DEF RecordedFirst
    <3>5. QED
      BY <3>1, <3>2, <3>3, <3>4 DEF RecordInv, Serving
  <2>2. CASE ~cfgFile.ok
    BY <1>1, <2>2 DEF InitInjections, fileVars, RecordInv, Serving, RecordedFirst
  <2>3. QED
    BY <2>1, <2>2
<1>2. CASE PreFuncSelects
  <2>1. /\ fi_cycle_to_print' = config.fi_cycle /\ phase = "call" /\ phase' = "inject"
        /\ UNCHANGED <<config, recorded, buffered, corrupted>>
    BY <1>2 DEF PreFuncSelects, fileVars
  <2>2. /\ Len(hits') = Len(hits) + 1 /\ hits'[Len(hits')].at = Len(trace) + 1
        /\ config.fi_accordingto_cycle => config.fi_cycle = Len(trace) + 1
    BY <1>2, HitAt
  <2>3. QED
    BY <2>1, <2>2 DEF RecordInv, Serving, RecordedFirst
<1>3. CASE PreFuncSkips \/ PreFuncDeclines \/ InjectReturns
  <2>1. /\ phase \in {"call", "inject"} /\ phase' \in {"call", "run"}
        /\ UNCHANGED <<config, recorded, buffered, corrupted>>
    BY <1>3, CallReturnsType DEF PreFuncSkips, PreFuncDeclines, InjectReturns, libVars, fileVars
  <2>2. QED
    BY <2>1 DEF RecordInv, Serving, RecordedFirst
<1>4. CASE PrintRecord
  <2>1. PICK b \in PickableBits :
          /\ fi_bit' = b
          /\ buffered' = Append(buffered, [cycle |-> fi_cycle_to_print, index |-> cur,
                                           reg |-> MyRegIndex, bit |-> b])
    BY <1>4 DEF PrintRecord
  <2>2. /\ phase = "inject" /\ phase' = "flush"
        /\ UNCHANGED <<config, recorded, corrupted, cur, call, hits, fi_cycle_to_print>>
    BY <1>4 DEF PrintRecord, libVars
  <2>3. buffered' = <<CurrentRecord'>>
    <3>1. buffered = << >>
      BY <2>2 DEF RecordInv
    <3>2. buffered' = Append(<< >>, CurrentRecord')
      BY <2>1, <2>2, <3>1 DEF CurrentRecord, MyRegIndex
    <3>3. QED
      BY <3>2
  <2>4. QED
    BY <2>2, <2>3 DEF RecordInv, Serving, RecordedFirst
<1>5. CASE FlushRecord
  <2>1. /\ phase = "flush" /\ phase' = "corrupt" /\ buffered' = << >>
        /\ recorded' = recorded \o <<CurrentRecord>>
        /\ CurrentRecord' = CurrentRecord
        /\ UNCHANGED <<config, corrupted, hits, fi_cycle_to_print>>
    BY <1>5 DEF FlushRecord, RecordInv, CurrentRecord, MyRegIndex, libVars, loopVars
  <2>2. CurrentRecord \in FaultRecord
    <3>1. cur \in Inst /\ MyRegIndex \in Nat
      BY <2>1, OneSidedCalls
    <3>2. QED
      BY <3>1 DEF CurrentRecord, FaultRecord, TypeOK
  <2>3. recorded' = Append(recorded, CurrentRecord)
    BY <1>0, <2>1, <2>2, AppendIsConcat
  <2>4. /\ Len(recorded') = Len(recorded) + 1
        /\ \A k \in 1 .. Len(recorded) : recorded'[k] = recorded[k]
        /\ recorded'[Len(recorded) + 1] = CurrentRecord
    BY <1>0, <2>2, <2>3, AppendProperties
  <2>5. RecordedFirst'
    BY <1>0, <2>1, <2>4 DEF RecordInv, RecordedFirst
  <2>6. QED
    BY <1>0, <2>1, <2>4, <2>5 DEF RecordInv, Serving
<1>6. CASE Corrupt
  <2>1. /\ phase = "corrupt" /\ config' = Advanced
        /\ UNCHANGED <<recorded, buffered, hits, cur, call, fi_cycle_to_print, fi_bit>>
    BY <1>6 DEF Corrupt, fileVars
  <2>2. /\ config'.fi_accordingto_cycle = config.fi_accordingto_cycle
        /\ ~config.fi_accordingto_cycle => config' = config
    BY <1>0, <2>1, AdvancedRest DEF RecordInv
  <2>3. CASE Known(config.fi_type)
    <3> DEFINE c == [cycle |-> hits[Len(hits)].at, index |-> cur, reg |-> MyRegIndex,
                     bit |-> fi_bit]
    <3>1. corrupted' = Append(corrupted, c) /\ phase' = "inject"
      BY <1>6, <2>3 DEF Corrupt
    <3>2. c \in FaultRecord
      <4>1. cur \in Inst /\ MyRegIndex \in Nat
        BY <2>1, OneSidedCalls
      <4>2. hits \in Seq(HitRecord) /\ Len(hits) \in Nat /\ Len(hits) # 0
        BY <2>1, EmptySeq DEF TypeOK
      <4>3. hits[Len(hits)].at \in Cycle
        <5>1. hits[Len(hits)] \in HitRecord
          BY <4>2
        <5>2. QED
          BY <5>1 DEF HitRecord
      <4>4. QED
        BY <4>1, <4>3 DEF FaultRecord, TypeOK
    <3>3. recorded[Len(corrupted) + 1] =
            [c EXCEPT !.cycle = IF config.fi_accordingto_cycle THEN @ ELSE Unset]
      BY <2>1 DEF RecordInv, Serving, CurrentRecord
    <3> HIDE DEF c
    <3>4. /\ Len(corrupted') = Len(corrupted) + 1
          /\ \A k \in 1 .. Len(corrupted) : corrupted'[k] = corrupted[k]
          /\ corrupted'[Len(corrupted) + 1] = c
      BY <1>0, <3>1, <3>2, AppendProperties
    <3>5. Len(recorded) = Len(corrupted) + 1
      BY <2>1 DEF RecordInv
    <3>6. RecordedFirst'
      <4>1. ASSUME NEW k \in 1 .. Len(corrupted')
            PROVE  recorded[k] = [corrupted'[k] EXCEPT
                                    !.cycle = IF config.fi_accordingto_cycle THEN @ ELSE Unset]
        <5>1. CASE k \in 1 .. Len(corrupted)
          BY <3>4, <5>1 DEF RecordInv, RecordedFirst
        <5>2. CASE k = Len(corrupted) + 1
          BY <3>3, <3>4, <5>2
        <5>3. QED
          BY <1>0, <3>4, <5>1, <5>2
      <4>2. QED
        BY <1>0, <2>1, <2>2, <3>4, <3>5, <4>1 DEF RecordedFirst
    <3>7. QED
      BY <1>0, <2>1, <2>2, <3>1, <3>4, <3>5, <3>6 DEF RecordInv, Serving
  <2>4. CASE ~Known(config.fi_type)
    <3>1. phase' = "exited" /\ corrupted' = corrupted
      BY <1>6, <2>4 DEF Corrupt
    <3>2. RecordedFirst'
      BY <2>1, <2>2, <3>1 DEF RecordInv, RecordedFirst
    <3>3. QED
      BY <2>2, <3>1, <3>2 DEF RecordInv, Serving
  <2>5. QED
    BY <2>3, <2>4
<1>7. CASE PostInjections
  <2>1. recorded' = recorded
    <3>1. recorded' = recorded \o << >>
      BY <1>7 DEF PostInjections, RecordInv
    <3>2. QED
      BY <1>0, <3>1, ConcatEmptySeq
  <2>2. phase' = "exited" /\ UNCHANGED <<config, corrupted>>
    BY <1>7 DEF PostInjections, libVars
  <2>3. QED
    BY <2>1, <2>2 DEF RecordInv, Serving, RecordedFirst
<1>8. CASE Kill \/ BitTooLarge
  <2>1. /\ phase' \in {"killed", "aborted"} /\ UNCHANGED <<config, corrupted, recorded>>
    BY <1>8 DEF Kill, BitTooLarge, libVars
  <2>2. QED
    BY <2>1 DEF RecordInv, Serving, RecordedFirst
<1>9. CASE \/ TurnOffInjections \/ TurnOnInjections \/ \E i \in Inst : BeginInst(i)
  <2>1. /\ phase = "run" /\ phase' \in {"run", "call"}
        /\ UNCHANGED <<config, corrupted, recorded, buffered>>
    BY <1>9 DEF TurnOffInjections, TurnOnInjections, BeginInst, libVars, fileVars, progVars
  <2>2. QED
    BY <2>1 DEF RecordInv, Serving, RecordedFirst
<1>10. CASE UNCHANGED vars
  <2>1. UNCHANGED <<phase, config, corrupted, recorded, buffered, hits, cur, call,
                    fi_cycle_to_print, fi_bit>>
    BY <1>10 DEF vars, libVars, loopVars, fileVars, progVars
  <2>2. QED
    BY <2>1 DEF RecordInv, Serving, RecordedFirst, CurrentRecord, MyRegIndex
<1>11. QED
  BY <1>1, <1>2, <1>3, <1>4, <1>5, <1>6, <1>7, <1>8, <1>9, <1>10
     DEF Next, Runtime, PreFunc, InjectFunc, Ended

(* No register is corrupted before the file says which bit, register and   *)
(* cycle, whenever the process dies.                                       *)
THEOREM RecordedFirstCorrect ==
  ASSUME OneSidedProgram, IndexAlone
  PROVE  Spec => []RecordedFirst
<1>1. RecordInv => RecordedFirst
  BY DEF RecordInv
<1>2. TypeOK /\ CountInv /\ [Next]_vars => CountInv'
  BY CountStep
<1>3. TypeOK /\ CountInv /\ RecordInv /\ [Next]_vars => RecordInv'
  BY RecordStep
<1>4. QED
  BY <1>1, <1>2, <1>3, CountInit, RecordInit, TypeCorrect, PTL DEF Spec

-----------------------------------------------------------------------------
LEMMA BitsInit == Init => BitsInv
BY DEF Init, BitsInv, BitsCorrupted

(* One bit more, for each of the injectors.                                *)
LEMMA StruckNone ==
  ASSUME NEW fi_type, Known(fi_type), NEW old PROVE ValueStruck(fi_type, old, {}) = old \cup {}
BY DEF ValueStruck, Known, RegisteredInjectors

LEMMA StruckMore ==
  ASSUME NEW fi_type, Known(fi_type), NEW old, NEW bits, NEW b, b \notin bits
  PROVE  InjectFaultImpl(fi_type, ValueStruck(fi_type, old, bits), b) =
           ValueStruck(fi_type, old, bits \cup {b})
<1>1. CASE fi_type = "bitflip"
  BY <1>1 DEF InjectFaultImpl, ValueStruck, BitFlip
<1>2. CASE fi_type = "stuck_at_0"
  BY <1>2 DEF InjectFaultImpl, ValueStruck, StuckAt0
<1>3. CASE fi_type = "stuck_at_1"
  BY <1>3 DEF InjectFaultImpl, ValueStruck, StuckAt1
<1>4. QED
  BY <1>1, <1>2, <1>3 DEF Known, RegisteredInjectors

(* The board of an iteration has one bit more, and the register follows.   *)
LEMMA BitsStep ==
  ASSUME TypeOK, BitsInv, [Next]_vars
  PROVE  BitsInv'
<1> DEFINE Cares(c) == c.fi_bit = Unset /\ Known(c.fi_type)
<1>0. /\ config \in ConfigType /\ score_board \in SUBSET Bit /\ runs \in 0 .. Width
      /\ value \in SUBSET Bit /\ original \in SUBSET Bit /\ fi_bit \in Bit
      /\ Width \in Nat \ {0} /\ config.fi_num_bits \in Nat
      /\ config.fi_bit \in Nat \cup {Unset}
  BY ValueAssumption DEF TypeOK, ConfigType
<1>f. ASSUME NEW S \in SUBSET Bit PROVE IsFiniteSet(S) /\ Cardinality(S) \in Nat
  <2>1. IsFiniteSet(Bit)
    BY <1>0, FS_Interval DEF Bit
  <2>2. IsFiniteSet(S)
    BY <2>1, FS_Subset
  <2>3. QED
    BY <2>2, FS_CardinalityType
<1>1. CASE InitInjections
  BY <1>1 DEF InitInjections, BitsInv, BitsCorrupted
<1>2. CASE PreFuncSelects
  <2>1. /\ phase' = "inject" /\ score_board' = {} /\ runs' = 0
        /\ value' = original' /\ config' = config
    BY <1>2 DEF PreFuncSelects
  <2>2. Known(config.fi_type) => value' = ValueStruck(config.fi_type, original', {})
    BY <2>1, StruckNone
  <2>3. Cardinality({}) = 0
    BY FS_EmptySet
  <2>4. QED
    BY <1>0, <2>1, <2>2, <2>3 DEF BitsInv, BitsCorrupted
<1>3. CASE PreFuncSkips \/ PreFuncDeclines
  <2>1. /\ phase = "call" /\ phase' \in {"call", "run"}
        /\ UNCHANGED <<config, hits, value, original, score_board>>
    BY <1>3, CallReturnsType DEF PreFuncSkips, PreFuncDeclines, libVars, loopVars
  <2>2. QED
    BY <2>1 DEF BitsInv, BitsCorrupted, AskedBits
<1>4. CASE PrintRecord
  <2>1. PICK b \in PickableBits :
          /\ fi_bit' = b
          /\ score_board' = IF config.fi_bit >= 0 THEN score_board ELSE score_board \cup {b}
    BY <1>4 DEF PrintRecord
  <2>2. /\ phase = "inject" /\ phase' = "flush" /\ MoreBits
        /\ UNCHANGED <<config, value, original, runs, hits>>
    BY <1>4 DEF PrintRecord, libVars
  <2>3. SUFFICES ASSUME Cares(config)
                 PROVE  /\ fi_bit' \in score_board'
                        /\ value = ValueStruck(config.fi_type, original, score_board' \ {fi_bit'})
                        /\ Cardinality(score_board') = runs + 1
                        /\ runs < config.fi_num_bits
    BY <2>2 DEF BitsInv, BitsCorrupted
  <2>4. b \in Bit \ score_board /\ score_board' = score_board \cup {b}
    BY <2>1, <2>3 DEF PickableBits, Unset
  <2>5. /\ value = ValueStruck(config.fi_type, original, score_board)
        /\ Cardinality(score_board) = runs
    BY <2>2, <2>3 DEF BitsInv
  <2>6. score_board' \ {b} = score_board
    BY <2>4
  <2>7. Cardinality(score_board') = runs + 1
    <3>1. IsFiniteSet(score_board)
      BY <1>0, <1>f
    <3>2. QED
      BY <2>4, <2>5, <3>1, FS_AddElement
  <2>8. QED
    BY <2>1, <2>2, <2>4, <2>5, <2>6, <2>7 DEF MoreBits
<1>5. CASE FlushRecord
  <2>1. /\ phase = "flush" /\ phase' = "corrupt"
        /\ UNCHANGED <<config, value, original, runs, hits, fi_bit, score_board>>
    BY <1>5 DEF FlushRecord, libVars, loopVars
  <2>2. QED
    BY <2>1 DEF BitsInv, BitsCorrupted
<1>6. CASE Corrupt
  <2>1. /\ phase = "corrupt" /\ config' = Advanced
        /\ UNCHANGED <<original, score_board, hits>>
        /\ config'.fi_type = config.fi_type /\ config'.fi_bit = config.fi_bit
        /\ config'.fi_num_bits = config.fi_num_bits
    BY <1>0, <1>6, AdvancedRest DEF Corrupt
  <2>2. CASE Known(config.fi_type)
    <3>1. /\ phase' = "inject" /\ runs' = runs + 1
          /\ value' = InjectFaultImpl(config.fi_type, value, fi_bit)
      BY <1>6, <2>2 DEF Corrupt
    <3>2. SUFFICES ASSUME config.fi_bit = Unset
                   PROVE  /\ value' = ValueStruck(config.fi_type, original, score_board)
                          /\ Cardinality(score_board) = runs' /\ runs' <= config.fi_num_bits
      BY <2>1, <2>2, <3>1 DEF BitsInv, BitsCorrupted
    <3>3. /\ fi_bit \in score_board
          /\ value = ValueStruck(config.fi_type, original, score_board \ {fi_bit})
          /\ Cardinality(score_board) = runs + 1 /\ runs < config.fi_num_bits
      BY <2>1, <2>2, <3>2 DEF BitsInv
    <3>4. (score_board \ {fi_bit}) \cup {fi_bit} = score_board
      BY <3>3
    <3>5. value' = ValueStruck(config.fi_type, original, score_board)
      BY <2>2, <3>1, <3>3, <3>4, StruckMore
    <3>6. QED
      BY <1>0, <3>1, <3>3, <3>5
  <2>3. CASE ~Known(config.fi_type)
    BY <1>6, <2>1, <2>3 DEF Corrupt, BitsInv, BitsCorrupted
  <2>4. QED
    BY <2>2, <2>3
<1>7. CASE InjectReturns
  <2>1. /\ phase = "inject" /\ phase' \in {"call", "run"} /\ ~MoreBits
        /\ UNCHANGED <<config, hits, value, original, score_board>>
    BY <1>7, CallReturnsType DEF InjectReturns, libVars, loopVars
  <2>2. SUFFICES ASSUME Cares(config)
                 PROVE  /\ Cardinality(score_board) = AskedBits
                        /\ value = ValueStruck(config.fi_type, original, score_board)
    BY <2>1 DEF BitsInv, BitsCorrupted, AskedBits
  <2>3. /\ Cardinality(score_board) = runs /\ runs <= config.fi_num_bits
        /\ value = ValueStruck(config.fi_type, original, score_board)
    BY <2>1, <2>2 DEF BitsInv
  <2>4. QED
    BY <1>0, <2>1, <2>3 DEF MoreBits, AskedBits
<1>8. CASE Kill \/ BitTooLarge \/ PostInjections
  BY <1>8 DEF Kill, BitTooLarge, PostInjections, BitsInv, BitsCorrupted
<1>9. CASE \/ TurnOffInjections \/ TurnOnInjections \/ \E i \in Inst : BeginInst(i)
  <2>1. /\ phase = "run" /\ phase' \in {"run", "call"}
        /\ UNCHANGED <<config, hits, value, original, score_board>>
    BY <1>9 DEF TurnOffInjections, TurnOnInjections, BeginInst, libVars, loopVars, progVars
  <2>2. QED
    BY <2>1 DEF BitsInv, BitsCorrupted, AskedBits
<1>10. CASE UNCHANGED vars
  BY <1>10 DEF vars, libVars, loopVars, progVars, BitsInv, BitsCorrupted, AskedBits
<1>11. QED
  BY <1>1, <1>2, <1>3, <1>4, <1>5, <1>6, <1>7, <1>8, <1>9, <1>10
     DEF Next, Runtime, PreFunc, InjectFunc, Ended

(* Random bits are as many as were asked for, or the whole register, and   *)
(* they are what the injector changes.                                     *)
THEOREM BitsCorruptedCorrect == Spec => []BitsCorrupted
<1>1. TypeOK /\ BitsInv => BitsCorrupted
  <2> SUFFICES ASSUME TypeOK, BitsInv, config.fi_bit = Unset, Known(config.fi_type)
               PROVE  BitsCorrupted
    BY DEF BitsCorrupted
  <2>1. QED
    BY DEF BitsInv
<1>2. TypeOK /\ BitsInv /\ [Next]_vars => BitsInv'
  BY BitsStep
<1>3. QED
  BY <1>1, <1>2, BitsInit, TypeCorrect, PTL DEF Spec

-----------------------------------------------------------------------------
LEMMA HitCyclesGrow ==
  ASSUME NEW c, Len(hits) \in Nat, Len(hits') = Len(hits) + 1,
         \A k \in 1 .. Len(hits) : hits'[k] = hits[k], hits'[Len(hits)'].at = c
  PROVE  HitCyclesSet' = HitCyclesSet \cup {c}
<1>1. \A k \in 1 .. Len(hits') : k \in 1 .. Len(hits) \/ k = Len(hits')
  OBVIOUS
<1>2. \A k \in 1 .. Len(hits) : k \in 1 .. Len(hits')
  OBVIOUS
<1>3. Len(hits') \in 1 .. Len(hits')
  OBVIOUS
<1>4. QED
  BY <1>1, <1>2, <1>3 DEF HitCyclesSet

LEMMA InstancesGrow ==
  ASSUME NEW i \in Inst, trace \in Seq(Inst), trace' = Append(trace, i),
         config'.fi_index = config.fi_index
  PROVE  Instances' = Instances \cup (IF i = config.fi_index THEN {Len(trace) + 1} ELSE {})
<1>1. /\ Len(trace') = Len(trace) + 1 /\ Len(trace) \in Nat /\ trace'[Len(trace) + 1] = i
      /\ \A k \in 1 .. Len(trace) : trace'[k] = trace[k]
  BY AppendProperties
<1>2. 1 .. Len(trace') = (1 .. Len(trace)) \cup {Len(trace) + 1}
  BY <1>1
<1>3. QED
  BY <1>1, <1>2 DEF Instances

LEMMA InstanceInit == Init => InstanceInv
BY DEF Init, InstanceInv, Serving

(* The last register is taken for certain, or the file's register came     *)
(* before: an instruction that is selected does not end without its hit.   *)
LEMMA InstanceStep ==
  ASSUME OneSidedProgram, IndexHasRegister, TypeOK, ConfigInv, CountInv, HitInv,
         InstanceInv, [Next]_vars
  PROVE  InstanceInv'
<1>0. /\ config \in ConfigType /\ trace \in Seq(Inst) /\ Len(trace) \in Nat
      /\ Len(hits) \in Nat /\ config.fi_reg_index \in Nat \cup {Unset}
      /\ cfgFile \in ConfigFile
  BY HitCycles DEF TypeOK, ConfigType
<1>1. CASE InitInjections
  <2>1. /\ phase = "boot" /\ phase' \in {"run", "exited"} /\ UNCHANGED <<hits, trace>>
    BY <1>1 DEF InitInjections
  <2>2. hits' = << >> /\ trace' = << >> /\ Len(hits') = 0 /\ Len(trace') = 0
    BY <2>1, EmptySeq DEF InstanceInv
  <2>3. HitCyclesSet' = {} /\ Instances' = {}
    BY <2>2 DEF HitCyclesSet, Instances
  <2>4. QED
    BY <2>1, <2>3 DEF InstanceInv, Serving
<1>2. ASSUME NEW i \in Inst, BeginInst(i) PROVE InstanceInv'
  <2>1. /\ phase = "run" /\ phase' = "call" /\ call' = 1 /\ cur' = i
        /\ UNCHANGED <<config, hits, trace, cfgFile>>
    BY <1>2 DEF BeginInst, libVars
  <2>2. ASSUME ~config.fi_accordingto_cycle, i = config.fi_index
        PROVE  config.fi_reg_index < RegNum[i]
    <3>1. /\ cfgFile.fi_cycle = Unset /\ cfgFile.fi_index = i
          /\ cfgFile.fi_reg_index = config.fi_reg_index
      BY <2>1, <2>2 DEF ConfigInv, Parsed
    <3>2. QED
      BY <1>0, <3>1 DEF IndexHasRegister
  <2>3. ~config.fi_accordingto_cycle => HitCyclesSet = Instances
    BY <2>1 DEF InstanceInv
  <2>4. HitCyclesSet' = HitCyclesSet /\ Instances' = Instances
    BY <2>1 DEF HitCyclesSet, Instances
  <2>5. ~HitNow'
    BY <2>1 DEF HitNow
  <2>6. config.fi_reg_index >= 0 => ~(config.fi_reg_index < call' - 1)
    BY <1>0, <2>1 DEF Unset
  <2>7. QED
    BY <2>1, <2>2, <2>3, <2>4, <2>5, <2>6 DEF InstanceInv, Serving
<1>3. CASE PreFuncSkips
  <2>1. /\ CallReturns /\ phase = "call" /\ ~Counted(cur)
        /\ UNCHANGED <<config, hits, fiFlag, injectedInCurrInst>>
    BY <1>3 DEF PreFuncSkips, libVars
  <2>2. trace' = trace /\ phase' \in {"call", "run"} /\ (phase' = "call" => cur' = cur)
    BY <2>1, OneSidedReturn
  <2>3. QED
    BY <2>1, <2>2 DEF InstanceInv, HitNow, Serving, HitCyclesSet, Instances, Counted
<1>4. CASE PreFuncDeclines
  <2>1. /\ CallReturns /\ phase = "call" /\ Counted(cur) /\ FALSE \in Selections
        /\ injectedInCurrInst' = AlreadyInjected
        /\ UNCHANGED <<config, hits, fiFlag>>
    BY <1>4 DEF PreFuncDeclines
  <2>2. /\ cur \in Inst /\ call \in 1 .. RegNum[cur] /\ RegNum[cur] \in Nat \ {0}
        /\ MyRegIndex = call - 1
    BY <2>1, OneSidedCalls
  <2>3. SUFFICES ASSUME ~config.fi_accordingto_cycle PROVE InstanceInv'
    BY <2>1, OneSidedReturn DEF InstanceInv
  <2>4. AlreadyInjected <=> HitNow
    BY <2>1, <2>2 DEF AlreadyInjected, HitNow
  <2>5. /\ HitCyclesSet = Instances \cup (IF HitNow THEN {Len(trace) + 1} ELSE {})
        /\ HitNow => cur = config.fi_index
        /\ cur = config.fi_index => config.fi_reg_index < RegNum[cur]
        /\ cur = config.fi_index /\ config.fi_reg_index >= 0
              /\ config.fi_reg_index < call - 1 => HitNow
    BY <2>1, <2>3 DEF InstanceInv
  <2>6. ASSUME cur = config.fi_index, ~HitNow
        PROVE  FALSE \in Draw(call - 1, RegNum[cur])
    BY <2>1, <2>2, <2>3, <2>4, <2>6 DEF Selections, InstSelected
  <2>7. CASE call < RegNum[cur]
    <3>1. phase' = "call" /\ call' = call + 1 /\ cur' = cur /\ trace' = trace
      BY <2>1, <2>2, <2>7, OneSidedReturn
    <3>2. HitNow' <=> HitNow
      BY <2>1, <2>2, <2>4, <3>1 DEF HitNow, Counted
    <3>3. cur = config.fi_index /\ config.fi_reg_index >= 0 /\ config.fi_reg_index < call
            => HitNow
      <4>1. SUFFICES ASSUME cur = config.fi_index, config.fi_reg_index >= 0,
                            config.fi_reg_index < call, ~HitNow
                     PROVE  FALSE
        BY Zenon
      <4>2. config.fi_reg_index = call - 1
        BY <1>0, <2>2, <2>5, <4>1 DEF Unset
      <4>3. Draw(call - 1, RegNum[cur]) = {TRUE}
        BY <4>1, <4>2 DEF Draw
      <4>4. QED
        BY <2>6, <4>1, <4>3
    <3>4. HitCyclesSet' = HitCyclesSet /\ Instances' = Instances
      BY <2>1, <3>1 DEF HitCyclesSet, Instances
    <3>5. QED
      BY <2>1, <2>2, <2>5, <3>1, <3>2, <3>3, <3>4 DEF InstanceInv, Serving
  <2>8. CASE call = RegNum[cur]
    <3>1. phase' = "run" /\ trace' = Append(trace, cur)
      BY <2>1, <2>2, <2>8, OneSidedReturn
    <3>2. cur = config.fi_index => HitNow
      <4>1. SUFFICES ASSUME cur = config.fi_index, ~HitNow PROVE FALSE
        BY Zenon
      <4>2. config.fi_reg_index >= 0 => config.fi_reg_index = call - 1
        BY <1>0, <2>2, <2>5, <2>8, <4>1 DEF Unset
      <4>3. Draw(call - 1, RegNum[cur]) = {TRUE}
        <5>1. CASE config.fi_reg_index >= 0
          BY <4>2, <5>1 DEF Draw
        <5>2. CASE ~(config.fi_reg_index >= 0)
          BY <2>8, <5>2 DEF Draw
        <5>3. QED
          BY <5>1, <5>2
      <4>4. QED
        BY <2>6, <4>1, <4>3
    <3>3. Instances' = Instances \cup (IF cur = config.fi_index THEN {Len(trace) + 1} ELSE {})
      BY <1>0, <2>1, <2>2, <3>1, InstancesGrow
    <3>4. HitCyclesSet' = HitCyclesSet
      BY <2>1 DEF HitCyclesSet
    <3>5. QED
      BY <2>5, <3>1, <3>2, <3>3, <3>4 DEF InstanceInv, Serving
  <2>9. QED
    BY <2>2, <2>7, <2>8
<1>5. CASE PreFuncSelects
  <2>1. /\ phase = "call" /\ phase' = "inject" /\ Counted(cur) /\ TRUE \in Selections
        /\ UNCHANGED <<config, cur, call, trace>>
    BY <1>5 DEF PreFuncSelects
  <2>2. /\ Len(hits') = Len(hits) + 1 /\ hits'[Len(hits')].at = Len(trace) + 1
        /\ \A k \in 1 .. Len(hits) : hits'[k] = hits[k]
        /\ ~config.fi_accordingto_cycle => config.fi_index = cur
    BY <1>5, HitAt
  <2>3. ~HitNow
    <3>1. call \in Nat /\ MyRegIndex = call - 1
      BY <2>1, OneSidedCalls
    <3>2. ~AlreadyInjected
      BY <2>1 DEF Selections
    <3>3. QED
      BY <3>1, <3>2 DEF AlreadyInjected, HitNow
  <2>4. HitCyclesSet' = HitCyclesSet \cup {Len(trace) + 1}
    BY <1>0, <2>2, HitCyclesGrow
  <2>5. Instances' = Instances
    BY <2>1 DEF Instances
  <2>6. QED
    BY <2>1, <2>2, <2>3, <2>4, <2>5 DEF InstanceInv, Serving
<1>6. CASE Corrupt
  <2>1. /\ phase = "corrupt" /\ phase' \in {"inject", "exited"}
        /\ UNCHANGED <<hits, trace, cur>> /\ config' = Advanced
    BY <1>6 DEF Corrupt
  <2>2. /\ config'.fi_index = config.fi_index
        /\ config'.fi_accordingto_cycle = config.fi_accordingto_cycle
        /\ config'.fi_reg_index = config.fi_reg_index
    BY <1>0, <2>1, AdvancedRest
  <2>3. HitCyclesSet' = HitCyclesSet /\ Instances' = Instances
    BY <2>1, <2>2 DEF HitCyclesSet, Instances
  <2>4. QED
    BY <2>1, <2>2, <2>3 DEF InstanceInv, Serving
<1>7. CASE PrintRecord \/ FlushRecord
  <2>1. /\ phase \in {"inject", "flush"} /\ phase' \in {"flush", "corrupt"}
        /\ UNCHANGED <<hits, trace, cur, config>>
    BY <1>7 DEF PrintRecord, FlushRecord, libVars
  <2>2. HitCyclesSet' = HitCyclesSet /\ Instances' = Instances
    BY <2>1 DEF HitCyclesSet, Instances
  <2>3. QED
    BY <2>1, <2>2 DEF InstanceInv, Serving
<1>8. CASE InjectReturns
  <2>1. /\ CallReturns /\ phase = "inject"
        /\ UNCHANGED <<config, hits, fiFlag, injectedInCurrInst>>
    BY <1>8 DEF InjectReturns, libVars
  <2>2. /\ cur \in Inst /\ call \in 1 .. RegNum[cur] /\ RegNum[cur] \in Nat
        /\ Counted(cur) /\ injectedInCurrInst
    BY <2>1, OneSidedCalls DEF CountInv, HitInv, Serving
  <2>3. SUFFICES ASSUME ~config.fi_accordingto_cycle PROVE InstanceInv'
    BY <2>1, OneSidedReturn DEF InstanceInv
  <2>4. cur = config.fi_index /\ HitCyclesSet = Instances \cup {Len(trace) + 1}
        /\ config.fi_reg_index < RegNum[cur]
    BY <2>1, <2>3 DEF InstanceInv, Serving
  <2>5. HitCyclesSet' = HitCyclesSet
    BY <2>1 DEF HitCyclesSet
  <2>6. CASE call < RegNum[cur]
    <3>1. phase' = "call" /\ call' = call + 1 /\ cur' = cur /\ trace' = trace
      BY <2>1, <2>2, <2>6, OneSidedReturn
    <3>2. HitNow' /\ Instances' = Instances
      BY <2>1, <2>2, <3>1 DEF HitNow, Counted, Instances
    <3>3. QED
      BY <2>1, <2>4, <2>5, <3>1, <3>2 DEF InstanceInv, Serving
  <2>7. CASE call = RegNum[cur]
    <3>1. phase' = "run" /\ trace' = Append(trace, cur)
      BY <2>1, <2>2, <2>7, OneSidedReturn
    <3>2. Instances' = Instances \cup {Len(trace) + 1}
      BY <1>0, <2>1, <2>2, <2>4, <3>1, InstancesGrow
    <3>3. QED
      BY <2>4, <2>5, <3>1, <3>2 DEF InstanceInv, Serving
  <2>8. QED
    BY <2>2, <2>6, <2>7
<1>9. CASE TurnOffInjections \/ TurnOnInjections
  <2>1. phase = "run" /\ UNCHANGED <<phase, hits, trace, config>>
    BY <1>9 DEF TurnOffInjections, TurnOnInjections, progVars
  <2>2. QED
    BY <2>1 DEF InstanceInv, Serving, HitCyclesSet, Instances
<1>10. CASE Kill \/ BitTooLarge \/ PostInjections
  <2>1. phase' \in {"killed", "aborted", "exited"}
    BY <1>10 DEF Kill, BitTooLarge, PostInjections
  <2>2. QED
    BY <2>1 DEF InstanceInv, Serving
<1>11. CASE UNCHANGED vars
  BY <1>11 DEF vars, libVars, progVars, InstanceInv, Serving, HitCyclesSet, Instances,
               HitNow, Counted
<1>12. QED
  BY <1>1, <1>2, <1>3, <1>4, <1>5, <1>6, <1>7, <1>8, <1>9, <1>10, <1>11
     DEF Next, Runtime, PreFunc, InjectFunc, Ended

(* In index mode every instance of the instruction has its hit.            *)
THEOREM EveryInstanceCorrect ==
  ASSUME OneSidedProgram, IndexHasRegister
  PROVE  Spec => []EveryInstance
<1>1. InstanceInv => EveryInstance
  BY DEF InstanceInv, EveryInstance, HitCyclesSet, Instances
<1>2. TypeOK /\ CountInv /\ [Next]_vars => CountInv'
  BY CountStep
<1>3. TypeOK /\ CountInv /\ HitInv /\ [Next]_vars => HitInv'
  BY HitStep
<1>4. TypeOK /\ ConfigInv /\ [Next]_vars => ConfigInv'
  BY ConfigStep
<1>5. TypeOK /\ ConfigInv /\ CountInv /\ HitInv /\ InstanceInv /\ [Next]_vars => InstanceInv'
  BY InstanceStep
<1>6. QED
  BY <1>1, <1>2, <1>3, <1>4, <1>5, CountInit, HitInit, ConfigInit, InstanceInit,
     TypeCorrect, PTL DEF Spec

-----------------------------------------------------------------------------
(***************************************************************************)
(* The plan of the file carried out: the refinement of FaultPlan.          *)
(***************************************************************************)
(* A schedule is the first cycle and then what the queue of it holds.      *)
LEMMA ScheduleParts ==
  ASSUME NEW c \in Cycle, NEW a \in Seq(Cycle), NEW b \in Seq(Cycle)
  PROVE  /\ a \o b \in Seq(Cycle)
         /\ <<c>> \o a \o b \in Seq(Cycle)
         /\ Len(<<c>> \o a \o b) = Len(a \o b) + 1
         /\ (<<c>> \o a \o b)[1] = c
         /\ \A j \in 1 .. Len(a \o b) : (<<c>> \o a \o b)[j + 1] = (a \o b)[j]
<1>1. /\ <<c>> \in Seq(Cycle) /\ Len(<<c>>) = 1 /\ <<c>>[1] = c
  OBVIOUS
<1>2. Len(a) \in Nat /\ Len(b) \in Nat
  OBVIOUS
<1>3. /\ a \o b \in Seq(Cycle) /\ Len(a \o b) = Len(a) + Len(b)
      /\ \A j \in 1 .. Len(a) + Len(b) : (a \o b)[j] = IF j <= Len(a) THEN a[j] ELSE b[j - Len(a)]
  BY ConcatProperties
<1>4. /\ <<c>> \o a \in Seq(Cycle) /\ Len(<<c>> \o a) = 1 + Len(a)
      /\ \A j \in 1 .. 1 + Len(a) : (<<c>> \o a)[j] = IF j <= 1 THEN c ELSE a[j - 1]
  BY <1>1, ConcatProperties
<1>5. /\ <<c>> \o a \o b \in Seq(Cycle) /\ Len(<<c>> \o a \o b) = 1 + Len(a) + Len(b)
      /\ \A j \in 1 .. 1 + Len(a) + Len(b) :
           (<<c>> \o a \o b)[j] = IF j <= 1 + Len(a) THEN (<<c>> \o a)[j] ELSE b[j - (1 + Len(a))]
  BY <1>4, ConcatProperties
<1>6. (<<c>> \o a \o b)[1] = c
  BY <1>2, <1>4, <1>5
<1>7. ASSUME NEW j \in 1 .. Len(a \o b)
      PROVE  (<<c>> \o a \o b)[j + 1] = (a \o b)[j]
  <2>1. CASE j <= Len(a)
    BY <1>2, <1>3, <1>4, <1>5, <2>1
  <2>2. CASE ~(j <= Len(a))
    BY <1>2, <1>3, <1>5, <2>2
  <2>3. QED
    BY <2>1, <2>2
<1>8. QED
  BY <1>2, <1>3, <1>5, <1>6, <1>7

(* What a file plans is a sequence of increasing cycles.                   *)
LEMMA ScheduleType ==
  ASSUME NEW f \in ConfigFile, PlannedFile(f)
  PROVE  /\ Schedule(f) \in Seq(Cycle) /\ Len(Schedule(f)) \in Nat \ {0}
         /\ \A j \in 1 .. Len(Schedule(f)) - 1 : Schedule(f)[j] < Schedule(f)[j + 1]
         /\ \A j \in 1 .. Len(Schedule(f)) : Schedule(f)[j] \in Cycle
<1> DEFINE c == f.fi_cycle
           a == IF f.fi_second_cycle # Unset THEN <<f.fi_second_cycle>> ELSE << >>
           b == f.fi_next_cycles
<1>1. f \in ConfigOptions
  BY FileAssumption
<1>2. c \in Cycle /\ b \in Seq(Cycle)
  BY <1>1 DEF PlannedFile, ConfigOptions
<1>3. a \in Seq(Cycle)
  BY <1>1, EmptySeq DEF ConfigOptions
<1>4. Schedule(f) = <<c>> \o a \o b
  BY DEF Schedule
<1> HIDE DEF a, b, c
<1>5. /\ a \o b \in Seq(Cycle) /\ Schedule(f) \in Seq(Cycle)
      /\ Len(Schedule(f)) = Len(a \o b) + 1
  BY <1>2, <1>3, <1>4, ScheduleParts
<1>6. Len(a \o b) \in Nat
  BY <1>5
<1>7. QED
  BY <1>5, <1>6 DEF PlannedFile

LEMMA QueueType ==
  ASSUME config \in ConfigType
  PROVE  Queue \in Seq(Cycle) /\ Len(Queue) \in Nat
<1> DEFINE a == IF config.fi_second_cycle # Unset THEN <<config.fi_second_cycle>> ELSE << >>
           b == config.fi_next_cycles
<1>1. a \in Seq(Cycle) /\ b \in Seq(Cycle)
  BY EmptySeq DEF ConfigType
<1>2. Queue = a \o b
  BY DEF Queue
<1> HIDE DEF a, b
<1>3. Queue \in Seq(Cycle)
  BY <1>1, <1>2, ConcatProperties
<1>4. QED
  BY <1>3

(* Moving on takes the head of the queue.                                  *)
LEMMA QueueAdvances ==
  ASSUME config \in ConfigType, config' = Advanced
  PROVE  /\ Len(Queue) > 0 =>
              /\ config'.fi_cycle = Queue[1] /\ Len(Queue') = Len(Queue) - 1
              /\ \A j \in 1 .. Len(Queue') : Queue'[j] = Queue[j + 1]
         /\ Len(Queue) = 0 => config' = config
<1> DEFINE nx == config.fi_next_cycles
<1>1. nx \in Seq(Cycle) /\ Len(nx) \in Nat /\ << >> \in Seq(Cycle) /\ Len(<< >>) = 0
  BY EmptySeq DEF ConfigType
<1>2. CASE config.fi_second_cycle # Unset
  <2> DEFINE c == config.fi_second_cycle
  <2>1. c \in Cycle
    BY <1>2 DEF ConfigType
  <2>2. /\ config'.fi_cycle = c /\ config'.fi_second_cycle = Unset
        /\ config'.fi_next_cycles = nx
    BY <1>2 DEF Advanced, ConfigType
  <2>3. Queue = <<c>> \o nx
    BY <1>2 DEF Queue
  <2>4. Queue' = << >> \o nx
    BY <2>2 DEF Queue
  <2>5. << >> \o nx = nx
    BY <1>1, ConcatEmptySeq
  <2>6. /\ Len(<<c>> \o nx) = 1 + Len(nx)
        /\ \A j \in 1 .. 1 + Len(nx) : (<<c>> \o nx)[j] = IF j <= 1 THEN c ELSE nx[j - 1]
    <3>1. <<c>> \in Seq(Cycle) /\ Len(<<c>>) = 1 /\ <<c>>[1] = c
      BY <2>1
    <3>2. QED
      BY <1>1, <3>1, ConcatProperties
  <2> HIDE DEF c, nx
  <2>7. QED
    BY <1>1, <2>2, <2>3, <2>4, <2>5, <2>6
<1>3. CASE config.fi_second_cycle = Unset
  <2>1. Queue = << >> \o nx
    BY <1>3 DEF Queue
  <2>2. Queue = nx
    BY <1>1, <2>1, ConcatEmptySeq
  <2>3. CASE nx = << >>
    BY <1>1, <1>3, <2>2, <2>3 DEF Advanced
  <2>4. CASE nx # << >>
    <3>1. /\ config'.fi_cycle = Head(nx) /\ config'.fi_second_cycle = Unset
          /\ config'.fi_next_cycles = Tail(nx)
      BY <1>3, <2>4 DEF Advanced, ConfigType
    <3>2. Queue' = << >> \o Tail(nx)
      BY <3>1 DEF Queue
    <3>3. /\ Tail(nx) \in Seq(Cycle) /\ Len(Tail(nx)) = Len(nx) - 1
          /\ \A j \in 1 .. Len(Tail(nx)) : Tail(nx)[j] = nx[j + 1]
      BY <1>1, <2>4, HeadTailProperties
    <3>4. Queue' = Tail(nx)
      BY <3>2, <3>3, ConcatEmptySeq
    <3>5. Head(nx) = nx[1] /\ Len(nx) > 0
      BY <1>1, <2>4, EmptySeq
    <3> HIDE DEF nx
    <3>6. QED
      BY <1>1, <2>2, <3>1, <3>3, <3>4, <3>5
  <2>5. QED
    BY <2>3, <2>4
<1>4. QED
  BY <1>2, <1>3

-----------------------------------------------------------------------------
(* Under a planned file the library goes by cycle, one bit for each.       *)
LEMMA PlanConfig ==
  ASSUME TypeOK, ConfigInv, PlannedFile(cfgFile),
         phase \in {"run", "call", "inject", "flush", "corrupt"}
  PROVE  /\ config.fi_accordingto_cycle /\ config.fi_num_bits = 1
         /\ config.fi_reg_index \in Nat \cup {Unset}
         /\ \A i \in Inst : config.fi_reg_index < RegNum[i]
<1>1. config.fi_reg_index \in Nat \cup {Unset}
  BY DEF TypeOK, ConfigType
<1>2. config.fi_accordingto_cycle
  BY DEF ConfigInv, Parsed, PlannedFile
<1>3. config.fi_num_bits = 1 /\ config.fi_reg_index = cfgFile.fi_reg_index
  BY DEF ConfigInv, Parsed, PlannedFile
<1>4. QED
  BY <1>1, <1>2, <1>3 DEF PlannedFile

(* What is given when a call starts.                                       *)
LEMMA CallGiven ==
  ASSUME OneSidedProgram, PlannedFile(cfgFile), TypeOK, ConfigInv, CountInv, HitInv,
         ScheduleInv, phase = "call", Counted(cur)
  PROVE  /\ cur \in Inst /\ call \in 1 .. RegNum[cur] /\ RegNum[cur] \in Nat \ {0}
         /\ MyRegIndex = call - 1 /\ (AlreadyInjected <=> HitNow)
         /\ InstSelected <=> config.fi_cycle = curr_cycle
         /\ Len(hits) \in Nat /\ Len(trace) \in Nat /\ curr_cycle = Len(trace) + 1
         /\ HitsPlanned /\ RestHeld /\ NonePassed /\ RegisterAhead
         /\ Taken = IF Len(hits) = Len(Schedule(cfgFile)) THEN Len(hits) ELSE Len(hits) + 1
<1>1. /\ cur \in Inst /\ call \in 1 .. RegNum[cur] /\ RegNum[cur] \in Nat \ {0}
      /\ MyRegIndex = call - 1
  BY OneSidedCalls
<1>2. AlreadyInjected <=> HitNow
  BY <1>1 DEF AlreadyInjected, HitNow
<1>3. Len(hits) \in Nat /\ Len(trace) \in Nat /\ curr_cycle = Len(trace) + 1
  BY HitCycles DEF CountInv, TypeOK
<1>4. config.fi_accordingto_cycle
  BY PlanConfig
<1>5. Cycles[cur] = 1
  BY <1>1, CountedCycle
<1>6. config.fi_cycle \in Cycle \cup {Unset}
  BY DEF TypeOK, ConfigType
<1>7. config.fi_cycle \in curr_cycle .. curr_cycle + Cycles[cur] - 1
        <=> config.fi_cycle = curr_cycle
  BY <1>3, <1>5, <1>6 DEF Unset, Cycle
<1>8. InstSelected <=> config.fi_cycle = curr_cycle
  BY <1>4, <1>7 DEF InstSelected
<1>9. HitsPlanned /\ RestHeld /\ NonePassed /\ RegisterAhead
  BY DEF ScheduleInv
<1>10. Taken = IF Len(hits) = Len(Schedule(cfgFile)) THEN Len(hits) ELSE Len(hits) + 1
  BY DEF Taken, Ahead
<1>11. QED
  BY <1>1, <1>2, <1>3, <1>8, <1>9, <1>10

(* preFunc selects only where a fault is due ...                           *)
LEMMA SelectedIsDue ==
  ASSUME OneSidedProgram, PlannedFile(cfgFile), TypeOK, ConfigInv, CountInv, HitInv,
         ScheduleInv, phase = "call", Counted(cur), TRUE \in Selections
  PROVE  /\ Len(hits) < Len(Schedule(cfgFile))
         /\ Schedule(cfgFile)[Len(hits) + 1] = curr_cycle
<1> DEFINE S == Schedule(cfgFile)
<1>1. Len(S) \in Nat \ {0}
  BY ScheduleType DEF TypeOK
<1>2. ~AlreadyInjected
  BY DEF Selections
<1>3. InstSelected
  BY DEF Selections
<1>4. ~HitNow /\ config.fi_cycle = curr_cycle /\ config.fi_cycle = S[Taken]
  BY <1>2, <1>3, CallGiven DEF RestHeld
<1>5. /\ Len(hits) \in Nat /\ curr_cycle = Len(trace) + 1 /\ Len(hits) <= Len(S)
      /\ \A k \in 1 .. Len(hits) : hits[k].at = S[k]
      /\ Taken = IF Len(hits) = Len(S) THEN Len(hits) ELSE Len(hits) + 1
  BY CallGiven DEF HitsPlanned
<1>6. Len(hits) # Len(S)
  <2>1. SUFFICES ASSUME Len(hits) = Len(S) PROVE FALSE
    OBVIOUS
  <2>2. Len(hits) \in 1 .. Len(hits) /\ Taken = Len(hits)
    BY <1>1, <1>5, <2>1
  <2>3. hits[Len(hits)].at = Len(trace) + 1
    BY <1>4, <1>5, <2>2
  <2>4. call > 1 /\ injectedInCurrInst
    BY <2>2, <2>3 DEF HitInv
  <2>5. QED
    BY <1>4, <2>4 DEF HitNow
<1>7. Taken = Len(hits) + 1
  BY <1>5, <1>6
<1> HIDE DEF S
<1>8. Len(hits) < Len(S) /\ S[Len(hits) + 1] = curr_cycle
  BY <1>1, <1>4, <1>5, <1>6, <1>7
<1>9. QED
  BY <1>8 DEF S

(* ... and does not let the last call of an instruction go by when one is. *)
LEMMA DeclinedNotDue ==
  ASSUME OneSidedProgram, PlannedFile(cfgFile), TypeOK, ConfigInv, CountInv, HitInv,
         ScheduleInv, phase = "call", Counted(cur), FALSE \in Selections,
         call = RegNum[cur], Len(hits) < Len(Schedule(cfgFile))
  PROVE  Schedule(cfgFile)[Len(hits) + 1] > curr_cycle
<1> DEFINE S == Schedule(cfgFile)
<1>1. /\ Len(S) \in Nat /\ S[Len(hits) + 1] \in Cycle
      /\ Len(hits) > 0 => S[Len(hits)] < S[Len(hits) + 1] /\ S[Len(hits)] \in Cycle
  BY ScheduleType, CallGiven DEF TypeOK
<1>2. /\ Len(hits) \in Nat /\ curr_cycle \in Nat /\ curr_cycle = Len(trace) + 1
      /\ \A k \in 1 .. Len(hits) : hits[k].at = S[k]
      /\ S[Len(hits) + 1] >= curr_cycle /\ config.fi_cycle = S[Len(hits) + 1]
  BY CallGiven DEF HitsPlanned, NonePassed, RestHeld
<1>3. CASE HitNow
  <2>1. Len(hits) > 0 /\ hits[Len(hits)].at = Len(trace) + 1
    BY <1>3 DEF ScheduleInv
  <2>2. S[Len(hits)] = curr_cycle
    BY <1>2, <2>1
  <2> HIDE DEF S
  <2>3. S[Len(hits) + 1] > curr_cycle
    BY <1>1, <1>2, <2>1, <2>2 DEF Cycle
  <2>4. QED
    BY <2>3 DEF S
<1>4. CASE ~HitNow
  <2>1. SUFFICES ASSUME S[Len(hits) + 1] = curr_cycle PROVE FALSE
    BY <1>1, <1>2 DEF Cycle
  <2>2. /\ config.fi_cycle = curr_cycle /\ ~AlreadyInjected /\ InstSelected
        /\ MyRegIndex = call - 1
    BY <1>2, <1>4, <2>1, CallGiven
  <2>3. FALSE \in Draw(call - 1, RegNum[cur])
    BY <2>2 DEF Selections
  <2>4. /\ RegNum[cur] \in Nat \ {0} /\ config.fi_reg_index \in Nat \cup {Unset}
        /\ config.fi_reg_index < RegNum[cur]
    BY CallGiven, PlanConfig
  <2>5. config.fi_reg_index >= 0 => call - 1 <= config.fi_reg_index
    BY <1>4, <2>2, CallGiven DEF RegisterAhead
  <2>6. config.fi_reg_index >= 0 => config.fi_reg_index = call - 1
    BY <2>4, <2>5 DEF Unset
  <2>7. Draw(call - 1, RegNum[cur]) = {TRUE}
    <3>1. CASE config.fi_reg_index >= 0
      BY <2>6, <3>1 DEF Draw
    <3>2. CASE ~(config.fi_reg_index >= 0)
      BY <3>2 DEF Draw
    <3>3. QED
      BY <3>1, <3>2
  <2>8. QED
    BY <2>3, <2>7
<1>5. QED
  BY <1>3, <1>4

-----------------------------------------------------------------------------
LEMMA ScheduleInit == Init => ScheduleInv
BY DEF Init, ScheduleInv, Serving

(* A step that leaves hits and locations alone leaves the plan alone.      *)
LEMMA SamePlan ==
  ASSUME UNCHANGED <<hits, config, cfgFile>>, Ahead' <=> Ahead
  PROVE  /\ HitsPlanned => HitsPlanned'
         /\ RestHeld => RestHeld'
         /\ NonePassed /\ curr_cycle' = curr_cycle => NonePassed'
<1>1. Schedule(cfgFile)' = Schedule(cfgFile) /\ Queue' = Queue
  BY DEF Schedule, Queue
<1>2. Taken' = Taken
  BY <1>1 DEF Taken
<1>3. HitsPlanned => HitsPlanned'
  BY <1>1 DEF HitsPlanned
<1>4. RestHeld => RestHeld'
  BY <1>1, <1>2 DEF RestHeld
<1>5. NonePassed /\ curr_cycle' = curr_cycle => NonePassed'
  BY <1>1 DEF NonePassed
<1>6. QED
  BY <1>3, <1>4, <1>5

(* The file is read: nothing is hit and the whole plan is ahead.           *)
LEMMA ScheduleBoot ==
  ASSUME TypeOK, CountInv, ScheduleInv, InitInjections
  PROVE  ScheduleInv'
<1>1. SUFFICES ASSUME PlannedFile(cfgFile) PROVE ScheduleInv'
  BY DEF InitInjections, ScheduleInv, PlannedFile, Schedule
<1>2. /\ phase = "boot" /\ phase' \in {"run", "exited"}
      /\ UNCHANGED <<hits, trace, cfgFile, curr_cycle>> /\ hits = << >> /\ trace = << >>
  BY <1>1 DEF InitInjections, ScheduleInv
<1>3. phase' = "run" => config' = Parsed(cfgFile)
  BY DEF InitInjections
<1>4. phase' = "exited" => ScheduleInv'
  BY DEF ScheduleInv, Serving
<1>5. ASSUME phase' = "run" PROVE HitsPlanned' /\ RestHeld' /\ NonePassed'
  <2> DEFINE c == cfgFile.fi_cycle
             a == IF cfgFile.fi_second_cycle # Unset THEN <<cfgFile.fi_second_cycle>> ELSE << >>
             b == cfgFile.fi_next_cycles
             S == Schedule(cfgFile)
  <2>1. cfgFile \in ConfigOptions
    BY FileAssumption DEF TypeOK
  <2>2. c \in Cycle /\ b \in Seq(Cycle) /\ a \in Seq(Cycle)
    BY <1>1, <2>1, EmptySeq DEF PlannedFile, ConfigOptions
  <2>3. S = <<c>> \o a \o b /\ Schedule(cfgFile)' = S
    BY <1>2 DEF Schedule
  <2>4. config'.fi_cycle = c /\ Queue' = a \o b
    <3>1. /\ config'.fi_cycle = c /\ config'.fi_next_cycles = b
          /\ config'.fi_second_cycle = cfgFile.fi_second_cycle
      BY <1>3, <1>5 DEF Parsed
    <3>2. QED
      BY <3>1 DEF Queue
  <2> HIDE DEF a, b, c, S
  <2>5. /\ a \o b \in Seq(Cycle) /\ Len(S) = Len(a \o b) + 1 /\ S[1] = c
        /\ \A j \in 1 .. Len(a \o b) : S[j + 1] = (a \o b)[j]
    BY <2>2, <2>3, ScheduleParts
  <2>6. Len(a \o b) \in Nat /\ Len(hits') = 0 /\ Len(trace) = 0 /\ Len(hits)' = 0
    BY <1>2, <2>5, EmptySeq
  <2>7. ~Ahead'
    BY <1>5 DEF Ahead
  <2>8. Taken' = 1
    BY <2>3, <2>5, <2>6, <2>7 DEF Taken
  <2>9. RestHeld'
    BY <2>3, <2>4, <2>5, <2>6, <2>8 DEF RestHeld
  <2>10. HitsPlanned'
    BY <2>3, <2>5, <2>6 DEF HitsPlanned
  <2>11. NonePassed'
    <3>1. curr_cycle' = 1
      BY <1>2, <2>6 DEF CountInv
    <3>2. QED
      BY <2>2, <2>3, <2>5, <2>6, <3>1 DEF NonePassed, Cycle
  <2>12. QED
    BY <2>9, <2>10, <2>11
<1>6. QED
  BY <1>2, <1>4, <1>5 DEF ScheduleInv, Serving

(* A call returns without a hit, declined or not counted at all.           *)
LEMMA ScheduleDeclined ==
  ASSUME OneSidedProgram, PlannedFile(cfgFile), TypeOK, ConfigInv, CountInv, HitInv,
         ScheduleInv, PreFuncDeclines
  PROVE  ScheduleInv'
<1> DEFINE S == Schedule(cfgFile)
<1>1. /\ CallReturns /\ phase = "call" /\ Counted(cur) /\ FALSE \in Selections
      /\ injectedInCurrInst' = AlreadyInjected /\ curr_cycle' = CycleAfterCall
      /\ UNCHANGED <<config, hits, fiFlag, cfgFile>>
  BY DEF PreFuncDeclines
<1>2. /\ cur \in Inst /\ call \in 1 .. RegNum[cur] /\ RegNum[cur] \in Nat \ {0}
      /\ MyRegIndex = call - 1 /\ (AlreadyInjected <=> HitNow)
      /\ InstSelected <=> config.fi_cycle = curr_cycle
      /\ Len(hits) \in Nat /\ Len(trace) \in Nat /\ curr_cycle = Len(trace) + 1
      /\ HitsPlanned /\ RestHeld /\ NonePassed /\ RegisterAhead
  BY <1>1, CallGiven
<1>3. S' = S /\ PlannedFile(cfgFile)'
  BY <1>1 DEF Schedule, PlannedFile
<1>4. phase' \in {"call", "run"}
  BY <1>1 DEF CallReturns
<1>5. HitsPlanned' /\ RestHeld'
  BY <1>1, <1>2, <1>4, SamePlan DEF Ahead
<1>6. CASE call < RegNum[cur]
  <2>1. phase' = "call" /\ call' = call + 1 /\ cur' = cur /\ trace' = trace
    BY <1>1, <1>2, <1>6, OneSidedReturn
  <2>2. curr_cycle' = curr_cycle
    BY <1>1, <1>2, <1>6 DEF CycleAfterCall
  <2>3. HitNow' <=> HitNow
    BY <1>1, <1>2, <2>1 DEF HitNow, Counted
  <2>4. NonePassed'
    BY <1>1, <1>2, <1>3, <2>2 DEF NonePassed
  <2>5. RegisterAhead'
    <3>1. SUFFICES ASSUME ~HitNow, config.fi_cycle = curr_cycle, config.fi_reg_index >= 0
                   PROVE  call <= config.fi_reg_index
      BY <1>1, <1>2, <2>1, <2>2, <2>3 DEF RegisterAhead
    <3>2. FALSE \in Draw(call - 1, RegNum[cur])
      BY <1>1, <1>2, <3>1 DEF Selections
    <3>3. config.fi_reg_index # call - 1
      BY <3>1, <3>2 DEF Draw
    <3>4. call - 1 <= config.fi_reg_index
      BY <1>1, <1>2, <3>1 DEF RegisterAhead
    <3>5. config.fi_reg_index \in Nat \cup {Unset}
      BY <1>1, PlanConfig
    <3>6. QED
      BY <1>2, <3>1, <3>3, <3>4, <3>5 DEF Unset
  <2>6. HitNow' => Len(hits') > 0 /\ hits'[Len(hits')].at = Len(trace') + 1
    BY <1>1, <2>1, <2>3 DEF ScheduleInv
  <2>7. QED
    BY <2>1, <1>5, <2>4, <2>5, <2>6 DEF ScheduleInv, Serving
<1>7. CASE call = RegNum[cur]
  <2>1. phase' = "run"
    BY <1>1, <1>2, <1>7, OneSidedReturn
  <2>2. curr_cycle' = curr_cycle + 1
    BY <1>1, <1>2, <1>7, CountedCycle DEF CycleAfterCall
  <2>3. Len(hits) < Len(S) => S[Len(hits) + 1] > curr_cycle
    BY <1>1, <1>7, DeclinedNotDue
  <2>4. Len(hits) < Len(S) => S[Len(hits) + 1] \in Cycle
    <3>1. Len(S) \in Nat /\ \A j \in 1 .. Len(S) : S[j] \in Cycle
      BY ScheduleType DEF TypeOK
    <3> HIDE DEF S
    <3>2. QED
      BY <1>2, <3>1
  <2>5. Len(hits') < Len(S) => S[Len(hits') + 1] >= curr_cycle'
    <3> HIDE DEF S
    <3>1. QED
      BY <1>1, <1>2, <2>2, <2>3, <2>4 DEF Cycle
  <2>6. NonePassed'
    BY <1>3, <2>5 DEF NonePassed
  <2>7. QED
    BY <2>1, <1>5, <2>6 DEF ScheduleInv, Serving
<1>8. QED
  BY <1>2, <1>6, <1>7

(* A hit takes the head of the plan.                                       *)
LEMMA ScheduleSelected ==
  ASSUME OneSidedProgram, PlannedFile(cfgFile), TypeOK, ConfigInv, CountInv, HitInv,
         ScheduleInv, PreFuncSelects
  PROVE  /\ ScheduleInv'
         /\ Len(hits) < Len(Schedule(cfgFile))
         /\ Schedule(cfgFile)[Len(hits) + 1] = curr_cycle
         /\ curr_cycle' \in {curr_cycle, curr_cycle + 1}
<1> DEFINE S == Schedule(cfgFile)
<1>1. /\ phase = "call" /\ phase' = "inject" /\ Counted(cur) /\ TRUE \in Selections
      /\ UNCHANGED <<config, cur, call, trace, cfgFile>> /\ runs' = 0
      /\ curr_cycle' = CycleAfterCall
  BY DEF PreFuncSelects
<1>2. /\ Len(hits') = Len(hits) + 1 /\ hits'[Len(hits')].at = Len(trace) + 1
      /\ \A k \in 1 .. Len(hits) : hits'[k] = hits[k]
  BY HitAt
<1>3. /\ cur \in Inst /\ call \in 1 .. RegNum[cur] /\ RegNum[cur] \in Nat \ {0}
      /\ Len(hits) \in Nat /\ curr_cycle = Len(trace) + 1 /\ Len(trace) \in Nat
      /\ HitsPlanned /\ RestHeld /\ NonePassed
      /\ Taken = IF Len(hits) = Len(S) THEN Len(hits) ELSE Len(hits) + 1
  BY <1>1, CallGiven
<1>4. Len(hits) < Len(S) /\ S[Len(hits) + 1] = curr_cycle
  BY <1>1, SelectedIsDue
<1>5. curr_cycle' \in {curr_cycle, curr_cycle + 1}
  BY <1>1, <1>3, CountedCycle DEF CycleAfterCall
<1>6. Schedule(cfgFile)' = S /\ Queue' = Queue
  BY <1>1 DEF Schedule, Queue
<1>7. /\ Len(S) \in Nat /\ \A j \in 1 .. Len(S) : S[j] \in Cycle
      /\ \A j \in 1 .. Len(S) - 1 : S[j] < S[j + 1]
  BY ScheduleType DEF TypeOK
<1>8. Taken' = Len(hits) + 1 /\ Taken = Len(hits) + 1
  BY <1>1, <1>2, <1>3, <1>4 DEF Taken, Ahead
<1>9. RestHeld'
  BY <1>1, <1>3, <1>6, <1>8 DEF RestHeld
<1>10. HitsPlanned'
  <2>1. \A k \in 1 .. Len(hits) : hits[k].at = S[k]
    BY <1>3 DEF HitsPlanned
  <2> HIDE DEF S
  <2>2. ASSUME NEW k \in 1 .. Len(hits') PROVE hits'[k].at = S[k]
    <3>1. CASE k \in 1 .. Len(hits)
      BY <1>2, <2>1, <3>1
    <3>2. CASE k = Len(hits) + 1
      BY <1>2, <1>3, <1>4, <3>2
    <3>3. QED
      BY <1>2, <1>3, <3>1, <3>2
  <2>3. QED
    BY <1>2, <1>3, <1>4, <1>6, <1>7, <2>2 DEF HitsPlanned
<1>11. NonePassed'
  <2> HIDE DEF S
  <2>1. SUFFICES ASSUME Len(hits) + 1 < Len(S)
                 PROVE  S[Len(hits) + 2] >= curr_cycle'
    BY <1>2, <1>3, <1>6 DEF NonePassed
  <2>2. /\ S[Len(hits) + 1] < S[Len(hits) + 2]
        /\ S[Len(hits) + 2] \in Nat /\ curr_cycle \in Nat
    BY <1>3, <1>7, <2>1 DEF Cycle
  <2>3. QED
    BY <1>4, <1>5, <2>2
<1>12. Len(hits') > 0 /\ hits'[Len(hits')].at = Len(trace') + 1
  BY <1>1, <1>2, <1>3
<1>13. QED
  BY <1>1, <1>4, <1>5, <1>9, <1>10, <1>11, <1>12 DEF ScheduleInv, Serving

(* The library has moved on to the next location of the plan.              *)
LEMMA ScheduleAdvanced ==
  ASSUME PlannedFile(cfgFile), TypeOK, ScheduleInv, Corrupt, phase' = "inject"
  PROVE  HitsPlanned' /\ RestHeld' /\ NonePassed'
<1> DEFINE S == Schedule(cfgFile)
<1>1. /\ phase = "corrupt" /\ config' = Advanced /\ runs' = runs + 1
      /\ UNCHANGED <<hits, curr_cycle, cfgFile>>
  BY DEF Corrupt
<1>2. runs = 0 /\ HitsPlanned /\ RestHeld /\ NonePassed
  BY <1>1 DEF ScheduleInv
<1>3. S' = S
  BY <1>1 DEF Schedule
<1>4. Taken = Len(hits)
  BY <1>1 DEF Taken, Ahead
<1>5. Taken' = IF Len(hits) = Len(S) THEN Len(hits) ELSE Len(hits) + 1
  BY <1>1, <1>2, <1>3 DEF Taken, Ahead
<1>6. Len(hits) \in Nat /\ Len(S) \in Nat
  BY HitCycles, ScheduleType DEF TypeOK
<1>7. Len(Queue) \in Nat
  BY QueueType DEF TypeOK
<1>8. /\ config.fi_cycle = S[Len(hits)] /\ Len(Queue) = Len(S) - Len(hits)
      /\ \A j \in 1 .. Len(Queue) : Queue[j] = S[Len(hits) + j]
  BY <1>2, <1>4 DEF RestHeld
<1>9. RestHeld'
  <2>1. CASE Len(Queue) = 0
    <3>1. config' = config
      BY <1>1, <2>1, QueueAdvances DEF TypeOK
    <3>2. Queue' = Queue
      BY <3>1 DEF Queue
    <3>3. Taken' = Len(hits)
      BY <1>5, <1>6, <1>8, <2>1
    <3>4. QED
      BY <1>3, <1>8, <3>1, <3>2, <3>3 DEF RestHeld
  <2>2. CASE Len(Queue) > 0
    <3>1. /\ config'.fi_cycle = Queue[1] /\ Len(Queue') = Len(Queue) - 1
          /\ \A j \in 1 .. Len(Queue') : Queue'[j] = Queue[j + 1]
      BY <1>1, <2>2, QueueAdvances DEF TypeOK
    <3>2. Taken' = Len(hits) + 1
      BY <1>5, <1>6, <1>8, <2>2
    <3> HIDE DEF S
    <3>3. Queue[1] = S[Len(hits) + 1]
      BY <1>7, <1>8, <2>2
    <3>4. ASSUME NEW j \in 1 .. Len(Queue') PROVE Queue'[j] = S[Len(hits) + 1 + j]
      BY <1>6, <1>7, <1>8, <3>1
    <3>5. QED
      BY <1>3, <1>6, <1>7, <1>8, <3>1, <3>2, <3>3, <3>4 DEF RestHeld, S
  <2>3. QED
    BY <1>7, <2>1, <2>2
<1>10. QED
  BY <1>1, <1>2, <1>3, <1>9 DEF HitsPlanned, NonePassed

(* Every step keeps to the plan.                                           *)
LEMMA ScheduleStep ==
  ASSUME OneSidedProgram, TypeOK, ConfigInv, CountInv, HitInv, ScheduleInv, [Next]_vars
  PROVE  ScheduleInv'
<1>1. CASE InitInjections
  BY <1>1, ScheduleBoot
<1>2. SUFFICES ASSUME ~InitInjections, PlannedFile(cfgFile) PROVE ScheduleInv'
  <2>1. cfgFile' = cfgFile
    BY DEF Next, Runtime, PreFunc, InjectFunc, Ended, vars, libVars, fileVars, progVars,
           InitInjections, PreFuncSkips, PreFuncSelects, PreFuncDeclines, BitTooLarge,
           PrintRecord, FlushRecord, Corrupt, InjectReturns, BeginInst, Kill,
           TurnOffInjections, TurnOnInjections, PostInjections
  <2>2. ~PlannedFile(cfgFile) => ~PlannedFile(cfgFile)'
    BY <2>1 DEF PlannedFile, Schedule
  <2>3. QED
    BY <1>1, <2>2 DEF ScheduleInv
<1>3. ASSUME NEW i \in Inst, BeginInst(i) PROVE ScheduleInv'
  <2>1. /\ phase = "run" /\ phase' = "call" /\ call' = 1
        /\ UNCHANGED <<config, hits, cfgFile, curr_cycle>>
    BY <1>3 DEF BeginInst, libVars
  <2>2. HitsPlanned' /\ RestHeld' /\ NonePassed'
    BY <1>2, <2>1, SamePlan DEF ScheduleInv, Ahead
  <2>3. ~HitNow'
    BY <2>1 DEF HitNow
  <2>4. RegisterAhead'
    <3>1. config.fi_reg_index \in Nat \cup {Unset}
      BY DEF TypeOK, ConfigType
    <3>2. QED
      BY <2>1, <3>1 DEF RegisterAhead, Unset
  <2>5. QED
    BY <2>1, <2>2, <2>3, <2>4 DEF ScheduleInv, Serving
<1>4. CASE PreFuncSkips
  <2>1. /\ CallReturns /\ phase = "call" /\ ~Counted(cur)
        /\ UNCHANGED <<config, hits, cfgFile, curr_cycle, fiFlag>>
    BY <1>4 DEF PreFuncSkips, libVars
  <2>2. phase' \in {"call", "run"} /\ (phase' = "call" => cur' = cur)
    BY <2>1 DEF CallReturns
  <2>3. HitsPlanned' /\ RestHeld' /\ NonePassed'
    BY <1>2, <2>1, <2>2, SamePlan DEF ScheduleInv, Ahead
  <2>4. phase' = "call" => ~Counted(cur)'
    BY <2>1, <2>2 DEF Counted
  <2>5. phase' = "call" => ~HitNow' /\ RegisterAhead'
    BY <2>4 DEF HitNow, RegisterAhead
  <2>6. QED
    BY <2>2, <2>3, <2>5 DEF ScheduleInv, Serving
<1>5. CASE PreFuncDeclines
  BY <1>2, <1>5, ScheduleDeclined
<1>6. CASE PreFuncSelects
  BY <1>2, <1>6, ScheduleSelected
<1>7. CASE PrintRecord
  <2>1. /\ phase = "inject" /\ phase' = "flush" /\ MoreBits
        /\ UNCHANGED <<config, hits, cfgFile, curr_cycle, runs, trace>>
    BY <1>7 DEF PrintRecord, libVars
  <2>2. runs \in {0, 1} /\ config.fi_num_bits = 1
    BY <1>2, <2>1, PlanConfig DEF ScheduleInv
  <2>3. runs = 0
    BY <2>1, <2>2 DEF MoreBits
  <2>4. HitsPlanned' /\ RestHeld' /\ NonePassed'
    BY <1>2, <2>1, <2>3, SamePlan DEF ScheduleInv, Ahead
  <2>5. QED
    BY <1>2, <2>1, <2>3, <2>4 DEF ScheduleInv, Serving
<1>8. CASE FlushRecord
  <2>1. /\ phase = "flush" /\ phase' = "corrupt"
        /\ UNCHANGED <<config, hits, cfgFile, curr_cycle, runs, trace>>
    BY <1>8 DEF FlushRecord, libVars, loopVars
  <2>2. HitsPlanned' /\ RestHeld' /\ NonePassed'
    BY <1>2, <2>1, SamePlan DEF ScheduleInv, Ahead
  <2>3. QED
    BY <1>2, <2>1, <2>2 DEF ScheduleInv, Serving
<1>9. CASE Corrupt
  <2>1. /\ phase = "corrupt" /\ phase' \in {"inject", "exited"}
        /\ UNCHANGED <<hits, trace>> /\ (phase' = "inject" => runs' = runs + 1)
    BY <1>9 DEF Corrupt
  <2>2. phase' = "inject" => HitsPlanned' /\ RestHeld' /\ NonePassed'
    BY <1>2, <1>9, ScheduleAdvanced
  <2>3. phase' = "inject" => runs' = 1
    BY <1>2, <2>1 DEF ScheduleInv
  <2>4. QED
    BY <1>2, <2>1, <2>2, <2>3 DEF ScheduleInv, Serving
<1>10. CASE InjectReturns
  <2>1. /\ CallReturns /\ phase = "inject" /\ ~MoreBits
        /\ UNCHANGED <<config, hits, cfgFile, curr_cycle, runs, injectedInCurrInst, fiFlag>>
    BY <1>10 DEF InjectReturns, libVars, loopVars
  <2>2. runs \in {0, 1} /\ config.fi_num_bits = 1
    BY <1>2, <2>1, PlanConfig DEF ScheduleInv
  <2>3. runs = 1
    BY <2>1, <2>2, ValueAssumption DEF MoreBits
  <2>4. phase' \in {"call", "run"}
    BY <2>1 DEF CallReturns
  <2>5. HitsPlanned' /\ RestHeld' /\ NonePassed'
    BY <1>2, <2>1, <2>3, <2>4, SamePlan DEF ScheduleInv, Ahead
  <2>6. ASSUME phase' = "call" PROVE HitNow' /\ trace' = trace
    <3>1. call \in Nat /\ call >= 1 /\ Counted(cur) /\ injectedInCurrInst
      BY <2>1, OneSidedCalls DEF CountInv, HitInv, Serving
    <3>2. call' = call + 1 /\ cur' = cur /\ trace' = trace
      BY <2>1, <2>6 DEF CallReturns
    <3>3. Counted(cur)' /\ injectedInCurrInst'
      BY <2>1, <3>1, <3>2 DEF Counted
    <3>4. QED
      BY <3>1, <3>2, <3>3 DEF HitNow
  <2>7. Len(hits) > 0 /\ hits[Len(hits)].at = Len(trace) + 1
    BY <1>2, <2>1 DEF ScheduleInv, Serving
  <2>8. QED
    BY <2>1, <2>4, <2>5, <2>6, <2>7 DEF ScheduleInv, Serving, RegisterAhead
<1>11. CASE TurnOffInjections \/ TurnOnInjections
  <2>1. phase = "run" /\ phase' = "run" /\ UNCHANGED <<config, hits, cfgFile, curr_cycle>>
    BY <1>11 DEF TurnOffInjections, TurnOnInjections, progVars
  <2>2. HitsPlanned' /\ RestHeld' /\ NonePassed'
    BY <1>2, <2>1, SamePlan DEF ScheduleInv, Ahead
  <2>3. QED
    BY <2>1, <2>2 DEF ScheduleInv, Serving
<1>12. CASE Kill \/ BitTooLarge \/ PostInjections
  <2>1. phase' \in {"killed", "aborted", "exited"}
    BY <1>12 DEF Kill, BitTooLarge, PostInjections
  <2>2. QED
    BY <2>1 DEF ScheduleInv, Serving
<1>13. CASE UNCHANGED vars
  <2>1. UNCHANGED <<config, hits, cfgFile, curr_cycle, phase, runs, trace, call, cur,
                    injectedInCurrInst, fiFlag>>
    BY <1>13 DEF vars, libVars, progVars, loopVars
  <2>2. phase \in {"run", "call", "inject", "flush", "corrupt"} =>
          HitsPlanned' /\ RestHeld' /\ NonePassed'
    BY <1>2, <2>1, SamePlan DEF ScheduleInv, Ahead
  <2>3. (HitNow' <=> HitNow) /\ (RegisterAhead => RegisterAhead')
    BY <2>1 DEF HitNow, RegisterAhead, Counted
  <2>4. QED
    BY <1>2, <2>1, <2>2, <2>3 DEF ScheduleInv, Serving
<1>14. QED
  BY <1>2, <1>3, <1>4, <1>5, <1>6, <1>7, <1>8, <1>9, <1>10, <1>11, <1>12, <1>13
     DEF Next, Runtime, PreFunc, InjectFunc, Ended

-----------------------------------------------------------------------------
(* The plan that is left, and what it looks like once its head is struck.  *)
LEMMA PlanLeft ==
  ASSUME NEW s \in Seq(Cycle), NEW n \in Nat
  PROVE  /\ n >= Len(s) => SubSeq(s, n + 1, Len(s)) = << >>
         /\ n < Len(s) => /\ SubSeq(s, n + 1, Len(s)) # << >>
                          /\ Head(SubSeq(s, n + 1, Len(s))) = s[n + 1]
                          /\ Tail(SubSeq(s, n + 1, Len(s))) = SubSeq(s, n + 2, Len(s))
<1>1. Len(s) \in Nat
  OBVIOUS
<1>2. n >= Len(s) => SubSeq(s, n + 1, Len(s)) = << >>
  BY <1>1, SubSeqEmpty
<1>3. ASSUME n < Len(s)
      PROVE  /\ SubSeq(s, n + 1, Len(s)) # << >>
             /\ Head(SubSeq(s, n + 1, Len(s))) = s[n + 1]
             /\ Tail(SubSeq(s, n + 1, Len(s))) = SubSeq(s, n + 2, Len(s))
  <2>1. n + 1 \in 1 .. Len(s) /\ Len(s) \in n + 1 .. Len(s)
    BY <1>1, <1>3
  <2>2. /\ Head(SubSeq(s, n + 1, Len(s))) = s[n + 1]
        /\ Tail(SubSeq(s, n + 1, Len(s))) = SubSeq(s, (n + 1) + 1, Len(s))
    BY <2>1, HeadTailOfSubSeq
  <2>3. Len(SubSeq(s, n + 1, Len(s))) = Len(s) - n
    <3>1. \A i \in n + 1 .. Len(s) : s[i] \in Cycle
      BY <1>1
    <3>2. QED
      BY <1>1, <1>3, <3>1, SubSeqProperties
  <2>4. SubSeq(s, n + 1, Len(s)) # << >>
    <3>1. Len(SubSeq(s, n + 1, Len(s))) # 0
      BY <1>1, <1>3, <2>3
    <3>2. QED
      BY <3>1, EmptySeq
  <2>5. (n + 1) + 1 = n + 2
    OBVIOUS
  <2>6. QED
    BY <2>2, <2>4, <2>5
<1>4. QED
  BY <1>2, <1>3

LEMMA PlanInit == ASSUME TypeOK, Init PROVE Plan!Init
<1>1. CASE PlannedFile(cfgFile)
  <2> DEFINE S == Schedule(cfgFile)
  <2>1. /\ S \in Seq(Cycle) /\ Len(S) \in Nat
        /\ \A j \in 1 .. Len(S) - 1 : S[j] < S[j + 1]
    BY <1>1, ScheduleType DEF TypeOK
  <2>2. curr_cycle = 1 /\ hits = << >> /\ Len(hits) = 0
    BY EmptySeq DEF Init
  <2> HIDE DEF S
  <2>3. SubSeq(S, Len(hits) + 1, Len(S)) = S
    BY <2>1, <2>2, SubSeqFull
  <2>4. [k \in 1 .. Len(hits) |-> hits[k].at] = << >>
    BY <2>2
  <2>5. S \in Seq(Nat \ {0})
    BY <2>1 DEF Cycle
  <2>6. QED
    BY <1>1, <2>1, <2>2, <2>3, <2>4, <2>5 DEF Plan!Init, Plan!Increasing, S
<1>2. CASE ~PlannedFile(cfgFile)
  BY <1>2, EmptySeq DEF Plan!Init, Plan!Increasing
<1>3. QED
  BY <1>1, <1>2

(* A step that changes neither the hits nor the counter is a stutter.      *)
LEMMA PlanStutter ==
  ASSUME UNCHANGED <<cfgFile, hits, curr_cycle>>
  PROVE  UNCHANGED Plan!vars
<1>1. /\ PlannedFile(cfgFile)' <=> PlannedFile(cfgFile)
      /\ Schedule(cfgFile)' = Schedule(cfgFile)
  BY DEF PlannedFile, Schedule
<1>2. QED
  BY <1>1 DEF Plan!vars

LEMMA PlanStep ==
  ASSUME OneSidedProgram, TypeOK, ConfigInv, CountInv, HitInv, ScheduleInv, [Next]_vars
  PROVE  [Plan!Next]_(Plan!vars)
<1>1. cfgFile' = cfgFile
  BY DEF Next, Runtime, PreFunc, InjectFunc, Ended, vars, libVars, fileVars, progVars,
         InitInjections, PreFuncSkips, PreFuncSelects, PreFuncDeclines, BitTooLarge,
         PrintRecord, FlushRecord, Corrupt, InjectReturns, BeginInst, Kill,
         TurnOffInjections, TurnOnInjections, PostInjections
<1>2. CASE ~PlannedFile(cfgFile)
  <2>1. ~PlannedFile(cfgFile)'
    BY <1>1, <1>2 DEF PlannedFile, Schedule
  <2>2. UNCHANGED Plan!vars
    BY <1>2, <2>1 DEF Plan!vars
  <2>3. QED
    BY <2>2
<1>3. CASE PlannedFile(cfgFile) /\ PreFuncSelects
  <2> DEFINE S == Schedule(cfgFile)
             d == [k \in 1 .. Len(hits) |-> hits[k].at]
  <2>1. S \in Seq(Cycle) /\ Len(S) \in Nat /\ Len(hits) \in Nat
    BY <1>3, ScheduleType, HitCycles DEF TypeOK
  <2>2. /\ Len(hits) < Len(S) /\ S[Len(hits) + 1] = curr_cycle
        /\ curr_cycle' \in {curr_cycle, curr_cycle + 1}
    BY <1>3, ScheduleSelected
  <2>3. /\ Len(hits') = Len(hits) + 1 /\ hits'[Len(hits')].at = curr_cycle
        /\ \A k \in 1 .. Len(hits) : hits'[k] = hits[k]
    BY <1>3, HitAt
  <2>4. S' = S /\ PlannedFile(cfgFile)'
    BY <1>1, <1>3 DEF PlannedFile, Schedule
  <2> HIDE DEF S
  <2>5. /\ SubSeq(S, Len(hits) + 1, Len(S)) # << >>
        /\ Head(SubSeq(S, Len(hits) + 1, Len(S))) = curr_cycle
        /\ Tail(SubSeq(S, Len(hits) + 1, Len(S))) = SubSeq(S, Len(hits') + 1, Len(S))
    <3>1. Len(hits') + 1 = Len(hits) + 2
      BY <2>1, <2>3
    <3>2. QED
      BY <2>1, <2>2, <3>1, PlanLeft
  <2>6. [k \in 1 .. Len(hits') |-> hits'[k].at] = Append(d, curr_cycle)
    <3>1. d \in Seq(Nat) /\ Len(d) = Len(hits) /\ \A k \in 1 .. Len(hits) : d[k] = hits[k].at
      BY HitCycles, <2>1
    <3>2. curr_cycle \in Nat
      BY DEF TypeOK, Cycle
    <3> HIDE DEF d
    <3>3. /\ Append(d, curr_cycle) \in Seq(Nat)
          /\ Len(Append(d, curr_cycle)) = Len(hits')
          /\ \A k \in 1 .. Len(hits) : Append(d, curr_cycle)[k] = hits[k].at
          /\ Append(d, curr_cycle)[Len(hits')] = curr_cycle
      BY <2>3, <3>1, <3>2, AppendProperties
    <3>4. \A k \in 1 .. Len(hits') : Append(d, curr_cycle)[k] = hits'[k].at
      BY <2>1, <2>3, <3>3
    <3>5. Append(d, curr_cycle) = [k \in 1 .. Len(hits') |-> Append(d, curr_cycle)[k]]
      <4>1. Append(d, curr_cycle) \in [1 .. Len(hits') -> Nat]
        BY <3>3, LenProperties
      <4>2. QED
        BY <4>1
    <3>6. QED
      BY <3>4, <3>5
  <2>7. Plan!Strike
    BY <1>3, <2>4, <2>5, <2>6 DEF Plan!Strike, Plan!Due, S, d
  <2>8. Plan!Inject \/ Plan!InjectAndPass
    BY <1>3, <2>2, <2>4, <2>7 DEF Plan!Inject, Plan!InjectAndPass
  <2>9. QED
    BY <2>8 DEF Plan!Next
<1>4. CASE PlannedFile(cfgFile) /\ PreFuncDeclines
  <2> DEFINE S == Schedule(cfgFile)
  <2>1. /\ CallReturns /\ phase = "call" /\ Counted(cur) /\ FALSE \in Selections
        /\ curr_cycle' = CycleAfterCall /\ UNCHANGED <<hits, cfgFile>>
    BY <1>4 DEF PreFuncDeclines
  <2>2. /\ cur \in Inst /\ call \in 1 .. RegNum[cur] /\ RegNum[cur] \in Nat
        /\ MyRegIndex = call - 1 /\ Len(hits) \in Nat /\ curr_cycle \in Nat
    BY <1>4, <2>1, CallGiven
  <2>3. CASE call < RegNum[cur]
    <3>1. curr_cycle' = curr_cycle
      BY <2>1, <2>2, <2>3 DEF CycleAfterCall
    <3>2. QED
      BY <2>1, <3>1, PlanStutter
  <2>4. CASE call = RegNum[cur]
    <3>1. curr_cycle' = curr_cycle + 1
      BY <2>1, <2>2, <2>4, CountedCycle DEF CycleAfterCall
    <3>2. Len(hits) < Len(S) => S[Len(hits) + 1] > curr_cycle
      BY <1>4, <2>1, <2>4, DeclinedNotDue
    <3>3. S \in Seq(Cycle) /\ Len(S) \in Nat /\ \A j \in 1 .. Len(S) : S[j] \in Cycle
      BY <1>4, ScheduleType DEF TypeOK
    <3>4. S' = S /\ PlannedFile(cfgFile)'
      BY <2>1, <1>4 DEF PlannedFile, Schedule
    <3> HIDE DEF S
    <3>5. SubSeq(S, Len(hits) + 1, Len(S)) # << >>
            => Head(SubSeq(S, Len(hits) + 1, Len(S))) # curr_cycle
      <4>1. SUFFICES ASSUME SubSeq(S, Len(hits) + 1, Len(S)) # << >>
                     PROVE  Head(SubSeq(S, Len(hits) + 1, Len(S))) # curr_cycle
        OBVIOUS
      <4>2. Len(hits) < Len(S)
        BY <2>2, <3>3, <4>1, PlanLeft
      <4>3. Head(SubSeq(S, Len(hits) + 1, Len(S))) = S[Len(hits) + 1]
        BY <2>2, <3>3, <4>2, PlanLeft
      <4>4. S[Len(hits) + 1] \in Nat
        BY <2>2, <3>3, <4>2 DEF Cycle
      <4>5. QED
        BY <2>2, <3>2, <4>2, <4>3, <4>4
    <3>6. ~Plan!Due
      BY <1>4, <3>5 DEF Plan!Due, S
    <3>7. Plan!Pass
      BY <1>4, <2>1, <3>1, <3>4, <3>6 DEF Plan!Pass, S
    <3>8. QED
      BY <3>7 DEF Plan!Next
  <2>5. QED
    BY <2>2, <2>3, <2>4
<1>5. CASE PlannedFile(cfgFile) /\ ~PreFuncSelects /\ ~PreFuncDeclines
  <2>1. UNCHANGED <<cfgFile, hits, curr_cycle>>
    BY <1>5 DEF Next, Runtime, PreFunc, InjectFunc, Ended, vars, libVars, fileVars, progVars,
           InitInjections, PreFuncSkips, BitTooLarge, PrintRecord, FlushRecord, Corrupt,
           InjectReturns, BeginInst, Kill, TurnOffInjections, TurnOnInjections,
           PostInjections
  <2>2. QED
    BY <2>1, PlanStutter
<1>6. QED
  BY <1>2, <1>3, <1>4, <1>5

(* The library carries a plan out: faults strike at the planned cycles and *)
(* nowhere else, in order, once each, and no planned cycle passes without  *)
(* its fault, if the file is one that PlannedFile admits.                  *)
THEOREM PlanCarriedOutCorrect ==
  ASSUME OneSidedProgram
  PROVE  Spec => PlanCarriedOut
<1>1. TypeOK /\ Init => Plan!Init
  BY PlanInit
<1>2. TypeOK /\ ConfigInv /\ [Next]_vars => ConfigInv'
  BY ConfigStep
<1>3. TypeOK /\ CountInv /\ [Next]_vars => CountInv'
  BY CountStep
<1>4. TypeOK /\ CountInv /\ HitInv /\ [Next]_vars => HitInv'
  BY HitStep
<1>5. TypeOK /\ ConfigInv /\ CountInv /\ HitInv /\ ScheduleInv /\ [Next]_vars => ScheduleInv'
  BY ScheduleStep
<1>6. TypeOK /\ ConfigInv /\ CountInv /\ HitInv /\ ScheduleInv /\ [Next]_vars
        => [Plan!Next]_(Plan!vars)
  BY PlanStep
<1>7. QED
  BY <1>1, <1>2, <1>3, <1>4, <1>5, <1>6, ConfigInit, CountInit, HitInit, ScheduleInit,
     TypeCorrect, PTL DEF Spec, PlanCarriedOut, Plan!Spec
=============================================================================
