------------------------------- MODULE Passes -------------------------------
(***************************************************************************)
(* The compiler passes over any input: one state for every input of one of *)
(* them, and what their outcome promises to the runtime and to the user.   *)
(***************************************************************************)
EXTENDS InjectionPasses, InstSelection, InstructionDuplication

CONSTANTS
  RegisterInputs,     \* instructions with register locations
  OpcodeOf,           \* the opcode of every instruction of the module
  OpcodeNames,        \* the opcodes of Instruction.def
  SelectionInputs,    \* uses between the instructions, with selectors
  OperatorInputs,     \* functions main_graph, with layers
  DuplicationInputs   \* functions main_graph, with options of the duplication

(* An instruction has finitely many operands, which are numbered from 0;   *)
(* only a phi has itself among them.                                       *)
ASSUME RegisterAssumption ==
  \A in \in RegisterInputs :
    /\ in.inst.kind \in Kind /\ in.inst.dst \in BOOLEAN /\ in.inst.nsrc \in Nat
    /\ in.inst.self # {} => in.inst.kind = "phi"
    /\ \/ in.regloc \in {<<"dstreg", 0>>, <<"allsrcreg", 0>>, <<"allreg", 0>>}
       \/ in.regloc[1] = "srcreg" /\ in.regloc[2] \in Nat

(* A module has finitely many instructions, whose operands and selectors   *)
(* are instructions of the module.                                         *)
ASSUME SelectionAssumption ==
  /\ IsFiniteSet(DOMAIN OpcodeOf)
  /\ \A in \in SelectionInputs :
       /\ in.src \in [DOMAIN OpcodeOf -> SUBSET DOMAIN OpcodeOf]
       /\ in.other \in SUBSET SUBSET DOMAIN OpcodeOf
       /\ in.backward \in BOOLEAN /\ in.forward \in BOOLEAN

(* A function is a sequence of points and instructions without a loop: an  *)
(* instruction uses those before it.                                       *)
StraightLine(main) ==
  /\ Len(main) \in Nat /\ DOMAIN main = 1 .. Len(main)
  /\ \A k \in 1 .. Len(main) :
       \/ main[k] = Point(main[k].op, main[k].flag)
       \/ main[k] = Emitted(main[k].op, main[k].flag)
       \/ /\ main[k] = Instr(main[k].kind, main[k].uses)
          /\ main[k].kind \notin {"point", "emitted"} /\ main[k].uses \in SUBSET (1 .. k - 1)

ASSUME OperatorAssumption ==
  \A in \in OperatorInputs :
    /\ StraightLine(in.main)
    /\ \A l \in in.layers : l = <<l[1], l[2]>>

ASSUME DuplicationAssumption ==
  \A in \in DuplicationInputs :
    StraightLine(in.main) /\ in.opt.all \in BOOLEAN /\ in.opt.chain \in BOOLEAN

VARIABLES
  pass,    \* registers, selection, operators or duplication
  input

-----------------------------------------------------------------------------
PassInit ==
  \/ pass = "registers" /\ input \in RegisterInputs
  \/ pass = "selection" /\ input \in SelectionInputs
  \/ pass = "operators" /\ input \in OperatorInputs
  \/ pass = "duplication" /\ input \in DuplicationInputs
PassNext == UNCHANGED <<pass, input>>
PassSpec == PassInit /\ [][PassNext]_<<pass, input>>

Calls == CallsAround(input.inst, input.regloc)

(* The calls around an instruction name every register of its list, once   *)
(* each: preFunc resets its flag once, and advances the cycle once.        *)
EachRegisterOnce ==
  pass = "registers" =>
    /\ Len(Calls) \in {0, Len(RegList(input.inst, input.regloc))}
    /\ {Calls[k] : k \in 1 .. Len(Calls)} = 0 .. Len(Calls) - 1

(* Under every location but allreg the calls run in the order of their     *)
(* register numbers: what the proofs about the runtime assume              *)
(* (OneSidedProgram in FaultInjectionLib).                                 *)
OneSidedUnlessAll ==
  pass = "registers" /\ input.regloc # <<"allreg", 0>> =>
    \A k \in 1 .. Len(Calls) : Calls[k] = k - 1

(* The two executables, if both are built, agree on what counts: an        *)
(* instruction that is not an intrinsic is profiled if and only if it is   *)
(* instrumented.                                                           *)
PassesAgree ==
  pass = "registers" /\ ~Intrinsic(input.inst) /\ ~EndsCompiler(input.inst, input.regloc) =>
    Profiled(input.inst, input.regloc) = (Calls # << >>)

-----------------------------------------------------------------------------
(* The instructions an instruction leads to through any chain of next: the *)
(* least set that has the next ones and their next ones.                   *)
Closed(next, C) == \A i \in C : next[i] \subseteq C

Reached(next, j) ==
  {i \in DOMAIN next : \A C \in SUBSET DOMAIN next :
     next[j] \subseteq C /\ Closed(next, C) => i \in C}

(* An instruction is a target if every selector names it, or names one its *)
(* value comes from or goes to as the trace options say, through any chain *)
(* of uses; the recursion ends in spite of loops, and misses nothing that  *)
(* another selected instruction has already led to.                        *)
TracedSelection ==
  pass = "selection" /\ ~BadList(input.include, input.exclude, OpcodeNames) =>
    LET opcodes == OpcodeList(input.include, input.exclude, OpcodeNames)
        inits == {InitFIInsts(OpcodeOf, opcodes)} \cup input.other
    IN SelectedInsts(inits, input.src, input.backward, input.forward) =
         {i \in DOMAIN OpcodeOf : \A init \in inits : \E j \in init :
            \/ i = j
            \/ input.backward /\ i \in Reached(input.src, j)
            \/ input.forward /\ j \in Reached(input.src, i)}

(* The operator an item lies in, if any.                                   *)
Starts(main, k) == {j \in 1 .. k : IsPoint(main, j, Before) /\
                      \A e \in j .. k : ~IsPoint(main, e, After)}

(* The targets are the arithmetic and the comparisons in the occurrences   *)
(* of the operators that the layers name, counted from 1, and no others.   *)
TargetsInLayers ==
  pass = "operators" =>
    LET main == input.main
        Starting(op) == {j \in DOMAIN main : main[j] = Point(op, Before)}
        Nth(op, n) == {j \in Starting(op) : n \in {0, Cardinality(Starting(op) \cap 1 .. j)}}
        Asked == UNION {Nth(l[1], l[2]) : l \in input.layers}
        Every == {j \in DOMAIN main : IsPoint(main, j, Before)}
    IN TensorTargets(main, input.layers) =
         {k \in DOMAIN main : main[k].kind \in {"arith", "fcmp"} /\
            Starts(main, k) \cap (IF <<"all", 0>> \in input.layers THEN Every ELSE Asked) # {}}

(* Every operator that onnx-mlir has marked, in its own way or in the one  *)
(* the passes read, is one: its instructions are targets if the layers are *)
(* all ("The onnx-mlir compiler annotates the IR with @OMInstrumentPoint   *)
(* (operator_id, flag) calls that delimit each tensor operator").          *)
Opens(main, k)  == main[k].kind \in {"point", "emitted"} /\ main[k].flag % 2 = 1
Closes(main, k) == main[k].kind \in {"point", "emitted"} /\ (main[k].flag \div 2) % 2 = 1

OperatorsRecognised ==
  pass = "operators" /\ <<"all", 0>> \in input.layers =>
    LET main == input.main
    IN \A k \in DOMAIN main :
         /\ main[k].kind \in {"arith", "fcmp"}
         /\ \E j \in 1 .. k : Opens(main, j) /\ \A e \in j .. k : ~Closes(main, e)
         => k \in TensorTargets(main, input.layers)

(* Bits raised in one copy of an instruction reach an item only in two     *)
(* ways.  The instruction is inside a chain, which has one comparison: then*)
(* those of a duplicate only behind it, and those of an original not       *)
(* before it.  Or a call uses the original: no comparison protects calls.  *)
RaisedBitsMasked ==
  pass = "duplication" =>
    \A copy \in {"orig", "dup"}, at \in Duplicated(input.main, input.opt),
       k \in DOMAIN input.main :
      Visible(input.main, input.opt, <<copy, at>>, k) # "clean" =>
        \/ /\ input.opt.chain /\ at + 1 \in Duplicated(input.main, input.opt)
           /\ IF copy = "orig" THEN k >= at
              ELSE \E last \in at + 1 .. k :
                     /\ SameChain(input.main, input.opt, at, last)
                     /\ last + 1 \notin Duplicated(input.main, input.opt)
        \/ /\ copy = "orig"
           /\ \E c \in at + 1 .. k : input.main[c].kind = "call" /\ at \in input.main[c].uses

(* The option operatorName: "Name of operator(s) to duplicate".            *)
DuplicatesInOperators ==
  pass = "duplication" =>
    \A k \in Duplicated(input.main, input.opt) : Starts(input.main, k) # {}
=============================================================================
