-------------------------- MODULE InjectionPasses ---------------------------
(***************************************************************************)
(* What the register selector, the fault injection pass and the profiling  *)
(* pass make of one static instruction: its target registers, the calls    *)
(* put around it in the fault injection executable, and the call put       *)
(* beside it in the profiling executable.                                  *)
(*                                                                         *)
(* An instruction is a record: kind tells the cases the passes treat       *)
(* differently, dst whether it has a destination register an injector may  *)
(* replace, nsrc how many operands it has, blocks the operands that are    *)
(* basic blocks, fixed those that must stay constants (the last index of a *)
(* getelementptr when it is one, the cases of a switch), self those that   *)
(* are the instruction itself (a phi of a loop that keeps its value).      *)
(***************************************************************************)
EXTENDS Integers, Sequences

DST_REG_POS == -1

(* memcall: a call of memcpy, memset, memmove or expect that is not an     *)
(* intrinsic; memintrinsic: one that is; intrinsic: any other intrinsic.   *)
Kind == {"plain", "gep", "switch", "phi", "memcall", "memintrinsic", "intrinsic",
         "landingpad"}

Intrinsic(inst) == inst.kind \in {"intrinsic", "memintrinsic"}
MemCall(inst)   == inst.kind \in {"memcall", "memintrinsic"}

SrcReg(n) == <<"srcreg", n>>
RegLoc(maxsrc) == {<<"dstreg", 0>>, <<"allsrcreg", 0>>, <<"allreg", 0>>}
                    \cup {SrcReg(n) : n \in 1 .. maxsrc}

(* The selector wants the destination, also if it is the named operand.    *)
SourcesToo(inst, regloc) == regloc[1] # "srcreg"    \* mutant: allsrcreg means allreg

DstTarget(inst, regloc) ==
  \/ regloc[1] \in {"dstreg", "allreg"}
  \/ regloc[1] = "srcreg" /\ regloc[2] - 1 \in inst.self

(* The selector wants the operand at position pos: allsrcreg spares the    *)
(* instruction itself and the constants of getelementptr and switch,       *)
(* srcreg those of getelementptr.                                          *)
SrcTarget(inst, regloc, pos) ==
  CASE regloc[1] = "dstreg"    -> FALSE
    [] regloc[1] = "allreg"    -> TRUE
    [] regloc[1] = "allsrcreg" ->
         pos \notin inst.self /\ ~(inst.kind \in {"gep", "switch"} /\ pos \in inst.fixed)
    [] regloc[1] = "srcreg"    ->
         pos = regloc[2] - 1 /\ ~(inst.kind = "gep" /\ pos \in inst.fixed)

(* The operands of a phi cannot be replaced, nor can a basic block; the    *)
(* instruction itself is let through as if it were the destination.        *)
SrcInjectable(inst, pos) ==
  pos \in inst.self \/ (inst.kind # "phi" /\ pos \notin inst.blocks)

(* The elements of a sequence that are in a set: SelectSeq, as a recursive *)
(* function of how much has been read.                                     *)
KeptBy(s, set) ==
  LET kept[k \in 0 .. Len(s)] ==
        IF k = 0 THEN << >>
        ELSE IF s[k] \in set THEN Append(kept[k - 1], s[k]) ELSE kept[k - 1]
  IN kept

Kept(s, set) == KeptBy(s, set)[Len(s)]

(* fi_reg_pos_list: the destination, if it is one, before the operands in  *)
(* their order.                                                            *)
SrcList(inst, regloc) ==
  Kept([k \in 1 .. inst.nsrc |-> k - 1],
       {pos \in 0 .. inst.nsrc - 1 : SrcTarget(inst, regloc, pos) /\ SrcInjectable(inst, pos)})

RegList(inst, regloc) ==
  (IF DstTarget(inst, regloc) /\ inst.dst THEN <<DST_REG_POS>> ELSE << >>)
    \o SrcList(inst, regloc)

(* Both passes leave alone a landingpad, and a call whose operands before  *)
(* the destination in the list include one named memcpy and the like; the  *)
(* name is the callee's, the last operand.                                 *)
Skipped(inst, regs) ==
  \/ inst.kind = "landingpad"
  \/ MemCall(inst) /\ regs[1] # DST_REG_POS
       /\ \E k \in 1 .. Len(regs) : regs[k] = inst.nsrc - 1

Selected(inst, regloc) == RegList(inst, regloc) # << >>

(* An operand of a phi that is in the list after all: the fault injection  *)
(* pass has replaced it by the call for the destination, then finds no     *)
(* place for a call before a phi, and exits with 2.  The profiling pass    *)
(* does not mind.                                                          *)
EndsCompiler(inst, regloc) == inst.kind = "phi" /\ SrcList(inst, regloc) # << >>

(* The fault injection pass: the my_reg_index of the calls in the order    *)
(* they run, those for operands before the instruction, the one for the    *)
(* destination, first in the list, after it.  Intrinsics get none.         *)
PosNotIndex(inst, regloc) ==       \* mutant: the position is passed, not the index
  LET regs == RegList(inst, regloc)
  IN IF \/ ~Selected(inst, regloc) \/ EndsCompiler(inst, regloc)
        \/ Skipped(inst, regs) \/ Intrinsic(inst) THEN << >>
     ELSE IF regs[1] = DST_REG_POS THEN Tail(regs) \o <<0>> ELSE regs

CallsAround(inst, regloc) ==
  LET regs == RegList(inst, regloc) n == Len(regs)
  IN IF \/ ~Selected(inst, regloc) \/ EndsCompiler(inst, regloc)
        \/ Skipped(inst, regs) \/ Intrinsic(inst) THEN << >>
     ELSE IF regs[1] = DST_REG_POS THEN [k \in 1 .. n - 1 |-> k] \o <<0>>
     ELSE [k \in 1 .. n |-> k - 1]

(* The profiling pass: whether it puts its one doProfiling call beside the *)
(* instruction.                                                            *)
ProfilesAll(inst, regloc) == Selected(inst, regloc)    \* mutant: nothing is skipped

Profiled(inst, regloc) ==
  Selected(inst, regloc) /\ ~Skipped(inst, RegList(inst, regloc))
=============================================================================
