------------------------- MODULE MCInjectionPasses --------------------------
(***************************************************************************)
(* Small inputs for the passes.                                            *)
(***************************************************************************)
EXTENDS Passes, SequencesExt

-----------------------------------------------------------------------------
(* Every instruction of up to four operands the passes tell apart, with    *)
(* every register location.                                                *)
(* Operand positions are below nsrc.  The operands of a switch are its     *)
(* condition, its default block, and a value and a block for every case;   *)
(* a branch has blocks as well, and neither has a destination.  A constant *)
(* that ends a getelementptr is fixed; a call's last operand is its callee.*)
(* A phi may have itself for an operand, besides a value.                  *)
Blocks(in) ==
  CASE in.kind = "switch"            -> in.nsrc \in {2, 4} /\
         in.blocks = {1, 3} \cap 0 .. in.nsrc - 1
    [] in.kind = "plain" /\ ~in.dst -> in.blocks \in {{}, {0}, {1, 2}}
    [] OTHER                         -> in.blocks = {}

Fixed(in) ==
  CASE in.kind = "switch" -> in.fixed \ {0} = {2} \cap 0 .. in.nsrc - 1
    [] in.kind = "gep"    -> in.fixed # {} => in.nsrc - 1 \in in.fixed
    [] OTHER              -> in.fixed = {}

WellFormed(in) ==
  /\ in.blocks \cup in.fixed \cup in.self \subseteq 0 .. in.nsrc - 1
  /\ in.self # {} => in.kind = "phi" /\ Cardinality(in.self) < in.nsrc
  /\ Blocks(in) /\ Fixed(in)
  /\ in.kind = "switch" => ~in.dst
  /\ in.kind \in {"gep", "phi", "landingpad"} => in.dst
  /\ in.kind \in {"memcall", "memintrinsic", "intrinsic", "gep", "phi"} => in.nsrc > 0

Instructions ==
  {in \in [kind : Kind, dst : BOOLEAN, nsrc : 0 .. 4, blocks : SUBSET (0 .. 3),
           fixed : SUBSET (0 .. 3), self : SUBSET (0 .. 2)] : WellFormed(in)}

MCRegisterInputs == [inst : Instructions, regloc : RegLoc(3)]

(* Three instructions that use each other in any way, two of which may     *)
(* have the same opcode, and one or two selectors: by opcode, and any set. *)
MCOpcodeOf == <<"add", "load", "add">>
MCOpcodeNames == {"add", "load", "br"}

MCSelectionInputs ==
  [src : [1 .. 3 -> SUBSET (1 .. 3)],
   include : {<<"add">>, <<"load">>, <<"all", "mul">>, <<"mul", "all">>},
   exclude : {{}, {"add"}}, other : {{}, {{1}}, {{2, 3}}},
   backward : BOOLEAN, forward : BOOLEAN]

(* Up to three operators in a row, an instruction in and one behind each,  *)
(* with the points the passes read or those onnx-mlir emits.               *)
Operator == {"conv", "relu"}
Marked(op) == <<Point(op, Before), Instr("arith", {}), Instr("fcmp", {}), Point(op, After),
                Instr("arith", {})>>
MarkedByTag(op, first) ==
  <<Emitted(op, Tag(Before, first)), Instr("arith", {}), Emitted(op, Tag(After, FALSE)),
    Instr("fcmp", {})>>
Mains ==
  UNION {{FlattenSeq([k \in DOMAIN ops |-> Marked(ops[k])]),
          FlattenSeq([k \in DOMAIN ops |-> MarkedByTag(ops[k], k = 1)])} :
           ops \in SeqOf(Operator, 3)}

MCOperatorInputs ==
  [main : Mains, layers : (SUBSET (Operator \X (0 .. 2))) \cup {{<<"all", 0>>}}]

(* Three arithmetic instructions behind an operator, with or without a     *)
(* call between them, each of which may use those before it, a call that   *)
(* may use any of them, and a comparison that uses them and the call.      *)
Gap(there) == IF there THEN <<Instr("call", {})>> ELSE << >>
At(gaps, n) == 2 + n + Cardinality({g \in 1 .. n - 1 : gaps[g]})

Chain(gaps, uses2, uses3, passed) ==
  LET at(set) == {At(gaps, n) : n \in set}
  IN <<Point("conv", 1), Point("conv", 2), Instr("arith", {})>> \o Gap(gaps[1])
       \o <<Instr("arith", at(uses2))>> \o Gap(gaps[2])
       \o <<Instr("arith", at(uses3)), Instr("call", at(passed)),
            Instr("fcmp", at(1 .. 3) \cup {At(gaps, 3) + 1})>>

MCDuplicationInputs ==
  {[main |-> Chain(gaps, u, v, passed), opt |-> [operators |-> ops, all |-> all,
                                         indexes |-> ixs, chain |-> chain]] :
     gaps \in [1 .. 2 -> BOOLEAN], u \in SUBSET {1}, v \in SUBSET {1, 2},
     passed \in {{}, {1}, {2, 3}},
     ops \in {{"all"}, {"conv"}, {"relu"}}, all \in BOOLEAN, ixs \in {{3, 4}, {3, 5, 6}},
     chain \in BOOLEAN}
=============================================================================
