-------------------------- MODULE TensorOperators ---------------------------
(***************************************************************************)
(* The function main_graph of a compiled model, as the passes scan it: a   *)
(* sequence of items in which calls of OMInstrumentPoint mark the tensor   *)
(* operators; and the selector that confines faults to some of them,       *)
(* CustomTensorOperatorInstSelector.cpp.                                   *)
(*                                                                         *)
(* An item is a point with its operator and flag, an arithmetic            *)
(* instruction (fadd, fsub, fmul, fdiv) with the positions of the items it *)
(* uses, a comparison (fcmp), or anything else.  The passes read a point   *)
(* whose two arguments are constants; onnx-mlir emits a tag between two    *)
(* pointers to names, whose first argument is none, and which they skip.   *)
(***************************************************************************)
EXTENDS Integers, Sequences, FiniteSets

Point(op, flag)    == [kind |-> "point", op |-> op, flag |-> flag, uses |-> {}]
Instr(kind, uses) == [kind |-> kind, op |-> "none", flag |-> 0, uses |-> uses]

Before == 1
After  == 2

(* What onnx-mlir emits: bit 0 of the tag before an operator, bit 1 after  *)
(* it, and bit 4 at the first point (the lengths of the names, which lie   *)
(* above, are left out).                                                   *)
Tag(side, first) == IF first THEN side + 16 ELSE side
Emitted(op, tag) == [kind |-> "emitted", op |-> op, flag |-> tag, uses |-> {}]

IsPoint(main, k, flag) == main[k].kind = "point" /\ main[k].flag = flag

CountsEnds(main, k) ==             \* mutant: the count goes up at the ends, too
  Cardinality({j \in 1 .. k : main[j].op = main[k].op})

(* shouldInjectFault: layers has pairs <<name, number>>, or <<"all", 0>>;  *)
(* an operator's count goes up at each of its starts, and number 0 stands  *)
(* for all occurrences.                                                    *)
Occurrence(main, k) ==
  Cardinality({j \in 1 .. k : IsPoint(main, j, Before) /\ main[j].op = main[k].op})

shouldInjectFault(main, k, layers) ==
  \/ <<"all", 0>> \in layers
  \/ \E n \in {0, Occurrence(main, k)} : <<main[k].op, n>> \in layers

(* isCustomTensorOperator after the scan of k items: set by a start the    *)
(* layers name, reset by any end.                                          *)
isCustomTensorOperator(main, layers) ==
  LET on[k \in 0 .. Len(main)] ==
        IF k = 0 THEN FALSE
        ELSE IF IsPoint(main, k, Before) /\ shouldInjectFault(main, k, layers) THEN TRUE
        ELSE IF IsPoint(main, k, After) THEN FALSE
        ELSE on[k - 1]
  IN on

(* isInstFITarget                                                          *)
TensorTargets(main, layers) ==
  {k \in DOMAIN main : main[k].kind \in {"arith", "fcmp"}
                         /\ isCustomTensorOperator(main, layers)[k]}
=============================================================================
