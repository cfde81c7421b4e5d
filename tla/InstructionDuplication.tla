----------------------- MODULE InstructionDuplication -----------------------
(***************************************************************************)
(* Selective instruction duplication, InstructionDuplication.cpp: which    *)
(* arithmetic instructions of main_graph get a duplicate, and what a fault *)
(* in the result becomes with compareFloatValues (SIDHelperFunctions.cpp)  *)
(* behind it.                                                              *)
(*                                                                         *)
(* Options are a record: operators (or {"all"}), all (every llfi_index) or *)
(* indexes, chain (enableChainDuplication).  The index of an instruction   *)
(* is its position.  The instrumentation that follows numbers all          *)
(* instructions anew, so a fault may strike either copy.                   *)
(***************************************************************************)
EXTENDS TensorOperators

Named(main, k, opt) == "all" \in opt.operators \/ main[k].op \in opt.operators

(* isCustomTensorOperator of this pass after the scan of k items: here the *)
(* flag 2 sets it and the flag 1 resets it.                                *)
InOperator(main, opt) ==
  LET on[k \in 0 .. Len(main)] ==
        IF k = 0 THEN FALSE
        ELSE IF IsPoint(main, k, 2) /\ Named(main, k, opt) THEN TRUE
        ELSE IF IsPoint(main, k, 1) /\ Named(main, k, opt) THEN FALSE
        ELSE on[k - 1]
  IN on

(* arithInst: arithmetic with an index that was asked for.                 *)
Duplicated(main, opt) ==
  {k \in DOMAIN main : /\ main[k].kind = "arith"
                       /\ InOperator(main, opt)[k]
                       /\ opt.all \/ k \in opt.indexes}

(* The comparison is put behind the last instruction of a chain of         *)
(* neighbours, or behind every duplicated instruction.                     *)
ComparedFirst(main, opt) ==        \* mutant: behind the first one of the chain
  {k \in Duplicated(main, opt) : ~opt.chain \/ k - 1 \notin Duplicated(main, opt)}

ComparedAt(main, opt) ==
  {k \in Duplicated(main, opt) : ~opt.chain \/ k + 1 \notin Duplicated(main, opt)}

SameChain(main, opt, j, k) == opt.chain /\ j .. k \subseteq Duplicated(main, opt)

-----------------------------------------------------------------------------
(* A value is as it should be, has bits raised that should not be set, or  *)
(* is wrong in another way.  compareFloatValues takes the bits that both   *)
(* values have; an operation on a bad value may give anything.             *)
compareFloatValues(a, b) ==
  IF {a, b} \in {{"clean"}, {"clean", "raised"}} THEN "clean" ELSE "wrong"

Operation(values) == IF values \subseteq {"clean"} THEN "clean" ELSE "wrong"

Struck(value) == IF value = "clean" THEN "raised" ELSE "wrong"

(* The values of an item and of its duplicate, with a fault that raises    *)
(* bits of one copy at one position: clones use the clones of their chain, *)
(* a call the original, and any other user the comparison if there is one. *)
ComparisonsRead(main, opt, k) ==
  IF main[k].kind = "call" THEN {} ELSE ComparedAt(main, opt)

ValuesOf(main, opt, fault) ==
  LET value[k \in DOMAIN main] ==
        LET Read(j) == IF j \in ComparisonsRead(main, opt, k)
                         THEN compareFloatValues(value[j].orig, value[j].dup)
                         ELSE value[j].orig
            Remapped(j) == IF SameChain(main, opt, j, k) THEN value[j].dup ELSE Read(j)
            Hit(copy, v) == IF fault = <<copy, k>> THEN Struck(v) ELSE v
        IN [orig |-> Hit("orig", Operation({Read(j) : j \in main[k].uses})),
            dup  |-> Hit("dup", Operation({Remapped(j) : j \in main[k].uses}))]
  IN value

(* What users other than calls read of an item.                            *)
Visible(main, opt, fault, k) ==
  LET v == ValuesOf(main, opt, fault)[k]
  IN IF k \in ComparedAt(main, opt) THEN compareFloatValues(v.orig, v.dup) ELSE v.orig
=============================================================================
