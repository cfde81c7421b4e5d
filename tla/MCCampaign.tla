----------------------------- MODULE MCCampaign -----------------------------
(***************************************************************************)
(* Small programs for Campaign.                                            *)
(***************************************************************************)
EXTENDS Campaign

Plain(dst, nsrc) ==
  [kind |-> "plain", dst |-> dst, nsrc |-> nsrc, blocks |-> {}, fixed |-> {},
   self |-> {}]

(* A load, an addition, a call of the C library's memcpy, and an           *)
(* instruction whose opcode Instruction.def does not list.                 *)
SourcesCode ==
  <<Plain(TRUE, 1), Plain(TRUE, 2), [Plain(TRUE, 4) EXCEPT !.kind = "memcall"],
    Plain(TRUE, 1)>>

(* The load, a phi, and an intrinsic such as llvm.expect, each with a      *)
(* destination.                                                            *)
IntrinsicCode ==
  <<Plain(TRUE, 1), [Plain(TRUE, 2) EXCEPT !.kind = "phi"],
    [Plain(TRUE, 3) EXCEPT !.kind = "memintrinsic"]>>

Sources     == <<"allsrcreg", 0>>
Destination == <<"dstreg", 0>>

MCInst     == {i \in DOMAIN Code : CallsAround(Code[i], Location) # << >>}
MCRegCalls == [i \in MCInst |-> CallsAround(Code[i], Location)]
MCRegNum   == [i \in MCInst |-> Len(RegList(Code[i], Location))]
MCOpcode   == DOMAIN Code
MCWeight   == [i \in DOMAIN Code |-> IF i = 4 THEN -1 ELSE 1]
MCCycles   == [i \in MCInst |-> MCWeight[i]]

OneBit  == {{}}
Missing == {[ok |-> FALSE, fi_type |-> "bitflip", fi_cycle |-> Unset, fi_index |-> Unset,
             fi_reg_index |-> Unset, fi_bit |-> Unset, fi_num_bits |-> Unset,
             fi_second_cycle |-> Unset, fi_next_cycles |-> << >>]}

(* No file at first; then those of the driver for a profile of this        *)
(* program.                                                                *)
Written == Missing \cup UNION {ConfigFiles(Option, total) : total \in 0 .. MaxCalls}

RandomFault ==
  [fi_type |-> "bitflip", fi_cycle |-> Absent, fi_index |-> Absent,
   fi_reg_index |-> Absent, fi_bit |-> Absent, fi_num_bits |-> Absent,
   window_len |-> 2, fi_max_multiple |-> Absent, window_len_multiple |-> Absent,
   startindex |-> Absent, endindex |-> Absent]
=============================================================================
