------------------------ MODULE MCFaultInjectionLib -------------------------
(***************************************************************************)
(* Small programs and configuration files for FaultInjectionLib.           *)
(***************************************************************************)
EXTENDS FaultInjectionLib

(* Three instructions with their sources as targets (regloc: allsrcreg):   *)
(* one register, three registers, and an opcode Instruction.def lacks.     *)
MCInst == 1 .. 3
SrcCycles == <<1, 1, -1>>
SrcRegNum == <<1, 3, 2>>
SrcCalls  == << <<0>>, <<0, 1, 2>>, <<0, 1>> >>

(* All registers as targets (regloc: allreg): register 0, the destination, *)
(* is called after the instruction, its sources before it.                 *)
AllRegNum == <<1, 2, 2>>
AllCalls  == << <<0>>, <<1, 0>>, <<1, 0>> >>

Base == [ok |-> TRUE, fi_type |-> "bitflip", fi_cycle |-> Unset, fi_index |-> Unset,
         fi_reg_index |-> Unset, fi_bit |-> Unset, fi_num_bits |-> Unset,
         fi_second_cycle |-> Unset, fi_next_cycles |-> << >>]

Broken == [Base EXCEPT !.ok = FALSE, !.fi_cycle = 1]

(* Plans of one to three faults, at adjacent and at distant cycles. *)
PlanFiles ==
  {[Base EXCEPT !.fi_cycle = c, !.fi_reg_index = r] : c \in {1, 3, 4, 9}, r \in {Unset, 0}}
  \cup {[Base EXCEPT !.fi_cycle = c, !.fi_second_cycle = d, !.fi_bit = 1] :
          c \in {1, 2}, d \in {3, 4}}
  \cup {[Base EXCEPT !.fi_cycle = 1, !.fi_next_cycles = s] :
          s \in {<<2>>, <<2, 3>>, <<2, 4>>, <<3, 4>>, <<4, 9>>}}
  \cup {[Base EXCEPT !.fi_cycle = 2, !.fi_type = Unregistered],
         [Base EXCEPT !.fi_cycle = 3, !.fi_bit = 2], Broken}

(* Several bits, with and without further locations. *)
BitFiles ==
  {[Base EXCEPT !.fi_cycle = 1, !.fi_num_bits = n, !.fi_next_cycles = s, !.fi_type = t] :
     n \in 0 .. 3, s \in {<< >>, <<2, 3>>}, t \in {"bitflip", "stuck_at_0", "stuck_at_1"}}
  \cup {[Base EXCEPT !.fi_index = 2, !.fi_num_bits = n] : n \in 1 .. 2}

IndexFiles ==
  {[Base EXCEPT !.fi_index = i, !.fi_num_bits = n, !.fi_reg_index = r] :
     i \in 1 .. 3, n \in {1, 2}, r \in {Unset, 0}}

AllFiles == PlanFiles \cup BitFiles \cup IndexFiles

BitsAndPlanFile ==
  {[Base EXCEPT !.fi_cycle = 1, !.fi_num_bits = 2, !.fi_next_cycles = <<2, 3>>]}

OneValue == {{0}}
=============================================================================
