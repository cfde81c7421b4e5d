----------------------- MODULE MCMLFaultInjectionLib ------------------------
(***************************************************************************)
(* The files injectfault.py writes for small options, read by the ML       *)
(* runtime, with a few that a user may write.                              *)
(***************************************************************************)
EXTENDS MLFaultInjectionLib, RuntimeConfig

CONSTANTS Total    \* total_cycle of the profile

Single == [fi_type |-> "bitflip", fi_cycle |-> Absent, fi_index |-> Absent,
           fi_reg_index |-> Absent, fi_bit |-> Absent, fi_num_bits |-> Absent,
           window_len |-> Absent, fi_max_multiple |-> 1, window_len_multiple |-> Absent,
           startindex |-> Absent, endindex |-> Absent]

Options ==
  {Single, [Single EXCEPT !.fi_type = "stuck_at_0"], [Single EXCEPT !.fi_max_multiple = Absent],
   [Single EXCEPT !.fi_bit = 0, !.fi_cycle = 1, !.fi_index = 1, !.fi_reg_index = 1],
   [Single EXCEPT !.fi_max_multiple = Absent, !.window_len = 1],
   [Single EXCEPT !.fi_max_multiple = Absent, !.fi_index = 1]}
  \cup {[Single EXCEPT !.fi_max_multiple = n, !.window_len_multiple = w] :
          n \in 2 .. 3, w \in {Absent, 1}}

Asked(opt) == Defaulted(opt, Total).fi_max_multiple

Written(opt) ==
  {[ok |-> TRUE, fi_type |-> f.fi_type, fi_cycle |-> f.fi_cycle,
    fi_next_cycles |-> f.fi_next_cycles, fi_max_multiple |-> Asked(opt),
    ml_layer_number |-> layer,
    unknown |-> {key \in {"fi_index", "fi_reg_index", "fi_bit", "fi_num_bits",
                          "fi_second_cycle"} : f[key] # Absent}] :
     f \in ConfigFiles(opt, Total), layer \in {NoOption, 1}}

(* Cycles out of order, and more of them than fi_max_multiple.             *)
ByHand ==
  {[ok |-> o, fi_type |-> "bitflip", fi_cycle |-> 3, fi_next_cycles |-> <<1, 4>>,
    fi_max_multiple |-> n, ml_layer_number |-> layer, unknown |-> {}] :
     o \in BOOLEAN, n \in 2 .. 3, layer \in {NoOption, 0}}

DriverFiles ==
  UNION {Written(opt) : opt \in {o \in Options : Accepted(o, Total) /\ ~Fails(o, Total)}}
    \cup ByHand
=============================================================================
