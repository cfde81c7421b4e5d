--------------------------- MODULE MCInjectFault ----------------------------
(***************************************************************************)
(* Small input.yaml files for InjectFault.                                 *)
(***************************************************************************)
EXTENDS InjectFault

Plain == [numOfRuns |-> 1, fi_type |-> "bitflip", fi_cycle |-> Absent, fi_index |-> Absent,
          fi_reg_index |-> Absent, fi_bit |-> Absent, fi_num_bits |-> Absent,
          window_len |-> Absent, fi_max_multiple |-> Absent,
          window_len_multiple |-> Absent, startindex |-> Absent, endindex |-> Absent]

Pinned == [Plain EXCEPT !.fi_cycle = 1, !.fi_index = 1, !.fi_reg_index = 1, !.fi_bit = 0]

(* Several locations, then a pinned fault and a second one, twice: the     *)
(* script asks whether to go on with that.                                 *)
TwoOptions ==
  <<[Plain EXCEPT !.fi_num_bits = 2, !.fi_max_multiple = 3, !.startindex = 1,
                   !.endindex = 2],
    [Pinned EXCEPT !.window_len = 1, !.numOfRuns = 2]>>

(* A run, then an option that cannot be written: next cycles in index mode.*)
RunAndFailure ==
  <<[Plain EXCEPT !.fi_cycle = 1], [Plain EXCEPT !.fi_index = 3, !.fi_max_multiple = 2]>>
=============================================================================
