--------------------------- MODULE RuntimeConfig ----------------------------
(***************************************************************************)
(* How bin/injectfault.py turns one runOption of input.yaml into the files *)
(* llfi.config.runtime.txt it may write for a run, given the total_cycle   *)
(* of the profile.  An option is a record of the keys it gives, and so are *)
(* the variables that main assigns from it.  A file is a record of the     *)
(* same form FaultInjectionLib reads.                                      *)
(***************************************************************************)
EXTENDS Integers, Sequences, FiniteSets, SequencesExt

Absent == -1

MinOf(a, b) == IF a < b THEN a ELSE b

Keys == {"fi_type", "fi_cycle", "fi_index", "fi_reg_index", "fi_bit", "fi_num_bits",
         "window_len", "fi_max_multiple", "window_len_multiple", "startindex", "endindex"}

(* A key that is not there, or a variable that does not exist. *)
NoValue(key) == IF key = "fi_type" THEN "absent" ELSE Absent
Given(locals, key) == locals[key] # NoValue(key)

(* Keys that exclude or require each other: the script exits.  One of the  *)
(* checks looks at main's variables instead of the keys.                   *)
Conflict(opt, locals) ==
  \/ Given(opt, "fi_max_multiple") /\ Given(locals, "window_len")
  \/ Given(opt, "window_len_multiple") /\
       \E key \in {"window_len", "startindex", "endindex"} : Given(opt, key)
  \/ (Given(opt, "startindex") \/ Given(opt, "endindex")) /\ Given(opt, "window_len")
  \/ Given(opt, "startindex") # Given(opt, "endindex")

(* Values outside the range checkValues asserts; numOfRuns, the types of   *)
(* the values and the bounds that only exclude nonsense are left out.      *)
OutOfRange(opt, total) ==
  \/ Given(opt, "fi_num_bits") /\ opt.fi_num_bits < 1
  \/ Given(opt, "fi_cycle") /\ ~(opt.fi_cycle \in 1 .. total)
  \/ Given(opt, "fi_max_multiple") /\ ~(opt.fi_max_multiple \in 1 .. 100)
  \/ \E key \in {"window_len_multiple", "startindex", "endindex"} :
       Given(opt, key) /\ opt[key] < 1

(* fi_bit is checked together with the variables of the other three pins,  *)
(* which must exist then.                                                  *)
PinMissing(opt, locals) ==
  Given(opt, "fi_bit") /\
    \E key \in {"fi_cycle", "fi_index", "fi_reg_index"} : ~Given(locals, key)

(* The checks the script makes of an option, locals being what it has read.*)
Refused(opt, locals, total) ==
  Conflict(opt, locals) \/ OutOfRange(opt, total) \/ PinMissing(opt, locals)

(* The defaults: 100 cycles for a window without a number, and the whole   *)
(* profile as the window of a number without one.                          *)
Defaulted(locals, total) ==
  LET windows == {"window_len_multiple", "startindex", "endindex"}
      most == IF ~Given(locals, "fi_max_multiple") /\ (\E key \in windows : Given(locals, key))
                THEN 100 ELSE locals.fi_max_multiple
      whole == /\ most # Absent
               /\ ~Given(locals, "window_len_multiple") /\ ~Given(locals, "startindex")
  IN [locals EXCEPT !.fi_max_multiple = most,
                  !.window_len_multiple = IF whole THEN total - 1 ELSE @]

-----------------------------------------------------------------------------
(* Writing the file of a run from the variables.                           *)

(* How far each next cycle may lie behind the one before it.               *)
Window(locals) ==
  IF Given(locals, "window_len_multiple") THEN 1 .. locals.window_len_multiple
  ELSE locals.startindex .. locals.endindex

(* The script fails while it writes: no fi_cycle to start from, or a range *)
(* that it or randint refuses.                                             *)
CannotWrite(locals) ==
  LET noCycle == ~Given(locals, "fi_cycle") /\ Given(locals, "fi_index")
      multiple == Given(locals, "fi_max_multiple")
  IN \/ noCycle /\ (Given(locals, "window_len") \/ multiple)
     \/ Given(locals, "window_len") /\ locals.window_len < 1
     \/ multiple /\ Window(locals) = {}
          /\ (locals.fi_max_multiple > 1 \/ ~Given(locals, "window_len_multiple"))

SecondCycles(locals, first, total) ==
  IF Given(locals, "window_len")
    THEN {MinOf(first + d, total) : d \in 1 .. locals.window_len}
    ELSE {Absent}

FromTheFirst(locals, first, total) ==   \* mutant: every window starts at fi_cycle
  IF ~Given(locals, "fi_max_multiple") THEN {<< >>}
  ELSE [1 .. locals.fi_max_multiple - 1 -> {MinOf(first + d, total) : d \in Window(locals)}]

(* Each next cycle is in the window after the one before it, but not past  *)
(* the end of the profile, and the end of the profile ends the list.       *)
NextCycles(locals, first, total) ==
  LET n    == locals.fi_max_multiple - 1
      prev(s, k) == IF k = 1 THEN first ELSE s[k - 1]
      max  == MinOf(n, total - first + 1)
  IN IF ~Given(locals, "fi_max_multiple") THEN {<< >>}
     ELSE {s \in BoundedSeq(first .. total, max) :
             /\ \A k \in 1 .. Len(s) :
                  /\ \E d \in Window(locals) : s[k] = MinOf(prev(s, k) + d, total)
                  /\ k < Len(s) => s[k] # total
             /\ Len(s) = n \/ (s # << >> /\ s[Len(s)] = total)}

(* The files the script may write; without a fi_type the runtime takes its *)
(* default.                                                                *)
RunFiles(locals, total) ==
  LET first == locals.fi_cycle IN
  {[ok |-> TRUE, fi_type |-> IF Given(locals, "fi_type") THEN locals.fi_type ELSE "bitflip",
    fi_cycle |-> first, fi_second_cycle |-> second, fi_next_cycles |-> next,
    fi_index |-> IF first = Absent THEN locals.fi_index ELSE Absent,
    fi_reg_index |-> locals.fi_reg_index, fi_bit |-> locals.fi_bit,
    fi_num_bits |-> locals.fi_num_bits] :
     second \in SecondCycles(locals, first, total), next \in NextCycles(locals, first, total)}

-----------------------------------------------------------------------------
(* What an option means by itself: what a script that has only this option *)
(* makes of it.                                                            *)
Accepted(opt, total) == ~Refused(opt, opt, total)

Fails(opt, total) == CannotWrite(Defaulted(opt, total))

(* The cycle of the first fault: the pinned one, none in index mode, or a  *)
(* random one of the profile.                                              *)
FirstCycles(opt, total) ==
  IF Given(opt, "fi_cycle") THEN {opt.fi_cycle}
  ELSE IF Given(opt, "fi_index") THEN {Absent}
  ELSE 1 .. total

ConfigFiles(opt, total) ==
  UNION {RunFiles([Defaulted(opt, total) EXCEPT !.fi_cycle = first], total) :
           first \in FirstCycles(opt, total)}
=============================================================================
