----------------------------- MODULE FaultPlan ------------------------------
(***************************************************************************)
(* What an experiment promises about faults placed by cycle, without the   *)
(* registers, the calls or the records of the library that does it: the    *)
(* program executes cycle after cycle, and the planned cycles, which       *)
(* increase, are struck one by one as they come.                           *)
(***************************************************************************)
EXTENDS Integers, Sequences

VARIABLES
  now,    \* the cycle being executed
  plan,   \* cycles still to be struck
  done    \* cycles at which a fault was injected

vars == <<now, plan, done>>

Increasing(s) == \A j \in 1 .. Len(s) - 1 : s[j] < s[j + 1]

Init ==
  /\ now = 1
  /\ plan \in Seq(Nat \ {0}) /\ Increasing(plan)
  /\ done = << >>

Due == plan # << >> /\ Head(plan) = now

(* The fault planned for this cycle is injected ... *)
Strike == Due /\ plan' = Tail(plan) /\ done' = Append(done, now)

(* ... in the middle of the cycle, or as the cycle ends. *)
Inject == Strike /\ now' = now
InjectAndPass == Strike /\ now' = now + 1

(* A cycle ends; never one whose fault is still due. *)
Pass == ~Due /\ now' = now + 1 /\ UNCHANGED <<plan, done>>

Next == Inject \/ InjectAndPass \/ Pass

Spec == Init /\ [][Next]_vars

-----------------------------------------------------------------------------
(* No planned cycle is left behind. *)
NothingMissed == plan # << >> => Head(plan) >= now
=============================================================================
