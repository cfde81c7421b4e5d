---------------------------- MODULE InstTraceLib ----------------------------
(***************************************************************************)
(* The tracer, runtime_lib/InstTraceLib.c, and how tools/tracediff.py      *)
(* lines the file it writes up with the trace of a run without faults.     *)
(*                                                                         *)
(* The pass puts a call of printInstTracer after every traced instruction  *)
(* that is not a terminator, behind the call of the injection.  The fault  *)
(* injection runtime sets start_tracing_flag: initInjections on entry of   *)
(* main, injectFunc on every call.  A profiling executable does neither,   *)
(* and its trace is the golden one.  Instructions may run before main      *)
(* (static constructors), and faults may strike instructions that are not  *)
(* traced.                                                                 *)
(***************************************************************************)
EXTENDS Integers, Sequences, FiniteSets

CONSTANTS
  maxPrints,   \* option -maxtrace, compiled into every call
  MaxTraced    \* bound on the traced instructions a program executes

ASSUME PrintsAssumption == maxPrints \in Nat \ {0}
ASSUME TracedAssumption == MaxTraced \in Nat

VARIABLES
  start_tracing_flag,
  instCount,  \* traced instructions so far
  cutOff,     \* the first of them not to be printed any more
  ofile,      \* llfi.stat.trace.txt: headers and lines with their instCount
  \* history
  before,     \* instructions traced before main
  marks       \* the traced instructions that are first after a fault

traceVars == <<start_tracing_flag, instCount, cutOff, ofile, before, marks>>

Flag == {"golden", "init", "fault_inserted", "start_tracing", "end_tracing"}
Header(n) == [header |-> TRUE, at |-> n]    \* #TraceStartInstNumber: n
Line(n)   == [header |-> FALSE, at |-> n]   \* ID, opcode and value

TraceInit ==
  /\ start_tracing_flag = "golden"
  /\ instCount = 0 /\ cutOff = 0
  /\ ofile = << >> /\ before = 0 /\ marks = {}

(* initInjections, in an executable that has it.                           *)
EnterMain ==
  /\ start_tracing_flag = "golden"
  /\ start_tracing_flag' = "init"
  /\ before' = instCount
  /\ UNCHANGED <<instCount, cutOff, ofile, marks>>

(* injectFunc gets a register of the instruction about to be traced, or of *)
(* one that is not traced.                                                 *)
Strike ==
  /\ start_tracing_flag # "golden"
  /\ start_tracing_flag' = "fault_inserted"
  /\ marks' = marks \cup {instCount + 1}
  /\ UNCHANGED <<instCount, cutOff, ofile, before>>

Inserted == start_tracing_flag = "fault_inserted"

(* The three conditions of the function, n being the number of this call.  *)
NewCutOff(n) == IF Inserted THEN n + maxPrints ELSE cutOff

PrintsLate(n) ==           \* mutant: instCount <= cutOff
  \/ start_tracing_flag = "golden"
  \/ start_tracing_flag \in {"fault_inserted", "start_tracing"} /\ n <= NewCutOff(n)
Prints(n) ==
  \/ start_tracing_flag = "golden"
  \/ start_tracing_flag \in {"fault_inserted", "start_tracing"} /\ n < NewCutOff(n)

HeaderOnce(n) ==           \* mutant: one header per file, as tracediff expects
  IF Inserted /\ cutOff = 0 THEN <<Header(n)>> ELSE << >>
HeadedEarly(n) ==          \* mutant: the header has the count before the increment
  IF Inserted THEN <<Header(n - 1)>> ELSE << >>
Headed(n) == IF Inserted THEN <<Header(n)>> ELSE << >>

EndsLate(n) ==             \* mutant: instCount > cutOff
  IF start_tracing_flag = "golden" THEN "golden"
  ELSE IF n > NewCutOff(n) THEN "end_tracing"
  ELSE IF Inserted THEN "start_tracing"
  ELSE start_tracing_flag
NextFlag(n) ==
  IF start_tracing_flag = "golden" THEN "golden"
  ELSE IF n >= NewCutOff(n) THEN "end_tracing"
  ELSE IF Inserted THEN "start_tracing"
  ELSE start_tracing_flag

printInstTracer ==
  /\ instCount < MaxTraced
  /\ LET n == instCount + 1 IN
       /\ instCount' = n
       /\ cutOff' = NewCutOff(n)
       /\ ofile' = ofile \o Headed(n) \o (IF Prints(n) THEN <<Line(n)>> ELSE << >>)
       /\ start_tracing_flag' = NextFlag(n)
  /\ UNCHANGED <<before, marks>>

TraceNext == EnterMain \/ Strike \/ printInstTracer
TraceSpec == TraceInit /\ [][TraceNext]_traceVars

-----------------------------------------------------------------------------
(* Type invariant.  A run that is not golden traces nothing it was not     *)
(* told to: the window is open only behind a fault.                        *)
TraceTypeOK ==
  /\ start_tracing_flag \in Flag
  /\ instCount \in 0 .. MaxTraced
  /\ cutOff \in Nat
  /\ ofile \in Seq([header : BOOLEAN, at : 1 .. MaxTraced])
  /\ before \in 0 .. instCount
  /\ marks \subseteq before + 1 .. instCount + 1
  /\ start_tracing_flag \in {"golden", "init"} => marks = {}
  /\ start_tracing_flag = "start_tracing" => instCount < cutOff

Entries(file, kind) ==
  {file[k].at : k \in {j \in 1 .. Len(file) : file[j].header = kind}}

(* The instructions printed are those executed before main and, from then  *)
(* on, those of the windows of maxPrints instructions that begin at the    *)
(* faults, without gap or repetition where windows overlap; in a golden    *)
(* run, all of them.                                                       *)
Windows == {n \in 1 .. instCount : \E m \in marks : n \in m .. m + maxPrints - 1}

PrintedAroundFaults ==
  Entries(ofile, FALSE) =
    IF start_tracing_flag = "golden" THEN 1 .. instCount ELSE 1 .. before \cup Windows

(* Every fault that a traced instruction followed has its header, which    *)
(* comes directly before the line of that instruction; there are no other  *)
(* headers, and both come in the order of execution.                       *)
HeadersMarkFaults ==
  /\ Entries(ofile, TRUE) = marks \cap 1 .. instCount
  /\ \A k \in 1 .. Len(ofile) : ofile[k].header =>
       k < Len(ofile) /\ ofile[k + 1] = Line(ofile[k].at)
  /\ \A j, k \in 1 .. Len(ofile) : j < k =>
       \/ ofile[j].at < ofile[k].at
       \/ k = j + 1 /\ ofile[j] = Header(ofile[k].at) /\ ~ofile[k].header

(* tracediff.py drops as many lines of the golden trace, whose line n is   *)
(* instruction n, as the first line of the other file says, and compares   *)
(* the rest line by line: k-th with k-th.                                  *)
Compared == [k \in 1 .. Len(ofile) - 1 |-> <<ofile[1].at + k - 1, ofile[k + 1]>>]

(* With faults that one traced instruction follows, the two lines compared *)
(* are of the same instruction, unless the program was traced before main. *)
ComparesSameInstruction ==
  /\ ofile # << >>
  /\ Cardinality(marks) = 1
  /\ before = 0
  => /\ ofile[1].header
     /\ \A k \in 1 .. Len(ofile) - 1 : Compared[k][2] = Line(Compared[k][1])

-----------------------------------------------------------------------------
(* The invariants behind the proofs (InstTraceLib_proofs).                 *)

(* cutOff ends the window of the last fault; a window is open while the    *)
(* flag is one that prints.                                                *)
WindowInv ==
  /\ start_tracing_flag = "golden" => before = 0 /\ cutOff = 0
  /\ instCount + 1 \in marks <=> Inserted
  /\ \A m \in marks : m <= instCount => m + maxPrints <= cutOff
  /\ cutOff > 0 => \E m \in marks : m <= instCount /\ cutOff = m + maxPrints
  /\ start_tracing_flag \in {"init", "end_tracing"} => cutOff <= instCount + 1

(* The file has nothing about instructions to come.                        *)
FileInv ==
  /\ \A k \in 1 .. Len(ofile) : ofile[k].at <= instCount
  /\ HeadersMarkFaults

(* After one fault, the file is its header and the lines of its window.    *)
OneFaultInv ==
  /\ instCount = 0 => ofile = << >>
  /\ start_tracing_flag # "golden" /\ before = 0 =>
       /\ (\A m \in marks : m > instCount) => ofile = << >>
       /\ \A m \in marks : marks = {m} /\ m <= instCount =>
            /\ ofile # << >> /\ ofile[1] = Header(m)
            /\ Len(ofile) - 1 = IF instCount < m + maxPrints THEN instCount - m + 1
                                ELSE maxPrints
            /\ \A k \in 1 .. Len(ofile) - 1 : ofile[k + 1] = Line(m + k - 1)
=============================================================================
