------------------------------ MODULE MCParts -------------------------------
(***************************************************************************)
(* The parts that share nothing with each other: the passes, the ML        *)
(* runtime, the tracer and the batch scripts.  In each behaviour one of    *)
(* them works, and the others stay in an initial state.                    *)
(***************************************************************************)
EXTENDS MCInjectionPasses, MCMLFaultInjectionLib, InstTraceLib, BatchScripts

VARIABLE part    \* the one that works

passVars == <<pass, input>>
partVars == <<part, passVars, mlVars, traceVars, batchVars>>

PartsInit ==
  /\ part \in {"passes", "ml", "tracer", "scripts"}
  /\ mlFile \in IF part = "ml" THEN MLConfigFile ELSE {CHOOSE f \in MLConfigFile : TRUE}
  /\ MLInit /\ TraceInit /\ BatchInit
  /\ IF part = "passes" THEN PassInit ELSE pass = "none" /\ input = "none"

PartsNext ==
  \/ part = "passes" /\ PassNext /\ UNCHANGED <<part, mlVars, traceVars, batchVars>>
  \/ part = "ml" /\ MLNext /\ UNCHANGED <<part, passVars, traceVars, batchVars>>
  \/ part = "tracer" /\ TraceNext /\ UNCHANGED <<part, passVars, mlVars, batchVars>>
  \/ part = "scripts" /\ BatchNext /\ UNCHANGED <<part, passVars, mlVars, traceVars>>

PartsSpec == PartsInit /\ [][PartsNext]_partVars
=============================================================================
