------------------------- MODULE InstTraceLib_proofs -------------------------
(***************************************************************************)
(* Proofs about the tracer, for every window length and every program.     *)
(***************************************************************************)
EXTENDS InstTraceLib, SequenceTheorems, FiniteSetTheorems, TLAPS

Entry == [header : BOOLEAN, at : 1 .. MaxTraced]

(* What a call adds to the file: nothing, a line, or a header and a line.  *)
Added(n) == Headed(n) \o (IF Prints(n) THEN <<Line(n)>> ELSE << >>)

(* One call of printInstTracer, the n-th.                                  *)
LEMMA OneCall ==
  ASSUME TraceTypeOK, printInstTracer
  PROVE  LET n == instCount + 1 IN
         /\ n \in 1 .. MaxTraced
         /\ instCount' = n /\ cutOff' = NewCutOff(n) /\ start_tracing_flag' = NextFlag(n)
         /\ before' = before /\ marks' = marks
         /\ \/ /\ Prints(n) /\ Inserted
               /\ ofile' = Append(Append(ofile, Header(n)), Line(n))
            \/ /\ Prints(n) /\ ~Inserted
               /\ ofile' = Append(ofile, Line(n))
            \/ /\ ~Prints(n) /\ ~Inserted
               /\ ofile' = ofile
<1> DEFINE n == instCount + 1
<1>1. n \in 1 .. MaxTraced /\ maxPrints \in Nat \ {0} /\ MaxTraced \in Nat
  BY PrintsAssumption, TracedAssumption DEF TraceTypeOK, printInstTracer
<1>2. /\ instCount' = n /\ cutOff' = NewCutOff(n) /\ start_tracing_flag' = NextFlag(n)
      /\ before' = before /\ marks' = marks
      /\ ofile' = ofile \o Headed(n) \o (IF Prints(n) THEN <<Line(n)>> ELSE << >>)
  BY DEF printInstTracer
<1>3. ofile \in Seq(Entry)
  BY DEF TraceTypeOK, Entry
<1>4. Header(n) \in Entry /\ Line(n) \in Entry
  BY <1>1 DEF Header, Line, Entry
<1>5. Inserted => Prints(n)
  BY <1>1 DEF Inserted, Prints, NewCutOff
<1> HIDE DEF n
<1>6. CASE Inserted
  <2>1. ofile' = (ofile \o <<Header(n)>>) \o <<Line(n)>>
    BY <1>2, <1>5, <1>6 DEF Headed
  <2>2. ofile \o <<Header(n)>> = Append(ofile, Header(n))
    BY <1>3, <1>4, AppendIsConcat
  <2>3. Append(ofile, Header(n)) \in Seq(Entry)
    BY <1>3, <1>4, AppendProperties
  <2>4. ofile' = Append(Append(ofile, Header(n)), Line(n))
    BY <1>4, <2>1, <2>2, <2>3, AppendIsConcat
  <2>5. QED
    BY <1>1, <1>2, <1>5, <1>6, <2>4 DEF n
<1>7. CASE ~Inserted
  <2>1. ofile \o << >> = ofile
    BY <1>3, ConcatEmptySeq
  <2>2. CASE Prints(n)
    <3>1. ofile' = Append(ofile, Line(n))
      BY <1>2, <1>3, <1>4, <1>7, <2>1, <2>2, AppendIsConcat DEF Headed
    <3>2. QED
      BY <1>1, <1>2, <1>7, <2>2, <3>1 DEF n
  <2>3. CASE ~Prints(n)
    <3>1. ofile' = ofile
      BY <1>2, <1>7, <2>1, <2>3 DEF Headed
    <3>2. QED
      BY <1>1, <1>2, <1>7, <2>3, <3>1 DEF n
  <2>4. QED
    BY <2>2, <2>3
<1>8. QED
  BY <1>6, <1>7

-----------------------------------------------------------------------------
LEMMA TraceInitType == TraceInit => TraceTypeOK
BY EmptySeq, TracedAssumption DEF TraceInit, TraceTypeOK, Flag

(* Every step keeps the types. *)
LEMMA TraceNextType == TraceTypeOK /\ [TraceNext]_traceVars => TraceTypeOK'
<1> SUFFICES ASSUME TraceTypeOK, [TraceNext]_traceVars PROVE TraceTypeOK'
  OBVIOUS
<1> USE PrintsAssumption, TracedAssumption
<1>1. CASE EnterMain
  BY <1>1 DEF EnterMain, TraceTypeOK, Flag
<1>2. CASE Strike
  BY <1>2 DEF Strike, TraceTypeOK, Flag
<1>3. CASE printInstTracer
  <2> DEFINE n == instCount + 1
  <2>1. /\ n \in 1 .. MaxTraced
        /\ instCount' = n /\ cutOff' = NewCutOff(n) /\ start_tracing_flag' = NextFlag(n)
        /\ before' = before /\ marks' = marks
        /\ \/ ofile' = Append(Append(ofile, Header(n)), Line(n))
           \/ ofile' = Append(ofile, Line(n))
           \/ ofile' = ofile
    BY <1>3, OneCall
  <2>2. ofile' \in Seq(Entry)
    <3>1. Header(n) \in Entry /\ Line(n) \in Entry
      BY <2>1 DEF Header, Line, Entry
    <3>2. ofile \in Seq(Entry)
      BY DEF TraceTypeOK, Entry
    <3>3. Append(ofile, Header(n)) \in Seq(Entry)
      BY <3>1, <3>2, AppendProperties
    <3>4. /\ Append(Append(ofile, Header(n)), Line(n)) \in Seq(Entry)
          /\ Append(ofile, Line(n)) \in Seq(Entry)
      BY <3>1, <3>2, <3>3, AppendProperties
    <3>5. QED
      BY <2>1, <3>2, <3>4
  <2>3. cutOff' \in Nat
    BY <2>1 DEF NewCutOff, TraceTypeOK
  <2>4. /\ start_tracing_flag' \in Flag
        /\ start_tracing_flag' = "start_tracing" => instCount' < cutOff'
        /\ start_tracing_flag' \in {"golden", "init"} =>
             start_tracing_flag' = start_tracing_flag
    BY <2>1, <2>3 DEF NextFlag, TraceTypeOK, Flag, Inserted
  <2>5. QED
    BY <2>1, <2>2, <2>3, <2>4 DEF TraceTypeOK, Entry
<1>4. CASE UNCHANGED traceVars
  BY <1>4 DEF traceVars, TraceTypeOK
<1>5. QED
  BY <1>1, <1>2, <1>3, <1>4 DEF TraceNext

(* The tracer's state is well formed.                                      *)
THEOREM TraceTypeCorrect == TraceSpec => []TraceTypeOK
<1>1. QED
  BY TraceInitType, TraceNextType, PTL DEF TraceSpec

-----------------------------------------------------------------------------
LEMMA WindowInit == TraceInit => WindowInv
BY DEF TraceInit, WindowInv, Inserted

(* cutOff and the flag follow the faults.                                  *)
LEMMA WindowStep ==
  ASSUME TraceTypeOK, WindowInv, [TraceNext]_traceVars
  PROVE  WindowInv'
<1> USE DEF WindowInv, Inserted
<1>0. /\ maxPrints \in Nat \ {0} /\ instCount \in Nat /\ cutOff \in Nat
      /\ \A m \in marks : m \in Nat /\ m <= instCount + 1
      /\ start_tracing_flag \in Flag
      /\ start_tracing_flag \in {"golden", "init"} => marks = {}
  BY PrintsAssumption, TracedAssumption DEF TraceTypeOK
<1>1. CASE EnterMain
  BY <1>0, <1>1 DEF EnterMain
<1>2. CASE Strike
  BY <1>0, <1>2 DEF Strike
<1>3. CASE printInstTracer
  <2> DEFINE n == instCount + 1
  <2>1. /\ instCount' = n /\ cutOff' = NewCutOff(n) /\ start_tracing_flag' = NextFlag(n)
        /\ before' = before /\ marks' = marks
    BY <1>3, OneCall
  <2>2. n + 1 \notin marks /\ start_tracing_flag' # "fault_inserted"
    BY <1>0, <2>1 DEF NextFlag
  <2>3. CASE Inserted
    <3>1. cutOff' = n + maxPrints /\ n \in marks
      BY <2>1, <2>3 DEF NewCutOff
    <3>2. \A m \in marks : m <= n => m + maxPrints <= cutOff'
      BY <1>0, <3>1
    <3>3. start_tracing_flag' \in {"init", "end_tracing"} => cutOff' <= n + 1
      BY <1>0, <2>1, <2>3, <3>1 DEF NextFlag
    <3>4. start_tracing_flag' # "golden"
      BY <2>1, <2>3 DEF NextFlag
    <3>5. QED
      BY <1>0, <2>1, <2>2, <3>1, <3>2, <3>3, <3>4
  <2>4. CASE ~Inserted
    <3>1. cutOff' = cutOff /\ n \notin marks
      BY <2>1, <2>4 DEF NewCutOff
    <3>2. \A m \in marks : m <= n <=> m <= instCount
      BY <1>0, <3>1
    <3>3. start_tracing_flag' \in {"init", "end_tracing"} => cutOff' <= n + 1
      BY <1>0, <2>1, <2>4, <3>1 DEF NextFlag
    <3>4. start_tracing_flag' = "golden" => start_tracing_flag = "golden"
      BY <2>1 DEF NextFlag
    <3>5. QED
      BY <1>0, <2>1, <2>2, <3>1, <3>2, <3>3, <3>4
  <2>5. QED
    BY <2>3, <2>4
<1>4. CASE UNCHANGED traceVars
  BY <1>4 DEF traceVars
<1>5. QED
  BY <1>1, <1>2, <1>3, <1>4 DEF TraceNext

(* An instruction is printed if it lies in the window of a fault.          *)
LEMMA PrintsInWindow ==
  ASSUME TraceTypeOK, WindowInv, start_tracing_flag # "golden"
  PROVE  Prints(instCount + 1) <=>
           \E m \in marks : instCount + 1 \in m .. m + maxPrints - 1
<1> DEFINE n == instCount + 1
<1>0. /\ maxPrints \in Nat \ {0} /\ instCount \in Nat /\ cutOff \in Nat
      /\ \A m \in marks : m \in Nat /\ m <= instCount + 1
      /\ start_tracing_flag \in Flag \ {"golden"}
      /\ start_tracing_flag = "start_tracing" => instCount < cutOff
  BY PrintsAssumption, TracedAssumption DEF TraceTypeOK
<1>1. CASE Inserted
  <2>1. n \in marks /\ Prints(n)
    BY <1>0, <1>1 DEF WindowInv, Inserted, Prints, NewCutOff
  <2>2. n \in n .. n + maxPrints - 1
    BY <1>0
  <2>3. QED
    BY <2>1, <2>2
<1>2. CASE ~Inserted
  <2>1. n \notin marks /\ NewCutOff(n) = cutOff
    BY <1>2 DEF WindowInv, NewCutOff
  <2>2. \A m \in marks : m <= instCount
    BY <1>0, <2>1
  <2>3. (\E m \in marks : n \in m .. m + maxPrints - 1) <=> n < cutOff
    <3>1. ASSUME NEW m \in marks, n \in m .. m + maxPrints - 1 PROVE n < cutOff
      <4>1. m + maxPrints <= cutOff
        BY <2>2 DEF WindowInv
      <4>2. QED
        BY <1>0, <3>1, <4>1
    <3>2. ASSUME n < cutOff PROVE \E m \in marks : n \in m .. m + maxPrints - 1
      <4>1. PICK m \in marks : m <= instCount /\ cutOff = m + maxPrints
        BY <1>0, <3>2 DEF WindowInv
      <4>2. n \in m .. m + maxPrints - 1
        BY <1>0, <3>2, <4>1
      <4>3. QED
        BY <4>2
    <3>3. QED
      BY <3>1, <3>2
  <2>4. start_tracing_flag \in {"start_tracing", "init", "end_tracing"}
    BY <1>0, <1>2 DEF Flag, Inserted
  <2>5. start_tracing_flag \in {"init", "end_tracing"} => ~(n < cutOff)
    BY <1>0 DEF WindowInv
  <2>6. QED
    BY <1>0, <2>1, <2>3, <2>4, <2>5 DEF Prints
<1>3. QED
  BY <1>1, <1>2

-----------------------------------------------------------------------------
(* What appending an entry does to the entries of a kind.                  *)
LEMMA EntriesAppend ==
  ASSUME NEW s \in Seq(Entry), NEW e \in Entry, NEW kind \in BOOLEAN
  PROVE  Entries(Append(s, e), kind) =
           Entries(s, kind) \cup (IF e.header = kind THEN {e.at} ELSE {})
<1> DEFINE t == Append(s, e)
<1>1. /\ Len(t) = Len(s) + 1 /\ Len(s) \in Nat
      /\ \A k \in 1 .. Len(s) : t[k] = s[k]
      /\ t[Len(s) + 1] = e
  BY AppendProperties
<1> HIDE DEF t
<1>2. ASSUME NEW x \in Entries(t, kind)
      PROVE  x \in Entries(s, kind) \/ (e.header = kind /\ x = e.at)
  <2>1. PICK k \in 1 .. Len(t) : t[k].header = kind /\ x = t[k].at
    BY DEF Entries
  <2>2. CASE k \in 1 .. Len(s)
    BY <1>1, <2>1, <2>2 DEF Entries
  <2>3. CASE k \notin 1 .. Len(s)
    <3>1. k = Len(s) + 1
      BY <1>1, <2>3
    <3>2. QED
      BY <1>1, <2>1, <3>1
  <2>4. QED
    BY <2>2, <2>3
<1>3. ASSUME NEW x \in Entries(s, kind) PROVE x \in Entries(t, kind)
  <2>1. PICK k \in 1 .. Len(s) : s[k].header = kind /\ x = s[k].at
    BY DEF Entries
  <2>2. k \in 1 .. Len(t) /\ t[k] = s[k]
    BY <1>1
  <2>3. QED
    BY <2>1, <2>2 DEF Entries
<1>4. e.header = kind => e.at \in Entries(t, kind)
  <2>1. Len(s) + 1 \in 1 .. Len(t)
    BY <1>1
  <2>2. QED
    BY <1>1, <2>1 DEF Entries
<1>5. QED
  BY <1>2, <1>3, <1>4 DEF t

(* What a call adds to the lines and to the headers.                       *)
LEMMA CallEntries ==
  ASSUME TraceTypeOK, printInstTracer
  PROVE  LET n == instCount + 1 IN
         /\ Entries(ofile', FALSE) =
              Entries(ofile, FALSE) \cup (IF Prints(n) THEN {n} ELSE {})
         /\ Entries(ofile', TRUE) =
              Entries(ofile, TRUE) \cup (IF Inserted THEN {n} ELSE {})
<1> DEFINE n == instCount + 1
<1>1. n \in 1 .. MaxTraced
  BY OneCall
<1>2. ofile \in Seq(Entry)
  BY DEF TraceTypeOK, Entry
<1> HIDE DEF n
<1>3. /\ Header(n) \in Entry /\ Header(n).header = TRUE /\ Header(n).at = n
      /\ Line(n) \in Entry /\ Line(n).header = FALSE /\ Line(n).at = n
  BY <1>1 DEF Header, Line, Entry
<1>4. Append(ofile, Header(n)) \in Seq(Entry)
  BY ONLY <1>2, <1>3, AppendProperties
<1>5. CASE Prints(n) /\ Inserted /\ ofile' = Append(Append(ofile, Header(n)), Line(n))
  <2>1. /\ Entries(Append(ofile, Header(n)), FALSE) = Entries(ofile, FALSE)
        /\ Entries(Append(ofile, Header(n)), TRUE) = Entries(ofile, TRUE) \cup {n}
    BY ONLY <1>2, <1>3, EntriesAppend
  <2> DEFINE s == Append(ofile, Header(n))
  <2>2. s \in Seq(Entry) /\ ofile' = Append(s, Line(n))
    BY <1>4, <1>5
  <2> HIDE DEF s
  <2>3. /\ Entries(ofile', FALSE) = Entries(s, FALSE) \cup {n}
        /\ Entries(ofile', TRUE) = Entries(s, TRUE)
    BY ONLY <1>3, <2>2, EntriesAppend
  <2>4. QED
    BY <1>5, <2>1, <2>3 DEF n, s
<1>6. CASE Prints(n) /\ ~Inserted /\ ofile' = Append(ofile, Line(n))
  <2>1. /\ Entries(ofile', FALSE) = Entries(ofile, FALSE) \cup {n}
        /\ Entries(ofile', TRUE) = Entries(ofile, TRUE)
    BY ONLY <1>2, <1>3, <1>6, EntriesAppend
  <2>2. QED
    BY <1>6, <2>1 DEF n
<1>7. CASE ~Prints(n) /\ ~Inserted /\ ofile' = ofile
  BY <1>7 DEF n
<1>8. QED
  BY <1>5, <1>6, <1>7, OneCall DEF n

-----------------------------------------------------------------------------
LEMMA PrintedInit == TraceInit => PrintedAroundFaults
<1> SUFFICES ASSUME TraceInit PROVE PrintedAroundFaults
  OBVIOUS
<1>1. Entries(<< >>, FALSE) = {}
  BY EmptySeq DEF Entries
<1>2. QED
  <2>1. 1 .. 0 = {}
    OBVIOUS
  <2>2. QED
    BY <1>1, <2>1 DEF TraceInit, PrintedAroundFaults

LEMMA PrintedStep ==
  ASSUME TraceTypeOK, WindowInv, PrintedAroundFaults, [TraceNext]_traceVars
  PROVE  PrintedAroundFaults'
<1>0. /\ instCount \in Nat /\ before \in Nat /\ before <= instCount
      /\ \A m \in marks : m \in Nat
      /\ start_tracing_flag \in {"golden", "init"} => marks = {}
      /\ maxPrints \in Nat \ {0}
  BY PrintsAssumption, TracedAssumption DEF TraceTypeOK
<1>1. CASE EnterMain
  <2>1. /\ Entries(ofile', FALSE) = 1 .. instCount
        /\ before' = instCount /\ marks' = {} /\ instCount' = instCount
        /\ start_tracing_flag' # "golden"
    BY <1>0, <1>1 DEF EnterMain, PrintedAroundFaults
  <2>2. Windows' = {}
    BY <2>1 DEF Windows
  <2>3. QED
    BY <2>1, <2>2 DEF PrintedAroundFaults
<1>2. CASE Strike
  <2>1. /\ ofile' = ofile /\ before' = before /\ instCount' = instCount
        /\ marks' = marks \cup {instCount + 1}
        /\ start_tracing_flag # "golden" /\ start_tracing_flag' # "golden"
    BY <1>2 DEF Strike
  <2>2. Windows' = Windows
    BY <1>0, <2>1 DEF Windows
  <2>3. QED
    BY <2>1, <2>2 DEF PrintedAroundFaults
<1>3. CASE printInstTracer
  <2> DEFINE n == instCount + 1
  <2>1. /\ instCount' = n /\ before' = before /\ marks' = marks
        /\ start_tracing_flag' = NextFlag(n)
    BY <1>3, OneCall
  <2>2. Entries(ofile', FALSE) = Entries(ofile, FALSE) \cup (IF Prints(n) THEN {n} ELSE {})
    BY <1>3, CallEntries
  <2>3. start_tracing_flag' = "golden" <=> start_tracing_flag = "golden"
    BY <2>1 DEF NextFlag, Inserted
  <2>4. CASE start_tracing_flag = "golden"
    <3>1. Prints(n)
      BY <2>4 DEF Prints
    <3>2. 1 .. n = (1 .. instCount) \cup {n}
      BY <1>0
    <3>3. QED
      BY <2>1, <2>2, <2>3, <2>4, <3>1, <3>2 DEF PrintedAroundFaults
  <2>5. CASE start_tracing_flag # "golden"
    <3>1. Prints(n) <=> \E m \in marks : n \in m .. m + maxPrints - 1
      BY <2>5, PrintsInWindow
    <3>2. Windows' = Windows \cup (IF Prints(n) THEN {n} ELSE {})
      <4>1. 1 .. n = (1 .. instCount) \cup {n}
        BY <1>0
      <4>2. Windows' = {k \in 1 .. n : \E m \in marks : k \in m .. m + maxPrints - 1}
        BY <2>1 DEF Windows
      <4>3. QED
        BY <3>1, <4>1, <4>2 DEF Windows
    <3>3. Entries(ofile, FALSE) = 1 .. before \cup Windows
      BY <2>5 DEF PrintedAroundFaults
    <3>4. QED
      BY <2>1, <2>2, <2>3, <2>5, <3>2, <3>3 DEF PrintedAroundFaults
  <2>6. QED
    BY <2>4, <2>5
<1>4. CASE UNCHANGED traceVars
  BY <1>4 DEF traceVars, PrintedAroundFaults, Windows
<1>5. QED
  BY <1>1, <1>2, <1>3, <1>4 DEF TraceNext

(* The trace has what the windows behind the faults cover, whatever the    *)
(* faults and however they overlap.                                        *)
THEOREM PrintedAroundFaultsCorrect == TraceSpec => []PrintedAroundFaults
<1>1. TraceTypeOK /\ WindowInv /\ [TraceNext]_traceVars => WindowInv'
  BY WindowStep
<1>2. TraceTypeOK /\ WindowInv /\ PrintedAroundFaults /\ [TraceNext]_traceVars
        => PrintedAroundFaults'
  BY PrintedStep
<1>3. QED
  BY <1>1, <1>2, WindowInit, PrintedInit, TraceTypeCorrect, PTL DEF TraceSpec

-----------------------------------------------------------------------------
LEMMA FileInit == TraceInit => FileInv
<1> SUFFICES ASSUME TraceInit PROVE FileInv
  OBVIOUS
<1>1. /\ ofile = << >> /\ Len(ofile) = 0 /\ marks = {}
  BY EmptySeq DEF TraceInit
<1>2. Entries(ofile, TRUE) = {}
  BY <1>1 DEF Entries
<1>3. ~\E k \in 1 .. Len(ofile) : TRUE
  BY <1>1
<1>4. QED
  BY <1>1, <1>2, <1>3 DEF FileInv, HeadersMarkFaults

(* Every entry is about the last instruction, and a header has its line.   *)
LEMMA FileStep ==
  ASSUME TraceTypeOK, WindowInv, FileInv, [TraceNext]_traceVars
  PROVE  FileInv'
<1>a. ofile \in Seq(Entry)
  BY DEF TraceTypeOK, Entry
<1>b. Len(ofile) \in Nat /\ \A k \in 1 .. Len(ofile) : ofile[k] \in Entry
  BY <1>a
<1>c. /\ instCount \in Nat
      /\ \A m \in marks : m \in Nat \ {0}
      /\ start_tracing_flag \in {"golden", "init"} => marks = {}
  BY TracedAssumption DEF TraceTypeOK
<1>0. /\ instCount \in Nat /\ Len(ofile) \in Nat
      /\ \A k \in 1 .. Len(ofile) : ofile[k] \in Entry
      /\ ofile \in Seq(Entry)
      /\ \A m \in marks : m \in Nat \ {0}
      /\ start_tracing_flag \in {"golden", "init"} => marks = {}
  BY <1>a, <1>b, <1>c
<1>1. CASE EnterMain
  BY <1>1 DEF EnterMain, FileInv, HeadersMarkFaults
<1>2. CASE Strike
  <2>1. ofile' = ofile /\ instCount' = instCount /\ marks' = marks \cup {instCount + 1}
    BY <1>2 DEF Strike
  <2>2. marks' \cap (1 .. instCount) = marks \cap (1 .. instCount)
    BY <1>0, <2>1
  <2>3. QED
    BY <2>1, <2>2 DEF FileInv, HeadersMarkFaults
<1>3. CASE printInstTracer
  <2> DEFINE n == instCount + 1
  <2>1. /\ instCount' = n /\ marks' = marks /\ n \in 1 .. MaxTraced
        /\ n \in marks <=> Inserted
    BY <1>3, OneCall DEF WindowInv
  <2>2. Entries(ofile', TRUE) = marks' \cap (1 .. instCount')
    <3>1. Entries(ofile', TRUE) = Entries(ofile, TRUE) \cup (IF Inserted THEN {n} ELSE {})
      BY <1>3, CallEntries
    <3>2. Entries(ofile, TRUE) = marks \cap (1 .. instCount)
      BY DEF FileInv, HeadersMarkFaults
    <3>3. 1 .. n = (1 .. instCount) \cup {n}
      BY <1>0
    <3>4. QED
      BY <2>1, <3>1, <3>2, <3>3
  <2>3. /\ Header(n) \in Entry /\ Header(n).header = TRUE /\ Header(n).at = n
        /\ Line(n) \in Entry /\ Line(n).header = FALSE /\ Line(n).at = n
    BY <2>1 DEF Header, Line, Entry
  <2>4. /\ \A k \in 1 .. Len(ofile) : ofile[k].at \in Nat /\ ofile[k].at < n
        /\ \A k \in 1 .. Len(ofile) : ofile[k].header =>
             k < Len(ofile) /\ ofile[k + 1] = Line(ofile[k].at)
        /\ \A j, k \in 1 .. Len(ofile) : j < k =>
             \/ ofile[j].at < ofile[k].at
             \/ k = j + 1 /\ ofile[j] = Header(ofile[k].at) /\ ~ofile[k].header
    BY <1>0 DEF FileInv, HeadersMarkFaults, Entry
  <2>5. CASE ofile' = Append(Append(ofile, Header(n)), Line(n))
    <3> DEFINE s == Append(ofile, Header(n))
    <3>1. /\ s \in Seq(Entry) /\ Len(s) = Len(ofile) + 1
          /\ \A k \in 1 .. Len(ofile) : s[k] = ofile[k]
          /\ s[Len(ofile) + 1] = Header(n)
      BY <1>0, <2>3, AppendProperties
    <3>2. ofile' = Append(s, Line(n))
      BY <2>5
    <3> HIDE DEF s, n
    <3>3. /\ Len(ofile') = Len(s) + 1
          /\ \A k \in 1 .. Len(s) : ofile'[k] = s[k]
          /\ ofile'[Len(s) + 1] = Line(n)
      BY <2>3, <3>1, <3>2, AppendProperties
    <3>4. /\ Len(ofile') = Len(ofile) + 2
          /\ \A k \in 1 .. Len(ofile) : ofile'[k] = ofile[k]
          /\ ofile'[Len(ofile) + 1] = Header(n)
          /\ ofile'[Len(ofile) + 2] = Line(n)
      BY <1>0, <3>1, <3>3
    <3>5. \A k \in 1 .. Len(ofile') :
            k \in 1 .. Len(ofile) \/ k = Len(ofile) + 1 \/ k = Len(ofile) + 2
      BY <1>0, <3>4
    <3>6. \A k \in 1 .. Len(ofile') : ofile'[k].at <= instCount'
      BY <1>0, <2>1, <2>3, <2>4, <3>4, <3>5 DEF n
    <3>7. \A k \in 1 .. Len(ofile') : ofile'[k].header =>
            k < Len(ofile') /\ ofile'[k + 1] = Line(ofile'[k].at)
      <4>1. ASSUME NEW k \in 1 .. Len(ofile), ofile'[k].header
            PROVE  k < Len(ofile') /\ ofile'[k + 1] = Line(ofile'[k].at)
        <5>1. ofile[k].header /\ k + 1 \in 1 .. Len(ofile)
          BY <1>0, <2>4, <3>4, <4>1
        <5>2. QED
          BY <1>0, <2>4, <3>4, <5>1
      <4>2. QED
        BY <1>0, <2>3, <3>4, <3>5, <4>1
    <3>8. \A j, k \in 1 .. Len(ofile') : j < k =>
            \/ ofile'[j].at < ofile'[k].at
            \/ k = j + 1 /\ ofile'[j] = Header(ofile'[k].at) /\ ~ofile'[k].header
      <4>1. ASSUME NEW j \in 1 .. Len(ofile), NEW k \in 1 .. Len(ofile), j < k
            PROVE \/ ofile'[j].at < ofile'[k].at
                  \/ k = j + 1 /\ ofile'[j] = Header(ofile'[k].at) /\ ~ofile'[k].header
        BY <2>4, <3>4, <4>1
      <4>2. ASSUME NEW j \in 1 .. Len(ofile), NEW k \in {Len(ofile) + 1, Len(ofile) + 2}
            PROVE ofile'[j].at < ofile'[k].at
        BY <2>3, <2>4, <3>4, <4>2
      <4>3. /\ ofile'[Len(ofile) + 1] = Header(ofile'[Len(ofile) + 2].at)
            /\ ~ofile'[Len(ofile) + 2].header
        BY <2>3, <3>4
      <4>4. ASSUME NEW j \in 1 .. Len(ofile'), NEW k \in 1 .. Len(ofile'), j < k
            PROVE \/ ofile'[j].at < ofile'[k].at
                  \/ k = j + 1 /\ ofile'[j] = Header(ofile'[k].at) /\ ~ofile'[k].header
        <5>1. CASE k \in 1 .. Len(ofile)
          <6>1. j \in 1 .. Len(ofile)
            BY <1>0, <4>4, <5>1
          <6>2. QED
            BY <4>1, <4>4, <5>1, <6>1
        <5>2. CASE k = Len(ofile) + 1
          <6>1. j \in 1 .. Len(ofile)
            BY <1>0, <4>4, <5>2
          <6>2. QED
            BY <4>2, <5>2, <6>1
        <5>3. CASE k = Len(ofile) + 2
          <6>1. j \in 1 .. Len(ofile) \/ j = Len(ofile) + 1
            BY <1>0, <4>4, <5>3
          <6>2. CASE j \in 1 .. Len(ofile)
            BY <4>2, <5>3, <6>2
          <6>3. CASE j = Len(ofile) + 1
            BY <1>0, <4>3, <5>3, <6>3
          <6>4. QED
            BY <6>1, <6>2, <6>3
        <5>4. QED
          BY <3>5, <5>1, <5>2, <5>3
      <4>5. QED
        BY <4>4
    <3>9. QED
      BY <2>2, <3>6, <3>7, <3>8 DEF FileInv, HeadersMarkFaults
  <2>6. CASE ofile' = Append(ofile, Line(n))
    <3> HIDE DEF n
    <3>1. /\ Len(ofile') = Len(ofile) + 1
          /\ \A k \in 1 .. Len(ofile) : ofile'[k] = ofile[k]
          /\ ofile'[Len(ofile) + 1] = Line(n)
      BY <1>0, <2>3, <2>6, AppendProperties
    <3>2. \A k \in 1 .. Len(ofile') : k \in 1 .. Len(ofile) \/ k = Len(ofile) + 1
      BY <1>0, <3>1
    <3>3. \A k \in 1 .. Len(ofile') : ofile'[k].at <= instCount'
      BY <1>0, <2>1, <2>3, <2>4, <3>1, <3>2 DEF n
    <3>4. \A k \in 1 .. Len(ofile') : ofile'[k].header =>
            k < Len(ofile') /\ ofile'[k + 1] = Line(ofile'[k].at)
      <4>1. ASSUME NEW k \in 1 .. Len(ofile), ofile'[k].header
            PROVE  k < Len(ofile') /\ ofile'[k + 1] = Line(ofile'[k].at)
        <5>1. ofile[k].header /\ k + 1 \in 1 .. Len(ofile)
          BY <1>0, <2>4, <3>1, <4>1
        <5>2. QED
          BY <1>0, <2>4, <3>1, <5>1
      <4>2. QED
        BY <2>3, <3>1, <3>2, <4>1
    <3>5. ASSUME NEW j \in 1 .. Len(ofile'), NEW k \in 1 .. Len(ofile'), j < k
          PROVE \/ ofile'[j].at < ofile'[k].at
                \/ k = j + 1 /\ ofile'[j] = Header(ofile'[k].at) /\ ~ofile'[k].header
      <4>1. j \in 1 .. Len(ofile)
        BY <1>0, <3>1, <3>5
      <4>2. CASE k \in 1 .. Len(ofile)
        BY <2>4, <3>1, <3>5, <4>1, <4>2
      <4>3. CASE k = Len(ofile) + 1
        BY <2>3, <2>4, <3>1, <4>1, <4>3
      <4>4. QED
        BY <3>2, <4>2, <4>3
    <3>6. QED
      BY <2>2, <3>3, <3>4, <3>5 DEF FileInv, HeadersMarkFaults
  <2>7. CASE ofile' = ofile
    <3>1. \A k \in 1 .. Len(ofile') : ofile'[k].at <= instCount'
      BY <1>0, <2>1, <2>4, <2>7
    <3>2. QED
      BY <2>2, <2>4, <2>7, <3>1 DEF FileInv, HeadersMarkFaults
  <2>8. QED
    BY <1>3, <2>5, <2>6, <2>7, OneCall
<1>4. CASE UNCHANGED traceVars
  BY <1>4 DEF traceVars, FileInv, HeadersMarkFaults
<1>5. QED
  BY <1>1, <1>2, <1>3, <1>4 DEF TraceNext

(* Every fault that is followed has one header, at the line it announces.  *)
THEOREM HeadersMarkFaultsCorrect == TraceSpec => []HeadersMarkFaults
<1>1. TraceTypeOK /\ WindowInv /\ [TraceNext]_traceVars => WindowInv'
  BY WindowStep
<1>2. TraceTypeOK /\ WindowInv /\ FileInv /\ [TraceNext]_traceVars => FileInv'
  BY FileStep
<1>3. FileInv => HeadersMarkFaults
  BY DEF FileInv
<1>4. QED
  BY <1>1, <1>2, <1>3, WindowInit, FileInit, TraceTypeCorrect, PTL DEF TraceSpec

-----------------------------------------------------------------------------
LEMMA TwoEntries ==
  ASSUME NEW h \in Entry, NEW l \in Entry, NEW t,
         t = Append(Append(<< >>, h), l)
  PROVE  Len(t) = 2 /\ t[1] = h /\ t[2] = l
<1> DEFINE s == Append(<< >>, h)
<1>1. << >> \in Seq(Entry) /\ Len(<< >>) = 0
  BY EmptySeq
<1>2. s \in Seq(Entry) /\ Len(s) = 0 + 1 /\ s[0 + 1] = h
  BY <1>1, AppendProperties
<1>3. t = Append(s, l)
  OBVIOUS
<1> HIDE DEF s
<1>4. /\ Len(t) = Len(s) + 1 /\ t[Len(s) + 1] = l
      /\ \A k \in 1 .. Len(s) : t[k] = s[k]
  <2>1. s \in Seq(Entry)
    BY <1>2
  <2>2. QED
    BY <1>3, <2>1, AppendProperties
<1>5. QED
  BY <1>2, <1>4

LEMMA OneFaultInit == TraceInit => OneFaultInv
BY DEF TraceInit, OneFaultInv

(* The lines behind the only header are those of consecutive instructions. *)
LEMMA OneFaultStep ==
  ASSUME TraceTypeOK, WindowInv, OneFaultInv, [TraceNext]_traceVars
  PROVE  OneFaultInv'
<1>a. ofile \in Seq(Entry)
  BY DEF TraceTypeOK, Entry
<1>b. /\ instCount \in Nat /\ maxPrints \in Nat \ {0} /\ cutOff \in Nat
      /\ \A m \in marks : m \in Nat \ {0} /\ m <= instCount + 1
      /\ start_tracing_flag \in {"golden", "init"} => marks = {}
  BY TracedAssumption, PrintsAssumption DEF TraceTypeOK
<1>0. /\ ofile \in Seq(Entry) /\ Len(ofile) \in Nat
      /\ instCount \in Nat /\ maxPrints \in Nat \ {0} /\ cutOff \in Nat
      /\ \A m \in marks : m \in Nat \ {0} /\ m <= instCount + 1
      /\ start_tracing_flag \in {"golden", "init"} => marks = {}
  BY <1>a, <1>b
<1>1. CASE EnterMain
  BY <1>0, <1>1 DEF EnterMain, OneFaultInv
<1>2. CASE Strike
  <2>1. /\ ofile' = ofile /\ instCount' = instCount /\ before' = before
        /\ marks' = marks \cup {instCount + 1} /\ start_tracing_flag # "golden"
    BY <1>2 DEF Strike
  <2>2. \A m : ~(marks' = {m} /\ m <= instCount)
    BY <1>0, <2>1
  <2>3. (\A m \in marks' : m > instCount) => (\A m \in marks : m > instCount)
    BY <2>1
  <2>4. QED
    BY <2>1, <2>2, <2>3 DEF OneFaultInv
<1>3. CASE printInstTracer
  <2> DEFINE n == instCount + 1
  <2>1. /\ instCount' = n /\ marks' = marks /\ before' = before
        /\ start_tracing_flag' = NextFlag(n) /\ n \in 1 .. MaxTraced
        /\ n \in marks <=> Inserted
        /\ \/ /\ Prints(n) /\ Inserted
              /\ ofile' = Append(Append(ofile, Header(n)), Line(n))
           \/ /\ Prints(n) /\ ~Inserted /\ ofile' = Append(ofile, Line(n))
           \/ /\ ~Prints(n) /\ ~Inserted /\ ofile' = ofile
    BY <1>3, OneCall DEF WindowInv
  <2>2. SUFFICES ASSUME start_tracing_flag' # "golden", before = 0
                 PROVE  /\ (\A m \in marks : m > n) => ofile' = << >>
                        /\ \A m \in marks : marks = {m} /\ m <= n =>
                             /\ ofile' # << >> /\ ofile'[1] = Header(m)
                             /\ Len(ofile') - 1 = IF n < m + maxPrints THEN n - m + 1
                                                  ELSE maxPrints
                             /\ \A k \in 1 .. Len(ofile') - 1 :
                                  ofile'[k + 1] = Line(m + k - 1)
    BY <1>0, <2>1 DEF OneFaultInv
  <2>3. start_tracing_flag # "golden"
    BY <2>1, <2>2 DEF NextFlag
  <2>4. Prints(n) <=> \E m \in marks : n \in m .. m + maxPrints - 1
    BY <2>3, PrintsInWindow
  <2>5. Header(n) \in Entry /\ Line(n) \in Entry
    BY <2>1 DEF Header, Line, Entry
  <2>6. ASSUME \A m \in marks : m > n PROVE ofile' = << >>
    <3>1. marks = {}
      BY <1>0, <2>6
    <3>2. ofile = << >> /\ ~Prints(n)
      BY <2>2, <2>3, <2>4, <3>1 DEF OneFaultInv
    <3>3. QED
      BY <2>1, <3>2
  <2>7. ASSUME NEW m \in marks, marks = {m}, m <= n
        PROVE  /\ ofile' # << >> /\ ofile'[1] = Header(m)
               /\ Len(ofile') - 1 = IF n < m + maxPrints THEN n - m + 1 ELSE maxPrints
               /\ \A k \in 1 .. Len(ofile') - 1 : ofile'[k + 1] = Line(m + k - 1)
    <3>1. CASE m = n
      <4>1. ofile = << >>
        BY <1>0, <2>2, <2>3, <2>7, <3>1 DEF OneFaultInv
      <4>2. ofile' = Append(Append(<< >>, Header(n)), Line(n))
        BY <2>1, <2>7, <3>1, <4>1
      <4>4. Len(ofile') = 2 /\ ofile'[1] = Header(n) /\ ofile'[2] = Line(n)
        BY <2>5, <4>2, TwoEntries
      <4>5. \A k \in 1 .. Len(ofile') - 1 : k = 1
        BY <4>4
      <4>6. QED
        <5>1. ofile' # << >>
          BY <4>4
        <5>2. \A k \in 1 .. Len(ofile') - 1 : m + k - 1 = n /\ k + 1 = 2
          BY <1>0, <3>1, <4>5
        <5>3. QED
          BY <1>0, <2>1, <3>1, <4>4, <5>1, <5>2
    <3>2. CASE m < n
      <4>1. /\ m <= instCount /\ ofile # << >> /\ ofile[1] = Header(m)
            /\ Len(ofile) - 1 = IF instCount < m + maxPrints THEN instCount - m + 1
                                ELSE maxPrints
            /\ \A k \in 1 .. Len(ofile) - 1 : ofile[k + 1] = Line(m + k - 1)
        BY <1>0, <2>2, <2>3, <2>7, <3>2 DEF OneFaultInv
      <4>2. Len(ofile) >= 1 /\ ~Inserted
        BY <1>0, <2>1, <2>7, <3>2, <4>1
      <4>3. Prints(n) <=> n < m + maxPrints
        BY <1>0, <2>4, <2>7, <3>2
      <4>4. CASE n < m + maxPrints
        <5>1. ofile' = Append(ofile, Line(n))
          BY <2>1, <4>2, <4>3, <4>4
        <5>2. /\ Len(ofile') = Len(ofile) + 1
              /\ \A k \in 1 .. Len(ofile) : ofile'[k] = ofile[k]
              /\ ofile'[Len(ofile) + 1] = Line(n)
          BY <1>0, <2>5, <5>1, AppendProperties
        <5>3. Len(ofile) = n - m + 1
          <6>1. instCount < m + maxPrints
            BY <1>0, <2>7, <4>4
          <6>2. Len(ofile) - 1 = instCount - m + 1
            BY <4>1, <6>1
          <6>3. QED
            BY <1>0, <6>2
        <5>4. ASSUME NEW k \in 1 .. Len(ofile') - 1
              PROVE  ofile'[k + 1] = Line(m + k - 1)
          <6>1. CASE k \in 1 .. Len(ofile) - 1
            <7>1. k + 1 \in 1 .. Len(ofile)
              BY <1>0, <6>1
            <7>2. QED
              BY <4>1, <5>2, <6>1, <7>1
          <6>2. CASE k = Len(ofile)
            <7>1. m + k - 1 = n
              BY <1>0, <2>7, <5>3, <6>2
            <7>2. QED
              BY <5>2, <6>2, <7>1
          <6>3. QED
            BY <1>0, <5>2, <5>4, <6>1, <6>2
        <5>5. ofile'[1] = Header(m) /\ ofile' # << >>
          BY <1>0, <4>1, <4>2, <5>2, EmptySeq
        <5>6. QED
          BY <1>0, <2>7, <4>4, <5>2, <5>3, <5>4, <5>5
      <4>5. CASE ~(n < m + maxPrints)
        <5>1. ofile' = ofile
          BY <2>1, <4>2, <4>3, <4>5
        <5>2. Len(ofile) - 1 = maxPrints
          BY <1>0, <2>7, <4>1, <4>5
        <5>3. QED
          BY <4>1, <4>5, <5>1, <5>2
      <4>6. QED
        BY <4>4, <4>5
    <3>3. QED
      BY <1>0, <2>7, <3>1, <3>2
  <2>8. QED
    BY <2>6, <2>7
<1>4. CASE UNCHANGED traceVars
  BY <1>4 DEF traceVars, OneFaultInv
<1>5. QED
  BY <1>1, <1>2, <1>3, <1>4 DEF TraceNext

LEMMA OneFaultCompares ==
  ASSUME TraceTypeOK, OneFaultInv, HeadersMarkFaults
  PROVE  ComparesSameInstruction
<1> SUFFICES ASSUME ofile # << >>, Cardinality(marks) = 1, before = 0
             PROVE  /\ ofile[1].header
                    /\ \A k \in 1 .. Len(ofile) - 1 :
                         Compared[k][2] = Line(Compared[k][1])
  BY DEF ComparesSameInstruction
<1>1. /\ instCount \in Nat /\ before \in Nat /\ ofile \in Seq(Entry)
      /\ marks \subseteq 1 .. instCount + 1
      /\ start_tracing_flag = "golden" => marks = {}
  BY TracedAssumption DEF TraceTypeOK, Entry
<1>2. PICK m \in marks : marks = {m}
  <2>1. IsFiniteSet(marks)
    <3>1. IsFiniteSet(1 .. instCount + 1)
      BY <1>1, FS_Interval
    <3>2. QED
      BY <1>1, <3>1, FS_Subset
  <2>2. QED
    BY <2>1, FS_Singleton
<1>3. start_tracing_flag # "golden" /\ m \in Nat
  BY <1>1, <1>2
<1>4. m <= instCount
  BY <1>1, <1>2, <1>3 DEF OneFaultInv
<1>5. /\ ofile[1] = Header(m)
      /\ \A k \in 1 .. Len(ofile) - 1 : ofile[k + 1] = Line(m + k - 1)
  BY <1>2, <1>3, <1>4 DEF OneFaultInv
<1>6. ofile[1].header /\ ofile[1].at = m
  BY <1>5 DEF Header
<1>7. ASSUME NEW k \in 1 .. Len(ofile) - 1
      PROVE  Compared[k][2] = Line(Compared[k][1])
  <2>1. Compared[k] = <<m + k - 1, ofile[k + 1]>>
    BY <1>6 DEF Compared
  <2>2. QED
    BY <1>5, <2>1
<1>8. QED
  BY <1>6, <1>7

(* After one fault, tracediff compares lines of the same instruction.      *)
THEOREM ComparesSameInstructionCorrect == TraceSpec => []ComparesSameInstruction
<1>1. TraceTypeOK /\ WindowInv /\ [TraceNext]_traceVars => WindowInv'
  BY WindowStep
<1>2. TraceTypeOK /\ WindowInv /\ OneFaultInv /\ [TraceNext]_traceVars => OneFaultInv'
  BY OneFaultStep
<1>3. TraceTypeOK /\ OneFaultInv /\ HeadersMarkFaults => ComparesSameInstruction
  BY OneFaultCompares
<1>4. QED
  BY <1>1, <1>2, <1>3, WindowInit, OneFaultInit, TraceTypeCorrect,
     HeadersMarkFaultsCorrect, PTL DEF TraceSpec
=============================================================================
