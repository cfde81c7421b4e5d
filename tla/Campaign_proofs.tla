--------------------------- MODULE Campaign_proofs ---------------------------
(***************************************************************************)
(* Proofs about a run of a campaign, end to end, for every program, option *)
(* and location.  They rest on what is proved of each part: of the passes  *)
(* as operators (the inputs of Passes do not occur here), of the profiling *)
(* runtime, whose specification a campaign implements, and of the fault    *)
(* injection runtime, whose steps, but for the writing of its file, are    *)
(* those of the campaign.                                                  *)
(***************************************************************************)
EXTENDS Campaign, FaultInjectionLib_proofs, ProfilingLib_proofs, Passes_proofs

-----------------------------------------------------------------------------
(* The parts of a step. *)
LEMMA ProfilingPart == [CampaignNext]_campaignVars => [ProfNext]_profVars
<1> SUFFICES ASSUME [CampaignNext]_campaignVars PROVE [ProfNext]_profVars
  OBVIOUS
<1>1. ASSUME NEW i \in DOMAIN Code, Execute(i) PROVE [ProfNext]_profVars
  <2>1. i \in Opcode
    BY CompiledAssumption
  <2>2. QED
    BY <1>1, <2>1 DEF Execute, ProfNext
<1>2. CASE Layers \/ ProfileEnds \/ ProfileDies
  BY <1>2 DEF Layers, ProfileEnds, ProfileDies, ProfNext
<1>3. CASE PlanRun \/ FIRun
  BY <1>3 DEF PlanRun, FIRun, FIStep, Repeat
<1>4. CASE Over \/ UNCHANGED campaignVars
  BY <1>4 DEF Over, campaignVars
<1>5. QED
  BY <1>1, <1>2, <1>3, <1>4 DEF CampaignNext

LEMMA InjectionPart == [CampaignNext]_campaignVars => [Next]_vars \/ PlanRun
<1> SUFFICES ASSUME [CampaignNext]_campaignVars PROVE [Next]_vars \/ PlanRun
  OBVIOUS
<1>1. ASSUME NEW i \in DOMAIN Code, Execute(i) PROVE [Next]_vars
  BY <1>1 DEF Execute
<1>2. CASE Layers \/ ProfileEnds \/ ProfileDies
  BY <1>2 DEF Layers, ProfileEnds, ProfileDies
<1>3. CASE FIRun
  <2>1. ASSUME NEW k \in at + 1 .. Len(path), path[k] \in Inst, BeginInst(path[k])
        PROVE  Next
    BY <2>1 DEF Next
  <2>2. CASE Repeat
    BY <2>1, <2>2 DEF Repeat
  <2>3. CASE \E i \in Inst : FIStep(BeginInst(i))
    BY <2>3 DEF FIStep, Next
  <2>4. QED
    BY <1>3, <2>2, <2>3 DEF FIRun, FIStep, Exits, Next, Runtime
<1>4. CASE Over \/ UNCHANGED campaignVars
  BY <1>4 DEF Over, campaignVars
<1>5. QED
  BY <1>1, <1>2, <1>3, <1>4 DEF CampaignNext

(* A campaign profiles as the profiling runtime does: what is proved of    *)
(* ProfSpec holds of the profile that is used.                             *)
THEOREM CampaignProfiles == CampaignSpec => ProfSpec
<1>1. CampaignInit => ProfInit
  BY DEF CampaignInit
<1>2. QED
  BY <1>1, ProfilingPart, PTL DEF CampaignSpec, ProfSpec

-----------------------------------------------------------------------------
(* What is kept of a sequence, element by element. *)
LEMMA KeptForm ==
  ASSUME NEW E, NEW s, NEW set, s \in Seq(E)
  PROVE  /\ KeptBy(s, set)[0] = << >>
         /\ \A k \in 1 .. Len(s) : s[k] \in set =>
              KeptBy(s, set)[k] = Append(KeptBy(s, set)[k - 1], s[k])
<1> DEFINE a == KeptBy(s, set)
<1>1. /\ a[0] = << >>
      /\ \A k \in 1 .. Len(s) :
           a[k] = IF s[k] \in set THEN Append(a[k - 1], s[k]) ELSE a[k - 1]
  BY KeptEquation
<1> HIDE DEF a
<1>2. a[0] = << >> /\ \A k \in 1 .. Len(s) : s[k] \in set => a[k] = Append(a[k - 1], s[k])
  BY <1>1
<1>3. QED
  BY <1>2 DEF a

(* What is kept of a sequence up to one place is a prefix of what is kept  *)
(* up to a later one, and the same if nothing between them is kept.        *)
LEMMA KeptPrefix ==
  ASSUME NEW E, NEW s \in Seq(E), NEW set, NEW j \in 0 .. Len(s), NEW k \in j .. Len(s)
  PROVE  IsPrefix(KeptBy(s, set)[j], KeptBy(s, set)[k])
<1> DEFINE a == KeptBy(s, set)
<1>1. /\ \A n \in 1 .. Len(s) :
            a[n] = IF s[n] \in set THEN Append(a[n - 1], s[n]) ELSE a[n - 1]
      /\ \A n \in 0 .. Len(s) : a[n] \in Seq(E)
  BY KeptEquation
<1>2. Len(s) \in Nat /\ j \in 0 .. Len(s) /\ j \in Nat
  OBVIOUS
<1>3. \A n \in 1 .. Len(s) : s[n] \in E
  OBVIOUS
<1> HIDE DEF a
<1>4. ASSUME NEW t \in Seq(E), NEW u \in Seq(E), NEW e \in E, IsPrefix(t, u)
      PROVE  IsPrefix(t, Append(u, e))
  <2>1. Len(t) \in Nat /\ Len(u) \in Nat /\ Len(t) <= Len(u)
        /\ SubSeq(t, 1, Len(t)) = SubSeq(u, 1, Len(t))
    BY <1>4 DEF IsPrefix
  <2>2. Len(Append(u, e)) = Len(u) + 1
    OBVIOUS
  <2>3. SubSeq(Append(u, e), 1, Len(t)) = SubSeq(u, 1, Len(t))
    BY <2>1, <2>2
  <2>4. QED
    BY <2>1, <2>2, <2>3 DEF IsPrefix
<1>5. \A n \in j .. Len(s) : IsPrefix(a[j], a[n])
  <2> SUFFICES ASSUME ~\A n \in j .. Len(s) : IsPrefix(a[j], a[n]) PROVE FALSE
    OBVIOUS
  <2> DEFINE Bad == {n \in j .. Len(s) : ~IsPrefix(a[j], a[n])}
  <2>1. PICK n \in Bad : \A m \in Bad : n <= m
    <3>1. Bad \subseteq Nat /\ Bad # {}
      BY <1>2
    <3> HIDE DEF Bad
    <3>2. QED
      BY <3>1, Least
  <2>2. n # j
    <3>1. a[j] \in Seq(E) /\ Len(a[j]) \in Nat
      BY <1>1, <1>2
    <3>2. IsPrefix(a[j], a[j])
      BY <3>1 DEF IsPrefix
    <3>3. QED
      BY <2>1, <3>2
  <2>3. n \in 1 .. Len(s) /\ n - 1 \in j .. Len(s) /\ n - 1 \in 0 .. Len(s) /\ ~(n <= n - 1)
    BY <1>2, <2>1, <2>2
  <2>4. IsPrefix(a[j], a[n - 1])
    BY <2>1, <2>3
  <2>5. IsPrefix(a[j], a[n])
    <3>1. a[j] \in Seq(E) /\ a[n - 1] \in Seq(E) /\ s[n] \in E
      BY <1>1, <1>2, <1>3, <2>3
    <3>2. IsPrefix(a[j], Append(a[n - 1], s[n]))
      BY <1>4, <2>4, <3>1
    <3>3. QED
      BY <1>1, <2>3, <2>4, <3>2
  <2>6. QED
    BY <2>1, <2>5
<1>6. QED
  BY <1>5 DEF a

LEMMA KeptSkips ==
  ASSUME NEW E, NEW s \in Seq(E), NEW set, NEW j \in 0 .. Len(s), NEW k \in j .. Len(s),
         \A n \in j + 1 .. k : s[n] \notin set
  PROVE  KeptBy(s, set)[k] = KeptBy(s, set)[j]
<1> DEFINE a == KeptBy(s, set)
<1>1. \A n \in 1 .. Len(s) :
        a[n] = IF s[n] \in set THEN Append(a[n - 1], s[n]) ELSE a[n - 1]
  BY KeptEquation
<1>2. Len(s) \in Nat /\ j \in Nat /\ k \in Nat /\ k <= Len(s)
  OBVIOUS
<1> HIDE DEF a
<1>3. \A n \in j .. k : a[n] = a[j]
  <2> SUFFICES ASSUME ~\A n \in j .. k : a[n] = a[j] PROVE FALSE
    OBVIOUS
  <2> DEFINE Bad == {n \in j .. k : a[n] # a[j]}
  <2>1. PICK n \in Bad : \A m \in Bad : n <= m
    <3>1. Bad \subseteq Nat /\ Bad # {}
      BY <1>2
    <3> HIDE DEF Bad
    <3>2. QED
      BY <3>1, Least
  <2>2. n \in j + 1 .. k /\ n \in 1 .. Len(s) /\ n - 1 \in j .. k /\ ~(n <= n - 1)
    BY <1>2, <2>1
  <2>3. a[n - 1] = a[j] /\ a[n] = a[n - 1]
    BY <1>1, <2>1, <2>2
  <2>4. QED
    BY <2>1, <2>3
<1>4. QED
  BY <1>3 DEF a

-----------------------------------------------------------------------------
(* What the driver writes, for a profile there is.                         *)
From(first, total) == [Defaulted(Option, total) EXCEPT !.fi_cycle = first]

LEMMA FileSource ==
  ASSUME NEW total, NEW f \in ConfigFiles(Option, total)
  PROVE  \E first \in FirstCycles(Option, total) :
           /\ f.ok = TRUE /\ f.fi_cycle = first /\ f.fi_reg_index = Option.fi_reg_index
           /\ f.fi_second_cycle \in SecondCycles(From(first, total), first, total)
           /\ f.fi_next_cycles \in NextCycles(From(first, total), first, total)
<1>1. PICK first \in FirstCycles(Option, total) :
        f \in RunFiles(From(first, total), total)
  BY DEF ConfigFiles, From
<1> DEFINE d == From(first, total)
<1>2. d.fi_cycle = first /\ d.fi_reg_index = Option.fi_reg_index
  BY OptionAssumption DEF From, Defaulted, Keys
<1> HIDE DEF d
<1>3. /\ f.ok = TRUE /\ f.fi_cycle = first /\ f.fi_reg_index = Option.fi_reg_index
      /\ f.fi_second_cycle \in SecondCycles(d, first, total)
      /\ f.fi_next_cycles \in NextCycles(d, first, total)
  BY <1>1, <1>2 DEF RunFiles, d
<1>4. QED
  BY <1>3 DEF d

LEMMA FileForm ==
  ASSUME NEW total \in Nat, Accepted(Option, total), NEW f \in ConfigFiles(Option, total)
  PROVE  /\ f.ok /\ f.fi_reg_index = Option.fi_reg_index
         /\ f.fi_cycle = Absent \/ f.fi_cycle \in 1 .. total
<1>1. PICK first \in FirstCycles(Option, total) :
        /\ f.ok = TRUE /\ f.fi_reg_index = Option.fi_reg_index /\ f.fi_cycle = first
  BY FileSource
<1>2. first = Absent \/ first \in 1 .. total
  BY DEF FirstCycles, Accepted, Refused, OutOfRange, Given, NoValue
<1>3. QED
  BY <1>1, <1>2

(* A file without a cycle plans nothing further: what the proofs about the *)
(* runtime assume of its file (IndexAlone), the driver establishes.        *)
THEOREM WrittenIndexAlone ==
  ASSUME NEW total \in Nat, ~Fails(Option, total), NEW f \in ConfigFiles(Option, total),
         f.fi_cycle = Absent
  PROVE  f.fi_second_cycle = Absent /\ f.fi_next_cycles = << >>
<1>1. PICK first \in FirstCycles(Option, total) :
        /\ f.fi_cycle = first
        /\ f.fi_second_cycle \in SecondCycles(From(first, total), first, total)
        /\ f.fi_next_cycles \in NextCycles(From(first, total), first, total)
  BY FileSource
<1>2. ~Given(Option, "fi_cycle") /\ Given(Option, "fi_index")
  <2>1. first = Absent /\ first \notin 1 .. total
    BY <1>1 DEF Absent
  <2>2. QED
    BY <1>1, <2>1 DEF FirstCycles, Given, NoValue
<1> DEFINE read == Defaulted(Option, total)
           d == From(first, total)
<1>3. ~Given(read, "fi_cycle") /\ Given(read, "fi_index")
  BY <1>2, OptionAssumption DEF Defaulted, Given, NoValue, Keys
<1> HIDE DEF read
<1>4. ~Given(read, "window_len") /\ ~Given(read, "fi_max_multiple")
  BY <1>3 DEF Fails, CannotWrite, read
<1>5. /\ d.window_len = read.window_len
      /\ d.fi_max_multiple = read.fi_max_multiple
  BY OptionAssumption DEF read, From, Defaulted, Keys
<1> HIDE DEF d
<1>6. ~Given(d, "window_len") /\ ~Given(d, "fi_max_multiple")
  BY <1>4, <1>5 DEF Given, NoValue
<1>7. QED
  BY <1>1, <1>6 DEF SecondCycles, NextCycles, d

LEMMA Planned ==
  ASSUME ProfTypeOK, TotalInv, PlanRun
  PROVE  /\ cfgFile' \in ConfigFile /\ cfgFile'.ok
         /\ cfgFile'.fi_reg_index = Option.fi_reg_index
         /\ cfgFile'.fi_cycle = Absent \/ cfgFile'.fi_cycle \in 1 .. globalCycle
<1>1. Total = globalCycle /\ globalCycle \in 0 .. MaxCalls /\ MaxCalls \in Nat
  BY ProfBoundAssumption DEF PlanRun, TotalInv, TotalCountsCycles, Total, ProfTypeOK
<1>2. /\ Accepted(Option, globalCycle) /\ ~Fails(Option, globalCycle)
      /\ cfgFile' \in ConfigFiles(Option, globalCycle)
  BY <1>1 DEF PlanRun
<1>3. QED
  BY <1>1, <1>2, FileForm, WrittenAssumption

(* The types of the fault injection runtime, whose file may be written.    *)
LEMMA CampaignTypes == CampaignSpec => [](TypeOK /\ ProfTypeOK /\ CountsBounded /\ TotalInv)
<1>1. CampaignInit => TypeOK
  BY InitType DEF CampaignInit
<1>2. ASSUME TypeOK, ProfTypeOK, TotalInv, PlanRun PROVE TypeOK'
  BY <1>2, Planned DEF PlanRun, TypeOK, libVars, loopVars, fileVars, progVars
<1>3. ASSUME TypeOK, ProfTypeOK, TotalInv, [CampaignNext]_campaignVars PROVE TypeOK'
  BY <1>2, <1>3, InjectionPart, NextType
<1>4. QED
  BY <1>1, <1>3, CampaignProfiles, TotalInvariant, PTL DEF CampaignSpec

-----------------------------------------------------------------------------
(* The profile and the path. *)
LEMMA PathInit == CampaignInit => PathInv
<1> SUFFICES ASSUME CampaignInit PROVE PathInv
  OBVIOUS
<1>1. path = << >> /\ Len(path) = 0
  BY DEF CampaignInit
<1>2. path \in Seq(DOMAIN Code)
  BY <1>1
<1>3. ProfiledPath = << >>
  <2> DEFINE P == {i \in DOMAIN Code : Profiled(Code[i], Location)}
  <2>1. ProfiledPath = KeptBy(path, P)[0]
    BY <1>1 DEF ProfiledPath, Kept
  <2> HIDE DEF P
  <2>2. KeptBy(path, P)[0] = << >>
    BY <1>2, KeptForm
  <2>3. QED
    BY <2>1, <2>2
<1>4. QED
  BY <1>1, <1>2, <1>3 DEF CampaignInit, ProfInit, PathInv

LEMMA PathStep ==
  ASSUME ProfTypeOK, TotalInv, PathInv, [CampaignNext]_campaignVars
  PROVE  PathInv'
<1>0. /\ path \in Seq(DOMAIN Code) /\ Len(path) \in Nat
      /\ globalCycle \in Nat /\ opcodecount \in [Opcode -> 0 .. MaxCalls] /\ MaxCalls \in Nat
      /\ \A k \in 1 .. Len(path) : path[k] \in DOMAIN Code
      /\ Opcode = DOMAIN Code
  BY ProfBoundAssumption, CompiledAssumption DEF PathInv, ProfTypeOK
<1>1. ASSUME NEW i \in DOMAIN Code, Execute(i) PROVE PathInv'
  <2>1. /\ path' = Append(path, i) /\ profPhase = "run" /\ profile = << >>
        /\ path' \in Seq(DOMAIN Code) /\ Len(path') = Len(path) + 1
        /\ path'[Len(path) + 1] = i /\ \A k \in 1 .. Len(path) : path'[k] = path[k]
    BY <1>0, <1>1 DEF Execute, TotalInv
  <2>2. /\ ProfiledPath \in Seq(DOMAIN Code)
        /\ ProfiledPath' = IF Profiled(Code[i], Location) THEN Append(ProfiledPath, i)
                           ELSE ProfiledPath
    BY <1>0, <2>1, KeptAppend DEF ProfiledPath
  <2>3. CASE Profiled(Code[i], Location)
    <3>1. doProfiling(i)
      BY <1>1, <2>3 DEF Execute
    <3>2. Len(ProfiledPath') = Len(ProfiledPath) + 1
      BY <2>2, <2>3
    <3>3. /\ globalCycle' = globalCycle + 1 /\ profile' = << >>
          /\ opcodecount'[i] = opcodecount[i] + 1
          /\ \A o \in Opcode : opcodecount'[o] >= opcodecount[o]
      BY <1>0, <2>1, <3>1 DEF doProfiling
    <3>4. ASSUME NEW k \in 1 .. Len(path'), Profiled(Code[path'[k]], Location)
          PROVE  opcodecount'[path'[k]] > 0
      <4>1. CASE k = Len(path) + 1
        BY <1>0, <2>1, <3>3, <4>1
      <4>2. CASE k \in 1 .. Len(path)
        <5>1. path'[k] \in Opcode /\ opcodecount[path'[k]] > 0
          BY <1>0, <2>1, <3>4, <4>2 DEF PathInv
        <5>2. opcodecount'[path'[k]] >= opcodecount[path'[k]]
          BY <3>3, <5>1
        <5>3. opcodecount'[path'[k]] \in Int /\ opcodecount[path'[k]] \in Int
          BY <1>0, <3>1, <5>1 DEF doProfiling
        <5>4. QED
          BY <5>1, <5>2, <5>3
      <4>3. QED
        BY <1>0, <2>1, <4>1, <4>2
    <3>5. QED
      BY <2>1, <3>2, <3>3, <3>4 DEF PathInv
  <2>4. CASE ~Profiled(Code[i], Location)
    <3>1. UNCHANGED profVars
      BY <1>1, <2>4 DEF Execute
    <3>2. ASSUME NEW k \in 1 .. Len(path'), Profiled(Code[path'[k]], Location)
          PROVE  opcodecount'[path'[k]] > 0
      <4>1. k \in 1 .. Len(path) /\ path'[k] = path[k]
        BY <1>0, <2>1, <2>4, <3>2
      <4>2. QED
        BY <3>1, <3>2, <4>1 DEF PathInv, profVars
    <3>3. QED
      BY <2>1, <2>2, <2>4, <3>1, <3>2 DEF PathInv, profVars
  <2>5. QED
    BY <2>3, <2>4
<1>2. CASE Layers \/ ProfileDies
  BY <1>2 DEF Layers, ProfileDies, LayerStarts, LayerEnds, ProfKill, PathInv, TotalInv,
              ProfiledPath
<1>3. CASE ProfileEnds
  BY <1>3 DEF ProfileEnds, endProfiling, PathInv, ProfiledPath
<1>4. CASE UNCHANGED <<profVars, path>>
  BY <1>4 DEF profVars, PathInv, ProfiledPath
<1>5. CASE PlanRun \/ FIRun \/ Over \/ UNCHANGED campaignVars
  <2>1. UNCHANGED <<profVars, path>>
    BY <1>5 DEF PlanRun, FIRun, FIStep, Repeat, Over, campaignVars
  <2>2. QED
    BY <1>4, <2>1
<1>6. QED
  BY <1>1, <1>2, <1>3, <1>5 DEF CampaignNext

-----------------------------------------------------------------------------
(* What is instrumented is profiled, and the converse without intrinsics.  *)
LEMMA InstProfiled ==
  /\ Inst \subseteq DOMAIN Code
  /\ \A i \in Inst : Profiled(Code[i], Location)
  /\ NoIntrinsicTargets => Inst = {i \in DOMAIN Code : Profiled(Code[i], Location)}
<1>1. ASSUME NEW i \in DOMAIN Code
      PROVE  CallsAround(Code[i], Location) # << >> <=> Instrumented(Code[i], Location)
  <2>1. Code[i].nsrc \in Nat /\ (Code[i].self # {} => Code[i].kind = "phi")
    BY CodeAssumption
  <2>2. /\ ~Instrumented(Code[i], Location) => CallsAround(Code[i], Location) = << >>
        /\ Instrumented(Code[i], Location) =>
             /\ Len(RegList(Code[i], Location)) > 0
             /\ Len(CallsAround(Code[i], Location)) = Len(RegList(Code[i], Location))
    BY <2>1, CallsForm
  <2>3. Len(<< >>) = 0
    BY EmptySeq
  <2>4. QED
    BY <2>2, <2>3
<1>2. Inst = {i \in DOMAIN Code : Instrumented(Code[i], Location)}
  BY <1>1, CompiledAssumption
<1>3. \A i \in DOMAIN Code : ~EndsCompiler(Code[i], Location)
  BY CodeAssumption
<1>4. QED
  BY <1>2, <1>3 DEF Instrumented, Profiled, NoIntrinsicTargets

(* Every instruction on the path of a profile counts. *)
LEMMA PathCounted ==
  ASSUME PathInv, RepeatInv, cfgFile.ok, NEW k \in 1 .. Len(path), path[k] \in Inst
  PROVE  Counted(path[k])
<1>1. Profiled(Code[path[k]], Location) /\ path[k] \in Opcode
  BY InstProfiled, CompiledAssumption
<1>2. Weight[path[k]] >= 0
  BY <1>1 DEF PathInv, RepeatInv
<1>3. QED
  BY <1>2, CompiledAssumption DEF Counted, RepeatInv

LEMMA CountingEquation ==
  ASSUME PathInv
  PROVE  /\ Counting[0] = << >> /\ Len(path) \in Nat
         /\ \A k \in 1 .. Len(path) : path[k] \in Inst =>
              Counting[k] = Append(Counting[k - 1], path[k])
         /\ \A j \in 0 .. Len(path), k \in 0 .. Len(path) :
              j <= k /\ (\A n \in j + 1 .. k : path[n] \notin Inst) => Counting[k] = Counting[j]
         /\ \A j \in 0 .. Len(path) : IsPrefix(Counting[j], Counting[Len(path)])
<1>1. path \in Seq(DOMAIN Code) /\ Len(path) \in Nat
  BY DEF PathInv
<1>2. /\ Counting[0] = << >>
      /\ \A k \in 1 .. Len(path) : path[k] \in Inst =>
           Counting[k] = Append(Counting[k - 1], path[k])
  BY <1>1, KeptForm DEF Counting
<1>3. ASSUME NEW j \in 0 .. Len(path), NEW k \in 0 .. Len(path), j <= k,
             \A n \in j + 1 .. k : path[n] \notin Inst
      PROVE  Counting[k] = Counting[j]
  <2>1. k \in j .. Len(path)
    BY <1>1, <1>3
  <2>2. QED
    BY <1>1, <1>3, <2>1, KeptSkips DEF Counting
<1>4. ASSUME NEW j \in 0 .. Len(path) PROVE IsPrefix(Counting[j], Counting[Len(path)])
  <2>1. Len(path) \in j .. Len(path)
    BY <1>1
  <2>2. QED
    BY <1>1, <2>1, KeptPrefix DEF Counting
<1>5. QED
  BY <1>1, <1>2, <1>3, <1>4

LEMMA RepeatInit == CampaignInit => RepeatInv
<1> SUFFICES ASSUME CampaignInit PROVE RepeatInv
  OBVIOUS
<1>1. path = << >> /\ Len(path) = 0 /\ at = 0
  BY DEF CampaignInit
<1>2. Counting[0] = << >>
  <2>1. path \in Seq(DOMAIN Code)
    BY <1>1
  <2>2. QED
    BY <2>1, KeptForm DEF Counting
<1>3. at \in 0 .. Len(path) /\ \E k \in 0 .. at : trace = Counting[k]
  BY <1>1, <1>2 DEF CampaignInit, Init
<1>4. QED
  BY <1>1, <1>2, <1>3 DEF CampaignInit, Init, RepeatInv

(* After the fault the execution may go anywhere. *)
LEMMA RepeatStruck ==
  ASSUME RepeatInv, cfgFile.ok, hits' # << >>, phase' # "boot",
         UNCHANGED <<cfgFile, fiFlag, path, at, profile>>
  PROVE  RepeatInv'
BY DEF RepeatInv

(* A step that counts nothing and stays in place. *)
LEMMA RepeatPaused ==
  ASSUME RepeatInv, phase' \in {"exited", "aborted", "killed"},
         cfgFile.ok \/ phase' = "killed",
         UNCHANGED <<cfgFile, fiFlag, path, at, profile, trace, hits>>
  PROVE  RepeatInv'
BY DEF RepeatInv, Counting

(* A call that selects nothing returns.                                    *)
LEMMA RepeatReturn ==
  ASSUME TypeOK, PathInv, RepeatInv, phase = "call", CallReturns, hits = << >>,
         UNCHANGED <<cfgFile, fiFlag, path, at, profile, hits>>
  PROVE  RepeatInv'
<1>1. /\ at > 0 /\ cur = path[at] /\ trace = Counting[at - 1] /\ cfgFile.ok
      /\ at \in 1 .. Len(path) /\ cur \in Inst
  BY DEF RepeatInv, TypeOK
<1>2. Counted(cur) /\ Counting[at] = Append(trace, cur)
  BY <1>1, PathCounted, CountingEquation
<1>3. at - 1 \in 0 .. at /\ at \in 0 .. at
  BY <1>1
<1>4. Counting' = Counting
  BY DEF Counting
<1>5. CASE call < Len(RegCalls[cur])
  <2>1. phase' = "call" /\ cur' = cur /\ trace' = trace
    BY <1>5 DEF CallReturns
  <2>2. QED
    BY <1>1, <1>3, <1>4, <2>1 DEF RepeatInv
<1>6. CASE ~(call < Len(RegCalls[cur]))
  <2>1. phase' = "run" /\ trace' = Counting[at]
    BY <1>2, <1>6 DEF CallReturns
  <2>2. QED
    BY <1>1, <1>3, <1>4, <2>1 DEF RepeatInv
<1>7. QED
  BY <1>5, <1>6

LEMMA RepeatStep ==
  ASSUME TypeOK, TotalInv, PathInv, RepeatInv, [CampaignNext]_campaignVars
  PROVE  RepeatInv'
<1>0. phase \in Phase /\ Len(path) \in Nat /\ path \in Seq(DOMAIN Code)
  BY DEF TypeOK, PathInv
<1>1. ASSUME NEW i \in DOMAIN Code, Execute(i) PROVE RepeatInv'
  <2>1. /\ profile = << >> /\ profile' = << >> /\ UNCHANGED <<vars, at>>
        /\ path' = Append(path, i)
    BY <1>1 DEF Execute, TotalInv, doProfiling, profVars
  <2>2. /\ ~cfgFile.ok /\ at = 0 /\ trace = << >> /\ phase \in {"boot", "killed"}
    BY <2>1 DEF RepeatInv
  <2>3. path' \in Seq(DOMAIN Code) /\ Len(path') \in Nat
    BY <1>0, <2>1
  <2>4. Counting'[0] = << >>
    BY <2>3, KeptForm DEF Counting
  <2>5. at' \in 0 .. Len(path') /\ \E k \in 0 .. at' : trace' = Counting'[k]
    BY <2>1, <2>2, <2>3, <2>4 DEF vars, progVars
  <2>6. QED
    BY <2>1, <2>2, <2>5 DEF RepeatInv, vars, libVars, progVars
<1>2. CASE Layers \/ ProfileEnds \/ ProfileDies
  <2>1. profile = << >> /\ UNCHANGED <<vars, path, at>>
    BY <1>2 DEF Layers, ProfileEnds, ProfileDies, LayerStarts, LayerEnds, endProfiling, ProfKill,
                TotalInv
  <2>2. ~cfgFile.ok
    BY <2>1 DEF RepeatInv
  <2>3. QED
    BY <2>1, <2>2 DEF RepeatInv, Counting, vars, libVars, progVars
<1>3. CASE PlanRun
  BY <1>3 DEF PlanRun, RepeatInv, Counting, profVars, libVars, progVars
<1>4. CASE cfgFile.ok /\ FIStep(InitInjections)
  <2>1. /\ phase = "boot" /\ phase' = "run" /\ UNCHANGED <<cfgFile, fiFlag, trace, hits>>
        /\ UNCHANGED <<path, at, profile>>
    BY <1>4 DEF FIStep, InitInjections, profVars
  <2>2. at = 0 /\ trace = Counting[0]
    BY <2>1, CountingEquation DEF RepeatInv
  <2>3. QED
    BY <1>4, <2>1, <2>2 DEF RepeatInv, Counting
<1>5. CASE Repeat
  <2>1. PICK k \in at + 1 .. Len(path) :
          /\ hits = << >> /\ path[k] \in Inst
          /\ \A j \in at + 1 .. k - 1 : path[j] \notin Inst
          /\ BeginInst(path[k]) /\ at' = k /\ UNCHANGED <<profVars, path>>
    BY <1>5 DEF Repeat
  <2>2. /\ phase = "run" /\ phase' = "call" /\ cur' = path[k]
        /\ UNCHANGED <<cfgFile, fiFlag, trace, hits>>
    BY <2>1 DEF BeginInst, libVars
  <2>3. at \in 0 .. Len(path) /\ k - 1 \in 0 .. Len(path) /\ at <= k - 1 /\ k \in 1 .. Len(path)
    BY <1>0, <2>1 DEF RepeatInv
  <2>4. trace = Counting[k - 1]
    BY <2>1, <2>2, <2>3, CountingEquation DEF RepeatInv
  <2>5. UNCHANGED <<path, profile>> /\ Counting' = Counting /\ k - 1 \in 0 .. at'
    BY <2>1, <2>3 DEF Counting, profVars
  <2>6. QED
    BY <2>1, <2>2, <2>3, <2>4, <2>5 DEF RepeatInv
<1>6. ASSUME NEW i \in Inst, hits # << >>, FIStep(BeginInst(i)) PROVE RepeatInv'
  <2>1. phase = "run" /\ UNCHANGED <<cfgFile, fiFlag, path, at, profile, hits>> /\ phase' = "call"
    BY <1>6 DEF FIStep, BeginInst, libVars, profVars
  <2>2. QED
    BY <1>6, <2>1, RepeatStruck DEF RepeatInv
<1>7. CASE FIStep(PreFuncSelects)
  <2>1. /\ phase = "call" /\ phase' = "inject" /\ UNCHANGED <<cfgFile, fiFlag, path, at, profile>>
        /\ hits' = Append(hits, [at |-> Len(trace) + 1, index |-> cur, reg |-> MyRegIndex])
    BY <1>7 DEF FIStep, PreFuncSelects, profVars
  <2>2. hits \in Seq(HitRecord) /\ Len(hits') = Len(hits) + 1 /\ Len(hits) \in Nat
    BY <2>1 DEF TypeOK
  <2>3. hits' # << >>
    BY <2>2
  <2>4. QED
    BY <2>1, <2>3, RepeatStruck DEF RepeatInv
<1>8. CASE FIStep(PreFuncSkips) \/ FIStep(PreFuncDeclines)
  <2>1. /\ phase = "call" /\ CallReturns
        /\ UNCHANGED <<cfgFile, fiFlag, path, at, profile, hits>>
    BY <1>8 DEF FIStep, PreFuncSkips, PreFuncDeclines, libVars, profVars
  <2>2. cfgFile.ok /\ phase' # "boot"
    BY <2>1 DEF RepeatInv, CallReturns
  <2>3. QED
    BY <2>1, <2>2, RepeatReturn, RepeatStruck
<1>9. CASE FIStep(InjectFunc)
  <2>1. /\ phase \in {"inject", "flush", "corrupt"}
        /\ UNCHANGED <<cfgFile, fiFlag, path, at, profile, hits>> /\ phase' # "boot"
    BY <1>9 DEF FIStep, InjectFunc, BitTooLarge, PrintRecord, FlushRecord, Corrupt,
                InjectReturns, CallReturns, libVars, profVars
  <2>2. cfgFile.ok /\ hits # << >>
    BY <2>1 DEF RepeatInv, TypeOK
  <2>3. QED
    BY <2>1, <2>2, RepeatStruck
<1>10. CASE FIStep(Exits)
  <2>1. /\ phase = "run" /\ phase' = "exited"
        /\ UNCHANGED <<cfgFile, fiFlag, path, at, profile, trace, hits>>
    BY <1>10 DEF FIStep, Exits, PostInjections, libVars, profVars
  <2>2. QED
    BY <2>1, RepeatPaused DEF RepeatInv
<1>11. CASE FIStep(Kill)
  <2>1. phase' = "killed" /\ UNCHANGED <<cfgFile, fiFlag, path, at, profile, trace, hits>>
    BY <1>11 DEF FIStep, Kill, libVars, profVars
  <2>2. QED
    BY <2>1, RepeatPaused
<1>12. CASE Over \/ UNCHANGED campaignVars
  <2>1. UNCHANGED campaignVars
    BY <1>12 DEF Over
  <2>2. QED
    BY <2>1 DEF campaignVars, RepeatInv, Counting, vars, libVars, progVars, profVars
<1>13. QED
  BY <1>1, <1>2, <1>3, <1>4, <1>5, <1>6, <1>7, <1>8, <1>9, <1>10, <1>11, <1>12
     DEF CampaignNext, FIRun, PreFunc, FIStep

LEMMA CampaignRepeats ==
  CampaignSpec => [](TypeOK /\ ProfTypeOK /\ TotalInv /\ PathInv /\ RepeatInv)
<1>1. CampaignInit => PathInv /\ RepeatInv
  BY PathInit, RepeatInit
<1>2. TypeOK /\ ProfTypeOK /\ TotalInv /\ PathInv /\ RepeatInv /\ [CampaignNext]_campaignVars
        => (PathInv /\ RepeatInv)'
  BY PathStep, RepeatStep
<1>3. QED
  BY <1>1, <1>2, CampaignTypes, PTL DEF CampaignSpec

(* The cycles of a run are those of the profile, one by one, until the     *)
(* fault: for every program without intrinsics among the targets, every    *)
(* option and every location, allreg included.                             *)
THEOREM SameCyclesCorrect ==
  ASSUME NoIntrinsicTargets
  PROVE  CampaignSpec => []SameCycles
<1>1. ASSUME PathInv, RepeatInv PROVE SameCycles
  <2>1. SUFFICES ASSUME hits = << >> PROVE IsPrefix(trace, ProfiledPath)
    BY DEF SameCycles
  <2>2. ProfiledPath = Counting[Len(path)]
    BY InstProfiled DEF ProfiledPath, Counting, Kept
  <2>3. PICK k \in 0 .. Len(path) : trace = Counting[k]
    <3>1. PICK k \in 0 .. at : trace = Counting[k]
      BY <2>1, <1>1 DEF RepeatInv
    <3>2. k \in 0 .. Len(path)
      BY <1>1 DEF RepeatInv, PathInv
    <3>3. QED
      BY <3>1, <3>2
  <2>4. QED
    BY <1>1, <2>2, <2>3, CountingEquation
<1>2. QED
  BY <1>1, CampaignRepeats, PTL

(* The instruction that the first fault strikes is the one that was        *)
(* profiled at that cycle, under the same hypothesis.                      *)
LEMMA StruckProfiled ==
  ASSUME NoIntrinsicTargets, TypeOK, PathInv, RepeatInv, hits = << >>, PreFuncSelects, path' = path
  PROVE  FaultWhereProfiled'
<1>1. /\ phase = "call" /\ cur \in Inst /\ trace \in Seq(Inst)
      /\ hits' = Append(hits, [at |-> Len(trace) + 1, index |-> cur, reg |-> MyRegIndex])
  BY DEF PreFuncSelects, TypeOK
<1>2. hits'[1].at = Len(trace) + 1 /\ hits'[1].index = cur
  BY <1>1
<1>3. at \in 1 .. Len(path) /\ cur = path[at] /\ trace = Counting[at - 1]
  BY <1>1 DEF RepeatInv
<1>4. /\ Len(path) \in Nat /\ Counting[at] = Append(trace, cur)
      /\ IsPrefix(Counting[at], Counting[Len(path)])
  BY <1>1, <1>3, CountingEquation
<1>5. ProfiledPath = Counting[Len(path)] /\ ProfiledPath' = ProfiledPath
  BY InstProfiled DEF ProfiledPath, Counting, Kept
<1>6. ProfiledPath \in Seq(DOMAIN Code)
  <2>1. path \in Seq(DOMAIN Code)
    BY DEF PathInv
  <2>2. QED
    BY <2>1, KeptEquation DEF ProfiledPath, Kept
<1>7. PICK n \in Nat : n = Len(trace) + 1
  BY <1>1
<1>8. /\ n <= Len(ProfiledPath) /\ n \in 1 .. n
      /\ SubSeq(Append(trace, cur), 1, n) = SubSeq(ProfiledPath, 1, n)
  BY <1>1, <1>4, <1>5, <1>7 DEF IsPrefix
<1>9. /\ SubSeq(Append(trace, cur), 1, n)[n] = cur
      /\ SubSeq(ProfiledPath, 1, n)[n] = ProfiledPath[n]
  BY <1>1, <1>6, <1>7, <1>8
<1>10. n \in DOMAIN ProfiledPath /\ ProfiledPath[n] = cur
  BY <1>6, <1>7, <1>8, <1>9
<1>11. QED
  BY <1>2, <1>5, <1>7, <1>10 DEF FaultWhereProfiled

LEMMA WhereStep ==
  ASSUME NoIntrinsicTargets, TypeOK, TotalInv, PathInv, RepeatInv, FaultWhereProfiled,
         [CampaignNext]_campaignVars
  PROVE  FaultWhereProfiled'
<1>1. ASSUME UNCHANGED hits, hits # << >> => path' = path PROVE FaultWhereProfiled'
  BY <1>1 DEF FaultWhereProfiled, ProfiledPath
<1>2. ASSUME NEW i \in DOMAIN Code, Execute(i) PROVE FaultWhereProfiled'
  <2>1. hits' = hits /\ ~cfgFile.ok
    BY <1>2 DEF Execute, TotalInv, RepeatInv, vars
  <2>2. hits = << >>
    BY <2>1 DEF RepeatInv
  <2>3. QED
    BY <1>1, <2>1, <2>2
<1>3. CASE FIStep(PreFuncSelects)
  <2>1. path' = path
    BY <1>3 DEF FIStep
  <2>2. CASE hits = << >>
    BY <1>3, <2>1, <2>2, StruckProfiled DEF FIStep
  <2>3. CASE hits # << >>
    <3>1. hits \in Seq(HitRecord)
      BY DEF TypeOK
    <3>2. hits' # << >> /\ hits'[1] = hits[1]
      BY <1>3, <2>3, <3>1 DEF FIStep, PreFuncSelects
    <3>3. ProfiledPath' = ProfiledPath
      BY <2>1 DEF ProfiledPath
    <3>4. QED
      BY <2>3, <3>2, <3>3 DEF FaultWhereProfiled
  <2>4. QED
    BY <2>2, <2>3
<1>4. CASE Layers \/ ProfileEnds \/ ProfileDies \/ PlanRun \/ Over \/ UNCHANGED campaignVars
  BY <1>1, <1>4 DEF Layers, ProfileEnds, ProfileDies, PlanRun, Over, campaignVars, vars
<1>5. CASE FIRun /\ ~FIStep(PreFuncSelects)
  <2>1. UNCHANGED <<hits, path>>
    BY <1>5 DEF FIRun, FIStep, Repeat, InitInjections, BeginInst, PreFunc, PreFuncSkips,
                PreFuncDeclines, InjectFunc, BitTooLarge, PrintRecord, FlushRecord, Corrupt,
                InjectReturns, Exits, PostInjections, Kill
  <2>2. QED
    BY <1>1, <2>1
<1>6. QED
  BY <1>2, <1>3, <1>4, <1>5 DEF CampaignNext

THEOREM FaultWhereProfiledCorrect ==
  ASSUME NoIntrinsicTargets
  PROVE  CampaignSpec => []FaultWhereProfiled
<1>1. CampaignInit => FaultWhereProfiled
  BY DEF CampaignInit, Init, FaultWhereProfiled
<1>2. TypeOK /\ TotalInv /\ PathInv /\ RepeatInv /\ FaultWhereProfiled
        /\ [CampaignNext]_campaignVars => FaultWhereProfiled'
  BY WhereStep
<1>3. QED
  BY <1>1, <1>2, CampaignRepeats, PTL DEF CampaignSpec

-----------------------------------------------------------------------------
(* Under every location but allreg the program is instrumented on one      *)
(* side: what the proofs about the runtime assume, the passes establish.   *)
LEMMA CompiledOneSided ==
  ASSUME Location[1] # "allreg"
  PROVE  OneSidedProgram
<1> SUFFICES ASSUME NEW i \in Inst PROVE OneSided(i)
  BY DEF OneSidedProgram
<1> DEFINE regs  == RegList(Code[i], Location)
           calls == CallsAround(Code[i], Location)
           n     == Len(regs)
<1>1. i \in DOMAIN Code /\ calls # << >> /\ RegCalls[i] = calls /\ RegNum[i] = n
  BY CompiledAssumption
<1>2. /\ Code[i].nsrc \in Nat /\ (Code[i].self # {} => Code[i].kind = "phi")
      /\ ~EndsCompiler(Code[i], Location)
  BY <1>1, CodeAssumption
<1>3. /\ n \in Nat /\ (regs[1] = DST_REG_POS /\ regs # << >> => n = 1)
      /\ ~Instrumented(Code[i], Location) => calls = << >>
      /\ Instrumented(Code[i], Location) =>
           /\ regs # << >> /\ Len(calls) = n
           /\ \/ \A k \in 1 .. n : calls[k] = k - 1
              \/ regs[1] = DST_REG_POS /\ calls[n] = 0 /\ \A k \in 1 .. n - 1 : calls[k] = k
  BY <1>2, RegListForm, CallsForm DEF Instrumented, Selected
<1> HIDE DEF regs, calls
<1>4. Len(calls) = n /\ \A k \in 1 .. n : calls[k] = k - 1
  BY <1>1, <1>3
<1>5. QED
  BY <1>1, <1>4 DEF OneSided

LEMMA CampaignCounts ==
  ASSUME OneSidedProgram
  PROVE  CampaignSpec => []CountInv
<1>1. CampaignInit => CountInv
  BY CountInit DEF CampaignInit
<1>2. ASSUME TypeOK, CountInv, [CampaignNext]_campaignVars PROVE CountInv'
  <2>1. CASE PlanRun
    BY <1>2, <2>1 DEF PlanRun, CountInv, Serving, Counted, libVars, progVars
  <2>2. CASE [Next]_vars
    BY <1>2, <2>2, CountStep
  <2>3. QED
    BY <1>2, <2>1, <2>2, InjectionPart
<1>3. QED
  BY <1>1, <1>2, CampaignTypes, PTL DEF CampaignSpec

-----------------------------------------------------------------------------
(* The cycle of the file.                                                  *)
LEMMA FileCycle ==
  ASSUME TypeOK
  PROVE  /\ cfgFile.fi_cycle \in Cycle \cup {Absent}
         /\ cfgFile.fi_reg_index \in Nat \cup {Absent}
         /\ Parsed(cfgFile).fi_cycle = cfgFile.fi_cycle
         /\ Parsed(cfgFile).fi_reg_index = cfgFile.fi_reg_index
         /\ cfgFile.fi_cycle # Absent => Parsed(cfgFile).fi_accordingto_cycle
<1>1. cfgFile \in ConfigOptions
  BY FileAssumption DEF TypeOK
<1>2. QED
  BY <1>1 DEF ConfigOptions, Parsed, Absent, Unset

LEMMA FirstInit == CampaignInit => FirstFaultInv
BY DEF CampaignInit, Init, FirstFaultInv, EveryRunHasItsFault

(* The first fault stays the first. *)
LEMMA FirstStruck ==
  ASSUME FirstFaultInv, hits # << >>, UNCHANGED <<cfgFile, globalCycle, hits>>
  PROVE  FirstFaultInv'
BY DEF FirstFaultInv, EveryRunHasItsFault

(* What a call finds before the fault. *)
LEMMA CallBefore ==
  ASSUME OneSidedProgram, TypeOK, CountInv, PathInv, RepeatInv, phase = "call", hits = << >>
  PROVE  /\ cur \in Inst /\ call \in 1 .. RegNum[cur] /\ RegNum[cur] \in Nat \ {0}
         /\ MyRegIndex = call - 1 /\ Counted(cur) /\ Cycles[cur] = 1
         /\ curr_cycle = Len(trace) + 1 /\ Len(trace) \in Nat /\ cfgFile.ok
<1>1. /\ cur \in Inst /\ call \in 1 .. RegNum[cur] /\ RegNum[cur] \in Nat \ {0}
      /\ MyRegIndex = call - 1
  BY OneSidedCalls
<1>2. at \in 1 .. Len(path) /\ cur = path[at] /\ cfgFile.ok
  BY DEF RepeatInv
<1>3. Counted(cur)
  BY <1>1, <1>2, PathCounted
<1>4. QED
  BY <1>1, <1>2, <1>3, CountedCycle DEF CountInv, TypeOK

(* Due is what the file plans, and a due instruction whose register is     *)
(* still to come does not get past its last call without the fault.        *)
LEMMA DueBefore ==
  ASSUME OneSidedProgram, TypeOK, CountInv, PathInv, RepeatInv, FirstFaultInv,
         phase = "call", hits = << >>, cfgFile.fi_cycle # Absent
  PROVE  /\ InstSelected <=> cfgFile.fi_cycle = curr_cycle
         /\ ~AlreadyInjected
         /\ config.fi_reg_index = cfgFile.fi_reg_index
         /\ FALSE \in Selections /\ cfgFile.fi_cycle = curr_cycle
              => FALSE \in Draw(call - 1, RegNum[cur])
<1>1. /\ MyRegIndex = call - 1 /\ Cycles[cur] = 1 /\ curr_cycle = Len(trace) + 1
      /\ Len(trace) \in Nat
  BY CallBefore
<1>2. /\ config.fi_cycle = cfgFile.fi_cycle /\ config.fi_reg_index = cfgFile.fi_reg_index
      /\ config.fi_accordingto_cycle /\ ~injectedInCurrInst
  BY FileCycle DEF FirstFaultInv
<1>3. cfgFile.fi_cycle \in Nat
  BY FileCycle DEF Cycle
<1>4. config.fi_cycle \in curr_cycle .. curr_cycle + Cycles[cur] - 1
        <=> config.fi_cycle = curr_cycle
  BY <1>1, <1>2, <1>3
<1>5. InstSelected <=> cfgFile.fi_cycle = curr_cycle
  BY <1>2, <1>4 DEF InstSelected
<1>6. ~AlreadyInjected
  BY <1>2 DEF AlreadyInjected
<1>7. QED
  BY <1>1, <1>2, <1>5, <1>6 DEF Selections

LEMMA FirstDeclined ==
  ASSUME EveryInstHasRegister, OneSidedProgram, TypeOK, CountInv, PathInv, RepeatInv,
         FirstFaultInv, PreFuncDeclines, hits = << >>, globalCycle' = globalCycle
  PROVE  FirstFaultInv'
<1>1. /\ phase = "call" /\ CallReturns /\ FALSE \in Selections
      /\ injectedInCurrInst' = AlreadyInjected /\ curr_cycle' = CycleAfterCall
      /\ UNCHANGED <<config, cfgFile, hits>>
  BY DEF PreFuncDeclines
<1>2. /\ cur \in Inst /\ call \in 1 .. RegNum[cur] /\ RegNum[cur] \in Nat \ {0}
      /\ MyRegIndex = call - 1 /\ Cycles[cur] = 1 /\ curr_cycle \in Nat /\ cfgFile.ok
  BY <1>1, CallBefore
<1>3. ~AlreadyInjected
  <2>1. ~injectedInCurrInst
    BY DEF FirstFaultInv
  <2>2. QED
    BY <2>1 DEF AlreadyInjected
<1>4. CASE cfgFile.fi_cycle = Absent
  <2>1. phase' # "exited"
    BY <1>1 DEF CallReturns
  <2>2. QED
    BY <1>1, <1>3, <1>4, <2>1 DEF FirstFaultInv, EveryRunHasItsFault
<1>5. CASE cfgFile.fi_cycle # Absent
  <2>1. /\ config = Parsed(cfgFile) /\ curr_cycle <= cfgFile.fi_cycle
        /\ curr_cycle = cfgFile.fi_cycle /\ cfgFile.fi_reg_index >= 0 =>
             call - 1 <= cfgFile.fi_reg_index
    BY <1>1, <1>5 DEF FirstFaultInv
  <2>2. /\ config.fi_reg_index = cfgFile.fi_reg_index
        /\ cfgFile.fi_cycle = curr_cycle => FALSE \in Draw(call - 1, RegNum[cur])
    BY <1>1, <1>5, DueBefore
  <2>3. cfgFile.fi_cycle \in Nat /\ cfgFile.fi_reg_index \in Int
    BY <1>5, FileCycle DEF Cycle, Absent
  <2>4. cfgFile.fi_cycle = curr_cycle /\ cfgFile.fi_reg_index >= 0 => call <= cfgFile.fi_reg_index
    <3>1. SUFFICES ASSUME cfgFile.fi_cycle = curr_cycle, cfgFile.fi_reg_index >= 0
                   PROVE  call <= cfgFile.fi_reg_index
      OBVIOUS
    <3>2. cfgFile.fi_reg_index # call - 1
      BY <2>2, <3>1 DEF Draw
    <3>3. QED
      BY <1>2, <2>1, <2>3, <3>1, <3>2
  <2>5. CASE call < RegNum[cur]
    <3>1. phase' = "call" /\ call' = call + 1
      BY <1>1, <1>2, <2>5, OneSidedReturn
    <3>2. curr_cycle' = curr_cycle
      BY <1>1, <1>2, <2>5 DEF CycleAfterCall
    <3>3. call' - 1 = call
      BY <1>2, <3>1
    <3>4. QED
      BY <1>1, <1>3, <2>1, <2>4, <3>1, <3>2, <3>3 DEF FirstFaultInv, EveryRunHasItsFault
  <2>6. CASE call = RegNum[cur]
    <3>1. phase' = "run"
      BY <1>1, <1>2, <2>6, OneSidedReturn
    <3>2. curr_cycle' = curr_cycle + 1
      BY <1>1, <1>2, <2>6 DEF CycleAfterCall
    <3>3. cfgFile.fi_cycle # curr_cycle
      <4>1. SUFFICES ASSUME cfgFile.fi_cycle = curr_cycle PROVE FALSE
        OBVIOUS
      <4>2. cfgFile.fi_reg_index < RegNum[cur]
        BY <1>2 DEF FirstFaultInv, EveryInstHasRegister
      <4>3. ~(cfgFile.fi_reg_index >= 0)
        BY <1>2, <2>3, <2>4, <2>6, <4>1, <4>2
      <4>4. Draw(call - 1, RegNum[cur]) = {TRUE}
        BY <2>2, <2>6, <4>3 DEF Draw
      <4>5. QED
        BY <2>2, <4>1, <4>4
    <3>4. curr_cycle' <= cfgFile.fi_cycle
      BY <1>2, <2>1, <2>3, <3>2, <3>3
    <3>5. QED
      BY <1>1, <1>3, <2>1, <3>1, <3>4 DEF FirstFaultInv, EveryRunHasItsFault
  <2>7. QED
    BY <1>2, <2>5, <2>6
<1>6. QED
  BY <1>4, <1>5

LEMMA FirstSelected ==
  ASSUME OneSidedProgram, TypeOK, CountInv, PathInv, RepeatInv,
         FirstFaultInv, PreFuncSelects, globalCycle' = globalCycle
  PROVE  FirstFaultInv'
<1>1. /\ phase = "call" /\ phase' = "inject" /\ TRUE \in Selections /\ cfgFile' = cfgFile
      /\ hits' = Append(hits, [at |-> Len(trace) + 1, index |-> cur, reg |-> MyRegIndex])
  BY DEF PreFuncSelects
<1>2. /\ hits \in Seq(HitRecord) /\ Len(hits) \in Nat /\ Len(hits') = Len(hits) + 1
      /\ hits # << >> => hits'[1] = hits[1]
      /\ hits = << >> => hits'[1].at = Len(trace) + 1
  BY <1>1 DEF TypeOK
<1>3. hits' # << >>
  BY <1>2
<1>4. cfgFile.fi_cycle # Absent => hits'[1].at = cfgFile.fi_cycle
  <2>1. CASE hits # << >>
    BY <1>2, <2>1 DEF FirstFaultInv
  <2>2. CASE hits = << >>
    <3>1. SUFFICES ASSUME cfgFile.fi_cycle # Absent PROVE cfgFile.fi_cycle = Len(trace) + 1
      BY <1>2, <2>2
    <3>2. InstSelected
      BY <1>1 DEF Selections
    <3>3. QED
      BY <1>1, <2>2, <3>1, <3>2, DueBefore, CallBefore
  <2>3. QED
    BY <2>1, <2>2
<1>5. QED
  BY <1>1, <1>3, <1>4 DEF FirstFaultInv, EveryRunHasItsFault

(* A program that exits has come to the end of the path, and the cycle of  *)
(* the file lies on it.                                                    *)
LEMMA FirstExits ==
  ASSUME NoIntrinsicTargets, TypeOK, CountInv, PathInv, RepeatInv, FirstFaultInv,
         hits = << >>, Exits, globalCycle' = globalCycle
  PROVE  FirstFaultInv'
<1>1. /\ phase = "run" /\ phase' = "exited" /\ UNCHANGED <<cfgFile, hits, injectedInCurrInst>>
      /\ \A k \in at + 1 .. Len(path) : path[k] \notin Inst
  BY DEF Exits, PostInjections, libVars
<1>2. Len(path) \in Nat /\ at \in 0 .. Len(path) /\ Len(path) \in 0 .. Len(path) /\ cfgFile.ok
  BY <1>1 DEF PathInv, RepeatInv
<1>3. trace = Counting[Len(path)]
  <2>1. Counting[Len(path)] = Counting[at]
    BY <1>1, <1>2, CountingEquation
  <2>2. QED
    BY <1>1, <2>1 DEF RepeatInv
<1>4. ProfiledPath = Counting[Len(path)]
  BY InstProfiled DEF ProfiledPath, Counting, Kept
<1>5. Len(trace) = globalCycle /\ Len(trace) \in Nat /\ curr_cycle = Len(trace) + 1
  BY <1>1, <1>3, <1>4 DEF PathInv, TypeOK, CountInv
<1>6. cfgFile.fi_cycle = Absent
  <2>1. SUFFICES ASSUME cfgFile.fi_cycle # Absent PROVE FALSE
    OBVIOUS
  <2>2. curr_cycle <= cfgFile.fi_cycle /\ cfgFile.fi_cycle <= globalCycle
    BY <1>1, <1>2, <2>1 DEF FirstFaultInv
  <2>3. cfgFile.fi_cycle \in Nat
    BY <2>1, FileCycle DEF Cycle
  <2>4. QED
    BY <1>5, <2>2, <2>3
<1>7. QED
  BY <1>1, <1>6 DEF FirstFaultInv, EveryRunHasItsFault

LEMMA FirstStep ==
  ASSUME NoIntrinsicTargets, EveryInstHasRegister, OneSidedProgram, TypeOK, ProfTypeOK, TotalInv,
         CountInv, PathInv, RepeatInv, FirstFaultInv, [CampaignNext]_campaignVars
  PROVE  FirstFaultInv'
<1>1. ASSUME UNCHANGED vars, cfgFile.ok => globalCycle' = globalCycle PROVE FirstFaultInv'
  BY <1>1 DEF FirstFaultInv, EveryRunHasItsFault, vars, libVars, progVars
<1>2. ASSUME NEW i \in DOMAIN Code, Execute(i) PROVE FirstFaultInv'
  <2>1. UNCHANGED vars /\ ~cfgFile.ok
    BY <1>2 DEF Execute, TotalInv, RepeatInv
  <2>2. QED
    BY <1>1, <2>1
<1>3. CASE Layers \/ ProfileEnds \/ ProfileDies
  <2>1. UNCHANGED vars /\ globalCycle' = globalCycle
    BY <1>3 DEF Layers, ProfileEnds, ProfileDies, LayerStarts, LayerEnds, endProfiling, ProfKill
  <2>2. QED
    BY <1>1, <2>1
<1>4. CASE PlanRun
  <2>1. /\ phase = "boot" /\ phase' = "boot" /\ hits = << >> /\ hits' = << >>
        /\ UNCHANGED <<injectedInCurrInst, globalCycle>>
    BY <1>4 DEF PlanRun, RepeatInv, libVars, progVars, profVars
  <2>2. globalCycle \in Nat /\ globalCycle' \in Nat
    BY <2>1 DEF ProfTypeOK
  <2>3. /\ cfgFile'.fi_cycle <= globalCycle' /\ cfgFile'.fi_reg_index = Option.fi_reg_index
    BY <1>4, <2>1, <2>2, Planned DEF Absent
  <2>4. QED
    BY <2>1, <2>3 DEF FirstFaultInv, EveryRunHasItsFault
<1>5. CASE FIRun
  <2>0. UNCHANGED profVars /\ globalCycle' = globalCycle
    BY <1>5 DEF FIRun, FIStep, Repeat, profVars
  <2>1. CASE InitInjections /\ cfgFile.ok
    <3>1. /\ phase = "boot" /\ phase' = "run" /\ config' = Parsed(cfgFile)
          /\ UNCHANGED <<cfgFile, hits, injectedInCurrInst, curr_cycle>>
      BY <2>1 DEF InitInjections
    <3>2. hits = << >> /\ curr_cycle = 1
      <4>1. hits = << >> /\ trace = << >>
        BY <3>1 DEF RepeatInv
      <4>2. Len(trace) = 0
        BY <4>1
      <4>3. QED
        BY <3>1, <4>1, <4>2 DEF CountInv
    <3>3. cfgFile.fi_cycle # Absent => curr_cycle <= cfgFile.fi_cycle
      BY <3>2, FileCycle DEF Cycle
    <3>4. QED
      BY <2>0, <3>1, <3>2, <3>3 DEF FirstFaultInv, EveryRunHasItsFault
  <2>2. ASSUME NEW i, BeginInst(i) PROVE FirstFaultInv'
    <3>1. /\ phase = "run" /\ phase' = "call" /\ call' = 1
          /\ UNCHANGED <<cfgFile, config, hits, injectedInCurrInst, curr_cycle>>
      BY <2>2 DEF BeginInst, libVars
    <3>2. cfgFile.fi_reg_index \in Int /\ call' - 1 = 0
      BY <3>1, FileCycle DEF Absent
    <3>3. QED
      BY <2>0, <3>1, <3>2 DEF FirstFaultInv, EveryRunHasItsFault
  <2>3. CASE PreFuncSkips
    <3>1. /\ phase = "call" /\ ~Counted(cur) /\ UNCHANGED <<cfgFile, hits>>
      BY <2>3 DEF PreFuncSkips
    <3>2. hits # << >>
      BY <3>1, CallBefore
    <3>3. QED
      BY <2>0, <3>1, <3>2, FirstStruck
  <2>4. CASE PreFuncSelects
    BY <2>0, <2>4, FirstSelected
  <2>5. CASE PreFuncDeclines
    <3>1. UNCHANGED <<cfgFile, hits>>
      BY <2>5 DEF PreFuncDeclines
    <3>2. QED
      BY <2>0, <2>5, <3>1, FirstDeclined, FirstStruck
  <2>6. CASE InjectFunc
    <3>1. phase \in {"inject", "flush", "corrupt"} /\ UNCHANGED <<cfgFile, hits>>
      BY <2>6 DEF InjectFunc, BitTooLarge, PrintRecord, FlushRecord, Corrupt, InjectReturns
    <3>2. hits # << >>
      BY <3>1 DEF TypeOK
    <3>3. QED
      BY <2>0, <3>1, <3>2, FirstStruck
  <2>7. CASE Exits
    <3>1. UNCHANGED <<cfgFile, hits>>
      BY <2>7 DEF Exits, PostInjections
    <3>2. QED
      BY <2>0, <2>7, <3>1, FirstExits, FirstStruck
  <2>8. CASE Kill
    <3>1. phase' = "killed" /\ UNCHANGED <<cfgFile, hits, injectedInCurrInst>>
      BY <2>8 DEF Kill, libVars
    <3>2. QED
      BY <2>0, <3>1 DEF FirstFaultInv, EveryRunHasItsFault
  <2>9. QED
    BY <1>5, <2>1, <2>2, <2>3, <2>4, <2>5, <2>6, <2>7, <2>8
       DEF FIRun, FIStep, Repeat, PreFunc
<1>6. CASE Over \/ UNCHANGED campaignVars
  BY <1>1, <1>6 DEF Over, campaignVars, profVars
<1>7. QED
  BY <1>2, <1>3, <1>4, <1>5, <1>6 DEF CampaignNext

(* A run that ends by itself had its fault, at the cycle the driver drew:  *)
(* for every program without intrinsics among the targets, every option    *)
(* whose register every instruction has, and every location but allreg.    *)
THEOREM EveryRunHasItsFaultCorrect ==
  ASSUME NoIntrinsicTargets, EveryInstHasRegister, Location[1] # "allreg"
  PROVE  CampaignSpec => []EveryRunHasItsFault
<1>1. OneSidedProgram
  BY CompiledOneSided
<1>2. CampaignSpec => []CountInv
  BY <1>1, CampaignCounts
<1>3. TypeOK /\ ProfTypeOK /\ TotalInv /\ PathInv /\ RepeatInv /\ CountInv /\ FirstFaultInv
        /\ [CampaignNext]_campaignVars => FirstFaultInv'
  BY <1>1, FirstStep
<1>4. FirstFaultInv => EveryRunHasItsFault
  BY DEF FirstFaultInv
<1>5. QED
  BY <1>2, <1>3, <1>4, FirstInit, CampaignRepeats, PTL DEF CampaignSpec
=============================================================================
