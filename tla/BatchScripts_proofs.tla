------------------------ MODULE BatchScripts_proofs -------------------------
(***************************************************************************)
(* Proofs about the batch scripts, for any number of models and of         *)
(* batches.                                                                *)
(***************************************************************************)
EXTENDS BatchScripts, FiniteSetTheorems, TLAPS

(* A directory as it may be left.                                          *)
Sound(d) == d \in WorkDir /\ DirInv(d)

LEMMA NewDirSound == Sound(NoDir) /\ Sound(NewDir)
<1>1. NoDir \in WorkDir /\ NewDir \in WorkDir
  <2>1. NotThere \in NotThere .. FIExe /\ {} \in SUBSET (Build \X Build)
    BY DEF NotThere, FIExe
  <2>2. NoDir \in WorkDir
    BY <2>1 DEF NoDir, WorkDir
  <2>3. NewDir = [NoDir EXCEPT !.there = TRUE]
    BY DEF NewDir
  <2>4. QED
    BY <2>2, <2>3 DEF WorkDir
<1>2. DirInv(NoDir) /\ DirInv(NewDir)
  BY DEF NoDir, NewDir, DirInv
<1>3. QED
  BY <1>1, <1>2 DEF Sound

(* instrument.py leaves a sound directory, and executables of its own if   *)
(* any are new.                                                            *)
LEMMA InstrumentedSound ==
  ASSUME NEW d, Sound(d), NEW n \in Build, NEW e \in Instrumented(d, n)
  PROVE  /\ Sound(e)
         /\ e.llfi = FIExe /\ d.llfi = NotThere => e.exe = n
<1>1. CASE e = d
  BY <1>1 DEF FIExe, NotThere
<1>2. CASE e # d
  <2>1. d.llfi = NotThere /\ d.yaml # Nothing
    BY <1>2 DEF Instrumented
  <2>2. PICK made \in {Empty, ProfExe, FIExe} : e = [d EXCEPT !.llfi = made, !.exe = n]
    BY <1>2, <2>1 DEF Instrumented
  <2>3. d \in WorkDir /\ DirInv(d)
    BY DEF Sound
  <2>4. made \in NotThere .. FIExe /\ made # NotThere
    BY DEF NotThere, FIExe, Empty, ProfExe
  <2>5. /\ e \in WorkDir /\ e.llfi = made /\ e.exe = n /\ e.prof = d.prof
        /\ e.results = d.results /\ e.there = d.there
    BY <2>2, <2>3, <2>4 DEF WorkDir
  <2>6. n # Nothing
    BY DEF Build, Nothing
  <2>7. d.results = {} /\ d.prof = Nothing /\ d.there
    BY <2>1, <2>3 DEF DirInv, NoDir, NotThere, FIExe
  <2>8. DirInv(e)
    BY <2>4, <2>5, <2>6, <2>7 DEF DirInv
  <2>9. QED
    BY <2>5, <2>8 DEF Sound
<1>3. QED
  BY <1>1, <1>2

(* A profile of the executable that is there, or none that can be read.    *)
LEMMA ProfiledSound ==
  ASSUME NEW d, Sound(d), d.llfi >= ProfExe, NEW p \in {d.exe, d.prof, Broken}
  PROVE  Sound([d EXCEPT !.prof = p])
<1>1. d \in WorkDir /\ DirInv(d)
  BY DEF Sound
<1>2. d.llfi # NotThere /\ d.exe # Nothing
  BY <1>1 DEF DirInv, NotThere, ProfExe, WorkDir
<1>3. d.there
  BY <1>1, <1>2 DEF DirInv, NoDir
<1>4. DEFINE e == [d EXCEPT !.prof = p]
<1>5. e \in WorkDir
  BY <1>1 DEF WorkDir
<1>6. /\ e.llfi = d.llfi /\ e.exe = d.exe /\ e.prof = p /\ e.results = d.results
      /\ e.there = d.there
  BY <1>1 DEF WorkDir
<1> HIDE DEF e
<1>7. DirInv(e)
  BY <1>1, <1>2, <1>3, <1>6 DEF DirInv, Broken, Nothing
<1>8. QED
  BY <1>5, <1>7 DEF Sound, e

(* A run that could start adds results of this executable and profile.     *)
LEMMA ResultSound ==
  ASSUME NEW d, Sound(d), d.llfi = FIExe, d.prof \notin {Nothing, Broken}
  PROVE  Sound([d EXCEPT !.results = @ \cup {<<d.exe, d.prof>>}])
<1>1. d \in WorkDir /\ DirInv(d)
  BY DEF Sound
<1>2. d.llfi # NotThere /\ d.exe # Nothing /\ d.prof = d.exe /\ d.there
  BY <1>1 DEF DirInv, NotThere, FIExe, NoDir
<1>3. d.exe \in Build /\ d.results \in SUBSET (Build \X Build)
  BY <1>1, <1>2 DEF WorkDir
<1>4. DEFINE e == [d EXCEPT !.results = @ \cup {<<d.exe, d.prof>>}]
<1>5. e \in WorkDir
  BY <1>1, <1>2, <1>3 DEF WorkDir
<1>6. /\ e.llfi = d.llfi /\ e.exe = d.exe /\ e.prof = d.prof /\ e.there = d.there
      /\ e.results = d.results \cup {<<d.exe, d.prof>>}
  BY <1>1 DEF WorkDir
<1> HIDE DEF e
<1>7. \A r \in e.results : r[1] = d.exe /\ r[2] = d.exe
  BY <1>1, <1>2, <1>6 DEF DirInv
<1>8. DirInv(e)
  BY <1>1, <1>2, <1>6, <1>7 DEF DirInv
<1>9. QED
  BY <1>5, <1>8 DEF Sound, e

(* Everything the invariants say of the directories.                       *)
AllSound == workdir \in [Model -> WorkDir] /\ \A m \in Model : DirInv(workdir[m])
AllMade  == \A m \in Model : workdir[m].there \/ ~Made(m)

LEMMA ChangeSound ==
  ASSUME AllSound, NEW m \in Model, NEW d, Sound(d), workdir' = [workdir EXCEPT ![m] = d]
  PROVE  /\ AllSound' /\ workdir'[m] = d
         /\ \A k \in Model \ {m} : workdir'[k] = workdir[k]
BY DEF AllSound, Sound

(* The counters and the pointer to the model.                              *)
Control ==
  /\ script \in {"idle", "prepare", "split", "instrument", "profile", "inject"}
  /\ todo \in Model /\ num_failed \in 0 .. NumModels /\ build \in 0 .. MaxBuild
  /\ script = "idle" => todo = 1
  /\ exit # << >> => script = "idle"
  /\ script \in {"prepare", "split", "instrument"} => build # 0
  /\ script \in {"prepare", "split"} => num_failed = 0
  /\ num_failed <= IF script = "idle" THEN NumModels ELSE todo - 1

LEMMA TypeSplit == BatchTypeOK /\ BuildInv <=> AllSound /\ AllMade /\ Control
<1>1. AllSound => \A m \in Model :
        /\ workdir[m].results # {} => workdir[m].llfi = FIExe
        /\ workdir[m].llfi # NotThere => workdir[m].exe # Nothing
        /\ ~workdir[m].there => workdir[m] = NoDir
  BY DEF AllSound, DirInv
<1>2. QED
  BY <1>1 DEF BatchTypeOK, BuildInv, AllSound, AllMade, Control

(* The script goes on.                                                     *)
LEMMA NextModelControl ==
  ASSUME Control, NEW step \in Steps, NEW following \in {"idle", "split", "instrument"},
         NEW failed \in {0, 1}, NextModel(step, following, failed), build' = build,
         following \in {"split", "instrument"} => step \in {"prepare", "split"},
         step \in {"prepare", "split"} => failed = 0
  PROVE  Control'
<1>1. NumModels \in Nat \ {0} /\ todo \in 1 .. NumModels /\ num_failed \in 0 .. NumModels
  BY ModelsAssumption DEF Control, Model
<1>2. script = step /\ num_failed' = num_failed + failed /\ num_failed <= todo - 1
  BY DEF NextModel, Control, Steps
<1>3. exit = << >>
  BY <1>2 DEF Control, Steps
<1>4. CASE todo < NumModels
  <2>1. todo' = todo + 1 /\ script' = script /\ exit' = exit
    BY <1>4 DEF NextModel
  <2>2. QED
    BY <1>1, <1>2, <1>3, <1>4, <2>1 DEF Control, Model, Steps
<1>5. CASE ~(todo < NumModels)
  <2>1. /\ todo' = 1 /\ script' = following
        /\ exit' = IF following = "idle" THEN <<step, (num_failed + failed) % 256>> ELSE exit
    BY <1>5 DEF NextModel
  <2>2. QED
    BY <1>1, <1>2, <1>3, <1>5, <2>1 DEF Control, Model, Steps
<1>6. QED
  BY <1>4, <1>5

LEMMA ExitsControl ==
  ASSUME Control, NEW step, NEW status, Exits(step, status), build' = build
  PROVE  Control' /\ script' = "idle" /\ exit' = <<step, status>>
BY ModelsAssumption DEF Control, Exits, Model

LEMMA BatchInitSound == BatchInit => AllSound /\ Control
<1> SUFFICES ASSUME BatchInit PROVE AllSound /\ Control
  OBVIOUS
<1>1. AllSound
  BY NewDirSound DEF BatchInit, AllSound, Sound
<1>2. Control
  BY ModelsAssumption, BuildAssumption DEF BatchInit, Control, Model
<1>3. QED
  BY <1>1, <1>2

(* Every step keeps both.                                                  *)
LEMMA BatchStep ==
  ASSUME AllSound, AllMade, Control, [BatchNext]_batchVars
  PROVE  AllSound' /\ Control'
<1>0. /\ todo \in Model /\ Sound(Dir) /\ build \in 0 .. MaxBuild /\ MaxBuild \in Nat
      /\ "prepare" \in Steps /\ "split" \in Steps /\ "instrument" \in Steps
      /\ "profile" \in Steps /\ "inject" \in Steps
  BY BuildAssumption DEF AllSound, Control, Sound, Dir, Steps
<1>1. CASE Call
  BY <1>1, <1>0, ModelsAssumption DEF Call, AllSound, Control, Model
<1>2. CASE Prepare
  BY <1>2, <1>0, NewDirSound, ChangeSound, NextModelControl DEF Prepare, Prepared, Change
<1>3. CASE PrepareFails
  <2>1. PICK d \in {Dir, NewDir, NoDir} : Change(d)
    BY <1>3 DEF PrepareFails
  <2>2. AllSound'
    BY <1>0, <2>1, NewDirSound, ChangeSound DEF Change
  <2>3. Control'
    BY <1>3, ExitsControl DEF PrepareFails
  <2>4. QED
    BY <2>2, <2>3
<1>4. CASE Split
  <2>1. script = "split" /\ build \in Build
    BY <1>4, <1>0 DEF Split, NextModel, Control, Build
  <2>2. Control'
    BY <1>4, <1>0, NextModelControl DEF Split
  <2>3. Sound([Dir EXCEPT !.yaml = build])
    <3> DEFINE e == [Dir EXCEPT !.yaml = build]
    <3>1. Dir \in WorkDir /\ DirInv(Dir)
      BY <1>0 DEF Sound
    <3>2. /\ e \in WorkDir /\ e.llfi = Dir.llfi /\ e.exe = Dir.exe /\ e.prof = Dir.prof
          /\ e.there = Dir.there /\ e.results = Dir.results
      BY <3>1, <2>1 DEF WorkDir
    <3>3. Dir.there
      BY <1>0, <2>1 DEF AllMade, Made, Dir
    <3>4. QED
      BY <3>1, <3>2, <3>3 DEF Sound, DirInv
  <2>4. QED
    BY <1>4, <1>0, <2>2, <2>3, ChangeSound DEF Split, Change
<1>5. CASE SplitFails
  BY <1>5, ExitsControl DEF SplitFails, AllSound
<1>6. CASE Instrument
  <2>1. PICK d \in Instrumented(Dir, build) :
          /\ NextModel("instrument", "idle", InstrumentFailed(d))
          /\ Change(d) /\ UNCHANGED build
    BY <1>6 DEF Instrument
  <2>2. build \in Build
    BY <1>0, <2>1 DEF NextModel, Control, Build
  <2>3. Sound(d)
    BY <1>0, <2>2, InstrumentedSound
  <2>4. InstrumentFailed(d) \in {0, 1}
    BY DEF InstrumentFailed
  <2>5. QED
    BY <1>0, <2>1, <2>3, <2>4, ChangeSound, NextModelControl DEF Change
<1>7. ASSUME NEW m \in Model, InstrumentAlone(m) PROVE AllSound' /\ Control'
  <2>1. PICK d \in Instrumented(workdir[m], build + 1) : workdir' = [workdir EXCEPT ![m] = d]
    BY <1>7 DEF InstrumentAlone
  <2>2. build + 1 \in Build /\ Sound(workdir[m])
    BY <1>0, <1>7 DEF InstrumentAlone, Build, AllSound, Sound
  <2>3. AllSound'
    BY <2>1, <2>2, InstrumentedSound, ChangeSound
  <2>4. Control'
    BY <1>0, <1>7 DEF InstrumentAlone, Control
  <2>5. QED
    BY <2>3, <2>4
<1>8. CASE ProfileExits
  BY <1>8, ExitsControl DEF ProfileExits, AllSound
<1>8a. ASSUME NEW p \in Profiles PROVE Sound([Dir EXCEPT !.prof = p])
  <2>1. CASE p = Dir.prof
    BY <1>0, <2>1 DEF Sound, WorkDir
  <2>2. CASE p \in {Dir.exe, Broken} /\ Dir.llfi >= ProfExe
    BY <1>0, <2>2, ProfiledSound
  <2>3. QED
    BY <1>8a, <2>1, <2>2 DEF Profiles
<1>9. CASE Profile
  <2> DEFINE failed(p) == IF p = Dir.exe /\ Dir.llfi >= ProfExe THEN 0 ELSE 1
  <2>1. PICK p \in Profiles :
          /\ NextModel("profile", "idle", failed(p))
          /\ Change([Dir EXCEPT !.prof = p]) /\ UNCHANGED build
    BY <1>9 DEF Profile
  <2>2. Sound([Dir EXCEPT !.prof = p])
    BY <1>8a
  <2>3. failed(p) \in {0, 1}
    OBVIOUS
  <2> HIDE DEF failed
  <2>4. QED
    BY <1>0, <2>1, <2>2, <2>3, ChangeSound, NextModelControl DEF Change
<1>9a. CASE ProfileRaises
  <2>1. PICK p \in Profiles : Change([Dir EXCEPT !.prof = p])
    BY <1>9a DEF ProfileRaises
  <2>2. AllSound'
    BY <1>0, <1>8a, <2>1, ChangeSound DEF Change
  <2>3. Control'
    BY <1>9a, ExitsControl DEF ProfileRaises
  <2>4. QED
    BY <2>2, <2>3
<1>10. CASE InjectExits
  BY <1>10, ExitsControl DEF InjectExits, AllSound
<1>10a. ASSUME Startable PROVE Sound(Ran)
  BY <1>0, <1>10a, ResultSound DEF Startable, Ran
<1>11. CASE Inject
  <2>1. PICK failed \in {0, 1} :
          /\ NextModel("inject", "idle", failed) /\ UNCHANGED build
          /\ UNCHANGED workdir \/ (Startable /\ Change(Ran))
    BY <1>11 DEF Inject
  <2>2. AllSound'
    BY <1>0, <1>10a, <2>1, ChangeSound DEF Change, AllSound
  <2>3. Control'
    BY <1>0, <2>1, NextModelControl
  <2>4. QED
    BY <2>2, <2>3
<1>11a. CASE InjectRaises
  <2>1. AllSound'
    BY <1>0, <1>10a, <1>11a, ChangeSound DEF Change, AllSound, InjectRaises
  <2>2. Control'
    BY <1>11a, ExitsControl DEF InjectRaises
  <2>3. QED
    BY <2>1, <2>2
<1>11b. CASE InstrumentRaises
  <2>1. PICK d \in Instrumented(Dir, build) : Change(d)
    BY <1>11b DEF InstrumentRaises
  <2>2. build \in Build
    BY <1>0, <1>11b DEF InstrumentRaises, Exits, Control, Build
  <2>3. AllSound'
    BY <1>0, <2>1, <2>2, InstrumentedSound, ChangeSound DEF Change
  <2>4. Control'
    BY <1>11b, ExitsControl DEF InstrumentRaises
  <2>5. QED
    BY <2>3, <2>4
<1>11c. CASE StartFails
  BY <1>11c, ExitsControl DEF StartFails, AllSound
<1>12. CASE BatchKill
  <2>1. PICK d : /\ \/ d \in {Dir, NoDir, NewDir}
                    \/ script = "instrument" /\ d \in Instrumented(Dir, build)
                    \/ Dir.llfi >= ProfExe /\ d = [Dir EXCEPT !.prof = Broken]
                    \/ Startable /\ d = Ran
                 /\ Change(d)
    BY <1>12 DEF BatchKill, Control
  <2>2. Sound(d)
    <3>1. CASE d \in {Dir, NoDir, NewDir}
      BY <1>0, <3>1, NewDirSound
    <3>2. CASE script = "instrument" /\ d \in Instrumented(Dir, build)
      <4>1. build \in Build
        BY <1>0, <3>2 DEF Control, Build
      <4>2. QED
        BY <1>0, <3>2, <4>1, InstrumentedSound
    <3>3. CASE Dir.llfi >= ProfExe /\ d = [Dir EXCEPT !.prof = Broken]
      BY <1>0, <3>3, ProfiledSound
    <3>4. CASE Startable /\ d = Ran
      BY <1>10a, <3>4
    <3>5. QED
      BY <2>1, <3>1, <3>2, <3>3, <3>4
  <2>3. AllSound'
    BY <1>0, <2>1, <2>2, ChangeSound DEF Change
  <2>4. Control'
    BY <1>12, <1>0, ModelsAssumption DEF BatchKill, Control, Model
  <2>5. QED
    BY <2>3, <2>4
<1>13. CASE UNCHANGED batchVars
  BY <1>13 DEF batchVars, AllSound, Control
<1>14. QED
  BY <1>1, <1>2, <1>3, <1>4, <1>5, <1>6, <1>7, <1>8, <1>9, <1>9a, <1>10, <1>11, <1>11a,
     <1>11b, <1>11c, <1>12, <1>13 DEF BatchNext

LEMMA MadeStep ==
  ASSUME AllSound, AllMade, Control, [BatchNext]_batchVars
  PROVE  AllMade'
<1>0. todo \in 1 .. NumModels /\ NumModels \in Nat /\ AllSound'
  BY ModelsAssumption, BatchStep DEF Control, Model
<1>1. CASE Prepare
  <2>1. /\ script = "prepare"
        /\ workdir' = [workdir EXCEPT ![todo] = NewDir]
        /\ \/ todo < NumModels /\ todo' = todo + 1 /\ script' = "prepare"
           \/ todo = NumModels /\ todo' = 1 /\ script' = "split"
    BY <1>0, <1>1 DEF Prepare, Prepared, Change, NextModel
  <2>2. workdir'[todo].there /\ \A m \in Model \ {todo} : workdir'[m] = workdir[m]
    BY <1>0, <2>1 DEF AllSound, NewDir, NoDir, Model
  <2>3. \A m \in Model : m < todo => workdir[m].there
    BY <1>1 DEF AllMade, Made, Prepare, NextModel
  <2>4. \A m \in Model : m <= todo => workdir'[m].there
    BY <1>0, <2>2, <2>3 DEF Model
  <2>5. QED
    BY <1>0, <2>1, <2>4 DEF AllMade, Made, Model
<1>2. CASE Split
  <2>1. /\ script = "split" /\ workdir' = [workdir EXCEPT ![todo] = [Dir EXCEPT !.yaml = build]]
        /\ script' \in {"split", "instrument"}
    BY <1>2 DEF Split, Change, NextModel
  <2>2. \A m \in Model : workdir[m].there
    BY <2>1 DEF AllMade, Made
  <2>3. \A m \in Model : workdir'[m].there
    BY <1>0, <2>1, <2>2 DEF AllSound, WorkDir, Dir, Model
  <2>4. QED
    BY <2>3 DEF AllMade
<1>3. CASE Call
  BY <1>3 DEF Call, AllMade, Made, Model
<1>4. CASE UNCHANGED batchVars
  BY <1>4 DEF batchVars, AllMade, Made
<1>5. CASE ~Prepare /\ ~Split /\ ~Call /\ ~UNCHANGED batchVars
  <2>1. script' \in {"idle", "instrument", "profile", "inject"}
    BY <1>5 DEF BatchNext, StartFails, PrepareFails, SplitFails, Exits, Instrument, NextModel,
       InstrumentRaises, InstrumentAlone, ProfileExits, Profile, ProfileRaises,
       InjectExits, Inject, InjectRaises, BatchKill
  <2>2. QED
    BY <2>1 DEF AllMade, Made
<1>6. QED
  BY <1>1, <1>2, <1>3, <1>4, <1>5

LEMMA BatchInvariant == BatchSpec => [](AllSound /\ AllMade /\ Control)
<1>1. BatchInit => AllMade
  BY DEF BatchInit, AllMade, Made
<1>2. AllSound /\ AllMade /\ Control /\ [BatchNext]_batchVars
        => (AllSound /\ AllMade /\ Control)'
  BY BatchStep, MadeStep
<1>3. QED
  BY <1>1, <1>2, BatchInitSound, PTL DEF BatchSpec

(* What depends on executables is there only with them.                    *)
THEOREM BatchTypeCorrect == BatchSpec => []BatchTypeOK
<1>1. AllSound /\ AllMade /\ Control => BatchTypeOK
  BY TypeSplit
<1>2. QED
  BY <1>1, BatchInvariant, PTL

(* Results and profile belong to the executable beside them.               *)
THEOREM SameBuildCorrect == BatchSpec => []SameBuild
<1>1. AllSound => SameBuild
  BY DEF AllSound, DirInv, SameBuild
<1>2. QED
  BY <1>1, BatchInvariant, PTL

-----------------------------------------------------------------------------
(* A model more is come past, and counted if it was not done.              *)
LEMMA OneMore ==
  ASSUME NEW n \in Nat \ {0}, NEW A \in SUBSET (1 .. n - 1), NEW B \in SUBSET (1 .. n),
         B \subseteq A \cup {n}, NEW k \in Nat, NEW f \in {0, 1},
         Cardinality(A) <= k, f = 0 => n \notin B
  PROVE  Cardinality(B) <= k + f
<1>1. IsFiniteSet(1 .. n - 1)
  BY FS_Interval
<1>2. IsFiniteSet(A)
  BY <1>1, FS_Subset
<1>3. Cardinality(A) \in Nat
  BY <1>2, FS_CardinalityType
<1>4. CASE n \notin B
  <2>1. B \subseteq A
    BY <1>4
  <2>2. Cardinality(B) \in Nat /\ Cardinality(B) <= Cardinality(A)
    BY <1>2, <2>1, FS_Subset, FS_CardinalityType
  <2>3. QED
    BY <1>3, <2>2
<1>5. CASE n \in B
  <2>1. n \notin A /\ f = 1
    BY <1>5
  <2>2. IsFiniteSet(A \cup {n}) /\ Cardinality(A \cup {n}) = Cardinality(A) + 1
    BY <1>2, <2>1, FS_AddElement
  <2>3. Cardinality(B) \in Nat /\ Cardinality(B) <= Cardinality(A \cup {n})
    BY <2>2, FS_Subset, FS_CardinalityType
  <2>4. QED
    BY <1>3, <2>1, <2>2, <2>3
<1>6. QED
  BY <1>4, <1>5

LEMMA CountModel ==
  ASSUME NumModels < 256,
         AllSound, Control, FailInv, NEW step \in {"instrument", "profile", "inject"},
         NEW failed \in {0, 1}, NextModel(step, "idle", failed), build' = build,
         \A m \in Model \ {todo} : workdir'[m] = workdir[m],
         failed = 0 => Done(step, workdir'[todo])
  PROVE  FailInv'
<1> DEFINE A == NotDone(step, todo - 1)
           B == {m \in 1 .. todo : ~Done(step, workdir'[m])}
<1>1. /\ script = step /\ num_failed' = num_failed + failed /\ num_failed \in Nat
      /\ todo \in 1 .. NumModels /\ NumModels \in Nat /\ todo \in Nat \ {0}
  BY ModelsAssumption DEF NextModel, Control, Model
<1>2. Cardinality(A) <= num_failed /\ exit = << >>
  BY <1>1 DEF FailInv
<1>3. A \in SUBSET (1 .. todo - 1) /\ B \in SUBSET (1 .. todo)
  BY DEF NotDone
<1>4. B \subseteq A \cup {todo}
  <2>1. ASSUME NEW m \in B, m # todo PROVE m \in A
    <3>1. m \in 1 .. todo - 1 /\ m \in Model \ {todo}
      BY <1>1, <2>1 DEF Model
    <3>2. ~Done(step, workdir[m])
      BY <2>1, <3>1
    <3>3. QED
      BY <3>1, <3>2 DEF NotDone
  <2>2. QED
    BY <2>1
<1>5. failed = 0 => todo \notin B
  OBVIOUS
<1> HIDE DEF A, B
<1>6. Cardinality(B) <= num_failed + failed
  BY <1>1, <1>2, <1>3, <1>4, <1>5, OneMore
<1>7. CASE todo < NumModels
  <2>1. todo' = todo + 1 /\ script' = script /\ exit' = exit
    BY <1>7 DEF NextModel
  <2>2. (todo - 1)' = todo /\ script' = step
    BY <1>1, <2>1
  <2>3. NotDone(script, todo - 1)' = B
    BY <2>2 DEF NotDone, B, Done
  <2>4. Cardinality(NotDone(script, todo - 1)') <= num_failed'
    BY <1>1, <1>6, <2>3
  <2>5. QED
    BY <1>1, <1>2, <2>1, <2>4 DEF FailInv, StatusCountsFailures
<1>8. CASE ~(todo < NumModels)
  <2>0. (num_failed + failed) % 256 = num_failed + failed
    <3>1. num_failed <= todo - 1
      BY <1>1 DEF Control
    <3>2. num_failed + failed \in 0 .. 255
      BY <1>1, <3>1
    <3>3. QED
      BY <3>2
  <2>1. todo = NumModels /\ script' = "idle" /\ exit' = <<step, num_failed + failed>>
    BY <1>1, <1>8, <2>0 DEF NextModel
  <2>2. {m \in Model : ~Done(step, workdir[m])}' = B
    BY <2>1 DEF B, Model, Done
  <2>3. exit'[1] = step /\ exit'[2] = num_failed + failed
    BY <2>1
  <2>4. {m \in Model : ~Done(exit[1], workdir[m])}' = B
    BY <2>3, <2>1 DEF B, Model, Done
  <2>5. StatusCountsFailures'
    <3>1. Cardinality({m \in Model : ~Done(exit[1], workdir[m])}') <= exit'[2]
      BY <1>6, <2>3, <2>4
    <3>2. QED
      BY <3>1 DEF StatusCountsFailures
  <2>6. /\ script' # "idle" => exit' = << >>
        /\ script' \notin {"instrument", "profile", "inject"}
        /\ exit'[1] \in {"instrument", "profile", "inject"}
    BY <2>1, <2>3
  <2>7. QED
    BY <2>5, <2>6 DEF FailInv
<1>9. QED
  BY <1>7, <1>8

(* No script is running, or it has not come past a model yet.              *)
LEMMA FailIdle ==
  ASSUME script' = "idle",
         exit' = << >> \/ (\E step, status : exit' = <<step, status>>
                                            /\ status \in {Uncaught, MinusOne})
  PROVE  FailInv'
<1>1. CASE exit' = << >>
  BY <1>1 DEF FailInv, StatusCountsFailures
<1>2. CASE \E step, status : exit' = <<step, status>> /\ status \in {Uncaught, MinusOne}
  <2>1. exit'[2] \in {Uncaught, MinusOne}
    BY <1>2
  <2>2. QED
    BY <2>1 DEF FailInv, StatusCountsFailures
<1>3. QED
  BY <1>1, <1>2

LEMMA FailStarts ==
  ASSUME todo' = 1, num_failed' = 0, exit' = << >>
  PROVE  FailInv'
<1>1. (todo - 1)' = 0
  OBVIOUS
<1>2. Cardinality(NotDone(script, todo - 1)') = 0
  <2>1. NotDone(script, todo - 1)' = {}
    BY <1>1 DEF NotDone
  <2>2. QED
    BY <2>1, FS_EmptySet
<1>3. QED
  BY <1>2 DEF FailInv, StatusCountsFailures

LEMMA FailStep ==
  ASSUME NumModels < 256, AllSound, AllMade, Control, FailInv, [BatchNext]_batchVars
  PROVE  FailInv'
<1>0. todo \in Model /\ Dir \in WorkDir /\ workdir \in [Model -> WorkDir]
  BY DEF Control, AllSound, Dir
<1>1. CASE Call
  BY <1>1, FailStarts DEF Call
<1>2. CASE Prepare \/ Split
  <2>1. /\ script \in {"prepare", "split"} /\ num_failed' = 0 /\ exit = << >>
        /\ script' \in {"prepare", "split"} \/ todo' = 1
        /\ exit' = exit
    BY <1>2 DEF Prepare, Split, NextModel, Control
  <2>2. CASE todo' = 1
    BY <2>1, <2>2, FailStarts
  <2>3. CASE script' \in {"prepare", "split"}
    BY <2>1, <2>3 DEF FailInv, StatusCountsFailures
  <2>4. QED
    BY <2>1, <2>2, <2>3
<1>3. CASE \E step, status : Exits(step, status) /\ status \in {Uncaught, MinusOne}
  BY <1>3, FailIdle DEF Exits
<1>4. CASE Instrument
  <2>1. PICK d \in Instrumented(Dir, build) :
          /\ NextModel("instrument", "idle", InstrumentFailed(d))
          /\ Change(d) /\ UNCHANGED build
    BY <1>4 DEF Instrument
  <2>2. Sound(Dir) /\ build \in Build
    BY <1>0, <2>1 DEF AllSound, Sound, Dir, NextModel, Control, Build
  <2>3. workdir'[todo] = d /\ \A m \in Model \ {todo} : workdir'[m] = workdir[m]
    BY <1>0, <2>1 DEF Change
  <2>4. InstrumentFailed(d) \in {0, 1}
    BY DEF InstrumentFailed
  <2>5. InstrumentFailed(d) = 0 => Done("instrument", workdir'[todo])
    BY <2>2, <2>3, InstrumentedSound DEF InstrumentFailed, Done
  <2>6. QED
    BY <2>1, <2>3, <2>4, <2>5, CountModel
<1>5. CASE \E m \in Model : InstrumentAlone(m)
  BY <1>5, FailIdle DEF InstrumentAlone
<1>6. CASE Profile
  <2> DEFINE failed(p) == IF p = Dir.exe /\ Dir.llfi >= ProfExe THEN 0 ELSE 1
  <2>1. PICK p \in Profiles :
          /\ NextModel("profile", "idle", failed(p))
          /\ Change([Dir EXCEPT !.prof = p]) /\ UNCHANGED build
    BY <1>6 DEF Profile
  <2>2. /\ workdir'[todo] = [Dir EXCEPT !.prof = p]
        /\ \A m \in Model \ {todo} : workdir'[m] = workdir[m]
    BY <1>0, <2>1 DEF Change
  <2>3. failed(p) \in {0, 1}
    OBVIOUS
  <2>4. ASSUME p = Dir.exe, Dir.llfi >= ProfExe PROVE Done("profile", workdir'[todo])
    <3>1. workdir'[todo].prof = p /\ workdir'[todo].exe = Dir.exe /\ workdir'[todo].llfi = Dir.llfi
      BY <1>0, <2>2 DEF WorkDir
    <3>2. QED
      BY <2>1, <2>4, <3>1 DEF Done
  <2>5. failed(p) = 0 => Done("profile", workdir'[todo])
    BY <2>4
  <2> HIDE DEF failed
  <2>6. QED
    BY <2>1, <2>2, <2>3, <2>5, CountModel
<1>7. CASE Inject
  <2>1. PICK failed \in {0, 1} :
          /\ NextModel("inject", "idle", failed) /\ UNCHANGED build
          /\ \/ failed = 1 /\ UNCHANGED workdir
             \/ Change(Ran)
    BY <1>7 DEF Inject
  <2>2. \A m \in Model \ {todo} : workdir'[m] = workdir[m]
    BY <1>0, <2>1 DEF Change
  <2>3. ASSUME failed = 0 PROVE Done("inject", workdir'[todo])
    <3>1. workdir'[todo] = Ran
      BY <1>0, <2>1, <2>3 DEF Change
    <3>2. workdir'[todo].results # {}
      BY <1>0, <3>1 DEF WorkDir, Ran
    <3>3. QED
      BY <3>2 DEF Done
  <2>4. QED
    BY <2>1, <2>2, <2>3, CountModel
<1>8. CASE BatchKill
  BY <1>8, FailIdle DEF BatchKill
<1>9. CASE UNCHANGED batchVars
  <2>1. UNCHANGED <<workdir, script, todo, num_failed, build, exit>>
    BY <1>9 DEF batchVars
  <2>2. NotDone(script, todo - 1)' = NotDone(script, todo - 1)
    BY <2>1 DEF NotDone, Done
  <2>3. {m \in Model : ~Done(exit[1], workdir[m])}' = {m \in Model : ~Done(exit[1], workdir[m])}
    BY <2>1 DEF Done
  <2>4. StatusCountsFailures'
    BY <2>1, <2>3 DEF FailInv, StatusCountsFailures
  <2>5. QED
    BY <2>1, <2>2, <2>4 DEF FailInv
<1>10. CASE \/ StartFails \/ PrepareFails \/ SplitFails \/ InstrumentRaises
            \/ ProfileExits \/ ProfileRaises \/ InjectExits \/ InjectRaises
  BY <1>10, <1>3 DEF StartFails, PrepareFails, SplitFails, InstrumentRaises,
     ProfileExits, ProfileRaises, InjectExits, InjectRaises
<1>11. QED
  BY <1>1, <1>2, <1>4, <1>5, <1>6, <1>7, <1>8, <1>9, <1>10 DEF BatchNext

(* With fewer than 256 models, a status that no exception gives is at      *)
(* least the number of the models that are not done.                       *)
THEOREM StatusCountsFailuresCorrect ==
  ASSUME NumModels < 256
  PROVE  BatchSpec => []StatusCountsFailures
<1>1. BatchInit => FailInv
  BY DEF BatchInit, FailInv, StatusCountsFailures
<1>2. FailInv => StatusCountsFailures
  BY DEF FailInv
<1>3. AllSound /\ AllMade /\ Control /\ FailInv /\ [BatchNext]_batchVars => FailInv'
  BY FailStep
<1>4. QED
  BY <1>1, <1>2, <1>3, BatchInvariant, PTL DEF BatchSpec
=============================================================================
