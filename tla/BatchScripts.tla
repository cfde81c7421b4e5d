---------------------------- MODULE BatchScripts ----------------------------
(***************************************************************************)
(* batchInstrument.py, batchProfile.py and batchInjectfault.py, with what  *)
(* instrument.py, profile.py and injectfault.py do for each model: every   *)
(* software failure model of the master input.yaml has a directory         *)
(* llfi-<model>, in which the three scripts, called one after the other by *)
(* the user, leave executables, a profile and results.                     *)
(*                                                                         *)
(* Any step may fail as the code lets it, and a script may be killed       *)
(* between two steps or in the middle of one.  Every instrumentation has a *)
(* number, which what is made from it carries.                             *)
(***************************************************************************)
EXTENDS Integers, Sequences, FiniteSets

CONSTANTS
  NumModels,   \* length of model_list
  MaxBuild     \* bound on the instrumentations

ASSUME ModelsAssumption == NumModels \in Nat \ {0}
ASSUME BuildAssumption  == MaxBuild \in Nat

Model == 1 .. NumModels
Build == 1 .. MaxBuild
Nothing == 0    \* no yaml, no profile
Broken  == -1   \* a profile that was opened and not written

(* The directory llfi: not there, without executables, with the profiling  *)
(* executable, or with both.                                               *)
NotThere  == -1
Empty   == 0
ProfExe == 1
FIExe   == 2

VARIABLES
  workdir,     \* for each model, its directory or NoDir
  script,      \* what runs: "idle" or the step of a script
  todo,        \* the model it has come to
  num_failed,
  build,       \* the number of the last instrumentation
  exit         \* exit status of the last script and its name, <<>> if killed

batchVars == <<workdir, script, todo, num_failed, build, exit>>

(* yaml and exe are the builds the yaml and the executables belong to,     *)
(* results the pairs of build and profile of the runs filed in llfi.       *)
NoDir == [there |-> FALSE, yaml |-> Nothing, llfi |-> NotThere, exe |-> Nothing,
          prof |-> Nothing, results |-> {}]
NewDir == [NoDir EXCEPT !.there = TRUE]

BatchInit ==
  /\ workdir = [m \in Model |-> NoDir]
  /\ script = "idle" /\ todo = 1 /\ num_failed = 0 /\ build = 0 /\ exit = << >>

Dir == workdir[todo]

(* The script goes on to the next model, or from its last to what follows. *)
NextModel(step, following, failed) ==
  /\ script = step
  /\ num_failed' = num_failed + failed
  /\ IF todo < NumModels
       THEN todo' = todo + 1 /\ UNCHANGED <<script, exit>>
       ELSE /\ todo' = 1 /\ script' = following
            /\ exit' = IF following = "idle" THEN <<step, (num_failed + failed) % 256>> ELSE exit

(* The script ends in the middle: an exception that nobody catches gives   *)
(* status 1, sys.exit(-1) 255.                                             *)
Uncaught == 1
MinusOne == 255

Exits(step, status) ==
  /\ script = step /\ script' = "idle" /\ todo' = 1 /\ num_failed' = 0
  /\ exit' = <<step, status>>

Change(d) == workdir' = [workdir EXCEPT ![todo] = d]

-----------------------------------------------------------------------------
(* The user calls a batch script, which may not get as far as the first    *)
(* directory: there is no file to change directory to, or no master yaml.  *)
Call ==
  /\ script = "idle"
  /\ todo' = 1 /\ num_failed' = 0 /\ exit' = << >>
  /\ \/ script' = "prepare" /\ build < MaxBuild /\ build' = build + 1
     \/ script' \in {"profile", "inject"} /\ UNCHANGED build
  /\ UNCHANGED workdir

StartFails ==
  /\ todo = 1
  /\ \E step \in {"prepare", "profile", "inject"}, status \in {Uncaught, MinusOne} :
       Exits(step, status)
  /\ UNCHANGED <<workdir, build>>

(* prepareDirs: the directory is removed with all it has, and made anew.   *)
KeepsStats ==         \* mutant: only llfi is removed, as instrument.py asks for
  [Dir EXCEPT !.there = TRUE, !.llfi = NotThere, !.exe = Nothing, !.results = {}]
RunsKept ==           \* mutant: llfi is removed, but not what its runs left
  [Dir EXCEPT !.there = TRUE, !.llfi = NotThere, !.exe = Nothing]
Prepared == NewDir

Prepare ==
  /\ NextModel("prepare", "split", 0)
  /\ Change(Prepared)
  /\ UNCHANGED build

(* The directory cannot be removed, or not be made; or a copy fails, as it *)
(* does for every subdirectory of the base directory, since copytree wants *)
(* to make the directory that is already there.                            *)
PrepareFails ==
  /\ \/ Exits("prepare", MinusOne) /\ \E d \in {Dir, NewDir} : Change(d)
     \/ Exits("prepare", Uncaught) /\ Change(NoDir)
  /\ UNCHANGED build

(* splitMasterYaml                                                         *)
Split ==
  /\ NextModel("split", "instrument", 0)
  /\ Change([Dir EXCEPT !.yaml = build])
  /\ UNCHANGED build

SplitFails == Exits("split", MinusOne) /\ UNCHANGED <<workdir, build>>

(* instrument.py in a directory d: refused if llfi is there or nobody gave *)
(* it a yaml; a bad option leaves llfi empty, a failing pass removes it,   *)
(* failing to link leaves one executable or none.                          *)
Instrumented(d, n) ==
  IF d.llfi # NotThere \/ d.yaml = Nothing THEN {d}
  ELSE {d} \cup {[d EXCEPT !.llfi = made, !.exe = n] : made \in {Empty, ProfExe, FIExe}}

(* callInstrument: a model that failed is counted.                         *)
NotCounted(d) == 0    \* mutant: CalledProcessError is caught and forgotten
InstrumentFailed(d) == IF d.llfi = FIExe /\ Dir.llfi = NotThere THEN 0 ELSE 1

Instrument ==
  \E d \in Instrumented(Dir, build) :
    /\ NextModel("instrument", "idle", InstrumentFailed(d))
    /\ Change(d)
    /\ UNCHANGED build

(* Changing directory, calling the script or decoding its output raises    *)
(* something else than CalledProcessError.                                 *)
InstrumentRaises ==
  /\ Exits("instrument", Uncaught)
  /\ \E d \in Instrumented(Dir, build) : Change(d)
  /\ UNCHANGED build

(* The user calls instrument.py in one of the directories.                 *)
InstrumentAlone(m) ==
  /\ script = "idle" /\ workdir[m].there /\ build < MaxBuild
  /\ build' = build + 1 /\ exit' = << >>
  /\ \E d \in Instrumented(workdir[m], build + 1) : workdir' = [workdir EXCEPT ![m] = d]
  /\ UNCHANGED <<script, todo, num_failed>>

-----------------------------------------------------------------------------
(* callProfile: without the directory it exits; otherwise profile.py runs  *)
(* the executable, if there is one, and fails if that does.  A program     *)
(* that dies early leaves the profile as it was, one that dies in          *)
(* endProfiling has emptied it.                                            *)
ProfileExits ==
  ~Dir.there /\ Exits("profile", MinusOne) /\ UNCHANGED <<workdir, build>>

Profiles == {Dir.prof} \cup (IF Dir.llfi >= ProfExe THEN {Dir.exe, Broken} ELSE {})

Profile ==
  /\ Dir.there
  /\ \E p \in Profiles :
       /\ NextModel("profile", "idle", IF p = Dir.exe /\ Dir.llfi >= ProfExe THEN 0 ELSE 1)
       /\ Change([Dir EXCEPT !.prof = p])
  /\ UNCHANGED build

ProfileRaises ==
  /\ Dir.there /\ Exits("profile", Uncaught)
  /\ \E p \in Profiles : Change([Dir EXCEPT !.prof = p])
  /\ UNCHANGED build

(* callInjectfault: injectfault.py fails without executable or profile     *)
(* (the options are some that draw a cycle); it may also fail or die after *)
(* some of its runs.                                                       *)
InjectExits ==
  ~Dir.there /\ Exits("inject", MinusOne) /\ UNCHANGED <<workdir, build>>

Startable == Dir.llfi = FIExe /\ Dir.prof \notin {Nothing, Broken}
Ran == [Dir EXCEPT !.results = @ \cup {<<Dir.exe, Dir.prof>>}]

Inject ==
  /\ Dir.there
  /\ \/ NextModel("inject", "idle", 1) /\ UNCHANGED workdir
     \/ \E failed \in 0 .. 1 :
          Startable /\ NextModel("inject", "idle", failed) /\ Change(Ran)
  /\ UNCHANGED build

InjectRaises ==
  /\ Dir.there /\ Exits("inject", Uncaught)
  /\ UNCHANGED workdir \/ (Startable /\ Change(Ran))
  /\ UNCHANGED build

(* The script is killed; what it was doing for the model is done in part.  *)
BatchKill ==
  /\ script # "idle"
  /\ script' = "idle" /\ todo' = 1 /\ num_failed' = 0 /\ exit' = << >>
  /\ \E d \in {Dir} \cup
        CASE script = "prepare"    -> {NoDir, NewDir}
          [] script = "split"      -> {}
          [] script = "instrument" -> Instrumented(Dir, build)
          [] script = "profile"    -> IF Dir.llfi >= ProfExe
                                        THEN {[Dir EXCEPT !.prof = Broken]} ELSE {}
          [] script = "inject"     -> IF Startable THEN {Ran} ELSE {} :
       Change(d)
  /\ UNCHANGED build

BatchNext ==
  \/ Call \/ StartFails
  \/ Prepare \/ PrepareFails \/ Split \/ SplitFails \/ Instrument \/ InstrumentRaises
  \/ \E m \in Model : InstrumentAlone(m)
  \/ ProfileExits \/ Profile \/ ProfileRaises \/ InjectExits \/ Inject \/ InjectRaises
  \/ BatchKill

BatchSpec == BatchInit /\ [][BatchNext]_batchVars

-----------------------------------------------------------------------------
WorkDir == [there : BOOLEAN, yaml : {Nothing} \cup Build, llfi : NotThere .. FIExe,
            exe : {Nothing} \cup Build, prof : {Broken, Nothing} \cup Build,
            results : SUBSET (Build \X Build)]

(* Type invariant; what depends on executables is there only with them.    *)
BatchTypeOK ==
  /\ workdir \in [Model -> WorkDir]
  /\ \A m \in Model : /\ workdir[m].results # {} => workdir[m].llfi = FIExe
                      /\ workdir[m].llfi # NotThere => workdir[m].exe # Nothing
                      /\ ~workdir[m].there => workdir[m] = NoDir
  /\ script \in {"idle", "prepare", "split", "instrument", "profile", "inject"}
  /\ todo \in Model /\ num_failed \in 0 .. NumModels /\ build \in 0 .. MaxBuild
  /\ script = "idle" => todo = 1
  /\ exit # << >> => script = "idle"

(* The results of a directory are all of the executable that is there, and *)
(* were planned on a profile of the same instrumentation: whatever failed  *)
(* or was killed, and whichever script was called again, nothing of an     *)
(* earlier batch is used.                                                  *)
SameBuild ==
  \A m \in Model : \A r \in workdir[m].results :
    r[1] = workdir[m].exe /\ r[2] = r[1] /\ workdir[m].prof \in {Broken, r[1]}

(* A script that ends with status 0 has done its work in every directory,  *)
(* and one that ends with n, in all but n of them at most, where n is not  *)
(* 1, which an exception may also give, nor 255 (and there are fewer than  *)
(* 256 directories: the system keeps eight bits of the status).            *)
Done(step, d) ==
  CASE step = "instrument" -> d.llfi = FIExe /\ d.exe = build
    [] step = "profile"    -> d.prof = d.exe /\ d.llfi >= ProfExe
    [] step = "inject"     -> d.results # {}

StatusCountsFailures ==
  exit # << >> /\ exit[2] \notin {Uncaught, MinusOne} =>
    Cardinality({m \in Model : ~Done(exit[1], workdir[m])}) <= exit[2]

-----------------------------------------------------------------------------
(* The invariants behind the proofs (BatchScripts_proofs).                 *)

(* What a directory holds: its profile and its runs are of its executable. *)
DirInv(d) ==
  /\ d.results # {} => d.llfi = FIExe /\ d.prof # Nothing
  /\ d.llfi # NotThere => d.exe # Nothing
  /\ d.llfi = NotThere => d.exe = Nothing /\ d.prof = Nothing
  /\ ~d.there => d = NoDir
  /\ d.prof \in {Nothing, Broken, d.exe}
  /\ \A r \in d.results : r[1] = d.exe /\ r[2] = d.exe

(* prepareDirs has come past this directory and no model has failed since. *)
Made(m) == (script = "prepare" /\ m < todo) \/ script = "split"

BuildInv ==
  /\ \A m \in Model : DirInv(workdir[m])
  /\ script \in {"prepare", "split", "instrument"} => build # 0
  /\ script \in {"prepare", "split"} => num_failed = 0
  /\ \A m \in Model : workdir[m].there \/ ~Made(m)
  /\ num_failed <= IF script = "idle" THEN NumModels ELSE todo - 1

(* A script has counted the models it has come past and not done.          *)
Steps == {"prepare", "split", "instrument", "profile", "inject"}

NotDone(step, n) == {m \in 1 .. n : ~Done(step, workdir[m])}

FailInv ==
  /\ script # "idle" => exit = << >>
  /\ script \in {"instrument", "profile", "inject"} =>
       Cardinality(NotDone(script, todo - 1)) <= num_failed
  /\ exit # << >> => exit[1] \in {"instrument", "profile", "inject"}
                     \/ exit[2] \in {Uncaught, MinusOne}
  /\ StatusCountsFailures
=============================================================================
