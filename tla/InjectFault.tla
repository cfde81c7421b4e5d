---------------------------- MODULE InjectFault -----------------------------
(***************************************************************************)
(* The fault injection driver, bin/injectfault.py, and the child processes *)
(* it runs, through the files they share: the base directory the program   *)
(* runs in and the result directories beside its executable.  The script   *)
(* may be started again later in the same directory, and may die at any    *)
(* point (an exception, the user), taking the child with it.               *)
(*                                                                         *)
(* A file is the set of the attempts that wrote to it; an attempt is a run *)
(* of one session of the script.  The input file as the user gave it is    *)
(* the empty set, so is the records file of a run without a fault.         *)
(***************************************************************************)
EXTENDS Integers, Sequences, FiniteSets, Functions, RuntimeConfig

CONSTANTS
  RunOption,    \* the runOption blocks of input.yaml, with their numOfRuns
  TotalCycles,  \* total_cycle in llfi.stat.prof.txt
  MaxSessions   \* bound on the times the script is started

ASSUME TotalAssumption   == TotalCycles \in Nat \ {0}
ASSUME SessionAssumption == MaxSessions \in Nat \ {0}
ASSUME OptionAssumption  ==
  /\ Len(RunOption) \in Nat \ {0}
  /\ \A i \in 1 .. Len(RunOption) :
       /\ RunOption[i].numOfRuns \in Nat \ {0}
       /\ \A key \in {"fi_cycle", "fi_index", "fi_reg_index", "fi_bit", "fi_num_bits",
                      "window_len", "fi_max_multiple", "window_len_multiple",
                      "startindex", "endindex"} : RunOption[i][key] \in Nat \cup {Absent}

VARIABLES
  pc,           \* where the script is, see PC
  session,      \* times it was started
  ii, index,    \* the option and the run it is at
  settings,     \* main's variables fi_type ... window_len_multiple_endindex
  need_to_calc_fi_cycle,  \* whether fi_cycle is drawn anew for every run
  configFile,   \* llfi.config.runtime.txt: <<its content>>, or << >> if it is
                \* missing or not complete
  dir,          \* the other files of the base directory that come and go
  dirBefore,    \* names dirSnapshot found
  prog_input,   \* saved input files
  inputList,    \* names of the input files to replenish
  child,        \* "none", "running", or how it ended
  stat_dir, prog_output, std_output, error_output,  \* result directories, by run
  \* history
  outcome,      \* what each attempt did and how it ended
  interrupted   \* the script has died in some session

optionVars == <<settings, need_to_calc_fi_cycle>>
scriptVars == <<session, ii, index, optionVars, inputList>>
resultVars == <<stat_dir, prog_output, std_output, error_output>>
vars == <<pc, scriptVars, configFile, dir, dirBefore, prog_input, child, resultVars,
          outcome, interrupted>>

PC == {"stopped", "option", "write", "launch", "wait", "move", "stdout", "replenish",
       "report"}
Result  == {"exit0", "exit1", "signal", "timeout"}
Names   == {"faults", "out", "input"}
RunIds  == UNION {{<<i, j>> : j \in 1 .. RunOption[i].numOfRuns} : i \in 1 .. Len(RunOption)}
RunId   == <<ii, index>>
Attempt == <<session, ii, index>>

(* The option's record without the number of its runs; no option. *)
OptionOf(i) == Restrict(RunOption[i], Keys)
NoOption == [key \in Keys |-> NoValue(key)]

Nowhere == [n \in {} |-> {}]

(* Replace or add a file of a directory; remove one. *)
With(d, n, content) == [m \in DOMAIN d \cup {n} |-> IF m = n THEN content ELSE d[m]]
Without(d, n) == Restrict(d, DOMAIN d \ {n})

Init ==
  /\ pc = "stopped" /\ session = 0
  /\ ii = 0 /\ index = 0
  /\ settings = NoOption /\ need_to_calc_fi_cycle = FALSE
  /\ configFile = << >>
  /\ dir = [n \in {"input"} |-> {}]
  /\ dirBefore = {} /\ prog_input = Nowhere /\ inputList = {}
  /\ child = "none"
  /\ stat_dir = Nowhere /\ prog_output = Nowhere
  /\ std_output = Nowhere /\ error_output = Nowhere
  /\ outcome = Nowhere /\ interrupted = FALSE

-----------------------------------------------------------------------------
(* The script starts, without a variable of main: config() keeps what the  *)
(* result directories hold, storeInputFiles copies the input files that    *)
(* exist.                                                                  *)
Start ==
  /\ pc = "stopped" /\ session < MaxSessions
  /\ session' = session + 1
  /\ ii' = 1 /\ index' = 1 /\ pc' = "option"
  /\ inputList' = {"input"} \cap DOMAIN dir
  /\ prog_input' = IF "input" \in DOMAIN dir THEN With(prog_input, "input", dir["input"])
                   ELSE prog_input
  /\ settings' = NoOption /\ UNCHANGED need_to_calc_fi_cycle
  /\ UNCHANGED <<configFile, dir, dirBefore, child, resultVars, outcome, interrupted>>

(* All pins for more than one run: the script asks whether to go on.       *)
Asks(i) ==
  /\ RunOption[i].numOfRuns > 1 /\ Given(RunOption[i], "fi_bit")
  /\ RunOption[i].fi_reg_index > 0

(* The next option: main deletes the variables that the option before has *)
(* left, reads those the new one gives, and adds the defaults.             *)
OneForgotten == Keys \ {"fi_max_multiple"}   \* mutant: one is not deleted

Deleted == Keys

Reset(locals) ==
  [key \in Keys |-> IF key \in Deleted THEN NoValue(key) ELSE locals[key]]

Assigned(locals, opt) ==
  [key \in Keys |-> IF Given(opt, key) THEN opt[key] ELSE locals[key]]

(* A bad option, or the user's no, ends the script.                        *)
ReadOption ==
  /\ pc = "option"
  /\ LET opt == OptionOf(ii) read == Assigned(Reset(settings), opt) IN
       /\ settings' = Defaulted(read, TotalCycles)
       /\ need_to_calc_fi_cycle' = (~Given(read, "fi_cycle") /\ ~Given(read, "fi_index"))
       /\ \/ /\ ~Refused(opt, read, TotalCycles)
             /\ pc' = "write"
             /\ UNCHANGED interrupted
          \/ /\ Refused(opt, read, TotalCycles) \/ Asks(ii)
             /\ pc' = "stopped"
             /\ interrupted' = TRUE
  /\ UNCHANGED <<session, ii, index, inputList, configFile, dir, dirBefore, prog_input>>
  /\ UNCHANGED <<child, resultVars, outcome>>

(* The cycle of the run is drawn into the variable that a pinned one has.  *)
Drawn ==
  IF need_to_calc_fi_cycle
    THEN {[settings EXCEPT !.fi_cycle = first] : first \in 1 .. TotalCycles}
    ELSE {settings}

(* The configuration file of the run is written over the one before, from  *)
(* the variables ...                                                       *)
WriteConfig ==
  /\ pc = "write"
  /\ settings' \in Drawn
  /\ ~CannotWrite(settings')
  /\ \E f \in RunFiles(settings', TotalCycles) : configFile' = <<f>>
  /\ pc' = "launch"
  /\ UNCHANGED <<session, ii, index, need_to_calc_fi_cycle, inputList, dir, dirBefore>>
  /\ UNCHANGED <<prog_input, child, resultVars, outcome, interrupted>>

(* ... or it cannot be: the exception ends the script, and leaves a part   *)
(* of a file.                                                              *)
WriteFails ==
  /\ pc = "write"
  /\ settings' \in Drawn
  /\ CannotWrite(settings')
  /\ configFile' = << >>
  /\ pc' = "stopped" /\ interrupted' = TRUE
  /\ UNCHANGED <<session, ii, index, need_to_calc_fi_cycle, inputList, dir, dirBefore>>
  /\ UNCHANGED <<prog_input, child, resultVars, outcome>>

(* execute(): the directory is listed and the program started. *)
Launch ==
  /\ pc = "launch"
  /\ dirBefore' = DOMAIN dir
  /\ child' = "running"
  /\ outcome' = With(outcome, Attempt, {})
  /\ pc' = "wait"
  /\ UNCHANGED <<scriptVars, configFile, dir, prog_input, resultVars, interrupted>>

-----------------------------------------------------------------------------
(* The child: initInjections opens the records file for appending, faults  *)
(* are recorded in it; the program writes its output file anew, may alter  *)
(* or delete its input, and exits, crashes, or runs for ever.              *)
ChildDoes(deed, d) ==
  /\ pc = "wait" /\ child = "running"
  /\ dir' = d
  /\ outcome' = With(outcome, Attempt, outcome[Attempt] \cup {deed})
  /\ UNCHANGED <<pc, scriptVars, configFile, dirBefore, prog_input, child, resultVars>>
  /\ UNCHANGED interrupted

Opens   == ChildDoes("opened",
             With(dir, "faults", IF "faults" \in DOMAIN dir THEN dir["faults"] ELSE {}))
Records == "faults" \in DOMAIN dir
             /\ ChildDoes("recorded", With(dir, "faults", dir["faults"] \cup {Attempt}))
Outputs == ChildDoes("output", With(dir, "out", {Attempt}))
Alters  == "input" \in DOMAIN dir
             /\ ChildDoes("altered", With(dir, "input", dir["input"] \cup {Attempt}))
Deletes == "input" \in DOMAIN dir /\ ChildDoes("deleted", Without(dir, "input"))

ChildEnds(r) ==
  /\ pc = "wait" /\ child = "running"
  /\ child' = r
  /\ outcome' = With(outcome, Attempt, outcome[Attempt] \cup {r})
  /\ UNCHANGED <<pc, scriptVars, configFile, dir, dirBefore, prog_input, resultVars>>
  /\ UNCHANGED interrupted

Child ==
  /\ pc = "wait" /\ child = "running"
  /\ \/ "opened" \notin outcome[Attempt] /\ Opens
     \/ "opened" \in outcome[Attempt] /\ (Records \/ Outputs \/ Alters \/ Deletes)
     \/ \E r \in {"exit0", "exit1", "signal"} : ChildEnds(r)

-----------------------------------------------------------------------------
(* communicate(timeout) expires: the child is killed. *)
NoTimeout == FALSE       \* mutant: communicate() without a timeout, as in profile.py

Timeout ==
  /\ pc = "wait" /\ child = "running"
  /\ child' = "timeout"
  /\ outcome' = With(outcome, Attempt, outcome[Attempt] \cup {"timeout"})
  /\ UNCHANGED <<pc, scriptVars, configFile, dir, dirBefore, prog_input, resultVars>>
  /\ UNCHANGED interrupted

(* communicate returns. *)
Reap ==
  /\ pc = "wait" /\ child \in Result
  /\ pc' = "move"
  /\ UNCHANGED <<scriptVars, configFile, dir, dirBefore, prog_input, child, resultVars>>
  /\ UNCHANGED <<outcome, interrupted>>

(* moveOutput, file after file: what is new since the snapshot moves under *)
(* the id of the run, over what the result directory has of that name; a   *)
(* library file of size 0 is deleted.                                      *)
AnyOutput == DOMAIN dir \ {"input"}   \* mutant: files found before the run move too

NewFiles == DOMAIN dir \ dirBefore

MoveFile(n) ==
  /\ pc = "move" /\ n \in NewFiles
  /\ dir' = Without(dir, n)
  /\ stat_dir' = IF n = "faults" /\ dir[n] # {} THEN With(stat_dir, RunId, dir[n])
                 ELSE stat_dir
  /\ prog_output' = IF n # "faults" THEN With(prog_output, RunId, dir[n]) ELSE prog_output
  /\ UNCHANGED <<pc, scriptVars, configFile, dirBefore, prog_input, child, std_output>>
  /\ UNCHANGED <<error_output, outcome, interrupted>>

(* Nothing is left to move. *)
AllMoved ==
  /\ pc = "move" /\ NewFiles = {}
  /\ pc' = "stdout"
  /\ UNCHANGED <<scriptVars, configFile, dir, dirBefore, prog_input, child, resultVars>>
  /\ UNCHANGED <<outcome, interrupted>>

WriteStdout ==
  /\ pc = "stdout"
  /\ std_output' = With(std_output, RunId, {Attempt})
  /\ pc' = "replenish"
  /\ UNCHANGED <<scriptVars, configFile, dir, dirBefore, prog_input, child, stat_dir>>
  /\ UNCHANGED <<prog_output, error_output, outcome, interrupted>>

(* replenishInput: input files that are missing are copied back. *)
NoReplenish ==           \* mutant: they are not
  /\ pc = "replenish" /\ pc' = "report"
  /\ UNCHANGED <<scriptVars, configFile, dir, dirBefore, prog_input, child, resultVars>>
  /\ UNCHANGED <<outcome, interrupted>>

Replenish ==
  /\ pc = "replenish"
  /\ dir' = [n \in DOMAIN dir \cup inputList |-> IF n \in DOMAIN dir THEN dir[n]
                                                ELSE prog_input[n]]
  /\ pc' = "report"
  /\ UNCHANGED <<scriptVars, configFile, dirBefore, prog_input, child, resultVars>>
  /\ UNCHANGED <<outcome, interrupted>>

(* An error file unless the program returned 0; then the next run, or the  *)
(* next option, or the end of the script.                                  *)
SignalsOnly == IF child = "signal" THEN With(error_output, RunId, {Attempt})
               ELSE error_output         \* mutant: a positive code is no failure

ErrorFiles == IF child # "exit0" THEN With(error_output, RunId, {Attempt})
              ELSE error_output

StopsEarly == index >= RunOption[ii].numOfRuns - 1   \* mutant: range(1, numOfRuns)

OneTooMany == index > RunOption[ii].numOfRuns        \* mutant: range(0, numOfRuns + 1)

OptionDone == index = RunOption[ii].numOfRuns

Report ==
  /\ pc = "report"
  /\ error_output' = ErrorFiles
  /\ child' = "none"
  /\ outcome' = With(outcome, Attempt, outcome[Attempt] \cup {"reported"})
  /\ CASE ~OptionDone -> index' = index + 1 /\ pc' = "write" /\ UNCHANGED ii
       [] OptionDone /\ ii < Len(RunOption) ->
            ii' = ii + 1 /\ index' = 1 /\ pc' = "option"
       [] OTHER -> pc' = "stopped" /\ UNCHANGED <<ii, index>>
  /\ UNCHANGED <<session, optionVars, inputList, configFile, dir, dirBefore, prog_input>>
  /\ UNCHANGED <<stat_dir, prog_output, std_output, interrupted>>

(* The script dies at any other point, and the child with it; the file it  *)
(* was writing may be cut short.                                           *)
Dies ==
  /\ pc # "stopped"
  /\ pc' = "stopped" /\ child' = "none" /\ interrupted' = TRUE
  /\ configFile' \in {configFile} \cup (IF pc = "write" THEN {<< >>} ELSE {})
  /\ UNCHANGED <<scriptVars, dir, dirBefore, prog_input, resultVars, outcome>>

Finished == pc = "stopped" /\ session = MaxSessions /\ UNCHANGED vars

Script == \/ ReadOption \/ WriteConfig \/ WriteFails \/ Launch \/ Timeout \/ Reap
          \/ \E n \in Names : MoveFile(n)
          \/ AllMoved \/ WriteStdout \/ Replenish \/ Report

Next == Start \/ Script \/ Child \/ Dies \/ Finished

Spec == Init /\ [][Next]_vars

(* The script and its timer go on; the child owes nothing.                 *)
FairSpec == Spec /\ WF_vars(Script)

-----------------------------------------------------------------------------
Attempts == {<<s, id[1], id[2]>> : s \in 1 .. MaxSessions, id \in RunIds}
Files(d) == \A n \in DOMAIN d : \A a \in d[n] : a \in Attempts

(* Type invariant. *)
TypeOK ==
  /\ pc \in PC /\ session \in 0 .. MaxSessions
  /\ DOMAIN settings = Keys /\ need_to_calc_fi_cycle \in BOOLEAN
  /\ Len(configFile) <= 1
  /\ DOMAIN dir \subseteq Names /\ Files(dir)
  /\ dirBefore \subseteq Names
  /\ DOMAIN prog_input \subseteq {"input"} /\ inputList \subseteq DOMAIN prog_input
  /\ child \in {"none", "running"} \cup Result
  /\ child = "running" => pc = "wait"
  /\ \A d \in {stat_dir, prog_output, std_output, error_output} :
       DOMAIN d \subseteq RunIds /\ Files(d)
  /\ \A a \in DOMAIN outcome : a \in Attempts
  /\ pc # "stopped" => RunId \in RunIds

(* What a directory of results says of an attempt. *)
IdOf(a) == <<a[2], a[3]>>
Exactly(d, a, deed) == (IdOf(a) \in DOMAIN d <=> deed) /\ (deed => d[IdOf(a)] = {a})

Reported == {a \in DOMAIN outcome : "reported" \in outcome[a] /\ a[1] = session}

(* In directories that start empty, the results filed under a run's id are *)
(* those of this run and complete: its records, its output, its standard   *)
(* output, and an error file if and only if it did not return 0, whatever  *)
(* the run did, however it ended, and wherever the script died later.      *)
RunsAttributed ==
  session = 1 =>
    \A a \in Reported :
      /\ Exactly(stat_dir, a, "recorded" \in outcome[a])
      /\ Exactly(prog_output, a, "output" \in outcome[a])
      /\ Exactly(std_output, a, TRUE)
      /\ Exactly(error_output, a, "exit0" \notin outcome[a])

(* Never, after any number of sessions and wherever they died, does a      *)
(* result file mix what two runs wrote, or carry another run's id.         *)
NoMixedResults ==
  \A d \in {stat_dir, prog_output, std_output, error_output} :
    \A id \in DOMAIN d : \E a \in Attempts : IdOf(a) = id /\ d[id] = {a}

(* As long as no session died, every run finds the same files in the base  *)
(* directory: the outputs of the runs before are gone, the input is there. *)
(* Its content is the user's, but for what runs altered in it; and when a  *)
(* run deletes it, what the runs of the session altered up to then goes.   *)
Precedes(b, a) == b[2] < a[2] \/ (b[2] = a[2] /\ b[3] < a[3])

Deleters == {b \in DOMAIN outcome : b[1] = session /\ "deleted" \in outcome[b]}
Altered(a) == /\ a \in DOMAIN outcome /\ "altered" \in outcome[a]
              /\ a[1] = session => \A b \in Deleters : Precedes(b, a)

RunsStartAlike ==
  pc = "launch" /\ ~interrupted =>
    DOMAIN dir = {"input"} /\ \A a \in dir["input"] : Altered(a)

(* A run's configuration file is one that a script with its option alone   *)
(* writes: no variable keeps a value of the options or the runs before,    *)
(* neither one that was read nor a default nor a cycle that was drawn.     *)
OwnOption == pc = "launch" => configFile[1] \in ConfigFiles(OptionOf(ii), TotalCycles)

(* The cycles of the file lie in the profile and increase, in the order    *)
(* the runtime takes them up; only the last cycle may come twice.          *)
PlanIncreases ==
  pc = "launch" /\ configFile[1].fi_cycle # Absent =>
    LET f == configFile[1]
        s == <<f.fi_cycle>>
               \o (IF f.fi_second_cycle # Absent THEN <<f.fi_second_cycle>> ELSE << >>)
               \o f.fi_next_cycles
    IN /\ \A k \in 1 .. Len(s) : s[k] \in 1 .. TotalCycles
       /\ \A k \in 1 .. Len(s) - 1 : s[k] < s[k + 1] \/ (k = 1 /\ s[k] = TotalCycles)

(* A script that was not cut short has reported every run of every option, *)
(* in each of its sessions.                                                *)
AllRunsDone ==
  pc = "stopped" /\ ~interrupted =>
    \A a \in Attempts : a[1] <= session =>
      a \in DOMAIN outcome /\ "reported" \in outcome[a]

(* The script always comes to its end, also when a program hangs.          *)
ScriptEnds == pc # "stopped" ~> pc = "stopped"

-----------------------------------------------------------------------------
(* The invariants behind the proofs (InjectFault_proofs).                  *)

(* Where the script is, there is a run; once its option is read, main's    *)
(* variables are those of a script with this option alone.                 *)
OptionRead ==
  LET opt == OptionOf(ii) IN
  /\ Accepted(opt, TotalCycles)
  /\ need_to_calc_fi_cycle = (~Given(opt, "fi_cycle") /\ ~Given(opt, "fi_index"))
  /\ \E first \in FirstCycles(opt, TotalCycles) \cup {opt.fi_cycle} :
       settings = [Defaulted(opt, TotalCycles) EXCEPT !.fi_cycle = first]

PlaceInv ==
  /\ pc # "stopped" => /\ session \in 1 .. MaxSessions
                       /\ ii \in 1 .. Len(RunOption)
                       /\ index \in 1 .. RunOption[ii].numOfRuns
  /\ pc \in PC \ {"stopped", "option"} => OptionRead
  /\ OwnOption

(* What is new in the base directory was written by the run under way.     *)
FilesInv ==
  pc \in {"wait", "move"} =>
    /\ "input" \in DOMAIN dir => "input" \in dirBefore
    /\ "faults" \in NewFiles => dir["faults"] \subseteq {Attempt}
    /\ "out" \in NewFiles => dir["out"] = {Attempt}

(* Up to the first death, every run leaves the directory as it found it.   *)
AlikeInv ==
  ~interrupted =>
    /\ pc \in {"stopped", "option", "write", "launch", "report"} => DOMAIN dir = {"input"}
    /\ pc \in {"stdout", "replenish"} => DOMAIN dir \subseteq {"input"}
    /\ pc \in {"wait", "move"} => dirBefore = {"input"}
    /\ pc # "stopped" => inputList = {"input"}

(* The attempts made are those of the sessions before, the runs before     *)
(* this one, and this one once it is launched.                             *)
OutcomeInv ==
  /\ pc \in {"wait", "move", "stdout", "replenish", "report"} => Attempt \in DOMAIN outcome
  /\ \A b \in DOMAIN outcome :
       /\ b[1] <= session
       /\ pc # "stopped" /\ b[1] = session =>
            \/ Precedes(b, Attempt)
            \/ b = Attempt /\ pc \in {"wait", "move", "stdout", "replenish", "report"}

(* The copy of the input file has nothing of this session, the input file  *)
(* what is said of it, and a run that has deleted it finds it gone.        *)
InputInv ==
  ~interrupted =>
    /\ pc # "stopped" => \A a \in prog_input["input"] : Altered(a) /\ a[1] < session
    /\ "input" \in DOMAIN dir => \A a \in dir["input"] : Altered(a)
    /\ pc \in {"wait", "move", "stdout", "replenish"} /\ Attempt \in Deleters =>
         "input" \notin DOMAIN dir

(* The runs before this one are reported.                                  *)
IsReported(a) == a \in DOMAIN outcome /\ "reported" \in outcome[a]
Earlier(a) == a[2] < ii \/ (a[2] = ii /\ a[3] < index)

DoneInv ==
  ~interrupted =>
    \A a \in Attempts :
      \/ a[1] < session
      \/ a[1] = session /\ (pc = "stopped" \/ Earlier(a))
      => IsReported(a)

(* In the first session: nothing is filed for a run that has not ended,    *)
(* and for the one whose files are being moved, what it did is either      *)
(* still in the base directory or filed.                                   *)
Untouched(id) ==
  \A d \in {stat_dir, prog_output, std_output, error_output} : id \notin DOMAIN d

StillHere(n, d, deed) ==
  IF deed THEN \/ n \in DOMAIN dir /\ dir[n] = {Attempt} /\ RunId \notin DOMAIN d
               \/ n \notin DOMAIN dir /\ RunId \in DOMAIN d /\ d[RunId] = {Attempt}
  ELSE RunId \notin DOMAIN d /\ (n \in DOMAIN dir => n = "faults" /\ dir[n] = {})

Did(deed) == deed \in outcome[Attempt]

ReportedEarlier == pc # "stopped" => \A a \in Reported : Earlier(a)

NotYet ==
  /\ pc # "stopped" =>
       \A id \in RunIds : id[1] > ii \/ (id[1] = ii /\ id[2] > index) => Untouched(id)
  /\ pc \in {"option", "write", "launch", "wait"} => Untouched(RunId)

UnderWay ==
  /\ pc \in {"wait", "move", "stdout", "replenish", "report"} =>
       /\ Attempt \in DOMAIN outcome /\ RunId \notin DOMAIN error_output
       /\ Did("exit0") <=> child = "exit0"
  /\ pc \in {"wait", "move"} =>
       /\ StillHere("faults", stat_dir, Did("recorded"))
       /\ StillHere("out", prog_output, Did("output"))
  /\ pc \in {"move", "stdout"} => RunId \notin DOMAIN std_output
  /\ pc \in {"stdout", "replenish", "report"} =>
       /\ Exactly(stat_dir, Attempt, Did("recorded"))
       /\ Exactly(prog_output, Attempt, Did("output"))
  /\ pc \in {"replenish", "report"} => Exactly(std_output, Attempt, TRUE)

AttributedInv ==
  /\ session = 0 => /\ pc = "stopped" /\ ~interrupted /\ DOMAIN outcome = {}
                    /\ \A id \in RunIds : Untouched(id)
  /\ session = 1 => /\ RunsAttributed /\ ReportedEarlier /\ NotYet /\ UnderWay
                    /\ pc # "stopped" => ~interrupted

-----------------------------------------------------------------------------
(* What a comment says, where the code does something else.                *)

(* execute()'s comment at replenishInput: "for cases where program deletes *)
(* input or alters them each run".  Every run starts with the input as the *)
(* user gave it.                                                           *)
InputRestored == pc = "launch" /\ ~interrupted => dir = [n \in {"input"} |-> {}]
=============================================================================
