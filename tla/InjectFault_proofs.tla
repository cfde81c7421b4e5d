------------------------- MODULE InjectFault_proofs --------------------------
(***************************************************************************)
(* Proofs about the fault injection driver, for any number of options,     *)
(* runs and sessions.                                                      *)
(***************************************************************************)
EXTENDS InjectFault, SequenceTheorems, TLAPS

LEMMA OptionKeys == \A i : DOMAIN OptionOf(i) = Keys
BY DEF OptionOf, Restrict

(* A directory with a file more, or with one less.                         *)
LEMMA WithFile ==
  ASSUME NEW d, NEW n, NEW c
  PROVE  /\ DOMAIN With(d, n, c) = DOMAIN d \cup {n}
         /\ With(d, n, c)[n] = c
         /\ \A m \in DOMAIN d \ {n} : With(d, n, c)[m] = d[m]
BY DEF With

LEMMA WithoutFile ==
  ASSUME NEW d, NEW n
  PROVE  /\ DOMAIN Without(d, n) = DOMAIN d \ {n}
         /\ \A m \in DOMAIN d \ {n} : Without(d, n)[m] = d[m]
BY DEF Without, Restrict

(* The script is at a run, with the option of the run.                     *)
Place == pc \in PC /\ session \in 0 .. MaxSessions /\ PlaceInv

LEMMA RunsCounted ==
  ASSUME NEW i \in 1 .. Len(RunOption)
  PROVE  RunOption[i].numOfRuns \in Nat \ {0} /\ 1 \in 1 .. RunOption[i].numOfRuns
BY OptionAssumption

(* The variables that main has once it has read the option: what it gives, *)
(* and nothing of the options before.                                      *)
LEMMA ReadAlone == Assigned(Reset(settings), OptionOf(ii)) = OptionOf(ii)
<1> DEFINE opt == OptionOf(ii)
<1>1. opt = [key \in Keys |-> opt[key]]
  BY DEF OptionOf, Restrict
<1> HIDE DEF opt
<1>2. Reset(settings) = [key \in Keys |-> NoValue(key)]
  BY DEF Reset, Deleted
<1>3. \A key \in Keys : ~Given(opt, key) => opt[key] = NoValue(key)
  BY DEF Given
<1>4. Assigned(Reset(settings), opt) = [key \in Keys |-> opt[key]]
  BY <1>2, <1>3 DEF Assigned
<1>5. QED
  BY <1>1, <1>4 DEF opt

LEMMA DefaultedKeys == \A opt, total : DOMAIN Defaulted(opt, total) = DOMAIN opt
BY DEF Defaulted

LEMMA DefaultedCycle ==
  ASSUME NEW opt, DOMAIN opt = Keys, NEW total
  PROVE  Defaulted(opt, total) = [Defaulted(opt, total) EXCEPT !.fi_cycle = opt.fi_cycle]
BY DEF Defaulted, Keys

LEMMA SettingsRead == ReadOption /\ ~Refused(OptionOf(ii), OptionOf(ii), TotalCycles) =>
                        OptionRead'
<1> SUFFICES ASSUME ReadOption, ~Refused(OptionOf(ii), OptionOf(ii), TotalCycles)
             PROVE  OptionRead'
  OBVIOUS
<1> DEFINE opt == OptionOf(ii)
<1>1. opt' = opt
  BY DEF ReadOption, OptionOf
<1>2. /\ settings' = Defaulted(opt, TotalCycles)
      /\ need_to_calc_fi_cycle' = (~Given(opt, "fi_cycle") /\ ~Given(opt, "fi_index"))
  BY ReadAlone DEF ReadOption
<1>3. DOMAIN opt = Keys
  BY OptionKeys
<1> HIDE DEF opt
<1>4. settings' = [Defaulted(opt, TotalCycles) EXCEPT !.fi_cycle = opt.fi_cycle]
  BY <1>2, <1>3, DefaultedCycle
<1>5. Accepted(opt, TotalCycles)
  BY DEF Accepted, opt
<1>6. QED
  BY <1>1, <1>2, <1>4, <1>5 DEF OptionRead, opt

(* The file is written from the variables, the cycle having been drawn.    *)
LEMMA SettingsDrawn ==
  ASSUME OptionRead, settings' \in Drawn
  PROVE  \E first \in FirstCycles(OptionOf(ii), TotalCycles) :
           settings' = [Defaulted(OptionOf(ii), TotalCycles) EXCEPT !.fi_cycle = first]
<1> DEFINE opt == OptionOf(ii)
           read == Defaulted(opt, TotalCycles)
<1>1. PICK old \in FirstCycles(opt, TotalCycles) \cup {opt.fi_cycle} :
        settings = [read EXCEPT !.fi_cycle = old]
  BY DEF OptionRead
<1>2. need_to_calc_fi_cycle = (~Given(opt, "fi_cycle") /\ ~Given(opt, "fi_index"))
  BY DEF OptionRead
<1> HIDE DEF opt, read
<1>3. CASE need_to_calc_fi_cycle
  <2>1. PICK first \in 1 .. TotalCycles : settings' = [settings EXCEPT !.fi_cycle = first]
    BY <1>3 DEF Drawn
  <2>2. settings' = [read EXCEPT !.fi_cycle = first]
    BY <1>1, <2>1
  <2>3. first \in FirstCycles(opt, TotalCycles)
    BY <1>2, <1>3 DEF FirstCycles
  <2>4. QED
    BY <2>2, <2>3 DEF opt, read
<1>4. CASE ~need_to_calc_fi_cycle
  <2>1. settings' = settings
    BY <1>4 DEF Drawn
  <2>2. opt.fi_cycle \in FirstCycles(opt, TotalCycles)
    BY <1>2, <1>4 DEF FirstCycles, Given, NoValue
  <2>3. QED
    BY <1>1, <2>1, <2>2 DEF opt, read
<1>5. QED
  BY <1>3, <1>4

LEMMA PlaceInit == Init => Place
BY SessionAssumption DEF Init, Place, PC, PlaceInv, OwnOption

LEMMA PlaceStep == Place /\ [Next]_vars => Place'
<1> SUFFICES ASSUME Place, [Next]_vars PROVE Place'
  OBVIOUS
<1>0. /\ pc \in PC /\ session \in 0 .. MaxSessions /\ PlaceInv
      /\ MaxSessions \in Nat \ {0} /\ Len(RunOption) \in Nat \ {0}
  BY SessionAssumption, OptionAssumption DEF Place
<1>1. CASE Start
  <2>1. session' \in 1 .. MaxSessions /\ ii' = 1 /\ index' = 1 /\ pc' = "option"
    BY <1>0, <1>1 DEF Start
  <2>2. ii' \in 1 .. Len(RunOption) /\ index' \in 1 .. RunOption[ii'].numOfRuns
    BY <1>0, <2>1, RunsCounted
  <2>3. QED
    BY <2>1, <2>2 DEF Place, PC, PlaceInv, OwnOption
<1>2. CASE ReadOption
  <2>1. CASE pc' = "write"
    <3>1. ~Refused(OptionOf(ii), OptionOf(ii), TotalCycles)
      BY <1>2, <2>1, ReadAlone DEF ReadOption
    <3>2. OptionRead'
      BY <1>2, <3>1, SettingsRead
    <3>3. QED
      BY <1>0, <1>2, <2>1, <3>2 DEF ReadOption, Place, PC, PlaceInv, OwnOption
  <2>2. CASE pc' = "stopped"
    BY <1>0, <1>2, <2>2 DEF ReadOption, Place, PC, PlaceInv, OwnOption
  <2>3. QED
    BY <1>2, <2>1, <2>2 DEF ReadOption
<1>3. CASE WriteConfig
  <2> DEFINE opt == OptionOf(ii)
  <2>1. PICK f \in RunFiles(settings', TotalCycles) : configFile' = <<f>>
    BY <1>3 DEF WriteConfig
  <2>2. OptionRead /\ settings' \in Drawn
    BY <1>0, <1>3 DEF WriteConfig, PlaceInv, PC
  <2>3. PICK first \in FirstCycles(opt, TotalCycles) :
          settings' = [Defaulted(opt, TotalCycles) EXCEPT !.fi_cycle = first]
    BY <2>2, SettingsDrawn
  <2>4. opt' = opt /\ need_to_calc_fi_cycle' = need_to_calc_fi_cycle
    BY <1>3 DEF WriteConfig, OptionOf
  <2> HIDE DEF opt
  <2>5. configFile'[1] \in ConfigFiles(opt, TotalCycles)
    BY <2>1, <2>3 DEF ConfigFiles
  <2>6. OptionRead'
    BY <2>2, <2>3, <2>4 DEF OptionRead, opt
  <2>7. OwnOption'
    BY <2>4, <2>5 DEF OwnOption, opt
  <2>8. QED
    BY <1>0, <1>3, <2>6, <2>7 DEF WriteConfig, Place, PC, PlaceInv
<1>4. CASE Report
  <2>1. pc = "report" /\ ii \in 1 .. Len(RunOption) /\ index \in 1 .. RunOption[ii].numOfRuns
    BY <1>0, <1>4 DEF Report, PlaceInv
  <2>2. session' = session /\ optionVars' = optionVars /\ session \in 1 .. MaxSessions
    BY <1>0, <1>4, <2>1 DEF Report, PlaceInv
  <2>3. CASE ~OptionDone
    <3>1. index' = index + 1 /\ pc' = "write" /\ ii' = ii
      BY <1>4, <2>3 DEF Report
    <3>2. index' \in 1 .. RunOption[ii].numOfRuns
      BY <2>1, <2>3, <3>1, RunsCounted DEF OptionDone
    <3>3. OptionRead'
      BY <1>0, <2>1, <2>2, <3>1 DEF PlaceInv, PC, OptionRead, OptionOf, optionVars
    <3>4. QED
      BY <2>1, <2>2, <3>1, <3>2, <3>3 DEF Place, PC, PlaceInv, OwnOption
  <2>4. CASE OptionDone /\ ii < Len(RunOption)
    <3>1. ii' = ii + 1 /\ index' = 1 /\ pc' = "option"
      BY <1>4, <2>4 DEF Report
    <3>2. ii' \in 1 .. Len(RunOption) /\ index' \in 1 .. RunOption[ii'].numOfRuns
      BY <1>0, <2>1, <2>4, <3>1, RunsCounted
    <3>3. QED
      BY <2>2, <3>1, <3>2 DEF Place, PC, PlaceInv, OwnOption
  <2>5. CASE OptionDone /\ ~(ii < Len(RunOption))
    <3>1. pc' = "stopped"
      BY <1>4, <2>5 DEF Report
    <3>2. QED
      BY <1>0, <2>2, <3>1 DEF Place, PC, PlaceInv, OwnOption
  <2>6. QED
    BY <2>3, <2>4, <2>5
<1>5. CASE Launch \/ Timeout \/ Reap \/ (\E n \in Names : MoveFile(n)) \/ AllMoved
             \/ WriteStdout \/ Replenish
  <2>1. /\ UNCHANGED <<session, ii, index, optionVars>>
        /\ pc \in PC \ {"stopped", "option"} /\ pc' \in PC \ {"stopped", "option", "launch"}
    BY <1>5 DEF Launch, Timeout, Reap, MoveFile, AllMoved, WriteStdout, Replenish, PC,
       scriptVars
  <2>2. OptionRead'
    BY <1>0, <2>1 DEF PlaceInv, OptionRead, OptionOf, optionVars
  <2>3. QED
    BY <1>0, <2>1, <2>2 DEF Place, PlaceInv, OwnOption
<1>6. CASE Child
  <2>1. UNCHANGED <<pc, session, ii, index, optionVars>> /\ pc = "wait"
    BY <1>6 DEF Child, Opens, Records, Outputs, Alters, Deletes, ChildDoes, ChildEnds,
       scriptVars
  <2>2. OptionRead'
    BY <1>0, <2>1 DEF PlaceInv, OptionRead, OptionOf, optionVars, PC
  <2>3. QED
    BY <1>0, <2>1, <2>2 DEF Place, PlaceInv, OwnOption, PC
<1>7. CASE WriteFails \/ Dies
  BY <1>0, <1>7 DEF WriteFails, Dies, scriptVars, Place, PlaceInv, OwnOption, PC
<1>8. CASE UNCHANGED vars
  <2>1. UNCHANGED <<pc, session, ii, index, optionVars, configFile>>
    BY <1>8 DEF vars, scriptVars
  <2>2. OptionRead' <=> OptionRead
    BY <2>1 DEF OptionRead, OptionOf, optionVars
  <2>3. QED
    BY <1>0, <2>1, <2>2 DEF Place, PlaceInv, OwnOption, OptionOf
<1>9. QED
  BY <1>1, <1>2, <1>3, <1>4, <1>5, <1>6, <1>7, <1>8 DEF Next, Script, Finished

LEMMA PlaceCorrect == Spec => []Place
<1>1. QED
  BY PlaceInit, PlaceStep, PTL DEF Spec

(* A run's configuration file comes from its own option alone.             *)
THEOREM OwnOptionCorrect == Spec => []OwnOption
<1>1. Place => OwnOption
  BY DEF Place, PlaceInv
<1>2. QED
  BY <1>1, PlaceCorrect, PTL

-----------------------------------------------------------------------------
(* The keys of an option that hold numbers.                                *)
NumberKeys == Keys \ {"fi_type"}

LEMMA OptionValues ==
  ASSUME NEW i \in 1 .. Len(RunOption)
  PROVE  \A key \in NumberKeys : OptionOf(i)[key] \in Nat \cup {Absent}
BY OptionAssumption DEF OptionOf, Restrict, Keys, NumberKeys

(* What the file of an accepted option is written from.                    *)
LEMMA DefaultedValues ==
  ASSUME NEW opt, DOMAIN opt = Keys, \A key \in NumberKeys : opt[key] \in Nat \cup {Absent},
         Accepted(opt, TotalCycles), NEW first, NEW d,
         d = [Defaulted(opt, TotalCycles) EXCEPT !.fi_cycle = first]
  PROVE  /\ d.fi_cycle = first /\ d.window_len \in Nat \cup {Absent}
         /\ d.fi_max_multiple \in Nat \cup {Absent}
         /\ Given(d, "window_len") => ~Given(d, "fi_max_multiple")
         /\ Given(d, "fi_max_multiple") => \A w \in Window(d) : w \in Nat \ {0}
<1> DEFINE total == TotalCycles
           most == IF /\ opt.fi_max_multiple = Absent
                      /\ \/ opt.window_len_multiple # Absent
                         \/ opt.startindex # Absent \/ opt.endindex # Absent
                   THEN 100 ELSE opt.fi_max_multiple
           whole == /\ most # Absent /\ opt.window_len_multiple = Absent
                    /\ opt.startindex = Absent
<1>0. total \in Nat \ {0} /\ Absent \notin Nat
  BY TotalAssumption DEF Absent
<1>1. /\ opt.window_len \in Nat \cup {Absent} /\ opt.fi_max_multiple \in Nat \cup {Absent}
      /\ opt.window_len_multiple \in Nat \cup {Absent}
      /\ opt.startindex \in Nat \cup {Absent} /\ opt.endindex \in Nat \cup {Absent}
  BY DEF NumberKeys, Keys
<1>2. /\ d.fi_cycle = first /\ d.window_len = opt.window_len
      /\ d.fi_max_multiple = most
      /\ d.window_len_multiple = IF whole THEN total - 1 ELSE opt.window_len_multiple
      /\ d.startindex = opt.startindex /\ d.endindex = opt.endindex
  BY DEF Defaulted, Given, NoValue, Keys
<1>3. /\ opt.window_len # Absent => /\ opt.fi_max_multiple = Absent
                                   /\ opt.window_len_multiple = Absent
                                   /\ opt.startindex = Absent /\ opt.endindex = Absent
      /\ opt.startindex # Absent => opt.startindex >= 1
      /\ opt.startindex # Absent <=> opt.endindex # Absent
  BY <1>0, <1>1 DEF Accepted, Refused, Conflict, OutOfRange, Given, NoValue
<1> HIDE DEF most, whole
<1>4. most \in Nat \cup {Absent} /\ (opt.window_len # Absent => most = Absent)
  BY <1>1, <1>3 DEF most
<1>5. ASSUME most # Absent, NEW w \in Window(d) PROVE w \in Nat \ {0}
  <2>1. CASE whole
    BY <1>0, <1>2, <1>5, <2>1 DEF Window, Given, NoValue, Absent
  <2>2. CASE ~whole /\ opt.window_len_multiple # Absent
    BY <1>0, <1>1, <1>2, <1>5, <2>2 DEF Window, Given, NoValue
  <2>3. CASE ~whole /\ opt.window_len_multiple = Absent
    <3>1. opt.startindex # Absent
      BY <1>5, <2>3 DEF whole
    <3>2. w \in opt.startindex .. opt.endindex
      BY <1>2, <1>5, <2>3 DEF Window, Given, NoValue
    <3>3. QED
      BY <1>0, <1>1, <1>3, <3>1, <3>2
  <2>4. QED
    BY <2>1, <2>2, <2>3
<1>6. QED
  BY <1>1, <1>2, <1>4, <1>5 DEF Given, NoValue

(* The cycles an accepted option may start from, and those that follow.    *)
LEMMA PlannedCycles ==
  ASSUME NEW opt, DOMAIN opt = Keys, \A key \in NumberKeys : opt[key] \in Nat \cup {Absent},
         Accepted(opt, TotalCycles),
         NEW first \in FirstCycles(opt, TotalCycles), first # Absent, NEW d,
         d = [Defaulted(opt, TotalCycles) EXCEPT !.fi_cycle = first],
         NEW second \in SecondCycles(d, first, TotalCycles),
         NEW next \in NextCycles(d, first, TotalCycles)
  PROVE  /\ first \in 1 .. TotalCycles
         /\ second # Absent =>
              /\ second \in 1 .. TotalCycles /\ next = << >>
              /\ first < second \/ first = TotalCycles
         /\ next \in Seq(1 .. TotalCycles)
         /\ \A k \in 1 .. Len(next) :
              /\ k = 1 => first < next[k] \/ first = TotalCycles
              /\ k # 1 => next[k - 1] < next[k]
<1> DEFINE total == TotalCycles
<1>0. total \in Nat \ {0} /\ Absent \notin Nat
  BY TotalAssumption DEF Absent
<1>1. /\ d.window_len \in Nat \cup {Absent} /\ d.fi_max_multiple \in Nat \cup {Absent}
      /\ Given(d, "window_len") => ~Given(d, "fi_max_multiple")
      /\ Given(d, "fi_max_multiple") => \A w \in Window(d) : w \in Nat \ {0}
  BY DefaultedValues
<1>2. first \in 1 .. total
  BY <1>0 DEF FirstCycles, Accepted, Refused, OutOfRange, Given, NoValue
<1>3. ASSUME second # Absent
      PROVE  /\ second \in 1 .. total /\ next = << >>
             /\ first < second \/ first = total
  <2>1. Given(d, "window_len")
    BY <1>3 DEF SecondCycles
  <2>2. PICK w \in 1 .. d.window_len : second = MinOf(first + w, total)
    BY <2>1 DEF SecondCycles
  <2>3. d.window_len \in Nat
    BY <1>1, <2>1 DEF Given, NoValue
  <2>4. next = << >>
    BY <1>1, <2>1 DEF NextCycles
  <2>5. w \in Nat \ {0}
    BY <2>3
  <2>6. QED
    BY <1>0, <1>2, <2>2, <2>4, <2>5 DEF MinOf
<1>4. CASE ~Given(d, "fi_max_multiple")
  <2>1. next = << >>
    BY <1>4 DEF NextCycles
  <2>2. Len(next) = 0 /\ next \in Seq(1 .. total)
    BY <2>1
  <2>3. QED
    BY <1>2, <1>3, <2>2
<1>5. CASE Given(d, "fi_max_multiple")
  <2> DEFINE prev(k) == IF k = 1 THEN first ELSE next[k - 1]
  <2>1. /\ next \in BoundedSeq(first .. total, MinOf(d.fi_max_multiple - 1, total - first + 1))
        /\ \A k \in 1 .. Len(next) :
             /\ \E w \in Window(d) : next[k] = MinOf(prev(k) + w, total)
             /\ k < Len(next) => next[k] # total
    BY <1>5 DEF NextCycles
  <2>2. PICK m \in 0 .. MinOf(d.fi_max_multiple - 1, total - first + 1) :
          next \in [1 .. m -> first .. total]
    BY <2>1 DEF BoundedSeq, SeqOf
  <2>3. m \in Nat
    <3>1. d.fi_max_multiple \in Int
      BY <1>1 DEF Absent
    <3>2. MinOf(d.fi_max_multiple - 1, total - first + 1) \in Int
      BY <1>0, <1>2, <3>1 DEF MinOf
    <3>3. QED
      BY <2>2, <3>2
  <2>4. Len(next) = m /\ next \in Seq(1 .. total)
    BY <1>0, <1>2, <2>2, <2>3
  <2>5. ASSUME NEW k \in 1 .. Len(next)
        PROVE  /\ k = 1 => first < next[k] \/ first = total
               /\ k # 1 => next[k - 1] < next[k]
    <3>1. PICK w \in Window(d) : next[k] = MinOf(prev(k) + w, total)
      BY <2>1
    <3>2. w \in Nat \ {0}
      BY <1>1, <1>5, <3>1
    <3>3. CASE k = 1
      <4>1. next[k] = MinOf(first + w, total)
        BY <3>1, <3>3
      <4>2. QED
        BY <1>0, <1>2, <3>2, <3>3, <4>1 DEF MinOf
    <3>4. CASE k # 1
      <4>1. next[k] = MinOf(next[k - 1] + w, total) /\ k - 1 \in 1 .. Len(next)
        BY <2>4, <2>3, <3>1, <3>4
      <4>2. next[k - 1] # total
        BY <2>1, <2>3, <2>4, <4>1
      <4>a. next[k - 1] \in first .. total
        BY <2>2, <2>3, <2>4, <4>1
      <4>3. QED
        BY <1>0, <1>2, <3>2, <3>4, <4>1, <4>2, <4>a DEF MinOf
    <3>5. QED
      BY <3>3, <3>4
  <2>6. QED
    BY <1>2, <1>3, <2>4, <2>5
<1>6. QED
  BY <1>4, <1>5

LEMMA JoinedTwo ==
  ASSUME NEW u \in Seq(Int), NEW v \in Seq(Int)
  PROVE  /\ u \o v \in Seq(Int) /\ Len(u \o v) = Len(u) + Len(v)
         /\ Len(u) \in Nat /\ Len(v) \in Nat
         /\ \A i \in 1 .. Len(u) + Len(v) :
              (u \o v)[i] = IF i <= Len(u) THEN u[i] ELSE v[i - Len(u)]
<1>1. Len(u) \in Nat /\ Len(v) \in Nat
  BY LenProperties
<1>2. QED
  BY <1>1, ConcatProperties

LEMMA Joined ==
  ASSUME NEW a \in Int, NEW b \in Seq(Int), NEW c \in Seq(Int), NEW s,
         s = <<a>> \o b \o c
  PROVE  /\ Len(s) = 1 + Len(b) + Len(c) /\ s[1] = a
         /\ \A k \in 1 .. Len(b) : s[k + 1] = b[k]
         /\ \A k \in 1 .. Len(c) : s[k + 1 + Len(b)] = c[k]
<1> DEFINE t == <<a>> \o b
<1>1. <<a>> \in Seq(Int) /\ Len(<<a>>) = 1 /\ <<a>>[1] = a
  OBVIOUS
<1>2. /\ t \in Seq(Int) /\ Len(t) = 1 + Len(b) /\ t[1] = a /\ Len(b) \in Nat
      /\ \A k \in 1 .. Len(b) : t[k + 1] = b[k]
  <2>1. /\ t \in Seq(Int) /\ Len(t) = 1 + Len(b) /\ Len(b) \in Nat
        /\ \A i \in 1 .. 1 + Len(b) : t[i] = IF i <= 1 THEN <<a>>[i] ELSE b[i - 1]
    BY <1>1, JoinedTwo
  <2> HIDE DEF t
  <2>2. t[1] = a
    BY <1>1, <2>1
  <2>3. ASSUME NEW k \in 1 .. Len(b) PROVE t[k + 1] = b[k]
    <3>1. k + 1 \in 1 .. 1 + Len(b) /\ ~(k + 1 <= 1) /\ (k + 1) - 1 = k
      BY <2>1
    <3>2. QED
      BY <2>1, <3>1
  <2>4. QED
    BY <2>1, <2>2, <2>3
<1>3. s = t \o c
  OBVIOUS
<1> HIDE DEF t
<1>4. /\ Len(s) = Len(t) + Len(c) /\ Len(c) \in Nat
      /\ \A i \in 1 .. Len(t) + Len(c) :
           s[i] = IF i <= Len(t) THEN t[i] ELSE c[i - Len(t)]
  <2>1. t \in Seq(Int) /\ c \in Seq(Int)
    BY <1>2
  <2>2. QED
    BY ONLY <1>3, <2>1, JoinedTwo
<1>5. /\ Len(s) = 1 + Len(b) + Len(c) /\ s[1] = a
      /\ \A k \in 1 .. Len(b) : s[k + 1] = b[k]
  BY <1>2, <1>4
<1>6. \A k \in 1 .. Len(c) : s[k + 1 + Len(b)] = c[k]
  BY <1>2, <1>4
<1>7. QED
  BY <1>5, <1>6

LEMMA PlanOrdered ==
  ASSUME Place, pc = "launch", configFile[1].fi_cycle # Absent
  PROVE  PlanIncreases
<1> DEFINE f == configFile[1]
           opt == OptionOf(ii)
           snd == IF f.fi_second_cycle # Absent THEN <<f.fi_second_cycle>> ELSE << >>
           s == <<f.fi_cycle>> \o snd \o f.fi_next_cycles
<1>1. /\ ii \in 1 .. Len(RunOption) /\ Accepted(opt, TotalCycles)
      /\ f \in ConfigFiles(opt, TotalCycles)
  BY DEF Place, PlaceInv, PC, OptionRead, OwnOption
<1>2. DOMAIN opt = Keys /\ \A key \in NumberKeys : opt[key] \in Nat \cup {Absent}
  BY <1>1, OptionValues, OptionKeys
<1> HIDE DEF opt
<1>3. PICK first \in FirstCycles(opt, TotalCycles) :
        f \in RunFiles([Defaulted(opt, TotalCycles) EXCEPT !.fi_cycle = first], TotalCycles)
  BY <1>1 DEF ConfigFiles
<1> DEFINE d == [Defaulted(opt, TotalCycles) EXCEPT !.fi_cycle = first]
<1>a. d.fi_cycle = first
  BY <1>1, <1>2, DefaultedValues
<1> HIDE DEF d
<1>4. PICK second \in SecondCycles(d, first, TotalCycles),
           next \in NextCycles(d, first, TotalCycles) :
           f.fi_cycle = first /\ f.fi_second_cycle = second /\ f.fi_next_cycles = next
  BY <1>3, <1>a DEF RunFiles, d
<1>5. /\ first \in 1 .. TotalCycles
      /\ second # Absent =>
           /\ second \in 1 .. TotalCycles /\ next = << >>
           /\ first < second \/ first = TotalCycles
      /\ next \in Seq(1 .. TotalCycles)
      /\ \A k \in 1 .. Len(next) :
           /\ k = 1 => first < next[k] \/ first = TotalCycles
           /\ k # 1 => next[k - 1] < next[k]
  BY <1>1, <1>2, <1>4, PlannedCycles DEF d
<1>6. /\ \A k \in 1 .. Len(s) : s[k] \in 1 .. TotalCycles
      /\ \A k \in 1 .. Len(s) - 1 : s[k] < s[k + 1] \/ (k = 1 /\ s[k] = TotalCycles)
  <2>1. CASE second # Absent
    <3>1. s = <<first>> \o <<second>> \o << >>
      BY <1>4, <1>5, <2>1
    <3> HIDE DEF s
    <3>2. Len(s) = 2 /\ s[1] = first /\ s[2] = second
      <4>1. <<second>> \in Seq(Int) /\ Len(<<second>>) = 1 /\ <<second>>[1] = second
        BY <1>5, <2>1
      <4>2. << >> \in Seq(Int) /\ Len(<< >>) = 0
        OBVIOUS
      <4>3. QED
        BY <1>5, <3>1, <4>1, <4>2, Joined
    <3>3. QED
      BY <1>5, <2>1, <3>2
  <2>2. CASE second = Absent
    <3>1. s = <<first>> \o << >> \o next
      BY <1>4, <2>2
    <3> HIDE DEF s
    <3>2. Len(next) \in Nat /\ \A k \in 1 .. Len(next) : next[k] \in 1 .. TotalCycles
      BY <1>5, ElementOfSeq, LenProperties
    <3>3. /\ Len(s) = Len(next) + 1 /\ s[1] = first
          /\ \A k \in 2 .. Len(s) : s[k] = next[k - 1] /\ k - 1 \in 1 .. Len(next)
      <4>1. << >> \in Seq(Int) /\ Len(<< >>) = 0
        OBVIOUS
      <4>2. next \in Seq(Int)
        BY <1>5, TotalAssumption
      <4>3. /\ Len(s) = 1 + Len(next) /\ s[1] = first
            /\ \A k \in 1 .. Len(next) : s[k + 1] = next[k]
        BY <1>5, <3>1, <4>1, <4>2, Joined
      <4>4. QED
        BY <3>2, <4>3
    <3>4. \A k \in 1 .. Len(s) : s[k] \in 1 .. TotalCycles
      BY <1>5, <3>2, <3>3
    <3>5. ASSUME NEW k \in 1 .. Len(s) - 1
          PROVE  s[k] < s[k + 1] \/ (k = 1 /\ s[k] = TotalCycles)
      <4>1. s[k + 1] = next[k] /\ k \in 1 .. Len(next)
        BY <3>2, <3>3
      <4>2. CASE k = 1
        BY <1>5, <3>3, <4>1, <4>2
      <4>3. CASE k # 1
        <5>1. s[k] = next[k - 1]
          BY <3>2, <3>3, <4>3
        <5>2. QED
          BY <1>5, <4>1, <4>3, <5>1
      <4>4. QED
        BY <4>2, <4>3
    <3>6. QED
      BY <3>4, <3>5
  <2>3. QED
    BY <2>1, <2>2
<1>7. QED
  BY <1>6 DEF PlanIncreases

(* The cycles of every configuration file lie in the profile and increase. *)
THEOREM PlanIncreasesCorrect == Spec => []PlanIncreases
<1>1. Place => PlanIncreases
  BY PlanOrdered DEF PlanIncreases
<1>2. QED
  BY <1>1, PlaceCorrect, PTL

-----------------------------------------------------------------------------
(* The files: what is written to them comes from attempts.                 *)
Store(d) == DOMAIN d \subseteq RunIds /\ Files(d)

FileTypes ==
  /\ DOMAIN dir \subseteq Names /\ Files(dir)
  /\ dirBefore \subseteq Names
  /\ DOMAIN prog_input \subseteq {"input"} /\ Files(prog_input)
  /\ inputList \subseteq DOMAIN prog_input
  /\ Store(stat_dir) /\ Store(prog_output) /\ Store(std_output) /\ Store(error_output)
  /\ DOMAIN outcome \subseteq Attempts

Ends ==
  /\ DOMAIN settings = Keys /\ need_to_calc_fi_cycle \in BOOLEAN
  /\ Len(configFile) <= 1
  /\ child \in {"none", "running"} \cup Result
  /\ child = "running" => pc = "wait"
  /\ pc \in {"launch", "wait", "move", "stdout", "replenish", "report"} => Len(configFile) = 1

LEMMA ThisAttempt ==
  ASSUME Place, pc # "stopped"
  PROVE  RunId \in RunIds /\ Attempt \in Attempts
<1>1. /\ ii \in 1 .. Len(RunOption) /\ index \in 1 .. RunOption[ii].numOfRuns
      /\ session \in 1 .. MaxSessions
  BY DEF Place, PlaceInv
<1>2. RunId \in RunIds
  BY <1>1 DEF RunId, RunIds
<1>3. Attempt = <<session, RunId[1], RunId[2]>>
  BY DEF Attempt, RunId
<1>4. QED
  BY <1>1, <1>2, <1>3 DEF Attempts

LEMMA ThisAttemptNext ==
  ASSUME Place', pc' # "stopped"
  PROVE  RunId' \in RunIds
<1>1. ii' \in 1 .. Len(RunOption) /\ index' \in 1 .. RunOption[ii'].numOfRuns
  BY DEF Place, PlaceInv
<1>2. QED
  BY <1>1 DEF RunId, RunIds

LEMMA StoredFile ==
  ASSUME NEW d, Store(d), NEW id \in RunIds, NEW c, \A a \in c : a \in Attempts
  PROVE  Store(With(d, id, c))
<1> DEFINE e == With(d, id, c)
<1>1. /\ DOMAIN e = DOMAIN d \cup {id} /\ e[id] = c
      /\ \A m \in DOMAIN d \ {id} : e[m] = d[m]
  BY DEF With
<1> HIDE DEF e
<1>2. Files(e)
  BY <1>1 DEF Store, Files
<1>3. Store(e)
  BY <1>1, <1>2 DEF Store
<1>4. QED
  BY <1>3 DEF e

LEMMA KeptFiles ==
  ASSUME NEW d, DOMAIN d \subseteq Names, Files(d), NEW n \in Names, NEW c,
         \A a \in c : a \in Attempts
  PROVE  /\ DOMAIN With(d, n, c) \subseteq Names /\ Files(With(d, n, c))
         /\ DOMAIN Without(d, n) \subseteq Names /\ Files(Without(d, n))
<1> DEFINE e == With(d, n, c)
           r == Without(d, n)
<1>1. /\ DOMAIN e = DOMAIN d \cup {n} /\ e[n] = c
      /\ \A m \in DOMAIN d \ {n} : e[m] = d[m]
  BY DEF With
<1>2. DOMAIN r = DOMAIN d \ {n} /\ \A m \in DOMAIN d \ {n} : r[m] = d[m]
  BY WithoutFile
<1> HIDE DEF e, r
<1>3. DOMAIN e \subseteq Names /\ Files(e)
  BY <1>1 DEF Files
<1>4. DOMAIN r \subseteq Names /\ Files(r)
  BY <1>2 DEF Files
<1>5. QED
  BY <1>3, <1>4 DEF e, r

(* What a step of the program does to the base directory.                  *)
ChildDir ==
  \/ \E deed : /\ ChildDoes(deed, dir')
               /\ \/ \E n \in Names : \E c :
                      /\ dir' = With(dir, n, c)
                      /\ \/ n = "faults" /\ n \notin DOMAIN dir /\ c = {}
                         \/ n \in {"faults", "input"} /\ n \in DOMAIN dir /\ c = dir[n]
                         \/ /\ n \in {"faults", "input"} /\ n \in DOMAIN dir
                            /\ c = dir[n] \cup {Attempt}
                         \/ n = "out" /\ c = {Attempt}
                  \/ dir' = Without(dir, "input")
  \/ \E r \in Result : ChildEnds(r)

LEMMA ChildSteps == Child => ChildDir
<1> SUFFICES ASSUME Child PROVE ChildDir
  OBVIOUS
<1>0. "faults" \in Names /\ "out" \in Names /\ "input" \in Names
  BY DEF Names
<1>1. CASE Opens
  <2>1. dir' = With(dir, "faults", IF "faults" \in DOMAIN dir THEN dir["faults"] ELSE {})
    BY <1>1 DEF Opens, ChildDoes
  <2>2. ChildDoes("opened", dir')
    BY <1>1, <2>1 DEF Opens
  <2>3. QED
    BY <1>0, <2>1, <2>2 DEF ChildDir
<1>2. CASE Records
  <2>1. /\ dir' = With(dir, "faults", dir["faults"] \cup {Attempt})
        /\ "faults" \in DOMAIN dir
    BY <1>2 DEF Records, ChildDoes
  <2>2. ChildDoes("recorded", dir')
    BY <1>2, <2>1 DEF Records
  <2>3. QED
    BY <1>0, <2>1, <2>2 DEF ChildDir
<1>3. CASE Outputs
  <2>1. dir' = With(dir, "out", {Attempt})
    BY <1>3 DEF Outputs, ChildDoes
  <2>2. ChildDoes("output", dir')
    BY <1>3, <2>1 DEF Outputs
  <2>3. QED
    BY <1>0, <2>1, <2>2 DEF ChildDir
<1>4. CASE Alters
  <2>1. /\ dir' = With(dir, "input", dir["input"] \cup {Attempt})
        /\ "input" \in DOMAIN dir
    BY <1>4 DEF Alters, ChildDoes
  <2>2. ChildDoes("altered", dir')
    BY <1>4, <2>1 DEF Alters
  <2>3. QED
    BY <1>0, <2>1, <2>2 DEF ChildDir
<1>5. CASE Deletes
  <2>1. dir' = Without(dir, "input")
    BY <1>5 DEF Deletes, ChildDoes
  <2>2. ChildDoes("deleted", dir')
    BY <1>5, <2>1 DEF Deletes
  <2>3. QED
    BY <2>1, <2>2 DEF ChildDir
<1>6. CASE \E r \in {"exit0", "exit1", "signal"} : ChildEnds(r)
  BY <1>6 DEF ChildDir, Result
<1>7. QED
  BY <1>1, <1>2, <1>3, <1>4, <1>5, <1>6 DEF Child

LEMMA EndsStep == Place /\ Ends /\ [Next]_vars => Ends'
<1> SUFFICES ASSUME Place, Ends, [Next]_vars PROVE Ends'
  OBVIOUS
<1>1. CASE ReadOption
  <2>1. settings' = Defaulted(OptionOf(ii), TotalCycles)
    BY <1>1, ReadAlone DEF ReadOption
  <2>2. DOMAIN settings' = Keys /\ need_to_calc_fi_cycle' \in BOOLEAN
    BY <1>1, <2>1, OptionKeys, DefaultedKeys DEF ReadOption
  <2>3. UNCHANGED <<configFile, child>>
    BY <1>1 DEF ReadOption
  <2>4. QED
    BY <1>1, <2>2, <2>3 DEF ReadOption, Ends
<1>2. CASE WriteConfig
  <2>1. Len(configFile') = 1
    BY <1>2 DEF WriteConfig
  <2>2. DOMAIN settings' = Keys
    BY <1>2 DEF WriteConfig, Drawn, Ends
  <2>3. QED
    BY <1>2, <2>1, <2>2 DEF WriteConfig, Ends
<1>3. CASE Child
  <2>1. ChildDir
    BY <1>3, ChildSteps
  <2>2. QED
    BY <2>1 DEF ChildDir, ChildDoes, ChildEnds, scriptVars, optionVars, Ends
<1>4. CASE UNCHANGED vars
  BY <1>4 DEF vars, scriptVars, optionVars, Ends
<1>5. CASE Start \/ WriteFails
  <2>1. DOMAIN settings' = Keys
    BY <1>5 DEF Start, NoOption, WriteFails, Drawn, Ends
  <2>2. QED
    BY <1>5, <2>1 DEF Start, WriteFails, Ends
<1>6. CASE Launch \/ Timeout \/ Reap \/ (\E n \in Names : MoveFile(n))
             \/ AllMoved \/ WriteStdout \/ Replenish \/ Report \/ Dies
  BY <1>6 DEF Launch, Timeout, Reap, MoveFile, AllMoved, WriteStdout,
     Replenish, Report, Dies, scriptVars, optionVars, Ends, Result
<1>7. QED
  BY <1>1, <1>2, <1>3, <1>4, <1>5, <1>6 DEF Next, Script, Finished

LEMMA FileTypesInit == Init => FileTypes
BY DEF Init, FileTypes, Nowhere, Names, Files, Store

LEMMA FileTypesStep == Place /\ FileTypes /\ [Next]_vars => FileTypes'
<1> SUFFICES ASSUME Place, FileTypes, [Next]_vars PROVE FileTypes'
  OBVIOUS
<1>0. /\ DOMAIN dir \subseteq Names /\ Files(dir) /\ dirBefore \subseteq Names
      /\ DOMAIN prog_input \subseteq {"input"} /\ Files(prog_input)
      /\ inputList \subseteq DOMAIN prog_input
      /\ Store(stat_dir) /\ Store(prog_output) /\ Store(std_output) /\ Store(error_output)
      /\ DOMAIN outcome \subseteq Attempts
  BY DEF FileTypes
<1>a. ASSUME pc # "stopped"
      PROVE  RunId \in RunIds /\ Attempt \in Attempts /\ \A a \in {Attempt} : a \in Attempts
  BY <1>a, ThisAttempt
<1>b. \A deed : DOMAIN With(outcome, Attempt, deed) = DOMAIN outcome \cup {Attempt}
  BY WithFile
<1>1. CASE Start
  <2>1. CASE "input" \in DOMAIN dir
    <3>1. DOMAIN prog_input' = {"input"} /\ prog_input'["input"] = dir["input"]
      BY <1>0, <1>1, <2>1 DEF Start, With
    <3>2. Files(prog_input')
      BY <1>0, <2>1, <3>1 DEF Files
    <3>3. QED
      BY <1>0, <1>1, <3>1, <3>2 DEF Start, resultVars, FileTypes
  <2>2. CASE "input" \notin DOMAIN dir
    BY <1>0, <1>1, <2>2 DEF Start, resultVars, FileTypes
  <2>3. QED
    BY <2>1, <2>2
<1>2. CASE Launch
  BY <1>0, <1>2, <1>a, <1>b DEF Launch, scriptVars, resultVars, FileTypes
<1>3. CASE Child
  <2>1. /\ UNCHANGED <<dirBefore, prog_input, inputList, resultVars>>
        /\ DOMAIN outcome' \subseteq Attempts
    BY <1>0, <1>3, <1>a, <1>b DEF Child, Opens, Records, Outputs, Alters, Deletes, ChildDoes,
       ChildEnds, scriptVars
  <2>2. DOMAIN dir' \subseteq Names /\ Files(dir')
    <3>1. pc # "stopped"
      BY <1>3 DEF Child
    <3>2. ASSUME NEW n \in Names, NEW c,
                 (n \in DOMAIN dir /\ c \subseteq dir[n] \cup {Attempt}) \/ c \subseteq {Attempt},
                 dir' = With(dir, n, c)
          PROVE  DOMAIN dir' \subseteq Names /\ Files(dir')
      <4>1. \A a \in c : a \in Attempts
        BY <1>0, <1>a, <3>1, <3>2 DEF Files
      <4>2. QED
        BY <1>0, <3>2, <4>1, KeptFiles
    <3>3. CASE dir' = Without(dir, "input")
      BY <1>0, <3>3, KeptFiles DEF Names
    <3>4. CASE dir' = dir
      BY <1>0, <3>4
    <3>5. QED
      BY <1>3, <3>2, <3>3, <3>4, ChildSteps DEF ChildDir, ChildEnds
  <2>3. QED
    BY <1>0, <2>1, <2>2 DEF resultVars, FileTypes
<1>4. CASE Timeout
  BY <1>0, <1>4, <1>a, <1>b DEF Timeout, scriptVars, resultVars, FileTypes
<1>5. ASSUME NEW n \in Names, MoveFile(n) PROVE FileTypes'
  <2>1. /\ n \in DOMAIN dir /\ RunId \in RunIds /\ \A a \in dir[n] : a \in Attempts
        /\ UNCHANGED <<dirBefore, prog_input, inputList, std_output, error_output, outcome>>
    BY <1>0, <1>5, <1>a DEF MoveFile, NewFiles, Files, scriptVars
  <2>2. DOMAIN dir' \subseteq Names /\ Files(dir')
    BY <1>0, <1>5, KeptFiles DEF MoveFile
  <2>3. Store(stat_dir') /\ Store(prog_output')
    BY <1>0, <1>5, <2>1, StoredFile DEF MoveFile
  <2>4. QED
    BY <1>0, <2>1, <2>2, <2>3 DEF FileTypes
<1>6. CASE WriteStdout
  <2>1. Store(std_output')
    BY <1>0, <1>6, <1>a, StoredFile DEF WriteStdout
  <2>2. QED
    BY <1>0, <1>6, <2>1 DEF WriteStdout, scriptVars, FileTypes
<1>7. CASE Replenish
  <2>1. /\ DOMAIN dir' = DOMAIN dir \cup inputList
        /\ \A n \in DOMAIN dir : dir'[n] = dir[n]
        /\ \A n \in inputList \ DOMAIN dir : dir'[n] = prog_input[n]
    BY <1>7 DEF Replenish
  <2>2. DOMAIN dir' \subseteq Names /\ Files(dir')
    <3>1. DOMAIN dir' \subseteq Names
      BY <1>0, <2>1 DEF Names
    <3>2. \A n \in DOMAIN dir' : \A a \in dir'[n] : a \in Attempts
      BY <1>0, <2>1 DEF Files
    <3>3. QED
      BY <3>1, <3>2 DEF Files
  <2>3. QED
    BY <1>0, <1>7, <2>2 DEF Replenish, scriptVars, resultVars, FileTypes
<1>8. CASE Report
  <2>1. Store(error_output')
    BY <1>0, <1>8, <1>a, StoredFile DEF Report, ErrorFiles
  <2>2. QED
    BY <1>0, <1>8, <1>a, <1>b, <2>1 DEF Report, FileTypes
<1>9. CASE ReadOption \/ WriteConfig \/ WriteFails \/ Reap \/ AllMoved \/ Dies \/ UNCHANGED vars
  <2>1. UNCHANGED <<dir, dirBefore, prog_input, inputList, resultVars, outcome>>
    BY <1>9 DEF ReadOption, WriteConfig, WriteFails, Reap, AllMoved, Dies, vars, scriptVars
  <2>2. QED
    BY <1>0, <2>1 DEF resultVars, FileTypes
<1>10. QED
  BY <1>1, <1>2, <1>3, <1>4, <1>5, <1>6, <1>7, <1>8, <1>9 DEF Next, Script, Finished

LEMMA TypesCorrect == Spec => [](Place /\ FileTypes /\ Ends)
<1>1. Init => Ends
  <2> SUFFICES ASSUME Init PROVE Ends
    OBVIOUS
  <2>1. DOMAIN settings = Keys
    BY DEF Init, NoOption
  <2>2. need_to_calc_fi_cycle \in BOOLEAN
    BY DEF Init
  <2>3. QED
    BY <2>1, <2>2 DEF Init, Ends
<1>2. QED
  BY <1>1, PlaceInit, FileTypesInit, PlaceStep, FileTypesStep, EndsStep, PTL DEF Spec

(* Every file holds what attempts wrote, and is filed under a run.         *)
THEOREM TypeCorrect == Spec => []TypeOK
<1>1. Place /\ FileTypes /\ Ends => TypeOK
  <2> SUFFICES ASSUME Place, FileTypes, Ends PROVE TypeOK
    OBVIOUS
  <2>1. pc # "stopped" => RunId \in RunIds
    BY ThisAttempt
  <2>2. QED
    BY <2>1 DEF Place, FileTypes, Ends, Store, TypeOK
<1>2. QED
  BY <1>1, TypesCorrect, PTL

-----------------------------------------------------------------------------
(* What is new in the base directory is the work of the run under way.     *)
LEMMA FilesStep == Place /\ FilesInv /\ [Next]_vars => FilesInv'
<1> SUFFICES ASSUME Place, FilesInv, [Next]_vars PROVE FilesInv'
  OBVIOUS
<1>1. CASE Launch
  BY <1>1 DEF Launch, FilesInv, NewFiles
<1>2. CASE Child
  <2>1. /\ pc = "wait" /\ pc' = pc /\ dirBefore' = dirBefore /\ Attempt' = Attempt
        /\ ChildDir
    BY <1>2, ChildSteps DEF Child, Opens, Records, Outputs, Alters, Deletes, ChildDoes,
       ChildEnds, scriptVars, Attempt
  <2>2. /\ "input" \in DOMAIN dir => "input" \in dirBefore
        /\ "faults" \in DOMAIN dir \ dirBefore => dir["faults"] \subseteq {Attempt}
        /\ "out" \in DOMAIN dir \ dirBefore => dir["out"] = {Attempt}
    BY <2>1 DEF FilesInv, NewFiles
  <2>3. ASSUME NEW n \in Names, NEW c, dir' = With(dir, n, c),
               \/ n = "faults" /\ n \notin DOMAIN dir /\ c = {}
               \/ n \in {"faults", "input"} /\ n \in DOMAIN dir /\ c = dir[n]
               \/ n \in {"faults", "input"} /\ n \in DOMAIN dir /\ c = dir[n] \cup {Attempt}
               \/ n = "out" /\ c = {Attempt}
        PROVE  FilesInv'
    <3>1. /\ DOMAIN dir' = DOMAIN dir \cup {n} /\ dir'[n] = c
          /\ \A m \in DOMAIN dir \ {n} : dir'[m] = dir[m]
      BY <2>3 DEF With
    <3>2. QED
      BY <2>1, <2>2, <2>3, <3>1 DEF FilesInv, NewFiles
  <2>4. CASE dir' = Without(dir, "input")
    <3>1. /\ DOMAIN dir' = DOMAIN dir \ {"input"}
          /\ \A m \in DOMAIN dir \ {"input"} : dir'[m] = dir[m]
      BY <2>4, WithoutFile
    <3>2. QED
      BY <2>1, <2>2, <3>1 DEF FilesInv, NewFiles
  <2>5. CASE dir' = dir
    BY <2>1, <2>2, <2>5 DEF FilesInv, NewFiles
  <2>6. QED
    BY <2>1, <2>3, <2>4, <2>5 DEF ChildDir, ChildEnds
<1>3. ASSUME NEW n \in Names, MoveFile(n) PROVE FilesInv'
  <2>1. /\ pc = "move" /\ pc' = pc /\ dirBefore' = dirBefore /\ Attempt' = Attempt
        /\ DOMAIN dir' = DOMAIN dir \ {n} /\ \A m \in DOMAIN dir \ {n} : dir'[m] = dir[m]
    BY <1>3, WithoutFile DEF MoveFile, scriptVars, Attempt
  <2>2. QED
    BY <2>1 DEF FilesInv, NewFiles
<1>4. CASE Timeout \/ Reap \/ UNCHANGED vars
  BY <1>4 DEF Timeout, Reap, vars, scriptVars, FilesInv, NewFiles, Attempt
<1>5. CASE Start \/ ReadOption \/ WriteConfig \/ WriteFails \/ AllMoved \/ WriteStdout
             \/ Replenish \/ Report \/ Dies
  <2>1. pc' \notin {"wait", "move"}
    BY <1>5 DEF Start, ReadOption, WriteConfig, WriteFails, AllMoved, WriteStdout, Replenish,
       Report, Dies
  <2>2. QED
    BY <2>1 DEF FilesInv
<1>6. QED
  BY <1>1, <1>2, <1>3, <1>4, <1>5 DEF Next, Script, Finished

(* A directory whose files each hold what one attempt at their run wrote.  *)
Unmixed(d) == \A id \in DOMAIN d : \E a \in Attempts : IdOf(a) = id /\ d[id] = {a}
AllUnmixed ==
  Unmixed(stat_dir) /\ Unmixed(prog_output) /\ Unmixed(std_output) /\ Unmixed(error_output)

LEMMA FileUnmixed ==
  ASSUME Place, pc # "stopped", NEW d, Unmixed(d)
  PROVE  Unmixed(With(d, RunId, {Attempt}))
<1> DEFINE e == With(d, RunId, {Attempt})
<1>1. /\ DOMAIN e = DOMAIN d \cup {RunId} /\ e[RunId] = {Attempt}
      /\ \A m \in DOMAIN d \ {RunId} : e[m] = d[m]
  BY DEF With
<1>2. Attempt \in Attempts /\ IdOf(Attempt) = RunId
  BY ThisAttempt DEF IdOf, Attempt, RunId
<1> HIDE DEF e
<1>3. Unmixed(e)
  BY <1>1, <1>2 DEF Unmixed
<1>4. QED
  BY <1>3 DEF e

LEMMA UnmixedStep ==
  Place /\ FileTypes /\ FilesInv /\ AllUnmixed /\ [Next]_vars => AllUnmixed'
<1> SUFFICES ASSUME Place, FileTypes, FilesInv, AllUnmixed, [Next]_vars PROVE AllUnmixed'
  OBVIOUS
<1>1. ASSUME NEW n \in Names, MoveFile(n) PROVE AllUnmixed'
  <2>1. /\ pc = "move" /\ n \in NewFiles /\ n \in {"faults", "out"}
        /\ UNCHANGED <<std_output, error_output>>
    BY <1>1 DEF MoveFile, FilesInv, NewFiles, Names
  <2>2. dir[n] = {Attempt} \/ (n = "faults" /\ dir[n] = {})
    BY <2>1 DEF FilesInv
  <2>3. Unmixed(stat_dir')
    <3>1. stat_dir' = stat_dir \/ stat_dir' = With(stat_dir, RunId, {Attempt})
      BY <1>1, <2>2 DEF MoveFile
    <3>2. QED
      BY <2>1, <3>1, FileUnmixed DEF AllUnmixed
  <2>4. Unmixed(prog_output')
    <3>1. prog_output' = prog_output \/ prog_output' = With(prog_output, RunId, {Attempt})
      BY <1>1, <2>2 DEF MoveFile
    <3>2. QED
      BY <2>1, <3>1, FileUnmixed DEF AllUnmixed
  <2>5. QED
    BY <2>1, <2>3, <2>4 DEF AllUnmixed
<1>2. CASE WriteStdout
  BY <1>2, FileUnmixed DEF WriteStdout, AllUnmixed
<1>3. CASE Report
  BY <1>3, FileUnmixed DEF Report, ErrorFiles, AllUnmixed
<1>4. CASE \/ Start \/ ReadOption \/ WriteConfig \/ WriteFails \/ Launch \/ Timeout \/ Reap
           \/ AllMoved \/ Replenish \/ Child \/ Dies \/ UNCHANGED vars
  <2>1. UNCHANGED resultVars
    BY <1>4 DEF Start, ReadOption, WriteConfig, WriteFails, Launch, Timeout, Reap, AllMoved,
       Replenish, Child, Opens, Records, Outputs, Alters, Deletes, ChildDoes, ChildEnds,
       Dies, vars
  <2>2. QED
    BY <2>1 DEF resultVars, AllUnmixed
<1>5. QED
  BY <1>1, <1>2, <1>3, <1>4 DEF Next, Script, Finished

(* No result file mixes what two runs wrote, or carries another run's id.  *)
THEOREM NoMixedResultsCorrect == Spec => []NoMixedResults
<1>1. Init => FilesInv /\ AllUnmixed
  BY DEF Init, FilesInv, AllUnmixed, Unmixed, Nowhere
<1>2. AllUnmixed => NoMixedResults
  BY DEF AllUnmixed, Unmixed, NoMixedResults
<1>3. QED
  BY <1>1, <1>2, TypesCorrect, FilesStep, UnmixedStep, PTL DEF Spec

-----------------------------------------------------------------------------
LEMMA AlikeStep == Place /\ AlikeInv /\ [Next]_vars => AlikeInv'
<1> SUFFICES ASSUME Place, AlikeInv, [Next]_vars, ~interrupted' PROVE AlikeInv'
  BY DEF AlikeInv
<1>0. /\ ~interrupted /\ pc \in PC /\ AlikeInv
      /\ ~WriteFails /\ ~Dies
  BY DEF Next, Start, Script, ReadOption, WriteConfig, WriteFails, Launch, Timeout, Reap,
     MoveFile, AllMoved, WriteStdout, Replenish, Report, Child, Opens, Records, Outputs,
     Alters, Deletes, ChildDoes, ChildEnds, Dies, Finished, vars, Place
<1>1. CASE Start
  BY <1>0, <1>1 DEF Start, AlikeInv
<1>2. CASE ReadOption
  <2>1. pc = "option" /\ pc' = "write" /\ UNCHANGED <<dir, dirBefore, inputList>>
    BY <1>2 DEF ReadOption
  <2>2. QED
    BY <1>0, <2>1 DEF AlikeInv
<1>3. CASE WriteConfig
  BY <1>0, <1>3 DEF WriteConfig, scriptVars, AlikeInv
<1>4. CASE Launch
  BY <1>0, <1>4 DEF Launch, scriptVars, AlikeInv
<1>5. CASE Child \/ Timeout \/ Reap \/ (\E n \in Names : MoveFile(n))
  <2>1. /\ pc \in {"wait", "move"} /\ pc' \in {"wait", "move"}
        /\ UNCHANGED <<dirBefore, inputList>>
    BY <1>5 DEF Child, Opens, Records, Outputs, Alters, Deletes, ChildDoes, ChildEnds,
       Timeout, Reap, MoveFile, scriptVars
  <2>2. QED
    BY <1>0, <2>1 DEF AlikeInv
<1>6. CASE AllMoved
  BY <1>0, <1>6 DEF AllMoved, NewFiles, scriptVars, AlikeInv
<1>7. CASE WriteStdout
  BY <1>0, <1>7 DEF WriteStdout, scriptVars, AlikeInv
<1>8. CASE Replenish
  <2>1. DOMAIN dir' = DOMAIN dir \cup inputList /\ pc' = "report" /\ inputList' = inputList
        /\ pc = "replenish"
    BY <1>8 DEF Replenish, scriptVars
  <2>2. QED
    BY <1>0, <2>1 DEF AlikeInv
<1>9. CASE Report
  <2>1. /\ pc = "report" /\ UNCHANGED <<dir, inputList>>
        /\ pc' \in {"stopped", "option", "write"}
    BY <1>9 DEF Report
  <2>2. QED
    BY <1>0, <2>1 DEF AlikeInv
<1>10. CASE UNCHANGED vars
  BY <1>0, <1>10 DEF vars, scriptVars, AlikeInv
<1>11. QED
  BY <1>0, <1>1, <1>2, <1>3, <1>4, <1>5, <1>6, <1>7, <1>8, <1>9, <1>10
     DEF Next, Script, Finished

LEMMA AttemptForm ==
  ASSUME NEW a \in Attempts
  PROVE  /\ a[1] \in 1 .. MaxSessions /\ a[2] \in 1 .. Len(RunOption)
         /\ a[3] \in 1 .. RunOption[a[2]].numOfRuns
         /\ a = <<a[1], a[2], a[3]>>
<1>1. PICK s \in 1 .. MaxSessions, id \in RunIds : a = <<s, id[1], id[2]>>
  BY DEF Attempts
<1>2. PICK i \in 1 .. Len(RunOption) : \E j \in 1 .. RunOption[i].numOfRuns : id = <<i, j>>
  BY DEF RunIds
<1>3. PICK j \in 1 .. RunOption[i].numOfRuns : id = <<i, j>>
  BY <1>2
<1>4. QED
  BY <1>1, <1>3

LEMMA AttemptNumbers ==
  ASSUME NEW a \in Attempts
  PROVE  a[1] \in Nat /\ a[2] \in Nat /\ a[3] \in Nat
<1>1. /\ a[1] \in 1 .. MaxSessions /\ a[2] \in 1 .. Len(RunOption)
      /\ a[3] \in 1 .. RunOption[a[2]].numOfRuns
  BY AttemptForm
<1>2. RunOption[a[2]].numOfRuns \in Nat /\ MaxSessions \in Nat /\ Len(RunOption) \in Nat
  BY <1>1, OptionAssumption, SessionAssumption
<1>3. QED
  BY <1>1, <1>2

LEMMA OutcomeInit == Init => OutcomeInv
BY DEF Init, OutcomeInv, Nowhere

LEMMA OutcomeStep == Place /\ FileTypes /\ OutcomeInv /\ [Next]_vars => OutcomeInv'
<1> SUFFICES ASSUME Place, FileTypes, OutcomeInv, [Next]_vars PROVE OutcomeInv'
  OBVIOUS
<1> DEFINE Later == {"wait", "move", "stdout", "replenish", "report"}
<1>0. /\ session \in Nat /\ Attempt[1] = session /\ Attempt[2] = ii /\ Attempt[3] = index
      /\ Attempt'[2] = ii' /\ Attempt'[3] = index'
  BY SessionAssumption DEF Place, Attempt
<1>a. \A b \in DOMAIN outcome : b[1] \in Nat /\ b[2] \in Nat /\ b[3] \in Nat
  BY AttemptNumbers DEF FileTypes
<1>1. CASE Start
  <2>1. session' = session + 1 /\ outcome' = outcome /\ pc' = "option"
    BY <1>1 DEF Start
  <2>2. \A b \in DOMAIN outcome : b[1] <= session
    BY DEF OutcomeInv
  <2>3. ASSUME NEW b \in DOMAIN outcome PROVE b[1] <= session' /\ b[1] # session'
    BY <1>0, <1>a, <2>1, <2>2, <2>3
  <2>4. QED
    BY <2>1, <2>3 DEF OutcomeInv
<1>2. CASE pc' = "stopped" /\ UNCHANGED <<session, outcome>>
  BY <1>2 DEF OutcomeInv
<1>3. CASE /\ pc' # "stopped" /\ pc # "stopped"
           /\ UNCHANGED <<session, ii, index, outcome>>
           /\ pc \in Later <=> pc' \in Later
  <2>1. Attempt' = Attempt
    BY <1>3 DEF Attempt
  <2>2. QED
    BY <1>3, <2>1 DEF OutcomeInv, Precedes
<1>4. CASE Launch \/ Child \/ Timeout
  <2>1. /\ pc # "stopped" /\ pc' \in Later /\ UNCHANGED <<session, ii, index>>
        /\ DOMAIN outcome' = DOMAIN outcome \cup {Attempt}
    BY <1>4 DEF Launch, Timeout, Child, Opens, Records, Outputs, Alters, Deletes, ChildDoes,
       ChildEnds, scriptVars, With
  <2>2. Attempt' = Attempt
    BY <2>1 DEF Attempt
  <2>3. ASSUME NEW b \in DOMAIN outcome'
        PROVE  b[1] <= session /\ (b[1] = session => Precedes(b, Attempt) \/ b = Attempt)
    BY <1>0, <2>1 DEF OutcomeInv
  <2>4. QED
    BY <2>1, <2>2, <2>3 DEF OutcomeInv, Precedes
<1>5. CASE Report
  <2>1. pc = "report" /\ session' = session /\ Attempt \in DOMAIN outcome
    BY <1>5 DEF Report, OutcomeInv
  <2>2. DOMAIN outcome' = DOMAIN outcome
    BY <1>5, <2>1 DEF Report, With
  <2>3. \A b \in DOMAIN outcome :
          b[1] <= session /\ (b[1] = session => Precedes(b, Attempt) \/ b = Attempt)
    BY <2>1 DEF OutcomeInv
  <2>4. ii \in Int /\ index \in Int
    BY <2>1, OptionAssumption DEF Place, PlaceInv
  <2>5. CASE pc' = "stopped"
    BY <2>1, <2>2, <2>3, <2>5 DEF OutcomeInv
  <2>6. CASE pc' # "stopped"
    <3>1. /\ pc' \notin Later
          /\ (ii' = ii /\ index' = index + 1) \/ ii' = ii + 1
      BY <1>5, <2>6 DEF Report
    <3>2. ASSUME NEW b \in DOMAIN outcome, b[1] = session PROVE Precedes(b, Attempt')
      <4>1. b[2] < ii \/ (b[2] = ii /\ b[3] <= index)
        BY <1>0, <1>a, <2>3, <2>4, <3>2 DEF Precedes
      <4>2. CASE b[2] < ii
        <5>1. b[2] < ii'
          BY <1>a, <2>4, <3>1, <4>2
        <5>2. QED
          BY <1>0, <5>1 DEF Precedes
      <4>3. CASE b[2] = ii /\ b[3] <= index
        <5>1. b[2] < ii' \/ (b[2] = ii' /\ b[3] < index')
          BY <1>a, <2>4, <3>1, <4>3
        <5>2. QED
          BY <1>0, <5>1 DEF Precedes
      <4>4. QED
        BY <4>1, <4>2, <4>3
    <3>3. QED
      BY <2>1, <2>2, <2>3, <3>1, <3>2 DEF OutcomeInv
  <2>7. QED
    BY <2>5, <2>6
<1>6. CASE UNCHANGED vars
  BY <1>6 DEF vars, scriptVars, OutcomeInv, Attempt, Precedes
<1>7. CASE ReadOption \/ WriteConfig \/ Reap \/ (\E n \in Names : MoveFile(n)) \/ AllMoved
             \/ WriteStdout \/ Replenish
  <2>1. UNCHANGED <<session, ii, index, outcome>> /\ pc # "stopped"
    BY <1>7 DEF ReadOption, WriteConfig, Reap, MoveFile, AllMoved, WriteStdout, Replenish,
       scriptVars
  <2>2. pc' = "stopped" \/ (pc \in Later <=> pc' \in Later)
    BY <1>7 DEF ReadOption, WriteConfig, Reap, MoveFile, AllMoved, WriteStdout, Replenish
  <2>3. QED
    BY <1>2, <1>3, <2>1, <2>2
<1>8. CASE WriteFails \/ Dies
  BY <1>2, <1>8 DEF WriteFails, Dies, scriptVars
<1>9. QED
  BY <1>1, <1>4, <1>5, <1>6, <1>7, <1>8 DEF Next, Script, Finished

(* What is said of the input file stays true when an attempt does more,    *)
(* unless it deletes the file.                                             *)
LEMMA AlteredKept ==
  ASSUME Place, session' = session, NEW w, outcome' = With(outcome, Attempt, w),
         Attempt \in DOMAIN outcome => outcome[Attempt] \subseteq w
  PROVE  /\ ("deleted" \in w => Attempt \in Deleters) => Deleters' \subseteq Deleters
         /\ \A a : Altered(a) /\ (a[1] # session \/ Deleters' \subseteq Deleters) => Altered(a)'
<1>1. /\ DOMAIN outcome' = DOMAIN outcome \cup {Attempt} /\ outcome'[Attempt] = w
      /\ \A b \in DOMAIN outcome \ {Attempt} : outcome'[b] = outcome[b]
  BY DEF With
<1>2. ASSUME "deleted" \in w => Attempt \in Deleters PROVE Deleters' \subseteq Deleters
  BY <1>1, <1>2 DEF Deleters
<1>3. ASSUME NEW a, Altered(a), a[1] # session \/ Deleters' \subseteq Deleters
      PROVE  Altered(a)'
  <2>1. a \in DOMAIN outcome' /\ "altered" \in outcome'[a]
    BY <1>1, <1>3 DEF Altered
  <2>2. a[1] = session' => \A b \in Deleters' : Precedes(b, a)
    BY <1>3 DEF Altered
  <2>3. QED
    BY <2>1, <2>2 DEF Altered, Precedes
<1>4. QED
  BY <1>2, <1>3

LEMMA AlteredSame ==
  ASSUME UNCHANGED <<session, outcome>>, NEW a, Altered(a) PROVE Altered(a)'
<1>1. Deleters' = Deleters
  BY DEF Deleters
<1>2. QED
  BY <1>1 DEF Altered, Precedes

LEMMA InputInit == Init => InputInv
BY DEF Init, InputInv

LEMMA InputStep ==
  Place /\ FileTypes /\ OutcomeInv /\ AlikeInv /\ InputInv /\ [Next]_vars => InputInv'
<1> SUFFICES ASSUME Place, FileTypes, OutcomeInv, AlikeInv, InputInv, [Next]_vars,
                    ~interrupted'
             PROVE  InputInv'
  BY DEF InputInv
<1>0. /\ ~interrupted /\ ~WriteFails /\ ~Dies
      /\ session \in Nat /\ Attempt[1] = session
  BY SessionAssumption
     DEF Next, Start, Script, ReadOption, WriteConfig, WriteFails, Launch, Timeout, Reap,
     MoveFile, AllMoved, WriteStdout, Replenish, Report, Child, Opens, Records, Outputs,
     Alters, Deletes, ChildDoes, ChildEnds, Dies, Finished, vars, Place, Attempt
<1>a. /\ pc # "stopped" => \A a \in prog_input["input"] : Altered(a) /\ a[1] < session
      /\ "input" \in DOMAIN dir => \A a \in dir["input"] : Altered(a)
      /\ pc \in {"wait", "move", "stdout", "replenish"} /\ Attempt \in Deleters =>
           "input" \notin DOMAIN dir
  BY <1>0 DEF InputInv
<1>1. CASE Start
  <2>1. /\ session' = session + 1 /\ UNCHANGED <<dir, outcome>> /\ pc' = "option"
        /\ "input" \in DOMAIN dir
    BY <1>0, <1>1 DEF Start, AlikeInv
  <2>2. prog_input' = With(prog_input, "input", dir["input"])
    BY <1>1, <2>1 DEF Start
  <2>3. prog_input'["input"] = dir["input"]
    BY <2>2 DEF With
  <2>4. ASSUME NEW a \in dir["input"] PROVE Altered(a)' /\ a[1] < session'
    <3>1. a \in DOMAIN outcome /\ "altered" \in outcome[a] /\ a[1] <= session
      BY <1>a, <2>1 DEF Altered, OutcomeInv
    <3>2. a[1] < session' /\ a[1] # session'
      <4>1. \A b \in DOMAIN outcome : b[1] \in Int
        BY AttemptNumbers DEF FileTypes
      <4>2. QED
        BY <1>0, <2>1, <3>1, <4>1
    <3>3. QED
      BY <2>1, <3>1, <3>2 DEF Altered
  <2>5. QED
    BY <2>1, <2>3, <2>4 DEF InputInv
<1>2. CASE Child
  <2>1. /\ pc = "wait" /\ pc' = "wait" /\ UNCHANGED <<prog_input, session, ii, index>>
        /\ Attempt' = Attempt /\ Attempt \in DOMAIN outcome
    BY <1>2 DEF Child, Opens, Records, Outputs, Alters, Deletes, ChildDoes, ChildEnds,
       scriptVars, Attempt, OutcomeInv
  <2>2. ASSUME NEW deed, deed # "deleted",
               outcome' = With(outcome, Attempt, outcome[Attempt] \cup {deed}),
               \/ dir' = dir
               \/ \E n \in Names \ {"input"} : \E c : dir' = With(dir, n, c)
        PROVE  InputInv'
    <3>1. Deleters' \subseteq Deleters /\ \A a : Altered(a) => Altered(a)'
      <4>1. "deleted" \in outcome[Attempt] \cup {deed} => Attempt \in Deleters
        BY <1>0, <2>1, <2>2 DEF Deleters
      <4>2. QED
        BY <2>1, <2>2, <4>1, AlteredKept
    <3>2. /\ "input" \in DOMAIN dir' <=> "input" \in DOMAIN dir
          /\ "input" \in DOMAIN dir => dir'["input"] = dir["input"]
      BY <2>2 DEF With
    <3>3. QED
      BY <1>a, <2>1, <3>1, <3>2 DEF InputInv
  <2>3. CASE Opens
    BY <2>2, <2>3 DEF Opens, ChildDoes, Names
  <2>4. CASE Records
    BY <2>2, <2>4 DEF Records, ChildDoes, Names
  <2>5. CASE Outputs
    BY <2>2, <2>5 DEF Outputs, ChildDoes, Names
  <2>6. ASSUME NEW r \in {"exit0", "exit1", "signal"}, ChildEnds(r) PROVE InputInv'
    BY <2>2, <2>6 DEF ChildEnds
  <2>7. CASE Alters
    <3>1. /\ "input" \in DOMAIN dir
          /\ dir' = With(dir, "input", dir["input"] \cup {Attempt})
          /\ outcome' = With(outcome, Attempt, outcome[Attempt] \cup {"altered"})
      BY <2>7 DEF Alters, ChildDoes
    <3>2. Deleters' \subseteq Deleters /\ \A a : Altered(a) => Altered(a)'
      <4>1. "deleted" \in outcome[Attempt] \cup {"altered"} => Attempt \in Deleters
        BY <1>0, <2>1 DEF Deleters
      <4>2. QED
        BY <2>1, <3>1, <4>1, AlteredKept
    <3>3. /\ DOMAIN dir' = DOMAIN dir /\ dir'["input"] = dir["input"] \cup {Attempt}
          /\ Attempt \in DOMAIN outcome' /\ "altered" \in outcome'[Attempt]
      BY <3>1 DEF With
    <3>4. Attempt \notin Deleters
      BY <1>a, <2>1, <3>1
    <3>5. \A b \in Deleters : Precedes(b, Attempt)
      BY <2>1, <3>4 DEF Deleters, OutcomeInv
    <3>6. Altered(Attempt)'
      BY <2>1, <3>2, <3>3, <3>5 DEF Altered, Precedes
    <3>7. QED
      BY <1>a, <2>1, <3>1, <3>2, <3>3, <3>4, <3>6 DEF InputInv
  <2>8. CASE Deletes
    <3>1. /\ dir' = Without(dir, "input")
          /\ outcome' = With(outcome, Attempt, outcome[Attempt] \cup {"deleted"})
      BY <2>8 DEF Deletes, ChildDoes
    <3>2. "input" \notin DOMAIN dir'
      BY <3>1, WithoutFile
    <3>3. \A a \in prog_input["input"] : Altered(a) /\ a[1] < session
      BY <1>a, <2>1
    <3>4. \A a \in prog_input["input"] : Altered(a)' /\ a[1] < session
      <4>1. ASSUME NEW a \in prog_input["input"] PROVE Altered(a)' /\ a[1] < session
        <5>1. Altered(a) /\ a[1] < session /\ a[1] # session
          <6>1. a[1] \in Nat
            BY <3>3, AttemptNumbers DEF FileTypes, Altered
          <6>2. QED
            BY <1>0, <3>3, <6>1
        <5>2. QED
          BY <2>1, <3>1, <5>1, AlteredKept
      <4>2. QED
        BY <4>1
    <3>5. QED
      BY <2>1, <3>2, <3>4 DEF InputInv
  <2>9. QED
    BY <1>2, <2>3, <2>4, <2>5, <2>6, <2>7, <2>8 DEF Child
<1>3. CASE Launch
  <2>1. /\ pc = "launch" /\ pc' = "wait" /\ UNCHANGED <<dir, prog_input, session, ii, index>>
        /\ outcome' = With(outcome, Attempt, {}) /\ Attempt' = Attempt
    BY <1>3 DEF Launch, scriptVars, Attempt
  <2>2. Attempt \notin DOMAIN outcome
    <3>1. ~Precedes(Attempt, Attempt)
      <4>1. ii \in Int /\ index \in Int
        BY <2>1, OptionAssumption DEF Place, PlaceInv
      <4>2. QED
        BY <4>1 DEF Precedes, Attempt
    <3>2. QED
      BY <1>0, <2>1, <3>1 DEF OutcomeInv
  <2>3. Deleters' \subseteq Deleters /\ \A a : Altered(a) => Altered(a)'
    BY <2>1, <2>2, AlteredKept
  <2>4. Attempt \notin Deleters'
    BY <2>2, <2>3 DEF Deleters
  <2>5. QED
    BY <1>a, <2>1, <2>3, <2>4 DEF InputInv
<1>4. CASE Timeout
  <2>1. /\ pc = "wait" /\ pc' = "wait" /\ UNCHANGED <<dir, prog_input, session, ii, index>>
        /\ outcome' = With(outcome, Attempt, outcome[Attempt] \cup {"timeout"})
        /\ Attempt' = Attempt /\ Attempt \in DOMAIN outcome
    BY <1>4 DEF Timeout, scriptVars, Attempt, OutcomeInv
  <2>2. Deleters' \subseteq Deleters /\ \A a : Altered(a) => Altered(a)'
    <3>1. "deleted" \in outcome[Attempt] \cup {"timeout"} => Attempt \in Deleters
      BY <1>0, <2>1 DEF Deleters
    <3>2. QED
      BY <2>1, <3>1, AlteredKept
  <2>3. QED
    BY <1>a, <2>1, <2>2 DEF InputInv
<1>5. CASE Report
  <2>1. /\ pc = "report" /\ pc' \in {"stopped", "option", "write"}
        /\ UNCHANGED <<dir, prog_input, session>>
        /\ outcome' = With(outcome, Attempt, outcome[Attempt] \cup {"reported"})
        /\ Attempt \in DOMAIN outcome
    BY <1>5 DEF Report, OutcomeInv
  <2>2. Deleters' \subseteq Deleters /\ \A a : Altered(a) => Altered(a)'
    <3>1. "deleted" \in outcome[Attempt] \cup {"reported"} => Attempt \in Deleters
      BY <1>0, <2>1 DEF Deleters
    <3>2. QED
      BY <2>1, <3>1, AlteredKept
  <2>3. QED
    BY <1>a, <2>1, <2>2 DEF InputInv
<1>6. CASE Replenish
  <2>1. /\ pc = "replenish" /\ pc' = "report" /\ UNCHANGED <<prog_input, session, outcome>>
        /\ "input" \in DOMAIN dir' =>
             dir'["input"] = IF "input" \in DOMAIN dir THEN dir["input"] ELSE prog_input["input"]
    BY <1>6 DEF Replenish, scriptVars
  <2>2. QED
    BY <1>a, <2>1, AlteredSame DEF InputInv
<1>7. ASSUME NEW n \in Names, MoveFile(n) PROVE InputInv'
  <2>1. /\ pc = "move" /\ pc' = "move" /\ dir' = Without(dir, n)
        /\ UNCHANGED <<prog_input, session, outcome, ii, index>>
    BY <1>7 DEF MoveFile, scriptVars
  <2>2. /\ DOMAIN dir' = DOMAIN dir \ {n}
        /\ \A m \in DOMAIN dir \ {n} : dir'[m] = dir[m]
    BY <2>1, WithoutFile
  <2>3. Attempt' = Attempt /\ Deleters' = Deleters
    BY <2>1 DEF Attempt, Deleters
  <2>4. QED
    BY <1>a, <2>1, <2>2, <2>3, AlteredSame DEF InputInv
<1>8. CASE ReadOption \/ WriteConfig \/ Reap \/ AllMoved \/ WriteStdout
  <2>1. /\ UNCHANGED <<dir, prog_input, session, outcome, ii, index>> /\ pc # "stopped"
        /\ \/ pc' \in {"stopped", "option", "write", "launch"}
           \/ pc \in {"wait", "move", "stdout", "replenish"}
    BY <1>8 DEF ReadOption, WriteConfig, Reap, AllMoved, WriteStdout, scriptVars
  <2>2. Attempt' = Attempt /\ Deleters' = Deleters
    BY <2>1 DEF Attempt, Deleters
  <2>3. QED
    BY <1>a, <2>1, <2>2, AlteredSame DEF InputInv
<1>9. CASE UNCHANGED vars
  <2>1. /\ UNCHANGED <<dir, prog_input, session, outcome, pc>> /\ Attempt' = Attempt
        /\ Deleters' = Deleters
    BY <1>9 DEF vars, scriptVars, Attempt, Deleters
  <2>2. QED
    BY <1>a, <2>1, AlteredSame DEF InputInv
<1>10. QED
  BY <1>0, <1>1, <1>2, <1>3, <1>4, <1>5, <1>6, <1>7, <1>8, <1>9 DEF Next, Script, Finished

(* Up to the first death, every run finds the same files, and the input as *)
(* the user gave it but for what the runs have altered since it was last   *)
(* deleted.                                                                *)
THEOREM RunsStartAlikeCorrect == Spec => []RunsStartAlike
<1>1. Init => AlikeInv
  BY DEF Init, AlikeInv
<1>2. AlikeInv /\ InputInv => RunsStartAlike
  BY DEF AlikeInv, InputInv, RunsStartAlike
<1>3. QED
  BY <1>1, <1>2, PlaceCorrect, AlikeStep, TypesCorrect, OutcomeInit, OutcomeStep, InputInit,
     InputStep, PTL DEF Spec

-----------------------------------------------------------------------------
(* The outcome of an attempt is not touched once the next one is made.     *)
LEMMA OutcomeKept ==
  ASSUME NEW w, outcome' = With(outcome, Attempt, w), NEW a, a # Attempt
  PROVE  /\ a \in DOMAIN outcome' <=> a \in DOMAIN outcome
         /\ a \in DOMAIN outcome => outcome'[a] = outcome[a]
         /\ IsReported(a)' <=> IsReported(a)
<1>1. /\ a \in DOMAIN outcome' <=> a \in DOMAIN outcome
      /\ a \in DOMAIN outcome => outcome'[a] = outcome[a]
  BY DEF With
<1>2. QED
  BY <1>1 DEF IsReported

LEMMA NotEarlier ==
  ASSUME Place, pc # "stopped"
  PROVE  ~Earlier(Attempt) /\ Attempt[1] = session
<1>1. ii \in Int /\ index \in Int
  BY OptionAssumption DEF Place, PlaceInv
<1>2. Attempt[1] = session /\ Attempt[2] = ii /\ Attempt[3] = index
  BY DEF Attempt
<1>3. QED
  BY <1>1, <1>2 DEF Earlier

(* Who comes before the next run: those before this one, and this one.     *)
LEMMA EarlierNext ==
  ASSUME Place, Report, NEW a \in Attempts, a[1] = session, a # Attempt,
         pc' = "stopped" \/ Earlier(a)'
  PROVE  Earlier(a)
<1>1. /\ pc = "report" /\ ii \in 1 .. Len(RunOption)
      /\ index \in 1 .. RunOption[ii].numOfRuns
      /\ RunOption[ii].numOfRuns \in Nat /\ Len(RunOption) \in Nat
  BY OptionAssumption DEF Report, Place, PlaceInv
<1>2. /\ a[2] \in 1 .. Len(RunOption) /\ a[3] \in 1 .. RunOption[a[2]].numOfRuns
      /\ a = <<a[1], a[2], a[3]>>
  BY AttemptForm
<1>3. RunOption[a[2]].numOfRuns \in Nat
  BY <1>2, OptionAssumption
<1>4. a[2] # ii \/ a[3] # index
  BY <1>2 DEF Attempt
<1>5. CASE ~OptionDone
  <2>1. index' = index + 1 /\ ii' = ii /\ pc' = "write"
    BY <1>5 DEF Report
  <2>2. a[2] < ii \/ (a[2] = ii /\ a[3] < index + 1)
    BY <2>1 DEF Earlier
  <2>3. QED
    BY <1>1, <1>2, <1>3, <1>4, <2>2 DEF Earlier
<1>6. CASE OptionDone /\ ii < Len(RunOption)
  <2>1. index' = 1 /\ ii' = ii + 1 /\ pc' = "option"
    BY <1>6 DEF Report
  <2>2. a[2] < ii + 1 \/ (a[2] = ii + 1 /\ a[3] < 1)
    BY <2>1 DEF Earlier
  <2>3. QED
    BY <1>1, <1>2, <1>3, <1>4, <1>6, <2>2 DEF Earlier, OptionDone
<1>7. CASE OptionDone /\ ~(ii < Len(RunOption))
  BY <1>1, <1>2, <1>3, <1>4, <1>7 DEF Earlier, OptionDone
<1>8. QED
  BY <1>5, <1>6, <1>7

LEMMA DoneStep == Place /\ DoneInv /\ [Next]_vars => DoneInv'
<1> SUFFICES ASSUME Place, DoneInv, [Next]_vars, ~interrupted', NEW a \in Attempts,
                    \/ a[1] < session'
                    \/ a[1] = session' /\ (pc' = "stopped" \/ Earlier(a)')
             PROVE  IsReported(a)'
  BY DEF DoneInv, Attempts
<1>0. ~interrupted /\ ~WriteFails /\ ~Dies
  BY DEF Next, Start, Script, ReadOption, WriteConfig, WriteFails, Launch, Timeout, Reap,
     MoveFile, AllMoved, WriteStdout, Replenish, Report, Child, Opens, Records, Outputs,
     Alters, Deletes, ChildDoes, ChildEnds, Dies, Finished, vars
<1>a. ASSUME a[1] < session \/ (a[1] = session /\ (pc = "stopped" \/ Earlier(a)))
      PROVE  IsReported(a)
  BY <1>0, <1>a DEF DoneInv
<1>1. CASE Start
  <2>1. /\ pc = "stopped" /\ session' = session + 1 /\ ii' = 1 /\ index' = 1
        /\ pc' = "option" /\ outcome' = outcome /\ session \in Nat
    BY <1>1, SessionAssumption DEF Start, Place
  <2>2. a[1] \in Nat /\ a[2] \in Nat \ {0} /\ a[3] \in Nat \ {0}
    BY AttemptForm, OptionAssumption, SessionAssumption
  <2>3. ~Earlier(a)'
    BY <2>1, <2>2 DEF Earlier
  <2>4. a[1] < session \/ a[1] = session
    BY <2>1, <2>2, <2>3
  <2>5. IsReported(a)
    BY <1>a, <2>1, <2>4
  <2>6. QED
    BY <2>1, <2>5 DEF IsReported
<1>2. CASE Launch \/ Timeout \/ Child
  <2>1. /\ pc # "stopped" /\ pc' # "stopped" /\ UNCHANGED <<session, ii, index>>
        /\ \E w : outcome' = With(outcome, Attempt, w)
    BY <1>2 DEF Launch, Timeout, Child, Opens, Records, Outputs, Alters, Deletes, ChildDoes,
       ChildEnds, scriptVars
  <2>2. IsReported(a) /\ (a[1] < session \/ Earlier(a))
    BY <1>a, <2>1 DEF Earlier
  <2>3. a # Attempt
    <3>1. session \in Int
      BY SessionAssumption DEF Place
    <3>2. QED
      BY <2>1, <2>2, <3>1, NotEarlier
  <2>4. QED
    BY <2>1, <2>2, <2>3, OutcomeKept
<1>3. CASE Report
  <2>1. /\ pc = "report" /\ session' = session
        /\ outcome' = With(outcome, Attempt, outcome[Attempt] \cup {"reported"})
    BY <1>3 DEF Report
  <2>2. CASE a = Attempt
    BY <2>1, <2>2 DEF IsReported, With
  <2>3. CASE a # Attempt
    <3>1. a[1] < session \/ (a[1] = session /\ Earlier(a))
      BY <1>3, <2>1, <2>3, EarlierNext
    <3>2. QED
      BY <1>a, <2>1, <2>3, <3>1, OutcomeKept
  <2>4. QED
    BY <2>2, <2>3
<1>4. CASE ReadOption
  <2>1. /\ pc' = "write" /\ UNCHANGED <<session, ii, index, outcome>>
    BY <1>0, <1>4 DEF ReadOption
  <2>2. IsReported(a)
    BY <1>a, <2>1 DEF Earlier
  <2>3. QED
    BY <2>1, <2>2 DEF IsReported
<1>5. CASE WriteConfig \/ Reap \/ (\E n \in Names : MoveFile(n)) \/ AllMoved \/ WriteStdout
             \/ Replenish
  <2>1. /\ pc' # "stopped" /\ UNCHANGED <<session, ii, index, outcome>>
    BY <1>5 DEF WriteConfig, Reap, MoveFile, AllMoved, WriteStdout, Replenish, scriptVars
  <2>2. IsReported(a)
    BY <1>a, <2>1 DEF Earlier
  <2>3. QED
    BY <2>1, <2>2 DEF IsReported
<1>6. CASE UNCHANGED vars
  BY <1>a, <1>6 DEF vars, scriptVars, IsReported, Earlier
<1>7. QED
  BY <1>0, <1>1, <1>2, <1>3, <1>4, <1>5, <1>6 DEF Next, Script, Finished

(* A script that was not cut short has reported every run of every option. *)
THEOREM AllRunsDoneCorrect == Spec => []AllRunsDone
<1>1. Init => DoneInv
  <2> SUFFICES ASSUME Init, NEW a \in Attempts PROVE ~(a[1] < session) /\ a[1] # session
    BY DEF DoneInv
  <2>1. QED
    BY AttemptForm, SessionAssumption DEF Init
<1>2. Place /\ DoneInv => AllRunsDone
  <2> SUFFICES ASSUME Place, DoneInv, pc = "stopped", ~interrupted, NEW a \in Attempts,
                      a[1] <= session
               PROVE  IsReported(a)
    BY DEF AllRunsDone, IsReported
  <2>1. a[1] \in Int /\ session \in Int
    BY AttemptForm, SessionAssumption DEF Place
  <2>2. a[1] < session \/ a[1] = session
    BY <2>1
  <2>3. QED
    BY <2>2 DEF DoneInv
<1>3. QED
  BY <1>1, <1>2, PlaceCorrect, DoneStep, PTL DEF Spec

-----------------------------------------------------------------------------
(* In the first session.                                                   *)
Stores == {stat_dir, prog_output, std_output, error_output}

(* A step of a run files under its id only.                                *)
Filed(d, e) == /\ DOMAIN d \subseteq DOMAIN e /\ DOMAIN e \subseteq DOMAIN d \cup {RunId}
               /\ \A id \in DOMAIN d \ {RunId} : e[id] = d[id]

FilesHere ==
  /\ Filed(stat_dir, stat_dir') /\ Filed(prog_output, prog_output')
  /\ Filed(std_output, std_output') /\ Filed(error_output, error_output')
  /\ \A a : a # Attempt => /\ a \in DOMAIN outcome' <=> a \in DOMAIN outcome
                           /\ a \in DOMAIN outcome => outcome'[a] = outcome[a]

LEMMA FiledWith == \A d, c : Filed(d, With(d, RunId, c)) /\ Filed(d, d)
BY DEF Filed, With

LEMMA StepFilesHere == [Next]_vars => FilesHere
<1> SUFFICES ASSUME [Next]_vars PROVE FilesHere
  OBVIOUS
<1>1. CASE Launch \/ Timeout \/ Child
  <2>1. UNCHANGED resultVars /\ \E w : outcome' = With(outcome, Attempt, w)
    BY <1>1 DEF Launch, Timeout, Child, Opens, Records, Outputs, Alters, Deletes, ChildDoes,
       ChildEnds
  <2>2. QED
    BY <2>1, FiledWith, OutcomeKept DEF resultVars, FilesHere
<1>2. CASE \E n \in Names : MoveFile(n)
  <2>1. /\ stat_dir' = stat_dir \/ \E c : stat_dir' = With(stat_dir, RunId, c)
        /\ prog_output' = prog_output \/ \E c : prog_output' = With(prog_output, RunId, c)
        /\ UNCHANGED <<std_output, error_output, outcome>>
    BY <1>2 DEF MoveFile
  <2>2. QED
    BY <2>1, FiledWith DEF FilesHere
<1>3. CASE WriteStdout
  BY <1>3, FiledWith DEF WriteStdout, FilesHere
<1>4. CASE Report
  <2>1. /\ error_output' = error_output \/ \E c : error_output' = With(error_output, RunId, c)
        /\ outcome' = With(outcome, Attempt, outcome[Attempt] \cup {"reported"})
        /\ UNCHANGED <<stat_dir, prog_output, std_output>>
    BY <1>4 DEF Report, ErrorFiles
  <2>2. QED
    BY <2>1, FiledWith, OutcomeKept DEF FilesHere
<1>5. CASE \/ Start \/ ReadOption \/ WriteConfig \/ WriteFails \/ Reap
           \/ AllMoved \/ Replenish \/ Dies \/ UNCHANGED vars
  <2>1. UNCHANGED <<resultVars, outcome>>
    BY <1>5 DEF Start, ReadOption, WriteConfig, WriteFails, Reap, AllMoved, Replenish, Dies,
       vars
  <2>2. QED
    BY <2>1, FiledWith DEF resultVars, FilesHere
<1>6. QED
  BY <1>1, <1>2, <1>3, <1>4, <1>5 DEF Next, Script, Finished

(* The results of an attempt at another run stay what they are.            *)
Complete(a) ==
  /\ Exactly(stat_dir, a, "recorded" \in outcome[a])
  /\ Exactly(prog_output, a, "output" \in outcome[a])
  /\ Exactly(std_output, a, TRUE)
  /\ Exactly(error_output, a, "exit0" \notin outcome[a])

LEMMA ExactlyKept ==
  ASSUME NEW d, NEW e, Filed(d, e), NEW a, IdOf(a) # RunId, NEW deed \in BOOLEAN,
         Exactly(d, a, deed)
  PROVE  Exactly(e, a, deed)
BY DEF Filed, Exactly

LEMMA CompleteKept ==
  ASSUME FilesHere, NEW a \in DOMAIN outcome, IdOf(a) # RunId, Complete(a)
  PROVE  Complete(a)'
<1>1. a # Attempt
  BY DEF IdOf, Attempt, RunId
<1>2. outcome'[a] = outcome[a]
  BY <1>1 DEF FilesHere
<1>3. Exactly(stat_dir', a, "recorded" \in outcome[a])
  <2>1. Filed(stat_dir, stat_dir') /\ Exactly(stat_dir, a, "recorded" \in outcome[a])
    BY DEF FilesHere, Complete
  <2>2. QED
    BY <2>1 DEF Filed, Exactly
<1>4. Exactly(prog_output', a, "output" \in outcome[a])
  <2>1. Filed(prog_output, prog_output') /\ Exactly(prog_output, a, "output" \in outcome[a])
    BY DEF FilesHere, Complete
  <2>2. QED
    BY <2>1 DEF Filed, Exactly
<1>5. Exactly(std_output', a, TRUE)
  BY ExactlyKept DEF FilesHere, Complete
<1>6. Exactly(error_output', a, "exit0" \notin outcome[a])
  BY ExactlyKept DEF FilesHere, Complete
<1>7. QED
  BY <1>2, <1>3, <1>4, <1>5, <1>6 DEF Complete, Exactly, IdOf

LEMMA OtherRun ==
  ASSUME Place, pc # "stopped", NEW a, Earlier(a)
  PROVE  IdOf(a) # RunId /\ a # Attempt
<1>1. ii \in Int /\ index \in Int
  BY OptionAssumption DEF Place, PlaceInv
<1>2. ~(a[2] = ii /\ a[3] = index)
  BY <1>1 DEF Earlier
<1>3. QED
  BY <1>2 DEF IdOf, RunId, Attempt

(* Every reported attempt of the first session is complete.                *)
LEMMA CompleteStep ==
  ASSUME Place, FileTypes, AttributedInv, [Next]_vars, session' = 1
  PROVE  RunsAttributed' /\ ReportedEarlier'
<1>0. FilesHere /\ session \in {0, 1}
  BY StepFilesHere, SessionAssumption DEF Place, Next, Start, Script, ReadOption, WriteConfig,
     WriteFails, Launch, Timeout, Reap, MoveFile, AllMoved, WriteStdout, Replenish, Report,
     Child, Opens, Records, Outputs, Alters, Deletes, ChildDoes, ChildEnds, Dies, Finished,
     vars, scriptVars
<1>1. CASE Start
  <2>1. session = 0 /\ outcome' = outcome
    BY <1>0, <1>1 DEF Start
  <2>2. Reported' = {}
    BY <2>1 DEF AttributedInv, Reported
  <2>3. QED
    BY <2>2 DEF RunsAttributed, ReportedEarlier
<1>2. CASE pc = "stopped" /\ ~Start
  <2>1. UNCHANGED vars
    BY <1>2 DEF Next, Script, ReadOption, WriteConfig, WriteFails, Launch, Timeout, Reap,
       MoveFile, AllMoved, WriteStdout, Replenish, Report, Child, Dies, Finished
  <2>2. RunsAttributed /\ ReportedEarlier
    BY <1>0, <2>1 DEF vars, scriptVars, AttributedInv
  <2>3. QED
    BY <2>1, <2>2 DEF vars, scriptVars, resultVars, RunsAttributed, ReportedEarlier, Reported,
       Exactly, Earlier
<1>3. CASE pc # "stopped" /\ ~Report
  <2>0. session = 1 /\ session' = session /\ RunsAttributed /\ ReportedEarlier
    BY <1>0, <1>3 DEF AttributedInv
  <2>1. /\ UNCHANGED <<ii, index>>
        /\ \/ \E w : outcome' = With(outcome, Attempt, w) /\ "reported" \notin w
           \/ outcome' = outcome
    <3>1. CASE Launch
      BY <3>1 DEF Launch, scriptVars
    <3>2. CASE Child \/ Timeout
      <4>1. /\ pc = "wait" /\ UNCHANGED scriptVars
            /\ \E deed : /\ deed # "reported"
                         /\ outcome' = With(outcome, Attempt, outcome[Attempt] \cup {deed})
        BY <3>2 DEF Timeout, Child, Opens, Records, Outputs, Alters, Deletes, ChildDoes,
           ChildEnds, scriptVars
      <4>2. "reported" \notin outcome[Attempt]
        <5>1. Attempt \in DOMAIN outcome
          BY <2>0, <4>1 DEF AttributedInv, UnderWay
        <5>2. ~Earlier(Attempt) /\ Attempt[1] = session
          BY <1>3, NotEarlier
        <5>3. QED
          BY <1>3, <2>0, <5>1, <5>2 DEF ReportedEarlier, Reported
      <4>3. QED
        BY <4>1, <4>2 DEF scriptVars
    <3>3. CASE ~Launch /\ ~Child /\ ~Timeout
      BY <1>3, <3>3 DEF Next, Start, Script, ReadOption, WriteConfig, WriteFails, Reap,
         MoveFile, AllMoved, WriteStdout, Replenish, Dies, Finished, vars, scriptVars
    <3>4. QED
      BY <3>1, <3>2, <3>3
  <2>2. Reported' \subseteq Reported
    BY <2>0, <2>1 DEF Reported, With
  <2>3. ASSUME NEW a \in Reported' PROVE Complete(a)' /\ Earlier(a)'
    <3>1. Earlier(a) /\ Complete(a) /\ a \in DOMAIN outcome
      BY <1>3, <2>0, <2>2, <2>3 DEF ReportedEarlier, RunsAttributed, Complete, Reported
    <3>2. IdOf(a) # RunId
      BY <1>3, <3>1, OtherRun
    <3>3. Complete(a)'
      BY <1>0, <3>1, <3>2, CompleteKept
    <3>4. QED
      BY <2>1, <3>1, <3>3 DEF Earlier
  <2>4. QED
    BY <2>3 DEF RunsAttributed, ReportedEarlier, Complete
<1>4. CASE Report
  <2>0. /\ session = 1 /\ session' = session /\ RunsAttributed /\ ReportedEarlier /\ UnderWay
        /\ pc = "report"
        /\ outcome' = With(outcome, Attempt, outcome[Attempt] \cup {"reported"})
    BY <1>0, <1>4 DEF AttributedInv, Report
  <2>1. Reported' \subseteq Reported \cup {Attempt}
    BY <2>0 DEF Reported, With
  <2>2. ASSUME NEW me, me = Attempt PROVE Complete(me)'
    <3>1. /\ outcome'[me] = outcome[Attempt] \cup {"reported"}
          /\ stat_dir' = stat_dir /\ prog_output' = prog_output /\ std_output' = std_output
      BY <1>4, <2>0, <2>2 DEF Report, With
    <3>2. /\ "recorded" \in outcome'[me] <=> Did("recorded")
          /\ "output" \in outcome'[me] <=> Did("output")
          /\ "exit0" \in outcome'[me] <=> child = "exit0"
      BY <2>0, <2>2, <3>1 DEF UnderWay, Did
    <3>3. /\ Exactly(stat_dir', me, "recorded" \in outcome'[me])
          /\ Exactly(prog_output', me, "output" \in outcome'[me])
          /\ Exactly(std_output', me, TRUE)
      BY <2>0, <2>2, <3>1, <3>2 DEF UnderWay, Exactly, IdOf
    <3>4. Exactly(error_output', me, "exit0" \notin outcome'[me])
      <4>1. IdOf(me) = RunId /\ RunId \notin DOMAIN error_output
        BY <2>0, <2>2 DEF UnderWay, IdOf, RunId, Attempt
      <4>2. CASE child = "exit0"
        <5>1. error_output' = error_output
          BY <1>4, <4>2 DEF Report, ErrorFiles
        <5>2. QED
          BY <3>2, <4>1, <4>2, <5>1 DEF Exactly
      <4>3. CASE child # "exit0"
        <5>1. error_output' = With(error_output, RunId, {Attempt})
          BY <1>4, <4>3 DEF Report, ErrorFiles
        <5>2. RunId \in DOMAIN error_output' /\ error_output'[RunId] = {Attempt}
          BY <5>1 DEF With
        <5>3. QED
          BY <2>2, <3>2, <4>1, <4>3, <5>2 DEF Exactly
      <4>4. QED
        BY <4>2, <4>3
    <3>5. QED
      BY <3>3, <3>4 DEF Complete
  <2>3. ASSUME NEW a \in Reported' PROVE Complete(a)' /\ (pc' # "stopped" => Earlier(a)')
    <3>1. CASE a = Attempt
      <4>1. Complete(a)'
        BY <2>2, <3>1
      <4>2. pc' # "stopped" => Earlier(a)'
        <5>1. ii \in Int /\ index \in Int
          BY <2>0, OptionAssumption DEF Place, PlaceInv
        <5>2. a[2] = ii /\ a[3] = index
          BY <3>1 DEF Attempt
        <5>3. \/ ii' = ii /\ index' = index + 1
              \/ ii' = ii + 1
              \/ pc' = "stopped"
          BY <1>4 DEF Report
        <5>4. QED
          BY <5>1, <5>2, <5>3 DEF Earlier
      <4>3. QED
        BY <4>1, <4>2
    <3>2. CASE a # Attempt
      <4>1. a \in Reported
        BY <2>1, <2>3, <3>2
      <4>2. Earlier(a) /\ Complete(a) /\ a \in DOMAIN outcome
        BY <2>0, <4>1 DEF ReportedEarlier, RunsAttributed, Complete, Reported
      <4>3. IdOf(a) # RunId
        BY <2>0, <4>2, OtherRun
      <4>4. Complete(a)'
        BY <1>0, <4>2, <4>3, CompleteKept
      <4>5. pc' # "stopped" => Earlier(a)'
        <5>1. ii \in Int /\ index \in Int
          BY <2>0, OptionAssumption DEF Place, PlaceInv
        <5>2. a[2] \in Int /\ a[3] \in Int
          BY <4>2, AttemptForm, OptionAssumption DEF FileTypes
        <5>3. \/ ii' = ii /\ index' = index + 1
              \/ ii' = ii + 1
              \/ pc' = "stopped"
          BY <1>4 DEF Report
        <5>4. QED
          BY <4>2, <5>1, <5>2, <5>3 DEF Earlier
      <4>6. QED
        BY <4>4, <4>5
    <3>3. QED
      BY <3>1, <3>2
  <2>4. QED
    BY <2>3 DEF RunsAttributed, ReportedEarlier, Complete
<1>5. QED
  BY <1>1, <1>2, <1>3, <1>4

(* Nothing is filed for a run that has not ended.                          *)
Later(id) == id[1] > ii \/ (id[1] = ii /\ id[2] > index)

LEMMA UntouchedKept ==
  ASSUME FilesHere, NEW id, id # RunId, Untouched(id)
  PROVE  Untouched(id)'
BY DEF FilesHere, Filed, Untouched

LEMMA NotYetStep ==
  ASSUME Place, AttributedInv, [Next]_vars, session' = 1, pc' # "stopped"
  PROVE  NotYet'
<1>0. Place' /\ FilesHere
  BY PlaceStep, StepFilesHere
<1>1. CASE Start
  <2>1. session = 0 /\ UNCHANGED resultVars
    BY <1>1, SessionAssumption DEF Start, Place
  <2>2. \A id \in RunIds : Untouched(id)'
    BY <2>1 DEF AttributedInv, Untouched, resultVars
  <2>3. RunId' \in RunIds
    BY <1>0, ThisAttemptNext
  <2>4. QED
    BY <2>2, <2>3 DEF NotYet, Untouched
<1>2. CASE ~Start
  <2>0. pc # "stopped"
    BY <1>2 DEF Next, Script, ReadOption, WriteConfig, WriteFails, Launch, Timeout, Reap,
       MoveFile, AllMoved, WriteStdout, Replenish, Report, Child, Dies, Finished, vars
  <2>1. session = 1 /\ NotYet
    <3>1. session' = session
      BY <1>2 DEF Next, Script, ReadOption, WriteConfig, WriteFails, Launch, Timeout, Reap,
         MoveFile, AllMoved, WriteStdout, Replenish, Report, Child, Opens, Records, Outputs,
         Alters, Deletes, ChildDoes, ChildEnds, Dies, Finished, vars, scriptVars
    <3>2. QED
      BY <3>1 DEF AttributedInv
  <2>2. ii \in Int /\ index \in Int
    BY <2>0, OptionAssumption DEF Place, PlaceInv
  <2>3. ASSUME NEW id \in RunIds, Later(id) PROVE Untouched(id)'
    <3>1. id # RunId
      BY <2>2, <2>3 DEF Later, RunId
    <3>2. Untouched(id)
      BY <2>0, <2>1, <2>3 DEF NotYet, Later
    <3>3. QED
      BY <1>0, <3>1, <3>2, UntouchedKept
  <2>4. CASE Report
    <3>1. \/ ii' = ii /\ index' = index + 1
          \/ ii' = ii + 1 /\ index' = 1
      BY <2>4 DEF Report
    <3>2. ASSUME NEW id \in RunIds, id = RunId' \/ Later(id)' PROVE Later(id)
      <4>1. id[1] \in Int /\ id[2] \in Int
        BY OptionAssumption DEF RunIds
      <4>2. CASE id = RunId'
        <5>1. id[1] = ii' /\ id[2] = index'
          BY <4>2 DEF RunId
        <5>2. QED
          BY <2>2, <3>1, <5>1 DEF Later
      <4>3. CASE Later(id)'
        BY <2>2, <3>1, <4>1, <4>3 DEF Later
      <4>4. QED
        BY <3>2, <4>2, <4>3
    <3>3. RunId' \in RunIds
      BY <1>0, ThisAttemptNext
    <3>4. PICK me \in RunIds : me = RunId'
      BY <3>3
    <3>5. Untouched(me)'
      BY <2>3, <3>2, <3>4
    <3>6. Untouched(RunId)'
      BY <3>4, <3>5 DEF Untouched
    <3>7. \A id \in RunIds : Later(id)' => Untouched(id)'
      BY <2>3, <3>2
    <3>8. QED
      BY <3>6, <3>7 DEF NotYet, Later
  <2>5. CASE ~Report
    <3>1. UNCHANGED <<ii, index>>
      BY <1>2, <2>5 DEF Next, Script, ReadOption, WriteConfig, WriteFails, Launch, Timeout, Reap,
         MoveFile, AllMoved, WriteStdout, Replenish, Child, Opens, Records, Outputs,
         Alters, Deletes, ChildDoes, ChildEnds, Dies, Finished, vars, scriptVars
    <3>2. \A id \in RunIds : Later(id)' => Untouched(id)'
      BY <2>3, <3>1 DEF Later
    <3>3. ASSUME pc' \in {"option", "write", "launch", "wait"} PROVE Untouched(RunId)'
      <4>1. UNCHANGED resultVars /\ pc \in {"option", "write", "launch", "wait"}
        BY <1>2, <2>0, <2>5, <3>3 DEF Next, Script, ReadOption, WriteConfig, WriteFails, Launch,
           Timeout, Reap, MoveFile, AllMoved, WriteStdout, Replenish, Child, Opens, Records,
           Outputs, Alters, Deletes, ChildDoes, ChildEnds, Dies, Finished, vars
      <4>2. QED
        BY <2>1, <3>1, <4>1 DEF NotYet, Untouched, RunId, resultVars
    <3>4. QED
      BY <3>2, <3>3 DEF NotYet, Later
  <2>6. QED
    BY <2>4, <2>5
<1>3. QED
  BY <1>1, <1>2

(* The run under way: a deed of the program adds itself to the outcome.    *)
LEMMA DeedDone ==
  ASSUME NEW deed, ChildDoes(deed, dir'), UnderWay, NotYet
  PROVE  /\ pc = "wait" /\ pc' = "wait" /\ child = "running" /\ child' = child
         /\ UNCHANGED resultVars /\ Attempt' = Attempt /\ RunId' = RunId
         /\ Attempt \in DOMAIN outcome' /\ RunId \notin DOMAIN error_output
         /\ outcome'[Attempt] = outcome[Attempt] \cup {deed}
         /\ "exit0" \notin outcome[Attempt]
         /\ RunId \notin DOMAIN stat_dir /\ RunId \notin DOMAIN prog_output
         /\ StillHere("faults", stat_dir, Did("recorded"))
         /\ StillHere("out", prog_output, Did("output"))
<1>1. /\ pc = "wait" /\ pc' = "wait" /\ child = "running" /\ child' = child
      /\ UNCHANGED resultVars /\ Attempt' = Attempt /\ RunId' = RunId
      /\ outcome' = With(outcome, Attempt, outcome[Attempt] \cup {deed})
  BY DEF ChildDoes, scriptVars, Attempt, RunId
<1>2. Attempt \in DOMAIN outcome' /\ outcome'[Attempt] = outcome[Attempt] \cup {deed}
  BY <1>1 DEF With
<1>3. /\ RunId \notin DOMAIN error_output /\ ~Did("exit0")
      /\ StillHere("faults", stat_dir, Did("recorded"))
      /\ StillHere("out", prog_output, Did("output"))
  BY <1>1 DEF UnderWay
<1>4. RunId \notin DOMAIN stat_dir /\ RunId \notin DOMAIN prog_output
  BY <1>1 DEF NotYet, Untouched
<1>5. QED
  BY <1>1, <1>2, <1>3, <1>4 DEF Did

(* What the directory holds of it, when nothing of it is filed yet.        *)
Held(n, deed) ==
  IF deed THEN n \in DOMAIN dir /\ dir[n] = {Attempt}
  ELSE n \in DOMAIN dir => n = "faults" /\ dir[n] = {}

LEMMA HeldNext ==
  ASSUME NEW deed, ChildDoes(deed, dir'), UnderWay, NotYet, deed # "exit0",
         Held("faults", Did("recorded"))', Held("out", Did("output"))'
  PROVE  UnderWay'
<1>1. /\ pc' = "wait" /\ child = "running" /\ child' = child
      /\ UNCHANGED resultVars /\ Attempt' = Attempt /\ RunId' = RunId
      /\ Attempt \in DOMAIN outcome' /\ RunId \notin DOMAIN error_output
      /\ outcome'[Attempt] = outcome[Attempt] \cup {deed}
      /\ "exit0" \notin outcome[Attempt]
      /\ RunId \notin DOMAIN stat_dir /\ RunId \notin DOMAIN prog_output
  BY DeedDone
<1>2. StillHere("faults", stat_dir, Did("recorded"))'
  BY <1>1 DEF Held, StillHere, Did, resultVars
<1>3. StillHere("out", prog_output, Did("output"))'
  BY <1>1 DEF Held, StillHere, Did, resultVars
<1>4. "exit0" \notin outcome'[Attempt']
  BY <1>1
<1>5. QED
  BY <1>1, <1>2, <1>3, <1>4 DEF UnderWay, Did, resultVars

(* The program ends, by itself or not.                                     *)
LEMMA EndUnderWay ==
  ASSUME UnderWay, NEW r \in Result, pc = "wait", child = "running", child' = r,
         outcome' = With(outcome, Attempt, outcome[Attempt] \cup {r}),
         UNCHANGED <<pc, scriptVars, dir, resultVars>>
  PROVE  UnderWay'
<1>1. Attempt' = Attempt /\ RunId' = RunId
  BY DEF scriptVars, Attempt, RunId
<1>2. Attempt \in DOMAIN outcome' /\ outcome'[Attempt] = outcome[Attempt] \cup {r}
  BY DEF With
<1>3. /\ "exit0" \notin outcome[Attempt] /\ RunId \notin DOMAIN error_output
      /\ StillHere("faults", stat_dir, Did("recorded"))
      /\ StillHere("out", prog_output, Did("output"))
  BY DEF UnderWay, Did
<1>4. "exit0" \in outcome'[Attempt] <=> child' = "exit0"
  BY <1>2, <1>3
<1>5. /\ "recorded" \in outcome'[Attempt] <=> Did("recorded")
      /\ "output" \in outcome'[Attempt] <=> Did("output")
  BY <1>2 DEF Did, Result
<1>6. StillHere("faults", stat_dir, Did("recorded"))'
  BY <1>1, <1>3, <1>5 DEF StillHere, Did, resultVars
<1>7. StillHere("out", prog_output, Did("output"))'
  BY <1>1, <1>3, <1>5 DEF StillHere, Did, resultVars
<1>8. QED
  BY <1>1, <1>2, <1>3, <1>4, <1>6, <1>7 DEF UnderWay, Did, resultVars

LEMMA ChildUnderWay ==
  ASSUME Child, UnderWay, NotYet
  PROVE  UnderWay'
<1>0. ASSUME NEW deed, ChildDoes(deed, dir')
      PROVE  /\ Held("faults", "recorded" \in outcome[Attempt])
             /\ Held("out", "output" \in outcome[Attempt])
             /\ Attempt' = Attempt /\ outcome'[Attempt] = outcome[Attempt] \cup {deed}
  BY <1>0, DeedDone DEF StillHere, Held, Did
<1>1. CASE Opens
  <2>1. /\ dir' = With(dir, "faults", IF "faults" \in DOMAIN dir THEN dir["faults"] ELSE {})
        /\ ChildDoes("opened", dir')
    BY <1>1 DEF Opens, ChildDoes
  <2>2. /\ DOMAIN dir' = DOMAIN dir \cup {"faults"}
        /\ dir'["faults"] = IF "faults" \in DOMAIN dir THEN dir["faults"] ELSE {}
        /\ "out" \in DOMAIN dir => dir'["out"] = dir["out"]
    BY <2>1 DEF With
  <2>3. Held("faults", Did("recorded"))' /\ Held("out", Did("output"))'
    BY <1>0, <2>1, <2>2 DEF Held, Did
  <2>4. QED
    BY <2>1, <2>3, HeldNext
<1>2. CASE Records
  <2>1. /\ dir' = With(dir, "faults", dir["faults"] \cup {Attempt})
        /\ ChildDoes("recorded", dir') /\ "faults" \in DOMAIN dir
    BY <1>2 DEF Records, ChildDoes
  <2>2. /\ DOMAIN dir' = DOMAIN dir
        /\ dir'["faults"] = dir["faults"] \cup {Attempt}
        /\ "out" \in DOMAIN dir => dir'["out"] = dir["out"]
    BY <2>1 DEF With
  <2>3. dir["faults"] \in {{}, {Attempt}}
    BY <1>0, <2>1 DEF Held
  <2>4. Held("faults", Did("recorded"))' /\ Held("out", Did("output"))'
    BY <1>0, <2>1, <2>2, <2>3 DEF Held, Did
  <2>5. QED
    BY <2>1, <2>4, HeldNext
<1>3. CASE Outputs
  <2>1. dir' = With(dir, "out", {Attempt}) /\ ChildDoes("output", dir')
    BY <1>3 DEF Outputs, ChildDoes
  <2>2. /\ DOMAIN dir' = DOMAIN dir \cup {"out"} /\ dir'["out"] = {Attempt}
        /\ "faults" \in DOMAIN dir => dir'["faults"] = dir["faults"]
    BY <2>1 DEF With
  <2>3. Held("faults", Did("recorded"))' /\ Held("out", Did("output"))'
    BY <1>0, <2>1, <2>2 DEF Held, Did
  <2>4. QED
    BY <2>1, <2>3, HeldNext
<1>4. CASE Alters \/ Deletes
  <2>1. PICK deed \in {"altered", "deleted"} :
          /\ ChildDoes(deed, dir')
          /\ \/ /\ "input" \in DOMAIN dir
                /\ dir' = With(dir, "input", dir["input"] \cup {Attempt})
             \/ dir' = Without(dir, "input")
    BY <1>4 DEF Alters, Deletes, ChildDoes
  <2>2. \A n \in {"faults", "out"} :
          (n \in DOMAIN dir' <=> n \in DOMAIN dir) /\ (n \in DOMAIN dir => dir'[n] = dir[n])
    BY <2>1 DEF With, Without, Restrict
  <2>3. Held("faults", Did("recorded"))' /\ Held("out", Did("output"))'
    BY <1>0, <2>1, <2>2 DEF Held, Did
  <2>4. QED
    BY <2>1, <2>3, HeldNext
<1>5. CASE \E r \in {"exit0", "exit1", "signal"} : ChildEnds(r)
  <2>1. PICK r \in {"exit0", "exit1", "signal"} : ChildEnds(r)
    BY <1>5
  <2>2. QED
    BY <2>1, EndUnderWay DEF ChildEnds, Result
<1>6. QED
  BY <1>1, <1>2, <1>3, <1>4, <1>5 DEF Child

(* Its files are moved.                                                    *)
LEMMA MoveUnderWay ==
  ASSUME UnderWay, FilesInv, NEW n \in Names, MoveFile(n)
  PROVE  UnderWay'
<1>1. /\ pc = "move" /\ UNCHANGED <<pc, child, std_output, error_output, outcome>>
      /\ Attempt' = Attempt /\ RunId' = RunId
      /\ n \in {"faults", "out"} /\ n \in DOMAIN dir
  BY DEF MoveFile, scriptVars, Attempt, RunId, FilesInv, NewFiles, Names
<1>2. /\ DOMAIN dir' = DOMAIN dir \ {n} /\ \A m \in DOMAIN dir \ {n} : dir'[m] = dir[m]
  BY WithoutFile DEF MoveFile
<1>3. /\ StillHere("faults", stat_dir, "recorded" \in outcome[Attempt])
      /\ StillHere("out", prog_output, "output" \in outcome[Attempt])
  BY <1>1 DEF UnderWay, Did
<1>4. CASE n = "faults"
  <2>1. /\ prog_output' = prog_output
        /\ stat_dir' = IF dir["faults"] # {} THEN With(stat_dir, RunId, dir["faults"])
                       ELSE stat_dir
    BY <1>4 DEF MoveFile
  <2>2. StillHere("out", prog_output, Did("output"))'
    BY <1>1, <1>2, <1>3, <1>4, <2>1 DEF StillHere, Did
  <2>3. StillHere("faults", stat_dir, Did("recorded"))'
    <3>1. CASE "recorded" \in outcome[Attempt]
      <4>1. dir["faults"] = {Attempt}
        BY <1>1, <1>3, <1>4, <3>1 DEF StillHere
      <4>2. RunId \in DOMAIN stat_dir' /\ stat_dir'[RunId] = {Attempt}
        BY <2>1, <4>1 DEF With
      <4>3. "faults" \notin DOMAIN dir'
        BY <1>2, <1>4
      <4>4. QED
        BY <1>1, <3>1, <4>2, <4>3 DEF StillHere, Did
    <3>2. CASE "recorded" \notin outcome[Attempt]
      <4>1. dir["faults"] = {} /\ RunId \notin DOMAIN stat_dir
        BY <1>1, <1>3, <1>4, <3>2 DEF StillHere
      <4>2. QED
        BY <1>1, <1>2, <1>4, <2>1, <3>2, <4>1 DEF StillHere, Did
    <3>3. QED
      BY <3>1, <3>2
  <2>4. QED
    BY <1>1, <2>2, <2>3 DEF UnderWay, Did
<1>5. CASE n = "out"
  <2>1. /\ stat_dir' = stat_dir /\ prog_output' = With(prog_output, RunId, dir["out"])
    BY <1>5 DEF MoveFile
  <2>2. StillHere("faults", stat_dir, Did("recorded"))'
    BY <1>1, <1>2, <1>3, <1>5, <2>1 DEF StillHere, Did
  <2>3. "output" \in outcome[Attempt] /\ dir["out"] = {Attempt}
    BY <1>1, <1>3, <1>5 DEF StillHere
  <2>4. RunId \in DOMAIN prog_output' /\ prog_output'[RunId] = {Attempt}
    BY <2>1, <2>3 DEF With
  <2>5. "out" \notin DOMAIN dir'
    BY <1>2, <1>5
  <2>6. StillHere("out", prog_output, Did("output"))'
    BY <1>1, <2>3, <2>4, <2>5 DEF StillHere, Did
  <2>7. QED
    BY <1>1, <2>2, <2>6 DEF UnderWay, Did
<1>6. QED
  BY <1>1, <1>4, <1>5

LEMMA UnderWayStep ==
  ASSUME Place, AlikeInv, FilesInv, AttributedInv, [Next]_vars, session' = 1
  PROVE  UnderWay'
<1>1. CASE Start \/ ReadOption \/ WriteConfig \/ WriteFails \/ Report \/ Dies
  <2>1. pc' \in {"stopped", "option", "write", "launch"}
    BY <1>1 DEF Start, ReadOption, WriteConfig, WriteFails, Report, Dies
  <2>2. QED
    BY <2>1 DEF UnderWay
<1>2. CASE pc = "stopped" /\ UNCHANGED vars
  BY <1>2 DEF vars, UnderWay
<1>3. CASE ~(Start \/ ReadOption \/ WriteConfig \/ WriteFails \/ Report \/ Dies)
             /\ ~(pc = "stopped" /\ UNCHANGED vars)
  <2>0. /\ session = 1 /\ pc # "stopped" /\ ~interrupted /\ UnderWay /\ NotYet
        /\ UNCHANGED scriptVars /\ Attempt' = Attempt /\ RunId' = RunId
    <3>1. UNCHANGED scriptVars /\ pc # "stopped"
      BY <1>3 DEF Next, Script, Launch, Timeout, Reap, MoveFile, AllMoved, WriteStdout,
         Replenish, Child, Opens, Records, Outputs, Alters, Deletes, ChildDoes, ChildEnds,
         Finished, vars, AttributedInv, scriptVars
    <3>2. session = 1
      BY <3>1 DEF scriptVars
    <3>3. QED
      BY <3>1, <3>2 DEF AttributedInv, scriptVars, Attempt, RunId
  <2>1. CASE Launch
    <3>1. /\ pc' = "wait" /\ child' = "running" /\ UNCHANGED resultVars /\ dir' = dir
          /\ outcome' = With(outcome, Attempt, {}) /\ pc = "launch"
      BY <2>1 DEF Launch
    <3>2. Attempt \in DOMAIN outcome' /\ outcome'[Attempt] = {}
      BY <3>1 DEF With
    <3>3. /\ RunId \notin DOMAIN stat_dir /\ RunId \notin DOMAIN prog_output
          /\ RunId \notin DOMAIN error_output
      BY <2>0, <3>1 DEF NotYet, Untouched
    <3>4. DOMAIN dir = {"input"}
      BY <2>0, <3>1 DEF AlikeInv
    <3>5. /\ ~Did("exit0")' /\ ~Did("recorded")' /\ ~Did("output")'
      BY <2>0, <3>2 DEF Did
    <3>6. StillHere("faults", stat_dir, Did("recorded"))'
      BY <2>0, <3>1, <3>3, <3>4, <3>5 DEF StillHere, resultVars
    <3>7. StillHere("out", prog_output, Did("output"))'
      BY <2>0, <3>1, <3>3, <3>4, <3>5 DEF StillHere, resultVars
    <3>8. QED
      BY <2>0, <3>1, <3>2, <3>3, <3>5, <3>6, <3>7 DEF UnderWay, resultVars
  <2>2. CASE Child
    BY <2>0, <2>2, ChildUnderWay
  <2>3. CASE Timeout
    BY <2>0, <2>3, EndUnderWay DEF Timeout, Result
  <2>4. CASE Reap
    <3>1. /\ pc = "wait" /\ pc' = "move" /\ UNCHANGED <<dir, child, resultVars, outcome>>
      BY <2>4 DEF Reap
    <3>2. RunId \notin DOMAIN std_output
      BY <2>0, <3>1 DEF NotYet, Untouched
    <3>3. QED
      BY <2>0, <3>1, <3>2 DEF UnderWay, Did, StillHere, resultVars
  <2>5. CASE \E n \in Names : MoveFile(n)
    BY <2>0, <2>5, MoveUnderWay
  <2>6. CASE AllMoved
    <3>1. /\ pc = "move" /\ pc' = "stdout" /\ UNCHANGED <<dir, child, resultVars, outcome>>
          /\ DOMAIN dir \subseteq {"input"}
      BY <2>0, <2>6 DEF AllMoved, NewFiles, AlikeInv
    <3>2. /\ StillHere("faults", stat_dir, "recorded" \in outcome[Attempt])
          /\ StillHere("out", prog_output, "output" \in outcome[Attempt])
          /\ IdOf(Attempt) = RunId
      BY <2>0, <3>1 DEF UnderWay, Did, IdOf, RunId, Attempt
    <3>3. /\ Exactly(stat_dir, Attempt, "recorded" \in outcome[Attempt])
          /\ Exactly(prog_output, Attempt, "output" \in outcome[Attempt])
      BY <3>1, <3>2 DEF StillHere, Exactly
    <3>4. Exactly(stat_dir, Attempt, Did("recorded"))' /\ Exactly(prog_output, Attempt, Did("output"))'
      BY <2>0, <3>1, <3>3 DEF Exactly, Did, resultVars, IdOf
    <3>5. QED
      BY <2>0, <3>1, <3>4 DEF UnderWay, Did, resultVars
  <2>7. CASE WriteStdout
    <3>1. /\ pc = "stdout" /\ pc' = "replenish"
          /\ UNCHANGED <<child, stat_dir, prog_output, error_output, outcome>>
          /\ std_output' = With(std_output, RunId, {Attempt})
      BY <2>7 DEF WriteStdout
    <3>2. RunId \in DOMAIN std_output' /\ std_output'[RunId] = {Attempt}
      BY <3>1 DEF With
    <3>3. Exactly(std_output, Attempt, TRUE)'
      BY <2>0, <3>2 DEF Exactly, IdOf, RunId, Attempt
    <3>4. QED
      BY <2>0, <3>1, <3>3 DEF UnderWay, Did, Exactly, IdOf
  <2>8. CASE Replenish
    <3>1. /\ pc = "replenish" /\ pc' = "report" /\ UNCHANGED <<child, resultVars, outcome>>
      BY <2>8 DEF Replenish
    <3>2. QED
      BY <2>0, <3>1 DEF UnderWay, Did, Exactly, IdOf, resultVars
  <2>9. CASE UNCHANGED vars
    BY <2>0, <2>9 DEF vars, resultVars, UnderWay, Did, StillHere, Exactly, IdOf
  <2>10. QED
    BY <1>3, <2>1, <2>2, <2>3, <2>4, <2>5, <2>6, <2>7, <2>8, <2>9 DEF Next, Script, Finished
<1>4. QED
  BY <1>1, <1>2, <1>3

LEMMA AttributedStep ==
  ASSUME Place, FileTypes, AlikeInv, FilesInv, AttributedInv, [Next]_vars
  PROVE  AttributedInv'
<1>0. session \in Nat /\ session' \in Nat
  BY PlaceStep, SessionAssumption DEF Place
<1>1. CASE session' = 0
  <2>1. session = 0 /\ pc = "stopped" /\ ~Start
    <3>1. ~Start
      BY <1>0, <1>1 DEF Start
    <3>2. session' = session
      BY <3>1 DEF Next, Script, ReadOption, WriteConfig, WriteFails, Launch, Timeout, Reap,
         MoveFile, AllMoved, WriteStdout, Replenish, Report, Child, Opens, Records, Outputs,
         Alters, Deletes, ChildDoes, ChildEnds, Dies, Finished, vars, scriptVars
    <3>3. QED
      BY <1>1, <3>1, <3>2 DEF AttributedInv
  <2>2. UNCHANGED vars
    BY <2>1 DEF Next, Script, ReadOption, WriteConfig, WriteFails, Launch, Timeout, Reap,
       MoveFile, AllMoved, WriteStdout, Replenish, Report, Child, Dies, Finished
  <2>3. QED
    BY <2>1, <2>2 DEF AttributedInv, vars, scriptVars, resultVars, Untouched
<1>2. CASE session' = 1
  <2>1. RunsAttributed' /\ ReportedEarlier'
    BY <1>2, CompleteStep
  <2>2. pc' # "stopped" => NotYet'
    BY <1>2, NotYetStep
  <2>3. pc' = "stopped" => NotYet'
    BY DEF NotYet
  <2>4. UnderWay'
    BY <1>2, UnderWayStep
  <2>5. ASSUME pc' # "stopped" PROVE ~interrupted'
    <3>1. CASE Start
      <4>1. session = 0
        BY <1>0, <1>2, <3>1 DEF Start
      <4>2. QED
        BY <3>1, <4>1 DEF Start, AttributedInv
    <3>2. CASE ~Start
      <4>1. session' = session /\ pc # "stopped" /\ interrupted' = interrupted
        BY <2>5, <3>2 DEF Next, Script, ReadOption, WriteConfig, WriteFails, Launch, Timeout,
           Reap, MoveFile, AllMoved, WriteStdout, Replenish, Report, Child, Opens, Records,
           Outputs, Alters, Deletes, ChildDoes, ChildEnds, Dies, Finished, vars, scriptVars
      <4>2. QED
        BY <1>2, <2>5, <4>1 DEF AttributedInv
    <3>3. QED
      BY <3>1, <3>2
  <2>6. QED
    BY <1>2, <2>1, <2>2, <2>3, <2>4, <2>5 DEF AttributedInv
<1>3. CASE session' \notin {0, 1}
  BY <1>3 DEF AttributedInv
<1>4. QED
  BY <1>1, <1>2, <1>3

(* In directories that start empty, the results filed under a run's id are *)
(* those of this run and complete.                                         *)
THEOREM RunsAttributedCorrect == Spec => []RunsAttributed
<1>1. Init => FilesInv /\ AlikeInv /\ AttributedInv
  BY DEF Init, FilesInv, AlikeInv, AttributedInv, Untouched, Nowhere
<1>2. Place /\ AttributedInv => RunsAttributed
  BY DEF AttributedInv, RunsAttributed
<1>3. QED
  BY <1>1, <1>2, TypesCorrect, FilesStep, AlikeStep, AttributedStep, PTL DEF Spec
=============================================================================
