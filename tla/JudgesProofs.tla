----------------------------- MODULE JudgesProofs -----------------------------
(***************************************************************************)
(* Proofs about the two judged groups, BuildStorm for every number of      *)
(* boots and every duration of the build, and the judge of the cagent      *)
(* group for every set of tests, every time limit and every number of runs.*)
(***************************************************************************)
EXTENDS BuildStorm, CAgentRuns, WellFoundedInduction, TLAPS

-----------------------------------------------------------------------------
(* The last of the places of a log that match.                             *)

\* A set of places has a last one, which is its Max.
LEMMA LastPlace ==
  ASSUME NEW len \in Nat, NEW S \in SUBSET (1 .. len), S # {}
  PROVE  Max(S) \in S /\ \A y \in S : Max(S) >= y
<1> DEFINE below == {len - n : n \in S}
<1>1. below \subseteq Nat /\ below # {}
  <2>1. \A n \in S : len - n \in Nat
    <3>1. \A n \in 1 .. len : len - n \in Nat
      OBVIOUS
    <3> QED BY <3>1
  <2>2. \A n \in S : len - n \in below
    OBVIOUS
  <2> QED BY <2>1, <2>2
<1>2. PICK least \in below : \A d \in below : ~ (<<d, least>> \in OpToRel(<, Nat))
  <2> HIDE DEF below
  <2> QED BY <1>1, NatLessThanWellFounded, WFMin
<1>3. \A d \in below : least <= d
  <2> HIDE DEF below
  <2>1. OpToRel(<, Nat) = {ss \in Nat \X Nat : ss[1] < ss[2]}
    BY DEF OpToRel
  <2>2. ASSUME NEW d \in below, d < least PROVE FALSE
    <3>1. <<d, least>> \in Nat \X Nat /\ <<d, least>>[1] < <<d, least>>[2]
      BY <1>1, <2>2
    <3>2. <<d, least>> \in OpToRel(<, Nat)
      BY <2>1, <3>1
    <3> QED BY <1>2, <3>2
  <2>3. least \in Nat /\ \A d \in below : d \in Nat
    BY <1>1
  <2> QED BY <2>2, <2>3
<1>4. PICK x \in S : least = len - x
  BY <1>2
<1>5. ASSUME NEW y \in S PROVE x >= y
  <2>1. len - x <= len - y
    BY <1>3, <1>4
  <2> QED BY <2>1
<1> QED BY <1>5 DEF Max

-----------------------------------------------------------------------------
(* The cagent group: its judge grades the run that came to its end.        *)

Verdicts == {"pass", "reject"}
Records == [run : Nat, name : Tests, status : Verdicts, elapsed_ms : Int]

\* Types; a job that is done has a verdict.
RunsTypes ==
  /\ text \in Seq(Records)
  /\ group \in Nat
  /\ job \in [Tests -> [verdict : Verdicts \cup {"none"}, took : Nat]]
  /\ \A t \in Tests : job[t] = Running \/ job[t].verdict \in Verdicts
  /\ over \in BOOLEAN

\* The records come in the order of the runs, those of this run say what its
\* jobs did, and every job that is done has one.
Told ==
  /\ \A n \in 1 .. Len(text) :
       /\ text[n].run <= group
       /\ text[n].status = "pass" => text[n].name \in passed_once
       /\ text[n].run = group =>
            /\ job[text[n].name] # Running
            /\ text[n].status = job[text[n].name].verdict
            /\ group \notin misread => text[n].elapsed_ms = job[text[n].name].took
  /\ \A m, n \in 1 .. Len(text) : m <= n => text[m].run <= text[n].run
  /\ \A t \in Tests : job[t] # Running =>
       \E n \in 1 .. Len(text) : text[n].run = group /\ text[n].name = t
  /\ over => \A t \in Tests : job[t] # Running

-----------------------------------------------------------------------------
\* The place of the record that is graded.
LEMMA Graded ==
  ASSUME NEW t \in Tests, text \in Seq(Records), Matches(t) # {}
  PROVE  /\ parse_records(t) \in Matches(t)
         /\ \A n \in Matches(t) : n <= parse_records(t)
         /\ parse_records(t) > 0
<1>1. Len(text) \in Nat /\ Matches(t) \in SUBSET (1 .. Len(text))
  BY DEF Matches
<1>2. Max(Matches(t)) \in Matches(t) /\ \A y \in Matches(t) : Max(Matches(t)) >= y
  BY <1>1, LastPlace
<1>3. parse_records(t) = Max(Matches(t))
  BY DEF parse_records
<1> QED BY <1>1, <1>2, <1>3

\* What appending a record does to the text.
LEMMA Appended ==
  ASSUME text \in Seq(Records), NEW r \in Records, text' = Append(text, r)
  PROVE  /\ text' \in Seq(Records)
         /\ Len(text') = Len(text) + 1 /\ Len(text) \in Nat
         /\ text'[Len(text) + 1] = r
         /\ \A n \in 1 .. Len(text) : text'[n] = text[n]
OBVIOUS

-----------------------------------------------------------------------------
LEMMA EndTestKeeps ==
  ASSUME RunsTypes, Told, NEW t \in Tests, EndTest(t)
  PROVE  RunsTypes' /\ Told'
<1>1. PICK verdict \in Verdicts, d \in Times, duration \in Times \cup {NoNumber} :
        /\ text' = Append(text, Record(t, verdict, duration))
        /\ job' = [job EXCEPT ![t] = [verdict |-> verdict, took |-> d]]
        /\ passed_once' = IF verdict = "pass" THEN passed_once \cup {t} ELSE passed_once
        /\ misread' = IF duration = d THEN misread ELSE misread \cup {group}
  BY DEF EndTest, Verdicts
<1> DEFINE r == Record(t, verdict, duration)
<1>2. d \in Nat /\ r \in Records
  BY RunsAssumption DEF Record, Records, NoNumber, RunsTypes
<1>3. /\ text' \in Seq(Records)
      /\ Len(text') = Len(text) + 1 /\ Len(text) \in Nat
      /\ text'[Len(text) + 1] = r
      /\ \A n \in 1 .. Len(text) : text'[n] = text[n]
  BY <1>1, <1>2, Appended DEF RunsTypes
<1>4. /\ r.run = group /\ r.name = t /\ r.status = verdict /\ r.elapsed_ms = duration
  BY DEF Record
<1>5. /\ group' = group /\ over' = over /\ job[t] = Running
      /\ job'[t].verdict = verdict /\ job'[t].took = d
      /\ job'[t] # Running
      /\ \A u \in Tests \ {t} : job'[u] = job[u]
  BY <1>1 DEF EndTest, RunsTypes, Running, Verdicts
<1>6. RunsTypes'
  <2>1. job' \in [Tests -> [verdict : Verdicts \cup {"none"}, took : Nat]]
    BY <1>1, <1>2 DEF RunsTypes
  <2> QED BY <1>3, <1>5, <2>1 DEF RunsTypes
<1>7. ASSUME NEW n \in 1 .. Len(text')
      PROVE  /\ text'[n].run <= group'
             /\ text'[n].status = "pass" => text'[n].name \in passed_once'
             /\ text'[n].run = group' =>
                  /\ job'[text'[n].name] # Running
                  /\ text'[n].status = job'[text'[n].name].verdict
                  /\ group' \notin misread' => text'[n].elapsed_ms = job'[text'[n].name].took
  <2>1. CASE n = Len(text) + 1
    BY <1>1, <1>3, <1>4, <1>5, <2>1 DEF RunsTypes
  <2>2. CASE n \in 1 .. Len(text)
    <3>1. text'[n] = text[n] /\ text[n] \in Records
      BY <1>3, <2>2 DEF RunsTypes
    <3>2. text[n].run = group => text[n].name # t
      BY <1>5, <2>2 DEF Told
    <3>3. text[n].name \in Tests
      BY <3>1 DEF Records
    <3>4. group \notin misread' => group \notin misread
      BY <1>1
    <3> QED BY <1>1, <1>5, <2>2, <3>1, <3>2, <3>3, <3>4 DEF Told
  <2> QED BY <1>3, <2>1, <2>2
<1>8. ASSUME NEW m \in 1 .. Len(text'), NEW n \in 1 .. Len(text'), m <= n
      PROVE  text'[m].run <= text'[n].run
  <2>1. CASE n = Len(text) + 1
    BY <1>3, <1>4, <1>5, <1>7, <2>1
  <2>2. CASE n \in 1 .. Len(text)
    BY <1>3, <1>8, <2>2 DEF Told
  <2> QED BY <1>3, <2>1, <2>2
<1>9. ASSUME NEW u \in Tests, job'[u] # Running
      PROVE  \E n \in 1 .. Len(text') : text'[n].run = group' /\ text'[n].name = u
  <2>1. CASE u = t
    <3>1. Len(text) + 1 \in 1 .. Len(text')
      BY <1>3
    <3> QED BY <1>3, <1>4, <1>5, <2>1, <3>1
  <2>2. CASE u # t
    <3>1. PICK n \in 1 .. Len(text) : text[n].run = group /\ text[n].name = u
      BY <1>5, <1>9, <2>2 DEF Told
    <3>2. n \in 1 .. Len(text')
      BY <1>3
    <3> QED BY <1>3, <1>5, <3>1, <3>2
  <2> QED BY <2>1, <2>2
<1>10. ~ over
  BY <1>5 DEF Told, RunsTypes
<1> QED BY <1>5, <1>6, <1>7, <1>8, <1>9, <1>10 DEF Told

LEMMA RunAgainKeeps ==
  ASSUME RunsTypes, Told, RunAgain
  PROVE  RunsTypes' /\ Told'
<1>1. /\ group' = group + 1 /\ group \in Nat
      /\ over' = FALSE
      /\ job' = [t \in Tests |-> Running]
      /\ \A t \in Tests : job'[t] = Running
      /\ job' \in [Tests -> [verdict : Verdicts \cup {"none"}, took : Nat]]
  BY DEF RunAgain, RunsTypes, Running, Verdicts
<1>4. group' \in Nat /\ over' \in BOOLEAN
  <2>1. group' \in Nat
    BY <1>1
  <2>2. over' \in BOOLEAN
    BY <1>1, Zenon
  <2> QED BY <2>1, <2>2
<1>2. CASE UNCHANGED <<text, passed_once>>
  <2>1. RunsTypes'
    <3>1. text' \in Seq(Records)
      BY <1>2 DEF RunsTypes
    <3> QED BY <1>4, <1>1, <3>1, Zenon DEF RunsTypes
  <2>2. ASSUME NEW n \in 1 .. Len(text)
        PROVE  text[n].run \in Nat /\ text[n].run < group'
    <3>1. text[n] \in Records
      BY DEF RunsTypes
    <3>2. text[n].run \in Nat
      BY <3>1 DEF Records
    <3> QED BY <1>1, <3>2 DEF Told
  <2> QED BY <1>1, <1>2, <2>1, <2>2 DEF Told
<1>3. CASE \E t \in Tests, verdict \in Verdicts, d \in Times :
             /\ text' = Append(text, Record(t, verdict, IF d < 10 THEN NoNumber ELSE d \div 10))
             /\ passed_once' = IF verdict = "pass" THEN passed_once \cup {t} ELSE passed_once
  <2>1. PICK t \in Tests, verdict \in Verdicts, d \in Times :
          /\ text' = Append(text, Record(t, verdict, IF d < 10 THEN NoNumber ELSE d \div 10))
          /\ passed_once' = IF verdict = "pass" THEN passed_once \cup {t} ELSE passed_once
    BY <1>3
  <2> DEFINE r == Record(t, verdict, IF d < 10 THEN NoNumber ELSE d \div 10)
  <2>2. (IF d < 10 THEN NoNumber ELSE d \div 10) \in Int
    BY RunsAssumption DEF NoNumber
  <2>3. r \in Records /\ r.run = group /\ r.name = t /\ r.status = verdict
    BY <1>1, <2>2 DEF Record, Records
  <2>4. /\ text' \in Seq(Records)
        /\ Len(text') = Len(text) + 1 /\ Len(text) \in Nat
        /\ text'[Len(text) + 1] = r
        /\ \A n \in 1 .. Len(text) : text'[n] = text[n]
    BY <2>1, <2>3, Appended DEF RunsTypes
  <2>5. RunsTypes'
    BY <1>4, <1>1, <2>4, Zenon DEF RunsTypes
  <2>6. ASSUME NEW n \in 1 .. Len(text')
        PROVE  /\ text'[n].run \in Nat /\ text'[n].run <= group
               /\ text'[n].status = "pass" => text'[n].name \in passed_once'
    <3>1. CASE n = Len(text) + 1
      BY <1>1, <2>1, <2>3, <2>4, <3>1
    <3>2. CASE n \in 1 .. Len(text)
      <4>1. text'[n] = text[n] /\ text[n] \in Records
        BY <2>4, <3>2 DEF RunsTypes
      <4> QED BY <2>1, <3>2, <4>1 DEF Told, Records
    <3> QED BY <2>4, <3>1, <3>2
  <2>7. ASSUME NEW m \in 1 .. Len(text'), NEW n \in 1 .. Len(text'), m <= n
        PROVE  text'[m].run <= text'[n].run
    <3>1. CASE n = Len(text) + 1
      BY <2>3, <2>4, <2>6, <3>1
    <3>2. CASE n \in 1 .. Len(text)
      BY <2>4, <2>7, <3>2 DEF Told
    <3> QED BY <2>4, <3>1, <3>2
  <2>8. \A n \in 1 .. Len(text') : text'[n].run <= group' /\ text'[n].run # group'
    BY <1>1, <2>6
  <2> QED BY <1>1, <2>5, <2>6, <2>7, <2>8 DEF Told
<1> QED BY <1>2, <1>3 DEF RunAgain, Verdicts

LEMMA RunsNextKeeps == RunsTypes /\ Told /\ [RunsNext]_runsVars => RunsTypes' /\ Told'
<1> SUFFICES ASSUME RunsTypes, Told, [RunsNext]_runsVars PROVE RunsTypes' /\ Told'
  OBVIOUS
<1>1. CASE EndGroup
  BY <1>1 DEF EndGroup, RunsTypes, Told
<1>2. CASE UNCHANGED runsVars
  BY <1>2 DEF runsVars, RunsTypes, Told
<1> QED BY <1>1, <1>2, EndTestKeeps, RunAgainKeeps DEF RunsNext

LEMMA ToldIsGraded == RunsTypes /\ Told => GroupIsGraded
<1> SUFFICES ASSUME RunsTypes, Told PROVE GroupIsGraded
  OBVIOUS
<1>1. ASSUME NEW t \in Tests, over, group \notin misread
      PROVE  /\ test_passed(t) <=> job[t].verdict = "pass"
             /\ bonus(t) <=> job[t].verdict = "pass" /\ 0 < job[t].took /\ 2 * job[t].took < TimeLimit
  <2>1. PICK n \in 1 .. Len(text) : text[n].run = group /\ text[n].name = t
    BY <1>1 DEF Told
  <2>2. text[n].elapsed_ms = job[t].took /\ job[t].took \in Nat
    BY <1>1, <2>1 DEF Told, RunsTypes
  <2>3. n \in Matches(t)
    BY <2>1, <2>2 DEF Matches, NoNumber
  <2> DEFINE p == parse_records(t)
  <2>4. p \in Matches(t) /\ n <= p /\ p > 0
    BY <2>3, Graded DEF RunsTypes
  <2>5. p \in 1 .. Len(text) /\ text[p].name = t
    BY <2>4 DEF Matches
  <2>6. text[p] \in Records /\ text[p].run <= group /\ group <= text[p].run
    BY <2>1, <2>4, <2>5 DEF Told, RunsTypes
  <2>7. text[p].run = group
    BY <2>6 DEF Records, RunsTypes
  <2>8. text[p].status = job[t].verdict /\ text[p].elapsed_ms = job[t].took
    BY <1>1, <2>5, <2>7 DEF Told
  <2> QED BY <2>4, <2>8 DEF test_passed, bonus
<1>2. ASSUME NEW t \in Tests, test_passed(t) PROVE t \in passed_once
  <2>1. Matches(t) # {}
    BY <1>2 DEF test_passed, parse_records
  <2>2. parse_records(t) \in Matches(t)
    BY <2>1, Graded DEF RunsTypes
  <2>3. parse_records(t) \in 1 .. Len(text) /\ text[parse_records(t)].name = t
    BY <2>2 DEF Matches
  <2> QED BY <1>2, <2>3 DEF test_passed, Told
<1> QED BY <1>1, <1>2 DEF GroupIsGraded

\* Every record that decides a grade is the one the run that came to its end
\* printed, and no test is credited that never passed.
THEOREM GradesAreOfTheLastRun == RunsSpec => []GroupIsGraded
<1>1. RunsInit => RunsTypes /\ Told
  <2> SUFFICES ASSUME RunsInit PROVE RunsTypes /\ Told
    OBVIOUS
  <2>1. \A t \in Tests : job[t] = Running
    BY DEF RunsInit
  <2>2. text \in Seq(Records) /\ Len(text) = 0 /\ group \in Nat
    BY DEF RunsInit
  <2>3. job \in [Tests -> [verdict : Verdicts \cup {"none"}, took : Nat]]
    BY DEF RunsInit, Running
  <2>4. over \in BOOLEAN /\ ~ over
    BY Zenon DEF RunsInit
  <2>5. RunsTypes
    BY <2>1, <2>2, <2>3, <2>4, Zenon DEF RunsTypes
  <2> QED BY <2>1, <2>2, <2>4, <2>5 DEF Told
<1> QED BY <1>1, RunsNextKeeps, ToldIsGraded, PTL DEF RunsSpec

-----------------------------------------------------------------------------
(* BuildStorm, its script and its judge.                                   *)

\* What printing a line does to the log.
LEMMA Printed ==
  ASSUME log \in Seq(Lines), NEW line \in Lines, Echo(line)
  PROVE  /\ log' \in Seq(Lines)
         /\ Len(log') = Len(log) + 1
         /\ \A n \in 1 .. Len(log) : log'[n] = log[n]
         /\ log'[Len(log) + 1] = line
BY DEF Echo

\* The lines that a step can print are lines.
LEMMA LineTyped ==
  ASSUME TypeOK, NEW tag \in Tags, NEW ok \in BOOLEAN, NEW e \in Int, NEW arch \in BOOLEAN
  PROVE  Line(tag, ok, e, arch) \in Lines
BY DEF TypeOK, Line, Lines

\* Every line a step prints has its tag, and nothing else is printed.
Prints(tag) ==
  \E ok, arch \in BOOLEAN, e \in Int : Echo(Line(tag, ok, e, arch))

LEMMA WhatIsPrinted ==
  ASSUME TypeOK
  PROVE  /\ Toolchain => Prints("toolchain")
         /\ Minibuild => Prints("minibuild")
         /\ NoSources => Prints("compile")
         /\ Report => Prints("compile")
         /\ TornReport => Prints("compile")
<1>1. \A n, m \in BOOLEAN : TRUE \in BOOLEAN /\ FALSE \in BOOLEAN /\ 0 \in Int
  OBVIOUS
<1>2. Toolchain => Prints("toolchain")
  BY Zenon, <1>1 DEF Toolchain, Prints
<1>3. Minibuild => Prints("minibuild")
  BY Zenon, <1>1 DEF Minibuild, Prints
<1>4. NoSources => Prints("compile")
  BY Zenon, <1>1 DEF NoSources, Prints
<1>5. \A found : Accepted(found) \in BOOLEAN
  BY DEF Accepted
<1>6. ELAPSED \in Int
  BY DEF TypeOK
<1>7. Report => Prints("compile")
  BY Zenon, <1>5, <1>6 DEF Report, Prints
<1>8. \A found, whole : (whole /\ Accepted(found)) \in BOOLEAN
  OBVIOUS
<1>9. TornReport => Prints("compile")
  BY Zenon, <1>1, <1>8 DEF TornReport, Prints
<1> QED BY <1>2, <1>3, <1>4, <1>7, <1>9

LEMMA PrintsTyped ==
  ASSUME TypeOK, NEW tag \in Tags, Prints(tag)
  PROVE  log' \in Seq(Lines)
BY LineTyped, Printed DEF Prints, TypeOK

-----------------------------------------------------------------------------
\* Initially everything has its type.
LEMMA TypeInit == Init => TypeOK
<1> SUFFICES ASSUME Init PROVE TypeOK
  OBVIOUS
<1>1. log \in Seq(Lines)
  BY DEF Init
<1>2. {ours, other} \subseteq Sizes
  BY ArtefactsAssumption DEF Init, Sizes
<1>3. passed \cup unwritten \cup kept \subseteq 1 .. boot /\ boot \in 1 .. Boots
  BY BootsAssumption DEF Init
<1>4. {RC, status} \subseteq Statuses \cup {"none"} /\ rcfile \in Statuses \cup {"absent"}
  BY DEF Init
<1>5. /\ clock \in Nat /\ took \in Nat /\ T0 \in Nat \cup {Unreadable}
      /\ ELAPSED \in Int
  BY DEF Init
<1>6. pc = "toolchain"
  BY DEF Init
<1>7. measured \in BOOLEAN
  BY Zenon DEF Init
<1> QED BY <1>1, <1>2, <1>3, <1>4, <1>5, <1>6, <1>7 DEF TypeOK

LEMMA TypeNext == TypeOK /\ [Next]_vars => TypeOK'
<1> SUFFICES ASSUME TypeOK, [Next]_vars PROVE TypeOK'
  OBVIOUS
<1>1. "toolchain" \in Tags /\ "minibuild" \in Tags /\ "compile" \in Tags
  BY DEF Tags, EnvTags, ENV_PTS
<1> USE DEF TypeOK
<1>2. CASE UNCHANGED vars
  BY <1>2 DEF vars, disk, history
<1>3. CASE Toolchain
  <2>1. log' \in Seq(Lines)
    BY <1>1, <1>3, WhatIsPrinted, PrintsTyped
  <2> QED BY <1>3, <2>1 DEF Toolchain, disk, history
<1>4. CASE Minibuild
  <2>1. log' \in Seq(Lines)
    BY <1>1, <1>4, WhatIsPrinted, PrintsTyped
  <2> QED BY <1>4, <2>1 DEF Minibuild, disk, history
<1>5. CASE NoSources
  <2>1. log' \in Seq(Lines)
    BY <1>1, <1>5, WhatIsPrinted, PrintsTyped
  <2> QED BY <1>5, <2>1 DEF NoSources, disk, history
<1>6. CASE Clean
  BY <1>6 DEF Clean, history, Sizes
<1>7. CASE Prebuild
  BY <1>7, TicksAssumption DEF Prebuild, disk, history
<1>8. CASE Build
  BY <1>8, TicksAssumption DEF Build, Sizes, Statuses
<1>9. CASE WriteRc
  <2>1. rcfile' \in Statuses \cup {"absent"}
    BY <1>9 DEF WriteRc, Statuses
  <2> QED BY <1>9, <2>1 DEF WriteRc, Statuses
<1>10. CASE ReadRc
  BY <1>10 DEF ReadRc, disk, history, Statuses
<1>11. CASE RemoveRc
  BY <1>11 DEF RemoveRc, UptimeReading, AsNumber, Unreadable
<1>12. CASE Report
  <2>1. log' \in Seq(Lines)
    BY <1>1, <1>12, WhatIsPrinted, PrintsTyped
  <2> QED BY <1>12, <2>1 DEF Report, disk, history
<1>13. ASSUME Reboot, log' \in Seq(Lines) PROVE TypeOK'
  <2>1. boot' \in 1 .. Boots /\ 1 .. boot \subseteq 1 .. boot' /\ boot \in 1 .. boot'
    BY <1>13, BootsAssumption DEF Reboot
  <2>2. passed' \cup unwritten' \cup kept' \subseteq 1 .. boot'
    BY <1>13, <2>1 DEF Reboot
  <2>3. {RC', status'} \subseteq Statuses \cup {"none"}
    BY <1>13 DEF Reboot
  <2>4. /\ clock' \in Nat /\ took' \in Nat /\ T0' \in Nat \cup {Unreadable}
        /\ ELAPSED' \in Int
    BY <1>13 DEF Reboot
  <2>5. pc' = "toolchain" /\ UNCHANGED <<rcfile, ours, other>>
    BY <1>13 DEF Reboot, disk
  <2>6. measured' \in BOOLEAN
    BY Zenon, <1>13 DEF Reboot
  <2> QED BY <1>13, <2>1, <2>2, <2>3, <2>4, <2>5, <2>6
<1>14. CASE TornReport
  BY <1>1, <1>13, <1>14, WhatIsPrinted, PrintsTyped DEF TornReport
<1>15. CASE Reboot /\ UNCHANGED log
  BY <1>13, <1>15
<1> QED
  BY <1>2, <1>3, <1>4, <1>5, <1>6, <1>7, <1>8, <1>9, <1>10, <1>11, <1>12, <1>14, <1>15 DEF Next

\* The script's variables, the disk and the log always have their types.
THEOREM BuildStormTyping == Spec => []TypeOK
BY TypeInit, TypeNext, PTL DEF Spec

-----------------------------------------------------------------------------
\* The rank of the line the script prints next.
Due == CASE pc = "toolchain" -> 1 [] pc = "minibuild" -> 2 [] pc = "done" -> 4 [] OTHER -> 3

\* What LogOrdered needs to be inductive: no line of this boot is ahead of the
\* script.
OrderInv ==
  /\ LogOrdered
  /\ \A n \in 1 .. Len(log) :
       log[n].boot < boot \/ (log[n].boot = boot /\ Rank(log[n].tag) < Due)

\* Boots are counted, in the script and in its lines.
LEMMA LogTyped ==
  ASSUME TypeOK
  PROVE  /\ boot \in Nat
         /\ \A n \in 1 .. Len(log) : log[n].boot \in Nat /\ log[n].tag \in Tags
<1>1. 1 .. Boots \subseteq Nat
  BY BootsAssumption
<1>2. \A n \in 1 .. Len(log) : log[n] \in Lines
  BY DEF TypeOK
<1> QED BY <1>1, <1>2 DEF TypeOK, Lines

LEMMA OrderPrints ==
  ASSUME TypeOK, OrderInv, NEW tag \in Tags, Prints(tag), Rank(tag) = Due,
         boot' \in Nat, boot' > boot \/ (boot' = boot /\ Due' > Due)
  PROVE  OrderInv'
<1>1. PICK ok \in BOOLEAN, arch \in BOOLEAN, e \in Int : Echo(Line(tag, ok, e, arch))
  BY DEF Prints
<1> DEFINE line == Line(tag, ok, e, arch)
<1>2. line \in Lines /\ line.boot = boot /\ line.tag = tag
  <2>1. line \in Lines
    BY LineTyped
  <2> QED BY <2>1 DEF Line
<1>3. /\ Len(log') = Len(log) + 1 /\ Len(log) \in Nat
      /\ \A n \in 1 .. Len(log) : log'[n] = log[n]
      /\ log'[Len(log) + 1] = line
  <2>1. log \in Seq(Lines)
    BY DEF TypeOK
  <2> HIDE DEF line
  <2> QED BY <1>1, <1>2, <2>1, Printed DEF line
<1> HIDE DEF line
<1>4. Due \in Nat /\ Due' \in Nat /\ boot \in Nat
  BY LogTyped DEF Due
<1>5. \A n \in 1 .. Len(log) : log[n].boot \in Nat /\ log[n].tag \in Tags
  BY LogTyped
<1>6. \A t \in Tags : Rank(t) \in Nat
  BY DEF Rank, Tags, EnvTags, ENV_PTS
<1>7. ASSUME NEW n \in 1 .. Len(log')
      PROVE  log'[n].boot < boot' \/ (log'[n].boot = boot' /\ Rank(log'[n].tag) < Due')
  <2>1. CASE n = Len(log) + 1
    <3>1. log'[n].boot = boot /\ Rank(log'[n].tag) = Due
      BY <1>2, <1>3, <2>1
    <3> QED BY <1>4, <3>1
  <2>2. CASE n \in 1 .. Len(log)
    <3>1. log[n].boot \in Nat /\ Rank(log[n].tag) \in Nat /\ log'[n] = log[n]
      BY <1>3, <1>5, <1>6, <2>2
    <3> QED BY <1>4, <2>2, <3>1 DEF OrderInv
  <2> QED BY <1>3, <2>1, <2>2
<1>8. ASSUME NEW m \in 1 .. Len(log'), NEW n \in 1 .. Len(log'), m < n
      PROVE  \/ log'[m].boot < log'[n].boot
             \/ log'[m].boot = log'[n].boot /\ Rank(log'[m].tag) < Rank(log'[n].tag)
  <2>1. m \in 1 .. Len(log)
    BY <1>3, <1>8
  <2>2. CASE n = Len(log) + 1
    BY <1>2, <1>3, <2>1, <2>2 DEF OrderInv
  <2>3. CASE n \in 1 .. Len(log)
    BY <1>3, <1>8, <2>1, <2>3 DEF OrderInv, LogOrdered
  <2> QED BY <1>3, <2>2, <2>3
<1> QED BY <1>7, <1>8 DEF OrderInv, LogOrdered

LEMMA OrderNext == TypeOK /\ OrderInv /\ [Next]_vars => OrderInv'
<1> SUFFICES ASSUME TypeOK, OrderInv, [Next]_vars PROVE OrderInv'
  OBVIOUS
<1>1. /\ Rank("toolchain") = 1 /\ Rank("minibuild") = 2 /\ Rank("compile") = 3
      /\ {"toolchain", "minibuild", "compile"} \subseteq Tags
  BY DEF Rank, Tags, EnvTags, ENV_PTS
<1>2. boot \in Nat
  BY LogTyped
<1>3. CASE Toolchain
  <2>1. Due = 1 /\ Due' = 2 /\ boot' = boot /\ boot' \in Nat
    BY <1>2, <1>3 DEF Toolchain, Due
  <2> QED BY <1>1, <1>3, <2>1, WhatIsPrinted, OrderPrints
<1>4. CASE Minibuild
  <2>1. Due = 2 /\ Due' = 3 /\ boot' = boot /\ boot' \in Nat
    BY <1>2, <1>4 DEF Minibuild, Due
  <2> QED BY <1>1, <1>4, <2>1, WhatIsPrinted, OrderPrints
<1>5. CASE NoSources
  <2>1. Due = 3 /\ Due' = 4 /\ boot' = boot /\ boot' \in Nat
    BY <1>2, <1>5 DEF NoSources, Due
  <2> QED BY <1>1, <1>5, <2>1, WhatIsPrinted, OrderPrints
<1>6. CASE Report
  <2>1. Due = 3 /\ Due' = 4 /\ boot' = boot /\ boot' \in Nat
    BY <1>2, <1>6 DEF Report, Due
  <2> QED BY <1>1, <1>6, <2>1, WhatIsPrinted, OrderPrints
<1>7. CASE TornReport
  <2>1. Due = 3 /\ boot' > boot /\ boot' \in Nat
    BY <1>2, <1>7 DEF TornReport, Reboot, Due
  <2> QED BY <1>1, <1>7, <2>1, WhatIsPrinted, OrderPrints
<1>8. ASSUME UNCHANGED <<boot, log>>, Due' = Due PROVE OrderInv'
  BY <1>8 DEF OrderInv, LogOrdered
<1>9. CASE Clean
  BY <1>8, <1>9 DEF Clean, Due
<1>10. CASE Prebuild \/ Build \/ WriteRc \/ ReadRc \/ RemoveRc
  BY <1>8, <1>10 DEF Prebuild, Build, WriteRc, ReadRc, RemoveRc, Due
<1>11. CASE UNCHANGED vars
  BY <1>8, <1>11 DEF vars, Due
<1>12. CASE Reboot /\ UNCHANGED log
  <2>1. \A n \in 1 .. Len(log) : log[n].boot \in Nat
    BY LogTyped
  <2> QED BY <1>2, <1>12, <2>1 DEF Reboot, OrderInv, LogOrdered
<1> QED
  BY <1>3, <1>4, <1>5, <1>6, <1>7, <1>9, <1>10, <1>11, <1>12 DEF Next

\* The lines of each boot are in the script's order and none comes twice, which
\* is what lets the judge take the last compile line for the latest verdict.
THEOREM BuildStormLogOrdered == Spec => []LogOrdered
<1>1. Init => OrderInv
  BY DEF Init, OrderInv, LogOrdered
<1>2. OrderInv => LogOrdered
  BY DEF OrderInv
<1> QED BY <1>1, <1>2, OrderNext, BuildStormTyping, PTL DEF Spec

-----------------------------------------------------------------------------
\* A boot may say ok=true: its build exited with 0, or it read a 0 that an
\* earlier boot left and that it could not overwrite.
Stale(b) == \E a \in kept \cap passed : a < b
Earned(b) == b \in passed \/ (b \in unwritten /\ Stale(b))

\* What OkIsEarned needs to be inductive: where every 0 on its way to the report
\* comes from.
EarnedInv ==
  /\ \A n \in 1 .. Len(log) : log[n].tag = "compile" /\ log[n].ok => Earned(log[n].boot)
  /\ pc = "write" /\ status = "zero" => boot \in passed
  /\ rcfile = "zero" =>
       /\ boot \in passed \/ Stale(boot)
       /\ pc = "read" => Earned(boot)
  /\ pc \in {"remove", "report"} /\ RC = "zero" => Earned(boot)

\* The histories only grow: what was earned stays earned.
LEMMA HistoryGrows ==
  ASSUME [Next]_vars
  PROVE  passed \subseteq passed' /\ unwritten \subseteq unwritten' /\ kept \subseteq kept'
BY DEF Next, vars, history, Toolchain, Minibuild, NoSources, Clean, Prebuild, Build,
   WriteRc, ReadRc, RemoveRc, Report, Reboot, TornReport

LogEarned ==
  \A n \in 1 .. Len(log) : log[n].tag = "compile" /\ log[n].ok => Earned(log[n].boot)

\* A line that is printed keeps the log earned if it is earned itself.
LEMMA EarnedPrints ==
  ASSUME TypeOK, LogEarned, [Next]_vars,
         NEW tag \in Tags, NEW ok \in BOOLEAN, NEW e \in Int, NEW arch \in BOOLEAN,
         Echo(Line(tag, ok, e, arch)),
         tag = "compile" /\ ok => Earned(boot)
  PROVE  LogEarned'
<1> DEFINE line == Line(tag, ok, e, arch)
<1>1. line \in Lines /\ line.boot = boot /\ line.tag = tag /\ line.ok = ok
  <2>1. line \in Lines
    BY LineTyped
  <2> QED BY <2>1 DEF Line
<1>2. /\ Len(log') = Len(log) + 1 /\ Len(log) \in Nat
      /\ \A n \in 1 .. Len(log) : log'[n] = log[n]
      /\ log'[Len(log) + 1] = line
  <2>1. log \in Seq(Lines)
    BY DEF TypeOK
  <2> HIDE DEF line
  <2> QED BY <1>1, <2>1, Printed DEF line
<1> HIDE DEF line
<1> SUFFICES ASSUME NEW n \in 1 .. Len(log'), log'[n].tag = "compile", log'[n].ok
             PROVE  Earned(log[n].boot)'
  BY DEF LogEarned
<1>3. CASE n = Len(log) + 1
  <2>1. Earned(boot)
    BY <1>1, <1>2, <1>3
  <2>2. log'[n].boot = boot
    BY <1>1, <1>2, <1>3
  <2> QED BY <2>1, <2>2, HistoryGrows DEF Earned, Stale
<1>4. CASE n \in 1 .. Len(log)
  <2>1. Earned(log[n].boot) /\ log'[n] = log[n]
    BY <1>2, <1>4 DEF LogEarned
  <2> QED BY <2>1, HistoryGrows DEF Earned, Stale
<1> QED BY <1>2, <1>3, <1>4

LEMMA LogEarnedNext == TypeOK /\ EarnedInv /\ [Next]_vars => LogEarned'
<1> SUFFICES ASSUME TypeOK, EarnedInv, [Next]_vars PROVE LogEarned'
  OBVIOUS
<1>1. LogEarned
  BY DEF EarnedInv, LogEarned
<1>2. {"toolchain", "minibuild", "compile"} \subseteq Tags
  BY DEF Tags, EnvTags, ENV_PTS
<1>3. TRUE \in BOOLEAN /\ FALSE \in BOOLEAN /\ 0 \in Int /\ ELAPSED \in Int
  BY DEF TypeOK
<1>4. CASE UNCHANGED log
  BY <1>1, <1>4, HistoryGrows DEF LogEarned, Earned, Stale
<1>5. CASE Toolchain
  <2>1. PICK ok \in BOOLEAN : Echo(Line("toolchain", ok, 0, FALSE))
    BY Zenon, <1>5 DEF Toolchain
  <2> QED BY <1>1, <1>2, <1>3, <2>1, EarnedPrints
<1>6. CASE Minibuild
  <2>1. PICK ok \in BOOLEAN : Echo(Line("minibuild", ok, 0, FALSE))
    BY Zenon, <1>6 DEF Minibuild
  <2> QED BY <1>1, <1>2, <1>3, <2>1, EarnedPrints
<1>7. CASE NoSources
  <2>1. PICK nproc \in BOOLEAN : Echo(Line("compile", FALSE, 0, nproc))
    BY Zenon, <1>7 DEF NoSources
  <2> QED BY <1>1, <1>2, <1>3, <2>1, EarnedPrints
<1>8. \A found : Accepted(found) \in BOOLEAN /\ (pc = "report" /\ Accepted(found) => Earned(boot))
  BY DEF Accepted, EarnedInv
<1>9. CASE Report
  <2>1. PICK found : \E nproc \in BOOLEAN : Echo(Line("compile", Accepted(found), ELAPSED, nproc))
    BY Zenon, <1>9 DEF Report
  <2>2. pc = "report"
    BY <1>9 DEF Report
  <2> QED BY <1>1, <1>2, <1>3, <1>8, <2>1, <2>2, EarnedPrints
<1>10. CASE TornReport
  <2>1. PICK found : \E whole \in BOOLEAN :
          Echo(Line("compile", whole /\ Accepted(found), 0, FALSE))
    BY Zenon, <1>10 DEF TornReport
  <2>2. pc = "report"
    BY <1>10 DEF TornReport
  <2>3. \A whole \in BOOLEAN : (whole /\ Accepted(found)) \in BOOLEAN
    OBVIOUS
  <2> QED BY <1>1, <1>2, <1>3, <1>8, <2>1, <2>2, <2>3, EarnedPrints
<1> QED
  BY <1>4, <1>5, <1>6, <1>7, <1>9, <1>10
  DEF Next, vars, Clean, Prebuild, Build, WriteRc, ReadRc, RemoveRc

LEMMA EarnedNext == TypeOK /\ EarnedInv /\ [Next]_vars => EarnedInv'
<1> SUFFICES ASSUME TypeOK, EarnedInv, [Next]_vars PROVE EarnedInv'
  OBVIOUS
<1>1. LogEarned'
  BY LogEarnedNext
<1>2. CASE UNCHANGED <<boot, pc, rcfile, status, RC, passed, unwritten, kept>>
  BY <1>1, <1>2 DEF EarnedInv, LogEarned, Earned, Stale
<1>3. CASE Toolchain \/ Minibuild \/ Clean \/ Prebuild
  BY <1>1, <1>3 DEF Toolchain, Minibuild, Clean, Prebuild, EarnedInv, LogEarned, Earned,
     Stale, disk, history
<1>4. CASE NoSources
  BY <1>1, <1>4 DEF NoSources, EarnedInv, LogEarned, Earned, Stale, disk, history
<1>5. CASE Build
  BY <1>1, <1>5 DEF Build, EarnedInv, LogEarned, Earned, Stale, Statuses
<1>6. CASE WriteRc
  BY <1>1, <1>6 DEF WriteRc, EarnedInv, LogEarned, Earned, Stale, TypeOK
<1>7. CASE ReadRc
  BY <1>1, <1>7 DEF ReadRc, EarnedInv, LogEarned, Earned, Stale, disk, history
<1>8. CASE RemoveRc
  BY <1>1, <1>8 DEF RemoveRc, EarnedInv, LogEarned, Earned, Stale
<1>9. CASE Report
  BY <1>1, <1>9 DEF Report, EarnedInv, LogEarned, Earned, Stale, disk, history
<1>10. CASE Reboot
  <2>1. boot \in Nat /\ boot' \in Nat /\ boot < boot'
    BY <1>10, LogTyped DEF Reboot
  <2>2. kept' \cap passed' \subseteq Nat /\ \A b \in kept \cap passed : b <= boot
    BY <1>10, <2>1 DEF Reboot, TypeOK
  <2>3. pc' = "toolchain" /\ UNCHANGED rcfile /\ passed' = passed
    BY <1>10 DEF Reboot, disk
  <2>4. ASSUME rcfile = "zero" PROVE Stale(boot)'
    <3>1. boot \in kept' /\ kept \subseteq kept'
      BY <1>10, <2>4 DEF Reboot
    <3>2. CASE boot \in passed
      BY <2>1, <2>3, <3>1, <3>2 DEF Stale
    <3>3. CASE Stale(boot)
      <4>1. PICK a \in kept \cap passed : a < boot
        BY <3>3 DEF Stale
      <4>2. a \in kept' \cap passed' /\ a < boot'
        BY <2>1, <2>2, <2>3, <3>1, <4>1
      <4> QED BY <4>2 DEF Stale
    <3> QED BY <2>4, <3>2, <3>3 DEF EarnedInv, Earned
  <2> QED BY <1>1, <2>3, <2>4 DEF EarnedInv, LogEarned
<1> QED
  BY <1>2, <1>3, <1>4, <1>5, <1>6, <1>7, <1>8, <1>9, <1>10
  DEF Next, vars, disk, history, TornReport

\* No boot is credited with a build that did not exit with 0, except through an
\* earlier one's file that this boot could not replace.
THEOREM BuildStormOkIsEarned == Spec => []OkIsEarned
<1>1. Init => EarnedInv
  BY DEF Init, EarnedInv
<1>2. TypeOK /\ EarnedInv => OkIsEarned
  BY DEF EarnedInv, OkIsEarned, Earned, Stale, CompileLines
<1> QED BY <1>1, <1>2, EarnedNext, BuildStormTyping, PTL DEF Spec

-----------------------------------------------------------------------------
\* A step leaves the log alone or prints one line.
LEMMA LogGrows ==
  ASSUME TypeOK, [Next]_vars
  PROVE  log' = log \/ \E line \in Lines : Echo(line)
<1>1. "toolchain" \in Tags /\ "minibuild" \in Tags /\ "compile" \in Tags
  BY DEF Tags, EnvTags, ENV_PTS
<1>2. ASSUME NEW tag \in Tags, Prints(tag) PROVE \E line \in Lines : Echo(line)
  BY <1>2, LineTyped DEF Prints
<1>3. CASE Toolchain \/ Minibuild \/ NoSources \/ Report \/ TornReport
  BY <1>1, <1>2, <1>3, WhatIsPrinted
<1>4. CASE Clean \/ Prebuild \/ Build \/ WriteRc
  BY <1>4 DEF Clean, Prebuild, Build, WriteRc
<1>5. CASE ReadRc \/ RemoveRc \/ (Reboot /\ UNCHANGED log)
  BY <1>5 DEF ReadRc, RemoveRc
<1>6. CASE UNCHANGED vars
  BY <1>6 DEF vars
<1> QED BY <1>3, <1>4, <1>5, <1>6 DEF Next

\* The line that is graded is the last one, wherever there is one.
LEMMA LastLine ==
  ASSUME NEW lines \in Seq(Lines), CompileLines(lines) # {}
  PROVE  /\ parse_compile(lines) \in CompileLines(lines)
         /\ \A n \in CompileLines(lines) : n <= parse_compile(lines)
<1>1. Len(lines) \in Nat /\ CompileLines(lines) \in SUBSET (1 .. Len(lines))
  BY DEF CompileLines
<1>2. /\ Max(CompileLines(lines)) \in CompileLines(lines)
      /\ \A n \in CompileLines(lines) : Max(CompileLines(lines)) >= n
  BY <1>1, LastPlace
<1>3. parse_compile(lines) = Max(CompileLines(lines))
  BY DEF parse_compile
<1> QED BY <1>1, <1>2, <1>3

\* The points of the parts of a score.
LEMMA PointsTyped ==
  ASSUME NEW lines \in Seq(Lines)
  PROVE  /\ \A tag \in EnvTags : EnvPoints(lines, tag) \in Nat
         /\ TimePoints(lines) \in Int
<1>1. \A tag \in EnvTags : EnvPoints(lines, tag) \in Nat
  BY DEF EnvPoints, EnvTags, ENV_PTS
<1>2. CASE CompileLines(lines) = {}
  <2>1. parse_compile(lines) = 0
    BY <1>2 DEF parse_compile
  <2>2. ~ CompileOk(lines)
    BY <2>1 DEF CompileOk
  <2>3. TimePoints(lines) = 0
    BY <2>2, Zenon DEF TimePoints
  <2> QED BY <1>1, <2>3
<1>3. CASE CompileLines(lines) # {}
  <2>1. parse_compile(lines) \in 1 .. Len(lines)
    BY <1>3, LastLine DEF CompileLines
  <2>2. lines[parse_compile(lines)].elapsed \in Int
    <3>1. lines[parse_compile(lines)] \in Lines
      BY <2>1
    <3> QED BY <3>1 DEF Lines
  <2>3. \A t \in Int : time_score(t) \in Int
    <3>1. \A t \in Int : Clamp(0, 2 * Baseline - t, Baseline) \in Int
      BY BaselineAssumption DEF Clamp
    <3> QED BY <3>1, BaselineAssumption DEF time_score, TIME_PTS
  <2>4. time_score(lines[parse_compile(lines)].elapsed) \in Int
    BY <2>2, <2>3
  <2>5. 0 \in Int
    OBVIOUS
  <2>6. TimePoints(lines) \in Int
    BY <2>4, <2>5, Zenon DEF TimePoints
  <2> QED BY <1>1, <2>6
<1> QED BY <1>1, <1>2, <1>3

\* A line that is no compile line takes no points away.
LEMMA PointsKept ==
  ASSUME log \in Seq(Lines), NEW line \in Lines, Echo(line),
         CompileLines(log') = CompileLines(log)
  PROVE  ~ (Total(log') < Total(log))
<1>1. /\ log' \in Seq(Lines)
      /\ Len(log') = Len(log) + 1 /\ Len(log) \in Nat
      /\ \A n \in 1 .. Len(log) : log'[n] = log[n]
  BY Printed
<1>2. parse_compile(log') = parse_compile(log)
  BY DEF parse_compile
<1>3. CompileOk(log') = CompileOk(log) /\ TimePoints(log') = TimePoints(log)
  <2>1. CASE CompileLines(log) = {}
    BY <1>2, <2>1 DEF CompileOk, TimePoints, parse_compile
  <2>2. CASE CompileLines(log) # {}
    <3>1. parse_compile(log) \in 1 .. Len(log)
      BY <2>2, LastLine DEF CompileLines
    <3>2. log'[parse_compile(log)] = log[parse_compile(log)]
      BY <1>1, <3>1
    <3> QED BY <1>2, <3>2 DEF CompileOk, TimePoints
  <2> QED BY <2>1, <2>2
<1>4. \A tag \in EnvTags : EnvPoints(log', tag) >= EnvPoints(log, tag)
  <2>1. \A tag \in EnvTags : EnvOk(log, tag) => EnvOk(log', tag)
    BY <1>1 DEF EnvOk
  <2> QED BY <2>1 DEF EnvPoints, EnvTags, ENV_PTS
<1>5. /\ "toolchain" \in EnvTags /\ "minibuild" \in EnvTags
      /\ SUCCESS_PTS \in Nat
  BY DEF EnvTags, ENV_PTS, SUCCESS_PTS
<1> QED BY <1>1, <1>3, <1>4, <1>5, PointsTyped DEF Total

\* The points of the items stand, whatever later boots print or lose, until a
\* newer compile line is there to be graded.
THEOREM BuildStormPointsStand == Spec => PointsStand
<1>1. ASSUME TypeOK, [Next]_vars, Total(log') < Total(log)
      PROVE  CompileLines(log') # CompileLines(log)
  <2>1. SUFFICES ASSUME CompileLines(log') = CompileLines(log) PROVE FALSE
    OBVIOUS
  <2>2. CASE log' = log
    <3>1. Total(log) \in Int
      <4>1. EnvPoints(log, "toolchain") \in Nat /\ EnvPoints(log, "minibuild") \in Nat
        BY <1>1, PointsTyped DEF TypeOK, EnvTags, ENV_PTS
      <4>2. TimePoints(log) \in Int
        BY <1>1, PointsTyped DEF TypeOK
      <4> QED BY <4>1, <4>2 DEF Total, SUCCESS_PTS
    <3>2. Total(log') = Total(log)
      BY <2>2 DEF Total, EnvPoints, EnvOk, TimePoints, CompileOk, parse_compile, CompileLines
    <3> QED BY <1>1, <3>1, <3>2
  <2>3. CASE \E line \in Lines : Echo(line)
    BY <1>1, <2>1, <2>3, PointsKept DEF TypeOK
  <2> QED BY <1>1, <2>2, <2>3, LogGrows
<1> QED BY <1>1, BuildStormTyping, PTL DEF Spec, PointsStand

-----------------------------------------------------------------------------
\* A script that has come to its end has printed its compile line last.
GradedInv ==
  pc = "done" =>
    /\ Len(log) > 0
    /\ log[Len(log)].tag = "compile" /\ log[Len(log)].boot = boot

LEMMA GradedNext == TypeOK /\ GradedInv /\ [Next]_vars => GradedInv'
<1> SUFFICES ASSUME TypeOK, GradedInv, [Next]_vars PROVE GradedInv'
  OBVIOUS
<1>1. CASE NoSources \/ Report
  <2>1. PICK ok \in BOOLEAN, arch \in BOOLEAN, e \in Int : Echo(Line("compile", ok, e, arch))
    BY <1>1, WhatIsPrinted DEF Prints
  <2>2. Line("compile", ok, e, arch) \in Lines
    BY LineTyped DEF Tags
  <2>3. /\ Len(log') = Len(log) + 1 /\ Len(log) \in Nat
        /\ log'[Len(log')] = Line("compile", ok, e, arch)
    BY <2>1, <2>2, Printed DEF TypeOK
  <2>4. boot' = boot
    BY <1>1 DEF NoSources, Report
  <2> QED BY <2>3, <2>4 DEF GradedInv, Line
<1>2. CASE Toolchain \/ Minibuild \/ Clean \/ Prebuild \/ Build \/ WriteRc \/ ReadRc \/ RemoveRc
  BY <1>2 DEF GradedInv, Toolchain, Minibuild, Clean, Prebuild, Build, WriteRc, ReadRc, RemoveRc
<1>3. CASE Reboot
  BY <1>3 DEF GradedInv, Reboot
<1>4. CASE UNCHANGED vars
  BY <1>4 DEF GradedInv, vars
<1> QED BY <1>1, <1>2, <1>3, <1>4 DEF Next, TornReport

\* The graded line of a script that has come to its end is its last one.
LEMMA GradedLast ==
  ASSUME TypeOK, GradedInv, pc = "done"
  PROVE  parse_compile(log) = Len(log)
<1>1. Len(log) \in CompileLines(log)
  BY DEF CompileLines, GradedInv, TypeOK
<1>2. parse_compile(log) \in 1 .. Len(log) /\ Len(log) <= parse_compile(log)
  BY <1>1, LastLine DEF CompileLines, TypeOK
<1> QED BY <1>2 DEF TypeOK

\* The judge grades the run that has come to its end, whatever earlier boots
\* have printed.
THEOREM BuildStormLatestRunGraded == Spec => []LatestRunGraded
<1>1. Init => GradedInv
  BY DEF Init, GradedInv
<1>2. TypeOK /\ GradedInv => LatestRunGraded
  <2> SUFFICES ASSUME TypeOK, GradedInv, pc = "done"
               PROVE  parse_compile(log) > 0 /\ log[parse_compile(log)].boot = boot
    BY DEF LatestRunGraded
  <2> QED BY GradedLast DEF GradedInv, TypeOK
<1> QED BY <1>1, <1>2, GradedNext, BuildStormTyping, PTL DEF Spec

-----------------------------------------------------------------------------
\* What MeasuredTimeCounts needs to be inductive: what the clock has to do with T0
\* and the build's time on the way to the report.
TimedInv ==
  /\ pc \in {"toolchain", "minibuild", "cd", "prebuild"} => ~ measured
  /\ pc = "build" /\ T0 # Unreadable => clock = T0
  /\ pc \in {"write", "read", "remove"} /\ T0 # Unreadable => clock = T0 + took
  /\ pc = "report" /\ measured => ELAPSED = took
  /\ pc = "done" /\ measured => log[Len(log)].elapsed = took

LEMMA TimedNext == TypeOK /\ TimedInv /\ [Next]_vars => TimedInv'
<1> SUFFICES ASSUME TypeOK, TimedInv, [Next]_vars PROVE TimedInv'
  OBVIOUS
<1>1. clock \in Nat /\ T0 \in Nat \cup {Unreadable} /\ ELAPSED \in Int
  BY DEF TypeOK
<1>2. CASE Toolchain \/ Minibuild \/ Clean
  <2>1. /\ pc \in {"toolchain", "minibuild", "cd"} /\ pc' \in {"minibuild", "cd", "prebuild"}
        /\ UNCHANGED <<clock, T0, ELAPSED>>
    BY <1>2 DEF Toolchain, Minibuild, Clean
  <2>2. UNCHANGED <<took, measured>>
    BY <1>2, Zenon DEF Toolchain, Minibuild, Clean, history
  <2>3. ~ measured
    BY <2>1 DEF TimedInv
  <2> QED BY <2>1, <2>2, <2>3 DEF TimedInv
<1>3. CASE NoSources
  BY <1>3 DEF TimedInv, NoSources, history
<1>4. CASE Prebuild
  BY <1>4 DEF TimedInv, Prebuild, history
<1>5. CASE Build
  <2>1. clock' = clock + took' /\ T0' = T0
    BY <1>5 DEF Build
  <2> QED BY <1>1, <1>5, <2>1 DEF TimedInv, Build
<1>6. CASE WriteRc \/ ReadRc
  BY <1>6 DEF TimedInv, WriteRc, ReadRc, history
<1>7. CASE RemoveRc
  <2>1. PICK T1 \in UptimeReading, awk \in BOOLEAN :
          /\ ELAPSED' = IF awk THEN AsNumber(T1) - AsNumber(T0) ELSE 0
          /\ measured' = (awk /\ T0 # Unreadable /\ T1 # Unreadable)
    BY <1>7 DEF RemoveRc
  <2>2. pc = "remove" /\ pc' = "report" /\ took' = took
    BY <1>7 DEF RemoveRc
  <2>3. took \in Nat
    BY DEF TypeOK
  <2>4. ASSUME measured' PROVE ELAPSED' = took'
    <3>1. awk /\ T0 # Unreadable /\ T1 = clock /\ T1 # Unreadable
      BY <2>1, <2>4 DEF UptimeReading
    <3>2. ELAPSED' = clock - T0
      BY <2>1, <3>1 DEF AsNumber
    <3>3. clock = T0 + took
      BY <2>2, <3>1 DEF TimedInv
    <3> QED BY <1>1, <2>2, <2>3, <3>1, <3>2, <3>3
  <2> QED BY <2>2, <2>4 DEF TimedInv
<1>8. CASE Report
  <2>1. PICK found : \E nproc \in BOOLEAN : Echo(Line("compile", Accepted(found), ELAPSED, nproc))
    BY Zenon, <1>8 DEF Report
  <2>2. PICK nproc \in BOOLEAN : Echo(Line("compile", Accepted(found), ELAPSED, nproc))
    BY <2>1
  <2>3. Accepted(found) \in BOOLEAN /\ "compile" \in Tags
    BY DEF Accepted, Tags
  <2>4. Line("compile", Accepted(found), ELAPSED, nproc) \in Lines
    BY <1>1, <2>3, LineTyped
  <2>5. /\ Len(log') = Len(log) + 1
        /\ log'[Len(log) + 1] = Line("compile", Accepted(found), ELAPSED, nproc)
    BY <2>2, <2>4, Printed DEF TypeOK
  <2>6. log'[Len(log')].elapsed = ELAPSED
    BY <2>5 DEF Line
  <2>7. pc = "report" /\ pc' = "done" /\ measured' = measured /\ took' = took
    BY <1>8 DEF Report, history
  <2> QED BY <2>6, <2>7 DEF TimedInv
<1>9. CASE Reboot
  BY <1>9 DEF TimedInv, Reboot
<1>10. CASE UNCHANGED vars
  BY <1>10 DEF TimedInv, vars, history
<1> QED
  BY <1>2, <1>3, <1>4, <1>5, <1>6, <1>7, <1>8, <1>9, <1>10 DEF Next, TornReport

\* What integer division leaves out is less than the divisor.
LEMMA Quotient ==
  ASSUME NEW n \in Int, NEW d \in Nat \ {0}
  PROVE  n \div d \in Int /\ d * (n \div d) <= n /\ n < d * (n \div d) + d
OBVIOUS

\* A division by 2B that is rounded as the judge rounds it.
LEMMA NearestTenth ==
  ASSUME NEW B \in Nat \ {0}, NEW c \in Int, NEW q, q = (2400 * c + B) \div (2 * B)
  PROVE  /\ c = B => q = 1200
         /\ c = 0 => q = 0
         /\ 2 * (B * q - 1200 * c) \in -B .. B
<1>1. 2 * B \in Nat \ {0} /\ 2400 * c + B \in Int
  OBVIOUS
<1>2. PICK n \in Int : n = 2400 * c + B
  BY <1>1
<1>3. PICK d \in Nat \ {0} : d = 2 * B
  BY <1>1
<1>4. q = n \div d
  BY <1>2, <1>3
<1>5. q \in Int /\ d * q <= n /\ n < d * q + d
  BY <1>4, Quotient
<1>6. q \in Int /\ (2 * B) * q <= 2400 * c + B /\ 2400 * c + B < (2 * B) * q + 2 * B
  BY <1>2, <1>3, <1>5
<1>7. c = B => q = 1200
  BY <1>6
<1>8. c = 0 => q = 0
  BY <1>6
<1>9. 2 * (B * q - 1200 * c) <= B /\ -B <= 2 * (B * q - 1200 * c)
  BY <1>6
<1>10. 2 * (B * q - 1200 * c) \in Int /\ -B \in Int
  BY <1>6
<1> QED BY <1>7, <1>8, <1>9, <1>10

\* The points of a time: all up to B, none from 2B, and the nearest tenth between.
LEMMA TimeScore ==
  ASSUME NEW t \in Nat
  PROVE  /\ t <= Baseline => time_score(t) = TIME_PTS
         /\ t >= 2 * Baseline => time_score(t) = 0
         /\ t > Baseline /\ t < 2 * Baseline =>
              2 * (Baseline * time_score(t) - TIME_PTS * (2 * Baseline - t))
                \in -Baseline .. Baseline
<1>1. Baseline \in Nat \ {0}
  BY BaselineAssumption
<1>2. PICK c \in Int : c = Clamp(0, 2 * Baseline - t, Baseline)
  BY <1>1 DEF Clamp
<1>3. PICK q : q = time_score(t)
  OBVIOUS
<1>4. q = (2400 * c + Baseline) \div (2 * Baseline)
  <2>1. 2 * TIME_PTS * c = 2400 * c
    BY DEF TIME_PTS
  <2> QED BY <1>2, <1>3, <2>1 DEF time_score
<1>5. /\ t <= Baseline => c = Baseline
      /\ t >= 2 * Baseline => c = 0
      /\ t > Baseline /\ t < 2 * Baseline => c = 2 * Baseline - t
  BY <1>1, <1>2 DEF Clamp
<1>6. /\ c = Baseline => q = 1200
      /\ c = 0 => q = 0
      /\ 2 * (Baseline * q - 1200 * c) \in -Baseline .. Baseline
  BY <1>1, <1>4, NearestTenth
<1>7. TIME_PTS = 1200
  BY DEF TIME_PTS
<1> QED BY <1>3, <1>5, <1>6, <1>7

\* An accepted build that was timed gets the points of the time that it took, and
\* the pre-build does not count, whatever B is and however long either takes.
THEOREM BuildStormMeasuredTime == Spec => []MeasuredTimeCounts
<1>1. Init => GradedInv /\ TimedInv
  BY DEF Init, GradedInv, TimedInv
<1>2. TypeOK /\ GradedInv /\ TimedInv => MeasuredTimeCounts
  <2> SUFFICES ASSUME TypeOK, GradedInv, TimedInv, pc = "done", measured,
                      CompileOk(log) /\ log[parse_compile(log)].arch
               PROVE  /\ took <= Baseline => TimePoints(log) = TIME_PTS
                      /\ took >= 2 * Baseline => TimePoints(log) = 0
                      /\ took > Baseline /\ took < 2 * Baseline =>
                           2 * (Baseline * TimePoints(log) - TIME_PTS * (2 * Baseline - took))
                             \in -Baseline .. Baseline
    BY Zenon DEF MeasuredTimeCounts
  <2>1. log[parse_compile(log)].elapsed = took
    BY GradedLast DEF TimedInv
  <2>2. TimePoints(log) = time_score(took)
    BY <2>1, Zenon DEF TimePoints
  <2>3. took \in Nat
    BY DEF TypeOK
  <2> QED BY <2>2, <2>3, TimeScore, Zenon
<1> QED BY <1>1, <1>2, GradedNext, TimedNext, BuildStormTyping, PTL DEF Spec
=============================================================================
