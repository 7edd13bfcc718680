------------------------------ MODULE CAgentRuns ------------------------------
(***************************************************************************)
(* judge/judge_cagent-glibc.py, and the serial log it reads: the testcase  *)
(* lines of one or more runs of scripts/cagent_testcode.sh on a kernel     *)
(* that may crash in any of them.                                          *)
(*                                                                         *)
(* What makes a test pass is CAgentTest's matter, here it is a choice.  A  *)
(* duration is the difference of two readings of the wall clock, which the *)
(* kernel may set in between, or which may fail and count as 0.            *)
(***************************************************************************)
EXTENDS Integers, Sequences, FiniteSetsExt

CONSTANTS
  Tests,       \* names in the judge's table
  TimeLimit,   \* the timeout of a test, the same in script and judge
  Times,       \* how long a test may take
  Runs         \* bound: the number of runs

ASSUME RunsAssumption ==
  TimeLimit \in Nat /\ Times \subseteq Nat /\ Runs \in Nat \ {0}

\* A number that does not match \d+: negative, or cut off before its first digit.
NoNumber == -1

VARIABLES
  text,         \* records: run, name, status, elapsed_ms
  group,        \* the number of the run
  job,          \* per test: still running, or done with a verdict after a time
  over,         \* the END line is printed
  passed_once,  \* history: tests that have passed in some run
  misread       \* history: runs in which a duration is not the time that passed

runsVars == <<text, group, job, over, passed_once, misread>>

Running == [verdict |-> "none", took |-> 0]

-----------------------------------------------------------------------------
Matches(name) == {n \in 1 .. Len(text) : text[n].name = name /\ text[n].elapsed_ms # NoNumber}

\* Mutation: the first record of a test is kept.
parse_records_first(name) == IF Matches(name) = {} THEN 0 ELSE Min(Matches(name))

\* records[name] of finditer: the place of the last record, 0 for none.
parse_records(name) == IF Matches(name) = {} THEN 0 ELSE Max(Matches(name))

test_passed(name) == parse_records(name) > 0 /\ text[parse_records(name)].status = "pass"

bonus(name) ==
  /\ test_passed(name)
  /\ LET elapsed_ms == text[parse_records(name)].elapsed_ms
     IN  0 < elapsed_ms /\ 2 * elapsed_ms < TimeLimit

-----------------------------------------------------------------------------
RunsInit ==
  /\ text = <<>> /\ group = 1
  /\ job = [t \in Tests |-> Running]
  /\ over = FALSE /\ passed_once = {} /\ misread = {}

Record(t, verdict, ms) == [run |-> group, name |-> t, status |-> verdict, elapsed_ms |-> ms]

\* run_test prints its line; the jobs end in any order.
EndTest(t) ==
  /\ job[t] = Running
  /\ \E verdict \in {"pass", "reject"}, d \in Times, duration \in Times \cup {NoNumber} :
       /\ text' = Append(text, Record(t, verdict, duration))
       /\ job' = [job EXCEPT ![t] = [verdict |-> verdict, took |-> d]]
       /\ passed_once' = IF verdict = "pass" THEN passed_once \cup {t} ELSE passed_once
       /\ misread' = IF duration = d THEN misread ELSE misread \cup {group}
  /\ UNCHANGED <<group, over>>

\* wait, and the END line.
EndGroup ==
  /\ ~ over
  /\ \A t \in Tests : job[t] # Running
  /\ over' = TRUE
  /\ UNCHANGED <<text, group, job, passed_once, misread>>

\* The kernel crashes, or is shut down, and the group is run once more; the
\* crash may cut off digits of the line that is being printed.
RunAgain ==
  /\ group < Runs
  /\ group' = group + 1
  /\ job' = [t \in Tests |-> Running]
  /\ over' = FALSE
  /\ \/ UNCHANGED <<text, passed_once>>
     \/ \E t \in Tests, verdict \in {"pass", "reject"}, d \in Times :
          /\ job[t] = Running
          /\ text' = Append(text, Record(t, verdict, IF d < 10 THEN NoNumber ELSE d \div 10))
          /\ passed_once' = IF verdict = "pass" THEN passed_once \cup {t} ELSE passed_once
  /\ UNCHANGED misread

RunsNext == EndGroup \/ RunAgain \/ \E t \in Tests : EndTest(t)

RunsSpec == RunsInit /\ [][RunsNext]_runsVars

-----------------------------------------------------------------------------
\* parse_records: what a run that came to its END printed is what is graded,
\* whatever earlier runs left in the log, whole or cut in two; the bonus is for
\* less than half of the time limit.  No test gets points it never passed for.
GroupIsGraded ==
  /\ over /\ group \notin misread =>
       \A t \in Tests :
         /\ test_passed(t) <=> job[t].verdict = "pass"
         /\ bonus(t) <=> job[t].verdict = "pass" /\ 0 < job[t].took /\ 2 * job[t].took < TimeLimit
  /\ \A t \in Tests : test_passed(t) => t \in passed_once
=============================================================================
