------------------------------ MODULE TestGroup ------------------------------
(***************************************************************************)
(* What a *_testcode.sh script promises to the judge reading its output:   *)
(* one "testcase" line per test, and the END line of the group after all   *)
(* of them.  Nothing is promised about the order of the lines.             *)
(***************************************************************************)
CONSTANT Tests

VARIABLES
  line,    \* what has been printed for each test
  ended    \* the END line has been printed

vars == <<line, ended>>

Init ==
  /\ line = [t \in Tests |-> "none"]
  /\ ended = FALSE

Report(t) ==
  /\ ~ ended
  /\ line[t] = "none"
  /\ \E verdict \in {"pass", "reject"} : line' = [line EXCEPT ![t] = verdict]
  /\ UNCHANGED ended

End ==
  /\ ~ ended
  /\ \A t \in Tests : line[t] # "none"
  /\ ended' = TRUE
  /\ UNCHANGED line

Next == End \/ \E t \in Tests : Report(t)

Spec == Init /\ [][Next]_vars /\ WF_vars(Next)
=============================================================================
