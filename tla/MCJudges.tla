------------------------------- MODULE MCJudges -------------------------------
(* The two judged groups, side by side: a behaviour is a log of either the *)
(* one or the other.                                                       *)
EXTENDS BuildStorm, CAgentRuns

VARIABLE judge

JudgesInit ==
  /\ judge \in {"buildstorm", "cagent"}
  /\ Init /\ RunsInit
  /\ judge = "cagent" => other = "none"

BuildStormTurn == judge = "buildstorm" /\ Next /\ UNCHANGED <<judge, runsVars>>
CAgentTurn == judge = "cagent" /\ RunsNext /\ UNCHANGED <<judge, vars>>

JudgesNext == BuildStormTurn \/ CAgentTurn

JudgesSpec == JudgesInit /\ [][JudgesNext]_<<judge, vars, runsVars>>
=============================================================================
