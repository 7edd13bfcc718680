------------------------------ MODULE CAgentTest ------------------------------
(***************************************************************************)
(* The cagent test group: scripts/cagent_testcode.sh starts the server,    *)
(* runs every test as a background job of its own (timeout, agent_lite,    *)
(* validation), waits for the jobs, removes the test files and kills the   *)
(* server.  The agents of AgentLite and the server of SimpleLLMServer run  *)
(* against each other over Loopback: http_post is here the connect, send   *)
(* and recv calls it is made of, and a bash tool is the shell popen starts.*)
(***************************************************************************)
EXTENDS AgentLite, SimpleLLMServer

CONSTANTS
  Checks,       \* per test, what its validation looks at: "file" (the file
                \* left behind), "strict" (the command's own output) or
                \* "loose" (a pattern the agent's banner already matches)
  Writers,      \* tests whose command creates files in the workspace
  KillsGroup    \* timeout kills the agent's whole process group

\* A prompt is no command's output, agent_lite's 50 steps are more than one,
\* its replies include this server's, and the server has a command for a test
\* that looks at what a command did.
ASSUME TestAssumption ==
  /\ Clients = Agents
  /\ "output" \notin Agents
  /\ MAX_STEPS >= 2
  /\ [kind : Unusable, calls : {<<>>}] \subseteq Replies
  /\ [kind : {"message"}, calls : {<<>>, <<BashCall>>}] \subseteq Replies
  /\ Checks \in [Agents -> {"file", "strict", "loose"}]
  /\ {t \in Agents : Checks[t] # "loose"} \subseteq Matched
  /\ {t \in Agents : Checks[t] = "file"} \subseteq Writers
  /\ Writers \subseteq Agents
  /\ KillsGroup \in BOOLEAN

VARIABLES
  script,      \* "wait", "clean", "kill", "end"
  result,      \* what run_test printed for each test
  shell,       \* the child of popen: "none", "running", "writing", "ended", "failed"
  file,        \* the test's files: "absent", "partial", "good"
  ran,         \* history: commands of the test run to completion
  leftover,    \* history: tests whose files an earlier group left behind
  mishap       \* history: tests the system under test did not serve

testVars == <<script, result, shell, file, ran, leftover, mishap>>
vars == <<agentVars, netVars, serverVars, testVars>>

Absent == [t \in Agents |-> "absent"]

Init ==
  /\ AgentInit
  /\ ServerInit
  /\ script = "wait"
  /\ result = [t \in Agents |-> "none"]
  /\ shell = [t \in Agents |-> "none"]
  /\ leftover \in SUBSET Writers
  /\ file = [t \in Agents |-> IF t \in leftover THEN "good" ELSE "absent"]
  /\ ran = [t \in Agents |-> 0]
  /\ mishap = {}

Blame(t) == mishap' = mishap \cup {t}

-----------------------------------------------------------------------------
(* http_post *)

Connect(t) ==
  /\ pc[t] = "post"
  /\ NetConnect(t)
  /\ UNCHANGED <<agentVars, serverVars, testVars>>

\* Nobody listens: http_post returns NULL, and there is no retry.
ConnectRefused(t) ==
  /\ pc[t] = "post"
  /\ ~ listening
  /\ conn[t].client = "none"
  /\ HandleReply(t, [kind |-> "null", calls |-> <<>>])
  /\ Blame(t)
  /\ UNCHANGED <<netVars, serverVars, script, result, shell, file, ran, leftover>>

Send(t) ==
  /\ pc[t] = "post"
  /\ NetSend(t)
  /\ UNCHANGED <<agentVars, serverVars, testVars>>

\* What agent_run makes of n writes of the response: no blank line, an empty
\* body, the plain text of a 404, an error object, a chat completion.
ReplyRead(t, n) ==
  [ kind  |-> CASE n = 0 -> "null"
                [] n = 1 \/ conn[t].status = "notfound" -> "garbage"
                [] n = 2 /\ conn[t].status \in {"nobody", "badjson"} -> "nochoices"
                [] n = 2 /\ conn[t].status = "chat" -> "message",
    calls |-> IF n = 2 /\ conn[t].status = "chat" THEN ReplyTo(messages[t]) ELSE <<>> ]

\* recv() up to the end of the stream, close, and the rest of agent_run's turn.
Receive(t) ==
  /\ pc[t] = "post"
  /\ conn[t].client = "open"
  /\ conn[t].sent
  /\ conn[t].server = "closed"
  /\ \E n \in Collected(t) : HandleReply(t, ReplyRead(t, n))
  /\ conn' = [conn EXCEPT ![t] = NoConnection]
  /\ UNCHANGED <<listening, backlog, serverVars, testVars>>

-----------------------------------------------------------------------------
(* tool_bash *)

StartShell(t) ==
  /\ pc[t] = "tools"
  /\ i[t] <= Len(calls[t])
  /\ calls[t][i[t]].tool = "bash"
  /\ shell[t] = "none"
  /\ shell' = [shell EXCEPT ![t] = "running"]
  /\ UNCHANGED <<agentVars, netVars, serverVars, script, result, file, ran, leftover, mishap>>

\* The command's redirection or mkdir: the files are there, not yet complete.
ShellWrites(t) ==
  /\ shell[t] = "running"
  /\ t \in Writers
  /\ shell' = [shell EXCEPT ![t] = "writing"]
  /\ file' = [file EXCEPT ![t] = "partial"]
  /\ UNCHANGED <<agentVars, netVars, serverVars, script, result, ran, leftover, mishap>>

ShellEnds(t) ==
  /\ shell[t] = IF t \in Writers THEN "writing" ELSE "running"
  /\ shell' = [shell EXCEPT ![t] = "ended"]
  /\ file' = IF t \in Writers THEN [file EXCEPT ![t] = "good"] ELSE file
  /\ ran' = [ran EXCEPT ![t] = @ + 1]
  /\ UNCHANGED <<agentVars, netVars, serverVars, script, result, leftover, mishap>>

\* The system under test cannot run the command to its end.
ShellFails(t) ==
  /\ shell[t] \in {"running", "writing"}
  /\ shell' = [shell EXCEPT ![t] = "failed"]
  /\ Blame(t)
  /\ UNCHANGED <<agentVars, netVars, serverVars, script, result, file, ran, leftover>>

\* pclose() returns and the output becomes a tool message.
FinishTool(t) ==
  /\ shell[t] \in {"ended", "failed"}
  /\ ExecuteTool(t, IF shell[t] = "ended" THEN "output" ELSE "error")
  /\ shell' = [shell EXCEPT ![t] = "none"]
  /\ UNCHANGED <<netVars, serverVars, script, result, file, ran, leftover, mishap>>

-----------------------------------------------------------------------------
(* run_test *)

\* timeout sends its signal; without KillsGroup the popen'd shell lives on.
Timeout(t) ==
  /\ Killed(t)
  /\ conn' = Abandoned(t)
  /\ shell' = IF KillsGroup THEN [shell EXCEPT ![t] = "none"] ELSE shell
  /\ Blame(t)
  /\ UNCHANGED <<listening, backlog, serverVars, script, result, file, ran, leftover>>

Valid(t) ==
  CASE Checks[t] = "file"   -> file[t] = "good"
    [] Checks[t] = "strict" -> \E n \in 1 .. Len(messages[t]) : messages[t][n].text = "output"
    [] Checks[t] = "loose"  -> TRUE

\* Mutation: the exit code of timeout is not looked at.
ValidateOutputOnly(t) ==
  /\ pc[t] = "exited"
  /\ result[t] = "none"
  /\ result' = [result EXCEPT ![t] = IF Valid(t) THEN "pass" ELSE "reject"]
  /\ UNCHANGED <<agentVars, netVars, serverVars, script, shell, file, ran, leftover, mishap>>

\* The agent has ended: the validation runs and the testcase line is printed.
Validate(t) ==
  /\ pc[t] = "exited"
  /\ result[t] = "none"
  /\ result' = [result EXCEPT ![t] = IF code[t] = "ok" /\ Valid(t) THEN "pass" ELSE "reject"]
  /\ UNCHANGED <<agentVars, netVars, serverVars, script, shell, file, ran, leftover, mishap>>

-----------------------------------------------------------------------------
(* The script's main line, after it has started the jobs. *)

\* Mutation: wait -n, which returns as soon as one job has ended.
WaitForOne ==
  /\ script = "wait"
  /\ \E t \in Agents : result[t] # "none"
  /\ script' = "clean"
  /\ UNCHANGED <<agentVars, netVars, serverVars, result, shell, file, ran, leftover, mishap>>

\* wait "${TEST_PIDS[@]}"
Wait ==
  /\ script = "wait"
  /\ \A t \in Agents : result[t] # "none"
  /\ script' = "clean"
  /\ UNCHANGED <<agentVars, netVars, serverVars, result, shell, file, ran, leftover, mishap>>

Cleanup ==
  /\ script = "clean"
  /\ file' = Absent
  /\ script' = "kill"
  /\ UNCHANGED <<agentVars, netVars, serverVars, result, shell, ran, leftover, mishap>>

KillServer ==
  /\ script = "kill"
  /\ Signal
  /\ script' = "end"
  /\ UNCHANGED <<agentVars, result, shell, file, ran, leftover, mishap>>

-----------------------------------------------------------------------------
\* A request read before all of it has arrived is the network's doing too.
Serve ==
  /\ ServerStep
  /\ mishap' = IF \/ srv = "read" /\ conn[cur].arrived < Whole
                  \/ srv \in {"accept", "blocked"} /\ srv' = "check"
               THEN mishap \cup {IF srv = "read" THEN cur ELSE Head(backlog)}
               ELSE mishap
  /\ UNCHANGED <<agentVars, script, result, shell, file, ran, leftover>>

Deliver(t) == Arrive(t) /\ UNCHANGED <<agentVars, serverVars, testVars>>

\* What agent_lite does between its calls to the system.
Compute(t) ==
  /\ BuildRequest(t) \/ ReachMaxSteps(t) \/ SkipCall(t) \/ EndOfCalls(t)
  /\ UNCHANGED <<netVars, serverVars, testVars>>

Work(t) ==
  \/ Compute(t) \/ Connect(t) \/ ConnectRefused(t) \/ Send(t) \/ Receive(t)
  \/ StartShell(t) \/ FinishTool(t) \/ Validate(t)

Shell(t) == ShellWrites(t) \/ ShellEnds(t) \/ ShellFails(t)

Script == Wait \/ Cleanup \/ KillServer

Next ==
  \/ \E t \in Agents : Work(t) \/ Shell(t) \/ Timeout(t) \/ Deliver(t)
  \/ Serve
  \/ Script

Spec == Init /\ [][Next]_vars

\* Every process is scheduled, the network delivers, and every timer runs out.
Fairness ==
  /\ WF_vars(Serve)
  /\ WF_vars(Script)
  /\ \A t \in Agents :
       WF_vars(Work(t)) /\ WF_vars(Shell(t)) /\ WF_vars(Timeout(t)) /\ WF_vars(Deliver(t))

FairSpec == Spec /\ Fairness

-----------------------------------------------------------------------------
\* Every variable of the composition keeps its type.
TestTypeOK ==
  /\ TypeOK
  /\ ServerTypeOK
  /\ script \in {"wait", "clean", "kill", "end"}
  /\ result \in [Agents -> {"none", "pass", "reject"}]
  /\ shell \in [Agents -> {"none", "running", "writing", "ended", "failed"}]
  /\ file \in [Agents -> {"absent", "partial", "good"}]
  /\ ran \in [Agents -> 0 .. MAX_STEPS]
  /\ leftover \in SUBSET Writers
  /\ mishap \in SUBSET Agents

\* The server's place, its current client, the backlog and the connections
\* tell one story: it holds the connection of cur and no other, and the
\* backlog is the queued connections, each once (main's accept loop,
\* handle_client's close on every path, an end of the process at any point).
OneClientAtATime ==
  /\ \A t \in Agents :
       /\ conn[t].server = "accepted" <=> cur = t /\ srv \in Serving
       /\ conn[t].server = "queued" <=> \E n \in 1 .. Len(backlog) : backlog[n] = t
  /\ \A m, n \in 1 .. Len(backlog) : backlog[m] = backlog[n] => m = n

\* However the agent's turns, the timeouts and the server's decisions fall, the
\* command of a test is completed at most once, and the conversation never
\* grows past prompt, call, output and closing text (is_tool_result against
\* agent_run's order of appending).
CommandAtMostOnce ==
  \A t \in Agents : ran[t] <= 1 /\ Len(messages[t]) <= 5

\* A test that is reported as passed went through the whole exchange with the
\* server, and unless its pattern is loose its command completed in this group,
\* or the file it looks at was left behind by an earlier one (run_test's
\* validation of exit code, output and files).
PassIsEarned ==
  \A t \in Agents : result[t] = "pass" =>
    /\ messages[t][Len(messages[t])] = AssistantMessage(<<>>)
    /\ t \in Matched => Len(messages[t]) = 5 /\ messages[t][4].role = "tool"
    /\ Checks[t] = "strict" => ran[t] = 1
    /\ Checks[t] = "file" => ran[t] = 1 \/ t \in leftover

\* Tests fail alone: a test is rejected because the system did not serve this
\* test, or because the server was brought down when another test's agent was
\* killed (run_test's independence, handle_client's error paths).
RejectHasCause ==
  \A t \in Agents : result[t] = "reject" =>
    \/ t \in mishap
    \/ srv = "broken" /\ \E u \in Agents \ {t} : code[u] = "killed"

\* The script leaves no test file behind, except through a shell that outlived
\* the agent timeout killed (the script's cleanup after wait, tool_bash's popen).
CleanUnlessOrphaned ==
  script = "end" =>
    \A t \in Agents : file[t] # "absent" =>
      code[t] = "killed" /\ ~ KillsGroup /\ t \in Writers

\* A connection that waits in the backlog does not wait for ever, whatever the
\* clients before it do: it is accepted, or reset when the server goes
\* (main's loop serving one client at a time, with blocking reads).
QueuedIsServed ==
  \A t \in Agents : conn[t].server = "queued" ~> conn[t].server # "queued"

Group == INSTANCE TestGroup WITH Tests <- Agents, line <- result, ended <- script = "end"

\* The script keeps the promise of a test group: every test is reported exactly
\* once, the END line follows all of them, and it does come (wait on the jobs
\* only, timeout around every agent).
GroupPromise == Group!Spec

\* "Wait only for test jobs (NOT the server, which is long-running)": while
\* tests run, the server that came up stays up.
ServerLongRunning == script = "wait" => srv # "broken"

\* "Cleanup server": once the script has signalled it, the server ends.
ServerStops == script = "end" ~> srv \in Gone
=============================================================================
