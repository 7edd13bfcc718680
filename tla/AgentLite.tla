------------------------------ MODULE AgentLite ------------------------------
(***************************************************************************)
(* The agent loop of cagent-test/agent_lite.c: agent_run builds a request  *)
(* from the whole conversation, posts it, appends the assistant's message, *)
(* executes the message's tool calls one after the other and appends one   *)
(* tool message per executed call, until a message without tool calls, an  *)
(* unusable reply, MAX_STEPS, or a signal ends the process.                *)
(*                                                                         *)
(* http_post is atomic here and answers with any member of Replies;        *)
(* CAgentTest replaces it by the socket calls it is made of.  The text of  *)
(* a message is kept only as far as the server and the test script tell    *)
(* texts apart.                                                            *)
(***************************************************************************)
EXTENDS Integers, Sequences, FiniteSets

CONSTANTS
  Agents,      \* the agent processes, each started with a prompt of its own
  Ids,         \* ids the server gives to tool calls
  MAX_STEPS,   \* bound on the requests of one conversation
  Replies      \* what http_post may hand to agent_run

VARIABLES
  pc,          \* where agent_run stands: "loop", "post", "tools", "exited"
  step,        \* the counter of the while loop
  messages,    \* the conversation, a sequence of messages
  calls,       \* tool_calls of the message being worked on
  i,           \* index of the for loop over tool_calls
  code         \* exit status of the process, "none" while it runs

agentVars == <<pc, step, messages, calls, i, code>>

Tools == {"read_file", "write_file", "list_files", "bash"}

\* A call whose "function" or "name" is missing is skipped by agent_run; one
\* without an id is answered without.
Nameless == "nameless"
Calls ==
  [id : Ids \cup {"none"}, tool : Tools \cup {"unknown", Nameless}, args : {"good", "bad"}]
Named(call) == call.tool # Nameless

\* Replies agent_run gives up on: http_post returned NULL, the body is not
\* JSON, there is no choice in it.
Unusable == {"null", "garbage", "nochoices"}
ReplyKinds == Unusable \cup {"nomessage", "message"}

ASSUME AgentAssumption ==
  /\ MAX_STEPS \in Nat \ {0}
  /\ \A r \in Replies : r.kind \in ReplyKinds /\ r.calls \in Seq(Calls)

\* Exit status 0, exit status -1 (255 to the shell), ended by a signal.
ExitStatus == {"ok", "failed", "killed"}

Message(role, id, text, cs) == [role |-> role, id |-> id, text |-> text, calls |-> cs]
SystemMessage == Message("system", "none", "none", <<>>)
UserMessage(a) == Message("user", "none", a, <<>>)
AssistantMessage(cs) == Message("assistant", "none", "none", cs)
ToolMessage(id, text) == Message("tool", id, text, <<>>)

\* execute_tool: which texts a call can come back with.  list_files takes a
\* missing or malformed path as the workspace itself; every other tool needs
\* its arguments.  Success or failure of the tool is not reported otherwise.
ToolTexts(call) ==
  IF \/ call.tool = "list_files"
     \/ call.tool \in Tools /\ call.args = "good"
  THEN {"output", "error"}
  ELSE {"error"}

-----------------------------------------------------------------------------
AgentInit ==
  /\ pc = [a \in Agents |-> "loop"]
  /\ step = [a \in Agents |-> 0]
  /\ messages = [a \in Agents |-> <<SystemMessage, UserMessage(a)>>]
  /\ calls = [a \in Agents |-> <<>>]
  /\ i = [a \in Agents |-> 1]
  /\ code = [a \in Agents |-> "none"]

Exit(a, status) ==
  /\ pc' = [pc EXCEPT ![a] = "exited"]
  /\ code' = [code EXCEPT ![a] = status]

\* Mutation: <= for < in the loop's condition.
BuildRequestOnceMore(a) ==
  /\ pc[a] = "loop"
  /\ step[a] <= MAX_STEPS
  /\ step' = [step EXCEPT ![a] = @ + 1]
  /\ pc' = [pc EXCEPT ![a] = "post"]
  /\ UNCHANGED <<messages, calls, i, code>>

\* The head of the while loop: count the step and build the request.
BuildRequest(a) ==
  /\ pc[a] = "loop"
  /\ step[a] < MAX_STEPS
  /\ step' = [step EXCEPT ![a] = @ + 1]
  /\ pc' = [pc EXCEPT ![a] = "post"]
  /\ UNCHANGED <<messages, calls, i, code>>

\* The loop runs out of steps; agent_run warns and still returns 0.
ReachMaxSteps(a) ==
  /\ pc[a] = "loop"
  /\ step[a] >= MAX_STEPS
  /\ Exit(a, "ok")
  /\ UNCHANGED <<step, messages, calls, i>>

GiveUp(a, r) ==
  /\ pc[a] = "post"
  /\ r.kind \in Unusable
  /\ Exit(a, "failed")
  /\ UNCHANGED <<step, messages, calls, i>>

\* No tool calls: the message is appended and is the final answer.
FinalAnswer(a, r) ==
  /\ pc[a] = "post"
  /\ r.kind = "message"
  /\ r.calls = <<>>
  /\ messages' = [messages EXCEPT ![a] = Append(@, AssistantMessage(<<>>))]
  /\ calls' = [calls EXCEPT ![a] = <<>>]
  /\ i' = [i EXCEPT ![a] = 1]
  /\ Exit(a, "ok")
  /\ UNCHANGED step

\* Mutation: a choice without a message is asked for again.
EmptyAnswerContinues(a, r) ==
  /\ pc[a] = "post"
  /\ r.kind = "nomessage"
  /\ pc' = [pc EXCEPT ![a] = "loop"]
  /\ UNCHANGED <<step, messages, calls, i, code>>

\* A choice without a message appends nothing and ends the loop as a success.
EmptyAnswer(a, r) ==
  /\ pc[a] = "post"
  /\ r.kind = "nomessage"
  /\ Exit(a, "ok")
  /\ UNCHANGED <<step, messages, calls, i>>

CallTools(a, r) ==
  /\ pc[a] = "post"
  /\ r.kind = "message"
  /\ r.calls # <<>>
  /\ messages' = [messages EXCEPT ![a] = Append(@, AssistantMessage(r.calls))]
  /\ calls' = [calls EXCEPT ![a] = r.calls]
  /\ i' = [i EXCEPT ![a] = 1]
  /\ pc' = [pc EXCEPT ![a] = "tools"]
  /\ UNCHANGED <<step, code>>

HandleReply(a, r) == 
  GiveUp(a, r) \/ FinalAnswer(a, r) \/ EmptyAnswer(a, r) \/ CallTools(a, r)

\* Mutation: continue in a while loop that counts at its end.
SkipCallForever(a) ==
  /\ pc[a] = "tools"
  /\ i[a] <= Len(calls[a])
  /\ ~ Named(calls[a][i[a]])
  /\ UNCHANGED agentVars

\* continue: a call without a function or a name gets no answer.
SkipCall(a) ==
  /\ pc[a] = "tools"
  /\ i[a] <= Len(calls[a])
  /\ ~ Named(calls[a][i[a]])
  /\ i' = [i EXCEPT ![a] = @ + 1]
  /\ UNCHANGED <<pc, step, messages, calls, code>>

\* Mutation: the id is taken from the first tool call.
ExecuteToolFirstId(a, text) ==
  /\ pc[a] = "tools"
  /\ i[a] <= Len(calls[a])
  /\ Named(calls[a][i[a]])
  /\ text \in ToolTexts(calls[a][i[a]])
  /\ messages' = [messages EXCEPT ![a] = Append(@, ToolMessage(calls[a][1].id, text))]
  /\ i' = [i EXCEPT ![a] = @ + 1]
  /\ UNCHANGED <<pc, step, calls, code>>

ExecuteTool(a, text) ==
  /\ pc[a] = "tools"
  /\ i[a] <= Len(calls[a])
  /\ Named(calls[a][i[a]])
  /\ text \in ToolTexts(calls[a][i[a]])
  /\ messages' = [messages EXCEPT ![a] = Append(@, ToolMessage(calls[a][i[a]].id, text))]
  /\ i' = [i EXCEPT ![a] = @ + 1]
  /\ UNCHANGED <<pc, step, calls, code>>

\* Mutation: the for loop stops one call early.
EndOfCallsEarly(a) ==
  /\ pc[a] = "tools"
  /\ i[a] >= Len(calls[a])
  /\ pc' = [pc EXCEPT ![a] = "loop"]
  /\ UNCHANGED <<step, messages, calls, i, code>>

EndOfCalls(a) ==
  /\ pc[a] = "tools"
  /\ i[a] > Len(calls[a])
  /\ pc' = [pc EXCEPT ![a] = "loop"]
  /\ UNCHANGED <<step, messages, calls, i, code>>

\* A signal ends the process wherever it stands: it installs no handler.
Killed(a) ==
  /\ pc[a] # "exited"
  /\ Exit(a, "killed")
  /\ UNCHANGED <<step, messages, calls, i>>

AgentStep(a) ==
  \/ BuildRequest(a)
  \/ ReachMaxSteps(a)
  \/ \E r \in Replies : HandleReply(a, r)
  \/ SkipCall(a)
  \/ \E text \in {"output", "error"} : ExecuteTool(a, text)
  \/ EndOfCalls(a)

AgentNext == \E a \in Agents : AgentStep(a) \/ Killed(a)

AgentSpec == AgentInit /\ [][AgentNext]_agentVars

\* http_post returns (the server answers or the connection ends) and the
\* process is scheduled; nothing makes a signal arrive.
FairAgentSpec == AgentSpec /\ \A a \in Agents : WF_agentVars(AgentStep(a))

-----------------------------------------------------------------------------
MessageSet ==
  [role : {"system", "user", "assistant", "tool"}, id : Ids \cup {"none"},
   text : Agents \cup {"none", "output", "error"}, calls : Seq(Calls)]

\* Every variable of the agent loop keeps its type.
TypeOK ==
  /\ pc \in [Agents -> {"loop", "post", "tools", "exited"}]
  /\ step \in [Agents -> 0 .. MAX_STEPS]
  /\ messages \in [Agents -> Seq(MessageSet)]
  /\ calls \in [Agents -> Seq(Calls)]
  /\ i \in [Agents -> Nat \ {0}]
  /\ code \in [Agents -> ExitStatus \cup {"none"}]

\* How many of the first n calls are answered: all but the nameless ones.
Answers(cs, n) == Cardinality({m \in 1 .. n : Named(cs[m])})

\* The turns of a conversation: the places of its assistant messages.
Turns(msgs) == {b \in 1 .. Len(msgs) : msgs[b].role = "assistant"}

\* The last turn is worked on up to i; the turns before it are finished.
Done(a, b) ==
  IF \E c \in Turns(messages[a]) : c > b THEN Len(messages[a][b].calls) ELSE i[a] - 1

\* Between two assistant messages the conversation holds exactly the answers
\* to the named calls of the first, in the order of its tool_calls array, each
\* under its call's id (agent_run's for loop, with its two continue branches).
AnsweredInOrder ==
  \A a \in Agents : \A b \in Turns(messages[a]) :
    LET cs == messages[a][b].calls
        d == Done(a, b)
        after == b + Answers(cs, d) + 1
    IN  /\ \A n \in 1 .. d : Named(cs[n]) =>
             LET k == b + Answers(cs, n)
             IN  /\ k \in 1 .. Len(messages[a])
                 /\ messages[a][k].role = "tool"
                 /\ messages[a][k].id = cs[n].id
        /\ after = Len(messages[a]) + 1 \/ after \in Turns(messages[a])

\* A request, and an exit status of agent_run's own, find every turn of the
\* conversation worked through: no named call is left without an answer in
\* what the server is sent or in a conversation that is reported as a success.
NothingLeftOpen ==
  \A a \in Agents :
    pc[a] \in {"loop", "post"} \/ code[a] \in {"ok", "failed"} => i[a] = Len(calls[a]) + 1

\* The step counter counts the assistant messages: the loop cannot go round
\* without appending one, so MAX_STEPS bounds the conversation.
StepsCountTurns ==
  \A a \in Agents :
    LET turns == Cardinality(Turns(messages[a]))
    IN  /\ turns \in {step[a] - 1, step[a]}
        /\ pc[a] \in {"loop", "tools"} => turns = step[a]
        /\ pc[a] = "post" => turns = step[a] - 1

\* If every post returns, every agent process ends.
EventuallyExits == \A a \in Agents : <>(pc[a] = "exited")
=============================================================================
