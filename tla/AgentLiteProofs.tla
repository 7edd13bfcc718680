--------------------------- MODULE AgentLiteProofs ---------------------------
(***************************************************************************)
(* Proofs about AgentLite, for every set of agents, every MAX_STEPS and    *)
(* every set of replies that satisfies AgentAssumption.                    *)
(***************************************************************************)
EXTENDS AgentLite, TLAPS, FiniteSetTheorems

\* A list of tool calls is sound whatever reply it comes from.
LEMMA ReplyType ==
  ASSUME NEW r \in Replies
  PROVE  r.kind \in ReplyKinds /\ r.calls \in Seq(Calls)
BY AgentAssumption

\* The texts execute_tool returns are texts of messages.
LEMMA ToolTextType ==
  ASSUME NEW call, NEW text \in ToolTexts(call)
  PROVE  text \in {"output", "error"}
BY DEF ToolTexts

\* The kinds of message agent_run appends are messages.
LEMMA MessageType ==
  /\ SystemMessage \in MessageSet
  /\ \A a \in Agents : UserMessage(a) \in MessageSet
  /\ \A cs \in Seq(Calls) : AssistantMessage(cs) \in MessageSet
  /\ \A id \in Ids \cup {"none"}, text \in {"output", "error"} :
       ToolMessage(id, text) \in MessageSet
BY DEF SystemMessage, UserMessage, AssistantMessage, ToolMessage, Message, MessageSet

\* Every variable of agent_run's loop keeps its type.
THEOREM AgentTyping == AgentSpec => []TypeOK
<1>1. AgentInit => TypeOK
  <2> SUFFICES ASSUME AgentInit PROVE TypeOK
    OBVIOUS
  <2>1. ASSUME NEW a \in Agents PROVE <<SystemMessage, UserMessage(a)>> \in Seq(MessageSet)
    <3>1. <<>> \in Seq(Calls)
      OBVIOUS
    <3>2. SystemMessage \in MessageSet /\ UserMessage(a) \in MessageSet
      BY <3>1, MessageType
    <3> QED BY <3>2
  <2>2. step \in [Agents -> 0 .. MAX_STEPS]
    BY AgentAssumption DEF AgentInit
  <2> QED BY <2>1, <2>2 DEF AgentInit, TypeOK
<1>2. TypeOK /\ [AgentNext]_agentVars => TypeOK'
  <2> SUFFICES ASSUME TypeOK, [AgentNext]_agentVars PROVE TypeOK'
    OBVIOUS
  <2> USE DEF TypeOK
  <2>0. CASE UNCHANGED agentVars
    BY <2>0 DEF agentVars
  <2>1. ASSUME NEW a \in Agents, BuildRequest(a) PROVE TypeOK'
    BY <2>1, AgentAssumption DEF BuildRequest
  <2>2. ASSUME NEW a \in Agents, ReachMaxSteps(a) PROVE TypeOK'
    BY <2>2 DEF ReachMaxSteps, Exit, ExitStatus
  <2>3. ASSUME NEW a \in Agents, NEW r \in Replies, GiveUp(a, r) PROVE TypeOK'
    BY <2>3 DEF GiveUp, Exit, ExitStatus
  <2>4. ASSUME NEW a \in Agents, NEW r \in Replies, FinalAnswer(a, r) PROVE TypeOK'
    <3>1. <<>> \in Seq(Calls)
      OBVIOUS
    <3>2. AssistantMessage(<<>>) \in MessageSet
      BY <3>1, MessageType
    <3>3. messages' \in [Agents -> Seq(MessageSet)]
      BY <2>4, <3>2 DEF FinalAnswer
    <3> QED BY <2>4, <3>1, <3>3 DEF FinalAnswer, Exit, ExitStatus
  <2>5. ASSUME NEW a \in Agents, NEW r \in Replies, EmptyAnswer(a, r) PROVE TypeOK'
    BY <2>5 DEF EmptyAnswer, Exit, ExitStatus
  <2>6. ASSUME NEW a \in Agents, NEW r \in Replies, CallTools(a, r) PROVE TypeOK'
    <3>1. r.calls \in Seq(Calls)
      BY ReplyType
    <3>2. AssistantMessage(r.calls) \in MessageSet
      BY <3>1, MessageType
    <3>3. messages' \in [Agents -> Seq(MessageSet)]
      BY <2>6, <3>2 DEF CallTools
    <3> QED BY <2>6, <3>1, <3>3 DEF CallTools
  <2>7. ASSUME NEW a \in Agents, SkipCall(a) PROVE TypeOK'
    BY <2>7 DEF SkipCall
  <2>8. ASSUME NEW a \in Agents, NEW text, ExecuteTool(a, text) PROVE TypeOK'
    <3>1. calls[a][i[a]] \in Calls
      BY <2>8 DEF ExecuteTool
    <3>2. text \in {"output", "error"}
      BY <2>8, ToolTextType DEF ExecuteTool
    <3>3. calls[a][i[a]].id \in Ids \cup {"none"}
      BY <3>1 DEF Calls
    <3>4. ToolMessage(calls[a][i[a]].id, text) \in MessageSet
      BY <3>2, <3>3, MessageType
    <3>5. messages' \in [Agents -> Seq(MessageSet)]
      BY <2>8, <3>4 DEF ExecuteTool
    <3> QED BY <2>8, <3>5 DEF ExecuteTool
  <2>9. ASSUME NEW a \in Agents, EndOfCalls(a) PROVE TypeOK'
    BY <2>9 DEF EndOfCalls
  <2>10. ASSUME NEW a \in Agents, Killed(a) PROVE TypeOK'
    BY <2>10 DEF Killed, Exit, ExitStatus
  <2> QED
    BY <2>0, <2>1, <2>2, <2>3, <2>4, <2>5, <2>6, <2>7, <2>8, <2>9, <2>10
    DEF AgentNext, AgentStep, HandleReply
<1> QED BY <1>1, <1>2, PTL DEF AgentSpec

-----------------------------------------------------------------------------
\* What NothingLeftOpen needs to be inductive: a process that runs has no exit
\* status yet, and the index never runs past the end of the list by more than 1.
LoopInv ==
  /\ TypeOK
  /\ NothingLeftOpen
  /\ \A a \in Agents :
       /\ pc[a] # "exited" => code[a] = "none"
       /\ i[a] <= Len(calls[a]) + 1

\* A request, and an exit that is not a kill, find every call worked through.
THEOREM AgentNothingLeftOpen == AgentSpec => []NothingLeftOpen
<1>1. AgentInit /\ TypeOK => LoopInv
  BY DEF AgentInit, LoopInv, NothingLeftOpen
<1>2. TypeOK' /\ LoopInv /\ [AgentNext]_agentVars => LoopInv'
  <2> SUFFICES ASSUME TypeOK', LoopInv, [AgentNext]_agentVars PROVE LoopInv'
    OBVIOUS
  <2> USE DEF LoopInv, NothingLeftOpen, TypeOK
  <2>0. CASE UNCHANGED agentVars
    BY <2>0 DEF agentVars
  <2>1. ASSUME NEW a \in Agents, BuildRequest(a) PROVE LoopInv'
    BY <2>1 DEF BuildRequest
  <2>2. ASSUME NEW a \in Agents, ReachMaxSteps(a) PROVE LoopInv'
    BY <2>2 DEF ReachMaxSteps, Exit
  <2>3. ASSUME NEW a \in Agents, NEW r \in Replies, GiveUp(a, r) PROVE LoopInv'
    BY <2>3 DEF GiveUp, Exit
  <2>4. ASSUME NEW a \in Agents, NEW r \in Replies, FinalAnswer(a, r) PROVE LoopInv'
    BY <2>4 DEF FinalAnswer, Exit
  <2>5. ASSUME NEW a \in Agents, NEW r \in Replies, EmptyAnswer(a, r) PROVE LoopInv'
    BY <2>5 DEF EmptyAnswer, Exit
  <2>6. ASSUME NEW a \in Agents, NEW r \in Replies, CallTools(a, r) PROVE LoopInv'
    <3>1. Len(r.calls) \in Nat
      BY ReplyType
    <3> QED BY <2>6, <3>1 DEF CallTools
  <2>7. ASSUME NEW a \in Agents, SkipCall(a) PROVE LoopInv'
    BY <2>7 DEF SkipCall
  <2>8. ASSUME NEW a \in Agents, NEW text, ExecuteTool(a, text) PROVE LoopInv'
    BY <2>8 DEF ExecuteTool
  <2>9. ASSUME NEW a \in Agents, EndOfCalls(a) PROVE LoopInv'
    BY <2>9 DEF EndOfCalls
  <2>10. ASSUME NEW a \in Agents, Killed(a) PROVE LoopInv'
    BY <2>10 DEF Killed, Exit
  <2> QED
    BY <2>0, <2>1, <2>2, <2>3, <2>4, <2>5, <2>6, <2>7, <2>8, <2>9, <2>10
    DEF AgentNext, AgentStep, HandleReply
<1>3. LoopInv => NothingLeftOpen
  BY DEF LoopInv
<1> QED BY <1>1, <1>2, <1>3, AgentTyping, PTL DEF AgentSpec

-----------------------------------------------------------------------------
\* Appending a message adds a turn exactly if it is an assistant's.
LEMMA TurnsOfAppend ==
  ASSUME NEW msgs \in Seq(MessageSet), NEW m \in MessageSet
  PROVE  Turns(Append(msgs, m)) =
           IF m.role = "assistant" THEN Turns(msgs) \cup {Len(msgs) + 1} ELSE Turns(msgs)
BY DEF Turns

\* A conversation has a finite number of turns.
LEMMA TurnsFinite ==
  ASSUME NEW msgs \in Seq(MessageSet)
  PROVE  IsFiniteSet(Turns(msgs)) /\ Cardinality(Turns(msgs)) \in Nat
<1>1. IsFiniteSet(1 .. Len(msgs))
  BY FS_Interval
<1>2. Turns(msgs) \subseteq 1 .. Len(msgs)
  BY DEF Turns
<1> QED BY <1>1, <1>2, FS_Subset, FS_CardinalityType

\* The number of turns grows with the assistant's messages and no others.
LEMMA CountOfAppend ==
  ASSUME NEW msgs \in Seq(MessageSet), NEW m \in MessageSet
  PROVE  Cardinality(Turns(Append(msgs, m))) =
           Cardinality(Turns(msgs)) + IF m.role = "assistant" THEN 1 ELSE 0
<1>1. Len(msgs) + 1 \notin Turns(msgs)
  BY DEF Turns
<1>2. CASE m.role = "assistant"
  <2>1. Turns(Append(msgs, m)) = Turns(msgs) \cup {Len(msgs) + 1}
    BY <1>2, TurnsOfAppend
  <2> QED BY <1>1, <1>2, <2>1, TurnsFinite, FS_AddElement
<1>3. CASE m.role # "assistant"
  BY <1>3, TurnsOfAppend, TurnsFinite
<1> QED BY <1>2, <1>3

\* The step counter counts the turns; MAX_STEPS bounds the conversation.
THEOREM AgentStepsCountTurns == AgentSpec => []StepsCountTurns
<1>1. AgentInit /\ TypeOK => StepsCountTurns
  <2> SUFFICES ASSUME AgentInit, TypeOK, NEW a \in Agents
               PROVE  Cardinality(Turns(messages[a])) = 0
    BY DEF AgentInit, StepsCountTurns
  <2>1. Turns(messages[a]) = {}
    BY DEF AgentInit, Turns, SystemMessage, UserMessage, Message
  <2> QED BY <2>1, FS_EmptySet
<1>2. TypeOK /\ TypeOK' /\ StepsCountTurns /\ [AgentNext]_agentVars => StepsCountTurns'
  <2> SUFFICES ASSUME TypeOK, TypeOK', StepsCountTurns, [AgentNext]_agentVars
               PROVE  StepsCountTurns'
    OBVIOUS
  <2> USE DEF TypeOK, StepsCountTurns
  <2>0. CASE UNCHANGED agentVars
    BY <2>0 DEF agentVars
  <2>a. ASSUME NEW x \in Agents PROVE Cardinality(Turns(messages[x])) \in Nat
    BY TurnsFinite
  <2>1. ASSUME NEW a \in Agents, BuildRequest(a) PROVE StepsCountTurns'
    BY <2>1, <2>a DEF BuildRequest
  <2>2. ASSUME NEW a \in Agents, ReachMaxSteps(a) PROVE StepsCountTurns'
    BY <2>2 DEF ReachMaxSteps, Exit
  <2>3. ASSUME NEW a \in Agents, NEW r \in Replies, GiveUp(a, r) PROVE StepsCountTurns'
    BY <2>3 DEF GiveUp, Exit
  <2>4. ASSUME NEW a \in Agents, NEW r \in Replies, FinalAnswer(a, r) PROVE StepsCountTurns'
    <3>1. <<>> \in Seq(Calls)
      OBVIOUS
    <3>2. AssistantMessage(<<>>) \in MessageSet /\ AssistantMessage(<<>>).role = "assistant"
      BY <3>1, MessageType DEF AssistantMessage, Message
    <3>3. messages'[a] = Append(messages[a], AssistantMessage(<<>>))
      BY <2>4 DEF FinalAnswer
    <3>4. Cardinality(Turns(messages'[a])) = Cardinality(Turns(messages[a])) + 1
      BY <3>2, <3>3, CountOfAppend
    <3> QED BY <2>4, <2>a, <3>4 DEF FinalAnswer, Exit
  <2>5. ASSUME NEW a \in Agents, NEW r \in Replies, EmptyAnswer(a, r) PROVE StepsCountTurns'
    BY <2>5 DEF EmptyAnswer, Exit
  <2>6. ASSUME NEW a \in Agents, NEW r \in Replies, CallTools(a, r) PROVE StepsCountTurns'
    <3>1. AssistantMessage(r.calls) \in MessageSet /\ AssistantMessage(r.calls).role = "assistant"
      BY ReplyType, MessageType DEF AssistantMessage, Message
    <3>2. messages'[a] = Append(messages[a], AssistantMessage(r.calls))
      BY <2>6 DEF CallTools
    <3>3. Cardinality(Turns(messages'[a])) = Cardinality(Turns(messages[a])) + 1
      BY <3>1, <3>2, CountOfAppend
    <3> QED BY <2>6, <2>a, <3>3 DEF CallTools
  <2>7. ASSUME NEW a \in Agents, SkipCall(a) PROVE StepsCountTurns'
    BY <2>7 DEF SkipCall
  <2>8. ASSUME NEW a \in Agents, NEW text, ExecuteTool(a, text) PROVE StepsCountTurns'
    <3> DEFINE m == ToolMessage(calls[a][i[a]].id, text)
    <3>0. calls[a][i[a]] \in Calls
      BY <2>8 DEF ExecuteTool
    <3>1. calls[a][i[a]].id \in Ids \cup {"none"} /\ text \in {"output", "error"}
      BY <2>8, <3>0, ToolTextType DEF ExecuteTool, Calls
    <3>2. m \in MessageSet /\ m.role # "assistant"
      BY <3>1, MessageType DEF ToolMessage, Message
    <3>3. messages'[a] = Append(messages[a], m)
      BY <2>8 DEF ExecuteTool
    <3>4. Cardinality(Turns(messages'[a])) = Cardinality(Turns(messages[a]))
      BY <2>a, <3>2, <3>3, CountOfAppend
    <3> QED BY <2>8, <3>4 DEF ExecuteTool
  <2>9. ASSUME NEW a \in Agents, EndOfCalls(a) PROVE StepsCountTurns'
    BY <2>9 DEF EndOfCalls
  <2>10. ASSUME NEW a \in Agents, Killed(a) PROVE StepsCountTurns'
    BY <2>10 DEF Killed, Exit
  <2> QED
    BY <2>0, <2>1, <2>2, <2>3, <2>4, <2>5, <2>6, <2>7, <2>8, <2>9, <2>10
    DEF AgentNext, AgentStep, HandleReply
<1> QED BY <1>1, <1>2, AgentTyping, PTL DEF AgentSpec

-----------------------------------------------------------------------------
\* No call answered is none answered.
LEMMA AnswersZero == ASSUME NEW cs PROVE Answers(cs, 0) = 0
<1>1. {m \in 1 .. 0 : Named(cs[m])} = {}
  OBVIOUS
<1> QED BY <1>1, FS_EmptySet DEF Answers

\* The number of answers grows with the named calls and no others.
LEMMA AnswersNext ==
  ASSUME NEW cs, NEW n \in Nat
  PROVE  /\ Answers(cs, n) \in Nat
         /\ Named(cs[n + 1]) => Answers(cs, n + 1) = Answers(cs, n) + 1
         /\ ~ Named(cs[n + 1]) => Answers(cs, n + 1) = Answers(cs, n)
<1> DEFINE A(k) == {m \in 1 .. k : Named(cs[m])}
<1>1. IsFiniteSet(A(n))
  <2>1. IsFiniteSet(1 .. n)
    BY FS_Interval
  <2> QED BY <2>1, FS_Subset
<1>2. Answers(cs, n) \in Nat
  BY <1>1, FS_CardinalityType DEF Answers
<1>3. n + 1 \notin A(n)
  OBVIOUS
<1>4. ASSUME Named(cs[n + 1]) PROVE Answers(cs, n + 1) = Answers(cs, n) + 1
  <2>1. A(n + 1) = A(n) \cup {n + 1}
    BY <1>4
  <2>2. Cardinality(A(n) \cup {n + 1}) = Cardinality(A(n)) + 1
    BY <1>1, <1>3, FS_AddElement
  <2> QED BY <2>1, <2>2 DEF Answers
<1>5. ASSUME ~ Named(cs[n + 1]) PROVE Answers(cs, n + 1) = Answers(cs, n)
  <2>1. A(n + 1) = A(n)
    BY <1>5
  <2> QED BY <2>1 DEF Answers
<1> QED BY <1>2, <1>4, <1>5

\* AnsweredInOrder for one turn of one conversation, made inductive: a turn
\* that is not the last is followed by another turn right after its answers,
\* the last one by nothing.
Worked(msgs, b, k) ==
  IF \E c \in Turns(msgs) : c > b THEN Len(msgs[b].calls) ELSE k - 1

AnsweredUpTo(msgs, b, d) ==
  \A n \in 1 .. d : Named(msgs[b].calls[n]) =>
    LET p == b + Answers(msgs[b].calls, n)
    IN  p \in 1 .. Len(msgs) /\ msgs[p].role = "tool" /\ msgs[p].id = msgs[b].calls[n].id

TurnOK(msgs, b, k) ==
  LET next == b + Answers(msgs[b].calls, Worked(msgs, b, k)) + 1
  IN  /\ AnsweredUpTo(msgs, b, Worked(msgs, b, k))
      /\ IF \E c \in Turns(msgs) : c > b THEN next \in Turns(msgs) ELSE next = Len(msgs) + 1

LastTurn(msgs, b) == b \in Turns(msgs) /\ \A c \in Turns(msgs) : c <= b

\* The calls being worked on are those of the last turn.
ConversationOK(msgs, cs, k) ==
  /\ \/ Turns(msgs) = {} /\ cs = <<>>
     \/ \E b : LastTurn(msgs, b) /\ msgs[b].calls = cs
  /\ \A b \in Turns(msgs) : TurnOK(msgs, b, k)

\* The turn that no other follows is the one being worked on.
LEMMA OnlyLastTurn ==
  ASSUME NEW msgs, NEW cs, NEW k, ConversationOK(msgs, cs, k),
         NEW b \in Turns(msgs), ~ \E c \in Turns(msgs) : c > b
  PROVE  msgs[b].calls = cs
<1>1. PICK l : LastTurn(msgs, l) /\ msgs[l].calls = cs
  BY DEF ConversationOK
<1>2. l \in Int /\ b \in Int
  BY <1>1 DEF LastTurn, Turns
<1>3. l = b
  BY <1>1, <1>2 DEF LastTurn
<1> QED BY <1>1, <1>3

\* A new turn finds the one before it answered in full.
LEMMA NewTurn ==
  ASSUME NEW msgs \in Seq(MessageSet), NEW cs \in Seq(Calls), NEW new \in Seq(Calls),
         ConversationOK(msgs, cs, Len(cs) + 1)
  PROVE  ConversationOK(Append(msgs, AssistantMessage(new)), new, 1)
<1> DEFINE m == AssistantMessage(new)
           next == Append(msgs, m)
           last == Len(msgs) + 1
<1>1. m \in MessageSet /\ m.role = "assistant" /\ m.calls = new
  BY MessageType DEF AssistantMessage, Message
<1>2. Turns(next) = Turns(msgs) \cup {last}
  BY <1>1, TurnsOfAppend
<1>3. Turns(msgs) \subseteq 1 .. Len(msgs)
  BY DEF Turns
<1>4. /\ next \in Seq(MessageSet)
      /\ Len(next) = last
      /\ next[last] = m
      /\ \A n \in 1 .. Len(msgs) : next[n] = msgs[n]
  BY <1>1
<1>5. LastTurn(next, last) /\ next[last].calls = new
  BY <1>1, <1>2, <1>3, <1>4 DEF LastTurn
<1>6. TurnOK(next, last, 1)
  <2>1. ~ \E c \in Turns(next) : c > last
    BY <1>5 DEF LastTurn, Turns
  <2>2. Worked(next, last, 1) = 0
    BY <2>1 DEF Worked
  <2> QED BY <1>4, <2>1, <2>2, AnswersZero DEF TurnOK, AnsweredUpTo
<1>7. ASSUME NEW b \in Turns(msgs) PROVE TurnOK(next, b, 1)
  <2>0. b \in 1 .. Len(msgs) /\ next[b] = msgs[b] /\ last > b
    BY <1>3, <1>4
  <2>1. msgs[b].calls \in Seq(Calls)
    <3>1. msgs[b] \in MessageSet
      BY <2>0
    <3> QED BY <3>1 DEF MessageSet
  <2>2. \E c \in Turns(next) : c > b
    BY <1>2, <2>0
  <2>3. Worked(next, b, 1) = Len(msgs[b].calls)
    BY <2>0, <2>2 DEF Worked
  <2>4. Worked(msgs, b, Len(cs) + 1) = Len(msgs[b].calls)
    <3>1. CASE \E c \in Turns(msgs) : c > b
      BY <3>1 DEF Worked
    <3>2. CASE ~ \E c \in Turns(msgs) : c > b
      <4>1. msgs[b].calls = cs
        BY <3>2, OnlyLastTurn
      <4> QED BY <3>2, <4>1 DEF Worked
    <3> QED BY <3>1, <3>2
  <2>5. TurnOK(msgs, b, Len(cs) + 1)
    BY DEF ConversationOK
  <2>6. AnsweredUpTo(next, b, Len(msgs[b].calls))
    <3>1. AnsweredUpTo(msgs, b, Len(msgs[b].calls))
      BY <2>4, <2>5 DEF TurnOK
    <3> QED BY <1>4, <2>0, <2>1, <3>1 DEF AnsweredUpTo
  <2>7. b + Answers(msgs[b].calls, Len(msgs[b].calls)) + 1 \in Turns(next)
    BY <1>2, <2>4, <2>5 DEF TurnOK
  <2> QED BY <2>0, <2>2, <2>3, <2>6, <2>7 DEF TurnOK
<1> QED BY <1>2, <1>5, <1>6, <1>7 DEF ConversationOK

\* A skipped call leaves the conversation as it is.
LEMMA SkippedCall ==
  ASSUME NEW msgs \in Seq(MessageSet), NEW cs \in Seq(Calls), NEW k \in 1 .. Len(cs),
         ConversationOK(msgs, cs, k), ~ Named(cs[k])
  PROVE  ConversationOK(msgs, cs, k + 1)
<1>1. SUFFICES ASSUME NEW b \in Turns(msgs) PROVE TurnOK(msgs, b, k + 1)
  BY DEF ConversationOK
<1>2. TurnOK(msgs, b, k)
  BY DEF ConversationOK
<1>3. CASE \E c \in Turns(msgs) : c > b
  BY <1>2, <1>3 DEF TurnOK, Worked, AnsweredUpTo
<1>4. CASE ~ \E c \in Turns(msgs) : c > b
  <2>1. msgs[b].calls = cs
    BY <1>4, OnlyLastTurn
  <2>2. Answers(cs, k) = Answers(cs, k - 1)
    BY AnswersNext, k - 1 \in Nat
  <2>3. Worked(msgs, b, k) = k - 1 /\ Worked(msgs, b, k + 1) = k
    BY <1>4 DEF Worked
  <2>4. AnsweredUpTo(msgs, b, k)
    <3>1. AnsweredUpTo(msgs, b, k - 1)
      BY <1>2, <2>3 DEF TurnOK
    <3>2. \A n \in 1 .. k : n = k \/ n \in 1 .. k - 1
      OBVIOUS
    <3> QED BY <2>1, <3>1, <3>2 DEF AnsweredUpTo
  <2> QED BY <1>2, <1>4, <2>1, <2>2, <2>3, <2>4 DEF TurnOK
<1> QED BY <1>3, <1>4

\* An executed call's message lands right behind the answers of its turn.
LEMMA ExecutedCall ==
  ASSUME NEW msgs \in Seq(MessageSet), NEW cs \in Seq(Calls), NEW k \in 1 .. Len(cs),
         NEW text \in {"output", "error"},
         ConversationOK(msgs, cs, k), Named(cs[k])
  PROVE  ConversationOK(Append(msgs, ToolMessage(cs[k].id, text)), cs, k + 1)
<1> DEFINE m == ToolMessage(cs[k].id, text)
           next == Append(msgs, m)
<1>1. m \in MessageSet /\ m.role = "tool" /\ m.id = cs[k].id
  <2>1. cs[k].id \in Ids \cup {"none"}
    <3>1. cs[k] \in Calls
      OBVIOUS
    <3> QED BY <3>1 DEF Calls
  <2> QED BY <2>1, MessageType DEF ToolMessage, Message
<1>2. Turns(next) = Turns(msgs)
  BY <1>1, TurnsOfAppend
<1>3. Turns(msgs) \subseteq 1 .. Len(msgs)
  BY DEF Turns
<1>4. /\ next \in Seq(MessageSet)
      /\ Len(next) = Len(msgs) + 1
      /\ next[Len(msgs) + 1] = m
      /\ \A n \in 1 .. Len(msgs) : next[n] = msgs[n]
  BY <1>1
<1>5. PICK l : LastTurn(msgs, l) /\ msgs[l].calls = cs
  BY DEF ConversationOK
<1>6. LastTurn(next, l) /\ next[l].calls = cs
  BY <1>2, <1>3, <1>4, <1>5 DEF LastTurn
<1>7. ASSUME NEW b \in Turns(next) PROVE TurnOK(next, b, k + 1)
  <2>1. b \in 1 .. Len(msgs) /\ next[b] = msgs[b] /\ TurnOK(msgs, b, k)
    BY <1>2, <1>3, <1>4, <1>7 DEF ConversationOK
  <2>2. CASE \E c \in Turns(msgs) : c > b
    BY <1>2, <1>4, <2>1, <2>2 DEF TurnOK, Worked, AnsweredUpTo
  <2>3. CASE ~ \E c \in Turns(msgs) : c > b
    <3>1. msgs[b].calls = cs
      BY <1>2, <1>7, <2>3, OnlyLastTurn
    <3>2. Answers(cs, k) = Answers(cs, k - 1) + 1 /\ Answers(cs, k - 1) \in Nat
      BY AnswersNext, k - 1 \in Nat
    <3>3. Worked(msgs, b, k) = k - 1 /\ Worked(next, b, k + 1) = k
      BY <1>2, <2>3 DEF Worked
    <3>4. b + Answers(cs, k) = Len(next)
      BY <1>4, <2>1, <2>3, <3>1, <3>2, <3>3 DEF TurnOK
    <3>5. AnsweredUpTo(next, b, k)
      <4>1. AnsweredUpTo(msgs, b, k - 1)
        BY <2>1, <3>3 DEF TurnOK
      <4>2. \A n \in 1 .. k : n = k \/ n \in 1 .. k - 1
        OBVIOUS
      <4> QED BY <1>1, <1>4, <2>1, <3>1, <3>4, <4>1, <4>2 DEF AnsweredUpTo
    <3> QED BY <1>2, <2>1, <2>3, <3>1, <3>3, <3>4, <3>5 DEF TurnOK
  <2> QED BY <2>2, <2>3
<1> QED BY <1>6, <1>7 DEF ConversationOK

AnswerInv == \A a \in Agents : ConversationOK(messages[a], calls[a], i[a])

\* The answers of every turn stand behind it, complete, in order and under
\* their ids.
THEOREM AgentAnswersInOrder == AgentSpec => []AnsweredInOrder
<1>1. AgentInit => AnswerInv
  <2> SUFFICES ASSUME AgentInit, NEW a \in Agents
               PROVE  ConversationOK(messages[a], calls[a], i[a])
    BY DEF AnswerInv
  <2>1. Turns(messages[a]) = {}
    BY DEF AgentInit, Turns, SystemMessage, UserMessage, Message
  <2> QED BY <2>1 DEF AgentInit, ConversationOK
<1>2. TypeOK /\ TypeOK' /\ NothingLeftOpen /\ AnswerInv /\ [AgentNext]_agentVars => AnswerInv'
  <2> SUFFICES ASSUME TypeOK, TypeOK', NothingLeftOpen, AnswerInv, [AgentNext]_agentVars,
                      NEW x \in Agents
               PROVE  ConversationOK(messages'[x], calls'[x], i'[x])
    BY DEF AnswerInv
  <2> USE DEF TypeOK
  <2>a. ConversationOK(messages[x], calls[x], i[x])
    BY DEF AnswerInv
  <2>b. CASE messages'[x] = messages[x] /\ calls'[x] = calls[x] /\ i'[x] = i[x]
    BY <2>a, <2>b
  <2>0. CASE UNCHANGED agentVars
    BY <2>b, <2>0 DEF agentVars
  <2>1. ASSUME NEW a \in Agents,
               BuildRequest(a) \/ ReachMaxSteps(a) \/ EndOfCalls(a) \/ Killed(a)
        PROVE  ConversationOK(messages'[x], calls'[x], i'[x])
    BY <2>b, <2>1 DEF BuildRequest, ReachMaxSteps, EndOfCalls, Killed
  <2>2. ASSUME NEW a \in Agents, NEW r \in Replies, GiveUp(a, r) \/ EmptyAnswer(a, r)
        PROVE  ConversationOK(messages'[x], calls'[x], i'[x])
    BY <2>b, <2>2 DEF GiveUp, EmptyAnswer
  <2>3. ASSUME NEW a \in Agents, NEW r \in Replies, FinalAnswer(a, r)
        PROVE  ConversationOK(messages'[x], calls'[x], i'[x])
    <3>1. CASE x # a
      BY <2>b, <2>3, <3>1 DEF FinalAnswer
    <3>2. CASE x = a
      <4>1. <<>> \in Seq(Calls)
        OBVIOUS
      <4>2. i[x] = Len(calls[x]) + 1
        BY <2>3, <3>2 DEF FinalAnswer, NothingLeftOpen
      <4>3. ConversationOK(Append(messages[x], AssistantMessage(<<>>)), <<>>, 1)
        BY <2>a, <4>1, <4>2, NewTurn
      <4> QED BY <2>3, <3>2, <4>3 DEF FinalAnswer
    <3> QED BY <3>1, <3>2
  <2>4. ASSUME NEW a \in Agents, NEW r \in Replies, CallTools(a, r)
        PROVE  ConversationOK(messages'[x], calls'[x], i'[x])
    <3>1. CASE x # a
      BY <2>b, <2>4, <3>1 DEF CallTools
    <3>2. CASE x = a
      <4>1. r.calls \in Seq(Calls)
        BY ReplyType
      <4>2. i[x] = Len(calls[x]) + 1
        BY <2>4, <3>2 DEF CallTools, NothingLeftOpen
      <4>3. ConversationOK(Append(messages[x], AssistantMessage(r.calls)), r.calls, 1)
        BY <2>a, <4>1, <4>2, NewTurn
      <4> QED BY <2>4, <3>2, <4>3 DEF CallTools
    <3> QED BY <3>1, <3>2
  <2>5. ASSUME NEW a \in Agents, SkipCall(a)
        PROVE  ConversationOK(messages'[x], calls'[x], i'[x])
    <3>1. CASE x # a
      BY <2>b, <2>5, <3>1 DEF SkipCall
    <3>2. CASE x = a
      <4>1. i[x] \in 1 .. Len(calls[x])
        BY <2>5, <3>2 DEF SkipCall
      <4>2. ConversationOK(messages[x], calls[x], i[x] + 1)
        BY <2>a, <2>5, <3>2, <4>1, SkippedCall DEF SkipCall
      <4> QED BY <2>5, <3>2, <4>2 DEF SkipCall
    <3> QED BY <3>1, <3>2
  <2>6. ASSUME NEW a \in Agents, NEW text, ExecuteTool(a, text)
        PROVE  ConversationOK(messages'[x], calls'[x], i'[x])
    <3>1. CASE x # a
      BY <2>b, <2>6, <3>1 DEF ExecuteTool
    <3>2. CASE x = a
      <4> DEFINE m == ToolMessage(calls[x][i[x]].id, text)
      <4>1. i[x] \in 1 .. Len(calls[x])
        BY <2>6, <3>2 DEF ExecuteTool
      <4>2. text \in {"output", "error"}
        BY <2>6, ToolTextType DEF ExecuteTool
      <4>3. Named(calls[x][i[x]])
        BY <2>6, <3>2 DEF ExecuteTool
      <4>4. ConversationOK(Append(messages[x], m), calls[x], i[x] + 1)
        BY <2>a, <4>1, <4>2, <4>3, ExecutedCall
      <4> QED BY <2>6, <3>2, <4>4 DEF ExecuteTool
    <3> QED BY <3>1, <3>2
  <2> QED
    BY <2>0, <2>1, <2>2, <2>3, <2>4, <2>5, <2>6 DEF AgentNext, AgentStep, HandleReply
<1>3. AnswerInv => AnsweredInOrder
  <2> SUFFICES ASSUME AnswerInv, NEW a \in Agents, NEW b \in Turns(messages[a])
               PROVE  LET cs == messages[a][b].calls
                          after == b + Answers(cs, Done(a, b)) + 1
                      IN  /\ AnsweredUpTo(messages[a], b, Done(a, b))
                          /\ after = Len(messages[a]) + 1 \/ after \in Turns(messages[a])
    BY DEF AnsweredInOrder, AnsweredUpTo
  <2>1. TurnOK(messages[a], b, i[a])
    BY DEF AnswerInv, ConversationOK
  <2>2. Done(a, b) = Worked(messages[a], b, i[a])
    BY DEF Done, Worked
  <2> QED BY <2>1, <2>2 DEF TurnOK
<1> QED BY <1>1, <1>2, <1>3, AgentTyping, AgentNothingLeftOpen, PTL DEF AgentSpec
=============================================================================
