--------------------------- MODULE CAgentTestProofs ---------------------------
(***************************************************************************)
(* Proofs about the composition of agents, server and script, for every    *)
(* set of tests, backlog and set of cuts.                                  *)
(***************************************************************************)
EXTENDS CAgentTest, AgentLiteProofs

(* Steps that concern neither the network nor the server leave both alone. *)
Frame == UNCHANGED <<netVars, serverVars>>

\* What the script's main line has to know to print the END line.
ReportInv ==
  /\ result \in [Agents -> {"none", "pass", "reject"}]
  /\ script # "wait" => \A t \in Agents : result[t] # "none"

\* A step of the group is one of the abstract group's, or none.
LEMMA ReportStep ==
  ASSUME ReportInv, [Next]_vars
  PROVE  ReportInv' /\ [Group!Next]_(Group!vars)
<1> DEFINE Silent == UNCHANGED <<script, result>>
<1> USE DEF ReportInv
<1>1. CASE Silent
  BY <1>1 DEF Group!vars
<1>2. CASE UNCHANGED vars
  BY <1>1, <1>2 DEF vars, testVars
<1>3. ASSUME NEW t \in Agents, Work(t) PROVE Silent \/ Validate(t)
  BY <1>3 DEF Work, Compute, Connect, ConnectRefused, Send, Receive, StartShell,
              FinishTool, testVars
<1>4. ASSUME NEW t \in Agents, Shell(t) \/ Timeout(t) \/ Deliver(t) PROVE Silent
  BY <1>4 DEF Shell, ShellWrites, ShellEnds, ShellFails, Timeout, Deliver, testVars
<1>5. ASSUME Serve PROVE Silent
  BY <1>5 DEF Serve
<1>6. ASSUME NEW t \in Agents, Validate(t)
      PROVE  ReportInv' /\ [Group!Next]_(Group!vars)
  <2>1. PICK verdict \in {"pass", "reject"} : result' = [result EXCEPT ![t] = verdict]
    BY <1>6 DEF Validate
  <2>2. result[t] = "none" /\ UNCHANGED script
    BY <1>6 DEF Validate
  <2>3. ReportInv'
    BY <2>1, <2>2
  <2>4. Group!Report(t)
    BY <2>1, <2>2 DEF Group!Report
  <2> QED BY <2>3, <2>4 DEF Group!Next
<1>7. CASE Wait
  BY <1>7 DEF Wait, Group!vars
<1>8. CASE Cleanup
  BY <1>8 DEF Cleanup, Group!vars
<1>9. CASE KillServer
  BY <1>9 DEF KillServer, Group!Next, Group!End
<1> QED
  BY <1>1, <1>2, <1>3, <1>4, <1>5, <1>6, <1>7, <1>8, <1>9 DEF Next, Script

LEMMA ReportInvariant == Spec => []ReportInv
<1>1. Init => ReportInv
  BY DEF Init, ReportInv
<1> QED BY <1>1, ReportStep, PTL DEF Spec

\* The cagent script implements the safety part of the abstract test group:
\* each test is reported once, and the END line comes after all of them.
THEOREM ScriptImplementsGroup == Spec => Group!Init /\ [][Group!Next]_(Group!vars)
<1>1. Init => ReportInv /\ Group!Init
  BY DEF Init, ReportInv, Group!Init
<1> QED BY <1>1, ReportStep, PTL DEF Spec

-----------------------------------------------------------------------------
\* What OneClientAtATime needs to be inductive: types, and that a client that
\* is not connected has nothing at the server's end either.
ServerInv ==
  /\ ServerTypeOK
  /\ OneClientAtATime
  /\ \A t \in Agents : conn[t].client = "none" => conn[t].server = "none"

\* What a test does to its connection: http_post's calls, the deliveries, the
\* end of its process, and the close after the last recv().
ClientCall(t) ==
  \/ NetConnect(t)
  \/ NetSend(t)
  \/ Arrive(t)
  \/ UNCHANGED <<listening, backlog>> /\ conn' = Abandoned(t)
  \/ /\ conn[t].server = "closed"
     /\ conn' = [conn EXCEPT ![t] = NoConnection]
     /\ UNCHANGED <<listening, backlog>>

\* The calls of http_post and the network's deliveries keep the invariant.
LEMMA ClientSteps ==
  ASSUME ServerInv, NEW t \in Agents, UNCHANGED serverVars, ClientCall(t)
  PROVE  ServerInv'
<1> USE TestAssumption DEF ClientCall, ServerInv, ServerTypeOK, OneClientAtATime, serverVars
<1>0. conn[t] \in Connection
  OBVIOUS
<1>1. CASE NetConnect(t)
  <2>1. conn' = [conn EXCEPT ![t] = [conn[t] EXCEPT !.client = "open", !.server = "queued"]]
    BY <1>1 DEF NetConnect
  <2>2. conn' \in [Clients -> Connection]
    BY <1>0, <2>1 DEF Connection
  <2>3. backlog' = Append(backlog, t) /\ conn[t].client = "none" /\ UNCHANGED listening
    BY <1>1 DEF NetConnect
  <2>4. conn'[t].server = "queued" /\ conn'[t].client = "open"
    BY <1>0, <2>1 DEF Connection
  <2>5. \A u \in Agents \ {t} : conn'[u] = conn[u]
    BY <2>1
  <2>6. ~ \E n \in 1 .. Len(backlog) : backlog[n] = t
    BY <2>3
  <2>7. /\ Len(backlog') = Len(backlog) + 1
        /\ backlog' \in Seq(Clients)
        /\ backlog'[Len(backlog) + 1] = t
        /\ \A n \in 1 .. Len(backlog) : backlog'[n] = backlog[n]
    BY <2>3
  <2>8. \A u \in Agents : conn'[u].server = "accepted" <=> cur' = u /\ srv' \in Serving
    BY <2>3, <2>4, <2>5
  <2>9. \A u \in Agents :
          conn'[u].server = "queued" <=> \E n \in 1 .. Len(backlog') : backlog'[n] = u
    <3>1. Len(backlog) + 1 \in 1 .. Len(backlog') /\ 1 .. Len(backlog) \subseteq 1 .. Len(backlog')
      BY <2>7
    <3>2. \E n \in 1 .. Len(backlog') : backlog'[n] = t
      BY <2>7, <3>1
    <3>3. ASSUME NEW u \in Agents \ {t}
          PROVE  (\E n \in 1 .. Len(backlog') : backlog'[n] = u)
                   <=> \E n \in 1 .. Len(backlog) : backlog[n] = u
      <4>1. 1 .. Len(backlog') = 1 .. Len(backlog) \cup {Len(backlog')}
        BY <2>7
      <4>2. u # t /\ backlog'[Len(backlog')] = t
        BY <2>7
      <4> HIDE DEF ServerInv
      <4> QED BY <2>7, <3>1, <4>1, <4>2
    <3>4. conn'[t].server = "queued" <=> \E n \in 1 .. Len(backlog') : backlog'[n] = t
      BY <2>4, <3>2
    <3>5. ASSUME NEW u \in Agents \ {t}
          PROVE  conn'[u].server = "queued" <=> \E n \in 1 .. Len(backlog') : backlog'[n] = u
      <4>1. conn[u].server = "queued" <=> \E n \in 1 .. Len(backlog) : backlog[n] = u
        OBVIOUS
      <4> HIDE DEF ServerInv
      <4> QED BY <2>5, <3>3, <4>1
    <3> HIDE DEF ServerInv
    <3> QED BY <3>4, <3>5
  <2>10. \A m, n \in 1 .. Len(backlog') : backlog'[m] = backlog'[n] => m = n
    BY <2>6, <2>7
  <2>11. ServerTypeOK'
    BY <2>2, <2>3, <2>7
  <2>12. OneClientAtATime'
    <3> HIDE DEF ServerInv
    <3> QED BY <2>8, <2>9, <2>10
  <2>13. \A u \in Agents : conn'[u].client = "none" => conn'[u].server = "none"
    BY <2>4, <2>5
  <2> QED BY <2>11, <2>12, <2>13
<1>2. CASE NetSend(t)
  <2>1. conn' = [conn EXCEPT ![t] = [conn[t] EXCEPT !.sent = TRUE]]
    BY <1>2 DEF NetSend
  <2>2. conn' \in [Clients -> Connection]
    BY <1>0, <2>1 DEF Connection
  <2>3. \A u \in Agents : conn'[u].server = conn[u].server /\ conn'[u].client = conn[u].client
    BY <1>0, <2>1 DEF Connection
  <2> QED BY <1>2, <2>2, <2>3 DEF NetSend
<1>3. CASE Arrive(t)
  <2>1. PICK n \in Cuts \cup {Whole} : conn' = [conn EXCEPT ![t] = [conn[t] EXCEPT !.arrived = n]]
    BY <1>3 DEF Arrive
  <2>2. n \in 0 .. Whole
    BY NetAssumption DEF Whole
  <2>3. conn' \in [Clients -> Connection]
    BY <1>0, <2>1, <2>2 DEF Connection
  <2>4. \A u \in Agents : conn'[u].server = conn[u].server /\ conn'[u].client = conn[u].client
    BY <1>0, <2>1 DEF Connection
  <2> QED BY <1>3, <2>3, <2>4 DEF Arrive
<1>4. CASE UNCHANGED <<listening, backlog>> /\ conn' = Abandoned(t)
  <2>1. conn' \in [Clients -> Connection]
    BY <1>0, <1>4 DEF Abandoned, Connection
  <2>2. \A u \in Agents : /\ conn'[u].server = conn[u].server
                          /\ conn'[u].client = "none" => conn[u].client = "none"
    BY <1>0, <1>4 DEF Abandoned, Connection
  <2> QED BY <1>4, <2>1, <2>2
<1>5. CASE /\ conn[t].server = "closed"
           /\ conn' = [conn EXCEPT ![t] = NoConnection]
           /\ UNCHANGED <<listening, backlog>>
  <2>1. NoConnection \in Connection /\ NoConnection.server = "none"
    BY DEF NoConnection, Connection, Whole
  <2> QED BY <1>5, <2>1
<1> QED BY <1>1, <1>2, <1>3, <1>4, <1>5

\* A server that goes away leaves no connection half open.
LEMMA TeardownConn ==
  ASSUME ServerInv, Teardown
  PROVE  \A u \in Clients :
           /\ conn'[u] \in Connection
           /\ conn'[u].server \notin {"queued", "accepted"}
           /\ conn'[u].client = "none" => conn'[u].server = "none"
<1> SUFFICES ASSUME NEW u \in Clients
             PROVE  /\ conn'[u] \in Connection
                    /\ conn'[u].server \notin {"queued", "accepted"}
                    /\ conn'[u].client = "none" => conn'[u].server = "none"
  OBVIOUS
<1>1. conn[u] \in Connection /\ (conn[u].client = "none" => conn[u].server = "none")
  BY TestAssumption DEF ServerInv, ServerTypeOK
<1>2. CASE conn[u].server \in {"queued", "accepted"}
  <2>1. conn'[u] = [conn[u] EXCEPT !.server = "closed", !.reset = TRUE]
    BY <1>2 DEF Teardown
  <2> QED BY <1>1, <1>2, <2>1 DEF Connection
<1>3. CASE conn[u].server \notin {"queued", "accepted"}
  BY <1>1, <1>3 DEF Teardown
<1> QED BY <1>2, <1>3

\* The invariant holds of a server that is gone.
LEMMA TeardownStep ==
  ASSUME ServerInv, Teardown, srv' \in Gone, cur' = Nobody, keep_running' \in BOOLEAN
  PROVE  ServerInv'
<1> USE TestAssumption, ServerAssumption
        DEF ServerInv, ServerTypeOK, OneClientAtATime, Serving, Gone
<1>1. \A u \in Clients :
        /\ conn'[u] \in Connection
        /\ conn'[u].server \notin {"queued", "accepted"}
        /\ conn'[u].client = "none" => conn'[u].server = "none"
  BY TeardownConn
<1>2. conn' \in [Clients -> Connection]
  BY <1>1 DEF Teardown
<1>3. backlog' = <<>> /\ listening' = FALSE
  BY DEF Teardown
<1>4. backlog' \in Seq(Clients) /\ Len(backlog') = 0
  BY <1>3
<1>5. \A u \in Agents :
        /\ ~ (conn'[u].server = "accepted") /\ ~ (cur' = u /\ srv' \in Serving)
        /\ ~ (conn'[u].server = "queued")
        /\ ~ \E n \in 1 .. Len(backlog') : backlog'[n] = u
  BY <1>1, <1>4
<1>6. srv' \notin Serving
  OBVIOUS
<1>7. ServerTypeOK'
  BY <1>2, <1>3, <1>4, <1>6
<1>8. OneClientAtATime'
  BY <1>4, <1>5
<1> QED BY <1>1, <1>7, <1>8

\* What the server writes into the record of a connection keeps its type.
LEMMA ConnectionUpdates ==
  ASSUME NEW k \in Connection, NEW b \in BOOLEAN
  PROVE  /\ [k EXCEPT !.server = "accepted"] \in Connection
         /\ [k EXCEPT !.server = "closed", !.reset = b] \in Connection
         /\ [k EXCEPT !.resp = 1, !.reset = b] \in Connection
         /\ [k EXCEPT !.resp = 2] \in Connection
<1>1. [k EXCEPT !.server = "accepted"] \in Connection
  BY DEF Connection
<1>2. [k EXCEPT !.server = "closed", !.reset = b] \in Connection
  BY DEF Connection
<1>3. [k EXCEPT !.resp = 1, !.reset = b] \in Connection
  <2> DEFINE r == [k EXCEPT !.resp = 1]
  <2>1. r \in Connection
    BY DEF Connection
  <2>2. [r EXCEPT !.reset = b] \in Connection
    <3> HIDE DEF r
    <3> QED BY <2>1 DEF Connection
  <2>3. [r EXCEPT !.reset = b] = [k EXCEPT !.resp = 1, !.reset = b]
    BY DEF Connection
  <2> QED BY <2>2, <2>3
<1>4. [k EXCEPT !.resp = 2] \in Connection
  BY DEF Connection
<1> QED BY <1>1, <1>2, <1>3, <1>4

\* main's loop and handle_client keep the invariant, step by step.
LEMMA ServerSteps == ASSUME ServerInv, ServerStep PROVE ServerInv'
<1> USE TestAssumption, ServerAssumption
        DEF ServerInv, ServerTypeOK, OneClientAtATime, Serving, Gone
<1>1. CASE Listen
  BY <1>1 DEF Listen
<1>2. CASE BootFails
  BY <1>2 DEF BootFails, netVars
<1>3. CASE CheckRunning
  BY <1>3 DEF CheckRunning, netVars
<1>4. CASE ShutDown
  BY <1>4, TeardownStep DEF ShutDown
<1>5. ASSUME Accept \/ AcceptFails PROVE ServerInv'
  <2> DEFINE h == Head(backlog)
  <2>1. /\ backlog # <<>>
        /\ h = backlog[1]
        /\ backlog' = Tail(backlog)
        /\ h \in Clients
        /\ conn[h].server = "queued"
        /\ cur = Nobody
    BY <1>5 DEF Accept, AcceptFails
  <2>2. /\ Len(backlog') = Len(backlog) - 1
        /\ backlog' \in Seq(Clients)
        /\ \A n \in 1 .. Len(backlog') : backlog'[n] = backlog[n + 1]
    BY <2>1
  <2>3. \A m, n \in 1 .. Len(backlog') : backlog'[m] = backlog'[n] => m = n
    <3> SUFFICES ASSUME NEW m \in 1 .. Len(backlog'), NEW n \in 1 .. Len(backlog'),
                        backlog'[m] = backlog'[n]
                 PROVE  m = n
      OBVIOUS
    <3>1. m + 1 \in 1 .. Len(backlog) /\ n + 1 \in 1 .. Len(backlog)
      BY <2>2
    <3>2. backlog[m + 1] = backlog[n + 1]
      BY <2>2
    <3>3. m + 1 = n + 1
      BY <3>1, <3>2
    <3> QED BY <3>3
  <2>4. \A u \in Agents :
          (\E n \in 1 .. Len(backlog') : backlog'[n] = u)
            <=> u # h /\ \E n \in 1 .. Len(backlog) : backlog[n] = u
    <3> SUFFICES ASSUME NEW u \in Agents
                 PROVE  (\E n \in 1 .. Len(backlog') : backlog'[n] = u)
                          <=> u # h /\ \E n \in 1 .. Len(backlog) : backlog[n] = u
      OBVIOUS
    <3>1. ASSUME NEW n \in 1 .. Len(backlog'), backlog'[n] = u
          PROVE  u # h /\ \E k \in 1 .. Len(backlog) : backlog[k] = u
      <4>1. n + 1 \in 1 .. Len(backlog) /\ backlog[n + 1] = u /\ 1 \in 1 .. Len(backlog)
        BY <2>1, <2>2, <3>1
      <4>2. backlog[n + 1] # backlog[1]
        BY <4>1
      <4> QED BY <2>1, <4>1, <4>2
    <3>2. ASSUME u # h, NEW n \in 1 .. Len(backlog), backlog[n] = u
          PROVE  \E k \in 1 .. Len(backlog') : backlog'[k] = u
      <4>1. n # 1
        BY <2>1, <3>2
      <4>2. n - 1 \in 1 .. Len(backlog') /\ backlog'[n - 1] = u
        BY <2>2, <3>2, <4>1
      <4> QED BY <4>2
    <3> QED BY <3>1, <3>2
  <2>5. CASE Accept
    <3> DEFINE c == [conn[h] EXCEPT !.server = "accepted"]
    <3>1. conn' = [conn EXCEPT ![h] = c]
      BY <2>1, <2>5 DEF Accept
    <3>2. /\ conn' \in [Clients -> Connection]
          /\ conn'[h].server = "accepted" /\ conn'[h].client = conn[h].client
          /\ \A u \in Agents \ {h} : conn'[u] = conn[u]
      <4>1. conn[h] \in Connection
        BY <2>1
      <4>2. c \in Connection
        BY <4>1, ConnectionUpdates
      <4>3. c.server = "accepted" /\ c.client = conn[h].client
        BY <4>1 DEF Connection
      <4> HIDE DEF c, h
      <4> QED BY <2>1, <3>1, <4>2, <4>3
    <3>3. cur' = h /\ srv' = "read" /\ UNCHANGED <<listening, keep_running>>
      BY <2>5 DEF Accept
    <3>4. \A u \in Agents : conn'[u].server = "accepted" <=> cur' = u /\ srv' \in Serving
      BY <2>1, <3>2, <3>3
    <3>5. \A u \in Agents :
            conn'[u].server = "queued" <=> \E n \in 1 .. Len(backlog') : backlog'[n] = u
      <4>1. \A u \in Agents : conn'[u].server = "queued" <=> u # h /\ conn[u].server = "queued"
        <5> HIDE DEF h
        <5> QED BY <3>2
      <4>2. \A u \in Agents :
              conn[u].server = "queued" <=> \E n \in 1 .. Len(backlog) : backlog[n] = u
        OBVIOUS
      <4> HIDE DEF h, ServerInv
      <4> QED BY <2>4, <4>1, <4>2
    <3>6. \A u \in Agents : conn'[u].client = "none" => conn'[u].server = "none"
      BY <2>1, <3>2
    <3>7. ServerTypeOK'
      BY <2>1, <2>2, <3>2, <3>3
    <3>8. OneClientAtATime'
      <4> HIDE DEF ServerInv
      <4> QED BY <2>3, <3>4, <3>5
    <3> HIDE DEF ServerInv, ServerTypeOK, OneClientAtATime
    <3> QED BY <3>6, <3>7, <3>8, Zenon DEF ServerInv
  <2>6. CASE AcceptFails
    <3> DEFINE c == [conn[h] EXCEPT !.server = "closed", !.reset = TRUE]
    <3>1. conn' = [conn EXCEPT ![h] = c]
      <4>1. conn' = [conn EXCEPT ![h].server = "closed", ![h].reset = TRUE]
        BY <2>6, Zenon DEF AcceptFails
      <4>2. conn \in [Clients -> Connection] /\ h \in Clients
        BY <2>1
      <4> HIDE DEF h, ServerInv, ServerTypeOK, OneClientAtATime, Serving, Gone
      <4> QED BY <4>1, <4>2
    <3>2. /\ conn' \in [Clients -> Connection]
          /\ conn'[h].server = "closed" /\ conn'[h].client = conn[h].client
          /\ \A u \in Agents \ {h} : conn'[u] = conn[u]
      <4>1. conn[h] \in Connection
        BY <2>1
      <4>2. c \in Connection
        BY <4>1, ConnectionUpdates
      <4>3. c.server = "closed" /\ c.client = conn[h].client
        BY <4>1 DEF Connection
      <4> HIDE DEF c, h
      <4> QED BY <2>1, <3>1, <4>2, <4>3
    <3>3. srv' = "check" /\ srv \notin Serving /\ UNCHANGED <<listening, keep_running, cur>>
      BY <2>6 DEF AcceptFails
    <3>4. \A u \in Agents : conn'[u].server = "accepted" <=> cur' = u /\ srv' \in Serving
      BY <2>1, <3>2, <3>3
    <3>5. \A u \in Agents :
            conn'[u].server = "queued" <=> \E n \in 1 .. Len(backlog') : backlog'[n] = u
      <4>1. \A u \in Agents : conn'[u].server = "queued" <=> u # h /\ conn[u].server = "queued"
        <5> HIDE DEF h
        <5> QED BY <3>2
      <4>2. \A u \in Agents :
              conn[u].server = "queued" <=> \E n \in 1 .. Len(backlog) : backlog[n] = u
        OBVIOUS
      <4> HIDE DEF h, ServerInv
      <4> QED BY <2>4, <4>1, <4>2
    <3>6. \A u \in Agents : conn'[u].client = "none" => conn'[u].server = "none"
      BY <2>1, <3>2
    <3>7. ServerTypeOK'
      BY <2>1, <2>2, <3>2, <3>3
    <3>8. OneClientAtATime'
      <4> HIDE DEF ServerInv
      <4> QED BY <2>3, <3>4, <3>5
    <3> HIDE DEF ServerInv, ServerTypeOK, OneClientAtATime
    <3> QED BY <3>6, <3>7, <3>8, Zenon DEF ServerInv
  <2> QED BY <1>5, <2>5, <2>6
<1>6. CASE Block
  BY <1>6 DEF Block, netVars
<1>7. ASSUME Read \/ WriteHead \/ WriteBody PROVE ServerInv'
  <2>1. cur \in Clients /\ conn[cur] \in Connection
    BY <1>7 DEF Read, WriteHead, WriteBody
  <2>2. PICK c \in Connection :
          /\ conn' = [conn EXCEPT ![cur] = c]
          /\ c.server = conn[cur].server
          /\ c.client = conn[cur].client
    <3>1. CASE UNCHANGED conn
      <4>1. conn' = [conn EXCEPT ![cur] = conn[cur]]
        BY <2>1, <3>1
      <4> QED BY <2>1, <4>1
    <3>2. CASE conn' = [conn EXCEPT ![cur].status = Status(conn[cur].arrived)]
      <4>1. [conn[cur] EXCEPT !.status = Status(conn[cur].arrived)] \in Connection
        BY <2>1 DEF Connection, Status
      <4> QED BY <2>1, <3>2, <4>1 DEF Connection
    <3>3. CASE WriteHead
      <4> DEFINE c == [conn[cur] EXCEPT !.resp = 1, !.reset = conn[cur].client = "closed"]
      <4>1. c \in Connection
        BY <2>1, ConnectionUpdates
      <4>2. conn' = [conn EXCEPT ![cur] = c]
        BY <2>1, <3>3 DEF WriteHead
      <4>3. c.server = conn[cur].server /\ c.client = conn[cur].client
        BY <2>1 DEF Connection
      <4> QED BY <4>1, <4>2, <4>3
    <3>4. CASE WriteBody
      <4> DEFINE c == [conn[cur] EXCEPT !.resp = 2]
      <4>1. c \in Connection
        BY <2>1, ConnectionUpdates
      <4>2. conn' = [conn EXCEPT ![cur] = c]
        BY <2>1, <3>4 DEF WriteBody
      <4>3. c.server = conn[cur].server /\ c.client = conn[cur].client
        BY <2>1 DEF Connection
      <4> QED BY <4>1, <4>2, <4>3
    <3> QED BY <1>7, <3>1, <3>2, <3>3, <3>4 DEF Read
  <2>3. \A u \in Agents : conn'[u].server = conn[u].server /\ conn'[u].client = conn[u].client
    BY <2>1, <2>2
  <2>4. conn' \in [Clients -> Connection]
    BY <2>1, <2>2
  <2>5. srv' \in Serving /\ srv \in Serving /\ UNCHANGED <<listening, backlog, keep_running, cur>>
    BY <1>7 DEF Read, WriteHead, WriteBody
  <2> QED BY <2>3, <2>4, <2>5
<1>8. CASE SigPipe
  BY <1>8, TeardownStep DEF SigPipe
<1>9. CASE Close
  <2>1. cur \in Clients /\ conn[cur] \in Connection
    BY <1>9 DEF Close
  <2> DEFINE c == [conn[cur] EXCEPT !.server = "closed",
                     !.reset = @ \/ (conn[cur].sent /\ conn[cur].status # "chat")]
  <2>2. conn' = [conn EXCEPT ![cur] = c]
    BY <1>9, <2>1 DEF Close
  <2>3. c \in Connection /\ c.server = "closed" /\ c.client = conn[cur].client
    BY <2>1 DEF Connection
  <2> HIDE DEF c
  <2>4. conn' \in [Clients -> Connection]
    BY <2>1, <2>2, <2>3
  <2>5. conn'[cur].server = "closed" /\ \A u \in Agents \ {cur} : conn'[u] = conn[u]
    BY <2>1, <2>2, <2>3
  <2>6. \A u \in Agents : conn'[u].client = "none" => conn'[u].server = "none"
    <3>1. conn[cur].client # "none"
      BY <1>9, <2>1 DEF Close
    <3> QED BY <2>1, <2>2, <2>3, <3>1
  <2>7. cur' = Nobody /\ srv' = "check" /\ UNCHANGED <<listening, backlog, keep_running>>
    BY <1>9 DEF Close
  <2>8. conn[cur].server = "accepted"
    BY <1>9, <2>1 DEF Close
  <2> QED BY <2>1, <2>4, <2>5, <2>6, <2>7, <2>8
<1> QED BY <1>1, <1>2, <1>3, <1>4, <1>5, <1>6, <1>7, <1>8, <1>9 DEF ServerStep

\* SIGTERM keeps the invariant wherever the server stands.
LEMMA SignalStep == ASSUME ServerInv, Signal PROVE ServerInv'
<1> USE TestAssumption, ServerAssumption
        DEF ServerInv, ServerTypeOK, OneClientAtATime, Serving, Gone
<1>1. CASE srv = "blocked" /\ srv' = "exited" /\ Teardown /\ keep_running' = FALSE /\ UNCHANGED cur
  BY <1>1, TeardownStep
<1>2. CASE /\ UNCHANGED <<netVars, cur>>
           /\ keep_running' \in BOOLEAN
           /\ \/ srv = "boot" /\ srv' = "killed"
              \/ srv' = srv
              \/ srv = "read" /\ srv' = "close"
  BY <1>2 DEF netVars
<1> QED BY <1>1, <1>2 DEF Signal, serverVars

\* Who touches the network and the server in a step of the group.
LEMMA NetworkSteps ==
  ASSUME [Next]_vars
  PROVE  \/ Frame
         \/ \E t \in Agents : UNCHANGED serverVars /\ ClientCall(t)
         \/ ServerStep
         \/ Signal
<1> USE DEF Frame, ClientCall
<1>1. CASE UNCHANGED vars
  BY <1>1 DEF vars
<1>2. ASSUME NEW t \in Agents, Connect(t) \/ Send(t) \/ Deliver(t) \/ Receive(t) \/ Timeout(t)
      PROVE  UNCHANGED serverVars /\ ClientCall(t)
  <2>1. CASE Connect(t)
    BY <2>1 DEF Connect
  <2>2. CASE Send(t)
    BY <2>2 DEF Send
  <2>3. CASE Deliver(t)
    BY <2>3 DEF Deliver
  <2>4. CASE Receive(t)
    BY <2>4 DEF Receive
  <2>5. CASE Timeout(t)
    BY <2>5 DEF Timeout
  <2> QED BY <1>2, <2>1, <2>2, <2>3, <2>4, <2>5
<1>3. ASSUME NEW t \in Agents, Work(t)
      PROVE  Frame \/ Connect(t) \/ Send(t) \/ Receive(t)
  BY <1>3 DEF Work, Compute, ConnectRefused, StartShell, FinishTool, Validate
<1>4. ASSUME NEW t \in Agents, Shell(t) PROVE Frame
  BY <1>4 DEF Shell, ShellWrites, ShellEnds, ShellFails
<1>5. CASE Serve
  BY <1>5 DEF Serve
<1>6. CASE Wait \/ Cleanup
  BY <1>6 DEF Wait, Cleanup
<1>7. CASE KillServer
  BY <1>7 DEF KillServer
<1> QED BY <1>1, <1>2, <1>3, <1>4, <1>5, <1>6, <1>7 DEF Next, Script

\* The server's invariant holds of every run of the group.
LEMMA ServerInvariant == Spec => []ServerInv
<1>1. Init => ServerInv
  <2> SUFFICES ASSUME Init PROVE ServerInv
    OBVIOUS
  <2>1. conn = [c \in Clients |-> NoConnection] /\ backlog = <<>> /\ srv = "boot"
    BY DEF Init, ServerInit, NetInit
  <2>2. NoConnection \in Connection /\ NoConnection.server = "none"
    BY DEF NoConnection, Connection, Whole
  <2>3. ServerTypeOK
    <3>1. conn \in [Clients -> Connection]
      BY <2>1, <2>2
    <3>2. backlog \in Seq(Clients)
      BY <2>1
    <3> QED BY <3>1, <3>2 DEF Init, ServerInit, NetInit, ServerTypeOK, Serving
  <2>4. OneClientAtATime
    <3>1. \A u \in Agents : conn[u].server = "none"
      BY <2>1, <2>2, TestAssumption
    <3> QED BY <2>1, <3>1 DEF OneClientAtATime, Serving
  <2>5. \A u \in Agents : conn[u].server = "none"
    BY <2>1, <2>2, TestAssumption
  <2> QED BY <2>3, <2>4, <2>5 DEF ServerInv
<1>2. ServerInv /\ [Next]_vars => ServerInv'
  <2> SUFFICES ASSUME ServerInv, [Next]_vars PROVE ServerInv'
    OBVIOUS
  <2>1. CASE Frame
    BY <2>1 DEF Frame, netVars, serverVars, ServerInv, ServerTypeOK, OneClientAtATime
  <2>2. ASSUME NEW t \in Agents, UNCHANGED serverVars, ClientCall(t) PROVE ServerInv'
    BY <2>2, ClientSteps DEF ClientCall
  <2>3. CASE ServerStep
    BY <2>3, ServerSteps
  <2>4. CASE Signal
    BY <2>4, SignalStep
  <2> QED BY <2>1, <2>2, <2>3, <2>4, NetworkSteps
<1> QED BY <1>1, <1>2, PTL DEF Spec

\* The server holds one connection, that of the client it serves, and its
\* backlog holds each waiting connection once.
THEOREM ServerServesOne == Spec => []OneClientAtATime
<1>1. ServerInv => OneClientAtATime
  BY DEF ServerInv
<1> QED BY <1>1, ServerInvariant, PTL

-----------------------------------------------------------------------------
\* One connection on its way through handle_client: what is not yet read has
\* no status, what is not yet written no response, and the server sees a reset
\* of a connection it still holds only when the client has gone.
Passage(t) ==
  /\ conn[t].client = "none" => conn[t] = NoConnection
  /\ conn[t].server = "queued" => conn[t].status = "none" /\ conn[t].resp = 0
  /\ cur = t =>
       /\ srv = "read" => conn[t].status = "none" /\ conn[t].resp = 0
       /\ srv = "head" => conn[t].status # "none" /\ conn[t].resp = 0
       /\ srv = "body" => conn[t].status # "none" /\ conn[t].resp = 1
       /\ srv = "close" => conn[t].resp = IF conn[t].status = "none" THEN 0 ELSE 2
  /\ conn[t].server \in {"queued", "accepted"} /\ conn[t].reset => conn[t].client = "closed"
  /\ conn[t].resp # 0 => conn[t].status # "none"

PassageInv == \A t \in Agents : Passage(t)

\* A step that writes one connection leaves the others alone.
LEMMA OneConnection ==
  ASSUME ServerTypeOK, NEW t \in Agents, NEW c \in Connection, conn' = [conn EXCEPT ![t] = c]
  PROVE  conn'[t] = c /\ \A u \in Agents \ {t} : conn'[u] = conn[u]
BY TestAssumption DEF ServerTypeOK

\* The calls of http_post and the deliveries keep every connection on its way.
LEMMA PassageClient ==
  ASSUME ServerInv, PassageInv, NEW t \in Agents, UNCHANGED serverVars, ClientCall(t)
  PROVE  PassageInv'
<1> DEFINE On(c) ==
      /\ c.client = "none" => c = NoConnection
      /\ c.server = "queued" => c.status = "none" /\ c.resp = 0
      /\ cur = t =>
           /\ srv = "read" => c.status = "none" /\ c.resp = 0
           /\ srv = "head" => c.status # "none" /\ c.resp = 0
           /\ srv = "body" => c.status # "none" /\ c.resp = 1
           /\ srv = "close" => c.resp = IF c.status = "none" THEN 0 ELSE 2
      /\ c.server \in {"queued", "accepted"} /\ c.reset => c.client = "closed"
      /\ c.resp # 0 => c.status # "none"
<1>1. conn[t] \in Connection /\ conn \in [Agents -> Connection]
  BY TestAssumption DEF ServerInv, ServerTypeOK
<1>2. On(conn[t])
  BY DEF PassageInv, Passage
<1>3. cur = t /\ srv \in {"read", "head", "body", "close"} <=> conn[t].server = "accepted"
  BY DEF ServerInv, OneClientAtATime, Serving
<1>4. \E c \in Connection : conn' = [conn EXCEPT ![t] = c] /\ On(c)
  <2>1. CASE NetConnect(t)
    <3> DEFINE c == [conn[t] EXCEPT !.client = "open", !.server = "queued"]
    <3>1. conn[t] = NoConnection
      BY <2>1, <1>2 DEF NetConnect
    <3>2. c \in Connection /\ On(c)
      <4>1. /\ conn[t].server = "none" /\ conn[t].status = "none"
            /\ conn[t].resp = 0 /\ conn[t].reset = FALSE
        BY <3>1 DEF NoConnection
      <4>2. ~ (cur = t /\ srv \in {"read", "head", "body", "close"})
        BY <4>1, <1>3
      <4>3. c \in Connection
        BY <1>1 DEF Connection
      <4>4. /\ c.client = "open" /\ c.server = "queued" /\ c.status = "none"
            /\ c.resp = 0 /\ c.reset = FALSE
        BY <4>1, <1>1 DEF Connection
      <4> HIDE DEF c
      <4> QED BY <4>2, <4>3, <4>4
    <3>3. conn' = [conn EXCEPT ![t] = c]
      BY <2>1, <1>1 DEF NetConnect, Connection
    <3> QED BY <3>2, <3>3
  <2>2. CASE NetSend(t)
    <3> DEFINE c == [conn[t] EXCEPT !.sent = TRUE]
    <3>1. c \in Connection /\ On(c)
      BY <2>2, <1>1, <1>2 DEF NetSend, Connection
    <3>2. conn' = [conn EXCEPT ![t] = c]
      BY <2>2, <1>1 DEF NetSend, Connection
    <3> QED BY <3>1, <3>2
  <2>3. CASE Arrive(t)
    <3>1. PICK n \in Cuts \cup {Whole} : conn' = [conn EXCEPT ![t].arrived = n]
      BY <2>3 DEF Arrive
    <3>2. n \in 0 .. Whole
      BY NetAssumption DEF Whole
    <3> DEFINE c == [conn[t] EXCEPT !.arrived = n]
    <3>3. conn[t].client # "none"
      BY <2>3, <1>2 DEF Arrive, NoConnection
    <3>4. c \in Connection /\ On(c)
      BY <3>2, <3>3, <1>1, <1>2 DEF Connection
    <3>5. conn' = [conn EXCEPT ![t] = c]
      BY <3>1, <1>1 DEF Connection
    <3> QED BY <3>4, <3>5
  <2>4. CASE conn' = Abandoned(t)
    <3>1. CASE conn[t].client = "open"
      <4> DEFINE c == [conn[t] EXCEPT !.client = "closed"]
      <4>1. c \in Connection /\ On(c)
        BY <3>1, <1>1, <1>2 DEF Connection
      <4>2. conn' = [conn EXCEPT ![t] = c]
        BY <2>4, <3>1, <1>1 DEF Abandoned, Connection
      <4> QED BY <4>1, <4>2
    <3>2. CASE conn[t].client # "open"
      <4>1. conn' = [conn EXCEPT ![t] = conn[t]]
        BY <2>4, <3>2, <1>1 DEF Abandoned
      <4> QED BY <4>1, <1>1, <1>2
    <3> QED BY <3>1, <3>2
  <2>5. CASE conn[t].server = "closed" /\ conn' = [conn EXCEPT ![t] = NoConnection]
    <3>1. NoConnection \in Connection
      BY DEF Connection, NoConnection, Whole
    <3>2. On(NoConnection)
      BY <2>5, <1>3 DEF NoConnection
    <3> QED BY <2>5, <3>1, <3>2
  <2> QED BY <2>1, <2>2, <2>3, <2>4, <2>5 DEF ClientCall
<1>5. PICK c \in Connection : conn' = [conn EXCEPT ![t] = c] /\ On(c)
  BY <1>4
<1>6. conn'[t] = c /\ \A u \in Agents \ {t} : conn'[u] = conn[u]
  BY <1>5, OneConnection DEF ServerInv
<1>7. srv' = srv /\ cur' = cur
  BY DEF serverVars
<1>8. Passage(t)'
  BY <1>5, <1>6, <1>7 DEF Passage
<1>9. \A u \in Agents \ {t} : Passage(u)'
  BY <1>6, <1>7 DEF Passage, PassageInv
<1> QED BY <1>8, <1>9 DEF PassageInv

\* The server answers with two writes, after it has read.
LEMMA PassageServer ==
  ASSUME ServerInv, PassageInv, ServerStep \/ Signal
  PROVE  PassageInv'
<1>1. /\ conn \in [Agents -> Connection]
      /\ cur \in Agents <=> srv \in {"read", "head", "body", "close"}
      /\ \A u \in Agents : cur = u <=> conn[u].server = "accepted"
  BY TestAssumption, ServerAssumption DEF ServerInv, ServerTypeOK, OneClientAtATime, Serving
<1>2. ASSUME UNCHANGED conn, srv' \notin {"read", "head", "body", "close"} \/ UNCHANGED <<srv, cur>>
      PROVE  PassageInv'
  BY <1>2 DEF PassageInv, Passage
<1>3. ASSUME Teardown, srv' \notin {"read", "head", "body", "close"}
      PROVE  PassageInv'
  <2> SUFFICES ASSUME NEW u \in Agents PROVE Passage(u)'
    BY DEF PassageInv
  <2>1. conn[u].client = "none" => conn[u].server = "none"
    BY DEF ServerInv
  <2>2. CASE conn[u].server \in {"queued", "accepted"}
    <3> DEFINE c == [conn[u] EXCEPT !.server = "closed", !.reset = TRUE]
    <3>1. conn'[u] = c
      BY <1>3, <2>2, TestAssumption DEF Teardown
    <3>2. /\ c.server = "closed" /\ c.client = conn[u].client
          /\ c.resp = conn[u].resp /\ c.status = conn[u].status
      BY <1>1 DEF Connection
    <3> HIDE DEF c
    <3>3. conn[u].client # "none" /\ (conn[u].resp # 0 => conn[u].status # "none")
      BY <2>1, <2>2 DEF PassageInv, Passage
    <3> QED BY <1>3, <3>1, <3>2, <3>3 DEF Passage
  <2>3. CASE conn[u].server \notin {"queued", "accepted"}
    <3>1. conn'[u] = conn[u]
      BY <1>3, <2>3, TestAssumption DEF Teardown
    <3> QED BY <1>3, <3>1 DEF PassageInv, Passage
  <2> QED BY <2>2, <2>3
<1>4. ASSUME NEW h \in Agents, NEW c \in Connection, conn' = [conn EXCEPT ![h] = c],
             c.client # "none",
             c.server # "queued",
             c.server = "accepted" /\ c.reset => c.client = "closed",
             c.resp # 0 => c.status # "none",
             /\ cur' = h =>
                  /\ srv' = "read" => c.status = "none" /\ c.resp = 0
                  /\ srv' = "head" => c.status # "none" /\ c.resp = 0
                  /\ srv' = "body" => c.status # "none" /\ c.resp = 1
                  /\ srv' = "close" => c.resp = IF c.status = "none" THEN 0 ELSE 2
             /\ cur' \in {h, cur, Nobody},
             cur \in {h, Nobody}
      PROVE  PassageInv'
  <2>1. conn'[h] = c /\ \A u \in Agents \ {h} : conn'[u] = conn[u]
    BY <1>4, OneConnection DEF ServerInv
  <2>2. Passage(h)'
    BY <1>4, <2>1 DEF Passage
  <2>3. ASSUME NEW u \in Agents \ {h} PROVE Passage(u)'
    <3>1. cur' # u
      BY <1>4, ServerAssumption, TestAssumption
    <3> QED BY <2>1, <3>1 DEF Passage, PassageInv
  <2> QED BY <2>2, <2>3 DEF PassageInv
<1>5. CASE Listen \/ BootFails \/ CheckRunning \/ Block
  BY <1>2, <1>5 DEF Listen, BootFails, CheckRunning, Block, netVars
<1>6. CASE ShutDown \/ SigPipe
  BY <1>3, <1>6 DEF ShutDown, SigPipe
<1>7. CASE Signal
  <2>1. CASE srv = "read" /\ srv' = "close" /\ UNCHANGED <<netVars, cur>>
    BY <2>1 DEF PassageInv, Passage, netVars
  <2>2. CASE UNCHANGED netVars /\ (srv' = "killed" \/ UNCHANGED <<srv, cur>>)
    BY <1>2, <2>2 DEF netVars
  <2>3. CASE Teardown /\ srv' = "exited"
    BY <1>3, <2>3
  <2> QED BY <1>7, <2>1, <2>2, <2>3 DEF Signal, serverVars
<1>8. ASSUME Accept \/ AcceptFails PROVE PassageInv'
  <2> DEFINE h == Head(backlog)
  <2>1. /\ h \in Agents /\ conn[h].server = "queued" /\ cur = Nobody
        /\ conn[h] \in Connection
    <3>1. backlog # <<>> /\ backlog \in Seq(Agents) /\ srv \notin Serving
      BY <1>8, TestAssumption DEF Accept, AcceptFails, ServerInv, ServerTypeOK, Serving
    <3>2. h = backlog[1] /\ 1 \in 1 .. Len(backlog) /\ h \in Agents
      BY <3>1
    <3> QED BY <1>1, <3>1, <3>2 DEF ServerInv, ServerTypeOK, OneClientAtATime
  <2> HIDE DEF h
  <2>2. conn[h].client # "none" /\ conn[h].status = "none" /\ conn[h].resp = 0
        /\ (conn[h].reset => conn[h].client = "closed")
    BY <2>1 DEF PassageInv, Passage, NoConnection
  <2>3. CASE Accept
    <3> DEFINE c == [conn[h] EXCEPT !.server = "accepted"]
    <3>1. conn' = [conn EXCEPT ![h].server = "accepted"] /\ cur' = h /\ srv' = "read"
      BY <2>3 DEF Accept, h
    <3>2. conn' = [conn EXCEPT ![h] = c]
      BY <3>1, <1>1, <2>1
    <3>3. /\ c \in Connection /\ c.server = "accepted" /\ c.client = conn[h].client
          /\ c.status = conn[h].status /\ c.resp = conn[h].resp /\ c.reset = conn[h].reset
      BY <2>1 DEF Connection
    <3> HIDE DEF c
    <3> QED BY <1>4, <2>1, <2>2, <3>1, <3>2, <3>3
  <2>4. CASE AcceptFails
    <3> DEFINE c == [conn[h] EXCEPT !.server = "closed", !.reset = TRUE]
    <3>1. /\ conn' = [conn EXCEPT ![h].server = "closed", ![h].reset = TRUE]
          /\ cur' = cur /\ srv' = "check"
      BY <2>4 DEF AcceptFails, h
    <3>2. conn' = [conn EXCEPT ![h] = c]
      BY <3>1, <1>1, <2>1
    <3>3. /\ c \in Connection /\ c.server = "closed" /\ c.client = conn[h].client
          /\ c.status = conn[h].status /\ c.resp = conn[h].resp
      BY <2>1 DEF Connection
    <3> HIDE DEF c
    <3> QED BY <1>4, <2>1, <2>2, <3>1, <3>2, <3>3
  <2> QED BY <1>8, <2>3, <2>4
<1>9. ASSUME Read \/ WriteHead \/ WriteBody \/ Close PROVE PassageInv'
  <2>1. /\ cur \in Agents /\ conn[cur] \in Connection /\ conn[cur].server = "accepted"
        /\ conn[cur].client # "none"
        /\ conn[cur].reset => conn[cur].client = "closed"
        /\ Passage(cur)
    <3>1. srv \in {"read", "head", "body", "close"}
      BY <1>9 DEF Read, WriteHead, WriteBody, Close
    <3>2. cur \in Agents /\ conn[cur] \in Connection /\ conn[cur].server = "accepted"
      BY <1>1, <3>1
    <3> QED BY <3>2 DEF PassageInv, Passage, NoConnection
  <2>2. CASE Read
    <3>1. CASE conn[cur].arrived = 0
      BY <2>2, <3>1, <2>1 DEF Read, PassageInv, Passage
    <3>2. CASE conn[cur].arrived # 0
      <4> DEFINE s == Status(conn[cur].arrived)
                 c == [conn[cur] EXCEPT !.status = s]
      <4>1. conn' = [conn EXCEPT ![cur].status = s] /\ cur' = cur /\ srv = "read" /\ srv' = "head"
        BY <2>2, <3>2 DEF Read
      <4>2. s \in {"notfound", "nobody", "badjson", "chat"}
        BY DEF Status
      <4> HIDE DEF s
      <4>3. conn' = [conn EXCEPT ![cur] = c]
        BY <4>1, <1>1, <2>1
      <4>4. /\ c \in Connection /\ c.server = "accepted" /\ c.client = conn[cur].client
            /\ c.status # "none" /\ c.resp = conn[cur].resp /\ c.reset = conn[cur].reset
        BY <2>1, <4>2 DEF Connection
      <4>5. conn[cur].resp = 0
        BY <4>1, <2>1 DEF Passage
      <4> HIDE DEF c
      <4> QED BY <1>4, <2>1, <4>1, <4>3, <4>4, <4>5
    <3> QED BY <3>1, <3>2
  <2>3. CASE WriteHead
    <3> DEFINE c == [conn[cur] EXCEPT !.resp = 1, !.reset = (conn[cur].client = "closed")]
    <3>1. /\ conn' = [conn EXCEPT ![cur].resp = 1, ![cur].reset = (conn[cur].client = "closed")]
          /\ cur' = cur /\ srv = "head" /\ srv' = "body"
      BY <2>3 DEF WriteHead
    <3>2. conn' = [conn EXCEPT ![cur] = c]
      BY <3>1, <1>1, <2>1
    <3>3. c \in Connection
      BY <2>1, ConnectionUpdates
    <3>4. /\ c.server = "accepted" /\ c.client = conn[cur].client
          /\ c.status = conn[cur].status /\ c.resp = 1
          /\ c.reset => c.client = "closed"
      BY <2>1 DEF Connection
    <3>5. conn[cur].status # "none"
      BY <3>1, <2>1 DEF Passage
    <3> HIDE DEF c
    <3> QED BY <1>4, <2>1, <3>1, <3>2, <3>3, <3>4, <3>5
  <2>4. CASE WriteBody
    <3> DEFINE c == [conn[cur] EXCEPT !.resp = 2]
    <3>1. conn' = [conn EXCEPT ![cur].resp = 2] /\ cur' = cur /\ srv = "body" /\ srv' = "close"
      BY <2>4 DEF WriteBody
    <3>2. conn' = [conn EXCEPT ![cur] = c]
      BY <3>1, <1>1, <2>1
    <3>3. c \in Connection
      BY <2>1, ConnectionUpdates
    <3>4. /\ c.server = "accepted" /\ c.client = conn[cur].client
          /\ c.status = conn[cur].status /\ c.resp = 2 /\ c.reset = conn[cur].reset
      BY <2>1 DEF Connection
    <3>5. conn[cur].status # "none"
      BY <3>1, <2>1 DEF Passage
    <3> HIDE DEF c
    <3> QED BY <1>4, <2>1, <3>1, <3>2, <3>3, <3>4, <3>5
  <2>5. CASE Close
    <3> DEFINE b == conn[cur].reset \/ (conn[cur].sent /\ conn[cur].status # "chat")
               c == [conn[cur] EXCEPT !.server = "closed", !.reset = b]
    <3>1. /\ conn' = [conn EXCEPT ![cur].server = "closed", ![cur].reset =
                        @ \/ (conn[cur].sent /\ conn[cur].status # "chat")]
          /\ cur' = Nobody /\ srv = "close" /\ srv' = "check"
      BY <2>5 DEF Close
    <3>2. conn' = [conn EXCEPT ![cur] = c]
      BY <3>1, <1>1, <2>1
    <3>3. c \in Connection /\ c.server = "closed" /\ c.client = conn[cur].client
          /\ c.status = conn[cur].status /\ c.resp = conn[cur].resp
      BY <2>1 DEF Connection
    <3>4. conn[cur].resp # 0 => conn[cur].status # "none"
      BY <3>1, <2>1 DEF Passage
    <3> HIDE DEF c
    <3> QED BY <1>4, <2>1, <3>1, <3>2, <3>3, <3>4
  <2> QED BY <1>9, <2>2, <2>3, <2>4, <2>5
<1> QED BY <1>5, <1>6, <1>7, <1>8, <1>9 DEF ServerStep

\* Every connection keeps to its way, in every run of the group.
LEMMA PassageInvariant == Spec => []PassageInv
<1>1. Init => PassageInv
  <2> SUFFICES ASSUME Init, NEW t \in Agents PROVE Passage(t)
    BY DEF PassageInv
  <2>1. conn[t] = NoConnection /\ srv = "boot"
    BY TestAssumption DEF Init, ServerInit, NetInit
  <2> QED BY <2>1 DEF Passage, NoConnection
<1>2. ServerInv /\ PassageInv /\ [Next]_vars => PassageInv'
  <2> SUFFICES ASSUME ServerInv, PassageInv, [Next]_vars PROVE PassageInv'
    OBVIOUS
  <2>1. CASE Frame
    BY <2>1 DEF Frame, netVars, serverVars, PassageInv, Passage
  <2>2. ASSUME NEW t \in Agents, UNCHANGED serverVars, ClientCall(t) PROVE PassageInv'
    BY <2>2, PassageClient
  <2> QED BY <2>1, <2>2, PassageServer, NetworkSteps
<1> QED BY <1>1, <1>2, ServerInvariant, PTL DEF Spec

-----------------------------------------------------------------------------
\* What agent_run makes of a response is a reply AgentLite reckons with: the
\* server has dispatched whatever it has answered.
LEMMA ReplyInReplies ==
  ASSUME ServerInv, PassageInv, NEW t \in Agents, NEW n \in Collected(t)
  PROVE  /\ ReplyRead(t, n) \in Replies
         /\ ReplyRead(t, n).kind = "message" => ReplyRead(t, n).calls = ReplyTo(messages[t])
         /\ ReplyRead(t, n).kind # "nomessage"
         /\ n = 2 /\ conn[t].status = "chat" => ReplyRead(t, n).kind = "message"
<1> DEFINE r == ReplyRead(t, n)
           chat == n = 2 /\ conn[t].status = "chat"
<1>1. conn[t] \in Connection /\ (conn[t].resp # 0 => conn[t].status # "none")
  BY TestAssumption DEF ServerInv, ServerTypeOK, PassageInv, Passage
<1>2. n \in 0 .. 2 /\ (n # 0 => conn[t].status # "none")
  <2>1. conn[t].resp \in 0 .. 2
    BY <1>1 DEF Connection
  <2>2. n \in 0 .. conn[t].resp
    BY <2>1 DEF Collected
  <2> QED BY <1>1, <2>1, <2>2
<1>3. conn[t].status \in {"none", "notfound", "nobody", "badjson", "chat"}
  BY <1>1 DEF Connection
<1>4. \E k, cs : r = [kind |-> k, calls |-> cs]
  BY Zenon DEF ReplyRead
<1>5. r.kind = CASE n = 0 -> "null"
                 [] n = 1 \/ conn[t].status = "notfound" -> "garbage"
                 [] n = 2 /\ conn[t].status \in {"nobody", "badjson"} -> "nochoices"
                 [] n = 2 /\ conn[t].status = "chat" -> "message"
  BY DEF ReplyRead
<1>6. r.calls = IF chat THEN ReplyTo(messages[t]) ELSE <<>>
  BY DEF ReplyRead
<1>7. ReplyTo(messages[t]) \in {<<>>, <<BashCall>>}
  <2>1. ReplyTo(messages[t]) = <<>> \/ ReplyTo(messages[t]) = <<BashCall>>
    BY Zenon DEF ReplyTo
  <2> QED BY <2>1, Zenon
<1>8. CASE chat
  <2>1. r.kind = "message" /\ r.calls \in {<<>>, <<BashCall>>}
    <3> HIDE DEF r
    <3> QED BY <1>5, <1>6, <1>7, <1>8
  <2>2. r \in [kind : {"message"}, calls : {<<>>, <<BashCall>>}]
    <3> HIDE DEF r
    <3> QED BY <1>4, <2>1
  <2> QED BY <1>6, <1>8, <2>1, <2>2, TestAssumption
<1>9. CASE ~ chat
  <2>1. r.kind \in {"null", "garbage", "nochoices"} /\ r.calls = <<>>
    <3> HIDE DEF r
    <3> QED BY <1>2, <1>3, <1>5, <1>6, <1>9
  <2>2. r \in [kind : Unusable, calls : {<<>>}]
    <3> HIDE DEF r
    <3> QED BY <1>4, <2>1 DEF Unusable
  <2> QED BY <1>9, <2>1, <2>2, TestAssumption
<1> QED BY <1>8, <1>9

\* The agents of the group are AgentLite's: whatever the server, the network
\* and the script do, each of their steps is one of agent_lite or leaves it
\* alone.  What is proved of AgentLite holds of the group.
THEOREM GroupRunsAgents == Spec => AgentSpec
<1>1. Init => AgentInit
  BY DEF Init
<1>2. ServerInv /\ PassageInv /\ [Next]_vars => [AgentNext]_agentVars
  <2> SUFFICES ASSUME ServerInv, PassageInv, [Next]_vars PROVE [AgentNext]_agentVars
    OBVIOUS
  <2>1. CASE UNCHANGED vars
    BY <2>1 DEF vars
  <2>2. ASSUME NEW t \in Agents, Compute(t) PROVE AgentNext
    BY <2>2 DEF Compute, AgentNext, AgentStep
  <2>3. ASSUME NEW t \in Agents, ConnectRefused(t) PROVE AgentNext
    <3>1. [kind |-> "null", calls |-> <<>>] \in Replies
      BY TestAssumption DEF Unusable
    <3> QED BY <2>3, <3>1 DEF ConnectRefused, AgentNext, AgentStep
  <2>4. ASSUME NEW t \in Agents, Receive(t) PROVE AgentNext
    <3>1. PICK n \in Collected(t) : HandleReply(t, ReplyRead(t, n))
      BY <2>4 DEF Receive
    <3>2. ReplyRead(t, n) \in Replies
      BY ReplyInReplies
    <3> QED BY <3>1, <3>2 DEF AgentNext, AgentStep
  <2>5. ASSUME NEW t \in Agents, FinishTool(t) PROVE AgentNext
    <3>1. \E x \in {"output", "error"} : ExecuteTool(t, x)
      BY <2>5 DEF FinishTool
    <3> QED BY <3>1 DEF AgentNext, AgentStep
  <2>6. ASSUME NEW t \in Agents, Timeout(t) PROVE AgentNext
    BY <2>6 DEF Timeout, AgentNext
  <2>7. ASSUME NEW t \in Agents,
               \/ Connect(t) \/ Send(t) \/ StartShell(t) \/ Validate(t)
               \/ Shell(t) \/ Deliver(t)
        PROVE  UNCHANGED agentVars
    BY <2>7 DEF Connect, Send, StartShell, Validate, Shell, ShellWrites, ShellEnds,
                ShellFails, Deliver
  <2>8. CASE Serve \/ Script
    BY <2>8 DEF Serve, Script, Wait, Cleanup, KillServer
  <2> QED BY <2>1, <2>2, <2>3, <2>4, <2>5, <2>6, <2>7, <2>8 DEF Next, Work
<1> QED BY <1>1, <1>2, ServerInvariant, PassageInvariant, PTL DEF Spec, AgentSpec

\* What is proved of AgentLite holds of the agents of the group: in the requests
\* this server is sent every named call is answered, in order, and the steps
\* count the turns.
THEOREM GroupConversations == Spec => [](NothingLeftOpen /\ AnsweredInOrder /\ StepsCountTurns)
BY GroupRunsAgents, AgentNothingLeftOpen, AgentAnswersInOrder, AgentStepsCountTurns, PTL

-----------------------------------------------------------------------------
\* The conversation of a test, stage by stage: prompt, call, output, last text.
Asked(t) == <<SystemMessage, UserMessage(t)>>
Called(t) == Append(Asked(t), AssistantMessage(<<BashCall>>))
Answered(t, x) == Append(Called(t), ToolMessage("call_bash", x))

Runs(x) == IF x = "output" THEN 1 ELSE 0

\* Where the process stands after s - 1 posts, or ended without success.
At(t, s) ==
  \/ pc[t] = "loop" /\ step[t] = s - 1 /\ code[t] = "none"
  \/ pc[t] = "post" /\ step[t] = s /\ code[t] = "none"
  \/ pc[t] = "exited" /\ step[t] \in {s - 1, s} /\ code[t] \in {"failed", "killed"}

AskedStage(t) ==
  /\ messages[t] = Asked(t) /\ calls[t] = <<>> /\ i[t] = 1
  /\ shell[t] = "none" /\ ran[t] = 0
  /\ At(t, 1)

CalledStage(t) ==
  /\ t \in Matched
  /\ messages[t] = Called(t) /\ calls[t] = <<BashCall>> /\ i[t] = 1 /\ step[t] = 1
  /\ \/ pc[t] = "tools" /\ code[t] = "none" /\ ran[t] = IF shell[t] = "ended" THEN 1 ELSE 0
     \/ /\ pc[t] = "exited" /\ code[t] = "killed" /\ ran[t] \in {0, 1}
        /\ shell[t] \in {"running", "writing"} => ran[t] = 0
        /\ shell[t] # "none" => ~ KillsGroup

AnsweredStage(t, x) ==
  /\ t \in Matched
  /\ messages[t] = Answered(t, x) /\ calls[t] = <<BashCall>> /\ i[t] = 2
  /\ shell[t] = "none" /\ ran[t] = Runs(x)
  /\ At(t, 2) \/ (pc[t] = "tools" /\ step[t] = 1 /\ code[t] = "none")

ClosedStage(t) ==
  /\ calls[t] = <<>> /\ i[t] = 1 /\ step[t] \in {1, 2}
  /\ pc[t] = "exited" /\ code[t] = "ok"
  /\ shell[t] = "none"
  /\ \/ /\ t \notin Matched /\ ran[t] = 0
        /\ messages[t] = Append(Asked(t), AssistantMessage(<<>>))
     \/ /\ t \in Matched
        /\ \E x \in {"output", "error"} :
             /\ ran[t] = Runs(x)
             /\ messages[t] = Append(Answered(t, x), AssistantMessage(<<>>))

Talk(t) ==
  \/ AskedStage(t)
  \/ CalledStage(t)
  \/ \E x \in {"output", "error"} : AnsweredStage(t, x)
  \/ ClosedStage(t)

TalkInv ==
  /\ shell \in [Agents -> {"none", "running", "writing", "ended", "failed"}]
  /\ ran \in [Agents -> {0, 1}]
  /\ \A t \in Agents : Talk(t)

-----------------------------------------------------------------------------
\* Appending a message.
LEMMA AppendMessage ==
  ASSUME NEW msgs \in Seq(MessageSet), NEW m \in MessageSet
  PROVE  /\ Append(msgs, m) \in Seq(MessageSet)
         /\ Len(Append(msgs, m)) = Len(msgs) + 1
         /\ Append(msgs, m)[Len(msgs) + 1] = m
         /\ \A k \in 1 .. Len(msgs) : Append(msgs, m)[k] = msgs[k]
OBVIOUS

\* How the server answers a conversation by its last message.
LEMMA ReplyToLast ==
  ASSUME NEW msgs, NEW n, Len(msgs) = n
  PROVE  /\ msgs[n].role = "tool" => ReplyTo(msgs) = <<>>
         /\ msgs[n].role # "tool" =>
              ReplyTo(msgs) = IF msgs[n].text \in Matched THEN <<BashCall>> ELSE <<>>
BY Zenon DEF ReplyTo

\* The stages differ in their lengths, and the server answers by the last
\* message.
LEMMA Stages ==
  ASSUME NEW t \in Agents, NEW x \in {"output", "error"}
  PROVE  /\ Len(Asked(t)) = 2 /\ Len(Called(t)) = 3 /\ Len(Answered(t, x)) = 4
         /\ Len(Append(Asked(t), AssistantMessage(<<>>))) = 3
         /\ Len(Append(Answered(t, x), AssistantMessage(<<>>))) = 5
         /\ ReplyTo(Asked(t)) = IF t \in Matched THEN <<BashCall>> ELSE <<>>
         /\ ReplyTo(Answered(t, x)) = <<>>
         /\ Asked(t) \in Seq(MessageSet) /\ Called(t) \in Seq(MessageSet)
         /\ Answered(t, x) \in Seq(MessageSet)
         /\ AssistantMessage(<<>>) \in MessageSet /\ AssistantMessage(<<BashCall>>) \in MessageSet
         /\ ToolMessage("call_bash", x) \in MessageSet
         /\ Answered(t, x)[4] = ToolMessage("call_bash", x)
<1>1. Asked(t) \in Seq(MessageSet) /\ Len(Asked(t)) = 2 /\ Asked(t)[2] = UserMessage(t)
  BY MessageType DEF Asked
<1>2. BashCall \in Calls
  <2>1. [kind |-> "message", calls |-> <<BashCall>>] \in Replies
    BY TestAssumption
  <2>2. <<BashCall>> \in Seq(Calls)
    BY <2>1, ReplyType
  <2>3. <<BashCall>>[1] \in Calls
    BY <2>2
  <2> QED BY <2>3
<1>3. AssistantMessage(<<BashCall>>) \in MessageSet /\ AssistantMessage(<<>>) \in MessageSet
  <2>1. <<BashCall>> \in Seq(Calls) /\ <<>> \in Seq(Calls)
    BY <1>2
  <2> QED BY <2>1, MessageType, Zenon
<1>4. ToolMessage("call_bash", x) \in MessageSet
  <2>1. BashCall.id \in Ids \cup {"none"} /\ BashCall.id = "call_bash"
    BY <1>2 DEF Calls, BashCall
  <2> QED BY <2>1 DEF ToolMessage, Message, MessageSet
<1>5. Called(t) \in Seq(MessageSet) /\ Len(Called(t)) = 3
  <2>1. Called(t) \in Seq(MessageSet) /\ Len(Called(t)) = Len(Asked(t)) + 1
    BY <1>1, <1>3, AppendMessage, Zenon DEF Called
  <2> QED BY <1>1, <2>1
<1>6. /\ Answered(t, x) \in Seq(MessageSet) /\ Len(Answered(t, x)) = 4
      /\ Answered(t, x)[4] = ToolMessage("call_bash", x)
  <2>1. /\ Answered(t, x) \in Seq(MessageSet) /\ Len(Answered(t, x)) = Len(Called(t)) + 1
        /\ Answered(t, x)[Len(Called(t)) + 1] = ToolMessage("call_bash", x)
    BY <1>4, <1>5, AppendMessage, Zenon DEF Answered
  <2>2. Len(Called(t)) + 1 = 4
    BY <1>5
  <2> QED BY <2>1, <2>2, Zenon
<1>7. /\ Len(Append(Asked(t), AssistantMessage(<<>>))) = 3
      /\ Len(Append(Answered(t, x), AssistantMessage(<<>>))) = 5
  <2>1. /\ Len(Append(Asked(t), AssistantMessage(<<>>))) = Len(Asked(t)) + 1
        /\ Len(Append(Answered(t, x), AssistantMessage(<<>>))) = Len(Answered(t, x)) + 1
    BY <1>1, <1>3, <1>6, AppendMessage, Zenon
  <2> QED BY <1>1, <1>6, <2>1
<1>8. ReplyTo(Asked(t)) = IF t \in Matched THEN <<BashCall>> ELSE <<>>
  <2>1. Asked(t)[2].role = "user" /\ Asked(t)[2].text = t
    BY <1>1 DEF UserMessage, Message
  <2>2. Asked(t)[2].role # "tool"
    BY <2>1
  <2>3. ReplyTo(Asked(t)) = IF Asked(t)[2].text \in Matched THEN <<BashCall>> ELSE <<>>
    BY <1>1, <2>2, ReplyToLast, Zenon
  <2> QED BY <2>1, <2>3, Zenon
<1>9. ReplyTo(Answered(t, x)) = <<>>
  <2>1. Answered(t, x)[4].role = "tool"
    BY <1>6 DEF ToolMessage, Message
  <2> QED BY <1>6, <2>1, ReplyToLast
<1> QED BY <1>1, <1>3, <1>4, <1>5, <1>6, <1>7, <1>8, <1>9

\* A test in whose process and shell nothing happens stays where it is.
Still(u) ==
  /\ pc'[u] = pc[u] /\ step'[u] = step[u] /\ messages'[u] = messages[u]
  /\ calls'[u] = calls[u] /\ i'[u] = i[u] /\ code'[u] = code[u]
  /\ shell'[u] = shell[u] /\ ran'[u] = ran[u]

LEMMA StillTalks == ASSUME NEW u \in Agents, Talk(u), Still(u) PROVE Talk(u)'
<1> USE DEF Still
<1>1. At(u, 1) = At(u, 1)' /\ At(u, 2) = At(u, 2)'
  BY DEF At
<1>2. AskedStage(u) => AskedStage(u)'
  BY <1>1 DEF AskedStage
<1>3. CalledStage(u) => CalledStage(u)'
  BY DEF CalledStage
<1>4. ASSUME NEW x \in {"output", "error"}, AnsweredStage(u, x) PROVE AnsweredStage(u, x)'
  BY <1>1, <1>4 DEF AnsweredStage
<1>5. ClosedStage(u) => ClosedStage(u)'
  BY DEF ClosedStage
<1> QED BY <1>2, <1>3, <1>4, <1>5 DEF Talk

\* Where a process can be, and with which conversation, before it steps.
LEMMA Places ==
  ASSUME TalkInv, NEW t \in Agents
  PROVE  /\ pc[t] = "loop" =>
               \/ AskedStage(t) /\ step[t] = 0
               \/ step[t] = 1 /\ \E x \in {"output", "error"} : AnsweredStage(t, x)
         /\ pc[t] = "post" =>
               \/ AskedStage(t) /\ step[t] = 1
               \/ step[t] = 2 /\ \E x \in {"output", "error"} : AnsweredStage(t, x)
         /\ pc[t] = "tools" =>
               \/ CalledStage(t)
               \/ \E x \in {"output", "error"} : AnsweredStage(t, x)
         /\ shell[t] # "none" => CalledStage(t)
         /\ pc[t] # "exited" => code[t] = "none"
<1>1. Talk(t)
  BY DEF TalkInv
<1>2. CASE AskedStage(t)
  BY <1>2 DEF AskedStage, At
<1>3. CASE CalledStage(t)
  BY <1>3 DEF CalledStage
<1>4. ASSUME NEW x \in {"output", "error"}, AnsweredStage(t, x) PROVE
            /\ shell[t] = "none"
            /\ pc[t] = "loop" => step[t] = 1
            /\ pc[t] = "post" => step[t] = 2
            /\ pc[t] # "exited" => code[t] = "none"
  BY <1>4 DEF AnsweredStage, At
<1>5. CASE ClosedStage(t)
  BY <1>5 DEF ClosedStage
<1> QED BY <1>1, <1>2, <1>3, <1>4, <1>5 DEF Talk

\* MAX_STEPS does not end a conversation with this server, and it names every
\* call it makes.
LEMMA NoWayOut ==
  ASSUME TypeOK, TalkInv, NEW t \in Agents
  PROVE  ~ ReachMaxSteps(t) /\ ~ SkipCall(t)
<1> USE DEF TypeOK
<1>1. ASSUME ReachMaxSteps(t) PROVE FALSE
  <2>1. pc[t] = "loop" /\ step[t] >= 2
    BY <1>1, TestAssumption, AgentAssumption DEF ReachMaxSteps
  <2>2. step[t] \in {0, 1}
    BY <2>1, Places
  <2> QED BY <2>1, <2>2
<1>2. ASSUME SkipCall(t) PROVE FALSE
  <2>1. pc[t] = "tools" /\ i[t] <= Len(calls[t]) /\ ~ Named(calls[t][i[t]])
    BY <1>2 DEF SkipCall
  <2>2. CalledStage(t) => calls[t] = <<BashCall>> /\ i[t] = 1
    BY DEF CalledStage
  <2>3. \A x \in {"output", "error"} : AnsweredStage(t, x) => calls[t] = <<BashCall>> /\ i[t] = 2
    BY DEF AnsweredStage
  <2>4. Named(BashCall)
    BY DEF Named, BashCall, Nameless
  <2>5. calls[t] = <<BashCall>> /\ i[t] \in {1, 2}
    BY <2>1, <2>2, <2>3, Places
  <2>6. i[t] = 1
    BY <2>1, <2>5
  <2> QED BY <2>1, <2>4, <2>5, <2>6
<1> QED BY <1>1, <1>2

\* Between two calls to the system: the requests, and the end of the calls.
LEMMA ComputeTalks == ASSUME TypeOK, TalkInv, NEW t \in Agents, Compute(t) PROVE Talk(t)'
<1> USE DEF TypeOK
<1>0. shell' = shell /\ ran' = ran
  BY DEF Compute, testVars
<1>1. CASE BuildRequest(t)
  <2>1. /\ pc[t] = "loop" /\ pc'[t] = "post" /\ step'[t] = step[t] + 1
        /\ UNCHANGED <<messages, calls, i, code>>
    BY <1>1 DEF BuildRequest
  <2>2. CASE AskedStage(t) /\ step[t] = 0
    <3>1. At(t, 1)'
      BY <2>1, <2>2, Places DEF At
    <3>2. AskedStage(t)'
      BY <1>0, <2>1, <2>2, <3>1 DEF AskedStage
    <3> QED BY <3>2 DEF Talk
  <2>3. ASSUME step[t] = 1, NEW x \in {"output", "error"}, AnsweredStage(t, x) PROVE Talk(t)'
    <3>1. At(t, 2)'
      BY <2>1, <2>3, Places DEF At
    <3>2. AnsweredStage(t, x)'
      BY <1>0, <2>1, <2>3, <3>1 DEF AnsweredStage
    <3> QED BY <3>2 DEF Talk
  <2> QED BY <2>1, <2>2, <2>3, Places
<1>2. ~ ReachMaxSteps(t) /\ ~ SkipCall(t)
  BY NoWayOut
<1>3. CASE EndOfCalls(t)
  <2>1. /\ pc[t] = "tools" /\ pc'[t] = "loop" /\ i[t] > Len(calls[t])
        /\ UNCHANGED <<step, messages, calls, i, code>>
    BY <1>3 DEF EndOfCalls
  <2>2. ~ CalledStage(t)
    <3>1. ASSUME CalledStage(t) PROVE FALSE
      <4>1. calls[t] = <<BashCall>> /\ i[t] = 1
        BY <3>1 DEF CalledStage
      <4>2. Len(calls[t]) = 1
        BY <4>1
      <4> QED BY <2>1, <4>1, <4>2
    <3> QED BY <3>1
  <2>3. PICK x \in {"output", "error"} : AnsweredStage(t, x)
    BY <2>1, <2>2, Places
  <2>4. step[t] = 1 /\ code[t] = "none"
    BY <2>1, <2>3 DEF AnsweredStage, At
  <2>5. At(t, 2)'
    BY <2>1, <2>4 DEF At
  <2>6. AnsweredStage(t, x)'
    BY <1>0, <2>1, <2>3, <2>5 DEF AnsweredStage
  <2> QED BY <2>6 DEF Talk
<1> QED BY <1>1, <1>2, <1>3 DEF Compute

\* A reply of the server, and none.
LEMMA ReplyTalks ==
  ASSUME TypeOK, TalkInv, NEW t \in Agents, NEW r \in Replies, HandleReply(t, r),
         r.kind # "nomessage",
         r.kind = "message" => r.calls = ReplyTo(messages[t]),
         UNCHANGED <<shell, ran>>
  PROVE  Talk(t)'
<1> USE DEF TypeOK
<1>1. pc[t] = "post"
  BY DEF HandleReply, GiveUp, FinalAnswer, EmptyAnswer, CallTools
<1>2. CASE GiveUp(t, r)
  <2>1. /\ pc'[t] = "exited" /\ code'[t] = "failed"
        /\ UNCHANGED <<step, messages, calls, i>>
    BY <1>2 DEF GiveUp, Exit
  <2>2. CASE AskedStage(t) /\ step[t] = 1
    <3>1. At(t, 1)'
      BY <2>1, <2>2 DEF At
    <3>2. AskedStage(t)'
      BY <2>1, <2>2, <3>1 DEF AskedStage
    <3> QED BY <3>2 DEF Talk
  <2>3. ASSUME step[t] = 2, NEW x \in {"output", "error"}, AnsweredStage(t, x) PROVE Talk(t)'
    <3>1. At(t, 2)'
      BY <2>1, <2>3 DEF At
    <3>2. AnsweredStage(t, x)'
      BY <2>1, <2>3, <3>1 DEF AnsweredStage
    <3> QED BY <3>2 DEF Talk
  <2> QED BY <1>1, <2>2, <2>3, Places
<1>3. CASE FinalAnswer(t, r)
  <2>1. /\ pc'[t] = "exited" /\ code'[t] = "ok"
        /\ messages'[t] = Append(messages[t], AssistantMessage(<<>>))
        /\ calls'[t] = <<>> /\ i'[t] = 1 /\ step' = step
        /\ ReplyTo(messages[t]) = <<>>
    BY <1>3 DEF FinalAnswer, Exit
  <2>2. CASE AskedStage(t) /\ step[t] = 1
    <3>1. messages[t] = Asked(t) /\ shell[t] = "none" /\ ran[t] = 0
      BY <2>2 DEF AskedStage
    <3>2. t \notin Matched
      <4>1. <<BashCall>> # <<>>
        OBVIOUS
      <4>2. ReplyTo(Asked(t)) = IF t \in Matched THEN <<BashCall>> ELSE <<>>
        BY Stages
      <4> QED BY <2>1, <3>1, <4>1, <4>2
    <3>3. ClosedStage(t)'
      BY <2>1, <2>2, <3>1, <3>2 DEF ClosedStage
    <3> QED BY <3>3 DEF Talk
  <2>3. ASSUME step[t] = 2, NEW x \in {"output", "error"}, AnsweredStage(t, x) PROVE Talk(t)'
    <3>1. t \in Matched /\ messages[t] = Answered(t, x) /\ shell[t] = "none" /\ ran[t] = Runs(x)
      BY <2>3 DEF AnsweredStage
    <3>2. ClosedStage(t)'
      BY <2>1, <2>3, <3>1 DEF ClosedStage
    <3> QED BY <3>2 DEF Talk
  <2> QED BY <1>1, <2>2, <2>3, Places
<1>4. CASE CallTools(t, r)
  <2>1. /\ pc'[t] = "tools" /\ code' = code
        /\ messages'[t] = Append(messages[t], AssistantMessage(ReplyTo(messages[t])))
        /\ calls'[t] = ReplyTo(messages[t]) /\ i'[t] = 1 /\ step' = step
        /\ ReplyTo(messages[t]) # <<>>
    BY <1>4 DEF CallTools
  <2>2. CASE AskedStage(t) /\ step[t] = 1
    <3>1. messages[t] = Asked(t) /\ shell[t] = "none" /\ ran[t] = 0
      BY <2>2 DEF AskedStage
    <3>2. t \in Matched /\ ReplyTo(messages[t]) = <<BashCall>>
      <4>1. ReplyTo(Asked(t)) = IF t \in Matched THEN <<BashCall>> ELSE <<>>
        BY Stages
      <4> QED BY <2>1, <3>1, <4>1
    <3>3. code[t] = "none"
      BY <1>1, Places
    <3>4. messages'[t] = Called(t)
      BY <2>1, <3>1, <3>2 DEF Called
    <3>5. CalledStage(t)'
      BY <2>1, <2>2, <3>1, <3>2, <3>3, <3>4 DEF CalledStage
    <3> QED BY <3>5 DEF Talk
  <2>3. ASSUME NEW x \in {"output", "error"}, AnsweredStage(t, x) PROVE FALSE
    <3>1. messages[t] = Answered(t, x)
      BY <2>3 DEF AnsweredStage
    <3> QED BY <2>1, <3>1, Stages
  <2> QED BY <1>1, <2>2, <2>3, Places
<1>5. ~ EmptyAnswer(t, r)
  BY DEF EmptyAnswer
<1> QED BY <1>2, <1>3, <1>4, <1>5 DEF HandleReply

\* popen, its shell and pclose, and timeout's signal.
LEMMA ToolTalks ==
  ASSUME TypeOK, TalkInv, NEW t \in Agents,
         StartShell(t) \/ Shell(t) \/ FinishTool(t) \/ Timeout(t)
  PROVE  Talk(t)' /\ shell' \in [Agents -> {"none", "running", "writing", "ended", "failed"}]
                  /\ ran' \in [Agents -> {0, 1}]
<1> USE DEF TypeOK
<1>1. /\ shell \in [Agents -> {"none", "running", "writing", "ended", "failed"}]
      /\ ran \in [Agents -> {0, 1}]
  BY DEF TalkInv
<1>2. CASE StartShell(t)
  <2>1. /\ pc[t] = "tools" /\ i[t] <= Len(calls[t]) /\ shell[t] = "none"
        /\ shell' = [shell EXCEPT ![t] = "running"] /\ shell'[t] = "running"
        /\ UNCHANGED <<pc, step, messages, calls, i, code, ran>>
    BY <1>1, <1>2 DEF StartShell, agentVars
  <2>2. CalledStage(t)
    <3>1. Len(<<BashCall>>) = 1
      OBVIOUS
    <3>2. ASSUME NEW x \in {"output", "error"}, AnsweredStage(t, x) PROVE FALSE
      <4>1. calls[t] = <<BashCall>> /\ i[t] = 2
        BY <3>2 DEF AnsweredStage
      <4> QED BY <2>1, <3>1, <4>1
    <3> QED BY <2>1, <3>2, Places
  <2>3. CalledStage(t)'
    BY <2>1, <2>2 DEF CalledStage
  <2> QED BY <1>1, <2>1, <2>3 DEF Talk
<1>3. CASE Shell(t)
  <2>1. CalledStage(t)
    <3>1. shell[t] # "none"
      BY <1>3 DEF Shell, ShellWrites, ShellEnds, ShellFails
    <3> QED BY <3>1, Places
  <2>2. UNCHANGED <<pc, step, messages, calls, i, code>>
    BY <1>3 DEF Shell, ShellWrites, ShellEnds, ShellFails, agentVars
  <2>3. CASE ShellWrites(t)
    <3>1. /\ shell[t] = "running" /\ shell' = [shell EXCEPT ![t] = "writing"]
          /\ shell'[t] = "writing" /\ ran' = ran
      BY <1>1, <2>3 DEF ShellWrites
    <3>2. CalledStage(t)'
      BY <2>1, <2>2, <3>1 DEF CalledStage
    <3> QED BY <1>1, <3>1, <3>2 DEF Talk
  <2>4. CASE ShellEnds(t)
    <3>1. /\ shell[t] \in {"running", "writing"} /\ shell' = [shell EXCEPT ![t] = "ended"]
          /\ shell'[t] = "ended" /\ ran' = [ran EXCEPT ![t] = @ + 1]
      BY <1>1, <2>4 DEF ShellEnds
    <3>2. ran[t] = 0
      BY <2>1, <3>1 DEF CalledStage
    <3>3. ran' \in [Agents -> {0, 1}] /\ ran'[t] = 1
      BY <1>1, <3>1, <3>2
    <3>4. CalledStage(t)'
      BY <2>1, <2>2, <3>1, <3>3 DEF CalledStage
    <3> QED BY <1>1, <3>1, <3>3, <3>4 DEF Talk
  <2>5. CASE ShellFails(t)
    <3>1. /\ shell[t] \in {"running", "writing"} /\ shell' = [shell EXCEPT ![t] = "failed"]
          /\ shell'[t] = "failed" /\ ran' = ran
      BY <1>1, <2>5 DEF ShellFails
    <3>2. CalledStage(t)'
      BY <2>1, <2>2, <3>1 DEF CalledStage
    <3> QED BY <1>1, <3>1, <3>2 DEF Talk
  <2> QED BY <1>3, <2>3, <2>4, <2>5 DEF Shell
<1>4. CASE FinishTool(t)
  <2>0. PICK x \in {"output", "error"} : x = IF shell[t] = "ended" THEN "output" ELSE "error"
    OBVIOUS
  <2>1. /\ shell[t] \in {"ended", "failed"} /\ shell' = [shell EXCEPT ![t] = "none"]
        /\ shell'[t] = "none" /\ ran' = ran
    BY <1>1, <1>4 DEF FinishTool
  <2>2. CalledStage(t)
    BY <2>1, Places
  <2>3. calls[t] = <<BashCall>> /\ i[t] = 1 /\ messages[t] = Called(t) /\ step[t] = 1 /\ t \in Matched
    BY <2>2 DEF CalledStage
  <2>4. calls[t][i[t]].id = "call_bash"
    BY <2>3 DEF BashCall
  <2>5. /\ pc[t] = "tools" /\ i'[t] = i[t] + 1
        /\ messages'[t] = Append(messages[t], ToolMessage(calls[t][i[t]].id, x))
        /\ UNCHANGED <<pc, step, calls, code>>
    BY <1>4, <2>0 DEF FinishTool, ExecuteTool
  <2>6. messages'[t] = Answered(t, x)
    BY <2>3, <2>4, <2>5 DEF Answered
  <2>7. code[t] = "none" /\ ran[t] = Runs(x)
    BY <2>0, <2>1, <2>2, <2>5 DEF CalledStage, Runs
  <2>8. AnsweredStage(t, x)'
    BY <2>1, <2>3, <2>5, <2>6, <2>7 DEF AnsweredStage
  <2> QED BY <1>1, <2>1, <2>8 DEF Talk
<1>5. CASE Timeout(t)
  <2>1. /\ pc[t] # "exited" /\ pc'[t] = "exited" /\ code'[t] = "killed"
        /\ UNCHANGED <<step, messages, calls, i, ran>>
    BY <1>5 DEF Timeout, Killed, Exit
  <2>2. shell' = IF KillsGroup THEN [shell EXCEPT ![t] = "none"] ELSE shell
    BY <1>5 DEF Timeout
  <2>3. shell' \in [Agents -> {"none", "running", "writing", "ended", "failed"}]
        /\ shell'[t] = IF KillsGroup THEN "none" ELSE shell[t]
    BY <1>1, <2>2
  <2>4. ASSUME AskedStage(t) PROVE Talk(t)'
    <3>1. At(t, 1)'
      BY <2>1, <2>4 DEF AskedStage, At
    <3>2. AskedStage(t)'
      BY <2>1, <2>3, <2>4, <3>1 DEF AskedStage
    <3> QED BY <3>2 DEF Talk
  <2>5. ASSUME CalledStage(t) PROVE Talk(t)'
    <3>1. pc[t] = "tools" /\ ran[t] = IF shell[t] = "ended" THEN 1 ELSE 0
      BY <2>1, <2>5 DEF CalledStage
    <3>2. CalledStage(t)'
      BY <2>1, <2>3, <2>5, <3>1 DEF CalledStage
    <3> QED BY <3>2 DEF Talk
  <2>6. ASSUME NEW x \in {"output", "error"}, AnsweredStage(t, x) PROVE Talk(t)'
    <3>1. At(t, 2)'
      BY <2>1, <2>6 DEF AnsweredStage, At
    <3>2. AnsweredStage(t, x)'
      BY <2>1, <2>3, <2>6, <3>1 DEF AnsweredStage
    <3> QED BY <3>2 DEF Talk
  <2>7. ~ ClosedStage(t)
    BY <2>1 DEF ClosedStage
  <2>8. Talk(t)
    BY DEF TalkInv
  <2>9. Talk(t)'
    <3>1. AskedStage(t) \/ CalledStage(t) \/ \E x \in {"output", "error"} : AnsweredStage(t, x)
      BY <2>7, <2>8 DEF Talk
    <3> QED BY <2>4, <2>5, <2>6, <3>1
  <2> QED BY <1>1, <2>1, <2>3, <2>9
<1> QED BY <1>2, <1>3, <1>4, <1>5

\* Every conversation is in one of its stages, in every run of the group.
LEMMA TalkInvariant == Spec => [](TypeOK /\ TalkInv)
<1>1. Init => TalkInv
  <2> SUFFICES ASSUME Init PROVE TalkInv
    OBVIOUS
  <2>1. shell = [t \in Agents |-> "none"] /\ ran = [t \in Agents |-> 0]
    BY DEF Init
  <2>2. ASSUME NEW t \in Agents PROVE Talk(t)
    <3>1. /\ messages[t] = Asked(t) /\ calls[t] = <<>> /\ i[t] = 1
          /\ pc[t] = "loop" /\ step[t] = 0 /\ code[t] = "none"
      BY DEF Init, AgentInit, Asked
    <3>2. At(t, 1)
      BY <3>1 DEF At
    <3>3. AskedStage(t)
      BY <2>1, <3>1, <3>2 DEF AskedStage
    <3> QED BY <3>3 DEF Talk
  <2> QED BY <2>1, <2>2 DEF TalkInv
<1>2. ServerInv /\ PassageInv /\ TypeOK /\ TalkInv /\ [Next]_vars => TalkInv'
  <2> SUFFICES ASSUME ServerInv, PassageInv, TypeOK, TalkInv, [Next]_vars
               PROVE  TalkInv'
    OBVIOUS
  <2>1. /\ shell \in [Agents -> {"none", "running", "writing", "ended", "failed"}]
        /\ ran \in [Agents -> {0, 1}]
        /\ \A u \in Agents : Talk(u)
    BY DEF TalkInv
  <2>2. ASSUME UNCHANGED <<agentVars, shell, ran>> PROVE TalkInv'
    BY <2>1, <2>2, StillTalks DEF TalkInv, Still, agentVars
  <2>3. ASSUME NEW t \in Agents, Talk(t)', \A u \in Agents \ {t} : Still(u),
               shell' \in [Agents -> {"none", "running", "writing", "ended", "failed"}],
               ran' \in [Agents -> {0, 1}]
        PROVE  TalkInv'
    BY <2>1, <2>3, StillTalks DEF TalkInv
  <2>4. ASSUME NEW t \in Agents, Compute(t) PROVE TalkInv'
    <3>1. \A u \in Agents \ {t} : Still(u)
      BY <2>4 DEF Compute, BuildRequest, ReachMaxSteps, SkipCall, EndOfCalls, Exit, Still,
                  TypeOK, testVars
    <3>2. UNCHANGED <<shell, ran>>
      BY <2>4 DEF Compute, testVars
    <3> QED BY <2>1, <2>3, <2>4, <3>1, <3>2, ComputeTalks
  <2>5. ASSUME NEW t \in Agents, NEW r \in Replies, HandleReply(t, r), UNCHANGED <<shell, ran>>
        PROVE  \A u \in Agents \ {t} : Still(u)
    BY <2>5 DEF HandleReply, GiveUp, FinalAnswer, EmptyAnswer, CallTools, Exit, Still, TypeOK
  <2>6. ASSUME NEW t \in Agents, ConnectRefused(t) PROVE TalkInv'
    <3>1. PICK r \in Replies : HandleReply(t, r) /\ r.kind = "null"
      <4>1. [kind |-> "null", calls |-> <<>>] \in Replies
        BY TestAssumption DEF Unusable
      <4> QED BY <2>6, <4>1 DEF ConnectRefused
    <3>2. UNCHANGED <<shell, ran>>
      BY <2>6 DEF ConnectRefused
    <3>3. Talk(t)'
      BY <3>1, <3>2, ReplyTalks
    <3>4. \A u \in Agents \ {t} : Still(u)
      BY <2>5, <3>1, <3>2
    <3> QED BY <2>1, <2>3, <3>2, <3>3, <3>4
  <2>7. ASSUME NEW t \in Agents, Receive(t) PROVE TalkInv'
    <3>1. PICK n \in Collected(t) : HandleReply(t, ReplyRead(t, n))
      BY <2>7 DEF Receive
    <3>2. UNCHANGED <<shell, ran>>
      BY <2>7 DEF Receive, testVars
    <3>3. /\ ReplyRead(t, n) \in Replies
          /\ ReplyRead(t, n).kind = "message" => ReplyRead(t, n).calls = ReplyTo(messages[t])
          /\ ReplyRead(t, n).kind # "nomessage"
      BY ReplyInReplies
    <3>4. Talk(t)'
      BY <3>1, <3>2, <3>3, ReplyTalks
    <3>5. \A u \in Agents \ {t} : Still(u)
      BY <2>5, <3>1, <3>2, <3>3
    <3> QED BY <2>1, <2>3, <3>2, <3>4, <3>5
  <2>8. ASSUME NEW t \in Agents, StartShell(t) \/ Shell(t) \/ FinishTool(t) \/ Timeout(t)
        PROVE  TalkInv'
    <3>1. \A u \in Agents \ {t} : Still(u)
      <4>1. CASE StartShell(t)
        BY <2>1, <4>1 DEF StartShell, agentVars, Still
      <4>2. CASE Shell(t)
        BY <2>1, <4>2 DEF Shell, ShellWrites, ShellEnds, ShellFails, agentVars, Still
      <4>3. CASE FinishTool(t)
        BY <2>1, <4>3 DEF FinishTool, ExecuteTool, TypeOK, Still
      <4>4. CASE Timeout(t)
        BY <2>1, <4>4 DEF Timeout, Killed, Exit, TypeOK, Still
      <4> QED BY <2>8, <4>1, <4>2, <4>3, <4>4
    <3> QED BY <2>3, <2>8, <3>1, ToolTalks
  <2>9. ASSUME NEW t \in Agents, Connect(t) \/ Send(t) \/ Validate(t) \/ Deliver(t)
        PROVE  TalkInv'
    BY <2>2, <2>9 DEF Connect, Send, Validate, Deliver, testVars
  <2>10. CASE Serve \/ Script
    BY <2>2, <2>10 DEF Serve, Script, Wait, Cleanup, KillServer
  <2>11. CASE UNCHANGED vars
    BY <2>2, <2>11 DEF vars, testVars
  <2> QED BY <2>4, <2>6, <2>7, <2>8, <2>9, <2>10, <2>11 DEF Next, Work
<1> QED BY <1>1, <1>2, GroupRunsAgents, AgentTyping, ServerInvariant, PassageInvariant, PTL DEF Spec

\* The command of a test is completed at most once, however often its agent
\* asks and whatever is killed (is_tool_result, agent_run's order of appending).
THEOREM CommandRunsOnce == Spec => []CommandAtMostOnce
<1>1. TalkInv => CommandAtMostOnce
  <2> SUFFICES ASSUME TalkInv, NEW t \in Agents PROVE ran[t] <= 1 /\ Len(messages[t]) <= 5
    BY DEF CommandAtMostOnce
  <2>1. ran[t] \in {0, 1} /\ Talk(t)
    BY DEF TalkInv
  <2>2. Len(messages[t]) \in {2, 3, 4, 5}
    BY <2>1, Stages DEF Talk, AskedStage, CalledStage, AnsweredStage, ClosedStage
  <2>3. \A n \in {2, 3, 4, 5} : n <= 5
    OBVIOUS
  <2>4. ran[t] <= 1
    BY <2>1
  <2> QED BY <2>2, <2>3, <2>4, Zenon
<1> QED BY <1>1, TalkInvariant, PTL

-----------------------------------------------------------------------------
\* Texts of a conversation that has got one more message.
LEMMA AppendTexts ==
  ASSUME NEW msgs \in Seq(MessageSet), NEW m \in MessageSet, NEW T,
         \A n \in 1 .. Len(msgs) : msgs[n].text \in T, m.text \in T
  PROVE  \A n \in 1 .. Len(Append(msgs, m)) : Append(msgs, m)[n].text \in T
<1> SUFFICES ASSUME NEW n \in 1 .. Len(Append(msgs, m)) PROVE Append(msgs, m)[n].text \in T
  OBVIOUS
<1>1. CASE n = Len(msgs) + 1
  BY <1>1, AppendMessage
<1>2. CASE n # Len(msgs) + 1
  <2>1. n \in 1 .. Len(msgs)
    BY <1>2, AppendMessage
  <2>2. Append(msgs, m)[n] = msgs[n]
    BY <2>1
  <2> QED BY <2>1, <2>2
<1> QED BY <1>1, <1>2

\* The command's output is in a conversation only as the text of its answer.
LEMMA StageTexts ==
  ASSUME NEW t \in Agents, NEW x \in {"output", "error"}
  PROVE  /\ \A n \in 1 .. 3 : Append(Asked(t), AssistantMessage(<<>>))[n].text \in {"none", t}
         /\ \A n \in 1 .. 5 :
              Append(Answered(t, x), AssistantMessage(<<>>))[n].text \in {"none", t, x}
         /\ Append(Answered(t, x), AssistantMessage(<<>>))[4] = ToolMessage("call_bash", x)
<1>1. /\ Asked(t) \in Seq(MessageSet) /\ Called(t) \in Seq(MessageSet)
      /\ Answered(t, x) \in Seq(MessageSet)
      /\ Len(Asked(t)) = 2 /\ Len(Called(t)) = 3 /\ Len(Answered(t, x)) = 4
  BY Stages
<1>2. /\ AssistantMessage(<<>>) \in MessageSet /\ AssistantMessage(<<BashCall>>) \in MessageSet
      /\ ToolMessage("call_bash", x) \in MessageSet
  BY Stages
<1>3. /\ AssistantMessage(<<>>).text = "none" /\ AssistantMessage(<<BashCall>>).text = "none"
      /\ ToolMessage("call_bash", x).text = x
      /\ SystemMessage.text = "none" /\ UserMessage(t).text = t
  BY DEF AssistantMessage, ToolMessage, SystemMessage, UserMessage, Message
<1>4. \A n \in 1 .. Len(Asked(t)) : Asked(t)[n].text \in {"none", t}
  <2>1. Asked(t)[1] = SystemMessage /\ Asked(t)[2] = UserMessage(t)
    BY DEF Asked
  <2> QED BY <1>1, <1>3, <2>1
<1>5. \A n \in 1 .. Len(Append(Asked(t), AssistantMessage(<<>>))) :
        Append(Asked(t), AssistantMessage(<<>>))[n].text \in {"none", t}
  <2>1. AssistantMessage(<<>>).text \in {"none", t}
    BY <1>3
  <2> QED BY <1>1, <1>2, <1>4, <2>1, AppendTexts, Zenon
<1>6. \A n \in 1 .. Len(Called(t)) : Called(t)[n].text \in {"none", t, x}
  <2>1. AssistantMessage(<<BashCall>>).text \in {"none", t, x}
    BY <1>3
  <2>2. \A n \in 1 .. Len(Asked(t)) : Asked(t)[n].text \in {"none", t, x}
    BY <1>4, Zenon
  <2> QED BY <1>1, <1>2, <2>1, <2>2, AppendTexts, Zenon DEF Called
<1>7. \A n \in 1 .. Len(Answered(t, x)) : Answered(t, x)[n].text \in {"none", t, x}
  <2>1. ToolMessage("call_bash", x).text \in {"none", t, x}
    BY <1>3
  <2> QED BY <1>1, <1>2, <1>6, <2>1, AppendTexts, Zenon DEF Answered
<1>8. \A n \in 1 .. Len(Append(Answered(t, x), AssistantMessage(<<>>))) :
        Append(Answered(t, x), AssistantMessage(<<>>))[n].text \in {"none", t, x}
  <2>1. AssistantMessage(<<>>).text \in {"none", t, x}
    BY <1>3
  <2> QED BY <1>1, <1>2, <1>7, <2>1, AppendTexts, Zenon
<1>9. Append(Answered(t, x), AssistantMessage(<<>>))[4] = ToolMessage("call_bash", x)
  <2>1. Append(Answered(t, x), AssistantMessage(<<>>))[4] = Answered(t, x)[4]
    <3>1. 4 \in 1 .. Len(Answered(t, x))
      BY <1>1
    <3> QED BY <1>1, <1>2, <3>1, AppendMessage, Zenon
  <2>2. Answered(t, x)[4] = ToolMessage("call_bash", x)
    BY Stages
  <2> QED BY <2>1, <2>2
<1>10. /\ Len(Append(Asked(t), AssistantMessage(<<>>))) = 3
       /\ Len(Append(Answered(t, x), AssistantMessage(<<>>))) = 5
  BY Stages
<1> QED BY <1>5, <1>8, <1>9, <1>10

\* A success whose conversation shows the output has run its command.
LEMMA OutputMeansRan ==
  ASSUME NEW t \in Agents, ClosedStage(t),
         NEW n \in 1 .. Len(messages[t]), messages[t][n].text = "output"
  PROVE  ran[t] = 1
<1>1. CASE messages[t] = Append(Asked(t), AssistantMessage(<<>>))
  <2>1. n \in 1 .. 3
    BY <1>1, Stages
  <2>2. messages[t][n].text \in {"none", t}
    BY <1>1, <2>1, StageTexts
  <2> QED BY <2>2, TestAssumption
<1>2. ASSUME NEW x \in {"output", "error"}, ran[t] = Runs(x),
             messages[t] = Append(Answered(t, x), AssistantMessage(<<>>))
      PROVE  ran[t] = 1
  <2>1. n \in 1 .. 5
    BY <1>2, Stages
  <2>2. messages[t][n].text \in {"none", t, x}
    BY <1>2, <2>1, StageTexts
  <2>3. x = "output"
    BY <2>2, TestAssumption
  <2> QED BY <1>2, <2>3 DEF Runs
<1> QED BY <1>1, <1>2 DEF ClosedStage

\* The files of a test, and what was reported of it.
FileOf(t) ==
  /\ file[t] = "good" => ran[t] = 1 \/ t \in leftover
  /\ script = "wait" /\ t \in Writers /\ ran[t] = 1 => file[t] = "good"
  /\ script \in {"kill", "end"} /\ file[t] # "absent" =>
       code[t] = "killed" /\ ~ KillsGroup /\ t \in Writers

ResultOf(t) ==
  /\ result[t] # "none" => pc[t] = "exited"
  /\ result[t] = "pass" =>
       /\ code[t] = "ok"
       /\ Checks[t] = "strict" => ran[t] = 1
       /\ Checks[t] = "file" => ran[t] = 1 \/ t \in leftover

FileInv ==
  /\ ReportInv
  /\ script \in {"wait", "clean", "kill", "end"}
  /\ file \in [Agents -> {"absent", "partial", "good"}]
  /\ leftover \in SUBSET Writers
  /\ \A t \in Agents : FileOf(t) /\ ResultOf(t)

\* A process that has ended stays as it has ended.
LEMMA EndIsFinal ==
  ASSUME TypeOK, [AgentNext]_agentVars, NEW t \in Agents, pc[t] = "exited"
  PROVE  pc'[t] = "exited" /\ code'[t] = code[t] /\ messages'[t] = messages[t]
<1> USE DEF TypeOK
<1>1. CASE UNCHANGED agentVars
  BY <1>1 DEF agentVars
<1>2. ASSUME NEW a \in Agents, AgentStep(a) \/ Killed(a)
      PROVE  pc'[t] = "exited" /\ code'[t] = code[t] /\ messages'[t] = messages[t]
  <2>1. CASE a = t
    BY <1>2, <2>1 DEF AgentStep, BuildRequest, ReachMaxSteps, HandleReply, GiveUp, FinalAnswer,
                      EmptyAnswer, CallTools, SkipCall, ExecuteTool, EndOfCalls, Killed
  <2>2. CASE a # t
    BY <1>2, <2>2 DEF AgentStep, BuildRequest, ReachMaxSteps, HandleReply, GiveUp, FinalAnswer,
                      EmptyAnswer, CallTools, SkipCall, ExecuteTool, EndOfCalls, Killed, Exit
  <2> QED BY <2>1, <2>2
<1> QED BY <1>1, <1>2 DEF AgentNext

\* How a test has ended, by its exit status.
LEMMA EndedAs ==
  ASSUME TalkInv, NEW t \in Agents
  PROVE  /\ code[t] # "none" => pc[t] = "exited"
         /\ code[t] = "ok" => ClosedStage(t)
         /\ shell[t] # "none" => code[t] \in {"none", "killed"}
         /\ shell[t] # "none" /\ pc[t] = "exited" => code[t] = "killed" /\ ~ KillsGroup
         /\ shell[t] \in {"running", "writing"} => ran[t] = 0
<1>1. Talk(t)
  BY DEF TalkInv
<1>2. CASE AskedStage(t)
  BY <1>2 DEF AskedStage, At
<1>3. CASE CalledStage(t)
  BY <1>3 DEF CalledStage
<1>4. ASSUME NEW x \in {"output", "error"}, AnsweredStage(t, x) PROVE
            /\ code[t] # "none" => pc[t] = "exited"
            /\ code[t] # "ok"
            /\ shell[t] = "none"
  BY <1>4 DEF AnsweredStage, At
<1>5. CASE ClosedStage(t)
  BY <1>5 DEF ClosedStage
<1> QED BY <1>1, <1>2, <1>3, <1>4, <1>5 DEF Talk

\* The files and the report of a test whose command and validation rest.
LEMMA FilesRest ==
  ASSUME TypeOK, TalkInv, FileInv, [AgentNext]_agentVars, NEW u \in Agents,
         file'[u] = file[u], ran'[u] = ran[u], result'[u] = result[u],
         script' = script \/ script' = "clean", leftover' = leftover
  PROVE  FileOf(u)' /\ ResultOf(u)'
<1>1. FileOf(u) /\ ResultOf(u)
  BY DEF FileInv
<1>2. pc[u] = "exited" => pc'[u] = "exited" /\ code'[u] = code[u]
  BY EndIsFinal
<1>3. code[u] # "none" => pc[u] = "exited"
  BY EndedAs
<1>4. FileOf(u)'
  BY <1>1, <1>2, <1>3 DEF FileOf
<1>5. ResultOf(u)'
  BY <1>1, <1>2 DEF ResultOf
<1> QED BY <1>4, <1>5

\* The shell writes the files.
LEMMA ShellFiles ==
  ASSUME TypeOK, TalkInv, FileInv, NEW t \in Agents, Shell(t)
  PROVE  FileOf(t)' /\ ResultOf(t)' /\ file' \in [Agents -> {"absent", "partial", "good"}]
<1>1. /\ FileOf(t) /\ ResultOf(t) /\ file \in [Agents -> {"absent", "partial", "good"}]
      /\ ran \in [Agents -> {0, 1}] /\ script \in {"wait", "clean", "kill", "end"}
      /\ script # "wait" => pc[t] = "exited"
  BY DEF FileInv, TalkInv, ReportInv, ResultOf
<1>2. /\ shell[t] \in {"running", "writing"} /\ ran[t] = 0
      /\ UNCHANGED <<pc, code, script, result, leftover>>
  <2>1. shell[t] \in {"running", "writing"}
    BY DEF Shell, ShellWrites, ShellEnds, ShellFails
  <2>2. UNCHANGED <<pc, code, script, result, leftover>>
    BY DEF Shell, ShellWrites, ShellEnds, ShellFails, agentVars
  <2> QED BY <2>1, <2>2, EndedAs
<1>3. script # "wait" => code[t] = "killed" /\ ~ KillsGroup
  BY <1>1, <1>2, EndedAs
<1>4. code[t] # "ok"
  BY <1>2, EndedAs
<1>5. CASE ShellWrites(t)
  <2>1. t \in Writers /\ file' = [file EXCEPT ![t] = "partial"] /\ ran' = ran
    BY <1>5 DEF ShellWrites
  <2>2. file'[t] = "partial" /\ file' \in [Agents -> {"absent", "partial", "good"}]
    BY <1>1, <2>1
  <2>3. FileOf(t)'
    BY <1>2, <1>3, <2>1, <2>2 DEF FileOf
  <2>4. ResultOf(t)'
    BY <1>1, <1>2, <2>1 DEF ResultOf
  <2> QED BY <2>2, <2>3, <2>4
<1>6. CASE ShellEnds(t)
  <2>1. /\ file' = IF t \in Writers THEN [file EXCEPT ![t] = "good"] ELSE file
        /\ ran' = [ran EXCEPT ![t] = @ + 1]
    BY <1>6 DEF ShellEnds
  <2>2. ran'[t] = 1
    BY <1>1, <1>2, <2>1
  <2>3. /\ file' \in [Agents -> {"absent", "partial", "good"}]
        /\ t \in Writers => file'[t] = "good"
        /\ t \notin Writers => file'[t] = file[t]
    BY <1>1, <2>1
  <2>4. FileOf(t)'
    BY <1>1, <1>2, <1>3, <2>2, <2>3 DEF FileOf
  <2>5. ResultOf(t)'
    BY <1>1, <1>2, <1>4 DEF ResultOf
  <2> QED BY <2>3, <2>4, <2>5
<1>7. CASE ShellFails(t)
  <2>1. UNCHANGED <<file, ran>>
    BY <1>7 DEF ShellFails
  <2>2. FileOf(t)'
    BY <1>1, <1>2, <2>1 DEF FileOf
  <2>3. ResultOf(t)'
    BY <1>1, <1>2, <2>1 DEF ResultOf
  <2> QED BY <1>1, <2>1, <2>2, <2>3
<1> QED BY <1>5, <1>6, <1>7 DEF Shell

\* run_test validates and reports.
LEMMA ValidateFiles ==
  ASSUME TypeOK, TalkInv, FileInv, NEW t \in Agents, Validate(t)
  PROVE  FileOf(t)' /\ ResultOf(t)'
<1>1. /\ FileOf(t) /\ result \in [Agents -> {"none", "pass", "reject"}]
  BY DEF FileInv, ReportInv
<1>2. /\ pc[t] = "exited" /\ UNCHANGED <<pc, code, script, file, ran, leftover>>
      /\ result' = [result EXCEPT ![t] = IF code[t] = "ok" /\ Valid(t) THEN "pass" ELSE "reject"]
  BY DEF Validate, agentVars
<1>3. result'[t] = "pass" => code[t] = "ok" /\ Valid(t)
  BY <1>1, <1>2
<1>4. FileOf(t)'
  BY <1>1, <1>2 DEF FileOf
<1>5. ASSUME code[t] = "ok", Valid(t), Checks[t] = "strict" PROVE ran[t] = 1
  <2>1. ClosedStage(t)
    BY <1>5, EndedAs
  <2>2. \E n \in 1 .. Len(messages[t]) : messages[t][n].text = "output"
    BY <1>5 DEF Valid
  <2> QED BY <2>1, <2>2, OutputMeansRan
<1>6. ASSUME Valid(t), Checks[t] = "file" PROVE ran[t] = 1 \/ t \in leftover
  <2>1. file[t] = "good"
    BY <1>6 DEF Valid
  <2> QED BY <1>1, <2>1 DEF FileOf
<1>7. ResultOf(t)'
  BY <1>2, <1>3, <1>5, <1>6 DEF ResultOf
<1> QED BY <1>4, <1>7

\* Files and reports agree with the exit statuses, in every run of the group.
LEMMA FileInvariant == Spec => []FileInv
<1>1. Init => FileInv
  <2> SUFFICES ASSUME Init PROVE FileInv
    OBVIOUS
  <2>1. /\ script = "wait" /\ result = [t \in Agents |-> "none"]
        /\ leftover \in SUBSET Writers
        /\ file = [t \in Agents |-> IF t \in leftover THEN "good" ELSE "absent"]
        /\ ran = [t \in Agents |-> 0]
    BY DEF Init
  <2>2. ReportInv /\ file \in [Agents -> {"absent", "partial", "good"}]
    BY <2>1 DEF ReportInv
  <2>3. \A t \in Agents : FileOf(t) /\ ResultOf(t)
    BY <2>1 DEF FileOf, ResultOf
  <2> QED BY <2>1, <2>2, <2>3 DEF FileInv
<1>2. /\ TypeOK /\ TalkInv /\ FileInv /\ [AgentNext]_agentVars /\ [Next]_vars
      /\ ReportInv'
      => FileInv'
  <2> SUFFICES ASSUME TypeOK, TalkInv, FileInv, [AgentNext]_agentVars, [Next]_vars, ReportInv'
               PROVE  FileInv'
    OBVIOUS
  <2>1. /\ script \in {"wait", "clean", "kill", "end"}
        /\ file \in [Agents -> {"absent", "partial", "good"}]
        /\ result \in [Agents -> {"none", "pass", "reject"}]
        /\ ran \in [Agents -> {0, 1}]
        /\ leftover \in SUBSET Writers
        /\ script # "wait" => \A u \in Agents : result[u] # "none"
    BY DEF FileInv, ReportInv, TalkInv
  <2>2. ASSUME UNCHANGED <<file, ran, result, leftover>>, script' = script \/ script' = "clean"
        PROVE  FileInv'
    <3>1. \A u \in Agents : FileOf(u)' /\ ResultOf(u)'
      BY <2>2, FilesRest
    <3> QED BY <2>1, <2>2, <3>1 DEF FileInv
  <2>3. ASSUME NEW t \in Agents, FileOf(t)', ResultOf(t)',
               file' \in [Agents -> {"absent", "partial", "good"}],
               \A u \in Agents \ {t} : /\ file'[u] = file[u] /\ ran'[u] = ran[u]
                                       /\ result'[u] = result[u],
               UNCHANGED <<script, leftover>>
        PROVE  FileInv'
    <3>1. \A u \in Agents \ {t} : FileOf(u)' /\ ResultOf(u)'
      BY <2>3, FilesRest
    <3> QED BY <2>1, <2>3, <3>1 DEF FileInv
  <2>4. ASSUME NEW t \in Agents, Shell(t) PROVE FileInv'
    <3>1. \A u \in Agents \ {t} : /\ file'[u] = file[u] /\ ran'[u] = ran[u]
                                  /\ result'[u] = result[u]
      BY <2>1, <2>4 DEF Shell, ShellWrites, ShellEnds, ShellFails
    <3>2. UNCHANGED <<script, leftover>>
      BY <2>4 DEF Shell, ShellWrites, ShellEnds, ShellFails
    <3> QED BY <2>3, <2>4, <3>1, <3>2, ShellFiles
  <2>5. ASSUME NEW t \in Agents, Validate(t) PROVE FileInv'
    <3>1. \A u \in Agents \ {t} : /\ file'[u] = file[u] /\ ran'[u] = ran[u]
                                  /\ result'[u] = result[u]
      BY <2>1, <2>5 DEF Validate
    <3>2. UNCHANGED <<script, leftover, file>>
      BY <2>5 DEF Validate
    <3> QED BY <2>1, <2>3, <2>5, <3>1, <3>2, ValidateFiles
  <2>6. ASSUME NEW t \in Agents, Work(t)
        PROVE  Validate(t) \/ UNCHANGED <<file, ran, result, leftover, script>>
    BY <2>6 DEF Work, Compute, Connect, ConnectRefused, Send, Receive, StartShell, FinishTool,
                testVars
  <2>7. ASSUME NEW t \in Agents, Timeout(t) \/ Deliver(t)
        PROVE  UNCHANGED <<file, ran, result, leftover, script>>
    BY <2>7 DEF Timeout, Deliver, testVars
  <2>8. CASE Serve
    BY <2>2, <2>8 DEF Serve
  <2>9. CASE Wait
    BY <2>2, <2>9 DEF Wait
  <2>10. CASE Cleanup
    <3>1. /\ script = "clean" /\ script' = "kill" /\ file' = [t \in Agents |-> "absent"]
          /\ UNCHANGED <<pc, code, result, ran, leftover>>
      BY <2>10 DEF Cleanup, Absent, agentVars
    <3>2. ASSUME NEW u \in Agents PROVE FileOf(u)' /\ ResultOf(u)'
      <4>1. FileOf(u)'
        BY <3>1 DEF FileOf
      <4>2. ResultOf(u)'
        BY <3>1 DEF ResultOf, FileInv
      <4> QED BY <4>1, <4>2
    <3> QED BY <2>1, <3>1, <3>2 DEF FileInv
  <2>11. CASE KillServer
    <3>1. /\ script = "kill" /\ script' = "end"
          /\ UNCHANGED <<pc, code, file, result, ran, leftover>>
      BY <2>11 DEF KillServer, agentVars
    <3>2. ASSUME NEW u \in Agents PROVE FileOf(u)' /\ ResultOf(u)'
      <4>0. FileOf(u) /\ ResultOf(u)
        BY DEF FileInv
      <4>1. FileOf(u)'
        BY <3>1, <4>0 DEF FileOf
      <4>2. ResultOf(u)'
        BY <3>1, <4>0 DEF ResultOf
      <4> QED BY <4>1, <4>2
    <3> QED BY <2>1, <3>1, <3>2 DEF FileInv
  <2>12. CASE UNCHANGED vars
    BY <2>2, <2>12 DEF vars, testVars
  <2> QED BY <2>2, <2>4, <2>5, <2>6, <2>7, <2>8, <2>9, <2>10, <2>11, <2>12 DEF Next, Script
<1> QED
  BY <1>1, <1>2, ReportInvariant, TalkInvariant, GroupRunsAgents, PTL DEF Spec, AgentSpec

\* The script leaves no test file behind, except through a shell that outlived
\* the agent timeout killed (the script's cleanup after wait, tool_bash's popen).
THEOREM ScriptCleansUp == Spec => []CleanUnlessOrphaned
<1>1. FileInv => CleanUnlessOrphaned
  BY DEF FileInv, FileOf, CleanUnlessOrphaned
<1> QED BY <1>1, FileInvariant, PTL

\* A test that is reported as passed went through the whole exchange with the
\* server, and its command ran if its validation looks at what it did.
THEOREM PassesAreEarned == Spec => []PassIsEarned
<1>1. TalkInv /\ FileInv => PassIsEarned
  <2> SUFFICES ASSUME TalkInv, FileInv, NEW t \in Agents, result[t] = "pass"
               PROVE  /\ messages[t][Len(messages[t])] = AssistantMessage(<<>>)
                      /\ t \in Matched => Len(messages[t]) = 5 /\ messages[t][4].role = "tool"
                      /\ Checks[t] = "strict" => ran[t] = 1
                      /\ Checks[t] = "file" => ran[t] = 1 \/ t \in leftover
    BY DEF PassIsEarned
  <2>1. ResultOf(t)
    BY DEF FileInv
  <2>2. ClosedStage(t)
    BY <2>1, EndedAs DEF ResultOf
  <2>3. CASE t \notin Matched
    <3>1. messages[t] = Append(Asked(t), AssistantMessage(<<>>))
      BY <2>2, <2>3 DEF ClosedStage
    <3>2. messages[t][Len(messages[t])] = AssistantMessage(<<>>)
      <4>1. Asked(t) \in Seq(MessageSet) /\ AssistantMessage(<<>>) \in MessageSet
        BY Stages
      <4> QED BY <3>1, <4>1, AppendMessage
    <3> QED BY <2>1, <2>3, <3>2 DEF ResultOf
  <2>4. ASSUME t \in Matched, NEW x \in {"output", "error"},
               messages[t] = Append(Answered(t, x), AssistantMessage(<<>>))
        PROVE  /\ messages[t][Len(messages[t])] = AssistantMessage(<<>>)
               /\ Len(messages[t]) = 5 /\ messages[t][4].role = "tool"
    <3>1. messages[t][Len(messages[t])] = AssistantMessage(<<>>)
      <4>1. Answered(t, x) \in Seq(MessageSet) /\ AssistantMessage(<<>>) \in MessageSet
        BY Stages
      <4> QED BY <2>4, <4>1, AppendMessage
    <3>2. Len(messages[t]) = 5 /\ messages[t][4] = ToolMessage("call_bash", x)
      BY <2>4, Stages, StageTexts
    <3> QED BY <3>1, <3>2 DEF ToolMessage, Message
  <2>5. t \in Matched => \E x \in {"output", "error"} :
          messages[t] = Append(Answered(t, x), AssistantMessage(<<>>))
    BY <2>2 DEF ClosedStage
  <2> QED BY <2>1, <2>3, <2>4, <2>5 DEF ResultOf
<1> QED BY <1>1, TalkInvariant, FileInvariant, PTL

-----------------------------------------------------------------------------
\* Why a test can fail.
BrokenBy(t) == srv = "broken" /\ \E u \in Agents \ {t} : code[u] = "killed"
Cause(t) == t \in mishap \/ BrokenBy(t)

\* What has become of a test, and why.
Fate(t) ==
  /\ code[t] = "killed" => t \in mishap
  /\ code[t] = "failed" => Cause(t)
  /\ shell[t] = "failed" => t \in mishap
  /\ messages[t] = Answered(t, "error") => t \in mishap
  /\ code[t] = "ok" /\ t \in Matched => ran[t] = 1 \/ t \in mishap
  /\ result[t] = "reject" => Cause(t)

\* What its connection, as long as the client holds it, promises it.
Link(t) ==
  /\ conn[t].client = "closed" => code[t] = "killed"
  /\ conn[t].client = "open" =>
       /\ pc[t] = "post"
       /\ cur = t /\ srv \in {"head", "body", "close"} => conn[t].status = "chat" \/ t \in mishap
       /\ conn[t].server = "closed" =>
            Cause(t) \/ (conn[t].status = "chat" /\ conn[t].resp = 2 /\ ~ conn[t].reset)

CauseInv ==
  /\ mishap \in SUBSET Agents
  /\ ~ keep_running => script = "end"
  /\ \A t \in Agents : Fate(t) /\ Link(t)

\* A cause does not go away.
LEMMA CauseStays ==
  ASSUME TypeOK, TalkInv, ServerInv, [AgentNext]_agentVars, [Next]_vars
  PROVE  /\ mishap \subseteq mishap'
         /\ \A u \in Agents : Cause(u) => Cause(u)'
<1>1. mishap \subseteq mishap'
  <2>1. ASSUME NEW t \in Agents, Work(t) PROVE mishap \subseteq mishap'
    BY <2>1 DEF Work, Compute, Connect, ConnectRefused, Send, Receive, StartShell, FinishTool,
                Validate, testVars, Blame
  <2>2. ASSUME NEW t \in Agents, Shell(t) \/ Timeout(t) \/ Deliver(t)
        PROVE  mishap \subseteq mishap'
    BY <2>2 DEF Shell, ShellWrites, ShellEnds, ShellFails, Timeout, Deliver, testVars, Blame
  <2>3. CASE Serve
    BY <2>3 DEF Serve
  <2>4. CASE Script
    BY <2>4 DEF Script, Wait, Cleanup, KillServer
  <2>5. CASE UNCHANGED vars
    BY <2>5 DEF vars, testVars
  <2> QED BY <2>1, <2>2, <2>3, <2>4, <2>5 DEF Next
<1>2. srv = "broken" => srv' = "broken"
  <2> SUFFICES ASSUME srv = "broken" PROVE srv' = "broken"
    OBVIOUS
  <2>1. CASE Frame
    BY <2>1 DEF Frame, serverVars
  <2>2. ASSUME UNCHANGED serverVars PROVE srv' = "broken"
    BY <2>2 DEF serverVars
  <2>3. ~ ServerStep
    BY DEF ServerStep, Listen, BootFails, CheckRunning, ShutDown, Accept, AcceptFails, Block,
           Read, WriteHead, WriteBody, SigPipe, Close
  <2>4. CASE Signal
    BY <2>4 DEF Signal, Gone, serverVars
  <2> QED BY <2>1, <2>2, <2>3, <2>4, NetworkSteps
<1>3. \A u \in Agents : code[u] = "killed" => code'[u] = "killed"
  BY EndedAs, EndIsFinal
<1>4. ASSUME NEW u \in Agents, BrokenBy(u) PROVE BrokenBy(u)'
  BY <1>2, <1>3, <1>4 DEF BrokenBy
<1> QED BY <1>1, <1>4 DEF Cause

\* A test in which nothing happens keeps its reasons.
LEMMA FateRests ==
  ASSUME NEW u \in Agents, Fate(u), Cause(u) => Cause(u)', u \in mishap => u \in mishap',
         code'[u] = code[u], shell'[u] = shell[u], messages'[u] = messages[u],
         ran'[u] = ran[u], result'[u] = result[u]
  PROVE  Fate(u)'
<1>1. /\ code'[u] = "killed" => u \in mishap'
      /\ shell'[u] = "failed" => u \in mishap'
      /\ messages'[u] = Answered(u, "error") => u \in mishap'
      /\ code'[u] = "ok" /\ u \in Matched => ran'[u] = 1 \/ u \in mishap'
  BY DEF Fate
<1>2. /\ code'[u] = "failed" => Cause(u)'
      /\ result'[u] = "reject" => Cause(u)'
  BY DEF Fate
<1> QED BY <1>1, <1>2 DEF Fate

\* Nothing is asked of a test that was not served.
LEMMA FateBlamed == ASSUME NEW u \in Agents, u \in mishap' PROVE Fate(u)'
BY DEF Fate, Cause

LEMMA LinkRests ==
  ASSUME NEW u \in Agents, Link(u), Cause(u) => Cause(u)', u \in mishap => u \in mishap',
         conn'[u] = conn[u], UNCHANGED <<srv, cur>>,
         (pc'[u] = pc[u] /\ code'[u] = code[u]) \/ conn[u].client = "none"
  PROVE  Link(u)'
<1>1. CASE conn[u].client = "none"
  BY <1>1 DEF Link
<1>2. CASE pc'[u] = pc[u] /\ code'[u] = code[u]
  <2>1. /\ conn'[u].client = "closed" => code'[u] = "killed"
        /\ conn'[u].client = "open" => pc'[u] = "post"
    BY <1>2 DEF Link
  <2>2. conn'[u].client = "open" /\ cur' = u /\ srv' \in {"head", "body", "close"} =>
          conn'[u].status = "chat" \/ u \in mishap'
    BY DEF Link
  <2>3. conn'[u].client = "open" /\ conn'[u].server = "closed" =>
          Cause(u)' \/ (conn'[u].status = "chat" /\ conn'[u].resp = 2 /\ ~ conn'[u].reset)
    BY DEF Link
  <2> QED BY <2>1, <2>2, <2>3 DEF Link
<1> QED BY <1>1, <1>2

\* A test without a post has no connection it could wait for.
LEMMA NoLink ==
  ASSUME TypeOK, ServerTypeOK, TalkInv, NEW t \in Agents, Link(t), pc[t] \in {"loop", "tools"}
  PROVE  conn[t].client = "none"
<1>1. conn[t].client \in {"none", "open", "closed"}
  BY TestAssumption DEF ServerTypeOK, Connection
<1>2. code[t] # "killed"
  BY EndedAs
<1> QED BY <1>1, <1>2 DEF Link

\* The shell, and the output that becomes a tool message.
LEMMA ToolFate ==
  ASSUME TypeOK, TalkInv, NEW t \in Agents, Fate(t), Cause(t) => Cause(t)',
         t \in mishap => t \in mishap', UNCHANGED result,
         StartShell(t) \/ Shell(t) \/ FinishTool(t)
  PROVE  Fate(t)'
<1>1. /\ shell \in [Agents -> {"none", "running", "writing", "ended", "failed"}]
      /\ messages \in [Agents -> Seq(MessageSet)]
  BY DEF TalkInv, TypeOK
<1>2. CASE ShellFails(t)
  BY <1>2, FateBlamed DEF ShellFails, Blame
<1>3. CASE StartShell(t) \/ ShellWrites(t) \/ ShellEnds(t)
  <2>1. UNCHANGED <<code, messages>> /\ shell'[t] # "failed"
    BY <1>1, <1>3 DEF StartShell, ShellWrites, ShellEnds, agentVars
  <2>2. code[t] = "ok" => UNCHANGED ran
    <3>1. CASE StartShell(t) \/ ShellWrites(t)
      BY <3>1 DEF StartShell, ShellWrites
    <3>2. CASE ShellEnds(t)
      <4>1. shell[t] # "none"
        BY <3>2 DEF ShellEnds
      <4> QED BY <4>1, EndedAs
    <3> QED BY <1>3, <3>1, <3>2
  <2>3. /\ code'[t] = "killed" => t \in mishap'
        /\ messages'[t] = Answered(t, "error") => t \in mishap'
        /\ code'[t] = "ok" /\ t \in Matched => ran'[t] = 1 \/ t \in mishap'
    BY <2>1, <2>2 DEF Fate
  <2>4. /\ code'[t] = "failed" => Cause(t)'
        /\ result'[t] = "reject" => Cause(t)'
    BY <2>1 DEF Fate
  <2> QED BY <2>1, <2>3, <2>4 DEF Fate
<1>4. CASE FinishTool(t)
  <2>1. PICK x \in {"output", "error"} : x = IF shell[t] = "ended" THEN "output" ELSE "error"
    OBVIOUS
  <2>2. /\ shell[t] \in {"ended", "failed"} /\ shell'[t] = "none" /\ UNCHANGED <<ran, code>>
        /\ pc[t] = "tools" /\ ExecuteTool(t, x)
    <3>1. ExecuteTool(t, x)
      BY <1>4, <2>1 DEF FinishTool
    <3> QED BY <1>1, <1>4, <3>1 DEF FinishTool, ExecuteTool
  <2>3. code[t] = "none"
    BY <2>2, Places
  <2>4. messages'[t] = Answered(t, x)
    <3>1. messages[t] = Called(t) /\ calls[t] = <<BashCall>> /\ i[t] = 1
      BY <2>2, Places DEF CalledStage
    <3>2. calls[t][i[t]].id = "call_bash"
      BY <3>1 DEF BashCall
    <3>3. messages'[t] = Append(messages[t], ToolMessage(calls[t][i[t]].id, x))
      BY <1>1, <2>2 DEF ExecuteTool
    <3> QED BY <3>1, <3>2, <3>3 DEF Answered
  <2>5. messages'[t] = Answered(t, "error") => x = "error"
    <3>1. Answered(t, x)[4] = ToolMessage("call_bash", x)
      BY Stages
    <3>2. Answered(t, "error")[4] = ToolMessage("call_bash", "error")
      BY Stages
    <3>3. ToolMessage("call_bash", x) = ToolMessage("call_bash", "error") => x = "error"
      <4>1. ToolMessage("call_bash", x).text = x /\ ToolMessage("call_bash", "error").text = "error"
        BY DEF ToolMessage, Message
      <4> QED BY <4>1
    <3> QED BY <2>4, <3>1, <3>2, <3>3
  <2>6. x = "error" => t \in mishap'
    BY <2>1, <2>2 DEF Fate
  <2>7. code'[t] = "none" /\ (result'[t] = "reject" => Cause(t)')
    BY <2>2, <2>3 DEF Fate
  <2> QED BY <2>2, <2>5, <2>6, <2>7 DEF Fate
<1> QED BY <1>2, <1>3, <1>4 DEF Shell

\* An answer, or none: only a response cut short or an error's text is to blame.
LEMMA ReplyFate ==
  ASSUME TypeOK, ServerInv, PassageInv, TalkInv, NEW t \in Agents, Fate(t), Link(t),
         Cause(t) => Cause(t)', t \in mishap => t \in mishap', Receive(t)
  PROVE  Fate(t)'
<1>1. PICK n \in Collected(t) : HandleReply(t, ReplyRead(t, n))
  BY DEF Receive
<1> DEFINE r == ReplyRead(t, n)
<1>2. /\ r \in Replies /\ r.kind # "nomessage"
      /\ r.kind = "message" => r.calls = ReplyTo(messages[t])
      /\ n = 2 /\ conn[t].status = "chat" => r.kind = "message"
  BY ReplyInReplies
<1>3. /\ UNCHANGED <<shell, ran, result>> /\ pc[t] = "post"
      /\ conn[t].client = "open" /\ conn[t].server = "closed"
  BY DEF Receive, testVars
<1>4. Cause(t) \/ (conn[t].status = "chat" /\ conn[t].resp = 2 /\ ~ conn[t].reset)
  BY <1>3 DEF Link
<1>5. Cause(t) \/ r.kind = "message"
  <2>1. ASSUME conn[t].resp = 2, ~ conn[t].reset PROVE n = 2
    BY <2>1 DEF Collected
  <2> QED BY <1>2, <1>4, <2>1
<1>6. HandleReply(t, r)
  BY <1>1
<1> HIDE DEF r
<1>7. code[t] = "none" /\ result'[t] = result[t] /\ (result[t] = "reject" => Cause(t)')
  BY <1>3, Places DEF Fate
<1>8. CASE GiveUp(t, r)
  <2>1. code'[t] = "failed" /\ messages' = messages /\ r.kind \in Unusable
    BY <1>8 DEF GiveUp, Exit, TypeOK
  <2>2. Cause(t)'
    BY <1>5, <2>1 DEF Unusable
  <2> QED BY <1>3, <1>7, <2>1, <2>2 DEF Fate
<1>9. CASE FinalAnswer(t, r)
  <2>1. /\ code'[t] = "ok" /\ ReplyTo(messages[t]) = <<>>
        /\ messages'[t] = Append(messages[t], AssistantMessage(<<>>))
    BY <1>2, <1>9 DEF FinalAnswer, Exit, TypeOK
  <2>2. CASE AskedStage(t)
    <3>1. messages[t] = Asked(t)
      BY <2>2 DEF AskedStage
    <3>2. t \notin Matched
      <4>1. <<BashCall>> # <<>>
        OBVIOUS
      <4>2. ReplyTo(Asked(t)) = IF t \in Matched THEN <<BashCall>> ELSE <<>>
        BY Stages
      <4> QED BY <2>1, <3>1, <4>1, <4>2
    <3>3. messages'[t] # Answered(t, "error")
      <4>1. Len(Append(Asked(t), AssistantMessage(<<>>))) = 3
        BY Stages
      <4>2. Len(Answered(t, "error")) = 4
        BY Stages
      <4>3. Len(messages'[t]) = 3
        BY <2>1, <3>1, <4>1
      <4> QED BY <4>2, <4>3
    <3> QED BY <1>3, <1>7, <2>1, <3>2, <3>3 DEF Fate
  <2>3. ASSUME NEW x \in {"output", "error"}, AnsweredStage(t, x) PROVE Fate(t)'
    <3>1. messages[t] = Answered(t, x) /\ ran[t] = Runs(x)
      BY <2>3 DEF AnsweredStage
    <3>2. messages'[t] # Answered(t, "error")
      <4>1. Len(Append(Answered(t, x), AssistantMessage(<<>>))) = 5
        BY Stages
      <4>2. Len(Answered(t, "error")) = 4
        BY Stages
      <4>3. Len(messages'[t]) = 5
        BY <2>1, <3>1, <4>1
      <4> QED BY <4>2, <4>3
    <3>3. ran'[t] = 1 \/ t \in mishap'
      BY <1>3, <3>1 DEF Fate, Runs
    <3> QED BY <1>3, <1>7, <2>1, <3>2, <3>3 DEF Fate
  <2> QED BY <1>3, <2>2, <2>3, Places
<1>10. CASE CallTools(t, r)
  <2>1. /\ code' = code /\ ReplyTo(messages[t]) # <<>>
        /\ messages'[t] = Append(messages[t], AssistantMessage(ReplyTo(messages[t])))
    BY <1>2, <1>10 DEF CallTools, TypeOK
  <2>2. messages[t] = Asked(t)
    <3>1. ASSUME NEW x \in {"output", "error"}, AnsweredStage(t, x) PROVE FALSE
      <4>1. messages[t] = Answered(t, x)
        BY <3>1 DEF AnsweredStage
      <4> QED BY <2>1, <4>1, Stages
    <3> QED BY <1>3, <3>1, Places DEF AskedStage
  <2>3. messages'[t] = Called(t)
    <3>1. ReplyTo(Asked(t)) = IF t \in Matched THEN <<BashCall>> ELSE <<>>
      BY Stages
    <3> QED BY <2>1, <2>2, <3>1 DEF Called
  <2>4. messages'[t] # Answered(t, "error")
    <3>1. Len(messages'[t]) = 3
      BY <2>3, Stages
    <3>2. Len(Answered(t, "error")) = 4
      BY Stages
    <3> QED BY <3>1, <3>2
  <2> QED BY <1>3, <1>7, <2>1, <2>4 DEF Fate
<1>11. ~ EmptyAnswer(t, r)
  BY <1>2 DEF EmptyAnswer
<1> QED BY <1>6, <1>8, <1>9, <1>10, <1>11 DEF HandleReply

\* A validation that rejects has seen what a failure left, or nothing.
LEMMA ValidateFate ==
  ASSUME TypeOK, TalkInv, FileInv, NEW t \in Agents, Fate(t), Cause(t) => Cause(t)',
         t \in mishap => t \in mishap', Validate(t)
  PROVE  Fate(t)'
<1>1. /\ pc[t] = "exited" /\ result[t] = "none" /\ UNCHANGED <<code, messages, shell, ran>>
      /\ result'[t] = IF code[t] = "ok" /\ Valid(t) THEN "pass" ELSE "reject"
  BY DEF Validate, agentVars, FileInv, ReportInv
<1>2. CASE code[t] \in {"failed", "killed"}
  BY <1>1, <1>2 DEF Fate, Cause
<1>3. CASE code[t] = "ok"
  <2>1. ASSUME t \notin mishap PROVE Valid(t)
    <3>1. ClosedStage(t)
      BY <1>3, EndedAs
    <3>2. CASE Checks[t] = "loose"
      BY <3>2 DEF Valid
    <3>3. CASE Checks[t] # "loose"
      <4>1. t \in Matched
        BY <3>3, TestAssumption
      <4>2. ran[t] = 1
        BY <1>3, <2>1, <4>1 DEF Fate
      <4>3. CASE Checks[t] = "file"
        <5>1. script = "wait"
          BY <1>1 DEF FileInv, ReportInv
        <5>2. t \in Writers
          BY <4>3, TestAssumption
        <5>3. file[t] = "good"
          BY <4>2, <5>1, <5>2 DEF FileInv, FileOf
        <5> QED BY <4>3, <5>3 DEF Valid
      <4>4. CASE Checks[t] = "strict"
        <5>1. PICK x \in {"output", "error"} :
                 /\ ran[t] = Runs(x)
                 /\ messages[t] = Append(Answered(t, x), AssistantMessage(<<>>))
          BY <3>1, <4>1 DEF ClosedStage
        <5>2. x = "output"
          BY <4>2, <5>1 DEF Runs
        <5>3. Len(messages[t]) = 5
          BY <5>1, Stages
        <5>4. messages[t][4] = ToolMessage("call_bash", "output")
          BY <5>1, <5>2, StageTexts
        <5>5. 4 \in 1 .. Len(messages[t]) /\ messages[t][4].text = "output"
          BY <5>3, <5>4 DEF ToolMessage, Message
        <5>6. \E n \in 1 .. Len(messages[t]) : messages[t][n].text = "output"
          BY <5>5
        <5> QED BY <4>4, <5>6 DEF Valid
      <4> QED BY <3>3, <4>3, <4>4, TestAssumption
    <3> QED BY <3>2, <3>3
  <2>2. result'[t] = "reject" => t \in mishap'
    BY <1>1, <1>3, <2>1
  <2>3. /\ messages'[t] = Answered(t, "error") => t \in mishap'
        /\ t \in Matched => ran'[t] = 1 \/ t \in mishap'
        /\ shell'[t] = "failed" => t \in mishap'
    BY <1>1, <1>3 DEF Fate
  <2> QED BY <1>1, <1>3, <2>2, <2>3 DEF Fate, Cause
<1>4. code[t] # "none"
  BY <1>1 DEF TalkInv, Talk, AskedStage, CalledStage, AnsweredStage, ClosedStage, At
<1> QED BY <1>2, <1>3, <1>4 DEF TypeOK, ExitStatus

\* http_post's calls, a delivery and timeout's signal.
LEMMA LinkClient ==
  ASSUME TypeOK, ServerInv, PassageInv, TalkInv, NEW t \in Agents, Link(t),
         Cause(t) => Cause(t)', t \in mishap => t \in mishap',
         Connect(t) \/ Send(t) \/ Deliver(t) \/ Receive(t) \/ Timeout(t)
  PROVE  Link(t)' /\ \A u \in Agents \ {t} : conn'[u] = conn[u]
<1>1. /\ conn[t] \in Connection /\ ServerTypeOK
      /\ cur = t /\ srv \in Serving <=> conn[t].server = "accepted"
  BY TestAssumption DEF ServerInv, ServerTypeOK, OneClientAtATime
<1>2. CASE Connect(t)
  <2> DEFINE c == [conn[t] EXCEPT !.client = "open", !.server = "queued"]
  <2>1. /\ pc[t] = "post" /\ NetConnect(t) /\ UNCHANGED <<pc, code, srv, cur>>
        /\ conn[t] = NoConnection
    BY <1>2 DEF Connect, agentVars, serverVars, NetConnect, PassageInv, Passage
  <2>2. conn' = [conn EXCEPT ![t] = c]
    BY <2>1, <1>1 DEF NetConnect, Connection
  <2>3. c \in Connection /\ c.client = "open" /\ c.server = "queued"
    BY <1>1 DEF Connection
  <2>4. ~ (cur = t /\ srv \in Serving)
    BY <1>1, <2>1 DEF NoConnection
  <2> HIDE DEF c
  <2>5. conn'[t] = c /\ \A u \in Agents \ {t} : conn'[u] = conn[u]
    BY <1>1, <2>2, <2>3, OneConnection
  <2> QED BY <2>1, <2>3, <2>4, <2>5 DEF Link, Serving
<1>3. CASE Send(t) \/ Deliver(t)
  <2>1. UNCHANGED <<pc, code, srv, cur>>
    BY <1>3 DEF Send, Deliver, agentVars, serverVars
  <2>2. PICK c \in Connection :
          /\ conn' = [conn EXCEPT ![t] = c]
          /\ c.client = conn[t].client /\ c.server = conn[t].server
          /\ c.status = conn[t].status /\ c.resp = conn[t].resp /\ c.reset = conn[t].reset
    <3>1. CASE Send(t)
      <4> DEFINE c == [conn[t] EXCEPT !.sent = TRUE]
      <4>1. conn' = [conn EXCEPT ![t] = c]
        BY <3>1, <1>1 DEF Send, NetSend, Connection
      <4>2. /\ c \in Connection /\ c.client = conn[t].client /\ c.server = conn[t].server
            /\ c.status = conn[t].status /\ c.resp = conn[t].resp /\ c.reset = conn[t].reset
        BY <1>1 DEF Connection
      <4> HIDE DEF c
      <4> QED BY <4>1, <4>2
    <3>2. CASE Deliver(t)
      <4>1. PICK n \in Cuts \cup {Whole} : conn' = [conn EXCEPT ![t].arrived = n]
        BY <3>2 DEF Deliver, Arrive
      <4>2. n \in 0 .. Whole
        BY NetAssumption DEF Whole
      <4> DEFINE c == [conn[t] EXCEPT !.arrived = n]
      <4>3. conn' = [conn EXCEPT ![t] = c]
        BY <4>1, <1>1 DEF Connection
      <4>4. /\ c \in Connection /\ c.client = conn[t].client /\ c.server = conn[t].server
            /\ c.status = conn[t].status /\ c.resp = conn[t].resp /\ c.reset = conn[t].reset
        BY <1>1, <4>2 DEF Connection
      <4> HIDE DEF c
      <4> QED BY <4>3, <4>4
    <3> QED BY <1>3, <3>1, <3>2
  <2>3. conn'[t] = c /\ \A u \in Agents \ {t} : conn'[u] = conn[u]
    BY <1>1, <2>2, OneConnection
  <2>4. /\ conn'[t].client = "closed" => code'[t] = "killed"
        /\ conn'[t].client = "open" => pc'[t] = "post"
    BY <2>1, <2>2, <2>3 DEF Link
  <2>5. conn'[t].client = "open" /\ cur' = t /\ srv' \in {"head", "body", "close"} =>
          conn'[t].status = "chat" \/ t \in mishap'
    BY <2>1, <2>2, <2>3 DEF Link
  <2>6. conn'[t].client = "open" /\ conn'[t].server = "closed" =>
          Cause(t)' \/ (conn'[t].status = "chat" /\ conn'[t].resp = 2 /\ ~ conn'[t].reset)
    BY <2>2, <2>3 DEF Link
  <2> QED BY <2>3, <2>4, <2>5, <2>6 DEF Link
<1>4. CASE Receive(t)
  <2>1. conn' = [conn EXCEPT ![t] = NoConnection]
    BY <1>4 DEF Receive
  <2>2. NoConnection \in Connection /\ NoConnection.client = "none"
    BY DEF Connection, NoConnection, Whole
  <2>3. conn'[t] = NoConnection /\ \A u \in Agents \ {t} : conn'[u] = conn[u]
    BY <1>1, <2>1, <2>2, OneConnection
  <2> QED BY <2>2, <2>3 DEF Link
<1>5. CASE Timeout(t)
  <2>1. code'[t] = "killed" /\ conn' = Abandoned(t) /\ t \in mishap'
    BY <1>5 DEF Timeout, Killed, Exit, TypeOK, Blame
  <2>2. CASE conn[t].client = "open"
    <3> DEFINE c == [conn[t] EXCEPT !.client = "closed"]
    <3>1. conn' = [conn EXCEPT ![t] = c]
      BY <1>1, <2>1, <2>2 DEF Abandoned, Connection
    <3>2. c \in Connection /\ c.client = "closed"
      BY <1>1 DEF Connection
    <3> HIDE DEF c
    <3>3. conn'[t] = c /\ \A u \in Agents \ {t} : conn'[u] = conn[u]
      BY <1>1, <3>1, <3>2, OneConnection
    <3> QED BY <2>1, <3>2, <3>3 DEF Link
  <2>3. CASE conn[t].client # "open"
    <3>1. conn' = conn
      BY <2>1, <2>3 DEF Abandoned
    <3> QED BY <2>1, <2>3, <3>1 DEF Link
  <2> QED BY <2>2, <2>3
<1> QED BY <1>2, <1>3, <1>4, <1>5

\* The server, whatever it does, breaks no promise without a cause.
LEMMA LinkServer ==
  ASSUME ServerInv, PassageInv, FileInv, CauseInv, Serve, mishap \subseteq mishap',
         \A u \in Agents : Cause(u) => Cause(u)'
  PROVE  \A u \in Agents : Link(u)'
<1>1. /\ conn \in [Agents -> Connection] /\ ServerTypeOK
      /\ UNCHANGED <<pc, code>> /\ ServerStep
      /\ \A u \in Agents : Link(u) /\ Passage(u)
      /\ \A u \in Agents : cur = u /\ srv \in Serving <=> conn[u].server = "accepted"
  BY TestAssumption
     DEF ServerInv, ServerTypeOK, OneClientAtATime, PassageInv, CauseInv, Serve, agentVars
<1>2. ASSUME NEW u \in Agents, conn'[u] = conn[u], cur' = u => srv' \notin {"head", "body", "close"}
      PROVE  Link(u)'
  <2>1. /\ conn'[u].client = "closed" => code'[u] = "killed"
        /\ conn'[u].client = "open" => pc'[u] = "post"
    BY <1>1, <1>2 DEF Link
  <2>2. conn'[u].client = "open" /\ conn'[u].server = "closed" =>
          Cause(u)' \/ (conn'[u].status = "chat" /\ conn'[u].resp = 2 /\ ~ conn'[u].reset)
    BY <1>1, <1>2 DEF Link
  <2> QED BY <1>2, <2>1, <2>2 DEF Link
<1>3. ASSUME NEW h \in Agents, NEW c \in Connection, conn' = [conn EXCEPT ![h] = c],
             c.client = conn[h].client,
             c.client = "open" =>
               /\ srv' \in {"head", "body", "close"} => c.status = "chat" \/ h \in mishap'
               /\ c.server = "closed" =>
                    Cause(h)' \/ (c.status = "chat" /\ c.resp = 2 /\ ~ c.reset),
             cur' \in {h, Nobody}
      PROVE  \A u \in Agents : Link(u)'
  <2>1. conn'[h] = c /\ \A u \in Agents \ {h} : conn'[u] = conn[u]
    BY <1>1, <1>3, OneConnection
  <2>2. ASSUME NEW u \in Agents \ {h} PROVE Link(u)'
    <3>1. cur' # u
      BY <1>3, ServerAssumption, TestAssumption
    <3> QED BY <1>2, <2>1, <3>1
  <2>3. /\ conn'[h].client = "closed" => code'[h] = "killed"
        /\ conn'[h].client = "open" => pc'[h] = "post"
    BY <1>1, <1>3, <2>1 DEF Link
  <2>4. Link(h)'
    BY <1>3, <2>1, <2>3 DEF Link
  <2> QED BY <2>2, <2>4
<1>4. ASSUME Teardown, NEW b \in Agents \cup {Nobody}, cur' = Nobody,
             \A u \in Agents \ {b} : conn[u].client = "open" => Cause(u)',
             b \in Agents => conn[b].client # "open"
      PROVE  \A u \in Agents : Link(u)'
  <2> SUFFICES ASSUME NEW u \in Agents PROVE Link(u)'
    OBVIOUS
  <2>1. conn'[u].client = conn[u].client
    <3>1. conn[u] \in Connection
      BY <1>1
    <3>2. CASE conn[u].server \in {"queued", "accepted"}
      <4>1. conn'[u] = [conn[u] EXCEPT !.server = "closed", !.reset = TRUE]
        BY <1>4, <3>2, TestAssumption DEF Teardown
      <4> QED BY <3>1, <4>1 DEF Connection
    <3>3. CASE conn[u].server \notin {"queued", "accepted"}
      BY <1>4, <3>3, TestAssumption DEF Teardown
    <3> QED BY <3>2, <3>3
  <2>2. cur' # u
    BY <1>4, ServerAssumption, TestAssumption
  <2>3. conn[u].client = "open" => Cause(u)'
    BY <1>4
  <2> QED BY <1>1, <2>1, <2>2, <2>3 DEF Link
<1>5. CASE Listen \/ BootFails \/ CheckRunning \/ Block
  <2>1. conn' = conn /\ srv' \notin {"head", "body", "close"}
    BY <1>5 DEF Listen, BootFails, CheckRunning, Block, netVars
  <2> QED BY <1>2, <2>1
<1>6. CASE ShutDown
  <2>1. Teardown /\ cur' = cur /\ ~ keep_running /\ srv = "check"
    BY <1>6 DEF ShutDown
  <2>2. cur = Nobody
    BY <1>1, <2>1 DEF ServerTypeOK, Serving
  <2>3. \A u \in Agents : conn[u].client # "open"
    <3>1. \A u \in Agents : result[u] # "none"
      BY <2>1 DEF CauseInv, FileInv, ReportInv
    <3>2. \A u \in Agents : pc[u] = "exited"
      BY <3>1 DEF FileInv, ResultOf
    <3> QED BY <1>1, <3>2 DEF Link
  <2> QED BY <1>4, <2>1, <2>2, <2>3
<1>7. ASSUME Accept \/ AcceptFails PROVE \A u \in Agents : Link(u)'
  <2>1. PICK h \in Agents :
          /\ h = Head(backlog) /\ conn[h] \in Connection
          /\ cur = Nobody /\ srv \in {"accept", "blocked"}
    <3>1. backlog # <<>> /\ backlog \in Seq(Agents) /\ srv \in {"accept", "blocked"}
      BY <1>1, <1>7, TestAssumption DEF Accept, AcceptFails, ServerTypeOK
    <3>2. Head(backlog) \in Agents
      BY <3>1
    <3> QED BY <1>1, <3>1, <3>2 DEF ServerTypeOK, Serving
  <2>2. CASE Accept
    <3> DEFINE c == [conn[h] EXCEPT !.server = "accepted"]
    <3>1. conn' = [conn EXCEPT ![h].server = "accepted"] /\ cur' = h /\ srv' = "read"
      BY <2>1, <2>2 DEF Accept
    <3>2. conn' = [conn EXCEPT ![h] = c]
      BY <3>1, <1>1, <2>1
    <3>3. c \in Connection /\ c.server = "accepted" /\ c.client = conn[h].client
      BY <2>1 DEF Connection
    <3> HIDE DEF c
    <3> QED BY <1>3, <2>1, <3>1, <3>2, <3>3
  <2>3. CASE AcceptFails
    <3> DEFINE c == [conn[h] EXCEPT !.server = "closed", !.reset = TRUE]
    <3>1. /\ conn' = [conn EXCEPT ![h].server = "closed", ![h].reset = TRUE]
          /\ cur' = cur /\ srv' = "check"
      BY <2>1, <2>3 DEF AcceptFails
    <3>2. conn' = [conn EXCEPT ![h] = c]
      BY <3>1, <1>1, <2>1
    <3>3. c \in Connection /\ c.client = conn[h].client
      BY <2>1 DEF Connection
    <3>4. Cause(h)'
      <4>1. h \in mishap'
        BY <2>1, <3>1 DEF Serve
      <4> QED BY <4>1 DEF Cause
    <3> HIDE DEF c
    <3> QED BY <1>3, <2>1, <3>1, <3>2, <3>3, <3>4
  <2> QED BY <1>7, <2>2, <2>3
<1>8. ASSUME Read \/ WriteHead \/ WriteBody \/ SigPipe \/ Close PROVE \A u \in Agents : Link(u)'
  <2>1. /\ cur \in Agents /\ conn[cur] \in Connection /\ conn[cur].server = "accepted"
        /\ Link(cur) /\ Passage(cur)
    <3>1. srv \in Serving
      BY <1>8 DEF Read, WriteHead, WriteBody, SigPipe, Close, Serving
    <3>2. cur \in Agents
      BY <1>1, <3>1, TestAssumption DEF ServerTypeOK
    <3> QED BY <1>1, <3>1, <3>2
  <2>2. CASE Read
    <3>0. srv = "read" /\ cur' = cur /\ conn[cur].arrived \in 0 .. Whole
      BY <2>1, <2>2 DEF Read, Connection
    <3>1. CASE conn[cur].arrived = 0
      <4>1. conn' = [conn EXCEPT ![cur] = conn[cur]]
        BY <1>1, <2>1, <2>2, <3>1 DEF Read
      <4>2. cur \in mishap'
        BY <3>0, <3>1 DEF Serve, Whole
      <4> QED BY <1>3, <2>1, <3>0, <4>1, <4>2
    <3>2. CASE conn[cur].arrived # 0
      <4> DEFINE s == Status(conn[cur].arrived)
                 c == [conn[cur] EXCEPT !.status = s]
      <4>1. conn' = [conn EXCEPT ![cur].status = s]
        BY <2>2, <3>2 DEF Read
      <4>2. s \in {"notfound", "nobody", "badjson", "chat"}
        BY DEF Status
      <4>3. s = "chat" \/ cur \in mishap'
        <5>1. CASE conn[cur].arrived < Whole
          BY <3>0, <5>1 DEF Serve
        <5>2. CASE ~ (conn[cur].arrived < Whole)
          BY <3>0, <5>2 DEF Status, Whole
        <5> QED BY <5>1, <5>2
      <4> HIDE DEF s
      <4>4. conn' = [conn EXCEPT ![cur] = c]
        BY <4>1, <1>1, <2>1
      <4>5. /\ c \in Connection /\ c.server = "accepted" /\ c.client = conn[cur].client
            /\ c.status = s
        BY <2>1, <4>2 DEF Connection
      <4> HIDE DEF c
      <4> QED BY <1>3, <2>1, <3>0, <4>3, <4>4, <4>5
    <3> QED BY <3>1, <3>2
  <2>3. CASE WriteHead \/ WriteBody
    <3>1. srv \in {"head", "body"} /\ cur' = cur
      BY <2>3 DEF WriteHead, WriteBody
    <3>2. PICK c \in Connection :
            /\ conn' = [conn EXCEPT ![cur] = c] /\ c.client = conn[cur].client
            /\ c.server = "accepted" /\ c.status = conn[cur].status
      <4>1. CASE WriteHead
        <5> DEFINE b == (conn[cur].client = "closed")
                   c == [conn[cur] EXCEPT !.resp = 1, !.reset = b]
        <5>1. conn' = [conn EXCEPT ![cur].resp = 1, ![cur].reset = b]
          BY <4>1 DEF WriteHead
        <5>2. conn' = [conn EXCEPT ![cur] = c]
          BY <5>1, <1>1, <2>1
        <5>3. c \in Connection
          BY <2>1, ConnectionUpdates
        <5>4. c.client = conn[cur].client /\ c.server = "accepted" /\ c.status = conn[cur].status
          BY <2>1 DEF Connection
        <5> HIDE DEF c
        <5> QED BY <5>2, <5>3, <5>4
      <4>2. CASE WriteBody
        <5> DEFINE c == [conn[cur] EXCEPT !.resp = 2]
        <5>1. conn' = [conn EXCEPT ![cur].resp = 2]
          BY <4>2 DEF WriteBody
        <5>2. conn' = [conn EXCEPT ![cur] = c]
          BY <5>1, <1>1, <2>1
        <5>3. c \in Connection
          BY <2>1, ConnectionUpdates
        <5>4. c.client = conn[cur].client /\ c.server = "accepted" /\ c.status = conn[cur].status
          BY <2>1 DEF Connection
        <5> HIDE DEF c
        <5> QED BY <5>2, <5>3, <5>4
      <4> QED BY <2>3, <4>1, <4>2
    <3>3. c.client = "open" => c.status = "chat" \/ cur \in mishap'
      BY <2>1, <3>1, <3>2 DEF Link
    <3> QED BY <1>3, <2>1, <3>1, <3>2, <3>3
  <2>4. CASE SigPipe
    <3>1. Teardown /\ srv' = "broken" /\ cur' = Nobody /\ conn[cur].reset
      BY <2>4 DEF SigPipe
    <3>2. conn[cur].client = "closed" /\ code[cur] = "killed"
      BY <2>1, <3>1 DEF Passage, Link
    <3>3. \A u \in Agents \ {cur} : Cause(u)'
      BY <1>1, <2>1, <3>1, <3>2 DEF Cause, BrokenBy
    <3> QED BY <1>4, <2>1, <3>1, <3>2, <3>3
  <2>5. CASE Close
    <3>0. PICK k \in Agents : k = cur
      BY <2>1
    <3> DEFINE b == conn[k].reset \/ (conn[k].sent /\ conn[k].status # "chat")
               c == [conn[k] EXCEPT !.server = "closed", !.reset = b]
    <3>1. /\ conn' = [conn EXCEPT ![k].server = "closed", ![k].reset =
                        @ \/ (conn[k].sent /\ conn[k].status # "chat")]
          /\ cur' = Nobody /\ srv = "close" /\ srv' = "check"
      BY <2>5, <3>0 DEF Close
    <3>2. conn' = [conn EXCEPT ![k] = c]
      BY <3>1, <1>1
    <3>3. c \in Connection /\ c.server = "closed" /\ c.client = conn[k].client
          /\ c.status = conn[k].status /\ c.resp = conn[k].resp /\ c.reset = b
      BY <1>1 DEF Connection
    <3>4. c.client = "open" => Cause(k)' \/ (c.status = "chat" /\ c.resp = 2 /\ ~ c.reset)
      <4>1. ASSUME conn[k].client = "open", conn[k].status = "chat"
            PROVE  conn[k].resp = 2 /\ ~ b
        BY <2>1, <3>0, <3>1, <4>1 DEF Passage
      <4>2. ASSUME conn[k].client = "open", conn[k].status # "chat" PROVE Cause(k)'
        <5>1. k \in mishap
          BY <2>1, <3>0, <3>1, <4>2 DEF Link
        <5> QED BY <5>1 DEF Cause
      <4> HIDE DEF c, b
      <4> QED BY <3>3, <4>1, <4>2
    <3> HIDE DEF c, b
    <3> QED BY <1>3, <3>1, <3>2, <3>3, <3>4
  <2> QED BY <1>8, <2>2, <2>3, <2>4, <2>5
<1> QED BY <1>1, <1>5, <1>6, <1>7, <1>8 DEF ServerStep

\* The server is told to stop when the script ends, and never before.
LEMMA StopsAtEnd ==
  ASSUME ~ keep_running => script = "end", [Next]_vars
  PROVE  ~ keep_running' => script' = "end"
<1>1. ASSUME UNCHANGED serverVars \/ ServerStep PROVE keep_running' = keep_running
  BY <1>1 DEF serverVars, ServerStep, Listen, BootFails, CheckRunning, ShutDown, Accept,
              AcceptFails, Block, Read, WriteHead, WriteBody, SigPipe, Close
<1>2. CASE Script
  BY <1>1, <1>2 DEF Script, Wait, Cleanup, KillServer
<1>3. ASSUME NEW t \in Agents, Work(t) PROVE UNCHANGED <<serverVars, script>>
  BY <1>3 DEF Work, Compute, Connect, ConnectRefused, Send, Receive, StartShell, FinishTool,
              Validate, testVars
<1>4. ASSUME NEW t \in Agents, Shell(t) \/ Timeout(t) \/ Deliver(t)
      PROVE  UNCHANGED <<serverVars, script>>
  BY <1>4 DEF Shell, ShellWrites, ShellEnds, ShellFails, Timeout, Deliver, testVars
<1>5. CASE Serve
  BY <1>1, <1>5 DEF Serve
<1>6. CASE UNCHANGED vars
  BY <1>1, <1>6 DEF vars, testVars
<1> QED BY <1>1, <1>2, <1>3, <1>4, <1>5, <1>6 DEF Next

\* A step of one test leaves the other tests' reasons alone.
LEMMA CauseStep ==
  ASSUME TypeOK, ServerInv, PassageInv, TalkInv, FileInv, CauseInv,
         mishap \subseteq mishap', \A u \in Agents : Cause(u) => Cause(u)',
         NEW t \in Agents, Work(t) \/ Shell(t) \/ Timeout(t) \/ Deliver(t)
  PROVE  /\ mishap' \in SUBSET Agents
         /\ \A u \in Agents : Fate(u)' /\ Link(u)'
<1>1. /\ mishap \in SUBSET Agents
      /\ \A u \in Agents : Fate(u) /\ Link(u)
      /\ ServerTypeOK
      /\ shell \in [Agents -> {"none", "running", "writing", "ended", "failed"}]
      /\ ran \in [Agents -> {0, 1}]
      /\ result \in [Agents -> {"none", "pass", "reject"}]
  BY DEF CauseInv, ServerInv, TalkInv, FileInv, ReportInv
<1>2. ASSUME UNCHANGED <<srv, cur>>, Fate(t)', Link(t)', mishap' \in SUBSET Agents,
             \A u \in Agents \ {t} :
               /\ pc'[u] = pc[u] /\ code'[u] = code[u] /\ messages'[u] = messages[u]
               /\ shell'[u] = shell[u] /\ ran'[u] = ran[u] /\ result'[u] = result[u]
               /\ conn'[u] = conn[u]
      PROVE  /\ mishap' \in SUBSET Agents
             /\ \A u \in Agents : Fate(u)' /\ Link(u)'
  <2>1. ASSUME NEW u \in Agents \ {t} PROVE Fate(u)' /\ Link(u)'
    <3>1. Fate(u) /\ Link(u) /\ (Cause(u) => Cause(u)') /\ (u \in mishap => u \in mishap')
      BY <1>1
    <3> QED BY <1>2, <3>1, FateRests, LinkRests
  <2> QED BY <1>2, <2>1
<1>3. Fate(t) /\ Link(t) /\ (Cause(t) => Cause(t)') /\ (t \in mishap => t \in mishap')
  BY <1>1
<1>4. CASE Compute(t)
  <2>1. BuildRequest(t) \/ EndOfCalls(t)
    BY <1>4, NoWayOut DEF Compute
  <2>2. UNCHANGED <<messages, code, shell, ran, result, mishap, conn, srv, cur>>
    BY <1>4, <2>1 DEF BuildRequest, EndOfCalls, Compute, testVars, netVars, serverVars
  <2>3. Fate(t)'
    BY <1>3, <2>2, FateRests
  <2>4. pc[t] \in {"loop", "tools"}
    BY <2>1 DEF BuildRequest, EndOfCalls
  <2>5. Link(t)'
    BY <1>1, <1>3, <2>2, <2>4, NoLink, LinkRests
  <2>6. \A u \in Agents \ {t} : pc'[u] = pc[u]
    BY <2>1 DEF BuildRequest, EndOfCalls, TypeOK
  <2> QED BY <1>1, <1>2, <2>2, <2>3, <2>5, <2>6
<1>5. CASE ConnectRefused(t)
  <2> DEFINE r == [kind |-> "null", calls |-> <<>>]
  <2>1. /\ GiveUp(t, r) /\ conn[t].client = "none"
        /\ UNCHANGED <<shell, ran, result, conn, srv, cur>> /\ mishap' = mishap \cup {t}
    <3>1. HandleReply(t, r) /\ r.kind = "null"
      BY <1>5 DEF ConnectRefused
    <3>2. GiveUp(t, r)
      BY <3>1 DEF HandleReply, FinalAnswer, EmptyAnswer, CallTools
    <3> QED BY <1>5, <3>2 DEF ConnectRefused, Blame, netVars, serverVars
  <2>2. Fate(t)' /\ mishap' \in SUBSET Agents
    <3>1. t \in mishap'
      BY <2>1
    <3> QED BY <1>1, <2>1, <3>1, FateBlamed
  <2>3. Link(t)'
    BY <1>3, <2>1, LinkRests
  <2>4. \A u \in Agents \ {t} : pc'[u] = pc[u] /\ code'[u] = code[u] /\ messages'[u] = messages[u]
    BY <2>1 DEF GiveUp, Exit, TypeOK
  <2> QED BY <1>1, <1>2, <2>1, <2>2, <2>3, <2>4
<1>6. CASE Connect(t) \/ Send(t) \/ Deliver(t)
  <2>1. UNCHANGED <<pc, code, messages, shell, ran, result, mishap, srv, cur>>
    BY <1>6 DEF Connect, Send, Deliver, agentVars, testVars, serverVars
  <2>2. Fate(t)'
    BY <1>3, <2>1, FateRests
  <2> QED BY <1>1, <1>2, <1>3, <1>6, <2>1, <2>2, LinkClient
<1>7. CASE Receive(t)
  <2>1. UNCHANGED <<shell, ran, result, mishap, srv, cur>>
    BY <1>7 DEF Receive, testVars, serverVars
  <2>2. Fate(t)'
    BY <1>3, <1>7, ReplyFate
  <2>3. \A u \in Agents \ {t} : pc'[u] = pc[u] /\ code'[u] = code[u] /\ messages'[u] = messages[u]
    <3>1. PICK n \in Collected(t) : HandleReply(t, ReplyRead(t, n))
      BY <1>7 DEF Receive
    <3> QED BY <3>1 DEF HandleReply, GiveUp, FinalAnswer, EmptyAnswer, CallTools, Exit, TypeOK
  <2> QED BY <1>1, <1>2, <1>3, <1>7, <2>1, <2>2, <2>3, LinkClient
<1>8. CASE Timeout(t)
  <2>1. UNCHANGED <<messages, ran, result, srv, cur>> /\ mishap' = mishap \cup {t}
    BY <1>8 DEF Timeout, Killed, Blame, serverVars
  <2>2. Fate(t)' /\ mishap' \in SUBSET Agents
    <3>1. t \in mishap'
      BY <2>1
    <3> QED BY <1>1, <2>1, <3>1, FateBlamed
  <2>3. \A u \in Agents \ {t} : pc'[u] = pc[u] /\ code'[u] = code[u] /\ shell'[u] = shell[u]
    BY <1>1, <1>8 DEF Timeout, Killed, Exit, TypeOK
  <2> QED BY <1>1, <1>2, <1>3, <1>8, <2>1, <2>2, <2>3, LinkClient
<1>9. CASE StartShell(t) \/ Shell(t) \/ FinishTool(t)
  <2>1. UNCHANGED <<pc, code, result, conn, srv, cur>>
    BY <1>9 DEF StartShell, Shell, ShellWrites, ShellEnds, ShellFails, FinishTool, ExecuteTool,
                agentVars, netVars, serverVars
  <2>2. mishap' \in SUBSET Agents
    BY <1>1, <1>9 DEF StartShell, Shell, ShellWrites, ShellEnds, ShellFails, FinishTool, Blame
  <2>3. Fate(t)'
    BY <1>3, <1>9, <2>1, ToolFate
  <2>4. Link(t)'
    BY <1>3, <2>1, LinkRests
  <2>5. \A u \in Agents \ {t} :
          messages'[u] = messages[u] /\ shell'[u] = shell[u] /\ ran'[u] = ran[u]
    BY <1>1, <1>9 DEF StartShell, Shell, ShellWrites, ShellEnds, ShellFails, FinishTool,
                      ExecuteTool, agentVars, TypeOK
  <2> QED BY <1>2, <2>1, <2>2, <2>3, <2>4, <2>5
<1>10. CASE Validate(t)
  <2>1. UNCHANGED <<pc, code, messages, shell, ran, mishap, conn, srv, cur>>
    BY <1>10 DEF Validate, agentVars, netVars, serverVars
  <2>2. Fate(t)'
    BY <1>3, <1>10, ValidateFate
  <2>3. Link(t)'
    BY <1>3, <2>1, LinkRests
  <2>4. \A u \in Agents \ {t} : result'[u] = result[u]
    BY <1>1, <1>10 DEF Validate
  <2> QED BY <1>1, <1>2, <2>1, <2>2, <2>3, <2>4
<1> QED BY <1>4, <1>5, <1>6, <1>7, <1>8, <1>9, <1>10 DEF Work

\* Nothing fails without a reason, in every run of the group.
LEMMA CauseInvariant == Spec => []CauseInv
<1>1. Init => CauseInv
  <2> SUFFICES ASSUME Init PROVE CauseInv
    OBVIOUS
  <2>1. /\ mishap = {} /\ keep_running = TRUE
        /\ result = [t \in Agents |-> "none"] /\ shell = [t \in Agents |-> "none"]
        /\ code = [t \in Agents |-> "none"]
        /\ conn = [t \in Agents |-> NoConnection]
    BY TestAssumption DEF Init, AgentInit, ServerInit, NetInit
  <2>2. ASSUME NEW t \in Agents PROVE Fate(t) /\ Link(t)
    <3>1. messages[t] = Asked(t)
      BY DEF Init, AgentInit, Asked
    <3>2. messages[t] # Answered(t, "error")
      <4>1. Len(messages[t]) = 2
        BY <3>1, Stages
      <4>2. Len(Answered(t, "error")) = 4
        BY Stages
      <4> QED BY <4>1, <4>2
    <3>3. NoConnection.client = "none"
      BY DEF NoConnection
    <3> QED BY <2>1, <3>2, <3>3 DEF Fate, Link
  <2> QED BY <2>1, <2>2 DEF CauseInv
<1>2. /\ TypeOK /\ ServerInv /\ PassageInv /\ TalkInv /\ FileInv /\ CauseInv
      /\ [AgentNext]_agentVars /\ [Next]_vars
      => CauseInv'
  <2> SUFFICES ASSUME TypeOK, ServerInv, PassageInv, TalkInv, FileInv, CauseInv,
                      [AgentNext]_agentVars, [Next]_vars
               PROVE  CauseInv'
    OBVIOUS
  <2>1. mishap \subseteq mishap' /\ \A u \in Agents : Cause(u) => Cause(u)'
    BY CauseStays
  <2>2. ~ keep_running' => script' = "end"
    BY StopsAtEnd DEF CauseInv
  <2>3. mishap \in SUBSET Agents /\ \A u \in Agents : Fate(u) /\ Link(u)
    BY DEF CauseInv
  <2>4. ASSUME UNCHANGED <<agentVars, shell, ran, result>> PROVE \A u \in Agents : Fate(u)'
    <3> SUFFICES ASSUME NEW u \in Agents PROVE Fate(u)'
      OBVIOUS
    <3>1. Fate(u) /\ (Cause(u) => Cause(u)') /\ (u \in mishap => u \in mishap')
      BY <2>1, <2>3
    <3> QED BY <2>4, <3>1, FateRests DEF agentVars
  <2>5. ASSUME UNCHANGED <<agentVars, conn, srv, cur>> PROVE \A u \in Agents : Link(u)'
    <3> SUFFICES ASSUME NEW u \in Agents PROVE Link(u)'
      OBVIOUS
    <3>1. Link(u) /\ (Cause(u) => Cause(u)') /\ (u \in mishap => u \in mishap')
      BY <2>1, <2>3
    <3> QED BY <2>5, <3>1, LinkRests DEF agentVars
  <2>6. ASSUME NEW t \in Agents, Work(t) \/ Shell(t) \/ Timeout(t) \/ Deliver(t) PROVE CauseInv'
    BY <2>1, <2>2, <2>6, CauseStep DEF CauseInv
  <2>7. CASE Serve
    <3>1. UNCHANGED <<agentVars, shell, ran, result>>
      BY <2>7 DEF Serve
    <3>2. \A u \in Agents : Link(u)'
      BY <2>1, <2>7, LinkServer
    <3>3. mishap' \in SUBSET Agents
      <4>1. srv = "read" => cur \in Agents
        BY TestAssumption DEF ServerInv, ServerTypeOK, Serving
      <4>2. ASSUME srv \in {"accept", "blocked"}, srv' = "check" PROVE Head(backlog) \in Agents
        <5>1. AcceptFails
          BY <2>7, <4>2 DEF Serve, ServerStep, Listen, BootFails, CheckRunning, ShutDown, Accept,
                            Block, Read, WriteHead, WriteBody, SigPipe, Close
        <5>2. backlog # <<>> /\ backlog \in Seq(Agents)
          BY <5>1, TestAssumption DEF AcceptFails, ServerInv, ServerTypeOK
        <5> QED BY <5>2
      <4> QED BY <2>3, <2>7, <4>1, <4>2 DEF Serve
    <3> QED BY <2>2, <2>4, <3>1, <3>2, <3>3 DEF CauseInv
  <2>8. CASE Wait \/ Cleanup \/ UNCHANGED vars
    <3>1. UNCHANGED <<agentVars, conn, srv, cur, shell, ran, result, mishap>>
      <4>1. CASE Wait
        BY <4>1 DEF Wait, netVars, serverVars
      <4>2. CASE Cleanup
        BY <4>2 DEF Cleanup, netVars, serverVars
      <4>3. CASE UNCHANGED vars
        BY <4>3 DEF vars, netVars, serverVars, testVars
      <4> QED BY <2>8, <4>1, <4>2, <4>3
    <3> QED BY <2>2, <2>3, <2>4, <2>5, <3>1 DEF CauseInv
  <2>9. CASE KillServer
    <3>1. UNCHANGED <<agentVars, shell, ran, result, mishap>> /\ script = "kill" /\ Signal
      BY <2>9 DEF KillServer
    <3>2. ASSUME NEW u \in Agents PROVE conn'[u].client = conn[u].client /\ conn[u].client # "open"
      <4>1. pc[u] = "exited" /\ conn[u] \in Connection
        BY <3>1, TestAssumption DEF FileInv, ReportInv, ResultOf, ServerInv, ServerTypeOK
      <4>2. conn[u].client # "open"
        BY <2>3, <4>1 DEF Link
      <4>3. CASE conn' = conn
        BY <4>2, <4>3
      <4>4. CASE Teardown
        <5>1. CASE conn[u].server \in {"queued", "accepted"}
          <6>1. conn'[u] = [conn[u] EXCEPT !.server = "closed", !.reset = TRUE]
            BY <4>4, <5>1, TestAssumption DEF Teardown
          <6> QED BY <4>1, <4>2, <6>1 DEF Connection
        <5>2. CASE conn[u].server \notin {"queued", "accepted"}
          BY <4>2, <4>4, <5>2, TestAssumption DEF Teardown
        <5> QED BY <5>1, <5>2
      <4> QED BY <3>1, <4>3, <4>4 DEF Signal, netVars
    <3>3. \A u \in Agents : Link(u)'
      BY <2>3, <3>1, <3>2 DEF Link, agentVars
    <3> QED BY <2>2, <2>3, <2>4, <3>1, <3>3 DEF CauseInv
  <2> QED BY <2>6, <2>7, <2>8, <2>9 DEF Next, Script
<1> QED BY <1>1, <1>2, ServerInvariant, PassageInvariant, TalkInvariant, FileInvariant,
           GroupRunsAgents, PTL DEF Spec, AgentSpec

\* Tests fail alone: a test is rejected because the system did not serve this
\* test, or because the server was brought down when another test's agent was
\* killed (run_test's independence, handle_client's error paths).
THEOREM RejectsHaveCause == Spec => []RejectHasCause
<1>1. CauseInv => RejectHasCause
  BY DEF CauseInv, Fate, Cause, BrokenBy, RejectHasCause
<1> QED BY <1>1, CauseInvariant, PTL

\* Every variable of agents, server, network and script keeps its type.
THEOREM TestTyping == Spec => []TestTypeOK
<1>1. TypeOK /\ ServerInv /\ TalkInv /\ FileInv /\ CauseInv => TestTypeOK
  <2> SUFFICES ASSUME TypeOK, ServerInv, TalkInv, FileInv, CauseInv PROVE TestTypeOK
    OBVIOUS
  <2>1. ran \in [Agents -> 0 .. MAX_STEPS]
    <3>1. ran \in [Agents -> {0, 1}]
      BY DEF TalkInv
    <3>2. {0, 1} \subseteq 0 .. MAX_STEPS
      BY AgentAssumption
    <3> QED BY <3>1, <3>2
  <2>2. ServerTypeOK /\ mishap \in SUBSET Agents
    BY DEF ServerInv, CauseInv
  <2>3. /\ shell \in [Agents -> {"none", "running", "writing", "ended", "failed"}]
        /\ result \in [Agents -> {"none", "pass", "reject"}]
        /\ file \in [Agents -> {"absent", "partial", "good"}]
        /\ script \in {"wait", "clean", "kill", "end"} /\ leftover \in SUBSET Writers
    BY DEF TalkInv, FileInv, ReportInv
  <2> QED BY <2>1, <2>2, <2>3, Zenon DEF TestTypeOK
<1> QED BY <1>1, ServerInvariant, TalkInvariant, FileInvariant, CauseInvariant, PTL
===============================================================================
