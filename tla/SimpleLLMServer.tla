--------------------------- MODULE SimpleLLMServer ---------------------------
(***************************************************************************)
(* cagent-test/simple_llm_server.c: one process, one client at a time.     *)
(* main boots the listening socket and then alternates between testing     *)
(* keep_running and accept; handle_client reads once, answers with two     *)
(* writes and closes.  SIGTERM clears keep_running and interrupts a system *)
(* call the server sleeps in; SIGPIPE keeps its default and ends it.       *)
(***************************************************************************)
EXTENDS Loopback

CONSTANT Matched    \* user texts generate_tool_calls finds a command for

VARIABLES
  srv,            \* where the process stands
  keep_running,   \* the flag the signal handler clears
  cur             \* the client being served, or Nobody

serverVars == <<srv, keep_running, cur>>

Nobody == "nobody"

ASSUME ServerAssumption == Nobody \notin Clients

\* Ended by exit of main, a failed boot, SIGPIPE, or SIGTERM before sigaction.
Gone == {"exited", "failed", "broken", "killed"}
Serving == {"read", "head", "body", "close"}

ServerTypeOK ==
  /\ listening \in BOOLEAN
  /\ backlog \in Seq(Clients)
  /\ conn \in [Clients -> Connection]
  /\ srv \in {"boot", "check", "accept", "blocked"} \cup Serving \cup Gone
  /\ keep_running \in BOOLEAN
  /\ IF srv \in Serving THEN cur \in Clients ELSE cur = Nobody

ServerInit ==
  /\ NetInit
  /\ srv = "boot"
  /\ keep_running = TRUE
  /\ cur = Nobody

\* handle_client's dispatch on what its only read() returned.
Status(arrived) ==
  CASE arrived = 1 -> "notfound"
    [] arrived = 2 -> "nobody"
    [] arrived = 3 -> "badjson"
    [] OTHER       -> "chat"

\* handle_chat_completions: after a tool message the closing text, otherwise a
\* single bash call if the last message matches a command, else a text.
BashCall == [id |-> "call_bash", tool |-> "bash", args |-> "good"]
\* Mutation: the first user message decides, also after a tool result.
ReplyToPrompt(msgs) == IF msgs[2].text \in Matched THEN <<BashCall>> ELSE <<>>

ReplyTo(msgs) ==
  LET last == msgs[Len(msgs)]
  IN  IF last.role # "tool" /\ last.text \in Matched THEN <<BashCall>> ELSE <<>>

-----------------------------------------------------------------------------
Listen ==
  /\ srv = "boot"
  /\ listening' = TRUE
  /\ srv' = "check"
  /\ UNCHANGED <<backlog, conn, keep_running, cur>>

\* socket, setsockopt, bind or listen fails: return 1.
BootFails ==
  /\ srv = "boot"
  /\ srv' = "failed"
  /\ UNCHANGED <<netVars, keep_running, cur>>

\* while (keep_running)
CheckRunning ==
  /\ srv = "check"
  /\ keep_running
  /\ srv' = "accept"
  /\ UNCHANGED <<netVars, keep_running, cur>>

ShutDown ==
  /\ srv = "check"
  /\ ~ keep_running
  /\ srv' = "exited"
  /\ Teardown
  /\ UNCHANGED <<keep_running, cur>>

\* accept() takes the oldest connection, at once or after it slept.
Accept ==
  /\ srv \in {"accept", "blocked"}
  /\ backlog # <<>>
  /\ cur' = Head(backlog)
  /\ backlog' = Tail(backlog)
  /\ conn' = [conn EXCEPT ![Head(backlog)].server = "accepted"]
  /\ srv' = "read"
  /\ UNCHANGED <<listening, keep_running>>

\* accept() reports an error other than EINTR: the connection is lost, the loop
\* continues.
AcceptFails ==
  /\ srv \in {"accept", "blocked"}
  /\ backlog # <<>>
  /\ backlog' = Tail(backlog)
  /\ conn' = [conn EXCEPT ![Head(backlog)].server = "closed", ![Head(backlog)].reset = TRUE]
  /\ srv' = "check"
  /\ UNCHANGED <<listening, keep_running, cur>>

\* accept() goes to sleep, whatever keep_running has become since it was tested.
Block ==
  /\ srv = "accept"
  /\ backlog = <<>>
  /\ srv' = "blocked"
  /\ UNCHANGED <<netVars, keep_running, cur>>

\* Mutation: read() is repeated until the request is whole.
ReadUntilWhole ==
  /\ srv = "read"
  /\ conn[cur].arrived = Whole
  /\ srv' = "head"
  /\ conn' = [conn EXCEPT ![cur].status = Status(conn[cur].arrived)]
  /\ UNCHANGED <<listening, backlog, keep_running, cur>>

\* Mutation: handle_client returns on end of file without close().
ReadLeaks ==
  /\ srv = "read"
  /\ Readable(cur)
  /\ IF conn[cur].arrived = 0
     THEN srv' = "check" /\ cur' = Nobody /\ UNCHANGED conn
     ELSE /\ srv' = "head"
          /\ conn' = [conn EXCEPT ![cur].status = Status(conn[cur].arrived)]
          /\ UNCHANGED cur
  /\ UNCHANGED <<listening, backlog, keep_running>>

\* One read(); nothing but end of file or an error closes without an answer.
Read ==
  /\ srv = "read"
  /\ Readable(cur)
  /\ IF conn[cur].arrived = 0
     THEN srv' = "close" /\ UNCHANGED conn
     ELSE /\ srv' = "head"
          /\ conn' = [conn EXCEPT ![cur].status = Status(conn[cur].arrived)]
  /\ UNCHANGED <<listening, backlog, keep_running, cur>>

\* The first write is taken by the kernel even if the peer has gone; the peer
\* then answers with a reset.
WriteHead ==
  /\ srv = "head"
  /\ conn' = [conn EXCEPT ![cur].resp = 1, ![cur].reset = conn[cur].client = "closed"]
  /\ srv' = "body"
  /\ UNCHANGED <<listening, backlog, keep_running, cur>>

WriteBody ==
  /\ srv = "body"
  /\ conn' = [conn EXCEPT ![cur].resp = 2]
  /\ srv' = "close"
  /\ UNCHANGED <<listening, backlog, keep_running, cur>>

\* The reset has come back before the second write: SIGPIPE.
SigPipe ==
  /\ srv = "body"
  /\ conn[cur].reset
  /\ Teardown
  /\ srv' = "broken"
  /\ cur' = Nobody
  /\ UNCHANGED keep_running

\* close() resets the connection if part of the request was never read.
Close ==
  /\ srv = "close"
  /\ conn' = [conn EXCEPT ![cur].server = "closed",
                          ![cur].reset = @ \/ (conn[cur].sent /\ conn[cur].status # "chat")]
  /\ cur' = Nobody
  /\ srv' = "check"
  /\ UNCHANGED <<listening, backlog, keep_running>>

\* Mutation: main does not look at accept()'s result.
SignalUnnoticed ==
  /\ srv \notin Gone
  /\ keep_running' = FALSE
  /\ srv' = IF srv = "blocked" THEN "read" ELSE srv
  /\ UNCHANGED <<netVars, cur>>

\* SIGTERM.  Before sigaction it kills; asleep in accept or read it makes the
\* call fail with EINTR, which ends the loop or drops the client; anywhere
\* else the handler only clears the flag.
Signal ==
  \/ /\ srv = "boot"
     /\ srv' = "killed"
     /\ UNCHANGED <<netVars, keep_running, cur>>
  \/ /\ srv \notin Gone
     /\ keep_running' = FALSE
     /\ \/ srv # "blocked" /\ UNCHANGED <<srv, netVars>>
        \/ srv = "blocked" /\ srv' = "exited" /\ Teardown
        \/ srv = "read" /\ ~ Readable(cur) /\ srv' = "close" /\ UNCHANGED netVars
     /\ UNCHANGED cur
  \/ srv \in Gone /\ UNCHANGED <<netVars, serverVars>>

ServerStep ==
  \/ Listen \/ BootFails \/ CheckRunning \/ ShutDown \/ Accept \/ AcceptFails \/ Block
  \/ Read \/ WriteHead \/ WriteBody \/ SigPipe \/ Close
=============================================================================
