------------------------------- MODULE Loopback -------------------------------
(***************************************************************************)
(* The TCP connections over 127.0.0.1 between the agents and the server,   *)
(* as far as the calls made by http_post, main and handle_client can tell  *)
(* them apart.  The kernel is outside src/: this is the contract the two   *)
(* programs rely on.                                                       *)
(*                                                                         *)
(* A client has at most one connection, so connections are named by their  *)
(* clients.  A request is sent by one send() and arrives in pieces:        *)
(*   0 nothing   1 less than "POST /v1/chat/completions"   2 no blank line *)
(*   3 blank line, body cut short   4 all of it                            *)
(* A response is sent by two writes: head, then body.                      *)
(***************************************************************************)
EXTENDS Integers, Sequences

CONSTANTS
  Clients,     \* who may connect
  Backlog,     \* connections the listening socket holds before accept
  Cuts         \* where a request may be cut short on its way, within 1 .. 3

ASSUME NetAssumption == Backlog \in Nat \ {0} /\ Cuts \subseteq 1 .. 3

VARIABLES
  listening,   \* the server's socket is bound and listens
  backlog,     \* clients whose connection waits for accept, oldest first
  conn         \* both ends of each client's connection

netVars == <<listening, backlog, conn>>

Whole == 4

Connection ==
  [ server  : {"none", "queued", "accepted", "closed"},
    client  : {"none", "open", "closed"},
    sent    : BOOLEAN,     \* the client's send() has returned
    arrived : 0 .. Whole,  \* how much of the request the server can read
    status  : {"none", "notfound", "nobody", "badjson", "chat"},
    resp    : 0 .. 2,      \* writes of the response made so far
    reset   : BOOLEAN ]    \* the connection was reset: response may be lost

NoConnection ==
  [ server |-> "none", client |-> "none", sent |-> FALSE, arrived |-> 0,
    status |-> "none", resp |-> 0, reset |-> FALSE ]

NetInit ==
  /\ listening = FALSE
  /\ backlog = <<>>
  /\ conn = [c \in Clients |-> NoConnection]

\* connect() succeeds as soon as there is room in the backlog.
NetConnect(c) ==
  /\ listening
  /\ conn[c].client = "none"
  /\ Len(backlog) < Backlog
  /\ conn' = [conn EXCEPT ![c].client = "open", ![c].server = "queued"]
  /\ backlog' = Append(backlog, c)
  /\ UNCHANGED listening

NetSend(c) ==
  /\ conn[c].client = "open"
  /\ ~ conn[c].sent
  /\ conn' = [conn EXCEPT ![c].sent = TRUE]
  /\ UNCHANGED <<listening, backlog>>

\* More of the request reaches the server, also after the client is gone.
Arrive(c) ==
  /\ conn[c].sent
  /\ conn[c].server \in {"queued", "accepted"}
  /\ \E n \in Cuts \cup {Whole} :
       n > conn[c].arrived /\ conn' = [conn EXCEPT ![c].arrived = n]
  /\ UNCHANGED <<listening, backlog>>

\* The client's process ends: its end closes, what it sent stays in flight.
Abandoned(c) ==
  IF conn[c].client = "open"
  THEN [conn EXCEPT ![c].client = "closed"]
  ELSE conn

\* read() has something to return: bytes, or the end of a closed stream.
Readable(c) ==
  \/ conn[c].arrived > 0
  \/ conn[c].client = "closed" /\ ~ conn[c].sent

\* The server's process or its listening socket goes away: connections it has
\* not finished are reset.
Teardown ==
  /\ listening' = FALSE
  /\ backlog' = <<>>
  /\ conn' = [c \in Clients |->
                IF conn[c].server \in {"queued", "accepted"}
                THEN [conn[c] EXCEPT !.server = "closed", !.reset = TRUE]
                ELSE conn[c]]

\* What recv() may have collected once the server's end is closed, in writes.
Collected(c) == IF conn[c].reset THEN 0 .. conn[c].resp ELSE {conn[c].resp}
=============================================================================
