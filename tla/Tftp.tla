--------------------------------- MODULE Tftp ---------------------------------
(***************************************************************************)
(* busybox/networking/tftp.c: tftp_protocol at both ends of one transfer,  *)
(* the client (tftp) sending or receiving, with or without an OACK from    *)
(* the server (tftpd).  The sender reads and sends one block per ACK, the  *)
(* receiver writes and acknowledges one block per DATA, and only a timeout *)
(* sends again.                                                            *)
(*                                                                         *)
(* The network keeps every packet that was sent: it may deliver it never,  *)
(* late, again and in any order.  A packet is sent by xsendto, which dies   *)
(* if the send fails: any step that sends may end the program on the spot, *)
(* before the code that removes a partial file.  Left out: names, the      *)
(* progress bar, packets from elsewhere, and packets the receiving end     *)
(* does not recognise, which it drops without a change of state.  Of a     *)
(* block's size only that it is shorter than blksize is kept.              *)
(***************************************************************************)
EXTENDS Integers, Sequences

CONSTANTS
  Blocks,   \* blocks of the file; only the last is shorter than blksize
  W,        \* block numbers are counted modulo W, 2^16 in the code
  Retries   \* TFTP_NUM_RETRIES

ASSUME TftpAssumption ==
  /\ Blocks \in Nat \ {0}
  /\ W \in Nat
  /\ Blocks < W
  /\ Retries \in Nat \ {0}

Ends == {"sender", "receiver"}
Peer(e) == IF e = "sender" THEN "receiver" ELSE "sender"

VARIABLES
  client,   \* the end that is the client
  options,  \* the server acknowledges the client's options
  end,      \* per end: st, block_nr, finished, retries, our_lsa set, exit code
  pos,      \* blocks the sender has read from its file and sent
  cut,      \* history: an error cut the last of them, the sender takes it for the end
  written,  \* blocks the receiver has written
  file,     \* the receiver's file: "old", "opened" or "removed"
  net       \* every packet that was sent

tftpVars == <<client, options, end, pos, cut, written, file, net>>

Packet(to, op, nr, data, short) ==
  [to |-> to, op |-> op, nr |-> nr, data |-> data, short |-> short]
Req(to) == Packet(to, "REQ", 0, 0, FALSE)
Oack(to) == Packet(to, "OACK", 0, 0, FALSE)
Error(to) == Packet(to, "ERROR", 0, 0, FALSE)
Data(nr, d, short) == Packet("receiver", "DATA", nr, d, short)
Ack(nr) == Packet("sender", "ACK", nr, 0, FALSE)

Waiting(nr, fin, heard) ==
  [st |-> "waiting", nr |-> nr, fin |-> fin, retries |-> Retries, heard |-> heard, code |-> "none"]

\* A server is told by inetd of the request: its socket is connected at once.
NotStarted ==
  [st |-> "idle", nr |-> 1, fin |-> FALSE, retries |-> Retries, heard |-> TRUE, code |-> "none"]

-----------------------------------------------------------------------------
TftpInit ==
  /\ client \in Ends
  /\ options \in BOOLEAN
  /\ end = [e \in Ends |-> IF e = client THEN Waiting(1, FALSE, FALSE) ELSE NotStarted]
  /\ pos = 0
  /\ cut = FALSE
  /\ written = <<>>
  /\ file = "old"
  /\ net = {Req(Peer(client))}

\* The end exits: err removes a local file that was opened for writing.
ExitTransfer(e, code) ==
  /\ end' = [end EXCEPT ![e].st = "exited", ![e].code = code]
  /\ file' = IF code = "failed" /\ e = "receiver" /\ file = "opened" THEN "removed" ELSE file

\* ret: success if the last block was read or written.
Ret(e) == ExitTransfer(e, IF end[e].fin THEN "ok" ELSE "failed")

\* xsendto fails: bb_perror_msg_and_die, whatever file is open stays.
Dies(e) ==
  /\ end' = [end EXCEPT ![e].st = "exited", ![e].code = "died"]
  /\ UNCHANGED net

\* send_err_pkt
SendError(e) ==
  /\ \/ ExitTransfer(e, "failed") /\ net' = net \cup {Error(Peer(e))}
     \/ Dies(e) /\ UNCHANGED file
  /\ UNCHANGED <<pos, cut, written>>

\* The top of the loop at the sender whose block_nr is nr: read a block and
\* send it.  A short block is the last; full_read returns a short one, too,
\* when an error follows the first bytes of a block, and -1 only when the
\* error comes first.
SendData(nr) ==
  \/ \E error \in BOOLEAN :
       LET short == error \/ pos + 1 = Blocks IN
       /\ end' = [end EXCEPT !["sender"] = Waiting((nr + 1) % W, short, TRUE)]
       /\ pos' = pos + 1
       /\ cut' = error
       /\ net' = net \cup {Data(nr, pos + 1, short)}
       /\ UNCHANGED <<written, file>>
  \/ Dies("sender") /\ UNCHANGED <<pos, cut, written, file>>
  \/ SendError("sender")

\* The top of the loop at the receiver: acknowledge block nr.
SendAck(nr) ==
  \/ /\ end' = [end EXCEPT !["receiver"] = Waiting((nr + 1) % W, FALSE, TRUE)]
     /\ net' = net \cup {Ack(nr)}
  \/ Dies("receiver")

\* The server acknowledges the client's options.
SendOack(e) ==
  \/ /\ end' = [end EXCEPT ![e] = Waiting(1, FALSE, TRUE)]
     /\ net' = net \cup {Oack(client)}
  \/ Dies(e)

\* tftpd gets the request and opens its file.
StartServer ==
  LET e == Peer(client) IN
  /\ end[e].st = "idle"
  /\ Req(e) \in net
  /\ IF e = "sender" /\ ~ options
     THEN SendData(1)
     ELSE /\ IF options THEN SendOack(e) ELSE SendAck(0)
          /\ file' = IF e = "receiver" THEN "opened" ELSE file
          /\ UNCHANGED <<pos, cut, written>>
  /\ UNCHANGED <<client, options>>

\* tftpd refuses the request, or cannot open the file.
RefuseRequest ==
  LET e == Peer(client) IN
  /\ end[e].st = "idle"
  /\ Req(e) \in net
  /\ SendError(e)
  /\ UNCHANGED <<client, options>>

\* The client's first reply acknowledges its options, or has a bad blksize.
ReceiveOack ==
  /\ end[client].st = "waiting"
  /\ ~ end[client].heard
  /\ Oack(client) \in net
  /\ \/ client = "sender" /\ SendData(end[client].nr)
     \/ client = "receiver" /\ SendAck(0) /\ UNCHANGED <<pos, cut, written, file>>
     \/ SendError(client)
  /\ UNCHANGED <<client, options>>

\* The receiver behind block d: a short one is the last, and it exits.
Received(d, short) ==
  [st |-> IF short THEN "exited" ELSE "waiting", nr |-> ((d % W) + 1) % W, fin |-> short,
   retries |-> Retries, heard |-> TRUE, code |-> IF short THEN "ok" ELSE "none"]

\* Mutation: a block that was written already is written again.
ReceiveDataAgain(d, short) ==
  LET e == end["receiver"] nr == d % W IN
  /\ e.st = "waiting"
  /\ Data(nr, d, short) \in net
  /\ nr = e.nr \/ (nr + 1) % W = e.nr
  /\ written' = Append(written, d)
  /\ end' = [end EXCEPT !["receiver"] = Received(d, short)]
  /\ file' = "opened"
  /\ net' = net \cup {Ack(nr)}
  /\ UNCHANGED <<client, options, pos, cut>>

\* The block that is expected: open the file if it is the first, write the
\* block and acknowledge it; behind the ACK of the last one the receiver
\* exits.  The open, the write, and the send of the ACK may fail.
ReceiveData(d, short) ==
  LET e == end["receiver"] nr == d % W IN
  /\ e.st = "waiting"
  /\ Data(nr, d, short) \in net
  /\ nr = e.nr
  /\ \/ file = "old" /\ Dies("receiver") /\ UNCHANGED <<written, file>>
     \/ /\ written' = Append(written, d)
        /\ file' = "opened"
        /\ \/ /\ end' = [end EXCEPT !["receiver"] = Received(d, short)]
              /\ net' = net \cup {Ack(nr)}
           \/ Dies("receiver")
     \/ /\ \/ /\ end' = [end EXCEPT !["receiver"].st = "exited", !["receiver"].code = "failed"]
              /\ file' = "removed"
              /\ net' = net \cup {Error("sender")}
           \/ Dies("receiver") /\ file' = "opened"
        /\ UNCHANGED written
  /\ UNCHANGED <<client, options, pos, cut>>

\* Mutation: any ACK is taken for the one of the last block sent.
ReceiveAnyAck(nr) ==
  LET e == end["sender"] IN
  /\ e.st = "waiting"
  /\ Ack(nr) \in net
  /\ IF e.fin
     THEN Ret("sender") /\ UNCHANGED <<pos, cut, written, net>>
     ELSE SendData(e.nr)
  /\ UNCHANGED <<client, options>>

\* The ACK of the last block sent: the next block, or the end.
ReceiveAck(nr) ==
  LET e == end["sender"] IN
  /\ e.st = "waiting"
  /\ Ack(nr) \in net
  /\ nr = (e.nr - 1) % W
  /\ IF e.fin
     THEN Ret("sender") /\ UNCHANGED <<pos, cut, written, net>>
     ELSE SendData(e.nr)
  /\ UNCHANGED <<client, options>>

ReceiveError(e) ==
  /\ end[e].st = "waiting"
  /\ Error(e) \in net
  /\ Ret(e)
  /\ UNCHANGED <<client, options, pos, cut, written, net>>

\* poll fails, for want of memory.
PollFails(e) ==
  /\ end[e].st = "waiting"
  /\ Ret(e)
  /\ UNCHANGED <<client, options, pos, cut, written, net>>

\* Mutation: the retries are counted anew for every packet sent again.
TimeoutForever(e) ==
  /\ end[e].st = "waiting"
  /\ end[e].retries > 1
  /\ UNCHANGED tftpVars

\* poll times out: send_again the packet, which the network has already, or
\* give up.
Timeout(e) ==
  /\ end[e].st = "waiting"
  /\ IF end[e].retries = 1
     THEN Ret(e) /\ UNCHANGED net
     ELSE /\ \/ end' = [end EXCEPT ![e].retries = @ - 1] /\ UNCHANGED net
             \/ Dies(e)
          /\ UNCHANGED file
  /\ UNCHANGED <<client, options, pos, cut, written>>

\* The peer is gone and its host says so: a read of the connected socket
\* fails.
Refused(e) ==
  /\ end[e].st = "waiting"
  /\ end[e].heard
  /\ end[Peer(e)].st = "exited"
  /\ SendError(e)
  /\ UNCHANGED <<client, options>>

TftpDone ==
  /\ \A e \in Ends : end[e].st # "waiting"
  /\ UNCHANGED tftpVars

TftpNext ==
  \/ StartServer \/ RefuseRequest \/ ReceiveOack
  \/ \E d \in 1 .. Blocks, short \in BOOLEAN : ReceiveData(d, short)
  \/ \E nr \in 0 .. W - 1 : ReceiveAck(nr)
  \/ \E e \in Ends : ReceiveError(e) \/ PollFails(e) \/ Timeout(e) \/ Refused(e)
  \/ TftpDone

TftpSpec == TftpInit /\ [][TftpNext]_tftpVars

\* poll wakes up when its time has passed and nothing was received.
TftpFairness == \A e \in Ends : WF_tftpVars(Timeout(e))

FairTftpSpec == TftpSpec /\ TftpFairness

-----------------------------------------------------------------------------
EndSet ==
  [st : {"idle", "waiting", "exited"}, nr : 0 .. W - 1, fin : BOOLEAN, retries : 1 .. Retries,
   heard : BOOLEAN, code : {"none", "ok", "failed", "died"}]
PacketSet ==
  [to : Ends, op : {"REQ", "OACK", "DATA", "ACK", "ERROR"}, nr : 0 .. W - 1, data : 0 .. Blocks,
   short : BOOLEAN]

\* Every variable of the transfer keeps its type.
TftpTypeOK ==
  /\ client \in Ends
  /\ options \in BOOLEAN
  /\ end \in [Ends -> EndSet]
  /\ pos \in 0 .. Blocks
  /\ cut \in BOOLEAN
  /\ written \in Seq(1 .. Blocks)
  /\ file \in {"old", "opened", "removed"}
  /\ net \subseteq PacketSet

\* tftp_protocol: the receiver's file is a prefix of the sender's, whatever
\* the network does with the packets.  A receiver that exits with success has
\* all of it, or, when reading it failed in the middle of a block, everything
\* that was read, and nothing tells either end that the rest is missing.  One
\* that fails leaves no partial file, except when it dies inside xsendto.
FileFaithful ==
  /\ \A k \in 1 .. Len(written) : written[k] = k
  /\ end["receiver"].code = "ok" =>
       /\ Len(written) = IF cut THEN pos ELSE Blocks
       /\ file = "opened"
  /\ end["receiver"].code = "failed" => file # "opened"

Outcome(e) ==
  IF end[e].code = "none" THEN "busy" ELSE IF end[e].code = "ok" THEN "ok" ELSE "failed"

\* The two ends implement FileTransfer: one block ahead at most, success of
\* the receiver only behind the block that the sender takes for the last.
FT == INSTANCE FileTransfer
        WITH sent <- pos, got <- Len(written), sender <- Outcome("sender"),
             receiver <- Outcome("receiver")
TransfersFile == FT!FTSpec

\* TFTP_NUM_RETRIES: no end waits forever, whatever is lost and however late
\* the server gets the request.
TransferEnds == <>[](\A e \in Ends : end[e].st # "waiting")
=============================================================================
