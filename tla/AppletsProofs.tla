----------------------------- MODULE AppletsProofs -----------------------------
(***************************************************************************)
(* Proofs about Tftp, for every length of file below the wrap of the block *)
(* numbers and every number of retries; about Timeout, the watcher's aim   *)
(* for every list of durations; and about the four programs of MCApplets   *)
(* side by side.                                                           *)
(***************************************************************************)
EXTENDS MCApplets, RunsvProofs, SyslogProofs

-----------------------------------------------------------------------------
(* Tftp. *)

\* Arithmetic of block numbers around their wrap.
LEMMA Sizes == W \in Nat /\ W >= 2 /\ Blocks \in Nat /\ Blocks >= 1 /\ Blocks < W
BY TftpAssumption

LEMMA NumberTyped == \A x \in Int : x % W \in 0 .. W - 1
BY Sizes

LEMMA NumberOfBlock == \A x \in 0 .. W - 1 : x % W = x
BY Sizes

LEMMA NumberAtWrap == W % W = 0 /\ (0 - 1) % W = W - 1
BY Sizes

-----------------------------------------------------------------------------
\* How far the ends are: block numbers, and nobody is two blocks ahead.
Numbers ==
  /\ end["sender"].nr = (pos + 1) % W
  /\ end["receiver"].st # "exited" => end["receiver"].nr = (Len(written) + 1) % W
  /\ Len(written) <= pos /\ pos <= Len(written) + 1
  /\ \A k \in 1 .. Len(written) : written[k] = k

\* An end that has not heard of its peer has no block.
Unheard(e) == end[e].st = "idle" \/ (end[e].st = "waiting" /\ ~ end[e].heard)
Beginnings ==
  /\ Unheard("sender") => pos = 0 /\ ~ cut
  /\ Unheard("receiver") => Len(written) = 0

\* What is in the network was sent: however late it comes, it is of a block
\* that was read, or that was written.  Only the last block read may be short.
Underway ==
  \A p \in net :
    /\ p.op = "DATA" =>
         /\ p.data \in 1 .. pos /\ p.nr = p.data
         /\ p.short <=> p.data = pos /\ (pos = Blocks \/ cut)
    /\ p.op = "ACK" => p.nr <= Len(written)

\* When an end has its last block, and what it exits with.
Endings ==
  /\ end["sender"].fin <=> pos = Blocks \/ cut
  /\ end["receiver"].st # "exited" => ~ end["receiver"].fin
  /\ \A e \in Ends : end[e].code = "none" <=> end[e].st # "exited"
  /\ end["receiver"].code = "ok" =>
       Len(written) = (IF cut THEN pos ELSE Blocks) /\ file = "opened"
  /\ end["receiver"].code = "failed" => file # "opened"

TftpInv == TftpTypeOK /\ Numbers /\ Beginnings /\ Underway /\ Endings

USE DEF Ends

\* Initially nothing is read, written or sent but the request.
LEMMA InitInv == TftpInit => TftpInv /\ FT!FTInit
<1> SUFFICES ASSUME TftpInit PROVE TftpInv /\ FT!FTInit
  OBVIOUS
<1>1. /\ Waiting(1, FALSE, FALSE) \in EndSet /\ NotStarted \in EndSet
  <2>1. Retries \in 1 .. Retries /\ 1 \in 0 .. W - 1
    BY Sizes, TftpAssumption
  <2> QED BY <2>1 DEF Waiting, NotStarted, EndSet
<1>2. Req(Peer(client)) \in PacketSet
  BY Sizes DEF TftpInit, Req, Packet, PacketSet, Peer
<1>3. TftpTypeOK
  <2>1. end \in [Ends -> EndSet]
    BY <1>1 DEF TftpInit
  <2>2. net \subseteq PacketSet
    BY <1>2 DEF TftpInit
  <2>3. pos \in 0 .. Blocks /\ written \in Seq(1 .. Blocks)
    BY Sizes DEF TftpInit
  <2> QED BY <2>1, <2>2, <2>3 DEF TftpInit, TftpTypeOK
<1>4. written = <<>> /\ Len(written) = 0 /\ pos = 0 /\ cut = FALSE /\ 1 % W = 1
  BY Sizes, NumberOfBlock DEF TftpInit
<1>5. \A e \in Ends : /\ end[e].nr = 1 /\ ~ end[e].fin /\ end[e].code = "none"
                      /\ end[e].st # "exited"
  BY DEF TftpInit, Waiting, NotStarted
<1>6. Numbers /\ Beginnings /\ Endings
  BY <1>4, <1>5, Sizes DEF Numbers, Beginnings, Unheard, Endings
<1>7. Underway
  BY DEF TftpInit, Underway, Req, Packet
<1>8. FT!FTInit
  BY <1>4, <1>5 DEF FT!FTInit, Outcome
<1> QED BY <1>3, <1>6, <1>7, <1>8 DEF TftpInv

\* The sender reads its next block, or what comes before an error, and sends it.
LEMMA SendDataStep ==
  ASSUME TftpInv, end["sender"].code = "none", pos < Blocks, ~ cut, pos = Len(written),
         NEW error \in BOOLEAN, NEW short \in BOOLEAN, short <=> error \/ pos + 1 = Blocks,
         UNCHANGED <<client, options, written, file>>,
         end' = [end EXCEPT !["sender"] = Waiting((((pos + 1) % W) + 1) % W, short, TRUE)],
         pos' = pos + 1,
         cut' = error,
         net' = net \cup {Data((pos + 1) % W, pos + 1, short)}
  PROVE  TftpInv' /\ FT!Offer
<1> USE DEF TftpInv
<1>0. pos \in Nat /\ pos + 1 \in 0 .. W - 1 /\ pos + 2 \in Int /\ pos + 2 = (pos + 1) + 1
  BY Sizes DEF TftpTypeOK
<1>1. (pos + 1) % W = pos + 1
  BY <1>0, NumberOfBlock
<1>2. (pos + 2) % W \in 0 .. W - 1
  BY <1>0, NumberTyped
<1> DEFINE w == Waiting((pos + 2) % W, short, TRUE)
<1>3. w \in EndSet /\ end' = [end EXCEPT !["sender"] = w]
  <2>1. Retries \in 1 .. Retries
    BY TftpAssumption
  <2>2. w \in EndSet
    BY <1>2, <2>1 DEF Waiting, EndSet
  <2> QED BY <1>0, <1>1, <2>2
<1>4. /\ end'["sender"] = w /\ end'["receiver"] = end["receiver"]
      /\ w.nr = (pos + 2) % W /\ w.fin = short /\ w.st = "waiting"
      /\ w.code = "none" /\ w.heard
  BY <1>3 DEF TftpTypeOK, Waiting
<1>5. /\ net' = net \cup {Data(pos + 1, pos + 1, short)}
      /\ Data(pos + 1, pos + 1, short) \in PacketSet
  BY <1>0, <1>1, Sizes DEF Data, Packet, PacketSet
<1>6. TftpTypeOK'
  <2>1. end' \in [Ends -> EndSet]
    BY <1>3 DEF TftpTypeOK
  <2>2. net' \subseteq PacketSet
    BY <1>5 DEF TftpTypeOK
  <2>3. pos' \in 0 .. Blocks
    BY <1>0, Sizes
  <2>4. cut' \in BOOLEAN
    OBVIOUS
  <2> QED BY <2>1, <2>2, <2>3, <2>4 DEF TftpTypeOK
<1> HIDE DEF w
<1>7. Numbers' /\ Beginnings'
  <2>1. /\ end'["sender"].nr = (pos' + 1) % W
        /\ end'["receiver"].st # "exited" =>
             end'["receiver"].nr = (Len(written') + 1) % W
    BY <1>0, <1>4 DEF Numbers
  <2>2. Len(written') = pos /\ pos' = pos + 1
    OBVIOUS
  <2>3. \A k \in 1 .. Len(written') : written'[k] = k
    BY DEF Numbers
  <2>4. Len(written') <= pos' /\ pos' <= Len(written') + 1
    BY <1>0, <2>2
  <2>5. Numbers'
    BY <2>1, <2>3, <2>4, Zenon DEF Numbers
  <2> QED BY <2>2, <2>5, <1>4 DEF Beginnings, Unheard
<1>8. Underway'
  <2>1. pos \in Nat /\ pos' = pos + 1 /\ written' = written
    BY <1>0
  <2>2. \A p \in net' :
          p \in net \/ (p.op = "DATA" /\ p.data = pos + 1 /\ p.nr = pos + 1 /\ p.short = short)
    BY <1>5 DEF Data, Packet
  <2>3. short <=> pos' = Blocks \/ cut'
    BY <2>1
  <2>4. \A p \in net : p.op = "DATA" => p.data \in 1 .. pos /\ p.data # pos' /\ ~ p.short
    BY <2>1 DEF Underway
  <2>5. \A p \in net : /\ p.op = "DATA" => p.nr = p.data
                       /\ p.op = "ACK" => p.nr <= Len(written')
    BY <2>1 DEF Underway
  <2>6. \A n \in 1 .. pos : n \in 1 .. pos'
    BY <2>1
  <2>7. ASSUME NEW p \in net'
        PROVE  /\ p.op = "DATA" =>
                    /\ p.data \in 1 .. pos' /\ p.nr = p.data
                    /\ p.short <=> p.data = pos' /\ (pos' = Blocks \/ cut')
               /\ p.op = "ACK" => p.nr <= Len(written')
    <3>1. CASE p \in net
      BY <3>1, <2>4, <2>5, <2>6
    <3>2. CASE p.op = "DATA" /\ p.data = pos + 1 /\ p.nr = pos + 1 /\ p.short = short
      <4>1. pos + 1 \in 1 .. pos' /\ pos + 1 = pos'
        BY <2>1
      <4> HIDE DEF TftpInv
      <4> QED BY <3>2, <2>3, <4>1
    <3> QED BY <3>1, <3>2, <2>2
  <2> QED BY <2>7 DEF Underway
<1>9. Endings'
  <2>1. end'["sender"].fin <=> pos' = Blocks \/ cut'
    BY <1>4
  <2>2. \A e \in Ends : end'[e].code = "none" <=> end'[e].st # "exited"
    <3>1. end["receiver"].code = "none" <=> end["receiver"].st # "exited"
      BY DEF Endings
    <3>2. end'["receiver"] = end["receiver"]
      BY <1>4
    <3>3. end'["sender"].code = "none" <=> end'["sender"].st # "exited"
      BY <1>4
    <3> QED BY <3>1, <3>2, <3>3
  <2>3. /\ end'["receiver"].st # "exited" => ~ end'["receiver"].fin
        /\ end'["receiver"].code = "failed" => file' # "opened"
    BY <1>4 DEF Endings
  <2>4. end'["receiver"].code # "ok"
    <3>1. Len(written) # Blocks
      BY <1>0
    <3> QED BY <1>4, <3>1 DEF Endings
  <2> QED BY <2>1, <2>2, <2>3, <2>4 DEF Endings
<1>10. FT!Offer
  BY <1>4 DEF FT!Offer, Outcome
<1> QED BY <1>6, <1>7, <1>8, <1>9, <1>10

\* An end exits, with its file as it is or removed.
LEMMA ExitStep ==
  ASSUME TftpInv, NEW e \in Ends, NEW code \in {"ok", "failed", "died"},
         end[e].code = "none", code = "ok" => end[e].fin,
         end' = [end EXCEPT ![e].st = "exited", ![e].code = code],
         file' \in {"old", "opened", "removed"},
         e = "sender" => file' = file,
         code = "failed" /\ e = "receiver" => file' # "opened",
         UNCHANGED <<client, options, pos, cut, written>>,
         net' = net \/ net' = net \cup {Error(Peer(e))}
  PROVE  TftpInv' /\ (FT!SenderSucceeds \/ FT!SenderFails \/ FT!ReceiverFails)
<1> USE DEF TftpInv
<1>1. /\ end'[e] = [end[e] EXCEPT !.st = "exited", !.code = code]
      /\ \A f \in Ends \ {e} : end'[f] = end[f]
  BY DEF TftpTypeOK
<1>2. end'[e] \in EndSet
  BY <1>1 DEF TftpTypeOK, EndSet
<1>3. Error(Peer(e)) \in PacketSet
  BY Sizes DEF Error, Packet, PacketSet, Peer
<1>5. TftpTypeOK'
  BY <1>1, <1>2, <1>3 DEF TftpTypeOK
<1>6. /\ end'[e].nr = end[e].nr /\ end'[e].fin = end[e].fin /\ end'[e].heard = end[e].heard
      /\ end'[e].st = "exited" /\ end'[e].code = code
  BY <1>1 DEF TftpTypeOK, EndSet
<1>7. Numbers' /\ Beginnings'
  <2>1. \A f \in Ends : /\ end'[f].nr = end[f].nr /\ end'[f].heard = end[f].heard
                        /\ end'[f].st # "exited" => end'[f].st = end[f].st
    <3>1. TAKE f \in Ends
    <3>2. CASE f = e
      BY <3>2, <1>6
    <3>3. CASE f # e
      BY <3>3, <1>1
    <3> QED BY <3>2, <3>3
  <2>2. Numbers'
    BY <2>1 DEF Numbers
  <2> QED BY <2>1, <2>2 DEF Beginnings, Unheard
<1>8. Underway'
  BY DEF Underway, Error, Packet
<1>9. e = "receiver" => code # "ok"
  BY DEF Endings
<1>11. Endings'
  <2>0. \A f \in Ends : end'[f].fin = end[f].fin
    <3>1. TAKE f \in Ends
    <3>2. CASE f = e
      BY <3>2, <1>6
    <3>3. CASE f # e
      BY <3>3, <1>1
    <3> QED BY <3>2, <3>3
  <2>1. end'["sender"].fin = end["sender"].fin /\ end'["receiver"].fin = end["receiver"].fin
    BY <2>0, Zenon
  <2>2. \A f \in Ends : end'[f].code = "none" <=> end'[f].st # "exited"
    <3>1. TAKE f \in Ends
    <3>2. CASE f = e
      BY <3>2, <1>6
    <3>3. CASE f # e
      <4>1. end[f].code = "none" <=> end[f].st # "exited"
        BY DEF Endings
      <4> HIDE DEF TftpInv
      <4> QED BY <3>3, <1>1, <4>1
    <3> QED BY <3>2, <3>3
  <2>3. end'["receiver"].st # "exited" => end["receiver"].st # "exited"
    BY <1>1, <1>6
  <2>4. /\ end'["receiver"].code = "ok" =>
             Len(written') = (IF cut' THEN pos' ELSE Blocks) /\ file' = "opened"
        /\ end'["receiver"].code = "failed" => file' # "opened"
    <3>1. CASE e = "receiver"
      BY <3>1, <1>6, <1>9
    <3>2. CASE e = "sender"
      <4>1. end'["receiver"].code = end["receiver"].code /\ file' = file
        BY <3>2, <1>1
      <4> QED BY <4>1 DEF Endings
    <3> QED BY <3>1, <3>2
  <2>5. /\ end'["sender"].fin <=> pos' = Blocks \/ cut'
        /\ end'["receiver"].st # "exited" => ~ end'["receiver"].fin
    BY <2>1, <2>3 DEF Endings
  <2> HIDE DEF TftpInv
  <2> QED BY <2>2, <2>4, <2>5 DEF Endings
<1>12. FT!SenderSucceeds \/ FT!SenderFails \/ FT!ReceiverFails
  <2>1. UNCHANGED <<pos, cut, Len(written)>>
    OBVIOUS
  <2>2. Outcome(e) = "busy" /\ Outcome(e)' = IF code = "ok" THEN "ok" ELSE "failed"
    BY <1>6 DEF Outcome
  <2>3. \A f \in Ends \ {e} : Outcome(f)' = Outcome(f)
    BY <1>1 DEF Outcome
  <2> HIDE DEF TftpInv
  <2>4. CASE e = "sender"
    <3>1. Outcome("sender") = "busy" /\ UNCHANGED Outcome("receiver")
      BY <2>2, <2>3, <2>4
    <3>2. CASE code = "ok"
      <4>1. pos = Blocks \/ cut
        BY <2>4, <3>2 DEF TftpInv, Endings
      <4>2. Outcome("sender")' = "ok"
        BY <2>2, <2>4, <3>2
      <4> QED BY <2>1, <3>1, <4>1, <4>2 DEF FT!SenderSucceeds
    <3>3. CASE code # "ok"
      <4>1. Outcome("sender")' = "failed"
        BY <2>2, <2>4, <3>3
      <4> QED BY <2>1, <3>1, <4>1 DEF FT!SenderFails
    <3> QED BY <3>2, <3>3
  <2>5. CASE e = "receiver"
    <3>1. Outcome("receiver") = "busy" /\ UNCHANGED Outcome("sender")
      BY <2>2, <2>3, <2>5
    <3>2. Outcome("receiver")' = "failed"
      BY <1>9, <2>2, <2>5
    <3> QED BY <2>1, <3>1, <3>2 DEF FT!ReceiverFails
  <2> QED BY <2>4, <2>5
<1> QED BY <1>5, <1>7, <1>8, <1>11, <1>12

\* An end exits through the code that removes a partial file.
LEMMA CleanExitStep ==
  ASSUME TftpInv, NEW e \in Ends, NEW code \in {"ok", "failed"},
         end[e].code = "none", code = "ok" => end[e].fin,
         ExitTransfer(e, code),
         UNCHANGED <<client, options, pos, cut, written>>,
         net' = net \/ net' = net \cup {Error(Peer(e))}
  PROVE  TftpInv' /\ (FT!SenderSucceeds \/ FT!SenderFails \/ FT!ReceiverFails)
<1>1. /\ end' = [end EXCEPT ![e].st = "exited", ![e].code = code]
      /\ file' = IF code = "failed" /\ e = "receiver" /\ file = "opened" THEN "removed" ELSE file
  BY DEF ExitTransfer
<1>2. file \in {"old", "opened", "removed"}
  BY DEF TftpInv, TftpTypeOK
<1>3. /\ file' \in {"old", "opened", "removed"}
      /\ e = "sender" => file' = file
      /\ code = "failed" /\ e = "receiver" => file' # "opened"
  BY <1>1, <1>2
<1> QED BY <1>1, <1>3, ExitStep

\* xsendto fails: the file may have been opened just before.
LEMMA DiesStep ==
  ASSUME TftpInv, NEW e \in Ends, end[e].code = "none", Dies(e),
         file' = file \/ (e = "receiver" /\ file' = "opened"),
         UNCHANGED <<client, options, pos, cut, written>>
  PROVE  TftpInv' /\ (FT!SenderSucceeds \/ FT!SenderFails \/ FT!ReceiverFails)
<1>1. end' = [end EXCEPT ![e].st = "exited", ![e].code = "died"] /\ net' = net
  BY DEF Dies
<1>2. file \in {"old", "opened", "removed"}
  BY DEF TftpInv, TftpTypeOK
<1>3. file' \in {"old", "opened", "removed"} /\ (e = "sender" => file' = file)
  BY <1>2
<1> QED BY <1>1, <1>3, ExitStep

\* A failing read, and a peer that is gone: SendError.
LEMMA SendErrorStep ==
  ASSUME TftpInv, NEW e \in Ends, end[e].code = "none", SendError(e), UNCHANGED <<client, options>>
  PROVE  TftpInv' /\ (FT!SenderSucceeds \/ FT!SenderFails \/ FT!ReceiverFails)
<1>1. CASE ExitTransfer(e, "failed") /\ net' = net \cup {Error(Peer(e))}
  BY <1>1, CleanExitStep DEF SendError
<1>2. CASE Dies(e) /\ UNCHANGED file
  BY <1>2, DiesStep DEF SendError
<1> QED BY <1>1, <1>2 DEF SendError

\* ret: with success only if the last block is done.
LEMMA RetStep ==
  ASSUME TftpInv, NEW e \in Ends, end[e].st = "waiting", Ret(e),
         UNCHANGED <<client, options, pos, cut, written, net>>
  PROVE  TftpInv' /\ (FT!SenderSucceeds \/ FT!SenderFails \/ FT!ReceiverFails)
<1>1. end[e].code = "none"
  BY DEF TftpInv, Endings
<1>2. PICK code \in {"ok", "failed"} : ExitTransfer(e, code) /\ (code = "ok" => end[e].fin)
  <2>1. CASE end[e].fin
    BY <2>1 DEF Ret
  <2>2. CASE ~ end[e].fin
    BY <2>2 DEF Ret
  <2> QED BY <2>1, <2>2
<1> QED BY <1>1, <1>2, CleanExitStep

\* The sender's next block, or the error of reading or of sending it.
LEMMA SenderStep ==
  ASSUME TftpInv, end["sender"].code = "none", pos < Blocks, ~ cut, pos = Len(written),
         NEW nr, nr = (pos + 1) % W, SendData(nr), UNCHANGED <<client, options>>
  PROVE  TftpInv' /\ (FT!Offer \/ FT!SenderSucceeds \/ FT!SenderFails \/ FT!ReceiverFails)
<1>1. CASE SendError("sender")
  BY <1>1, SendErrorStep
<1>2. CASE Dies("sender") /\ UNCHANGED <<pos, cut, written, file>>
  BY <1>2, DiesStep
<1>3. CASE ~ SendError("sender") /\ ~ (Dies("sender") /\ UNCHANGED <<pos, cut, written, file>>)
  <2>1. PICK error \in BOOLEAN, short \in BOOLEAN :
          /\ short <=> error \/ pos + 1 = Blocks
          /\ end' = [end EXCEPT !["sender"] = Waiting((nr + 1) % W, short, TRUE)]
          /\ pos' = pos + 1
          /\ cut' = error
          /\ net' = net \cup {Data(nr, pos + 1, short)}
          /\ UNCHANGED <<written, file>>
    <3>1. PICK error \in BOOLEAN :
            LET short == error \/ pos + 1 = Blocks IN
            /\ end' = [end EXCEPT !["sender"] = Waiting((nr + 1) % W, short, TRUE)]
            /\ pos' = pos + 1
            /\ cut' = error
            /\ net' = net \cup {Data(nr, pos + 1, short)}
            /\ UNCHANGED <<written, file>>
      BY <1>3 DEF SendData
    <3>2. (error \/ pos + 1 = Blocks) \in BOOLEAN
      OBVIOUS
    <3> QED BY <3>1, <3>2
  <2> QED BY <2>1, SendDataStep
<1> QED BY <1>1, <1>2, <1>3

\* An end starts to wait, or waits once more, without a block.
LEMMA WaitStep ==
  ASSUME TftpInv, NEW e \in Ends, NEW w \in EndSet, end[e].st # "exited",
         end' = [end EXCEPT ![e] = w], w.st = "waiting", w.code = "none",
         w.nr = end[e].nr, w.fin = end[e].fin,
         w.heard \/ Unheard(e),
         file' = file \/ (e = "receiver" /\ file' = "opened"),
         UNCHANGED <<client, options, pos, cut, written>>,
         net' \subseteq PacketSet,
         \A p \in net' : p \in net \/ p.op = "OACK" \/ (p.op = "ACK" /\ p.nr = 0)
  PROVE  TftpInv' /\ UNCHANGED FT!ftVars
<1> USE DEF TftpInv
<1>1. /\ end'[e] = w /\ \A f \in Ends \ {e} : end'[f] = end[f]
      /\ end[e].code = "none"
  BY DEF TftpTypeOK, Endings
<1>2. TftpTypeOK'
  <2>1. end' \in [Ends -> EndSet]
    BY DEF TftpTypeOK
  <2>2. file' \in {"old", "opened", "removed"}
    BY DEF TftpTypeOK
  <2> QED BY <2>1, <2>2 DEF TftpTypeOK
<1>3. \A f \in Ends : /\ end'[f].nr = end[f].nr /\ end'[f].fin = end[f].fin
                      /\ end'[f].code = end[f].code
                      /\ end'[f].st = "exited" <=> end[f].st = "exited"
                      /\ end'[f].st = "idle" => end[f].st = "idle"
                      /\ end'[f].st = "waiting" /\ ~ end'[f].heard => Unheard(f)
  <2>1. TAKE f \in Ends
  <2>2. CASE f = e
    BY <2>2, <1>1 DEF Unheard
  <2>3. CASE f # e
    BY <2>3, <1>1 DEF Unheard
  <2> QED BY <2>2, <2>3
<1>4. Numbers' /\ Beginnings'
  BY <1>3 DEF Numbers, Beginnings, Unheard
<1>5. Underway'
  BY DEF Underway, TftpTypeOK
<1>6. Endings'
  <2>1. \A f \in Ends : end'[f].code = "none" <=> end'[f].st # "exited"
    BY <1>3 DEF Endings
  <2>2. end'["receiver"].code = "ok" =>
          Len(written') = (IF cut' THEN pos' ELSE Blocks) /\ file' = "opened"
    BY <1>1, <1>3 DEF Endings
  <2>3. end'["receiver"].code = "failed" => file' # "opened"
    BY <1>1, <1>3 DEF Endings
  <2>4. end'["sender"].fin <=> pos' = Blocks \/ cut'
    BY <1>3 DEF Endings
  <2>5. end'["receiver"].st # "exited" => ~ end'["receiver"].fin
    BY <1>3 DEF Endings
  <2> QED BY <2>1, <2>2, <2>3, <2>4, <2>5 DEF Endings
<1>7. UNCHANGED FT!ftVars
  BY <1>3 DEF FT!ftVars, Outcome
<1> QED BY <1>2, <1>4, <1>5, <1>6, <1>7

\* The receiver writes its next block, d, and is w behind it.
LEMMA WrittenStep ==
  ASSUME TftpInv, end["receiver"].st = "waiting", NEW d \in 1 .. Blocks,
         d = pos, d = Len(written) + 1, NEW w \in EndSet,
         w.st \in {"waiting", "exited"}, w.code \in {"none", "ok", "died"},
         w.code = "none" <=> w.st = "waiting",
         w.st = "waiting" =>
           w.nr = (d + 1) % W /\ w.heard /\ ~ w.fin /\ pos # Blocks /\ ~ cut,
         w.code = "ok" => pos = Blocks \/ cut,
         written' = Append(written, d),
         end' = [end EXCEPT !["receiver"] = w],
         file' = "opened",
         UNCHANGED <<client, options, pos, cut>>,
         net' = net \/ net' = net \cup {Ack(d)}
  PROVE  TftpInv' /\ FT!Take
<1> DEFINE g == Len(written)
<1>1. /\ g \in Nat /\ pos \in 0 .. Blocks /\ g = d - 1 /\ d = g + 1 /\ pos # 0
      /\ d \in 0 .. W - 1 /\ g < pos /\ end["receiver"].code = "none"
  BY Sizes DEF TftpInv, TftpTypeOK, Endings
<1>2. end' \in [Ends -> EndSet] /\ end'["receiver"] = w /\ end'["sender"] = end["sender"]
  BY DEF TftpInv, TftpTypeOK
<1>3. /\ written' \in Seq(1 .. Blocks) /\ Len(written') = g + 1
      /\ \A k \in 1 .. g : written'[k] = written[k]
      /\ written'[g + 1] = d
  BY DEF TftpInv, TftpTypeOK
<1>4. Ack(d) \in PacketSet
  BY <1>1, Sizes DEF Ack, Packet, PacketSet
<1>5. TftpTypeOK'
  BY <1>2, <1>3, <1>4 DEF TftpInv, TftpTypeOK
<1>6. Numbers'
  <2>1. \A k \in 1 .. Len(written') : written'[k] = k
    <3>1. \A k \in 1 .. g : written[k] = k
      BY DEF TftpInv, Numbers
    <3> HIDE DEF g
    <3>2. \A k \in 1 .. g + 1 : k \in 1 .. g \/ k = g + 1
      BY <1>1
    <3> QED BY <1>1, <1>3, <3>1, <3>2
  <2>2. Len(written') <= pos' /\ pos' <= Len(written') + 1
    <3>1. Len(written') = d
      BY <1>1, <1>3, Zenon
    <3>2. pos' = d
      OBVIOUS
    <3>3. d \in Nat
      BY Sizes
    <3> QED BY ONLY <3>1, <3>2, <3>3
  <2>3. end'["receiver"].st # "exited" => end'["receiver"].nr = (Len(written') + 1) % W
    BY <1>1, <1>2, <1>3
  <2>4. end'["sender"].nr = (pos' + 1) % W
    BY <1>2 DEF TftpInv, Numbers
  <2> QED BY ONLY <2>1, <2>2, <2>3, <2>4 DEF Numbers
<1>7. Beginnings'
  <2>1. ~ Unheard("receiver")'
    BY <1>2 DEF Unheard
  <2>2. Unheard("sender")' => Unheard("sender")
    BY <1>2 DEF Unheard
  <2>3. ~ Unheard("sender")
    BY <1>1 DEF TftpInv, Beginnings
  <2> QED BY <2>1, <2>2, <2>3 DEF Beginnings
<1>8. Underway'
  <2>1. \A p \in net' : p \in net \/ (p.op = "ACK" /\ p.nr = d)
    BY DEF Ack, Packet
  <2>2. \A p \in net : p.op = "ACK" => p.nr <= Len(written')
    <3>1. \A p \in net : p.nr \in Nat /\ (p.op = "ACK" => p.nr <= g)
      BY Sizes DEF TftpInv, Underway, TftpTypeOK, PacketSet
    <3> HIDE DEF g
    <3> QED BY <1>1, <1>3, <3>1
  <2>3. \A p \in net : p.op = "DATA" =>
          /\ p.data \in 1 .. pos' /\ p.nr = p.data
          /\ p.short <=> p.data = pos' /\ (pos' = Blocks \/ cut')
    BY DEF TftpInv, Underway
  <2>4. d <= Len(written')
    BY <1>1, <1>3
  <2> QED BY ONLY <2>1, <2>2, <2>3, <2>4 DEF Underway
<1>9. Endings'
  <2>1. \A f \in Ends : end'[f].code = "none" <=> end'[f].st # "exited"
    BY <1>2 DEF TftpInv, Endings
  <2>2. end'["receiver"].code = "ok" =>
          Len(written') = (IF cut' THEN pos' ELSE Blocks) /\ file' = "opened"
    BY <1>1, <1>2, <1>3
  <2>3. end'["sender"].fin <=> pos' = Blocks \/ cut'
    BY <1>2 DEF TftpInv, Endings
  <2>4. /\ end'["receiver"].st # "exited" => ~ end'["receiver"].fin
        /\ end'["receiver"].code = "failed" => file' # "opened"
    BY <1>2
  <2> QED BY <2>1, <2>2, <2>3, <2>4 DEF Endings
<1>10. FT!Take
  <2>1. Outcome("receiver") = "busy" /\ UNCHANGED Outcome("sender")
    BY <1>1, <1>2 DEF Outcome
  <2>2. Len(written') = g + 1 /\ g < pos /\ UNCHANGED <<pos, cut>>
    BY <1>1, <1>3, Zenon
  <2>3. Outcome("receiver")' \in
          IF Len(written') = Blocks \/ cut THEN {"ok", "failed"} ELSE {"busy", "failed"}
    <3>1. Len(written') = pos
      BY <1>1, <1>3
    <3> QED BY <3>1, <1>2 DEF Outcome
  <2> QED BY <2>1, <2>2, <2>3 DEF FT!Take
<1> QED BY ONLY <1>5, <1>6, <1>7, <1>8, <1>9, <1>10 DEF TftpInv

\* The block the receiver expects: the next one of the file.
LEMMA ReceiveDataStep ==
  ASSUME TftpInv, NEW d \in 1 .. Blocks, NEW short \in BOOLEAN, ReceiveData(d, short)
  PROVE  TftpInv' /\ (FT!Take \/ FT!SenderSucceeds \/ FT!SenderFails \/ FT!ReceiverFails)
<1> DEFINE g == Len(written)
           me == end["receiver"]
<1>1. /\ me.st = "waiting" /\ me.code = "none" /\ Data(d % W, d, short) \in net
      /\ d % W = me.nr
      /\ UNCHANGED <<client, options, pos, cut>>
  BY DEF ReceiveData, TftpInv, Endings
<1>2. d \in 0 .. W - 1 /\ d % W = d /\ d \in 1 .. pos /\ (short <=> d = pos /\ (pos = Blocks \/ cut))
  <2>1. d \in 0 .. W - 1
    BY Sizes
  <2>2. d \in 1 .. pos /\ (short <=> d = pos /\ (pos = Blocks \/ cut))
    BY <1>1 DEF TftpInv, Underway, Data, Packet
  <2> QED BY <2>1, <2>2, NumberOfBlock
<1>3. g \in Nat /\ pos \in 0 .. Blocks /\ g <= pos /\ pos <= g + 1 /\ me.nr = (g + 1) % W
  BY <1>1 DEF TftpInv, TftpTypeOK, Numbers
<1>4. d = g + 1 /\ d = pos
  <2>1. CASE g + 1 = W
    BY <2>1, <1>1, <1>2, <1>3, NumberAtWrap
  <2>2. CASE g + 1 # W
    <3>1. g + 1 \in 0 .. W - 1
      BY <2>2, <1>3, Sizes
    <3>2. (g + 1) % W = g + 1
      BY <3>1, NumberOfBlock
    <3> QED BY <3>2, <1>1, <1>2, <1>3
  <2> QED BY <2>1, <2>2
<1>5. short <=> pos = Blocks \/ cut
  BY <1>2, <1>4
<1>6. ASSUME Dies("receiver"), file' = file \/ file' = "opened", written' = written
      PROVE  TftpInv' /\ (FT!SenderSucceeds \/ FT!SenderFails \/ FT!ReceiverFails)
  BY <1>1, <1>6, DiesStep
<1>7. CASE /\ end' = [end EXCEPT !["receiver"].st = "exited", !["receiver"].code = "failed"]
           /\ file' = "removed"
           /\ net' = net \cup {Error("sender")}
           /\ UNCHANGED written
  <2>1. Peer("receiver") = "sender"
    BY DEF Peer
  <2> QED BY <1>1, <1>7, <2>1, ExitStep
<1>8. CASE written' = Append(written, d) /\ file' = "opened"
  <2>1. CASE end' = [end EXCEPT !["receiver"] = Received(d, short)] /\ net' = net \cup {Ack(d % W)}
    <3> DEFINE w == Received(d, short)
    <3>1. (d + 1) % W \in 0 .. W - 1 /\ Retries \in 1 .. Retries
      <4>1. d + 1 \in Int
        OBVIOUS
      <4>2. (d + 1) % W \in 0 .. W - 1
        BY ONLY <4>1, NumberTyped
      <4> QED BY ONLY <4>2, TftpAssumption
    <3>2. w \in EndSet
      BY <1>2, <3>1 DEF Received, EndSet
    <3>3. /\ w.st = (IF short THEN "exited" ELSE "waiting") /\ w.nr = (d + 1) % W /\ w.heard
          /\ (w.fin <=> short) /\ w.code = (IF short THEN "ok" ELSE "none")
      BY <1>2 DEF Received
    <3> HIDE DEF w
    <3>4. /\ w.st \in {"waiting", "exited"} /\ w.code \in {"none", "ok", "died"}
          /\ w.code = "none" <=> w.st = "waiting"
          /\ w.st = "waiting" =>
               w.nr = (d + 1) % W /\ w.heard /\ ~ w.fin /\ pos # Blocks /\ ~ cut
          /\ w.code = "ok" => pos = Blocks \/ cut
      BY <1>5, <3>3
    <3>5. end' = [end EXCEPT !["receiver"] = w] /\ net' = net \cup {Ack(d)}
      BY <1>2, <2>1 DEF w
    <3> QED BY <1>1, <1>4, <1>8, <3>2, <3>4, <3>5, WrittenStep
  <2>2. CASE Dies("receiver")
    <3> DEFINE w == [me EXCEPT !.st = "exited", !.code = "died"]
    <3>1. me \in EndSet
      BY DEF TftpInv, TftpTypeOK
    <3>2. w \in EndSet /\ w.st = "exited" /\ w.code = "died"
      BY <3>1 DEF EndSet
    <3>3. end' = [end EXCEPT !["receiver"] = w] /\ net' = net
      BY <2>2 DEF Dies
    <3> HIDE DEF w
    <3> QED BY <1>1, <1>4, <1>8, <3>2, <3>3, WrittenStep
  <2> QED BY <1>8, <2>1, <2>2 DEF ReceiveData
<1>9. CASE Dies("receiver") /\ (file' = file \/ file' = "opened") /\ UNCHANGED written
  BY <1>6, <1>9
<1> QED BY <1>7, <1>8, <1>9 DEF ReceiveData

-----------------------------------------------------------------------------
\* What every step of the transfer does to the abstract one.
FTStep == FT!FTNext \/ UNCHANGED FT!ftVars

\* The first packet of an end that starts to wait.
LEMMA FirstWait ==
  ASSUME TftpInv, NEW e \in Ends,
         Unheard(e),
         end' = [end EXCEPT ![e] = Waiting(1, FALSE, TRUE)],
         file' = file \/ (e = "receiver" /\ file' = "opened"),
         UNCHANGED <<client, options, pos, cut, written>>,
         net' = net \cup {Oack(client)} \/ net' = net \cup {Ack(0)}
  PROVE  TftpInv' /\ UNCHANGED FT!ftVars
<1> DEFINE w == Waiting(1, FALSE, TRUE)
<1>1. 1 \in 0 .. W - 1 /\ 1 % W = 1 /\ Retries \in 1 .. Retries
  BY Sizes, NumberOfBlock, TftpAssumption
<1>2. w \in EndSet
  BY <1>1 DEF Waiting, EndSet
<1>3. w.st = "waiting" /\ w.code = "none" /\ w.nr = 1 /\ w.fin = FALSE /\ w.heard
  BY DEF Waiting
<1>4. end[e].nr = 1
  <2>1. CASE e = "sender"
    BY <2>1, <1>1 DEF TftpInv, Beginnings, Unheard, Numbers, TftpTypeOK
  <2>2. CASE e = "receiver"
    BY <2>2, <1>1 DEF TftpInv, Beginnings, Unheard, Numbers, TftpTypeOK
  <2> QED BY <2>1, <2>2
<1>5. end[e].fin = FALSE
  <2>1. end[e].fin \in BOOLEAN
    BY DEF TftpInv, TftpTypeOK, EndSet
  <2>2. CASE e = "sender"
    <3>1. pos = 0 /\ pos # Blocks /\ ~ cut
      BY <2>2, Sizes DEF TftpInv, Beginnings
    <3>2. ~ end["sender"].fin
      BY <3>1 DEF TftpInv, Endings
    <3> QED BY <2>1, <2>2, <3>2
  <2>3. CASE e = "receiver"
    BY <2>1, <2>3 DEF TftpInv, Endings, Unheard
  <2> QED BY <2>2, <2>3
<1>6. Oack(client) \in PacketSet /\ Ack(0) \in PacketSet
  BY Sizes DEF Oack, Ack, Packet, PacketSet, TftpInv, TftpTypeOK
<1>7. net' \subseteq PacketSet
  BY <1>6 DEF TftpInv, TftpTypeOK
<1>8. \A p \in net' : p \in net \/ p.op = "OACK" \/ (p.op = "ACK" /\ p.nr = 0)
  BY DEF Oack, Ack, Packet
<1>9. end[e].st # "exited"
  BY DEF Unheard
<1>10. end' = [end EXCEPT ![e] = w]
  OBVIOUS
<1>11. w.nr = end[e].nr /\ w.fin = end[e].fin /\ w.heard
  BY <1>3, <1>4, <1>5
<1> HIDE DEF w
<1> QED BY <1>2, <1>3, <1>7, <1>8, <1>9, <1>10, <1>11, WaitStep

\* Every step keeps the invariant and is a step or a stutter of FileTransfer.
LEMMA NextStep == TftpInv /\ [TftpNext]_tftpVars => TftpInv' /\ FTStep
<1> SUFFICES ASSUME TftpInv, [TftpNext]_tftpVars PROVE TftpInv' /\ FTStep
  OBVIOUS
<1> USE DEF FTStep, FT!FTNext
<1>0. /\ pos \in 0 .. Blocks /\ Len(written) \in Nat /\ Len(written) <= pos
      /\ end["sender"].nr = (pos + 1) % W
      /\ \A e \in Ends : end[e].st # "exited" => end[e].code = "none"
  BY DEF TftpInv, TftpTypeOK, Numbers, Endings
<1>1. 1 % W = 1 /\ (0 + 1) % W = 1
  <2>1. 1 \in 0 .. W - 1
    BY Sizes
  <2> QED BY <2>1, NumberOfBlock
<1>2. ASSUME NEW e \in Ends, Unheard(e), (e = "receiver" /\ SendAck(0)) \/ SendOack(e),
             file' = file \/ (e = "receiver" /\ file' = "opened"),
             UNCHANGED <<client, options, pos, cut, written>>
      PROVE  TftpInv' /\ FTStep
  <2>1. end[e].code = "none"
    BY <1>0, <1>2 DEF Unheard
  <2>2. CASE Dies(e)
    BY <1>2, <2>1, <2>2, DiesStep
  <2>3. CASE ~ Dies(e)
    <3>1. /\ end' = [end EXCEPT ![e] = Waiting(1, FALSE, TRUE)]
          /\ net' = net \cup {Ack(0)} \/ net' = net \cup {Oack(client)}
      BY <1>1, <1>2, <2>3 DEF SendAck, SendOack
    <3> QED BY <1>2, <3>1, FirstWait
  <2> QED BY <2>2, <2>3
<1>3. ASSUME pos = 0, ~ cut, end["sender"].code = "none", SendData(1),
             UNCHANGED <<client, options>>
      PROVE  TftpInv' /\ FTStep
  <2>1. pos < Blocks /\ pos = Len(written) /\ 1 = (pos + 1) % W
    BY <1>0, <1>1, <1>3, Sizes
  <2> QED BY <1>3, <2>1, SenderStep
<1>4. CASE StartServer
  <2> DEFINE e == Peer(client)
  <2>1. e \in Ends /\ end[e].st = "idle" /\ Unheard(e) /\ UNCHANGED <<client, options>>
    BY <1>4 DEF StartServer, Peer, Unheard
  <2>2. CASE options
    BY <1>4, <2>1, <2>2, <1>2 DEF StartServer
  <2>3. CASE ~ options /\ e = "sender"
    <3>1. pos = 0 /\ ~ cut /\ end["sender"].code = "none"
      BY <2>1, <2>3, <1>0 DEF TftpInv, Beginnings, Unheard
    <3> QED BY <1>4, <2>1, <2>3, <3>1, <1>3 DEF StartServer
  <2>4. CASE ~ options /\ e # "sender"
    <3>1. e = "receiver"
      BY <2>1, <2>4
    <3> QED BY <1>4, <2>1, <2>4, <3>1, <1>2 DEF StartServer
  <2> QED BY <2>2, <2>3, <2>4
<1>5. CASE RefuseRequest
  BY <1>5, <1>0, SendErrorStep DEF RefuseRequest, Peer
<1>6. CASE ReceiveOack
  <2>1. /\ client \in Ends /\ end[client].st = "waiting" /\ Unheard(client)
        /\ end[client].code = "none" /\ UNCHANGED <<client, options>>
    BY <1>6, <1>0 DEF ReceiveOack, TftpInv, TftpTypeOK, Unheard
  <2>2. CASE client = "sender" /\ SendData(end[client].nr)
    <3>1. pos = 0 /\ ~ cut
      BY <2>1, <2>2 DEF TftpInv, Beginnings, Unheard
    <3> QED BY <2>1, <2>2, <3>1, <1>0, <1>1, <1>3
  <2>3. CASE client = "receiver" /\ SendAck(0) /\ UNCHANGED <<pos, cut, written, file>>
    BY <2>1, <2>3, <1>2
  <2>4. CASE SendError(client)
    BY <2>1, <2>4, SendErrorStep
  <2> QED BY <1>6, <2>2, <2>3, <2>4 DEF ReceiveOack
<1>7. ASSUME NEW d \in 1 .. Blocks, NEW short \in BOOLEAN, ReceiveData(d, short)
      PROVE  TftpInv' /\ FTStep
  BY <1>7, ReceiveDataStep
<1>8. ASSUME NEW nr \in 0 .. W - 1, ReceiveAck(nr) PROVE TftpInv' /\ FTStep
  <2>1. /\ end["sender"].st = "waiting" /\ end["sender"].code = "none"
        /\ nr = (end["sender"].nr - 1) % W /\ UNCHANGED <<client, options>>
    BY <1>8, <1>0 DEF ReceiveAck
  <2>2. nr <= Len(written)
    BY <1>8 DEF ReceiveAck, TftpInv, Underway, Ack, Packet
  <2>3. pos = Len(written)
    <3>1. pos \in 0 .. W - 1 /\ pos % W = pos
      <4>1. pos \in 0 .. W - 1
        BY <1>0, Sizes
      <4> QED BY <4>1, NumberOfBlock
    <3>2. CASE pos + 1 = W
      <4>1. end["sender"].nr = 0 /\ nr = W - 1
        BY <3>2, <2>1, <1>0, NumberAtWrap
      <4> QED BY <3>2, <4>1, <2>2, <1>0, Sizes
    <3>3. CASE pos + 1 # W
      <4>1. pos + 1 \in 0 .. W - 1
        BY <3>1, <3>3, Sizes
      <4>2. (pos + 1) % W = pos + 1
        BY <4>1, NumberOfBlock
      <4>3. (pos + 1) - 1 = pos
        BY <3>1
      <4>4. nr = pos
        BY <4>2, <4>3, <3>1, <2>1, <1>0
      <4> QED BY <4>4, <2>2, <1>0
    <3> QED BY <3>2, <3>3
  <2>4. CASE end["sender"].fin
    BY <2>1, <2>4, <1>8, RetStep DEF ReceiveAck
  <2>5. CASE ~ end["sender"].fin
    <3>1. pos < Blocks /\ ~ cut
      BY <2>5, <1>0, Sizes DEF TftpInv, Endings
    <3> QED BY <2>1, <2>3, <2>5, <3>1, <1>0, <1>8, SenderStep DEF ReceiveAck
  <2> QED BY <2>4, <2>5
<1>9. ASSUME NEW e \in Ends, ReceiveError(e) PROVE TftpInv' /\ FTStep
  BY <1>9, RetStep DEF ReceiveError
<1>10. ASSUME NEW e \in Ends, Timeout(e) PROVE TftpInv' /\ FTStep
  <2>1. CASE end[e].retries = 1
    BY <1>10, <2>1, RetStep DEF Timeout
  <2>2. CASE Dies(e) /\ UNCHANGED <<client, options, pos, cut, written, file>>
    <3>1. end[e].code = "none"
      BY <1>10, <1>0 DEF Timeout
    <3> QED BY <2>2, <3>1, DiesStep
  <2>3. CASE /\ end[e].retries # 1
             /\ end' = [end EXCEPT ![e].retries = @ - 1]
             /\ UNCHANGED <<client, options, pos, cut, written, file, net>>
    <3> DEFINE me == end[e]
               w == [st |-> me.st, nr |-> me.nr, fin |-> me.fin, retries |-> me.retries - 1,
                     heard |-> me.heard, code |-> me.code]
    <3>1. me \in EndSet /\ end \in [Ends -> EndSet] /\ end' = [end EXCEPT ![e].retries = @ - 1]
      BY <2>3 DEF TftpInv, TftpTypeOK
    <3>2. me.retries - 1 \in 1 .. Retries
      <4>1. me.retries \in 1 .. Retries /\ me.retries # 1 /\ Retries \in Nat
        BY <3>1, <2>3, TftpAssumption DEF EndSet
      <4> HIDE DEF me
      <4> QED BY <4>1
    <3>3. w \in EndSet
      BY <3>1, <3>2 DEF EndSet
    <3>4. end' = [end EXCEPT ![e] = w]
      <4>1. [me EXCEPT !.retries = @ - 1] = w
        <5>1. me = [st |-> me.st, nr |-> me.nr, fin |-> me.fin, retries |-> me.retries,
                    heard |-> me.heard, code |-> me.code]
          BY <3>1 DEF EndSet
        <5> HIDE DEF me
        <5> QED BY <5>1
      <4>2. end' = [end EXCEPT ![e] = [me EXCEPT !.retries = @ - 1]]
        BY <3>1
      <4> HIDE DEF me, w
      <4> QED BY <4>1, <4>2
    <3>5. w.st = "waiting" /\ w.code = "none" /\ w.nr = me.nr /\ w.fin = me.fin /\ w.heard = me.heard
      BY <1>10, <1>0 DEF Timeout
    <3>6. net' \subseteq PacketSet /\ net' = net /\ me.st = "waiting"
      BY <1>10, <2>3 DEF Timeout, TftpInv, TftpTypeOK
    <3>7. w.heard \/ Unheard(e)
      BY <3>5, <3>6 DEF Unheard
    <3> HIDE DEF w
    <3> QED BY <2>3, <3>3, <3>4, <3>5, <3>6, <3>7, WaitStep
  <2> QED BY <1>10, <2>1, <2>2, <2>3 DEF Timeout
<1>11. ASSUME NEW e \in Ends, Refused(e) PROVE TftpInv' /\ FTStep
  <2>1. end[e].code = "none" /\ UNCHANGED <<client, options>>
    BY <1>11, <1>0 DEF Refused
  <2> QED BY <1>11, <2>1, SendErrorStep DEF Refused
<1>12. CASE TftpDone \/ UNCHANGED tftpVars
  <2>1. UNCHANGED tftpVars
    BY <1>12 DEF TftpDone
  <2>2. UNCHANGED <<client, options, end, pos, cut, written, file, net>>
    BY <2>1 DEF tftpVars
  <2>3. TftpTypeOK' /\ Numbers' /\ Beginnings' /\ Underway' /\ Endings'
    BY <2>2 DEF TftpInv, TftpTypeOK, Numbers, Beginnings, Unheard, Underway, Endings
  <2>4. UNCHANGED FT!ftVars
    BY <2>2 DEF FT!ftVars, Outcome
  <2> QED BY <2>3, <2>4 DEF TftpInv
<1>13. ASSUME NEW e \in Ends, PollFails(e) PROVE TftpInv' /\ FTStep
  BY <1>13, RetStep DEF PollFails
<1> QED BY <1>4, <1>5, <1>6, <1>7, <1>8, <1>9, <1>10, <1>11, <1>12, <1>13 DEF TftpNext

LEMMA InvStep == TftpInv /\ [TftpNext]_tftpVars => TftpInv'
BY NextStep

LEMMA Invariance == TftpSpec => []TftpInv
BY InitInv, InvStep, PTL DEF TftpSpec

LEMMA Faithful == TftpInv => FileFaithful
BY DEF TftpInv, Numbers, Endings, FileFaithful

\* Every variable of the transfer keeps its type (tftp_protocol's locals, the
\* files and the packets).
THEOREM TypesOfTransfer == TftpSpec => []TftpTypeOK
<1>1. TftpInv => TftpTypeOK
  BY DEF TftpInv
<1> QED BY <1>1, Invariance, PTL

\* tftp_protocol: what the receiver has written is a prefix of the file, and
\* success means the whole of it, or all that was read when an error cut a
\* block short; for every file whose blocks do not wrap.
THEOREM FileIsFaithful == TftpSpec => []FileFaithful
BY Faithful, Invariance, PTL

\* tftp and tftpd implement FileTransfer, with and without options, uploading
\* and downloading, wherever a read, a write or a send fails.
THEOREM Implements == TftpSpec => TransfersFile
<1>1. TftpInit => FT!FTInit
  BY InitInv
<1>2. TftpInv /\ [TftpNext]_tftpVars => [FT!FTNext]_FT!ftVars
  BY NextStep DEF FTStep
<1> QED BY <1>1, <1>2, Invariance, PTL DEF TftpSpec, TransfersFile, FT!FTSpec

HIDE DEF Ends

-----------------------------------------------------------------------------
(* Timeout.  The signal reaches who has the pid when it is sent; the       *)
(* invariant says who that can be from the moment the child asks for its   *)
(* parent.                                                                 *)

\* The process and its pid change together until it is over.
PidHeld ==
  /\ tpc \in {"fork", "wait"} <=> holder = "timeout"
  /\ tpc = "prog" <=> holder = "prog"

\* The watcher comes from a child that has asked for its parent, and a child
\* that exits with success has left a watcher.
Descent ==
  /\ tpc = "fork" => cpc = "none"
  /\ gpc # "none" => cpc \in {"exiting", "exited", "failed", "reaped"}
  /\ cpc \in {"exiting", "exited"} => gpc # "none"
  /\ cpc \in {"daemonize", "exiting", "exited"} \/ gpc # "none" => aim # "none"

\* A pid that is free or of another process is so behind the watcher's back.
BehindItsBack ==
  /\ aim = "init" => tpc = "over"
  /\ aim = "pid" /\ gpc # "done" /\ holder = "free" => unseen \/ swapped
  /\ aim = "pid" /\ gpc # "done" /\ holder = "other" => swapped

TimeoutInv == TimeoutTypeOK /\ PidHeld /\ Descent /\ BehindItsBack /\ WatcherAim

-----------------------------------------------------------------------------
LEMMA TimeoutInitInv == TimeoutInit => TimeoutInv
<1> SUFFICES ASSUME TimeoutInit PROVE TimeoutInv
  OBVIOUS
<1>1. TimeoutTypeOK
  <2>1. left \in Int
    BY TimeoutAssumption DEF TimeoutInit
  <2>2. root \in BOOLEAN /\ foreign \in BOOLEAN /\ misled \in BOOLEAN /\ unseen \in BOOLEAN /\ swapped \in BOOLEAN
    BY DEF TimeoutInit
  <2> QED BY <2>1, <2>2 DEF TimeoutInit, TimeoutTypeOK, Holders
<1>2. PidHeld /\ Descent
  BY DEF TimeoutInit, PidHeld, Descent
<1>3. BehindItsBack /\ WatcherAim
  BY DEF TimeoutInit, BehindItsBack, WatcherAim
<1> QED BY <1>1, <1>2, <1>3 DEF TimeoutInv

\* The parent: its fork, its wait, and PROG in its place.
LEMMA ParentKeeps ==
  ASSUME TimeoutInv, ParentStep \/ ForkFails \/ ProcessEnds \/ ProgChangesUser
  PROVE  TimeoutInv'
<1> USE DEF TimeoutInv, TimeoutTypeOK, Holders, PidHeld, Descent, BehindItsBack, WatcherAim
<1>1. CASE Fork
  BY <1>1 DEF Fork
<1>2. CASE ForkFails
  BY <1>2 DEF ForkFails
<1>3. CASE WaitForChild
  BY <1>3 DEF WaitForChild, Become
<1>4. CASE WaitForInherited
  BY <1>4 DEF WaitForInherited, Become
<1>5. CASE ProcessEnds
  BY <1>5 DEF ProcessEnds
<1>6. CASE ProgChangesUser
  BY <1>6 DEF ProgChangesUser
<1> QED BY <1>1, <1>2, <1>3, <1>4, <1>5, <1>6 DEF ParentStep

\* The child, on its way to the watcher, and the child from before exec.
LEMMA ChildKeeps ==
  ASSUME TimeoutInv, ChildStep \/ ChildFails \/ InheritedEnds
  PROVE  TimeoutInv'
<1> USE DEF TimeoutInv, TimeoutTypeOK, Holders, PidHeld, Descent, BehindItsBack, WatcherAim
<1>1. CASE GetParent
  BY <1>1 DEF GetParent
<1>2. CASE Daemonize
  BY <1>2 DEF Daemonize
<1>3. CASE ChildFails
  BY <1>3 DEF ChildFails
<1>4. CASE InheritedEnds
  BY <1>4 DEF InheritedEnds
<1>5. CASE ChildExits
  BY <1>5 DEF ChildExits
<1> QED BY <1>1, <1>2, <1>3, <1>4, <1>5 DEF ChildStep

\* The pid, once its process was waited for.
LEMMA PidKeeps ==
  ASSUME TimeoutInv, PidFreed \/ PidReused
  PROVE  TimeoutInv'
<1> USE DEF TimeoutInv, TimeoutTypeOK, Holders, PidHeld, Descent, BehindItsBack, WatcherAim
<1>1. CASE PidFreed
  <2>1. unseen' \in BOOLEAN /\ (holder = "zombie" \/ unseen => unseen')
    BY <1>1, Zenon DEF PidFreed
  <2>2. foreign' \in BOOLEAN /\ UNCHANGED <<tpc, cpc, gpc, aim, left, root, inherited, hit, misled, swapped>>
    BY <1>1 DEF PidFreed
  <2>3. holder \in {"zombie", "other"} /\ holder' = "free"
    BY <1>1 DEF PidFreed
  <2> QED BY <2>1, <2>2, <2>3
<1>2. CASE PidReused
  <2>1. /\ foreign' \in BOOLEAN /\ swapped' \in BOOLEAN
        /\ unseen \/ swapped => swapped'
    BY <1>2, Zenon DEF PidReused
  <2>2. UNCHANGED <<tpc, cpc, gpc, aim, left, root, inherited, hit, misled, unseen>>
    BY <1>2 DEF PidReused
  <2>3. holder = "free" /\ holder' = "other"
    BY <1>2 DEF PidReused
  <2> QED BY <2>1, <2>2, <2>3
<1> QED BY <1>1, <1>2

\* The watcher's loop.
LEMMA WatcherKeeps ==
  ASSUME TimeoutInv, WatcherStep
  PROVE  TimeoutInv'
<1> USE DEF TimeoutInv, TimeoutTypeOK, Holders, PidHeld, Descent, BehindItsBack, WatcherAim
<1>1. CASE WatcherSleeps
  BY <1>1 DEF WatcherSleeps
<1>2. CASE WatcherLooks
  <2>1. unseen' \in BOOLEAN /\ ~ unseen'
    BY <1>2, Zenon DEF WatcherLooks
  <2>2. /\ gpc = "check" /\ gpc' \in {"sleep", "done"}
        /\ aim = "pid" /\ gpc' # "done" => holder # "free"
        /\ UNCHANGED <<tpc, holder, cpc, aim, left, root, foreign, inherited, hit, misled, swapped>>
    BY <1>2 DEF WatcherLooks, MayKill
  <2> QED BY <2>1, <2>2
<1>3. CASE WatcherKills
  <2>1. /\ gpc = "kill" /\ gpc' = "done"
        /\ UNCHANGED <<cpc, aim, left, root, foreign, inherited, misled, unseen, swapped>>
    BY <1>3, Zenon DEF WatcherKills
  <2>2. CASE aim = "pid"
    <3>1. hit' \in {holder, "nobody"}
      BY <1>3, <2>2 DEF WatcherKills
    <3>2. IF hit' = "timeout" THEN tpc' = "over" /\ holder' = "zombie" ELSE UNCHANGED <<tpc, holder>>
      BY <1>3, Zenon DEF WatcherKills
    <3> QED BY <2>1, <2>2, <3>1, <3>2
  <2>3. CASE aim # "pid"
    <3>1. aim = "init" /\ hit' \in {"init", "nobody"} /\ (hit' = "init" => root)
      BY <1>3, <2>3 DEF WatcherKills, MayKill
    <3>2. UNCHANGED <<tpc, holder>>
      BY <1>3, <3>1 DEF WatcherKills
    <3> QED BY <2>1, <2>3, <3>1, <3>2
  <2> QED BY <2>2, <2>3
<1> QED BY <1>1, <1>2, <1>3 DEF WatcherStep

LEMMA TimeoutStep == TimeoutInv /\ [TimeoutNext]_timeoutVars => TimeoutInv'
<1> SUFFICES ASSUME TimeoutInv, [TimeoutNext]_timeoutVars PROVE TimeoutInv'
  OBVIOUS
<1>1. CASE TimeoutDone \/ UNCHANGED timeoutVars
  BY <1>1 DEF TimeoutDone, timeoutVars, TimeoutInv, TimeoutTypeOK, PidHeld, Descent,
              BehindItsBack, WatcherAim
<1> QED BY <1>1, ParentKeeps, ChildKeeps, PidKeeps, WatcherKeeps DEF TimeoutNext

LEMMA TimeoutInvariance == TimeoutSpec => []TimeoutInv
BY TimeoutInitInv, TimeoutStep, PTL DEF TimeoutSpec

\* Every variable of timeout, its child and its watcher keeps its type.
THEOREM TypesOfTimeout == TimeoutSpec => []TimeoutTypeOK
<1>1. TimeoutInv => TimeoutTypeOK
  BY DEF TimeoutInv
<1> QED BY <1>1, TimeoutInvariance, PTL

\* timeout_main, "kill(parent) may kill wrong process!": whatever SECS is, the
\* signal reaches another process only when the pid changed hands between two
\* looks, and PROG has a watcher that aims at it unless wait took an inherited
\* child for the own one, which had failed.
THEOREM WatcherAims == TimeoutSpec => []WatcherAim
<1>1. TimeoutInv => WatcherAim
  BY DEF TimeoutInv
<1> QED BY <1>1, TimeoutInvariance, PTL

-----------------------------------------------------------------------------
(* The four programs share nothing: a step of one is a stutter of the rest. *)

LEMMA AppletSteps ==
  ASSUME [AppletsNext]_appletVars
  PROVE  /\ [RunsvNext]_runsvVars /\ [TftpNext]_tftpVars
         /\ [SyslogNext]_syslogVars /\ [TimeoutNext]_timeoutVars
<1>1. CASE RunsvTurn
  BY <1>1 DEF RunsvTurn
<1>2. CASE TftpTurn
  BY <1>2 DEF TftpTurn
<1>3. CASE SyslogTurn
  BY <1>3 DEF SyslogTurn
<1>4. CASE TimeoutTurn
  BY <1>4 DEF TimeoutTurn
<1>5. CASE UNCHANGED appletVars
  BY <1>5 DEF appletVars
<1> QED
  BY <1>1, <1>2, <1>3, <1>4, <1>5 DEF AppletsNext

LEMMA AppletsRunAlone == AppletsSpec => RunsvSpec /\ TftpSpec /\ SyslogSpec /\ TimeoutSpec
<1>1. AppletsInit => RunsvInit /\ TftpInit /\ SyslogInit /\ TimeoutInit
  BY DEF AppletsInit
<1> QED
  BY <1>1, AppletSteps, PTL DEF AppletsSpec, RunsvSpec, TftpSpec, SyslogSpec, TimeoutSpec

\* runsv, tftp, syslogd with its logreads, and timeout keep the types of their
\* variables, whichever of them runs.
THEOREM TypesOfApplets == AppletsSpec => []AppletsTypeOK
<1>1. RunsvTypeOK /\ TftpTypeOK /\ SyslogTypeOK /\ TimeoutTypeOK => AppletsTypeOK
  BY DEF AppletsTypeOK
<1> QED
  BY <1>1, AppletsRunAlone, TypesOfRunsv, TypesOfTransfer, TypesOfSyslog, TypesOfTimeout, PTL
=============================================================================
