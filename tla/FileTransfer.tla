----------------------------- MODULE FileTransfer -----------------------------
(***************************************************************************)
(* What tftp and tftpd promise together, without packets: the sender is at *)
(* most one block ahead of the receiver.  A receiver that succeeds has all *)
(* that the sender read, which is the whole file unless reading it failed  *)
(* in the middle of a block; it may have it all and fail.  A sender that   *)
(* succeeds has offered it: whether the last block arrived it cannot       *)
(* promise, it may give up waiting for that.                               *)
(***************************************************************************)
EXTENDS Naturals

CONSTANT Blocks    \* data blocks of the file, the last one is short

VARIABLES
  sent, got,        \* blocks
  cut,              \* reading failed inside the last block sent
  sender, receiver  \* outcome of each end

ftVars == <<sent, got, cut, sender, receiver>>

Outcomes == {"busy", "ok", "failed"}

FTInit == sent = 0 /\ got = 0 /\ cut = FALSE /\ sender = "busy" /\ receiver = "busy"

Offer ==
  /\ sender = "busy" /\ sent = got /\ sent < Blocks /\ ~ cut
  /\ sent' = sent + 1
  /\ cut' \in BOOLEAN
  /\ UNCHANGED <<got, sender, receiver>>

Take ==
  /\ receiver = "busy" /\ got < sent
  /\ got' = got + 1
  /\ receiver' \in IF got' = Blocks \/ cut THEN {"ok", "failed"} ELSE {"busy", "failed"}
  /\ UNCHANGED <<sent, cut, sender>>

SenderSucceeds ==
  /\ sender = "busy" /\ (sent = Blocks \/ cut)
  /\ sender' = "ok"
  /\ UNCHANGED <<sent, got, cut, receiver>>

SenderFails ==
  /\ sender = "busy"
  /\ sender' = "failed"
  /\ UNCHANGED <<sent, got, cut, receiver>>

ReceiverFails ==
  /\ receiver = "busy"
  /\ receiver' = "failed"
  /\ UNCHANGED <<sent, got, cut, sender>>

FTNext == Offer \/ Take \/ SenderSucceeds \/ SenderFails \/ ReceiverFails

FTSpec == FTInit /\ [][FTNext]_ftVars
=============================================================================
