------------------------------ MODULE MCApplets ------------------------------
(* Four programs of busybox that share nothing, checked side by side: in a *)
(* behaviour one of them runs and the others stay where they start.        *)
EXTENDS Runsv, Tftp, SyslogRing, Timeout

CONSTANTS r1, r2    \* readers of the log

VARIABLE program

Programs == {"runsv", "tftp", "syslog", "timeout"}
appletVars == <<program, runsvVars, tftpVars, syslogVars, timeoutVars>>

\* The letters that kill, restart and stop do so with and without a handler.
MCMainLetters == {"d", "u", "x", "t", "k", "p", "c", "o", "h"}
MCLogLetters == {"d", "u", "x", "t", "k", "p"}
MCHandled == {"t", "k"}
MCDurations == {0, 1, 3}
MCLengths == {2, 3}
MCReaders == {r1, r2}

\* Fewer messages are logged when syslogd is killed, and when two readers are
\* there at once, which both follow then.
MaxKilled == 3
MaxShared == 1
MCLogged ==
  /\ kills' > 0 => Len(lens') <= MaxKilled
  /\ rst'[r2] # "off" => follow[r1] = 1 /\ Len(lens') <= MaxShared /\ kills' = 0

\* One initial state is enough for a program that does not run.
AppletsInit ==
  /\ program \in Programs
  /\ RunsvInit /\ TftpInit /\ SyslogInit /\ TimeoutInit
  /\ program # "runsv" => ~ haslog /\ ~ hasfinish /\ svd["main"].want = "up"
  /\ program # "tftp" => client = "sender" /\ options
  /\ IF program = "syslog" THEN follow[r2] = 1 ELSE \A r \in Readers : follow[r] = 0
  /\ program # "timeout" => left = 0 /\ root /\ inherited = "none"

RunsvTurn ==
  program = "runsv" /\ RunsvNext /\ UNCHANGED <<program, tftpVars, syslogVars, timeoutVars>>
TftpTurn ==
  program = "tftp" /\ TftpNext /\ UNCHANGED <<program, runsvVars, syslogVars, timeoutVars>>
SyslogTurn ==
  /\ program = "syslog"
  /\ SyslogNext /\ MCLogged
  /\ UNCHANGED <<program, runsvVars, tftpVars, timeoutVars>>
TimeoutTurn ==
  program = "timeout" /\ TimeoutNext /\ UNCHANGED <<program, runsvVars, tftpVars, syslogVars>>

AppletsNext == RunsvTurn \/ TftpTurn \/ SyslogTurn \/ TimeoutTurn

\* RunsvFairness, TftpFairness, SyslogFairness and TimeoutFairness, each of the
\* program that runs.
AppletsFairness ==
  /\ WF_runsvVars(program = "runsv" /\ RunsvStep)
  /\ \A p \in Procs : WF_runsvVars(program = "runsv" /\ DieAsked(p))
  /\ \A e \in Ends : WF_tftpVars(program = "tftp" /\ Timeout(e))
  /\ SF_syslogVars(program = "syslog" /\ WriterLock)
  /\ WF_syslogVars(program = "syslog" /\ WriterStep)
  /\ \A r \in Readers : WF_syslogVars(program = "syslog" /\ ReaderStep(r))
  /\ WF_timeoutVars(program = "timeout" /\ ParentStep)
  /\ WF_timeoutVars(program = "timeout" /\ ChildStep)
  /\ WF_timeoutVars(program = "timeout" /\ WatcherStep)

AppletsSpec == AppletsInit /\ [][AppletsNext]_appletVars /\ AppletsFairness

\* Every variable of the four programs keeps its type.
AppletsTypeOK == RunsvTypeOK /\ TftpTypeOK /\ SyslogTypeOK /\ TimeoutTypeOK

\* tftp ends in every behaviour in which it runs.
TransferIsOver == program = "tftp" => TransferEnds
=============================================================================
