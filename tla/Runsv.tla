-------------------------------- MODULE Runsv --------------------------------
(***************************************************************************)
(* busybox/runit/runsv.c: one runsv process that supervises a service and, *)
(* if the directory has a log/, the service's logger.  runsv starts ./run, *)
(* starts ./finish when ./run ends, reads one control letter of each fifo  *)
(* per turn of its loop, and writes supervise/status for the sv command.   *)
(*                                                                         *)
(* The children are processes of their own: they end, are stopped, and     *)
(* have signals pending, whenever they like.  Left out: the directory      *)
(* handling before the loop, failing vfork and file operations, times, and *)
(* the letters a, i, q, 1 and 2, which act as h does.                      *)
(***************************************************************************)
EXTENDS Naturals, Sequences, FiniteSets

CONSTANTS
  MaxProcs,   \* bound on the processes that exist at once
  MaxLetters, \* bound on the control letters written in a behaviour
  MainLetters, LogLetters,  \* letters written to the two fifos
  Handled     \* letters with an executable ./control/<letter>

Letters == {"d", "u", "x", "t", "k", "p", "c", "o", "h"}
Procs == 1 .. MaxProcs
Svc == {"main", "log"}     \* svd[0] and svd[1]

ASSUME RunsvAssumption ==
  /\ MaxProcs \in Nat
  /\ MaxLetters \in Nat
  /\ MainLetters \subseteq Letters
  /\ LogLetters \subseteq Letters
  /\ Handled \subseteq Letters

VARIABLES
  rpc,        \* where runsv_main stands in its loop
  haslog,     \* ./log is a directory
  hasfinish,  \* ./finish exists
  svd,        \* per service: pid, state, the two bits of ctrl, sd_want
  wstat,      \* whose exit status svd[0].wstat holds
  logpipe,    \* runsv holds both ends of the pipe to the logger
  proc,       \* the children of runsv that were not reaped
  status,     \* contents of supervise/status: svd[s] as last written
  pidfile,    \* contents of supervise/pid
  fifo,       \* letters written to supervise/control and not read
  letters,    \* letters still to be written, a bound
  pending,    \* signals sent to runsv and not delivered
  selfpipe,   \* a byte is in the pipe
  sigterm,    \* the flag s_term sets
  lastMain,   \* history: what startservice(&svd[0]) started last
  finishArg,  \* history: whose status the last ./finish was given
  killed,     \* history: services a letter k marked as down, not yet reaped
  forced      \* history: k marked as down what it did not kill, or u or o
              \* came before what k did kill was reaped

serviceVars == <<svd, proc, status, pidfile, lastMain, finishArg, killed, forced>>
runsvVars == <<rpc, haslog, hasfinish, svd, wstat, logpipe, proc, status, pidfile,
  fifo, letters, pending, selfpipe, sigterm, lastMain, finishArg, killed, forced>>

Free == [kind |-> "free", live |-> FALSE, stopped |-> FALSE, term |-> FALSE, kill |-> FALSE]
Child(kind, doomed) ==
  [kind |-> kind, live |-> TRUE, stopped |-> FALSE, term |-> FALSE, kill |-> doomed]
Zombie(kind) == [Free EXCEPT !.kind = kind]

ServiceDown(want) ==
  [pid |-> 0, state |-> "down", term |-> FALSE, pause |-> FALSE, want |-> want]

\* What an earlier runsv left in the file: no child of this one has that pid.
OldPid == MaxProcs + 1

-----------------------------------------------------------------------------
\* open_control writes both statuses, but pidchanged is used up by the first.
RunsvInit ==
  /\ rpc = "topLog"
  /\ haslog \in BOOLEAN
  /\ hasfinish \in BOOLEAN
  /\ \E down \in SUBSET (IF haslog THEN Svc ELSE {"main"}) :   \* ./down, ./log/down
       svd = [s \in Svc |-> ServiceDown(IF s \in down THEN "down" ELSE "up")]
  /\ wstat = "none"
  /\ logpipe = haslog
  /\ proc = [p \in Procs |-> Free]
  /\ status = svd
  /\ pidfile = [s \in Svc |-> IF s = "main" THEN 0 ELSE OldPid]
  /\ fifo = [s \in Svc |-> <<>>]
  /\ letters = MaxLetters
  /\ pending = {}
  /\ selfpipe = FALSE
  /\ sigterm = FALSE
  /\ lastMain = "none"
  /\ finishArg = "none"
  /\ killed = {}
  /\ forced = FALSE

\* What kill(p, ...) does to the table of processes; a zombie ignores it.
Term(pr, p) == IF p = 0 \/ ~ pr[p].live THEN pr ELSE [pr EXCEPT ![p].term = TRUE]
Cont(pr, p) == IF p = 0 \/ ~ pr[p].live THEN pr ELSE [pr EXCEPT ![p].stopped = FALSE]
Stop(pr, p) == IF p = 0 \/ ~ pr[p].live THEN pr ELSE [pr EXCEPT ![p].stopped = TRUE]
Kill(pr, p) == IF p = 0 \/ ~ pr[p].live THEN pr ELSE [pr EXCEPT ![p].kill = TRUE]

\* custom: what the script for letter c answers, never any for the logger.
Custom(s, c) == IF s = "main" /\ c \in Handled THEN BOOLEAN ELSE {FALSE}

\* Mutation: the file names are not moved past "log/".
UpdateStatusMain(s, sv) == [status EXCEPT !["main"] = sv]

\* update_status(&svd[s]) of a service whose record is now sv.
UpdateStatus(s, sv) == [status EXCEPT ![s] = sv]

\* stopservice on the record sv: the script for t asks the service to end in
\* its own way, so the process is asked to end in both cases; want down or
\* exit also lets a stopped process run.
StopService(s, sv) ==
  \E handled \in Custom(s, "t") :
    LET asked == Term(proc, sv.pid)
        after == IF handled THEN sv ELSE [sv EXCEPT !.term = TRUE]
    IN /\ proc' = IF sv.want = "up" THEN asked ELSE Cont(asked, sv.pid)
       /\ svd' = [svd EXCEPT ![s] = after]
       /\ status' = IF handled /\ sv = svd[s] THEN status ELSE UpdateStatus(s, after)
       /\ UNCHANGED <<pidfile, lastMain, finishArg, killed, forced>>

\* startservice on the record sv.  A process that exists is stopped first
\* ("should never happen"); a child that has to use the closed log pipe dies
\* before it runs its program.
StartService(s, sv) ==
  \E p \in Procs :
    /\ proc[p] = Free
    /\ \A q \in 1 .. p - 1 : proc[q] # Free
    /\ LET kind == IF s = "log" THEN "log" ELSE IF sv.state = "finish" THEN "finish" ELSE "run"
           asked == Term(proc, sv.pid)
           older == IF sv.want = "up" THEN asked ELSE Cont(asked, sv.pid)
           after == [sv EXCEPT !.pid = p, !.term = FALSE, !.pause = FALSE,
                               !.state = IF kind = "finish" THEN @ ELSE "run"]
       IN /\ proc' = [older EXCEPT ![p] = Child(kind, haslog /\ ~ logpipe)]
          /\ svd' = [svd EXCEPT ![s] = after]
          /\ status' = UpdateStatus(s, after)
          /\ pidfile' = [pidfile EXCEPT ![s] = p]
          /\ lastMain' = IF s = "log" THEN lastMain ELSE kind
          /\ finishArg' = IF kind = "finish" THEN wstat ELSE finishArg
          /\ UNCHANGED killed

-----------------------------------------------------------------------------
\* The top of the loop: start what is not running and wanted.
StartLog ==
  /\ rpc = "topLog"
  /\ IF haslog /\ svd["log"].pid = 0 /\ svd["log"].want = "up"
     THEN StartService("log", svd["log"]) /\ UNCHANGED forced
     ELSE UNCHANGED serviceVars
  /\ rpc' = "topMain"
  /\ UNCHANGED <<haslog, hasfinish, wstat, logpipe, fifo, letters, pending, selfpipe, sigterm>>

StartMain ==
  /\ rpc = "topMain"
  /\ IF svd["main"].pid = 0 /\ (svd["main"].want = "up" \/ svd["main"].state = "finish")
     THEN StartService("main", svd["main"]) /\ UNCHANGED forced
     ELSE UNCHANGED serviceVars
  /\ rpc' = "poll"
  /\ UNCHANGED <<haslog, hasfinish, wstat, logpipe, fifo, letters, pending, selfpipe, sigterm>>

\* Signals are unblocked around poll only: s_child and s_term run there.
Signals ==
  /\ rpc = "poll"
  /\ pending # {}
  /\ sigterm' = (sigterm \/ "TERM" \in pending)
  /\ selfpipe' = TRUE
  /\ pending' = {}
  /\ UNCHANGED <<rpc, haslog, hasfinish, wstat, logpipe, fifo, letters>>
  /\ UNCHANGED serviceVars

\* poll returns for a byte in the self-pipe or a letter in a fifo.
Wake ==
  /\ rpc = "poll"
  /\ pending = {}
  /\ selfpipe \/ fifo["main"] # <<>> \/ (haslog /\ fifo["log"] # <<>>)
  /\ rpc' = "reap"
  /\ selfpipe' = FALSE
  /\ UNCHANGED <<haslog, hasfinish, wstat, logpipe, fifo, letters, pending, sigterm>>
  /\ UNCHANGED serviceVars

\* poll returns after its hour.
PollTimeout ==
  /\ rpc = "poll"
  /\ pending = {}
  /\ rpc' = "reap"
  /\ selfpipe' = FALSE
  /\ UNCHANGED <<haslog, hasfinish, wstat, logpipe, fifo, letters, pending, sigterm>>
  /\ UNCHANGED serviceVars

\* Mutation: a ./finish that ended is followed by another one.
AfterMainFinish(sv) ==
  IF hasfinish
  THEN [sv EXCEPT !.pid = 0, !.term = FALSE, !.state = "finish"]
  ELSE [sv EXCEPT !.pid = 0, !.term = FALSE, !.state = "down"]

\* The record of the service whose process was reaped.
AfterMain(sv) ==
  IF sv.state # "finish" /\ hasfinish
  THEN [sv EXCEPT !.pid = 0, !.term = FALSE, !.state = "finish"]
  ELSE [sv EXCEPT !.pid = 0, !.term = FALSE, !.state = "down"]
AfterLog(sv) == [sv EXCEPT !.pid = 0, !.term = FALSE, !.state = "down"]

\* One turn of the wait_any_nohang loop.  The status of the logger goes to
\* svd[0].wstat too.
Reap(p) ==
  /\ rpc = "reap"
  /\ proc[p] # Free
  /\ ~ proc[p].live
  /\ proc' = [proc EXCEPT ![p] = Free]
  /\ IF p = svd["main"].pid
     THEN /\ wstat' = proc[p].kind
          /\ svd' = [svd EXCEPT !["main"] = AfterMain(@)]
          /\ status' = UpdateStatus("main", svd'["main"])
          /\ pidfile' = [pidfile EXCEPT !["main"] = 0]
          /\ killed' = killed \ {"main"}
     ELSE IF haslog /\ p = svd["log"].pid
     THEN /\ wstat' = proc[p].kind
          /\ svd' = [svd EXCEPT !["log"] = AfterLog(@)]
          /\ status' = UpdateStatus("log", svd'["log"])
          /\ pidfile' = [pidfile EXCEPT !["log"] = 0]
          /\ killed' = killed \ {"log"}
     ELSE UNCHANGED <<wstat, svd, status, pidfile, killed>>
  /\ UNCHANGED <<rpc, haslog, hasfinish, logpipe, fifo, letters, pending, selfpipe, sigterm,
       lastMain, finishArg, forced>>

\* No child is left to be reaped.
Reaped ==
  /\ rpc = "reap"
  /\ \A p \in Procs : proc[p] = Free \/ proc[p].live
  /\ rpc' = "ctlMain"
  /\ UNCHANGED <<haslog, hasfinish, wstat, logpipe, fifo, letters, pending, selfpipe, sigterm>>
  /\ UNCHANGED serviceVars

-----------------------------------------------------------------------------
\* svd[s].sd_want = w, and nothing else for now.
Wanting(s, w) == [svd[s] EXCEPT !.want = w]

\* Only update_status of the record sv.
Save(s, sv) ==
  /\ svd' = [svd EXCEPT ![s] = sv]
  /\ status' = UpdateStatus(s, sv)
  /\ UNCHANGED <<proc, pidfile, lastMain, finishArg, killed, forced>>

CtrlDown(s) ==
  IF svd[s].state = "run" THEN StopService(s, Wanting(s, "down")) ELSE Save(s, Wanting(s, "down"))

\* Mutation: u starts whatever is not in ./finish.
CtrlUpAgain(s) ==
  IF svd[s].state # "finish"
  THEN StartService(s, Wanting(s, "up")) /\ forced' = (forced \/ s \in killed)
  ELSE Save(s, Wanting(s, "up"))

\* State down is taken for no child.
CtrlUp(s) ==
  IF svd[s].state = "down"
  THEN StartService(s, Wanting(s, "up")) /\ forced' = (forced \/ s \in killed)
  ELSE Save(s, Wanting(s, "up"))
CtrlOnce(s) ==
  IF svd[s].state = "down"
  THEN StartService(s, Wanting(s, "down")) /\ forced' = (forced \/ s \in killed)
  ELSE Save(s, Wanting(s, "down"))

\* x is not for the logger.
CtrlExit(s) ==
  IF s = "log" THEN UNCHANGED serviceVars
  ELSE IF svd[s].state = "run" THEN StopService(s, Wanting(s, "exit"))
  ELSE Save(s, Wanting(s, "exit"))
CtrlTerm(s) ==
  IF svd[s].state = "run" THEN StopService(s, svd[s]) ELSE UNCHANGED serviceVars

\* The state is set to down without looking at what was killed, and without
\* update_status.
CtrlKill(s) ==
  \E handled \in Custom(s, "k") :
    /\ proc' = IF svd[s].state = "run" /\ ~ handled THEN Kill(proc, svd[s].pid) ELSE proc
    /\ svd' = [svd EXCEPT ![s].state = "down"]
    /\ forced' = (forced \/ svd[s].state = "finish" \/ (svd[s].state = "run" /\ handled))
    /\ killed' = IF svd[s].pid # 0 THEN killed \cup {s} ELSE killed
    /\ UNCHANGED <<status, pidfile, lastMain, finishArg>>

CtrlPause(s) ==
  \E handled \in Custom(s, "p") :
    /\ proc' = IF svd[s].state = "run" /\ ~ handled THEN Stop(proc, svd[s].pid) ELSE proc
    /\ svd' = [svd EXCEPT ![s].pause = TRUE]
    /\ status' = UpdateStatus(s, svd'[s])
    /\ UNCHANGED <<pidfile, lastMain, finishArg, killed, forced>>
CtrlCont(s) ==
  \E handled \in Custom(s, "c") :
    /\ proc' = IF svd[s].state = "run" /\ ~ handled THEN Cont(proc, svd[s].pid) ELSE proc
    /\ svd' = [svd EXCEPT ![s].pause = FALSE]
    /\ status' = UpdateStatus(s, svd'[s])
    /\ UNCHANGED <<pidfile, lastMain, finishArg, killed, forced>>

\* ctrl(&svd[s], c); h sends a signal that changes nothing kept here.
Ctrl(s, c) ==
  \/ c = "d" /\ CtrlDown(s)
  \/ c = "u" /\ CtrlUp(s)
  \/ c = "x" /\ CtrlExit(s)
  \/ c = "t" /\ CtrlTerm(s)
  \/ c = "k" /\ CtrlKill(s)
  \/ c = "p" /\ CtrlPause(s)
  \/ c = "c" /\ CtrlCont(s)
  \/ c = "o" /\ CtrlOnce(s)
  \/ c = "h" /\ UNCHANGED serviceVars

\* At most one letter of each fifo in a turn of the loop.
ReadControl(s) ==
  IF fifo[s] = <<>>
  THEN UNCHANGED fifo /\ UNCHANGED serviceVars
  ELSE /\ Ctrl(s, Head(fifo[s]))
       /\ fifo' = [fifo EXCEPT ![s] = Tail(@)]

ControlMain ==
  /\ rpc = "ctlMain"
  /\ ReadControl("main")
  /\ rpc' = "ctlLog"
  /\ UNCHANGED <<haslog, hasfinish, wstat, logpipe, letters, pending, selfpipe, sigterm>>

ControlLog ==
  /\ rpc = "ctlLog"
  /\ IF haslog THEN ReadControl("log") ELSE UNCHANGED fifo /\ UNCHANGED serviceVars
  /\ rpc' = "sigterm"
  /\ UNCHANGED <<haslog, hasfinish, wstat, logpipe, letters, pending, selfpipe, sigterm>>

CheckSigterm ==
  /\ rpc = "sigterm"
  /\ IF sigterm THEN Ctrl("main", "x") ELSE UNCHANGED serviceVars
  /\ sigterm' = FALSE
  /\ rpc' = "exit"
  /\ UNCHANGED <<haslog, hasfinish, wstat, logpipe, fifo, letters, pending, selfpipe>>

Exiting == svd["main"].want = "exit" /\ svd["main"].state = "down"

\* Mutation: runsv does not wait for the logger.
ExitAtOnce ==
  /\ rpc = "exit"
  /\ Exiting
  /\ rpc' = "exited"
  /\ UNCHANGED <<haslog, hasfinish, wstat, logpipe, fifo, letters, pending, selfpipe, sigterm>>
  /\ UNCHANGED serviceVars

\* _exit once the service and its logger are down.
ExitNow ==
  /\ rpc = "exit"
  /\ Exiting
  /\ svd["log"].pid = 0
  /\ rpc' = "exited"
  /\ UNCHANGED <<haslog, hasfinish, wstat, logpipe, fifo, letters, pending, selfpipe, sigterm>>
  /\ UNCHANGED serviceVars

\* Mutation: the pipe is left open when the logger has to end.
EndLogPipeKept ==
  /\ rpc = "exit"
  /\ Exiting
  /\ svd["log"].pid # 0
  /\ Save("log", Wanting("log", "exit"))
  /\ rpc' = "topLog"
  /\ UNCHANGED <<haslog, hasfinish, wstat, logpipe, fifo, letters, pending, selfpipe, sigterm>>

\* The service is down: the logger is to read the end of its input.
EndLog ==
  /\ rpc = "exit"
  /\ Exiting
  /\ svd["log"].pid # 0
  /\ IF svd["log"].want # "exit"
     THEN /\ Save("log", Wanting("log", "exit"))
          /\ logpipe' = FALSE
     ELSE UNCHANGED logpipe /\ UNCHANGED serviceVars
  /\ rpc' = "topLog"
  /\ UNCHANGED <<haslog, hasfinish, wstat, fifo, letters, pending, selfpipe, sigterm>>

GoOn ==
  /\ rpc = "exit"
  /\ ~ Exiting
  /\ rpc' = "topLog"
  /\ UNCHANGED <<haslog, hasfinish, wstat, logpipe, fifo, letters, pending, selfpipe, sigterm>>
  /\ UNCHANGED serviceVars

-----------------------------------------------------------------------------
\* sv or runsvdir writes a letter.
WriteLetter(s, c) ==
  /\ rpc # "exited"
  /\ letters > 0
  /\ s = "main" \/ haslog
  /\ fifo' = [fifo EXCEPT ![s] = Append(@, c)]
  /\ letters' = letters - 1
  /\ UNCHANGED <<rpc, haslog, hasfinish, wstat, logpipe, pending, selfpipe, sigterm>>
  /\ UNCHANGED serviceVars

\* Somebody sends SIGTERM to runsv; it takes one of the letters' bound.
SendSigterm ==
  /\ rpc # "exited"
  /\ letters > 0
  /\ pending' = pending \cup {"TERM"}
  /\ letters' = letters - 1
  /\ UNCHANGED <<rpc, haslog, hasfinish, wstat, logpipe, fifo, selfpipe, sigterm>>
  /\ UNCHANGED serviceVars

\* A child ends by itself or by a signal; a stopped one only by SIGKILL.
Die(p) ==
  /\ proc[p].live
  /\ proc[p].kill \/ ~ proc[p].stopped
  /\ proc' = [proc EXCEPT ![p] = Zombie(@.kind)]
  /\ pending' = IF rpc = "exited" THEN pending ELSE pending \cup {"CHLD"}
  /\ UNCHANGED <<rpc, haslog, hasfinish, svd, wstat, logpipe, status, pidfile, fifo, letters,
       selfpipe, sigterm, lastMain, finishArg, killed, forced>>

RunsvDone == rpc = "exited" /\ UNCHANGED runsvVars

\* The steps of runsv itself that do not need poll's hour to pass.
RunsvStep ==
  \/ StartLog \/ StartMain \/ Signals \/ Wake
  \/ \E p \in Procs : Reap(p)
  \/ Reaped \/ ControlMain \/ ControlLog \/ CheckSigterm
  \/ ExitNow \/ EndLog \/ GoOn

RunsvNext ==
  \/ RunsvStep
  \/ PollTimeout
  \/ \E c \in MainLetters : WriteLetter("main", c)
  \/ \E c \in LogLetters : WriteLetter("log", c)
  \/ SendSigterm
  \/ \E p \in Procs : Die(p)
  \/ RunsvDone

RunsvSpec == RunsvInit /\ [][RunsvNext]_runsvVars

\* A child that was asked to end, a ./finish, and a logger at the end of its
\* input end; nothing else makes a child end.
EndOfInput == haslog /\ ~ logpipe /\ \A q \in Procs : proc[q].live => proc[q].kind = "log"
DieAsked(p) ==
  /\ \/ proc[p].term \/ proc[p].kill
     \/ proc[p].kind = "finish"
     \/ proc[p].kind = "log" /\ EndOfInput
  /\ Die(p)

RunsvFairness == WF_runsvVars(RunsvStep) /\ \A p \in Procs : WF_runsvVars(DieAsked(p))

FairRunsvSpec == RunsvSpec /\ RunsvFairness

-----------------------------------------------------------------------------
ProcSet ==
  [kind : {"free", "run", "finish", "log"}, live : BOOLEAN, stopped : BOOLEAN,
   term : BOOLEAN, kill : BOOLEAN]
ServiceSet ==
  [pid : 0 .. MaxProcs, state : {"down", "run", "finish"}, term : BOOLEAN, pause : BOOLEAN,
   want : {"up", "down", "exit"}]

\* Every variable of runsv keeps its type.
RunsvTypeOK ==
  /\ rpc \in {"topLog", "topMain", "poll", "reap", "ctlMain", "ctlLog", "sigterm", "exit", "exited"}
  /\ haslog \in BOOLEAN /\ hasfinish \in BOOLEAN
  /\ svd \in [Svc -> ServiceSet]
  /\ wstat \in {"none", "run", "finish", "log"}
  /\ logpipe \in BOOLEAN
  /\ proc \in [Procs -> ProcSet]
  /\ status \in [Svc -> ServiceSet]
  /\ pidfile \in [Svc -> 0 .. OldPid]
  /\ fifo \in [Svc -> Seq(Letters)]
  /\ letters \in 0 .. MaxLetters
  /\ pending \subseteq {"CHLD", "TERM"}
  /\ selfpipe \in BOOLEAN /\ sigterm \in BOOLEAN
  /\ lastMain \in {"none", "run", "finish"}
  /\ finishArg \in {"none", "run", "finish", "log"}
  /\ killed \subseteq Svc /\ forced \in BOOLEAN

Mains == {p \in Procs : proc[p].kind \in {"run", "finish"}}
Loggers == {p \in Procs : proc[p].kind = "log"}

\* startservice, "should never happen": runsv has no child but the one in
\* svd[s].pid, alive or not reaped, whatever letters arrive in whatever order,
\* unless a letter k was taken for the end of a process it did not kill (a
\* control script kept it, ./finish was running) or u or o came before a
\* killed child was reaped.
OneChild ==
  ~ forced => /\ Mains \subseteq {svd["main"].pid}
              /\ Loggers \subseteq {svd["log"].pid}

\* ./finish runs once after every end of ./run and before the next ./run, also
\* when the service is taken down, told to exit or sent signals meanwhile.
FinishOnce ==
  [][ LET started == svd'["main"].pid # svd["main"].pid /\ svd'["main"].pid # 0
      IN started /\ hasfinish /\ ~ forced' =>
           lastMain' = (IF lastMain = "run" THEN "finish" ELSE "run") ]_runsvVars

\* While runsv sleeps, supervise/status and supervise/pid say what runsv
\* knows, except that a service killed by letter k is not yet shown as down,
\* and that the logger's pid file of an earlier runsv stays until the first
\* start: the flag pidchanged is one for both services.
StatusFresh ==
  rpc = "poll" /\ ~ forced =>
    \A s \in Svc :
      /\ \/ status[s] = svd[s]
         \/ svd[s].pid # 0 /\ svd[s].state = "down" /\ status[s] = [svd[s] EXCEPT !.state = "run"]
      /\ pidfile[s] = svd[s].pid \/ (s = "log" /\ pidfile[s] = OldPid /\ svd[s].pid = 0)

\* When runsv has exited no child of it goes on: its service ended or was sent
\* SIGKILL, its logger ended.
NoOrphanOnExit ==
  rpc = "exited" /\ ~ forced =>
    /\ \A p \in Mains : proc[p].live => proc[p].kill
    /\ Loggers = {}

\* A runsv told to exit (letter x or SIGTERM) and not told otherwise exits,
\* unless a stopped process is left (the service is let run again for its
\* TERM, the logger is not, and a later p stops the service again) or a
\* service that k did not kill keeps the logger's input open.
ExitHonoured ==
  (<>[](svd["main"].want = "exit" /\ ~ forced /\ \A p \in Procs : ~ proc[p].stopped)) => <>(rpc = "exited")

\* ./finish is given the status of the ./run that ended.
FinishGetsItsStatus == finishArg \in {"none", "run"}
=============================================================================
