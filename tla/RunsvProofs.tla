------------------------------ MODULE RunsvProofs ------------------------------
(***************************************************************************)
(* Proofs about Runsv: its types, that it has no child it does not know,   *)
(* that supervise/ tells what it knows, and that it leaves no child behind *)
(* when it exits, for any number of processes and control letters.         *)
(*                                                                         *)
(* The inductive invariant is about the services (ServiceInv); the steps   *)
(* of the loop reach them through startservice, stopservice, ctrl and the  *)
(* reaping of a child, each a lemma here.                                  *)
(***************************************************************************)
EXTENDS Runsv, TLAPS

\* What startservice makes a child of service s.
Kinds(s) == IF s = "log" THEN {"log"} ELSE {"run", "finish"}

ServiceTypes ==
  /\ haslog \in BOOLEAN
  /\ wstat \in {"none", "run", "finish", "log"}
  /\ svd \in [Svc -> ServiceSet]
  /\ proc \in [Procs -> ProcSet]
  /\ status \in [Svc -> ServiceSet]
  /\ pidfile \in [Svc -> 0 .. OldPid]
  /\ lastMain \in {"none", "run", "finish"}
  /\ finishArg \in {"none", "run", "finish", "log"}
  /\ killed \subseteq Svc /\ forced \in BOOLEAN

\* A pid in svd is the pid of a child of that service, so no two share it.
Owned ==
  \A s \in Svc :
    /\ svd[s].pid # 0 => proc[svd[s].pid].kind \in Kinds(s)
    /\ svd[s].state = "run" => svd[s].pid # 0
    /\ s = "log" /\ ~ haslog => svd[s].pid = 0

\* Every child of a service is the one in svd.
Alone == \A s \in Svc : \A p \in Procs : proc[p].kind \in Kinds(s) => p = svd[s].pid

\* State down is a lie only about a process that was sent SIGKILL.
KilledIsDoomed ==
  \A s \in Svc :
    /\ svd[s].state = "down" /\ svd[s].pid # 0 => s \in killed
    /\ s \in killed => /\ svd[s].pid # 0
                       /\ proc[svd[s].pid].live => proc[svd[s].pid].kill

\* StatusFresh of one service, at every point of the loop.
Shown(s) ==
  /\ \/ status[s] = svd[s]
     \/ svd[s].pid # 0 /\ svd[s].state = "down" /\ status[s] = [svd[s] EXCEPT !.state = "run"]
  /\ pidfile[s] = svd[s].pid \/ (s = "log" /\ pidfile[s] = OldPid /\ svd[s].pid = 0)

ServiceInv ==
  /\ ServiceTypes
  /\ Owned
  /\ ~ forced => Alone /\ KilledIsDoomed /\ \A s \in Svc : Shown(s)

LoopTypes ==
  /\ rpc \in {"topLog", "topMain", "poll", "reap", "ctlMain", "ctlLog", "sigterm", "exit", "exited"}
  /\ hasfinish \in BOOLEAN /\ logpipe \in BOOLEAN
  /\ fifo \in [Svc -> Seq(Letters)]
  /\ letters \in 0 .. MaxLetters
  /\ pending \subseteq {"CHLD", "TERM"}
  /\ selfpipe \in BOOLEAN /\ sigterm \in BOOLEAN

\* _exit was reached with both services down.
ExitedDown == rpc = "exited" => svd["main"].state = "down" /\ svd["log"].pid = 0

RunsvInv == ServiceInv /\ LoopTypes /\ ExitedDown

-----------------------------------------------------------------------------
(* Records and the table of processes. *)

LEMMA PidSets == /\ Procs \subseteq 1 .. MaxProcs /\ 0 \notin Procs
                 /\ \A p \in 0 .. MaxProcs : p = 0 \/ p \in Procs
                 /\ \A p \in 0 .. MaxProcs : p \in 0 .. OldPid
                 /\ OldPid \in 0 .. OldPid /\ OldPid \notin 0 .. MaxProcs
BY RunsvAssumption DEF Procs, OldPid

\* pr2 is pr after signals: who lives and what it is stays the same.
Signalled(pr, pr2) ==
  /\ pr2 \in [Procs -> ProcSet]
  /\ \A q \in Procs : /\ pr2[q].kind = pr[q].kind
                      /\ pr2[q].live = pr[q].live
                      /\ pr[q].kill => pr2[q].kill

\* kill() changes nothing else of a process than the pending signal.
LEMMA SignalsOnly ==
  ASSUME NEW pr \in [Procs -> ProcSet], NEW p \in 0 .. MaxProcs
  PROVE  /\ Signalled(pr, pr) /\ Signalled(pr, Term(pr, p)) /\ Signalled(pr, Cont(pr, p))
         /\ Signalled(pr, Stop(pr, p)) /\ Signalled(pr, Kill(pr, p))
<1> USE DEF Signalled
<1>1. p = 0 \/ p \in Procs
  BY PidSets
<1>2. Signalled(pr, Term(pr, p))
  BY <1>1 DEF Term, ProcSet
<1>3. Signalled(pr, Cont(pr, p))
  BY <1>1 DEF Cont, ProcSet
<1>4. Signalled(pr, Stop(pr, p))
  BY <1>1 DEF Stop, ProcSet
<1>5. Signalled(pr, Kill(pr, p))
  BY <1>1 DEF Kill, ProcSet
<1> QED BY <1>2, <1>3, <1>4, <1>5

\* A letter that only writes a field of svd keeps pid and state.
LEMMA FieldsOnly ==
  ASSUME NEW sv \in ServiceSet
  PROVE  /\ \A w \in {"up", "down", "exit"} :
              LET a == [sv EXCEPT !.want = w]
              IN a \in ServiceSet /\ a.pid = sv.pid /\ a.state = sv.state
         /\ \A b \in BOOLEAN :
              LET a == [sv EXCEPT !.pause = b] c == [sv EXCEPT !.term = b]
              IN /\ a \in ServiceSet /\ a.pid = sv.pid /\ a.state = sv.state
                 /\ c \in ServiceSet /\ c.pid = sv.pid /\ c.state = sv.state
BY DEF ServiceSet

\* Signals, and fields of svd that say nothing of the process, are harmless.
LEMMA QuietStep ==
  ASSUME ServiceInv, NEW s \in Svc, NEW sv \in ServiceSet,
         sv.pid = svd[s].pid, sv.state = svd[s].state,
         svd' = [svd EXCEPT ![s] = sv],
         Signalled(proc, proc'),
         status' = [status EXCEPT ![s] = sv] \/ (status' = status /\ sv = svd[s]),
         UNCHANGED <<haslog, wstat, pidfile, lastMain, finishArg, killed, forced>>
  PROVE  ServiceInv'
<1>1. ServiceTypes'
  BY DEF ServiceInv, ServiceTypes, Signalled
<1>2. /\ \A t \in Svc : svd'[t].pid = svd[t].pid /\ svd'[t].state = svd[t].state
      /\ svd'[s] = sv /\ \A t \in Svc : t # s => svd'[t] = svd[t] /\ status'[t] = status[t]
      /\ \A t \in Svc : svd[t].pid = 0 \/ svd[t].pid \in Procs
  <2>1. svd \in [Svc -> ServiceSet] /\ status \in [Svc -> ServiceSet]
    BY DEF ServiceInv, ServiceTypes
  <2>2. \A t \in Svc : svd[t].pid \in 0 .. MaxProcs
    BY <2>1 DEF ServiceSet
  <2>3. \A t \in Svc : t # s => svd'[t] = svd[t] /\ status'[t] = status[t]
    BY <2>1
  <2> QED BY <2>1, <2>2, <2>3, PidSets
<1>3. Owned'
  BY <1>2 DEF ServiceInv, Owned, Signalled
<1>4. ASSUME ~ forced' PROVE Alone' /\ KilledIsDoomed'
  <2>1. Alone /\ KilledIsDoomed
    BY <1>4 DEF ServiceInv
  <2>2. Alone'
    BY <2>1, <1>2 DEF Alone, Signalled
  <2>3. KilledIsDoomed'
    BY <2>1, <1>2 DEF KilledIsDoomed, Signalled
  <2> QED BY <2>2, <2>3
<1>5. ASSUME ~ forced', NEW t \in Svc PROVE Shown(t)'
  <2>1. Shown(t)
    BY <1>5 DEF ServiceInv
  <2>2. CASE t # s
    BY <2>1, <2>2, <1>2 DEF Shown
  <2>3. CASE t = s
    <3>1. pidfile'[t] = svd'[t].pid \/ (t = "log" /\ pidfile'[t] = OldPid /\ svd'[t].pid = 0)
      BY <2>1, <1>2 DEF Shown
    <3>2. CASE status' = [status EXCEPT ![s] = sv]
      <4>1. status'[s] = svd'[s]
        BY <3>2, <1>2 DEF ServiceInv, ServiceTypes
      <4> QED BY <2>3, <3>1, <4>1 DEF Shown
    <3>3. CASE status' = status /\ sv = svd[s]
      BY <2>1, <2>3, <3>1, <3>3, <1>2 DEF Shown
    <3> QED BY <3>2, <3>3
  <2> QED BY <2>2, <2>3
<1> QED BY <1>1, <1>3, <1>4, <1>5 DEF ServiceInv

LEMMA ChildTyped ==
  ASSUME NEW kind \in {"run", "finish", "log"}, NEW b \in BOOLEAN
  PROVE  Child(kind, b) \in ProcSet /\ Child(kind, b).kind = kind
BY DEF Child, ProcSet

LEMMA FreeTyped == /\ Free \in ProcSet /\ Free.kind = "free" /\ ~ Free.live
                   /\ \A kind \in {"free", "run", "finish", "log"} :
                        Zombie(kind) \in ProcSet /\ Zombie(kind).kind = kind /\ ~ Zombie(kind).live
BY DEF Free, Zombie, ProcSet

\* startservice, when no child of the service is left or all bets are off.
LEMMA StartStep ==
  ASSUME ServiceInv, NEW s \in Svc, NEW sv \in ServiceSet,
         sv.pid = svd[s].pid, sv.state = svd[s].state, s = "log" => haslog,
         StartService(s, sv), forced' \in BOOLEAN, forced => forced',
         ~ forced' => svd[s].pid = 0,
         UNCHANGED <<haslog, wstat>>
  PROVE  ServiceInv'
<1> DEFINE kind == IF s = "log" THEN "log" ELSE IF sv.state = "finish" THEN "finish" ELSE "run"
           doomed == haslog /\ ~ logpipe
           asked == Term(proc, sv.pid)
           older == IF sv.want = "up" THEN asked ELSE Cont(asked, sv.pid)
           After(p) == [sv EXCEPT !.pid = p, !.term = FALSE, !.pause = FALSE,
                                  !.state = IF kind = "finish" THEN @ ELSE "run"]
<1>1. PICK p \in Procs : /\ proc[p] = Free
                         /\ proc' = [older EXCEPT ![p] = Child(kind, doomed)]
                         /\ svd' = [svd EXCEPT ![s] = After(p)]
                         /\ status' = [status EXCEPT ![s] = After(p)]
                         /\ pidfile' = [pidfile EXCEPT ![s] = p]
                         /\ lastMain' = IF s = "log" THEN lastMain ELSE kind
                         /\ finishArg' = IF kind = "finish" THEN wstat ELSE finishArg
                         /\ UNCHANGED killed
  BY DEF StartService, UpdateStatus
<1>2. kind \in {"run", "finish", "log"} /\ kind \in Kinds(s) /\ doomed \in BOOLEAN
  BY DEF Kinds, Svc
<1>3. Signalled(proc, older)
  <2>1. proc \in [Procs -> ProcSet] /\ sv.pid \in 0 .. MaxProcs
    BY DEF ServiceInv, ServiceTypes, ServiceSet
  <2>2. Signalled(proc, asked)
    BY <2>1, SignalsOnly
  <2>3. Signalled(asked, Cont(asked, sv.pid))
    BY <2>1, <2>2, SignalsOnly DEF Signalled
  <2> HIDE DEF asked
  <2> QED BY <2>2, <2>3 DEF Signalled
<1>4. kind = "finish" => sv.state = "finish"
  OBVIOUS
<1>5. Child(kind, doomed) \in ProcSet /\ Child(kind, doomed).kind = kind
  BY <1>2, ChildTyped
<1> HIDE DEF kind, doomed, older
<1>6. /\ After(p) \in ServiceSet /\ After(p).pid = p
      /\ After(p).state = IF kind = "finish" THEN sv.state ELSE "run"
  <2>1. p \in 0 .. MaxProcs
    BY PidSets, RunsvAssumption DEF Procs
  <2> QED BY <2>1 DEF ServiceSet
<1> HIDE DEF After
<1>7. /\ svd'[s] = After(p) /\ status'[s] = After(p) /\ pidfile'[s] = p
      /\ \A t \in Svc : t # s => svd'[t] = svd[t] /\ status'[t] = status[t] /\ pidfile'[t] = pidfile[t]
  BY <1>1 DEF ServiceInv, ServiceTypes
<1>8. /\ proc'[p] = Child(kind, doomed)
      /\ \A q \in Procs : q # p => proc'[q] = older[q]
      /\ proc' \in [Procs -> ProcSet]
  BY <1>1, <1>3, <1>5 DEF Signalled
<1>9. ServiceTypes'
  <2>1. p \in 0 .. MaxProcs /\ p \in 0 .. OldPid
    BY PidSets, RunsvAssumption DEF Procs, OldPid
  <2>2. svd' \in [Svc -> ServiceSet] /\ status' \in [Svc -> ServiceSet]
    BY <1>1, <1>6 DEF ServiceInv, ServiceTypes
  <2>3. pidfile' \in [Svc -> 0 .. OldPid]
    BY <1>1, <2>1 DEF ServiceInv, ServiceTypes
  <2>4. lastMain' \in {"none", "run", "finish"}
    <3>1. s # "log" => kind # "log"
      BY DEF kind
    <3> QED BY <1>1, <1>2, <3>1 DEF ServiceInv, ServiceTypes
  <2>5. finishArg' \in {"none", "run", "finish", "log"}
    BY <1>1 DEF ServiceInv, ServiceTypes
  <2> QED BY <1>1, <1>8, <2>2, <2>3, <2>4, <2>5 DEF ServiceInv, ServiceTypes
<1>10. \A t \in Svc : t # s => svd[t].pid # p /\ (svd[t].pid = 0 \/ svd[t].pid \in Procs)
  <2>1. \A t \in Svc : svd[t].pid \in 0 .. MaxProcs
    BY DEF ServiceInv, ServiceTypes, ServiceSet
  <2>2. "free" \notin Kinds("log") /\ "free" \notin Kinds("main")
    BY DEF Kinds
  <2> QED BY <1>1, <2>1, <2>2, PidSets, FreeTyped DEF ServiceInv, Owned, Svc
<1>11. p # 0
  BY PidSets
<1>12. Owned'
  BY <1>2, <1>3, <1>6, <1>5, <1>7, <1>8, <1>10, <1>11 DEF ServiceInv, Owned, Signalled
<1>13. ASSUME ~ forced' PROVE Alone' /\ KilledIsDoomed' /\ \A t \in Svc : Shown(t)'
  <2>1. Alone /\ KilledIsDoomed /\ svd[s].pid = 0 /\ \A t \in Svc : Shown(t)
    BY <1>13 DEF ServiceInv
  <2>2. Alone'
    <3> SUFFICES ASSUME NEW t \in Svc, NEW q \in Procs, proc'[q].kind \in Kinds(t)
                 PROVE  q = svd'[t].pid
      BY DEF Alone
    <3>3. CASE q # p
      BY <3>3, <2>1, <1>3, <1>7, <1>8, PidSets DEF Alone, Signalled
    <3>4. CASE q = p
      <4>1. t # s => kind \notin Kinds(t)
        BY <1>2 DEF Kinds, Svc
      <4> QED BY <3>4, <4>1, <1>6, <1>5, <1>7, <1>8
    <3> QED BY <3>3, <3>4
  <2>3. KilledIsDoomed'
    <3>1. s \notin killed
      BY <2>1 DEF KilledIsDoomed
    <3>2. svd'[s].state # "down"
      <4>1. sv.state = "finish" \/ kind # "finish"
        BY <1>4
      <4> QED BY <4>1, <1>6, <1>7
    <3> QED BY <2>1, <3>1, <3>2, <1>1, <1>3, <1>7, <1>8, <1>10 DEF KilledIsDoomed, Signalled
  <2>4. \A t \in Svc : Shown(t)'
    BY <2>1, <1>6, <1>7 DEF Shown
  <2> QED BY <2>2, <2>3, <2>4
<1> QED BY <1>9, <1>12, <1>13 DEF ServiceInv

\* Letter k: what it does not kill makes all bets off.
LEMMA KillStep ==
  ASSUME ServiceInv, NEW s \in Svc, CtrlKill(s), UNCHANGED <<haslog, wstat>>
  PROVE  ServiceInv'
<1> DEFINE sv == [svd[s] EXCEPT !.state = "down"]
<1>1. PICK handled \in Custom(s, "k") :
        /\ proc' = IF svd[s].state = "run" /\ ~ handled THEN Kill(proc, svd[s].pid) ELSE proc
        /\ svd' = [svd EXCEPT ![s].state = "down"]
        /\ forced' = (forced \/ svd[s].state = "finish" \/ (svd[s].state = "run" /\ handled))
        /\ killed' = IF svd[s].pid # 0 THEN killed \cup {s} ELSE killed
        /\ UNCHANGED <<status, pidfile, lastMain, finishArg>>
  BY DEF CtrlKill
<1>2. /\ svd[s] \in ServiceSet /\ svd[s].pid \in 0 .. MaxProcs /\ proc \in [Procs -> ProcSet]
      /\ svd \in [Svc -> ServiceSet]
  BY DEF ServiceInv, ServiceTypes, ServiceSet
<1>3. sv \in ServiceSet /\ sv.pid = svd[s].pid /\ sv.state = "down"
  BY <1>2 DEF ServiceSet
<1>4. svd' = [svd EXCEPT ![s] = sv]
  BY <1>1
<1>5. svd[s].state = "run" => svd[s] = [sv EXCEPT !.state = "run"]
  BY <1>2 DEF ServiceSet
<1>6. svd[s].state = "down" => svd[s] = sv
  BY <1>2 DEF ServiceSet
<1>7. svd[s].state \in {"down", "run", "finish"}
  BY <1>2 DEF ServiceSet
<1> HIDE DEF sv
<1>8. Signalled(proc, proc')
  BY <1>1, <1>2, SignalsOnly
<1>9. \A t \in Svc : /\ svd'[t] = IF t = s THEN sv ELSE svd[t]
                     /\ svd'[t].pid = svd[t].pid
                     /\ svd[t].pid = 0 \/ svd[t].pid \in Procs
  <2>1. \A t \in Svc : svd[t].pid \in 0 .. MaxProcs
    BY <1>2 DEF ServiceSet
  <2> QED BY <2>1, <1>2, <1>3, <1>4, PidSets
<1>10. forced' \in BOOLEAN /\ (forced => forced')
  BY <1>1 DEF ServiceInv, ServiceTypes
<1>11. ServiceTypes'
  BY <1>1, <1>3, <1>4, <1>8, <1>10 DEF ServiceInv, ServiceTypes, Signalled
<1>12. Owned'
  BY <1>3, <1>8, <1>9 DEF ServiceInv, Owned, Signalled
<1>13. ASSUME ~ forced' PROVE Alone' /\ KilledIsDoomed' /\ \A t \in Svc : Shown(t)'
  <2>1. /\ Alone /\ KilledIsDoomed /\ \A t \in Svc : Shown(t)
        /\ svd[s].state \in {"down", "run"}
    BY <1>1, <1>7, <1>10, <1>13 DEF ServiceInv
  <2>2. Alone'
    BY <2>1, <1>8, <1>9 DEF Alone, Signalled
  <2>3. KilledIsDoomed'
    <3> SUFFICES ASSUME NEW t \in Svc
                 PROVE  /\ svd'[t].state = "down" /\ svd'[t].pid # 0 => t \in killed'
                        /\ t \in killed' => /\ svd'[t].pid # 0
                                            /\ proc'[svd'[t].pid].live => proc'[svd'[t].pid].kill
      BY DEF KilledIsDoomed
    <3>2. CASE t # s
      BY <3>2, <2>1, <1>1, <1>8, <1>9 DEF KilledIsDoomed, Signalled
    <3>3. CASE t = s /\ svd[s].pid = 0
      BY <3>3, <2>1, <1>1, <1>9 DEF KilledIsDoomed
    <3>4. CASE t = s /\ svd[s].pid # 0 /\ svd[s].state = "down"
      BY <3>4, <2>1, <1>1, <1>8, <1>9 DEF KilledIsDoomed, Signalled
    <3>5. CASE t = s /\ svd[s].pid # 0 /\ svd[s].state = "run"
      <4>1. proc' = Kill(proc, svd[s].pid) /\ svd[s].pid \in Procs
        BY <3>5, <1>1, <1>9, <1>13
      <4>2. proc'[svd[s].pid].live => proc'[svd[s].pid].kill
        BY <3>5, <4>1, <1>2 DEF Kill, ProcSet
      <4> QED BY <3>5, <4>2, <1>1, <1>9
    <3> QED BY <3>2, <3>3, <3>4, <3>5, <2>1
  <2>4. ASSUME NEW t \in Svc PROVE Shown(t)'
    <3>1. Shown(t)
      BY <2>1
    <3>2. CASE t # s
      BY <3>1, <3>2, <1>1, <1>9 DEF Shown
    <3>3. CASE t = s /\ svd[s].state = "down"
      BY <3>1, <3>3, <1>1, <1>6, <1>9 DEF Shown
    <3>4. CASE t = s /\ svd[s].state = "run"
      <4>1. status[s] = svd[s] /\ svd[s].pid # 0
        BY <3>1, <3>4 DEF Shown, ServiceInv, Owned
      <4> QED BY <3>1, <3>4, <4>1, <1>1, <1>3, <1>5, <1>9 DEF Shown
    <3> QED BY <3>2, <3>3, <3>4, <2>1
  <2> QED BY <2>2, <2>3, <2>4
<1> QED BY <1>11, <1>12, <1>13 DEF ServiceInv

LEMMA AfterTyped ==
  ASSUME NEW sv \in ServiceSet, hasfinish \in BOOLEAN
  PROVE  /\ AfterMain(sv) \in ServiceSet /\ AfterMain(sv).pid = 0 /\ AfterMain(sv).state # "run"
         /\ AfterLog(sv) \in ServiceSet /\ AfterLog(sv).pid = 0 /\ AfterLog(sv).state # "run"
<1>1. 0 \in 0 .. MaxProcs
  BY RunsvAssumption
<1>2. CASE sv.state # "finish" /\ hasfinish
  BY <1>1, <1>2 DEF AfterMain, AfterLog, ServiceSet
<1>3. CASE ~ (sv.state # "finish" /\ hasfinish)
  BY <1>1, <1>3 DEF AfterMain, AfterLog, ServiceSet
<1> QED BY <1>2, <1>3

\* A child of service s is reaped, and svd[s] is left as sv.
LEMMA ReapOwned ==
  ASSUME ServiceInv, NEW s \in Svc, NEW sv \in ServiceSet, sv.pid = 0, sv.state # "run",
         NEW p \in Procs, svd[s].pid = p,
         proc' = [proc EXCEPT ![p] = Free],
         svd' = [svd EXCEPT ![s] = sv],
         status' = [status EXCEPT ![s] = sv],
         pidfile' = [pidfile EXCEPT ![s] = 0],
         killed' = killed \ {s},
         wstat' \in {"none", "run", "finish", "log"},
         UNCHANGED <<haslog, lastMain, finishArg, forced>>
  PROVE  ServiceInv'
<1>1. ServiceTypes'
  <2>1. 0 \in 0 .. OldPid
    BY RunsvAssumption DEF OldPid
  <2> QED BY <2>1, FreeTyped DEF ServiceInv, ServiceTypes
<1>2. /\ svd'[s] = sv /\ status'[s] = sv /\ pidfile'[s] = 0
      /\ \A t \in Svc : t # s => svd'[t] = svd[t] /\ status'[t] = status[t] /\ pidfile'[t] = pidfile[t]
      /\ proc'[p] = Free /\ \A q \in Procs : q # p => proc'[q] = proc[q]
  BY DEF ServiceInv, ServiceTypes
<1>3. \A t \in Svc : t # s => svd[t].pid # p /\ (svd[t].pid = 0 \/ svd[t].pid \in Procs)
  <2>1. \A t \in Svc : svd[t].pid \in 0 .. MaxProcs
    BY DEF ServiceInv, ServiceTypes, ServiceSet
  <2>2. proc[p].kind \in Kinds(s) /\ p # 0
    BY PidSets DEF ServiceInv, Owned
  <2>3. \A t \in Svc : t # s => proc[p].kind \notin Kinds(t)
    BY <2>2 DEF Kinds, Svc
  <2> QED BY <2>1, <2>2, <2>3, PidSets DEF ServiceInv, Owned
<1>4. Owned'
  BY <1>2, <1>3 DEF ServiceInv, Owned
<1>5. ASSUME ~ forced' PROVE Alone' /\ KilledIsDoomed' /\ \A t \in Svc : Shown(t)'
  <2>1. Alone /\ KilledIsDoomed /\ \A t \in Svc : Shown(t)
    BY <1>5 DEF ServiceInv
  <2>2. Alone'
    <3> SUFFICES ASSUME NEW t \in Svc, NEW q \in Procs, proc'[q].kind \in Kinds(t)
                 PROVE  q = svd'[t].pid
      BY DEF Alone
    <3>1. q # p
      BY <1>2, FreeTyped DEF Kinds
    <3>2. q = svd[t].pid
      BY <3>1, <1>2, <2>1 DEF Alone
    <3> QED BY <3>1, <3>2, <1>2
  <2>3. KilledIsDoomed'
    BY <2>1, <1>2, <1>3 DEF KilledIsDoomed
  <2>4. \A t \in Svc : Shown(t)'
    BY <2>1, <1>2 DEF Shown
  <2> QED BY <2>2, <2>3, <2>4
<1> QED BY <1>1, <1>4, <1>5 DEF ServiceInv

LEMMA ReapStep ==
  ASSUME ServiceInv, hasfinish \in BOOLEAN, NEW p \in Procs, Reap(p)
  PROVE  ServiceInv'
<1>1. /\ UNCHANGED <<haslog, lastMain, finishArg, forced>>
      /\ proc' = [proc EXCEPT ![p] = Free]
      /\ proc[p].kind \in {"none", "run", "finish", "log"} \cup {"free"}
  BY DEF Reap, ServiceInv, ServiceTypes, ProcSet
<1>2. "main" \in Svc /\ "log" \in Svc /\ \A s \in Svc : svd[s] \in ServiceSet
  BY DEF Svc, ServiceInv, ServiceTypes
<1>3. \A s \in Svc : svd[s].pid = p => proc[p].kind \in {"run", "finish", "log"}
  BY PidSets DEF ServiceInv, Owned, Kinds
<1>4. CASE p = svd["main"].pid
  <2>1. /\ svd' = [svd EXCEPT !["main"] = AfterMain(svd["main"])]
        /\ wstat' = proc[p].kind
        /\ pidfile' = [pidfile EXCEPT !["main"] = 0]
        /\ killed' = killed \ {"main"}
    BY <1>4 DEF Reap
  <2>2. status' = [status EXCEPT !["main"] = AfterMain(svd["main"])]
    <3>1. svd'["main"] = AfterMain(svd["main"])
      BY <2>1, <1>2 DEF ServiceInv, ServiceTypes
    <3> QED BY <3>1, <1>4 DEF Reap, UpdateStatus
  <2>3. AfterMain(svd["main"]) \in ServiceSet /\ AfterMain(svd["main"]).pid = 0
        /\ AfterMain(svd["main"]).state # "run"
    BY <1>2, AfterTyped
  <2> QED BY <1>1, <1>2, <1>3, <1>4, <2>1, <2>2, <2>3, ReapOwned
<1>5. CASE p # svd["main"].pid /\ haslog /\ p = svd["log"].pid
  <2>1. /\ svd' = [svd EXCEPT !["log"] = AfterLog(svd["log"])]
        /\ wstat' = proc[p].kind
        /\ pidfile' = [pidfile EXCEPT !["log"] = 0]
        /\ killed' = killed \ {"log"}
    BY <1>5 DEF Reap
  <2>2. status' = [status EXCEPT !["log"] = AfterLog(svd["log"])]
    <3>1. svd'["log"] = AfterLog(svd["log"])
      BY <2>1, <1>2 DEF ServiceInv, ServiceTypes
    <3> QED BY <3>1, <1>5 DEF Reap, UpdateStatus
  <2>3. AfterLog(svd["log"]) \in ServiceSet /\ AfterLog(svd["log"]).pid = 0
        /\ AfterLog(svd["log"]).state # "run"
    BY <1>2, AfterTyped
  <2> QED BY <1>1, <1>2, <1>3, <1>5, <2>1, <2>2, <2>3, ReapOwned
<1>6. CASE p # svd["main"].pid /\ ~ (haslog /\ p = svd["log"].pid)
  <2>1. UNCHANGED <<wstat, svd, status, pidfile, killed>>
    BY <1>6 DEF Reap
  <2>2. \A s \in Svc : svd[s].pid # p
    BY <1>6, PidSets DEF ServiceInv, Owned, Svc
  <2>3. \A s \in Svc : svd[s].pid = 0 \/ svd[s].pid \in Procs
    <3>1. \A s \in Svc : svd[s].pid \in 0 .. MaxProcs
      BY <1>2 DEF ServiceSet
    <3> QED BY <3>1, PidSets
  <2>4. /\ proc'[p] = Free /\ \A q \in Procs : q # p => proc'[q] = proc[q]
        /\ proc' \in [Procs -> ProcSet]
    BY <1>1, FreeTyped DEF ServiceInv, ServiceTypes
  <2>5. ServiceTypes' /\ Owned'
    BY <1>1, <2>1, <2>2, <2>3, <2>4 DEF ServiceInv, ServiceTypes, Owned
  <2>6. ASSUME ~ forced' PROVE Alone' /\ KilledIsDoomed' /\ \A t \in Svc : Shown(t)'
    <3>1. Alone /\ KilledIsDoomed /\ \A t \in Svc : Shown(t)
      BY <2>6, <1>1 DEF ServiceInv
    <3>2. Alone'
      BY <3>1, <2>1, <2>4, FreeTyped DEF Alone, Kinds
    <3>3. KilledIsDoomed'
      BY <3>1, <2>1, <2>2, <2>3, <2>4 DEF KilledIsDoomed
    <3>4. \A t \in Svc : Shown(t)'
      BY <3>1, <2>1 DEF Shown
    <3> QED BY <3>2, <3>3, <3>4
  <2> QED BY <2>5, <2>6 DEF ServiceInv
<1> QED BY <1>4, <1>5, <1>6

\* A child that ends is a zombie of the same kind until it is reaped.
LEMMA DieStep ==
  ASSUME ServiceInv, NEW p \in Procs, Die(p)
  PROVE  ServiceInv'
<1>1. /\ proc[p].kind \in {"free", "run", "finish", "log"}
      /\ proc' = [proc EXCEPT ![p] = Zombie(proc[p].kind)]
      /\ UNCHANGED <<haslog, wstat, svd, status, pidfile, lastMain, finishArg, killed, forced>>
  BY DEF Die, ServiceInv, ServiceTypes, ProcSet
<1>2. /\ proc' \in [Procs -> ProcSet]
      /\ proc'[p].kind = proc[p].kind /\ ~ proc'[p].live
      /\ \A q \in Procs : q # p => proc'[q] = proc[q]
  BY <1>1, FreeTyped DEF ServiceInv, ServiceTypes
<1>3. \A q \in Procs : proc'[q].kind = proc[q].kind
  BY <1>2
<1>4. \A s \in Svc : svd[s].pid = 0 \/ svd[s].pid \in Procs
  <2>1. \A s \in Svc : svd[s].pid \in 0 .. MaxProcs
    BY DEF ServiceInv, ServiceTypes, ServiceSet
  <2> QED BY <2>1, PidSets
<1>5. ServiceTypes' /\ Owned'
  BY <1>1, <1>2, <1>3, <1>4 DEF ServiceInv, ServiceTypes, Owned
<1>6. ASSUME ~ forced' PROVE Alone' /\ KilledIsDoomed' /\ \A t \in Svc : Shown(t)'
  <2>1. Alone /\ KilledIsDoomed /\ \A t \in Svc : Shown(t)
    BY <1>6, <1>1 DEF ServiceInv
  <2>2. Alone'
    BY <2>1, <1>1, <1>3 DEF Alone
  <2>3. KilledIsDoomed'
    BY <2>1, <1>1, <1>2, <1>4 DEF KilledIsDoomed
  <2>4. \A t \in Svc : Shown(t)'
    BY <2>1, <1>1 DEF Shown
  <2> QED BY <2>2, <2>3, <2>4
<1> QED BY <1>5, <1>6 DEF ServiceInv

LEMMA ServiceStutter ==
  ASSUME ServiceInv, UNCHANGED serviceVars, UNCHANGED <<haslog, wstat>>
  PROVE  ServiceInv'
BY DEF serviceVars, ServiceInv, ServiceTypes, Owned, Alone, KilledIsDoomed, Shown

-----------------------------------------------------------------------------
(* Control letters. *)

\* stopservice on a record that differs from svd[s] in sd_want at most.
LEMMA StopStep ==
  ASSUME ServiceInv, NEW s \in Svc, NEW sv \in ServiceSet,
         sv.pid = svd[s].pid, sv.state = svd[s].state,
         StopService(s, sv), UNCHANGED <<haslog, wstat>>
  PROVE  ServiceInv'
<1>1. PICK handled \in Custom(s, "t") :
        LET asked == Term(proc, sv.pid)
            after == IF handled THEN sv ELSE [sv EXCEPT !.term = TRUE]
        IN /\ proc' = IF sv.want = "up" THEN asked ELSE Cont(asked, sv.pid)
           /\ svd' = [svd EXCEPT ![s] = after]
           /\ status' = IF handled /\ sv = svd[s] THEN status ELSE UpdateStatus(s, after)
           /\ UNCHANGED <<pidfile, lastMain, finishArg, killed, forced>>
  BY DEF StopService
<1> DEFINE asked == Term(proc, sv.pid)
           after == IF handled THEN sv ELSE [sv EXCEPT !.term = TRUE]
<1>2. Signalled(proc, proc')
  <2>1. proc \in [Procs -> ProcSet] /\ sv.pid \in 0 .. MaxProcs
    BY DEF ServiceInv, ServiceTypes, ServiceSet
  <2>2. Signalled(proc, asked)
    BY <2>1, SignalsOnly
  <2>3. Signalled(asked, Cont(asked, sv.pid))
    BY <2>1, <2>2, SignalsOnly DEF Signalled
  <2>4. proc' = asked \/ proc' = Cont(asked, sv.pid)
    BY <1>1
  <2> HIDE DEF asked
  <2> QED BY <2>2, <2>3, <2>4 DEF Signalled
<1>3. after \in ServiceSet /\ after.pid = sv.pid /\ after.state = sv.state
  <2>1. CASE handled
    BY <2>1
  <2>2. CASE ~ handled
    BY <2>2, FieldsOnly
  <2> QED BY <2>1, <2>2
<1>4. status' = [status EXCEPT ![s] = after] \/ (status' = status /\ after = svd[s])
  BY <1>1 DEF UpdateStatus
<1>5. svd' = [svd EXCEPT ![s] = after] /\ UNCHANGED <<pidfile, lastMain, finishArg, killed, forced>>
  BY <1>1
<1> HIDE DEF after, asked
<1> QED BY <1>2, <1>3, <1>4, <1>5, QuietStep

LEMMA SaveStep ==
  ASSUME ServiceInv, NEW s \in Svc, NEW sv \in ServiceSet,
         sv.pid = svd[s].pid, sv.state = svd[s].state,
         Save(s, sv), UNCHANGED <<haslog, wstat>>
  PROVE  ServiceInv'
<1>1. Signalled(proc, proc)
  BY PidSets, RunsvAssumption DEF Signalled, ServiceInv, ServiceTypes
<1>2. Signalled(proc, proc')
  BY <1>1 DEF Save
<1> QED BY <1>2, QuietStep DEF Save, UpdateStatus

\* u and o start a service whose state is down; forced if it was only said so.
LEMMA StartByLetter ==
  ASSUME ServiceInv, NEW s \in Svc, NEW sv \in ServiceSet, s = "log" => haslog,
         sv.pid = svd[s].pid, sv.state = svd[s].state, svd[s].state = "down",
         StartService(s, sv), forced' = (forced \/ s \in killed), UNCHANGED <<haslog, wstat>>
  PROVE  ServiceInv'
<1>1. forced' \in BOOLEAN /\ (forced => forced')
  BY DEF ServiceInv, ServiceTypes
<1>2. ~ forced' => svd[s].pid = 0
  BY DEF ServiceInv, KilledIsDoomed
<1> QED BY <1>1, <1>2, StartStep

\* Letters p and c.
LEMMA PauseStep ==
  ASSUME ServiceInv, NEW s \in Svc, CtrlPause(s) \/ CtrlCont(s), UNCHANGED <<haslog, wstat>>
  PROVE  ServiceInv'
<1>1. svd[s] \in ServiceSet /\ svd[s].pid \in 0 .. MaxProcs /\ proc \in [Procs -> ProcSet]
  BY DEF ServiceInv, ServiceTypes, ServiceSet
<1>2. Signalled(proc, proc')
  <2>1. \/ proc' = proc \/ proc' = Stop(proc, svd[s].pid) \/ proc' = Cont(proc, svd[s].pid)
    BY DEF CtrlPause, CtrlCont
  <2> QED BY <1>1, <2>1, SignalsOnly
<1>3. PICK b \in BOOLEAN : svd' = [svd EXCEPT ![s] = [svd[s] EXCEPT !.pause = b]]
  BY DEF CtrlPause, CtrlCont
<1>4. status' = [status EXCEPT ![s] = svd'[s]] /\ UNCHANGED <<pidfile, lastMain, finishArg, killed, forced>>
  BY DEF CtrlPause, CtrlCont, UpdateStatus
<1> DEFINE sv == [svd[s] EXCEPT !.pause = b]
<1>5. sv \in ServiceSet /\ sv.pid = svd[s].pid /\ sv.state = svd[s].state
  BY <1>1, FieldsOnly
<1> HIDE DEF sv
<1>6. svd' = [svd EXCEPT ![s] = sv]
  BY <1>3 DEF sv
<1>7. svd'[s] = sv
  BY <1>6 DEF ServiceInv, ServiceTypes
<1> QED BY <1>2, <1>4, <1>5, <1>6, <1>7, QuietStep

\* ctrl: every letter to a service that exists.
LEMMA CtrlStep ==
  ASSUME ServiceInv, NEW s \in Svc, s = "log" => haslog, NEW c, Ctrl(s, c),
         UNCHANGED <<haslog, wstat>>
  PROVE  ServiceInv'
<1>1. \A w \in {"up", "down", "exit"} :
        Wanting(s, w) \in ServiceSet /\ Wanting(s, w).pid = svd[s].pid
        /\ Wanting(s, w).state = svd[s].state
  <2>1. svd[s] \in ServiceSet
    BY DEF ServiceInv, ServiceTypes
  <2> QED BY <2>1, FieldsOnly DEF Wanting
<1>2. svd[s] \in ServiceSet
  BY DEF ServiceInv, ServiceTypes
<1>3. CASE CtrlDown(s)
  BY <1>1, <1>3, StopStep, SaveStep DEF CtrlDown
<1>4. CASE CtrlUp(s)
  BY <1>1, <1>4, StartByLetter, SaveStep DEF CtrlUp
<1>5. CASE CtrlOnce(s)
  BY <1>1, <1>5, StartByLetter, SaveStep DEF CtrlOnce
<1>6. CASE CtrlExit(s)
  BY <1>1, <1>6, StopStep, SaveStep, ServiceStutter DEF CtrlExit
<1>7. CASE CtrlTerm(s)
  BY <1>2, <1>7, StopStep, ServiceStutter DEF CtrlTerm
<1>8. CASE CtrlKill(s)
  BY <1>8, KillStep
<1>9. CASE CtrlPause(s) \/ CtrlCont(s)
  BY <1>9, PauseStep
<1>10. CASE UNCHANGED serviceVars
  BY <1>10, ServiceStutter
<1> QED BY <1>3, <1>4, <1>5, <1>6, <1>7, <1>8, <1>9, <1>10 DEF Ctrl

-----------------------------------------------------------------------------
(* The loop. *)

LEMMA RunsvInitInv == RunsvInit => RunsvInv
<1> SUFFICES ASSUME RunsvInit PROVE RunsvInv
  OBVIOUS
<1>1. 0 \in 0 .. MaxProcs /\ 0 \in 0 .. OldPid /\ OldPid \in 0 .. OldPid /\ MaxLetters \in 0 .. MaxLetters
  BY RunsvAssumption DEF OldPid
<1>2. \A w \in {"up", "down", "exit"} :
        /\ ServiceDown(w) \in ServiceSet
        /\ ServiceDown(w).pid = 0 /\ ServiceDown(w).state = "down"
  BY <1>1 DEF ServiceDown, ServiceSet
<1>3. /\ svd \in [Svc -> ServiceSet] /\ status = svd
      /\ \A s \in Svc : svd[s].pid = 0 /\ svd[s].state = "down"
  <2>1. PICK down \in SUBSET (IF haslog THEN Svc ELSE {"main"}) :
          svd = [s \in Svc |-> ServiceDown(IF s \in down THEN "down" ELSE "up")]
    BY DEF RunsvInit
  <2> QED BY <2>1, <1>2 DEF RunsvInit
<1>4. ServiceTypes
  <2>1. proc \in [Procs -> ProcSet] /\ pidfile \in [Svc -> 0 .. OldPid]
    BY <1>1, FreeTyped DEF RunsvInit
  <2> QED BY <1>3, <2>1, Zenon DEF RunsvInit, ServiceTypes
<1>5. Owned
  BY <1>3 DEF Owned
<1>6. Alone
  BY FreeTyped DEF RunsvInit, Alone, Kinds
<1>7. KilledIsDoomed /\ \A s \in Svc : Shown(s)
  <2>1. killed = {} /\ pidfile = [s \in Svc |-> IF s = "main" THEN 0 ELSE OldPid]
    BY DEF RunsvInit
  <2> QED BY <1>3, <2>1 DEF KilledIsDoomed, Shown, Svc
<1>8. LoopTypes /\ ExitedDown
  <2>1. fifo \in [Svc -> Seq(Letters)] /\ letters \in 0 .. MaxLetters /\ pending \subseteq {"CHLD", "TERM"}
    BY <1>1 DEF RunsvInit
  <2>2. hasfinish \in BOOLEAN /\ logpipe \in BOOLEAN /\ selfpipe \in BOOLEAN /\ sigterm \in BOOLEAN
    BY DEF RunsvInit
  <2>3. rpc = "topLog"
    BY DEF RunsvInit
  <2> QED BY <2>1, <2>2, <2>3 DEF LoopTypes, ExitedDown
<1> QED BY <1>4, <1>5, <1>6, <1>7, <1>8 DEF RunsvInv, ServiceInv

\* The loop starts a service only when the last child of it was reaped.
LEMMA TopKeeps ==
  ASSUME RunsvInv, StartLog \/ StartMain
  PROVE  RunsvInv'
<1>1. LoopTypes' /\ ExitedDown'
  BY DEF StartLog, StartMain, RunsvInv, LoopTypes, ExitedDown
<1>2. /\ svd["main"] \in ServiceSet /\ svd["log"] \in ServiceSet /\ forced \in BOOLEAN
      /\ ServiceInv /\ "main" \in Svc /\ "log" \in Svc
  BY DEF RunsvInv, ServiceInv, ServiceTypes, Svc
<1>3. UNCHANGED <<haslog, wstat>>
  BY DEF StartLog, StartMain
<1>4. CASE StartLog
  <2>1. CASE UNCHANGED serviceVars
    BY <1>2, <1>3, <2>1, ServiceStutter, <1>1 DEF RunsvInv
  <2>2. CASE ~ UNCHANGED serviceVars
    <3>1. StartService("log", svd["log"]) /\ haslog /\ svd["log"].pid = 0 /\ forced' = forced
      BY <1>4, <2>2 DEF StartLog
    <3> QED BY <1>1, <1>2, <1>3, <3>1, StartStep DEF RunsvInv
  <2> QED BY <2>1, <2>2
<1>5. CASE StartMain
  <2>1. CASE UNCHANGED serviceVars
    BY <1>2, <1>3, <2>1, ServiceStutter, <1>1 DEF RunsvInv
  <2>2. CASE ~ UNCHANGED serviceVars
    <3>1. StartService("main", svd["main"]) /\ svd["main"].pid = 0 /\ forced' = forced
      BY <1>5, <2>2 DEF StartMain
    <3> QED BY <1>1, <1>2, <1>3, <3>1, StartStep DEF RunsvInv
  <2> QED BY <2>1, <2>2
<1> QED BY <1>4, <1>5

\* The control letters and the flag of SIGTERM.
LEMMA ControlKeeps ==
  ASSUME RunsvInv, ControlMain \/ ControlLog \/ CheckSigterm
  PROVE  RunsvInv'
<1>1. /\ ServiceInv /\ "main" \in Svc /\ "log" \in Svc /\ UNCHANGED <<haslog, wstat>>
      /\ fifo \in [Svc -> Seq(Letters)]
  BY DEF RunsvInv, LoopTypes, Svc, ControlMain, ControlLog, CheckSigterm
<1>2. ASSUME NEW s \in Svc, s = "log" => haslog, ReadControl(s)
      PROVE  ServiceInv' /\ fifo' \in [Svc -> Seq(Letters)]
  <2>1. CASE fifo[s] = <<>>
    BY <1>1, <1>2, <2>1, ServiceStutter DEF ReadControl
  <2>2. CASE fifo[s] # <<>>
    <3>1. Ctrl(s, Head(fifo[s])) /\ fifo' = [fifo EXCEPT ![s] = Tail(fifo[s])]
      BY <1>2, <2>2 DEF ReadControl
    <3>2. Tail(fifo[s]) \in Seq(Letters)
      BY <1>1, <2>2
    <3>3. fifo' \in [Svc -> Seq(Letters)]
      BY <1>1, <3>1, <3>2
    <3>4. ServiceInv'
      BY <1>1, <1>2, <3>1, CtrlStep
    <3> QED BY <3>3, <3>4
  <2> QED BY <2>1, <2>2
<1>3. CASE ControlMain
  <2>1. ServiceInv' /\ fifo' \in [Svc -> Seq(Letters)]
    BY <1>1, <1>2, <1>3 DEF ControlMain
  <2> QED BY <1>3, <2>1 DEF ControlMain, RunsvInv, LoopTypes, ExitedDown
<1>4. CASE ControlLog
  <2>1. ServiceInv' /\ fifo' \in [Svc -> Seq(Letters)]
    BY <1>1, <1>2, <1>4, ServiceStutter DEF ControlLog
  <2> QED BY <1>4, <2>1 DEF ControlLog, RunsvInv, LoopTypes, ExitedDown
<1>5. CASE CheckSigterm
  <2>1. ServiceInv'
    BY <1>1, <1>5, CtrlStep, ServiceStutter DEF CheckSigterm
  <2> QED BY <1>5, <2>1 DEF CheckSigterm, RunsvInv, LoopTypes, ExitedDown
<1> QED BY <1>3, <1>4, <1>5

\* The end of the loop.
LEMMA ExitKeeps ==
  ASSUME RunsvInv, ExitNow \/ EndLog \/ GoOn
  PROVE  RunsvInv'
<1>1. ServiceInv /\ "log" \in Svc /\ UNCHANGED <<haslog, wstat>>
  BY DEF RunsvInv, Svc, ExitNow, EndLog, GoOn
<1>2. ServiceInv'
  <2>1. CASE UNCHANGED serviceVars
    BY <1>1, <2>1, ServiceStutter
  <2>2. CASE Save("log", Wanting("log", "exit"))
    <3>1. svd["log"] \in ServiceSet
      BY <1>1 DEF ServiceInv, ServiceTypes
    <3>2. Wanting("log", "exit") \in ServiceSet /\ Wanting("log", "exit").pid = svd["log"].pid
          /\ Wanting("log", "exit").state = svd["log"].state
      BY <3>1, FieldsOnly DEF Wanting
    <3> QED BY <1>1, <2>2, <3>2, SaveStep
  <2> QED BY <2>1, <2>2 DEF ExitNow, EndLog, GoOn
<1>3. LoopTypes'
  <2>1. logpipe' \in BOOLEAN
    BY DEF ExitNow, EndLog, GoOn, RunsvInv, LoopTypes
  <2> QED BY <2>1 DEF ExitNow, EndLog, GoOn, RunsvInv, LoopTypes
<1>4. ExitedDown'
  <2>1. CASE ExitNow
    BY <2>1 DEF ExitNow, ExitedDown, Exiting, serviceVars
  <2>2. CASE EndLog \/ GoOn
    BY <2>2 DEF EndLog, GoOn, ExitedDown
  <2> QED BY <2>1, <2>2
<1> QED BY <1>2, <1>3, <1>4 DEF RunsvInv

\* poll, the reaping of children, and what others do to runsv.
LEMMA OthersKeep ==
  ASSUME RunsvInv,
         \/ Signals \/ Wake \/ PollTimeout \/ Reaped \/ SendSigterm
         \/ \E p \in Procs : Reap(p) \/ Die(p)
         \/ \E c \in MainLetters : WriteLetter("main", c)
         \/ \E c \in LogLetters : WriteLetter("log", c)
  PROVE  RunsvInv'
<1>1. CASE Signals \/ Wake \/ PollTimeout \/ Reaped
  <2>1. UNCHANGED serviceVars /\ UNCHANGED <<haslog, wstat>> /\ ServiceInv
    BY <1>1 DEF Signals, Wake, PollTimeout, Reaped, RunsvInv
  <2>2. sigterm' \in BOOLEAN /\ selfpipe' \in BOOLEAN /\ pending' \subseteq {"CHLD", "TERM"}
    BY <1>1, Zenon DEF Signals, Wake, PollTimeout, Reaped, RunsvInv, LoopTypes
  <2>3. LoopTypes' /\ ExitedDown'
    BY <1>1, <2>2 DEF Signals, Wake, PollTimeout, Reaped, RunsvInv, LoopTypes, ExitedDown
  <2> QED BY <2>1, <2>3, ServiceStutter DEF RunsvInv
<1>2. CASE SendSigterm
  <2>1. UNCHANGED serviceVars /\ UNCHANGED <<haslog, wstat>> /\ ServiceInv
    BY <1>2 DEF SendSigterm, RunsvInv
  <2>2. LoopTypes' /\ ExitedDown'
    BY <1>2, RunsvAssumption DEF SendSigterm, RunsvInv, LoopTypes, ExitedDown
  <2> QED BY <2>1, <2>2, ServiceStutter DEF RunsvInv
<1>3. ASSUME NEW p \in Procs, Reap(p) PROVE RunsvInv'
  <2>1. ServiceInv'
    BY <1>3, ReapStep DEF RunsvInv, LoopTypes
  <2> QED BY <1>3, <2>1 DEF Reap, RunsvInv, LoopTypes, ExitedDown
<1>4. ASSUME NEW p \in Procs, Die(p) PROVE RunsvInv'
  <2>1. ServiceInv'
    BY <1>4, DieStep DEF RunsvInv
  <2>2. pending' \subseteq {"CHLD", "TERM"}
    BY <1>4 DEF Die, RunsvInv, LoopTypes
  <2> QED BY <1>4, <2>1, <2>2 DEF Die, RunsvInv, LoopTypes, ExitedDown
<1>5. ASSUME NEW s \in Svc, NEW c \in Letters, WriteLetter(s, c) PROVE RunsvInv'
  <2>1. UNCHANGED serviceVars /\ UNCHANGED <<haslog, wstat>> /\ ServiceInv
    BY <1>5 DEF WriteLetter, RunsvInv
  <2>2. fifo' \in [Svc -> Seq(Letters)]
    <3>1. Append(fifo[s], c) \in Seq(Letters)
      BY <1>5 DEF RunsvInv, LoopTypes
    <3> QED BY <1>5, <3>1 DEF WriteLetter, RunsvInv, LoopTypes
  <2>3. LoopTypes' /\ ExitedDown'
    BY <1>5, <2>2, RunsvAssumption DEF WriteLetter, RunsvInv, LoopTypes, ExitedDown
  <2> QED BY <2>1, <2>3, ServiceStutter DEF RunsvInv
<1> QED BY <1>1, <1>2, <1>3, <1>4, <1>5, RunsvAssumption DEF Svc

LEMMA RunsvStepKeeps == RunsvInv /\ [RunsvNext]_runsvVars => RunsvInv'
<1> SUFFICES ASSUME RunsvInv, [RunsvNext]_runsvVars PROVE RunsvInv'
  OBVIOUS
<1>1. CASE RunsvDone \/ UNCHANGED runsvVars
  <2>1. /\ UNCHANGED serviceVars /\ UNCHANGED <<haslog, wstat>> /\ ServiceInv
        /\ UNCHANGED <<rpc, hasfinish, logpipe, fifo, letters, pending, selfpipe, sigterm, svd>>
    BY <1>1 DEF RunsvDone, runsvVars, serviceVars, RunsvInv
  <2>2. LoopTypes' /\ ExitedDown'
    BY <2>1 DEF RunsvInv, LoopTypes, ExitedDown
  <2> QED BY <2>1, <2>2, ServiceStutter DEF RunsvInv
<1> QED BY <1>1, TopKeeps, ControlKeeps, ExitKeeps, OthersKeep DEF RunsvNext, RunsvStep

LEMMA RunsvInvariance == RunsvSpec => []RunsvInv
BY RunsvInitInv, RunsvStepKeeps, PTL DEF RunsvSpec

-----------------------------------------------------------------------------
\* Every variable of runsv keeps its type.
THEOREM TypesOfRunsv == RunsvSpec => []RunsvTypeOK
<1>1. RunsvInv => RunsvTypeOK
  BY DEF RunsvInv, ServiceInv, ServiceTypes, LoopTypes, RunsvTypeOK
<1> QED BY <1>1, RunsvInvariance, PTL

\* startservice, "should never happen": for any letters in any order, runsv
\* has no child of a service but the one in svd, unless k was taken for the
\* end of what it did not kill.
THEOREM NoSecondChild == RunsvSpec => []OneChild
<1>1. RunsvInv => OneChild
  BY DEF RunsvInv, ServiceInv, Alone, Kinds, Svc, OneChild, Mains, Loggers
<1> QED BY <1>1, RunsvInvariance, PTL

\* update_status: supervise/status and supervise/pid tell what runsv knows
\* when it goes to sleep, up to the two exceptions StatusFresh names.
THEOREM StatusIsFresh == RunsvSpec => []StatusFresh
<1>1. RunsvInv => StatusFresh
  BY DEF RunsvInv, ServiceInv, Shown, StatusFresh
<1> QED BY <1>1, RunsvInvariance, PTL

\* _exit: what is left of the service was sent SIGKILL, and the logger is gone.
THEOREM NothingLeftBehind == RunsvSpec => []NoOrphanOnExit
<1>1. ASSUME RunsvInv, rpc = "exited", ~ forced
      PROVE  /\ \A p \in Mains : proc[p].live => proc[p].kill
             /\ Loggers = {}
  <2>1. /\ Alone /\ KilledIsDoomed
        /\ svd["main"].state = "down" /\ svd["log"].pid = 0
    BY <1>1 DEF RunsvInv, ServiceInv, ExitedDown
  <2>2. Loggers = {}
    BY <2>1, PidSets DEF Alone, Kinds, Svc, Loggers
  <2>3. ASSUME NEW p \in Mains, proc[p].live PROVE proc[p].kill
    <3>1. p \in Procs /\ p = svd["main"].pid /\ p # 0
      BY <2>1, PidSets DEF Alone, Kinds, Svc, Mains
    <3> QED BY <2>1, <2>3, <3>1 DEF KilledIsDoomed, Svc
  <2> QED BY <2>2, <2>3
<1>2. RunsvInv => NoOrphanOnExit
  BY <1>1 DEF NoOrphanOnExit
<1> QED BY <1>2, RunsvInvariance, PTL

-----------------------------------------------------------------------------
(* ./run and ./finish take turns. *)

\* What startservice started last says what the next start will be.
Turns ==
  hasfinish /\ ~ forced =>
    /\ svd["main"].pid = 0 => IF svd["main"].state = "finish" THEN lastMain = "run"
                                                            ELSE lastMain # "run"
    /\ svd["main"].pid # 0 => lastMain = IF svd["main"].state = "finish" THEN "finish" ELSE "run"

FinishTurn ==
  LET started == svd'["main"].pid # svd["main"].pid /\ svd'["main"].pid # 0
  IN started /\ hasfinish /\ ~ forced' =>
       lastMain' = (IF lastMain = "run" THEN "finish" ELSE "run")

\* A step that neither starts nor ends what svd[0] stands for.
Calm ==
  /\ svd'["main"].pid = svd["main"].pid /\ svd'["main"].state = svd["main"].state
  /\ UNCHANGED <<lastMain, hasfinish>>
  /\ forced => forced'

LEMMA CalmKeeps ==
  ASSUME Turns, Calm
  PROVE  Turns' /\ FinishTurn
BY DEF Turns, Calm, FinishTurn

\* startservice(&svd[0]).
LEMMA StartTurn ==
  ASSUME RunsvInv, Turns, NEW sv \in ServiceSet, sv.state = svd["main"].state,
         StartService("main", sv), forced => forced', ~ forced' => svd["main"].pid = 0,
         UNCHANGED hasfinish
  PROVE  Turns' /\ FinishTurn
<1> DEFINE kind == IF sv.state = "finish" THEN "finish" ELSE "run"
           after(p) == [sv EXCEPT !.pid = p, !.term = FALSE, !.pause = FALSE,
                                  !.state = IF kind = "finish" THEN @ ELSE "run"]
<1>1. PICK p \in Procs : /\ svd' = [svd EXCEPT !["main"] = after(p)]
                         /\ lastMain' = kind
  BY DEF StartService
<1>2. p # 0
  BY PidSets
<1>3. after(p).pid = p /\ after(p).state = kind
  <2>1. CASE sv.state = "finish"
    BY <2>1 DEF ServiceSet
  <2>2. CASE sv.state # "finish"
    BY <2>2 DEF ServiceSet
  <2> QED BY <2>1, <2>2
<1> HIDE DEF after
<1>4. svd'["main"] = after(p)
  BY <1>1 DEF RunsvInv, ServiceInv, ServiceTypes, Svc
<1> QED BY <1>1, <1>2, <1>3, <1>4 DEF Turns, FinishTurn

\* Letters to the logger, and its start, leave svd[0] alone.
LEMMA LoggerCalm ==
  ASSUME RunsvInv, Turns, UNCHANGED hasfinish,
         (\E sv : StartService("log", sv) /\ UNCHANGED forced) \/ (\E c : Ctrl("log", c))
  PROVE  Turns' /\ FinishTurn
<1>1. (\E x : svd' = [svd EXCEPT !["log"] = x]) \/ svd' = svd
  BY DEF StartService, Ctrl, CtrlDown, CtrlUp, CtrlOnce, CtrlExit, CtrlTerm, CtrlKill, CtrlPause,
         CtrlCont, StopService, Save, serviceVars
<1>2. svd'["main"] = svd["main"]
  BY <1>1 DEF RunsvInv, ServiceInv, ServiceTypes, Svc
<1>3. lastMain' = lastMain
  BY DEF StartService, Ctrl, CtrlDown, CtrlUp, CtrlOnce, CtrlExit, CtrlTerm, CtrlKill, CtrlPause,
         CtrlCont, StopService, Save, serviceVars
<1>4. forced => forced'
  BY DEF StartService, Ctrl, CtrlDown, CtrlUp, CtrlOnce, CtrlExit, CtrlTerm, CtrlKill, CtrlPause,
         CtrlCont, StopService, Save, serviceVars
<1> QED BY <1>2, <1>3, <1>4, CalmKeeps DEF Calm

\* Letters to the service.
LEMMA CtrlTurn ==
  ASSUME RunsvInv, Turns, NEW c, Ctrl("main", c), UNCHANGED hasfinish
  PROVE  Turns' /\ FinishTurn
<1> DEFINE m == svd["main"]
<1>1. /\ m \in ServiceSet /\ svd \in [Svc -> ServiceSet] /\ "main" \in Svc /\ forced \in BOOLEAN
      /\ ServiceInv
  BY DEF RunsvInv, ServiceInv, ServiceTypes, Svc
<1>2. ASSUME NEW sv \in ServiceSet, sv.pid = m.pid, sv.state = m.state,
             svd' = [svd EXCEPT !["main"] = sv], UNCHANGED <<lastMain, forced>>
      PROVE  Turns' /\ FinishTurn
  BY <1>1, <1>2, CalmKeeps DEF Calm
<1>3. \A w \in {"up", "down", "exit"} :
        Wanting("main", w) \in ServiceSet /\ Wanting("main", w).pid = m.pid
        /\ Wanting("main", w).state = m.state
  BY <1>1, FieldsOnly DEF Wanting
<1>4. ASSUME NEW sv \in ServiceSet, sv.pid = m.pid, sv.state = m.state, Save("main", sv)
      PROVE  Turns' /\ FinishTurn
  BY <1>2, <1>4 DEF Save
<1>5. ASSUME NEW sv \in ServiceSet, sv.pid = m.pid, sv.state = m.state, StopService("main", sv)
      PROVE  Turns' /\ FinishTurn
  <2>1. PICK handled \in Custom("main", "t") :
          /\ svd' = [svd EXCEPT !["main"] = IF handled THEN sv ELSE [sv EXCEPT !.term = TRUE]]
          /\ UNCHANGED <<lastMain, forced>>
    BY <1>5 DEF StopService
  <2>2. CASE handled
    BY <1>2, <1>5, <2>1, <2>2
  <2>3. CASE ~ handled
    <3> DEFINE a == [sv EXCEPT !.term = TRUE]
    <3>1. a \in ServiceSet /\ a.pid = sv.pid /\ a.state = sv.state
      BY FieldsOnly
    <3>2. svd' = [svd EXCEPT !["main"] = a]
      BY <2>1, <2>3
    <3> HIDE DEF a
    <3> QED BY <1>2, <1>5, <2>1, <3>1, <3>2
  <2> QED BY <2>2, <2>3
<1>6. ASSUME NEW sv \in ServiceSet, sv.state = m.state, m.state = "down",
             StartService("main", sv), forced' = (forced \/ "main" \in killed)
      PROVE  Turns' /\ FinishTurn
  <2>1. (forced => forced') /\ (~ forced' => m.pid = 0)
    BY <1>1, <1>6 DEF ServiceInv, KilledIsDoomed
  <2> QED BY <1>6, <2>1, StartTurn
<1>7. CASE CtrlKill("main")
  <2>1. /\ svd' = [svd EXCEPT !["main"].state = "down"]
        /\ lastMain' = lastMain
        /\ (forced => forced') /\ (~ forced' => m.state # "finish")
    BY <1>1, <1>7 DEF CtrlKill
  <2>2. svd'["main"].pid = m.pid /\ svd'["main"].state = "down"
    BY <1>1, <2>1 DEF ServiceSet
  <2> QED BY <2>1, <2>2 DEF Turns, FinishTurn
<1>8. CASE CtrlPause("main") \/ CtrlCont("main")
  <2>1. PICK b \in BOOLEAN : svd' = [svd EXCEPT !["main"] = [m EXCEPT !.pause = b]]
    BY <1>8 DEF CtrlPause, CtrlCont
  <2> DEFINE a == [m EXCEPT !.pause = b]
  <2>2. a \in ServiceSet /\ a.pid = m.pid /\ a.state = m.state
    BY <1>1, FieldsOnly
  <2>3. UNCHANGED <<lastMain, forced>>
    BY <1>8 DEF CtrlPause, CtrlCont
  <2> HIDE DEF a, m
  <2> QED BY <1>2, <2>1, <2>2, <2>3 DEF a
<1>9. CASE UNCHANGED serviceVars
  BY <1>9, CalmKeeps DEF Calm, serviceVars
<1> HIDE DEF m
<1> QED
  <2>1. CASE CtrlDown("main") \/ CtrlExit("main")
    BY <2>1, <1>3, <1>4, <1>5 DEF CtrlDown, CtrlExit
  <2>2. CASE CtrlUp("main") \/ CtrlOnce("main")
    BY <2>2, <1>3, <1>4, <1>6 DEF CtrlUp, CtrlOnce, m
  <2>3. CASE CtrlTerm("main")
    BY <2>3, <1>1, <1>5, <1>9 DEF CtrlTerm, m
  <2> QED BY <2>1, <2>2, <2>3, <1>7, <1>8, <1>9 DEF Ctrl

\* The end of ./run and of ./finish.
LEMMA ReapTurn ==
  ASSUME RunsvInv, Turns, NEW p \in Procs, Reap(p)
  PROVE  Turns' /\ FinishTurn
<1>1. svd["main"] \in ServiceSet /\ svd \in [Svc -> ServiceSet] /\ p # 0
  BY PidSets DEF RunsvInv, ServiceInv, ServiceTypes, Svc
<1>2. UNCHANGED <<lastMain, hasfinish, forced>>
  BY DEF Reap
<1>3. CASE p = svd["main"].pid
  <2>1. svd'["main"] = AfterMain(svd["main"])
    BY <1>1, <1>3 DEF Reap, Svc
  <2>2. /\ AfterMain(svd["main"]).pid = 0
        /\ hasfinish => AfterMain(svd["main"]).state =
                          IF svd["main"].state # "finish" THEN "finish" ELSE "down"
    BY <1>1 DEF AfterMain, ServiceSet
  <2> QED BY <1>1, <1>2, <1>3, <2>1, <2>2 DEF Turns, FinishTurn
<1>4. CASE p # svd["main"].pid
  <2>1. svd'["main"] = svd["main"]
    BY <1>1, <1>4 DEF Reap, Svc
  <2> QED BY <1>2, <2>1, CalmKeeps DEF Calm
<1> QED BY <1>3, <1>4

LEMMA TurnsStep ==
  ASSUME RunsvInv, Turns, [RunsvNext]_runsvVars
  PROVE  Turns' /\ FinishTurn
<1>1. /\ svd["main"] \in ServiceSet /\ svd["log"] \in ServiceSet /\ "log" \in Svc
      /\ svd \in [Svc -> ServiceSet]
  BY DEF RunsvInv, ServiceInv, ServiceTypes, Svc
<1>2. ASSUME UNCHANGED serviceVars, UNCHANGED hasfinish PROVE Turns' /\ FinishTurn
  BY <1>2, CalmKeeps DEF Calm, serviceVars
<1>3. CASE StartLog
  BY <1>2, <1>3, LoggerCalm DEF StartLog
<1>4. CASE StartMain
  BY <1>1, <1>2, <1>4, StartTurn DEF StartMain
<1>5. CASE \E p \in Procs : Reap(p)
  BY <1>5, ReapTurn
<1>6. CASE ControlMain
  BY <1>2, <1>6, CtrlTurn DEF ControlMain, ReadControl
<1>7. CASE ControlLog
  BY <1>2, <1>7, LoggerCalm DEF ControlLog, ReadControl
<1>8. CASE CheckSigterm
  BY <1>2, <1>8, CtrlTurn DEF CheckSigterm
<1>9. CASE EndLog
  <2>1. CASE Save("log", Wanting("log", "exit"))
    <3>1. svd'["main"] = svd["main"]
      BY <1>1, <2>1 DEF Save
    <3> QED BY <1>9, <2>1, <3>1, CalmKeeps DEF Calm, EndLog, Save
  <2>2. CASE UNCHANGED serviceVars
    BY <1>2, <1>9, <2>2 DEF EndLog
  <2> QED BY <1>9, <2>1, <2>2 DEF EndLog
<1>10. CASE Signals \/ Wake \/ PollTimeout \/ Reaped \/ ExitNow \/ GoOn \/ SendSigterm
  BY <1>2, <1>10 DEF Signals, Wake, PollTimeout, Reaped, ExitNow, GoOn, SendSigterm
<1>11. CASE (\E c \in MainLetters : WriteLetter("main", c)) \/ (\E c \in LogLetters : WriteLetter("log", c))
  BY <1>2, <1>11 DEF WriteLetter
<1>12. CASE \E p \in Procs : Die(p)
  BY <1>12, CalmKeeps DEF Die, Calm
<1>13. CASE RunsvDone \/ UNCHANGED runsvVars
  BY <1>13, CalmKeeps DEF RunsvDone, runsvVars, Calm
<1> QED BY <1>3, <1>4, <1>5, <1>6, <1>7, <1>8, <1>9, <1>10, <1>11, <1>12, <1>13
        DEF RunsvNext, RunsvStep

\* ctrl and runsv_main: with a ./finish, ./run and ./finish start alternately
\* whatever letters and signals come, unless k was taken for the end of what
\* it did not kill.
THEOREM FinishAfterRun == RunsvSpec => FinishOnce
<1>1. RunsvInit => Turns
  <2> SUFFICES ASSUME RunsvInit PROVE Turns
    OBVIOUS
  <2>1. svd["main"].pid = 0 /\ svd["main"].state = "down" /\ lastMain = "none"
    BY DEF RunsvInit, ServiceDown, Svc
  <2> QED BY <2>1 DEF Turns
<1>2. RunsvInv /\ Turns /\ [RunsvNext]_runsvVars => Turns'
  BY TurnsStep
<1>3. RunsvInv /\ Turns /\ [RunsvNext]_runsvVars =>
        [ LET started == svd'["main"].pid # svd["main"].pid /\ svd'["main"].pid # 0
          IN started /\ hasfinish /\ ~ forced' =>
               lastMain' = (IF lastMain = "run" THEN "finish" ELSE "run") ]_runsvVars
  BY TurnsStep DEF FinishTurn
<1> QED BY <1>1, <1>2, <1>3, RunsvInvariance, PTL DEF RunsvSpec, FinishOnce
=============================================================================
