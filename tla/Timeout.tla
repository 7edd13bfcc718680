-------------------------------- MODULE Timeout --------------------------------
(***************************************************************************)
(* busybox/coreutils/timeout.c: the process forks a child, which forks a   *)
(* grandchild, the watcher, and exits; then the process becomes PROG.  The *)
(* watcher looks once a second whether the pid still exists and sends the  *)
(* signal to it when the time is over.                                     *)
(*                                                                         *)
(* The pid can outlive its process: once the parent has waited for it, any *)
(* new process may get it.  A child that timeout inherits across exec is   *)
(* there when a shell execs timeout with a job in the background.          *)
(* kill fails, too, for a process of another user, unless root sends it.   *)
(***************************************************************************)
EXTENDS Integers

CONSTANT Durations    \* values of SECS

ASSUME TimeoutAssumption == Durations \subseteq Nat

VARIABLES
  tpc,        \* timeout_main: "fork", "wait" (xvfork, then wait), "prog", "over"
  holder,     \* who has its pid: "timeout", "prog", "zombie", "free", "other"
  cpc,        \* the child: "none", "getppid", "daemonize", "exiting", "exited", "failed", "reaped"
  gpc,        \* the watcher: "none", "sleep", "check", "kill", "done"
  aim,        \* the variable parent: the "pid", or "init" if that was gone
  left,       \* seconds left
  root,       \* timeout is run by root
  foreign,    \* whoever has the pid belongs to a user the watcher may not signal
  inherited,  \* a child from before exec: "none", "running", "exited", "failed"
  hit,        \* history: whom the signal reached, "none" before it is sent, "nobody"
  misled,     \* history: wait took the inherited child for the own one
  unseen,     \* history: the watcher has not looked since the pid was freed
  swapped     \* history: the pid changed hands between two looks

timeoutVars == <<tpc, holder, cpc, gpc, aim, left, root, foreign, inherited, hit, misled, unseen, swapped>>

-----------------------------------------------------------------------------
TimeoutInit ==
  /\ tpc = "fork" /\ holder = "timeout"
  /\ cpc = "none" /\ gpc = "none" /\ aim = "none"
  /\ left \in Durations
  /\ root \in BOOLEAN /\ foreign = FALSE
  /\ inherited \in {"none", "running"}
  /\ hit = "none" /\ misled = FALSE /\ unseen = FALSE /\ swapped = FALSE

\* xvfork: the parent is suspended until its child is gone, unless a signal
\* kills it; then it waits.
Fork ==
  /\ tpc = "fork"
  /\ tpc' = "wait" /\ cpc' = "getppid"
  /\ UNCHANGED <<holder, gpc, aim, left, root, foreign, inherited, hit, misled, unseen, swapped>>

\* xvfork fails and dies.
ForkFails ==
  /\ tpc = "fork"
  /\ tpc' = "over" /\ holder' = "zombie"
  /\ UNCHANGED <<cpc, gpc, aim, left, root, foreign, inherited, hit, misled, unseen, swapped>>

\* getppid is 1 once the parent is gone.
GetParent ==
  /\ cpc = "getppid"
  /\ aim' = IF holder \in {"timeout", "prog"} THEN "pid" ELSE "init"
  /\ cpc' = "daemonize"
  /\ UNCHANGED <<tpc, holder, gpc, left, root, foreign, inherited, hit, misled, unseen, swapped>>

\* bb_daemonize_or_rexec: the child forks the grandchild, which goes on, and
\* exits.
Daemonize ==
  /\ cpc = "daemonize"
  /\ cpc' = "exiting" /\ gpc' = "sleep"
  /\ UNCHANGED <<tpc, holder, aim, left, root, foreign, inherited, hit, misled, unseen, swapped>>

ChildExits ==
  /\ cpc = "exiting"
  /\ cpc' = "exited"
  /\ UNCHANGED <<tpc, holder, gpc, aim, left, root, foreign, inherited, hit, misled, unseen, swapped>>

\* Its fork fails, or the child is killed.
ChildFails ==
  /\ cpc \in {"getppid", "daemonize", "exiting"}
  /\ cpc' = "failed"
  /\ UNCHANGED <<tpc, holder, gpc, aim, left, root, foreign, inherited, hit, misled, unseen, swapped>>

InheritedEnds ==
  /\ inherited = "running"
  /\ inherited' \in {"exited", "failed"}
  /\ UNCHANGED <<tpc, holder, cpc, gpc, aim, left, root, foreign, hit, misled, unseen, swapped>>

Become(status) ==
  IF status = "exited"
  THEN tpc' = "prog" /\ holder' = "prog"
  ELSE tpc' = "over" /\ holder' = "zombie"

\* Mutation: the status of the child is not looked at.
WaitForChildOnly ==
  /\ tpc = "wait"
  /\ cpc \in {"exited", "failed"}
  /\ Become("exited")
  /\ cpc' = "reaped"
  /\ UNCHANGED <<gpc, aim, left, root, foreign, inherited, hit, misled, unseen, swapped>>

\* wait(&status) returns for the child: PROG is executed, or EXIT_FAILURE.
WaitForChild ==
  /\ tpc = "wait"
  /\ cpc \in {"exited", "failed"}
  /\ Become(cpc)
  /\ cpc' = "reaped"
  /\ UNCHANGED <<gpc, aim, left, root, foreign, inherited, hit, misled, unseen, swapped>>

\* It returns for whichever child it finds first.
WaitForInherited ==
  /\ tpc = "wait"
  /\ cpc \in {"exited", "failed"}
  /\ inherited \in {"exited", "failed"}
  /\ Become(inherited)
  /\ inherited' = "none"
  /\ misled' = TRUE
  /\ UNCHANGED <<cpc, gpc, aim, left, root, foreign, hit, unseen, swapped>>

\* timeout is killed, or PROG ends.
ProcessEnds ==
  /\ holder \in {"timeout", "prog"}
  /\ tpc \in {"wait", "prog"}
  /\ tpc' = "over" /\ holder' = "zombie"
  /\ UNCHANGED <<cpc, gpc, aim, left, root, foreign, inherited, hit, misled, unseen, swapped>>

\* PROG becomes another user, as su does.
ProgChangesUser ==
  /\ tpc = "prog"
  /\ ~ root
  /\ foreign' = TRUE
  /\ UNCHANGED <<tpc, holder, cpc, gpc, aim, left, root, inherited, hit, misled, unseen, swapped>>

\* The parent waits for it: the pid is free.
PidFreed ==
  /\ holder \in {"zombie", "other"}
  /\ holder' = "free"
  /\ unseen' = (unseen \/ holder = "zombie")
  /\ foreign' = FALSE
  /\ UNCHANGED <<tpc, cpc, gpc, aim, left, root, inherited, hit, misled, swapped>>

PidReused ==
  /\ holder = "free"
  /\ holder' = "other"
  /\ swapped' = (swapped \/ unseen)
  /\ foreign' \in {FALSE, ~ root}
  /\ UNCHANGED <<tpc, cpc, gpc, aim, left, root, inherited, hit, misled, unseen>>

\* sleep1, then --timeout.
WatcherSleeps ==
  /\ gpc = "sleep"
  /\ left' = left - 1
  /\ gpc' = IF left - 1 <= 0 THEN "kill" ELSE "check"
  /\ UNCHANGED <<tpc, holder, cpc, aim, root, foreign, inherited, hit, misled, unseen, swapped>>

\* Mutation: sleep(HUGE_NUM), the watcher never looks.
WatcherBlind ==
  /\ gpc = "check"
  /\ gpc' = "sleep"
  /\ unseen' = FALSE
  /\ UNCHANGED <<tpc, holder, cpc, aim, left, root, foreign, inherited, hit, misled, swapped>>

\* kill succeeds.
MayKill == IF aim = "init" THEN root ELSE holder # "free" /\ ~ foreign

\* kill(parent, 0): any failure is taken for "process is gone".
WatcherLooks ==
  /\ gpc = "check"
  /\ gpc' = IF MayKill THEN "sleep" ELSE "done"
  /\ unseen' = FALSE
  /\ UNCHANGED <<tpc, holder, cpc, aim, left, root, foreign, inherited, hit, misled, swapped>>

\* kill(parent, signo): it ends timeout if that has not executed PROG yet.
WatcherKills ==
  /\ gpc = "kill"
  /\ gpc' = "done"
  /\ hit' = IF ~ MayKill THEN "nobody" ELSE IF aim = "pid" THEN holder ELSE "init"
  /\ IF hit' = "timeout"
     THEN tpc' = "over" /\ holder' = "zombie"
     ELSE UNCHANGED <<tpc, holder>>
  /\ UNCHANGED <<cpc, aim, left, root, foreign, inherited, misled, unseen, swapped>>

TimeoutDone == gpc \in {"none", "done"} /\ UNCHANGED timeoutVars

WatcherStep == WatcherSleeps \/ WatcherLooks \/ WatcherKills
ParentStep == Fork \/ WaitForChild \/ WaitForInherited
ChildStep == GetParent \/ Daemonize \/ ChildExits

TimeoutNext ==
  \/ ParentStep \/ ForkFails \/ ChildStep \/ ChildFails \/ InheritedEnds
  \/ ProcessEnds \/ ProgChangesUser \/ PidFreed \/ PidReused
  \/ WatcherStep
  \/ TimeoutDone

TimeoutSpec == TimeoutInit /\ [][TimeoutNext]_timeoutVars

\* The three processes run; nothing makes PROG end.
TimeoutFairness ==
  WF_timeoutVars(ParentStep) /\ WF_timeoutVars(ChildStep) /\ WF_timeoutVars(WatcherStep)

FairTimeoutSpec == TimeoutSpec /\ TimeoutFairness

-----------------------------------------------------------------------------
Holders == {"timeout", "prog", "zombie", "free", "other"}

\* Every variable of timeout keeps its type.
TimeoutTypeOK ==
  /\ tpc \in {"fork", "wait", "prog", "over"}
  /\ holder \in Holders
  /\ cpc \in {"none", "getppid", "daemonize", "exiting", "exited", "failed", "reaped"}
  /\ gpc \in {"none", "sleep", "check", "kill", "done"}
  /\ aim \in {"none", "pid", "init"}
  /\ left \in Int
  /\ inherited \in {"none", "running", "exited", "failed"}
  /\ root \in BOOLEAN /\ foreign \in BOOLEAN
  /\ hit \in Holders \cup {"none", "nobody", "init"}
  /\ misled \in BOOLEAN /\ unseen \in BOOLEAN /\ swapped \in BOOLEAN

\* timeout_main, "kill(parent) may kill wrong process!": the signal reaches
\* another process only if that got the pid before the watcher looked once
\* after it was freed, and init only if timeout is run by root and was killed
\* before its child asked for its pid.  PROG runs with a watcher that aims at
\* it, unless wait took an inherited child for the own one, which had failed.
WatcherAim ==
  /\ hit = "other" => swapped
  /\ tpc = "prog" => (gpc # "none" /\ aim = "pid") \/ (misled /\ cpc = "failed")
  /\ hit = "init" => tpc = "over" /\ root

\* A PROG that is not gone in SECS seconds is sent the signal, unless it has
\* changed its user: then the watcher takes it for gone.
OverrunSignalled ==
  (tpc = "prog" /\ cpc # "failed") ~> (hit = "prog" \/ tpc = "over" \/ foreign)
=============================================================================
