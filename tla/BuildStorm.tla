------------------------------ MODULE BuildStorm ------------------------------
(***************************************************************************)
(* scripts/buildstorm_testcode.sh, run as the whole workload of a kernel   *)
(* under test that may crash at any step and be booted again on the same   *)
(* disk, and the score the judge gives to the serial logs of all boots.    *)
(*                                                                         *)
(* External commands (rustc, cargo, timeout, nproc, awk) are choices of    *)
(* their outcome.  The clock is /proc/uptime, in its hundredths of a       *)
(* second; it starts again at every boot.  The disk keeps /work/.build.rc and the artefacts  *)
(* under target.                                                           *)
(***************************************************************************)
EXTENDS BuildStormJudge

CONSTANTS
  Boots,            \* bound: the number of boots
  Ticks,            \* the times the build may take
  PrebuildTicks,    \* the times the pre-build may take
  OtherArtefacts    \* sizes of a file of the artefact's name elsewhere in target

\* Sizes around the 500000 bytes the script asks for.
Sizes == {"none", "small", "big"}
\* What a status file holds: 0, anything else (another status, or nothing after
\* a write that failed), or no such file.
Statuses == {"zero", "other"}
Unreadable == -1

ASSUME BootsAssumption == Boots \in Nat \ {0}
ASSUME TicksAssumption == Ticks \subseteq Nat /\ PrebuildTicks \subseteq Nat
ASSUME ArtefactsAssumption == OtherArtefacts \subseteq {"none", "small", "big"}

VARIABLES
  boot, pc, log,
  rcfile,           \* /work/.build.rc
  ours, other,      \* artefacts in target/$AXTGT and elsewhere in target
  clock,            \* /proc/uptime
  status,           \* $? of the build
  T0, RC, ELAPSED,  \* the script's variables
  took,             \* history: the time the build of this boot took
  measured,         \* history: whether ELAPSED is the difference of two readings
  passed,           \* history: boots whose build exited with 0
  unwritten,        \* history: boots whose echo $? did not reach the file
  kept              \* history: boots that ended with the file still there

disk == <<rcfile, ours, other>>
history == <<took, measured, passed, unwritten, kept>>
vars == <<boot, pc, log, disk, clock, status, T0, RC, ELAPSED, history>>

Line(tag, ok, elapsed, arch) ==
  [boot |-> boot, tag |-> tag, ok |-> ok, elapsed |-> elapsed, arch |-> arch]

Echo(line) == log' = Append(log, line)

\* cut -d' ' -f1 /proc/uptime 2>/dev/null
UptimeReading == {clock, Unreadable}

\* awk's T + 0: an empty string counts as 0.
AsNumber(t) == IF t = Unreadable THEN 0 ELSE t

-----------------------------------------------------------------------------
Init ==
  /\ boot = 1 /\ pc = "toolchain" /\ log = << >>
  /\ rcfile = "absent" /\ ours = "none" /\ other \in OtherArtefacts
  /\ clock = 1
  /\ status = "none" /\ T0 = Unreadable /\ RC = "none" /\ ELAPSED = 0
  /\ took = 0 /\ measured = FALSE
  /\ passed = {} /\ unwritten = {} /\ kept = {}

Toolchain ==
  /\ pc = "toolchain"
  /\ \E ok \in BOOLEAN : Echo(Line("toolchain", ok, 0, FALSE))
  /\ pc' = "minibuild"
  /\ UNCHANGED <<boot, disk, clock, status, T0, RC, ELAPSED, history>>

Minibuild ==
  /\ pc = "minibuild"
  /\ \E ok \in BOOLEAN : Echo(Line("minibuild", ok, 0, FALSE))
  /\ pc' = "cd"
  /\ UNCHANGED <<boot, disk, clock, status, T0, RC, ELAPSED, history>>

\* Mutation: the block after || lacks its exit.
NoSourcesGoesOn ==
  /\ pc = "cd"
  /\ \E nproc \in BOOLEAN : Echo(Line("compile", FALSE, 0, nproc))
  /\ pc' = "prebuild"
  /\ UNCHANGED <<boot, disk, clock, status, T0, RC, ELAPSED, history>>

\* cd /work/tgoskits fails: the script reports and exits.
NoSources ==
  /\ pc = "cd"
  /\ \E nproc \in BOOLEAN : Echo(Line("compile", FALSE, 0, nproc))
  /\ pc' = "done"
  /\ UNCHANGED <<boot, disk, clock, status, T0, RC, ELAPSED, history>>

\* rm -rf target/$AXTGT
Clean ==
  /\ pc = "cd"
  /\ ours' = "none"
  /\ pc' = "prebuild"
  /\ UNCHANGED <<boot, log, rcfile, other, clock, status, T0, RC, ELAPSED, history>>

\* Mutation: T0 taken before the pre-build.
PrebuildTimed ==
  /\ pc = "prebuild"
  /\ T0' \in UptimeReading
  /\ \E d \in PrebuildTicks : clock' = clock + d
  /\ pc' = "build"
  /\ UNCHANGED <<boot, log, disk, status, RC, ELAPSED, history>>

\* The pre-build, whose failure is ignored, then T0.
Prebuild ==
  /\ pc = "prebuild"
  /\ \E d \in PrebuildTicks :
       /\ clock' = clock + d
       /\ T0' \in {clock + d, Unreadable}
  /\ pc' = "build"
  /\ UNCHANGED <<boot, log, disk, status, RC, ELAPSED, history>>

\* timeout 14400 cargo xtask arceos build: a build that succeeds leaves an
\* artefact, one that fails or is stopped may have left one.
Build ==
  /\ pc = "build"
  /\ \E d \in Ticks : clock' = clock + d /\ took' = d
  /\ status' \in Statuses
  /\ ours' \in IF status' = "zero" THEN Sizes \ {"none"} ELSE Sizes
  /\ passed' = IF status' = "zero" THEN passed \cup {boot} ELSE passed
  /\ pc' = "write"
  /\ UNCHANGED <<boot, log, rcfile, other, T0, RC, ELAPSED, measured, unwritten, kept>>

\* echo $? > /work/.build.rc: the open may fail, or the write after it.
WriteRc ==
  /\ pc = "write"
  /\ rcfile' \in {status, rcfile, "other"}
  /\ unwritten' = IF rcfile' = status THEN unwritten ELSE unwritten \cup {boot}
  /\ status' = "none"
  /\ pc' = "read"
  /\ UNCHANGED <<boot, log, ours, other, clock, T0, RC, ELAPSED, took, measured, passed, kept>>

\* Mutation: no || echo 1, a missing file leaves no status.
ReadRcPlain ==
  /\ pc = "read"
  /\ RC' = rcfile
  /\ pc' = "remove"
  /\ UNCHANGED <<boot, log, disk, clock, status, T0, ELAPSED, history>>

\* Mutation: cat's failure counts as a build that succeeded.
ReadRcOptimist ==
  /\ pc = "read"
  /\ RC' = IF rcfile = "absent" THEN "zero" ELSE rcfile
  /\ pc' = "remove"
  /\ UNCHANGED <<boot, log, disk, clock, status, T0, ELAPSED, history>>

\* RC=$(cat /work/.build.rc 2>/dev/null || echo 1)
ReadRc ==
  /\ pc = "read"
  /\ RC' = IF rcfile = "absent" THEN "other" ELSE rcfile
  /\ pc' = "remove"
  /\ UNCHANGED <<boot, log, disk, clock, status, T0, ELAPSED, history>>

\* rm -f /work/.build.rc, whose failure is ignored; T1; ELAPSED.
RemoveRc ==
  /\ pc = "remove"
  /\ rcfile' \in {rcfile, "absent"}
  /\ \E T1 \in UptimeReading, awk \in BOOLEAN :
       /\ ELAPSED' = IF awk THEN AsNumber(T1) - AsNumber(T0) ELSE 0
       /\ measured' = (awk /\ T0 # Unreadable /\ T1 # Unreadable)
  /\ pc' = "report"
  /\ UNCHANGED <<boot, log, ours, other, clock, status, T0, RC, took, passed, unwritten, kept>>

\* find target | head -1, in the order of the directory.
ART == {a \in {ours, other} : a # "none"}

\* The [ "$RC" -eq 0 ] && [ -n "$ART" ] && [ "$BYTES" -ge 500000 ] of one artefact found.
Accepted(found) == RC = "zero" /\ found = "big"

\* The report; an empty cores= hides the arch from the judge's expression.
Report ==
  /\ pc = "report"
  /\ \E found \in (IF ART = {} THEN {"none"} ELSE ART), nproc \in BOOLEAN :
       Echo(Line("compile", Accepted(found), ELAPSED, nproc))
  /\ pc' = "done"
  /\ UNCHANGED <<boot, disk, clock, status, T0, RC, ELAPSED, history>>

\* The kernel crashes before the script ends, or is shut down after it, and is
\* booted again: only the disk and the logs stay.
Reboot ==
  /\ boot < Boots
  /\ boot' = boot + 1
  /\ pc' = "toolchain"
  /\ kept' = IF rcfile = "absent" THEN kept ELSE kept \cup {boot}
  /\ clock' = 1
  /\ status' = "none" /\ T0' = Unreadable /\ RC' = "none" /\ ELAPSED' = 0
  /\ took' = 0 /\ measured' = FALSE
  /\ UNCHANGED <<disk, passed, unwritten>>

\* The crash may cut the report in two, before ok=true is complete or after.
TornReport ==
  /\ pc = "report"
  /\ Reboot
  /\ \E found \in ART, whole \in BOOLEAN :
       Echo(Line("compile", whole /\ Accepted(found), 0, FALSE))

Next ==
  \/ Toolchain \/ Minibuild \/ NoSources \/ Clean \/ Prebuild \/ Build
  \/ WriteRc \/ ReadRc \/ RemoveRc \/ Report
  \/ (Reboot /\ UNCHANGED log) \/ TornReport

Spec == Init /\ [][Next]_vars

-----------------------------------------------------------------------------
Lines ==
  [boot : 1 .. Boots, tag : Tags, ok : BOOLEAN, elapsed : Int, arch : BOOLEAN]

\* Types: RC is a status whatever the file held, lines have what the judge parses.
TypeOK ==
  /\ boot \in 1 .. Boots
  /\ pc \in {"toolchain", "minibuild", "cd", "prebuild", "build", "write", "read",
            "remove", "report", "done"}
  /\ rcfile \in Statuses \cup {"absent"} /\ {RC, status} \subseteq Statuses \cup {"none"}
  /\ pc = "write" => status # "none"
  /\ {ours, other} \subseteq Sizes
  /\ clock \in Nat /\ took \in Nat /\ T0 \in Nat \cup {Unreadable}
  /\ ELAPSED \in Int /\ measured \in BOOLEAN
  /\ passed \cup unwritten \cup kept \subseteq 1 .. boot
  /\ log \in Seq(Lines)

Rank(tag) == CASE tag = "toolchain" -> 1 [] tag = "minibuild" -> 2 [] tag = "compile" -> 3

\* The lines of a boot come in the script's order, none twice, and the boots'
\* lines are not mixed: the last BUILDSTORM_COMPILE line is the latest verdict
\* (the judge has nothing else to tell runs apart).
LogOrdered ==
  \A m, n \in 1 .. Len(log) : m < n =>
    \/ log[m].boot < log[n].boot
    \/ log[m].boot = log[n].boot /\ Rank(log[m].tag) < Rank(log[n].tag)

\* ok=true is said of a boot whose build exited with 0.  The one exception needs
\* two failures of the kernel: an earlier boot whose build had passed left its
\* /work/.build.rc behind, and this boot could not write its own.
OkIsEarned ==
  \A n \in CompileLines(log) : log[n].ok =>
    \/ log[n].boot \in passed
    \/ /\ log[n].boot \in unwritten
       /\ \E b \in kept \cap passed : b < log[n].boot

\* When a script has run to its end the judge grades that run, whatever earlier
\* boots printed (parse_compile against the appended logs).
LatestRunGraded ==
  pc = "done" => parse_compile(log) > 0 /\ log[parse_compile(log)].boot = boot

\* A build that is accepted and was timed gets the points of the time it really
\* took, without the pre-build: all of them up to B, none from 2B, and between the
\* two the tenth of a point that is nearest to TIME_PTS * (2B - took) / B.
MeasuredTimeCounts ==
  pc = "done" /\ measured /\ CompileOk(log) /\ log[parse_compile(log)].arch =>
    /\ took <= Baseline => TimePoints(log) = TIME_PTS
    /\ took >= 2 * Baseline => TimePoints(log) = 0
    /\ took > Baseline /\ took < 2 * Baseline =>
         2 * (Baseline * TimePoints(log) - TIME_PTS * (2 * Baseline - took))
           \in -Baseline .. Baseline

\* The judge searches for an ok of an item in all of the log: what a boot has
\* earned stands, whatever later boots print or lose in a crash, until there is
\* a newer compile line to grade.
PointsStand ==
  [][ Total(log') < Total(log) => CompileLines(log') # CompileLines(log) ]_vars

\* README.md and the judge: the time that is graded was read from /proc/uptime.
TimeIsMeasured == pc = "done" /\ TimePoints(log) > 0 => measured
=============================================================================
