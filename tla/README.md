# Verification of the OS competition test suite

The repository is the test suite of an operating-system competition: programs and
scripts that run on a kernel under test, the judges that score their output, and
the BusyBox whose applets the tests run. This directory holds TLA+ models of its
own programs and of the BusyBox applets that have a protocol to get wrong, the TLC
runs that check them on small instances, and theorems about them that TLAPS proves
for every value of their constants. Paths below are relative to `src/`.

    tlc -workers 2 -config MCCAgentTest.cfg MCCAgentTest     # check a run
    tlapm CAgentTestProofs.tla                               # check the proofs

## 1. The system

### Components

| Component | Source | State | Operations | Modelled in |
|---|---|---|---|---|
| agent loop | `cagent-test/agent_lite.c` | the conversation, a step counter, the tool calls of the last message | build and post a request, take the reply apart, execute tools, exit | `AgentLite` |
| HTTP over loopback | `http_post`, `handle_client` | a connection per agent, the listen backlog | connect, send, recv, accept, read, write, close | `Loopback` (external), `CAgentTest` |
| LLM server, process | `cagent-test/simple_llm_server.c` | `keep_running`, the client being served | boot, accept loop, serve, SIGTERM, SIGPIPE | `SimpleLLMServer` |
| LLM server, inference | same, lines 62-299 | feature buckets, running maximum | hash, score, decide | `Inference`, `ServerWords` |
| cagent script | `scripts/cagent_testcode.sh` | jobs, verdicts, test files | start server and jobs, validate, wait, clean up, kill | `CAgentTest` |
| contract of a test group | the same script, as a judge sees it | lines printed | report a test, end | `TestGroup` (abstract) |
| BuildStorm script | `scripts/buildstorm_testcode.sh` | `/work/.build.rc`, artefacts, shell variables | nine steps from toolchain to report | `BuildStorm` |
| BuildStorm judge | `judge/judge_buildstorm-glibc.py` | none, a function of the log | score | `BuildStormJudge` |
| cagent judge | `judge/judge_cagent-glibc.py` | none, a function of the log | score | `CAgentRuns` |
| `runsv` | `busybox/runit/runsv.c` | two services, `supervise/status`, two control fifos, the pipe between service and logger | start, reap, `./finish`, control letters, signals, exit | `Runsv` |
| `tftp`, `tftpd` | `busybox/networking/tftp.c` | block number, retries and file at each end | request, OACK, DATA, ACK, ERROR, retry | `Tftp`, `FileTransfer` (abstract) |
| `syslogd`, `logread` | `busybox/sysklogd/` | the shared memory ring, two semaphores, the reader's `cur` | store a message, copy, print, follow | `SyslogRing` |
| `timeout` | `busybox/coreutils/timeout.c` | a pid and three processes | fork, wait, exec, watch, signal | `Timeout` |
| `udhcpd`, `udhcpc` | `busybox/networking/udhcp/` | lease table and file; a client's state, address and timeout | offer, acknowledge, refuse, renew, release, decline | `Dhcp` |
| image build | `Makefile`, `Makefile.sub` | files | sequential recipes | no |
| cJSON, iproute2 parser | `cagent-test/third_party`, `third_party` | | vendored or generated | no |
| the rest of BusyBox 1.33.1 | `busybox/` | | vendored; several hundred applets | no |

### How they interact

The script starts the server in the background, sleeps one second and starts ten
jobs. A job is `timeout` around an agent, then a validation of the exit code and
of the output or of a file. Each agent opens one connection per request; the
server serves one connection at a time and answers a first request with at most
one bash call, which the agent runs through `popen`. The output goes back as a
tool message, after which the server closes the conversation with a text. The
script waits for the jobs only, removes the test files and sends one SIGTERM to
the server. The BuildStorm script runs alone; it speaks to its judge through the
serial log, and to a later boot of itself through the disk. The log of the cagent
group, too, may hold several runs.

The BusyBox programs do not interact with one another. `runsv` speaks to its two
children by fork, wait and signals, to `sv` by letters in a fifo and by the status
file it leaves, and the service speaks to its logger through a pipe of which `runsv`
holds both ends. `tftp` and `tftpd` exchange datagrams. `syslogd` and any number of
`logread`s share a ring in memory and two System V semaphores. `timeout` leaves a
grandchild that knows nothing but the pid of the program it watches. `udhcpd` and
its clients exchange datagrams, and the server speaks to its next incarnation
through the lease file.

### What is hard about it

* **Interleavings.** Ten agents, a server that is one process, shells that are
  nobody's children once their agent is killed, and the script.
* **Timeouts.** `timeout` ends an agent at any instruction: with a request in
  flight, a command half done, or everything done but the exit.
* **The network.** One `read()` per request, two `write()`s per response, resets
  when unread data is closed, SIGPIPE when the peer has gone.
* **Signals.** A flag that is tested and a call that blocks are two steps.
* **Files left behind.** Test files after a timeout or from an earlier run,
  `/work/.build.rc` after a crash, artefacts in other directories of `target`.
* **Logs as an interface.** Judges take the last line, or any line, of logs that
  may hold several boots, torn lines and fields of failed commands.
* **Hash collisions.** Thirty keywords in 32 buckets.
* **Supervision.** A letter may come while `./finish` runs, while a killed child is
  not reaped, or after the order to exit; one flag stands for two status files.
* **Datagrams.** Lost, late, repeated and overtaken packets, and both ends that send
  again and give up on their own.
* **Shared memory with little locking.** The reader keeps a position over its sleep
  and reads a variable before it takes the lock; a killed writer keeps the lock.
* **Names that change owner.** A pid or an IP address that is used after whoever had
  it has gone.

### What makes each part correct

* Agent: tool calls are answered once, in order and under their ids; nothing is
  sent or reported as success with a call left open; the loop ends.
* Server: it holds one client and closes every connection it took; a client in
  the backlog is served or reset; it stays up while tests run and ends at the end.
* Script: one verdict per test, then END; a pass was earned, a reject has a cause
  in the same test; nothing is left in the workspace.
* Inference: the decision is the first best template; a template answers its own
  words; every prompt of the script gets its command.
* BuildStorm: `ok=true` means this boot's build passed; the grade is that of the
  latest complete run; the time graded is the time the build took.

* cagent judge: a run that came to its end is graded by its own records.
* `runsv`: a service never has two processes; `./finish` runs once after each
  `./run`; the status file is true while `runsv` sleeps; nothing is left behind.
* `tftp`: the file received is what was read of the file sent, or it is removed; both
  ends end.
* `syslogd`: a reader prints whole messages in order, begins where it should and misses
  none that it need not miss; a waiting `syslogd` gets its turn, unless one was killed
  inside the ring or the turns of readers overlap without end.
* `timeout`: the signal reaches the program and no other process.
* `udhcp`: an address has one holder, and a lease lives as long as its holder.

The list of hazards, each at its line and with the properties that watch it, is
in `PROJECT.json`.

## 2. Modules

**`AgentLite`** is `agent_run`. `pc` is the place in the function (`loop` the
head of `while`, `post` inside `http_post`, `tools` the `for` over `tool_calls`,
`exited`), the other variables have the names of the code. The paths after
`http_post` are actions of their own: `GiveUp` (return -1: NULL, no JSON, no
choice), `EmptyAnswer` (a choice without a message, which breaks with success),
`FinalAnswer` and `CallTools`. `SkipCall` is the two `continue`s, `ExecuteTool` the
rest of the loop body, `Killed` a signal. Texts are kept as far as the server and
the script distinguish them. On its own the module has `http_post` return any
member of `Replies`.

**`Loopback`** is the contract of TCP over 127.0.0.1 (external). How much of a
request has arrived is one of five values, the ones `handle_client` tells apart;
`Cuts` says where a request may be cut. A response is two writes.

**`SimpleLLMServer`** is `main` and `handle_client` over `Loopback`. `srv` is the
place in the code; the test of `keep_running`, `accept()` finding nothing
(`Block`) and `accept()` returning are separate steps. `Signal` is the handler
together with EINTR, `SigPipe` the default action.

**`CAgentTest`** composes them: http_post becomes `Connect`, `ConnectRefused`,
`Send` and `Receive`, `tool_bash` becomes `StartShell`, `ShellWrites`,
`ShellEnds`, `ShellFails` and `FinishTool`, and the script is `Timeout`,
`Validate`, `Wait`, `Cleanup`, `KillServer`. `mishap`, `ran` and `leftover` are
history variables, used by properties only. `KillsGroup` says whether `timeout`
signals a process group (coreutils) or one process (BusyBox).

**`TestGroup`** is the abstract specification; `CAgentTest!GroupPromise` is the
statement that `CAgentTest` implements it, with `line <- result` and
`ended <- script = "end"`.

**`Inference`** is `generate_tool_calls`, with the loop over templates as steps.
Floats are integers (weights times ten) and the division by the norm is
multiplied out. Keywords, hash and templates are parameters. **`ServerWords`** gives
them: the tables of the code, its hash (taken modulo 32, which divides 2^32), the
phrases that bypass the classifier, `strcasestr`. It is the one module where words are
words, for the properties of `MCInference` are about hash collisions.

**`BuildStormJudge`** holds the judge as operators on logs; points are tenths of
the code's, which is what it rounds them to. **`BuildStorm`** is the
script, one action per command or line. External commands are choices of their
outcome. `Reboot` is a crash at any step or a shutdown after the end, and a boot
on the same disk; `TornReport` a crash in the middle of the last line. History
variables record which builds passed, which statuses were not written, which
boots left the file behind and how long the build really took.

**`CAgentRuns`** is the judge of the cagent group and the log it reads: the records
of several runs on a kernel that may crash, in the order the jobs end. The verdict
of a test is a choice here. A duration is the difference of two readings of the wall
clock; what is printed may be another number than the time that passed, or a negative
one, which the judge's expression does not match. A crash may cut off digits.
**`MCJudges`** puts the two logs side by side: a behaviour is one of either kind.

**`FileTransfer`** is what a transfer promises without packets, **`Tftp`** is
`tftp_protocol` at both ends. `end` holds the local variables of each end, `net` every
packet that was ever sent: it may be delivered never, late, again, in any order. One
action per kind of packet received, `Timeout` the retry, `PollFails` and `Refused` a
`poll` or a read that fails. Every step that sends may end in `Dies`, which is `xsendto`:
the end is gone on the spot, with whatever file it has open. A read of the file that
fails takes one of two ways: `send_read_err_pkt` when no byte of the block was read, and
otherwise a short block, since `full_read` returns what it has; `SendData` offers both, and
`cut` remembers the second. Packets carry whether they are `short`, which is all a
receiver knows about the end of the file. `TransfersFile` is the refinement.

**`Runsv`** is the loop of `runsv_main` with the functions it calls: `svd` is the array
of the code, `rpc` the place in the loop. A turn starts what is wanted, sleeps in
poll, reaps, reads one letter of each fifo, checks the flag, and may exit. The
children are processes that end, stop and take signals when they like; `proc` is
what the kernel knows of them. Each control letter is an operator of its own.

**`SyslogRing`** has the bytes of the ring. A byte is a pair, the message it belongs to
and its place there (0 for the NUL); the programs tell a NUL from another byte and no
more, the rest is history, by which properties say which message a string is.
`log_to_shmem` stores a message in one or two pieces, `logread` copies what is new under
the lock and prints afterwards; `StartReader` reads `cur` before the lock, as the code
does. `seen` is history, by which the property says where a reader has to begin. Either process may be killed: the reader's semaphore operation is undone by the
kernel, the writer's is not. A `syslogd` that starts clears the ring without the lock.

**`Timeout`** follows one pid through its holders: `timeout`, PROG, a zombie, nobody,
another process. The child and the grandchild are the other two processes. `xvfork`
suspends the parent, so `wait` returns only when the child is gone (unless a signal kills
the parent first). A `kill` fails when the pid is free or when whoever has it belongs to
another user and `timeout` is not run by root (`foreign`, `MayKill`); the watcher takes
both for the end of PROG.

**`Dhcp`** is one `udhcpd` and several clients on a segment. Times are ticks that
are left. `leases` is `g_leases`, `file` the lease file; the server may be killed
between the ACK and the write or inside the write, and a write may fail (`WriteFails`): the
open, which leaves the old file, or any part behind `O_TRUNC`, which leaves some of the
leases. `unsaved` is who is missing in the file for that reason. A client halves its timeout at
each renewal that is not answered. `find_free_or_expired_nip` waits for an answer to
an ARP request at every address that is not leased, so its loop is taken in steps
(`Search`, `Probe`, `ProbeOldest`), between which time passes and clients act, while
packets for the server wait in its socket.

**`MCApplets`** puts `Runsv`, `Tftp`, `SyslogRing` and `Timeout` side by side: they
share nothing, so a behaviour runs one of them (`program`) and leaves the others in
one of their initial states. **`MCDhcp`** is the instance of `Dhcp`.

The proofs are in modules of their own: `AgentLiteProofs`, `CAgentTestProofs` (agent,
server and script together), `InferenceProofs`, `JudgesProofs` (both scripts' logs and
judges), `RunsvProofs`, `SyslogProofs`, `DhcpProofs`, and `AppletsProofs` (`Tftp`,
`Timeout`, and the programs of `MCApplets` side by side).

Operators marked `Mutation` in the modules are plausible mistakes (a dropped
guard, `<=` for `<`, a first line for a last one). Each property is known to fail
when its mutation replaces the definition below it.

## 3. Runs

| Run | Configuration | Result |
|---|---|---|
| `agent` | `MCAgentLite.cfg` | type invariant, answers in order, nothing left open, step count, termination |
| `group` | `MCCAgentTest.cfg` | type invariant, one client at a time, a command at most once, passes earned, rejects with a cause, a clean workspace |
| `group_live` | `MCCAgentLive.cfg` | the script implements `TestGroup`, queued clients are served, clean workspace when `timeout` kills the group |
| `inference` | `MCInference.cfg` | first best template, own vocabulary, every prompt gets a command |
| `judges` | `MCJudges.cfg` | BuildStorm: type invariant, order of the log, `ok=true` earned, latest run graded, measured time counts, points stand; cagent: a run that ended is graded by its own records |
| `applets` | `MCApplets.cfg` | type invariants; `runsv`: one child, fresh status files, nothing left on exit, `./finish` once, an order to exit is carried out; `tftp`: the file is faithful, the two ends implement `FileTransfer`, the transfer ends; `syslogd`: what `logread` prints, and that `syslogd` always gets into the ring again; `timeout`: whom the signal reaches, and that it is sent |
| `dhcp` | `MCDhcp.cfg` | type invariant, no address with two holders, leases are kept while they are held |
| `long_running` | `VServerLongRunning.cfg` | violated: an agent is killed, its response raises SIGPIPE, the server is gone |
| `server_stops` | `VServerStops.cfg` | violated: SIGTERM between the test of the flag and `accept()` |
| `prompts_served` | `VPromptsServed.cfg` | violated: the disk usage prompt is answered with `uname -r` |
| `time_measured` | `VTimeIsMeasured.cfg` | violated: an unreadable clock earns the time points |
| `finish_status` | `VFinishStatus.cfg` | violated: `./finish` is given the exit status of the logger |

The five violated properties state what a comment, a printed message or a document
of the repository says; `PROJECT.json` quotes the lines.

Several properties name the cases in which the code does not keep the plain promise,
and hold in all others. They are worth knowing:

* `runsv`: the letter `k` marks a service as down even when `./finish` runs or a
  control script kept the letter; a second process may then be started (`forced`).
  A service killed by `k` is shown as running until it is reaped.
* `tftp`: an error in the middle of a block ends the transfer with success at both ends
  and a short file at the receiver (`cut`). A receiver whose last ACK cannot be sent dies
  with the whole file and an error; one that dies earlier leaves a partial file.
* `logread -f` may begin with the end of a message, when it read `cur` while a message was
  wrapping, or behind that message when only its NUL was missing. A dump, and the start of
  `-F`, show nothing (`blank`) when `syslogd` stored something between the read of `cur` and
  the lock, or when the last message fills the ring. A `syslogd` that is killed inside
  the ring stops everybody, and so do several `-f` readers whose turns overlap
  without end: SMwdn waits for a moment without readers, SMrdn for no waiting writer.
* `timeout`: its one `wait()` may return for a child inherited across exec. The own child
  is gone by then, so this does harm only when that one failed before it had
  started the watcher (`misled`): PROG runs without one. A wrong process is signalled if
  the pid changed hands between two looks, a second apart; a PROG that changed its user
  is not signalled at all, unless root runs `timeout`; and init is, by root, when `timeout`
  was killed before its child asked for its pid.
* `udhcp`: a lease that was given before a crash and not yet written is lost, and a
  DISCOVER of a client that was overtaken cuts its lease short (`orphaned`). A lease that a
  failed write left out of the file is kept until the server ends (`unsaved`): the code says
  "we lose some leases on restart. Oh well."; if it ends before a write succeeds, the
  client is orphaned.

### Bounds, and why they are enough

* `agent`: one agent, whose code shares nothing with another's, up to two calls
  per message over all kinds of calls and replies, two requests: both branches of
  every decision, a turn after a turn, and the end of the steps are reached.
* `group`: two tests, one that leaves a file and one that is validated by its
  output; a third would only repeat the part of the second. The server holds one
  client and the backlog one, so that the two meet in it and one has to wait.
  `MAX_STEPS` is 3, one more than a conversation needs; the code has 50.
  Requests may be cut at each of the three places; `timeout` fires anywhere.
* `group_live`: no cuts and `MAX_STEPS` 2, since cuts only end conversations early.
* `inference`: every set of at most three keywords (with those inside them). A
  bucket holds at most three of the thirty, so every collision occurs. The
  threshold of 0.3 never turns away a text with a match here: the smallest score
  of a match is larger. It does decide texts without any match.
* `judges`: two boots, enough for one to inherit from another; a build of exactly B,
  of 2B, and of a time between whose points have to be rounded; a second artefact of the same name or none. For the
  cagent group two runs of two tests, durations of 0, below half of the limit and
  exactly half, of which the last one loses a digit in a crash and then looks short.
* `applets`: `runsv` with three processes; no behaviour of these has a fourth. Two letters
  or signals, so that the second meets whatever the first began; control scripts for
  two of them. `tftp` with three blocks (first, middle, last), block numbers modulo 4
  (more than the blocks: see section 5) and three retries; every read, write, send and
  poll may fail. A ring of six bytes and
  messages of two and three: it wraps, fills up and is lapped within four messages.
  There are two readers: alone, one meets four messages (`MaxKilled`, three, with a kill
  of `syslogd`); with the other one following, too, `syslogd` logs one message
  (`MaxShared`): whether it finds a moment without a reader between their turns is the
  question for which there are two. `timeout` of
  0, 1 and 3 seconds: at once, one look, several looks; run by root or not.
* `dhcp`: two clients, the same but for their address (hence the symmetry), a lease of
  four ticks that is halved to two and one, a delay of one tick. One address with two
  packets underway makes them compete, two addresses with one packet make the server
  choose, and one address with one packet and two faults has the signals and crashes, and a
  write that fails with a crash behind it.
  The theorems of section 4 are about any number of each, together.

### Fairness

`agent`: the agent's steps are weakly fair, which assumes that `http_post`
returns. `CAgentTest` does not assume it: there, fairness is that of the system,
each process is scheduled (agents, shells, server, script), the network delivers
what was sent, and each timer runs out (`timeout` is around every agent, so weak
fairness of `Timeout` is the code's own). A client that stalls the server is ended
by its timeout and read as end of file, which is why `QueuedIsServed` holds
without any timeout in the server. `server_stops` is violated under this same
fairness. `BuildStorm` has no liveness: only the timed build has a time limit.

`ExitHonoured` assumes that `runsv` runs when it can (`RunsvStep`, without the hour
poll may sleep) and that a child that was sent TERM and is not stopped ends; a service
that nobody told to end may go on for ever. `TransferIsOver` needs only that poll
times out: nothing is assumed of the network. In `SyslogRing` the processes run
(`WriterStep`, `ReaderStep`); the writer's `semop` is strongly fair, because the kernel
tries the waiting operations again at every change of a semaphore, and a reader that
looks again and again would otherwise keep it out. It does not help when `sem.readers` is
never 0, which is why `LoggingGoesOn` excuses readers of which always one is in the ring
although each leaves it again and again. In `Timeout` the three processes
run; PROG need not end. `Dhcp` has no liveness property: whether a client is ever bound
depends on a network that may lose every packet.

## 4. Proofs

| Theorem | Statement | Module |
|---|---|---|
| `AgentTyping` | `AgentSpec => []TypeOK` | `AgentLiteProofs` |
| `AgentNothingLeftOpen` | `AgentSpec => []NothingLeftOpen` | |
| `AgentStepsCountTurns` | `AgentSpec => []StepsCountTurns` | |
| `AgentAnswersInOrder` | `AgentSpec => []AnsweredInOrder` | |
| `ClassifierIsSound` | `Spec => []DecisionIsFirstBest` | `InferenceProofs` |
| `ScriptImplementsGroup` | every step of `CAgentTest` is one of `TestGroup` or a stutter | `CAgentTestProofs` |
| `ServerServesOne` | `Spec => []OneClientAtATime` | |
| `GroupRunsAgents` | `Spec => AgentSpec`: the agents of the group are those of `AgentLite` | |
| `GroupConversations` | `Spec => [](NothingLeftOpen /\ AnsweredInOrder /\ StepsCountTurns)` | |
| `CommandRunsOnce` | `Spec => []CommandAtMostOnce` | |
| `ScriptCleansUp` | `Spec => []CleanUnlessOrphaned` | |
| `PassesAreEarned` | `Spec => []PassIsEarned` | |
| `RejectsHaveCause` | `Spec => []RejectHasCause` | |
| `TestTyping` | `Spec => []TestTypeOK` | |
| `BuildStormTyping` | `Spec => []TypeOK` | `JudgesProofs` |
| `BuildStormLogOrdered` | `Spec => []LogOrdered` | |
| `BuildStormOkIsEarned` | `Spec => []OkIsEarned` | |
| `BuildStormLatestRunGraded` | `Spec => []LatestRunGraded` | |
| `BuildStormPointsStand` | `Spec => PointsStand` | |
| `BuildStormMeasuredTime` | `Spec => []MeasuredTimeCounts` | |
| `GradesAreOfTheLastRun` | `RunsSpec => []GroupIsGraded` | |
| `TypesOfTransfer` | `TftpSpec => []TftpTypeOK` | `AppletsProofs` |
| `FileIsFaithful` | `TftpSpec => []FileFaithful` | |
| `Implements` | `TftpSpec => TransfersFile` | |
| `TypesOfTimeout` | `TimeoutSpec => []TimeoutTypeOK` | |
| `WatcherAims` | `TimeoutSpec => []WatcherAim` | |
| `TypesOfApplets` | `AppletsSpec => []AppletsTypeOK` | |
| `TypesOfSyslog` | `SyslogSpec => []SyslogTypeOK` | `SyslogProofs` |
| `LogReadIsFaithful` | `SyslogSpec => []LogReadFaithful` | |
| `TypesOfRunsv` | `RunsvSpec => []RunsvTypeOK` | `RunsvProofs` |
| `NoSecondChild` | `RunsvSpec => []OneChild` | |
| `StatusIsFresh` | `RunsvSpec => []StatusFresh` | |
| `NothingLeftBehind` | `RunsvSpec => []NoOrphanOnExit` | |
| `FinishAfterRun` | `RunsvSpec => FinishOnce` | |
| `TypesOfDhcp` | `DhcpSpec => []DhcpTypeOK` | `DhcpProofs` |
| `LeasesAreKept` | `DhcpSpec => []HeldIsKept` | |
| `OneHolder` | `DhcpSpec => []NoTwoHolders` | |

They hold for every set of agents, ids and replies, every backlog and set of cuts, every
number of boots, runs, tests and durations and every baseline, every number of blocks
and retries, every set of letters and control scripts, every size of the ring with any
finite number of readers, messages, lengths up to the ring and kills, every table of
keywords and templates and every hash, every number of DHCP clients, addresses, packets
and faults and every lease time, under the `ASSUME`s of the modules: types of the
constants, `Nobody` not a client, fewer blocks than block numbers, a packet that is not
underway for longer than the halvings leave of a lease
(`DelayAssumption`). That is a second for every halving that rounds down, 8 of them in
the default lease of ten days: an ACK that is later than this lets a client hold its
address after the server has forgotten it, which no code of the client prevents, and which
a network of one segment does. `TestAssumption` of `CAgentTest` has more to say, each part of it a fact of
the code: the replies an agent can be given include those this server gives;
`MAX_STEPS` is at least 2 (the code has 50), so that a conversation with one command
comes to its end; a prompt whose test looks for a file or for text that the banner
of the agent does not contain is one the server answers with a command (what the
run `inference` shows, `PromptsMatched`); and no agent has the name that stands for a
command's output. `JudgesProofs` is about both judges, which need the lemma that a set
of places has a last one; it rests on the library's theorem that `<` is well-founded.

* **Agent.** `NothingLeftOpen` needs the relation between `pc`, `i` and `calls`
  (`LoopInv`): at the head of the loop and in a post, `i` is one past the calls.
  `StepsCountTurns` adds the number of assistant messages, by a lemma on appending
  to a sequence. `AnsweredInOrder` is about positions; its invariant says that the
  last turn is at the distance of its answers from the end of the conversation and
  that the turns before it ended where the next one began. The append of an answer
  extends the last turn, the append of an assistant message closes it.
* **Refinement.** `ReportInv` is all the script has to know: it leaves `wait` only
  when every test has a result, and results never go back. Every other action
  leaves the two abstract variables alone.
* **Server.** `ServerInv` adds to `OneClientAtATime` the types and that a client
  without a connection has nothing at the server's end; without it a new
  connection could find itself in the backlog.
* **The group.** The proofs are in layers, each an invariant that is inductive given
  those below it.

  `PassageInv` is about the connection: how much of the response has been written at
  each place of `handle_client`. With it a response that is received is one the server
  chose, hence a member of `Replies`, and every step of the composition is a step of
  `AgentLite` or leaves the agent alone (`GroupRunsAgents`). The theorems of
  `AgentLite` carry over (`GroupConversations`).

  `TalkInv` says that a conversation is in one of four stages: asked, called, answered,
  closed; and for each stage where the agent is, how often the command has been run and
  what the shell is doing. A response that is underway fits the stage: the server calls
  a tool only for a message that ends in the user's prompt, and the prompt is sent once.
  `CommandAtMostOnce` is one conjunct of it.

  `FileInv` adds the files and the verdicts: a good file was written by this run's
  command or was left over; a pass came from an exit code 0 and what the check looked
  at. `PassIsEarned` and `CleanUnlessOrphaned` follow. Once the script is past its
  cleanup, the only shell that can still write is one whose agent was killed alone.

  `CauseInv` adds why things fail. `Cause` is a mishap of the test itself (it was
  killed, its request was cut, a `popen` failed) or a server that SIGPIPE has ended,
  which takes a killed agent of another test. `Fate` says that a failure, an error
  answer, or a missing command has a cause; `Link` is the promise of the connection: as
  long as the client holds it, it ends in a complete answer or there is a cause.
* **Classifier.** The loop scores bucket by bucket and keeps a running maximum; the
  reference counts word by word and takes the first best. `LoopInv` is that `best_idx` is
  the first best of the templates scored so far. That both ways of counting agree, and
  that the square of the norm is the number of pairs of words in one bucket, is shown by
  induction on the words: a word more adds the weight of its bucket to both
  (`ScoreGrows`, `PairsGrow`). It rests on a small theory of finite sums: that the
  recursive function behind the library's `SumFunction` exists (`SumExists`), and that
  a sum is taken in any order (`AnyOrder`, `SumSplit`). Induction is on sets of numbers
  and of subsets here and below (`NatSetInduction`, `SmallerFirst`), from the library's
  well-founded orders, because its induction rules cannot be instantiated.
* **BuildStorm.** `OrderInv`: no line of this boot has a higher rank than the next
  one due. `EarnedInv` follows every 0 on its way to the report: the status that
  is written, the file, and `RC`. A 0 in the file is this boot's or one that an
  earlier boot left; a 0 that is read was earned by this boot, or this boot could
  not write.

  `GradedInv` is that a script that has ended has printed its compile line last.
  `PointsStand` is a lemma about the judge: a line that is not a compile line leaves the
  graded line alone and cannot take the points of an item. `TimedInv` says what
  `T0`, the clock and the build's time have to do with one another up to the report;
  the rest of `MeasuredTimeCounts` is arithmetic about a rounded division (`TimeScore`).
* **cagent judge.** `Told` says that the records are in the order of the runs, and
  that those of this run are what its jobs did. The last record of a test is not
  earlier than the one of this run, so it is of this run.
* **tftp.** The invariant ties the position of the sender and what the receiver has
  written to the block numbers of every packet in the network, which is why a late
  packet is recognised. It is here that there are fewer blocks than numbers. A packet
  that is `short` is the last block or the one that was cut, behind which the sender reads no
  more; so a receiver that succeeds has what was read. An end that has heard nothing
  yet (`Unheard`) has read and written nothing. The refinement map takes sent and written
  blocks, `cut` and the exit codes. What sends has a lemma for the step that comes
  through and one for the step that dies (`DiesStep`).
* **timeout.** `WatcherAim` follows from who holds the pid at each place of the three
  programs: the child is gone and the watcher there before PROG is, unless `misled` and the
  child failed; and init is aimed at only when the pid was gone before.
* **syslogd and logread.** `SyslogInv` says of the ring, unless a `syslogd` was killed in
  it (`Ring`): every byte is cleared or belongs to a message; behind a byte comes the next
  one of the log (`Link`, `Succ`), all around up to `tail`; and what `syslogd` stores next
  comes behind the byte before `tail`. A reader that was not lapped stands `unread` bytes
  behind `tail` (`Position`), and a following one at the first byte of the message
  after the last it saw, or it has printed nothing yet (`Reading`). Where it began is
  another invariant: what a `-f` reader will print first comes behind `from`, or inside a message
  that was wrapping (`Begins`), and a dump that is due has copied more than cleared bytes (`Dumped`). What it copied is such
  a chain (`Copied`), what it printed are messages one after the other, whole but perhaps
  the first (`Output`). `Locking` is the arithmetic of the two semaphores: nobody reads
  while a message is half stored. The link between two bytes is what is inductive, not
  the messages: a store in two pieces, a message that overwrites the end of another, and
  a copy that wraps around each keep it (`RingExtended`, `CopiedIsNew`). That the strings
  of a chain are consecutive messages is a lemma about chains (`StringsOfChain`). The run
  has one kill of `syslogd`; the proof is for any number, and showed that with two the
  history variable `restarted` has to stay once it is set, and to be set for a `logread`
  that starts while the ring has no size.
* **runsv.** `ServiceInv` is, per service, five facts: types; the processes are those
  `svd` knows (`Owned`) and there is one (`Alone`); a service that `k` marked as down
  is dying (`KilledIsDoomed`); the files show `svd` (`Shown`). They are inductive only
  together, for `k` disturbs one in favour of another. `FinishOnce` needs, besides,
  whose turn it is (`Turns`).
* **udhcp.** `DhcpInv` has `Grounds`, what is true whatever was promised (types, the
  bound of the network, tables with one lease of an address and one of a client), and
  `Owings`: a client that was not orphaned has a lease that goes on for as long as the
  halves of its timeout do (`LeftTo`), in the file, too, unless it is `unsaved` (nobody is
  while the server is down, `Lost`: who was is orphaned then), and so has every ACK underway that it may still
  take, with its age counted in. The first is inductive only with the second, for an ACK
  turns into a lease that is held; the second needs that a client starts over with an
  `xid` that no packet has (`XidIsFresh`, by counting them), or a late ACK would be
  taken. `OthersKeepLeases` is the heart of the server's part: when the address of a new
  lease is free, no other client loses one that has not expired. That a timeout of `n`
  and its halves come to no more than those of a longer one is shown by the well-foundedness
  of `<` (`Reached`). `NoTwoHolders` follows, as two clients with leases of one
  address in one table are one client; while the server is down, the table is the file.
  TLC checked `DhcpInv` in the states of `dhcp`, too.

Model-checked only: liveness (`EventuallyExits`, `QueuedIsServed`, the fairness
part of `GroupPromise`, `ExitHonoured`, `TransferIsOver`, `LoggingGoesOn`,
`OverrunSignalled`), which the prover cannot express; and `OwnVocabulary` and
`PromptsMatched`, which are about the characters of the server's words and the values
of its hash: they are evaluated, and the provers do not look inside strings. `PromptsMatched`
enters the proofs about the group as a part of `TestAssumption`.

## 5. What is not modelled

* The bodies of the file tools (the server never calls them), memory management,
  the command line, and the wording of messages.
* `OPTIONS` and health requests, which nothing in the repository sends.
* `BUFFER_SIZE` as a number: a request that is too long is one that is cut.
* The loss of unsynced writes in a crash: the disk keeps what was written. A
  removal that was lost leaves `/work/.build.rc` as a crash before it does.
* That several validations of the script look for a digit, which the banner of the
  agent contains; that `find` takes the first artefact of its name anywhere in
  `target`; that a failing `nproc` prints an empty `cores=`, which hides the arch from
  the judge: the models have these outcomes (`Checks`, `ART`, `arch`), but what
  would be right is nowhere said, so no property is about them. Nor is one about the
  points of environment items in a log without any compile line.
* `tftp`: block numbers that wrap around (65535 blocks and more) with packets that are
  late by as much; names, sizes, the progress bar. What a receiver that dies in `xsendto` leaves
  behind: the partial file stays, which `FileFaithful` names and does not forbid.
* `runsv`: setting up the directories, failing `vfork` and file operations, times.
  `runsvdir`, `sv` and `svlogd`, the clients of `runsv`'s files.
* `syslogd`: the sources of messages, files and their rotation, remote logging. How far back a
  dump goes: it shows the last message and an unbroken run before it, the oldest of which
  depends on bytes that a later message may have overwritten in part.
* `timeout` on machines without an MMU.
* `udhcp`: static leases, INFORM, more than one server, the encoding of options, and
  whether a client is ever bound. Of a lease file that was written in part, only whole
  records are kept: a write that fails between two that succeed shifts the records behind
  it, and what the server makes of those is left out.
* The image build: recipes without state. cJSON and the iproute2 parser: a library and
  generated code, whose results are choices.
* The rest of BusyBox is most of the repository, some 400 files. Most applets are
  filters, which read, compute and print without a state another process sees; the
  shells, editors and calculators are interpreters of a language, whose model would
  be a transliteration. The models cover the part in which processes meet, and so only
  a small share of the lines.

## 6. Plan

1. `runsvdir` and `svlogd` around `Runsv`, `init`, `ntpd`'s peers, `zcip`.
