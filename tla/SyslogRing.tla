------------------------------ MODULE SyslogRing ------------------------------
(***************************************************************************)
(* busybox/sysklogd: the shared memory ring between syslogd (log_to_shmem) *)
(* and logread processes, built with reduced locking: a reader copies what *)
(* is new under the lock and prints it afterwards.                         *)
(*                                                                         *)
(* Byte j of message m is <<m, j>>, and <<m, 0>> is the NUL it ends in;    *)
(* what a NUL belongs to is history that no program looks at.  The ring is *)
(* written in the one or two pieces log_to_shmem copies; a pass of logread *)
(* under its lock is one step, for nothing but a restart of syslogd        *)
(* changes the ring meanwhile.  Left out: where the messages come from,    *)
(* and the end of syslogd by a signal it handles, which removes the ring.  *)
(***************************************************************************)
EXTENDS Integers, Sequences, FiniteSets

CONSTANTS
  Readers,      \* logread processes
  Size,         \* shbuf->size: bytes in use, data[Size] stays NUL
  Lengths,      \* lengths of messages, their NUL included
  MaxMessages,  \* bound on the messages logged
  MaxKills      \* bound on SIGKILLs of syslogd

ASSUME SyslogAssumption ==
  /\ IsFiniteSet(Readers)
  /\ Size \in Nat \ {0}
  /\ Lengths \subseteq 2 .. Size
  /\ MaxMessages \in Nat
  /\ MaxKills \in Nat

Cleared == <<0, 0>>   \* a NUL of memset
Unset == <<-1, 1>>    \* stands for a copy that is not set
Byte(m, j, len) == <<m, IF j = len THEN 0 ELSE j>>
IsNul(byte) == byte[2] = 0
MessageOf(byte) == byte[1]
Message(m, len) == [j \in 1 .. len |-> Byte(m, j, len)]

VARIABLES
  wst,       \* syslogd: "idle", "semdown", "storing", "stored", "killed", "booting"
  msg,       \* the bytes log_to_shmem has still to store
  data,      \* the bytes of the ring and the one behind it
  tail, size,
  sem,       \* the two semaphores: readers in the ring, syslogd in the ring
  rst,       \* logread: "off", "semdown", "locked", "print", "sleep", "done", "dead"
  follow,    \* 0 dump, 1 -f, 2 -F
  cur,
  copy,      \* bytes copied
  out,       \* strings printed
  lens,      \* history: lengths of the messages logged
  kills,
  stuck,     \* history: syslogd was killed while it held the lock
  seen       \* history, per reader: from: messages stored when it started, or
             \* when it dumped the ring; upto: when it looked last; unread: bytes
             \* stored since cur was set; dump: "no", "due" or "blank", a dump that
             \* has something to show or not; lapped, restarted, torn: its excuses

ringVars == <<data, tail, size>>
writerVars == <<wst, msg, lens, kills, stuck>>
readerVars == <<rst, follow, cur, copy, out>>
syslogVars == <<wst, msg, data, tail, size, sem, rst, follow, cur, copy, out, lens, kills, stuck, seen>>

-----------------------------------------------------------------------------
SyslogInit ==
  /\ wst = "idle" /\ msg = <<>> /\ lens = <<>> /\ kills = 0 /\ stuck = FALSE
  /\ data = [i \in 0 .. Size |-> Cleared] /\ tail = 0 /\ size = Size
  /\ sem = [readers |-> 0, writer |-> 0]
  /\ rst = [r \in Readers |-> "off"]
  /\ follow \in [Readers -> {0, 1, 2}]
  /\ cur = [r \in Readers |-> 0]
  /\ copy = [r \in Readers |-> <<>>]
  /\ out = [r \in Readers |-> <<>>]
  /\ seen = [r \in Readers |-> [from |-> 0, upto |-> 0, unread |-> 0, dump |-> "no",
                                lapped |-> FALSE, restarted |-> FALSE, torn |-> FALSE]]

\* Messages that are in the ring with their last byte.
Stored == IF wst \in {"semdown", "storing"} THEN Len(lens) - 1 ELSE Len(lens)

\* A message arrives and syslogd calls log_to_shmem.
LogMessage ==
  /\ wst = "idle"
  /\ Len(lens) < MaxMessages
  /\ \E len \in Lengths : msg' = Message(Len(lens) + 1, len) /\ lens' = Append(lens, len)
  /\ wst' = "semdown"
  /\ UNCHANGED <<kills, stuck, sem, seen>> /\ UNCHANGED ringVars /\ UNCHANGED readerVars

\* semop SMwdn: no reader, no writer.
WriterLock ==
  /\ wst = "semdown"
  /\ sem.readers = 0 /\ sem.writer = 0
  /\ sem' = [sem EXCEPT !.writer = 1]
  /\ wst' = "storing"
  /\ UNCHANGED <<msg, lens, kills, stuck, seen>> /\ UNCHANGED ringVars /\ UNCHANGED readerVars

\* memcpy of k bytes to the tail, and what that does to the readers behind.
CopyIn(k) ==
  /\ data' = [i \in 0 .. Size |-> IF i \in tail .. tail + k - 1 THEN msg[i - tail + 1] ELSE data[i]]
  /\ seen' = [r \in Readers |-> [seen[r] EXCEPT !.unread = IF @ + k < Size THEN @ + k ELSE Size]]

\* What does not fit is stored at the front of the ring: goto again.
StoreToEnd ==
  /\ wst = "storing"
  /\ tail + Len(msg) >= size
  /\ CopyIn(size - tail)
  /\ msg' = SubSeq(msg, size - tail + 1, Len(msg))
  /\ tail' = 0
  /\ UNCHANGED <<wst, lens, kills, stuck, sem, size>> /\ UNCHANGED readerVars

StoreRest ==
  /\ wst = "storing"
  /\ tail + Len(msg) < size
  /\ CopyIn(Len(msg))
  /\ tail' = tail + Len(msg)
  /\ msg' = <<>>
  /\ wst' = "stored"
  /\ UNCHANGED <<lens, kills, stuck, sem, size>> /\ UNCHANGED readerVars

WriterUnlock ==
  /\ wst = "stored"
  /\ sem' = [sem EXCEPT !.writer = 0]
  /\ wst' = "idle"
  /\ UNCHANGED <<msg, lens, kills, stuck, seen>> /\ UNCHANGED ringVars /\ UNCHANGED readerVars

\* SIGKILL: the operations carry no SEM_UNDO, the semaphore keeps its value.
KillWriter ==
  /\ wst \notin {"killed"}
  /\ kills < MaxKills
  /\ kills' = kills + 1
  /\ wst' = "killed"
  /\ stuck' = (stuck \/ wst \in {"storing", "stored"})
  /\ msg' = <<>>
  /\ lens' = SubSeq(lens, 1, Stored)
  /\ UNCHANGED <<sem, seen>> /\ UNCHANGED ringVars /\ UNCHANGED readerVars

\* ipcsyslog_init of the next syslogd: the old ring is cleared without the lock.
ClearRing ==
  /\ wst = "killed"
  /\ wst' = "booting"
  /\ data' = [i \in 0 .. Size |-> Cleared] /\ tail' = 0 /\ size' = 0
  /\ seen' = [r \in Readers |-> [seen[r] EXCEPT !.restarted = @ \/ rst[r] \notin {"off", "done", "dead"}]]
  /\ UNCHANGED <<msg, lens, kills, stuck, sem>> /\ UNCHANGED readerVars
SetSize ==
  /\ wst = "booting"
  /\ wst' = "idle"
  /\ size' = Size
  /\ UNCHANGED <<msg, lens, kills, stuck, sem, seen, data, tail>> /\ UNCHANGED readerVars

-----------------------------------------------------------------------------
\* Where -f or the second turn of -F stands.
Following(r) == follow[r] = 1

\* logread starts: cur is read without the lock, in the middle of a message
\* that wraps if syslogd is storing one.
StartReader(r) ==
  /\ rst[r] = "off"
  /\ rst' = [rst EXCEPT ![r] = "semdown"]
  /\ cur' = [cur EXCEPT ![r] = tail]
  /\ seen' = [seen EXCEPT ![r] =
       [from |-> Stored, upto |-> Stored, unread |-> 0, dump |-> "no", lapped |-> FALSE,
        restarted |-> size = 0,
        torn |-> Following(r) /\ wst = "storing" /\ Len(msg) < lens[Len(lens)]]]
  /\ UNCHANGED <<follow, copy, out, sem>> /\ UNCHANGED ringVars /\ UNCHANGED writerVars

\* Mutation: the reader does not wait for syslogd.
ReaderLockAlone(r) ==
  /\ rst[r] = "semdown"
  /\ sem' = [sem EXCEPT !.readers = @ + 1]
  /\ rst' = [rst EXCEPT ![r] = "locked"]
  /\ UNCHANGED <<follow, cur, copy, out, seen>> /\ UNCHANGED ringVars /\ UNCHANGED writerVars

\* semop SMrdn: no writer; readers share.
ReaderLock(r) ==
  /\ rst[r] = "semdown"
  /\ sem.writer = 0
  /\ sem' = [sem EXCEPT !.readers = @ + 1]
  /\ rst' = [rst EXCEPT ![r] = "locked"]
  /\ UNCHANGED <<follow, cur, copy, out, seen>> /\ UNCHANGED ringVars /\ UNCHANGED writerVars

\* data + c up to its NUL; data[Size] is one.
StringEnd(c) == CHOOSE i \in c .. Size : IsNul(data[i]) /\ \A j \in c .. i - 1 : ~ IsNul(data[j])

\* The oldest complete message from c on; -1 if there is none.
Oldest(c) ==
  LET e == StringEnd(c)
      first == StringEnd(0)
      after(i) == IF i + 1 >= size THEN 0 ELSE i + 1
  IN IF e < size THEN after(e)
     ELSE IF first >= tail THEN -1
     ELSE after(first)

\* The bytes from c to tail, around the end of the ring.
Bytes(c) ==
  IF c <= tail
  THEN [k \in 1 .. tail - c |-> data[c + k - 1]]
  ELSE [k \in 1 .. (size - c) + tail |-> IF k <= size - c THEN data[c + k - 1] ELSE data[k - (size - c) - 1]]

NothingNew(r) == Following(r) /\ cur[r] = tail

\* Mutation: continue comes before sem_up.
LookAgainLocked(r) ==
  /\ rst[r] = "locked"
  /\ NothingNew(r)
  /\ rst' = [rst EXCEPT ![r] = "sleep"]
  /\ seen' = [seen EXCEPT ![r].upto = Stored, ![r].lapped = @ \/ seen[r].unread >= Size]
  /\ UNCHANGED <<sem, follow, cur, copy, out>> /\ UNCHANGED ringVars /\ UNCHANGED writerVars

\* continue, to look again after a second.
LookAgain(r) ==
  /\ rst[r] = "locked"
  /\ NothingNew(r)
  /\ sem' = [sem EXCEPT !.readers = @ - 1]
  /\ rst' = [rst EXCEPT ![r] = "sleep"]
  /\ seen' = [seen EXCEPT ![r].upto = Stored, ![r].lapped = @ \/ seen[r].unread >= Size]
  /\ UNCHANGED <<follow, cur, copy, out>> /\ UNCHANGED ringVars /\ UNCHANGED writerVars

Before(p) == IF p = 0 THEN Size - 1 ELSE p - 1

\* A dump has nothing to show if nothing was stored in the ring, if the last
\* message fills it, or if syslogd stored something since cur was read.
DumpOf(r) ==
  IF data[Before(tail)] = Cleared \/ lens[Stored] = Size \/ seen[r].unread > 0 THEN "blank" ELSE "due"

\* Copy what is new, or everything; unlock.  Neither the copy nor its length
\* is set when no complete message was found.
CopyOut(r) ==
  /\ rst[r] = "locked"
  /\ ~ NothingNew(r)
  /\ LET c == IF Following(r) THEN cur[r] ELSE Oldest(cur[r])
     IN copy' = [copy EXCEPT ![r] = IF c = -1 THEN <<Unset>> ELSE Bytes(c)]
  /\ cur' = [cur EXCEPT ![r] = tail]
  /\ sem' = [sem EXCEPT !.readers = @ - 1]
  /\ rst' = [rst EXCEPT ![r] = "print"]
  /\ follow' = [follow EXCEPT ![r] = IF Following(r) THEN 1 ELSE @ \div 2]
  /\ seen' = [seen EXCEPT ![r].upto = Stored, ![r].unread = 0,
                          ![r].from = IF Following(r) THEN @ ELSE Stored,
                          ![r].dump = IF Following(r) THEN @ ELSE DumpOf(r),
                          ![r].lapped = @ \/ (Following(r) /\ seen[r].unread >= Size)]
  /\ UNCHANGED out /\ UNCHANGED ringVars /\ UNCHANGED writerVars

\* The strings of a copy in their order; fputs prints nothing for an empty one.
Starts(bytes) == {i \in DOMAIN bytes : ~ IsNul(bytes[i]) /\ (i = 1 \/ IsNul(bytes[i - 1]))}
Nth(set, k) == CHOOSE i \in set : Cardinality({j \in set : j <= i}) = k
StringAt(bytes, i) ==
  SubSeq(bytes, i, CHOOSE j \in i .. Len(bytes) :
    /\ j = Len(bytes) \/ IsNul(bytes[j + 1])
    /\ \A k \in i .. j : ~ IsNul(bytes[k]))
Strings(bytes) ==
  [k \in 1 .. Cardinality(Starts(bytes)) |-> StringAt(bytes, Nth(Starts(bytes), k))]

PrintCopy(r) ==
  /\ rst[r] = "print"
  /\ out' = [out EXCEPT ![r] = @ \o Strings(copy[r])]
  /\ copy' = [copy EXCEPT ![r] = <<>>]
  /\ rst' = [rst EXCEPT ![r] = IF follow[r] = 0 THEN "done" ELSE "semdown"]
  /\ UNCHANGED <<follow, cur, sem, seen>> /\ UNCHANGED ringVars /\ UNCHANGED writerVars

\* sleep1
WakeReader(r) ==
  /\ rst[r] = "sleep"
  /\ rst' = [rst EXCEPT ![r] = "semdown"]
  /\ UNCHANGED <<follow, cur, copy, out, sem, seen>> /\ UNCHANGED ringVars /\ UNCHANGED writerVars

\* Mutation: SMrdn without SEM_UNDO.
KillReaderNoUndo(r) ==
  /\ rst[r] \in {"semdown", "locked", "print", "sleep"}
  /\ rst' = [rst EXCEPT ![r] = "dead"]
  /\ UNCHANGED <<follow, cur, copy, out, sem, seen>> /\ UNCHANGED ringVars /\ UNCHANGED writerVars

\* A signal: SEM_UNDO gives back the reader's share.
KillReader(r) ==
  /\ rst[r] \in {"semdown", "locked", "print", "sleep"}
  /\ sem' = IF rst[r] = "locked" THEN [sem EXCEPT !.readers = @ - 1] ELSE sem
  /\ rst' = [rst EXCEPT ![r] = "dead"]
  /\ UNCHANGED <<follow, cur, copy, out, seen>> /\ UNCHANGED ringVars /\ UNCHANGED writerVars

\* Nothing more is logged, and whoever is left waits for what does not come.
SyslogDone ==
  /\ wst \in {"idle", "semdown"}
  /\ UNCHANGED syslogVars

WriterStep == StoreToEnd \/ StoreRest \/ WriterUnlock
ReaderStep(r) == ReaderLock(r) \/ LookAgain(r) \/ CopyOut(r) \/ PrintCopy(r) \/ WakeReader(r)

SyslogNext ==
  \/ LogMessage \/ WriterLock \/ WriterStep
  \/ KillWriter \/ ClearRing \/ SetSize
  \/ \E r \in Readers : StartReader(r) \/ ReaderStep(r) \/ KillReader(r)
  \/ SyslogDone

SyslogSpec == SyslogInit /\ [][SyslogNext]_syslogVars

\* Processes that can run do.  The kernel retries a waiting semop whenever a
\* semaphore changes, so that a writer gets in between two turns of a reader.
SyslogFairness ==
  /\ SF_syslogVars(WriterLock)
  /\ WF_syslogVars(WriterStep)
  /\ \A r \in Readers : WF_syslogVars(ReaderStep(r))

FairSyslogSpec == SyslogSpec /\ SyslogFairness

-----------------------------------------------------------------------------
RingBytes == {Cleared} \cup (1 .. MaxMessages) \X (0 .. Size - 1)

\* Every variable of the ring, the writer and the readers keeps its type.
SyslogTypeOK ==
  /\ wst \in {"idle", "semdown", "storing", "stored", "killed", "booting"}
  /\ msg \in Seq(RingBytes)
  /\ data \in [0 .. Size -> RingBytes] /\ data[Size] = Cleared
  /\ tail \in 0 .. Size - 1 /\ size \in {0, Size}
  /\ sem.readers = Cardinality({r \in Readers : rst[r] = "locked"}) /\ sem.writer \in {0, 1}
  /\ rst \in [Readers -> {"off", "semdown", "locked", "print", "sleep", "done", "dead"}]
  /\ follow \in [Readers -> {0, 1, 2}]
  /\ cur \in [Readers -> 0 .. Size - 1]
  /\ Len(lens) <= MaxMessages /\ kills \in 0 .. MaxKills

\* A string that is one message from its first to its last byte.
Whole(s) == LET m == MessageOf(s[1]) IN s = SubSeq(Message(m, lens[m]), 1, lens[m] - 1)

Printed(r) == [k \in DOMAIN out[r] |-> MessageOf(out[r][k][1])]

\* log_to_shmem and logread: a reader prints whole messages in the order they
\* were logged and without a gap, unless it was lapped by a ring full of
\* messages or syslogd was restarted meanwhile.  When it sleeps or is done it
\* has printed the last one stored when it looked.  -f begins with the first
\* one stored after it started, and prints nothing only if there was none; if
\* cur was read while a message was wrapping, it begins with the end of that,
\* or with the next if only its NUL was missing.  A dump shows the last message,
\* and those before it, if it finds the ring as it was when cur was read, and
\* -F goes on from there.  The copy is set whenever it is printed.
LogReadFaithful ==
  \A r \in Readers : ~ seen[r].restarted /\ ~ seen[r].lapped =>
    LET o == Printed(r)
        s == seen[r]
    IN /\ copy[r] # <<Unset>>
       /\ \A k \in DOMAIN out[r] : Whole(out[r][k]) \/ (k = 1 /\ s.torn)
       /\ \A k \in 1 .. Len(o) - 1 : o[k + 1] = o[k] + 1
       /\ o # <<>> => IF s.dump = "no"
                      THEN o[1] = s.from + 1 \/ (s.torn /\ o[1] = s.from + 2)
                      ELSE o[1] <= IF s.dump = "due" THEN s.from ELSE s.from + 1
       /\ rst[r] \in {"sleep", "done"} =>
            IF o # <<>>
            THEN o[Len(o)] = s.upto
            ELSE s.upto = s.from \/ (s.torn /\ s.upto = s.from + 1)
       /\ s.dump = "due" /\ rst[r] \in {"semdown", "locked", "sleep", "done"} => o # <<>>

\* log_to_shmem comes through its semop, and a reader that looks again and
\* again or is killed does not keep it out, unless a syslogd was killed inside
\* the ring, or the turns of several readers overlap for ever: SMrdn waits for
\* no writer, SMwdn for the moment without a reader.
LoggingGoesOn ==
  \/ <>stuck
  \/ /\ <>[](\E r \in Readers : rst[r] = "locked")
     /\ \A r \in Readers : []<>(rst[r] # "locked")
  \/ wst = "semdown" ~> wst # "semdown"
=============================================================================
