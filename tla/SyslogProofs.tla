---------------------------- MODULE SyslogProofs ----------------------------
(***************************************************************************)
(* Theorems about SyslogRing, for every number of readers, size of the     *)
(* ring, length and number of messages and of kills: its types, with who   *)
(* is in the ring (SyslogTypeOK), and that logread prints whole messages   *)
(* in order and without a gap (LogReadFaithful).                           *)
(*                                                                         *)
(* The ring is followed from byte to byte: behind a byte comes the one     *)
(* that follows it in the log (Succ), up to the newest, behind which comes *)
(* the byte syslogd stores next (Incoming).  A copy is a piece of that     *)
(* chain, and so are the strings printed from it.                          *)
(***************************************************************************)
EXTENDS SyslogRing, FiniteSetTheorems, SequenceTheorems, WellFoundedInduction, TLAPS

-----------------------------------------------------------------------------
(* The inductive invariant. *)

\* Who is in the ring, as the semaphore tells it, and who may be.
Inside == {r \in Readers : rst[r] = "locked"}
Writing == wst \in {"storing", "stored"}
Locking ==
  /\ sem = [readers |-> Cardinality(Inside), writer |-> IF Writing \/ stuck THEN 1 ELSE 0]
  /\ Writing \/ stuck => Inside = {}
  /\ stuck => ~ Writing

\* The message being stored: a rest of the last one, in full before the lock.
LastLength == lens[Len(lens)]
Storing ==
  /\ wst \notin {"semdown", "storing"} => msg = <<>>
  /\ wst \in {"semdown", "storing"} =>
       /\ Len(lens) > 0
       /\ Len(msg) <= LastLength
       /\ \A i \in 1 .. Len(msg) : msg[i] = Byte(Len(lens), LastLength - Len(msg) + i, LastLength)
  /\ wst = "semdown" => Len(msg) = LastLength
  /\ size = 0 => wst \in {"booting", "killed"}
  /\ wst = "booting" => size = 0

Views ==
  [from : Nat, upto : Nat, unread : 0 .. Size, dump : {"no", "due", "blank"},
   lapped : BOOLEAN, restarted : BOOLEAN, torn : BOOLEAN]
SyslogTypes ==
  /\ wst \in {"idle", "semdown", "storing", "stored", "killed", "booting"}
  /\ msg \in Seq(Nat \X Nat)
  /\ data \in [0 .. Size -> RingBytes] /\ data[Size] = Cleared
  /\ tail \in 0 .. Size - 1 /\ size \in {0, Size}
  /\ rst \in [Readers -> {"off", "semdown", "locked", "print", "sleep", "done", "dead"}]
  /\ follow \in [Readers -> {0, 1, 2}]
  /\ cur \in [Readers -> 0 .. Size - 1]
  /\ copy = [r \in Readers |-> copy[r]] /\ out = [r \in Readers |-> out[r]]
  /\ lens \in Seq(Lengths) /\ Len(lens) <= MaxMessages
  /\ kills \in 0 .. MaxKills /\ stuck \in BOOLEAN
  /\ seen \in [Readers -> Views]

\* The byte that follows in the log, and the one syslogd stores next.
Succ(b) == IF IsNul(b) THEN <<b[1] + 1, 1>> ELSE Byte(b[1], b[2] + 1, lens[b[1]])
Incoming == IF msg = <<>> THEN <<Len(lens) + 1, 1>> ELSE msg[1]

After(p) == IF p + 1 = Size THEN 0 ELSE p + 1

\* A byte of one of the first n messages.
OfMessage(b, n) == b \in Nat \X Nat /\ b[1] \in 1 .. n /\ b[2] \in 0 .. lens[b[1]] - 1
Known(b, n) == b = Cleared \/ OfMessage(b, n)

\* c comes behind b: a message begins behind what was cleared.
Link(b, c) == IF b = Cleared THEN c = Cleared \/ c[2] = 1 ELSE c = Succ(b)

\* Messages with bytes in the ring.
Begun == IF wst = "semdown" THEN Len(lens) - 1 ELSE Len(lens)

Ring ==
  /\ \A p \in 0 .. Size - 1 : Known(data[p], Begun)
  /\ \A p \in 0 .. Size - 1 : After(p) # tail =>
       /\ Link(data[p], data[After(p)])
       /\ data[p] = Cleared /\ After(p) # 0 => data[After(p)] = Cleared
  /\ IF data[Before(tail)] = Cleared THEN tail = 0 /\ Incoming[2] = 1
     ELSE Incoming = Succ(data[Before(tail)])

\* A logread that has to be faithful.
Bound(r) == ~ seen[r].restarted /\ ~ seen[r].lapped
Live(r) == rst[r] \in {"semdown", "locked", "print", "sleep"}
InTime(r) == Live(r) /\ seen[r].unread < Size

\* b is the first byte of what -f prints: of the message behind the last one
\* stored when it started, but for the rest of a message that was wrapping.
Begins(r, b) ==
  \/ b = <<seen[r].from + 1, 1>>
  \/ seen[r].torn /\ (b[1] = seen[r].from + 1 \/ b = <<seen[r].from + 2, 1>>)

\* Where it stands: at the first byte it has not read, which begins the
\* message behind the last one it saw unless it has printed nothing yet.
Position(r) ==
  InTime(r) => tail \in {cur[r] + seen[r].unread, cur[r] + seen[r].unread - Size}
Pending(r) == IF seen[r].unread = 0 THEN Incoming ELSE data[cur[r]]
Reading(r) ==
  InTime(r) /\ follow[r] = 1 =>
    IF out[r] = <<>> /\ rst[r] # "print"
    THEN Begins(r, Pending(r))
    ELSE Pending(r) = <<seen[r].upto + 1, 1>>

LastPrinted(r) == Printed(r)[Len(out[r])]

\* What it holds to print: all that is new, or a dump.
Dumped(r) ==
  /\ seen[r].dump # "no" /\ seen[r].upto = seen[r].from
  /\ seen[r].dump = "due" => Len(copy[r]) >= 2 /\ copy[r][Len(copy[r])] # Cleared
Copied(r) ==
  LET c == copy[r] IN
  /\ c \in Seq(Nat \X Nat)
  /\ \A i \in 1 .. Len(c) : Known(c[i], seen[r].upto)
  /\ \A i \in 1 .. Len(c) - 1 : Link(c[i], c[i + 1])
  /\ c # <<>> => /\ c[1] = Cleared \/ c[1][2] = 1 \/ (out[r] = <<>> /\ seen[r].torn)
                 /\ c[Len(c)] \in {Cleared, <<seen[r].upto, 0>>}
  /\ IF out[r] = <<>>
     THEN Dumped(r) \/ (c # <<>> /\ Begins(r, c[1]) /\ seen[r].dump # "due")
     ELSE c # <<>> /\ c[1] = <<LastPrinted(r) + 1, 1>>

\* What it has printed, and where that begins and ends.
First(r) ==
  IF seen[r].dump = "no"
  THEN Printed(r)[1] = seen[r].from + 1 \/ (seen[r].torn /\ Printed(r)[1] = seen[r].from + 2)
  ELSE Printed(r)[1] <= IF seen[r].dump = "due" THEN seen[r].from ELSE seen[r].from + 1
Nothing(r) ==
  /\ seen[r].dump # "due"
  /\ seen[r].upto = seen[r].from \/ (seen[r].torn /\ seen[r].upto = seen[r].from + 1)
Output(r) ==
  /\ out[r] \in Seq(Seq(Nat \X Nat))
  /\ \A k \in 1 .. Len(out[r]) :
       /\ Printed(r)[k] \in 1 .. Stored
       /\ Whole(out[r][k]) \/ (k = 1 /\ seen[r].torn)
  /\ \A k \in 1 .. Len(out[r]) - 1 : Printed(r)[k + 1] = Printed(r)[k] + 1
  /\ out[r] # <<>> => First(r)
  /\ rst[r] \in {"semdown", "locked", "sleep", "done"} =>
       IF out[r] # <<>> THEN LastPrinted(r) = seen[r].upto ELSE Nothing(r)

ReaderInv(r) ==
  /\ seen[r].upto <= Stored
  /\ rst[r] = "off" \/ (follow[r] # 1 /\ rst[r] \in {"semdown", "locked"}) => out[r] = <<>>
  /\ seen[r].torn => follow[r] = 1 /\ seen[r].dump = "no"
  /\ follow[r] # 1 => rst[r] # "sleep"
  /\ rst[r] = "print" => follow[r] # 2
  /\ rst[r] = "off" => copy[r] = <<>>
  /\ Bound(r) => /\ Live(r) => size # 0
                 /\ copy[r] # <<Unset>>
                 /\ rst[r] = "print" => Copied(r)
                 /\ Output(r)
                 /\ ~ stuck => Position(r) /\ Reading(r)

SyslogInv ==
  /\ SyslogTypes /\ Locking /\ Storing
  /\ ~ stuck => Ring
  /\ \A r \in Readers : ReaderInv(r)

-----------------------------------------------------------------------------
(* Numbers, sets and sequences. *)

\* Induction on the naturals, on sets: what holds at 0 and goes on holds
\* everywhere (for the walk along the bytes of a string).
LEMMA NatSetInduction ==
  ASSUME NEW S \in SUBSET Nat, 0 \in S, \A n \in S : n + 1 \in S
  PROVE  S = Nat
<1> DEFINE T == Nat \ S
           R == OpToRel(<, Nat)
<1> SUFFICES ASSUME T # {} PROVE FALSE
  OBVIOUS
<1>1. IsWellFoundedOn(R, Nat)
  BY NatLessThanWellFounded
<1>2. \E x \in T : \A y \in T : ~ (<<y, x>> \in R)
  <2> HIDE DEF T, R
  <2>1. T \subseteq Nat
    BY DEF T
  <2> QED
    BY <2>1, <1>1, WFMin
<1>3. PICK x \in T : \A y \in T : ~ (<<y, x>> \in R)
  BY <1>2
<1>4. x \in Nat /\ x # 0 /\ x - 1 \in Nat
  OBVIOUS
<1>5. x - 1 \in S
  <2>1. SUFFICES ASSUME x - 1 \in T PROVE FALSE
    BY <1>4
  <2>2. <<x - 1, x>> \in R
    BY <1>4 DEF OpToRel
  <2> QED
    BY <2>1, <2>2, <1>3
<1>6. (x - 1) + 1 \in S
  BY <1>5
<1> QED
  BY <1>6, <1>4

\* A set of naturals that is not empty has a least element.
LEMMA Least ==
  ASSUME NEW S \in SUBSET Nat, S # {}
  PROVE  \E n \in S : \A m \in S : n <= m
<1> DEFINE R == OpToRel(<, Nat)
<1>1. IsWellFoundedOn(R, Nat)
  BY NatLessThanWellFounded
<1>2. \E x \in S : \A y \in S : ~ (<<y, x>> \in R)
  <2> HIDE DEF R
  <2> QED
    BY <1>1, WFMin
<1>3. PICK x \in S : \A y \in S : ~ (<<y, x>> \in R)
  BY <1>2
<1>4. \A y \in S : x <= y
  <2> TAKE y \in S
  <2>1. <<y, x>> \notin R
    BY <1>3
  <2>2. x \in Nat /\ y \in Nat
    OBVIOUS
  <2>3. ~ (y < x)
    BY <2>1, <2>2 DEF OpToRel
  <2> QED
    BY <2>2, <2>3
<1> QED
  BY <1>4

\* Every finite set of naturals has a k-th element for each k up to its
\* number of elements, and a later one for a larger k.
LEMMA Rank ==
  ASSUME NEW S \in SUBSET Nat, IsFiniteSet(S)
  PROVE  /\ Cardinality(S) \in Nat
         /\ \A k \in 1 .. Cardinality(S) :
              /\ Nth(S, k) \in S
              /\ Cardinality({j \in S : j <= Nth(S, k)}) = k
         /\ \A k, l \in 1 .. Cardinality(S) : k < l => Nth(S, k) < Nth(S, l)
         /\ \A i \in S : \E k \in 1 .. Cardinality(S) : Nth(S, k) = i
<1> DEFINE Upto(i) == {j \in S : j <= i}
           n == Cardinality(S)
           f == [i \in S |-> Cardinality(Upto(i))]
<1>1. n \in Nat
  BY FS_CardinalityType
<1>2. \A i : IsFiniteSet(Upto(i)) /\ Cardinality(Upto(i)) \in Nat /\ Cardinality(Upto(i)) <= n
  <2> TAKE i
  <2>1. Upto(i) \in SUBSET S
    OBVIOUS
  <2> QED
    BY <2>1, FS_Subset, FS_CardinalityType
<1>3. \A i \in S : Cardinality(Upto(i)) \in 1 .. n
  <2> TAKE i \in S
  <2>1. Upto(i) # {}
    BY i <= i
  <2>2. Cardinality(Upto(i)) # 0
    BY <2>1, <1>2, FS_EmptySet
  <2> QED
    BY <2>2, <1>1, <1>2
<1>4. \A i, j \in S : i < j => Cardinality(Upto(i)) < Cardinality(Upto(j))
  <2> TAKE i, j \in S
  <2> HAVE i < j
  <2>1. Upto(i) \in SUBSET Upto(j)
    <3>1. \A x \in Upto(i) : x \in S /\ x <= i /\ x \in Nat /\ i \in Nat /\ j \in Nat
      OBVIOUS
    <3>2. \A x \in Upto(i) : x \in S /\ x <= j
      BY <3>1
    <3> QED
      BY <3>2
  <2>2. Upto(i) # Upto(j)
    <3>1. j \in Upto(j) /\ j \notin Upto(i)
      OBVIOUS
    <3> QED
      BY <3>1
  <2> HIDE DEF Upto
  <2>3. Cardinality(Upto(i)) <= Cardinality(Upto(j)) /\ Cardinality(Upto(i)) # Cardinality(Upto(j))
    BY <1>2, <2>1, <2>2, FS_Subset
  <2> QED
    BY <2>3, <1>2
<1>5. f \in Injection(S, 1 .. n)
  <2>1. f \in [S -> 1 .. n]
    BY <1>3
  <2>2. \A i, j \in S : f[i] = f[j] => i = j
    <3> TAKE i, j \in S
    <3>1. f[i] = Cardinality(Upto(i)) /\ f[j] = Cardinality(Upto(j))
      OBVIOUS
    <3>2. i \in Nat /\ j \in Nat
      OBVIOUS
    <3> HIDE DEF f
    <3>3. i < j => f[i] < f[j]
      BY <3>1, <1>4
    <3>4. j < i => f[j] < f[i]
      BY <3>1, <1>4
    <3>5. f[i] \in Nat /\ f[j] \in Nat
      BY <3>1, <1>2
    <3> HIDE DEF Upto
    <3> QED
      BY <3>2, <3>3, <3>4, <3>5
  <2> HIDE DEF f
  <2> QED
    BY <2>1, <2>2 DEF Injection, IsInjective
<1>6. f \in Surjection(S, 1 .. n)
  <2>1. IsFiniteSet(1 .. n) /\ Cardinality(1 .. n) = n
    BY <1>1, FS_Interval
  <2> HIDE DEF f
  <2> QED
    BY <2>1, <1>5, FS_Injection
<1>7. \A k \in 1 .. n : \E i \in S : Cardinality(Upto(i)) = k
  <2>1. \A k \in 1 .. n : \E i \in S : f[i] = k
    <3> HIDE DEF f
    <3> QED
      BY <1>6 DEF Surjection
  <2> QED
    BY <2>1
<1>8. \A k \in 1 .. n : Nth(S, k) \in S /\ Cardinality(Upto(Nth(S, k))) = k
  BY <1>7 DEF Nth
<1>9. \A k, l \in 1 .. n : k < l => Nth(S, k) < Nth(S, l)
  <2> TAKE k, l \in 1 .. n
  <2> HAVE k < l
  <2> DEFINE a == Nth(S, k)
             b == Nth(S, l)
  <2>1. a \in S /\ b \in S /\ Cardinality(Upto(a)) = k /\ Cardinality(Upto(b)) = l
    BY <1>8
  <2>2. a \in Nat /\ b \in Nat
    BY <2>1
  <2> HIDE DEF a, b, Upto
  <2>3. b < a => l < k
    BY <2>1, <1>4
  <2>4. a # b
    BY <2>1
  <2>5. a < b
    BY <2>2, <2>3, <2>4
  <2> QED
    BY <2>5 DEF a, b
<1>10. \A i \in S : \E k \in 1 .. n : Nth(S, k) = i
  <2> TAKE i \in S
  <2> DEFINE k == Cardinality(Upto(i))
             a == Nth(S, k)
  <2>1. k \in 1 .. n
    BY <1>3
  <2>2. a \in S /\ Cardinality(Upto(a)) = k
    BY <2>1, <1>8
  <2>3. a \in Nat /\ i \in Nat
    BY <2>2
  <2>4. a < i => Cardinality(Upto(a)) < Cardinality(Upto(i))
    BY <2>2, <1>4
  <2>5. i < a => Cardinality(Upto(i)) < Cardinality(Upto(a))
    BY <2>2, <1>4
  <2>6. k \in Nat
    BY <1>2
  <2> HIDE DEF a
  <2>7. a = i
    BY <2>2, <2>3, <2>4, <2>5, <2>6
  <2> QED
    BY <2>7, <2>1 DEF a
<1> QED
  BY <1>1, <1>8, <1>9, <1>10

-----------------------------------------------------------------------------
(* The strings of a copy. *)

\* A copy as Copied has it: linked bytes of the first n messages up to a NUL.
Chain(c, n) ==
  /\ c \in Seq(Nat \X Nat)
  /\ \A i \in 1 .. Len(c) : Known(c[i], n)
  /\ \A i \in 1 .. Len(c) - 1 : Link(c[i], c[i + 1])
  /\ c # <<>> => IsNul(c[Len(c)])

LEMMA LengthsOfMessages ==
  ASSUME SyslogTypes, NEW m \in 1 .. Len(lens)
  PROVE  lens[m] \in 2 .. Size /\ lens[m] \in Nat
BY SyslogAssumption DEF SyslogTypes

\* From its i-th byte on, c has the rest of a message.
HasRest(c, i, n) ==
  \E m \in 1 .. n, j \in Nat :
    /\ c[i] = <<m, j>> /\ j \in 1 .. lens[m] - 1
    /\ i + lens[m] - j \in 1 .. Len(c)
    /\ \A k \in 0 .. lens[m] - j - 1 : c[i + k] = <<m, j + k>>
    /\ c[i + lens[m] - j] = <<m, 0>>

\* From a byte of a message on, a chain has the rest of that message.
LEMMA Run ==
  ASSUME SyslogTypes, NEW n \in Nat, n <= Len(lens), NEW c, Chain(c, n),
         NEW i \in 1 .. Len(c), ~ IsNul(c[i])
  PROVE  HasRest(c, i, n)
<1>0. Len(lens) \in Nat /\ Len(c) \in Nat /\ c # <<>>
  BY DEF SyslogTypes, Chain
<1>1. OfMessage(c[i], n)
  BY DEF Chain, Known, Cleared, IsNul
<1>2. PICK m \in 1 .. n, j \in Nat : c[i] = <<m, j>> /\ j \in 0 .. lens[m] - 1
  BY <1>1 DEF OfMessage
<1>3. lens[m] \in 2 .. Size /\ lens[m] \in Nat
  BY <1>0, LengthsOfMessages
<1>4. j \in 1 .. lens[m] - 1
  BY <1>2, <1>3 DEF IsNul
<1> DEFINE S == {k \in Nat : k < lens[m] - j => i + k <= Len(c) /\ c[i + k] = <<m, j + k>>}
<1>5. 0 \in S
  BY <1>2, <1>0
<1>6. ASSUME NEW k \in Nat, k < lens[m] - j, i + k <= Len(c), c[i + k] = <<m, j + k>>
      PROVE  i + k + 1 <= Len(c) /\ c[i + k + 1] = <<m, IF j + k + 1 = lens[m] THEN 0 ELSE j + k + 1>>
  <2>1. ~ IsNul(c[i + k]) /\ c[i + k] # Cleared
    BY <1>6, <1>4 DEF IsNul, Cleared
  <2>2. i + k # Len(c)
    BY <2>1, <1>6, <1>0 DEF Chain
  <2>3. i + k \in 1 .. Len(c) - 1
    BY <2>2, <1>6, <1>0
  <2>4. c[i + k + 1] = Succ(c[i + k])
    BY <2>3, <2>1 DEF Chain, Link
  <2>5. Succ(c[i + k]) = Byte(m, j + k + 1, lens[m])
    BY <2>1, <1>6 DEF Succ
  <2> QED
    BY <2>3, <2>4, <2>5 DEF Byte
<1>7. \A k \in S : k + 1 \in S
  <2> TAKE k \in S
  <2>1. CASE ~ (k + 1 < lens[m] - j)
    BY <2>1
  <2>2. CASE k + 1 < lens[m] - j
    <3>1. k < lens[m] - j /\ i + k <= Len(c) /\ c[i + k] = <<m, j + k>>
      BY <2>2, <1>3
    <3>2. i + k + 1 <= Len(c) /\ c[i + k + 1] = <<m, IF j + k + 1 = lens[m] THEN 0 ELSE j + k + 1>>
      BY <3>1, <1>6
    <3>3. j + k + 1 # lens[m] /\ i + (k + 1) = i + k + 1 /\ j + (k + 1) = j + k + 1
      BY <2>2, <1>3
    <3>4. i + (k + 1) <= Len(c) /\ c[i + (k + 1)] = <<m, j + (k + 1)>>
      BY <3>2, <3>3
    <3> QED
      BY <3>4
  <2> QED
    BY <2>1, <2>2
<1>8. S = Nat
  <2> HIDE DEF S
  <2>1. S \in SUBSET Nat
    BY DEF S
  <2> QED
    BY <2>1, <1>5, <1>7, NatSetInduction
<1>9. \A k \in 0 .. lens[m] - j - 1 : i + k <= Len(c) /\ c[i + k] = <<m, j + k>>
  <2> TAKE k \in 0 .. lens[m] - j - 1
  <2>1. k \in Nat /\ k < lens[m] - j
    BY <1>3
  <2>2. k \in S
    BY <2>1, <1>8
  <2> QED
    BY <2>1, <2>2
<1> HIDE DEF S
<1>10. i + lens[m] - j <= Len(c) /\ c[i + lens[m] - j] = <<m, 0>>
  <2> DEFINE k == lens[m] - j - 1
  <2>1. k \in 0 .. lens[m] - j - 1 /\ k \in Nat /\ k < lens[m] - j
    BY <1>3, <1>4
  <2>2. j + k + 1 = lens[m] /\ i + k + 1 = i + lens[m] - j
    BY <1>3, <1>4
  <2>3. i + k <= Len(c) /\ c[i + k] = <<m, j + k>>
    BY <2>1, <1>9
  <2> HIDE DEF k
  <2>4. i + k + 1 <= Len(c) /\ c[i + k + 1] = <<m, 0>>
    BY <2>1, <2>2, <2>3, <1>6
  <2> QED
    BY <2>2, <2>4
<1>11. i + lens[m] - j \in 1 .. Len(c)
  BY <1>10, <1>3, <1>4, <1>0
<1> QED
  BY <1>2, <1>4, <1>9, <1>10, <1>11 DEF HasRest

\* Where a string begins, the string is the rest of its message, and the
\* message behind it begins where the next string does.
LEMMA StringOfChain ==
  ASSUME SyslogTypes, NEW n \in Nat, n <= Len(lens), NEW c, Chain(c, n), NEW i \in Starts(c)
  PROVE  LET s == StringAt(c, i)
         IN  /\ s \in Seq(Nat \X Nat) /\ s # <<>> /\ s[1] = c[i] /\ c[i][1] \in 1 .. n
             /\ c[i][2] = 1 => Whole(s)
             /\ \/ /\ c[Len(c)] = <<c[i][1], 0>>
                   /\ \A b \in Starts(c) : b <= i
                \/ \E b \in Starts(c) :
                     /\ i < b /\ c[b] = <<c[i][1] + 1, 1>>
                     /\ \A a \in Starts(c) : i < a => b <= a
<1>0. Len(c) \in Nat /\ Len(lens) \in Nat
  BY DEF Chain, SyslogTypes
<1>a. \A a \in Starts(c) : a \in 1 .. Len(c) /\ ~ IsNul(c[a]) /\ (a = 1 \/ IsNul(c[a - 1]))
  BY DEF Starts, Chain
<1>b. \A a \in 1 .. Len(c) : ~ IsNul(c[a]) /\ (a = 1 \/ IsNul(c[a - 1])) => a \in Starts(c)
  BY DEF Starts, Chain
<1>1. i \in 1 .. Len(c) /\ ~ IsNul(c[i])
  BY <1>a
<1>2. PICK m \in 1 .. n, j \in Nat :
        /\ c[i] = <<m, j>> /\ j \in 1 .. lens[m] - 1
        /\ i + lens[m] - j \in 1 .. Len(c)
        /\ \A k \in 0 .. lens[m] - j - 1 : c[i + k] = <<m, j + k>>
        /\ c[i + lens[m] - j] = <<m, 0>>
  <2>1. HasRest(c, i, n)
    BY <1>1, Run
  <2> QED
    BY <2>1 DEF HasRest
<1>3. lens[m] \in 2 .. Size /\ lens[m] \in Nat
  BY <1>0, LengthsOfMessages
<1> DEFINE e == i + lens[m] - j
<1>4. e \in 1 .. Len(c) /\ i < e /\ IsNul(c[e]) /\ c[e] = <<m, 0>>
  BY <1>2, <1>3, <1>1 DEF IsNul
<1>5. \A k \in i .. e - 1 : c[k] = <<m, j + (k - i)>> /\ ~ IsNul(c[k])
  <2> TAKE k \in i .. e - 1
  <2>1. k - i \in 0 .. lens[m] - j - 1 /\ i + (k - i) = k
    BY <1>1, <1>3
  <2>2. c[k] = <<m, j + (k - i)>>
    BY <2>1, <1>2
  <2> QED
    BY <2>1, <2>2, <1>2 DEF IsNul
<1> HIDE DEF e
<1>6. StringAt(c, i) = SubSeq(c, i, e - 1)
  <2> DEFINE Q(x) == (x = Len(c) \/ IsNul(c[x + 1])) /\ \A k \in i .. x : ~ IsNul(c[k])
  <2>1. e - 1 \in i .. Len(c) /\ Q(e - 1)
    <3>1. e - 1 \in i .. Len(c) /\ (e - 1) + 1 = e
      BY <1>4, <1>1, <1>0
    <3>2. IsNul(c[e])
      BY <1>4
    <3>3. \A k \in i .. e - 1 : ~ IsNul(c[k])
      BY <1>5
    <3> QED
      BY <3>1, <3>2, <3>3
  <2>2. \A x \in i .. Len(c) : Q(x) => x = e - 1
    <3> SUFFICES ASSUME NEW x \in i .. Len(c), Q(x) PROVE x = e - 1
      OBVIOUS
    <3>0. /\ x = Len(c) \/ IsNul(c[x + 1])
          /\ \A k \in i .. x : ~ IsNul(c[k])
      OBVIOUS
    <3> HIDE DEF Q
    <3>a. x \in Int /\ i \in Int /\ e \in Int /\ i <= x /\ x <= Len(c) /\ i < e /\ e <= Len(c)
      BY <1>4, <1>1, <1>0
    <3>1. ~ (e <= x)
      <4> SUFFICES ASSUME e <= x PROVE FALSE
        OBVIOUS
      <4>1. e \in i .. x
        BY <3>a
      <4> QED
        BY <4>1, <1>4, <3>0
    <3>2. ~ (x < e - 1)
      <4> SUFFICES ASSUME x < e - 1 PROVE FALSE
        OBVIOUS
      <4>1. x # Len(c) /\ x + 1 \in i .. e - 1
        BY <3>a, <1>0
      <4> QED
        BY <4>1, <1>5, <3>0
    <3> QED
      BY <3>1, <3>2, <3>a
  <2>3. (CHOOSE x \in i .. Len(c) : Q(x)) = e - 1
    <3> HIDE DEF Q
    <3> QED
      BY <2>1, <2>2
  <2> QED
    BY <2>3 DEF StringAt
<1>7. /\ StringAt(c, i) \in Seq(Nat \X Nat)
      /\ Len(StringAt(c, i)) = lens[m] - j
      /\ \A k \in 1 .. lens[m] - j : StringAt(c, i)[k] = <<m, j + k - 1>>
  <2>1. \A k \in i .. e - 1 : c[k] \in Nat \X Nat
    <3>1. \A k \in 1 .. Len(c) : c[k] \in Nat \X Nat
      BY DEF Chain
    <3>2. i \in Nat /\ 1 <= i /\ e \in Nat /\ e <= Len(c)
      BY <1>4, <1>1, <1>0
    <3>3. \A k \in i .. e - 1 : k \in 1 .. Len(c)
      BY <3>2, <1>0
    <3> QED
      BY <3>1, <3>3
  <2>2. i \in Int /\ e - 1 \in Int /\ (e - 1) - i + 1 = lens[m] - j /\ i <= e - 1
    <3>1. i \in Nat /\ lens[m] - j \in Nat /\ lens[m] - j >= 1
      BY <1>1, <1>2, <1>3
    <3>2. e = i + (lens[m] - j)
      BY <1>1, <1>3 DEF e
    <3> QED
      BY <3>1, <3>2
  <2>3. /\ StringAt(c, i) \in Seq(Nat \X Nat)
        /\ Len(StringAt(c, i)) = lens[m] - j
        /\ \A k \in 1 .. lens[m] - j : StringAt(c, i)[k] = c[i + k - 1]
    BY <1>6, <2>1, <2>2, SubSeqProperties
  <2>4. \A k \in 1 .. lens[m] - j : c[i + k - 1] = <<m, j + k - 1>>
    <3> TAKE k \in 1 .. lens[m] - j
    <3>1. i + k - 1 \in i .. e - 1 /\ j + ((i + k - 1) - i) = j + k - 1
      BY <1>3, <1>1, <1>4 DEF e
    <3> QED
      BY <3>1, <1>5
  <2> QED
    BY <2>3, <2>4
<1>8. StringAt(c, i) # <<>> /\ StringAt(c, i)[1] = c[i]
  <2>1. 1 \in 1 .. lens[m] - j /\ j + 1 - 1 = j /\ lens[m] - j # 0
    BY <1>2, <1>3
  <2>2. StringAt(c, i)[1] = <<m, j + 1 - 1>>
    BY <2>1, <1>7
  <2>3. Len(StringAt(c, i)) # 0
    BY <2>1, <1>7
  <2> QED
    BY <2>1, <2>2, <2>3, <1>2
<1>9. c[i][1] = m /\ c[i][2] = j
  BY <1>2
<1>10. j = 1 => Whole(StringAt(c, i))
  <2> SUFFICES ASSUME j = 1 PROVE Whole(StringAt(c, i))
    OBVIOUS
  <2>0. j = 1
    OBVIOUS
  <2> DEFINE t == SubSeq(Message(m, lens[m]), 1, lens[m] - 1)
  <2>1. \A k \in 1 .. lens[m] - 1 : Message(m, lens[m])[k] = <<m, k>> /\ <<m, k>> \in Nat \X Nat
    BY <1>3 DEF Message, Byte
  <2>2. /\ t \in Seq(Nat \X Nat) /\ Len(t) = lens[m] - 1
        /\ \A k \in 1 .. lens[m] - 1 : t[k] = Message(m, lens[m])[k]
    <3>1. \A k \in 1 .. lens[m] - 1 : Message(m, lens[m])[k] \in Nat \X Nat
      BY <2>1
    <3>2. 1 \in Int /\ lens[m] - 1 \in Int /\ (lens[m] - 1) - 1 + 1 = lens[m] - 1 /\ 1 <= lens[m] - 1
      BY <1>3
    <3>3. \A k \in Int : 1 + k - 1 = k
      OBVIOUS
    <3> QED
      BY <3>1, <3>2, <3>3, SubSeqProperties
  <2> HIDE DEF t
  <2>3. \A k \in 1 .. lens[m] - 1 : StringAt(c, i)[k] = t[k]
    <3> TAKE k \in 1 .. lens[m] - 1
    <3>1. k \in 1 .. lens[m] - j /\ j + k - 1 = k
      BY <2>0, <1>3
    <3>2. StringAt(c, i)[k] = <<m, j + k - 1>>
      BY <3>1, <1>7
    <3> QED
      BY <3>1, <3>2, <2>1, <2>2
  <2>4. StringAt(c, i) = t
    BY <1>7, <2>2, <2>3, SeqEqual
  <2>5. MessageOf(StringAt(c, i)[1]) = m
    BY <1>8, <1>9 DEF MessageOf
  <2> QED
    BY <2>4, <2>5 DEF Whole, t
<1>11. \A a \in Starts(c) : i < a => e < a
  <2> TAKE a \in Starts(c)
  <2> HAVE i < a
  <2>1. a \in 1 .. Len(c) /\ ~ IsNul(c[a]) /\ (a = 1 \/ IsNul(c[a - 1]))
    BY <1>a
  <2>2. a # e /\ a # 1
    BY <2>1, <1>4, <1>1
  <2>3. ~ (a < e)
    <3> SUFFICES ASSUME a < e PROVE FALSE
      OBVIOUS
    <3>1. a - 1 \in i .. e - 1
      BY <2>1, <1>1, <1>4
    <3> QED
      BY <3>1, <1>5, <2>1, <2>2
  <2> QED
    BY <2>1, <2>2, <2>3, <1>4
<1>12. CASE e = Len(c)
  <2>1. c[Len(c)] = <<c[i][1], 0>>
    BY <1>12, <1>4, <1>9
  <2>2. \A b \in Starts(c) : b <= i
    <3> TAKE b \in Starts(c)
    <3>1. b \in 1 .. Len(c)
      BY <1>a
    <3> QED
      BY <3>1, <1>11, <1>12, <1>0, <1>1
  <2> QED
    BY <2>1, <2>2, <1>7, <1>8, <1>9, <1>10
<1>13. CASE e # Len(c)
  <2>1. e \in 1 .. Len(c) - 1 /\ e + 1 \in 1 .. Len(c)
    <3>1. e \in 1 .. Len(c)
      BY <1>4
    <3> QED
      BY <3>1, <1>13, <1>0
  <2>2. c[e] # Cleared
    BY <1>4 DEF Cleared
  <2>3. c[e + 1] = <<m + 1, 1>>
    <3>1. Link(c[e], c[e + 1])
      BY <2>1 DEF Chain
    <3>2. c[e + 1] = Succ(c[e])
      BY <3>1, <2>2 DEF Link
    <3> QED
      BY <3>2, <1>4 DEF Succ
  <2>4. e + 1 \in Starts(c)
    <3>1. ~ IsNul(c[e + 1])
      BY <2>3 DEF IsNul
    <3>2. IsNul(c[(e + 1) - 1])
      <4>1. (e + 1) - 1 = e
        BY <1>4
      <4> QED
        BY <4>1, <1>4
    <3> QED
      BY <3>1, <3>2, <2>1, <1>b
  <2>5. i < e + 1 /\ c[e + 1] = <<c[i][1] + 1, 1>>
    BY <2>3, <1>9, <1>4, <1>1
  <2>6. \A a \in Starts(c) : i < a => e + 1 <= a
    <3> TAKE a \in Starts(c)
    <3>1. a \in 1 .. Len(c)
      BY <1>a
    <3> QED
      BY <3>1, <1>11, <1>4
  <2> QED
    BY <2>4, <2>5, <2>6, <1>7, <1>8, <1>9, <1>10
<1> QED
  BY <1>12, <1>13

\* The strings of a copy: whole messages one after the other, but for the
\* first if the copy begins inside a message, up to the message it ends in.
LEMMA StringsOfChain ==
  ASSUME SyslogTypes, NEW n \in Nat, n <= Len(lens), NEW c, Chain(c, n)
  PROVE  LET s == Strings(c)
         IN  /\ s \in Seq(Seq(Nat \X Nat))
             /\ \A k \in 1 .. Len(s) :
                  /\ MessageOf(s[k][1]) \in 1 .. n
                  /\ Whole(s[k]) \/ (k = 1 /\ ~ IsNul(c[1]) /\ c[1][2] # 1)
             /\ \A k \in 1 .. Len(s) - 1 : MessageOf(s[k + 1][1]) = MessageOf(s[k][1]) + 1
             /\ c # <<>> /\ ~ IsNul(c[1]) => s # <<>> /\ MessageOf(s[1][1]) = c[1][1]
             /\ s # <<>> => c[Len(c)] = <<MessageOf(s[Len(s)][1]), 0>>
<1>0. Len(c) \in Nat /\ Len(lens) \in Nat /\ DOMAIN c = 1 .. Len(c)
  BY DEF Chain, SyslogTypes
<1> DEFINE T == Starts(c)
           N == Cardinality(T)
           At(k) == Nth(T, k)
           s == Strings(c)
<1>1. T \in SUBSET Nat /\ IsFiniteSet(T)
  <2>1. T \in SUBSET (1 .. Len(c))
    BY <1>0 DEF Starts
  <2>2. IsFiniteSet(1 .. Len(c))
    BY <1>0, FS_Interval
  <2> HIDE DEF T
  <2>3. IsFiniteSet(T)
    BY <2>1, <2>2, FS_Subset
  <2> QED
    BY <2>1, <2>3
<1> HIDE DEF T
<1>2. /\ N \in Nat
      /\ \A k \in 1 .. N : At(k) \in T
      /\ \A k, l \in 1 .. N : k < l => At(k) < At(l)
      /\ \A i \in T : \E k \in 1 .. N : At(k) = i
  BY <1>1, Rank
<1>3. s = [k \in 1 .. N |-> StringAt(c, At(k))]
  BY DEF Strings, T
<1> HIDE DEF N, At, s
<1>4. \A i \in T :
        /\ StringAt(c, i) \in Seq(Nat \X Nat) /\ StringAt(c, i) # <<>>
        /\ StringAt(c, i)[1] = c[i] /\ c[i][1] \in 1 .. n
        /\ c[i][2] = 1 => Whole(StringAt(c, i))
        /\ \/ /\ c[Len(c)] = <<c[i][1], 0>>
              /\ \A b \in T : b <= i
           \/ \E b \in T :
                /\ i < b /\ c[b] = <<c[i][1] + 1, 1>>
                /\ \A a \in T : i < a => b <= a
  BY StringOfChain DEF T
<1>5. s \in Seq(Seq(Nat \X Nat)) /\ Len(s) = N
  <2>1. \A k \in 1 .. N : StringAt(c, At(k)) \in Seq(Nat \X Nat)
    BY <1>2, <1>4
  <2>2. s \in [1 .. N -> Seq(Nat \X Nat)]
    BY <2>1, <1>3
  <2> QED
    BY <2>2, <1>2
<1>6. \A k \in 1 .. N : s[k] = StringAt(c, At(k)) /\ MessageOf(s[k][1]) = c[At(k)][1]
  <2> TAKE k \in 1 .. N
  <2>1. s[k] = StringAt(c, At(k)) /\ At(k) \in T
    BY <1>2, <1>3
  <2>2. s[k][1] = c[At(k)]
    BY <2>1, <1>4
  <2> QED
    BY <2>1, <2>2 DEF MessageOf
<1>7. \A k \in 1 .. N : MessageOf(s[k][1]) \in 1 .. n
  <2> TAKE k \in 1 .. N
  <2>1. At(k) \in T /\ MessageOf(s[k][1]) = c[At(k)][1]
    BY <1>2, <1>6
  <2> QED
    BY <2>1, <1>4
\* The next string begins behind this one.
<1>8. \A k \in 1 .. N - 1 : c[At(k + 1)] = <<c[At(k)][1] + 1, 1>>
  <2> TAKE k \in 1 .. N - 1
  <2> DEFINE x == At(k)
             y == At(k + 1)
  <2>1. k \in 1 .. N /\ k + 1 \in 1 .. N /\ k < k + 1
    BY <1>2
  <2>2. x \in T /\ y \in T /\ x < y
    BY <2>1, <1>2
  <2>3. x \in Nat /\ y \in Nat
    BY <2>2, <1>1
  <2> HIDE DEF x, y
  <2>4. ~ \A b \in T : b <= x
    BY <2>2, <2>3
  <2>5. PICK b \in T : x < b /\ c[b] = <<c[x][1] + 1, 1>> /\ \A a \in T : x < a => b <= a
    BY <2>2, <2>4, <1>4
  <2>6. PICK l \in 1 .. N : At(l) = b
    BY <1>2
  <2>7. b \in Nat /\ b <= y
    BY <2>2, <2>5, <1>1
  <2>8. ~ (k + 1 < l)
    <3> SUFFICES ASSUME k + 1 < l PROVE FALSE
      OBVIOUS
    <3>1. y < b
      BY <2>1, <2>6, <1>2 DEF y
    <3> QED
      BY <3>1, <2>7, <2>3
  <2>9. ~ (l <= k)
    <3> SUFFICES ASSUME l <= k PROVE FALSE
      OBVIOUS
    <3>1. l = k \/ l < k
      BY <1>2
    <3>2. b = x \/ b < x
      BY <3>1, <2>1, <2>6, <1>2 DEF x
    <3> QED
      BY <3>2, <2>5, <2>7, <2>3
  <2>10. l = k + 1
    BY <2>8, <2>9, <1>2
  <2> QED
    BY <2>10, <2>6, <2>5 DEF x, y
<1>9. \A k \in 1 .. N - 1 : MessageOf(s[k + 1][1]) = MessageOf(s[k][1]) + 1
  <2> TAKE k \in 1 .. N - 1
  <2>1. k \in 1 .. N /\ k + 1 \in 1 .. N
    BY <1>2
  <2> QED
    BY <2>1, <1>6, <1>8
<1>10. \A k \in 1 .. N : k > 1 => Whole(s[k])
  <2> TAKE k \in 1 .. N
  <2> HAVE k > 1
  <2>1. k - 1 \in 1 .. N - 1 /\ (k - 1) + 1 = k
    BY <1>2
  <2>2. c[At(k)] = <<c[At(k - 1)][1] + 1, 1>>
    BY <2>1, <1>8
  <2>3. c[At(k)][2] = 1
    BY <2>2
  <2>4. At(k) \in T /\ s[k] = StringAt(c, At(k))
    BY <1>2, <1>6
  <2> QED
    BY <2>3, <2>4, <1>4
\* The first string begins the copy or behind a NUL.
<1>11. 1 \in 1 .. N => Whole(s[1]) \/ (~ IsNul(c[1]) /\ c[1][2] # 1)
  <2> HAVE 1 \in 1 .. N
  <2> DEFINE x == At(1)
  <2>1. x \in T /\ s[1] = StringAt(c, x)
    BY <1>2, <1>6
  <2> HIDE DEF x
  <2>2. x \in 1 .. Len(c) /\ ~ IsNul(c[x]) /\ (x = 1 \/ IsNul(c[x - 1]))
    BY <2>1, <1>0 DEF Starts, T
  <2>3. CASE x = 1
    BY <2>1, <2>2, <2>3, <1>4
  <2>4. CASE x # 1
    <3>1. x - 1 \in 1 .. Len(c) - 1 /\ (x - 1) + 1 = x
      BY <2>2, <2>4, <1>0
    <3>2. IsNul(c[x - 1]) /\ Link(c[x - 1], c[x])
      BY <2>2, <2>4, <3>1 DEF Chain
    <3>3. c[x][2] = 1
      <4>1. c[x] # Cleared
        BY <2>2 DEF IsNul, Cleared
      <4> QED
        BY <4>1, <3>2 DEF Link, Succ
    <3> QED
      BY <3>3, <2>1, <1>4
  <2> QED
    BY <2>3, <2>4
<1>12. \A k \in 1 .. N : Whole(s[k]) \/ (k = 1 /\ ~ IsNul(c[1]) /\ c[1][2] # 1)
  <2> TAKE k \in 1 .. N
  <2>1. k = 1 \/ k > 1
    BY <1>2
  <2> QED
    BY <2>1, <1>10, <1>11
<1>13. c # <<>> /\ ~ IsNul(c[1]) => s # <<>> /\ MessageOf(s[1][1]) = c[1][1]
  <2> HAVE c # <<>> /\ ~ IsNul(c[1])
  <2>1. 1 \in 1 .. Len(c)
    BY <1>0 DEF Chain
  <2>2. 1 \in T
    BY <2>1, <1>0 DEF Starts, T
  <2>3. PICK k \in 1 .. N : At(k) = 1
    BY <2>2, <1>2
  <2>4. 1 \in 1 .. N /\ At(1) \in T
    BY <2>3, <1>2
  <2>5. At(1) \in Nat /\ At(1) >= 1
    BY <2>4, <1>0 DEF Starts, T
  <2>6. k = 1
    <3> SUFFICES ASSUME 1 < k PROVE FALSE
      BY <1>2
    <3>1. At(1) < At(k)
      BY <2>4, <1>2
    <3> QED
      BY <3>1, <2>3, <2>5
  <2>7. MessageOf(s[1][1]) = c[1][1]
    BY <2>3, <2>6, <1>6
  <2> QED
    BY <2>4, <2>7, <1>5
<1>14. s # <<>> => c[Len(c)] = <<MessageOf(s[Len(s)][1]), 0>>
  <2> HAVE s # <<>>
  <2>1. N \in 1 .. N
    BY <1>5, <1>2
  <2> DEFINE x == At(N)
  <2>2. x \in T /\ MessageOf(s[N][1]) = c[x][1]
    BY <2>1, <1>2, <1>6
  <2> HIDE DEF x
  <2>3. \A b \in T : b <= x
    <3> TAKE b \in T
    <3>1. PICK k \in 1 .. N : At(k) = b
      BY <1>2
    <3>2. k = N \/ k < N
      BY <1>2
    <3>3. b = x \/ b < x
      BY <3>1, <3>2, <2>1, <1>2 DEF x
    <3>4. b \in Nat /\ x \in Nat
      BY <2>2, <1>1
    <3> QED
      BY <3>3, <3>4
  <2>4. ~ \E b \in T : x < b
    <3>1. \A b \in T : b \in Nat /\ x \in Nat
      BY <2>2, <1>1
    <3> QED
      BY <3>1, <2>3
  <2>5. c[Len(c)] = <<c[x][1], 0>>
    BY <2>2, <2>4, <1>4
  <2> QED
    BY <2>5, <2>2, <1>5
<1> QED
  BY <1>5, <1>7, <1>9, <1>12, <1>13, <1>14 DEF s

\* Where they begin, if the copy begins with a NUL; and a copy of two bytes or
\* more up to the end of a message has one.
LEMMA StringsBegin ==
  ASSUME SyslogTypes, NEW n \in Nat, n <= Len(lens), NEW c, Chain(c, n)
  PROVE  LET s == Strings(c)
         IN  /\ Len(c) >= 2 /\ c[Len(c)] # Cleared => s # <<>>
             /\ c # <<>> /\ IsNul(c[1]) /\ c[1] # Cleared =>
                  IF Len(c) = 1 THEN s = <<>>
                  ELSE s # <<>> /\ MessageOf(s[1][1]) = c[1][1] + 1
<1>0. Len(c) \in Nat /\ Len(lens) \in Nat /\ DOMAIN c = 1 .. Len(c)
  BY DEF Chain, SyslogTypes
<1> DEFINE T == Starts(c)
           N == Cardinality(T)
           At(k) == Nth(T, k)
           s == Strings(c)
<1>t. T \in SUBSET (1 .. Len(c))
  BY <1>0 DEF Starts
<1>1. T \in SUBSET Nat /\ IsFiniteSet(T)
  <2>2. IsFiniteSet(1 .. Len(c))
    BY <1>0, FS_Interval
  <2> HIDE DEF T
  <2>3. IsFiniteSet(T)
    BY <1>t, <2>2, FS_Subset
  <2> QED
    BY <1>t, <2>3
<1> HIDE DEF T
<1>2. /\ N \in Nat
      /\ \A k \in 1 .. N : At(k) \in T
      /\ \A k, l \in 1 .. N : k < l => At(k) < At(l)
      /\ \A i \in T : \E k \in 1 .. N : At(k) = i
  BY <1>1, Rank
<1>3. s = [k \in 1 .. N |-> StringAt(c, At(k))]
  BY DEF Strings, T
<1> HIDE DEF N, At, s
<1>4. (s # <<>> <=> N # 0) /\ (N # 0 <=> T # {})
  <2>1. s \in Seq({s[k] : k \in 1 .. N}) /\ Len(s) = N
    BY <1>2, <1>3
  <2>2. s # <<>> <=> N # 0
    BY <2>1
  <2>3. T # {} => N # 0
    BY <1>2
  <2>4. N # 0 => 1 \in 1 .. N
    BY <1>2
  <2> QED
    BY <2>2, <2>3, <2>4, <1>2
<1>5. ASSUME NEW i \in 1 .. Len(c), ~ IsNul(c[i])
      PROVE  T # {}
  <2> DEFINE S == {j \in 1 .. Len(c) : ~ IsNul(c[j])}
  <2>1. S \in SUBSET Nat /\ S # {}
    BY <1>5
  <2>2. PICK j \in S : \A m \in S : j <= m
    <3> HIDE DEF S
    <3> QED
      BY <2>1, Least
  <2>3. j = 1 \/ IsNul(c[j - 1])
    <3> SUFFICES ASSUME j # 1, ~ IsNul(c[j - 1]) PROVE FALSE
      OBVIOUS
    <3>1. j - 1 \in 1 .. Len(c) /\ ~ (j <= j - 1)
      BY <1>0
    <3> QED
      BY <3>1, <2>2
  <2>4. j \in T
    BY <2>3, <1>0 DEF Starts, T
  <2> QED
    BY <2>4
<1>6. ASSUME Len(c) >= 2, c[Len(c)] # Cleared
      PROVE  s # <<>>
  <2>0. PICK l \in Nat : l = Len(c) /\ l >= 2
    BY <1>0, <1>6
  <2>1. PICK i \in Nat : i = l - 1
    BY <2>0
  <2>2. i \in 1 .. Len(c) - 1 /\ i \in 1 .. Len(c) /\ i + 1 = Len(c) /\ c # <<>>
    BY <2>0, <2>1
  <2>3. Link(c[i], c[i + 1]) /\ IsNul(c[i + 1]) /\ c[i + 1] # Cleared
    BY <2>2, <1>6 DEF Chain
  <2>4. c[i + 1] = Succ(c[i])
    BY <2>3 DEF Link, IsNul
  <2>5. ~ IsNul(c[i])
    <3> SUFFICES ASSUME IsNul(c[i]) PROVE FALSE
      OBVIOUS
    <3>1. c[i + 1] = <<c[i][1] + 1, 1>>
      BY <2>4 DEF Succ
    <3> QED
      BY <3>1, <2>3 DEF IsNul
  <2> QED
    BY <2>2, <2>5, <1>4, <1>5
<1>7. ASSUME c # <<>>, IsNul(c[1]), c[1] # Cleared
      PROVE  IF Len(c) = 1 THEN s = <<>>
             ELSE s # <<>> /\ MessageOf(s[1][1]) = c[1][1] + 1
  <2>1. 1 \notin T
    BY <1>7 DEF Starts, T
  <2>2. CASE Len(c) = 1
    <3>1. \A i \in T : i = 1
      BY <2>2, <1>t
    <3>2. T = {}
      BY <3>1, <2>1
    <3> QED
      BY <3>2, <2>2, <1>4
  <2>3. CASE Len(c) # 1
    <3>1. 1 \in 1 .. Len(c) - 1 /\ 2 \in 1 .. Len(c) /\ 1 + 1 = 2 /\ 2 - 1 = 1
      BY <2>3, <1>0, <1>7 DEF Chain
    <3>2. c[2] = <<c[1][1] + 1, 1>>
      BY <3>1, <1>7 DEF Chain, Link, Succ
    <3>3. ~ IsNul(c[2])
      BY <3>2 DEF IsNul
    <3>4. 2 \in T
      BY <3>1, <3>3, <1>0, <1>7 DEF Starts, T
    <3>5. PICK k \in 1 .. N : At(k) = 2
      BY <3>4, <1>2
    <3>6. 1 \in 1 .. N /\ At(1) \in T
      BY <3>5, <1>2
    <3>7. At(1) \in Nat /\ At(1) >= 2
      <4>1. At(1) \in 1 .. Len(c) /\ At(1) # 1
        BY <3>6, <2>1, <1>t
      <4> QED
        BY <4>1, <1>0
    <3>8. k = 1
      <4> SUFFICES ASSUME 1 < k PROVE FALSE
        BY <1>2
      <4>1. At(1) < At(k)
        BY <3>6, <1>2
      <4> QED
        BY <4>1, <3>5, <3>7
    <3>9. s[1] = StringAt(c, 2)
      BY <3>5, <3>6, <3>8, <1>3
    <3>10. StringAt(c, 2)[1] = c[2]
      BY <3>4, StringOfChain DEF T
    <3>11. MessageOf(s[1][1]) = c[1][1] + 1
      BY <3>2, <3>9, <3>10 DEF MessageOf
    <3> QED
      BY <3>4, <3>11, <2>3, <1>4
  <2> QED
    BY <2>2, <2>3
<1> QED
  BY <1>6, <1>7 DEF s

-----------------------------------------------------------------------------
(* What logread finds in the ring. *)

LEMMA RingAssumption == Size \in Nat \ {0} /\ Size \in Nat /\ Size >= 1
BY SyslogAssumption

\* While nobody stores, syslogd is at the beginning of a message.
LEMMA AtBoundary ==
  ASSUME SyslogTypes, Storing, wst # "storing"
  PROVE  Incoming = <<Stored + 1, 1>> /\ Begun = Stored /\ Stored \in Nat /\ Stored <= Len(lens)
<1>0. Len(lens) \in Nat
  BY DEF SyslogTypes
<1>1. CASE wst = "semdown"
  <2>1. Len(lens) \in 1 .. Len(lens)
    BY <1>0, <1>1 DEF Storing
  <2>2. LastLength \in 2 .. Size /\ LastLength \in Nat
    BY <2>1, LengthsOfMessages DEF LastLength
  <2>3. Len(msg) = LastLength /\ msg # <<>>
    BY <1>1, <2>2 DEF Storing
  <2>4. msg[1] = Byte(Len(lens), LastLength - Len(msg) + 1, LastLength)
    BY <1>1, <2>2, <2>3 DEF Storing
  <2>5. msg[1] = <<Len(lens), 1>>
    BY <2>2, <2>3, <2>4 DEF Byte
  <2> QED
    BY <2>1, <2>3, <2>5, <1>1, <1>0 DEF Incoming, Begun, Stored
<1>2. CASE wst # "semdown"
  BY <1>0, <1>2 DEF Storing, Incoming, Begun, Stored
<1> QED
  BY <1>1, <1>2

\* The newest byte is the NUL of the last message, if any was stored.
LEMMA Newest ==
  ASSUME SyslogTypes, Storing, Ring, wst # "storing"
  PROVE  data[Before(tail)] \in {Cleared, <<Stored, 0>>} /\ IsNul(data[Before(tail)])
<1> DEFINE b == data[Before(tail)]
<1>1. Incoming = <<Stored + 1, 1>> /\ Stored \in Nat
  BY AtBoundary
<1>2. Before(tail) \in 0 .. Size - 1
  BY RingAssumption DEF SyslogTypes, Before
<1>3. Known(b, Begun)
  BY <1>2 DEF Ring
<1>4. b # Cleared => <<Stored + 1, 1>> = Succ(b)
  BY <1>1 DEF Ring
<1> HIDE DEF b
<1>5. CASE b = Cleared
  BY <1>5 DEF Cleared, IsNul, b
<1>6. CASE b # Cleared
  <2>1. b \in Nat \X Nat /\ b[2] \in Nat
    BY <1>6, <1>3 DEF Known, OfMessage
  <2>2. PICK x \in Nat, y \in Nat : b = <<x, y>>
    BY <2>1
  <2>3. ~ IsNul(b) => <<Stored + 1, 1>> = <<x, IF y + 1 = lens[x] THEN 0 ELSE y + 1>>
    BY <1>4, <1>6, <2>2 DEF Succ, Byte
  <2>4. ~ IsNul(b) => 1 = IF y + 1 = lens[x] THEN 0 ELSE y + 1
    BY <2>3
  <2>5. IsNul(b)
    BY <2>4, <2>2 DEF IsNul
  <2>6. y = 0
    BY <2>5, <2>2 DEF IsNul
  <2>7. <<Stored + 1, 1>> = <<x + 1, 1>>
    BY <1>4, <1>6, <2>5, <2>2 DEF Succ
  <2>8. x = Stored
    BY <2>7, <1>1
  <2> QED
    BY <2>2, <2>5, <2>6, <2>8 DEF b
<1> QED
  BY <1>5, <1>6

\* strlen stops at a NUL, for the byte behind the ring is one.
LEMMA EndOfString ==
  ASSUME SyslogTypes, NEW c \in 0 .. Size - 1
  PROVE  LET e == StringEnd(c)
         IN  /\ e \in c .. Size /\ IsNul(data[e])
             /\ \A j \in c .. e - 1 : ~ IsNul(data[j])
<1> DEFINE S == {i \in c .. Size : IsNul(data[i])}
<1>1. S \in SUBSET Nat /\ Size \in S
  BY RingAssumption DEF SyslogTypes, IsNul, Cleared
<1>2. \E n \in S : \A m \in S : n <= m
  <2> HIDE DEF S
  <2> QED
    BY <1>1, Least
<1>3. PICK n \in S : \A m \in S : n <= m
  BY <1>2
<1>4. \A j \in c .. n - 1 : ~ IsNul(data[j])
  <2> TAKE j \in c .. n - 1
  <2>1. j \in c .. Size /\ ~ (n <= j)
    BY RingAssumption
  <2> QED
    BY <2>1, <1>3
<1>5. \E i \in c .. Size : IsNul(data[i]) /\ \A j \in c .. i - 1 : ~ IsNul(data[j])
  BY <1>3, <1>4
<1> QED
  BY <1>5 DEF StringEnd

\* A dump begins behind a NUL, and with the tail only if there is no other.
LEMMA OldestBehind ==
  ASSUME SyslogTypes, Storing, Ring, wst # "storing", size = Size, NEW c \in 0 .. Size - 1
  PROVE  \E x \in 0 .. Size - 1 :
           /\ IsNul(data[x]) /\ Oldest(c) = After(x)
           /\ c = tail /\ x = Before(tail) => \A j \in 0 .. Size - 1 : j # x => ~ IsNul(data[j])
<1>0. tail \in 0 .. Size - 1 /\ Size \in Nat /\ Size >= 1
  BY RingAssumption DEF SyslogTypes
<1> DEFINE e == StringEnd(c)
           first == StringEnd(0)
<1>2. /\ e \in c .. Size /\ IsNul(data[e])
      /\ \A j \in c .. e - 1 : ~ IsNul(data[j])
  BY EndOfString
<1>3. /\ first \in 0 .. Size /\ IsNul(data[first])
      /\ \A j \in 0 .. first - 1 : ~ IsNul(data[j])
  <2>1. 0 \in 0 .. Size - 1
    BY <1>0
  <2> QED
    BY <2>1, EndOfString
<1> HIDE DEF e, first
<1>4. CASE e < Size
  <2>1. e \in 0 .. Size - 1
    BY <1>2, <1>4, <1>0
  <2>2. Oldest(c) = After(e)
    BY <2>1, <1>4, <1>0 DEF Oldest, After, e
  <2>3. ASSUME c = tail, e = Before(tail), NEW j \in 0 .. Size - 1, j # e
        PROVE  ~ IsNul(data[j])
    <3>1. tail = 0 /\ e = Size - 1
      BY <2>3, <1>0, <1>2 DEF Before
    <3>2. j \in c .. e - 1
      BY <3>1, <2>3, <1>0
    <3> QED
      BY <3>2, <1>2
  <2> QED
    BY <2>1, <2>2, <2>3, <1>2
<1>5. CASE ~ (e < Size)
  <2>1. e = Size
    BY <1>2, <1>5, <1>0
  <2>2. ~ IsNul(data[Size - 1])
    BY <2>1, <1>2, <1>0
  <2>3. IsNul(data[Before(tail)])
    BY Newest
  <2>4. tail # 0
    BY <2>2, <2>3 DEF Before
  <2>5. IsNul(data[tail - 1]) /\ tail - 1 \in 0 .. Size - 1
    BY <2>3, <2>4, <1>0 DEF Before
  <2>6. first <= tail - 1
    <3> SUFFICES ASSUME tail - 1 < first PROVE FALSE
      BY <1>0, <1>3
    <3>1. tail - 1 \in 0 .. first - 1
      BY <2>5, <1>3, <1>0
    <3> QED
      BY <3>1, <2>5, <1>3
  <2>7. first \in 0 .. Size - 1 /\ ~ (first >= tail)
    BY <2>6, <1>3, <1>0
  <2>8. Oldest(c) = After(first)
    BY <2>7, <1>5, <1>0 DEF Oldest, After, e, first
  <2>9. ASSUME c = tail, first = Before(tail), NEW j \in 0 .. Size - 1, j # first
        PROVE  ~ IsNul(data[j])
    <3>1. first = tail - 1
      BY <2>4, <2>9 DEF Before
    <3>2. j \in 0 .. first - 1 \/ j \in c .. e - 1
      BY <3>1, <2>1, <2>9, <1>0
    <3> QED
      BY <3>2, <1>2, <1>3
  <2> QED
    BY <2>7, <2>8, <2>9, <1>3
<1> QED
  BY <1>4, <1>5

\* A dump begins where a message does, where nothing was stored yet, or at
\* the tail, if the ring is at the end of a message.
LEMMA DumpBegins ==
  ASSUME SyslogTypes, Storing, Ring, wst # "storing", size = Size, NEW c \in 0 .. Size - 1
  PROVE  /\ Oldest(c) \in 0 .. Size - 1
         /\ Oldest(c) = tail \/ data[Oldest(c)] = Cleared \/ data[Oldest(c)][2] = 1
<1>1. PICK x \in 0 .. Size - 1 : IsNul(data[x]) /\ Oldest(c) = After(x)
  BY OldestBehind
<1>2. After(x) \in 0 .. Size - 1
  BY RingAssumption DEF After
<1>3. After(x) # tail => Link(data[x], data[After(x)])
  BY DEF Ring
<1> QED
  BY <1>1, <1>2, <1>3 DEF Link, Succ

\* Behind the last message there is a NUL, unless it fills the ring: the ring
\* read backwards from the tail shows it from its last byte to its first.
LEMMA NewestMessage ==
  ASSUME SyslogTypes, Storing, Ring, wst # "storing",
         data[Before(tail)] # Cleared, lens[Stored] # Size
  PROVE  \E p \in 0 .. Size - 1 : p # Before(tail) /\ IsNul(data[p])
<1>0. tail \in 0 .. Size - 1 /\ Size \in Nat /\ Size >= 1
  BY RingAssumption DEF SyslogTypes
<1>1. PICK m \in Nat, L \in Nat :
        m = Stored /\ L = lens[m] /\ L >= 2 /\ L < Size /\ data[Before(tail)] = <<m, 0>>
  <2>1. Begun = Stored /\ Stored \in Nat /\ Stored <= Len(lens) /\ Len(lens) \in Nat
    BY AtBoundary DEF SyslogTypes
  <2>2. data[Before(tail)] = <<Stored, 0>>
    BY Newest
  <2>3. Before(tail) \in 0 .. Size - 1
    BY <1>0 DEF Before
  <2>4. OfMessage(data[Before(tail)], Stored)
    BY <2>1, <2>3 DEF Ring, Known
  <2>5. Stored \in 1 .. Len(lens)
    BY <2>1, <2>2, <2>4 DEF OfMessage
  <2>6. lens[Stored] \in 2 .. Size /\ lens[Stored] \in Nat
    BY <2>5, LengthsOfMessages
  <2> QED
    BY <2>1, <2>2, <2>6, <1>0
<1> DEFINE q(k) == IF tail - 1 - k >= 0 THEN tail - 1 - k ELSE tail - 1 - k + Size
           S == {k \in Nat : k < L => data[q(k)] = <<m, IF k = 0 THEN 0 ELSE L - k>>}
<1>2. \A k \in 0 .. Size - 1 : q(k) \in 0 .. Size - 1
  BY <1>0
<1>3. \A k \in 0 .. Size - 2 : After(q(k + 1)) = q(k) /\ q(k) # tail
  BY <1>0 DEF After
<1>4. q(0) = Before(tail) /\ \A k \in 1 .. Size - 1 : q(k) # Before(tail)
  BY <1>0 DEF Before
\* The byte before one that is linked to it.
<1>5. ASSUME NEW k \in 0 .. Size - 2
      PROVE  LET b == data[q(k + 1)] IN
             /\ b = Cleared \/ OfMessage(b, Begun)
             /\ Link(b, data[q(k)])
  <2> HIDE DEF q
  <2>1. k + 1 \in 0 .. Size - 1 /\ k \in 0 .. Size - 1
    BY <1>0
  <2>2. q(k + 1) \in 0 .. Size - 1 /\ After(q(k + 1)) = q(k) /\ q(k) # tail
    BY <2>1, <1>2, <1>3
  <2> QED
    BY <2>2 DEF Ring, Known
<1> HIDE DEF q
<1>6. S = Nat
  <2>1. 0 \in S
    BY <1>1, <1>4
  <2>2. \A k \in S : k + 1 \in S
    <3> TAKE k \in S
    <3>0. k \in Nat
      OBVIOUS
    <3>1. CASE ~ (k + 1 < L)
      BY <3>1
    <3>2. CASE k + 1 < L
      <4>1. k \in 0 .. Size - 2 /\ k < L
        BY <3>0, <3>2, <1>0, <1>1
      <4>2. PICK d \in Nat : d = (IF k = 0 THEN 0 ELSE L - k) /\ d # 1 /\ data[q(k)] = <<m, d>>
        BY <3>2, <4>1, <1>1
      <4>3. PICK b : b = data[q(k + 1)]
        OBVIOUS
      <4>4. (b = Cleared \/ OfMessage(b, Begun)) /\ Link(b, <<m, d>>)
        BY <4>1, <4>2, <4>3, <1>5
      <4>5. b # Cleared
        BY <4>2, <4>4, <3>2, <1>1 DEF Link, Cleared, OfMessage, Known
      <4>6. PICK x \in Nat, j \in Nat : b = <<x, j>>
        BY <4>4, <4>5 DEF OfMessage
      <4>7. <<m, d>> = IF j = 0 THEN <<x + 1, 1>> ELSE <<x, IF j + 1 = lens[x] THEN 0 ELSE j + 1>>
        BY <4>4, <4>5, <4>6 DEF Link, Succ, IsNul, Byte
      <4>8. j # 0 /\ x = m /\ d = IF j + 1 = L THEN 0 ELSE j + 1
        BY <4>2, <4>7, <1>1
      <4>9. j = L - (k + 1)
        BY <4>2, <4>8, <3>0, <3>2, <1>1
      <4>10. data[q(k + 1)] = <<m, L - (k + 1)>> /\ k + 1 # 0 /\ k + 1 \in Nat
        BY <4>3, <4>6, <4>8, <4>9, <3>0
      <4> QED
        BY <4>10
    <3> QED
      BY <3>1, <3>2
  <2> HIDE DEF S
  <2>3. S \in SUBSET Nat
    BY DEF S
  <2> QED
    BY <2>1, <2>2, <2>3, NatSetInduction
<1>7. data[q(L - 1)] = <<m, 1>>
  <2>0. L \in Nat /\ L >= 2
    BY <1>1
  <2>1. PICK k \in Nat : k = L - 1 /\ k < L /\ k # 0 /\ L - k = 1
    BY ONLY <2>0
  <2>2. k \in S
    BY <1>6
  <2> QED
    BY <2>1, <2>2
<1>8. IsNul(data[q(L)]) /\ q(L) \in 0 .. Size - 1 /\ q(L) # Before(tail)
  <2>1. L - 1 \in 0 .. Size - 2 /\ (L - 1) + 1 = L /\ L \in 0 .. Size - 1 /\ L \in 1 .. Size - 1
    BY <1>0, <1>1
  <2>2. PICK b : b = data[q(L)]
    OBVIOUS
  <2>3. (b = Cleared \/ OfMessage(b, Begun)) /\ Link(b, <<m, 1>>)
    BY <2>1, <2>2, <1>5, <1>7
  <2>4. IsNul(b)
    <3> SUFFICES ASSUME ~ IsNul(b) PROVE FALSE
      OBVIOUS
    <3>1. b # Cleared
      BY DEF Cleared, IsNul
    <3>2. PICK x \in Nat, j \in Nat : b = <<x, j>>
      BY <2>3, <3>1 DEF OfMessage
    <3>3. j # 0
      BY <3>2 DEF IsNul
    <3>4. <<m, 1>> = <<x, IF j + 1 = lens[x] THEN 0 ELSE j + 1>>
      BY <2>3, <3>1, <3>2, <3>3 DEF Link, Succ, IsNul, Byte
    <3> QED
      BY <3>3, <3>4
  <2> QED
    BY <2>1, <2>2, <2>4, <1>2, <1>4
<1> QED
  BY <1>8

\* What is copied from a position to the tail.
LEMMA BytesAreLinked ==
  ASSUME SyslogTypes, Storing, Ring, wst # "storing", size = Size, NEW s \in 0 .. Size - 1
  PROVE  LET c == Bytes(s)
         IN  /\ c \in Seq(Nat \X Nat)
             /\ \A i \in 1 .. Len(c) : Known(c[i], Stored)
             /\ \A i \in 1 .. Len(c) - 1 : Link(c[i], c[i + 1])
             /\ c = <<>> <=> s = tail
             /\ c # <<>> => c[1] = data[s] /\ c[Len(c)] \in {Cleared, <<Stored, 0>>}
             /\ c # <<>> => c[Len(c)] = data[Before(tail)]
             /\ s # tail /\ s # Before(tail) => Len(c) >= 2
<1> DEFINE L == IF s <= tail THEN tail - s ELSE (Size - s) + tail
           pos(k) == IF s + k - 1 < Size THEN s + k - 1 ELSE s + k - 1 - Size
           c == Bytes(s)
<1>0. tail \in 0 .. Size - 1 /\ Size \in Nat /\ Size >= 1
  BY RingAssumption DEF SyslogTypes
<1>1. L \in Nat /\ (L = 0 <=> s = tail)
  BY <1>0
<1>l. s # tail /\ s # Before(tail) => L >= 2
  BY <1>0 DEF Before
<1>2. c = [k \in 1 .. L |-> data[pos(k)]]
  <2>1. CASE s <= tail
    <3>1. c = [k \in 1 .. tail - s |-> data[s + k - 1]]
      BY <2>1 DEF Bytes
    <3>2. \A k \in 1 .. tail - s : pos(k) = s + k - 1
      BY <1>0
    <3>3. L = tail - s
      BY <2>1
    <3> HIDE DEF c, pos, L
    <3> QED
      BY <3>1, <3>2, <3>3
  <2>2. CASE ~ (s <= tail)
    <3>1. c = [k \in 1 .. (Size - s) + tail |-> IF k <= Size - s THEN data[s + k - 1] ELSE data[k - (Size - s) - 1]]
      BY <2>2 DEF Bytes
    <3>2. \A k \in 1 .. (Size - s) + tail :
            data[pos(k)] = IF k <= Size - s THEN data[s + k - 1] ELSE data[k - (Size - s) - 1]
      <4> TAKE k \in 1 .. (Size - s) + tail
      <4>1. CASE k <= Size - s
        BY <4>1, <1>0
      <4>2. CASE ~ (k <= Size - s)
        <5>1. pos(k) = k - (Size - s) - 1
          BY <4>2, <1>0
        <5> QED
          BY <5>1, <4>2
      <4> QED
        BY <4>1, <4>2
    <3>3. L = (Size - s) + tail
      BY <2>2
    <3> HIDE DEF c, pos, L
    <3> QED
      BY <3>1, <3>2, <3>3
  <2> QED
    BY <2>1, <2>2
<1>3. \A k \in 1 .. L : pos(k) \in 0 .. Size - 1
  BY <1>0
<1>4. \A k \in 1 .. L - 1 : After(pos(k)) = pos(k + 1) /\ pos(k + 1) # tail
  <2> TAKE k \in 1 .. L - 1
  <2>1. CASE s <= tail
    BY <2>1, <1>0 DEF After
  <2>2. CASE ~ (s <= tail)
    BY <2>2, <1>0 DEF After
  <2> QED
    BY <2>1, <2>2
<1>5. L > 0 => pos(1) = s /\ pos(L) = Before(tail)
  <2> HAVE L > 0
  <2>1. CASE s <= tail
    BY <2>1, <1>0 DEF Before
  <2>2. CASE ~ (s <= tail)
    BY <2>2, <1>0 DEF Before
  <2> QED
    BY <2>1, <2>2
<1> HIDE DEF L, pos, c
<1>6. Begun = Stored /\ Stored \in Nat /\ Stored <= Len(lens)
  BY AtBoundary
<1>7. \A p \in 0 .. Size - 1 : data[p] \in Nat \X Nat /\ Known(data[p], Stored)
  <2> TAKE p \in 0 .. Size - 1
  <2>1. Known(data[p], Stored)
    BY <1>6 DEF Ring
  <2> QED
    BY <2>1 DEF Known, OfMessage, Cleared
<1>8. c \in [1 .. L -> Nat \X Nat]
  BY <1>2, <1>3, <1>7
<1>9. c \in Seq(Nat \X Nat) /\ Len(c) = L
  BY <1>1, <1>8
<1>10. \A i \in 1 .. L : c[i] = data[pos(i)]
  BY <1>2
<1>11. \A i \in 1 .. L : Known(c[i], Stored)
  BY <1>10, <1>3, <1>7
<1>12. \A i \in 1 .. L - 1 : Link(c[i], c[i + 1])
  <2> TAKE i \in 1 .. L - 1
  <2>1. i \in 1 .. L /\ i + 1 \in 1 .. L
    BY <1>1
  <2>2. pos(i) \in 0 .. Size - 1 /\ After(pos(i)) = pos(i + 1) /\ After(pos(i)) # tail
    BY <2>1, <1>3, <1>4
  <2>3. Link(data[pos(i)], data[pos(i + 1)])
    BY <2>2 DEF Ring
  <2> QED
    BY <2>1, <2>3, <1>10
<1>13. c = <<>> <=> s = tail
  BY <1>1, <1>9
<1>14. c # <<>> => c[1] = data[s] /\ c[L] = data[Before(tail)]
  <2> HAVE c # <<>>
  <2>1. L > 0 /\ 1 \in 1 .. L /\ L \in 1 .. L
    BY <1>1, <1>9
  <2> QED
    BY <2>1, <1>5, <1>10
<1>15. data[Before(tail)] \in {Cleared, <<Stored, 0>>}
  BY Newest
<1> QED
  BY <1>9, <1>11, <1>12, <1>13, <1>14, <1>15, <1>l DEF c

\* If something is stored and does not fill the ring, a dump shows it.
LEMMA DumpShows ==
  ASSUME SyslogTypes, Storing, Ring, wst # "storing", size = Size,
         data[Before(tail)] # Cleared, lens[Stored] # Size
  PROVE  LET c == Bytes(Oldest(tail))
         IN  Len(c) >= 2 /\ c[Len(c)] # Cleared
<1>0. tail \in 0 .. Size - 1 /\ Size \in Nat /\ Size >= 1
  BY RingAssumption DEF SyslogTypes
<1>1. PICK x \in 0 .. Size - 1 :
        /\ IsNul(data[x]) /\ Oldest(tail) = After(x)
        /\ x = Before(tail) => \A j \in 0 .. Size - 1 : j # x => ~ IsNul(data[j])
  BY <1>0, OldestBehind
<1>2. After(x) \in 0 .. Size - 1
  BY <1>0 DEF After
<1>3. After(x) # tail
  <2>1. x # Before(tail)
    BY <1>1, NewestMessage
  <2> QED
    BY <2>1, <1>0 DEF After, Before
<1>4. After(x) # Before(tail)
  <2> SUFFICES ASSUME After(x) = Before(tail) PROVE FALSE
    OBVIOUS
  <2>1. Link(data[x], data[Before(tail)])
    BY <1>3 DEF Ring
  <2>2. data[Before(tail)] = <<Stored, 0>>
    BY Newest
  <2> QED
    BY <2>1, <2>2, <1>1 DEF Link, Succ
<1>5. PICK c : c = Bytes(After(x))
  OBVIOUS
<1>6. /\ c \in Seq(Nat \X Nat)
      /\ c # <<>> => c[Len(c)] = data[Before(tail)]
      /\ Len(c) >= 2
  BY <1>2, <1>3, <1>4, <1>5, BytesAreLinked
<1>7. c # <<>>
  BY <1>6
<1> QED
  BY <1>1, <1>5, <1>6, <1>7

-----------------------------------------------------------------------------
(* What a step leaves alone. *)

\* The messages that are stored stay what they are.
LogKept ==
  /\ Stored' \in Nat /\ Stored <= Stored'
  /\ \A m \in 1 .. Stored : lens'[m] = lens[m]

\* The ring and what is stored in it next stay as they are.
RingKept == UNCHANGED <<data, tail>> /\ Incoming' = Incoming

\* Reader r stays where it is; syslogd may count the bytes it stores.
PlaceKept(r) ==
  /\ rst'[r] = rst[r] /\ follow'[r] = follow[r] /\ cur'[r] = cur[r]
  /\ copy'[r] = copy[r] /\ out'[r] = out[r]
  /\ seen'[r].from = seen[r].from /\ seen'[r].upto = seen[r].upto
  /\ seen'[r].torn = seen[r].torn /\ seen'[r].dump = seen[r].dump
  /\ seen'[r].lapped = seen[r].lapped
  /\ seen[r].restarted => seen'[r].restarted

LEMMA StoredIsNat ==
  ASSUME SyslogTypes, Storing
  PROVE  Stored \in Nat /\ Stored <= Len(lens)
BY DEF SyslogTypes, Storing, Stored

\* A known byte and the one behind it stay known and linked.
LEMMA KnownKept ==
  ASSUME SyslogTypes, Storing, LogKept, NEW n \in Nat, n <= Stored, NEW b, Known(b, n)
  PROVE  /\ Known(b, n)'
         /\ Known(b, Stored)'
         /\ \A c : Link(b, c) => Link(b, c)'
<1>1. Stored \in Nat /\ n \in Nat /\ n <= Stored
  BY StoredIsNat
<1>2. CASE b = Cleared
  BY <1>2 DEF Known, Link, Cleared
<1>3. CASE b # Cleared
  <2>1. b \in Nat \X Nat /\ b[1] \in 1 .. n /\ b[2] \in 0 .. lens[b[1]] - 1
    BY <1>3 DEF Known, OfMessage
  <2>2. lens'[b[1]] = lens[b[1]] /\ b[1] \in 1 .. Stored'
    BY <2>1, <1>1 DEF LogKept
  <2> QED
    BY <2>1, <2>2, <1>3 DEF Known, OfMessage, Link, Succ, IsNul, Byte, Cleared
<1> QED
  BY <1>2, <1>3

LEMMA CopiedKept ==
  ASSUME SyslogTypes, Storing, LogKept, NEW r \in Readers, PlaceKept(r), Copied(r),
         seen[r].upto <= Stored
  PROVE  Copied(r)'
<1>0. seen[r].upto \in Nat
  BY DEF SyslogTypes, Views
<1>u. PICK n \in Nat : n = seen[r].upto
  BY <1>0
<1>a. PICK c : c = copy[r]
  OBVIOUS
<1>1. /\ c \in Seq(Nat \X Nat)
      /\ \A i \in 1 .. Len(c) : Known(c[i], n)
      /\ \A i \in 1 .. Len(c) - 1 : Link(c[i], c[i + 1])
  BY <1>a, <1>u DEF Copied
<1>2. copy'[r] = c /\ seen'[r].upto = n
  BY <1>a, <1>u DEF PlaceKept
<1>3. LastPrinted(r)' = LastPrinted(r)
  BY DEF PlaceKept, LastPrinted, Printed, MessageOf
<1>4. /\ c # <<>> => /\ c[1] = Cleared \/ c[1][2] = 1 \/ (out'[r] = <<>> /\ seen'[r].torn)
                     /\ c[Len(c)] \in {Cleared, <<seen'[r].upto, 0>>}
      /\ IF out'[r] = <<>>
         THEN Dumped(r)' \/ (c # <<>> /\ Begins(r, c[1])' /\ seen'[r].dump # "due")
         ELSE c # <<>> /\ c[1] = <<LastPrinted(r) + 1, 1>>
  BY <1>a DEF Copied, PlaceKept, Dumped, Begins
<1>5. \A i \in 1 .. Len(c) : Known(c[i], n)'
  BY <1>1, <1>u, KnownKept
<1>6. \A i \in 1 .. Len(c) - 1 : Link(c[i], c[i + 1])'
  <2> TAKE i \in 1 .. Len(c) - 1
  <2>1. i \in 1 .. Len(c)
    BY <1>1
  <2>2. Known(c[i], n) /\ Link(c[i], c[i + 1])
    BY <2>1, <1>1
  <2> QED
    BY <2>2, <1>u, KnownKept
<1>7. (\A i \in 1 .. Len(copy[r]) : Known(copy[r][i], seen[r].upto))'
  BY <1>2, <1>5
<1>8. (\A i \in 1 .. Len(copy[r]) - 1 : Link(copy[r][i], copy[r][i + 1]))'
  BY <1>2, <1>6
<1> QED
  BY <1>1, <1>2, <1>3, <1>4, <1>7, <1>8 DEF Copied

LEMMA OutputKept ==
  ASSUME SyslogTypes, Storing, LogKept, NEW r \in Readers,
         out'[r] = out[r], seen'[r].torn = seen[r].torn, Output(r),
         out[r] # <<>> => seen'[r].from = seen[r].from /\ seen'[r].dump = seen[r].dump,
         rst'[r] \in {"semdown", "locked", "sleep", "done"} =>
           IF out[r] # <<>> THEN LastPrinted(r) = seen'[r].upto ELSE Nothing(r)'
  PROVE  Output(r)'
<1>0. Stored \in Nat
  BY StoredIsNat
<1>1. Printed(r)' = Printed(r) /\ LastPrinted(r)' = LastPrinted(r)
  BY DEF LastPrinted, Printed, MessageOf
<1>2. out[r] \in Seq(Seq(Nat \X Nat)) /\ Len(out[r]) \in Nat
  BY DEF Output
<1>3. \A k \in 1 .. Len(out[r]) : Printed(r)[k] \in 1 .. Stored'
  BY <1>0 DEF Output, LogKept
<1>4. \A k \in 1 .. Len(out[r]) : Whole(out[r][k]) => Whole(out[r][k])'
  <2> TAKE k \in 1 .. Len(out[r])
  <2> DEFINE m == MessageOf(out[r][k][1])
  <2>1. Printed(r)[k] = m
    BY <1>2 DEF Printed
  <2>2. m \in 1 .. Stored
    BY <2>1 DEF Output
  <2>3. lens'[m] = lens[m]
    BY <2>2 DEF LogKept
  <2>4. MessageOf(out[r][k][1])' = m
    BY DEF MessageOf
  <2> QED
    BY <2>3, <2>4 DEF Whole, Message, MessageOf
<1>5. \A k \in 1 .. Len(out[r]) : Whole(out[r][k]) \/ (k = 1 /\ seen[r].torn)
  BY DEF Output
<1>6. \A k \in 1 .. Len(out[r]) - 1 : Printed(r)[k + 1] = Printed(r)[k] + 1
  BY DEF Output
<1>7. \A k \in 1 .. Len(out'[r]) : Whole(out[r][k])' \/ (k = 1 /\ seen'[r].torn)
  BY <1>4, <1>5
<1>8. out'[r] # <<>> => First(r)'
  BY <1>1 DEF Output, First
<1> QED
  BY <1>1, <1>2, <1>3, <1>6, <1>7, <1>8 DEF Output

\* A reader that stays where it is keeps its invariant, if it keeps its place
\* in the ring.
LEMMA ReaderKept ==
  ASSUME SyslogTypes, Storing, LogKept, NEW r \in Readers, PlaceKept(r), ReaderInv(r),
         size' = 0 => size = 0 \/ ~ Bound(r)' \/ ~ Live(r)',
         Bound(r)' /\ ~ stuck' => Position(r)' /\ Reading(r)'
  PROVE  ReaderInv(r)'
<1>0. Stored \in Nat
  BY StoredIsNat
<1>1. Bound(r)' => Bound(r)
  BY DEF Bound, PlaceKept
<1>2. Live(r)' <=> Live(r)
  BY DEF Live, PlaceKept
<1>3. seen'[r].upto <= Stored'
  <2>1. seen[r].upto \in Nat
    BY DEF SyslogTypes, Views
  <2> QED
    BY <2>1, <1>0 DEF ReaderInv, LogKept, PlaceKept
<1>4. /\ rst'[r] = "off" \/ (follow'[r] # 1 /\ rst'[r] \in {"semdown", "locked"}) => out'[r] = <<>>
      /\ seen'[r].torn => follow'[r] = 1 /\ seen'[r].dump = "no"
      /\ follow'[r] # 1 => rst'[r] # "sleep"
      /\ rst'[r] = "print" => follow'[r] # 2
      /\ rst'[r] = "off" => copy'[r] = <<>>
  BY DEF ReaderInv, PlaceKept
<1>5. ASSUME Bound(r)'
      PROVE  /\ Live(r)' => size' # 0
             /\ copy'[r] # <<Unset>>
             /\ rst'[r] = "print" => Copied(r)'
             /\ Output(r)'
  <2>1. /\ Live(r) => size # 0
        /\ copy[r] # <<Unset>>
        /\ rst[r] = "print" => Copied(r)
        /\ Output(r)
    BY <1>5, <1>1 DEF ReaderInv
  <2>2. rst'[r] = "print" => Copied(r)'
    BY <2>1, CopiedKept DEF PlaceKept, ReaderInv
  <2>3. Output(r)'
    <3>1. rst'[r] \in {"semdown", "locked", "sleep", "done"} =>
            IF out[r] # <<>> THEN LastPrinted(r) = seen'[r].upto ELSE Nothing(r)'
      BY <2>1 DEF Output, PlaceKept, Nothing
    <3> QED
      BY <2>1, <3>1, OutputKept DEF PlaceKept
  <2>4. Live(r)' => size' # 0
    BY <2>1, <1>2, <1>5
  <2> QED
    BY <2>1, <2>2, <2>3, <2>4 DEF PlaceKept, Unset
<1> QED
  BY <1>3, <1>4, <1>5 DEF ReaderInv

\* Reader r keeps its place while the ring does.
LEMMA PlaceInRing ==
  ASSUME NEW r \in Readers, PlaceKept(r), RingKept, seen'[r].unread = seen[r].unread,
         Position(r), Reading(r)
  PROVE  Position(r)' /\ Reading(r)'
<1>1. InTime(r)' <=> InTime(r)
  BY DEF InTime, Live, PlaceKept
<1>2. Position(r)'
  BY <1>1 DEF Position, PlaceKept, RingKept
<1>3. Pending(r)' = Pending(r)
  BY DEF Pending, PlaceKept, RingKept
<1>4. \A b : Begins(r, b)' <=> Begins(r, b)
  BY DEF Begins, PlaceKept
<1>5. Reading(r)'
  BY <1>1, <1>3, <1>4 DEF Reading, PlaceKept
<1> QED
  BY <1>2, <1>5

\* The steps of logread change nothing of the ring and of syslogd.
LEMMA ReadersLeaveRing ==
  ASSUME SyslogTypes, Storing, ~ stuck => Ring, UNCHANGED ringVars, UNCHANGED writerVars
  PROVE  Storing' /\ (~ stuck' => Ring') /\ LogKept /\ RingKept
<1>1. UNCHANGED <<wst, msg, data, tail, size, lens, stuck, kills>>
  BY DEF ringVars, writerVars
<1>2. Storing'
  BY <1>1 DEF Storing, LastLength, Byte
<1>3. Incoming' = Incoming /\ Begun' = Begun /\ Stored' = Stored
  BY <1>1 DEF Incoming, Begun, Stored
<1>4. Stored \in Nat
  BY StoredIsNat
<1>5. ~ stuck' => Ring'
  BY <1>1, <1>3 DEF Ring, Known, OfMessage, Link, Succ, After, Before, IsNul, Byte, Cleared
<1> QED
  BY <1>1, <1>2, <1>3, <1>4, <1>5 DEF LogKept, RingKept

\* A step of one logread does nothing to the others.
LEMMA OtherReaders ==
  ASSUME SyslogTypes, Storing, ~ stuck => Ring, UNCHANGED ringVars, UNCHANGED writerVars,
         NEW r \in Readers, PlaceKept(r), seen'[r] = seen[r], ReaderInv(r)
  PROVE  ReaderInv(r)'
<1>1. LogKept /\ RingKept
  BY ReadersLeaveRing
<1>2. size' = size /\ stuck' = stuck
  BY DEF ringVars, writerVars
<1>3. Bound(r)' /\ ~ stuck' => Position(r)' /\ Reading(r)'
  <2> HAVE Bound(r)' /\ ~ stuck'
  <2>1. Bound(r)
    BY DEF Bound
  <2>2. Position(r) /\ Reading(r)
    BY <2>1, <1>2 DEF ReaderInv
  <2> QED
    BY <2>2, <1>1, PlaceInRing
<1> QED
  BY <1>1, <1>2, <1>3, ReaderKept

-----------------------------------------------------------------------------
(* The steps of syslogd. *)

LEMMA NobodyInside ==
  ASSUME SyslogTypes
  PROVE  /\ IsFiniteSet(Inside) /\ Cardinality(Inside) \in Nat
         /\ Cardinality(Inside) = 0 <=> Inside = {}
<1>1. Inside \in SUBSET Readers
  BY DEF Inside
<1>2. IsFiniteSet(Inside)
  BY <1>1, SyslogAssumption, FS_Subset
<1> QED
  BY <1>2, FS_CardinalityType, FS_EmptySet

\* What syslogd does outside the ring leaves the ring in order.
LEMMA RingStays ==
  ASSUME SyslogTypes, Storing, Ring, wst # "storing", LogKept, RingKept,
         lens' \in Seq(Lengths), wst' = "semdown" \/ wst' = "storing" => Len(lens') > 0
  PROVE  Ring'
<1>1. Begun = Stored /\ Stored \in Nat /\ Stored <= Stored
  BY AtBoundary
<1>2. Len(lens') \in Nat
  OBVIOUS
<1>3. Stored' \in Nat /\ Begun' \in Nat /\ Stored' <= Begun'
  BY <1>2 DEF Stored, Begun
<1>4. \A p \in 0 .. Size - 1 : Known(data[p], Stored)
  BY <1>1 DEF Ring
<1>5. data' = data /\ tail' = tail /\ Incoming' = Incoming
  BY DEF RingKept
<1>6. ASSUME NEW b, Known(b, Stored) PROVE Known(b, Begun)'
  <2>1. Known(b, Stored)'
    BY <1>1, <1>6, KnownKept
  <2> QED
    BY <2>1, <1>3 DEF Known, OfMessage
<1>7. ASSUME NEW b, NEW c, Known(b, Stored), Link(b, c) PROVE Link(b, c)'
  BY <1>1, <1>7, KnownKept
<1>8. (\A p \in 0 .. Size - 1 : Known(data[p], Begun))'
  <2>1. \A p \in 0 .. Size - 1 : Known(data[p], Begun)'
    <3> TAKE p \in 0 .. Size - 1
    <3>1. PICK b : b = data[p]
      OBVIOUS
    <3>2. Known(b, Begun)' /\ data'[p] = b
      BY <3>1, <1>4, <1>5, <1>6
    <3> QED
      BY <3>2
  <2> QED
    BY <2>1
<1>9. \A p \in 0 .. Size - 1 : After(p) \in 0 .. Size - 1
  BY RingAssumption DEF After
<1>10. \A p \in 0 .. Size - 1 : After(p) # tail =>
         /\ Link(data[p], data[After(p)])'
         /\ data'[p] = Cleared /\ After(p) # 0 => data'[After(p)] = Cleared
  <2> TAKE p \in 0 .. Size - 1
  <2> HAVE After(p) # tail
  <2>1. Link(data[p], data[After(p)]) /\ (data[p] = Cleared /\ After(p) # 0 => data[After(p)] = Cleared)
    BY DEF Ring
  <2>2. PICK q : q = After(p)
    OBVIOUS
  <2>3. PICK b, c : b = data[p] /\ c = data[q]
    OBVIOUS
  <2>4. Link(b, c)'
    BY <2>1, <2>2, <2>3, <1>4, <1>7
  <2>5. data'[p] = b /\ data'[q] = c
    BY <2>3, <1>5
  <2>6. After(p)' = q
    BY <2>2 DEF After
  <2>7. Link(data[p], data[q])'
    BY <2>4, <2>5
  <2>8. Link(data[p], data[After(p)])'
    BY <2>6, <2>7
  <2> QED
    BY <2>1, <2>2, <2>8, <1>5
<1>11. (\A p \in 0 .. Size - 1 : After(p) # tail =>
          /\ Link(data[p], data[After(p)])
          /\ data[p] = Cleared /\ After(p) # 0 => data[After(p)] = Cleared)'
  <2>1. \A p \in 0 .. Size - 1 : After(p) # tail' =>
         /\ Link(data[p], data[After(p)])'
         /\ data'[p] = Cleared /\ After(p) # 0 => data'[After(p)] = Cleared
    BY <1>10, <1>5
  <2> QED
    BY <2>1 DEF After
<1>12. IF data'[Before(tail)'] = Cleared THEN tail' = 0 /\ Incoming'[2] = 1
       ELSE Incoming' = Succ(data[Before(tail)])'
  <2>1. Before(tail)' = Before(tail) /\ Before(tail) \in 0 .. Size - 1
    BY <1>5, RingAssumption DEF Before, SyslogTypes
  <2>2. PICK b : b = data[Before(tail)]
    OBVIOUS
  <2>3. IF b = Cleared THEN tail = 0 /\ Incoming[2] = 1 ELSE Incoming = Succ(b)
    BY <2>2 DEF Ring
  <2>4. data'[Before(tail)'] = b
    BY <2>1, <2>2, <1>5
  <2>5. b # Cleared => Succ(b)' = Succ(b)
    <3> HAVE b # Cleared
    <3>1. Link(b, Succ(b))
      BY DEF Link
    <3>2. PICK c : c = Succ(b)
      OBVIOUS
    <3>3. Link(b, c)'
      BY <3>1, <3>2, <2>1, <2>2, <1>4, <1>7
    <3> QED
      BY <3>2, <3>3 DEF Link
  <2> QED
    BY <2>3, <2>4, <2>5, <1>5
<1> QED
  BY <1>8, <1>11, <1>12 DEF Ring

\* ... and the readers where they are.
LEMMA ReadersStay ==
  ASSUME SyslogTypes, Storing, LogKept, UNCHANGED readerVars, seen' = seen,
         ~ stuck' => ~ stuck /\ RingKept, size' = 0 => size = 0,
         NEW r \in Readers, ReaderInv(r)
  PROVE  ReaderInv(r)'
<1>1. PlaceKept(r) /\ seen'[r] = seen[r]
  BY DEF readerVars, PlaceKept
<1>2. Bound(r)' /\ ~ stuck' => Position(r)' /\ Reading(r)'
  <2> HAVE Bound(r)' /\ ~ stuck'
  <2>1. Bound(r) /\ ~ stuck
    BY DEF Bound
  <2>2. Position(r) /\ Reading(r)
    BY <2>1 DEF ReaderInv
  <2> QED
    BY <2>2, <1>1, PlaceInRing
<1> QED
  BY <1>1, <1>2, ReaderKept

LEMMA LogMessageStep ==
  ASSUME SyslogInv, LogMessage
  PROVE  SyslogInv'
<1> PICK len \in Lengths : msg' = Message(Len(lens) + 1, len) /\ lens' = Append(lens, len)
  BY DEF LogMessage
<1>0. /\ SyslogTypes /\ Locking /\ Storing
      /\ ~ stuck => Ring
      /\ \A r \in Readers : ReaderInv(r)
      /\ wst = "idle" /\ wst' = "semdown" /\ Len(lens) < MaxMessages
      /\ UNCHANGED <<kills, stuck, sem, seen>> /\ UNCHANGED ringVars /\ UNCHANGED readerVars
  BY DEF SyslogInv, LogMessage
<1>1. len \in Nat /\ len >= 2 /\ len <= Size /\ Len(lens) \in Nat
  BY <1>0, SyslogAssumption DEF SyslogTypes
<1>2. /\ lens' \in Seq(Lengths) /\ Len(lens') = Len(lens) + 1 /\ lens'[Len(lens) + 1] = len
      /\ \A m \in 1 .. Len(lens) : lens'[m] = lens[m]
  BY <1>0, AppendProperties DEF SyslogTypes
<1>3. /\ msg' \in Seq(Nat \X Nat) /\ Len(msg') = len
      /\ \A i \in 1 .. len : msg'[i] = Byte(Len(lens) + 1, i, len)
  <2>1. \A i \in 1 .. len : Byte(Len(lens) + 1, i, len) \in Nat \X Nat
    BY <1>1 DEF Byte
  <2>2. msg' = [i \in 1 .. len |-> Byte(Len(lens) + 1, i, len)]
    BY DEF Message
  <2>3. msg' \in [1 .. len -> Nat \X Nat]
    BY <2>1, <2>2
  <2> QED
    BY <2>2, <2>3, <1>1
<1>4. SyslogTypes'
  <2>1. Len(lens') <= MaxMessages
    BY <1>0, <1>1, <1>2, SyslogAssumption
  <2> QED
    BY <1>0, <1>2, <1>3, <2>1 DEF SyslogTypes, ringVars, readerVars
<1>5. Locking'
  BY <1>0 DEF Locking, Inside, Writing, readerVars
<1>6. Storing'
  <2>1. LastLength' = len /\ Len(lens') > 0
    BY <1>1, <1>2 DEF LastLength
  <2>2. \A i \in 1 .. Len(msg') : msg'[i] = Byte(Len(lens'), LastLength' - Len(msg') + i, LastLength')
    <3> TAKE i \in 1 .. Len(msg')
    <3>1. i \in 1 .. len /\ len - len + i = i
      BY <1>1, <1>3
    <3>2. msg'[i] = Byte(Len(lens) + 1, i, len)
      BY <3>1, <1>3
    <3> QED
      BY <3>1, <3>2, <2>1, <1>2, <1>3
  <2>3. size' # 0 /\ wst' = "semdown"
    BY <1>0 DEF ringVars, Storing
  <2>4. (\A i \in 1 .. Len(msg) : msg[i] = Byte(Len(lens), LastLength - Len(msg) + i, LastLength))'
    BY <2>2 DEF Byte
  <2>5. Len(msg') = LastLength' /\ Len(msg') <= LastLength'
    BY <2>1, <1>3, <1>1
  <2> QED
    BY <2>1, <2>3, <2>4, <2>5 DEF Storing
<1>7. LogKept
  BY <1>0, <1>1, <1>2 DEF LogKept, Stored
<1>8. RingKept
  <2>1. Incoming = <<Len(lens) + 1, 1>>
    BY <1>0 DEF Storing, Incoming
  <2>2. msg' # <<>> /\ msg'[1] = <<Len(lens) + 1, 1>>
    BY <1>1, <1>3 DEF Byte
  <2> QED
    BY <1>0, <2>1, <2>2 DEF RingKept, ringVars, Incoming
<1>9. ~ stuck' => Ring'
  BY <1>0, <1>1, <1>2, <1>7, <1>8, RingStays
<1>10. \A r \in Readers : ReaderInv(r)'
  BY <1>0, <1>7, <1>8, ReadersStay DEF ringVars
<1> QED
  BY <1>4, <1>5, <1>6, <1>9, <1>10 DEF SyslogInv

LEMMA WriterLockStep ==
  ASSUME SyslogInv, WriterLock
  PROVE  SyslogInv'
<1>0. /\ SyslogTypes /\ Locking /\ Storing
      /\ ~ stuck => Ring
      /\ \A r \in Readers : ReaderInv(r)
      /\ wst = "semdown" /\ wst' = "storing"
      /\ sem.readers = 0 /\ sem.writer = 0 /\ sem' = [sem EXCEPT !.writer = 1]
      /\ UNCHANGED <<msg, lens, kills, stuck, seen>> /\ UNCHANGED ringVars /\ UNCHANGED readerVars
  BY DEF SyslogInv, WriterLock
<1>1. Len(lens) \in Nat
  BY <1>0 DEF SyslogTypes
<1>2. ~ stuck /\ Inside = {} /\ sem = [readers |-> 0, writer |-> 0]
  <2>1. sem.readers = Cardinality(Inside) /\ sem.writer = IF Writing \/ stuck THEN 1 ELSE 0
    BY <1>0 DEF Locking
  <2>2. Inside = {} /\ ~ stuck
    BY <1>0, <2>1, NobodyInside
  <2> QED
    BY <1>0, <2>1, <2>2 DEF Locking
<1>3. SyslogTypes'
  BY <1>0 DEF SyslogTypes, ringVars, readerVars
<1>4. Locking'
  <2>1. Inside' = {}
    BY <1>0, <1>2 DEF Inside, readerVars
  <2>2. Cardinality(Inside') = 0
    BY <2>1, FS_EmptySet
  <2>3. sem' = [readers |-> 0, writer |-> 1]
    BY <1>0, <1>2
  <2> QED
    BY <1>0, <1>2, <2>1, <2>2, <2>3 DEF Locking, Writing
<1>5. Storing'
  BY <1>0 DEF Storing, LastLength, Byte, ringVars
<1>6. LogKept
  BY <1>0, <1>1, StoredIsNat DEF LogKept, Stored
<1>7. RingKept
  BY <1>0 DEF RingKept, Incoming, ringVars
<1>8. ~ stuck' => Ring'
  <2>1. Len(lens') > 0 /\ lens' \in Seq(Lengths)
    BY <1>0 DEF Storing, SyslogTypes
  <2> QED
    BY <1>0, <1>6, <1>7, <2>1, RingStays
<1>9. \A r \in Readers : ReaderInv(r)'
  BY <1>0, <1>6, <1>7, ReadersStay DEF ringVars
<1> QED
  BY <1>3, <1>4, <1>5, <1>8, <1>9 DEF SyslogInv

LEMMA WriterUnlockStep ==
  ASSUME SyslogInv, WriterUnlock
  PROVE  SyslogInv'
<1>0. /\ SyslogTypes /\ Locking /\ Storing
      /\ ~ stuck => Ring
      /\ \A r \in Readers : ReaderInv(r)
      /\ wst = "stored" /\ wst' = "idle" /\ sem' = [sem EXCEPT !.writer = 0]
      /\ UNCHANGED <<msg, lens, kills, stuck, seen>> /\ UNCHANGED ringVars /\ UNCHANGED readerVars
  BY DEF SyslogInv, WriterUnlock
<1>1. Len(lens) \in Nat /\ ~ stuck
  BY <1>0 DEF SyslogTypes, Locking, Writing
<1>2. SyslogTypes'
  BY <1>0 DEF SyslogTypes, ringVars, readerVars
<1>3. Locking'
  <2>1. sem' = [readers |-> Cardinality(Inside), writer |-> 0]
    BY <1>0 DEF Locking
  <2>2. Inside' = Inside
    BY <1>0 DEF Inside, readerVars
  <2> QED
    BY <1>0, <1>1, <2>1, <2>2 DEF Locking, Writing
<1>4. Storing'
  BY <1>0 DEF Storing, ringVars
<1>5. LogKept
  BY <1>0, <1>1, StoredIsNat DEF LogKept, Stored
<1>6. RingKept
  BY <1>0 DEF RingKept, Incoming, ringVars
<1>7. ~ stuck' => Ring'
  BY <1>0, <1>5, <1>6, RingStays DEF SyslogTypes
<1>8. \A r \in Readers : ReaderInv(r)'
  BY <1>0, <1>5, <1>6, ReadersStay DEF ringVars
<1> QED
  BY <1>2, <1>3, <1>4, <1>7, <1>8 DEF SyslogInv

LEMMA KillWriterStep ==
  ASSUME SyslogInv, KillWriter
  PROVE  SyslogInv'
<1>0. /\ SyslogTypes /\ Locking /\ Storing
      /\ ~ stuck => Ring
      /\ \A r \in Readers : ReaderInv(r)
      /\ wst # "killed" /\ wst' = "killed" /\ kills < MaxKills /\ kills' = kills + 1
      /\ stuck' = (stuck \/ wst \in {"storing", "stored"})
      /\ msg' = <<>> /\ lens' = SubSeq(lens, 1, Stored)
      /\ UNCHANGED <<sem, seen>> /\ UNCHANGED ringVars /\ UNCHANGED readerVars
  BY DEF SyslogInv, KillWriter
<1>1. Stored \in Nat /\ Stored <= Len(lens) /\ Len(lens) \in Nat /\ lens \in Seq(Lengths)
  BY <1>0, StoredIsNat DEF SyslogTypes
<1>2. /\ lens' \in Seq(Lengths) /\ Len(lens') = Stored
      /\ \A m \in 1 .. Stored : lens'[m] = lens[m]
  <2>1. \A i \in 1 .. Stored : lens[i] \in Lengths
    BY <1>1
  <2>2. Len(SubSeq(lens, 1, Stored)) = IF 1 <= Stored THEN Stored - 1 + 1 ELSE 0
    BY <1>1, <2>1, SubSeqProperties
  <2>3. SubSeq(lens, 1, Stored) \in Seq(Lengths) /\ \A i \in 1 .. Stored - 1 + 1 : SubSeq(lens, 1, Stored)[i] = lens[1 + i - 1]
    BY <1>1, <2>1, SubSeqProperties
  <2> QED
    BY <1>0, <1>1, <2>2, <2>3
<1>3. SyslogTypes'
  <2>1. msg' \in Seq(Nat \X Nat) /\ stuck' \in BOOLEAN
    BY <1>0 DEF SyslogTypes
  <2>2. kills' \in 0 .. MaxKills /\ Len(lens') <= MaxMessages
    BY <1>0, <1>1, <1>2, SyslogAssumption DEF SyslogTypes
  <2> QED
    BY <1>0, <1>2, <2>1, <2>2 DEF SyslogTypes, ringVars, readerVars
<1>4. Locking'
  <2>1. Inside' = Inside
    BY <1>0 DEF Inside, readerVars
  <2>2. ~ Writing' /\ (stuck' <=> stuck \/ Writing)
    BY <1>0 DEF Writing
  <2> QED
    BY <1>0, <2>1, <2>2 DEF Locking
<1>5. Storing'
  BY <1>0 DEF Storing, ringVars
<1>6. LogKept
  BY <1>0, <1>1, <1>2 DEF LogKept, Stored
<1>7. ~ stuck' => ~ stuck /\ RingKept
  <2> HAVE ~ stuck'
  <2>1. ~ stuck /\ wst # "storing"
    BY <1>0
  <2>2. Incoming = <<Stored + 1, 1>>
    BY <2>1, <1>0, AtBoundary
  <2>3. Incoming' = <<Stored + 1, 1>>
    BY <1>0, <1>2 DEF Incoming
  <2> QED
    BY <1>0, <2>1, <2>2, <2>3 DEF RingKept, ringVars
<1>8. ~ stuck' => Ring'
  BY <1>0, <1>2, <1>6, <1>7, RingStays
<1>9. \A r \in Readers : ReaderInv(r)'
  BY <1>0, <1>6, <1>7, ReadersStay DEF ringVars
<1> QED
  BY <1>3, <1>4, <1>5, <1>8, <1>9 DEF SyslogInv

LEMMA SetSizeStep ==
  ASSUME SyslogInv, SetSize
  PROVE  SyslogInv'
<1>0. /\ SyslogTypes /\ Locking /\ Storing
      /\ ~ stuck => Ring
      /\ \A r \in Readers : ReaderInv(r)
      /\ wst = "booting" /\ wst' = "idle" /\ size' = Size
      /\ UNCHANGED <<msg, lens, kills, stuck, sem, seen, data, tail>> /\ UNCHANGED readerVars
  BY DEF SyslogInv, SetSize
<1>1. Len(lens) \in Nat
  BY <1>0 DEF SyslogTypes
<1>2. SyslogTypes'
  BY <1>0 DEF SyslogTypes, readerVars
<1>3. Locking'
  <2>1. Inside' = Inside
    BY <1>0 DEF Inside, readerVars
  <2> QED
    BY <1>0, <2>1 DEF Locking, Writing
<1>4. Storing'
  BY <1>0, RingAssumption DEF Storing
<1>5. LogKept
  BY <1>0, <1>1, StoredIsNat DEF LogKept, Stored
<1>6. RingKept
  BY <1>0 DEF RingKept, Incoming
<1>7. ~ stuck' => Ring'
  BY <1>0, <1>5, <1>6, RingStays DEF SyslogTypes
<1>8. \A r \in Readers : ReaderInv(r)'
  BY <1>0, <1>5, <1>6, RingAssumption, ReadersStay
<1> QED
  BY <1>2, <1>3, <1>4, <1>7, <1>8 DEF SyslogInv

\* A restart breaks off every reader that is at work.
LEMMA ClearRingStep ==
  ASSUME SyslogInv, ClearRing
  PROVE  SyslogInv'
<1>0. /\ SyslogTypes /\ Locking /\ Storing
      /\ \A r \in Readers : ReaderInv(r)
      /\ wst = "killed" /\ wst' = "booting"
      /\ data' = [i \in 0 .. Size |-> Cleared] /\ tail' = 0 /\ size' = 0
      /\ seen' = [r \in Readers |-> [seen[r] EXCEPT !.restarted = @ \/ rst[r] \notin {"off", "done", "dead"}]]
      /\ UNCHANGED <<msg, lens, kills, stuck, sem>> /\ UNCHANGED readerVars
  BY DEF SyslogInv, ClearRing
<1>1. Len(lens) \in Nat
  BY <1>0 DEF SyslogTypes
<1>2. \A r \in Readers :
        /\ seen'[r].upto = seen[r].upto /\ seen'[r].torn = seen[r].torn
        /\ seen'[r].from = seen[r].from /\ seen'[r].dump = seen[r].dump
        /\ seen'[r].lapped = seen[r].lapped /\ seen'[r].unread = seen[r].unread
        /\ seen'[r].restarted <=> seen[r].restarted \/ rst[r] \notin {"off", "done", "dead"}
        /\ seen'[r] \in Views
  <2> TAKE r \in Readers
  <2>1. seen[r] \in Views
    BY <1>0 DEF SyslogTypes
  <2>2. seen'[r] = [seen[r] EXCEPT !.restarted = @ \/ rst[r] \notin {"off", "done", "dead"}]
    BY <1>0
  <2>3. (seen[r].restarted \/ rst[r] \notin {"off", "done", "dead"}) \in BOOLEAN
    OBVIOUS
  <2> QED
    BY <2>1, <2>2, <2>3 DEF Views
<1>3. SyslogTypes'
  <2>1. data' \in [0 .. Size -> RingBytes] /\ data'[Size] = Cleared /\ tail' \in 0 .. Size - 1
    BY <1>0, RingAssumption DEF RingBytes
  <2>2. seen' \in [Readers -> Views]
    BY <1>0, <1>2
  <2> QED
    BY <1>0, <2>1, <2>2 DEF SyslogTypes, readerVars
<1>4. Locking'
  <2>1. Inside' = Inside
    BY <1>0 DEF Inside, readerVars
  <2> QED
    BY <1>0, <2>1 DEF Locking, Writing
<1>5. Storing'
  BY <1>0 DEF Storing
<1>6. LogKept
  BY <1>0, <1>1, StoredIsNat DEF LogKept, Stored
<1>7. Ring'
  <2>1. \A p \in 0 .. Size - 1 : data'[p] = Cleared
    BY <1>0, RingAssumption
  <2>2. \A p \in 0 .. Size - 1 : After(p)' \in 0 .. Size - 1
    BY RingAssumption DEF After
  <2>3. Before(tail)' \in 0 .. Size - 1
    BY <1>0, RingAssumption DEF Before
  <2>4. Incoming'[2] = 1
    BY <1>0 DEF Storing, Incoming
  <2>5. (\A p \in 0 .. Size - 1 : Known(data[p], Begun))'
    BY <2>1 DEF Known
  <2>6. (\A p \in 0 .. Size - 1 : After(p) # tail =>
           /\ Link(data[p], data[After(p)])
           /\ data[p] = Cleared /\ After(p) # 0 => data[After(p)] = Cleared)'
    BY <2>1, <2>2 DEF Link, Cleared
  <2>7. data'[Before(tail)'] = Cleared
    BY <2>1, <2>3
  <2>8. IF data'[Before(tail)'] = Cleared THEN tail' = 0 /\ Incoming'[2] = 1
        ELSE Incoming' = Succ(data[Before(tail)])'
    BY <1>0, <2>4, <2>7
  <2> QED
    BY <2>5, <2>6, <2>8 DEF Ring
<1>8. \A r \in Readers : ReaderInv(r)'
  <2> TAKE r \in Readers
  <2>1. PlaceKept(r)
    BY <1>0, <1>2 DEF PlaceKept, readerVars
  <2>2. ~ Bound(r)' \/ ~ Live(r)'
    BY <1>0, <1>2 DEF Bound, Live, readerVars
  <2>3. Bound(r)' /\ ~ stuck' => Position(r)' /\ Reading(r)'
    BY <2>2 DEF Position, Reading, InTime
  <2>4. ReaderInv(r)
    BY <1>0
  <2> QED
    BY <1>0, <1>6, <2>1, <2>2, <2>3, <2>4, ReaderKept
<1> QED
  BY <1>3, <1>4, <1>5, <1>7, <1>8 DEF SyslogInv

-----------------------------------------------------------------------------
(* Storing. *)

\* The i-th byte from here on in the log.
Coming(i) == IF i <= Len(msg) THEN msg[i] ELSE <<Len(lens) + 1, 1>>

\* k bytes are copied into the ring.
Stores(k) ==
  /\ CopyIn(k)
  /\ tail' = IF tail + k = Size THEN 0 ELSE tail + k
  /\ Incoming' = Coming(k + 1)
  /\ wst' \in {"storing", "stored"}
  /\ UNCHANGED <<lens, kills, stuck, sem, size>> /\ UNCHANGED readerVars

LEMMA ComingBytes ==
  ASSUME SyslogTypes, Storing, wst = "storing"
  PROVE  /\ Len(lens) \in Nat /\ Len(msg) \in Nat /\ Len(msg) <= LastLength /\ LastLength \in 2 .. Size
         /\ Incoming = Coming(1)
         /\ \A i \in 1 .. Len(msg) :
              /\ msg[i] \in RingBytes /\ msg[i] # Cleared
              /\ OfMessage(msg[i], Len(lens))
              /\ Succ(msg[i]) = Coming(i + 1)
<1>0. Len(lens) \in Nat /\ Len(msg) \in Nat /\ Len(lens) <= MaxMessages /\ Len(lens) > 0
  BY DEF SyslogTypes, Storing
<1>1. LastLength \in 2 .. Size /\ LastLength \in Nat /\ LastLength = lens[Len(lens)]
  <2>1. Len(lens) \in 1 .. Len(lens)
    BY <1>0
  <2> QED
    BY <2>1, LengthsOfMessages DEF LastLength
<1>2. Len(msg) <= LastLength /\ \A i \in 1 .. Len(msg) : msg[i] = Byte(Len(lens), LastLength - Len(msg) + i, LastLength)
  BY DEF Storing
<1>3. Incoming = Coming(1)
  <2>1. msg = <<>> <=> ~ (1 <= Len(msg))
    BY <1>0 DEF SyslogTypes
  <2> QED
    BY <2>1 DEF Incoming, Coming
<1> SUFFICES ASSUME NEW i \in 1 .. Len(msg)
             PROVE  /\ msg[i] \in RingBytes /\ msg[i] # Cleared
                    /\ OfMessage(msg[i], Len(lens))
                    /\ Succ(msg[i]) = Coming(i + 1)
  BY <1>0, <1>1, <1>2, <1>3
<1> DEFINE x == LastLength - Len(msg) + i
<1>4. msg[i] = Byte(Len(lens), x, LastLength)
  BY <1>2
<1>5. x \in 1 .. LastLength /\ (x = LastLength <=> i = Len(msg))
  BY <1>0, <1>1, <1>2
<1>6. i # Len(msg) => i + 1 \in 1 .. Len(msg) /\ msg[i + 1] = Byte(Len(lens), x + 1, LastLength)
  <2> HAVE i # Len(msg)
  <2>1. i + 1 \in 1 .. Len(msg)
    BY <1>0
  <2>2. LastLength - Len(msg) + (i + 1) = x + 1
    BY <1>0, <1>1
  <2>3. msg[i + 1] = Byte(Len(lens), LastLength - Len(msg) + (i + 1), LastLength)
    BY <2>1, <1>2
  <2> QED
    BY <2>1, <2>2, <2>3
<1> HIDE DEF x
<1>7. CASE x = LastLength
  <2>1. msg[i] = <<Len(lens), 0>> /\ Coming(i + 1) = <<Len(lens) + 1, 1>>
    BY <1>4, <1>5, <1>7, <1>0 DEF Byte, Coming
  <2>2. msg[i] \in RingBytes /\ msg[i] # Cleared
    BY <2>1, <1>0, RingAssumption, SyslogAssumption DEF RingBytes, Cleared
  <2>3. OfMessage(msg[i], Len(lens))
    BY <2>1, <1>0, <1>1 DEF OfMessage
  <2> QED
    BY <2>1, <2>2, <2>3 DEF Succ, IsNul
<1>8. CASE x # LastLength
  <2>1. msg[i] = <<Len(lens), x>> /\ x \in 1 .. LastLength - 1 /\ x \in Nat
    BY <1>4, <1>5, <1>8, <1>1 DEF Byte
  <2>2. msg[i] \in RingBytes /\ msg[i] # Cleared
    BY <2>1, <1>0, <1>1, RingAssumption, SyslogAssumption DEF RingBytes, Cleared
  <2>3. OfMessage(msg[i], Len(lens))
    BY <2>1, <1>0, <1>1 DEF OfMessage
  <2>4. i # Len(msg) /\ i + 1 <= Len(msg)
    BY <1>5, <1>8, <1>6, <1>0
  <2>5. Succ(msg[i]) = Byte(Len(lens), x + 1, lens[Len(lens)])
    BY <2>1 DEF Succ, IsNul
  <2> QED
    BY <2>2, <2>3, <2>4, <2>5, <1>6, <1>1 DEF Coming
<1> QED
  BY <1>7, <1>8

\* They continue the chain of the ring.
LEMMA RingExtended ==
  ASSUME SyslogTypes, Storing, Ring, wst = "storing",
         NEW k \in 0 .. Len(msg), tail + k <= Size, Stores(k)
  PROVE  Ring' /\ data' \in [0 .. Size -> RingBytes] /\ data'[Size] = Cleared /\ tail' \in 0 .. Size - 1
<1>0. tail \in 0 .. Size - 1 /\ Size \in Nat /\ Size >= 1 /\ k \in Nat /\ Len(msg) \in Nat /\ Len(lens) \in Nat
  BY RingAssumption, ComingBytes DEF SyslogTypes
<1> DEFINE New == tail .. tail + k - 1
<1>1. PICK d, t : /\ d = data' /\ t = tail'
                  /\ d = [i \in 0 .. Size |-> IF i \in New THEN msg[i - tail + 1] ELSE data[i]]
                  /\ t = IF tail + k = Size THEN 0 ELSE tail + k
  BY DEF Stores, CopyIn
<1>2. \A p \in New : /\ p \in 0 .. Size - 1 /\ p - tail + 1 \in 1 .. k /\ p - tail + 1 \in 1 .. Len(msg)
                     /\ d[p] = msg[p - tail + 1]
  BY <1>0, <1>1
<1>3. \A p \in 0 .. Size : p \notin New => d[p] = data[p]
  BY <1>1
<1>4. t \in 0 .. Size - 1
  BY <1>0, <1>1
<1>5. d \in [0 .. Size -> RingBytes] /\ d[Size] = Cleared
  <2>1. \A p \in 0 .. Size : d[p] \in RingBytes
    <3> TAKE p \in 0 .. Size
    <3>1. CASE p \in New
      BY <3>1, <1>2, ComingBytes
    <3>2. CASE p \notin New
      BY <3>2, <1>3 DEF SyslogTypes
    <3> QED
      BY <3>1, <3>2
  <2>2. Size \in 0 .. Size /\ Size \notin New
    BY <1>0
  <2> QED
    BY <2>1, <2>2, <1>1, <1>3 DEF SyslogTypes
<1>6. Begun = Len(lens) /\ Begun' = Len(lens) /\ lens' = lens /\ Incoming' = Coming(k + 1)
  BY DEF Begun, Stores
<1>7. \A p \in 0 .. Size - 1 : Known(d[p], Len(lens))
  <2> TAKE p \in 0 .. Size - 1
  <2>1. CASE p \in New
    BY <2>1, <1>2, ComingBytes DEF Known
  <2>2. CASE p \notin New
    <3>1. d[p] = data[p]
      BY <2>2, <1>3, <1>0
    <3> QED
      BY <3>1, <1>6 DEF Ring
  <2> QED
    BY <2>1, <2>2
<1>8. \A p \in 0 .. Size - 1 : After(p) # t =>
        /\ Link(d[p], d[After(p)])
        /\ d[p] = Cleared /\ After(p) # 0 => d[After(p)] = Cleared
  <2> TAKE p \in 0 .. Size - 1
  <2> HAVE After(p) # t
  <2>1. PICK q \in 0 .. Size - 1 : q = After(p) /\ q = IF p + 1 = Size THEN 0 ELSE p + 1
    BY <1>0 DEF After
  <2>2. CASE p \in New
    <3>1. q = p + 1 /\ q \in New
      BY <2>1, <2>2, <1>0, <1>1
    <3>2. q - tail + 1 = (p - tail + 1) + 1
      BY <3>1, <1>0
    <3>3. PICK i \in 1 .. Len(msg) : i = p - tail + 1 /\ i + 1 \in 1 .. Len(msg) /\ d[p] = msg[i] /\ d[q] = msg[i + 1]
      BY <2>2, <3>1, <3>2, <1>2
    <3>4. Succ(msg[i]) = Coming(i + 1) /\ msg[i] # Cleared
      BY <3>3, ComingBytes
    <3>5. Coming(i + 1) = msg[i + 1]
      BY <3>3 DEF Coming
    <3> QED
      BY <2>1, <3>3, <3>4, <3>5 DEF Link
  <2>3. CASE p \notin New /\ q \in New
    <3>1. q = tail /\ p = Before(tail) /\ q - tail + 1 = 1
      BY <2>1, <2>3, <1>0 DEF Before
    <3>2. d[q] = msg[1] /\ 1 \in 1 .. Len(msg)
      BY <2>3, <3>1, <1>2
    <3>3. msg[1] = Incoming
      BY <3>2, ComingBytes DEF Coming
    <3>4. d[p] = data[p]
      BY <2>3, <1>3, <1>0
    <3>5. IF data[p] = Cleared THEN tail = 0 /\ Incoming[2] = 1 ELSE Incoming = Succ(data[p])
      BY <3>1 DEF Ring
    <3> QED
      BY <2>1, <3>1, <3>2, <3>3, <3>4, <3>5 DEF Link
  <2>4. CASE p \notin New /\ q \notin New
    <3>1. d[p] = data[p] /\ d[q] = data[q]
      BY <2>1, <2>4, <1>3, <1>0
    <3>2. q # tail
      BY <2>1, <2>4, <1>0, <1>1
    <3> QED
      BY <2>1, <3>1, <3>2 DEF Ring
  <2> QED
    BY <2>2, <2>3, <2>4
<1>9. PICK b : b = Before(t) /\ b \in 0 .. Size - 1
  BY <1>4, <1>0 DEF Before
<1>10. IF d[b] = Cleared THEN t = 0 /\ Coming(k + 1)[2] = 1 ELSE Coming(k + 1) = Succ(d[b])
  <2>1. CASE k = 0
    <3>1. t = tail /\ New = {}
      BY <2>1, <1>0, <1>1
    <3>2. d[b] = data[Before(tail)]
      BY <3>1, <1>9, <1>3, <1>0
    <3>3. Coming(k + 1) = Incoming
      BY <2>1, ComingBytes
    <3> QED
      BY <3>1, <3>2, <3>3 DEF Ring
  <2>2. CASE k # 0
    <3>1. b = tail + k - 1 /\ b \in New /\ b - tail + 1 = k /\ k \in 1 .. Len(msg)
      BY <2>2, <1>0, <1>1, <1>9 DEF Before
    <3>2. d[b] = msg[k]
      BY <3>1, <1>2
    <3> QED
      BY <3>1, <3>2, ComingBytes
  <2> QED
    BY <2>1, <2>2
<1>11. \A x, y : Link(x, y)' <=> Link(x, y)
  BY <1>6 DEF Link, Succ, IsNul, Byte, Cleared
<1>12. \A x : Known(x, Begun)' <=> Known(x, Len(lens))
  BY <1>6 DEF Known, OfMessage
<1>13. \A x : Succ(x)' = Succ(x)
  BY <1>6 DEF Succ, IsNul, Byte
<1> HIDE DEF New
<1>14. (\A p \in 0 .. Size - 1 : Known(data[p], Begun))'
  <2>1. \A p \in 0 .. Size - 1 : Known(data[p], Begun)'
    <3> TAKE p \in 0 .. Size - 1
    <3>1. PICK x : x = d[p]
      OBVIOUS
    <3>2. Known(x, Begun)' /\ data'[p] = x
      BY <3>1, <1>1, <1>7, <1>12
    <3> QED
      BY <3>2
  <2> QED
    BY <2>1
<1>15. (\A p \in 0 .. Size - 1 : After(p) # tail =>
          /\ Link(data[p], data[After(p)])
          /\ data[p] = Cleared /\ After(p) # 0 => data[After(p)] = Cleared)'
  <2>1. \A p \in 0 .. Size - 1 : After(p) # tail' =>
         /\ Link(data[p], data[After(p)])'
         /\ data'[p] = Cleared /\ After(p) # 0 => data'[After(p)] = Cleared
    <3> TAKE p \in 0 .. Size - 1
    <3> HAVE After(p) # tail'
    <3>1. PICK q, x, y : q = After(p) /\ x = d[p] /\ y = d[q]
      OBVIOUS
    <3>2. Link(x, y) /\ (x = Cleared /\ q # 0 => y = Cleared)
      BY <3>1, <1>1, <1>8
    <3>3. Link(x, y)' /\ data'[p] = x /\ data'[q] = y
      BY <3>1, <3>2, <1>1, <1>11
    <3>4. After(p)' = q
      BY <3>1 DEF After
    <3>5. Link(data[p], data[q])'
      BY <3>3
    <3>6. Link(data[p], data[After(p)])'
      BY <3>4, <3>5
    <3> QED
      BY <3>1, <3>2, <3>3, <3>6
  <2> QED
    BY <2>1 DEF After
<1>16. IF data'[Before(tail)'] = Cleared THEN tail' = 0 /\ Incoming'[2] = 1
       ELSE Incoming' = Succ(data[Before(tail)])'
  <2>1. Before(tail)' = b
    BY <1>1, <1>9 DEF Before
  <2>2. PICK x : x = d[b]
    OBVIOUS
  <2>3. data'[Before(tail)'] = x /\ Succ(data[Before(tail)])' = Succ(x)'
    BY <2>1, <2>2, <1>1
  <2>4. Succ(x)' = Succ(x)
    BY <1>13
  <2> QED
    BY <2>2, <2>3, <2>4, <1>1, <1>6, <1>10
<1>17. Ring'
  BY <1>14, <1>15, <1>16 DEF Ring
<1> QED
  BY <1>1, <1>4, <1>5, <1>17

\* A reader that is not in the ring keeps its place, or is lapped.
LEMMA PlaceWhileStoring ==
  ASSUME SyslogTypes, Storing, Ring, wst = "storing",
         NEW k \in 0 .. Len(msg), tail + k <= Size, Stores(k),
         NEW r \in Readers, Position(r), Reading(r), PlaceKept(r)
  PROVE  Position(r)' /\ Reading(r)'
<1>0. /\ tail \in 0 .. Size - 1 /\ Size \in Nat /\ Size >= 1 /\ k \in Nat /\ Len(msg) \in Nat
      /\ cur[r] \in 0 .. Size - 1 /\ seen[r].unread \in 0 .. Size
  BY RingAssumption, ComingBytes DEF SyslogTypes, Views
<1>1. PICK c, u : c = cur[r] /\ u = seen[r].unread
  OBVIOUS
<1>2. seen'[r].unread = IF u + k < Size THEN u + k ELSE Size
  <2>1. seen[r] \in Views
    BY DEF SyslogTypes
  <2>2. seen'[r] = [seen[r] EXCEPT
                      !.unread = IF seen[r].unread + k < Size THEN seen[r].unread + k ELSE Size]
    BY Zenon DEF Stores, CopyIn
  <2> QED
    BY ONLY <1>1, <2>1, <2>2 DEF Views
<1>3. cur'[r] = c /\ tail' = IF tail + k = Size THEN 0 ELSE tail + k
  <2>1. cur'[r] = cur[r]
    BY Zenon DEF PlaceKept
  <2>2. tail' = IF tail + k = Size THEN 0 ELSE tail + k
    BY Zenon DEF Stores
  <2> QED
    BY ONLY <1>1, <2>1, <2>2
<1>4. SUFFICES ASSUME InTime(r)' PROVE Position(r)' /\ Reading(r)'
  BY DEF Position, Reading
<1>5. u + k < Size /\ seen'[r].unread = u + k
  BY <1>0, <1>1, <1>2, <1>4 DEF InTime
<1>6. InTime(r) /\ tail \in {c + u, c + u - Size}
  <2>1. InTime(r)
    BY <1>0, <1>1, <1>4, <1>5 DEF InTime, Live, PlaceKept
  <2> QED
    BY <2>1, <1>1 DEF Position
<1>a. /\ c \in Nat /\ c < Size /\ u \in Nat /\ k \in Nat /\ Size \in Nat
      /\ tail \in Nat /\ tail < Size /\ tail + k <= Size
  BY <1>0, <1>1
<1>7. Position(r)'
  <2>1. tail' = c + (u + k) \/ tail' = c + (u + k) - Size
    <3>1. CASE tail = c + u
      BY <3>1, <1>a, <1>3
    <3>2. CASE tail = c + u - Size
      BY <3>2, <1>a, <1>3, <1>5
    <3> QED
      BY <3>1, <3>2, <1>6
  <2> QED
    BY <2>1, <1>3, <1>5 DEF Position
<1>8. Pending(r)' = Pending(r)
  <2>1. CASE u = 0 /\ k = 0
    <3>1. Incoming' = Incoming
      BY <2>1, ComingBytes DEF Stores
    <3> QED
      BY <2>1, <3>1, <1>1, <1>5 DEF Pending
  <2>2. CASE u = 0 /\ k # 0
    <3>1. tail = c /\ u + k # 0
      BY <2>2, <1>0, <1>1, <1>6
    <3>2. data'[c] = msg[1]
      BY <2>2, <3>1, <1>0 DEF Stores, CopyIn
    <3>3. msg[1] = Incoming
      BY <2>2, <1>0, ComingBytes DEF Coming
    <3> QED
      BY <2>2, <3>1, <3>2, <3>3, <1>1, <1>3, <1>5 DEF Pending
  <2>3. CASE u # 0
    <3>1. c \notin tail .. tail + k - 1 /\ c \in 0 .. Size /\ u + k # 0
      <4>1. CASE tail = c + u
        BY <4>1, <2>3, <1>a
      <4>2. CASE tail = c + u - Size
        BY <4>2, <2>3, <1>a, <1>5
      <4> QED
        BY <4>1, <4>2, <1>6
    <3>2. data'[c] = data[c]
      BY <3>1 DEF Stores, CopyIn
    <3> QED
      BY <2>3, <3>1, <3>2, <1>1, <1>3, <1>5 DEF Pending
  <2> QED
    BY <2>1, <2>2, <2>3
<1>9. \A b : Begins(r, b)' <=> Begins(r, b)
  BY DEF Begins, PlaceKept
<1>10. Reading(r)'
  BY <1>6, <1>8, <1>9 DEF Reading, PlaceKept
<1> QED
  BY <1>7, <1>10

LEMMA StoringStep ==
  ASSUME SyslogInv, wst = "storing", NEW k \in 0 .. Len(msg), tail + k <= Size, Stores(k),
         msg' \in Seq(Nat \X Nat), Storing'
  PROVE  SyslogInv'
<1>0. /\ SyslogTypes /\ Locking /\ Storing
      /\ ~ stuck => Ring
      /\ \A r \in Readers : ReaderInv(r)
      /\ UNCHANGED <<lens, kills, stuck, sem, size>> /\ UNCHANGED readerVars
      /\ wst' \in {"storing", "stored"}
  BY DEF SyslogInv, Stores
<1>1. ~ stuck /\ Ring
  BY <1>0 DEF Locking, Writing
<1>2. Ring' /\ data' \in [0 .. Size -> RingBytes] /\ data'[Size] = Cleared /\ tail' \in 0 .. Size - 1
  BY <1>0, <1>1, RingExtended
<1>3. \A r \in Readers :
        /\ PlaceKept(r)
        /\ seen'[r] \in Views
  <2> TAKE r \in Readers
  <2>1. seen[r] \in Views
    BY <1>0 DEF SyslogTypes
  <2>2. seen'[r] = [seen[r] EXCEPT !.unread = IF @ + k < Size THEN @ + k ELSE Size]
    BY DEF Stores, CopyIn
  <2>3. (IF seen[r].unread + k < Size THEN seen[r].unread + k ELSE Size) \in 0 .. Size
    BY <2>1, RingAssumption, <1>0 DEF SyslogTypes, Views
  <2> QED
    BY <2>1, <2>2, <2>3, <1>0 DEF PlaceKept, readerVars, Views
<1>4. SyslogTypes'
  <2>1. seen' \in [Readers -> Views]
    <3>1. seen' = [r \in Readers |-> [seen[r] EXCEPT !.unread = IF @ + k < Size THEN @ + k ELSE Size]]
      BY DEF Stores, CopyIn
    <3>2. DOMAIN seen' = Readers /\ seen' = [r \in Readers |-> seen'[r]]
      BY <3>1
    <3> QED
      BY <3>2, <1>3
  <2> QED
    BY <1>0, <1>2, <2>1 DEF SyslogTypes, readerVars
<1>5. Locking'
  <2>1. Inside' = Inside
    BY <1>0 DEF Inside, readerVars
  <2> QED
    BY <1>0, <2>1 DEF Locking, Writing
<1>6. LogKept
  <2>1. Stored \in Nat /\ Len(lens) \in Nat
    BY <1>0, StoredIsNat DEF SyslogTypes
  <2>2. Stored = Len(lens) - 1 /\ Stored' \in {Len(lens) - 1, Len(lens)}
    BY <1>0 DEF Stored
  <2> QED
    BY <1>0, <2>1, <2>2 DEF LogKept
<1>7. \A r \in Readers : ReaderInv(r)'
  <2> TAKE r \in Readers
  <2>1. ReaderInv(r) /\ PlaceKept(r)
    BY <1>0, <1>3
  <2>2. Bound(r)' /\ ~ stuck' => Position(r)' /\ Reading(r)'
    <3> HAVE Bound(r)' /\ ~ stuck'
    <3>1. Bound(r)
      BY <2>1 DEF Bound, PlaceKept
    <3>2. Position(r) /\ Reading(r)
      BY <3>1, <2>1, <1>1 DEF ReaderInv
    <3> QED
      BY <3>2, <2>1, <1>0, <1>1, PlaceWhileStoring
  <2> QED
    BY <1>0, <1>6, <2>1, <2>2, ReaderKept
<1> QED
  BY <1>0, <1>2, <1>4, <1>5, <1>7 DEF SyslogInv

LEMMA StoreToEndStep ==
  ASSUME SyslogInv, StoreToEnd
  PROVE  SyslogInv'
<1> DEFINE k == Size - tail
<1>0. /\ SyslogTypes /\ Storing /\ wst = "storing" /\ wst' = "storing"
      /\ tail + Len(msg) >= size /\ CopyIn(size - tail)
      /\ msg' = SubSeq(msg, size - tail + 1, Len(msg)) /\ tail' = 0
      /\ UNCHANGED <<wst, lens, kills, stuck, sem, size>> /\ UNCHANGED readerVars
  BY DEF SyslogInv, StoreToEnd
<1>1. /\ tail \in 0 .. Size - 1 /\ Size \in Nat /\ Size >= 1 /\ Len(msg) \in Nat /\ LastLength \in Nat
      /\ Len(msg) <= LastLength /\ msg \in Seq(Nat \X Nat)
  BY <1>0, RingAssumption, ComingBytes DEF SyslogTypes
<1>2. size = Size
  BY <1>0 DEF SyslogTypes, Storing
<1>3. k \in 1 .. Len(msg) /\ k \in Nat /\ tail + k = Size
  BY <1>0, <1>1, <1>2
<1> HIDE DEF k
<1>4. CopyIn(k) /\ msg' = SubSeq(msg, k + 1, Len(msg))
  BY <1>0, <1>2 DEF k
<1>5. /\ msg' \in Seq(Nat \X Nat) /\ Len(msg') = Len(msg) - k
      /\ \A i \in 1 .. Len(msg) - k : msg'[i] = msg[k + i]
  <2>1. k + 1 \in Nat /\ Len(msg) \in Nat
    BY <1>3, <1>1
  <2>2. \A i \in k + 1 .. Len(msg) : msg[i] \in Nat \X Nat
    BY <1>1, <1>3
  <2>3. Len(msg') = IF k + 1 <= Len(msg) THEN Len(msg) - (k + 1) + 1 ELSE 0
    BY <2>1, <2>2, <1>1, <1>3, <1>4, SubSeqProperties
  <2>4. msg' \in Seq(Nat \X Nat) /\ \A i \in 1 .. Len(msg) - (k + 1) + 1 : msg'[i] = msg[(k + 1) + i - 1]
    BY <2>1, <2>2, <1>1, <1>3, <1>4, SubSeqProperties
  <2>5. Len(msg') = Len(msg) - k
    BY <2>3, <1>3, <1>1
  <2>6. \A i \in 1 .. Len(msg) - k : (k + 1) + i - 1 = k + i
    BY <1>3, <1>1
  <2>7. Len(msg) - (k + 1) + 1 = Len(msg) - k
    BY <1>3, <1>1
  <2> QED
    BY <2>4, <2>5, <2>6, <2>7
<1>6. Incoming' = Coming(k + 1)
  <2>1. CASE k = Len(msg)
    <3>1. msg' = <<>>
      BY <2>1, <1>5, <1>1
    <3>2. ~ (k + 1 <= Len(msg))
      BY <2>1, <1>1
    <3> QED
      BY <3>1, <3>2, <1>0 DEF Incoming, Coming
  <2>2. CASE k # Len(msg)
    <3>1. 1 \in 1 .. Len(msg) - k /\ k + 1 <= Len(msg) /\ Len(msg') # 0
      BY <2>2, <1>3, <1>1, <1>5
    <3>2. msg' # <<>> /\ msg'[1] = msg[k + 1]
      BY <3>1, <1>5
    <3> QED
      BY <3>1, <3>2 DEF Incoming, Coming
  <2> QED
    BY <2>1, <2>2
<1>7. Stores(k)
  BY <1>0, <1>3, <1>4, <1>6 DEF Stores
<1>8. Storing'
  <2>a. LastLength' = LastLength /\ Len(lens') > 0
    BY <1>0 DEF LastLength, Storing
  <2>b. Len(msg') <= LastLength
    BY <1>1, <1>3, <1>5
  <2>1. LastLength' = LastLength /\ Len(lens') > 0 /\ Len(msg') <= LastLength
    BY <2>a, <2>b
  <2>2. \A i \in 1 .. Len(msg') : msg'[i] = Byte(Len(lens), LastLength - Len(msg') + i, LastLength)
    <3> TAKE i \in 1 .. Len(msg')
    <3>1. i \in 1 .. Len(msg) - k /\ k + i \in 1 .. Len(msg)
      BY <1>1, <1>3, <1>5
    <3>2. LastLength - Len(msg) + (k + i) = LastLength - Len(msg') + i
      BY <3>1, <1>1, <1>3, <1>5
    <3>3. msg[k + i] = Byte(Len(lens), LastLength - Len(msg) + (k + i), LastLength)
      BY <3>1, <1>0 DEF Storing
    <3> QED
      BY <3>1, <3>2, <3>3, <1>5
  <2>3. (\A i \in 1 .. Len(msg) : msg[i] = Byte(Len(lens), LastLength - Len(msg) + i, LastLength))'
    BY <2>1, <2>2, <1>0 DEF Byte
  <2>4. size' # 0
    BY <1>0, <1>2, <1>1
  <2> QED
    BY <1>0, <2>1, <2>3, <2>4 DEF Storing
<1>9. k \in 0 .. Len(msg) /\ tail + k <= Size
  BY <1>3, <1>1
<1> QED
  BY <1>0, <1>5, <1>7, <1>8, <1>9, StoringStep

LEMMA StoreRestStep ==
  ASSUME SyslogInv, StoreRest
  PROVE  SyslogInv'
<1>0. /\ SyslogTypes /\ Storing /\ wst = "storing" /\ wst' = "stored"
      /\ tail + Len(msg) < size /\ CopyIn(Len(msg))
      /\ msg' = <<>> /\ tail' = tail + Len(msg)
      /\ UNCHANGED <<lens, kills, stuck, sem, size>> /\ UNCHANGED readerVars
  BY DEF SyslogInv, StoreRest
<1>1. tail \in 0 .. Size - 1 /\ Size \in Nat /\ Len(msg) \in Nat /\ size = Size
  BY <1>0, RingAssumption, ComingBytes DEF SyslogTypes, Storing
<1>2. Incoming' = Coming(Len(msg) + 1)
  <2>1. ~ (Len(msg) + 1 <= Len(msg))
    BY <1>1
  <2> QED
    BY <2>1, <1>0 DEF Incoming, Coming
<1>3. Stores(Len(msg))
  <2>1. tail + Len(msg) # Size
    BY <1>0, <1>1
  <2> QED
    BY <1>0, <2>1, <1>2 DEF Stores
<1>4. Storing' /\ msg' \in Seq(Nat \X Nat)
  BY <1>0 DEF Storing
<1>5. Len(msg) \in 0 .. Len(msg) /\ tail + Len(msg) <= Size
  BY <1>0, <1>1
<1> QED
  BY <1>0, <1>3, <1>4, <1>5, StoringStep

-----------------------------------------------------------------------------
(* The steps of logread. *)

\* A step of reader r is a matter of r and the lock.
LEMMA OneReaderMoves ==
  ASSUME SyslogInv, UNCHANGED ringVars, UNCHANGED writerVars, NEW r \in Readers,
         \A q \in Readers \ {r} : PlaceKept(q) /\ seen'[q] = seen[q],
         SyslogTypes', Locking', ReaderInv(r)'
  PROVE  SyslogInv'
<1>0. /\ SyslogTypes /\ Storing
      /\ \A q \in Readers : ReaderInv(q)
  BY DEF SyslogInv
<1>1. Storing' /\ (~ stuck' => Ring')
  <2>1. ~ stuck => Ring
    BY DEF SyslogInv
  <2> QED
    BY <1>0, <2>1, ReadersLeaveRing
<1>2. \A q \in Readers : ReaderInv(q)'
  <2> TAKE q \in Readers
  <2>1. CASE q = r
    BY <2>1
  <2>2. CASE q # r
    <3>1. PlaceKept(q) /\ seen'[q] = seen[q] /\ ReaderInv(q)
      BY <2>2, <1>0
    <3>2. ~ stuck => Ring
      BY DEF SyslogInv
    <3> QED
      BY <1>0, <3>1, <3>2, OtherReaders
  <2> QED
    BY <2>1, <2>2
<1> QED
  BY <1>1, <1>2 DEF SyslogInv

\* What every step of logread finds.
LEMMA Frame ==
  ASSUME SyslogInv, UNCHANGED ringVars, UNCHANGED writerVars
  PROVE  /\ SyslogTypes /\ Locking /\ Storing
         /\ ~ stuck => Ring
         /\ \A r \in Readers : ReaderInv(r)
         /\ UNCHANGED <<wst, msg, data, tail, size, lens, kills, stuck>>
         /\ LogKept /\ RingKept /\ Stored' = Stored /\ Stored \in Nat /\ Stored <= Len(lens)
<1>1. /\ SyslogTypes /\ Locking /\ Storing
      /\ ~ stuck => Ring
      /\ \A r \in Readers : ReaderInv(r)
  BY DEF SyslogInv
<1>2. UNCHANGED <<wst, msg, data, tail, size, lens, kills, stuck>>
  BY DEF ringVars, writerVars
<1>3. Stored' = Stored
  BY <1>2 DEF Stored
<1>4. LogKept /\ RingKept
  BY <1>1, ReadersLeaveRing
<1> QED
  BY <1>1, <1>2, <1>3, <1>4, StoredIsNat

\* A reader in the ring is alone with other readers.
LEMMA ReaderInside ==
  ASSUME SyslogInv, NEW r \in Readers, rst[r] = "locked"
  PROVE  ~ stuck /\ wst \notin {"storing", "stored"} /\ Ring
<1>1. r \in Inside
  BY DEF Inside
<1> QED
  BY <1>1 DEF SyslogInv, Locking, Writing

\* It leaves.
LEMMA ReaderLeaves ==
  ASSUME SyslogInv, UNCHANGED writerVars, NEW r \in Readers, rst[r] = "locked",
         NEW s, s # "locked", rst' = [rst EXCEPT ![r] = s],
         sem' = [sem EXCEPT !.readers = @ - 1]
  PROVE  Locking'
<1>0. rst \in [Readers -> {"off", "semdown", "locked", "print", "sleep", "done", "dead"}]
  BY DEF SyslogInv, SyslogTypes
<1>1. r \in Inside /\ Inside' = Inside \ {r}
  BY <1>0 DEF Inside
<1>2. Cardinality(Inside') = Cardinality(Inside) - 1
  BY <1>1, NobodyInside, FS_RemoveElement DEF SyslogInv
<1>3. ~ stuck /\ ~ Writing /\ ~ stuck' /\ ~ Writing'
  BY ReaderInside DEF Writing, writerVars
<1>4. sem = [readers |-> Cardinality(Inside), writer |-> 0]
  BY <1>3 DEF SyslogInv, Locking
<1>5. sem' = [readers |-> Cardinality(Inside'), writer |-> 0]
  BY <1>2, <1>4
<1> QED
  BY <1>3, <1>5 DEF Locking

\* It stays out.
LEMMA ReaderOutside ==
  ASSUME SyslogInv, UNCHANGED writerVars, NEW r \in Readers, rst[r] # "locked",
         NEW s, s # "locked", rst' = [rst EXCEPT ![r] = s], sem' = sem
  PROVE  Locking'
<1>0. rst \in [Readers -> {"off", "semdown", "locked", "print", "sleep", "done", "dead"}]
  BY DEF SyslogInv, SyslogTypes
<1>1. Inside' = Inside
  BY <1>0 DEF Inside
<1>2. Writing' = Writing /\ stuck' = stuck
  BY DEF Writing, writerVars
<1> QED
  BY <1>1, <1>2 DEF SyslogInv, Locking

LEMMA StartReaderStep ==
  ASSUME SyslogInv, NEW r \in Readers, StartReader(r)
  PROVE  SyslogInv'
<1>0. /\ rst[r] = "off" /\ rst' = [rst EXCEPT ![r] = "semdown"]
      /\ cur' = [cur EXCEPT ![r] = tail]
      /\ UNCHANGED <<follow, copy, out, sem>> /\ UNCHANGED ringVars /\ UNCHANGED writerVars
  BY DEF StartReader
<1>1. /\ SyslogTypes /\ Locking /\ Storing
      /\ ~ stuck => Ring
      /\ \A q \in Readers : ReaderInv(q)
      /\ UNCHANGED <<wst, msg, data, tail, size, lens, kills, stuck>>
      /\ LogKept /\ RingKept /\ Stored' = Stored /\ Stored \in Nat
  BY <1>0, Frame
<1>2. PICK torn \in BOOLEAN, restarted \in BOOLEAN :
        /\ torn <=> follow[r] = 1 /\ wst = "storing" /\ Len(msg) < lens[Len(lens)]
        /\ restarted <=> size = 0
        /\ seen' = [seen EXCEPT ![r] = [from |-> Stored, upto |-> Stored, unread |-> 0, dump |-> "no",
                                        lapped |-> FALSE, restarted |-> restarted, torn |-> torn]]
  <2>1. /\ (Following(r) /\ wst = "storing" /\ Len(msg) < lens[Len(lens)]) \in BOOLEAN
        /\ (size = 0) \in BOOLEAN
    BY DEF Following
  <2> QED
    BY <2>1 DEF StartReader, Following
<1>3. rst'[r] = "semdown" /\ cur'[r] = tail
  BY <1>0, <1>1 DEF SyslogTypes
<1>4. /\ seen'[r].from = Stored /\ seen'[r].upto = Stored /\ seen'[r].unread = 0
      /\ seen'[r].dump = "no" /\ (seen'[r].lapped <=> FALSE)
      /\ (seen'[r].restarted <=> restarted) /\ (seen'[r].torn <=> torn)
      /\ seen'[r] \in Views
  <2>1. seen'[r] = [from |-> Stored, upto |-> Stored, unread |-> 0, dump |-> "no",
                     lapped |-> FALSE, restarted |-> restarted, torn |-> torn]
    BY <1>1, <1>2 DEF SyslogTypes
  <2>2. 0 \in 0 .. Size
    BY RingAssumption
  <2> QED
    BY <2>1, <2>2, <1>1 DEF Views
<1>5. \A q \in Readers \ {r} : PlaceKept(q) /\ seen'[q] = seen[q]
  BY <1>0, <1>1, <1>2 DEF PlaceKept, SyslogTypes
<1>6. SyslogTypes'
  <2>1. seen' \in [Readers -> Views]
    BY <1>1, <1>2, <1>4 DEF SyslogTypes
  <2>2. rst' \in [Readers -> {"off", "semdown", "locked", "print", "sleep", "done", "dead"}]
    BY <1>0, <1>1 DEF SyslogTypes
  <2>3. cur' \in [Readers -> 0 .. Size - 1]
    BY <1>0, <1>1 DEF SyslogTypes
  <2> QED
    BY <1>0, <1>1, <2>1, <2>2, <2>3 DEF SyslogTypes
<1>7. Locking'
  BY <1>0, ReaderOutside
<1>8. out'[r] = <<>> /\ copy'[r] = <<>>
  BY <1>0, <1>1 DEF ReaderInv
<1>9. Output(r)'
  <2>1. out'[r] \in Seq(Seq(Nat \X Nat)) /\ Len(out'[r]) = 0
    BY <1>8
  <2> QED
    BY <2>1, <1>4, <1>8 DEF Output, Nothing
<1>10. Position(r)'
  <2>1. cur'[r] + seen'[r].unread = tail'
    BY <1>1, <1>3, <1>4, RingAssumption DEF SyslogTypes
  <2> QED
    BY <2>1 DEF Position
<1>11. ASSUME follow[r] = 1
       PROVE  Incoming = <<Stored + 1, 1>> \/ (torn /\ (Incoming[1] = Stored + 1 \/ Incoming = <<Stored + 2, 1>>))
  <2>1. CASE wst # "storing"
    BY <2>1, <1>1, AtBoundary
  <2>2. CASE wst = "storing"
    <3>1. /\ Len(msg) <= LastLength /\ LastLength \in Nat /\ 2 <= LastLength /\ Len(msg) \in Nat
          /\ Len(lens) \in Nat /\ Len(lens) = Stored + 1
      BY <2>2, <1>1, ComingBytes DEF LastLength, Stored, SyslogTypes
    <3>2. CASE msg = <<>>
      <4>1. Incoming = <<Stored + 2, 1>>
        BY <3>1, <3>2, <1>1 DEF Incoming
      <4>2. Len(msg) < lens[Len(lens)]
        BY <3>1, <3>2 DEF LastLength
      <4> QED
        BY <4>1, <4>2, <2>2, <1>2, <1>11
    <3>3. CASE msg # <<>>
      <4>1. 1 \in 1 .. Len(msg)
        BY <3>1, <3>3, <1>1 DEF SyslogTypes
      <4>2. Incoming = Byte(Len(lens), LastLength - Len(msg) + 1, LastLength)
        BY <4>1, <3>3, <2>2, <1>1 DEF Storing, Incoming
      <4>3. CASE Len(msg) < LastLength
        <5>1. Incoming[1] = Stored + 1
          BY <4>2, <3>1 DEF Byte
        <5> QED
          BY <5>1, <4>3, <2>2, <1>2, <1>11 DEF LastLength
      <4>4. CASE Len(msg) = LastLength
        <5>1. LastLength - Len(msg) + 1 = 1 /\ 1 # LastLength
          BY <4>4, <3>1
        <5> QED
          BY <5>1, <4>2, <3>1 DEF Byte
      <4> QED
        BY <4>3, <4>4, <3>1
    <3> QED
      BY <3>2, <3>3
  <2> QED
    BY <2>1, <2>2
<1>12. Reading(r)'
  <2>1. Pending(r)' = Incoming
    BY <1>1, <1>4 DEF Pending, RingKept
  <2>2. follow'[r] = 1 => Begins(r, Incoming)'
    BY <1>0, <1>1, <1>4, <1>11 DEF Begins, RingKept
  <2> QED
    BY <2>1, <2>2, <1>1, <1>3, <1>8 DEF Reading, RingKept
<1>13. ReaderInv(r)'
  <2>1. seen'[r].upto <= Stored'
    BY <1>1, <1>4
  <2>2. Bound(r)' => size' # 0 /\ copy'[r] # <<Unset>>
    BY <1>1, <1>2, <1>4, <1>8 DEF Bound
  <2> QED
    BY <2>1, <2>2, <1>0, <1>2, <1>3, <1>4, <1>8, <1>9, <1>10, <1>12 DEF ReaderInv
<1> QED
  BY <1>0, <1>5, <1>6, <1>7, <1>13, OneReaderMoves

\* Reader r goes on without reading.
LEMMA ReaderGoesOn ==
  ASSUME SyslogInv, UNCHANGED ringVars, UNCHANGED writerVars,
         NEW r \in Readers, rst[r] \in {"semdown", "sleep"}, NEW s \in {"semdown", "locked"},
         rst' = [rst EXCEPT ![r] = s], UNCHANGED <<follow, cur, copy, out, seen>>
  PROVE  ReaderInv(r)' /\ SyslogTypes' /\ \A q \in Readers \ {r} : PlaceKept(q) /\ seen'[q] = seen[q]
<1>1. /\ SyslogTypes /\ Storing /\ ReaderInv(r)
      /\ UNCHANGED <<wst, msg, data, tail, size, lens, kills, stuck>>
      /\ LogKept /\ RingKept /\ Stored' = Stored /\ Stored \in Nat
  BY Frame
<1>2. rst'[r] = s
  BY <1>1 DEF SyslogTypes
<1>3. \A q \in Readers \ {r} : PlaceKept(q) /\ seen'[q] = seen[q]
  BY <1>1 DEF PlaceKept, SyslogTypes
<1>4. SyslogTypes'
  <2>1. rst' \in [Readers -> {"off", "semdown", "locked", "print", "sleep", "done", "dead"}]
    BY <1>1 DEF SyslogTypes
  <2> QED
    BY <1>1, <2>1 DEF SyslogTypes
<1>5. ASSUME Bound(r)'
      PROVE  /\ Live(r)' => size' # 0
             /\ copy'[r] # <<Unset>>
             /\ rst'[r] = "print" => Copied(r)'
             /\ Output(r)'
             /\ ~ stuck' => Position(r)' /\ Reading(r)'
  <2>1. /\ size # 0 /\ copy[r] # <<Unset>> /\ Output(r)
        /\ ~ stuck => Position(r) /\ Reading(r)
    BY <1>1, <1>5 DEF ReaderInv, Bound, Live
  <2>2. rst'[r] \in {"semdown", "locked", "sleep", "done"} =>
          IF out[r] # <<>> THEN LastPrinted(r) = seen'[r].upto ELSE Nothing(r)'
    BY <2>1 DEF Output, Nothing
  <2>3. Output(r)'
    BY <2>1, <2>2, <1>1, OutputKept
  <2>4. InTime(r)' => InTime(r)
    BY DEF InTime, Live
  <2>5. ~ stuck' => Position(r)'
    BY <2>1, <2>4, <1>1 DEF Position
  <2>6. Pending(r)' = Pending(r)
    BY <1>1 DEF Pending, RingKept
  <2>7. ~ stuck' => Reading(r)'
    BY <2>1, <2>4, <2>6, <1>1, <1>2 DEF Reading, Begins
  <2> QED
    BY <2>1, <2>3, <2>5, <2>7, <1>1, <1>2 DEF Unset
<1>6. seen'[r].upto <= Stored'
  BY <1>1 DEF ReaderInv
<1>7. /\ follow'[r] # 1 => out'[r] = <<>>
      /\ rst'[r] # "off" /\ rst'[r] # "sleep" /\ rst'[r] # "print"
      /\ seen'[r].torn => follow'[r] = 1 /\ seen'[r].dump = "no"
  BY <1>1, <1>2 DEF ReaderInv
<1>8. ReaderInv(r)'
  BY <1>5, <1>6, <1>7 DEF ReaderInv
<1> QED
  BY <1>3, <1>4, <1>8

LEMMA WakeReaderStep ==
  ASSUME SyslogInv, NEW r \in Readers, WakeReader(r)
  PROVE  SyslogInv'
<1>1. /\ rst[r] = "sleep" /\ rst' = [rst EXCEPT ![r] = "semdown"]
      /\ UNCHANGED <<follow, cur, copy, out, sem, seen>> /\ UNCHANGED ringVars /\ UNCHANGED writerVars
  BY DEF WakeReader
<1>2. Locking'
  BY <1>1, ReaderOutside
<1> QED
  BY <1>1, <1>2, ReaderGoesOn, OneReaderMoves

LEMMA ReaderLockStep ==
  ASSUME SyslogInv, NEW r \in Readers, ReaderLock(r)
  PROVE  SyslogInv'
<1>1. /\ rst[r] = "semdown" /\ rst' = [rst EXCEPT ![r] = "locked"]
      /\ sem.writer = 0 /\ sem' = [sem EXCEPT !.readers = @ + 1]
      /\ UNCHANGED <<follow, cur, copy, out, seen>> /\ UNCHANGED ringVars /\ UNCHANGED writerVars
  BY DEF ReaderLock
<1>2. Locking'
  <2>0. /\ sem = [readers |-> Cardinality(Inside), writer |-> IF Writing \/ stuck THEN 1 ELSE 0]
        /\ rst \in [Readers -> {"off", "semdown", "locked", "print", "sleep", "done", "dead"}]
        /\ SyslogTypes
    BY DEF SyslogInv, Locking, SyslogTypes
  <2>1. ~ Writing /\ ~ stuck
    BY <2>0, <1>1
  <2>2. r \notin Inside /\ Inside' = Inside \cup {r}
    BY <2>0, <1>1 DEF Inside
  <2>3. Cardinality(Inside') = Cardinality(Inside) + 1
    BY <2>0, <2>2, NobodyInside, FS_AddElement
  <2>4. sem' = [readers |-> Cardinality(Inside'), writer |-> 0]
    BY <2>0, <2>1, <2>3, <1>1
  <2>5. ~ Writing' /\ ~ stuck'
    BY <2>1, <1>1 DEF Writing, writerVars
  <2> QED
    BY <2>4, <2>5 DEF Locking
<1> QED
  BY <1>1, <1>2, ReaderGoesOn, OneReaderMoves

LEMMA KillReaderStep ==
  ASSUME SyslogInv, NEW r \in Readers, KillReader(r)
  PROVE  SyslogInv'
<1>1. /\ rst[r] \in {"semdown", "locked", "print", "sleep"}
      /\ rst' = [rst EXCEPT ![r] = "dead"]
      /\ sem' = IF rst[r] = "locked" THEN [sem EXCEPT !.readers = @ - 1] ELSE sem
      /\ UNCHANGED <<follow, cur, copy, out, seen>> /\ UNCHANGED ringVars /\ UNCHANGED writerVars
  BY DEF KillReader
<1>2. /\ SyslogTypes /\ Storing /\ ReaderInv(r)
      /\ UNCHANGED <<wst, msg, data, tail, size, lens, kills, stuck>>
      /\ LogKept /\ RingKept /\ Stored' = Stored /\ Stored \in Nat
  BY <1>1, Frame
<1>3. rst'[r] = "dead"
  BY <1>1, <1>2 DEF SyslogTypes
<1>4. \A q \in Readers \ {r} : PlaceKept(q) /\ seen'[q] = seen[q]
  BY <1>1, <1>2 DEF PlaceKept, SyslogTypes
<1>5. SyslogTypes'
  <2>1. rst' \in [Readers -> {"off", "semdown", "locked", "print", "sleep", "done", "dead"}]
    BY <1>1, <1>2 DEF SyslogTypes
  <2> QED
    BY <1>1, <1>2, <2>1 DEF SyslogTypes
<1>6. Locking'
  <2>1. CASE rst[r] = "locked"
    BY <2>1, <1>1, ReaderLeaves
  <2>2. CASE rst[r] # "locked"
    BY <2>2, <1>1, ReaderOutside
  <2> QED
    BY <2>1, <2>2
<1>7. ~ Live(r)' /\ ~ InTime(r)'
  BY <1>3 DEF Live, InTime
<1>8. Bound(r)' => Output(r)'
  <2> HAVE Bound(r)'
  <2>1. Output(r)
    BY <1>1, <1>2 DEF ReaderInv, Bound
  <2>2. rst'[r] \notin {"semdown", "locked", "sleep", "done"}
    BY <1>3
  <2> QED
    BY <2>1, <2>2, <1>1, <1>2, OutputKept
<1>9. Bound(r)' => copy'[r] # <<Unset>>
  BY <1>1, <1>2 DEF ReaderInv, Bound, Unset
<1>10. Position(r)' /\ Reading(r)'
  BY <1>7 DEF Position, Reading
<1>11. seen'[r].upto <= Stored'
  BY <1>1, <1>2 DEF ReaderInv
<1>12. ReaderInv(r)'
  <2>1. seen'[r].torn => follow'[r] = 1 /\ seen'[r].dump = "no"
    BY <1>1, <1>2 DEF ReaderInv
  <2> QED
    BY <2>1, <1>3, <1>7, <1>8, <1>9, <1>10, <1>11 DEF ReaderInv
<1> QED
  BY <1>1, <1>4, <1>5, <1>6, <1>12, OneReaderMoves

\* Nothing is new only if nothing was stored since: with -f the reader stands
\* at the tail having read all of it.
LEMMA LookAgainStep ==
  ASSUME SyslogInv, NEW r \in Readers, LookAgain(r)
  PROVE  SyslogInv'
<1>1. /\ rst[r] = "locked" /\ rst' = [rst EXCEPT ![r] = "sleep"]
      /\ follow[r] = 1 /\ cur[r] = tail
      /\ sem' = [sem EXCEPT !.readers = @ - 1]
      /\ UNCHANGED <<follow, cur, copy, out>> /\ UNCHANGED ringVars /\ UNCHANGED writerVars
  BY DEF LookAgain, NothingNew, Following
<1>2. /\ SyslogTypes /\ Storing /\ ReaderInv(r)
      /\ UNCHANGED <<wst, msg, data, tail, size, lens, kills, stuck>>
      /\ LogKept /\ RingKept /\ Stored' = Stored /\ Stored \in Nat
  BY <1>1, Frame
<1>3. ~ stuck /\ wst # "storing" /\ Ring
  BY <1>1, ReaderInside
<1>4. PICK lapped \in BOOLEAN :
        /\ lapped <=> seen[r].lapped \/ seen[r].unread >= Size
        /\ seen' = [seen EXCEPT ![r].upto = Stored, ![r].lapped = lapped]
  <2>1. (seen[r].lapped \/ seen[r].unread >= Size) \in BOOLEAN
    OBVIOUS
  <2> QED
    BY <2>1 DEF LookAgain
<1>5. /\ seen'[r].upto = Stored /\ seen'[r].unread = seen[r].unread /\ seen'[r].torn = seen[r].torn
      /\ seen'[r].from = seen[r].from /\ seen'[r].dump = seen[r].dump
      /\ seen'[r].lapped = lapped /\ seen'[r].restarted = seen[r].restarted
      /\ seen'[r] \in Views
  <2>1. seen[r] \in Views
    BY <1>2 DEF SyslogTypes
  <2>2. seen'[r] = [[seen[r] EXCEPT !.upto = Stored] EXCEPT !.lapped = lapped]
    BY <1>2, <1>4 DEF SyslogTypes
  <2> QED
    BY <2>1, <2>2, <1>2 DEF Views
<1>6. rst'[r] = "sleep"
  BY <1>1, <1>2 DEF SyslogTypes
<1>7. \A q \in Readers \ {r} : PlaceKept(q) /\ seen'[q] = seen[q]
  BY <1>1, <1>2, <1>4 DEF PlaceKept, SyslogTypes
<1>8. SyslogTypes'
  <2>1. rst' \in [Readers -> {"off", "semdown", "locked", "print", "sleep", "done", "dead"}]
    BY <1>1, <1>2 DEF SyslogTypes
  <2>2. seen' \in [Readers -> Views]
    <3>1. DOMAIN seen' = Readers /\ seen' = [q \in Readers |-> seen'[q]]
      BY <1>2, <1>4 DEF SyslogTypes
    <3>2. \A q \in Readers : seen'[q] \in Views
      BY <1>2, <1>5, <1>7 DEF SyslogTypes
    <3> QED
      BY <3>1, <3>2
  <2> QED
    BY <1>1, <1>2, <2>1, <2>2 DEF SyslogTypes
<1>9. Locking'
  BY <1>1, ReaderLeaves
<1>10. ASSUME Bound(r)'
       PROVE  /\ size' # 0 /\ copy'[r] # <<Unset>> /\ Output(r)'
              /\ Position(r)' /\ Reading(r)'
  <2>1. ~ lapped /\ Bound(r)
    BY <1>4, <1>5, <1>10 DEF Bound
  <2>2. ~ (seen[r].unread >= Size) /\ seen[r].unread \in 0 .. Size
    BY <2>1, <1>2, <1>4 DEF SyslogTypes, Views
  <2>3. /\ size # 0 /\ copy[r] # <<Unset>> /\ Output(r) /\ Position(r) /\ Reading(r)
    BY <2>1, <1>1, <1>2, <1>3 DEF ReaderInv, Live
  <2>4. InTime(r)
    BY <2>2, <1>1, RingAssumption DEF InTime, Live
  <2>5. cur[r] = cur[r] + seen[r].unread \/ cur[r] = cur[r] + seen[r].unread - Size
    BY <2>3, <2>4, <1>1 DEF Position
  <2>6. seen[r].unread = 0
    BY <2>2, <2>5, <1>2, RingAssumption DEF SyslogTypes
  <2>7. Pending(r) = <<Stored + 1, 1>>
    BY <2>6, <1>2, <1>3, AtBoundary DEF Pending
  <2>a. seen[r].upto \in Nat /\ seen[r].from \in Nat
    BY <1>2 DEF SyslogTypes, Views
  <2>8. out[r] # <<>> => seen[r].upto = Stored
    <3> HAVE out[r] # <<>>
    <3>1. <<Stored + 1, 1>> = <<seen[r].upto + 1, 1>>
      BY <2>3, <2>4, <2>7, <1>1 DEF Reading
    <3> QED
      BY <3>1, <2>a, <1>2
  <2>b. out[r] = <<>> => Nothing(r)'
    <3> HAVE out[r] = <<>>
    <3>1. Begins(r, <<Stored + 1, 1>>)
      BY <2>3, <2>4, <2>7, <1>1 DEF Reading
    <3>2. Stored = seen[r].from \/ (seen[r].torn /\ Stored = seen[r].from + 1)
      BY <3>1, <2>a, <1>2 DEF Begins
    <3>3. seen[r].dump # "due"
      BY <2>3, <1>1 DEF Output, Nothing
    <3> QED
      BY <3>2, <3>3, <1>5 DEF Nothing
  <2>9. Output(r)'
    <3>1. IF out[r] # <<>> THEN LastPrinted(r) = seen'[r].upto ELSE Nothing(r)'
      BY <2>3, <2>8, <2>b, <1>1, <1>5 DEF Output
    <3> QED
      BY <2>3, <3>1, <1>1, <1>2, <1>5, OutputKept
  <2>10. Position(r)'
    BY <2>3, <2>4, <1>1, <1>2, <1>5 DEF Position
  <2>11. Pending(r)' = <<Stored' + 1, 1>>
    BY <2>7, <1>1, <1>2, <1>5 DEF Pending, RingKept
  <2>12. Reading(r)'
    <3>1. out[r] = <<>> => Begins(r, <<Stored + 1, 1>>)
      BY <2>3, <2>4, <2>7, <1>1 DEF Reading
    <3>2. out[r] = <<>> => Begins(r, <<Stored + 1, 1>>)'
      BY <3>1, <1>2, <1>5 DEF Begins
    <3>3. out[r] = <<>> => Begins(r, Pending(r))'
      BY <3>2, <2>11, <1>2 DEF Begins
    <3> QED
      BY <3>3, <2>11, <1>1, <1>2, <1>5, <1>6 DEF Reading
  <2> QED
    BY <2>3, <2>9, <2>10, <2>12, <1>1, <1>2 DEF Unset
<1>11. ReaderInv(r)'
  <2>1. seen'[r].upto <= Stored'
    BY <1>2, <1>5
  <2>2. seen'[r].torn => follow'[r] = 1 /\ seen'[r].dump = "no"
    BY <1>1, <1>2, <1>5 DEF ReaderInv
  <2> QED
    BY <2>1, <2>2, <1>1, <1>6, <1>10 DEF ReaderInv
<1> QED
  BY <1>1, <1>7, <1>8, <1>9, <1>11, OneReaderMoves

\* What is copied is what reader r has not printed, or everything there is.
LEMMA CopiedIsNew ==
  ASSUME SyslogTypes, Storing, Ring, wst # "storing", size = Size,
         NEW r \in Readers, Output(r), Position(r), Reading(r), rst[r] = "locked",
         follow[r] # 1 => out[r] = <<>>, follow[r] = 1 => seen[r].unread < Size /\ cur[r] # tail,
         NEW s, s = IF follow[r] = 1 THEN cur[r] ELSE Oldest(cur[r])
  PROVE  /\ s \in 0 .. Size - 1
         /\ LET c == Bytes(s) IN
            /\ c \in Seq(Nat \X Nat)
            /\ \A i \in 1 .. Len(c) : Known(c[i], Stored)
            /\ \A i \in 1 .. Len(c) - 1 : Link(c[i], c[i + 1])
            /\ c # <<>> => /\ c[1] = Cleared \/ c[1][2] = 1 \/ (out[r] = <<>> /\ seen[r].torn)
                           /\ c[Len(c)] \in {Cleared, <<Stored, 0>>}
            /\ follow[r] = 1 => c # <<>> /\ (out[r] = <<>> => Begins(r, c[1]))
            /\ follow[r] # 1 /\ DumpOf(r) = "due" => Len(c) >= 2 /\ c[Len(c)] # Cleared
            /\ out[r] # <<>> => c # <<>> /\ c[1] = <<LastPrinted(r) + 1, 1>>
<1>0. cur[r] \in 0 .. Size - 1 /\ seen[r].unread \in 0 .. Size /\ tail \in 0 .. Size - 1 /\ Size \in Nat
  BY RingAssumption DEF SyslogTypes, Views
<1>1. s \in 0 .. Size - 1 /\ (follow[r] # 1 => s = tail \/ data[s] = Cleared \/ data[s][2] = 1)
  BY <1>0, DumpBegins
<1>2. follow[r] = 1 => IF out[r] = <<>> THEN Begins(r, data[s]) ELSE data[s] = <<seen[r].upto + 1, 1>>
  <2> HAVE follow[r] = 1
  <2>1. InTime(r)
    BY DEF InTime, Live
  <2>2. seen[r].unread # 0
    <3>1. tail = cur[r] + seen[r].unread \/ tail = cur[r] + seen[r].unread - Size
      BY <2>1 DEF Position
    <3> QED
      BY <3>1, <1>0
  <2>3. Pending(r) = data[s]
    BY <2>2 DEF Pending
  <2> QED
    BY <2>1, <2>3 DEF Reading
<1> DEFINE c == Bytes(s)
<1>3. /\ c \in Seq(Nat \X Nat)
      /\ \A i \in 1 .. Len(c) : Known(c[i], Stored)
      /\ \A i \in 1 .. Len(c) - 1 : Link(c[i], c[i + 1])
      /\ c = <<>> <=> s = tail
      /\ c # <<>> => c[1] = data[s] /\ c[Len(c)] \in {Cleared, <<Stored, 0>>}
  BY <1>1, BytesAreLinked
<1> HIDE DEF c
<1>4. c # <<>> => c[1] = Cleared \/ c[1][2] = 1 \/ (out[r] = <<>> /\ seen[r].torn)
  <2> HAVE c # <<>>
  <2>1. c[1] = data[s] /\ s # tail
    BY <1>3
  <2> QED
    BY <2>1, <1>1, <1>2 DEF Begins
<1>5. out[r] # <<>> => c # <<>> /\ c[1] = <<LastPrinted(r) + 1, 1>>
  <2> HAVE out[r] # <<>>
  <2>1. follow[r] = 1 /\ s # tail
    OBVIOUS
  <2>2. data[s] = <<seen[r].upto + 1, 1>>
    BY <2>1, <1>2
  <2>3. LastPrinted(r) = seen[r].upto
    BY DEF Output
  <2> QED
    BY <2>1, <2>2, <2>3, <1>3
<1>6. follow[r] = 1 => c # <<>> /\ (out[r] = <<>> => Begins(r, c[1]))
  BY <1>2, <1>3
<1>7. follow[r] # 1 /\ DumpOf(r) = "due" => Len(c) >= 2 /\ c[Len(c)] # Cleared
  <2> HAVE follow[r] # 1 /\ DumpOf(r) = "due"
  <2>1. data[Before(tail)] # Cleared /\ lens[Stored] # Size /\ ~ (seen[r].unread > 0)
    BY DEF DumpOf
  <2>2. seen[r].unread = 0 /\ InTime(r)
    BY <2>1, <1>0, RingAssumption DEF InTime, Live
  <2>3. cur[r] = tail
    BY <2>2, <1>0 DEF Position
  <2>4. c = Bytes(Oldest(tail))
    BY <2>3 DEF c
  <2> QED
    BY <2>1, <2>4, DumpShows
<1> QED
  BY <1>1, <1>3, <1>4, <1>5, <1>6, <1>7 DEF c

LEMMA CopyOutStep ==
  ASSUME SyslogInv, NEW r \in Readers, CopyOut(r)
  PROVE  SyslogInv'
<1> PICK s : s = IF follow[r] = 1 THEN cur[r] ELSE Oldest(cur[r])
  OBVIOUS
<1>1. /\ rst[r] = "locked" /\ rst' = [rst EXCEPT ![r] = "print"]
      /\ ~ (follow[r] = 1 /\ cur[r] = tail)
      /\ copy' = [copy EXCEPT ![r] = IF s = -1 THEN <<Unset>> ELSE Bytes(s)]
      /\ cur' = [cur EXCEPT ![r] = tail]
      /\ sem' = [sem EXCEPT !.readers = @ - 1]
      /\ follow' = [follow EXCEPT ![r] = IF follow[r] = 1 THEN 1 ELSE follow[r] \div 2]
      /\ out' = out /\ UNCHANGED ringVars /\ UNCHANGED writerVars
  BY DEF CopyOut, NothingNew, Following
<1>2. /\ SyslogTypes /\ Storing /\ ReaderInv(r)
      /\ UNCHANGED <<wst, msg, data, tail, size, lens, kills, stuck>>
      /\ LogKept /\ RingKept /\ Stored' = Stored /\ Stored \in Nat
  BY <1>1, Frame
<1>3. ~ stuck /\ wst # "storing" /\ Ring
  BY <1>1, ReaderInside
<1> PICK from : from = IF follow[r] = 1 THEN seen[r].from ELSE Stored
  OBVIOUS
<1> PICK dump : dump = IF follow[r] = 1 THEN seen[r].dump ELSE DumpOf(r)
  OBVIOUS
<1>4. PICK lapped \in BOOLEAN :
        /\ lapped <=> seen[r].lapped \/ (follow[r] = 1 /\ seen[r].unread >= Size)
        /\ seen' = [seen EXCEPT ![r].upto = Stored, ![r].unread = 0,
                                ![r].from = from, ![r].dump = dump, ![r].lapped = lapped]
  <2>1. (seen[r].lapped \/ (follow[r] = 1 /\ seen[r].unread >= Size)) \in BOOLEAN
    OBVIOUS
  <2> QED
    BY <2>1 DEF CopyOut, Following
<1>5. /\ seen'[r].upto = Stored /\ seen'[r].unread = 0 /\ seen'[r].torn = seen[r].torn
      /\ seen'[r].from = from /\ seen'[r].dump = dump
      /\ seen'[r].lapped = lapped /\ seen'[r].restarted = seen[r].restarted
      /\ seen'[r] \in Views
  <2>1. seen[r] \in Views
    BY <1>2 DEF SyslogTypes
  <2>2. seen'[r] = [seen[r] EXCEPT !.upto = Stored, !.unread = 0, !.from = from,
                                   !.dump = dump, !.lapped = lapped]
    BY <1>2, <1>4 DEF SyslogTypes
  <2>3. 0 \in 0 .. Size
    BY RingAssumption
  <2>4. from \in Nat /\ dump \in {"no", "due", "blank"}
    BY <2>1, <1>2 DEF Views, DumpOf
  <2> QED
    BY <2>1, <2>2, <2>3, <2>4, <1>2 DEF Views
<1>6. PICK f : f = IF follow[r] = 1 THEN 1 ELSE follow[r] \div 2
  OBVIOUS
<1>7. f \in {0, 1} /\ follow'[r] = f /\ rst'[r] = "print" /\ cur'[r] = tail
  <2>1. follow[r] \in {0, 1, 2}
    BY <1>2 DEF SyslogTypes
  <2>2. f \in {0, 1}
    BY <1>6, <2>1
  <2> QED
    BY <2>2, <1>1, <1>2, <1>6 DEF SyslogTypes
<1>8. copy'[r] = IF s = -1 THEN <<Unset>> ELSE Bytes(s)
  BY <1>1, <1>2 DEF SyslogTypes
<1>9. \A q \in Readers \ {r} : PlaceKept(q) /\ seen'[q] = seen[q]
  <2> TAKE q \in Readers \ {r}
  <2>1. rst'[q] = rst[q] /\ follow'[q] = follow[q] /\ cur'[q] = cur[q] /\ copy'[q] = copy[q] /\ out'[q] = out[q]
    BY <1>1, <1>2 DEF SyslogTypes
  <2>2. seen'[q] = seen[q]
    BY <1>2, <1>4 DEF SyslogTypes
  <2> QED
    BY <2>1, <2>2 DEF PlaceKept
<1>10. SyslogTypes'
  <2>1. rst' \in [Readers -> {"off", "semdown", "locked", "print", "sleep", "done", "dead"}]
    BY <1>1, <1>2 DEF SyslogTypes
  <2>2. seen' \in [Readers -> Views]
    <3>1. DOMAIN seen' = Readers /\ seen' = [q \in Readers |-> seen'[q]]
      BY <1>2, <1>4 DEF SyslogTypes
    <3>2. \A q \in Readers : seen'[q] \in Views
      BY <1>2, <1>5, <1>9 DEF SyslogTypes
    <3> QED
      BY <3>1, <3>2
  <2>3. follow' \in [Readers -> {0, 1, 2}]
    BY <1>1, <1>2, <1>6, <1>7 DEF SyslogTypes
  <2>4. cur' \in [Readers -> 0 .. Size - 1]
    BY <1>1, <1>2 DEF SyslogTypes
  <2>5. copy' = [q \in Readers |-> copy'[q]]
    BY <1>1, <1>2 DEF SyslogTypes
  <2> QED
    BY <1>1, <1>2, <2>1, <2>2, <2>3, <2>4, <2>5 DEF SyslogTypes
<1>11. Locking'
  BY <1>1, ReaderLeaves
<1>12. ASSUME Bound(r)'
       PROVE  /\ size' # 0 /\ copy'[r] # <<Unset>> /\ Copied(r)' /\ Output(r)'
              /\ Position(r)' /\ Reading(r)'
  <2>1. ~ lapped /\ Bound(r)
    BY <1>4, <1>5, <1>12 DEF Bound
  <2>2. /\ size # 0 /\ Output(r) /\ Position(r) /\ Reading(r)
        /\ follow[r] # 1 => out[r] = <<>>
    BY <2>1, <1>1, <1>2, <1>3 DEF ReaderInv, Live
  <2>3. follow[r] = 1 => seen[r].unread < Size /\ cur[r] # tail
    <3>1. seen[r].unread \in 0 .. Size
      BY <1>2 DEF SyslogTypes, Views
    <3> QED
      BY <3>1, <2>1, <1>1, <1>4, RingAssumption
  <2>4. size = Size
    BY <2>2, <1>2 DEF SyslogTypes
  <2>5. PICK c : c = Bytes(s)
    OBVIOUS
  <2>6. /\ s \in 0 .. Size - 1
        /\ c \in Seq(Nat \X Nat)
        /\ \A i \in 1 .. Len(c) : Known(c[i], Stored)
        /\ \A i \in 1 .. Len(c) - 1 : Link(c[i], c[i + 1])
        /\ c # <<>> => /\ c[1] = Cleared \/ c[1][2] = 1 \/ (out[r] = <<>> /\ seen[r].torn)
                       /\ c[Len(c)] \in {Cleared, <<Stored, 0>>}
        /\ follow[r] = 1 => c # <<>> /\ (out[r] = <<>> => Begins(r, c[1]))
        /\ follow[r] # 1 /\ DumpOf(r) = "due" => Len(c) >= 2 /\ c[Len(c)] # Cleared
        /\ out[r] # <<>> => c # <<>> /\ c[1] = <<LastPrinted(r) + 1, 1>>
    BY <2>2, <2>3, <2>4, <2>5, <1>1, <1>2, <1>3, CopiedIsNew
  <2>7. copy'[r] = c
    <3>1. s # -1
      BY <2>6
    <3> QED
      BY <3>1, <2>5, <1>8
  <2>8. copy'[r] # <<Unset>>
    <3> SUFFICES ASSUME c = <<Unset>> PROVE FALSE
      BY <2>7 DEF Unset
    <3>1. c[1] = Unset /\ 1 \in 1 .. Len(c)
      OBVIOUS
    <3>2. c[1] \in Nat \X Nat
      BY <3>1, <2>6
    <3> QED
      BY <3>1, <3>2 DEF Unset
  <2>9. LastPrinted(r)' = LastPrinted(r)
    BY <1>1 DEF LastPrinted, Printed, MessageOf
  <2>10. Copied(r)'
    <3>1. \A i \in 1 .. Len(c) : Known(c[i], Stored)'
      <4>1. Stored <= Stored
        BY <1>2
      <4> QED
        BY <4>1, <2>6, <1>2, KnownKept
    <3>2. \A i \in 1 .. Len(c) - 1 : Link(c[i], c[i + 1])'
      <4> TAKE i \in 1 .. Len(c) - 1
      <4>1. i \in 1 .. Len(c)
        BY <2>6
      <4>2. Known(c[i], Stored) /\ Link(c[i], c[i + 1])
        BY <4>1, <2>6
      <4> QED
        BY <4>2, <1>2, KnownKept
    <3>3. (\A i \in 1 .. Len(copy[r]) : Known(copy[r][i], Stored))'
      BY <2>7, <3>1
    <3>4. (\A i \in 1 .. Len(copy[r]) - 1 : Link(copy[r][i], copy[r][i + 1]))'
      BY <2>7, <3>2
    <3>5. /\ c # <<>> => /\ c[1] = Cleared \/ c[1][2] = 1 \/ (out'[r] = <<>> /\ seen'[r].torn)
                         /\ c[Len(c)] \in {Cleared, <<seen'[r].upto, 0>>}
          /\ out'[r] # <<>> => c # <<>> /\ c[1] = <<LastPrinted(r) + 1, 1>>
      BY <2>6, <1>1, <1>5
    <3>6. (\A i \in 1 .. Len(copy[r]) : Known(copy[r][i], seen[r].upto))'
      BY <3>3, <1>2, <1>5
    <3>7. CASE follow[r] = 1
      <4>1. out[r] = <<>> => seen[r].dump # "due"
        BY <2>2, <1>1 DEF Output, Nothing
      <4>2. out'[r] = <<>> => c # <<>> /\ Begins(r, c[1])' /\ seen'[r].dump # "due"
        BY <4>1, <3>7, <2>6, <1>1, <1>5 DEF Begins
      <4> QED
        BY <4>2, <2>6, <2>7, <2>9, <3>4, <3>5, <3>6 DEF Copied
    <3>8. CASE follow[r] # 1
      <4>1. dump # "no" /\ seen'[r].upto = seen'[r].from
        BY <3>8, <1>5 DEF DumpOf
      <4>2. Dumped(r)'
        BY <4>1, <3>8, <2>6, <2>7, <1>5 DEF Dumped
      <4> QED
        BY <4>2, <2>6, <2>7, <2>9, <3>4, <3>5, <3>6 DEF Copied
    <3> QED
      BY <3>7, <3>8
  <2>11. Output(r)'
    <3>1. rst'[r] \notin {"semdown", "locked", "sleep", "done"}
      BY <1>7
    <3>2. out[r] # <<>> => seen'[r].from = seen[r].from /\ seen'[r].dump = seen[r].dump
      BY <2>2, <1>5
    <3> QED
      BY <2>2, <3>1, <3>2, <1>1, <1>2, <1>5, OutputKept
  <2>12. Position(r)'
    <3>1. tail' = cur'[r] + seen'[r].unread
      BY <1>2, <1>5, <1>7, RingAssumption DEF SyslogTypes
    <3> QED
      BY <3>1 DEF Position
  <2>13. Reading(r)'
    <3>1. Pending(r)' = <<Stored + 1, 1>>
      BY <1>2, <1>3, <1>5, AtBoundary DEF Pending, RingKept
    <3> QED
      BY <3>1, <1>5, <1>7 DEF Reading
  <2> QED
    BY <2>2, <2>8, <2>10, <2>11, <2>12, <2>13, <1>2
<1>13. ReaderInv(r)'
  <2>1. seen'[r].upto <= Stored'
    BY <1>2, <1>5
  <2>2. seen'[r].torn => follow'[r] = 1 /\ seen'[r].dump = "no"
    BY <1>2, <1>5, <1>6, <1>7 DEF ReaderInv
  <2> QED
    BY <2>1, <2>2, <1>7, <1>12 DEF ReaderInv
<1> QED
  BY <1>1, <1>9, <1>10, <1>11, <1>13, OneReaderMoves

LEMMA NoStrings == Strings(<<>>) = <<>>
<1>1. Starts(<<>>) = {}
  BY DEF Starts
<1>2. Cardinality(Starts(<<>>)) = 0
  BY <1>1, FS_EmptySet
<1>3. Strings(<<>>) = [k \in 1 .. 0 |-> StringAt(<<>>, Nth(Starts(<<>>), k))]
  BY <1>2 DEF Strings
<1> QED
  BY <1>3

\* What is printed goes on where the last copy ended.
LEMMA OutputGoesOn ==
  ASSUME SyslogTypes, Storing, NEW r \in Readers, Output(r), Copied(r),
         seen[r].upto <= Stored, seen[r].torn => seen[r].dump = "no"
  PROVE  LET o == out[r] \o Strings(copy[r]) IN
         /\ o \in Seq(Seq(Nat \X Nat))
         /\ \A k \in 1 .. Len(o) :
              /\ MessageOf(o[k][1]) \in 1 .. Stored
              /\ Whole(o[k]) \/ (k = 1 /\ seen[r].torn)
         /\ \A k \in 1 .. Len(o) - 1 : MessageOf(o[k + 1][1]) = MessageOf(o[k][1]) + 1
         /\ IF o # <<>> THEN MessageOf(o[Len(o)][1]) = seen[r].upto ELSE Nothing(r)
         /\ o # <<>> /\ out[r] = <<>> =>
              IF seen[r].dump = "no"
              THEN \/ MessageOf(o[1][1]) = seen[r].from + 1
                   \/ seen[r].torn /\ MessageOf(o[1][1]) = seen[r].from + 2
              ELSE MessageOf(o[1][1]) <= IF seen[r].dump = "due" THEN seen[r].from ELSE seen[r].from + 1
         /\ o # <<>> /\ out[r] # <<>> => o[1] = out[r][1]
<1>o. PICK o : o = out[r] \o Strings(copy[r])
  OBVIOUS
<1>0. /\ Stored \in Nat /\ Stored <= Len(lens) /\ seen[r].upto \in Nat /\ seen[r].from \in Nat
      /\ seen[r].upto <= Len(lens) /\ seen[r].dump \in {"no", "due", "blank"}
  <2>1. Stored \in Nat /\ Stored <= Len(lens) /\ Len(lens) \in Nat
    BY StoredIsNat DEF SyslogTypes
  <2>2. seen[r] \in Views
    BY DEF SyslogTypes
  <2>3. seen[r].upto \in Nat /\ seen[r].from \in Nat /\ seen[r].dump \in {"no", "due", "blank"}
    BY <2>2 DEF Views
  <2> QED
    BY <2>1, <2>3
<1>w. PICK w \in Nat : w = seen[r].upto
  BY <1>0
<1>1. PICK c, u : c = copy[r] /\ u = out[r]
  OBVIOUS
<1>2. /\ c \in Seq(Nat \X Nat)
      /\ \A i \in 1 .. Len(c) : Known(c[i], w)
      /\ \A i \in 1 .. Len(c) - 1 : Link(c[i], c[i + 1])
      /\ c # <<>> => /\ c[1] = Cleared \/ c[1][2] = 1 \/ (u = <<>> /\ seen[r].torn)
                     /\ c[Len(c)] \in {Cleared, <<seen[r].upto, 0>>}
      /\ IF u = <<>>
         THEN Dumped(r) \/ (c # <<>> /\ Begins(r, c[1]) /\ seen[r].dump # "due")
         ELSE c # <<>> /\ c[1] = <<LastPrinted(r) + 1, 1>>
  BY <1>1, <1>w DEF Copied
<1>3. Chain(c, w)
  <2>1. c # <<>> => c[Len(c)][2] = 0
    BY <1>2 DEF Cleared
  <2> QED
    BY <2>1, <1>2 DEF Chain, IsNul
<1>4. PICK s : s = Strings(c)
  OBVIOUS
<1>5. /\ s \in Seq(Seq(Nat \X Nat))
      /\ \A k \in 1 .. Len(s) :
           /\ MessageOf(s[k][1]) \in 1 .. w
           /\ Whole(s[k]) \/ (k = 1 /\ ~ IsNul(c[1]) /\ c[1][2] # 1)
      /\ \A k \in 1 .. Len(s) - 1 : MessageOf(s[k + 1][1]) = MessageOf(s[k][1]) + 1
      /\ c # <<>> /\ ~ IsNul(c[1]) => s # <<>> /\ MessageOf(s[1][1]) = c[1][1]
      /\ s # <<>> => c[Len(c)] = <<MessageOf(s[Len(s)][1]), 0>>
  BY <1>0, <1>w, <1>3, <1>4, StringsOfChain
<1>s. /\ Len(c) >= 2 /\ c[Len(c)] # Cleared => s # <<>>
      /\ c # <<>> /\ IsNul(c[1]) /\ c[1] # Cleared =>
           IF Len(c) = 1 THEN s = <<>>
           ELSE s # <<>> /\ MessageOf(s[1][1]) = c[1][1] + 1
  BY <1>0, <1>w, <1>3, <1>4, StringsBegin
<1>6. /\ u \in Seq(Seq(Nat \X Nat))
      /\ \A k \in 1 .. Len(u) :
           /\ MessageOf(u[k][1]) \in 1 .. Stored
           /\ Whole(u[k]) \/ (k = 1 /\ seen[r].torn)
      /\ \A k \in 1 .. Len(u) - 1 : MessageOf(u[k + 1][1]) = MessageOf(u[k][1]) + 1
      /\ u # <<>> => LastPrinted(r) = MessageOf(u[Len(u)][1])
  <2>1. u \in Seq(Seq(Nat \X Nat)) /\ Len(u) \in Nat
    BY <1>1 DEF Output
  <2>2. Printed(r) = [k \in DOMAIN u |-> MessageOf(u[k][1])]
    BY <1>1 DEF Printed
  <2>3. \A k \in 1 .. Len(u) : Printed(r)[k] = MessageOf(u[k][1])
    BY <2>1, <2>2
  <2>4. u # <<>> => LastPrinted(r) = MessageOf(u[Len(u)][1])
    <3> HAVE u # <<>>
    <3>1. Len(u) \in 1 .. Len(u)
      BY <2>1
    <3> QED
      BY <3>1, <2>3, <1>1 DEF LastPrinted
  <2>5. \A k \in 1 .. Len(u) - 1 : MessageOf(u[k + 1][1]) = MessageOf(u[k][1]) + 1
    <3> TAKE k \in 1 .. Len(u) - 1
    <3>1. k \in 1 .. Len(u) /\ k + 1 \in 1 .. Len(u)
      BY <2>1
    <3>2. Printed(r)[k + 1] = Printed(r)[k] + 1
      BY <1>1 DEF Output
    <3> QED
      BY <3>1, <3>2, <2>3
  <2>6. \A k \in 1 .. Len(u) : /\ MessageOf(u[k][1]) \in 1 .. Stored
                               /\ Whole(u[k]) \/ (k = 1 /\ seen[r].torn)
    BY <2>3, <1>1 DEF Output
  <2> QED
    BY <2>1, <2>4, <2>5, <2>6
<1>7. PICK n \in Nat, m \in Nat : n = Len(u) /\ m = Len(s)
  BY <1>5, <1>6
<1>e. (u = <<>> <=> n = 0) /\ (s = <<>> <=> m = 0)
  BY <1>5, <1>6, <1>7
<1>8. /\ o \in Seq(Seq(Nat \X Nat)) /\ Len(o) = n + m
      /\ \A k \in 1 .. n + m : o[k] = IF k <= n THEN u[k] ELSE s[k - n]
  <2>1. o = u \o s
    BY <1>o, <1>1, <1>4
  <2>2. u \in Seq(Seq(Nat \X Nat)) /\ s \in Seq(Seq(Nat \X Nat))
    BY <1>5, <1>6
  <2>3. /\ u \o s \in Seq(Seq(Nat \X Nat))
        /\ Len(u \o s) = Len(u) + Len(s)
        /\ \A k \in 1 .. Len(u) + Len(s) : (u \o s)[k] = IF k <= Len(u) THEN u[k] ELSE s[k - Len(u)]
    BY <2>2, ConcatProperties
  <2> QED
    BY <2>1, <2>3, <1>7
<1>b. \A k \in 1 .. n + m : k <= n => o[k] = u[k]
  BY <1>8
<1>c. \A k \in 1 .. n + m : ~ (k <= n) => o[k] = s[k - n]
  BY <1>8
<1>i. ASSUME NEW k \in 1 .. n + m
      PROVE  \/ k \in 1 .. n /\ o[k] = u[k]
             \/ k - n \in 1 .. m /\ k > n /\ o[k] = s[k - n]
  <2>1. CASE k <= n
    <3>1. k \in 1 .. n
      BY <2>1
    <3> QED
      BY <3>1, <2>1, <1>b
  <2>2. CASE ~ (k <= n)
    <3>1. k - n \in 1 .. m /\ k > n
      BY <2>2
    <3> QED
      BY <3>1, <2>2, <1>c
  <2> QED
    BY <2>1, <2>2
<1>9. \A k \in 1 .. Len(s) : Whole(s[k]) \/ (k = 1 /\ u = <<>> /\ seen[r].torn)
  <2> TAKE k \in 1 .. Len(s)
  <2>1. CASE Whole(s[k])
    BY <2>1
  <2>2. CASE ~ Whole(s[k])
    <3>1. k = 1 /\ ~ IsNul(c[1]) /\ c[1][2] # 1
      BY <2>2, <1>5
    <3>2. c # <<>>
      <4>1. s # <<>>
        BY <1>7
      <4> QED
        BY <4>1, <1>4, NoStrings
    <3> QED
      BY <3>1, <3>2, <1>2 DEF IsNul, Cleared
  <2> QED
    BY <2>1, <2>2
<1>10. u # <<>> => s # <<>> /\ MessageOf(s[1][1]) = MessageOf(u[Len(u)][1]) + 1
  <2> HAVE u # <<>>
  <2>1. c # <<>> /\ c[1] = <<LastPrinted(r) + 1, 1>>
    BY <1>2
  <2>2. ~ IsNul(c[1]) /\ c[1][1] = LastPrinted(r) + 1
    BY <2>1 DEF IsNul
  <2> QED
    BY <2>1, <2>2, <1>5, <1>6
<1>11. \A k \in 1 .. n + m : /\ MessageOf(o[k][1]) \in 1 .. Stored
                             /\ Whole(o[k]) \/ (k = 1 /\ seen[r].torn)
  <2> TAKE k \in 1 .. n + m
  <2>1. CASE k \in 1 .. n /\ o[k] = u[k]
    BY <2>1, <1>6, <1>7
  <2>2. CASE k - n \in 1 .. m /\ k > n /\ o[k] = s[k - n]
    <3>1. k - n = 1 /\ n = 0 => k = 1
      OBVIOUS
    <3>2. Whole(s[k - n]) \/ (k - n = 1 /\ u = <<>> /\ seen[r].torn)
      BY <2>2, <1>7, <1>9
    <3>3. MessageOf(s[k - n][1]) \in 1 .. Stored
      <4>1. MessageOf(s[k - n][1]) \in 1 .. w
        BY <2>2, <1>5, <1>7
      <4> QED
        BY <4>1, <1>0, <1>w
    <3> QED
      BY <2>2, <3>1, <3>2, <3>3, <1>e
  <2> QED
    BY <2>1, <2>2, <1>i
<1>12. \A k \in 1 .. n + m - 1 : MessageOf(o[k + 1][1]) = MessageOf(o[k][1]) + 1
  <2> TAKE k \in 1 .. n + m - 1
  <2>0. k \in 1 .. n + m /\ k + 1 \in 1 .. n + m
    OBVIOUS
  <2>1. CASE k < n
    <3>1. k \in 1 .. n - 1 /\ k <= n /\ k + 1 <= n
      BY <2>1
    <3>2. o[k] = u[k] /\ o[k + 1] = u[k + 1]
      BY <3>1, <2>0, <1>b, <1>c
    <3> QED
      BY <3>1, <3>2, <1>6, <1>7
  <2>2. CASE k = n
    <3>1. k <= n /\ ~ (k + 1 <= n) /\ k + 1 - n = 1 /\ n # 0
      BY <2>2
    <3>2. o[k] = u[n] /\ o[k + 1] = s[1]
      BY <2>2, <3>1, <2>0, <1>b, <1>c
    <3> QED
      BY <3>1, <3>2, <1>7, <1>e, <1>10
  <2>3. CASE k > n
    <3>1. k - n \in 1 .. m - 1 /\ ~ (k <= n) /\ ~ (k + 1 <= n) /\ k + 1 - n = (k - n) + 1
      BY <2>3
    <3>2. o[k] = s[k - n] /\ o[k + 1] = s[(k - n) + 1]
      BY <3>1, <2>0, <1>b, <1>c
    <3> QED
      BY <3>1, <3>2, <1>5, <1>7
  <2> QED
    BY <2>1, <2>2, <2>3
<1>13. o # <<>> => MessageOf(o[Len(o)][1]) = seen[r].upto
  <2> HAVE o # <<>>
  <2>1. s # <<>> /\ m # 0
    <3>1. n + m # 0
      <4>1. Len(o) # 0
        BY <1>8
      <4> QED
        BY <4>1, <1>8
    <3> QED
      BY <3>1, <1>e, <1>10
  <2>2. o[n + m] = s[m] /\ m \in 1 .. m
    <3>1. n + m \in 1 .. n + m /\ ~ (n + m <= n) /\ (n + m) - n = m /\ m \in 1 .. m
      BY <2>1
    <3> QED
      BY <3>1, <1>c
  <2>3. MessageOf(s[Len(s)][1]) \in 1 .. w /\ c[Len(c)] = <<MessageOf(s[Len(s)][1]), 0>>
    BY <2>1, <2>2, <1>5, <1>7
  <2>4. c # <<>>
    BY <2>1, <1>4, NoStrings
  <2>5. c[Len(c)] \in {<<0, 0>>, <<seen[r].upto, 0>>}
    BY <2>4, <1>2 DEF Cleared
  <2>6. MessageOf(s[Len(s)][1]) # 0
    BY <2>3
  <2>7. MessageOf(s[Len(s)][1]) = seen[r].upto
    BY <2>3, <2>5, <2>6
  <2> QED
    BY <2>2, <2>7, <1>7, <1>8
<1>14. n + m = Len(o)
  BY <1>8
<1>15. \A k \in 1 .. Len(o) : /\ MessageOf(o[k][1]) \in 1 .. Stored
                              /\ Whole(o[k]) \/ (k = 1 /\ seen[r].torn)
  BY <1>11, <1>14
<1>16. \A k \in 1 .. Len(o) - 1 : MessageOf(o[k + 1][1]) = MessageOf(o[k][1]) + 1
  BY <1>12, <1>14
<1>17. o \in Seq(Seq(Nat \X Nat))
  BY <1>8
\* Where the output begins, or why there is none.
<1>18. ASSUME u = <<>>, c # <<>>, Begins(r, c[1]), seen[r].dump # "due"
       PROVE  /\ s # <<>> => \/ MessageOf(s[1][1]) = seen[r].from + 1
                             \/ seen[r].torn /\ MessageOf(s[1][1]) = seen[r].from + 2
              /\ s = <<>> => Nothing(r)
  <2>0. Len(c) \in Nat /\ 1 \in 1 .. Len(c) /\ c[1] \in Nat \X Nat
    <3>1. Len(c) \in Nat /\ 1 \in 1 .. Len(c)
      BY <1>2, <1>18
    <3> QED
      BY <3>1, <1>2
  <2>1. PICK x \in Nat, y \in Nat : c[1] = <<x, y>>
    BY <2>0
  <2>2. CASE y # 0
    <3>1. ~ IsNul(c[1])
      BY <2>1, <2>2 DEF IsNul
    <3>2. s # <<>> /\ MessageOf(s[1][1]) = x
      BY <3>1, <2>1, <1>5, <1>18
    <3>3. x = seen[r].from + 1 \/ (seen[r].torn /\ x = seen[r].from + 2)
      BY <2>1, <1>18 DEF Begins
    <3> QED
      BY <3>2, <3>3
  <2>3. CASE y = 0
    <3>1. seen[r].torn /\ x = seen[r].from + 1
      BY <2>1, <2>3, <1>18 DEF Begins
    <3>2. IsNul(c[1]) /\ c[1] # Cleared
      BY <2>1, <2>3, <3>1, <1>0 DEF IsNul, Cleared
    <3>3. CASE Len(c) = 1
      <4>1. s = <<>>
        BY <3>2, <3>3, <1>s, <1>18
      <4>2. <<x, 0>> = <<seen[r].upto, 0>>
        BY <3>2, <3>3, <2>1, <2>3, <1>2, <1>18
      <4>3. Nothing(r)
        BY <4>2, <3>1, <1>18 DEF Nothing
      <4> QED
        BY <4>1, <4>3
    <3>4. CASE Len(c) # 1
      <4>1. s # <<>> /\ MessageOf(s[1][1]) = x + 1
        BY <3>2, <3>4, <2>1, <1>s, <1>18
      <4> QED
        BY <4>1, <3>1, <1>0
    <3> QED
      BY <3>3, <3>4
  <2> QED
    BY <2>2, <2>3
<1>19. ASSUME u = <<>>, Dumped(r)
       PROVE  /\ s # <<>> => MessageOf(s[1][1]) <= seen[r].from /\ MessageOf(s[1][1]) \in Nat
              /\ s = <<>> => Nothing(r)
  <2>1. s # <<>> => MessageOf(s[1][1]) \in 1 .. w
    <3> HAVE s # <<>>
    <3>1. 1 \in 1 .. Len(s)
      BY <1>5
    <3> QED
      BY <3>1, <1>5
  <2>2. seen[r].upto = seen[r].from
    BY <1>19 DEF Dumped
  <2>3. s = <<>> => seen[r].dump # "due"
    BY <1>s, <1>1, <1>19 DEF Dumped
  <2> QED
    BY <2>1, <2>2, <2>3, <1>0, <1>w DEF Nothing
<1>20. u = <<>> => o = s
  <2> HAVE u = <<>>
  <2>1. o = <<>> \o s
    BY <1>o, <1>1, <1>4
  <2> QED
    BY <2>1, <1>5
<1>21. o = <<>> => Nothing(r)
  <2> HAVE o = <<>>
  <2>1. n + m = 0
    BY <1>8
  <2>2. u = <<>> /\ s = <<>>
    BY <2>1, <1>e
  <2> QED
    BY <2>2, <1>2, <1>18, <1>19
<1>22. o # <<>> /\ u = <<>> =>
         IF seen[r].dump = "no"
         THEN \/ MessageOf(o[1][1]) = seen[r].from + 1
              \/ seen[r].torn /\ MessageOf(o[1][1]) = seen[r].from + 2
         ELSE MessageOf(o[1][1]) <= IF seen[r].dump = "due" THEN seen[r].from ELSE seen[r].from + 1
  <2> HAVE o # <<>> /\ u = <<>>
  <2>0. PICK x : x = MessageOf(o[1][1])
    OBVIOUS
  <2>1. s # <<>> /\ x = MessageOf(s[1][1])
    BY <2>0, <1>20
  <2>2. CASE Dumped(r)
    <3>1. seen[r].dump # "no" /\ x <= seen[r].from /\ x \in Nat
      BY <2>1, <2>2, <1>19 DEF Dumped
    <3>2. x <= seen[r].from + 1
      BY <3>1, <1>0
    <3> QED
      BY <3>1, <3>2, <2>0
  <2>3. CASE c # <<>> /\ Begins(r, c[1]) /\ seen[r].dump # "due"
    <3>1. x = seen[r].from + 1 \/ (seen[r].torn /\ x = seen[r].from + 2)
      BY <2>1, <2>3, <1>18
    <3>2. seen[r].dump # "no" => x <= seen[r].from + 1
      BY <3>1, <1>0
    <3> QED
      BY <3>1, <3>2, <2>0, <2>3
  <2> QED
    BY <2>2, <2>3, <1>2
<1>23. o # <<>> /\ u # <<>> => o[1] = u[1]
  <2> HAVE o # <<>> /\ u # <<>>
  <2>1. 1 \in 1 .. n + m /\ 1 <= n
    BY <1>e
  <2> QED
    BY <2>1, <1>b
<1> QED
  BY <1>1, <1>13, <1>15, <1>16, <1>17, <1>21, <1>22, <1>23, <1>o, Zenon

LEMMA PrintCopyStep ==
  ASSUME SyslogInv, NEW r \in Readers, PrintCopy(r)
  PROVE  SyslogInv'
<1>o. PICK o : o = out[r] \o Strings(copy[r])
  OBVIOUS
<1>1. /\ rst[r] = "print" /\ rst' = [rst EXCEPT ![r] = IF follow[r] = 0 THEN "done" ELSE "semdown"]
      /\ out' = [out EXCEPT ![r] = o] /\ copy' = [copy EXCEPT ![r] = <<>>]
      /\ UNCHANGED <<follow, cur, sem, seen>> /\ UNCHANGED ringVars /\ UNCHANGED writerVars
  BY <1>o DEF PrintCopy
<1>2. /\ SyslogTypes /\ Storing /\ ReaderInv(r)
      /\ UNCHANGED <<wst, msg, data, tail, size, lens, kills, stuck>>
      /\ LogKept /\ RingKept /\ Stored' = Stored /\ Stored \in Nat
  BY <1>1, Frame
<1>3. rst'[r] = (IF follow[r] = 0 THEN "done" ELSE "semdown") /\ out'[r] = o /\ copy'[r] = <<>>
  BY <1>1, <1>2 DEF SyslogTypes
<1>4. \A q \in Readers \ {r} : PlaceKept(q) /\ seen'[q] = seen[q]
  BY <1>1, <1>2 DEF PlaceKept, SyslogTypes
<1>5. SyslogTypes'
  <2>1. rst' \in [Readers -> {"off", "semdown", "locked", "print", "sleep", "done", "dead"}]
    BY <1>1, <1>2 DEF SyslogTypes
  <2>2. copy' = [q \in Readers |-> copy'[q]] /\ out' = [q \in Readers |-> out'[q]]
    BY <1>1, <1>2 DEF SyslogTypes
  <2> QED
    BY <1>1, <1>2, <2>1, <2>2 DEF SyslogTypes
<1>6. Locking'
  <2>1. PICK st : st = IF follow[r] = 0 THEN "done" ELSE "semdown"
    OBVIOUS
  <2> QED
    BY <2>1, <1>1, ReaderOutside
<1>7. ASSUME Bound(r)'
      PROVE  /\ size' # 0 /\ copy'[r] # <<Unset>> /\ Output(r)'
             /\ ~ stuck' => Position(r)' /\ Reading(r)'
  <2>1. Bound(r)
    BY <1>1, <1>7 DEF Bound
  <2>2. /\ size # 0 /\ Copied(r) /\ Output(r)
        /\ ~ stuck => Position(r) /\ Reading(r)
    BY <2>1, <1>1, <1>2 DEF ReaderInv, Live
  <2>3. /\ o \in Seq(Seq(Nat \X Nat))
        /\ \A k \in 1 .. Len(o) :
             /\ MessageOf(o[k][1]) \in 1 .. Stored
             /\ Whole(o[k]) \/ (k = 1 /\ seen[r].torn)
        /\ \A k \in 1 .. Len(o) - 1 : MessageOf(o[k + 1][1]) = MessageOf(o[k][1]) + 1
        /\ IF o # <<>> THEN MessageOf(o[Len(o)][1]) = seen[r].upto ELSE Nothing(r)
        /\ o # <<>> /\ out[r] = <<>> =>
             IF seen[r].dump = "no"
             THEN \/ MessageOf(o[1][1]) = seen[r].from + 1
                  \/ seen[r].torn /\ MessageOf(o[1][1]) = seen[r].from + 2
             ELSE MessageOf(o[1][1]) <= IF seen[r].dump = "due" THEN seen[r].from ELSE seen[r].from + 1
        /\ o # <<>> /\ out[r] # <<>> => o[1] = out[r][1]
    <3>1. seen[r].upto <= Stored /\ (seen[r].torn => seen[r].dump = "no")
      BY <1>2 DEF ReaderInv
    <3> QED
      BY <3>1, <2>2, <1>2, <1>o, OutputGoesOn
  <2>4. Output(r)'
    <3>0. PICK n \in Nat : n = Len(o) /\ DOMAIN o = 1 .. n /\ (o # <<>> => n # 0)
      <4>1. Len(o) \in Nat /\ DOMAIN o = 1 .. Len(o) /\ (o # <<>> => Len(o) # 0)
        BY <2>3
      <4> QED
        BY <4>1
    <3>1. Printed(r)' = [k \in 1 .. n |-> MessageOf(o[k][1])]
      BY <3>0, <1>3 DEF Printed, MessageOf
    <3>2. \A k \in 1 .. n : Printed(r)'[k] = MessageOf(o[k][1])
      BY <3>1
    <3>3. \A k \in 1 .. Len(o) : Whole(o[k])' <=> Whole(o[k])
      BY <1>2 DEF Whole, Message, MessageOf, Byte
    <3>4. \A k \in 1 .. n - 1 : Printed(r)'[k + 1] = Printed(r)'[k] + 1
      <4> TAKE k \in 1 .. n - 1
      <4>1. k \in 1 .. n /\ k + 1 \in 1 .. n
        OBVIOUS
      <4>2. MessageOf(o[k + 1][1]) = MessageOf(o[k][1]) + 1
        BY <3>0, <2>3
      <4> QED
        BY <4>1, <4>2, <3>2
    <3>5. o # <<>> => LastPrinted(r)' = seen'[r].upto
      <4> HAVE o # <<>>
      <4>1. n \in 1 .. n
        BY <3>0
      <4>2. LastPrinted(r)' = Printed(r)'[n]
        BY <3>0, <1>3 DEF LastPrinted
      <4> QED
        BY <4>1, <4>2, <3>0, <3>2, <2>3, <1>1
    <3>6. \A k \in 1 .. Len(o) : /\ Printed(r)'[k] \in 1 .. Stored'
                                 /\ Whole(o[k])' \/ (k = 1 /\ seen'[r].torn)
      BY <3>0, <3>2, <3>3, <2>3, <1>1, <1>2
    <3>7. (\A k \in 1 .. Len(out[r]) : /\ Printed(r)[k] \in 1 .. Stored
                                       /\ Whole(out[r][k]) \/ (k = 1 /\ seen[r].torn))'
      BY <3>6, <1>3
    <3>8. o # <<>> => First(r)'
      <4> HAVE o # <<>>
      <4>1. Printed(r)'[1] = MessageOf(o[1][1])
        <5>1. 1 \in 1 .. n
          BY <3>0
        <5> QED
          BY <5>1, <3>2
      <4>2. CASE out[r] = <<>>
        BY <4>1, <4>2, <2>3, <1>1 DEF First
      <4>3. CASE out[r] # <<>>
        <5>1. First(r)
          BY <4>3, <2>2 DEF Output
        <5>2. Printed(r)[1] = MessageOf(out[r][1][1])
          <6>1. 1 \in DOMAIN out[r]
            BY <4>3, <2>2 DEF Output
          <6> QED
            BY <6>1 DEF Printed
        <5>3. Printed(r)'[1] = Printed(r)[1]
          BY <4>1, <4>3, <5>2, <2>3
        <5> QED
          BY <5>1, <5>3, <1>1 DEF First
      <4> QED
        BY <4>2, <4>3
    <3>9. o = <<>> => Nothing(r)'
      BY <2>3, <1>1 DEF Nothing
    <3> QED
      BY <3>0, <2>3, <3>4, <3>5, <3>7, <3>8, <3>9, <1>3 DEF Output
  <2>5. InTime(r)' => InTime(r)
    BY <1>1 DEF InTime, Live
  <2>6. ~ stuck' => Position(r)'
    BY <2>2, <2>5, <1>1, <1>2 DEF Position
  <2>7. ~ stuck' => Reading(r)'
    <3>1. Pending(r)' = Pending(r)
      BY <1>1, <1>2 DEF Pending, RingKept
    <3>2. Pending(r) = <<seen[r].upto + 1, 1>> \/ ~ InTime(r) \/ follow[r] # 1 \/ stuck
      BY <2>2, <1>1 DEF Reading
    <3>3. CASE o # <<>>
      BY <2>5, <3>1, <3>2, <3>3, <1>1, <1>2, <1>3 DEF Reading
    <3>4. CASE o = <<>>
      <4>1. Nothing(r)
        BY <3>4, <2>3
      <4>2. seen[r].upto \in Nat /\ seen[r].from \in Nat
        BY <1>2 DEF SyslogTypes, Views
      <4>3. Begins(r, <<seen[r].upto + 1, 1>>)
        BY <4>1, <4>2 DEF Nothing, Begins
      <4>4. Begins(r, <<seen[r].upto + 1, 1>>)'
        BY <4>3, <1>1 DEF Begins
      <4>5. Pending(r) = <<seen[r].upto + 1, 1>> => Begins(r, Pending(r))'
        BY <4>4, <3>1, <1>1 DEF Begins
      <4> QED
        BY <4>5, <2>5, <3>1, <3>2, <3>4, <1>1, <1>2, <1>3 DEF Reading
    <3> QED
      BY <3>3, <3>4
  <2> QED
    BY <2>2, <2>4, <2>6, <2>7, <1>2, <1>3
<1>8. ReaderInv(r)'
  <2>1. seen'[r].upto <= Stored'
    BY <1>1, <1>2 DEF ReaderInv
  <2>2. follow'[r] # 1 => rst'[r] = "done"
    <3>1. follow[r] \in {0, 1}
      BY <1>1, <1>2 DEF ReaderInv, SyslogTypes
    <3> QED
      BY <3>1, <1>1, <1>3
  <2>3. rst'[r] \in {"done", "semdown"}
    BY <1>3
  <2>4. seen'[r].torn => follow'[r] = 1 /\ seen'[r].dump = "no"
    BY <1>1, <1>2 DEF ReaderInv
  <2> QED
    BY <2>1, <2>2, <2>3, <2>4, <1>3, <1>7 DEF ReaderInv
<1> QED
  BY <1>1, <1>4, <1>5, <1>6, <1>8, OneReaderMoves

-----------------------------------------------------------------------------
(* The theorems. *)

LEMMA SyslogInvInitial == SyslogInit => SyslogInv
<1> SUFFICES ASSUME SyslogInit PROVE SyslogInv
  OBVIOUS
<1>0. /\ wst = "idle" /\ msg = <<>> /\ lens = <<>> /\ kills = 0 /\ stuck = FALSE
      /\ data = [i \in 0 .. Size |-> Cleared] /\ tail = 0 /\ size = Size
      /\ sem = [readers |-> 0, writer |-> 0]
      /\ rst = [r \in Readers |-> "off"]
      /\ follow \in [Readers -> {0, 1, 2}]
      /\ cur = [r \in Readers |-> 0]
      /\ copy = [r \in Readers |-> <<>>]
      /\ out = [r \in Readers |-> <<>>]
      /\ seen = [r \in Readers |-> [from |-> 0, upto |-> 0, unread |-> 0, dump |-> "no",
                                    lapped |-> FALSE, restarted |-> FALSE, torn |-> FALSE]]
  BY DEF SyslogInit
<1>1. Size \in Nat /\ Size >= 1 /\ 0 \in 0 .. Size - 1 /\ Len(lens) = 0
  BY <1>0, RingAssumption
<1>2. SyslogTypes
  <2>1. /\ msg \in Seq(Nat \X Nat) /\ lens \in Seq(Lengths) /\ Len(lens) <= MaxMessages
        /\ kills \in 0 .. MaxKills /\ stuck \in BOOLEAN
    <3>1. <<>> \in Seq(Nat \X Nat) /\ <<>> \in Seq(Lengths)
      OBVIOUS
    <3>2. 0 <= MaxMessages /\ 0 \in 0 .. MaxKills
      BY SyslogAssumption
    <3> QED
      BY <1>0, <1>1, <3>1, <3>2
  <2>2. data \in [0 .. Size -> RingBytes] /\ data[Size] = Cleared
    BY <1>0, <1>1 DEF RingBytes
  <2>3. cur \in [Readers -> 0 .. Size - 1] /\ tail \in 0 .. Size - 1
    BY <1>0, <1>1
  <2>4. seen \in [Readers -> Views]
    BY <1>0, <1>1 DEF Views
  <2> QED
    BY <1>0, <2>1, <2>2, <2>3, <2>4 DEF SyslogTypes
<1>3. Locking
  <2>1. Inside = {}
    BY <1>0 DEF Inside
  <2> QED
    BY <1>0, <2>1, FS_EmptySet DEF Locking, Writing
<1>4. Storing
  BY <1>0, <1>1 DEF Storing
<1>5. Ring
  <2>1. \A p \in 0 .. Size - 1 : data[p] = Cleared /\ After(p) \in 0 .. Size - 1
    BY <1>0, <1>1 DEF After
  <2>2. Before(tail) \in 0 .. Size - 1
    BY <1>0, <1>1 DEF Before
  <2>3. Incoming[2] = 1
    BY <1>0 DEF Incoming
  <2> QED
    BY <1>0, <2>1, <2>2, <2>3 DEF Ring, Known, Link
<1>6. \A r \in Readers : ReaderInv(r)
  <2> TAKE r \in Readers
  <2>1. rst[r] = "off" /\ out[r] = <<>> /\ copy[r] = <<>> /\ seen[r].upto = 0 /\ ~ seen[r].torn
    BY <1>0
  <2>2. Stored = 0
    BY <1>0, <1>1 DEF Stored
  <2>3. ~ Live(r)
    BY <2>1 DEF Live
  <2>4. Output(r)
    <3>1. out[r] \in Seq(Seq(Nat \X Nat)) /\ Len(out[r]) = 0
      BY <2>1
    <3> QED
      BY <2>1, <3>1 DEF Output
  <2>5. Position(r) /\ Reading(r)
    BY <2>3 DEF Position, Reading, InTime
  <2> QED
    BY <2>1, <2>2, <2>3, <2>4, <2>5 DEF ReaderInv
<1> QED
  BY <1>2, <1>3, <1>4, <1>5, <1>6 DEF SyslogInv

LEMMA SyslogInvStutters ==
  ASSUME SyslogInv, UNCHANGED syslogVars
  PROVE  SyslogInv'
<1>0. /\ UNCHANGED ringVars /\ UNCHANGED writerVars
      /\ UNCHANGED <<rst, follow, cur, copy, out, sem, seen>>
  BY DEF syslogVars, ringVars, writerVars
<1>1. /\ SyslogTypes /\ Locking /\ Storing
      /\ ~ stuck => Ring
      /\ \A r \in Readers : ReaderInv(r)
      /\ UNCHANGED <<wst, msg, data, tail, size, lens, kills, stuck>>
  BY <1>0, Frame
<1>2. SyslogTypes'
  BY <1>0, <1>1 DEF SyslogTypes
<1>3. Locking'
  BY <1>0, <1>1 DEF Locking, Inside, Writing
<1>4. Storing' /\ (~ stuck' => Ring')
  BY <1>0, <1>1, ReadersLeaveRing
<1>5. \A r \in Readers : ReaderInv(r)'
  <2> TAKE r \in Readers
  <2>1. PlaceKept(r) /\ seen'[r] = seen[r]
    BY <1>0 DEF PlaceKept
  <2> QED
    BY <1>0, <1>1, <2>1, OtherReaders
<1> QED
  BY <1>2, <1>3, <1>4, <1>5 DEF SyslogInv

LEMMA SyslogInvInductive == SyslogInv /\ [SyslogNext]_syslogVars => SyslogInv'
<1> SUFFICES ASSUME SyslogInv, [SyslogNext]_syslogVars
             PROVE  SyslogInv'
  OBVIOUS
<1>1. CASE LogMessage
  BY <1>1, LogMessageStep
<1>2. CASE WriterLock
  BY <1>2, WriterLockStep
<1>3. CASE WriterStep
  BY <1>3, StoreToEndStep, StoreRestStep, WriterUnlockStep DEF WriterStep
<1>4. CASE KillWriter
  BY <1>4, KillWriterStep
<1>5. CASE ClearRing
  BY <1>5, ClearRingStep
<1>6. CASE SetSize
  BY <1>6, SetSizeStep
<1>7. ASSUME NEW r \in Readers, StartReader(r) \/ ReaderStep(r) \/ KillReader(r)
      PROVE  SyslogInv'
  BY <1>7, StartReaderStep, ReaderLockStep, LookAgainStep, CopyOutStep, PrintCopyStep,
     WakeReaderStep, KillReaderStep DEF ReaderStep
<1>8. CASE SyslogDone
  BY <1>8, SyslogInvStutters DEF SyslogDone
<1>9. CASE UNCHANGED syslogVars
  BY <1>9, SyslogInvStutters
<1> QED
  BY <1>1, <1>2, <1>3, <1>4, <1>5, <1>6, <1>7, <1>8, <1>9 DEF SyslogNext

LEMMA SyslogInvAlways == SyslogSpec => []SyslogInv
<1> QED
  BY SyslogInvInitial, SyslogInvInductive, PTL DEF SyslogSpec

LEMMA TypesFromInv == SyslogInv => SyslogTypeOK
<1> SUFFICES ASSUME SyslogInv PROVE SyslogTypeOK
  OBVIOUS
<1>0. SyslogTypes /\ Locking /\ Storing
  BY DEF SyslogInv
<1>1. sem.readers = Cardinality({r \in Readers : rst[r] = "locked"}) /\ sem.writer \in {0, 1}
  BY <1>0 DEF Locking, Inside
<1>2. \A i \in 1 .. Len(msg) : msg[i] \in RingBytes
  <2>1. CASE msg = <<>>
    BY <2>1
  <2>2. CASE wst \in {"semdown", "storing"}
    <3>1. /\ Len(lens) \in 1 .. Len(lens) /\ Len(lens) <= MaxMessages /\ Len(lens) \in Nat
          /\ Len(msg) \in Nat /\ Len(msg) <= LastLength
      BY <2>2, <1>0 DEF SyslogTypes, Storing
    <3>2. LastLength \in 2 .. Size /\ LastLength \in Nat
      BY <3>1, <1>0, LengthsOfMessages DEF LastLength
    <3> TAKE i \in 1 .. Len(msg)
    <3>3. msg[i] = Byte(Len(lens), LastLength - Len(msg) + i, LastLength)
      BY <2>2, <1>0 DEF Storing
    <3>4. LastLength - Len(msg) + i \in 1 .. LastLength
      BY <3>1, <3>2
    <3>5. Len(lens) \in 1 .. MaxMessages
      BY <3>1, SyslogAssumption
    <3> QED
      BY <3>2, <3>3, <3>4, <3>5, RingAssumption DEF Byte, RingBytes
  <2> QED
    BY <2>1, <2>2, <1>0 DEF Storing
<1>3. msg \in Seq(RingBytes)
  <2>1. msg \in Seq(Nat \X Nat)
    BY <1>0 DEF SyslogTypes
  <2>2. Len(msg) \in Nat /\ msg \in [1 .. Len(msg) -> RingBytes]
    BY <2>1, <1>2
  <2> QED
    BY <2>2
<1> QED
  BY <1>0, <1>1, <1>3 DEF SyslogTypes, SyslogTypeOK

LEMMA FaithfulFromInv == SyslogInv => LogReadFaithful
<1> SUFFICES ASSUME SyslogInv, NEW r \in Readers, Bound(r)
             PROVE  LET o == Printed(r)
                        s == seen[r]
                    IN /\ copy[r] # <<Unset>>
                       /\ \A k \in DOMAIN out[r] : Whole(out[r][k]) \/ (k = 1 /\ s.torn)
                       /\ \A k \in 1 .. Len(o) - 1 : o[k + 1] = o[k] + 1
                       /\ o # <<>> => IF s.dump = "no"
                                      THEN o[1] = s.from + 1 \/ (s.torn /\ o[1] = s.from + 2)
                                      ELSE o[1] <= IF s.dump = "due" THEN s.from ELSE s.from + 1
                       /\ rst[r] \in {"sleep", "done"} =>
                            IF o # <<>>
                            THEN o[Len(o)] = s.upto
                            ELSE s.upto = s.from \/ (s.torn /\ s.upto = s.from + 1)
                       /\ s.dump = "due" /\ rst[r] \in {"semdown", "locked", "sleep", "done"} => o # <<>>
  BY Zenon DEF LogReadFaithful, Bound
<1>1. copy[r] # <<Unset>> /\ Output(r)
  BY DEF SyslogInv, ReaderInv
<1>2. DOMAIN out[r] = 1 .. Len(out[r]) /\ Len(out[r]) \in Nat /\ (out[r] = <<>> <=> Len(out[r]) = 0)
  BY <1>1 DEF Output
<1>3. PICK o : o = Printed(r)
  OBVIOUS
<1>n. PICK n \in Nat : n = Len(out[r])
  BY <1>2
<1>4. Len(o) = n /\ (o = <<>> <=> out[r] = <<>>)
  <2>1. o = [k \in 1 .. n |-> MessageOf(out[r][k][1])]
    BY <1>2, <1>3, <1>n DEF Printed
  <2>2. o \in Seq({o[k] : k \in 1 .. n}) /\ Len(o) = n
    BY <2>1
  <2> QED
    BY <2>2, <1>2, <1>n
<1>5. \A k \in DOMAIN out[r] : Whole(out[r][k]) \/ (k = 1 /\ seen[r].torn)
  BY <1>1, <1>2 DEF Output
<1>6. \A k \in 1 .. Len(o) - 1 : o[k + 1] = o[k] + 1
  BY <1>1, <1>3, <1>4, <1>n DEF Output
<1>7. o # <<>> => IF seen[r].dump = "no"
                 THEN o[1] = seen[r].from + 1 \/ (seen[r].torn /\ o[1] = seen[r].from + 2)
                 ELSE o[1] <= IF seen[r].dump = "due" THEN seen[r].from ELSE seen[r].from + 1
  BY <1>1, <1>3, <1>4, <1>n DEF Output, First
<1>8. rst[r] \in {"semdown", "locked", "sleep", "done"} =>
        IF o # <<>> THEN o[Len(o)] = seen[r].upto ELSE Nothing(r)
  BY <1>1, <1>3, <1>4, <1>n DEF Output, LastPrinted
<1>9. rst[r] \in {"sleep", "done"} =>
        IF o # <<>> THEN o[Len(o)] = seen[r].upto
        ELSE seen[r].upto = seen[r].from \/ (seen[r].torn /\ seen[r].upto = seen[r].from + 1)
  BY <1>8 DEF Nothing
<1>10. seen[r].dump = "due" /\ rst[r] \in {"semdown", "locked", "sleep", "done"} => o # <<>>
  BY <1>8 DEF Nothing
<1> QED
  BY <1>1, <1>3, <1>5, <1>6, <1>7, <1>9, <1>10, Zenon

\* Every variable of the ring, of syslogd and of the logread processes keeps
\* its type, and the semaphore counts the readers in the ring: log_to_shmem
\* and logread, with its SMrdn, SMrup and SEM_UNDO, whatever is killed.
THEOREM TypesOfSyslog == SyslogSpec => []SyslogTypeOK
<1> QED
  BY SyslogInvAlways, TypesFromInv, PTL

\* logread prints whole messages in the order log_to_shmem stored them and
\* without a gap, up to the last one there was when it looked; -f begins with
\* the first one stored after it started, and a dump shows the last one; unless
\* it was lapped or syslogd was restarted.
THEOREM LogReadIsFaithful == SyslogSpec => []LogReadFaithful
<1> QED
  BY SyslogInvAlways, FaithfulFromInv, PTL

=============================================================================
