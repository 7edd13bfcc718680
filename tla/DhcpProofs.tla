------------------------------ MODULE DhcpProofs ------------------------------
(***************************************************************************)
(* Proofs about udhcpd and udhcpc, for every number of clients, addresses, *)
(* packets, faults and retries, and every lease time.                      *)
(***************************************************************************)
EXTENDS Dhcp, FiniteSetTheorems, WellFoundedInduction, TLAPS

-----------------------------------------------------------------------------
(* A timeout that is halved until it is 0.                                 *)

\* A set of numbers that has 0 and with each number the next has all of them.
LEMMA Reached ==
  ASSUME NEW last \in Nat, NEW S, 0 \in S,
         \A n \in 0 .. last : n < last /\ n \in S => n + 1 \in S
  PROVE  \A n \in 0 .. last : n \in S
<1> DEFINE missing == {n \in 0 .. last : n \notin S}
<1> SUFFICES ASSUME missing # {} PROVE FALSE
  OBVIOUS
<1>1. missing \subseteq Nat
  OBVIOUS
<1>2. PICK least \in missing : \A d \in missing : ~ (<<d, least>> \in OpToRel(<, Nat))
  <2> HIDE DEF missing
  <2> QED BY <1>1, NatLessThanWellFounded, WFMin
<1>3. least \in 1 .. last /\ least - 1 \in 0 .. last
  OBVIOUS
<1>4. least - 1 \in S => least \in S
  BY <1>3
<1>5. least - 1 \in missing
  BY <1>3, <1>4
<1>6. <<least - 1, least>> \in OpToRel(<, Nat)
  <2>1. OpToRel(<, Nat) = {ss \in Nat \X Nat : ss[1] < ss[2]}
    BY DEF OpToRel
  <2>2. <<least - 1, least>> \in Nat \X Nat /\ <<least - 1, least>>[1] < <<least - 1, least>>[2]
    BY <1>3
  <2> QED BY <2>1, <2>2
<1> QED BY <1>2, <1>5, <1>6

\* The constants, as far as the proofs need them.
LEMMA LeaseFacts ==
  /\ Lease \in Nat /\ Lease >= 4
  /\ MaxDelay \in Nat /\ OfferTime \in Nat /\ Tries \in Nat \ {0}
  /\ Floor \in Nat \ {0}
BY DhcpAssumption

\* h is the function of the halvings of the numbers up to m.
Halving(h, m) ==
  /\ h \in [0 .. m -> Nat]
  /\ \A n \in 0 .. m : h[n] = IF n < 2 THEN 0 ELSE (n \div 2) + h[n \div 2]

LEMMA HalvingExists == \E h : Halving(h, Lease)
<1> DEFINE S == {m \in 0 .. Lease : \E h : Halving(h, m)}
<1>1. Lease \in Nat
  BY LeaseFacts
<1>2. 0 \in S
  <2>1. Halving([n \in 0 .. 0 |-> 0], 0)
    BY DEF Halving
  <2> QED BY <1>1, <2>1
<1>3. ASSUME NEW m \in 0 .. Lease, m < Lease, m \in S PROVE m + 1 \in S
  <2>1. PICK h : Halving(h, m)
    BY <1>3
  <2>2. m \in Nat /\ (m + 1) \div 2 \in 0 .. m
    BY <1>1
  <2>3. PICK new \in Nat : new = IF m + 1 < 2 THEN 0 ELSE ((m + 1) \div 2) + h[(m + 1) \div 2]
    <3>1. h[(m + 1) \div 2] \in Nat
      BY <2>1, <2>2 DEF Halving
    <3> QED BY <2>2, <3>1
  <2> DEFINE g == [n \in 0 .. m + 1 |-> IF n = m + 1 THEN new ELSE h[n]]
  <2>4. g \in [0 .. m + 1 -> Nat]
    BY <2>1, <2>2 DEF Halving
  <2>5. ASSUME NEW n \in 0 .. m + 1
        PROVE  g[n] = IF n < 2 THEN 0 ELSE (n \div 2) + g[n \div 2]
    <3>1. CASE n = m + 1
      <4>1. g[n] = new
        BY <3>1
      <4>2. g[(m + 1) \div 2] = h[(m + 1) \div 2]
        BY <2>2
      <4> HIDE DEF g
      <4> QED BY <2>3, <3>1, <4>1, <4>2
    <3>2. CASE n \in 0 .. m
      <4>1. n # m + 1 /\ n \div 2 \in 0 .. m /\ n \div 2 # m + 1
        BY <2>2, <3>2
      <4>2. g[n] = h[n] /\ g[n \div 2] = h[n \div 2]
        BY <2>2, <4>1
      <4> HIDE DEF g
      <4> QED BY <2>1, <3>2, <4>2 DEF Halving
    <3> QED BY <2>2, <3>1, <3>2
  <2>6. Halving(g, m + 1)
    <3> HIDE DEF g
    <3> QED BY <2>4, <2>5 DEF Halving
  <2>7. m + 1 \in 0 .. Lease
    BY <1>1, <1>3
  <2> QED BY <2>6, <2>7
<1>4. Lease \in S
  <2> HIDE DEF S
  <2> QED BY <1>1, <1>2, <1>3, Reached
<1> QED BY <1>4

LEMMA HalvesIs ==
  /\ Halves \in [0 .. Lease -> Nat]
  /\ \A n \in 0 .. Lease : Halves[n] = IF n < 2 THEN 0 ELSE (n \div 2) + Halves[n \div 2]
<1>1. PICK h : Halving(h, Lease)
  BY HalvingExists
<1>2. h = [n \in 0 .. Lease |-> IF n < 2 THEN 0 ELSE (n \div 2) + h[n \div 2]]
  BY <1>1 DEF Halving
<1>3. Halves = [n \in 0 .. Lease |-> IF n < 2 THEN 0 ELSE (n \div 2) + Halves[n \div 2]]
  BY <1>2, Zenon DEF Halves
<1>4. \A n \in 0 .. Lease : Halves[n] = IF n < 2 THEN 0 ELSE (n \div 2) + Halves[n \div 2]
  BY <1>3
<1> DEFINE S == {m \in 0 .. Lease : \A n \in 0 .. m : Halves[n] \in Nat}
<1>5. Lease \in Nat
  BY LeaseFacts
<1>6. 0 \in S
  BY <1>4, <1>5
<1>7. ASSUME NEW m \in 0 .. Lease, m < Lease, m \in S PROVE m + 1 \in S
  <2>1. m + 1 \in 0 .. Lease /\ (m + 1) \div 2 \in 0 .. m /\ (m + 1) \div 2 \in Nat
    BY <1>5, <1>7
  <2>2. Halves[(m + 1) \div 2] \in Nat /\ Halves[m + 1] \in Nat
    BY <1>4, <1>7, <2>1
  <2>3. \A n \in 0 .. m + 1 : n = m + 1 \/ n \in 0 .. m
    BY <2>1
  <2> QED BY <1>7, <2>1, <2>2, <2>3
<1>8. Lease \in S
  <2> HIDE DEF S
  <2> QED BY <1>5, <1>6, <1>7, Reached
<1>9. \A n \in 0 .. Lease : Halves[n] \in Nat
  BY <1>8
<1> QED BY <1>3, <1>4, <1>9

LEMMA HalvesType == \A n \in 0 .. Lease : Halves[n] \in Nat
BY HalvesIs

\* A longer timeout is not over sooner.
LEMMA HalvesMonotone ==
  ASSUME NEW a \in 0 .. Lease, NEW b \in 0 .. Lease, a <= b
  PROVE  Halves[a] <= Halves[b]
<1> DEFINE S == {m \in 0 .. Lease : \A y \in 0 .. m, x \in 0 .. m : x <= y => Halves[x] <= Halves[y]}
<1>1. Lease \in Nat
  BY LeaseFacts
<1>2. 0 \in S
  BY <1>1, HalvesIs
<1>3. ASSUME NEW m \in 0 .. Lease, m < Lease, m \in S PROVE m + 1 \in S
  <2>1. m + 1 \in 0 .. Lease /\ m \in Nat
    BY <1>1, <1>3
  <2>2. ASSUME NEW x \in 0 .. m PROVE Halves[x] <= Halves[m + 1]
    <3>1. x \in 0 .. Lease /\ Halves[m + 1] \in Nat
      BY <1>1, <2>1, HalvesType
    <3>2. CASE x < 2
      <4>1. Halves[x] = 0
        BY <3>1, <3>2, HalvesIs
      <4> QED BY <3>1, <4>1
    <3>3. CASE x >= 2
      <4>1. x \div 2 \in 0 .. m
        BY <2>1
      <4>2. (m + 1) \div 2 \in 0 .. m
        BY <2>1
      <4>3. x \div 2 <= (m + 1) \div 2
        BY <2>1
      <4>4. Halves[x \div 2] <= Halves[(m + 1) \div 2]
        BY <1>3, <4>1, <4>2, <4>3
      <4>5. Halves[x] = (x \div 2) + Halves[x \div 2]
        BY <3>1, <3>3, HalvesIs
      <4>6. m + 1 >= 2
        BY <2>1, <3>3
      <4>7. Halves[m + 1] = ((m + 1) \div 2) + Halves[(m + 1) \div 2]
        BY <2>1, <4>6, HalvesIs
      <4>8. Halves[x \div 2] \in Nat /\ Halves[(m + 1) \div 2] \in Nat
        <5>1. x \div 2 \in 0 .. Lease /\ (m + 1) \div 2 \in 0 .. Lease
          BY <1>1, <2>1, <4>1, <4>2
        <5> QED BY <5>1, HalvesType
      <4> QED BY <4>1, <4>2, <4>3, <4>4, <4>5, <4>7, <4>8
    <3> QED BY <2>1, <3>2, <3>3
  <2>3. Halves[m + 1] <= Halves[m + 1]
    BY <2>1, HalvesType
  <2>4. \A n \in 0 .. m + 1 : n = m + 1 \/ n \in 0 .. m
    BY <2>1
  <2>5. ASSUME NEW y \in 0 .. m + 1, NEW x \in 0 .. m + 1, x <= y
        PROVE  Halves[x] <= Halves[y]
    <3>1. CASE y = m + 1
      BY <2>2, <2>3, <2>4, <3>1
    <3>2. CASE y \in 0 .. m
      <4>1. x \in 0 .. m
        BY <2>1, <2>5, <3>2
      <4> QED BY <1>3, <2>5, <3>2, <4>1
    <3> QED BY <2>4, <3>1, <3>2
  <2> QED BY <2>1, <2>5
<1>4. Lease \in S
  <2> HIDE DEF S
  <2> QED BY <1>1, <1>2, <1>3, Reached
<1> QED BY <1>4

\* What is left after the next halving is what was left when it was due.
LEMMA HalvesStep ==
  ASSUME NEW n \in 0 .. Lease
  PROVE  n \div 2 \in 0 .. Lease /\ (n \div 2) + Halves[n \div 2] = Halves[n]
<1>1. Lease \in Nat /\ n \in Nat
  BY LeaseFacts
<1>2. n \div 2 \in 0 .. Lease
  BY <1>1
<1>3. CASE n < 2
  <2>1. n \div 2 = 0
    BY <1>1, <1>3
  <2>2. Halves[n] = 0 /\ Halves[0] = 0
    BY <1>1, <1>3, HalvesIs
  <2> QED BY <1>2, <2>1, <2>2
<1>4. CASE n >= 2
  BY <1>1, <1>2, <1>4, HalvesIs
<1> QED BY <1>1, <1>3, <1>4

\* A client that takes an ACK holds the address for less than a lease, however
\* late the ACK is.
LEMMA HalvesOfLease ==
  /\ Halves[Lease] \in Nat
  /\ Halves[Lease] + MaxDelay <= Lease
  /\ \A n \in 0 .. Lease \div 2 : Halves[n] \in Nat /\ n + Halves[n] <= Halves[Lease]
<1>1. Lease \in Nat /\ Lease \in 0 .. Lease /\ MaxDelay \in Nat
  BY LeaseFacts
<1>2. Halves[Lease] \in Nat
  BY <1>1, HalvesType
<1>3. ASSUME NEW n \in 0 .. Lease \div 2
      PROVE  Halves[n] \in Nat /\ n + Halves[n] <= Halves[Lease]
  <2>1. Lease \div 2 \in 0 .. Lease /\ n \in 0 .. Lease /\ n <= Lease \div 2
    BY <1>1
  <2>2. Halves[n] <= Halves[Lease \div 2]
    BY <2>1, HalvesMonotone
  <2>3. (Lease \div 2) + Halves[Lease \div 2] = Halves[Lease]
    BY <1>1, HalvesStep
  <2>4. Halves[n] \in Nat /\ Halves[Lease \div 2] \in Nat
    BY <2>1, HalvesType
  <2> QED BY <2>1, <2>2, <2>3, <2>4
<1> QED BY <1>1, <1>2, <1>3, DelayAssumption
-----------------------------------------------------------------------------
(* The lease table.                                                        *)

\* A table that has at most most leases: one of an address, one of a client.
WellFormed(table, most) ==
  /\ IsFiniteSet(table) /\ Cardinality(table) <= most
  /\ \A e, f \in table : e.nip = f.nip => e = f
  /\ \A e, f \in table : e.mac = f.mac /\ e.mac # NoMac => e = f

\* The table has a lease of ip for c with n ticks left or more.
In(table, c, ip, n) == \E e \in table : e.mac = c /\ e.nip = ip /\ e.left >= n

\* The lease of the address, if there is one, may be taken for mac.
Free(mac, ip) == \A e \in leases : e.nip = ip => e.mac = mac \/ e.left < 0

LEMMA FewerLeases ==
  ASSUME NEW table, NEW few \in SUBSET table, NEW most \in Nat, WellFormed(table, most)
  PROVE  WellFormed(few, most)
<1>1. IsFiniteSet(few) /\ Cardinality(few) <= Cardinality(table)
  BY FS_Subset DEF WellFormed
<1>2. Cardinality(few) \in Nat /\ Cardinality(table) \in Nat
  BY <1>1, FS_CardinalityType DEF WellFormed
<1>3. Cardinality(few) <= most
  BY <1>1, <1>2 DEF WellFormed
<1> QED BY <1>1, <1>3, Zenon DEF WellFormed

LEMMA Image ==
  ASSUME NEW S, IsFiniteSet(S), NEW V, NEW g \in [S -> V]
  PROVE  /\ IsFiniteSet({g[x] : x \in S})
         /\ Cardinality({g[x] : x \in S}) <= Cardinality(S)
<1> DEFINE T == {g[x] : x \in S}
<1>1. g \in Surjection(S, T)
  BY DEF Surjection
<1>2. IsFiniteSet(T) /\ Cardinality(T) <= Cardinality(S)
  <2> HIDE DEF T
  <2> QED BY <1>1, FS_Surjection
<1> QED BY <1>2

\* A lease that is changed keeps its address, and its client if it has one.
LEMMA ChangedLeases ==
  ASSUME NEW table, NEW most \in Nat, WellFormed(table, most),
         NEW new, NEW V, NEW changed \in [table -> V],
         new = {changed[e] : e \in table},
         \A e \in table : /\ changed[e].nip = e.nip
                          /\ changed[e].mac \in {e.mac, NoMac}
  PROVE  WellFormed(new, most)
<1>1. IsFiniteSet(new) /\ Cardinality(new) <= Cardinality(table)
  <2>1. IsFiniteSet(table)
    BY DEF WellFormed
  <2>2. /\ IsFiniteSet({changed[e] : e \in table})
        /\ Cardinality({changed[e] : e \in table}) <= Cardinality(table)
    BY <2>1, Image
  <2> QED BY <2>2
<1>2. Cardinality(new) \in Nat /\ Cardinality(table) \in Nat
  BY <1>1, FS_CardinalityType DEF WellFormed
<1>3. Cardinality(new) <= most
  BY <1>1, <1>2 DEF WellFormed
<1>4. \A e, f \in new : e.nip = f.nip => e = f
  BY DEF WellFormed
<1>5. \A e, f \in new : e.mac = f.mac /\ e.mac # NoMac => e = f
  BY DEF WellFormed
<1> QED BY <1>1, <1>3, <1>4, <1>5 DEF WellFormed

\* add_lease, for any of the tables it may leave.
LEMMA AddLeaseTables ==
  ASSUME NEW mac, NEW ip, NEW left, NEW table \in AddLease(mac, ip, left)
  PROVE  /\ Entry(mac, ip, left) \in table
         /\ table \subseteq ClearLeases(mac, ip) \cup {Entry(mac, ip, left)}
         /\ \A e \in ClearLeases(mac, ip) : e \in table \/ e.left < 0
BY DEF AddLease, Expired

LEMMA AddLeaseWellFormed ==
  ASSUME NEW mac, NEW ip, NEW left, NEW table \in AddLease(mac, ip, left),
         max_leases \in Nat, WellFormed(leases, max_leases)
  PROVE  WellFormed(table, max_leases)
<1>1. PICK cleared : cleared = ClearLeases(mac, ip)
  OBVIOUS
<1>2. PICK new : new = Entry(mac, ip, left)
  OBVIOUS
<1>3. cleared \in SUBSET leases /\ new.mac = mac /\ new.nip = ip
  BY <1>1, <1>2 DEF ClearLeases, Entry
<1>4. WellFormed(cleared, max_leases)
  BY <1>3, FewerLeases
<1>5. IsFiniteSet(cleared) /\ Cardinality(cleared) \in Nat
  BY <1>4, FS_CardinalityType DEF WellFormed
<1>6. \A e \in cleared : e.nip # ip /\ (mac = NoMac \/ e.mac # mac)
  BY <1>1 DEF ClearLeases
<1>7. ASSUME NEW rest \in SUBSET cleared, table = rest \cup {new},
             Cardinality(rest) + 1 <= max_leases
      PROVE  WellFormed(table, max_leases)
  <2>1. IsFiniteSet(rest) /\ Cardinality(rest) \in Nat
    BY <1>5, FS_Subset, FS_CardinalityType
  <2>2. IsFiniteSet(table) /\ Cardinality(table) <= Cardinality(rest) + 1
    <3>1. IsFiniteSet(rest \cup {new})
      BY <2>1, FS_AddElement
    <3>2. Cardinality(rest \cup {new}) \in {Cardinality(rest), Cardinality(rest) + 1}
      BY <2>1, FS_AddElement
    <3> QED BY <1>7, <2>1, <3>1, <3>2
  <2>3. Cardinality(table) \in Nat
    BY <2>2, FS_CardinalityType
  <2>4. Cardinality(table) <= max_leases
    BY <1>7, <2>1, <2>2, <2>3
  <2>5. \A e, f \in table : e.nip = f.nip => e = f
    BY <1>3, <1>4, <1>6, <1>7 DEF WellFormed
  <2>6. \A e, f \in table : e.mac = f.mac /\ e.mac # NoMac => e = f
    BY <1>3, <1>4, <1>6, <1>7 DEF WellFormed
  <2> QED BY <2>2, <2>4, <2>5, <2>6 DEF WellFormed
<1>8. CASE Cardinality(cleared) < max_leases
  <2>1. table = cleared \cup {new}
    BY <1>1, <1>2, <1>8 DEF AddLease
  <2>2. Cardinality(cleared) + 1 <= max_leases
    BY <1>5, <1>8
  <2>3. cleared \in SUBSET cleared
    OBVIOUS
  <2> QED BY <1>7, <2>1, <2>2, <2>3
<1>9. CASE ~ (Cardinality(cleared) < max_leases)
  <2>1. PICK e \in Expired(cleared) : table = (cleared \ {e}) \cup {new}
    BY <1>1, <1>2, <1>9 DEF AddLease
  <2>2. Cardinality(cleared \ {e}) = Cardinality(cleared) - 1
    BY <1>5, <2>1, FS_RemoveElement DEF Expired
  <2>3. Cardinality(cleared \ {e}) + 1 <= max_leases
    BY <1>4, <1>5, <2>2 DEF WellFormed
  <2> QED BY <1>7, <2>1, <2>3
<1> QED BY <1>8, <1>9

\* clear_leases and add_lease: when the address is free for mac, no other
\* client loses a lease that has not expired.
LEMMA OthersKeepLeases ==
  ASSUME NEW mac, NEW ip, Free(mac, ip), NEW left,
         NEW table \in AddLease(mac, ip, left) \cup {ClearLeases(mac, ip)},
         NEW c \in Clients, c # mac, NEW held, NEW n \in Nat, In(leases, c, held, n),
         leases \subseteq Rows
  PROVE  In(table, c, held, n)
<1>1. PICK e \in leases : e.mac = c /\ e.nip = held /\ e.left >= n
  BY DEF In
<1>2. e.left \in Int /\ ~ (e.left < 0)
  BY <1>1 DEF Rows
<1>3. e \in ClearLeases(mac, ip)
  BY <1>1, <1>2 DEF ClearLeases, Free
<1>4. e \in table
  BY <1>2, <1>3, AddLeaseTables
<1> QED BY <1>1, <1>4 DEF In
-----------------------------------------------------------------------------
(* The inductive invariant.                                                *)

Segment == IsFiniteSet(net) /\ Cardinality(net) <= bound.packets

Tables == WellFormed(leases, max_leases) /\ WellFormed(file, max_leases)

Pursuit == srv = "search" => search.mac \in Clients /\ search.ip >= 1

Timers ==
  \A c \in Clients :
    /\ client[c].waited <= client[c].timeout
    /\ client[c].st \in Holding => client[c].timeout <= Lease \div 2

\* What a server that is down lacks in its file is lost: those clients are orphaned.
Lost == srv = "down" => unsaved = {}

\* What is true of the state whatever the clients were promised.
Grounds == DhcpTypeOK /\ Segment /\ Tables /\ Pursuit /\ Timers /\ Lost

\* The server has a lease of ip for c that goes on for n ticks, in the table while
\* it runs and in the file unless that is about to be written or could not be.
Covers(c, ip, n) ==
  /\ srv # "down" => In(leases, c, ip, n)
  /\ srv # "write" /\ c \notin unsaved => In(file, c, ip, n)

\* The ticks for which a client goes on that is in this state.
LeftTo(me) == (me.timeout - me.waited) + Halves[me.timeout]

\* An ACK underway is late by its age: what its lease has left covers the client
\* that takes it when it is as late as it can be.
Owed(c) ==
  /\ \A ip \in Ips : Holds(c, ip) => Covers(c, ip, LeftTo(client[c]))
  /\ \A p \in Acks(c) : Covers(c, p.ip, Halves[Lease] + (MaxDelay - p.age))

Owings == \A c \in Clients \ orphaned : Owed(c)

DhcpInv == Grounds /\ Owings

\* The bounds of a behaviour, and what they say of the tables.
LEMMA BoundFacts ==
  ASSUME DhcpTypeOK
  PROVE  /\ bound.ips \in Nat \ {0} /\ bound.packets \in Nat \ {0} /\ bound.faults \in Nat
         /\ max_leases \in Nat /\ Ips \subseteq Nat \ {0}
         /\ 1 \in Ips
<1>1. bound \in [ips : Nat \ {0}, packets : Nat \ {0}, faults : Nat]
  BY DhcpAssumption DEF DhcpTypeOK
<1> QED BY <1>1 DEF DhcpTypeOK, Ips

\* A packet that is sent does not fill the network beyond its bound.
LEMMA SentFits ==
  ASSUME DhcpTypeOK, Segment, NEW few \in SUBSET net, NEW p
  PROVE  /\ IsFiniteSet(few) /\ Cardinality(few) <= bound.packets
         /\ IsFiniteSet(Sent(few, p)) /\ Cardinality(Sent(few, p)) <= bound.packets
         /\ Sent(few, p) \subseteq few \cup {p}
<1>1. IsFiniteSet(few) /\ Cardinality(few) <= Cardinality(net)
  BY FS_Subset DEF Segment
<1>2. Cardinality(few) \in Nat /\ Cardinality(net) \in Nat /\ bound.packets \in Nat
  BY <1>1, FS_CardinalityType, BoundFacts DEF Segment
<1>3. Cardinality(few) <= bound.packets
  BY <1>1, <1>2 DEF Segment
<1>4. IsFiniteSet(few \cup {p})
  BY <1>1, FS_AddElement
<1>5. Cardinality(few \cup {p}) \in {Cardinality(few), Cardinality(few) + 1}
  BY <1>1, FS_AddElement
<1>6. CASE Cardinality(few) < bound.packets
  <2>1. Sent(few, p) = few \cup {p}
    BY <1>6 DEF Sent
  <2>2. Cardinality(few \cup {p}) <= bound.packets
    BY <1>2, <1>5, <1>6
  <2> QED BY <1>1, <1>3, <1>4, <2>1, <2>2
<1>7. CASE ~ (Cardinality(few) < bound.packets)
  <2>1. Sent(few, p) = few
    BY <1>7 DEF Sent
  <2> QED BY <1>1, <1>3, <2>1
<1> QED BY <1>6, <1>7

\* random_xid: there is an identifier that no packet underway has.
LEMMA XidIsFresh ==
  ASSUME DhcpTypeOK, Segment, NEW c \in Clients
  PROVE  /\ FreshXid(c) \in 0 .. bound.packets
         /\ \A p \in net : p.mac = c => p.xid # FreshXid(c)
<1>1. bound.packets \in Nat
  BY BoundFacts
<1>2. \E x \in 0 .. bound.packets : \A p \in net : p.mac = c => p.xid # x
  <2>1. SUFFICES ASSUME \A x \in 0 .. bound.packets : \E p \in net : p.xid = x
                 PROVE  FALSE
    OBVIOUS
  <2>2. PICK xids : xids = [p \in net |-> p.xid]
    OBVIOUS
  <2>3. xids \in [net -> 0 .. bound.packets]
    BY <2>2 DEF DhcpTypeOK, Packets
  <2>4. {xids[p] : p \in net} = 0 .. bound.packets
    BY <2>1, <2>2, <2>3
  <2>5. Cardinality({xids[p] : p \in net}) <= Cardinality(net)
    <3>1. IsFiniteSet(net)
      BY DEF Segment
    <3> QED BY <2>3, <3>1, Image
  <2>6. Cardinality(0 .. bound.packets) = bound.packets + 1
    <3>1. 0 \in Int /\ bound.packets \in Int /\ ~ (0 > bound.packets)
      BY <1>1
    <3>2. Cardinality(0 .. bound.packets) = IF 0 > bound.packets THEN 0 ELSE bound.packets - 0 + 1
      BY <3>1, FS_Interval
    <3> QED BY <1>1, <3>1, <3>2
  <2>7. Cardinality(net) \in Nat
    BY FS_CardinalityType DEF Segment
  <2>8. bound.packets + 1 <= Cardinality(net) /\ Cardinality(net) <= bound.packets
    BY <2>4, <2>5, <2>6 DEF Segment
  <2> QED BY <1>1, <2>7, <2>8
<1> QED BY <1>2 DEF FreshXid
LEMMA PacketType ==
  ASSUME DhcpTypeOK, NEW c \in Clients, NEW xid \in 0 .. bound.packets,
         NEW op \in {"DISCOVER", "OFFER", "SELECT", "RENEW", "ACK", "NAK", "DECLINE", "RELEASE"},
         NEW ip \in 0 .. bound.ips, NEW ci \in 0 .. bound.ips
  PROVE  /\ Packet(op, c, xid, ip, ci) \in Packets
         /\ Packet(op, c, xid, ip, ci).op = op
BY LeaseFacts DEF Packet, Packets

LEMMA ClientFacts ==
  ASSUME DhcpInv, NEW c \in Clients
  PROVE  /\ client[c] \in ClientStates
         /\ client[c].timeout \in 0 .. Lease /\ client[c].waited \in 0 .. client[c].timeout
         /\ client[c].st \in Holding => client[c].timeout <= Lease \div 2
         /\ Halves[client[c].timeout] \in Nat
         /\ LeftTo(client[c]) \in Nat
         /\ LeftTo(client[c]) >= Halves[client[c].timeout]
<1>1. client[c] \in ClientStates
  BY DEF DhcpInv, Grounds, DhcpTypeOK
<1>2. /\ client[c].timeout \in 0 .. Lease /\ client[c].waited \in 0 .. client[c].timeout
      /\ client[c].st \in Holding => client[c].timeout <= Lease \div 2
  BY <1>1, LeaseFacts DEF DhcpInv, Grounds, Timers, ClientStates
<1>3. Halves[client[c].timeout] \in Nat
  BY <1>2, HalvesType
<1> QED BY <1>1, <1>2, <1>3, LeaseFacts DEF LeftTo

\* What covers n ticks covers fewer.
LEMMA CoversLess ==
  ASSUME DhcpTypeOK, NEW c, NEW ip, NEW n \in Int, NEW m \in Int, m <= n, Covers(c, ip, n)
  PROVE  Covers(c, ip, m)
<1>1. \A e \in leases \cup file : e.left \in Int
  BY DEF DhcpTypeOK, Rows
<1>2. \A e \in leases \cup file : e.left >= n => e.left >= m
  BY <1>1
<1> QED BY <1>2 DEF Covers, In

-----------------------------------------------------------------------------
(* Steps of a client.                                                      *)

\* c goes to the state me and sends one packet at most.  It holds no address for
\* longer than the server has the lease, and it takes no ACK underway that it
\* would not have taken before.
LEMMA ClientMoves ==
  ASSUME DhcpInv, NEW c \in Clients, NEW me \in ClientStates,
         me.waited <= me.timeout,
         me.st \in Holding => me.timeout <= Lease \div 2,
         client' = [client EXCEPT ![c] = me],
         NEW few \in SUBSET net, NEW p \in Packets, p.op # "ACK",
         net' = few \/ net' = Sent(few, p),
         faults' \in 0 .. bound.faults,
         UNCHANGED <<configVars, serverVars, orphaned>>,
         c \notin orphaned /\ me.st \in Holding /\ me.requested_ip \in Ips
           => Covers(c, me.requested_ip, LeftTo(me)),
         \/ me.st = "RELEASED"
         \/ me.st = "INIT_SELECTING" /\ me.packet_num = 0 /\ me.timeout = 0
         \/ \A q \in net : q.mac = c => q.xid # me.xid
         \/ me.xid = client[c].xid /\ Expecting(c)
  PROVE  DhcpInv'
<1> USE DEF DhcpInv, Grounds
<1>1. /\ bound' = bound /\ max_leases' = max_leases /\ foreign' = foreign
      /\ srv' = srv /\ search' = search /\ leases' = leases /\ file' = file
      /\ orphaned' = orphaned /\ unsaved' = unsaved
  BY DEF configVars, serverVars
<1>2. client'[c] = me /\ \A d \in Clients \ {c} : client'[d] = client[d]
  BY DEF DhcpTypeOK
<1>3. net' \subseteq net \cup {p} /\ IsFiniteSet(net') /\ Cardinality(net') <= bound.packets
  <2>1. /\ IsFiniteSet(few) /\ Cardinality(few) <= bound.packets
        /\ IsFiniteSet(Sent(few, p)) /\ Cardinality(Sent(few, p)) <= bound.packets
        /\ Sent(few, p) \subseteq few \cup {p}
    BY SentFits
  <2> QED BY <2>1
<1>4. DhcpTypeOK'
  <2>1. client' \in [Clients -> ClientStates]
    BY DEF DhcpTypeOK
  <2>2. ClientStates' = ClientStates /\ Packets' = Packets /\ Rows' = Rows /\ Ips' = Ips
    BY <1>1 DEF ClientStates, Packets, Rows, Ips
  <2>3. net' \subseteq Packets
    BY <1>3 DEF DhcpTypeOK
  <2> QED BY <1>1, <2>1, <2>2, <2>3 DEF DhcpTypeOK
<1>5. Segment'
  BY <1>1, <1>3 DEF Segment
<1>6. Tables' /\ Pursuit' /\ Lost'
  BY <1>1 DEF Tables, Pursuit, Lost
<1>7. Timers'
  BY <1>2 DEF Timers
<1>8. ASSUME NEW d \in Clients \ orphaned
      PROVE  Owed(d)'
  <2>1. Owed(d)
    BY <1>8 DEF Owings
  <2>2. Acks(d)' \subseteq Acks(d)
    BY <1>2, <1>3 DEF Acks, Expecting
  <2>3. ASSUME NEW ip, NEW n, Covers(d, ip, n) PROVE Covers(d, ip, n)'
    BY <1>1, <2>3 DEF Covers, In
  <2>4. ASSUME NEW ip \in Ips, Holds(d, ip)' PROVE Covers(d, ip, LeftTo(client'[d]))
    BY <1>2, <2>1, <2>4 DEF Owed, Holds
  <2>5. (LeftTo(client[d]))' = LeftTo(client'[d])
    BY DEF LeftTo
  <2>6. \A ip \in Ips' : Holds(d, ip)' => Covers(d, ip, LeftTo(client[d]))'
    BY <1>1, <2>3, <2>4, <2>5 DEF Ips
  <2>7. \A q \in Acks(d)' : Covers(d, q.ip, Halves[Lease] + (MaxDelay - q.age))'
    BY <2>1, <2>2, <2>3 DEF Owed
  <2> QED BY <2>6, <2>7 DEF Owed
<1> QED BY <1>1, <1>4, <1>5, <1>6, <1>7, <1>8 DEF Owings
\* send_renew: the lease outlasts the halves of the timeout that is spent.
LEMMA RenewKeeps ==
  ASSUME DhcpInv, NEW c \in Clients, client[c].st \in Holding, NEW st \in Holding,
         NEW timeout \in 0 .. client[c].timeout,
         Halves[timeout] <= LeftTo(client[c]),
         Renew(c, st, timeout), faults' \in 0 .. bound.faults,
         UNCHANGED <<configVars, serverVars, orphaned>>
  PROVE  DhcpInv'
<1>1. PICK me : me = [st |-> st, requested_ip |-> client[c].requested_ip, timeout |-> timeout \div 2,
                      waited |-> 0, packet_num |-> client[c].packet_num, xid |-> client[c].xid]
  OBVIOUS
<1>2. client' = [client EXCEPT ![c] = me]
  BY <1>1 DEF Renew, Turn
<1>3. /\ client[c] \in ClientStates /\ client[c].timeout \in 0 .. Lease
      /\ client[c].timeout <= Lease \div 2 /\ LeftTo(client[c]) \in Nat
  BY ClientFacts
<1>4. Lease \in Nat /\ timeout \in 0 .. Lease /\ timeout <= Lease \div 2
  BY <1>3, LeaseFacts
<1>5. timeout \div 2 \in 0 .. Lease /\ timeout \div 2 <= Lease \div 2
  BY <1>4
<1>6. me \in ClientStates /\ me.waited <= me.timeout /\ me.timeout <= Lease \div 2
  <2>1. /\ client[c].requested_ip \in 0 .. bound.ips /\ client[c].packet_num \in 0 .. Tries
        /\ client[c].xid \in 0 .. bound.packets
    BY <1>3 DEF ClientStates
  <2>2. me \in ClientStates
    BY <1>1, <1>4, <1>5, <2>1 DEF ClientStates
  <2> QED BY <1>1, <1>4, <1>5, <2>2
<1>7. LeftTo(me) = Halves[timeout] /\ LeftTo(me) \in Nat
  <2>1. LeftTo(me) = (timeout \div 2) + Halves[timeout \div 2]
    BY <1>1, <1>4, <1>5 DEF LeftTo
  <2> QED BY <1>4, <2>1, HalvesStep, HalvesType
<1>8. c \notin orphaned /\ me.st \in Holding /\ me.requested_ip \in Ips
        => Covers(c, me.requested_ip, LeftTo(me))
  <2> SUFFICES ASSUME c \notin orphaned, me.requested_ip \in Ips
               PROVE  Covers(c, me.requested_ip, LeftTo(me))
    OBVIOUS
  <2>1. Holds(c, me.requested_ip)
    BY <1>1 DEF Holds
  <2>2. Covers(c, me.requested_ip, LeftTo(client[c]))
    BY <2>1 DEF DhcpInv, Owings, Owed
  <2> QED BY <1>3, <1>7, <2>2, CoversLess DEF DhcpInv, Grounds
<1>9. PICK p : p = Packet("RENEW", c, client[c].xid, 0, client[c].requested_ip)
  OBVIOUS
<1>10. p \in Packets /\ p.op = "RENEW"
  <2>1. /\ client[c].xid \in 0 .. bound.packets /\ client[c].requested_ip \in 0 .. bound.ips
        /\ 0 \in 0 .. bound.ips
    BY <1>3, BoundFacts DEF ClientStates, DhcpInv, Grounds
  <2> QED BY <1>9, <2>1, PacketType DEF DhcpInv, Grounds
<1>11. net' = Sent(net, p)
  BY <1>9 DEF Renew, Send
<1>12. me.xid = client[c].xid /\ Expecting(c)
  BY <1>1 DEF Expecting, Holding
<1> QED BY <1>2, <1>6, <1>8, <1>10, <1>11, <1>12, ClientMoves

\* back to INIT_SELECTING at once: c holds no address and takes no ACK.
LEMMA StartOver ==
  ASSUME DhcpInv, NEW c \in Clients, NEW ip \in 0 .. bound.ips,
         Turn(c, "INIT_SELECTING", ip, 0, 0), net' \subseteq net,
         faults' \in 0 .. bound.faults,
         UNCHANGED <<configVars, serverVars, orphaned>>
  PROVE  DhcpInv'
<1>1. PICK me : me = [st |-> "INIT_SELECTING", requested_ip |-> ip, timeout |-> 0,
                      waited |-> 0, packet_num |-> 0, xid |-> client[c].xid]
  OBVIOUS
<1>2. client' = [client EXCEPT ![c] = me]
  BY <1>1 DEF Turn
<1>3. me \in ClientStates
  <2>1. client[c].xid \in 0 .. bound.packets
    BY ClientFacts DEF ClientStates
  <2>2. 0 \in 0 .. Lease /\ 0 \in 0 .. Tries
    BY LeaseFacts
  <2> QED BY <1>1, <2>1, <2>2 DEF ClientStates
<1>4. PICK p \in Packets : p.op = "NAK"
  <2>1. 0 \in 0 .. bound.packets /\ 0 \in 0 .. bound.ips /\ DhcpTypeOK
    BY BoundFacts DEF DhcpInv, Grounds
  <2> QED BY <2>1, PacketType
<1>5. me.st \notin Holding /\ me.waited <= me.timeout
  BY <1>1 DEF Holding
<1>6. me.st = "INIT_SELECTING" /\ me.packet_num = 0 /\ me.timeout = 0
  BY <1>1
<1> QED BY <1>2, <1>3, <1>4, <1>5, <1>6, ClientMoves

LEMMA RebindKeeps ==
  ASSUME DhcpInv, NEW c \in Clients, client[c].st \in Holding,
         NEW timeout \in 0 .. client[c].timeout,
         Halves[timeout] <= LeftTo(client[c]),
         Rebind(c, timeout), faults' \in 0 .. bound.faults,
         UNCHANGED <<configVars, serverVars, orphaned>>
  PROVE  DhcpInv'
<1>1. CASE timeout > 0
  BY <1>1, RenewKeeps DEF Rebind, Holding
<1>2. CASE ~ (timeout > 0)
  <2>1. client[c].requested_ip \in 0 .. bound.ips
    BY ClientFacts DEF ClientStates
  <2>2. Turn(c, "INIT_SELECTING", client[c].requested_ip, 0, 0) /\ net' = net
    BY <1>2 DEF Rebind
  <2> QED BY <2>1, <2>2, StartOver
<1> QED BY <1>1, <1>2

LEMMA UnicastKeeps ==
  ASSUME DhcpInv, NEW c \in Clients, client[c].st \in Holding, NEW st \in Holding,
         NEW timeout \in 0 .. client[c].timeout,
         Halves[timeout] <= LeftTo(client[c]),
         UnicastRenew(c, st, timeout), faults' \in 0 .. bound.faults,
         UNCHANGED <<configVars, serverVars, orphaned>>
  PROVE  DhcpInv'
BY RenewKeeps, RebindKeeps DEF UnicastRenew
\* A step to a state in which the client holds no address.
LEMMA TurnKeeps ==
  ASSUME DhcpInv, NEW c \in Clients, NEW st \in {"INIT_SELECTING", "REQUESTING", "RELEASED"},
         NEW ip \in 0 .. bound.ips, NEW timeout \in 0 .. 1, NEW n \in 0 .. Tries,
         NEW few \in SUBSET net, NEW p \in Packets, p.op # "ACK",
         Turn(c, st, ip, timeout, n), net' = few \/ net' = Sent(few, p),
         faults' \in 0 .. bound.faults,
         UNCHANGED <<configVars, serverVars, orphaned>>,
         st = "RELEASED" \/ Expecting(c)
  PROVE  DhcpInv'
<1>1. PICK me : me = [st |-> st, requested_ip |-> ip, timeout |-> timeout,
                      waited |-> 0, packet_num |-> n, xid |-> client[c].xid]
  OBVIOUS
<1>2. client' = [client EXCEPT ![c] = me]
  BY <1>1 DEF Turn
<1>3. me \in ClientStates
  <2>1. client[c].xid \in 0 .. bound.packets
    BY ClientFacts DEF ClientStates
  <2>2. 0 \in 0 .. Lease /\ timeout \in 0 .. Lease
    BY LeaseFacts
  <2> QED BY <1>1, <2>1, <2>2 DEF ClientStates
<1>4. me.st \notin Holding /\ me.waited <= me.timeout
  BY <1>1 DEF Holding
<1>5. me.st = "RELEASED" \/ (me.xid = client[c].xid /\ Expecting(c))
  BY <1>1
<1> QED BY <1>2, <1>3, <1>4, <1>5, ClientMoves

\* What a client sends in any state.
LEMMA ClientSends ==
  ASSUME DhcpInv, NEW c \in Clients
  PROVE  /\ client[c].st \in Holding \cup {"INIT_SELECTING", "REQUESTING", "RELEASED"}
         /\ client[c].requested_ip \in 0 .. bound.ips
         /\ client[c].packet_num \in 0 .. Tries /\ client[c].xid \in 0 .. bound.packets
         /\ \A op \in {"DISCOVER", "SELECT", "RELEASE", "NAK", "DECLINE"}, xid \in 0 .. bound.packets,
               ip \in 0 .. bound.ips, ci \in 0 .. bound.ips :
              /\ Packet(op, c, xid, ip, ci) \in Packets
              /\ Packet(op, c, xid, ip, ci).op = op
         /\ 0 \in 0 .. bound.packets /\ 0 \in 0 .. bound.ips
         /\ net \in SUBSET net
<1>1. DhcpTypeOK
  BY DEF DhcpInv, Grounds
<1>2. client[c] \in ClientStates
  BY ClientFacts
<1>3. 0 \in 0 .. bound.packets /\ 0 \in 0 .. bound.ips
  BY <1>1, BoundFacts
<1>4. /\ client[c].st \in Holding \cup {"INIT_SELECTING", "REQUESTING", "RELEASED"}
      /\ client[c].requested_ip \in 0 .. bound.ips
      /\ client[c].packet_num \in 0 .. Tries /\ client[c].xid \in 0 .. bound.packets
  BY <1>2 DEF ClientStates
<1>5. ASSUME NEW op \in {"DISCOVER", "SELECT", "RELEASE", "NAK", "DECLINE"},
             NEW xid \in 0 .. bound.packets, NEW ip \in 0 .. bound.ips, NEW ci \in 0 .. bound.ips
      PROVE  Packet(op, c, xid, ip, ci) \in Packets /\ Packet(op, c, xid, ip, ci).op = op
  BY <1>1, PacketType
<1> QED BY <1>3, <1>4, <1>5

LEMMA DiscoverKeeps ==
  ASSUME DhcpInv, NEW c \in Clients, client[c].st = "INIT_SELECTING",
         Discover(c), faults' = faults, UNCHANGED <<configVars, serverVars, orphaned>>
  PROVE  DhcpInv'
<1>1. faults' \in 0 .. bound.faults /\ DhcpTypeOK /\ Segment
  BY DEF DhcpInv, Grounds, DhcpTypeOK
<1>2. Tries \in Nat \ {0} /\ Lease \in Nat /\ Lease >= 4
  BY LeaseFacts
<1>3. CASE client[c].packet_num < Tries
  <2>1. PICK xid : xid = IF client[c].packet_num = 0 THEN FreshXid(c) ELSE client[c].xid
    OBVIOUS
  <2>2. xid \in 0 .. bound.packets
    BY <1>1, <2>1, ClientSends, XidIsFresh
  <2>3. net' = Sent(net, Packet("DISCOVER", c, xid, client[c].requested_ip, 0))
    BY <1>3, <2>1 DEF Discover, Send
  <2>4. PICK me : me = [st |-> client[c].st, requested_ip |-> client[c].requested_ip,
                        timeout |-> 1, waited |-> 0, packet_num |-> client[c].packet_num + 1,
                        xid |-> xid]
    OBVIOUS
  <2>5. client' = [client EXCEPT ![c] = me]
    BY <1>3, <2>1, <2>4 DEF Discover
  <2>6. me \in ClientStates
    <3>1. client[c].packet_num + 1 \in 0 .. Tries /\ 0 \in 0 .. Lease /\ 1 \in 0 .. Lease
      BY <1>2, <1>3, ClientSends
    <3> QED BY <2>2, <2>4, <3>1, ClientSends DEF ClientStates
  <2>7. me.st \notin Holding /\ me.waited <= me.timeout
    BY <2>4 DEF Holding
  <2>8. PICK p \in Packets : p.op = "DISCOVER" /\ net' = Sent(net, p)
    BY <2>2, <2>3, ClientSends
  <2>9. (\A q \in net : q.mac = c => q.xid # me.xid) \/ (me.xid = client[c].xid /\ Expecting(c))
    <3>1. CASE client[c].packet_num = 0
      BY <1>1, <2>1, <2>4, <3>1, XidIsFresh
    <3>2. CASE client[c].packet_num # 0
      <4>1. client[c].packet_num > 0
        BY <1>2, <3>2, ClientSends
      <4> QED BY <2>1, <2>4, <3>2, <4>1 DEF Expecting
    <3> QED BY <3>1, <3>2
  <2>10. net \in SUBSET net
    OBVIOUS
  <2> QED BY <1>1, <2>5, <2>6, <2>7, <2>8, <2>9, <2>10, ClientMoves
<1>4. CASE ~ (client[c].packet_num < Tries)
  <2>1. Turn(c, "INIT_SELECTING", client[c].requested_ip, 1, 0) /\ net' = net
    BY <1>4 DEF Discover
  <2>2. Expecting(c)
    <3>1. client[c].packet_num > 0
      BY <1>2, <1>4, ClientSends
    <3> QED BY <3>1 DEF Expecting
  <2>3. PICK p \in Packets : p.op = "NAK"
    BY ClientSends
  <2>4. 1 \in 0 .. 1 /\ 0 \in 0 .. Tries /\ net \in SUBSET net
    BY <1>2
  <2> QED BY <1>1, <2>1, <2>2, <2>3, <2>4, ClientSends, TurnKeeps
<1> QED BY <1>3, <1>4

LEMMA SelectKeeps ==
  ASSUME DhcpInv, NEW c \in Clients, client[c].st = "REQUESTING",
         Select(c), faults' = faults, UNCHANGED <<configVars, serverVars, orphaned>>
  PROVE  DhcpInv'
<1>1. faults' \in 0 .. bound.faults
  BY DEF DhcpInv, Grounds, DhcpTypeOK
<1>2. Expecting(c)
  BY DEF Expecting
<1>3. Tries \in Nat \ {0} /\ 1 \in 0 .. 1 /\ net \in SUBSET net
  BY LeaseFacts
<1>4. CASE client[c].packet_num < Tries
  <2>1. PICK n : n = client[c].packet_num + 1
    OBVIOUS
  <2>2. n \in 0 .. Tries
    BY <1>3, <1>4, <2>1, ClientSends
  <2>3. PICK p \in Packets : p.op = "SELECT" /\ net' = Sent(net, p)
    BY <1>4, ClientSends DEF Select, Send
  <2>4. Turn(c, "REQUESTING", client[c].requested_ip, 1, n)
    BY <1>4, <2>1 DEF Select
  <2> QED BY <1>1, <1>2, <1>3, <2>2, <2>3, <2>4, ClientSends, TurnKeeps
<1>5. CASE ~ (client[c].packet_num < Tries)
  <2>1. Turn(c, "INIT_SELECTING", client[c].requested_ip, 1, 0) /\ net' = net
    BY <1>5 DEF Select
  <2>2. PICK p \in Packets : p.op = "NAK"
    BY ClientSends
  <2>3. 0 \in 0 .. Tries
    BY <1>3
  <2> QED BY <1>1, <1>2, <1>3, <2>1, <2>2, <2>3, ClientSends, TurnKeeps
<1> QED BY <1>4, <1>5

LEMMA TimeoutKeeps ==
  ASSUME DhcpInv, NEW c \in Clients, ClientTimeout(c)
  PROVE  DhcpInv'
<1>1. /\ UNCHANGED <<configVars, serverVars, orphaned>> /\ faults' = faults
      /\ faults' \in 0 .. bound.faults
  BY DEF ClientTimeout, DhcpInv, Grounds, DhcpTypeOK
<1>2. client[c].st # "RELEASED"
  BY DEF ClientTimeout, Due
<1>3. CASE client[c].st = "INIT_SELECTING"
  <2>1. Discover(c)
    BY <1>3 DEF ClientTimeout
  <2> QED BY <1>1, <1>3, <2>1, DiscoverKeeps
<1>4. CASE client[c].st = "REQUESTING"
  <2>1. Select(c)
    BY <1>4 DEF ClientTimeout
  <2> QED BY <1>1, <1>4, <2>1, SelectKeeps
<1>5. CASE client[c].st \in Holding
  <2>1. PICK timeout : timeout = client[c].timeout
    OBVIOUS
  <2>2. timeout \in 0 .. client[c].timeout /\ Halves[timeout] <= LeftTo(client[c])
    BY <2>1, ClientFacts
  <2>3. \/ UnicastRenew(c, "RENEWING", timeout)
        \/ UnicastRenew(c, "RENEW_REQUESTED", timeout)
        \/ Rebind(c, timeout)
    <3>1. CASE client[c].st \in {"BOUND", "RENEWING"}
      BY <2>1, <3>1 DEF ClientTimeout
    <3>2. CASE client[c].st = "RENEW_REQUESTED"
      BY <2>1, <3>2 DEF ClientTimeout
    <3>3. CASE client[c].st = "REBINDING"
      BY <2>1, <3>3 DEF ClientTimeout
    <3> QED BY <1>5, <3>1, <3>2, <3>3 DEF Holding
  <2>4. "RENEWING" \in Holding /\ "RENEW_REQUESTED" \in Holding
    BY DEF Holding
  <2> QED BY <1>1, <1>5, <2>2, <2>3, <2>4, UnicastKeeps, RebindKeeps
<1> QED BY <1>2, <1>3, <1>4, <1>5, ClientSends
LEMMA RenewSignalKeeps ==
  ASSUME DhcpInv, NEW c \in Clients, RenewSignal(c)
  PROVE  DhcpInv'
<1>1. /\ UNCHANGED <<configVars, serverVars, orphaned>>
      /\ faults' \in 0 .. bound.faults
  <2>1. faults \in 0 .. bound.faults /\ bound.faults \in Nat
    BY BoundFacts DEF DhcpInv, Grounds, DhcpTypeOK
  <2>2. faults > 0 /\ faults' = faults - 1
    BY DEF RenewSignal
  <2> QED BY <2>1, <2>2 DEF RenewSignal
<1>2. CASE client[c].st \in {"BOUND", "RENEWING", "REBINDING"}
  <2>1. PICK timeout : timeout = IF client[c].timeout > Floor THEN Floor ELSE client[c].timeout
    OBVIOUS
  <2>2. timeout \in 0 .. client[c].timeout
    BY <2>1, ClientFacts, LeaseFacts
  <2>3. Halves[timeout] <= LeftTo(client[c])
    <3>1. client[c].timeout \in 0 .. Lease /\ Lease \in Nat
      BY ClientFacts, LeaseFacts
    <3>2. timeout \in 0 .. Lease /\ timeout <= client[c].timeout
      BY <2>2, <3>1
    <3>3. Halves[timeout] <= Halves[client[c].timeout]
      BY <3>1, <3>2, HalvesMonotone
    <3> QED BY <3>1, <3>2, <3>3, ClientFacts, HalvesType
  <2>4. UnicastRenew(c, "RENEW_REQUESTED", timeout)
    BY <1>2, <2>1 DEF RenewSignal
  <2>5. client[c].st \in Holding /\ "RENEW_REQUESTED" \in Holding
    BY <1>2 DEF Holding
  <2> QED BY <1>1, <2>2, <2>3, <2>4, <2>5, UnicastKeeps
<1>3. CASE client[c].st \notin {"BOUND", "RENEWING", "REBINDING"}
  <2>1. Turn(c, "INIT_SELECTING", client[c].requested_ip, 0, 0) /\ net' \subseteq net
    BY <1>3 DEF RenewSignal
  <2> QED BY <1>1, <2>1, ClientSends, StartOver
<1> QED BY <1>2, <1>3

LEMMA ReleaseSignalKeeps ==
  ASSUME DhcpInv, NEW c \in Clients, ReleaseSignal(c)
  PROVE  DhcpInv'
<1>1. /\ UNCHANGED <<configVars, serverVars, orphaned>>
      /\ faults' \in 0 .. bound.faults
  <2>1. faults \in 0 .. bound.faults /\ bound.faults \in Nat
    BY BoundFacts DEF DhcpInv, Grounds, DhcpTypeOK
  <2>2. faults > 0 /\ faults' = faults - 1
    BY DEF ReleaseSignal
  <2> QED BY <2>1, <2>2 DEF ReleaseSignal
<1>2. Turn(c, "RELEASED", client[c].requested_ip, 0, 0)
  BY DEF ReleaseSignal
<1>3. PICK p \in Packets : p.op = "RELEASE" /\ (net' = net \/ net' = Sent(net, p))
  <2>1. PICK p : p = Packet("RELEASE", c, 0, 0, client[c].requested_ip)
    OBVIOUS
  <2>2. p \in Packets /\ p.op = "RELEASE"
    BY <2>1, ClientSends
  <2>3. net' = net \/ net' = Sent(net, p)
    BY <2>1 DEF ReleaseSignal, Send
  <2> QED BY <2>2, <2>3
<1>4. 0 \in 0 .. 1 /\ 0 \in 0 .. Tries /\ net \in SUBSET net
  BY LeaseFacts
<1>5. client[c].requested_ip \in 0 .. bound.ips /\ p.op # "ACK"
  BY <1>3, ClientSends
<1> QED BY <1>1, <1>2, <1>3, <1>4, <1>5, TurnKeeps

LEMMA OfferKeeps ==
  ASSUME DhcpInv, NEW c \in Clients, NEW q \in net, ReceiveOffer(c, q)
  PROVE  DhcpInv'
<1>1. /\ UNCHANGED <<configVars, serverVars, orphaned>>
      /\ faults' \in 0 .. bound.faults
  BY DEF ReceiveOffer, Listening, DhcpInv, Grounds, DhcpTypeOK
<1>2. Turn(c, "REQUESTING", q.ip, 0, 0)
  BY DEF ReceiveOffer
<1>3. q.ip \in 0 .. bound.ips
  BY DEF DhcpInv, Grounds, DhcpTypeOK, Packets
<1>4. Expecting(c)
  <2>1. client[c].st = "INIT_SELECTING" /\ client[c].waited < client[c].timeout
    BY DEF ReceiveOffer, Listening
  <2>2. client[c].timeout > 0
    BY <2>1, ClientFacts, LeaseFacts
  <2> QED BY <2>1, <2>2 DEF Expecting
<1>5. PICK p \in Packets : p.op = "NAK"
  BY ClientSends
<1>6. net' = net \ {q} /\ net \ {q} \in SUBSET net /\ 0 \in 0 .. 1 /\ 0 \in 0 .. Tries
  BY LeaseFacts DEF ReceiveOffer
<1> QED BY <1>1, <1>2, <1>3, <1>4, <1>5, <1>6, TurnKeeps

LEMMA NakKeeps ==
  ASSUME DhcpInv, NEW c \in Clients, NEW q \in net, ReceiveNak(c, q)
  PROVE  DhcpInv'
<1>1. /\ UNCHANGED <<configVars, serverVars, orphaned>>
      /\ faults' \in 0 .. bound.faults
  BY DEF ReceiveNak, Listening, DhcpInv, Grounds, DhcpTypeOK
<1>2. Turn(c, "INIT_SELECTING", 0, 0, 0) /\ net' \subseteq net
  BY DEF ReceiveNak
<1> QED BY <1>1, <1>2, ClientSends, StartOver

\* The lease outlasts the halves of the timeout that begins at the ACK.
LEMMA AckKeeps ==
  ASSUME DhcpInv, NEW c \in Clients, NEW q \in net, ReceiveAck(c, q)
  PROVE  DhcpInv'
<1>1. /\ UNCHANGED <<configVars, serverVars, orphaned>>
      /\ faults' \in 0 .. bound.faults
  BY DEF ReceiveAck, Listening, DhcpInv, Grounds, DhcpTypeOK
<1>2. q \in Packets /\ q.ip \in 0 .. bound.ips /\ q.age \in 0 .. MaxDelay
  BY DEF DhcpInv, Grounds, DhcpTypeOK, Packets
<1>3. q.op = "ACK" /\ q.mac = c /\ q.xid = client[c].xid
  BY DEF ReceiveAck, Listening
<1>4. Expecting(c) /\ q \in Acks(c)
  <2>1. Expecting(c)
    BY DEF ReceiveAck, Requested, Expecting
  <2> QED BY <1>3, <2>1 DEF Acks
<1>5. Lease \in Nat /\ Tries \in Nat \ {0} /\ Lease >= 4 /\ net \ {q} \in SUBSET net
  BY LeaseFacts
<1>6. CASE Turn(c, "BOUND", q.ip, Lease \div 2, client[c].packet_num) /\ net' = net \ {q}
  <2>1. PICK me : me = [st |-> "BOUND", requested_ip |-> q.ip, timeout |-> Lease \div 2,
                        waited |-> 0, packet_num |-> client[c].packet_num, xid |-> client[c].xid]
    OBVIOUS
  <2>2. client' = [client EXCEPT ![c] = me]
    BY <1>6, <2>1 DEF Turn
  <2>3. Lease \div 2 \in 0 .. Lease /\ 0 \in 0 .. Lease /\ 0 <= Lease \div 2
    BY <1>5
  <2>4. me \in ClientStates /\ me.waited <= me.timeout /\ me.timeout <= Lease \div 2
    <3>1. me \in ClientStates
      BY <1>2, <2>1, <2>3, ClientSends DEF ClientStates, Holding
    <3> QED BY <2>1, <2>3, <3>1
  <2>5. LeftTo(me) = Halves[Lease] /\ Halves[Lease] \in Nat
    <3>1. Lease \in 0 .. Lease
      BY <1>5
    <3>2. LeftTo(me) = (Lease \div 2) + Halves[Lease \div 2]
      BY <2>1, <2>3 DEF LeftTo
    <3> QED BY <3>1, <3>2, HalvesStep, HalvesType
  <2>6. c \notin orphaned /\ me.st \in Holding /\ me.requested_ip \in Ips
          => Covers(c, me.requested_ip, LeftTo(me))
    <3> SUFFICES ASSUME c \notin orphaned PROVE Covers(c, q.ip, LeftTo(me))
      BY <2>1
    <3>1. Covers(c, q.ip, Halves[Lease] + (MaxDelay - q.age))
      BY <1>4 DEF DhcpInv, Owings, Owed
    <3>2. MaxDelay - q.age \in Nat
      BY <1>2, LeaseFacts
    <3>3. PICK late \in Nat : late = MaxDelay - q.age
      BY <3>2
    <3>4. Halves[Lease] <= Halves[Lease] + late /\ Halves[Lease] + late \in Int
      BY <2>5, <3>3
    <3> QED BY <2>5, <3>1, <3>3, <3>4, CoversLess DEF DhcpInv, Grounds
  <2>7. PICK p \in Packets : p.op = "NAK"
    BY ClientSends
  <2>8. me.xid = client[c].xid
    BY <2>1
  <2> QED BY <1>1, <1>4, <1>5, <1>6, <2>2, <2>4, <2>6, <2>7, <2>8, ClientMoves
<1>7. CASE /\ Turn(c, "INIT_SELECTING", 0, 1, 0)
           /\ net' = Sent(net \ {q}, Packet("DECLINE", c, 0, q.ip, 0))
  <2>1. PICK p : p = Packet("DECLINE", c, 0, q.ip, 0)
    OBVIOUS
  <2>2. p \in Packets /\ p.op = "DECLINE"
    BY <1>2, <2>1, ClientSends
  <2>3. net' = Sent(net \ {q}, p)
    BY <1>7, <2>1
  <2>4. 1 \in 0 .. 1 /\ 0 \in 0 .. Tries
    BY <1>5
  <2> QED BY <1>1, <1>4, <1>5, <1>7, <2>2, <2>3, <2>4, ClientSends, TurnKeeps
<1> QED BY <1>6, <1>7 DEF ReceiveAck
-----------------------------------------------------------------------------
(* Steps of the server.                                                    *)

Searches == [mac : Macs, xid : 0 .. bound.packets, ip : 0 .. bound.ips + 1, added : BOOLEAN]

LEMMA ServerGrounds ==
  ASSUME DhcpInv, UNCHANGED <<configVars, client>>,
         NEW few \in SUBSET net, net' = few \/ \E p \in Packets : net' = Sent(few, p),
         srv' \in {"idle", "search", "write", "down"}, search' \in Searches,
         srv' = "search" => search'.mac \in Clients /\ search'.ip >= 1,
         WellFormed(leases', max_leases), leases' \subseteq Rows,
         WellFormed(file', max_leases), file' \subseteq {e \in Rows : e.left >= 0},
         faults' \in 0 .. bound.faults, orphaned' \subseteq Clients,
         unsaved' \subseteq Clients, srv' = "down" => unsaved' = {}
  PROVE  Grounds'
<1>1. bound' = bound /\ max_leases' = max_leases /\ foreign' = foreign /\ client' = client
  BY DEF configVars
<1>2. net' \subseteq net \cup Packets /\ IsFiniteSet(net') /\ Cardinality(net') <= bound.packets
  <2>1. ASSUME NEW p
        PROVE  /\ IsFiniteSet(few) /\ Cardinality(few) <= bound.packets
               /\ IsFiniteSet(Sent(few, p)) /\ Cardinality(Sent(few, p)) <= bound.packets
               /\ Sent(few, p) \subseteq few \cup {p}
    BY SentFits DEF DhcpInv, Grounds
  <2> QED BY <2>1
<1>3. DhcpTypeOK'
  <2>1. ClientStates' = ClientStates /\ Packets' = Packets /\ Rows' = Rows /\ Ips' = Ips
    BY <1>1 DEF ClientStates, Packets, Rows, Ips
  <2>2. net' \subseteq Packets
    BY <1>2 DEF DhcpInv, Grounds, DhcpTypeOK
  <2>3. Cardinality(leases') <= max_leases /\ \A e, f \in leases' : e.nip = f.nip => e = f
    BY DEF WellFormed
  <2>4. bound \in Bounds /\ client \in [Clients -> ClientStates] /\ max_leases \in Ips /\ foreign \subseteq Ips
    BY DEF DhcpInv, Grounds, DhcpTypeOK
  <2>5. search' \in [mac : Macs, xid : 0 .. bound'.packets, ip : 0 .. bound'.ips + 1, added : BOOLEAN]
    BY <1>1 DEF Searches
  <2> QED BY <1>1, <2>1, <2>2, <2>3, <2>4, <2>5 DEF DhcpTypeOK
<1>4. Segment' /\ Tables' /\ Pursuit'
  BY <1>1, <1>2 DEF Segment, Tables, Pursuit
<1>5. Timers'
  BY <1>1 DEF DhcpInv, Grounds, Timers
<1> QED BY <1>3, <1>4, <1>5 DEF Grounds, Lost

\* A client is still owed what it was if what covered it still does.
LEMMA CoverKept ==
  ASSUME DhcpInv, bound' = bound, client' = client, NEW d \in Clients \ orphaned,
         \A q \in net' : q.op = "ACK" /\ q.mac = d => q \in net,
         \A ip \in Promised(d) : \A n \in Nat : Covers(d, ip, n) => Covers(d, ip, n)'
  PROVE  Owed(d)'
<1>1. Owed(d)
  BY DEF DhcpInv, Owings
<1>2. Acks(d)' \subseteq Acks(d)
  BY DEF Acks, Expecting
<1>3. LeftTo(client[d]) \in Nat /\ (LeftTo(client[d]))' = LeftTo(client[d])
  BY ClientFacts DEF LeftTo
<1>4. \A ip \in Ips' : Holds(d, ip)' => Covers(d, ip, LeftTo(client[d]))'
  <2>1. SUFFICES ASSUME NEW ip \in Ips, Holds(d, ip) PROVE Covers(d, ip, LeftTo(client[d]))'
    BY DEF Ips, Holds
  <2>2. Covers(d, ip, LeftTo(client[d])) /\ ip \in Promised(d)
    BY <1>1, <2>1 DEF Owed, Promised
  <2>3. PICK n \in Nat : n = LeftTo(client[d])
    BY <1>3
  <2>4. Covers(d, ip, n)'
    BY <2>2, <2>3
  <2> QED BY <1>3, <2>3, <2>4
<1>5. \A q \in Acks(d)' : Covers(d, q.ip, Halves[Lease] + (MaxDelay - q.age))'
  <2>1. TAKE q \in Acks(d)'
  <2>2. q \in Acks(d) /\ q.age \in 0 .. MaxDelay /\ q.ip \in Promised(d)
    BY <1>2, <2>1 DEF Acks, Promised, DhcpInv, Grounds, DhcpTypeOK, Packets
  <2>3. PICK n : n = Halves[Lease] + (MaxDelay - q.age)
    OBVIOUS
  <2>4. n \in Nat
    BY <2>2, <2>3, HalvesOfLease, LeaseFacts
  <2>5. Covers(d, q.ip, n)'
    BY <1>1, <2>2, <2>3, <2>4 DEF Owed
  <2> QED BY <2>3, <2>5
<1> QED BY <1>4, <1>5 DEF Owed

\* A client keeps what it is owed as long as the leases it has are kept.
LEMMA LeasesKept ==
  ASSUME DhcpInv, bound' = bound, client' = client, file' = file, unsaved' = unsaved,
         srv \notin {"down", "write"},
         NEW d \in Clients \ orphaned,
         \A q \in net' : q.op = "ACK" /\ q.mac = d => q \in net,
         \A ip, n : n \in Nat /\ In(leases, d, ip, n) => In(leases', d, ip, n)
  PROVE  Owed(d)'
<1>1. ASSUME NEW ip, NEW n \in Nat, Covers(d, ip, n) PROVE Covers(d, ip, n)'
  BY <1>1 DEF Covers, In
<1> QED BY <1>1, CoverKept

LEMMA NothingPromised ==
  ASSUME DhcpInv, bound' = bound, client' = client, NEW d \in Clients, Promised(d) = {},
         \A q \in net' : q.op = "ACK" /\ q.mac = d => q \in net
  PROVE  Owed(d)'
<1>1. Acks(d) = {} /\ \A ip \in Ips : ~ Holds(d, ip)
  BY DEF Promised
<1>2. Acks(d)' \subseteq Acks(d)
  BY DEF Acks, Expecting
<1>3. \A ip \in Ips' : ~ Holds(d, ip)'
  BY <1>1 DEF Holds, Ips
<1> QED BY <1>1, <1>2, <1>3 DEF Owed

\* The end of send_offer, for an address that is free: the other clients keep
\* their leases, and c is orphaned if it was promised an address.
LEMMA OfferingKeeps ==
  ASSUME DhcpInv, NEW c \in Clients, NEW xid \in 0 .. bound.packets, NEW ip \in Ips, Free(c, ip),
         NEW few \in SUBSET net, Offer(c, xid, ip, few),
         UNCHANGED <<configVars, client, file, faults, unsaved>>,
         srv \in {"idle", "search"}, srv' = "idle", search' \in Searches
  PROVE  DhcpInv'
<1>1. DhcpTypeOK /\ WellFormed(leases, max_leases) /\ WellFormed(file, max_leases)
  BY DEF DhcpInv, Grounds, Tables
<1>2. max_leases \in Nat
  BY <1>1, BoundFacts
<1>3. bound' = bound /\ client' = client /\ file' = file /\ faults' = faults /\ unsaved' = unsaved
  BY DEF configVars
<1>4. PICK p : p = Packet("OFFER", c, xid, ip, 0)
  OBVIOUS
<1>5. p \in Packets /\ p.op = "OFFER"
  <2>1. ip \in 0 .. bound.ips /\ 0 \in 0 .. bound.ips
    BY <1>1, BoundFacts DEF Ips
  <2> QED BY <1>1, <1>4, <2>1, PacketType
<1>6. net' = few \/ net' = Sent(few, p)
  BY <1>4 DEF Offer
<1>7. leases' \in AddLease(c, ip, OfferTime) \cup {ClearLeases(c, ip)}
  BY DEF Offer
<1>8. ClearLeases(c, ip) \in SUBSET leases /\ leases \subseteq Rows
  BY <1>1 DEF ClearLeases, DhcpTypeOK
<1>9. Entry(c, ip, OfferTime) \in Rows
  BY LeaseFacts DEF Entry, Rows, Macs
<1>10. leases' \subseteq Rows
  BY <1>7, <1>8, <1>9, AddLeaseTables
<1>11. WellFormed(leases', max_leases)
  BY <1>1, <1>2, <1>7, <1>8, AddLeaseWellFormed, FewerLeases
<1>12. CutShort(c) /\ orphaned' \subseteq Clients /\ orphaned \subseteq orphaned'
  BY <1>1 DEF Offer, CutShort, DhcpTypeOK
<1>13. Grounds'
  BY <1>1, <1>3, <1>5, <1>6, <1>10, <1>11, <1>12, ServerGrounds DEF DhcpTypeOK
<1>14. \A q \in net' : q.op = "ACK" => q \in net
  BY <1>5, <1>6 DEF Sent
<1>15. ASSUME NEW d \in Clients \ orphaned' PROVE Owed(d)'
  <2>1. CASE d = c
    <3>1. Promised(c) = {}
      BY <1>12, <2>1 DEF CutShort
    <3> QED BY <1>3, <1>14, <2>1, <3>1, NothingPromised
  <2>2. CASE d # c
    <3>1. d \in Clients \ orphaned
      BY <1>12
    <3>2. \A held, n : n \in Nat /\ In(leases, d, held, n) => In(leases', d, held, n)
      BY <1>7, <1>8, <2>2, OthersKeepLeases
    <3> QED BY <1>3, <1>14, <3>1, <3>2, LeasesKept
  <2> QED BY <2>1, <2>2
<1> QED BY <1>13, <1>15 DEF DhcpInv, Owings
\* What a packet of a client says.
LEMMA PacketFacts ==
  ASSUME DhcpInv, NEW q \in net
  PROVE  /\ q.mac \in Clients /\ q.xid \in 0 .. bound.packets /\ q.ip \in 0 .. bound.ips
         /\ q.ci \in 0 .. bound.ips /\ q.age \in 0 .. MaxDelay
         /\ net \ {q} \in SUBSET net
BY DEF DhcpInv, Grounds, DhcpTypeOK, Packets

LEMMA LeaseTypes ==
  ASSUME DhcpInv
  PROVE  /\ \A e \in leases : e.nip \in Ips /\ e.mac \in Macs /\ e.left \in Int
         /\ \A e, f \in leases : e.nip = f.nip => e = f
         /\ \A e, f \in leases : e.mac = f.mac /\ e.mac # NoMac => e = f
         /\ WellFormed(leases, max_leases) /\ WellFormed(file, max_leases)
         /\ leases \subseteq Rows /\ file \subseteq {e \in Rows : e.left >= 0}
         /\ search \in Searches /\ orphaned \subseteq Clients /\ unsaved \subseteq Clients
         /\ faults \in 0 .. bound.faults
         /\ max_leases \in Nat
<1>1. /\ DhcpTypeOK /\ WellFormed(leases, max_leases) /\ WellFormed(file, max_leases)
      /\ search \in Searches /\ leases \subseteq Rows
  BY DEF DhcpInv, Grounds, Tables, DhcpTypeOK, Searches
<1>2. \A e \in leases : e.nip \in Ips /\ e.mac \in Macs /\ e.left \in Int
  BY <1>1 DEF Rows
<1>3. /\ file \subseteq {e \in Rows : e.left >= 0}
      /\ orphaned \subseteq Clients /\ unsaved \subseteq Clients
      /\ faults \in 0 .. bound.faults
  BY <1>1 DEF DhcpTypeOK
<1>4. /\ \A e, f \in leases : e.nip = f.nip => e = f
      /\ \A e, f \in leases : e.mac = f.mac /\ e.mac # NoMac => e = f
  BY <1>1 DEF WellFormed
<1>5. max_leases \in Nat
  BY <1>1, BoundFacts
<1> QED BY <1>1, <1>2, <1>3, <1>4, <1>5

LEMMA SendOfferKeeps ==
  ASSUME DhcpInv, NEW q \in net, SendOffer(q)
  PROVE  DhcpInv'
<1>1. PICK ip \in Choices(q) : Offer(q.mac, q.xid, ip, net \ {q})
  BY DEF SendOffer
<1>2. /\ UNCHANGED <<configVars, client, file, faults, unsaved>>
      /\ srv = "idle" /\ srv' = "idle" /\ search' = search
  BY DEF SendOffer, Receives
<1>3. ip \in Ips /\ Free(q.mac, ip)
  <2>1. CASE LeaseOf(q.mac) # {}
    <3>1. PICK e \in leases : e.mac = q.mac /\ e.nip = ip
      BY <1>1, <2>1 DEF Choices, LeaseOf
    <3> QED BY <3>1, LeaseTypes DEF Free
  <2>2. CASE LeaseOf(q.mac) = {}
    BY <1>1, <2>2 DEF Choices, Free
  <2> QED BY <2>1, <2>2
<1> QED BY <1>1, <1>2, <1>3, PacketFacts, LeaseTypes, OfferingKeeps

\* A step that sends no ACK and leaves the leases alone.
LEMMA QuietKeeps ==
  ASSUME DhcpInv, UNCHANGED <<configVars, client, leases, file, faults, unsaved, orphaned>>,
         NEW few \in SUBSET net, NEW p \in Packets, p.op # "ACK", net' = few \/ net' = Sent(few, p),
         srv \in {"idle", "search"}, srv' \in {"idle", "search"}, search' \in Searches,
         srv' = "search" => search'.mac \in Clients /\ search'.ip >= 1
  PROVE  DhcpInv'
<1>1. /\ bound' = bound /\ client' = client /\ leases' = leases /\ file' = file
      /\ faults' = faults /\ orphaned' = orphaned /\ unsaved' = unsaved
  BY DEF configVars
<1>2. srv' \in {"idle", "search", "write", "down"}
  OBVIOUS
<1>3. Grounds'
  BY <1>1, <1>2, LeaseTypes, ServerGrounds
<1>4. \A q \in net' : q.op = "ACK" => q \in net
  BY DEF Sent
<1>5. ASSUME NEW d \in Clients \ orphaned' PROVE Owed(d)'
  <2>1. \A ip, n : n \in Nat /\ In(leases, d, ip, n) => In(leases', d, ip, n)
    BY <1>1
  <2> QED BY <1>1, <1>4, <2>1, LeasesKept
<1> QED BY <1>3, <1>5 DEF DhcpInv, Owings

\* Any packet a server may send.
LEMMA ServerSends ==
  ASSUME DhcpInv, NEW q \in net
  PROVE  /\ \A op \in {"ACK", "NAK"}, ip \in 0 .. bound.ips :
              /\ Packet(op, q.mac, q.xid, ip, 0) \in Packets
              /\ Packet(op, q.mac, q.xid, ip, 0).op = op
         /\ 0 \in 0 .. bound.ips
<1>1. DhcpTypeOK /\ 0 \in 0 .. bound.ips
  BY BoundFacts DEF DhcpInv, Grounds
<1> QED BY <1>1, PacketFacts, PacketType

LEMMA SearchKeeps ==
  ASSUME DhcpInv, NEW q \in net, Search(q)
  PROVE  DhcpInv'
<1>1. /\ UNCHANGED <<configVars, client, leases, file, faults, unsaved, orphaned>>
      /\ srv = "idle" /\ srv' = "search" /\ net' = net \ {q}
      /\ search' = [mac |-> q.mac, xid |-> q.xid, ip |-> 1, added |-> FALSE]
  BY DEF Search, Receives
<1>2. bound.ips \in Nat
  BY BoundFacts DEF DhcpInv, Grounds
<1>3. 1 \in 0 .. bound.ips + 1 /\ q.mac \in Macs
  BY <1>2, PacketFacts DEF Macs
<1>4. search' \in Searches
  BY <1>1, <1>3, PacketFacts DEF Searches
<1>5. search'.mac \in Clients /\ search'.ip >= 1
  BY <1>1, PacketFacts
<1>6. PICK p \in Packets : p.op = "NAK"
  BY ServerSends
<1> QED BY <1>1, <1>4, <1>5, <1>6, PacketFacts, QuietKeeps

LEMMA RefuseKeeps ==
  ASSUME DhcpInv, NEW q \in net, Refuse(q)
  PROVE  DhcpInv'
<1>1. /\ UNCHANGED <<configVars, client, leases, file, faults, unsaved, orphaned>>
      /\ srv = "idle" /\ srv' = "idle" /\ search' = search
  BY DEF Refuse, Receives
<1>2. PICK p : p = Packet("NAK", q.mac, q.xid, 0, 0)
  OBVIOUS
<1>3. p \in Packets /\ p.op = "NAK"
  BY <1>2, ServerSends
<1>4. net' = net \ {q} \/ net' = Sent(net \ {q}, p)
  BY <1>2 DEF Refuse
<1> QED BY <1>1, <1>3, <1>4, PacketFacts, LeaseTypes, QuietKeeps
\* nobody_responds_to_arp, for an address that is free.
LEMMA ConflictKeeps ==
  ASSUME DhcpInv, NEW ip \in Ips, Free(NoMac, ip), leases' \in Conflict(ip),
         UNCHANGED <<configVars, client, net, file, faults, unsaved, orphaned>>,
         srv = "search", srv' \in {"idle", "search"}, search' \in Searches,
         srv' = "search" => search'.mac \in Clients /\ search'.ip >= 1
  PROVE  DhcpInv'
<1>1. /\ bound' = bound /\ client' = client /\ net' = net /\ file' = file
      /\ faults' = faults /\ orphaned' = orphaned /\ unsaved' = unsaved
  BY DEF configVars
<1>2. leases' \in AddLease(NoMac, ip, OfferTime) \cup {ClearLeases(NoMac, ip)}
  BY DEF Conflict
<1>3. ClearLeases(NoMac, ip) \in SUBSET leases
  BY DEF ClearLeases
<1>4. Entry(NoMac, ip, OfferTime) \in Rows
  BY LeaseFacts DEF Entry, Rows, Macs
<1>5. leases' \subseteq Rows
  BY <1>2, <1>3, <1>4, AddLeaseTables, LeaseTypes
<1>6. WellFormed(leases', max_leases)
  BY <1>2, <1>3, LeaseTypes, AddLeaseWellFormed, FewerLeases
<1>7. srv' \in {"idle", "search", "write", "down"} /\ net \in SUBSET net
  OBVIOUS
<1>8. Grounds'
  BY <1>1, <1>5, <1>6, <1>7, LeaseTypes, ServerGrounds
<1>9. ASSUME NEW d \in Clients \ orphaned' PROVE Owed(d)'
  <2>1. d # NoMac
    BY DhcpAssumption
  <2>2. \A held, n : n \in Nat /\ In(leases, d, held, n) => In(leases', d, held, n)
    BY <1>2, <2>1, LeaseTypes, OthersKeepLeases
  <2> QED BY <1>1, <2>2, LeasesKept
<1> QED BY <1>8, <1>9 DEF DhcpInv, Owings

LEMMA SearchFacts ==
  ASSUME DhcpInv, srv = "search"
  PROVE  /\ search.mac \in Clients /\ search.xid \in 0 .. bound.packets
         /\ search.ip \in Nat \ {0} /\ search.added \in BOOLEAN
         /\ bound.ips \in Nat
         /\ NotSearching \in Searches
<1>1. DhcpTypeOK /\ Pursuit /\ search \in Searches
  BY LeaseTypes DEF DhcpInv, Grounds
<1>2. bound.ips \in Nat /\ bound.packets \in Nat
  BY <1>1, BoundFacts
<1>3. NotSearching \in Searches
  BY <1>2 DEF NotSearching, Searches, Macs
<1> QED BY <1>1, <1>2, <1>3 DEF Searches, Pursuit

LEMMA FoundKeeps ==
  ASSUME DhcpInv, Searching, NEW ip \in Ips, Free(search.mac, ip), Found(ip)
  PROVE  DhcpInv'
<1>1. UNCHANGED <<configVars, client, file, faults, unsaved>> /\ srv = "search"
  BY DEF Searching
<1>2. Offer(search.mac, search.xid, ip, net) /\ srv' = "idle" /\ search' = NotSearching
  BY DEF Found, EndSearch
<1>3. net \in SUBSET net
  OBVIOUS
<1> QED BY <1>1, <1>2, <1>3, SearchFacts, OfferingKeeps

LEMMA ProbeKeeps ==
  ASSUME DhcpInv, Probe
  PROVE  DhcpInv'
<1>1. Searching /\ UNCHANGED <<configVars, client, file, faults, unsaved>> /\ srv = "search"
  BY DEF Probe, Searching
<1>2. PICK ip \in search.ip .. bound.ips :
        /\ ~ Leased(ip)
        /\ \/ Found(ip)
           \/ /\ leases' \in Conflict(ip)
              /\ search' = [search EXCEPT !.ip = ip + 1, !.added = TRUE]
              /\ UNCHANGED <<net, srv, orphaned>>
  BY DEF Probe
<1>3. ip \in Ips /\ ip + 1 \in 0 .. bound.ips + 1 /\ ip + 1 >= 1
  BY <1>1, <1>2, SearchFacts DEF Ips
<1>4. Free(search.mac, ip) /\ Free(NoMac, ip)
  BY <1>2 DEF Leased, Free
<1>5. CASE Found(ip)
  BY <1>1, <1>3, <1>4, <1>5, FoundKeeps
<1>6. CASE /\ leases' \in Conflict(ip)
           /\ search' = [search EXCEPT !.ip = ip + 1, !.added = TRUE]
           /\ UNCHANGED <<net, srv, orphaned>>
  <2>1. search' \in Searches /\ search'.mac = search.mac /\ search'.ip = ip + 1
    BY <1>3, <1>6, LeaseTypes DEF Searches
  <2>2. search'.mac \in Clients /\ search'.ip >= 1
    BY <1>1, <1>3, <2>1, SearchFacts
  <2> QED BY <1>1, <1>3, <1>4, <1>6, <2>1, <2>2, ConflictKeeps
<1> QED BY <1>2, <1>5, <1>6

LEMMA ProbeOldestKeeps ==
  ASSUME DhcpInv, ProbeOldest
  PROVE  DhcpInv'
<1>1. Searching /\ UNCHANGED <<configVars, client, file, faults, unsaved>> /\ srv = "search"
  BY DEF ProbeOldest, Searching
<1>2. ASSUME NEW e \in Expired(leases)
      PROVE  e.nip \in Ips /\ Free(search.mac, e.nip) /\ Free(NoMac, e.nip)
  BY <1>2, LeaseTypes DEF Expired, Free
<1>3. CASE \E e \in Expired(leases) : Found(e.nip)
  BY <1>1, <1>2, <1>3, FoundKeeps
<1>4. CASE /\ \E e \in Expired(leases) : leases' \in Conflict(e.nip)
           /\ EndSearch /\ UNCHANGED <<net, orphaned>>
  <2>1. PICK e \in Expired(leases) : leases' \in Conflict(e.nip)
    BY <1>4
  <2>2. srv' = "idle" /\ search' = NotSearching /\ search' \in Searches
    BY <1>1, <1>4, SearchFacts DEF EndSearch
  <2> QED BY <1>1, <1>2, <1>4, <2>1, <2>2, ConflictKeeps
<1>5. CASE EndSearch /\ UNCHANGED <<leases, net, orphaned>>
  <2>1. srv' = "idle" /\ search' = NotSearching /\ search' \in Searches
    BY <1>1, <1>5, SearchFacts DEF EndSearch
  <2>2. PICK p \in Packets : p.op = "NAK"
    <3>1. DhcpTypeOK
      BY DEF DhcpInv, Grounds
    <3>2. search.mac \in Clients /\ 0 \in 0 .. bound.packets /\ 0 \in 0 .. bound.ips
      BY <1>1, <3>1, SearchFacts, BoundFacts
    <3> QED BY <3>1, <3>2, PacketType
  <2>3. net' = net /\ net \in SUBSET net
    BY <1>5
  <2> QED BY <1>1, <1>5, <2>1, <2>2, <2>3, QuietKeeps
<1> QED BY <1>3, <1>4, <1>5 DEF ProbeOldest
\* An entry that is there for long enough covers c until the file is written.
LEMMA NewLeaseCovers ==
  ASSUME NEW ip, NEW n \in Int, NEW c, n <= Lease, srv' = "write",
         Entry(c, ip, Lease) \in leases'
  PROVE  Covers(c, ip, n)'
<1>1. Entry(c, ip, Lease).mac = c /\ Entry(c, ip, Lease).nip = ip /\ Entry(c, ip, Lease).left >= n
  BY LeaseFacts DEF Entry
<1> QED BY <1>1 DEF Covers, In

\* What a client is owed is less than a lease.
LEMMA OwedFitsLease ==
  ASSUME DhcpInv, NEW c \in Clients
  PROVE  /\ LeftTo(client[c]) \in Nat
         /\ client[c].st \in Holding => LeftTo(client[c]) <= Lease
         /\ \A age \in 0 .. MaxDelay :
              /\ Halves[Lease] + (MaxDelay - age) \in Nat
              /\ Halves[Lease] + (MaxDelay - age) <= Lease
<1>1. Halves[Lease] \in Nat /\ Halves[Lease] + MaxDelay <= Lease /\ MaxDelay \in Nat /\ Lease \in Nat
  BY HalvesOfLease, LeaseFacts
<1>2. client[c].st \in Holding => LeftTo(client[c]) <= Lease
  <2> SUFFICES ASSUME client[c].st \in Holding PROVE LeftTo(client[c]) <= Lease
    OBVIOUS
  <2>1. client[c].timeout \in 0 .. Lease \div 2 /\ client[c].waited \in 0 .. client[c].timeout
    BY <1>1, ClientFacts
  <2>2. /\ Halves[client[c].timeout] \in Nat
        /\ client[c].timeout + Halves[client[c].timeout] <= Halves[Lease]
    BY <2>1, HalvesOfLease
  <2> QED BY <1>1, <2>1, <2>2 DEF LeftTo
<1> QED BY <1>1, <1>2, ClientFacts

\* add_lease before the ACK is sent: the client has the lease for its whole time.
LEMMA SendAckKeeps ==
  ASSUME DhcpInv, NEW q \in net, SendAck(q)
  PROVE  DhcpInv'
<1>1. PICK c : c = q.mac
  OBVIOUS
<1>2. PICK ip : ip = IF q.op = "SELECT" THEN q.ip ELSE q.ci
  OBVIOUS
<1>3. PICK p : p = Packet("ACK", c, q.xid, ip, 0)
  OBVIOUS
<1>4. /\ srv = "idle" /\ srv' = "write" /\ search' = search
      /\ UNCHANGED <<configVars, client, file, faults, unsaved>>
      /\ bound' = bound /\ client' = client /\ file' = file /\ faults' = faults
      /\ unsaved' = unsaved
  BY DEF SendAck, Receives, configVars
<1>5. PICK old \in leases : old.mac = c /\ old.nip = ip
  BY <1>1, <1>2 DEF SendAck, LeaseOf
<1>6. net' = Sent(net \ {q}, p) /\ leases' \in AddLease(c, ip, Lease)
  BY <1>1, <1>2, <1>3 DEF SendAck
<1>7. orphaned' = IF Promised(c) \subseteq {ip} THEN orphaned \ {c} ELSE orphaned
  BY <1>1, <1>2 DEF SendAck
<1>8. c \in Clients /\ ip \in Ips /\ ip \in 0 .. bound.ips
  BY <1>1, <1>2, <1>5, LeaseTypes, PacketFacts
<1>9. p \in Packets /\ p.op = "ACK" /\ p.mac = c /\ p.ip = ip /\ p.age = 0
  <2>1. p \in Packets /\ p.op = "ACK"
    BY <1>1, <1>3, <1>8, ServerSends
  <2> QED BY <1>3, <2>1 DEF Packet
<1>10. Entry(c, ip, Lease) \in Rows
  BY <1>8, LeaseFacts DEF Entry, Rows, Macs
<1>11. ClearLeases(c, ip) \in SUBSET leases
  BY DEF ClearLeases
<1>12. leases' \subseteq Rows /\ Entry(c, ip, Lease) \in leases'
  BY <1>6, <1>10, <1>11, AddLeaseTables, LeaseTypes
<1>13. WellFormed(leases', max_leases)
  BY <1>6, LeaseTypes, AddLeaseWellFormed
<1>14. Grounds'
  <2>1. srv' \in {"idle", "search", "write", "down"} /\ srv' # "search" /\ orphaned' \subseteq Clients
    BY <1>4, <1>7, LeaseTypes
  <2>2. net \ {q} \in SUBSET net
    OBVIOUS
  <2> QED BY <1>4, <1>6, <1>9, <1>12, <1>13, <2>1, <2>2, LeaseTypes, ServerGrounds
<1>15. net' \subseteq net \cup {p}
  BY <1>6 DEF Sent
<1>16. ASSUME NEW d \in Clients \ orphaned', d # c PROVE Owed(d)'
  <2>1. d \in Clients \ orphaned
    BY <1>7, <1>16
  <2>2. \A r \in net' : r.op = "ACK" /\ r.mac = d => r \in net
    BY <1>9, <1>15, <1>16
  <2>3. Free(c, ip)
    BY <1>5, LeaseTypes DEF Free
  <2>4. \A held, n : n \in Nat /\ In(leases, d, held, n) => In(leases', d, held, n)
    BY <1>6, <1>16, <2>3, LeaseTypes, OthersKeepLeases
  <2> QED BY <1>4, <2>1, <2>2, <2>4, LeasesKept
<1>17. ASSUME c \notin orphaned' PROVE Owed(c)'
  <2>1. Promised(c) \subseteq {ip}
    <3>1. CASE c \in orphaned
      BY <1>7, <1>17, <3>1
    <3>2. CASE c \notin orphaned
      <4>1. Owed(c)
        BY <1>8, <3>2 DEF DhcpInv, Owings
      <4>2. ASSUME NEW held, NEW n, Covers(c, held, n) PROVE held = ip
        <5>1. PICK e \in leases : e.mac = c /\ e.nip = held
          BY <1>4, <4>2 DEF Covers, In
        <5>2. c # NoMac
          BY <1>8, DhcpAssumption
        <5> QED BY <1>5, <5>1, <5>2, LeaseTypes
      <4> QED BY <4>1, <4>2 DEF Promised, Owed
    <3> QED BY <3>1, <3>2
  <2>2. \A held \in Ips : Holds(c, held) => held = ip
    BY <2>1 DEF Promised
  <2>3. \A r \in Acks(c) : r.ip = ip
    BY <2>1 DEF Promised
  <2>4. ASSUME NEW held \in Ips', Holds(c, held)' PROVE Covers(c, held, LeftTo(client[c]))'
    <3>1. held = ip /\ client[c].st \in Holding
      BY <1>4, <2>2, <2>4 DEF Holds, Ips
    <3>2. LeftTo(client[c]) \in Int /\ LeftTo(client[c]) <= Lease
      BY <1>8, <3>1, OwedFitsLease
    <3>3. (LeftTo(client[c]))' = LeftTo(client[c])
      BY <1>4 DEF LeftTo
    <3>4. PICK n \in Int : n = LeftTo(client[c])
      BY <3>2
    <3>5. Covers(c, held, n)'
      BY <1>4, <1>12, <3>1, <3>2, <3>4, NewLeaseCovers
    <3> QED BY <3>3, <3>4, <3>5
  <2>5. ASSUME NEW r \in Acks(c)' PROVE Covers(c, r.ip, Halves[Lease] + (MaxDelay - r.age))'
    <3>1. r \in net' /\ (r \in Acks(c) \/ r = p)
      BY <1>4, <1>15, <2>5 DEF Acks, Expecting
    <3>2. r.ip = ip
      BY <1>9, <2>3, <3>1
    <3>3. r.age \in 0 .. MaxDelay
      BY <1>9, <1>15, <3>1, PacketFacts, LeaseFacts
    <3>4. PICK n : n = Halves[Lease] + (MaxDelay - r.age)
      OBVIOUS
    <3>5. n \in Int /\ n <= Lease
      BY <1>8, <3>3, <3>4, OwedFitsLease
    <3>6. Covers(c, ip, n)'
      BY <1>4, <1>12, <3>5, NewLeaseCovers
    <3> QED BY <3>2, <3>4, <3>6
  <2> QED BY <2>4, <2>5 DEF Owed
<1> QED BY <1>8, <1>14, <1>16, <1>17 DEF DhcpInv, Owings
\* A packet of c changes the leases of c and of no other client.
LEMMA ChangeKeeps ==
  ASSUME DhcpInv, NEW q \in net, Receives(q, {"DECLINE", "RELEASE"}), net' = net \ {q},
         NEW changed \in [leases -> Rows], leases' = {changed[e] : e \in leases},
         \A e \in leases : /\ changed[e].nip = e.nip
                           /\ changed[e].mac \in {e.mac, NoMac}
                           /\ e.mac # q.mac => changed[e] = e,
         CutShort(q.mac), UNCHANGED <<srv, search>>
  PROVE  DhcpInv'
<1>1. /\ srv = "idle" /\ srv' = "idle" /\ search' = search
      /\ UNCHANGED <<configVars, client, file, faults, unsaved>>
      /\ bound' = bound /\ client' = client /\ file' = file /\ faults' = faults
      /\ unsaved' = unsaved
  BY DEF Receives, configVars
<1>2. leases' \subseteq Rows
  OBVIOUS
<1>3. WellFormed(leases', max_leases)
  BY LeaseTypes, ChangedLeases
<1>4. q.mac \in Clients
  BY PacketFacts
<1>5. orphaned \subseteq orphaned' /\ orphaned' \subseteq Clients
  BY <1>4, LeaseTypes DEF CutShort
<1>6. PICK p \in Packets : p.op = "NAK"
  BY ServerSends
<1>7. Grounds'
  <2>1. srv' \in {"idle", "search", "write", "down"} /\ net \ {q} \in SUBSET net
    BY <1>1
  <2> QED BY <1>1, <1>2, <1>3, <1>5, <1>6, <2>1, LeaseTypes, ServerGrounds
<1>8. ASSUME NEW d \in Clients \ orphaned' PROVE Owed(d)'
  <2>1. CASE d = q.mac
    <3>1. Promised(d) = {}
      BY <1>8, <2>1 DEF CutShort
    <3> QED BY <1>1, <3>1, NothingPromised
  <2>2. CASE d # q.mac
    <3>1. d \in Clients \ orphaned
      BY <1>5
    <3>2. \A ip, n : n \in Nat /\ In(leases, d, ip, n) => In(leases', d, ip, n)
      BY <2>2 DEF In
    <3> QED BY <1>1, <3>1, <3>2, LeasesKept
  <2> QED BY <2>1, <2>2
<1> QED BY <1>7, <1>8 DEF DhcpInv, Owings

LEMMA DeclineKeeps ==
  ASSUME DhcpInv, NEW q \in net, Decline(q)
  PROVE  DhcpInv'
<1>1. PICK changed : changed = [e \in leases |->
        IF e.mac = q.mac /\ e.nip = q.ip THEN Entry(NoMac, e.nip, OfferTime) ELSE e]
  OBVIOUS
<1>2. \A e \in leases : Entry(NoMac, e.nip, OfferTime) \in Rows
  BY LeaseTypes, LeaseFacts DEF Entry, Rows, Macs
<1>3. changed \in [leases -> Rows]
  BY <1>1, <1>2, LeaseTypes
<1>4. \A e \in leases : /\ changed[e].nip = e.nip
                        /\ changed[e].mac \in {e.mac, NoMac}
                        /\ e.mac # q.mac => changed[e] = e
  BY <1>1 DEF Entry
<1>5. leases' = {changed[e] : e \in leases}
  BY <1>1 DEF Decline
<1>6. /\ Receives(q, {"DECLINE", "RELEASE"}) /\ net' = net \ {q} /\ CutShort(q.mac)
      /\ UNCHANGED <<srv, search>>
  BY DEF Decline, Receives
<1> QED BY <1>3, <1>4, <1>5, <1>6, ChangeKeeps

LEMMA ReleaseKeeps ==
  ASSUME DhcpInv, NEW q \in net, Release(q)
  PROVE  DhcpInv'
<1>1. PICK changed : changed = [e \in leases |->
        IF e.mac = q.mac /\ e.nip = q.ci THEN [e EXCEPT !.left = 0] ELSE e]
  OBVIOUS
<1>2. \A e \in leases : /\ [e EXCEPT !.left = 0] \in Rows
                        /\ [e EXCEPT !.left = 0].nip = e.nip /\ [e EXCEPT !.left = 0].mac = e.mac
  BY LeaseTypes DEF Rows
<1>3. changed \in [leases -> Rows]
  BY <1>1, <1>2, LeaseTypes
<1>4. \A e \in leases : /\ changed[e].nip = e.nip
                        /\ changed[e].mac \in {e.mac, NoMac}
                        /\ e.mac # q.mac => changed[e] = e
  BY <1>1, <1>2
<1>5. leases' = {changed[e] : e \in leases}
  BY <1>1 DEF Release
<1>6. /\ Receives(q, {"DECLINE", "RELEASE"}) /\ net' = net \ {q} /\ CutShort(q.mac)
      /\ UNCHANGED <<srv, search>>
  BY DEF Release, Receives
<1> QED BY <1>3, <1>4, <1>5, <1>6, ChangeKeeps

\* dhcpd writes what has expired as a lease with no time left.
LEMMA WrittenTable ==
  ASSUME DhcpInv
  PROVE  /\ WellFormed(Written(leases), max_leases)
         /\ Written(leases) \subseteq {e \in Rows : e.left >= 0}
         /\ \A c, ip, n : n \in Nat /\ In(leases, c, ip, n) => In(Written(leases), c, ip, n)
<1>1. PICK changed : changed = [e \in leases |-> [e EXCEPT !.left = IF @ < 0 THEN 0 ELSE @]]
  OBVIOUS
<1>2. ASSUME NEW e \in leases
      PROVE  /\ changed[e] \in Rows /\ changed[e].left \in Nat
             /\ changed[e].nip = e.nip /\ changed[e].mac = e.mac
             /\ changed[e].left = IF e.left < 0 THEN 0 ELSE e.left
  <2>1. changed[e] = [e EXCEPT !.left = IF e.left < 0 THEN 0 ELSE e.left]
    BY <1>1
  <2>2. e \in Rows /\ e.left \in Nat \cup {-1}
    BY LeaseTypes DEF Rows
  <2>3. PICK left \in Nat : left = IF e.left < 0 THEN 0 ELSE e.left
    BY <2>2
  <2>4. /\ [e EXCEPT !.left = left] \in Rows /\ [e EXCEPT !.left = left].left = left
        /\ [e EXCEPT !.left = left].nip = e.nip /\ [e EXCEPT !.left = left].mac = e.mac
    BY <2>2 DEF Rows
  <2> QED BY <2>1, <2>3, <2>4
<1>3. Written(leases) = {changed[e] : e \in leases}
  BY <1>1 DEF Written
<1>4. changed \in [leases -> Rows]
  BY <1>1, <1>2
<1>5. \A e \in leases : changed[e].nip = e.nip /\ changed[e].mac \in {e.mac, NoMac}
  BY <1>2
<1>6. WellFormed(Written(leases), max_leases)
  BY <1>3, <1>4, <1>5, LeaseTypes, ChangedLeases
<1>7. Written(leases) \subseteq {e \in Rows : e.left >= 0}
  BY <1>2, <1>3
<1>8. ASSUME NEW c, NEW ip, NEW n \in Nat, In(leases, c, ip, n)
      PROVE  In(Written(leases), c, ip, n)
  <2>1. PICK e \in leases : e.mac = c /\ e.nip = ip /\ e.left >= n
    BY <1>8 DEF In
  <2>2. e.left \in Int
    BY LeaseTypes
  <2>3. changed[e].left >= n
    BY <1>2, <2>1, <2>2
  <2> QED BY <1>2, <1>3, <2>1, <2>3 DEF In
<1> QED BY <1>6, <1>7, <1>8
LEMMA WriteKeeps ==
  ASSUME DhcpInv, WriteLeases
  PROVE  DhcpInv'
<1>1. /\ srv \in {"idle", "write"} /\ srv' = "idle" /\ search' = search /\ net' = net
      /\ UNCHANGED <<configVars, client>> /\ leases' = leases
      /\ bound' = bound /\ client' = client /\ faults' = faults /\ orphaned' = orphaned
      /\ unsaved' = {}
  BY DEF WriteLeases, configVars
<1>2. file' = Written(leases)
  BY DEF WriteLeases
<1>3. Grounds'
  <2>1. srv' \in {"idle", "search", "write", "down"} /\ net \in SUBSET net
    BY <1>1
  <2>2. WellFormed(file', max_leases) /\ file' \subseteq {e \in Rows : e.left >= 0}
    BY <1>2, WrittenTable
  <2> QED BY <1>1, <2>1, <2>2, LeaseTypes, ServerGrounds
<1>4. ASSUME NEW d \in Clients \ orphaned' PROVE Owed(d)'
  <2>1. ASSUME NEW ip, NEW n \in Nat, Covers(d, ip, n) PROVE Covers(d, ip, n)'
    <3>1. In(leases, d, ip, n)
      BY <1>1, <2>1 DEF Covers
    <3>2. In(file', d, ip, n)
      BY <1>2, <3>1, WrittenTable
    <3> QED BY <1>1, <3>1, <3>2 DEF Covers
  <2> QED BY <1>1, <2>1, CoverKept
<1> QED BY <1>3, <1>4 DEF DhcpInv, Owings

\* A client that is not among the forgotten has its lease in the table, for as long
\* as the server had it.
LEMMA NotForgotten ==
  ASSUME DhcpInv, NEW table, table \subseteq Rows, NEW d \in Clients \ Forgotten(table),
         NEW ip \in Promised(d), NEW n \in Nat, In(leases, d, ip, n)
  PROVE  In(table, d, ip, n)
<1>1. PICK f \in leases : f.mac = d /\ f.nip = ip /\ f.left >= n
  BY DEF In
<1>2. PICK e \in table : e.mac = d /\ e.nip = ip /\ ~ (e.left < f.left)
  BY <1>1 DEF Forgotten
<1>3. e.left \in Int /\ f.left \in Int
  BY LeaseTypes DEF Rows
<1>4. e.left >= n
  BY <1>1, <1>2, <1>3
<1> QED BY <1>2, <1>4 DEF In

\* The server goes on, and knows nothing of what the file lacks.
LEMMA WriteFailsKeeps ==
  ASSUME DhcpInv, WriteFails
  PROVE  DhcpInv'
<1>1. /\ srv \in {"idle", "write"} /\ srv' = "idle" /\ search' = search /\ net' = net
      /\ UNCHANGED <<configVars, client>> /\ leases' = leases
      /\ bound' = bound /\ client' = client /\ orphaned' = orphaned
      /\ faults > 0 /\ faults' = faults - 1
      /\ unsaved' = Forgotten(file')
  BY DEF WriteFails, configVars
<1>2. file' = file \/ file' \in SUBSET Written(leases)
  BY DEF WriteFails
<1>3. WellFormed(file', max_leases) /\ file' \subseteq {e \in Rows : e.left >= 0}
  BY <1>2, LeaseTypes, WrittenTable, FewerLeases
<1>4. Grounds'
  <2>1. srv' \in {"idle", "search", "write", "down"} /\ srv' # "search" /\ net \in SUBSET net
    BY <1>1
  <2>2. faults' \in 0 .. bound.faults
    BY <1>1, LeaseTypes, BoundFacts DEF DhcpInv, Grounds
  <2>3. unsaved' \subseteq Clients
    BY <1>1 DEF Forgotten
  <2> QED BY <1>1, <1>3, <2>1, <2>2, <2>3, LeaseTypes, ServerGrounds
<1>5. ASSUME NEW d \in Clients \ orphaned' PROVE Owed(d)'
  <2>1. ASSUME NEW ip \in Promised(d), NEW n \in Nat, Covers(d, ip, n) PROVE Covers(d, ip, n)'
    <3>1. In(leases, d, ip, n)
      BY <1>1, <2>1 DEF Covers
    <3>2. d \notin unsaved' => In(file', d, ip, n)
      BY <1>1, <1>3, <3>1, NotForgotten
    <3> QED BY <1>1, <3>1, <3>2 DEF Covers
  <2> QED BY <1>1, <2>1, CoverKept
<1> QED BY <1>4, <1>5 DEF DhcpInv, Owings

\* What is left of the file has the lease of a client that is not orphaned.
LEMMA CrashKeeps ==
  ASSUME DhcpInv, Crash
  PROVE  DhcpInv'
<1>1. /\ srv # "down" /\ srv' = "down" /\ search' = NotSearching /\ leases' = {} /\ net' = net
      /\ UNCHANGED <<configVars, client>> /\ bound' = bound /\ client' = client
      /\ faults > 0 /\ faults' = faults - 1
      /\ orphaned' = orphaned \cup Forgotten(file') /\ unsaved' = {}
  BY DEF Crash, configVars
<1>2. file' = file \/ file' \in SUBSET Written(leases)
  BY DEF Crash
<1>3. WellFormed(file', max_leases) /\ file' \subseteq {e \in Rows : e.left >= 0}
  BY <1>2, LeaseTypes, WrittenTable, FewerLeases
<1>4. WellFormed({}, max_leases)
  BY LeaseTypes, FewerLeases
<1>5. Grounds'
  <2>1. srv' \in {"idle", "search", "write", "down"} /\ srv' # "search" /\ net \in SUBSET net
    BY <1>1
  <2>2. search' \in Searches
    <3>1. bound.ips \in Nat /\ bound.packets \in Nat
      BY BoundFacts DEF DhcpInv, Grounds
    <3> QED BY <1>1, <3>1 DEF NotSearching, Searches, Macs
  <2>3. faults' \in 0 .. bound.faults
    BY <1>1, LeaseTypes, BoundFacts DEF DhcpInv, Grounds
  <2>4. orphaned' \subseteq Clients
    BY <1>1, LeaseTypes DEF Forgotten
  <2> QED BY <1>1, <1>3, <1>4, <2>1, <2>2, <2>3, <2>4, LeaseTypes, ServerGrounds
<1>6. ASSUME NEW d \in Clients \ orphaned' PROVE Owed(d)'
  <2>1. d \in Clients \ orphaned /\ d \notin Forgotten(file')
    BY <1>1, <1>6
  <2>2. ASSUME NEW ip \in Promised(d), NEW n \in Nat, Covers(d, ip, n) PROVE Covers(d, ip, n)'
    <3>1. In(leases, d, ip, n)
      BY <1>1, <2>2 DEF Covers
    <3>2. In(file', d, ip, n)
      BY <1>3, <2>1, <3>1, NotForgotten
    <3> QED BY <1>1, <3>2 DEF Covers
  <2> QED BY <1>1, <2>1, <2>2, CoverKept
<1> QED BY <1>5, <1>6 DEF DhcpInv, Owings

\* read_leases keeps every lease of a client.
LEMMA RestartKeeps ==
  ASSUME DhcpInv, Restart
  PROVE  DhcpInv'
<1>1. /\ srv = "down" /\ srv' = "idle" /\ search' = search /\ net' = net
      /\ UNCHANGED <<configVars, client, file, faults, unsaved>>
      /\ bound' = bound /\ client' = client /\ file' = file /\ faults' = faults
      /\ unsaved = {} /\ unsaved' = {}
  BY DEF Restart, configVars, DhcpInv, Grounds, Lost
<1>2. leases' \in SUBSET file
  BY DEF Restart, Read
<1>3. WellFormed(leases', max_leases) /\ leases' \subseteq Rows
  BY <1>2, LeaseTypes, FewerLeases
<1>4. orphaned' \subseteq Clients /\ orphaned \subseteq orphaned'
  BY LeaseTypes DEF Restart
<1>5. Grounds'
  <2>1. srv' \in {"idle", "search", "write", "down"} /\ srv' # "search" /\ net \in SUBSET net
    BY <1>1
  <2> QED BY <1>1, <1>3, <1>4, <2>1, LeaseTypes, ServerGrounds
<1>6. ASSUME NEW d \in Clients \ orphaned' PROVE Owed(d)'
  <2>1. CASE leases' \in Read
    <3>1. d # NoMac
      BY DhcpAssumption
    <3>2. \A e \in file : e.mac = d => e \in leases'
      BY <2>1, <3>1 DEF Read
    <3>3. ASSUME NEW ip, NEW n \in Nat, Covers(d, ip, n) PROVE Covers(d, ip, n)'
      BY <1>1, <3>2, <3>3 DEF Covers, In
    <3> QED BY <1>1, <1>4, <3>3, CoverKept
  <2>2. CASE orphaned' = orphaned \cup {c \in Clients : Promised(c) # {}}
    <3>1. Promised(d) = {}
      BY <1>6, <2>2
    <3> QED BY <1>1, <3>1, NothingPromised
  <2> QED BY <2>1, <2>2 DEF Restart
<1> QED BY <1>5, <1>6 DEF DhcpInv, Owings
-----------------------------------------------------------------------------
(* A tick: the time a lease has left and the time a client goes on with it *)
(* become less by the same.                                                *)

LEMMA ClientsTick ==
  ASSUME DhcpInv, Tick, NEW c \in Clients
  PROVE  /\ client'[c] \in ClientStates
         /\ client'[c].st = client[c].st /\ client'[c].requested_ip = client[c].requested_ip
         /\ client'[c].timeout = client[c].timeout /\ client'[c].xid = client[c].xid
         /\ client'[c].packet_num = client[c].packet_num
         /\ client'[c].waited <= client'[c].timeout
         /\ client[c].st # "RELEASED" => client'[c].waited = client[c].waited + 1
<1>1. /\ client[c] \in ClientStates
      /\ client[c].timeout \in 0 .. Lease /\ client[c].waited \in 0 .. client[c].timeout
  BY ClientFacts
<1>2. Lease \in Nat
  BY LeaseFacts
<1>3. CASE client[c].st = "RELEASED"
  <2>1. client'[c] = client[c]
    BY <1>3 DEF Tick
  <2> QED BY <1>1, <1>2, <1>3, <2>1
<1>4. CASE client[c].st # "RELEASED"
  <2>1. PICK n : n = client[c].waited + 1
    OBVIOUS
  <2>2. client'[c] = [client[c] EXCEPT !.waited = n]
    BY <1>4, <2>1 DEF Tick
  <2>3. ~ (client[c].waited >= client[c].timeout)
    BY <1>4 DEF Tick, Due
  <2>4. n \in 0 .. Lease /\ n <= client[c].timeout
    BY <1>1, <1>2, <2>1, <2>3
  <2>5. PICK me : me = [client[c] EXCEPT !.waited = n]
    OBVIOUS
  <2>6. /\ me \in ClientStates /\ me.waited = n
        /\ me.st = client[c].st /\ me.requested_ip = client[c].requested_ip
        /\ me.timeout = client[c].timeout /\ me.xid = client[c].xid
        /\ me.packet_num = client[c].packet_num
    BY <1>1, <2>4, <2>5 DEF ClientStates
  <2> QED BY <2>1, <2>2, <2>4, <2>5, <2>6
<1> QED BY <1>3, <1>4

\* An ACK underway is a tick older, and no packet is new.
LEMMA PacketsTick ==
  ASSUME DhcpInv, Tick
  PROVE  /\ net' \subseteq Packets /\ IsFiniteSet(net') /\ Cardinality(net') <= bound.packets
         /\ \A r \in net' : r.op = "ACK" =>
              \E p \in net : /\ p.op = "ACK" /\ p.mac = r.mac /\ p.xid = r.xid /\ p.ip = r.ip
                             /\ p.age < MaxDelay /\ r.age = p.age + 1
<1>1. PICK older : older = [p \in net |-> [p EXCEPT !.age = IF @ < MaxDelay THEN @ + 1 ELSE @]]
  OBVIOUS
<1>2. PICK few : few = {q \in net : q.age < MaxDelay \/ Waits(q)}
  OBVIOUS
<1>3. net' = {older[p] : p \in few}
  BY <1>1, <1>2 DEF Tick
<1>4. ASSUME NEW p \in net
      PROVE  /\ older[p] \in Packets
             /\ older[p].op = p.op /\ older[p].mac = p.mac /\ older[p].xid = p.xid
             /\ older[p].ip = p.ip
             /\ older[p].age = IF p.age < MaxDelay THEN p.age + 1 ELSE p.age
  <2>1. p \in Packets /\ p.age \in 0 .. MaxDelay /\ MaxDelay \in Nat
    BY PacketFacts, LeaseFacts DEF DhcpInv, Grounds, DhcpTypeOK
  <2>2. PICK n \in 0 .. MaxDelay : n = IF p.age < MaxDelay THEN p.age + 1 ELSE p.age
    BY <2>1
  <2>3. older[p] = [p EXCEPT !.age = n]
    BY <1>1, <2>2
  <2>4. PICK r : r = [p EXCEPT !.age = n]
    OBVIOUS
  <2>5. /\ r \in Packets /\ r.op = p.op /\ r.mac = p.mac /\ r.xid = p.xid /\ r.ip = p.ip
        /\ r.age = n
    BY <2>1, <2>4 DEF Packets
  <2> QED BY <2>2, <2>3, <2>4, <2>5
<1>5. net' \subseteq Packets
  BY <1>2, <1>3, <1>4
<1>6. IsFiniteSet(net') /\ Cardinality(net') <= bound.packets
  <2>1. PICK some : some = [p \in few |-> older[p]]
    OBVIOUS
  <2>2. some \in [few -> Packets] /\ net' = {some[p] : p \in few}
    BY <1>2, <1>3, <1>4, <2>1
  <2>3. IsFiniteSet(few) /\ Cardinality(few) <= bound.packets
    BY <1>2, SentFits DEF DhcpInv, Grounds
  <2>4. IsFiniteSet(net') /\ Cardinality(net') <= Cardinality(few)
    BY <2>2, <2>3, Image
  <2>5. Cardinality(few) \in Nat /\ Cardinality(net') \in Nat /\ bound.packets \in Nat
    BY <2>3, <2>4, FS_CardinalityType, BoundFacts DEF DhcpInv, Grounds
  <2> QED BY <2>3, <2>4, <2>5
<1>7. ASSUME NEW r \in net', r.op = "ACK"
      PROVE  \E p \in net : /\ p.op = "ACK" /\ p.mac = r.mac /\ p.xid = r.xid /\ p.ip = r.ip
                            /\ p.age < MaxDelay /\ r.age = p.age + 1
  <2>1. PICK p \in few : r = older[p]
    BY <1>3, <1>7
  <2>2. p \in net /\ p.op = "ACK"
    BY <1>2, <1>4, <1>7, <2>1
  <2>3. p.age < MaxDelay
    BY <1>2, <2>1, <2>2 DEF Waits
  <2> QED BY <1>4, <2>1, <2>2, <2>3
<1> QED BY <1>5, <1>6, <1>7

\* A lease that has time left has a tick less.
LEMMA LeasesTick ==
  ASSUME DhcpInv, Tick
  PROVE  /\ leases' \subseteq Rows /\ WellFormed(leases', max_leases)
         /\ \A e \in leases : e.left >= 1 =>
              \E f \in leases' : f.mac = e.mac /\ f.nip = e.nip /\ f.left = e.left - 1
<1>1. PICK changed : changed = [e \in leases |-> [e EXCEPT !.left = IF @ < 0 THEN @ ELSE @ - 1]]
  OBVIOUS
<1>2. ASSUME NEW e \in leases
      PROVE  /\ changed[e] \in Rows
             /\ changed[e].nip = e.nip /\ changed[e].mac = e.mac
             /\ changed[e].left = IF e.left < 0 THEN e.left ELSE e.left - 1
  <2>1. e \in Rows /\ e.left \in Nat \cup {-1}
    BY LeaseTypes DEF Rows
  <2>2. PICK n \in Nat \cup {-1} : n = IF e.left < 0 THEN e.left ELSE e.left - 1
    BY <2>1
  <2>3. changed[e] = [e EXCEPT !.left = n]
    BY <1>1, <2>2
  <2>4. PICK f : f = [e EXCEPT !.left = n]
    OBVIOUS
  <2>5. f \in Rows /\ f.nip = e.nip /\ f.mac = e.mac /\ f.left = n
    BY <2>1, <2>4 DEF Rows
  <2> QED BY <2>2, <2>3, <2>4, <2>5
<1>3. leases' = {changed[e] : e \in leases}
  BY <1>1 DEF Tick
<1>4. changed \in [leases -> Rows]
  BY <1>1, <1>2
<1>5. \A e \in leases : changed[e].nip = e.nip /\ changed[e].mac \in {e.mac, NoMac}
  BY <1>2
<1>6. WellFormed(leases', max_leases)
  BY <1>3, <1>4, <1>5, LeaseTypes, ChangedLeases
<1>7. \A e \in leases : e.left >= 1 =>
        \E f \in leases' : f.mac = e.mac /\ f.nip = e.nip /\ f.left = e.left - 1
  BY <1>2, <1>3, LeaseTypes
<1> QED BY <1>2, <1>3, <1>6, <1>7

LEMMA FileTick ==
  ASSUME DhcpInv, Tick
  PROVE  /\ file' \subseteq {e \in Rows : e.left >= 0} /\ WellFormed(file', max_leases)
         /\ \A e \in file : e.left >= 1 =>
              \E f \in file' : f.mac = e.mac /\ f.nip = e.nip /\ f.left = e.left - 1
<1>1. PICK changed : changed = [e \in file |-> [e EXCEPT !.left = IF @ = 0 THEN 0 ELSE @ - 1]]
  OBVIOUS
<1>2. ASSUME NEW e \in file
      PROVE  /\ changed[e] \in Rows /\ changed[e].left >= 0
             /\ changed[e].nip = e.nip /\ changed[e].mac = e.mac
             /\ e.left \in Int /\ changed[e].left = IF e.left = 0 THEN 0 ELSE e.left - 1
  <2>1. e \in Rows /\ e.left \in Nat
    BY LeaseTypes DEF Rows
  <2>2. PICK n \in Nat : n = IF e.left = 0 THEN 0 ELSE e.left - 1
    BY <2>1
  <2>3. changed[e] = [e EXCEPT !.left = n]
    BY <1>1, <2>2
  <2>4. PICK f : f = [e EXCEPT !.left = n]
    OBVIOUS
  <2>5. f \in Rows /\ f.nip = e.nip /\ f.mac = e.mac /\ f.left = n
    BY <2>1, <2>4 DEF Rows
  <2> QED BY <2>1, <2>2, <2>3, <2>4, <2>5
<1>3. file' = {changed[e] : e \in file}
  BY <1>1 DEF Tick
<1>4. changed \in [file -> Rows]
  BY <1>1, <1>2
<1>5. \A e \in file : changed[e].nip = e.nip /\ changed[e].mac \in {e.mac, NoMac}
  BY <1>2
<1>6. WellFormed(file', max_leases)
  BY <1>3, <1>4, <1>5, LeaseTypes, ChangedLeases
<1>7. \A e \in file : e.left >= 1 =>
        \E f \in file' : f.mac = e.mac /\ f.nip = e.nip /\ f.left = e.left - 1
  BY <1>2, <1>3
<1> QED BY <1>2, <1>3, <1>6, <1>7
LEMMA TickKeeps ==
  ASSUME DhcpInv, Tick
  PROVE  DhcpInv'
<1>1. /\ srv # "write" /\ srv' = srv /\ search' = search /\ faults' = faults
      /\ bound' = bound /\ max_leases' = max_leases /\ foreign' = foreign
      /\ orphaned' = orphaned /\ unsaved' = unsaved
  BY DEF Tick, configVars
<1>2. DhcpTypeOK'
  <2>1. ClientStates' = ClientStates /\ Packets' = Packets /\ Rows' = Rows /\ Ips' = Ips
    BY <1>1 DEF ClientStates, Packets, Rows, Ips
  <2>2. client' \in [Clients -> ClientStates]
    <3>1. \A c \in Clients : client'[c] \in ClientStates
      BY ClientsTick
    <3>2. client' = [c \in Clients |->
            IF client[c].st = "RELEASED" THEN client[c] ELSE [client[c] EXCEPT !.waited = @ + 1]]
      BY DEF Tick
    <3> QED BY <3>1, <3>2
  <2>3. Cardinality(leases') <= max_leases /\ \A e, f \in leases' : e.nip = f.nip => e = f
    BY LeasesTick DEF WellFormed
  <2>4. /\ bound \in Bounds /\ srv \in {"idle", "search", "write", "down"} /\ max_leases \in Ips
        /\ foreign \subseteq Ips /\ faults \in 0 .. bound.faults /\ orphaned \subseteq Clients
        /\ unsaved \subseteq Clients
    BY DEF DhcpInv, Grounds, DhcpTypeOK
  <2>5. search' \in [mac : Macs, xid : 0 .. bound'.packets, ip : 0 .. bound'.ips + 1, added : BOOLEAN]
    BY <1>1, LeaseTypes DEF Searches
  <2>6. net' \subseteq Packets' /\ leases' \subseteq Rows' /\ file' \subseteq {e \in Rows' : e.left >= 0}
    BY <2>1, PacketsTick, LeasesTick, FileTick
  <2> QED BY <1>1, <2>1, <2>2, <2>3, <2>4, <2>5, <2>6 DEF DhcpTypeOK
<1>3. Segment' /\ Tables' /\ Pursuit' /\ Lost'
  BY <1>1, PacketsTick, LeasesTick, FileTick DEF Segment, Tables, Pursuit, Lost, DhcpInv, Grounds
<1>4. Timers'
  BY ClientsTick DEF Timers, DhcpInv, Grounds
<1>5. ASSUME NEW d \in Clients \ orphaned' PROVE Owed(d)'
  <2>1. Owed(d) /\ d \in Clients
    BY <1>1, <1>5 DEF DhcpInv, Owings
  <2>2. ASSUME NEW ip, NEW n \in Nat, n >= 1, Covers(d, ip, n) PROVE Covers(d, ip, n - 1)'
    <3>1. srv # "down" => In(leases', d, ip, n - 1)
      <4> SUFFICES ASSUME srv # "down" PROVE In(leases', d, ip, n - 1)
        OBVIOUS
      <4>1. PICK e \in leases : e.mac = d /\ e.nip = ip /\ e.left >= n
        BY <2>2 DEF Covers, In
      <4>2. e.left \in Int /\ e.left >= 1
        BY <2>2, <4>1, LeaseTypes
      <4>3. PICK f \in leases' : f.mac = e.mac /\ f.nip = e.nip /\ f.left = e.left - 1
        BY <4>2, LeasesTick
      <4>4. f.left >= n - 1
        BY <4>1, <4>2, <4>3
      <4> QED BY <4>1, <4>3, <4>4 DEF In
    <3>2. d \notin unsaved => In(file', d, ip, n - 1)
      <4> SUFFICES ASSUME d \notin unsaved PROVE In(file', d, ip, n - 1)
        OBVIOUS
      <4>1. PICK e \in file : e.mac = d /\ e.nip = ip /\ e.left >= n
        BY <1>1, <2>2 DEF Covers, In
      <4>2. e.left \in Int /\ e.left >= 1
        BY <2>2, <4>1, LeaseTypes DEF Rows
      <4>3. PICK f \in file' : f.mac = e.mac /\ f.nip = e.nip /\ f.left = e.left - 1
        BY <4>2, FileTick
      <4>4. f.left >= n - 1
        BY <4>1, <4>2, <4>3
      <4> QED BY <4>1, <4>3, <4>4 DEF In
    <3> QED BY <1>1, <3>1, <3>2 DEF Covers, In
  <2>3. ASSUME NEW ip \in Ips', Holds(d, ip)' PROVE Covers(d, ip, LeftTo(client[d]))'
    <3>1. Holds(d, ip) /\ ip \in Ips
      BY <1>1, <2>1, <2>3, ClientsTick DEF Holds, Ips
    <3>2. client[d].st # "RELEASED"
      BY <3>1 DEF Holds, Holding
    <3>3. /\ client[d].timeout \in Nat /\ client[d].waited \in Nat /\ Halves[client[d].timeout] \in Nat
          /\ client'[d].timeout = client[d].timeout /\ client'[d].waited = client[d].waited + 1
          /\ client'[d].waited <= client[d].timeout
      BY <2>1, <3>2, ClientsTick, ClientFacts, LeaseFacts
    <3>4. PICK n : n = LeftTo(client[d])
      OBVIOUS
    <3>5. n \in Nat /\ n >= 1
      BY <3>3, <3>4 DEF LeftTo
    <3>6. LeftTo(client'[d]) = n - 1
      BY <3>3, <3>4 DEF LeftTo
    <3>7. (LeftTo(client[d]))' = LeftTo(client'[d])
      BY DEF LeftTo
    <3>8. Covers(d, ip, n - 1)'
      BY <2>1, <2>2, <3>1, <3>4, <3>5 DEF Owed
    <3> QED BY <3>6, <3>7, <3>8
  <2>4. ASSUME NEW r \in Acks(d)' PROVE Covers(d, r.ip, Halves[Lease] + (MaxDelay - r.age))'
    <3>1. r \in net' /\ r.op = "ACK" /\ r.mac = d /\ r.xid = client'[d].xid /\ Expecting(d)'
      BY <2>4 DEF Acks
    <3>2. PICK p \in net : /\ p.op = "ACK" /\ p.mac = r.mac /\ p.xid = r.xid /\ p.ip = r.ip
                           /\ p.age < MaxDelay /\ r.age = p.age + 1
      BY <3>1, PacketsTick
    <3>3. p \in Acks(d)
      BY <2>1, <3>1, <3>2, ClientsTick DEF Acks, Expecting
    <3>4. PICK n : n = Halves[Lease] + (MaxDelay - p.age)
      OBVIOUS
    <3>5. n \in Nat /\ n >= 1 /\ Halves[Lease] + (MaxDelay - r.age) = n - 1
      BY <3>2, <3>4, PacketFacts, HalvesOfLease, LeaseFacts
    <3>6. Covers(d, r.ip, n - 1)'
      BY <2>1, <2>2, <3>2, <3>3, <3>4, <3>5 DEF Owed
    <3> QED BY <3>5, <3>6
  <2> QED BY <2>3, <2>4 DEF Owed
<1> QED BY <1>1, <1>2, <1>3, <1>4, <1>5 DEF DhcpInv, Grounds, Owings

-----------------------------------------------------------------------------
(* The theorems.                                                           *)

LEMMA DhcpStarts ==
  ASSUME DhcpInit
  PROVE  DhcpInv
<1>1. /\ bound \in Bounds /\ net = {} /\ srv = "idle" /\ search = NotSearching
      /\ leases = {} /\ file = {} /\ orphaned = {} /\ unsaved = {} /\ max_leases \in Ips
      /\ foreign \subseteq Ips /\ faults = bound.faults
  BY DEF DhcpInit
<1>2. bound.ips \in Nat \ {0} /\ bound.packets \in Nat \ {0} /\ bound.faults \in Nat
  BY <1>1, DhcpAssumption
<1>3. Lease \in Nat /\ Tries \in Nat /\ 0 \in 0 .. Lease /\ 0 \in 0 .. Tries
  BY LeaseFacts
<1>4. \A c \in Clients : /\ client[c] \in ClientStates
                         /\ client[c].st = "INIT_SELECTING"
                         /\ client[c].waited = 0 /\ client[c].timeout = 0
  <2>1. client \in [Clients -> [st : {"INIT_SELECTING"}, requested_ip : {0, 1}, timeout : {0},
                                waited : {0}, packet_num : {0}, xid : {0}]]
    BY DEF DhcpInit
  <2>2. 0 \in 0 .. bound.ips /\ 1 \in 0 .. bound.ips /\ 0 \in 0 .. bound.packets
    BY <1>2
  <2> QED BY <1>3, <2>1, <2>2 DEF ClientStates
<1>5. client \in [Clients -> ClientStates]
  BY <1>4 DEF DhcpInit
<1>6. Cardinality({}) = 0 /\ IsFiniteSet({})
  BY FS_EmptySet
<1>7. max_leases \in Nat
  BY <1>1, <1>2 DEF Ips
<1>8. search \in [mac : Macs, xid : 0 .. bound.packets, ip : 0 .. bound.ips + 1, added : BOOLEAN]
  BY <1>1, <1>2 DEF NotSearching, Macs
<1>9. DhcpTypeOK
  BY <1>1, <1>2, <1>5, <1>6, <1>7, <1>8 DEF DhcpTypeOK
<1>10. Segment /\ Tables /\ Pursuit /\ Lost
  BY <1>1, <1>2, <1>6, <1>7 DEF Segment, Tables, Pursuit, Lost, WellFormed
<1>11. Timers
  BY <1>4 DEF Timers, Holding
<1>12. Owings
  BY <1>1, <1>4 DEF Owings, Owed, Holds, Holding, Acks
<1> QED BY <1>9, <1>10, <1>11, <1>12 DEF DhcpInv, Grounds

LEMMA DhcpSteps ==
  ASSUME DhcpInv, [DhcpNext]_dhcpVars
  PROVE  DhcpInv'
<1>1. CASE UNCHANGED dhcpVars
  <2>1. /\ bound' = bound /\ client' = client /\ net' = net /\ srv' = srv /\ search' = search
        /\ max_leases' = max_leases /\ leases' = leases /\ file' = file /\ foreign' = foreign
        /\ faults' = faults /\ orphaned' = orphaned /\ unsaved' = unsaved
    BY <1>1 DEF dhcpVars
  <2> QED BY <2>1 DEF DhcpInv, Grounds, DhcpTypeOK, Segment, Tables, Pursuit, Timers, Lost, Owings, Owed,
         Covers, In, Holds, LeftTo, Acks, Expecting, WellFormed, ClientStates, Packets, Rows, Ips
<1>2. ASSUME NEW c \in Clients, ClientReceives(c) PROVE DhcpInv'
  <2>1. PICK q \in net : ReceiveOffer(c, q) \/ ReceiveAck(c, q) \/ ReceiveNak(c, q)
    BY <1>2 DEF ClientReceives
  <2> QED BY <2>1, OfferKeeps, AckKeeps, NakKeeps
<1>3. ASSUME ServerStep PROVE DhcpInv'
  BY <1>3, SendOfferKeeps, SearchKeeps, SendAckKeeps, RefuseKeeps, DeclineKeeps, ReleaseKeeps,
     ProbeKeeps, ProbeOldestKeeps DEF ServerStep
<1>4. ASSUME NEW c \in Clients, ClientTimeout(c) \/ RenewSignal(c) \/ ReleaseSignal(c)
      PROVE  DhcpInv'
  BY <1>4, TimeoutKeeps, RenewSignalKeeps, ReleaseSignalKeeps
<1> QED BY <1>1, <1>2, <1>3, <1>4, WriteKeeps, WriteFailsKeeps, CrashKeeps,
       RestartKeeps, TickKeeps DEF DhcpNext

LEMMA DhcpInvariant == DhcpSpec => []DhcpInv
<1>1. DhcpInit => DhcpInv
  BY DhcpStarts
<1>2. DhcpInv /\ [DhcpNext]_dhcpVars => DhcpInv'
  BY DhcpSteps
<1> QED BY <1>1, <1>2, PTL DEF DhcpSpec

\* Type correctness of the clients, the packets, the table and the file.
THEOREM TypesOfDhcp == DhcpSpec => []DhcpTypeOK
<1>1. DhcpInv => DhcpTypeOK
  BY DEF DhcpInv, Grounds
<1> QED BY <1>1, DhcpInvariant, PTL

\* lease_seconds / 2 and write_leases at every ACK: a client that was not orphaned
\* has a lease of the address it was promised that goes on for as long as the
\* client does, in the table, and on disk unless the file could not be written.
THEOREM LeasesAreKept == DhcpSpec => []HeldIsKept
<1>1. DhcpInv => HeldIsKept
  <2> SUFFICES ASSUME DhcpInv, NEW c \in Clients \ orphaned, NEW ip \in Promised(c)
               PROVE  /\ srv # "down" => Kept(leases, c, ip)
                      /\ srv # "write" /\ c \notin unsaved => Kept(file, c, ip)
    BY DEF HeldIsKept
  <2>1. Owed(c) /\ DhcpTypeOK
    BY DEF DhcpInv, Owings, Grounds
  <2>2. Covers(c, ip, StillHeld(c, ip))
    <3>1. CASE Holds(c, ip)
      <4>1. ip \in Ips \/ \E p \in Acks(c) : p.ip = ip
        BY DEF Promised
      <4>2. CASE ip \in Ips
        BY <2>1, <3>1, <4>2 DEF Owed, StillHeld, LeftTo
      <4>3. CASE ip \notin Ips
        <5>1. PICK p \in Acks(c) : p.ip = ip
          BY <4>1, <4>3
        <5>2. p.age \in 0 .. MaxDelay
          BY <5>1, PacketFacts DEF Acks
        <5>3. PICK n : n = Halves[Lease] + (MaxDelay - p.age)
          OBVIOUS
        <5>4. Covers(c, ip, n)
          BY <2>1, <5>1, <5>3 DEF Owed
        <5>5. client[c].timeout \in 0 .. Lease \div 2 /\ client[c].waited \in 0 .. client[c].timeout
          BY <3>1, ClientFacts, LeaseFacts DEF Holds
        <5>6. /\ Halves[client[c].timeout] \in Nat
              /\ client[c].timeout + Halves[client[c].timeout] <= Halves[Lease]
          BY <5>5, HalvesOfLease
        <5>7. LeftTo(client[c]) \in Int /\ n \in Int /\ LeftTo(client[c]) <= n
          BY <5>2, <5>3, <5>5, <5>6, HalvesOfLease, LeaseFacts DEF LeftTo
        <5>8. Covers(c, ip, LeftTo(client[c]))
          BY <2>1, <5>4, <5>7, CoversLess
        <5> QED BY <3>1, <5>8 DEF StillHeld, LeftTo
      <4> QED BY <4>2, <4>3
    <3>2. CASE ~ Holds(c, ip)
      <4>1. PICK p \in Acks(c) : p.ip = ip
        BY <3>2 DEF Promised
      <4>2. p.age \in 0 .. MaxDelay
        BY <4>1, PacketFacts DEF Acks
      <4>3. PICK n : n = Halves[Lease] + (MaxDelay - p.age)
        OBVIOUS
      <4>4. Covers(c, ip, n)
        BY <2>1, <4>1, <4>3 DEF Owed
      <4>5. Halves[Lease] \in Int /\ n \in Int /\ Halves[Lease] <= n
        BY <4>2, <4>3, HalvesOfLease, LeaseFacts
      <4>6. Covers(c, ip, Halves[Lease])
        BY <2>1, <4>4, <4>5, CoversLess
      <4> QED BY <3>2, <4>6 DEF StillHeld
    <3> QED BY <3>1, <3>2
  <2> QED BY <2>2 DEF Covers, In, Kept
<1> QED BY <1>1, DhcpInvariant, PTL

\* add_lease and send_offer: what two clients hold is two leases of the one table
\* that the server goes by, and that has one lease of an address.
THEOREM OneHolder == DhcpSpec => []NoTwoHolders
<1>1. DhcpInv => NoTwoHolders
  <2> SUFFICES ASSUME DhcpInv, NEW c \in Clients \ orphaned, NEW d \in Clients \ orphaned,
                      NEW ip \in Ips, Holds(c, ip), Holds(d, ip)
               PROVE  c = d
    BY DEF NoTwoHolders
  <2>1. Covers(c, ip, LeftTo(client[c])) /\ Covers(d, ip, LeftTo(client[d]))
    BY DEF DhcpInv, Owings, Owed
  <2>2. CASE srv # "down"
    BY <2>1, <2>2, LeaseTypes DEF Covers, In
  <2>3. CASE srv = "down"
    <3>1. unsaved = {} /\ \A e, f \in file : e.nip = f.nip => e = f
      BY <2>3, LeaseTypes DEF WellFormed, DhcpInv, Grounds, Lost
    <3> QED BY <2>1, <2>3, <3>1 DEF Covers, In
  <2> QED BY <2>2, <2>3
<1> QED BY <1>1, DhcpInvariant, PTL
=============================================================================
