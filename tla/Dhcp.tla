--------------------------------- MODULE Dhcp ---------------------------------
(***************************************************************************)
(* busybox/networking/udhcp: dhcpd.c, one server with its lease table and  *)
(* lease file, and dhcpc.c, the clients, on one network segment.  Times    *)
(* are ticks: a lease of the table carries the time it has left, a client  *)
(* its timeout and how much of it has passed.                              *)
(*                                                                         *)
(* A packet is delivered once, in any order, or lost: it is gone after     *)
(* MaxDelay ticks.  The server may be killed whenever it likes and is      *)
(* started again, and may fail to write its file.  Left out: static        *)
(* leases, INFORM, other servers, options of the packets, pacing by secs,  *)
(* -n and -q, the end of a client, and what is read back from a file in    *)
(* which whole records follow a part of one.                               *)
(***************************************************************************)
EXTENDS Integers, FiniteSets

CONSTANTS
  Clients,    \* hardware addresses
  NoMac,      \* the hardware address of a conflict lease
  Bounds,     \* of a behaviour: the addresses 1 .. ips that are leased, the
              \* packets that are underway at once, and the faults, which are
              \* signals to a client, crashes of the server and failed writes
  Lease,      \* lease time
  Floor,      \* 60 seconds: shorter timeouts are not spent on a unicast renew
  OfferTime,  \* offer_time, conflict_time, decline_time
  Tries,      \* discover_retries, and the 3 of REQUESTING
  MaxDelay    \* bound on the ticks a packet is underway

\* The client raises a lease below 2 * 61 seconds to that, which the server
\* does not know of.
ASSUME DhcpAssumption ==
  /\ NoMac \notin Clients
  /\ Bounds \subseteq [ips : Nat \ {0}, packets : Nat \ {0}, faults : Nat]
  /\ MaxDelay \in Nat
  /\ Floor \in Nat \ {0} /\ OfferTime \in Nat /\ Tries \in Nat \ {0}
  /\ Lease \in Nat /\ Lease >= 2 * (Floor + 1)

VARIABLES
  bound,
  client,    \* per client: st, requested_ip, timeout, waited, packet_num, xid
  net,       \* the packets underway
  srv,       \* udhcpd: "idle", "search", "write", "down"
  search,    \* find_free_or_expired_nip: for whom, the next address, whether a
             \* conflict lease was added
  max_leases,
  leases,    \* g_leases without its empty entries
  file,      \* lease_file, the time left as of now
  foreign,   \* addresses hosts use that the server knows nothing of
  faults,
  orphaned,  \* history: clients whose lease was lost in a crash, or cut short
             \* by an old packet of theirs
  unsaved    \* history: clients whose lease a failed write left out of the file

dhcpVars ==
  <<bound, client, net, srv, search, max_leases, leases, file, foreign, faults, orphaned, unsaved>>
configVars == <<bound, max_leases, foreign>>
serverVars == <<srv, search, leases, file, unsaved>>

Ips == 1 .. bound.ips

Packet(op, c, xid, ip, ci) == [op |-> op, mac |-> c, xid |-> xid, ip |-> ip, ci |-> ci, age |-> 0]

\* A packet that is sent into a network that is full is lost.
Sent(packets, p) == IF Cardinality(packets) < bound.packets THEN packets \cup {p} ELSE packets
Send(p) == net' = Sent(net, p)

Holding == {"BOUND", "RENEWING", "REBINDING", "RENEW_REQUESTED"}
Holds(c, ip) == client[c].st \in Holding /\ client[c].requested_ip = ip

\* An ARP request of c finds them.
Taken(c) == foreign \cup {ip \in Ips : \E d \in Clients \ {c} : Holds(d, ip)}

\* c may still take packets with its xid: it does not start over with another one.
Expecting(c) ==
  /\ client[c].st # "RELEASED"
  /\ client[c].st = "INIT_SELECTING" => client[c].packet_num > 0 \/ client[c].timeout > 0

\* The ACKs underway that c may still take.
Acks(c) ==
  {p \in net : p.op = "ACK" /\ p.mac = c /\ p.xid = client[c].xid /\ Expecting(c)}

\* The addresses c holds, or will hold when an ACK underway arrives.
Promised(c) == {ip \in Ips : Holds(c, ip)} \cup {p.ip : p \in Acks(c)}

NotSearching == [mac |-> NoMac, xid |-> 0, ip |-> 0, added |-> FALSE]

-----------------------------------------------------------------------------
DhcpInit ==
  /\ bound \in Bounds
  /\ client \in [Clients -> [st : {"INIT_SELECTING"}, requested_ip : {0, 1}, timeout : {0},
                             waited : {0}, packet_num : {0}, xid : {0}]]
  /\ net = {}
  /\ srv = "idle" /\ search = NotSearching
  /\ max_leases \in Ips
  /\ leases = {} /\ file = {}
  /\ foreign \in SUBSET Ips
  /\ faults = bound.faults
  /\ orphaned = {} /\ unsaved = {}

-----------------------------------------------------------------------------
(* The client.                                                             *)

\* The next state of c, its wait started again.
Turn(c, st, ip, timeout, n) ==
  client' = [client EXCEPT ![c] = [st |-> st, requested_ip |-> ip, timeout |-> timeout,
                                   waited |-> 0, packet_num |-> n, xid |-> client[c].xid]]

\* random_xid: no packet of c that is underway has it.
FreshXid(c) == CHOOSE x \in 0 .. bound.packets : \A p \in net : p.mac = c => p.xid # x

\* send_discover, or leasefail.
Discover(c) ==
  LET me == client[c]
      xid == IF me.packet_num = 0 THEN FreshXid(c) ELSE me.xid
  IN IF me.packet_num < Tries
     THEN /\ client' = [client EXCEPT ![c] =
                         [st |-> me.st, requested_ip |-> me.requested_ip, timeout |-> 1, waited |-> 0,
                          packet_num |-> me.packet_num + 1, xid |-> xid]]
          /\ Send(Packet("DISCOVER", c, xid, me.requested_ip, 0))
     ELSE Turn(c, "INIT_SELECTING", me.requested_ip, 1, 0) /\ UNCHANGED net

\* send_select, or back to INIT_SELECTING.
Select(c) ==
  LET me == client[c] IN
  IF me.packet_num < Tries
  THEN /\ Turn(c, "REQUESTING", me.requested_ip, 1, me.packet_num + 1)
       /\ Send(Packet("SELECT", c, me.xid, me.requested_ip, 0))
  ELSE Turn(c, "INIT_SELECTING", me.requested_ip, 1, 0) /\ UNCHANGED net

\* send_renew and half of the timeout.
Renew(c, st, timeout) ==
  LET me == client[c] IN
  /\ Turn(c, st, me.requested_ip, timeout \div 2, me.packet_num)
  /\ Send(Packet("RENEW", c, me.xid, 0, me.requested_ip))

Rebind(c, timeout) ==
  IF timeout > 0
  THEN Renew(c, "REBINDING", timeout)
  ELSE Turn(c, "INIT_SELECTING", client[c].requested_ip, 0, 0) /\ UNCHANGED net

\* case_RENEW_REQUESTED; the unicast may fail.
UnicastRenew(c, st, timeout) ==
  \/ timeout >= Floor /\ Renew(c, st, timeout)
  \/ Rebind(c, timeout)

Due(c) == client[c].st # "RELEASED" /\ client[c].waited >= client[c].timeout

ClientTimeout(c) ==
  /\ Due(c)
  /\ CASE client[c].st = "INIT_SELECTING" -> Discover(c)
       [] client[c].st = "REQUESTING" -> Select(c)
       [] client[c].st \in {"BOUND", "RENEWING"} -> UnicastRenew(c, "RENEWING", client[c].timeout)
       [] client[c].st = "RENEW_REQUESTED" -> UnicastRenew(c, "RENEW_REQUESTED", client[c].timeout)
       [] client[c].st = "REBINDING" -> Rebind(c, client[c].timeout)
  /\ UNCHANGED <<configVars, serverVars, faults, orphaned>>

\* SIGUSR1: perform_renew.
RenewSignal(c) ==
  LET me == client[c] IN
  /\ faults > 0
  /\ faults' = faults - 1
  /\ IF me.st \in {"BOUND", "RENEWING", "REBINDING"}
     THEN UnicastRenew(c, "RENEW_REQUESTED", IF me.timeout > Floor THEN Floor ELSE me.timeout)
     ELSE Turn(c, "INIT_SELECTING", me.requested_ip, 0, 0) /\ UNCHANGED net
  /\ UNCHANGED <<configVars, serverVars, orphaned>>

\* SIGUSR2: perform_release.
ReleaseSignal(c) ==
  LET me == client[c] IN
  /\ faults > 0
  /\ faults' = faults - 1
  /\ Turn(c, "RELEASED", me.requested_ip, 0, 0)
  /\ IF me.st \in Holding
     THEN Send(Packet("RELEASE", c, 0, 0, me.requested_ip))
     ELSE UNCHANGED net
  /\ UNCHANGED <<configVars, serverVars, orphaned>>

\* The packet is for c and c polls for it.
Listening(c, p) ==
  /\ p \in net
  /\ p.mac = c
  /\ p.xid = client[c].xid
  /\ client[c].waited < client[c].timeout
  /\ UNCHANGED <<configVars, serverVars, faults, orphaned>>

ReceiveOffer(c, p) ==
  /\ Listening(c, p)
  /\ p.op = "OFFER"
  /\ client[c].st = "INIT_SELECTING"
  /\ Turn(c, "REQUESTING", p.ip, 0, 0)
  /\ net' = net \ {p}

Requested == {"REQUESTING", "RENEWING", "REBINDING", "RENEW_REQUESTED"}

\* The client is bound, or with -a finds that the address is in use.
ReceiveAck(c, p) ==
  /\ Listening(c, p)
  /\ p.op = "ACK"
  /\ client[c].st \in Requested
  /\ \/ /\ Turn(c, "BOUND", p.ip, Lease \div 2, client[c].packet_num)
        /\ net' = net \ {p}
     \/ /\ p.ip \in Taken(c)
        /\ Turn(c, "INIT_SELECTING", 0, 1, 0)
        /\ net' = Sent(net \ {p}, Packet("DECLINE", c, 0, p.ip, 0))

ReceiveNak(c, p) ==
  /\ Listening(c, p)
  /\ p.op = "NAK"
  /\ client[c].st \in Requested
  /\ Turn(c, "INIT_SELECTING", 0, 0, 0)
  /\ net' = net \ {p}

-----------------------------------------------------------------------------
(* The lease table.                                                        *)

Entry(mac, ip, left) == [mac |-> mac, nip |-> ip, left |-> left]
Expired(table) == {e \in table : e.left < 0}
LeaseOf(c) == {e \in leases : e.mac = c}

\* Mutation: only the lease of the client is cleared.
ClearLeasesOfMac(mac, ip) == {e \in leases : mac = NoMac \/ e.mac # mac}

\* clear_leases; a conflict lease has no chaddr to look for.
ClearLeases(mac, ip) == {e \in leases : e.nip # ip /\ (mac = NoMac \/ e.mac # mac)}

\* add_lease: the tables it may leave, none if it finds no room.  Which one
\* of the expired leases is the oldest is left open.
AddLease(mac, ip, left) ==
  LET cleared == ClearLeases(mac, ip)
      new == Entry(mac, ip, left)
  IN IF Cardinality(cleared) < max_leases
     THEN {cleared \cup {new}}
     ELSE {(cleared \ {e}) \cup {new} : e \in Expired(cleared)}

\* nobody_responds_to_arp: an address that answers becomes a conflict lease.
Conflict(ip) ==
  LET added == AddLease(NoMac, ip, OfferTime)
  IN IF added = {} THEN {ClearLeases(NoMac, ip)} ELSE added

\* Mutation: the requested address is offered although it is taken.
ChoicesTaken(p) ==
  IF LeaseOf(p.mac) # {} THEN {e.nip : e \in LeaseOf(p.mac)} ELSE {ip \in Ips : ip = p.ip}

\* send_offer: the address it offers for the packet p without a search.
Choices(p) ==
  IF LeaseOf(p.mac) # {}
  THEN {e.nip : e \in LeaseOf(p.mac)}
  ELSE {ip \in Ips : ip = p.ip /\ \A e \in leases : e.nip = ip => e.left < 0}

-----------------------------------------------------------------------------
(* The server.                                                             *)

\* What c was promised, the server does no longer keep.
CutShort(c) == orphaned' = IF Promised(c) # {} THEN orphaned \cup {c} ELSE orphaned

\* The end of send_offer: ip is reserved for c and offered.
Offer(c, xid, ip, packets) ==
  LET tables == AddLease(c, ip, OfferTime) IN
  /\ \/ /\ tables = {}
        /\ leases' = ClearLeases(c, ip)
        /\ net' = packets
     \/ /\ leases' \in tables
        /\ net' = Sent(packets, Packet("OFFER", c, xid, ip, 0))
  /\ CutShort(c)

Receives(p, ops) ==
  /\ srv = "idle"
  /\ p \in net
  /\ p.op \in ops
  /\ UNCHANGED <<configVars, client, file, faults, unsaved>>

SendOffer(p) ==
  /\ Receives(p, {"DISCOVER"})
  /\ \E ip \in Choices(p) : Offer(p.mac, p.xid, ip, net \ {p})
  /\ UNCHANGED <<srv, search>>

\* find_free_or_expired_nip begins.
Search(p) ==
  /\ Receives(p, {"DISCOVER"})
  /\ Choices(p) = {}
  /\ net' = net \ {p}
  /\ srv' = "search"
  /\ search' = [mac |-> p.mac, xid |-> p.xid, ip |-> 1, added |-> FALSE]
  /\ UNCHANGED <<leases, orphaned>>

Leased(ip) == \E e \in leases : e.nip = ip

Searching == srv = "search" /\ UNCHANGED <<configVars, client, file, faults, unsaved>>
EndSearch == srv' = "idle" /\ search' = NotSearching
Found(ip) == Offer(search.mac, search.xid, ip, net) /\ EndSearch

\* The next address that is not leased: the server waits for an answer to its
\* ARP request and goes on if there is one.
Probe ==
  /\ Searching
  /\ \E ip \in search.ip .. bound.ips :
       /\ ~ Leased(ip)
       /\ \A k \in search.ip .. ip - 1 : Leased(k)
       /\ \/ Found(ip)
          \/ /\ ip \in Taken(search.mac)
             /\ leases' \in Conflict(ip)
             /\ search' = [search EXCEPT !.ip = ip + 1, !.added = TRUE]
             /\ UNCHANGED <<net, srv, orphaned>>

\* All are leased: the oldest lease is taken if it has expired.  A conflict lease
\* added on the way may have replaced the entry oldest_lease points to.
ProbeOldest ==
  /\ Searching
  /\ \A ip \in search.ip .. bound.ips : Leased(ip)
  /\ \/ \E e \in Expired(leases) : Found(e.nip)
     \/ /\ \E e \in Expired(leases) : e.nip \in Taken(search.mac) /\ leases' \in Conflict(e.nip)
        /\ EndSearch
        /\ UNCHANGED <<net, orphaned>>
     \/ /\ Expired(leases) = {} \/ search.added
        /\ EndSearch
        /\ UNCHANGED <<leases, net, orphaned>>

\* Mutation: the file is left to auto_time.
SendAckUnwritten(p) ==
  LET ip == IF p.op = "SELECT" THEN p.ip ELSE p.ci IN
  /\ Receives(p, {"SELECT", "RENEW"})
  /\ ip # 0
  /\ \E e \in LeaseOf(p.mac) : e.nip = ip
  /\ net' = Sent(net \ {p}, Packet("ACK", p.mac, p.xid, ip, 0))
  /\ leases' \in AddLease(p.mac, ip, Lease)
  /\ orphaned' = IF Promised(p.mac) \subseteq {ip} THEN orphaned \ {p.mac} ELSE orphaned
  /\ UNCHANGED <<srv, search>>

\* The lease is of the address that is asked for: send_ACK up to write_leases.
SendAck(p) ==
  LET ip == IF p.op = "SELECT" THEN p.ip ELSE p.ci IN
  /\ Receives(p, {"SELECT", "RENEW"})
  /\ ip # 0
  /\ \E e \in LeaseOf(p.mac) : e.nip = ip
  /\ net' = Sent(net \ {p}, Packet("ACK", p.mac, p.xid, ip, 0))
  /\ leases' \in AddLease(p.mac, ip, Lease)
  /\ srv' = "write"
  /\ orphaned' = IF Promised(p.mac) \subseteq {ip} THEN orphaned \ {p.mac} ELSE orphaned
  /\ UNCHANGED search

\* It is not: NAK, or silence for a client that renews.
Refuse(p) ==
  LET ip == IF p.op = "SELECT" THEN p.ip ELSE p.ci IN
  /\ Receives(p, {"SELECT", "RENEW"})
  /\ \A e \in LeaseOf(p.mac) : e.nip # ip
  /\ net' = IF p.op = "SELECT"
            THEN Sent(net \ {p}, Packet("NAK", p.mac, p.xid, 0, 0))
            ELSE net \ {p}
  /\ UNCHANGED <<srv, search, leases, orphaned>>

Decline(p) ==
  /\ Receives(p, {"DECLINE"})
  /\ net' = net \ {p}
  /\ leases' = {IF e.mac = p.mac /\ e.nip = p.ip THEN Entry(NoMac, e.nip, OfferTime) ELSE e
                : e \in leases}
  /\ CutShort(p.mac)
  /\ UNCHANGED <<srv, search>>

Release(p) ==
  /\ Receives(p, {"RELEASE"})
  /\ net' = net \ {p}
  /\ leases' = {IF e.mac = p.mac /\ e.nip = p.ci THEN [e EXCEPT !.left = 0] ELSE e : e \in leases}
  /\ CutShort(p.mac)
  /\ UNCHANGED <<srv, search>>

Written(table) == {[e EXCEPT !.left = IF @ < 0 THEN 0 ELSE @] : e \in table}

\* write_leases, after an ACK, on SIGUSR1 and SIGTERM, and every auto_time.
WriteLeases ==
  /\ srv \in {"idle", "write"}
  /\ file' = Written(leases)
  /\ srv' = "idle"
  /\ unsaved' = {}
  /\ UNCHANGED <<configVars, client, net, search, leases, faults, orphaned>>

\* Clients that were promised an address that the table does not keep.
Forgotten(table) ==
  {c \in Clients : \E ip \in Promised(c) :
     \A e \in table : e.mac # c \/ e.nip # ip
                       \/ \E f \in leases : f.mac = c /\ f.nip = ip /\ e.left < f.left}

\* write_leases cannot open the file, which stays as it is, or truncates it and
\* writes some of the leases only.  The server goes on.
WriteFails ==
  /\ srv \in {"idle", "write"}
  /\ faults > 0
  /\ faults' = faults - 1
  /\ file' \in {file} \cup SUBSET Written(leases)
  /\ srv' = "idle"
  /\ unsaved' = Forgotten(file')
  /\ UNCHANGED <<configVars, client, net, search, leases, orphaned>>

\* The server is killed, after an ACK before write_leases, or in the middle
\* of any write_leases, which leaves some of the leases.
Crash ==
  /\ srv # "down"
  /\ faults > 0
  /\ faults' = faults - 1
  /\ file' \in {file} \cup SUBSET Written(leases)
  /\ orphaned' = orphaned \cup Forgotten(file') /\ unsaved' = {}
  /\ srv' = "down" /\ search' = NotSearching
  /\ leases' = {}
  /\ UNCHANGED <<configVars, client, net>>

\* read_leases: conflict leases have the same hardware address, and the last
\* one read clears the others.
Read ==
  LET conflicts == {e \in file : e.mac = NoMac}
      known == file \ conflicts
  IN IF conflicts = {} THEN {known} ELSE {known \cup {e} : e \in conflicts}

\* A file older than 12 hours is not read.
Restart ==
  /\ srv = "down"
  /\ srv' = "idle"
  /\ \/ leases' \in Read /\ UNCHANGED orphaned
     \/ leases' = {} /\ orphaned' = orphaned \cup {c \in Clients : Promised(c) # {}}
  /\ UNCHANGED <<configVars, client, net, search, file, faults, unsaved>>

-----------------------------------------------------------------------------
\* What waits in the socket of a server that searches is not lost.
Waits(p) == srv = "search" /\ p.op \notin {"OFFER", "ACK", "NAK"}

\* A client that is due is not late by a tick, nor is write_leases.
Tick ==
  /\ \A c \in Clients : ~ Due(c)
  /\ srv # "write"
  /\ client' = [c \in Clients |->
       IF client[c].st = "RELEASED" THEN client[c] ELSE [client[c] EXCEPT !.waited = @ + 1]]
  /\ net' = {[p EXCEPT !.age = IF @ < MaxDelay THEN @ + 1 ELSE @] :
               p \in {q \in net : q.age < MaxDelay \/ Waits(q)}}
  /\ leases' = {[e EXCEPT !.left = IF @ < 0 THEN @ ELSE @ - 1] : e \in leases}
  /\ file' = {[e EXCEPT !.left = IF @ = 0 THEN 0 ELSE @ - 1] : e \in file}
  /\ UNCHANGED <<configVars, srv, search, faults, orphaned, unsaved>>

ServerStep ==
  \/ \E p \in net : \/ SendOffer(p) \/ Search(p) \/ SendAck(p)
                    \/ Refuse(p) \/ Decline(p) \/ Release(p)
  \/ Probe \/ ProbeOldest
ClientReceives(c) == \E p \in net : ReceiveOffer(c, p) \/ ReceiveAck(c, p) \/ ReceiveNak(c, p)

DhcpNext ==
  \/ \E c \in Clients : \/ ClientTimeout(c) \/ ClientReceives(c)
                        \/ RenewSignal(c) \/ ReleaseSignal(c)
  \/ ServerStep \/ WriteLeases \/ WriteFails \/ Crash \/ Restart
  \/ Tick

DhcpSpec == DhcpInit /\ [][DhcpNext]_dhcpVars

-----------------------------------------------------------------------------
Macs == Clients \cup {NoMac}
Rows == [mac : Macs, nip : Ips, left : Nat \cup {-1}]
ClientStates ==
  [st : Holding \cup {"INIT_SELECTING", "REQUESTING", "RELEASED"}, requested_ip : 0 .. bound.ips,
   timeout : 0 .. Lease, waited : 0 .. Lease, packet_num : 0 .. Tries, xid : 0 .. bound.packets]
Packets ==
  [op : {"DISCOVER", "OFFER", "SELECT", "RENEW", "ACK", "NAK", "DECLINE", "RELEASE"}, mac : Clients,
   xid : 0 .. bound.packets, ip : 0 .. bound.ips, ci : 0 .. bound.ips, age : 0 .. MaxDelay]

\* Every variable of the clients and the server keeps its type.
DhcpTypeOK ==
  /\ bound \in Bounds
  /\ client \in [Clients -> ClientStates]
  /\ net \subseteq Packets
  /\ srv \in {"idle", "search", "write", "down"}
  /\ search \in [mac : Macs, xid : 0 .. bound.packets, ip : 0 .. bound.ips + 1, added : BOOLEAN]
  /\ max_leases \in Ips
  /\ leases \subseteq Rows /\ Cardinality(leases) <= max_leases
  /\ \A e, f \in leases : e.nip = f.nip => e = f
  /\ file \subseteq {e \in Rows : e.left >= 0}
  /\ foreign \subseteq Ips
  /\ faults \in 0 .. bound.faults
  /\ orphaned \subseteq Clients /\ unsaved \subseteq Clients

\* add_lease and send_offer: two clients hold one address only if the lease of
\* one was lost with the server, or cut short by a packet that was overtaken.
NoTwoHolders ==
  \A c, d \in Clients \ orphaned : \A ip \in Ips :
    Holds(c, ip) /\ Holds(d, ip) => c = d

\* timeout >>= 1 until it is 0: how long a client goes on after a timeout of n.
Halves[n \in 0 .. Lease] == IF n < 2 THEN 0 ELSE (n \div 2) + Halves[n \div 2]

\* A packet is not underway for longer than the halvings leave of a lease.
ASSUME DelayAssumption == MaxDelay + Halves[Lease] <= Lease

\* How long c will hold the address at most.
StillHeld(c, ip) ==
  IF Holds(c, ip)
  THEN (client[c].timeout - client[c].waited) + Halves[client[c].timeout]
  ELSE Halves[Lease]

Kept(table, c, ip) ==
  \E e \in table : e.mac = c /\ e.nip = ip /\ e.left >= StillHeld(c, ip)

\* lease_seconds / 2 and write_leases at every ACK: the server keeps a lease
\* for as long as the client may hold the address, in the table while it runs
\* and on disk for when it is started again, unless the file could not be
\* written ("we lose some leases on restart. Oh well.").
HeldIsKept ==
  \A c \in Clients \ orphaned : \A ip \in Promised(c) :
    /\ srv # "down" => Kept(leases, c, ip)
    /\ srv # "write" /\ c \notin unsaved => Kept(file, c, ip)
=============================================================================
