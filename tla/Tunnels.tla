------------------------------ MODULE Tunnels ------------------------------
(***************************************************************************)
(* Two plugins that carry packets of hosts from one local network (LAN) to *)
(* the others: routers capture them on interfaces that do not speak OLSR,  *)
(* flood them as OLSR messages, and routers that receive the messages put  *)
(* the packets on their own LANs.                                          *)
(*                                                                         *)
(*   - src/lib/mdns: multicast DNS.  The routers of a LAN elect a master,  *)
(*     and what a router emits has TTL 1 and is not captured again.        *)
(*   - src/lib/p2pd: any listed UDP destination.  No election; duplicate   *)
(*     messages are filtered, packets by a hash or by their TTL only when  *)
(*     that is configured.                                                 *)
(*                                                                         *)
(* The flooding of the messages is modelled by what it may do: a message   *)
(* reaches the routers its hop limit covers, after a while, from several   *)
(* neighbours or not at all.  The parser calls a plugin with every copy.   *)
(***************************************************************************)
EXTENDS Integers, FiniteSets, Sequences, FiniteSetsExt

CONSTANTS
  Routers,      \* routers, numbers in the order of their addresses
  Lans,         \* local networks
  Hops,         \* [Routers -> [Routers -> Nat]]: hops in the mesh
  Configs,      \* configurations, the same for all routers: see Config
  MaxTtl,       \* MAX_TTL
  HoldTime,     \* HISTORY_HOLD_TIME
  DupTimeout,   \* P2pdDuplicateTimeout
  EntryTtl,     \* ENTRYTTL: elections that an entry survives
  Elections,    \* elections between two hellos of a router, HELLO_TIMER / ELECTION_TIMER
  MaxFaults     \* bound: messages and hellos lost or repeated, interfaces that fail, routers that stop

\* multi: sent to a multicast (or broadcast) address; long: at least as long as
\* the part a fingerprint is made of; local: from a link-local address; fits:
\* into an OLSR packet; intact: as the host sent it.
Packet ==
  [name : STRING, lan : Lans, udp : BOOLEAN, frag : BOOLEAN, multi : BOOLEAN, port : STRING,
   ttl : Nat, filtered : BOOLEAN, long : BOOLEAN, local : BOOLEAN, fits : BOOLEAN, intact : BOOLEAN]

\* ports: the UdpDestPort parameters; links: per router the interfaces the
\* kernel lists, in order, and which are named as NonOlsrIf; filter: whether a
\* FilteredHost is given; packets: what hosts may
\* send, and at most how many of these.
Config ==
  [plugin : {"mdns", "p2pd"}, v6 : BOOLEAN, check : BOOLEAN, hash : BOOLEAN, decrement : BOOLEAN,
   ttl : Nat, filter : BOOLEAN, ports : Seq([port : STRING, v6 : BOOLEAN, multi : BOOLEAN, valid : BOOLEAN]),
   links : [Routers -> Seq([lan : Lans, named : BOOLEAN])],
   packets : SUBSET Packet, most : Nat]

VARIABLES
  conf,      \* the configuration
  up,        \* routers that run the plugin
  stopped,   \* routers that have run it
  ifs,       \* BmfInterfaces, nonOlsrInterfaces: [lan, active]
  ready,     \* routers whose initTimer has run
  list,      \* ListOfRouter: the ttl of <<election socket, router>>, 0 if there is no entry;
             \* entries of greater addresses play no part and are left out
  gap,       \* elections of a router since a smaller one's hello
  history,   \* PacketHistory: fingerprints and the time that is left to them
  filter,    \* the list at dupFilterHead, with the age of the entries
  sock,      \* frames in the capturing sockets
  flight,    \* messages in the mesh
  seqno,     \* of the next message
  sent,      \* packets that hosts have sent
  entered,   \* how often a router has sent a packet into the mesh
  seen,      \* how often hosts of a LAN have seen a packet
  faults

mesh == <<history, filter, flight, seqno, entered>>
election == <<ready, list, gap>>
vars == <<conf, up, stopped, ifs, election, mesh, sock, sent, seen, faults>>

Names == {p.name : p \in conf.packets}
Open(r) == {ifs[r][i].lan : i \in DOMAIN ifs[r]}
Active(r) == {ifs[r][i].lan : i \in {j \in DOMAIN ifs[r] : ifs[r][j].active}}

Init ==
  /\ conf \in Configs
  /\ up = {} /\ stopped = {} /\ ready = {}
  /\ ifs = [r \in Routers |-> <<>>]
  /\ list = [r \in Routers |-> [e \in Lans \X Routers |-> 0]]
  /\ gap = [r \in Routers |-> [s \in Routers |-> 0]]
  /\ history = [r \in Routers |-> {}] /\ filter = [r \in Routers |-> {}]
  /\ sock = [r \in Routers |-> [l \in Lans |-> <<>>]]
  /\ flight = {} /\ seqno = [r \in Routers |-> 0]
  /\ sent = {} /\ faults = 0
  /\ entered = [n \in Names |-> [r \in Routers |-> 0]]
  /\ seen = [l \in Lans |-> [n \in Names |-> 0]]
----------------------------------------------------------------------------
(* Start and end *)

\* AddUdpDestPort: an IPv6 address must be multicast, an IPv4 address need not.
AddUdpDestPort(e) == e.valid /\ (e.v6 => e.multi)

\* IsNonOlsrIf; the plugins ask the kernel for the interfaces once, at the start.
Named(r) == SelectSeq(conf.links[r], LAMBDA i : i.named)
NamedLans(r) == {Named(r)[i].lan : i \in DOMAIN Named(r)}

\* CreateBmfNetworkInterfaces, CreateNonOlsrNetworkInterfaces: an interface whose
\* capturing socket cannot be opened is left out.
Working(r, broken) == SelectSeq(Named(r), LAMBDA i : i.lan \notin broken)

\* CreateInterface: appended to the list, active at first.
Created(r, broken) ==
  [i \in DOMAIN Working(r, broken) |-> [lan |-> Working(r, broken)[i].lan, active |-> TRUE]]

\* A refused parameter keeps a plugin from being loaded.
Start(r) ==
  /\ r \notin up \cup stopped
  /\ \A i \in DOMAIN conf.ports : AddUdpDestPort(conf.ports[i])
  /\ up' = up \cup {r}
  /\ \E broken \in SUBSET NamedLans(r) :
       /\ Cardinality(broken) + faults <= MaxFaults
       /\ faults' = faults + Cardinality(broken)
       /\ ifs' = [ifs EXCEPT ![r] = Created(r, broken)]
  /\ UNCHANGED <<conf, stopped, election, mesh, sock, sent, seen>>

InitMDNS(r) == conf.plugin = "mdns" /\ Start(r)
InitP2pd(r) == conf.plugin = "p2pd" /\ Start(r)

\* All sockets are closed and the list is emptied.
Stop(r) ==
  /\ r \in up /\ faults < MaxFaults
  /\ up' = up \ {r} /\ stopped' = stopped \cup {r} /\ ready' = ready \ {r}
  /\ ifs' = [ifs EXCEPT ![r] = <<>>]
  /\ sock' = [sock EXCEPT ![r] = [l \in Lans |-> <<>>]]
  /\ faults' = faults + 1
  /\ UNCHANGED <<conf, list, gap, mesh, sent, seen>>

CloseMDNS(r) == conf.plugin = "mdns" /\ Stop(r)
CloseP2pd(r) == conf.plugin = "p2pd" /\ Stop(r)
----------------------------------------------------------------------------
(* Frames on a LAN: a packet socket gets every frame but those it sends.   *)

\* The sockets after router r (or a host, r = 0) has sent q on the LANs L.
Heard(r, L, q) ==
  [s \in Routers |-> [l \in Lans |->
     IF s # r /\ l \in L \cap Open(s) THEN Append(sock[s][l], q) ELSE sock[s][l]]]

Seen(L, q) == [l \in Lans |-> IF l \in L THEN [seen[l] EXCEPT ![q.name] = @ + 1] ELSE seen[l]]

HostSends(p) ==
  /\ p \notin sent /\ Cardinality(sent) < conf.most /\ up # {}
  /\ sent' = sent \cup {p}
  /\ sock' = Heard(0, {p.lan}, p)
  /\ seen' = Seen({p.lan}, p)
  /\ UNCHANGED <<conf, up, stopped, ifs, election, mesh, faults>>
----------------------------------------------------------------------------
(* Into the mesh *)

MessageTtl == IF conf.ttl = 0 THEN MaxTtl ELSE conf.ttl

\* One message, on all OLSR interfaces; one that does not fit even into an empty
\* packet is dropped.
Gen(r, q) ==
  /\ flight' = flight \cup
       IF q.fits
       THEN {[orig |-> r, seqno |-> seqno[r], pkt |-> q, to |-> s] :
               s \in {s \in Routers \ {r} : Hops[r][s] <= MessageTtl}}
       ELSE {}
  /\ seqno' = [seqno EXCEPT ![r] = @ + 1]
  /\ entered' = [entered EXCEPT ![q.name][r] = @ + 1]

olsr_mdns_gen(r, q) == conf.plugin = "mdns" /\ Gen(r, q)
olsr_p2pd_gen(r, q) == conf.plugin = "p2pd" /\ Gen(r, q)

NoGen == UNCHANGED <<flight, seqno, entered>>

\* Only what is sent to several hosts is captured, whole or in fragments.
Captured(q) == q.multi

\* BmfPacketCaptured.  With IPv6 the source that is looked up in the list of
\* filtered hosts is not set: any answer is possible.
FilterAnswers(q) ==
  IF ~conf.filter THEN {FALSE} ELSE IF conf.v6 THEN BOOLEAN ELSE {q.filtered}

MdnsTakes(q) == Captured(q) /\ q.udp /\ q.port = "mdns" /\ (conf.check => q.ttl > 1)

DoMDNS(r, l) ==
  /\ conf.plugin = "mdns" /\ r \in up /\ sock[r][l] # <<>>
  /\ sock' = [sock EXCEPT ![r][l] = Tail(@)]
  /\ \E q \in {Head(sock[r][l])} :
     \E discard \in FilterAnswers(q) :
       IF l \in Active(r) /\ MdnsTakes(q) /\ ~discard THEN olsr_mdns_gen(r, q) ELSE NoGen
  /\ UNCHANGED <<conf, up, stopped, ifs, election, history, filter, sent, seen, faults>>

\* check_and_mark_recent_packet: the fingerprint starts eight octets into the
\* packet, and its length is what stands there.  With IPv4 it covers the TTL,
\* the checksum, which is taken as the length, and beyond the end of a short
\* packet whatever lies there; with IPv6 not the hop limit, and nothing at all
\* of a packet from a link-local address.
Fingerprints(q) ==
  CASE ~conf.hash          -> {"unused"}
    [] conf.v6 /\ q.local  -> {<<"", 0, 0>>}
    [] conf.v6 /\ ~q.local -> {<<q.name, 0, 0>>}
    [] ~conf.v6 /\ q.long  -> {<<q.name, q.ttl, 0>>}
    [] OTHER               -> {<<q.name, q.ttl, junk>> : junk \in 0 .. 1}

\* PrunePacketHistory
Recent(r) == {h \in history[r] : h.left > 0}

\* CheckAndMarkRecentPacket: a packet that is found is marked again.
Duplicate(r, f) == conf.hash /\ \E h \in Recent(r) : h.mark = f

Mark(r, f) ==
  history' = IF conf.hash
             THEN [history EXCEPT ![r] = {h \in Recent(r) : h.mark # f}
                                          \cup {[mark |-> f, left |-> HoldTime]}]
             ELSE history

Listed(q) == \E i \in DOMAIN conf.ports : conf.ports[i].v6 = conf.v6 /\ conf.ports[i].port = q.port

\* P2pdPacketCaptured: the TTL as it goes into the mesh; 0 if it is used up.
Decremented(q) == IF conf.decrement /\ q.ttl > 0 THEN q.ttl - 1 ELSE q.ttl

P2pdPacketCaptured(r, q) ==
  IF Captured(q) /\ q.udp /\ (~conf.v6 => ~q.frag)
  THEN \E f \in Fingerprints(q) :
         /\ Mark(r, f)
         /\ IF ~Duplicate(r, f) /\ Listed(q) /\ (conf.decrement => Decremented(q) > 0)
            THEN olsr_p2pd_gen(r, [q EXCEPT !.ttl = Decremented(q)])
            ELSE NoGen
  ELSE history' = history /\ NoGen

DoP2pd(r, l) ==
  /\ conf.plugin = "p2pd" /\ r \in up /\ sock[r][l] # <<>>
  /\ sock' = [sock EXCEPT ![r][l] = Tail(@)]
  /\ \E q \in {Head(sock[r][l])} : P2pdPacketCaptured(r, q)
  /\ UNCHANGED <<conf, up, stopped, ifs, election, filter, sent, seen, faults>>
----------------------------------------------------------------------------
(* Out of the mesh *)

\* What is left of the message for other copies: the parser is called again if
\* another neighbour forwards the message too.
Copy(m, again) ==
  /\ again => faults < MaxFaults
  /\ faults' = IF again THEN faults + 1 ELSE faults
  /\ flight' = IF again THEN flight ELSE flight \ {m}

\* PacketReceivedFromOLSR of mdns: an interface where this router is not master
\* ends the loop.  The IPv4 checksum is written into IPv6 packets as well, where
\* the source address is.
Masters(r) ==
  {i \in DOMAIN ifs[r] : \A j \in 1 .. i : ifs[r][j].active}

MdnsEmitted(q) ==
  [q EXCEPT !.ttl = IF conf.check THEN 1 ELSE @, !.intact = @ /\ ~conf.v6]

MdnsEmit(r, q) ==
  \E L \in {{ifs[r][i].lan : i \in Masters(r)}} :
    /\ sock' = Heard(r, L, q)
    /\ seen' = IF q.intact THEN Seen(L, q) ELSE seen

MdnsParser(m, sym, again) ==
  /\ conf.plugin = "mdns" /\ m.to \in up
  /\ Copy(m, again)
  /\ IF sym THEN MdnsEmit(m.to, MdnsEmitted(m.pkt)) ELSE UNCHANGED <<sock, seen>>
  /\ UNCHANGED <<conf, up, stopped, ifs, election, history, filter, seqno, sent, entered>>

\* p2pd_message_seen drops what is too old; a message that is found again does
\* not become younger.
Kept(r) == {e \in filter[r] : e.age <= DupTimeout}
IsDuplicateMessage(m) == \E e \in Kept(m.to) : e.orig = m.orig /\ e.seqno = m.seqno

\* p2pd_store_message
StoreMessage(m) ==
  filter' = [filter EXCEPT ![m.to] = Kept(m.to) \cup
               IF IsDuplicateMessage(m) THEN {}
               ELSE {[orig |-> m.orig, seqno |-> m.seqno, age |-> 0]}]

\* PacketReceivedFromOLSR of p2pd: the hardware address of an IPv6 frame is
\* never set (IsMulticastv6 always says no), and no host or router takes it.
P2pdEmit(r, q) ==
  \E f \in Fingerprints(q) :
    /\ Mark(r, f)
    /\ IF ~Duplicate(r, f) /\ Listed(q) /\ ~conf.v6
       THEN sock' = Heard(r, Open(r), q) /\ seen' = Seen(Open(r), q)
       ELSE UNCHANGED <<sock, seen>>

P2pdParser(m, again) ==
  /\ conf.plugin = "p2pd" /\ m.to \in up
  /\ Copy(m, again)
  /\ StoreMessage(m)
  /\ IF IsDuplicateMessage(m) THEN UNCHANGED <<history, sock, seen>> ELSE P2pdEmit(m.to, m.pkt)
  /\ UNCHANGED <<conf, up, stopped, ifs, election, seqno, sent, entered>>

\* The message does not get there, or the router there does not run the plugin.
Lose(m) ==
  /\ m.to \in up => faults < MaxFaults
  /\ faults' = IF m.to \in up THEN faults + 1 ELSE faults
  /\ flight' = flight \ {m}
  /\ UNCHANGED <<conf, up, stopped, ifs, election, history, filter, sock, seqno, sent, entered, seen>>
----------------------------------------------------------------------------
(* The election of a master (mdns) *)

\* initTimer, a second after the start
InitTimer(r) ==
  /\ conf.plugin = "mdns" /\ r \in up \ ready
  /\ ready' = ready \cup {r}
  /\ list' = [list EXCEPT ![r] = [e \in Lans \X Routers |-> 0]]
  /\ UNCHANGED <<conf, up, stopped, ifs, gap, mesh, sock, sent, seen, faults>>

\* CreateHelloSocket: a hello is sent into the LAN of the interface and not back
\* to the router itself.
Greeted(r) == {s \in Routers \ {r} : Open(s) \cap Open(r) # {}}

\* CreateRouterElectionSocket: a socket per interface, but all are bound to any
\* address, and the kernel gives a multicast to every such socket of a node that
\* has joined the group on some interface.
ElectionSockets(s) == Open(s)

\* DoElection.  (Before initTimer the list is not set up; a hello in that second
\* is left out.)
Listeners(r) == {s \in ready \cap Greeted(r) : s > r}

\* The list of s after a hello of r: a new entry, or one that is fresh again.
UpdateRouterList(s, r) ==
  [e \in Lans \X Routers |-> IF e[1] \in ElectionSockets(s) /\ e[2] = r THEN EntryTtl ELSE list[s][e]]

HelloTimer(r) ==
  /\ r \in ready
  /\ \E deaf \in SUBSET Listeners(r) :
       /\ Cardinality(deaf) + faults <= MaxFaults
       /\ faults' = faults + Cardinality(deaf)
       /\ list' = [s \in Routers |->
                     IF s \in Listeners(r) \ deaf THEN UpdateRouterList(s, r) ELSE list[s]]
  /\ gap' = [s \in Routers |-> [gap[s] EXCEPT ![r] = 0]]
  /\ UNCHANGED <<conf, up, stopped, ifs, ready, mesh, sock, sent, seen>>

\* electTimer: a router of a smaller address is known on the interface.  All
\* entries grow older with every interface that is looked at.
Rival(r, i) == \E s \in Routers : s < r /\ list[r][<<ifs[r][i].lan, s>>] >= i

ElectTimer(r) ==
  /\ r \in ready
  /\ \A s \in Routers : r \in Listeners(s) => gap[r][s] < Elections
  /\ gap' = [gap EXCEPT ![r] = [s \in Routers |-> IF r \in Listeners(s) THEN gap[r][s] + 1 ELSE 0]]
  /\ ifs' = [ifs EXCEPT ![r] = [i \in DOMAIN @ |-> [@[i] EXCEPT !.active = ~Rival(r, i)]]]
  /\ list' = [list EXCEPT ![r] = [e \in Lans \X Routers |-> Max({0, @[e] - Len(ifs[r])})]]
  /\ UNCHANGED <<conf, up, stopped, ready, mesh, sock, sent, seen, faults>>
----------------------------------------------------------------------------
\* What a router does with what has arrived.
Work ==
  \/ \E r \in Routers, l \in Lans : DoMDNS(r, l) \/ DoP2pd(r, l)
  \/ \E m \in flight, again \in BOOLEAN :
       \/ P2pdParser(m, again)
       \/ \E sym \in BOOLEAN : MdnsParser(m, sym, again)
  \/ \E m \in flight : Lose(m)

Quiet == flight = {} /\ \A r \in Routers, l \in Lans : sock[r][l] = <<>>

\* Time passes, as far as a message crosses the mesh in much less time than a
\* packet is remembered.  (What nobody will find again is taken away here and
\* not when the tables are looked at next.)
Tick ==
  /\ Quiet /\ \E r \in Routers : history[r] # {} \/ filter[r] # {}
  /\ history' = [r \in Routers |-> {[h EXCEPT !.left = @ - 1] : h \in {h \in history[r] : h.left > 1}}]
  /\ filter' = [r \in Routers |-> {[e EXCEPT !.age = @ + 1] : e \in {e \in filter[r] : e.age < DupTimeout}}]
  /\ UNCHANGED <<conf, up, stopped, ifs, election, flight, sock, seqno, sent, entered, seen, faults>>

Next ==
  \/ \E r \in Routers :
       InitMDNS(r) \/ InitP2pd(r) \/ CloseMDNS(r) \/ CloseP2pd(r) \/ InitTimer(r) \/ HelloTimer(r) \/ ElectTimer(r)
  \/ \E p \in conf.packets : HostSends(p)
  \/ Work
  \/ Tick

\* The scheduler serves the sockets and the timers again and again.
Fairness ==
  /\ WF_vars(Work)
  /\ \A r \in Routers : WF_vars(InitTimer(r)) /\ WF_vars(HelloTimer(r)) /\ WF_vars(ElectTimer(r))

Spec == Init /\ [][Next]_vars /\ Fairness
----------------------------------------------------------------------------
TypeOK ==
  /\ conf \in Configs /\ ready \subseteq up /\ up \subseteq Routers
  /\ sent \subseteq conf.packets /\ faults \in 0 .. MaxFaults
  /\ \A r \in Routers, e \in Lans \X Routers : list[r][e] \in 0 .. EntryTtl

\* The hash filter works on these: the same packet always has the same mark.
Recognised == conf.hash /\ ~conf.v6 /\ \A p \in sent : p.long

\* What protects the plugins from carrying a packet round and round when two
\* routers share a LAN.
Guarded ==
  \/ conf.plugin = "mdns" /\ conf.check
  \/ conf.plugin = "p2pd" /\ (Recognised \/ conf.decrement \/ conf.v6)
  \/ \A r, s \in Routers : r # s => Open(r) \cap Open(s) = {}

\* The messages with packet n that routers of LAN l may have received.
Offered(n, l) ==
  MapThenSumSet(LAMBDA p : IF l \in NamedLans(p[1]) /\ p[1] # p[2] THEN entered[n][p[2]] ELSE 0,
                Routers \X Routers)

\* No packet goes round.  What a plugin has put on a LAN does not enter the mesh
\* again: with mdns and its TTL check only the routers of the LAN a packet comes
\* from send it into the mesh, each once.  With the hash filter of p2pd every
\* router does so at most once, and no LAN sees a packet more often than it has
\* routers, and the once the host sent it.  And without the hash filter no
\* router puts a message on a LAN twice, however many copies of it arrive.
NoRound ==
  \A p \in sent :
    /\ conf.plugin = "mdns" /\ conf.check =>
         \A r \in Routers : entered[p.name][r] <= IF p.lan \in NamedLans(r) THEN 1 ELSE 0
    /\ conf.plugin = "p2pd" /\ Recognised /\ ~conf.decrement =>
         /\ \A r \in Routers : entered[p.name][r] <= 1
         /\ \A l \in Lans : seen[l][p.name] <= 1 + Cardinality({r \in Routers : l \in NamedLans(r)})
    /\ conf.plugin = "p2pd" => \A l \in Lans : seen[l][p.name] <= 1 + Offered(p.name, l)

\* The master of a LAN is its router with the smallest address, unless a router
\* with a smaller one is heard on another LAN of its.
Least(l) == Min({r \in up : l \in Open(r)})
Elected ==
  conf.plugin = "mdns" =>
    \A l \in UNION {Open(r) : r \in up} :
      {r \in up : l \in Active(r)} =
        IF \E s \in up : s < Least(l) /\ Open(s) \cap Open(Least(l)) # {} THEN {} ELSE {Least(l)}

\* What hosts have sent has come to rest, and the masters are elected.
AtRest == (Guarded => Quiet) /\ Elected

\* In the end it does, and every LAN has the master it should have, whichever
\* routers start late, stop or miss a hello.
TunnelsSettle == <>[]AtRest
============================================================================
