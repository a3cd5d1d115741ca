---------------------------- MODULE Bmf ----------------------------
(***************************************************************************)
(* The Basic Multicast Forwarding plugin (lib/bmf): multicast and local     *)
(* broadcast packets are captured on the node's interfaces, encapsulated    *)
(* and flooded over the mesh, along the multipoint relays OLSR has chosen;  *)
(* a history of fingerprints keeps a packet from being taken twice.         *)
(*                                                                          *)
(* A network of nodes is modelled.  A packet is its identity, its           *)
(* destination (a multicast group, the local broadcast address of a         *)
(* network, or anything else) and its source; its CRC-32 is taken to be     *)
(* collision free and to depend on identity and destination, not on TTL.    *)
(* MPR sets and links are OLSR's: the MPR sets satisfy what Mpr.tla shows   *)
(* of olsr_calculate_lq_mpr and of olsr_calculate_mpr.                      *)
(***************************************************************************)
EXTENDS Integers, FiniteSets, FiniteSetsExt

CONSTANTS
  Nodes,            \* the nodes that run BMF
  Host,             \* a machine on some network that does not run OLSR
  None,
  Chans,            \* the networks with OLSR on them, one interface per node
  Settings,         \* [mesh, cfg]: link costs, a function on a set of
                    \* <<node, node, chan>>, and the configuration: lq,
                    \* promisc, fanout, capture, bcast, lan (node -> the
                    \* non-OLSR networks it serves) and a bound, events:
                    \* packets sent and frames lost, together
  Packets,          \* packets that applications may send: [id, dst, src, on]
  Hold,             \* HISTORY_HOLD_TIME, in seconds
  PruneEvery,       \* period of PrunePacketHistory, in seconds
  MaxTicks          \* bound: seconds

VARIABLES
  mesh, mpr, cfg, tcKnown,
  hist,        \* node -> fingerprint -> seconds until the entry times out
  prune,       \* node -> seconds until PrunePacketHistory runs
  air,         \* frames under way, one per receiver
  sent,        \* packet -> how often an application sent it
  delivered,   \* node -> packet identity -> deliveries on the bmf0 interface
  seen,        \* node -> fingerprint -> seconds since it was last seen
  lost, ticks

vars == <<mesh, mpr, cfg, tcKnown, hist, prune, air, sent, delivered, seen,
          lost, ticks>>

Multicast == <<"mc", 0>>
Broadcast(intf) == <<"bc", intf>>
Tun(n) == <<"tun", n>>
OnChan(c) == <<"chan", c>>
OnLan(l) == <<"lan", l>>
Ids == {p.id : p \in Packets}

-----------------------------------------------------------------------------
(* What OLSR knows: links, neighbours and multipoint relays.                *)

Linked(n, m, c) == <<n, m, c>> \in DOMAIN mesh
Nbrs(n, c) == {m \in Nodes : Linked(n, m, c)}
AllNbrs(n) == UNION {Nbrs(n, c) : c \in Chans}

(* get_best_link_to_neighbor: the cheapest link to a neighbour; of equal    *)
(* ones the first in the list of links, here the one on the lowest channel. *)
BestCost(n, m) == Min({mesh[<<n, m, c>>] : c \in {d \in Chans : Linked(n, m, d)}})
IsBestLink(n, m, c) ==
  c = Min({d \in Chans : Linked(n, m, d) /\ mesh[<<n, m, d>>] = BestCost(n, m)})

(* A set of neighbours is a good MPR set if, for each node two hops away,   *)
(* it holds the relay of a best path, unless the direct link is as good.    *)
(* Without link quality the strict two-hop neighbours are covered.          *)
Covers(n, S) ==
  \A t \in Nodes \ {n} : \A v \in AllNbrs(n) :
    t \in AllNbrs(v) =>
      \/ t \in AllNbrs(n)
         /\ (cfg.lq => BestCost(n, t) <= BestCost(n, v) + BestCost(v, t))
      \/ \E w \in S : /\ t \in AllNbrs(w)
                      /\ cfg.lq => BestCost(n, w) + BestCost(w, t)
                                     <= BestCost(n, v) + BestCost(v, t)
(* olsr_lookup_mprs_set: is m one of the nodes that selected n?             *)
LookupMprsSwapped(n, m) == m \in mpr[n]
LookupMprs(n, m) == n \in mpr[m]

MprSets(n) ==
  {S \in SUBSET AllNbrs(n) : Covers(n, S) /\ \A x \in S : ~Covers(n, S \ {x})}

-----------------------------------------------------------------------------
(* FindNeighbors: the neighbours on a channel that need the packet from us. *)
(* Not its source, not the node that forwarded it nor the one it was        *)
(* directed to.                                                             *)
Others(n, c, source, by, to) == Nbrs(n, c) \ {source, by, to}
(* With link quality, none that is better reached over another channel, and *)
(* none the forwarder itself reaches more cheaply.                          *)
Ours(n, m, c, by) ==
  /\ IsBestLink(n, m, c)
  /\ by # None /\ tcKnown /\ m \in AllNbrs(by) =>
       BestCost(n, by) + mesh[<<n, m, c>>] <= BestCost(by, m)
FindNeighbors(n, c, source, by, to) ==
  {m \in Others(n, c, source, by, to) : cfg.lq => Ours(n, m, c, by)}

(* The best of them: of lowest cost, or just the first link found.          *)
Best(n, c, cand) ==
  IF cfg.lq THEN {m \in cand : \A k \in cand : mesh[<<n, m, c>>] <= mesh[<<n, k, c>>]}
            ELSE cand

Encap(n, c, rcv, to, pkt) ==
  [type |-> "encap", rcv |-> rcv, by |-> n, to |-> to, on |-> OnChan(c),
   out |-> FALSE, pkt |-> pkt]

(* CreateListeningSocket: the interface in promiscuous mode, so that        *)
(* unicast frames to other neighbours are overheard.                        *)
Overhear(n, c) == IF cfg.promisc THEN Nbrs(n, c) ELSE {}

(* EncapsulateAndForwardPacket on one channel.  A broadcast also comes back *)
(* to its sender.                                                           *)
EncapsulateAndForward(n, c, pkt, source, by, to, best) ==
  LET cand == FindNeighbors(n, c, source, by, to)
  IN  IF cand = {} THEN {}
      ELSE IF cfg.promisc
      THEN {Encap(n, c, m, IF m = best THEN None ELSE best, pkt) : m \in Overhear(n, c)}
      ELSE IF Cardinality(cand) <= cfg.fanout
      THEN {Encap(n, c, m, None, pkt) : m \in cand}
      ELSE {Encap(n, c, m, None, pkt) : m \in Nbrs(n, c) \cup {n}}

(* CheckAndUpdateLocalBroadcast, ForwardPacket: the raw packet on a         *)
(* network without OLSR, where the other nodes capture it.                  *)
Rebroadcast(pkt, intf) ==
  IF pkt.dst = Multicast THEN pkt ELSE [pkt EXCEPT !.dst = Broadcast(intf)]
ForwardPacket(n, l, pkt) ==
  {[type |-> "raw", rcv |-> m, by |-> None, to |-> None, on |-> OnLan(l),
    out |-> FALSE, pkt |-> [Rebroadcast(pkt, OnLan(l)) EXCEPT !.crc = None]] :
     m \in {k \in Nodes \ {n} : l \in cfg.lan[k]}}

(* PacketCrc32: identity and destination; TTL and checksum are left out.    *)
(* The encapsulation header carries it with the packet.                     *)
PacketCrc32(pkt) == <<pkt.id, pkt.dst>>
Stamped(pkt) == [pkt EXCEPT !.crc = PacketCrc32(pkt)]

(* The choice of a best neighbour on every channel.                         *)
Bests(n, source, by, to) ==
  {f \in [Chans -> Nodes \cup {None}] :
     \A c \in Chans : LET cand == FindNeighbors(n, c, source, by, to)
                      IN  f[c] \in (IF cand = {} THEN {None} ELSE Best(n, c, cand))}

-----------------------------------------------------------------------------
(* CheckAndMarkRecentPacket: a known fingerprint is refreshed, a new one    *)
(* entered.                                                                 *)
RecentTimedOut(n, crc) == crc \in DOMAIN hist[n] /\ hist[n][crc] < 0
Recent(n, crc) == crc \in DOMAIN hist[n]
Entered(f, crc, v) == [x \in DOMAIN f \cup {crc} |-> IF x = crc THEN v ELSE f[x]]
CheckAndMark(n, crc) ==
  /\ hist' = [hist EXCEPT ![n] = Entered(@, crc, Hold)]
  /\ seen' = [seen EXCEPT ![n] = Entered(@, crc, 0)]

Forwarded(frames, gone) == air' = (air \ gone) \cup frames

Events == lost + MapThenSumSet(LAMBDA p : sent[p], Packets)

(* BmfPacketCaptured: a packet seen on interface "on" of node n.            *)
MayForward(pkt, on) ==
  pkt.dst = Multicast \/ (cfg.bcast /\ pkt.dst = Broadcast(on))

(* What the loop over the interfaces sends.  From a network with OLSR, a    *)
(* neighbour's packet goes to the mesh only if it selected us as MPR.       *)
CapturedFrames(n, on, out, pkt, best) ==
  LET fromOlsr == \E c \in Chans : on = OnChan(c)
      fromNeighbor == fromOlsr /\ pkt.src \in AllNbrs(n)
      iAmMpr == pkt.src \in Nodes /\ LookupMprs(n, pkt.src)
  IN  UNION {IF fromOlsr /\ ((fromNeighbor /\ ~iAmMpr) \/ (out /\ on = OnChan(c)))
             THEN {}
             ELSE EncapsulateAndForward(n, c, Stamped(pkt), None, None, None, best[c]) :
               c \in Chans}
      \cup UNION {IF on = OnLan(l) THEN {} ELSE ForwardPacket(n, l, pkt) : l \in cfg.lan[n]}

BmfPacketCaptured(n, on, out, pkt, gone) ==
  IF ~MayForward(pkt, on)
  THEN Forwarded({}, gone) /\ UNCHANGED <<hist, seen>>
  ELSE /\ CheckAndMark(n, PacketCrc32(pkt))
       /\ IF Recent(n, PacketCrc32(pkt))
          THEN Forwarded({}, gone)
          ELSE \E best \in Bests(n, None, None, None) :
                 Forwarded(CapturedFrames(n, on, out, pkt, best), gone)

(* CreateCaptureSocket.  On a network with OLSR there is a capturing socket *)
(* only if configured.                                                      *)
Capturing(on) == cfg.capture \/ \A c \in Chans : on # OnChan(c)

(* BMF_handle_captureFd                                                     *)
Capture(f) ==
  /\ f \in air /\ f.type = "raw"
  /\ IF ~Capturing(f.on)
     THEN Forwarded({}, {f}) /\ UNCHANGED <<hist, seen>>
     ELSE BmfPacketCaptured(f.rcv, f.on, f.out, f.pkt, {f})
  /\ UNCHANGED <<mesh, mpr, cfg, tcKnown, prune, sent, delivered, lost, ticks>>

(* BmfTunPacketCaptured: an application of node n sends on bmf0.            *)
TunFrames(n, pkt, best) ==
  UNION {EncapsulateAndForward(n, c, Stamped(pkt), None, None, None, best[c]) : c \in Chans}
  \cup UNION {ForwardPacket(n, l, pkt) : l \in cfg.lan[n]}
TunPacketCaptured(p) ==
  LET n == p.src
      pkt == [id |-> p.id, dst |-> p.dst, src |-> p.src, crc |-> None]
  IN  /\ p.on = Tun(n) /\ Events < cfg.events /\ air = {}
      /\ sent' = [sent EXCEPT ![p] = @ + 1]
      /\ IF ~MayForward(pkt, Tun(n))
         THEN UNCHANGED <<hist, seen, air>>
         ELSE /\ CheckAndMark(n, PacketCrc32(pkt))
              /\ IF Recent(n, PacketCrc32(pkt))
                 THEN UNCHANGED air
                 ELSE \E best \in Bests(n, None, None, None) :
                        Forwarded(TunFrames(n, pkt, best), {})
      /\ UNCHANGED <<mesh, mpr, cfg, tcKnown, prune, delivered, lost, ticks>>

(* An application sends natively on some network: the nodes of the network  *)
(* capture it, the sending node as an outgoing packet.                      *)
SendNative(p) ==
  LET pkt == [id |-> p.id, dst |-> p.dst, src |-> p.src, crc |-> None]
      hears == {n \in Nodes \ {p.src} :
                  \/ \E l \in cfg.lan[n] : p.on = OnLan(l)
                  \/ \E c \in Chans : p.on = OnChan(c) /\
                       (p.src = Host \/ Linked(n, p.src, c))}
  IN  /\ p.on[1] \in {"lan", "chan"} /\ Events < cfg.events /\ air = {}
      /\ sent' = [sent EXCEPT ![p] = @ + 1]
      /\ air' = air \cup {[type |-> "raw", rcv |-> n, by |-> None, to |-> None,
                           on |-> p.on, out |-> n = p.src, pkt |-> pkt] :
                            n \in hears \cup ({p.src} \cap Nodes)}
      /\ UNCHANGED <<mesh, mpr, cfg, tcKnown, hist, prune, delivered, seen, lost, ticks>>

(* BmfEncapsulationPacketReceived                                           *)
Received(f) ==
  LET n == f.rcv
      crc == f.pkt.crc
      local == Rebroadcast(f.pkt, Tun(n))
      gone == {f}
  IN  /\ f \in air /\ f.type = "encap"
      /\ IF f.by = n
         THEN Forwarded({}, gone) /\ UNCHANGED <<hist, seen, delivered>>
         ELSE /\ CheckAndMark(n, crc)
              /\ IF Recent(n, crc)
                 THEN Forwarded({}, gone) /\ UNCHANGED delivered
                 ELSE /\ delivered' = [delivered EXCEPT ![n][f.pkt.id] = @ + 1]
                      /\ \E best \in Bests(n, f.pkt.src, f.by, f.to) :
                           Forwarded(
                             UNION {ForwardPacket(n, l, local) : l \in cfg.lan[n]} \cup
                             (IF ~LookupMprs(n, f.by) THEN {} ELSE
                               UNION {EncapsulateAndForward(n, c, local, f.pkt.src,
                                                            f.by, f.to, best[c]) :
                                        c \in Chans}), gone)
      /\ UNCHANGED <<mesh, mpr, cfg, tcKnown, prune, sent, lost, ticks>>

(* A packet for this node, which does not tell whom else it was sent to.    *)
BMF_handle_encapsulatingFd(f) == f.to = None /\ Received(f)

(* A packet that was sent to another node and is overheard.                 *)
BMF_handle_listeningFd(f) == f.to # None /\ Received(f)

(* A frame is lost, or could not be sent: the interface was jammed, or      *)
(* sendto failed and the rest of the loop was given up.                     *)
Lose(f) ==
  /\ f \in air /\ Events < cfg.events
  /\ air' = air \ {f} /\ lost' = lost + 1
  /\ UNCHANGED <<mesh, mpr, cfg, tcKnown, hist, prune, sent, delivered, seen, ticks>>

Empty == [x \in {} |-> 0]

(* A second passes; the frames under way do not take that long.             *)
(* PrunePacketHistory runs every PruneEvery seconds and removes what has    *)
(* timed out, strictly.                                                     *)
PrunePacketHistory(n, h) ==
  IF prune[n] > 1 THEN h
  ELSE [x \in {y \in DOMAIN h : h[y] >= 0} |-> h[x]]
Tick ==
  /\ air = {} /\ ticks < MaxTicks
  /\ ticks' = ticks + 1
  /\ hist' = [n \in Nodes |->
                PrunePacketHistory(n, [x \in DOMAIN hist[n] |-> hist[n][x] - 1])]
  /\ prune' = [n \in Nodes |-> IF prune[n] > 1 THEN prune[n] - 1 ELSE PruneEvery]
  /\ seen' = [n \in Nodes |-> [x \in DOMAIN seen[n] |-> seen[n][x] + 1]]
  /\ UNCHANGED <<mesh, mpr, cfg, tcKnown, air, sent, delivered, lost>>

-----------------------------------------------------------------------------
Init ==
  /\ \E s \in Settings : mesh = s.mesh /\ cfg = s.cfg
  /\ mpr \in [Nodes -> UNION {MprSets(n) : n \in Nodes}]
  /\ \A n \in Nodes : mpr[n] \in MprSets(n)
  /\ tcKnown \in BOOLEAN
  /\ hist = [n \in Nodes |-> Empty] /\ seen = [n \in Nodes |-> Empty]
  /\ \E k \in {1, PruneEvery} : prune = [n \in Nodes |-> k]
  /\ air = {} /\ sent = [p \in Packets |-> 0]
  /\ delivered = [n \in Nodes |-> [i \in Ids |-> 0]]
  /\ lost = 0 /\ ticks = 0

Next ==
  \/ \E p \in Packets : TunPacketCaptured(p) \/ SendNative(p)
  \/ \E f \in air :
       Capture(f) \/ BMF_handle_encapsulatingFd(f) \/ BMF_handle_listeningFd(f) \/ Lose(f)
  \/ Tick

Spec == Init /\ [][Next]_vars

-----------------------------------------------------------------------------
(* Types: history entries live at most Hold seconds and one pruning period  *)
(* more, and every frame is on its way to a node.                           *)
TypeOK ==
  /\ \A n \in Nodes : \A x \in DOMAIN hist[n] : hist[n][x] \in (1 - PruneEvery) .. Hold
  /\ \A f \in air : f.rcv \in Nodes /\ f.by \in Nodes \cup {None}
  /\ Events <= cfg.events

SeenAt(n, x, t) == x \in DOMAIN seen[n] /\ seen[n][x] <= t
New(n, x) == \E f \in air' \ air : f.by = n /\ f.pkt.crc = x

(* README_BMF, "only packets that have not been seen in the past 3-6        *)
(* seconds are forwarded": a packet that was seen less than Hold seconds    *)
(* ago is neither delivered nor forwarded, and one that was not seen for    *)
(* longer than the hold time and a pruning period is taken.                 *)
HeldBack ==
  \A n \in Nodes, i \in Ids :
    LET x == <<i, Multicast>>
    IN  /\ New(n, x) \/ delivered'[n][i] > delivered[n][i] => ~SeenAt(n, x, Hold - 1)
        /\ ticks' > ticks => (x \in DOMAIN hist'[n] => SeenAt(n, x, Hold + PruneEvery - 1))

(* Every step holds back what was seen in the past 3-6 seconds.             *)
Window == [][HeldBack]_vars

(* README_BMF, section 5: flooding with encapsulation keeps duplicates out  *)
(* of the IP stack.  A multicast packet is delivered on a node's bmf0 no    *)
(* more often than applications sent it, whatever is lost and overtakes.    *)
MulticastOnce ==
  \A n \in Nodes, i \in Ids :
    (\A p \in Packets : p.id = i => p.dst = Multicast) =>
      delivered[n][i] <= MapThenSumSet(LAMBDA p : sent[p], {q \in Packets : q.id = i})

Step(S) == S \cup UNION {AllNbrs(n) : n \in S}
Component(n) == Step(Step(Step(Step({n}))))

(* "All OLSR-BMF hosts in the OLSR network should respond": when no frame   *)
(* was lost and the flood is over, every node that is connected with the    *)
(* sender has seen the packet, though each forwards only for the nodes that *)
(* selected it as MPR, only on its first reception, and leaves out the      *)
(* neighbours that another node is to serve.                                *)
Everyone ==
  air = {} /\ lost = 0 =>
    \A p \in Packets : \A n \in Nodes :
      p.on = Tun(n) /\ p.dst = Multicast /\ sent[p] > 0 =>
        \A m \in Component(n) : <<p.id, Multicast>> \in DOMAIN seen[m]
============================================================================
