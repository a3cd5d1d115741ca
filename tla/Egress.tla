------------------------------- MODULE Egress -------------------------------
(***************************************************************************)
(* A smart gateway with several uplinks (multi-gateway mode): the egress   *)
(* interfaces, their parameters from the egress file, the interface events *)
(* of the kernel, and the routes that send traffic to the best uplink      *)
(* (gateway.c from doEgressInterface and determineBestEgressLink on,       *)
(* egressFile.c, egressTypes.h).  The other way out, the tunnel to the     *)
(* smart gateway that module Gateway chooses, is an environment here: a    *)
(* gateway, its cost and the moments at which doRoutesMultiGw is called.   *)
(*                                                                         *)
(* The two /1 routes that override a default route are always handled      *)
(* alike and are one route with destination "half" here.                   *)
(***************************************************************************)
EXTENDS Naturals, Sequences, FiniteSets, SequencesExt, FiniteSetsExt

CONSTANTS
  Order,       (* the egress interfaces, in the order of the configuration *)
  Ether,       (* those that report their carrier, if any does (ethtool)   *)
  Tunnels,     (* the tunnels to smart gateways of other nodes             *)
  None,
  Lines,       (* the lines an interface may have in the egress file       *)
  Files,       (* the files there may be when olsrd starts                 *)
  TunnelCosts, (* path costs of smart gateways                             *)
  Inf,         (* INT64_MAX                                                *)
  MaxChanges   (* bound: changes of interfaces, of the file and of the     *)
               (* smart gateway, in any mix                                *)

EgressIfs == Range(Order)

VARIABLES
  ether,      (* the interfaces that report their carrier                  *)
  classic,    (* smart_gw_divider_etx is 0: costs are path costs only      *)
  link,       (* kernel: "up", "nocarrier" or "down", for each interface   *)
              (* and each tunnel; "gone" for a tunnel that was removed     *)
  kernel,     (* kernel: the routes of the tables this module writes       *)
  events,     (* netlink messages not yet read: <<interface, IFF_UP>>      *)
  file,       (* the egress file: a time stamp and a line per interface    *)
  cachedStat, (* the time stamp of the file when it was read last          *)
  reading,    (* readEgressFile is between fstat and the first line        *)
              (* ("lines"), found no file ("missing"), or is not running   *)
              (* ("no")                                                    *)
  ifs,        (* smart_gw_egress_interfaces: upCurrent, bwCurrent, routes  *)
  best,       (* bestEgressLink, bestOverallLink and their routes          *)
  uplink,     (* smart_gw_uplink and smart_gw_downlink as announced        *)
  gw,         (* the smart gateway: its tunnel or None, and its cost       *)
  mesh,       (* olsrInterfacesAllDown (allDown), and whether one is up    *)
  left,       (* how often the environment may still change something      *)
  phase       (* "init", "start", "check", "run" or "exit"                 *)

vars == <<ether, classic, link, kernel, events, file, cachedStat, reading, ifs, best, uplink, gw, mesh,
          left, phase>>
daemon == <<ifs, best, uplink, kernel, mesh>>

----------------------------------------------------------------------------
(* Routes and the kernel                                                   *)

Unset == [active |-> FALSE, table |-> None, dst |-> None, dev |-> None, gateway |-> None]
Route(table, dst, dev, gateway) ==
  [active |-> TRUE, table |-> table, dst |-> dst, dev |-> dev, gateway |-> gateway]

(* isInterfaceUp: IFF_UP, and a carrier if it can be told.  There is no    *)
(* interface with index 0, the one of a blackhole route.                   *)
IsInterfaceUp(s, dev) == dev # None /\ s.link[dev] = "up"

(* programRoute.  Adding replaces a route of the same table and            *)
(* destination; what is deleted has to match.                              *)
ProgramRoute(s, add, r) ==
  IF ~r.active \/ ~IsInterfaceUp(s, r.dev) THEN s
  ELSE [s EXCEPT !.kernel = IF add THEN {k \in @ : k.table # r.table \/ k.dst # r.dst} \cup {r} ELSE @ \ {r}]

(* The end of each of the functions that configure a route: old one out,   *)
(* new one in, as the phase of the change allows.                          *)
Replace(s, old, new, ph) ==
  LET t == IF (old # new /\ ph = "run") \/ ph = "exit" THEN ProgramRoute(s, FALSE, old) ELSE s
  IN  IF (old # new /\ ph = "run") \/ ph = "init" THEN ProgramRoute(t, TRUE, new) ELSE t

----------------------------------------------------------------------------
(* The best links                                                          *)

(* egressBwClear: also what a line without bandwidth does.                 *)
Cleared == [path |-> 0, weighed |-> Inf, speed |-> 0, network |-> None, gateway |-> None,
            requireNetwork |-> TRUE, requireGateway |-> TRUE]

(* egressBwCalculateCosts with gw_costs_weigh: the path costs only, or     *)
(* path costs and bandwidth weighed.                                       *)
CostOf(up, bw) == IF ~up THEN Inf ELSE IF classic THEN bw.path ELSE bw.weighed

Costs(s, i) == CostOf(s.ifs[i].up, s.ifs[i].bw)

(* determineBestEgressLink: the first of the cheapest.  The first          *)
(* interface of the configuration is not asked whether it is up.           *)
BestEgress(s, ph) ==
  LET first == Head(Order)
      able == {i \in EgressIfs : i = first \/ (s.ifs[i].up /\ IsInterfaceUp(s, i))}
      cheap == {i \in able : \A j \in able : Costs(s, i) <= Costs(s, j)}
      b == Order[Min({n \in DOMAIN Order : Order[n] \in cheap})]
  IN  IF ph = "exit" \/ ~s.ifs[b].up \/ Costs(s, b) = Inf THEN None ELSE b

(* The end of determineBestEgressLink: the speed that is announced.        *)
SetUplink(s, new, changed) ==
  IF ~changed THEN s.uplink ELSE IF new = None THEN 0 ELSE s.ifs[new].bw.speed

Overall(kind, dev) == [kind |-> kind, dev |-> dev]

(* determineBestOverallLink: an egress interface before a smart gateway.   *)
BestOverall(s, ph) ==
  LET egress == IF s.best.egress = None THEN Inf ELSE Costs(s, s.best.egress)
      olsr == IF s.gw.tunnel = None \/ s.allDown THEN Inf ELSE s.gw.cost
  IN  CASE Min({egress, olsr}) = Inf \/ ph = "exit" -> Overall("none", None)
        [] egress <= olsr -> Overall("egress", s.best.egress)
        [] OTHER -> Overall("olsr", s.gw.tunnel)

(* determineBestOverallLinkRoutes: an inactive route keeps its contents.   *)
OverallRoute(s) ==
  LET b == s.best.overall
  IN  IF b.kind = "none" THEN [s.best.overallRoute EXCEPT !.active = FALSE]
      ELSE Route("main", "half", b.dev, IF b.kind = "egress" THEN s.ifs[b.dev].bw.gateway ELSE None)

(* determineEgressLinkRoute for the default route of the best egress link: *)
(* without one it is a blackhole route, whose interface has index 0.       *)
BestEgressRoute(s) ==
  Route("best", "default", s.best.egress,
        IF s.best.egress = None THEN None ELSE s.ifs[s.best.egress].bw.gateway)

(* configureEgressLinkRoutes for one interface                             *)
NetworkRoute(i, up, bw) ==
  IF ~bw.requireNetwork \/ bw.network = None \/ ~up THEN Unset ELSE Route(i, bw.network, i, None)
EgressRoute(i, up, bw) ==
  IF (bw.requireGateway /\ bw.gateway = None) \/ ~up THEN Unset ELSE Route(i, "default", i, bw.gateway)

(* What changed about an interface since the last handler.                 *)
NoChange == [i \in EgressIfs |-> {}]

ConfigureEgressLinkRoute(s, i, changed, ph) ==
  LET e == s.ifs[i]
      force == ph # "run"
      net == IF changed \cap {"up", "network"} # {} \/ force THEN NetworkRoute(i, e.up, e.bw) ELSE e.networkRoute
      def == IF changed \cap {"up", "gateway"} # {} \/ force THEN EgressRoute(i, e.up, e.bw) ELSE e.egressRoute
      t == Replace(Replace(s, e.networkRoute, net, ph), e.egressRoute, def, ph)
  IN  [t EXCEPT !.ifs[i].networkRoute = net, !.ifs[i].egressRoute = def]

RECURSIVE ConfigureEgressLinkRoutes(_, _, _, _)
ConfigureEgressLinkRoutes(s, todo, changes, ph) ==
  IF todo = << >> THEN s
  ELSE ConfigureEgressLinkRoutes(ConfigureEgressLinkRoute(s, Head(todo), changes[Head(todo)], ph),
                                 Tail(todo), changes, ph)

(* Mutant of SetupOverrideRoutes: only when there is a link now.           *)
SetupOverrideRoutesIfAny(s, previous, ph) ==
  LET r == OverallRoute(s)
  IN  IF s.best.overall.kind = "none" /\ ph = "run" THEN s
      ELSE [Replace(s, s.best.overallRoute, r, ph) EXCEPT !.best.overallRoute = r]

(* setupDefaultGatewayOverrideRoutes *)
SetupOverrideRoutes(s, previous, ph) ==
  LET r == OverallRoute(s)
  IN  IF previous.kind = "none" /\ s.best.overall.kind = "none" /\ ph = "run" THEN s
      ELSE [Replace(s, s.best.overallRoute, r, ph) EXCEPT !.best.overallRoute = r]

(* configureBestEgressLinkRoute *)
ConfigureBestEgressLinkRoute(s, previous, ph) ==
  LET r == BestEgressRoute(s)
  IN  IF previous = None /\ s.best.egress = None /\ ph = "run" THEN s
      ELSE [Replace(s, s.best.egressRoute, r, ph) EXCEPT !.best.egressRoute = r]

(* doRoutesMultiGw.  The last steps only write a status file.              *)
DoRoutesMultiGw(s, egressChanged, olsrChanged, changes, ph) ==
  LET force == ph # "run"
      olsr == olsrChanged \/ s.allDown = s.meshUp
      s1 == [s EXCEPT !.allDown = ~s.meshUp]
      new == BestEgress(s1, ph)
      egress == egressChanged \/ force
      bestEgressChanged == egress /\ (new # s.best.egress \/ (new # None /\ changes[new] # {}))
      s2 == IF egress THEN [s1 EXCEPT !.best.egress = new, !.uplink = SetUplink(s, new, bestEgressChanged \/ force)]
            ELSE s1
      s3 == IF egress THEN ConfigureEgressLinkRoutes(s2, Order, changes, ph) ELSE s2
      look == olsr \/ bestEgressChanged \/ force
      s4 == IF look THEN [s3 EXCEPT !.best.overall = BestOverall(s3, ph)] ELSE s3
      s5 == IF s4.best.overall # s.best.overall \/ force THEN SetupOverrideRoutes(s4, s.best.overall, ph) ELSE s4
  IN  IF ~egressChanged /\ ~olsr /\ ~force THEN s
      ELSE IF bestEgressChanged \/ force THEN ConfigureBestEgressLinkRoute(s5, s.best.egress, ph) ELSE s5

State == [link |-> link, kernel |-> kernel, ifs |-> ifs, best |-> best, uplink |-> uplink, gw |-> gw,
          allDown |-> mesh.allDown, meshUp |-> mesh.up]

Become(s) ==
  /\ kernel' = s.kernel /\ ifs' = s.ifs /\ best' = s.best /\ uplink' = s.uplink
  /\ mesh' = [mesh EXCEPT !.allDown = s.allDown]

----------------------------------------------------------------------------
(* The environment                                                         *)

Init ==
  /\ ether \in {{}, Ether}
  /\ classic \in BOOLEAN
  /\ link \in [EgressIfs \cup Tunnels -> {"up", "down"}]
  /\ \A t \in Tunnels : link[t] = "down"
  /\ kernel = {} /\ events = << >>
  /\ \E f \in Files : file = [present |-> TRUE, stamp |-> 1, lines |-> f]
  /\ cachedStat = 0 /\ reading = "no"
  /\ ifs = [i \in EgressIfs |-> [up |-> link[i] = "up", bw |-> Cleared, networkRoute |-> Unset, egressRoute |-> Unset]]
  /\ best = [egress |-> None, overall |-> Overall("none", None), overallRoute |-> Unset, egressRoute |-> Unset]
  /\ uplink = 0
  /\ gw = [tunnel |-> None, cost |-> Inf]
  /\ mesh = [up |-> TRUE, allDown |-> TRUE]
  /\ left = MaxChanges
  /\ phase = "init"

(* The kernel removes the routes through a device that goes down, not those *)
(* through one that loses its carrier, and tells its listeners.            *)
LinkChange(i, state) ==
  /\ phase # "exit" /\ left > 0 /\ link[i] # state
  /\ state = "nocarrier" => i \in ether /\ link[i] = "up"
  /\ left' = left - 1
  /\ link' = [link EXCEPT ![i] = state]
  /\ kernel' = IF state = "down" THEN {r \in kernel : r.dev # i} ELSE kernel
  /\ events' = Append(events, <<i, state # "down">>)
  /\ UNCHANGED <<ether, classic, file, cachedStat, reading, ifs, best, uplink, gw, mesh, phase>>

MeshChange ==
  /\ phase # "exit" /\ left > 0
  /\ left' = left - 1
  /\ mesh' = [mesh EXCEPT !.up = ~@]
  /\ events' = Append(events, <<"mesh", ~mesh.up>>)
  /\ UNCHANGED <<ether, classic, link, kernel, file, cachedStat, reading, ifs, best, uplink, gw, phase>>

(* The file is rewritten, taken away, or put back with its old time stamp. *)
WriteFile ==
  /\ phase # "exit" /\ left > 0
  /\ left' = left - 1
  /\ \/ \E i \in EgressIfs, l \in Lines \cup {Cleared} :
          file' = [present |-> TRUE, stamp |-> file.stamp + 1, lines |-> [file.lines EXCEPT ![i] = l]]
     \/ file' = [file EXCEPT !.present = ~@]
  /\ UNCHANGED <<ether, classic, link, kernel, events, cachedStat, reading, ifs, best, uplink, gw, mesh, phase>>

----------------------------------------------------------------------------
(* The egress file                                                         *)

(* egressBwCostsChanged, egressBwNetworkChanged, egressBwGatewayChanged    *)
Changed(up, old, new) ==
  (IF CostOf(up, old) # CostOf(up, new) THEN {"costs"} ELSE {}) \cup
  (IF <<old.requireNetwork, old.network>> # <<new.requireNetwork, new.network>> THEN {"network"} ELSE {}) \cup
  (IF <<old.requireGateway, old.gateway>> # <<new.requireGateway, new.gateway>> THEN {"gateway"} ELSE {})

Idle == phase \in {"init", "run"} /\ reading = "no"

(* readEgressFile up to the first line: the time stamp is the one the file *)
(* has before it is read.                                                  *)
StatFile ==
  /\ Idle /\ (~file.present \/ cachedStat # file.stamp)
  /\ reading' = IF file.present THEN "lines" ELSE "missing"
  /\ cachedStat' = IF file.present THEN file.stamp ELSE 0
  /\ UNCHANGED <<ether, classic, link, kernel, events, file, ifs, best, uplink, gw, mesh, left, phase>>

(* What the lines of the file give every interface; one without a line, or *)
(* without a file, is cleared.                                             *)
FileLines == IF reading = "lines" THEN file.lines ELSE [i \in EgressIfs |-> Cleared]

(* readEgressFile from the first line on, and its caller: the timer, or    *)
(* startEgressFile, which leaves the routes to olsr_startup_gateways.      *)
ReadFile ==
  /\ reading # "no"
  /\ reading' = "no"
  /\ LET bw == FileLines
         changes == [i \in EgressIfs |-> Changed(ifs[i].up, ifs[i].bw, bw[i])]
         s == [State EXCEPT !.ifs = [i \in EgressIfs |-> [@[i] EXCEPT !.bw = bw[i]]]]
     IN  IF phase = "init" \/ changes = NoChange THEN Become(s)
         ELSE Become(DoRoutesMultiGw(s, TRUE, FALSE, changes, "run"))
  /\ phase' = IF phase = "init" THEN "start" ELSE phase
  /\ UNCHANGED <<ether, classic, link, events, file, cachedStat, gw, left>>

----------------------------------------------------------------------------
(* Interface changes                                                       *)

(* smartgw_tunnel_monitor with doEgressInterface                           *)
TunnelMonitor(s, i, up) ==
  LET changes == [NoChange EXCEPT ![i] = {"up"}]
      t == IF i \in EgressIfs /\ s.ifs[i].up # up
           THEN DoRoutesMultiGw([s EXCEPT !.ifs[i].up = up], TRUE, FALSE, changes, "run") ELSE s
  IN  DoRoutesMultiGw(t, TRUE, TRUE, NoChange, "run")

(* netlink_process_link: IFF_UP as it was when the message was sent, the   *)
(* carrier as it is now.                                                   *)
Netlink ==
  /\ phase = "run" /\ reading = "no" /\ events # << >>
  /\ events' = Tail(events)
  /\ LET i == Head(events)[1]
         up == Head(events)[2] /\ (i \in EgressIfs => link[i] # "nocarrier")
     IN  Become(TunnelMonitor(State, i, up))
  /\ UNCHANGED <<ether, classic, link, file, cachedStat, reading, gw, left, phase>>

----------------------------------------------------------------------------
(* Start and end                                                           *)

(* olsr_startup_gateways: the routes, then the monitor is registered ...   *)
StartupGateways ==
  /\ phase = "start"
  /\ phase' = "check"
  /\ Become(DoRoutesMultiGw(State, TRUE, FALSE, NoChange, "init"))
  /\ UNCHANGED <<ether, classic, link, events, file, cachedStat, reading, gw, left>>

(* ... and the interfaces are looked at again.                             *)
RECURSIVE CheckAgain(_, _)
CheckAgain(s, todo) ==
  IF todo = << >> THEN s
  ELSE LET i == Head(todo)
           up == s.link[i] = "up"
       IN  CheckAgain(IF up # s.ifs[i].up THEN TunnelMonitor(s, i, up) ELSE s, Tail(todo))

StartupCheck ==
  /\ phase = "check"
  /\ phase' = "run"
  /\ Become(CheckAgain(State, Order))
  /\ UNCHANGED <<ether, classic, link, events, file, cachedStat, reading, gw, left>>

(* olsr_shutdown_gateways *)
ShutdownGateways ==
  /\ phase = "run" /\ reading = "no"
  /\ phase' = "exit"
  /\ LET s == [State EXCEPT !.ifs = [i \in EgressIfs |-> [@[i] EXCEPT !.up = FALSE, !.bw = Cleared]]]
     IN  Become(DoRoutesMultiGw(s, TRUE, FALSE, NoChange, "exit"))
  /\ UNCHANGED <<ether, classic, link, events, file, cachedStat, reading, gw, left>>

----------------------------------------------------------------------------
(* The smart gateway of another node                                       *)

(* olsr_set_inet_gateway: a gateway gets a tunnel, unless it has one, and  *)
(* becomes the current one.  A new tunnel has a new interface index.       *)
SetInetGateway(t, c) ==
  /\ phase = "run" /\ reading = "no" /\ left > 0 /\ t # gw.tunnel /\ link[t] # "gone"
  /\ left' = left - 1
  /\ link' = [link EXCEPT ![t] = "up"]
  /\ events' = IF link[t] = "up" THEN events ELSE Append(events, <<t, TRUE>>)
  /\ gw' = [tunnel |-> t, cost |-> c]
  /\ Become(DoRoutesMultiGw([State EXCEPT !.link[t] = "up", !.gw = gw'], FALSE, TRUE, NoChange, "run"))
  /\ UNCHANGED <<ether, classic, file, cachedStat, reading, phase>>

(* olsr_update_gateway_entry: the current gateway has a new cost; when it  *)
(* cannot be reached any more nothing is called.                           *)
UpdateGatewayEntry(c) ==
  /\ phase = "run" /\ reading = "no" /\ left > 0 /\ gw.tunnel # None /\ c # gw.cost
  /\ left' = left - 1
  /\ gw' = [gw EXCEPT !.cost = c]
  /\ IF c = Inf THEN UNCHANGED daemon
     ELSE Become(DoRoutesMultiGw([State EXCEPT !.gw = gw'], FALSE, TRUE, NoChange, "run"))
  /\ UNCHANGED <<ether, classic, link, events, file, cachedStat, reading, phase>>

(* olsr_delete_gateway_entry for the current gateway, no other one known:  *)
(* the tunnel goes, and only the message of the kernel leads to new routes. *)
DeleteGatewayEntry ==
  /\ phase = "run" /\ reading = "no" /\ left > 0 /\ gw.tunnel # None
  /\ left' = left - 1
  /\ link' = [link EXCEPT ![gw.tunnel] = "gone"]
  /\ kernel' = {r \in kernel : r.dev # gw.tunnel}
  /\ events' = Append(events, <<gw.tunnel, FALSE>>)
  /\ gw' = [tunnel |-> None, cost |-> Inf]
  /\ UNCHANGED <<ether, classic, file, cachedStat, reading, ifs, best, uplink, mesh, phase>>

Next ==
  \/ \E i \in EgressIfs, state \in {"up", "nocarrier", "down"} : LinkChange(i, state)
  \/ MeshChange \/ WriteFile
  \/ StatFile \/ ReadFile
  \/ Netlink
  \/ StartupGateways \/ StartupCheck \/ ShutdownGateways
  \/ \E t \in Tunnels, c \in TunnelCosts : SetInetGateway(t, c)
  \/ \E c \in TunnelCosts \cup {Inf} : UpdateGatewayEntry(c)
  \/ DeleteGatewayEntry

Spec == Init /\ [][Next]_vars

----------------------------------------------------------------------------
(* Properties                                                              *)

RouteRecords == [active : {TRUE}, table : EgressIfs \cup {"main", "best"}, dst : {"half", "default", "network"},
           dev : EgressIfs \cup Tunnels \cup {None}, gateway : {None} \cup {l.gateway : l \in Lines}]

(* The recorded routes and those of the kernel are well formed, and the    *)
(* kernel has one route at most for a destination of a table.              *)
TypeOK ==
  /\ kernel \subseteq RouteRecords
  /\ \A r \in kernel, q \in kernel : r.table = q.table /\ r.dst = q.dst => r = q
  /\ \A i \in EgressIfs : {ifs[i].networkRoute, ifs[i].egressRoute} \subseteq RouteRecords \cup {Unset}
  /\ best.egress \in EgressIfs \cup {None}
  /\ best.overall.dev \in EgressIfs \cup Tunnels \cup {None}

(* olsrd has read everything the kernel and the file have to tell it.      *)
Quiet == phase = "run" /\ reading = "no" /\ events = << >>
         /\ IF file.present THEN cachedStat = file.stamp ELSE cachedStat = 0 /\ \A i \in EgressIfs : ifs[i].bw = Cleared

(* A file is not taken for read, by its time stamp, before its lines are   *)
(* in effect, whatever happened to it while it was read and in between.    *)
FileApplied ==
  reading = "no" /\ phase = "run" /\ file.present /\ cachedStat = file.stamp => \A i \in EgressIfs : ifs[i].bw = file.lines[i]

(* Once the messages of the kernel are read, olsrd takes an interface for  *)
(* up exactly when it is up and has its carrier, although the carrier is   *)
(* asked for when a message is read and not when it was sent, and although *)
(* messages from the time before the monitor was registered are read late. *)
UpFollows == Quiet => \A i \in EgressIfs : ifs[i].up <=> link[i] = "up"

In(table) == {r \in kernel : r.table = table}
Active(routes) == {r \in routes : r.active}

(* Once everything is read, the routing tables hold what the interfaces    *)
(* and the file call for and nothing else: the table of each interface its *)
(* network route and its default route, the table of the best uplink the   *)
(* default route through it, and the routes that override the default      *)
(* route lead to the best link.  An interface that can lose its carrier    *)
(* and stay up is left out: routes are neither added nor deleted while it  *)
(* has none.                                                               *)
RoutesInPlace ==
  Quiet =>
    /\ \A i \in EgressIfs \ ether :
         In(i) = Active({NetworkRoute(i, ifs[i].up, ifs[i].bw), EgressRoute(i, ifs[i].up, ifs[i].bw)})
    /\ ether = {} => In("best") = IF best.egress = None THEN {} ELSE {BestEgressRoute(State)}
    /\ ether = {} => {r.dev : r \in In("main")} = IF best.overall.kind = "none" THEN {} ELSE {best.overall.dev}

(* Once everything is read, no uplink that is up is cheaper than the best  *)
(* link, neither an egress interface nor, as long as it can be reached,    *)
(* the smart gateway; with equal costs the egress interface is used, and   *)
(* of two the one that is declared first.                                  *)
BestLink ==
  Quiet =>
    LET up == {i \in EgressIfs : link[i] = "up" /\ Costs(State, i) < Inf}
        before(i, j) == Costs(State, i) < Costs(State, j)
                        \/ (Costs(State, i) = Costs(State, j) /\ IndexFirstSubSeq(<<i>>, Order) < IndexFirstSubSeq(<<j>>, Order))
        first == CHOOSE i \in up : \A j \in up \ {i} : before(i, j)
        tunnel == gw.tunnel # None /\ gw.cost < Inf /\ mesh.up
    IN  gw.tunnel = None \/ gw.cost < Inf =>
          best.overall = CASE up = {} /\ ~tunnel -> Overall("none", None)
                           [] up # {} /\ (tunnel => Costs(State, first) <= gw.cost) -> Overall("egress", first)
                           [] OTHER -> Overall("olsr", gw.tunnel)

(* olsrd leaves no route behind, except through an interface that has lost *)
(* its carrier.                                                            *)
CleanExit == phase = "exit" => \A r \in kernel : r.dev \in ether

=============================================================================
