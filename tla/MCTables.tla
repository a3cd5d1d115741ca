------------------------------- MODULE MCTables -------------------------------
(* The routing tables of a node, with two originators, two next hops, a      *)
(* kernel that may refuse routes and one metric; the same with a lost        *)
(* interface, the default route and the metric of the path; and the egress   *)
(* routes of a smart gateway with two uplinks, an Ethernet and a PPP         *)
(* interface, and two tunnels.                                               *)
EXTENDS Rib

CONSTANTS eth, ppp, ta, tb, g1, g2, None

VARIABLES part, iKnown, iTree, iRoute, iVersion, iHeads, iBest, iInstalled,
  iRtversion, iInetgw, iFib, iDown, iClean, iReachable, eEther, eClassic,
  eLink, eKernel, eEvents, eFile, eCachedStat, eReading, eIfs, eBest, eUplink,
  eGw, eMesh, eLeft, ePhase

MCIfaceOf(nh) == IF nh = "a" THEN "eth0" ELSE "wlan0"
MCRoute(nh, cost, hops) == [nh |-> nh, cost |-> cost, hops |-> hops]
MCRoutes == {MCRoute("a", 1, 1), MCRoute("a", 3, 2), MCRoute("b", 2, 2), MCRoute("b", 3, 1)}

MCOrder == <<eth, ppp>>
MCLine(p, w, s, network, gateway) ==
  [path |-> p, weighed |-> w, speed |-> s, network |-> network, gateway |-> gateway,
   requireNetwork |-> TRUE, requireGateway |-> gateway # None]
MCCleared == [path |-> 0, weighed |-> 100, speed |-> 0, network |-> None, gateway |-> None,
              requireNetwork |-> TRUE, requireGateway |-> TRUE]
MCLines == {MCLine(1, 2, 10, "network", g1), MCLine(1, 3, 5, "network", g1), MCLine(1, 3, 5, None, g2),
            MCLine(2, 2, 10, None, None)}
MCFiles == {[i \in {eth, ppp} |-> MCCleared],
            [i \in {eth, ppp} |-> IF i = eth THEN MCLine(1, 2, 10, "network", g1) ELSE MCLine(2, 2, 10, None, None)]}

iVars == <<iKnown, iTree, iRoute, iVersion, iHeads, iBest, iInstalled, iRtversion,
            iInetgw, iFib, iDown, iClean, iReachable>>
I == INSTANCE Rib WITH Prefixes <- {"dflt"}, Ifaces <- {"eth0", "wlan0"},
  FibMetric <- "CORRECT", KernelFails <- FALSE, known <- iKnown,
  tree <- iTree, route <- iRoute, version <- iVersion, heads <- iHeads,
  best <- iBest, installed <- iInstalled, rtversion <- iRtversion,
  inetgw <- iInetgw, fib <- iFib, down <- iDown, clean <- iClean,
  reachable <- iReachable

eVars == <<eEther, eClassic, eLink, eKernel, eEvents, eFile, eCachedStat, eReading,
            eIfs, eBest, eUplink, eGw, eMesh, eLeft, ePhase>>
E == INSTANCE Egress WITH Order <- MCOrder, Ether <- {eth},
  Tunnels <- {ta, tb}, Lines <- MCLines, Files <- MCFiles,
  TunnelCosts <- {1, 2}, Inf <- 100, MaxChanges <- 3, ether <- eEther,
  classic <- eClassic, link <- eLink, kernel <- eKernel, events <- eEvents,
  file <- eFile, cachedStat <- eCachedStat, reading <- eReading, ifs <- eIfs,
  best <- eBest, uplink <- eUplink, gw <- eGw, mesh <- eMesh, left <- eLeft,
  phase <- ePhase

allVars == <<part, vars, iVars, eVars>>

(* One of the systems runs; the others do not exist.                       *)
MCInit ==
  /\ part \in {"routes", "interfaces", "egress"}
  /\ Init
  /\ IF part = "interfaces" THEN I!Init
       ELSE /\ iKnown = "none" /\ iTree = "none" /\ iRoute = "none"
            /\ iVersion = "none" /\ iHeads = "none" /\ iBest = "none"
            /\ iInstalled = "none" /\ iRtversion = "none" /\ iInetgw = "none"
            /\ iFib = "none" /\ iDown = "none" /\ iClean = "none"
            /\ iReachable = "none"
  /\ IF part = "egress" THEN E!Init
       ELSE /\ eEther = "none" /\ eClassic = "none" /\ eLink = "none"
            /\ eKernel = "none" /\ eEvents = "none" /\ eFile = "none"
            /\ eCachedStat = "none" /\ eReading = "none" /\ eIfs = "none"
            /\ eBest = "none" /\ eUplink = "none" /\ eGw = "none"
            /\ eMesh = "none" /\ eLeft = "none" /\ ePhase = "none"

MCNext ==
  \/ part = "routes" /\ Next /\ UNCHANGED <<part, iVars, eVars>>
  \/ part = "interfaces" /\ I!Next /\ UNCHANGED <<part, vars, eVars>>
  \/ part = "egress" /\ E!Next /\ UNCHANGED <<part, vars, iVars>>

MCSpec == MCInit /\ [][MCNext]_allVars
-----------------------------------------------------------------------------
(* The loss of an interface, at any moment, leaves no pointer between        *)
(* topology entries, route heads and the elected gateway dangling and no     *)
(* route in the kernel that the daemon does not know of; and a calculation   *)
(* after it leaves the kernel with exactly the best paths.                   *)
LostInterface == part = "interfaces" => I!TypeOK /\ I!NoDanglingPath /\ I!NoOrphanRoute /\ I!CleanRunHeals

(* Once everything is read, the daemon knows which uplinks are up and what   *)
(* the file says of them, the best link is the cheapest of them, the egress  *)
(* routing tables hold what the interfaces and the file call for and nothing *)
(* else, and at the exit nothing stays in them.                              *)
RoutesInPlace ==
  part = "egress" =>
    /\ E!TypeOK /\ E!RoutesInPlace /\ E!BestLink /\ E!UpFollows /\ E!FileApplied /\ E!CleanExit
=============================================================================
