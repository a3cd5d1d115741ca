------------------------------- MODULE Rib -------------------------------
(***************************************************************************)
(* The routing information base and the kernel's forwarding table.        *)
(*                                                                         *)
(* Every node of the topology announces prefixes: a path is a pair <<o, p>> *)
(* of an originator and a prefix.  A path hangs off its originator, and,   *)
(* once a route calculation has reached the originator, also off the route *)
(* head of the prefix.  After each calculation outdated paths are dropped, *)
(* the best path of every prefix is elected, and the difference to what    *)
(* was installed is pushed to the kernel, which may refuse any operation.  *)
(* (src/src/routing_table.c, src/src/process_routes.c, the second half of  *)
(* olsr_calculate_routing_table, src/src/linux/kernel_routes_nl.c)         *)
(***************************************************************************)
EXTENDS Integers, FiniteSets

CONSTANTS
  Origs,        \* originators; numbers, since addresses are compared
  Prefixes,     \* destinations
  DefaultDst,   \* the prefix of length 0: routes to the Internet
  LinkLocal,    \* prefixes that are link-local addresses
  NextHops,     \* gateway and outgoing interface
  Ifaces,       \* interfaces that may go down
  IfaceOf(_),   \* the interface of a next hop
  Routes,       \* the results a route calculation can give: next hop, cost, hops
  MaxHops,
  NatNum, NatDen,  \* the factor lq_nat_thresh = NatNum / NatDen
  FibMetric,    \* "FLAT", "CORRECT" or "APPROX": olsr_cnf->fib_metric
  KernelFails   \* may the kernel refuse an operation?

NoHop == "no_hop"
NoOrig == -1
Metrics == 0 .. MaxHops
Paths == Origs \X Prefixes

ASSUME OrigsAssumption == Origs \subseteq Nat
ASSUME HopsAssumption == NoHop \notin NextHops /\ MaxHops \in Nat \ {0}
ASSUME RoutesAssumption ==
  /\ Routes # {}
  /\ Routes \subseteq [nh : NextHops, cost : Nat, hops : 1 .. MaxHops]
ASSUME NatAssumption == NatNum \in Nat /\ NatDen \in Nat \ {0}
ASSUME MetricAssumption ==
  FibMetric \in {"FLAT", "CORRECT", "APPROX"} /\ KernelFails \in BOOLEAN

SomeRoute == CHOOSE r \in Routes : TRUE   \* a path that was never calculated
Installed == [nh : NextHops \cup {NoHop}, hops : Metrics]
NotInstalled == [nh |-> NoHop, hops |-> 0]

VARIABLES
  known,      \* paths that exist: the prefix trees of the topology entries
  tree,       \* paths that hang off a route head (rtp_rt is set)
  route,      \* rtp_nexthop and rtp_metric of each path
  version,    \* rtp_version of each path
  heads,      \* prefixes that have a route head
  best,       \* rt_best of each head, by originator
  installed,  \* rt_nexthop and the hops of rt_metric of each head
  rtversion,  \* routingtree_version
  inetgw,     \* current_inetgw: the path of DefaultDst last elected
  fib,        \* the kernel: next hop for each prefix and metric
  down,       \* interfaces lost since the last calculation
  clean,      \* observer: the last step was a calculation without a refusal
  reachable   \* observer: the originators that the last calculation reached

vars == <<known, tree, route, version, heads, best, installed, rtversion, inetgw, fib,
          down, clean, reachable>>
----------------------------------------------------------------------------
(* Best path election: olsr_cmp_rtp and olsr_rt_best. *)

Etx(o, p, rts, gw) ==
  IF p = DefaultDst /\ o = gw THEN (rts[<<o, p>>].cost * NatNum) \div NatDen
                              ELSE rts[<<o, p>>].cost

\* olsr_cmp_rtp: the path of a is better than the path of b.
CmpRtp(a, b, p, rts, gw) ==
  \/ Etx(a, p, rts, gw) < Etx(b, p, rts, gw)
  \/ /\ Etx(a, p, rts, gw) = Etx(b, p, rts, gw)
     /\ \/ rts[<<a, p>>].hops < rts[<<b, p>>].hops
        \/ rts[<<a, p>>].hops = rts[<<b, p>>].hops /\ a < b

\* Originators with a path in the rt_path_tree of p.
Members(t, p) == {o \in Origs : <<o, p>> \in t}

\* olsr_rt_best
RtBest(t, p, rts, gw) ==
  IF Members(t, p) = {} THEN NoOrig
  ELSE CHOOSE a \in Members(t, p) : \A b \in Members(t, p) \ {a} : CmpRtp(a, b, p, rts, gw)
----------------------------------------------------------------------------
(* The kernel. *)

EmptyFib == [m \in Metrics |-> NoHop]
MetricOf(hops) == IF FibMetric = "FLAT" THEN 0 ELSE hops

\* RTM_NEWROUTE with NLM_F_CREATE | NLM_F_REPLACE
KernelAdd(f, nh, hops) == [f EXCEPT ![MetricOf(hops)] = nh]

\* RTM_DELROUTE: a route that is not there is reported as deleted
KernelDel(f, inst) ==
  IF f[MetricOf(inst.hops)] = inst.nh THEN [f EXCEPT ![MetricOf(inst.hops)] = NoHop] ELSE f

\* Routes are deleted before they are changed unless all have one metric.
ActiveDelete == FibMetric # "FLAT"

\* Mutant of Changed: only routes that are not installed are pushed.
ChangedNew(inst, r) == inst.nh = NoHop

\* olsr_nh_change or, for correct metrics, olsr_hopcount_change
Changed(inst, r) ==
  inst.nh # r.nh \/ (FibMetric = "CORRECT" /\ inst.hops # r.hops)

\* olsr_delete_kernel_route leaves a multi-hop link-local route alone; the
\* kernel may refuse (p in delfail).
KeepsLinkLocal(p, inst) == p \in LinkLocal /\ inst.hops > 1
AfterDelete(p, f, inst, delfail) ==
  IF KeepsLinkLocal(p, inst) \/ p \in delfail THEN f ELSE KernelDel(f, inst)
DeleteSucceeds(p, inst, delfail) == KeepsLinkLocal(p, inst) \/ p \notin delfail

\* olsr_add_kernel_route installs the best path unless it is a multi-hop
\* link-local route or the kernel refuses (p in addfail).
AddSucceeds(p, r, addfail) == ~(p \in LinkLocal /\ r.hops > 1) /\ p \notin addfail
----------------------------------------------------------------------------
\* What olsr_update_rib_routes and olsr_update_kernel_routes make of one prefix:
\* the head stays or goes, its best path, what is installed, the kernel table.

\* olsr_delete_outdated_routes: only paths of the current version stay.
AliveTree(t, ver, v) == {x \in t : ver[x] = v}

\* Mutant of HeadStays: the head goes although the kernel kept its route.
HeadStaysIfUsed(p, t, inst, delfail) == Members(t, p) # {}

\* A route head is flushed when its last path is gone and its kernel route too.
HeadStays(p, t, inst, delfail) ==
  Members(t, p) # {} \/ ~DeleteSucceeds(p, inst, delfail)

\* Mutant of NewInstalled: the next hop is saved although the add failed.
NewInstalledAlways(p, t, rts, gw, inst, addfail, delfail) ==
  LET b == RtBest(t, p, rts, gw)
  IN  IF b = NoOrig THEN (IF DeleteSucceeds(p, inst, delfail) THEN NotInstalled ELSE inst)
      ELSE [nh |-> rts[<<b, p>>].nh, hops |-> rts[<<b, p>>].hops]

\* rt_nexthop and rt_metric change only when the kernel took the route.
NewInstalled(p, t, rts, gw, inst, addfail, delfail) ==
  LET b == RtBest(t, p, rts, gw)
  IN  IF b = NoOrig THEN (IF DeleteSucceeds(p, inst, delfail) THEN NotInstalled ELSE inst)
      ELSE LET r == rts[<<b, p>>]
           IN  IF Changed(inst, r) /\ AddSucceeds(p, r, addfail)
                 THEN [nh |-> r.nh, hops |-> r.hops] ELSE inst

\* The kernel's routes of p after the deletion or the change, if any.
NewFib(p, t, rts, gw, inst, f, addfail, delfail) ==
  LET b == RtBest(t, p, rts, gw)
  IN  IF b = NoOrig THEN AfterDelete(p, f, inst, delfail)
      ELSE LET r == rts[<<b, p>>]
               f1 == IF ActiveDelete /\ inst.nh # NoHop
                       THEN AfterDelete(p, f, inst, delfail) ELSE f
           IN  IF ~Changed(inst, r) THEN f
               ELSE IF AddSucceeds(p, r, addfail) THEN KernelAdd(f1, r.nh, r.hops)
               ELSE f1

\* olsr_update_rib_routes; olsr_update_kernel_routes, from the state given by
\* the arguments: path tree, routes, heads and kernel table.
UpdateRoutes(t0, rts, ver, hd, fib0, inst0, gw, v, addfail, delfail) ==
  LET t == AliveTree(t0, ver, v)
      gwNew == IF DefaultDst \in hd /\ Members(t, DefaultDst) # {}
                 THEN RtBest(t, DefaultDst, rts, gw) ELSE gw
      stays == {p \in hd : HeadStays(p, t, inst0[p], delfail)}
  IN  /\ tree' = t
      /\ heads' = stays
      /\ best' = [p \in Prefixes |-> IF p \in stays THEN RtBest(t, p, rts, gw) ELSE NoOrig]
      /\ inetgw' = gwNew
      /\ installed' = [p \in Prefixes |->
           IF p \in hd THEN NewInstalled(p, t, rts, gw, inst0[p], addfail, delfail)
                       ELSE inst0[p]]
      /\ fib' = [p \in Prefixes |->
           IF p \in hd THEN NewFib(p, t, rts, gw, inst0[p], fib0[p], addfail, delfail)
                       ELSE fib0[p]]
----------------------------------------------------------------------------
Init ==
  /\ known = {} /\ tree = {} /\ heads = {}
  /\ route = [x \in Paths |-> SomeRoute]
  /\ version = [x \in Paths |-> 0]
  /\ best = [p \in Prefixes |-> NoOrig]
  /\ installed = [p \in Prefixes |-> NotInstalled]
  /\ rtversion = 0
  /\ inetgw = NoOrig
  /\ fib = [p \in Prefixes |-> EmptyFib]
  /\ down = {} /\ clean = FALSE /\ reachable = {}

\* olsr_insert_routing_table: a new path, not yet in the RIB.
InsertRoutingTable(o, p) ==
  /\ <<o, p>> \notin known
  /\ known' = known \cup {<<o, p>>}
  /\ clean' = FALSE /\ reachable' = {}
  /\ UNCHANGED <<tree, route, version, heads, best, installed, rtversion, inetgw, fib, down>>

\* olsr_delete_routing_table and olsr_delete_rt_path
DeleteRtPath(o, p) ==
  /\ <<o, p>> \in known
  /\ known' = known \ {<<o, p>>}
  /\ clean' = FALSE /\ reachable' = {}
  /\ tree' = tree \ {<<o, p>>}
  /\ inetgw' = IF p = DefaultDst /\ inetgw = o THEN NoOrig ELSE inetgw
  /\ best' = [best EXCEPT ![p] = IF @ = o THEN NoOrig ELSE @]
  /\ UNCHANGED <<route, version, heads, installed, rtversion, fib, down>>

\* The part of olsr_calculate_routing_table after the shortest paths are
\* known: res gives the route of every reachable originator.  The links of a
\* lost interface were deleted with it, so no result leads over it.
CalculateRoutes(reached, res, addfail, delfail) ==
  LET v == 1 - rtversion
      hit == {x \in known : x[1] \in reached}
      rts == [x \in Paths |-> IF x \in hit THEN res[x[1]] ELSE route[x]]
      ver == [x \in Paths |-> IF x \in hit THEN v ELSE version[x]]
  IN  /\ \A o \in reached : IfaceOf(res[o].nh) \notin down
      /\ down' = {}
      /\ rtversion' = v
      /\ route' = rts
      /\ version' = ver
      /\ known' = known
      /\ clean' = (addfail = {} /\ delfail = {})
      /\ reachable' = reached
      /\ UpdateRoutes(tree \cup hit, rts, ver, heads \cup {x[2] : x \in hit},
                      fib, installed, inetgw, v, addfail, delfail)

\* olsr_delete_all_kernel_routes, at shutdown: every path becomes outdated.
DeleteAllKernelRoutes(delfail) ==
  /\ rtversion' = 1 - rtversion
  /\ clean' = FALSE /\ reachable' = {}
  /\ UNCHANGED <<known, route, version, down>>
  /\ UpdateRoutes(tree, route, version, heads, fib, installed, inetgw,
                  1 - rtversion, {}, delfail)

\* Mutant of Emptied: a head is dropped with its best path.
EmptiedAll(hit, t) == hit

\* Heads that lost their best and last path with an interface.
Emptied(hit, t) == {p \in hit : Members(t, p) = {}}

\* olsr_delete_interface_routes: the interface is gone, and with it the
\* kernel's routes over it.
DeleteInterfaceRoutes(i, addfail, delfail) ==
  LET lost == {x \in tree : IfaceOf(route[x].nh) = i}
      t == tree \ lost
      hit == {p \in heads : best[p] # NoOrig /\ <<best[p], p>> \in lost}
      emptied == Emptied(hit, t)
      fib0 == [p \in Prefixes |-> [m \in Metrics |->
                 IF fib[p][m] # NoHop /\ IfaceOf(fib[p][m]) = i THEN NoHop ELSE fib[p][m]]]
      inst0 == [p \in Prefixes |-> IF p \in emptied THEN NotInstalled ELSE installed[p]]
  IN  /\ clean' = FALSE /\ reachable' = {} /\ down' = down \cup {i}
      /\ UNCHANGED <<known, route, version, rtversion>>
      /\ IF hit # {}
           THEN UpdateRoutes(t, route, version, heads \ emptied, fib0, inst0, inetgw,
                             rtversion, addfail, delfail)
           ELSE /\ tree' = t /\ fib' = fib0
                /\ UNCHANGED <<heads, best, installed, inetgw>>

Refusals == IF KernelFails THEN SUBSET Prefixes ELSE {{}}

Next ==
  \/ \E o \in Origs, p \in Prefixes : InsertRoutingTable(o, p) \/ DeleteRtPath(o, p)
  \/ \E reached \in SUBSET Origs : \E res \in [reached -> Routes] :
       \E addfail, delfail \in Refusals : CalculateRoutes(reached, res, addfail, delfail)
  \/ \E delfail \in Refusals : DeleteAllKernelRoutes(delfail)
  \/ \E i \in Ifaces, addfail, delfail \in Refusals : DeleteInterfaceRoutes(i, addfail, delfail)

Spec == Init /\ [][Next]_vars
----------------------------------------------------------------------------
\* The RIB is well formed.
TypeOK ==
  /\ known \in SUBSET Paths /\ tree \in SUBSET Paths /\ heads \in SUBSET Prefixes
  /\ route \in [Paths -> Routes] /\ version \in [Paths -> {0, 1}]
  /\ best \in [Prefixes -> Origs \cup {NoOrig}]
  /\ installed \in [Prefixes -> Installed]
  /\ rtversion \in {0, 1} /\ down \in SUBSET Ifaces
  /\ inetgw \in Origs \cup {NoOrig}
  /\ fib \in [Prefixes -> [Metrics -> NextHops \cup {NoHop}]]

\* No pointer of the RIB dangles, whatever order paths are inserted, deleted,
\* calculated and lost with an interface: a path in a route head's tree
\* exists and its head exists, rt_best and current_inetgw point into trees.
NoDanglingPath ==
  /\ tree \subseteq known
  /\ \A x \in tree : x[2] \in heads
  /\ \A p \in heads : best[p] # NoOrig => <<best[p], p>> \in tree
  /\ inetgw # NoOrig => <<inetgw, DefaultDst>> \in known

\* rt_nexthop is what its comment says, the "nexthop of FIB route": a head
\* with an elected path that remembers a next hop has exactly that route in
\* the kernel, after any sequence of kernel refusals.
InstalledIsInKernel ==
  \A p \in heads : best[p] # NoOrig /\ installed[p].nh # NoHop
                    => fib[p][MetricOf(installed[p].hops)] = installed[p].nh

\* The kernel holds no route that no route head remembers: whatever failed, a
\* later update still knows what to delete.
NoOrphanRoute ==
  \A p \in Prefixes, m \in Metrics :
    fib[p][m] # NoHop => /\ p \in heads
                         /\ installed[p].nh = fib[p][m] /\ MetricOf(installed[p].hops) = m

\* The kernel table that the elected path of p calls for.
Wanted(p) ==
  IF best[p] = NoOrig THEN EmptyFib
  ELSE KernelAdd(EmptyFib, route[<<best[p], p>>].nh, route[<<best[p], p>>].hops)

\* Self-healing: a route calculation during which the kernel refuses nothing
\* leaves the kernel with exactly the elected route of every prefix that is
\* not link-local, whatever was refused or lost before.
CleanRunHeals == clean => \A p \in Prefixes \ LinkLocal : fib[p] = Wanted(p)

\* After a calculation a prefix has an elected path exactly when one of its
\* originators was reached, and no reached path is cheaper, whatever the route
\* heads held before.  The default route is the exception: the last gateway is
\* kept while it is within lq_nat_thresh of the cheapest.
BestIsCheapest ==
  clean => \A p \in Prefixes :
    LET can == {o \in reachable : <<o, p>> \in known}
    IN  /\ best[p] \in (IF can = {} THEN {NoOrig} ELSE can)
        /\ p # DefaultDst => \A o \in can : route[<<best[p], p>>].cost <= route[<<o, p>>].cost
============================================================================
