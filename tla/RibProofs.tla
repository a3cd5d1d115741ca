----------------------------- MODULE RibProofs -----------------------------
(***************************************************************************)
(* For any originators, prefixes, next hops and sequence of refusals: no   *)
(* pointer of the RIB dangles, and after a calculation the elected paths   *)
(* are the cheapest, whatever the metric and with interfaces that are lost *)
(* at any time. With flat metrics, as long as no interface is lost, the    *)
(* daemon always knows what the kernel holds, and a route calculation that *)
(* the kernel does not refuse repairs whatever was refused before. Where   *)
(* the kernel refuses nothing, it knows so too when interfaces are lost,   *)
(* and a calculation repairs what went with them.                          *)
(***************************************************************************)
EXTENDS Rib, TLAPS, FiniteSetTheorems

\* The kernel's table of a prefix is what its route head remembers: the saved
\* next hop at the flat metric and nothing else.
Mirrors(f, inst) == f = [m \in Metrics |-> IF m = 0 THEN inst.nh ELSE NoHop]

\* Inductive: the kernel mirrors the heads, what has no head is not installed,
\* and no multi-hop link-local route was ever installed, without which the
\* deletion of a head could leave its kernel route behind.
KernelMirrors ==
  /\ \A p \in Prefixes : Mirrors(fib[p], installed[p])
  /\ \A p \in Prefixes \ heads : installed[p] = NotInstalled
  /\ \A p \in Prefixes : ~KeepsLinkLocal(p, installed[p])

\* What one update makes of one prefix, when the metric is flat.
LEMMA MetricFlat == ASSUME FibMetric = "FLAT", NEW h PROVE MetricOf(h) = 0 /\ ~ActiveDelete
BY DEF MetricOf, ActiveDelete

\* Deleting what the head remembers empties the kernel's table.
LEMMA DeleteMirrors ==
  ASSUME FibMetric = "FLAT", NEW f, NEW inst, Mirrors(f, inst)
  PROVE  Mirrors(KernelDel(f, inst), NotInstalled)
<1>1. MetricOf(inst.hops) = 0 /\ 0 \in Metrics
  BY MetricFlat, HopsAssumption DEF Metrics
<1>2. f[0] = inst.nh
  BY <1>1 DEF Mirrors
<1>3. KernelDel(f, inst) = [f EXCEPT ![0] = NoHop]
  BY <1>1, <1>2 DEF KernelDel
<1> QED
  BY <1>1, <1>3, Zenon DEF Mirrors, NotInstalled

\* Adding a route replaces the one at the flat metric.
LEMMA AddMirrors ==
  ASSUME FibMetric = "FLAT", NEW f, NEW inst, NEW nh, NEW h, NEW inst2,
         Mirrors(f, inst), inst2.nh = nh
  PROVE  Mirrors(KernelAdd(f, nh, h), inst2)
<1>1. MetricOf(h) = 0 /\ 0 \in Metrics
  BY MetricFlat, HopsAssumption DEF Metrics
<1>2. KernelAdd(f, nh, h) = [f EXCEPT ![0] = nh]
  BY <1>1 DEF KernelAdd
<1> QED
  BY <1>1, <1>2, Zenon DEF Mirrors

\* One prefix through olsr_update_rib_routes and olsr_update_kernel_routes:
\* kernel and head stay in step, whatever is refused.
LEMMA UpdateMirrors ==
  ASSUME FibMetric = "FLAT",
         NEW p, NEW t, NEW rts, NEW gw, NEW inst, NEW f, NEW addfail, NEW delfail,
         Mirrors(f, inst), ~KeepsLinkLocal(p, inst)
  PROVE  Mirrors(NewFib(p, t, rts, gw, inst, f, addfail, delfail),
                 NewInstalled(p, t, rts, gw, inst, addfail, delfail))
<1> DEFINE b == RtBest(t, p, rts, gw)
           r == rts[<<b, p>>]
<1>0. ~ActiveDelete
  BY MetricFlat
<1>1. ~KeepsLinkLocal(p, inst)
  OBVIOUS
<1>2. CASE b = NoOrig
  <2>1. CASE p \in delfail
    BY <1>1, <1>2, <2>1 DEF NewFib, NewInstalled, AfterDelete, DeleteSucceeds
  <2>2. CASE p \notin delfail
    <3>1. NewFib(p, t, rts, gw, inst, f, addfail, delfail) = KernelDel(f, inst)
      BY <1>1, <1>2, <2>2 DEF NewFib, AfterDelete
    <3>2. NewInstalled(p, t, rts, gw, inst, addfail, delfail) = NotInstalled
      BY <1>2, <2>2 DEF NewInstalled, DeleteSucceeds
    <3> QED
      BY <3>1, <3>2, DeleteMirrors
  <2> QED
    BY <2>1, <2>2
<1>3. CASE b # NoOrig
  <2>1. CASE Changed(inst, r) /\ AddSucceeds(p, r, addfail)
    <3>1. NewFib(p, t, rts, gw, inst, f, addfail, delfail) = KernelAdd(f, r.nh, r.hops)
      BY <1>0, <1>3, <2>1 DEF NewFib
    <3>2. NewInstalled(p, t, rts, gw, inst, addfail, delfail) = [nh |-> r.nh, hops |-> r.hops]
      BY <1>3, <2>1 DEF NewInstalled
    <3>3. Mirrors(KernelAdd(f, r.nh, r.hops), [nh |-> r.nh, hops |-> r.hops])
      <4> DEFINE saved == [nh |-> r.nh, hops |-> r.hops]
      <4>1. saved.nh = r.nh
        OBVIOUS
      <4> QED
        BY <4>1, AddMirrors
    <3> QED
      BY <3>1, <3>2, <3>3
  <2>2. CASE ~(Changed(inst, r) /\ AddSucceeds(p, r, addfail))
    <3>1. NewFib(p, t, rts, gw, inst, f, addfail, delfail) = f
      BY <1>0, <1>3, <2>2 DEF NewFib
    <3>2. NewInstalled(p, t, rts, gw, inst, addfail, delfail) = inst
      BY <1>3, <2>2 DEF NewInstalled
    <3> QED
      BY <3>1, <3>2
  <2> QED
    BY <2>1, <2>2
<1> QED
  BY <1>2, <1>3

\* No multi-hop link-local route is ever remembered.
LEMMA UpdateKeepsNoLinkLocal ==
  ASSUME NEW p, NEW t, NEW rts, NEW gw, NEW inst, NEW addfail, NEW delfail,
         ~KeepsLinkLocal(p, inst)
  PROVE  ~KeepsLinkLocal(p, NewInstalled(p, t, rts, gw, inst, addfail, delfail))
<1> DEFINE r == rts[<<RtBest(t, p, rts, gw), p>>]
           new == NewInstalled(p, t, rts, gw, inst, addfail, delfail)
<1>1. CASE new = inst
  BY <1>1
<1>2. CASE new = NotInstalled
  BY <1>2 DEF NotInstalled, KeepsLinkLocal
<1>3. CASE AddSucceeds(p, r, addfail) /\ new = [nh |-> r.nh, hops |-> r.hops]
  <2>1. new.hops = r.hops
    BY <1>3
  <2> QED
    BY <1>3, <2>1 DEF AddSucceeds, KeepsLinkLocal
<1>4. new = inst \/ new = NotInstalled
      \/ (AddSucceeds(p, r, addfail) /\ new = [nh |-> r.nh, hops |-> r.hops])
  BY DEF NewInstalled
<1> QED
  BY <1>1, <1>2, <1>3, <1>4

\* A head goes only when its kernel route is gone.
LEMMA HeadGoesClean ==
  ASSUME NEW p, NEW t, NEW rts, NEW gw, NEW inst, NEW addfail, NEW delfail,
         ~HeadStays(p, t, inst, delfail)
  PROVE  NewInstalled(p, t, rts, gw, inst, addfail, delfail) = NotInstalled
BY DEF HeadStays, RtBest, NewInstalled

\* A whole update preserves the invariant.
LEMMA UpdatePreserves ==
  ASSUME FibMetric = "FLAT", KernelMirrors,
         NEW t0, NEW rts, NEW ver, NEW hd, NEW v, NEW addfail, NEW delfail,
         hd \in SUBSET Prefixes, heads \subseteq hd,
         UpdateRoutes(t0, rts, ver, hd, fib, installed, inetgw, v, addfail, delfail)
  PROVE  KernelMirrors'
<1> DEFINE t == AliveTree(t0, ver, v)
           NF(p) == NewFib(p, t, rts, inetgw, installed[p], fib[p], addfail, delfail)
           NI(p) == NewInstalled(p, t, rts, inetgw, installed[p], addfail, delfail)
<1>1. /\ fib' = [p \in Prefixes |-> IF p \in hd THEN NF(p) ELSE fib[p]]
      /\ installed' = [p \in Prefixes |-> IF p \in hd THEN NI(p) ELSE installed[p]]
  BY Zenon DEF UpdateRoutes
<1>2. heads' = {p \in hd : HeadStays(p, t, installed[p], delfail)}
  BY DEF UpdateRoutes
<1> SUFFICES ASSUME NEW p \in Prefixes
             PROVE  /\ Mirrors(fib'[p], installed'[p])
                    /\ p \notin heads' => installed'[p] = NotInstalled
                    /\ ~KeepsLinkLocal(p, installed'[p])
  BY Zenon DEF KernelMirrors, Mirrors, NotInstalled, KeepsLinkLocal
<1>3. Mirrors(fib[p], installed[p]) /\ ~KeepsLinkLocal(p, installed[p])
  BY DEF KernelMirrors
<1>4. CASE p \in hd
  <2>1. fib'[p] = NF(p) /\ installed'[p] = NI(p)
    <3> HIDE DEF NF, NI
    <3> QED
      BY <1>1, <1>4
  <2>2. Mirrors(NF(p), NI(p))
    BY <1>3, UpdateMirrors
  <2>3. ~KeepsLinkLocal(p, NI(p))
    BY <1>3, UpdateKeepsNoLinkLocal
  <2>4. ASSUME p \notin heads' PROVE NI(p) = NotInstalled
    BY <1>2, <1>4, <2>4, HeadGoesClean
  <2> QED
    BY <2>1, <2>2, <2>3, <2>4
<1>5. CASE p \notin hd
  <2>1. installed[p] = NotInstalled
    BY <1>5 DEF KernelMirrors
  <2>2. fib'[p] = fib[p] /\ installed'[p] = installed[p]
    <3> HIDE DEF NF, NI
    <3> QED
      BY <1>1, <1>5
  <2> QED
    BY <1>3, <2>1, <2>2
<1> QED
  BY <1>4, <1>5

\* After an update that nothing was refused in, the kernel holds the elected
\* route of every prefix that is not link-local.
LEMMA UpdateHeals ==
  ASSUME FibMetric = "FLAT", KernelMirrors,
         NEW t0, NEW rts, NEW ver, NEW hd, NEW v,
         hd \in SUBSET Prefixes, heads \subseteq hd, route' = rts,
         UpdateRoutes(t0, rts, ver, hd, fib, installed, inetgw, v, {}, {})
  PROVE  \A p \in Prefixes \ LinkLocal : fib'[p] = Wanted(p)'
<1> DEFINE t == AliveTree(t0, ver, v)
           stays == {p \in hd : HeadStays(p, t, installed[p], {})}
           B(p) == RtBest(t, p, rts, inetgw)
           NI(p) == NewInstalled(p, t, rts, inetgw, installed[p], {}, {})
<1>1. /\ best' = [p \in Prefixes |-> IF p \in stays THEN B(p) ELSE NoOrig]
      /\ installed' = [p \in Prefixes |-> IF p \in hd THEN NI(p) ELSE installed[p]]
  BY Zenon DEF UpdateRoutes
<1>2. KernelMirrors'
  BY UpdatePreserves
<1> SUFFICES ASSUME NEW p \in Prefixes \ LinkLocal
             PROVE  fib'[p] = Wanted(p)'
  OBVIOUS
<1>3. fib'[p] = [m \in Metrics |-> IF m = 0 THEN installed'[p].nh ELSE NoHop]
  BY <1>2 DEF KernelMirrors, Mirrors
<1>4. ASSUME NEW nh, NEW h PROVE KernelAdd(EmptyFib, nh, h)
                                  = [m \in Metrics |-> IF m = 0 THEN nh ELSE NoHop]
  BY MetricFlat DEF KernelAdd, EmptyFib
<1>5. ASSUME installed'[p] = NotInstalled PROVE fib'[p] = EmptyFib
  BY <1>3, <1>5 DEF NotInstalled, EmptyFib
<1>6. CASE p \in stays /\ B(p) # NoOrig
  <2> DEFINE r == rts[<<B(p), p>>]
  <2>1. best'[p] = B(p) /\ installed'[p] = NI(p)
    <3> HIDE DEF B, NI
    <3> QED
      BY <1>1, <1>6
  <2>2. NI(p).nh = r.nh
    BY <1>6 DEF NewInstalled, Changed, AddSucceeds
  <2>3. Wanted(p)' = KernelAdd(EmptyFib, r.nh, r.hops)
    <3> HIDE DEF B
    <3> QED
      BY <1>6, <2>1 DEF Wanted
  <2> QED
    BY <1>3, <1>4, <2>1, <2>2, <2>3
<1>7. CASE ~(p \in stays /\ B(p) # NoOrig)
  <2>1. best'[p] = NoOrig
    <3> HIDE DEF B, NI, stays
    <3> QED
      BY <1>1, <1>7
  <2>2. installed'[p] = NotInstalled
    <3>1. CASE p \in hd
      <4>1. B(p) = NoOrig
        BY <1>7, <3>1 DEF HeadStays, RtBest
      <4>2. NI(p) = NotInstalled
        BY <4>1 DEF NewInstalled, DeleteSucceeds
      <4> HIDE DEF NI
      <4> QED
        BY <1>1, <3>1, <4>2
    <3>2. CASE p \notin hd
      <4>1. installed[p] = NotInstalled
        BY <3>2 DEF KernelMirrors
      <4> HIDE DEF NI
      <4> QED
        BY <1>1, <3>2, <4>1
    <3> QED
      BY <3>1, <3>2
  <2>3. Wanted(p)' = EmptyFib
    BY <2>1 DEF Wanted
  <2> QED
    BY <1>5, <2>2, <2>3
<1> QED
  BY <1>6, <1>7

\* The inductive invariant of the theorems below.
RibInv ==
  /\ heads \in SUBSET Prefixes
  /\ known \in SUBSET Paths
  /\ KernelMirrors
  /\ CleanRunHeals

\* A route calculation preserves the invariant.
LEMMA CalculatePreserves ==
  ASSUME FibMetric = "FLAT", RibInv,
         NEW reached, NEW res, NEW addfail, NEW delfail,
         CalculateRoutes(reached, res, addfail, delfail)
  PROVE  RibInv'
<1> DEFINE v == 1 - rtversion
           hit == {x \in known : x[1] \in reached}
           rts == [x \in Paths |-> IF x \in hit THEN res[x[1]] ELSE route[x]]
           ver == [x \in Paths |-> IF x \in hit THEN v ELSE version[x]]
           hd == heads \cup {x[2] : x \in hit}
<1>1. /\ route' = rts /\ known' = known
      /\ clean' = (addfail = {} /\ delfail = {})
      /\ UpdateRoutes(tree \cup hit, rts, ver, hd, fib, installed, inetgw, v, addfail, delfail)
  BY Zenon DEF CalculateRoutes
<1>2. hd \in SUBSET Prefixes /\ heads \subseteq hd
  BY DEF RibInv, Paths
<1> HIDE DEF v, hit, rts, ver, hd
<1>3. KernelMirrors'
  BY <1>1, <1>2, UpdatePreserves DEF RibInv
<1>4. heads' \in SUBSET Prefixes
  BY <1>1, <1>2 DEF UpdateRoutes
<1>5. CleanRunHeals'
  <2>1. CASE clean'
    <3>1. UpdateRoutes(tree \cup hit, rts, ver, hd, fib, installed, inetgw, v, {}, {})
      BY <1>1, <2>1, Zenon
    <3> QED
      BY <1>1, <1>2, <3>1, UpdateHeals DEF RibInv, CleanRunHeals
  <2>2. CASE ~clean'
    BY <2>2 DEF CleanRunHeals
  <2> QED
    BY <2>1, <2>2
<1> QED
  BY <1>1, <1>3, <1>4, <1>5 DEF RibInv

\* The invariant holds initially and is preserved by every step, for flat
\* metrics and no interface loss.
LEMMA RibInvInductive ==
  ASSUME FibMetric = "FLAT", Ifaces = {}
  PROVE  /\ Init => RibInv
         /\ RibInv /\ [Next]_vars => RibInv'
<1>1. Init => RibInv
  <2> SUFFICES ASSUME Init PROVE RibInv
    OBVIOUS
  <2>1. KernelMirrors
    BY DEF Init, KernelMirrors, Mirrors, NotInstalled, EmptyFib, KeepsLinkLocal
  <2> QED
    BY <2>1 DEF Init, RibInv, CleanRunHeals
<1>2. RibInv /\ [Next]_vars => RibInv'
  <2> SUFFICES ASSUME RibInv, [Next]_vars PROVE RibInv'
    OBVIOUS
  <2>1. ASSUME NEW o \in Origs, NEW p \in Prefixes, InsertRoutingTable(o, p)
        PROVE  RibInv'
    <3>1. KernelMirrors'
      BY <2>1 DEF RibInv, InsertRoutingTable, KernelMirrors, Mirrors, KeepsLinkLocal
    <3> QED
      BY <2>1, <3>1 DEF RibInv, InsertRoutingTable, CleanRunHeals, Paths
  <2>2. ASSUME NEW o \in Origs, NEW p \in Prefixes, DeleteRtPath(o, p)
        PROVE  RibInv'
    <3>1. KernelMirrors'
      BY <2>2 DEF RibInv, DeleteRtPath, KernelMirrors, Mirrors, KeepsLinkLocal
    <3> QED
      BY <2>2, <3>1 DEF RibInv, DeleteRtPath, CleanRunHeals, Paths
  <2>3. ASSUME NEW reached \in SUBSET Origs, NEW res \in [reached -> Routes],
               NEW addfail \in Refusals, NEW delfail \in Refusals,
               CalculateRoutes(reached, res, addfail, delfail)
        PROVE  RibInv'
    BY <2>3, CalculatePreserves
  <2>4. ASSUME NEW delfail \in Refusals, DeleteAllKernelRoutes(delfail)
        PROVE  RibInv'
    <3>1. UpdateRoutes(tree, route, version, heads, fib, installed, inetgw,
                       1 - rtversion, {}, delfail) /\ ~clean' /\ known' = known
      BY <2>4 DEF DeleteAllKernelRoutes
    <3>2. KernelMirrors'
      BY <3>1, UpdatePreserves DEF RibInv
    <3>3. heads' \in SUBSET Prefixes
      BY <3>1 DEF UpdateRoutes, RibInv
    <3> QED
      BY <3>1, <3>2, <3>3 DEF RibInv, CleanRunHeals
  <2>5. CASE UNCHANGED vars
    <3>1. KernelMirrors'
      BY <2>5 DEF RibInv, vars, KernelMirrors, Mirrors, KeepsLinkLocal
    <3>2. CleanRunHeals'
      BY <2>5 DEF RibInv, vars, CleanRunHeals, Wanted
    <3> QED
      BY <2>5, <3>1, <3>2 DEF RibInv, vars
  <2> QED
    BY <2>1, <2>2, <2>3, <2>4, <2>5 DEF Next
<1> QED
  BY <1>1, <1>2

\* rt_nexthop is the next hop of the route in the kernel, with flat metrics and
\* as long as no interface is lost (olsr_chg_kernel_routes,
\* olsr_add_kernel_route): whatever the kernel refuses.
THEOREM InstalledCorrect ==
  ASSUME FibMetric = "FLAT", Ifaces = {} PROVE Spec => []InstalledIsInKernel
<1>1. RibInv => InstalledIsInKernel
  <2> SUFFICES ASSUME RibInv, NEW p \in heads, installed[p].nh # NoHop
               PROVE  fib[p][MetricOf(installed[p].hops)] = installed[p].nh
    BY DEF InstalledIsInKernel
  <2>1. MetricOf(installed[p].hops) = 0 /\ 0 \in Metrics
    BY MetricFlat, HopsAssumption DEF Metrics
  <2> QED
    BY <2>1, Zenon DEF RibInv, KernelMirrors, Mirrors
<1> QED
  BY <1>1, RibInvInductive, PTL DEF Spec

\* Under the same conditions no kernel route is forgotten: a head is flushed
\* only when the kernel has deleted its route (olsr_update_rib_routes).
THEOREM NoRouteForgotten ==
  ASSUME FibMetric = "FLAT", Ifaces = {} PROVE Spec => []NoOrphanRoute
<1>1. RibInv => NoOrphanRoute
  <2> SUFFICES ASSUME RibInv, NEW p \in Prefixes, NEW m \in Metrics, fib[p][m] # NoHop
               PROVE  /\ p \in heads
                      /\ installed[p].nh = fib[p][m] /\ MetricOf(installed[p].hops) = m
    BY DEF NoOrphanRoute
  <2>1. m = 0 /\ fib[p][m] = installed[p].nh
    BY Zenon DEF RibInv, KernelMirrors, Mirrors
  <2>2. p \in heads
    BY <2>1 DEF RibInv, KernelMirrors, NotInstalled
  <2> QED
    BY <2>1, <2>2, MetricFlat
<1> QED
  BY <1>1, RibInvInductive, PTL DEF Spec

\* Under the same conditions one calculation without a refusal leaves the
\* kernel with exactly the elected routes, whatever was refused before
\* (olsr_update_rib_routes, olsr_update_kernel_routes).
THEOREM Heals ==
  ASSUME FibMetric = "FLAT", Ifaces = {} PROVE Spec => []CleanRunHeals
<1>1. RibInv => CleanRunHeals
  BY DEF RibInv
<1> QED
  BY <1>1, RibInvInductive, PTL DEF Spec
----------------------------------------------------------------------------
(* Election, with any metric and with interfaces that are lost.            *)

\* A set of numbers has a least one.
LEMMA LeastNumber ==
  ASSUME NEW S \in SUBSET Nat, S # {}
  PROVE  \E n \in S : \A m \in S : n <= m
<1> DEFINE T == {0 .. n : n \in S}
<1>1. T \subseteq FiniteSubsetsOf(Nat)
  <2> SUFFICES ASSUME NEW n \in S PROVE 0 .. n \in FiniteSubsetsOf(Nat)
    OBVIOUS
  <2>1. IsFiniteSet(0 .. n)
    BY FS_Interval
  <2> QED
    BY <2>1 DEF FiniteSubsetsOf
<1>2. T # {}
  BY Zenon
<1>3. IsWellFoundedOn(StrictSubsetOrdering(Nat), FiniteSubsetsOf(Nat))
  BY FS_StrictSubsetOrderingWellFounded
<1>4. PICK x \in T : \A y \in T : <<y, x>> \notin StrictSubsetOrdering(Nat)
  <2> HIDE DEF T
  <2> QED
    BY <1>1, <1>2, <1>3, WFMin
<1>5. PICK n \in S : x = 0 .. n
  BY <1>4
<1>6. ASSUME NEW m \in S PROVE n <= m
  <2> SUFFICES ASSUME m < n PROVE FALSE
    OBVIOUS
  <2>1. <<0 .. m, x>> \notin StrictSubsetOrdering(Nat)
    BY <1>4, Zenon
  <2>2. 0 .. m \in SUBSET Nat /\ x \in SUBSET Nat /\ 0 .. m \subseteq x
    BY <1>5
  <2>3. n \in x /\ n \notin 0 .. m
    BY <1>5
  <2> QED
    BY <2>1, <2>2, <2>3 DEF StrictSubsetOrdering
<1> QED
  BY <1>6

\* olsr_cmp_rtp orders the paths of a prefix, so that one of them is the best:
\* the first by cost, hop count and originator.
LEMMA BestExists ==
  ASSUME NEW t \in SUBSET Paths, NEW p \in Prefixes, NEW rts \in [Paths -> Routes], NEW gw,
         Members(t, p) # {}
  PROVE  /\ RtBest(t, p, rts, gw) \in Members(t, p)
         /\ \A b \in Members(t, p) \ {RtBest(t, p, rts, gw)} :
              CmpRtp(RtBest(t, p, rts, gw), b, p, rts, gw)
<1> DEFINE M == Members(t, p)
           E(a) == Etx(a, p, rts, gw)
           H(a) == rts[<<a, p>>].hops
<1>1. \A a \in M : a \in Nat /\ <<a, p>> \in Paths
  BY OrigsAssumption DEF Members, Paths
<1>2. ASSUME NEW a \in M PROVE E(a) \in Nat /\ H(a) \in Nat
  <2>1. rts[<<a, p>>] \in Routes
    BY <1>1
  <2>2. rts[<<a, p>>] \in [nh : NextHops, cost : Nat, hops : 1 .. MaxHops]
    BY <2>1, RoutesAssumption
  <2>3. rts[<<a, p>>].cost \in Nat /\ H(a) \in Nat
    BY <2>2, HopsAssumption
  <2>4. (rts[<<a, p>>].cost * NatNum) \div NatDen \in Nat
    <3>1. rts[<<a, p>>].cost * NatNum \in Nat
      BY <2>3, NatAssumption
    <3> QED
      BY <3>1, NatAssumption
  <2> QED
    BY <2>3, <2>4 DEF Etx
<1>3. M # {}
  OBVIOUS
<1> HIDE DEF E, H, M
<1>4. PICK e \in {E(a) : a \in M} : \A x \in {E(a) : a \in M} : e <= x
  <2>1. {E(a) : a \in M} \in SUBSET Nat /\ {E(a) : a \in M} # {}
    BY <1>2, <1>3
  <2> QED
    BY <2>1, LeastNumber, Zenon
<1> DEFINE M1 == {a \in M : E(a) = e}
<1>5. PICK h \in {H(a) : a \in M1} : \A x \in {H(a) : a \in M1} : h <= x
  <2>1. {H(a) : a \in M1} \in SUBSET Nat /\ {H(a) : a \in M1} # {}
    BY <1>2, <1>4
  <2> QED
    BY <2>1, LeastNumber, Zenon
<1> DEFINE M2 == {a \in M1 : H(a) = h}
<1>6. PICK a \in M2 : \A x \in M2 : a <= x
  <2>1. M2 \in SUBSET Nat /\ M2 # {}
    BY <1>1, <1>5, Zenon
  <2> QED
    BY <2>1, LeastNumber, Zenon
<1>7. ASSUME NEW b \in M \ {a} PROVE CmpRtp(a, b, p, rts, gw)
  <2>1. E(a) = e /\ E(a) <= E(b) /\ E(a) \in Nat /\ E(b) \in Nat
    BY <1>2, <1>4, <1>6
  <2>2. E(b) = E(a) => H(a) = h /\ H(a) <= H(b) /\ H(a) \in Nat /\ H(b) \in Nat
    BY <2>1, <1>2, <1>5, <1>6
  <2>3. E(b) = E(a) /\ H(b) = H(a) => a <= b /\ a \in Nat /\ b \in Nat
    BY <2>1, <2>2, <1>1, <1>6, Zenon
  <2>4. E(a) < E(b) \/ (E(a) = E(b) /\ (H(a) < H(b) \/ (H(a) = H(b) /\ a < b)))
    BY <2>1, <2>2, <2>3
  <2> QED
    BY <2>4 DEF CmpRtp, E, H
<1>8. a \in M
  BY <1>6
<1>9. RtBest(t, p, rts, gw)
      = CHOOSE x \in M : \A b \in M \ {x} : CmpRtp(x, b, p, rts, gw)
  BY <1>3 DEF RtBest, M
<1> QED
  <2>1. \E x \in M : \A b \in M \ {x} : CmpRtp(x, b, p, rts, gw)
    BY <1>7, <1>8
  <2>2. /\ RtBest(t, p, rts, gw) \in M
        /\ \A b \in M \ {RtBest(t, p, rts, gw)} : CmpRtp(RtBest(t, p, rts, gw), b, p, rts, gw)
    <3> HIDE DEF RtBest, CmpRtp
    <3> QED
      BY <1>9, <2>1
  <2> QED
    BY <2>2 DEF M

\* The types the election needs.
RibType ==
  /\ known \in SUBSET Paths /\ tree \in SUBSET Paths /\ heads \in SUBSET Prefixes
  /\ route \in [Paths -> Routes]
  /\ DOMAIN best = Prefixes
  /\ rtversion \in {0, 1}

\* Only paths of the current version hang off a route head.
AllCurrent == \A x \in tree : version[x] = rtversion

\* Inductive: the pointers, the versions without which an outdated path could be
\* taken for one of this calculation, and the election.
LinkedInv == RibType /\ NoDanglingPath /\ AllCurrent /\ BestIsCheapest

\* olsr_update_rib_routes, from whatever state an action leaves it: the pointers
\* are right again when the paths it is given exist and have a head.
LEMMA UpdateLinks ==
  ASSUME NEW t0 \in SUBSET Paths, NEW rts \in [Paths -> Routes], NEW ver, NEW hd \in SUBSET Prefixes,
         NEW fib0, NEW inst0, NEW v, NEW addfail, NEW delfail,
         UpdateRoutes(t0, rts, ver, hd, fib0, inst0, inetgw, v, addfail, delfail),
         t0 \subseteq known', known \subseteq known', \A x \in t0 : x[2] \in hd,
         inetgw # NoOrig => <<inetgw, DefaultDst>> \in known
  PROVE  /\ NoDanglingPath'
         /\ tree' = {x \in t0 : ver[x] = v} /\ heads' \subseteq hd /\ DOMAIN best' = Prefixes
<1> DEFINE t == AliveTree(t0, ver, v)
           B(p) == RtBest(t, p, rts, inetgw)
           stays == {p \in hd : HeadStays(p, t, inst0[p], delfail)}
<1>1. /\ tree' = t /\ heads' = stays
      /\ best' = [p \in Prefixes |-> IF p \in stays THEN B(p) ELSE NoOrig]
      /\ inetgw' = IF DefaultDst \in hd /\ Members(t, DefaultDst) # {} THEN B(DefaultDst) ELSE inetgw
  BY Zenon DEF UpdateRoutes
<1>2. t \subseteq t0 /\ t \in SUBSET Paths
  BY DEF AliveTree
<1>3. ASSUME NEW p \in Prefixes, B(p) # NoOrig PROVE <<B(p), p>> \in t
  <2>1. Members(t, p) # {}
    BY <1>3 DEF RtBest
  <2>2. B(p) \in Members(t, p)
    BY <1>2, <2>1, BestExists
  <2> QED
    BY <2>2 DEF Members
<1>4. ASSUME NEW x \in t PROVE x[2] \in stays
  <2>1. x[2] \in hd /\ x \in Paths
    BY <1>2
  <2>2. x[1] \in Origs /\ x = <<x[1], x[2]>>
    BY <2>1 DEF Paths
  <2>3. x[1] \in Members(t, x[2])
    BY <2>2 DEF Members
  <2> QED
    BY <2>1, <2>3 DEF HeadStays
<1>5. stays \subseteq hd
  OBVIOUS
<1>6. ASSUME Members(t, DefaultDst) # {}, DefaultDst \in hd PROVE <<B(DefaultDst), DefaultDst>> \in t
  <2>1. B(DefaultDst) \in Members(t, DefaultDst)
    BY <1>2, <1>6, BestExists
  <2> QED
    BY <2>1 DEF Members
<1>7. t = {x \in t0 : ver[x] = v}
  BY DEF AliveTree
<1> HIDE DEF B, t, stays
<1>8. tree' \subseteq known'
  BY <1>1, <1>2
<1>9. \A x \in tree' : x[2] \in heads'
  BY <1>1, <1>4
<1>10. \A p \in heads' : best'[p] # NoOrig => <<best'[p], p>> \in tree'
  BY <1>1, <1>3, <1>5
<1>11. inetgw' # NoOrig => <<inetgw', DefaultDst>> \in known'
  BY <1>1, <1>2, <1>6
<1> QED
  BY <1>1, <1>5, <1>7, <1>8, <1>9, <1>10, <1>11 DEF NoDanglingPath

\* A calculation elects the cheapest path of every prefix it reached.
LEMMA CalculateLinks ==
  ASSUME LinkedInv, NEW reached \in SUBSET Origs, NEW res \in [reached -> Routes], NEW addfail, NEW delfail,
         CalculateRoutes(reached, res, addfail, delfail)
  PROVE  LinkedInv'
<1> DEFINE v == 1 - rtversion
           hit == {x \in known : x[1] \in reached}
           rts == [x \in Paths |-> IF x \in hit THEN res[x[1]] ELSE route[x]]
           ver == [x \in Paths |-> IF x \in hit THEN v ELSE version[x]]
           hd == heads \cup {x[2] : x \in hit}
<1>1. /\ route' = rts /\ known' = known /\ version' = ver /\ rtversion' = v /\ reachable' = reached
      /\ UpdateRoutes(tree \cup hit, rts, ver, hd, fib, installed, inetgw, v, addfail, delfail)
  BY Zenon DEF CalculateRoutes
<1>2. hd \in SUBSET Prefixes /\ hit \in SUBSET Paths /\ tree \cup hit \in SUBSET Paths
  BY DEF LinkedInv, RibType, Paths
<1>3. rts \in [Paths -> Routes] /\ v \in {0, 1} /\ v # rtversion
  BY DEF LinkedInv, RibType
<1>4. tree \cup hit \subseteq known /\ \A x \in tree \cup hit : x[2] \in hd
  BY DEF LinkedInv, NoDanglingPath
<1>5. {x \in tree \cup hit : ver[x] = v} = hit
  <2>1. \A x \in hit : ver[x] = v
    BY <1>2
  <2>2. \A x \in tree \ hit : ver[x] = version[x] /\ version[x] = rtversion
    BY DEF LinkedInv, RibType, AllCurrent
  <2> QED
    BY <2>1, <2>2, <1>3
<1>6. \A x \in hit : ver[x] = v
  BY <1>2
<1>7. \A x \in Paths : x \in hit <=> x \in known /\ x[1] \in reached
  OBVIOUS
<1> HIDE DEF v, hit, rts, ver, hd
<1>8. NoDanglingPath' /\ tree' = hit /\ heads' \subseteq hd /\ DOMAIN best' = Prefixes
  <2>1. inetgw # NoOrig => <<inetgw, DefaultDst>> \in known
    BY DEF LinkedInv, NoDanglingPath
  <2>2. tree \cup hit \subseteq known' /\ known \subseteq known'
    BY <1>1, <1>4
  <2>3. NoDanglingPath' /\ tree' = {x \in tree \cup hit : ver[x] = v} /\ heads' \subseteq hd
        /\ DOMAIN best' = Prefixes
    BY <1>1, <1>2, <1>3, <1>4, <2>1, <2>2, UpdateLinks, SMTT(30)
  <2> QED
    BY <1>5, <2>3
<1>9. RibType' /\ AllCurrent'
  BY <1>1, <1>2, <1>3, <1>6, <1>8 DEF LinkedInv, RibType, AllCurrent
<1>10. BestIsCheapest'
  <2> SUFFICES ASSUME NEW p \in Prefixes
               PROVE  LET can == {o \in reached : <<o, p>> \in known}
                      IN  /\ best'[p] \in (IF can = {} THEN {NoOrig} ELSE can)
                          /\ p # DefaultDst => \A o \in can : rts[<<best'[p], p>>].cost <= rts[<<o, p>>].cost
    BY <1>1, Zenon DEF BestIsCheapest
  <2> DEFINE can == {o \in reached : <<o, p>> \in known}
             B == RtBest(hit, p, rts, inetgw)
  <2>1. Members(hit, p) = can
    BY <1>7 DEF Members, Paths
  <2>2. AliveTree(tree \cup hit, ver, v) = hit
    BY <1>5 DEF AliveTree
  <2>3. best'[p] = IF p \in heads' THEN B ELSE NoOrig
    <3>1. /\ heads' = {q \in hd : HeadStays(q, hit, installed[q], delfail)}
          /\ best' = [q \in Prefixes |-> IF q \in {r \in hd : HeadStays(r, hit, installed[r], delfail)}
                                          THEN RtBest(hit, q, rts, inetgw) ELSE NoOrig]
      BY <1>1, <2>2, Zenon DEF UpdateRoutes
    <3> HIDE DEF HeadStays, RtBest
    <3> QED
      BY <3>1
  <2>4. CASE can = {}
    <3>1. B = NoOrig
      BY <2>1, <2>4 DEF RtBest
    <3> QED
      BY <2>3, <2>4, <3>1
  <2>5. CASE can # {}
    <3>1. B \in can /\ \A b \in can \ {B} : CmpRtp(B, b, p, rts, inetgw)
      BY <1>2, <1>3, <2>1, <2>5, BestExists, Zenon
    <3>2. p \in heads'
      <4>1. PICK o \in can : TRUE
        BY <2>5
      <4>2. <<o, p>> \in hit
        BY <4>1, <2>1 DEF Members
      <4>3. <<o, p>>[2] \in heads'
        BY <4>2, <1>8 DEF NoDanglingPath
      <4> QED
        BY <4>3
    <3>3. best'[p] = B
      BY <2>3, <3>2
    <3>4. ASSUME p # DefaultDst, NEW o \in can PROVE rts[<<B, p>>].cost <= rts[<<o, p>>].cost
      <4>1. rts[<<B, p>>].cost \in Nat /\ rts[<<o, p>>].cost \in Nat
        <5>1. <<B, p>> \in Paths /\ <<o, p>> \in Paths
          BY <3>1 DEF Paths
        <5>2. rts[<<B, p>>] \in Routes /\ rts[<<o, p>>] \in Routes
          BY <5>1, <1>3
        <5> QED
          BY <5>2, RoutesAssumption
      <4>2. CASE o = B
        BY <4>1, <4>2, SMTT(30)
      <4>3. CASE o # B
        <5>1. CmpRtp(B, o, p, rts, inetgw)
          BY <3>1, <4>3
        <5> QED
          BY <5>1, <4>1, <3>4 DEF CmpRtp, Etx
      <4> QED
        BY <4>2, <4>3
    <3> HIDE DEF B
    <3> QED
      BY <2>5, <3>1, <3>3, <3>4
  <2> QED
    BY <2>4, <2>5, SMTT(30)
<1> QED
  BY <1>8, <1>9, <1>10 DEF LinkedInv

\* The loss of an interface keeps the pointers right.
LEMMA LossLinks ==
  ASSUME LinkedInv, NEW i \in Ifaces, NEW addfail, NEW delfail,
         DeleteInterfaceRoutes(i, addfail, delfail)
  PROVE  LinkedInv'
<1> DEFINE lost == {x \in tree : IfaceOf(route[x].nh) = i}
           t == tree \ lost
           hit == {p \in heads : best[p] # NoOrig /\ <<best[p], p>> \in lost}
           emptied == Emptied(hit, t)
           fib0 == [p \in Prefixes |-> [m \in Metrics |->
                      IF fib[p][m] # NoHop /\ IfaceOf(fib[p][m]) = i THEN NoHop ELSE fib[p][m]]]
           inst0 == [p \in Prefixes |-> IF p \in emptied THEN NotInstalled ELSE installed[p]]
<1>1. /\ clean' = FALSE /\ known' = known /\ route' = route /\ version' = version /\ rtversion' = rtversion
      /\ IF hit # {}
           THEN UpdateRoutes(t, route, version, heads \ emptied, fib0, inst0, inetgw,
                             rtversion, addfail, delfail)
           ELSE tree' = t /\ UNCHANGED <<heads, best, inetgw>>
  BY Zenon DEF DeleteInterfaceRoutes
<1>2. t \in SUBSET Paths /\ heads \ emptied \in SUBSET Prefixes /\ route \in [Paths -> Routes]
  BY DEF LinkedInv, RibType
<1>3. t \subseteq tree /\ t \subseteq known /\ \A x \in t : version[x] = rtversion
  BY DEF LinkedInv, NoDanglingPath, AllCurrent
<1>4. ASSUME NEW x \in t PROVE x[2] \in heads \ emptied
  <2>1. x[2] \in heads
    BY <1>3 DEF LinkedInv, NoDanglingPath
  <2>2. x[1] \in Origs /\ x = <<x[1], x[2]>>
    BY <1>2 DEF Paths
  <2>3. Members(t, x[2]) # {}
    BY <2>2 DEF Members
  <2> QED
    BY <2>1, <2>3, Zenon DEF Emptied
<1>5. BestIsCheapest'
  BY <1>1 DEF BestIsCheapest
<1>6. inetgw # NoOrig => <<inetgw, DefaultDst>> \in known
  BY DEF LinkedInv, NoDanglingPath
<1>7. CASE hit # {}
  <2> HIDE DEF t, hit, emptied, fib0, inst0
  <2>1. NoDanglingPath' /\ tree' = {x \in t : version[x] = rtversion} /\ heads' \subseteq heads \ emptied
        /\ DOMAIN best' = Prefixes
    BY <1>1, <1>2, <1>3, <1>4, <1>6, <1>7, UpdateLinks, Zenon
  <2>2. RibType' /\ AllCurrent'
    BY <2>1, <1>1, <1>2 DEF LinkedInv, RibType, AllCurrent
  <2> QED
    BY <2>1, <2>2, <1>5, SMTT(30) DEF LinkedInv
<1>8. CASE hit = {}
  <2>1. tree' = t /\ heads' = heads /\ best' = best /\ inetgw' = inetgw
    BY <1>1, <1>8, Zenon
  <2>2. ASSUME NEW p \in heads, best[p] # NoOrig PROVE <<best[p], p>> \in t
    BY <1>8, <2>2 DEF LinkedInv, NoDanglingPath
  <2>3. \A x \in t : x[2] \in heads
    BY <1>4, Zenon
  <2> HIDE DEF t, hit
  <2>4. NoDanglingPath'
    BY <1>1, <1>3, <1>6, <2>1, <2>2, <2>3 DEF NoDanglingPath
  <2>5. RibType' /\ AllCurrent'
    BY <1>1, <1>2, <1>3, <2>1 DEF LinkedInv, RibType, AllCurrent
  <2> QED
    BY <1>5, <2>4, <2>5 DEF LinkedInv
<1> QED
  BY <1>7, <1>8

\* Every step keeps the pointers and the election.
LEMMA LinkedInductive ==
  /\ Init => LinkedInv
  /\ LinkedInv /\ [Next]_vars => LinkedInv'
<1>1. Init => LinkedInv
  <2> SUFFICES ASSUME Init PROVE LinkedInv
    OBVIOUS
  <2>1. SomeRoute \in Routes
    BY RoutesAssumption DEF SomeRoute
  <2> QED
    BY <2>1 DEF Init, LinkedInv, RibType, NoDanglingPath, AllCurrent, BestIsCheapest
<1>2. LinkedInv /\ [Next]_vars => LinkedInv'
  <2> SUFFICES ASSUME LinkedInv, [Next]_vars PROVE LinkedInv'
    OBVIOUS
  <2>1. ASSUME NEW o \in Origs, NEW p \in Prefixes, InsertRoutingTable(o, p)
        PROVE  LinkedInv'
    BY <2>1 DEF LinkedInv, RibType, NoDanglingPath, AllCurrent, BestIsCheapest, InsertRoutingTable, Paths
  <2>2. ASSUME NEW o \in Origs, NEW p \in Prefixes, DeleteRtPath(o, p)
        PROVE  LinkedInv'
    <3>1. /\ known' = known \ {<<o, p>>} /\ tree' = tree \ {<<o, p>>} /\ ~clean'
          /\ heads' = heads /\ route' = route /\ version' = version /\ rtversion' = rtversion
          /\ inetgw' = IF p = DefaultDst /\ inetgw = o THEN NoOrig ELSE inetgw
          /\ best' = [best EXCEPT ![p] = IF @ = o THEN NoOrig ELSE @]
      BY <2>2 DEF DeleteRtPath
    <3>2. ASSUME NEW q \in heads, best'[q] # NoOrig PROVE <<best'[q], q>> \in tree'
      <4>1. CASE q = p
        <5>1. best'[q] = IF best[q] = o THEN NoOrig ELSE best[q]
          BY <3>1, <4>1 DEF LinkedInv, RibType
        <5> QED
          BY <3>1, <3>2, <5>1 DEF LinkedInv, NoDanglingPath
      <4>2. CASE q # p
        <5>1. best'[q] = best[q]
          BY <3>1, <4>2
        <5> QED
          BY <3>1, <3>2, <4>2, <5>1 DEF LinkedInv, NoDanglingPath
      <4> QED
        BY <4>1, <4>2
    <3>3. NoDanglingPath'
      BY <3>1, <3>2 DEF LinkedInv, NoDanglingPath
    <3> QED
      BY <3>1, <3>3 DEF LinkedInv, RibType, AllCurrent, BestIsCheapest
  <2>3. ASSUME NEW reached \in SUBSET Origs, NEW res \in [reached -> Routes],
               NEW addfail \in Refusals, NEW delfail \in Refusals,
               CalculateRoutes(reached, res, addfail, delfail)
        PROVE  LinkedInv'
    BY <2>3, CalculateLinks, SMTT(30)
  <2>4. ASSUME NEW delfail \in Refusals, DeleteAllKernelRoutes(delfail)
        PROVE  LinkedInv'
    <3>1. /\ rtversion' = 1 - rtversion /\ ~clean' /\ known' = known /\ route' = route /\ version' = version
          /\ UpdateRoutes(tree, route, version, heads, fib, installed, inetgw,
                          1 - rtversion, {}, delfail)
      BY <2>4 DEF DeleteAllKernelRoutes
    <3>2. /\ tree \in SUBSET Paths /\ route \in [Paths -> Routes] /\ heads \in SUBSET Prefixes
          /\ tree \subseteq known' /\ known \subseteq known' /\ \A x \in tree : x[2] \in heads
          /\ (inetgw # NoOrig => <<inetgw, DefaultDst>> \in known)
      BY <3>1 DEF LinkedInv, RibType, NoDanglingPath
    <3>3. NoDanglingPath' /\ tree' = {x \in tree : version[x] = 1 - rtversion} /\ heads' \subseteq heads
          /\ DOMAIN best' = Prefixes
      BY <3>1, <3>2, UpdateLinks
    <3> QED
      BY <3>1, <3>2, <3>3 DEF LinkedInv, RibType, AllCurrent, BestIsCheapest
  <2>5. ASSUME NEW i \in Ifaces, NEW addfail \in Refusals, NEW delfail \in Refusals,
               DeleteInterfaceRoutes(i, addfail, delfail)
        PROVE  LinkedInv'
    BY <2>5, LossLinks
  <2>6. CASE UNCHANGED vars
    BY <2>6 DEF vars, LinkedInv, RibType, NoDanglingPath, AllCurrent, BestIsCheapest
  <2> QED
    BY <2>1, <2>2, <2>3, <2>4, <2>5, <2>6 DEF Next
<1> QED
  BY <1>1, <1>2

\* No pointer of the RIB dangles, whatever order paths are inserted, deleted,
\* calculated and lost with an interface (olsr_delete_rt_path,
\* olsr_delete_outdated_routes, olsr_delete_interface_routes): for every metric.
THEOREM PointersValid == Spec => []NoDanglingPath
<1>1. LinkedInv => NoDanglingPath
  BY DEF LinkedInv
<1> QED
  BY <1>1, LinkedInductive, PTL DEF Spec

\* A calculation elects, for every prefix, a path of an originator it reached,
\* and none of those is cheaper (olsr_rt_best, olsr_delete_outdated_routes): no
\* path of an earlier calculation survives to be elected, for every metric and
\* after interfaces were lost.
THEOREM ElectsCheapest == Spec => []BestIsCheapest
<1>1. LinkedInv => BestIsCheapest
  BY DEF LinkedInv
<1> QED
  BY <1>1, LinkedInductive, PTL DEF Spec
-----------------------------------------------------------------------------
(* Interfaces that are lost. *)

\* The kernel's table that a head remembers, for any metric.
Table(inst) ==
  [m \in Metrics |-> IF inst.nh # NoHop /\ m = MetricOf(inst.hops) THEN inst.nh ELSE NoHop]

\* The kernel holds what is remembered, or nothing because the interface is gone.
Follows(f, inst, gone) == f = Table(inst) \/ (f = EmptyFib /\ IfaceOf(inst.nh) \in gone)

\* Inductive, when the kernel refuses nothing: it follows the heads, what has no
\* head is not installed, an elected path is the installed one, and no path leads
\* over a lost interface. Without the third, a head that is dropped with its
\* interface could leave a route over another one behind; without the fourth, a
\* next hop that the kernel has lost could look unchanged.
KernelFollows ==
  /\ installed \in [Prefixes -> Installed]
  /\ \A p \in Prefixes : Follows(fib[p], installed[p], down)
  /\ \A p \in Prefixes \ heads : installed[p] = NotInstalled
  /\ \A p \in heads : best[p] # NoOrig => installed[p].nh = route[<<best[p], p>>].nh
  /\ \A x \in tree : IfaceOf(route[x].nh) \notin down

\* Nothing installed is a value of rt_nexthop and rt_metric.
LEMMA NotInstalledType == NotInstalled \in Installed
<1>1. 0 \in Metrics
  BY HopsAssumption DEF Metrics
<1> QED
  BY <1>1 DEF NotInstalled, Installed

\* What is not installed has an empty table.
LEMMA EmptyTable == Table(NotInstalled) = EmptyFib
BY DEF Table, NotInstalled, EmptyFib

\* One metric of a kernel table is changed.
LEMMA ChangesOne ==
  ASSUME NEW f, f = [m \in Metrics |-> f[m]], NEW k \in Metrics, NEW nh
  PROVE  [f EXCEPT ![k] = nh] = [m \in Metrics |-> IF m = k THEN nh ELSE f[m]]
OBVIOUS

\* Deleting what the head remembers empties the kernel's table, whether or not
\* the route was still there.
LEMMA DeleteEmpties ==
  ASSUME NEW f, NEW inst \in Installed, NEW gone, Follows(f, inst, gone)
  PROVE  KernelDel(f, inst) = EmptyFib
<1> DEFINE k == MetricOf(inst.hops)
<1>1. k \in Metrics
  BY HopsAssumption DEF MetricOf, Installed, Metrics
<1> HIDE DEF k
<1>2. CASE f = Table(inst)
  <2>1. f = [m \in Metrics |-> IF inst.nh # NoHop /\ m = k THEN inst.nh ELSE NoHop]
    BY <1>2 DEF Table, k
  <2>2. f = [m \in Metrics |-> f[m]] /\ f[k] = inst.nh /\ \A m \in Metrics \ {k} : f[m] = NoHop
    BY <1>1, <2>1
  <2>3. KernelDel(f, inst) = [f EXCEPT ![k] = NoHop]
    BY <2>2 DEF KernelDel, k
  <2>4. [f EXCEPT ![k] = NoHop] = [m \in Metrics |-> IF m = k THEN NoHop ELSE f[m]]
    BY <1>1, <2>2, ChangesOne
  <2> QED
    BY <2>2, <2>3, <2>4 DEF EmptyFib
<1>3. CASE f = EmptyFib
  <2>1. KernelDel(f, inst) = IF f[k] = inst.nh THEN [f EXCEPT ![k] = NoHop] ELSE f
    BY DEF KernelDel, k
  <2> QED
    BY <1>1, <1>3, <2>1 DEF EmptyFib
<1> QED
  BY <1>2, <1>3 DEF Follows

\* A route that is added to an empty table is the only one in it.
LEMMA AddGivesTable ==
  ASSUME NEW nh \in NextHops, NEW h \in Metrics, NEW inst, inst.nh = nh, inst.hops = h
  PROVE  KernelAdd(EmptyFib, nh, h) = Table(inst)
<1> DEFINE k == MetricOf(h)
<1>1. k \in Metrics /\ nh # NoHop
  BY HopsAssumption DEF MetricOf, Metrics
<1>2. KernelAdd(EmptyFib, nh, h) = [EmptyFib EXCEPT ![k] = nh]
  BY DEF KernelAdd
<1>3. Table(inst) = [m \in Metrics |-> IF m = k THEN nh ELSE NoHop]
  BY <1>1 DEF Table
<1> HIDE DEF k
<1> QED
  BY <1>1, <1>2, <1>3 DEF EmptyFib

\* With flat metrics a route replaces whatever the table held.
LEMMA AddReplaces ==
  ASSUME FibMetric = "FLAT", NEW f, NEW inst \in Installed, NEW gone, Follows(f, inst, gone), NEW nh, NEW h
  PROVE  KernelAdd(f, nh, h) = KernelAdd(EmptyFib, nh, h)
<1>1. MetricOf(h) = 0 /\ MetricOf(inst.hops) = 0 /\ 0 \in Metrics
  BY MetricFlat, HopsAssumption DEF Metrics
<1>2. KernelAdd(f, nh, h) = [f EXCEPT ![0] = nh] /\ KernelAdd(EmptyFib, nh, h) = [EmptyFib EXCEPT ![0] = nh]
  BY <1>1 DEF KernelAdd
<1>3. CASE f = EmptyFib
  BY <1>2, <1>3
<1>4. CASE f = Table(inst)
  <2>1. f = [m \in Metrics |-> IF inst.nh # NoHop /\ m = 0 THEN inst.nh ELSE NoHop]
    BY <1>1, <1>4 DEF Table
  <2>2. f = [m \in Metrics |-> f[m]] /\ \A m \in Metrics \ {0} : f[m] = NoHop
    BY <2>1
  <2>3. [f EXCEPT ![0] = nh] = [m \in Metrics |-> IF m = 0 THEN nh ELSE f[m]]
    BY <1>1, <2>2, ChangesOne
  <2>4. EmptyFib = [m \in Metrics |-> EmptyFib[m]] /\ \A m \in Metrics : EmptyFib[m] = NoHop
    BY DEF EmptyFib
  <2>5. [EmptyFib EXCEPT ![0] = nh] = [m \in Metrics |-> IF m = 0 THEN nh ELSE EmptyFib[m]]
    BY <1>1, <2>4, ChangesOne
  <2> QED
    BY <1>2, <2>2, <2>3, <2>4, <2>5
<1> QED
  BY <1>3, <1>4 DEF Follows

\* The elected path, if any, does not lead over an interface that is gone.
ElectedStays(p, t, rts, gw, gone) ==
  LET r == rts[<<RtBest(t, p, rts, gw), p>>]
  IN  RtBest(t, p, rts, gw) # NoOrig => r \in Routes /\ IfaceOf(r.nh) \notin gone

\* What an update in which nothing is refused makes of one prefix.
Updated(p, t, rts, gw, inst, f) ==
  LET b == RtBest(t, p, rts, gw)
      r == rts[<<b, p>>]
      new == NewInstalled(p, t, rts, gw, inst, {}, {})
      nf == NewFib(p, t, rts, gw, inst, f, {}, {})
  IN  /\ new \in Installed /\ nf = Table(new)
      /\ b = NoOrig => new = NotInstalled
      /\ b # NoOrig => new.nh = r.nh
      /\ b # NoOrig /\ FibMetric # "APPROX" => nf = KernelAdd(EmptyFib, r.nh, r.hops)

\* One prefix through an update in which nothing is refused: afterwards the kernel
\* has what the head remembers, also where a lost interface had emptied it, and
\* that is the elected path; and its metric too, unless metrics are approximate.
LEMMA UpdateFollows ==
  ASSUME LinkLocal = {}, NEW p, NEW t, NEW rts, NEW gw, NEW inst \in Installed, NEW f, NEW gone,
         Follows(f, inst, gone), ElectedStays(p, t, rts, gw, gone)
  PROVE  Updated(p, t, rts, gw, inst, f)
<1> USE DEF ElectedStays, Updated
<1> DEFINE b == RtBest(t, p, rts, gw)
           r == rts[<<b, p>>]
           new == NewInstalled(p, t, rts, gw, inst, {}, {})
           nf == NewFib(p, t, rts, gw, inst, f, {}, {})
<1>0. ~KeepsLinkLocal(p, inst) /\ DeleteSucceeds(p, inst, {}) /\ AddSucceeds(p, r, {})
      /\ AfterDelete(p, f, inst, {}) = KernelDel(f, inst)
  BY Zenon DEF KeepsLinkLocal, DeleteSucceeds, AddSucceeds, AfterDelete
<1>1. CASE b = NoOrig
  <2>1. nf = KernelDel(f, inst) /\ new = NotInstalled
    BY <1>0, <1>1, Zenon DEF NewFib, NewInstalled
  <2>2. NotInstalled \in Installed
    BY NotInstalledType
  <2> HIDE DEF b, new, nf
  <2> QED
    BY <1>1, <2>1, <2>2, DeleteEmpties, EmptyTable, Zenon DEF b, new, nf
<1>2. CASE b # NoOrig
  <2>1. r \in [nh : NextHops, cost : Nat, hops : 1 .. MaxHops] /\ IfaceOf(r.nh) \notin gone
    BY <1>2, RoutesAssumption, SMTT(30)
  <2>2. r.nh \in NextHops /\ r.hops \in Metrics /\ r.nh # NoHop
    BY <2>1, HopsAssumption DEF Metrics
  <2>3. CASE Changed(inst, r)
    <3> DEFINE f1 == IF ActiveDelete /\ inst.nh # NoHop THEN KernelDel(f, inst) ELSE f
               saved == [nh |-> r.nh, hops |-> r.hops]
    <3>1. new = saved /\ nf = KernelAdd(f1, r.nh, r.hops)
      BY <1>0, <1>2, <2>3, Zenon DEF NewInstalled, NewFib
    <3>2. KernelAdd(f1, r.nh, r.hops) = KernelAdd(EmptyFib, r.nh, r.hops)
      <4> HIDE DEF r, b
      <4>1. CASE FibMetric = "FLAT"
        <5>1. f1 = f
          BY <4>1, SMTT(30) DEF ActiveDelete
        <5> QED
          BY <4>1, <5>1, AddReplaces, SMTT(30)
      <4>2. CASE FibMetric # "FLAT" /\ inst.nh # NoHop
        <5>1. f1 = KernelDel(f, inst)
          BY <4>2, SMTT(30) DEF ActiveDelete
        <5> QED
          BY <5>1, DeleteEmpties, SMTT(30)
      <4>3. CASE inst.nh = NoHop
        <5>1. Table(inst) = EmptyFib
          BY <4>3 DEF Table, EmptyFib
        <5>2. f = EmptyFib /\ f1 = f
          BY <4>3, <5>1, SMTT(30) DEF Follows
        <5> QED
          BY <5>2, SMTT(30)
      <4> QED
        BY <4>1, <4>2, <4>3, ZenonT(30)
    <3>3. saved \in Installed /\ saved.nh = r.nh /\ saved.hops = r.hops
      BY <2>2, SMTT(30) DEF Installed
    <3>4. KernelAdd(EmptyFib, r.nh, r.hops) = Table(saved)
      <4> HIDE DEF r, saved
      <4> QED
        BY <2>2, <3>3, AddGivesTable, SMTT(30)
    <3> HIDE DEF f1, saved, new, nf, r, b
    <3>5. new \in Installed /\ nf = Table(new) /\ new.nh = r.nh /\ nf = KernelAdd(EmptyFib, r.nh, r.hops)
      BY <3>1, <3>2, <3>3, <3>4
    <3> QED
      BY <1>2, <3>5, Zenon DEF new, nf, r, b
  <2>4. CASE ~Changed(inst, r)
    <3>1. new = inst /\ nf = f
      BY <1>2, <2>4, ZenonT(30) DEF NewInstalled, NewFib
    <3>2. inst.nh = r.nh /\ (FibMetric = "CORRECT" => inst.hops = r.hops)
      BY <2>4 DEF Changed
    <3>3. f = Table(inst)
      <4> HIDE DEF r
      <4> QED
        BY <2>1, <3>2, SMTT(30) DEF Follows
    <3>4. ASSUME FibMetric # "APPROX" PROVE f = KernelAdd(EmptyFib, r.nh, r.hops)
      <4> DEFINE alike == [nh |-> r.nh, hops |-> r.hops]
      <4>1. KernelAdd(EmptyFib, r.nh, r.hops) = Table(alike)
        <5>1. alike.nh = r.nh /\ alike.hops = r.hops
          BY SMTT(30)
        <5> HIDE DEF alike, r
        <5> QED
          BY <5>1, <2>2, AddGivesTable, SMTT(30)
      <4>2. MetricOf(inst.hops) = MetricOf(r.hops)
        BY <3>2, <3>4, MetricAssumption DEF MetricOf
      <4>3. Table(inst) = Table(alike)
        BY <3>2, <4>2, Zenon DEF Table
      <4> QED
        BY <3>3, <4>1, <4>3, SMTT(30)
    <3> HIDE DEF new, nf, r, b
    <3> QED
      BY <1>2, <3>1, <3>2, <3>3, <3>4, Zenon DEF new, nf, r, b
  <2> QED
    BY <2>3, <2>4, ZenonT(30)
<1> QED
  BY <1>1, <1>2, Zenon


\* A kernel table after its routes over interface i are gone.
Without(f, i) == [m \in Metrics |-> IF f[m] # NoHop /\ IfaceOf(f[m]) = i THEN NoHop ELSE f[m]]

\* The routes over a lost interface leave the kernel: it still follows.
LEMMA LossTable ==
  ASSUME NEW f, NEW inst \in Installed, NEW gone, NEW i, Follows(f, inst, gone)
  PROVE  /\ Follows(Without(f, i), inst, gone \cup {i})
         /\ IfaceOf(inst.nh) = i => Without(f, i) = EmptyFib
<1> DEFINE f0 == Without(f, i)
<1>1. CASE f = EmptyFib
  <2>1. f0 = EmptyFib
    BY <1>1 DEF EmptyFib, Without
  <2> QED
    BY <1>1, <2>1 DEF Follows
<1>2. CASE f = Table(inst) /\ IfaceOf(inst.nh) = i
  <2>1. f0 = EmptyFib
    BY <1>2 DEF Table, EmptyFib, Without
  <2> QED
    BY <1>2, <2>1 DEF Follows
<1>3. CASE f = Table(inst) /\ IfaceOf(inst.nh) # i
  <2>1. \A m \in Metrics : f[m] \in {inst.nh, NoHop}
    BY <1>3 DEF Table
  <2>2. f = [m \in Metrics |-> f[m]]
    BY <1>3 DEF Table
  <2>3. f0 = f
    BY <1>3, <2>1, <2>2 DEF Without
  <2> QED
    BY <1>3, <2>3 DEF Follows
<1> QED
  BY <1>1, <1>2, <1>3 DEF Follows

\* The elected path is one of the tree, and there is none only if there are no
\* paths.
LEMMA BestInTree ==
  ASSUME NEW t \in SUBSET Paths, NEW p \in Prefixes, NEW rts \in [Paths -> Routes], NEW gw
  PROVE  /\ RtBest(t, p, rts, gw) # NoOrig <=> Members(t, p) # {}
         /\ RtBest(t, p, rts, gw) # NoOrig => <<RtBest(t, p, rts, gw), p>> \in t
<1>1. ASSUME Members(t, p) # {} PROVE RtBest(t, p, rts, gw) # NoOrig /\ <<RtBest(t, p, rts, gw), p>> \in t
  <2>1. RtBest(t, p, rts, gw) \in Members(t, p)
    BY <1>1, BestExists, ZenonT(30)
  <2> DEFINE B == RtBest(t, p, rts, gw)
  <2> HIDE DEF B
  <2>2. B \in Origs /\ <<B, p>> \in t
    BY <2>1 DEF Members, B
  <2>3. B # NoOrig
    BY <2>2, OrigsAssumption DEF NoOrig
  <2> QED
    BY <2>2, <2>3 DEF B
<1>2. ASSUME Members(t, p) = {} PROVE RtBest(t, p, rts, gw) = NoOrig
  BY <1>2, SMTT(30) DEF RtBest
<1> QED
  BY <1>1, <1>2

\* A whole update in which nothing is refused, from whatever state an action
\* leaves it, restores the invariant; gone are the interfaces that are lost.
LEMMA UpdateRestores ==
  ASSUME LinkLocal = {}, NEW t0 \in SUBSET Paths, NEW rts \in [Paths -> Routes], NEW ver,
         NEW hd \in SUBSET Prefixes, NEW fib0, NEW inst0 \in [Prefixes -> Installed], NEW v, NEW gone,
         UpdateRoutes(t0, rts, ver, hd, fib0, inst0, inetgw, v, {}, {}),
         \A p \in hd : Follows(fib0[p], inst0[p], gone),
         \A p \in Prefixes \ hd : inst0[p] = NotInstalled /\ fib0[p] = EmptyFib,
         \A x \in AliveTree(t0, ver, v) : IfaceOf(rts[x].nh) \notin gone,
         route' = rts, down' \subseteq gone
  PROVE  KernelFollows' /\ (FibMetric # "APPROX" => CleanRunHeals')
<1> DEFINE t == AliveTree(t0, ver, v)
           B(p) == RtBest(t, p, rts, inetgw)
           R(p) == rts[<<B(p), p>>]
           stays == {p \in hd : HeadStays(p, t, inst0[p], {})}
           NI(p) == NewInstalled(p, t, rts, inetgw, inst0[p], {}, {})
           NF(p) == NewFib(p, t, rts, inetgw, inst0[p], fib0[p], {}, {})
<1>1. /\ tree' = t /\ heads' = stays
      /\ best' = [p \in Prefixes |-> IF p \in stays THEN B(p) ELSE NoOrig]
      /\ installed' = [p \in Prefixes |-> IF p \in hd THEN NI(p) ELSE inst0[p]]
      /\ fib' = [p \in Prefixes |-> IF p \in hd THEN NF(p) ELSE fib0[p]]
  BY Zenon DEF UpdateRoutes
<1>2. t \in SUBSET Paths /\ \A x \in t : IfaceOf(rts[x].nh) \notin gone
  BY DEF AliveTree
<1>3. ASSUME NEW p \in Prefixes, B(p) # NoOrig
      PROVE  R(p) \in Routes /\ IfaceOf(R(p).nh) \notin gone
  <2> HIDE DEF t
  <2>1. <<B(p), p>> \in t
    BY <1>2, <1>3, BestInTree, ZenonT(30)
  <2> HIDE DEF B
  <2> QED
    BY <1>2, <2>1
<1>4. ASSUME NEW p \in hd
      PROVE  /\ NI(p) \in Installed /\ NF(p) = Table(NI(p))
             /\ B(p) = NoOrig => NI(p) = NotInstalled
             /\ B(p) # NoOrig => NI(p).nh = R(p).nh
             /\ B(p) # NoOrig /\ FibMetric # "APPROX" => NF(p) = KernelAdd(EmptyFib, R(p).nh, R(p).hops)
  <2>1. p \in Prefixes /\ inst0[p] \in Installed /\ Follows(fib0[p], inst0[p], gone)
    OBVIOUS
  <2>2. B(p) # NoOrig => R(p) \in Routes /\ IfaceOf(R(p).nh) \notin gone
    BY <1>3, <2>1, Zenon
  <2>3. Updated(p, t, rts, inetgw, inst0[p], fib0[p])
    <3> HIDE DEF t
    <3>1. ElectedStays(p, t, rts, inetgw, gone)
      BY <2>2, Zenon DEF ElectedStays
    <3> QED
      BY <2>1, <3>1, UpdateFollows
  <2> HIDE DEF t
  <2> QED
    BY <2>3, Zenon DEF Updated
<1>5. ASSUME NEW p \in hd PROVE p \in stays <=> B(p) # NoOrig
  <2>1. p \in stays <=> Members(t, p) # {}
    BY DEF HeadStays, DeleteSucceeds
  <2>2. p \in Prefixes
    OBVIOUS
  <2> HIDE DEF t, stays
  <2>3. B(p) # NoOrig => Members(t, p) # {}
    BY DEF RtBest
  <2>4. Members(t, p) # {} => B(p) # NoOrig
    BY <1>2, <2>2, BestInTree, ZenonT(30)
  <2> HIDE DEF B
  <2> QED
    BY <2>1, <2>3, <2>4
<1>6. stays \subseteq hd
  BY SMTT(30)
<1> HIDE DEF t, B, stays, NI, NF
<1>7. ASSUME NEW p \in Prefixes
      PROVE  /\ installed'[p] \in Installed /\ fib'[p] = Table(installed'[p])
             /\ p \notin heads' => installed'[p] = NotInstalled
  <2>1. CASE p \in hd
    <3>1. installed'[p] = NI(p) /\ fib'[p] = NF(p)
      BY <1>1, <2>1
    <3>2. NI(p) \in Installed /\ NF(p) = Table(NI(p)) /\ (B(p) = NoOrig => NI(p) = NotInstalled)
      BY <1>4, <2>1, Zenon
    <3>3. p \notin heads' => B(p) = NoOrig
      BY <1>1, <1>5, <2>1
    <3> QED
      BY <3>1, <3>2, <3>3
  <2>2. CASE p \notin hd
    <3>1. installed'[p] = inst0[p] /\ fib'[p] = fib0[p]
      BY <1>1, <2>2
    <3>2. inst0[p] = NotInstalled /\ fib0[p] = EmptyFib /\ inst0[p] \in Installed
      BY <2>2
    <3> QED
      BY <3>1, <3>2, EmptyTable, Zenon
  <2> QED
    BY <2>1, <2>2, SMTT(30)
<1>8. installed' \in [Prefixes -> Installed]
  BY <1>1, <1>7
<1>9. \A p \in heads' : best'[p] # NoOrig => installed'[p].nh = route'[<<best'[p], p>>].nh
  BY <1>1, <1>4, <1>5, <1>6, Zenon
<1>10. \A x \in tree' : IfaceOf(route'[x].nh) \notin down'
  BY <1>1, <1>2
<1>11. KernelFollows'
  BY <1>7, <1>8, <1>9, <1>10, ZenonT(30) DEF KernelFollows, Follows
<1>12. ASSUME FibMetric # "APPROX", NEW p \in Prefixes PROVE fib'[p] = Wanted(p)'
  <2>1. CASE p \in stays
    <3>1. best'[p] = B(p) /\ B(p) # NoOrig /\ fib'[p] = NF(p)
      BY <1>1, <1>5, <1>6, <2>1, SMTT(30)
    <3>2. Wanted(p)' = KernelAdd(EmptyFib, R(p).nh, R(p).hops)
      BY <3>1 DEF Wanted
    <3> QED
      BY <1>4, <1>6, <1>12, <2>1, <3>1, <3>2, Zenon
  <2>2. CASE p \notin stays
    <3>1. best'[p] = NoOrig
      BY <1>1, <2>2
    <3>2. installed'[p] = NotInstalled
      BY <1>1, <1>7, <2>2
    <3> QED
      BY <1>7, <3>1, <3>2, EmptyTable, Zenon DEF Wanted
  <2> QED
    BY <2>1, <2>2
<1> QED
  BY <1>11, <1>12 DEF CleanRunHeals

\* The inductive invariant of the theorems below.
KernelInv == LinkedInv /\ KernelFollows /\ (FibMetric # "APPROX" => CleanRunHeals)

\* Prefixes without a head have nothing in the kernel.
LEMMA HeadlessEmpty ==
  ASSUME KernelFollows, NEW p \in Prefixes \ heads
  PROVE  installed[p] = NotInstalled /\ fib[p] = EmptyFib
<1>1. installed[p] = NotInstalled /\ Follows(fib[p], installed[p], down)
  BY DEF KernelFollows
<1> QED
  BY <1>1, EmptyTable, SMTT(30) DEF Follows

\* A calculation brings the kernel up to date.
LEMMA CalculateRestores ==
  ASSUME LinkLocal = {}, KernelInv, NEW reached \in SUBSET Origs, NEW res \in [reached -> Routes],
         CalculateRoutes(reached, res, {}, {})
  PROVE  KernelFollows' /\ (FibMetric # "APPROX" => CleanRunHeals')
<1> DEFINE v == 1 - rtversion
           hit == {x \in known : x[1] \in reached}
           rts == [x \in Paths |-> IF x \in hit THEN res[x[1]] ELSE route[x]]
           ver == [x \in Paths |-> IF x \in hit THEN v ELSE version[x]]
           hd == heads \cup {x[2] : x \in hit}
<1>1. /\ route' = rts /\ down' = {} /\ \A o \in reached : IfaceOf(res[o].nh) \notin down
      /\ UpdateRoutes(tree \cup hit, rts, ver, hd, fib, installed, inetgw, v, {}, {})
  BY Zenon DEF CalculateRoutes
<1>2. hd \in SUBSET Prefixes /\ heads \subseteq hd /\ tree \cup hit \in SUBSET Paths
  BY DEF KernelInv, LinkedInv, RibType, Paths
<1>3. rts \in [Paths -> Routes] /\ v # rtversion
  BY DEF KernelInv, LinkedInv, RibType
<1>4. ASSUME NEW x \in AliveTree(tree \cup hit, ver, v) PROVE IfaceOf(rts[x].nh) \notin down
  <2>1. x \in tree \cup hit /\ ver[x] = v /\ x \in Paths
    BY <1>2, SMTT(30) DEF AliveTree
  <2>2. x \in hit
    <3>1. x \notin hit => ver[x] = version[x] /\ version[x] = rtversion
      BY <2>1 DEF KernelInv, LinkedInv, AllCurrent
    <3> QED
      BY <1>3, <2>1, <3>1, SMTT(30)
  <2>3. rts[x] = res[x[1]] /\ x[1] \in reached
    BY <2>1, <2>2, SMTT(30)
  <2> QED
    BY <1>1, <2>3, ZenonT(30)
<1>5. \A p \in hd : Follows(fib[p], installed[p], down)
  BY <1>2, SMTT(30) DEF KernelInv, KernelFollows
<1>6. \A p \in Prefixes \ hd : installed[p] = NotInstalled /\ fib[p] = EmptyFib
  BY <1>2, HeadlessEmpty DEF KernelInv
<1>7. installed \in [Prefixes -> Installed] /\ down' \subseteq down
  BY <1>1, Zenon DEF KernelInv, KernelFollows
<1> HIDE DEF v, hit, rts, ver, hd
<1> QED
  BY <1>1, <1>2, <1>3, <1>4, <1>5, <1>6, <1>7, UpdateRestores, ZenonT(60)

\* At shutdown the kernel is emptied, also of what it had lost.
LEMMA ShutdownRestores ==
  ASSUME LinkLocal = {}, KernelInv, DeleteAllKernelRoutes({})
  PROVE  KernelFollows' /\ (FibMetric # "APPROX" => CleanRunHeals')
<1> DEFINE v == 1 - rtversion
<1>1. /\ route' = route /\ down' = down
      /\ UpdateRoutes(tree, route, version, heads, fib, installed, inetgw, v, {}, {})
  BY DEF DeleteAllKernelRoutes
<1>2. heads \in SUBSET Prefixes /\ tree \in SUBSET Paths /\ route \in [Paths -> Routes] /\ v # rtversion
  BY DEF KernelInv, LinkedInv, RibType
<1>3. \A x \in AliveTree(tree, version, v) : IfaceOf(route[x].nh) \notin down
  BY DEF AliveTree, KernelInv, KernelFollows
<1>4. \A p \in heads : Follows(fib[p], installed[p], down)
  BY <1>2 DEF KernelInv, KernelFollows
<1>5. \A p \in Prefixes \ heads : installed[p] = NotInstalled /\ fib[p] = EmptyFib
  BY HeadlessEmpty, SMTT(30) DEF KernelInv
<1>6. installed \in [Prefixes -> Installed] /\ down' \subseteq down
  BY <1>1 DEF KernelInv, KernelFollows
<1> HIDE DEF v
<1> QED
  BY <1>1, <1>2, <1>3, <1>4, <1>5, <1>6, UpdateRestores, ZenonT(60)

\* The loss of an interface: the heads whose elected path is lost are pushed
\* anew or dropped, and a head that is dropped had its kernel route over the
\* interface that took the route along.
LEMMA LossRestores ==
  ASSUME LinkLocal = {}, KernelInv, NEW i \in Ifaces, DeleteInterfaceRoutes(i, {}, {})
  PROVE  KernelFollows'
<1> DEFINE lost == {x \in tree : IfaceOf(route[x].nh) = i}
           t == tree \ lost
           hit == {p \in heads : best[p] # NoOrig /\ <<best[p], p>> \in lost}
           emptied == Emptied(hit, t)
           fib0 == [p \in Prefixes |-> [m \in Metrics |->
                      IF fib[p][m] # NoHop /\ IfaceOf(fib[p][m]) = i THEN NoHop ELSE fib[p][m]]]
           inst0 == [p \in Prefixes |-> IF p \in emptied THEN NotInstalled ELSE installed[p]]
           gone == down \cup {i}
<1>1. /\ route' = route /\ down' = gone
      /\ IF hit # {}
           THEN UpdateRoutes(t, route, version, heads \ emptied, fib0, inst0, inetgw,
                             rtversion, {}, {})
           ELSE tree' = t /\ fib' = fib0 /\ UNCHANGED <<heads, best, installed, inetgw>>
  BY Zenon DEF DeleteInterfaceRoutes
<1>2. /\ heads \in SUBSET Prefixes /\ t \in SUBSET Paths /\ route \in [Paths -> Routes]
      /\ installed \in [Prefixes -> Installed]
  BY DEF KernelInv, LinkedInv, RibType, KernelFollows
<1>3. \A x \in t : IfaceOf(route[x].nh) \notin gone
  BY SMTT(30) DEF KernelInv, KernelFollows
<1>4. emptied \subseteq heads /\ \A p \in emptied : best[p] # NoOrig /\ IfaceOf(route[<<best[p], p>>].nh) = i
  BY SMTT(30) DEF Emptied
<1> HIDE DEF t, hit, emptied
<1>5. ASSUME NEW p \in Prefixes
      PROVE  Follows(fib0[p], installed[p], gone) /\ (IfaceOf(installed[p].nh) = i => fib0[p] = EmptyFib)
  <2>1. Follows(fib[p], installed[p], down) /\ installed[p] \in Installed
    BY <1>2 DEF KernelInv, KernelFollows
  <2>2. fib0[p] = Without(fib[p], i)
    BY DEF Without
  <2>3. /\ Follows(Without(fib[p], i), installed[p], gone)
        /\ IfaceOf(installed[p].nh) = i => Without(fib[p], i) = EmptyFib
    BY <2>1, LossTable, SMTT(30)
  <2> HIDE DEF fib0, gone
  <2> QED
    BY <2>2, <2>3
<1>6. ASSUME NEW p \in Prefixes \ (heads \ emptied) PROVE inst0[p] = NotInstalled /\ fib0[p] = EmptyFib
  <2>1. CASE p \in emptied
    <3>1. installed[p].nh = route[<<best[p], p>>].nh
      BY <1>4, <2>1 DEF KernelInv, KernelFollows
    <3> HIDE DEF fib0
    <3> QED
      BY <1>4, <1>5, <2>1, <3>1, SMTT(30)
  <2>2. CASE p \notin emptied
    <3>1. installed[p] = NotInstalled
      BY <2>2 DEF KernelInv, KernelFollows
    <3>2. Follows(fib0[p], installed[p], gone)
      <4> HIDE DEF fib0, gone
      <4> QED
        BY <1>5
    <3>3. inst0[p] = installed[p]
      BY <2>2
    <3> HIDE DEF fib0, inst0, gone
    <3> QED
      BY <3>1, <3>2, <3>3, EmptyTable DEF Follows
  <2> QED
    BY <2>1, <2>2, SMTT(30)
<1>7. inst0 \in [Prefixes -> Installed]
  <2>1. NotInstalled \in Installed
    BY NotInstalledType, SMTT(30)
  <2> QED
    BY <1>2, <2>1
<1>8. ASSUME NEW p \in heads \ emptied PROVE Follows(fib0[p], inst0[p], gone)
  <2>1. inst0[p] = installed[p] /\ p \in Prefixes
    BY <1>2
  <2> HIDE DEF fib0, inst0, gone
  <2> QED
    BY <1>5, <2>1
<1> HIDE DEF fib0, inst0, gone
<1>9. CASE hit # {}
  <2>1. \A x \in AliveTree(t, version, rtversion) : IfaceOf(route[x].nh) \notin gone
    BY <1>3 DEF AliveTree
  <2>2. UpdateRoutes(t, route, version, heads \ emptied, fib0, inst0, inetgw, rtversion, {}, {})
    BY <1>1, <1>9, SMTT(30)
  <2> QED
    BY <1>1, <1>2, <1>6, <1>7, <1>8, <2>1, <2>2, UpdateRestores, ZenonT(60)
<1>10. CASE hit = {}
  <2>1. tree' = t /\ fib' = fib0 /\ heads' = heads /\ best' = best /\ installed' = installed
    BY <1>1, <1>10
  <2>2. \A p \in Prefixes : Follows(fib'[p], installed'[p], down')
    BY <1>1, <1>5, <2>1, Zenon
  <2> QED
    BY <1>1, <1>3, <2>1, <2>2 DEF KernelInv, KernelFollows
<1> QED
  BY <1>9, <1>10

\* When nothing is refused and no prefix is link-local, the invariant holds
\* initially and every step preserves it.
LEMMA KernelInvInductive ==
  ASSUME KernelFails = FALSE, LinkLocal = {}
  PROVE  /\ Init => KernelInv
         /\ KernelInv /\ [Next]_vars => KernelInv'
<1>1. Init => KernelInv
  <2> SUFFICES ASSUME Init PROVE KernelInv
    OBVIOUS
  <2>1. NotInstalled \in Installed
    BY NotInstalledType
  <2>2. KernelFollows
    BY <2>1, EmptyTable DEF Init, KernelFollows, Follows
  <2> QED
    BY <2>2, LinkedInductive DEF Init, KernelInv, CleanRunHeals
<1>2. KernelInv /\ [Next]_vars => KernelInv'
  <2> SUFFICES ASSUME KernelInv, [Next]_vars PROVE KernelInv'
    OBVIOUS
  <2>1. LinkedInv'
    BY LinkedInductive DEF KernelInv
  <2>2. Refusals = {{}}
    BY DEF Refusals
  <2>3. ASSUME NEW o \in Origs, NEW p \in Prefixes, InsertRoutingTable(o, p)
        PROVE  KernelInv'
    <3>1. KernelFollows'
      BY <2>3 DEF KernelInv, KernelFollows, InsertRoutingTable
    <3> QED
      BY <2>1, <2>3, <3>1, SMTT(30) DEF KernelInv, InsertRoutingTable, CleanRunHeals
  <2>4. ASSUME NEW o \in Origs, NEW p \in Prefixes, DeleteRtPath(o, p)
        PROVE  KernelInv'
    <3>1. /\ ~clean' /\ tree' \subseteq tree
          /\ best' = [best EXCEPT ![p] = IF @ = o THEN NoOrig ELSE @]
          /\ fib' = fib /\ installed' = installed /\ heads' = heads /\ route' = route /\ down' = down
      BY <2>4 DEF DeleteRtPath
    <3>2. \A q \in heads : best'[q] # NoOrig => best'[q] = best[q]
      BY <3>1, SMTT(30) DEF KernelInv, LinkedInv, RibType
    <3>3. KernelFollows'
      BY <3>1, <3>2 DEF KernelInv, KernelFollows
    <3> QED
      BY <2>1, <3>1, <3>3, SMTT(30) DEF KernelInv, CleanRunHeals
  <2>5. ASSUME NEW reached \in SUBSET Origs, NEW res \in [reached -> Routes],
               NEW addfail \in Refusals, NEW delfail \in Refusals,
               CalculateRoutes(reached, res, addfail, delfail)
        PROVE  KernelInv'
    <3>1. CalculateRoutes(reached, res, {}, {})
      BY <2>2, <2>5
    <3> QED
      BY <2>1, <3>1, CalculateRestores, Zenon DEF KernelInv
  <2>6. ASSUME NEW delfail \in Refusals, DeleteAllKernelRoutes(delfail)
        PROVE  KernelInv'
    <3>1. DeleteAllKernelRoutes({})
      <4>1. delfail = {}
        BY <2>2
      <4> QED
        BY <2>6, <4>1, Zenon
    <3> QED
      BY <2>1, <3>1, ShutdownRestores, Zenon DEF KernelInv
  <2>7. ASSUME NEW i \in Ifaces, NEW addfail \in Refusals, NEW delfail \in Refusals,
               DeleteInterfaceRoutes(i, addfail, delfail)
        PROVE  KernelInv'
    <3>1. DeleteInterfaceRoutes(i, {}, {})
      BY <2>2, <2>7
    <3>2. clean' = FALSE
      BY <3>1, Zenon DEF DeleteInterfaceRoutes
    <3>3. KernelFollows'
      BY <3>1, LossRestores
    <3> QED
      BY <2>1, <3>2, <3>3 DEF KernelInv, CleanRunHeals
  <2>8. CASE UNCHANGED vars
    <3>1. KernelFollows'
      BY <2>8 DEF vars, KernelInv, KernelFollows
    <3>2. CleanRunHeals => CleanRunHeals'
      BY <2>8 DEF vars, CleanRunHeals, Wanted
    <3> QED
      BY <2>1, <3>1, <3>2, SMTT(30) DEF KernelInv
  <2> QED
    BY <2>3, <2>4, <2>5, <2>6, <2>7, <2>8 DEF Next
<1> QED
  BY <1>1, <1>2

\* A head with an elected path and a remembered next hop has that route in the
\* kernel, and no kernel route is forgotten, with every metric and although
\* interfaces go with their routes, where the kernel refuses nothing
\* (olsr_delete_interface_routes, olsr_update_rib_routes,
\* olsr_update_kernel_routes).
THEOREM TracksLoss ==
  ASSUME KernelFails = FALSE, LinkLocal = {} PROVE Spec => [](InstalledIsInKernel /\ NoOrphanRoute)
<1>1. ASSUME KernelInv PROVE InstalledIsInKernel
  <2> SUFFICES ASSUME NEW p \in heads, best[p] # NoOrig, installed[p].nh # NoHop
               PROVE  fib[p][MetricOf(installed[p].hops)] = installed[p].nh
    BY DEF InstalledIsInKernel
  <2>1. p \in Prefixes /\ <<best[p], p>> \in tree
    BY <1>1, SMTT(30) DEF KernelInv, LinkedInv, RibType, NoDanglingPath
  <2>2. IfaceOf(installed[p].nh) \notin down /\ Follows(fib[p], installed[p], down)
        /\ installed[p] \in Installed
    BY <1>1, <2>1 DEF KernelInv, KernelFollows
  <2>3. fib[p] = Table(installed[p])
    BY <2>2 DEF Follows
  <2>4. MetricOf(installed[p].hops) \in Metrics
    BY <2>2, HopsAssumption DEF MetricOf, Installed, Metrics
  <2> QED
    BY <2>3, <2>4 DEF Table
<1>2. ASSUME KernelInv PROVE NoOrphanRoute
  <2> SUFFICES ASSUME NEW p \in Prefixes, NEW m \in Metrics, fib[p][m] # NoHop
               PROVE  /\ p \in heads
                      /\ installed[p].nh = fib[p][m] /\ MetricOf(installed[p].hops) = m
    BY DEF NoOrphanRoute
  <2>1. fib[p] # EmptyFib
    BY SMTT(30) DEF EmptyFib
  <2>2. p \in heads /\ fib[p] = Table(installed[p])
    BY <1>2, <2>1, HeadlessEmpty DEF KernelInv, KernelFollows, Follows
  <2> QED
    BY <2>2 DEF Table
<1> QED
  BY <1>1, <1>2, KernelInvInductive, PTL DEF Spec

\* Under the same conditions a calculation leaves the kernel with exactly the
\* elected routes, whatever interfaces took with them before, with flat and with
\* correct metrics (olsr_nh_change, olsr_hopcount_change): no next hop looks
\* unchanged that the kernel has lost.
THEOREM HealsLoss ==
  ASSUME KernelFails = FALSE, LinkLocal = {}, FibMetric # "APPROX" PROVE Spec => []CleanRunHeals
<1>1. KernelInv => CleanRunHeals
  BY DEF KernelInv
<1> QED
  BY <1>1, KernelInvInductive, PTL DEF Spec
=============================================================================
