------------------------------ MODULE Gateway ------------------------------
(***************************************************************************)
(* Smart gateways (gateway.c, gateway_list.c, gateway_default_handler.c,   *)
(* linux/kernel_tunnel.c): the tree of the gateways that other nodes       *)
(* announce in their HNA messages, the choice of one of them as the        *)
(* current gateway of an address family, and the tunnels, interface names  *)
(* and default routes that the choice needs in the kernel.                 *)
(*                                                                         *)
(* olsrd runs one handler at a time: every action is a whole handler, a    *)
(* chain of functions from State to State.  The addresses of gateways are  *)
(* members of Gateways, in the order Rank of the AVL tree.  A gateway cost *)
(* is its path cost: gw_costs_weigh keeps the order of path costs.         *)
(***************************************************************************)
EXTENDS Naturals, Sequences, FiniteSets, FiniteSetsExt

CONSTANTS
  Gateways,       (* originators that may announce themselves             *)
  Rank,           (* Gateways -> Nat, the order of gateway_tree           *)
  None,           (* a NULL pointer                                       *)
  Freed,          (* a pointer to a container that has been freed         *)
  Broken,         (* ROUTE_COST_BROKEN                                    *)
  Configurations, (* the values olsr_cnf may have                         *)
  Topologies,     (* what SPF may find: path costs of the TC entries      *)
  Inf,            (* INT64_MAX, above every cost                          *)
  MaxHnas,        (* bound: HNA messages received                         *)
  MaxSpfs,        (* bound: changes of the topology                       *)
  MaxFailures     (* bound: tunnels the kernel refuses to add          *)

Family == {"v4", "v6"}

Hnas == [v4 : BOOLEAN, nat : BOOLEAN, v6 : BOOLEAN, bandwidth : BOOLEAN]

ASSUME GatewaysAssumption ==
  /\ IsFiniteSet(Gateways) /\ Rank \in [Gateways -> Nat]
  /\ None \notin Gateways /\ Freed \notin Gateways \cup {None}
  /\ Inf \in Nat
  /\ Topologies \subseteq [Gateways -> Nat \cup {None, Broken}]

(* What olsrd_sanity_check_cnf lets through: several gateways of one       *)
(* family are for IPv4 only.                                               *)
ASSUME ConfigurationsAssumption ==
  \A c \in Configurations :
    /\ c.use_count \in Nat /\ c.use_count > 0 /\ c.stablecount \in Nat
    /\ c.families \subseteq Family /\ (c.use_count > 1 => c.families \subseteq {"v4"})
    /\ \A g \in Gateways : c.hnas[g] \subseteq Hnas

VARIABLES
  olsr_cnf,    (* the configuration: families, use_count, thresh, ...     *)
  tc,          (* path cost of the TC entry of each gateway: a cost,      *)
               (* Broken, or None when there is no TC entry               *)
  tree,        (* gateway_tree: originator -> gateway_entry               *)
  list,        (* gw_list_ipv4 and gw_list_ipv6, best gateway first       *)
  current,     (* current_ipv4_gw and current_ipv6_gw                     *)
  tunnel,      (* usage of the tunnel to each gateway (tunnel_tree)       *)
  names,       (* sgwTunnel4InterfaceNames[i].gw                          *)
  route,       (* the default route in rt_table_tunnel, by its gateway    *)
  want,        (* gw_def_choose_new_ipv4_gw and gw_def_choose_new_ipv6_gw *)
  timer,       (* gw_def_timer is running                                 *)
  nodecount,   (* gw_def_nodecount                                        *)
  stablecount, (* gw_def_stablecount                                      *)
  left,        (* the HNAs, SPF runs and tunnel failures still to come    *)
  phase        (* "start", "run", "exit"                                  *)

vars == <<olsr_cnf, tc, tree, list, current, tunnel, names, route, want, timer,
          nodecount, stablecount, left, phase>>

(* The families olsr_set_inet_gateway accepts: ipv4 with AF_INET or NIIT,  *)
(* ipv6 with AF_INET6.                                                     *)
Families == olsr_cnf.families
Multi == olsr_cnf.use_count > 1
Slots == 1 .. (IF Multi THEN olsr_cnf.use_count ELSE 0)

Entries == [v4 : BOOLEAN, nat : BOOLEAN, v6 : BOOLEAN, path_cost : Nat,
            expire_timer : BOOLEAN, cleanup_timer : BOOLEAN]

State == [tc |-> tc, tree |-> tree, list |-> list, current |-> current, tunnel |-> tunnel,
          names |-> names, route |-> route, want |-> want, timer |-> timer,
          nodecount |-> nodecount, stablecount |-> stablecount, broken |-> FALSE]

Become(s) ==
  /\ tc' = s.tc /\ tree' = s.tree /\ list' = s.list /\ current' = s.current
  /\ tunnel' = s.tunnel /\ names' = s.names /\ route' = s.route /\ want' = s.want
  /\ timer' = s.timer /\ nodecount' = s.nodecount /\ stablecount' = s.stablecount

(* tc_tree.count: this node and the gateways that have a TC entry.         *)
TcCount(s) == 1 + Cardinality({g \in Gateways : s.tc[g] # None})

(* gw_default_getcosts: infinite without a TC entry or with a broken path. *)
GetCosts(s, g) == IF s.tc[g] \in {None, Broken} THEN Inf ELSE s.tc[g]

(* isGwSelectable *)
IsGwSelectable(e, f) ==
  /\ f \in Families
  /\ IF f = "v4" THEN e.v4 /\ (olsr_cnf.allow_nat \/ ~e.nat) ELSE e.v6

(* olsr_gw_list_add: before the first entry that does not cost less.       *)
GwListAdd(l, g, t) ==
  LET dearer == {i \in DOMAIN l : t[g].path_cost <= t[l[i]].path_cost}
      i == IF dearer = {} THEN Len(l) + 1 ELSE Min(dearer)
  IN  SubSeq(l, 1, i - 1) \o <<g>> \o SubSeq(l, i, Len(l))

(* olsr_gw_list_remove, for a gateway that is on the list *)
GwListRemove(l, g) ==
  LET i == CHOOSE i \in DOMAIN l : l[i] = g
  IN  SubSeq(l, 1, i - 1) \o SubSeq(l, i + 1, Len(l))

(* olsr_gw_list_update *)
GwListUpdate(l, g, t) == GwListAdd(GwListRemove(l, g), g, t)

GwListFind(s, f, g) == g \in Range(s.list[f])

(* olsr_gw_list_get_worst_entry *)
Worst(l) == l[Len(l)]

----------------------------------------------------------------------------
(* Tunnels (external: what the kernel does when told to)                   *)

(* olsr_os_del_ipip_tunnel: the last user takes the interface away, and    *)
(* the kernel the routes through it.                                       *)
DelTunnel(s, g) ==
  [s EXCEPT !.tunnel[g] = @ - 1,
            !.route = [f \in Family |-> IF @[f] = g /\ s.tunnel[g] = 1 THEN None ELSE @[f]]]

(* set_unused_iptunnel_name: the first name that the gateway holds.        *)
SetUnusedName(s, g) ==
  LET held == {i \in Slots : s.names[i] = g}
  IN  IF held = {} THEN s ELSE [s EXCEPT !.names[Min(held)] = None]

(* removeGatewayFromList: a pointer to the container is left behind.       *)
RemoveGatewayFromList(s, f, g) ==
  LET r == SetUnusedName(DelTunnel(s, g), g)
  IN  [r EXCEPT !.list[f] = GwListRemove(@, g), !.current[f] = IF @ = g THEN Freed ELSE @]

(* olsr_os_add_ipip_tunnel with the name get_unused_iptunnel_name gives:   *)
(* the first free one, or one made of the address when none is free.       *)
AddTunnel(s, g) ==
  LET free == {i \in Slots : s.names[i] = None}
      r == IF free = {} THEN s ELSE [s EXCEPT !.names[Min(free)] = g]
  IN  [r EXCEPT !.tunnel[g] = @ + 1]

(* olsr_set_inet_gateway for one family.  When the kernel refuses the      *)
(* tunnel the worst gateway has already been removed to make place.  The   *)
(* branch for a gateway that is on the list passes ipv4 = true for both    *)
(* families; with IPv6 the use count is 1 and it is not taken.             *)
SetInetGateway(s, f, g) ==
  IF ~IsGwSelectable(s.tree[g], f) \/ s.current[f] = g THEN s
  ELSE IF GwListFind(s, f, g)
       THEN [s EXCEPT !.current[f] = g, !.route["v4"] = g]
  ELSE LET t == IF Len(s.list[f]) >= olsr_cnf.use_count
                THEN RemoveGatewayFromList(s, f, Worst(s.list[f])) ELSE s
           u == AddTunnel(t, g)
       IN  IF s.broken /\ t.tunnel[g] = 0 THEN [t EXCEPT !.broken = FALSE]
           ELSE [u EXCEPT !.list[f] = GwListAdd(@, g, s.tree), !.current[f] = g, !.route[f] = g]

----------------------------------------------------------------------------
(* The default handler                                                     *)

(* gw_default_calc_threshold.  INT64_MAX times the percentage overflows:   *)
(* the product wraps to a number no cost is below.                         *)
Threshold(c) == IF c = Inf THEN 0 ELSE (c * olsr_cnf.thresh + 50) \div 100

(* Mutant: any cheaper gateway will do.                                    *)
CheapEnoughCheaper(s, f, g) ==
  \/ s.current[f] \notin DOMAIN s.tree
  \/ s.tree[g].path_cost < s.tree[s.current[f]].path_cost

CheapEnough(s, f, g) ==
  \/ olsr_cnf.thresh = 0
  \/ s.current[f] \notin DOMAIN s.tree
  \/ s.tree[g].path_cost < Threshold(s.tree[s.current[f]].path_cost)

(* The gateway that gw_default_choose_gateway finds for a family: the      *)
(* cheapest, the first of the tree among equals.                           *)
Chosen(s, f) ==
  LET fit == {g \in DOMAIN s.tree : /\ s.want[f] /\ s.tree[g].path_cost # Inf
                                    /\ IsGwSelectable(s.tree[g], f) /\ CheapEnough(s, f, g)}
      best == {g \in fit : \A h \in fit : \/ s.tree[g].path_cost < s.tree[h].path_cost
                                          \/ /\ s.tree[g].path_cost = s.tree[h].path_cost
                                             /\ Rank[g] <= Rank[h]}
  IN  IF fit = {} THEN None ELSE CHOOSE g \in best : TRUE

SetChosen(s, f, g) == IF g = None THEN s ELSE SetInetGateway(s, f, g)

(* gw_default_choose_gateway: the request is dropped before the tunnel is  *)
(* there, and the answer of olsr_set_inet_gateway is not looked at.        *)
ChooseGateway(s) ==
  LET looking == [f \in Family |-> s.want[f] /\ Chosen(s, f) = None]
      t == SetChosen(SetChosen([s EXCEPT !.want = looking], "v4", Chosen(s, "v4")),
                     "v6", Chosen(s, "v6"))
  IN  [t EXCEPT !.timer = @ /\ ~(olsr_cnf.thresh = 0 /\ \A f \in Family : ~looking[f])]

Wanting(s) == \E f \in Family : s.want[f]

(* gw_default_lookup_gateway *)
LookupGateway(s, fs) ==
  LET t == [s EXCEPT !.want = [f \in Family |-> IF f \in fs THEN f \in Families ELSE @[f]]]
  IN  IF Wanting(t) THEN ChooseGateway(t) ELSE t

(* gw_default_startup_handler *)
StartupHandler(s) ==
  [s EXCEPT !.nodecount = TcCount(s), !.stablecount = 0, !.timer = TRUE,
            !.want = [f \in Family |-> f \in Families \ olsr_cnf.own]]

(* Mutant: nobody waits for a better moment.                               *)
ChooseHandlerOnce(s, fs) == LookupGateway(s, fs)

(* gw_default_choosegw_handler *)
KeepLooking(s) == IF Wanting(s) THEN StartupHandler(s) ELSE s
ChooseHandler(s, fs) == KeepLooking(LookupGateway(s, fs))

(* gw_default_update_handler *)
UpdateHandler(s, g) ==
  LET changed == {f \in Family : s.current[f] = g /\ ~IsGwSelectable(s.tree[g], f)}
  IN  IF olsr_cnf.thresh # 0 THEN LookupGateway(s, Family)
      ELSE IF changed = {} THEN s ELSE LookupGateway(s, changed)

(* gw_default_delete_handler *)
DeleteHandler(s, g) ==
  LET lost == {f \in Family : s.current[f] = g}
  IN  IF lost = {} THEN s ELSE LookupGateway(s, lost)

(* gw_default_timer: choose when the number of nodes has been stable.      *)
TimerHandler(s) ==
  LET count == TcCount(s)
      near == 9 * s.nodecount <= 10 * count /\ 10 * count <= 11 * s.nodecount
      t == IF near \/ count = s.nodecount
           THEN [s EXCEPT !.nodecount = count,
                          !.stablecount = Min({@ + 1, olsr_cnf.stablecount})]
           ELSE [s EXCEPT !.nodecount = count, !.stablecount = 0]
  IN  IF t.stablecount >= olsr_cnf.stablecount THEN ChooseGateway(t) ELSE t

----------------------------------------------------------------------------
(* The gateway tree                                                        *)

(* Mutant: keeps the name of the interface.                                *)
UnlistKeepsName(s, f, g) ==
  IF ~GwListFind(s, f, g) THEN s
  ELSE LET lost == s.current[f] = g
       IN  DelTunnel([s EXCEPT !.current[f] = IF lost THEN None ELSE @,
                               !.route[f] = IF lost /\ @ = g THEN None ELSE @,
                               !.list[f] = GwListRemove(@, g)], g)

(* What olsr_delete_gateway_tree_entry takes from the lists of a family.   *)
Unlist(s, f, g) ==
  IF ~GwListFind(s, f, g) THEN s
  ELSE LET lost == s.current[f] = g
           t == [s EXCEPT !.current[f] = IF lost THEN None ELSE @,
                          !.route[f] = IF lost /\ @ = g THEN None ELSE @,
                          !.list[f] = GwListRemove(@, g)]
       IN  SetUnusedName(DelTunnel(t, g), g)

Without(t, g) == [h \in DOMAIN t \ {g} |-> t[h]]

(* cleanup_gateway_handler *)
CleanupHandler(s, g) ==
  IF s.tree[g].v4 \/ s.tree[g].v6 THEN s ELSE [s EXCEPT !.tree = Without(@, g)]

Mute(s, g) == [s EXCEPT !.tree[g] = [@ EXCEPT !.v4 = FALSE, !.nat = FALSE, !.v6 = FALSE]]

Retire(s, g, immediate) ==
  IF immediate THEN CleanupHandler(s, g)
  ELSE [s EXCEPT !.tree[g] = [@ EXCEPT !.cleanup_timer = TRUE]]

ChooseAgain(s) ==
  LET free == {f \in Family : s.current[f] = None}
  IN  IF free = {} THEN s ELSE ChooseHandler(s, free)

(* The removal of a gateway that offers nothing any more.                  *)
DropGateway(s, g, immediate) ==
  ChooseAgain(Retire(Unlist(Unlist(DeleteHandler(Mute(s, g), g), "v4", g), "v6", g),
                     g, immediate))

(* olsr_delete_gateway_tree_entry.  The prefix is that of family "v4" or   *)
(* "v6", "other", or "force" (FORCE_DELETE_GW_ENTRY).                      *)
DeleteGatewayEntry(s, g, prefix, immediate) ==
  IF g \notin DOMAIN s.tree THEN s
  ELSE LET e == [s.tree[g] EXCEPT !.expire_timer = FALSE,
                                  !.cleanup_timer = @ /\ ~immediate]
           cut == [e EXCEPT !.v4 = @ /\ prefix # "v4", !.nat = @ /\ prefix # "v4",
                            !.v6 = @ /\ prefix # "v6"]
           t == [s EXCEPT !.tree[g] = cut]
       IN  IF e.cleanup_timer /\ ~e.v4 /\ ~e.v6 THEN [s EXCEPT !.tree[g] = e]
           ELSE IF prefix = "force" \/ (~cut.v4 /\ ~cut.v6) THEN DropGateway(t, g, immediate)
           ELSE IF <<cut.v4, cut.v6>> # <<e.v4, e.v6>> THEN UpdateHandler(t, g) ELSE t

Resort(s, g) ==
  [s EXCEPT !.list = [f \in Family |-> IF GwListFind(s, f, g)
                                       THEN GwListUpdate(@[f], g, s.tree) ELSE @[f]]]

(* olsr_update_gateway_entry for an HNA that is newer than the last one of *)
(* its originator (an older one is ignored).  The previous path cost is    *)
(* read after it was set to INT64_MAX: the lists are sorted again exactly  *)
(* when the new cost is finite.                                            *)
UpdateGatewayEntry(s, g, hna) ==
  LET old == IF g \in DOMAIN s.tree THEN s.tree[g]
             ELSE [expire_timer |-> FALSE, cleanup_timer |-> FALSE]
      e == [v4 |-> hna.v4, nat |-> hna.nat, v6 |-> hna.v6 /\ "v6" \in Families, path_cost |-> Inf,
            expire_timer |-> old.expire_timer, cleanup_timer |-> old.cleanup_timer]
      cost == GetCosts(s, g)
      With(x) == [s EXCEPT !.tree = [h \in DOMAIN s.tree \cup {g} |-> IF h = g THEN x ELSE s.tree[h]]]
      t == With([e EXCEPT !.path_cost = cost, !.expire_timer = TRUE, !.cleanup_timer = FALSE])
  IN  IF ~hna.bandwidth THEN DeleteGatewayEntry(With(e), g, "force", TRUE)
      ELSE UpdateHandler(IF cost = Inf THEN t ELSE Resort(t, g), g)

(* olsr_trigger_gatewayloss_check *)
GatewayLossCheck(s) ==
  LET lost == {f \in Family : s.current[f] \in Gateways /\ s.tc[s.current[f]] \in {None, Broken}}
  IN  IF lost = {} THEN s ELSE ChooseHandler(s, lost)

(* The worst gateway is dearer than the current one by more than           *)
(* takedown percent; the boundary of an infinite cost wraps.               *)
Boundary(c) == CASE olsr_cnf.takedown = 100 -> c
                 [] c = Inf -> 0
                 [] OTHER -> (c * 100) \div olsr_cnf.takedown

TooExpensive(s, f) ==
  /\ olsr_cnf.takedown # 0 /\ s.current[f] # None /\ Len(s.list[f]) > 1
  /\ Worst(s.list[f]) # s.current[f]
  /\ s.tree[Worst(s.list[f])].path_cost >= Boundary(s.tree[s.current[f]].path_cost)

DeleteTc(s, g) == [DeleteGatewayEntry(s, g, "force", FALSE) EXCEPT !.tc[g] = None]

DeleteIdle(s, g) == IF \E f \in Family : s.current[f] = g THEN s
                    ELSE DeleteGatewayEntry(s, g, "force", TRUE)
DeleteListed(s, f) == IF s.list[f] = <<>> THEN s
                      ELSE DeleteGatewayEntry(s, Head(s.list[f]), "force", TRUE)

(* A loop is n turns on a state r.s and the gateways r.todo that are to    *)
(* come: over the TC entries and over the gateways that are not current in *)
(* the order of their trees, and over the worst gateways of a family.      *)
First(gs) == CHOOSE g \in gs : \A h \in gs : Rank[g] <= Rank[h]

Turn(loop, r) ==
  LET g == First(r.todo)
  IN  CASE loop = "tcs" -> [s |-> DeleteTc(r.s, g), todo |-> r.todo \ {g}]
        [] loop = "idle" -> [s |-> DeleteIdle(r.s, g), todo |-> r.todo \ {g}]
        [] OTHER -> IF TooExpensive(r.s, loop)
                    THEN [r EXCEPT !.s = RemoveGatewayFromList(@, loop, Worst(@.list[loop]))] ELSE r

Turns(loop, r, n) ==
  LET after[i \in 0 .. n] == IF i = 0 THEN r ELSE Turn(loop, after[i - 1]) IN after[n]

ForAll(loop, gs, s) == Turns(loop, [s |-> s, todo |-> gs], Cardinality(gs)).s

(* takeDownExpensiveGateways: the list ends the loop at the latest.        *)
TakeDown(s, f) == Turns(f, [s |-> s, todo |-> {}], Len(s.list[f])).s

(* olsr_delete_all_tc_entries *)
DeleteAllTcs(s) == ForAll("tcs", {g \in Gateways : s.tc[g] # None}, s)

(* olsr_cleanup_gateways: first the gateways that are not current, then    *)
(* the ones that are.                                                      *)
CleanupGateways(s) == DeleteListed(DeleteListed(ForAll("idle", DOMAIN s.tree, s), "v4"), "v6")

----------------------------------------------------------------------------
Init ==
  /\ olsr_cnf \in Configurations
  /\ tc = [g \in Gateways |-> None]
  /\ tree = << >>
  /\ list = [f \in Family |-> << >>]
  /\ current = [f \in Family |-> None]
  /\ tunnel = [g \in Gateways |-> 0]
  /\ names = [i \in Slots |-> None]
  /\ route = [f \in Family |-> None]
  /\ want = [f \in Family |-> TRUE]
  /\ timer = FALSE
  /\ nodecount = 0
  /\ stablecount = 0
  /\ left = [hna |-> MaxHnas, spf |-> MaxSpfs, failure |-> MaxFailures]
  /\ phase = "start"

(* olsr_trigger_inetgw_startup *)
Startup ==
  /\ phase = "start"
  /\ Become(StartupHandler(State))
  /\ phase' = "run"
  /\ UNCHANGED <<olsr_cnf, left>>

(* What happens after a freed container is used is undefined: stop there.  *)
Running == phase = "run" /\ \A f \in Family : current[f] # Freed

(* A handler runs; while it does, the kernel may refuse to add a tunnel.   *)
Handle(Handler(_), use) ==
  /\ Running
  /\ \E failing \in {b \in BOOLEAN : b => left.failure > 0} :
       \E s \in {Handler([State EXCEPT !.broken = failing])} :
         /\ Become(s)
         /\ left' = [use EXCEPT !.failure = IF failing /\ ~s.broken THEN @ - 1 ELSE @]
  /\ UNCHANGED <<olsr_cnf, phase>>

(* olsr_input_hna with a smart gateway network                             *)
InputHna(g, hna) ==
  /\ left.hna > 0
  /\ Handle(LAMBDA s : UpdateGatewayEntry(s, g, hna), [left EXCEPT !.hna = @ - 1])

(* olsr_expire_hna_net_entry for a default route that the node announced   *)
(* without the marks of a smart gateway before it became one.              *)
ExpireHnaNetEntry(g, f) ==
  /\ left.hna > 0 /\ f \in Families /\ g \in DOMAIN tree
  /\ Handle(LAMBDA s : DeleteGatewayEntry(s, g, f, FALSE), [left EXCEPT !.hna = @ - 1])

(* expire_gateway_handler: the prefix length it passes is that of the      *)
(* external prefix, 0 with IPv4 and never one of an IPv6 default route.    *)
ExpireGateway(g) ==
  /\ g \in DOMAIN tree /\ tree[g].expire_timer
  /\ Handle(LAMBDA s : DeleteGatewayEntry(s, g, IF "v6" \in Families THEN "other" ELSE "v4", FALSE), left)

CleanupGateway(g) ==
  /\ g \in DOMAIN tree /\ tree[g].cleanup_timer
  /\ Handle(LAMBDA s : CleanupHandler(s, g), left)

(* New TC entries or links, and the SPF run after them                     *)
Spf(costs) ==
  /\ left.spf > 0 /\ costs # tc /\ \A g \in Gateways : tc[g] # None => costs[g] # None
  /\ Handle(LAMBDA s : GatewayLossCheck([s EXCEPT !.tc = costs]), [left EXCEPT !.spf = @ - 1])

(* olsr_delete_tc_entry *)
DeleteTcEntry(g) ==
  /\ left.spf > 0 /\ tc[g] # None
  /\ Handle(LAMBDA s : DeleteTc(s, g), [left EXCEPT !.spf = @ - 1])

GwTimer ==
  /\ timer
  /\ Handle(TimerHandler, left)

(* gw_takedown_timer_callback *)
TakedownTimer ==
  /\ TooExpensive(State, "v4") \/ TooExpensive(State, "v6")
  /\ Handle(LAMBDA s : TakeDown(TakeDown(s, "v4"), "v6"), left)

(* olsr_shutdown: the process ends after it                                *)
Exit ==
  /\ Running
  /\ \E s \in {CleanupGateways(DeleteAllTcs(State))} : Become(s)
  /\ phase' = "exit"
  /\ UNCHANGED <<olsr_cnf, left>>

Next ==
  \/ Startup \/ GwTimer \/ TakedownTimer \/ Exit
  \/ \E g \in Gateways :
       \/ \E hna \in olsr_cnf.hnas[g] : InputHna(g, hna)
       \/ \E f \in Family : ExpireHnaNetEntry(g, f)
       \/ ExpireGateway(g) \/ CleanupGateway(g) \/ DeleteTcEntry(g)
  \/ \E costs \in Topologies : Spf(costs)

Spec == Init /\ [][Next]_vars /\ WF_vars(GwTimer)

----------------------------------------------------------------------------
(* Properties                                                              *)

TypeOK ==
  /\ DOMAIN tree \subseteq Gateways /\ \A g \in DOMAIN tree : tree[g] \in Entries
  /\ list \in [Family -> Seq(Gateways)]
  /\ current \in [Family -> Gateways \cup {None, Freed}]
  /\ tunnel \in [Gateways -> 0 .. 2]
  /\ names \in [Slots -> Gateways \cup {None}]
  /\ route \in [Family -> Gateways \cup {None}]
  /\ want \in [Family -> BOOLEAN] /\ timer \in BOOLEAN
  /\ stablecount \in 0 .. olsr_cnf.stablecount

(* The lists, the tree, the tunnels and the kernel agree after every       *)
(* handler: the gateways of a list are in the tree, at most                *)
(* smart_gw_use_count of them; a tunnel is used once for each list its     *)
(* gateway is on, and released with the last one; in multi-gateway mode    *)
(* each of them has an interface name of its own; the default route of a   *)
(* family leads into the tunnel of its current gateway.  At the end, as    *)
(* the assertions of olsr_cleanup_gateways say, nothing of them is left.   *)
TunnelsMatch ==
  /\ TypeOK
  /\ \A f \in Family :
       /\ IsInjective(list[f]) /\ Len(list[f]) <= olsr_cnf.use_count
       /\ Range(list[f]) \subseteq DOMAIN tree
       /\ current[f] \in Range(list[f]) \cup {None, Freed}
       /\ current[f] # Freed => route[f] = current[f]
  /\ \A g \in Gateways : tunnel[g] = Cardinality({f \in Family : g \in Range(list[f])})
  /\ Multi => /\ \A i, j \in Slots : names[i] = names[j] => i = j \/ names[i] = None
              /\ Range(names) \ {None} = Range(list["v4"])
  /\ phase = "exit" => tree = << >> /\ \A f \in Family : current[f] = None /\ route[f] = None

(* With a threshold, olsrd leaves a gateway that is still usable only for  *)
(* one whose cost is below that percentage of its cost (the +50 of         *)
(* gw_default_calc_threshold rounds the boundary).                         *)
WorthChanging ==
  \A f \in Family :
    (/\ olsr_cnf.thresh # 0 /\ phase' = "run"
     /\ {current[f], current'[f]} \subseteq DOMAIN tree' /\ current[f] # current'[f]
     /\ IsGwSelectable(tree'[current[f]], f))
    => 100 * tree'[current'[f]].path_cost <= olsr_cnf.thresh * tree'[current[f]].path_cost + 50
NoFlapping == [][WorthChanging]_vars

Usable(f) ==
  /\ phase = "run" /\ f \in Families \ olsr_cnf.own
  /\ \E g \in DOMAIN tree : IsGwSelectable(tree[g], f) /\ tree[g].path_cost # Inf

(* While a usable gateway is known and the kernel has refused no tunnel,   *)
(* olsrd does not stay without a gateway: whoever drops the last one       *)
(* leaves the selection timer running.                                     *)
EventuallyChosen ==
  \A f \in Family : <>[](Usable(f) /\ left.failure = MaxFailures) => []<>(current[f] # None)

============================================================================
