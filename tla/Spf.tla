-------------------------------- MODULE Spf --------------------------------
(***************************************************************************)
(* The route calculation: when it runs, and the shortest paths it finds.   *)
(*                                                                         *)
(* A change of the topology sets a flag; the main loop sees the flag and   *)
(* starts a calculation, unless the last one was less than a second ago.   *)
(* The calculation is Dijkstra's algorithm over the edges that have an     *)
(* inverse edge, with the links to our neighbours as next hops. The daemon *)
(* has one thread: nothing changes the topology during a calculation. Our  *)
(* own edges are those to symmetric neighbours with a link.                *)
(* (src/src/olsr_spf.c, src/src/olsr.c)                                    *)
(***************************************************************************)
EXTENDS Integers

CONSTANTS
  Nodes,       \* nodes of the topology set
  Self,        \* our own entry
  MaxCost,     \* usable edges cost 1 .. MaxCost
  Graphs,      \* the graphs a run may start with
  Later,       \* the graphs it may change to
  MaxChanges   \* bound on the changes

Broken == MaxCost + 1   \* LINK_COST_BROKEN
NoEdge == MaxCost + 2   \* there is no such edge
Graph == [Nodes \X Nodes -> 1 .. NoEdge]

ASSUME GraphAssumption ==
  /\ Self \in Nodes
  /\ MaxCost \in Nat \ {0}
  /\ Graphs \subseteq Graph /\ Later \subseteq Graph
  /\ MaxChanges \in Nat

VARIABLES
  graph,     \* cost of every edge
  changed,   \* changes_topology or another of the change flags
  backoff,   \* spf_backoff_timer runs
  running,   \* a calculation is under way
  cost,      \* path_cost of every node
  hops,      \* hops of every node
  nextHop,   \* the neighbour whose link is the next_hop, or NoLink
  cand,      \* the candidate tree
  routed,    \* the graph of the last calculation
  changes    \* changes so far

calcVars == <<cost, hops, nextHop, cand>>
vars == <<graph, changed, backoff, running, calcVars, routed, changes>>

Unreached == -1         \* ROUTE_COST_BROKEN, above the cost of any path
NoLink == Self
----------------------------------------------------------------------------
\* olsr_spf_relax follows edges that are not broken and have an inverse edge.
Usable(g, a, b) == g[<<a, b>>] < Broken /\ g[<<b, a>>] # NoEdge

\* Mutant of Better: the first path found is kept.
BetterIfNone(new, old) == old = Unreached

Better(new, old) == old = Unreached \/ new < old

\* The nodes whose path gets better over node n.
Improved(n) == {m \in Nodes : Usable(graph, n, m) /\ Better(cost[n] + graph[<<n, m>>], cost[m])}

\* The next hop of our neighbours is set before the calculation.
FirstHop(g) ==
  [n \in Nodes |-> IF g[<<Self, n>>] # NoEdge /\ g[<<n, Self>>] # NoEdge THEN n ELSE NoLink]
----------------------------------------------------------------------------
Init ==
  /\ graph \in Graphs
  /\ changed = TRUE /\ backoff = FALSE /\ running = FALSE
  /\ cost = [n \in Nodes |-> Unreached] /\ hops = [n \in Nodes |-> 0]
  /\ nextHop = [n \in Nodes |-> NoLink] /\ cand = {}
  /\ routed = [e \in Nodes \X Nodes |-> NoEdge]
  /\ changes = 0

\* A message or a timer changes the topology set and sets a change flag.
ChangeTopology(g) ==
  /\ ~running /\ changes < MaxChanges /\ g # graph
  /\ graph' = g
  /\ changed' = TRUE
  /\ changes' = changes + 1
  /\ UNCHANGED <<backoff, running, calcVars, routed>>

\* olsr_process_changes while the backoff timer runs: the calculation returns
\* at once and the flags are cleared.
ProcessChangesTooSoon ==
  /\ ~running /\ changed /\ backoff
  /\ changed' = FALSE
  /\ UNCHANGED <<graph, backoff, running, calcVars, routed, changes>>

\* olsr_process_changes starts a calculation.
ProcessChanges ==
  /\ ~running /\ changed /\ ~backoff
  /\ changed' = FALSE
  /\ backoff' = TRUE
  /\ running' = TRUE
  /\ cost' = [n \in Nodes |-> IF n = Self THEN 0 ELSE Unreached]
  /\ hops' = [n \in Nodes |-> 0]
  /\ nextHop' = FirstHop(graph)
  /\ cand' = {Self}
  /\ UNCHANGED <<graph, routed, changes>>

\* olsr_spf_extract_best
Extracted(n) == n \in cand /\ \A m \in cand : cost[n] <= cost[m]

\* Mutant of PulledUp: our own empty next hop is pulled up, too.
PulledUpAlways(n, m) == nextHop[n]

\* The next hop that node m gets when it is reached over node n.
PulledUp(n, m) == IF nextHop[n] # NoLink THEN nextHop[n] ELSE nextHop[m]

\* One round of olsr_spf_run_full: the best candidate is relaxed and moved to
\* the path list.
Relax(n) ==
  /\ running /\ Extracted(n)
  /\ cost' = [m \in Nodes |-> IF m \in Improved(n) THEN cost[n] + graph[<<n, m>>] ELSE cost[m]]
  /\ hops' = [m \in Nodes |-> IF m \in Improved(n) THEN hops[n] + 1 ELSE hops[m]]
  /\ nextHop' = [m \in Nodes |-> IF m \in Improved(n) THEN PulledUp(n, m) ELSE nextHop[m]]
  /\ cand' = (cand \cup Improved(n)) \ {n}
  /\ UNCHANGED <<graph, changed, backoff, running, routed, changes>>

\* The candidate tree is empty: routes are made from the path list.
Finished == running /\ cand = {}
UpdateRoutes ==
  /\ Finished
  /\ running' = FALSE
  /\ routed' = graph
  /\ UNCHANGED <<graph, changed, backoff, calcVars, changes>>

\* olsr_expire_spf_backoff only forgets the timer.
ExpireSpfBackoff ==
  /\ ~running /\ backoff
  /\ backoff' = FALSE
  /\ UNCHANGED <<graph, changed, running, calcVars, routed, changes>>

Next ==
  \/ \E g \in Later : ChangeTopology(g)
  \/ ProcessChangesTooSoon
  \/ ProcessChanges
  \/ \E n \in Nodes : Relax(n)
  \/ UpdateRoutes
  \/ ExpireSpfBackoff

\* The main loop goes round and the timers fire.
Fairness ==
  /\ WF_vars(ProcessChangesTooSoon) /\ WF_vars(ProcessChanges)
  /\ WF_vars(\E n \in Nodes : Relax(n)) /\ WF_vars(UpdateRoutes)
  /\ WF_vars(ExpireSpfBackoff)

Safety == Init /\ [][Next]_vars
Spec == Safety /\ Fairness
----------------------------------------------------------------------------
Reached == {n \in Nodes : cost[n] # Unreached}
PathList == Reached \ cand

\* A node that was moved to the path list is never improved again: otherwise
\* olsr_spf_relax would delete it from a candidate tree it is not in.
PathListIsFinal == running => \A n \in cand : Extracted(n) => Improved(n) \subseteq Nodes \ PathList

\* When the calculation ends every path ends with an edge from another reached
\* node and no usable edge would shorten any path: the costs are those of
\* shortest paths, and cost, hop count and next hop belong to the same path.
Certificate ==
  Finished =>
    /\ \A n \in Reached : \A m \in Nodes :
         Usable(graph, n, m) => m \in Reached /\ cost[m] <= cost[n] + graph[<<n, m>>]
    /\ \A m \in Reached \ {Self} : \E n \in Reached :
         /\ Usable(graph, n, m)
         /\ cost[m] = cost[n] + graph[<<n, m>>]
         /\ hops[m] = hops[n] + 1
         /\ nextHop[m] = IF n = Self THEN m ELSE nextHop[n]

\* The change of the topology reaches the routes.
ChangesReachRoutes == <>[](routed = graph)
============================================================================
