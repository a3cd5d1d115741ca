----------------------------- MODULE SpfProofs -----------------------------
(***************************************************************************)
(* The route calculation is correct for every graph: a proof of Dijkstra's *)
(* algorithm as the code writes it.                                        *)
(***************************************************************************)
EXTENDS Spf, TLAPS, FiniteSetTheorems

SpfTypeOK ==
  /\ graph \in Graph
  /\ running \in BOOLEAN
  /\ cost \in [Nodes -> Nat \cup {Unreached}]
  /\ hops \in [Nodes -> Nat]
  /\ nextHop \in [Nodes -> Nodes]
  /\ cand \in SUBSET Nodes

\* Our own entry is the first to be extracted.
RootOK ==
  /\ Self \in Reached /\ cost[Self] = 0 /\ hops[Self] = 0 /\ nextHop[Self] = NoLink
  /\ Self \in cand => Reached = {Self}
  /\ cand \subseteq Reached
  /\ \A m \in Nodes \ Reached : nextHop[m] = FirstHop(graph)[m]
  /\ \A m \in Reached \ {Self} : nextHop[m] # NoLink

\* The path list is nearer than the candidates and its edges are relaxed.
NearFirst == \A d \in PathList : \A c \in cand : cost[d] <= cost[c]
Relaxed ==
  \A d \in PathList : \A m \in Nodes :
    Usable(graph, d, m) => m \in Reached /\ cost[m] <= cost[d] + graph[<<d, m>>]

\* m was reached over d
Over(d, m) ==
  /\ Usable(graph, d, m)
  /\ cost[m] = cost[d] + graph[<<d, m>>]
  /\ hops[m] = hops[d] + 1
  /\ nextHop[m] = IF d = Self THEN m ELSE nextHop[d]

\* Every reached node was reached over a node of the path list.
HasParent == \A m \in Reached \ {Self} : \E d \in PathList : Over(d, m)

SpfInv == SpfTypeOK /\ (running => RootOK /\ NearFirst /\ Relaxed /\ HasParent)
----------------------------------------------------------------------------
\* Costs of edges are positive and add up to costs of paths.
LEMMA EdgeCost ==
  ASSUME SpfTypeOK, NEW a \in Nodes, NEW b \in Nodes
  PROVE  graph[<<a, b>>] \in Nat /\ graph[<<a, b>>] > 0
BY GraphAssumption DEF SpfTypeOK, Graph, NoEdge

\* A node of the path list is not improved by a candidate that is no nearer.
LEMMA FinalIsFinal ==
  ASSUME SpfInv, running, NEW n \in cand, NEW d \in PathList
  PROVE  d \notin Improved(n)
<1>1. d \in Nodes /\ n \in Nodes /\ cost[d] # Unreached /\ cost[n] # Unreached
  BY DEF PathList, Reached, SpfInv, SpfTypeOK, RootOK
<1>2. cost[d] \in Nat /\ cost[n] \in Nat
  BY <1>1 DEF SpfInv, SpfTypeOK
<1>3. cost[d] <= cost[n]
  BY DEF SpfInv, NearFirst
<1>4. graph[<<n, d>>] \in Nat /\ graph[<<n, d>>] > 0
  BY <1>1, EdgeCost DEF SpfInv
<1> QED BY <1>1, <1>2, <1>3, <1>4 DEF Improved, Better

\* Starting a calculation establishes the invariant.
LEMMA StartKeepsInv ==
  ASSUME SpfInv, ProcessChanges
  PROVE  SpfInv'
<1>1. /\ graph' = graph /\ running' = TRUE
      /\ cost' = [n \in Nodes |-> IF n = Self THEN 0 ELSE Unreached]
      /\ hops' = [n \in Nodes |-> 0]
      /\ nextHop' = FirstHop(graph)
      /\ cand' = {Self}
  BY Zenon DEF ProcessChanges
<1>2. FirstHop(graph) \in [Nodes -> Nodes] /\ FirstHop(graph)[Self] = NoLink
  BY GraphAssumption DEF FirstHop, NoLink
<1>3. SpfTypeOK'
  BY <1>1, <1>2, GraphAssumption DEF SpfTypeOK, SpfInv, Unreached
<1>4. Reached' = {Self}
  BY <1>1, GraphAssumption DEF Reached, Unreached
<1>5. PathList' = {}
  BY <1>1, <1>4 DEF PathList
<1>6. RootOK'
  BY <1>1, <1>2, <1>4, GraphAssumption DEF RootOK
<1>7. (NearFirst /\ Relaxed /\ HasParent)'
  BY <1>4, <1>5 DEF NearFirst, Relaxed, HasParent
<1> QED BY <1>3, <1>6, <1>7 DEF SpfInv

\* A round of the algorithm keeps the invariant.
LEMMA RelaxKeepsInv ==
  ASSUME SpfInv, NEW n \in Nodes, Relax(n)
  PROVE  SpfInv'
<1> DEFINE I == Improved(n)
<1>1. /\ running /\ running' = running /\ graph' = graph
      /\ n \in cand /\ \A m \in cand : cost[n] <= cost[m]
      /\ cand' = (cand \cup I) \ {n}
  BY Zenon DEF Relax, Extracted
<1>2. /\ \A m \in Nodes : cost'[m] = IF m \in I THEN cost[n] + graph[<<n, m>>] ELSE cost[m]
      /\ \A m \in Nodes : hops'[m] = IF m \in I THEN hops[n] + 1 ELSE hops[m]
      /\ \A m \in Nodes : nextHop'[m] = IF m \in I THEN PulledUp(n, m) ELSE nextHop[m]
  BY Zenon DEF Relax
<1>3. SpfTypeOK /\ RootOK /\ NearFirst /\ Relaxed /\ HasParent
  BY <1>1 DEF SpfInv
<1>4. n \in Reached /\ cost[n] \in Nat /\ cost[Self] = 0 /\ Self \in Nodes
  BY <1>1, <1>3, GraphAssumption DEF RootOK, SpfTypeOK, Reached
<1>5. I \subseteq Nodes /\ \A m \in I : Usable(graph, n, m)
                                    /\ (cost[m] = Unreached \/ cost[n] + graph[<<n, m>>] < cost[m])
  BY DEF Improved, Better
<1>6. \A m \in Nodes : graph[<<n, m>>] \in Nat /\ graph[<<n, m>>] > 0
  BY <1>3, EdgeCost
<1> HIDE DEF I
<1>7. n \notin I
  <2> SUFFICES ASSUME n \in I PROVE FALSE
    OBVIOUS
  <2>1. cost[n] = Unreached \/ cost[n] + graph[<<n, n>>] < cost[n]
    BY <1>5
  <2>2. graph[<<n, n>>] \in Nat
    BY <1>6
  <2>3. cost[n] # Unreached
    BY <1>4 DEF Reached
  <2> QED BY <2>1, <2>2, <2>3, <1>4
<1>8. \A d \in PathList : d \notin I
  BY <1>1, FinalIsFinal DEF I
<1>9. Self \notin I
  <2> SUFFICES ASSUME Self \in I PROVE FALSE
    OBVIOUS
  <2>1. cost[Self] = Unreached \/ cost[n] + graph[<<n, Self>>] < cost[Self]
    BY <1>5
  <2>2. graph[<<n, Self>>] \in Nat
    BY <1>4, <1>6
  <2>3. cost[Self] # Unreached
    BY <1>3 DEF RootOK, Reached
  <2> QED BY <2>1, <2>2, <2>3, <1>4
<1>10. \A m \in Nodes : PulledUp(n, m) \in Nodes
  BY <1>3 DEF PulledUp, SpfTypeOK
<1>11. SpfTypeOK'
  <2>1. cost' \in [Nodes -> Nat \cup {Unreached}]
    <3>1. cost' = [m \in Nodes |-> IF m \in I THEN cost[n] + graph[<<n, m>>] ELSE cost[m]]
      BY Zenon DEF Relax, I
    <3> QED BY <3>1, <1>3, <1>4, <1>6 DEF SpfTypeOK
  <2>2. hops' \in [Nodes -> Nat]
    <3>1. hops' = [m \in Nodes |-> IF m \in I THEN hops[n] + 1 ELSE hops[m]]
      BY Zenon DEF Relax, I
    <3> QED BY <3>1, <1>3 DEF SpfTypeOK
  <2>3. nextHop' \in [Nodes -> Nodes]
    <3>1. nextHop' = [m \in Nodes |-> IF m \in I THEN PulledUp(n, m) ELSE nextHop[m]]
      BY Zenon DEF Relax, I
    <3> QED BY <3>1, <1>3, <1>10 DEF SpfTypeOK
  <2> QED BY <1>1, <1>3, <1>5, <2>1, <2>2, <2>3 DEF SpfTypeOK
<1>12. Reached' = Reached \cup I
  <2>1. ASSUME NEW m \in I PROVE cost'[m] # Unreached
    <3>1. cost'[m] = cost[n] + graph[<<n, m>>] /\ graph[<<n, m>>] \in Nat
      BY <1>2, <1>5, <1>6
    <3> QED BY <3>1, <1>4 DEF Unreached
  <2>2. \A m \in Nodes \ I : cost'[m] = cost[m]
    BY <1>2, Zenon
  <2> QED BY <1>5, <2>1, <2>2 DEF Reached
<1>13. PathList' = PathList \cup {n}
  BY <1>1, <1>4, <1>7, <1>8, <1>12, <1>3 DEF PathList, RootOK
<1>14. \A d \in PathList \cup {n} :
         d \in Nodes /\ cost'[d] = cost[d] /\ hops'[d] = hops[d] /\ nextHop'[d] = nextHop[d]
  BY <1>2, <1>7, <1>8, Zenon DEF PathList, Reached
<1>15. \A m \in I : cost'[m] = cost[n] + graph[<<n, m>>] /\ hops'[m] = hops[n] + 1
                  /\ nextHop'[m] = PulledUp(n, m)
  BY <1>2, <1>5
<1>16. n # Self => nextHop[n] # NoLink
  BY <1>3, <1>4 DEF RootOK
<1>17. n = Self => \A m \in I : m \notin Reached /\ nextHop[m] = m
  <2> SUFFICES ASSUME n = Self, NEW m \in I PROVE m \notin Reached /\ nextHop[m] = m
    OBVIOUS
  <2>1. m \notin Reached
    BY <1>1, <1>3, <1>7 DEF RootOK
  <2>2. nextHop[m] = FirstHop(graph)[m] /\ m \in Nodes
    BY <2>1, <1>3, <1>5 DEF RootOK
  <2>3. Usable(graph, Self, m)
    BY <1>5, Zenon
  <2>4. graph[<<Self, m>>] # NoEdge
    BY <2>2, <2>3, <1>3, <1>6, GraphAssumption DEF Usable, Broken, NoEdge
  <2> QED BY <2>1, <2>2, <2>3, <2>4 DEF FirstHop, Usable
<1>18. RootOK'
  <2>1. Self \in Reached' /\ cost'[Self] = 0 /\ hops'[Self] = 0 /\ nextHop'[Self] = NoLink
    BY <1>2, <1>3, <1>4, <1>9, <1>12, Zenon DEF RootOK
  <2>2. Self \notin cand'
    BY <1>1, <1>3, <1>4, <1>9 DEF RootOK
  <2>3. cand' \subseteq Reached'
    BY <1>1, <1>3, <1>12 DEF RootOK
  <2>4. \A m \in Nodes \ Reached' : nextHop'[m] = FirstHop(graph')[m]
    <3>1. FirstHop(graph') = FirstHop(graph)
      BY <1>1
    <3>2. \A m \in Nodes \ Reached' : nextHop'[m] = nextHop[m] /\ m \in Nodes \ Reached
      BY <1>2, <1>12
    <3> HIDE DEF FirstHop
    <3> QED BY <3>1, <3>2, <1>3 DEF RootOK
  <2>5. ASSUME NEW m \in Reached' \ {Self} PROVE nextHop'[m] # NoLink
    <3>1. CASE m \in I
      <4>1. CASE n = Self
        BY <4>1, <3>1, <1>3, <1>15, <1>17, <2>5, Zenon DEF PulledUp, RootOK, NoLink
      <4>2. CASE n # Self
        BY <4>2, <3>1, <1>15, <1>16, Zenon DEF PulledUp
      <4> QED BY <4>1, <4>2
    <3>2. CASE m \notin I
      BY <3>2, <2>5, <1>2, <1>3, <1>12 DEF RootOK, Reached
    <3> QED BY <3>1, <3>2
  <2> QED BY <2>1, <2>2, <2>3, <2>4, <2>5 DEF RootOK
<1>19. NearFirst'
  <2> SUFFICES ASSUME NEW d \in PathList', NEW c \in cand' PROVE cost'[d] <= cost'[c]
    BY DEF NearFirst
  <2>1. d \in PathList \cup {n} /\ cost'[d] = cost[d]
    BY <1>13, <1>14
  <2>2. cost[d] <= cost[n] /\ cost[d] \in Nat
    BY <2>1, <1>1, <1>3, <1>4 DEF NearFirst, PathList, Reached, SpfTypeOK
  <2>3. CASE c \in I
    <3>1. cost'[c] = cost[n] + graph[<<n, c>>] /\ graph[<<n, c>>] \in Nat
      BY <2>3, <1>5, <1>6, <1>15
    <3> QED BY <3>1, <2>1, <2>2, <1>4
  <2>4. CASE c \notin I
    <3>1. c \in cand /\ c \in Nodes /\ cost'[c] = cost[c]
      BY <2>4, <1>1, <1>2, <1>3, Zenon DEF SpfTypeOK
    <3>2. cost[n] <= cost[c] /\ cost[c] \in Nat
      BY <3>1, <1>1, <1>3 DEF RootOK, Reached, SpfTypeOK
    <3> QED BY <2>1, <2>2, <3>1, <3>2, <1>4
  <2> QED BY <2>3, <2>4
<1>20. Relaxed'
  <2> SUFFICES ASSUME NEW d \in PathList', NEW m \in Nodes, Usable(graph, d, m)
               PROVE  m \in Reached' /\ cost'[m] <= cost'[d] + graph[<<d, m>>]
    BY <1>1 DEF Relaxed
  <2>1. d \in PathList \cup {n} /\ cost'[d] = cost[d] /\ d \in Nodes
    BY <1>13, <1>14
  <2>2. graph[<<d, m>>] \in Nat
    BY <2>1, <1>3, EdgeCost
  <2>3. cost[d] \in Nat
    BY <2>1, <1>3, <1>4 DEF PathList, Reached, SpfTypeOK
  <2>4. CASE d = n
    <3>1. CASE m \in I
      BY <2>1, <2>2, <2>3, <2>4, <3>1, <1>12, <1>15
    <3>2. CASE m \notin I
      <4>1. ~Better(cost[n] + graph[<<n, m>>], cost[m])
        BY <3>2, <2>4 DEF I, Improved
      <4>2. cost'[m] = cost[m] /\ cost[m] \in Nat \cup {Unreached}
        BY <3>2, <1>2, <1>3, Zenon DEF SpfTypeOK
      <4> QED BY <4>1, <4>2, <2>1, <2>2, <2>3, <2>4, <1>12 DEF Better, Reached
    <3> QED BY <3>1, <3>2
  <2>5. CASE d \in PathList
    <3>1. m \in Reached /\ cost[m] <= cost[d] + graph[<<d, m>>] /\ cost[m] \in Nat
      BY <2>5, <1>3 DEF Relaxed, Reached, SpfTypeOK
    <3>2. CASE m \in I
      <4>1. cost'[m] = cost[n] + graph[<<n, m>>] /\ graph[<<n, m>>] \in Nat
        BY <3>2, <1>5, <1>6, <1>15
      <4>2. cost[m] # Unreached /\ (cost[m] = Unreached \/ cost[n] + graph[<<n, m>>] < cost[m])
        BY <3>1, <3>2, <1>5 DEF Reached
      <4> QED BY <4>1, <4>2, <3>1, <2>1, <2>2, <2>3, <1>4, <1>12
    <3>3. CASE m \notin I
      BY <3>1, <3>3, <2>1, <1>2, <1>12, Zenon
    <3> QED BY <3>2, <3>3
  <2> QED BY <2>1, <2>4, <2>5
<1>21. HasParent'
  <2> SUFFICES ASSUME NEW m \in Reached' \ {Self}
               PROVE  \E d \in PathList' : Over(d, m)'
    BY DEF HasParent
  <2>1. CASE m \in I
    <3>1. nextHop'[m] = IF n = Self THEN m ELSE nextHop'[n]
      <4>1. CASE n = Self
        BY <4>1, <2>1, <1>3, <1>15, <1>17, Zenon DEF PulledUp, RootOK
      <4>2. CASE n # Self
        BY <4>2, <2>1, <1>14, <1>15, <1>16, Zenon DEF PulledUp
      <4> QED BY <4>1, <4>2
    <3>2. Over(n, m)'
      BY <2>1, <3>1, <1>1, <1>5, <1>14, <1>15 DEF Over
    <3> QED BY <3>2, <1>13
  <2>2. CASE m \notin I
    <3>1. m \in Reached \ {Self} /\ m \in Nodes
      BY <2>2, <1>12 DEF Reached
    <3>2. PICK d \in PathList : Over(d, m)
      BY <3>1, <1>3 DEF HasParent
    <3>3. cost'[m] = cost[m] /\ hops'[m] = hops[m] /\ nextHop'[m] = nextHop[m]
      BY <2>2, <3>1, <1>2, Zenon
    <3>4. Over(d, m)'
      BY <3>2, <3>3, <1>1, <1>14 DEF Over
    <3> QED BY <3>4, <1>13
  <2> QED BY <2>1, <2>2
<1> QED BY <1>11, <1>18, <1>19, <1>20, <1>21 DEF SpfInv
----------------------------------------------------------------------------
\* The inductive invariant holds.
THEOREM SpfInvCorrect == Safety => []SpfInv
<1>1. Init => SpfInv
  <2> SUFFICES ASSUME Init PROVE SpfTypeOK /\ ~running
    BY DEF SpfInv
  <2> QED BY GraphAssumption, Zenon DEF Init, SpfTypeOK, NoLink, Unreached
<1>2. SpfInv /\ [Next]_vars => SpfInv'
  <2> SUFFICES ASSUME SpfInv, [Next]_vars PROVE SpfInv'
    OBVIOUS
  <2> USE DEF SpfInv, SpfTypeOK, RootOK, NearFirst, Relaxed, HasParent, Over, PathList, Reached, calcVars
  <2>1. CASE UNCHANGED vars
    BY <2>1, ZenonT(30) DEF vars
  <2>2. ASSUME NEW g \in Later, ChangeTopology(g) PROVE SpfInv'
    BY <2>2, GraphAssumption DEF ChangeTopology
  <2>3. CASE ProcessChangesTooSoon
    BY <2>3 DEF ProcessChangesTooSoon
  <2>4. CASE ProcessChanges
    BY <2>4, StartKeepsInv, Zenon
  <2>5. ASSUME NEW n \in Nodes, Relax(n) PROVE SpfInv'
    BY <2>5, RelaxKeepsInv, Zenon
  <2>6. CASE UpdateRoutes
    BY <2>6, Zenon DEF UpdateRoutes
  <2>7. CASE ExpireSpfBackoff
    BY <2>7 DEF ExpireSpfBackoff
  <2> QED BY <2>1, <2>2, <2>3, <2>4, <2>5, <2>6, <2>7, Zenon DEF Next
<1> QED BY <1>1, <1>2, PTL DEF Safety

\* When a calculation ends its costs are those of shortest paths.
THEOREM SpfCorrect == Safety => []Certificate
<1>1. SpfInv => Certificate
  BY DEF SpfInv, Certificate, Finished, Relaxed, HasParent, Over, PathList
<1> QED BY <1>1, SpfInvCorrect, PTL

\* The candidate tree is never asked to delete a node that it does not hold.
THEOREM NoDoubleDelete == Safety => []PathListIsFinal
<1>1. SpfInv => PathListIsFinal
  BY FinalIsFinal DEF PathListIsFinal, Improved
<1> QED BY <1>1, SpfInvCorrect, PTL
----------------------------------------------------------------------------
\* A set of numbers has a least one.
LEMMA LeastNumber ==
  ASSUME NEW S \in SUBSET Nat, S # {}
  PROVE  \E n \in S : \A m \in S : n <= m
<1> DEFINE T == {0 .. n : n \in S}
<1>1. T \subseteq FiniteSubsetsOf(Nat)
  <2> SUFFICES ASSUME NEW n \in S PROVE 0 .. n \in FiniteSubsetsOf(Nat)
    OBVIOUS
  <2>1. IsFiniteSet(0 .. n)
    BY FS_Interval
  <2> QED
    BY <2>1 DEF FiniteSubsetsOf
<1>2. T # {}
  BY Zenon
<1>3. IsWellFoundedOn(StrictSubsetOrdering(Nat), FiniteSubsetsOf(Nat))
  BY FS_StrictSubsetOrderingWellFounded
<1>4. PICK x \in T : \A y \in T : <<y, x>> \notin StrictSubsetOrdering(Nat)
  <2> HIDE DEF T
  <2> QED
    BY <1>1, <1>2, <1>3, WFMin
<1>5. PICK n \in S : x = 0 .. n
  BY <1>4
<1>6. ASSUME NEW m \in S PROVE n <= m
  <2> SUFFICES ASSUME m < n PROVE FALSE
    OBVIOUS
  <2>1. <<0 .. m, x>> \notin StrictSubsetOrdering(Nat)
    BY <1>4, Zenon
  <2>2. 0 .. m \in SUBSET Nat /\ x \in SUBSET Nat /\ 0 .. m \subseteq x
    BY <1>5
  <2>3. n \in x /\ n \notin 0 .. m
    BY <1>5
  <2> QED
    BY <2>1, <2>2, <2>3 DEF StrictSubsetOrdering
<1> QED
  BY <1>6

\* A walk of n edges from ourselves, along edges the calculation may use, and
\* what it costs up to each of its nodes.
Walk(n, p, c) ==
  /\ p \in [0 .. n -> Nodes] /\ c \in [0 .. n -> Nat]
  /\ p[0] = Self /\ c[0] = 0
  /\ \A i \in 0 .. n - 1 : Usable(graph, p[i], p[i + 1]) /\ c[i + 1] = c[i] + graph[<<p[i], p[i + 1]>>]

\* No walk leads to a node that was not reached, or to a reached one for less.
NoneShorter ==
  Finished => \A n \in Nat : \A p \in [0 .. n -> Nodes], c \in [0 .. n -> Nat] :
                Walk(n, p, c) => p[n] \in Reached /\ cost[p[n]] <= c[n]

\* Cost, hop count and next hop of a reached node are those of one walk to it.
OnOneWalk ==
  Finished => \A m \in Reached : \E p \in [0 .. hops[m] -> Nodes], c \in [0 .. hops[m] -> Nat] :
                /\ Walk(hops[m], p, c) /\ p[hops[m]] = m /\ c[hops[m]] = cost[m]
                /\ m # Self => hops[m] > 0 /\ nextHop[m] = p[1]

\* The certificate bounds every walk: by induction over its length.
LEMMA WalksAreNoShorter ==
  ASSUME SpfInv, Certificate, Finished,
         NEW n \in Nat, NEW p \in [0 .. n -> Nodes], NEW c \in [0 .. n -> Nat], Walk(n, p, c)
  PROVE  p[n] \in Reached /\ cost[p[n]] <= c[n]
<1> DEFINE Bad == {i \in 0 .. n : ~(p[i] \in Reached /\ cost[p[i]] <= c[i])}
<1>1. SUFFICES ASSUME Bad # {} PROVE FALSE
  OBVIOUS
<1>2. Bad \in SUBSET Nat
  OBVIOUS
<1>3. PICK i \in Bad : \A j \in Bad : i <= j
  BY <1>1, <1>2, LeastNumber, Zenon
<1>4. Self \in Reached /\ cost[Self] = 0
  BY DEF SpfInv, RootOK, Finished
<1>5. i # 0
  <2>1. p[0] = Self /\ c[0] = 0
    BY DEF Walk
  <2> QED
    BY <2>1, <1>3, <1>4
<1>6. i - 1 \in 0 .. n - 1 /\ i - 1 \in 0 .. n /\ i \in 0 .. n /\ i - 1 + 1 = i
  BY <1>3, <1>5
<1>7. p[i - 1] \in Reached /\ cost[p[i - 1]] <= c[i - 1]
  <2>1. i - 1 \notin Bad
    BY <1>3, <1>6
  <2> QED
    BY <2>1, <1>6
<1>8. Usable(graph, p[i - 1], p[i]) /\ c[i] = c[i - 1] + graph[<<p[i - 1], p[i]>>]
  <2>1. \A j \in 0 .. n - 1 : Usable(graph, p[j], p[j + 1]) /\ c[j + 1] = c[j] + graph[<<p[j], p[j + 1]>>]
    BY DEF Walk
  <2> HIDE DEF Bad
  <2> QED
    BY <2>1, <1>6
<1>9. p[i] \in Nodes /\ p[i - 1] \in Nodes /\ c[i - 1] \in Nat
  BY <1>6
<1>10. p[i] \in Reached /\ cost[p[i]] <= cost[p[i - 1]] + graph[<<p[i - 1], p[i]>>]
  BY <1>7, <1>8, <1>9 DEF Certificate
<1>11. cost[p[i]] \in Nat /\ cost[p[i - 1]] \in Nat /\ graph[<<p[i - 1], p[i]>>] \in Nat
  BY <1>7, <1>9, <1>10, EdgeCost DEF SpfInv, SpfTypeOK, Reached
<1>12. cost[p[i]] <= c[i]
  <2> DEFINE u == cost[p[i]]
             v == cost[p[i - 1]]
             w == graph[<<p[i - 1], p[i]>>]
             x == c[i - 1]
             y == c[i]
  <2>1. u \in Nat /\ v \in Nat /\ w \in Nat /\ x \in Nat
    BY <1>9, <1>11
  <2>2. u <= v + w /\ v <= x /\ y = x + w
    BY <1>7, <1>8, <1>10
  <2> HIDE DEF u, v, w, x, y
  <2>3. u <= y
    BY <2>1, <2>2
  <2> QED
    BY <2>3 DEF u, y
<1> QED
  BY <1>3, <1>10, <1>12

\* m is at the end of a walk that its entry describes.
Described(m, p, c) ==
  /\ Walk(hops[m], p, c) /\ p[hops[m]] = m /\ c[hops[m]] = cost[m]
  /\ m # Self => hops[m] > 0 /\ nextHop[m] = p[1]

\* A node that was reached over a node with such a walk has one, too.
LEMMA WalkGrows ==
  ASSUME SpfInv, Finished, NEW d \in Reached, NEW m \in Reached \ {Self}, Over(d, m),
         NEW p \in [0 .. hops[d] -> Nodes], NEW c \in [0 .. hops[d] -> Nat], Described(d, p, c)
  PROVE  \E q \in [0 .. hops[m] -> Nodes], e \in [0 .. hops[m] -> Nat] : Described(m, q, e)
<1> DEFINE n == hops[d]
           q == [i \in 0 .. n + 1 |-> IF i = n + 1 THEN m ELSE p[i]]
           e == [i \in 0 .. n + 1 |-> IF i = n + 1 THEN cost[m] ELSE c[i]]
<1>1. /\ n \in Nat /\ hops[m] = n + 1 /\ d \in Nodes /\ m \in Nodes
      /\ cost[m] \in Nat /\ cost[d] \in Nat /\ hops[Self] = 0
  BY DEF SpfInv, SpfTypeOK, Reached, Over, RootOK, Finished
<1>2. q \in [0 .. n + 1 -> Nodes] /\ e \in [0 .. n + 1 -> Nat]
  BY <1>1
<1>3. p[n] = d /\ c[n] = cost[d] /\ p[0] = Self /\ c[0] = 0
  BY DEF Described, Walk
<1>4. q[0] = Self /\ e[0] = 0 /\ q[n + 1] = m /\ e[n + 1] = cost[m]
  BY <1>1, <1>3, SMTT(30)
<1>5. ASSUME NEW i \in 0 .. n
      PROVE  Usable(graph, q[i], q[i + 1]) /\ e[i + 1] = e[i] + graph[<<q[i], q[i + 1]>>]
  <2>1. q[i] = p[i] /\ e[i] = c[i]
    BY <1>1
  <2>2. CASE i = n
    <3>1. q[i + 1] = m /\ e[i + 1] = cost[m]
      BY <1>1, <2>2
    <3>2. q[i] = d /\ e[i] = cost[d]
      BY <1>3, <2>1, <2>2, Zenon
    <3>3. Usable(graph, d, m) /\ cost[m] = cost[d] + graph[<<d, m>>]
      BY DEF Over
    <3> HIDE DEF q, e
    <3> QED
      BY <3>1, <3>2, <3>3, Zenon
  <2>3. CASE i # n
    <3>1. q[i + 1] = p[i + 1] /\ e[i + 1] = c[i + 1] /\ i \in 0 .. n - 1
      BY <1>1, <2>3
    <3> QED
      BY <2>1, <3>1, Zenon DEF Described, Walk
  <2> QED
    BY <2>2, <2>3, Zenon
<1>6. nextHop[m] = q[1]
  <2>1. CASE d = Self
    <3>1. n = 0
      BY <1>1, <2>1
    <3>2. q[1] = m
      BY <3>1
    <3> QED
      BY <2>1, <3>2 DEF Over
  <2>2. CASE d # Self
    <3>1. n > 0 /\ nextHop[d] = p[1]
      BY <2>2 DEF Described
    <3>2. q[1] = p[1]
      BY <1>1, <3>1
    <3> QED
      BY <2>2, <3>1, <3>2 DEF Over
  <2> QED
    BY <2>1, <2>2
<1> HIDE DEF q, e
<1>7. Walk(n + 1, q, e)
  <2>1. \A i \in 0 .. (n + 1) - 1 : i \in 0 .. n
    BY <1>1
  <2>2. \A i \in 0 .. (n + 1) - 1 :
          Usable(graph, q[i], q[i + 1]) /\ e[i + 1] = e[i] + graph[<<q[i], q[i + 1]>>]
    <3> HIDE DEF n, Usable
    <3> QED
      BY <1>5, <2>1
  <2> HIDE DEF n, Usable
  <2> QED
    BY <1>2, <1>4, <2>2, Zenon DEF Walk
<1>8. Described(m, q, e)
  <2> HIDE DEF n
  <2> QED
    BY <1>1, <1>4, <1>6, <1>7 DEF Described
<1> QED
  BY <1>1, <1>2, <1>8

\* So every reached node has one: by induction over the hop count.
LEMMA ReachedOnWalk ==
  ASSUME SpfInv, Finished, NEW m \in Reached
  PROVE  \E p \in [0 .. hops[m] -> Nodes], c \in [0 .. hops[m] -> Nat] : Described(m, p, c)
<1> DEFINE Has(x) == \E p \in [0 .. hops[x] -> Nodes], c \in [0 .. hops[x] -> Nat] : Described(x, p, c)
           Bad == {x \in Reached : ~Has(x)}
<1>1. SUFFICES ASSUME Bad # {} PROVE FALSE
  OBVIOUS
<1>2. \A x \in Reached : hops[x] \in Nat /\ x \in Nodes
  BY DEF SpfInv, SpfTypeOK, Reached
<1>3. Bad \subseteq Reached
  OBVIOUS
<1>4. PICK h \in {hops[x] : x \in Bad} : \A k \in {hops[x] : x \in Bad} : h <= k
  <2>1. {hops[x] : x \in Bad} \in SUBSET Nat /\ {hops[x] : x \in Bad} # {}
    BY <1>1, <1>2, <1>3
  <2> HIDE DEF Bad
  <2> QED
    BY <2>1, LeastNumber, Zenon
<1>5. PICK x \in Bad : h = hops[x]
  BY <1>4
<1>6. Has(Self)
  <2> DEFINE p == [i \in 0 .. 0 |-> Self]
             c == [i \in 0 .. 0 |-> 0]
  <2>1. hops[Self] = 0 /\ cost[Self] = 0 /\ Self \in Nodes
    BY GraphAssumption DEF SpfInv, RootOK, Finished
  <2>2. p \in [0 .. 0 -> Nodes] /\ c \in [0 .. 0 -> Nat] /\ p[0] = Self /\ c[0] = 0
    BY <2>1
  <2> HIDE DEF p, c
  <2>3. Walk(0, p, c)
    BY <2>2 DEF Walk
  <2>4. Described(Self, p, c)
    BY <2>1, <2>2, <2>3 DEF Described
  <2> QED
    BY <2>1, <2>2, <2>4
<1>7. x \in Reached \ {Self}
  BY <1>5, <1>6
<1>8. PICK d \in PathList : Over(d, x)
  BY <1>7 DEF SpfInv, HasParent, Finished
<1>9. d \in Reached /\ hops[x] = hops[d] + 1
  BY <1>8 DEF PathList, Over
<1>10. d \notin Bad
  <2>1. hops[d] \in Nat /\ hops[x] \in Nat /\ hops[d] < hops[x]
    BY <1>2, <1>7, <1>9
  <2> HIDE DEF Bad
  <2> QED
    BY <1>4, <1>5, <2>1
<1>11. PICK p \in [0 .. hops[d] -> Nodes], c \in [0 .. hops[d] -> Nat] : Described(d, p, c)
  BY <1>9, <1>10
<1>12. Has(x)
  BY <1>7, <1>8, <1>9, <1>11, WalkGrows
<1> QED
  BY <1>5, <1>12

\* Whatever the topology, no walk is shorter than the path the calculation found
\* and nothing that a walk reaches is left out (olsr_spf_run_full).
THEOREM ShortestOfAllWalks == Safety => []NoneShorter
<1>1. SpfInv => Certificate
  BY DEF SpfInv, Certificate, Finished, Relaxed, HasParent, Over, PathList
<1>2. SpfInv => NoneShorter
  BY <1>1, WalksAreNoShorter DEF NoneShorter
<1> QED
  BY <1>2, SpfInvCorrect, PTL

\* Every route leads along a walk: cost, hop count and next hop in an entry are
\* those of the same walk, though olsr_spf_relax sets them one by one.
THEOREM EntriesDescribeWalks == Safety => []OnOneWalk
<1>1. SpfInv => OnOneWalk
  BY ReachedOnWalk DEF OnOneWalk, Described
<1> QED
  BY <1>1, SpfInvCorrect, PTL
============================================================================
