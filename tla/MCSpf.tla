------------------------------- MODULE MCSpf -------------------------------
(* Every graph of four nodes in which a pair of nodes is unconnected, or has *)
(* an edge in one direction, or edges in both directions with some costs.    *)
EXTENDS Spf, TLC, FiniteSets, FiniteSetsExt

MCPair == {<<NoEdge, NoEdge>>, <<1, NoEdge>>, <<1, 1>>, <<1, 2>>, <<2, 1>>, <<Broken, 1>>, <<3, 1>>}
MCSelfPair == {<<NoEdge, 1>>, <<1, 1>>, <<2, 1>>, <<3, 1>>, <<Broken, 1>>}
MCGraph(p) ==
  [e \in Nodes \X Nodes |->
     IF e[1] = e[2] THEN NoEdge ELSE IF e[1] < e[2] THEN p[e][1] ELSE p[<<e[2], e[1]>>][2]]
MCPairs(S) == {e \in S \X S : e[1] < e[2]}
MCGraphs ==
  {MCGraph(p @@ q) : p \in [MCPairs(Nodes \ {Self}) -> MCPair],
                     q \in [{Self} \X (Nodes \ {Self}) -> MCSelfPair]}
MCLater == {[e \in Nodes \X Nodes |-> NoEdge]}

\* The cost of the shortest path to each node, for paths of at most k edges.
MCDist[k \in Nat] ==
  IF k = 0 THEN [n \in Nodes |-> IF n = Self THEN 0 ELSE 999]
  ELSE LET d == MCDist[k - 1]
       IN  [m \in Nodes |->
              Min({d[m]} \cup {d[n] + graph[<<n, m>>] : n \in {n \in Nodes : Usable(graph, n, m)}})]

\* The calculation finds the costs of the shortest paths.
ShortestPaths ==
  Finished => LET d == MCDist[Cardinality(Nodes)]
              IN  \A n \in Nodes : IF n \in Reached THEN cost[n] = d[n] ELSE d[n] >= 999
============================================================================
