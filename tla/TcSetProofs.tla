---------------------------- MODULE TcSetProofs ----------------------------
(***************************************************************************)
(* Proofs about the topology set, for any number of nodes and any messages: *)
(* the shortcuts to inverse edges are exact, no edge or timer outlives its  *)
(* entry, and every change leads to a route calculation.                    *)
(***************************************************************************)
EXTENDS TcSet, TLAPS

\* The edges join known addresses and the entry for ourselves stays.
EdgesOK == edges \in SUBSET (Nodes \X Nodes) /\ Self \in nodes

TcInv == EdgesOK /\ InverseShortcut /\ OwnerExists
----------------------------------------------------------------------------
\* An edge is in Flip(E) when its inverse is in E.
LEMMA FlipMember ==
  ASSUME NEW E \in SUBSET (Nodes \X Nodes), NEW a, NEW b
  PROVE  <<a, b>> \in Flip(E) <=> <<b, a>> \in E
BY DEF Flip

\* Adding edges the way olsr_add_tc_edge_entry does keeps the shortcuts exact.
LEMMA LinkExact ==
  ASSUME NEW E \in SUBSET (Nodes \X Nodes), NEW N \in SUBSET (Nodes \X Nodes)
  PROVE  Link(E \cap Flip(E), E, N) = (E \cup N) \cap Flip(E \cup N)
<1> DEFINE paired == {e \in N : <<e[2], e[1]>> \in E \cup N}
<1> DEFINE L == (E \cap Flip(E)) \cup paired \cup Flip(paired)
<1>1. paired \in SUBSET (Nodes \X Nodes) /\ E \cup N \in SUBSET (Nodes \X Nodes)
  OBVIOUS
<1>2. ASSUME NEW a, NEW b
      PROVE  <<a, b>> \in paired <=> <<a, b>> \in N /\ <<b, a>> \in E \cup N
  OBVIOUS
<1> HIDE DEF paired
<1>3. ASSUME NEW a \in Nodes, NEW b \in Nodes
      PROVE  <<a, b>> \in L <=> <<a, b>> \in (E \cup N) \cap Flip(E \cup N)
  <2>1. <<a, b>> \in Flip(E) <=> <<b, a>> \in E
    BY FlipMember
  <2>2. <<a, b>> \in Flip(paired) <=> <<b, a>> \in paired
    BY <1>1, FlipMember
  <2>3. <<a, b>> \in Flip(E \cup N) <=> <<b, a>> \in E \cup N
    BY <1>1, FlipMember
  <2> QED BY <2>1, <2>2, <2>3, <1>2
<1>4. Flip(paired) \in SUBSET (Nodes \X Nodes)
  BY <1>1 DEF Flip
<1>5. L \subseteq Nodes \X Nodes
  BY <1>1, <1>4
<1>6. L = (E \cup N) \cap Flip(E \cup N)
  <2> HIDE DEF L
  <2> QED BY <1>1, <1>3, <1>5
<1> QED BY <1>6 DEF Link, paired

\* Deleting edges the way olsr_delete_tc_edge_entry does keeps them exact.
LEMMA UnlinkExact ==
  ASSUME NEW E \in SUBSET (Nodes \X Nodes), NEW G \in SUBSET (Nodes \X Nodes)
  PROVE  Unlink(E \cap Flip(E), G) = (E \ G) \cap Flip(E \ G)
<1>1. E \ G \in SUBSET (Nodes \X Nodes)
  OBVIOUS
<1>2. ASSUME NEW a \in Nodes, NEW b \in Nodes
      PROVE  <<a, b>> \in Unlink(E \cap Flip(E), G) <=> <<a, b>> \in (E \ G) \cap Flip(E \ G)
  <2>1. <<a, b>> \in Flip(E) <=> <<b, a>> \in E
    BY FlipMember
  <2>2. <<a, b>> \in Flip(G) <=> <<b, a>> \in G
    BY FlipMember
  <2>3. <<a, b>> \in Flip(E \ G) <=> <<b, a>> \in E \ G
    BY <1>1, FlipMember
  <2> QED BY <2>1, <2>2, <2>3 DEF Unlink
<1> DEFINE U == Unlink(E \cap Flip(E), G)
           V == (E \ G) \cap Flip(E \ G)
<1>3. U \subseteq Nodes \X Nodes
  BY DEF Unlink
<1>4. V \subseteq Nodes \X Nodes
  BY <1>1
<1>5. \A a \in Nodes, b \in Nodes : <<a, b>> \in U <=> <<a, b>> \in V
  BY <1>2
<1> HIDE DEF U, V
<1>6. U = V
  BY <1>3, <1>4, <1>5
<1> QED BY <1>6 DEF U, V

\* Deleting edges G and then adding edges N keeps the shortcuts exact.
LEMMA ReplaceExact ==
  ASSUME NEW E \in SUBSET (Nodes \X Nodes), NEW G \in SUBSET (Nodes \X Nodes),
         NEW N \in SUBSET (Nodes \X Nodes)
  PROVE  Link(Unlink(E \cap Flip(E), G), E \ G, N)
           = ((E \ G) \cup N) \cap Flip((E \ G) \cup N)
<1> DEFINE F == E \ G
<1>1. F \in SUBSET (Nodes \X Nodes)
  OBVIOUS
<1>2. Unlink(E \cap Flip(E), G) = F \cap Flip(F)
  BY UnlinkExact
<1> HIDE DEF F
<1>3. Link(F \cap Flip(F), F, N) = (F \cup N) \cap Flip(F \cup N)
  BY <1>1, LinkExact
<1> QED BY <1>2, <1>3, Zenon DEF F

\* Adding edges N and then deleting edges G keeps the shortcuts exact.
LEMMA AddDeleteExact ==
  ASSUME NEW E \in SUBSET (Nodes \X Nodes), NEW G \in SUBSET (Nodes \X Nodes),
         NEW N \in SUBSET (Nodes \X Nodes)
  PROVE  Unlink(Link(E \cap Flip(E), E, N), G)
           = ((E \cup N) \ G) \cap Flip((E \cup N) \ G)
<1> DEFINE F == E \cup N
<1>1. F \in SUBSET (Nodes \X Nodes)
  OBVIOUS
<1>2. Link(E \cap Flip(E), E, N) = F \cap Flip(F)
  BY LinkExact
<1> HIDE DEF F
<1>3. Unlink(F \cap Flip(F), G) = (F \ G) \cap Flip(F \ G)
  BY <1>1, UnlinkExact
<1> QED BY <1>2, <1>3, Zenon DEF F
----------------------------------------------------------------------------
\* Processing a TC message keeps the invariant.
LEMMA InputKeepsInv ==
  ASSUME TcInv, NEW o \in Others, NEW m \in Messages(o), InputTc(o, m)
  PROVE  TcInv'
<1>1. CASE IgnoreTc(o, m)
  BY <1>1 DEF IgnoreTc, TcInv, EdgesOK, InverseShortcut, OwnerExists
<1>2. CASE StrayTc(o, m)
  BY <1>2 DEF StrayTc, TcInv, EdgesOK, InverseShortcut, OwnerExists
<1>3. CASE AcceptTc(o, m)
  <2> DEFINE listed == {<<o, d>> : d \in DOMAIN m.adv}
             E == edges \cup listed
             at == UpdatedEdge(o, m)
             del == EmptyTC(m) /\ BorderSet(m)
             gone == IF del THEN {e \in E : e[1] = o} ELSE Revoked(o, m, E, at)
  <2>1. /\ edges' = E \ gone
        /\ inv' = Unlink(Link(inv, edges, listed \ edges), gone)
        /\ nodes' = IF del THEN nodes \ {o} ELSE nodes \cup {o}
        /\ valid' = IF del THEN valid \ {o} ELSE valid \cup {o}
        /\ gc' = IF del THEN gc \ {o} ELSE IF BorderSet(m) THEN gc ELSE gc \cup {o}
    BY <1>3, Zenon DEF AcceptTc
  <2>2. listed \in SUBSET (Nodes \X Nodes) /\ o \in Nodes /\ o # Self
    BY MessagesAssumption DEF Others
  <2>3. edges \in SUBSET (Nodes \X Nodes) /\ E \in SUBSET (Nodes \X Nodes)
    BY <2>2 DEF TcInv, EdgesOK
  <2>4. gone \subseteq E
    BY DEF Revoked
  <2>5. del => \A e \in E : e[1] = o => e \in gone
    OBVIOUS
  <2>6. \A e \in listed : e[1] = o
    OBVIOUS
  <2> HIDE DEF listed, at, del, gone
  <2>7. E = edges \cup (listed \ edges) /\ listed \ edges \in SUBSET (Nodes \X Nodes)
    BY <2>2
  <2>8. InverseShortcut'
    BY <2>1, <2>3, <2>4, <2>7, AddDeleteExact DEF TcInv, InverseShortcut
  <2>9. EdgesOK'
    <3> HIDE DEF E
    <3> QED BY <2>1, <2>2, <2>3 DEF TcInv, EdgesOK
  <2>10. OwnerExists'
    <3>1. ASSUME NEW e \in edges' PROVE e[1] \in nodes'
      <4>1. e \in E /\ e \notin gone
        BY <2>1
      <4>2. e[1] = o \/ e[1] \in nodes
        BY <4>1, <2>6 DEF TcInv, OwnerExists
      <4>3. del => e[1] # o
        BY <4>1, <2>5
      <4> QED BY <2>1, <4>2, <4>3
    <3>2. valid' \subseteq nodes' /\ gc' \subseteq nodes'
      BY <2>1 DEF TcInv, OwnerExists
    <3> QED BY <3>1, <3>2 DEF OwnerExists
  <2> QED BY <2>8, <2>9, <2>10 DEF TcInv
<1> QED BY <1>1, <1>2, <1>3 DEF InputTc

\* A step that only deletes edges G keeps the shortcuts exact.
LEMMA DeleteKeepsInverse ==
  ASSUME TcInv, NEW G \in SUBSET (Nodes \X Nodes),
         edges' = edges \ G, inv' = Unlink(inv, G)
  PROVE  InverseShortcut' /\ edges' \in SUBSET (Nodes \X Nodes)
BY UnlinkExact DEF TcInv, EdgesOK, InverseShortcut

\* The timers, the route calculation and a lost link keep the invariant.
LEMMA BackgroundKeepsInv ==
  ASSUME TcInv, Background
  PROVE  TcInv'
<1>1. ASSUME NEW o \in Others, ExpireTcEdgeGc(o) PROVE TcInv'
  <2> DEFINE G == {e \in Of(o) : Outdated(edge[e].ansn, hdr[o].ansn)}
  <2>1. edges' = edges \ G /\ inv' = Unlink(inv, G) /\ gc' = gc \ {o}
        /\ nodes' = nodes /\ valid' = valid
    BY <1>1, Zenon DEF ExpireTcEdgeGc
  <2>2. G \in SUBSET (Nodes \X Nodes)
    BY DEF Of, TcInv, EdgesOK
  <2> HIDE DEF G
  <2> QED BY <2>1, <2>2, DeleteKeepsInverse DEF TcInv, EdgesOK, OwnerExists
<1>2. ASSUME NEW o \in Others, ExpireTcEntry(o) PROVE TcInv'
  <2>1. edges' = edges \ Of(o) /\ inv' = Unlink(inv, Of(o)) /\ gc' = gc \ {o}
        /\ nodes' = nodes \ {o} /\ valid' = valid \ {o}
    BY <1>2, Zenon DEF ExpireTcEntry
  <2>2. Of(o) \in SUBSET (Nodes \X Nodes)
    BY DEF Of, TcInv, EdgesOK
  <2>3. InverseShortcut' /\ edges' \in SUBSET (Nodes \X Nodes)
    BY <2>1, <2>2, DeleteKeepsInverse
  <2>4. \A e \in edges' : e[1] \in nodes'
    BY <2>1 DEF Of, TcInv, OwnerExists
  <2> QED BY <2>1, <2>3, <2>4 DEF TcInv, EdgesOK, OwnerExists, Others
<1>3. ASSUME NEW o \in Others, LocateTcEntry(o) PROVE TcInv'
  BY <1>3 DEF LocateTcEntry, TcInv, EdgesOK, InverseShortcut, OwnerExists
<1>4. ASSUME NEW S \in SUBSET Others, NEW lost \in SUBSET (Others \ S),
             UpdateSelfEdges([d \in S |-> MaxLq], lost)
      PROVE  TcInv'
  <2> DEFINE sym == [d \in S |-> MaxLq]
             want == {<<Self, d>> : d \in DOMAIN sym}
             G == {e \in Of(Self) : e[2] \in lost}
  <2>1. /\ edges' = (edges \ G) \cup want
        /\ inv' = Link(Unlink(inv, G), edges \ G, want \ edges)
        /\ nodes' = nodes /\ valid' = valid /\ gc' = gc
    BY <1>4, Zenon DEF UpdateSelfEdges
  <2>2. want \in SUBSET (Nodes \X Nodes) /\ G \in SUBSET (Nodes \X Nodes)
    BY NodesAssumption DEF Others, Of, TcInv, EdgesOK
  <2>3. \A e \in want : e[1] = Self /\ e \notin G
    BY NodesAssumption
  <2> HIDE DEF want, G
  <2>4. (edges \ G) \cup (want \ edges) = edges'
    BY <2>1, <2>3
  <2>5. InverseShortcut'
    <3>1. edges \in SUBSET (Nodes \X Nodes) /\ want \ edges \in SUBSET (Nodes \X Nodes)
      BY <2>2 DEF TcInv, EdgesOK
    <3>2. inv' = ((edges \ G) \cup (want \ edges)) \cap Flip((edges \ G) \cup (want \ edges))
      BY <2>1, <2>2, <3>1, ReplaceExact DEF TcInv, InverseShortcut
    <3> QED BY <2>4, <3>2, Zenon DEF InverseShortcut
  <2> QED BY <2>1, <2>2, <2>3, <2>5 DEF TcInv, EdgesOK, OwnerExists
<1>5. ASSUME NEW d \in Others, DeleteSelfEdge(d) PROVE TcInv'
  <2> DEFINE G == {<<Self, d>>} \cap edges
  <2>1. edges' = edges \ G /\ inv' = Unlink(inv, G) /\ gc' = gc
        /\ nodes' = nodes /\ valid' = valid
    BY <1>5, Zenon DEF DeleteSelfEdge
  <2>2. G \in SUBSET (Nodes \X Nodes)
    BY DEF TcInv, EdgesOK
  <2> HIDE DEF G
  <2> QED BY <2>1, <2>2, DeleteKeepsInverse DEF TcInv, EdgesOK, OwnerExists
<1> QED BY <1>1, <1>2, <1>3, <1>4, <1>5 DEF Background

\* The inductive invariant holds.
THEOREM TcInvCorrect == Spec => []TcInv
<1>1. Init => TcInv
  BY NodesAssumption DEF Init, TcInv, EdgesOK, InverseShortcut, OwnerExists
<1>2. TcInv /\ [Next]_vars => TcInv'
  <2> SUFFICES ASSUME TcInv, [Next]_vars PROVE TcInv'
    OBVIOUS
  <2>1. CASE UNCHANGED vars
    BY <2>1 DEF vars, TcInv, EdgesOK, InverseShortcut, OwnerExists
  <2>2. CASE Next
    BY <2>2, InputKeepsInv, BackgroundKeepsInv DEF Next
  <2> QED BY <2>1, <2>2
<1> QED BY <1>1, <1>2, PTL DEF Spec

\* edge_inv is set exactly for the edges whose inverse edge exists.
THEOREM ShortcutsExact == Spec => []InverseShortcut
BY TcInvCorrect, PTL DEF TcInv

\* No edge and no timer outlives its entry.
THEOREM NothingDangles == Spec => []OwnerExists
BY TcInvCorrect, PTL DEF TcInv
----------------------------------------------------------------------------
\* Processing a message signals what it changes.
LEMMA InputSignals ==
  ASSUME NEW o, NEW m, InputTc(o, m), edges' # edges \/ nodes' # nodes
  PROVE  changes'
<1>1. ~IgnoreTc(o, m) /\ ~StrayTc(o, m)
  BY DEF IgnoreTc, StrayTc
<1>2. AcceptTc(o, m)
  BY <1>1 DEF InputTc
<1> DEFINE listed == {<<o, d>> : d \in DOMAIN m.adv}
           E == edges \cup listed
           at == UpdatedEdge(o, m)
           del == EmptyTC(m) /\ BorderSet(m)
           gone == IF del THEN {e \in E : e[1] = o} ELSE Revoked(o, m, E, at)
<1>3. /\ edges' = E \ gone
      /\ nodes' = IF del THEN nodes \ {o} ELSE nodes \cup {o}
      /\ changes' = (changes \/ listed # {} \/ gone # {} \/ del \/ o \notin nodes)
  BY <1>2, Zenon DEF AcceptTc
<1> HIDE DEF listed, at, del, gone
<1>4. listed = {} /\ gone = {} => edges' = edges
  BY <1>3
<1>5. ~del /\ o \in nodes => nodes' = nodes
  BY <1>3
<1> QED BY <1>3, <1>4, <1>5, Zenon

\* An edge or entry that appears or goes leads to a route calculation.
THEOREM ChangesSignalled == Spec => ChangeIsSignalled
<1>1. [Next]_vars => [(edges' # edges \/ nodes' # nodes) => changes' \/ changes]_vars
  <2> SUFFICES ASSUME Next, edges' # edges \/ nodes' # nodes PROVE changes' \/ changes
    BY DEF vars
  <2>1. ASSUME NEW o \in Others, NEW m \in Messages(o), InputTc(o, m) PROVE changes'
    BY <2>1, InputSignals
  <2>2. ASSUME NEW o \in Others, ExpireTcEdgeGc(o) PROVE changes'
    <3> DEFINE G == {e \in Of(o) : Outdated(edge[e].ansn, hdr[o].ansn)}
    <3>1. edges' = edges \ G /\ nodes' = nodes /\ changes' = (changes \/ G # {})
      BY <2>2, Zenon DEF ExpireTcEdgeGc
    <3> HIDE DEF G
    <3>2. G = {} => edges' = edges
      BY <3>1
    <3> QED BY <3>1, <3>2, Zenon
  <2>3. ASSUME NEW o \in Others, ExpireTcEntry(o) PROVE changes'
    BY <2>3 DEF ExpireTcEntry
  <2>4. ASSUME NEW o \in Others, LocateTcEntry(o) PROVE changes'
    BY <2>4 DEF LocateTcEntry
  <2>5. ASSUME NEW S, NEW lost, UpdateSelfEdges([d \in S |-> MaxLq], lost) PROVE changes
    BY <2>5, Zenon DEF UpdateSelfEdges
  <2>6. ASSUME NEW d \in Others, DeleteSelfEdge(d) PROVE changes'
    BY <2>6, Zenon DEF DeleteSelfEdge
  <2> QED BY <2>1, <2>2, <2>3, <2>4, <2>5, <2>6 DEF Next, Background
<1> QED BY <1>1, PTL DEF Spec, ChangeIsSignalled
============================================================================
