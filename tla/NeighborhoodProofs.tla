------------------------- MODULE NeighborhoodProofs -------------------------
(***************************************************************************)
(* The tables of Neighborhood, for any finite number of interfaces,        *)
(* neighbours and addresses: the link set, the neighbour table and the     *)
(* two-hop tables stay linked whatever timers fire and whatever messages   *)
(* arrive, a neighbour with a symmetric link is symmetric, and no change   *)
(* of what MPRs are calculated from goes unnoticed.  And the selections of *)
(* Mpr, for any neighbourhood: whom they take and that they reach all.     *)
(***************************************************************************)
EXTENDS Neighborhood, Mpr, FiniteSetTheorems, TLAPS

Targets == Addrs \cup Mains
Pairs == Neighbors \X Targets

\* The pairs of P that lead to t, and the links of L to n.
To(P, t) == {p \in P : p[2] = t}
LinksTo(L, n) == {l \in L : OwnerOf(l) = n}

\* What the two-hop tables owe each other.
TwoHopsLinked(h) ==
  /\ h \in TwoHopTables
  /\ h.list = h.nblist
  /\ h.timed \subseteq h.list
  /\ h.table = {p[2] : p \in h.list}
  /\ \A t \in Targets : h.pointer[t] = Cardinality(To(h.list, t))

TypeOK ==
  /\ links \subseteq Links /\ sym \subseteq links
  /\ nsym \subseteq Neighbors /\ will \subseteq Neighbors
  /\ known \subseteq {a \in Addrs : Main[a] # a}
  /\ count \in [Neighbors -> Nat]
  /\ changed \in BOOLEAN /\ stale \in BOOLEAN

\* The inductive invariant.
Inv ==
  /\ TypeOK
  /\ \A n \in Neighbors : count[n] = Cardinality(LinksTo(links, n))
  /\ \A n \in nsym \cup will : count[n] > 0
  /\ TwoHopsLinked(th)
  /\ \A p \in th.list : count[p[1]] > 0
  /\ SymLinkSymNeighbor
  /\ RecalculationDue
----------------------------------------------------------------------------
(* Finite sets *)

LEMMA ImageFinite ==
  ASSUME NEW S, IsFiniteSet(S), NEW f
  PROVE  IsFiniteSet({f[x] : x \in S})
<1> DEFINE T == {f[x] : x \in S}
           g == [x \in S |-> f[x]]
<1>1. g \in Surjection(S, T)
  BY DEF Surjection
<1> QED
  BY <1>1, FS_Surjection

LEMMA FinitePairs == IsFiniteSet(Links) /\ IsFiniteSet(Pairs)
<1>1. IsFiniteSet(Senders)
  <2> DEFINE f == [l \in Links |-> l[2]]
  <2>1. IsFiniteSet({f[l] : l \in Links})
    <3> HIDE DEF f
    <3> QED BY ImageFinite, FiniteNetwork
  <2>2. {f[l] : l \in Links} = Senders
    BY DEF Senders
  <2> QED BY <2>1, <2>2
<1>2. IsFiniteSet(Addrs)
  BY <1>1, FiniteNetwork, FS_Union, Zenon DEF Addrs
<1>3. IsFiniteSet(Mains) /\ IsFiniteSet(Neighbors)
  BY <1>1, <1>2, ImageFinite DEF Mains, Neighbors
<1>4. IsFiniteSet(Targets)
  BY <1>2, <1>3, FS_Union, Zenon DEF Targets
<1> QED
  BY <1>3, <1>4, FS_Product, FiniteNetwork DEF Pairs

\* Taking pairs away takes as many from the count of each target.
LEMMA FewerPairs ==
  ASSUME NEW P \in SUBSET Pairs, NEW Q \in SUBSET P, NEW t
  PROVE  /\ IsFiniteSet(To(P, t))
         /\ Cardinality(To(P, t)) \in Nat
         /\ Cardinality(To(Q, t)) \in Nat
         /\ Cardinality(To(P \ Q, t)) = Cardinality(To(P, t)) - Cardinality(To(Q, t))
<1>1. IsFiniteSet(P)
  BY FinitePairs, FS_Subset
<1>2. IsFiniteSet(To(P, t)) /\ IsFiniteSet(To(Q, t))
  <2>1. To(P, t) \in SUBSET P /\ To(Q, t) \in SUBSET P
    BY DEF To
  <2> QED BY <1>1, <2>1, FS_Subset
<1>3. Cardinality(To(P, t) \ To(Q, t)) = Cardinality(To(P, t)) - Cardinality(To(P, t) \cap To(Q, t))
  BY <1>2, FS_Difference
<1>4. To(P, t) \cap To(Q, t) = To(Q, t) /\ To(P, t) \ To(Q, t) = To(P \ Q, t)
  BY DEF To
<1> QED
  BY <1>2, <1>3, <1>4, FS_CardinalityType, Zenon

LEMMA FewerLinks ==
  ASSUME NEW P \in SUBSET Links, NEW Q \in SUBSET P, NEW n
  PROVE  /\ IsFiniteSet(LinksTo(P, n))
         /\ Cardinality(LinksTo(P, n)) \in Nat
         /\ Cardinality(LinksTo(Q, n)) \in Nat
         /\ Cardinality(LinksTo(P \ Q, n)) = Cardinality(LinksTo(P, n)) - Cardinality(LinksTo(Q, n))
<1>1. IsFiniteSet(P)
  BY FinitePairs, FS_Subset
<1>2. IsFiniteSet(LinksTo(P, n)) /\ IsFiniteSet(LinksTo(Q, n))
  <2>1. LinksTo(P, n) \in SUBSET P /\ LinksTo(Q, n) \in SUBSET P
    BY DEF LinksTo
  <2> QED BY <1>1, <2>1, FS_Subset
<1>3. Cardinality(LinksTo(P, n) \ LinksTo(Q, n))
        = Cardinality(LinksTo(P, n)) - Cardinality(LinksTo(P, n) \cap LinksTo(Q, n))
  BY <1>2, FS_Difference
<1>4. LinksTo(P, n) \cap LinksTo(Q, n) = LinksTo(Q, n) /\ LinksTo(P, n) \ LinksTo(Q, n) = LinksTo(P \ Q, n)
  BY DEF LinksTo
<1> QED
  BY <1>2, <1>3, <1>4, FS_CardinalityType, Zenon
----------------------------------------------------------------------------
(* The two-hop tables *)

LEMMA TablesType ==
  ASSUME NEW h \in TwoHopTables,
         NEW list \in SUBSET Pairs, NEW nblist \in SUBSET Pairs, NEW timed \in SUBSET Pairs,
         NEW table \in SUBSET Targets, NEW pointer \in [Targets -> Int]
  PROVE  [h EXCEPT !.list = list, !.nblist = nblist, !.timed = timed, !.table = table, !.pointer = pointer]
           \in TwoHopTables
BY Zenon DEF TwoHopTables, Pairs, Targets

\* olsr_delete_two_hop_neighbor_table leaves nothing behind.
LEMMA DeleteKeepsLinked ==
  ASSUME NEW h, TwoHopsLinked(h), NEW S
  PROVE  /\ TwoHopsLinked(DeleteTwoHops(h, S))
         /\ DeleteTwoHops(h, S).list \subseteq h.list
<1> DEFINE gone == {p \in h.nblist : p[2] \in S \cap h.table}
           d == DeleteTwoHops(h, S)
<1>1. gone = {p \in h.list : p[2] \in S}
  BY DEF TwoHopsLinked
<1>2. h.list \in SUBSET Pairs /\ h.timed \subseteq h.list /\ h.pointer \in [Targets -> Int]
  BY DEF TwoHopsLinked, TwoHopTables, Pairs, Targets
<1>3. /\ d.list = h.list \ gone /\ d.nblist = h.nblist \ gone /\ d.timed = h.timed \ gone
      /\ d.table = h.table \ S
      /\ d.pointer = [t \in Targets |-> IF t \in S THEN 0 ELSE h.pointer[t]]
  <2>1. h \in TwoHopTables
    BY DEF TwoHopsLinked
  <2>2. /\ d.list = h.list \ gone /\ d.nblist = h.nblist \ gone /\ d.timed = h.timed \ gone
        /\ d.table = h.table \ S
    BY <2>1 DEF DeleteTwoHops, TwoHopTables
  <2>3. d.pointer = [t \in Targets |-> IF t \in S THEN 0 ELSE h.pointer[t]]
    BY <1>2, <2>1 DEF DeleteTwoHops, TwoHopTables
  <2> QED BY <2>2, <2>3
<1>4. d \in TwoHopTables
  <2>1. /\ d.list \in SUBSET Pairs /\ d.nblist \in SUBSET Pairs /\ d.timed \in SUBSET Pairs
        /\ d.table \in SUBSET Targets /\ d.pointer \in [Targets -> Int]
    <3> HIDE DEF d
    <3> QED BY <1>2, <1>3 DEF TwoHopsLinked, TwoHopTables, Targets, Pairs
  <2>2. d = [h EXCEPT !.list = d.list, !.nblist = d.nblist, !.timed = d.timed, !.table = d.table,
                      !.pointer = d.pointer]
    BY <1>3 DEF DeleteTwoHops, TwoHopsLinked, TwoHopTables
  <2>3. h \in TwoHopTables
    BY DEF TwoHopsLinked
  <2> HIDE DEF d
  <2>4. [h EXCEPT !.list = d.list, !.nblist = d.nblist, !.timed = d.timed, !.table = d.table,
                  !.pointer = d.pointer] \in TwoHopTables
    BY <2>1, <2>3, TablesType, Zenon
  <2> QED BY <2>2, <2>4
<1>5. d.table = {p[2] : p \in d.list}
  <2> HIDE DEF d
  <2> QED BY <1>1, <1>3 DEF TwoHopsLinked
<1>6. ASSUME NEW t \in Targets
      PROVE  d.pointer[t] = Cardinality(To(d.list, t))
  <2>1. CASE t \in S
    <3>1. To(d.list, t) = {}
      <4> HIDE DEF d
      <4> QED BY <1>1, <1>3, <2>1 DEF To
    <3> HIDE DEF d
    <3> QED BY <1>3, <2>1, <3>1, FS_EmptySet
  <2>2. CASE t \notin S
    <3>1. To(d.list, t) = To(h.list, t)
      <4> HIDE DEF d
      <4> QED BY <1>1, <1>3, <2>2 DEF To
    <3> HIDE DEF d
    <3> QED BY <1>3, <2>2, <3>1 DEF TwoHopsLinked
  <2> QED BY <2>1, <2>2
<1> HIDE DEF d
<1>7. d.list = d.nblist /\ d.timed \subseteq d.list /\ d.list \subseteq h.list
  BY <1>2, <1>3 DEF TwoHopsLinked
<1> QED
  BY <1>4, <1>5, <1>6, <1>7 DEF TwoHopsLinked, d

\* Pairs that go take exactly their two-hop neighbours without other pairs along.
LEMMA UnlinkKeepsLinked ==
  ASSUME NEW h, TwoHopsLinked(h), NEW P \in SUBSET h.list
  PROVE  /\ TwoHopsLinked(Unlink(h, P))
         /\ Unlink(h, P).list = h.list \ P
<1> DEFINE left == [t \in DOMAIN h.pointer |-> h.pointer[t] - Cardinality({p \in P : p[2] = t})]
           d == Unlink(h, P)
<1>1. h.list \in SUBSET Pairs /\ h.timed \subseteq h.list /\ h.pointer \in [Targets -> Int]
  BY DEF TwoHopsLinked, TwoHopTables, Pairs, Targets
<1>2. \A t \in Targets : left[t] = Cardinality(To(h.list \ P, t))
  <2> TAKE t \in Targets
  <2>1. left[t] = h.pointer[t] - Cardinality(To(P, t))
    BY <1>1 DEF To
  <2>2. Cardinality(To(h.list \ P, t)) = Cardinality(To(h.list, t)) - Cardinality(To(P, t))
    BY <1>1, FewerPairs
  <2> QED BY <2>1, <2>2 DEF TwoHopsLinked
<1>3. \A t \in Targets : Cardinality(To(h.list \ P, t)) \in Nat
  BY <1>1, FewerPairs, Zenon
<1>4. /\ d.list = h.list \ P /\ d.nblist = h.nblist \ P /\ d.timed = h.timed \ P
      /\ d.table = {t \in h.table : left[t] >= 1 \/ \A p \in P : p[2] # t}
      /\ d.pointer = left
  <2>1. h \in TwoHopTables
    BY DEF TwoHopsLinked
  <2>2. /\ d.list = h.list \ P /\ d.nblist = h.nblist \ P /\ d.timed = h.timed \ P
        /\ d.table = {t \in h.table : left[t] >= 1 \/ \A p \in P : p[2] # t}
    BY <2>1 DEF Unlink, TwoHopTables
  <2>3. d.pointer = left
    BY <2>1 DEF Unlink, TwoHopTables
  <2> QED BY <2>2, <2>3
<1>5. left \in [Targets -> Int]
  <2>1. \A t \in Targets : left[t] \in Int
    <3> HIDE DEF left
    <3> QED BY <1>2, <1>3
  <2>2. left = [t \in Targets |-> left[t]]
    BY <1>1
  <2> HIDE DEF left
  <2> QED BY <2>1, <2>2
<1> HIDE DEF d, left
<1>6. d \in TwoHopTables
  <2>1. /\ d.list \in SUBSET Pairs /\ d.nblist \in SUBSET Pairs /\ d.timed \in SUBSET Pairs
        /\ d.table \in SUBSET Targets /\ d.pointer \in [Targets -> Int]
    BY <1>1, <1>4, <1>5 DEF TwoHopsLinked, TwoHopTables, Targets, Pairs
  <2>2. d = [h EXCEPT !.list = d.list, !.nblist = d.nblist, !.timed = d.timed, !.table = d.table,
                      !.pointer = d.pointer]
    BY <1>4, Zenon DEF Unlink, TwoHopsLinked, TwoHopTables, d, left
  <2>3. h \in TwoHopTables
    BY DEF TwoHopsLinked
  <2>4. [h EXCEPT !.list = d.list, !.nblist = d.nblist, !.timed = d.timed, !.table = d.table,
                  !.pointer = d.pointer] \in TwoHopTables
    BY <2>1, <2>3, TablesType, Zenon
  <2> QED BY <2>2, <2>4
<1>7. h.table \subseteq Targets
  BY <1>1 DEF TwoHopsLinked, TwoHopTables, Targets
<1>8. ASSUME NEW t \in h.table
      PROVE  t \in d.table <=> \E p \in h.list \ P : p[2] = t
  <2>1. IsFiniteSet(To(h.list \ P, t))
    BY <1>1, FewerPairs, Zenon
  <2>2. left[t] >= 1 <=> To(h.list \ P, t) # {}
    <3>1. Cardinality(To(h.list \ P, t)) = 0 <=> To(h.list \ P, t) = {}
      BY <2>1, FS_EmptySet
    <3>2. left[t] = Cardinality(To(h.list \ P, t)) /\ left[t] \in Nat
      BY <1>2, <1>3, <1>7
    <3> QED BY <3>1, <3>2
  <2>3. (\A p \in P : p[2] # t) => To(h.list \ P, t) # {}
    BY DEF TwoHopsLinked, To
  <2>4. To(h.list \ P, t) # {} <=> \E p \in h.list \ P : p[2] = t
    BY DEF To
  <2> QED BY <1>4, <2>2, <2>3, <2>4, Zenon
<1>9. d.table = {p[2] : p \in d.list}
  <2>1. \A p \in h.list : p[2] \in h.table
    BY DEF TwoHopsLinked
  <2>2. d.table \subseteq h.table
    BY <1>4
  <2> QED BY <1>4, <1>8, <2>1, <2>2
<1>10. d.list = d.nblist /\ d.timed \subseteq d.list
  BY <1>1, <1>4 DEF TwoHopsLinked
<1> QED
  BY <1>2, <1>4, <1>6, <1>9, <1>10, Zenon DEF TwoHopsLinked, d

\* process_message_neighbors links each new pair once, in both lists.
LEMMA ListKeepsLinked ==
  ASSUME NEW h, TwoHopsLinked(h), NEW n \in Neighbors, NEW T \in SUBSET Targets
  PROVE  /\ TwoHopsLinked(ListNeighbors(h, n, T))
         /\ ListNeighbors(h, n, T).list = h.list \cup {<<n, t>> : t \in T}
<1> DEFINE new == {t \in T : <<n, t>> \notin h.list}
           d == ListNeighbors(h, n, T)
<1>1. h.list \in SUBSET Pairs /\ h.timed \subseteq h.list /\ h.pointer \in [Targets -> Int]
  BY SMTT(30) DEF TwoHopsLinked, TwoHopTables, Pairs, Targets
<1>2. /\ d.list = h.list \cup {<<n, t>> : t \in new}
      /\ d.nblist = h.nblist \cup {<<n, t>> : t \in new}
      /\ d.timed = h.timed \cup {<<n, t>> : t \in T \ new}
      /\ d.table = h.table \cup new
      /\ d.pointer = [t \in Targets |->
           IF t \notin new THEN h.pointer[t] ELSE IF t \in h.table THEN h.pointer[t] + 1 ELSE 1]
      /\ d = [list |-> d.list, nblist |-> d.nblist, timed |-> d.timed, table |-> d.table, pointer |-> d.pointer]
  BY <1>1, Zenon DEF ListNeighbors
<1> HIDE DEF d
<1>3. \A t \in T : <<n, t>> \in Pairs /\ <<n, t>>[1] = n /\ <<n, t>>[2] = t
  BY DEF Pairs
<1> DEFINE added == {<<n, t>> : t \in new}
           again == {<<n, t>> : t \in T \ new}
<1>31. added \in SUBSET Pairs /\ again \subseteq h.list
  BY <1>3, Zenon
<1>32. \A p \in added : p[2] \in new /\ p = <<n, p[2]>>
  BY <1>3, Zenon
<1>33. \A t \in new : <<n, t>> \in added
  OBVIOUS
<1>34. /\ d.list = h.list \cup added
       /\ d.nblist = h.nblist \cup added
       /\ d.timed = h.timed \cup again
  BY <1>2
<1>35. h.list \cup added = h.list \cup {<<n, t>> : t \in T}
  BY <1>3, Zenon
<1> HIDE DEF added, again
<1>4. d \in TwoHopTables
  <2>1. /\ d.list \in SUBSET Pairs /\ d.nblist \in SUBSET Pairs /\ d.timed \in SUBSET Pairs
        /\ d.table \in SUBSET Targets
    BY <1>1, <1>2, <1>31, <1>34, Zenon DEF TwoHopsLinked, TwoHopTables, Targets, Pairs
  <2>2. d.pointer \in [Targets -> Int]
    BY <1>1, <1>2
  <2> QED BY <1>2, <2>1, <2>2, Zenon DEF TwoHopTables, Pairs, Targets
<1>5. d.table = {p[2] : p \in d.list}
  <2>1. {p[2] : p \in h.list} = h.table /\ d.table = h.table \cup new
    BY <1>2 DEF TwoHopsLinked
  <2>2. {p[2] : p \in added} = new
    <3>1. new \subseteq {p[2] : p \in added}
      <4> SUFFICES ASSUME NEW t \in new PROVE \E p \in added : p[2] = t
        OBVIOUS
      <4> QED BY <1>3, <1>33
    <3> QED BY <1>32, <3>1, Zenon
  <2>3. {p[2] : p \in d.list} = {p[2] : p \in h.list} \cup {p[2] : p \in added}
    BY <1>34
  <2> QED BY <2>1, <2>2, <2>3
<1>6. ASSUME NEW t \in Targets
      PROVE  d.pointer[t] = Cardinality(To(d.list, t))
  <2>1. CASE t \notin new
    <3>1. To(d.list, t) = To(h.list, t)
      BY <1>32, <1>34, <2>1, Zenon DEF To
    <3> QED BY <1>2, <2>1, <3>1 DEF TwoHopsLinked
  <2>2. CASE t \in new
    <3>1. To(d.list, t) = To(h.list, t) \cup {<<n, t>>}
      BY <1>3, <1>32, <1>33, <1>34, <2>2, Zenon DEF To
    <3>2. <<n, t>> \notin To(h.list, t)
      BY <2>2 DEF To
    <3>3. IsFiniteSet(To(h.list, t)) /\ Cardinality(To(h.list, t)) \in Nat
      BY <1>1, FewerPairs, Zenon
    <3>4. Cardinality(To(d.list, t)) = Cardinality(To(h.list, t)) + 1
      BY <3>1, <3>2, <3>3, FS_AddElement, Zenon
    <3>5. t \notin h.table => To(h.list, t) = {}
      BY DEF TwoHopsLinked, To
    <3>6. t \notin h.table => Cardinality(To(h.list, t)) = 0
      BY <3>5, FS_EmptySet
    <3> QED BY <1>2, <2>2, <3>3, <3>4, <3>6 DEF TwoHopsLinked
  <2> QED BY <2>1, <2>2
<1>7. d.list = d.nblist /\ d.timed \subseteq d.list /\ d.list = h.list \cup {<<n, t>> : t \in T}
  BY <1>1, <1>31, <1>34, <1>35 DEF TwoHopsLinked
<1> QED
  BY <1>4, <1>5, <1>6, <1>7 DEF TwoHopsLinked, d
----------------------------------------------------------------------------
(* Steps *)

LEMMA InitInv == Init => Inv
<1> SUFFICES ASSUME Init PROVE Inv
  OBVIOUS
<1>1. TypeOK
  BY Zenon DEF Init, TypeOK
<1>2. \A n \in Neighbors : count[n] = Cardinality(LinksTo(links, n))
  <2>1. \A n \in Neighbors : LinksTo({}, n) = {} /\ count[n] = 0 /\ links = {}
    BY DEF Init, LinksTo
  <2> QED BY <2>1, FS_EmptySet
<1>3. TwoHopsLinked(th)
  <2>1. \A t : To({}, t) = {}
    BY DEF To
  <2>2. \A t \in Targets : th.pointer[t] = Cardinality(To(th.list, t))
    BY <2>1, FS_EmptySet DEF Init, Targets
  <2> QED BY <2>2 DEF Init, TwoHopsLinked, TwoHopTables, Targets
<1> QED
  BY <1>1, <1>2, <1>3 DEF Inv, Init, SymLinkSymNeighbor, RecalculationDue

\* A neighbour without aliases is found by get_neighbor_status with any link.
LEMMA FoundByOneLink ==
  ASSUME TypeOK, NEW l \in Links, Aliases(OwnerOf(l)) = {},
         NEW S \in SUBSET Links, NEW k \in S, OwnerOf(k) = OwnerOf(l)
  PROVE  SymTo(l[2], S, known)
<1>1. l[2] \in Addrs /\ k[2] \in Addrs
  BY DEF Addrs, Senders
<1>2. l[2] = OwnerOf(l) /\ k[2] = OwnerOf(l)
  BY <1>1 DEF Aliases, OwnerOf
<1>3. l[2] \notin known
  BY <1>2 DEF TypeOK, OwnerOf
<1> QED
  BY <1>2, <1>3 DEF SymTo, MainAddr

LEMMA OwnerIsNeighbor ==
  ASSUME NEW l \in Links
  PROVE  OwnerOf(l) \in Neighbors /\ l[2] \in Addrs
BY DEF OwnerOf, Neighbors, Senders, Addrs

\* olsr_delete_link_entry: a neighbour goes with the last of its links.
LEMMA DeleteLinksKeeps ==
  ASSUME Inv, NEW L \in SUBSET links, DeleteLinks(L)
  PROVE  Inv'
<1> USE DEF Inv
<1> DEFINE left == links \ L
<1>1. /\ links' = left /\ sym' = sym \ L /\ nsym' = nsym \ Gone(L) /\ will' = will \ Gone(L)
      /\ th' = Unlink(th, PairsOf(th, Gone(L))) /\ known' = known
      /\ count' = [n \in Neighbors |-> IF n \in Gone(L) THEN 0 ELSE count[n] - Lost(L, n)]
      /\ changed' = TRUE /\ stale' \in BOOLEAN
  BY Zenon DEF DeleteLinks, Flag, TypeOK
<1>2. ASSUME NEW n \in Neighbors
      PROVE  /\ Lost(L, n) \in Nat /\ count[n] \in Nat
             /\ IsFiniteSet(LinksTo(left, n))
             /\ Cardinality(LinksTo(left, n)) \in Nat
             /\ Cardinality(LinksTo(left, n)) = count[n] - Lost(L, n)
  <2>1. Lost(L, n) = Cardinality(LinksTo(L, n))
    BY DEF Lost, LinksTo
  <2>2. links \in SUBSET Links /\ left \in SUBSET Links /\ L \in SUBSET links
    BY DEF TypeOK
  <2>3. /\ Cardinality(LinksTo(L, n)) \in Nat
        /\ Cardinality(LinksTo(left, n)) = Cardinality(LinksTo(links, n)) - Cardinality(LinksTo(L, n))
    BY <2>2, FewerLinks
  <2>4. IsFiniteSet(LinksTo(left, n)) /\ Cardinality(LinksTo(left, n)) \in Nat
    BY <2>2, FewerLinks, Zenon
  <2> QED BY <2>1, <2>3, <2>4 DEF TypeOK
<1>3. \A n \in Neighbors : n \in Gone(L) <=> Lost(L, n) > 0 /\ count[n] <= Lost(L, n)
  BY DEF Gone
<1>4. ASSUME NEW n \in Neighbors
      PROVE  count'[n] = Cardinality(LinksTo(left, n)) /\ count'[n] \in Nat
  <2>1. count'[n] = IF n \in Gone(L) THEN 0 ELSE count[n] - Lost(L, n)
    BY <1>1
  <2> HIDE DEF left, Inv
  <2>2. n \in Gone(L) => Cardinality(LinksTo(left, n)) = 0
    BY <1>2, <1>3
  <2> QED BY <1>2, <2>1, <2>2
<1>5. \A n \in Neighbors \ Gone(L) : count[n] > 0 => count'[n] > 0
  BY <1>1, <1>2, <1>3, <1>4
<1>6. TypeOK'
  <2>1. count' \in [Neighbors -> Nat]
    BY <1>1, <1>4
  <2> QED BY <1>1, <2>1 DEF TypeOK
<1>7. PairsOf(th, Gone(L)) \in SUBSET th.list
  BY DEF PairsOf
<1>8. TwoHopsLinked(th') /\ th'.list = th.list \ PairsOf(th, Gone(L))
  BY <1>1, <1>7, UnlinkKeepsLinked
<1>9. \A p \in th'.list : count'[p[1]] > 0
  <2>1. \A p \in th.list : p[1] \in Neighbors
    BY DEF TwoHopsLinked, TwoHopTables
  <2> QED BY <1>5, <1>8, <2>1 DEF PairsOf
<1>10. \A n \in nsym' \cup will' : count'[n] > 0
  BY <1>1, <1>5 DEF TypeOK
<1>11. SymLinkSymNeighbor'
  <2> SUFFICES ASSUME NEW l \in sym \ L, Aliases(OwnerOf(l)) = {}
               PROVE  OwnerOf(l) \in nsym \ Gone(L)
    BY <1>1 DEF SymLinkSymNeighbor
  <2>1. OwnerOf(l) \in nsym /\ OwnerOf(l) \in Neighbors /\ l \in LinksTo(left, OwnerOf(l))
    BY OwnerIsNeighbor DEF SymLinkSymNeighbor, TypeOK, LinksTo
  <2>2. Cardinality(LinksTo(left, OwnerOf(l))) # 0
    BY <1>2, <2>1, FS_EmptySet, Zenon
  <2> QED BY <1>2, <1>3, <2>1, <2>2, SMTT(30)
<1>12. RecalculationDue'
  BY <1>1 DEF RecalculationDue
<1>13. \A n \in Neighbors : count'[n] = Cardinality(LinksTo(links', n))
  BY <1>1, <1>4, ZenonT(30)
<1> QED
  BY <1>6, <1>8, <1>9, <1>10, <1>11, <1>12, <1>13, Zenon DEF TwoHopsLinked

\* olsr_hello_tap
LEMMA HelloKeeps ==
  ASSUME Inv, NEW l \in Links, NEW type, NEW willing \in BOOLEAN, NEW T \in SUBSET Listed,
         Hello(l, type, willing, T)
  PROVE  Inv'
<1> USE DEF Inv
<1> DEFINE n == OwnerOf(l)
           isSym == SymTo(l[2], sym', known)
           t1 == TwoHopAfter(n, isSym)
           aliased == l[2] # n
           t2 == IF aliased /\ l[2] \notin known THEN InsertAliases(t1, n, known') ELSE t1
           names == {MainAddr(a, known') : a \in T}
           t3 == IF willing THEN ListNeighbors(t2, n, names) ELSE t2
<1>1. /\ links' = links \cup {l} /\ count' = CountAfter(l) /\ sym' = SymAfter(l, type)
      /\ nsym' = StatusAfter(n, isSym)
      /\ known' = IF aliased THEN known \cup {l[2]} ELSE known
      /\ will' = IF willing THEN will \cup {n} ELSE will \ {n}
      /\ th' = t3
      /\ FlagAndProcess(nsym' # nsym \/ aliased \/ will' # will \/ t3.list # t2.list)
  BY Zenon DEF Hello
<1> HIDE DEF t3, t2, t1, isSym, names
<1>2. n \in Neighbors /\ l[2] \in Addrs
  BY OwnerIsNeighbor
<1>3. sym \ {l} \subseteq sym' /\ sym' \subseteq sym \cup {l}
  BY <1>1 DEF SymAfter
<1>4. count' = [count EXCEPT ![n] = IF l \in links THEN count[n] ELSE count[n] + 1]
  BY <1>1 DEF CountAfter
<1>5. TypeOK'
  <2>1. count' \in [Neighbors -> Nat]
    BY <1>2, <1>4, SMTT(30) DEF TypeOK
  <2>2. links' \subseteq Links /\ sym' \subseteq links'
    BY <1>1, <1>3 DEF TypeOK
  <2>3. nsym' \subseteq Neighbors /\ will' \subseteq Neighbors
    BY <1>1, <1>2 DEF TypeOK, StatusAfter
  <2>4. known' \subseteq {a \in Addrs : Main[a] # a}
    BY <1>1, <1>2 DEF TypeOK, OwnerOf
  <2>5. changed' \in BOOLEAN /\ stale' \in BOOLEAN
    BY <1>1, Zenon DEF FlagAndProcess
  <2> QED BY <2>1, <2>2, <2>3, <2>4, <2>5 DEF TypeOK
<1>6. \A m \in Neighbors : count'[m] = Cardinality(LinksTo(links', m))
  <2> TAKE m \in Neighbors
  <2>1. IsFiniteSet(LinksTo(links, m)) /\ Cardinality(LinksTo(links, m)) \in Nat
    BY FewerLinks, Zenon DEF TypeOK
  <2>2. CASE l \in links \/ m # n
    <3>1. LinksTo(links', m) = LinksTo(links, m)
      BY <1>1, <2>2 DEF LinksTo
    <3>2. count'[m] = count[m]
      BY <1>2, <1>4, <2>2 DEF TypeOK
    <3> QED BY <3>1, <3>2
  <2>3. CASE l \notin links /\ m = n
    <3>1. LinksTo(links', m) = LinksTo(links, m) \cup {l} /\ l \notin LinksTo(links, m)
      BY <1>1, <2>3 DEF LinksTo
    <3>2. Cardinality(LinksTo(links', m)) = Cardinality(LinksTo(links, m)) + 1
      BY <2>1, <3>1, FS_AddElement, Zenon
    <3>3. count'[m] = count[m] + 1
      BY <1>2, <1>4, <2>3 DEF TypeOK
    <3> QED BY <3>2, <3>3
  <2> QED BY <2>2, <2>3
<1>7. count'[n] > 0 /\ \A m \in Neighbors : count[m] > 0 => count'[m] > 0
  <2>1. CASE l \notin links
    BY <1>2, <1>4, <2>1 DEF TypeOK
  <2>2. CASE l \in links
    <3>1. count' = count
      BY <1>2, <1>4, <2>2 DEF TypeOK
    <3>2. l \in LinksTo(links, n) /\ IsFiniteSet(LinksTo(links, n)) /\ Cardinality(LinksTo(links, n)) \in Nat
      <4>1. l \in LinksTo(links, n)
        BY <2>2 DEF LinksTo
      <4>2. links \in SUBSET Links /\ links \in SUBSET links
        BY DEF TypeOK
      <4> QED BY <4>1, <4>2, FewerLinks, Zenon
    <3>3. Cardinality(LinksTo(links, n)) # 0
      BY <3>2, FS_EmptySet
    <3>4. count[n] > 0
      BY <1>2, <3>2, <3>3
    <3> QED BY <3>1, <3>4
  <2> QED BY <2>1, <2>2
<1>8. \A m \in nsym' \cup will' : count'[m] > 0
  BY <1>1, <1>7 DEF StatusAfter, TypeOK
<1>9. TwoHopsLinked(t1) /\ t1.list \subseteq th.list
  BY DeleteKeepsLinked DEF t1, TwoHopAfter
<1>10. TwoHopsLinked(t2) /\ t2.list \subseteq th.list
  BY <1>9, DeleteKeepsLinked DEF t2, InsertAliases
<1>11. names \in SUBSET Targets
  BY DEF names, MainAddr, Targets, Mains, Addrs
<1>12. TwoHopsLinked(th') /\ \A p \in th'.list : p \in th.list \/ p[1] = n
  <2>1. CASE willing
    <3>1. /\ TwoHopsLinked(ListNeighbors(t2, n, names))
          /\ ListNeighbors(t2, n, names).list = t2.list \cup {<<n, t>> : t \in names}
      BY <1>2, <1>10, <1>11, ListKeepsLinked, SMTT(30)
    <3>2. th' = ListNeighbors(t2, n, names)
      BY <1>1, <2>1, SMTT(30) DEF t3
    <3> QED BY <1>10, <3>1, <3>2
  <2>2. CASE ~willing
    BY <1>1, <1>10, <2>2, SMTT(30) DEF t3
  <2> QED BY <2>1, <2>2
<1>13. \A p \in th'.list : count'[p[1]] > 0
  <2>1. \A p \in th.list : p[1] \in Neighbors
    BY DEF TwoHopsLinked, TwoHopTables
  <2> QED BY <1>7, <1>12, <2>1
<1>14. SymLinkSymNeighbor'
  <2> SUFFICES ASSUME NEW k \in sym', Aliases(OwnerOf(k)) = {}
               PROVE  OwnerOf(k) \in nsym'
    BY DEF SymLinkSymNeighbor
  <2>1. CASE OwnerOf(k) = n
    <3>1. sym' \in SUBSET Links
      BY <1>5 DEF TypeOK
    <3>2. isSym
      BY <2>1, <3>1, FoundByOneLink, SMTT(30) DEF isSym
    <3> QED BY <1>1, <2>1, <3>2 DEF StatusAfter
  <2>2. CASE OwnerOf(k) # n
    BY <1>1, <1>3, <2>2, SMTT(30) DEF SymLinkSymNeighbor, StatusAfter
  <2> QED BY <2>1, <2>2
<1>15. RecalculationDue'
  <2>1. CASE changed \/ nsym' # nsym \/ aliased \/ will' # will \/ t3.list # t2.list
    BY <1>1, <2>1, Zenon DEF FlagAndProcess, RecalculationDue
  <2>2. CASE ~(changed \/ nsym' # nsym \/ aliased \/ will' # will \/ t3.list # t2.list)
    <3>1. t1 = th
      BY <1>1, <2>2 DEF t1, TwoHopAfter, StatusAfter
    <3>2. th'.list = th.list
      BY <1>1, <2>2, <3>1 DEF t2
    <3>3. MprInput' = MprInput /\ ~stale
      BY <2>2, <3>2 DEF MprInput, RecalculationDue, TypeOK
    <3> QED BY <1>1, <3>3, ZenonT(30) DEF FlagAndProcess, RecalculationDue
  <2> QED BY <2>1, <2>2, SMTT(30)
<1> QED
  BY <1>5, <1>6, <1>8, <1>12, <1>13, <1>14, <1>15 DEF TwoHopsLinked

\* olsr_expire_link_sym_timer
LEMMA ExpireSymKeeps ==
  ASSUME Inv, NEW l \in Links, ExpireLinkSymTimer(l)
  PROVE  Inv'
<1> USE DEF Inv
<1> DEFINE n == OwnerOf(l)
           isSym == SymTo(l[2], sym', known)
<1>1. /\ l \in sym /\ sym' = sym \ {l}
      /\ l \in prevSym => nsym' = StatusAfter(n, isSym) /\ th' = TwoHopAfter(n, isSym)
      /\ l \notin prevSym => nsym' = nsym /\ th' = th
      /\ links' = links /\ count' = count /\ will' = will /\ known' = known
      /\ changed' = (changed \/ l \in prevSym) /\ stale' = (stale \/ MprInput' # MprInput)
  BY SMTT(30) DEF ExpireLinkSymTimer, Flag
<1> HIDE DEF isSym
<1>2. n \in Neighbors
  BY OwnerIsNeighbor
<1>3. count[n] > 0
  <2>1. links \in SUBSET Links /\ links \in SUBSET links /\ l \in LinksTo(links, n)
    BY <1>1 DEF TypeOK, LinksTo
  <2>2. IsFiniteSet(LinksTo(links, n)) /\ Cardinality(LinksTo(links, n)) \in Nat
    BY <2>1, FewerLinks, Zenon
  <2>3. Cardinality(LinksTo(links, n)) # 0
    BY <2>1, <2>2, FS_EmptySet
  <2> QED BY <1>2, <2>2, <2>3
<1>4. TypeOK'
  BY <1>1, <1>2 DEF TypeOK, StatusAfter
<1>5. \A m \in Neighbors : count'[m] = Cardinality(LinksTo(links', m))
  BY <1>1
<1>6. \A m \in nsym' \cup will' : count'[m] > 0
  BY <1>1, <1>3, SMTT(30) DEF StatusAfter
<1>7. TwoHopsLinked(th') /\ th'.list \subseteq th.list
  BY <1>1, DeleteKeepsLinked DEF TwoHopAfter
<1>8. \A p \in th'.list : count'[p[1]] > 0
  BY <1>1, <1>7
<1>9. SymLinkSymNeighbor'
  <2> SUFFICES ASSUME NEW k \in sym', Aliases(OwnerOf(k)) = {}
               PROVE  OwnerOf(k) \in nsym'
    BY DEF SymLinkSymNeighbor
  <2>1. OwnerOf(k) \in nsym
    BY <1>1 DEF SymLinkSymNeighbor
  <2>2. CASE OwnerOf(k) = n
    <3>1. sym' \in SUBSET Links
      BY <1>4 DEF TypeOK
    <3>2. isSym
      BY <2>2, <3>1, FoundByOneLink DEF isSym
    <3> QED BY <1>1, <2>1, <3>2, Zenon DEF StatusAfter
  <2>3. CASE OwnerOf(k) # n
    BY <1>1, <2>1, <2>3 DEF StatusAfter
  <2> QED BY <2>2, <2>3
<1>10. RecalculationDue'
  <2>1. l \notin prevSym => MprInput' = MprInput
    BY <1>1 DEF MprInput
  <2> QED BY <1>1, <2>1, Zenon DEF RecalculationDue
<1> QED
  BY <1>4, <1>5, <1>6, <1>7, <1>8, <1>9, <1>10, SMTT(30) DEF TwoHopsLinked

\* The actions that change the two-hop tables or the aliases only.
LEMMA TablesStepKeeps ==
  ASSUME Inv, UNCHANGED <<links, sym, count, nsym, will>>, NEW f \in BOOLEAN, Flag(f),
         known' \subseteq {a \in Addrs : Main[a] # a},
         TwoHopsLinked(th'), th'.list \subseteq th.list, f \/ th'.list = th.list
  PROVE  Inv'
<1> USE DEF Inv
<1>1. TypeOK'
  BY DEF TypeOK, Flag
<1>2. RecalculationDue'
  BY DEF RecalculationDue, Flag, MprInput, TypeOK
<1>3. SymLinkSymNeighbor'
  BY DEF SymLinkSymNeighbor
<1>4. (\A n \in Neighbors : count[n] = Cardinality(LinksTo(links, n)))'
  OBVIOUS
<1>5. (\A p \in th.list : count[p[1]] > 0)' /\ (\A n \in nsym \cup will : count[n] > 0)'
  OBVIOUS
<1> QED
  BY <1>1, <1>2, <1>3, <1>4, <1>5, Zenon DEF TwoHopsLinked

LEMMA NextInv == Inv /\ [Next]_vars => Inv'
<1> SUFFICES ASSUME Inv, [Next]_vars PROVE Inv'
  OBVIOUS
<1>1. ASSUME NEW l \in Links, NEW type \in {"SYM", "ASYM", "LOST", "UNSPEC"}, NEW willing \in BOOLEAN,
             NEW T \in SUBSET (IF willing THEN {a \in Listed : Main[a] # OwnerOf(l)} ELSE {}),
             Hello(l, type, willing, T)
      PROVE  Inv'
  <2>1. T \in SUBSET Listed
    OBVIOUS
  <2> QED BY <1>1, <2>1, HelloKeeps
<1>2. ASSUME NEW l \in Links, ExpireLinkSymTimer(l)
      PROVE  Inv'
  BY <1>2, ExpireSymKeeps
<1>3. ASSUME NEW l \in Links, ExpireLinkEntry(l)
      PROVE  Inv'
  <2>1. {l} \in SUBSET links /\ DeleteLinks({l})
    BY <1>3 DEF ExpireLinkEntry
  <2> QED BY <2>1, DeleteLinksKeeps
<1>4. ASSUME NEW i \in Ifs, DeleteLinkEntryByIp(i)
      PROVE  Inv'
  <2> DEFINE L == {l \in links : l[1] = i}
  <2>1. L \in SUBSET links /\ DeleteLinks(L)
    BY <1>4, SMTT(30) DEF DeleteLinkEntryByIp
  <2> HIDE DEF L
  <2> QED BY <2>1, DeleteLinksKeeps
<1>5. ASSUME NEW p \in th.timed, ExpireNbr2List(p)
      PROVE  Inv'
  <2>1. th' = Unlink(th, {p}) /\ UNCHANGED <<links, sym, count, nsym, will>> /\ known' = known /\ Flag(TRUE)
    BY <1>5, Zenon DEF ExpireNbr2List
  <2>2. {p} \in SUBSET th.list
    BY DEF Inv, TwoHopsLinked
  <2>3. TwoHopsLinked(th') /\ th'.list \subseteq th.list
    BY <2>1, <2>2, UnlinkKeepsLinked DEF Inv
  <2> QED BY <2>1, <2>3, TablesStepKeeps, Zenon DEF Inv, TypeOK
<1>6. ASSUME NEW n \in Mains, NEW A \in SUBSET Aliases(n), NEW pruned \in SUBSET Aliases(n),
             InputMid(n, A, pruned)
      PROVE  Inv'
  <2> DEFINE new == A \ known
             f == new # {} \/ pruned # {}
  <2>1. /\ th' = IF new # {} THEN InsertAliases(th, n, known \cup A) ELSE th
        /\ known' = (known \cup A) \ pruned
        /\ UNCHANGED <<links, sym, count, nsym, will>> /\ Flag(f)
    BY <1>6 DEF InputMid
  <2>2. TwoHopsLinked(th') /\ th'.list \subseteq th.list /\ (f \/ th'.list = th.list)
    BY <2>1, DeleteKeepsLinked DEF InsertAliases, Inv
  <2>3. known' \subseteq {a \in Addrs : Main[a] # a}
    BY <2>1 DEF Inv, TypeOK, Aliases
  <2>4. f \in BOOLEAN
    BY SMTT(30)
  <2> HIDE DEF f
  <2> QED BY <2>1, <2>2, <2>3, <2>4, TablesStepKeeps
<1>7. ASSUME NEW n \in Mains, DeleteMidEntry(n)
      PROVE  Inv'
  BY <1>7, SMTT(30) DEF DeleteMidEntry, Inv, TypeOK, TwoHopsLinked, SymLinkSymNeighbor, RecalculationDue
<1>8. CASE ProcessChanges
  BY <1>8, Zenon DEF ProcessChanges, Inv, TypeOK, TwoHopsLinked, SymLinkSymNeighbor, RecalculationDue
<1>9. CASE UNCHANGED vars
  BY <1>9 DEF vars, Inv, TypeOK, TwoHopsLinked, SymLinkSymNeighbor, RecalculationDue
<1> QED
  BY <1>1, <1>2, <1>3, <1>4, <1>5, <1>6, <1>7, <1>8, <1>9 DEF Next

LEMMA InvImplies == Inv => TablesLinked
<1> SUFFICES ASSUME Inv PROVE TablesLinked
  BY SMTT(30)
<1>1. LinksCounted
  BY DEF Inv, LinksCounted, LinksTo, TypeOK
<1>2. DOMAIN th.pointer = Targets
  BY DEF Inv, TwoHopsLinked, TwoHopTables, Targets
<1>3. \A t \in DOMAIN th.pointer : th.pointer[t] = Cardinality({p \in th.list : p[2] = t})
  BY <1>2 DEF Inv, TwoHopsLinked, To
<1> QED
  BY <1>1, <1>3 DEF Inv, TwoHopsLinked, TablesLinked

LEMMA Inductive == Spec => []Inv
BY InitInv, NextInv, PTL DEF Spec

\* linkcount counts the links of a neighbour, which is freed with the last of
\* them; the lists of neighbours and two-hop neighbours point to each other and
\* to entries that exist, with neighbor_2_pointer as their number.
THEOREM NeighborTablesLinked == Spec => []TablesLinked
BY Inductive, InvImplies, PTL

\* Whichever timer of its links fires, a neighbour with one address is SYM while
\* any of our interfaces has a symmetric link to it.
THEOREM SymmetricWhileLinked == Spec => []SymLinkSymNeighbor
<1>1. Inv => SymLinkSymNeighbor
  BY DEF Inv
<1> QED
  BY <1>1, Inductive, PTL

\* No handler or timer changes what MPRs are calculated from without setting
\* changes_neighborhood or calculating them itself.
THEOREM NoChangeUnnoticed == Spec => []RecalculationDue
<1>1. Inv => RecalculationDue
  BY DEF Inv
<1> QED
  BY <1>1, Inductive, PTL
-----------------------------------------------------------------------------
(* The selection of MPRs, for every neighbourhood: willingness is          *)
(* respected, a two-hop neighbour keeps the only neighbour that leads to   *)
(* it, and by link quality the best paths lead over MPRs.                  *)
(*                                                                         *)
(* The counters of mpr.c count some pairs of a neighbour and a two-hop     *)
(* neighbour twice, and end the selection when the covered ones are as     *)
(* many as there are.  While an only link is missing they are not: every   *)
(* pair that was counted as covered belongs to a chosen neighbour, which   *)
(* makes an injection into the pairs of olsr_calculate_two_hop_neighbors   *)
(* that misses the pair of the only link.                                  *)
Phases == {"start", "one_link", "maximum", "two_hop", "end"}

\* Types, and where the calculations are in what they do.
MprType ==
  /\ hood \in Hood /\ mprs \in SUBSET Nbrs
  /\ phase \in Phases /\ level \in 0 .. WillAlways - 1
  /\ phase \in {"one_link", "maximum"} => ~hood.lq
  /\ phase = "two_hop" => hood.lq
  /\ phase = "maximum" => level > 0
  /\ phase = "start" => level = WillAlways - 1 /\ done = {}
  /\ done \in SUBSET TwoHop

\* A set of numbers has a least one.
LEMMA LeastNumber ==
  ASSUME NEW S \in SUBSET Nat, S # {}
  PROVE  \E n \in S : \A m \in S : n <= m
<1> DEFINE T == {0 .. n : n \in S}
<1>1. T \subseteq FiniteSubsetsOf(Nat)
  <2> SUFFICES ASSUME NEW n \in S PROVE 0 .. n \in FiniteSubsetsOf(Nat)
    OBVIOUS
  <2>1. IsFiniteSet(0 .. n)
    BY FS_Interval
  <2> QED
    BY <2>1 DEF FiniteSubsetsOf
<1>2. T # {}
  BY Zenon
<1>3. IsWellFoundedOn(StrictSubsetOrdering(Nat), FiniteSubsetsOf(Nat))
  BY FS_StrictSubsetOrderingWellFounded
<1>4. PICK x \in T : \A y \in T : <<y, x>> \notin StrictSubsetOrdering(Nat)
  <2> HIDE DEF T
  <2> QED
    BY <1>1, <1>2, <1>3, WFMin
<1>5. PICK n \in S : x = 0 .. n
  BY <1>4
<1>6. ASSUME NEW m \in S PROVE n <= m
  <2> SUFFICES ASSUME m < n PROVE FALSE
    OBVIOUS
  <2>1. <<0 .. m, x>> \notin StrictSubsetOrdering(Nat)
    BY <1>4, Zenon
  <2>2. 0 .. m \in SUBSET Nat /\ x \in SUBSET Nat /\ 0 .. m \subseteq x
    BY <1>5
  <2>3. n \in x /\ n \notin 0 .. m
    BY <1>5
  <2> QED
    BY <2>1, <2>2, <2>3 DEF StrictSubsetOrdering
<1> QED
  BY <1>6

\* The smaller one of two numbers.
LEMMA MinOfTwo ==
  ASSUME NEW a \in Int, NEW b \in Int
  PROVE  Min({a, b}) = IF a <= b THEN a ELSE b
<1>1. \E x \in {a, b} : \A y \in {a, b} : x <= y
  <2>1. CASE a <= b
    BY <2>1
  <2>2. CASE b <= a
    BY <2>2
  <2> QED
    BY <2>1, <2>2
<1>2. /\ Min({a, b}) \in {a, b}
      /\ \A y \in {a, b} : Min({a, b}) <= y
  BY <1>1 DEF Min
<1> QED
  BY <1>2

\* The neighbourhood's sets are finite.
LEMMA HoodFinite ==
  ASSUME MprConstants, MprType
  PROVE  /\ hood.sym \in SUBSET Nbrs /\ IsFiniteSet(hood.sym)
         /\ Strict \in SUBSET TwoHop /\ IsFiniteSet(Strict)
         /\ IsFiniteSet(mprs)
         /\ hood.coverage \in Nat \ {0} /\ hood.will \in [Nbrs -> 0 .. WillAlways]
         /\ Cardinality(Nbrs) \in Nat
<1>1. hood.sym \in SUBSET Nbrs /\ hood.coverage \in Nat \ {0} /\ hood.will \in [Nbrs -> 0 .. WillAlways]
  BY DEF MprType, Hood
<1>2. Strict \in SUBSET TwoHop
  BY DEF Strict
<1>3. IsFiniteSet(Nbrs) /\ IsFiniteSet(TwoHop) /\ mprs \in SUBSET Nbrs
  BY DEF MprConstants, MprType
<1>4. IsFiniteSet(hood.sym) /\ IsFiniteSet(mprs)
  BY <1>1, <1>3, FS_Subset
<1>5. IsFiniteSet(Strict)
  BY <1>2, <1>3, FS_Subset
<1>6. Cardinality(Nbrs) \in Nat
  BY <1>3, FS_CardinalityType
<1> QED
  BY <1>1, <1>2, <1>4, <1>5, <1>6

\* Of the members with the greatest value there is a first one.
LEMMA FirstGreatest ==
  ASSUME NEW C \in SUBSET Nat, C # {}, NEW f \in [C -> Int], NEW B \in Int,
         \A n \in C : f[n] <= B
  PROVE  \E n \in C : \A m \in C : f[m] < f[n] \/ (f[m] = f[n] /\ n <= m)
<1> DEFINE Gaps == {B - f[n] : n \in C}
<1>0. \A n \in C : f[n] \in Int /\ B - f[n] \in Nat
  OBVIOUS
<1>1. Gaps \in SUBSET Nat /\ Gaps # {}
  BY <1>0, Zenon
<1>2. PICK g \in Gaps : \A h \in Gaps : g <= h
  <2> HIDE DEF Gaps
  <2> QED
    BY <1>1, LeastNumber
<1>3. PICK k \in C : g = B - f[k]
  BY <1>2
<1>4. \A m \in C : f[m] <= f[k]
  <2> SUFFICES ASSUME NEW m \in C PROVE f[m] <= f[k]
    OBVIOUS
  <2>1. B - f[k] <= B - f[m]
    BY <1>2, <1>3
  <2> QED
    BY <2>1
<1> DEFINE Top == {m \in C : f[m] = f[k]}
<1>5. Top \in SUBSET Nat /\ Top # {}
  BY Zenon
<1>6. PICK n \in Top : \A m \in Top : n <= m
  <2> HIDE DEF Top
  <2> QED
    BY <1>5, LeastNumber
<1>7. \A m \in C : f[m] < f[n] \/ (f[m] = f[n] /\ n <= m)
  BY <1>4, <1>6
<1> QED
  BY <1>6, <1>7

\* The counters are numbers.
LEMMA CountedNat ==
  ASSUME MprConstants, MprType, NEW T \in SUBSET TwoHop
  PROVE  Counted(T) \in Nat
<1> DEFINE P == {p \in T \X (1 .. Cardinality(Nbrs)) : hood.coverage <= p[2] /\ p[2] <= Covered(p[1])}
<1>1. IsFiniteSet(T)
  BY FS_Subset DEF MprConstants
<1>2. IsFiniteSet(1 .. Cardinality(Nbrs))
  BY HoodFinite, FS_Interval
<1>3. IsFiniteSet(T \X (1 .. Cardinality(Nbrs)))
  BY <1>1, <1>2, FS_Product, Zenon
<1>4. P \in SUBSET (T \X (1 .. Cardinality(Nbrs)))
  OBVIOUS
<1>5. IsFiniteSet(P)
  BY <1>3, <1>4, FS_Subset
<1>6. Cardinality(P) \in Nat
  BY <1>5, FS_CardinalityType
<1> QED
  BY <1>6 DEF Counted

LEMMA NocovBounded ==
  ASSUME MprConstants, MprType
  PROVE  \E B \in Int : \A n \in Nbrs : Nocov(n) \in Int /\ Nocov(n) <= B
<1> DEFINE All == hood.sym \X Strict
           B == Cardinality(All) + Cardinality(Strict)
<1>1. IsFiniteSet(All) /\ IsFiniteSet(Strict)
  BY HoodFinite, FS_Product
<1>2. Cardinality(All) \in Nat /\ Cardinality(Strict) \in Nat
  BY <1>1, FS_CardinalityType
<1>3. ASSUME NEW n \in Nbrs PROVE Nocov(n) \in Int /\ Nocov(n) <= B
  <2> DEFINE P == {p \in SymUpTo(n) \X Strict : p[2] \in Covers(p[1])}
             Q == {t \in Strict : \E m \in SymUpTo(n) : t \in Covers(m)}
             F == FirstNocov(n)
             D == Counted(Covers(n) \cap Strict)
  <2>1. P \in SUBSET All
    BY DEF SymUpTo
  <2>2. Cardinality(P) \in Nat /\ Cardinality(P) <= Cardinality(All)
    <3> HIDE DEF P, All
    <3>1. IsFiniteSet(P) /\ Cardinality(P) <= Cardinality(All)
      BY <2>1, <1>1, FS_Subset
    <3> QED
      BY <3>1, FS_CardinalityType
  <2>3. Q \in SUBSET Strict
    OBVIOUS
  <2>4. Cardinality(Q) \in Nat /\ Cardinality(Q) <= Cardinality(Strict)
    <3> HIDE DEF Q
    <3>1. IsFiniteSet(Q) /\ Cardinality(Q) <= Cardinality(Strict)
      BY <2>3, <1>1, FS_Subset
    <3> QED
      BY <3>1, FS_CardinalityType
  <2>5. F = Cardinality(P) \/ F = Cardinality(Q)
    BY DEF FirstNocov
  <2>6. D \in Nat
    <3>1. Covers(n) \cap Strict \in SUBSET TwoHop
      BY DEF Covers
    <3> QED
      BY <3>1, CountedNat
  <2>7. Nocov(n) = F - D \/ Nocov(n) = F
    BY DEF Nocov
  <2> HIDE DEF P, Q, F, D, All
  <2> QED
    BY <1>2, <2>2, <2>4, <2>5, <2>6, <2>7
<1>4. B \in Int
  BY <1>2
<1> HIDE DEF B
<1> QED
  BY <1>3, <1>4

\* olsr_find_maximum_covered returns a candidate when there is one.
LEMMA MaximumIsCandidate ==
  ASSUME MprConstants, MprType, Candidates(level) # {}
  PROVE  MaximumCovered(level) \in Candidates(level)
<1> DEFINE C == Candidates(level)
           f == [n \in C |-> Nocov(n)]
<1>1. PICK B \in Int : \A n \in Nbrs : Nocov(n) \in Int /\ Nocov(n) <= B
  BY NocovBounded
<1>2. C \in SUBSET Nbrs /\ C \in SUBSET Nat
  BY Zenon DEF Candidates, MprConstants
<1>3. f \in [C -> Int] /\ \A n \in C : f[n] <= B
  BY <1>1, <1>2
<1>4. \E n \in C : \A m \in C : f[m] < f[n] \/ (f[m] = f[n] /\ n <= m)
  <2> HIDE DEF f, C
  <2>1. C # {}
    BY DEF C
  <2> QED
    BY <1>2, <1>3, <2>1, FirstGreatest
<1>5. \E n \in C : \A m \in C : Nocov(m) < Nocov(n) \/ (Nocov(m) = Nocov(n) /\ n <= m)
  BY <1>4
<1> QED
  BY <1>5 DEF MaximumCovered

\* While the only link to a two-hop neighbour is no MPR, the counters do not
\* say that enough is covered.
LEMMA OnlyLinkMissing ==
  ASSUME MprConstants, MprType,
         \A n \in Nbrs : Covers(n) # {} => Sym(n),
         NEW o \in Nbrs, NEW u \in Strict, NbList(u) = {o}, o \notin mprs
  PROVE  ~Enough
<1> DEFINE Of(t) == mprs \cap NbList(t)
           b == [t \in Strict |-> CHOOSE f : f \in Bijection(1 .. Covered(t), Of(t))]
           CP == {p \in Strict \X (1 .. Cardinality(Nbrs)) :
                    hood.coverage <= p[2] /\ p[2] <= Covered(p[1])}
           TP == {p \in hood.sym \X Strict : \E m \in SymUpTo(p[1]) : p[2] \in Covers(m)}
           g == [p \in CP |-> <<b[p[1]][p[2]], p[1]>>]
           x == <<o, u>>
<1>1. ASSUME NEW t \in Strict
      PROVE  Covered(t) \in Nat /\ b[t] \in Bijection(1 .. Covered(t), Of(t))
  <2>1. IsFiniteSet(Of(t))
    BY HoodFinite, FS_Intersection
  <2>2. Covered(t) = Cardinality(Of(t))
    BY DEF Covered
  <2>3. Covered(t) \in Nat /\ ExistsBijection(1 .. Covered(t), Of(t))
    <3> HIDE DEF Of
    <3> QED
      BY <2>1, <2>2, FS_CardinalityType
  <2>4. \E f : f \in Bijection(1 .. Covered(t), Of(t))
    BY <2>3, Zenon DEF ExistsBijection
  <2> QED
    BY <2>3, <2>4, Zenon
<1>2. ASSUME NEW p \in CP
      PROVE  /\ p[1] \in Strict /\ p[2] \in 1 .. Covered(p[1])
             /\ b[p[1]][p[2]] \in Of(p[1])
             /\ p = <<p[1], p[2]>>
  <2>1. p[1] \in Strict /\ p[2] \in Nat /\ p[2] >= 1 /\ p[2] <= Covered(p[1]) /\ p = <<p[1], p[2]>>
    BY HoodFinite
  <2>2. Covered(p[1]) \in Nat /\ b[p[1]] \in Bijection(1 .. Covered(p[1]), Of(p[1]))
    BY <2>1, <1>1
  <2>3. p[2] \in 1 .. Covered(p[1])
    BY <2>1, <2>2
  <2> HIDE DEF b, Of, CP
  <2> QED
    BY <2>1, <2>2, <2>3 DEF Bijection, Injection
<1>3. ASSUME NEW n, NEW t \in Strict, n \in Of(t)
      PROVE  <<n, t>> \in TP \ {x}
  <2>1. n \in mprs /\ n \in Nbrs /\ t \in Covers(n)
    BY <1>3 DEF NbList
  <2>2. n \in hood.sym /\ n \in Nat
    BY <2>1 DEF Sym, MprConstants
  <2>3. n \in SymUpTo(n)
    BY <2>2 DEF SymUpTo
  <2> QED
    BY <2>1, <2>2, <2>3
<1>4. g \in [CP -> TP \ {x}]
  <2> HIDE DEF TP, CP, Of, b, x
  <2> QED
    BY <1>2, <1>3
<1>5. ASSUME NEW p \in CP, NEW q \in CP, g[p] = g[q] PROVE p = q
  <2>1. g[p] = <<b[p[1]][p[2]], p[1]>> /\ g[q] = <<b[q[1]][q[2]], q[1]>>
    BY SMTT(30)
  <2>2. p[1] = q[1] /\ b[p[1]][p[2]] = b[p[1]][q[2]]
    <3> DEFINE y == b[p[1]][p[2]]
               z == b[q[1]][q[2]]
    <3>1. <<y, p[1]>> = <<z, q[1]>>
      BY <1>5, <2>1, Zenon
    <3>2. y = z /\ p[1] = q[1]
      <4> HIDE DEF y, z
      <4> QED
        BY <3>1, SMTT(30)
    <3> HIDE DEF b
    <3> QED
      BY <3>2, SMTT(30)
  <2>3. p[2] \in 1 .. Covered(p[1]) /\ q[2] \in 1 .. Covered(p[1])
    BY <1>2, <2>2
  <2>4. b[p[1]] \in Bijection(1 .. Covered(p[1]), Of(p[1]))
    BY <1>1, <1>2
  <2>5. p[2] = q[2]
    <3> DEFINE h == b[p[1]]
    <3>1. h \in [1 .. Covered(p[1]) -> Of(p[1])] /\ IsInjective(h)
      BY <2>4, Zenon DEF Bijection, Injection
    <3>2. h[p[2]] = h[q[2]]
      BY <2>2
    <3> HIDE DEF b, Of, CP, g, h
    <3> QED
      BY <2>3, <3>1, <3>2 DEF IsInjective
  <2> HIDE DEF CP, g, b
  <2> QED
    BY <1>2, <2>2, <2>5, SMTT(30)
<1>6. g \in Injection(CP, TP \ {x})
  <2> HIDE DEF g, CP, TP, x
  <2> QED
    BY <1>4, <1>5 DEF Injection, IsInjective
<1>7. IsFiniteSet(TP) /\ x \in TP
  <2>1. IsFiniteSet(hood.sym \X Strict)
    BY HoodFinite, FS_Product
  <2>2. TP \in SUBSET (hood.sym \X Strict)
    OBVIOUS
  <2>3. IsFiniteSet(TP)
    <3> HIDE DEF TP
    <3> QED
      BY <2>1, <2>2, FS_Subset
  <2>4. u \in Covers(o)
    BY DEF NbList
  <2>5. o \in hood.sym /\ o \in Nat
    BY <2>4 DEF Sym, MprConstants
  <2>6. o \in SymUpTo(o)
    BY <2>5 DEF SymUpTo
  <2> QED
    BY <2>3, <2>4, <2>5, <2>6
<1>8. IsFiniteSet(TP \ {x}) /\ Cardinality(TP \ {x}) = Cardinality(TP) - 1
  <2> HIDE DEF TP, x
  <2> QED
    BY <1>7, FS_RemoveElement, Zenon
<1>9. IsFiniteSet(CP) /\ Cardinality(CP) <= Cardinality(TP \ {x})
  <2> HIDE DEF g, CP, TP, x
  <2> QED
    BY <1>6, <1>8, FS_Injection
<1>10. Cardinality(CP) \in Nat /\ Cardinality(TP) \in Nat
  <2> HIDE DEF CP, TP
  <2> QED
    BY <1>7, <1>9, FS_CardinalityType
<1>11. CoveredCount = Cardinality(CP) /\ TwoHopCount = Cardinality(TP)
  BY DEF CoveredCount, Counted, TwoHopCount
<1> HIDE DEF CP, TP, x
<1> QED
  BY <1>8, <1>9, <1>10, <1>11 DEF Enough

\* Types are kept.
LEMMA MprTypeCorrect ==
  ASSUME MprConstants
  PROVE  /\ MprInit => MprType
         /\ MprType /\ [MprNext]_mprVars => MprType'
<1>1. MprInit => MprType
  <2> SUFFICES ASSUME MprInit PROVE MprType
    OBVIOUS
  <2>1. hood \in Hood /\ WillAlways - 1 \in 0 .. WillAlways - 1
    BY DEF MprInit, MprConstants
  <2> QED
    BY <2>1 DEF MprInit, MprType, Phases
<1>2. ASSUME MprType, [MprNext]_mprVars PROVE MprType'
  <2>0. WillAlways \in Nat
    BY DEF MprConstants
  <2>1. CASE StartMpr
    BY <1>2, <2>1, HoodFinite, SMTT(30) DEF StartMpr, MprType, Phases, Always
  <2>2. CASE ChooseOneLink
    BY <1>2, <2>2, HoodFinite DEF ChooseOneLink, MprType, Phases, OneLink
  <2>3. CASE ChooseMaximum
    <3>1. MaximumCovered(level) \in Nbrs
      BY <1>2, <2>3, MaximumIsCandidate DEF ChooseMaximum, Candidates
    <3> QED
      BY <1>2, <2>3, <3>1 DEF ChooseMaximum, MprType
  <2>4. CASE NextLevel
    <3>1. level' \in 0 .. WillAlways - 1
      BY <1>2, <2>0, <2>4 DEF NextLevel, MprType
    <3> QED
      BY <1>2, <2>4, <3>1 DEF NextLevel, MprType, Phases
  <2>5. CASE OptimizeMprSet
    BY <1>2, <2>5, SMTT(30) DEF OptimizeMprSet, Selected, MprType, Phases
  <2>6. CASE StartLqMpr
    BY <1>2, <2>6, HoodFinite DEF StartLqMpr, MprType, Phases, Always
  <2>7. ASSUME NEW t \in TwoHop, SelectFor(t) PROVE MprType'
    BY <1>2, <2>7 DEF SelectFor, MprType, Phases
  <2>8. CASE UNCHANGED mprVars
    BY <1>2, <2>8 DEF mprVars, MprType
  <2> QED
    BY <1>2, <2>1, <2>2, <2>3, <2>4, <2>5, <2>6, <2>7, <2>8 DEF MprNext
<1> QED
  BY <1>1, <1>2
----------------------------------------------------------------------------
\* Neighbours that are always willing are chosen at once and never dropped, and
\* none is looked at that never is.
WillingInv ==
  /\ phase # "start" => Always \subseteq mprs
  /\ ~hood.lq => \A n \in mprs : hood.will[n] > 0

LEMMA WillingInductive ==
  ASSUME MprConstants
  PROVE  /\ MprInit => WillingInv
         /\ MprType /\ WillingInv /\ [MprNext]_mprVars => WillingInv'
<1>1. MprInit => WillingInv
  BY DEF MprInit, WillingInv
<1>2. ASSUME MprType, WillingInv, [MprNext]_mprVars PROVE WillingInv'
  <2>0. hood.will \in [Nbrs -> 0 .. WillAlways] /\ hood.sym \in SUBSET Nbrs /\ WillAlways \in Nat \ {0}
        /\ level \in Nat
    BY <1>2, HoodFinite DEF MprConstants, MprType
  <2>1. CASE StartMpr
    BY <1>2, <2>0, <2>1 DEF StartMpr, WillingInv, Always
  <2>2. CASE ChooseOneLink
    BY <1>2, <2>0, <2>2 DEF ChooseOneLink, WillingInv, Always, OneLink
  <2>3. CASE ChooseMaximum
    <3>1. MaximumCovered(level) \in Candidates(level) /\ level > 0
      BY <1>2, <2>3, MaximumIsCandidate DEF ChooseMaximum, MprType
    <3>2. hood.will[MaximumCovered(level)] > 0
      BY <3>1 DEF Candidates
    <3> HIDE DEF MaximumCovered
    <3> QED
      BY <1>2, <2>3, <3>2 DEF ChooseMaximum, WillingInv, Always
  <2>4. CASE NextLevel
    BY <1>2, <2>4 DEF NextLevel, WillingInv, Always
  <2>5. CASE OptimizeMprSet
    <3>1. Always \subseteq mprs'
      BY <1>2, <2>5 DEF OptimizeMprSet, Selected, WillingInv, Always
    <3> QED
      BY <1>2, <2>5, <3>1 DEF OptimizeMprSet, WillingInv, Always
  <2>6. CASE StartLqMpr
    BY <1>2, <2>6 DEF StartLqMpr, WillingInv, Always
  <2>7. ASSUME NEW t \in TwoHop, SelectFor(t) PROVE WillingInv'
    BY <1>2, <2>7 DEF SelectFor, WillingInv, Always, MprType
  <2>8. CASE UNCHANGED mprVars
    BY <1>2, <2>8 DEF mprVars, WillingInv, Always
  <2> QED
    BY <1>2, <2>1, <2>2, <2>3, <2>4, <2>5, <2>6, <2>7, <2>8 DEF MprNext
<1> QED
  BY <1>1, <1>2

\* Whatever is chosen and dropped, the result of a calculation holds the
\* symmetric neighbours that are always willing and, by coverage, none that
\* never is (add_will_always_nodes, olsr_optimize_mpr_set).
THEOREM RespectsWillingness ==
  ASSUME MprConstants
  PROVE  MprSpec => []WillingnessRespected
<1>1. MprInit => MprType /\ WillingInv
  BY MprTypeCorrect, WillingInductive
<1>2. MprType /\ WillingInv /\ [MprNext]_mprVars => (MprType /\ WillingInv)'
  BY MprTypeCorrect, WillingInductive
<1>3. WillingInv => WillingnessRespected
  BY DEF WillingInv, WillingnessRespected
<1> QED
  BY <1>1, <1>2, <1>3, PTL DEF MprSpec
----------------------------------------------------------------------------
\* Neighbours without a symmetric link cover nothing.
OnlySymCover == \A n \in Nbrs : Covers(n) # {} => Sym(n)

\* Of the willingness that was looked at, the only links are chosen.
OnlyLinkInv ==
  OnlySymCover /\ ~hood.lq =>
    \A t \in Strict, n \in Nbrs : NbList(t) = {n} /\ hood.will[n] > 0 =>
      /\ phase = "one_link" /\ hood.will[n] > level => n \in mprs
      /\ phase = "maximum" /\ hood.will[n] >= level => n \in mprs
      /\ phase = "end" => n \in mprs

LEMMA OnlyLinkInductive ==
  ASSUME MprConstants
  PROVE  /\ MprInit => OnlyLinkInv
         /\ MprType /\ OnlyLinkInv /\ [MprNext]_mprVars => OnlyLinkInv'
<1>1. MprInit => OnlyLinkInv
  BY DEF MprInit, OnlyLinkInv
<1>2. ASSUME MprType, OnlyLinkInv, [MprNext]_mprVars PROVE OnlyLinkInv'
  <2>0. /\ hood.will \in [Nbrs -> 0 .. WillAlways] /\ hood.sym \in SUBSET Nbrs
        /\ WillAlways \in Nat \ {0} /\ level \in 0 .. WillAlways - 1
        /\ hood.coverage \in Nat \ {0}
    BY <1>2, HoodFinite, SMTT(30) DEF MprConstants, MprType
  <2>1. hood' = hood
    BY <1>2 DEF MprNext, mprVars, StartMpr, ChooseOneLink, ChooseMaximum, NextLevel, OptimizeMprSet,
                StartLqMpr, SelectFor
  <2>2. /\ OnlySymCover' = OnlySymCover /\ Strict' = Strict
        /\ \A t : NbList(t)' = NbList(t)
    BY <2>1, SMTT(30) DEF OnlySymCover, Covers, Sym, Strict, NbList
  <2>3. SUFFICES ASSUME OnlySymCover, ~hood.lq,
                        NEW t \in Strict, NEW n \in Nbrs, NbList(t) = {n}, hood.will[n] > 0
                 PROVE  /\ phase' = "one_link" /\ hood.will[n] > level' => n \in mprs'
                        /\ phase' = "maximum" /\ hood.will[n] >= level' => n \in mprs'
                        /\ phase' = "end" => n \in mprs'
    BY <2>1, <2>2 DEF OnlyLinkInv
  <2>4. /\ phase = "one_link" /\ hood.will[n] > level => n \in mprs
        /\ phase = "maximum" /\ hood.will[n] >= level => n \in mprs
        /\ phase = "end" => n \in mprs
    BY <1>2, <2>3 DEF OnlyLinkInv
  <2>5. hood.will[n] \in 1 .. WillAlways
    BY <2>0, <2>3
  <2>6. t \in Covers(n) /\ n \in hood.sym
    BY <2>3 DEF NbList, OnlySymCover, Sym
  <2>7. CASE StartMpr
    <3>1. phase' = "one_link" /\ level' = level /\ mprs' = Always /\ phase = "start"
      BY <2>7 DEF StartMpr
    <3>2. level = WillAlways - 1
      BY <1>2, <3>1 DEF MprType
    <3> QED
      BY <3>1, <3>2, <2>0, <2>5, <2>6 DEF Always
  <2>8. CASE ChooseOneLink
    <3>1. /\ phase = "one_link" /\ phase' = "maximum" /\ level' = level
          /\ mprs' = mprs \cup OneLink(level)
      BY <2>8 DEF ChooseOneLink
    <3>2. hood.will[n] = level => n \in OneLink(level)
      BY <2>3, <2>6 DEF OneLink
    <3> QED
      BY <3>1, <3>2, <2>0, <2>4, <2>5
  <2>9. CASE ChooseMaximum
    BY <2>4, <2>9 DEF ChooseMaximum
  <2>10. CASE NextLevel
    <3>1. phase = "maximum" /\ phase' = "one_link" /\ level' = level - 1 /\ mprs' = mprs
      BY <2>10 DEF NextLevel
    <3> QED
      BY <3>1, <2>0, <2>4, <2>5
  <2>11. CASE OptimizeMprSet
    <3>1. n \in mprs
      <4>1. CASE phase = "maximum" /\ Enough
        BY <1>2, <2>3, <2>6, <4>1, OnlyLinkMissing DEF OnlySymCover
      <4>2. CASE phase = "one_link" /\ level = 0
        BY <4>2, <2>4, <2>5
      <4> QED
        BY <2>11, <4>1, <4>2 DEF OptimizeMprSet, Selected
    <3>2. Needed(n)
      <4>1. mprs \cap NbList(t) = {n}
        BY <2>3, <3>1
      <4>2. Covered(t) = 1
        BY <4>1, FS_Singleton, SMTT(30) DEF Covered
      <4> QED
        BY <2>0, <2>3, <2>6, <4>2 DEF Needed
    <3> QED
      BY <2>11, <3>1, <3>2 DEF OptimizeMprSet
  <2>12. CASE StartLqMpr
    BY <2>3, <2>12 DEF StartLqMpr
  <2>13. ASSUME NEW w \in TwoHop, SelectFor(w) PROVE FALSE
    BY <1>2, <2>3, <2>13 DEF SelectFor, MprType
  <2>14. CASE UNCHANGED mprVars
    BY <2>4, <2>14 DEF mprVars
  <2> QED
    BY <1>2, <2>7, <2>8, <2>9, <2>10, <2>11, <2>12, <2>13, <2>14, SMTT(30) DEF MprNext
<1> QED
  BY <1>1, <1>2

\* The only neighbour that leads to a two-hop neighbour becomes an MPR and stays
\* one, unless it never is willing: the double counts of two_hop_covered_count
\* do not end olsr_calculate_mpr too early, and olsr_optimize_mpr_set finds it
\* needed.
THEOREM KeepsOnlyLinks ==
  ASSUME MprConstants
  PROVE  MprSpec => []OnlyLinkKept
<1>1. MprInit => MprType /\ OnlyLinkInv
  BY MprTypeCorrect, OnlyLinkInductive
<1>2. MprType /\ OnlyLinkInv /\ [MprNext]_mprVars => (MprType /\ OnlyLinkInv)'
  BY MprTypeCorrect, OnlyLinkInductive
<1>3. OnlyLinkInv => OnlyLinkKept
  BY DEF OnlyLinkInv, OnlySymCover, OnlyLinkKept
<1> QED
  BY <1>1, <1>2, <1>3, PTL DEF MprSpec
----------------------------------------------------------------------------
\* By link quality: for what is done, the best relays are MPRs.
LqInv ==
  hood.lq => /\ \A t \in done : \E S \in SUBSET mprs : Best(t, S)
             /\ phase = "end" => done = TwoHop

LEMMA LqInductive ==
  /\ MprInit => LqInv
  /\ MprType /\ LqInv /\ [MprNext]_mprVars => LqInv'
<1>1. MprInit => LqInv
  BY DEF MprInit, LqInv
<1>2. ASSUME MprType, LqInv, [MprNext]_mprVars PROVE LqInv'
  <2>1. hood' = hood
    BY <1>2, SMTT(30) DEF MprNext, mprVars, StartMpr, ChooseOneLink, ChooseMaximum, NextLevel, OptimizeMprSet,
                StartLqMpr, SelectFor
  <2>2. \A t, S : Best(t, S)' = Best(t, S)
    BY <2>1 DEF Best, Relays, DirectCost
  <2> SUFFICES ASSUME hood.lq
               PROVE  /\ \A t \in done' : \E S \in SUBSET mprs' : Best(t, S)
                      /\ phase' = "end" => done' = TwoHop
    BY <2>1, <2>2 DEF LqInv
  <2>3. /\ \A t \in done : \E S \in SUBSET mprs : Best(t, S)
        /\ phase = "end" => done = TwoHop
    BY <1>2 DEF LqInv
  <2>4. phase \notin {"one_link", "maximum"}
    BY <1>2 DEF MprType
  <2>5. ~StartMpr /\ ~ChooseOneLink /\ ~ChooseMaximum /\ ~NextLevel /\ ~OptimizeMprSet
    BY <2>4 DEF StartMpr, ChooseOneLink, ChooseMaximum, NextLevel, OptimizeMprSet, Selected
  <2>6. CASE StartLqMpr
    <3>1. done' = {} /\ (phase' = "end" => TwoHop = {})
      BY <1>2, <2>6 DEF StartLqMpr, MprType
    <3> QED
      BY <3>1
  <2>7. ASSUME NEW t \in TwoHop, SelectFor(t)
        PROVE  /\ \A u \in done' : \E S \in SUBSET mprs' : Best(u, S)
               /\ phase' = "end" => done' = TwoHop
    <3>1. PICK B \in SUBSET Nbrs : Best(t, B) /\ mprs' = mprs \cup B
      BY <2>7 DEF SelectFor
    <3>2. done' = done \cup {t} /\ phase = "two_hop" /\ phase' = IF done' = TwoHop THEN "end" ELSE phase
      BY <2>7 DEF SelectFor
    <3>3. ASSUME NEW u \in done' PROVE \E S \in SUBSET mprs' : Best(u, S)
      <4>1. CASE u = t
        BY <3>1, <4>1
      <4>2. CASE u \in done
        BY <2>3, <3>1, <4>2
      <4> QED
        BY <3>2, <4>1, <4>2
    <3> QED
      BY <3>2, <3>3
  <2>8. CASE UNCHANGED mprVars
    BY <2>3, <2>8 DEF mprVars
  <2> QED
    BY <1>2, <2>5, <2>6, <2>7, <2>8, SMTT(30) DEF MprNext
<1> QED
  BY <1>1, <1>2

\* The relays that were chosen for a two-hop neighbour are as many as asked for
\* and none that was left out is better.
LEMMA RelaysAreBest ==
  ASSUME MprConstants, MprType, NEW t \in TwoHop, NEW S \in SUBSET mprs, Best(t, S)
  PROVE  /\ \A n \in hood.sym :
              \/ hood.path[<<n, t>>] >= DirectCost(t)
              \/ \E m \in mprs \cap hood.sym : hood.path[<<m, t>>] <= hood.path[<<n, t>>]
         /\ Cardinality(mprs \cap Relays(t)) >= Min({hood.coverage, Cardinality(Relays(t))})
<1> DEFINE R == Relays(t)
<1>1. R \in SUBSET hood.sym /\ IsFiniteSet(R) /\ Cardinality(R) \in Nat
  <2>1. R \in SUBSET hood.sym
    BY SMTT(30) DEF Relays
  <2> HIDE DEF R
  <2>2. IsFiniteSet(R)
    BY <2>1, HoodFinite, FS_Subset
  <2> QED
    BY <2>1, <2>2, FS_CardinalityType
<1>2. S \in SUBSET R /\ Cardinality(S) = Min({hood.coverage, Cardinality(R)})
      /\ \A n \in S, m \in R \ S : hood.path[<<n, t>>] <= hood.path[<<m, t>>]
  BY DEF Best
<1>3. hood.path \in [Nbrs \X TwoHop -> 1 .. NoPath] /\ hood.direct \in [Nbrs -> 1 .. Broken]
      /\ NoPath \in Nat /\ Broken \in Nat
  BY DEF MprType, Hood, MprConstants, NoPath
<1>4. DirectCost(t) \in Int
  <2>1. t \in hood.sym => t \in Nbrs
    BY HoodFinite
  <2> QED
    BY <1>3, <2>1 DEF DirectCost
<1>5. ASSUME NEW n \in hood.sym, ~(hood.path[<<n, t>>] >= DirectCost(t))
      PROVE  \E m \in mprs \cap hood.sym : hood.path[<<m, t>>] <= hood.path[<<n, t>>]
  <2>1. n \in Nbrs /\ hood.path[<<n, t>>] \in Int
    BY <1>3, HoodFinite
  <2>2. n \in R
    BY <1>4, <1>5, <2>1 DEF Relays
  <2> HIDE DEF R
  <2>3. Cardinality(R) # 0
    BY <1>1, <2>2, FS_EmptySet
  <2>4. Cardinality(S) # 0
    BY <1>1, <1>2, <2>3, MinOfTwo, HoodFinite
  <2>5. S # {}
    BY <2>4, FS_EmptySet
  <2>6. CASE n \in S
    BY <1>1, <2>1, <2>6, SMTT(30)
  <2>7. CASE n \notin S
    <3>1. PICK m \in S : TRUE
      BY <2>5
    <3> QED
      BY <1>1, <1>2, <2>2, <2>7, <3>1
  <2> QED
    BY <2>6, <2>7, SMTT(30)
<1>6. Cardinality(S) <= Cardinality(mprs \cap R)
  <2> HIDE DEF R
  <2>1. IsFiniteSet(mprs \cap R)
    BY HoodFinite, FS_Intersection, Zenon
  <2>2. S \in SUBSET (mprs \cap R)
    BY <1>2
  <2> QED
    BY <2>1, <2>2, FS_Subset, SMTT(30)
<1>7. Cardinality(mprs \cap R) >= Min({hood.coverage, Cardinality(R)})
  <2> HIDE DEF R
  <2>1. IsFiniteSet(mprs \cap R)
    BY HoodFinite, FS_Intersection, Zenon
  <2>2. Cardinality(mprs \cap R) \in Nat
    BY <2>1, FS_CardinalityType
  <2>3. Min({hood.coverage, Cardinality(R)}) \in Int
    BY <1>1, MinOfTwo, HoodFinite
  <2> QED
    BY <1>2, <1>6, <2>2, <2>3
<1> QED
  BY <1>5, <1>7

\* By link quality, the best path to a two-hop neighbour is the direct link or
\* leads over an MPR, and as many better relays as mpr_coverage asks for are
\* MPRs, whatever was chosen for the two-hop neighbours before it
\* (olsr_calculate_lq_mpr).
THEOREM BestPathsOverMprs ==
  ASSUME MprConstants
  PROVE  MprSpec => []LqBestPaths
<1>1. MprInit => MprType /\ LqInv
  BY MprTypeCorrect, LqInductive
<1>2. MprType /\ LqInv /\ [MprNext]_mprVars => (MprType /\ LqInv)'
  BY MprTypeCorrect, LqInductive
<1>3. MprType /\ LqInv => LqBestPaths
  <2> SUFFICES ASSUME MprType, LqInv, phase = "end", hood.lq, NEW t \in TwoHop
               PROVE  /\ \A n \in hood.sym :
                           \/ hood.path[<<n, t>>] >= DirectCost(t)
                           \/ \E m \in mprs \cap hood.sym : hood.path[<<m, t>>] <= hood.path[<<n, t>>]
                      /\ Cardinality(mprs \cap Relays(t)) >= Min({hood.coverage, Cardinality(Relays(t))})
    BY DEF LqBestPaths, Relays
  <2>1. PICK S \in SUBSET mprs : Best(t, S)
    BY DEF LqInv
  <2> QED
    BY <2>1, RelaysAreBest, SMTT(30)
<1> QED
  BY <1>1, <1>2, <1>3, PTL DEF MprSpec
============================================================================
