--------------------------- MODULE GatewayProofs ---------------------------
(***************************************************************************)
(* The tunnels of Gateway, for any number of gateways, any topology and    *)
(* any configuration that olsrd accepts: tree, lists, tunnels, interface   *)
(* names and default routes agree after every handler, and the shutdown    *)
(* leaves nothing behind.                                                  *)
(***************************************************************************)
EXTENDS Gateway, TLAPS, FiniteSetTheorems, WellFoundedInduction

----------------------------------------------------------------------------
(* Numbers and lists                                                       *)

\* A non-empty set of numbers has a least member.
LEMMA LeastNumber ==
  ASSUME NEW S \in SUBSET Nat, S # {}
  PROVE  \E n \in S : \A m \in S : n <= m
<1> DEFINE T == {0 .. n : n \in S}
<1>1. T \subseteq FiniteSubsetsOf(Nat)
  <2> SUFFICES ASSUME NEW n \in S PROVE 0 .. n \in FiniteSubsetsOf(Nat)
    OBVIOUS
  <2>1. IsFiniteSet(0 .. n)
    BY FS_Interval
  <2> QED
    BY <2>1 DEF FiniteSubsetsOf
<1>2. T # {}
  BY Zenon
<1>3. IsWellFoundedOn(StrictSubsetOrdering(Nat), FiniteSubsetsOf(Nat))
  BY FS_StrictSubsetOrderingWellFounded
<1>4. PICK x \in T : \A y \in T : <<y, x>> \notin StrictSubsetOrdering(Nat)
  <2> HIDE DEF T
  <2> QED
    BY <1>1, <1>2, <1>3, WFMin
<1>5. PICK n \in S : x = 0 .. n
  BY <1>4
<1>6. ASSUME NEW m \in S PROVE n <= m
  <2> SUFFICES ASSUME m < n PROVE FALSE
    OBVIOUS
  <2>1. <<0 .. m, x>> \notin StrictSubsetOrdering(Nat)
    BY <1>4, Zenon
  <2>2. 0 .. m \in SUBSET Nat /\ x \in SUBSET Nat /\ 0 .. m \subseteq x
    BY <1>5
  <2>3. n \in x /\ n \notin 0 .. m
    BY <1>5
  <2> QED
    BY <2>1, <2>2, <2>3 DEF StrictSubsetOrdering
<1> QED
  BY <1>6

\* ... which is its Min.
LEMMA MinIsLeast ==
  ASSUME NEW S \in SUBSET Nat, S # {}
  PROVE  Min(S) \in S /\ \A n \in S : Min(S) <= n
BY LeastNumber, Zenon DEF Min

\* The entries of two lists one after the other.
LEMMA ConcatParts ==
  ASSUME NEW G, NEW a \in Seq(G), NEW b \in Seq(G)
  PROVE  /\ a \o b \in Seq(G) /\ Len(a \o b) = Len(a) + Len(b)
         /\ \A k \in 1 .. Len(a) + Len(b) : (a \o b)[k] = IF k <= Len(a) THEN a[k] ELSE b[k - Len(a)]
<1>1. a \o b \in Seq(G) /\ Len(a \o b) = Len(a) + Len(b)
  OBVIOUS
<1>2. ASSUME NEW k \in 1 .. Len(a) + Len(b)
      PROVE  (a \o b)[k] = IF k <= Len(a) THEN a[k] ELSE b[k - Len(a)]
  OBVIOUS
<1> QED
  BY <1>1, <1>2

\* Lists with the same entries are the same.
LEMMA SameEntries ==
  ASSUME NEW G, NEW a \in Seq(G), NEW b \in Seq(G), Len(a) = Len(b),
         \A k \in 1 .. Len(a) : a[k] = b[k]
  PROVE  a = b
OBVIOUS

\* What olsr_gw_list_remove does to a list without repetitions.
LEMMA ListRemove ==
  ASSUME NEW G, NEW l \in Seq(G), IsInjective(l), NEW g \in Range(l)
  PROVE  /\ GwListRemove(l, g) \in Seq(G)
         /\ IsInjective(GwListRemove(l, g))
         /\ Range(GwListRemove(l, g)) = Range(l) \ {g}
         /\ Len(GwListRemove(l, g)) = Len(l) - 1
<1> DEFINE i == CHOOSE i \in DOMAIN l : l[i] = g
<1>1. i \in 1 .. Len(l) /\ l[i] = g
  BY DEF Range
<1> HIDE DEF i
<1> DEFINE m == [k \in 1 .. Len(l) - 1 |-> IF k < i THEN l[k] ELSE l[k + 1]]
<1>2. GwListRemove(l, g) = SubSeq(l, 1, i - 1) \o SubSeq(l, i + 1, Len(l))
  BY DEF GwListRemove, i
<1>3. SubSeq(l, 1, i - 1) \o SubSeq(l, i + 1, Len(l)) = m
  <2> DEFINE a == SubSeq(l, 1, i - 1)
             b == SubSeq(l, i + 1, Len(l))
  <2>1. a \in Seq(G) /\ Len(a) = i - 1 /\ \A k \in 1 .. i - 1 : a[k] = l[k]
    BY <1>1
  <2>2. b \in Seq(G) /\ Len(b) = Len(l) - i /\ \A k \in 1 .. Len(l) - i : b[k] = l[k + i]
    BY <1>1
  <2>3. SubSeq(l, 1, i - 1) \o SubSeq(l, i + 1, Len(l)) = a \o b
    OBVIOUS
  <2> HIDE DEF a, b
  <2>4. /\ a \o b \in Seq(G) /\ Len(a \o b) = Len(a) + Len(b)
        /\ \A k \in 1 .. Len(a) + Len(b) : (a \o b)[k] = IF k <= Len(a) THEN a[k] ELSE b[k - Len(a)]
    BY <2>1, <2>2, ConcatParts, Zenon
  <2>5. Len(a \o b) = Len(l) - 1
    BY <1>1, <2>1, <2>2, <2>4
  <2>6. m \in Seq(G) /\ Len(m) = Len(l) - 1
    BY <1>1
  <2>7. ASSUME NEW k \in 1 .. Len(l) - 1 PROVE (a \o b)[k] = m[k]
    <3>1. (a \o b)[k] = IF k <= i - 1 THEN a[k] ELSE b[k - (i - 1)]
      BY <1>1, <2>1, <2>2, <2>4
    <3>2. CASE k < i
      BY <1>1, <2>1, <3>1, <3>2
    <3>3. CASE k >= i
      <4>1. k - (i - 1) \in 1 .. Len(l) - i
        BY <1>1, <3>3
      <4>2. b[k - (i - 1)] = l[k - (i - 1) + i]
        BY <2>2, <4>1
      <4> QED
        BY <1>1, <3>1, <3>3, <4>2
    <3>4. k < i \/ k >= i
      BY <1>1
    <3> QED
      BY <3>2, <3>3, <3>4, Zenon
  <2> HIDE DEF m
  <2> QED
    BY <2>3, <2>4, <2>5, <2>6, <2>7, SameEntries, Zenon
<1>4. m \in Seq(G) /\ Len(m) = Len(l) - 1
  BY <1>1
<1>5. IsInjective(m)
  BY <1>1, <1>4 DEF IsInjective
<1>6. Range(m) = Range(l) \ {g}
  <2>1. ASSUME NEW x \in Range(m) PROVE x \in Range(l) \ {g}
    BY <1>1 DEF Range, IsInjective
  <2>2. ASSUME NEW x \in Range(l) \ {g} PROVE x \in Range(m)
    <3>1. PICK k \in 1 .. Len(l) : l[k] = x
      BY DEF Range
    <3>2. CASE k < i
      <4>1. k \in DOMAIN m /\ m[k] = x
        BY <1>1, <3>1, <3>2
      <4> QED
        BY <4>1 DEF Range
    <3>3. CASE k > i
      <4>1. k - 1 \in DOMAIN m /\ m[k - 1] = x
        BY <1>1, <3>1, <3>3
      <4> QED
        BY <4>1 DEF Range
    <3> QED
      BY <1>1, <3>1, <3>2, <3>3
  <2> QED
    BY <2>1, <2>2
<1> QED
  BY <1>2, <1>3, <1>4, <1>5, <1>6, Zenon

\* What olsr_gw_list_add does with a gateway that is not on the list.
LEMMA ListAdd ==
  ASSUME NEW G, NEW l \in Seq(G), IsInjective(l), NEW g \in G, g \notin Range(l), NEW t
  PROVE  /\ GwListAdd(l, g, t) \in Seq(G)
         /\ IsInjective(GwListAdd(l, g, t))
         /\ Range(GwListAdd(l, g, t)) = Range(l) \cup {g}
         /\ Len(GwListAdd(l, g, t)) = Len(l) + 1
<1> DEFINE D == {i \in DOMAIN l : t[g].path_cost <= t[l[i]].path_cost}
           i == IF D = {} THEN Len(l) + 1 ELSE Min(D)
<1>1. i \in 1 .. Len(l) + 1
  <2>1. D \in SUBSET Nat /\ D \subseteq 1 .. Len(l)
    OBVIOUS
  <2> HIDE DEF D
  <2>2. D # {} => Min(D) \in D
    BY <2>1, MinIsLeast, Zenon
  <2>3. D # {} => Min(D) \in 1 .. Len(l)
    BY <2>1, <2>2, Zenon
  <2> DEFINE k == Min(D)
  <2> HIDE DEF k
  <2>4. D # {} => k \in 1 .. Len(l)
    BY <2>3 DEF k
  <2>5. (IF D = {} THEN Len(l) + 1 ELSE k) \in 1 .. Len(l) + 1
    BY <2>4
  <2> QED
    BY <2>5 DEF k
<1>2. GwListAdd(l, g, t) = SubSeq(l, 1, i - 1) \o <<g>> \o SubSeq(l, i, Len(l))
  BY DEF GwListAdd
<1> HIDE DEF i, D
<1> DEFINE m == [k \in 1 .. Len(l) + 1 |-> IF k < i THEN l[k] ELSE IF k = i THEN g ELSE l[k - 1]]
           a == SubSeq(l, 1, i - 1)
           b == SubSeq(l, i, Len(l))
           e == <<g>>
<1>3. a \in Seq(G) /\ Len(a) = i - 1 /\ \A k \in 1 .. i - 1 : a[k] = l[k]
  BY <1>1
<1>4. b \in Seq(G) /\ Len(b) = Len(l) - i + 1 /\ \A k \in 1 .. Len(l) - i + 1 : b[k] = l[k + i - 1]
  BY <1>1
<1>5. e \in Seq(G) /\ Len(e) = 1 /\ e[1] = g
  OBVIOUS
<1>6. SubSeq(l, 1, i - 1) \o <<g>> \o SubSeq(l, i, Len(l)) = (a \o e) \o b
  OBVIOUS
<1> HIDE DEF a, b, e
<1>7. /\ a \o e \in Seq(G) /\ Len(a \o e) = Len(a) + Len(e)
      /\ \A k \in 1 .. Len(a) + Len(e) : (a \o e)[k] = IF k <= Len(a) THEN a[k] ELSE e[k - Len(a)]
  BY <1>3, <1>5, ConcatParts, Zenon
<1> DEFINE c == a \o e
<1>8. c \in Seq(G) /\ Len(c) = i /\ \A k \in 1 .. i : c[k] = IF k < i THEN l[k] ELSE g
  BY <1>1, <1>3, <1>5, <1>7
<1> HIDE DEF c
<1>9. /\ c \o b \in Seq(G) /\ Len(c \o b) = Len(c) + Len(b)
      /\ \A k \in 1 .. Len(c) + Len(b) : (c \o b)[k] = IF k <= Len(c) THEN c[k] ELSE b[k - Len(c)]
  BY <1>4, <1>8, ConcatParts, Zenon
<1>10. m \in Seq(G) /\ Len(m) = Len(l) + 1
  BY <1>1
<1>11. c \o b = m
  <2>1. Len(c \o b) = Len(l) + 1
    BY <1>1, <1>4, <1>8, <1>9
  <2>2. ASSUME NEW k \in 1 .. Len(l) + 1 PROVE (c \o b)[k] = m[k]
    <3>1. (c \o b)[k] = IF k <= i THEN c[k] ELSE b[k - i]
      BY <1>1, <1>4, <1>8, <1>9
    <3>2. CASE k <= i
      BY <1>1, <1>8, <3>1, <3>2
    <3>3. CASE k > i
      <4>1. k - i \in 1 .. Len(l) - i + 1
        BY <1>1, <3>3
      <4>2. b[k - i] = l[k - i + i - 1] /\ k - i + i - 1 = k - 1
        BY <1>1, <1>4, <4>1
      <4> QED
        BY <1>1, <3>1, <3>3, <4>2
    <3>4. k <= i \/ k > i
      BY <1>1
    <3> QED
      BY <3>2, <3>3, <3>4, Zenon
  <2> HIDE DEF m
  <2> QED
    BY <1>9, <1>10, <2>1, <2>2, SameEntries, Zenon
<1>12. IsInjective(m)
  BY <1>1, <1>10 DEF IsInjective, Range
<1>13. Range(m) = Range(l) \cup {g}
  <2>1. ASSUME NEW x \in Range(m) PROVE x \in Range(l) \cup {g}
    BY <1>1 DEF Range
  <2>2. g \in Range(m)
    <3>1. i \in DOMAIN m /\ m[i] = g
      BY <1>1
    <3> QED
      BY <3>1 DEF Range
  <2>3. ASSUME NEW x \in Range(l) PROVE x \in Range(m)
    <3>1. PICK k \in 1 .. Len(l) : l[k] = x
      BY DEF Range
    <3>2. CASE k < i
      <4>1. k \in DOMAIN m /\ m[k] = x
        BY <1>1, <3>1, <3>2
      <4> QED
        BY <4>1 DEF Range
    <3>3. CASE k >= i
      <4>1. k + 1 \in DOMAIN m /\ m[k + 1] = x
        BY <1>1, <3>1, <3>3
      <4> QED
        BY <4>1 DEF Range
    <3> QED
      BY <1>1, <3>1, <3>2, <3>3
  <2> QED
    BY <2>1, <2>2, <2>3
<1> QED
  BY <1>2, <1>6, <1>10, <1>11, <1>12, <1>13, Zenon DEF c

----------------------------------------------------------------------------
(* The inductive invariant, on the states that the functions of the        *)
(* daemon pass on                                                          *)

Trees == UNION {[D -> Entries] : D \in SUBSET Gateways}

States ==
  [tc : [Gateways -> Nat \cup {None, Broken}], tree : Trees,
   list : [Family -> Seq(Gateways)], current : [Family -> Gateways \cup {None, Freed}],
   tunnel : [Gateways -> Nat], names : [Slots -> Gateways \cup {None}],
   route : [Family -> Gateways \cup {None}], want : [Family -> BOOLEAN], timer : BOOLEAN,
   nodecount : Nat, stablecount : 0 .. olsr_cnf.stablecount, broken : BOOLEAN]

Uses(lists, g) ==
  (IF g \in Range(lists["v4"]) THEN 1 ELSE 0) + (IF g \in Range(lists["v6"]) THEN 1 ELSE 0)

\* A list that cannot be kept is empty, and the only gateway of a family is
\* its current one.
ListOk(s, f) ==
  /\ IsInjective(s.list[f]) /\ Len(s.list[f]) <= olsr_cnf.use_count
  /\ Range(s.list[f]) \subseteq DOMAIN s.tree
  /\ s.current[f] \in Range(s.list[f]) \cup {None, Freed}
  /\ s.current[f] # Freed => s.route[f] = s.current[f]
  /\ f \notin Families => s.list[f] = << >>
  /\ olsr_cnf.use_count = 1 /\ s.list[f] # << >> => s.current[f] \in Range(s.list[f])

NamesOk(s) ==
  Multi => /\ \A i, j \in Slots : s.names[i] = s.names[j] => i = j \/ s.names[i] = None
           /\ {s.names[i] : i \in Slots} \ {None} = Range(s.list["v4"])

\* A gateway that waits for its removal offers nothing and is on no list;
\* one that could be chosen has a TC entry, and so has one on a list.
TreeOk(s) ==
  /\ \A g \in DOMAIN s.tree :
       /\ s.tree[g].cleanup_timer =>
            /\ ~s.tree[g].v4 /\ ~s.tree[g].v6
            /\ \A f \in Family : g \notin Range(s.list[f])
       /\ (s.tree[g].v4 \/ s.tree[g].v6) /\ s.tree[g].path_cost # Inf => s.tc[g] # None
  /\ \A f \in Family : \A g \in Range(s.list[f]) : s.tc[g] # None

Ok(s) ==
  /\ olsr_cnf \in Configurations /\ s \in States
  /\ \A f \in Family : ListOk(s, f)
  /\ \A g \in Gateways : s.tunnel[g] = Uses(s.list, g)
  /\ NamesOk(s)
  /\ TreeOk(s)

\* No container has been freed under a pointer.
Sound(s) == ~s.broken /\ \A f \in Family : s.current[f] # Freed

----------------------------------------------------------------------------
(* Taking a gateway off a list                                             *)

\* What a state offers its readers.
LEMMA Typed ==
  ASSUME NEW s, Ok(s)
  PROVE  /\ s \in States
         /\ Families \subseteq Family /\ olsr_cnf.use_count \in Nat /\ olsr_cnf.use_count > 0
         /\ Multi => Families \subseteq {"v4"}
         /\ Slots = IF Multi THEN 1 .. olsr_cnf.use_count ELSE {}
         /\ \A f \in Family : s.list[f] \in Seq(Gateways) /\ Range(s.list[f]) \subseteq Gateways
         /\ DOMAIN s.tree \subseteq Gateways
<1>1. olsr_cnf \in Configurations /\ s \in States
  BY DEF Ok
<1>2. /\ Families \subseteq Family /\ olsr_cnf.use_count \in Nat /\ olsr_cnf.use_count > 0
      /\ Multi => Families \subseteq {"v4"}
  BY <1>1, ConfigurationsAssumption DEF Families, Multi
<1>3. Slots = IF Multi THEN 1 .. olsr_cnf.use_count ELSE {}
  BY <1>2 DEF Slots
<1>4. ASSUME NEW f \in Family
      PROVE  s.list[f] \in Seq(Gateways) /\ Range(s.list[f]) \subseteq Gateways
  <2>1. s.list[f] \in Seq(Gateways)
    BY <1>1 DEF States
  <2> QED
    BY <2>1 DEF Range
<1>5. DOMAIN s.tree \subseteq Gateways
  BY <1>1 DEF States, Trees
<1> QED
  BY <1>1, <1>2, <1>3, <1>4, <1>5

\* set_unused_iptunnel_name gives the name of a gateway back.
LEMMA NameReturned ==
  ASSUME NEW x \in States, NEW g \in Gateways, olsr_cnf.use_count \in Nat,
         Multi => \A i, j \in Slots : x.names[i] = x.names[j] => i = j \/ x.names[i] = None
  PROVE  SetUnusedName(x, g) =
           [x EXCEPT !.names = [i \in Slots |-> IF x.names[i] = g THEN None ELSE x.names[i]]]
<1> DEFINE held == {i \in Slots : x.names[i] = g}
           new == [i \in Slots |-> IF x.names[i] = g THEN None ELSE x.names[i]]
<1>0. None # g
  BY GatewaysAssumption
<1>1. x.names \in [Slots -> Gateways \cup {None}]
  BY DEF States
<1>2. CASE held = {}
  <2>1. new = x.names
    BY <1>1, <1>2
  <2>2. [x EXCEPT !.names = x.names] = x
    BY DEF States
  <2> QED
    BY <1>2, <2>1, <2>2 DEF SetUnusedName
<1>3. CASE held # {}
  <2>1. held \in SUBSET Nat /\ Multi
    BY <1>3 DEF Slots
  <2>2. Min(held) \in held
    <3> HIDE DEF held
    <3> QED
      BY <1>3, <2>1, MinIsLeast
  <2> DEFINE i == Min(held)
  <2> HIDE DEF i
  <2>3. i \in held
    BY <2>2 DEF i
  <2>4. [x.names EXCEPT ![i] = None] = new
    BY <1>0, <1>1, <2>1, <2>3
  <2>5. SetUnusedName(x, g) = [x EXCEPT !.names[i] = None]
    BY <1>3 DEF SetUnusedName, i
  <2>6. [x EXCEPT !.names[i] = None] = [x EXCEPT !.names = [x.names EXCEPT ![i] = None]]
    BY DEF States
  <2> QED
    BY <2>4, <2>5, <2>6
<1> QED
  BY <1>2, <1>3

\* Gateway g has been taken off the list of family f.
TakenOff(s, t, f, g) ==
  /\ t \in States
  /\ t.tc = s.tc /\ t.tree = s.tree /\ t.broken = s.broken
  /\ t.list = [s.list EXCEPT ![f] = GwListRemove(s.list[f], g)]
  /\ t.tunnel = [s.tunnel EXCEPT ![g] = s.tunnel[g] - 1]
  /\ \A i \in Slots : t.names[i] = IF s.names[i] = g THEN None ELSE s.names[i]
  /\ \A h \in Family : h # f \/ s.current[f] # g => t.current[h] = s.current[h]
  /\ s.current[f] = g => t.current[f] \in {None, Freed}
  /\ \A h \in Family : t.current[h] # Freed =>
       t.route[h] = IF h = f /\ s.current[f] = g THEN None ELSE s.route[h]

\* A default route into the tunnel of g belongs to a family g is current in.
LEMMA RouteKept ==
  ASSUME NEW s, Ok(s), NEW f \in Family, NEW g \in Range(s.list[f]),
         NEW h \in Family, s.current[h] # Freed, h # f \/ s.current[f] # g
  PROVE  ~(s.route[h] = g /\ s.tunnel[g] = 1)
<1>1. g \in Gateways /\ g # None /\ g # Freed
  BY Typed, GatewaysAssumption
<1>2. s.route[h] = s.current[h] /\ s.current[h] \in Range(s.list[h]) \cup {None, Freed}
  BY DEF Ok, ListOk
<1>3. s.tunnel[g] = Uses(s.list, g)
  BY <1>1 DEF Ok
<1>4. h # f /\ g \in Range(s.list[h]) => Uses(s.list, g) = 2
  BY DEF Uses, Family
<1> QED
  BY <1>1, <1>2, <1>3, <1>4

\* removeGatewayFromList.
LEMMA RemovedIsOff ==
  ASSUME NEW s, Ok(s), NEW f \in Family, NEW g \in Range(s.list[f])
  PROVE  LET t == RemoveGatewayFromList(s, f, g)
         IN  TakenOff(s, t, f, g) /\ t.current[f] = IF s.current[f] = g THEN Freed ELSE s.current[f]
<1> DEFINE t == RemoveGatewayFromList(s, f, g)
           x == DelTunnel(s, g)
           nm == [i \in Slots |-> IF x.names[i] = g THEN None ELSE x.names[i]]
<1>1. /\ g \in Gateways /\ g # None /\ g # Freed
      /\ s \in States /\ s.list[f] \in Seq(Gateways)
      /\ olsr_cnf.use_count \in Nat
  BY Typed, GatewaysAssumption
<1>2. s.tunnel[g] \in Nat /\ s.tunnel[g] >= 1
  <2>1. s.tunnel[g] = Uses(s.list, g)
    BY <1>1 DEF Ok
  <2> QED
    BY <2>1 DEF Uses, Family
<1>3. /\ x \in States
      /\ x.names = s.names /\ x.list = s.list /\ x.current = s.current
      /\ x.tc = s.tc /\ x.tree = s.tree /\ x.broken = s.broken
      /\ x.tunnel = [s.tunnel EXCEPT ![g] = s.tunnel[g] - 1]
      /\ x.route = [h \in Family |-> IF s.route[h] = g /\ s.tunnel[g] = 1 THEN None ELSE s.route[h]]
  <2> DEFINE tu == [s.tunnel EXCEPT ![g] = s.tunnel[g] - 1]
             ro == [h \in Family |-> IF s.route[h] = g /\ s.tunnel[g] = 1 THEN None ELSE s.route[h]]
  <2>1. x = [s EXCEPT !.tunnel = tu, !.route = ro]
    BY <1>1 DEF DelTunnel, States
  <2>2. tu \in [Gateways -> Nat] /\ ro \in [Family -> Gateways \cup {None}]
    BY <1>1, <1>2 DEF States
  <2> HIDE DEF tu, ro
  <2>3. /\ x \in States
        /\ x.names = s.names /\ x.list = s.list /\ x.current = s.current
        /\ x.tc = s.tc /\ x.tree = s.tree /\ x.broken = s.broken
        /\ x.tunnel = tu /\ x.route = ro
    BY <1>1, <2>1, <2>2, Zenon DEF States
  <2> QED
    BY <2>3 DEF tu, ro
<1>4. SetUnusedName(x, g) = [x EXCEPT !.names = nm]
  <2>1. Multi => \A i, j \in Slots : x.names[i] = x.names[j] => i = j \/ x.names[i] = None
    BY <1>3 DEF Ok, NamesOk
  <2> HIDE DEF x
  <2> QED
    BY <1>1, <1>3, <2>1, NameReturned
<1>5. GwListRemove(s.list[f], g) \in Seq(Gateways)
  <2>1. IsInjective(s.list[f])
    BY DEF Ok, ListOk
  <2> QED
    BY <1>1, <2>1, ListRemove
<1> DEFINE li == [s.list EXCEPT ![f] = GwListRemove(s.list[f], g)]
           cu == [s.current EXCEPT ![f] = IF s.current[f] = g THEN Freed ELSE s.current[f]]
<1>6. t = [x EXCEPT !.names = nm, !.list = li, !.current = cu]
  <2> HIDE DEF x, nm
  <2>1. t = [[x EXCEPT !.names = nm] EXCEPT !.list[f] = GwListRemove(@, g), !.current[f] = IF @ = g THEN Freed ELSE @]
    BY <1>4 DEF RemoveGatewayFromList, x
  <2> HIDE DEF t
  <2> QED
    BY <1>3, <2>1, Zenon DEF States
<1>7. /\ nm \in [Slots -> Gateways \cup {None}] /\ li \in [Family -> Seq(Gateways)]
      /\ cu \in [Family -> Gateways \cup {None, Freed}]
  <2> HIDE DEF x
  <2> QED
    BY <1>1, <1>3, <1>5 DEF States
<1>8. /\ t \in States
      /\ t.tc = s.tc /\ t.tree = s.tree /\ t.broken = s.broken
      /\ t.list = li /\ t.current = cu /\ t.names = nm
      /\ t.tunnel = x.tunnel /\ t.route = x.route
  <2> HIDE DEF x, nm, li, cu, t
  <2> QED
    BY <1>3, <1>6, <1>7, Zenon DEF States
<1>9. s.current \in [Family -> Gateways \cup {None, Freed}]
  BY <1>1 DEF States
<1>10. ASSUME NEW h \in Family, t.current[h] # Freed
       PROVE  t.route[h] = IF h = f /\ s.current[f] = g THEN None ELSE s.route[h]
  <2>1. t.current[h] = cu[h] /\ t.route[h] = x.route[h]
    BY <1>8
  <2> HIDE DEF t
  <2>2. ~(h = f /\ s.current[f] = g) /\ s.current[h] # Freed
    BY <1>9, <1>10, <2>1
  <2>3. ~(s.route[h] = g /\ s.tunnel[g] = 1)
    BY <2>2, RouteKept
  <2> QED
    BY <1>3, <2>1, <2>2, <2>3
<1> QED
  <2>1. t.current[f] = IF s.current[f] = g THEN Freed ELSE s.current[f]
    BY <1>8, <1>9
  <2>2. \A h \in Family : h # f \/ s.current[f] # g => t.current[h] = s.current[h]
    BY <1>8, <1>9
  <2>3. \A i \in Slots : t.names[i] = IF s.names[i] = g THEN None ELSE s.names[i]
    BY <1>3, <1>8
  <2> HIDE DEF t, x
  <2> QED
    BY <1>3, <1>8, <1>10, <2>1, <2>2, <2>3 DEF TakenOff, t

\* The lists of olsr_delete_gateway_tree_entry.
LEMMA UnlistedIsOff ==
  ASSUME NEW s, Ok(s), NEW f \in Family, NEW g \in Range(s.list[f])
  PROVE  LET t == Unlist(s, f, g)
         IN  TakenOff(s, t, f, g) /\ t.current[f] = IF s.current[f] = g THEN None ELSE s.current[f]
<1> DEFINE t == Unlist(s, f, g)
           li == [s.list EXCEPT ![f] = GwListRemove(s.list[f], g)]
           cu == [s.current EXCEPT ![f] = IF s.current[f] = g THEN None ELSE s.current[f]]
           r0 == [s.route EXCEPT ![f] = IF s.current[f] = g /\ s.route[f] = g THEN None ELSE s.route[f]]
           y == [s EXCEPT !.current = cu, !.route = r0, !.list = li]
           x == DelTunnel(y, g)
           nm == [i \in Slots |-> IF s.names[i] = g THEN None ELSE s.names[i]]
           tu == [s.tunnel EXCEPT ![g] = s.tunnel[g] - 1]
           ro == [h \in Family |-> IF r0[h] = g /\ s.tunnel[g] = 1 THEN None ELSE r0[h]]
<1>1. /\ g \in Gateways /\ g # None /\ g # Freed
      /\ s \in States /\ s.list[f] \in Seq(Gateways)
      /\ olsr_cnf.use_count \in Nat
  BY Typed, GatewaysAssumption
<1>2. s.tunnel[g] \in Nat /\ s.tunnel[g] >= 1
  <2>1. s.tunnel[g] = Uses(s.list, g)
    BY <1>1 DEF Ok
  <2> QED
    BY <2>1 DEF Uses, Family
<1>3. GwListRemove(s.list[f], g) \in Seq(Gateways)
  <2>1. IsInjective(s.list[f])
    BY DEF Ok, ListOk
  <2> QED
    BY <1>1, <2>1, ListRemove
<1>4. /\ li \in [Family -> Seq(Gateways)] /\ cu \in [Family -> Gateways \cup {None, Freed}]
      /\ r0 \in [Family -> Gateways \cup {None}]
  BY <1>1, <1>3 DEF States
<1>5. /\ tu \in [Gateways -> Nat] /\ nm \in [Slots -> Gateways \cup {None}]
      /\ ro \in [Family -> Gateways \cup {None}]
  <2> HIDE DEF r0
  <2> QED
    BY <1>1, <1>2, <1>4 DEF States
<1>6. t = SetUnusedName(x, g)
  <2>1. y = [s EXCEPT !.current[f] = IF s.current[f] = g THEN None ELSE @,
                      !.route[f] = IF s.current[f] = g /\ @ = g THEN None ELSE @,
                      !.list[f] = GwListRemove(@, g)]
    BY <1>1 DEF States
  <2> HIDE DEF y, x
  <2> QED
    BY <2>1 DEF Unlist, GwListFind, x
<1>7. /\ y \in States
      /\ y.names = s.names /\ y.list = li /\ y.current = cu /\ y.route = r0 /\ y.tunnel = s.tunnel
      /\ y.tc = s.tc /\ y.tree = s.tree /\ y.broken = s.broken
  <2> HIDE DEF li, cu, r0
  <2> QED
    BY <1>1, <1>4, Zenon DEF States
<1> HIDE DEF y
<1>8. /\ x \in States
      /\ x.names = s.names /\ x.list = li /\ x.current = cu /\ x.route = ro /\ x.tunnel = tu
      /\ x.tc = s.tc /\ x.tree = s.tree /\ x.broken = s.broken
  <2>1. x = [y EXCEPT !.tunnel = tu, !.route = ro]
    <3> HIDE DEF r0, li, cu
    <3> QED
      BY <1>1, <1>7 DEF DelTunnel, States
  <2> HIDE DEF li, cu, r0, tu, ro
  <2> QED
    BY <1>5, <1>7, <2>1, Zenon DEF States
<1> HIDE DEF x
<1>9. t = [x EXCEPT !.names = nm]
  <2>1. Multi => \A i, j \in Slots : x.names[i] = x.names[j] => i = j \/ x.names[i] = None
    BY <1>8 DEF Ok, NamesOk
  <2>2. SetUnusedName(x, g) = [x EXCEPT !.names = [i \in Slots |-> IF x.names[i] = g THEN None ELSE x.names[i]]]
    BY <1>1, <1>8, <2>1, NameReturned
  <2> HIDE DEF t
  <2> QED
    BY <1>6, <1>8, <2>2
<1>10. /\ t \in States
       /\ t.tc = s.tc /\ t.tree = s.tree /\ t.broken = s.broken
       /\ t.list = li /\ t.current = cu /\ t.names = nm
       /\ t.tunnel = tu /\ t.route = ro
  <2> HIDE DEF nm, li, cu, tu, ro, r0, t
  <2> QED
    BY <1>5, <1>8, <1>9, Zenon DEF States
<1>11. /\ s.current \in [Family -> Gateways \cup {None, Freed}]
       /\ s.route \in [Family -> Gateways \cup {None}]
  BY <1>1 DEF States
<1> HIDE DEF t
<1>12. ASSUME NEW h \in Family, t.current[h] # Freed
       PROVE  t.route[h] = IF h = f /\ s.current[f] = g THEN None ELSE s.route[h]
  <2>1. t.current[h] = cu[h] /\ t.route[h] = ro[h]
    BY <1>10
  <2>2. CASE h = f /\ s.current[f] = g
    <3>1. s.route[f] = g
      BY <1>1, <2>2 DEF Ok, ListOk
    <3> QED
      BY <1>1, <1>11, <2>1, <2>2, <3>1
  <2>3. CASE ~(h = f /\ s.current[f] = g)
    <3>1. s.current[h] # Freed /\ r0[h] = s.route[h]
      BY <1>11, <1>12, <2>1, <2>3
    <3>2. ~(s.route[h] = g /\ s.tunnel[g] = 1)
      BY <2>3, <3>1, RouteKept
    <3> QED
      BY <2>1, <2>3, <3>1, <3>2
  <2> QED
    BY <2>2, <2>3
<1> QED
  <2>1. t.current[f] = IF s.current[f] = g THEN None ELSE s.current[f]
    BY <1>10, <1>11
  <2>2. \A h \in Family : h # f \/ s.current[f] # g => t.current[h] = s.current[h]
    BY <1>10, <1>11
  <2>3. \A i \in Slots : t.names[i] = IF s.names[i] = g THEN None ELSE s.names[i]
    BY <1>10
  <2> QED
    BY <1>10, <1>12, <2>1, <2>2, <2>3 DEF TakenOff, t

\* Tree, lists, tunnels, names and routes still agree without it.
LEMMA OffIsOk ==
  ASSUME NEW s, Ok(s), NEW f \in Family, NEW g \in Range(s.list[f]), NEW t, TakenOff(s, t, f, g)
  PROVE  /\ Ok(t)
         /\ \A h \in Family : Range(t.list[h]) = Range(s.list[h]) \ (IF h = f THEN {g} ELSE {})
         /\ Len(t.list[f]) = Len(s.list[f]) - 1
<1>1. /\ g \in Gateways /\ g # None /\ g # Freed
      /\ s \in States /\ s.list[f] \in Seq(Gateways)
      /\ olsr_cnf.use_count \in Nat /\ (Multi => Families \subseteq {"v4"})
      /\ t \in States
  BY Typed, GatewaysAssumption DEF TakenOff
<1>2. IsInjective(s.list[f])
  BY DEF Ok, ListOk
<1>3. /\ IsInjective(t.list[f])
      /\ Range(t.list[f]) = Range(s.list[f]) \ {g}
      /\ Len(t.list[f]) = Len(s.list[f]) - 1
      /\ \A h \in Family \ {f} : t.list[h] = s.list[h]
  <2>1. t.list[f] = GwListRemove(s.list[f], g) /\ \A h \in Family \ {f} : t.list[h] = s.list[h]
    BY <1>1 DEF TakenOff, States
  <2> QED
    BY <1>1, <1>2, <2>1, ListRemove
<1>4. \A h \in Family : Range(t.list[h]) = Range(s.list[h]) \ (IF h = f THEN {g} ELSE {})
  BY <1>3
<1>5. ASSUME NEW h \in Family PROVE ListOk(t, h)
  <2>1. ListOk(s, h)
    BY DEF Ok
  <2>2. s.list[h] \in Seq(Gateways) /\ t.list[h] \in Seq(Gateways)
    BY <1>1 DEF States
  <2>3. IsInjective(t.list[h]) /\ Len(t.list[h]) <= olsr_cnf.use_count
    BY <1>1, <1>3, <2>1, <2>2 DEF ListOk
  <2>4. Range(t.list[h]) \subseteq DOMAIN t.tree
    BY <1>4, <2>1 DEF ListOk, TakenOff
  <2>5. t.current[h] \in Range(t.list[h]) \cup {None, Freed}
    BY <1>4, <2>1 DEF ListOk, TakenOff
  <2>6. t.current[h] # Freed => t.route[h] = t.current[h]
    BY <2>1 DEF ListOk, TakenOff
  <2>7. h \notin Families => t.list[h] = << >>
    <3>1. h \notin Families => h # f
      <4>1. f \notin Families => s.list[f] = << >>
        BY DEF Ok, ListOk
      <4>2. s.list[f] # << >>
        BY DEF Range
      <4> QED
        BY <4>1, <4>2
    <3> QED
      BY <1>3, <2>1, <3>1 DEF ListOk
  <2>8. olsr_cnf.use_count = 1 /\ t.list[h] # << >> => t.current[h] \in Range(t.list[h])
    <3>1. CASE h = f
      <4>1. olsr_cnf.use_count = 1 => Len(t.list[h]) = 0
        BY <1>3, <2>1, <2>2, <3>1 DEF ListOk
      <4> QED
        BY <2>2, <4>1
    <3>2. CASE h # f
      BY <1>3, <2>1, <3>2 DEF ListOk, TakenOff
    <3> QED
      BY <3>1, <3>2
  <2> QED
    BY <2>3, <2>4, <2>5, <2>6, <2>7, <2>8 DEF ListOk
<1>6. ASSUME NEW k \in Gateways PROVE t.tunnel[k] = Uses(t.list, k)
  <2>1. s.tunnel[k] = Uses(s.list, k) /\ s.tunnel \in [Gateways -> Nat]
    BY <1>1 DEF Ok, States
  <2>2. t.tunnel[k] = IF k = g THEN s.tunnel[k] - 1 ELSE s.tunnel[k]
    BY <2>1 DEF TakenOff
  <2>3. Uses(t.list, k) = IF k = g THEN Uses(s.list, k) - 1 ELSE Uses(s.list, k)
    <3>1. "v4" \in Family /\ "v6" \in Family
      BY DEF Family
    <3>2. f = "v4" \/ f = "v6"
      BY DEF Family
    <3> QED
      BY <1>4, <3>1, <3>2 DEF Uses
  <2> QED
    BY <2>1, <2>2, <2>3
<1>7. NamesOk(t)
  <2> SUFFICES ASSUME Multi PROVE NamesOk(t)
    BY DEF NamesOk
  <2>1. f = "v4"
    <3>1. s.list[f] # << >>
      BY DEF Range
    <3>2. f \in Families
      BY <3>1 DEF Ok, ListOk
    <3> QED
      BY <1>1, <3>2
  <2>2. /\ \A i, j \in Slots : s.names[i] = s.names[j] => i = j \/ s.names[i] = None
        /\ {s.names[i] : i \in Slots} \ {None} = Range(s.list["v4"])
    BY DEF Ok, NamesOk
  <2>3. \A i \in Slots : t.names[i] = IF s.names[i] = g THEN None ELSE s.names[i]
    BY DEF TakenOff
  <2>4. \A i, j \in Slots : t.names[i] = t.names[j] => i = j \/ t.names[i] = None
    BY <2>2, <2>3
  <2>5. {t.names[i] : i \in Slots} \ {None} = ({s.names[i] : i \in Slots} \ {None}) \ {g}
    BY <1>1, <2>3
  <2> QED
    BY <1>3, <2>1, <2>2, <2>4, <2>5 DEF NamesOk
<1>8. TreeOk(t)
  BY <1>4 DEF Ok, TreeOk, TakenOff
<1> QED
  BY <1>1, <1>3, <1>4, <1>5, <1>6, <1>7, <1>8 DEF Ok

----------------------------------------------------------------------------
(* Choosing a gateway                                                      *)

Choosable(s) ==
  {g \in DOMAIN s.tree : (s.tree[g].v4 \/ s.tree[g].v6) /\ s.tree[g].path_cost # Inf}

\* What a choice leaves as it is, and which gateways it may put on a list.
Keeps(s, t) ==
  /\ Ok(t) /\ t.tree = s.tree /\ t.tc = s.tc
  /\ \A f \in Family : Range(t.list[f]) \subseteq Range(s.list[f]) \cup Choosable(s)
  /\ Sound(s) => Sound(t)

\* One choice after the other.
LEMMA KeepsTwice ==
  ASSUME NEW s, NEW t, NEW u, Keeps(s, t), Keeps(t, u)
  PROVE  Keeps(s, u)
<1>1. Choosable(t) = Choosable(s)
  BY DEF Keeps, Choosable
<1> QED
  BY <1>1 DEF Keeps

\* No choice at all.
LEMMA KeepsSame ==
  ASSUME NEW s, Ok(s)
  PROVE  Keeps(s, s)
BY DEF Keeps

\* While a list is not full there is a name for one more tunnel.
LEMMA FreeName ==
  ASSUME NEW s, Ok(s), Multi, Len(s.list["v4"]) < olsr_cnf.use_count
  PROVE  \E i \in Slots : s.names[i] = None
<1> SUFFICES ASSUME \A i \in Slots : s.names[i] # None PROVE FALSE
  OBVIOUS
<1> DEFINE l == s.list["v4"]
           m == [i \in Slots |-> CHOOSE k \in 1 .. Len(l) : l[k] = s.names[i]]
<1>1. /\ olsr_cnf.use_count \in Nat /\ olsr_cnf.use_count > 0
      /\ Slots = 1 .. olsr_cnf.use_count /\ l \in Seq(Gateways)
  BY Typed DEF Family
<1>2. /\ \A i, j \in Slots : s.names[i] = s.names[j] => i = j \/ s.names[i] = None
      /\ {s.names[i] : i \in Slots} \ {None} = Range(l)
  BY DEF Ok, NamesOk
<1>3. ASSUME NEW i \in Slots
      PROVE  m[i] \in 1 .. Len(l) /\ l[m[i]] = s.names[i]
  <2>1. s.names[i] \in Range(l)
    BY <1>2
  <2>2. \E k \in 1 .. Len(l) : l[k] = s.names[i]
    BY <1>1, <2>1, SMTT(30) DEF Range
  <2> QED
    BY <2>2
<1>4. m \in [Slots -> 1 .. Len(l)]
  BY <1>3, SMTT(30)
<1>5. /\ IsFiniteSet(Slots) /\ Cardinality(Slots) = olsr_cnf.use_count
      /\ IsFiniteSet(1 .. Len(l)) /\ Cardinality(1 .. Len(l)) = Len(l)
  <2>1. Len(l) \in Nat
    BY <1>1
  <2>2. \A n \in Nat : IsFiniteSet(1 .. n) /\ Cardinality(1 .. n) = n
    <3> SUFFICES ASSUME NEW n \in Nat PROVE IsFiniteSet(1 .. n) /\ Cardinality(1 .. n) = n
      OBVIOUS
    <3>1. IsFiniteSet(1 .. n) /\ Cardinality(1 .. n) = IF 1 > n THEN 0 ELSE n - 1 + 1
      BY FS_Interval
    <3> QED
      BY <3>1
  <2> QED
    BY <1>1, <2>1, <2>2
<1> HIDE DEF m, l
<1>6. PICK x \in Slots, y \in Slots : x # y /\ m[x] = m[y]
  <2>1. Cardinality(1 .. Len(l)) < Cardinality(Slots)
    BY <1>5 DEF l
  <2> QED
    BY <1>4, <1>5, <2>1, FS_PigeonHole
<1> QED
  BY <1>2, <1>3, <1>6

\* What olsr_set_inet_gateway does when the kernel has added the tunnel.
Listed(s, f, g) ==
  [AddTunnel(s, g) EXCEPT !.list[f] = GwListAdd(@, g, s.tree), !.current[f] = g, !.route[f] = g]

\* A new gateway on a list that is not full.
LEMMA AddIsOk ==
  ASSUME NEW s, Ok(s), NEW f \in Families, NEW g \in Choosable(s), g \notin Range(s.list[f]),
         Len(s.list[f]) < olsr_cnf.use_count
  PROVE  Keeps(s, Listed(s, f, g)) /\ Listed(s, f, g).current = [s.current EXCEPT ![f] = g]
<1> DEFINE t == Listed(s, f, g)
           free == {i \in Slots : s.names[i] = None}
           k == Min(free)
           nm == IF free = {} THEN s.names ELSE [s.names EXCEPT ![k] = g]
           tu == [s.tunnel EXCEPT ![g] = s.tunnel[g] + 1]
           li == [s.list EXCEPT ![f] = GwListAdd(s.list[f], g, s.tree)]
           cu == [s.current EXCEPT ![f] = g]
           ro == [s.route EXCEPT ![f] = g]
<1>1. /\ f \in Family /\ g \in Gateways /\ g # None /\ g # Freed /\ g \in DOMAIN s.tree
      /\ s \in States /\ s.list[f] \in Seq(Gateways) /\ s.tc[g] # None
      /\ olsr_cnf.use_count \in Nat /\ (Multi => Families \subseteq {"v4"})
      /\ Slots = IF Multi THEN 1 .. olsr_cnf.use_count ELSE {}
  <2>1. g \in DOMAIN s.tree /\ g \in Gateways
    BY Typed DEF Choosable
  <2>2. s.tc[g] # None
    BY DEF Choosable, Ok, TreeOk
  <2> QED
    BY <2>1, <2>2, Typed, GatewaysAssumption
<1>2. free # {} => k \in Slots /\ s.names[k] = None
  <2>1. free \in SUBSET Nat
    BY <1>1
  <2> HIDE DEF free
  <2>2. free # {} => Min(free) \in free
    BY <2>1, MinIsLeast
  <2> QED
    BY <2>2 DEF free
<1>3. Multi => free # {}
  <2>1. Multi => f = "v4"
    BY <1>1
  <2> QED
    BY <2>1, FreeName
<1> DEFINE new == GwListAdd(s.list[f], g, s.tree)
<1>4. /\ new \in Seq(Gateways) /\ IsInjective(new)
      /\ Range(new) = Range(s.list[f]) \cup {g} /\ Len(new) = Len(s.list[f]) + 1
  <2>1. IsInjective(s.list[f])
    BY <1>1 DEF Ok, ListOk
  <2> QED
    BY <1>1, <2>1, ListAdd
<1> HIDE DEF new
<1>5. /\ nm \in [Slots -> Gateways \cup {None}] /\ tu \in [Gateways -> Nat]
      /\ li \in [Family -> Seq(Gateways)] /\ cu \in [Family -> Gateways \cup {None, Freed}]
      /\ ro \in [Family -> Gateways \cup {None}]
  <2> HIDE DEF k, free
  <2>1. /\ s.names \in [Slots -> Gateways \cup {None}] /\ s.tunnel \in [Gateways -> Nat]
        /\ s.list \in [Family -> Seq(Gateways)] /\ s.current \in [Family -> Gateways \cup {None, Freed}]
        /\ s.route \in [Family -> Gateways \cup {None}]
    BY <1>1 DEF States
  <2>2. nm \in [Slots -> Gateways \cup {None}]
    BY <1>1, <1>2, <2>1
  <2>3. tu \in [Gateways -> Nat]
    BY <1>1, <2>1
  <2>4. li \in [Family -> Seq(Gateways)]
    BY <1>1, <1>4, <2>1 DEF new
  <2> QED
    BY <1>1, <2>1, <2>2, <2>3, <2>4
<1>6. t = [s EXCEPT !.names = nm, !.tunnel = tu, !.list = li, !.current = cu, !.route = ro]
  <2>1. (IF free = {} THEN s ELSE [s EXCEPT !.names[k] = g]) = [s EXCEPT !.names = nm]
    <3> HIDE DEF k, free
    <3>1. [s EXCEPT !.names = s.names] = s
      BY <1>1 DEF States
    <3>2. [s EXCEPT !.names[k] = g] = [s EXCEPT !.names = [s.names EXCEPT ![k] = g]]
      BY <1>1 DEF States
    <3> QED
      BY <3>1, <3>2
  <2>2. AddTunnel(s, g) = [[s EXCEPT !.names = nm] EXCEPT !.tunnel[g] = @ + 1]
    <3> HIDE DEF nm
    <3> QED
      BY <2>1, Zenon DEF AddTunnel
  <2> HIDE DEF nm
  <2> QED
    BY <1>1, <2>2 DEF States, Listed
<1>7. /\ t \in States
      /\ t.tc = s.tc /\ t.tree = s.tree /\ t.broken = s.broken
      /\ t.list = li /\ t.current = cu /\ t.names = nm
      /\ t.tunnel = tu /\ t.route = ro
  <2> HIDE DEF nm, li, cu, tu, ro, t
  <2> QED
    BY <1>1, <1>5, <1>6, Zenon DEF States
<1> HIDE DEF t
<1>8. /\ t.list[f] = new /\ \A h \in Family \ {f} : t.list[h] = s.list[h]
      /\ \A h \in Family : Range(t.list[h]) = Range(s.list[h]) \cup (IF h = f THEN {g} ELSE {})
  <2>1. t.list[f] = new /\ \A h \in Family \ {f} : t.list[h] = s.list[h]
    BY <1>1, <1>7 DEF States, new
  <2> QED
    BY <1>4, <2>1
<1>9. \A h \in Family : /\ t.current[h] = IF h = f THEN g ELSE s.current[h]
                        /\ t.route[h] = IF h = f THEN g ELSE s.route[h]
  BY <1>1, <1>7 DEF States
<1>10. ASSUME NEW h \in Family PROVE ListOk(t, h)
  <2>1. ListOk(s, h)
    BY DEF Ok
  <2>2. CASE h = f
    <3>1. IsInjective(t.list[h]) /\ Len(t.list[h]) <= olsr_cnf.use_count
      BY <1>1, <1>4, <1>8, <2>2, SMTT(30)
    <3>2. Range(t.list[h]) \subseteq DOMAIN t.tree
      BY <1>1, <1>7, <1>8, <2>1, <2>2 DEF ListOk
    <3>3. t.current[h] \in Range(t.list[h]) /\ t.route[h] = t.current[h]
      BY <1>8, <1>9, <2>2, SMTT(30)
    <3> QED
      BY <2>2, <3>1, <3>2, <3>3 DEF ListOk
  <2>3. CASE h # f
    BY <1>7, <1>8, <1>9, <2>1, <2>3 DEF ListOk
  <2> QED
    BY <2>2, <2>3
<1>11. ASSUME NEW n \in Gateways PROVE t.tunnel[n] = Uses(t.list, n)
  <2>1. s.tunnel[n] = Uses(s.list, n) /\ s.tunnel \in [Gateways -> Nat]
    BY <1>1 DEF Ok, States
  <2>2. t.tunnel[n] = IF n = g THEN s.tunnel[n] + 1 ELSE s.tunnel[n]
    BY <1>1, <1>7, <2>1
  <2>3. Uses(t.list, n) = IF n = g THEN Uses(s.list, n) + 1 ELSE Uses(s.list, n)
    <3>1. "v4" \in Family /\ "v6" \in Family
      BY DEF Family
    <3>2. f = "v4" \/ f = "v6"
      BY <1>1 DEF Family
    <3> QED
      BY <1>8, <3>1, <3>2 DEF Uses
  <2> QED
    BY <2>1, <2>2, <2>3
<1>12. NamesOk(t)
  <2> SUFFICES ASSUME Multi PROVE NamesOk(t)
    BY DEF NamesOk
  <2>1. f = "v4"
    BY <1>1
  <2>2. /\ \A i, j \in Slots : s.names[i] = s.names[j] => i = j \/ s.names[i] = None
        /\ {s.names[i] : i \in Slots} \ {None} = Range(s.list["v4"])
    BY DEF Ok, NamesOk
  <2> HIDE DEF k, free
  <2>3. k \in Slots /\ s.names[k] = None /\ s.names \in [Slots -> Gateways \cup {None}]
    BY <1>1, <1>2, <1>3 DEF States
  <2>4. \A i \in Slots : t.names[i] = IF i = k THEN g ELSE s.names[i]
    BY <1>3, <1>7, <2>3
  <2>5. \A i \in Slots : s.names[i] # g
    BY <1>1, <2>1, <2>2
  <2>6. \A i, j \in Slots : t.names[i] = t.names[j] => i = j \/ t.names[i] = None
    BY <2>2, <2>4, <2>5
  <2>7. {t.names[i] : i \in Slots} \ {None} = ({s.names[i] : i \in Slots} \ {None}) \cup {g}
    BY <1>1, <2>3, <2>4
  <2>8. Range(t.list["v4"]) = Range(s.list["v4"]) \cup {g}
    BY <1>1, <1>8, <2>1, SMTT(30)
  <2> QED
    BY <2>2, <2>6, <2>7, <2>8 DEF NamesOk
<1>13. TreeOk(t)
  <2>1. TreeOk(s) /\ ~s.tree[g].cleanup_timer
    BY SMTT(30) DEF Ok, TreeOk, Choosable
  <2>2. ASSUME NEW n \in DOMAIN s.tree
        PROVE  /\ s.tree[n].cleanup_timer =>
                    /\ ~s.tree[n].v4 /\ ~s.tree[n].v6
                    /\ \A h \in Family : n \notin Range(t.list[h])
               /\ (s.tree[n].v4 \/ s.tree[n].v6) /\ s.tree[n].path_cost # Inf => s.tc[n] # None
    BY <1>8, <2>1 DEF TreeOk
  <2>3. ASSUME NEW h \in Family, NEW n \in Range(t.list[h]) PROVE s.tc[n] # None
    BY <1>1, <1>8, <2>1, SMTT(30) DEF TreeOk
  <2> QED
    BY <1>7, <2>2, <2>3 DEF TreeOk
<1>14. Ok(t)
  BY <1>7, <1>10, <1>11, <1>12, <1>13 DEF Ok
<1>15. Sound(s) => Sound(t)
  BY <1>1, <1>7, <1>9 DEF Sound
<1>16. \A h \in Family : Range(t.list[h]) \subseteq Range(s.list[h]) \cup Choosable(s)
  BY <1>8
<1> QED
  BY <1>7, <1>14, <1>15, <1>16, Zenon DEF Keeps, t

\* The requests, the timer, the counters and the kernel's next answer do not
\* matter.
LEMMA UnreadIsKept ==
  ASSUME NEW s, Ok(s), NEW t \in States,
         t.tc = s.tc, t.tree = s.tree, t.list = s.list, t.current = s.current,
         t.tunnel = s.tunnel, t.names = s.names, t.route = s.route,
         ~s.broken => ~t.broken
  PROVE  Keeps(s, t)
<1>1. \A f \in Family : ListOk(t, f)
  BY DEF Ok, ListOk
<1>2. NamesOk(t) /\ TreeOk(t)
  BY DEF Ok, NamesOk, TreeOk
<1>3. Ok(t)
  BY <1>1, <1>2 DEF Ok
<1>4. Sound(s) => Sound(t)
  BY DEF Sound
<1> QED
  BY <1>3, <1>4 DEF Keeps

\* A gateway that is on the list of its family becomes the current one.
LEMMA CurrentIsOk ==
  ASSUME NEW s, Ok(s), NEW g \in Range(s.list["v4"])
  PROVE  Keeps(s, [s EXCEPT !.current["v4"] = g, !.route["v4"] = g])
<1> DEFINE t == [s EXCEPT !.current["v4"] = g, !.route["v4"] = g]
           cu == [s.current EXCEPT !["v4"] = g]
           ro == [s.route EXCEPT !["v4"] = g]
<1>1. "v4" \in Family /\ g \in Gateways /\ g # None /\ g # Freed /\ s \in States
  BY Typed, GatewaysAssumption DEF Family
<1>2. cu \in [Family -> Gateways \cup {None, Freed}] /\ ro \in [Family -> Gateways \cup {None}]
  BY <1>1 DEF States
<1>3. t = [s EXCEPT !.current = cu, !.route = ro]
  BY <1>1 DEF States
<1>4. /\ t \in States
      /\ t.tc = s.tc /\ t.tree = s.tree /\ t.broken = s.broken
      /\ t.list = s.list /\ t.current = cu /\ t.names = s.names
      /\ t.tunnel = s.tunnel /\ t.route = ro
  <2> HIDE DEF cu, ro, t
  <2> QED
    BY <1>1, <1>2, <1>3, Zenon DEF States
<1> HIDE DEF t
<1>5. \A h \in Family : /\ t.current[h] = IF h = "v4" THEN g ELSE s.current[h]
                        /\ t.route[h] = IF h = "v4" THEN g ELSE s.route[h]
  BY <1>1, <1>4, SMTT(30) DEF States
<1>6. ASSUME NEW h \in Family PROVE ListOk(t, h)
  <2>1. ListOk(s, h)
    BY DEF Ok
  <2> QED
    BY <1>4, <1>5, <2>1, SMTT(30) DEF ListOk
<1>7. NamesOk(t) /\ TreeOk(t)
  BY <1>4, SMTT(30) DEF Ok, NamesOk, TreeOk
<1>8. Ok(t)
  BY <1>4, <1>6, <1>7 DEF Ok
<1>9. Sound(s) => Sound(t)
  BY <1>1, <1>4, <1>5 DEF Sound
<1> QED
  BY <1>4, <1>8, <1>9 DEF Keeps, t

\* olsr_set_inet_gateway, whatever the kernel answers.
LEMMA SetIsKept ==
  ASSUME NEW s, Ok(s), NEW f \in Family, NEW g \in Choosable(s)
  PROVE  Keeps(s, SetInetGateway(s, f, g))
<1>1. /\ s \in States /\ s.list[f] \in Seq(Gateways) /\ g \in Gateways /\ g # None
      /\ olsr_cnf.use_count \in Nat /\ olsr_cnf.use_count > 0 /\ (Multi => Families \subseteq {"v4"})
  <2>1. g \in Gateways
    BY Typed DEF Choosable
  <2> QED
    BY <2>1, Typed, GatewaysAssumption
<1>2. CASE ~IsGwSelectable(s.tree[g], f) \/ s.current[f] = g
  BY <1>2, KeepsSame DEF SetInetGateway
<1> SUFFICES ASSUME IsGwSelectable(s.tree[g], f), s.current[f] # g
             PROVE  Keeps(s, SetInetGateway(s, f, g))
  BY <1>2
<1>3. f \in Families
  BY DEF IsGwSelectable
<1>4. ListOk(s, f)
  BY DEF Ok
<1>5. CASE g \in Range(s.list[f])
  <2>1. olsr_cnf.use_count # 1
    <3> SUFFICES ASSUME olsr_cnf.use_count = 1 PROVE FALSE
      OBVIOUS
    <3>1. s.current[f] \in Range(s.list[f]) /\ Len(s.list[f]) <= 1
      <4>1. s.list[f] # << >>
        BY <1>5 DEF Range
      <4> QED
        BY <1>4, <4>1 DEF ListOk
    <3> QED
      BY <1>1, <1>5, <3>1 DEF Range
  <2>2. f = "v4"
    BY <1>1, <1>3, <2>1 DEF Multi
  <2>3. SetInetGateway(s, f, g) = [s EXCEPT !.current["v4"] = g, !.route["v4"] = g]
    BY <1>5, <2>2 DEF SetInetGateway, GwListFind
  <2> QED
    BY <1>5, <2>2, <2>3, CurrentIsOk, Zenon
<1>6. CASE g \notin Range(s.list[f])
  <2> DEFINE full == Len(s.list[f]) >= olsr_cnf.use_count
             t == IF full THEN RemoveGatewayFromList(s, f, Worst(s.list[f])) ELSE s
             u == [AddTunnel(t, g) EXCEPT !.list[f] = GwListAdd(@, g, s.tree), !.current[f] = g,
                                          !.route[f] = g]
  <2>1. SetInetGateway(s, f, g) = IF s.broken /\ t.tunnel[g] = 0 THEN [t EXCEPT !.broken = FALSE] ELSE u
    BY <1>6 DEF SetInetGateway, GwListFind
  <2>2. /\ Ok(t) /\ t.tree = s.tree /\ t.tc = s.tc /\ t.broken = s.broken
        /\ \A h \in Family : Range(t.list[h]) \subseteq Range(s.list[h])
        /\ \A h \in Family \ {f} : t.current[h] = s.current[h]
        /\ Len(t.list[f]) < olsr_cnf.use_count
    <3>1. CASE full
      <4> DEFINE l == Worst(s.list[f])
      <4>1. l \in Range(s.list[f])
        BY <1>1, <3>1 DEF Worst, Range
      <4>2. t = RemoveGatewayFromList(s, f, l)
        BY <3>1
      <4> HIDE DEF l, t
      <4>3. TakenOff(s, t, f, l)
        BY <4>1, <4>2, RemovedIsOff
      <4>4. /\ Ok(t)
            /\ \A h \in Family : Range(t.list[h]) = Range(s.list[h]) \ (IF h = f THEN {l} ELSE {})
            /\ Len(t.list[f]) = Len(s.list[f]) - 1
        BY <4>1, <4>3, OffIsOk, Zenon
      <4>5. Len(s.list[f]) \in Nat /\ Len(s.list[f]) <= olsr_cnf.use_count
        BY <1>1, <1>4 DEF ListOk
      <4> QED
        BY <1>1, <4>3, <4>4, <4>5, SMTT(30) DEF TakenOff
    <3>2. CASE ~full
      <4>1. t = s
        BY <3>2
      <4>2. Len(s.list[f]) \in Nat
        BY <1>1
      <4> HIDE DEF t
      <4> QED
        BY <1>1, <3>2, <4>1, <4>2
    <3> QED
      BY <3>1, <3>2, Zenon
  <2> HIDE DEF t
  <2>3. CASE s.broken /\ t.tunnel[g] = 0
    <3> DEFINE w == [t EXCEPT !.broken = FALSE]
    <3>1. t \in States
      BY <2>2 DEF Ok
    <3>2. /\ w \in States /\ w.tc = t.tc /\ w.tree = t.tree /\ w.list = t.list /\ w.current = t.current
          /\ w.tunnel = t.tunnel /\ w.names = t.names /\ w.route = t.route /\ ~w.broken
      BY <3>1, Zenon DEF States
    <3> HIDE DEF w
    <3>3. Keeps(t, w)
      BY <2>2, <3>2, UnreadIsKept
    <3>4. ~Sound(s)
      BY <2>3 DEF Sound
    <3>5. Keeps(s, w)
      BY <2>2, <3>2, <3>3, <3>4 DEF Keeps
    <3> QED
      BY <2>1, <2>3, <3>5 DEF w
  <2>4. CASE ~(s.broken /\ t.tunnel[g] = 0)
    <3>1. g \in Choosable(t) /\ Choosable(t) = Choosable(s)
      BY <2>2 DEF Choosable
    <3>2. g \notin Range(t.list[f])
      BY <1>6, <2>2
    <3>3. u = Listed(t, f, g)
      BY <2>2 DEF Listed
    <3> HIDE DEF u
    <3>4. Keeps(t, u) /\ u.current = [t.current EXCEPT ![f] = g]
      <4>1. Ok(t) /\ Len(t.list[f]) < olsr_cnf.use_count /\ g \in Choosable(t)
        BY <2>2, <3>1
      <4> QED
        BY <1>3, <3>2, <3>3, <4>1, AddIsOk
    <3>5. Sound(s) => Sound(u)
      <4>1. u.broken = t.broken
        <5>1. t \in States
          BY <2>2 DEF Ok
        <5> QED
          BY <3>3, <5>1, SMTT(30) DEF Listed, AddTunnel, States
      <4>2. t.current \in [Family -> Gateways \cup {None, Freed}] /\ g # Freed
        BY <1>1, <2>2, GatewaysAssumption, SMTT(30) DEF Ok, States
      <4> QED
        BY <2>2, <3>4, <4>1, <4>2 DEF Sound
    <3>6. Keeps(s, u)
      BY <2>2, <3>1, <3>4, <3>5 DEF Keeps
    <3> QED
      BY <2>1, <2>4, <3>6, SMTT(30)
  <2> QED
    BY <2>3, <2>4
<1> QED
  BY <1>5, <1>6

\* The gateway that gw_default_choose_gateway finds is in the tree, offers
\* something and has a path.
LEMMA ChosenIsChoosable ==
  ASSUME NEW s, Ok(s), NEW f \in Family
  PROVE  Chosen(s, f) \in Choosable(s) \cup {None}
<1> DEFINE fit == {g \in DOMAIN s.tree : /\ s.want[f] /\ s.tree[g].path_cost # Inf
                                         /\ IsGwSelectable(s.tree[g], f) /\ CheapEnough(s, f, g)}
           best == {g \in fit : \A h \in fit : \/ s.tree[g].path_cost < s.tree[h].path_cost
                                               \/ /\ s.tree[g].path_cost = s.tree[h].path_cost
                                                  /\ Rank[g] <= Rank[h]}
<1>1. CASE fit = {}
  <2>1. Chosen(s, f) = None
    BY <1>1 DEF Chosen
  <2> QED
    BY <2>1
<1>2. CASE fit # {}
  <2>1. \A g \in fit : g \in Gateways /\ s.tree[g].path_cost \in Nat /\ Rank[g] \in Nat
    <3>1. DOMAIN s.tree \subseteq Gateways /\ s \in States
      BY Typed
    <3>2. \A g \in DOMAIN s.tree : s.tree[g] \in Entries
      BY <3>1 DEF States, Trees
    <3> QED
      BY <3>1, <3>2, GatewaysAssumption DEF Entries
  <2>2. fit \subseteq Choosable(s)
    BY DEF Choosable, IsGwSelectable
  <2>3. Chosen(s, f) = CHOOSE g \in best : TRUE
    BY <1>2, Zenon DEF Chosen
  <2>4. best # {}
    <3> DEFINE costs == {s.tree[g].path_cost : g \in fit}
    <3> HIDE DEF fit
    <3>1. costs \in SUBSET Nat /\ costs # {}
      BY <1>2, <2>1
    <3>2. PICK c \in costs : \A d \in costs : c <= d
      <4> HIDE DEF costs
      <4> QED
        BY <3>1, LeastNumber
    <3> DEFINE cheap == {g \in fit : s.tree[g].path_cost = c}
               ranks == {Rank[g] : g \in cheap}
    <3>3. ranks \in SUBSET Nat /\ ranks # {}
      BY <2>1, <3>2
    <3>4. PICK r \in ranks : \A q \in ranks : r <= q
      <4> HIDE DEF ranks
      <4> QED
        BY <3>3, LeastNumber
    <3>5. PICK g \in cheap : Rank[g] = r
      BY <3>4
    <3>6. ASSUME NEW h \in fit
          PROVE  \/ s.tree[g].path_cost < s.tree[h].path_cost
                 \/ s.tree[g].path_cost = s.tree[h].path_cost /\ Rank[g] <= Rank[h]
      <4>1. s.tree[g].path_cost = c /\ c <= s.tree[h].path_cost
        BY <3>2, <3>5
      <4>2. s.tree[h].path_cost = c => Rank[g] <= Rank[h]
        BY <3>4, <3>5
      <4>3. c \in Nat /\ s.tree[h].path_cost \in Nat
        BY <2>1, <3>1, <3>2
      <4> QED
        BY <4>1, <4>2, <4>3
    <3> QED
      BY <3>5, <3>6
  <2> HIDE DEF best
  <2>5. Chosen(s, f) \in best
    BY <2>3, <2>4
  <2> QED
    BY <2>2, <2>5 DEF best
<1> QED
  BY <1>1, <1>2

\* One family of gw_default_choose_gateway.
LEMMA SetChosenIsKept ==
  ASSUME NEW s, Ok(s), NEW f \in Family, NEW g \in Choosable(s) \cup {None}
  PROVE  Keeps(s, SetChosen(s, f, g))
<1>1. CASE g = None
  BY <1>1, KeepsSame DEF SetChosen
<1>2. CASE g # None
  BY <1>2, SetIsKept DEF SetChosen
<1> QED
  BY <1>1, <1>2

\* Requests may change.
LEMMA WantIsKept ==
  ASSUME NEW s, Ok(s), NEW w \in [Family -> BOOLEAN]
  PROVE  Keeps(s, [s EXCEPT !.want = w])
<1> DEFINE t == [s EXCEPT !.want = w]
<1>1. s \in States
  BY DEF Ok
<1>2. /\ t \in States /\ t.tc = s.tc /\ t.tree = s.tree /\ t.list = s.list /\ t.current = s.current
      /\ t.tunnel = s.tunnel /\ t.names = s.names /\ t.route = s.route /\ t.broken = s.broken
  BY <1>1, Zenon DEF States
<1> HIDE DEF t
<1>3. Keeps(s, t)
  BY <1>2, UnreadIsKept
<1> QED
  BY <1>3 DEF t

\* gw_default_choose_gateway.
LEMMA ChooseIsKept ==
  ASSUME NEW s, Ok(s)
  PROVE  Keeps(s, ChooseGateway(s))
<1> DEFINE looking == [f \in Family |-> s.want[f] /\ Chosen(s, f) = None]
           a == [s EXCEPT !.want = looking]
           b == SetChosen(a, "v4", Chosen(s, "v4"))
           c == SetChosen(b, "v6", Chosen(s, "v6"))
           on == c.timer /\ ~(olsr_cnf.thresh = 0 /\ \A f \in Family : ~looking[f])
           d == [c EXCEPT !.timer = on]
<1>0. "v4" \in Family /\ "v6" \in Family
  BY DEF Family
<1>1. s \in States
  BY DEF Ok
<1>2. Keeps(s, a)
  <2>1. looking \in [Family -> BOOLEAN]
    BY <1>1 DEF States
  <2> HIDE DEF looking
  <2> QED
    BY <2>1, WantIsKept
<1>3. \A f \in Family : Chosen(s, f) \in Choosable(s) \cup {None}
  BY ChosenIsChoosable
<1>4. ChooseGateway(s) = d
  BY DEF ChooseGateway
<1> HIDE DEF a
<1>5. Choosable(a) = Choosable(s) /\ Ok(a)
  BY <1>2 DEF Keeps, Choosable
<1>6. Keeps(a, b)
  BY <1>0, <1>3, <1>5, SetChosenIsKept
<1> HIDE DEF b
<1>7. Choosable(b) = Choosable(a) /\ Ok(b)
  BY <1>6 DEF Keeps, Choosable
<1>8. Keeps(b, c)
  BY <1>0, <1>3, <1>5, <1>7, SetChosenIsKept
<1> HIDE DEF c
<1>9. Ok(c) /\ c \in States
  BY <1>8 DEF Keeps, Ok
<1>10. on \in BOOLEAN
  OBVIOUS
<1> HIDE DEF on
<1>11. /\ d \in States /\ d.tc = c.tc /\ d.tree = c.tree /\ d.list = c.list /\ d.current = c.current
       /\ d.tunnel = c.tunnel /\ d.names = c.names /\ d.route = c.route /\ d.broken = c.broken
  BY <1>9, <1>10, Zenon DEF States
<1> HIDE DEF d
<1>12. Keeps(c, d)
  BY <1>9, <1>11, UnreadIsKept
<1> QED
  BY <1>2, <1>4, <1>6, <1>8, <1>12, KeepsTwice

\* gw_default_lookup_gateway.
LEMMA LookupIsKept ==
  ASSUME NEW s, Ok(s), NEW fs
  PROVE  Keeps(s, LookupGateway(s, fs))
<1> DEFINE w == [f \in Family |-> IF f \in fs THEN f \in Families ELSE s.want[f]]
           t == [s EXCEPT !.want = w]
<1>1. w \in [Family -> BOOLEAN]
  <2>1. s.want \in [Family -> BOOLEAN]
    BY DEF Ok, States
  <2>2. \A f \in Family : s.want[f] \in BOOLEAN /\ (f \in Families) \in BOOLEAN
    BY <2>1
  <2>3. \A f \in Family : (IF f \in fs THEN f \in Families ELSE s.want[f]) \in BOOLEAN
    BY <2>2, Zenon
  <2> QED
    BY <2>3, Zenon
<1>2. LookupGateway(s, fs) = IF Wanting(t) THEN ChooseGateway(t) ELSE t
  BY DEF LookupGateway
<1> HIDE DEF w
<1>3. Keeps(s, t)
  BY <1>1, WantIsKept
<1> HIDE DEF t
<1>4. Keeps(t, ChooseGateway(t))
  BY <1>3, ChooseIsKept DEF Keeps
<1> QED
  BY <1>2, <1>3, <1>4, KeepsTwice

\* The number of nodes is a number.
LEMMA TcCountIsNat ==
  ASSUME NEW s
  PROVE  TcCount(s) \in Nat
<1> DEFINE known == {g \in Gateways : s.tc[g] # None}
<1>1. IsFiniteSet(known)
  BY GatewaysAssumption, FS_Subset
<1>2. Cardinality(known) \in Nat
  BY <1>1, FS_CardinalityType
<1> QED
  BY <1>2 DEF TcCount

\* gw_default_startup_handler.
LEMMA StartupIsKept ==
  ASSUME NEW s, Ok(s)
  PROVE  Keeps(s, StartupHandler(s))
<1> DEFINE n == TcCount(s)
           w == [f \in Family |-> f \in Families \ olsr_cnf.own]
           t == [s EXCEPT !.nodecount = n, !.stablecount = 0, !.timer = TRUE, !.want = w]
<1>1. s \in States /\ olsr_cnf.stablecount \in Nat
  BY ConfigurationsAssumption DEF Ok
<1>2. n \in Nat /\ w \in [Family -> BOOLEAN] /\ 0 \in 0 .. olsr_cnf.stablecount
  BY <1>1, TcCountIsNat
<1>3. StartupHandler(s) = t
  BY DEF StartupHandler
<1> HIDE DEF n, w
<1>4. /\ t \in States /\ t.tc = s.tc /\ t.tree = s.tree /\ t.list = s.list /\ t.current = s.current
      /\ t.tunnel = s.tunnel /\ t.names = s.names /\ t.route = s.route /\ t.broken = s.broken
  BY <1>1, <1>2, Zenon DEF States
<1> HIDE DEF t
<1> QED
  BY <1>3, <1>4, UnreadIsKept

\* gw_default_choosegw_handler.
LEMMA ChooseHandlerIsKept ==
  ASSUME NEW s, Ok(s), NEW fs
  PROVE  Keeps(s, ChooseHandler(s, fs))
<1> DEFINE t == LookupGateway(s, fs)
<1>1. Keeps(s, t)
  BY LookupIsKept
<1>2. ChooseHandler(s, fs) = IF Wanting(t) THEN StartupHandler(t) ELSE t
  BY DEF ChooseHandler, KeepLooking
<1> HIDE DEF t
<1>3. Keeps(t, StartupHandler(t))
  BY <1>1, StartupIsKept DEF Keeps
<1> QED
  BY <1>1, <1>2, <1>3, KeepsTwice

\* gw_default_update_handler.
LEMMA UpdateHandlerIsKept ==
  ASSUME NEW s, Ok(s), NEW g
  PROVE  Keeps(s, UpdateHandler(s, g))
BY LookupIsKept, KeepsSame DEF UpdateHandler

\* gw_default_delete_handler.
LEMMA DeleteHandlerIsKept ==
  ASSUME NEW s, Ok(s), NEW g
  PROVE  Keeps(s, DeleteHandler(s, g))
BY LookupIsKept, KeepsSame DEF DeleteHandler

\* olsr_trigger_gatewayloss_check.
LEMMA LossCheckIsKept ==
  ASSUME NEW s, Ok(s)
  PROVE  Keeps(s, GatewayLossCheck(s))
BY ChooseHandlerIsKept, KeepsSame DEF GatewayLossCheck

\* The choice for the families that the removal of a gateway has left
\* without one.
LEMMA ChooseAgainIsKept ==
  ASSUME NEW s, Ok(s)
  PROVE  Keeps(s, ChooseAgain(s))
BY ChooseHandlerIsKept, KeepsSame DEF ChooseAgain

\* gw_default_timer.
LEMMA TimerIsKept ==
  ASSUME NEW s, Ok(s)
  PROVE  Keeps(s, TimerHandler(s))
<1> DEFINE count == TcCount(s)
           near == 9 * s.nodecount <= 10 * count /\ 10 * count <= 11 * s.nodecount
           most == Min({s.stablecount + 1, olsr_cnf.stablecount})
           n == IF near \/ count = s.nodecount THEN most ELSE 0
           t == [s EXCEPT !.nodecount = count, !.stablecount = n]
<1>1. s \in States /\ olsr_cnf.stablecount \in Nat /\ s.stablecount \in 0 .. olsr_cnf.stablecount
  BY ConfigurationsAssumption DEF Ok, States
<1>2. count \in Nat
  BY TcCountIsNat
<1>3. n \in 0 .. olsr_cnf.stablecount
  <2> DEFINE two == {s.stablecount + 1, olsr_cnf.stablecount}
  <2>1. two \in SUBSET Nat /\ two # {}
    BY <1>1
  <2>2. Min(two) \in two /\ \A i \in two : Min(two) <= i
    <3> HIDE DEF two
    <3> QED
      BY <2>1, MinIsLeast
  <2>3. most = Min(two)
    OBVIOUS
  <2>4. most \in Nat /\ most <= olsr_cnf.stablecount
    <3> HIDE DEF most
    <3> QED
      BY <1>1, <2>1, <2>2, <2>3
  <2> HIDE DEF most, near
  <2> QED
    BY <1>1, <2>4
<1>4. TimerHandler(s) = IF t.stablecount >= olsr_cnf.stablecount THEN ChooseGateway(t) ELSE t
  <2>1. CASE near \/ count = s.nodecount
    <3>1. t = [s EXCEPT !.nodecount = count, !.stablecount = most]
      BY <2>1, Zenon
    <3> HIDE DEF t
    <3> QED
      BY <2>1, <3>1, Zenon DEF TimerHandler
  <2>2. CASE ~(near \/ count = s.nodecount)
    <3>1. t = [s EXCEPT !.nodecount = count, !.stablecount = 0]
      BY <2>2
    <3> HIDE DEF t
    <3> QED
      BY <2>2, <3>1, Zenon DEF TimerHandler
  <2> QED
    BY <2>1, <2>2
<1> HIDE DEF count, n
<1>5. /\ t \in States /\ t.tc = s.tc /\ t.tree = s.tree /\ t.list = s.list /\ t.current = s.current
      /\ t.tunnel = s.tunnel /\ t.names = s.names /\ t.route = s.route /\ t.broken = s.broken
  BY <1>1, <1>2, <1>3, Zenon DEF States
<1> HIDE DEF t
<1>6. Keeps(s, t)
  BY <1>5, UnreadIsKept
<1>7. Keeps(t, ChooseGateway(t))
  BY <1>6, ChooseIsKept DEF Keeps
<1> QED
  BY <1>4, <1>6, <1>7, KeepsTwice, SMTT(30)

----------------------------------------------------------------------------
(* The gateway tree                                                        *)

With(s, g, e) ==
  [s EXCEPT !.tree = [h \in DOMAIN s.tree \cup {g} |-> IF h = g THEN e ELSE s.tree[h]]]

\* The parts of a state with a new or changed entry.
LEMMA WithParts ==
  ASSUME NEW s \in States, NEW g \in Gateways, NEW e \in Entries
  PROVE  LET t == With(s, g, e)
         IN  /\ t \in States
             /\ t.tc = s.tc /\ t.list = s.list /\ t.current = s.current /\ t.tunnel = s.tunnel
             /\ t.names = s.names /\ t.route = s.route /\ t.broken = s.broken
             /\ DOMAIN t.tree = DOMAIN s.tree \cup {g}
             /\ t.tree[g] = e /\ \A h \in DOMAIN s.tree \ {g} : t.tree[h] = s.tree[h]
<1> DEFINE T == [h \in DOMAIN s.tree \cup {g} |-> IF h = g THEN e ELSE s.tree[h]]
           t == [s EXCEPT !.tree = T]
<1>1. T \in Trees
  <2>1. PICK D \in SUBSET Gateways : s.tree \in [D -> Entries]
    BY DEF States, Trees
  <2>2. T \in [D \cup {g} -> Entries] /\ D \cup {g} \in SUBSET Gateways
    BY <2>1
  <2> HIDE DEF T
  <2> QED
    BY <2>2 DEF Trees
<1>2. /\ DOMAIN T = DOMAIN s.tree \cup {g}
      /\ T[g] = e /\ \A h \in DOMAIN s.tree \ {g} : T[h] = s.tree[h]
  OBVIOUS
<1> HIDE DEF T
<1>3. /\ t \in States /\ t.tree = T
      /\ t.tc = s.tc /\ t.list = s.list /\ t.current = s.current /\ t.tunnel = s.tunnel
      /\ t.names = s.names /\ t.route = s.route /\ t.broken = s.broken
  BY <1>1, Zenon DEF States
<1> HIDE DEF t
<1>4. With(s, g, e) = t
  BY SMTT(30) DEF With, t, T
<1> QED
  BY <1>2, <1>3, <1>4

\* An entry that owes its TC entry and the lists nothing.
LEMMA EntryIsOk ==
  ASSUME NEW s, Ok(s), NEW g \in Gateways, NEW e \in Entries,
         e.cleanup_timer => ~e.v4 /\ ~e.v6 /\ \A f \in Family : g \notin Range(s.list[f]),
         (e.v4 \/ e.v6) /\ e.path_cost # Inf => s.tc[g] # None
  PROVE  Ok(With(s, g, e)) /\ (Sound(s) => Sound(With(s, g, e)))
<1> DEFINE t == With(s, g, e)
<1>1. s \in States
  BY SMTT(30) DEF Ok
<1>2. /\ t \in States
      /\ t.tc = s.tc /\ t.list = s.list /\ t.current = s.current /\ t.tunnel = s.tunnel
      /\ t.names = s.names /\ t.route = s.route /\ t.broken = s.broken
      /\ DOMAIN t.tree = DOMAIN s.tree \cup {g}
      /\ t.tree[g] = e /\ \A h \in DOMAIN s.tree \ {g} : t.tree[h] = s.tree[h]
  BY <1>1, WithParts, SMTT(30)
<1> HIDE DEF t
<1>3. \A f \in Family : ListOk(t, f)
  BY <1>2, SMTT(30) DEF Ok, ListOk
<1>4. NamesOk(t)
  BY <1>2 DEF Ok, NamesOk
<1>5. TreeOk(t)
  <2>1. TreeOk(s)
    BY SMTT(30) DEF Ok
  <2>2. ASSUME NEW h \in DOMAIN t.tree
        PROVE  /\ t.tree[h].cleanup_timer =>
                    /\ ~t.tree[h].v4 /\ ~t.tree[h].v6
                    /\ \A f \in Family : h \notin Range(t.list[f])
               /\ (t.tree[h].v4 \/ t.tree[h].v6) /\ t.tree[h].path_cost # Inf => t.tc[h] # None
    <3>1. CASE h = g
      BY <1>2, <3>1, SMTT(30)
    <3>2. CASE h # g
      <4>1. h \in DOMAIN s.tree /\ t.tree[h] = s.tree[h]
        BY <1>2, <3>2
      <4> QED
        BY <1>2, <2>1, <4>1, SMTT(30) DEF TreeOk
    <3> QED
      BY <3>1, <3>2
  <2>3. \A f \in Family : \A h \in Range(t.list[f]) : t.tc[h] # None
    BY <1>2, <2>1, SMTT(30) DEF TreeOk
  <2> QED
    BY <2>2, <2>3 DEF TreeOk
<1>6. Ok(t)
  BY <1>2, <1>3, <1>4, <1>5 DEF Ok
<1> QED
  BY <1>2, <1>6, SMTT(30) DEF Sound, t

\* cleanup_gateway_handler for a gateway that is on no list.
LEMMA WithoutIsOk ==
  ASSUME NEW s, Ok(s), NEW g, \A f \in Family : g \notin Range(s.list[f])
  PROVE  LET t == [s EXCEPT !.tree = Without(@, g)]
         IN  /\ Ok(t) /\ (Sound(s) => Sound(t))
             /\ t.tc = s.tc /\ t.list = s.list
             /\ DOMAIN t.tree = DOMAIN s.tree \ {g}
             /\ \A h \in DOMAIN t.tree : t.tree[h] = s.tree[h]
<1> DEFINE T == Without(s.tree, g)
           t == [s EXCEPT !.tree = T]
<1>1. s \in States
  BY DEF Ok
<1>2. T \in Trees /\ DOMAIN T = DOMAIN s.tree \ {g} /\ \A h \in DOMAIN T : T[h] = s.tree[h]
  <2>1. PICK D \in SUBSET Gateways : s.tree \in [D -> Entries]
    BY <1>1 DEF States, Trees
  <2>2. T \in [D \ {g} -> Entries] /\ D \ {g} \in SUBSET Gateways
    BY <2>1 DEF Without
  <2>3. DOMAIN T = DOMAIN s.tree \ {g} /\ \A h \in DOMAIN T : T[h] = s.tree[h]
    BY DEF Without
  <2> HIDE DEF T
  <2> QED
    BY <2>2, <2>3 DEF Trees
<1> HIDE DEF T
<1>3. /\ t \in States /\ t.tree = T
      /\ t.tc = s.tc /\ t.list = s.list /\ t.current = s.current /\ t.tunnel = s.tunnel
      /\ t.names = s.names /\ t.route = s.route /\ t.broken = s.broken
  BY <1>1, <1>2, Zenon DEF States
<1> HIDE DEF t
<1>4. \A f \in Family : ListOk(t, f)
  BY <1>2, <1>3, SMTT(30) DEF Ok, ListOk
<1>5. NamesOk(t)
  BY <1>3, SMTT(30) DEF Ok, NamesOk
<1>6. TreeOk(t)
  BY <1>2, <1>3 DEF Ok, TreeOk
<1>7. Ok(t)
  BY <1>3, <1>4, <1>5, <1>6 DEF Ok
<1>8. Sound(s) => Sound(t)
  BY <1>3 DEF Sound
<1>9. [s EXCEPT !.tree = Without(@, g)] = t
  BY DEF t, T
<1> QED
  BY <1>2, <1>3, <1>7, <1>8, <1>9, Zenon

\* One family of olsr_delete_gateway_tree_entry.
LEMMA UnlistIsOk ==
  ASSUME NEW s, Ok(s), NEW f \in Family, NEW g
  PROVE  LET t == Unlist(s, f, g)
         IN  /\ Ok(t) /\ t.tree = s.tree /\ t.tc = s.tc /\ (Sound(s) => Sound(t))
             /\ \A h \in Family : Range(t.list[h]) \subseteq Range(s.list[h])
             /\ g \notin Range(t.list[f])
<1> DEFINE t == Unlist(s, f, g)
<1>1. CASE g \notin Range(s.list[f])
  <2>1. t = s
    BY <1>1 DEF Unlist, GwListFind
  <2> HIDE DEF t
  <2> QED
    BY <1>1, <2>1 DEF t
<1>2. CASE g \in Range(s.list[f])
  <2>1. TakenOff(s, t, f, g) /\ t.current[f] = IF s.current[f] = g THEN None ELSE s.current[f]
    BY <1>2, UnlistedIsOff
  <2> HIDE DEF t
  <2>2. TakenOff(s, t, f, g)
    BY <2>1
  <2>4. /\ Ok(t)
        /\ \A h \in Family : Range(t.list[h]) = Range(s.list[h]) \ (IF h = f THEN {g} ELSE {})
        /\ Len(t.list[f]) = Len(s.list[f]) - 1
    BY <1>2, <2>2, OffIsOk, Zenon
  <2>3. Sound(s) => Sound(t)
    <3>1. None # Freed
      BY GatewaysAssumption
    <3>2. \A h \in Family \ {f} : t.current[h] = s.current[h]
      BY <2>1 DEF TakenOff
    <3> QED
      BY <2>1, <3>1, <3>2 DEF Sound, TakenOff
  <2> QED
    BY <2>1, <2>4, <2>3, Zenon DEF TakenOff, t
<1> QED
  BY <1>1, <1>2

\* A changed entry, written in the other way.
LEMMA ChangedEntry ==
  ASSUME NEW s \in States, NEW g \in DOMAIN s.tree, NEW e
  PROVE  [s EXCEPT !.tree[g] = e] = With(s, g, e)
<1> DEFINE T == [h \in DOMAIN s.tree \cup {g} |-> IF h = g THEN e ELSE s.tree[h]]
<1>1. [s.tree EXCEPT ![g] = e] = T
  <2>1. PICK D \in SUBSET Gateways : s.tree \in [D -> Entries]
    BY DEF States, Trees
  <2> QED
    BY <2>1
<1> QED
  BY <1>1 DEF With

\* The entry of a gateway that has lost its offers.
LEMMA MuteIsOk ==
  ASSUME NEW s, Ok(s), NEW g \in DOMAIN s.tree, ~s.tree[g].cleanup_timer
  PROVE  LET t == Mute(s, g)
         IN  /\ Ok(t) /\ (Sound(s) => Sound(t))
             /\ t.tc = s.tc /\ t.list = s.list /\ DOMAIN t.tree = DOMAIN s.tree
             /\ ~t.tree[g].v4 /\ ~t.tree[g].v6 /\ ~t.tree[g].cleanup_timer
<1> DEFINE e == [s.tree[g] EXCEPT !.v4 = FALSE, !.nat = FALSE, !.v6 = FALSE]
           t == With(s, g, e)
<1>1. s \in States /\ g \in Gateways /\ s.tree[g] \in Entries
  <2>1. s \in States
    BY DEF Ok
  <2>2. PICK D \in SUBSET Gateways : s.tree \in [D -> Entries]
    BY <2>1 DEF States, Trees
  <2> QED
    BY <2>1, <2>2
<1>2. e \in Entries /\ ~e.v4 /\ ~e.v6 /\ ~e.cleanup_timer
  BY <1>1, Zenon DEF Entries
<1>3. Mute(s, g) = With(s, g, e)
  BY <1>1, ChangedEntry, SMTT(30) DEF Mute
<1> HIDE DEF e
<1>4. Ok(t) /\ (Sound(s) => Sound(t))
  BY <1>1, <1>2, EntryIsOk
<1>5. t.tc = s.tc /\ t.list = s.list /\ DOMAIN t.tree = DOMAIN s.tree \cup {g} /\ t.tree[g] = e
  BY <1>1, <1>2, WithParts, SMTT(30)
<1> HIDE DEF t
<1> QED
  BY <1>2, <1>3, <1>4, <1>5 DEF t

\* A gateway without an offer that is on no list goes away, at once or later.
LEMMA RetireIsOk ==
  ASSUME NEW s, Ok(s), NEW g \in DOMAIN s.tree, ~s.tree[g].v4, ~s.tree[g].v6,
         \A f \in Family : g \notin Range(s.list[f]), NEW immediate \in BOOLEAN
  PROVE  LET t == Retire(s, g, immediate)
         IN  /\ Ok(t) /\ (Sound(s) => Sound(t)) /\ t.tc = s.tc /\ t.list = s.list
             /\ DOMAIN t.tree = DOMAIN s.tree \ (IF immediate THEN {g} ELSE {})
             /\ g \in DOMAIN t.tree => ~t.tree[g].v4 /\ ~t.tree[g].v6
<1>1. s \in States /\ g \in Gateways /\ s.tree[g] \in Entries
  <2>1. s \in States
    BY SMTT(30) DEF Ok
  <2>2. PICK D \in SUBSET Gateways : s.tree \in [D -> Entries]
    BY <2>1 DEF States, Trees
  <2> QED
    BY <2>1, <2>2
<1>2. CASE immediate
  <2> DEFINE t == [s EXCEPT !.tree = Without(@, g)]
  <2>1. Retire(s, g, immediate) = t
    BY <1>2 DEF Retire, CleanupHandler
  <2>2. /\ Ok(t) /\ (Sound(s) => Sound(t))
        /\ t.tc = s.tc /\ t.list = s.list
        /\ DOMAIN t.tree = DOMAIN s.tree \ {g}
        /\ \A h \in DOMAIN t.tree : t.tree[h] = s.tree[h]
    BY WithoutIsOk, Zenon
  <2> HIDE DEF t
  <2> QED
    BY <1>2, <2>1, <2>2, Zenon
<1>3. CASE ~immediate
  <2> DEFINE e == [s.tree[g] EXCEPT !.cleanup_timer = TRUE]
             t == With(s, g, e)
  <2>1. e \in Entries /\ ~e.v4 /\ ~e.v6
    BY <1>1, Zenon DEF Entries
  <2>2. Retire(s, g, immediate) = With(s, g, e)
    BY <1>1, <1>3, ChangedEntry, Zenon DEF Retire
  <2> HIDE DEF e
  <2>3. Ok(t) /\ (Sound(s) => Sound(t))
    BY <1>1, <2>1, EntryIsOk
  <2>4. t.tc = s.tc /\ t.list = s.list /\ DOMAIN t.tree = DOMAIN s.tree \cup {g} /\ t.tree[g] = e
    BY <1>1, <2>1, WithParts
  <2>5. Retire(s, g, immediate) = t
    BY <2>2, SMTT(30)
  <2> HIDE DEF t
  <2> QED
    BY <1>3, <2>1, <2>3, <2>4, <2>5
<1> QED
  BY <1>2, <1>3

\* What is left of a gateway after its removal.
Gone(s, t, g, immediate) ==
  /\ Ok(t) /\ t.tc = s.tc /\ (Sound(s) => Sound(t))
  /\ \A f \in Family : g \notin Range(t.list[f])
  /\ g \in DOMAIN t.tree => ~t.tree[g].v4 /\ ~t.tree[g].v6
  /\ immediate => DOMAIN t.tree = DOMAIN s.tree \ {g}

LEMMA DropIsOk ==
  ASSUME NEW s, Ok(s), NEW g \in DOMAIN s.tree, ~s.tree[g].cleanup_timer, NEW immediate \in BOOLEAN
  PROVE  Gone(s, DropGateway(s, g, immediate), g, immediate)
<1> DEFINE a == Mute(s, g)
           b == DeleteHandler(a, g)
           c == Unlist(b, "v4", g)
           d == Unlist(c, "v6", g)
           e == Retire(d, g, immediate)
           t == ChooseAgain(e)
<1>0. DropGateway(s, g, immediate) = t /\ Family = {"v4", "v6"}
  BY DEF DropGateway, Family
<1>1. /\ Ok(a) /\ (Sound(s) => Sound(a))
      /\ a.tc = s.tc /\ DOMAIN a.tree = DOMAIN s.tree
      /\ ~a.tree[g].v4 /\ ~a.tree[g].v6
  BY MuteIsOk
<1> HIDE DEF a
<1>2. Keeps(a, b)
  BY <1>1, DeleteHandlerIsKept
<1> HIDE DEF b
<1>3. Ok(b) /\ b.tree = a.tree /\ b.tc = a.tc /\ (Sound(a) => Sound(b))
  BY <1>2, SMTT(30) DEF Keeps
<1>4. /\ Ok(c) /\ c.tree = b.tree /\ c.tc = b.tc /\ (Sound(b) => Sound(c))
      /\ g \notin Range(c.list["v4"])
  BY <1>0, <1>3, UnlistIsOk, SMTT(30)
<1> HIDE DEF c
<1>5. /\ Ok(d) /\ d.tree = c.tree /\ d.tc = c.tc /\ (Sound(c) => Sound(d))
      /\ \A h \in Family : Range(d.list[h]) \subseteq Range(c.list[h])
      /\ g \notin Range(d.list["v6"])
  BY <1>0, <1>4, UnlistIsOk, SMTT(30)
<1> HIDE DEF d
<1>6. \A f \in Family : g \notin Range(d.list[f])
  BY <1>0, <1>4, <1>5
<1>7. g \in DOMAIN d.tree /\ ~d.tree[g].v4 /\ ~d.tree[g].v6 /\ DOMAIN d.tree = DOMAIN s.tree
  BY <1>1, <1>3, <1>4, <1>5, SMTT(30)
<1>8. /\ Ok(e) /\ (Sound(d) => Sound(e)) /\ e.tc = d.tc /\ e.list = d.list
      /\ DOMAIN e.tree = DOMAIN d.tree \ (IF immediate THEN {g} ELSE {})
      /\ g \in DOMAIN e.tree => ~e.tree[g].v4 /\ ~e.tree[g].v6
  BY <1>5, <1>6, <1>7, RetireIsOk
<1> HIDE DEF e
<1>9. Keeps(e, t)
  BY <1>8, ChooseAgainIsKept
<1> HIDE DEF t
<1>10. g \notin Choosable(e)
  BY <1>8 DEF Choosable
<1>11. Ok(t) /\ t.tree = e.tree /\ t.tc = e.tc /\ (Sound(e) => Sound(t))
  BY <1>9 DEF Keeps
<1>12. \A f \in Family : g \notin Range(t.list[f])
  BY <1>6, <1>8, <1>9, <1>10 DEF Keeps
<1> QED
  BY <1>0, <1>1, <1>3, <1>4, <1>5, <1>7, <1>8, <1>11, <1>12, SMTT(30) DEF Gone

\* olsr_delete_gateway_tree_entry.
LEMMA DeletedIsOk ==
  ASSUME NEW s, Ok(s), NEW g \in Gateways, NEW prefix, NEW immediate \in BOOLEAN
  PROVE  LET t == DeleteGatewayEntry(s, g, prefix, immediate)
         IN  /\ Ok(t) /\ t.tc = s.tc /\ (Sound(s) => Sound(t))
             /\ prefix = "force" => Gone(s, t, g, immediate)
<1> DEFINE e == [s.tree[g] EXCEPT !.expire_timer = FALSE,
                                  !.cleanup_timer = @ /\ ~immediate]
           cut == [e EXCEPT !.v4 = @ /\ prefix # "v4", !.nat = @ /\ prefix # "v4",
                            !.v6 = @ /\ prefix # "v6"]
           t == DeleteGatewayEntry(s, g, prefix, immediate)
<1>1. CASE g \notin DOMAIN s.tree
  <2>1. t = s
    BY <1>1 DEF DeleteGatewayEntry
  <2>2. \A f \in Family : g \notin Range(s.list[f])
    BY <1>1 DEF Ok, ListOk
  <2>3. DOMAIN s.tree = DOMAIN s.tree \ {g}
    BY <1>1
  <2> HIDE DEF t
  <2>4. Gone(s, t, g, immediate)
    BY <1>1, <2>1, <2>2, <2>3 DEF Gone
  <2> QED
    BY <2>1, <2>4 DEF t
<1>2. CASE g \in DOMAIN s.tree
  <2>1. s \in States /\ s.tree[g] \in Entries
    <3>1. s \in States
      BY DEF Ok
    <3>2. PICK D \in SUBSET Gateways : s.tree \in [D -> Entries]
      BY <3>1 DEF States, Trees
    <3> QED
      BY <1>2, <3>1, <3>2
  <2>2. /\ e \in Entries /\ e.v4 = s.tree[g].v4 /\ e.v6 = s.tree[g].v6
        /\ e.path_cost = s.tree[g].path_cost
        /\ e.cleanup_timer = (s.tree[g].cleanup_timer /\ ~immediate)
    BY <2>1, Zenon DEF Entries
  <2>3. /\ s.tree[g].cleanup_timer => /\ ~s.tree[g].v4 /\ ~s.tree[g].v6
                                      /\ \A f \in Family : g \notin Range(s.list[f])
        /\ (s.tree[g].v4 \/ s.tree[g].v6) /\ s.tree[g].path_cost # Inf => s.tc[g] # None
    BY <1>2 DEF Ok, TreeOk
  <2>4. t = IF e.cleanup_timer /\ ~e.v4 /\ ~e.v6 THEN [s EXCEPT !.tree[g] = e]
            ELSE IF prefix = "force" \/ (~cut.v4 /\ ~cut.v6)
                 THEN DropGateway([s EXCEPT !.tree[g] = cut], g, immediate)
                 ELSE IF <<cut.v4, cut.v6>> # <<e.v4, e.v6>>
                      THEN UpdateHandler([s EXCEPT !.tree[g] = cut], g)
                      ELSE [s EXCEPT !.tree[g] = cut]
    BY <1>2 DEF DeleteGatewayEntry
  <2>5. /\ cut \in Entries /\ (cut.v4 => e.v4) /\ (cut.v6 => e.v6)
        /\ cut.path_cost = e.path_cost /\ cut.cleanup_timer = e.cleanup_timer
    <3> HIDE DEF e
    <3>1. (e.v4 /\ prefix # "v4") \in BOOLEAN /\ (e.nat /\ prefix # "v4") \in BOOLEAN /\ (e.v6 /\ prefix # "v6") \in BOOLEAN
      OBVIOUS
    <3> QED
      BY <2>2, <3>1, Zenon DEF Entries
  <2>6. [s EXCEPT !.tree[g] = e] = With(s, g, e) /\ [s EXCEPT !.tree[g] = cut] = With(s, g, cut)
    BY <1>2, <2>1, ChangedEntry
  <2> HIDE DEF t, e, cut
  <2>7. CASE e.cleanup_timer /\ ~e.v4 /\ ~e.v6
    <3> DEFINE u == With(s, g, e)
    <3>1. t = u
      BY <2>4, <2>6, <2>7
    <3>2. Ok(u) /\ (Sound(s) => Sound(u))
      BY <2>2, <2>3, EntryIsOk, Zenon
    <3>3. u.tc = s.tc /\ u.list = s.list /\ DOMAIN u.tree = DOMAIN s.tree \cup {g} /\ u.tree[g] = e
      BY <2>1, <2>2, WithParts
    <3> HIDE DEF u
    <3>4. ~immediate /\ \A f \in Family : g \notin Range(s.list[f])
      BY <2>2, <2>3, <2>7, Zenon
    <3>5. Gone(s, u, g, immediate)
      BY <2>7, <3>2, <3>3, <3>4 DEF Gone
    <3> QED
      BY <3>1, <3>2, <3>3, <3>5 DEF t
  <2>8. CASE ~(e.cleanup_timer /\ ~e.v4 /\ ~e.v6)
    <3> DEFINE u == With(s, g, cut)
    <3>1. ~e.cleanup_timer
      BY <2>2, <2>3, <2>8, Zenon
    <3>2. Ok(u) /\ (Sound(s) => Sound(u))
      BY <2>2, <2>3, <2>5, <3>1, EntryIsOk, SMTT(30)
    <3>3. u.tc = s.tc /\ DOMAIN u.tree = DOMAIN s.tree \cup {g} /\ u.tree[g] = cut
      BY <2>1, <2>5, WithParts
    <3>4. t = IF prefix = "force" \/ (~cut.v4 /\ ~cut.v6) THEN DropGateway(u, g, immediate)
              ELSE IF <<cut.v4, cut.v6>> # <<e.v4, e.v6>> THEN UpdateHandler(u, g) ELSE u
      BY <2>4, <2>6, <2>8, SMTT(30)
    <3> HIDE DEF u
    <3>5. g \in DOMAIN u.tree /\ ~u.tree[g].cleanup_timer /\ DOMAIN u.tree = DOMAIN s.tree
      BY <1>2, <2>5, <3>1, <3>3, SMTT(30)
    <3>6. CASE prefix = "force" \/ (~cut.v4 /\ ~cut.v6)
      <4>1. Gone(u, t, g, immediate)
        <5>1. Gone(u, DropGateway(u, g, immediate), g, immediate)
          BY <3>2, <3>5, DropIsOk
        <5> QED
          BY <3>4, <3>6, <5>1
      <4> QED
        BY <3>2, <3>3, <3>5, <4>1, SMTT(30) DEF Gone, t
    <3>7. CASE ~(prefix = "force" \/ (~cut.v4 /\ ~cut.v6))
      <4>1. Keeps(u, t)
        BY <3>2, <3>4, <3>7, UpdateHandlerIsKept, KeepsSame, SMTT(30)
      <4> QED
        BY <3>2, <3>3, <3>7, <4>1, SMTT(30) DEF Keeps, t
    <3> QED
      BY <3>6, <3>7
  <2> QED
    BY <2>7, <2>8
<1> QED
  BY <1>1, <1>2

\* olsr_delete_tc_entry of a node.
LEMMA DeleteTcIsOk ==
  ASSUME NEW s, Ok(s), NEW g \in Gateways
  PROVE  LET t == DeleteTc(s, g)
         IN  Ok(t) /\ (Sound(s) => Sound(t)) /\ t.tc = [s.tc EXCEPT ![g] = None]
<1> DEFINE x == DeleteGatewayEntry(s, g, "force", FALSE)
           c == [x.tc EXCEPT ![g] = None]
           t == [x EXCEPT !.tc = c]
<1>1. Gone(s, x, g, FALSE)
  BY DeletedIsOk, Zenon
<1>2. DeleteTc(s, g) = t
  BY SMTT(30) DEF DeleteTc
<1> HIDE DEF x
<1>3. Ok(x) /\ x \in States /\ x.tc = s.tc /\ (Sound(s) => Sound(x))
  BY <1>1 DEF Gone, Ok
<1>4. /\ c \in [Gateways -> Nat \cup {None, Broken}] /\ \A h \in Gateways : h # g => c[h] = x.tc[h]
      /\ c = [s.tc EXCEPT ![g] = None]
  BY <1>3 DEF States
<1> HIDE DEF c
<1>5. /\ t \in States /\ t.tree = x.tree /\ t.tc = c /\ t.list = x.list /\ t.current = x.current
      /\ t.tunnel = x.tunnel /\ t.names = x.names /\ t.route = x.route /\ t.broken = x.broken
  BY <1>3, <1>4, ZenonT(30) DEF States
<1> HIDE DEF t
<1>6. \A f \in Family : ListOk(t, f)
  BY <1>3, <1>5, SMTT(30) DEF Ok, ListOk
<1>7. NamesOk(t)
  BY <1>3, <1>5, SMTT(30) DEF Ok, NamesOk
<1>8. TreeOk(t)
  <2>1. TreeOk(x) /\ DOMAIN x.tree \subseteq Gateways
        /\ \A f \in Family : Range(x.list[f]) \subseteq Gateways
    BY <1>3, Typed DEF Ok
  <2>2. /\ \A f \in Family : g \notin Range(x.list[f])
        /\ g \in DOMAIN x.tree => ~x.tree[g].v4 /\ ~x.tree[g].v6
    BY <1>1 DEF Gone
  <2> QED
    BY <1>4, <1>5, <2>1, <2>2, SMTT(30) DEF TreeOk
<1>9. Ok(t)
  BY <1>3, <1>5, <1>6, <1>7, <1>8 DEF Ok
<1> QED
  BY <1>2, <1>3, <1>4, <1>5, <1>9 DEF Sound

\* olsr_gw_list_update only moves a gateway on the lists it is on.
LEMMA ResortIsOk ==
  ASSUME NEW s, Ok(s), NEW g
  PROVE  LET t == Resort(s, g)
         IN  Ok(t) /\ (Sound(s) => Sound(t)) /\ t.tc = s.tc
<1> DEFINE L == [f \in Family |-> IF GwListFind(s, f, g)
                                  THEN GwListUpdate(s.list[f], g, s.tree) ELSE s.list[f]]
           t == [s EXCEPT !.list = L]
<1>1. s \in States
  BY DEF Ok
<1>2. Resort(s, g) = t
  BY DEF Resort
<1>3. ASSUME NEW f \in Family
      PROVE  /\ L[f] \in Seq(Gateways) /\ IsInjective(L[f]) /\ Range(L[f]) = Range(s.list[f])
             /\ Len(L[f]) = Len(s.list[f])
  <2>1. s.list[f] \in Seq(Gateways) /\ Range(s.list[f]) \subseteq Gateways /\ IsInjective(s.list[f])
    BY Typed DEF Ok, ListOk
  <2>2. CASE g \notin Range(s.list[f])
    BY <2>1, <2>2, SMTT(30) DEF GwListFind
  <2>3. CASE g \in Range(s.list[f])
    <3> DEFINE m == GwListRemove(s.list[f], g)
    <3>1. L[f] = GwListAdd(m, g, s.tree)
      BY <2>3 DEF GwListFind, GwListUpdate
    <3>2. /\ m \in Seq(Gateways) /\ IsInjective(m) /\ Range(m) = Range(s.list[f]) \ {g}
          /\ Len(m) = Len(s.list[f]) - 1
      BY <2>1, <2>3, ListRemove
    <3> HIDE DEF m, L
    <3>3. g \in Gateways /\ g \notin Range(m)
      BY <2>1, <2>3, <3>2
    <3>4. /\ GwListAdd(m, g, s.tree) \in Seq(Gateways)
          /\ IsInjective(GwListAdd(m, g, s.tree))
          /\ Range(GwListAdd(m, g, s.tree)) = Range(m) \cup {g}
          /\ Len(GwListAdd(m, g, s.tree)) = Len(m) + 1
      BY <3>2, <3>3, ListAdd
    <3>5. (Range(s.list[f]) \ {g}) \cup {g} = Range(s.list[f])
      BY <2>3
    <3>6. Len(s.list[f]) \in Nat
      BY <2>1
    <3> QED
      BY <3>1, <3>2, <3>4, <3>5, <3>6
  <2> QED
    BY <2>2, <2>3, SMTT(30)
<1>4. L \in [Family -> Seq(Gateways)]
  <2>1. L = [f \in Family |-> L[f]]
    OBVIOUS
  <2> HIDE DEF L
  <2> QED
    BY <1>3, <2>1
<1> HIDE DEF L
<1>5. /\ t \in States /\ t.tree = s.tree /\ t.tc = s.tc /\ t.list = L /\ t.current = s.current
      /\ t.tunnel = s.tunnel /\ t.names = s.names /\ t.route = s.route /\ t.broken = s.broken
  BY <1>1, <1>4, Zenon DEF States
<1> HIDE DEF t
<1>6. \A f \in Family : ListOk(t, f)
  <2> SUFFICES ASSUME NEW f \in Family PROVE ListOk(t, f)
    BY SMTT(30)
  <2>1. ListOk(s, f) /\ s.list[f] \in Seq(Gateways)
    BY Typed DEF Ok
  <2>2. (L[f] = << >>) = (s.list[f] = << >>)
    BY <1>3, <2>1
  <2>3. IsInjective(L[f]) /\ Range(L[f]) = Range(s.list[f]) /\ Len(L[f]) = Len(s.list[f])
    BY <1>3, SMTT(30)
  <2> QED
    BY <1>5, <2>1, <2>2, <2>3 DEF ListOk
<1>7. "v4" \in Family /\ "v6" \in Family
  BY DEF Family
<1>8. NamesOk(t)
  <2>1. Range(L["v4"]) = Range(s.list["v4"])
    BY <1>3, <1>7, SMTT(30)
  <2> QED
    BY <1>5, <2>1 DEF Ok, NamesOk
<1>9. TreeOk(t)
  BY <1>3, <1>5 DEF Ok, TreeOk
<1>10. \A h \in Gateways : t.tunnel[h] = Uses(t.list, h)
  <2>1. Range(L["v4"]) = Range(s.list["v4"]) /\ Range(L["v6"]) = Range(s.list["v6"])
    BY <1>3, <1>7, SMTT(30)
  <2>2. \A h : Uses(L, h) = Uses(s.list, h)
    BY <2>1 DEF Uses
  <2> QED
    BY <1>5, <2>2 DEF Ok
<1>11. Ok(t)
  BY <1>5, <1>6, <1>8, <1>9, <1>10 DEF Ok
<1> QED
  BY <1>2, <1>5, <1>11 DEF Sound

\* olsr_update_gateway_entry.
LEMMA UpdatedIsOk ==
  ASSUME NEW s, Ok(s), NEW g \in Gateways, NEW hna \in Hnas
  PROVE  LET t == UpdateGatewayEntry(s, g, hna)
         IN  Ok(t) /\ (Sound(s) => Sound(t)) /\ t.tc = s.tc
<1> DEFINE old == IF g \in DOMAIN s.tree THEN s.tree[g]
                  ELSE [expire_timer |-> FALSE, cleanup_timer |-> FALSE]
           e == [v4 |-> hna.v4, nat |-> hna.nat, v6 |-> hna.v6 /\ "v6" \in Families, path_cost |-> Inf,
                 expire_timer |-> old.expire_timer, cleanup_timer |-> old.cleanup_timer]
           cost == GetCosts(s, g)
           y == [e EXCEPT !.path_cost = cost, !.expire_timer = TRUE, !.cleanup_timer = FALSE]
           t == UpdateGatewayEntry(s, g, hna)
<1>1. s \in States
  BY DEF Ok
<1>2. t = IF ~hna.bandwidth THEN DeleteGatewayEntry(With(s, g, e), g, "force", TRUE)
          ELSE UpdateHandler(IF cost = Inf THEN With(s, g, y) ELSE Resort(With(s, g, y), g), g)
  BY DEF UpdateGatewayEntry, With
<1>3. e \in Entries /\ e.path_cost = Inf
  <2>1. old.expire_timer \in BOOLEAN /\ old.cleanup_timer \in BOOLEAN
    <3>1. PICK D \in SUBSET Gateways : s.tree \in [D -> Entries]
      BY <1>1 DEF States, Trees
    <3> QED
      BY <3>1, Zenon DEF Entries
  <2> HIDE DEF old
  <2>2. hna.v4 \in BOOLEAN /\ hna.nat \in BOOLEAN /\ (hna.v6 /\ "v6" \in Families) \in BOOLEAN
    BY DEF Hnas
  <2>3. Inf \in Nat
    BY GatewaysAssumption
  <2> QED
    BY <2>1, <2>2, <2>3 DEF Entries
<1>4. cost \in Nat /\ (cost # Inf => s.tc[g] # None)
  <2>1. s.tc[g] \in Nat \cup {None, Broken} /\ Inf \in Nat
    BY <1>1, GatewaysAssumption DEF States
  <2> QED
    BY <2>1 DEF GetCosts
<1> HIDE DEF e, cost
<1>5. y \in Entries /\ ~y.cleanup_timer /\ y.path_cost = cost
  BY <1>3, <1>4, Zenon DEF Entries
<1> HIDE DEF y, t
<1>6. CASE ~hna.bandwidth
  <2> DEFINE x == With(s, g, e)
             z == [e EXCEPT !.expire_timer = FALSE, !.cleanup_timer = FALSE]
             u == With(s, g, z)
  <2>1. z \in Entries /\ ~z.cleanup_timer /\ z.path_cost = Inf
    BY <1>3, Zenon DEF Entries
  <2>2. DeleteGatewayEntry(x, g, "force", TRUE) = DropGateway(u, g, TRUE)
    <3>1. x \in States /\ DOMAIN x.tree = DOMAIN s.tree \cup {g} /\ x.tree[g] = e
      BY <1>1, <1>3, WithParts
    <3>2. [x EXCEPT !.tree[g] = z] = u
      <4>1. [x EXCEPT !.tree[g] = z] = With(x, g, z)
        BY <3>1, ChangedEntry
      <4>2. With(x, g, z) = [x EXCEPT !.tree = [h \in DOMAIN s.tree \cup {g} |-> IF h = g THEN z ELSE s.tree[h]]]
        <5>1. \A h \in DOMAIN s.tree \ {g} : x.tree[h] = s.tree[h]
          BY <1>1, <1>3, WithParts, SMTT(30)
        <5>2. DOMAIN x.tree \cup {g} = DOMAIN s.tree \cup {g}
          BY <3>1
        <5>3. [h \in DOMAIN x.tree \cup {g} |-> IF h = g THEN z ELSE x.tree[h]]
                = [h \in DOMAIN s.tree \cup {g} |-> IF h = g THEN z ELSE s.tree[h]]
          <6> HIDE DEF x, z
          <6> QED
            BY <5>1, <5>2
        <5> HIDE DEF x, z
        <5> QED
          BY <5>3 DEF With
      <4>3. [x EXCEPT !.tree = [h \in DOMAIN s.tree \cup {g} |-> IF h = g THEN z ELSE s.tree[h]]] = u
        <5> HIDE DEF z
        <5> DEFINE T == [h \in DOMAIN s.tree \cup {g} |-> IF h = g THEN z ELSE s.tree[h]]
                   S == [h \in DOMAIN s.tree \cup {g} |-> IF h = g THEN e ELSE s.tree[h]]
        <5>1. x = [s EXCEPT !.tree = S] /\ u = [s EXCEPT !.tree = T]
          BY DEF With
        <5> HIDE DEF T, S, x, u
        <5>2. [x EXCEPT !.tree = T] = u
          BY <1>1, <5>1, Zenon DEF States
        <5> QED
          BY <5>2 DEF T
      <4> QED
        BY <4>1, <4>2, <4>3
    <3> HIDE DEF x, u
    <3> DEFINE d == [x.tree[g] EXCEPT !.expire_timer = FALSE, !.cleanup_timer = @ /\ ~TRUE]
               cut == [d EXCEPT !.v4 = @ /\ "force" # "v4", !.nat = @ /\ "force" # "v4",
                                !.v6 = @ /\ "force" # "v6"]
    <3>3. d = z
      BY <1>3, <3>1, Zenon DEF Entries
    <3>4. cut = z
      <4> HIDE DEF d, z
      <4>1. "force" # "v4" /\ "force" # "v6"
        OBVIOUS
      <4> QED
        BY <2>1, <3>3, <4>1, Zenon DEF Entries
    <3>5. DeleteGatewayEntry(x, g, "force", TRUE) =
            IF d.cleanup_timer /\ ~d.v4 /\ ~d.v6 THEN [x EXCEPT !.tree[g] = d]
            ELSE IF "force" = "force" \/ (~cut.v4 /\ ~cut.v6)
                 THEN DropGateway([x EXCEPT !.tree[g] = cut], g, TRUE)
                 ELSE IF <<cut.v4, cut.v6>> # <<d.v4, d.v6>>
                      THEN UpdateHandler([x EXCEPT !.tree[g] = cut], g)
                      ELSE [x EXCEPT !.tree[g] = cut]
      <4>1. g \in DOMAIN x.tree
        BY <3>1
      <4> QED
        BY <4>1, Zenon DEF DeleteGatewayEntry
    <3> HIDE DEF d, cut, z
    <3> QED
      BY <2>1, <3>2, <3>3, <3>4, <3>5, Zenon
  <2> HIDE DEF z
  <2>3. Ok(u) /\ (Sound(s) => Sound(u))
    BY <2>1, EntryIsOk
  <2>4. u.tc = s.tc /\ DOMAIN u.tree = DOMAIN s.tree \cup {g} /\ u.tree[g] = z
    BY <1>1, <2>1, WithParts
  <2> HIDE DEF u
  <2>5. g \in DOMAIN u.tree /\ ~u.tree[g].cleanup_timer
    BY <2>1, <2>4
  <2>6. Gone(u, DropGateway(u, g, TRUE), g, TRUE)
    BY <2>3, <2>5, DropIsOk, Zenon
  <2>7. t = DropGateway(u, g, TRUE)
    BY <1>2, <1>6, <2>2, Zenon
  <2> QED
    BY <2>3, <2>4, <2>6, <2>7, Zenon DEF Gone, t
<1>7. CASE hna.bandwidth
  <2> DEFINE u == With(s, g, y)
             v == IF cost = Inf THEN u ELSE Resort(u, g)
  <2>1. Ok(u) /\ (Sound(s) => Sound(u))
    BY <1>4, <1>5, EntryIsOk
  <2>2. u.tc = s.tc
    BY <1>1, <1>5, WithParts
  <2> HIDE DEF u
  <2>3. Ok(v) /\ (Sound(u) => Sound(v)) /\ v.tc = u.tc
    <3>1. Ok(Resort(u, g)) /\ (Sound(u) => Sound(Resort(u, g))) /\ Resort(u, g).tc = u.tc
      BY <2>1, ResortIsOk
    <3> QED
      BY <2>1, <3>1
  <2> HIDE DEF v
  <2>4. Keeps(v, UpdateHandler(v, g))
    BY <2>3, UpdateHandlerIsKept
  <2>5. t = UpdateHandler(v, g)
    BY <1>2, <1>7 DEF u, v
  <2> QED
    BY <2>1, <2>2, <2>3, <2>4, <2>5 DEF Keeps, t
<1> QED
  BY <1>6, <1>7

\* cleanup_gateway_handler, when its timer fires.
LEMMA CleanupIsOk ==
  ASSUME NEW s, Ok(s), NEW g \in DOMAIN s.tree, s.tree[g].cleanup_timer
  PROVE  Ok(CleanupHandler(s, g))
<1>1. ~s.tree[g].v4 /\ ~s.tree[g].v6 /\ \A f \in Family : g \notin Range(s.list[f])
  BY DEF Ok, TreeOk
<1>2. CleanupHandler(s, g) = [s EXCEPT !.tree = Without(@, g)]
  BY <1>1 DEF CleanupHandler
<1>3. Ok([s EXCEPT !.tree = Without(@, g)])
  BY <1>1, WithoutIsOk, Zenon
<1> QED
  BY <1>2, <1>3, SMTT(30)

\* The new costs of an SPF run, which deletes no TC entry.
LEMMA CostsAreOk ==
  ASSUME NEW s, Ok(s), NEW costs \in Topologies,
         \A g \in Gateways : s.tc[g] # None => costs[g] # None
  PROVE  Ok([s EXCEPT !.tc = costs])
<1> DEFINE t == [s EXCEPT !.tc = costs]
<1>1. s \in States /\ costs \in [Gateways -> Nat \cup {None, Broken}]
  BY GatewaysAssumption DEF Ok
<1>2. /\ t \in States /\ t.tree = s.tree /\ t.tc = costs /\ t.list = s.list /\ t.current = s.current
      /\ t.tunnel = s.tunnel /\ t.names = s.names /\ t.route = s.route /\ t.broken = s.broken
  BY <1>1, Zenon DEF States
<1> HIDE DEF t
<1>3. \A f \in Family : ListOk(t, f)
  BY <1>2, SMTT(30) DEF Ok, ListOk
<1>4. NamesOk(t)
  BY <1>2, SMTT(30) DEF Ok, NamesOk
<1>5. TreeOk(t)
  <2>1. DOMAIN s.tree \subseteq Gateways /\ \A f \in Family : Range(s.list[f]) \subseteq Gateways
    BY Typed
  <2> QED
    BY <1>2, <2>1, SMTT(30) DEF Ok, TreeOk
<1> QED
  BY <1>2, <1>3, <1>4, <1>5, SMTT(30) DEF Ok, t

----------------------------------------------------------------------------
(* The loops                                                               *)

IsLoop(loop, r, n, f) == f = [i \in 0 .. n |-> IF i = 0 THEN r ELSE Turn(loop, f[i - 1])]

\* A loop of n turns has its states.
LEMMA TurnsExist ==
  ASSUME NEW loop, NEW r, NEW n \in Nat
  PROVE  \E f : IsLoop(loop, r, n, f)
<1> USE DEF IsLoop
<1> DEFINE Has(m) == \E f : f = [i \in 0 .. m |-> IF i = 0 THEN r ELSE Turn(loop, f[i - 1])]
           none == {m \in Nat : ~Has(m)}
<1> SUFFICES ASSUME none # {} PROVE FALSE
  BY SMTT(30)
<1>1. PICK m \in none : \A k \in none : m <= k
  <2>1. none \in SUBSET Nat
    OBVIOUS
  <2> HIDE DEF none
  <2> QED
    BY <2>1, LeastNumber
<1>2. m # 0
  <2>1. Has(0)
    <3> DEFINE f == [i \in 0 .. 0 |-> r]
    <3>1. f = [i \in 0 .. 0 |-> IF i = 0 THEN r ELSE Turn(loop, f[i - 1])]
      OBVIOUS
    <3> QED
      BY <3>1, Zenon
  <2> HIDE DEF Has
  <2> QED
    BY <2>1
<1>3. m - 1 \in Nat /\ m - 1 \notin none
  <2>1. m \in Nat
    OBVIOUS
  <2> HIDE DEF none
  <2> QED
    BY <1>1, <1>2, <2>1
<1>4. PICK f : f = [i \in 0 .. m - 1 |-> IF i = 0 THEN r ELSE Turn(loop, f[i - 1])]
  BY <1>3
<1> DEFINE h == [i \in 0 .. m |-> IF i = m THEN Turn(loop, f[m - 1]) ELSE f[i]]
<1>5. h = [i \in 0 .. m |-> IF i = 0 THEN r ELSE Turn(loop, h[i - 1])]
  <2>1. ASSUME NEW i \in 0 .. m
        PROVE  h[i] = IF i = 0 THEN r ELSE Turn(loop, h[i - 1])
    <3>1. CASE i = 0
      BY <1>2, <1>3, <1>4, <3>1
    <3>2. CASE i # 0
      <4>1. i - 1 \in 0 .. m - 1 /\ i - 1 \in 0 .. m /\ i - 1 # m
        BY <1>3, <3>2
      <4>2. h[i - 1] = f[i - 1]
        BY <4>1
      <4>3. h[i] = Turn(loop, f[i - 1])
        <5>1. CASE i = m
          BY <5>1
        <5>2. CASE i # m
          <6>1. i \in 0 .. m - 1
            BY <1>3, <5>2
          <6>2. f[i] = Turn(loop, f[i - 1])
            BY <1>4, <3>2, <6>1
          <6> QED
            BY <5>2, <6>2
        <5> QED
          BY <5>1, <5>2
      <4> HIDE DEF h
      <4> QED
        BY <3>2, <4>2, <4>3
    <3> QED
      BY <3>1, <3>2
  <2>2. h = [i \in 0 .. m |-> h[i]]
    OBVIOUS
  <2> HIDE DEF h
  <2>3. [i \in 0 .. m |-> h[i]] = [i \in 0 .. m |-> IF i = 0 THEN r ELSE Turn(loop, h[i - 1])]
    BY <2>1, Zenon
  <2> QED
    BY <2>2, <2>3, Zenon
<1>6. Has(m)
  BY <1>5, Zenon
<1> HIDE DEF Has
<1> QED
  BY <1>6

\* What a loop keeps from turn to turn it has at the end.
LEMMA TurnsReach ==
  ASSUME NEW loop, NEW r, NEW n \in Nat, NEW G, r \in G[0],
         \A i \in 1 .. n : \A x \in G[i - 1] : Turn(loop, x) \in G[i]
  PROVE  Turns(loop, r, n) \in G[n]
<1> DEFINE after == CHOOSE f : IsLoop(loop, r, n, f)
<1>1. after = [i \in 0 .. n |-> IF i = 0 THEN r ELSE Turn(loop, after[i - 1])]
  <2>1. IsLoop(loop, r, n, after)
    BY TurnsExist
  <2> QED
    BY <2>1 DEF IsLoop
<1>2. Turns(loop, r, n) = after[n]
  BY DEF Turns, IsLoop
<1> HIDE DEF after
<1>3. after[0] = r /\ \A i \in 1 .. n : after[i] = Turn(loop, after[i - 1])
  <2>1. 0 \in 0 .. n
    OBVIOUS
  <2>2. after[0] = r
    BY <1>1, <2>1
  <2>3. ASSUME NEW i \in 1 .. n PROVE after[i] = Turn(loop, after[i - 1])
    <3>1. i \in 0 .. n /\ i # 0
      OBVIOUS
    <3> QED
      BY <1>1, <3>1
  <2> QED
    BY <2>2, <2>3
<1> DEFINE bad == {i \in 0 .. n : after[i] \notin G[i]}
<1>4. bad = {}
  <2> SUFFICES ASSUME bad # {} PROVE FALSE
    OBVIOUS
  <2>1. bad \in SUBSET Nat
    OBVIOUS
  <2>2. PICK m \in bad : \A k \in bad : m <= k
    <3> HIDE DEF bad
    <3> QED
      BY <2>1, LeastNumber
  <2>3. m \in 0 .. n /\ after[m] \notin G[m]
    OBVIOUS
  <2>4. m # 0
    BY <1>3, <2>3
  <2>5. m \in 1 .. n /\ m - 1 \in 0 .. n /\ ~(m <= m - 1)
    BY <2>3, <2>4
  <2>6. after[m - 1] \in G[m - 1]
    BY <2>2, <2>5
  <2> QED
    BY <1>3, <2>3, <2>5, <2>6
<1>5. n \in 0 .. n
  OBVIOUS
<1> QED
  BY <1>2, <1>4, <1>5

\* The first gateway of a tree.
LEMMA FirstIsOne ==
  ASSUME NEW gs \in SUBSET Gateways, gs # {}
  PROVE  First(gs) \in gs
<1> DEFINE R == {Rank[g] : g \in gs}
<1>1. Rank \in [Gateways -> Nat]
  BY GatewaysAssumption
<1>2. R \in SUBSET Nat /\ R # {}
  BY <1>1
<1>3. PICK n \in R : \A m \in R : n <= m
  <2> HIDE DEF R
  <2> QED
    BY <1>2, LeastNumber
<1>4. PICK g \in gs : Rank[g] = n
  OBVIOUS
<1>5. \A h \in gs : Rank[g] <= Rank[h]
  BY <1>3, <1>4
<1> QED
  BY <1>5 DEF First

\* The states of a loop.
Rounds == [s : States, todo : SUBSET Gateways]

\* takeDownExpensiveGateways.
LEMMA TakeDownIsOk ==
  ASSUME NEW s, Ok(s), NEW f \in Family
  PROVE  Ok(TakeDown(s, f))
<1> DEFINE n == Len(s.list[f])
           r == [s |-> s, todo |-> {}]
           K == {x \in Rounds : Ok(x.s)}
           G == [i \in 0 .. n |-> K]
<1>1. n \in Nat
  BY Typed, SMTT(30)
<1> HIDE DEF n
<1>2. r \in K
  BY DEF Ok, Rounds
<1>3. ASSUME NEW x \in K PROVE Turn(f, x) \in K
  <2> DEFINE l == Worst(x.s.list[f])
             t == RemoveGatewayFromList(x.s, f, l)
  <2>1. x \in Rounds /\ Ok(x.s)
    OBVIOUS
  <2>2. Turn(f, x) = IF TooExpensive(x.s, f) THEN [x EXCEPT !.s = t] ELSE x
    BY DEF Turn, Family
  <2>3. CASE ~TooExpensive(x.s, f)
    BY <2>1, <2>2, <2>3
  <2>4. CASE TooExpensive(x.s, f)
    <3>1. l \in Range(x.s.list[f])
      <4>1. x.s.list[f] \in Seq(Gateways) /\ Len(x.s.list[f]) > 1
        BY <2>1, <2>4, Typed, SMTT(30) DEF TooExpensive
      <4> QED
        BY <4>1, SMTT(30) DEF Worst, Range
    <3> HIDE DEF l, K
    <3>2. TakenOff(x.s, t, f, l)
      BY <2>1, <3>1, RemovedIsOff
    <3>3. Turn(f, x) = [x EXCEPT !.s = t]
      BY <2>2, <2>4
    <3> HIDE DEF t
    <3>4. /\ Ok(t)
          /\ \A h \in Family : Range(t.list[h]) = Range(x.s.list[h]) \ (IF h = f THEN {l} ELSE {})
          /\ Len(t.list[f]) = Len(x.s.list[f]) - 1
      BY <2>1, <3>1, <3>2, OffIsOk, Zenon
    <3>5. t \in States
      BY <3>4 DEF Ok
    <3>6. [x EXCEPT !.s = t] \in Rounds /\ [x EXCEPT !.s = t].s = t
      BY <2>1, <3>5 DEF Rounds
    <3> QED
      BY <3>3, <3>4, <3>6, Zenon DEF K
  <2> QED
    BY <2>3, <2>4
<1> HIDE DEF K, r
<1>4. G[0] = K /\ G[n] = K /\ \A i \in 1 .. n : G[i - 1] = K /\ G[i] = K
  BY <1>1, SMTT(30)
<1> HIDE DEF G
<1>5. Turns(f, r, n) \in G[n]
  BY <1>1, <1>2, <1>3, <1>4, TurnsReach, SMTT(30)
<1>6. Ok(Turns(f, r, n).s)
  BY <1>4, <1>5 DEF K
<1>7. TakeDown(s, f) = Turns(f, r, n).s
  BY DEF TakeDown, r, n
<1> QED
  BY <1>6, <1>7

\* olsr_delete_all_tc_entries: no node is left.
LEMMA AllTcsDeleted ==
  ASSUME NEW s, Ok(s), Sound(s)
  PROVE  LET t == DeleteAllTcs(s)
         IN  Ok(t) /\ Sound(t) /\ \A g \in Gateways : t.tc[g] = None
<1> DEFINE gs == {g \in Gateways : s.tc[g] # None}
           n == Cardinality(gs)
           r == [s |-> s, todo |-> gs]
           K(i) == {x \in Rounds : /\ Ok(x.s) /\ Sound(x.s)
                                   /\ x.todo = {g \in Gateways : x.s.tc[g] # None}
                                   /\ Cardinality(x.todo) = n - i}
           G == [i \in 0 .. n |-> K(i)]
<1>1. n \in Nat /\ gs \in SUBSET Gateways
  <2>1. IsFiniteSet(gs)
    BY GatewaysAssumption, FS_Subset
  <2>2. n \in Nat
    BY <2>1, FS_CardinalityType
  <2> QED
    BY <2>2
<1>2. r \in K(0)
  <2>1. s \in States
    BY DEF Ok
  <2> HIDE DEF n
  <2>2. Cardinality(gs) = n - 0
    BY <1>1 DEF n
  <2> HIDE DEF gs
  <2>3. r \in Rounds
    BY <1>1, <2>1 DEF Rounds
  <2> QED
    BY <2>2, <2>3 DEF gs
<1> HIDE DEF n
<1>3. ASSUME NEW i \in 1 .. n, NEW x \in K(i - 1) PROVE Turn("tcs", x) \in K(i)
  <2> DEFINE g == First(x.todo)
             t == DeleteTc(x.s, g)
             td == x.todo \ {g}
  <2>1. /\ x \in Rounds /\ Ok(x.s) /\ Sound(x.s)
        /\ x.todo = {h \in Gateways : x.s.tc[h] # None}
        /\ Cardinality(x.todo) = n - (i - 1)
    OBVIOUS
  <2>2. x.todo \in SUBSET Gateways /\ IsFiniteSet(x.todo)
    <3>1. x.todo \in SUBSET Gateways
      BY <2>1 DEF Rounds
    <3> QED
      BY <3>1, GatewaysAssumption, FS_Subset
  <2>3. x.todo # {}
    <3>1. n - (i - 1) # 0
      BY <1>1
    <3> QED
      BY <2>1, <3>1, FS_EmptySet
  <2>4. g \in x.todo /\ g \in Gateways
    BY <2>2, <2>3, FirstIsOne
  <2>5. Turn("tcs", x) = [s |-> t, todo |-> td]
    BY SMTT(30) DEF Turn
  <2> HIDE DEF g
  <2>6. Ok(t) /\ Sound(t) /\ t.tc = [x.s.tc EXCEPT ![g] = None]
    BY <2>1, <2>4, DeleteTcIsOk, SMTT(30)
  <2> HIDE DEF t
  <2>7. t \in States /\ x.s \in States
    BY <2>1, <2>6 DEF Ok
  <2>8. \A h \in Gateways : t.tc[h] = IF h = g THEN None ELSE x.s.tc[h]
    BY <2>6, <2>7, Zenon DEF States
  <2>9. td = {h \in Gateways : t.tc[h] # None}
    BY <2>1, <2>8, SMTT(30)
  <2>10. Cardinality(td) = n - i
    <3>1. Cardinality(td) = Cardinality(x.todo) - 1
      BY <2>2, <2>4, FS_RemoveElement, Zenon
    <3> QED
      BY <1>1, <2>1, <3>1
  <2>11. td \in SUBSET Gateways
    BY <2>2
  <2> HIDE DEF td
  <2> DEFINE y == [s |-> t, todo |-> td]
  <2>12. y \in Rounds /\ y.s = t /\ y.todo = td
    BY <2>7, <2>11, SMTT(30) DEF Rounds
  <2>13. Turn("tcs", x) = y
    BY <2>5
  <2> HIDE DEF y
  <2>14. y \in K(i)
    BY <2>6, <2>9, <2>10, <2>12, Zenon
  <2> QED
    BY <2>13, <2>14
<1>4. G[0] = K(0) /\ G[n] = K(n) /\ \A i \in 1 .. n : G[i - 1] = K(i - 1) /\ G[i] = K(i)
  <2> HIDE DEF K
  <2>1. 0 \in 0 .. n /\ n \in 0 .. n /\ \A i \in 1 .. n : i \in 0 .. n /\ i - 1 \in 0 .. n
    BY <1>1
  <2> QED
    BY <2>1
<1> HIDE DEF K, G, r
<1>5. Turns("tcs", r, n) \in G[n]
  BY <1>1, <1>2, <1>3, <1>4, TurnsReach, Zenon
<1> DEFINE x == Turns("tcs", r, n)
<1>6. DeleteAllTcs(s) = x.s
  BY DEF DeleteAllTcs, ForAll, r, n, gs
<1>7. x \in K(n)
  BY <1>4, <1>5
<1> HIDE DEF x
<1>8. /\ x \in Rounds /\ Ok(x.s) /\ Sound(x.s)
      /\ x.todo = {g \in Gateways : x.s.tc[g] # None} /\ Cardinality(x.todo) = n - n
  BY <1>7 DEF K
<1>9. x.todo = {}
  <2>1. x.todo \in SUBSET Gateways
    BY <1>8 DEF Rounds
  <2>2. IsFiniteSet(x.todo)
    BY <2>1, GatewaysAssumption, FS_Subset
  <2>3. Cardinality(x.todo) = 0
    BY <1>1, <1>8
  <2> QED
    BY <2>2, <2>3, FS_EmptySet
<1>10. \A g \in Gateways : x.s.tc[g] = None
  BY <1>8, <1>9
<1> QED
  BY <1>6, <1>8, <1>10

\* Without a node no gateway is current and no list has one.
LEMMA NothingListed ==
  ASSUME NEW s, Ok(s), Sound(s), \A g \in Gateways : s.tc[g] = None
  PROVE  \A f \in Family : s.list[f] = << >> /\ s.current[f] = None /\ s.route[f] = None
<1> SUFFICES ASSUME NEW f \in Family
             PROVE  s.list[f] = << >> /\ s.current[f] = None /\ s.route[f] = None
  OBVIOUS
<1>1. s.list[f] \in Seq(Gateways) /\ Range(s.list[f]) \subseteq Gateways
  BY Typed, SMTT(30)
<1>2. \A g \in Range(s.list[f]) : s.tc[g] # None
  BY DEF Ok, TreeOk
<1>3. Range(s.list[f]) = {}
  BY <1>1, <1>2
<1>4. s.list[f] = << >>
  <2>1. Len(s.list[f]) = 0
    <3> SUFFICES ASSUME Len(s.list[f]) # 0 PROVE FALSE
      OBVIOUS
    <3>1. 1 \in DOMAIN s.list[f]
      BY <1>1
    <3>2. s.list[f][1] \in Range(s.list[f])
      BY <3>1, SMTT(30) DEF Range
    <3> QED
      BY <1>3, <3>2
  <2> QED
    BY <1>1, <2>1
<1>5. s.current[f] = None
  BY <1>3, SMTT(30) DEF Ok, ListOk, Sound
<1>6. s.route[f] = None
  BY <1>5, GatewaysAssumption, SMTT(30) DEF Ok, ListOk
<1> QED
  BY <1>4, <1>5, <1>6

\* The first loop of olsr_cleanup_gateways: nothing is current any more.
LEMMA AllIdleDeleted ==
  ASSUME NEW s, Ok(s), Sound(s), \A g \in Gateways : s.tc[g] = None
  PROVE  LET t == ForAll("idle", DOMAIN s.tree, s)
         IN  Ok(t) /\ Sound(t) /\ t.tc = s.tc /\ t.tree = << >>
<1> DEFINE gs == DOMAIN s.tree
           n == Cardinality(gs)
           r == [s |-> s, todo |-> gs]
           K(i) == {x \in Rounds : /\ Ok(x.s) /\ Sound(x.s) /\ x.s.tc = s.tc
                                   /\ x.todo = DOMAIN x.s.tree
                                   /\ Cardinality(x.todo) = n - i}
           G == [i \in 0 .. n |-> K(i)]
<1>1. n \in Nat /\ gs \in SUBSET Gateways
  <2>1. gs \in SUBSET Gateways
    BY Typed
  <2>2. IsFiniteSet(gs)
    BY <2>1, GatewaysAssumption, FS_Subset
  <2>3. n \in Nat
    BY <2>2, FS_CardinalityType
  <2> QED
    BY <2>1, <2>3
<1>2. r \in K(0)
  <2>1. s \in States
    BY DEF Ok
  <2> HIDE DEF n
  <2>2. Cardinality(gs) = n - 0
    BY <1>1 DEF n
  <2>3. r \in Rounds /\ r.s = s /\ r.todo = gs
    BY <1>1, <2>1, SMTT(30) DEF Rounds
  <2> HIDE DEF r
  <2> QED
    BY <2>2, <2>3, SMTT(30)
<1> HIDE DEF n
<1>3. ASSUME NEW i \in 1 .. n, NEW x \in K(i - 1) PROVE Turn("idle", x) \in K(i)
  <2> DEFINE g == First(x.todo)
             t == DeleteGatewayEntry(x.s, g, "force", TRUE)
             td == x.todo \ {g}
             y == [s |-> t, todo |-> td]
  <2>1. /\ x \in Rounds /\ Ok(x.s) /\ Sound(x.s) /\ x.s.tc = s.tc
        /\ x.todo = DOMAIN x.s.tree
        /\ Cardinality(x.todo) = n - (i - 1)
    OBVIOUS
  <2>2. x.todo \in SUBSET Gateways /\ IsFiniteSet(x.todo)
    <3>1. x.todo \in SUBSET Gateways
      BY <2>1, SMTT(30) DEF Rounds
    <3> QED
      BY <3>1, GatewaysAssumption, FS_Subset, SMTT(30)
  <2>3. x.todo # {}
    <3>1. n - (i - 1) # 0
      BY <1>1
    <3> QED
      BY <2>1, <3>1, FS_EmptySet
  <2>4. g \in x.todo /\ g \in Gateways
    BY <2>2, <2>3, FirstIsOne
  <2> HIDE DEF g
  <2>5. Turn("idle", x) = y
    <3>1. \A f \in Family : x.s.current[f] = None
      BY <2>1, NothingListed, SMTT(30)
    <3>2. ~\E f \in Family : x.s.current[f] = g
      BY <2>4, <3>1, GatewaysAssumption, SMTT(30)
    <3>3. DeleteIdle(x.s, g) = t
      BY <3>2 DEF DeleteIdle
    <3>4. Turn("idle", x) = [s |-> DeleteIdle(x.s, g), todo |-> x.todo \ {g}]
      BY DEF Turn, g
    <3> QED
      BY <3>3, <3>4, Zenon
  <2>6. Gone(x.s, t, g, TRUE)
    BY <2>1, <2>4, DeletedIsOk, Zenon
  <2> HIDE DEF t
  <2>7. Ok(t) /\ Sound(t) /\ t \in States /\ t.tc = s.tc /\ DOMAIN t.tree = td
    BY <2>1, <2>6, Zenon DEF Ok, Gone
  <2>8. Cardinality(td) = n - i
    <3>1. Cardinality(td) = Cardinality(x.todo) - 1
      BY <2>2, <2>4, FS_RemoveElement, Zenon
    <3> QED
      BY <1>1, <2>1, <3>1
  <2>9. td \in SUBSET Gateways
    BY <2>2, SMTT(30)
  <2> HIDE DEF td
  <2>10. y \in Rounds /\ y.s = t /\ y.todo = td
    BY <2>7, <2>9, SMTT(30) DEF Rounds
  <2> HIDE DEF y
  <2>11. y \in K(i)
    BY <2>7, <2>8, <2>10
  <2> QED
    BY <2>5, <2>11
<1>4. G[0] = K(0) /\ G[n] = K(n) /\ \A i \in 1 .. n : G[i - 1] = K(i - 1) /\ G[i] = K(i)
  <2> HIDE DEF K
  <2>1. 0 \in 0 .. n /\ n \in 0 .. n /\ \A i \in 1 .. n : i \in 0 .. n /\ i - 1 \in 0 .. n
    BY <1>1
  <2> QED
    BY <2>1
<1> HIDE DEF K, G, r
<1>5. Turns("idle", r, n) \in G[n]
  BY <1>1, <1>2, <1>3, <1>4, TurnsReach
<1> DEFINE x == Turns("idle", r, n)
<1>6. ForAll("idle", DOMAIN s.tree, s) = x.s
  BY DEF ForAll, r, n
<1>7. x \in K(n)
  BY <1>4, <1>5, SMTT(30)
<1> HIDE DEF x
<1>8. /\ x \in Rounds /\ Ok(x.s) /\ Sound(x.s) /\ x.s.tc = s.tc
      /\ x.todo = DOMAIN x.s.tree /\ Cardinality(x.todo) = n - n
  BY <1>7 DEF K
<1>9. x.todo = {}
  <2>1. x.todo \in SUBSET Gateways
    BY <1>8 DEF Rounds
  <2>2. IsFiniteSet(x.todo)
    BY <2>1, GatewaysAssumption, FS_Subset
  <2>3. Cardinality(x.todo) = 0
    BY <1>1, <1>8
  <2> QED
    BY <2>2, <2>3, FS_EmptySet
<1>10. x.s.tree = << >>
  <2>1. x.s \in States
    BY <1>8 DEF Ok
  <2>2. PICK D \in SUBSET Gateways : x.s.tree \in [D -> Entries]
    BY <2>1, Zenon DEF States, Trees
  <2>3. x.s.tree \in [{} -> Entries]
    BY <1>8, <1>9, <2>2, Zenon
  <2>4. x.s.tree \in Seq(Entries) /\ Len(x.s.tree) = 0
    <3>1. 1 .. 0 = {}
      OBVIOUS
    <3>2. x.s.tree \in [1 .. 0 -> Entries]
      BY <2>3, <3>1, SMTT(30)
    <3> QED
      BY <3>2
  <2> QED
    BY <2>4, SMTT(30)
<1> QED
  BY <1>6, <1>8, <1>10

\* What olsr_shutdown does leaves nothing.
LEMMA NothingLeft ==
  ASSUME NEW s, Ok(s), Sound(s)
  PROVE  LET t == CleanupGateways(DeleteAllTcs(s))
         IN  /\ Ok(t) /\ t.tree = << >>
             /\ \A f \in Family : t.current[f] = None /\ t.route[f] = None
<1> DEFINE a == DeleteAllTcs(s)
           b == ForAll("idle", DOMAIN a.tree, a)
<1>1. Ok(a) /\ Sound(a) /\ \A g \in Gateways : a.tc[g] = None
  BY AllTcsDeleted, SMTT(30)
<1> HIDE DEF a
<1>2. Ok(b) /\ Sound(b) /\ b.tc = a.tc /\ b.tree = << >>
  BY <1>1, AllIdleDeleted
<1>3. CleanupGateways(a) = DeleteListed(DeleteListed(b, "v4"), "v6")
  BY DEF CleanupGateways
<1> HIDE DEF b
<1>4. \A f \in Family : b.list[f] = << >> /\ b.current[f] = None /\ b.route[f] = None
  BY <1>1, <1>2, NothingListed
<1>5. CleanupGateways(a) = b
  BY <1>3, <1>4, Zenon DEF DeleteListed, Family
<1> QED
  BY <1>2, <1>4, <1>5 DEF a

----------------------------------------------------------------------------
(* The theorem                                                             *)

\* A kernel that is about to refuse a tunnel, or is not.
LEMMA KernelIsOk ==
  ASSUME NEW s, Ok(s), NEW b \in BOOLEAN
  PROVE  LET t == [s EXCEPT !.broken = b]
         IN  Ok(t) /\ t.tc = s.tc /\ t.tree = s.tree /\ t.current = s.current /\ t.broken = b
<1> DEFINE t == [s EXCEPT !.broken = b]
<1>1. s \in States
  BY DEF Ok
<1>2. /\ t \in States /\ t.tree = s.tree /\ t.tc = s.tc /\ t.list = s.list /\ t.current = s.current
      /\ t.tunnel = s.tunnel /\ t.names = s.names /\ t.route = s.route /\ t.broken = b
  BY <1>1, Zenon DEF States
<1> HIDE DEF t
<1>3. \A f \in Family : ListOk(t, f)
  BY <1>2, SMTT(30) DEF Ok, ListOk
<1>4. NamesOk(t)
  BY <1>2 DEF Ok, NamesOk
<1>5. TreeOk(t)
  BY <1>2, Zenon DEF Ok, TreeOk
<1>6. Ok(t)
  BY <1>2, <1>3, <1>4, <1>5 DEF Ok
<1> QED
  BY <1>2, <1>6 DEF t

\* What a handler returns is what the daemon has afterwards.
LEMMA BecomeIsOk ==
  ASSUME NEW s, Ok(s), Become(s), UNCHANGED olsr_cnf
  PROVE  Ok(State)'
<1> DEFINE u == [s EXCEPT !.broken = FALSE]
<1>1. Ok(u)
  BY KernelIsOk, Zenon
<1>2. s \in States
  BY SMTT(30) DEF Ok
<1>3. State' = u
  <2>1. /\ u \in States /\ u.tc = s.tc /\ u.tree = s.tree /\ u.list = s.list /\ u.current = s.current
        /\ u.tunnel = s.tunnel /\ u.names = s.names /\ u.route = s.route /\ u.want = s.want
        /\ u.timer = s.timer /\ u.nodecount = s.nodecount /\ u.stablecount = s.stablecount
        /\ u.broken = FALSE
    BY <1>2, Zenon DEF States
  <2> HIDE DEF u
  <2>2. u = [tc |-> u.tc, tree |-> u.tree, list |-> u.list, current |-> u.current, tunnel |-> u.tunnel,
             names |-> u.names, route |-> u.route, want |-> u.want, timer |-> u.timer,
             nodecount |-> u.nodecount, stablecount |-> u.stablecount, broken |-> u.broken]
    BY <2>1, Zenon DEF States
  <2> QED
    BY <2>1, <2>2 DEF State, Become
<1> HIDE DEF u
<1>4. olsr_cnf' = olsr_cnf
  OBVIOUS
<1>5. olsr_cnf \in Configurations /\ u \in States /\ (\A f \in Family : ListOk(u, f))
      /\ (\A g \in Gateways : u.tunnel[g] = Uses(u.list, g)) /\ NamesOk(u) /\ TreeOk(u)
  BY <1>1, SMTT(30) DEF Ok
<1>6. Families' = Families /\ Multi' = Multi /\ Slots' = Slots /\ States' = States
  BY <1>4, SMTT(30) DEF Families, Multi, Slots, States
<1>7. \A f \in Family : ListOk(State, f)'
  BY <1>3, <1>4, <1>5, <1>6, SMTT(30) DEF ListOk
<1>8. NamesOk(State)'
  BY <1>3, <1>5, <1>6, SMTT(30) DEF NamesOk
<1>9. TreeOk(State)'
  BY <1>3, <1>5 DEF TreeOk
<1>10. \A g \in Gateways : State'.tunnel[g] = Uses(State'.list, g)
  BY <1>3, <1>5
<1> QED
  BY <1>3, <1>4, <1>5, <1>6, <1>7, <1>8, <1>9, <1>10 DEF Ok

\* What holds between two handlers.
Consistent ==
  /\ Ok(State)
  /\ phase = "exit" => tree = << >> /\ \A f \in Family : current[f] = None /\ route[f] = None

\* The daemon starts with nothing.
LEMMA StartIsConsistent ==
  ASSUME Init
  PROVE  Consistent
<1>1. /\ olsr_cnf \in Configurations /\ olsr_cnf.stablecount \in Nat
      /\ State.tc = [g \in Gateways |-> None] /\ State.tree = << >>
      /\ State.list = [f \in Family |-> << >>] /\ State.current = [f \in Family |-> None]
      /\ State.tunnel = [g \in Gateways |-> 0] /\ State.names = [i \in Slots |-> None]
      /\ State.route = [f \in Family |-> None]
  BY ConfigurationsAssumption, Zenon DEF Init, State
<1>2. << >> \in Trees /\ DOMAIN << >> = {}
  <2>1. << >> \in [{} -> Entries] /\ DOMAIN << >> = {}
    OBVIOUS
  <2> QED
    BY <2>1 DEF Trees
<1>3. State \in States
  <2>1. /\ tc \in [Gateways -> Nat \cup {None, Broken}] /\ tree \in Trees
        /\ list \in [Family -> Seq(Gateways)] /\ current \in [Family -> Gateways \cup {None, Freed}]
        /\ tunnel \in [Gateways -> Nat] /\ names \in [Slots -> Gateways \cup {None}]
        /\ route \in [Family -> Gateways \cup {None}] /\ want \in [Family -> BOOLEAN]
        /\ timer \in BOOLEAN /\ nodecount \in Nat /\ stablecount \in 0 .. olsr_cnf.stablecount
    <3>1. tree \in Trees
      BY <1>2 DEF Init
    <3>2. << >> \in Seq(Gateways)
      OBVIOUS
    <3>3. list \in [Family -> Seq(Gateways)]
      BY <3>2 DEF Init
    <3>4. tc \in [Gateways -> Nat \cup {None, Broken}] /\ tunnel \in [Gateways -> Nat]
      BY DEF Init
    <3>5. /\ current \in [Family -> Gateways \cup {None, Freed}]
          /\ names \in [Slots -> Gateways \cup {None}] /\ route \in [Family -> Gateways \cup {None}]
      BY DEF Init
    <3>6. want \in [Family -> BOOLEAN] /\ timer \in BOOLEAN
      BY Zenon DEF Init
    <3>7. nodecount \in Nat /\ stablecount \in 0 .. olsr_cnf.stablecount
      BY <1>1 DEF Init
    <3> QED
      BY <3>1, <3>3, <3>4, <3>5, <3>6, <3>7, SMTT(30)
  <2> QED
    BY <2>1, Zenon DEF State, States
<1>4. /\ IsInjective(<< >>) /\ Range(<< >>) = {} /\ Len(<< >>) = 0
  BY DEF IsInjective, Range
<1>5. olsr_cnf.use_count \in Nat
  BY <1>1, ConfigurationsAssumption
<1>6. \A f \in Family : State.list[f] = << >> /\ State.current[f] = None /\ State.route[f] = None
  BY <1>1
<1>7. \A f \in Family : ListOk(State, f)
  BY <1>2, <1>4, <1>5, <1>6 DEF ListOk
<1>8. "v4" \in Family /\ "v6" \in Family
  BY DEF Family
<1>9. \A g \in Gateways : State.tunnel[g] = Uses(State.list, g)
  BY <1>1, <1>4, <1>6, <1>8, SMTT(30) DEF Uses
<1>10. NamesOk(State)
  <2>1. \A i \in Slots : State.names[i] = None
    BY <1>1
  <2> QED
    BY <1>4, <1>6, <1>8, <2>1, SMTT(30) DEF NamesOk
<1>11. TreeOk(State)
  <2>1. DOMAIN State.tree = {} /\ \A f \in Family : Range(State.list[f]) = {}
    BY <1>1, <1>2, <1>4, <1>6, SMTT(30)
  <2> QED
    BY <2>1 DEF TreeOk
<1>12. Ok(State)
  BY <1>1, <1>3, <1>7, <1>9, <1>10, <1>11, SMTT(30) DEF Ok
<1> QED
  BY <1>12 DEF Consistent, Init

\* No handler breaks the agreement, and the last one leaves nothing.
LEMMA StepIsConsistent ==
  ASSUME Consistent, [Next]_vars
  PROVE  Consistent'
<1>1. Ok(State) /\ State.tc = tc /\ State.tree = tree /\ State.current = current /\ State.broken = FALSE
  BY Zenon DEF Consistent, State
<1>2. \A b \in BOOLEAN : LET t == [State EXCEPT !.broken = b]
                         IN  Ok(t) /\ t.tc = tc /\ t.tree = tree
  BY <1>1, KernelIsOk
<1>3. ASSUME NEW g \in Gateways, NEW hna \in olsr_cnf.hnas[g], InputHna(g, hna)
      PROVE  Consistent'
  <2>1. PICK b \in BOOLEAN : Become(UpdateGatewayEntry([State EXCEPT !.broken = b], g, hna))
    BY <1>3 DEF InputHna, Handle
  <2> DEFINE x == [State EXCEPT !.broken = b]
  <2>2. Ok(x) /\ Become(UpdateGatewayEntry(x, g, hna))
    BY <1>2, <2>1
  <2> HIDE DEF x
  <2>3. hna \in Hnas
    BY <1>1, ConfigurationsAssumption, Zenon DEF Ok
  <2>4. Ok(UpdateGatewayEntry(x, g, hna))
    BY <2>2, <2>3, UpdatedIsOk
  <2>5. UNCHANGED olsr_cnf /\ phase' = "run"
    BY <1>3 DEF InputHna, Handle, Running
  <2>6. Ok(State)'
    BY <2>2, <2>4, <2>5, BecomeIsOk
  <2> QED
    BY <2>5, <2>6 DEF Consistent
<1>4. ASSUME NEW g \in Gateways, NEW f \in Family, ExpireHnaNetEntry(g, f)
      PROVE  Consistent'
  <2>1. PICK b \in BOOLEAN : Become(DeleteGatewayEntry([State EXCEPT !.broken = b], g, f, FALSE))
    BY <1>4, Zenon DEF ExpireHnaNetEntry, Handle
  <2> DEFINE x == [State EXCEPT !.broken = b]
  <2>2. Ok(x) /\ Become(DeleteGatewayEntry(x, g, f, FALSE))
    BY <1>2, <2>1, Zenon
  <2> HIDE DEF x
  <2>3. Ok(DeleteGatewayEntry(x, g, f, FALSE))
    BY <2>2, DeletedIsOk, Zenon
  <2>4. UNCHANGED olsr_cnf /\ phase' = "run"
    BY <1>4 DEF ExpireHnaNetEntry, Handle, Running
  <2>5. Ok(State)'
    BY <2>2, <2>3, <2>4, BecomeIsOk, Zenon
  <2> QED
    BY <2>4, <2>5 DEF Consistent
<1>5. ASSUME NEW g \in Gateways, ExpireGateway(g)
      PROVE  Consistent'
  <2> DEFINE p == IF "v6" \in Families THEN "other" ELSE "v4"
  <2>1. PICK b \in BOOLEAN : Become(DeleteGatewayEntry([State EXCEPT !.broken = b], g, p, FALSE))
    BY <1>5, Zenon DEF ExpireGateway, Handle
  <2> HIDE DEF p
  <2> DEFINE x == [State EXCEPT !.broken = b]
  <2>2. Ok(x) /\ Become(DeleteGatewayEntry(x, g, p, FALSE))
    BY <1>2, <2>1, Zenon
  <2> HIDE DEF x
  <2>3. Ok(DeleteGatewayEntry(x, g, p, FALSE))
    BY <2>2, DeletedIsOk, Zenon
  <2>4. UNCHANGED olsr_cnf /\ phase' = "run"
    BY <1>5 DEF ExpireGateway, Handle, Running
  <2>5. Ok(State)'
    BY <2>2, <2>3, <2>4, BecomeIsOk, Zenon
  <2> QED
    BY <2>4, <2>5 DEF Consistent
<1>6. ASSUME NEW g \in Gateways, CleanupGateway(g)
      PROVE  Consistent'
  <2>1. PICK b \in BOOLEAN : Become(CleanupHandler([State EXCEPT !.broken = b], g))
    BY <1>6 DEF CleanupGateway, Handle
  <2> DEFINE x == [State EXCEPT !.broken = b]
  <2>2. Ok(x) /\ x.tree = tree /\ Become(CleanupHandler(x, g))
    BY <1>2, <2>1
  <2> HIDE DEF x
  <2>3. g \in DOMAIN tree /\ tree[g].cleanup_timer
    BY <1>6 DEF CleanupGateway
  <2>4. Ok(CleanupHandler(x, g))
    BY <2>2, <2>3, CleanupIsOk
  <2>5. UNCHANGED olsr_cnf /\ phase' = "run"
    BY <1>6 DEF CleanupGateway, Handle, Running
  <2>6. Ok(State)'
    BY <2>2, <2>4, <2>5, BecomeIsOk
  <2> QED
    BY <2>5, <2>6 DEF Consistent
<1>7. ASSUME NEW g \in Gateways, DeleteTcEntry(g)
      PROVE  Consistent'
  <2>1. PICK b \in BOOLEAN : Become(DeleteTc([State EXCEPT !.broken = b], g))
    BY <1>7 DEF DeleteTcEntry, Handle
  <2> DEFINE x == [State EXCEPT !.broken = b]
  <2>2. Ok(x) /\ Become(DeleteTc(x, g))
    BY <1>2, <2>1
  <2> HIDE DEF x
  <2>3. Ok(DeleteTc(x, g))
    BY <2>2, DeleteTcIsOk, Zenon
  <2>4. UNCHANGED olsr_cnf /\ phase' = "run"
    BY <1>7 DEF DeleteTcEntry, Handle, Running
  <2>5. Ok(State)'
    BY <2>2, <2>3, <2>4, BecomeIsOk
  <2> QED
    BY <2>4, <2>5 DEF Consistent
<1>8. ASSUME NEW costs \in Topologies, Spf(costs)
      PROVE  Consistent'
  <2>1. PICK b \in BOOLEAN :
          Become(GatewayLossCheck([[State EXCEPT !.broken = b] EXCEPT !.tc = costs]))
    BY <1>8, Zenon DEF Spf, Handle
  <2> DEFINE x == [State EXCEPT !.broken = b]
             y == [x EXCEPT !.tc = costs]
  <2>2. Ok(x) /\ x.tc = tc
    BY <1>2
  <2>3. Become(GatewayLossCheck(y))
    BY <2>1
  <2> HIDE DEF x
  <2>4. \A g \in Gateways : tc[g] # None => costs[g] # None
    BY <1>8 DEF Spf
  <2>5. Ok(y)
    BY <2>2, <2>4, CostsAreOk
  <2> HIDE DEF y
  <2>6. Ok(GatewayLossCheck(y))
    BY <2>5, LossCheckIsKept DEF Keeps
  <2>7. UNCHANGED olsr_cnf /\ phase' = "run"
    BY <1>8 DEF Spf, Handle, Running
  <2>8. Ok(State)'
    BY <2>3, <2>6, <2>7, BecomeIsOk
  <2> QED
    BY <2>7, <2>8 DEF Consistent
<1>9. ASSUME GwTimer
      PROVE  Consistent'
  <2>1. PICK b \in BOOLEAN : Become(TimerHandler([State EXCEPT !.broken = b]))
    BY <1>9 DEF GwTimer, Handle
  <2> DEFINE x == [State EXCEPT !.broken = b]
  <2>2. Ok(x) /\ Become(TimerHandler(x))
    BY <1>2, <2>1
  <2> HIDE DEF x
  <2>3. Ok(TimerHandler(x))
    BY <2>2, TimerIsKept DEF Keeps
  <2>4. UNCHANGED olsr_cnf /\ phase' = "run"
    BY <1>9 DEF GwTimer, Handle, Running
  <2>5. Ok(State)'
    BY <2>2, <2>3, <2>4, BecomeIsOk
  <2> QED
    BY <2>4, <2>5 DEF Consistent
<1>10. ASSUME TakedownTimer
       PROVE  Consistent'
  <2>1. PICK b \in BOOLEAN : Become(TakeDown(TakeDown([State EXCEPT !.broken = b], "v4"), "v6"))
    BY <1>10 DEF TakedownTimer, Handle
  <2> DEFINE x == [State EXCEPT !.broken = b]
             y == TakeDown(x, "v4")
  <2>2. Ok(x) /\ Become(TakeDown(y, "v6"))
    BY <1>2, <2>1
  <2> HIDE DEF x
  <2>3. Ok(y)
    BY <2>2, TakeDownIsOk DEF Family
  <2> HIDE DEF y
  <2>4. Ok(TakeDown(y, "v6"))
    BY <2>3, TakeDownIsOk DEF Family
  <2>5. UNCHANGED olsr_cnf /\ phase' = "run"
    BY <1>10 DEF TakedownTimer, Handle, Running
  <2>6. Ok(State)'
    BY <2>2, <2>4, <2>5, BecomeIsOk
  <2> QED
    BY <2>5, <2>6 DEF Consistent
<1>11. ASSUME Startup
       PROVE  Consistent'
  <2>1. Become(StartupHandler(State)) /\ phase' = "run" /\ UNCHANGED olsr_cnf
    BY <1>11 DEF Startup
  <2>2. Ok(StartupHandler(State))
    BY <1>1, StartupIsKept DEF Keeps
  <2>3. Ok(State)'
    BY <2>1, <2>2, BecomeIsOk
  <2> QED
    BY <2>1, <2>3 DEF Consistent
<1>12. ASSUME Exit
       PROVE  Consistent'
  <2> DEFINE x == CleanupGateways(DeleteAllTcs(State))
  <2>1. Become(x) /\ UNCHANGED olsr_cnf /\ \A f \in Family : current[f] # Freed
    BY <1>12 DEF Exit, Running
  <2>2. Sound(State)
    BY <1>1, <2>1, SMTT(30) DEF Sound
  <2>3. Ok(x) /\ x.tree = << >> /\ \A f \in Family : x.current[f] = None /\ x.route[f] = None
    BY <1>1, <2>2, NothingLeft
  <2> HIDE DEF x
  <2>4. Ok(State)'
    BY <2>1, <2>3, BecomeIsOk, SMTT(30)
  <2>5. tree' = << >> /\ \A f \in Family : current'[f] = None /\ route'[f] = None
    BY <2>1, <2>3 DEF Become
  <2> QED
    BY <2>4, <2>5 DEF Consistent
<1>13. ASSUME UNCHANGED vars
       PROVE  Consistent'
  <2>1. Become(State) /\ UNCHANGED <<olsr_cnf, phase, tree, current, route>>
    BY <1>13 DEF vars, Become, State
  <2>2. Ok(State)'
    BY <1>1, <2>1, BecomeIsOk
  <2> QED
    BY <2>1, <2>2, SMTT(30) DEF Consistent
<1> QED
  BY <1>3, <1>4, <1>5, <1>6, <1>7, <1>8, <1>9, <1>10, <1>11, <1>12, <1>13, SMTT(30) DEF Next

\* The number of lists a gateway is on.
LEMMA UsesCount ==
  ASSUME NEW lists, NEW g
  PROVE  Cardinality({f \in Family : g \in Range(lists[f])}) = Uses(lists, g)
<1> DEFINE on == {f \in Family : g \in Range(lists[f])}
<1>1. Cardinality({}) = 0 /\ Cardinality({"v4"}) = 1 /\ Cardinality({"v6"}) = 1
  BY FS_EmptySet, FS_Singleton, Zenon
<1>2. Cardinality({"v4", "v6"}) = 2
  <2>1. IsFiniteSet({"v4"}) /\ "v6" \notin {"v4"} /\ {"v4"} \cup {"v6"} = {"v4", "v6"}
    BY FS_Singleton, Zenon
  <2> QED
    BY <1>1, <2>1, FS_AddElement
<1>3. CASE g \in Range(lists["v4"]) /\ g \in Range(lists["v6"])
  <2>1. on = {"v4", "v6"}
    BY <1>3 DEF Family
  <2> QED
    BY <1>2, <1>3, <2>1 DEF Uses
<1>4. CASE g \in Range(lists["v4"]) /\ g \notin Range(lists["v6"])
  <2>1. on = {"v4"}
    BY <1>4 DEF Family
  <2> QED
    BY <1>1, <1>4, <2>1 DEF Uses
<1>5. CASE g \notin Range(lists["v4"]) /\ g \in Range(lists["v6"])
  <2>1. on = {"v6"}
    BY <1>5 DEF Family
  <2> QED
    BY <1>1, <1>5, <2>1 DEF Uses
<1>6. CASE g \notin Range(lists["v4"]) /\ g \notin Range(lists["v6"])
  <2>1. on = {}
    BY <1>6, SMTT(30) DEF Family
  <2> QED
    BY <1>1, <1>6, <2>1 DEF Uses
<1> QED
  BY <1>3, <1>4, <1>5, <1>6

\* What the invariant says of the tables and the kernel.
LEMMA ConsistentMatches ==
  ASSUME Consistent
  PROVE  TunnelsMatch
<1>1. /\ State.tc = tc /\ State.tree = tree /\ State.list = list /\ State.current = current
      /\ State.tunnel = tunnel /\ State.names = names /\ State.route = route
      /\ State.want = want /\ State.timer = timer /\ State.stablecount = stablecount
  BY SMTT(30) DEF State
<1>2. Ok(State) /\ State \in States
  BY DEF Consistent, Ok
<1>3. /\ tree \in Trees /\ list \in [Family -> Seq(Gateways)]
      /\ current \in [Family -> Gateways \cup {None, Freed}]
      /\ tunnel \in [Gateways -> Nat] /\ names \in [Slots -> Gateways \cup {None}]
      /\ route \in [Family -> Gateways \cup {None}] /\ want \in [Family -> BOOLEAN]
      /\ timer \in BOOLEAN /\ stablecount \in 0 .. olsr_cnf.stablecount
  <2> HIDE DEF State
  <2> QED
    BY <1>1, <1>2, SMTT(30) DEF States
<1>4. \A g \in Gateways : tunnel[g] = Uses(list, g) /\ Uses(list, g) \in 0 .. 2
  <2>1. \A g : Uses(list, g) \in 0 .. 2
    BY DEF Uses
  <2> QED
    BY <1>1, <1>2, <2>1 DEF Ok
<1>5. TypeOK
  <2>1. DOMAIN tree \subseteq Gateways /\ \A g \in DOMAIN tree : tree[g] \in Entries
    <3>1. PICK D \in SUBSET Gateways : tree \in [D -> Entries]
      BY <1>3 DEF Trees
    <3> QED
      BY <3>1
  <2>2. tunnel \in [Gateways -> 0 .. 2]
    BY <1>3, <1>4, SMTT(30)
  <2> QED
    BY <1>3, <2>1, <2>2 DEF TypeOK
<1>6. \A f \in Family :
        /\ IsInjective(list[f]) /\ Len(list[f]) <= olsr_cnf.use_count
        /\ Range(list[f]) \subseteq DOMAIN tree
        /\ current[f] \in Range(list[f]) \cup {None, Freed}
        /\ current[f] # Freed => route[f] = current[f]
  BY <1>1, <1>2 DEF Ok, ListOk
<1>7. \A g \in Gateways : tunnel[g] = Cardinality({f \in Family : g \in Range(list[f])})
  BY <1>4, UsesCount, ZenonT(30)
<1>8. Multi => /\ \A i, j \in Slots : names[i] = names[j] => i = j \/ names[i] = None
               /\ Range(names) \ {None} = Range(list["v4"])
  <2>1. Range(names) = {names[i] : i \in Slots}
    BY <1>3 DEF Range
  <2> QED
    BY <1>1, <1>2, <2>1 DEF Ok, NamesOk
<1> QED
  BY <1>5, <1>6, <1>7, <1>8, SMTT(30) DEF TunnelsMatch, Consistent

\* After every handler of gateway.c the gateway tree, the lists of the
\* families, the use counts of the tunnels, their interface names and the
\* default routes agree, whatever gateways there are, whatever they announce
\* and whichever tunnels the kernel refuses; after olsr_cleanup_gateways
\* nothing of them is left.
THEOREM TunnelsAgree == Spec => []TunnelsMatch
<1>1. Init => Consistent
  BY StartIsConsistent
<1>2. Consistent /\ [Next]_vars => Consistent'
  BY StepIsConsistent
<1>3. Consistent => TunnelsMatch
  BY ConsistentMatches
<1> QED
  BY <1>1, <1>2, <1>3, PTL DEF Spec

============================================================================
