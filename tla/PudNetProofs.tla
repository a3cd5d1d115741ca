---------------------------- MODULE PudNetProofs ----------------------------
(***************************************************************************)
(* The ring of the position plugin's de-duplication list implements the    *)
(* window that DeDup promises, for every depth of the list.  The ring runs *)
(* backwards: the newest entry is written below the one before it, modulo  *)
(* the depth.  Then the sockets of PudNet, and the state, the timers and   *)
(* the resources of Pud, for any configuration and any reports of the gps. *)
(***************************************************************************)
EXTENDS PudNet, TLAPS

Rings == [entries : [0 .. DeDupDepth - 1 -> Message \cup {None}],
          count : 0 .. DeDupDepth, newest : 0 .. DeDupDepth - 1]

RingType == ring \in Rings

\* An index wraps at most once.
LEMMA WrapsOnce ==
  \A i \in 0 .. 2 * DeDupDepth - 1 :
    WRAPINDEX(i) = IF i < DeDupDepth THEN i ELSE i - DeDupDepth
<1> SUFFICES ASSUME NEW i \in 0 .. 2 * DeDupDepth - 1
             PROVE  WRAPINDEX(i) = IF i < DeDupDepth THEN i ELSE i - DeDupDepth
  OBVIOUS
<1>1. DeDupDepth \in Nat \ {0} /\ i \in Nat
  BY DepthAssumption
<1>2. CASE i < DeDupDepth
  BY <1>1, <1>2 DEF WRAPINDEX
<1>3. CASE ~(i < DeDupDepth)
  BY <1>1, <1>3 DEF WRAPINDEX
<1> QED
  BY <1>2, <1>3

LEMMA WindowIsSequence ==
  ASSUME NEW r \in Rings
  PROVE  /\ Window(r) \in Seq(Message \cup {None})
         /\ Len(Window(r)) = r.count
         /\ DOMAIN Window(r) = 1 .. r.count
<1>1. r.count \in Nat /\ r.count <= DeDupDepth /\ r.newest \in 0 .. DeDupDepth - 1
      /\ r.entries \in [0 .. DeDupDepth - 1 -> Message \cup {None}] /\ DeDupDepth \in Nat \ {0}
  BY DepthAssumption DEF Rings
<1>2. ASSUME NEW k \in 1 .. r.count PROVE r.entries[WRAPINDEX(r.newest + k - 1)] \in Message \cup {None}
  <2>1. r.newest + k - 1 \in 0 .. 2 * DeDupDepth - 1
    BY <1>1
  <2>2. WRAPINDEX(r.newest + k - 1) \in 0 .. DeDupDepth - 1
    BY <1>1, <2>1, WrapsOnce
  <2> QED
    BY <1>1, <2>2
<1>3. Window(r) \in [1 .. r.count -> Message \cup {None}]
  BY <1>2 DEF Window
<1> QED
  BY <1>1, <1>3

\* Adding a message puts it in front of the window.
LEMMA AddPushes ==
  ASSUME NEW r \in Rings, NEW m \in Message
  PROVE  /\ addToDeDup(r, m) \in Rings
         /\ Window(addToDeDup(r, m)) = Promise!Push(Window(r), m)
<1> DEFINE D == DeDupDepth
           a == addToDeDup(r, m)
           c == r.count
           n == r.newest
           e == r.entries
           y == INCOMINGINDEX(r)
<1>1. c \in 0 .. D /\ n \in 0 .. D - 1 /\ e \in [0 .. D - 1 -> Message \cup {None}] /\ D \in Nat \ {0}
  BY DepthAssumption DEF Rings
<1>2. y = IF n = 0 THEN D - 1 ELSE n - 1
  <2> DEFINE z == n + D - 1
  <2>1. z \in 0 .. 2 * DeDupDepth - 1 /\ z = n + D - 1
    BY <1>1
  <2>2. y = WRAPINDEX(z)
    BY DEF INCOMINGINDEX
  <2> HIDE DEF y, n, z
  <2>3. y = IF z < DeDupDepth THEN z ELSE z - DeDupDepth
    BY <2>1, <2>2, WrapsOnce
  <2> HIDE DEF D
  <2>4. y = IF z < D THEN z ELSE z - D
    BY <2>3 DEF D
  <2> QED
    BY <1>1, <2>1, <2>4
<1>3. y \in 0 .. D - 1
  BY <1>1, <1>2
<1>4. /\ a.entries = [e EXCEPT ![y] = m] /\ a.newest = y
      /\ a.count = IF c < D THEN c + 1 ELSE c
  BY DEF addToDeDup
<1>5. a \in Rings
  <2>1. [e EXCEPT ![y] = m] \in [0 .. D - 1 -> Message \cup {None}]
    BY <1>1, <1>3
  <2>2. (IF c < D THEN c + 1 ELSE c) \in 0 .. D
    BY <1>1
  <2> QED
    BY <2>1, <2>2, <1>3 DEF addToDeDup, Rings
<1>6. a.count = IF c < D THEN c + 1 ELSE D
  BY <1>1, <1>4
<1>7. ASSUME NEW k \in 1 .. a.count
      PROVE  a.entries[WRAPINDEX(a.newest + k - 1)] = IF k = 1 THEN m ELSE Window(r)[k - 1]
  <2> DEFINE z == y + k - 1
             v == n + (k - 1) - 1
  <2>1. k \in 1 .. D /\ k - 1 <= c
    BY <1>1, <1>6
  <2>2. z \in 0 .. 2 * DeDupDepth - 1 /\ z = y + k - 1
    BY <1>1, <1>3, <2>1
  <2>3. WRAPINDEX(z) = IF z < DeDupDepth THEN z ELSE z - DeDupDepth
    <3> HIDE DEF z
    <3> QED
      BY <2>2, WrapsOnce
  <2>4. a.entries[WRAPINDEX(a.newest + k - 1)] = [e EXCEPT ![y] = m][WRAPINDEX(z)]
    BY <1>4
  <2>5. CASE k = 1
    <3> HIDE DEF y, z, e, a
    <3>1. WRAPINDEX(z) = y
      BY <1>1, <1>3, <2>2, <2>3, <2>5
    <3> QED
      BY <1>1, <1>3, <2>4, <2>5, <3>1
  <2>6. CASE k # 1
    <3>1. k - 1 \in 1 .. c /\ v \in 0 .. 2 * DeDupDepth - 1 /\ v = n + (k - 1) - 1
      BY <1>1, <2>1, <2>6
    <3>2. WRAPINDEX(v) = IF v < DeDupDepth THEN v ELSE v - DeDupDepth
      <4> HIDE DEF v
      <4> QED
        BY <3>1, WrapsOnce
    <3>3. Window(r)[k - 1] = e[WRAPINDEX(v)]
      BY <3>1 DEF Window
    <3> HIDE DEF y, n, c, e, a, z, v
    <3>4. /\ WRAPINDEX(z) = WRAPINDEX(v) /\ WRAPINDEX(z) # y
          /\ WRAPINDEX(z) \in 0 .. D - 1
      BY <1>1, <1>2, <2>1, <2>2, <2>3, <2>6, <3>1, <3>2, SMTT(30)
    <3> QED
      BY <1>1, <2>4, <2>6, <3>3, <3>4
  <2> QED
    BY <2>5, <2>6
<1>8. Window(a) = [k \in 1 .. a.count |-> IF k = 1 THEN m ELSE Window(r)[k - 1]]
  BY <1>7 DEF Window
<1>9. Len(Window(r)) = c
  BY WindowIsSequence
<1> HIDE DEF a
<1>10. Window(a) = Promise!Push(Window(r), m)
  BY <1>6, <1>8, <1>9 DEF Promise!Push
<1> QED
  BY <1>5, <1>10 DEF a

\* The list is searched like the window.
LEMMA SearchesWindow ==
  ASSUME NEW r \in Rings, NEW m \in Message
  PROVE  isInDeDupList(r, m) = Promise!InWindow(Window(r), m)
BY WindowIsSequence DEF isInDeDupList, Promise!InWindow

State(R, L) == [ring |-> R, lan |-> L]

\* Reception takes the message as DeDup does, or drops it.
Taken(Q, R, m) == Window(Q) = Window(R) \/ Window(Q) = Promise!Take(Window(R), m)

LEMMA ReceptionTakes ==
  ASSUME NEW R \in Rings, NEW L, NEW m \in Message, NEW now
  PROVE  \E Q, K : /\ packetReceivedFromOlsr(State(R, L), m, now) = State(Q, K)
                   /\ Q \in Rings /\ Taken(Q, R, m)
<1> DEFINE s == State(R, L)
           Q == addToDeDup(R, m)
           t == State(Q, L)
           text == gpsFromOlsr(m, now)
<1>1. CASE (~UseLoopback /\ m.orig = MainAddr) \/ isInDeDupList(R, m)
  <2>1. packetReceivedFromOlsr(s, m, now) = s
    BY <1>1 DEF packetReceivedFromOlsr, State
  <2> QED
    BY <2>1 DEF Taken
<1>2. CASE ~((~UseLoopback /\ m.orig = MainAddr) \/ isInDeDupList(R, m))
  <2>1. [s EXCEPT !.ring = addToDeDup(@, m)] = t
    BY DEF State
  <2>2. packetReceivedFromOlsr(s, m, now) = sendToAllTxInterfaces([s EXCEPT !.ring = addToDeDup(@, m)], m, text)
    BY <1>2 DEF packetReceivedFromOlsr, State
  <2>3. packetReceivedFromOlsr(s, m, now) = sendToAllTxInterfaces(t, m, text)
    BY <2>1, <2>2
  <2>4. Q \in Rings /\ Window(Q) = Promise!Take(Window(R), m)
    <3>1. ~Promise!InWindow(Window(R), m)
      BY <1>2, SearchesWindow
    <3>2. Promise!Take(Window(R), m) = Promise!Push(Window(R), m)
      BY <3>1 DEF Promise!Take
    <3> QED
      BY <3>2, AddPushes
  <2> HIDE DEF Q, text
  <2>5. \E K : sendToAllTxInterfaces(t, m, text) = State(Q, K)
    <3>1. CASE text = {} \/ txList = <<>>
      BY <3>1 DEF sendToAllTxInterfaces
    <3>2. CASE ~(text = {} \/ txList = <<>>)
      BY <3>2, Zenon DEF sendToAllTxInterfaces, State
    <3> QED
      BY <3>1, <3>2
  <2> QED
    BY <2>3, <2>4, <2>5 DEF Taken
<1> QED
  BY <1>1, <1>2

\* What one message of a downlink packet does to the list.
LEMMA DownlinkTakes ==
  ASSUME NEW st, st.ring \in Rings, NEW x, x.msg \in Message, NEW now,
         st = [ring |-> st.ring, lan |-> st.lan, going |-> st.going, pending |-> st.pending]
  PROVE  LET d == DownlinkMessage(st, x, now)
         IN /\ d.ring \in Rings /\ Taken(d.ring, st.ring, x.msg)
            /\ d = [ring |-> d.ring, lan |-> d.lan, going |-> d.going, pending |-> d.pending]
<1> DEFINE d == DownlinkMessage(st, x, now)
<1>1. CASE ~st.going \/ x.kind = "other"
  <2>1. d = st
    BY <1>1 DEF DownlinkMessage
  <2> HIDE DEF d
  <2> QED
    BY <2>1 DEF Taken, d
<1>2. CASE ~(~st.going \/ x.kind = "other") /\ x.kind = "short"
  <2>1. d = [ring |-> st.ring, lan |-> st.lan, going |-> FALSE, pending |-> st.pending]
    BY <1>2, Zenon DEF DownlinkMessage
  <2>2. d.ring = st.ring
    BY <2>1
  <2>3. d = [ring |-> d.ring, lan |-> d.lan, going |-> d.going, pending |-> d.pending]
    BY <2>1
  <2> HIDE DEF d
  <2> QED
    BY <2>2, <2>3 DEF Taken, d
<1>3. CASE ~(~st.going \/ x.kind = "other") /\ x.kind # "short"
  <2> DEFINE s == packetReceivedFromOlsr(State(st.ring, st.lan), x.msg, now)
             p == IF SmartGw THEN Pushed(st.pending) ELSE st.pending
  <2>1. PICK Q, K : s = State(Q, K) /\ Q \in Rings /\ Taken(Q, st.ring, x.msg)
    BY ReceptionTakes
  <2>2. d = [ring |-> s.ring, lan |-> s.lan, going |-> TRUE, pending |-> p]
    BY <1>3 DEF DownlinkMessage, State
  <2> HIDE DEF s, p, d
  <2>3. s.ring = Q
    BY <2>1 DEF State
  <2>4. d.ring = Q /\ d = [ring |-> d.ring, lan |-> d.lan, going |-> d.going, pending |-> d.pending]
    BY <2>2, <2>3
  <2> QED
    BY <2>1, <2>4 DEF d
<1> QED
  BY <1>1, <1>2, <1>3
----------------------------------------------------------------------------
\* Whatever the plugin does, the list takes at most two messages, one after the
\* other, each as DeDup does.
LEMMA StepTakes ==
  ASSUME RingType, [Next]_vars
  PROVE  RingType' /\ [Promise!Next]_(Window(ring))
<1>0. Here = State(ring, lan) /\ ring \in Rings
  BY DEF Here, State, RingType
<1>1. ASSUME NEW m \in Message, RingType', Taken(ring', ring, m)
      PROVE  [Promise!Next]_(Window(ring))
  BY <1>1 DEF Taken, Promise!Next
<1>2. CASE ReceiveFromOlsr
  <2>1. PICK m, now : m \in Message /\ Apply(packetReceivedFromOlsr(Here, m, now))
    BY <1>2 DEF ReceiveFromOlsr
  <2>2. PICK Q, K : packetReceivedFromOlsr(Here, m, now) = State(Q, K) /\ Q \in Rings /\ Taken(Q, ring, m)
    BY <1>0, <2>1, ReceptionTakes
  <2>3. ring' = Q
    BY <2>1, <2>2 DEF Apply, State
  <2>4. RingType' /\ Taken(ring', ring, m)
    BY <2>2, <2>3 DEF RingType
  <2> QED
    BY <1>1, <2>1, <2>4
<1>3. CASE Transmit
  <2> DEFINE m == [orig |-> MainAddr, seq |-> seqno + 1]
  <2>1. m \in Message
    BY <1>3, MainAddrAssumption DEF Transmit, Message
  <2>2. PICK now : Apply(IF UseLoopback THEN packetReceivedFromOlsr(Here, m, now) ELSE Here)
    BY <1>3 DEF Transmit
  <2> HIDE DEF m
  <2>3. CASE UseLoopback
    <3>1. PICK Q, K : packetReceivedFromOlsr(Here, m, now) = State(Q, K) /\ Q \in Rings /\ Taken(Q, ring, m)
      BY <1>0, <2>1, ReceptionTakes
    <3>2. ring' = Q
      BY <2>2, <2>3, <3>1 DEF Apply, State
    <3>3. RingType' /\ Taken(ring', ring, m)
      BY <3>1, <3>2 DEF RingType
    <3> QED
      BY <1>1, <2>1, <3>3
  <2>4. CASE ~UseLoopback
    <3>1. ring' = ring
      BY <2>2, <2>4 DEF Apply, Here
    <3> QED
      BY <3>1 DEF RingType
  <2> QED
    BY <2>3, <2>4
<1>4. CASE packetReceivedFromDownlink
  <2> DEFINE st == [ring |-> ring, lan |-> lan, going |-> TRUE, pending |-> pending]
             Msgs(m) == {n \in Message : n = m \/ (n.orig = m.orig /\ n.seq = 1)}
  <2>1. PICK m, now, pkt :
          /\ m \in Message /\ pkt \in Packets(Msgs(m))
          /\ LET first == DownlinkMessage(st, pkt[1], now)
                 last == IF Len(pkt) = 1 THEN first ELSE DownlinkMessage(first, pkt[2], now)
             IN Apply(last)
    BY <1>4, Zenon DEF packetReceivedFromDownlink
  <2> DEFINE first == DownlinkMessage(st, pkt[1], now)
             second == DownlinkMessage(first, pkt[2], now)
  <2>2. Len(pkt) \in 1 .. 2 /\ \A k \in 1 .. Len(pkt) : pkt[k].msg \in Message
    <3>1. PICK n \in 1 .. 2 : pkt \in [1 .. n -> [kind : Kinds, msg : Msgs(m)]]
      BY <2>1 DEF Packets
    <3>2. Len(pkt) = n
      BY <3>1
    <3> QED
      BY <3>1, <3>2
  <2>3. /\ st.ring \in Rings /\ st.ring = ring
        /\ st = [ring |-> st.ring, lan |-> st.lan, going |-> st.going, pending |-> st.pending]
    BY DEF RingType
  <2>4. /\ first.ring \in Rings /\ Taken(first.ring, ring, pkt[1].msg)
        /\ first = [ring |-> first.ring, lan |-> first.lan, going |-> first.going, pending |-> first.pending]
    <3>1. pkt[1].msg \in Message
      BY <2>2
    <3> HIDE DEF st
    <3> QED
      BY <2>3, <3>1, DownlinkTakes
  <2>5. CASE Len(pkt) = 1
    <3>1. ring' = first.ring
      BY <2>1, <2>5 DEF Apply
    <3> HIDE DEF first
    <3>2. RingType' /\ Taken(ring', ring, pkt[1].msg) /\ pkt[1].msg \in Message
      BY <2>2, <2>4, <3>1 DEF RingType
    <3> QED
      BY <1>1, <3>2
  <2>6. CASE Len(pkt) = 2
    <3>1. ring' = second.ring
      BY <2>1, <2>6 DEF Apply
    <3>2. pkt[1].msg \in Message /\ pkt[2].msg \in Message
      BY <2>2, <2>6
    <3> HIDE DEF first
    <3>3. second.ring \in Rings /\ Taken(second.ring, first.ring, pkt[2].msg)
      BY <2>4, <3>2, DownlinkTakes
    <3> HIDE DEF second
    <3>4. RingType' /\ Taken(ring', first.ring, pkt[2].msg)
      BY <3>1, <3>3 DEF RingType
    <3> DEFINE w == Window(ring)
               v == Window(first.ring)
               u == Window(ring')
    <3>5. v = w \/ v = Promise!Take(w, pkt[1].msg)
      BY <2>4 DEF Taken
    <3>6. u = v \/ u = Promise!Take(v, pkt[2].msg)
      BY <3>4 DEF Taken
    <3>7. \/ u = w \/ u = Promise!Take(w, pkt[1].msg) \/ u = Promise!Take(w, pkt[2].msg)
          \/ u = Promise!Take(Promise!Take(w, pkt[1].msg), pkt[2].msg)
      <4> HIDE DEF u, v, w
      <4> QED
        BY <3>5, <3>6
    <3>8. Window(ring)' = u
      OBVIOUS
    <3> QED
      BY <3>2, <3>4, <3>7, <3>8 DEF Promise!Next
  <2> QED
    BY <2>2, <2>5, <2>6
<1>5. CASE net_output \/ Start \/ closeNetworkInterfaces \/ UNCHANGED vars
  <2>1. ring' = ring
    BY <1>5, Zenon DEF net_output, Start, closeNetworkInterfaces, vars
  <2> QED
    BY <2>1 DEF RingType
<1> QED
  BY <1>2, <1>3, <1>4, <1>5 DEF Next

\* The ring starts empty.
LEMMA StartsEmpty == Init => RingType /\ Promise!Init
<1> SUFFICES ASSUME Init PROVE RingType /\ Promise!Init
  OBVIOUS
<1>1. ring = initDeDupList /\ DeDupDepth \in Nat \ {0}
  BY DepthAssumption DEF Init
<1>2. ring \in Rings
  BY <1>1 DEF initDeDupList, Rings
<1>3. Window(ring) = <<>>
  <2>1. ring.count = 0
    BY <1>1 DEF initDeDupList
  <2>2. 1 .. ring.count = {}
    BY <2>1
  <2> QED
    BY <1>2, <2>1, <2>2, WindowIsSequence
<1> QED
  BY <1>2, <1>3 DEF RingType, Promise!Init

\* The ring of dedup.c, searched and filled from the newest entry downwards,
\* implements the window of the last DeDupDepth messages taken, for every depth
\* and whatever reaches the plugin over the mesh, the downlink and the loopback.
THEOREM RingImplementsWindow == Spec => DeDupWindow
<1>1. Init => RingType /\ Promise!Init
  BY StartsEmpty
<1>2. RingType /\ [Next]_vars => RingType' /\ [Promise!Next]_(Window(ring))
  BY StepTakes
<1> QED
  BY <1>1, <1>2, PTL DEF Spec, DeDupWindow, Promise!Spec
----------------------------------------------------------------------------
\* Distinct messages, no more than the depth.
Distinct(w) ==
  /\ w \in Seq(Message \cup {None}) /\ Len(w) <= DeDupDepth
  /\ \A i, j \in DOMAIN w : w[i] = w[j] => i = j

\* A window stays one of distinct messages.
LEMMA TakeKeepsDistinct ==
  ASSUME NEW w, Distinct(w), NEW m \in Message
  PROVE  Distinct(Promise!Take(w, m))
<1> DEFINE n == IF Len(w) < DeDupDepth THEN Len(w) + 1 ELSE DeDupDepth
           p == [k \in 1 .. n |-> IF k = 1 THEN m ELSE w[k - 1]]
<1>1. CASE Promise!InWindow(w, m)
  BY <1>1 DEF Promise!Take
<1>2. CASE ~Promise!InWindow(w, m)
  <2>1. Promise!Take(w, m) = p
    BY <1>2 DEF Promise!Take, Promise!Push
  <2>2. w \in Seq(Message \cup {None}) /\ Len(w) \in Nat /\ DOMAIN w = 1 .. Len(w) /\ Len(w) <= DeDupDepth
        /\ DeDupDepth \in Nat \ {0}
    BY DepthAssumption DEF Distinct
  <2>3. n \in Nat /\ n <= DeDupDepth /\ n - 1 <= Len(w)
    BY <2>2
  <2>4. \A k \in 1 .. n : k # 1 => k - 1 \in 1 .. Len(w)
    BY <2>2, <2>3
  <2> HIDE DEF n
  <2>5. p \in [1 .. n -> Message \cup {None}]
    BY <2>2, <2>4
  <2>6. p \in Seq(Message \cup {None}) /\ Len(p) = n /\ DOMAIN p = 1 .. n
    BY <2>3, <2>5
  <2>7. ASSUME NEW i \in 1 .. n, NEW j \in 1 .. n, p[i] = p[j] PROVE i = j
    <3>1. \A k \in 1 .. Len(w) : w[k] # m
      BY <1>2, <2>2 DEF Promise!InWindow
    <3>2. CASE i = 1 \/ j = 1
      BY <2>4, <2>7, <3>1, <3>2
    <3>3. CASE i # 1 /\ j # 1
      <4>1. w[i - 1] = w[j - 1] /\ i - 1 \in DOMAIN w /\ j - 1 \in DOMAIN w
        BY <2>2, <2>4, <2>7, <3>3
      <4>2. i - 1 = j - 1
        BY <4>1 DEF Distinct
      <4> QED
        BY <4>2
    <3> QED
      BY <3>2, <3>3
  <2> HIDE DEF p
  <2>8. Distinct(p)
    BY <2>3, <2>6, <2>7 DEF Distinct
  <2> QED
    BY <2>1, <2>8
<1> QED
  BY <1>1, <1>2

\* No copy of a message gets into the list while the message is in it: what
\* DeDup promises of its window holds of the ring.
THEOREM NoCopyInList == Spec => []Promise!Once
<1> DEFINE Inv == RingType /\ Distinct(Window(ring))
<1>1. Init => Inv
  <2> SUFFICES ASSUME Init PROVE Inv
    OBVIOUS
  <2>1. RingType /\ Window(ring) = <<>>
    BY StartsEmpty DEF Promise!Init
  <2>2. Distinct(<<>>)
    BY DepthAssumption DEF Distinct
  <2> QED
    BY <2>1, <2>2
<1>2. Inv /\ [Next]_vars => Inv'
  <2> SUFFICES ASSUME Inv, [Next]_vars PROVE Inv'
    OBVIOUS
  <2>1. RingType' /\ [Promise!Next]_(Window(ring))
    BY StepTakes
  <2>3. ASSUME NEW m \in Message, Window(ring)' = Promise!Take(Window(ring), m)
        PROVE  Distinct(Window(ring)')
    BY <2>3, TakeKeepsDistinct
  <2>4. ASSUME NEW m \in Message, NEW n \in Message,
               Window(ring)' = Promise!Take(Promise!Take(Window(ring), m), n)
        PROVE  Distinct(Window(ring)')
    BY <2>4, TakeKeepsDistinct
  <2>5. Distinct(Window(ring)')
    <3>1. CASE Promise!Next
      BY <2>3, <2>4, <3>1 DEF Promise!Next
    <3>2. CASE Window(ring)' = Window(ring)
      BY <3>2
    <3> QED
      BY <2>1, <3>1, <3>2
  <2> QED
    BY <2>1, <2>5 DEF Distinct
<1>3. Inv => Promise!Once
  BY DEF Distinct, Promise!Once
<1> QED
  BY <1>1, <1>2, <1>3, PTL DEF Spec

\* Nothing else is registered with the scheduler.
Registered == handlers = IF downlink THEN {"downlink"} ELSE {}

\* Every open socket is listed or is the downlink socket, and no closed socket
\* stays with the scheduler, however far a start got and however many
\* interfaces there are (networkInterfaces.c, createNetworkInterfaces and
\* closeNetworkInterfaces).
THEOREM SocketsAreOwned == Spec => []SocketsOwned
<1> DEFINE Inv == SocketsOwned /\ Registered
<1>1. Init => Inv
  BY DEF Init, SocketsOwned, Registered, closeInterfaces
<1>2. Inv /\ [Next]_vars => Inv'
  <2> SUFFICES ASSUME Inv, [Next]_vars PROVE Inv'
    OBVIOUS
  <2>1. ASSUME NEW k \in 0 .. Len(TxNames), NEW c \in BOOLEAN, createNetworkInterfaces(k, c) PROVE Inv'
    <3>1. closeInterfaces(SubSeq(TxNames, 1, k)) = {Socket(i) : i \in 1 .. k}
      <4> DEFINE s == SubSeq(TxNames, 1, k)
      <4>1. Len(TxNames) \in Nat /\ k \in Nat /\ k <= Len(TxNames)
        BY TxNamesAssumption
      <4>2. s \in Seq(STRING) /\ Len(s) = k /\ \A i \in 1 .. k : s[i] = TxNames[i]
        BY <4>1, TxNamesAssumption
      <4>3. DOMAIN s = 1 .. k
        BY <4>2
      <4> HIDE DEF s
      <4>4. closeInterfaces(s) = {Socket(i) : i \in 1 .. k}
        BY <4>2, <4>3 DEF closeInterfaces, Socket
      <4> QED
        BY <4>4 DEF s
    <3>2. fds' = {Socket(i) : i \in 1 .. k} \cup (IF c /\ UplinkSet THEN {"downlink"} ELSE {})
      BY <2>1 DEF createNetworkInterfaces, createTxSocketFailed, createDownlinkSocketFailed
    <3>3. /\ txList' = SubSeq(TxNames, 1, k) /\ downlink' = (c /\ UplinkSet)
          /\ handlers' = IF c /\ UplinkSet THEN {"downlink"} ELSE {}
      BY <2>1 DEF createNetworkInterfaces
    <3> QED
      BY <3>1, <3>2, <3>3, Zenon DEF SocketsOwned, Registered
  <2>2. CASE Start
    <3>1. Len(TxNames) \in 0 .. Len(TxNames)
      BY TxNamesAssumption
    <3> QED
      BY <2>1, <2>2, <3>1, Zenon DEF Start
  <2>3. CASE closeNetworkInterfaces
    <3>1. closeInterfaces(<<>>) = {}
      BY DEF closeInterfaces
    <3> QED
      BY <2>3, <3>1 DEF closeNetworkInterfaces, SocketsOwned, Registered
  <2>4. CASE Unmoved
    BY <2>4 DEF Unmoved, SocketsOwned, Registered, closeInterfaces
  <2>5. CASE UNCHANGED vars
    BY <2>5 DEF vars, SocketsOwned, Registered, closeInterfaces
  <2> QED
    BY <2>2, <2>3, <2>4, <2>5
    DEF Next, ReceiveFromOlsr, packetReceivedFromDownlink, Transmit, net_output
<1>3. Inv => SocketsOwned
  OBVIOUS
<1> QED
  BY <1>1, <1>2, <1>3, PTL DEF Spec
-----------------------------------------------------------------------------
(* The half of the plugin that determines the node's own position and      *)
(* movement.  Only its phase shares a name with a variable of PudNet.      *)

CONSTANTS Depth, ReadsPerSec, Reports, Files, Gateways, SpeedThreshold,
          DistanceThreshold, DopMultiplier, DefaultDop, DopFactor,
          HystToStationary, HystToMoving, Interval

VARIABLES posPhase, conn, cnt, gpnonPrev, list, st, tx, timer, held, stamp, out, sent

Position == INSTANCE Pud WITH phase <- posPhase

\* The movement state of the whole agrees with those of its parts.
Agrees(s) ==
  /\ s.sub = [k \in Position!SubState |-> s.sub[k]]
  /\ \A k \in Position!SubState : s.sub[k].external \in Position!Movement
  /\ s.external \in Position!Movement
  /\ s.external = "MOVING" <=> \E k \in Position!SubState : s.sub[k].external = "MOVING"

\* The timers that depend on the state s run at its intervals.
AtIntervals(t, s) ==
  /\ t["olsr"] = Interval["olsr"][s.external]
  /\ UplinkSet => t["uplink"] = Interval["uplink"][s.external]

TimersHeld ==
  /\ timer = [t \in Position!TimerNames |-> timer[t]]
  /\ posPhase = "running" => Position!TimerNames \subseteq held
  /\ posPhase # "running" => timer = Position!NoTimer

Closed == posPhase = "closed" => held \subseteq {"parser"} /\ out = "absent"

MovementInv ==
  /\ Agrees(st)
  /\ posPhase = "running" => AtIntervals(timer, st)
  /\ TimersHeld
  /\ Closed

\* determineStateWithHysteresis keeps the parts and the whole in agreement and
\* says that the whole changed exactly when it did.
LEMMA HysteresisAgrees ==
  ASSUME NEW s, Agrees(s), NEW k \in Position!SubState, NEW moving, NEW gpnonChanged
  PROVE  LET d == Position!determineStateWithHysteresis(s, k, moving, gpnonChanged)
         IN  Agrees(d.st) /\ (d.changed <=> d.st.external # s.external)
<1> DEFINE n == Position!NextSub(s.sub[k], k, moving, gpnonChanged)
           sub == [s.sub EXCEPT ![k] = n]
           new == sub[k].external
           subChanged == new # s.sub[k].external
           transition == subChanged /\ (new = "MOVING" \/ \A j \in Position!SubState : sub[j].external = new)
           ext == IF transition THEN new ELSE s.external
           d == Position!determineStateWithHysteresis(s, k, moving, gpnonChanged)
<1>1. n.external \in Position!Movement
  BY DEF Agrees, Position!NextSub, Position!Movement
<1>2. d.st.sub = sub /\ d.st.external = ext /\ d.changed = (transition /\ s.external # new)
  BY Zenon DEF Position!determineStateWithHysteresis
<1> HIDE DEF n, d
<1>3. /\ sub = [j \in Position!SubState |-> IF j = k THEN n ELSE s.sub[j]]
      /\ new = n.external
  BY DEF Agrees
<1> HIDE DEF sub
<1>4. /\ sub = [j \in Position!SubState |-> sub[j]]
      /\ \A j \in Position!SubState : sub[j].external \in Position!Movement
      /\ \A j \in Position!SubState \ {k} : sub[j].external = s.sub[j].external
      /\ sub[k].external \in Position!Movement
  BY <1>1, <1>3, SMTT(30) DEF Agrees
<1>5. ext \in Position!Movement
  BY <1>4 DEF Agrees
<1>6. ext = "MOVING" <=> \E j \in Position!SubState : sub[j].external = "MOVING"
  BY <1>4 DEF Agrees, Position!Movement
<1>7. (transition /\ s.external # new) <=> ext # s.external
  OBVIOUS
<1> QED
  BY <1>2, <1>4, <1>5, <1>6, <1>7, Zenon DEF Agrees, d

\* A callback that determined the state restarts the timers if it changed.
LEMMA DeterminedKeeps ==
  ASSUME MovementInv, posPhase = "running", posPhase' = posPhase, held' = held,
         NEW k \in Position!SubState, NEW moving, NEW gpnonChanged, NEW t,
         Position!Determined(Position!determineStateWithHysteresis(st, k, moving, gpnonChanged), t)
  PROVE  MovementInv'
<1> DEFINE d == Position!determineStateWithHysteresis(st, k, moving, gpnonChanged)
<1>1. Agrees(d.st) /\ (d.changed <=> d.st.external # st.external)
  BY HysteresisAgrees DEF MovementInv
<1>2. /\ st' = d.st
      /\ IF d.changed THEN Position!doImmediateTransmit(t, d.st) ELSE timer' = timer
  BY DEF Position!Determined
<1> HIDE DEF d
<1>3. Agrees(st') /\ (~d.changed => st'.external = st.external)
  BY <1>1, <1>2
<1>4. timer = [n \in Position!TimerNames |-> timer[n]]
  BY DEF MovementInv, TimersHeld
<1>5. timer' = [n \in Position!TimerNames |-> timer'[n]] /\ AtIntervals(timer', st')
  <2>1. CASE ~d.changed
    BY <1>2, <1>3, <1>4, <2>1, SMTT(30) DEF MovementInv, AtIntervals
  <2>2. CASE d.changed
    <3>1. timer' = IF UplinkSet THEN [[timer EXCEPT !["olsr"] = Interval["olsr"][st'.external]]
                                        EXCEPT !["uplink"] = Interval["uplink"][st'.external]]
                   ELSE [timer EXCEPT !["olsr"] = Interval["olsr"][st'.external]]
      BY <1>2, <2>2, Zenon
      DEF Position!doImmediateTransmit, Position!restartUplinkTimer, Position!restartOlsrTimer,
          Position!restartUplinkTxTimer, Position!restartOlsrTxTimer
    <3>2. "olsr" \in Position!TimerNames /\ "uplink" \in Position!TimerNames
      BY DEF Position!TimerNames
    <3> QED
      BY <1>4, <3>1, <3>2, Zenon DEF AtIntervals
  <2> QED
    BY <2>1, <2>2, SMTT(30)
<1>6. TimersHeld' /\ Closed'
  BY <1>5 DEF MovementInv, TimersHeld, Closed
<1> QED
  BY <1>3, <1>5, <1>6, SMTT(30) DEF MovementInv, Agrees, AtIntervals

\* A plugin that is closed holds nothing, whatever it held.
LEMMA ClosedHoldsNothing ==
  ASSUME NEW h, Position!closePud(h), posPhase' = "closed", Agrees(st')
  PROVE  MovementInv'
<1>1. held' \subseteq {"parser"} /\ out' = "absent" /\ timer' = Position!NoTimer
  BY DEF Position!closePud, Position!Released, Position!stopReceiver
<1>2. timer' = [n \in Position!TimerNames |-> timer'[n]]
  BY <1>1 DEF Position!NoTimer
<1> QED
  BY <1>1, <1>2 DEF MovementInv, TimersHeld, Closed, Agrees, AtIntervals

\* A step that leaves state, timers and resources alone keeps the invariant.
LEMMA UnchangedKeeps ==
  ASSUME MovementInv, UNCHANGED <<posPhase, st, timer, held, out>>
  PROVE  MovementInv'
BY DEF MovementInv, TimersHeld, Closed, Agrees, AtIntervals, Position!NoTimer

LEMMA StartsInAgreement == Agrees(Position!initState) /\ Position!initState.external = "MOVING"
BY DEF Agrees, Position!initState, Position!SubState, Position!Movement

LEMMA InitMovement == Position!Init => MovementInv
<1> SUFFICES ASSUME Position!Init PROVE MovementInv
  OBVIOUS
<1>1. st = Position!initState /\ posPhase = "off" /\ timer = Position!NoTimer
  BY DEF Position!Init
<1>2. timer = [n \in Position!TimerNames |-> timer[n]]
  BY <1>1 DEF Position!NoTimer
<1> QED
  BY <1>1, <1>2, StartsInAgreement, SMTT(30) DEF MovementInv, TimersHeld, Closed

LEMMA StartMovement ==
  ASSUME Position!initPud
  PROVE  MovementInv'
<1>1. st' = Position!initState /\ Agrees(st') /\ st'.external = "MOVING"
  BY StartsInAgreement DEF Position!initPud, Agrees
<1>2. ASSUME posPhase' = "closed", NEW h, Position!closePud(h) PROVE MovementInv'
  BY <1>1, <1>2, ClosedHoldsNothing, SMTT(30)
<1>3. ASSUME posPhase' = "running",
             timer' = [Position!startReceiver(Position!initState) EXCEPT !["file"] = IF Files = {} THEN 0 ELSE 1],
             held' = Position!TimerNames \cup {"dedup", "regex", "list", "sockets", "parser"}
      PROVE  MovementInv'
  <2>1. /\ timer' = [n \in Position!TimerNames |-> timer'[n]]
        /\ timer'["olsr"] = Interval["olsr"]["MOVING"] /\ timer'["uplink"] = Interval["uplink"]["MOVING"]
    BY <1>3, StartsInAgreement, Zenon
    DEF Position!startReceiver, Position!restartGatewayTimer, Position!restartUplinkTimer,
        Position!restartOlsrTimer, Position!restartGpsdFetchTimer, Position!restartUplinkTxTimer,
        Position!restartOlsrTxTimer, Position!NoTimer, Position!TimerNames
  <2> QED
    BY <1>1, <1>3, <2>1, SMTT(30) DEF MovementInv, AtIntervals, TimersHeld, Closed, Agrees
<1> QED
  BY <1>2, <1>3, Zenon DEF Position!initPud

\* The movement state, the intervals of the timers and what is held stay in
\* step through every callback of the plugin, its start and its end.
LEMMA StepMovement == MovementInv /\ [Position!Next]_(Position!vars) => MovementInv'
<1> SUFFICES ASSUME MovementInv, [Position!Next]_(Position!vars) PROVE MovementInv'
  OBVIOUS
<1>1. ASSUME NEW n \in Position!TimerNames, timer[n] # 0 PROVE posPhase = "running"
  BY <1>1 DEF MovementInv, TimersHeld, Position!NoTimer
<1>2. CASE Position!initPud
  BY <1>2, StartMovement
<1>3. CASE Position!pud_fini
  <2>1. posPhase' = "closed" /\ Position!closePud(held) /\ st' = st
    BY <1>3 DEF Position!pud_fini
  <2>2. Agrees(st')
    BY <2>1 DEF MovementInv
  <2> QED
    BY <2>1, <2>2, ClosedHoldsNothing, SMTT(30)
<1>4. CASE Position!pud_gpsd_fetch_timer_callback
  <2>1. posPhase = "running" /\ posPhase' = posPhase /\ held' = held
    <3>1. timer["gpsd"] # 0 /\ posPhase' = posPhase /\ held' = held
      BY <1>4 DEF Position!pud_gpsd_fetch_timer_callback
    <3>2. "gpsd" \in Position!TimerNames
      BY DEF Position!TimerNames
    <3> QED
      BY <1>1, <3>1, <3>2, SMTT(30)
  <2>2. ASSUME NEW i, Position!receiverProcessIncomingEntry(i) PROVE MovementInv'
    <3>1. PICK moving, gpnonChanged, t :
            Position!Determined(Position!determineStateWithHysteresis(st, "POSITION", moving, gpnonChanged), t)
      BY <2>2, Zenon DEF Position!receiverProcessIncomingEntry
    <3>2. "POSITION" \in Position!SubState
      BY DEF Position!SubState
    <3> QED
      BY <2>1, <3>1, <3>2, DeterminedKeeps, SMTT(30)
  <2>3. CASE UNCHANGED <<st, timer, out>>
    BY <2>1, <2>3, UnchangedKeeps, SMTT(30)
  <2> QED
    BY <1>4, <2>2, <2>3, Zenon DEF Position!pud_gpsd_fetch_timer_callback
<1>5. CASE Position!pud_gateway_timer_callback
  <2>1. posPhase = "running" /\ posPhase' = posPhase /\ held' = held
    <3>1. timer["gateway"] # 0 /\ posPhase' = posPhase /\ held' = held
      BY <1>5 DEF Position!pud_gateway_timer_callback
    <3>2. "gateway" \in Position!TimerNames
      BY DEF Position!TimerNames
    <3> QED
      BY <1>1, <3>1, <3>2
  <2>2. PICK moving, t :
          Position!Determined(Position!determineStateWithHysteresis(st, "GATEWAY", moving, FALSE), t)
    BY <1>5, Zenon DEF Position!pud_gateway_timer_callback
  <2>3. "GATEWAY" \in Position!SubState
    BY DEF Position!SubState
  <2> QED
    BY <2>1, <2>2, <2>3, DeterminedKeeps, Zenon
<1>6. CASE Position!pud_olsr_tx_timer_callback \/ Position!pud_uplink_timer_callback
           \/ Position!pud_read_position_file \/ UNCHANGED Position!vars
  BY <1>6, UnchangedKeeps, Zenon
  DEF Position!pud_olsr_tx_timer_callback, Position!pud_uplink_timer_callback,
      Position!pud_read_position_file, Position!vars
<1> QED
  BY <1>2, <1>3, <1>4, <1>5, <1>6 DEF Position!Next

\* A running position plugin is moving exactly when its position or its gateway
\* is, and transmits at the interval of that state whichever callback changed
\* it last; for all intervals, hysteresis counts, depths of the average and
\* reports of the gps (state.c, receiver.c).
THEOREM TimersFollow == Position!Spec => []Position!TimersFollowState
<1>1. MovementInv => Position!TimersFollowState
  BY DEF MovementInv, Agrees, AtIntervals, Position!TimersFollowState
<1> QED
  BY <1>1, InitMovement, StepMovement, PTL DEF Position!Spec

\* A running timer has its cookie, and a closed plugin holds no timer, cookie
\* or output file, after a start that failed at any step as well (pud.c,
\* initPud and closePud).
THEOREM ClosesClean == Position!Spec => []Position!NothingLeft
<1>1. MovementInv => Position!NothingLeft
  BY DEF MovementInv, TimersHeld, Closed, Position!NothingLeft, Position!NoTimer
<1> QED
  BY <1>1, InitMovement, StepMovement, PTL DEF Position!Spec
=============================================================================
