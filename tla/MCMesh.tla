-------------------------------- MODULE MCMesh --------------------------------
(* The topology set of a node that gets TC messages of two nodes, where node *)
(* 2 sends messages with many numbers and any set of neighbours and node 4   *)
(* messages with one number and node 2 as neighbour; and four nodes that     *)
(* flood multicast packets with the BMF plugin.                              *)
EXTENDS TcSet

CONSTANTS Host, None

VARIABLES part, bMesh, bMpr, bCfg, bTcKnown, bHist, bPrune, bAir, bSent,
  bDelivered, bSeen, bLost, bTicks

MCNumbers(o, n) == IF o = 2 THEN 0 .. n ELSE {0}
MCNeighbours(o) == IF o = 2 THEN {1, 4} ELSE {2}
MCBorders == {0, 255}    (* NoBorder and FullBorder *)
MCMessages(o) ==
  {m \in UNION {[seq : MCNumbers(o, 1), ansn : MCNumbers(o, 1), adv : [S -> {1}],
                 lower : MCBorders, upper : MCBorders] : S \in SUBSET MCNeighbours(o)} : m.lower = m.upper}

Sym(f) == [x \in DOMAIN f \cup {<<y[2], y[1], y[3]>> : y \in DOMAIN f} |->
             IF x \in DOMAIN f THEN f[x] ELSE f[<<x[2], x[1], x[3]>>]]
(* Edges in "dear" cost 3, the others 1; edges in "second" are on channel 2.*)
Mesh(links, dear, second) ==
  LET w == [e \in links |-> IF e \in dear THEN 3 ELSE 1]
  IN  Sym([x \in {<<e[1], e[2], IF e \in second THEN 2 ELSE 1>> : e \in links} |->
             w[<<x[1], x[2]>>]])
Ring == {<<1, 2>>, <<2, 3>>, <<3, 4>>, <<1, 4>>}
Triangle == {<<1, 2>>, <<2, 3>>, <<1, 3>>}
Large == {Mesh(Ring, {}, {<<2, 3>>}), Mesh(Ring \cup {<<1, 3>>}, {<<1, 3>>}, {}),
          Mesh(Ring \cup {<<1, 3>>}, {<<1, 4>>, <<1, 3>>}, {<<3, 4>>})}
Small == Mesh(Triangle, {<<1, 3>>}, {<<2, 3>>})
Config(q, u, l, k) ==
  [lq |-> q, promisc |-> u, fanout |-> IF q THEN 1 ELSE 0, capture |-> q # u,
   bcast |-> TRUE, lan |-> l, events |-> k]
NoLan == [n \in 1 .. 4 |-> {}]
OneLan == [n \in 1 .. 4 |-> IF n \in {2, 3} THEN {1} ELSE {}]
MCSettings ==
  {[mesh |-> g, cfg |-> Config(q, u, NoLan, 1)] : g \in Large, q \in BOOLEAN, u \in BOOLEAN}
  \cup {[mesh |-> Small, cfg |-> Config(q, u, OneLan, 2)] : q \in BOOLEAN, u \in BOOLEAN}
MCPackets == {[id |-> 1, dst |-> <<"mc", 0>>, src |-> 1, on |-> <<"tun", 1>>],
              [id |-> 3, dst |-> <<"mc", 0>>, src |-> 2, on |-> <<"chan", 1>>],
              [id |-> 2, dst |-> <<"bc", <<"lan", 1>>>>, src |-> Host, on |-> <<"lan", 1>>]}

bVars == <<bMesh, bMpr, bCfg, bTcKnown, bHist, bPrune, bAir, bSent, bDelivered, bSeen,
            bLost, bTicks>>
B == INSTANCE Bmf WITH Nodes <- 1 .. 4, Chans <- {1, 2},
  Settings <- MCSettings, Packets <- MCPackets, Hold <- 3, PruneEvery <- 3,
  MaxTicks <- 6, mesh <- bMesh, mpr <- bMpr, cfg <- bCfg, tcKnown <- bTcKnown,
  hist <- bHist, prune <- bPrune, air <- bAir, sent <- bSent,
  delivered <- bDelivered, seen <- bSeen, lost <- bLost, ticks <- bTicks

allVars == <<part, vars, bVars>>

(* One of the systems runs; the others do not exist.                       *)
MCInit ==
  /\ part \in {"topology", "bmf"}
  /\ Init
  /\ IF part = "bmf" THEN B!Init
       ELSE /\ bMesh = "none" /\ bMpr = "none" /\ bCfg = "none"
            /\ bTcKnown = "none" /\ bHist = "none" /\ bPrune = "none"
            /\ bAir = "none" /\ bSent = "none" /\ bDelivered = "none"
            /\ bSeen = "none" /\ bLost = "none" /\ bTicks = "none"

MCNext ==
  \/ part = "topology" /\ Next /\ UNCHANGED <<part, bVars>>
  \/ part = "bmf" /\ B!Next /\ UNCHANGED <<part, vars>>

MCSpec == MCInit /\ [][MCNext]_allVars
-----------------------------------------------------------------------------
(* A multicast packet is delivered on a node no more often than applications *)
(* sent it, whatever is lost and overtakes.                                  *)
MulticastOnce == part = "bmf" => B!TypeOK /\ B!MulticastOnce

(* When no frame was lost and the flood is over, every node that is          *)
(* connected with the sender has seen the packet.                            *)
Everyone == part = "bmf" => B!Everyone
=============================================================================
