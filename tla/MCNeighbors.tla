----------------------------- MODULE MCNeighbors -----------------------------
(* A node and its neighbours: the tables of links, neighbours and two-hop    *)
(* neighbours, on the instance of MCNeighborhood; the messages a node makes  *)
(* of such tables, with three neighbours on two interfaces, the first        *)
(* neighbour with two addresses; and the quality of links under every        *)
(* algorithm, with two links for the algorithms that treat all links         *)
(* together, one of them on an ethernet interface.                           *)
EXTENDS MCNeighborhood, Sequences

VARIABLES part, gCnf, gLinks, gNbrs, gHnas, gBandwidth, gPort, gWindow,
  gSending, gEmptyTc, gSteps, gTold, gLeft, qHandler, qPeer, qLink, qSilent,
  qLostRun, qMoved, qChanged

MCNbrs(p) == [n \in 1 .. 3 |-> [sym |-> n <= p + 1, mpr |-> n = p, sel |-> n # p]]
MCLink(a, n, h, t) == [addr |-> a, nbr |-> n, here |-> h, link |-> t]
MCLists(types) ==
  {<<MCLink(1, 1, h1, t1), MCLink(2, 2, h2, t2), MCLink(3, 3, TRUE, t3), MCLink(11, 1, h1, t2)>> :
     h1 \in BOOLEAN, h2 \in BOOLEAN, t1 \in types, t2 \in types, t3 \in types}
  \cup {<<>>, <<MCLink(1, 1, FALSE, 2), MCLink(1, 1, TRUE, 2)>>}
MCSizes(v6) == IF v6 THEN {48, 64, 88} ELSE {24, 32, 44}
MCConfig(v6, lq, s, g) ==
  [v6 |-> v6, lq |-> lq, maxsize |-> s, redundancy |-> s % 3, sgw |-> g, immediate |-> s = 32 \/ s = 64,
   main |-> 1, ifs |-> IF g THEN <<1>> ELSE <<1, 12, 13>>]
MCSteps(h, t, m, n, c, b) == [hello |-> h, tc |-> t, mid |-> m, hna |-> n, net |-> c, nbr |-> b]
(* Link types: 1 ASYM, 2 SYM, 3 LOST, 4 HIDE.                               *)
MCNodes ==
  UNION {
    {[cnf |-> MCConfig(v6, lq, s, FALSE), links |-> l, nbrs |-> MCNbrs(p), hnas |-> <<>>,
      steps |-> MCSteps(1, IF lq THEN 0 ELSE 1, 1, 0, 0, 0), pending |-> r] :
       s \in {z + IF lq THEN 4 ELSE 0 : z \in MCSizes(v6)}, p \in 1 .. 2, r \in {0, 12},
       l \in MCLists(IF v6 \/ lq THEN {3, 2} ELSE {1, 2, 4})} :
    v6 \in BOOLEAN, lq \in BOOLEAN}
  \cup {[cnf |-> MCConfig(v6, FALSE, s, g), links |-> <<>>, nbrs |-> MCNbrs(1), hnas |-> h,
         steps |-> MCSteps(0, 0, 0, 5, 3, 0), pending |-> 0] :
          v6 \in BOOLEAN, s \in {60, 90}, g \in BOOLEAN, h \in {<<>>, <<0>>, <<5, 0, 6>>}}
  \cup {[cnf |-> MCConfig(FALSE, FALSE, 24, FALSE), links |-> <<>>, nbrs |-> MCNbrs(1), hnas |-> <<>>,
         steps |-> MCSteps(0, 5, 0, 0, 0, 4), pending |-> r] : r \in {0, 12}}

MCQualityLinks == [ff |-> {"e", "f"}, ffeth |-> {"w"}, nl80211 |-> {"w"}, fpm |-> {"w"},
                   float |-> {"w"}, hysteresis |-> {"w"}]
MCMultiplier == [l \in {"w", "e", "f"} |-> IF l # "f" THEN 65536 ELSE 49152]
MCDiffs == [w |-> {0, 1, 3, 300}, e |-> {0, 1, 3}, f |-> {1}]
MCMaxMissed == [w |-> 3, e |-> 1, f |-> 1]
MCStations == {[bandwidth |-> 540, signal |-> -60], [bandwidth |-> 3000, signal |-> -92]}

gVars == <<gCnf, gLinks, gNbrs, gHnas, gBandwidth, gPort, gWindow, gSending, gEmptyTc,
            gSteps, gTold, gLeft>>
G == INSTANCE Messages WITH Nodes <- MCNodes, MaxRemaining <- 70,
  HnaPeriod <- 2, HnaValidity <- 5, EmptyTcs <- 2, cnf <- gCnf,
  links <- gLinks, nbrs <- gNbrs, hnas <- gHnas, bandwidth <- gBandwidth,
  port <- gPort, window <- gWindow, sending <- gSending, emptyTc <- gEmptyTc,
  steps <- gSteps, told <- gTold, left <- gLeft

qVars == <<qHandler, qPeer, qLink, qSilent, qLostRun, qMoved, qChanged>>
Q == INSTANCE LinkQuality WITH Algorithms <- DOMAIN MCQualityLinks,
  Links <- MCQualityLinks, Ethernet <- {"e"}, Multiplier <- MCMultiplier,
  WINDOW <- 2, QUICKSTART_INIT <- 1, Aging <- 25, QuickSteps <- 2,
  HelloInterval <- 1, Diffs <- MCDiffs, ForeignLqs <- {255},
  Stations <- MCStations, MaxCount <- 1, MaxMissed <- MCMaxMissed,
  MaxRun <- 9, handler <- qHandler, peer <- qPeer, link <- qLink,
  silent <- qSilent, lostRun <- qLostRun, moved <- qMoved, changed <- qChanged

allVars == <<part, vars, gVars, qVars>>

(* One of the systems runs; the others do not exist.                       *)
MCInit ==
  /\ part \in {"neighborhood", "messages", "quality"}
  /\ Init
  /\ IF part = "messages" THEN G!Init
       ELSE /\ gCnf = "none" /\ gLinks = "none" /\ gNbrs = "none"
            /\ gHnas = "none" /\ gBandwidth = "none" /\ gPort = "none"
            /\ gWindow = "none" /\ gSending = "none" /\ gEmptyTc = "none"
            /\ gSteps = "none" /\ gTold = "none" /\ gLeft = "none"
  /\ IF part = "quality" THEN Q!Init
       ELSE /\ qHandler = "none" /\ qPeer = "none" /\ qLink = "none"
            /\ qSilent = "none" /\ qLostRun = "none" /\ qMoved = "none"
            /\ qChanged = "none"

MCNext ==
  \/ part = "neighborhood" /\ Next /\ UNCHANGED <<part, gVars, qVars>>
  \/ part = "messages" /\ G!Next /\ UNCHANGED <<part, vars, qVars>>
  \/ part = "quality" /\ Q!Next /\ UNCHANGED <<part, vars, gVars>>

MCSpec == MCInit /\ [][MCNext]_allVars
-----------------------------------------------------------------------------
(* Every packet fits, and the messages a generator made, read back, say      *)
(* exactly what was to be said, each entry once, however the buffer cut      *)
(* them.                                                                     *)
MessagesRoundTrip == part = "messages" => G!RoundTrip

(* A link on which nothing arrives any more soon costs too much to be used,  *)
(* whatever was lost, repeated and late before; and routes never rest on an  *)
(* old cost unless a calculation is due.                                     *)
DeadLink == part = "quality" => Q!DeadLink /\ Q!CostsUsed
=============================================================================
