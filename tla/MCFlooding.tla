------------------------------ MODULE MCFlooding ------------------------------
(* The duplicate set of a node by itself, with a small number space, window  *)
(* and clock, chosen so that numbers wrap, restarts happen and entries       *)
(* expire; and the forwarding of messages through the duplicate sets of five *)
(* nodes: na, nb, nc and nd in a line of wireless links, nx behind nc on an  *)
(* ethernet whose packets are smaller; and three routers that carry packets  *)
(* of hosts between two local networks with mdns or p2pd. The systems stand  *)
(* side by side.                                                             *)
EXTENDS DuplicateSet, FiniteSetsExt, TLC

CONSTANTS na, nb, nc, nd, nx, aw, bw, cw, dw, ce, xe

VARIABLES part, fDup, fBuffer, fAir, fSelectors, fStatus, fTcs, fFaults,
  fHandled, fQueued, tConf, tUp, tStopped, tIfs, tReady, tList, tGap,
  tHistory, tFilter, tSock, tFlight, tSeqno, tSent, tEntered, tSeen, tFaults

FNodes == {na, nb, nc, nd, nx}
FIfaces == {aw, bw, cw, dw, ce, xe}
MCOwner ==
  [i \in FIfaces |-> CASE i = aw -> na [] i = bw -> nb [] i \in {cw, ce} -> nc [] i = dw -> nd [] i = xe -> nx]
MCHears ==
  LET half == {<<aw, bw>>, <<bw, cw>>, <<cw, dw>>, <<ce, xe>>}
  IN  half \cup {<<l[2], l[1]>> : l \in half}
MCMode == [i \in FIfaces |-> IF i \in {ce, xe} THEN "ether" ELSE "mesh"]
MCMaxSize == [i \in FIfaces |-> IF i \in {ce, xe} THEN 1 ELSE 2]
MCImmediate == [i \in FIfaces |-> i = xe]
MCMaxTcs == [i \in FIfaces |-> CASE i = aw -> 2 [] i = xe -> 1 [] OTHER -> 0]
Place == [n \in FNodes |-> CASE n = na -> 1 [] n = nb -> 2 [] n \in {nc, nx} -> 3 [] n = nd -> 4]
MCWireless == [m \in FNodes |-> [n \in FNodes |-> Max({Place[m], Place[n]}) - Min({Place[m], Place[n]})]]
MCHops == [m \in FNodes |-> [n \in FNodes |->
             MCWireless[m][n] + (IF m # n /\ nx \in {m, n} THEN 1 ELSE 0)]]
On(ls) == [i \in DOMAIN ls |-> [lan |-> ls[i], named |-> TRUE]]
\* Router 2 joins both LANs, 1 and 3 one each; 3 has an interface that is not named.
Shared ==
  (1 :> On(<<"a">>)) @@ (2 :> On(<<"a", "b">>))
  @@ (3 :> <<[lan |-> "a", named |-> FALSE], [lan |-> "b", named |-> TRUE]>>)
Pair == (1 :> On(<<"a">>)) @@ (2 :> On(<<"a">>)) @@ (3 :> On(<<"b">>))
Apart == (1 :> On(<<"a">>)) @@ (2 :> On(<<"b">>)) @@ (3 :> <<>>)
Port(name, v6) == [port |-> name, v6 |-> v6, multi |-> TRUE, valid |-> TRUE]
TGame ==
  [name |-> "p", lan |-> "a", udp |-> TRUE, frag |-> FALSE, multi |-> TRUE, port |-> "game", ttl |-> 3,
   filtered |-> FALSE, long |-> TRUE, local |-> FALSE, fits |-> TRUE, intact |-> TRUE]
Service == [TGame EXCEPT !.port = "mdns"]
TPlain ==
  [plugin |-> "p2pd", v6 |-> FALSE, check |-> FALSE, hash |-> FALSE, decrement |-> FALSE, ttl |-> 0, filter |-> FALSE,
   ports |-> <<Port("game", FALSE), Port("game", TRUE)>>, links |-> Pair, packets |-> {TGame}, most |-> 1]
Mdns == [TPlain EXCEPT !.plugin = "mdns", !.check = TRUE, !.ports = <<>>]
TConfigs ==
  {[TPlain EXCEPT !.links = Apart,
                  !.packets = {TGame, Service, [TGame EXCEPT !.frag = TRUE], [TGame EXCEPT !.udp = FALSE]}],
   [TPlain EXCEPT !.hash = TRUE, !.packets = {TGame, [TGame EXCEPT !.name = "o", !.lan = "b"]}, !.most = 2],
   [TPlain EXCEPT !.decrement = TRUE, !.packets = {TGame, [TGame EXCEPT !.ttl = 1]}],
   [TPlain EXCEPT !.decrement = TRUE, !.hash = TRUE, !.packets = {[TGame EXCEPT !.ttl = 2, !.long = FALSE]}],
   [TPlain EXCEPT !.v6 = TRUE, !.hash = TRUE, !.packets = {TGame, [TGame EXCEPT !.name = "o", !.local = TRUE]}],
   [TPlain EXCEPT !.ports = <<Port("game", FALSE), [Port("game", TRUE) EXCEPT !.multi = FALSE]>>],
   [Mdns EXCEPT !.links = Shared, !.most = 0],
   [Mdns EXCEPT !.packets = {Service}],
   [Mdns EXCEPT !.filter = TRUE, !.packets = {TGame, [Service EXCEPT !.filtered = TRUE], [Service EXCEPT !.ttl = 1]}],
   [Mdns EXCEPT !.v6 = TRUE, !.filter = TRUE, !.ttl = 1, !.packets = {Service, [Service EXCEPT !.fits = FALSE]}]}
THops == [r \in 1 .. 3 |-> [s \in 1 .. 3 |-> IF {r, s} = {1, 3} THEN 2 ELSE 1]]

fVars == <<fDup, fBuffer, fAir, fSelectors, fStatus, fTcs, fFaults, fHandled, fQueued>>
F == INSTANCE Forwarding WITH Nodes <- FNodes, Ifaces <- FIfaces,
  Owner <- MCOwner, Hears <- MCHears, Mode <- MCMode, MaxSize <- MCMaxSize,
  Immediate <- MCImmediate, HelloSize <- 1, TcSizes <- 1 .. 2,
  TtlList <- <<2, 6>>, MaxTtl <- 7, MaxTcs <- MCMaxTcs, MaxFaults <- 1,
  Hops <- MCHops, Wireless <- MCWireless, HalfSeq <- 4, Window <- 2,
  MaxTooLow <- 2, dup <- fDup, buffer <- fBuffer, air <- fAir,
  selectors <- fSelectors, status <- fStatus, tcs <- fTcs, faults <- fFaults,
  handled <- fHandled, queued <- fQueued

tVars == <<tConf, tUp, tStopped, tIfs, tReady, tList, tGap, tHistory, tFilter, tSock,
            tFlight, tSeqno, tSent, tEntered, tSeen, tFaults>>
T == INSTANCE Tunnels WITH Routers <- 1 .. 3, Lans <- {"a", "b"},
  Hops <- THops, Configs <- TConfigs, MaxTtl <- 7, HoldTime <- 4,
  DupTimeout <- 5, EntryTtl <- 5, Elections <- 2, MaxFaults <- 1,
  conf <- tConf, up <- tUp, stopped <- tStopped, ifs <- tIfs, ready <- tReady,
  list <- tList, gap <- tGap, history <- tHistory, filter <- tFilter,
  sock <- tSock, flight <- tFlight, seqno <- tSeqno, sent <- tSent,
  entered <- tEntered, seen <- tSeen, faults <- tFaults

allVars == <<part, vars, fVars, tVars>>

(* One of the systems runs; the others do not exist.                       *)
MCInit ==
  /\ part \in {"duplicates", "forwarding", "tunnels"}
  /\ Init
  /\ IF part = "forwarding" THEN F!Init
       ELSE /\ fDup = "none" /\ fBuffer = "none" /\ fAir = "none"
            /\ fSelectors = "none" /\ fStatus = "none" /\ fTcs = "none"
            /\ fFaults = "none" /\ fHandled = "none" /\ fQueued = "none"
  /\ IF part = "tunnels" THEN T!Init
       ELSE /\ tConf = "none" /\ tUp = "none" /\ tStopped = "none"
            /\ tIfs = "none" /\ tReady = "none" /\ tList = "none"
            /\ tGap = "none" /\ tHistory = "none" /\ tFilter = "none"
            /\ tSock = "none" /\ tFlight = "none" /\ tSeqno = "none"
            /\ tSent = "none" /\ tEntered = "none" /\ tSeen = "none"
            /\ tFaults = "none"

MCNext ==
  \/ part = "duplicates" /\ Next /\ UNCHANGED <<part, fVars, tVars>>
  \/ part = "forwarding" /\ F!Next /\ UNCHANGED <<part, vars, tVars>>
  \/ part = "tunnels" /\ T!Next /\ UNCHANGED <<part, vars, fVars>>

MCFairness ==
  /\ WF_fVars(part = "forwarding" /\ F!Work)
  /\ WF_tVars(part = "tunnels" /\ T!Work)
  /\ \A r \in 1 .. 3 :
       /\ WF_tVars(part = "tunnels" /\ T!InitTimer(r))
       /\ WF_tVars(part = "tunnels" /\ T!HelloTimer(r))
       /\ WF_tVars(part = "tunnels" /\ T!ElectTimer(r))
MCSpec == MCInit /\ [][MCNext]_allVars /\ MCFairness
-----------------------------------------------------------------------------
(* A message enters the buffer of an interface at most twice, however it is  *)
(* lost, repeated and echoed by other relays, and no node beyond its hop     *)
(* limit handles it; and no packet of a host is carried into the mesh again  *)
(* by a router that hears it from another one, nor put on a local network    *)
(* more often than its routers account for.                                  *)
NothingGoesRound == (part = "forwarding" => F!TypeOK /\ F!TwiceAtMost /\ F!Scoped) /\ (part = "tunnels" => T!TypeOK /\ T!NoRound)

(* Every flood comes to an end, nothing waits in a buffer for ever and no    *)
(* echo between relays keeps a message alive; and when it is over and there  *)
(* was no fault, every TC that fits has reached every node its hop limit     *)
(* covers. Packets of hosts come to rest too, and every local network has    *)
(* one master.                                                               *)
FloodEnds == <>[]((part = "forwarding" => ~F!Busy /\ F!Delivered) /\ (part = "tunnels" => T!AtRest))
=============================================================================
