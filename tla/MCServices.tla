------------------------------ MODULE MCServices ------------------------------
(* What is built around the protocol: the distribution of positions by the   *)
(* position plugin, with positions at a pole and at the 180th meridian just  *)
(* before midnight, one without altitude just after and one of another       *)
(* version; its average and its movement state; the plugin loader with       *)
(* parameter lines in every order; configuration files of a few statements   *)
(* over two interfaces, in IPv4 and IPv6; and the info plugins, over empty   *)
(* tables and tables with rows of every kind; and the NMEA sentences of      *)
(* positions, over a line that may damage a character. One of them runs at a *)
(* time.                                                                     *)
EXTENDS PudNet, TLC

CONSTANTS EmptySlot

VARIABLES part, pPhase, pConn, pCnt, pGpnonPrev, pList, pSt, pTx, pTimer,
  pHeld, pStamp, pOut, pSent, lPhase, lLines, lNext, lLoaded, lFailed, lCfg,
  lActive, cPhase, cP, cIfcnf, cSaid, cRead, cFiles, cGiven, cChanges, cCache,
  cWritten, nKind, nConf, nWorld, nCache, nSlot, nCount, nTimer, nConn, wKind,
  wConf, wWorld, wCache, wSlot, wCount, wTimer, wConn, sGen, sMask, sSrc,
  sSent, sStream, sLine, sFaults, sStarless, sParser, sInfo

MCSt(kw, args) == [kw |-> kw, args |-> args, names |-> <<>>, body |-> <<>>]
MCBlock(kw, names, body) == [kw |-> kw, args |-> <<>>, names |-> names, body |-> body]

EveryField == {"POS", "ELV", "SPEED", "HDOP"}
Report(present, when, lat, lon, alt, speed, hdop, valid, version) ==
  [present |-> present, when |-> when, lat |-> lat, lon |-> lon, alt |-> alt,
   speed |-> speed, hdop |-> hdop, valid |-> valid, version |-> version]

\* A pole and the 180th meridian with values beyond their ranges just before
\* midnight; a position without altitude just after; one of another version.
MCSample == <<Report(EveryField, 15, 90, 180, -450, 4100, 3000, 5, 1),
              Report({"POS"}, 16, -90, -180, 0, 0, 0, 60, 1),
              Report(EveryField, 20, 7, -33, 120, 30, 12, 60, 2)>>
MCDelays == {-7, -6, 0, 7}
MCNodeId == [a |-> [kind |-> "number", value |-> 13],
             b |-> [kind |-> "name", value |-> <<3, 1, 2>>]]
MCNodeIds == [a |-> [kind |-> "pair", value |-> <<9, 6>>],
              b |-> [kind |-> "mac", value |-> <<1, 2>>]]
MCAltMin == -400
MCTxNames == <<"lan0", "lan1">>

\* Standing still, and driving fast to the west.
Still3D == [fix |-> 3, val |-> ("POS" :> 0) @@ ("ELV" :> 0) @@ ("SPEED" :> 0)
                               @@ ("HDOP" :> 2) @@ ("VDOP" :> 2), track |-> 0]
Moved == [fix |-> 2, val |-> ("POS" :> 40) @@ ("SPEED" :> 8) @@ ("HDOP" :> 2),
          track |-> 270]
MCReports == {Still3D, Moved}
MCFiles == {[stamp |-> 1, ok |-> TRUE, fix |-> 2, val |-> ("POS" :> 0)]}
MCGateways == {[addr |-> 2, speed |-> 5]}
MCHyst == [POSITION |-> 2, GATEWAY |-> 1]
MCHystMoving == [POSITION |-> 1, GATEWAY |-> 1]
MCInterval == [olsr |-> [STATIONARY |-> 60, MOVING |-> 5],
               uplink |-> [STATIONARY |-> 180, MOVING |-> 15]]

MCVersion == [pud |-> 5, info |-> 5]
MCLoadOrder == <<"info", "pud">>
MCPlainLines == [kind : {"int", "long", "port", "boolean", "string", "ipaddress"},
                 v : {<<>>, <<1>>, <<99>>, <<70000>>}]
Line(key, v) == [key |-> key, v |-> v]
MCLines ==
  {Line("txNonOlsrIf", <<1>>), Line("txNonOlsrIf", <<2>>), Line("txMcAddr", <<7>>),
   Line("txMcAddr", <<3>>), Line("txMcPort", <<9>>), Line("uplinkAddr", <<5>>),
   Line("uplinkPort", <<9>>), Line("uplinkPort", <<0>>), Line("downlinkPort", <<9>>),
   Line("downlinkPort", <<>>), Line("updateIntervalMoving", <<0>>),
   Line("updateIntervalMoving", <<30>>), Line("updateIntervalStationary", <<20>>),
   Line("unknown", <<1>>), Line("nodeId", <<1, 5>>), Line("nodeId", <<-1, 99>>), Line("nodeId", <<3, -1>>)}
\* One line of every other parameter.
MCOtherLines ==
  {Line("txNonOlsrIf", <<1>>), Line("txTtl", <<0>>), Line("olsrTtl", <<300>>),
   Line("uplinkUpdateIntervalStationary", <<20>>), Line("uplinkUpdateIntervalMoving", <<2>>),
   Line("gatewayDeterminationInterval", <<3>>), Line("movingSpeedThreshold", <<3>>),
   Line("movingDistanceThreshold", <<3>>), Line("dopMultiplier", <<3>>), Line("defaultHdop", <<3>>),
   Line("defaultVdop", <<3>>), Line("averageDepth", <<0>>), Line("hysteresisToStationary", <<3>>),
   Line("hysteresisToMoving", <<3>>), Line("gatewayHysteresisToStationary", <<3>>),
   Line("gatewayHysteresisToMoving", <<3>>), Line("useDeDup", <<2>>), Line("deDupDepth", <<3>>),
   Line("useLoopback", <<1>>), Line("useGpsd", <<0>>), Line("positionFilePeriod", <<10>>),
   Line("positionFile", <<99>>), Line("positionOutputFile", <<1>>),
   Line("txNmeaMessagePrefix", <<1>>), Line("gpsd", <<1>>)}

\* Up to three lines that have to do with one another, in every order; every
\* other parameter on its own.
MCLineSeqs ==
  SeqOf(MCLines, 3) \cup UNION {{<<Line("txNonOlsrIf", <<1>>), l>>, <<l, Line("txNonOlsrIf", <<1>>)>>}
                               : l \in MCOtherLines}

I(n) == <<"INTEGER", n>>
B(b) == <<"BOOLEAN", b>>
Fl(x) == <<"FLOAT", x>>
Str(s) == <<"STRING", s>>
A4(a) == <<"IPV4_ADDR", a>>
A6(a) == <<"IPV6_ADDR", a>>
If(names, body) == MCBlock("Interface", names, body)

\* Interface blocks one by one, and runs of other statements.
MCPool == {
  <<If(<<"a">>, <<MCSt("HelloInterval", <<Fl(304)>>), MCSt("LinkQualityMult", <<A4(1), Fl(50)>>)>>)>>,
  <<If(<<"b">>, <<MCSt("HelloInterval", <<Fl(200)>>), MCSt("AutoDetectChanges", <<B(FALSE)>>)>>)>>,
  <<If(<<"b", "a">>, <<MCSt("TcInterval", <<Fl(700)>>), MCSt("Mode", <<Str("ether")>>)>>)>>,
  <<If(<<"a">>, <<MCSt("Weight", <<I(3)>>), MCSt("IPv6Src", <<A6(5), I(64)>>), MCSt("IPv4Src", <<A4(2)>>),
      MCSt("IPv6Multicast", <<A6(6)>>), MCSt("Ip4Broadcast", <<A4(2)>>), MCSt("HnaValidityTime", <<Fl(60000)>>)>>)>>,
  <<MCBlock("InterfaceDefaults", <<>>, <<MCSt("HelloInterval", <<Fl(500)>>),
      MCSt("LinkQualityMult", <<<<"DEFAULT", 0>>, Fl(80)>>)>>)>>,
  <<MCSt("IpVersion", <<I(6)>>), MCSt("MainIp", <<A6(9)>>), MCSt("SmartGatewayPrefix", <<A6(8), I(64)>>),
    MCBlock("Hna6", <<>>, <<MCSt("", <<A6(7), I(0)>>)>>), MCSt("RtProto", <<I(1)>>)>>,
  <<MCBlock("Hna4", <<>>, <<MCSt("", <<A4(0), I(0)>>), MCSt("", <<A4(3), I(24)>>)>>),
    MCBlock("LoadPlugin", <<"x">>, <<MCSt("PlParam", <<Str("k"), Str("v")>>), MCSt("PlParam", <<Str("k"), Str("w")>>)>>),
    MCBlock("LoadPlugin", <<"y">>, <<>>), MCBlock("LoadPlugin", <<"x">>, <<>>)>>,
  <<MCSt("SmartGateway", <<B(TRUE)>>), MCSt("RtTableTunnelPriority", <<I(32786)>>),
    MCSt("RtTable", <<I(256)>>), MCSt("RtTableDefault", <<I(200)>>), MCSt("SmartGatewaySpeed", <<I(1), I(2)>>),
    MCSt("SmartGatewayUplink", <<Str("ipv4")>>)>>,
  <<MCSt("RtTablePriority", <<I(100)>>), MCSt("RtTable", <<I(99)>>),
    MCSt("RtTableDefaultOlsrPriority", <<<<"NONE", 0>>>>), MCSt("RtTableTunnel", <<<<"AUTO", 0>>>>),
    MCSt("FIBMetric", <<Str("correct")>>), MCSt("NatThreshold", <<Fl(55)>>), MCSt("SetIpForward", <<B(FALSE)>>)>>,
  <<MCSt("SmartGatewayUseCount", <<I(2)>>), MCSt("SmartGatewayInstanceId", <<Str("id")>>),
    MCSt("SmartGatewayPolicyRoutingScript", <<Str("s")>>),
    MCBlock("SmartGatewayEgressInterfaces", <<"e", "", "f", "e">>, <<>>), MCSt("SrcIpRoutes", <<B(TRUE)>>),
    MCBlock("IpcConnect", <<>>, <<MCSt("MaxConnections", <<I(2)>>), MCSt("Host", <<A4(4)>>), MCSt("Net", <<A4(5), I(24)>>)>>)>>}

Arg(kw, val) == [kw |-> kw, val |-> val]
MCArguments == {Arg("i", "c"), Arg("hint", 700), Arg("ipv6", 0), Arg("hemu", 4), Arg("lqa", 200)}
MCAnnounced == {<<0, 0>>}

MCConfs ==
  {[accept |-> "any", allow |-> FALSE, v6 |-> FALSE, headers |-> h,
    caching |-> c] : h \in {FALSE}, c \in BOOLEAN}
  \cup {[accept |-> "host", allow |-> TRUE, v6 |-> FALSE, headers |-> TRUE,
         caching |-> TRUE]}
MCPlainConf == CHOOSE c \in MCConfs : c.accept = "any" /\ ~ c.caching

\* Empty tables, and tables with a row of every kind.
MCEmpty ==
  [nbrs |-> <<>>, links |-> <<>>, routes |-> <<>>, edges |-> <<>>,
   tcs |-> <<>>, hna |-> <<>>, hnas |-> <<>>, mids |-> <<>>, gws |-> <<>>,
   tunnels |-> <<>>, egress |-> <<>>, ifs |-> <<>>, plugins |-> <<>>,
   argv |-> <<>>, mults |-> <<>>, ipcnets |-> <<>>, pud |-> 0,
   sgw |-> FALSE, uuid |-> FALSE, vtime |-> FALSE, main |-> 1, own |-> <<>>]
MCFull ==
  [nbrs |-> <<[addr |-> 2, two |-> 2], [addr |-> 6, two |-> 0]>>,
   links |-> <<[local |-> 11, remote |-> 12, status |-> "SYM"],
               [local |-> 1, remote |-> 6, status |-> "ASYM"],
               [local |-> 1, remote |-> 8, status |-> "LOST"]>>,
   routes |-> <<TRUE, FALSE, TRUE>>,
   edges |-> <<[from |-> 1, to |-> 2, inv |-> TRUE],
               [from |-> 2, to |-> 3, inv |-> FALSE],
               [from |-> 3, to |-> 12, inv |-> TRUE]>>,
   tcs |-> <<1, 2, 3>>, hna |-> <<TRUE>>, hnas |-> <<TRUE, TRUE>>,
   mids |-> <<[main |-> 2, aliases |-> <<12, 22>>]>>,
   gws |-> <<TRUE, FALSE>>, tunnels |-> <<FALSE, TRUE>>,
   egress |-> <<TRUE>>, ifs |-> <<TRUE, FALSE>>,
   plugins |-> <<<<"port", "accept">>, <<>>>>, argv |-> <<TRUE, TRUE>>,
   mults |-> <<TRUE>>, ipcnets |-> <<TRUE, TRUE>>, pud |-> 2, sgw |-> TRUE,
   uuid |-> TRUE, vtime |-> TRUE, main |-> 1, own |-> <<1, 11>>]
MCNoFix == [MCFull EXCEPT !.pud = 1, !.sgw = FALSE, !.nbrs = <<>>]
MCWorlds == {MCEmpty, MCFull}
MCAllWorlds == {MCEmpty, MCFull, MCNoFix}

Request(s) == [r |-> "text", text |-> s]
MCInputs ==
  {Request(<<"/", "links">>),
   Request(<<" ", "/", "/", "links", "/", "/", "neighbors", "/", "\n", "x">>),
   Request(<<"GET", " ", "/", "http", "/", "version", "/", "config", " ",
          "HTTP/1.1", "\n">>),
   Request(<<"/", "plain", "/", "NetworkGraph">>),
   Request(<<"/", "NetworkCollection">>),
   Request(<<"/", "lin", "/", "top">>),
   Request(<<"/", "olsrd.conf">>), Request(<<"/", "con">>), Request(<<"/">>),
   Request(<<"/", "links", "/", "nothing">>),
   [r |-> "eof", text |-> <<>>], [r |-> "timeout", text |-> <<>>],
   [r |-> "recv", text |-> <<>>], [r |-> "select", text |-> <<>>]}
\* Positions to sanitise and send: one in degrees and metres beyond a pole that
\* moves backward, one with few fields and satellites in disorder, one without
\* a signal, and one that only knows how many satellites there are.
MCGiven(present, val) == [present |-> present, metric |-> FALSE, val |-> val]
MCInfos ==
  {[MCGiven({"SIG", "FIX", "UTCDATE", "UTCTIME", "PDOP", "HDOP", "LAT", "LON", "SPEED", "TRACK", "MTRACK", "MAGVAR", "DGPSAGE"},
      [SIG |-> 9, FIX |-> 2, UTCDATE |-> <<1995, 13, 0>>, UTCTIME |-> <<25, 61, 61, 100>>, PDOP |-> -35,
       HDOP |-> 785, LAT |-> 9550, LON |-> -17990, SPEED |-> -1234, TRACK |-> 35997, MTRACK |-> -18,
       MAGVAR |-> -36, DGPSAGE |-> -77]) EXCEPT !.metric = TRUE],
   MCGiven({"SIG", "SATINUSE", "SATINUSECOUNT", "SATINVIEW", "SATINVIEWCOUNT", "UTCTIME", "HEIGHT", "DGPSSID"},
      [SIG |-> 7, UTCTIME |-> <<23, 59, 60, 99>>, HEIGHT |-> -4567, DGPSSID |-> 1023, SATINUSECOUNT |-> 2, SATINVIEWCOUNT |-> 5,
       SATINUSE |-> <<0, 30, 0, 4, 0, 0, 0, 0>>,
       SATINVIEW |-> <<<<9, 100, 200, 100>>, <<0, 1, 1, 1>>, <<4, -95, 10, 5>>, <<30, 0, 0, 0>>,
                       <<0, 0, 0, 0>>, <<12, 90, 359, 99>>, <<11, 45, 45, 45>>, <<0, 0, 0, 0>>>>]),
   MCGiven({"SIG", "FIX", "LAT", "LON", "ELV"}, [LAT |-> -4830123, LON |-> 0, ELV |-> -12]),
   MCGiven({"SATINVIEWCOUNT", "SPEED"}, [SATINVIEWCOUNT |-> 3, SPEED |-> 5])}
MCForeign ==
  {<<>>,
   <<<<<<"id", "GPGLL">>, <<"empty">>>>,
     <<<<"id", "GPRMC">>, <<"empty">>, <<"letter", "A">>>> \o [k \in 1 .. 9 |-> <<"empty">>]>>}
MCMasks == {{"GPGGA", "GPGSA", "GPGSV", "GPRMC", "GPVTG"}, {"GPGGA", "GPGSA"}}
MCNow == [UTCDATE |-> <<2026, 11, 15>>, UTCTIME |-> <<12, 0, 59, 7>>]

pVars == <<pPhase, pConn, pCnt, pGpnonPrev, pList, pSt, pTx, pTimer, pHeld, pStamp,
            pOut, pSent>>
P == INSTANCE Pud WITH Depth <- 2, ReadsPerSec <- 2, Reports <- MCReports,
  Files <- MCFiles, Gateways <- MCGateways, MainAddr <- 1, UplinkSet <- TRUE,
  SpeedThreshold <- 6, DistanceThreshold <- 30, DopMultiplier <- 2,
  DefaultDop <- 10, DopFactor <- 5, HystToStationary <- MCHyst,
  HystToMoving <- MCHystMoving, Interval <- MCInterval, phase <- pPhase,
  conn <- pConn, cnt <- pCnt, gpnonPrev <- pGpnonPrev, list <- pList,
  st <- pSt, tx <- pTx, timer <- pTimer, held <- pHeld, stamp <- pStamp,
  out <- pOut, sent <- pSent

lVars == <<lPhase, lLines, lNext, lLoaded, lFailed, lCfg, lActive>>
L == INSTANCE Plugins WITH Version <- MCVersion, LoadOrder <- MCLoadOrder,
  LineSeqs <- MCLineSeqs, PlainLines <- MCPlainLines,
  MulticastAddrs <- {0, 7}, TooLong <- {99}, IfMax <- 2, phase <- lPhase,
  lines <- lLines, next <- lNext, loaded <- lLoaded, failed <- lFailed,
  cfg <- lCfg, active <- lActive

cVars == <<cPhase, cP, cIfcnf, cSaid, cRead, cFiles, cGiven, cChanges, cCache,
            cWritten>>
C == INSTANCE ConfigFile WITH TableTop <- 1000, RuleTop <- 50000,
  HasBlank <- {"i d"}, HostBits <- {}, DefaultGw4 <- {0}, DefaultGw6 <- {7},
  Pool <- MCPool, Arguments <- MCArguments, Announced <- MCAnnounced,
  MaxRead <- 3, MaxFiles <- 2, MaxArgs <- 1, MaxChanges <- 1, phase <- cPhase,
  p <- cP, ifcnf <- cIfcnf, said <- cSaid, read <- cRead, files <- cFiles,
  given <- cGiven, changes <- cChanges, cache <- cCache, written <- cWritten

nVars == <<nKind, nConf, nWorld, nCache, nSlot, nCount, nTimer, nConn>>
N == INSTANCE Info WITH Kinds <- {"jsoninfo", "netjson", "txtinfo"},
  Confs <- MCConfs, Worlds <- MCWorlds, Inputs <- MCInputs,
  Peers <- {"loopback", "other"}, Conns <- {1}, MAX_CLIENTS <- 1,
  MaxPieces <- 1, CacheTimeout <- 1, EmptySlot <- EmptySlot, kind <- nKind,
  conf <- nConf, world <- nWorld, cache <- nCache, slot <- nSlot,
  count <- nCount, timer <- nTimer, conn <- nConn

wVars == <<wKind, wConf, wWorld, wCache, wSlot, wCount, wTimer, wConn>>
W == INSTANCE Info WITH Kinds <- {"txtinfo"}, Confs <- {MCPlainConf},
  Worlds <- {MCFull}, Inputs <- {Request(<<"/", "lin">>)}, Peers <- {"other"},
  Conns <- 1 .. 3, MAX_CLIENTS <- 2, MaxPieces <- 2, CacheTimeout <- 1,
  EmptySlot <- EmptySlot, kind <- wKind, conf <- wConf, world <- wWorld,
  cache <- wCache, slot <- wSlot, count <- wCount, timer <- wTimer,
  conn <- wConn

sVars == <<sGen, sMask, sSrc, sSent, sStream, sLine, sFaults, sStarless, sParser,
            sInfo>>
S == INSTANCE Nmea WITH Infos <- MCInfos, Masks <- MCMasks,
  Foreign <- MCForeign, Now <- MCNow, MaxSats <- 8, BufferSize <- 27,
  MaxReports <- 2, MaxFaults <- 1, gen <- sGen, mask <- sMask, src <- sSrc,
  sent <- sSent, stream <- sStream, line <- sLine, faults <- sFaults,
  starless <- sStarless, parser <- sParser, info <- sInfo

allVars == <<part, vars, pVars, lVars, cVars, nVars, wVars, sVars>>

(* One of the systems runs; the others do not exist.                       *)
MCInit ==
  /\ part \in {"distribution", "position", "plugins", "configuration", "info", "clients", "sentences"}
  /\ Init
  /\ IF part = "position" THEN P!Init
       ELSE /\ pPhase = "none" /\ pConn = "none" /\ pCnt = "none"
            /\ pGpnonPrev = "none" /\ pList = "none" /\ pSt = "none"
            /\ pTx = "none" /\ pTimer = "none" /\ pHeld = "none"
            /\ pStamp = "none" /\ pOut = "none" /\ pSent = "none"
  /\ IF part = "plugins" THEN L!Init
       ELSE /\ lPhase = "none" /\ lLines = "none" /\ lNext = "none"
            /\ lLoaded = "none" /\ lFailed = "none" /\ lCfg = "none"
            /\ lActive = "none"
  /\ IF part = "configuration" THEN C!Init
       ELSE /\ cPhase = "none" /\ cP = "none" /\ cIfcnf = "none"
            /\ cSaid = "none" /\ cRead = "none" /\ cFiles = "none"
            /\ cGiven = "none" /\ cChanges = "none" /\ cCache = "none"
            /\ cWritten = "none"
  /\ IF part = "info" THEN N!Init
       ELSE /\ nKind = "none" /\ nConf = "none" /\ nWorld = "none"
            /\ nCache = "none" /\ nSlot = "none" /\ nCount = "none"
            /\ nTimer = "none" /\ nConn = "none"
  /\ IF part = "clients" THEN W!Init
       ELSE /\ wKind = "none" /\ wConf = "none" /\ wWorld = "none"
            /\ wCache = "none" /\ wSlot = "none" /\ wCount = "none"
            /\ wTimer = "none" /\ wConn = "none"
  /\ IF part = "sentences" THEN S!Init
       ELSE /\ sGen = "none" /\ sMask = "none" /\ sSrc = "none"
            /\ sSent = "none" /\ sStream = "none" /\ sLine = "none"
            /\ sFaults = "none" /\ sStarless = "none" /\ sParser = "none"
            /\ sInfo = "none"

MCNext ==
  \/ part = "distribution" /\ Next /\ UNCHANGED <<part, pVars, lVars, cVars, nVars, wVars, sVars>>
  \/ part = "position" /\ P!Next /\ UNCHANGED <<part, vars, lVars, cVars, nVars, wVars, sVars>>
  \/ part = "plugins" /\ L!Next /\ UNCHANGED <<part, vars, pVars, cVars, nVars, wVars, sVars>>
  \/ part = "configuration" /\ C!Next /\ UNCHANGED <<part, vars, pVars, lVars, nVars, wVars, sVars>>
  \/ part = "info" /\ N!Next /\ UNCHANGED <<part, vars, pVars, lVars, cVars, wVars, sVars>>
  \/ part = "clients" /\ W!Next /\ UNCHANGED <<part, vars, pVars, lVars, cVars, nVars, sVars>>
  \/ part = "sentences" /\ S!Next /\ UNCHANGED <<part, vars, pVars, lVars, cVars, nVars, wVars>>

MCFairness ==
  /\ WF_wVars(part = "clients" /\ W!WriteTimer)
  /\ \A i \in 1 .. 2 : WF_wVars(part = "clients" /\ W!ClientReady(i))
MCSpec == MCInit /\ [][MCNext]_allVars /\ MCFairness
-----------------------------------------------------------------------------
(* The sums behind the averaged position are those of the positions in the   *)
(* window, whatever enters and leaves the ring and whenever it is flushed.   *)
AverageOfWindow == part = "position" => P!TypeOK /\ P!AverageOfWindow

(* While the plugin runs its transmissions go out at the intervals of the    *)
(* movement state, whichever of its timers changed it last; and when it is   *)
(* closed, after a start that failed half way as well, it holds no timer,    *)
(* file or socket.                                                           *)
TimersFollowState ==
  /\ part = "position" => P!TimersFollowState /\ P!NothingLeft
  /\ part = "distribution" => SocketsOwned

(* Once the daemon runs, the position plugin is configured as its lines say, *)
(* the last line for a parameter where there are several, in whatever order  *)
(* lines that share state were given, and runs on values within their        *)
(* ranges; an interface has the last value said of it; and the daemon offers *)
(* itself as a gateway exactly while it announces a default route.           *)
AsConfigured ==
  /\ part = "plugins" => L!AsConfigured /\ L!RunsOnValidValues
  /\ part = "configuration" => C!AsSaid /\ C!GatewayFlags

(* A daemon restarted with the text a running one wrote of itself is         *)
(* configured as that one was.                                               *)
ConfigRoundTrip == part = "configuration" => C!RoundTrip

(* Every reply of an info plugin that is sent with status 200 can be read    *)
(* back and says exactly what was asked for, whatever of it comes out of the *)
(* cache; and a graph has a node for both ends of every link it lists.       *)
Readable == part = "info" => N!Readable /\ N!GraphClosed

(* A connection whose request was answered is closed in the end: no reply    *)
(* stays in a slot without the timer that sends its rest.                    *)
EveryReplyEnds == \A k \in 1 .. 3 : (part = "clients" /\ wConn[k] = <<"open">>) ~> (part = "clients" /\ wConn[k] = <<>>)

(* A position that is written as NMEA sentences and read back from an intact *)
(* line is the position that was sent, as far as the sentences carry it; and *)
(* a damaged line makes nothing up, unless it took the star that announces a *)
(* checksum. What the wire format carries to other nodes is the position     *)
(* measured, to one step of it.                                              *)
SentencesTold ==
  /\ part = "sentences" => S!SentencesTold
  /\ part = "distribution" => PositionOnLan
=============================================================================
