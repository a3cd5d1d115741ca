------------------------------- MODULE Pud -------------------------------
(***************************************************************************)
(* The position update distribution plugin (lib/pud): the gpsd client, the *)
(* averaging list, the movement detection with its two sub-states, the     *)
(* position transmitted into the mesh, the position file and the plugin's  *)
(* timers, from initPud to closePud.                                       *)
(*                                                                         *)
(* A position (NmeaInfo) is the set of fields that are present, the        *)
(* signal, the fix, one integer per quantity and the track in degrees.     *)
(* Latitude and longitude are one coordinate; the magnetic track and the   *)
(* satellites, treated exactly as the track and the rest, are left out, as *)
(* are time stamps and with them positionUpdated, which only decides when  *)
(* an invalid position is stamped anew.                                    *)
(* Integer quantities are chosen so that no division rounds.               *)
(***************************************************************************)
EXTENDS Integers, FiniteSets, FiniteSetsExt, TLC

CONSTANTS
  Depth,               \* averageDepth
  ReadsPerSec,         \* TIMER_GPSD_READS_PER_SEC
  Reports,             \* what gps_read can deliver: [fix, val, track]
  Files,               \* position files: [stamp, ok, val], ok FALSE: not valid
  Gateways,            \* the gateways a tick may find: [addr, speed]
  MainAddr,            \* olsr_cnf->main_addr
  UplinkSet,           \* isUplinkAddrSet()
  SpeedThreshold, DistanceThreshold, DopMultiplier, DefaultDop,
  DopFactor,           \* metres per unit of DOP
  HystToStationary,    \* [SubState -> Nat]
  HystToMoving,        \* [SubState -> Nat]
  Interval             \* [{"olsr", "uplink"} -> [Movement -> Nat]], seconds

VARIABLES
  phase,     \* "off", "running", "closed"
  conn,      \* connectionTracking.connected
  cnt,       \* the static counter of the fetch callback
  gpnonPrev, \* receiverProcessIncomingEntry's static
  list,      \* positionAverageList
  st,        \* state.c: [sub, external]
  tx,        \* transmitGpsInformation: [pos, gateway]
  timer,     \* the intervals of the running timers, 0: not running
  held,      \* allocated timer cookies and the other resources held
  stamp,     \* cachedStat of the position file, 0: none
  out,       \* the position output file: absent, or its track an angle or not
  sent       \* what the last transmission said: [stationary, still]

vars == <<phase, conn, cnt, gpnonPrev, list, st, tx, timer, held, stamp,
          out, sent>>

Quantity == {"POS", "ELV", "HDOP", "VDOP", "SPEED"}
Field == Quantity \cup {"SMASK", "SIG", "FIX", "TRACK"}
SubState == {"POSITION", "GATEWAY"}
Movement == {"STATIONARY", "MOVING"}
TimerNames == {"gpsd", "olsr", "uplink", "gateway", "file"}
BAD == 1          \* NMEALIB_FIX_BAD, 2: 2D, 3: 3D
Zero == [q \in Quantity |-> 0]

---------------------------------------------------------------------------
(* nmealib's information record                                            *)

nmeaInfoClear == [present |-> {"SIG", "FIX"}, sig |-> 0, fix |-> BAD,
                  val |-> Zero, track |-> 0]

\* Absent fields take their default, the track is brought into [0, 360).
nmeaInfoSanitise(i) ==
  [i EXCEPT !.sig = IF "SIG" \in i.present THEN @ ELSE 0,
            !.fix = IF "FIX" \in i.present THEN @ ELSE BAD,
            !.val = [q \in Quantity |-> IF q \in i.present THEN @[q] ELSE 0],
            !.track = IF "TRACK" \in i.present THEN @ % 360 ELSE 0]

\* DOPs become metres; positions are in one unit throughout the model.
nmeaInfoUnitConversion(i) ==
  [i EXCEPT !.val["HDOP"] = @ * DopFactor, !.val["VDOP"] = @ * DopFactor]

---------------------------------------------------------------------------
(* gpsdclient.c                                                            *)

\* The quantities of a report that its mode makes usable.
Usable(r) ==
  {q \in DOMAIN r.val : \/ q \in {"HDOP", "VDOP"}
                        \/ q \in {"POS", "SPEED"} /\ r.fix >= 2
                        \/ q = "ELV" /\ r.fix >= 3}

nmeaInfoFromGpsd(i, r) ==
  nmeaInfoSanitise(
    [present |-> i.present \cup {"SMASK", "SIG", "FIX"} \cup Usable(r)
                 \cup {f \in {"TRACK"} : r.fix >= 2},
     sig |-> IF r.fix >= 2 THEN 1 ELSE 0,
     fix |-> r.fix,
     val |-> [q \in Quantity |-> IF q \in Usable(r) THEN r.val[q] ELSE i.val[q]],
     track |-> IF r.fix >= 2 THEN r.track ELSE i.track])

\* gps_open either succeeds or not; only the first failure in a row is logged.
gpsdConnect(ok) == ok

gpsdDisconnect == FALSE

\* The outcomes of one read: the connection and the incoming entry after it.
readFromGpsd(c, i) ==
  IF c
  THEN {[conn |-> c, info |-> nmeaInfoFromGpsd(i, r)] : r \in Reports}
       \cup {[conn |-> c, info |-> i]}
       \cup {[conn |-> gpsdConnect(ok), info |-> nmeaInfoClear]
               : ok \in BOOLEAN}
  ELSE {[conn |-> gpsdConnect(ok), info |-> i] : ok \in BOOLEAN}

---------------------------------------------------------------------------
(* posAvg.c: a ring of Depth + 1 entries, sums and counters of the window  *)

\* Mutant: no spare slot for the position being read.
LISTSIZEmax == Depth

LISTSIZE == Depth + 1
INCOMINGINDEX(l) == (l.newest + 1) % LISTSIZE
OLDESTINDEX(l) == IF l.count > 1
                  THEN (INCOMINGINDEX(l) + LISTSIZE - l.count) % LISTSIZE
                  ELSE l.newest

\* Counters: one per field, one per fix and signal value.
Counter == Field \cup {"fixBad", "fix2d", "fix3d", "sigBad", "sigLow"}

Counts(i) ==
  i.present
  \cup (IF "FIX" \in i.present
        THEN {IF i.fix = 3 THEN "fix3d" ELSE IF i.fix = 2 THEN "fix2d" ELSE "fixBad"}
        ELSE {})
  \cup (IF "SIG" \in i.present THEN {IF i.sig = 1 THEN "sigLow" ELSE "sigBad"}
        ELSE {})

updateCounters(c, i, amount) ==
  [k \in Counter |-> c[k] + (IF k \in Counts(i) THEN amount ELSE 0)]

determineCumulativePresentSmaskSigFix(cum, c, count) ==
  LET present == {f \in Field : c[f] >= count}
  IN [cum EXCEPT
        !.present = present,
        !.sig = IF "SIG" \in present /\ c["sigBad"] = 0 /\ c["sigLow"] > 0
                THEN 1 ELSE 0,
        !.fix = IF "FIX" \notin present \/ c["fixBad"] # 0 THEN BAD
                ELSE IF c["fix3d"] >= count THEN 3
                ELSE IF c["fix2d"] > 0 THEN 2 ELSE BAD]

Cos == (0 :> 1) @@ (90 :> 0) @@ (180 :> -1) @@ (270 :> 0)
Sin == (0 :> 0) @@ (90 :> 1) @@ (180 :> 0) @@ (270 :> -1)

calculateAngleComponents(i) ==
  IF "TRACK" \in i.present THEN [x |-> Cos[i.track], y |-> Sin[i.track]]
  ELSE [x |-> 0, y |-> 0]

\* atan2 in degrees, in (-180, 180]; exact for sums of two quarter turns.
calculateAngle(a) ==
  CASE a.y = 0 -> (IF a.x < 0 THEN 180 ELSE 0)
    [] a.x = 0 -> (IF a.y > 0 THEN 90 ELSE -90)
    [] OTHER -> (IF a.y > 0 THEN 1 ELSE -1) * (IF a.x > 0 THEN 45 ELSE 135)

addAngleComponents(a, b, sign) == [x |-> a.x + sign * b.x, y |-> a.y + sign * b.y]

flushPositionAverageList(l) ==
  [l EXCEPT !.count = 0, !.counters = [k \in Counter |-> 0],
            !.cum = nmeaInfoClear, !.angle = [x |-> 0, y |-> 0],
            !.avg = nmeaInfoClear]

addOrRemoveEntryToFromCumulativeAverage(l, i, sign) ==
  LET count == l.count + sign
      counters == updateCounters(l.counters, i, sign)
      cum == [l.cum EXCEPT !.val = [q \in Quantity |-> @[q] + sign * i.val[q]],
                           !.track = @ + sign * i.track]
  IN [l EXCEPT
        !.count = count, !.counters = counters,
        !.cum = determineCumulativePresentSmaskSigFix(cum, counters, count),
        !.angle = addAngleComponents(@, calculateAngleComponents(i), sign)]

updatePositionAverageFromCumulative(l) ==
  [l EXCEPT !.avg =
     IF l.count > 1
     THEN [l.cum EXCEPT !.val = [q \in Quantity |-> @[q] \div l.count],
                        !.track = calculateAngle(l.angle)]
     ELSE l.cum]

addNewPositionToAverage(l) ==
  LET entry == l.entries[INCOMINGINDEX(l)]
      kept == IF l.count >= Depth
              THEN addOrRemoveEntryToFromCumulativeAverage(
                     l, l.entries[OLDESTINDEX(l)], -1)
              ELSE l
      added == addOrRemoveEntryToFromCumulativeAverage(kept, entry, 1)
  IN updatePositionAverageFromCumulative(
       [added EXCEPT !.newest = (@ + 1) % LISTSIZE])

---------------------------------------------------------------------------
(* receiver.c: movement detection                                          *)

positionValid(i) == "FIX" \in i.present /\ i.fix # BAD

Tristate(known, b) == IF ~known THEN "UNKNOWN" ELSE IF b THEN "SET" ELSE "UNSET"

AnySet(S) == CASE "SET" \in S -> "SET" [] "UNSET" \in S -> "UNSET" [] OTHER -> "UNKNOWN"
AllSet(S) == CASE S = {"SET"} -> "SET" [] "UNSET" \in S -> "UNSET" [] OTHER -> "UNKNOWN"

Abs(n) == IF n < 0 THEN -n ELSE n
DopOf(i, dop) == IF dop \in i.present THEN i.val[dop] ELSE DefaultDop

\* One axis, horizontal or vertical: over the distance threshold, outside and
\* inside the dilution of precision of the last transmitted position.
Axis(avg, last, q, dop) ==
  LET both == q \in avg.present /\ q \in last.present
      known == both /\ dop \in avg.present \cup last.present
      distance == Abs(avg.val[q] - last.val[q])
  IN [over |-> IF q \in avg.present /\ q \notin last.present THEN "SET"
               ELSE Tristate(both, distance >= DistanceThreshold),
      outside |-> Tristate(known, distance > DopMultiplier * (DopOf(last, dop) + DopOf(avg, dop))),
      inside |-> Tristate(known, distance <= DopMultiplier * (DopOf(last, dop) - DopOf(avg, dop)))]

clearMovementType == [moving |-> "UNKNOWN", inside |-> "UNKNOWN"]

detemineMovingFromPosition(avg, last) ==
  LET h == Axis(avg, last, "POS", "HDOP")
      v == Axis(avg, last, "ELV", "VDOP")
      speed == Tristate("SPEED" \in avg.present, avg.val["SPEED"] >= SpeedThreshold)
      over == AnySet({speed, h.over, v.over})
      outside == AnySet({h.outside, v.outside})
  IN IF ~positionValid(avg) \/ ~positionValid(last) THEN clearMovementType
     ELSE [moving |-> IF "SET" \in {over, outside} THEN "SET"
                      ELSE AllSet({over, outside}),
           inside |-> AllSet({h.inside, v.inside})]

---------------------------------------------------------------------------
(* state.c                                                                 *)

initState ==
  [sub |-> [k \in SubState |->
              LET m == IF k = "POSITION" THEN "STATIONARY" ELSE "MOVING"
              IN [internal |-> m, external |-> m, counter |-> 0]],
   external |-> "MOVING"]

\* A sub-state's external state follows its internal one after enough calls
\* that agree; losing or regaining the gps is not delayed.
NextSub(s, k, moving, gpnonChanged) ==
  LET internal == IF moving = "SET" \/ gpnonChanged THEN "MOVING" ELSE "STATIONARY"
      from == IF s.internal = internal THEN s.counter ELSE 0
      limit == IF internal = "MOVING" THEN HystToMoving[k] ELSE HystToStationary[k]
      counter == IF internal = s.external THEN from
                 ELSE IF internal = "MOVING" /\ gpnonChanged THEN limit
                 ELSE from + 1
  IN [internal |-> internal, counter |-> counter,
      external |-> IF internal # s.external /\ counter >= limit
                   THEN internal ELSE s.external]

\* Mutant: the last sub-state that changed decides alone.
StateWithoutAnd(s, k, moving, gpnonChanged) ==
  LET sub == [s.sub EXCEPT ![k] = NextSub(@, k, moving, gpnonChanged)]
      new == sub[k].external
  IN [st |-> [sub |-> sub, external |-> IF new # s.sub[k].external THEN new ELSE s.external],
      subChanged |-> new # s.sub[k].external,
      changed |-> new # s.sub[k].external /\ s.external # new]

\* MOVING when one sub-state says so, STATIONARY when all of them do.
determineStateWithHysteresis(s, k, moving, gpnonChanged) ==
  LET sub == [s.sub EXCEPT ![k] = NextSub(@, k, moving, gpnonChanged)]
      new == sub[k].external
      subChanged == new # s.sub[k].external
      transition == subChanged /\ (new = "MOVING"
                                    \/ \A j \in SubState : sub[j].external = new)
  IN [st |-> [sub |-> sub, external |-> IF transition THEN new ELSE s.external],
      subChanged |-> subChanged,
      changed |-> transition /\ s.external # new]

---------------------------------------------------------------------------
(* receiver.c: transmission                                                *)

\* What the properties tell apart of the wire message: whether its speed and
\* track, nine bits wide, are zero.
gpsToOlsr(i, state) ==
  LET speed == IF "SPEED" \in i.present THEN i.val["SPEED"] ELSE 0
      track == IF "TRACK" \in i.present THEN i.track % 512 ELSE 0
  IN [stationary |-> state = "STATIONARY", still |-> speed = 0 /\ track = 0]

\* The uplink socket is always there once the interfaces are created.
txToAllOlsrInterfaces(t, s, uplinkOnly) ==
  /\ tx' = t
  /\ sent' = IF uplinkOnly /\ ~UplinkSet THEN sent ELSE gpsToOlsr(t.pos, s.external)

\* Of the position output file: whether its track is an angle in [0, 360).
Written(t) == IF t.pos.track \in 0 .. 359 THEN "angle" ELSE "other"

\* The file is overwritten, or cannot be opened and stays as it is.
writePositionOutputFile(t) == out' \in {Written(t), out}

\* timers.c: a restart stops a running timer and starts it with its interval.
restartGpsdFetchTimer(t) == [t EXCEPT !["gpsd"] = 1]
restartOlsrTxTimer(t, interval) == [t EXCEPT !["olsr"] = interval]
restartUplinkTxTimer(t, interval) == [t EXCEPT !["uplink"] = interval]
restartGatewayTimer(t, interval) == [t EXCEPT !["gateway"] = interval]

restartOlsrTimer(t, s) == restartOlsrTxTimer(t, Interval["olsr"][s.external])
restartUplinkTimer(t, s) == restartUplinkTxTimer(t, Interval["uplink"][s.external])

doImmediateTransmit(t, s) ==
  /\ timer' = IF UplinkSet THEN restartUplinkTimer(restartOlsrTimer(timer, s), s)
              ELSE restartOlsrTimer(timer, s)
  /\ txToAllOlsrInterfaces(t, s, FALSE)
  /\ writePositionOutputFile(t)

\* What both callbacks that determine the state do at their end.
Determined(d, t) ==
  /\ st' = d.st
  /\ IF d.changed THEN doImmediateTransmit(t, d.st)
     ELSE tx' = t /\ UNCHANGED <<timer, sent, out>>

pud_olsr_tx_timer_callback ==
  /\ timer["olsr"] # 0
  /\ txToAllOlsrInterfaces(tx, st, FALSE)
  /\ UNCHANGED <<phase, conn, cnt, gpnonPrev, list, st, timer, held, stamp, out>>

pud_uplink_timer_callback ==
  /\ timer["uplink"] # 0
  /\ txToAllOlsrInterfaces(tx, st, TRUE)
  /\ UNCHANGED <<phase, conn, cnt, gpnonPrev, list, st, timer, held, stamp, out>>

\* A stationary position carries neither speed nor track.
Still(i, external) ==
  IF external = "STATIONARY" THEN [i EXCEPT !.val["SPEED"] = 0, !.track = 0] ELSE i

receiverProcessIncomingEntry(incoming) ==
  LET at == INCOMINGINDEX(list)
      entry == nmeaInfoUnitConversion(incoming)
      gpnon == "SMASK" \notin entry.present
      gpnonChanged == gpnon # gpnonPrev
      stored == [list EXCEPT !.entries[at] = entry]
      l == addNewPositionToAverage(
             IF st.sub["POSITION"].internal = "MOVING" \/ gpnonChanged
             THEN flushPositionAverageList(stored) ELSE stored)
      m == detemineMovingFromPosition(l.avg, tx.pos)
      d == determineStateWithHysteresis(st, "POSITION", m.moving, gpnonChanged)
      update == \/ d.st.external = "MOVING"
                \/ d.subChanged
                \/ positionValid(l.avg) /\ ~positionValid(tx.pos)
                \/ m.inside = "SET"
  IN /\ gpnonPrev' = gpnon
     /\ list' = l
     /\ Determined(d, IF update
                      THEN [tx EXCEPT !.pos = Still(l.avg, d.st.external)]
                      ELSE tx)

pud_gpsd_fetch_timer_callback ==
  /\ timer["gpsd"] # 0
  /\ \E o \in readFromGpsd(conn, IF cnt = 0 THEN nmeaInfoClear
                                 ELSE list.entries[INCOMINGINDEX(list)]) :
       /\ conn' = o.conn
       /\ IF cnt >= ReadsPerSec - 1
          THEN cnt' = 0 /\ receiverProcessIncomingEntry(o.info)
          ELSE /\ cnt' = cnt + 1
               /\ list' = [list EXCEPT !.entries[INCOMINGINDEX(list)] = o.info]
               /\ UNCHANGED <<gpnonPrev, st, tx, timer, sent, out>>
  /\ UNCHANGED <<phase, held, stamp>>

\* uplinkGateway.c: the fastest gateway, the lowest address among equals, this
\* node when there is none.
getBestUplinkGateway(G) ==
  IF G = {} THEN MainAddr
  ELSE (CHOOSE g \in G : \A h \in G : \/ h = g
                                      \/ g.speed > h.speed
                                      \/ g.speed = h.speed /\ g.addr < h.addr).addr

pud_gateway_timer_callback ==
  /\ timer["gateway"] # 0
  /\ \E G \in SUBSET Gateways :
       LET best == getBestUplinkGateway(G)
           moving == IF best # tx.gateway THEN "SET" ELSE "UNSET"
       IN Determined(determineStateWithHysteresis(st, "GATEWAY", moving, FALSE),
                     [tx EXCEPT !.gateway = best])
  /\ UNCHANGED <<phase, conn, cnt, gpnonPrev, list, held, stamp>>

---------------------------------------------------------------------------
(* posFile.c                                                               *)

NoFile == [stamp |-> 0, ok |-> FALSE, val |-> [x \in {} |-> 0], fix |-> BAD]

\* The position read from a valid file: HDOP gives VDOP, a track is not
\* modelled in files.
FilePosition(f) ==
  nmeaInfoUnitConversion(nmeaInfoSanitise(
    [present |-> DOMAIN f.val \cup {"SMASK", "SIG", "FIX"}
                 \cup {d \in {"VDOP"} : "HDOP" \in DOMAIN f.val},
     sig |-> 0, fix |-> f.fix,
     val |-> [q \in Quantity |->
                CASE q \in DOMAIN f.val -> f.val[q]
                  [] q = "VDOP" /\ "HDOP" \in DOMAIN f.val -> f.val["HDOP"]
                  [] OTHER -> 0],
     track |-> 0]))

\* An unchanged file is not read again, an invalid one leaves the position
\* alone but is remembered, a missing one forgets the time stamp.
readPositionFile(f, s, pos) ==
  IF f.stamp # 0 /\ f.stamp # s /\ f.ok THEN FilePosition(f) ELSE pos

pud_read_position_file ==
  /\ timer["file"] # 0
  /\ \E f \in Files \cup {NoFile} :
       /\ tx' = [tx EXCEPT !.pos = readPositionFile(f, stamp, @)]
       /\ stamp' = f.stamp
  /\ UNCHANGED <<phase, conn, cnt, gpnonPrev, list, st, timer, held, out, sent>>

---------------------------------------------------------------------------
(* pud.c: initialisation and shutdown                                      *)

NoList == [entries |-> [k \in 0 .. LISTSIZE - 1 |-> nmeaInfoClear],
           newest |-> 0, count |-> 0, counters |-> [k \in Counter |-> 0],
           cum |-> nmeaInfoClear, angle |-> [x |-> 0, y |-> 0],
           avg |-> nmeaInfoClear]
NoTx == [pos |-> nmeaInfoClear, gateway |-> MainAddr]
NoTimer == [t \in TimerNames |-> 0]

Init ==
  /\ phase = "off"
  /\ conn = gpsdDisconnect
  /\ cnt = 0
  /\ gpnonPrev = FALSE
  /\ list = NoList
  /\ st = initState
  /\ tx = NoTx
  /\ timer = NoTimer
  /\ held = {}
  /\ stamp = 0
  /\ out = "absent"
  /\ sent = [stationary |-> FALSE, still |-> TRUE]

\* closePud releases whatever is held; the message handler stays registered.
Released(h) == h \cap {"parser"}

stopReceiver ==
  /\ conn' = gpsdDisconnect
  /\ list' = NoList
  /\ out' = "absent"
  /\ tx' = NoTx

closePud(h) ==
  /\ held' = Released(h)
  /\ timer' = NoTimer
  /\ stopReceiver

\* The timers startReceiver leaves running.
startReceiver(s) ==
  restartGatewayTimer(
    restartUplinkTimer(restartOlsrTimer(restartGpsdFetchTimer(NoTimer), s), s), 1)

\* The steps of initPud that can fail, with what is held when they do.
HeldAtFailure ==
  LET receiver == {"dedup", "regex", "list", "gpsd", "olsr", "uplink", "gateway"}
  IN [config |-> {}, dedup |-> {}, regex |-> {"dedup"}, output |-> receiver,
      interfaces |-> receiver, setup |-> receiver \cup {"sockets"}]

initPud ==
  /\ phase = "off"
  /\ st' = initState
  /\ \E f \in Files \cup {NoFile} :
       /\ stamp' = f.stamp
       /\ \/ /\ phase' = "running"
             /\ tx' = [NoTx EXCEPT !.pos = readPositionFile(f, 0, @)]
             /\ timer' = [startReceiver(initState) EXCEPT
                            !["file"] = IF Files = {} THEN 0 ELSE 1]
             /\ held' = TimerNames \cup {"dedup", "regex", "list", "sockets", "parser"}
             /\ out' = Written(tx')
             /\ UNCHANGED <<conn, list>>
          \/ /\ phase' = "closed"
             /\ \E step \in DOMAIN HeldAtFailure : closePud(HeldAtFailure[step])
  /\ UNCHANGED <<cnt, gpnonPrev, sent>>

\* The plugin's destructor.
pud_fini ==
  /\ phase = "running"
  /\ phase' = "closed"
  /\ closePud(held)
  /\ UNCHANGED <<cnt, gpnonPrev, st, stamp, sent>>

Next ==
  \/ initPud
  \/ pud_fini
  \/ pud_gpsd_fetch_timer_callback
  \/ pud_olsr_tx_timer_callback
  \/ pud_uplink_timer_callback
  \/ pud_gateway_timer_callback
  \/ pud_read_position_file

Spec == Init /\ [][Next]_vars

---------------------------------------------------------------------------
(* Properties                                                              *)

TypeOK ==
  /\ phase \in {"off", "running", "closed"}
  /\ conn \in BOOLEAN
  /\ cnt \in 0 .. ReadsPerSec - 1
  /\ list.newest \in 0 .. LISTSIZE - 1
  /\ list.count \in 0 .. Depth
  /\ st.external \in Movement

SumOver(S, f(_)) == MapThenSumSet(f, S)

\* The slots of the positions that are averaged: the newest and those before.
Window == {(list.newest + LISTSIZE - k) % LISTSIZE : k \in 0 .. list.count - 1}

\* The running sums and counters are those of the positions in the window,
\* through flushes and removals, and while the next position is being read
\* into its slot (posAvg.c, addNewPositionToAverage).
AverageOfWindow ==
  /\ \A q \in Quantity :
       LET At(k) == list.entries[k].val[q] IN list.cum.val[q] = SumOver(Window, At)
  /\ \A c \in Counter :
       list.counters[c] = Cardinality({k \in Window : c \in Counts(list.entries[k])})
  /\ LET X(k) == calculateAngleComponents(list.entries[k]).x
         Y(k) == calculateAngleComponents(list.entries[k]).y
     IN list.angle = [x |-> SumOver(Window, X), y |-> SumOver(Window, Y)]

\* The node is moving exactly when its position or its gateway is, and the
\* periodic transmissions run at the interval of that state, whichever of the
\* two callbacks changed it (state.c:196, receiver.c, doImmediateTransmit).
TimersFollowState ==
  phase = "running" =>
    /\ st.external = "MOVING" <=> \E k \in SubState : st.sub[k].external = "MOVING"
    /\ timer["olsr"] = Interval["olsr"][st.external]
    /\ UplinkSet => timer["uplink"] = Interval["uplink"][st.external]

\* A running timer has its cookie, and once the plugin is closed, after a failed
\* start as well, it holds nothing and no output file is left behind (closePud).
NothingLeft ==
  /\ \A t \in TimerNames : timer[t] # 0 => t \in held
  /\ phase = "closed" => held \subseteq {"parser"} /\ timer = NoTimer /\ out = "absent"

===========================================================================
