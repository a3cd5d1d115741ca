------------------------------ MODULE PudNet ------------------------------
(***************************************************************************)
(* How the position plugin distributes positions: messages received from   *)
(* the mesh and from the downlink, the de-duplication list between them    *)
(* and the LAN, the wire format of a position update with its node         *)
(* identification, and the sockets.                                        *)
(*                                                                         *)
(* A message is its originator and sequence number; the position in it is  *)
(* Sample[seq], sent by a node whose identification is NodeId[orig].       *)
(* Angles are multiples of 1/AngleUnits of the half circle, the bit widths *)
(* of the angles, a day and a byte are parameters: the shape of the        *)
(* conversions does not depend on them.                                    *)
(***************************************************************************)
EXTENDS Integers, Sequences, FiniteSets, SequencesExt

CONSTANTS
  MainAddr,     \* olsr_cnf->main_addr
  Origs, Seqs,  \* originators and sequence numbers of messages
  Sample,       \* [Seqs -> positions]: [present, when, lat, lon, alt, speed, hdop, valid]
  NodeId,       \* [Origs -> [kind, value]]
  Delays,       \* differences of the clocks of receiver and sender
  DeDupDepth,   \* deDupDepth
  UseLoopback, SmartGw,
  MaxSize,      \* netbuf.maxsize, in messages of size 1
  TxNames,      \* the configured non-OLSR interfaces, in the order of creation
  UplinkSet,
  LatitudeBits, LongitudeBits, AngleUnits,
  AltMin, AltMax, SpeedMax, HdopMax,
  HalfDay, Byte,
  NameBuffer    \* PUD_TX_NODEID_BUFFERSIZE

\* initDeDupList fails otherwise, and the plugin is not started.
ASSUME DepthAssumption == DeDupDepth \in Nat \ {0}

ASSUME MainAddrAssumption == MainAddr \in Origs

ASSUME TxNamesAssumption == TxNames \in Seq(STRING) /\ UplinkSet \in BOOLEAN

VARIABLES
  phase,     \* "off", "running", "closed"
  fds,       \* the open sockets
  txList,    \* txNetworkInterfacesListHead
  downlink,  \* downlinkSocketFd # -1
  handlers,  \* sockets registered with the scheduler
  ring,      \* deDupList: [entries, count, newest]
  pending,   \* netbuf.pending of the OLSR interface
  seqno,     \* the last message sequence number used, 0: none
  lan        \* the last sentence sent on the LAN: [msg, text], or {}

vars == <<phase, fds, txList, downlink, handlers, ring, pending, seqno, lan>>

Message == [orig : Origs, seq : Seqs]
None == [orig |-> "none", seq |-> 0]

---------------------------------------------------------------------------
(* dedup.c                                                                 *)

WRAPINDEX(i) == i % DeDupDepth
INCOMINGINDEX(r) == WRAPINDEX(r.newest + DeDupDepth - 1)

initDeDupList == [entries |-> [k \in 0 .. DeDupDepth - 1 |-> None],
                  count |-> 0, newest |-> 0]

\* Mutant: the list grows the other way.
addTheOtherWay(r, m) ==
  [entries |-> [r.entries EXCEPT ![WRAPINDEX(r.newest + 1)] = m],
   newest |-> WRAPINDEX(r.newest + 1),
   count |-> IF r.count < DeDupDepth THEN r.count + 1 ELSE r.count]

addToDeDup(r, m) ==
  [entries |-> [r.entries EXCEPT ![INCOMINGINDEX(r)] = m],
   newest |-> INCOMINGINDEX(r),
   count |-> IF r.count < DeDupDepth THEN r.count + 1 ELSE r.count]

\* The entries from the newest to the oldest.
Window(r) == [k \in 1 .. r.count |-> r.entries[WRAPINDEX(r.newest + k - 1)]]
isInDeDupList(r, m) == \E k \in 1 .. r.count : Window(r)[k] = m

---------------------------------------------------------------------------
(* wireFormat.c: the numbers                                               *)

PUD_VALIDITY_TIME_FROM_OLSR(msn, lsn) == (lsn + 16) * 2^msn - 16

getValidityTime(field) == PUD_VALIDITY_TIME_FROM_OLSR(field \div 16, field % 16)

\* The most significant part: the last range that starts at or below v.
Msn(v) == CHOOSE n \in 0 .. 15 :
            /\ n = 0 \/ v >= PUD_VALIDITY_TIME_FROM_OLSR(n, 0)
            /\ n = 15 \/ v < PUD_VALIDITY_TIME_FROM_OLSR(n + 1, 0)
Lsn(v) ==
  LET n == Msn(v)
  IN IF v >= PUD_VALIDITY_TIME_FROM_OLSR(n + 1, 0) THEN 15
     ELSE (v - PUD_VALIDITY_TIME_FROM_OLSR(n, 0) + 2^n \div 2) \div 2^n

\* (msn << 4) | lsn, with lsn in 0 .. 16.
setValidityTime(v) ==
  IF Lsn(v) = 16 THEN 16 * (Msn(v) + (IF Msn(v) % 2 = 0 THEN 1 ELSE 0))
  ELSE 16 * Msn(v) + Lsn(v)

\* lrint(n / d): to the nearest, ties to even.
lrint(n, d) ==
  LET q == n \div d  r == n % d
  IN IF 2 * r > d \/ (2 * r = d /\ q % 2 = 1) THEN q + 1 ELSE q

Clip(v, lo, hi) == IF v > hi THEN hi ELSE IF v < lo THEN lo ELSE v

\* A latitude is in [-AngleUnits / 2, AngleUnits / 2].
setPositionUpdateLatitude(lat) ==
  LET scaled == (lat + AngleUnits \div 2) * 2^LatitudeBits
      top == (2^LatitudeBits - 1) * AngleUnits
  IN lrint(IF scaled > top THEN top ELSE scaled, AngleUnits) % 2^LatitudeBits

\* Twice the latitude, which carries half a step.
getPositionUpdateLatitude(field) ==
  ((2 * field + 1) * AngleUnits) \div 2^LatitudeBits - AngleUnits

\* The clip is against the latitude's bits, so that 180 degrees east wraps.
setPositionUpdateLongitude(lon) ==
  LET scaled == (lon + AngleUnits) * 2^LongitudeBits
      top == (2^LatitudeBits - 1) * 2 * AngleUnits
  IN lrint(IF scaled > top THEN top ELSE scaled, 2 * AngleUnits) % 2^LongitudeBits

getPositionUpdateLongitude(field) ==
  ((2 * field + 1) * 2 * AngleUnits) \div 2^LongitudeBits - 2 * AngleUnits

setPositionUpdateAltitude(alt) == Clip(alt, AltMin, AltMax) - AltMin
getPositionUpdateAltitude(field) == field + AltMin
setPositionUpdateSpeed(speed) == Clip(speed, 0, SpeedMax)
getPositionUpdateSpeed(field) == field
setPositionUpdateHdop(hdop) == IF hdop > HdopMax THEN HdopMax ELSE hdop
getPositionUpdateHdop(field) == field

\* The time of day is sent, the receiver adds the day nearest to its own clock.
setPositionUpdateTime(when) == when % (2 * HalfDay)
getPositionUpdateTime(olsrTime, now) ==
  LET secNow == now % (2 * HalfDay)
      midnight == now - secNow
      day == IF secNow <= HalfDay
             THEN IF olsrTime > secNow + HalfDay THEN midnight - 2 * HalfDay ELSE midnight
             ELSE IF olsrTime < secNow - HalfDay THEN midnight + 2 * HalfDay ELSE midnight
  IN day + olsrTime

---------------------------------------------------------------------------
(* nodeIdConversion.c: how a node identifies itself                        *)

\* snprintf of a number, without padding: its digits to the base b.
Digits(v, b) ==
  LET digits[w \in 0 .. v] ==
        IF w < b THEN <<w>> ELSE Append(digits[w \div b], w % b)
  IN digits[v]

setupNodeIdBinaryMAC(mac) == mac
setupNodeIdBinaryLongLong(v, bytes) ==
  [i \in 1 .. bytes |-> (v \div Byte^(bytes - i)) % Byte]
setupNodeIdBinaryDoubleLongLong(v, bytes) ==
  setupNodeIdBinaryLongLong(v[1], bytes) \o setupNodeIdBinaryLongLong(v[2], bytes)
setupNodeIdBinaryString(name) == Append(name, 0)

\* A configured identification in binary form.
Binary(id) ==
  CASE id.kind = "mac"    -> setupNodeIdBinaryMAC(id.value)
    [] id.kind = "number" -> setupNodeIdBinaryLongLong(id.value, 2)
    [] id.kind = "pair"   -> setupNodeIdBinaryDoubleLongLong(id.value, 2)
    [] id.kind = "name"   -> setupNodeIdBinaryString(id.value)
    [] OTHER              -> <<>>

\* The address of the originator takes the place of an absent identification;
\* a name is copied with two terminators.
setPositionUpdateNodeInfo(id) ==
  CASE id.kind \in {"mac", "number", "pair"} ->
         [type |-> id.kind, bytes |-> Binary(id), here |-> TRUE]
    [] id.kind = "name" -> [type |-> "name", bytes |-> Append(Binary(id), 0), here |-> TRUE]
    [] OTHER -> [type |-> "ip", bytes |-> <<>>, here |-> FALSE]

getPositionUpdateNodeIdType(u) == IF u.id.here THEN u.id.type ELSE "ip"

getPositionUpdateNodeId(m, u) ==
  CASE getPositionUpdateNodeIdType(u) = "name" ->
         SubSeq(u.id.bytes, 1, SelectInSeq(u.id.bytes, LAMBDA c : c = 0) - 1)
    [] getPositionUpdateNodeIdType(u) = "ip" -> m.orig
    [] OTHER -> u.id.bytes

\* Two digits of the number show a byte.
Number(bytes) == FoldLeft(LAMBDA acc, b : acc * Byte + b, 0, bytes)
DigitBase == CHOOSE d \in 2 .. Byte : d * d = Byte
getNodeIdHexNumberFromOlsr(bytes) == Digits(Number(bytes), DigitBase)
getNodeIdNumberFromOlsr(bytes) == Digits(Number(bytes), 10)

\* The second half of a pair is printed behind the full width of the first: a
\* shorter first half ends the string.
getNodeIdStringFromOlsr(m, u) ==
  LET id == getPositionUpdateNodeId(m, u)
      first == getNodeIdHexNumberFromOlsr(SubSeq(id, 1, Len(id) \div 2))
      second == getNodeIdHexNumberFromOlsr(SubSeq(id, Len(id) \div 2 + 1, Len(id)))
  IN CASE getPositionUpdateNodeIdType(u) = "number" -> getNodeIdNumberFromOlsr(id)
       [] getPositionUpdateNodeIdType(u) = "pair" ->
            IF Len(first) < Len(id) THEN first ELSE first \o second
       [] getPositionUpdateNodeIdType(u) = "name" ->
            SubSeq(id, 1, IF Len(id) >= NameBuffer THEN NameBuffer - 1 ELSE Len(id))
       [] OTHER -> id

---------------------------------------------------------------------------
(* gpsConversion.c                                                         *)

Value(p, field, v, other) == IF field \in p.present THEN v ELSE other

\* The payload node orig sends for the position p.
gpsToOlsr(p, orig) ==
  [version  |-> p.version,
   valid    |-> setValidityTime(p.valid),
   present  |-> p.present,
   time     |-> setPositionUpdateTime(p.when),
   lat      |-> setPositionUpdateLatitude(Value(p, "POS", p.lat, 0)),
   lon      |-> setPositionUpdateLongitude(Value(p, "POS", p.lon, 0)),
   alt      |-> setPositionUpdateAltitude(Value(p, "ELV", p.alt, 0)),
   speed    |-> setPositionUpdateSpeed(Value(p, "SPEED", p.speed, 0)),
   hdop     |-> setPositionUpdateHdop(Value(p, "HDOP", p.hdop, HdopMax)),
   id       |-> setPositionUpdateNodeInfo(NodeId[orig])]

Payload(m) == gpsToOlsr(Sample[m.seq], m.orig)

\* The sentence for a payload, {} when it cannot be handled; a field that is
\* not present is left empty ({}).
gpsFromOlsr(m, now) ==
  LET u == Payload(m)
      Shown(field, v) == IF field \in u.present THEN {v} ELSE {}
  IN IF u.version # 1 THEN {}
     ELSE {[orig  |-> m.orig,
            id    |-> getNodeIdStringFromOlsr(m, u),
            when  |-> getPositionUpdateTime(u.time, now),
            valid |-> getValidityTime(u.valid),
            lat   |-> Shown("POS", getPositionUpdateLatitude(u.lat)),
            lon   |-> Shown("POS", getPositionUpdateLongitude(u.lon)),
            alt   |-> Shown("ELV", getPositionUpdateAltitude(u.alt)),
            speed |-> Shown("SPEED", getPositionUpdateSpeed(u.speed)),
            hdop  |-> Shown("HDOP", getPositionUpdateHdop(u.hdop))]}

---------------------------------------------------------------------------
(* pud.c: reception                                                        *)

\* What reception changes: the list and the LAN.
Here == [ring |-> ring, lan |-> lan]

sendToAllTxInterfaces(s, m, text) ==
  IF text = {} \/ txList = <<>> THEN s
  ELSE [s EXCEPT !.lan = [msg |-> m, text |-> text]]

packetReceivedFromOlsr(s, m, now) ==
  IF \/ ~UseLoopback /\ m.orig = MainAddr
     \/ isInDeDupList(s.ring, m)
  THEN s
  ELSE sendToAllTxInterfaces([s EXCEPT !.ring = addToDeDup(@, m)], m, gpsFromOlsr(m, now))

net_outbuffer_push(p) == IF p + 1 > MaxSize THEN p ELSE p + 1
Pushed(p) == net_outbuffer_push(IF p + 1 > MaxSize THEN 0 ELSE p)

\* One message of a downlink packet: what is behind one of a wrong length is
\* ignored, one of a wrong type or address family is skipped.  st: ring, lan,
\* pending, and whether the loop goes on.
DownlinkMessage(st, x, now) ==
  IF ~st.going \/ x.kind = "other" THEN st
  ELSE IF x.kind = "short" THEN [st EXCEPT !.going = FALSE]
  ELSE LET s == packetReceivedFromOlsr([ring |-> st.ring, lan |-> st.lan], x.msg, now)
       IN [ring |-> s.ring, lan |-> s.lan, going |-> TRUE,
           pending |-> IF SmartGw THEN Pushed(st.pending) ELSE st.pending]

\* A packet, a sequence of messages; bound: two of them.
Kinds == {"position", "short", "other"}
Packets(ms) == UNION {[1 .. n -> [kind : Kinds, msg : ms]] : n \in 1 .. 2}

---------------------------------------------------------------------------
(* Actions                                                                 *)

Unmoved == UNCHANGED <<phase, fds, txList, downlink, handlers>>

Apply(s) ==
  /\ ring' = s.ring
  /\ lan' = s.lan

Clock(m) == {Sample[m.seq].when + d : d \in Delays}

\* A position update from the mesh; the core hands over copies as well.
ReceiveFromOlsr ==
  /\ phase = "running"
  /\ \E m \in Message : \E now \in Clock(m) :
       /\ m.orig = MainAddr => m.seq <= seqno
       /\ Apply(packetReceivedFromOlsr(Here, m, now))
  /\ Unmoved /\ UNCHANGED <<pending, seqno>>

packetReceivedFromDownlink ==
  /\ phase = "running"
  /\ downlink
  /\ \E m \in Message : \E now \in Clock(m) :
     \E pkt \in Packets({n \in Message : n = m \/ (n.orig = m.orig /\ n.seq = 1)}) :
       /\ \A k \in DOMAIN pkt :
            /\ pkt[k].msg.orig = MainAddr => pkt[k].msg.seq <= seqno
            /\ now \in Clock(pkt[k].msg)
       /\ LET first == DownlinkMessage([ring |-> ring, lan |-> lan, going |-> TRUE, pending |-> pending],
                                       pkt[1], now)
              last == IF Len(pkt) = 1 THEN first ELSE DownlinkMessage(first, pkt[2], now)
          IN Apply(last) /\ pending' = last.pending
  /\ Unmoved /\ UNCHANGED seqno

\* The node's own position, looped back to its LAN when so configured
\* (receiver.c, txToAllOlsrInterfaces).
Transmit ==
  /\ phase = "running"
  /\ seqno + 1 \in Seqs
  /\ seqno' = seqno + 1
  /\ pending' = Pushed(pending)
  /\ \E now \in Clock([orig |-> MainAddr, seq |-> seqno + 1]) :
       Apply(IF UseLoopback
             THEN packetReceivedFromOlsr(Here, [orig |-> MainAddr, seq |-> seqno + 1], now)
             ELSE Here)
  /\ Unmoved

net_output ==
  /\ pending > 0
  /\ pending' = 0
  /\ Unmoved /\ UNCHANGED <<ring, seqno, lan>>

---------------------------------------------------------------------------
(* networkInterfaces.c                                                     *)

\* The sockets that may be open after a failed createTxSocket.
createTxSocketFailed(open, name) == {open}

createDownlinkSocketFailed(open) == {open}

Socket(k) == TxNames[k]

\* The first k interfaces are created; all of them, and the downlink socket
\* when there is an uplink, is success.
createNetworkInterfaces(k, complete) ==
  /\ txList' = SubSeq(TxNames, 1, k)
  /\ downlink' = (complete /\ UplinkSet)
  /\ handlers' = IF complete /\ UplinkSet THEN {"downlink"} ELSE {}
  /\ LET open == {Socket(i) : i \in 1 .. k}
     IN IF complete THEN fds' = open \cup (IF UplinkSet THEN {"downlink"} ELSE {})
        ELSE IF k < Len(TxNames) THEN fds' \in createTxSocketFailed(open, Socket(k + 1))
        ELSE fds' \in createDownlinkSocketFailed(open)

Start ==
  /\ phase = "off"
  /\ \/ phase' = "running" /\ createNetworkInterfaces(Len(TxNames), TRUE)
     \/ /\ phase' = "failed"
        /\ \E k \in 0 .. Len(TxNames) :
             (k < Len(TxNames) \/ UplinkSet) /\ createNetworkInterfaces(k, FALSE)
  /\ UNCHANGED <<ring, pending, seqno, lan>>

closeInterfaces(list) == {list[i] : i \in DOMAIN list}

\* After a failed start, or at the end.
closeNetworkInterfaces ==
  /\ phase \in {"running", "failed"}
  /\ phase' = "closed"
  /\ fds' = (fds \ closeInterfaces(txList)) \ (IF downlink THEN {"downlink"} ELSE {})
  /\ handlers' = IF downlink THEN handlers \ {"downlink"} ELSE handlers
  /\ txList' = <<>>
  /\ downlink' = FALSE
  /\ UNCHANGED <<ring, pending, seqno, lan>>

Init ==
  /\ phase = "off"
  /\ fds = {} /\ txList = <<>> /\ downlink = FALSE /\ handlers = {}
  /\ ring = initDeDupList
  /\ pending = 0
  /\ seqno = 0
  /\ lan = [msg |-> None, text |-> {}]

Next ==
  \/ Start
  \/ ReceiveFromOlsr
  \/ packetReceivedFromDownlink
  \/ Transmit
  \/ net_output
  \/ closeNetworkInterfaces

Spec == Init /\ [][Next]_vars

---------------------------------------------------------------------------
(* Properties                                                              *)

Promise == INSTANCE DeDup WITH Messages <- Message, Depth <- DeDupDepth, window <- Window(ring)

\* A message that reached this node over the mesh, the downlink and its own
\* loopback is processed once while fewer than DeDupDepth others intervene, and
\* is not taken for a copy longer than that: the ring of dedup.c implements the
\* window of the last DeDupDepth messages taken (pud.c:188).
DeDupWindow == Promise!Spec

Near(a, b, step) == a - b <= step /\ b - a <= step

\* What the LAN is told about a node is what that node measured, to one step of
\* the wire format: on either side of midnight, at the poles and at the 180th
\* meridian, out of range values clipped, absent values absent; and it is told
\* under the node's own name (gpsConversion.c, wireFormat.c).
PositionOnLan ==
  \A s \in lan.text :
    LET p == Sample[lan.msg.seq]
        Shows(shown, field, v) == shown = IF field \in p.present THEN {v} ELSE {}
        step == (4 * AngleUnits) \div 2^LongitudeBits
    IN /\ s.when = p.when
       /\ Near(s.valid, p.valid, 2^Msn(p.valid))
       /\ \A x \in s.lat : Near(x, 2 * p.lat, step)
       /\ \A x \in s.lon : \E turn \in {-1, 0, 1} :
            Near(x, 2 * p.lon + turn * 4 * AngleUnits, step)
       /\ (s.lat # {}) = ("POS" \in p.present)
       /\ Shows(s.alt, "ELV", Clip(p.alt, AltMin, AltMax))
       /\ Shows(s.speed, "SPEED", Clip(p.speed, 0, SpeedMax))
       /\ Shows(s.hdop, "HDOP", Clip(p.hdop, 0, HdopMax))
       /\ LET id == NodeId[s.orig]
          IN CASE id.kind = "number" -> Number(setupNodeIdBinaryLongLong(id.value, 2)) = id.value
                                        /\ s.id = Digits(id.value, 10)
               [] id.kind \in {"mac", "name"} -> s.id = id.value
               [] id.kind = "ip" -> s.id = s.orig
               [] OTHER -> TRUE

\* Every open socket is in the list of interfaces or is the downlink socket, and
\* the scheduler is never left with a socket that was closed: also when the
\* start fails half way (networkInterfaces.c).
SocketsOwned ==
  /\ fds = closeInterfaces(txList) \cup (IF downlink THEN {"downlink"} ELSE {})
  /\ handlers \subseteq fds

===========================================================================
