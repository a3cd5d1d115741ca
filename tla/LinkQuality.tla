---------------------------- MODULE LinkQuality ----------------------------
(***************************************************************************)
(* How a node measures its links: the link quality algorithms etx_ff,      *)
(* etx_ffeth, etx_ffeth_nl80211, etx_fpm and etx_float behind the          *)
(* interface of lq_plugin.c, and the link hysteresis that takes their      *)
(* place when link quality is switched off.                                *)
(*                                                                         *)
(* The network decides how many packets are lost between two that arrive;  *)
(* the timers of the link (hello, loss, validity) may fire at any time.    *)
(* Link qualities are the 8 bit fractions of 255 of the code, costs its    *)
(* fixed point numbers.  The numbers of etx_float and of hysteresis, which *)
(* are floats in the code, lie on the grids Grain and Unit.                *)
(***************************************************************************)
EXTENDS Integers, FiniteSets, TLC

CONSTANTS Algorithms,    \* the algorithms to check (olsr_cnf->lq_algorithm)
          Links,           \* for each of them the links of the node
          Ethernet,        \* links on interfaces with mode ether
          Multiplier,      \* loss_link_multiplier of a link, of 65536
          WINDOW,          \* LQ_FF_WINDOW, LQ_FFETH_WINDOW
          QUICKSTART_INIT, \* LQ_FF_QUICKSTART_INIT
          Aging,           \* olsr_cnf->lq_aging, in percent
          QuickSteps,      \* LQ_QUICKSTART_STEPS
          HelloInterval,   \* loss_helloint, hello_etime in seconds
          Diffs,           \* differences of sequence numbers that arrive on a link
          ForeignLqs,      \* what the neighbour may measure
          Stations,        \* what nl80211 may report: bandwidth and signal
          MaxCount,        \* bound on packets in one second
          MaxMissed,       \* bound on HELLOs a link counts as lost, unless averaged
          MaxRun           \* bound on HELLOs an average counts as lost in a row

VARIABLES handler,   \* active_lq_handler, or hysteresis
          peer,      \* the algorithm of the neighbours
          link,      \* the link entries
          silent,    \* seconds since a packet of the link was counted
          lostRun,   \* HELLOs lost since the last one that arrived, for an average
          moved,     \* links whose cost is not the one of the last route calculation
          changed    \* changes_neighborhood, changes_topology

vars == <<handler, peer, link, silent, lostRun, moved, changed>>

Absent == -1
Unspec == -2
LINK_COST_BROKEN == 4194304
LOSS_MULTIPLIER == 65536
FPM_NUM == 1024
INTERNAL == 65535
Grain == 1000
Unit == 64
MINIMAL_USEFUL_LQ == 25        \* (unsigned int)(255 * 0.1)

Windowed == {"ff", "ffeth", "nl80211"}
Averaged == {"fpm", "float"}
Here == Links[handler]
Least(a, b) == IF a < b THEN a ELSE b

(* Division of C: towards zero.                                            *)
Quot(a, b) == IF a < 0 THEN -((-a) \div b) ELSE a \div b

(***************************************************************************)
(* Costs.  A pair is what HELLO and TC messages carry of a link: lq, nlq   *)
(* and, with nl80211, the penalties bw and rssi.                           *)
(***************************************************************************)
Raised(v) == IF v > 0 /\ v < 255 THEN v + 1 ELSE v

Useless(p) == p.lq < MINIMAL_USEFUL_LQ \/ p.nlq < MINIMAL_USEFUL_LQ

AtLeastOne(c) == IF c >= LINK_COST_BROKEN THEN LINK_COST_BROKEN
                 ELSE IF c = 0 THEN 1 ELSE c

CalcCostFf(p) ==
  IF Useless(p) THEN LINK_COST_BROKEN
  ELSE AtLeastOne((FPM_NUM * 255 * 255) \div (p.lq * p.nlq))

CalcCostFfeth(p) ==
  LET etx == (FPM_NUM * 255 * 255) \div (Raised(p.lq) * Raised(p.nlq))
  IN IF Useless(p) THEN LINK_COST_BROKEN
     ELSE AtLeastOne(IF p.lq = 255 /\ p.nlq = 255 THEN etx \div 10 ELSE etx)

CalcCostNl80211(p) ==
  LET etx == (FPM_NUM * 255 * 255) \div (Raised(p.lq) * Raised(p.nlq))
             + (FPM_NUM * (p.bw + p.rssi)) \div 255
  IN IF Useless(p) THEN LINK_COST_BROKEN
     ELSE AtLeastOne(IF p.lq = 255 /\ p.nlq = 255 THEN etx \div 10 ELSE etx)

CalcCostFpm(p) ==
  IF Useless(p) THEN LINK_COST_BROKEN
  ELSE AtLeastOne((((INTERNAL * 255) \div p.lq) * 255) \div p.nlq)

(* On the grid: lq and nlq are multiples of 1 / Grain.                     *)
CalcCostFloat(p) ==
  IF 10 * p.lq < Grain \/ 10 * p.nlq < Grain THEN LINK_COST_BROKEN
  ELSE AtLeastOne((FPM_NUM * Grain * Grain) \div (p.lq * p.nlq))

Cost(p) == CASE handler = "ff"      -> CalcCostFf(p)
             [] handler = "ffeth"   -> CalcCostFfeth(p)
             [] handler = "nl80211" -> CalcCostNl80211(p)
             [] handler = "fpm"     -> CalcCostFpm(p)
             [] handler = "float"   -> CalcCostFloat(p)
             [] OTHER               -> 1

(***************************************************************************)
(* The four bytes of a pair on the wire, and what a node reads.            *)
(***************************************************************************)
SerializePlain(p) == <<p.lq, p.nlq, 0, 0>>
SerializeFfeth(p) == <<0, 0, p.lq, p.nlq>>
SerializeNl80211(p) == <<p.bw, p.rssi, p.lq, p.nlq>>
SerializeFloat(p) == <<(p.lq * 255) \div Grain, (p.nlq * 255) \div Grain, 0, 0>>

Serialize(h, p) == CASE h = "ffeth"   -> SerializeFfeth(p)
                     [] h = "nl80211" -> SerializeNl80211(p)
                     [] h = "float"   -> SerializeFloat(p)
                     [] OTHER         -> SerializePlain(p)

Pair(l, n, b, r) == [lq |-> l, nlq |-> n, bw |-> b, rssi |-> r]
DeserializePlain(b) == Pair(b[1], b[2], 0, 0)
DeserializeFfeth(b) == Pair(b[3], b[4], 0, 0)
DeserializeNl80211(b) == Pair(b[3], b[4], b[1], b[2])
DeserializeFloat(b) == Pair((b[1] * Grain) \div 255, (b[2] * Grain) \div 255, 0, 0)

Deserialize(b) == CASE handler = "ffeth"   -> DeserializeFfeth(b)
                    [] handler = "nl80211" -> DeserializeNl80211(b)
                    [] handler = "float"   -> DeserializeFloat(b)
                    [] OTHER               -> DeserializePlain(b)

(***************************************************************************)
(* A new link entry, cleared by the algorithm.  raw is the lq of the code, *)
(* smooth its smoothed_lq; the algorithms that average only have raw.      *)
(***************************************************************************)
ClearPair == Pair(0, 0, 0, 0)

ClearHello == [raw |-> ClearPair, smooth |-> ClearPair,
               size |-> QUICKSTART_INIT, ptr |-> 0, missed |-> 0, perfect |-> FALSE,
               received |-> [i \in 0 .. WINDOW - 1 |-> 0],
               total |-> [i \in 0 .. WINDOW - 1 |-> 3]]

ClearAverage == [raw |-> ClearPair, quickstart |-> 0]

NewHysteresis == [quality |-> 0, pending |-> TRUE, lost |-> TRUE,
                  valid |-> FALSE, ahead |-> 0]

NewLink == (CASE handler \in Windowed -> ClearHello
              [] handler \in Averaged -> ClearAverage
              [] OTHER -> NewHysteresis) @@ [cost |-> LINK_COST_BROKEN]

(* What HELLO and TC messages say of a link.                               *)
CopyLq(k) == IF handler \in Windowed THEN k.smooth ELSE k.raw

(***************************************************************************)
(* The parser of etx_ff and its kin: d is the sequence number of a packet  *)
(* less that of the last one, modulo 2^16.                                 *)
(***************************************************************************)
SeqDiff(d) == IF d > 256 THEN 1 ELSE d

ParserFf(k, d) ==
  IF d = 0 THEN k
  ELSE [k EXCEPT !.received[k.ptr] = @ + 1, !.total[k.ptr] = @ + SeqDiff(d), !.missed = 0]

(* etx_ffeth and its nl80211 variant have the same parser of their own.    *)
ParserFfeth(k, d) == ParserFf(k, d)
ParserNl80211(k, d) == ParserFf(k, d)

Parse(k, d) == CASE handler = "ff"    -> ParserFf(k, d)
                 [] handler = "ffeth" -> ParserFfeth(k, d)
                 [] OTHER             -> ParserNl80211(k, d)

(***************************************************************************)
(* The timer of etx_ff and its kin, once a second.                         *)
(***************************************************************************)
RECURSIVE Sum(_, _)
Sum(f, n) == IF n = 0 THEN 0 ELSE f[n - 1] + Sum(f, n - 1)

(* Lost HELLOs take from what was received.                                *)
Reduced(received, missed) ==
  IF missed <= 1 THEN received
  ELSE IF missed * HelloInterval > WINDOW THEN 0
  ELSE (received * (WINDOW - missed * HelloInterval)) \div WINDOW

ReducedNl80211(received, missed) ==
  IF missed <= 1 THEN received
  ELSE received - (received * missed * HelloInterval) \div WINDOW

Measured(received, total, mult) ==
  LET factor == (FPM_NUM * mult) \div LOSS_MULTIPLIER
  IN IF total = 0 THEN 0
     ELSE ((Quot(factor * received, total) * 255) \div FPM_NUM) % 256

(* The ethernet booster: 242 and 229 are 0.95 and 0.90 of 255.             *)
Boosted(k, lq) == IF lq > 242 THEN TRUE ELSE IF lq > 229 THEN FALSE ELSE k.perfect

Enlarged(k) == [k EXCEPT !.size = Least(@ + 1, WINDOW)]

(* Mutant: the slot that comes into use keeps what it counted before.      *)
ShiftedNoClear(k) == [k EXCEPT !.ptr = (k.ptr + 1) % WINDOW]

Shifted(k) == LET p == (k.ptr + 1) % WINDOW
              IN [k EXCEPT !.ptr = p, !.received[p] = 0, !.total[p] = 0]

TimerFf(k, l) ==
  [k EXCEPT !.raw.lq = Measured(Reduced(Sum(k.received, k.size), k.missed),
                                Sum(k.total, k.size), Multiplier[l])]

(* A wireless link never measures 255.                                     *)
Ranked(k, l, lq) ==
  LET perfect == Boosted(k, lq)
  IN IF l \in Ethernet
     THEN [k EXCEPT !.perfect = perfect, !.raw.lq = IF perfect THEN 255 ELSE lq]
     ELSE [k EXCEPT !.raw.lq = IF lq > 0 THEN lq - 1 ELSE 0]

TimerFfeth(k, l) ==
  Ranked(k, l, Measured(Reduced(Sum(k.received, k.size), k.missed),
                        Sum(k.total, k.size), Multiplier[l]))

TimerNl80211(k, l) ==
  Ranked(k, l, Measured(ReducedNl80211(Sum(k.received, k.size), k.missed),
                        Sum(k.total, k.size), Multiplier[l]))

Timer(k, l) == Shifted(CASE handler = "ff"    -> TimerFf(Enlarged(k), l)
                         [] handler = "ffeth" -> TimerFfeth(Enlarged(k), l)
                         [] OTHER             -> TimerNl80211(Enlarged(k), l))

(***************************************************************************)
(* nl80211: the penalties of a station.  A rate above the reference rate   *)
(* of 54 Mbit/s wraps around.                                              *)
(***************************************************************************)
BandwidthToQuality(b) ==
  IF b = 0 THEN 0
  ELSE ((255 * (FPM_NUM - ((FPM_NUM * b) \div 10) \div 54)) \div FPM_NUM) % 256

SignalToQuality(s) ==
  CASE s > -75 -> 0 [] s \in -79 .. -75 -> 30 [] s \in -84 .. -80 -> 60
    [] s \in -89 .. -85 -> 120 [] s \in -94 .. -90 -> 160
    [] s \in -99 .. -95 -> 200 [] OTHER -> 255

(* found maps the links whose neighbour is a known station to what was     *)
(* reported of it.  The penalties go into both pairs; the cost stays.      *)
LinkInfoGet(ks, found) ==
  [l \in DOMAIN ks |->
     LET b == IF l \in DOMAIN found THEN BandwidthToQuality(found[l].bandwidth) ELSE 0
         r == IF l \in DOMAIN found THEN SignalToQuality(found[l].signal) ELSE 0
     IN [ks[l] EXCEPT !.raw.bw = b, !.raw.rssi = r, !.smooth.bw = b, !.smooth.rssi = r]]

(***************************************************************************)
(* A change of more than a tenth is passed on, and takes the others along. *)
(***************************************************************************)
Relevant(old, new, top) ==
  \/ old < new /\ (new >= top \/ new - old > old \div 10)
  \/ old > new /\ old - new > old \div 10

RelevantChange(k, top) == \/ Relevant(k.smooth.lq, k.raw.lq, top)
                          \/ Relevant(k.smooth.nlq, k.raw.nlq, top)

Smooth(k) == [k EXCEPT !.smooth = k.raw, !.cost = Cost(k.raw)]

TakenAlong(k, top) == /\ ~(k.smooth.lq >= top /\ k.smooth.nlq >= top)
                      /\ k.smooth.lq # k.raw.lq \/ k.smooth.nlq # k.raw.nlq

LqChange(ks, top) ==
  LET first == [l \in DOMAIN ks |-> IF RelevantChange(ks[l], top) THEN Smooth(ks[l])
                                                                  ELSE ks[l]]
      triggered == \E l \in DOMAIN ks : RelevantChange(ks[l], top)
  IN [links |-> IF triggered
                THEN [l \in DOMAIN ks |-> IF TakenAlong(first[l], top) THEN Smooth(first[l])
                                                                       ELSE first[l]]
                ELSE ks,
      changed |-> triggered]

HandleLqChangeFf(ks) == LqChange(ks, 255)
HandleLqChangeFfeth(ks) == LqChange(ks, 254)
HandleLqChangeNl80211(ks) == LqChange(ks, 254)

HandleLqChange(ks) == CASE handler = "ff"    -> HandleLqChangeFf(ks)
                        [] handler = "ffeth" -> HandleLqChangeFfeth(ks)
                        [] OTHER             -> HandleLqChangeNl80211(ks)

(***************************************************************************)
(* etx_fpm and etx_float: an average over HELLOs, faster at the start.     *)
(* Since old = INTERNAL - new, the rounded up v * old / INTERNAL of the    *)
(* code is v less the rounded down v * new / INTERNAL.                     *)
(***************************************************************************)
Alpha(k) == IF k.quickstart < QuickSteps THEN 25 ELSE Aging

Up(a, b) == (a + b - 1) \div b

LossWorkerFpm(k, l, lost) ==
  LET new == (Alpha(k) * INTERNAL) \div 100
      v == (k.raw.lq * INTERNAL) \div 255
      aged == v - (v * new) \div INTERNAL
      value == IF lost THEN aged ELSE aged + Up(new * Multiplier[l], LOSS_MULTIPLIER)
  IN [k EXCEPT !.raw.lq = Up(value * 255, INTERNAL),
               !.quickstart = Least(@ + 1, QuickSteps)]

LossWorkerFloat(k, l, lost) ==
  LET aged == (k.raw.lq * (100 - Alpha(k))) \div 100
  IN [k EXCEPT !.raw.lq = IF lost THEN aged
                          ELSE aged + (Alpha(k) * Grain * Multiplier[l]) \div (100 * LOSS_MULTIPLIER),
               !.quickstart = Least(@ + 1, QuickSteps)]

LossWorkerFf(k, l, lost) == IF lost THEN [k EXCEPT !.missed = Least(@ + 1, MaxMissed[l])] ELSE k

PacketLossWorker(k, l, lost) ==
  LET averaged == IF handler = "fpm" THEN LossWorkerFpm(k, l, lost)
                                     ELSE LossWorkerFloat(k, l, lost)
  IN IF handler \in Windowed THEN LossWorkerFf(k, l, lost)
     ELSE [averaged EXCEPT !.cost = Cost(averaged.raw)]

(* The neighbour's view of the link, NULL when it does not list it.        *)
MemorizeForeign(k, foreign) == [k EXCEPT !.raw.nlq = foreign]

(***************************************************************************)
(* Hysteresis: scaling 0.5, thresholds 0.8 and 0.3, on the grid Unit.      *)
(***************************************************************************)
Stability(q) == (q + Unit) \div 2
Instability(q) == q \div 2
High(q) == 10 * q > 8 * Unit
Low(q) == 10 * q < 3 * Unit

(* One step down for each packet missed, until the link is bad enough.     *)
RECURSIVE Missing(_, _)
Missing(q, n) == IF n = 0 \/ Low(q) THEN q ELSE Missing(Instability(q), n - 1)

(* HELLOs that timed out have moved the expected number ahead.             *)
UpdateHysteresisIncoming(k, d) ==
  LET missing == d - 1 - k.ahead
      up == Stability(k.quality)
  IN [k EXCEPT !.quality = IF k.valid /\ missing \in 1 .. 99
                           THEN Missing(Instability(up), missing - 1) ELSE up,
               !.valid = TRUE, !.ahead = 0]

ProcessHysteresis(k) ==
  CASE High(k.quality) -> [k EXCEPT !.pending = FALSE, !.lost = FALSE]
    [] Low(k.quality) -> [k EXCEPT !.pending = TRUE, !.lost = TRUE]
    [] OTHER -> k

(* lookup_link_status: neither lost nor hidden.                            *)
Advertised(k) == ~k.lost /\ ~k.pending

-----------------------------------------------------------------------------
(* The links whose cost a step changes.                                    *)
Move == moved' = moved \cup {l \in DOMAIN link : link'[l].cost # link[l].cost}

(* Every packet reaches the packet parser before its messages are read.    *)
Arrive(k, d) == CASE handler \in Windowed   -> Parse(k, d)
                  [] handler = "hysteresis" -> UpdateHysteresisIncoming(k, d)
                  [] OTHER                  -> k

Room(l) == handler \in Windowed => link[l].received[link[l].ptr] < MaxCount

Counted(l, d) == silent' = IF d = 0 THEN silent ELSE [silent EXCEPT ![l] = 0]

(* A packet without a HELLO.                                               *)
Packet(l, d) ==
  /\ l \in DOMAIN link /\ Room(l)
  /\ link' = [link EXCEPT ![l] = Arrive(@, d)]
  /\ Counted(l, d)
  /\ UNCHANGED <<handler, peer, lostRun, moved, changed>>

(* What a HELLO says of the link: the neighbour measured v; Unspec when it *)
(* lists it without a link type, Absent when it does not list it.          *)
Foreign(k, v) ==
  CASE v = Absent -> k
    [] v = Unspec -> MemorizeForeign(k, 0)
    [] OTHER -> MemorizeForeign(k, Deserialize(Serialize(peer, Pair(v, 0, 0, 0))).lq)

Heard(k, l, v) == IF handler = "hysteresis" THEN ProcessHysteresis(k)
                  ELSE PacketLossWorker(Foreign(k, v), l, FALSE)

(* A HELLO of a new neighbour makes its link entry first; the parser did   *)
(* not know it.                                                            *)
FirstHello(l, v) ==
  /\ l \notin DOMAIN link
  /\ link' = (l :> Heard(NewLink, l, v)) @@ link
  /\ silent' = (l :> 0) @@ silent
  /\ lostRun' = (l :> 0) @@ lostRun
  /\ moved' = moved \cup {k \in {l} : link'[k].cost # LINK_COST_BROKEN}
  /\ changed' = (changed \/ handler \in Averaged)
  /\ UNCHANGED <<handler, peer>>

Hello(l, d, v) ==
  /\ l \in DOMAIN link /\ Room(l)
  /\ link' = [link EXCEPT ![l] = Heard(Arrive(@, d), l, v)]
  /\ Counted(l, d)
  /\ lostRun' = [lostRun EXCEPT ![l] = 0]
  /\ changed' = (changed \/ handler \in Averaged)
  /\ Move
  /\ UNCHANGED <<handler, peer>>

(* olsr_expire_link_loss_timer.                                            *)
HelloLost(l) ==
  /\ l \in DOMAIN link
  /\ handler # "hysteresis"
  /\ link' = [link EXCEPT ![l] = PacketLossWorker(@, l, TRUE)]
  /\ lostRun' = IF handler \in Windowed THEN lostRun
                ELSE [lostRun EXCEPT ![l] = Least(@ + 1, MaxRun)]
  /\ changed' = (changed \/ handler \in Averaged)
  /\ Move
  /\ UNCHANGED <<handler, peer, silent>>

(* olsr_expire_link_hello_timer.                                           *)
HelloTimeout(l) ==
  /\ l \in DOMAIN link
  /\ handler = "hysteresis" /\ link[l].ahead < MaxMissed[l]
  /\ link' = [link EXCEPT ![l] =
                [ProcessHysteresis([@ EXCEPT !.quality = Instability(@)])
                   EXCEPT !.ahead = @ + 1]]
  /\ UNCHANGED <<handler, peer, silent, lostRun, moved, changed>>

(* L_LOST_LINK_time passes.                                                *)
LostOver(l) ==
  /\ l \in DOMAIN link
  /\ handler = "hysteresis" /\ link[l].lost
  /\ link' = [link EXCEPT ![l].lost = FALSE]
  /\ UNCHANGED <<handler, peer, silent, lostRun, moved, changed>>

(* The timer of the algorithm, once a second.  With nl80211 the stations   *)
(* are asked first; an answer without any station changes nothing.         *)
Tick(found, answered) ==
  LET asked == IF answered THEN LinkInfoGet(link, found) ELSE link
      result == HandleLqChange([l \in DOMAIN link |-> Timer(asked[l], l)])
  IN /\ handler \in Windowed
     /\ handler # "nl80211" => ~answered
     /\ link' = result.links
     /\ changed' = (changed \/ result.changed)
     /\ silent' = [l \in DOMAIN silent |-> Least(silent[l] + 1, WINDOW + 1)]
     /\ Move
     /\ UNCHANGED <<handler, peer, lostRun>>

(* The link is not heard of any more: olsr_expire_link_entry.              *)
Expire(l) ==
  /\ l \in DOMAIN link
  /\ link' = [k \in DOMAIN link \ {l} |-> link[k]]
  /\ silent' = [k \in DOMAIN link \ {l} |-> silent[k]]
  /\ lostRun' = [k \in DOMAIN link \ {l} |-> lostRun[k]]
  /\ moved' = moved \ {l}
  /\ changed' = TRUE
  /\ UNCHANGED <<handler, peer>>

(* olsr_process_changes: neighbourhood and routes are calculated anew.     *)
ProcessChanges ==
  /\ changed
  /\ moved' = {}
  /\ changed' = FALSE
  /\ UNCHANGED <<handler, peer, link, silent, lostRun>>

Views == ForeignLqs \cup {Absent, Unspec}
Empty == [l \in {} |-> 0]

Init == /\ handler \in Algorithms
        /\ peer \in {handler} \cup (Algorithms \cap {"ff", "ffeth"})
        /\ link = Empty /\ silent = Empty /\ lostRun = Empty /\ moved = {}
        /\ changed = FALSE

Next == \/ \E l \in Here : \/ HelloLost(l) \/ HelloTimeout(l)
                           \/ LostOver(l) \/ Expire(l)
                           \/ \E d \in Diffs[l] : Packet(l, d)
                           \/ \E v \in Views : FirstHello(l, v)
                           \/ \E d \in Diffs[l], v \in Views : Hello(l, d, v)
        \/ Tick(Empty, FALSE)
        \/ \E s \in SUBSET DOMAIN link : \E f \in [s -> Stations] : Tick(f, TRUE)
        \/ ProcessChanges

Spec == Init /\ [][Next]_vars

-----------------------------------------------------------------------------
(* A link on which nothing arrives any more costs too much to be used:     *)
(* after a full window of silence, after so many lost HELLOs, or because   *)
(* the neighbour writes its measurements where this node reads zeros      *)
(* ("detect etx_ffeth nodes with LQ 0").  With hysteresis such a link is not *)
(* advertised.  The booster of ethernet links is left out: it makes a     *)
(* link on which nothing arrives as cheap as one without loss.             *)
DeadLink ==
  \A l \in DOMAIN link :
    /\ handler \in Windowed /\ l \notin Ethernet /\ silent[l] > WINDOW
         => link[l].cost = LINK_COST_BROKEN
    /\ handler \in Averaged /\ lostRun[l] = MaxRun => link[l].cost = LINK_COST_BROKEN
    /\ handler = "hysteresis" /\ link[l].ahead > 2 => ~Advertised(link[l])
    /\ {handler, peer} \subseteq {"ff", "fpm", "float", "ffeth"}
       /\ (handler = "ffeth") # (peer = "ffeth")
         => link[l].cost = LINK_COST_BROKEN

(* The cost of a link is that of the smoothed measurements, which are      *)
(* what HELLO and TC messages say, and the routes rest on it unless a new  *)
(* calculation has been asked for: olsr_relevant_linkcost_change.          *)
CostsUsed ==
  \A l \in DOMAIN link :
    /\ handler \in {"ff", "ffeth", "fpm", "float"} =>
         \/ link[l].cost = Cost(CopyLq(link[l]))
         \/ handler \in Averaged /\ link[l].cost = LINK_COST_BROKEN
    /\ l \in moved => changed

=============================================================================
