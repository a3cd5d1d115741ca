------------------------------ MODULE Plugins ------------------------------
(***************************************************************************)
(* The plugin loader (plugin_loader.c), the parameter setters every plugin *)
(* can use (plugin_util.c), and the configuration of the plugin with the   *)
(* richest one, the position plugin (lib/pud: configuration.c and          *)
(* configTools.c): values that depend on one another and may come in any   *)
(* order.                                                                  *)
(*                                                                         *)
(* The value of a parameter line is a tuple of integers: <<n>> is the      *)
(* number n (or the address, name or text numbered n), <<>> is a text that *)
(* cannot be converted.                                                    *)
(***************************************************************************)
EXTENDS Integers, Sequences, FiniteSets, SequencesExt

CONSTANTS
  Version,        \* the interface version of the configured plugins, by name
  LoadOrder,      \* their names, in the order of the configuration file
  LineSeqs,       \* the position plugin's possible parameter lines: [key, v]
  PlainLines,     \* lines another plugin may be given: [kind, v]
  MulticastAddrs, \* the addresses that are multicast
  TooLong,        \* the names that are too long
  IfMax           \* PUD_TX_NON_OLSR_IF_MAX

VARIABLES
  phase,    \* "loading", "running", "exit", "closed"
  lines,    \* the position plugin's parameter lines
  next,     \* position in LoadOrder
  loaded,   \* olsr_plugins
  failed,   \* rv of olsr_load_plugins
  cfg,      \* the position plugin's configuration
  active    \* the plugins whose init function succeeded

vars == <<phase, lines, next, loaded, failed, cfg, active>>

PUD == "pud"
MaxUS == 65535

---------------------------------------------------------------------------
(* Conversions. A result is [ok, cfg].                                     *)

Accept(c) == [ok |-> TRUE, cfg |-> c]
Reject(c) == [ok |-> FALSE, cfg |-> c]

readULL(v) == v # <<>>
readUC(v) == v # <<>> /\ v[1] <= 255
readUS(v) == v # <<>> /\ v[1] <= MaxUS
readBool(v) == v # <<>> /\ v[1] <= 1
readDouble(v) == v # <<>>

\* The setters every plugin can name in its table.
set_plugin_int(v) == v # <<>>
set_plugin_long(v) == v # <<>>
set_plugin_port(v) == v # <<>> /\ v[1] <= MaxUS
set_plugin_boolean(v) == v # <<>> /\ v[1] <= 1
set_plugin_string(v) == v # <<>> /\ v[1] \notin TooLong
set_plugin_ipaddress(v) == v # <<>>
set_plugin_parameter(kind, v) ==
  CASE kind = "int" -> set_plugin_int(v)
    [] kind = "long" -> set_plugin_long(v)
    [] kind = "port" -> set_plugin_port(v)
    [] kind = "boolean" -> set_plugin_boolean(v)
    [] kind = "string" -> set_plugin_string(v)
    [] kind = "ipaddress" -> set_plugin_ipaddress(v)

\* Stored as soon as it is converted, checked afterwards.
Store(c, key, v, converted, ok) ==
  IF ~converted THEN Reject(c)
  ELSE LET stored == [c EXCEPT !.num[key] = v[1]]
       IN IF ok THEN Accept(stored) ELSE Reject(stored)
Plain(c, key, v, converted) == Store(c, key, v, converted, TRUE)
AtLeastOne(c, key, v, converted) == Store(c, key, v, converted, converted /\ v[1] >= 1)

---------------------------------------------------------------------------
(* configuration.c: numbers and switches                                   *)

setTxTtl(c, v) == AtLeastOne(c, "txTtl", v, readUC(v))
setOlsrTtl(c, v) == Plain(c, "olsrTtl", v, readUC(v))

\* The intervals of the transmissions and of the search for a gateway.
Intervals ==
  {"updateIntervalStationary", "updateIntervalMoving", "uplinkUpdateIntervalStationary",
   "uplinkUpdateIntervalMoving", "gatewayDeterminationInterval"}
setInterval(c, key, v) == AtLeastOne(c, key, v, readULL(v))

\* The thresholds and defaults of the movement detection; one is a fraction.
Thresholds ==
  {"movingSpeedThreshold", "movingDistanceThreshold", "dopMultiplier", "defaultHdop", "defaultVdop"}
setThreshold(c, key, v) ==
  Plain(c, key, v, IF key = "dopMultiplier" THEN readDouble(v) ELSE readULL(v))
setAverageDepth(c, v) == AtLeastOne(c, "averageDepth", v, readULL(v))

\* The calls that have to agree before the state changes.
HysteresisCounts ==
  {"hysteresisToStationary", "hysteresisToMoving", "gatewayHysteresisToStationary",
   "gatewayHysteresisToMoving"}
setHysteresisCount(c, key, v) == Plain(c, key, v, readULL(v))

\* The list of messages seen, loopback and the gps daemon.
Switches == {"useDeDup", "deDupDepth", "useLoopback", "useGpsd"}
setSwitch(c, key, v) == Plain(c, key, v, IF key = "deDupDepth" THEN readULL(v) ELSE readBool(v))

\* These are checked before they are stored.
Checked(c, key, v, ok) ==
  IF ok THEN Accept([c EXCEPT !.num[key] = v[1]]) ELSE Reject(c)
setPositionFilePeriod(c, v) ==
  Checked(c, "positionFilePeriod", v,
          readULL(v) /\ (v[1] = 0 \/ v[1] \in 1000 .. 320000000))
setDownlinkPort(c, v) == Checked(c, "downlinkPort", v, readUS(v) /\ v[1] >= 1)
setPositionFile(c, v) == Checked(c, "positionFile", v, v[1] \notin TooLong)
setPositionOutputFile(c, v) == Checked(c, "positionOutputFile", v, v[1] \notin TooLong)
setTxNmeaMessagePrefix(c, v) == Checked(c, "txNmeaMessagePrefix", v, v # <<>>)
setGpsd(c, v) == Checked(c, "gpsd", v, v # <<>> /\ v[1] \notin TooLong)

addTxNonOlsrInterface(c, v) ==
  IF Len(c.ifs) >= IfMax \/ v[1] \in TooLong THEN Reject(c)
  ELSE Accept(IF Contains(c.ifs, v[1]) THEN c ELSE [c EXCEPT !.ifs = Append(@, v[1])])

---------------------------------------------------------------------------
(* Addresses and their ports                                               *)

\* Mutant: an address always comes with the default port.
readIPAddressFreshPort(a, v, portDefault) ==
  [addr |-> v[1], port |-> portDefault, set |-> TRUE]

\* An address keeps the port that was set before it.
readIPAddress(a, v, portDefault) ==
  [addr |-> v[1], port |-> IF a.set THEN a.port ELSE portDefault, set |-> TRUE]

TxMcDefault == 0
TxPortDefault == 2240
UplinkDefault == 0
UplinkPortDefault == 2241
DownlinkPortDefault == 2242

getTxMcAddr(c) ==
  IF c.txMc.set THEN c.txMc ELSE readIPAddress(c.txMc, <<TxMcDefault>>, TxPortDefault)
setTxMcAddr(c, v) ==
  IF v = <<>> THEN Reject(c)
  ELSE LET stored == [c EXCEPT !.txMc = readIPAddress(@, v, TxPortDefault)]
       IN IF v[1] \in MulticastAddrs THEN Accept(stored) ELSE Reject(stored)
setTxMcPort(c, v) ==
  IF ~(readUS(v) /\ v[1] >= 1) THEN Reject(c)
  ELSE Accept([c EXCEPT !.txMc = [getTxMcAddr(c) EXCEPT !.port = v[1]]])

getUplinkAddr(c) ==
  IF c.uplink.set THEN c.uplink
  ELSE readIPAddress(c.uplink, <<UplinkDefault>>, UplinkPortDefault)
setUplinkAddr(c, v) ==
  IF v = <<>> THEN Reject(c)
  ELSE Accept([c EXCEPT !.uplink = readIPAddress(@, v, UplinkPortDefault)])
setUplinkPort(c, v) ==
  IF ~(readUS(v) /\ v[1] >= 1) THEN Reject(c)
  ELSE Accept([c EXCEPT !.uplink = [getUplinkAddr(c) EXCEPT !.port = v[1]]])
getDownlinkPort(c) ==
  IF c.num["downlinkPort"] = 0 THEN DownlinkPortDefault ELSE c.num["downlinkPort"]

---------------------------------------------------------------------------
(* The node identification: <<type, id>>, -1 an absent part                *)

IPV4 == 4
MAC == 0
DNS == 3
MSISDN == 1
Known == {IPV4, MAC, DNS, MSISDN}

\* An MSISDN is a number in its range; a name of the host is always valid.
setupNodeIdBinaryAndValidate(id) == id.type = MSISDN => id.id \in 1 .. 9

setNodeId(c, v) ==
  LET cleared == [c EXCEPT !.id.id = -1, !.id.binary = FALSE]
      typed == IF v[1] = -1 THEN cleared ELSE [cleared EXCEPT !.id.type = v[1]]
      named == [typed EXCEPT !.id.id =
                  IF v[2] # -1 THEN v[2] ELSE IF typed.id.type = DNS THEN 0 ELSE -1]
  IN CASE v[1] \notin Known \cup {-1} -> Reject(cleared)
       [] v[2] \in TooLong -> Reject(typed)
       [] named.id.id = -1 /\ typed.id.type \notin {MAC, IPV4} -> Reject(typed)
       [] ~setupNodeIdBinaryAndValidate(named.id) -> Reject(named)
       [] OTHER -> Accept([named EXCEPT !.id.binary = TRUE])

---------------------------------------------------------------------------
(* The table of parameters, and the checks at initialisation               *)

plugin_parameters(c, key, v) ==
  CASE key = "txTtl" -> setTxTtl(c, v)
    [] key = "olsrTtl" -> setOlsrTtl(c, v)
    [] key \in Intervals -> setInterval(c, key, v)
    [] key \in Thresholds -> setThreshold(c, key, v)
    [] key = "averageDepth" -> setAverageDepth(c, v)
    [] key \in HysteresisCounts -> setHysteresisCount(c, key, v)
    [] key \in Switches -> setSwitch(c, key, v)
    [] key = "positionFilePeriod" -> setPositionFilePeriod(c, v)
    [] key = "positionFile" -> setPositionFile(c, v)
    [] key = "positionOutputFile" -> setPositionOutputFile(c, v)
    [] key = "txNmeaMessagePrefix" -> setTxNmeaMessagePrefix(c, v)
    [] key = "gpsd" -> setGpsd(c, v)
    [] key = "txNonOlsrIf" -> addTxNonOlsrInterface(c, v)
    [] key = "txMcAddr" -> setTxMcAddr(c, v)
    [] key = "txMcPort" -> setTxMcPort(c, v)
    [] key = "uplinkAddr" -> setUplinkAddr(c, v)
    [] key = "uplinkPort" -> setUplinkPort(c, v)
    [] key = "downlinkPort" -> setDownlinkPort(c, v)
    [] key = "nodeId" -> setNodeId(c, v)
    [] OTHER -> Accept(c)

Numbers ==
  [txTtl |-> 1, olsrTtl |-> 64, updateIntervalStationary |-> 60, updateIntervalMoving |-> 5,
   uplinkUpdateIntervalStationary |-> 180, uplinkUpdateIntervalMoving |-> 15,
   gatewayDeterminationInterval |-> 1, movingSpeedThreshold |-> 9,
   movingDistanceThreshold |-> 50, dopMultiplier |-> 2, defaultHdop |-> 50,
   defaultVdop |-> 50, averageDepth |-> 5, hysteresisToStationary |-> 17,
   hysteresisToMoving |-> 5, gatewayHysteresisToStationary |-> 17,
   gatewayHysteresisToMoving |-> 5, useDeDup |-> 1, deDupDepth |-> 256,
   useLoopback |-> 0, useGpsd |-> 1, positionFilePeriod |-> 0, positionFile |-> 0,
   positionOutputFile |-> 0, txNmeaMessagePrefix |-> 0, gpsd |-> 0, downlinkPort |-> 0]
NoAddr == [addr |-> -1, port |-> 0, set |-> FALSE]
Defaults == [num |-> Numbers, ifs |-> <<>>, txMc |-> NoAddr, uplink |-> NoAddr,
             id |-> [type |-> IPV4, id |-> -1, binary |-> FALSE]]

checkConfig(c) ==
  /\ c.ifs # <<>>
  /\ c.num["updateIntervalMoving"] <= c.num["updateIntervalStationary"]
  /\ c.num["uplinkUpdateIntervalMoving"] <= c.num["uplinkUpdateIntervalStationary"]
  /\ ~(c.uplink.set /\ c.uplink.port = getDownlinkPort(c))

\* initPud: the checks, and the list of messages seen needs an entry.
initPud(c) == checkConfig(c) /\ c.num["deDupDepth"] >= 1

---------------------------------------------------------------------------
(* plugin_loader.c                                                         *)

\* All parameters are sent, also when one before was refused.
Sent(c, ls) ==
  FoldLeft(LAMBDA r, l : LET s == plugin_parameters(r.cfg, l.key, l.v)
                         IN [ok |-> r.ok /\ s.ok, cfg |-> s.cfg],
           Accept(c), ls)

MinVersion == 5
olsr_add_dl(name) == Version[name] >= MinVersion

\* The init function runs whatever became of the parameters, and what it
\* returns is not looked at.
init_olsr_plugin(name) ==
  IF name = PUD
  THEN LET r == Sent(cfg, lines)
       IN /\ cfg' = r.cfg
          /\ active' = IF initPud(r.cfg) THEN active \cup {PUD} ELSE active
          /\ failed' = (failed \/ ~r.ok)
  ELSE /\ active' \in {active, active \cup {name}}
       /\ \E l \in PlainLines : failed' = (failed \/ ~set_plugin_parameter(l.kind, l.v))
       /\ UNCHANGED cfg

\* One round of olsr_load_plugins.
olsr_load_dl ==
  /\ phase = "loading"
  /\ next <= Len(LoadOrder)
  /\ next' = next + 1
  /\ LET name == LoadOrder[next]
     IN \/ /\ olsr_add_dl(name)
           /\ loaded' = <<name>> \o loaded
           /\ init_olsr_plugin(name)
        \/ \* dlopen failed, or an interface that is too old
           /\ failed' = TRUE
           /\ UNCHANGED <<loaded, cfg, active>>
  /\ UNCHANGED <<phase, lines>>

\* The end of olsr_load_plugins.
olsr_load_plugins ==
  /\ phase = "loading"
  /\ next > Len(LoadOrder)
  /\ phase' = IF failed THEN "exit" ELSE "running"
  /\ UNCHANGED <<lines, next, loaded, failed, cfg, active>>

\* dlclose runs the plugin's destructor.
olsr_close_plugins ==
  /\ phase = "running"
  /\ phase' = "closed"
  /\ active' = active \ {loaded[k] : k \in DOMAIN loaded}
  /\ UNCHANGED <<lines, next, loaded, failed, cfg>>

Init ==
  /\ phase = "loading"
  /\ lines \in LineSeqs
  /\ next = 1
  /\ loaded = <<>>
  /\ failed = FALSE
  /\ cfg = Defaults
  /\ active = {}

Next == olsr_load_dl \/ olsr_load_plugins \/ olsr_close_plugins

Spec == Init /\ [][Next]_vars

---------------------------------------------------------------------------
(* Properties                                                              *)

Given(key) == {k \in DOMAIN lines : lines[k].key = key}
LastSaid(key) == lines[CHOOSE k \in Given(key) : \A j \in Given(key) : j <= k].v[1]
Said(key, default) == IF Given(key) = {} THEN default ELSE LastSaid(key)

\* Once the daemon runs, what is in force is what the configuration says, the
\* last line for a parameter where there are several and the default where
\* there is none, in whatever order lines that share state (an address and its
\* port) were given (configTools.c:310, configuration.c:690, 896).
AsConfigured ==
  phase = "running" /\ PUD \in active =>
    /\ \A key \in DOMAIN Numbers : cfg.num[key] = Said(key, Numbers[key])
    /\ getTxMcAddr(cfg) = [addr |-> Said("txMcAddr", TxMcDefault),
                           port |-> Said("txMcPort", TxPortDefault), set |-> TRUE]
    /\ Given("uplinkAddr") # {} =>
         cfg.uplink = [addr |-> LastSaid("uplinkAddr"),
                       port |-> Said("uplinkPort", UplinkPortDefault), set |-> TRUE]
    /\ \A k \in DOMAIN lines :
         lines[k].key = "txNonOlsrIf" => Contains(cfg.ifs, lines[k].v[1])

\* A daemon that runs loaded every plugin it was told to, and a position plugin
\* that is active then runs on values that are all within their ranges, although
\* setters store a value before they refuse it and the plugin is initialised
\* with it (plugin_loader.c:126, 308).
RunsOnValidValues ==
  phase = "running" =>
    /\ {loaded[k] : k \in DOMAIN loaded} = {LoadOrder[k] : k \in DOMAIN LoadOrder}
    /\ PUD \in active =>
         /\ cfg.num["updateIntervalMoving"] \in 1 .. cfg.num["updateIntervalStationary"]
         /\ cfg.num["uplinkUpdateIntervalMoving"]
              \in 1 .. cfg.num["uplinkUpdateIntervalStationary"]
         /\ cfg.num["txTtl"] \in 1 .. 255
         /\ cfg.num["averageDepth"] >= 1
         /\ cfg.txMc.set => cfg.txMc.addr \in MulticastAddrs
         /\ cfg.uplink.set => cfg.uplink.port # getDownlinkPort(cfg)
         /\ Given("nodeId") # {} => cfg.id.binary

===========================================================================
