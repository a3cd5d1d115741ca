------------------------------ MODULE InfoPrint ------------------------------
(***************************************************************************)
(* What the info plugins say: the JSON writer of lib/info/json_helpers.c   *)
(* with its entry counters, the printers of lib/jsoninfo and lib/netjson   *)
(* that call it, and the tables of lib/txtinfo.                            *)
(*                                                                         *)
(* A printer is the sequence of calls it makes to the writer.  A call is   *)
(* [op, k]: op opens or closes an object or an array (k = <<key>>, or <<>> *)
(* where the code passes NULL), or is a run of plain values with the keys  *)
(* k ("" for NULL).  A text is the sequence of what the calls put out;     *)
(* each piece knows whether a comma precedes it.  What a value looks like  *)
(* is left out.                                                            *)
(*                                                                         *)
(* The daemon's tables are a record w of sequences, one member per row.    *)
(* Where only the number of rows matters, or whether the code prints a row *)
(* (a route without a path, a slot without a gateway), the member is a     *)
(* BOOLEAN: is the row printed.  Links, edges, neighbours and MID entries  *)
(* keep their addresses, for the graph of netjson.                         *)
(***************************************************************************)
EXTENDS Integers, Sequences, FiniteSets, SequencesExt

---------------------------------------------------------------------------
(* The calls.                                                              *)

ObjectOpen(key) == <<[op |-> "{", k |-> <<key>>]>>
ArrayOpen(key) == <<[op |-> "[", k |-> <<key>>]>>
EntryOpen == <<[op |-> "{", k |-> <<>>]>>
ObjectClose == <<[op |-> "}", k |-> <<>>]>>
ArrayClose == <<[op |-> "]", k |-> <<>>]>>
Values(keys) == IF keys = <<>> THEN <<>> ELSE <<[op |-> "v", k |-> keys]>>
Value(key) == Values(<<key>>)
Plain(n) == Values([i \in 1..n |-> ""])

Calls(s) == FlattenSeq(s)

\* F(v), with v evaluated once.
With(v, F(_)) == CHOOSE r \in {F(x) : x \in {v}} : TRUE

\* prog for every row that is printed.
Rows(table, prog) ==
  Calls([i \in 1..Len(table) |-> IF table[i] THEN prog ELSE <<>>])

\* prog for every row.
Each(table, prog) == Rows([i \in 1..Len(table) |-> TRUE], prog)

---------------------------------------------------------------------------
(* The writer: a session is the entry counters of the open levels.         *)

abuf_json_reset_entry_number_and_depth == <<0>>

Entries(session) == session[Len(session)]

Counted(session, n) == [session EXCEPT ![Len(session)] = @ + n]

abuf_json_insert_comma(session) == Entries(session) > 0

Piece(session, call) ==
  [c |-> abuf_json_insert_comma(session), op |-> call.op, k |-> call.k]

abuf_json_mark_object(st, call) ==
  IF call.op \in {"{", "["}
  THEN [out |-> Append(st.out, Piece(st.session, call)),
        session |-> Append(Counted(st.session, 1), 0)]
  ELSE [out |-> Append(st.out, [c |-> FALSE, op |-> call.op, k |-> call.k]),
        session |-> Front(st.session)]

\* abuf_json_boolean, _string, _int, _float, _ip_address, _ip_address46 and
\* _prefix: a comma if something precedes, then one more entry.
abuf_json_values(st, call) ==
  [out |-> Append(st.out, Piece(st.session, call)),
   session |-> Counted(st.session, Len(call.k))]

abuf_json_call(st, call) ==
  IF call.op = "v" THEN abuf_json_values(st, call)
  ELSE abuf_json_mark_object(st, call)

\* All calls, in order.
RECURSIVE Write(_, _)
Write(st, calls) ==
  IF calls = <<>> THEN st
  ELSE IF Len(calls) = 1 THEN abuf_json_call(st, calls[1])
  ELSE LET half == Len(calls) \div 2
       IN With(Write(st, SubSeq(calls, 1, half)),
               LAMBDA first : Write(first, SubSeq(calls, half + 1, Len(calls))))

\* abuf_json_mark_output: the outermost braces.
OutputOpen == [out |-> <<[c |-> FALSE, op |-> "{", k |-> <<>>]>>,
               session |-> Append(abuf_json_reset_entry_number_and_depth, 0)]
OutputClose == <<[c |-> FALSE, op |-> "}", k |-> <<>>]>>

---------------------------------------------------------------------------
(* jsoninfo: the pieces several printers share.                            *)

print_msg_params(name) ==
  ObjectOpen(name) \o Values(<<"emissionInterval", "validityTime">>)
  \o ObjectClose

print_hna_array_entry ==
  EntryOpen \o Values(<<"gateway", "destination", "genmask", "validityTime">>)
  \o ObjectClose

print_link_quality_multipliers_array_entry ==
  EntryOpen \o Values(<<"route", "multiplier">>) \o ObjectClose

print_ipc_net_array_entry ==
  EntryOpen \o Values(<<"host", "ipAddress", "genmask">>) \o ObjectClose

print_interface_config(w, name, present) ==
  Calls(<<
    ObjectOpen(name),
    IF ~ present THEN <<>> ELSE Calls(<<
      Values(<<"ipv4Broadcast", "ipv6Multicast", "ipv4Source", "ipv6Source",
               "ipv6SourcePrefixLength", "mode", "weightValue",
               "weightFixed">>),
      print_msg_params("hello"), print_msg_params("tc"),
      print_msg_params("mid"), print_msg_params("hna"),
      ArrayOpen("linkQualityMultipliers"),
      Rows(w.mults, print_link_quality_multipliers_array_entry),
      ArrayClose,
      Values(<<"linkQualityMultipliersCount", "autoDetectChanges">>)>>),
    ObjectClose>>)

print_interface_olsr(name, up) ==
  Calls(<<
    ObjectOpen(name), Value("up"),
    IF ~ up THEN <<>> ELSE Calls(<<
      Values(<<"ipv4Address", "ipv4Netmask", "ipv4Broadcast", "mode",
               "ipv6Address", "ipv6Multicast", "ipAddress",
               "emulatedInterface", "olsrSocket", "sendSocket", "metric",
               "mtu", "flags", "index", "wireless", "name", "seqNum">>),
      ObjectOpen("messageTimes"), Values(<<"hello", "tc", "mid", "hna">>),
      ObjectClose,
      Values(<<"icmpRedirectBackup", "spoofFilterBackup",
               "helloEmissionInterval">>),
      ObjectOpen("validityTimes"), Values(<<"hello", "tc", "mid", "hna">>),
      ObjectClose,
      Values(<<"forwardingTimeout", "sgwZeroBwTimeout", "ttlIndex",
               "immediateSendTc">>)>>),
    ObjectClose>>)

ipc_print_gateway_entry ==
  Values(<<"selected", "selectable", "originator", "prefix", "prefixLen",
           "uplink", "downlink", "cost", "IPv4", "IPv4-NAT", "IPv6",
           "expireTime", "cleanupTime", "pathcost", "hops">>)

\* A row of w.nbrs: addr, and two, the number of its 2-hop neighbours.
ipc_print_neighbors_internal(w, list_2hop) ==
  Calls(<<
    ArrayOpen(IF list_2hop THEN "2hop" ELSE "neighbors"),
    Calls([i \in 1..Len(w.nbrs) |-> Calls(<<
      EntryOpen,
      Values(<<"ipAddress", "symmetric", "willingness", "isMultiPointRelay",
               "wasMultiPointRelay", "multiPointRelaySelector", "skip",
               "neighbor2nocov", "linkcount">>),
      IF list_2hop
      THEN ArrayOpen("twoHopNeighbors") \o Plain(w.nbrs[i].two) \o ArrayClose
      ELSE <<>>,
      Value("twoHopNeighborCount"),
      ObjectClose>>)]),
    ArrayClose>>)

ipc_print_neighbors(w) == ipc_print_neighbors_internal(w, FALSE)
ipc_print_twohop(w) == ipc_print_neighbors_internal(w, TRUE)

ipc_print_links(w) ==
  Calls(<<
    ArrayOpen("links"),
    Each(w.links, Calls(<<
      EntryOpen,
      Values(<<"localIP", "remoteIP", "olsrInterface", "ifName",
               "validityTime", "symmetryTime", "asymmetryTime", "vtime",
               "currentLinkStatus", "previousLinkStatus", "hysteresis",
               "pending", "lostLinkTime", "helloTime", "lastHelloTime",
               "seqnoValid", "seqno", "lossHelloInterval", "lossTime",
               "lossMultiplier", "linkCost", "linkQuality",
               "neighborLinkQuality">>),
      ObjectClose>>)),
    ArrayClose>>)

ipc_print_routes(w) ==
  Calls(<<
    ArrayOpen("routes"),
    Rows(w.routes, Calls(<<
      EntryOpen,
      Values(<<"destination", "genmask", "gateway", "metric", "etx",
               "rtpMetricCost", "networkInterface">>),
      ObjectClose>>)),
    ArrayClose>>)

ipc_print_topology(w) ==
  Calls(<<
    ArrayOpen("topology"),
    Rows([i \in 1..Len(w.edges) |-> w.edges[i].inv], Calls(<<
      EntryOpen,
      Values(<<"lastHopIP", "pathCost", "validityTime", "refCount", "msgSeq",
               "msgHops", "hops", "ansn", "tcIgnored", "errSeq",
               "errSeqValid", "destinationIP", "tcEdgeCost", "ansnEdge",
               "linkQuality", "neighborLinkQuality">>),
      ObjectClose>>)),
    ArrayClose>>)

ipc_print_hna(w) ==
  Calls(<<ArrayOpen("hna"),
          Rows(w.hna, print_hna_array_entry),
          Rows(w.hnas, print_hna_array_entry),
          ArrayClose>>)

\* A row of w.mids: main, and the sequence aliases.
ipc_print_mid(w) ==
  Calls(<<
    ArrayOpen("mid"),
    Calls([i \in 1..Len(w.mids) |-> Calls(<<
      EntryOpen,
      ObjectOpen("main"), Values(<<"ipAddress", "validityTime">>), ObjectClose,
      ArrayOpen("aliases"),
      Each(w.mids[i].aliases,
           EntryOpen \o Values(<<"ipAddress", "validityTime">>)
           \o ObjectClose),
      ArrayClose,
      ObjectClose>>)]),
    ArrayClose>>)

\* w.gws: does the gateway serve the IP version.
ipc_print_gateways_ipvx(w, key) ==
  Calls(<<
    ArrayOpen(key),
    IF w.sgw
    THEN Rows(w.gws, EntryOpen \o ipc_print_gateway_entry \o ObjectClose)
    ELSE <<>>,
    ArrayClose>>)

ipc_print_gateways(w) ==
  Calls(<<ObjectOpen("gateways"), ipc_print_gateways_ipvx(w, "ipv4"),
          ipc_print_gateways_ipvx(w, "ipv6"), ObjectClose>>)

\* w.tunnels: does the tunnel slot hold a gateway.
sgw_ipvx(w, key) ==
  Calls(<<
    ArrayOpen(key),
    IF w.sgw
    THEN Rows(w.tunnels, Calls(<<
           EntryOpen, ipc_print_gateway_entry,
           Values(<<"destination", "tunnel", "tableNr", "ruleNr",
                    "bypassRuleNr">>),
           ObjectClose>>))
    ELSE <<>>,
    ArrayClose>>)

sgw_egress_bw(key) ==
  ObjectOpen(key)
  \o Values(<<"requireNetwork", "requireGateway", "egressUk", "egressDk",
              "pathCost", "network", "networkLength", "gateway",
              "networkSet", "gatewaySet", "costs">>)
  \o ObjectClose

sgw_egress_route_info(key) ==
  ObjectOpen(key)
  \o Values(<<"active", "family", "rtTable", "flags", "scope", "ifIndex",
              "metric", "protocol", "srcSet", "gwSet", "dstSet",
              "delSimilar", "blackhole", "srcStore", "gwStore", "dstStore",
              "dstStoreLength">>)
  \o ObjectClose

sgw_egress(w) ==
  Calls(<<
    ArrayOpen("egress"),
    Rows(w.egress, Calls(<<
      EntryOpen,
      Values(<<"selected", "name", "ifIndex", "tableNr", "ruleNr",
               "bypassRuleNr", "upPrevious", "upCurrent", "upChanged">>),
      sgw_egress_bw("bwPrevious"), sgw_egress_bw("bwCurrent"),
      Values(<<"bwCostsChanged", "bwNetworkChanged", "bwGatewayChanged",
               "bwChanged">>),
      sgw_egress_route_info("networkRouteCurrent"),
      sgw_egress_route_info("egressRouteCurrent"),
      Value("inEgressFile"),
      ObjectClose>>)),
    ArrayClose>>)

ipc_print_sgw(w) ==
  Calls(<<ObjectOpen("sgw"), sgw_egress(w), sgw_ipvx(w, "ipv4"),
          sgw_ipvx(w, "ipv6"), ObjectClose>>)

\* The fields of the position that are printed one by one when present.
PositionFields ==
  <<"pdop", "hdop", "vdop", "latitude", "longitude", "elevation", "speed",
    "track", "magneticTrack", "magneticVariation", "separation", "dgpsage",
    "dgpssid">>

\* w.pud = 0: the position plugin is not there; 1: it has no fix; 2: every
\* field is present.
ipc_print_pud_position(w) ==
  LET fix == w.pud = 2
      If(calls) == IF fix THEN calls ELSE <<>>
  IN Calls(<<
    ObjectOpen("pudPosition"),
    IF w.pud = 0 THEN <<>> ELSE Calls(<<
      Value("nodeId"),
      If(ObjectOpen("date") \o Values(<<"year", "month", "day">>)
         \o ObjectClose),
      If(ObjectOpen("time") \o Values(<<"hour", "minute", "second", "hsec">>)
         \o ObjectClose),
      ArrayOpen("present"), If(Plain(2)), ArrayClose, Value("presentValue"),
      If(ArrayOpen("smask") \o Plain(1) \o ArrayClose \o Value("smaskValue")),
      If(Values(<<"sig", "sigValue">>)), If(Values(<<"fix", "fixValue">>)),
      Calls([i \in DOMAIN PositionFields |-> If(Value(PositionFields[i]))]),
      ObjectOpen("satellites"),
      If(Value("inUseCount")),
      If(ArrayOpen("inUse") \o Plain(1) \o ArrayClose),
      If(Value("inViewCount")),
      If(Calls(<<ArrayOpen("inView"), EntryOpen,
                 Values(<<"id", "elevation", "azimuth", "signal">>),
                 ObjectClose, ArrayClose>>)),
      ObjectClose>>),
    ObjectClose>>)

ipc_print_version(w) ==
  ObjectOpen("version")
  \o Values(<<"version", "gitDescriptor", "gitSha", "releaseVersion",
              "sourceHash">>)
  \o ObjectClose

\* w.ifs: is the interface up.
ipc_print_interfaces(w) ==
  Calls(<<
    ArrayOpen("interfaces"),
    Calls([i \in 1..Len(w.ifs) |-> Calls(<<
      EntryOpen,
      Values(<<"name", "configured", "hostEmulation",
               "hostEmulationAddress">>),
      print_interface_olsr("olsrInterface", w.ifs[i]),
      print_interface_config(w, "InterfaceConfiguration", TRUE),
      print_interface_config(w, "InterfaceConfigurationDefaults", w.ifs[i]),
      ObjectClose>>)]),
    ArrayClose>>)

ConfigHead(w) ==
  Calls(<<
    ObjectOpen("config"), Value("configurationChecksum"),
    ArrayOpen("cli"), Plain(Len(w.argv)), ArrayClose,
    Values(<<"configurationFile", "olsrPort", "debugLevel", "noFork",
             "pidFile", "hostEmulation", "ipVersion", "allowNoInt",
             "tosValue", "rtProto">>),
    ObjectOpen("rtTable"),
    Values(<<"main", "default", "tunnel", "priority", "tunnelPriority",
             "defaultOlsrPriority", "defaultPriority">>),
    ObjectClose,
    ObjectOpen("willingness"),
    Values(<<"willingness", "auto", "updateInterval">>), ObjectClose,
    ObjectOpen("fib"), Values(<<"metric", "metricDefault">>), ObjectClose,
    ObjectOpen("hysteresis"),
    Values(<<"enabled", "scaling", "thresholdLow", "thresholdHigh">>),
    ObjectClose,
    ArrayOpen("hna"), Rows(w.hna, print_hna_array_entry), ArrayClose,
    Values(<<"pollrate", "nicChgsPollInt", "clearScreen", "tcRedundancy",
             "mprCoverage">>)>>)

ConfigGateway(w) ==
  Calls(<<
    ObjectOpen("linkQuality"),
    Values(<<"level", "fishEye", "aging", "algorithm">>), ObjectClose,
    Values(<<"minTCVTime", "setIpForward", "lockFile", "useNiit">>),
    ObjectOpen("smartGateway"),
    Values(<<"enabled", "alwaysRemoveServerTunnel", "allowNAT", "uplinkNAT",
             "useCount", "takeDownPercentage", "instanceId",
             "policyRoutingScript">>),
    ObjectOpen("egress"),
    ArrayOpen("interfaces"), Plain(Len(w.egress)), ArrayClose,
    Values(<<"interfacesCount", "file", "filePeriod">>), ObjectClose,
    Values(<<"statusFile", "tablesOffset", "rulesOffset", "period",
             "stableCount", "threshold">>),
    ObjectOpen("costsCalculation"),
    Values(<<"exitLinkUp", "exitLinkDown", "etx", "dividerEtx">>),
    ObjectClose,
    Values(<<"maxCostMaxEtx", "uplink">>),
    ObjectOpen("bandwidth"), Values(<<"uplinkKbps", "downlinkKbps">>),
    ObjectClose,
    ObjectOpen("prefix"), Values(<<"prefix", "length">>), ObjectClose,
    ObjectClose>>)

ConfigTail(w) ==
  Calls(<<
    Values(<<"mainIp", "unicastSourceIpAddress", "srcIpRoutes",
             "maxPrefixLength", "ipSize", "delgw", "maxSendMessageJitter",
             "exitValue", "maxTcValidTime", "niit4to6InterfaceIndex",
             "niit6to4InterfaceIndex", "hasIpv4Gateway", "hasIpv6Gateway",
             "ioctlSocket", "routeNetlinkSocket", "routeMonitorSocket",
             "linkQualityNatThreshold", "brokenLinkCost", "brokenRouteCost",
             "ipcConnectMaxConnections">>),
    ArrayOpen("ipcConnectAllowed"),
    Rows(w.ipcnets, print_ipc_net_array_entry), ArrayClose,
    print_interface_config(w, "interfaceDefaults", TRUE),
    Values(<<"os", "startTime">>),
    ObjectClose>>)

ipc_print_config(w) == ConfigHead(w) \o ConfigGateway(w) \o ConfigTail(w)

\* A row of w.plugins: the keys of its parameters.
ipc_print_plugins(w) ==
  Calls(<<
    ArrayOpen("plugins"),
    Calls([i \in 1..Len(w.plugins) |-> Calls(<<
      EntryOpen, Value("plugin"),
      ObjectOpen("parameters"), Values(w.plugins[i]), ObjectClose,
      ObjectClose>>)]),
    ArrayClose>>)

\* The members output_start of jsoninfo begins a reply with.
StartValues(w) ==
  Values(<<"pid", "systemTime", "timeSinceStartup", "configurationChecksum">>)
  \o (IF w.uuid THEN Value("uuid") ELSE <<>>)

---------------------------------------------------------------------------
(* netjson: the nodes of the graph.  A node is [addr, alias, mid]; mid is  *)
(* the row of the MID set it was made from, or <<>>.                       *)

Known(nodes, a) == \E n \in nodes : n.addr = a

AddNode(nodes, a, alias, mid) ==
  IF Known(nodes, a) THEN nodes
  ELSE nodes \cup {[addr |-> a, alias |-> alias, mid |-> mid]}

RECURSIVE AddNodes(_, _, _, _)
AddNodes(nodes, addrs, alias, mid) ==
  IF addrs = <<>> THEN nodes
  ELSE AddNodes(AddNode(nodes, Head(addrs), alias, mid), Tail(addrs), alias,
                mid)

\* The node's own MID entry: the addresses of its interfaces that are up,
\* other than the main address, the last first.
netjson_constructMidSelf(w) ==
  [main |-> w.main,
   aliases |-> Reverse(SelectSeq(w.own, LAMBDA a : a # w.main))]

netjson_midIntoNodesTree(nodes, mid) ==
  AddNodes(AddNode(nodes, mid.main, FALSE, <<mid>>), mid.aliases, TRUE,
           <<mid>>)

RECURSIVE AddMids(_, _)
AddMids(nodes, mids) ==
  IF mids = <<>> THEN nodes
  ELSE AddMids(netjson_midIntoNodesTree(nodes, Head(mids)), Tail(mids))

netjson_tcIntoNodesTree(nodes, w) == AddNodes(nodes, w.tcs, FALSE, <<>>)

netjson_tcEdgeIntoNodesTree(nodes, w) ==
  AddNodes(nodes, [i \in 1..Len(w.edges) |-> w.edges[i].to], FALSE, <<>>)

netjson_linkIntoNodesTree(nodes, w) ==
  AddNodes(nodes,
           FlattenSeq([i \in 1..Len(w.links) |->
                         <<w.links[i].local, w.links[i].remote>>]),
           FALSE, <<>>)

netjson_neighborIntoNodesTree(nodes, w) ==
  AddNodes(nodes, [i \in 1..Len(w.nbrs) |-> w.nbrs[i].addr], FALSE, <<>>)

GraphNodes(w) ==
  netjson_neighborIntoNodesTree(
    netjson_linkIntoNodesTree(
      netjson_tcEdgeIntoNodesTree(
        netjson_tcIntoNodesTree(
          AddMids({}, <<netjson_constructMidSelf(w)>> \o w.mids), w), w),
      w), w)

\* The printed nodes, each with its local_addresses.
PrintedNodes(w) ==
  {[id |-> n.addr,
    local |-> IF n.mid = <<>> THEN {} ELSE ToSet(n.mid[1].aliases)] :
     n \in {m \in GraphNodes(w) : ~ m.alias}}

\* The printed links, as pairs of addresses in the order of the text.
PrintedLinks(w) ==
  FlattenSeq([i \in 1..Len(w.links) |->
    LET l == w.links[i]
    IN IF l.status \notin {"ASYM", "SYM"} THEN <<>>
       ELSE (IF l.status = "SYM" THEN <<<<l.local, l.remote>>>> ELSE <<>>)
            \o <<<<l.remote, l.local>>>>])
  \o FlattenSeq([i \in 1..Len(w.edges) |->
       IF w.edges[i].from = w.main THEN <<>>
       ELSE <<<<w.edges[i].from, w.edges[i].to>>>>])

NetworkHeader ==
  Values(<<"type", "protocol", "version", "metric", "revision", "router_id">>)

ipc_print_network_routes(w) ==
  Calls(<<
    NetworkHeader,
    ArrayOpen("routes"),
    Rows(w.routes, Calls(<<
      EntryOpen,
      Values(<<"destination", "next", "device", "cost", "cost_text">>),
      ObjectClose>>)),
    ArrayClose>>)

ipc_print_network_graph(w) ==
  LET nodes == SetToSeq(PrintedNodes(w))
  IN Calls(<<
    NetworkHeader,
    ArrayOpen("nodes"),
    Calls([i \in 1..Len(nodes) |-> Calls(<<
      EntryOpen, Value("id"),
      IF nodes[i].local = {} THEN <<>>
      ELSE ArrayOpen("local_addresses") \o Plain(Cardinality(nodes[i].local))
           \o ArrayClose,
      ObjectClose>>)]),
    ArrayClose,
    ArrayOpen("links"),
    Each(PrintedLinks(w),
         EntryOpen \o Values(<<"source", "target", "cost", "cost_text">>)
         \o ObjectClose),
    ArrayClose>>)

ipc_print_network_collection(w) ==
  Calls(<<
    Value("type"),
    ArrayOpen("collection"),
    EntryOpen, ipc_print_network_routes(w), ObjectClose,
    EntryOpen, ipc_print_network_graph(w), ObjectClose,
    ArrayClose>>)

---------------------------------------------------------------------------
(* txtinfo: a text is a sequence of lines: a title, the names of the       *)
(* columns, rows, and the empty line that ends a table.                    *)

Title(t) == <<[c |-> FALSE, op |-> "title", k |-> <<t>>]>>
Columns(s) == <<[c |-> FALSE, op |-> "columns", k |-> s]>>
Row == <<[c |-> FALSE, op |-> "row", k |-> <<>>]>>
Blank == <<[c |-> FALSE, op |-> "blank", k |-> <<>>]>>

VTime(w) == IF w.vtime THEN <<"VTime">> ELSE <<>>

txt_print_neighbors_internal(w, list_2hop) ==
  Calls(<<
    Title("Neighbors"),
    Columns(<<"IP address", "SYM", "MPR", "MPRS", "Will.",
              IF list_2hop THEN "(2-hop address)+" ELSE "2-hop count">>),
    Each(w.nbrs, Row), Blank>>)

txt_print_links(w) ==
  Calls(<<
    Title("Links"),
    Columns(<<"Local IP", "Remote IP", IF w.vtime THEN "VTime" ELSE "Hyst.",
              "LQ", "NLQ", "Cost">>),
    Each(w.links, Row), Blank>>)

txt_print_routes(w) ==
  Calls(<<
    Title("Routes"),
    Columns(<<"Destination", "Gateway IP", "Metric", "ETX", "Interface">>),
    Rows(w.routes, Row), Blank>>)

txt_print_topology(w) ==
  Calls(<<
    Title("Topology"),
    Columns(<<"Dest. IP", "Last hop IP", "LQ", "NLQ", "Cost">> \o VTime(w)),
    Rows([i \in 1..Len(w.edges) |-> w.edges[i].inv], Row), Blank>>)

txt_print_hna(w) ==
  Calls(<<
    Title("HNA"), Columns(<<"Destination", "Gateway">> \o VTime(w)),
    Rows(w.hna, Row), Rows(w.hnas, Row), Blank>>)

txt_print_mid(w) ==
  Calls(<<
    Title("MID"),
    Columns(<<"IP address",
              IF w.vtime THEN "(Alias:VTime)+" ELSE "(Alias)+">>),
    Each(w.mids, Row), Blank>>)

txt_print_gateways(w) ==
  Calls(<<
    Title("Gateways"),
    Columns(<<"Status", "Gateway IP", "ETX", "Hopcnt", "Uplink", "Downlnk",
              "IPv4", "IPv6", "Prefix">>),
    Each(w.gws, Row), Blank>>)

txt_sgw_ipvx(w) ==
  Calls(<<
    Title("Smart Gateway IPv4"),
    Columns(<<" ", "Originator", "Prefix", "Uplink", "Downlink", "PathCost",
              "IPv4", "IPv4-NAT", "IPv6", "Tunnel-Name", "Destination",
              "Cost">>),
    IF w.sgw THEN Rows(w.tunnels, Row) ELSE <<>>, Blank>>)

txt_print_version == Title("Version") \o Blank

txt_print_interfaces(w) ==
  Calls(<<
    Title("Interfaces"),
    Columns(<<"Name", "State", "MTU", "WLAN", "Src-Adress", "Mask",
              "Dst-Adress">>),
    Each(w.ifs, Row), Blank>>)

=============================================================================
