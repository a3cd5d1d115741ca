------------------------------- MODULE Config -------------------------------
(***************************************************************************)
(* Reading the configuration (cfgparser/oscan.lex, oparse.y, olsrd_conf.c), *)
(* the command line (cli.c) and the checks before the daemon starts.       *)
(*                                                                         *)
(* A configuration file is a sequence of statements [kw, args, names, body]: *)
(* a keyword, the tokens <<class, value>> after it, and for a block the    *)
(* quoted names and the statements between the braces. Times and other     *)
(* decimal numbers are in hundredths. An address is a number, 0 is the     *)
(* unspecified one.                                                        *)
(***************************************************************************)
EXTENDS Integers, Sequences, FiniteSets, SequencesExt

CONSTANTS
  TableTop,      \* the largest number of a routing table, 2^31
  RuleTop,       \* the largest number of a rule, 2^32 - 1
  HasBlank,      \* the names with a blank behind their first character
  HostBits,      \* the prefixes <<address, length>> with a bit set behind their length
  DefaultGw4,    \* the addresses of prefixes ip_prefix_is_v4_inetgw accepts with length 0
  DefaultGw6     \* those of ip_prefix_is_v6_inetgw

AUTO == 0
NONE == -1
NULL == "null"
UNSET == <<>>      \* an option of an interface nobody has set; a set one is a tuple

---------------------------------------------------------------------------
(* oscan.lex: the words that are tokens. Any other character is skipped.   *)

BlockWords == {"Host", "Net", "MaxConnections", "DebugLevel", "IpVersion", "NicChgsPollInt",
  "Hna4", "Hna6", "LoadPlugin", "PlParam", "Interface", "InterfaceDefaults"}
BasicWords == {"AllowNoInt", "TosValue", "OlsrPort", "RtProto", "RtTable", "RtTableDefault",
  "RtTableTunnel", "RtTablePriority", "RtTableDefaultOlsrPriority", "RtTableTunnelPriority",
  "RtTableDefaultPriority", "Willingness", "IpcConnect", "FIBMetric", "FIBMetricDefault",
  "UseHysteresis", "HystScaling", "HystThrHigh", "HystThrLow", "Pollrate"}
LinkWords == {"TcRedundancy", "MprCoverage", "LinkQualityLevel", "LinkQualityFishEye",
  "LinkQualityAging", "LinkQualityAlgorithm", "NatThreshold", "LinkQualityMult", "MinTCVTime",
  "LockFile", "ClearScreen", "UseNiit"}
GatewayWords == {"SmartGateway", "SmartGatewayAlwaysRemoveServerTunnel", "SmartGatewayUseCount",
  "SmartGatewayTakeDownPercentage", "SmartGatewayInstanceId", "SmartGatewayPolicyRoutingScript",
  "SmartGatewayEgressInterfaces", "SmartGatewayEgressFile", "SmartGatewayEgressFilePeriod",
  "SmartGatewayStatusFile", "SmartGatewayTablesOffset", "SmartGatewayRulesOffset",
  "SmartGatewayAllowNAT", "SmartGatewayPeriod", "SmartGatewayStableCount",
  "SmartGatewayThreshold", "SmartGatewayWeightExitLinkUp", "SmartGatewayWeightExitLinkDown",
  "SmartGatewayWeightEtx", "SmartGatewayDividerEtx", "SmartGatewayMaxCostMaxEtx",
  "SmartGatewayUplink", "SmartGatewayUplinkNAT", "SmartGatewaySpeed", "SmartGatewayPrefix"}
InterfaceWords == {"SrcIpRoutes", "Weight", "MainIp", "SetIpForward", "Ip4Broadcast",
  "IPv4Broadcast", "IPv4Multicast", "Mode", "IPv6Multicast", "IPv4Src", "IPv6Src",
  "HelloInterval", "HelloValidityTime", "TcInterval", "TcValidityTime", "MidInterval",
  "MidValidityTime", "HnaInterval", "HnaValidityTime", "AutoDetectChanges"}
Words == BlockWords \cup BasicWords \cup LinkWords \cup GatewayWords \cup InterfaceWords

---------------------------------------------------------------------------
(* Defaults                                                                *)

IfFields == {"ipv4_multicast", "ipv6_multicast", "ipv4_src", "ipv6_src", "mode", "weight",
  "hello_int", "hello_val", "tc_int", "tc_val", "mid_int", "mid_val", "hna_int", "hna_val",
  "autodetect_chg"}
MESH == 0
ETHER == 1
SILENT == 2
MulticastV6 == 1   \* ipv6_def_multicast
get_default_if_config ==
  [opt |-> [f \in IfFields |->
     CASE f = "hello_int" -> <<200>>
       [] f = "hello_val" -> <<2000>>
       [] f \in {"tc_int", "mid_int", "hna_int"} -> <<500>>
       [] f \in {"tc_val", "mid_val", "hna_val"} -> <<30000>>
       [] f = "ipv6_multicast" -> <<MulticastV6>>
       [] f = "autodetect_chg" -> <<1>>
       [] f \in {"ipv6_src", "weight"} -> <<0, 0>>
       [] OTHER -> <<0>>],
   lq_mult |-> <<>>]
\* An interface's own block: memset of cnf to 0x00 and of cnfi to 0xff, so
\* that no byte of the two agrees until it is set.
NothingSet == [opt |-> [f \in IfFields |-> UNSET], lq_mult |-> <<>>]
NoDefaults == NothingSet      \* interface_defaults = NULL

set_default_cnf ==
  [olsrport |-> 698, debug_level |-> 1, ip_version |-> 4, maxplen |-> 32,
   allow_no_interfaces |-> TRUE, tos |-> 192, rt_proto |-> 0, rt_table |-> AUTO,
   rt_table_default |-> AUTO, rt_table_tunnel |-> AUTO, rt_table_pri |-> AUTO,
   rt_table_tunnel_pri |-> AUTO, rt_table_defaultolsr_pri |-> AUTO, rt_table_default_pri |-> AUTO,
   willingness |-> 3, ipc_connections |-> 0, use_hysteresis |-> FALSE, fib_metric |-> "flat",
   fib_metric_default |-> 2, hyst_scaling |-> 50, hyst_high |-> 80, hyst_low |-> 30,
   plugins |-> <<>>, hna_entries |-> <<>>, ipc_nets |-> <<>>, interface_defaults |-> NoDefaults,
   interfaces |-> <<>>, pollrate |-> 5, nic_chgs_pollrate |-> 250, clear_screen |-> TRUE,
   tc_redundancy |-> 2, mpr_coverage |-> 7, lq_level |-> 2, lq_fish |-> 1, lq_aging |-> 5,
   lq_algorithm |-> NULL, min_tc_vtime |-> 0, set_ip_forward |-> TRUE, lock_file |-> NULL,
   use_niit |-> TRUE, smart_gw_active |-> FALSE, smart_gw_always_remove |-> FALSE,
   smart_gw_allow_nat |-> TRUE, smart_gw_uplink_nat |-> TRUE, smart_gw_use_count |-> 1,
   smart_gw_takedown |-> 25, smart_gw_instance_id |-> NULL, smart_gw_script |-> NULL,
   smart_gw_egress |-> <<>>, smart_gw_egress_file |-> NULL, smart_gw_egress_period |-> 5000,
   smart_gw_status_file |-> NULL, smart_gw_offset_tables |-> 90, smart_gw_offset_rules |-> 0,
   smart_gw_period |-> 10000, smart_gw_stablecount |-> 6, smart_gw_thresh |-> 0,
   smart_gw_weight_up |-> 1, smart_gw_weight_down |-> 1, smart_gw_weight_etx |-> 1,
   smart_gw_divider_etx |-> 0, smart_gw_max_cost |-> 2560, smart_gw_type |-> "both",
   smart_gw_uplink |-> 128, smart_gw_downlink |-> 1024, smart_gw_prefix |-> <<0, 0>>,
   main_addr |-> 0, use_src_ip_routes |-> FALSE, lq_nat_thresh |-> 100, del_gws |-> FALSE,
   no_fork |-> FALSE, pidfile |-> NULL, host_emul |-> FALSE,
   has_ipv4_gateway |-> FALSE, has_ipv6_gateway |-> FALSE]

---------------------------------------------------------------------------
(* Lists of prefixes: a prefix is <<address, length>>.                     *)

update_has_gateway_fields(c) ==
  [c EXCEPT !.has_ipv4_gateway = \E i \in 1..Len(c.hna_entries) :
                c.hna_entries[i][1] \in DefaultGw4 /\ c.hna_entries[i][2] = 0,
            !.has_ipv6_gateway = \E i \in 1..Len(c.hna_entries) :
                c.hna_entries[i][1] \in DefaultGw6 /\ c.hna_entries[i][2] = 0]
ip_prefix_list_add(c, list, p) == update_has_gateway_fields([c EXCEPT ![list] = <<p>> \o @])
\* The first equal prefix is taken out.
ip_prefix_list_remove(c, list, p) ==
  IF \E i \in 1..Len(c[list]) : c[list][i] = p
  THEN LET i == CHOOSE i \in 1..Len(c[list]) :
                  c[list][i] = p /\ \A j \in 1..(i - 1) : c[list][j] # p
       IN update_has_gateway_fields([c EXCEPT ![list] = RemoveAt(@, i)])
  ELSE c
ip_prefix_list_find(c, list, p) == \E i \in 1..Len(c[list]) : c[list][i] = p

---------------------------------------------------------------------------
(* oparse.y: statements with one value. A table entry is the field, the    *)
(* class of the token and the width of the field.                          *)

BasicOptions == [AllowNoInt |-> <<"allow_no_interfaces", "BOOLEAN", 0>>,
  TosValue |-> <<"tos", "INTEGER", 256>>, OlsrPort |-> <<"olsrport", "INTEGER", 65536>>,
  RtProto |-> <<"rt_proto", "INTEGER", 256>>]
RtTables == [RtTable |-> "rt_table", RtTableDefault |-> "rt_table_default",
  RtTableTunnel |-> "rt_table_tunnel"]
RtPriorities == [RtTablePriority |-> "rt_table_pri",
  RtTableDefaultPriority |-> "rt_table_default_pri",
  RtTableTunnelPriority |-> "rt_table_tunnel_pri",
  RtTableDefaultOlsrPriority |-> "rt_table_defaultolsr_pri"]
LinkOptions == [Willingness |-> <<"willingness", "INTEGER", 256>>,
  UseHysteresis |-> <<"use_hysteresis", "BOOLEAN", 0>>,
  HystScaling |-> <<"hyst_scaling", "FLOAT", 0>>, HystThrHigh |-> <<"hyst_high", "FLOAT", 0>>,
  HystThrLow |-> <<"hyst_low", "FLOAT", 0>>, Pollrate |-> <<"pollrate", "FLOAT", 0>>,
  NicChgsPollInt |-> <<"nic_chgs_pollrate", "FLOAT", 0>>,
  TcRedundancy |-> <<"tc_redundancy", "INTEGER", 256>>,
  MprCoverage |-> <<"mpr_coverage", "INTEGER", 256>>,
  LinkQualityLevel |-> <<"lq_level", "INTEGER", 256>>,
  LinkQualityFishEye |-> <<"lq_fish", "INTEGER", 256>>,
  LinkQualityAging |-> <<"lq_aging", "FLOAT", 0>>,
  MinTCVTime |-> <<"min_tc_vtime", "FLOAT", 0>>]
FileOptions == [LockFile |-> <<"lock_file", "STRING", 0>>,
  LinkQualityAlgorithm |-> <<"lq_algorithm", "STRING", 0>>,
  NatThreshold |-> <<"lq_nat_thresh", "FLOAT", 0>>,
  ClearScreen |-> <<"clear_screen", "BOOLEAN", 0>>, UseNiit |-> <<"use_niit", "BOOLEAN", 0>>]
GatewayOptions == [SmartGateway |-> <<"smart_gw_active", "BOOLEAN", 0>>,
  SmartGatewayAlwaysRemoveServerTunnel |-> <<"smart_gw_always_remove", "BOOLEAN", 0>>,
  SmartGatewayUseCount |-> <<"smart_gw_use_count", "INTEGER", 256>>,
  SmartGatewayTakeDownPercentage |-> <<"smart_gw_takedown", "INTEGER", 256>>,
  SmartGatewayInstanceId |-> <<"smart_gw_instance_id", "STRING", 0>>,
  SmartGatewayPolicyRoutingScript |-> <<"smart_gw_script", "STRING", 0>>]
GatewayTuning == [SmartGatewayEgressFile |-> <<"smart_gw_egress_file", "STRING", 0>>,
  SmartGatewayEgressFilePeriod |-> <<"smart_gw_egress_period", "INTEGER", 0>>,
  SmartGatewayStatusFile |-> <<"smart_gw_status_file", "STRING", 0>>,
  SmartGatewayTablesOffset |-> <<"smart_gw_offset_tables", "INTEGER", 0>>,
  SmartGatewayRulesOffset |-> <<"smart_gw_offset_rules", "INTEGER", 0>>,
  SmartGatewayAllowNAT |-> <<"smart_gw_allow_nat", "BOOLEAN", 0>>,
  SmartGatewayPeriod |-> <<"smart_gw_period", "INTEGER", 0>>,
  SmartGatewayStableCount |-> <<"smart_gw_stablecount", "INTEGER", 256>>,
  SmartGatewayThreshold |-> <<"smart_gw_thresh", "INTEGER", 256>>,
  SmartGatewayWeightExitLinkUp |-> <<"smart_gw_weight_up", "INTEGER", 256>>,
  SmartGatewayWeightExitLinkDown |-> <<"smart_gw_weight_down", "INTEGER", 256>>,
  SmartGatewayWeightEtx |-> <<"smart_gw_weight_etx", "INTEGER", 256>>,
  SmartGatewayDividerEtx |-> <<"smart_gw_divider_etx", "INTEGER", 0>>,
  SmartGatewayMaxCostMaxEtx |-> <<"smart_gw_max_cost", "INTEGER", 0>>]
OtherOptions == [DebugLevel |-> <<"debug_level", "INTEGER", 0>>,
  FIBMetricDefault |-> <<"fib_metric_default", "INTEGER", 0>>,
  SmartGatewayUplinkNAT |-> <<"smart_gw_uplink_nat", "BOOLEAN", 0>>,
  SetIpForward |-> <<"set_ip_forward", "BOOLEAN", 0>>]
Options == BasicOptions @@ LinkOptions @@ FileOptions @@ GatewayOptions @@ GatewayTuning
             @@ OtherOptions

(* The parser: ok is FALSE once a production aborted or the tokens did not *)
(* fit; curr is ifs_in_curr_cfg, the number of interfaces, counted from the *)
(* head of the list, the options of the open block go to.                  *)

Failed(p) == [p EXCEPT !.ok = FALSE]
Said(p, field, v) == [p EXCEPT !.cnf[field] = v]
Classes(s) == [i \in 1..Len(s.args) |-> s.args[i][1]]
Value(s, i) == s.args[i][2]

Narrow(v, width) == IF width = 0 THEN v ELSE v % width
Option(p, s) ==
  LET o == Options[s.kw] IN
  IF Classes(s) = <<o[2]>>
  THEN Said(p, o[1], IF o[2] = "INTEGER" THEN Narrow(Value(s, 1), o[3]) ELSE Value(s, 1))
  ELSE Failed(p)
RtTable(p, s) ==
  CASE Classes(s) = <<"INTEGER">> -> Said(p, RtTables[s.kw], Value(s, 1) % 256)
    [] Classes(s) = <<"AUTO">> -> Said(p, RtTables[s.kw], AUTO)
    [] OTHER -> Failed(p)
RtPriority(p, s) ==
  CASE Classes(s) = <<"INTEGER">> -> Said(p, RtPriorities[s.kw], Value(s, 1))
    [] Classes(s) = <<"AUTO">> -> Said(p, RtPriorities[s.kw], AUTO)
    [] Classes(s) = <<"NONE">> -> Said(p, RtPriorities[s.kw], NONE)
    [] OTHER -> Failed(p)
iipversion(p, s) ==
  IF Classes(s) = <<"INTEGER">> /\ Value(s, 1) \in {4, 6}
  THEN [p EXCEPT !.cnf.ip_version = Value(s, 1),
                 !.cnf.maxplen = IF Value(s, 1) = 4 THEN 32 ELSE 128]
  ELSE Failed(p)
fibmetric(p, s) ==
  IF Classes(s) = <<"STRING">> /\ Value(s, 1) \in {"flat", "correct", "approx"}
  THEN Said(p, "fib_metric", Value(s, 1)) ELSE Failed(p)
ssmart_gw_uplink(p, s) ==
  IF Classes(s) = <<"STRING">> /\ Value(s, 1) \in {"none", "ipv4", "ipv6", "both"}
  THEN Said(p, "smart_gw_type", Value(s, 1)) ELSE Failed(p)
ismart_gw_speed(p, s) ==
  IF Classes(s) = <<"INTEGER", "INTEGER">>
  THEN [p EXCEPT !.cnf.smart_gw_uplink = Value(s, 1), !.cnf.smart_gw_downlink = Value(s, 2)]
  ELSE Failed(p)
ismart_gw_prefix(p, s) ==
  IF Classes(s) = <<"IPV6_ADDR", "INTEGER">> /\ p.cnf.ip_version = 6
  THEN Said(p, "smart_gw_prefix", <<Value(s, 1), Value(s, 2) % 256>>) ELSE Failed(p)
bsrc_ip_routes(p, s) ==
  IF Classes(s) = <<"BOOLEAN">> /\ p.cnf.ip_version = 4
  THEN Said(p, "use_src_ip_routes", Value(s, 1)) ELSE Failed(p)
amain_ip(p, s) ==
  IF \/ Classes(s) = <<"IPV4_ADDR">> /\ p.cnf.ip_version = 4
     \/ Classes(s) = <<"IPV6_ADDR">> /\ p.cnf.ip_version = 6
  THEN Said(p, "main_addr", Value(s, 1)) ELSE Failed(p)
sgw_egress_if(list, name) ==
  IF name = "" THEN list ELSE Append(SelectSeq(list, LAMBDA n : n # name), name)
ssgw_egress_ifs(p, s) ==
  Said(p, "smart_gw_egress", FoldLeft(sgw_egress_if, p.cnf.smart_gw_egress, s.names))

(* Blocks                                                                  *)

ihna4entry(p, s) ==
  CASE ~p.ok -> p
    [] Classes(s) # <<"IPV4_ADDR", "INTEGER">> -> Failed(p)
    [] p.cnf.ip_version = 6 -> p
    [] Value(s, 2) > p.cnf.maxplen \/ <<Value(s, 1), Value(s, 2)>> \in HostBits -> Failed(p)
    [] OTHER -> [p EXCEPT !.cnf = ip_prefix_list_add(@, "hna_entries", <<Value(s, 1), Value(s, 2)>>)]
ihna6entry(p, s) ==
  CASE ~p.ok -> p
    [] Classes(s) # <<"IPV6_ADDR", "INTEGER">> -> Failed(p)
    [] p.cnf.ip_version # 6 -> p
    [] Value(s, 2) > 128 -> Failed(p)
    [] OTHER -> [p EXCEPT !.cnf = ip_prefix_list_add(@, "hna_entries", <<Value(s, 1), Value(s, 2)>>)]
imaxipc(p, s) ==
  IF Classes(s) = <<"INTEGER">> THEN Said(p, "ipc_connections", Value(s, 1)) ELSE Failed(p)
ipchost(p, s) ==
  IF Classes(s) = <<"IPV4_ADDR">>
  THEN [p EXCEPT !.cnf = ip_prefix_list_add(@, "ipc_nets", <<Value(s, 1), p.cnf.maxplen>>)]
  ELSE Failed(p)
ipcnet(p, s) ==
  IF Classes(s) = <<"IPV4_ADDR", "INTEGER">> /\ Value(s, 2) <= p.cnf.maxplen
  THEN [p EXCEPT !.cnf = ip_prefix_list_add(@, "ipc_nets", <<Value(s, 1), Value(s, 2)>>)]
  ELSE Failed(p)
ipcstmt(p, s) ==
  CASE ~p.ok -> p
    [] s.kw = "MaxConnections" -> imaxipc(p, s)
    [] s.kw = "Host" -> ipchost(p, s)
    [] s.kw = "Net" -> ipcnet(p, s)
    [] OTHER -> Failed(p)

IfAddresses == [Ip4Broadcast |-> "ipv4_multicast", IPv4Broadcast |-> "ipv4_multicast",
  IPv4Multicast |-> "ipv4_multicast", IPv4Src |-> "ipv4_src"]
IfIntervals == [HelloInterval |-> "hello_int", HelloValidityTime |-> "hello_val",
  TcInterval |-> "tc_int", TcValidityTime |-> "tc_val", MidInterval |-> "mid_int",
  MidValidityTime |-> "mid_val", HnaInterval |-> "hna_int", HnaValidityTime |-> "hna_val"]
isetifmode(s) == CASE Value(s, 1) = "ether" -> ETHER [] Value(s, 1) = "silent" -> SILENT
                   [] OTHER -> MESH
isetipv6src(s) == IF Len(s.args) = 1 THEN <<Value(s, 1), 128>> ELSE <<Value(s, 1), Value(s, 2)>>
\* The field and the value a statement of an interface block sets, <<>> when
\* the statement is refused.
ifstmt(s) ==
  CASE s.kw \in DOMAIN IfAddresses /\ Classes(s) = <<"IPV4_ADDR">> ->
         <<IfAddresses[s.kw], <<Value(s, 1)>> >>
    [] s.kw = "IPv6Multicast" /\ Classes(s) = <<"IPV6_ADDR">> ->
         <<"ipv6_multicast", <<Value(s, 1)>> >>
    [] /\ s.kw = "IPv6Src"
       /\ Classes(s) \in {<<"IPV6_ADDR">>, <<"IPV6_ADDR", "INTEGER">>}
       /\ isetipv6src(s)[2] <= 128 -> <<"ipv6_src", isetipv6src(s)>>
    [] s.kw = "Mode" /\ Classes(s) = <<"STRING">> -> <<"mode", <<isetifmode(s)>> >>
    [] s.kw = "Weight" /\ Classes(s) = <<"INTEGER">> -> <<"weight", <<1, Value(s, 1)>> >>
    [] s.kw \in DOMAIN IfIntervals /\ Classes(s) = <<"FLOAT">> ->
         <<IfIntervals[s.kw], <<Value(s, 1)>> >>
    [] s.kw = "AutoDetectChanges" /\ Classes(s) = <<"BOOLEAN">> ->
         <<"autodetect_chg", IF Value(s, 1) THEN <<1>> ELSE <<0>> >>
    [] OTHER -> <<>>
IsLqMult(s) ==
  s.kw = "LinkQualityMult"
  /\ Classes(s) \in {<<"DEFAULT", "FLOAT">>, <<"IPV4_ADDR", "FLOAT">>, <<"IPV6_ADDR", "FLOAT">>}
\* inet_pton of an address of the other family fails.
LqMultFits(cnf, s) ==
  CASE Classes(s)[1] = "IPV4_ADDR" -> cnf.ip_version = 4
    [] Classes(s)[1] = "IPV6_ADDR" -> cnf.ip_version = 6
    [] OTHER -> TRUE
lq_mult_helper(io, s) == [io EXCEPT !.lq_mult = <<<<Value(s, 1), Value(s, 2)>>>> \o @]
SET_IFS_CONF(io, s) == [io EXCEPT !.opt[ifstmt(s)[1]] = ifstmt(s)[2]]
InBlock(io, s) == IF IsLqMult(s) THEN lq_mult_helper(io, s) ELSE SET_IFS_CONF(io, s)
BlockFits(cnf, s) == IF IsLqMult(s) THEN LqMultFits(cnf, s) ELSE ifstmt(s) # <<>>

ifdblock(p, s) ==
  IF \A i \in 1..Len(s.body) : BlockFits(p.cnf, s.body[i])
  THEN [p EXCEPT !.cnf.interface_defaults = FoldLeft(InBlock, get_default_if_config, s.body),
                 !.curr = 0]
  ELSE Failed(p)

Named(list, name) == SelectSeq(list, LAMBDA i : i.name = name)
Without(list, name) == SelectSeq(list, LAMBDA i : i.name # name)
NewInterface(name) == [name |-> name, hemu |-> FALSE] @@ NothingSet
ifnick(p, name) ==
  LET old == Named(p.cnf.interfaces, name) IN
  [p EXCEPT !.cnf.interfaces = <<IF old = <<>> THEN NewInterface(name) ELSE old[1]>>
                                 \o Without(@, name),
            !.curr = @ + 1]
ifstart(p) == [p EXCEPT !.curr = 0]
\* Each option goes to the first curr interfaces of the list.
SetIfs(p, s) ==
  [p EXCEPT !.cnf.interfaces =
     [i \in 1..Len(@) |-> IF i <= p.curr THEN InBlock(@[i], s) ELSE @[i]]]
ifblock(p, s) ==
  IF \A i \in 1..Len(s.body) : BlockFits(p.cnf, s.body[i])
  THEN FoldLeft(SetIfs, FoldLeft(ifnick, ifstart(p), s.names), s.body)
  ELSE Failed(p)

\* A plugin is <<name, its parameters>>, a parameter <<key, value>>.
plparam(params, s) == <<<<Value(s, 1), Value(s, 2)>>>> \o params
plblock(p, s) ==
  LET old == SelectSeq(p.cnf.plugins, LAMBDA pl : pl[1] = s.names[1])
      params == IF old = <<>> THEN <<>> ELSE old[1][2]
  IN IF \A i \in 1..Len(s.body) :
          s.body[i].kw = "PlParam" /\ Classes(s.body[i]) = <<"STRING", "STRING">>
     THEN Said(p, "plugins", <<<<s.names[1], FoldLeft(plparam, params, s.body)>>>>
                               \o SelectSeq(p.cnf.plugins, LAMBDA pl : pl[1] # s.names[1]))
     ELSE Failed(p)

block(p, s) ==
  CASE s.kw = "Hna4" -> FoldLeft(ihna4entry, p, s.body)
    [] s.kw = "Hna6" -> FoldLeft(ihna6entry, p, s.body)
    [] s.kw = "IpcConnect" -> FoldLeft(ipcstmt, p, s.body)
    [] s.kw = "InterfaceDefaults" -> ifdblock(p, s)
    [] s.kw = "Interface" -> ifblock(p, s)
    [] s.kw = "LoadPlugin" -> plblock(p, s)
Blocks == {"Hna4", "Hna6", "IpcConnect", "InterfaceDefaults", "Interface", "LoadPlugin"}
stmt(p, s) ==
  CASE s.kw \in DOMAIN Options -> Option(p, s)
    [] s.kw \in DOMAIN RtTables -> RtTable(p, s)
    [] s.kw \in DOMAIN RtPriorities -> RtPriority(p, s)
    [] s.kw = "IpVersion" -> iipversion(p, s)
    [] s.kw = "FIBMetric" -> fibmetric(p, s)
    [] s.kw = "SmartGatewayUplink" -> ssmart_gw_uplink(p, s)
    [] s.kw = "SmartGatewaySpeed" -> ismart_gw_speed(p, s)
    [] s.kw = "SmartGatewayPrefix" -> ismart_gw_prefix(p, s)
    [] s.kw = "SrcIpRoutes" -> bsrc_ip_routes(p, s)
    [] s.kw = "MainIp" -> amain_ip(p, s)
    [] s.kw = "SmartGatewayEgressInterfaces" -> ssgw_egress_ifs(p, s)
    [] OTHER -> Failed(p)
conf(p, s) ==
  CASE ~p.ok \/ s.kw \notin Words -> Failed(p)
    [] s.kw \in Blocks -> block(p, s)
    [] OTHER -> stmt(p, s)
\* yyparse of one file, then the interface queue is turned round.
EndOfFile(p) == IF p.ok THEN [p EXCEPT !.cnf.interfaces = Reverse(@)] ELSE p
olsrd_parse_cnf(p, text) == EndOfFile(FoldLeft(conf, p, text))

---------------------------------------------------------------------------
(* cli.c: a is [ok, cnf, ifcnf], ifcnf the options of interfaces the       *)
(* command line gives.                                                     *)

\* Neither a duplicate nor the host-emulation interface is added twice.
olsr_create_olsrif(cnf, name, hemu) ==
  IF Named(cnf.interfaces, name) # <<>> THEN cnf
  ELSE [cnf EXCEPT !.interfaces = <<[NewInterface(name) EXCEPT !.hemu = hemu]>> \o @]
CliOptions == [debug |-> "debug_level", lql |-> "lq_level", T |-> "pollrate",
  ipc |-> "ipc_connections", delgw |-> "del_gws", nofork |-> "no_fork", pidfile |-> "pidfile"]
CliIntervals == [hint |-> <<"hello_int", "hello_val">>, hnaint |-> <<"hna_int", "hna_val">>,
  midint |-> <<"mid_int", "mid_val">>, tcint |-> <<"tc_int", "tc_val">>]
CliInterval(a, arg) ==
  [a EXCEPT !.ifcnf.opt[CliIntervals[arg.kw][1]] = <<arg.val>>,
            !.ifcnf.opt[CliIntervals[arg.kw][2]] = <<3 * arg.val>>]
\* cnf of the interface is replaced by the defaults; cnfi stays unset.
hemu(a) ==
  IF Named(a.cnf.interfaces, "hcif01") # <<>> THEN a
  ELSE [a EXCEPT !.cnf = [olsr_create_olsrif(@, "hcif01", TRUE) EXCEPT !.host_emul = TRUE]]
olsr_process_argument(a, arg) ==
  CASE arg.kw = "ipv6" -> [a EXCEPT !.cnf.ip_version = 6]
    [] arg.kw = "bcast" -> [a EXCEPT !.ifcnf.opt["ipv4_multicast"] = <<arg.val>>]
    [] arg.kw = "multi" -> [a EXCEPT !.ifcnf.opt["ipv6_multicast"] = <<arg.val>>]
    [] arg.kw = "lqa" -> IF arg.val \in 1..100 THEN [a EXCEPT !.cnf.lq_aging = arg.val]
                         ELSE [a EXCEPT !.ok = FALSE]
    [] arg.kw = "lqnt" -> IF arg.val \in 10..100 THEN [a EXCEPT !.cnf.lq_nat_thresh = arg.val]
                          ELSE [a EXCEPT !.ok = FALSE]
    [] arg.kw = "i" -> [a EXCEPT !.cnf = olsr_create_olsrif(@, arg.val, FALSE)]
    [] arg.kw = "hemu" -> hemu(a)
    [] arg.kw \in DOMAIN CliIntervals -> CliInterval(a, arg)
    [] arg.kw \in DOMAIN CliOptions -> [a EXCEPT !.cnf[CliOptions[arg.kw]] = arg.val]
    [] OTHER -> [a EXCEPT !.ok = FALSE]
\* set_default_ifcnfs writes ifcnf into the interfaces whose cnf is NULL; the
\* parser and olsr_create_olsrif both allocate it.
set_default_ifcnfs(interfaces, ifcnf) == interfaces

---------------------------------------------------------------------------
(* The checks before the start, and the defaults they fill in.             *)

Auto(v, d) == IF v = AUTO THEN d ELSE v
PlainPolicy(c) ==
  [c EXCEPT !.rt_table = Auto(@, 254), !.rt_table_default = Auto(@, 254), !.rt_table_tunnel = 254,
            !.rt_table_pri = Auto(@, NONE), !.rt_table_defaultolsr_pri = Auto(@, NONE),
            !.rt_table_tunnel_pri = Auto(@, NONE), !.rt_table_default_pri = Auto(@, NONE)]
\* The priorities count on from the last one given, 10 apart.
OneAfter(prio, given) == IF given > 0 THEN given ELSE prio + 10
GatewayPolicy(c) ==
  LET base == IF c.rt_table_pri > 0 THEN c.rt_table_pri ELSE 32766
      olsr == OneAfter(base, c.rt_table_defaultolsr_pri)
      tunnel == OneAfter(olsr, c.rt_table_tunnel_pri)
      default == OneAfter(tunnel, c.rt_table_default_pri)
  IN [c EXCEPT !.rt_table = Auto(@, 254), !.rt_table_default = Auto(@, 223),
               !.rt_table_tunnel = Auto(@, 224), !.rt_table_pri = Auto(@, NONE),
               !.rt_table_defaultolsr_pri = Auto(@, olsr),
               !.rt_table_tunnel_pri = Auto(@, tunnel), !.rt_table_default_pri = Auto(@, default)]
PolicyRules(c) == <<<<c.rt_table_pri, c.rt_table>>, <<c.rt_table_defaultolsr_pri, c.rt_table_default>>,
  <<c.rt_table_tunnel_pri, c.rt_table_tunnel>>, <<c.rt_table_default_pri, c.rt_table_default>>>>
Protocol(c) == [c EXCEPT !.rt_proto = CASE @ = 1 -> 0 [] @ = 0 -> 3 [] OTHER -> @]
PolicyOk(c) ==
  LET rules == SelectSeq(PolicyRules(c), LAMBDA r : r[1] > 0)
  IN \A i \in 1..Len(rules) : rules[i][2] < 253 /\ (i > 1 => rules[i - 1][1] < rules[i][1])
olsrd_sanity_check_rtpolicy(c) == IF c.smart_gw_active THEN GatewayPolicy(c) ELSE PlainPolicy(c)

IntervalOk(c, io, int, val) ==
  io.opt[int][1] >= c.pollrate /\ io.opt[int][1] <= io.opt[val][1]
olsrd_sanity_check_interface_cnf(c, io) ==
  /\ IntervalOk(c, io, "hello_int", "hello_val")
  /\ IntervalOk(c, io, "tc_int", "tc_val")
  /\ c.min_tc_vtime > 0 => io.opt["tc_val"][1] \div io.opt["tc_int"][1] >= 128
  /\ IntervalOk(c, io, "mid_int", "mid_val")
  /\ IntervalOk(c, io, "hna_int", "hna_val")
  /\ \A i \in 1..Len(io.lq_mult) : io.lq_mult[i][2] <= 100

BasicOk(c) ==
  /\ c.debug_level \in 0..9
  /\ c.ip_version \in {4, 6}
  /\ c.tos <= 252 /\ c.tos % 4 = 0
  /\ c.willingness <= 7
  /\ c.use_hysteresis => /\ c.hyst_scaling \in 0..100
                         /\ c.hyst_high > c.hyst_low
                         /\ c.hyst_high \in 0..100 /\ c.hyst_low \in 0..100
  /\ c.pollrate \in 1..100
  /\ c.nic_chgs_pollrate \in 100..10000
  /\ c.tc_redundancy = 2
  /\ c.mpr_coverage \in 1..20
  /\ ~(c.use_hysteresis /\ c.lq_level # 0)
  /\ c.lq_level \in {0, 2}
  /\ c.lq_level # 0 => c.lq_aging \in 1..100 /\ c.lq_nat_thresh \in 10..100

\* Multi-gateway mode. scriptOk: the policy routing script exists, is a file
\* of root's and may be read or executed.
Tables(c) == 1 + Len(c.smart_gw_egress) + c.smart_gw_use_count
BypassRules(c) == Len(c.smart_gw_egress) + Len(c.interfaces)
RulesOffset(c) ==
  IF c.smart_gw_offset_rules = 0 THEN c.smart_gw_offset_tables - BypassRules(c)
  ELSE c.smart_gw_offset_rules
Overlap(low, high, from, to) == low <= to /\ from <= high
TablesOk(c) ==
  /\ c.smart_gw_offset_tables # 0
  /\ c.smart_gw_offset_tables <= TableTop - Tables(c) + 1
  /\ ~Overlap(c.smart_gw_offset_tables, c.smart_gw_offset_tables + Tables(c), 253, 255)
RulesOk(c) ==
  LET low == RulesOffset(c)
      count == BypassRules(c) + Tables(c) IN
  /\ c.smart_gw_offset_rules = 0 => c.smart_gw_offset_tables \notin 1..BypassRules(c)
  /\ low # 0
  /\ low <= RuleTop - count
  /\ ~Overlap(low, low + count, 32766, 32767)
\* isspace is asked of the characters behind the first one only.
InstanceOk(id) == id # NULL /\ id # "" /\ id \notin HasBlank
EgressOk(c) ==
  /\ c.smart_gw_egress # <<>>
  /\ \A i \in 1..Len(c.smart_gw_egress) : Named(c.interfaces, c.smart_gw_egress[i]) = <<>>
  /\ Len(c.smart_gw_egress) <= 32
MultiGatewayOk(c, scriptOk) ==
  /\ c.ip_version = 4
  /\ c.smart_gw_takedown <= 100
  /\ InstanceOk(c.smart_gw_instance_id)
  /\ c.smart_gw_script # NULL /\ scriptOk
  /\ EgressOk(c)
  /\ c.smart_gw_egress_period >= 1000
  /\ TablesOk(c) /\ RulesOk(c)
GatewayOk(c, scriptOk) ==
  /\ c.smart_gw_use_count \in 1..64
  /\ c.smart_gw_use_count > 1 => MultiGatewayOk(c, scriptOk)
  /\ c.smart_gw_period \in 1000..320000000
  /\ c.smart_gw_stablecount \in 1..254
  /\ c.smart_gw_thresh \in {0} \cup 10..100
  /\ c.smart_gw_downlink \in 1..320000000 /\ c.smart_gw_uplink \in 1..320000000

\* Byte by byte, what the block of the interface has not set is taken from
\* the defaults; the multipliers of the defaults follow the interface's own.
\* An unset field of the host-emulation interface differs from cnfi as well.
ApplyDefaults(io, d) ==
  [io EXCEPT !.opt = [f \in IfFields |-> IF @[f] = UNSET THEN d.opt[f] ELSE @[f]],
             !.lq_mult = @ \o Reverse(SelectSeq(d.lq_mult,
                LAMBDA m : \A i \in 1..Len(io.lq_mult) : io.lq_mult[i][1] # m[1]))]
DefaultsOf(c) ==
  IF c.interface_defaults = NoDefaults THEN get_default_if_config ELSE c.interface_defaults
Filled(c) ==
  [c EXCEPT !.interface_defaults = DefaultsOf(c),
            !.interfaces = [i \in 1..Len(@) |-> ApplyDefaults(@[i], DefaultsOf(c))],
            !.smart_gw_offset_rules = IF c.smart_gw_use_count > 1 THEN RulesOffset(c) ELSE @]
set_derived_cnf(c) == [c EXCEPT !.lock_file = IF @ = NULL THEN "default" ELSE @]
\* [ok, cnf]
olsrd_sanity_check_cnf(c, scriptOk) ==
  LET policy == olsrd_sanity_check_rtpolicy(c)
      done == Filled(Protocol(policy))
  IN [ok |-> /\ BasicOk(c) /\ PolicyOk(policy)
             /\ c.interfaces # <<>>
             /\ c.min_tc_vtime >= 0
             /\ GatewayOk(c, scriptOk)
             /\ \A i \in 1..Len(done.interfaces) :
                  olsrd_sanity_check_interface_cnf(done, done.interfaces[i]),
      cnf |-> set_derived_cnf(done)]
=============================================================================
