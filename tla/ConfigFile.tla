----------------------------- MODULE ConfigFile -----------------------------
(***************************************************************************)
(* The life of a configuration: the files and arguments it is read from,   *)
(* the checks, the changes while the daemon runs, and the text the daemon  *)
(* writes of it (cfgfile_gen.c), which the info plugins serve and a later  *)
(* daemon may be started with.                                             *)
(***************************************************************************)
EXTENDS Config

CONSTANTS
  Pool,        \* the runs of statements files are made of
  Arguments,   \* the arguments a command line may hold
  Announced,    \* prefixes plugins announce and withdraw while the daemon runs
  MaxRead,     \* bound: runs of statements over all files
  MaxFiles,    \* bound: files
  MaxArgs,     \* bound: arguments
  MaxChanges   \* bound: announcements and withdrawals

VARIABLES
  phase,       \* "files", "args", "running", "restarted", "failed"
  p,           \* the parser: [ok, cnf, curr]
  ifcnf,       \* the options of interfaces on the command line
  said,        \* the statements parsed so far, in order
  read,        \* runs of statements parsed so far
  files,       \* the files read to their end
  given,       \* the arguments processed
  changes,     \* announcements and withdrawals so far
  cache,       \* config_cache: the text written, <<>> before the first time
  written      \* the configuration the text was made from

vars == <<phase, p, ifcnf, said, read, files, given, changes, cache, written>>

---------------------------------------------------------------------------
(* cfgfile_gen.c: only the lines that are not commented out.               *)

St(kw, args) == [kw |-> kw, args |-> args, names |-> <<>>, body |-> <<>>]
Block(kw, names, body) == [kw |-> kw, args |-> <<>>, names |-> names, body |-> body]
Line(kw, differs, args) == IF differs THEN <<St(kw, args)>> ELSE <<>>
Default == set_default_cnf
\* A line for the keyword of an option table, with its value to the precision
\* the format has: whole numbers, two digits, or one digit of the fraction.
Tenth(v) == ((v + 5) \div 10) * 10
Precision(kw, v) == IF kw \in {"NicChgsPollInt", "NatThreshold"} THEN Tenth(v) ELSE v
OptionLine(c, kw) ==
  LET o == Options[kw] IN
  Line(kw, c[o[1]] # Default[o[1]], <<<<o[2], Precision(kw, c[o[1]])>>>>)
OptionLines(c, kws) == FlattenSeq([i \in 1..Len(kws) |-> OptionLine(c, kws[i])])
\* Without the dot-notation of an address the token is the default one; the
\* writer always prints the address.
AddrClass(c) == IF c.ip_version = 4 THEN "IPV4_ADDR" ELSE "IPV6_ADDR"

WriteBasic(c) ==
  OptionLines(c, <<"DebugLevel">>)
  \o Line("IpVersion", c.ip_version # 4, <<<<"INTEGER", c.ip_version>>>>)
  \o OptionLines(c, <<"ClearScreen", "AllowNoInt">>)
  \o Line("LockFile", c.lock_file # "default", <<<<"STRING", c.lock_file>>>>)
  \o OptionLines(c, <<"Pollrate", "NicChgsPollInt", "TosValue">>)
  \o Line("FIBMetric", c.fib_metric # "flat", <<<<"STRING", c.fib_metric>>>>)
  \o OptionLines(c, <<"FIBMetricDefault">>)
  \o Line("SrcIpRoutes", c.use_src_ip_routes, <<<<"BOOLEAN", TRUE>>>>)
WriteProto(c) == Line("RtProto", c.rt_proto # 3, <<<<"INTEGER", c.rt_proto>>>>)
WriteTables(c) ==
  LET d == IF c.smart_gw_active THEN <<254, 223, 224>> ELSE <<254, 254, 254>> IN
  Line("RtTable", c.rt_table # d[1], <<<<"INTEGER", c.rt_table>>>>)
  \o Line("RtTableDefault", c.rt_table_default # d[2], <<<<"INTEGER", c.rt_table_default>>>>)
  \o Line("RtTableTunnel", c.rt_table_tunnel # d[3], <<<<"INTEGER", c.rt_table_tunnel>>>>)
PriorityLine(c, kw, differs) ==
  Line(kw, differs, <<<<"INTEGER", c[RtPriorities[kw]]>>>>)
WritePriorities(c) ==
  IF c.smart_gw_active
  THEN PriorityLine(c, "RtTablePriority", c.rt_table_pri > 0)
       \o PriorityLine(c, "RtTableDefaultOlsrPriority", c.rt_table_defaultolsr_pri # 32776)
       \o PriorityLine(c, "RtTableTunnelPriority", c.rt_table_tunnel_pri # 32786)
       \o PriorityLine(c, "RtTableDefaultPriority", c.rt_table_default_pri # 32796)
  ELSE PriorityLine(c, "RtTablePriority", c.rt_table_pri \notin {AUTO, NONE})
       \o PriorityLine(c, "RtTableDefaultOlsrPriority",
                       c.rt_table_defaultolsr_pri \notin {AUTO, NONE})
       \o PriorityLine(c, "RtTableTunnelPriority", c.rt_table_tunnel_pri \notin {AUTO, NONE})
       \o PriorityLine(c, "RtTableDefaultPriority", c.rt_table_default_pri \notin {AUTO, NONE})
WriteNiit(c) ==
  Line("UseNiit", c.use_niit # (c.ip_version = 6), <<<<"BOOLEAN", c.use_niit>>>>)
WriteGateway(c) ==
  OptionLines(c, <<"SmartGateway", "SmartGatewayAlwaysRemoveServerTunnel", "SmartGatewayUseCount",
    "SmartGatewayTakeDownPercentage", "SmartGatewayInstanceId", "SmartGatewayPolicyRoutingScript">>)
  \o (IF c.smart_gw_egress = <<>> THEN <<>>
      ELSE <<Block("SmartGatewayEgressInterfaces", c.smart_gw_egress, <<>>)>>)
WriteGatewayTuning(c) ==
  OptionLines(c, <<"SmartGatewayEgressFile", "SmartGatewayEgressFilePeriod",
    "SmartGatewayStatusFile", "SmartGatewayTablesOffset", "SmartGatewayRulesOffset",
    "SmartGatewayAllowNAT", "SmartGatewayPeriod", "SmartGatewayStableCount">>)
WriteGatewayWeights(c) ==
  OptionLines(c, <<"SmartGatewayThreshold", "SmartGatewayWeightExitLinkUp",
    "SmartGatewayWeightExitLinkDown", "SmartGatewayWeightEtx", "SmartGatewayDividerEtx",
    "SmartGatewayMaxCostMaxEtx">>)
WriteUplink(c) ==
  Line("SmartGatewayUplink", c.smart_gw_type # "both", <<<<"STRING", c.smart_gw_type>>>>)
  \o OptionLines(c, <<"SmartGatewayUplinkNAT">>)
  \o Line("SmartGatewaySpeed", <<c.smart_gw_uplink, c.smart_gw_downlink>> # <<128, 1024>>,
          <<<<"INTEGER", c.smart_gw_uplink>>, <<"INTEGER", c.smart_gw_downlink>>>>)
  \o Line("SmartGatewayPrefix", c.smart_gw_prefix[2] # 0,
          <<<<"IPV6_ADDR", c.smart_gw_prefix[1]>>, <<"INTEGER", c.smart_gw_prefix[2]>>>>)
WriteMain(c) ==
  OptionLines(c, <<"OlsrPort">>)
  \o Line("MainIp", c.main_addr # 0, <<<<AddrClass(c), c.main_addr>>>>)
  \o OptionLines(c, <<"Willingness">>)
HnaLines(c) ==
  [i \in 1..Len(c.hna_entries) |->
     St("", <<<<AddrClass(c), c.hna_entries[i][1]>>, <<"INTEGER", c.hna_entries[i][2]>>>>)]
HnaOfOtherVersion(c, v) ==
  <<Block(IF v = 4 THEN "Hna4" ELSE "Hna6", <<>>, IF c.ip_version # v THEN HnaLines(c) ELSE <<>>)>>
olsrd_write_hna_autobuf(c, v) ==
  <<Block(IF v = 4 THEN "Hna4" ELSE "Hna6", <<>>, IF c.ip_version = v THEN HnaLines(c) ELSE <<>>)>>
WriteLink(c) ==
  OptionLines(c, <<"UseHysteresis", "HystScaling", "HystThrHigh", "HystThrLow", "TcRedundancy",
    "MprCoverage", "LinkQualityLevel", "LinkQualityAlgorithm", "LinkQualityAging",
    "LinkQualityFishEye", "NatThreshold">>)
IpcLine(c, net) ==
  IF net[2] = c.maxplen THEN St("Host", <<<<AddrClass(c), net[1]>>>>)
  ELSE St("Net", <<<<AddrClass(c), net[1]>>, <<"INTEGER", net[2]>>>>)
WriteIpc(c) ==
  <<Block("IpcConnect", <<>>,
     Line("MaxConnections", c.ipc_connections # 0, <<<<"INTEGER", c.ipc_connections>>>>)
     \o [i \in 1..Len(c.ipc_nets) |-> IpcLine(c, c.ipc_nets[i])])>>
WritePlugins(c) ==
  [i \in 1..Len(c.plugins) |->
     Block("LoadPlugin", <<c.plugins[i][1]>>,
       [j \in 1..Len(c.plugins[i][2]) |->
          St("PlParam", <<<<"STRING", c.plugins[i][2][j][1]>>, <<"STRING", c.plugins[i][2][j][2]>>>>)])]

\* An interface block. The values are compared with the built-in defaults.
\* Without comments a line is written only when its first argument is the
\* empty string, which the address of a LinkQualityMult never is.
ModeName(m) == CASE m = ETHER -> "ether" [] m = SILENT -> "silent" [] OTHER -> "mesh"
IfLine(io, kw, f, args) == Line(kw, io.opt[f] # get_default_if_config.opt[f], args)
IfAddrLines(io) ==
  IfLine(io, "Mode", "mode", <<<<"STRING", ModeName(io.opt["mode"][1])>>>>)
  \o IfLine(io, "Ip4Broadcast", "ipv4_multicast", <<<<"IPV4_ADDR", io.opt["ipv4_multicast"][1]>>>>)
  \o IfLine(io, "IPv6Multicast", "ipv6_multicast", <<<<"IPV6_ADDR", io.opt["ipv6_multicast"][1]>>>>)
  \o IfLine(io, "IPv4Src", "ipv4_src", <<<<"IPV4_ADDR", io.opt["ipv4_src"][1]>>>>)
  \o Line("IPv6Src", io.opt["ipv6_src"][2] # 0,
          <<<<"IPV6_ADDR", io.opt["ipv6_src"][1]>>, <<"INTEGER", io.opt["ipv6_src"][2]>>>>)
IntervalLine(io, kw) ==
  IfLine(io, kw, IfIntervals[kw], <<<<"FLOAT", Tenth(io.opt[IfIntervals[kw]][1])>>>>)
IfIntervalLines(io) ==
  FlattenSeq([i \in 1..8 |-> IntervalLine(io, <<"HelloInterval", "HelloValidityTime", "TcInterval",
    "TcValidityTime", "MidInterval", "MidValidityTime", "HnaInterval", "HnaValidityTime">>[i])])
IfWeightLines(io) ==
  Line("Weight", io.opt["weight"][1] = 1, <<<<"INTEGER", io.opt["weight"][2]>>>>)
IfMultLines(c, io, comments) ==
  IF comments
  THEN [i \in 1..Len(io.lq_mult) |->
          St("LinkQualityMult", <<<<AddrClass(c), io.lq_mult[i][1]>>, <<"FLOAT", io.lq_mult[i][2]>>>>)]
  ELSE <<>>
olsrd_write_if_autobuf(c, io, comments) ==
  IfAddrLines(io) \o IfIntervalLines(io) \o IfWeightLines(io) \o IfMultLines(c, io, comments)
WriteInterfaces(c) ==
  <<Block("InterfaceDefaults", <<>>, olsrd_write_if_autobuf(c, c.interface_defaults, FALSE))>>
  \o [i \in 1..Len(c.interfaces) |->
        Block("Interface", <<c.interfaces[i].name>>,
              olsrd_write_if_autobuf(c, c.interfaces[i], i = 1))]

olsrd_write_cnf_autobuf_uncached(c) ==
  WriteBasic(c) \o WriteProto(c) \o WriteTables(c) \o WritePriorities(c) \o WriteNiit(c)
  \o WriteGateway(c) \o WriteGatewayTuning(c) \o WriteGatewayWeights(c) \o WriteUplink(c)
  \o WriteMain(c) \o olsrd_write_hna_autobuf(c, 4) \o olsrd_write_hna_autobuf(c, 6)
  \o WriteLink(c) \o WriteIpc(c) \o WritePlugins(c) \o WriteInterfaces(c)

---------------------------------------------------------------------------
(* Actions                                                                 *)

Fresh == [ok |-> TRUE, cnf |-> set_default_cnf, curr |-> 0]

Init ==
  /\ phase = "files" /\ p = Fresh /\ ifcnf = get_default_if_config
  /\ said = <<>> /\ read = 0 /\ files = 0 /\ given = <<>> /\ changes = 0
  /\ cache = <<>> /\ written = <<>>

\* The next statements of the file yyparse is reading.
Parse ==
  /\ phase = "files" /\ read < MaxRead /\ files < MaxFiles
  /\ \E run \in Pool : p' = FoldLeft(conf, p, run) /\ said' = said \o run
  /\ phase' = IF p'.ok THEN phase ELSE "failed"
  /\ read' = read + 1
  /\ UNCHANGED <<ifcnf, files, given, changes, cache, written>>
\* A file ends; another -f may follow.
ReadFile ==
  /\ phase = "files" /\ files < MaxFiles
  /\ p' = EndOfFile(p) /\ files' = files + 1
  /\ UNCHANGED <<phase, ifcnf, said, read, given, changes, cache, written>>
\* No file could be opened: fresh defaults.
loadConfig ==
  /\ phase = "files"
  /\ \/ files > 0 /\ UNCHANGED <<p, said>>
     \/ files = 0 /\ p' = Fresh /\ said' = <<>>
  /\ phase' = "args"
  /\ UNCHANGED <<ifcnf, read, files, given, changes, cache, written>>

olsr_process_arguments ==
  /\ phase = "args" /\ Len(given) < MaxArgs
  /\ \E arg \in Arguments :
       LET a == olsr_process_argument([ok |-> TRUE, cnf |-> p.cnf, ifcnf |-> ifcnf], arg) IN
       /\ p' = [p EXCEPT !.cnf = a.cnf] /\ ifcnf' = a.ifcnf
       /\ given' = Append(given, arg)
       /\ phase' = IF a.ok THEN phase ELSE "failed"
  /\ UNCHANGED <<said, read, files, changes, cache, written>>

\* main: the interfaces of the command line get their options, the
\* configuration is checked, and what is derived is set. The parser's counter
\* is of no further use.
Start ==
  /\ phase = "args"
  /\ \E scriptOk \in BOOLEAN :
       LET c == [p.cnf EXCEPT !.interfaces = set_default_ifcnfs(@, ifcnf)]
           checked == olsrd_sanity_check_cnf(c, scriptOk)
       IN IF checked.ok
          THEN phase' = "running" /\ p' = [p EXCEPT !.cnf = checked.cnf, !.curr = 0]
          ELSE phase' = "failed" /\ UNCHANGED p
  /\ UNCHANGED <<ifcnf, said, read, files, given, changes, cache, written>>

\* A plugin announces a prefix it has not announced, or withdraws one.
AddHna ==
  /\ phase = "running" /\ changes < MaxChanges
  /\ \E n \in Announced :
       /\ ~ip_prefix_list_find(p.cnf, "hna_entries", n)
       /\ p' = [p EXCEPT !.cnf = ip_prefix_list_add(@, "hna_entries", n)]
  /\ changes' = changes + 1
  /\ UNCHANGED <<phase, ifcnf, said, read, files, given, cache, written>>
RemoveHna ==
  /\ phase = "running" /\ changes < MaxChanges
  /\ \E n \in Announced : p' = [p EXCEPT !.cnf = ip_prefix_list_remove(@, "hna_entries", n)]
  /\ changes' = changes + 1
  /\ UNCHANGED <<phase, ifcnf, said, read, files, given, cache, written>>

\* The text is made once and kept.
olsrd_write_cnf_autobuf ==
  /\ phase = "running" /\ cache = <<>>
  /\ cache' = olsrd_write_cnf_autobuf_uncached(p.cnf) /\ written' = p.cnf
  /\ UNCHANGED <<phase, p, ifcnf, said, read, files, given, changes>>
\* A daemon is started with the text as its only file, the script in place.
Restart ==
  /\ phase = "running" /\ cache # <<>>
  /\ LET again == olsrd_parse_cnf(Fresh, cache)
         checked == olsrd_sanity_check_cnf(again.cnf, TRUE)
     IN p' = [ok |-> again.ok /\ checked.ok,
              cnf |-> IF again.ok THEN checked.cnf ELSE again.cnf, curr |-> 0]
  /\ phase' = "restarted"
  /\ UNCHANGED <<ifcnf, said, read, files, given, changes, cache, written>>

Next ==
  \/ Parse \/ ReadFile \/ loadConfig \/ olsr_process_arguments \/ Start
  \/ AddHna \/ RemoveHna \/ olsrd_write_cnf_autobuf \/ Restart
Spec == Init /\ [][Next]_vars

---------------------------------------------------------------------------
(* What was said, read independently of the parser's lists                 *)

\* The statements of the last InterfaceDefaults block.
DefaultsSaid ==
  LET at == {i \in 1..Len(said) : said[i].kw = "InterfaceDefaults"}
  IN IF at = {} THEN <<>> ELSE said[CHOOSE i \in at : \A j \in at : j <= i].body
\* The statements of the blocks that name the interface, in order.
SaidOf(name) ==
  FlattenSeq([i \in 1..Len(said) |->
    IF said[i].kw = "Interface" /\ name \in ToSet(said[i].names) THEN said[i].body ELSE <<>>])
\* The options after one more statement; multipliers are a list of their own.
Assigned(opt, st) == IF IsLqMult(st) THEN opt ELSE [opt EXCEPT ![ifstmt(st)[1]] = ifstmt(st)[2]]

\* Whatever the order and the number of the blocks and files, an interface
\* runs with the last value said of it by name, where none was said with that
\* of the last InterfaceDefaults block, and else with the built-in one: options
\* are stored by position in a list that blocks reorder, and merged byte by
\* byte.
AsSaid ==
  phase = "running" =>
    \A i \in 1..Len(p.cnf.interfaces) :
      p.cnf.interfaces[i].opt =
        FoldLeft(Assigned, get_default_if_config.opt, DefaultsSaid \o SaidOf(p.cnf.interfaces[i].name))

\* What the text says of an interface: times to a tenth of a second, no
\* AutoDetectChanges, a value equal to the built-in default not at all, so that
\* the one of InterfaceDefaults comes back, and multipliers for the first
\* interface only.
KeptOptions(io, d) ==
  [f \in IfFields |->
     LET v == CASE f = "autodetect_chg" -> <<1>>
                [] f \in {"hello_int", "hello_val", "tc_int", "tc_val", "mid_int", "mid_val",
                          "hna_int", "hna_val"} -> <<Tenth(io.opt[f][1])>>
                [] OTHER -> io.opt[f]
     IN IF io.opt[f] = get_default_if_config.opt[f] THEN d.opt[f] ELSE v]
KeptDefaults(c) ==
  [opt |-> KeptOptions(c.interface_defaults, get_default_if_config), lq_mult |-> <<>>]
KeptInterface(c, i) ==
  [name |-> c.interfaces[i].name, hemu |-> FALSE,
   opt |-> KeptOptions(c.interfaces[i], KeptDefaults(c)),
   lq_mult |-> IF i = 1 THEN Reverse(c.interfaces[i].lq_mult) ELSE <<>>]
\* Priorities equal to the usual ones come back as automatic ones.
KeptPolicy(c) ==
  LET again(f, usual) == IF c[f] = usual THEN AUTO ELSE c[f] IN
  IF ~c.smart_gw_active THEN c
  ELSE GatewayPolicy([c EXCEPT
         !.rt_table_defaultolsr_pri = again("rt_table_defaultolsr_pri", 32776),
         !.rt_table_tunnel_pri = again("rt_table_tunnel_pri", 32786),
         !.rt_table_default_pri = again("rt_table_default_pri", 32796)])
Kept(c) ==
  [KeptPolicy(c) EXCEPT
    !.interfaces = [i \in 1..Len(@) |-> KeptInterface(c, i)],
    !.interface_defaults = KeptDefaults(c),
    !.plugins = Reverse([i \in 1..Len(@) |-> <<@[i][1], Reverse(@[i][2])>>]),
    !.hna_entries = Reverse(@), !.ipc_nets = Reverse(@),
    !.maxplen = IF c.ip_version = 4 THEN 32 ELSE 128,
    !.rt_proto = IF @ = 0 THEN 3 ELSE @,
    !.nic_chgs_pollrate = Tenth(@), !.lq_nat_thresh = Tenth(@),
    !.min_tc_vtime = 0, !.set_ip_forward = TRUE,
    !.del_gws = FALSE, !.no_fork = FALSE, !.pidfile = NULL, !.host_emul = FALSE]
\* A daemon started with the text the daemon wrote accepts it and runs with the
\* same configuration, but for what the text leaves out (Kept): the order of
\* plugins, parameters and prefixes is turned round, MinTCVTime, SetIpForward,
\* AutoDetectChanges, options of the command line and most multipliers are
\* lost. With IPv6 and allowed IPC nets the text is no configuration at all.
RoundTrip ==
  phase = "restarted" /\ ~(written.ip_version = 6 /\ written.ipc_nets # <<>>)
    => p.ok /\ p.cnf = Kept(written)

\* The daemon announces itself as a gateway exactly while a default route is
\* among the prefixes it announces, through every announcement, withdrawal and
\* re-reading.
GatewayFlags ==
  LET has(gw) == \E i \in 1..Len(p.cnf.hna_entries) :
                   p.cnf.hna_entries[i][1] \in gw /\ p.cnf.hna_entries[i][2] = 0
  IN p.cnf.has_ipv4_gateway = has(DefaultGw4) /\ p.cnf.has_ipv6_gateway = has(DefaultGw6)

=============================================================================
