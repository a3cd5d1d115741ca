-------------------------------- MODULE Info --------------------------------
(***************************************************************************)
(* The server the info plugins share (lib/info/olsrd_info.c), with the     *)
(* plugins jsoninfo, netjson and txtinfo on top of it: a connection is     *)
(* accepted and its request read and understood, the reply is put together *)
(* from printed or cached texts, and a periodic timer sends what the       *)
(* client's socket did not take at once.                                   *)
(*                                                                         *)
(* A request is the sequence of its words and separators.  A reply is kept *)
(* as what a client reads out of its text (Reading) and the number of      *)
(* pieces that still have to be sent; a cached text is kept as it is,      *)
(* because it is put into later replies.                                   *)
(***************************************************************************)
EXTENDS InfoPrint

CONSTANTS
  Kinds,        \* the plugins that may be loaded
  Confs,        \* configurations: accept, allow, v6, headers, caching
  Worlds,       \* states of the daemon's tables
  Inputs,       \* what may arrive on a connection: [r, text]
  Peers,        \* addresses connections come from
  Conns,        \* connections
  MAX_CLIENTS,  \* replies in flight
  MaxPieces,    \* sends a reply may take
  CacheTimeout, \* cachetimeout, in ticks
  EmptySlot     \* no reply

VARIABLES
  kind,    \* the plugin
  conf,    \* its configuration
  world,   \* the daemon's tables
  cache,   \* info_cache: a sequence of at most one [age, text] per item
  slot,    \* outbuffer
  count,   \* outbuffer.count
  timer,   \* does writetimer_entry run
  conn     \* the connections

vars == <<kind, conf, world, cache, slot, count, timer, conn>>

ANY == "any"
LOOPBACK == "loopback"
OK == 200
NOCONTENT == 204
FORBIDDEN == 403
NOTFOUND == 404
REQUEST_TIMEOUT == 408
INTERNAL_SERVER_ERROR == 500

---------------------------------------------------------------------------
(* What can be asked for.                                                  *)

RuntimeItems == {"neighbors", "links", "routes", "hna", "mid", "topology",
                 "gateways", "interfaces", "2hop", "sgw", "pudposition"}
StartupItems == {"version", "config", "plugins"}
NormalItems == RuntimeItems \cup StartupItems
NetworkItems == {"NetworkRoutes", "NetworkGraph", "NetworkCollection"}
CONF == "olsrd.conf"
Everything == NormalItems \cup NetworkItems \cup {CONF}

\* The order of the printers in send_info.
NormalTable ==
  <<"neighbors", "links", "routes", "hna", "mid", "topology", "gateways",
    "interfaces", "2hop", "sgw", "pudposition", "version", "config",
    "plugins">>
NetworkTable == <<"NetworkRoutes", "NetworkGraph", "NetworkCollection">>

Same(words) == [x \in words |-> {x}]

jsoninfo_isCommand ==
  Same(NormalItems \cup {CONF})
  @@ ("all" :> NormalItems) @@ ("runtime" :> RuntimeItems)
  @@ ("startup" :> StartupItems) @@ ("neighbours" :> {"neighbors", "links"})

netjson_isCommand == Same(NetworkItems)

txtinfo_isCommand ==
  ("con" :> {CONF}) @@ ("all" :> NormalItems) @@ ("runtime" :> RuntimeItems)
  @@ ("startup" :> StartupItems) @@ ("nei" :> {"neighbors"})
  @@ ("lin" :> {"links"}) @@ ("rou" :> {"routes"}) @@ ("hna" :> {"hna"})
  @@ ("mid" :> {"mid"}) @@ ("top" :> {"topology"}) @@ ("gat" :> {"gateways"})
  @@ ("int" :> {"interfaces"}) @@ ("2ho" :> {"2hop"}) @@ ("sgw" :> {"sgw"})
  @@ ("ver" :> {"version"}) @@ ("neighbours" :> {"neighbors", "links"})

json_commands_mask == NormalItems \cup {CONF}
netjson_commands_mask == NetworkItems
txtinfo_commands_mask == json_commands_mask \ {"config", "plugins"}

is_command(k) ==
  CASE k = "jsoninfo" -> jsoninfo_isCommand
    [] k = "netjson" -> netjson_isCommand
    [] k = "txtinfo" -> txtinfo_isCommand

commands_mask(k) ==
  CASE k = "jsoninfo" -> json_commands_mask
    [] k = "netjson" -> netjson_commands_mask
    [] k = "txtinfo" -> txtinfo_commands_mask

\* The function tables of the plugins.
json_functions(w, item) ==
  CASE item = "neighbors" -> ipc_print_neighbors(w)
    [] item = "links" -> ipc_print_links(w)
    [] item = "routes" -> ipc_print_routes(w)
    [] item = "topology" -> ipc_print_topology(w)
    [] item = "hna" -> ipc_print_hna(w)
    [] item = "mid" -> ipc_print_mid(w)
    [] item = "gateways" -> ipc_print_gateways(w)
    [] item = "sgw" -> ipc_print_sgw(w)
    [] item = "pudposition" -> ipc_print_pud_position(w)
    [] item = "version" -> ipc_print_version(w)
    [] item = "interfaces" -> ipc_print_interfaces(w)
    [] item = "2hop" -> ipc_print_twohop(w)
    [] item = "config" -> ipc_print_config(w)
    [] item = "plugins" -> ipc_print_plugins(w)

netjson_functions(w, item) ==
  CASE item = "NetworkRoutes" -> ipc_print_network_routes(w)
    [] item = "NetworkGraph" -> ipc_print_network_graph(w)
    [] item = "NetworkCollection" -> ipc_print_network_collection(w)

txt_functions(w, item) ==
  CASE item = "neighbors" -> txt_print_neighbors_internal(w, FALSE)
    [] item = "links" -> txt_print_links(w)
    [] item = "routes" -> txt_print_routes(w)
    [] item = "topology" -> txt_print_topology(w)
    [] item = "hna" -> txt_print_hna(w)
    [] item = "mid" -> txt_print_mid(w)
    [] item = "gateways" -> txt_print_gateways(w)
    [] item = "sgw" -> txt_sgw_ipvx(w)
    [] item = "version" -> txt_print_version
    [] item = "interfaces" -> txt_print_interfaces(w)
    [] item = "2hop" -> txt_print_neighbors_internal(w, TRUE)

functions(k, w, item) ==
  CASE k = "jsoninfo" -> json_functions(w, item)
    [] k = "netjson" -> netjson_functions(w, item)
    [] k = "txtinfo" -> txt_functions(w, item)

\* The items a plugin has a printer for.
Printable(k) ==
  CASE k = "jsoninfo" -> NormalItems
    [] k = "netjson" -> NetworkItems
    [] k = "txtinfo" -> NormalItems \ {"config", "plugins", "pudposition"}

---------------------------------------------------------------------------
(* Understanding a request.                                                *)

DropWhile(s, x) ==
  SubSeq(s, SelectInSeq(s \o <<"">>, LAMBDA e : e # x), Len(s))
DropEnd(s, x) == Reverse(DropWhile(Reverse(s), x))

skipLeadingWhitespace(req) == DropWhile(req, " ")
stripTrailingWhitespace(req) == DropEnd(req, " ")
stripTrailingSlashes(req) == DropEnd(req, "/")

\* Of several slashes at the start the last one stays.
skipMultipleSlashes(req) ==
  LET rest == DropWhile(req, "/")
  IN IF Len(rest) < Len(req) THEN <<"/">> \o rest ELSE req

cutAtFirstEOL(req) ==
  SubSeq(req, 1, SelectInSeq(req \o <<"\n">>, LAMBDA e : e = "\n") - 1)

\* [req, headers]: GET URI HTTP/1.[01], or a bare command.
parseRequest(req, headers) ==
  LET n == Len(req)
  IN IF req = <<>> THEN [req |-> req, headers |-> headers]
     ELSE IF \/ n < 5
             \/ req[1] # "GET" \/ req[2] # " "
             \/ req[n - 1] # " " \/ req[n] # "HTTP/1.1"
          THEN [req |-> req, headers |-> FALSE]
          ELSE [req |-> SubSeq(req, 3, n - 2), headers |-> TRUE]

HasPrefix(req, word) ==
  /\ Len(req) >= 2 /\ req[1] = "/" /\ req[2] = word
  /\ Len(req) > 2 => req[3] = "/"

checkCommandPrefixes(r) ==
  IF HasPrefix(r.req, "http")
  THEN [req |-> SubSeq(r.req, 3, Len(r.req)), headers |-> TRUE]
  ELSE IF HasPrefix(r.req, "plain")
  THEN [req |-> SubSeq(r.req, 3, Len(r.req)), headers |-> FALSE]
  ELSE r

sanitise(text) ==
  LET cut == skipLeadingWhitespace(stripTrailingWhitespace(cutAtFirstEOL(text)))
      r == parseRequest(cut, conf.headers)
      uri == skipMultipleSlashes(skipLeadingWhitespace(
               stripTrailingSlashes(stripTrailingWhitespace(r.req))))
      c == checkCommandPrefixes([r EXCEPT !.req = uri])
  IN [c EXCEPT !.req = skipMultipleSlashes(@)]

\* The items a segment asks for: it is a slash and a known word.
determine_single_action(seg) ==
  IF /\ Len(seg) = 2 /\ seg[1] = "/" /\ seg[2] \in DOMAIN is_command(kind)
     /\ is_command(kind)[seg[2]] \cap commands_mask(kind) # {}
  THEN is_command(kind)[seg[2]] ELSE {}

RECURSIVE CompositeAction(_)
CompositeAction(req) ==
  LET seg == skipMultipleSlashes(req)
      cut == SelectInSeq(Tail(seg) \o <<"/">>, LAMBDA e : e = "/")
      one == determine_single_action(SubSeq(seg, 1, cut))
      rest == SubSeq(seg, cut + 1, Len(seg))
      more == CompositeAction(rest)
  IN IF one = {} \/ rest = <<>> THEN one
     ELSE IF more = {} THEN {} ELSE one \cup more

determine_action(req) ==
  IF kind = "netjson" THEN determine_single_action(req)
  ELSE CompositeAction(req)

hostDenied(peer) ==
  /\ conf.accept # ANY
  /\ peer # conf.accept
  /\ \/ ~ conf.allow
     \/ IF conf.v6 THEN conf.accept # LOOPBACK ELSE peer # LOOPBACK

---------------------------------------------------------------------------
(* Putting a reply together.  st: out, session, and the cache.             *)

\* 0: not cached; startup information is kept for ever.
cache_timeout_generic(item) ==
  IF ~ conf.caching THEN 0
  ELSE IF item \in StartupItems THEN CacheTimeout + 1 ELSE CacheTimeout

PrintItem(st, item) ==
  LET calls == functions(kind, world, item)
  IN IF kind = "txtinfo" THEN [out |-> calls, session |-> st.session]
     ELSE Write([out |-> <<>>, session |-> st.session], calls)

\* The cached text where it is not too old, or a fresh one, which is kept if
\* the item is cached at all.
PrintOne(st, item, what) ==
  LET timeout == cache_timeout_generic(item)
      old == st.cache[item]
  IN IF item \notin what \cap Printable(kind) THEN st
     ELSE IF timeout > 0 /\ old # <<>> /\ old[1].age < timeout
     THEN [st EXCEPT !.out = @ \o old[1].text]
     ELSE With(PrintItem(st, item), LAMBDA new :
            [out |-> st.out \o new.out, session |-> new.session,
             cache |-> [st.cache EXCEPT ![item] =
                          IF timeout > 0
                          THEN <<[age |-> 0, text |-> new.out]>> ELSE @]])

RECURSIVE PrintAll(_, _, _)
PrintAll(st, table, what) ==
  IF table = <<>> THEN st
  ELSE With(PrintOne(st, Head(table), what),
            LAMBDA next : PrintAll(next, Tail(table), what))

\* Mutant: the reply begins like netjson's, without the members that make
\* every printed item the second one.
StartWithoutValues ==
  IF kind = "txtinfo"
  THEN [out |-> <<>>, session |-> abuf_json_reset_entry_number_and_depth]
  ELSE OutputOpen

output_start ==
  CASE kind = "jsoninfo" -> Write(OutputOpen, StartValues(world))
    [] kind = "netjson" -> OutputOpen
    [] kind = "txtinfo" ->
         [out |-> <<>>, session |-> abuf_json_reset_entry_number_and_depth]

output_end(out) == IF kind = "txtinfo" THEN out ELSE out \o OutputClose

\* [out, printed, cache]
send_info_from_table(table, what) ==
  LET start == output_start
      st == PrintAll([out |-> start.out, session |-> start.session,
                      cache |-> cache], table, what)
  IN [out |-> output_end(st.out), printed |-> Len(st.out) > Len(start.out),
      cache |-> st.cache]

output_error(status, headers) ==
  IF headers THEN <<>>
  ELSE IF kind = "txtinfo"
  THEN IF status = NOCONTENT THEN Blank ELSE Title("error")
  ELSE output_end(IF status = NOCONTENT THEN output_start.out
                  ELSE Write(output_start, Value("error")).out)

ConfText == <<[c |-> FALSE, op |-> "conf", k |-> <<>>]>>

\* The reply to a request that was understood.
Compose(what) ==
  IF what \cap (NormalItems \cup NetworkItems) # {}
  THEN send_info_from_table(IF what \cap NormalItems # {} THEN NormalTable
                            ELSE NetworkTable, what)
  ELSE IF CONF \in what /\ kind # "netjson"
  THEN [out |-> ConfText, printed |-> TRUE, cache |-> cache]
  ELSE [out |-> <<>>, printed |-> FALSE, cache |-> cache]

---------------------------------------------------------------------------
(* What a client makes of a text: [ok, said].                              *)

NotReadable == [ok |-> FALSE, said |-> <<>>]

\* Are the keys of the piece those the open bracket asks for.
KeysFit(f, p) ==
  IF f.op = "{"
  THEN /\ p.k # <<>> /\ "" \notin ToSet(p.k)
       /\ Cardinality(ToSet(p.k)) = Len(p.k)
       /\ ToSet(p.k) \cap f.keys = {}
  ELSE IF p.op = "v" THEN ToSet(p.k) = {""} ELSE p.k = <<>>

\* One piece; st: ok, stack (the open brackets, with the keys seen and the
\* number of members), said.
ReadPiece(st, p) ==
  LET f == st.stack[Len(st.stack)]
      bad == [st EXCEPT !.ok = FALSE]
      seen == [st.stack EXCEPT ![Len(st.stack)].keys = @ \cup ToSet(p.k),
                               ![Len(st.stack)].n = @ + 1]
  IN IF st.stack = <<>> THEN bad
     ELSE IF p.op \in {"}", "]"}
     THEN IF p.c \/ f.op # (IF p.op = "}" THEN "{" ELSE "[") THEN bad
          ELSE [st EXCEPT !.stack = Front(@)]
     ELSE IF p.op \notin {"{", "[", "v"} \/ p.c # (f.n > 0) \/ ~ KeysFit(f, p)
     THEN bad
     ELSE IF p.op = "v" THEN [st EXCEPT !.stack = seen]
     ELSE [st EXCEPT
             !.stack = Append(seen, [op |-> p.op, keys |-> {}, n |-> 0]),
             !.said = IF Len(seen) = 1 THEN @ \o p.k ELSE @]

RECURSIVE ReadJson(_, _)
ReadJson(st, text) ==
  IF ~ st.ok \/ text = <<>> THEN st
  ELSE IF Len(text) = 1 THEN ReadPiece(st, text[1])
  ELSE LET half == Len(text) \div 2
       IN With(ReadJson(st, SubSeq(text, 1, half)),
               LAMBDA first : ReadJson(first,
                                       SubSeq(text, half + 1, Len(text))))

JsonReading(text) ==
  IF text = <<>> \/ Head(text).op # "{" THEN NotReadable
  ELSE LET st == ReadJson([ok |-> TRUE, said |-> <<>>,
                           stack |-> <<[op |-> "{", keys |-> {}, n |-> 0]>>],
                          Tail(text))
       IN [ok |-> st.ok /\ st.stack = <<>>, said |-> st.said]

\* Tables: a title, at most one line of columns, rows, an empty line.
RECURSIVE ReadTables(_, _, _)
ReadTables(text, open, said) ==
  IF text = <<>> THEN [ok |-> ~ open, said |-> said]
  ELSE LET p == Head(text)
       IN CASE p.op = "title" /\ ~ open ->
                 ReadTables(Tail(text), TRUE, said \o p.k)
            [] p.op \in {"columns", "row"} /\ open ->
                 ReadTables(Tail(text), TRUE, said)
            [] p.op = "blank" /\ open -> ReadTables(Tail(text), FALSE, said)
            [] OTHER -> NotReadable

Reading(text) ==
  IF text = ConfText THEN [ok |-> TRUE, said |-> <<>>]
  ELSE IF kind = "txtinfo" THEN ReadTables(text, FALSE, <<>>)
  ELSE JsonReading(text)

---------------------------------------------------------------------------
(* Sending.  A result is [slot, count, timer, closed].                     *)

SlotIds == 1..MAX_CLIENTS
Used(s) == {i \in SlotIds : s[i] # EmptySlot}

\* What the sockets do with a send: 0 takes nothing (EAGAIN), -1 is an
\* error.  One that is ready takes at least one piece.
Sends(s) ==
  {x \in [Used(s) -> -1..MaxPieces] :
     \A i \in Used(s) : IF s[i].ready THEN x[i] # 0 /\ x[i] <= s[i].left
                        ELSE x[i] = 0}

\* Mutant: the timer stops with the first reply that is done.
WriteDataStopsEarly(s, n, t, x) ==
  LET gone == {i \in Used(s) : x[i] = -1 \/ x[i] >= s[i].left}
  IN [slot |-> [i \in SlotIds |->
                  IF i \in gone THEN EmptySlot
                  ELSE IF i \in Used(s) /\ x[i] > 0
                  THEN [s[i] EXCEPT !.left = @ - x[i], !.ready = FALSE]
                  ELSE s[i]],
      count |-> n - Cardinality(gone),
      timer |-> t /\ gone = {},
      closed |-> {s[i].conn : i \in gone}]

write_data(s, n, t, x) ==
  LET gone == {i \in Used(s) : x[i] = -1 \/ x[i] >= s[i].left}
  IN [slot |-> [i \in SlotIds |->
                  IF i \in gone THEN EmptySlot
                  ELSE IF i \in Used(s) /\ x[i] > 0
                  THEN [s[i] EXCEPT !.left = @ - x[i], !.ready = FALSE]
                  ELSE s[i]],
      count |-> n - Cardinality(gone),
      timer |-> t /\ n > Cardinality(gone),
      closed |-> {s[i].conn : i \in gone}]

Closed(cs) == [c \in Conns |-> IF c \in cs THEN <<>> ELSE conn[c]]

\* send_info: the reply takes the last free slot, as much as possible is sent
\* at once, and the first pending reply starts the timer.
send_info(c, headers, what, status) ==
  LET free == CHOOSE j \in SlotIds \ Used(slot) :
                \A h \in SlotIds \ Used(slot) : h <= j
  IN \E made \in {IF status = OK THEN Compose(what)
                  ELSE [out |-> <<>>, printed |-> FALSE, cache |-> cache]} :
     \E st \in {IF status = OK /\ ~ made.printed THEN NOCONTENT ELSE status} :
     \E said \in {Reading(IF st = OK THEN made.out
                          ELSE output_error(st, headers))} :
     \E size \in 1..MaxPieces, ready \in BOOLEAN :
     \E filled \in {[slot EXCEPT ![free] =
                     [conn |-> c, left |-> size, ready |-> ready,
                      status |-> st, what |-> what, reading |-> said]]} :
     \E x \in Sends(filled) :
       LET w == write_data(filled, count + 1, timer, x)
       IN /\ cache' = made.cache
          /\ slot' = w.slot
          /\ count' = w.count
          /\ timer' = (w.timer \/ (count = 0 /\ w.slot[free] # EmptySlot))
          /\ conn' = [d \in Conns |->
                        IF d \in w.closed THEN <<>>
                        ELSE IF d = c THEN <<"open">> ELSE conn[d]]

\* One attempt, and the connection is closed.
send_status_no_retries(c) ==
  /\ conn' = Closed({c})
  /\ UNCHANGED <<cache, slot, count, timer>>

---------------------------------------------------------------------------
(* Actions.                                                                *)

Init ==
  /\ kind \in Kinds
  /\ conf \in Confs
  /\ world \in Worlds
  /\ cache = [x \in NormalItems \cup NetworkItems |-> <<>>]
  /\ slot = [i \in SlotIds |-> EmptySlot]
  /\ count = 0
  /\ timer = FALSE
  /\ conn = [c \in Conns |-> <<>>]

Connect(c) ==
  /\ conn[c] = <<>>
  /\ conn' = [conn EXCEPT ![c] = <<"waiting">>]
  /\ UNCHANGED <<kind, conf, world, cache, slot, count, timer>>

\* What becomes of a request: [headers, what, status].
Outcome(in, denied) ==
  LET r == IF in.r = "text" THEN sanitise(in.text)
           ELSE [req |-> <<>>, headers |-> conf.headers]
      what == IF r.req = <<>> \/ r.req = <<"/">> THEN Everything
              ELSE determine_action(r.req)
      Refused(status) == [headers |-> r.headers, what |-> {}, status |-> status]
  IN CASE in.r = "select" -> Refused(INTERNAL_SERVER_ERROR)
       [] in.r = "timeout" -> Refused(REQUEST_TIMEOUT)
       [] in.r \in {"recv", "eof", "text"} /\ denied -> Refused(FORBIDDEN)
       [] in.r = "recv" /\ ~ denied -> Refused(INTERNAL_SERVER_ERROR)
       [] in.r \in {"eof", "text"} /\ ~ denied ->
            With(what, LAMBDA w : [headers |-> r.headers, what |-> w,
                                   status |-> IF w = {} THEN NOTFOUND ELSE OK])

\* The listening socket is ready.
ipc_action(c) ==
  /\ conn[c] = <<"waiting">>
  /\ \/ count >= MAX_CLIENTS /\ send_status_no_retries(c)
     \/ /\ count < MAX_CLIENTS
        /\ \E in \in Inputs, denied \in {hostDenied(p) : p \in Peers} :
             \E r \in {Outcome(in, denied)} :
               send_info(c, r.headers, r.what, r.status)
  /\ UNCHANGED <<kind, conf, world>>

\* The periodic timer: nothing happens while no socket is ready.
WriteTimer ==
  /\ timer
  /\ \E i \in Used(slot) : slot[i].ready
  /\ \E x \in Sends(slot) :
       LET w == write_data(slot, count, timer, x)
       IN /\ slot' = w.slot
          /\ count' = w.count
          /\ timer' = w.timer
          /\ conn' = Closed(w.closed)
  /\ UNCHANGED <<kind, conf, world, cache>>

\* A client reads: its socket takes data again, or it is gone, which the next
\* send finds out.
ClientReady(i) ==
  /\ slot[i] # EmptySlot /\ ~ slot[i].ready
  /\ slot' = [slot EXCEPT ![i].ready = TRUE]
  /\ UNCHANGED <<kind, conf, world, cache, count, timer, conn>>

\* Time passes for the cached texts; startup information does not age.
Tick ==
  /\ \E x \in DOMAIN cache \ StartupItems :
       cache[x] # <<>> /\ cache[x][1].age < CacheTimeout
  /\ cache' = [x \in DOMAIN cache |->
                 IF x \in StartupItems \/ cache[x] = <<>> THEN cache[x]
                 ELSE <<[cache[x][1] EXCEPT
                           !.age = IF @ < CacheTimeout THEN @ + 1 ELSE @]>>]
  /\ UNCHANGED <<kind, conf, world, slot, count, timer, conn>>

\* The rest of the daemon changes its tables.
Change ==
  /\ \E w \in Worlds \ {world} : world' = w
  /\ UNCHANGED <<kind, conf, cache, slot, count, timer, conn>>

Next ==
  \/ \E c \in Conns : Connect(c) \/ ipc_action(c)
  \/ WriteTimer
  \/ \E i \in SlotIds : ClientReady(i)
  \/ Tick
  \/ Change

\* The scheduler runs the timer; a client that waits for its reply reads what
\* arrives.
Fairness ==
  /\ WF_vars(WriteTimer)
  /\ \A i \in SlotIds : WF_vars(ClientReady(i))

Spec == Init /\ [][Next]_vars /\ Fairness

---------------------------------------------------------------------------
(* Properties.                                                             *)

\* The names under which the items of a plugin show up in its replies.
SaidName(item) ==
  IF kind = "jsoninfo"
  THEN IF item = "pudposition" THEN "pudPosition" ELSE item
  ELSE CASE item \in {"neighbors", "2hop"} -> "Neighbors"
         [] item = "links" -> "Links" [] item = "routes" -> "Routes"
         [] item = "hna" -> "HNA" [] item = "mid" -> "MID"
         [] item = "topology" -> "Topology" [] item = "gateways" -> "Gateways"
         [] item = "interfaces" -> "Interfaces"
         [] item = "sgw" -> "Smart Gateway IPv4"
         [] item = "version" -> "Version"

\* What a reply to the request has to say, in order.
Wanted(what) ==
  LET order == SelectSeq(NormalTable,
                         LAMBDA x : x \in what \cap Printable(kind))
  IN [i \in 1..Len(order) |-> SaidName(order[i])]

\* Every reply that is sent with status 200 can be read back: its JSON is well
\* formed, with the commas where they belong and no key twice, or its tables
\* are complete; and it says exactly what was asked for, in the order of the
\* printers, whatever of it comes out of the cache.
Readable ==
  \A i \in Used(slot) :
    slot[i].status = OK =>
      /\ slot[i].reading.ok
      /\ kind # "netjson" /\ slot[i].what \cap NormalItems # {} =>
           slot[i].reading.said = Wanted(slot[i].what)

\* A connection whose request was answered is closed in the end: no reply stays
\* in a slot without the timer that sends its rest.
EveryReplyEnds ==
  \A c \in Conns : (conn[c] = <<"open">>) ~> (conn[c] = <<>>)

\* The graph of netjson is closed: both ends of every link it prints are the
\* id or a local address of a node it prints.
GraphClosed ==
  LET nodes == PrintedNodes(world)
      known == UNION {{n.id} \cup n.local : n \in nodes}
      links == ToSet(PrintedLinks(world))
  IN kind = "netjson" => \A l \in links : {l[1], l[2]} \subseteq known

=============================================================================
