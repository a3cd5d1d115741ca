----------------------------- MODULE Interfaces -----------------------------
(***************************************************************************)
(* The interfaces of the daemon: interfaces.c and unix/ifnet.c, which add  *)
(* them, watch them and take them away; the netlink listener of            *)
(* linux/kernel_routes_nl.c; the settings of linux/net.c that are saved    *)
(* and restored; the links of link_set.c, which point to interfaces; the   *)
(* registered sockets of scheduler.c with the loops that call their        *)
(* handlers; and the BMF plugin, which opens sockets of its own and starts *)
(* afresh whenever an interface comes or goes.                             *)
(*                                                                         *)
(* One thread runs everything.  It goes round olsr_scheduler: the packets  *)
(* of the OLSR sockets, the timers, the routes, then the sockets that are  *)
(* handled at once (netlink, BMF).  The kernel changes interfaces at any   *)
(* time between two handlers.  The daemon is one record, d, because a      *)
(* handler changes most of it, and a function of the code maps it to the   *)
(* set of its possible results.  A number stands for the address of an     *)
(* interface object; a descriptor is the lowest one free.  IPv4, BMF with  *)
(* its default mechanism; every link is symmetric.                         *)
(***************************************************************************)
EXTENDS Integers, FiniteSets, FiniteSetsExt, Sequences, SequencesExt

CONSTANTS
  Order,        \* the interfaces of the configuration, olsr_cnf->interfaces
  Addrs,        \* the addresses an interface may have: [interface -> set]
  Neighbors,    \* the other ends of links
  None,         \* NULL, an address that is not set
  Detected,     \* the interfaces with autodetect_chg
  MaxEvents,    \* bound: what the kernel changes
  MaxFailures   \* bound: transmission sockets that cannot be had, netlink messages lost

VARIABLES
  kern,      \* the kernel's interfaces: up, address
  nl,        \* messages in the netlink socket: interface, flag IFF_UP
  d,         \* the daemon
  at,        \* where the scheduler is: which pass, the ready descriptors, the next entry
  allow,     \* allow_no_interfaces
  plugin,    \* whether BMF is loaded
  events     \* changes of the kernel so far

vars == <<kern, nl, d, at, allow, plugin, events>>

Ifs == Range(Order)

Netlink == 0

Fds == 0 .. 3 * Cardinality(Ifs) + 1

Ids == 1 .. 2 * Cardinality(Ifs) + Cardinality(Ifs) * Cardinality(Neighbors)

(* struct interface_olsr: address of the object, IP, sockets, saved        *)
(* settings.                                                               *)
Interface == [id : Ids, addr : UNION Range(Addrs), in : Fds, out : Fds, saved : {"on", "off"}]

(* struct link_entry: the neighbour, if_name, local_iface_addr, inter.     *)
Link == [nbr : Neighbors, name : Ifs, local : UNION Range(Addrs), inter : Ids \cup {None}]

Entry == [fd : Fds, handler : {"olsr_input", "rtnetlink_read", "bmf", "deleted"}]

Daemon == [ifs : [Ifs -> Interface \cup {None}], main : UNION Range(Addrs) \cup {None}, links : SUBSET Link,
           open : SUBSET Fds, socks : Seq(Entry), bmf : SUBSET [name : Ifs, intf : Ids, fd : Fds],
           data : SUBSET Fds, rp : [Ifs -> {"on", "off"}], changed : BOOLEAN,
           failures : 0 .. MaxFailures, state : {"running", "exited", "crashed"}]

Live(s) == {s.ifs[i].id : i \in {j \in Ifs : s.ifs[j] # None}}

(* if_ifwithaddr, if_ifwithsock, if_ifwithname: at most one fits here, the *)
(* addresses of the interfaces are different.                              *)
IfWithAddr(s, a) == {i \in Ifs : s.ifs[i] # None /\ s.ifs[i].addr = a}

IfWithSock(s, fd) == {i \in Ifs : s.ifs[i] # None /\ fd \in {s.ifs[i].in, s.ifs[i].out}}

----------------------------------------------------------------------------
(* Registered sockets                                                      *)

(* socket(2): the lowest descriptor that is free.                          *)
Lowest(s) == Min(Fds \ s.open)

(* add_olsr_socket: at the end of the list.                                *)
AddSocket(s, fd, h) ==
  [s EXCEPT !.open = @ \cup {fd}, !.socks = Append(@, [fd |-> fd, handler |-> h])]

(* Mutant of RemoveSocket: the socket is closed, the entry is kept.        *)
RemoveSocketKeepsEntry(s, fd, h) ==
  [s EXCEPT !.open = @ \ {fd}, !.data = @ \ {fd}]

(* remove_olsr_socket and close: the first entry of this descriptor and    *)
(* handler is marked; it leaves the list at the end of handle_fds, since a *)
(* loop over the list may stand on it.                                     *)
RemoveSocket(s, fd, h) ==
  LET found == {k \in DOMAIN s.socks : s.socks[k] = [fd |-> fd, handler |-> h]}
  IN  [s EXCEPT !.open = @ \ {fd}, !.data = @ \ {fd},
                !.socks = [k \in DOMAIN @ |-> IF found # {} /\ k = Min(found)
                                              THEN [fd |-> fd, handler |-> "deleted"] ELSE @[k]]]

----------------------------------------------------------------------------
(* BMF, told of every interface that comes or goes                         *)

(* CloseBmfNetworkInterfaces                                               *)
CloseBmf(s) ==
  FoldLeft(LAMBDA t, i : FoldSet(LAMBDA b, u : [RemoveSocket(u, b.fd, "bmf") EXCEPT !.bmf = @ \ {b}],
                                 t, {b \in t.bmf : b.name = i}),
           s, Order)

(* CreateEncapsulateSocket: the socket of encapsulated packets, registered *)
(* with its handler.                                                       *)
CreateEncapsulateSocket(s) == AddSocket(s, Lowest(s), "bmf")

CreateInterface(s, i, id) ==
  [CreateEncapsulateSocket(s) EXCEPT !.bmf = @ \cup {[name |-> i, intf |-> id, fd |-> Lowest(s)]}]

(* CreateBmfNetworkInterfaces: the kernel's list of interfaces, and among  *)
(* them those whose address is the one of an OLSR interface.               *)
InitBmf(s, skip) ==
  FoldLeft(LAMBDA t, i : LET own == {t.ifs[j].id : j \in IfWithAddr(t, kern[i].addr)}
                         IN  IF own \subseteq {skip} THEN t ELSE CreateInterface(t, i, CHOOSE o \in own : TRUE),
           s, Order)

(* InterfaceChange, for IFCHG_IF_ADD (nothing to skip) and                 *)
(* IFCHG_IF_REMOVE; nothing happens for IFCHG_IF_UPDATE.  The plugin is    *)
(* loaded after the first interfaces were added.                           *)
InterfaceChange(s, skip) ==
  IF plugin /\ at.pass # "start" THEN InitBmf(CloseBmf(s), skip) ELSE s

----------------------------------------------------------------------------
(* Interfaces that come and go                                             *)

(* olsr_delete_link_entry_by_ip                                            *)
DeleteLinks(s, a) ==
  [s EXCEPT !.links = {l \in @ : l.local # a},
            !.changed = @ \/ \E l \in s.links : l.local = a]

(* olsr_remove_interface: links, plugins, list, sockets; without any       *)
(* interface the daemon ends, unless it may go on.                         *)
RemoveInterface(s, i) ==
  LET o == s.ifs[i]
      t == [InterfaceChange(DeleteLinks(s, o.addr), o.id) EXCEPT !.ifs[i] = None]
      u == RemoveSocket(RemoveSocket(t, o.in, "olsr_input"), o.out, "olsr_input")
  IN  IF ~allow /\ \A j \in Ifs : u.ifs[j] = None THEN [u EXCEPT !.state = "exited"] ELSE u

(* net_os_set_ifoptions: reads the settings, then turns them off.          *)
SetIfOptions(s, i) == [s EXCEPT !.rp[i] = "off"]

(* The rest of chk_if_up once both sockets are there.                      *)
AddInterface(s, i) ==
  LET t == SetIfOptions(s, i)
      in == Lowest(t)
      t1 == AddSocket(t, in, "olsr_input")
      out == Lowest(t1)
      t2 == AddSocket(t1, out, "olsr_input")
      id == Min(Ids \ (Live(s) \cup {l.inter : l \in s.links}))
      o == [id |-> id, addr |-> kern[i].addr, in |-> in, out |-> out, saved |-> s.rp[i]]
      t3 == [t2 EXCEPT !.ifs[i] = o, !.main = IF @ = None THEN o.addr ELSE @]
  IN  InterfaceChange(t3, None)

(* chk_if_up without a transmission socket: the settings are changed, the  *)
(* receiving socket is closed again.                                       *)
AbortIfUp(s, i) == [SetIfOptions(s, i) EXCEPT !.failures = @ + 1]

(* chk_if_up                                                               *)
ChkIfUp(s, i) ==
  IF s.state # "running" \/ ~kern[i].up THEN {s}
  ELSE {AddInterface(s, i)} \cup (IF s.failures < MaxFailures THEN {AbortIfUp(s, i)} ELSE {})

(* Mutant of ChkIfChanged: the address is not looked at.                   *)
ChkIfChangedUpOnly(s, i) ==
  IF ~kern[i].up THEN {RemoveInterface(s, i)} ELSE {s}

(* chk_if_changed: an interface that went down is removed; one with        *)
(* another address gets the address, is removed and added again.           *)
ChkIfChanged(s, i) ==
  CASE ~kern[i].up -> {RemoveInterface(s, i)}
    [] kern[i].up /\ s.ifs[i].addr # kern[i].addr
         -> ChkIfUp(RemoveInterface([s EXCEPT !.ifs[i].addr = kern[i].addr], i), i)
    [] OTHER -> {s}

(* check_interface_updates, a timer; i is one interface of the loop.       *)
ChkInterface(s, i) ==
  IF s.state # "running" \/ i \notin Detected THEN {s}
  ELSE IF s.ifs[i] # None THEN ChkIfChanged(s, i) ELSE ChkIfUp(s, i)

CheckInterfaceUpdates(s) ==
  FoldLeft(LAMBDA S, i : UNION {ChkInterface(t, i) : t \in S}, {s}, Order)

(* netlink_process_link: the flag of the message, the carrier as it is     *)
(* now.                                                                    *)
NetlinkProcessLink(s, m) ==
  IF s.state # "running" THEN {s}
  ELSE CASE s.ifs[m.name] = None /\ m.up -> ChkIfUp(s, m.name)
         [] s.ifs[m.name] # None /\ ~m.up -> {RemoveInterface(s, m.name)}
         [] OTHER -> {s}

(* rtnetlink_read: until the socket is empty.                              *)
RtnetlinkRead(s) ==
  FoldLeft(LAMBDA S, m : UNION {NetlinkProcessLink(t, m) : t \in S}, {s}, nl)

(* olsr_input with a HELLO of n: update_link_entry.  lookup_link_entry     *)
(* goes by if_name; only a new entry gets the local address and the        *)
(* interface.                                                              *)
OlsrInput(s, fd, n) ==
  LET i == CHOOSE j \in IfWithSock(s, fd) : TRUE
      o == s.ifs[i]
  IN  IF IfWithSock(s, fd) = {} \/ \E l \in s.links : l.nbr = n /\ l.name = i THEN s
      ELSE [s EXCEPT !.links = @ \cup {[nbr |-> n, name |-> i, local |-> o.addr, inter |-> o.id]},
                     !.changed = TRUE]

(* olsr_calculate_routing_table: for each neighbour its best link, whose   *)
(* interface is looked up by name, and which becomes a next hop.           *)
Resolve(s, best) ==
  LET inter(l) == IF s.ifs[l.name] = None THEN None ELSE s.ifs[l.name].id
  IN  [s EXCEPT !.links = {IF l \in best THEN [l EXCEPT !.inter = inter(l)] ELSE l : l \in @},
                !.changed = FALSE,
                !.state = IF \E l \in best : inter(l) = None THEN "crashed" ELSE @]

BestLinks(s) ==
  {b \in SUBSET s.links : \A n \in Neighbors :
     Cardinality({l \in b : l.nbr = n}) = (IF \E l \in s.links : l.nbr = n THEN 1 ELSE 0)}

(* The handlers a pass looks at: poll_sockets or handle_fds.               *)
Looks(h) == h \in (IF at.pass = "poll" THEN {"olsr_input"} ELSE {"rtnetlink_read", "bmf"})

(* The entries from the next one on whose descriptor was found ready.      *)
Due == {k \in DOMAIN d.socks : k >= at.next /\ Looks(d.socks[k].handler) /\ d.socks[k].fd \in at.ready}

(* The descriptor a handler of BMF, which blocks, is called for without    *)
(* anything to read.                                                       *)
Waits ==
  {d.socks[k].fd : k \in {m \in Due : m = Min(Due) /\ d.socks[m].handler = "bmf" /\ d.socks[m].fd \notin d.data}}

----------------------------------------------------------------------------
(* The kernel and the network                                              *)

Started == at.pass # "start" /\ d.state = "running"

(* An interface goes up or down, and the netlink listeners are told.       *)
LinkChange(i) ==
  /\ Started /\ events < MaxEvents
  /\ events' = events + 1
  /\ kern' = [kern EXCEPT ![i].up = ~@]
  /\ nl' = Append(nl, [name |-> i, up |-> ~kern[i].up])
  /\ UNCHANGED <<d, at, allow, plugin>>

(* An interface gets another address.  The listener is not in that group.  *)
AddressChange(i) ==
  /\ Started /\ events < MaxEvents
  /\ events' = events + 1
  /\ \E a \in Addrs[i] \ {kern[i].addr} : kern' = [kern EXCEPT ![i].addr = a]
  /\ UNCHANGED <<nl, d, at, allow, plugin>>

(* The netlink socket overflows.                                           *)
LoseNetlink ==
  /\ Started /\ nl # <<>> /\ d.failures < MaxFailures
  /\ nl' = Tail(nl)
  /\ d' = [d EXCEPT !.failures = @ + 1]
  /\ UNCHANGED <<kern, at, allow, plugin, events>>

(* A packet for BMF while its handler waits for one.                       *)
Arrive(fd) ==
  /\ Started /\ fd \in Waits
  /\ d' = [d EXCEPT !.data = @ \cup {fd}]
  /\ UNCHANGED <<kern, nl, at, allow, plugin, events>>

----------------------------------------------------------------------------
(* The scheduler                                                           *)

(* olsr_init_interfacedb, then the plugins are loaded.                     *)
Start ==
  /\ at.pass = "start"
  /\ \E s \in FoldLeft(LAMBDA S, i : UNION {ChkIfUp(t, i) : t \in S}, {d}, Order) :
       d' = IF ~allow /\ Live(s) = {} THEN [s EXCEPT !.state = "exited"]
            ELSE IF plugin THEN InitBmf(s, None) ELSE s
  /\ at' = [pass |-> "poll", ready |-> {}, next |-> 0]
  /\ UNCHANGED <<kern, nl, allow, plugin, events>>

Goto(pass) == [pass |-> pass, ready |-> {}, next |-> 0]

(* The end of handle_fds: entries that are marked leave the list.          *)
Cleanup(s) == [s EXCEPT !.socks = SelectSeq(@, LAMBDA e : e.handler # "deleted")]

(* The end of a pass.                                                      *)
EndPass ==
  IF at.pass = "poll" THEN at' = Goto("timers") /\ UNCHANGED d
                      ELSE at' = Goto("poll") /\ d' = Cleanup(d)

(* select(2): the descriptors on which something has arrived.              *)
Select ==
  /\ d.state = "running" /\ at.pass \in {"poll", "imm"} /\ at.next = 0
  /\ LET wanted == {e.fd : e \in {x \in Range(d.socks) : Looks(x.handler)}} \ {Netlink}
         told == IF at.pass = "imm" /\ nl # <<>> THEN {Netlink} ELSE {}
     IN  \E r \in SUBSET wanted :
           IF r \cup told = {} THEN EndPass
           ELSE /\ at' = [at EXCEPT !.ready = r \cup told, !.next = 1]
                /\ d' = [d EXCEPT !.data = r \cup told]
  /\ UNCHANGED <<kern, nl, allow, plugin, events>>

End == Len(d.socks) + 100

(* One handler is called.  The loop has taken the entry after it           *)
(* beforehand.  The OLSR sockets and netlink do not block, those of BMF    *)
(* do: without data the call waits for a packet.                           *)
Dispatch ==
  /\ d.state = "running" /\ at.next > 0 /\ Due # {}
  /\ LET k == Min(Due)
         e == d.socks[k]
         read == [d EXCEPT !.data = @ \ {e.fd}]
     IN  /\ CASE e.handler = "olsr_input" -> (\E n \in Neighbors : d' = OlsrInput(read, e.fd, n)) /\ UNCHANGED nl
              [] e.handler = "rtnetlink_read" -> d' \in RtnetlinkRead(read) /\ nl' = <<>>
              [] e.handler = "bmf" -> Waits = {} /\ d' = read /\ UNCHANGED nl
         /\ at' = [at EXCEPT !.next = IF k = Len(d.socks) THEN End ELSE k + 1]
  /\ UNCHANGED <<kern, allow, plugin, events>>

(* The loop is over.  handle_fds selects again while there is time.        *)
LoopEnds ==
  /\ d.state = "running" /\ at.next > 0 /\ Due = {}
  /\ EndPass \/ (at.pass = "imm" /\ at' = Goto("imm") /\ UNCHANGED d)
  /\ UNCHANGED <<kern, nl, allow, plugin, events>>

(* walk_timers: the timer of the interfaces.                               *)
PollTimer ==
  /\ d.state = "running" /\ at.pass = "timers"
  /\ d' \in CheckInterfaceUpdates(d)
  /\ at' = Goto("checked")
  /\ UNCHANGED <<kern, nl, allow, plugin, events>>

(* walk_timers: the timer of a link, or none.                              *)
LinkTimer ==
  /\ d.state = "running" /\ at.pass = "timers"
  /\ \/ UNCHANGED d
     \/ \E l \in d.links : d' = [d EXCEPT !.links = @ \ {l}, !.changed = TRUE]
  /\ at' = Goto("changes")
  /\ UNCHANGED <<kern, nl, allow, plugin, events>>

(* olsr_process_changes.  The topology or the HNA set may have changed,    *)
(* too.                                                                    *)
ProcessChanges ==
  /\ d.state = "running" /\ at.pass \in {"checked", "changes"}
  /\ \/ ~d.changed /\ UNCHANGED d
     \/ \E best \in BestLinks(d) : d' = Resolve(d, best)
  /\ at' = Goto("imm")
  /\ UNCHANGED <<kern, nl, allow, plugin, events>>

(* olsr_shutdown, as far as net_os_restore_ifoptions goes: the settings of *)
(* the interfaces in the list.  It may come anywhere; between two passes   *)
(* it meets every list there is.                                           *)
Shutdown ==
  /\ Started /\ at.pass \in {"poll", "imm"} /\ at.next = 0
  /\ d' = [d EXCEPT !.rp = [i \in Ifs |-> IF d.ifs[i] = None THEN @[i] ELSE d.ifs[i].saved], !.state = "exited"]
  /\ UNCHANGED <<kern, nl, at, allow, plugin, events>>

Init ==
  /\ kern \in [Ifs -> [up : BOOLEAN, addr : UNION Range(Addrs)]]
  /\ \A i \in Ifs : kern[i].addr \in Addrs[i]
  /\ nl = <<>>
  /\ d = [ifs |-> [i \in Ifs |-> None], main |-> None, links |-> {}, open |-> {Netlink},
          socks |-> <<[fd |-> Netlink, handler |-> "rtnetlink_read"]>>, bmf |-> {}, data |-> {},
          rp |-> [i \in Ifs |-> "on"], changed |-> FALSE, failures |-> 0, state |-> "running"]
  /\ at = Goto("start")
  /\ allow \in BOOLEAN
  /\ plugin \in BOOLEAN
  /\ events = 0

Step == Start \/ Select \/ Dispatch \/ LoopEnds \/ PollTimer \/ LinkTimer \/ ProcessChanges

Next ==
  \/ Step
  \/ \E i \in Ifs : LinkChange(i) \/ AddressChange(i)
  \/ LoseNetlink
  \/ \E fd \in Fds : Arrive(fd)
  \/ Shutdown

Spec == Init /\ [][Next]_vars

(* The scheduler goes on unless a handler waits: weak fairness of Step,    *)
(* which always changes at and is enabled while the daemon runs and none   *)
(* waits.  The timer of the interfaces is periodic, and handle_fds ends    *)
(* when its time is over: strong fairness of PollTimer and of that end.    *)
Fairness ==
  /\ []<>(d.state # "running" \/ Waits # {}) \/ []<><<TRUE>>_at
  /\ []<>(at.pass = "timers") => []<>(at.pass = "checked")
  /\ []<>(at.pass = "imm" /\ at.next > 0 /\ Due = {}) => []<>(at.pass = "poll")

FairSpec == Spec /\ Fairness

----------------------------------------------------------------------------
(* The state has its type; and the list of sockets does not keep the       *)
(* entries that were marked for longer than a round of the scheduler.      *)
TypeOK ==
  /\ d \in Daemon
  /\ at.pass = "poll" => \A k \in DOMAIN d.socks : d.socks[k].handler # "deleted"
  /\ at.pass \in {"start", "poll", "timers", "checked", "changes", "imm"} /\ at.ready \subseteq Fds

Owned ==
  {Netlink} \cup {b.fd : b \in d.bmf}
    \cup UNION {{d.ifs[i].in, d.ifs[i].out} : i \in {j \in Ifs : d.ifs[j] # None}}

(* Sockets are neither lost nor used after they are closed: the open       *)
(* descriptors are those of the interfaces, of BMF and netlink.            *)
(* An entry that is not marked belongs to an open socket of the component  *)
(* whose handler it names, and there is one entry per socket: so a packet  *)
(* finds its interface, however descriptors were reused.                   *)
HandlersMatch ==
  LET live == {k \in DOMAIN d.socks : d.socks[k].handler # "deleted"}
  IN  /\ d.open = Owned
      /\ \A k, m \in live : d.socks[k].fd = d.socks[m].fd => k = m
      /\ \A fd \in d.open \ {Netlink} : \E k \in live :
           d.socks[k] = [fd |-> fd, handler |-> IF IfWithSock(d, fd) # {} THEN "olsr_input" ELSE "bmf"]
      /\ {d.socks[k].fd : k \in live} \subseteq d.open

(* BMF holds pointers to OLSR interfaces; none of them is to one that was  *)
(* freed.                                                                  *)
BmfPointsToLive == \A b \in d.bmf : b.intf \in Live(d)

(* What the daemon should have: every interface that is up, with its       *)
(* address, and BMF on each of them.                                       *)
Tracks ==
  /\ \A i \in Ifs : IF kern[i].up THEN d.ifs[i] # None /\ d.ifs[i].addr = kern[i].addr ELSE d.ifs[i] = None
  /\ plugin => {b.intf : b \in d.bmf} = Live(d)

(* However netlink and the poll timer divide the changes among them, and   *)
(* although messages are lost, sockets fail and BMF may start afresh while *)
(* an address is out of date, the daemon comes to the interfaces the       *)
(* kernel has, and BMF too; unless it ends, or waits in a handler of BMF.  *)
InterfacesTracked == <>[](d.state # "running" \/ Waits # {} \/ Tracks)

============================================================================
