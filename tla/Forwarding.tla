---------------------------- MODULE Forwarding ----------------------------
(***************************************************************************)
(* Flooding of messages through a network of nodes.                       *)
(*                                                                         *)
(* Every interface has an output buffer.  Messages a node generates, and   *)
(* messages it forwards for the neighbours that selected it as their relay *)
(* (MPR), are collected there and leave together in one packet.  A packet  *)
(* reaches every interface that hears the sending one; the receiver takes  *)
(* its messages one by one.  The duplicate set of DuplicateSet stops the   *)
(* flood.  (src/src/parser.c, src/src/olsr.c, src/src/net_olsr.c,          *)
(* src/src/lq_packet.c, src/src/mpr_selector_set.c)                        *)
(***************************************************************************)
EXTENDS Integers, Sequences, FiniteSets, FiniteSetsExt, SequencesExt

CONSTANTS
  Nodes,
  Ifaces,
  Owner,       \* Owner[i]: the node of interface i
  Hears,       \* pairs <<i, j>>: what i sends arrives at j
  Mode,        \* Mode[i]: "mesh", "ether" or "silent"
  MaxSize,     \* netbuf.maxsize of an interface
  Immediate,   \* immediate_send_tc of an interface
  HelloSize,   \* size of a HELLO
  TcSizes,     \* sizes of a TC
  TtlList,     \* ttl_list: hop limits that the TCs of an interface use in turn
  MaxTtl,      \* 255 in the code
  MaxTcs,      \* MaxTcs[i]: bound on the TCs generated on interface i
  MaxFaults,   \* bound on faults
  Hops,        \* Hops[m][n]: links between two nodes
  Wireless,    \* Wireless[m][n]: those of them that are not "ether"
  HalfSeq, Window, MaxTooLow   \* of the duplicate set

VARIABLES
  dup,        \* dup[n][o]: the duplicate set of n
  buffer,     \* buffer[i]: messages waiting in the output buffer of i
  air,        \* air[<<i, j>>]: packets on their way
  selectors,  \* selectors[n]: the nodes that chose n as a relay (mprs_list)
  status,     \* status[n]: the symmetric neighbours of n
  tcs,        \* tcs[i]: TCs generated on interface i, its ttl_index
  faults,     \* faults so far
  handled,    \* history: messages the handlers of a node were called with
  queued      \* history: <<i, m, k>>, m entered the buffer of i for the k-th time

vars == <<dup, buffer, air, selectors, status, tcs, faults, handled, queued>>

\* The duplicate set of one node, at one moment: a flood is over long before
\* an entry expires.
Dup == INSTANCE DuplicateSet
  WITH Origs <- Nodes, VTime <- 1, ClockMod <- 4, MaxTicks <- 0,
       ticks <- 0, verdict <- FALSE, copies <- 0, born <- 0, lastSeen <- 0

Tc == [type : {"tc"}, orig : Nodes, seqno : Nat, ttl : 0 .. MaxTtl, hops : 0 .. MaxTtl, size : TcSizes]
Hello == [type |-> "hello", size |-> HelloSize]
Message == Tc \cup {Hello}
\* What tells a message from others in the histories.
Id(m) == [orig |-> m.orig, seqno |-> m.seqno, scope |-> m.hops + m.ttl, size |-> m.size]
IfacesOf(n) == {i \in Ifaces : Owner[i] = n}
----------------------------------------------------------------------------
(* Output buffers.  A port is a buffer and the packets sent from it so far *)
(* in the current step.                                                    *)

RECURSIVE Pending(_)
Pending(msgs) == IF msgs = <<>> THEN 0 ELSE Head(msgs).size + Pending(Tail(msgs))

\* net_output: the whole buffer leaves in one packet; an empty one does not.
NetOutput(port) ==
  [buf |-> <<>>,
   sent |-> IF port.buf = <<>> THEN port.sent ELSE Append(port.sent, port.buf)]

\* net_outbuffer_push: refused when the message does not fit.
Fits(i, buf, m) == Pending(buf) + m.size <= MaxSize[i]
OutbufferPush(i, port, m) ==
  IF Fits(i, port.buf, m) THEN [port EXCEPT !.buf = Append(@, m)] ELSE port

\* What olsr_forward_message does with one interface, and what the serializers
\* do when a message does not fit next to the pending ones.
PushOrFlush(i, port, m) ==
  IF Fits(i, port.buf, m) THEN OutbufferPush(i, port, m)
                          ELSE OutbufferPush(i, NetOutput(port), m)
----------------------------------------------------------------------------
(* Receiving.                                                              *)

\* is_ttl_1
Exhausted(m) == m.ttl < 2 \/ MaxTtl < m.hops + m.ttl

Aged(m) == IF Exhausted(m) THEN m ELSE [m EXCEPT !.hops = @ + 1, !.ttl = @ - 1]

\* The interfaces that olsr_forward_message does not skip.
Outgoing(n, in_if, m) ==
  {i \in IfacesOf(n) : /\ Mode[i] # "silent"
                       /\ ~ (i = in_if /\ Mode[i] = "ether")
                       /\ Exhausted(m) => Mode[i] = "ether"}

\* Mutant of Seen: the duplicate set is not asked.
SeenNever(entry, s) == FALSE

\* olsr_message_is_duplicate, its answer and the entry it leaves
Seen(entry, s) == entry # Dup!NoEntry /\ Dup!IsDuplicate(Dup!Refreshed(entry), s)
Noted(entry, s) ==
  IF entry = Dup!NoEntry THEN Dup!CreateEntry(s) ELSE Dup!UpdatedEntry(Dup!Refreshed(entry), s)

\* The history entry for one more time that m enters the buffer of i.
Times(hist, i, m) ==
  <<i, Id(m), 1 + Cardinality({q \in hist : q[1] = i /\ q[2] = Id(m)})>>

\* olsr_forward_message.  st is what one packet has changed so far at node n:
\* its duplicate set, the ports of its interfaces and the two histories.
ForwardMessage(n, in_if, from, m, st) ==
  IF from \notin status[n] \/ from \notin selectors[n] THEN st
  ELSE LET noted == [st EXCEPT !.dup[m.orig] = Noted(@, m.seqno)]
           copy == Aged(m)
           out == Outgoing(n, in_if, m)
       IN  IF Seen(st.dup[m.orig], m.seqno) THEN noted
           ELSE [noted EXCEPT
                   !.port = [i \in IfacesOf(n) |->
                               IF i \in out THEN PushOrFlush(i, @[i], copy) ELSE @[i]],
                   !.queued = @ \cup {Times(@, i, m) : i \in out}]

\* One message of parse_packet: not our own; a HELLO stays here, and a TC is
\* sent on unless its handler refused it (olsr_input_tc: no symmetric link).
ParseMessage(n, in_if, from, m, st) ==
  IF m.type = "hello" THEN st
  ELSE IF m.orig = n THEN st
  ELSE IF from \notin status[n] THEN st
  ELSE ForwardMessage(n, in_if, from, m, [st EXCEPT !.handled = @ \cup {Id(m)}])

\* The loop of parse_packet.
RECURSIVE ParsePacket(_, _, _, _, _)
ParsePacket(n, in_if, from, msgs, st) ==
  IF msgs = <<>> THEN st
  ELSE ParsePacket(n, in_if, from, Tail(msgs), ParseMessage(n, in_if, from, Head(msgs), st))

NodeState(n) ==
  [dup |-> dup[n], port |-> [i \in IfacesOf(n) |-> [buf |-> buffer[i], sent |-> <<>>]],
   handled |-> handled[n], queued |-> queued]

\* The packets of a port are put on the air behind those of the same link.
Sent(a, ports) ==
  [l \in Hears |-> IF l[1] \in DOMAIN ports THEN a[l] \o ports[l[1]].sent ELSE a[l]]
Buffers(ports) == [i \in Ifaces |-> IF i \in DOMAIN ports THEN ports[i].buf ELSE buffer[i]]
----------------------------------------------------------------------------
\* The neighbours of n, and those that need n to reach another node.
Around(n) == {Owner[l[1]] : l \in {x \in Hears : Owner[x[2]] = n}}
Relayed(n) == {x \in Around(n) : \E y \in Around(n) \ {x} : y \notin Around(x)}

Init ==
  /\ dup = [n \in Nodes |-> [o \in Nodes |-> Dup!NoEntry]]
  /\ buffer = [i \in Ifaces |-> <<>>]
  /\ air = [l \in Hears |-> <<>>]
  /\ status = [n \in Nodes |-> Around(n)]
  /\ selectors = [n \in Nodes |-> Relayed(n)]
  /\ tcs = [i \in Ifaces |-> 0]
  /\ faults = 0
  /\ handled = [n \in Nodes |-> {}]
  /\ queued = {}

\* olsr_input and parse_packet: the first packet of a link arrives.
Receive(l) ==
  /\ air[l] # <<>>
  /\ \E n \in {Owner[l[2]]} : \E st \in {ParsePacket(n, l[2], Owner[l[1]], Head(air[l]), NodeState(n))} :
         /\ dup' = [dup EXCEPT ![n] = st.dup]
         /\ buffer' = Buffers(st.port)
         /\ air' = Sent([air EXCEPT ![l] = Tail(@)], st.port)
         /\ handled' = [handled EXCEPT ![n] = st.handled]
         /\ queued' = st.queued
  /\ UNCHANGED <<selectors, status, tcs, faults>>

\* The port of interface i after message m was serialized into its buffer:
\* what is pending leaves first if m does not fit next to it, and the buffer is
\* sent when this kind of message is sent at once.
Serialized(i, m, atOnce) ==
  LET port == PushOrFlush(i, [buf |-> buffer[i], sent |-> <<>>], m)
  IN  IF atOnce THEN NetOutput(port) ELSE port

\* A TC waits in the buffer of i.
Waiting(i) == \E k \in DOMAIN buffer[i] : buffer[i][k].type = "tc"

\* Packets of HELLOs alone carry nothing to forward and are left out.
Carries(port) == [port EXCEPT !.sent = SelectSeq(@, LAMBDA p : \E k \in DOMAIN p : p[k].type = "tc")]

\* Mutant of OutputHello: the HELLO joins the buffer and waits with it.
OutputHelloWaits(i) ==
  /\ Waiting(i) /\ ~Immediate[i] /\ Fits(i, buffer[i], Hello)
  /\ buffer' = [buffer EXCEPT ![i] = Serialized(i, Hello, FALSE).buf]
  /\ UNCHANGED <<dup, air, selectors, status, tcs, faults, handled, queued>>

\* olsr_output_lq_hello (and generate_hello): the periodic HELLO of i.  It ends
\* with the buffer sent, unless TCs are the messages that are sent at once on
\* this interface; TCs are then more frequent than HELLOs, so that no second
\* HELLO joins the first.
OutputHello(i) ==
  LET port == Carries(Serialized(i, Hello, ~Immediate[i]))
  IN  /\ Waiting(i) /\ (Immediate[i] => \A k \in DOMAIN buffer[i] : buffer[i][k].type = "tc")
      /\ buffer' = [buffer EXCEPT ![i] = port.buf]
      /\ air' = Sent(air, [j \in {i} |-> port])
      /\ UNCHANGED <<dup, selectors, status, tcs, faults, handled, queued>>

\* olsr_output_lq_tc (and generate_tc): the periodic TC of i, with a message
\* number of its own and the next hop limit of the list.
OutputTc(i, size) ==
  LET n == Owner[i]
      seqno == MapThenSumSet(LAMBDA j : tcs[j], IfacesOf(n))
      m == [type |-> "tc", orig |-> n, seqno |-> seqno, ttl |-> TtlList[1 + (tcs[i] % Len(TtlList))],
            hops |-> 0, size |-> size]
      port == Carries(Serialized(i, m, Immediate[i]))
  IN  /\ tcs[i] < MaxTcs[i]
      /\ size <= MaxSize[i]
      /\ buffer' = [buffer EXCEPT ![i] = port.buf]
      /\ air' = Sent(air, [j \in {i} |-> port])
      /\ tcs' = [tcs EXCEPT ![i] = @ + 1]
      /\ queued' = queued \cup {Times(queued, i, m)}
      /\ UNCHANGED <<dup, selectors, status, faults, handled>>

\* olsr_output_lq_tc when there is nothing to advertise: it still sends what
\* is pending on an interface where TCs are sent at once.
OutputNoTc(i) ==
  /\ Immediate[i] /\ buffer[i] # <<>>
  /\ buffer' = [buffer EXCEPT ![i] = <<>>]
  /\ air' = Sent(air, [j \in {i} |-> Carries(NetOutput([buf |-> buffer[i], sent |-> <<>>]))])
  /\ UNCHANGED <<dup, selectors, status, tcs, faults, handled, queued>>

\* The head of a link is replaced by other packets.
Disturb(l, packets) ==
  /\ faults < MaxFaults /\ air[l] # <<>>
  /\ air' = [air EXCEPT ![l] = packets \o Tail(@)]
  /\ faults' = faults + 1
  /\ UNCHANGED <<dup, buffer, selectors, status, tcs, handled, queued>>

\* A packet is lost (or sendto failed: net_output forgets it all the same),
\* arrives twice, or has a damaged last message, at which parse_packet stops.
Lose(l) == Disturb(l, <<>>)
Repeat(l) == Disturb(l, <<Head(air[l]), Head(air[l])>>)
Damage(l) == Disturb(l, <<Front(Head(air[l]))>>)

\* olsr_expire_mpr_sel_entry: a neighbour has not confirmed its choice in time.
ExpireMprSelEntry(n, x) ==
  /\ faults < MaxFaults /\ x \in selectors[n]
  /\ selectors' = [selectors EXCEPT ![n] = @ \ {x}]
  /\ faults' = faults + 1
  /\ UNCHANGED <<dup, buffer, air, status, tcs, handled, queued>>

\* olsr_update_mprs_set: a HELLO of x names n as its relay.
UpdateMprsSet(n, x) ==
  /\ x \in Relayed(n) \ selectors[n]
  /\ selectors' = [selectors EXCEPT ![n] = @ \cup {x}]
  /\ UNCHANGED <<dup, buffer, air, status, tcs, faults, handled, queued>>

\* update_neighbor_status: the link to x is lost.
LoseNeighbor(n, x) ==
  /\ faults < MaxFaults /\ x \in status[n]
  /\ status' = [status EXCEPT ![n] = @ \ {x}]
  /\ faults' = faults + 1
  /\ UNCHANGED <<dup, buffer, air, selectors, tcs, handled, queued>>

Next ==
  \/ \E l \in Hears : Receive(l) \/ Lose(l) \/ Repeat(l) \/ Damage(l)
  \/ \E i \in Ifaces : OutputHello(i) \/ OutputNoTc(i)
  \/ \E i \in Ifaces, size \in TcSizes : OutputTc(i, size)
  \/ \E n \in Nodes, x \in Nodes :
       ExpireMprSelEntry(n, x) \/ UpdateMprsSet(n, x) \/ LoseNeighbor(n, x)

\* The scheduler serves the sockets and the periodic message timers again and
\* again.  Nothing else sends a buffer: fwdtimer, which set_buffer_timer sets,
\* is never looked at for that purpose.
Work ==
  \/ \E l \in Hears : Receive(l)
  \/ \E i \in Ifaces : OutputHello(i) \/ OutputNoTc(i)

Spec == Init /\ [][Next]_vars /\ WF_vars(Work)
----------------------------------------------------------------------------
\* Buffers hold messages that fit them: no sequence of generated and forwarded
\* messages, on interfaces of different size, overfills a packet.
TypeOK ==
  /\ dup \in [Nodes -> [Nodes -> Dup!Entry \cup {Dup!NoEntry}]]
  /\ \A i \in Ifaces : buffer[i] \in Seq(Message) /\ Pending(buffer[i]) <= MaxSize[i]
  /\ \A l \in Hears : air[l] \in Seq(Seq(Message))
  /\ selectors \in [Nodes -> SUBSET Nodes] /\ status \in [Nodes -> SUBSET Nodes]
  /\ tcs \in [Ifaces -> Nat] /\ faults \in 0 .. MaxFaults

\* However messages are lost, repeated and echoed by other relays, a message is
\* put into the buffer of an interface at most twice: once, and once more
\* because the entry of a new originator starts without a mark.
TwiceAtMost == \A q \in queued : q[3] <= 2

\* The fish-eye hop limit holds: a message is handled by no node that is more
\* wireless hops away than its limit, although a message that has used up its
\* hops is still sent on to ethernets.
Scoped == \A n \in Nodes : \A h \in handled[n] : Wireless[h.orig][n] <= h.scope

Busy == (\E l \in Hears : air[l] # <<>>) \/ (\E i \in Ifaces : Waiting(i))

\* Every flood comes to an end: no message waits in a buffer for ever, and no
\* echo between relays keeps one alive.
FloodEnds == <>[]~Busy

\* When the flood is over and there was no fault, every TC that fits into the
\* packets of every interface has reached every node its hop limit covers.
Delivered ==
  ~Busy /\ faults = 0 =>
    \A q \in queued, n \in Nodes :
      /\ \A i \in Ifaces : q[2].size <= MaxSize[i]
      /\ Hops[q[2].orig][n] \in 1 .. q[2].scope
      => q[2] \in handled[n]
============================================================================
