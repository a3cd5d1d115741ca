----------------------------- MODULE Messages -----------------------------
(***************************************************************************)
(* How HELLO, TC, MID and HNA messages are made from the tables of a node, *)
(* cut into packets and read again.                                        *)
(*                                                                         *)
(* A message grows address by address.  When the next one does not fit     *)
(* into what is left of the output buffer, the part made so far is pushed, *)
(* the buffer is sent and a further message of the same kind is begun.     *)
(* Nobody looks at the answer of net_outbuffer_push.  (src/src/packet.c,   *)
(* build_msg.c, lq_packet.c, net_olsr.c, generate_msg.c; the readers are   *)
(* in process_package.c, rebuild_packet.c and hna_set.c)                   *)
(***************************************************************************)
EXTENDS Integers, Sequences, FiniteSets, SequencesExt

CONSTANTS
  Nodes,         \* what Init may choose: configuration, tables, pending bytes
  MaxRemaining,  \* MAX_REMAINING: 1228
  HnaPeriod, HnaValidity,  \* of the HNA timer
  EmptyTcs       \* max_tc_vtime * 3, in TC intervals

VARIABLES
  cnf,      \* olsr_cnf and the interface: v6, lq, maxsize, redundancy, sgw, ifs
  links,    \* the link set: [addr, nbr, here, link]
  nbrs,     \* the neighbours: main address -> [sym, mpr, sel]
  hnas,     \* olsr_cnf->hna_entries
  bandwidth,\* ~smartgw_is_zero_bandwidth
  port,     \* the output buffer, and the packets sent from it in this step
  window,   \* sgw_sgw_zero_bw_timeout
  sending,  \* sending_tc: the last TC had an address
  emptyTc,  \* TCs that are still sent while there is nothing to say
  steps,    \* generator -> how often it may still run
  told,     \* history: what the last message had to say
  left      \* history: how long the last announced gateway is valid elsewhere

vars == <<cnf, links, nbrs, hnas, bandwidth, port, window, sending, emptyTc, steps, told, left>>

\* Link types, and neighbour types (olsr_protocol.h)
UNSPEC_LINK == 0
ASYM_LINK == 1
SYM_LINK == 2
LOST_LINK == 3
HIDE_LINK == 4
NOT_NEIGH == 0
SYM_NEIGH == 1
MPR_NEIGH == 2
DefaultRoute == 0
IpSize == IF cnf.v6 THEN 16 ELSE 4
\* OLSR_IPV4_HDRSIZE, OLSR_HELLO_IPV4_HDRSIZE and so on
HDRSIZE(type) == 8 + IpSize + IF type \in {"hello", "tc"} THEN 4 ELSE 0
\* What an entry takes: a HELLO of the link quality extension has four bytes more.
EntrySize(type) == CASE type = "hna" -> 2 * IpSize
                     [] type = "hello" /\ cnf.lq -> IpSize + 4
                     [] OTHER -> IpSize
----------------------------------------------------------------------------
(* Output buffer (see Forwarding).                                         *)

RECURSIVE Pending(_)
Pending(msgs) == IF msgs = <<>> THEN 0 ELSE Head(msgs).size + Pending(Tail(msgs))
BytesLeft(p) ==
  LET remaining == cnf.maxsize - Pending(p.buf)
  IN  IF remaining > MaxRemaining THEN MaxRemaining ELSE remaining
NetOutput(p) == IF p.buf = <<>> THEN p ELSE [buf |-> <<>>, sent |-> Append(p.sent, p.buf)]
OutbufferPush(p, m) ==
  IF Pending(p.buf) + m.size > cnf.maxsize THEN p ELSE [p EXCEPT !.buf = Append(@, m)]
----------------------------------------------------------------------------
(* Internal messages.                                                      *)

NeighType(n) == IF nbrs[n].mpr THEN MPR_NEIGH ELSE IF nbrs[n].sym THEN SYM_NEIGH ELSE NOT_NEIGH

\* olsr_build_hello_packet: the links of this interface, and with several
\* interfaces the neighbours that have no link here.
BuildHello ==
  LET own == SelectSeq(links, LAMBDA l : l.here)
      others == {n \in DOMAIN nbrs : \A k \in DOMAIN own : own[k].nbr # n}
  IN  Reverse([k \in DOMAIN own |->
                 [addr |-> own[k].addr, link |-> own[k].link, status |-> NeighType(own[k].nbr)]]
              \o IF Len(cnf.ifs) = 1 THEN <<>>
                 ELSE [k \in 1 .. Cardinality(others) |->
                         LET n == SetToSeq(others)[k]
                         IN  [addr |-> n, link |-> UNSPEC_LINK, status |-> NeighType(n)]])

\* create_lq_hello: one entry for an address; a link of this interface replaces
\* one of another interface.
RECURSIVE CreateLqHello(_, _)
CreateLqHello(todo, list) ==
  IF todo = <<>> THEN list
  ELSE LET l == Head(todo)
           type == IF l.here THEN l.link ELSE UNSPEC_LINK
           entry == [addr |-> l.addr, link |-> type, status |-> NeighType(l.nbr)]
           at == {k \in DOMAIN list : list[k].addr = l.addr}
       IN  CreateLqHello(Tail(todo),
             IF at = {} THEN <<entry>> \o list
             ELSE [k \in DOMAIN list |->
                     IF k \in at /\ list[k].link = UNSPEC_LINK /\ type # UNSPEC_LINK THEN entry ELSE list[k]])

\* olsr_build_tc_packet
Advertised(n) == /\ nbrs[n].sym
                 /\ \/ cnf.redundancy = 2
                    \/ cnf.redundancy = 1 /\ nbrs[n].mpr
                    \/ nbrs[n].sel
BuildTc == LET S == {n \in DOMAIN nbrs : Advertised(n)} IN SetToSeq(S)
----------------------------------------------------------------------------
(* Cutting.  A job is a port, the message under construction with its      *)
(* entries grouped into sections, and the space that was left.             *)

\* CREATE_LINK_CODE(status, link): link | (status << 2), where link has three bits
LinkCode(status, link) ==
  (link % 4) + 4 * (IF link >= HIDE_LINK /\ status % 2 = 0 THEN status + 1 ELSE status)

\* Tells the messages of one generator call from those of earlier ones.
Runs == FoldFunction(LAMBDA a, b : a + b, 0, steps)
Begin(type, p) == [port |-> p, type |-> type, size |-> HDRSIZE(type), secs |-> <<>>,
                   rem |-> BytesLeft(p), exit |-> FALSE, id |-> Runs]
Message(job) == [type |-> job.type, size |-> job.size, secs |-> job.secs, id |-> job.id]
Push(job) == [job EXCEPT !.port = OutbufferPush(@, Message(job))]

\* No room for the next entry: push what there is, send the buffer, begin anew.
Partial(job) ==
  Begin(job.type, NetOutput(IF job.secs = <<>> THEN job.port ELSE Push(job).port))

\* Mutant of Need: the header of a section is not counted.
NeedNoHeader(job, code) == EntrySize(job.type)

\* The first entry of a section of a HELLO brings a header of four bytes.
Opens(job, code) == job.secs = <<>> \/ Last(job.secs).code # code
Need(job, code) ==
  EntrySize(job.type) + IF job.type = "hello" /\ Opens(job, code) THEN 4 ELSE 0

\* One address.  Outside of HELLOs all of a message is one section.
AddEntry(job0, code, addr) ==
  LET job1 == IF job0.size + Need(job0, code) > job0.rem THEN Partial(job0) ELSE job0
      job == [job1 EXCEPT !.exit = job0.exit \/ job1.size + Need(job1, code) > job1.rem]
      secs == IF Opens(job, code) THEN Append(job.secs, [code |-> code, addrs |-> <<addr>>])
              ELSE [job.secs EXCEPT ![Len(job.secs)].addrs = Append(@, addr)]
  IN  [job EXCEPT !.secs = secs, !.size = @ + Need(job, code)]

RECURSIVE AddAll(_, _)
AddAll(job, todo) ==
  IF todo = <<>> THEN job ELSE AddAll(AddEntry(job, Head(todo)[1], Head(todo)[2]), Tail(todo))

\* The order of a HELLO: neighbour types, link types within them.
LINK_ORDER == <<UNSPEC_LINK, LOST_LINK, ASYM_LINK, SYM_LINK>>
Sorted(entries, order) ==
  FlattenSeq([k \in 1 .. 3 * Len(order) |->
    LET status == (k - 1) \div Len(order)
        link == order[1 + ((k - 1) % Len(order))]
        group == SelectSeq(entries, LAMBDA e : e.status = status /\ e.link = link)
    IN  [i \in DOMAIN group |-> <<LinkCode(status, link), group[i].addr>>]])
Plain(addrs) == [k \in DOMAIN addrs |-> <<0, addrs[k]>>]

\* The pending messages are sent first when the new one needs more than is left.
Begun(type, p, need) ==
  IF need > BytesLeft(p) THEN Begin(type, NetOutput(p)) ELSE Begin(type, p)
Finished(job) == [job EXCEPT !.port = NetOutput(@)]
----------------------------------------------------------------------------
(* Reading.                                                                *)

\* deserialize_hello: the sections of one link type after the other, each entry
\* put in front of the list; then entries without a link type go whose address
\* is listed with one.
Deserialize(m) ==
  LET of(link) == SelectSeq(m.secs, LAMBDA s : s.code % 4 = link)
      entries(sec) == [k \in DOMAIN sec.addrs |->
                         [addr |-> sec.addrs[k], link |-> sec.code % 4, status |-> (sec.code \div 4) % 4]]
      list == Reverse(FlattenSeq([i \in 1 .. 4 |->
                LET found == of(LINK_ORDER[i]) IN FlattenSeq([k \in DOMAIN found |-> entries(found[k])])]))
      linked == {list[k].addr : k \in {k \in DOMAIN list : list[k].link # UNSPEC_LINK}}
  IN  SelectSeq(list, LAMBDA e : e.link # UNSPEC_LINK \/ e.addr \notin linked)

\* mid_chgestruct, olsr_input_hna and olsr_input_tc: what the size holds
Addresses(m) == FlattenSeq([k \in DOMAIN m.secs |-> m.secs[k].addrs])
Read(m) == IF m.type = "hello" THEN Deserialize(m) ELSE Addresses(m)
----------------------------------------------------------------------------
(* Generators.  The buffer timer that some of them set sends nothing.      *)

Step(g) == /\ steps[g] > 0
           /\ steps' = [steps EXCEPT ![g] = @ - 1]
Says(job, entries) ==
  /\ port' = job.port
  /\ told' = [id |-> Runs, entries |-> entries, exit |-> job.exit]
Fresh == [port EXCEPT !.sent = <<>>]

\* The loop over link types leaves hidden links out in one version only.
SerializeHello4(p, list) ==
  Push(AddAll(Begun("hello", p, HDRSIZE("hello")),
              Sorted(list, <<UNSPEC_LINK, ASYM_LINK, SYM_LINK, LOST_LINK>>)))
SerializeHello6(p, list) ==
  Push(AddAll(Begun("hello", p, HDRSIZE("hello")),
              Sorted(list, <<UNSPEC_LINK, ASYM_LINK, SYM_LINK, LOST_LINK, HIDE_LINK>>)))
QueueHello(p, list) == IF cnf.v6 THEN SerializeHello6(p, list) ELSE SerializeHello4(p, list)

GenerateHello ==
  /\ ~ cnf.lq /\ Step("hello")
  /\ Says(Finished(QueueHello(Fresh, BuildHello)), SelectSeq(BuildHello, LAMBDA e : e.link # HIDE_LINK))
  /\ UNCHANGED <<cnf, links, nbrs, hnas, bandwidth, window, sending, emptyTc, left>>

\* All of a HELLO is to go in one packet: what is pending leaves before it.
SerializeLqHello(p, list) ==
  LET groups == {<<list[k].status, list[k].link>> : k \in DOMAIN list}
      need == HDRSIZE("hello") + Len(list) * EntrySize("hello") + 4 * Cardinality(groups)
  IN  Push(AddAll(Begun("hello", p, need), Sorted(list, LINK_ORDER)))
OutputLqHello ==
  LET list == CreateLqHello(links, <<>>)
      job == SerializeLqHello(Fresh, list)
  IN  /\ cnf.lq /\ Step("hello")
      /\ Says(IF cnf.immediate THEN job ELSE Finished(job), list)
      /\ UNCHANGED <<cnf, links, nbrs, hnas, bandwidth, window, sending, emptyTc, left>>

\* A TC without addresses is pushed as long as empty ones are due.
SerializeTc4(p, list, empty) ==
  LET job == AddAll(Begun("tc", p, HDRSIZE("tc")), Plain(list))
  IN  IF list # <<>> \/ empty > 0 THEN Push(job) ELSE job
SerializeTc6(p, list, empty) == SerializeTc4(p, list, empty)
QueueTc(p, list, empty) == IF cnf.v6 THEN SerializeTc6(p, list, empty) ELSE SerializeTc4(p, list, empty)

GenerateTc ==
  LET list == BuildTc
      empty == IF list = <<>> /\ sending THEN EmptyTcs ELSE emptyTc
  IN  /\ ~ cnf.lq /\ Step("tc")
      /\ sending' = (list # <<>>)
      /\ emptyTc' = IF empty > 0 THEN empty - 1 ELSE 0
      /\ Says(QueueTc(Fresh, list, empty), list)
      /\ UNCHANGED <<cnf, links, nbrs, hnas, bandwidth, window, left>>

\* Twice the space that is needed must be left, or the buffer is sent.
SerializeMid4(p, list) ==
  LET job == AddAll(Begun("mid", p, HDRSIZE("mid") + 2 * IpSize * Len(cnf.ifs)), Plain(list))
  IN  IF list # <<>> THEN Push(job) ELSE job
SerializeMid6(p, list) == SerializeMid4(p, list)
QueueMid(p, list) == IF cnf.v6 THEN SerializeMid6(p, list) ELSE SerializeMid4(p, list)

GenerateMid ==
  LET list == SelectSeq(cnf.ifs, LAMBDA a : a # cnf.main)
  IN  /\ Step("mid")
      /\ IF Len(cnf.ifs) = 1 /\ cnf.ifs[1] = cnf.main THEN port' = Fresh /\ UNCHANGED told
         ELSE Says(QueueMid(Fresh, list), list)
      /\ UNCHANGED <<cnf, links, nbrs, hnas, bandwidth, window, sending, emptyTc, left>>

\* appendHNAEntry and appendHNA6Entry, for the entries that are not left out
Net(n, zero) == <<n, IF n # DefaultRoute \/ ~ cnf.sgw THEN "net" ELSE IF zero THEN "zero" ELSE "gateway">>
HnaEntries == LET list == SelectSeq(hnas, LAMBDA n : ~ (cnf.sgw /\ n = DefaultRoute /\ ~ bandwidth))
              IN  [k \in DOMAIN list |-> Net(list[k], FALSE)]
SerializeHna4(p, entries, n) ==
  Push(AddAll(Begun("hna", p, HDRSIZE("hna") + EntrySize("hna") * n), Plain(entries)))
SerializeHna6(p, entries, n) == SerializeHna4(p, entries, n)
QueueHna(p, entries, n) == IF cnf.v6 THEN SerializeHna6(p, entries, n) ELSE SerializeHna4(p, entries, n)

\* A gateway that was announced and is no longer is taken back.
ZeroDue(announced, w) == cnf.sgw /\ ~ announced /\ w > 0

GenerateHna ==
  LET announced == cnf.sgw /\ DefaultRoute \in ToSet(hnas) /\ bandwidth
      w == IF announced THEN HnaValidity ELSE window
      zero == ZeroDue(announced, w)
      first == IF hnas = <<>> THEN Begin("hna", Fresh) ELSE QueueHna(Fresh, HnaEntries, Len(hnas))
      zeros == <<Net(DefaultRoute, TRUE)>>
      job == IF zero THEN QueueHna(first.port, zeros, 1) ELSE first
  IN  /\ Step("hna")
      /\ Says([job EXCEPT !.exit = @ \/ first.exit],
              (IF hnas = <<>> THEN <<>> ELSE HnaEntries) \o IF zero THEN zeros ELSE <<>>)
      /\ window' = IF ~ zero THEN w ELSE IF w <= HnaPeriod THEN 0 ELSE w - HnaPeriod
      /\ left' = IF announced THEN HnaValidity ELSE IF left > HnaPeriod THEN left - HnaPeriod ELSE 0
      /\ UNCHANGED <<cnf, links, nbrs, hnas, bandwidth, sending, emptyTc>>

\* A plugin or the egress code changes what this node has to offer.
ChangeHnas ==
  /\ Step("net")
  /\ port' = Fresh
  /\ \/ \E n \in ToSet(hnas) : hnas' = SelectSeq(hnas, LAMBDA m : m # n) /\ UNCHANGED bandwidth
     \/ DefaultRoute \notin ToSet(hnas) /\ hnas' = <<DefaultRoute>> \o hnas /\ UNCHANGED bandwidth
     \/ bandwidth' = ~ bandwidth /\ UNCHANGED hnas
  /\ UNCHANGED <<cnf, links, nbrs, window, sending, emptyTc, told, left>>

\* Neighbours come and go between two TCs.
ChangeNeighbours ==
  /\ Step("nbr")
  /\ port' = Fresh
  /\ \E n \in DOMAIN nbrs : nbrs' = [nbrs EXCEPT ![n].sel = ~ @]
  /\ UNCHANGED <<cnf, links, hnas, bandwidth, window, sending, emptyTc, told, left>>

Init ==
  /\ \E n \in Nodes :
       /\ cnf = n.cnf /\ links = n.links /\ nbrs = n.nbrs /\ hnas = n.hnas /\ steps = n.steps
       /\ port = [buf |-> IF n.pending = 0 THEN <<>>
                          ELSE <<[type |-> "other", size |-> n.pending, secs |-> <<>>, id |-> 99]>>,
                  sent |-> <<>>]
  /\ bandwidth = TRUE /\ window = 0 /\ sending = FALSE /\ emptyTc = 0 /\ left = 0
  /\ told = [id |-> 0, entries |-> <<>>, exit |-> FALSE]

Next == GenerateHello \/ OutputLqHello \/ GenerateTc \/ GenerateMid \/ GenerateHna
        \/ ChangeHnas \/ ChangeNeighbours
Spec == Init /\ [][Next]_vars
----------------------------------------------------------------------------
\* Every packet fits, and the messages a generator made say exactly what was
\* to be said, each entry once, however the buffer cut them (net_outbuffer_push
\* never refuses one), and carry their true size; the hidden links of a HELLO are not said.
WireSize(m) ==
  HDRSIZE(m.type) + EntrySize(m.type) * Len(Addresses(m)) + IF m.type = "hello" THEN 4 * Len(m.secs) ELSE 0
Mine(msgs) == SelectSeq(msgs, LAMBDA m : m.id = told.id)
RoundTrip ==
  LET out == Mine(FlattenSeq(port.sent) \o port.buf)
      got == FlattenSeq([k \in DOMAIN out |-> Read(out[k])])
  IN  /\ \A k \in DOMAIN port.sent : Pending(port.sent[k]) <= cnf.maxsize
      /\ told.id > 0 /\ told.id = Runs + 1 =>
         /\ ~ told.exit
         /\ \A k \in DOMAIN out : out[k].size = WireSize(out[k])
         /\ Len(got) = Len(told.entries)
         /\ ToSet(got) = ToSet(told.entries)

============================================================================
