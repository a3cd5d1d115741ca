------------------------------ MODULE TcSet ------------------------------
(***************************************************************************)
(* The topology set: the link-state database built from TC messages.       *)
(*                                                                         *)
(* One entry per known node, with the edges the node advertises.  An edge  *)
(* a -> b holds a pointer to its inverse b -> a, if that exists; the route *)
(* calculation uses only edges that have one.  A TC message carries a      *)
(* message number, the ANSN of the advertised set, the advertised          *)
(* neighbours with their link quality, and two border flags that say which *)
(* range of addresses the message speaks for, so that a set too large for  *)
(* one message can be split.  Old, repeated and stray messages are held    *)
(* off by windows on both numbers.  (src/src/tc_set.c)                     *)
(***************************************************************************)
EXTENDS Integers, FiniteSets

CONSTANTS
  Nodes,         \* addresses of nodes, numbers below 2^(2 * ByteBits) - 1
  Self,          \* our main address
  ByteBits,      \* addresses have two bytes of ByteBits bits
  LittleEndian,  \* is the build's byte order little-endian?
  SeqMod,        \* number of message numbers, 65536 in the code
  SeqWindow, SeqWindowUp,    \* TC_SEQNO_WINDOW and its multiple
  AnsnMod,       \* number of ANSNs, 65536 in the code
  AnsnWindow, AnsnWindowUp,  \* TC_ANSN_WINDOW and its multiple
  MaxIgnored,    \* old messages ignored in a row, 32 in the code
  MaxLq,         \* link qualities are 0 (no link) .. MaxLq
  Messages(_)    \* the TC messages that may arrive from a node

MaxAddr == 2^(2 * ByteBits) - 1

ASSUME NodesAssumption ==
  /\ Nodes \subseteq 1 .. MaxAddr - 1
  /\ Self \in Nodes
  /\ ByteBits \in Nat \ {0}
  /\ LittleEndian \in BOOLEAN
ASSUME WindowAssumption ==
  /\ SeqMod \in Nat /\ SeqWindow \in Nat /\ SeqWindowUp \in Nat
  /\ AnsnMod \in Nat /\ AnsnWindow \in Nat /\ AnsnWindowUp \in Nat
  /\ SeqWindow + SeqWindowUp < SeqMod /\ AnsnWindow + AnsnWindowUp < AnsnMod
  /\ MaxIgnored \in Nat /\ MaxLq \in Nat \ {0}

ASSUME MessagesAssumption ==
  \A o \in Nodes : \A m \in Messages(o) : DOMAIN m.adv \subseteq Nodes

VARIABLES
  nodes,    \* entries of the tc tree
  hdr,      \* numbers last accepted from each node, and what was held off
  valid,    \* entries whose validity timer runs
  gc,       \* entries whose edge garbage collection timer runs
  edges,    \* pairs <<a, b>>: an edge to b hangs off the entry of a
  edge,     \* ansn, link quality and cost of each edge
  inv,      \* edges whose edge_inv is set
  changes   \* changes_topology or changes_hna: a route calculation is due

vars == <<nodes, hdr, valid, gc, edges, edge, inv, changes>>
----------------------------------------------------------------------------
(* Numbers and windows. *)

\* SEQNO_GREATER_THAN for numbers below n
GreaterThan(n, s1, s2) ==
  LET half == (n - 1) \div 2
  IN  \/ s1 > s2 /\ s1 - s2 <= half
      \/ s2 > s1 /\ s2 - s1 > half

\* olsr_seq_inrange_high: seq in (beg, beg + w], with wrap-around
InRangeHigh(n, beg, w, seq) == LET d == (seq - beg) % n IN 1 <= d /\ d <= w

\* olsr_seq_inrange_low: seq in [beg, beg + w), with wrap-around
InRangeLow(n, beg, w, seq) == (seq - beg) % n < w
----------------------------------------------------------------------------
(* Addresses and border flags. *)

FullBorder == 255
NoBorder == 0

\* avl_comp_default for IPv4 compares addresses, which are in network byte
\* order, as integers of the host.
Rank(a) ==
  IF LittleEndian THEN (a % 2^ByteBits) * 2^ByteBits + a \div 2^ByteBits ELSE a

SetBit(a, k) ==
  LET high == a \div 2^k
  IN  (IF high % 2 = 1 THEN high ELSE high + 1) * 2^k

\* olsr_calculate_tc_border: the border addresses of a part
LowerIp(first, flag) == IF flag = FullBorder THEN 0 ELSE SetBit(first, flag - 1)
UpperIp(last, flag) == IF flag = FullBorder THEN MaxAddr ELSE SetBit(last, flag - 1)

First(S) == CHOOSE a \in S : \A b \in S : Rank(a) <= Rank(b)
Last(S) == CHOOSE a \in S : \A b \in S : Rank(b) <= Rank(a)

\* Does message m say which range of addresses it speaks for?
EmptyTC(m) == DOMAIN m.adv = {}
BorderSet(m) ==
  IF EmptyTC(m) THEN m.lower = FullBorder /\ m.upper = FullBorder
                ELSE ~(m.lower = NoBorder /\ m.upper = NoBorder)

\* Is address a inside the borders of m?
Inside(m, a) ==
  EmptyTC(m) \/ /\ Rank(LowerIp(First(DOMAIN m.adv), m.lower)) <= Rank(a)
                /\ Rank(a) < Rank(UpperIp(Last(DOMAIN m.adv), m.upper))
----------------------------------------------------------------------------
(* Entries and edges. *)

Broken == MaxLq + 1

\* olsr_calc_tc_edge_entry_etx: the better the quality the lower the cost, and
\* without a link the edge is unusable.
CostOf(q) == IF q = 0 THEN Broken ELSE MaxLq + 1 - q

Edge == [ansn : 0 .. AnsnMod - 1, lq : 0 .. MaxLq, cost : 0 .. Broken]
NoEdge == [ansn |-> 0, lq |-> 0, cost |-> 0]
NewEdge(ansn, q) == [ansn |-> ansn, lq |-> q, cost |-> CostOf(0)]

Header == [seq : 0 .. SeqMod - 1, ansn : 0 .. AnsnMod - 1, ignored : 0 .. MaxIgnored,
           err : -1 .. SeqMod - 1]
NoErr == -1
NewHeader == [seq |-> 0, ansn |-> 0, ignored |-> 0, err |-> NoErr]

Flip(E) == {<<e[2], e[1]>> : e \in E}
Of(n) == {e \in edges : e[1] = n}

\* olsr_add_tc_edge_entry for the edges new: the shortcuts to the inverse
\* edges are connected mutually.
Link(links, old, new) ==
  LET paired == {e \in new : <<e[2], e[1]>> \in old \cup new}
  IN  links \cup paired \cup Flip(paired)

\* Mutant of Unlink: the inverse edge keeps its pointer to the freed edge.
UnlinkOneWay(links, gone) == links \ gone

\* olsr_delete_tc_edge_entry for the edges gone.
Unlink(links, gone) == links \ (gone \cup Flip(gone))
----------------------------------------------------------------------------
(* Messages: what olsr_input_tc makes of message m from node o. *)

\* Already seen or old: both numbers are in the window of the past.
Old(o, m) ==
  /\ InRangeHigh(SeqMod, hdr[o].seq - SeqWindow, SeqWindow, m.seq)
  /\ InRangeHigh(AnsnMod, hdr[o].ansn - AnsnWindow, AnsnWindow, m.ansn)

\* Neither old nor in the window of the future.
Implausible(o, m) ==
  \/ ~InRangeHigh(SeqMod, hdr[o].seq, SeqWindowUp, m.seq)
  \/ ~InRangeLow(AnsnMod, hdr[o].ansn, AnsnWindowUp, m.ansn)

Checked(o) == o \in nodes /\ Of(o) # {}

IsIgnored(o, m) ==
  Checked(o) /\ Old(o, m) /\ (m.seq = hdr[o].seq \/ hdr[o].ignored < MaxIgnored)
IsStray(o, m) ==
  Checked(o) /\ ~Old(o, m) /\ Implausible(o, m) /\ hdr[o].err \in {NoErr, m.seq}

\* olsr_input_tc returns early: the message is old.
IgnoreTc(o, m) ==
  /\ IsIgnored(o, m)
  /\ hdr' = [hdr EXCEPT ![o].ignored = IF m.seq = hdr[o].seq THEN @ ELSE @ + 1]
  /\ UNCHANGED <<nodes, valid, gc, edges, edge, inv, changes>>

\* olsr_input_tc returns early: a single stray message.
StrayTc(o, m) ==
  /\ IsStray(o, m)
  /\ hdr' = [hdr EXCEPT ![o].err = m.seq]
  /\ UNCHANGED <<nodes, valid, gc, edges, edge, inv, changes>>

\* An edge with this ansn is outdated by ANSN a.
Outdated(ansn, a) == GreaterThan(AnsnMod, a, ansn)

\* olsr_delete_revoked_tc_edges
Revoked(o, m, E, at) ==
  IF BorderSet(m)
    THEN {e \in E : e[1] = o /\ Inside(m, e[2]) /\ Outdated(at[e].ansn, m.ansn)}
    ELSE {}

\* olsr_tc_update_edge for every neighbour of the message
UpdatedEdge(o, m) ==
  [e \in Nodes \X Nodes |->
     IF e[1] # o \/ e[2] \notin DOMAIN m.adv THEN edge[e]
     ELSE IF e \in edges
       THEN [ansn |-> m.ansn, lq |-> m.adv[e[2]], cost |-> CostOf(m.adv[e[2]])]
       ELSE NewEdge(m.ansn, m.adv[e[2]])]

Without(at, gone) == [e \in Nodes \X Nodes |-> IF e \in gone THEN NoEdge ELSE at[e]]

\* olsr_input_tc accepts the message: update the edges it lists, revoke those
\* inside its borders that it does not list, or let the garbage collection
\* timer do so; an empty message that speaks for all addresses deletes the entry.
AcceptTc(o, m) ==
  LET listed == {<<o, d>> : d \in DOMAIN m.adv}
      E == edges \cup listed
      at == UpdatedEdge(o, m)
      delEntry == EmptyTC(m) /\ BorderSet(m)
      gone == IF delEntry THEN {e \in E : e[1] = o} ELSE Revoked(o, m, E, at)
  IN  /\ ~IsIgnored(o, m) /\ ~IsStray(o, m)
      /\ edges' = E \ gone
      /\ edge' = Without(at, gone)
      /\ inv' = Unlink(Link(inv, edges, listed \ edges), gone)
      /\ nodes' = IF delEntry THEN nodes \ {o} ELSE nodes \cup {o}
      /\ hdr' = [hdr EXCEPT ![o] = IF delEntry THEN NewHeader
                                   ELSE [seq |-> m.seq, ansn |-> m.ansn, ignored |-> 0, err |-> NoErr]]
      /\ valid' = IF delEntry THEN valid \ {o} ELSE valid \cup {o}
      /\ gc' = IF delEntry THEN gc \ {o} ELSE IF BorderSet(m) THEN gc ELSE gc \cup {o}
      /\ changes' = (changes \/ listed # {} \/ gone # {} \/ delEntry \/ o \notin nodes)

InputTc(o, m) == IgnoreTc(o, m) \/ StrayTc(o, m) \/ AcceptTc(o, m)
----------------------------------------------------------------------------
\* Mutant of ExpireTcEdgeGc: the deletion is not signalled.
ExpireTcEdgeGcSilent(o) ==
  LET gone == {e \in Of(o) : Outdated(edge[e].ansn, hdr[o].ansn)}
  IN  /\ o \in gc
      /\ gc' = gc \ {o}
      /\ edges' = edges \ gone
      /\ edge' = Without(edge, gone)
      /\ inv' = Unlink(inv, gone)
      /\ UNCHANGED <<nodes, hdr, valid, changes>>

\* olsr_expire_tc_edge_gc: no further part arrived, drop what is outdated.
ExpireTcEdgeGc(o) ==
  LET gone == {e \in Of(o) : Outdated(edge[e].ansn, hdr[o].ansn)}
  IN  /\ o \in gc
      /\ gc' = gc \ {o}
      /\ edges' = edges \ gone
      /\ edge' = Without(edge, gone)
      /\ inv' = Unlink(inv, gone)
      /\ changes' = (changes \/ gone # {})
      /\ UNCHANGED <<nodes, hdr, valid>>

\* Mutant of ExpireTcEntry: the garbage collection timer is not stopped.
ExpireTcEntryTimer(o) ==
  /\ o \in valid
  /\ nodes' = nodes \ {o}
  /\ hdr' = [hdr EXCEPT ![o] = NewHeader]
  /\ valid' = valid \ {o}
  /\ edges' = edges \ Of(o)
  /\ edge' = Without(edge, Of(o))
  /\ inv' = Unlink(inv, Of(o))
  /\ changes' = TRUE
  /\ UNCHANGED gc

\* olsr_expire_tc_entry: the entry was not refreshed in time.
ExpireTcEntry(o) ==
  /\ o \in valid
  /\ nodes' = nodes \ {o}
  /\ hdr' = [hdr EXCEPT ![o] = NewHeader]
  /\ valid' = valid \ {o}
  /\ gc' = gc \ {o}
  /\ edges' = edges \ Of(o)
  /\ edge' = Without(edge, Of(o))
  /\ inv' = Unlink(inv, Of(o))
  /\ changes' = TRUE

\* olsr_locate_tc_entry, called for a prefix (an HNA or MID) of a node whose TC
\* has not been seen: an entry without a validity timer.
LocateTcEntry(o) ==
  /\ o \notin nodes
  /\ nodes' = nodes \cup {o}
  /\ changes' = TRUE
  /\ UNCHANGED <<hdr, valid, gc, edges, edge, inv>>

\* olsr_calculate_routing_table, as far as it touches the database: our own
\* edges follow the neighbour table.  sym gives the quality of the best link to
\* each symmetric neighbour, lost are the other neighbours in the table.
UpdateSelfEdges(sym, lost) ==
  LET want == {<<Self, d>> : d \in DOMAIN sym}
      gone == {e \in Of(Self) : e[2] \in lost}
  IN  /\ changes
      /\ changes' = FALSE
      /\ edges' = (edges \ gone) \cup want
      /\ edge' = [e \in Nodes \X Nodes |->
           IF e \in gone THEN NoEdge
           ELSE IF e \notin want THEN edge[e]
           ELSE IF e \in edges
             THEN [edge[e] EXCEPT !.lq = sym[e[2]], !.cost = CostOf(sym[e[2]])]
             ELSE NewEdge(0, 0)]
      /\ inv' = Link(Unlink(inv, gone), edges \ gone, want \ edges)
      /\ UNCHANGED <<nodes, hdr, valid, gc>>

\* olsr_delete_link_entry: the edge made for the route calculation goes with
\* the link.
DeleteSelfEdge(d) ==
  LET gone == {<<Self, d>>} \cap edges
  IN  /\ edges' = edges \ gone
      /\ edge' = Without(edge, gone)
      /\ inv' = Unlink(inv, gone)
      /\ changes' = TRUE
      /\ UNCHANGED <<nodes, hdr, valid, gc>>

\* olsr_init_tc: an entry for ourselves
Init ==
  /\ nodes = {Self}
  /\ hdr = [n \in Nodes |-> NewHeader]
  /\ valid = {} /\ gc = {}
  /\ edges = {} /\ inv = {}
  /\ edge = [e \in Nodes \X Nodes |-> NoEdge]
  /\ changes = TRUE

Others == Nodes \ {Self}

\* Steps that no message causes.
Background ==
  \/ \E o \in Others : ExpireTcEdgeGc(o) \/ ExpireTcEntry(o) \/ LocateTcEntry(o)
  \/ \E S \in SUBSET Others : \E lost \in SUBSET (Others \ S) :
       UpdateSelfEdges([d \in S |-> MaxLq], lost)
  \/ \E d \in Others : DeleteSelfEdge(d)

\* Any of the messages from any node.
Next ==
  \/ \E o \in Others : \E m \in Messages(o) : InputTc(o, m)
  \/ Background

Spec == Init /\ [][Next]_vars
----------------------------------------------------------------------------
\* Entries, edges and timers are well formed.
TypeOK ==
  /\ nodes \in SUBSET Nodes /\ valid \in SUBSET Nodes /\ gc \in SUBSET Nodes
  /\ hdr \in [Nodes -> Header]
  /\ edges \in SUBSET (Nodes \X Nodes) /\ inv \in SUBSET (Nodes \X Nodes)
  /\ edge \in [Nodes \X Nodes -> Edge]
  /\ changes \in BOOLEAN

\* The shortcut edge_inv, which the route calculation follows without a check,
\* is set exactly for the edges whose inverse edge exists, in whatever order
\* messages, timers and calculations create and delete the two.
InverseShortcut == inv = edges \cap Flip(edges)

\* Edges and running timers belong to entries that exist: deleting an entry
\* leaves no edge behind and no timer with a freed context.
OwnerExists == valid \cup gc \cup {e[1] : e \in edges} \subseteq nodes

\* An edge or entry that appears or goes leads to a route calculation.
ChangeIsSignalled ==
  [][(edges' # edges \/ nodes' # nodes) => changes' \/ changes]_vars

============================================================================
