---------------------------- MODULE Neighborhood ----------------------------
(***************************************************************************)
(* Link sensing and the tables it feeds: the link set (src/src/link_set.c),*)
(* the neighbour table (src/src/neighbor_table.c), the two-hop neighbour   *)
(* table (src/src/two_hop_neighbor_table.c), the alias set                 *)
(* (src/src/mid_set.c), and the HELLO handler that drives them             *)
(* (src/src/process_package.c).                                            *)
(*                                                                         *)
(* Nodes keep their main address. Hysteresis is off. Timers are what they  *)
(* do when they fire: a timer that runs may fire at any moment, because    *)
(* validity times are chosen by the sender and every timer has a jitter of *)
(* its own. The link timer always runs. Whether a link that is not         *)
(* symmetric is ASYM or LOST changes no table.                             *)
(***************************************************************************)
EXTENDS Integers, FiniteSets

CONSTANTS
  Links,      \* pairs of an interface of ours and an address of a neighbour
  Listed,     \* addresses a HELLO may list as symmetric neighbours
  Main        \* the main address of an address, itself for a main address

ASSUME FiniteNetwork == IsFiniteSet(Links) /\ IsFiniteSet(Listed)

Ifs == {l[1] : l \in Links}
Senders == {l[2] : l \in Links}
Addrs == Senders \cup Listed
Mains == {Main[a] : a \in Addrs}
Neighbors == {Main[a] : a \in Senders}
Aliases(n) == {a \in Addrs : Main[a] = n /\ a # n}

VARIABLES
  links,      \* the link set
  sym,        \* links whose symmetry timer runs
  prevSym,    \* links with prev_status = SYM_LINK
  count,      \* linkcount; zero when there is no entry for the neighbour
  nsym,       \* neighbours with status SYM
  will,       \* neighbours whose willingness is not WILL_NEVER
  known,      \* aliases in the alias set
  th,         \* the two-hop tables
  changed,    \* changes_neighborhood
  stale       \* the MPRs were not calculated from the tables as they are

vars == <<links, sym, prevSym, count, nsym, will, known, th, changed, stale>>

\* list: pairs <<n, t>> in the neighbor_2_list of n; nblist: pairs in the
\* neighbor_2_nblist of t; timed: pairs with a timer; pointer: neighbor_2_pointer
TwoHopTables ==
  [list : SUBSET (Neighbors \X (Addrs \cup Mains)), nblist : SUBSET (Neighbors \X (Addrs \cup Mains)),
   timed : SUBSET (Neighbors \X (Addrs \cup Mains)),
   table : SUBSET (Addrs \cup Mains), pointer : [Addrs \cup Mains -> Int]]

OwnerOf(l) == Main[l[2]]
MainAddr(a, K) == IF a \in K THEN Main[a] ELSE a
MprInput == <<nsym, will, th.list>>
----------------------------------------------------------------------------
(* The two-hop tables *)

\* olsr_delete_two_hop_neighbor_table, for those of S that have an entry
DeleteTwoHops(h, S) ==
  LET gone == {p \in h.nblist : p[2] \in S \cap h.table}
  IN  [h EXCEPT !.list = @ \ gone, !.nblist = @ \ gone, !.timed = @ \ gone, !.table = @ \ S,
                !.pointer = [t \in DOMAIN @ |-> IF t \in S THEN 0 ELSE @[t]]]

\* Mutant of Unlink: the two-hop neighbour keeps its entry.
UnlinkKeeping(h, P) ==
  [h EXCEPT !.list = @ \ P, !.nblist = @ \ P, !.timed = @ \ P,
            !.pointer = [t \in DOMAIN @ |-> @[t] - Cardinality({p \in P : p[2] = t})]]

\* Pairs of one neighbour go: neighbor_2_pointer, olsr_delete_neighbor_pointer
\* and olsr_del_nbr2_list.
Unlink(h, P) ==
  LET left == [t \in DOMAIN h.pointer |-> h.pointer[t] - Cardinality({p \in P : p[2] = t})]
  IN  [h EXCEPT !.list = @ \ P, !.nblist = @ \ P, !.timed = @ \ P, !.pointer = left,
                !.table = {t \in @ : left[t] >= 1 \/ \A p \in P : p[2] # t}]

PairsOf(h, N) == {p \in h.list : p[1] \in N}

\* process_message_neighbors: pairs that exist get a new timer, the others are
\* linked; olsr_change_timer does nothing to a timer that does not exist.
ListNeighbors(h, n, T) ==
  LET new == {t \in T : <<n, t>> \notin h.list}
  IN  [list    |-> h.list \cup {<<n, t>> : t \in new},
       nblist  |-> h.nblist \cup {<<n, t>> : t \in new},
       timed   |-> h.timed \cup {<<n, t>> : t \in T \ new},
       table   |-> h.table \cup new,
       pointer |-> [t \in DOMAIN h.pointer |->
                      IF t \notin new THEN h.pointer[t] ELSE IF t \in h.table THEN h.pointer[t] + 1 ELSE 1]]

\* insert_mid_tuple, after which K are the known aliases
InsertAliases(h, n, K) == DeleteTwoHops(h, K \cap Aliases(n))

\* olsr_prune_aliases: known aliases that a message does not list
Undeclared(n, A) == (known \cap Aliases(n)) \ A

(* Links and neighbours *)

\* Mutant of SymTo: only one of our interfaces is looked at.
SymToFirst(a, S, K) ==
  \E l \in S :
    /\ l[1] = CHOOSE i \in Ifs : TRUE
    /\ l[2] = MainAddr(a, K) \/ (l[2] \in K /\ OwnerOf(l) = MainAddr(a, K))

\* get_neighbor_status
SymTo(a, S, K) ==
  \E l \in S : l[2] = MainAddr(a, K) \/ (l[2] \in K /\ OwnerOf(l) = MainAddr(a, K))

\* add_link_entry
CountAfter(l) == [count EXCEPT ![OwnerOf(l)] = IF l \in links THEN @ ELSE @ + 1]

\* update_link_entry: the symmetry timer
SymAfter(l, type) ==
  CASE type \in {"SYM", "ASYM"} -> sym \cup {l}
    [] type = "LOST" -> sym \ {l}
    [] OTHER -> sym

\* update_neighbor_status
StatusAfter(n, isSym) == IF isSym THEN nsym \cup {n} ELSE nsym \ {n}
TwoHopAfter(n, isSym) == IF isSym /\ n \notin nsym THEN DeleteTwoHops(th, {n}) ELSE th

\* The flags; a handler that ends with olsr_process_changes recalculates.
Flag(f) ==
  /\ changed' = (changed \/ f)
  /\ stale' = (stale \/ MprInput' # MprInput)
FlagAndProcess(f) ==
  /\ changed' = FALSE
  /\ stale' = (~(changed \/ f) /\ (stale \/ MprInput' # MprInput))

Lost(L, n) == Cardinality({l \in L : OwnerOf(l) = n})

\* Neighbours whose last link is among L.
Gone(L) == {n \in Neighbors : Lost(L, n) > 0 /\ count[n] <= Lost(L, n)}

\* olsr_delete_link_entry, for the links L
DeleteLinks(L) ==
  /\ links' = links \ L /\ sym' = sym \ L /\ prevSym' = prevSym \ L
  /\ count' = [n \in Neighbors |-> IF n \in Gone(L) THEN 0 ELSE count[n] - Lost(L, n)]
  /\ nsym' = nsym \ Gone(L)
  /\ will' = will \ Gone(L)
  /\ th' = Unlink(th, PairsOf(th, Gone(L)))
  /\ UNCHANGED known
  /\ Flag(TRUE)
----------------------------------------------------------------------------
Init ==
  /\ links = {} /\ sym = {} /\ prevSym = {} /\ nsym = {} /\ will = {} /\ known = {}
  /\ count = [n \in Neighbors |-> 0]
  /\ th = [list |-> {}, nblist |-> {}, timed |-> {}, table |-> {},
           pointer |-> [t \in Addrs \cup Mains |-> 0]]
  /\ changed = FALSE /\ stale = FALSE

\* olsr_hello_tap: a HELLO from address l[2] arrives on interface l[1]. It
\* reports our address with link type `type' ("UNSPEC" when it does not list
\* it), and lists T as its symmetric neighbours.
Hello(l, type, willing, T) ==
  LET n == OwnerOf(l)
      isSym == SymTo(l[2], sym', known)
      t1 == TwoHopAfter(n, isSym)
      aliased == l[2] # n
      t2 == IF aliased /\ l[2] \notin known THEN InsertAliases(t1, n, known') ELSE t1
      t3 == IF willing THEN ListNeighbors(t2, n, {MainAddr(a, known') : a \in T}) ELSE t2
  IN  /\ links' = links \cup {l}
      /\ count' = CountAfter(l)
      /\ sym' = SymAfter(l, type)
      /\ prevSym' = IF type = "SYM" THEN prevSym \cup {l} ELSE prevSym \ {l}
      /\ nsym' = StatusAfter(n, isSym)
      /\ known' = IF aliased THEN known \cup {l[2]} ELSE known
      /\ will' = IF willing THEN will \cup {n} ELSE will \ {n}
      /\ th' = t3
      /\ FlagAndProcess(nsym' # nsym \/ aliased \/ will' # will \/ t3.list # t2.list)

\* olsr_expire_link_sym_timer
ExpireLinkSymTimer(l) ==
  LET isSym == SymTo(l[2], sym', known)
  IN  /\ l \in sym
      /\ sym' = sym \ {l}
      /\ prevSym' = prevSym \ {l}
      /\ IF l \in prevSym
         THEN /\ nsym' = StatusAfter(OwnerOf(l), isSym)
              /\ th' = TwoHopAfter(OwnerOf(l), isSym)
         ELSE UNCHANGED <<nsym, th>>
      /\ UNCHANGED <<links, count, will, known>>
      /\ Flag(l \in prevSym)

ExpireLinkEntry(l) == l \in links /\ DeleteLinks({l})

\* olsr_delete_link_entry_by_ip, when an interface of ours is removed
DeleteLinkEntryByIp(i) ==
  /\ \E l \in links : l[1] = i
  /\ DeleteLinks({l \in links : l[1] = i})

\* Mutant of ExpireNbr2List: nothing asks for a new calculation.
ExpireNbr2ListSilently(p) ==
  /\ p \in th.timed
  /\ th' = Unlink(th, {p})
  /\ UNCHANGED <<links, sym, prevSym, count, nsym, will, known>>
  /\ Flag(FALSE)

ExpireNbr2List(p) ==
  /\ p \in th.timed
  /\ th' = Unlink(th, {p})
  /\ UNCHANGED <<links, sym, prevSym, count, nsym, will, known>>
  /\ Flag(TRUE)

\* olsr_input_mid: a message of n with aliases A, passed on by a neighbour with a
\* symmetric link; known aliases it does not list may go (olsr_prune_aliases).
InputMid(n, A, pruned) ==
  LET new == A \ known
  IN  /\ sym # {}
      /\ A # {} /\ A \subseteq Aliases(n) /\ pruned \subseteq Undeclared(n, A)
      /\ known' = (known \cup A) \ pruned
      /\ th' = IF new # {} THEN InsertAliases(th, n, known \cup A) ELSE th
      /\ UNCHANGED <<links, sym, prevSym, count, nsym, will>>
      /\ Flag(new # {} \/ pruned # {})

\* olsr_expire_mid_entry, and olsr_cleanup_mid
DeleteMidEntry(n) ==
  /\ known \cap Aliases(n) # {}
  /\ known' = known \ Aliases(n)
  /\ UNCHANGED <<links, sym, prevSym, count, nsym, will, th, changed, stale>>

\* olsr_process_changes, in the main loop
ProcessChanges ==
  /\ changed
  /\ changed' = FALSE /\ stale' = FALSE
  /\ UNCHANGED <<links, sym, prevSym, count, nsym, will, known, th>>

Next ==
  \/ \E l \in Links, type \in {"SYM", "ASYM", "LOST", "UNSPEC"}, willing \in BOOLEAN :
       \E T \in SUBSET (IF willing THEN {a \in Listed : Main[a] # OwnerOf(l)} ELSE {}) :
         Hello(l, type, willing, T)
  \/ \E l \in Links : ExpireLinkSymTimer(l)
  \/ \E l \in Links : ExpireLinkEntry(l)
  \/ \E i \in Ifs : DeleteLinkEntryByIp(i)
  \/ \E p \in th.timed : ExpireNbr2List(p)
  \/ \E n \in Mains : \E A, pruned \in SUBSET Aliases(n) : InputMid(n, A, pruned)
  \/ \E n \in Mains : DeleteMidEntry(n)
  \/ ProcessChanges

Spec == Init /\ [][Next]_vars
----------------------------------------------------------------------------
LinksCounted ==
  /\ \A n \in Neighbors : count[n] = Cardinality({l \in links : OwnerOf(l) = n})
  /\ nsym \cup will \subseteq {n \in Neighbors : count[n] > 0}
  /\ sym \subseteq links

\* Every link has a neighbour entry, every entry has a link, and linkcount counts
\* the links: an entry freed too early leaves links that point to it, one freed
\* too late is never freed. The lists of neighbours and two-hop neighbours point
\* to each other, to entries that exist, with neighbor_2_pointer as their number;
\* no timer of a pair outlives it.
TablesLinked ==
  /\ LinksCounted
  /\ th \in TwoHopTables
  /\ th.list = th.nblist
  /\ th.timed \subseteq th.list
  /\ \A p \in th.list : count[p[1]] > 0
  /\ th.table = {p[2] : p \in th.list}
  /\ \A t \in DOMAIN th.pointer : th.pointer[t] = Cardinality({p \in th.list : p[2] = t})

\* A neighbour with one interface address is SYM while any of our interfaces has
\* a symmetric link to it, whichever timer of its links fires.
SymLinkSymNeighbor ==
  \A l \in sym : Aliases(OwnerOf(l)) = {} => OwnerOf(l) \in nsym

\* Whatever changes what MPRs are calculated from asks for a calculation.
RecalculationDue == stale => changed

\* Every pair of a neighbour and a two-hop neighbour has the validity time that
\* linking_this_2_entries gets as a parameter.
PairsExpire == th.list \subseteq th.timed
=============================================================================
