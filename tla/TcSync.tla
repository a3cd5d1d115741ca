------------------------------ MODULE TcSync ------------------------------
(***************************************************************************)
(* A node that advertises its neighbours and a topology set that receives  *)
(* the messages.                                                           *)
(*                                                                         *)
(* The sender (Peer) periodically sends its advertised set, split into     *)
(* parts that fit a message; after a change of the set the ANSN is raised. *)
(* The network loses, repeats and reorders messages, within a bounded lag. *)
(* The receiver is the topology set of TcSet.  (src/src/lq_packet.c,       *)
(* src/src/tc_set.c)                                                       *)
(***************************************************************************)
EXTENDS TcSet

CONSTANTS
  Peer,         \* the sender
  PartSize,     \* neighbours that fit one message
  Borders,      \* may the sender set border flags?  (RFC messages have none)
  Lag,          \* a message arrives before its sender has sent Lag more
  MaxChanges,   \* bound on the changes of the advertised set
  MaxRestarts,  \* bound on the restarts of the sender
  FirstSeqnos,  \* message numbers a restarted sender may begin with
  MaxLost,      \* a part is lost at most so many times between two arrivals
  MaxOutages    \* bound on losses so long that the entry expires; restarts and
                \* such losses are not combined

ASSUME SyncAssumption ==
  /\ Peer \in Nodes \ {Self}
  /\ PartSize \in Nat \ {0}
  /\ Borders \subseteq BOOLEAN
  /\ FirstSeqnos \subseteq 0 .. SeqMod - 1
  /\ Lag \in Nat /\ Lag < SeqMod
  /\ MaxLost \in Nat /\ MaxChanges \in Nat /\ MaxRestarts \in Nat /\ MaxOutages \in Nat

VARIABLES
  flagged,     \* Peer sets border flags
  mine,        \* the neighbours that Peer advertises
  ansn,        \* its ANSN
  linkChanges, \* link_changes: "no", "yes", or "sent" when it is set and
               \* the TC timer has fired in this pass of the main loop
  seqno,       \* its next message number
  prevEmpty,   \* the last message advertised nothing
  emptyTimer,  \* empty messages are still sent
  net,         \* messages on their way
  lost,        \* losses of each part since it last arrived
  budget       \* changes, restarts and outages that may still happen

senderVars == <<flagged, mine, ansn, linkChanges, seqno, prevEmpty, emptyTimer>>
syncVars == <<vars, senderVars, net, lost, budget>>
----------------------------------------------------------------------------
(* serialize_lq_tc: splitting a set into parts. *)

\* calculate_border_flag: one more than the first bit in which x and y differ
BorderFlag(x, y) ==
  IF x = y THEN 0
  ELSE 1 + (CHOOSE k \in 0 .. 2 * ByteBits - 1 :
             x \div 2^k # y \div 2^k /\ x \div 2^(k+1) = y \div 2^(k+1))

Position(S, a) == Cardinality({b \in S : Rank(b) <= Rank(a)})
Part(S, i) == {a \in S : (i - 1) * PartSize < Position(S, a) /\ Position(S, a) <= i * PartSize}
Parts(S) == IF S = {} THEN 1 ELSE (Cardinality(S) + PartSize - 1) \div PartSize
LeftBorder(S, i) ==
  IF i = 1 THEN FullBorder ELSE BorderFlag(Last(Part(S, i - 1)), First(Part(S, i)))
RightBorder(S, i) == IF i = Parts(S) THEN FullBorder ELSE LeftBorder(S, i + 1)

\* Part i of the set S; its message number is seqno plus its place.
PartMsg(S, i) ==
  [seq |-> (seqno + i - 1) % SeqMod, ansn |-> ansn,
   adv |-> [d \in Part(S, i) |-> MaxLq],
   lower |-> IF flagged THEN LeftBorder(S, i) ELSE NoBorder,
   upper |-> IF flagged THEN RightBorder(S, i) ELSE NoBorder,
   part |-> i]
MaxParts == (Cardinality(Nodes) + PartSize - 2) \div PartSize
----------------------------------------------------------------------------
\* Restarts and outages are explored for a sender with border flags only.
Restarts == IF flagged THEN MaxRestarts ELSE 0
Outages == IF flagged THEN MaxOutages ELSE 0

SyncInit ==
  /\ Init
  /\ flagged \in Borders
  /\ mine = {} /\ ansn = 0 /\ linkChanges = "no" /\ seqno = 0 /\ prevEmpty = TRUE /\ emptyTimer = FALSE
  /\ net = {} /\ lost = [i \in 1 .. MaxParts |-> 0]
  /\ budget = [change |-> MaxChanges, restart |-> Restarts, outage |-> Outages]

\* The neighbourhood of the sender changes: signal_link_changes.
ChangeSet(S) ==
  /\ linkChanges # "sent" /\ budget.change > 0 /\ S # mine
  /\ budget' = [budget EXCEPT !.change = @ - 1]
  /\ mine' = S
  /\ linkChanges' = "yes"
  /\ UNCHANGED <<vars, flagged, ansn, seqno, prevEmpty, emptyTimer, net, lost>>

\* Mutant of IncreaseLocalAnsn: the change is noted and the ANSN stays.
ForgetLocalAnsn ==
  /\ linkChanges # "no"
  /\ linkChanges' = "no"
  /\ UNCHANGED <<vars, flagged, mine, ansn, seqno, prevEmpty, emptyTimer, net, lost, budget>>

\* olsr_scheduler raises the ANSN at the end of a pass.  The timers of that
\* pass ran before, so a message may carry the new set with the old ANSN.
IncreaseLocalAnsn ==
  /\ linkChanges # "no"
  /\ linkChanges' = "no"
  /\ ansn' = (ansn + 1) % AnsnMod
  /\ UNCHANGED <<vars, flagged, mine, seqno, prevEmpty, emptyTimer, net, lost, budget>>

\* olsr_output_lq_tc: an empty message is sent when the last one was not empty
\* or while the empty-TC timer runs.  The network loses what is not in kept.
OutputTc(kept) ==
  /\ kept \subseteq 1 .. Parts(mine)
  /\ \A i \in (1 .. MaxParts) \ kept : i <= Parts(mine) => lost[i] < MaxLost
  /\ mine # {} \/ ~prevEmpty \/ emptyTimer
  /\ \A m \in net : (seqno + Parts(mine) - 1 - m.seq) % SeqMod < Lag
  /\ linkChanges # "sent"
  /\ linkChanges' = IF linkChanges = "yes" THEN "sent" ELSE "no"
  /\ prevEmpty' = (mine = {})
  /\ emptyTimer' = (mine = {} /\ (emptyTimer \/ ~prevEmpty))
  /\ seqno' = (seqno + Parts(mine)) % SeqMod
  /\ net' = net \cup {PartMsg(mine, i) : i \in kept}
  /\ lost' = [i \in 1 .. MaxParts |-> IF i \in kept \/ i > Parts(mine) THEN lost[i] ELSE lost[i] + 1]
  /\ UNCHANGED <<vars, flagged, mine, ansn, budget>>

\* get_empty_tc_timer() has run out.
EmptyTimerEnds ==
  /\ linkChanges = "no" /\ emptyTimer /\ prevEmpty
  /\ emptyTimer' = FALSE
  /\ UNCHANGED <<vars, flagged, mine, ansn, linkChanges, seqno, prevEmpty, net, lost, budget>>

\* The sender restarts: no neighbours, ANSN 0, a random message number.
Restart(s) ==
  /\ linkChanges = "no" /\ budget.restart > 0 /\ budget.outage = Outages
  /\ budget' = [budget EXCEPT !.restart = @ - 1]
  /\ mine' = {} /\ ansn' = 0 /\ linkChanges' = "no" /\ seqno' = s /\ prevEmpty' = TRUE /\ emptyTimer' = FALSE
  /\ net' = {}
  /\ UNCHANGED <<vars, flagged, lost>>

\* A message arrives; a copy of it may arrive again.  The guard on linkChanges
\* here and below says that the receiver does not act in the middle of a pass
\* of the sender: its steps and IncreaseLocalAnsn do not touch the same state
\* and can be taken in either order.
Deliver(m, again) ==
  /\ linkChanges = "no"
  /\ InputTc(Peer, m)
  /\ net' = IF again THEN net ELSE net \ {m}
  /\ lost' = [lost EXCEPT ![m.part] = 0]
  /\ UNCHANGED <<senderVars, budget>>

\* Part i arrives and was not overtaken by a later message.
DeliverPart(i) ==
  \E m \in net : /\ m.part = i
                 /\ Checked(Peer) => InRangeHigh(SeqMod, hdr[Peer].seq, SeqWindowUp, m.seq)
                 /\ Deliver(m, FALSE)

CollectEdges == linkChanges = "no" /\ ExpireTcEdgeGc(Peer) /\ UNCHANGED <<senderVars, net, lost, budget>>

\* The validity timer runs out when the sender is silent, or after an outage.
Silent == linkChanges = "no" /\ mine = {} /\ prevEmpty /\ ~emptyTimer /\ net = {}
ExpireSilent == Silent /\ ExpireTcEntry(Peer) /\ UNCHANGED <<senderVars, net, lost, budget>>
ExpireOutage ==
  /\ linkChanges = "no" /\ budget.outage > 0 /\ budget.restart = Restarts
  /\ budget' = [budget EXCEPT !.outage = @ - 1]
  /\ ExpireTcEntry(Peer)
  /\ UNCHANGED <<senderVars, net, lost>>

SyncNext ==
  \/ \E S \in SUBSET (Nodes \ {Peer}) : ChangeSet(S)
  \/ IncreaseLocalAnsn
  \/ \E kept \in SUBSET (1 .. MaxParts) : OutputTc(kept)
  \/ EmptyTimerEnds
  \/ \E s \in FirstSeqnos : Restart(s)
  \/ \E m \in net : Deliver(m, FALSE) \/ Deliver(m, TRUE)
  \/ CollectEdges
  \/ ExpireSilent
  \/ ExpireOutage

\* Part i of the current set is sent and not lost at once.
OutputPart(i) ==
  \E kept \in SUBSET (1 .. MaxParts) : i \in kept /\ OutputTc(kept)

\* The main loop goes on, the TC timer fires again and again, and of each part that is sent again and
\* again some copies arrive in order (a part that is always overtaken by the
\* next one is always ignored); the timers of sender and receiver fire.
Fairness ==
  /\ \A i \in 1 .. MaxParts : SF_syncVars(OutputPart(i))
  /\ \A i \in 1 .. MaxParts : SF_syncVars(DeliverPart(i))
  /\ WF_syncVars(\E m \in net : Deliver(m, FALSE))
  /\ WF_syncVars(IncreaseLocalAnsn)
  /\ WF_syncVars(CollectEdges)
  /\ WF_syncVars(ExpireSilent)
  /\ WF_syncVars(EmptyTimerEnds)

SyncSafety == SyncInit /\ [][SyncNext]_syncVars
SyncSpec == SyncInit /\ [][SyncNext]_syncVars /\ Fairness
----------------------------------------------------------------------------
Received == {e[2] : e \in Of(Peer)}

\* Once the sender's set is stable the receiver ends up with exactly that set
\* and keeps it, whatever was lost, repeated or reordered on the way, even when
\* the sender restarts.
AlwaysConverges == <>[](Received = mine)

\* The same for a sender that does not restart.
Converges == [](budget.restart = Restarts) => AlwaysConverges

\* The parts of a set speak for disjoint ranges of addresses that together make
\* up the whole: every address is inside the borders of exactly one part, and
\* every advertised one inside the borders of the part that lists it.
PartsTile ==
  flagged =>
  /\ \A a \in Nodes : Cardinality({i \in 1 .. Parts(mine) : Inside(PartMsg(mine, i), a)}) = 1
  /\ \A i \in 1 .. Parts(mine) : \A a \in Part(mine, i) : Inside(PartMsg(mine, i), a)

\* Processing a part of the current set never deletes an edge that the set
\* contains: a part revokes only inside its own borders.
KeepsEdges ==
  \A m \in net : m.ansn = ansn /\ linkChanges = "no" /\ (Deliver(m, FALSE) \/ Deliver(m, TRUE))
    => Received \cap mine \subseteq Received'

\* The parts speak for disjoint ranges that make up the whole, no part deletes
\* what another lists, and in the end the receiver has exactly the set of a
\* sender that does not restart.
Agreement == []PartsTile /\ [][KeepsEdges]_syncVars /\ Converges
============================================================================
