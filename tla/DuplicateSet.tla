--------------------------- MODULE DuplicateSet ---------------------------
(***************************************************************************)
(* The duplicate set: which flooded messages a node has already handled.  *)
(* One entry per originator holds the newest sequence number, a bit array *)
(* of the Window numbers up to it, a counter of messages that were far    *)
(* too old and the time until which the entry is kept.                    *)
(* (src/src/duplicate_set.c)                                              *)
(***************************************************************************)
EXTENDS Integers

CONSTANTS
  Origs,        \* originator addresses
  HalfSeq,      \* half the sequence number space: 2^15 in the code
  Window,       \* bits of dup_entry.array: 32 in the code
  MaxTooLow,    \* DUP_MAX_TOO_LOW
  VTime,        \* DUPLICATE_VTIME, in ticks
  ClockMod,     \* values of the millisecond clock now_times: 2^32 in the code
  MaxTicks      \* bound on the time explored

ASSUME SeqAssumption == HalfSeq \in Nat /\ Window \in Nat \ {0} /\ 2 * Window <= HalfSeq
ASSUME TooLowAssumption == MaxTooLow \in Nat /\ MaxTooLow >= 2
ASSUME ClockAssumption ==
  VTime \in Nat /\ ClockMod \in Nat \ {0} /\ 2 * VTime < ClockMod /\ MaxTicks \in Nat

VARIABLES
  dup,       \* the avl tree: an entry, or NoEntry, for each originator
  ticks,     \* real time since start-up; the code only sees it modulo ClockMod
  verdict,   \* what the last call of olsr_message_is_duplicate returned
  copies,    \* history: how often a number of the window was let through
  born,      \* history: the number whose arrival created the entry, or -1
  lastSeen   \* history: when the last message of the originator arrived

vars == <<dup, ticks, verdict, copies, born, lastSeen>>

Seqs == 0 .. (2 * HalfSeq - 1)
Offsets == 0 .. (Window - 1)

Entry == [seqnr : Seqs, too_low : 0 .. MaxTooLow, array : SUBSET Offsets,
          valid_until : 0 .. (ClockMod - 1)]
NoEntry == [seqnr |-> -1, too_low |-> 0, array |-> {}, valid_until |-> 0]

now_times == ticks % ClockMod
GET_TIMESTAMP(rel) == (ticks + rel) % ClockMod

\* olsr_isTimedOut: is the time stamp s not in the future?
TIMED_OUT(s) ==
  IF s > now_times THEN s - now_times > ClockMod \div 2
                   ELSE now_times - s <= ClockMod \div 2

\* olsr_seqno_diff: signed distance in a space that wraps.
SeqnoDiff(s1, s2) ==
  LET diff == s1 - s2
  IN  IF diff > HalfSeq THEN diff - 2 * HalfSeq
      ELSE IF diff < -HalfSeq THEN diff + 2 * HalfSeq
      ELSE diff

\* The number s lies in the window that ends at the number top.
InWindow(s, top) == -SeqnoDiff(s, top) \in Offsets

\* Mutant of Shifted: the shift is one bit short.
ShiftedShort(array, d) == {i \in Offsets : i - d + 1 \in array}

\* array <<= d, for a distance of any size: bits shifted out are lost.
Shifted(array, d) == {i \in Offsets : i - d \in array}

CreateEntry(s) ==
  [seqnr |-> s, too_low |-> 0, array |-> {}, valid_until |-> GET_TIMESTAMP(VTime)]

\* Mutant of Refreshed: an existing entry keeps its old time stamp.
NotRefreshed(e) == e

\* The entry with its time stamp extended, if the new one is the larger number.
Refreshed(e) ==
  IF GET_TIMESTAMP(VTime) > e.valid_until
    THEN [e EXCEPT !.valid_until = GET_TIMESTAMP(VTime)] ELSE e

\* The number s is older than the window of the entry e.
TooLow(e, s) == SeqnoDiff(s, e.seqnr) < -(Window - 1)

\* One old number too many: the originator has restarted its counter.
Restarts(e, s) == TooLow(e, s) /\ e.too_low + 1 > MaxTooLow

\* The verdict of olsr_message_is_duplicate for an existing entry.
IsDuplicate(e, s) ==
  \/ TooLow(e, s) /\ ~Restarts(e, s)
  \/ ~TooLow(e, s) /\ -SeqnoDiff(s, e.seqnr) \in e.array

\* The entry that olsr_message_is_duplicate leaves behind.
UpdatedEntry(e, s) ==
  LET diff == SeqnoDiff(s, e.seqnr)
  IN  IF Restarts(e, s) THEN [e EXCEPT !.too_low = 0, !.seqnr = s, !.array = {0}]
      ELSE IF TooLow(e, s) THEN [e EXCEPT !.too_low = @ + 1]
      ELSE IF diff <= 0 THEN [e EXCEPT !.too_low = 0, !.array = @ \cup {-diff}]
      ELSE [e EXCEPT !.too_low = 0, !.seqnr = s, !.array = Shifted(@, diff) \cup {0}]

\* History after number s was (not) let through and the window ends at top.
CountCopy(count, s, top, passed) ==
  [t \in Seqs |-> IF ~InWindow(t, top) THEN 0
                  ELSE count[t] + (IF passed /\ t = s THEN 1 ELSE 0)]
NoCopies == [t \in Seqs |-> 0]

Init ==
  /\ dup = [o \in Origs |-> NoEntry]
  /\ ticks = 0
  /\ verdict = FALSE
  /\ copies = [o \in Origs |-> NoCopies]
  /\ born = [o \in Origs |-> -1]
  /\ lastSeen = [o \in Origs |-> 0]

\* A message numbered s of an originator that has no entry.
FirstMessage(o, s) ==
  /\ dup[o] = NoEntry
  /\ dup' = [dup EXCEPT ![o] = CreateEntry(s)]
  /\ verdict' = FALSE
  /\ copies' = [copies EXCEPT ![o] = CountCopy(NoCopies, s, s, TRUE)]
  /\ born' = [born EXCEPT ![o] = s]
  /\ lastSeen' = [lastSeen EXCEPT ![o] = ticks]
  /\ UNCHANGED ticks

\* A message numbered s of an originator that has an entry.
KnownMessage(o, s) ==
  /\ dup[o] # NoEntry
  /\ LET e == Refreshed(dup[o])
         new == UpdatedEntry(e, s)
         base == IF Restarts(e, s) THEN NoCopies ELSE copies[o]
     IN  /\ dup' = [dup EXCEPT ![o] = new]
         /\ verdict' = IsDuplicate(e, s)
         /\ copies' = [copies EXCEPT ![o] = CountCopy(base, s, new.seqnr, ~IsDuplicate(e, s))]
         /\ born' = [born EXCEPT ![o] = IF Restarts(e, s) THEN -1 ELSE @]
  /\ lastSeen' = [lastSeen EXCEPT ![o] = ticks]
  /\ UNCHANGED ticks

\* olsr_message_is_duplicate
MessageIsDuplicate(o, s) == FirstMessage(o, s) \/ KnownMessage(o, s)

\* olsr_cleanup_duplicates: an empty TC announced that the originator may restart.
CleanupDuplicates(o) ==
  /\ dup[o] # NoEntry
  /\ dup' = [dup EXCEPT ![o].too_low = MaxTooLow - 2]
  /\ UNCHANGED <<ticks, verdict, copies, born, lastSeen>>

Expired(o) == dup[o] # NoEntry /\ TIMED_OUT(dup[o].valid_until)

\* olsr_cleanup_duplicate_entry: the periodic timer drops every expired entry.
CleanupDuplicateEntry ==
  /\ \E o \in Origs : Expired(o)
  /\ dup' = [o \in Origs |-> IF Expired(o) THEN NoEntry ELSE dup[o]]
  /\ copies' = [o \in Origs |-> IF Expired(o) THEN NoCopies ELSE copies[o]]
  /\ born' = [o \in Origs |-> IF Expired(o) THEN -1 ELSE born[o]]
  /\ UNCHANGED <<ticks, verdict, lastSeen>>

Tick == ticks < MaxTicks /\ ticks' = ticks + 1 /\ UNCHANGED <<dup, verdict, copies, born, lastSeen>>

Next ==
  \/ \E o \in Origs, s \in Seqs : MessageIsDuplicate(o, s)
  \/ \E o \in Origs : CleanupDuplicates(o)
  \/ CleanupDuplicateEntry
  \/ Tick

Spec == Init /\ [][Next]_vars
----------------------------------------------------------------------------
\* Every entry is well formed: its counter never passes DUP_MAX_TOO_LOW and
\* its bits stay inside the array.
TypeOK ==
  /\ dup \in [Origs -> Entry \cup {NoEntry}]
  /\ ticks \in Nat
  /\ verdict \in BOOLEAN
  /\ copies \in [Origs -> [Seqs -> Nat]]
  /\ born \in [Origs -> Seqs \cup {-1}]
  /\ lastSeen \in [Origs -> Nat]

\* While a number is inside the window of its originator's entry, messages
\* that carry it are let through once; only the number that created the entry
\* (created with an empty array) may be let through twice.  Wrap-around of the
\* numbers, reordering, the restart rule and the shift by a large distance
\* never let anything else through again.
OnlyFirstRepeats ==
  \A o \in Origs, s \in Seqs :
    copies[o][s] <= (IF s = born[o] THEN 2 ELSE 1)

\* The part of the window an entry accounts for: a number outside the window
\* has no history, and a number inside it was let through at most as often as
\* its bit, and its being the first one, explain.
Accounted(o) ==
  \A s \in Seqs :
    IF dup[o] # NoEntry /\ InWindow(s, dup[o].seqnr)
      THEN copies[o][s] <= (IF -SeqnoDiff(s, dup[o].seqnr) \in dup[o].array THEN 1 ELSE 0)
                           + (IF s = born[o] THEN 1 ELSE 0)
      ELSE copies[o][s] = 0

\* The bit array records every number that was let through and is still in
\* the window of its originator's entry: the inductive form of OnlyFirstRepeats.
ArrayRecordsPassed == \A o \in Origs : Accounted(o)

\* The periodic cleanup forgets an originator only after VTime of silence: a
\* node that keeps sending never has its history dropped.
ForgetsQuiet(o) ==
  dup[o] # NoEntry /\ dup'[o] = NoEntry => ticks - lastSeen[o] >= VTime
QuietBeforeForget == [][\A o \in Origs : ForgetsQuiet(o)]_vars
============================================================================
