------------------------ MODULE DuplicateSetProofs ------------------------
(***************************************************************************)
(* Proofs about the duplicate set, for every size of the number space, of *)
(* the window and of the clock.                                           *)
(***************************************************************************)
EXTENDS DuplicateSet, TLAPS

\* The distance between two numbers is bounded by half the space.
LEMMA DiffType ==
  \A s, t \in Seqs : SeqnoDiff(s, t) \in Int /\ SeqnoDiff(s, t) <= HalfSeq /\ -HalfSeq <= SeqnoDiff(s, t)
BY SeqAssumption DEF Seqs, SeqnoDiff

\* A number has distance zero only from itself.
LEMMA DiffZero == \A s, t \in Seqs : SeqnoDiff(s, t) = 0 <=> s = t
BY SeqAssumption DEF Seqs, SeqnoDiff

\* Two numbers at the same offset of one window are equal.
LEMMA DiffInjective ==
  \A s, t, top \in Seqs :
    InWindow(s, top) /\ InWindow(t, top) /\ SeqnoDiff(s, top) = SeqnoDiff(t, top) => s = t
BY SeqAssumption DEF Seqs, SeqnoDiff, InWindow, Offsets

\* When the window moves up to a newer number, what stays inside was inside
\* before (or is the new part of the window) and its offset grows by the shift.
LEMMA DiffShift ==
  ASSUME NEW top \in Seqs, NEW s \in Seqs, NEW t \in Seqs,
         SeqnoDiff(s, top) > 0, InWindow(t, s), InWindow(t, top)
  PROVE  -SeqnoDiff(t, s) = -SeqnoDiff(t, top) + SeqnoDiff(s, top)
BY SeqAssumption DEF Seqs, SeqnoDiff, InWindow, Offsets

\* Clock values are values of the clock.
LEMMA TimestampType ==
  \A k \in Nat : ticks \in Nat => GET_TIMESTAMP(k) \in 0 .. (ClockMod - 1)
<1>1. \A n \in Nat : n % ClockMod \in 0 .. (ClockMod - 1)
  BY ClockAssumption
<1>2. QED
  BY <1>1 DEF GET_TIMESTAMP

\* An entry that exists is not the place-holder.
LEMMA EntryNotNone == \A e \in Entry : e # NoEntry
BY DEF Entry, NoEntry, Seqs

\* Creating, refreshing and checking an entry yield an entry.
LEMMA CreateEntryType ==
  ASSUME ticks \in Nat, NEW s \in Seqs
  PROVE  CreateEntry(s) \in Entry
BY TimestampType, TooLowAssumption, ClockAssumption DEF CreateEntry, Entry

LEMMA RefreshedType ==
  ASSUME ticks \in Nat, NEW e \in Entry
  PROVE  /\ Refreshed(e) \in Entry
         /\ Refreshed(e).seqnr = e.seqnr
         /\ Refreshed(e).array = e.array
         /\ Refreshed(e).too_low = e.too_low
BY TimestampType, ClockAssumption DEF Refreshed, Entry

LEMMA EntryUpdate ==
  ASSUME NEW e \in Entry, NEW q \in Seqs, NEW l \in 0 .. MaxTooLow, NEW a \in SUBSET Offsets
  PROVE  /\ [e EXCEPT !.too_low = l, !.array = a] \in Entry
         /\ [e EXCEPT !.too_low = l, !.seqnr = q, !.array = a] \in Entry
BY DEF Entry

LEMMA UpdatedEntryType ==
  ASSUME NEW e \in Entry, NEW s \in Seqs
  PROVE  UpdatedEntry(e, s) \in Entry
<1> DEFINE diff == SeqnoDiff(s, e.seqnr)
<1>0. /\ 0 \in Offsets /\ diff \in Int /\ 0 \in 0 .. MaxTooLow
      /\ e.array \in SUBSET Offsets
  BY SeqAssumption, TooLowAssumption, DiffType DEF Offsets, Entry
<1> HIDE DEF diff
<1>1. CASE Restarts(e, s)
  <2>1. {0} \in SUBSET Offsets
    BY <1>0
  <2>2. [e EXCEPT !.too_low = 0, !.seqnr = s, !.array = {0}] \in Entry
    BY <1>0, <2>1, EntryUpdate, Zenon
  <2>3. QED
    BY <1>1, <2>2 DEF UpdatedEntry
<1>2. CASE ~Restarts(e, s) /\ TooLow(e, s)
  BY <1>0, <1>2, TooLowAssumption DEF UpdatedEntry, Entry, Restarts
<1>3. CASE ~TooLow(e, s) /\ diff <= 0
  <2>1. -diff \in Offsets
    BY <1>0, <1>3, SeqAssumption DEF Offsets, TooLow, diff
  <2>2. e.array \cup {-diff} \in SUBSET Offsets
    BY <1>0, <2>1
  <2>3. [e EXCEPT !.too_low = 0, !.array = @ \cup {-diff}] \in Entry
    BY <1>0, <2>2, EntryUpdate, Zenon
  <2>4. QED
    BY <1>3, <2>3 DEF UpdatedEntry, Restarts, diff
<1>4. CASE ~TooLow(e, s) /\ ~(diff <= 0)
  <2>1. Shifted(e.array, diff) \cup {0} \in SUBSET Offsets
    BY <1>0 DEF Shifted
  <2>2. [e EXCEPT !.too_low = 0, !.seqnr = s, !.array = Shifted(@, diff) \cup {0}] \in Entry
    BY <1>0, <2>1, EntryUpdate, Zenon
  <2>3. QED
    BY <1>4, <2>2 DEF UpdatedEntry, Restarts, diff
<1>5. QED
  BY <1>1, <1>2, <1>3, <1>4

LEMMA CountCopyType ==
  ASSUME NEW count \in [Seqs -> Nat], NEW s, NEW top, NEW passed
  PROVE  CountCopy(count, s, top, passed) \in [Seqs -> Nat]
BY DEF CountCopy

----------------------------------------------------------------------------
\* Every step keeps the entries well formed.
LEMMA TypeStep == TypeOK /\ [Next]_vars => TypeOK'
<1> SUFFICES ASSUME TypeOK, [Next]_vars PROVE TypeOK'
  OBVIOUS
<1> USE DEF TypeOK
<1>1. CASE UNCHANGED vars
  BY <1>1 DEF vars
<1>2. ASSUME NEW o \in Origs, NEW s \in Seqs, FirstMessage(o, s) PROVE TypeOK'
  <2>1. NoCopies \in [Seqs -> Nat]
    BY DEF NoCopies
  <2>2. CountCopy(NoCopies, s, s, TRUE) \in [Seqs -> Nat]
    BY <2>1, CountCopyType
  <2>3. CreateEntry(s) \in Entry
    BY CreateEntryType
  <2>4. QED
    BY <1>2, <2>2, <2>3 DEF FirstMessage
<1>3. ASSUME NEW o \in Origs, NEW s \in Seqs, KnownMessage(o, s) PROVE TypeOK'
  <2> DEFINE e == Refreshed(dup[o])
             new == UpdatedEntry(e, s)
             base == IF Restarts(e, s) THEN NoCopies ELSE copies[o]
  <2>1. new \in Entry
    BY <1>3, RefreshedType, UpdatedEntryType DEF KnownMessage
  <2>2. base \in [Seqs -> Nat]
    BY DEF NoCopies
  <2>3. CountCopy(base, s, new.seqnr, ~IsDuplicate(e, s)) \in [Seqs -> Nat]
    BY <2>2, CountCopyType
  <2>4. IsDuplicate(e, s) \in BOOLEAN
    BY DEF IsDuplicate
  <2> HIDE DEF e, new, base
  <2>5. /\ dup' = [dup EXCEPT ![o] = new]
        /\ verdict' = IsDuplicate(e, s)
        /\ copies' = [copies EXCEPT ![o] = CountCopy(base, s, new.seqnr, ~IsDuplicate(e, s))]
        /\ born' = [born EXCEPT ![o] = IF Restarts(e, s) THEN -1 ELSE @]
        /\ lastSeen' = [lastSeen EXCEPT ![o] = ticks]
        /\ ticks' = ticks
    BY <1>3 DEF KnownMessage, e, new, base
  <2>6. QED
    BY <2>1, <2>3, <2>4, <2>5
<1>4. ASSUME NEW o \in Origs, CleanupDuplicates(o) PROVE TypeOK'
  <2>1. dup[o] \in Entry /\ MaxTooLow - 2 \in 0 .. MaxTooLow
    BY <1>4, TooLowAssumption DEF CleanupDuplicates
  <2>2. [dup[o] EXCEPT !.too_low = MaxTooLow - 2] \in Entry
    BY <2>1 DEF Entry
  <2>3. QED
    BY <1>4, <2>2 DEF CleanupDuplicates
<1>5. CASE CleanupDuplicateEntry
  BY <1>5 DEF CleanupDuplicateEntry, NoCopies
<1>6. CASE Tick
  BY <1>6 DEF Tick
<1>7. QED
  BY <1>1, <1>2, <1>3, <1>4, <1>5, <1>6 DEF Next, MessageIsDuplicate

\* Type correctness of the duplicate set, for every size of its parameters.
THEOREM TypeCorrect == Spec => []TypeOK
<1>1. Init => TypeOK
  <2> SUFFICES ASSUME Init PROVE TypeOK
    OBVIOUS
  <2>1. dup \in [Origs -> Entry \cup {NoEntry}] /\ ticks \in Nat /\ verdict \in BOOLEAN
    BY DEF Init
  <2>2. copies \in [Origs -> [Seqs -> Nat]]
    BY DEF Init, NoCopies
  <2>3. born \in [Origs -> Seqs \cup {-1}] /\ lastSeen \in [Origs -> Nat]
    BY DEF Init
  <2>4. QED
    BY <2>1, <2>2, <2>3 DEF TypeOK
<1>2. QED
  BY <1>1, TypeStep, PTL DEF Spec

----------------------------------------------------------------------------
\* The bit of the number t in the entry e, and the allowance for the number
\* that created the entry.
Bit(e, t) == IF -SeqnoDiff(t, e.seqnr) \in e.array THEN 1 ELSE 0

\* One call of olsr_message_is_duplicate on an existing entry keeps the bits of
\* the window in step with what was let through.
LEMMA KnownMessageAccounts ==
  ASSUME NEW e \in Entry, NEW s \in Seqs, NEW count \in [Seqs -> Nat], NEW b \in Int,
         \A t \in Seqs :
           IF InWindow(t, e.seqnr)
             THEN count[t] <= Bit(e, t) + (IF t = b THEN 1 ELSE 0)
             ELSE count[t] = 0,
         ~Restarts(e, s)
  PROVE  LET new == UpdatedEntry(e, s)
             count2 == CountCopy(count, s, new.seqnr, ~IsDuplicate(e, s))
         IN  \A t \in Seqs :
               IF InWindow(t, new.seqnr)
                 THEN count2[t] <= Bit(new, t) + (IF t = b THEN 1 ELSE 0)
                 ELSE count2[t] = 0
<1> DEFINE new == UpdatedEntry(e, s)
           count2 == CountCopy(count, s, new.seqnr, ~IsDuplicate(e, s))
           diff == SeqnoDiff(s, e.seqnr)
<1> SUFFICES ASSUME NEW t \in Seqs
             PROVE  IF InWindow(t, new.seqnr)
                      THEN count2[t] <= Bit(new, t) + (IF t = b THEN 1 ELSE 0)
                      ELSE count2[t] = 0
  OBVIOUS
<1>0. /\ e.seqnr \in Seqs /\ diff \in Int /\ e.array \in SUBSET Offsets
      /\ SeqnoDiff(t, e.seqnr) \in Int
  BY DiffType DEF Entry
<1>1. CASE ~InWindow(t, new.seqnr)
  BY <1>1 DEF CountCopy
<1>2. CASE InWindow(t, new.seqnr) /\ TooLow(e, s)
  <2>1. new.seqnr = e.seqnr /\ new.array = e.array /\ IsDuplicate(e, s)
    BY <1>2 DEF UpdatedEntry, IsDuplicate, Entry
  <2>2. count2[t] = count[t]
    BY <1>2, <2>1 DEF CountCopy
  <2>3. QED
    BY <1>2, <2>1, <2>2 DEF Bit
<1>3. CASE InWindow(t, new.seqnr) /\ ~TooLow(e, s) /\ diff <= 0
  <2>1. new = [e EXCEPT !.too_low = 0, !.array = @ \cup {-diff}]
    BY <1>3 DEF UpdatedEntry, Restarts
  <2>2. new.seqnr = e.seqnr /\ new.array = e.array \cup {-diff}
    BY <2>1 DEF Entry
  <2>3. InWindow(s, e.seqnr)
    BY <1>0, <1>3, SeqAssumption DEF InWindow, TooLow, Offsets
  <2>4. CASE t = s /\ ~IsDuplicate(e, s)
    <3>1. Bit(e, t) = 0 /\ Bit(new, t) = 1
      BY <1>3, <2>2, <2>4 DEF Bit, IsDuplicate
    <3>2. count2[t] = count[t] + 1
      BY <1>3, <2>4 DEF CountCopy
    <3>3. QED
      BY <1>0, <1>3, <2>2, <3>1, <3>2
  <2>5. CASE ~(t = s /\ ~IsDuplicate(e, s))
    <3>1. count2[t] = count[t]
      BY <1>3, <2>5 DEF CountCopy
    <3>2. Bit(e, t) <= Bit(new, t)
      BY <2>2 DEF Bit
    <3>3. QED
      BY <1>3, <2>2, <3>1, <3>2 DEF Bit
  <2>6. QED
    BY <2>4, <2>5
<1>4. CASE InWindow(t, new.seqnr) /\ ~TooLow(e, s) /\ ~(diff <= 0)
  <2>1. new = [e EXCEPT !.too_low = 0, !.seqnr = s, !.array = Shifted(@, diff) \cup {0}]
    BY <1>4 DEF UpdatedEntry, Restarts
  <2>2. new.seqnr = s /\ new.array = Shifted(e.array, diff) \cup {0}
    BY <2>1 DEF Entry
  <2>3. ~InWindow(s, e.seqnr)
    BY <1>0, <1>4, SeqAssumption DEF InWindow, Offsets
  <2>4. CASE t = s
    <3>1. Bit(new, t) = 1
      BY <2>2, <2>4, DiffZero DEF Bit
    <3>2. count[t] = 0
      BY <2>3, <2>4
    <3>3. QED
      BY <1>4, <3>1, <3>2 DEF CountCopy
  <2>5. CASE t # s /\ InWindow(t, e.seqnr)
    <3>1. -SeqnoDiff(t, s) = -SeqnoDiff(t, e.seqnr) + diff
      BY <1>0, <1>4, <2>2, <2>5, DiffShift
    <3>2. -SeqnoDiff(t, e.seqnr) \in e.array => -SeqnoDiff(t, s) \in Shifted(e.array, diff)
      <4> DEFINE i == -SeqnoDiff(t, s)
      <4>1. i \in Offsets /\ i - diff = -SeqnoDiff(t, e.seqnr)
        BY <1>0, <1>4, <2>2, <3>1, DiffType DEF InWindow
      <4>2. QED
        BY <4>1 DEF Shifted
    <3>3. Bit(e, t) <= Bit(new, t)
      BY <2>2, <3>2 DEF Bit
    <3>4. count2[t] = count[t]
      BY <1>4, <2>5 DEF CountCopy
    <3>5. QED
      BY <1>4, <2>5, <3>3, <3>4 DEF Bit
  <2>6. CASE t # s /\ ~InWindow(t, e.seqnr)
    BY <1>4, <2>6 DEF CountCopy, Bit
  <2>7. QED
    BY <2>4, <2>5, <2>6
<1>5. QED
  BY <1>1, <1>2, <1>3, <1>4

\* Every step keeps the bit arrays in step with what was let through.
LEMMA AccountStep == TypeOK /\ ArrayRecordsPassed /\ [Next]_vars => ArrayRecordsPassed'
<1> SUFFICES ASSUME TypeOK, ArrayRecordsPassed, [Next]_vars, NEW p \in Origs
             PROVE  Accounted(p)'
  BY DEF ArrayRecordsPassed
<1>0. Accounted(p)
  BY DEF ArrayRecordsPassed
<1>1. CASE UNCHANGED <<dup, copies, born>>
  BY <1>0, <1>1 DEF Accounted
<1>2. ASSUME NEW o \in Origs, NEW s \in Seqs, FirstMessage(o, s) PROVE Accounted(p)'
  <2>1. CASE p # o
    BY <1>0, <1>2, <2>1 DEF FirstMessage, Accounted, TypeOK
  <2>2. CASE p = o
    <3>1. /\ dup'[p] = CreateEntry(s) /\ born'[p] = s
          /\ copies'[p] = CountCopy(NoCopies, s, s, TRUE)
      BY <1>2, <2>2 DEF FirstMessage, TypeOK
    <3>2. CreateEntry(s).seqnr = s /\ CreateEntry(s).array = {} /\ CreateEntry(s) # NoEntry
      BY CreateEntryType, EntryNotNone DEF CreateEntry, TypeOK
    <3>3. \A t \in Seqs : copies'[p][t] \in {0, 1} /\ (copies'[p][t] = 1 => t = s /\ InWindow(t, s))
      BY <3>1 DEF CountCopy, NoCopies
    <3> DEFINE new == CreateEntry(s)
    <3> HIDE DEF new
    <3>4. dup'[p] = new /\ new # NoEntry /\ new.seqnr = s
      BY <3>1, <3>2 DEF new
    <3>5. \A t \in Seqs : ~InWindow(t, s) => copies'[p][t] = 0
      BY <3>3
    <3>8. born'[p] = s
      BY <3>1, Zenon
    <3>6. \A t \in Seqs : copies'[p][t] <= (IF t = born'[p] THEN 1 ELSE 0)
      BY <3>8, <3>3
    <3>9. QED
      BY <3>3, <3>4, <3>5, <3>6 DEF Accounted
  <2>3. QED
    BY <2>1, <2>2
<1>3. ASSUME NEW o \in Origs, NEW s \in Seqs, KnownMessage(o, s) PROVE Accounted(p)'
  <2> DEFINE e == Refreshed(dup[o])
             new == UpdatedEntry(e, s)
  <2>1. dup[o] \in Entry /\ copies[o] \in [Seqs -> Nat] /\ born[o] \in Int /\ ticks \in Nat
    BY <1>3 DEF KnownMessage, TypeOK, Seqs
  <2>2. e \in Entry /\ e.seqnr = dup[o].seqnr /\ e.array = dup[o].array
    BY <2>1, RefreshedType
  <2>3. new \in Entry /\ new # NoEntry
    BY <2>2, UpdatedEntryType, EntryNotNone
  <2>4. CASE p # o
    BY <1>0, <1>3, <2>4 DEF KnownMessage, Accounted, TypeOK
  <2>5. CASE p = o /\ Restarts(e, s)
    <3>1. new.seqnr = s /\ new.array = {0}
      <4>1. new = [e EXCEPT !.too_low = 0, !.seqnr = s, !.array = {0}]
        BY <2>5 DEF UpdatedEntry
      <4>2. QED
        BY <2>2, <4>1 DEF Entry
    <3>2. dup'[p] = new /\ copies'[p] = CountCopy(NoCopies, s, new.seqnr, ~IsDuplicate(e, s))
      BY <1>3, <2>5 DEF KnownMessage, TypeOK
    <3>3. \A t \in Seqs : copies'[p][t] \in {0, 1} /\ (copies'[p][t] = 1 => t = s /\ InWindow(t, s))
      BY <3>1, <3>2 DEF CountCopy, NoCopies
    <3>4. \A t \in Seqs : t = s => -SeqnoDiff(t, s) \in {0}
      BY DiffZero
    <3> HIDE DEF new, e
    <3>5. QED
      BY <2>3, <3>1, <3>2, <3>3, <3>4 DEF Accounted
  <2>6. CASE p = o /\ ~Restarts(e, s)
    <3>1. /\ dup'[p] = new /\ born'[p] = born[o]
          /\ copies'[p] = CountCopy(copies[o], s, new.seqnr, ~IsDuplicate(e, s))
      BY <1>3, <2>6 DEF KnownMessage, TypeOK
    <3>2. \A t \in Seqs :
            IF InWindow(t, e.seqnr)
              THEN copies[o][t] <= Bit(e, t) + (IF t = born[o] THEN 1 ELSE 0)
              ELSE copies[o][t] = 0
      BY <1>0, <2>1, <2>2, <2>6, EntryNotNone DEF Accounted, Bit
    <3> HIDE DEF e
    <3>3. \A t \in Seqs :
            IF InWindow(t, new.seqnr)
              THEN copies'[p][t] <= Bit(new, t) + (IF t = born[o] THEN 1 ELSE 0)
              ELSE copies'[p][t] = 0
      BY <2>1, <2>2, <2>6, <3>1, <3>2, KnownMessageAccounts
    <3> HIDE DEF new
    <3>4. QED
      BY <2>3, <3>1, <3>3 DEF Accounted, Bit
  <2>7. QED
    BY <2>4, <2>5, <2>6
<1>4. ASSUME NEW o \in Origs, CleanupDuplicates(o) PROVE Accounted(p)'
  <2>1. dup[o] \in Entry
    BY <1>4 DEF CleanupDuplicates, TypeOK
  <2>2. [dup[o] EXCEPT !.too_low = MaxTooLow - 2] # NoEntry
    BY <2>1 DEF Entry, NoEntry, Seqs
  <2>3. /\ dup'[p].seqnr = dup[p].seqnr /\ dup'[p].array = dup[p].array
        /\ (dup'[p] = NoEntry <=> dup[p] = NoEntry)
    BY <1>4, <2>1, <2>2 DEF CleanupDuplicates, TypeOK, Entry
  <2>4. QED
    BY <1>0, <1>4, <2>3 DEF Accounted, CleanupDuplicates
<1>5. CASE CleanupDuplicateEntry
  BY <1>0, <1>5 DEF CleanupDuplicateEntry, Accounted, NoCopies
<1>6. QED
  BY <1>1, <1>2, <1>3, <1>4, <1>5 DEF Next, MessageIsDuplicate, Tick, vars

\* The bit array always records what was let through.
THEOREM ArrayCorrect == Spec => []ArrayRecordsPassed
<1>1. Init => ArrayRecordsPassed
  BY DEF Init, ArrayRecordsPassed, Accounted, NoCopies
<1>2. QED
  BY <1>1, AccountStep, TypeCorrect, PTL DEF Spec

\* No message is let through twice while its number is in the window, except
\* the one that created the entry: for every size of the number space, of the
\* window and of the clock.
THEOREM NoReplay == Spec => []OnlyFirstRepeats
<1>1. TypeOK /\ ArrayRecordsPassed => OnlyFirstRepeats
  <2> SUFFICES ASSUME TypeOK, ArrayRecordsPassed, NEW o \in Origs, NEW s \in Seqs
               PROVE  copies[o][s] <= (IF s = born[o] THEN 2 ELSE 1)
    BY DEF OnlyFirstRepeats
  <2>1. copies[o][s] \in Nat
    BY DEF TypeOK
  <2>2. QED
    BY <2>1 DEF ArrayRecordsPassed, Accounted
<1>2. QED
  BY <1>1, ArrayCorrect, TypeCorrect, PTL

----------------------------------------------------------------------------
\* While the clock has not wrapped, an entry expires VTime after its last message.
Fresh ==
  \A o \in Origs : /\ lastSeen[o] <= ticks /\ ticks <= MaxTicks
                   /\ dup[o] # NoEntry => dup[o].valid_until = lastSeen[o] + VTime

\* Without wrap-around the clock is the time.
LEMMA NoWrap ==
  ASSUME MaxTicks + VTime < ClockMod, ticks \in Nat, ticks <= MaxTicks
  PROVE  now_times = ticks /\ GET_TIMESTAMP(VTime) = ticks + VTime
<1>1. \A n \in Nat : n < ClockMod => n % ClockMod = n
  BY ClockAssumption
<1>2. QED
  BY <1>1, ClockAssumption DEF now_times, GET_TIMESTAMP

LEMMA FreshStep ==
  ASSUME MaxTicks + VTime < ClockMod
  PROVE  TypeOK /\ Fresh /\ [Next]_vars => Fresh'
<1> SUFFICES ASSUME TypeOK, Fresh, [Next]_vars, NEW p \in Origs
             PROVE  /\ lastSeen'[p] <= ticks' /\ ticks' <= MaxTicks
                    /\ dup'[p] # NoEntry => dup'[p].valid_until = lastSeen'[p] + VTime
  BY DEF Fresh
<1>0. /\ ticks \in Nat /\ MaxTicks \in Nat /\ VTime \in Nat /\ lastSeen \in [Origs -> Nat]
      /\ lastSeen[p] <= ticks /\ ticks <= MaxTicks
      /\ dup[p] # NoEntry => dup[p].valid_until = lastSeen[p] + VTime
      /\ dup \in [Origs -> Entry \cup {NoEntry}]
      /\ GET_TIMESTAMP(VTime) = ticks + VTime
  BY ClockAssumption, NoWrap DEF TypeOK, Fresh
<1>1. CASE UNCHANGED vars
  BY <1>0, <1>1 DEF vars
<1>2. ASSUME NEW o \in Origs, NEW s \in Seqs, FirstMessage(o, s)
      PROVE  /\ lastSeen'[p] <= ticks' /\ ticks' <= MaxTicks
             /\ dup'[p] # NoEntry => dup'[p].valid_until = lastSeen'[p] + VTime
  BY <1>0, <1>2 DEF FirstMessage, CreateEntry
<1>3. ASSUME NEW o \in Origs, NEW s \in Seqs, KnownMessage(o, s)
      PROVE  /\ lastSeen'[p] <= ticks' /\ ticks' <= MaxTicks
             /\ dup'[p] # NoEntry => dup'[p].valid_until = lastSeen'[p] + VTime
  <2>1. lastSeen'[p] = (IF p = o THEN ticks ELSE lastSeen[p]) /\ ticks' = ticks
    BY <1>0, <1>3 DEF KnownMessage
  <2>2. CASE p # o
    BY <1>0, <1>3, <2>1, <2>2 DEF KnownMessage
  <2>3. CASE p = o
    <3> DEFINE e == Refreshed(dup[o])
    <3>1. dup[o] \in Entry
      BY <1>0, <1>3 DEF KnownMessage
    <3>2. e \in Entry /\ e.valid_until = ticks + VTime
      BY <1>0, <1>3, <2>3, <3>1, RefreshedType DEF Refreshed, Entry, KnownMessage
    <3>3. dup'[p] = UpdatedEntry(e, s)
      BY <1>0, <1>3, <2>3 DEF KnownMessage
    <3> HIDE DEF e
    <3>4. UpdatedEntry(e, s).valid_until = e.valid_until
      BY <3>2 DEF UpdatedEntry, Entry
    <3>5. QED
      BY <1>0, <2>1, <2>3, <3>2, <3>3, <3>4
  <2>4. QED
    BY <2>2, <2>3
<1>4. ASSUME NEW o \in Origs, CleanupDuplicates(o)
      PROVE  /\ lastSeen'[p] <= ticks' /\ ticks' <= MaxTicks
             /\ dup'[p] # NoEntry => dup'[p].valid_until = lastSeen'[p] + VTime
  <2>1. dup[o] \in Entry
    BY <1>0, <1>4 DEF CleanupDuplicates
  <2>2. [dup[o] EXCEPT !.too_low = MaxTooLow - 2].valid_until = dup[o].valid_until
    BY <2>1 DEF Entry
  <2>3. dup'[p].valid_until = dup[p].valid_until /\ (dup'[p] # NoEntry => dup[p] # NoEntry)
    BY <1>0, <1>4, <2>2 DEF CleanupDuplicates
  <2>4. QED
    BY <1>0, <1>4, <2>3 DEF CleanupDuplicates
<1>5. CASE CleanupDuplicateEntry
  BY <1>0, <1>5 DEF CleanupDuplicateEntry
<1>6. CASE Tick
  BY <1>0, <1>6 DEF Tick
<1>7. QED
  BY <1>1, <1>2, <1>3, <1>4, <1>5, <1>6 DEF Next, MessageIsDuplicate

\* As long as the clock does not wrap, the periodic cleanup forgets an
\* originator only after it has been silent for VTime.
THEOREM ForgetsOnlyTheQuiet ==
  ASSUME MaxTicks + VTime < ClockMod
  PROVE  Spec => QuietBeforeForget
<1>1. Init => Fresh
  <2> SUFFICES ASSUME Init, NEW o \in Origs
               PROVE  lastSeen[o] <= ticks /\ ticks <= MaxTicks /\ dup[o] = NoEntry
    BY DEF Fresh
  <2>1. ticks = 0 /\ lastSeen[o] = 0
    BY DEF Init
  <2>2. dup[o] = NoEntry
    BY DEF Init
  <2>3. QED
    BY <2>1, <2>2, ClockAssumption
<1>2. TypeOK /\ Fresh /\ [Next]_vars => [\A o \in Origs : ForgetsQuiet(o)]_vars
  <2> SUFFICES ASSUME TypeOK, Fresh, Next, NEW o \in Origs, dup[o] # NoEntry, dup'[o] = NoEntry
               PROVE  ticks - lastSeen[o] >= VTime
    BY DEF ForgetsQuiet
  <2>1. CASE CleanupDuplicateEntry
    <3>1. TIMED_OUT(dup[o].valid_until)
      BY <2>1 DEF CleanupDuplicateEntry, Expired
    <3>2. /\ ticks \in Nat /\ ticks <= MaxTicks /\ lastSeen[o] \in Nat /\ VTime \in Nat
          /\ lastSeen[o] <= ticks /\ dup[o].valid_until = lastSeen[o] + VTime
      BY ClockAssumption DEF TypeOK, Fresh
    <3>3. now_times = ticks /\ VTime <= ClockMod \div 2
      BY <3>2, NoWrap, ClockAssumption
    <3>4. ClockMod \div 2 \in Int
      BY ClockAssumption
    <3>5. QED
      BY <3>1, <3>2, <3>3, <3>4 DEF TIMED_OUT
  <2>2. ASSUME NEW p \in Origs, NEW s \in Seqs, FirstMessage(p, s) PROVE FALSE
    <3>1. CreateEntry(s) # NoEntry
      BY CreateEntryType, EntryNotNone DEF TypeOK
    <3>2. QED
      BY <2>2, <3>1 DEF FirstMessage, TypeOK
  <2>3. ASSUME NEW p \in Origs, NEW s \in Seqs, KnownMessage(p, s) PROVE FALSE
    <3>1. dup[p] \in Entry /\ ticks \in Nat
      BY <2>3 DEF KnownMessage, TypeOK
    <3>2. UpdatedEntry(Refreshed(dup[p]), s) # NoEntry
      BY <3>1, RefreshedType, UpdatedEntryType, EntryNotNone
    <3>3. QED
      BY <2>3, <3>2 DEF KnownMessage, TypeOK
  <2>4. ASSUME NEW p \in Origs, CleanupDuplicates(p) PROVE FALSE
    <3>1. dup[p] \in Entry
      BY <2>4 DEF CleanupDuplicates, TypeOK
    <3>2. [dup[p] EXCEPT !.too_low = MaxTooLow - 2] # NoEntry
      BY <3>1 DEF Entry, NoEntry, Seqs
    <3>3. QED
      BY <2>4, <3>2 DEF CleanupDuplicates, TypeOK
  <2>5. CASE Tick
    BY <2>5 DEF Tick
  <2>6. QED
    BY <2>1, <2>2, <2>3, <2>4, <2>5 DEF Next, MessageIsDuplicate
<1>3. TypeOK /\ Fresh /\ [Next]_vars => Fresh'
  BY FreshStep
<1>4. QED
  BY <1>1, <1>2, <1>3, TypeCorrect, PTL DEF Spec, QuietBeforeForget
============================================================================
