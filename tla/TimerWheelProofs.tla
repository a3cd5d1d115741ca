-------------------------- MODULE TimerWheelProofs --------------------------
(***************************************************************************)
(* Timers hang where the walk looks for them, for any number of timers and *)
(* any size of the wheel and of the clock, and none is very late.          *)
(***************************************************************************)
EXTENDS TimerWheel, TLAPS

WheelTypeOK ==
  /\ now \in Clock /\ lastRun \in Clock
  /\ phase \in Phase
  /\ flag \in [Timers -> {"free", "running", "removed"}]
  /\ clock \in [Timers -> Clock]
  /\ wheel \in [0 .. Slots - 1 -> SUBSET Timers]
  /\ passed \in SUBSET Timers

\* The temporary list is in use only inside the loop over the slots.
PassedInLoop == passed # {} => MoreSlots

WheelInv == WheelTypeOK /\ WheelConsistent /\ PassedInLoop

Places == 0 .. Slots - 1
----------------------------------------------------------------------------
LEMMA ClockFacts ==
  /\ \A c \in Int : c % ClockMod \in Clock
  /\ \A c \in Clock : SlotOf(c) \in 0 .. Slots - 1
  /\ 0 \in Clock
<1>1. ClockMod \in Nat /\ ClockMod > 0 /\ Slots \in Nat /\ Slots > 0
  BY WheelAssumption
<1>2. \A c \in Int : c % ClockMod \in Clock
  BY <1>1 DEF Clock
<1>3. \A c \in Clock : SlotOf(c) \in 0 .. Slots - 1
  BY <1>1 DEF Clock, SlotOf
<1> QED BY <1>1, <1>2, <1>3 DEF Clock

\* Setting a timer to a new time moves it to the list of that time.
LEMMA ReinsertConsistent ==
  ASSUME WheelInv, NEW t \in Timers, NEW c \in Clock,
         clock' = [clock EXCEPT ![t] = c], Reinsert(t, c),
         flag' \in [Timers -> {"free", "running", "removed"}],
         flag'[t] # "free", \A u \in Timers \ {t} : flag'[u] = flag[u],
         lastRun' = lastRun, now' = now, walks' = walks, phase' \in Phase,
         phase' = "idle" => phase = "idle", phase' # "ended",
         phase' = "callback" => current' = current /\ phase = "callback"
  PROVE  WheelInv'
<1>1. /\ wheel' = Rehash(t, SlotOf(c))
      /\ passed' = passed \ {t}
  BY DEF Reinsert
<1>2. SlotOf(c) \in Places /\ clock' \in [Timers -> Clock]
  BY ClockFacts DEF WheelInv, WheelTypeOK, Places
<1>3. \A u \in Timers : clock'[u] = IF u = t THEN c ELSE clock[u]
  BY DEF WheelInv, WheelTypeOK
<1>4. \A i \in Places : wheel'[i] = IF i = SlotOf(c) THEN wheel[i] \cup {t} ELSE wheel[i] \ {t}
  BY <1>1 DEF Rehash, Places
<1>5. wheel' \in [Places -> SUBSET Timers]
  <2>1. \A i \in Places : wheel[i] \subseteq Timers
    BY DEF WheelInv, WheelTypeOK, Places
  <2> QED BY <1>1, <2>1 DEF Rehash, Places
<1>6. Allocated' = Allocated \cup {t}
  BY DEF Allocated
<1> HIDE DEF SlotOf
<1>7. WheelTypeOK'
  BY <1>1, <1>2, <1>5 DEF WheelInv, WheelTypeOK, Places
<1>8. \A u \in Timers, i \in Places : u \in wheel'[i] <=> u \in Allocated' \ passed' /\ i = SlotOf(clock'[u])
  <2> SUFFICES ASSUME NEW u \in Timers, NEW i \in Places
               PROVE  u \in wheel'[i] <=> u \in Allocated' \ passed' /\ i = SlotOf(clock'[u])
    OBVIOUS
  <2>1. u \in wheel[i] <=> u \in Allocated \ passed /\ i = SlotOf(clock[u])
    BY DEF WheelInv, WheelConsistent, Places
  <2>2. CASE u = t
    BY <2>2, <1>1, <1>3, <1>4, <1>6
  <2>3. CASE u # t
    BY <2>1, <2>3, <1>1, <1>3, <1>4, <1>6
  <2> QED BY <2>2, <2>3
<1>9. \A u \in passed' : u \in Allocated' /\ SlotOf(clock'[u]) = SlotOf(lastRun')
  <2> SUFFICES ASSUME NEW u \in passed' PROVE u \in Allocated' /\ SlotOf(clock'[u]) = SlotOf(lastRun)
    OBVIOUS
  <2>1. u \in passed /\ u # t
    BY <1>1
  <2>2. u \in Allocated /\ SlotOf(clock[u]) = SlotOf(lastRun) /\ u \in Timers
    BY <2>1 DEF WheelInv, WheelConsistent, WheelTypeOK
  <2> QED BY <2>1, <2>2, <1>3, <1>6
<1>10. phase' \in {"idle", "ended"} => passed' = {}
  BY <1>1 DEF WheelInv, WheelConsistent
<1>11. phase' = "callback" => current' \in Allocated'
  BY <1>6 DEF WheelInv, WheelConsistent
<1>12. WheelConsistent'
  BY <1>7, <1>8, <1>9, <1>10, <1>11 DEF WheelConsistent, WheelTypeOK, Places
<1>13. PassedInLoop'
  BY <1>1 DEF WheelInv, PassedInLoop, MoreSlots
<1> QED BY <1>7, <1>12, <1>13 DEF WheelInv

\* olsr_change_timer
LEMMA ChangeToConsistent ==
  ASSUME WheelInv, NEW t \in Timers, NEW rel, NEW per, rel \in Int, ChangeTo(t, rel, per),
         flag' \in [Timers -> {"free", "running", "removed"}],
         flag'[t] # "free", \A u \in Timers \ {t} : flag'[u] = flag[u],
         lastRun' = lastRun, now' = now, walks' = walks, phase' \in Phase,
         phase' = "idle" => phase = "idle", phase' # "ended",
         phase' = "callback" => current' = current /\ phase = "callback"
  PROVE  WheelInv'
<1>1. PICK r \in CalcJitter(rel) :
        /\ clock' = [clock EXCEPT ![t] = (now + r) % ClockMod]
        /\ Reinsert(t, (now + r) % ClockMod)
  BY Zenon DEF ChangeTo
<1>2. r \in Int
  BY WheelAssumption DEF CalcJitter
<1>3. now + r \in Int
  BY <1>2, WheelAssumption DEF WheelInv, WheelTypeOK, Clock
<1>4. (now + r) % ClockMod \in Clock
  BY <1>3, ClockFacts
<1> QED BY <1>1, <1>4, ReinsertConsistent

PeriodOK == period \in [Timers -> Int]

\* A stopped timer stays in its list.
LEMMA StoppedConsistent ==
  ASSUME WheelInv, PeriodOK, NEW t \in Timers, Running(t), Stopped(t),
         lastRun' = lastRun, now' = now, walks' = walks, phase' \in Phase,
         phase' = "idle" => phase = "idle", phase' # "ended",
         phase' = "callback" => current' = current /\ phase = "callback"
  PROVE  WheelInv' /\ PeriodOK'
<1>1. /\ flag' = [flag EXCEPT ![t] = "removed"]
      /\ clock' = clock /\ period' = period /\ wheel' = wheel /\ passed' = passed
  BY DEF Stopped
<1>2. Allocated' = Allocated
  BY <1>1 DEF Allocated, Running, WheelInv, WheelTypeOK
<1> HIDE DEF SlotOf
<1>3. WheelTypeOK' /\ PassedInLoop' /\ PeriodOK'
  BY <1>1 DEF WheelInv, WheelTypeOK, PassedInLoop, MoreSlots, PeriodOK
<1>4. WheelConsistent'
  BY <1>1, <1>2 DEF WheelInv, WheelConsistent
<1> QED BY <1>3, <1>4 DEF WheelInv

\* The walk moves timers between a slot and the temporary list.
LEMMA WalkTimerConsistent ==
  ASSUME WheelInv, PeriodOK, NEW t \in Timers, WalkTimer(t)
  PROVE  WheelInv' /\ PeriodOK'
<1>1. /\ phase = "walk" /\ MoreSlots /\ t \in wheel[SlotOf(lastRun)]
      /\ wheel' = [wheel EXCEPT ![SlotOf(lastRun)] = @ \ {t}]
      /\ passed' = passed \cup {t}
      /\ now' = now /\ lastRun' = lastRun /\ walks' = walks /\ flag' = flag
      /\ clock' = clock /\ period' = period
  BY DEF WalkTimer, Slot
<1>2. phase' = "walk" \/ (phase' = "callback" /\ current' = t)
  BY <1>1 DEF WalkTimer
<1>3. SlotOf(lastRun) \in Places
  BY ClockFacts DEF WheelInv, WheelTypeOK, Places
<1>4. t \in Allocated \ passed /\ SlotOf(clock[t]) = SlotOf(lastRun)
  BY <1>1, <1>3 DEF WheelInv, WheelConsistent, Places
<1>5. \A i \in Places : wheel'[i] = IF i = SlotOf(lastRun) THEN wheel[i] \ {t} ELSE wheel[i]
  BY <1>1, <1>3 DEF WheelInv, WheelTypeOK, Places
<1> HIDE DEF SlotOf
<1>6. wheel' \in [Places -> SUBSET Timers]
  BY <1>1, <1>3 DEF WheelInv, WheelTypeOK, Places
<1>7. WheelTypeOK' /\ PassedInLoop' /\ PeriodOK'
  BY <1>1, <1>2, <1>6 DEF WheelInv, WheelTypeOK, PassedInLoop, MoreSlots, PeriodOK, Places, Phase
<1>8. Allocated' = Allocated
  BY <1>1 DEF Allocated
<1>9. \A u \in Timers, i \in Places : u \in wheel'[i] <=> u \in Allocated' \ passed' /\ i = SlotOf(clock'[u])
  <2> SUFFICES ASSUME NEW u \in Timers, NEW i \in Places
               PROVE  u \in wheel'[i] <=> u \in Allocated \ (passed \cup {t}) /\ i = SlotOf(clock[u])
    BY <1>1, <1>8
  <2>1. u \in wheel[i] <=> u \in Allocated \ passed /\ i = SlotOf(clock[u])
    BY DEF WheelInv, WheelConsistent, Places
  <2> QED BY <2>1, <1>4, <1>5
<1>10. WheelConsistent'
  BY <1>1, <1>2, <1>4, <1>8, <1>9 DEF WheelInv, WheelConsistent, Places
<1> QED BY <1>7, <1>10 DEF WheelInv

\* At the end of a slot the temporary list becomes the list of the slot.
LEMMA NextSlotConsistent ==
  ASSUME WheelInv, PeriodOK, NextSlot
  PROVE  WheelInv' /\ PeriodOK'
<1>1. /\ phase = "walk" /\ phase' = phase /\ wheel[SlotOf(lastRun)] = {}
      /\ wheel' = [wheel EXCEPT ![SlotOf(lastRun)] = passed]
      /\ passed' = {} /\ now' = now /\ flag' = flag
      /\ clock' = clock /\ period' = period
  BY DEF NextSlot, Slot
<1>2. lastRun' \in Clock
  <2>1. lastRun + 1 \in Int
    BY WheelAssumption DEF WheelInv, WheelTypeOK, Clock
  <2> QED BY <2>1, ClockFacts DEF NextSlot
<1>3. SlotOf(lastRun) \in Places
  BY ClockFacts DEF WheelInv, WheelTypeOK, Places
<1>4. \A i \in Places : wheel'[i] = IF i = SlotOf(lastRun) THEN passed ELSE wheel[i]
  BY <1>1, <1>3 DEF WheelInv, WheelTypeOK, Places
<1> HIDE DEF SlotOf
<1>5. wheel' \in [Places -> SUBSET Timers]
  BY <1>1, <1>3 DEF WheelInv, WheelTypeOK, Places
<1>6. WheelTypeOK' /\ PassedInLoop' /\ PeriodOK'
  BY <1>1, <1>2, <1>5 DEF WheelInv, WheelTypeOK, PassedInLoop, PeriodOK, Places
<1>7. Allocated' = Allocated
  BY <1>1 DEF Allocated
<1>8. \A u \in Timers, i \in Places : u \in wheel'[i] <=> u \in Allocated' \ passed' /\ i = SlotOf(clock'[u])
  <2> SUFFICES ASSUME NEW u \in Timers, NEW i \in Places
               PROVE  u \in wheel'[i] <=> u \in Allocated /\ i = SlotOf(clock[u])
    BY <1>1, <1>7
  <2>1. u \in wheel[i] <=> u \in Allocated \ passed /\ i = SlotOf(clock[u])
    BY DEF WheelInv, WheelConsistent, Places
  <2>2. u \in wheel[SlotOf(lastRun)] <=> u \in Allocated \ passed /\ SlotOf(lastRun) = SlotOf(clock[u])
    BY <1>3 DEF WheelInv, WheelConsistent, Places
  <2>3. u \in passed => u \in Allocated /\ SlotOf(clock[u]) = SlotOf(lastRun)
    BY DEF WheelInv, WheelConsistent
  <2> QED BY <2>1, <2>2, <2>3, <1>1, <1>4
<1>9. WheelConsistent'
  BY <1>1, <1>8 DEF WheelConsistent, Places
<1> QED BY <1>6, <1>9 DEF WheelInv

\* The stopped timers are freed when no walk is under way.
LEMMA EndWalkConsistent ==
  ASSUME WheelInv, PeriodOK, EndWalk
  PROVE  WheelInv' /\ PeriodOK'
<1>1. /\ phase' = "idle" /\ lastRun' = now /\ now' = now /\ passed' = passed
      /\ flag' = [t \in Timers |-> IF flag[t] = "removed" THEN "free" ELSE flag[t]]
      /\ wheel' = [i \in 0 .. Slots - 1 |-> {t \in wheel[i] : flag[t] # "removed"}]
      /\ clock' = [t \in Timers |-> IF flag[t] = "removed" THEN 0 ELSE clock[t]]
      /\ period' = [t \in Timers |-> IF flag[t] = "removed" THEN 0 ELSE period[t]]
  BY DEF EndWalk, Cleanup
<1>2. passed = {}
  BY DEF EndWalk, WheelInv, PassedInLoop
<1> HIDE DEF SlotOf
<1>3. WheelTypeOK' /\ PassedInLoop' /\ PeriodOK'
  <2>1. clock' \in [Timers -> Clock]
    BY <1>1, ClockFacts DEF WheelInv, WheelTypeOK
  <2>2. wheel' \in [0 .. Slots - 1 -> SUBSET Timers]
    BY <1>1 DEF WheelInv, WheelTypeOK
  <2>3. flag' \in [Timers -> {"free", "running", "removed"}]
    BY <1>1 DEF WheelInv, WheelTypeOK
  <2>4. period' \in [Timers -> Int]
    BY <1>1 DEF PeriodOK
  <2> QED BY <1>1, <1>2, <2>1, <2>2, <2>3, <2>4 DEF WheelInv, WheelTypeOK, PassedInLoop, PeriodOK, Phase
<1>4. \A u \in Timers, i \in Places : u \in wheel'[i] <=> u \in Allocated' \ passed' /\ i = SlotOf(clock'[u])
  <2> SUFFICES ASSUME NEW u \in Timers, NEW i \in Places
               PROVE  u \in wheel'[i] <=> u \in Allocated' /\ i = SlotOf(clock'[u])
    BY <1>1, <1>2
  <2>1. u \in wheel[i] <=> u \in Allocated /\ i = SlotOf(clock[u])
    BY <1>2 DEF WheelInv, WheelConsistent, Places
  <2>2. u \in wheel'[i] <=> u \in wheel[i] /\ flag[u] # "removed"
    BY <1>1 DEF Places
  <2>3. u \in Allocated' <=> u \in Allocated /\ flag[u] # "removed"
    BY <1>1 DEF Allocated
  <2>4. flag[u] # "removed" => clock'[u] = clock[u]
    BY <1>1
  <2> QED BY <2>1, <2>2, <2>3, <2>4
<1>5. WheelConsistent'
  BY <1>1, <1>2, <1>4 DEF WheelConsistent, Places
<1> QED BY <1>3, <1>5 DEF WheelInv
-----------------------------------------------------------------------------
LEMMA WheelStarts ==
  ASSUME Init
  PROVE  WheelInv /\ PeriodOK
<1>1. WheelTypeOK /\ PassedInLoop /\ PeriodOK
  BY ClockFacts DEF Init, WheelTypeOK, PassedInLoop, PeriodOK, Phase
<1>2. WheelConsistent
  BY DEF Init, WheelConsistent, Allocated
<1> QED BY <1>1, <1>2 DEF WheelInv

LEMMA WheelKept ==
  ASSUME WheelInv, PeriodOK, [Next]_vars
  PROVE  WheelInv' /\ PeriodOK'
<1>1. CASE UNCHANGED vars
  BY <1>1 DEF vars, timerVars, WheelInv, WheelTypeOK, WheelConsistent, PassedInLoop, MoreSlots, Allocated, PeriodOK
<1>2. CASE Tick
  <2>1. now' \in Clock
    <3>1. PICK d \in 1 .. MaxStall : now' = (now + d) % ClockMod
      BY <1>2 DEF Tick
    <3>2. now + d \in Int
      BY WheelAssumption DEF WheelInv, WheelTypeOK, Clock
    <3> QED BY <3>1, <3>2, ClockFacts
  <2>2. passed = {}
    BY <1>2 DEF Tick, WheelInv, WheelConsistent
  <2> QED BY <1>2, <2>1, <2>2 DEF Tick, timerVars, WheelInv, WheelTypeOK, WheelConsistent, PassedInLoop, Allocated, PeriodOK
<1>3. ASSUME NEW t \in Timers, StartTimer(t) \/ ChangeTimer(t) PROVE WheelInv' /\ PeriodOK'
  <2>1. PICK rel \in RelTimes, per \in {0} \cup RelTimes : ChangeTo(t, rel, per)
    BY <1>3, Zenon DEF StartTimer, ChangeTimer
  <2>2. rel \in Int /\ per \in Int
    BY WheelAssumption
  <2>3. flag' \in [Timers -> {"free", "running", "removed"}] /\ flag'[t] # "free"
        /\ \A u \in Timers \ {t} : flag'[u] = flag[u]
    BY <1>3 DEF StartTimer, ChangeTimer, Running, WheelInv, WheelTypeOK
  <2>4. lastRun' = lastRun /\ now' = now /\ walks' = walks /\ phase' = phase /\ current' = current
    BY <1>3 DEF StartTimer, ChangeTimer
  <2>5. phase' # "ended" /\ phase' \in Phase
    BY <1>3 DEF StartTimer, ChangeTimer, ClientsRun, Phase
  <2>6. PeriodOK'
    BY <2>1, <2>2 DEF ChangeTo, PeriodOK
  <2> QED BY <2>1, <2>2, <2>3, <2>4, <2>5, <2>6, ChangeToConsistent
<1>4. ASSUME NEW t \in Timers, StopTimer(t) PROVE WheelInv' /\ PeriodOK'
  BY <1>4, StoppedConsistent DEF StopTimer, ClientsRun, Phase
<1>5. CASE StartWalk
  BY <1>5 DEF StartWalk, timerVars, WheelInv, WheelTypeOK, WheelConsistent, PassedInLoop, Allocated, PeriodOK, Phase
<1>6. ASSUME NEW t \in Timers, WalkTimer(t) PROVE WheelInv' /\ PeriodOK'
  BY <1>6, WalkTimerConsistent
<1>7. CASE ReturnFromCallback
  <2>1. phase = "callback" /\ phase' = "walk" /\ current \in Timers
        /\ now' = now /\ lastRun' = lastRun /\ walks' = walks
    BY <1>7 DEF ReturnFromCallback, WheelInv, WheelConsistent, Allocated
  <2>2. CASE Running(current) /\ ChangeTo(current, period[current], period[current]) /\ flag' = flag
    <3>1. period[current] \in Int
      BY <2>1 DEF PeriodOK
    <3>2. PeriodOK'
      BY <2>2, <3>1 DEF ChangeTo, PeriodOK
    <3>3. flag'[current] # "free" /\ flag' \in [Timers -> {"free", "running", "removed"}]
      BY <2>2 DEF Running, WheelInv, WheelTypeOK
    <3> QED BY <2>1, <2>2, <3>1, <3>2, <3>3, ChangeToConsistent DEF Phase
  <2>3. CASE Running(current) /\ Stopped(current)
    BY <2>1, <2>3, StoppedConsistent DEF Phase
  <2>4. CASE UNCHANGED timerVars
    BY <2>1, <2>4 DEF timerVars, WheelInv, WheelTypeOK, WheelConsistent, PassedInLoop, MoreSlots, Allocated, PeriodOK, Phase
  <2> QED BY <1>7, <2>2, <2>3, <2>4 DEF ReturnFromCallback
<1>8. CASE NextSlot
  BY <1>8, NextSlotConsistent
<1>9. CASE EndWalk
  BY <1>9, EndWalkConsistent
<1>10. CASE FlushTimers
  <2>1. passed = {} /\ passed' = {}
    BY <1>10 DEF FlushTimers, WheelInv, WheelConsistent
  <2> QED BY <1>10, <2>1 DEF FlushTimers, WheelInv, WheelTypeOK, WheelConsistent, PassedInLoop, Allocated, PeriodOK, Phase
<1> QED BY <1>1, <1>2, <1>3, <1>4, <1>5, <1>6, <1>7, <1>8, <1>9, <1>10 DEF Next

\* Every timer hangs in the list of its time, for any wheel and any clock:
\* whatever callbacks do to timers, their own included, no timer is lost from
\* the wheel, is in two lists, or is freed while the walk still holds it.
THEOREM TimersHangRight == Safety => []WheelConsistent
<1>1. Init => WheelInv /\ PeriodOK
  BY WheelStarts
<1>2. WheelInv /\ PeriodOK /\ [Next]_vars => (WheelInv /\ PeriodOK)'
  BY WheelKept
<1>3. WheelInv => WheelConsistent
  BY DEF WheelInv
<1> QED BY <1>1, <1>2, <1>3, PTL DEF Safety
-----------------------------------------------------------------------------
(* How late timers may be *)

\* How long ago a time was, and what is still to come.
Behind(c) == IF c <= now THEN now - c ELSE now - c + ClockMod
Ahead(t) == Behind(clock[t]) > ClockMod \div 2

\* The clock wrapped since the last walk, and this walk has not begun or will
\* find nothing to do.
Wrapped == walks = 0 /\ now < lastRun

TurnOK ==
  /\ walks \in 0 .. Slots
  /\ phase = "idle" => walks = 0
  /\ walks = 0 => Behind(lastRun) <= MaxStall
  /\ walks > 0 => lastRun - walks <= now
  /\ walked => phase \in {"idle", "ended"} /\ lastRun = now

\* A timer that became due since the last walk: this walk meets its slot.
Fresh(t) ==
  /\ IF phase = "idle" THEN Behind(clock[t]) < Behind(lastRun) ELSE Behind(clock[t]) < MaxStall
  /\ Wrapped \/ \E p \in lastRun .. now : p < lastRun + Slots - walks /\ SlotOf(p) = SlotOf(clock[t])

\* A timer that a walk skipped when the clock wrapped: the walks meet its slot
\* within a turn of the wheel.
Skipped(t) ==
  /\ Behind(clock[t]) <= 2 * MaxStall + Slots
  /\ \E p \in lastRun .. MaxStall + Slots - 2 :
       /\ p < lastRun + Slots - walks
       /\ SlotOf(p) = SlotOf(clock[t])
       /\ Behind(clock[t]) + p <= now + MaxStall + Slots

\* The timer whose callback runs was met; every other due timer will be.
TimerOK(t) ==
  /\ phase # "ended"
  /\ Ahead(t) \/ Behind(clock[t]) <= 2 * MaxStall + Slots
  /\ t \in passed => Ahead(t) \/ (phase = "callback" /\ t = current)
  /\ t \notin passed => Ahead(t) \/ Fresh(t) \/ Skipped(t)

TimelyInv == TurnOK /\ \A t \in Timers : Running(t) => TimerOK(t)

PeriodSet == period \in [Timers -> {0} \cup RelTimes]

Half == ClockMod \div 2
Late == 2 * MaxStall + Slots

LEMMA Sizes ==
  /\ ClockMod \in Nat /\ Slots \in Nat /\ MaxStall \in Nat /\ Half \in Nat /\ Late \in Nat
  /\ 0 < Slots /\ 0 < MaxStall /\ 2 * Half <= ClockMod /\ ClockMod <= 2 * Half + 1
  /\ Late = 2 * MaxStall + Slots /\ Late < ClockMod - Half
<1>1. ClockMod \in Nat /\ Slots \in Nat /\ MaxStall \in Nat /\ 0 < Slots /\ 0 < MaxStall /\ 0 < ClockMod
  BY WheelAssumption
<1>2. Half \in Nat /\ 2 * Half <= ClockMod /\ ClockMod <= 2 * Half + 1
  BY <1>1 DEF Half
<1> QED BY <1>1, <1>2, TimelyAssumption DEF Half, Late

\* Sums and differences on the clock wrap at most once.
LEMMA ClockSums ==
  /\ \A a, b \in Clock : (a + b) % ClockMod = IF a + b < ClockMod THEN a + b ELSE a + b - ClockMod
  /\ \A a, b \in Clock : (a - b) % ClockMod = IF b <= a THEN a - b ELSE a - b + ClockMod
  /\ \A a \in Clock : (a + 1) % ClockMod = IF a + 1 < ClockMod THEN a + 1 ELSE 0
<1>1. ClockMod \in Nat \ {0}
  BY WheelAssumption
<1> QED BY <1>1 DEF Clock

LEMMA SlotsTimes ==
  /\ \A a \in Nat : a = (a \div Slots) * Slots + (a % Slots) /\ a \div Slots \in Nat /\ a % Slots \in 0 .. Slots - 1
  /\ \A k \in Int : k >= 1 => k * Slots >= Slots
  /\ \A j, k \in Int : j * Slots - k * Slots = (j - k) * Slots /\ j * Slots \in Int
<1>1. Slots \in Nat \ {0}
  BY WheelAssumption
<1>2. \A a \in Nat : a = (a \div Slots) * Slots + (a % Slots) /\ a \div Slots \in Nat /\ a % Slots \in 0 .. Slots - 1
  BY <1>1
<1>3. \A k \in Int : k >= 1 => k * Slots >= Slots
  BY <1>1
<1>4. \A j, k \in Int : j * Slots - k * Slots = (j - k) * Slots /\ j * Slots \in Int
  BY <1>1
<1> QED BY <1>2, <1>3, <1>4

LEMMA Remainder ==
  ASSUME NEW q \in Nat, NEW r \in 0 .. Slots - 1, NEW a \in Nat, a = q * Slots + r
  PROVE  a % Slots = r
<1> DEFINE s == a \div Slots
           u == a % Slots
<1>1. a = s * Slots + u /\ s \in Nat /\ u \in 0 .. Slots - 1
  BY SlotsTimes
<1> HIDE DEF s, u
<1> DEFINE k == q - s
<1>2. k \in Int /\ k * Slots = u - r /\ -k \in Int /\ (-k) * Slots = r - u
  <2>1. q * Slots \in Int /\ s * Slots \in Int /\ q * Slots - s * Slots = (q - s) * Slots /\ s * Slots - q * Slots = (s - q) * Slots
    BY <1>1, SlotsTimes
  <2>2. -(q - s) = s - q
    BY <1>1
  <2> QED BY <1>1, <2>1, <2>2
<1> HIDE DEF k
<1>3. ~(k >= 1) /\ ~(-k >= 1)
  <2>1. k * Slots < Slots /\ (-k) * Slots < Slots
    BY <1>1, <1>2, Sizes
  <2> QED BY <1>2, <2>1, SlotsTimes, Sizes
<1>4. k = 0
  BY <1>2, <1>3
<1>5. u = r
  BY <1>1, <1>2, <1>4, Sizes
<1> QED BY <1>5 DEF u

\* A turn of the wheel meets every slot.
LEMMA TurnMeets ==
  ASSUME NEW l \in Nat, NEW c \in Nat
  PROVE  \E p \in l .. l + Slots - 1 : SlotOf(p) = SlotOf(c)
<1> DEFINE q == l \div Slots
           m == l % Slots
           r == c % Slots
<1>1. l = q * Slots + m /\ q \in Nat /\ m \in 0 .. Slots - 1 /\ r \in 0 .. Slots - 1
  BY SlotsTimes
<1>2. q * Slots \in Int /\ (q + 1) * Slots \in Int /\ (q + 1) * Slots - q * Slots = Slots
  <2>1. q \in Int /\ q + 1 \in Int
    BY <1>1
  <2>2. (q + 1) * Slots - q * Slots = ((q + 1) - q) * Slots /\ q * Slots \in Int /\ (q + 1) * Slots \in Int
    BY <2>1, SlotsTimes
  <2>3. (q + 1) - q = 1
    BY <2>1
  <2> QED BY <2>2, <2>3, Sizes
<1>3. SlotOf(c) = r
  BY DEF SlotOf
<1> HIDE DEF q, m, r
<1>4. CASE m <= r
  <2> DEFINE p == q * Slots + r
  <2>1. p \in l .. l + Slots - 1 /\ p \in Nat /\ p = q * Slots + r
    BY <1>1, <1>2, <1>4, Sizes
  <2> HIDE DEF p
  <2>2. p % Slots = r
    BY <2>1, <1>1, Remainder
  <2> QED BY <2>1, <2>2, <1>3 DEF SlotOf
<1>5. CASE r < m
  <2> DEFINE p == (q + 1) * Slots + r
  <2>1. p \in l .. l + Slots - 1 /\ p \in Nat /\ p = (q + 1) * Slots + r /\ q + 1 \in Nat
    BY <1>1, <1>2, <1>5, Sizes
  <2> HIDE DEF p
  <2>2. p % Slots = r
    BY <2>1, <1>1, Remainder
  <2> QED BY <2>1, <2>2, <1>3 DEF SlotOf
<1> QED BY <1>1, <1>4, <1>5

\* What olsr_isTimedOut makes of a time within half the range of the clock.
LEMMA TellsApart ==
  ASSUME WheelTypeOK, NEW t \in Timers
  PROVE  /\ Ahead(t) => ~TimedOut(clock[t])
         /\ Behind(clock[t]) <= Late => TimedOut(clock[t])
         /\ Behind(clock[t]) \in Clock
         /\ Behind(clock[t]) = (now - clock[t]) % ClockMod
<1>1. clock[t] \in Clock /\ now \in Clock
  BY DEF WheelTypeOK
<1>2. Behind(clock[t]) = (now - clock[t]) % ClockMod
  BY <1>1, ClockSums DEF Behind
<1> QED BY <1>1, <1>2, Sizes DEF Ahead, Behind, TimedOut, Half, Clock

\* A timer that is left alone stays as it is as long as the walk does.
LEMMA TimerKept ==
  ASSUME NEW u \in Timers, TimerOK(u), clock'[u] = clock[u],
         now' = now, lastRun' = lastRun, walks' = walks,
         u \in passed' <=> u \in passed,
         phase' = "idle" <=> phase = "idle", phase' # "ended",
         phase = "callback" /\ u = current => phase' = "callback" /\ current' = u
  PROVE  TimerOK(u)'
<1>1. (Ahead(u)' <=> Ahead(u)) /\ Behind(clock[u])' = Behind(clock[u]) /\ Behind(lastRun)' = Behind(lastRun)
  BY DEF Ahead, Behind
<1>2. Fresh(u)' <=> Fresh(u)
  BY <1>1 DEF Fresh, Wrapped
<1>3. Skipped(u)' <=> Skipped(u)
  BY <1>1 DEF Skipped
<1> QED BY <1>1, <1>2, <1>3 DEF TimerOK

\* olsr_change_timer puts a timer ahead of the clock.
LEMMA ChangeToTimely ==
  ASSUME WheelInv, TimelyInv, NEW t \in Timers, NEW rel \in RelTimes, NEW per, ChangeTo(t, rel, per),
         \A u \in Timers \ {t} : flag'[u] = flag[u],
         now' = now, lastRun' = lastRun, walks' = walks, walked' = walked, phase # "ended",
         \/ phase' = phase /\ current' = current
         \/ phase = "callback" /\ phase' = "walk" /\ t = current
  PROVE  TimelyInv'
<1>1. PICK r \in CalcJitter(rel) :
        /\ clock' = [clock EXCEPT ![t] = (now + r) % ClockMod]
        /\ Reinsert(t, (now + r) % ClockMod)
  BY Zenon DEF ChangeTo
<1>2. r \in 1 .. rel /\ rel \in Nat /\ rel < ClockMod - Half
  <2>1. rel \in Nat /\ 1 <= rel /\ rel < ClockMod - Half /\ JitterPct \in Nat /\ JitterPct <= 99
    BY WheelAssumption, TimelyAssumption DEF Half
  <2>2. JitterPct * rel \in Nat /\ JitterPct * rel <= 99 * rel
    BY <2>1
  <2>3. (JitterPct * rel) \div 100 < rel
    BY <2>1, <2>2
  <2>4. PICK j \in 0 .. (JitterPct * rel) \div 100 : r = rel - j
    BY <1>1 DEF CalcJitter
  <2> QED BY <2>1, <2>2, <2>3, <2>4
<1>3. now \in Clock /\ r \in Clock /\ clock \in [Timers -> Clock]
  BY <1>2, Sizes DEF WheelInv, WheelTypeOK, Clock
<1> DEFINE c == (now + r) % ClockMod
<1>4. c = IF now + r < ClockMod THEN now + r ELSE now + r - ClockMod
  BY <1>3, ClockSums
<1>5. clock' = [clock EXCEPT ![t] = c] /\ passed' = passed \ {t}
  BY <1>1 DEF Reinsert
<1> HIDE DEF c
<1>6. Behind(c) > Half
  BY <1>2, <1>3, <1>4, Sizes DEF Behind, Clock
<1>7. TimerOK(t)'
  <2>1. clock'[t] = c
    BY <1>3, <1>5
  <2>2. Ahead(t)'
    BY <1>6, <2>1 DEF Ahead, Behind, Half
  <2> QED BY <2>2, <1>5 DEF TimerOK
<1>8. ASSUME NEW u \in Timers \ {t}, Running(u)' PROVE TimerOK(u)'
  <2>1. TimerOK(u) /\ clock'[u] = clock[u] /\ u \in Timers
    BY <1>3, <1>5, <1>8 DEF TimelyInv, Running
  <2> QED BY <2>1, <1>5, <1>8, TimerKept
<1>9. TurnOK'
  BY DEF TimelyInv, TurnOK, Behind
<1> QED BY <1>7, <1>8, <1>9 DEF TimelyInv

LEMMA StoppedTimely ==
  ASSUME TimelyInv, NEW t \in Timers, Stopped(t), flag \in [Timers -> {"free", "running", "removed"}],
         now' = now, lastRun' = lastRun, walks' = walks, walked' = walked, phase # "ended",
         \/ phase' = phase /\ current' = current
         \/ phase = "callback" /\ phase' = "walk" /\ t = current
  PROVE  TimelyInv'
<1>1. flag' = [flag EXCEPT ![t] = "removed"] /\ clock' = clock /\ passed' = passed
  BY DEF Stopped
<1>2. ASSUME NEW u \in Timers, Running(u)' PROVE TimerOK(u)'
  <2>1. u # t /\ TimerOK(u)
    BY <1>1, <1>2 DEF TimelyInv, Running
  <2> QED BY <2>1, <1>1, TimerKept
<1>3. TurnOK'
  BY DEF TimelyInv, TurnOK, Behind
<1> QED BY <1>2, <1>3 DEF TimelyInv

LEMMA WalkTimerTimely ==
  ASSUME WheelInv, TimelyInv, NEW t \in Timers, WalkTimer(t)
  PROVE  TimelyInv'
<1>1. /\ phase = "walk" /\ passed' = passed \cup {t}
      /\ now' = now /\ lastRun' = lastRun /\ walks' = walks /\ flag' = flag
      /\ clock' = clock /\ walked' = walked
  BY DEF WalkTimer
<1>2. \/ phase' = "callback" /\ current' = t
      \/ phase' = "walk" /\ ~(Running(t) /\ TimedOut(clock[t]))
  BY <1>1 DEF WalkTimer
<1>3. ASSUME NEW u \in Timers, Running(u)' PROVE TimerOK(u)'
  <2>1. TimerOK(u) /\ Running(u)
    BY <1>1, <1>3 DEF TimelyInv, Running
  <2>2. CASE u # t
    BY <2>1, <2>2, <1>1, <1>2, TimerKept
  <2>3. CASE u = t
    <3>1. (Ahead(u)' <=> Ahead(u)) /\ Behind(clock[u])' = Behind(clock[u])
      BY <1>1 DEF Ahead, Behind
    <3>2. phase' = "walk" => Ahead(u)
      BY <1>2, <2>1, <2>3, TellsApart DEF TimerOK, WheelInv, Late
    <3> QED BY <1>1, <1>2, <2>1, <2>3, <3>1, <3>2 DEF TimerOK
  <2> QED BY <2>2, <2>3
<1>4. TurnOK'
  BY <1>1, <1>2 DEF TimelyInv, TurnOK, Behind
<1> QED BY <1>3, <1>4 DEF TimelyInv

\* The slot that the walk leaves holds no timer that is due.
LEMMA NextSlotTimely ==
  ASSUME WheelInv, TimelyInv, NextSlot
  PROVE  TimelyInv'
<1>1. /\ phase = "walk" /\ phase' = "walk" /\ lastRun <= now /\ walks < Slots
      /\ wheel[SlotOf(lastRun)] = {} /\ passed' = {}
      /\ lastRun' = (lastRun + 1) % ClockMod /\ walks' = walks + 1
      /\ now' = now /\ flag' = flag /\ clock' = clock /\ walked' = walked
  BY DEF NextSlot, MoreSlots, Slot
<1>2. now \in Clock /\ lastRun \in Clock /\ walks \in 0 .. Slots
  BY DEF WheelInv, WheelTypeOK, TimelyInv, TurnOK
<1>3. lastRun' = IF lastRun + 1 < ClockMod THEN lastRun + 1 ELSE 0
  BY <1>1, <1>2, ClockSums
<1>4. TurnOK'
  BY <1>1, <1>2, <1>3, Sizes DEF TimelyInv, TurnOK, Clock
<1>5. ASSUME NEW u \in Timers, Running(u)' PROVE TimerOK(u)'
  <2>1. TimerOK(u) /\ Running(u)
    BY <1>1, <1>5 DEF TimelyInv, Running
  <2>2. (Ahead(u)' <=> Ahead(u)) /\ Behind(clock[u])' = Behind(clock[u])
    BY <1>1 DEF Ahead, Behind
  <2>3. u \notin passed => SlotOf(clock[u]) # SlotOf(lastRun)
    <3>1. SlotOf(lastRun) \in 0 .. Slots - 1
      BY <1>2, ClockFacts
    <3>2. u \in wheel[SlotOf(lastRun)] <=> u \in Allocated \ passed /\ SlotOf(lastRun) = SlotOf(clock[u])
      BY <3>1 DEF WheelInv, WheelConsistent
    <3> QED BY <1>1, <2>1, <3>2 DEF Allocated, Running
  <2>4. CASE Ahead(u)
    BY <1>1, <2>1, <2>2, <2>4 DEF TimerOK
  <2>5. CASE u \notin passed /\ Fresh(u)
    <3>1. PICK p \in lastRun .. now : p < lastRun + Slots - walks /\ SlotOf(p) = SlotOf(clock[u])
      BY <1>1, <1>2, <2>5 DEF Fresh, Wrapped, Clock
    <3>2. p \in Int /\ p # lastRun
      BY <1>2, <2>3, <2>5, <3>1 DEF Clock
    <3>3. lastRun' = lastRun + 1 /\ p \in lastRun' .. now' /\ p < lastRun' + Slots - walks'
      BY <1>1, <1>2, <1>3, <3>1, <3>2, Sizes DEF Clock
    <3>4. Fresh(u)'
      BY <1>1, <2>2, <2>5, <3>1, <3>3 DEF Fresh
    <3> QED BY <1>1, <2>1, <2>2, <3>4 DEF TimerOK
  <2>6. CASE u \notin passed /\ Skipped(u)
    <3>1. PICK p \in lastRun .. MaxStall + Slots - 2 :
            /\ p < lastRun + Slots - walks /\ SlotOf(p) = SlotOf(clock[u])
            /\ Behind(clock[u]) + p <= now + MaxStall + Slots
      BY <2>6 DEF Skipped
    <3>2. p \in Int /\ p # lastRun
      BY <1>2, <2>3, <2>6, <3>1, Sizes DEF Clock
    <3>3. lastRun' = lastRun + 1 /\ p \in lastRun' .. MaxStall + Slots - 2 /\ p < lastRun' + Slots - walks'
      BY <1>1, <1>2, <1>3, <3>1, <3>2, Sizes DEF Clock
    <3>4. Skipped(u)'
      BY <1>1, <2>2, <2>6, <3>1, <3>3 DEF Skipped
    <3> QED BY <1>1, <2>1, <2>2, <3>4 DEF TimerOK
  <2> QED BY <1>1, <2>1, <2>4, <2>5, <2>6 DEF TimerOK
<1> QED BY <1>4, <1>5 DEF TimelyInv

\* When a walk ends, a timer is still due only if the clock wrapped.
LEMMA EndWalkTimely ==
  ASSUME WheelInv, TimelyInv, EndWalk
  PROVE  TimelyInv'
<1>1. /\ phase = "walk" /\ phase' = "idle" /\ now' = now /\ lastRun' = now /\ walks' = 0 /\ walked' = TRUE
      /\ ~(lastRun <= now /\ walks < Slots) /\ passed' = passed
      /\ flag' = [t \in Timers |-> IF flag[t] = "removed" THEN "free" ELSE flag[t]]
      /\ clock' = [t \in Timers |-> IF flag[t] = "removed" THEN 0 ELSE clock[t]]
  BY DEF EndWalk, Cleanup, MoreSlots
<1>2. passed = {}
  BY DEF EndWalk, WheelInv, PassedInLoop
<1>3. now \in Clock /\ lastRun \in Clock /\ walks \in 0 .. Slots
  BY DEF WheelInv, WheelTypeOK, TimelyInv, TurnOK
<1>4. TurnOK'
  <2>1. Behind(lastRun)' = 0
    BY <1>1, <1>3 DEF Behind, Clock
  <2> QED BY <1>1, <2>1, Sizes DEF TurnOK
<1>5. ASSUME NEW u \in Timers, Running(u)' PROVE TimerOK(u)'
  <2>1. TimerOK(u) /\ clock'[u] = clock[u]
    BY <1>1, <1>5 DEF TimelyInv, Running
  <2>2. (Ahead(u)' <=> Ahead(u)) /\ Behind(clock[u])' = Behind(clock[u])
    BY <1>1, <2>1 DEF Ahead, Behind
  <2>3. Behind(clock[u]) \in Nat /\ clock[u] \in Nat
    BY TellsApart DEF WheelInv, WheelTypeOK, Clock
  <2>4. CASE Ahead(u)
    BY <1>1, <1>2, <2>1, <2>2, <2>4 DEF TimerOK
  <2>5. CASE Fresh(u)
    <3>1. Wrapped
      <4> SUFFICES ASSUME NEW p \in lastRun .. now, p < lastRun + Slots - walks PROVE FALSE
        BY <2>5 DEF Fresh
      <4> QED BY <1>1, <1>3, Sizes DEF Clock
    <3>2. now + 1 <= MaxStall
      BY <1>3, <3>1, Sizes DEF Wrapped, TimelyInv, TurnOK, Behind, Clock
    <3>3. PICK p \in now .. now + Slots - 1 : SlotOf(p) = SlotOf(clock[u])
      <4>1. now \in Nat
        BY <1>3, Sizes DEF Clock
      <4> QED BY <2>3, <4>1, TurnMeets
    <3>4. Behind(clock[u]) < MaxStall
      BY <1>1, <2>5 DEF Fresh
    <3>5. p \in lastRun' .. MaxStall + Slots - 2 /\ p < lastRun' + Slots - walks'
          /\ Behind(clock[u]) + p <= now' + MaxStall + Slots /\ Behind(clock[u]) <= 2 * MaxStall + Slots
      BY <1>1, <1>3, <2>3, <3>2, <3>3, <3>4, Sizes DEF Clock
    <3>6. Skipped(u)'
      BY <2>1, <2>2, <3>3, <3>5 DEF Skipped
    <3> QED BY <1>1, <1>2, <2>2, <3>5, <3>6 DEF TimerOK
  <2>6. CASE Skipped(u)
    <3>1. PICK p \in lastRun .. MaxStall + Slots - 2 :
            /\ p < lastRun + Slots - walks /\ SlotOf(p) = SlotOf(clock[u])
            /\ Behind(clock[u]) + p <= now + MaxStall + Slots
      BY <2>6 DEF Skipped
    <3>2. now < lastRun /\ walks # 0
      BY <1>1, <1>3, <3>1, Sizes DEF TimelyInv, TurnOK, Behind, Clock
    <3>3. lastRun - walks <= now
      BY <1>3, <3>2, Sizes DEF TimelyInv, TurnOK
    <3>4. p \in lastRun' .. MaxStall + Slots - 2 /\ p < lastRun' + Slots - walks'
      BY <1>1, <1>3, <3>1, <3>2, <3>3, Sizes DEF Clock
    <3>5. Skipped(u)'
      BY <1>1, <2>1, <2>2, <2>6, <3>1, <3>4 DEF Skipped
    <3> QED BY <1>1, <1>2, <2>1, <2>2, <3>5 DEF TimerOK
  <2> QED BY <1>2, <2>1, <2>4, <2>5, <2>6 DEF TimerOK
<1> QED BY <1>4, <1>5 DEF TimelyInv

\* The clock moves on, and may wrap.
LEMMA TickTimely ==
  ASSUME WheelInv, TimelyInv, Tick
  PROVE  TimelyInv'
<1>1. /\ phase = "idle" /\ phase' = "idle" /\ walked' = FALSE /\ lastRun' = lastRun /\ walks' = walks
      /\ flag' = flag /\ clock' = clock /\ passed' = passed
  BY DEF Tick, timerVars
<1>2. PICK d \in 1 .. MaxStall : ((now - lastRun) % ClockMod) + d <= MaxStall /\ now' = (now + d) % ClockMod
  BY DEF Tick
<1>3. now \in Clock /\ lastRun \in Clock /\ walks = 0 /\ passed = {}
  BY <1>1 DEF WheelInv, WheelTypeOK, WheelConsistent, TimelyInv, TurnOK
<1>4. d \in Clock /\ d \in Nat /\ 1 <= d /\ MaxStall < ClockMod
  BY WheelAssumption DEF Clock
<1>5. now' = IF now + d < ClockMod THEN now + d ELSE now + d - ClockMod
  BY <1>2, <1>3, <1>4, ClockSums
<1>6. Behind(lastRun) + d <= MaxStall
  BY <1>2, <1>3, ClockSums DEF Behind
<1>7. Behind(lastRun)' = Behind(lastRun) + d /\ Behind(lastRun) \in Nat
  BY <1>1, <1>3, <1>4, <1>5, <1>6, Sizes DEF Behind, Clock
<1>8. TurnOK'
  BY <1>1, <1>3, <1>6, <1>7, Sizes DEF TurnOK
<1>9. ASSUME NEW u \in Timers, Running(u)' PROVE TimerOK(u)'
  <2> DEFINE c == clock[u]
  <2>1. TimerOK(u) /\ c \in Clock
    BY <1>1, <1>9 DEF TimelyInv, Running, WheelInv, WheelTypeOK
  <2>2. clock'[u] = c
    BY <1>1
  <2> HIDE DEF c
  <2>3. CASE Ahead(u) /\ Behind(c) + d < ClockMod
    <3>1. Behind(clock[u])' = Behind(c) + d
      BY <1>3, <1>4, <1>5, <2>1, <2>2, <2>3, Sizes DEF Behind, Clock
    <3>2. Ahead(u)'
      BY <1>3, <1>4, <2>1, <2>3, <3>1, Sizes DEF Ahead, Behind, Half, Clock, c
    <3> QED BY <1>1, <1>3, <3>2 DEF TimerOK
  <2>4. CASE Ahead(u) /\ Behind(c) + d >= ClockMod
    <3>1. Behind(clock[u])' = Behind(c) + d - ClockMod /\ Behind(c) < ClockMod
      BY <1>3, <1>4, <1>5, <2>1, <2>2, <2>4, Sizes DEF Behind, Clock
    <3>2. Behind(clock[u])' < Behind(lastRun)' /\ Behind(clock[u])' <= 2 * MaxStall + Slots
      <4>1. Behind(c) \in Int
        BY <1>3, <2>1, Sizes DEF Behind, Clock
      <4> QED BY <1>4, <1>6, <1>7, <3>1, <4>1, Sizes
    <3>3. CASE now' < lastRun
      <4>1. Fresh(u)'
        BY <1>1, <1>3, <3>2, <3>3 DEF Fresh, Wrapped
      <4> QED BY <1>1, <1>3, <3>2, <4>1 DEF TimerOK
    <3>4. CASE lastRun <= now'
      <4>1. c \in lastRun .. now' /\ c \in Nat /\ lastRun \in Nat /\ now' \in Nat
        BY <1>1, <1>3, <1>4, <1>5, <2>1, <2>2, <3>2, <3>4, Sizes DEF Behind, Clock
      <4>2. PICK q \in lastRun .. lastRun + Slots - 1 : SlotOf(q) = SlotOf(c)
        BY <4>1, TurnMeets
      <4>3. \E p \in lastRun .. now' : p < lastRun + Slots - walks /\ SlotOf(p) = SlotOf(c)
        <5>1. CASE q <= c
          BY <1>3, <4>1, <4>2, <5>1, Sizes
        <5>2. CASE c < q
          BY <1>3, <4>1, <4>2, <5>2, Sizes
        <5> QED BY <4>1, <4>2, <5>1, <5>2, Sizes
      <4>4. Fresh(u)'
        BY <1>1, <2>2, <3>2, <4>3 DEF Fresh
      <4> QED BY <1>1, <1>3, <3>2, <4>4 DEF TimerOK
    <3> QED BY <1>3, <1>4, <1>5, <3>3, <3>4, Sizes DEF Clock
  <2>5. CASE Fresh(u)
    <3>1. Behind(c) < Behind(lastRun) /\ Behind(c) \in Nat
      BY <1>1, <1>3, <2>1, <2>5, Sizes DEF Fresh, Behind, Clock, c
    <3>2. Behind(clock[u])' = Behind(c) + d
      BY <1>3, <1>4, <1>5, <1>6, <1>7, <2>1, <2>2, <3>1, Sizes DEF Behind, Clock
    <3>3. Behind(clock[u])' < Behind(lastRun)' /\ Behind(clock[u])' <= 2 * MaxStall + Slots
      BY <1>4, <1>6, <1>7, <3>1, <3>2, Sizes
    <3>4. CASE now' < lastRun
      <4>1. Fresh(u)'
        BY <1>1, <1>3, <3>3, <3>4 DEF Fresh, Wrapped
      <4> QED BY <1>1, <1>3, <3>3, <4>1 DEF TimerOK
    <3>5. CASE lastRun <= now'
      <4>1. lastRun <= now /\ now <= now' /\ now \in Int /\ now' \in Int
        BY <1>3, <1>4, <1>5, <1>6, <3>5, Sizes DEF Behind, Clock
      <4>2. PICK p \in lastRun .. now : p < lastRun + Slots - walks /\ SlotOf(p) = SlotOf(c)
        BY <1>3, <2>5, <4>1 DEF Fresh, Wrapped, Clock, c
      <4>3. p \in lastRun .. now'
        BY <1>3, <4>1, <4>2 DEF Clock
      <4>4. Fresh(u)'
        BY <1>1, <2>2, <3>3, <4>2, <4>3 DEF Fresh
      <4> QED BY <1>1, <1>3, <3>3, <4>4 DEF TimerOK
    <3> QED BY <1>3, <1>4, <1>5, <3>4, <3>5, Sizes DEF Clock
  <2>6. CASE Skipped(u)
    <3>1. PICK p \in lastRun .. MaxStall + Slots - 2 :
            /\ p < lastRun + Slots - walks /\ SlotOf(p) = SlotOf(c)
            /\ Behind(c) + p <= now + MaxStall + Slots
      BY <2>6 DEF Skipped, c
    <3>2. lastRun <= now /\ now + d < ClockMod /\ now' = now + d /\ now + d <= lastRun + MaxStall
      BY <1>3, <1>4, <1>5, <1>6, <3>1, Sizes DEF Behind, Clock
    <3>3. Behind(c) \in Nat /\ Behind(c) + d <= 2 * MaxStall + Slots
      BY <1>3, <1>4, <2>1, <3>1, <3>2, Sizes DEF Behind, Clock
    <3>4. Behind(clock[u])' = Behind(c) + d
      BY <1>3, <1>4, <2>1, <2>2, <3>2, <3>3, Sizes DEF Behind, Clock
    <3>5. Behind(clock[u])' + p <= now' + MaxStall + Slots
      BY <1>3, <1>4, <3>1, <3>2, <3>3, <3>4, Sizes DEF Clock
    <3>6. Skipped(u)'
      BY <1>1, <2>2, <3>1, <3>3, <3>4, <3>5 DEF Skipped
    <3> QED BY <1>1, <1>3, <3>3, <3>4, <3>6 DEF TimerOK
  <2>7. Behind(c) + d < ClockMod \/ Behind(c) + d >= ClockMod
    BY <1>3, <1>4, <2>1, Sizes DEF Behind, Clock
  <2> QED BY <1>3, <2>1, <2>3, <2>4, <2>5, <2>6, <2>7 DEF TimerOK
<1> QED BY <1>8, <1>9 DEF TimelyInv

LEMMA TimelyStarts ==
  ASSUME Init
  PROVE  TimelyInv /\ PeriodSet
<1>1. TurnOK
  BY Sizes DEF Init, TurnOK, Behind
<1>2. PeriodSet
  BY DEF Init, PeriodSet
<1> QED BY <1>1, <1>2 DEF Init, TimelyInv, Running

LEMMA TimelyKept ==
  ASSUME WheelInv, PeriodOK, TimelyInv, PeriodSet, [Next]_vars
  PROVE  TimelyInv' /\ PeriodSet'
<1>1. CASE UNCHANGED vars
  BY <1>1 DEF vars, timerVars, TimelyInv, TurnOK, TimerOK, Fresh, Skipped, Ahead, Behind, Wrapped, Running, PeriodSet
<1>2. CASE Tick
  BY <1>2, TickTimely DEF Tick, timerVars, PeriodSet
<1>3. ASSUME NEW t \in Timers, StartTimer(t) \/ ChangeTimer(t) PROVE TimelyInv' /\ PeriodSet'
  <2>1. PICK rel \in RelTimes, per \in {0} \cup RelTimes : ChangeTo(t, rel, per)
    BY <1>3, Zenon DEF StartTimer, ChangeTimer
  <2>2. /\ \A u \in Timers \ {t} : flag'[u] = flag[u]
        /\ now' = now /\ lastRun' = lastRun /\ walks' = walks /\ walked' = walked
        /\ phase' = phase /\ current' = current /\ phase # "ended"
    BY <1>3 DEF StartTimer, ChangeTimer, ClientsRun, WheelInv, WheelTypeOK
  <2>3. PeriodSet'
    BY <2>1 DEF ChangeTo, PeriodSet
  <2> QED BY <2>1, <2>2, <2>3, ChangeToTimely
<1>4. ASSUME NEW t \in Timers, StopTimer(t) PROVE TimelyInv' /\ PeriodSet'
  <2>1. PeriodSet'
    BY <1>4 DEF StopTimer, Stopped, PeriodSet
  <2> QED BY <1>4, <2>1, StoppedTimely DEF StopTimer, ClientsRun, WheelInv, WheelTypeOK
<1>5. CASE StartWalk
  <2>1. /\ phase = "idle" /\ phase' = "walk" /\ now' = now /\ lastRun' = lastRun /\ walks' = walks
        /\ walked = FALSE /\ walked' = FALSE /\ flag' = flag /\ clock' = clock /\ period' = period /\ passed' = passed
    BY <1>5 DEF StartWalk, timerVars, TimelyInv, TurnOK
  <2>2. TurnOK'
    BY <2>1 DEF TimelyInv, TurnOK, Behind
  <2>3. ASSUME NEW u \in Timers, Running(u)' PROVE TimerOK(u)'
    <3>1. TimerOK(u)
      BY <2>1, <2>3 DEF TimelyInv, Running
    <3>2. (Ahead(u)' <=> Ahead(u)) /\ Behind(clock[u])' = Behind(clock[u])
      BY <2>1 DEF Ahead, Behind
    <3>3. Behind(lastRun) <= MaxStall /\ Behind(lastRun) \in Int /\ Behind(clock[u]) \in Int
      BY <2>1, Sizes DEF TimelyInv, TurnOK, WheelInv, WheelTypeOK, Behind, Clock
    <3>4. Fresh(u) => Fresh(u)'
      BY <2>1, <3>2, <3>3, Sizes DEF Fresh, Wrapped
    <3>5. Skipped(u) => Skipped(u)'
      BY <2>1, <3>2 DEF Skipped
    <3> QED BY <2>1, <3>1, <3>2, <3>4, <3>5 DEF TimerOK
  <2> QED BY <2>1, <2>2, <2>3 DEF TimelyInv, PeriodSet
<1>6. ASSUME NEW t \in Timers, WalkTimer(t) PROVE TimelyInv' /\ PeriodSet'
  BY <1>6, WalkTimerTimely DEF WalkTimer, PeriodSet
<1>7. CASE ReturnFromCallback
  <2>1. /\ phase = "callback" /\ phase' = "walk" /\ current \in Timers
        /\ now' = now /\ lastRun' = lastRun /\ walks' = walks /\ walked' = walked
    BY <1>7 DEF ReturnFromCallback, WheelInv, WheelConsistent, Allocated
  <2>2. CASE period[current] # 0 /\ ChangeTo(current, period[current], period[current]) /\ flag' = flag
    <3>1. period[current] \in RelTimes
      BY <2>1, <2>2 DEF PeriodSet
    <3>2. PeriodSet'
      BY <2>2, <3>1 DEF ChangeTo, PeriodSet
    <3> QED BY <2>1, <2>2, <3>1, <3>2, ChangeToTimely
  <2>3. CASE Running(current) /\ Stopped(current)
    <3>1. PeriodSet'
      BY <2>3 DEF Stopped, PeriodSet
    <3> QED BY <2>1, <2>3, <3>1, StoppedTimely DEF WheelInv, WheelTypeOK
  <2>4. CASE ~Running(current) /\ UNCHANGED timerVars
    <3>1. flag' = flag /\ clock' = clock /\ passed' = passed /\ period' = period
      BY <2>4 DEF timerVars
    <3>2. ASSUME NEW u \in Timers, Running(u)' PROVE TimerOK(u)'
      <4>1. u # current /\ TimerOK(u)
        BY <2>4, <3>1, <3>2 DEF TimelyInv, Running
      <4> QED BY <2>1, <3>1, <4>1, TimerKept
    <3>3. TurnOK'
      BY <2>1 DEF TimelyInv, TurnOK, Behind
    <3> QED BY <3>1, <3>2, <3>3 DEF TimelyInv, PeriodSet
  <2> QED BY <1>7, <2>2, <2>3, <2>4 DEF ReturnFromCallback
<1>8. CASE NextSlot
  BY <1>8, NextSlotTimely DEF NextSlot, PeriodSet
<1>9. CASE EndWalk
  <2>1. PeriodSet'
    BY <1>9 DEF EndWalk, Cleanup, PeriodSet
  <2> QED BY <1>9, <2>1, EndWalkTimely
<1>10. CASE FlushTimers
  <2>1. TurnOK'
    BY <1>10 DEF FlushTimers, TimelyInv, TurnOK, Behind
  <2>2. \A u \in Timers : ~Running(u)'
    BY <1>10 DEF FlushTimers, Running
  <2> QED BY <1>10, <2>1, <2>2 DEF FlushTimers, TimelyInv, PeriodSet
<1> QED BY <1>1, <1>2, <1>3, <1>4, <1>5, <1>6, <1>7, <1>8, <1>9, <1>10 DEF Next

AllInv == WheelInv /\ PeriodOK /\ TimelyInv /\ PeriodSet

LEMMA AlwaysTimely == Safety => []AllInv
<1>1. Init => AllInv
  BY WheelStarts, TimelyStarts DEF AllInv
<1>2. AllInv /\ [Next]_vars => AllInv'
  BY WheelKept, TimelyKept DEF AllInv
<1> QED BY <1>1, <1>2, PTL DEF Safety

\* No running timer is ever late by more than two rounds of the main loop and a
\* turn of the wheel, for any wheel and any clock: not when callbacks set timers
\* while the walk goes on, not when a walk stops after a turn, and not when the
\* clock wraps and walk_timers skips the slots between its last run and now.
THEOREM NoTimerVeryLate == Safety => []NeverVeryLate
<1>1. AllInv => NeverVeryLate
  <2> SUFFICES ASSUME AllInv, NEW t \in Timers, Running(t), TimedOut(clock[t])
               PROVE  (now - clock[t]) % ClockMod <= 2 * MaxStall + Slots
    BY DEF NeverVeryLate
  <2>1. TimerOK(t) /\ WheelTypeOK
    BY DEF AllInv, TimelyInv, WheelInv
  <2> QED BY <2>1, TellsApart DEF TimerOK, Late
<1> QED BY <1>1, AlwaysTimely, PTL

\* After a walk no running timer is due, except within a turn of the wheel after
\* the clock wrapped.
THEOREM WalkLeavesNoneDue == Safety => []NoneOverdue
<1>1. AllInv => NoneOverdue
  <2> SUFFICES ASSUME AllInv, walked, now >= MaxStall + Slots, NEW t \in Timers, Running(t)
               PROVE  ~TimedOut(clock[t])
    BY DEF NoneOverdue
  <2>1. /\ TimerOK(t) /\ TurnOK /\ WheelTypeOK /\ phase \in {"idle", "ended"} /\ lastRun = now
        /\ passed = {} /\ now \in Clock
    BY DEF AllInv, TimelyInv, TurnOK, WheelInv, WheelTypeOK, WheelConsistent
  <2>2. Behind(lastRun) = 0 /\ Behind(clock[t]) \in Nat
    BY <2>1, TellsApart, Sizes DEF Behind, Clock
  <2>3. ~Skipped(t)
    BY <2>1, Sizes DEF Skipped, Clock
  <2>4. phase = "idle" => ~Fresh(t)
    BY <2>2 DEF Fresh
  <2> QED BY <2>1, <2>3, <2>4, TellsApart DEF TimerOK
<1> QED BY <1>1, AlwaysTimely, PTL
=============================================================================
