----------------------------- MODULE TimerWheel -----------------------------
(***************************************************************************)
(* The timers of the daemon. A timer hangs in the slot of a wheel that its *)
(* expiry time selects. The main loop reads the clock, lets messages       *)
(* start, change and stop timers, and walks the slots between the last     *)
(* walk and now. Callbacks start, change and stop timers, too, their own   *)
(* included. A stopped timer is freed only after the walk.                 *)
(* (src/src/scheduler.c)                                                   *)
(*                                                                         *)
(* Clients use only running timers: they forget a timer when they stop it  *)
(* or when it fires. Within a slot the timers may fire in any order.       *)
(***************************************************************************)
EXTENDS Integers

CONSTANTS
  Timers,       \* blocks of memory for timers
  NoTimer,      \* none of them
  Slots,        \* TIMER_WHEEL_SLOTS
  ClockMod,     \* the clock wraps at this value
  MaxStall,     \* bound on the time between two walks
  RelTimes,     \* times for which timers are set
  JitterPct     \* timer_jitter_pct

ASSUME WheelAssumption ==
  /\ NoTimer \notin Timers
  /\ Slots \in Nat \ {0}
  /\ ClockMod \in Nat \ {0} /\ ClockMod % Slots = 0
  /\ MaxStall \in 1 .. ClockMod - 1
  /\ RelTimes \subseteq 1 .. ClockMod - 1
  /\ JitterPct \in 0 .. 99

\* Times on the clock are told apart up to half its range: no timer is set for
\* longer, and the main loop does not fall that far behind.
ASSUME TimelyAssumption ==
  /\ \A rel \in RelTimes : rel < ClockMod - ClockMod \div 2
  /\ 2 * MaxStall + Slots < ClockMod - ClockMod \div 2

VARIABLES
  now,       \* now_times
  lastRun,   \* timer_last_run
  walks,     \* wheel_slot_walks
  phase,     \* what the main loop does
  current,   \* the timer whose callback runs
  flag,      \* timer_flags, or "free" for unused memory
  clock,     \* timer_clock
  period,    \* timer_period, 0 for a single shot
  wheel,     \* the timers in each slot
  passed,    \* the temporary list of a walk
  walked     \* there was a walk since the clock was read (history)

timerVars == <<flag, clock, period, wheel, passed>>
vars == <<now, lastRun, walks, phase, current, timerVars, walked>>

Clock == 0 .. ClockMod - 1
Phase == {"idle", "walk", "callback", "ended"}
SlotOf(c) == c % Slots

\* olsr_isTimedOut: not later than now, or so far away that the clock wrapped.
TimedOut(c) ==
  IF c > now THEN c - now > ClockMod \div 2 ELSE now - c <= ClockMod \div 2

\* Mutant of CalcJitter: the jitter may use up the whole time.
CalcJitterAll(rel) == {rel - j : j \in 0 .. rel}

\* calc_jitter: the time is shortened by a random part of it.
CalcJitter(rel) == {rel - j : j \in 0 .. (JitterPct * rel) \div 100}

Running(t) == flag[t] = "running"
Allocated == {t \in Timers : flag[t] # "free"}

\* list_remove from whatever list the timer is in, and insertion at slot s.
Rehash(t, s) == [i \in 0 .. Slots - 1 |-> IF i = s THEN wheel[i] \cup {t} ELSE wheel[i] \ {t}]

\* Mutant of Reinsert: the timer stays in its slot.
ReinsertHere(t, c) ==
  /\ wheel' = wheel
  /\ passed' = passed

Reinsert(t, c) ==
  /\ wheel' = Rehash(t, SlotOf(c))
  /\ passed' = passed \ {t}

\* olsr_change_timer
ChangeTo(t, rel, per) ==
  \E r \in CalcJitter(rel) :
    LET c == (now + r) % ClockMod
    IN  /\ clock' = [clock EXCEPT ![t] = c]
        /\ period' = [period EXCEPT ![t] = per]
        /\ Reinsert(t, c)
----------------------------------------------------------------------------
Init ==
  /\ now = 0 /\ lastRun = 0 /\ walks = 0
  /\ phase = "idle" /\ current = NoTimer
  /\ flag = [t \in Timers |-> "free"]
  /\ clock = [t \in Timers |-> 0] /\ period = [t \in Timers |-> 0]
  /\ wheel = [i \in 0 .. Slots - 1 |-> {}] /\ passed = {}
  /\ walked = FALSE

\* The main loop and handle_fds read the clock. A round in which the clock has
\* not moved on finds no timer that the round before did not find.
Tick ==
  /\ phase = "idle"
  /\ \E d \in 1 .. MaxStall :
       /\ ((now - lastRun) % ClockMod) + d <= MaxStall
       /\ now' = (now + d) % ClockMod
  /\ walked' = FALSE
  /\ UNCHANGED <<lastRun, walks, phase, current, timerVars>>

\* Messages and callbacks use timers.
ClientsRun == phase \in {"idle", "callback"}

StartTimer(t) ==
  /\ ClientsRun /\ flag[t] = "free"
  /\ flag' = [flag EXCEPT ![t] = "running"]
  /\ \E rel \in RelTimes : ChangeTo(t, rel, 0) \/ ChangeTo(t, rel, rel)
  /\ UNCHANGED <<now, lastRun, walks, phase, current, walked>>

ChangeTimer(t) ==
  /\ ClientsRun /\ Running(t)
  /\ \E rel \in RelTimes : ChangeTo(t, rel, 0) \/ ChangeTo(t, rel, rel)
  /\ UNCHANGED <<now, lastRun, walks, phase, current, flag, walked>>

\* olsr_stop_timer only tags the timer.
Stopped(t) ==
  /\ flag' = [flag EXCEPT ![t] = "removed"]
  /\ UNCHANGED <<clock, period, wheel, passed>>

StopTimer(t) ==
  /\ ClientsRun /\ Running(t)
  /\ Stopped(t)
  /\ UNCHANGED <<now, lastRun, walks, phase, current, walked>>
----------------------------------------------------------------------------
StartWalk ==
  /\ phase = "idle" /\ ~walked
  /\ phase' = "walk"
  /\ UNCHANGED <<now, lastRun, walks, current, timerVars, walked>>

\* The condition of the outer loop of walk_timers.
MoreSlots == lastRun <= now /\ walks < Slots

Slot == wheel[SlotOf(lastRun)]

\* The walk moves a timer of the slot to the temporary list, and calls back if
\* the timer is due and not stopped.
WalkTimer(t) ==
  /\ phase = "walk" /\ MoreSlots /\ t \in Slot
  /\ wheel' = [wheel EXCEPT ![SlotOf(lastRun)] = @ \ {t}]
  /\ passed' = passed \cup {t}
  /\ IF Running(t) /\ TimedOut(clock[t])
     THEN phase' = "callback" /\ current' = t
     ELSE UNCHANGED <<phase, current>>
  /\ UNCHANGED <<now, lastRun, walks, flag, clock, period, walked>>

\* After the callback a periodic timer is restarted and a single shot stopped,
\* unless the callback stopped it.
ReturnFromCallback ==
  /\ phase = "callback"
  /\ phase' = "walk" /\ current' = NoTimer
  /\ \/ /\ Running(current) /\ period[current] # 0
        /\ ChangeTo(current, period[current], period[current])
        /\ UNCHANGED flag
     \/ /\ Running(current) /\ period[current] = 0
        /\ Stopped(current)
     \/ /\ ~Running(current)
        /\ UNCHANGED timerVars
  /\ UNCHANGED <<now, lastRun, walks, walked>>

\* Mutant of NextSlot: the temporary list is lost.
NextSlotOnly ==
  /\ phase = "walk" /\ MoreSlots /\ Slot = {}
  /\ passed' = {}
  /\ lastRun' = (lastRun + 1) % ClockMod
  /\ walks' = walks + 1
  /\ UNCHANGED <<now, phase, current, flag, clock, period, wheel, walked>>

\* The slot is empty: the temporary list becomes its list.
NextSlot ==
  /\ phase = "walk" /\ MoreSlots /\ Slot = {}
  /\ wheel' = [wheel EXCEPT ![SlotOf(lastRun)] = passed]
  /\ passed' = {}
  /\ lastRun' = (lastRun + 1) % ClockMod
  /\ walks' = walks + 1
  /\ UNCHANGED <<now, phase, current, flag, clock, period, walked>>

\* walk_timers_cleanup frees the stopped timers; what a free block holds does
\* not matter.
Cleanup ==
  /\ flag' = [t \in Timers |-> IF flag[t] = "removed" THEN "free" ELSE flag[t]]
  /\ wheel' = [i \in 0 .. Slots - 1 |-> {t \in wheel[i] : flag[t] # "removed"}]
  /\ clock' = [t \in Timers |-> IF flag[t] = "removed" THEN 0 ELSE clock[t]]
  /\ period' = [t \in Timers |-> IF flag[t] = "removed" THEN 0 ELSE period[t]]
  /\ UNCHANGED passed

EndWalk ==
  /\ phase = "walk" /\ ~MoreSlots
  /\ phase' = "idle" /\ walks' = 0
  /\ lastRun' = now
  /\ walked' = TRUE
  /\ Cleanup
  /\ UNCHANGED <<now, current>>

\* olsr_flush_timers, when the daemon shuts down
FlushTimers ==
  /\ phase = "idle"
  /\ phase' = "ended"
  /\ flag' = [t \in Timers |-> "free"]
  /\ wheel' = [i \in 0 .. Slots - 1 |-> {}]
  /\ UNCHANGED <<now, lastRun, walks, current, clock, period, passed, walked>>

Next ==
  \/ Tick
  \/ \E t \in Timers : StartTimer(t) \/ ChangeTimer(t) \/ StopTimer(t)
  \/ StartWalk
  \/ \E t \in Timers : WalkTimer(t)
  \/ ReturnFromCallback
  \/ NextSlot
  \/ EndWalk
  \/ FlushTimers

\* The clock runs, the main loop goes round and callbacks return.
Fairness ==
  /\ WF_vars(Tick) /\ WF_vars(StartWalk) /\ WF_vars(\E t \in Timers : WalkTimer(t))
  /\ WF_vars(ReturnFromCallback) /\ WF_vars(NextSlot) /\ WF_vars(EndWalk)

Safety == Init /\ [][Next]_vars
Spec == Safety /\ Fairness
----------------------------------------------------------------------------
\* Where a timer hangs: every timer in use is in exactly one list, that of the
\* slot of its time, or in the temporary list while the walk is in that slot.
\* The timer of a callback is not freed before the walk is done with it.
WheelConsistent ==
  /\ \A t \in Timers, i \in 0 .. Slots - 1 :
       t \in wheel[i] <=> t \in Allocated \ passed /\ i = SlotOf(clock[t])
  /\ passed \subseteq {t \in Allocated : SlotOf(clock[t]) = SlotOf(lastRun)}
  /\ phase \in {"idle", "ended"} => passed = {}
  /\ phase = "callback" => current \in Allocated

\* After a walk no running timer is due, however timers were set before and
\* during the walk: only when the clock wrapped, at most one turn of the wheel
\* ago, a timer may still wait, because walk_timers finds its last run to be
\* later than now and skips the slots between.
NoneOverdue ==
  walked /\ now >= MaxStall + Slots => \A t \in Timers : Running(t) => ~TimedOut(clock[t])

\* A walk ends, although callbacks may put timers back into the very slot that
\* is being walked.
WalkEnds == phase = "walk" ~> phase \in {"idle", "ended"}

\* No running timer is ever late by more than two rounds of the main loop and
\* a turn of the wheel, even when its slot was skipped because the clock wrapped.
NeverVeryLate ==
  \A t \in Timers :
    Running(t) /\ TimedOut(clock[t]) => (now - clock[t]) % ClockMod <= 2 * MaxStall + Slots
=============================================================================
