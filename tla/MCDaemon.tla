------------------------------- MODULE MCDaemon -------------------------------
(* What a daemon does by itself over time, three systems side by side: two   *)
(* timers in a wheel of two slots; two interfaces, the address of the first  *)
(* of which may change; and two nodes whose secure plugins sign their        *)
(* packets.                                                                  *)
EXTENDS TimerWheel

CONSTANTS if1, if2, n1, None, a1, b1

VARIABLES part, iKern, iNl, iD, iAt, iAllow, iPlugin, iEvents, sAge, sRead,
  sStamp, sAir, sHeap, sSpoken, sRestarts

MCOrder == <<if1, if2>>
MCAddrs == [i \in {if1, if2} |-> IF i = if1 THEN {1, 2} ELSE {3}]

iVars == <<iKern, iNl, iD, iAt, iAllow, iPlugin, iEvents>>
D == INSTANCE Interfaces WITH Order <- MCOrder, Addrs <- MCAddrs,
  Neighbors <- {n1}, Detected <- {if1, if2}, MaxEvents <- 2, MaxFailures <- 1,
  kern <- iKern, nl <- iNl, d <- iD, at <- iAt, allow <- iAllow,
  plugin <- iPlugin, events <- iEvents

sVars == <<sAge, sRead, sStamp, sAir, sHeap, sSpoken, sRestarts>>
S == INSTANCE Secure WITH Nodes <- {a1, b1}, Period <- 2, ExchangeHold <- 2,
  TimestampHold <- 3, Slack <- 3, Epoch <- 100, MaxRestarts <- 1, age <- sAge,
  read <- sRead, stamp <- sStamp, air <- sAir, heap <- sHeap,
  spoken <- sSpoken, restarts <- sRestarts

allVars == <<part, vars, iVars, sVars>>

(* One of the systems runs; the others do not exist.                       *)
MCInit ==
  /\ part \in {"timers", "interfaces", "secure"}
  /\ Init
  /\ IF part = "interfaces" THEN D!Init
       ELSE /\ iKern = "none" /\ iNl = "none" /\ iD = "none" /\ iAt = "none"
            /\ iAllow = "none" /\ iPlugin = "none" /\ iEvents = "none"
  /\ IF part = "secure" THEN S!Init
       ELSE /\ sAge = "none" /\ sRead = "none" /\ sStamp = "none"
            /\ sAir = "none" /\ sHeap = "none" /\ sSpoken = "none"
            /\ sRestarts = "none"

MCNext ==
  \/ part = "timers" /\ Next /\ UNCHANGED <<part, iVars, sVars>>
  \/ part = "interfaces" /\ D!Next /\ UNCHANGED <<part, vars, sVars>>
  \/ part = "secure" /\ S!Next /\ UNCHANGED <<part, vars, iVars>>

MCFairness ==
  /\ WF_vars(part = "timers" /\ Tick)
  /\ WF_vars(part = "timers" /\ StartWalk)
  /\ WF_vars(part = "timers" /\ \E t \in Timers : WalkTimer(t))
  /\ WF_vars(part = "timers" /\ ReturnFromCallback)
  /\ WF_vars(part = "timers" /\ NextSlot)
  /\ WF_vars(part = "timers" /\ EndWalk)
  /\ []<>(part # "interfaces" \/ iD.state # "running" \/ D!Waits # {}) \/ []<><<TRUE>>_iAt
  /\ []<>(part = "interfaces" /\ iAt.pass = "timers") => []<>(part = "interfaces" /\ iAt.pass = "checked")
  /\ []<>(part = "interfaces" /\ iAt.pass = "imm" /\ iAt.next > 0 /\ D!Due = {})
       => []<>(part = "interfaces" /\ iAt.pass = "poll")
  /\ WF_sVars(part = "secure" /\ S!Tick)
  /\ WF_sVars(part = "secure" /\ \E p \in sAir : S!Lose(p) \/ \E n \in {a1, b1} : S!Receive(n, p))
  /\ \A n \in {a1, b1} : WF_sVars(part = "secure" /\ S!TimeoutTimestamps(n))
MCSpec == MCInit /\ [][MCNext]_allVars /\ MCFairness
-----------------------------------------------------------------------------
(* Sockets are neither lost nor used after they are closed, and every        *)
(* registered handler belongs to an open socket of its component, one per    *)
(* socket, however descriptors were reused; and BMF holds no pointer to an   *)
(* OLSR interface that was freed.                                            *)
HandlersMatch == part = "interfaces" => D!TypeOK /\ D!HandlersMatch /\ D!BmfPointsToLive

(* The daemon comes to have the interfaces the kernel has, and BMF too;      *)
(* unless it ends, or waits in a handler of BMF.                             *)
InterfacesTracked == <>[](part = "interfaces" => iD.state # "running" \/ D!Waits # {} \/ D!Tracks)

(* Exchanges that are not completed are forgotten: two nodes do not both     *)
(* hold on to one, where the uninitialised valtime happens to be in the      *)
(* past; and the differences of clocks they agree on never add up.           *)
NotBothWaitingIfPast ==
  /\ [](part = "secure" => S!TypeOK /\ S!DiffBounded)
  /\ []<>(part = "secure" /\ sHeap = "past" => \E n \in {a1, b1} : sStamp[n] = None \/ sStamp[n].validated)
=============================================================================
