------------------------------- MODULE Secure -------------------------------
(***************************************************************************)
(* The plugin that signs packets (lib/secure/src/olsrd_secure.c): before a *)
(* node takes packets of another one it negotiates the difference of the   *)
(* two clocks by a challenge, a response and a response to the response.   *)
(* Two nodes with the same key, so every signature is right; packets get   *)
(* lost and cross, nodes restart.  A packet is delivered or lost within    *)
(* the second it is sent in, and a node sends one OLSR packet a second.    *)
(*                                                                         *)
(* Time passes in seconds.  The plugin reads the clock every Period        *)
(* seconds only, and works with what it read last (now).  Times are kept   *)
(* relative to the present second; before the first reading now is 0, that *)
(* is, Epoch seconds ago.                                                  *)
(***************************************************************************)
EXTENDS Integers, FiniteSets, FiniteSetsExt

CONSTANTS
  Nodes,        (* the two nodes                                           *)
  None,
  Period,       (* timeout_timestamps runs every 2 seconds                 *)
  ExchangeHold, (* EXCHANGE_HOLD_TIME                                      *)
  TimestampHold,(* TIMESTAMP_HOLD_TIME                                     *)
  Slack,        (* UPPER_DIFF, -LOWER_DIFF                                 *)
  Epoch,        (* the age of the epoch                                    *)
  MaxRestarts   (* bound: restarts                                         *)

VARIABLES
  age,          (* seconds since a node read its clock, or since its start *)
  read,         (* the nodes that have read their clock                    *)
  stamp,        (* timestamps: each node's entry for the other             *)
  air,          (* packets                                                 *)
  heap,         (* what an uninitialised valtime means: "past" or "future" *)
  spoken,       (* the nodes that sent an OLSR packet in this second       *)
  restarts

vars == <<age, read, stamp, air, heap, spoken, restarts>>

Other(n) == CHOOSE m \in Nodes : m # n
Now(n) == IF n \in read THEN 0 - age[n] ELSE 0 - Epoch

(* A challenge is a fresh random number; 0 is none.                        *)
Fresh ==
  LET used == {p.chal : p \in air} \cup {p.res : p \in air}
              \cup {stamp[n].challenge : n \in {m \in Nodes : stamp[m] # None}}
  IN  CHOOSE c \in 1 .. 9 : c \notin used /\ \A d \in 1 .. c - 1 : d \in used

(* net_output with add_signature                                           *)
Packet(kind, from, chal, res) == [kind |-> kind, from |-> from, ts |-> Now(from), chal |-> chal, res |-> res]

(* An entry as malloc returns it has a valtime nobody set.                 *)
NewEntry == [diff |-> 0, validated |-> FALSE, challenge |-> 0, conf |-> 0,
             val |-> IF heap = "past" THEN 0 ELSE TimestampHold + 1]

(* parse_challenge and send_cres: the entry of the challenger, the         *)
(* challenge that goes back with the answer; while an exchange is under    *)
(* way a challenge is dropped.                                             *)
Challenged(e, c) ==
  IF e # None /\ e.conf > 0 THEN e
  ELSE [(IF e = None THEN NewEntry ELSE e) EXCEPT
          !.diff = 0, !.validated = FALSE, !.challenge = c, !.conf = ExchangeHold]

(* parse_cres and parse_rres: the answer is the one to our challenge.      *)
Answered(e, p, lag) ==
  IF e = None \/ e.challenge # p.res THEN e
  ELSE [e EXCEPT !.challenge = 0, !.validated = TRUE, !.diff = lag, !.val = TimestampHold]

SendChallenge(n, c) == Packet("challenge", n, c, 0)
SendCres(n, c, chal) == Packet("cres", n, c, chal)
SendRres(n, chal) == Packet("rres", n, 0, chal)

(* The entry afterwards, and what is sent.                                 *)
ParseChallenge(n, p) ==
  LET e == Challenged(stamp[n], Fresh)
  IN  [entry |-> e, out |-> IF e = stamp[n] THEN {} ELSE {SendCres(n, Fresh, p.chal)}]
ParseCres(n, p, lag) ==
  LET e == Answered(stamp[n], p, lag)
  IN  [entry |-> e, out |-> IF e = stamp[n] THEN {} ELSE {SendRres(n, p.chal)}]
ParseRres(n, p, lag) == [entry |-> Answered(stamp[n], p, lag), out |-> {}]

CheckAuth(n, p, lag) ==
  CASE p.kind = "challenge" -> ParseChallenge(n, p)
    [] p.kind = "cres" -> ParseCres(n, p, lag)
    [] p.kind = "rres" -> ParseRres(n, p, lag)
    [] OTHER -> [entry |-> stamp[n], out |-> {}]

(* C division *)
Halve(x) == IF x >= 0 THEN x \div 2 ELSE 0 - ((0 - x) \div 2)

(* check_timestamp, with the entry that send_challenge makes               *)
CheckTimestamp(n, e, lag) ==
  IF e = None THEN [NewEntry EXCEPT !.challenge = Fresh, !.conf = ExchangeHold]
  ELSE IF ~e.validated \/ e.diff - lag > Slack \/ e.diff - lag < 0 - Slack THEN e
  ELSE [e EXCEPT !.diff = Halve(lag + e.diff), !.val = TimestampHold]

(* validate_packet: nodes that share the key sign their packets correctly, *)
(* and the time stamp decides.  The entry afterwards, and what is sent.    *)
ValidatePacket(n, e, lag) ==
  LET f == CheckTimestamp(n, e, lag)
  IN  [entry |-> f, out |-> IF e = None THEN {SendChallenge(n, f.challenge)} ELSE {}]

(* secure_preprocessor *)
Receive(n, p) ==
  LET lag == Now(n) - p.ts
      auth == CheckAuth(n, p, lag)
      valid == ValidatePacket(n, auth.entry, lag)
  IN  /\ p \in air /\ p.from # n
      /\ stamp' = [stamp EXCEPT ![n] = valid.entry]
      /\ air' = (air \ {p}) \cup auth.out \cup valid.out
      /\ UNCHANGED <<age, read, heap, spoken, restarts>>

(* An OLSR packet is sent.                                                 *)
NetOutput(n) ==
  /\ n \notin spoken
  /\ spoken' = spoken \cup {n}
  /\ air' = air \cup {Packet("data", n, 0, 0)}
  /\ UNCHANGED <<age, read, stamp, heap, restarts>>

Lose(p) ==
  /\ p \in air
  /\ air' = air \ {p}
  /\ UNCHANGED <<age, read, stamp, heap, spoken, restarts>>

(* Mutant of TimeoutTimestamps: only entries that were validated time out. *)
TimeoutTimestampsValid(n) ==
  /\ age[n] = Period
  /\ age' = [age EXCEPT ![n] = 0]
  /\ read' = read \cup {n}
  /\ stamp' = [stamp EXCEPT ![n] =
                 IF @ # None /\ @.validated /\ @.val = 0 /\ @.conf = 0 THEN None ELSE @]
  /\ UNCHANGED <<air, heap, spoken, restarts>>

(* timeout_timestamps *)
TimeoutTimestamps(n) ==
  /\ age[n] = Period
  /\ age' = [age EXCEPT ![n] = 0]
  /\ read' = read \cup {n}
  /\ stamp' = [stamp EXCEPT ![n] = IF @ # None /\ @.val = 0 /\ @.conf = 0 THEN None ELSE @]
  /\ UNCHANGED <<air, heap, spoken, restarts>>

(* A second passes.                                                        *)
Older(e) ==
  IF e = None THEN None
  ELSE [e EXCEPT !.conf = Max({0, @ - 1}), !.val = IF @ > TimestampHold THEN @ ELSE Max({0, @ - 1})]
Tick ==
  /\ \A n \in Nodes : age[n] < Period
  /\ air = {}
  /\ age' = [n \in Nodes |-> age[n] + 1]
  /\ stamp' = [n \in Nodes |-> Older(stamp[n])]
  /\ spoken' = {}
  /\ UNCHANGED <<read, air, heap, restarts>>

Restart(n) ==
  /\ restarts < MaxRestarts
  /\ restarts' = restarts + 1
  /\ age' = [age EXCEPT ![n] = 0]
  /\ read' = read \ {n}
  /\ stamp' = [stamp EXCEPT ![n] = None]
  /\ UNCHANGED <<air, heap, spoken>>

Init ==
  /\ age \in [Nodes -> 0 .. Period - 1]
  /\ read = {} /\ stamp = [n \in Nodes |-> None]
  /\ air = {} /\ heap \in {"past", "future"} /\ spoken = {} /\ restarts = 0

Next ==
  \/ \E n \in Nodes : \E p \in air : Receive(n, p)
  \/ \E n \in Nodes : NetOutput(n)
  \/ \E p \in air : Lose(p)
  \/ \E n \in Nodes : TimeoutTimestamps(n)
  \/ Tick
  \/ \E n \in Nodes : Restart(n)

(* One type invariant: time stamp entries stay within their hold times.    *)
TypeOK ==
  /\ age \in [Nodes -> 0 .. Period] /\ read \subseteq Nodes
  /\ \A n \in Nodes : stamp[n] # None =>
       stamp[n].conf \in 0 .. ExchangeHold /\ stamp[n].val \in 0 .. TimestampHold + 1
  /\ spoken \subseteq Nodes /\ Cardinality(air) <= 2

(* Clocks that are read two seconds apart, and a difference that is        *)
(* averaged with every packet, never add up: a difference is the age of    *)
(* the epoch, when one of the clocks had not been read, or within the      *)
(* period of reading.                                                      *)
DiffBounded ==
  \A n \in Nodes : (stamp[n] # None /\ stamp[n].validated) =>
    \E d \in {0 - Epoch, 0, Epoch} : stamp[n].diff - d \in (0 - Period) .. Period

(* Time passes and the timer fires; a packet is delivered or lost.         *)
Fairness ==
  /\ WF_vars(Tick) /\ WF_vars(\E p \in air : Lose(p) \/ \E n \in Nodes : Receive(n, p))
  /\ \A n \in Nodes : WF_vars(TimeoutTimestamps(n))
Spec == Init /\ [][Next]_vars /\ Fairness

(* "Seconds to cache a not verified timestamp entry" (EXCHANGE_HOLD_TIME): *)
(* whatever gets lost, exchanges that are not completed are forgotten: the *)
(* two nodes do not both hold on to one, each dropping the other's packets *)
(* and challenging no more.                                                *)
NotBothWaiting == []<>(\E n \in Nodes : stamp[n] = None \/ stamp[n].validated)
(* It holds where the uninitialised valtime happens to be in the past.     *)
NotBothWaitingIfPast == heap = "past" => NotBothWaiting
=============================================================================
