-------------------------------- MODULE DeDup --------------------------------
(***************************************************************************)
(* What the de-duplication list of the position plugin promises            *)
(* (lib/pud/src/dedup.h): a message is taken unless it is one of the last  *)
(* Depth messages that were taken.  Those are the window, the newest       *)
(* first.  A packet from the downlink brings up to two messages at once.   *)
(***************************************************************************)
EXTENDS Integers, Sequences

CONSTANTS Messages, Depth

VARIABLE window

InWindow(w, m) == \E k \in DOMAIN w : w[k] = m

\* The window with m in front; the oldest falls out of a full one.
Push(w, m) ==
  [k \in 1 .. (IF Len(w) < Depth THEN Len(w) + 1 ELSE Depth) |->
     IF k = 1 THEN m ELSE w[k - 1]]

Take(w, m) == IF InWindow(w, m) THEN w ELSE Push(w, m)

Init == window = <<>>

\* What arrives may be of another kind, too, and leaves the window alone.
Next ==
  \/ window' = window
  \/ \E m \in Messages :
       \/ window' = Take(window, m)
       \/ \E n \in Messages : window' = Take(Take(window, m), n)

Spec == Init /\ [][Next]_window

\* No message is in the window twice.
Once == \A i, j \in DOMAIN window : window[i] = window[j] => i = j
==============================================================================
