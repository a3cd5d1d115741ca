----------------------------- MODULE MCTcSync -----------------------------
(* One sender, all of whose messages come from the model of the sender; and  *)
(* a sender whose set changes without anything being sent.                   *)
EXTENDS TcSync

MCNone(o) == {}

MCBordersNext == \E S \in SUBSET (Nodes \ {Peer}) : ChangeSet(S) \/ IncreaseLocalAnsn
MCBordersSpec == SyncInit /\ [][MCBordersNext]_syncVars
============================================================================
