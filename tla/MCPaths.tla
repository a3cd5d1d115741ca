------------------------------- MODULE MCPaths -------------------------------
(* The route calculation on every graph of MCSpf, and the choice of MPRs in  *)
(* every neighbourhood of three neighbours and two two-hop neighbours, one   *)
(* of which is a neighbour itself; for the choice by link quality with two   *)
(* assignments of willingness.                                               *)
EXTENDS MCSpf

VARIABLES part, mHood, mWas, mMprs, mPhase, mLevel, mDone, mSignal

MCStar == MCGraph([p \in MCPairs(Nodes) |-> IF p[1] = Self THEN <<1, 1>> ELSE <<NoEdge, NoEdge>>])
MCNbrs == {1, 2, 3}
MCNoPath == 4
MCWays == {p \in MCNbrs \X {3, 11} : p[1] # p[2]}
MCByCoverage ==
  {[lq |-> FALSE, coverage |-> c, sym |-> s, will |-> w, direct |-> [n \in MCNbrs |-> 1],
    path |-> [p \in MCNbrs \X {3, 11} |-> IF p \in e THEN 1 ELSE MCNoPath]] :
     c \in {1, 2}, s \in SUBSET MCNbrs, w \in [MCNbrs -> 0 .. 3], e \in SUBSET MCWays}
MCByQuality ==
  {[lq |-> TRUE, coverage |-> c, sym |-> s, will |-> [n \in MCNbrs |-> IF n = a THEN 3 ELSE 1],
    direct |-> [n \in MCNbrs |-> d],
    path |-> [p \in MCNbrs \X {3, 11} |-> IF p \in MCWays THEN e[p] ELSE MCNoPath]] :
     c \in {1, 2}, s \in {MCNbrs, MCNbrs \ {1}, MCNbrs \ {3}}, a \in {0, 1}, d \in {1, 2},
     e \in [MCWays -> {1, 2, MCNoPath}]}
MCHoods == MCByCoverage \cup MCByQuality

mVars == <<mHood, mWas, mMprs, mPhase, mLevel, mDone, mSignal>>
P == INSTANCE Mpr WITH Nbrs <- MCNbrs, TwoHop <- {3, 11}, WillAlways <- 3,
  Broken <- 3, Hoods <- MCHoods, WasMpr <- {{}}, hood <- mHood, was <- mWas,
  mprs <- mMprs, phase <- mPhase, level <- mLevel, done <- mDone,
  signal <- mSignal

ASSUME MprConstantsAssumption == P!MprConstants

allVars == <<part, vars, mVars>>

(* One of the systems runs; the others do not exist.                       *)
MCInit ==
  /\ part \in {"spf", "mprs"}
  /\ Init /\ (part # "spf" => graph = MCStar)
  /\ IF part = "mprs" THEN P!MprInit
       ELSE /\ mHood = "none" /\ mWas = "none" /\ mMprs = "none"
            /\ mPhase = "none" /\ mLevel = "none" /\ mDone = "none"
            /\ mSignal = "none"

MCNext ==
  \/ part = "spf" /\ Next /\ UNCHANGED <<part, mVars>>
  \/ part = "mprs" /\ P!MprNext /\ UNCHANGED <<part, vars>>

MCSpec == MCInit /\ [][MCNext]_allVars
-----------------------------------------------------------------------------
(* A neighbour that is the only way to a two-hop neighbour is an MPR when    *)
(* the choice is over.                                                       *)
OnlyLinkKept == part = "mprs" => P!OnlyLinkKept
=============================================================================
