-------------------------------- MODULE Mpr --------------------------------
(***************************************************************************)
(* The selection of multipoint relays (MPRs), the neighbours that forward  *)
(* our messages to the two-hop neighbours: by the number of two-hop        *)
(* neighbours they cover (src/src/mpr.c), or by link quality               *)
(* (src/src/lq_mpr.c) when lq_level is above zero.                         *)
(*                                                                         *)
(* The counters of mpr.c are functions of the MPRs chosen so far: every    *)
(* choice of n adds one to mpr_covered_count of what n covers, and what is *)
(* covered often enough counts again with every further choice.            *)
(***************************************************************************)
EXTENDS Integers, FiniteSets, FiniteSetsExt

CONSTANTS
  Nbrs,         \* neighbours, numbers in the order of the neighbour table
  TwoHop,       \* two-hop neighbours; some may be neighbours as well
  WillAlways,   \* WILL_ALWAYS; willingness 0 is WILL_NEVER
  Broken,       \* LINK_COST_BROKEN
  Hoods,        \* the neighbourhoods a calculation may start from, in Hood
  WasMpr        \* the sets of MPRs before the calculation

NoPath == Broken + 1

Hood ==
  [lq : BOOLEAN, coverage : Nat \ {0}, sym : SUBSET Nbrs, will : [Nbrs -> 0 .. WillAlways],
   path : [Nbrs \X TwoHop -> 1 .. NoPath], direct : [Nbrs -> 1 .. Broken]]

\* What the constants are: the tables are finite and the willingness is at most
\* WILL_ALWAYS.
MprConstants ==
  /\ Nbrs \subseteq Nat /\ IsFiniteSet(Nbrs) /\ IsFiniteSet(TwoHop)
  /\ WillAlways \in Nat \ {0} /\ Broken \in Nat
  /\ Hoods \subseteq Hood

VARIABLES
  hood,      \* the neighbourhood
  was,       \* was_mpr
  mprs,      \* is_mpr
  phase,     \* what the calculation does next
  level,     \* the willingness that is looked at
  done,      \* two-hop neighbours that are done (link quality)
  signal     \* link_changes, with tc_redundancy above zero

mprVars == <<hood, was, mprs, phase, level, done, signal>>

Sym(n) == n \in hood.sym
Covers(n) == {t \in TwoHop : hood.path[<<n, t>>] # NoPath}
NbList(t) == {n \in Nbrs : t \in Covers(n)}

\* Two-hop neighbours that are symmetric neighbours need no MPR (mpr.c).
Strict == TwoHop \ hood.sym

Always == {n \in hood.sym : hood.will[n] = WillAlways}
----------------------------------------------------------------------------
(* The counters of mpr.c *)

\* mpr_covered_count
Covered(t) == Cardinality(mprs \cap NbList(t))

\* The choices that counted t in T as covered: of the MPRs that cover t, the
\* mpr_coverage-th and every further one.
Counted(T) == Cardinality({p \in T \X (1 .. Cardinality(Nbrs)) : hood.coverage <= p[2] /\ p[2] <= Covered(p[1])})

SymUpTo(n) == {m \in hood.sym : m <= n}

\* olsr_calculate_two_hop_neighbors: neither count starts again with a neighbour.
FirstNocov(n) ==
  IF Sym(n)
  THEN Cardinality({p \in SymUpTo(n) \X Strict : p[2] \in Covers(p[1])})
  ELSE Cardinality({t \in Strict : \E m \in SymUpTo(n) : t \in Covers(m)})
TwoHopCount ==
  Cardinality({p \in hood.sym \X Strict : \E m \in SymUpTo(p[1]) : p[2] \in Covers(m)})

\* two_hop_covered_count
CoveredCount == Counted(Strict)

\* neighbor_2_nocov, an int: it may fall below zero
Nocov(n) ==
  IF Sym(n) THEN FirstNocov(n) - Counted(Covers(n) \cap Strict)
  ELSE FirstNocov(n)

Enough == CoveredCount >= TwoHopCount

\* olsr_find_2_hop_neighbors_with_1_link
OneLink(w) ==
  {n \in hood.sym : hood.will[n] = w /\ \E t \in Strict : NbList(t) = {n}}

\* olsr_find_maximum_covered
Candidates(w) == {n \in Nbrs \ mprs : hood.will[n] = w /\ Nocov(n) > 0}
MaximumCovered(w) ==
  CHOOSE n \in Candidates(w) :
    \A m \in Candidates(w) : Nocov(m) < Nocov(n) \/ (Nocov(m) = Nocov(n) /\ n <= m)
----------------------------------------------------------------------------
MprInit ==
  /\ hood \in Hoods
  /\ was \in WasMpr
  /\ mprs = {} /\ phase = "start" /\ level = WillAlways - 1
  /\ done = {} /\ signal = FALSE

\* olsr_clear_mprs, the counts, and the neighbours that are always chosen
StartMpr ==
  /\ phase = "start" /\ ~hood.lq
  /\ mprs' = Always
  /\ phase' = "one_link"
  /\ UNCHANGED <<hood, was, level, done, signal>>

\* Neighbours that are the only link to some two-hop neighbour.
ChooseOneLink ==
  /\ phase = "one_link" /\ level > 0
  /\ mprs' = mprs \cup OneLink(level)
  /\ phase' = "maximum"
  /\ UNCHANGED <<hood, was, level, done, signal>>

\* The neighbour that covers most, as long as not enough is covered.
ChooseMaximum ==
  /\ phase = "maximum" /\ ~Enough /\ Candidates(level) # {}
  /\ mprs' = mprs \cup {MaximumCovered(level)}
  /\ UNCHANGED <<hood, was, phase, level, done, signal>>

NextLevel ==
  /\ phase = "maximum" /\ ~Enough /\ Candidates(level) = {}
  /\ phase' = "one_link"
  /\ level' = level - 1
  /\ UNCHANGED <<hood, was, mprs, done, signal>>

\* The selection is over: olsr_optimize_mpr_set drops the MPRs that seem not to
\* be needed, all judged by the same counts, and olsr_check_mpr_changes looks
\* for MPRs that are none any more.
Selected == (phase = "maximum" /\ Enough) \/ (phase = "one_link" /\ level = 0)

\* Mutant of Needed: the MPR itself is counted among the others.
NeededNot(n) == \E t \in Covers(n) \cap Strict : Covered(t) < hood.coverage

Needed(n) == \E t \in Covers(n) \cap Strict : Covered(t) <= hood.coverage

OptimizeMprSet ==
  /\ Selected
  /\ mprs' = {n \in mprs : hood.will[n] \in {0, WillAlways} \/ Needed(n)}
  /\ signal' = (was \ mprs' # {})
  /\ phase' = "end"
  /\ UNCHANGED <<hood, was, level, done>>
----------------------------------------------------------------------------
(* olsr_calculate_lq_mpr *)

StartLqMpr ==
  /\ phase = "start" /\ hood.lq
  /\ mprs' = Always
  /\ signal' = (Always \ was # {})
  /\ phase' = IF TwoHop = {} THEN "end" ELSE "two_hop"
  /\ UNCHANGED <<hood, was, level, done>>

\* The cost of the direct link to a two-hop neighbour.
DirectCost(t) == IF t \in hood.sym THEN hood.direct[t] ELSE Broken

\* Symmetric neighbours with a better path to t than the direct link.
Relays(t) == {n \in hood.sym : hood.path[<<n, t>>] < DirectCost(t)}

\* The best mpr_coverage of these.
Best(t, S) ==
  /\ S \subseteq Relays(t) /\ Cardinality(S) = Min({hood.coverage, Cardinality(Relays(t))})
  /\ \A n \in S, m \in Relays(t) \ S : hood.path[<<n, t>>] <= hood.path[<<m, t>>]

SelectFor(t) ==
  /\ phase = "two_hop" /\ t \in TwoHop \ done
  /\ \E S \in SUBSET Nbrs :
       /\ Best(t, S)
       /\ mprs' = mprs \cup S
       /\ signal' = (signal \/ S \ was # {})
  /\ done' = done \cup {t}
  /\ phase' = IF done' = TwoHop THEN "end" ELSE phase
  /\ UNCHANGED <<hood, was, level>>

MprNext ==
  \/ StartMpr
  \/ ChooseOneLink
  \/ ChooseMaximum
  \/ NextLevel
  \/ OptimizeMprSet
  \/ StartLqMpr
  \/ \E t \in TwoHop : SelectFor(t)

MprSpec == MprInit /\ [][MprNext]_mprVars
----------------------------------------------------------------------------

\* A two-hop neighbour that only one willing neighbour leads to gets it as MPR
\* and keeps it: the double counts never end the selection before the last
\* willingness, and the optimization sees that the MPR is needed. (Unless a
\* neighbour that is not symmetric still has two-hop neighbours.)
OnlyLinkKept ==
  phase = "end" /\ ~hood.lq /\ (\A n \in Nbrs : Covers(n) # {} => Sym(n)) =>
    \A t \in Strict, n \in Nbrs : NbList(t) = {n} /\ hood.will[n] > 0 => n \in mprs

\* The best path to a two-hop neighbour is the direct link or leads over an MPR,
\* and there are mpr_coverage relays if there are so many with a better path.
LqBestPaths ==
  phase = "end" /\ hood.lq =>
    \A t \in TwoHop :
      /\ \A n \in hood.sym :
           \/ hood.path[<<n, t>>] >= DirectCost(t)
           \/ \E m \in mprs \cap hood.sym : hood.path[<<m, t>>] <= hood.path[<<n, t>>]
      /\ LET better == {n \in hood.sym : hood.path[<<n, t>>] < DirectCost(t)}
         IN  Cardinality(mprs \cap better) >= Min({hood.coverage, Cardinality(better)})

\* Whatever is chosen and dropped in between, the result holds every symmetric
\* neighbour that is always willing, and by coverage none that never is.
WillingnessRespected ==
  phase = "end" => Always \subseteq mprs /\ (hood.lq \/ \A n \in mprs : hood.will[n] > 0)
============================================================================
