----------------------------- MODULE RouteOrder -----------------------------
(***************************************************************************)
(* The order in which a request tries the candidates of its model:         *)
(* availableCandidates, orderCandidates and the attempts of earlier        *)
(* requests from which loadRecentSuccessMetrics and                        *)
(* loadRecentRoutingMetrics score the candidates.                          *)
(*                                                                         *)
(* Probabilities count in parts of Scale, scores and multipliers in parts  *)
(* of 1000; both are rounded down, where the code has floats.  Abstracted: *)
(* the cost and the efficiency of a candidate do not change, it has no     *)
(* cache samples, and exp is replaced by a rational function with the same *)
(* value at 0, the same direction and the same bounds.  The ordering for   *)
(* candidates without metrics is left out: with two or more candidates the *)
(* metrics are always loaded, with one there is nothing to order.          *)
(***************************************************************************)
EXTENDS Integers, SequencesExt, FiniteSetsExt

CONSTANTS
  Candidates,  \* the enabled mappings of the model: numbers, their ids
  Setups,      \* strategy, weights of the decision; each candidate's priority, weight, cost
  SampleSize,  \* routingHistorySampleSize
  MaxLog,      \* bound of the model: attempts recorded
  MaxSwitches  \* bound of the model: changes of availability

ASSUME SetupsAssumption ==
  /\ IsFiniteSet(Candidates) /\ Candidates \subseteq Nat \ {0}
  /\ \A s \in Setups : /\ s.priority \in [Candidates -> Int]
                        /\ s.cost \in [Candidates -> Nat]
                        /\ s.efficiency \in [Candidates -> Nat]

VARIABLES
  setup,
  usable,   \* candidates whose channel is enabled and not circuited
  log,      \* relay_attempt_logs, and whether a row is within 30 minutes
  order,    \* the candidates the running request has still to try
  begun,    \* those it began with, pinned or not, and their expectations (history)
  switches  \* bound

orderVars == <<setup, usable, log, order, begun, switches>>

Scale == 10000
None  == 0

\* 1000 parts, rounded down.
Part(a, b) == (1000 * a) \div b

-----------------------------------------------------------------------------
(* Metrics. *)

Rows(c)     == {i \in DOMAIN log : log[i].candidate = c}
Recent(c)   == {i \in Rows(c) : log[i].recent /\ log[i].outcome # "canceled"}
Wins(c)     == {i \in Recent(c) : log[i].outcome = "success"}
Success(c)  == IF Recent(c) = {} THEN 1000
               ELSE Max({Part(Cardinality(Wins(c)), Cardinality(Recent(c))), 1})

TopPriority(C) == Max({setup.priority[c] : c \in C})

\* The candidates a strategy draws from.
Eligible(C) ==
  IF setup.strategy # "priority_weighted" THEN C
  ELSE {c \in C : setup.priority[c] = TopPriority(C)}

\* The latest attempts at the eligible candidates.
Latest(C) == LET rows == SetToSortSeq({i \in DOMAIN log : log[i].candidate \in Eligible(C)}, >)
             IN ToSet(SubSeq(rows, 1, Min({Len(rows), SampleSize})))

-----------------------------------------------------------------------------
(* scoredRouteDecision. *)

Square(score) == (score * score) \div 1000

PriceScore(c, C) ==
  LET score == Part(Min({setup.cost[d] : d \in C}) + 1, setup.cost[c] + 1) IN
  IF setup.strategy = "lowest_cost" THEN Square(score) ELSE score

EfficiencyScore(c) ==
  IF setup.strategy = "lowest_latency" THEN Square(setup.efficiency[c]) ELSE setup.efficiency[c]

\* Without cache samples both cache scores are a half.
QualityScore(c) == (700 * Success(c)) \div 1000 + 150

Total(f) == FoldFunction(LAMBDA x, y : x + y, 0, f)

\* What a candidate is worth by itself; nothing, if its priority is too low.
Base(C) ==
  LET eligible == Eligible(C) IN
  [c \in C |->
     IF c \notin eligible THEN 0
     ELSE Max({1, setup.weight[c] * ((setup.share.price * PriceScore(c, C)
                                      + setup.share.efficiency * EfficiencyScore(c)
                                      + setup.share.quality * QualityScore(c)) \div 100)})]

Target(C) == LET base == Base(C) total == Total(base)
             IN [c \in C |-> (Scale * base[c]) \div total]

\* How far a share is above its target, in parts of the target, or of one sample.
Deviation(routed, samples, target) ==
  (((Scale * routed) \div samples - target) * 1000) \div Max({1, target, Scale \div samples})

\* Mutant: the correction is not bounded below.
CorrectionUnbounded(deviation) ==
  IF deviation > 0 THEN Max({0, 1000 - deviation}) ELSE Min({1500, 1000 - deviation \div 2})

Correction(deviation) ==
  IF deviation > 0 THEN Max({500, 2000000 \div (2000 + deviation)})
                   ELSE Min({1500, 1000 - deviation \div 2})

\* routeBalanceMultiplier
Multiplier(routed, samples, target) ==
  IF samples = 0 THEN 1000
  ELSE 1000 + ((Correction(Deviation(routed, samples, target)) - 1000) * Min({samples, SampleSize}))
              \div SampleSize

\* applyRouteBalance.  What is worth nothing by itself stays so.
Balanced(C) ==
  LET target    == Target(C)
      latest    == Latest(C)
      routed    == [c \in C |-> Cardinality(Rows(c) \cap latest)]
      samples   == Total(routed)
      corrected == [c \in C |-> (target[c] * Multiplier(routed[c], samples, target[c])) \div 1000]
      total     == Total(corrected)
      balanced  == [c \in C |-> IF total > 0 THEN (Scale * corrected[c]) \div total ELSE target[c]]
  IN [c \in C |->
        IF c \notin Eligible(C) THEN 0
        ELSE ((100 - setup.share.balance) * target[c] + setup.share.balance * balanced[c]) \div 100]

Unknown(C) == {c \in C : Recent(c) = {}}

\* Mutant: every cold candidate takes part, whatever its priority.
ColdOfAll(C) == Unknown(C)

\* Mutant: a candidate is cold until its first attempt.
ColdNeverTried(C) == Eligible(C) \cap {c \in C : Rows(c) = {}}

\* coldStartExplorationEligible
Cold(C) == Eligible(C) \cap Unknown(C)

\* applyColdStartExploration
Explored(C, balanced) ==
  LET cold == Cold(C) weight == Total([c \in cold |-> setup.weight[c]]) IN
  IF cold = {} THEN balanced
  ELSE [c \in C |-> (4 * balanced[c]) \div 5
          + (IF c \in cold THEN (Scale * setup.weight[c]) \div (5 * weight) ELSE 0)]

Expectation(C) == Explored(C, Balanced(C))

-----------------------------------------------------------------------------
(* Orders of the candidates. *)

Rank(c) == CASE setup.strategy = "lowest_cost"    -> setup.cost[c]
             [] setup.strategy = "lowest_latency" -> -setup.efficiency[c]
             [] OTHER                             -> -setup.priority[c]
ByStrategy(a, b) == Rank(a) < Rank(b) \/ (Rank(a) = Rank(b) /\ a < b)

\* The members of a set, each at the place that those before it leave to it.
Arranged(C, Before(_, _)) ==
  [n \in 1..Cardinality(C) |-> CHOOSE c \in C : Cardinality({d \in C : Before(d, c)}) = n - 1]

Sorted(C)  == Arranged(C, ByStrategy)

\* Sorted by expectation, which keeps the former order where it is equal.
ByExpectation(C) ==
  LET worth == Expectation(C)
      Before(a, b) == worth[a] > worth[b] \/ (worth[a] = worth[b] /\ ByStrategy(a, b))
  IN Arranged(C, Before)

\* Those before it go back by one place.
ToFront(c, seq) ==
  LET place == CHOOSE i \in DOMAIN seq : seq[i] = c
  IN [i \in DOMAIN seq |-> CASE i = 1             -> c
                             [] i \in 2 .. place  -> seq[i - 1]
                             [] i > 1 /\ i > place -> seq[i]]

\* orderCandidates: a draw picks the first candidate.
Drawn(C) ==
  IF Cardinality(C) = 1 THEN {Sorted(C)}
  ELSE LET worth == Expectation(C) sorted == Sorted(C)
       IN {ToFront(c, sorted) : c \in {d \in C : worth[d] > 0}}

\* What a request may begin with, pinned to a candidate of its session or not.
Orders(C, pin) == IF pin \in C THEN {ToFront(pin, ByExpectation(C))} ELSE Drawn(C)

-----------------------------------------------------------------------------
NoPlan == [order |-> <<>>, pin |-> None]

OrderInit ==
  /\ setup \in Setups
  /\ usable = Candidates /\ log = <<>>
  /\ order = <<>> /\ begun = NoPlan /\ switches = 0

Plan ==
  /\ order = <<>> /\ usable # {}
  /\ Len(log) < MaxLog
  /\ \E pin \in Candidates \cup {None} : \E o \in Orders(usable, pin) :
       /\ order' = o
       /\ begun' = [order |-> o, pin |-> pin]
  /\ UNCHANGED <<setup, usable, log, switches>>

\* A failed attempt is followed by the next candidate, if there is one.
Attempt(outcome) ==
  /\ order # <<>> /\ Head(order) \in usable /\ Len(log) < MaxLog
  /\ log' = Append(log, [candidate |-> Head(order), outcome |-> outcome, recent |-> TRUE])
  /\ order' = IF outcome = "failed" THEN Tail(order) ELSE <<>>
  /\ UNCHANGED <<setup, usable, begun, switches>>

\* A candidate that is no longer available is passed over.
Skip ==
  /\ order # <<>> /\ Head(order) \notin usable
  /\ order' = Tail(order)
  /\ UNCHANGED <<setup, usable, log, begun, switches>>

\* A channel is disabled, enabled, circuited or closed again.
Switch(c) ==
  /\ switches < MaxSwitches /\ switches' = switches + 1
  /\ usable' = IF c \in usable THEN usable \ {c} ELSE usable \cup {c}
  /\ UNCHANGED <<setup, log, order, begun>>

\* Half an hour passes.
Age ==
  /\ \E i \in DOMAIN log : log[i].recent
  /\ log' = [i \in DOMAIN log |-> [log[i] EXCEPT !.recent = FALSE]]
  /\ UNCHANGED <<setup, usable, order, begun, switches>>

OrderNext ==
  \/ Plan \/ Skip \/ Age
  \/ \E outcome \in {"success", "failed", "canceled"} : Attempt(outcome)
  \/ \E c \in Candidates : Switch(c)

OrderSpec == OrderInit /\ [][OrderNext]_orderVars

-----------------------------------------------------------------------------
(* Properties. *)

Scored == Cardinality(usable) > 1

\* Statistics, balance and exploration never bypass the highest priority: what a
\* request that nothing pins tries is in the order of the priorities, among the
\* candidates available when it was planned.
PriorityNeverBypassed ==
  setup.strategy = "priority_weighted" /\ begun.pin \notin ToSet(begun.order) =>
    \A i, j \in DOMAIN begun.order :
      i < j => setup.priority[begun.order[i]] >= setup.priority[begun.order[j]]

\* No history of attempts takes an eligible candidate out of the draw or below
\* a fixed part of its share, and the draw is complete: the correction halves or
\* raises by a half at most, and exploration takes a fifth.
NeverStarved ==
  Scored => LET worth == Expectation(usable) target == Target(usable) IN
            /\ \A c \in Eligible(usable) : worth[c] > 0 /\ 4 * worth[c] + 8 >= target[c]
            /\ Total(worth) \in (Scale - 10 * Cardinality(usable))..Scale

\* Candidates that nothing recent is known of get a fifth of the requests, however
\* good the others are; the others keep their order.
ColdStartShared ==
  LET cold == {c \in Eligible(usable) : Recent(c) = {}} IN
  Scored /\ cold # {} =>
    LET worth == Expectation(usable) balanced == Balanced(usable) IN
    /\ 5 * Total([c \in cold |-> worth[c]]) >= Scale - 100
    /\ \A c, d \in Eligible(usable) \ cold :
         balanced[c] > balanced[d] => worth[c] >= worth[d]
=============================================================================
