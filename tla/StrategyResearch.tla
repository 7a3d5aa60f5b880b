--------------------------- MODULE StrategyResearch --------------------------
(***************************************************************************)
(* The search of an optimisation task (strategy_management/research.py):   *)
(* the values of each parameter, the order in which a grid and a bayesian  *)
(* search try them, the score of a trial, and the budget that ends the     *)
(* search. Numbers are whole: parameters in their unit, scores in units of *)
(* 1/(5*Unit), which has every division below come out. Bodies that are    *)
(* refused are left out; so is the rounding to six places.                 *)
(***************************************************************************)
EXTENDS FiniteSetsExt, Integers, Sequences

CONSTANTS
  Ranges,     \* what a body gives for a parameter, [min, max, step]
  MaxAxes,    \* bound: parameters of a body
  Metrics,    \* values the metric of the objective can have
  Budgets,    \* maxTrials
  Stops,      \* earlyStopScore, in the unit of scores
  NoStop, Unit

Span(r) == IF r.max > r.min THEN r.max - r.min ELSE 1

\* What the constants must be.
Parameters ==
  /\ Ranges \subseteq [min: Int, max: Int, step: Nat \ {0}] /\ \A r \in Ranges : r.min <= r.max
  /\ MaxAxes \in Nat /\ Unit \in Nat \ {0}
  /\ \A r \in Ranges, k \in 1..MaxAxes : Unit % (2 * k * Span(r)) = 0
  /\ Metrics \subseteq Int /\ Budgets \subseteq Nat \ {0} /\ Stops \subseteq Int /\ NoStop \notin Int

VARIABLES
  search, \* the body, and the metric of the strategy
  trials, \* [at, score] of each trial, at the index of each parameter's value
  best,   \* the number of the best trial, 0 before the first
  reason  \* earlyStopReason, "none" while the search is on

vars == <<search, trials, best, reason>>

Methods == {"grid", "bayesian"}
Reasons == {"parameter_space_exhausted", "max_trials_reached", "max_duration_reached",
            "early_stop_score_reached"}

Search == [method: Methods, maximize: BOOLEAN, space: UNION {[1..n -> Ranges] : n \in 0..MaxAxes},
           metric: Metrics, budget: Budgets, stop: Stops \cup {NoStop}]

-----------------------------------------------------------------------------
(* Candidates                                                              *)

Steps(r) == (r.max - r.min) \div r.step

\* Mutant: the upper end is added whether the steps reach it or not.
AxisTwice(r) == Append([i \in 1..(Steps(r) + 1) |-> r.min + (i - 1) * r.step], r.max)

\* _build_axis_values: the steps from the lower end, and the upper end.
Axis(r) ==
  LET reached == [i \in 1..(Steps(r) + 1) |-> r.min + (i - 1) * r.step] IN
  IF reached[Len(reached)] < r.max THEN Append(reached, r.max) ELSE reached

Axes(space) == [k \in DOMAIN space |-> Axis(space[k])]

Candidates(space) ==
  LET n == Max({0} \cup {Len(Axes(space)[k]) : k \in DOMAIN space}) IN
  {c \in [DOMAIN space -> 1..n] : \A k \in DOMAIN space : c[k] <= Len(Axes(space)[k])}

Apart(a, b) == IF a < b THEN b - a ELSE a - b

SumOf(g) == MapThenSumSet(LAMBDA k : g[k], DOMAIN g)

\* How far from the middle of each axis.
Distance(space, c) ==
  SumOf([k \in DOMAIN space |-> Apart(c[k], Len(Axes(space)[k]) \div 2 + 1)])

Smaller(c, d) == \E k \in DOMAIN c : c[k] < d[k] /\ \A j \in 1..(k - 1) : c[j] = d[j]

\* Mutant: the centre counts for nothing.
BeforeGrid(s, c, d) == Smaller(c, d)

\* _iter_grid_candidates and _iter_bayesian_candidates.
Before(s, c, d) ==
  LET near == Distance(s.space, c)  far == Distance(s.space, d) IN
  IF s.method = "bayesian" /\ near # far THEN near < far ELSE Smaller(c, d)

-----------------------------------------------------------------------------
(* Trials                                                                  *)

\* Where a value lies in its range, from -1/2 to 1/2, the later parameters
\* counting less.
Place(r, v, k) == ((2 * (v - r.min) - Span(r)) * Unit) \div (2 * k * Span(r))

Adjustment(space, c) ==
  SumOf([k \in DOMAIN space |-> Place(space[k], Axes(space)[k][c[k]], k)])

\* Mutant: the direction is forgotten.
ScoreUp(s, c) == 5 * Unit * s.metric + (Apart(s.metric, 0) + 1) * Adjustment(s.space, c)

\* _evaluate_trial. The statistics of a strategy hold no maxDrawdown, so that
\* a limit of it is never exceeded.
Score(s, c) ==
  LET weighted == 5 * Unit * s.metric + (Apart(s.metric, 0) + 1) * Adjustment(s.space, c) IN
  IF s.maximize THEN weighted ELSE -weighted

Remaining == Candidates(search.space) \ {trials[i].at : i \in DOMAIN trials}

\* Mutant: one trial more.
SpentLate == Len(trials) > search.budget

Spent == Len(trials) >= search.budget

Stop(why) == reason' = why /\ UNCHANGED <<search, trials, best>>

\* One turn of the loop of build_optimization_result. The time may be up in
\* any turn: a ranking of many candidates counts for it.
Try ==
  /\ reason = "none" /\ Remaining # {} /\ ~Spent
  /\ LET c == CHOOSE c \in Remaining : \A d \in Remaining \ {c} : Before(search, c, d)
         score == Score(search, c) IN
     /\ trials' = Append(trials, [at |-> c, score |-> score])
     /\ best' = IF best = 0 \/ score > trials[best].score THEN Len(trials) + 1 ELSE best
     /\ reason' = IF search.stop # NoStop /\ score >= search.stop
                  THEN "early_stop_score_reached" ELSE "none"
  /\ UNCHANGED search

SpendTrials == reason = "none" /\ Remaining # {} /\ Spent /\ Stop("max_trials_reached")

OutOfTime == reason = "none" /\ Remaining # {} /\ ~Spent /\ Stop("max_duration_reached")

Exhaust == reason = "none" /\ Remaining = {} /\ Stop("parameter_space_exhausted")

-----------------------------------------------------------------------------
Init ==
  /\ search \in Search
  /\ trials = <<>> /\ best = 0 /\ reason = "none"

Next == Try \/ SpendTrials \/ OutOfTime \/ Exhaust

Spec == Init /\ [][Next]_vars

-----------------------------------------------------------------------------
(* Properties                                                              *)

TypeOK ==
  /\ search \in Search
  /\ Len(trials) <= search.budget /\ best \in 0..Len(trials)
  /\ \A i \in DOMAIN trials : trials[i].at \in Candidates(search.space) /\ trials[i].score \in Int
  /\ reason \in Reasons \cup {"none"}

Exhausted == reason = "parameter_space_exhausted"

\* The number of values from the lower end by steps to the upper, both tried.
Ceiling(r) == (r.max - r.min + r.step - 1) \div r.step + 1

\* An exhausted search has tried every combination of values, the ends of each
\* range with them, once, and says so (totalCandidates, usedTrials).
Covers ==
  Exhausted =>
    /\ Len(trials) = FoldFunction(LAMBDA n, m : n * m, 1,
                                  [k \in DOMAIN search.space |-> Ceiling(search.space[k])])
    /\ \A i, j \in DOMAIN trials : trials[i].at = trials[j].at => i = j
    /\ \A k \in DOMAIN search.space : \A v \in {search.space[k].min, search.space[k].max} :
         \E i \in DOMAIN trials : Axis(search.space[k])[trials[i].at[k]] = v

\* Whatever the metric is worth, an exhausted search names the upper end of
\* every range as best, or the lower one to minimise: no trial runs the
\* strategy (_evaluate_trial, build_optimization_result).
BestAtCorner ==
  Exhausted => \A k \in DOMAIN search.space :
    Axis(search.space[k])[trials[best].at[k]] =
      IF search.maximize THEN search.space[k].max ELSE search.space[k].min

\* A bayesian search that ends early has left out no candidate nearer to the
\* middle than one it tried: its order is fixed before the first trial, by the
\* distance alone, and nothing a trial scores changes what is tried next
\* (_iter_bayesian_candidates). strategy-management/spec.md has it iterate on
\* the trials it has made; the code does not.
CentreFirst ==
  search.method = "bayesian" => \A i \in DOMAIN trials : \A c \in Remaining :
    Distance(search.space, trials[i].at) <= Distance(search.space, c)
=============================================================================
