------------------------ MODULE MCStrategyBacktests ------------------------
(***************************************************************************)
(* StrategyBacktests, Portfolios and StrategyResearch on small instances:  *)
(* a behaviour is about one of them (part). They share no state, and one   *)
(* that is not its part stays as it began.                                 *)
(* overlap becomes true when two                                           *)
(* requests have held one row or one portfolio at the same time, or one    *)
(* has counted the backtests of a strategy it deletes while another was    *)
(* about to save one: what the services promise of single requests is      *)
(* checked before that, while executions and all other requests interleave *)
(* freely.                                                                 *)
(***************************************************************************)
EXTENDS StrategyBacktests, Integers, TLC

CONSTANTS PortfolioIds, Members, Weights, Limits, Targets, Scores, MaxVersion, NoPortfolio, NoPlan,
          Ranges, MaxAxes, Metrics, Budgets, Stops, NoStop, Unit

VARIABLES part, overlap, object, listed, plan, worker, search, trials, best, reason

Shared == INSTANCE Portfolios WITH Strategies <- Members
Research == INSTANCE StrategyResearch

ASSUME MCParameters == Shared!Parameters /\ Research!Parameters

sharedVars   == <<object, listed, plan, worker>>
researchVars == <<search, trials, best, reason>>
mcvars       == <<part, vars, overlap, sharedVars, researchVars>>

Symmetry == Permutations(Threads)

TargetSet == {[s \in {2} |-> 2], [s \in {1, 2} |-> s]}

RangeSet == {[min |-> 1, max |-> 4, step |-> 1], [min |-> 1, max |-> 4, step |-> 2],
             [min |-> 2, max |-> 2, step |-> 1]}

MetricSet == {-2, 0, 1}

LimitSet == {[total |-> 3, single |-> 2], [total |-> 2, single |-> 1]}

HoldsTask(t)     == thread'[t].at \in {"save", "remove"}
HoldsStrategy(t) == thread'[t].at \in {"strategy", "count", "drop"}

Contend(t, u) ==
  \/ HoldsTask(t) /\ HoldsTask(u) /\ thread'[t].task = thread'[u].task
  \/ HoldsStrategy(t) /\ HoldsStrategy(u) /\ thread'[t].strategy = thread'[u].strategy
  \/ /\ thread'[t].at \in {"count", "drop"}
     /\ thread'[u].at \in {"insert", "save"}
     /\ thread'[u].row.strategy = thread'[t].strategy

MCInit ==
  /\ part \in {"backtests", "portfolios", "research"} /\ overlap = FALSE
  /\ Init /\ Shared!Init
  /\ IF part = "research" THEN Research!Init
     ELSE search = <<>> /\ trials = <<>> /\ best = 0 /\ reason = "none"

BacktestsNext ==
  /\ part = "backtests" /\ Next
  /\ overlap' = (overlap \/ \E t \in Threads : \E u \in Threads \ {t} : Contend(t, u))
  /\ UNCHANGED <<sharedVars, researchVars>>

PortfoliosNext ==
  /\ part = "portfolios" /\ Shared!Next
  /\ overlap' = (overlap \/ \E t \in Threads : \E u \in Threads \ {t} :
                             worker'[t].of = worker'[u].of /\ worker'[t].of # NoPortfolio)
  /\ UNCHANGED <<vars, researchVars>>

ResearchNext ==
  /\ part = "research" /\ Research!Next
  /\ UNCHANGED <<overlap, vars, sharedVars>>

MCNext == (BacktestsNext \/ PortfoliosNext \/ ResearchNext) /\ UNCHANGED part
MCSpec == MCInit /\ [][MCNext]_mcvars

\* A task's status changes along the state machine and a deleted task stays
\* deleted: cancelling during the execution is final for the executor too
\* (transition, execute_task).
SerialTasks ==
  [][\A i \in TaskIds : ~overlap' /\ tasks'[i] # tasks[i] =>
       \/ tasks[i] = NoTask /\ tasks'[i].status = "pending"
       \/ tasks'[i] = NoTask /\ tasks[i].status \in Terminal
       \/ /\ tasks[i] # NoTask /\ tasks'[i] # NoTask
          /\ tasks'[i].status \in BacktestTransitions[tasks[i].status]]_mcvars

\* A strategy's status changes along its state machine, an archived strategy
\* stays archived until it is deleted (activate_strategy and the others).
SerialStrategies ==
  [][\A s \in StrategyIds :
       ~overlap' /\ strategies[s] # NoStrategy /\ strategies'[s] \notin {strategies[s], NoStrategy} =>
         strategies'[s].status \in StrategyTransitions[strategies[s].status]]_mcvars

\* No strategy is deleted from under a pending or running backtest
\* (delete_strategy, count_active_backtests).
SerialDeletion ==
  [][\A s \in StrategyIds : ~overlap' /\ strategies[s] # NoStrategy /\ strategies'[s] = NoStrategy =>
       \A i \in Kept : tasks[i].strategy = s => tasks[i].status \notin {"pending", "running"}]_mcvars

\* A stored result is that of a task the engine completed, or was left behind
\* by a task deleted meanwhile (execute_task, delete_task).
SerialResults ==
  ~overlap => \A i \in results : tasks[i] = NoTask \/ tasks[i].metrics = "engine"

\* While no two requests hold one row, the rows follow their state machines,
\* strategies are deleted only when unused, and results are those of their
\* tasks.
SerialRows == SerialTasks /\ SerialStrategies /\ SerialDeletion /\ []SerialResults

\* While no two requests hold one portfolio, each strategy is a member once,
\* and the weights are within the limits, whichever of the two was changed
\* last (add_member, remove_member, update).
SerialWeights ==
  part = "portfolios" /\ ~overlap => \A p \in PortfolioIds : object[p] # NoPortfolio =>
    LET ms == object[p].members IN
    /\ \A i, j \in DOMAIN ms : ms[i].strategy = ms[j].strategy => i = j
    /\ \A i \in DOMAIN ms : ms[i].weight \in 1..object[p].limits.single
    /\ Shared!Total(Shared!WeightMap(ms)) <= object[p].limits.total

\* A rebalance result that carries the version its portfolio still has is for
\* its members and within its limits, and one without named targets gives out
\* all the weight these allow (build_portfolio_rebalance_result, _touch).
Unsettled(p) == \E t \in Threads : worker[t].at = "touch" /\ worker[t].of = p

SerialPlans ==
  ~overlap /\ plan # NoPlan /\ plan.of \in listed =>
    LET now   == object[plan.of]
        most(n) == n * plan.scale IN
    now.version = plan.version /\ ~Unsettled(plan.of) =>
      /\ DOMAIN plan.target \subseteq Shared!Ids(now.members)
      /\ \A s \in DOMAIN plan.target : plan.target[s] \in 1..most(now.limits.single)
      /\ Shared!Total(plan.target) <= most(now.limits.total)
      /\ plan.auto => Shared!Total(plan.target) =
           LET each == most(now.limits.single) * Cardinality(Shared!Ids(now.members)) IN
           IF each < most(now.limits.total) THEN each ELSE most(now.limits.total)

\* While no two requests hold one portfolio, its weights fit its limits and a
\* rebalance of its version fits it.
SerialPortfolios == SerialWeights /\ SerialPlans

\* A search tries the whole grid, in an order that no trial has a part in, from
\* the middle if it is called bayesian, and names the corner that
\* build_optimization_result names.
SearchesFit ==
  part = "research" => Research!Covers /\ Research!BestAtCorner /\ Research!CentreFirst

TypesOK ==
  /\ part = "backtests" => TypeOK
  /\ part = "portfolios" => Shared!TypeOK
  /\ part = "research" => Research!TypeOK
=============================================================================
