--------------------------- MODULE StrategyHealth ---------------------------
(***************************************************************************)
(* Health reports of strategies (libs/strategy_health): the simulation is  *)
(* repeated with each parameter moved by up to a half and over two parts   *)
(* of the history, and the outcomes are made a score, a risk and warnings. *)
(* A report is created, run and ended by one request, and by no other: the *)
(* state is one report and whether its request is alive.                   *)
(***************************************************************************)
EXTENDS BacktestEngine, FiniteSets

CONSTANTS
  Histories,  \* closing prices of a history, oldest first
  ParameterSets, \* parameters of a body, [name -> fraction]
  Templates,  \* templates of a body
  Fees        \* commission rates

\* What the constants must be.
HealthParameters ==
  /\ Histories \subseteq Seq(Nat)
  /\ \A p \in ParameterSets : IsFiniteSet(DOMAIN p) /\ \A name \in DOMAIN p : p[name] \in Reduced
  /\ \A f \in Fees : f \in Reduced /\ Below(Whole(0), f) /\ Above(Whole(1), f)

VARIABLES
  config, \* the body of the request
  status, \* of the report
  report, \* what it says, an error or the outcome; before, what was simulated
  alive   \* the request is being served

vars == <<config, status, report, alive>>

Supported == {"moving_average", "mean_reversion"}
Errors == {"UNSUPPORTED_TEMPLATE", "MARKET_DATA_UNAVAILABLE", "NO_MARKET_DATA", "INVALID_CONFIGURATION"}
Capital == Whole(1)

Body == [template: Templates, parameters: ParameterSets, prices: Histories, fee: Fees]

NoReport   == [kind |-> "none"]
Error(why) == [kind |-> "error", code |-> why]

-----------------------------------------------------------------------------
(* One simulation                                                          *)

Given(p, name, default) == IF name \in DOMAIN p THEN p[name] ELSE default

\* What run_simulation refuses.
Valid(template, p) ==
  IF template = "moving_average"
  THEN LET short == Trunc(Given(p, "shortWindow", Whole(5)))
           long  == Trunc(Given(p, "longWindow", Whole(20)))
       IN short > 0 /\ short < long
  ELSE LET entry == Given(p, "entryZ", Frac(3, 2))
           exit  == Given(p, "exitZ", Frac(1, 2))
       IN /\ Trunc(Given(p, "window", Whole(20))) > 0
          /\ exit.num >= 0 /\ Above(entry, exit)

Orders(template, p, prices) ==
  IF template = "moving_average"
  THEN Crossings(prices, Trunc(Given(p, "shortWindow", Whole(5))),
                         Trunc(Given(p, "longWindow", Whole(20))))
  ELSE Recoveries(prices, Trunc(Given(p, "window", Whole(20))),
                  Given(p, "entryZ", Frac(3, 2)), Given(p, "exitZ", Frac(1, 2)))

\* run_simulation: a history that is too short gives no orders and no metrics.
Run(template, p, prices, fee) ==
  EquityMetrics(Simulate(prices, Orders(template, p, prices), Capital, fee), Capital)

Case(p, from, to) == [parameters |-> p, from |-> from, to |-> to]

\* What was simulated of a case.
Result(p, from, to) == report.runs[Case(p, from, to)]
Return(p, from, to) == Result(p, from, to).returnRate

-----------------------------------------------------------------------------
(* Sensitivity to a parameter                                              *)

Days == Len(config.prices)

Perturbations == {-50, -20, -10, 10, 20, 50}

\* Mutant: only windows that stay in order are tried.
PerturbedValid(p, name) ==
  {q \in {[p EXCEPT ![name] = Times(@, Frac(100 + n, 100))] : n \in Perturbations} :
     Valid(config.template, q)}

\* The parameters with one of them moved.
Perturbed(p, name) == {[p EXCEPT ![name] = Times(@, Frac(100 + n, 100))] : n \in Perturbations}

\* analyze_parameter_sensitivity: one variation that is refused refuses all.
Analysable(p) ==
  Valid(config.template, p) /\
  \A name \in DOMAIN p : \A q \in Perturbed(p, name) : Valid(config.template, q)

Rating(p, name) ==
  LET base  == Return(p, 1, Days)
      moved == {Size(Minus(Return(q, 1, Days), base)) : q \in Perturbed(p, name)}
      limit == IF base.num # 0 THEN Times(Size(base), Frac(3, 10)) ELSE Frac(1, 100)
  IN IF \E m \in moved : Above(m, limit) THEN "HIGH" ELSE "LOW"

-----------------------------------------------------------------------------
(* Inside and outside the sample                                           *)

Split == (Days * 7) \div 10

\* analyze_out_of_sample.
InSample(p)  == Return(p, 1, Split)
OutSample(p) == Return(p, Split + 1, Days)

\* All that is simulated for a report.
Cases(p) ==
  {Case(p, 1, Days), Case(p, 1, Split), Case(p, Split + 1, Days)} \cup
  {Case(q, 1, Days) : q \in UNION {Perturbed(p, name) : name \in DOMAIN p}}

Warned(in, out) == in.num # 0 /\ Above(Times(in, Frac(1, 2)), out)

Least(a, b) == IF Below(a, b) THEN a ELSE b

\* Mutant: the worse of two losses is held against the better.
RatioReversed(in, out) ==
  CASE in.num > 0 /\ out.num >= 0 -> Least(Over(out, in), Whole(1))
    [] in.num < 0 /\ out.num < 0  -> Over(Size(out), Size(in))
    [] in.num < 0 /\ out.num = 0  -> Whole(1)
    [] in.num > 0 /\ out.num < 0  -> Whole(0)
    [] in.num = 0 -> IF Above(Frac(1, 1000), Size(out)) THEN Whole(1) ELSE Frac(1, 2)
    [] OTHER -> Least(Over(out, Size(in)), Whole(1))

\* How much of the return is left outside the sample, for the score.
Ratio(in, out) ==
  CASE in.num > 0 /\ out.num >= 0 -> Least(Over(out, in), Whole(1))
    [] in.num < 0 /\ out.num < 0  -> Least(Over(Size(in), Size(out)), Whole(1))
    [] in.num < 0 /\ out.num = 0  -> Whole(1)
    [] in.num > 0 /\ out.num < 0  -> Whole(0)
    [] in.num = 0 -> IF Above(Frac(1, 1000), Size(out)) THEN Whole(1) ELSE Frac(1, 2)
    [] OTHER -> Least(Over(out, Size(in)), Whole(1))

\* calculate_overfit_score: of high of all parameters, the ratio and the trades.
Score(high, all, ratio, trades) ==
  LET steady == IF all = 0 THEN Whole(100) ELSE Frac(100 * (all - high), all)
      enough == Least(Frac(trades, 30), Whole(1))
  IN Trunc(Plus(Times(steady, Frac(2, 5)), Plus(Times(ratio, Whole(40)), Times(enough, Whole(20)))))

Risk(score) ==
  CASE score >= 80 -> "LOW"
    [] score \in 60..79 -> "MEDIUM"
    [] score \in 40..59 -> "HIGH"
    [] score < 40 -> "CRITICAL"

Outcome ==
  LET p   == config.parameters
      in  == InSample(p)
      out == OutSample(p)
      all == Result(p, 1, Days)
      high == {name \in DOMAIN p : Rating(p, name) = "HIGH"}
      score == Score(Cardinality(high), Cardinality(DOMAIN p), Ratio(in, out), all.tradeCount)
  IN [kind |-> "outcome", score |-> score, risk |-> Risk(score), high |-> high,
      in |-> in, out |-> out, warned |-> Warned(in, out), metrics |-> all]

-----------------------------------------------------------------------------
(* The request                                                             *)

End(s, r) == status' = s /\ report' = r /\ alive' = FALSE /\ UNCHANGED config

Fail(why) == End("failed", Error(why))

\* create_report saved the report, execute_report saves it as running.
Start == status = "pending" /\ alive /\ status' = "running" /\ UNCHANGED <<config, report, alive>>

Refuse ==
  status = "running" /\ alive /\ config.template \notin Supported /\ Fail("UNSUPPORTED_TEMPLATE")

Ready == status = "running" /\ alive /\ config.template \in Supported /\ report = NoReport

\* The history comes with the request or from market data, which may fail.
ReadFails == Ready /\ Fail("MARKET_DATA_UNAVAILABLE")

ReadNothing == Ready /\ config.prices = <<>> /\ Fail("NO_MARKET_DATA")

\* The parameters of Body are numbers; one that is not fails the report as
\* ANALYSIS_FAILED, which is left out.
Analyse ==
  /\ Ready /\ config.prices # <<>>
  /\ IF ~Analysable(config.parameters) THEN Fail("INVALID_CONFIGURATION")
     ELSE /\ report' = [kind |-> "simulated", runs |->
               [c \in Cases(config.parameters) |->
                  Run(config.template, c.parameters, SubSeq(config.prices, c.from, c.to), config.fee)]]
          /\ UNCHANGED <<config, status, alive>>

\* The score is made of the simulations, and the report saved.
Judge == status = "running" /\ alive /\ report.kind = "simulated" /\ End("completed", Outcome)

\* The process dies; nothing takes up a report it was running.
Crash == alive /\ alive' = FALSE /\ UNCHANGED <<config, status, report>>

Init == config \in Body /\ status = "pending" /\ report = NoReport /\ alive = TRUE

Next == Start \/ Refuse \/ ReadFails \/ ReadNothing \/ Analyse \/ Judge \/ Crash

Spec == Init /\ [][Next]_vars

-----------------------------------------------------------------------------
(* Properties                                                              *)

TypeOK ==
  /\ config \in Body /\ alive \in BOOLEAN
  /\ status \in {"pending", "running", "completed", "failed"}
  /\ report = NoReport \/ report \in {Error(e) : e \in Errors} \/ report.kind \in {"simulated", "outcome"}
  /\ report.kind = "simulated" => status = "running" /\ DOMAIN report.runs = Cases(config.parameters)
  /\ status = "completed" => report.kind = "outcome" /\ report.score \in 0..100
  /\ status = "failed" => report.kind = "error"

\* The orders of the engine of backtests are those of the health analysis but for
\* mean reversion.
BacktestOrders(p, prices) ==
  IF config.template = "moving_average" THEN Orders(config.template, p, prices)
  ELSE Reversions(prices, Trunc(Given(p, "window", Whole(20))), Given(p, "entryZ", Frac(3, 2)))

OrdersOf(engine, prices) ==
  IF engine = "health" THEN Orders(config.template, config.parameters, prices)
  ELSE BacktestOrders(config.parameters, prices)

Simulated(prices, orders) ==
  [orders |-> orders, account |-> Simulate(prices, orders, Capital, config.fee)]

SimulationOf(engine, prices) == Simulated(prices, OrdersOf(engine, prices))

\* No order and no value depends on a later price: had the series ended
\* earlier, the engine would have done the same up to its last day, when it
\* sells what it holds (_moving_average_events, _mean_reversion_events,
\* _simulate_backtest).
SameUntil(n, early, late) ==
  /\ early.orders = SubSeq(late.orders, 1, n)
  /\ SubSeq(early.account.curve, 1, n - 1) = SubSeq(late.account.curve, 1, n - 1)

NoLookahead(engine, late) ==
  \A n \in 1..(Days - 1) : SameUntil(n, SimulationOf(engine, SubSeq(config.prices, 1, n)), late)

\* Both engines keep their accounts, count no loss as a win, measure the worst
\* loss and never look ahead, whatever the template orders (_simulate_backtest,
\* _equity_metrics).
Accounts(a) ==
  RoundTrips(a, Capital, config.fee) /\ WinsAreGains(a, config.fee) /\ DrawdownFits(a.curve)

Fits(engine, s) == Accounts(s.account) /\ NoLookahead(engine, s)

EngineFits ==
  (/\ status = "running" /\ report = NoReport
   /\ config.template \in Supported /\ Valid(config.template, config.parameters)) =>
     \A engine \in {"health", "backtest"} : Fits(engine, SimulationOf(engine, config.prices))

\* A body that names its parameters, windows of whole days among them.
Named(p) ==
  IF config.template = "moving_average"
  THEN /\ {"shortWindow", "longWindow"} \subseteq DOMAIN p
       /\ p["shortWindow"].den = 1 /\ p["longWindow"].den = 1
  ELSE {"window", "entryZ", "exitZ"} \subseteq DOMAIN p /\ p["window"].den = 1

Room(p) ==
  IF config.template = "moving_average"
  THEN LET short == Given(p, "shortWindow", Whole(5)).num
           long  == Given(p, "longWindow", Whole(20)).num
       IN short >= 2 /\ long >= 2 * short + 2
  ELSE LET entry == Given(p, "entryZ", Frac(3, 2))
           exit  == Given(p, "exitZ", Frac(1, 2))
       IN /\ Given(p, "window", Whole(20)).num >= 2
          /\ exit.num >= 0 /\ Above(entry, Times(Whole(2), exit))

\* A body that names its parameters is analysed exactly if it leaves room for
\* every variation: half the longer window is still longer than the shorter,
\* half the entry is still farther than the exit. A body the engine itself would
\* run, such as windows of 10 and 20, fails without
\* (analyze_parameter_sensitivity, run_simulation).
RoomNeeded ==
  Named(config.parameters) =>
    /\ status = "completed" => Room(config.parameters)
    /\ report = Error("INVALID_CONFIGURATION") => ~Room(config.parameters)

\* Score and warning agree on strategies that gained in the sample: one that
\* kept less than half of it is never called a low risk; and one that lost
\* less outside the sample than in it, without a gain there, loses no points
\* (analyze_out_of_sample, calculate_overfit_score).
ScoreAgrees ==
  status = "completed" =>
    /\ report.warned /\ report.in.num > 0 => report.risk # "LOW"
    /\ report.in.num < 0 /\ Below(report.in, report.out) /\ report.out.num <= 0 =>
         report.score >= 40 + Score(Cardinality(report.high), Cardinality(DOMAIN config.parameters),
                                    Whole(0), report.metrics.tradeCount)
=============================================================================
