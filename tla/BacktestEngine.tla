--------------------------- MODULE BacktestEngine ---------------------------
(***************************************************************************)
(* The engine of a backtest (libs/backtest_runner, service.py) and the one *)
(* of the health analysis (libs/strategy_health, engine.py): the orders a  *)
(* template gives over a series of closing prices, and the simulation that *)
(* carries them out. Numbers are exact fractions; z-scores are compared by *)
(* their squares, and the Sharpe ratio is left out. Days count from 1.     *)
(***************************************************************************)
EXTENDS Fractions

\* The mean of w prices up to day i.
Average(prices, w, i) == Frac(Through(LAMBDA n, k : n + prices[i - w + k], 0, w), w)

Square(a) == Times(a, a)

Gap(prices, w, i) == Minus(Whole(prices[i]), Average(prices, w, i))

Variance(prices, w, i) ==
  LET mean == Average(prices, w, i) IN
  Mean([k \in 1..w |-> Square(Minus(Whole(prices[i - w + k]), mean))])

\* The price lies z deviations or more from the mean.
Far(prices, w, i, z) ==
  LET v == Variance(prices, w, i) IN
  v.num # 0 /\ Below(Times(Square(z), v), Square(Gap(prices, w, i)))

-----------------------------------------------------------------------------
(* Orders of a template, one for each day                                  *)

\* Mutant: the averages of tomorrow are crossed today.
CrossingsEarly(prices, short, long) ==
  [i \in DOMAIN prices |->
     IF i < long \/ i = Len(prices) THEN "HOLD"
     ELSE LET above(t) == Above(Average(prices, short, t), Average(prices, long, t))
              below(t) == Above(Average(prices, long, t), Average(prices, short, t)) IN
          CASE ~above(i) /\ above(i + 1) -> "BUY"
            [] ~below(i) /\ below(i + 1) -> "SELL"
            [] OTHER -> "HOLD"]

\* _moving_average_events.
Crossings(prices, short, long) ==
  [i \in DOMAIN prices |->
     IF i <= long THEN "HOLD"
     ELSE LET above(t) == Above(Average(prices, short, t), Average(prices, long, t))
              below(t) == Above(Average(prices, long, t), Average(prices, short, t)) IN
          CASE ~above(i - 1) /\ above(i) -> "BUY"
            [] ~below(i - 1) /\ below(i) -> "SELL"
            [] OTHER -> "HOLD"]

\* _mean_reversion_events of the backtest runner: the exit is as far as the
\* entry, whatever exitZ is.
Reversions(prices, w, entry) ==
  [i \in DOMAIN prices |->
     IF i < w \/ ~Far(prices, w, i, entry) THEN "HOLD"
     ELSE IF Gap(prices, w, i).num < 0 THEN "BUY" ELSE "SELL"]

Recovered(prices, w, i, exit) ==
  /\ Variance(prices, w, i).num # 0
  /\ Gap(prices, w, i).num >= 0 \/ Below(Square(Gap(prices, w, i)),
                                         Times(Square(exit), Variance(prices, w, i)))

\* _mean_reversion_events of the health analysis: it knows whether it is in.
Recoveries(prices, w, entry, exit) ==
  LET order(in, i) ==
        CASE i < w -> "HOLD"
          [] i >= w /\ ~in /\ Far(prices, w, i, entry) /\ Gap(prices, w, i).num < 0 -> "BUY"
          [] i >= w /\ in /\ Recovered(prices, w, i, exit) -> "SELL"
          [] OTHER -> "HOLD"
      given(s, o) == [in |-> o = "BUY" \/ (s.in /\ o # "SELL"), orders |-> Append(s.orders, o)]
      next(s, i) == given(s, order(s.in, i))
  IN Through(next, [in |-> FALSE, orders |-> <<>>], Len(prices)).orders

-----------------------------------------------------------------------------
(* The simulation                                                          *)

\* What is left of an amount after the commission.
Net(amount, fee) == Minus(amount, Times(amount, fee))

Trade(i, side, price, pnl) == [at |-> i, side |-> side, price |-> price, pnl |-> pnl]

Opened(capital) ==
  [cash |-> capital, quantity |-> Whole(0), cost |-> Whole(0), curve |-> <<>>, trades |-> <<>>]

\* All the cash is invested. The cost of the entry counts the fee once more.
Bought(a, i, price, fee) ==
  [a EXCEPT !.quantity = Times(Net(a.cash, fee), Frac(1, price)),
            !.cost = Plus(a.cash, Times(a.cash, fee)),
            !.cash = Whole(0),
            !.trades = Append(@, Trade(i, "BUY", price, Whole(0)))]

\* Mutant: a sale is free.
SoldFree(a, i, price, fee) ==
  LET proceeds == Times(a.quantity, Whole(price)) IN
  [a EXCEPT !.cash = proceeds, !.quantity = Whole(0), !.cost = Whole(0),
            !.trades = Append(@, Trade(i, "SELL", price, Minus(proceeds, a.cost)))]

\* All of the position is sold.
Sold(a, i, price, fee) ==
  LET proceeds == Net(Times(a.quantity, Whole(price)), fee) IN
  [a EXCEPT !.cash = proceeds, !.quantity = Whole(0), !.cost = Whole(0),
            !.trades = Append(@, Trade(i, "SELL", price, Minus(proceeds, a.cost)))]

Holds(a) == a.quantity.num > 0

MayBuy(a, price, fee) == ~Holds(a) /\ price > 0 /\ Net(a.cash, fee).num > 0

Ordered(a, order, i, price, fee) ==
  CASE order = "BUY" /\ MayBuy(a, price, fee) -> Bought(a, i, price, fee)
    [] order = "SELL" /\ Holds(a)             -> Sold(a, i, price, fee)
    [] OTHER                                  -> a

Valued(a, price) ==
  [a EXCEPT !.curve = Append(@, Plus(a.cash, Times(a.quantity, Whole(price))))]

\* What is held at the end is sold, and the last value is what that brings.
Settled(a) == [a EXCEPT !.curve = [@ EXCEPT ![Len(@)] = a.cash]]

Closed(a, prices, fee) ==
  IF Holds(a) THEN Settled(Sold(a, Len(prices), prices[Len(prices)], fee)) ELSE a

\* _simulate_backtest.
Simulate(prices, orders, capital, fee) ==
  LET day(a, i) == Valued(Ordered(a, orders[i], i, prices[i], fee), prices[i])
  IN Closed(Through(day, Opened(capital), Len(prices)), prices, fee)

\* Mutant: the peak is the highest value of all.
DrawdownOfAll(curve) ==
  LET most(m, e) == IF Below(m, e) THEN e ELSE m
      peak == Through(LAMBDA m, i : most(m, curve[i]), Whole(0), Len(curve))
  IN Through(LAMBDA d, i : most(d, Over(Minus(peak, curve[i]), peak)), Whole(0), Len(curve))

\* The largest loss since the highest value before.
Drawdown(curve) ==
  LET most(m, e) == IF Below(m, e) THEN e ELSE m
      next(s, i) == LET e == curve[i]  p == most(s.peak, e) IN
        [peak |-> p, worst |-> IF p.num > 0 THEN most(s.worst, Over(Minus(p, e), p)) ELSE s.worst]
  IN Through(next, [peak |-> curve[1], worst |-> Whole(0)], Len(curve)).worst

Sales(trades) == SelectSeq(trades, LAMBDA t : t.side = "SELL")
Wins(trades)  == SelectSeq(trades, LAMBDA t : t.side = "SELL" /\ t.pnl.num > 0)

NoMetrics == [returnRate |-> Whole(0), maxDrawdown |-> Whole(0), tradeCount |-> 0, winRate |-> Whole(0)]

\* _equity_metrics.
EquityMetrics(a, capital) ==
  IF a.curve = <<>> THEN NoMetrics
  ELSE LET last == a.curve[Len(a.curve)]  n == Len(Sales(a.trades)) IN
       [returnRate  |-> Over(Minus(last, capital), capital),
        maxDrawdown |-> Drawdown(a.curve),
        tradeCount  |-> n,
        winRate     |-> IF n = 0 THEN Whole(0) ELSE Frac(Len(Wins(a.trades)), n)]

-----------------------------------------------------------------------------
(* Properties of one simulation                                            *)

\* The capital grows by what each round trip makes of it, commission of both
\* its ends included, and by nothing else; round trips follow each other, and
\* nothing is held at the end (_simulate_backtest).
Growth(a, fee) ==
  Through(LAMBDA g, k : Times(g, Times(Frac(a.trades[2 * k].price, a.trades[2 * k - 1].price),
                                       Square(Minus(Whole(1), fee)))),
          Whole(1), Len(a.trades) \div 2)

RoundTrips(a, capital, fee) ==
  /\ ~Holds(a) /\ Len(a.trades) % 2 = 0
  /\ \A k \in DOMAIN a.trades : a.trades[k].side = IF k % 2 = 1 THEN "BUY" ELSE "SELL"
  /\ \A k \in 2..Len(a.trades) : a.trades[k - 1].at <= a.trades[k].at
  /\ a.curve # <<>> => a.curve[Len(a.curve)] = Times(capital, Growth(a, fee))

\* A trade that counts as a win has made the account richer, and one that lost
\* is not a win: the fee counted twice in its cost makes up for no loss
\* (sell_pnls, winRate).
WinsAreGains(a, fee) ==
  \A k \in DOMAIN a.trades : a.trades[k].pnl.num > 0 =>
    Above(Times(Frac(a.trades[k].price, a.trades[k - 1].price), Square(Minus(Whole(1), fee))), Whole(1))

\* The drawdown is the loss from some day to a later one, and no two days lost
\* more (_equity_metrics).
Losses(curve) ==
  {Over(Minus(curve[d[1]], curve[d[2]]), curve[d[1]]) :
     d \in {e \in (DOMAIN curve) \X (DOMAIN curve) : e[1] <= e[2] /\ curve[e[1]].num > 0}}

DrawdownFits(curve) ==
  curve # <<>> =>
    /\ Drawdown(curve) \in Losses(curve) \cup {Whole(0)}
    /\ \A l \in Losses(curve) : Below(l, Drawdown(curve))
    /\ Below(Drawdown(curve), Whole(1))
=============================================================================
