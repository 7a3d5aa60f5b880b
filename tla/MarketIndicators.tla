-------------------------- MODULE MarketIndicators --------------------------
(***************************************************************************)
(* Technical indicators (libs/market_data, service.py), computed exactly:  *)
(* prices are integers, values are fractions. The square root of the       *)
(* Bollinger bands is left out, their variance is not. The state is the    *)
(* history of closing prices, which grows by a candle at a time.           *)
(***************************************************************************)
EXTENDS Fractions, SequencesExt

CONSTANTS
  Prices,    \* closing prices
  Periods,   \* periods users ask for; one that is not positive is refused
  MaxCandles \* bound on the history

\* What the constants must be.
Parameters == Prices \subseteq Nat /\ Periods \subseteq Int

VARIABLE close \* the closing prices of the history, oldest first

Values(s) == [i \in DOMAIN s |-> Whole(s[i])]

\* Mutant: the series starts from the first value.
EmaFromFirst(values, period) ==
  LET smoothing == Frac(2, period + 1)
      ema[i \in Nat] == IF i <= period THEN values[1]
                        ELSE Plus(Times(Minus(values[i], ema[i - 1]), smoothing), ema[i - 1])
  IN IF Len(values) < period THEN <<>>
     ELSE [k \in 1..(Len(values) - period + 1) |-> ema[k + period - 1]]

\* _ema_series: from the mean of the first ones on.
EmaSeries(values, period) ==
  LET smoothing == Frac(2, period + 1)
      ema[i \in Nat] == IF i <= period THEN Mean(SubSeq(values, 1, period))
                        ELSE Plus(Times(Minus(values[i], ema[i - 1]), smoothing), ema[i - 1])
  IN IF Len(values) < period THEN <<>>
     ELSE [k \in 1..(Len(values) - period + 1) |-> ema[k + period - 1]]

\* What an indicator returns: ok with a value, and unsupported and
\* insufficient_data without.
Unsupported  == [status |-> "unsupported", value |-> Whole(0)]
Insufficient == [status |-> "insufficient_data", value |-> Whole(0)]
Ok(v)        == [status |-> "ok", value |-> v]

\* A period that is not given is the default, one that is not positive refused.
Indicator(period, required, v) ==
  IF period <= 0 THEN Unsupported
  ELSE IF Len(close) < required THEN Insufficient ELSE Ok(v)

Sma(p) == Indicator(p, p, Mean(LastOf(Values(close), p)))

Ema(p) == Indicator(p, p, LET e == EmaSeries(Values(close), p) IN e[Len(e)])

\* Mutant: a period of n prices has n changes.
RsiShort(p) ==
  LET last   == LastOf(close, p)
      change == [i \in 1..(p - 1) |-> last[i + 1] - last[i]]
      gain   == FoldLeft(LAMBDA n, c : n + (IF c > 0 THEN c ELSE 0), 0, change)
      loss   == FoldLeft(LAMBDA n, c : n - (IF c < 0 THEN c ELSE 0), 0, change)
  IN Indicator(p, p, CASE gain = 0 /\ loss = 0 -> Whole(50)
                       [] gain > 0 /\ loss = 0 -> Whole(100)
                       [] OTHER -> Frac(100 * gain, gain + loss))

\* _calculate_rsi_indicator: 100 - 100 / (1 + gain / loss).
Rsi(p) ==
  LET last   == LastOf(close, p + 1)
      change == [i \in 1..p |-> last[i + 1] - last[i]]
      gain   == FoldLeft(LAMBDA n, c : n + (IF c > 0 THEN c ELSE 0), 0, change)
      loss   == FoldLeft(LAMBDA n, c : n - (IF c < 0 THEN c ELSE 0), 0, change)
  IN Indicator(p, p + 1, CASE gain = 0 /\ loss = 0 -> Whole(50)
                           [] gain > 0 /\ loss = 0 -> Whole(100)
                           [] OTHER -> Frac(100 * gain, gain + loss))

\* Mutant: the two series are subtracted from their beginnings on.
MacdUnaligned(fast, slow) ==
  LET f == EmaSeries(Values(close), fast)
      s == EmaSeries(Values(close), slow)
  IN [k \in DOMAIN s |-> Minus(f[k], s[k])]

\* The line of _calculate_macd_indicator, from the slow period on.
MacdLine(fast, slow) ==
  LET f == EmaSeries(Values(close), fast)
      s == EmaSeries(Values(close), slow)
  IN [k \in DOMAIN s |-> Minus(f[k + slow - fast], s[k])]

WithHistogram(r, h) == [status |-> r.status, value |-> r.value, histogram |-> h]

\* The signal is the line itself until there is enough of it.
Macd(fast, slow, signal) ==
  IF fast <= 0 \/ slow <= 0 \/ signal <= 0 \/ fast >= slow THEN WithHistogram(Unsupported, Whole(0))
  ELSE IF Len(close) < slow THEN WithHistogram(Insufficient, Whole(0))
  ELSE LET line  == MacdLine(fast, slow)
           value == line[Len(line)]
           trail == EmaSeries(line, signal)
       IN WithHistogram(Ok(value), IF trail = <<>> THEN Whole(0) ELSE Minus(value, trail[Len(trail)]))

\* The middle band and the variance the others are drawn from.
Bollinger(p) ==
  LET last == LastOf(Values(close), p)
      away == [i \in DOMAIN last |-> LET d == Minus(last[i], Mean(last)) IN Times(d, d)]
  IN Indicator(p, p, Mean(last)) @@
     [variance |-> IF p > 0 /\ Len(close) >= p THEN Mean(away) ELSE Whole(0)]

-----------------------------------------------------------------------------
\* get_history returns one candle more.
Candle(price) == Len(close) < MaxCandles /\ close' = Append(close, price)

Init == close = <<>>
Next == \E price \in Prices : Candle(price)
Spec == Init /\ [][Next]_close

-----------------------------------------------------------------------------
(* Properties                                                              *)

Within(s, v)   == /\ \E i \in DOMAIN s : Below(Whole(s[i]), v)
                  /\ \E i \in DOMAIN s : Below(v, Whole(s[i]))

\* Moving averages lie between the prices they are taken of, agree when there
\* is just enough of these, and follow a rise: then the shorter period is never
\* below the longer one (_calculate_sma_indicator, _ema_series).
AveragesFit ==
  \A p \in Periods : p > 0 /\ p <= Len(close) =>
    /\ Within(LastOf(close, p), Sma(p).value) /\ Within(close, Ema(p).value)
    /\ p = Len(close) => Sma(p).value = Ema(p).value
    /\ (\A i \in 1..(Len(close) - 1) : close[i] <= close[i + 1]) =>
         \A q \in Periods : p < q /\ q <= Len(close) =>
           Below(Sma(q).value, Sma(p).value) /\ Below(Ema(q).value, Ema(p).value)

\* The relative strength is given from a price more than the period on, is
\* from 0 to 100, the same however far back the
\* history goes, and 100 minus that of the mirrored prices
\* (_calculate_rsi_indicator, against its definition by ups and downs).
Rise(s, p) == FoldLeft(LAMBDA n, i : n + (IF s[i + 1] > s[i] THEN s[i + 1] - s[i] ELSE 0), 0,
                       [k \in 1..p |-> Len(s) - p + k - 1])
Mirror(s)  == [i \in DOMAIN s |-> -s[i]]

StrengthFits ==
  \A p \in Periods : Rsi(p).status = "ok" => Len(close) > p /\
    LET up == Rise(close, p)
        down == Rise(Mirror(close), p)
        v == Rsi(p).value IN
    /\ Below(Whole(0), v) /\ Below(v, Whole(100))
    /\ IF up + down = 0 THEN v = Whole(50)
       ELSE Times(v, Whole(up + down)) = Whole(100 * up)

\* Convergence is offered from the slow period on, and has the sign of a steady
\* rise or fall (_calculate_macd_indicator, from series of two lengths).
ConvergenceFits ==
  \A f, s \in Periods, g \in Periods : f > 0 /\ f < s /\ g > 0 =>
    LET m == Macd(f, s, g) IN
    /\ m.status = "ok" <=> Len(close) >= s
    /\ m.status = "ok" =>
         /\ (\A i \in 1..(Len(close) - 1) : close[i] <= close[i + 1]) => Below(Whole(0), m.value)
         /\ (\A i \in 1..(Len(close) - 1) : close[i] >= close[i + 1]) => Below(m.value, Whole(0))
=============================================================================
