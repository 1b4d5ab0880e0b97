------------------------- MODULE AnalysisProperties -------------------------
(* What the figures computed after a back test must get right: the analysis *)
(* of its result, and the indicators of its data.                           *)
EXTENDS BacktestProperties, Indicators, Selection

CONSTANT EPSILON

ASSUME ToleranceAssumption == EPSILON \in Nat

Perf == INSTANCE PerformanceAnalyzer WITH ReturnScale <- RateScale

(* The result of a finished run, and its analysis.                          *)
Finished == pc = "idle" /\ result.equity_curve # <<>>
Metrics ==
  Perf!analyze(result.equity_curve, result.timestamps, result.trades, InitialCapital)

(* The maximal drawdown is the worst loss between any two points of the     *)
(* curve in their order, and the curve of drawdowns has its points.         *)
DrawdownIsWorstLoss ==
  Finished =>
    LET metrics == Metrics
        curve == result.equity_curve
    IN  /\ metrics.max_drawdown =
             Max({-Perf!rate(curve[pair[2]] - curve[pair[1]], curve[pair[1]]) :
                    pair \in {p \in (DOMAIN curve) \X (DOMAIN curve) : p[1] <= p[2]}})
        /\ Len(metrics.drawdown_curve) = Len(curve)

(* The two risks the ratios divide by are computed from different series:   *)
(* each is zero exactly when the equity never fell, so that neither ratio   *)
(* exists without the other's risk, and who ends with less than he started  *)
(* with has seen a risk.                                                    *)
RiskIsSeen ==
  Finished =>
    LET metrics == Metrics
        fell == \E i \in 2..Len(result.equity_curve) :
                  result.equity_curve[i] < result.equity_curve[i - 1]
    IN  /\ (metrics.downside_deviation = 0) = ~fell
        /\ (metrics.max_drawdown = 0) = ~fell
        /\ metrics.sortino_ratio # Perf!Zero => fell
        /\ metrics.calmar_ratio[1] # Perf!Zero => fell
        /\ metrics.cumulative_return < 0 => fell

(* Closed with a profit or a loss beyond the tolerance.                     *)
NotEven(trade) == trade.pnl > EPSILON \/ trade.pnl < -EPSILON

(* The streaks are runs of closing trades: a SELL whose profit or loss is   *)
(* within the tolerance and the BUYs in between do not end one.             *)
StreaksAreRuns ==
  Finished =>
    LET metrics == Metrics
        closed  == chosen(result.trades, NotEven)
        all(i, j, s) == \A k \in i..j : s * closed[k].pnl > 0
        longest(s) == Max({0} \cup {pair[2] - pair[1] + 1 :
          pair \in {p \in (DOMAIN closed) \X (DOMAIN closed) :
                     p[1] <= p[2] /\ all(p[1], p[2], s)}})
    IN  /\ metrics.max_consecutive_wins = longest(1)
        /\ metrics.max_consecutive_losses = longest(-1)

(* A holding period is that of a round trip of the trade list: a position   *)
(* still open has none, and none is counted twice.                          *)
HoldingPeriodsAreRoundTrips ==
  Finished =>
    LET trips == Len(result.trades) \div 2
        span(k) == result.trades[2*k].timestamp - result.trades[2*k - 1].timestamp
    IN  Metrics.avg_holding_period =
          IF trips = 0 THEN 0 ELSE FoldLeft(+, 0, [k \in 1..trips |-> span(k)]) \div trips

(* The closing trades whose profit (side = 1) or loss (side = -1) is within *)
(* the tolerance, but not zero.                                             *)
Negligible(side) ==
  {i \in DOMAIN result.trades :
     0 < side * result.trades[i].pnl /\ side * result.trades[i].pnl <= EPSILON}

(* The engine counts every profit and every loss; the analyser passes over  *)
(* those within its tolerance, and the two differ by exactly these: a ratio *)
(* of profits to losses exists exactly when the engine counted one of each  *)
(* beyond the tolerance, no streak is longer than its count without the     *)
(* others, and the trades per year are the round trips.                     *)
AnalysisAgreesWithSummary ==
  Finished =>
    LET metrics == Metrics
        beyond_wins == result.winning_trades - Cardinality(Negligible(1))
        beyond_losses == result.losing_trades - Cardinality(Negligible(-1))
    IN  /\ (metrics.profit_loss_ratio # Perf!Zero) = (beyond_wins > 0 /\ beyond_losses > 0)
        /\ metrics.max_consecutive_wins <= beyond_wins
        /\ metrics.max_consecutive_losses <= beyond_losses
        /\ metrics.trade_frequency_per_year # Perf!Zero =>
             metrics.trade_frequency_per_year[1] = result.total_trades \div 2
-----------------------------------------------------------------------------
(* The MACD of prices, value by value, from the prices up to its bar.       *)
SameBar(prices, fast, slow, smooth) ==
  LET macd == calculate_macd(prices, fast, slow, smooth)
      upto(bars) == SubSeq(prices, 1, bars)
      at_bar(bars) == Last(calculate_ema(upto(bars), fast))
                        - Last(calculate_ema(upto(bars), slow))
  IN  /\ macd.dif = [i \in 1..(Len(prices) - slow + 1) |-> at_bar(slow + i - 1)]
      /\ \A i \in DOMAIN macd.histogram :
           macd.histogram[i] =
             at_bar(slow + smooth + i - 2)
               - Last(calculate_ema(SubSeq(macd.dif, 1, smooth + i - 1), smooth))

(* Every value of the MACD compares averages that end at the same bar, and  *)
(* knows nothing of later bars: it is what the prices up to its bar alone   *)
(* would have given.                                                        *)
MacdComparesSameBar ==
  Finished => \A fast, slow, smooth \in 1..2 :
    (fast <= slow /\ Len(data) >= slow) => SameBar(data, fast, slow, smooth)

(* The RSI follows the close: a rise never lowers it, and a fall never      *)
(* raises it as long as the averaged gains are at most 100 times the losses *)
(* (a series without a loss is read as if they were exactly that).          *)
FollowsClose(prices, period) ==
  LET rsi == calculate_rsi(prices, period)
      gain(k) == smoothed(gains(prices), period, k + period - 1)
      loss(k) == smoothed(losses(prices), period, k + period - 1)
  IN  \A k \in 2..Len(rsi) :
        /\ prices[k + period] >= prices[k + period - 1] => rsi[k] >= rsi[k - 1]
        /\ (prices[k + period] < prices[k + period - 1]
              /\ gain(k) <= 100 * loss(k)) => rsi[k] <= rsi[k - 1]

(* From bar to bar of a finished run the RSI with period 1 or 2 moves with  *)
(* the close: it does not fall when the close rises or stands still, and it *)
(* does not rise when the close falls, unless the averaged gains exceed 100 *)
(* times the averaged losses.                                               *)
RsiFollowsTheClose ==
  Finished => \A period \in 1..2 : Len(data) > period => FollowsClose(data, period)
=============================================================================
