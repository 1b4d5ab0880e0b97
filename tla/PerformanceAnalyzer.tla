------------------------ MODULE PerformanceAnalyzer ------------------------
(* cpp/src/analysis/performance_analyzer.cpp: pure functions of an equity   *)
(* curve, its time stamps and a trade list.  A rate is an integer in units  *)
(* of 1/ReturnScale, rounded down (a loss: up).  There are no roots: a      *)
(* deviation is kept as its square, the ratio of a mean to a deviation as   *)
(* the pair of the mean and that square, and an annualised return as the    *)
(* growth and the span it is the power of.  EPSILON is the tolerance within *)
(* which a profit or loss counts as none; the one for the years of a span   *)
(* is less than a millisecond, so that only an empty span falls within it.  *)
EXTENDS Integers, Selection, FiniteSetsExt

CONSTANTS ReturnScale, EPSILON

rate(change, base) == (change * ReturnScale) \div base

total(values) == FoldLeft(+, 0, values)
mean(values)  == total(values) \div Len(values)
mean_square(values) == mean([i \in DOMAIN values |-> values[i] * values[i]])

(* What the ratios and the annualised return are when their guards give up. *)
Zero == <<0, 1>>

positive(x) == x > 0
negative(x) == x < 0

(* The returns over the points with a positive equity before them.          *)
from_positive(step) == step[1] > 0

calculate_returns(curve) ==
  LET steps == [i \in 1..(Len(curve) - 1) |-> <<curve[i], curve[i + 1]>>]
      taken == chosen(steps, from_positive)
  IN  [k \in DOMAIN taken |-> rate(taken[k][2] - taken[k][1], taken[k][1])]

(* Mutant: the peak is that of the whole curve.                             *)
calculate_drawdown_curve_global(curve) ==
  LET peak == Max(ToSet(curve))
  IN  [i \in DOMAIN curve |-> -rate(curve[i] - peak, peak)]

(* The loss since the highest point so far.                                 *)
calculate_drawdown_curve(curve) ==
  LET peak(i) == Max({curve[j] : j \in 1..i})
  IN  [i \in DOMAIN curve |-> -rate(curve[i] - peak(i), peak(i))]

calculate_max_drawdown(curve) ==
  IF curve = <<>> THEN 0 ELSE Max(ToSet(calculate_drawdown_curve(curve)))

(* (final / initial) to the power of one year over the span, less one.      *)
calculate_annualized_return(initial, final, start_time, end_time) ==
  IF initial <= 0 \/ final <= 0 \/ end_time - start_time <= 0
  THEN Zero ELSE <<rate(final - initial, initial), end_time - start_time>>

calculate_cumlative_return(initial, final) ==
  IF initial <= 0 THEN 0 ELSE rate(final - initial, initial)

calculate_volatility(returns) ==
  IF Len(returns) < 2 THEN 0
  ELSE mean_square([i \in DOMAIN returns |-> returns[i] - mean(returns)])

(* Mutant: the gains deviate downwards.                                     *)
calculate_downside_deviation_upside(returns) ==
  LET ups == chosen(returns, positive)
  IN  IF ups = <<>> THEN 0 ELSE mean_square(ups)

(* Of the negative returns alone, against zero.                             *)
calculate_downside_deviation(returns) ==
  LET downs == chosen(returns, negative)
  IN  IF downs = <<>> THEN 0 ELSE mean_square(downs)

over(returns, square) == IF square = 0 THEN Zero ELSE <<mean(returns), square>>

calculate_sharpe_ratio(returns) ==
  IF Len(returns) < 2 THEN Zero ELSE over(returns, calculate_volatility(returns))

calculate_sortino_ratio(returns) ==
  IF returns = <<>> THEN Zero
  ELSE over(returns, calculate_downside_deviation(returns))

calculate_calmar_ratio(annualized, drawdown) ==
  IF drawdown = 0 THEN <<Zero, 1>> ELSE <<annualized, drawdown>>
-----------------------------------------------------------------------------
pnls(trades) == [i \in DOMAIN trades |-> trades[i].pnl]

(* Mutant: every profit counts, as it does in the engine.                   *)
won_exactly(trade) == trade.pnl > 0

won(trade)  == trade.pnl > EPSILON
lost(trade) == trade.pnl < -EPSILON

(* The average profit over the average loss, as the two terms of that       *)
(* fraction.                                                                *)
calculate_profit_loss_ratio(trades) ==
  LET profits == pnls(chosen(trades, won))
      losses  == pnls(chosen(trades, lost))
  IN  IF profits = <<>> \/ losses = <<>> \/ -total(losses) < EPSILON * Len(losses)
      THEN Zero
      ELSE <<total(profits) * Len(losses), -total(losses) * Len(profits)>>

(* Mutant: a trade without a profit or loss ends a streak.                  *)
counted_all(trades) == trades

(* Only the trades with a profit or a loss count, which a BUY never has.    *)
closes(trade) == won(trade) \/ lost(trade)
counted(trades) == chosen(trades, closes)

(* The longest of the streaks that the flags in hits make.                  *)
longest_streak(hits) ==
  LET current[n \in 0..Len(hits)] ==
        IF n = 0 THEN 0 ELSE IF hits[n] THEN current[n-1] + 1 ELSE 0
  IN  Max({current[n] : n \in 0..Len(hits)})

calculate_max_consecutive(trades) ==
  LET closing == counted(trades)
  IN  <<longest_streak([i \in DOMAIN closing |-> won(closing[i])]),
        longest_streak([i \in DOMAIN closing |-> lost(closing[i])])>>

(* Mutant: the search goes on after the SELL that closes the position.      *)
closing_sell_last(trades, i) ==
  {j \in (i + 1)..Len(trades) :
     /\ trades[j].signal = "SELL"
     /\ \A k \in (j + 1)..Len(trades) : trades[k].signal # "SELL"}

(* The first SELL after trade i, if any.                                    *)
closing_sell(trades, i) ==
  {j \in (i + 1)..Len(trades) :
     /\ trades[j].signal = "SELL"
     /\ \A k \in (i + 1)..(j - 1) : trades[k].signal # "SELL"}

(* The time from a BUY to the SELL that closes it, 0 if there is none.      *)
holding_period(trades, i) ==
  IF trades[i].signal = "BUY" /\ closing_sell(trades, i) # {}
  THEN trades[CHOOSE j \in closing_sell(trades, i) : TRUE].timestamp
         - trades[i].timestamp
  ELSE 0

calculate_avg_holding_period(trades) ==
  LET holding_periods ==
        chosen([i \in DOMAIN trades |-> holding_period(trades, i)], positive)
  IN  IF holding_periods = <<>> THEN 0 ELSE mean(holding_periods)

sell_count(trades) == Cardinality({i \in DOMAIN trades : trades[i].signal = "SELL"})

(* Trades per span.                                                         *)
calculate_trade_frequency(total_trades, start_time, end_time) ==
  IF total_trades <= 0 \/ end_time - start_time <= 0
  THEN Zero ELSE <<total_trades, end_time - start_time>>
-----------------------------------------------------------------------------
EmptyMetrics ==
  [cumulative_return |-> 0, annualized_return |-> Zero, max_drawdown |-> 0,
   volatility |-> 0, downside_deviation |-> 0, sharpe_ratio |-> Zero,
   sortino_ratio |-> Zero, calmar_ratio |-> <<Zero, 1>>, profit_loss_ratio |-> Zero,
   max_consecutive_wins |-> 0, max_consecutive_losses |-> 0,
   avg_holding_period |-> 0, trade_frequency_per_year |-> Zero,
   equity_curve |-> <<>>, drawdown_curve |-> <<>>]

analyze(curve, timestamps, trades, initial) ==
  IF curve = <<>> \/ timestamps = <<>> \/ Len(curve) # Len(timestamps)
  THEN EmptyMetrics
  ELSE LET returns    == calculate_returns(curve)
           start_time == Head(timestamps)
           end_time   == Last(timestamps)
           annualized ==
             calculate_annualized_return(initial, Last(curve), start_time, end_time)
           drawdown   == calculate_max_drawdown(curve)
           streaks    == calculate_max_consecutive(trades)
       IN  [cumulative_return |-> calculate_cumlative_return(initial, Last(curve)),
            annualized_return |-> annualized,
            max_drawdown |-> drawdown,
            volatility |-> calculate_volatility(returns),
            downside_deviation |-> calculate_downside_deviation(returns),
            sharpe_ratio |-> calculate_sharpe_ratio(returns),
            sortino_ratio |-> calculate_sortino_ratio(returns),
            calmar_ratio |-> calculate_calmar_ratio(annualized, drawdown),
            profit_loss_ratio |-> calculate_profit_loss_ratio(trades),
            max_consecutive_wins |-> streaks[1],
            max_consecutive_losses |-> streaks[2],
            avg_holding_period |-> calculate_avg_holding_period(trades),
            trade_frequency_per_year |->
              calculate_trade_frequency(sell_count(trades), start_time, end_time),
            equity_curve |-> curve,
            drawdown_curve |-> calculate_drawdown_curve(curve)]
=============================================================================
