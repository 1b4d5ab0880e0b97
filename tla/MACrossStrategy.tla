-------------------------- MODULE MACrossStrategy --------------------------
(* cpp/src/strategy/ma_cross_strategy.cpp: a strategy that keeps a bounded  *)
(* price history, the last two values of two moving averages, and the last  *)
(* signal it let through.                                                   *)
EXTENDS StrategyBase, TechnicalIndicators

CONSTANTS FastPeriod,      \* MACrossConfig::fast_period
          SlowPeriod,      \* MACrossConfig::slow_period
          HistoryMargin    \* the 10 of "slow_period + 10"

ASSUME PeriodAssumption == /\ FastPeriod \in Nat \ {0}
                           /\ SlowPeriod \in Nat \ {0}
                           /\ HistoryMargin \in Nat

VARIABLES price_history, fast_ma, slow_ma, last_signal

strategy_vars == <<base_vars, price_history, fast_ma, slow_ma, last_signal>>

Signals == {"BUY", "SELL", "HOLD", "NONE"}

(* Mutant: the last signal survives into the next strategy.                 *)
construct_strategy_dirty ==
  /\ construct_base
  /\ price_history' = <<>> /\ fast_ma' = <<>> /\ slow_ma' = <<>>
  /\ UNCHANGED last_signal

construct_strategy ==
  /\ construct_base
  /\ price_history' = <<>>
  /\ fast_ma' = <<>>
  /\ slow_ma' = <<>>
  /\ last_signal' = "NONE"

(* Mutants: nothing is popped; the history is kept one close too short.     *)
remember_all(price) == Append(price_history, price)

remember_less(price) ==
  LET h == Append(price_history, price)
  IN  IF Len(h) >= SlowPeriod + HistoryMargin THEN Tail(h) ELSE h

(* push_back, then pop_front when the history has grown too long.           *)
remember(price) ==
  LET h == Append(price_history, price)
  IN  IF Len(h) > SlowPeriod + HistoryMargin THEN Tail(h) ELSE h

(* update_ma for one of the two averages: push the newest value of the      *)
(* average over prices, when there is one, and keep the last two.           *)
latest_two(ma, prices, period) ==
  IF Len(prices) < period THEN ma
  ELSE LET newest == calculate_ma(prices, period)[Len(prices) - period + 1]
       IN  IF ma = <<>> THEN <<newest>> ELSE <<ma[Len(ma)], newest>>

(* on_bar: history, averages over the new history, then the position's      *)
(* price.                                                                   *)
on_bar(close) ==
  /\ price_history' = remember(close)
  /\ fast_ma' = latest_two(fast_ma, remember(close), FastPeriod)
  /\ slow_ma' = latest_two(slow_ma, remember(close), SlowPeriod)
  /\ position' = IF has_position THEN repriced(close) ELSE position

(* The averages are window sums: multiplying each by the other's period     *)
(* compares the averages themselves.                                        *)
fast_at(i) == fast_ma[i] * SlowPeriod
slow_at(i) == slow_ma[i] * FastPeriod

(* Mutant: touching the other average from below counts as being below it.  *)
golden_cross_strict == fast_at(1) < slow_at(1) /\ fast_at(2) > slow_at(2)

golden_cross == fast_at(1) <= slow_at(1) /\ fast_at(2) > slow_at(2)
death_cross  == fast_at(1) >= slow_at(1) /\ fast_at(2) < slow_at(2)

detect_cross ==
  IF Len(fast_ma) < 2 \/ Len(slow_ma) < 2 THEN "NONE"
  ELSE CASE golden_cross -> "BUY"
         [] death_cross  -> "SELL"
         [] OTHER        -> "NONE"

(* Mutant: a SELL does not ask for a position.                              *)
held_back_without_sell ==
  \/ detect_cross = "BUY" /\ has_position
  \/ detect_cross = last_signal

(* A cross is held back when it would repeat what the position or the last  *)
(* signal already says.  No cross at all before the first signal is held    *)
(* back too: last_signal is then "NONE".                                    *)
held_back ==
  \/ detect_cross = "BUY" /\ has_position
  \/ detect_cross = "SELL" /\ ~has_position
  \/ detect_cross = last_signal

(* What generate_signal returns.                                            *)
generated_signal ==
  IF Len(price_history) < SlowPeriod THEN "NONE"
  ELSE IF held_back THEN "HOLD" ELSE detect_cross

(* Mutant: the signal let through is not remembered.                        *)
generate_signal_forgetful == UNCHANGED last_signal

(* ... and what it changes.                                                 *)
generate_signal ==
  last_signal' = IF generated_signal \in {"BUY", "SELL"}
                 THEN generated_signal ELSE last_signal
=============================================================================
