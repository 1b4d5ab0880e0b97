------------------------ MODULE TechnicalIndicators ------------------------
(* The pure functions of cpp/src/indicators/technical_indicators.cpp that   *)
(* the strategy calls.  A moving average is a rational; it is represented   *)
(* by the sum of its window, i.e. by the average times the period, so that  *)
(* every value stays an integer and comparisons between averages are exact. *)
EXTENDS Integers, Sequences

(* The inner loop of calculate_ma: prices[i-j] summed for j in 0..period-1  *)
(* (i is 1-based here).                                                     *)
window_sum(prices, i, period) ==
  LET sum[j \in 0..period] ==
        IF j = 0 THEN 0 ELSE sum[j-1] + prices[i - (j-1)]
  IN  sum[period]

(* One average per complete window, oldest first.  The callers modelled     *)
(* here never reach the exceptions of validate_params: they test the length *)
(* first and their periods are positive.                                    *)
calculate_ma(prices, period) ==
  [k \in 1..(Len(prices) - period + 1) |->
     window_sum(prices, k + period - 1, period)]
=============================================================================
