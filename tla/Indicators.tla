----------------------------- MODULE Indicators -----------------------------
(* The functions of cpp/src/indicators/technical_indicators.cpp that the    *)
(* strategy does not call but Python does.  An exponential average is an    *)
(* integer, each step rounded down; the averages of the RSI keep their      *)
(* denominators and are exact.                                              *)
EXTENDS TechnicalIndicators, SequencesExt

(* What stands for the exception of validate_params.                        *)
InvalidArgument == [exception |-> "invalid_argument"]

validate_params(values, period) ==
  values # <<>> /\ period > 0 /\ Len(values) >= period

sum_to(values, n) == FoldLeft(+, 0, SubSeq(values, 1, n))

(* The simple average of the first period values, then alpha = 2/(period+1).*)
calculate_ema(prices, period) ==
  LET ema[i \in period..Len(prices)] ==
        IF i = period THEN sum_to(prices, period) \div period
        ELSE (2 * prices[i] + (period - 1) * ema[i-1]) \div (period + 1)
  IN  IF validate_params(prices, period)
      THEN [k \in 1..(Len(prices) - period + 1) |-> ema[k + period - 1]]
      ELSE InvalidArgument

(* Mutant: the shorter average is not aligned with the longer one.          *)
aligned_unshifted(long, short) == [i \in DOMAIN short |-> long[i] - short[i]]

(* Two averages of one series that end at the same bar: their ends align.   *)
aligned(long, short) ==
  [i \in DOMAIN short |-> long[i + Len(long) - Len(short)] - short[i]]

(* For fast <= slow; otherwise the subscript of the code leaves the vector. *)
calculate_macd(prices, fast, slow, signal) ==
  LET dif == aligned(calculate_ema(prices, fast), calculate_ema(prices, slow))
      dea == IF Len(dif) >= signal THEN calculate_ema(dif, signal) ELSE <<>>
  IN  IF validate_params(prices, slow)
      THEN [dif |-> dif, dea |-> dea, histogram |-> aligned(dif, dea)]
      ELSE InvalidArgument

power(base, n) ==
  LET unit[m \in 0..n] == IF m = 0 THEN 1 ELSE unit[m-1] * base
  IN  unit[n]

(* The smoothed average of the changes up to change i, times a power of the *)
(* period that is the same for gains and losses.                            *)
smoothed(changes, period, i) ==
  LET avg[n \in period..i] ==
        IF n = period THEN sum_to(changes, period)
        ELSE avg[n-1] * (period - 1) + changes[n] * power(period, n - period)
  IN  avg[i]

gains(prices)  == [i \in 1..(Len(prices) - 1) |->
                     IF prices[i+1] > prices[i] THEN prices[i+1] - prices[i] ELSE 0]
losses(prices) == [i \in 1..(Len(prices) - 1) |->
                     IF prices[i+1] < prices[i] THEN prices[i] - prices[i+1] ELSE 0]

(* Mutant: without a loss rs is 0.                                          *)
rsi_of_lossless(gain, loss) ==
  IF loss = 0 THEN 0 ELSE (10000 * gain) \div (gain + loss)

(* 100 - 100 / (1 + rs) in hundredths, where rs is 100 without a loss.      *)
rsi_of(gain, loss) ==
  IF loss = 0 THEN 9900 ELSE (10000 * gain) \div (gain + loss)

calculate_rsi(prices, period) ==
  IF validate_params(prices, period + 1)
  THEN [k \in 1..(Len(prices) - period) |->
          rsi_of(smoothed(gains(prices), period, k + period - 1),
                 smoothed(losses(prices), period, k + period - 1))]
  ELSE InvalidArgument
=============================================================================
