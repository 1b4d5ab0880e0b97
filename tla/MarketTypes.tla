---------------------------- MODULE MarketTypes ----------------------------
(* cpp/include/common/types.h and the validation of data_normalizer.cpp:    *)
(* what the collector, the cleaner and the storage hand to each other.      *)
(* Bars carry no exchange: there is only one.                               *)
EXTENDS Integers, Sequences

(* Mutant: the rows of an hour are labelled as 60 minutes.                 *)
timeframe_to_string_hourly ==
  [TICK |-> "tick", SECOND_1 |-> "1s", MINUTE_1 |-> "1m", MINUTE_5 |-> "5m",
   MINUTE_15 |-> "15m", MINUTE_30 |-> "30m", HOUR_1 |-> "60m",
   HOUR_4 |-> "4h", DAY_1 |-> "1d", WEEK_1 |-> "1w", MONTH_1 |-> "1M"]

timeframe_to_string ==
  [TICK |-> "tick", SECOND_1 |-> "1s", MINUTE_1 |-> "1m", MINUTE_5 |-> "5m",
   MINUTE_15 |-> "15m", MINUTE_30 |-> "30m", HOUR_1 |-> "1h",
   HOUR_4 |-> "4h", DAY_1 |-> "1d", WEEK_1 |-> "1w", MONTH_1 |-> "1M"]

(* A second table, with a default: what it does not know is a minute.       *)
string_to_timeframe(str) ==
  CASE str = "tick" -> "TICK"      [] str = "1s"  -> "SECOND_1"
    [] str = "1m"   -> "MINUTE_1"  [] str = "5m"  -> "MINUTE_5"
    [] str = "15m"  -> "MINUTE_15" [] str = "30m" -> "MINUTE_30"
    [] str = "1h"   -> "HOUR_1"    [] str = "4h"  -> "HOUR_4"
    [] str = "1d"   -> "DAY_1"     [] str = "1w"  -> "WEEK_1"
    [] str = "1M"   -> "MONTH_1"   [] OTHER -> "MINUTE_1"

(* Result<T>: a value, or the code of an error.                             *)
Ok(data)  == [success |-> TRUE,  error_code |-> "SUCCESS", data |-> data]
Err(code) == [success |-> FALSE, error_code |-> code, data |-> <<>>]

(* DataNormalizer::validate_ohlcv.                                          *)
validate_ohlcv(bar) ==
  /\ bar.timestamp > 0 /\ bar.volume >= 0
  /\ bar.open > 0 /\ bar.high > 0 /\ bar.low > 0 /\ bar.close > 0
  /\ bar.low <= bar.open /\ bar.open <= bar.high
  /\ bar.low <= bar.close /\ bar.close <= bar.high
=============================================================================
