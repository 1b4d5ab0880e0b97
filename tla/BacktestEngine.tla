--------------------------- MODULE BacktestEngine ---------------------------
(* cpp/src/backtest/backtest_engine.cpp driving one MACrossStrategy: the    *)
(* caller hands a strategy and data to the engine and calls run(), which    *)
(* calls on_bar, generate_signal and process_signal for each bar and        *)
(* records the equity.  run() is one thread; pc is its position in the      *)
(* loop, so that each call it makes is an action of its own.                *)
EXTENDS MACrossStrategy

CONSTANTS Prices,          \* closes a bar can have
          DataSets,        \* the sequences of closes set_data may be given
          InitialCapital,  \* BacktestConfig::initial_capital
          CommissionRate,  \* BacktestConfig::commission_rate * RateScale
          SlippageRate,    \* BacktestConfig::slippage_rate * RateScale
          RateScale,       \* the unit of the two rates
          PositionSize,    \* MACrossConfig::position_size * RateScale
          MaxRuns,         \* bound: calls of run()
          ReuseStrategy    \* may a strategy that has run be run again?

ASSUME EngineAssumption ==
  /\ Prices \subseteq Nat \ {0}
  /\ DataSets \subseteq Seq(Prices)
  /\ InitialCapital \in Nat
  /\ RateScale \in Nat \ {0}
  /\ CommissionRate \in 0..RateScale
  /\ SlippageRate \in 0..RateScale
  /\ MaxRuns \in Nat
  /\ ReuseStrategy \in BOOLEAN

VARIABLES has_strategy,  \* strategy_ is not null
          data,          \* data_: the closes; bar i has timestamp i
          result,        \* result_
          pc,            \* where run() is, "idle" outside run()
          bar,           \* the bar of the loop
          signal,        \* the local variable of the loop
          runs           \* calls of run() so far

engine_vars == <<has_strategy, data, result, pc, bar, signal, runs>>
vars == <<strategy_vars, engine_vars>>

(* The constructors of BacktestResult and BacktestEngine.                   *)
FreshResult ==
  [initial_capital |-> InitialCapital, final_capital |-> 0, final_equity |-> 0,
   total_return |-> 0, total_trades |-> 0, winning_trades |-> 0,
   losing_trades |-> 0, trades |-> <<>>, equity_curve |-> <<>>,
   timestamps |-> <<>>]

Init ==
  /\ has_strategy = FALSE
  /\ data = <<>>
  /\ result = FreshResult
  /\ pc = "idle" /\ bar = 1 /\ signal = "NONE" /\ runs = 0
  /\ capital \in Uninitialised /\ initial_capital \in Uninitialised
  /\ position = NoPosition /\ trades = <<>>
  /\ price_history = <<>> /\ fast_ma = <<>> /\ slow_ma = <<>>
  /\ last_signal = "NONE"

(* The caller, between runs.  It prepares no run beyond the bound, and sets *)
(* the data once before the first run (a bound: replacing data no run has   *)
(* used leaves the state set_data alone would).                             *)
set_strategy ==
  /\ pc = "idle" /\ runs < MaxRuns
  /\ construct_strategy
  /\ has_strategy' = TRUE
  /\ UNCHANGED <<data, result, pc, bar, signal, runs>>

set_data(closes) ==
  /\ pc = "idle" /\ runs < MaxRuns
  /\ runs = 0 => data = <<>>
  /\ data' = closes
  /\ UNCHANGED <<strategy_vars, has_strategy, result, pc, bar, signal, runs>>

(* run() returns at once without a strategy or without data.                *)
run_refused ==
  /\ pc = "idle" /\ runs < MaxRuns
  /\ ~has_strategy \/ data = <<>>
  /\ runs' = runs + 1
  /\ UNCHANGED <<strategy_vars, has_strategy, data, result, pc, bar, signal>>

(* Mutant: the curve of the run before is not cleared.                      *)
run_begin_appending ==
  /\ pc = "idle" /\ runs < MaxRuns
  /\ has_strategy /\ data # <<>>
  /\ ReuseStrategy \/ price_history = <<>>
  /\ on_init(InitialCapital)
  /\ result' = [result EXCEPT !.equity_curve = Append(@, InitialCapital),
                              !.timestamps = Append(@, 1)]
  /\ pc' = "bar" /\ bar' = 1 /\ runs' = runs + 1
  /\ UNCHANGED <<position, trades, price_history, fast_ma, slow_ma,
                 last_signal, has_strategy, data, signal>>

(* Mutant: the counters of the run before are cleared, its trades are not.  *)
run_begin_recounting ==
  /\ pc = "idle" /\ runs < MaxRuns
  /\ has_strategy /\ data # <<>>
  /\ ReuseStrategy \/ price_history = <<>>
  /\ on_init(InitialCapital)
  /\ result' = [result EXCEPT !.equity_curve = <<InitialCapital>>,
                              !.timestamps = <<1>>, !.total_trades = 0,
                              !.winning_trades = 0, !.losing_trades = 0]
  /\ pc' = "bar" /\ bar' = 1 /\ runs' = runs + 1
  /\ UNCHANGED <<position, trades, price_history, fast_ma, slow_ma,
                 last_signal, has_strategy, data, signal>>

(* A strategy that has not run has an empty price history.                  *)
run_begin ==
  /\ pc = "idle" /\ runs < MaxRuns
  /\ has_strategy /\ data # <<>>
  /\ ReuseStrategy \/ price_history = <<>>
  /\ on_init(InitialCapital)
  /\ result' = [result EXCEPT !.equity_curve = <<InitialCapital>>,
                              !.timestamps = <<1>>]
  /\ pc' = "bar" /\ bar' = 1 /\ runs' = runs + 1
  /\ UNCHANGED <<position, trades, price_history, fast_ma, slow_ma,
                 last_signal, has_strategy, data, signal>>

run_on_bar ==
  /\ pc = "bar" /\ bar <= Len(data)
  /\ on_bar(data[bar])
  /\ pc' = "signal"
  /\ UNCHANGED <<capital, initial_capital, trades, last_signal,
                 has_strategy, data, result, bar, signal, runs>>

run_generate_signal ==
  /\ pc = "signal"
  /\ signal' = generated_signal
  /\ generate_signal
  /\ pc' = IF generated_signal \in {"BUY", "SELL"} THEN "process" ELSE "record"
  /\ UNCHANGED <<base_vars, price_history, fast_ma, slow_ma,
                 has_strategy, data, result, bar, runs>>
-----------------------------------------------------------------------------
calculate_commission(amount) == (amount * CommissionRate) \div RateScale
calculate_slippage(price) == (price * SlippageRate) \div RateScale

buy_price(close)  == close + calculate_slippage(close)
sell_price(close) == close - calculate_slippage(close)

(* The lots that amount buys once its commission is set aside.              *)
lots_for(amount, close) ==
  (amount - calculate_commission(amount)) \div buy_price(close)

(* Mutant: capital / 0.5 for capital * 0.5.                                 *)
buy_amount_divided == capital * 2

(* Half of the capital, whatever position_size says.                        *)
buy_amount == capital \div 2

sell_pnl(close) ==
  closing_pnl(sell_price(close))
    - calculate_commission(sell_price(close) * position.quantity)

Trade(s, price, quantity, pnl) ==
  [timestamp |-> bar, signal |-> s, price |-> price,
   quantity |-> quantity, pnl |-> pnl]

(* Mutant: a profit of zero counts as a loss.                               *)
record_trade_zero_loses(trade) ==
  /\ add_trade(trade)
  /\ result' =
       [result EXCEPT
          !.trades = Append(@, trade),
          !.total_trades = @ + 1,
          !.winning_trades = @ + (IF trade.pnl > 0 THEN 1 ELSE 0),
          !.losing_trades = @ + (IF trade.pnl <= 0 THEN 1 ELSE 0)]

(* Both trade lists get the trade; the counters count closing trades by the *)
(* sign of their profit.                                                    *)
record_trade(trade) ==
  /\ add_trade(trade)
  /\ result' =
       [result EXCEPT
          !.trades = Append(@, trade),
          !.total_trades = @ + 1,
          !.winning_trades = @ + (IF trade.pnl > 0 THEN 1 ELSE 0),
          !.losing_trades = @ + (IF trade.pnl < 0 THEN 1 ELSE 0)]

process_unchanged ==
  UNCHANGED <<initial_capital, price_history, fast_ma, slow_ma, last_signal,
              has_strategy, data, bar, signal, runs>>

(* Mutant: the trade records the close, not the slipped price paid.         *)
process_buy_unslipped ==
  /\ pc = "process" /\ signal = "BUY"
  /\ open_position(lots_for(buy_amount, data[bar]), buy_price(data[bar]))
  /\ record_trade(Trade("BUY", data[bar], lots_for(buy_amount, data[bar]), 0))
  /\ pc' = "record"
  /\ process_unchanged

(* The trade is recorded whether or not open_position opened anything.      *)
process_buy ==
  /\ pc = "process" /\ signal = "BUY"
  /\ open_position(lots_for(buy_amount, data[bar]), buy_price(data[bar]))
  /\ record_trade(Trade("BUY", buy_price(data[bar]),
                        lots_for(buy_amount, data[bar]), 0))
  /\ pc' = "record"
  /\ process_unchanged

process_sell ==
  /\ pc = "process" /\ signal = "SELL"
  /\ close_position(sell_price(data[bar]))
  /\ record_trade(Trade("SELL", sell_price(data[bar]), 0, sell_pnl(data[bar])))
  /\ pc' = "record"
  /\ process_unchanged

(* Mutant: the position keeps the price the fill paid.                      *)
marked_position_at_fill == position

(* End of the loop body: reprice a long position, record the equity.        *)
marked_position == IF position.quantity > 0 THEN repriced(data[bar]) ELSE position

run_record ==
  /\ pc = "record"
  /\ position' = marked_position
  /\ result' = [result EXCEPT
                  !.equity_curve = Append(@, equity(capital, marked_position)),
                  !.timestamps = Append(@, bar)]
  /\ bar' = bar + 1 /\ pc' = "bar"
  /\ UNCHANGED <<capital, initial_capital, trades, price_history, fast_ma,
                 slow_ma, last_signal, has_strategy, data, signal, runs>>

run_end ==
  /\ pc = "bar" /\ bar > Len(data)
  /\ result' = [result EXCEPT !.final_capital = capital,
                              !.final_equity = get_total_equity,
                              !.total_return = get_total_return]
  /\ pc' = "idle"
  /\ UNCHANGED <<strategy_vars, has_strategy, data, bar, signal, runs>>

Next ==
  \/ set_strategy
  \/ \E closes \in DataSets : set_data(closes)
  \/ run_refused \/ run_begin
  \/ run_on_bar \/ run_generate_signal \/ process_buy \/ process_sell
  \/ run_record \/ run_end

Spec == Init /\ [][Next]_vars
=============================================================================
