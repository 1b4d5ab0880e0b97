--------------------------- MODULE BacktestProofs ---------------------------
(* Theorems about BacktestEngine for every data set, period, rate and       *)
(* number of runs.                                                          *)
EXTENDS BacktestProperties, FiniteSetTheorems, TLAPS

USE UninitialisedAssumption, PeriodAssumption, EngineAssumption
-----------------------------------------------------------------------------
(* Facts about the operators of the ledger.                                 *)

(* The quotient of two integers is an integer.                              *)
LEMMA DivInt ==
  ASSUME NEW x \in Int, NEW y \in Nat \ {0}
  PROVE  x \div y \in Int
OBVIOUS

(* Multiplying a quotient back never exceeds the dividend.                  *)
LEMMA DivMult ==
  ASSUME NEW x \in Int, NEW y \in Nat \ {0}
  PROVE  (x \div y) * y <= x
OBVIOUS

(* The quotient of a natural number is a natural number.                    *)
LEMMA DivNat ==
  ASSUME NEW x \in Nat, NEW y \in Nat \ {0}
  PROVE  x \div y \in Nat
OBVIOUS

(* A share of at most the whole is at most the whole.                       *)
LEMMA ShareBound ==
  ASSUME NEW x \in Nat, NEW r \in 0..RateScale
  PROVE  /\ (x * r) \div RateScale \in Nat
         /\ (x * r) \div RateScale <= x
<1>1. x * r \in Nat /\ x * r <= x * RateScale
  OBVIOUS
<1>2. (x * r) \div RateScale \in Nat
  BY <1>1, DivNat
<1>3. ((x * r) \div RateScale) * RateScale <= x * r
  BY <1>1, DivMult
<1>4. ((x * r) \div RateScale) * RateScale <= x * RateScale
  BY <1>1, <1>2, <1>3
<1> QED
  BY <1>2, <1>4
(* Every price is a positive integer.                                       *)
LEMMA PriceIsNat == \A p \in Prices : p \in Nat \ {0} /\ p \in Int
OBVIOUS

(* The prices and amounts of a fill are numbers, and the lots bought cost   *)
(* at most the amount spent.                                                *)
LEMMA FillTypes ==
  ASSUME NEW close \in Prices, capital \in Int, position \in Positions
  PROVE  /\ buy_price(close) \in Nat \ {0}
         /\ sell_price(close) \in Nat
         /\ buy_amount \in Int
         /\ lots_for(buy_amount, close) \in Int
         /\ closing_pnl(sell_price(close)) \in Int
         /\ sell_pnl(close) \in Int
<1>1. close \in Nat \ {0} /\ SlippageRate \in 0..RateScale
  OBVIOUS
<1>2. /\ calculate_slippage(close) \in Nat
      /\ calculate_slippage(close) <= close
  BY <1>1, ShareBound DEF calculate_slippage
<1>3. buy_price(close) \in Nat \ {0} /\ sell_price(close) \in Nat
  BY <1>1, <1>2 DEF buy_price, sell_price
<1>4. buy_amount \in Int
  BY DivInt DEF buy_amount
<1>5. ASSUME NEW amount \in Int
      PROVE  calculate_commission(amount) \in Int
  <2>1. amount * CommissionRate \in Int
    OBVIOUS
  <2> QED
    BY <2>1, DivInt DEF calculate_commission
<1>6. lots_for(buy_amount, close) \in Int
  <2>1. buy_amount - calculate_commission(buy_amount) \in Int
    BY <1>4, <1>5
  <2> QED
    BY <1>3, <2>1, DivInt DEF lots_for
<1>7. closing_pnl(sell_price(close)) \in Int
  BY <1>3 DEF closing_pnl, Positions
<1>8. sell_pnl(close) \in Int
  <2>1. sell_price(close) * position.quantity \in Int
    BY <1>3 DEF Positions
  <2>2. calculate_commission(sell_price(close) * position.quantity) \in Int
    BY <1>5, <2>1
  <2> QED
    BY <1>7, <2>2 DEF sell_pnl
<1> QED
  BY <1>3, <1>4, <1>6, <1>7, <1>8

(* Repricing keeps the position a position, with the same lots and cost.    *)
LEMMA RepricedType ==
  ASSUME NEW price \in Int, position \in Positions
  PROVE  /\ repriced(price) \in Positions
         /\ repriced(price).quantity = position.quantity
         /\ repriced(price).avg_price = position.avg_price
BY DEF repriced, Positions, has_position

(* The history stays a sequence of prices within its bound, and what it     *)
(* remembers is never nothing.                                              *)
LEMMA RememberType ==
  ASSUME NEW price \in Prices, price_history \in Seq(Prices),
         Len(price_history) <= SlowPeriod + HistoryMargin
  PROVE  /\ remember(price) \in Seq(Prices)
         /\ Len(remember(price)) <= SlowPeriod + HistoryMargin
         /\ remember(price) # <<>>
<1> DEFINE h == Append(price_history, price)
<1>1. h \in Seq(Prices) /\ Len(h) = Len(price_history) + 1
  OBVIOUS
<1>2. CASE Len(h) > SlowPeriod + HistoryMargin
  <2>1. Len(Tail(h)) = Len(h) - 1 /\ Tail(h) \in Seq(Prices)
    BY <1>1, <1>2
  <2>2. remember(price) = Tail(h)
    BY <1>2 DEF remember
  <2>3. Len(Tail(h)) = Len(price_history) /\ Len(price_history) >= 1
    BY <1>1, <1>2, <2>1
  <2> QED
    BY <2>1, <2>2, <2>3
<1>3. CASE ~(Len(h) > SlowPeriod + HistoryMargin)
  BY <1>1, <1>3 DEF remember
<1> QED
  BY <1>2, <1>3

(* A cached average keeps at most two values.                               *)
LEMMA LatestTwoLen ==
  ASSUME NEW ma, NEW prices, NEW period, Len(ma) \in 0..2
  PROVE  Len(latest_two(ma, prices, period)) \in 0..2
<1>1. \A x, y : Len(<<x>>) = 1 /\ Len(<<x, y>>) = 2
  OBVIOUS
<1> QED
  BY <1>1 DEF latest_two

(* detect_cross returns BUY, SELL or NONE.                                  *)
LEMMA DetectCrossType == detect_cross \in {"BUY", "SELL", "NONE"}
<1>1. CASE Len(fast_ma) < 2 \/ Len(slow_ma) < 2
  BY <1>1 DEF detect_cross
<1>2. CASE ~(Len(fast_ma) < 2 \/ Len(slow_ma) < 2)
  <2> DEFINE cross == CASE golden_cross -> "BUY"
                        [] death_cross  -> "SELL"
                        [] OTHER        -> "NONE"
  <2>1. cross \in {"BUY", "SELL", "NONE"}
    BY Zenon
  <2> QED
    BY <1>2, <2>1 DEF detect_cross
<1> QED
  BY <1>1, <1>2

(* generate_signal returns a signal, and lets a BUY through only without a  *)
(* position and a SELL only with one, and never the last signal again.      *)
LEMMA GeneratedSignalType ==
  /\ generated_signal \in Signals
  /\ generated_signal = "BUY" => ~has_position /\ last_signal # "BUY"
  /\ generated_signal = "SELL" => has_position /\ last_signal # "SELL"
BY DetectCrossType DEF generated_signal, held_back, Signals

(* Recording a trade keeps the result's types.                              *)
LEMMA RecordTradeType ==
  ASSUME NEW trade \in Trades, result \in Results, trades \in Seq(Trades),
         record_trade(trade)
  PROVE  result' \in Results /\ trades' \in Seq(Trades)
<1>1. trades' \in Seq(Trades)
  BY DEF record_trade, add_trade
<1>2. Append(result.trades, trade) \in Seq(Trades)
  BY DEF Results
<1>3. trade.pnl \in Int
  BY DEF Trades
<1>4. ASSUME NEW t \in Seq(Trades), NEW n \in Nat, NEW w \in Nat, NEW l \in Nat
      PROVE  [result EXCEPT !.trades = t, !.total_trades = n,
                            !.winning_trades = w, !.losing_trades = l]
               \in Results
  BY DEF Results
<1>5. /\ result.total_trades + 1 \in Nat
      /\ result.winning_trades + (IF trade.pnl > 0 THEN 1 ELSE 0) \in Nat
      /\ result.losing_trades + (IF trade.pnl < 0 THEN 1 ELSE 0) \in Nat
  BY <1>3 DEF Results
<1>6. result' \in Results
  BY <1>2, <1>4, <1>5, Zenon DEF record_trade
<1> QED
  BY <1>1, <1>6
(* Extending or restarting the curve keeps the result's types.              *)
LEMMA CurveUpdateType ==
  ASSUME result \in Results, NEW c \in Seq(Int), NEW t \in Seq(Nat)
  PROVE  [result EXCEPT !.equity_curve = c, !.timestamps = t] \in Results
BY DEF Results
-----------------------------------------------------------------------------
(* Type correctness needs to know that the loop body has a bar to read, and *)
(* that the return is taken relative to a capital that is not negative.     *)
TypeInv == TypeOK /\ LoopAgrees

LEMMA TypeInit == Init => TypeInv
<1> SUFFICES ASSUME Init PROVE TypeInv
  OBVIOUS
<1>1. position \in Positions
  BY DEF Init, NoPosition, Positions
<1>2. result \in Results
  BY DEF Init, FreshResult, Results
<1>3. Len(fast_ma) = 0 /\ Len(slow_ma) = 0
  BY DEF Init
<1>4. trades \in Seq(Trades) /\ price_history \in Seq(Prices)
      /\ data \in Seq(Prices) /\ Len(price_history) = 0
  BY DEF Init
<1>5. TypeOK
  <2>1. capital \in Int /\ initial_capital \in Int
    BY DEF Init
  <2>2. Len(price_history) <= SlowPeriod + HistoryMargin
    BY <1>4
  <2>3. Len(fast_ma) \in 0..2 /\ Len(slow_ma) \in 0..2
    BY <1>3
  <2>4. last_signal = "NONE" /\ has_strategy = FALSE /\ pc = "idle"
        /\ bar = 1 /\ signal = "NONE" /\ runs = 0
    BY DEF Init
  <2>5. last_signal \in {"BUY", "SELL", "NONE"} /\ signal \in Signals
    BY <2>4 DEF Signals
  <2>6. has_strategy \in BOOLEAN
    BY <2>4
  <2>7. /\ pc \in {"idle", "bar", "signal", "process", "record"}
        /\ bar \in Nat \ {0} /\ runs \in 0..MaxRuns
    BY <2>4
  <2> QED
    BY <1>1, <1>2, <1>4, <2>1, <2>2, <2>3, <2>5, <2>6, <2>7 DEF TypeOK
<1>6. LoopAgrees
  BY DEF Init, LoopAgrees
<1> QED
  BY <1>5, <1>6 DEF TypeInv

LEMMA TypeStep == TypeInv /\ [Next]_vars => TypeInv'
<1> SUFFICES ASSUME TypeOK, LoopAgrees, [Next]_vars
             PROVE  TypeOK' /\ LoopAgrees'
  BY DEF TypeInv
<1> USE DEF TypeOK
<1>1. CASE set_strategy
  <2>1. position' \in Positions
    BY <1>1 DEF set_strategy, construct_strategy, construct_base,
                NoPosition, Positions
  <2>2. Len(fast_ma') = 0 /\ Len(slow_ma') = 0
    BY <1>1 DEF set_strategy, construct_strategy
  <2>3. TypeOK'
    BY <1>1, <2>1, <2>2 DEF set_strategy, construct_strategy, construct_base
  <2> QED
    BY <1>1, <2>3 DEF set_strategy, LoopAgrees
<1>2. ASSUME NEW closes \in DataSets, set_data(closes)
      PROVE  TypeOK' /\ LoopAgrees'
  <2>1. TypeOK'
    BY <1>2 DEF set_data, strategy_vars, base_vars
  <2> QED
    BY <1>2, <2>1 DEF set_data, LoopAgrees
<1>3. CASE run_refused
  BY <1>3 DEF run_refused, strategy_vars, base_vars, LoopAgrees
<1>4. CASE run_begin
  <2>1. result' \in Results
    <3>1. <<InitialCapital>> \in Seq(Int) /\ <<1>> \in Seq(Nat)
      OBVIOUS
    <3>2. result \in Results
      OBVIOUS
    <3>3. [result EXCEPT !.equity_curve = <<InitialCapital>>,
                         !.timestamps = <<1>>] \in Results
      BY <3>1, <3>2, CurveUpdateType
    <3> QED
      BY <1>4, <3>3, Zenon DEF run_begin
  <2>2. TypeOK'
    <3>1. capital' \in Int /\ initial_capital' \in Int
      BY <1>4 DEF run_begin, on_init
    <3>2. runs' \in 0..MaxRuns
      <4>1. runs' = runs + 1 /\ runs < MaxRuns
        BY <1>4 DEF run_begin
      <4>2. runs \in Nat /\ MaxRuns \in Nat
        OBVIOUS
      <4> QED
        BY <4>1, <4>2
    <3>3. bar' = 1 /\ pc' = "bar"
      BY <1>4 DEF run_begin
    <3> QED
      BY <1>4, <2>1, <3>1, <3>2, <3>3 DEF run_begin
  <2>3. LoopAgrees'
    BY <1>4 DEF run_begin, on_init, LoopAgrees
  <2> QED
    BY <2>2, <2>3
<1>5. CASE run_on_bar
  <2>1. data[bar] \in Prices
    BY <1>5 DEF run_on_bar
  <2>2. position' \in Positions
    <3>1. repriced(data[bar]) \in Positions
      <4>1. data[bar] \in Int /\ position \in Positions
        BY <2>1, PriceIsNat
      <4> QED
        BY <4>1, RepricedType
    <3> QED
      BY <1>5, <3>1 DEF run_on_bar, on_bar
  <2>3. Len(fast_ma') \in 0..2 /\ Len(slow_ma') \in 0..2
    BY <1>5, LatestTwoLen DEF run_on_bar, on_bar
  <2>4. /\ price_history' \in Seq(Prices)
        /\ Len(price_history') <= SlowPeriod + HistoryMargin
    BY <1>5, <2>1, RememberType DEF run_on_bar, on_bar
  <2>5. TypeOK'
    BY <1>5, <2>2, <2>3, <2>4 DEF run_on_bar
  <2> QED
    BY <1>5, <2>5 DEF run_on_bar, LoopAgrees
<1>6. CASE run_generate_signal
  <2>1. TypeOK'
    BY <1>6, GeneratedSignalType
    DEF run_generate_signal, generate_signal, base_vars, Signals
  <2> QED
    BY <1>6, <2>1 DEF run_generate_signal, base_vars, LoopAgrees
<1>7. CASE process_buy
  <2> DEFINE close == data[bar]
             trade == Trade("BUY", buy_price(close),
                            lots_for(buy_amount, close), 0)
  <2>1. close \in Prices
    BY <1>7 DEF process_buy, LoopAgrees
  <2>2. /\ buy_price(close) \in Nat \ {0}
        /\ lots_for(buy_amount, close) \in Int
    BY <2>1, FillTypes
  <2>3. capital' \in Int /\ position' \in Positions
    BY <1>7, <2>2 DEF process_buy, open_position, Positions
  <2>4. trade \in Trades
    BY <2>2 DEF Trade, Trades
  <2>5. result' \in Results /\ trades' \in Seq(Trades)
    BY <1>7, <2>4, RecordTradeType DEF process_buy
  <2>6. TypeOK'
    BY <1>7, <2>3, <2>5 DEF process_buy, process_unchanged
  <2> QED
    BY <1>7, <2>6 DEF process_buy, process_unchanged, LoopAgrees
<1>8. CASE process_sell
  <2> DEFINE close == data[bar]
             trade == Trade("SELL", sell_price(close), 0, sell_pnl(close))
  <2>1. close \in Prices
    BY <1>8 DEF process_sell, LoopAgrees
  <2>2. sell_price(close) \in Nat /\ sell_pnl(close) \in Int
    BY <2>1, FillTypes
  <2>3. capital' \in Int /\ position' \in Positions
    BY <1>8, <2>2 DEF process_sell, close_position, NoPosition, Positions
  <2>4. trade \in Trades
    BY <2>2 DEF Trade, Trades
  <2>5. result' \in Results /\ trades' \in Seq(Trades)
    BY <1>8, <2>4, RecordTradeType DEF process_sell
  <2>6. TypeOK'
    BY <1>8, <2>3, <2>5 DEF process_sell, process_unchanged
  <2> QED
    BY <1>8, <2>6 DEF process_sell, process_unchanged, LoopAgrees
<1>9. CASE run_record
  <2>1. data[bar] \in Prices
    BY <1>9 DEF run_record, LoopAgrees
  <2>2. marked_position \in Positions
    <3>1. data[bar] \in Int /\ position \in Positions
      BY <2>1, PriceIsNat
    <3> QED
      BY <3>1, RepricedType DEF marked_position
  <2>3. equity(capital, marked_position) \in Int
    BY <2>2 DEF equity, Positions
  <2>4. result' \in Results
    <3>1. /\ Append(result.equity_curve, equity(capital, marked_position))
               \in Seq(Int)
          /\ Append(result.timestamps, bar) \in Seq(Nat)
      BY <2>3 DEF Results
    <3>2. result \in Results
      OBVIOUS
    <3> QED
      BY <1>9, <3>1, <3>2, CurveUpdateType, Zenon DEF run_record
  <2>5. TypeOK'
    BY <1>9, <2>2, <2>4 DEF run_record
  <2> QED
    BY <1>9, <2>5 DEF run_record, LoopAgrees
<1>10. CASE run_end
  <2>1. get_total_equity \in Int
    BY DEF get_total_equity, equity, Positions
  <2>2. get_total_return \in Int
    <3>1. initial_capital \in Nat
      BY <1>10 DEF run_end, LoopAgrees
    <3>2. (get_total_equity - initial_capital) * 100 \in Int
      BY <2>1
    <3> QED
      BY <3>1, <3>2, DivInt DEF get_total_return
  <2>3. result' \in Results
    BY <1>10, <2>1, <2>2 DEF run_end, Results
  <2>4. TypeOK'
    BY <1>10, <2>3 DEF run_end, strategy_vars, base_vars
  <2> QED
    BY <1>10, <2>4 DEF run_end, LoopAgrees
<1>11. CASE UNCHANGED vars
  BY <1>11 DEF vars, strategy_vars, engine_vars, base_vars, LoopAgrees
<1> QED
  BY <1>1, <1>2, <1>3, <1>4, <1>5, <1>6, <1>7, <1>8, <1>9, <1>10, <1>11 DEF Next

(* Every member of the strategy and of the engine keeps its type, and the   *)
(* price history its bound, through any sequence of runs.                   *)
THEOREM TypeCorrect == Spec => [](TypeOK /\ LoopAgrees)
<1> QED
  BY TypeInit, TypeStep, PTL DEF Spec, TypeInv
-----------------------------------------------------------------------------
(* The trade the strategy owes after n trades.                              *)
Side(n) == IF n % 2 = 1 THEN "BUY" ELSE "SELL"

LEMMA SideAlternates ==
  \A n \in Nat : /\ Side(n) \in {"BUY", "SELL"}
                 /\ Side(n) = "BUY" => Side(n + 1) = "SELL"
                 /\ Side(n) = "SELL" => Side(n + 1) = "BUY"
BY DEF Side

(* What makes the alternation inductive: the last signal counts the trades, *)
(* a position is only ever held after a BUY, and the signal being processed *)
(* is the one owed.                                                         *)
ControlInv ==
  /\ \A i \in 1..Len(trades) : trades[i].signal = Side(i)
  /\ pc # "process" =>
       /\ last_signal = (IF Len(trades) = 0 THEN "NONE" ELSE Side(Len(trades)))
       /\ has_position => last_signal = "BUY"
  /\ pc = "process" =>
       /\ signal = Side(Len(trades) + 1) /\ last_signal = signal
       /\ signal = "BUY" <=> ~has_position

LEMMA ControlInit == Init => ControlInv
BY DEF Init, ControlInv, has_position, NoPosition

(* Appending the trade owed extends the alternating list.                   *)
LEMMA AppendOwed ==
  ASSUME trades \in Seq(Trades), NEW trade \in Trades,
         \A i \in 1..Len(trades) : trades[i].signal = Side(i),
         trade.signal = Side(Len(trades) + 1),
         trades' = Append(trades, trade)
  PROVE  /\ Len(trades') = Len(trades) + 1
         /\ \A i \in 1..Len(trades') : trades'[i].signal = Side(i)
OBVIOUS

LEMMA ControlStep ==
  TypeInv /\ TypeInv' /\ ControlInv /\ [Next]_vars => ControlInv'
<1> SUFFICES ASSUME TypeOK, LoopAgrees, TypeOK', ControlInv, [Next]_vars
             PROVE  ControlInv'
  BY DEF TypeInv
<1>1. CASE set_strategy
  <2>1. trades' = <<>> /\ Len(trades') = 0
    BY <1>1 DEF set_strategy, construct_strategy, construct_base
  <2>2. last_signal' = "NONE" /\ pc' = "idle" /\ position' = NoPosition
    BY <1>1 DEF set_strategy, construct_strategy, construct_base
  <2> QED
    BY <2>1, <2>2 DEF ControlInv, has_position, NoPosition
<1>2. ASSUME NEW closes \in DataSets, set_data(closes)
      PROVE  ControlInv'
  BY <1>2 DEF set_data, strategy_vars, base_vars, ControlInv, has_position
<1>3. CASE run_refused
  BY <1>3 DEF run_refused, strategy_vars, base_vars, ControlInv, has_position
<1>4. CASE run_begin
  BY <1>4 DEF run_begin, ControlInv, has_position
<1>5. CASE run_on_bar
  <2>1. has_position' = has_position
    BY <1>5 DEF run_on_bar, on_bar, repriced, has_position
  <2> QED
    BY <1>5, <2>1 DEF run_on_bar, ControlInv
<1>6. CASE run_generate_signal
  <2> DEFINE n == Len(trades)
  <2>1. /\ trades' = trades /\ position' = position
        /\ has_position' = has_position
    BY <1>6 DEF run_generate_signal, base_vars, has_position
  <2>2. n \in Nat
    BY DEF TypeOK
  <2>3. pc = "signal"
    BY <1>6 DEF run_generate_signal
  <2>4. CASE generated_signal \notin {"BUY", "SELL"}
    <3>1. pc' = "record" /\ last_signal' = last_signal
      BY <1>6, <2>4 DEF run_generate_signal, generate_signal
    <3> QED
      BY <2>1, <2>3, <3>1 DEF ControlInv
  <2>5. CASE generated_signal = "BUY"
    <3>1. pc' = "process" /\ last_signal' = "BUY" /\ signal' = "BUY"
      BY <1>6, <2>5 DEF run_generate_signal, generate_signal
    <3>2. ~has_position /\ last_signal # "BUY"
      BY <2>5, GeneratedSignalType
    <3>3. Side(n + 1) = "BUY"
      BY <2>2, <2>3, <3>2, SideAlternates DEF ControlInv, Side
    <3> QED
      BY <2>1, <3>1, <3>2, <3>3 DEF ControlInv
  <2>6. CASE generated_signal = "SELL"
    <3>1. pc' = "process" /\ last_signal' = "SELL" /\ signal' = "SELL"
      BY <1>6, <2>6 DEF run_generate_signal, generate_signal
    <3>2. has_position
      BY <2>6, GeneratedSignalType
    <3>3. Side(n + 1) = "SELL"
      BY <2>2, <2>3, <3>2, SideAlternates DEF ControlInv, Side
    <3> QED
      BY <2>1, <3>1, <3>2, <3>3 DEF ControlInv
  <2> QED
    BY <2>4, <2>5, <2>6
<1>7. CASE process_buy
  <2> DEFINE close == data[bar]
             trade == Trade("BUY", buy_price(close),
                            lots_for(buy_amount, close), 0)
  <2>1. /\ pc = "process" /\ signal = "BUY" /\ pc' = "record"
        /\ last_signal' = last_signal
        /\ trades' = Append(trades, trade)
    BY <1>7 DEF process_buy, process_unchanged, record_trade, add_trade
  <2>2. close \in Prices
    BY <2>1 DEF TypeOK, LoopAgrees
  <2>3. trade \in Trades /\ trade.signal = "BUY"
    <3>1. capital \in Int /\ position \in Positions /\ bar \in Nat
      BY DEF TypeOK
    <3>2. /\ buy_price(close) \in Nat \ {0}
          /\ lots_for(buy_amount, close) \in Int
      BY <2>2, <3>1, FillTypes
    <3> QED
      BY <3>1, <3>2 DEF Trade, Trades
  <2>4. /\ Len(trades') = Len(trades) + 1
        /\ \A i \in 1..Len(trades') : trades'[i].signal = Side(i)
    BY <2>1, <2>3, AppendOwed DEF ControlInv, TypeOK
  <2>5. last_signal' = "BUY" /\ Side(Len(trades')) = "BUY"
    BY <2>1, <2>4 DEF ControlInv
  <2>6. Len(trades') # 0
    BY <2>4 DEF TypeOK
  <2> QED
    BY <2>1, <2>4, <2>5, <2>6 DEF ControlInv
<1>8. CASE process_sell
  <2> DEFINE close == data[bar]
             trade == Trade("SELL", sell_price(close), 0, sell_pnl(close))
  <2>1. /\ pc = "process" /\ signal = "SELL" /\ pc' = "record"
        /\ last_signal' = last_signal
        /\ trades' = Append(trades, trade)
    BY <1>8 DEF process_sell, process_unchanged, record_trade, add_trade
  <2>2. close \in Prices
    BY <2>1 DEF TypeOK, LoopAgrees
  <2>3. trade \in Trades /\ trade.signal = "SELL"
    <3>1. capital \in Int /\ position \in Positions /\ bar \in Nat
      BY DEF TypeOK
    <3>2. sell_price(close) \in Nat /\ sell_pnl(close) \in Int
      BY <2>2, <3>1, FillTypes
    <3> QED
      BY <3>1, <3>2 DEF Trade, Trades
  <2>4. /\ Len(trades') = Len(trades) + 1
        /\ \A i \in 1..Len(trades') : trades'[i].signal = Side(i)
    BY <2>1, <2>3, AppendOwed DEF ControlInv, TypeOK
  <2>5. last_signal' = "SELL" /\ Side(Len(trades')) = "SELL"
    BY <2>1, <2>4 DEF ControlInv
  <2>6. Len(trades') # 0
    BY <2>4 DEF TypeOK
  <2>7. ~has_position'
    <3>1. has_position
      BY <2>1 DEF ControlInv
    <3> QED
      BY <1>8, <3>1 DEF process_sell, close_position, has_position, NoPosition
  <2> QED
    BY <2>1, <2>4, <2>5, <2>6, <2>7 DEF ControlInv
<1>9. CASE run_record
  <2>1. has_position' = has_position
    BY <1>9 DEF run_record, marked_position, repriced, has_position
  <2> QED
    BY <1>9, <2>1 DEF run_record, ControlInv
<1>10. CASE run_end
  BY <1>10 DEF run_end, strategy_vars, base_vars, ControlInv, has_position
<1>11. CASE UNCHANGED vars
  BY <1>11 DEF vars, strategy_vars, engine_vars, base_vars, ControlInv,
               has_position
<1> QED
  BY <1>1, <1>2, <1>3, <1>4, <1>5, <1>6, <1>7, <1>8, <1>9, <1>10, <1>11 DEF Next

LEMMA ControlCorrect == Spec => [](TypeInv /\ ControlInv)
<1> QED
  BY TypeInit, TypeStep, ControlInit, ControlStep, PTL DEF Spec

(* A BUY reaches the engine only without a position and a SELL only with    *)
(* one, so open_position never refuses a trade that is then recorded.       *)
THEOREM SignalsAreExecutable == Spec => []SignalIsExecutable
<1>1. ControlInv => SignalIsExecutable
  BY DEF ControlInv, SignalIsExecutable
<1> QED
  BY <1>1, ControlCorrect, PTL
-----------------------------------------------------------------------------
(* Time order: within a run every recorded trade is older than the bar at   *)
(* hand, and a strategy that has seen no bar has no trade.                  *)
TimeInv ==
  /\ \A i, j \in 1..Len(trades) :
       i < j => trades[i].timestamp < trades[j].timestamp
  /\ pc \in {"bar", "signal", "process"} =>
       \A i \in 1..Len(trades) : trades[i].timestamp < bar
  /\ pc = "record" => \A i \in 1..Len(trades) : trades[i].timestamp <= bar
  /\ price_history = <<>> => trades = <<>>
  /\ pc \in {"signal", "process", "record"} => price_history # <<>>

LEMMA TimeInit == Init => TimeInv
BY DEF Init, TimeInv

(* Timestamps are natural numbers.                                          *)
LEMMA TradeTimes ==
  ASSUME trades \in Seq(Trades)
  PROVE  \A i \in 1..Len(trades) : trades[i].timestamp \in Nat
<1> TAKE i \in 1..Len(trades)
<1>1. trades[i] \in Trades
  OBVIOUS
<1> QED
  BY <1>1 DEF Trades

(* A trade stamped with the bar at hand keeps the list in time order.       *)
LEMMA AppendLatest ==
  ASSUME trades \in Seq(Trades), NEW trade \in Trades, bar \in Nat,
         trade.timestamp = bar, trades' = Append(trades, trade),
         \A i \in 1..Len(trades) : trades[i].timestamp < bar,
         \A i, j \in 1..Len(trades) :
           i < j => trades[i].timestamp < trades[j].timestamp
  PROVE  /\ \A i, j \in 1..Len(trades') :
              i < j => trades'[i].timestamp < trades'[j].timestamp
         /\ \A i \in 1..Len(trades') : trades'[i].timestamp <= bar
<1>1. /\ Len(trades') = Len(trades) + 1
      /\ \A i \in 1..Len(trades) : trades'[i] = trades[i]
      /\ trades'[Len(trades) + 1] = trade
  OBVIOUS
<1>2. \A i \in 1..Len(trades) : trades[i].timestamp \in Nat
  BY TradeTimes
<1> QED
  BY <1>1, <1>2

LEMMA TimeStep ==
  ~ReuseStrategy /\ TypeInv /\ TypeInv' /\ TimeInv /\ [Next]_vars => TimeInv'
<1> SUFFICES ASSUME ~ReuseStrategy, TypeOK, LoopAgrees, TypeOK', TimeInv,
                    [Next]_vars
             PROVE  TimeInv'
  BY DEF TypeInv
<1>0. \A i \in 1..Len(trades) : trades[i].timestamp \in Nat
  BY TradeTimes DEF TypeOK
<1>1. CASE set_strategy
  <2>1. trades' = <<>> /\ Len(trades') = 0 /\ pc' = "idle"
    BY <1>1 DEF set_strategy, construct_strategy, construct_base
  <2> QED
    BY <2>1 DEF TimeInv
<1>2. ASSUME NEW closes \in DataSets, set_data(closes)
      PROVE  TimeInv'
  BY <1>2 DEF set_data, strategy_vars, base_vars, TimeInv
<1>3. CASE run_refused
  BY <1>3 DEF run_refused, strategy_vars, base_vars, TimeInv
<1>4. CASE run_begin
  <2>1. trades = <<>> /\ trades' = trades /\ Len(trades) = 0
    BY <1>4 DEF run_begin, TimeInv
  <2>2. pc' = "bar"
    BY <1>4 DEF run_begin
  <2> QED
    BY <2>1, <2>2 DEF TimeInv
<1>5. CASE run_on_bar
  <2>1. price_history' # <<>>
    <3>1. data[bar] \in Prices
      BY <1>5 DEF run_on_bar, TypeOK
    <3> QED
      BY <1>5, <3>1, RememberType DEF run_on_bar, on_bar, TypeOK
  <2> QED
    BY <1>5, <2>1 DEF run_on_bar, TimeInv
<1>6. CASE run_generate_signal
  <2>1. /\ pc = "signal" /\ pc' \in {"process", "record"} /\ bar' = bar
        /\ trades' = trades /\ price_history' = price_history
    BY <1>6 DEF run_generate_signal, base_vars
  <2>2. \A i \in 1..Len(trades) : trades[i].timestamp <= bar
    BY <1>0, <2>1 DEF TimeInv, TypeOK
  <2> QED
    BY <2>1, <2>2 DEF TimeInv
<1>7. CASE process_buy
  <2> DEFINE close == data[bar]
             trade == Trade("BUY", buy_price(close),
                            lots_for(buy_amount, close), 0)
  <2>1. /\ pc = "process" /\ pc' = "record" /\ bar' = bar
        /\ price_history' = price_history
        /\ trades' = Append(trades, trade)
    BY <1>7 DEF process_buy, process_unchanged, record_trade, add_trade
  <2>2. close \in Prices
    BY <2>1 DEF TypeOK, LoopAgrees
  <2>3. trade \in Trades /\ trade.timestamp = bar
    <3>1. capital \in Int /\ position \in Positions /\ bar \in Nat
      BY DEF TypeOK
    <3>2. /\ buy_price(close) \in Nat \ {0}
          /\ lots_for(buy_amount, close) \in Int
      BY <2>2, <3>1, FillTypes
    <3> QED
      BY <3>1, <3>2 DEF Trade, Trades
  <2>4. /\ \A i, j \in 1..Len(trades') :
             i < j => trades'[i].timestamp < trades'[j].timestamp
        /\ \A i \in 1..Len(trades') : trades'[i].timestamp <= bar
    BY <2>1, <2>3, AppendLatest DEF TimeInv, TypeOK
  <2> QED
    BY <2>1, <2>4 DEF TimeInv
<1>8. CASE process_sell
  <2> DEFINE close == data[bar]
             trade == Trade("SELL", sell_price(close), 0, sell_pnl(close))
  <2>1. /\ pc = "process" /\ pc' = "record" /\ bar' = bar
        /\ price_history' = price_history
        /\ trades' = Append(trades, trade)
    BY <1>8 DEF process_sell, process_unchanged, record_trade, add_trade
  <2>2. close \in Prices
    BY <2>1 DEF TypeOK, LoopAgrees
  <2>3. trade \in Trades /\ trade.timestamp = bar
    <3>1. capital \in Int /\ position \in Positions /\ bar \in Nat
      BY DEF TypeOK
    <3>2. sell_price(close) \in Nat /\ sell_pnl(close) \in Int
      BY <2>2, <3>1, FillTypes
    <3> QED
      BY <3>1, <3>2 DEF Trade, Trades
  <2>4. /\ \A i, j \in 1..Len(trades') :
             i < j => trades'[i].timestamp < trades'[j].timestamp
        /\ \A i \in 1..Len(trades') : trades'[i].timestamp <= bar
    BY <2>1, <2>3, AppendLatest DEF TimeInv, TypeOK
  <2> QED
    BY <2>1, <2>4 DEF TimeInv
<1>9. CASE run_record
  <2>1. /\ pc = "record" /\ pc' = "bar" /\ bar' = bar + 1
        /\ trades' = trades /\ price_history' = price_history
    BY <1>9 DEF run_record
  <2>2. \A i \in 1..Len(trades) : trades[i].timestamp < bar + 1
    BY <1>0, <2>1 DEF TimeInv, TypeOK
  <2> QED
    BY <2>1, <2>2 DEF TimeInv
<1>10. CASE run_end
  BY <1>10 DEF run_end, strategy_vars, base_vars, TimeInv
<1>11. CASE UNCHANGED vars
  BY <1>11 DEF vars, strategy_vars, engine_vars, base_vars, TimeInv
<1> QED
  BY <1>1, <1>2, <1>3, <1>4, <1>5, <1>6, <1>7, <1>8, <1>9, <1>10, <1>11 DEF Next

(* The strategy's trades alternate BUY and SELL and end with its last       *)
(* signal; those of a strategy that runs once are in time order.            *)
THEOREM TradesDoAlternate == Spec => []TradesAlternate
<1>1. TypeInv /\ ControlInv /\ (~ReuseStrategy => TimeInv) => TradesAlternate
  <2> SUFFICES ASSUME TypeOK, ControlInv, ~ReuseStrategy => TimeInv
               PROVE  TradesAlternate
    BY DEF TypeInv
  <2>1. \A i \in 1..Len(trades) :
          trades[i].signal = (IF i % 2 = 1 THEN "BUY" ELSE "SELL")
    BY DEF ControlInv, Side
  <2>2. pc # "process" =>
          last_signal = (IF trades = <<>> THEN "NONE"
                         ELSE trades[Len(trades)].signal)
    <3>1. CASE trades = <<>>
      BY <3>1 DEF ControlInv
    <3>2. CASE trades # <<>>
      <4>1. Len(trades) \in 1..Len(trades) /\ Len(trades) # 0
        BY <3>2 DEF TypeOK
      <4> QED
        BY <3>2, <4>1 DEF ControlInv
    <3> QED
      BY <3>1, <3>2
  <2>3. ~ReuseStrategy =>
          \A i, j \in 1..Len(trades) :
            i < j => trades[i].timestamp < trades[j].timestamp
    BY DEF TimeInv
  <2> QED
    BY <2>1, <2>2, <2>3 DEF TradesAlternate
<1>2. CASE ReuseStrategy
  <2>1. TypeInv /\ ControlInv => TradesAlternate
    BY <1>1, <1>2
  <2> QED
    BY <2>1, ControlCorrect, PTL
<1>3. CASE ~ReuseStrategy
  <2>1. TypeInv /\ ControlInv /\ TimeInv => TradesAlternate
    BY <1>1
  <2>2. TypeInv /\ TypeInv' /\ TimeInv /\ [Next]_vars => TimeInv'
    BY <1>3, TimeStep
  <2> QED
    BY <2>1, <2>2, TimeInit, ControlCorrect, PTL DEF Spec
<1> QED
  BY <1>2, <1>3
-----------------------------------------------------------------------------
(* Solvency also needs the lots a strategy still holds when it is run again *)
(* not to be negative.                                                      *)
MoneyInv == position.quantity >= 0 /\ NeverOverdrawn

(* Half of the capital pays for the lots bought with it.                    *)
LEMMA LotsAreAffordable ==
  ASSUME NEW close \in Prices, capital \in Nat
  PROVE  /\ lots_for(buy_amount, close) \in Nat
         /\ lots_for(buy_amount, close) * buy_price(close) <= capital
<1>1. buy_amount \in Nat /\ buy_amount <= capital
  BY DEF buy_amount
<1>2. /\ calculate_commission(buy_amount) \in Nat
      /\ calculate_commission(buy_amount) <= buy_amount
  BY <1>1, ShareBound DEF calculate_commission
<1>3. buy_price(close) \in Nat \ {0}
  <2>1. close \in Nat \ {0}
    BY PriceIsNat
  <2>2. calculate_slippage(close) \in Nat
    BY <2>1, ShareBound DEF calculate_slippage
  <2> QED
    BY <2>1, <2>2 DEF buy_price
<1> DEFINE rest == buy_amount - calculate_commission(buy_amount)
<1>4. rest \in Nat /\ rest <= capital
  BY <1>1, <1>2
<1>5. lots_for(buy_amount, close) = rest \div buy_price(close)
  BY DEF lots_for
<1>6. rest \div buy_price(close) \in Nat
  BY <1>3, <1>4, DivNat
<1>7. (rest \div buy_price(close)) * buy_price(close) <= rest
  <2> HIDE DEF rest
  <2>1. rest \in Int
    BY <1>4
  <2> QED
    BY <1>3, <2>1, DivMult
<1>8. (rest \div buy_price(close)) * buy_price(close) \in Nat
  BY <1>3, <1>6
<1> QED
  BY <1>4, <1>5, <1>6, <1>7, <1>8

LEMMA MoneyInit == Init => MoneyInv
BY DEF Init, MoneyInv, NeverOverdrawn, NoPosition

LEMMA MoneyStep == TypeInv /\ MoneyInv /\ [Next]_vars => MoneyInv'
<1> SUFFICES ASSUME TypeOK, LoopAgrees, MoneyInv, [Next]_vars
             PROVE  MoneyInv'
  BY DEF TypeInv
<1> USE DEF MoneyInv, NeverOverdrawn
<1>0. capital \in Int /\ position.quantity \in Int
  BY DEF TypeOK, Positions
<1>1. CASE set_strategy
  BY <1>1 DEF set_strategy, construct_strategy, construct_base, NoPosition
<1>2. ASSUME NEW closes \in DataSets, set_data(closes)
      PROVE  MoneyInv'
  BY <1>2 DEF set_data, strategy_vars, base_vars
<1>3. CASE run_refused
  BY <1>3 DEF run_refused, strategy_vars, base_vars
<1>4. CASE run_begin
  <2>1. capital' = InitialCapital /\ position' = position
    BY <1>4 DEF run_begin, on_init
  <2> QED
    BY <2>1
<1>5. CASE run_on_bar
  <2>1. /\ pc = "bar" /\ capital' = capital
        /\ position'.quantity = position.quantity
    BY <1>5 DEF run_on_bar, on_bar, repriced
  <2> QED
    BY <2>1
<1>6. CASE run_generate_signal
  BY <1>6 DEF run_generate_signal, base_vars
<1>7. CASE process_buy
  <2> DEFINE close == data[bar]
             lots == lots_for(buy_amount, close)
  <2>1. pc = "process" /\ close \in Prices
    BY <1>7 DEF process_buy, TypeOK, LoopAgrees
  <2>2. capital \in Nat
    BY <1>0, <2>1
  <2>3. lots \in Nat /\ lots * buy_price(close) <= capital
    BY <2>1, <2>2, LotsAreAffordable
  <2>4. \/ capital' = capital /\ position' = position
        \/ /\ capital' = capital - lots * buy_price(close)
           /\ position'.quantity = lots
    BY <1>7 DEF process_buy, open_position
  <2>5. lots * buy_price(close) \in Int
    <3>1. buy_price(close) \in Nat \ {0}
      BY <1>0, <2>1, FillTypes DEF TypeOK
    <3> QED
      BY <2>3, <3>1
  <2> QED
    BY <2>1, <2>2, <2>3, <2>4, <2>5
<1>8. CASE process_sell
  <2> DEFINE close == data[bar]
  <2>1. pc = "process" /\ close \in Prices
    BY <1>8 DEF process_sell, TypeOK, LoopAgrees
  <2>2. capital \in Nat /\ position.quantity \in Nat
    BY <1>0, <2>1
  <2>3. sell_price(close) \in Nat
    BY <1>0, <2>1, FillTypes DEF TypeOK
  <2>4. \/ capital' = capital /\ position' = position
        \/ /\ capital' = capital + sell_price(close) * position.quantity
           /\ position'.quantity = 0
    BY <1>8 DEF process_sell, close_position, NoPosition
  <2>5. sell_price(close) * position.quantity \in Nat
    BY <2>2, <2>3
  <2> QED
    BY <2>1, <2>2, <2>4, <2>5
<1>9. CASE run_record
  <2>1. /\ pc = "record" /\ capital' = capital
        /\ position'.quantity = position.quantity
    BY <1>9 DEF run_record, marked_position, repriced
  <2> QED
    BY <2>1
<1>10. CASE run_end
  BY <1>10 DEF run_end, strategy_vars, base_vars
<1>11. CASE UNCHANGED vars
  BY <1>11 DEF vars, strategy_vars, engine_vars, base_vars
<1> QED
  BY <1>1, <1>2, <1>3, <1>4, <1>5, <1>6, <1>7, <1>8, <1>9, <1>10, <1>11 DEF Next

(* Whatever the closes and the rates, a run never spends cash it does not   *)
(* have and never holds a negative quantity.                                *)
THEOREM NeverOverdraws == Spec => []NeverOverdrawn
<1>1. MoneyInv => NeverOverdrawn
  BY DEF MoneyInv
<1> QED
  BY <1>1, TypeInit, TypeStep, MoneyInit, MoneyStep, PTL DEF Spec
-----------------------------------------------------------------------------
(* With a fast period beyond the bounded history the fast average never     *)
(* gets a value, so no cross is ever seen.                                  *)
SilentInv == fast_ma = <<>> /\ trades = <<>> /\ pc # "process"

LEMMA SilentStep ==
  FastPeriod > SlowPeriod + HistoryMargin =>
    (TypeInv /\ SilentInv /\ [Next]_vars => SilentInv')
<1> SUFFICES ASSUME FastPeriod > SlowPeriod + HistoryMargin,
                    TypeOK, SilentInv, [Next]_vars
             PROVE  SilentInv'
  BY DEF TypeInv
<1> USE DEF SilentInv
<1>1. CASE set_strategy
  BY <1>1 DEF set_strategy, construct_strategy, construct_base
<1>2. ASSUME NEW closes \in DataSets, set_data(closes)
      PROVE  SilentInv'
  BY <1>2 DEF set_data, strategy_vars, base_vars
<1>3. CASE run_refused
  BY <1>3 DEF run_refused, strategy_vars, base_vars
<1>4. CASE run_begin
  BY <1>4 DEF run_begin
<1>5. CASE run_on_bar
  <2>1. data[bar] \in Prices
    BY <1>5 DEF run_on_bar, TypeOK
  <2>2. Len(remember(data[bar])) < FastPeriod
    <3>1. /\ remember(data[bar]) \in Seq(Prices)
          /\ Len(remember(data[bar])) <= SlowPeriod + HistoryMargin
      BY <2>1, RememberType DEF TypeOK
    <3>2. Len(remember(data[bar])) \in Nat
      BY <3>1
    <3> QED
      BY <3>1, <3>2
  <2>3. fast_ma' = fast_ma
    BY <1>5, <2>2 DEF run_on_bar, on_bar, latest_two
  <2> QED
    BY <1>5, <2>3 DEF run_on_bar
<1>6. CASE run_generate_signal
  <2>1. detect_cross = "NONE"
    <3>1. Len(fast_ma) < 2
      OBVIOUS
    <3> QED
      BY <3>1 DEF detect_cross
  <2>2. generated_signal \notin {"BUY", "SELL"}
    BY <2>1 DEF generated_signal
  <2> QED
    BY <1>6, <2>2 DEF run_generate_signal, base_vars
<1>7. CASE process_buy \/ process_sell
  BY <1>7 DEF process_buy, process_sell
<1>8. CASE run_record
  BY <1>8 DEF run_record
<1>9. CASE run_end
  BY <1>9 DEF run_end, strategy_vars, base_vars
<1>10. CASE UNCHANGED vars
  BY <1>10 DEF vars, strategy_vars, engine_vars, base_vars
<1> QED
  BY <1>1, <1>2, <1>3, <1>4, <1>5, <1>6, <1>7, <1>8, <1>9, <1>10 DEF Next

(* A fast period longer than the history the strategy keeps makes every     *)
(* back test end without a trade, on any data.                              *)
THEOREM SilentBeyondWindow == Spec => []SilentWhenWindowTooShort
<1>1. CASE FastPeriod > SlowPeriod + HistoryMargin
  <2>1. Init => SilentInv
    BY DEF Init, SilentInv
  <2>2. TypeInv /\ SilentInv /\ [Next]_vars => SilentInv'
    BY <1>1, SilentStep
  <2>3. SilentInv => SilentWhenWindowTooShort
    BY DEF SilentInv, SilentWhenWindowTooShort
  <2> QED
    BY <2>1, <2>2, <2>3, TypeInit, TypeStep, PTL DEF Spec
<1>2. CASE ~(FastPeriod > SlowPeriod + HistoryMargin)
  <2>1. TypeInv => SilentWhenWindowTooShort
    BY <1>2 DEF SilentWhenWindowTooShort
  <2> QED
    BY <2>1, TypeInit, TypeStep, PTL DEF Spec
<1> QED
  BY <1>1, <1>2
-----------------------------------------------------------------------------
(* The curve has one point per bar already while the loop body runs.        *)
CurveInv ==
  /\ pc # "idle" => /\ Len(result.equity_curve) = bar
                    /\ Len(result.timestamps) = bar
  /\ CurveIsMarkedToClose

LEMMA CurveInit == Init => CurveInv
BY DEF Init, CurveInv, CurveIsMarkedToClose

(* A position that is not short is worth its lots at the close.             *)
LEMMA MarkedEquity ==
  ASSUME position.quantity \in Nat, capital \in Int, data[bar] \in Int
  PROVE  equity(capital, marked_position) = capital + marked_position.quantity * data[bar]
<1>1. CASE position.quantity > 0
  BY <1>1 DEF equity, marked_position, repriced
<1>2. CASE position.quantity = 0
  BY <1>2 DEF equity, marked_position
<1> QED
  BY <1>1, <1>2

LEMMA CurveStep ==
  TypeInv /\ TypeInv' /\ MoneyInv /\ CurveInv /\ [Next]_vars => CurveInv'
<1> SUFFICES ASSUME TypeOK, LoopAgrees, TypeOK', MoneyInv, CurveInv, [Next]_vars
             PROVE  CurveInv'
  BY DEF TypeInv
<1> USE DEF CurveInv, CurveIsMarkedToClose
<1>0. /\ result.equity_curve \in Seq(Int) /\ result.timestamps \in Seq(Nat)
      /\ result \in Results /\ bar \in Nat /\ data \in Seq(Prices)
  BY DEF TypeOK, Results
<1>1. CASE set_strategy
  BY <1>1 DEF set_strategy
<1>2. ASSUME NEW closes \in DataSets, set_data(closes)
      PROVE  CurveInv'
  BY <1>2 DEF set_data
<1>3. CASE run_refused
  BY <1>3 DEF run_refused
<1>4. CASE run_begin
  <2>1. /\ bar' = 1
        /\ result'.equity_curve = <<InitialCapital>> /\ result'.timestamps = <<1>>
    BY <1>0, <1>4 DEF run_begin, Results
  <2> QED
    BY <2>1
<1>5. CASE run_on_bar
  BY <1>5 DEF run_on_bar
<1>6. CASE run_generate_signal
  BY <1>6 DEF run_generate_signal
<1>7. ASSUME NEW trade, record_trade(trade), pc = "process", pc' = "record", bar' = bar
      PROVE  CurveInv'
  <2>1. /\ result'.equity_curve = result.equity_curve
        /\ result'.timestamps = result.timestamps
    BY <1>0, <1>7 DEF record_trade, Results
  <2> QED
    BY <1>7, <2>1
<1>8. CASE process_buy
  BY <1>7, <1>8 DEF process_buy, process_unchanged
<1>9. CASE process_sell
  BY <1>7, <1>9 DEF process_sell, process_unchanged
<1>10. CASE run_record
  <2>1. /\ pc = "record" /\ pc' = "bar" /\ bar' = bar + 1
        /\ data' = data /\ capital' = capital /\ position' = marked_position
    BY <1>10 DEF run_record
  <2>2. /\ result'.equity_curve =
             Append(result.equity_curve, equity(capital, marked_position))
        /\ result'.timestamps = Append(result.timestamps, bar)
    BY <1>0, <1>10 DEF run_record, Results
  <2>3. equity(capital, marked_position) =
          capital + marked_position.quantity * data[bar]
    <3>1. position.quantity \in Nat /\ capital \in Int
      BY DEF MoneyInv, TypeOK, Positions
    <3>2. data[bar] \in Prices
      BY <2>1 DEF TypeOK, LoopAgrees
    <3> QED
      BY <3>1, <3>2, PriceIsNat, MarkedEquity
  <2>4. /\ Len(result'.equity_curve) = bar' /\ Len(result'.timestamps) = bar'
        /\ Last(result'.equity_curve) = equity(capital, marked_position)
        /\ Last(result'.timestamps) = bar
    BY <1>0, <2>1, <2>2 DEF Last
  <2>5. bar' - 1 = bar
    BY <1>0, <2>1
  <2> QED
    BY <2>1, <2>3, <2>4, <2>5
<1>11. CASE run_end
  BY <1>11 DEF run_end
<1>12. CASE UNCHANGED vars
  BY <1>12 DEF vars, strategy_vars, engine_vars, base_vars
<1> QED
  BY <1>1, <1>2, <1>3, <1>4, <1>5, <1>6, <1>8, <1>9, <1>10, <1>11, <1>12 DEF Next

(* Every recorded point of the equity curve values the position at the      *)
(* close of its bar.                                                        *)
THEOREM CurveMarkedToClose == Spec => []CurveIsMarkedToClose
<1>1. CurveInv => CurveIsMarkedToClose
  BY DEF CurveInv
<1> QED
  BY <1>1, TypeInit, TypeStep, MoneyInit, MoneyStep, CurveInit, CurveStep, PTL DEF Spec
-----------------------------------------------------------------------------
(* A BUY gets at least one lot.                                             *)
EveryBuyFills ==
  pc = "process" /\ signal = "BUY" => lots_for(buy_amount, data[bar]) # 0

(* While a signal is processed it is already the last one remembered.       *)
MatchInv ==
  /\ SignalMatchesPosition
  /\ pc = "process" => /\ signal = last_signal
                       /\ signal \in {"BUY", "SELL"}
                       /\ signal = "BUY" <=> ~has_position

LEMMA MatchStep ==
  TypeInv /\ EveryBuyFills /\ MatchInv /\ [Next]_vars => MatchInv'
<1> SUFFICES ASSUME TypeOK, LoopAgrees, EveryBuyFills, MatchInv, [Next]_vars
             PROVE  MatchInv'
  BY DEF TypeInv
<1> USE DEF MatchInv, SignalMatchesPosition, has_position
<1>1. CASE set_strategy
  BY <1>1 DEF set_strategy, construct_strategy, construct_base, NoPosition
<1>2. ASSUME NEW closes \in DataSets, set_data(closes)
      PROVE  MatchInv'
  BY <1>2 DEF set_data, strategy_vars, base_vars
<1>3. CASE run_refused
  BY <1>3 DEF run_refused, strategy_vars, base_vars
<1>4. CASE run_begin
  BY <1>4 DEF run_begin, on_init
<1>5. CASE run_on_bar
  <2>1. /\ pc = "bar" /\ pc' = "signal" /\ last_signal' = last_signal
        /\ position'.quantity = position.quantity
    BY <1>5 DEF run_on_bar, on_bar, repriced
  <2> QED
    BY <2>1
<1>6. CASE run_generate_signal
  <2>1. /\ pc = "signal" /\ position' = position /\ signal' = generated_signal
        /\ pc' = IF generated_signal \in {"BUY", "SELL"} THEN "process" ELSE "record"
        /\ last_signal' = IF generated_signal \in {"BUY", "SELL"}
                          THEN generated_signal ELSE last_signal
    BY <1>6 DEF run_generate_signal, generate_signal, base_vars
  <2>2. generated_signal \in {"BUY", "SELL"} =>
          (generated_signal = "BUY" <=> ~has_position)
    BY DEF generated_signal, held_back
  <2>3. CASE generated_signal \in {"BUY", "SELL"}
    BY <2>1, <2>2, <2>3
  <2>4. CASE generated_signal \notin {"BUY", "SELL"}
    BY <2>1, <2>4
  <2> QED
    BY <2>3, <2>4
<1>7. CASE process_buy
  <2>1. /\ signal = "BUY" /\ pc = "process" /\ pc' = "record"
        /\ last_signal' = last_signal
        /\ position'.quantity = lots_for(buy_amount, data[bar])
    BY <1>7 DEF process_buy, process_unchanged, open_position
  <2> QED
    BY <2>1 DEF EveryBuyFills
<1>8. CASE process_sell
  <2>1. /\ signal = "SELL" /\ pc = "process" /\ pc' = "record"
        /\ last_signal' = last_signal /\ position'.quantity = 0
    BY <1>8 DEF process_sell, process_unchanged, close_position, NoPosition
  <2> QED
    BY <2>1
<1>9. CASE run_record
  <2>1. /\ pc = "record" /\ pc' = "bar" /\ last_signal' = last_signal
        /\ position'.quantity = position.quantity
    BY <1>9 DEF run_record, marked_position, repriced
  <2> QED
    BY <2>1
<1>10. CASE run_end
  BY <1>10 DEF run_end, strategy_vars, base_vars
<1>11. CASE UNCHANGED vars
  BY <1>11 DEF vars, strategy_vars, engine_vars, base_vars
<1> QED
  BY <1>1, <1>2, <1>3, <1>4, <1>5, <1>6, <1>7, <1>8, <1>9, <1>10, <1>11 DEF Next

(* As long as every BUY gets at least one lot, the strategy's memory of its *)
(* last signal agrees with the position it holds, so the filter against     *)
(* repeated signals never silences it.                                      *)
THEOREM MemoryMatchesPosition == Spec /\ []EveryBuyFills => []SignalMatchesPosition
<1>1. Init => MatchInv
  BY DEF Init, MatchInv, SignalMatchesPosition, has_position, NoPosition
<1>2. MatchInv => SignalMatchesPosition
  BY DEF MatchInv
<1> QED
  BY <1>1, <1>2, TypeInit, TypeStep, MatchStep, PTL DEF Spec
-----------------------------------------------------------------------------
(* The counters count what the trade list holds, and between two bars the   *)
(* last point of the curve is the equity run_end is going to ask for.       *)
Won(log)  == {i \in Sells(log) : log[i].pnl > 0}
Lost(log) == {i \in Sells(log) : log[i].pnl < 0}

SummaryInv ==
  /\ pc # "idle" => data # <<>>
  /\ pc = "bar" /\ bar > 1 => Last(result.equity_curve) = get_total_equity
  /\ SummaryAgrees

LEMMA SummaryInit == Init => SummaryInv
<1> SUFFICES ASSUME Init PROVE SummaryInv
  OBVIOUS
<1>1. /\ result.equity_curve = <<>> /\ result.trades = <<>> /\ result.total_trades = 0
      /\ result.winning_trades = 0 /\ result.losing_trades = 0 /\ pc = "idle"
  BY DEF Init, FreshResult
<1>2. Sells(result.trades) = {}
  BY <1>1 DEF Sells
<1>3. /\ {i \in Sells(result.trades) : result.trades[i].pnl > 0} = {}
      /\ {i \in Sells(result.trades) : result.trades[i].pnl < 0} = {}
  BY <1>2
<1> QED
  BY <1>1, <1>3, FS_EmptySet DEF SummaryInv, SummaryAgrees

(* A further trade adds itself to the closing trades it belongs to.         *)
LEMMA CountsAppend ==
  ASSUME NEW log \in Seq(Trades), NEW trade \in Trades,
         trade.signal = "BUY" => trade.pnl = 0
  PROVE  /\ Cardinality(Won(log)) \in Nat /\ Cardinality(Lost(log)) \in Nat
         /\ Cardinality(Won(Append(log, trade))) =
              Cardinality(Won(log)) + (IF trade.pnl > 0 THEN 1 ELSE 0)
         /\ Cardinality(Lost(Append(log, trade))) =
              Cardinality(Lost(log)) + (IF trade.pnl < 0 THEN 1 ELSE 0)
<1> DEFINE n == Len(log) + 1
           longer == Append(log, trade)
<1>1. /\ Len(log) \in Nat /\ Len(longer) = n /\ longer[n] = trade
      /\ \A i \in 1..Len(log) : longer[i] = log[i]
  OBVIOUS
<1>2. trade.pnl \in Int /\ trade.signal \in {"BUY", "SELL"}
  BY DEF Trades
<1>3. IsFiniteSet(1..Len(log))
  <2>1. 1 \in Int /\ Len(log) \in Int
    BY <1>1
  <2> QED
    BY <2>1, FS_Interval, Zenon
<1>4. Won(log) \in SUBSET (1..Len(log)) /\ Lost(log) \in SUBSET (1..Len(log))
  BY DEF Won, Lost, Sells
<1>5. IsFiniteSet(Won(log)) /\ IsFiniteSet(Lost(log))
  BY <1>3, <1>4, FS_Subset
<1>6. n \notin Won(log) /\ n \notin Lost(log)
  BY <1>1, <1>4
<1>7. Won(longer) = IF trade.pnl > 0 THEN Won(log) \cup {n} ELSE Won(log)
  BY <1>1, <1>2 DEF Won, Sells
<1>8. Lost(longer) = IF trade.pnl < 0 THEN Lost(log) \cup {n} ELSE Lost(log)
  BY <1>1, <1>2 DEF Lost, Sells
<1>9. Cardinality(Won(log)) \in Nat /\ Cardinality(Lost(log)) \in Nat
  BY <1>5, FS_CardinalityType
<1>10. /\ Cardinality(Won(log) \cup {n}) = Cardinality(Won(log)) + 1
       /\ Cardinality(Lost(log) \cup {n}) = Cardinality(Lost(log)) + 1
  BY <1>5, <1>6, FS_AddElement
<1> HIDE DEF n, longer
<1>11. /\ Cardinality(Won(longer)) = Cardinality(Won(log)) + (IF trade.pnl > 0 THEN 1 ELSE 0)
       /\ Cardinality(Lost(longer)) = Cardinality(Lost(log)) + (IF trade.pnl < 0 THEN 1 ELSE 0)
  BY <1>7, <1>8, <1>9, <1>10
<1> QED
  BY <1>9, <1>11 DEF longer

LEMMA SummaryStep == TypeInv /\ SummaryInv /\ [Next]_vars => SummaryInv'
<1> SUFFICES ASSUME TypeOK, LoopAgrees, SummaryInv, [Next]_vars PROVE SummaryInv'
  BY DEF TypeInv
<1>0. /\ result \in Results /\ bar \in Nat \ {0} /\ data \in Seq(Prices)
      /\ result.trades \in Seq(Trades) /\ result.equity_curve \in Seq(Int)
  BY DEF TypeOK, Results
<1> USE DEF SummaryInv, SummaryAgrees
<1>1. CASE set_strategy
  BY <1>1 DEF set_strategy
<1>2. ASSUME NEW closes \in DataSets, set_data(closes) PROVE SummaryInv'
  BY <1>2 DEF set_data
<1>3. CASE run_refused
  BY <1>3 DEF run_refused
<1>4. CASE run_begin
  <2>1. /\ pc' = "bar" /\ bar' = 1 /\ data # <<>> /\ data' = data
        /\ UNCHANGED <<result.trades, result.total_trades, result.winning_trades,
                       result.losing_trades>>
    BY <1>0, <1>4 DEF run_begin, Results
  <2> QED
    BY <2>1 DEF Sells
<1>5. CASE run_on_bar
  BY <1>5 DEF run_on_bar
<1>6. CASE run_generate_signal
  BY <1>6 DEF run_generate_signal
<1>7. ASSUME NEW trade \in Trades, trade.signal = "BUY" => trade.pnl = 0,
             record_trade(trade), pc = "process", pc' = "record", data' = data
      PROVE  SummaryInv'
  <2>1. /\ result'.trades = Append(result.trades, trade)
        /\ result'.total_trades = result.total_trades + 1
        /\ result'.winning_trades = result.winning_trades + (IF trade.pnl > 0 THEN 1 ELSE 0)
        /\ result'.losing_trades = result.losing_trades + (IF trade.pnl < 0 THEN 1 ELSE 0)
    BY <1>0, <1>7 DEF record_trade, Results
  <2>2. result'.total_trades = Len(result'.trades)
    BY <1>0, <2>1
  <2>3. /\ result'.winning_trades = Cardinality(Won(result'.trades))
        /\ result'.losing_trades = Cardinality(Lost(result'.trades))
    <3>1. /\ result.winning_trades = Cardinality(Won(result.trades))
          /\ result.losing_trades = Cardinality(Lost(result.trades))
      BY DEF Won, Lost
    <3> QED
      BY <1>0, <1>7, <2>1, <3>1, CountsAppend
  <2> QED
    BY <1>7, <2>2, <2>3 DEF Won, Lost, Sells
<1>8. ASSUME process_buy \/ process_sell
      PROVE  /\ data[bar] \in Prices /\ bar \in Nat /\ pc = "process" /\ pc' = "record"
             /\ data' = data
  BY <1>8 DEF process_buy, process_sell, process_unchanged, TypeOK, LoopAgrees
<1>9. CASE process_buy
  <2>1. data[bar] \in Prices /\ bar \in Nat
    BY <1>8, <1>9
  <2> DEFINE trade == Trade("BUY", buy_price(data[bar]), lots_for(buy_amount, data[bar]), 0)
  <2>2. trade \in Trades
    <3>1. capital \in Int /\ position \in Positions
      BY DEF TypeOK
    <3>2. /\ buy_price(data[bar]) \in Nat \ {0}
          /\ lots_for(buy_amount, data[bar]) \in Int
      BY <2>1, <3>1, FillTypes, Zenon
    <3> QED
      BY <2>1, <3>2 DEF Trade, Trades
  <2>3. trade.pnl = 0 /\ record_trade(trade)
    BY <1>9 DEF process_buy, Trade
  <2> QED
    BY <1>7, <1>8, <1>9, <2>2, <2>3
<1>10. CASE process_sell
  <2>1. data[bar] \in Prices /\ bar \in Nat
    BY <1>8, <1>10
  <2> DEFINE trade == Trade("SELL", sell_price(data[bar]), 0, sell_pnl(data[bar]))
  <2>2. trade \in Trades /\ trade.signal # "BUY"
    <3>1. capital \in Int /\ position \in Positions
      BY DEF TypeOK
    <3>2. sell_price(data[bar]) \in Nat /\ sell_pnl(data[bar]) \in Int
      BY <2>1, <3>1, FillTypes, Zenon
    <3> QED
      BY <2>1, <3>2 DEF Trade, Trades
  <2>3. record_trade(trade)
    BY <1>10 DEF process_sell
  <2> QED
    BY <1>7, <1>8, <1>10, <2>2, <2>3
<1>11. CASE run_record
  <2>1. /\ pc = "record" /\ pc' = "bar" /\ UNCHANGED <<data, capital>>
        /\ position' = marked_position
    BY <1>11 DEF run_record
  <2>2. /\ result'.equity_curve =
             Append(result.equity_curve, equity(capital, marked_position))
        /\ UNCHANGED <<result.trades, result.total_trades, result.winning_trades,
                       result.losing_trades>>
    BY <1>0, <1>11 DEF run_record, Results
  <2>3. Last(result'.equity_curve) = equity(capital, marked_position)
    BY <1>0, <2>2 DEF Last
  <2>4. get_total_equity' = equity(capital, marked_position)
    BY <2>1 DEF get_total_equity, equity
  <2> QED
    BY <2>1, <2>2, <2>3, <2>4 DEF Sells
<1>12. CASE run_end
  <2>1. /\ pc = "bar" /\ bar > Len(data) /\ pc' = "idle" /\ data # <<>>
    BY <1>12 DEF run_end
  <2>2. bar > 1
    BY <1>0, <2>1
  <2>3. /\ result'.final_equity = get_total_equity
        /\ UNCHANGED <<result.equity_curve, result.trades, result.total_trades,
                       result.winning_trades, result.losing_trades>>
    BY <1>0, <1>12 DEF run_end, Results
  <2> QED
    BY <2>1, <2>2, <2>3 DEF Sells
<1>13. CASE UNCHANGED vars
  BY <1>13 DEF vars, strategy_vars, engine_vars, base_vars, get_total_equity, equity, Sells
<1> QED
  BY <1>1, <1>2, <1>3, <1>4, <1>5, <1>6, <1>9, <1>10, <1>11, <1>12, <1>13 DEF Next

(* The summary of a run agrees with its curve and its trade list.           *)
THEOREM SummaryDoesAgree == Spec => []SummaryAgrees
<1>1. SummaryInv => SummaryAgrees
  BY DEF SummaryInv
<1> QED
  BY <1>1, TypeInit, TypeStep, SummaryInit, SummaryStep, PTL DEF Spec
-----------------------------------------------------------------------------
(* Replaying the trade list is a fold: of one trade more, it is a step.     *)
Account == INSTANCE FoldLemmas WITH
             op <- ReplayTrade, base <- [cash |-> InitialCapital, lots |-> 0]

LEMMA ReplayEmpty == Replay(<<>>) = [cash |-> InitialCapital, lots |-> 0]
BY Account!FoldEmpty, Zenon
   DEF Replay, FoldLeft, Account!FoldLeft, MapThenFoldSet, Account!MapThenFoldSet,
       Max, Account!Max

LEMMA ReplayAppend ==
  ASSUME NEW log \in Seq(Trades), NEW trade \in Trades
  PROVE  Replay(Append(log, trade)) = ReplayTrade(Replay(log), trade)
BY Account!FoldAppend, Zenon
   DEF Replay, FoldLeft, Account!FoldLeft, MapThenFoldSet, Account!MapThenFoldSet,
       Max, Account!Max

(* A strategy that has seen no bar and is not running has done nothing.     *)
ReplayInv ==
  /\ LedgerReplays
  /\ price_history = <<>> => trades = <<>> /\ position.quantity = 0
  /\ pc \in {"signal", "process", "record"} => price_history # <<>>

LEMMA ReplayInit == Init => ReplayInv
BY DEF Init, ReplayInv, LedgerReplays, NoPosition

(* A step that touches neither the cash, nor the lots, nor the trades.      *)
LEMMA ReplayKept ==
  ASSUME ReplayInv, trades' = trades, capital' = capital,
         position'.quantity = position.quantity,
         pc # "idle" \/ price_history # <<>> \/ (pc' = "idle" /\ price_history' = <<>>),
         price_history' = <<>> => price_history = <<>>,
         pc' \in {"signal", "process", "record"} => price_history' # <<>>
  PROVE  ReplayInv'
<1>1. Replay(trades)' = Replay(trades)
  BY Zenon DEF Replay
<1> QED
  BY <1>1 DEF ReplayInv, LedgerReplays

LEMMA ReplayStep ==
  ~ReuseStrategy /\ TypeInv /\ TypeInv' /\ ControlInv /\ ReplayInv /\ [Next]_vars
    => ReplayInv'
<1> SUFFICES ASSUME ~ReuseStrategy, TypeOK, LoopAgrees, TypeOK', ControlInv, ReplayInv,
                    [Next]_vars
             PROVE  ReplayInv'
  BY DEF TypeInv
<1>0. /\ trades \in Seq(Trades) /\ position \in Positions /\ bar \in Nat
      /\ capital \in Int /\ position.quantity \in Int
      /\ pc = "process" => data[bar] \in Prices
  <2>1. pc = "process" => data[bar] \in Prices
    BY DEF TypeOK, LoopAgrees
  <2> QED
    BY <2>1 DEF TypeOK, Positions
<1>1. CASE set_strategy
  BY <1>1 DEF set_strategy, construct_strategy, construct_base, NoPosition, ReplayInv,
              LedgerReplays
<1>2. ASSUME NEW closes \in DataSets, set_data(closes)
      PROVE  ReplayInv'
  BY <1>2, ReplayKept DEF set_data, strategy_vars, base_vars
<1>3. CASE run_refused
  BY <1>3, ReplayKept DEF run_refused, strategy_vars, base_vars
<1>4. CASE run_begin
  <2>1. /\ capital' = InitialCapital /\ trades' = <<>> /\ position'.quantity = 0
        /\ price_history' = <<>> /\ pc' = "bar"
    BY <1>4 DEF run_begin, on_init, ReplayInv
  <2>2. Replay(trades)' = [cash |-> capital', lots |-> position'.quantity]
    BY <2>1, ReplayEmpty DEF Replay
  <2> QED
    BY <2>1, <2>2 DEF ReplayInv, LedgerReplays
<1>5. CASE run_on_bar
  <2>1. /\ pc = "bar" /\ trades' = trades /\ capital' = capital
        /\ position'.quantity = position.quantity
        /\ price_history' = remember(data[bar]) /\ data[bar] \in Prices
    BY <1>5 DEF run_on_bar, on_bar, repriced, TypeOK
  <2>2. price_history' # <<>>
    BY <2>1, RememberType DEF TypeOK
  <2> QED
    BY <2>1, <2>2, ReplayKept
<1>6. CASE run_generate_signal
  <2>1. /\ pc = "signal" /\ trades' = trades /\ capital' = capital
        /\ position' = position /\ price_history' = price_history
    BY <1>6 DEF run_generate_signal, base_vars
  <2> QED
    BY <2>1, ReplayKept DEF ReplayInv
<1>7. CASE process_buy
  <2> DEFINE close == data[bar]
             trade == Trade("BUY", buy_price(close), lots_for(buy_amount, close), 0)
  <2>1. /\ pc = "process" /\ pc' = "record" /\ signal = "BUY" /\ ~has_position
        /\ price_history' = price_history /\ price_history # <<>>
        /\ trades' = Append(trades, trade)
    BY <1>7 DEF process_buy, process_unchanged, record_trade, add_trade, ControlInv,
                ReplayInv
  <2>2. /\ position'.quantity = lots_for(buy_amount, close)
        /\ capital' = capital - lots_for(buy_amount, close) * buy_price(close)
    BY <1>7, <2>1 DEF process_buy, open_position
  <2>3. buy_price(close) \in Nat \ {0} /\ lots_for(buy_amount, close) \in Int
    BY <1>0, <2>1, FillTypes
  <2>4. trade \in Trades /\ trade.signal = "BUY" /\ trade.price = buy_price(close)
        /\ trade.quantity = lots_for(buy_amount, close)
    BY <1>0, <2>3 DEF Trade, Trades
  <2>5. Replay(trades) = [cash |-> capital, lots |-> 0]
    BY <1>0, <2>1 DEF ReplayInv, LedgerReplays, has_position
  <2> HIDE DEF trade, close
  <2>6. Replay(Append(trades, trade)) = ReplayTrade(Replay(trades), trade)
    BY <1>0, <2>4, ReplayAppend
  <2>7. Replay(Append(trades, trade)) = [cash |-> capital', lots |-> position'.quantity]
    BY <1>0, <2>2, <2>3, <2>4, <2>5, <2>6 DEF ReplayTrade
  <2>8. Replay(trades)' = [cash |-> capital', lots |-> position'.quantity]
    BY <2>1, <2>7, Zenon DEF Replay
  <2> QED
    BY <2>1, <2>8 DEF ReplayInv, LedgerReplays
<1>8. CASE process_sell
  <2> DEFINE close == data[bar]
             trade == Trade("SELL", sell_price(close), 0, sell_pnl(close))
  <2>1. /\ pc = "process" /\ pc' = "record" /\ signal = "SELL" /\ has_position
        /\ price_history' = price_history /\ price_history # <<>>
        /\ trades' = Append(trades, trade)
    BY <1>8 DEF process_sell, process_unchanged, record_trade, add_trade, ControlInv,
                ReplayInv
  <2>2. /\ position'.quantity = 0
        /\ capital' = capital + sell_price(close) * position.quantity
    BY <1>8, <2>1 DEF process_sell, close_position, NoPosition
  <2>3. sell_price(close) \in Nat /\ sell_pnl(close) \in Int
    BY <1>0, <2>1, FillTypes
  <2>4. trade \in Trades /\ trade.signal = "SELL" /\ trade.price = sell_price(close)
    BY <1>0, <2>3 DEF Trade, Trades
  <2>5. Replay(trades) = [cash |-> capital, lots |-> position.quantity]
    BY <2>1 DEF ReplayInv, LedgerReplays
  <2> HIDE DEF trade, close
  <2>6. Replay(Append(trades, trade)) = ReplayTrade(Replay(trades), trade)
    BY <1>0, <2>4, ReplayAppend
  <2>7. Replay(Append(trades, trade)) = [cash |-> capital', lots |-> position'.quantity]
    BY <1>0, <2>2, <2>3, <2>4, <2>5, <2>6 DEF ReplayTrade
  <2>8. Replay(trades)' = [cash |-> capital', lots |-> position'.quantity]
    BY <2>1, <2>7, Zenon DEF Replay
  <2> QED
    BY <2>1, <2>8 DEF ReplayInv, LedgerReplays
<1>9. CASE run_record
  <2>1. /\ pc = "record" /\ trades' = trades /\ capital' = capital /\ pc' = "bar"
        /\ position'.quantity = position.quantity /\ price_history' = price_history
    BY <1>9 DEF run_record, marked_position, repriced
  <2> QED
    BY <2>1, ReplayKept DEF ReplayInv
<1>10. CASE run_end
  BY <1>10, ReplayKept DEF run_end, strategy_vars, base_vars
<1>11. CASE UNCHANGED vars
  BY <1>11, ReplayKept DEF vars, strategy_vars, engine_vars, base_vars, ReplayInv
<1> QED
  BY <1>1, <1>2, <1>3, <1>4, <1>5, <1>6, <1>7, <1>8, <1>9, <1>10, <1>11 DEF Next

(* The trade list of a strategy that runs once explains its cash and its    *)
(* lots, at every point of the run and after it.                            *)
THEOREM LedgerDoesReplay ==
  ASSUME ~ReuseStrategy
  PROVE  Spec => []LedgerReplays
<1>1. ReplayInv => LedgerReplays
  BY DEF ReplayInv
<1>2. TypeInv /\ TypeInv' /\ ControlInv /\ ReplayInv /\ [Next]_vars => ReplayInv'
  BY ReplayStep
<1> QED
  BY <1>1, <1>2, ReplayInit, ControlCorrect, PTL DEF Spec
=============================================================================
