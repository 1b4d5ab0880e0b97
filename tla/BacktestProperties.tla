------------------------- MODULE BacktestProperties -------------------------
(* What a back test must get right, stated over BacktestEngine.             *)
EXTENDS BacktestEngine, SequencesExt, FiniteSetsExt

Positions == [quantity : Int, avg_price : Int, current_price : Int,
              unrealized_pnl : Int]

Trades == [timestamp : Nat, signal : {"BUY", "SELL"}, price : Int,
           quantity : Int, pnl : Int]

Results == [initial_capital : Int, final_capital : Int, final_equity : Int,
            total_return : Int, total_trades : Nat, winning_trades : Nat,
            losing_trades : Nat, trades : Seq(Trades),
            equity_curve : Seq(Int), timestamps : Seq(Nat)]

(* Types of the strategy's and the engine's members.  Of the two cached     *)
(* averages it says how many values they keep.                              *)
TypeOK ==
  /\ capital \in Int /\ initial_capital \in Int
  /\ position \in Positions /\ trades \in Seq(Trades)
  /\ price_history \in Seq(Prices)
  /\ Len(price_history) <= SlowPeriod + HistoryMargin
  /\ Len(fast_ma) \in 0..2 /\ Len(slow_ma) \in 0..2
  /\ last_signal \in {"BUY", "SELL", "NONE"}
  /\ has_strategy \in BOOLEAN /\ data \in Seq(Prices)
  /\ result \in Results
  /\ pc \in {"idle", "bar", "signal", "process", "record"}
  /\ bar \in Nat \ {0} /\ signal \in Signals /\ runs \in 0..MaxRuns

(* Inside the loop body there is a bar to work on, and during a run the     *)
(* strategy's base for its return is the engine's initial capital.          *)
LoopAgrees ==
  /\ pc # "idle" => initial_capital = InitialCapital /\ bar <= Len(data) + 1
  /\ pc \in {"signal", "process", "record"} => bar <= Len(data)

(* process_signal never asks for the impossible: a BUY it receives finds no *)
(* position (open_position would refuse it and the trade be recorded all    *)
(* the same) and a SELL finds one (close_position would return 0).          *)
SignalIsExecutable ==
  pc = "process" => (signal = "BUY" <=> ~has_position)

(* The strategy remembers the side it is on: outside process_signal a       *)
(* position is held exactly when the last signal let through was a BUY, so  *)
(* the repeat filter never holds back a cross the position filter allows.   *)
SignalMatchesPosition ==
  pc # "process" => (has_position <=> last_signal = "BUY")

(* The strategy's trade list alternates BUY and SELL from a BUY on and ends *)
(* with the last signal let through; for a strategy that runs once it is    *)
(* also in time order.                                                      *)
TradesAlternate ==
  /\ \A i \in 1..Len(trades) :
       trades[i].signal = (IF i % 2 = 1 THEN "BUY" ELSE "SELL")
  /\ pc # "process" =>
       last_signal = (IF trades = <<>> THEN "NONE" ELSE trades[Len(trades)].signal)
  /\ ~ReuseStrategy =>
       \A i, j \in 1..Len(trades) :
         i < j => trades[i].timestamp < trades[j].timestamp

(* Replaying the trade list alone, where a SELL sells the lots of the BUY   *)
(* before it, from the initial capital.                                     *)
ReplayTrade(account, trade) ==
  IF trade.signal = "BUY"
  THEN [cash |-> account.cash - trade.price * trade.quantity,
        lots |-> account.lots + trade.quantity]
  ELSE [cash |-> account.cash + trade.price * account.lots, lots |-> 0]

Replay(log) ==
  FoldLeft(ReplayTrade, [cash |-> InitialCapital, lots |-> 0], log)

(* The trade list explains the ledger: replaying it gives the strategy's    *)
(* cash and its lots at every point of a run and after it.                  *)
LedgerReplays ==
  (pc # "idle" \/ price_history # <<>>) =>
    Replay(trades) = [cash |-> capital, lots |-> position.quantity]

(* A recorded point of the equity curve values the position at the close of *)
(* the bar it stands for, never at the price the fill paid, and the curve   *)
(* and its timestamps have the initial point and one point per bar.         *)
CurveIsMarkedToClose ==
  pc = "bar" =>
    /\ Len(result.equity_curve) = bar
    /\ Len(result.timestamps) = bar
    /\ bar > 1 =>
         /\ Last(result.timestamps) = bar - 1
         /\ Last(result.equity_curve) =
              capital + position.quantity * data[bar - 1]

(* The summary a finished run leaves agrees with its curve, and the         *)
(* counters with its trade list: every profit or loss counted is that of a  *)
(* closing trade.                                                           *)
Sells(log) == {i \in 1..Len(log) : log[i].signal = "SELL"}

SummaryAgrees ==
  /\ pc = "idle" /\ result.equity_curve # <<>> =>
       result.final_equity = Last(result.equity_curve)
  /\ result.total_trades = Len(result.trades)
  /\ result.winning_trades =
       Cardinality({i \in Sells(result.trades) : result.trades[i].pnl > 0})
  /\ result.losing_trades =
       Cardinality({i \in Sells(result.trades) : result.trades[i].pnl < 0})

(* The account is never overdrawn and never short: half of the capital, its *)
(* commission set aside, pays for the lots at the slipped price.            *)
NeverOverdrawn ==
  pc # "idle" => capital >= 0 /\ position.quantity >= 0

(* A fast average that needs more closes than the bounded history keeps is  *)
(* never computed: the strategy then stays silent for ever.                 *)
SilentWhenWindowTooShort ==
  FastPeriod > SlowPeriod + HistoryMargin => trades = <<>>
-----------------------------------------------------------------------------
(* The bounded, cached, filtered strategy inside the engine decides as the  *)
(* one that looks at the whole history: MACross, where a bar counts as      *)
(* decided once its signal has been acted upon.                             *)
Decided == IF pc \in {"signal", "process", "bar"} THEN bar - 1 ELSE bar

MA == INSTANCE MACross WITH
        closes <- IF pc = "idle" \/ price_history = <<>>
                  THEN <<>> ELSE SubSeq(data, 1, Decided),
        long <- pc # "idle" /\ has_position

ImplementsMACross == MA!Spec
-----------------------------------------------------------------------------
(* What the repository says elsewhere and the code does not do.             *)

(* "Deduct the commission from the profit": while no position is held, the  *)
(* capital has changed by the profits the trades record.                    *)
AddPnl(sum, trade) == sum + trade.pnl

CommissionIsCharged ==
  pc = "bar" /\ ~has_position =>
    capital - InitialCapital = FoldLeft(AddPnl, 0, trades)

(* position_size is the share of the capital a BUY invests.                 *)
PositionSizeIsHonoured ==
  [][process_buy =>
       position'.quantity =
         lots_for((capital * PositionSize) \div RateScale, data[bar])]_vars

(* The first point of the curve, "the initial equity", is the equity the    *)
(* strategy starts the run with.                                            *)
InitialPointIsEquity ==
  pc = "bar" /\ bar = 1 => Last(result.equity_curve) = get_total_equity
=============================================================================
