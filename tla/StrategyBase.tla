---------------------------- MODULE StrategyBase ----------------------------
(* The ledger every strategy inherits (cpp/src/strategy/strategy_base.cpp): *)
(* cash, one position, and the strategy's own trade list.                   *)
(*                                                                          *)
(* Money, prices and quantities are integers: a quantity counts lots and a  *)
(* price is the price of one lot.  There is one symbol, so the position's   *)
(* symbol is left out.  get_total_return is a percentage.                   *)
EXTENDS Integers, Sequences

CONSTANT Uninitialised   \* what a double nobody initialised may contain

ASSUME UninitialisedAssumption == Uninitialised \subseteq Int

VARIABLES capital, initial_capital, position, trades

base_vars == <<capital, initial_capital, position, trades>>

NoPosition == [quantity |-> 0, avg_price |-> 0,
               current_price |-> 0, unrealized_pnl |-> 0]

(* The members no constructor sets start with an arbitrary value.           *)
construct_base ==
  /\ capital' \in Uninitialised
  /\ initial_capital' \in Uninitialised
  /\ position' = NoPosition
  /\ trades' = <<>>

has_position == position.quantity # 0

(* on_init sets the two capitals and nothing else.                          *)
on_init(amount) ==
  /\ capital' = amount
  /\ initial_capital' = amount

open_position(quantity, price) ==
  IF has_position
  THEN UNCHANGED <<capital, position>>
  ELSE /\ position' = [quantity |-> quantity, avg_price |-> price,
                       current_price |-> price, unrealized_pnl |-> 0]
       /\ capital' = capital - quantity * price

(* close_position returns the gross profit, and 0 without a position.       *)
closing_pnl(price) ==
  IF has_position THEN (price - position.avg_price) * position.quantity ELSE 0

(* Mutant: the cash the position cost comes back, not what it sold for.     *)
close_position_at_cost(price) ==
  /\ capital' = capital + position.avg_price * position.quantity
  /\ position' = NoPosition

close_position(price) ==
  IF has_position
  THEN /\ capital' = capital + price * position.quantity
       /\ position' = NoPosition
  ELSE UNCHANGED <<capital, position>>

(* The position as update_position_price leaves it.                         *)
repriced(price) ==
  [quantity |-> position.quantity,
   avg_price |-> position.avg_price,
   current_price |-> price,
   unrealized_pnl |-> IF has_position
                      THEN (price - position.avg_price) * position.quantity
                      ELSE position.unrealized_pnl]

equity(cash, pos) ==
  cash + (IF pos.quantity # 0 THEN pos.quantity * pos.current_price ELSE 0)

get_total_equity == equity(capital, position)

get_total_return ==
  IF initial_capital = 0 THEN 0
  ELSE ((get_total_equity - initial_capital) * 100) \div initial_capital

add_trade(trade) == trades' = Append(trades, trade)
=============================================================================
