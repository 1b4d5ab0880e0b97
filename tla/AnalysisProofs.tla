--------------------------- MODULE AnalysisProofs ---------------------------
(* What the analysis of a result gets right, whatever the data, the capital *)
(* and the rates are.                                                       *)
EXTENDS AnalysisProperties, StrategyProofs

USE UninitialisedAssumption, PeriodAssumption, EngineAssumption

(* The sign of a rate is that of the change.                                *)
LEMMA RateSign ==
  ASSUME NEW change \in Int, NEW base \in Nat \ {0}
  PROVE  /\ Perf!rate(change, base) \in Int
         /\ change < 0 <=> Perf!rate(change, base) < 0
         /\ change = 0 => Perf!rate(change, base) = 0
<1> DEFINE r == Perf!rate(change, base)
           x == change * RateScale
<1>1. r = x \div base /\ x \in Int
  BY DEF Perf!rate
<1>2. RateScale \in Nat \ {0}
  OBVIOUS
<1>3. /\ change < 0 => x < 0
      /\ change = 0 => x = 0
      /\ change > 0 => x > 0
  BY <1>2
<1> HIDE DEF x, r
<1>4. r \in Int /\ r * base <= x
  BY <1>1, DivInt, DivMult
<1>5. x < 0 => r < 0
  <2>1. SUFFICES ASSUME x < 0, r >= 0 PROVE FALSE
    BY <1>4
  <2>2. r * base >= 0 /\ r * base \in Int
    BY <1>4, <2>1
  <2> QED
    BY <1>1, <1>4, <2>1, <2>2
<1>6. x >= 0 => r >= 0
  <2>1. SUFFICES ASSUME x >= 0 PROVE 0 <= r
    BY <1>4
  <2>2. 0 * base <= x
    BY <1>1, <2>1
  <2>3. 0 <= x \div base
    BY <1>1, <2>2, DivGreatest, 0 \in Int
  <2> QED
    BY <1>1, <2>3
<1>7. x = 0 => r = 0
  <2>1. ASSUME x = 0 PROVE 0 \div base = 0
    OBVIOUS
  <2> QED
    BY <1>1, <2>1
<1> QED
  BY <1>1, <1>3, <1>4, <1>5, <1>6, <1>7 DEF r

(* The higher the start, the greater the loss to a given end.               *)
LEMMA RateFalls ==
  ASSUME NEW a \in Nat \ {0}, NEW b \in Nat \ {0}, NEW c \in Nat, a <= b
  PROVE  Perf!rate(c - b, b) <= Perf!rate(c - a, a)
<1> DEFINE q == Perf!rate(c - b, b)
           R == RateScale
           x == (c - b) * R
           y == (c - a) * R
<1>1. R \in Nat \ {0} /\ x \in Int /\ y \in Int
  OBVIOUS
<1>2. q = x \div b /\ Perf!rate(c - a, a) = y \div a
  BY DEF Perf!rate
<1>3. x = c * R - b * R /\ y = c * R - a * R /\ c * R \in Nat
  OBVIOUS
<1> HIDE DEF q, x, y, R
<1>4. q \in Int /\ q * b <= x
  BY <1>1, <1>2, DivInt, DivMult
<1> DEFINE s == q + R
<1>5. /\ s \in Int /\ s * b <= c * R
      /\ s * a = q * a + a * R
  BY <1>1, <1>3, <1>4
<1> HIDE DEF s
<1>6. s * a <= c * R
  <2>1. CASE s >= 0
    <3>1. s * a <= s * b
      BY <1>5, <2>1
    <3>2. s * a \in Int /\ s * b \in Int
      BY <1>5
    <3> QED
      BY <1>3, <1>5, <3>1, <3>2
  <2>2. CASE s < 0
    <3>1. s * a <= 0 /\ s * a \in Int
      BY <1>5, <2>2
    <3> QED
      BY <1>3, <3>1
  <2> QED
    BY <1>5, <2>1, <2>2
<1>7. q * a <= y
  <2>1. q * a \in Int /\ a * R \in Int
    BY <1>1, <1>4
  <2> QED
    BY <1>3, <1>5, <1>6, <2>1
<1>8. q <= y \div a
  BY <1>1, <1>4, <1>7, DivGreatest, Zenon
<1> QED
  BY <1>2, <1>8 DEF q
-----------------------------------------------------------------------------
(* Who starts a run with money always has some: half of it stays cash, so   *)
(* that every point of the curve is positive and a rate can divide by it.   *)
SolvencyInv ==
  /\ pc # "idle" => capital > 0 /\ result.equity_curve # <<>>
  /\ \A i \in 1..Len(result.equity_curve) : result.equity_curve[i] > 0
  /\ result.equity_curve # <<>> => result.equity_curve[1] = InitialCapital
  /\ Len(result.timestamps) = Len(result.equity_curve)

LEMMA BuyLeavesCash ==
  ASSUME NEW close \in Prices, capital \in Nat \ {0}
  PROVE  /\ lots_for(buy_amount, close) \in Nat
         /\ lots_for(buy_amount, close) * buy_price(close) \in Nat
         /\ lots_for(buy_amount, close) * buy_price(close) < capital
<1>1. buy_amount \in Nat /\ buy_amount < capital
  BY DEF buy_amount
<1>2. /\ calculate_commission(buy_amount) \in Nat
      /\ calculate_commission(buy_amount) <= buy_amount
  BY <1>1, ShareBound DEF calculate_commission
<1>3. buy_price(close) \in Nat \ {0}
  <2>1. close \in Nat \ {0}
    BY PriceIsNat
  <2>2. calculate_slippage(close) \in Nat
    BY <2>1, ShareBound DEF calculate_slippage
  <2> QED
    BY <2>1, <2>2 DEF buy_price
<1> DEFINE rest == buy_amount - calculate_commission(buy_amount)
<1>4. rest \in Nat /\ rest < capital
  BY <1>1, <1>2
<1>5. lots_for(buy_amount, close) = rest \div buy_price(close)
  BY DEF lots_for
<1> HIDE DEF rest
<1>6. rest \div buy_price(close) \in Nat
  BY <1>3, <1>4, DivNat
<1>7. (rest \div buy_price(close)) * buy_price(close) <= rest
  BY <1>3, <1>4, DivMult
<1>8. (rest \div buy_price(close)) * buy_price(close) \in Nat
  BY <1>3, <1>6
<1>9. (rest \div buy_price(close)) * buy_price(close) < capital
  <2> DEFINE cost == (rest \div buy_price(close)) * buy_price(close)
  <2>1. cost <= rest /\ cost \in Nat
    BY <1>7, <1>8, Zenon
  <2> HIDE DEF cost
  <2>2. cost < capital
    BY <1>4, <2>1
  <2> QED
    BY <2>2, Zenon DEF cost
<1> QED
  BY <1>5, <1>6, <1>8, <1>9, Zenon

LEMMA SolvencyInit == Init => SolvencyInv
<1> SUFFICES ASSUME Init PROVE SolvencyInv
  OBVIOUS
<1>1. pc = "idle" /\ result.equity_curve = <<>> /\ result.timestamps = <<>>
  BY DEF Init, FreshResult
<1> QED
  BY <1>1 DEF SolvencyInv

LEMMA SolvencyStep ==
  ASSUME InitialCapital > 0
  PROVE  TypeInv /\ MoneyInv /\ SolvencyInv /\ [Next]_vars => SolvencyInv'
<1> SUFFICES ASSUME TypeOK, LoopAgrees, MoneyInv, SolvencyInv, [Next]_vars
             PROVE  SolvencyInv'
  BY DEF TypeInv
<1>0. /\ result.equity_curve \in Seq(Int) /\ result.timestamps \in Seq(Nat)
      /\ result \in Results /\ bar \in Nat /\ data \in Seq(Prices)
      /\ capital \in Int /\ position \in Positions /\ position.quantity \in Nat
  BY DEF TypeOK, Results, MoneyInv, Positions
<1>a. ASSUME pc' # "idle" => pc # "idle" /\ capital' = capital, result' = result
      PROVE  SolvencyInv'
  BY <1>a DEF SolvencyInv
<1>b. ASSUME pc # "idle", result'.equity_curve = result.equity_curve,
             result'.timestamps = result.timestamps, capital' > 0
      PROVE  SolvencyInv'
  BY <1>b DEF SolvencyInv
<1>1. CASE set_strategy
  BY <1>a, <1>1 DEF set_strategy
<1>2. ASSUME NEW closes \in DataSets, set_data(closes)
      PROVE  SolvencyInv'
  BY <1>a, <1>2 DEF set_data
<1>3. CASE run_refused
  BY <1>a, <1>3 DEF run_refused
<1>4. CASE run_begin
  <2>1. /\ capital' = InitialCapital
        /\ result'.equity_curve = <<InitialCapital>> /\ result'.timestamps = <<1>>
    BY <1>0, <1>4 DEF run_begin, on_init, Results
  <2> QED
    BY <2>1 DEF SolvencyInv
<1>5. CASE run_on_bar
  BY <1>a, <1>5 DEF run_on_bar
<1>6. CASE run_generate_signal
  BY <1>a, <1>6 DEF run_generate_signal, base_vars
<1>7. CASE process_buy
  <2> DEFINE close == data[bar]
             lots == lots_for(buy_amount, close)
  <2>1. pc = "process" /\ close \in Prices /\ capital \in Nat \ {0}
    <3>1. pc = "process"
      BY <1>7 DEF process_buy
    <3>2. close \in Prices
      BY <3>1 DEF TypeOK, LoopAgrees
    <3>3. capital > 0
      BY <3>1 DEF SolvencyInv
    <3> QED
      BY <1>0, <3>1, <3>2, <3>3
  <2>2. /\ result'.equity_curve = result.equity_curve
        /\ result'.timestamps = result.timestamps
    BY <1>0, <1>7 DEF process_buy, record_trade, Results
  <2>3. capital' = capital \/ capital' = capital - lots * buy_price(close)
    BY <1>7 DEF process_buy, open_position
  <2>4. capital' > 0
    <3>1. lots * buy_price(close) \in Nat /\ lots * buy_price(close) < capital
      BY <2>1, BuyLeavesCash, Zenon
    <3> HIDE DEF lots
    <3> QED
      BY <2>1, <2>3, <3>1
  <2> QED
    BY <1>b, <2>1, <2>2, <2>4
<1>8. CASE process_sell
  <2> DEFINE close == data[bar]
  <2>1. pc = "process" /\ close \in Prices /\ capital \in Nat \ {0}
    <3>1. pc = "process"
      BY <1>8 DEF process_sell
    <3>2. close \in Prices
      BY <3>1 DEF TypeOK, LoopAgrees
    <3>3. capital > 0
      BY <3>1 DEF SolvencyInv
    <3> QED
      BY <1>0, <3>1, <3>2, <3>3
  <2>2. /\ result'.equity_curve = result.equity_curve
        /\ result'.timestamps = result.timestamps
    BY <1>0, <1>8 DEF process_sell, record_trade, Results
  <2>3. \/ capital' = capital
        \/ capital' = capital + sell_price(close) * position.quantity
    BY <1>8 DEF process_sell, close_position
  <2>4. sell_price(close) \in Nat
    BY <1>0, <2>1, FillTypes
  <2>5. sell_price(close) * position.quantity \in Nat
    BY <1>0, <2>4
  <2>6. capital' > 0
    BY <2>1, <2>3, <2>5
  <2> QED
    BY <1>b, <2>1, <2>2, <2>6
<1>9. CASE run_record
  <2> DEFINE point == equity(capital, marked_position)
  <2>1. pc = "record" /\ pc' = "bar" /\ capital' = capital
    BY <1>9 DEF run_record
  <2>2. /\ result'.equity_curve = Append(result.equity_curve, point)
        /\ result'.timestamps = Append(result.timestamps, bar)
    BY <1>0, <1>9 DEF run_record, Results
  <2>3. data[bar] \in Nat /\ capital \in Nat \ {0}
    <3>1. data[bar] \in Prices
      BY <2>1 DEF TypeOK, LoopAgrees
    <3>2. capital > 0
      BY <2>1 DEF SolvencyInv
    <3>3. data[bar] \in Nat
      BY <3>1, PriceIsNat
    <3>4. capital \in Nat \ {0}
      BY <1>0, <3>2
    <3> QED
      BY <3>3, <3>4, Zenon
  <2>4. point = capital + marked_position.quantity * data[bar]
    BY <1>0, <2>3, MarkedEquity
  <2>5. marked_position.quantity = position.quantity
    BY DEF marked_position, repriced
  <2>6. position.quantity * data[bar] \in Nat
    BY <1>0, <2>3
  <2>7. point \in Int /\ point > 0
    BY <2>3, <2>4, <2>5, <2>6
  <2> HIDE DEF point
  <2>8. \A i \in 1..Len(result'.equity_curve) : result'.equity_curve[i] > 0
    BY <1>0, <2>2, <2>7 DEF SolvencyInv
  <2>9. result'.equity_curve[1] = InitialCapital
    <3>1. result.equity_curve # <<>> => result'.equity_curve[1] = result.equity_curve[1]
      BY <1>0, <2>2, <2>7
    <3> QED
      BY <2>1, <3>1 DEF SolvencyInv
  <2>10. /\ result'.equity_curve # <<>>
         /\ Len(result'.timestamps) = Len(result'.equity_curve)
    <3>1. Len(result.timestamps) = Len(result.equity_curve)
      BY DEF SolvencyInv
    <3>2. /\ Len(result'.equity_curve) = Len(result.equity_curve) + 1
          /\ Len(result'.timestamps) = Len(result.timestamps) + 1
      BY <1>0, <2>2, <2>7
    <3>3. Len(result.equity_curve) \in Nat /\ Len(<<>>) = 0
      BY <1>0
    <3> QED
      BY <3>1, <3>2, <3>3
  <2>11. capital' > 0
    BY <2>1, <2>3
  <2> QED
    BY <2>8, <2>9, <2>10, <2>11 DEF SolvencyInv
<1>10. CASE run_end
  <2>1. /\ result'.equity_curve = result.equity_curve
        /\ result'.timestamps = result.timestamps
        /\ pc = "bar" /\ capital' = capital
    BY <1>0, <1>10 DEF run_end, Results, strategy_vars, base_vars
  <2> QED
    BY <1>b, <2>1 DEF SolvencyInv
<1>11. CASE UNCHANGED vars
  BY <1>a, <1>11 DEF vars, strategy_vars, engine_vars, base_vars
<1> QED
  BY <1>1, <1>2, <1>3, <1>4, <1>5, <1>6, <1>7, <1>8, <1>9, <1>10, <1>11 DEF Next
-----------------------------------------------------------------------------
(* The greatest element is the one that is not exceeded.                    *)
LEMMA MaxIsBound ==
  ASSUME NEW S \in SUBSET Int, NEW m \in S, \A x \in S : x <= m
  PROVE  Max(S) = m /\ Perf!Max(S) = m
<1>1. \A x \in S : m >= x
  OBVIOUS
<1>2. Max(S) \in S /\ Max(S) >= m
  BY <1>1 DEF Max
<1>3. Perf!Max(S) \in S /\ Perf!Max(S) >= m
  BY <1>1 DEF Perf!Max
<1>4. Max(S) <= m /\ Perf!Max(S) <= m
  BY <1>2, <1>3
<1>5. Max(S) \in Int /\ Perf!Max(S) \in Int /\ m \in Int
  BY <1>2, <1>3
<1>6. Max(S) = m
  BY <1>2, <1>4, <1>5
<1>7. Perf!Max(S) = m
  BY <1>3, <1>4, <1>5
<1> QED
  BY <1>6, <1>7

(* A finite list of numbers has a greatest.                                 *)
LEMMA GreatestOf ==
  ASSUME NEW n \in Nat \ {0}, NEW f, \A i \in 1..n : f[i] \in Int
  PROVE  \E i \in 1..n : \A j \in 1..n : f[j] <= f[i]
<1> DEFINE N == {k \in Nat : k + 1 <= n =>
                   \E i \in 1..(k + 1) : \A j \in 1..(k + 1) : f[j] <= f[i]}
<1>1. 0 \in N
  OBVIOUS
<1>2. ASSUME NEW k \in Nat, k \in N
      PROVE  k + 1 \in N
  <2>1. SUFFICES ASSUME k + 2 <= n
                 PROVE  \E i \in 1..(k + 2) : \A j \in 1..(k + 2) : f[j] <= f[i]
    OBVIOUS
  <2>2. PICK i \in 1..(k + 1) : \A j \in 1..(k + 1) : f[j] <= f[i]
    BY <1>2, <2>1
  <2>3. f[i] \in Int /\ f[k + 2] \in Int
    BY <2>1
  <2>4. CASE f[k + 2] <= f[i]
    <3>1. \A j \in 1..(k + 2) : j = k + 2 \/ j \in 1..(k + 1)
      OBVIOUS
    <3>2. i \in 1..(k + 2) /\ \A j \in 1..(k + 2) : f[j] <= f[i]
      BY <2>2, <2>4, <3>1
    <3> QED
      BY <3>2, Zenon
  <2>5. CASE ~(f[k + 2] <= f[i])
    <3>1. ASSUME NEW j \in 1..(k + 2)
          PROVE  f[j] <= f[k + 2]
      <4>1. f[j] \in Int
        BY <2>1
      <4>2. j = k + 2 \/ j \in 1..(k + 1)
        OBVIOUS
      <4> QED
        BY <2>2, <2>3, <2>5, <4>1, <4>2
    <3>2. k + 2 \in 1..(k + 2)
      OBVIOUS
    <3> QED
      BY <3>1, <3>2, Zenon
  <2> QED
    BY <2>4, <2>5
<1> HIDE DEF N
<1>3. n - 1 \in Nat /\ n - 1 + 1 = n
  OBVIOUS
<1>4. n - 1 \in N
  BY <1>1, <1>2, <1>3, SetInduction, Zenon
<1> QED
  BY <1>3, <1>4 DEF N

(* The part of what there was at p that is gone at q.                       *)
Loss(curve, p, q) == -Perf!rate(curve[q] - curve[p], curve[p])

(* The drawdown at a point is the worst loss that ends there.               *)
LEMMA DrawdownAt ==
  ASSUME NEW curve \in Seq(Nat \ {0}), NEW q \in 1..Len(curve)
  PROVE  LET drawdown == Perf!calculate_drawdown_curve(curve) IN
         /\ drawdown[q] \in Int
         /\ \E p \in 1..q : drawdown[q] = Loss(curve, p, q)
         /\ \A p \in 1..q : Loss(curve, p, q) <= drawdown[q]
<1> DEFINE d == Perf!calculate_drawdown_curve(curve)
           S == {curve[j] : j \in 1..q}
<1>1. \A i \in 1..q : curve[i] \in Nat \ {0} /\ curve[i] \in Int
  OBVIOUS
<1>2. PICK p \in 1..q : \A j \in 1..q : curve[j] <= curve[p]
  <2>1. q \in Nat \ {0}
    OBVIOUS
  <2> QED
    BY <1>1, <2>1, GreatestOf
<1>3. Perf!Max(S) = curve[p]
  <2>1. S \in SUBSET Int /\ curve[p] \in S /\ \A x \in S : x <= curve[p]
    BY <1>1, <1>2
  <2> QED
    BY <2>1, MaxIsBound, Zenon
<1>4. d[q] = -Perf!rate(curve[q] - Perf!Max(S), Perf!Max(S))
  <2>1. q \in DOMAIN curve
    OBVIOUS
  <2> QED
    BY <2>1, Zenon DEF Perf!calculate_drawdown_curve
<1> HIDE DEF d, S
<1>5. d[q] = Loss(curve, p, q)
  BY <1>3, <1>4, Zenon DEF Loss
<1>6. \A i \in 1..q : Perf!rate(curve[q] - curve[i], curve[i]) \in Int
  <2> TAKE i \in 1..q
  <2>1. curve[q] - curve[i] \in Int /\ curve[i] \in Nat \ {0}
    <3>1. q \in 1..q
      OBVIOUS
    <3> QED
      BY <1>1, <3>1
  <2> QED
    BY <2>1, RateSign, Zenon
<1>7. ASSUME NEW i \in 1..q
      PROVE  Loss(curve, i, q) <= d[q]
  <2>1. curve[i] \in Nat \ {0} /\ curve[p] \in Nat \ {0} /\ curve[q] \in Nat
        /\ curve[i] <= curve[p]
    <3>1. q \in 1..q
      OBVIOUS
    <3> QED
      BY <1>1, <1>2, <3>1
  <2>2. Perf!rate(curve[q] - curve[p], curve[p]) <= Perf!rate(curve[q] - curve[i], curve[i])
    BY <2>1, RateFalls, Zenon
  <2> QED
    BY <1>5, <1>6, <2>2 DEF Loss
<1>8. d[q] \in Int
  BY <1>5, <1>6 DEF Loss
<1> QED
  BY <1>5, <1>7, <1>8, Zenon DEF d

LEMMA WorstLoss ==
  ASSUME NEW curve \in Seq(Nat \ {0}), curve # <<>>
  PROVE  LET worst == Perf!calculate_max_drawdown(curve) IN
         /\ Len(Perf!calculate_drawdown_curve(curve)) = Len(curve)
         /\ worst \in Int
         /\ \E p, q \in 1..Len(curve) : p <= q /\ worst = Loss(curve, p, q)
         /\ \A p, q \in 1..Len(curve) :
              p <= q => Loss(curve, p, q) \in Int /\ Loss(curve, p, q) <= worst
<1> DEFINE d == Perf!calculate_drawdown_curve(curve)
           n == Len(curve)
           worst == Perf!calculate_max_drawdown(curve)
<1>1. n \in Nat \ {0} /\ DOMAIN curve = 1..n
  OBVIOUS
<1>2. d = [i \in 1..n |-> d[i]]
  BY <1>1, Zenon DEF Perf!calculate_drawdown_curve
<1>3. Len(d) = n
  <2>1. \A g, m : m \in Nat /\ g = [i \in 1..m |-> g[i]] => Len(g) = m
    OBVIOUS
  <2> QED
    BY <1>1, <1>2, <2>1, Zenon
<1>4. worst = Perf!Max(Perf!ToSet(d))
  BY Zenon DEF Perf!calculate_max_drawdown
<1>5. Perf!ToSet(d) = {d[i] : i \in 1..n}
  <2>1. DOMAIN d = 1..n
    BY <1>2, Zenon
  <2> QED
    BY <2>1, Zenon DEF Perf!ToSet
<1>6. \A q \in 1..n : /\ d[q] \in Int
                      /\ \E p \in 1..q : d[q] = Loss(curve, p, q)
                      /\ \A p \in 1..q : Loss(curve, p, q) <= d[q]
  BY DrawdownAt, Zenon
<1> HIDE DEF d, worst
<1>7. PICK q \in 1..n : \A j \in 1..n : d[j] <= d[q]
  BY <1>1, <1>6, GreatestOf
<1>8. worst = d[q]
  <2> DEFINE S == {d[i] : i \in 1..n}
  <2>1. S \in SUBSET Int /\ d[q] \in S /\ \A x \in S : x <= d[q]
    BY <1>6, <1>7
  <2> QED
    BY <1>4, <1>5, <2>1, MaxIsBound, Zenon
<1>9. \E i, j \in 1..n : i <= j /\ worst = Loss(curve, i, j)
  <2>1. PICK i \in 1..q : d[q] = Loss(curve, i, q)
    BY <1>6
  <2>2. i \in 1..n /\ i <= q
    BY <1>1
  <2> QED
    BY <1>8, <2>1, <2>2, Zenon
<1>10. ASSUME NEW i \in 1..n, NEW j \in 1..n, i <= j
       PROVE  Loss(curve, i, j) \in Int /\ Loss(curve, i, j) <= worst
  <2>1. i \in 1..j
    BY <1>10
  <2>2. Loss(curve, i, j) <= d[j] /\ d[j] <= d[q] /\ d[j] \in Int /\ d[q] \in Int
    BY <1>6, <1>7, <2>1
  <2>3. Loss(curve, i, j) \in Int
    <3>1. curve[j] - curve[i] \in Int /\ curve[i] \in Nat \ {0}
      OBVIOUS
    <3>2. Perf!rate(curve[j] - curve[i], curve[i]) \in Int
      BY <3>1, RateSign, Zenon
    <3> QED
      BY <3>2 DEF Loss
  <2> QED
    BY <1>8, <2>2, <2>3
<1>11. worst \in Int
  BY <1>6, <1>8
<1> QED
  BY <1>3, <1>9, <1>10, <1>11, Zenon DEF d, worst

LEMMA CurveOfResult ==
  ASSUME TypeOK, SolvencyInv, Finished
  PROVE  LET curve == result.equity_curve IN
         /\ curve \in Seq(Nat \ {0}) /\ curve # <<>>
         /\ curve[1] = InitialCapital
         /\ ~(curve = <<>> \/ result.timestamps = <<>>
                 \/ Len(curve) # Len(result.timestamps))
<1> DEFINE curve == result.equity_curve
           times == result.timestamps
<1>1. curve \in Seq(Int) /\ times \in Seq(Nat) /\ curve # <<>>
  BY DEF TypeOK, Results, Finished
<1>2. /\ \A i \in 1..Len(curve) : curve[i] > 0
      /\ curve[1] = InitialCapital /\ Len(times) = Len(curve)
  BY <1>1 DEF SolvencyInv
<1> HIDE DEF curve, times
<1>3. \A i \in 1..Len(curve) : curve[i] \in Nat \ {0}
  BY <1>1, <1>2
<1>4. curve \in Seq(Nat \ {0})
  BY <1>1, <1>3
<1>5. times # <<>>
  BY <1>1, <1>2
<1> QED
  BY <1>1, <1>2, <1>4, <1>5, Zenon DEF curve, times

LEMMA DrawdownHolds == TypeOK /\ SolvencyInv => DrawdownIsWorstLoss
<1> SUFFICES ASSUME TypeOK, SolvencyInv, Finished PROVE DrawdownIsWorstLoss
  BY Zenon DEF DrawdownIsWorstLoss
<1> DEFINE curve == result.equity_curve
           worst == Perf!calculate_max_drawdown(curve)
           Losses == {-Perf!rate(curve[pair[2]] - curve[pair[1]], curve[pair[1]]) :
                        pair \in {p \in (DOMAIN curve) \X (DOMAIN curve) : p[1] <= p[2]}}
<1>1. /\ curve \in Seq(Nat \ {0}) /\ curve # <<>>
      /\ ~(curve = <<>> \/ result.timestamps = <<>> \/ Len(curve) # Len(result.timestamps))
  BY CurveOfResult, Zenon
<1>2. /\ Metrics.max_drawdown = worst
      /\ Metrics.drawdown_curve = Perf!calculate_drawdown_curve(curve)
  BY <1>1 DEF Metrics, Perf!analyze
<1>3. Len(Perf!calculate_drawdown_curve(curve)) = Len(curve)
  BY <1>1, WorstLoss, Zenon
<1>4. PICK p \in 1..Len(curve), q \in 1..Len(curve) : p <= q /\ worst = Loss(curve, p, q)
  BY <1>1, WorstLoss, Zenon
<1>5. \A i, j \in 1..Len(curve) :
        i <= j => Loss(curve, i, j) \in Int /\ Loss(curve, i, j) <= worst
  BY <1>1, WorstLoss, Zenon
<1>6. DOMAIN curve = 1..Len(curve)
  BY <1>1
<1> HIDE DEF curve, worst
<1>7. Losses \in SUBSET Int /\ \A x \in Losses : x <= worst
  BY <1>5, <1>6 DEF Loss
<1>8. worst \in Losses
  <2>1. <<p, q>> \in {pair \in (DOMAIN curve) \X (DOMAIN curve) : pair[1] <= pair[2]}
    BY <1>4, <1>6
  <2> QED
    BY <1>4, <2>1 DEF Loss
<1>9. Max(Losses) = worst
  BY <1>7, <1>8, MaxIsBound, Zenon
<1> QED
  BY <1>2, <1>3, <1>9, Zenon DEF DrawdownIsWorstLoss, curve

LEMMA SolvencyCorrect ==
  ASSUME InitialCapital > 0
  PROVE  Spec => [](TypeInv /\ MoneyInv /\ SolvencyInv)
<1>1. TypeInv /\ MoneyInv /\ SolvencyInv /\ [Next]_vars => SolvencyInv'
  BY SolvencyStep
<1> QED
  BY <1>1, TypeInit, TypeStep, MoneyInit, MoneyStep, SolvencyInit, PTL DEF Spec

(* For every positive capital the maximal drawdown of a finished run is the *)
(* worst loss between two of its points.                                    *)
THEOREM DrawdownIsTheWorst ==
  ASSUME InitialCapital > 0
  PROVE  Spec => []DrawdownIsWorstLoss
<1>1. TypeInv /\ MoneyInv /\ SolvencyInv => DrawdownIsWorstLoss
  BY DrawdownHolds DEF TypeInv
<1>2. Spec => [](TypeInv /\ MoneyInv /\ SolvencyInv)
  BY SolvencyCorrect
<1> QED
  BY <1>1, <1>2, PTL
-----------------------------------------------------------------------------
(* The selections of the analyser.                                          *)
Negative(r) == r < 0
Rising(step) == step[1] > 0

Falls == INSTANCE ChosenLemmas WITH keep <- Negative
Taken == INSTANCE ChosenLemmas WITH keep <- Rising

LEMMA FallsChosen ==
  ASSUME NEW s
  PROVE  Perf!chosen(s, Perf!negative) = Falls!Chosen(s)
BY Zenon
   DEF Perf!chosen, Perf!negative, Falls!Chosen, Falls!chosen, Negative,
       Perf!FoldLeft, Falls!FoldLeft, Perf!MapThenFoldSet, Falls!MapThenFoldSet,
       Perf!Max, Falls!Max

LEMMA TakenChosen ==
  ASSUME NEW s
  PROVE  Perf!chosen(s, Perf!from_positive) = Taken!Chosen(s)
BY Zenon
   DEF Perf!chosen, Perf!from_positive, Taken!Chosen, Taken!chosen, Rising,
       Perf!FoldLeft, Taken!FoldLeft, Perf!MapThenFoldSet, Taken!MapThenFoldSet,
       Perf!Max, Taken!Max

(* A total of numbers that are at least 1 is at least their count.          *)
LEMMA TotalAtLeast ==
  ASSUME NEW s \in Seq(Int), \A i \in 1..Len(s) : s[i] >= 1
  PROVE  Perf!total(s) \in Int /\ Perf!total(s) >= Len(s)
<1> DEFINE T == {k \in 0..Len(s) : SumTo(s, k) >= k}
<1>1. 0 \in T
  <2>1. SubSeq(s, 1, 0) = <<>> /\ 0 \in 0..Len(s)
    OBVIOUS
  <2>2. SumTo(s, 0) = 0
    BY <2>1, TotalEmpty, Zenon DEF SumTo
  <2> QED
    BY <2>1, <2>2
<1>2. ASSUME NEW k \in 0..(Len(s) - 1), k \in T
      PROVE  k + 1 \in T
  <2>1. /\ SubSeq(s, 1, k + 1) = Append(SubSeq(s, 1, k), s[k + 1])
        /\ SubSeq(s, 1, k) \in Seq(Int) /\ s[k + 1] \in Int /\ k + 1 \in 0..Len(s)
    OBVIOUS
  <2>2. SumTo(s, k) \in Int
    BY <2>1, TotalType, Zenon DEF SumTo
  <2>3. SumTo(s, k + 1) = SumTo(s, k) + s[k + 1]
    BY <2>1, TotalAppend, Zenon DEF SumTo
  <2>4. s[k + 1] >= 1
    OBVIOUS
  <2>5. SumTo(s, k) >= k
    BY <1>2
  <2>6. SumTo(s, k + 1) >= k + 1
    BY <2>1, <2>2, <2>3, <2>4, <2>5
  <2> QED
    BY <2>1, <2>6
<1> HIDE DEF T
<1>3. Len(s) \in T
  BY <1>1, <1>2, Falls!PrefixInduction, Zenon
<1>4. SubSeq(s, 1, Len(s)) = s
  OBVIOUS
<1>5. Perf!total(s) = Total(s)
  BY Zenon DEF Perf!total, Total, FoldLeft, Perf!FoldLeft, MapThenFoldSet,
               Perf!MapThenFoldSet, Max, Perf!Max
<1>6. Total(s) \in Int
  BY TotalType, Zenon
<1> QED
  BY <1>3, <1>4, <1>5, <1>6 DEF T, SumTo

(* The mean square of numbers that are not zero is not zero.                *)
LEMMA MeanSquarePositive ==
  ASSUME NEW s \in Seq({x \in Int : Negative(x)}), s # <<>>
  PROVE  Perf!mean_square(s) \in Int /\ Perf!mean_square(s) >= 1
<1> DEFINE n == Len(s)
           sq == [i \in DOMAIN s |-> s[i] * s[i]]
<1>1. n \in Nat \ {0} /\ DOMAIN s = 1..n
  OBVIOUS
<1>2. \A i \in 1..n : s[i] \in Int /\ s[i] < 0
  BY DEF Negative
<1>3. \A i \in 1..n : s[i] * s[i] \in Int /\ s[i] * s[i] >= 1
  <2>1. ASSUME NEW x \in Int, x < 0
        PROVE  x * x \in Int /\ x * x >= 1
    <3>1. -x \in Nat \ {0}
      BY <2>1
    <3>2. ASSUME NEW y \in Nat \ {0} PROVE y * y >= 1 /\ y * y \in Int
      <4>1. y * y >= 1 * y
        OBVIOUS
      <4> QED
        BY <4>1
    <3>3. x * x = (-x) * (-x)
      OBVIOUS
    <3> QED
      BY <3>1, <3>2, <3>3
  <2> QED
    BY <1>2, <2>1
<1>4. sq = [i \in 1..n |-> s[i] * s[i]]
  BY <1>1, Zenon
<1> HIDE DEF sq, n
<1>5. sq \in Seq(Int) /\ Len(sq) = n /\ \A i \in 1..n : sq[i] >= 1
  BY <1>1, <1>3, <1>4
<1>6. Perf!total(sq) \in Int /\ Perf!total(sq) >= n
  BY <1>5, TotalAtLeast
<1>7. Perf!mean_square(s) = Perf!total(sq) \div n
  BY <1>5, Zenon DEF Perf!mean_square, Perf!mean, sq
<1>8. 1 <= Perf!total(sq) \div n
  <2>1. 1 * n <= Perf!total(sq) /\ 1 \in Int
    BY <1>1, <1>6
  <2> QED
    BY <1>1, <1>6, <2>1, DivGreatest
<1>9. Perf!total(sq) \div n \in Int
  BY <1>1, <1>6, DivInt, Zenon
<1> QED
  BY <1>7, <1>8, <1>9

(* The return of each point of a positive curve.                            *)
LEMMA ReturnsAre ==
  ASSUME NEW curve \in Seq(Nat \ {0}), curve # <<>>
  PROVE  LET returns == Perf!calculate_returns(curve) IN
         /\ returns \in Seq(Int) /\ Len(returns) = Len(curve) - 1
         /\ \A i \in 1..(Len(curve) - 1) :
              returns[i] = Perf!rate(curve[i + 1] - curve[i], curve[i])
<1> DEFINE n == Len(curve) - 1
           Pairs == (Nat \ {0}) \X (Nat \ {0})
           steps == [i \in 1..n |-> <<curve[i], curve[i + 1]>>]
           returns == Perf!calculate_returns(curve)
<1>1. n \in Nat /\ \A i \in 1..n : curve[i] \in Nat \ {0} /\ curve[i + 1] \in Nat \ {0}
  OBVIOUS
<1>2. steps \in Seq(Pairs) /\ Len(steps) = n /\ DOMAIN steps = 1..n
  <2> HIDE DEF n
  <2> QED
    BY <1>1
<1>3. \A i \in 1..n : Rising(steps[i])
  BY <1>1 DEF Rising
<1>4. Taken!Chosen(steps) = steps
  <2> HIDE DEF steps, Pairs, n
  <2> QED
    BY <1>2, <1>3, Taken!ChosenAll, Zenon
<1>5. Perf!chosen(steps, Perf!from_positive) = steps
  BY <1>4, TakenChosen, Zenon
<1>6. returns = [k \in DOMAIN steps |-> Perf!rate(steps[k][2] - steps[k][1], steps[k][1])]
  BY <1>5, Zenon DEF Perf!calculate_returns
<1>7. \A k \in 1..n : steps[k][1] = curve[k] /\ steps[k][2] = curve[k + 1]
  OBVIOUS
<1> HIDE DEF returns, steps
<1>8. returns = [k \in 1..n |-> Perf!rate(curve[k + 1] - curve[k], curve[k])]
  BY <1>2, <1>6, <1>7
<1>9. \A k \in 1..n : Perf!rate(curve[k + 1] - curve[k], curve[k]) \in Int
  <2> TAKE k \in 1..n
  <2>1. curve[k + 1] - curve[k] \in Int /\ curve[k] \in Nat \ {0}
    BY <1>1
  <2> QED
    BY <2>1, RateSign, Zenon
<1> HIDE DEF n
<1>10. returns \in Seq(Int) /\ Len(returns) = n
  BY <1>1, <1>8, <1>9
<1> QED
  BY <1>8, <1>10, Zenon DEF n, returns

(* Between two points of a curve that never falls it does not fall.         *)
LEMMA NeverFalls ==
  ASSUME NEW curve \in Seq(Nat \ {0}),
         \A i \in 2..Len(curve) : ~(curve[i] < curve[i - 1])
  PROVE  \A p, q \in 1..Len(curve) : p <= q => curve[p] <= curve[q]
<1> TAKE p \in 1..Len(curve)
<1> DEFINE N == {k \in Nat : p + k <= Len(curve) => curve[p] <= curve[p + k]}
<1>1. 0 \in N
  OBVIOUS
<1>2. ASSUME NEW k \in Nat, k \in N
      PROVE  k + 1 \in N
  <2>1. SUFFICES ASSUME p + (k + 1) <= Len(curve)
                 PROVE  curve[p] <= curve[p + (k + 1)]
    OBVIOUS
  <2>2. /\ p + (k + 1) \in 2..Len(curve) /\ (p + (k + 1)) - 1 = p + k
        /\ p + k \in 1..Len(curve) /\ p + (k + 1) \in 1..Len(curve)
    BY <2>1
  <2>3. curve[p + k] \in Nat /\ curve[p + (k + 1)] \in Nat /\ curve[p] \in Nat
    BY <2>2
  <2>4. ~(curve[p + (k + 1)] < curve[p + k])
    BY <2>2
  <2>5. curve[p] <= curve[p + k]
    BY <1>2, <2>2
  <2> QED
    BY <2>3, <2>4, <2>5
<1> HIDE DEF N
<1>3. Nat \subseteq N
  BY <1>1, <1>2, SetInduction, Zenon
<1> TAKE q \in 1..Len(curve)
<1>4. p <= q => q - p \in Nat /\ p + (q - p) = q /\ p + (q - p) <= Len(curve)
  OBVIOUS
<1> QED
  BY <1>3, <1>4 DEF N
-----------------------------------------------------------------------------
Fell(curve) == \E i \in 2..Len(curve) : curve[i] < curve[i - 1]

(* A downside deviation is that of a fall.                                  *)
LEMMA DownsideIsFall ==
  ASSUME NEW curve \in Seq(Nat \ {0}), curve # <<>>
  PROVE  LET returns == Perf!calculate_returns(curve) IN
         (Perf!calculate_downside_deviation(returns) = 0) = ~Fell(curve)
<1> DEFINE returns == Perf!calculate_returns(curve)
           n == Len(curve) - 1
           downs == Falls!Chosen(returns)
<1>1. /\ returns \in Seq(Int) /\ Len(returns) = n
      /\ \A i \in 1..n : returns[i] = Perf!rate(curve[i + 1] - curve[i], curve[i])
  BY ReturnsAre, Zenon
<1>2. ASSUME NEW i \in 1..n
      PROVE  returns[i] < 0 <=> curve[i + 1] < curve[i]
  <2>1. curve[i + 1] \in Nat /\ curve[i] \in Nat \ {0} /\ curve[i + 1] - curve[i] \in Int
    OBVIOUS
  <2>2. returns[i] < 0 <=> curve[i + 1] - curve[i] < 0
    <3>1. curve[i + 1] - curve[i] < 0
            <=> Perf!rate(curve[i + 1] - curve[i], curve[i]) < 0
      BY <2>1, RateSign, Zenon
    <3> QED
      BY <1>1, <3>1
  <2> QED
    BY <2>1, <2>2
<1> HIDE DEF returns
<1>3. Fell(curve) <=> \E i \in 1..n : returns[i] < 0
  <2>1. ASSUME NEW i \in 2..Len(curve), curve[i] < curve[i - 1]
        PROVE  \E j \in 1..n : returns[j] < 0
    <3>1. i - 1 \in 1..n /\ (i - 1) + 1 = i
      OBVIOUS
    <3>2. returns[i - 1] < 0
      BY <1>2, <2>1, <3>1
    <3> QED
      BY <3>1, <3>2
  <2>2. ASSUME NEW j \in 1..n, returns[j] < 0
        PROVE  \E i \in 2..Len(curve) : curve[i] < curve[i - 1]
    <3>1. j + 1 \in 2..Len(curve) /\ (j + 1) - 1 = j
      OBVIOUS
    <3>2. curve[j + 1] < curve[j]
      BY <1>2, <2>2
    <3> QED
      BY <3>1, <3>2
  <2> QED
    BY <2>1, <2>2 DEF Fell
<1>4. Perf!chosen(returns, Perf!negative) = downs
  BY FallsChosen, Zenon
<1>5. Perf!calculate_downside_deviation(returns)
        = IF downs = <<>> THEN 0 ELSE Perf!mean_square(downs)
  BY <1>4, Zenon DEF Perf!calculate_downside_deviation
<1>6. downs \in Seq({x \in Int : Negative(x)})
  BY <1>1, Falls!ChosenType, Zenon
<1>7. downs = <<>> <=> \A i \in 1..n : ~Negative(returns[i])
  <2>1. downs = <<>> <=> \A i \in 1..Len(returns) : ~Negative(returns[i])
    BY <1>1, Falls!ChosenNone, Zenon
  <2> QED
    BY <1>1, <2>1, Zenon
<1> HIDE DEF downs, n
<1>8. downs = <<>> <=> ~Fell(curve)
  BY <1>3, <1>7 DEF Negative
<1>9. downs # <<>> => Perf!mean_square(downs) # 0
  <2>1. downs # <<>> => Perf!mean_square(downs) \in Int /\ Perf!mean_square(downs) >= 1
    BY <1>6, MeanSquarePositive, Zenon
  <2> QED
    BY <2>1
<1>10. (Perf!calculate_downside_deviation(returns) = 0) <=> ~Fell(curve)
  BY <1>5, <1>8, <1>9
<1> QED
  BY <1>10, Zenon DEF returns, Fell

(* So is a drawdown.                                                        *)
LEMMA DrawdownIsFall ==
  ASSUME NEW curve \in Seq(Nat \ {0}), curve # <<>>
  PROVE  (Perf!calculate_max_drawdown(curve) = 0) = ~Fell(curve)
<1> DEFINE worst == Perf!calculate_max_drawdown(curve)
<1>0. \A i \in 1..Len(curve) : curve[i] \in Nat \ {0}
  OBVIOUS
<1>1. worst \in Int
  BY WorstLoss, Zenon
<1>2. PICK p \in 1..Len(curve), q \in 1..Len(curve) : p <= q /\ worst = Loss(curve, p, q)
  BY WorstLoss, Zenon
<1>3. \A i, j \in 1..Len(curve) :
        i <= j => Loss(curve, i, j) \in Int /\ Loss(curve, i, j) <= worst
  BY WorstLoss, Zenon
<1> HIDE DEF worst
<1>4. ASSUME NEW i \in 1..Len(curve), NEW j \in 1..Len(curve)
      PROVE  /\ curve[j] < curve[i] <=> Loss(curve, i, j) > 0
             /\ Loss(curve, i, j) \in Int
  <2>1. curve[i] \in Nat \ {0} /\ curve[j] \in Nat /\ curve[j] - curve[i] \in Int
    BY <1>0
  <2>2. /\ Perf!rate(curve[j] - curve[i], curve[i]) \in Int
        /\ curve[j] - curve[i] < 0 <=> Perf!rate(curve[j] - curve[i], curve[i]) < 0
    BY <2>1, RateSign, Zenon
  <2> DEFINE r == Perf!rate(curve[j] - curve[i], curve[i])
  <2>3. Loss(curve, i, j) = -r
    BY DEF Loss
  <2> HIDE DEF r
  <2>4. curve[j] - curve[i] < 0 <=> curve[j] < curve[i]
    BY <2>1
  <2>5. r \in Int /\ (r < 0 <=> curve[j] < curve[i])
    BY <2>2, <2>4 DEF r
  <2>6. Loss(curve, i, j) \in Int /\ (r < 0 <=> Loss(curve, i, j) > 0)
    BY <2>3, <2>5
  <2> QED
    BY <2>5, <2>6, Zenon
<1>5. worst >= 0
  <2>1. 1 \in 1..Len(curve) /\ curve[1] \in Nat \ {0}
    OBVIOUS
  <2>2. Loss(curve, 1, 1) = 0
    <3>1. curve[1] - curve[1] = 0 /\ 0 \in Int
      BY <2>1
    <3>2. Perf!rate(0, curve[1]) = 0
      BY <2>1, <3>1, RateSign
    <3> QED
      BY <3>1, <3>2 DEF Loss
  <2>3. Loss(curve, 1, 1) <= worst
    BY <1>3, <2>1
  <2> QED
    BY <1>1, <2>2, <2>3
<1>6. CASE Fell(curve)
  <2>1. PICK i \in 2..Len(curve) : curve[i] < curve[i - 1]
    BY <1>6 DEF Fell
  <2>2. i \in 1..Len(curve) /\ i - 1 \in 1..Len(curve) /\ i - 1 <= i
    OBVIOUS
  <2>3. Loss(curve, i - 1, i) > 0 /\ Loss(curve, i - 1, i) \in Int
    BY <1>4, <2>1, <2>2
  <2>4. Loss(curve, i - 1, i) <= worst
    BY <1>3, <2>2
  <2>5. worst # 0
    BY <1>1, <2>3, <2>4
  <2> QED
    BY <1>6, <2>5 DEF worst
<1>7. CASE ~Fell(curve)
  <2>1. \A i \in 2..Len(curve) : ~(curve[i] < curve[i - 1])
    BY <1>7, Zenon DEF Fell
  <2>2. curve[p] <= curve[q]
    BY <1>2, <2>1, NeverFalls, Zenon
  <2>3. curve[p] \in Nat /\ curve[q] \in Nat
    BY <1>0
  <2>4. ~(Loss(curve, p, q) > 0)
    BY <1>4, <2>2, <2>3
  <2>5. worst = 0
    BY <1>1, <1>2, <1>5, <2>4
  <2> QED
    BY <1>7, <2>5 DEF worst
<1> QED
  BY <1>6, <1>7

LEMMA RiskHolds == TypeOK /\ SolvencyInv => RiskIsSeen
<1> SUFFICES ASSUME TypeOK, SolvencyInv, Finished PROVE RiskIsSeen
  BY Zenon DEF RiskIsSeen
<1> DEFINE curve == result.equity_curve
           returns == Perf!calculate_returns(curve)
           downside == Perf!calculate_downside_deviation(returns)
           worst == Perf!calculate_max_drawdown(curve)
           end == Perf!calculate_annualized_return(InitialCapital, Perf!Last(curve),
                    Head(result.timestamps), Perf!Last(result.timestamps))
<1>1. /\ curve \in Seq(Nat \ {0}) /\ curve # <<>> /\ curve[1] = InitialCapital
      /\ ~(curve = <<>> \/ result.timestamps = <<>> \/ Len(curve) # Len(result.timestamps))
  BY CurveOfResult, Zenon
<1>2. /\ Metrics.downside_deviation = downside
      /\ Metrics.max_drawdown = worst
      /\ Metrics.sortino_ratio = Perf!calculate_sortino_ratio(returns)
      /\ Metrics.calmar_ratio = Perf!calculate_calmar_ratio(end, worst)
      /\ Metrics.cumulative_return
           = Perf!calculate_cumlative_return(InitialCapital, Perf!Last(curve))
  BY <1>1 DEF Metrics, Perf!analyze
<1>3. (downside = 0) = ~Fell(curve)
  BY <1>1, DownsideIsFall, Zenon
<1>4. (worst = 0) = ~Fell(curve)
  BY <1>1, DrawdownIsFall, Zenon
<1> HIDE DEF curve, returns, downside, worst, end
<1>5. Perf!calculate_sortino_ratio(returns) # Perf!Zero => Fell(curve)
  <2>1. SUFFICES ASSUME downside = 0 PROVE Perf!calculate_sortino_ratio(returns) = Perf!Zero
    BY <1>3
  <2> QED
    BY <2>1, Zenon DEF Perf!calculate_sortino_ratio, Perf!over, downside
<1>6. Perf!calculate_calmar_ratio(end, worst)[1] # Perf!Zero => Fell(curve)
  <2>1. SUFFICES ASSUME worst = 0
                 PROVE Perf!calculate_calmar_ratio(end, worst)[1] = Perf!Zero
    BY <1>4
  <2>2. Perf!calculate_calmar_ratio(end, worst) = <<Perf!Zero, 1>>
    BY <2>1, Zenon DEF Perf!calculate_calmar_ratio
  <2> QED
    BY <2>2
<1>7. Perf!calculate_cumlative_return(InitialCapital, Perf!Last(curve)) < 0 => Fell(curve)
  <2>1. SUFFICES ASSUME ~Fell(curve),
                        Perf!calculate_cumlative_return(InitialCapital, Perf!Last(curve)) < 0
                 PROVE  FALSE
    OBVIOUS
  <2>2. Perf!Last(curve) = curve[Len(curve)]
    BY DEF Perf!Last
  <2>3. 1 \in 1..Len(curve) /\ Len(curve) \in 1..Len(curve) /\ 1 <= Len(curve)
    BY <1>1
  <2>4. \A i \in 2..Len(curve) : ~(curve[i] < curve[i - 1])
    BY <2>1, Zenon DEF Fell
  <2>5. InitialCapital <= Perf!Last(curve)
    BY <1>1, <2>2, <2>3, <2>4, NeverFalls, Zenon
  <2>6. InitialCapital \in Nat \ {0} /\ Perf!Last(curve) \in Nat
    BY <1>1, <2>2, <2>3
  <2> DEFINE change == Perf!Last(curve) - InitialCapital
  <2>7. change \in Int /\ ~(change < 0)
    BY <2>5, <2>6
  <2> HIDE DEF change
  <2>8. /\ Perf!rate(change, InitialCapital) \in Int
        /\ ~(Perf!rate(change, InitialCapital) < 0)
    BY <2>6, <2>7, RateSign
  <2>9. Perf!calculate_cumlative_return(InitialCapital, Perf!Last(curve))
          = Perf!rate(change, InitialCapital)
    BY <2>6 DEF Perf!calculate_cumlative_return, change
  <2> QED
    BY <2>1, <2>8, <2>9
<1> QED
  BY <1>2, <1>3, <1>4, <1>5, <1>6, <1>7 DEF RiskIsSeen, Fell, curve

(* For every positive capital: the risks the ratios divide by are zero      *)
(* exactly when the equity never fell.                                      *)
THEOREM RiskIsAlwaysSeen ==
  ASSUME InitialCapital > 0
  PROVE  Spec => []RiskIsSeen
<1>1. TypeInv /\ MoneyInv /\ SolvencyInv => RiskIsSeen
  BY RiskHolds DEF TypeInv
<1>2. Spec => [](TypeInv /\ MoneyInv /\ SolvencyInv)
  BY SolvencyCorrect
<1> QED
  BY <1>1, <1>2, PTL
-----------------------------------------------------------------------------
(* The streak that ends at n.                                               *)
Streak(hits) ==
  CHOOSE current : current = [n \in 0..Len(hits) |->
    IF n = 0 THEN 0 ELSE IF hits[n] THEN current[n-1] + 1 ELSE 0]

LEMMA StreakExists ==
  ASSUME NEW N \in Nat, NEW hits \in [1..N -> BOOLEAN], Len(hits) = N
  PROVE  LET current == Streak(hits) IN
         /\ current \in [0..N -> Int] /\ current[0] = 0
         /\ \A n \in 1..N : current[n] = IF hits[n] THEN current[n-1] + 1 ELSE 0
<1> DEFINE G == [p \in (1..N) \X Int |-> IF hits[p[1]] THEN p[2] + 1 ELSE 0]
<1>1. \A n \in 1..N : \A x \in Int :
        G[<<n, x>>] = (IF hits[n] THEN x + 1 ELSE 0) /\ G[<<n, x>>] \in Int
  OBVIOUS
<1> HIDE DEF G
<1>2. Maps(G, N, Int)
  BY <1>1, Zenon DEF Maps
<1>3. 0 \in Int
  OBVIOUS
<1>4. PICK f : Recursive(f, Int, 0, N, G)
  BY <1>2, <1>3, RecursionExists, Zenon
<1>5. f \in [0..N -> Int] /\ f[0] = 0 /\ \A n \in 1..N : f[n] = G[<<n, f[n - 1]>>]
  BY <1>4, Zenon DEF Recursive
<1>6. \A n \in 1..N : f[n] = IF hits[n] THEN f[n-1] + 1 ELSE 0
  <2> TAKE n \in 1..N
  <2>1. f[n-1] \in Int
    BY <1>5
  <2> QED
    BY <1>1, <1>5, <2>1, Zenon
<1>7. f = [n \in 0..Len(hits) |->
             IF n = 0 THEN 0 ELSE IF hits[n] THEN f[n-1] + 1 ELSE 0]
  <2>1. ASSUME NEW n \in 0..N
        PROVE  f[n] = IF n = 0 THEN 0 ELSE IF hits[n] THEN f[n-1] + 1 ELSE 0
    <3>1. n = 0 \/ n \in 1..N
      OBVIOUS
    <3>2. CASE n = 0
      BY <1>5, <3>2, Zenon
    <3>3. CASE n \in 1..N
      <4>1. n # 0
        BY <3>3
      <4> QED
        BY <1>6, <3>3, <4>1, Zenon
    <3> QED
      BY <3>1, <3>2, <3>3
  <2>2. DOMAIN f = 0..N /\ f = [n \in DOMAIN f |-> f[n]]
    BY <1>5
  <2> QED
    BY <2>1, <2>2, Zenon
<1> DEFINE current == Streak(hits)
<1>8. current = [n \in 0..Len(hits) |->
             IF n = 0 THEN 0 ELSE IF hits[n] THEN current[n-1] + 1 ELSE 0]
  BY <1>7, Zenon DEF Streak
<1> HIDE DEF current
<1>9. /\ current[0] = 0
      /\ \A n \in 1..N : current[n] = IF hits[n] THEN current[n-1] + 1 ELSE 0
  <2>1. 0 \in 0..N /\ \A n \in 1..N : n \in 0..N /\ n # 0
    OBVIOUS
  <2> QED
    BY <1>8, <2>1, Zenon
<1>10. \A n \in 0..N : current[n] \in Int
  <2> DEFINE S == {k \in Nat : k <= N => current[k] \in Int}
  <2>1. 0 \in S
    BY <1>9
  <2>2. ASSUME NEW k \in Nat, k \in S
        PROVE  k + 1 \in S
    <3>1. SUFFICES ASSUME k + 1 <= N PROVE current[k + 1] \in Int
      OBVIOUS
    <3>2. current[k] \in Int /\ k + 1 \in 1..N /\ (k + 1) - 1 = k
      BY <2>2, <3>1
    <3>3. current[k + 1] = IF hits[k + 1] THEN current[k] + 1 ELSE 0
      BY <1>9, <3>2
    <3> QED
      BY <3>2, <3>3
  <2> HIDE DEF S
  <2>3. Nat \subseteq S
    BY <2>1, <2>2, SetInduction, Zenon
  <2> QED
    BY <2>3 DEF S
<1>11. current \in [0..N -> Int]
  BY <1>8, <1>10, Zenon
<1> QED
  BY <1>9, <1>11, Zenon DEF current

(* It is the stretch of hits that ends at n, and the hit before it, if any, *)
(* is a miss.                                                               *)
LEMMA StreakIs ==
  ASSUME NEW N \in Nat, NEW hits \in [1..N -> BOOLEAN], Len(hits) = N, NEW n \in 0..N
  PROVE  LET c == Streak(hits)[n] IN
         /\ c \in 0..n
         /\ \A k \in (n - c + 1)..n : hits[k]
         /\ c < n => ~hits[n - c]
<1> DEFINE current == Streak(hits)
           S == {m \in Nat : m <= N =>
                   /\ current[m] \in 0..m
                   /\ \A k \in (m - current[m] + 1)..m : hits[k]
                   /\ current[m] < m => ~hits[m - current[m]]}
<1>1. /\ current \in [0..N -> Int] /\ current[0] = 0
      /\ \A m \in 1..N : current[m] = IF hits[m] THEN current[m-1] + 1 ELSE 0
  BY StreakExists, Zenon
<1> HIDE DEF current
<1>2. 0 \in S
  BY <1>1
<1>3. ASSUME NEW m \in Nat, m \in S
      PROVE  m + 1 \in S
  <2>1. SUFFICES ASSUME m + 1 <= N
                 PROVE  /\ current[m + 1] \in 0..(m + 1)
                        /\ \A k \in ((m + 1) - current[m + 1] + 1)..(m + 1) : hits[k]
                        /\ current[m + 1] < m + 1 => ~hits[(m + 1) - current[m + 1]]
    OBVIOUS
  <2>2. /\ current[m] \in 0..m
        /\ \A k \in (m - current[m] + 1)..m : hits[k]
        /\ current[m] < m => ~hits[m - current[m]]
    BY <1>3, <2>1
  <2>3. /\ m + 1 \in 1..N /\ (m + 1) - 1 = m
        /\ current[m + 1] = IF hits[m + 1] THEN current[m] + 1 ELSE 0
    BY <1>1, <2>1
  <2>4. CASE hits[m + 1]
    <3>1. current[m + 1] = current[m] + 1
      BY <2>3, <2>4
    <3>2. current[m + 1] \in 0..(m + 1)
      BY <2>2, <3>1
    <3>3. (m + 1) - current[m + 1] + 1 = m - current[m] + 1
          /\ (m + 1) - current[m + 1] = m - current[m]
      BY <2>2, <3>1
    <3>4. \A k \in (m - current[m] + 1)..(m + 1) : k = m + 1 \/ k \in (m - current[m] + 1)..m
      BY <2>2
    <3>5. \A k \in ((m + 1) - current[m + 1] + 1)..(m + 1) : hits[k]
      BY <2>2, <2>4, <3>3, <3>4
    <3>6. current[m + 1] < m + 1 => ~hits[(m + 1) - current[m + 1]]
      BY <2>2, <3>1, <3>3
    <3> QED
      BY <3>2, <3>5, <3>6
  <2>5. CASE ~hits[m + 1]
    <3>1. current[m + 1] = 0
      BY <2>3, <2>5
    <3>2. (m + 1) - 0 = m + 1 /\ ((m + 1) - 0 + 1)..(m + 1) = {} /\ 0 \in 0..(m + 1)
      OBVIOUS
    <3> QED
      BY <2>5, <3>1, <3>2, Zenon
  <2> QED
    BY <2>4, <2>5
<1> HIDE DEF S
<1>4. n \in S
  BY <1>2, <1>3, SetInduction
<1> QED
  BY <1>4 DEF S, current

(* The lengths of the stretches of hits.                                    *)
Stretches(hits) ==
  {pair[2] - pair[1] + 1 :
     pair \in {p \in (DOMAIN hits) \X (DOMAIN hits) :
                 p[1] <= p[2] /\ \A k \in p[1]..p[2] : hits[k]}}

(* The longest streak is the longest stretch, and 0 if there is none.       *)
LEMMA LongestIsRun ==
  ASSUME NEW N \in Nat, NEW hits \in [1..N -> BOOLEAN], Len(hits) = N
  PROVE  /\ Perf!longest_streak(hits) \in {0} \cup Stretches(hits)
         /\ {0} \cup Stretches(hits) \in SUBSET Int
         /\ \A x \in {0} \cup Stretches(hits) : x <= Perf!longest_streak(hits)
<1> DEFINE current == Streak(hits)
           longest == Perf!longest_streak(hits)
<1>1. longest = Perf!Max({current[n] : n \in 0..N})
  BY Zenon DEF Perf!longest_streak, Streak
<1>2. \A n \in 0..N : /\ current[n] \in 0..n
                      /\ \A k \in (n - current[n] + 1)..n : hits[k]
                      /\ current[n] < n => ~hits[n - current[n]]
  BY StreakIs, Zenon
<1> HIDE DEF current, longest
<1>3. PICK m \in 0..N : \A n \in 0..N : current[n] <= current[m]
  <2> DEFINE g == [i \in 1..(N + 1) |-> current[i - 1]]
  <2>1. \A i \in 1..(N + 1) : g[i] \in Int
    BY <1>2
  <2>2. PICK i \in 1..(N + 1) : \A j \in 1..(N + 1) : g[j] <= g[i]
    BY <2>1, GreatestOf, N + 1 \in Nat \ {0}
  <2>3. i - 1 \in 0..N /\ \A n \in 0..N : n + 1 \in 1..(N + 1) /\ g[n + 1] = current[n]
    OBVIOUS
  <2>4. \A n \in 0..N : current[n] <= current[i - 1]
    BY <2>2, <2>3
  <2> QED
    BY <2>3, <2>4
<1>4. longest = current[m]
  <2> DEFINE C == {current[n] : n \in 0..N}
  <2>1. \A n \in 0..N : current[n] \in Int
    <3>1. \A n \in 0..N : current[n] \in 0..n
      BY <1>2, Zenon
    <3> QED
      BY <3>1
  <2>2. C \in SUBSET Int /\ current[m] \in C
    BY <2>1, Zenon
  <2>3. \A x \in C : x <= current[m]
    BY <1>3, Zenon
  <2> QED
    BY <1>1, <2>2, <2>3, MaxIsBound, Zenon
<1>5. {0} \cup Stretches(hits) \in SUBSET Int
  BY DEF Stretches
<1>6. ASSUME current[m] # 0
      PROVE  current[m] \in Stretches(hits)
  <2> DEFINE c == current[m]
             pair == <<m - c + 1, m>>
  <2>1. c \in 0..m /\ c # 0 /\ \A k \in (m - c + 1)..m : hits[k]
    BY <1>2, <1>6
  <2> HIDE DEF c
  <2>2. m - c + 1 \in 1..N /\ m \in 1..N /\ m - c + 1 <= m /\ m - (m - c + 1) + 1 = c
    BY <2>1
  <2>3. pair \in {p \in (DOMAIN hits) \X (DOMAIN hits) :
                    p[1] <= p[2] /\ \A k \in p[1]..p[2] : hits[k]}
    BY <2>1, <2>2
  <2>4. pair[2] - pair[1] + 1 = c
    BY <2>2
  <2>5. c \in Stretches(hits)
    BY <2>3, <2>4, Zenon DEF Stretches
  <2> QED
    BY <2>5 DEF c
<1>7. ASSUME NEW x \in Stretches(hits)
      PROVE  x <= current[m]
  <2>1. PICK p \in DOMAIN hits, q \in DOMAIN hits :
               p <= q /\ (\A k \in p..q : hits[k]) /\ x = q - p + 1
    BY <1>7 DEF Stretches
  <2>2. p \in 1..N /\ q \in 1..N
    OBVIOUS
  <2> DEFINE c == current[q]
  <2>3. c \in 0..q /\ (c < q => ~hits[q - c]) /\ c <= current[m]
    BY <1>2, <1>3, <2>2
  <2>4. current[m] \in Int
    BY <1>2
  <2> HIDE DEF c
  <2>5. SUFFICES ASSUME c < q - p + 1 PROVE FALSE
    BY <2>1, <2>2, <2>3, <2>4
  <2>6. c < q /\ q - c \in p..q
    BY <2>1, <2>2, <2>3, <2>5
  <2> QED
    BY <2>1, <2>3, <2>6
<1>8. current[m] \in 0..m
  BY <1>2
<1>9. longest \in {0} \cup Stretches(hits)
  BY <1>4, <1>6
<1>10. \A x \in {0} \cup Stretches(hits) : x <= longest
  BY <1>4, <1>7, <1>8
<1> QED
  BY <1>5, <1>9, <1>10, Zenon DEF longest
-----------------------------------------------------------------------------
(* The curve and its time stamps grow together, so that a finished run is   *)
(* always analysed.                                                         *)
PointsInv == Len(result.timestamps) = Len(result.equity_curve)

LEMMA PointsInit == Init => PointsInv
BY DEF Init, PointsInv, FreshResult

LEMMA PointsStep == TypeInv /\ PointsInv /\ [Next]_vars => PointsInv'
<1> SUFFICES ASSUME TypeOK, PointsInv, [Next]_vars PROVE PointsInv'
  BY DEF TypeInv
<1>0. /\ result.equity_curve \in Seq(Int) /\ result.timestamps \in Seq(Nat)
      /\ result \in Results /\ bar \in Nat /\ capital \in Int /\ position \in Positions
  BY DEF TypeOK, Results
<1>1. CASE set_strategy \/ (\E closes \in DataSets : set_data(closes)) \/ run_refused
  BY <1>1 DEF set_strategy, set_data, run_refused, PointsInv
<1>2. CASE run_begin
  <2>1. result'.equity_curve = <<InitialCapital>> /\ result'.timestamps = <<1>>
    BY <1>0, <1>2 DEF run_begin, Results
  <2> QED
    BY <2>1 DEF PointsInv
<1>3. CASE run_on_bar \/ run_generate_signal
  BY <1>3 DEF run_on_bar, run_generate_signal, PointsInv
<1>4. CASE process_buy \/ process_sell \/ run_end
  <2>1. /\ result'.equity_curve = result.equity_curve
        /\ result'.timestamps = result.timestamps
    BY <1>0, <1>4 DEF process_buy, process_sell, record_trade, run_end, Results
  <2> QED
    BY <2>1 DEF PointsInv
<1>5. CASE run_record
  <2>1. \E x, y : /\ result'.equity_curve = Append(result.equity_curve, x)
                  /\ result'.timestamps = Append(result.timestamps, y)
    BY <1>0, <1>5 DEF run_record, Results
  <2> QED
    BY <1>0, <2>1 DEF PointsInv
<1>6. CASE UNCHANGED vars
  BY <1>6 DEF vars, engine_vars, PointsInv
<1> QED
  BY <1>1, <1>2, <1>3, <1>4, <1>5, <1>6 DEF Next

LEMMA PointsCorrect == Spec => [](TypeInv /\ PointsInv)
  BY TypeInit, TypeStep, PointsInit, PointsStep, PTL DEF Spec

LEMMA ResultIsAnalysed ==
  ASSUME TypeOK, PointsInv, Finished
  PROVE  /\ result.trades \in Seq(Trades)
         /\ ~(result.equity_curve = <<>> \/ result.timestamps = <<>>
                \/ Len(result.equity_curve) # Len(result.timestamps))
<1>1. /\ result.equity_curve \in Seq(Int) /\ result.timestamps \in Seq(Nat)
      /\ result.trades \in Seq(Trades) /\ result.equity_curve # <<>>
  BY DEF TypeOK, Results, Finished
<1> QED
  BY <1>1 DEF PointsInv
-----------------------------------------------------------------------------
USE ToleranceAssumption

(* The closing trades, as the analyser and as the property select them.     *)
Winning(trade) == trade.pnl > EPSILON
Losing(trade)  == trade.pnl < -EPSILON
Closes(trade)  == trade.pnl > EPSILON \/ trade.pnl < -EPSILON

Winners == INSTANCE ChosenLemmas WITH keep <- Winning
Losers  == INSTANCE ChosenLemmas WITH keep <- Losing
Closing == INSTANCE ChosenLemmas WITH keep <- Closes
Uneven  == INSTANCE ChosenLemmas WITH keep <- NotEven

LEMMA ClosingChosen ==
  ASSUME NEW s
  PROVE  Perf!counted(s) = Closing!Chosen(s)
BY Zenon
   DEF Perf!counted, Perf!closes, Perf!won, Perf!lost, Closes,
       Perf!chosen, Closing!Chosen, Closing!chosen,
       Perf!FoldLeft, Closing!FoldLeft, Perf!MapThenFoldSet, Closing!MapThenFoldSet,
       Perf!Max, Closing!Max

LEMMA UnevenChosen ==
  ASSUME NEW s
  PROVE  chosen(s, NotEven) = Uneven!Chosen(s)
BY Zenon
   DEF chosen, Uneven!Chosen, Uneven!chosen,
       FoldLeft, Uneven!FoldLeft, MapThenFoldSet, Uneven!MapThenFoldSet,
       Max, Uneven!Max

LEMMA SameClosing ==
  ASSUME NEW s \in Seq(Trades)
  PROVE  Closing!Chosen(s) = Uneven!Chosen(s)
<1> DEFINE T == {k \in 0..Len(s) :
                   Closing!Chosen(SubSeq(s, 1, k)) = Uneven!Chosen(SubSeq(s, 1, k))}
<1>1. 0 \in T
  <2>1. SubSeq(s, 1, 0) = <<>> /\ 0 \in 0..Len(s)
    OBVIOUS
  <2> QED
    BY <2>1, Closing!ChosenEmpty, Uneven!ChosenEmpty, Zenon
<1>2. ASSUME NEW k \in 0..(Len(s) - 1), k \in T
      PROVE  k + 1 \in T
  <2>1. k + 1 \in 0..Len(s) /\ s[k + 1] \in Trades
    OBVIOUS
  <2>2. Closes(s[k + 1]) <=> NotEven(s[k + 1])
    BY <2>1 DEF Closes, NotEven, Trades
  <2>3. Closing!Chosen(SubSeq(s, 1, k)) = Uneven!Chosen(SubSeq(s, 1, k))
    BY <1>2
  <2>4. Closing!Chosen(SubSeq(s, 1, k + 1)) =
          IF Closes(s[k + 1]) THEN Append(Closing!Chosen(SubSeq(s, 1, k)), s[k + 1])
          ELSE Closing!Chosen(SubSeq(s, 1, k))
    BY Closing!ChosenOfPrefix, Zenon
  <2>5. Uneven!Chosen(SubSeq(s, 1, k + 1)) =
          IF NotEven(s[k + 1]) THEN Append(Uneven!Chosen(SubSeq(s, 1, k)), s[k + 1])
          ELSE Uneven!Chosen(SubSeq(s, 1, k))
    BY Uneven!ChosenOfPrefix, Zenon
  <2>6. Closing!Chosen(SubSeq(s, 1, k + 1)) = Uneven!Chosen(SubSeq(s, 1, k + 1))
    BY <2>2, <2>3, <2>4, <2>5, Zenon
  <2> QED
    BY <2>1, <2>6
<1> HIDE DEF T
<1>3. Len(s) \in T
  BY <1>1, <1>2, Closing!PrefixInduction, Zenon
<1>4. SubSeq(s, 1, Len(s)) = s
  OBVIOUS
<1> QED
  BY <1>3, <1>4, Zenon DEF T

(* The streaks of the analysis, as lists of flags.                          *)
Flags(s, sign) == [i \in DOMAIN s |-> sign * s[i].pnl > 0]

LEMMA FlagsAre ==
  ASSUME NEW s \in Seq(Trades), NEW sign \in {1, -1}
  PROVE  LET closing == Closing!Chosen(s) IN
         /\ closing \in Seq(Trades)
         /\ Flags(closing, sign) \in [1..Len(closing) -> BOOLEAN]
         /\ Len(Flags(closing, sign)) = Len(closing)
         /\ Flags(closing, 1) = [i \in DOMAIN closing |-> Perf!won(closing[i])]
         /\ Flags(closing, -1) = [i \in DOMAIN closing |-> Perf!lost(closing[i])]
<1> DEFINE closing == Closing!Chosen(s)
<1>1. closing \in Seq({x \in Trades : Closes(x)})
  BY Closing!ChosenType, Zenon
<1> HIDE DEF closing
<1>2. closing \in Seq(Trades)
  BY <1>1
<1>3. \A i \in DOMAIN closing : closing[i].pnl \in Int /\ Closes(closing[i])
  <2>1. \A i \in DOMAIN closing : closing[i] \in Trades /\ Closes(closing[i])
    BY <1>1
  <2>2. \A i \in DOMAIN closing : closing[i].pnl \in Int
    BY <2>1 DEF Trades
  <2> QED
    BY <2>1, <2>2
<1>4. Flags(closing, sign) \in [1..Len(closing) -> BOOLEAN]
  BY <1>2 DEF Flags
<1>5. Len(Flags(closing, sign)) = Len(closing)
  BY <1>2 DEF Flags
<1>6. \A i \in DOMAIN closing : /\ (1 * closing[i].pnl > 0) = Perf!won(closing[i])
                                /\ ((-1) * closing[i].pnl > 0) = Perf!lost(closing[i])
  BY <1>3 DEF Perf!won, Perf!lost, Closes
<1>7. Flags(closing, 1) = [i \in DOMAIN closing |-> Perf!won(closing[i])]
  BY <1>6, Zenon DEF Flags
<1>8. Flags(closing, -1) = [i \in DOMAIN closing |-> Perf!lost(closing[i])]
  BY <1>6, Zenon DEF Flags
<1> QED
  BY <1>2, <1>4, <1>5, <1>7, <1>8, Zenon DEF closing

LEMMA LongestFlags ==
  ASSUME NEW s \in Seq(Trades), NEW sign \in {1, -1}
  PROVE  LET flags == Flags(Closing!Chosen(s), sign) IN
         Perf!longest_streak(flags) = Max({0} \cup Stretches(flags))
<1> DEFINE flags == Flags(Closing!Chosen(s), sign)
           N == Len(Closing!Chosen(s))
<1>1. Closing!Chosen(s) \in Seq(Trades) /\ flags \in [1..N -> BOOLEAN] /\ Len(flags) = N
  BY FlagsAre, Zenon
<1>2. N \in Nat
  BY <1>1
<1> HIDE DEF flags, N
<1>3. /\ Perf!longest_streak(flags) \in {0} \cup Stretches(flags)
      /\ {0} \cup Stretches(flags) \in SUBSET Int
      /\ \A x \in {0} \cup Stretches(flags) : x <= Perf!longest_streak(flags)
  BY <1>1, <1>2, LongestIsRun, Zenon
<1>4. Max({0} \cup Stretches(flags)) = Perf!longest_streak(flags)
  BY <1>3, MaxIsBound, Zenon
<1> QED
  BY <1>4 DEF flags

LEMMA StreaksHold == TypeOK /\ PointsInv => StreaksAreRuns
<1> SUFFICES ASSUME TypeOK, PointsInv, Finished PROVE StreaksAreRuns
  BY Zenon DEF StreaksAreRuns
<1> DEFINE s == result.trades
           closing == Closing!Chosen(s)
           flags(sign) == Flags(closing, sign)
<1>1. /\ s \in Seq(Trades)
      /\ ~(result.equity_curve = <<>> \/ result.timestamps = <<>>
             \/ Len(result.equity_curve) # Len(result.timestamps))
  BY ResultIsAnalysed, Zenon
<1>2. /\ Metrics.max_consecutive_wins = Perf!calculate_max_consecutive(s)[1]
      /\ Metrics.max_consecutive_losses = Perf!calculate_max_consecutive(s)[2]
  BY <1>1 DEF Metrics, Perf!analyze
<1>3. 1 \in {1, -1} /\ -1 \in {1, -1}
  OBVIOUS
<1>4. /\ flags(1) = [i \in DOMAIN closing |-> Perf!won(closing[i])]
      /\ flags(-1) = [i \in DOMAIN closing |-> Perf!lost(closing[i])]
  BY <1>1, <1>3, FlagsAre, Zenon
<1>5. Perf!counted(s) = closing
  BY ClosingChosen, Zenon
<1>6. Perf!calculate_max_consecutive(s)
        = <<Perf!longest_streak(flags(1)), Perf!longest_streak(flags(-1))>>
  BY <1>4, <1>5, Zenon DEF Perf!calculate_max_consecutive
<1>7. \A sign \in {1, -1} : Perf!longest_streak(flags(sign)) = Max({0} \cup Stretches(flags(sign)))
  BY <1>1, LongestFlags, Zenon
<1>8. chosen(s, NotEven) = closing
  BY <1>1, SameClosing, UnevenChosen, Zenon
<1>9. ASSUME NEW sign \in {1, -1}
      PROVE  Stretches(flags(sign)) =
               {pair[2] - pair[1] + 1 :
                  pair \in {p \in (DOMAIN closing) \X (DOMAIN closing) :
                    p[1] <= p[2] /\ \A k \in p[1]..p[2] : sign * closing[k].pnl > 0}}
  <2>1. closing \in Seq(Trades)
    BY <1>1, FlagsAre, Zenon
  <2> HIDE DEF closing
  <2>2. DOMAIN flags(sign) = DOMAIN closing
    BY <2>1 DEF Flags
  <2>3. \A p \in (DOMAIN closing) \X (DOMAIN closing) :
          \A k \in p[1]..p[2] : flags(sign)[k] = (sign * closing[k].pnl > 0)
    BY <2>1 DEF Flags
  <2> QED
    BY <2>2, <2>3 DEF Stretches
<1> HIDE DEF closing, s, flags
<1>10. /\ Metrics.max_consecutive_wins = Max({0} \cup Stretches(flags(1)))
       /\ Metrics.max_consecutive_losses = Max({0} \cup Stretches(flags(-1)))
  BY <1>2, <1>3, <1>6, <1>7
<1> QED
  BY <1>3, <1>8, <1>9, <1>10, Zenon DEF StreaksAreRuns, s

(* Whatever the trades: the longest streaks are the longest runs of closing *)
(* trades with a profit, or with a loss.                                    *)
THEOREM StreaksAreAlwaysRuns == Spec => []StreaksAreRuns
<1>1. TypeInv /\ PointsInv => StreaksAreRuns
  BY StreaksHold DEF TypeInv
<1> QED
  BY <1>1, PointsCorrect, PTL
-----------------------------------------------------------------------------
(* The trade list of the result: as long as there was one run, it is that   *)
(* of the strategy, whose trades alternate and grow in time.  In every run  *)
(* a BUY has no profit or loss.                                             *)
Alternates(log) ==
  /\ \A i \in 1..Len(log) : log[i].signal = Side(i)
  /\ \A i, j \in 1..Len(log) : i < j => log[i].timestamp < log[j].timestamp

LogInv ==
  /\ runs = 0 => pc = "idle" /\ trades = <<>> /\ result.trades = <<>>
  /\ runs <= 1 =>
       /\ pc # "idle" => result.trades = trades
       /\ Alternates(result.trades)
       /\ pc \in {"bar", "signal", "process"} =>
            \A i \in 1..Len(result.trades) : result.trades[i].timestamp < bar
       /\ pc = "record" =>
            \A i \in 1..Len(result.trades) : result.trades[i].timestamp <= bar
  /\ \A i \in 1..Len(result.trades) :
       result.trades[i].signal = "BUY" => result.trades[i].pnl = 0

LEMMA LogInit == Init => LogInv
BY DEF Init, LogInv, FreshResult, Alternates

LEMMA LogTimes ==
  ASSUME NEW log \in Seq(Trades)
  PROVE  \A i \in 1..Len(log) : log[i].timestamp \in Nat
<1> TAKE i \in 1..Len(log)
<1>1. log[i] \in Trades
  OBVIOUS
<1> QED
  BY <1>1 DEF Trades

(* A trade of the bar at hand, on the side owed, keeps the list so.         *)
LEMMA AlternatesAppend ==
  ASSUME NEW log \in Seq(Trades), NEW trade \in Trades, bar \in Nat,
         Alternates(log), trade.timestamp = bar, trade.signal = Side(Len(log) + 1),
         \A i \in 1..Len(log) : log[i].timestamp < bar
  PROVE  /\ Alternates(Append(log, trade))
         /\ \A i \in 1..Len(Append(log, trade)) : Append(log, trade)[i].timestamp <= bar
<1> DEFINE longer == Append(log, trade)
           n == Len(log)
<1>1. /\ n \in Nat /\ Len(longer) = n + 1 /\ longer[n + 1] = trade
      /\ \A i \in 1..n : longer[i] = log[i]
  OBVIOUS
<1>2. \A i \in 1..n : log[i].timestamp \in Nat
  BY LogTimes
<1>3. \A i \in 1..n : log[i].signal = Side(i)
  BY DEF Alternates
<1>4. \A i, j \in 1..n : i < j => log[i].timestamp < log[j].timestamp
  BY DEF Alternates
<1> HIDE DEF longer, n
<1>5. \A i \in 1..(n + 1) : i \in 1..n \/ i = n + 1
  BY <1>1
<1>6. \A i \in 1..(n + 1) : longer[i].signal = Side(i)
  BY <1>1, <1>3, <1>5 DEF n
<1>7. \A i, j \in 1..(n + 1) : i < j => longer[i].timestamp < longer[j].timestamp
  <2> TAKE i, j \in 1..(n + 1)
  <2>1. SUFFICES ASSUME i < j PROVE longer[i].timestamp < longer[j].timestamp
    OBVIOUS
  <2>2. i \in 1..n
    BY <1>1, <2>1
  <2>3. CASE j \in 1..n
    BY <1>1, <1>4, <2>1, <2>2, <2>3
  <2>4. CASE j = n + 1
    BY <1>1, <2>2, <2>4 DEF n
  <2> QED
    BY <1>5, <2>3, <2>4
<1>8. \A i \in 1..(n + 1) : longer[i].timestamp <= bar
  BY <1>1, <1>2, <1>5 DEF n
<1> QED
  BY <1>1, <1>6, <1>7, <1>8 DEF Alternates, longer

LEMMA LogStep ==
  TypeInv /\ TypeInv' /\ ControlInv /\ LogInv /\ [Next]_vars => LogInv'
<1> SUFFICES ASSUME TypeOK, LoopAgrees, TypeOK', ControlInv, LogInv, [Next]_vars
             PROVE  LogInv'
  BY DEF TypeInv
<1>0. /\ result \in Results /\ result.trades \in Seq(Trades) /\ bar \in Nat \ {0}
      /\ runs \in Nat /\ trades \in Seq(Trades)
  BY DEF TypeOK, Results
<1>a. \A i \in 1..Len(result.trades) : result.trades[i].timestamp \in Nat
  BY <1>0, LogTimes
<1>1. CASE set_strategy
  <2>1. /\ trades' = <<>> /\ result' = result /\ runs' = runs /\ pc' = "idle" /\ pc = "idle"
    BY <1>1 DEF set_strategy, construct_strategy, construct_base
  <2> QED
    BY <2>1 DEF LogInv, Alternates
<1>2. ASSUME NEW closes \in DataSets, set_data(closes)
      PROVE  LogInv'
  BY <1>2 DEF set_data, strategy_vars, base_vars, LogInv, Alternates
<1>3. CASE run_refused
  <2>1. /\ trades' = trades /\ result' = result /\ runs' = runs + 1
        /\ pc' = "idle" /\ pc = "idle"
    BY <1>3 DEF run_refused, strategy_vars, base_vars
  <2> QED
    BY <1>0, <2>1 DEF LogInv, Alternates
<1>4. CASE run_begin
  <2>1. /\ trades' = trades /\ result'.trades = result.trades /\ runs' = runs + 1
        /\ pc' = "bar" /\ pc = "idle" /\ bar' = 1
    BY <1>0, <1>4 DEF run_begin, Results
  <2>2. runs' # 0 /\ (runs' <= 1 => runs = 0)
    BY <1>0, <2>1
  <2>3. runs = 0 => trades = <<>> /\ result.trades = <<>> /\ Len(<<>>) = 0
    BY DEF LogInv
  <2>4. runs' <= 1 => /\ result'.trades = trades'
                      /\ Alternates(result'.trades)
                      /\ \A i \in 1..Len(result'.trades) : FALSE
    BY <2>1, <2>2, <2>3 DEF Alternates
  <2> QED
    BY <2>1, <2>2, <2>4 DEF LogInv, Alternates
<1>5. CASE run_on_bar
  <2>1. /\ trades' = trades /\ result' = result /\ runs' = runs /\ bar' = bar
        /\ pc' = "signal" /\ pc = "bar"
    BY <1>5 DEF run_on_bar
  <2> QED
    BY <2>1 DEF LogInv, Alternates
<1>6. CASE run_generate_signal
  <2>1. /\ trades' = trades /\ result' = result /\ runs' = runs /\ bar' = bar
        /\ pc' \in {"process", "record"} /\ pc = "signal"
    BY <1>6 DEF run_generate_signal, base_vars
  <2>2. runs <= 1 => \A i \in 1..Len(result.trades) : result.trades[i].timestamp <= bar
    BY <1>0, <1>a, <2>1 DEF LogInv
  <2> QED
    BY <2>1, <2>2 DEF LogInv, Alternates
<1>7. ASSUME NEW trade \in Trades, record_trade(trade), pc = "process", pc' = "record",
             bar' = bar, runs' = runs,
             trade.timestamp = bar, trade.signal = signal,
             trade.signal = "BUY" => trade.pnl = 0
      PROVE  LogInv'
  <2>1. /\ result'.trades = Append(result.trades, trade)
        /\ trades' = Append(trades, trade)
    BY <1>0, <1>7 DEF record_trade, add_trade, Results
  <2>2. runs # 0
    BY <1>7 DEF LogInv
  <2>3. \A i \in 1..Len(result'.trades) :
          result'.trades[i].signal = "BUY" => result'.trades[i].pnl = 0
    BY <1>0, <1>7, <2>1 DEF LogInv
  <2>4. ASSUME runs <= 1
        PROVE  /\ result'.trades = trades'
               /\ Alternates(result'.trades)
               /\ \A i \in 1..Len(result'.trades) : result'.trades[i].timestamp <= bar
    <3>1. /\ result.trades = trades /\ Alternates(result.trades)
          /\ \A i \in 1..Len(result.trades) : result.trades[i].timestamp < bar
      BY <1>7, <2>4 DEF LogInv
    <3>2. trade.signal = Side(Len(result.trades) + 1)
      BY <1>7, <3>1 DEF ControlInv
    <3>3. /\ Alternates(Append(result.trades, trade))
          /\ \A i \in 1..Len(Append(result.trades, trade)) :
               Append(result.trades, trade)[i].timestamp <= bar
      BY <1>0, <1>7, <3>1, <3>2, AlternatesAppend, bar \in Nat, Zenon
    <3> QED
      BY <2>1, <3>1, <3>3
  <2> QED
    BY <1>7, <2>2, <2>3, <2>4 DEF LogInv, Alternates
<1>8. CASE process_buy
  <2> DEFINE trade == Trade("BUY", buy_price(data[bar]), lots_for(buy_amount, data[bar]), 0)
  <2>1. /\ data[bar] \in Prices /\ pc = "process" /\ pc' = "record" /\ bar' = bar
        /\ runs' = runs /\ signal = "BUY" /\ record_trade(trade)
    BY <1>8 DEF process_buy, process_unchanged, TypeOK, LoopAgrees
  <2>2. trade \in Trades
    <3>1. capital \in Int /\ position \in Positions
      BY DEF TypeOK
    <3>2. buy_price(data[bar]) \in Nat \ {0} /\ lots_for(buy_amount, data[bar]) \in Int
      BY <2>1, <3>1, FillTypes, Zenon
    <3> QED
      BY <1>0, <3>2 DEF Trade, Trades
  <2>3. trade.timestamp = bar /\ trade.signal = "BUY" /\ trade.pnl = 0
    BY DEF Trade
  <2> QED
    BY <1>7, <2>1, <2>2, <2>3
<1>9. CASE process_sell
  <2> DEFINE trade == Trade("SELL", sell_price(data[bar]), 0, sell_pnl(data[bar]))
  <2>1. /\ data[bar] \in Prices /\ pc = "process" /\ pc' = "record" /\ bar' = bar
        /\ runs' = runs /\ signal = "SELL" /\ record_trade(trade)
    BY <1>9 DEF process_sell, process_unchanged, TypeOK, LoopAgrees
  <2>2. trade \in Trades
    <3>1. capital \in Int /\ position \in Positions
      BY DEF TypeOK
    <3>2. sell_price(data[bar]) \in Nat /\ sell_pnl(data[bar]) \in Int
      BY <2>1, <3>1, FillTypes, Zenon
    <3> QED
      BY <1>0, <3>2 DEF Trade, Trades
  <2>3. trade.timestamp = bar /\ trade.signal = "SELL" /\ trade.signal # "BUY"
    BY DEF Trade
  <2> QED
    BY <1>7, <2>1, <2>2, <2>3
<1>10. CASE run_record
  <2>1. /\ pc = "record" /\ pc' = "bar" /\ bar' = bar + 1 /\ trades' = trades
        /\ runs' = runs
    BY <1>10 DEF run_record
  <2>2. result'.trades = result.trades
    BY <1>0, <1>10 DEF run_record, Results
  <2>3. runs <= 1 => \A i \in 1..Len(result.trades) : result.trades[i].timestamp < bar + 1
    BY <1>0, <1>a, <2>1 DEF LogInv
  <2> QED
    BY <2>1, <2>2, <2>3 DEF LogInv, Alternates
<1>11. CASE run_end
  <2>1. /\ pc = "bar" /\ pc' = "idle" /\ trades' = trades /\ runs' = runs
    BY <1>11 DEF run_end, strategy_vars, base_vars
  <2>2. result'.trades = result.trades
    BY <1>0, <1>11 DEF run_end, Results
  <2> QED
    BY <2>1, <2>2 DEF LogInv, Alternates
<1>12. CASE UNCHANGED vars
  BY <1>12 DEF vars, strategy_vars, engine_vars, base_vars, LogInv, Alternates
<1> QED
  BY <1>1, <1>2, <1>3, <1>4, <1>5, <1>6, <1>8, <1>9, <1>10, <1>11, <1>12 DEF Next
-----------------------------------------------------------------------------
LEMMA WinnersChosen ==
  ASSUME NEW s
  PROVE  Perf!chosen(s, Perf!won) = Winners!Chosen(s)
BY Zenon
   DEF Perf!chosen, Perf!won, Winners!Chosen, Winners!chosen, Winning,
       Perf!FoldLeft, Winners!FoldLeft, Perf!MapThenFoldSet, Winners!MapThenFoldSet,
       Perf!Max, Winners!Max

LEMMA LosersChosen ==
  ASSUME NEW s
  PROVE  Perf!chosen(s, Perf!lost) = Losers!Chosen(s)
BY Zenon
   DEF Perf!chosen, Perf!lost, Losers!Chosen, Losers!chosen, Losing,
       Perf!FoldLeft, Losers!FoldLeft, Perf!MapThenFoldSet, Losers!MapThenFoldSet,
       Perf!Max, Losers!Max

(* Leaving out the trades that close nothing loses no profit and no loss.   *)
LEMMA WinnersClose ==
  ASSUME NEW s \in Seq(Trades)
  PROVE  Winners!Chosen(Closing!Chosen(s)) = Winners!Chosen(s)
<1> DEFINE T == {k \in 0..Len(s) :
                   Winners!Chosen(Closing!Chosen(SubSeq(s, 1, k)))
                     = Winners!Chosen(SubSeq(s, 1, k))}
<1>1. 0 \in T
  <2>1. SubSeq(s, 1, 0) = <<>> /\ 0 \in 0..Len(s)
    OBVIOUS
  <2> QED
    BY <2>1, Closing!ChosenEmpty, Zenon
<1>2. ASSUME NEW k \in 0..(Len(s) - 1), k \in T
      PROVE  k + 1 \in T
  <2> DEFINE e == s[k + 1]
             closed == Closing!Chosen(SubSeq(s, 1, k))
  <2>1. k + 1 \in 0..Len(s) /\ e \in Trades /\ SubSeq(s, 1, k) \in Seq(Trades)
    OBVIOUS
  <2>2. Winning(e) => Closes(e)
    BY Zenon DEF Winning, Closes
  <2>3. closed \in Seq(Trades)
    <3>1. closed \in Seq({x \in Trades : Closes(x)})
      BY <2>1, Closing!ChosenType, Zenon
    <3> HIDE DEF closed
    <3> QED
      BY <3>1
  <2>4. Winners!Chosen(closed) = Winners!Chosen(SubSeq(s, 1, k))
    BY <1>2
  <2>5. Closing!Chosen(SubSeq(s, 1, k + 1)) = IF Closes(e) THEN Append(closed, e) ELSE closed
    BY Closing!ChosenOfPrefix, Zenon
  <2>6. Winners!Chosen(SubSeq(s, 1, k + 1)) =
          IF Winning(e) THEN Append(Winners!Chosen(SubSeq(s, 1, k)), e)
          ELSE Winners!Chosen(SubSeq(s, 1, k))
    BY Winners!ChosenOfPrefix, Zenon
  <2>7. Winners!Chosen(Append(closed, e)) =
          IF Winning(e) THEN Append(Winners!Chosen(closed), e) ELSE Winners!Chosen(closed)
    BY <2>1, <2>3, Winners!ChosenAppend, Zenon
  <2> HIDE DEF e, closed
  <2>8. Winners!Chosen(Closing!Chosen(SubSeq(s, 1, k + 1)))
          = Winners!Chosen(SubSeq(s, 1, k + 1))
    <3>1. CASE Winning(e)
      BY <2>2, <2>4, <2>5, <2>6, <2>7, <3>1, Zenon
    <3>2. CASE ~Winning(e) /\ Closes(e)
      BY <2>4, <2>5, <2>6, <2>7, <3>2, Zenon
    <3>3. CASE ~Winning(e) /\ ~Closes(e)
      BY <2>4, <2>5, <2>6, <3>3, Zenon
    <3> QED
      BY <3>1, <3>2, <3>3, Zenon
  <2> QED
    BY <2>1, <2>8
<1> HIDE DEF T
<1>3. Len(s) \in T
  BY <1>1, <1>2, Closing!PrefixInduction, Zenon
<1>4. SubSeq(s, 1, Len(s)) = s
  OBVIOUS
<1> QED
  BY <1>3, <1>4, Zenon DEF T

LEMMA LosersClose ==
  ASSUME NEW s \in Seq(Trades)
  PROVE  Losers!Chosen(Closing!Chosen(s)) = Losers!Chosen(s)
<1> DEFINE T == {k \in 0..Len(s) :
                   Losers!Chosen(Closing!Chosen(SubSeq(s, 1, k)))
                     = Losers!Chosen(SubSeq(s, 1, k))}
<1>1. 0 \in T
  <2>1. SubSeq(s, 1, 0) = <<>> /\ 0 \in 0..Len(s)
    OBVIOUS
  <2> QED
    BY <2>1, Closing!ChosenEmpty, Zenon
<1>2. ASSUME NEW k \in 0..(Len(s) - 1), k \in T
      PROVE  k + 1 \in T
  <2> DEFINE e == s[k + 1]
             closed == Closing!Chosen(SubSeq(s, 1, k))
  <2>1. k + 1 \in 0..Len(s) /\ e \in Trades /\ SubSeq(s, 1, k) \in Seq(Trades)
    OBVIOUS
  <2>2. Losing(e) => Closes(e)
    BY Zenon DEF Losing, Closes
  <2>3. closed \in Seq(Trades)
    <3>1. closed \in Seq({x \in Trades : Closes(x)})
      BY <2>1, Closing!ChosenType, Zenon
    <3> HIDE DEF closed
    <3> QED
      BY <3>1
  <2>4. Losers!Chosen(closed) = Losers!Chosen(SubSeq(s, 1, k))
    BY <1>2
  <2>5. Closing!Chosen(SubSeq(s, 1, k + 1)) = IF Closes(e) THEN Append(closed, e) ELSE closed
    BY Closing!ChosenOfPrefix, Zenon
  <2>6. Losers!Chosen(SubSeq(s, 1, k + 1)) =
          IF Losing(e) THEN Append(Losers!Chosen(SubSeq(s, 1, k)), e)
          ELSE Losers!Chosen(SubSeq(s, 1, k))
    BY Losers!ChosenOfPrefix, Zenon
  <2>7. Losers!Chosen(Append(closed, e)) =
          IF Losing(e) THEN Append(Losers!Chosen(closed), e) ELSE Losers!Chosen(closed)
    BY <2>1, <2>3, Losers!ChosenAppend, Zenon
  <2> HIDE DEF e, closed
  <2>8. Losers!Chosen(Closing!Chosen(SubSeq(s, 1, k + 1)))
          = Losers!Chosen(SubSeq(s, 1, k + 1))
    <3>1. CASE Losing(e)
      BY <2>2, <2>4, <2>5, <2>6, <2>7, <3>1, Zenon
    <3>2. CASE ~Losing(e) /\ Closes(e)
      BY <2>4, <2>5, <2>6, <2>7, <3>2, Zenon
    <3>3. CASE ~Losing(e) /\ ~Closes(e)
      BY <2>4, <2>5, <2>6, <3>3, Zenon
    <3> QED
      BY <3>1, <3>2, <3>3, Zenon
  <2> QED
    BY <2>1, <2>8
<1> HIDE DEF T
<1>3. Len(s) \in T
  BY <1>1, <1>2, Closing!PrefixInduction, Zenon
<1>4. SubSeq(s, 1, Len(s)) = s
  OBVIOUS
<1> QED
  BY <1>3, <1>4, Zenon DEF T

(* No stretch of hits is longer than the number of hits.                    *)
LEMMA StretchIsCounted ==
  ASSUME NEW N \in Nat, NEW hits \in [1..N -> BOOLEAN],
         NEW n \in {0} \cup Stretches(hits)
  PROVE  n <= Cardinality({i \in 1..N : hits[i]})
<1> DEFINE H == {i \in 1..N : hits[i]}
<1>1. IsFiniteSet(1..N)
  <2>1. 1 \in Int /\ N \in Int
    OBVIOUS
  <2> QED
    BY <2>1, FS_Interval, Zenon
<1>2. IsFiniteSet(H) /\ Cardinality(H) \in Nat
  BY <1>1, FS_Subset, FS_CardinalityType
<1>3. ASSUME n \in Stretches(hits)
      PROVE  n <= Cardinality(H)
  <2>1. PICK p \in DOMAIN hits, q \in DOMAIN hits :
               p <= q /\ (\A k \in p..q : hits[k]) /\ n = q - p + 1
    BY <1>3 DEF Stretches
  <2>2. p \in 1..N /\ q \in 1..N
    OBVIOUS
  <2>3. (p..q) \in SUBSET H
    BY <2>1, <2>2
  <2>4. p \in Int /\ q \in Int
    BY <2>2
  <2>5. Cardinality(p..q) = IF p > q THEN 0 ELSE q - p + 1
    BY <2>4, FS_Interval, Zenon
  <2>6. Cardinality(p..q) <= Cardinality(H)
    BY <1>2, <2>3, FS_Subset
  <2> QED
    BY <2>1, <2>2, <2>5, <2>6
<1> HIDE DEF H
<1>4. n <= Cardinality(H)
  BY <1>2, <1>3
<1> QED
  BY <1>4 DEF H

(* So that no streak is longer than the trades with a profit (or a loss).   *)
LEMMA StreakIsCounted ==
  ASSUME NEW s \in Seq(Trades)
  PROVE  LET closing == Closing!Chosen(s) IN
         /\ Perf!longest_streak(Flags(closing, 1)) <= Len(Winners!Chosen(s))
         /\ Perf!longest_streak(Flags(closing, -1)) <= Len(Losers!Chosen(s))
<1> DEFINE closing == Closing!Chosen(s)
<1>1. 1 \in {1, -1} /\ -1 \in {1, -1}
  OBVIOUS
<1>2. closing \in Seq(Trades)
  BY <1>1, FlagsAre, Zenon
<1>3. \A sign \in {1, -1} : /\ Flags(closing, sign) \in [1..Len(closing) -> BOOLEAN]
                            /\ Len(Flags(closing, sign)) = Len(closing)
  BY FlagsAre, Zenon
<1>5. /\ Winners!Chosen(closing) = Winners!Chosen(s)
      /\ Losers!Chosen(closing) = Losers!Chosen(s)
  BY WinnersClose, LosersClose, Zenon
<1>10. closing \in Seq({x \in Trades : Closes(x)})
  BY Closing!ChosenType, Zenon
<1> HIDE DEF closing
<1>4. /\ Len(Winners!Chosen(closing))
           = Cardinality({i \in 1..Len(closing) : Winning(closing[i])})
      /\ Len(Losers!Chosen(closing))
           = Cardinality({i \in 1..Len(closing) : Losing(closing[i])})
  <2>1. Len(Winners!Chosen(closing)) = Cardinality(Winners!Passing(closing, Len(closing)))
    BY <1>2, Winners!ChosenCount, Zenon DEF Winners!Cardinality, Cardinality
  <2>2. Len(Losers!Chosen(closing)) = Cardinality(Losers!Passing(closing, Len(closing)))
    BY <1>2, Losers!ChosenCount, Zenon DEF Losers!Cardinality, Cardinality
  <2> QED
    BY <2>1, <2>2, Zenon DEF Winners!Passing, Losers!Passing
<1>6. Len(closing) \in Nat
  BY <1>2
<1>7. \A i \in 1..Len(closing) : /\ Flags(closing, 1)[i] = Winning(closing[i])
                                 /\ Flags(closing, -1)[i] = Losing(closing[i])
  <2>1. \A i \in 1..Len(closing) : closing[i] \in Trades /\ Closes(closing[i])
    BY <1>10
  <2>2. \A i \in 1..Len(closing) : closing[i].pnl \in Int
    BY <2>1 DEF Trades
  <2> QED
    BY <1>2, <2>1, <2>2 DEF Flags, Winning, Losing, Closes
<1>8. \A sign \in {1, -1} :
        Perf!longest_streak(Flags(closing, sign))
          <= Cardinality({i \in 1..Len(closing) : Flags(closing, sign)[i]})
  <2> TAKE sign \in {1, -1}
  <2>1. Perf!longest_streak(Flags(closing, sign)) \in {0} \cup Stretches(Flags(closing, sign))
    BY <1>3, <1>6, LongestIsRun, Zenon
  <2> QED
    BY <1>3, <1>6, <2>1, StretchIsCounted, Zenon
<1>9. /\ {i \in 1..Len(closing) : Flags(closing, 1)[i]}
           = {i \in 1..Len(closing) : Winning(closing[i])}
      /\ {i \in 1..Len(closing) : Flags(closing, -1)[i]}
           = {i \in 1..Len(closing) : Losing(closing[i])}
  BY <1>7
<1> QED
  BY <1>1, <1>4, <1>5, <1>8, <1>9, Zenon DEF closing
-----------------------------------------------------------------------------
(* A finite set loses as many elements as are taken out of it.              *)
LEMMA PartOfFinite ==
  ASSUME NEW n \in Nat, NEW P \in SUBSET (1..n), NEW Q \in SUBSET (1..n), P \cap Q = {}
  PROVE  Cardinality(P \cup Q) - Cardinality(Q) = Cardinality(P)
<1>1. IsFiniteSet(1..n)
  <2>1. 1 \in Int /\ n \in Int
    OBVIOUS
  <2> QED
    BY <2>1, FS_Interval, Zenon
<1>2. IsFiniteSet(P) /\ IsFiniteSet(Q) /\ Cardinality(P) \in Nat /\ Cardinality(Q) \in Nat
  BY <1>1, FS_Subset, FS_CardinalityType
<1>3. Cardinality(P \cup Q)
        = Cardinality(P) + Cardinality(Q) - Cardinality(P \cap Q)
  BY <1>2, FS_Union
<1>4. Cardinality(P \cap Q) = 0
  BY FS_EmptySet
<1> QED
  BY <1>2, <1>3, <1>4

(* The counters of the engine count what the analyser selects, and beyond   *)
(* it only what is within the tolerance.                                    *)
LEMMA CountersAreSelections ==
  ASSUME TypeOK, SummaryAgrees, LogInv
  PROVE  /\ result.winning_trades - Cardinality(Negligible(1))
              = Len(Winners!Chosen(result.trades))
         /\ result.losing_trades - Cardinality(Negligible(-1))
              = Len(Losers!Chosen(result.trades))
<1> DEFINE s == result.trades
           won == {i \in 1..Len(s) : Winning(s[i])}
           lost == {i \in 1..Len(s) : Losing(s[i])}
<1>1. s \in Seq(Trades)
  BY DEF TypeOK, Results
<1>2. \A i \in 1..Len(s) : /\ s[i].signal \in {"BUY", "SELL"} /\ s[i].pnl \in Int
                           /\ s[i].signal = "BUY" => s[i].pnl = 0
  <2> TAKE i \in 1..Len(s)
  <2>1. s[i] \in Trades
    BY <1>1
  <2> QED
    BY <2>1 DEF Trades, LogInv
<1>3. /\ result.winning_trades = Cardinality({i \in Sells(s) : s[i].pnl > 0})
      /\ result.losing_trades = Cardinality({i \in Sells(s) : s[i].pnl < 0})
  BY DEF SummaryAgrees
<1>4. /\ Negligible(1) = {i \in 1..Len(s) : 0 < s[i].pnl /\ s[i].pnl <= EPSILON}
      /\ Negligible(-1) = {i \in 1..Len(s) : s[i].pnl < 0 /\ -EPSILON <= s[i].pnl}
  <2>1. DOMAIN s = 1..Len(s)
    BY <1>1
  <2>2. \A x \in Int : /\ (0 < 1 * x /\ 1 * x <= EPSILON) <=> (0 < x /\ x <= EPSILON)
                       /\ (0 < (-1) * x /\ (-1) * x <= EPSILON) <=> (x < 0 /\ -EPSILON <= x)
    OBVIOUS
  <2> QED
    BY <1>2, <2>1, <2>2, Zenon DEF Negligible
<1> HIDE DEF s
<1>5. /\ {i \in Sells(s) : s[i].pnl > 0} = won \cup Negligible(1)
      /\ {i \in Sells(s) : s[i].pnl < 0} = lost \cup Negligible(-1)
  BY <1>2, <1>4 DEF Sells, Winning, Losing
<1>6. /\ won \cap Negligible(1) = {} /\ lost \cap Negligible(-1) = {}
      /\ Negligible(1) \in SUBSET (1..Len(s)) /\ Negligible(-1) \in SUBSET (1..Len(s))
  BY <1>2, <1>4 DEF Winning, Losing
<1>7. Len(Winners!Chosen(s)) = Cardinality(won)
  BY <1>1, Winners!ChosenCount, Zenon DEF Winners!Cardinality, Cardinality, Winners!Passing
<1>8. Len(Losers!Chosen(s)) = Cardinality(lost)
  BY <1>1, Losers!ChosenCount, Zenon DEF Losers!Cardinality, Cardinality, Losers!Passing
<1>9. Len(s) \in Nat /\ won \in SUBSET (1..Len(s)) /\ lost \in SUBSET (1..Len(s))
  BY <1>1
<1> HIDE DEF won, lost
<1>10. /\ Cardinality(won \cup Negligible(1)) - Cardinality(Negligible(1)) = Cardinality(won)
       /\ Cardinality(lost \cup Negligible(-1)) - Cardinality(Negligible(-1))
            = Cardinality(lost)
  BY <1>6, <1>9, PartOfFinite, Zenon
<1> QED
  BY <1>3, <1>5, <1>7, <1>8, <1>10, Zenon DEF s

(* A total of numbers that are at most b is at most b times their count.    *)
LEMMA TotalAtMost ==
  ASSUME NEW s \in Seq(Int), NEW b \in Int, \A i \in 1..Len(s) : s[i] <= b
  PROVE  Perf!total(s) \in Int /\ Perf!total(s) <= b * Len(s)
<1> DEFINE T == {k \in 0..Len(s) : SumTo(s, k) <= b * k}
<1>1. 0 \in T
  <2>1. SubSeq(s, 1, 0) = <<>> /\ 0 \in 0..Len(s) /\ b * 0 = 0
    OBVIOUS
  <2>2. SumTo(s, 0) = 0
    BY <2>1, TotalEmpty, Zenon DEF SumTo
  <2> QED
    BY <2>1, <2>2
<1>2. ASSUME NEW k \in 0..(Len(s) - 1), k \in T
      PROVE  k + 1 \in T
  <2>1. /\ SubSeq(s, 1, k + 1) = Append(SubSeq(s, 1, k), s[k + 1])
        /\ SubSeq(s, 1, k) \in Seq(Int) /\ s[k + 1] \in Int /\ k + 1 \in 0..Len(s)
    OBVIOUS
  <2>2. SumTo(s, k) \in Int
    BY <2>1, TotalType, Zenon DEF SumTo
  <2>3. SumTo(s, k + 1) = SumTo(s, k) + s[k + 1]
    BY <2>1, TotalAppend, Zenon DEF SumTo
  <2>4. s[k + 1] <= b
    OBVIOUS
  <2>5. SumTo(s, k) <= b * k
    BY <1>2
  <2>6. b * (k + 1) = b * k + b /\ b * k \in Int
    OBVIOUS
  <2>7. SumTo(s, k + 1) <= b * (k + 1)
    BY <2>1, <2>2, <2>3, <2>4, <2>5, <2>6
  <2> QED
    BY <2>1, <2>7
<1> HIDE DEF T
<1>3. Len(s) \in T
  BY <1>1, <1>2, Falls!PrefixInduction, Zenon
<1>4. SubSeq(s, 1, Len(s)) = s
  OBVIOUS
<1>5. Perf!total(s) = Total(s)
  BY Zenon DEF Perf!total, Total, FoldLeft, Perf!FoldLeft, MapThenFoldSet,
               Perf!MapThenFoldSet, Max, Perf!Max
<1>6. Total(s) \in Int
  BY TotalType, Zenon
<1> QED
  BY <1>3, <1>4, <1>5, <1>6 DEF T, SumTo

(* The ratio of profits to losses exists exactly when there are both: the   *)
(* average loss is never within the tolerance, as no loss of it is.         *)
LEMMA RatioExists ==
  ASSUME NEW s \in Seq(Trades)
  PROVE  (Perf!calculate_profit_loss_ratio(s) # Perf!Zero) =
           (Len(Winners!Chosen(s)) > 0 /\ Len(Losers!Chosen(s)) > 0)
<1> DEFINE w == Winners!Chosen(s)
           l == Losers!Chosen(s)
           profits == Perf!pnls(w)
           deficits == Perf!pnls(l)
<1>1. w \in Seq({x \in Trades : Winning(x)}) /\ l \in Seq({x \in Trades : Losing(x)})
  BY Winners!ChosenType, Losers!ChosenType, Zenon
<1>2. Perf!calculate_profit_loss_ratio(s) =
        IF profits = <<>> \/ deficits = <<>>
             \/ -Perf!total(deficits) < EPSILON * Len(deficits)
        THEN Perf!Zero
        ELSE <<Perf!total(profits) * Len(deficits), -Perf!total(deficits) * Len(profits)>>
  BY WinnersChosen, LosersChosen, Zenon DEF Perf!calculate_profit_loss_ratio
<1> HIDE DEF w, l
<1>3. profits \in Seq(Int) /\ Len(profits) = Len(w)
  <2>1. \A i \in DOMAIN w : w[i] \in {x \in Trades : Winning(x)}
    BY <1>1
  <2>2. \A i \in DOMAIN w : w[i].pnl \in Int
    BY <2>1 DEF Trades
  <2> QED
    BY <1>1, <2>2 DEF Perf!pnls
<1>4. \A i \in 1..Len(profits) : profits[i] >= 1
  <2>1. \A i \in DOMAIN w : w[i] \in {x \in Trades : Winning(x)}
    BY <1>1
  <2>2. \A i \in DOMAIN w : w[i].pnl \in Int /\ w[i].pnl > 0
    BY <2>1 DEF Trades, Winning
  <2>3. \A i \in DOMAIN w : w[i].pnl >= 1
    BY <2>2
  <2> QED
    BY <1>1, <1>3, <2>3 DEF Perf!pnls
<1>5. deficits \in Seq(Int) /\ Len(deficits) = Len(l)
  <2>1. \A i \in DOMAIN l : l[i] \in {x \in Trades : Losing(x)}
    BY <1>1
  <2>2. \A i \in DOMAIN l : l[i].pnl \in Int
    BY <2>1 DEF Trades
  <2> QED
    BY <1>1, <2>2 DEF Perf!pnls
<1>9. \A i \in 1..Len(deficits) : deficits[i] <= -EPSILON
  <2>1. \A i \in DOMAIN l : l[i] \in {x \in Trades : Losing(x)}
    BY <1>1
  <2>2. \A i \in DOMAIN l : l[i].pnl \in Int /\ l[i].pnl < -EPSILON
    BY <2>1 DEF Trades, Losing
  <2>3. \A i \in DOMAIN l : l[i].pnl <= -EPSILON
    BY <2>2
  <2> QED
    BY <1>1, <1>5, <2>3 DEF Perf!pnls
<1> HIDE DEF profits, deficits
<1>10. /\ Perf!total(deficits) \in Int
       /\ ~(-Perf!total(deficits) < EPSILON * Len(deficits))
  <2>1. -EPSILON \in Int /\ EPSILON \in Int /\ Len(deficits) \in Nat
    BY <1>5
  <2>2. Perf!total(deficits) \in Int /\ Perf!total(deficits) <= (-EPSILON) * Len(deficits)
    BY <1>5, <1>9, <2>1, TotalAtMost, Zenon
  <2>3. \A e \in Int, n \in Nat : (-e) * n = -(e * n) /\ e * n \in Int
    OBVIOUS
  <2>4. /\ (-EPSILON) * Len(deficits) = -(EPSILON * Len(deficits))
        /\ EPSILON * Len(deficits) \in Int
    BY <2>1, <2>3, Zenon
  <2> QED
    BY <2>2, <2>4
<1>6. Perf!total(profits) \in Int /\ Perf!total(profits) >= Len(profits)
  BY <1>3, <1>4, TotalAtLeast, Zenon
<1>7. CASE profits = <<>> \/ deficits = <<>>
  <2>1. Len(w) = 0 \/ Len(l) = 0
    BY <1>3, <1>5, <1>7
  <2> QED
    BY <1>2, <1>7, <2>1 DEF w, l
<1>8. CASE ~(profits = <<>> \/ deficits = <<>>)
  <2>1. Len(profits) \in Nat /\ Len(profits) > 0 /\ Len(deficits) \in Nat /\ Len(deficits) > 0
    BY <1>3, <1>5, <1>8
  <2> DEFINE a == Perf!total(profits)
             b == Len(deficits)
  <2>2. a \in Int /\ a >= 1 /\ b \in Int /\ b >= 1
    BY <1>6, <2>1
  <2> HIDE DEF a, b
  <2>3. a * b > 0
    BY <2>2
  <2>4. <<a * b, -Perf!total(deficits) * Len(profits)>> # <<0, 1>>
    BY <2>3
  <2>5. Perf!calculate_profit_loss_ratio(s) # Perf!Zero
    BY <1>2, <1>8, <1>10, <2>4, Zenon DEF a, b, Perf!Zero
  <2>6. Len(w) > 0 /\ Len(l) > 0
    BY <1>3, <1>5, <2>1
  <2> QED
    BY <2>5, <2>6 DEF w, l
<1> QED
  BY <1>7, <1>8

(* Of an alternating list half are SELLs, rounded down.                     *)
Evens(n) == {i \in 1..n : i % 2 = 0}

LEMMA HalfAreSells ==
  ASSUME NEW s \in Seq(Trades), Alternates(s)
  PROVE  Perf!sell_count(s) = Len(s) \div 2
<1> DEFINE T == {n \in Nat : IsFiniteSet(Evens(n)) /\ Cardinality(Evens(n)) = n \div 2}
<1>1. 0 \in T
  <2>1. Evens(0) = {} /\ 0 \div 2 = 0
    BY DEF Evens
  <2> QED
    BY <2>1, FS_EmptySet
<1>2. ASSUME NEW n \in Nat, n \in T
      PROVE  n + 1 \in T
  <2>1. CASE (n + 1) % 2 = 0
    <3>1. Evens(n + 1) = Evens(n) \cup {n + 1} /\ n + 1 \notin Evens(n)
      BY <2>1 DEF Evens
    <3>2. (n + 1) \div 2 = n \div 2 + 1 /\ n \div 2 \in Int
      BY <2>1
    <3>3. IsFiniteSet(Evens(n)) /\ Cardinality(Evens(n)) = n \div 2
      BY <1>2
    <3>4. IsFiniteSet(Evens(n + 1)) /\ Cardinality(Evens(n + 1)) = Cardinality(Evens(n)) + 1
      <4>1. ASSUME NEW P, IsFiniteSet(P), NEW x, x \notin P
            PROVE  IsFiniteSet(P \cup {x}) /\ Cardinality(P \cup {x}) = Cardinality(P) + 1
        BY <4>1, FS_AddElement
      <4>2. /\ IsFiniteSet(Evens(n) \cup {n + 1})
            /\ Cardinality(Evens(n) \cup {n + 1}) = Cardinality(Evens(n)) + 1
        BY <3>1, <3>3, <4>1
      <4> QED
        BY <3>1, <4>2
    <3> QED
      BY <3>2, <3>3, <3>4
  <2>2. CASE (n + 1) % 2 # 0
    <3>1. Evens(n + 1) = Evens(n)
      BY <2>2 DEF Evens
    <3>2. (n + 1) \div 2 = n \div 2
      BY <2>2
    <3> QED
      BY <1>2, <3>1, <3>2
  <2> QED
    BY <2>1, <2>2
<1> HIDE DEF T
<1>3. Len(s) \in T
  BY <1>1, <1>2, SetInduction, Len(s) \in Nat, Zenon
<1>4. {i \in DOMAIN s : s[i].signal = "SELL"} = Evens(Len(s))
  <2>1. \A i \in 1..Len(s) : s[i].signal = Side(i)
    BY DEF Alternates
  <2>2. \A i \in 1..Len(s) : (Side(i) = "SELL") <=> (i % 2 = 0)
    BY DEF Side
  <2> QED
    BY <2>1, <2>2 DEF Evens
<1>5. Cardinality(Evens(Len(s))) = Len(s) \div 2
  BY <1>3 DEF T
<1>6. Perf!sell_count(s) = Cardinality({i \in DOMAIN s : s[i].signal = "SELL"})
  BY Zenon DEF Perf!sell_count, Perf!Cardinality, Cardinality
<1> QED
  BY <1>4, <1>5, <1>6, Zenon

LEMMA AgreementHolds ==
  TypeOK /\ PointsInv /\ SummaryAgrees /\ LogInv /\ runs <= 1 => AnalysisAgreesWithSummary
<1> SUFFICES ASSUME TypeOK, PointsInv, SummaryAgrees, LogInv, runs <= 1, Finished
             PROVE  AnalysisAgreesWithSummary
  BY Zenon DEF AnalysisAgreesWithSummary
<1> DEFINE s == result.trades
           closing == Closing!Chosen(s)
           start == Head(result.timestamps)
           end == Perf!Last(result.timestamps)
           frequency == Perf!calculate_trade_frequency(Perf!sell_count(s), start, end)
           beyond_wins == result.winning_trades - Cardinality(Negligible(1))
           beyond_losses == result.losing_trades - Cardinality(Negligible(-1))
<1>1. /\ s \in Seq(Trades)
      /\ ~(result.equity_curve = <<>> \/ result.timestamps = <<>>
             \/ Len(result.equity_curve) # Len(result.timestamps))
  BY ResultIsAnalysed, Zenon
<1>2. /\ Metrics.max_consecutive_wins = Perf!calculate_max_consecutive(s)[1]
      /\ Metrics.max_consecutive_losses = Perf!calculate_max_consecutive(s)[2]
      /\ Metrics.profit_loss_ratio = Perf!calculate_profit_loss_ratio(s)
      /\ Metrics.trade_frequency_per_year = frequency
  BY <1>1 DEF Metrics, Perf!analyze
<1>3. 1 \in {1, -1} /\ -1 \in {1, -1}
  OBVIOUS
<1>4. /\ Flags(closing, 1) = [i \in DOMAIN closing |-> Perf!won(closing[i])]
      /\ Flags(closing, -1) = [i \in DOMAIN closing |-> Perf!lost(closing[i])]
  BY <1>1, <1>3, FlagsAre, Zenon
<1>5. Perf!counted(s) = closing
  BY ClosingChosen, Zenon
<1>6. Perf!calculate_max_consecutive(s)
        = <<Perf!longest_streak(Flags(closing, 1)), Perf!longest_streak(Flags(closing, -1))>>
  BY <1>4, <1>5, Zenon DEF Perf!calculate_max_consecutive
<1>7. /\ Perf!longest_streak(Flags(closing, 1)) <= Len(Winners!Chosen(s))
      /\ Perf!longest_streak(Flags(closing, -1)) <= Len(Losers!Chosen(s))
  BY <1>1, StreakIsCounted, Zenon
<1>8. /\ beyond_wins = Len(Winners!Chosen(s))
      /\ beyond_losses = Len(Losers!Chosen(s))
  BY CountersAreSelections, Zenon
<1>9. (Perf!calculate_profit_loss_ratio(s) # Perf!Zero) =
        (Len(Winners!Chosen(s)) > 0 /\ Len(Losers!Chosen(s)) > 0)
  BY <1>1, RatioExists, Zenon
<1>10. frequency # Perf!Zero => frequency[1] = result.total_trades \div 2
  <2>1. result.total_trades = Len(s)
    BY DEF SummaryAgrees
  <2>2. Perf!sell_count(s) = Len(s) \div 2
    BY <1>1, HalfAreSells DEF LogInv
  <2>3. frequency # Perf!Zero => frequency = <<Perf!sell_count(s), end - start>>
    BY Zenon DEF Perf!calculate_trade_frequency
  <2> HIDE DEF frequency, start, end, s
  <2>4. <<Perf!sell_count(s), end - start>>[1] = Perf!sell_count(s)
    OBVIOUS
  <2> QED
    BY <2>1, <2>2, <2>3, <2>4, Zenon
<1> HIDE DEF s, closing, frequency, start, end, beyond_wins, beyond_losses
<1>11. /\ Metrics.max_consecutive_wins <= beyond_wins
       /\ Metrics.max_consecutive_losses <= beyond_losses
  BY <1>2, <1>6, <1>7, <1>8
<1> QED
  BY <1>2, <1>8, <1>9, <1>10, <1>11, Zenon
     DEF AnalysisAgreesWithSummary, beyond_wins, beyond_losses

LEMMA LogCorrect ==
  Spec => [](TypeInv /\ PointsInv /\ SummaryInv /\ LogInv)
<1>1. Spec => [](TypeInv /\ ControlInv)
  BY ControlCorrect
<1> QED
  BY <1>1, PointsInit, PointsStep, SummaryInit, SummaryStep, LogInit, LogStep, PTL DEF Spec

(* After one run (the trades of the result are those of all runs) and for   *)
(* every tolerance: the analyser judges the profits and losses the engine   *)
(* counted less those within the tolerance, and the same round trips.       *)
THEOREM AnalysisDoesAgree == Spec => [](runs <= 1 => AnalysisAgreesWithSummary)
<1>1. TypeInv /\ PointsInv /\ SummaryInv /\ LogInv
        => (runs <= 1 => AnalysisAgreesWithSummary)
  BY AgreementHolds DEF TypeInv, SummaryInv
<1> QED
  BY <1>1, LogCorrect, PTL
-----------------------------------------------------------------------------
(* In an alternating list a BUY is closed by the trade after it.            *)
LEMMA HoldingPeriodIs ==
  ASSUME NEW s \in Seq(Trades), Alternates(s), NEW i \in 1..Len(s)
  PROVE  /\ Perf!holding_period(s, i) =
              IF i % 2 = 1 /\ i < Len(s) THEN s[i + 1].timestamp - s[i].timestamp ELSE 0
         /\ Perf!holding_period(s, i) \in Int
         /\ Perf!holding_period(s, i) > 0 <=> (i % 2 = 1 /\ i < Len(s))
<1>1. \A j \in 1..Len(s) : s[j].signal = Side(j) /\ s[j].timestamp \in Nat
  BY LogTimes DEF Alternates
<1>2. CASE i % 2 = 1 /\ i < Len(s)
  <2>1. /\ i + 1 \in 1..Len(s) /\ s[i].signal = "BUY"
        /\ s[i + 1].signal = "SELL"
    <3>1. i + 1 \in 1..Len(s) /\ (i + 1) % 2 # 1
      BY <1>2
    <3> QED
      BY <1>1, <1>2, <3>1 DEF Side
  <2>2. Perf!closing_sell(s, i) = {i + 1}
    <3>1. \A j \in (i + 1)..Len(s) :
            (\A k \in (i + 1)..(j - 1) : s[k].signal # "SELL") => j = i + 1
      <4> SUFFICES ASSUME NEW j \in (i + 1)..Len(s), j # i + 1
                   PROVE  \E k \in (i + 1)..(j - 1) : s[k].signal = "SELL"
        OBVIOUS
      <4>1. i + 1 \in (i + 1)..(j - 1)
        OBVIOUS
      <4> QED
        BY <2>1, <4>1
    <3>2. i + 1 \in (i + 1)..Len(s) /\ (i + 1)..((i + 1) - 1) = {}
      BY <2>1
    <3> QED
      BY <2>1, <3>1, <3>2 DEF Perf!closing_sell
  <2>3. (CHOOSE j \in {i + 1} : TRUE) = i + 1 /\ {i + 1} # {}
    OBVIOUS
  <2>4. Perf!holding_period(s, i) = s[i + 1].timestamp - s[i].timestamp
    BY <2>1, <2>2, <2>3, Zenon DEF Perf!holding_period
  <2>5. s[i].timestamp < s[i + 1].timestamp
    BY <2>1 DEF Alternates
  <2>6. s[i].timestamp \in Nat /\ s[i + 1].timestamp \in Nat
    BY <1>1, <2>1
  <2> DEFINE a == s[i].timestamp
             b == s[i + 1].timestamp
  <2> HIDE DEF a, b
  <2>7. b - a \in Int /\ b - a > 0
    BY <2>5, <2>6 DEF a, b
  <2>8. Perf!holding_period(s, i) = b - a
    BY <2>4, Zenon DEF a, b
  <2> QED
    BY <1>2, <2>7, <2>8 DEF a, b
<1>3. CASE ~(i % 2 = 1 /\ i < Len(s))
  <2>1. Perf!holding_period(s, i) = 0
    <3>1. CASE i % 2 # 1
      <4>1. s[i].signal = "SELL"
        BY <1>1, <3>1 DEF Side
      <4> QED
        BY <4>1 DEF Perf!holding_period
    <3>2. CASE ~(i < Len(s))
      <4>1. (i + 1)..Len(s) = {}
        BY <3>2
      <4>2. Perf!closing_sell(s, i) = {}
        BY <4>1 DEF Perf!closing_sell
      <4> QED
        BY <4>2, Zenon DEF Perf!holding_period
    <3> QED
      BY <1>3, <3>1, <3>2
  <2> QED
    BY <1>3, <2>1
<1> QED
  BY <1>2, <1>3

Lasting(x) == x > 0
Holding == INSTANCE ChosenLemmas WITH keep <- Lasting

LEMMA HoldingChosen ==
  ASSUME NEW s
  PROVE  Perf!chosen(s, Perf!positive) = Holding!Chosen(s)
BY Zenon
   DEF Perf!chosen, Perf!positive, Holding!Chosen, Holding!chosen, Lasting,
       Perf!FoldLeft, Holding!FoldLeft, Perf!MapThenFoldSet, Holding!MapThenFoldSet,
       Perf!Max, Holding!Max

(* The time between the trades of the first m round trips.                  *)
Spans(s, m) == [k \in 1..m |-> s[2*k].timestamp - s[2*k - 1].timestamp]

(* The round trips that begin among the first k trades and end.             *)
Trips(s, k) == IF k < Len(s) THEN (k + 1) \div 2 ELSE Len(s) \div 2

LEMMA SpansAppend ==
  ASSUME NEW s \in Seq(Trades), NEW m \in Nat, 2*(m + 1) <= Len(s)
  PROVE  Append(Spans(s, m), s[2*(m + 1)].timestamp - s[2*(m + 1) - 1].timestamp)
           = Spans(s, m + 1)
<1> DEFINE g == Spans(s, m)
           h == Spans(s, m + 1)
<1>1. \A i \in 1..Len(s) : s[i].timestamp \in Nat
  BY LogTimes
<1>2. \A k \in 1..(m + 1) : 2*k \in 1..Len(s) /\ 2*k - 1 \in 1..Len(s)
  OBVIOUS
<1>3. h \in [1..(m + 1) -> Int]
  BY <1>1, <1>2 DEF Spans
<1>4. g \in [1..m -> Int]
  BY <1>1, <1>2 DEF Spans
<1>5. /\ \A k \in 1..m : h[k] = g[k]
      /\ h[m + 1] = s[2*(m + 1)].timestamp - s[2*(m + 1) - 1].timestamp
  BY DEF Spans
<1> HIDE DEF g, h
<1>6. g \in Seq(Int) /\ Len(g) = m /\ h[m + 1] \in Int
  BY <1>3, <1>4
<1>7. Append(g, h[m + 1]) = h
  BY <1>3, <1>5, <1>6
<1> QED
  BY <1>5, <1>7 DEF g, h

LEMMA RoundTripsChosen ==
  ASSUME NEW s \in Seq(Trades), Alternates(s)
  PROVE  LET hp == [i \in DOMAIN s |-> Perf!holding_period(s, i)]
             trips == Len(s) \div 2
         IN  Holding!Chosen(hp) = Spans(s, trips)
<1> DEFINE hp == [i \in DOMAIN s |-> Perf!holding_period(s, i)]
           T == {k \in 0..Len(s) : Holding!Chosen(SubSeq(hp, 1, k)) = Spans(s, Trips(s, k))}
<1>0. \A i \in 1..Len(s) :
        /\ hp[i] \in Int
        /\ Lasting(hp[i]) <=> (i % 2 = 1 /\ i < Len(s))
        /\ i % 2 = 1 /\ i < Len(s) => hp[i] = s[i + 1].timestamp - s[i].timestamp
  BY HoldingPeriodIs DEF Lasting
<1>a. hp \in Seq(Int) /\ Len(hp) = Len(s)
  <2>1. DOMAIN s = 1..Len(s) /\ Len(s) \in Nat
    OBVIOUS
  <2>2. hp \in [1..Len(s) -> Int]
    BY <1>0, <2>1, Zenon
  <2> HIDE DEF hp
  <2> QED
    BY <2>1, <2>2
<1> HIDE DEF hp
<1>1. 0 \in T
  <2>1. SubSeq(hp, 1, 0) = <<>> /\ 0 \in 0..Len(s)
    BY <1>a
  <2>2. Trips(s, 0) = 0
    BY DEF Trips
  <2>3. Spans(s, 0) = <<>>
    BY DEF Spans
  <2> QED
    BY <2>1, <2>2, <2>3, Holding!ChosenEmpty, Zenon
<1>2. ASSUME NEW k \in 0..(Len(hp) - 1), k \in T
      PROVE  k + 1 \in T
  <2> DEFINE m == Trips(s, k)
  <2>1. k \in 0..(Len(s) - 1) /\ k + 1 \in 1..Len(s) /\ k + 1 \in 0..Len(s) /\ k < Len(s)
    BY <1>a
  <2>2. Holding!Chosen(SubSeq(hp, 1, k)) = Spans(s, m)
    BY <1>2
  <2>3. Holding!Chosen(SubSeq(hp, 1, k + 1)) =
          IF Lasting(hp[k + 1]) THEN Append(Holding!Chosen(SubSeq(hp, 1, k)), hp[k + 1])
          ELSE Holding!Chosen(SubSeq(hp, 1, k))
    BY <1>a, Holding!ChosenOfPrefix, Zenon
  <2>4. m = (k + 1) \div 2 /\ m \in Nat
    BY <2>1 DEF Trips
  <2> HIDE DEF m
  <2>5. CASE (k + 1) % 2 = 1 /\ k + 1 < Len(s)
    <3>1. Lasting(hp[k + 1]) /\ hp[k + 1] = s[(k + 1) + 1].timestamp - s[k + 1].timestamp
      BY <1>0, <2>1, <2>5
    <3>2. Trips(s, k + 1) = m + 1 /\ 2*(m + 1) = (k + 1) + 1 /\ 2*(m + 1) - 1 = k + 1
      BY <2>1, <2>4, <2>5 DEF Trips
    <3>3. Append(Spans(s, m), hp[k + 1]) = Spans(s, m + 1)
      <4>1. 2*(m + 1) <= Len(s)
        BY <2>5, <3>2
      <4> QED
        BY <2>4, <3>1, <3>2, <4>1, SpansAppend
    <3>4. Holding!Chosen(SubSeq(hp, 1, k + 1)) = Spans(s, Trips(s, k + 1))
      BY <2>2, <2>3, <3>1, <3>2, <3>3, Zenon
    <3> QED
      BY <2>1, <3>4
  <2>6. CASE ~((k + 1) % 2 = 1 /\ k + 1 < Len(s))
    <3>1. ~Lasting(hp[k + 1])
      BY <1>0, <2>1, <2>6
    <3>2. Trips(s, k + 1) = m
      BY <2>1, <2>4, <2>6 DEF Trips
    <3>3. Holding!Chosen(SubSeq(hp, 1, k + 1)) = Spans(s, Trips(s, k + 1))
      BY <2>2, <2>3, <3>1, <3>2, Zenon
    <3> QED
      BY <2>1, <3>3
  <2> QED
    BY <2>5, <2>6
<1> HIDE DEF T
<1>3. Len(hp) \in T
  BY <1>a, <1>1, <1>2, Holding!PrefixInduction, Zenon
<1>4. SubSeq(hp, 1, Len(hp)) = hp
  BY <1>a
<1>5. Trips(s, Len(s)) = Len(s) \div 2
  BY DEF Trips
<1>6. Holding!Chosen(SubSeq(hp, 1, Len(s))) = Spans(s, Trips(s, Len(s)))
  BY <1>a, <1>3 DEF T
<1> QED
  BY <1>a, <1>4, <1>5, <1>6 DEF hp

LEMMA HoldingHolds ==
  TypeOK /\ PointsInv /\ LogInv /\ runs <= 1 => HoldingPeriodsAreRoundTrips
<1> SUFFICES ASSUME TypeOK, PointsInv, LogInv, runs <= 1, Finished
             PROVE  HoldingPeriodsAreRoundTrips
  BY Zenon DEF HoldingPeriodsAreRoundTrips
<1> DEFINE s == result.trades
           trips == Len(s) \div 2
           hp == [i \in DOMAIN s |-> Perf!holding_period(s, i)]
<1>1. /\ s \in Seq(Trades)
      /\ ~(result.equity_curve = <<>> \/ result.timestamps = <<>>
             \/ Len(result.equity_curve) # Len(result.timestamps))
  BY ResultIsAnalysed, Zenon
<1>2. Metrics.avg_holding_period = Perf!calculate_avg_holding_period(s)
  BY <1>1 DEF Metrics, Perf!analyze
<1>3. Alternates(s)
  BY DEF LogInv
<1>4. Holding!Chosen(hp) = Spans(s, trips)
  BY <1>1, <1>3, RoundTripsChosen, Zenon
<1>5. Perf!calculate_avg_holding_period(s) =
        IF Spans(s, trips) = <<>> THEN 0 ELSE Perf!mean(Spans(s, trips))
  <2>1. Perf!chosen(hp, Perf!positive) = Spans(s, trips)
    BY <1>4, HoldingChosen, Zenon
  <2> HIDE DEF trips, s
  <2> QED
    BY <2>1, Zenon DEF Perf!calculate_avg_holding_period
<1>6. trips \in Nat
  <2>1. Len(s) \in Nat
    BY <1>1
  <2>2. \A n \in Nat : n \div 2 \in Nat
    OBVIOUS
  <2> QED
    BY <2>1, <2>2, Zenon
<1> HIDE DEF trips
<1>7. Len(Spans(s, trips)) = trips /\ (Spans(s, trips) = <<>> <=> trips = 0)
  <2> DEFINE x == Spans(s, trips)
  <2> DEFINE T == {x[i] : i \in 1..trips}
  <2>3. x = [k \in 1..trips |-> s[2*k].timestamp - s[2*k - 1].timestamp]
    BY Zenon DEF Spans
  <2>4. DOMAIN x = 1..trips /\ x \in [1..trips -> T]
    BY <2>3, Zenon
  <2> HIDE DEF x, T
  <2>1. DOMAIN x = 1..trips /\ x \in Seq(T)
    BY <1>6, <2>4
  <2>2. Len(x) = trips
    BY <1>6, <2>1
  <2>5. x = <<>> <=> trips = 0
    BY <1>6, <2>1, <2>2
  <2> QED
    BY <2>2, <2>5 DEF x
<1>8. Perf!mean(Spans(s, trips)) = FoldLeft(+, 0, Spans(s, trips)) \div trips
  BY <1>7, Zenon DEF Perf!mean, Perf!total, FoldLeft, Perf!FoldLeft, MapThenFoldSet,
                     Perf!MapThenFoldSet, Max, Perf!Max
<1>9. Metrics.avg_holding_period =
        IF trips = 0 THEN 0 ELSE FoldLeft(+, 0, Spans(s, trips)) \div trips
  BY <1>2, <1>5, <1>7, <1>8, Zenon
<1> QED
  BY <1>9, Zenon DEF HoldingPeriodsAreRoundTrips, Spans, trips

(* After one run: the average holding period is that of the round trips.    *)
THEOREM HoldingIsRoundTrips == Spec => [](runs <= 1 => HoldingPeriodsAreRoundTrips)
<1>1. TypeInv /\ PointsInv /\ LogInv => (runs <= 1 => HoldingPeriodsAreRoundTrips)
  BY HoldingHolds DEF TypeInv
<1> QED
  BY <1>1, LogCorrect, PTL
=============================================================================
