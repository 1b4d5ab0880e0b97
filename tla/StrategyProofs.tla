--------------------------- MODULE StrategyProofs ---------------------------
(* The cached, bounded, filtered strategy implements the crossing strategy  *)
(* of MACross, for every pair of periods the bounded history can serve, and *)
(* the indicators a strategy reads are those of the bar they are read at.   *)
EXTENDS AnalysisProperties, BacktestProofs, DataInduction, SequenceTheorems

(* A sum is a fold.                                                         *)
Adding == INSTANCE FoldLemmas WITH op <- +, base <- 0

Total(s) == FoldLeft(+, 0, s)

LEMMA TotalEmpty == Total(<<>>) = 0
BY Adding!FoldEmpty, Zenon
   DEF Total, FoldLeft, Adding!FoldLeft, MapThenFoldSet, Adding!MapThenFoldSet,
       Max, Adding!Max

LEMMA TotalAppend ==
  ASSUME NEW s \in Seq(Int), NEW e \in Int
  PROVE  Total(Append(s, e)) = Total(s) + e
BY Adding!FoldAppend, Zenon
   DEF Total, FoldLeft, Adding!FoldLeft, MapThenFoldSet, Adding!MapThenFoldSet,
       Max, Adding!Max

LEMMA TotalType ==
  ASSUME NEW s \in Seq(Int)
  PROVE  Total(s) \in Int
<1>1. 0 \in Int /\ \A x \in Int, e \in Int : x + e \in Int
  OBVIOUS
<1>2. Adding!FoldLeft(+, 0, s) \in Int
  BY <1>1, Adding!FoldType, Zenon
<1> QED
  BY <1>2, Zenon
     DEF Total, FoldLeft, Adding!FoldLeft, MapThenFoldSet, Adding!MapThenFoldSet,
         Max, Adding!Max

SumTo(c, n) == Total(SubSeq(c, 1, n))

(* The sum of a slice is the difference of two sums from the start.         *)
LEMMA SliceSum ==
  ASSUME NEW c \in Seq(Int), NEW m \in 0..Len(c), NEW n \in m..Len(c)
  PROVE  Total(SubSeq(c, m + 1, n)) = SumTo(c, n) - SumTo(c, m)
<1> DEFINE S == {k \in Nat : m + k <= Len(c) =>
                   Total(SubSeq(c, m + 1, m + k)) = SumTo(c, m + k) - SumTo(c, m)}
<1>1. 0 \in S
  <2>1. SubSeq(c, m + 1, m) = <<>> /\ SubSeq(c, 1, m) \in Seq(Int) /\ m + 0 = m
    OBVIOUS
  <2>2. SumTo(c, m) \in Int
    BY <2>1, TotalType, Zenon DEF SumTo
  <2>3. Total(SubSeq(c, m + 1, m)) = SumTo(c, m) - SumTo(c, m)
    <3>1. Total(SubSeq(c, m + 1, m)) = 0
      BY <2>1, TotalEmpty, Zenon
    <3>2. SumTo(c, m) - SumTo(c, m) = 0
      BY <2>2
    <3> QED
      BY <3>1, <3>2, Zenon
  <2> QED
    BY <2>1, <2>3, Zenon
<1>2. ASSUME NEW k \in Nat, k \in S
      PROVE  k + 1 \in S
  <2>1. SUFFICES ASSUME m + (k + 1) <= Len(c)
                 PROVE  Total(SubSeq(c, m + 1, m + (k + 1)))
                          = SumTo(c, m + (k + 1)) - SumTo(c, m)
    OBVIOUS
  <2> DEFINE e == c[m + (k + 1)]
  <2>2. /\ SubSeq(c, m + 1, m + k) \in Seq(Int) /\ SubSeq(c, 1, m + k) \in Seq(Int)
        /\ SubSeq(c, 1, m) \in Seq(Int) /\ e \in Int
    BY <2>1
  <2>3. /\ SubSeq(c, m + 1, m + (k + 1)) = Append(SubSeq(c, m + 1, m + k), e)
        /\ SubSeq(c, 1, m + (k + 1)) = Append(SubSeq(c, 1, m + k), e)
    BY <2>1
  <2> HIDE DEF e
  <2>4. /\ Total(SubSeq(c, m + 1, m + (k + 1)))
             = Total(SubSeq(c, m + 1, m + k)) + e
        /\ SumTo(c, m + (k + 1)) = SumTo(c, m + k) + e
    BY <2>2, <2>3, TotalAppend, Zenon DEF SumTo
  <2>5. SumTo(c, m) \in Int /\ SumTo(c, m + k) \in Int
    BY <2>2, TotalType, Zenon DEF SumTo
  <2>6. Total(SubSeq(c, m + 1, m + k)) = SumTo(c, m + k) - SumTo(c, m)
    BY <1>2, <2>1
  <2> QED
    BY <2>2, <2>4, <2>5, <2>6
<1> HIDE DEF S
<1>3. n - m \in S
  <2>1. n - m \in Nat
    OBVIOUS
  <2> QED
    BY <1>1, <1>2, <2>1, SetInduction, Zenon
<1>4. m + (n - m) = n /\ n <= Len(c)
  OBVIOUS
<1> QED
  BY <1>3, <1>4 DEF S

(* The sum of the k elements of c that end at n.                            *)
Window(c, n, k) == Total(SubSeq(c, n - k + 1, n))

LEMMA WindowStep ==
  ASSUME NEW c \in Seq(Int), NEW n \in 0..Len(c), NEW k \in 0..n
  PROVE  /\ Window(c, n, k) \in Int
         /\ k = 0 => Window(c, n, k) = 0
         /\ k > 0 => Window(c, n, k) = Window(c, n, k - 1) + c[n - (k - 1)]
<1>1. \A j \in 0..n : SubSeq(c, 1, j) \in Seq(Int)
  OBVIOUS
<1>2. \A j \in 0..n : SumTo(c, j) \in Int
  BY <1>1, TotalType, Zenon DEF SumTo
<1>3. \A j \in 0..n : Window(c, n, j) = SumTo(c, n) - SumTo(c, n - j)
  <2> TAKE j \in 0..n
  <2>1. n - j \in 0..Len(c) /\ n \in (n - j)..Len(c)
    OBVIOUS
  <2> QED
    BY <2>1, SliceSum DEF Window
<1>4. \A j \in 1..n : SumTo(c, j) = SumTo(c, j - 1) + c[j]
  <2> TAKE j \in 1..n
  <2>1. /\ SubSeq(c, 1, j) = Append(SubSeq(c, 1, j - 1), c[j])
        /\ SubSeq(c, 1, j - 1) \in Seq(Int) /\ c[j] \in Int
    OBVIOUS
  <2> QED
    BY <2>1, TotalAppend, Zenon DEF SumTo
<1>5. k > 0 => SumTo(c, n - (k - 1)) = SumTo(c, n - k) + c[n - (k - 1)]
  <2>1. k > 0 => n - (k - 1) \in 1..n /\ (n - (k - 1)) - 1 = n - k
    OBVIOUS
  <2> QED
    BY <1>4, <2>1
<1> QED
  <2>1. /\ k \in 0..n /\ n - k \in 0..n /\ n \in 0..n /\ n - 0 = n /\ 0 \in 0..n
        /\ k > 0 => /\ c[n - (k - 1)] \in Int /\ k - 1 \in 0..n
                    /\ n - (k - 1) \in 0..n
    OBVIOUS
  <2>2. /\ Window(c, n, k) = SumTo(c, n) - SumTo(c, n - k)
        /\ SumTo(c, n) \in Int /\ SumTo(c, n - k) \in Int
    BY <1>2, <1>3, <2>1, Zenon
  <2>3. ASSUME k = 0 PROVE Window(c, n, k) = 0
    <3>1. n - k = n
      BY <2>3
    <3> QED
      BY <2>2, <3>1
  <2>4. ASSUME k > 0
        PROVE  Window(c, n, k) = Window(c, n, k - 1) + c[n - (k - 1)]
    <3>1. Window(c, n, k - 1) = SumTo(c, n) - SumTo(c, n - (k - 1))
      BY <1>3, <2>1, <2>4, Zenon
    <3> QED
      BY <1>5, <2>1, <2>2, <2>4, <3>1
  <2> QED
    BY <2>2, <2>3, <2>4

(* The inner loop of calculate_ma over a history that ends with the closes  *)
(* of c up to n is the sum of their window.                                 *)
LEMMA WindowSum ==
  ASSUME NEW c \in Seq(Int), NEW n \in 0..Len(c), NEW period \in 0..n,
         NEW h, NEW i \in Int, \A j \in 0..(period - 1) : h[i - j] = c[n - j]
  PROVE  window_sum(h, i, period) = Window(c, n, period)
<1> DEFINE IsSum(f) == f = [j \in 0..period |->
                              IF j = 0 THEN 0 ELSE f[j-1] + h[i - (j-1)]]
           g == [j \in 0..period |-> Window(c, n, j)]
           f == CHOOSE f : IsSum(f)
<1>1. IsSum(g)
  <2>1. ASSUME NEW j \in 0..period
        PROVE  Window(c, n, j) = IF j = 0 THEN 0 ELSE g[j-1] + h[i - (j-1)]
    <3>1. CASE j = 0
      BY <3>1, WindowStep, 0 \in 0..n
    <3>2. CASE j # 0
      <4>1. /\ j \in 0..n /\ j > 0 /\ j - 1 \in 0..(period - 1)
            /\ g[j-1] = Window(c, n, j - 1)
        BY <3>2
      <4> HIDE DEF g
      <4>2. Window(c, n, j) = Window(c, n, j - 1) + c[n - (j - 1)]
        BY <4>1, WindowStep
      <4>3. h[i - (j - 1)] = c[n - (j - 1)]
        BY <4>1
      <4> QED
        BY <3>2, <4>1, <4>2, <4>3
    <3> QED
      BY <3>1, <3>2
  <2> QED
    BY <2>1, Zenon
<1>2. IsSum(f)
  BY <1>1, Zenon
<1>3. window_sum(h, i, period) = f[period]
  BY Zenon DEF window_sum
<1> HIDE DEF f
<1>4. /\ f[0] = 0
      /\ \A j \in 0..(period - 1) : f[j + 1] = f[j] + h[i - j]
  BY <1>2
<1> DEFINE S == {j \in Nat : j <= period => f[j] = Window(c, n, j)}
<1>5. 0 \in S
  BY <1>4, WindowStep, 0 \in 0..n
<1>6. ASSUME NEW j \in Nat, j \in S
      PROVE  j + 1 \in S
  <2>1. SUFFICES ASSUME j + 1 <= period PROVE f[j + 1] = Window(c, n, j + 1)
    OBVIOUS
  <2>2. j \in 0..(period - 1) /\ j + 1 \in 0..n /\ j + 1 > 0 /\ (j + 1) - 1 = j
    BY <2>1
  <2>a. f[j] = Window(c, n, j)
    BY <1>6, <2>2
  <2> HIDE DEF S
  <2>3. f[j + 1] = Window(c, n, j) + c[n - j]
    BY <1>4, <2>2, <2>a
  <2> QED
    BY <2>2, <2>3, WindowStep
<1> HIDE DEF S
<1>7. period \in S
  BY <1>5, <1>6, SetInduction, period \in Nat
<1> QED
  BY <1>3, <1>7 DEF S
-----------------------------------------------------------------------------
USE UninitialisedAssumption, PeriodAssumption, EngineAssumption

(* The bars a running strategy has seen.                                    *)
Seen == IF pc = "bar" THEN bar - 1 ELSE bar

Capacity == SlowPeriod + HistoryMargin

(* The history is the last closes seen, as many as it can hold, ...         *)
HistoryIs(h, n) ==
  /\ h \in Seq(Prices)
  /\ Len(h) = (IF n < Capacity THEN n ELSE Capacity)
  /\ \A i \in 1..Len(h) : h[i] = data[n - Len(h) + i]

(* ... and an average that is cached is that of all the closes seen.        *)
CachedIs(ma, n, period) ==
  ma = IF n < period THEN <<>>
       ELSE IF n = period THEN <<Window(data, n, period)>>
       ELSE <<Window(data, n - 1, period), Window(data, n, period)>>

CacheInv ==
  /\ pc # "idle" => /\ Seen <= Len(data)
                    /\ HistoryIs(price_history, Seen)
                    /\ CachedIs(fast_ma, Seen, FastPeriod)
                    /\ CachedIs(slow_ma, Seen, SlowPeriod)
  /\ pc = "idle" /\ price_history = <<>> => fast_ma = <<>> /\ slow_ma = <<>>

(* Pushing the close of the next bar keeps the history what it is.          *)
LEMMA RememberNext ==
  ASSUME data \in Seq(Prices), NEW n \in Nat, n + 1 <= Len(data),
         HistoryIs(price_history, n)
  PROVE  HistoryIs(remember(data[n + 1]), n + 1)
<1> DEFINE h == Append(price_history, data[n + 1])
<1>0. Capacity \in Nat \ {0}
  BY DEF Capacity
<1>1. /\ h \in Seq(Prices) /\ Len(h) = Len(price_history) + 1
      /\ \A i \in 1..Len(h) : h[i] = data[(n + 1) - Len(h) + i]
  <2>1. data[n + 1] \in Prices
    OBVIOUS
  <2>2. /\ price_history \in Seq(Prices) /\ Len(price_history) <= n
        /\ \A i \in 1..Len(price_history) :
             price_history[i] = data[n - Len(price_history) + i]
    BY <1>0 DEF HistoryIs
  <2> QED
    BY <2>1, <2>2
<1>2. Len(h) = (IF n < Capacity THEN n + 1 ELSE Capacity + 1)
  BY <1>1 DEF HistoryIs
<1> HIDE DEF h
<1>3. CASE n < Capacity
  <2>1. remember(data[n + 1]) = h
    BY <1>1, <1>2, <1>3, <1>0 DEF remember, h, Capacity
  <2> QED
    BY <1>0, <1>1, <1>2, <1>3, <2>1 DEF HistoryIs
<1>4. CASE ~(n < Capacity)
  <2>1. remember(data[n + 1]) = Tail(h)
    BY <1>1, <1>2, <1>4, <1>0 DEF remember, h, Capacity
  <2>2. /\ Tail(h) \in Seq(Prices) /\ Len(Tail(h)) = Capacity
        /\ \A i \in 1..Len(Tail(h)) : Tail(h)[i] = h[i + 1]
    BY <1>0, <1>1, <1>2, <1>4
  <2>3. \A i \in 1..Capacity : h[i + 1] = data[(n + 1) - Capacity + i]
    <3> TAKE i \in 1..Capacity
    <3>1. i + 1 \in 1..Len(h) /\ (n + 1) - Len(h) + (i + 1) = (n + 1) - Capacity + i
      BY <1>0, <1>2, <1>4
    <3> QED
      BY <1>1, <3>1
  <2> QED
    BY <1>0, <1>4, <2>1, <2>2, <2>3 DEF HistoryIs
<1> QED
  BY <1>3, <1>4

(* The newest average over the bounded history is that of all the closes.   *)
LEMMA LatestNext ==
  ASSUME data \in Seq(Prices), NEW n \in Nat, n + 1 <= Len(data),
         NEW h, HistoryIs(h, n + 1),
         NEW period \in Nat \ {0}, period <= Capacity,
         NEW ma, CachedIs(ma, n, period)
  PROVE  CachedIs(latest_two(ma, h, period), n + 1, period)
<1>0. /\ Capacity \in Nat \ {0} /\ data \in Seq(Int) /\ h \in Seq(Prices)
      /\ Len(h) \in Nat /\ Len(h) = (IF n + 1 < Capacity THEN n + 1 ELSE Capacity)
  <2>1. Seq(Prices) \subseteq Seq(Int)
    <3>1. Prices \subseteq Int
      BY PriceIsNat
    <3> QED
      BY <3>1, SeqMonotonic, Zenon
  <2> QED
    BY <2>1 DEF Capacity, HistoryIs
<1>1. CASE n + 1 < period
  BY <1>0, <1>1 DEF latest_two, CachedIs
<1>2. CASE period <= n + 1
  <2>1. period <= Len(h) /\ Len(h) <= n + 1
    BY <1>0, <1>2
  <2>2. calculate_ma(h, period)[Len(h) - period + 1] = window_sum(h, Len(h), period)
    <3>1. Len(h) - period + 1 \in 1..(Len(h) - period + 1)
      BY <1>0, <2>1
    <3>2. (Len(h) - period + 1) + period - 1 = Len(h)
      BY <1>0
    <3> QED
      BY <3>1, <3>2 DEF calculate_ma
  <2>3. window_sum(h, Len(h), period) = Window(data, n + 1, period)
    <3>1. \A j \in 0..(period - 1) : h[Len(h) - j] = data[(n + 1) - j]
      <4> TAKE j \in 0..(period - 1)
      <4>1. Len(h) - j \in 1..Len(h) /\ (n + 1) - Len(h) + (Len(h) - j) = (n + 1) - j
        BY <1>0, <2>1
      <4> QED
        BY <4>1 DEF HistoryIs
    <3>2. n + 1 \in 0..Len(data) /\ period \in 0..(n + 1) /\ Len(h) \in Int
      BY <1>0, <1>2
    <3> QED
      BY <1>0, <3>1, <3>2, WindowSum
  <2>4. latest_two(ma, h, period) =
          IF ma = <<>> THEN <<Window(data, n + 1, period)>>
          ELSE <<ma[Len(ma)], Window(data, n + 1, period)>>
    <3>1. ~(Len(h) < period)
      BY <1>0, <2>1
    <3> QED
      BY <2>2, <2>3, <3>1, Zenon DEF latest_two
  <2>5. CASE n + 1 = period
    <3>1. ma = <<>>
      BY <2>5 DEF CachedIs
    <3> QED
      BY <2>4, <2>5, <3>1 DEF CachedIs
  <2>6. CASE n + 1 > period
    <3>1. ma # <<>> /\ ma[Len(ma)] = Window(data, n, period)
      BY <2>6 DEF CachedIs
    <3> QED
      BY <2>4, <2>6, <3>1 DEF CachedIs
  <2> QED
    BY <1>2, <2>5, <2>6
<1> QED
  BY <1>1, <1>2

LEMMA CacheInit == Init => CacheInv
BY DEF Init, CacheInv

(* A step of run() that takes no bar in leaves history and averages alone.  *)
LEMMA CacheKept ==
  ASSUME CacheInv, pc # "idle", Seen' = Seen, data' = data,
         price_history' = price_history, fast_ma' = fast_ma, slow_ma' = slow_ma,
         pc' = "idle" => price_history' # <<>>
  PROVE  CacheInv'
BY DEF CacheInv, HistoryIs, CachedIs, Window

LEMMA CacheStep ==
  ~ReuseStrategy /\ FastPeriod <= Capacity /\ TypeInv /\ CacheInv /\ [Next]_vars
    => CacheInv'
<1> SUFFICES ASSUME ~ReuseStrategy, FastPeriod <= Capacity, TypeOK, LoopAgrees, CacheInv,
                    [Next]_vars
             PROVE  CacheInv'
  BY DEF TypeInv
<1>0. bar \in Nat \ {0} /\ data \in Seq(Prices)
  BY DEF TypeOK
<1>1. CASE set_strategy
  BY <1>1 DEF set_strategy, construct_strategy, CacheInv
<1>2. ASSUME NEW closes \in DataSets, set_data(closes)
      PROVE  CacheInv'
  BY <1>2 DEF set_data, strategy_vars, CacheInv
<1>3. CASE run_refused
  BY <1>3 DEF run_refused, strategy_vars, CacheInv
<1>4. CASE run_begin
  <2>1. /\ price_history' = <<>> /\ fast_ma' = <<>> /\ slow_ma' = <<>> /\ data' = data
        /\ pc' = "bar" /\ bar' = 1
    BY <1>4 DEF run_begin, CacheInv
  <2>2. Seen' = 0
    BY <2>1 DEF Seen
  <2>3. HistoryIs(price_history, Seen)'
    BY <2>1, <2>2 DEF HistoryIs, Capacity
  <2>4. CachedIs(fast_ma, Seen, FastPeriod)' /\ CachedIs(slow_ma, Seen, SlowPeriod)'
    BY <2>1, <2>2 DEF CachedIs
  <2> QED
    BY <1>0, <2>1, <2>2, <2>3, <2>4 DEF CacheInv
<1>5. CASE run_on_bar
  <2>1. /\ pc = "bar" /\ pc' = "signal" /\ bar' = bar /\ data' = data /\ bar <= Len(data)
        /\ price_history' = remember(data[bar])
        /\ fast_ma' = latest_two(fast_ma, remember(data[bar]), FastPeriod)
        /\ slow_ma' = latest_two(slow_ma, remember(data[bar]), SlowPeriod)
    BY <1>5 DEF run_on_bar, on_bar
  <2>2. Seen = bar - 1 /\ Seen' = bar /\ Seen \in Nat /\ Seen + 1 = bar
    BY <1>0, <2>1 DEF Seen
  <2>3. /\ HistoryIs(price_history, Seen) /\ CachedIs(fast_ma, Seen, FastPeriod)
        /\ CachedIs(slow_ma, Seen, SlowPeriod)
    BY <2>1 DEF CacheInv
  <2> DEFINE h == remember(data[bar])
  <2>4. HistoryIs(h, bar)
    BY <1>0, <2>1, <2>2, <2>3, RememberNext
  <2> HIDE DEF h
  <2>5. SlowPeriod <= Capacity
    BY DEF Capacity
  <2>6. ASSUME NEW n \in Nat, n + 1 = bar, NEW period \in Nat \ {0}, period <= Capacity,
               NEW ma, CachedIs(ma, n, period)
        PROVE  CachedIs(latest_two(ma, h, period), bar, period)
    BY <1>0, <2>1, <2>4, <2>6, LatestNext
  <2>7. /\ CachedIs(latest_two(fast_ma, h, FastPeriod), bar, FastPeriod)
        /\ CachedIs(latest_two(slow_ma, h, SlowPeriod), bar, SlowPeriod)
    BY <2>2, <2>3, <2>5, <2>6
  <2>8. /\ HistoryIs(price_history, Seen)'
        /\ CachedIs(fast_ma, Seen, FastPeriod)' /\ CachedIs(slow_ma, Seen, SlowPeriod)'
    BY <2>1, <2>2, <2>4, <2>7, Zenon DEF h, HistoryIs, CachedIs
  <2> QED
    BY <2>1, <2>2, <2>8 DEF CacheInv
<1>6. CASE run_generate_signal
  <2>1. /\ pc = "signal" /\ pc' \in {"process", "record"} /\ bar' = bar /\ data' = data
        /\ price_history' = price_history /\ fast_ma' = fast_ma /\ slow_ma' = slow_ma
    BY <1>6 DEF run_generate_signal
  <2> QED
    BY <2>1, CacheKept DEF Seen
<1>7. CASE process_buy
  BY <1>7, CacheKept DEF process_buy, process_unchanged, Seen
<1>8. CASE process_sell
  BY <1>8, CacheKept DEF process_sell, process_unchanged, Seen
<1>9. CASE run_record
  <2>1. /\ pc = "record" /\ pc' = "bar" /\ bar' = bar + 1 /\ data' = data
        /\ price_history' = price_history /\ fast_ma' = fast_ma /\ slow_ma' = slow_ma
    BY <1>9 DEF run_record
  <2>2. Seen' = Seen
    BY <1>0, <2>1 DEF Seen
  <2> QED
    BY <2>1, <2>2, CacheKept
<1>10. CASE run_end
  <2>1. /\ pc = "bar" /\ pc' = "idle" /\ bar > Len(data)
        /\ price_history' = price_history /\ fast_ma' = fast_ma /\ slow_ma' = slow_ma
    BY <1>10 DEF run_end, strategy_vars
  <2>2. price_history = <<>> => fast_ma = <<>> /\ slow_ma = <<>>
    <3>1. SUFFICES ASSUME price_history = <<>> PROVE fast_ma = <<>> /\ slow_ma = <<>>
      OBVIOUS
    <3>2. Len(price_history) = 0 /\ Capacity \in Nat \ {0} /\ Seen \in Nat
      BY <1>0, <2>1, <3>1 DEF Capacity, Seen
    <3>3. Seen = 0
      BY <2>1, <3>2 DEF CacheInv, HistoryIs
    <3> QED
      BY <2>1, <3>3 DEF CacheInv, CachedIs
  <2> QED
    BY <2>1, <2>2 DEF CacheInv
<1>11. CASE UNCHANGED vars
  <2>1. /\ pc' = pc /\ bar' = bar /\ data' = data
        /\ price_history' = price_history /\ fast_ma' = fast_ma /\ slow_ma' = slow_ma
    BY <1>11 DEF vars, strategy_vars, engine_vars
  <2> QED
    BY <2>1, CacheKept DEF Seen, CacheInv
<1> QED
  BY <1>1, <1>2, <1>3, <1>4, <1>5, <1>6, <1>7, <1>8, <1>9, <1>10, <1>11 DEF Next
-----------------------------------------------------------------------------
(* The averages MACross takes over the closes decided so far are those of   *)
(* the data.                                                                *)
LEMMA MeanIsWindow ==
  ASSUME data \in Seq(Prices), NEW m \in 0..Len(data), NEW n \in 0..m, NEW k \in 0..n
  PROVE  MA!MeanTimes(SubSeq(data, 1, m), n, k) = Window(data, n, k)
<1>1. SubSeq(SubSeq(data, 1, m), n - k + 1, n) = SubSeq(data, n - k + 1, n)
  OBVIOUS
<1>2. MA!MeanTimes(SubSeq(data, 1, m), n, k) = Total(SubSeq(SubSeq(data, 1, m), n - k + 1, n))
  BY Zenon DEF MA!MeanTimes, Total, FoldLeft, MA!FoldLeft, MapThenFoldSet,
               MA!MapThenFoldSet, Max, MA!Max
<1> QED
  BY <1>1, <1>2, Zenon DEF Window

(* When generate_signal looks at the cached averages, the cross it sees is  *)
(* the cross of the whole history.                                          *)
LEMMA CrossIsSeen ==
  ASSUME TypeOK, CacheInv, pc \in {"signal", "process"}, bar <= Len(data)
  PROVE  /\ detect_cross = "BUY" <=> MA!CrossesUp(SubSeq(data, 1, bar))
         /\ detect_cross = "SELL" <=> MA!CrossesDown(SubSeq(data, 1, bar))
<1> DEFINE c == SubSeq(data, 1, bar)
<1>0. /\ bar \in Nat \ {0} /\ data \in Seq(Prices) /\ data \in Seq(Int) /\ Seen = bar
      /\ Len(c) = bar /\ bar \in 0..Len(data)
  <2>1. bar \in Nat \ {0} /\ data \in Seq(Prices) /\ Seen = bar
    BY DEF TypeOK, Seen
  <2>2. Prices \subseteq Int
    BY PriceIsNat
  <2>3. data \in Seq(Int)
    BY <2>1, <2>2, SeqMonotonic, Zenon
  <2> QED
    BY <2>1, <2>3
<1>1. CachedIs(fast_ma, bar, FastPeriod) /\ CachedIs(slow_ma, bar, SlowPeriod)
  BY <1>0 DEF CacheInv
<1> HIDE DEF c
<1>2. CASE ~MA!Averaged(bar - 1)
  <2>1. bar <= FastPeriod \/ bar <= SlowPeriod
    BY <1>0, <1>2 DEF MA!Averaged
  <2>2. \A x : Len(<<x>>) = 1
    OBVIOUS
  <2>3. Len(fast_ma) < 2 \/ Len(slow_ma) < 2
    BY <1>0, <1>1, <2>1, <2>2 DEF CachedIs
  <2>4. detect_cross = "NONE"
    BY <2>3 DEF detect_cross
  <2> QED
    BY <1>0, <1>2, <2>4, Zenon DEF MA!CrossesUp, MA!CrossesDown, c
<1>3. CASE MA!Averaged(bar - 1)
  <2> DEFINE f1 == Window(data, bar - 1, FastPeriod)
             f2 == Window(data, bar, FastPeriod)
             s1 == Window(data, bar - 1, SlowPeriod)
             s2 == Window(data, bar, SlowPeriod)
  <2>1. /\ FastPeriod \in 0..(bar - 1) /\ SlowPeriod \in 0..(bar - 1)
        /\ FastPeriod \in 0..bar /\ SlowPeriod \in 0..bar
        /\ bar - 1 \in 0..bar /\ bar \in 0..bar /\ bar - 1 \in 0..Len(data)
    BY <1>0, <1>3 DEF MA!Averaged
  <2>2. fast_ma = <<f1, f2>> /\ slow_ma = <<s1, s2>>
    BY <1>0, <1>1, <2>1 DEF CachedIs
  <2>3. f1 \in Int /\ f2 \in Int /\ s1 \in Int /\ s2 \in Int
    BY <1>0, <2>1, WindowStep
  <2>4. /\ MA!MeanTimes(c, bar - 1, FastPeriod) = f1 /\ MA!MeanTimes(c, bar, FastPeriod) = f2
        /\ MA!MeanTimes(c, bar - 1, SlowPeriod) = s1 /\ MA!MeanTimes(c, bar, SlowPeriod) = s2
    BY <1>0, <2>1, MeanIsWindow DEF c
  <2> HIDE DEF f1, f2, s1, s2
  <2>5. /\ MA!CrossesUp(c) <=>
             ~(f1 * SlowPeriod > s1 * FastPeriod) /\ f2 * SlowPeriod > s2 * FastPeriod
        /\ MA!CrossesDown(c) <=>
             ~(f1 * SlowPeriod < s1 * FastPeriod) /\ f2 * SlowPeriod < s2 * FastPeriod
    BY <1>0, <1>3, <2>4, Zenon
       DEF MA!CrossesUp, MA!CrossesDown, MA!Above, MA!Below
  <2>6. /\ golden_cross <=>
             f1 * SlowPeriod <= s1 * FastPeriod /\ f2 * SlowPeriod > s2 * FastPeriod
        /\ death_cross <=>
             f1 * SlowPeriod >= s1 * FastPeriod /\ f2 * SlowPeriod < s2 * FastPeriod
    BY <2>2 DEF golden_cross, death_cross, fast_at, slow_at
  <2>7. ~(golden_cross /\ death_cross)
    BY <2>3, <2>6
  <2>8. /\ detect_cross = "BUY" <=> golden_cross
        /\ detect_cross = "SELL" <=> death_cross
    <3>1. ~(Len(fast_ma) < 2 \/ Len(slow_ma) < 2)
      BY <2>2
    <3> QED
      BY <2>7, <3>1 DEF detect_cross
  <2>9. /\ golden_cross <=> MA!CrossesUp(c)
        /\ death_cross <=> MA!CrossesDown(c)
    BY <2>3, <2>5, <2>6
  <2> QED
    BY <2>8, <2>9 DEF c
<1> QED
  BY <1>2, <1>3

(* The state of MACross that a state of the engine stands for.              *)
MACloses == IF pc = "idle" \/ price_history = <<>> THEN <<>> ELSE SubSeq(data, 1, Decided)
MALong   == pc # "idle" /\ has_position

(* The signal in process_signal's hands is the cross still in the averages. *)
HandInv == pc = "process" => signal = detect_cross

LEMMA HandStep == TypeInv /\ HandInv /\ [Next]_vars => HandInv'
<1> SUFFICES ASSUME HandInv, [Next]_vars PROVE HandInv'
  OBVIOUS
<1>1. CASE run_generate_signal
  <2>1. /\ signal' = generated_signal /\ fast_ma' = fast_ma /\ slow_ma' = slow_ma
        /\ pc' = IF generated_signal \in {"BUY", "SELL"} THEN "process" ELSE "record"
    BY <1>1 DEF run_generate_signal
  <2>2. generated_signal \in {"BUY", "SELL"} => generated_signal = detect_cross
    BY DEF generated_signal
  <2>3. detect_cross' = detect_cross
    BY <2>1 DEF detect_cross, golden_cross, death_cross, fast_at, slow_at
  <2> QED
    BY <2>1, <2>2, <2>3 DEF HandInv
<1>2. CASE UNCHANGED vars
  BY <1>2 DEF vars, strategy_vars, engine_vars, HandInv, detect_cross, golden_cross,
              death_cross, fast_at, slow_at
<1>3. CASE ~run_generate_signal /\ Next
  BY <1>3 DEF Next, HandInv, set_strategy, set_data, run_refused, run_begin, run_on_bar,
              process_buy, process_sell, run_record, run_end
<1> QED
  BY <1>1, <1>2, <1>3

(* Outside the idle state the closes are simply those of the decided bars.  *)
LEMMA ClosesAre ==
  ASSUME TypeOK, LoopAgrees, CacheInv, pc # "idle"
  PROVE  /\ MACloses = SubSeq(data, 1, Decided)
         /\ pc \in {"signal", "process", "record"} => price_history # <<>>
<1>1. bar \in Nat \ {0} /\ data \in Seq(Prices) /\ Capacity \in Nat \ {0} /\ Seen \in Nat
  BY DEF TypeOK, Capacity, Seen
<1>2. price_history = <<>> => Seen = 0
  BY <1>1 DEF CacheInv, HistoryIs
<1>3. Seen = 0 => pc = "bar" /\ bar = 1
  BY <1>1 DEF Seen
<1>4. price_history = <<>> => SubSeq(data, 1, Decided) = <<>>
  BY <1>1, <1>2, <1>3 DEF Decided
<1> QED
  BY <1>2, <1>3, <1>4 DEF MACloses

(* A step of the engine that decides nothing.                               *)
LEMMA Stutters ==
  ASSUME MACloses' = MACloses, MALong' <=> MALong
  PROVE  UNCHANGED MA!vars
<1>1. MALong' = MALong
  BY DEF MALong
<1> QED
  BY <1>1 DEF MA!vars, MACloses, MALong

(* A step of the engine that acts upon the bar at hand.                     *)
LEMMA Decides ==
  ASSUME TypeOK, LoopAgrees, CacheInv, TypeOK', LoopAgrees', CacheInv',
         pc \in {"signal", "process"}, pc' = "record", bar' = bar, data' = data,
         detect_cross = "BUY" /\ ~has_position => has_position',
         detect_cross = "SELL" /\ has_position => ~has_position',
         detect_cross # "BUY" /\ ~has_position => ~has_position',
         detect_cross # "SELL" /\ has_position => has_position'
  PROVE  MA!Next
<1> DEFINE c == SubSeq(data, 1, bar)
<1>1. bar \in Nat \ {0} /\ bar <= Len(data) /\ data \in Seq(Prices) /\ data[bar] \in Prices
  BY DEF TypeOK, LoopAgrees
<1>2. MACloses = SubSeq(data, 1, bar - 1)
  BY ClosesAre DEF Decided
<1>3. MACloses' = c
  <2>1. price_history' # <<>> /\ Decided' = bar /\ pc' # "idle"
    <3>1. Len(price_history') # 0
      BY <1>1 DEF CacheInv, HistoryIs, Seen, Capacity
    <3> QED
      BY <3>1 DEF Decided
  <2> QED
    BY <2>1 DEF MACloses
<1>4. c = Append(MACloses, data[bar])
  BY <1>1, <1>2
<1>5. /\ detect_cross = "BUY" <=> MA!CrossesUp(c)
      /\ detect_cross = "SELL" <=> MA!CrossesDown(c)
  BY <1>1, CrossIsSeen
<1>6. (MALong <=> has_position) /\ (MALong' <=> has_position')
  BY DEF MALong
<1> HIDE DEF c
<1>7. MALong' <=> IF MALong THEN ~MA!CrossesDown(c) ELSE MA!CrossesUp(c)
  BY <1>5, <1>6
<1>8. MALong' = IF MALong THEN ~MA!CrossesDown(c) ELSE MA!CrossesUp(c)
  BY <1>7 DEF MALong, has_position, MA!CrossesUp, MA!CrossesDown
<1>9. MA!Decide(data[bar])
  BY <1>3, <1>4, <1>8, Zenon DEF MA!Decide, MACloses, MALong
<1> QED
  BY <1>1, <1>9 DEF MA!Next

RefineInv == TypeInv /\ CacheInv /\ HandInv /\ MatchInv /\ ReplayInv

LEMMA RefineStep ==
  ~ReuseStrategy /\ RefineInv /\ RefineInv' /\ EveryBuyFills /\ [Next]_vars
    => [MA!Next]_(MA!vars)
<1> SUFFICES ASSUME ~ReuseStrategy, TypeOK, LoopAgrees, CacheInv, HandInv, MatchInv, ReplayInv,
                    TypeOK', LoopAgrees', CacheInv', EveryBuyFills, [Next]_vars
             PROVE  MA!Next \/ UNCHANGED MA!vars
  BY DEF RefineInv, TypeInv
<1>0. bar \in Nat \ {0} /\ data \in Seq(Prices)
  BY DEF TypeOK
<1>1. CASE set_strategy
  BY <1>1, Stutters DEF set_strategy, MACloses, MALong
<1>2. ASSUME NEW closes \in DataSets, set_data(closes)
      PROVE  UNCHANGED MA!vars
  BY <1>2, Stutters DEF set_data, MACloses, MALong
<1>3. CASE run_refused
  BY <1>3, Stutters DEF run_refused, MACloses, MALong
<1>4. CASE run_begin
  <2>1. /\ pc = "idle" /\ price_history' = <<>> /\ position' = position
        /\ position.quantity = 0
    BY <1>4 DEF run_begin, ReplayInv
  <2> QED
    BY <2>1, Stutters DEF MACloses, MALong, has_position
<1>5. CASE run_on_bar
  <2>1. /\ pc = "bar" /\ pc' = "signal" /\ bar' = bar /\ data' = data
        /\ position'.quantity = position.quantity
    BY <1>5 DEF run_on_bar, on_bar, repriced
  <2>2. MACloses = SubSeq(data, 1, bar - 1)
    BY <2>1, ClosesAre DEF Decided
  <2>3. price_history' # <<>>
    <3>1. Len(price_history') # 0
      BY <1>0, <2>1 DEF CacheInv, HistoryIs, Seen, Capacity
    <3> QED
      BY <3>1
  <2>4. MACloses' = SubSeq(data, 1, bar - 1)
    BY <2>1, <2>3 DEF MACloses, Decided
  <2> QED
    BY <2>1, <2>2, <2>4, Stutters DEF MALong, has_position
<1>6. CASE run_generate_signal
  <2>1. /\ pc = "signal" /\ signal' = generated_signal /\ position' = position
        /\ bar' = bar /\ data' = data /\ price_history' = price_history
        /\ pc' = IF generated_signal \in {"BUY", "SELL"} THEN "process" ELSE "record"
    BY <1>6 DEF run_generate_signal, base_vars
  <2>2. CASE generated_signal \in {"BUY", "SELL"}
    <3>1. MACloses' = MACloses /\ (MALong' <=> MALong)
      BY <2>1, <2>2 DEF MACloses, Decided, MALong, has_position
    <3> QED
      BY <3>1, Stutters
  <2>3. CASE generated_signal \notin {"BUY", "SELL"}
    <3>1. has_position <=> last_signal = "BUY"
      BY <2>1 DEF MatchInv, SignalMatchesPosition
    <3>2. /\ detect_cross = "BUY" => has_position
          /\ detect_cross = "SELL" => ~has_position
      <4>1. Seen = bar /\ HistoryIs(price_history, bar) /\ CachedIs(slow_ma, bar, SlowPeriod)
        BY <2>1 DEF CacheInv, Seen
      <4>2. Len(price_history) < SlowPeriod => detect_cross = "NONE"
        <5>1. Len(price_history) < SlowPeriod => bar < SlowPeriod
          BY <1>0, <4>1 DEF HistoryIs, Capacity
        <5>2. bar < SlowPeriod => slow_ma = <<>>
          BY <4>1 DEF CachedIs
        <5>3. slow_ma = <<>> => Len(slow_ma) < 2
          OBVIOUS
        <5> QED
          BY <5>1, <5>2, <5>3 DEF detect_cross
      <4> QED
        BY <2>3, <3>1, <4>2 DEF generated_signal, held_back
    <3>3. has_position' <=> has_position
      BY <2>1 DEF has_position
    <3> QED
      BY <2>1, <2>3, <3>2, <3>3, Decides
  <2> QED
    BY <2>2, <2>3
<1>7. CASE process_buy
  <2>1. /\ pc = "process" /\ signal = "BUY" /\ pc' = "record" /\ bar' = bar /\ data' = data
        /\ position'.quantity = lots_for(buy_amount, data[bar])
    BY <1>7 DEF process_buy, process_unchanged, open_position, MatchInv
  <2>2. detect_cross = "BUY" /\ ~has_position /\ has_position'
    BY <2>1 DEF HandInv, MatchInv, EveryBuyFills, has_position
  <2> QED
    BY <2>1, <2>2, Decides
<1>8. CASE process_sell
  <2>1. /\ pc = "process" /\ signal = "SELL" /\ pc' = "record" /\ bar' = bar /\ data' = data
        /\ position'.quantity = 0
    BY <1>8 DEF process_sell, process_unchanged, close_position, NoPosition, has_position
  <2>2. detect_cross = "SELL" /\ has_position /\ ~has_position'
    BY <2>1 DEF HandInv, MatchInv, has_position
  <2> QED
    BY <2>1, <2>2, Decides
<1>9. CASE run_record
  <2>1. /\ pc = "record" /\ pc' = "bar" /\ bar' = bar + 1 /\ data' = data
        /\ price_history' = price_history /\ position'.quantity = position.quantity
    BY <1>9 DEF run_record, marked_position, repriced
  <2>2. MACloses' = MACloses
    BY <1>0, <2>1 DEF MACloses, Decided
  <2> QED
    BY <2>1, <2>2, Stutters DEF MALong, has_position
<1>10. CASE run_end
  <2>1. MACloses' = <<>> /\ MALong' = FALSE
    BY <1>10 DEF run_end, MACloses, MALong
  <2>2. MA!NewStrategy
    BY <2>1, Zenon DEF MA!NewStrategy, MACloses, MALong
  <2> QED
    BY <2>2 DEF MA!Next
<1>11. CASE UNCHANGED vars
  BY <1>11, Stutters DEF vars, strategy_vars, engine_vars, base_vars, MACloses, MALong,
                         Decided, has_position
<1> QED
  BY <1>1, <1>2, <1>3, <1>4, <1>5, <1>6, <1>7, <1>8, <1>9, <1>10, <1>11 DEF Next

(* A strategy that runs once, whose fast window fits the bounded history    *)
(* and whose BUYs get at least one lot decides as MACross does, which looks *)
(* at every close there has been.                                           *)
THEOREM StrategyImplementsMACross ==
  ASSUME ~ReuseStrategy, FastPeriod <= SlowPeriod + HistoryMargin
  PROVE  Spec /\ []EveryBuyFills => ImplementsMACross
<1>1. Init => MA!Init
  <2>1. Init => MACloses = <<>> /\ MALong = FALSE
    BY DEF Init, MACloses, MALong
  <2> QED
    BY <2>1, Zenon DEF MA!Init, MACloses, MALong
<1>2. Init => HandInv /\ MatchInv
  BY DEF Init, HandInv, MatchInv, SignalMatchesPosition, has_position, NoPosition
<1>3. TypeInv /\ CacheInv /\ [Next]_vars => CacheInv'
  BY CacheStep DEF Capacity
<1>4. TypeInv /\ TypeInv' /\ ControlInv /\ ReplayInv /\ [Next]_vars => ReplayInv'
  BY ReplayStep
<1>5. RefineInv /\ RefineInv' /\ EveryBuyFills /\ [Next]_vars => [MA!Next]_(MA!vars)
  BY RefineStep
<1>6. Spec /\ []EveryBuyFills => []RefineInv
  BY <1>2, <1>3, <1>4, TypeInit, TypeStep, CacheInit, HandStep, MatchStep, ReplayInit,
     ControlCorrect, PTL DEF Spec, RefineInv
<1> QED
  BY <1>1, <1>5, <1>6, PTL DEF Spec, ImplementsMACross, MA!Spec
-----------------------------------------------------------------------------
(* The sum of the first n elements.                                         *)
LEMMA SumToIsTotal ==
  ASSUME NEW s \in Seq(Int), NEW n \in 0..Len(s)
  PROVE  sum_to(s, n) = Total(SubSeq(s, 1, n)) /\ sum_to(s, n) \in Int
<1>1. SubSeq(s, 1, n) \in Seq(Int)
  OBVIOUS
<1>2. Total(SubSeq(s, 1, n)) \in Int
  BY <1>1, TotalType, Zenon
<1> QED
  BY <1>2, Zenon DEF sum_to, Total

(* The average that comes after x when the next price is p.                 *)
EmaStep(period, p, x) == (2 * p + (period - 1) * x) \div (period + 1)

LEMMA EmaStepType ==
  ASSUME NEW period \in Nat \ {0}, NEW p \in Int, NEW x \in Int
  PROVE  EmaStep(period, p, x) \in Int
<1>1. 2 * p + (period - 1) * x \in Int
  OBVIOUS
<1>2. period + 1 \in Nat \ {0}
  OBVIOUS
<1> QED
  BY <1>1, <1>2, DivInt, Zenon DEF EmaStep

EmaTable(prices, period) ==
  CHOOSE ema : ema = [i \in period..Len(prices) |->
        IF i = period THEN sum_to(prices, period) \div period
        ELSE (2 * prices[i] + (period - 1) * ema[i-1]) \div (period + 1)]

LEMMA EmaTableExists ==
  ASSUME NEW prices \in Seq(Int), NEW period \in Nat \ {0}, period <= Len(prices)
  PROVE  LET ema == EmaTable(prices, period) IN
         /\ ema \in [period..Len(prices) -> Int]
         /\ ema[period] = sum_to(prices, period) \div period
         /\ \A i \in (period + 1)..Len(prices) :
              ema[i] = EmaStep(period, prices[i], ema[i-1])
<1> DEFINE N == Len(prices) - period
           first == sum_to(prices, period) \div period
           G == [p \in (1..N) \X Int |-> EmaStep(period, prices[period + p[1]], p[2])]
<1>1. N \in Nat /\ period \in 0..Len(prices)
  OBVIOUS
<1>2. first \in Int
  BY <1>1, SumToIsTotal, DivInt, Zenon
<1>3. \A n \in 1..N : \A x \in Int :
        G[<<n, x>>] = EmaStep(period, prices[period + n], x) /\ G[<<n, x>>] \in Int
  <2>1. \A n \in 1..N : prices[period + n] \in Int
    OBVIOUS
  <2> QED
    BY <2>1, EmaStepType
<1> HIDE DEF G, first, N
<1>4. Maps(G, N, Int)
  BY <1>3, Zenon DEF Maps
<1>5. PICK f : Recursive(f, Int, first, N, G)
  BY <1>1, <1>2, <1>4, RecursionExists, Zenon
<1>50. f \in [0..N -> Int] /\ f[0] = first /\ \A n \in 1..N : f[n] = G[<<n, f[n - 1]>>]
  BY <1>5, Zenon DEF Recursive
<1> DEFINE e == [i \in period..Len(prices) |-> f[i - period]]
<1>6. /\ e \in [period..Len(prices) -> Int]
      /\ e[period] = first
      /\ \A i \in (period + 1)..Len(prices) : e[i] = EmaStep(period, prices[i], e[i-1])
  <2>1. \A i \in period..Len(prices) : i - period \in 0..N
    BY <1>1 DEF N
  <2>2. e \in [period..Len(prices) -> Int]
    BY <1>50, <2>1
  <2>3. e[period] = first
    BY <1>1, <1>50, <2>1
  <2>4. ASSUME NEW i \in (period + 1)..Len(prices)
        PROVE  e[i] = EmaStep(period, prices[i], e[i-1])
    <3>1. /\ i - period \in 1..N /\ e[i] = f[i - period] /\ i - 1 \in period..Len(prices)
          /\ e[i-1] = f[(i - period) - 1] /\ period + (i - period) = i
          /\ (i - period) - 1 \in 0..N
      BY <1>1 DEF N
    <3>2. f[(i - period) - 1] \in Int
      BY <1>50, <3>1
    <3>3. f[i - period] = G[<<i - period, f[(i - period) - 1]>>]
      BY <1>50, <3>1
    <3> QED
      BY <1>3, <3>1, <3>2, <3>3
  <2> QED
    BY <2>2, <2>3, <2>4
<1> HIDE DEF e
<1>7. e = [i \in period..Len(prices) |->
        IF i = period THEN sum_to(prices, period) \div period
        ELSE (2 * prices[i] + (period - 1) * e[i-1]) \div (period + 1)]
  <2>1. ASSUME NEW i \in period..Len(prices)
        PROVE  e[i] = IF i = period THEN sum_to(prices, period) \div period
                      ELSE (2 * prices[i] + (period - 1) * e[i-1]) \div (period + 1)
    <3>1. i = period \/ i \in (period + 1)..Len(prices)
      OBVIOUS
    <3> QED
      BY <1>6, <3>1, Zenon DEF EmaStep, first
  <2>2. DOMAIN e = period..Len(prices) /\ e = [i \in DOMAIN e |-> e[i]]
    BY <1>6
  <2> QED
    BY <2>1, <2>2, Zenon
<1>8. EmaTable(prices, period) = [i \in period..Len(prices) |->
        IF i = period THEN sum_to(prices, period) \div period
        ELSE (2 * prices[i] + (period - 1) * EmaTable(prices, period)[i-1])
               \div (period + 1)]
  BY <1>7, Zenon DEF EmaTable
<1> DEFINE ema == EmaTable(prices, period)
<1> HIDE DEF ema
<1>9. ema = [i \in period..Len(prices) |->
        IF i = period THEN first ELSE EmaStep(period, prices[i], ema[i-1])]
  BY <1>8, Zenon DEF ema, EmaStep, first
<1>10. /\ ema[period] = first
       /\ \A i \in (period + 1)..Len(prices) : ema[i] = EmaStep(period, prices[i], ema[i-1])
  <2>1. period \in period..Len(prices)
    OBVIOUS
  <2>2. \A i \in (period + 1)..Len(prices) : i \in period..Len(prices) /\ i # period
    OBVIOUS
  <2> QED
    BY <1>9, <2>1, <2>2, Zenon
<1>11. \A i \in period..Len(prices) : ema[i] \in Int
  <2> DEFINE S == {k \in Nat : period + k <= Len(prices) => ema[period + k] \in Int}
  <2>1. 0 \in S
    BY <1>10, <1>2
  <2>2. ASSUME NEW k \in Nat, k \in S
        PROVE  k + 1 \in S
    <3>1. SUFFICES ASSUME period + (k + 1) <= Len(prices)
                   PROVE  ema[period + (k + 1)] \in Int
      OBVIOUS
    <3>2. /\ ema[period + k] \in Int /\ (period + (k + 1)) - 1 = period + k
          /\ period + (k + 1) \in (period + 1)..Len(prices)
          /\ prices[period + (k + 1)] \in Int
      BY <2>2, <3>1
    <3> QED
      BY <1>10, <3>2, EmaStepType, Zenon
  <2> HIDE DEF S
  <2>3. Nat \subseteq S
    BY <2>1, <2>2, SetInduction, Zenon
  <2> TAKE i \in period..Len(prices)
  <2>4. i - period \in Nat /\ period + (i - period) = i /\ i <= Len(prices)
    OBVIOUS
  <2> QED
    BY <2>3, <2>4 DEF S
<1>12. ema \in [period..Len(prices) -> Int]
  BY <1>9, <1>11, Zenon
<1> QED
  BY <1>10, <1>12, Zenon DEF ema, first

(* The exponential average, one value per complete window.                  *)
LEMMA EmaRecursion ==
  ASSUME NEW prices \in Seq(Int), NEW period \in Nat \ {0}, period <= Len(prices)
  PROVE  LET ema == calculate_ema(prices, period) IN
         /\ ema \in Seq(Int) /\ Len(ema) = Len(prices) - period + 1
         /\ ema[1] = sum_to(prices, period) \div period
         /\ \A k \in 2..Len(ema) :
              ema[k] = EmaStep(period, prices[k + period - 1], ema[k-1])
<1> DEFINE t == EmaTable(prices, period)
           n == Len(prices) - period + 1
           ema == calculate_ema(prices, period)
<1>1. /\ t \in [period..Len(prices) -> Int]
      /\ t[period] = sum_to(prices, period) \div period
      /\ \A i \in (period + 1)..Len(prices) : t[i] = EmaStep(period, prices[i], t[i-1])
  BY EmaTableExists
<1>2. ema = [k \in 1..n |-> t[k + period - 1]]
  <2>1. validate_params(prices, period)
    BY DEF validate_params
  <2> QED
    BY <2>1, Zenon DEF calculate_ema, EmaTable
<1> HIDE DEF t, ema
<1>3. \A k \in 1..n : k + period - 1 \in period..Len(prices)
  OBVIOUS
<1>4. ema \in Seq(Int) /\ Len(ema) = n
  <2>1. n \in Nat
    OBVIOUS
  <2>2. \A k \in 1..n : t[k + period - 1] \in Int
    BY <1>1, <1>3, Zenon
  <2> HIDE DEF n
  <2> QED
    BY <1>2, <2>1, <2>2
<1>5. ema[1] = t[period]
  BY <1>2
<1>6. ASSUME NEW k \in 2..n
      PROVE  ema[k] = EmaStep(period, prices[k + period - 1], ema[k-1])
  <2>1. /\ k + period - 1 \in (period + 1)..Len(prices)
        /\ (k - 1) + period - 1 = (k + period - 1) - 1
        /\ k \in 1..n /\ k - 1 \in 1..n
    OBVIOUS
  <2>2. ema[k] = t[k + period - 1] /\ ema[k-1] = t[(k + period - 1) - 1]
    BY <1>2, <2>1
  <2> QED
    BY <1>1, <2>1, <2>2
<1> QED
  BY <1>1, <1>4, <1>5, <1>6 DEF ema

(* The average of a prefix is the prefix of the average: it knows nothing   *)
(* of later prices.                                                         *)
LEMMA EmaOfPrefix ==
  ASSUME NEW prices \in Seq(Int), NEW period \in Nat \ {0},
         NEW m \in period..Len(prices)
  PROVE  Last(calculate_ema(SubSeq(prices, 1, m), period))
           = calculate_ema(prices, period)[m - period + 1]
<1> DEFINE part == SubSeq(prices, 1, m)
           e == calculate_ema(prices, period)
           d == calculate_ema(part, period)
<1>1. /\ part \in Seq(Int) /\ Len(part) = m /\ period <= m /\ m <= Len(prices)
      /\ \A i \in 1..m : part[i] = prices[i]
      /\ SubSeq(part, 1, period) = SubSeq(prices, 1, period)
  OBVIOUS
<1>2. sum_to(part, period) = sum_to(prices, period)
  BY <1>1, Zenon DEF sum_to
<1> HIDE DEF part
<1>3. /\ d \in Seq(Int) /\ Len(d) = m - period + 1
      /\ d[1] = sum_to(part, period) \div period
      /\ \A k \in 2..Len(d) : d[k] = EmaStep(period, part[k + period - 1], d[k-1])
  <2>1. period <= Len(part)
    BY <1>1
  <2>2. LET ema == calculate_ema(part, period) IN
        /\ ema \in Seq(Int) /\ Len(ema) = Len(part) - period + 1
        /\ ema[1] = sum_to(part, period) \div period
        /\ \A k \in 2..Len(ema) :
             ema[k] = EmaStep(period, part[k + period - 1], ema[k-1])
    BY <1>1, <2>1, EmaRecursion, Zenon
  <2> QED
    BY <1>1, <2>2, Zenon
<1>4. /\ e[1] = sum_to(prices, period) \div period
      /\ \A k \in 2..Len(e) : e[k] = EmaStep(period, prices[k + period - 1], e[k-1])
      /\ Len(e) = Len(prices) - period + 1
  <2>1. period <= Len(prices)
    BY <1>1
  <2>2. LET ema == calculate_ema(prices, period) IN
        /\ ema \in Seq(Int) /\ Len(ema) = Len(prices) - period + 1
        /\ ema[1] = sum_to(prices, period) \div period
        /\ \A k \in 2..Len(ema) :
             ema[k] = EmaStep(period, prices[k + period - 1], ema[k-1])
    BY <2>1, EmaRecursion, Zenon
  <2> QED
    BY <2>2, Zenon
<1> HIDE DEF e, d
<1> DEFINE S == {k \in Nat : k + 1 <= Len(d) => d[k + 1] = e[k + 1]}
<1>5. 0 \in S
  BY <1>2, <1>3, <1>4
<1>6. ASSUME NEW k \in Nat, k \in S
      PROVE  k + 1 \in S
  <2>1. SUFFICES ASSUME k + 2 <= Len(d)
                 PROVE  d[k + 2] = e[k + 2]
    OBVIOUS
  <2>2. /\ k + 2 \in 2..Len(d) /\ k + 2 \in 2..Len(e) /\ (k + 2) - 1 = k + 1
        /\ (k + 2) + period - 1 \in 1..m
    BY <1>1, <1>3, <1>4, <2>1
  <2>3. d[k + 1] = e[k + 1]
    BY <1>6, <1>3, <2>1
  <2>4. part[(k + 2) + period - 1] = prices[(k + 2) + period - 1]
    BY <1>1, <2>2
  <2>5. d[k + 2] = EmaStep(period, part[(k + 2) + period - 1], d[k + 1])
    BY <1>3, <2>2
  <2>6. e[k + 2] = EmaStep(period, prices[(k + 2) + period - 1], e[k + 1])
    BY <1>4, <2>2
  <2> QED
    BY <2>3, <2>4, <2>5, <2>6
<1> HIDE DEF S
<1>7. m - period \in S
  <2>1. m - period \in Nat
    OBVIOUS
  <2> QED
    BY <1>5, <1>6, <2>1, SetInduction, Zenon
<1>8. d[(m - period) + 1] = e[(m - period) + 1]
  BY <1>3, <1>7 DEF S
<1>9. Last(d) = d[m - period + 1]
  BY <1>3 DEF Last
<1> QED
  BY <1>8, <1>9 DEF d, e, part
(* The difference of two averages of one series whose ends align.           *)
LEMMA AlignedAt ==
  ASSUME NEW long \in Seq(Int), NEW short \in Seq(Int), Len(short) <= Len(long)
  PROVE  /\ aligned(long, short) \in Seq(Int)
         /\ Len(aligned(long, short)) = Len(short)
         /\ DOMAIN aligned(long, short) = 1..Len(short)
         /\ \A i \in 1..Len(short) :
              aligned(long, short)[i] = long[i + Len(long) - Len(short)] - short[i]
<1>1. DOMAIN short = 1..Len(short) /\ Len(short) \in Nat
  OBVIOUS
<1>2. \A k \in 1..Len(short) : long[k + Len(long) - Len(short)] - short[k] \in Int
  <2> TAKE k \in 1..Len(short)
  <2>1. k + Len(long) - Len(short) \in 1..Len(long)
    OBVIOUS
  <2> QED
    BY <2>1
<1> DEFINE n == Len(short)
<1>3. aligned(long, short) = [k \in 1..n |-> long[k + Len(long) - Len(short)] - short[k]]
  BY <1>1, Zenon DEF aligned
<1>4. n \in Nat /\ n = Len(short)
  OBVIOUS
<1> HIDE DEF n
<1> QED
  BY <1>2, <1>3, <1>4

(* For every pair of periods, not only the small ones of the property.      *)
LEMMA MacdAligned ==
  ASSUME NEW prices \in Seq(Int), NEW fast \in Nat \ {0}, NEW slow \in Nat \ {0},
         NEW smooth \in Nat \ {0}, fast <= slow, slow <= Len(prices)
  PROVE  SameBar(prices, fast, slow, smooth)
<1> DEFINE f == calculate_ema(prices, fast)
           s == calculate_ema(prices, slow)
           dif == aligned(f, s)
           dea == IF Len(dif) >= smooth THEN calculate_ema(dif, smooth) ELSE <<>>
           n == Len(prices) - slow + 1
           at_bar(bars) == Last(calculate_ema(SubSeq(prices, 1, bars), fast))
                             - Last(calculate_ema(SubSeq(prices, 1, bars), slow))
<1>1. /\ f \in Seq(Int) /\ Len(f) = Len(prices) - fast + 1
      /\ s \in Seq(Int) /\ Len(s) = n
  <2>1. fast <= Len(prices)
    OBVIOUS
  <2> QED
    BY <2>1, EmaRecursion, Zenon
<1>2. n \in Nat \ {0}
  OBVIOUS
<1>3. ASSUME NEW b \in slow..Len(prices)
      PROVE  at_bar(b) = f[b - fast + 1] - s[b - slow + 1]
  <2>1. b \in fast..Len(prices)
    OBVIOUS
  <2> QED
    BY <2>1, EmaOfPrefix, Zenon
<1>4. calculate_macd(prices, fast, slow, smooth)
        = [dif |-> dif, dea |-> dea, histogram |-> aligned(dif, dea)]
  <2>1. validate_params(prices, slow)
    BY DEF validate_params
  <2> QED
    BY <2>1, Zenon DEF calculate_macd
<1> HIDE DEF f, s, at_bar
<1>50. Len(s) <= Len(f)
  BY <1>1
<1>5. /\ dif \in Seq(Int) /\ Len(dif) = n
      /\ \A i \in 1..n : dif[i] = f[i + Len(f) - Len(s)] - s[i]
  <2>1. /\ dif \in Seq(Int) /\ Len(dif) = Len(s)
        /\ \A i \in 1..Len(s) : dif[i] = f[i + Len(f) - Len(s)] - s[i]
    BY <1>1, <1>50, AlignedAt, Zenon
  <2> QED
    BY <1>1, <2>1, Zenon
<1>6. ASSUME NEW i \in 1..n
      PROVE  dif[i] = at_bar(slow + i - 1)
  <2>1. dif[i] = f[i + Len(f) - Len(s)] - s[i]
    BY <1>5, Zenon
  <2>2. /\ i + Len(f) - Len(s) = (slow + i - 1) - fast + 1
        /\ i = (slow + i - 1) - slow + 1
        /\ slow + i - 1 \in slow..Len(prices)
    BY <1>1
  <2> QED
    BY <1>3, <2>1, <2>2
<1>7. dif = [i \in 1..n |-> at_bar(slow + i - 1)]
  BY <1>5, <1>6
<1> HIDE DEF dif
<1>8. ASSUME NEW i \in DOMAIN aligned(dif, dea)
      PROVE  aligned(dif, dea)[i] =
               at_bar(slow + smooth + i - 2)
                 - Last(calculate_ema(SubSeq(dif, 1, smooth + i - 1), smooth))
  <2>1. i \in DOMAIN dea
    BY DEF aligned
  <2>2. Len(dif) >= smooth /\ dea = calculate_ema(dif, smooth)
    <3>1. CASE ~(Len(dif) >= smooth)
      <4>1. dea = <<>>
        BY <3>1
      <4>2. DOMAIN dea = {}
        BY <4>1
      <4> QED
        BY <2>1, <4>2
    <3> QED
      BY <3>1
  <2>3. smooth <= Len(dif)
    BY <1>5, <2>2
  <2> HIDE DEF dea
  <2>4. dea \in Seq(Int) /\ Len(dea) = Len(dif) - smooth + 1
    BY <1>5, <2>2, <2>3, EmaRecursion, Zenon
  <2>5. i \in 1..Len(dea) /\ Len(dea) <= Len(dif)
    BY <1>5, <2>1, <2>4
  <2>6. aligned(dif, dea)[i] = dif[i + Len(dif) - Len(dea)] - dea[i]
    <3>1. \A k \in 1..Len(dea) :
            aligned(dif, dea)[k] = dif[k + Len(dif) - Len(dea)] - dea[k]
      BY <1>5, <2>4, <2>5, AlignedAt, Zenon
    <3> QED
      BY <2>5, <3>1, Zenon
  <2>7. /\ i + Len(dif) - Len(dea) = smooth + i - 1 /\ smooth + i - 1 \in 1..n
        /\ smooth + i - 1 \in smooth..Len(dif) /\ (smooth + i - 1) - smooth + 1 = i
        /\ slow + (smooth + i - 1) - 1 = slow + smooth + i - 2
    <3>2. Len(dif) \in Nat /\ Len(dea) \in Int
      BY <1>5, <2>4
    <3>3. i \in Int /\ 1 <= i /\ i <= Len(dea)
      BY <2>5, <3>2
    <3> HIDE DEF n
    <3>4. Len(dea) = Len(dif) - smooth + 1 /\ Len(dif) = n
      BY <1>5, <2>4, Zenon
    <3>5. i + Len(dif) - Len(dea) = smooth + i - 1
      BY <3>2, <3>3, <3>4
    <3>6. smooth + i - 1 \in 1..n
      BY <3>2, <3>3, <3>4
    <3>7. smooth + i - 1 \in smooth..Len(dif)
      BY <3>2, <3>3, <3>4
    <3>8. (smooth + i - 1) - smooth + 1 = i
      BY <3>2, <3>3, <3>4
    <3>9. slow + (smooth + i - 1) - 1 = slow + smooth + i - 2
      BY <3>2, <3>3, <3>4
    <3> QED
      BY <3>5, <3>6, <3>7, <3>8, <3>9
  <2>8. dif[smooth + i - 1] = at_bar(slow + smooth + i - 2)
    BY <1>6, <2>7
  <2>9. Last(calculate_ema(SubSeq(dif, 1, smooth + i - 1), smooth))
          = calculate_ema(dif, smooth)[(smooth + i - 1) - smooth + 1]
    BY <1>5, <2>7, EmaOfPrefix, Zenon
  <2> QED
    BY <2>2, <2>6, <2>7, <2>8, <2>9
<1> HIDE DEF dea
<1> QED
  BY <1>4, <1>7, <1>8 DEF SameBar, at_bar

(* Every value of the MACD is what the prices up to its bar alone give.     *)
THEOREM MacdComparesTheSameBar == Spec => []MacdComparesSameBar
<1>1. TypeOK => MacdComparesSameBar
  <2> SUFFICES ASSUME TypeOK, NEW fast \in 1..2, NEW slow \in 1..2, NEW smooth \in 1..2,
                      fast <= slow, Len(data) >= slow
               PROVE  SameBar(data, fast, slow, smooth)
    BY Zenon DEF MacdComparesSameBar
  <2>1. data \in Seq(Int)
    <3>1. data \in Seq(Prices) /\ Prices \subseteq Int
      BY DEF TypeOK
    <3> QED
      BY <3>1, SeqMonotonic, Zenon
  <2>2. /\ fast \in Nat \ {0} /\ slow \in Nat \ {0} /\ smooth \in Nat \ {0}
        /\ slow <= Len(data)
    BY <2>1
  <2> QED
    BY <2>1, <2>2, MacdAligned, Zenon
<1> QED
  BY <1>1, TypeCorrect, PTL
-----------------------------------------------------------------------------
(* The quotient is the greatest number that fits.                           *)
LEMMA DivGreatest ==
  ASSUME NEW x \in Int, NEW y \in Nat \ {0}, NEW z \in Int, z * y <= x
  PROVE  z <= x \div y
<1>1. x < (x \div y + 1) * y
  OBVIOUS
<1>2. x \div y \in Int
  BY DivInt, Zenon
<1>3. SUFFICES ASSUME x \div y + 1 <= z PROVE FALSE
  BY <1>2
<1> DEFINE q == x \div y + 1
<1>4. q \in Int /\ q <= z /\ x < q * y
  BY <1>1, <1>2, <1>3
<1> HIDE DEF q
<1>5. q * y <= z * y
  BY <1>4
<1>6. q * y \in Int /\ z * y \in Int
  BY <1>4
<1> QED
  BY <1>4, <1>5, <1>6

PowerTable(base, n) ==
  CHOOSE unit : unit = [m \in 0..n |-> IF m = 0 THEN 1 ELSE unit[m-1] * base]

LEMMA PowerPositive ==
  ASSUME NEW base \in Nat \ {0}, NEW n \in Nat
  PROVE  power(base, n) \in Nat \ {0}
<1> DEFINE T == Nat \ {0}
           G == [p \in (1..n) \X T |-> p[2] * base]
           unit == PowerTable(base, n)
<1>1. \A m \in 1..n : \A x \in T : G[<<m, x>>] = x * base /\ G[<<m, x>>] \in T
  OBVIOUS
<1>2. 1 \in T
  OBVIOUS
<1> HIDE DEF T, G
<1>3. Maps(G, n, T)
  BY <1>1, Zenon DEF Maps
<1>4. PICK f : Recursive(f, T, 1, n, G)
  BY <1>2, <1>3, RecursionExists, Zenon
<1>5. f \in [0..n -> T] /\ f[0] = 1 /\ \A m \in 1..n : f[m] = G[<<m, f[m-1]>>]
  BY <1>4, Zenon DEF Recursive
<1>6. f = [m \in 0..n |-> IF m = 0 THEN 1 ELSE f[m-1] * base]
  <2>1. ASSUME NEW m \in 0..n
        PROVE  f[m] = IF m = 0 THEN 1 ELSE f[m-1] * base
    <3>1. CASE m = 0
      BY <1>5, <3>1, Zenon
    <3>2. CASE m # 0
      <4>1. m \in 1..n /\ m - 1 \in 0..n
        BY <3>2
      <4>2. f[m-1] \in T
        BY <1>5, <4>1
      <4> QED
        BY <1>1, <1>5, <3>2, <4>1, <4>2, Zenon
    <3> QED
      BY <3>1, <3>2
  <2>2. DOMAIN f = 0..n /\ f = [m \in DOMAIN f |-> f[m]]
    BY <1>5
  <2> QED
    BY <2>1, <2>2, Zenon
<1>7. unit = [m \in 0..n |-> IF m = 0 THEN 1 ELSE unit[m-1] * base]
  BY <1>6, Zenon DEF PowerTable
<1> HIDE DEF unit
<1> DEFINE S == {m \in Nat : m <= n => unit[m] \in Nat \ {0}}
<1>8. 0 \in S
  BY <1>7
<1>9. ASSUME NEW m \in Nat, m \in S
      PROVE  m + 1 \in S
  <2>1. SUFFICES ASSUME m + 1 <= n PROVE unit[m + 1] \in Nat \ {0}
    OBVIOUS
  <2>2. unit[m] \in Nat \ {0} /\ m + 1 \in 0..n /\ m + 1 # 0 /\ (m + 1) - 1 = m
    BY <1>9, <2>1
  <2>3. unit[m + 1] = unit[m] * base
    BY <1>7, <2>2
  <2> QED
    BY <2>2, <2>3
<1> HIDE DEF S
<1>10. n \in S
  BY <1>8, <1>9, SetInduction, Zenon
<1>11. unit[n] \in Nat \ {0}
  BY <1>10 DEF S
<1>12. power(base, n) = unit[n]
  BY Zenon DEF power, PowerTable, unit
<1> QED
  BY <1>11, <1>12

(* The table of the smoothed averages up to change i.                       *)
SmoothTable(changes, period, i) ==
  CHOOSE avg : avg = [n \in period..i |->
    IF n = period THEN sum_to(changes, period)
    ELSE avg[n-1] * (period - 1) + changes[n] * power(period, n - period)]

(* What change n, weighed, makes of the average before it.                  *)
Smooth(changes, period, n, x) ==
  x * (period - 1) + changes[n] * power(period, n - period)

LEMMA SmoothType ==
  ASSUME NEW changes \in Seq(Nat), NEW period \in Nat \ {0},
         NEW n \in 1..Len(changes), period <= n, NEW x \in Nat
  PROVE  Smooth(changes, period, n, x) \in Nat
<1>1. n - period \in Nat /\ changes[n] \in Nat /\ period - 1 \in Nat
  OBVIOUS
<1>2. power(period, n - period) \in Nat
  BY <1>1, PowerPositive
<1>3. /\ x * (period - 1) \in Nat
      /\ changes[n] * power(period, n - period) \in Nat
  BY <1>1, <1>2
<1> QED
  BY <1>3 DEF Smooth

LEMMA SumOfNats ==
  ASSUME NEW changes \in Seq(Nat), NEW n \in 0..Len(changes)
  PROVE  sum_to(changes, n) \in Nat
<1>1. SubSeq(changes, 1, n) \in Seq(Nat)
  OBVIOUS
<1>2. 0 \in Nat /\ \A x \in Nat, e \in Nat : x + e \in Nat
  OBVIOUS
<1>3. Total(SubSeq(changes, 1, n)) \in Nat
  BY <1>1, <1>2, Adding!FoldType, Zenon
     DEF Total, FoldLeft, Adding!FoldLeft, MapThenFoldSet, Adding!MapThenFoldSet,
         Max, Adding!Max
<1> QED
  BY <1>3, Zenon DEF sum_to, Total

LEMMA SmoothTableIs ==
  ASSUME NEW changes \in Seq(Nat), NEW period \in Nat \ {0},
         NEW i \in 1..Len(changes), period <= i
  PROVE  LET avg == SmoothTable(changes, period, i) IN
         /\ avg[period] = sum_to(changes, period)
         /\ \A n \in (period + 1)..i : avg[n] = Smooth(changes, period, n, avg[n-1])
         /\ avg \in [period..i -> Nat]
<1> DEFINE N == i - period
           first == sum_to(changes, period)
           G == [p \in (1..N) \X Nat |-> Smooth(changes, period, period + p[1], p[2])]
           avg == SmoothTable(changes, period, i)
<1>1. N \in Nat /\ period \in 0..Len(changes)
  OBVIOUS
<1>2. first \in Nat
  BY <1>1, SumOfNats, Zenon
<1>3. \A n \in 1..N : \A x \in Nat :
        G[<<n, x>>] = Smooth(changes, period, period + n, x) /\ G[<<n, x>>] \in Nat
  <2>1. \A n \in 1..N : period + n \in 1..Len(changes) /\ period <= period + n
    OBVIOUS
  <2> QED
    BY <2>1, SmoothType
<1> HIDE DEF G, first, N
<1>4. Maps(G, N, Nat)
  BY <1>3, Zenon DEF Maps
<1>5. PICK f : Recursive(f, Nat, first, N, G)
  BY <1>1, <1>2, <1>4, RecursionExists, Zenon
<1>6. f \in [0..N -> Nat] /\ f[0] = first /\ \A n \in 1..N : f[n] = G[<<n, f[n-1]>>]
  BY <1>5, Zenon DEF Recursive
<1> DEFINE e == [n \in period..i |-> f[n - period]]
<1>7. e = [n \in period..i |->
             IF n = period THEN first ELSE Smooth(changes, period, n, e[n-1])]
  <2>1. ASSUME NEW n \in period..i
        PROVE  e[n] = IF n = period THEN first ELSE Smooth(changes, period, n, e[n-1])
    <3>1. CASE n = period
      <4>1. e[n] = f[0]
        BY <3>1
      <4> QED
        BY <1>6, <3>1, <4>1, Zenon
    <3>2. CASE n # period
      <4>1. /\ n - period \in 1..N /\ (n - period) - 1 \in 0..N
            /\ e[n] = f[n - period] /\ e[n-1] = f[(n - period) - 1]
            /\ period + (n - period) = n
        BY <1>1, <3>2 DEF N
      <4>2. f[(n - period) - 1] \in Nat
        BY <1>6, <4>1
      <4>3. f[n - period] = G[<<n - period, f[(n - period) - 1]>>]
        BY <1>6, <4>1
      <4>4. G[<<n - period, f[(n - period) - 1]>>]
              = Smooth(changes, period, period + (n - period), f[(n - period) - 1])
        BY <1>3, <4>1, <4>2, Zenon
      <4> HIDE DEF e
      <4>5. e[n] = Smooth(changes, period, n, e[n-1])
        BY <4>1, <4>3, <4>4
      <4> QED
        BY <3>2, <4>5
    <3> QED
      BY <3>1, <3>2
  <2>2. DOMAIN e = period..i /\ e = [n \in DOMAIN e |-> e[n]]
    OBVIOUS
  <2> HIDE DEF e
  <2> QED
    BY <2>1, <2>2, Zenon
<1> HIDE DEF e
<1>8. avg = [n \in period..i |->
               IF n = period THEN first ELSE Smooth(changes, period, n, avg[n-1])]
  BY <1>7, Zenon DEF SmoothTable, Smooth, first
<1> HIDE DEF avg
<1>9. /\ avg[period] = first
      /\ \A n \in (period + 1)..i : avg[n] = Smooth(changes, period, n, avg[n-1])
  <2>1. period \in period..i
    OBVIOUS
  <2>2. \A n \in (period + 1)..i : n \in period..i /\ n # period
    OBVIOUS
  <2> QED
    BY <1>8, <2>1, <2>2, Zenon
<1>10. \A n \in period..i : avg[n] \in Nat
  <2> DEFINE S == {k \in Nat : period + k <= i => avg[period + k] \in Nat}
  <2>1. 0 \in S
    BY <1>2, <1>9
  <2>2. ASSUME NEW k \in Nat, k \in S
        PROVE  k + 1 \in S
    <3>1. SUFFICES ASSUME period + (k + 1) <= i PROVE avg[period + (k + 1)] \in Nat
      OBVIOUS
    <3>2. /\ avg[period + k] \in Nat /\ (period + (k + 1)) - 1 = period + k
          /\ period + (k + 1) \in (period + 1)..i
          /\ period + (k + 1) \in 1..Len(changes) /\ period <= period + (k + 1)
      BY <2>2, <3>1
    <3>3. Smooth(changes, period, period + (k + 1), avg[period + k]) \in Nat
      BY <3>2, SmoothType, Zenon
    <3>4. avg[period + (k + 1)] = Smooth(changes, period, period + (k + 1), avg[period + k])
      BY <1>9, <3>2
    <3> QED
      BY <3>3, <3>4
  <2> HIDE DEF S
  <2>3. Nat \subseteq S
    BY <2>1, <2>2, SetInduction, Zenon
  <2> TAKE n \in period..i
  <2>4. n - period \in Nat /\ period + (n - period) = n /\ n <= i
    OBVIOUS
  <2> QED
    BY <2>3, <2>4 DEF S
<1>11. avg \in [period..i -> Nat]
  BY <1>8, <1>10, Zenon
<1> QED
  BY <1>9, <1>11, Zenon DEF avg, first

(* The smoothed average of one change more.                                 *)
LEMMA SmoothedIs ==
  ASSUME NEW changes \in Seq(Nat), NEW period \in Nat \ {0},
         NEW i \in 1..Len(changes), period <= i
  PROVE  /\ smoothed(changes, period, i) \in Nat
         /\ i = period => smoothed(changes, period, i) = sum_to(changes, period)
         /\ i > period => smoothed(changes, period, i) =
              Smooth(changes, period, i, smoothed(changes, period, i - 1))
<1> DEFINE avg == SmoothTable(changes, period, i)
<1>1. /\ avg[period] = sum_to(changes, period)
      /\ \A n \in (period + 1)..i : avg[n] = Smooth(changes, period, n, avg[n-1])
      /\ avg \in [period..i -> Nat]
  BY SmoothTableIs
<1>2. smoothed(changes, period, i) = avg[i]
  BY Zenon DEF smoothed, SmoothTable
<1> HIDE DEF avg
<1>3. avg[i] \in Nat /\ (i = period => avg[i] = sum_to(changes, period))
  BY <1>1
<1>4. ASSUME i > period
      PROVE  avg[i] = Smooth(changes, period, i, smoothed(changes, period, i - 1))
  <2> DEFINE j == i - 1
             short == SmoothTable(changes, period, j)
  <2>1. j \in 1..Len(changes) /\ period <= j /\ i = j + 1
    BY <1>4
  <2> HIDE DEF j
  <2>2. /\ short[period] = sum_to(changes, period)
        /\ \A n \in (period + 1)..j : short[n] = Smooth(changes, period, n, short[n-1])
    BY <2>1, SmoothTableIs, Zenon
  <2>3. smoothed(changes, period, j) = short[j]
    BY Zenon DEF smoothed, SmoothTable
  <2> HIDE DEF short
  <2> DEFINE S == {k \in Nat : period + k <= j => short[period + k] = avg[period + k]}
  <2>4. 0 \in S
    BY <1>1, <2>2
  <2>5. ASSUME NEW k \in Nat, k \in S
        PROVE  k + 1 \in S
    <3>1. SUFFICES ASSUME period + (k + 1) <= j
                   PROVE  short[period + (k + 1)] = avg[period + (k + 1)]
      OBVIOUS
    <3>2. /\ short[period + k] = avg[period + k] /\ (period + (k + 1)) - 1 = period + k
          /\ period + (k + 1) \in (period + 1)..j /\ period + (k + 1) \in (period + 1)..i
      BY <2>1, <2>5, <3>1
    <3> QED
      BY <1>1, <2>2, <3>2
  <2> HIDE DEF S
  <2>6. j - period \in S /\ period + (j - period) = j /\ j - period \in Nat
    <3>1. j - period \in Nat
      BY <2>1
    <3>2. j - period \in S
      BY <2>4, <2>5, <3>1, SetInduction, Zenon
    <3> QED
      BY <2>1, <3>1, <3>2
  <2>7. short[j] = avg[j]
    BY <2>1, <2>6 DEF S
  <2>8. avg[i] = Smooth(changes, period, i, avg[j])
    BY <1>1, <1>4 DEF j
  <2> QED
    BY <2>3, <2>7, <2>8 DEF j
<1> QED
  BY <1>2, <1>3, <1>4
-----------------------------------------------------------------------------
(* The share of the gains, in hundredths of a percent.                      *)
Share(gain, loss) == (10000 * gain) \div (gain + loss)

(* A larger share gives a larger percentage.                                *)
LEMMA ShareGrows ==
  ASSUME NEW a \in Nat, NEW b \in Nat, NEW c \in Nat, NEW d \in Nat,
         a + b > 0, c + d > 0, a * d <= c * b
  PROVE  Share(a, b) <= Share(c, d)
<1> DEFINE s == a + b
           t == c + d
           n == 10000 * a
           o == 10000 * c
           q == n \div s
<1>1. /\ s \in Nat \ {0} /\ t \in Nat \ {0} /\ 10000 * a \in Int /\ 10000 * c \in Int
      /\ a * t = a * c + a * d /\ c * s = c * a + c * b
      /\ a * c = c * a /\ a * c \in Nat /\ a * d \in Nat /\ c * b \in Nat
  OBVIOUS
<1>2. a * t <= c * s /\ a * t \in Nat /\ c * s \in Nat
  BY <1>1
<1> HIDE DEF s, t
<1>3. q \in Nat /\ q * s <= 10000 * a
  <2>1. n \in Nat /\ n \in Int
    OBVIOUS
  <2> HIDE DEF n
  <2>2. q \in Nat /\ q * s <= n
    BY <1>1, <2>1, DivNat, DivMult
  <2> QED
    BY <2>2 DEF n
<1> HIDE DEF q
<1>4. q * t <= 10000 * c
  <2> DEFINE u == q * t
             v == 10000 * c
  <2>1. u \in Nat /\ v \in Nat
    BY <1>1, <1>3
  <2>2. u * s <= v * s
    <3>1. u * s = (q * s) * t
      BY <1>1, <1>3
    <3>2. (q * s) * t <= (10000 * a) * t
      <4>1. q * s \in Nat /\ 10000 * a \in Nat
        BY <1>1, <1>3
      <4> QED
        BY <1>1, <1>3, <4>1
    <3>3. (10000 * a) * t = 10000 * (a * t) /\ v * s = 10000 * (c * s)
      BY <1>1
    <3>4. 10000 * (a * t) <= 10000 * (c * s)
      BY <1>2
    <3>5. u * s \in Nat /\ (10000 * a) * t \in Nat /\ v * s \in Nat
      BY <1>1, <1>2, <2>1, <3>3
    <3> QED
      BY <3>1, <3>2, <3>3, <3>4, <3>5
  <2> HIDE DEF u, v
  <2>3. ASSUME u > v PROVE FALSE
    <3>1. u * s >= (v + 1) * s
      BY <1>1, <2>1, <2>3
    <3>2. (v + 1) * s = v * s + s /\ v * s \in Nat /\ u * s \in Nat
      BY <1>1, <2>1
    <3> QED
      BY <1>1, <2>2, <3>1, <3>2
  <2> QED
    BY <2>1, <2>3 DEF u, v
<1>5. q <= o \div t
  <2>1. q \in Int /\ o \in Int /\ q * t <= o /\ t \in Nat \ {0}
    BY <1>1, <1>3, <1>4
  <2> HIDE DEF o
  <2> QED
    BY <2>1, DivGreatest
<1> QED
  BY <1>5 DEF q, s, t, n, o, Share

(* An average of gains of at most 100 times the losses is at most 9900.     *)
LEMMA ShareBelow ==
  ASSUME NEW a \in Nat, NEW b \in Nat \ {0}, a <= 100 * b
  PROVE  Share(a, b) <= 9900
<1> DEFINE n == 10000 * a
           s == a + b
           q == n \div s
<1>1. s \in Nat \ {0} /\ n \in Nat /\ n \in Int
  OBVIOUS
<1>2. q \in Nat /\ q * s <= n
  <2> HIDE DEF n, s
  <2> QED
    BY <1>1, DivNat, DivMult
<1> HIDE DEF q
<1>3. ASSUME q >= 9901 PROVE FALSE
  <2>1. q * (a + b) >= 9901 * (a + b)
    BY <1>1, <1>2, <1>3
  <2>2. q * (a + b) \in Nat
    BY <1>1, <1>2
  <2>3. 9901 * (a + b) <= 10000 * a
    BY <1>2, <2>1, <2>2
  <2> QED
    BY <2>3
<1> QED
  BY <1>2, <1>3 DEF q, Share

(* What one change makes of the RSI: gain and loss are the averages before  *)
(* it, of which the shortest period remembers one change alone.             *)
LEMMA RsiStep ==
  ASSUME NEW G \in Nat, NEW L \in Nat, NEW g \in Nat, NEW l \in Nat,
         NEW w \in Nat \ {0}, NEW m \in Nat, m = 0 => G = 0 \/ L = 0
  PROVE  LET H == G * m + g * w
             M == L * m + l * w
         IN  /\ l = 0 => rsi_of(H, M) >= rsi_of(G, L)
             /\ (l > 0 /\ g = 0 /\ H <= 100 * M) => rsi_of(H, M) <= rsi_of(G, L)
<1> DEFINE x == G * m
           y == L * m
           u == g * w
           v == l * w
           H == x + u
           M == y + v
<1>1. x \in Nat /\ y \in Nat /\ u \in Nat /\ v \in Nat
  OBVIOUS
<1>2. /\ l = 0 => v = 0
      /\ g = 0 => u = 0
      /\ l > 0 => v > 0
      /\ L = 0 => y = 0
      /\ m = 0 => x = 0 /\ y = 0
      /\ L > 0 /\ m > 0 => y > 0
  OBVIOUS
<1>3. x * L = G * y /\ G * y \in Nat
  OBVIOUS
<1>4. /\ G * M = G * y + G * v /\ H * L = x * L + u * L
      /\ G * v \in Nat /\ u * L \in Nat
  OBVIOUS
<1>5. H \in Nat /\ M \in Nat
  BY <1>1
<1> HIDE DEF x, y, u, v
<1>6. ASSUME l = 0 PROVE rsi_of(H, M) >= rsi_of(G, L)
  <2>1. v = 0 /\ M = y
    BY <1>1, <1>2, <1>6
  <2>2. CASE L = 0
    <3>1. M = 0
      BY <1>2, <2>1, <2>2
    <3> HIDE DEF H, M
    <3> QED
      BY <2>2, <3>1 DEF rsi_of
  <2>3. CASE L > 0 /\ m = 0
    <3>1. G = 0 /\ M = 0
      BY <1>2, <2>1, <2>3
    <3>2. rsi_of(G, L) = (10000 * 0) \div (0 + L)
      BY <2>3, <3>1 DEF rsi_of
    <3>3. (10000 * 0) \div (0 + L) = 0
      BY <2>3
    <3>4. rsi_of(H, M) = 9900
      BY <3>1 DEF rsi_of
    <3> QED
      BY <3>2, <3>3, <3>4
  <2>4. CASE L > 0 /\ m > 0
    <3>1. M > 0 /\ H + M > 0 /\ G + L > 0
      BY <1>1, <1>2, <1>5, <2>1, <2>4
    <3>2. G * M <= H * L
      BY <1>3, <1>4, <2>1
    <3> HIDE DEF H, M
    <3>3. Share(G, L) <= Share(H, M)
      BY <1>5, <3>1, <3>2, ShareGrows, Zenon
    <3>4. /\ rsi_of(G, L) = Share(G, L)
          /\ rsi_of(H, M) = Share(H, M)
      BY <2>4, <3>1 DEF rsi_of, Share
    <3> QED
      BY <3>3, <3>4
  <2> QED
    BY <2>2, <2>3, <2>4
<1>7. ASSUME l > 0, g = 0, H <= 100 * M PROVE rsi_of(H, M) <= rsi_of(G, L)
  <2>1. u = 0 /\ v > 0 /\ M > 0 /\ H = x
    BY <1>1, <1>2, <1>7
  <2>2. M \in Nat \ {0}
    BY <1>5, <2>1
  <2>3. CASE L = 0
    <3> HIDE DEF H, M
    <3>1. Share(H, M) <= 9900
      BY <1>5, <1>7, <2>2, ShareBelow
    <3>2. rsi_of(G, L) = 9900 /\ rsi_of(H, M) = Share(H, M)
      BY <2>1, <2>3 DEF rsi_of, Share
    <3> QED
      BY <3>1, <3>2
  <2>4. CASE L > 0
    <3>1. H + M > 0 /\ G + L > 0
      BY <1>5, <2>1, <2>4
    <3>2. H * L <= G * M
      BY <1>3, <1>4, <2>1
    <3> HIDE DEF H, M
    <3>3. Share(H, M) <= Share(G, L)
      BY <1>5, <3>1, <3>2, ShareGrows, Zenon
    <3>4. /\ rsi_of(G, L) = Share(G, L)
          /\ rsi_of(H, M) = Share(H, M)
      BY <2>1, <2>4 DEF rsi_of, Share
    <3> QED
      BY <3>3, <3>4
  <2> QED
    BY <2>3, <2>4
<1> QED
  BY <1>6, <1>7 DEF x, y, u, v

(* With the shortest period an average is that of the last change.          *)
LEMMA LastChangeAlone ==
  ASSUME NEW changes \in Seq(Nat), NEW i \in 1..Len(changes), changes[i] = 0
  PROVE  smoothed(changes, 1, i) = 0
<1>1. 1 \in Nat \ {0} /\ 1 <= i /\ (i = 1 \/ i > 1)
  OBVIOUS
<1>2. CASE i = 1
  <2>1. smoothed(changes, 1, i) = sum_to(changes, 1)
    BY <1>1, <1>2, SmoothedIs, Zenon
  <2>3. <<>> \in Seq(Int) /\ changes[1] \in Int
    OBVIOUS
  <2>2. SubSeq(changes, 1, 1) = Append(<<>>, changes[1])
    <3>1. ASSUME NEW k \in 0..(Len(changes) - 1)
          PROVE  SubSeq(changes, 1, k + 1) = Append(SubSeq(changes, 1, k), changes[k + 1])
      OBVIOUS
    <3>2. 0 \in 0..(Len(changes) - 1) /\ 0 + 1 = 1 /\ SubSeq(changes, 1, 0) = <<>>
      OBVIOUS
    <3> QED
      BY <3>1, <3>2
  <2>4. Total(SubSeq(changes, 1, 1)) = Total(<<>>) + changes[1]
    BY <2>2, <2>3, TotalAppend, Zenon
  <2>5. sum_to(changes, 1) = Total(SubSeq(changes, 1, 1))
    BY Zenon DEF sum_to, Total
  <2> QED
    BY <1>2, <2>1, <2>4, <2>5, TotalEmpty
<1>3. CASE i > 1
  <2>1. smoothed(changes, 1, i) = Smooth(changes, 1, i, smoothed(changes, 1, i - 1))
    BY <1>1, <1>3, SmoothedIs, Zenon
  <2>2. i - 1 \in 1..Len(changes) /\ 1 <= i - 1 /\ i - 1 \in Nat
    BY <1>3
  <2>3. smoothed(changes, 1, i - 1) \in Nat
    BY <1>1, <2>2, SmoothedIs, Zenon
  <2>4. power(1, i - 1) \in Nat
    BY <1>1, <2>2, PowerPositive
  <2>5. Smooth(changes, 1, i, smoothed(changes, 1, i - 1)) = 0
    BY <2>3, <2>4 DEF Smooth
  <2> QED
    BY <2>1, <2>5
<1> QED
  BY <1>1, <1>2, <1>3


(* A change is a gain or a loss, never both.                                *)
LEMMA ChangesAre ==
  ASSUME NEW prices \in Seq(Int), Len(prices) > 0
  PROVE  /\ gains(prices) \in Seq(Nat) /\ Len(gains(prices)) = Len(prices) - 1
         /\ losses(prices) \in Seq(Nat) /\ Len(losses(prices)) = Len(prices) - 1
         /\ \A i \in 1..(Len(prices) - 1) :
              /\ prices[i+1] >= prices[i] => losses(prices)[i] = 0
              /\ prices[i+1] < prices[i] => losses(prices)[i] > 0 /\ gains(prices)[i] = 0
              /\ gains(prices)[i] = 0 \/ losses(prices)[i] = 0
<1> DEFINE n == Len(prices) - 1
           gain(i) == IF prices[i+1] > prices[i] THEN prices[i+1] - prices[i] ELSE 0
           loss(i) == IF prices[i+1] < prices[i] THEN prices[i] - prices[i+1] ELSE 0
<1>1. n \in Nat
  OBVIOUS
<1>2. \A i \in 1..n : prices[i] \in Int /\ prices[i+1] \in Int
  OBVIOUS
<1>3. \A i \in 1..n : gain(i) \in Nat /\ loss(i) \in Nat
  BY <1>2
<1>4. /\ gains(prices) = [i \in 1..n |-> gain(i)]
      /\ losses(prices) = [i \in 1..n |-> loss(i)]
  BY DEF gains, losses
<1>5. /\ gains(prices) \in [1..n -> Nat]
      /\ losses(prices) \in [1..n -> Nat]
  BY <1>3, <1>4
<1>6. /\ gains(prices) \in Seq(Nat) /\ Len(gains(prices)) = n
      /\ losses(prices) \in Seq(Nat) /\ Len(losses(prices)) = n
  BY <1>1, <1>5
<1>7. ASSUME NEW i \in 1..n
      PROVE  /\ prices[i+1] >= prices[i] => losses(prices)[i] = 0
             /\ prices[i+1] < prices[i] => losses(prices)[i] > 0 /\ gains(prices)[i] = 0
             /\ gains(prices)[i] = 0 \/ losses(prices)[i] = 0
  BY <1>2, <1>4
<1> QED
  BY <1>6, <1>7

(* One bar more moves the RSI the way the close went.                       *)
LEMMA RsiFollows ==
  ASSUME NEW prices \in Seq(Int), NEW period \in Nat \ {0}, Len(prices) > period
  PROVE  FollowsClose(prices, period)
<1> DEFINE g == gains(prices)
           l == losses(prices)
           rsi == calculate_rsi(prices, period)
           n == Len(prices) - period
           gain(k) == smoothed(g, period, k + period - 1)
           loss(k) == smoothed(l, period, k + period - 1)
<1>1. /\ g \in Seq(Nat) /\ Len(g) = Len(prices) - 1
      /\ l \in Seq(Nat) /\ Len(l) = Len(prices) - 1
      /\ \A i \in 1..(Len(prices) - 1) :
           /\ prices[i+1] >= prices[i] => l[i] = 0
           /\ prices[i+1] < prices[i] => l[i] > 0 /\ g[i] = 0
           /\ g[i] = 0 \/ l[i] = 0
  <2>1. Len(prices) > 0
    OBVIOUS
  <2> QED
    BY <2>1, ChangesAre, Zenon
<1>2. n \in Nat /\ validate_params(prices, period + 1)
  BY DEF validate_params
<1>3. rsi = [k \in 1..n |-> rsi_of(gain(k), loss(k))]
  BY <1>2, Zenon DEF calculate_rsi
<1> HIDE DEF g, l, rsi
<1>4. Len(rsi) = n /\ \A k \in 1..n : rsi[k] = rsi_of(gain(k), loss(k))
  BY <1>2, <1>3
<1>5. ASSUME NEW k \in 2..n
      PROVE  /\ prices[k + period] >= prices[k + period - 1] => rsi[k] >= rsi[k - 1]
             /\ (prices[k + period] < prices[k + period - 1] /\ gain(k) <= 100 * loss(k))
                  => rsi[k] <= rsi[k - 1]
  <2> DEFINE i == k + period - 1
             j == (k - 1) + period - 1
             w == power(period, i - period)
             m == period - 1
             G == smoothed(g, period, j)
             L == smoothed(l, period, j)
  <2>1. /\ i \in 1..(Len(prices) - 1) /\ j \in 1..(Len(prices) - 1) /\ j = i - 1
        /\ period <= i /\ period <= j /\ i > period /\ i - period \in Nat /\ m \in Nat
        /\ i + 1 = k + period /\ k \in 1..n /\ k - 1 \in 1..n
    BY <1>2
  <2>2. gain(k) = smoothed(g, period, i) /\ loss(k) = smoothed(l, period, i)
        /\ gain(k - 1) = G /\ loss(k - 1) = L
    BY Zenon
  <2>3. rsi[k] = rsi_of(gain(k), loss(k)) /\ rsi[k - 1] = rsi_of(G, L)
    BY <1>4, <2>1, <2>2, Zenon
  <2> HIDE DEF gain, loss
  <2> HIDE DEF i, j
  <2>4. G \in Nat /\ L \in Nat
    BY <1>1, <2>1, SmoothedIs, Zenon
  <2>5. /\ gain(k) = G * m + g[i] * w
        /\ loss(k) = L * m + l[i] * w
    <3>1. /\ smoothed(g, period, i) = Smooth(g, period, i, smoothed(g, period, i - 1))
          /\ smoothed(l, period, i) = Smooth(l, period, i, smoothed(l, period, i - 1))
      BY <1>1, <2>1, SmoothedIs, Zenon
    <3> QED
      BY <2>1, <2>2, <3>1, Zenon DEF Smooth
  <2>6. w \in Nat \ {0}
    BY <2>1, PowerPositive, Zenon
  <2>7. g[i] \in Nat /\ l[i] \in Nat
    <3>1. i \in 1..Len(g) /\ i \in 1..Len(l)
      BY <1>1, <2>1, Zenon
    <3> QED
      BY <1>1, <3>1, ElementOfSeq, Zenon
  <2>8. ASSUME m = 0
        PROVE  G = 0 \/ L = 0
    <3>1. period = 1
      BY <2>8
    <3>2. g[j] = 0 \/ l[j] = 0
      BY <1>1, <2>1, Zenon
    <3>3. j \in 1..Len(g) /\ j \in 1..Len(l)
      BY <1>1, <2>1
    <3> QED
      BY <1>1, <3>1, <3>2, <3>3, LastChangeAlone, Zenon
  <2> HIDE DEF G, L, w, m
  <2>9. /\ l[i] = 0 => rsi_of(gain(k), loss(k)) >= rsi_of(G, L)
        /\ (l[i] > 0 /\ g[i] = 0 /\ gain(k) <= 100 * loss(k))
             => rsi_of(gain(k), loss(k)) <= rsi_of(G, L)
    <3> DEFINE H == G * m + g[i] * w
               M == L * m + l[i] * w
    <3>1. m \in Nat
      BY <2>1
    <3>2. /\ l[i] = 0 => rsi_of(H, M) >= rsi_of(G, L)
          /\ (l[i] > 0 /\ g[i] = 0 /\ H <= 100 * M) => rsi_of(H, M) <= rsi_of(G, L)
      BY <2>4, <2>6, <2>7, <2>8, <3>1, RsiStep
    <3> QED
      BY <2>5, <3>2
  <2>10. /\ prices[i+1] >= prices[i] => l[i] = 0
         /\ prices[i+1] < prices[i] => l[i] > 0 /\ g[i] = 0
    BY <1>1, <2>1
  <2>11. prices[k + period] = prices[i + 1] /\ prices[k + period - 1] = prices[i]
    BY <2>1 DEF i
  <2> QED
    BY <2>3, <2>9, <2>10, <2>11
<1> QED
  BY <1>4, <1>5 DEF FollowsClose, g, l, rsi

(* RsiFollowsTheClose, for every length of run: the closes of a run are a   *)
(* sequence of integers and RsiFollows is about all of those.               *)
THEOREM RsiDoesFollow == Spec => []RsiFollowsTheClose
<1>1. TypeOK => RsiFollowsTheClose
  <2> SUFFICES ASSUME TypeOK, NEW period \in 1..2, Len(data) > period
               PROVE  FollowsClose(data, period)
    BY Zenon DEF RsiFollowsTheClose
  <2>1. data \in Seq(Int)
    <3>1. data \in Seq(Prices) /\ Prices \subseteq Int
      BY DEF TypeOK
    <3> QED
      BY <3>1, SeqMonotonic, Zenon
  <2>2. period \in Nat \ {0}
    OBVIOUS
  <2> QED
    BY <2>1, <2>2, RsiFollows, Zenon
<1> QED
  BY <1>1, TypeCorrect, PTL
=============================================================================
