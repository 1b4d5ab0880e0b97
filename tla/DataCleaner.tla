---------------------------- MODULE DataCleaner ----------------------------
(* cpp/src/cleaners/data_cleaner.cpp: a list of rules, two of which         *)
(* remember.  The memory is [last_close, volume_history].                   *)
EXTENDS MarketTypes, SequencesExt

CONSTANTS JumpPercent,      \* threshold of PriceJumpRule, in percent
          VolumeThreshold,  \* threshold of VolumeAnomalyRule, a multiple
          MinVolumes,       \* volumes it wants before it judges (10)
          HISTORY_SIZE      \* volumes it remembers (100)

ASSUME CleanerAssumption ==
  /\ JumpPercent \in Nat /\ VolumeThreshold \in Nat
  /\ HISTORY_SIZE \in Nat \ {0} /\ MinVolumes \in 0..HISTORY_SIZE

NoMemory == [last_close |-> 0, volume_history |-> <<>>]

abs_diff(a, b) == IF a < b THEN b - a ELSE a - b

detect_price_jump(current, previous) ==
  previous > 0 /\ abs_diff(current, previous) * 100 > JumpPercent * previous

sum_of(volumes) == FoldLeft(+, 0, volumes)

(* volume against the average of the volumes, which it is one of.           *)
detect_volume_anomaly(volume, volumes) ==
  /\ sum_of(volumes) > 0
  /\ volume * Len(volumes) > sum_of(volumes) * VolumeThreshold

(* Mutant: a bar that stands out is marked with the wrong quality.          *)
suspicious_if_bad(test, bar) ==
  IF test THEN [bar EXCEPT !.quality = "BAD"] ELSE bar

suspicious_if(test, bar) ==
  IF test THEN [bar EXCEPT !.quality = "SUSPICIOUS"] ELSE bar

remembered(volumes, volume) ==
  LET v == Append(volumes, volume)
  IN  IF Len(v) > HISTORY_SIZE THEN Tail(v) ELSE v

(* apply() of each rule: what becomes of the bar and of the memory, and     *)
(* whether the bar is kept.  The two rules that remember keep every bar.    *)
apply(rule, memory, bar) ==
  CASE rule = "PriceValidityRule" ->
         [keep |-> bar.open > 0 /\ bar.high > 0 /\ bar.low > 0 /\ bar.close > 0,
          bar |-> bar, memory |-> memory]
    [] rule = "OHLCRelationRule" ->
         [keep |-> ~ \/ bar.high < bar.low
                     \/ bar.high < bar.open \/ bar.high < bar.close
                     \/ bar.low > bar.open \/ bar.low > bar.close,
          bar |-> bar, memory |-> memory]
    [] rule = "PriceJumpRule" ->
         [keep |-> TRUE,
          bar |-> suspicious_if(detect_price_jump(bar.close, memory.last_close), bar),
          memory |-> [memory EXCEPT !.last_close = bar.close]]
    [] rule = "VolumeAnomalyRule" ->
         LET volumes == remembered(memory.volume_history, bar.volume)
         IN  [keep |-> TRUE,
              bar |-> suspicious_if(/\ Len(volumes) >= MinVolumes
                                    /\ detect_volume_anomaly(bar.volume, volumes),
                                    bar),
              memory |-> [memory EXCEPT !.volume_history = volumes]]

(* The rules of the test program: the two of the constructor, then the two  *)
(* it adds.                                                                 *)
Rules == <<"PriceValidityRule", "OHLCRelationRule", "PriceJumpRule",
           "VolumeAnomalyRule">>

(* F(x); the sets make TLC evaluate x once.                                 *)
once(x, F(_)) == CHOOSE y \in {F(v) : v \in {x}} : TRUE

(* Mutant: every rule is applied, also to a bar an earlier one rejected.    *)
clean_ohlcv_all(memory, bar) ==
  LET after[n \in 0..Len(Rules)] ==
        IF n = 0 THEN [keep |-> TRUE, bar |-> bar, memory |-> memory]
        ELSE once(after[n-1], LAMBDA done :
               [apply(Rules[n], done.memory, done.bar) EXCEPT !.keep = @ /\ done.keep])
  IN  after[Len(Rules)]

(* The first rule that rejects a bar is the last that sees it.              *)
clean_ohlcv(memory, bar) ==
  LET after[n \in 0..Len(Rules)] ==
        IF n = 0 THEN [keep |-> TRUE, bar |-> bar, memory |-> memory]
        ELSE once(after[n-1], LAMBDA done :
               IF done.keep THEN apply(Rules[n], done.memory, done.bar) ELSE done)
  IN  after[Len(Rules)]

keep_cleaned(kept, done) ==
  [memory |-> done.memory, kept |-> IF done.keep THEN Append(kept, done.bar) ELSE kept]

(* Each bar meets the memory the bars before it left.                       *)
clean_next(before, bar) ==
  once(before, LAMBDA b : once(clean_ohlcv(b.memory, bar),
                               LAMBDA done : keep_cleaned(b.kept, done)))

clean_ohlcv_batch(bars) ==
  FoldLeft(clean_next, [memory |-> NoMemory, kept |-> <<>>], bars).kept

(* A bar is a duplicate when its time and symbol have been seen.            *)
seen_in(unique, bar) ==
  \E i \in DOMAIN unique : /\ unique[i].timestamp = bar.timestamp
                           /\ unique[i].symbol = bar.symbol

insert_unseen(unique, bar) ==
  once(unique, LAMBDA u : IF seen_in(u, bar) THEN u ELSE Append(u, bar))

deduplicate(bars) == FoldLeft(insert_unseen, <<>>, bars)

(* clean_orderbook: TRUE for GOOD, FALSE for BAD.                           *)
clean_orderbook(book) ==
  book.timestamp > 0 /\ book.bids # <<>> /\ book.asks # <<>>
=============================================================================
