------------------------------ MODULE MACross ------------------------------
(* What a moving-average crossing strategy promises: the decision at each   *)
(* bar depends on ALL the closes seen so far and on whether a position is   *)
(* held, and on nothing else.  No bounded window, no cached averages, no    *)
(* memory of earlier signals.                                               *)
EXTENDS Integers, Sequences, SequencesExt

CONSTANTS FastPeriod, SlowPeriod, Prices

VARIABLES closes,   \* the closes of the bars decided so far
          long      \* a position is held

vars == <<closes, long>>

(* The average of the last k closes up to and including bar n, times k.     *)
MeanTimes(c, n, k) == FoldLeft(+, 0, SubSeq(c, n - k + 1, n))

(* The sign of fast average minus slow average at bar n.                    *)
Above(c, n) ==
  MeanTimes(c, n, FastPeriod) * SlowPeriod > MeanTimes(c, n, SlowPeriod) * FastPeriod
Below(c, n) ==
  MeanTimes(c, n, FastPeriod) * SlowPeriod < MeanTimes(c, n, SlowPeriod) * FastPeriod

Averaged(n) == n >= FastPeriod /\ n >= SlowPeriod

(* A cross needs both averages at two successive bars.                      *)
CrossesUp(c)   == /\ Averaged(Len(c) - 1)
                  /\ ~Above(c, Len(c) - 1)
                  /\ Above(c, Len(c))
CrossesDown(c) == /\ Averaged(Len(c) - 1)
                  /\ ~Below(c, Len(c) - 1)
                  /\ Below(c, Len(c))

Init == closes = <<>> /\ long = FALSE

Decide(price) ==
  LET c == Append(closes, price)
  IN  /\ closes' = c
      /\ long' = IF long THEN ~CrossesDown(c) ELSE CrossesUp(c)

NewStrategy == closes' = <<>> /\ long' = FALSE

Next == NewStrategy \/ \E price \in Prices : Decide(price)

Spec == Init /\ [][Next]_vars
=============================================================================
