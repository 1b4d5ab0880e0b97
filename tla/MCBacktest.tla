----------------------------- MODULE MCBacktest -----------------------------
(* Small instances of the back test for TLC.                                *)
EXTENDS AnalysisProperties

CONSTANT MaxBars   \* bound: length of the data sets

MCDataSets == BoundedSeq(Prices, MaxBars)

(* The same, and longer ones that begin with two closes at the lowest price:*)
(* no signal comes before the third bar.                                    *)
MCFlatStarts ==
  LET lowest == Min(Prices)
  IN  MCDataSets \cup {<<lowest, lowest>> \o closes : closes \in BoundedSeq(Prices, MaxBars + 1)}
=============================================================================
