----------------------------- MODULE Selection -----------------------------
(* What a loop that appends an element to a vector under a condition leaves *)
(* in it: the elements that pass the test, in their order.                  *)
EXTENDS SequencesExt

chosen(values, keep(_)) ==
  FoldLeft(LAMBDA kept, value : IF keep(value) THEN Append(kept, value) ELSE kept,
           <<>>, values)
=============================================================================
