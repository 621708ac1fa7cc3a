----------------------------- MODULE MCModelReview -----------------------------
(* Instance of ModelReview for TLC: outcomes of two executions, and one    *)
(* without a label that repeats the first.                                 *)
EXTENDS ModelReview

MCRequests == {"first", "second", "unlabelled"}

MCContent == [r \in MCRequests |->
  [id    |-> IF r = "second" THEN "out_b" ELSE "out_a",
   case  |-> IF r = "second" THEN "b" ELSE "a",
   label |-> IF r = "unlabelled" THEN "unknown" ELSE "severe",
   valid |-> TRUE]]
================================================================================
