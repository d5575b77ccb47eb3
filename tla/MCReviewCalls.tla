--------------------------- MODULE MCReviewCalls ---------------------------
(* ReviewCalls on small instances; threads of one process are alike. *)
EXTENDS ReviewCalls, TLC

WorkerSymmetry == Permutations(Workers)
=============================================================================
