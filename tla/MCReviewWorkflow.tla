-------------------------- MODULE MCReviewWorkflow --------------------------
(* ReviewWorkflow on small instances: callers are alike, and so are items. *)
EXTENDS ReviewWorkflow, TLC

Alike == Permutations(Callers) \cup Permutations(Items)

=============================================================================
