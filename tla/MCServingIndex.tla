--------------------------- MODULE MCServingIndex ---------------------------
(* ServingIndex on small instances: chunks and provenances are alike. *)
EXTENDS ServingIndex, TLC

Alike == Permutations(Chunks) \cup Permutations(Provenances)

=============================================================================
