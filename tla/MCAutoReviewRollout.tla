------------------------ MODULE MCAutoReviewRollout ------------------------
(* Small instances of AutoReviewRollout for TLC.                             *)
EXTENDS AutoReviewRollout, TLC

ItemSymmetry == Permutations(Items)

SessionSymmetry == Permutations(Items) \cup Permutations(Sessions)

=============================================================================
