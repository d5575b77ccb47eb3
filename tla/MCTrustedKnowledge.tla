------------------------ MODULE MCTrustedKnowledge -------------------------
(* Small instances of TrustedKnowledge for TLC.                              *)
EXTENDS TrustedKnowledge, TLC

RowSymmetry ==
    Permutations(Items) \cup Permutations(Sources) \cup Permutations(Versions)

=============================================================================
