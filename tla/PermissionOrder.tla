-------------------------- MODULE PermissionOrder --------------------------
(* The permission lattice public < internal < restricted that review items,  *)
(* sources and trusted knowledge share (_PERMISSION_RANK, _strictest_many).  *)
EXTENDS Integers

PermissionLevels == {"public", "internal", "restricted"}

(* What automatic approvals may be served at.                                *)
ServingLevels == {"public", "internal"}

Rank == [public |-> 0, internal |-> 1, restricted |-> 2]

Broader(p, q) == Rank[p] < Rank[q]

(* The strictest of a non-empty set of levels.                               *)
Strictest(S) ==
    CHOOSE p \in S : \A q \in S : ~Broader(p, q)

=============================================================================
