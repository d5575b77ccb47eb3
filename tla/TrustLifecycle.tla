--------------------------- MODULE TrustLifecycle ---------------------------
(***************************************************************************)
(* What the trust promotion promises about one piece of knowledge: it      *)
(* becomes trusted once, its permission only ever narrows, and once        *)
(* withdrawn it never comes back.  TrustedKnowledge implements this.       *)
(***************************************************************************)
EXTENDS PermissionOrder

CONSTANT Knowledge

VARIABLE trust      \* per knowledge: "absent", a permission or "withdrawn"

Trusted(k) == trust[k] \in PermissionLevels

Init == trust = [k \in Knowledge |-> "absent"]

Promote(k, p) ==
    /\ trust[k] = "absent"
    /\ trust' = [trust EXCEPT ![k] = p]

Narrow(k, p) ==
    /\ Trusted(k)
    /\ Broader(trust[k], p)
    /\ trust' = [trust EXCEPT ![k] = p]

Withdraw(k) ==
    /\ Trusted(k)
    /\ trust' = [trust EXCEPT ![k] = "withdrawn"]

Next ==
    \E k \in Knowledge :
        \/ \E p \in PermissionLevels : Promote(k, p) \/ Narrow(k, p)
        \/ Withdraw(k)

Spec == Init /\ [][Next]_trust

=============================================================================
