---------------------- MODULE AutoReviewCountersProofs ----------------------
(* Theorems about the counters of AutoReviewRollout and the gates that count  *)
(* on them, for every set of items and sessions.  What counts rows holds      *)
(* where the row guards of migration 7c5a2e9f4b10 are installed: without      *)
(* them two auditors of one row are counted twice.                            *)
EXTENDS AutoReviewRolloutProofs

-----------------------------------------------------------------------------
(* Counting.  A step of the ledger touches the rows of one item.              *)

Shift(was, is) == IF is /\ ~was THEN 1 ELSE IF was /\ ~is THEN -1 ELSE 0

(* Two sets that differ in one element at most. *)
LEMMA Recount ==
    ASSUME NEW i \in Items, NEW S \in SUBSET Items, NEW T \in SUBSET Items,
           \A j \in Items \ {i} : j \in S <=> j \in T
    PROVE  Cardinality(T) = Cardinality(S) + Shift(i \in S, i \in T)
<1>1. IsFiniteSet(S) /\ IsFiniteSet(T)
  BY ItemsAssumption, FS_Subset
<1>2. Cardinality(S) \in Nat /\ Cardinality(T) \in Nat
  BY <1>1, FS_CardinalityType
<1>3. CASE i \in S <=> i \in T
  <2>1. S = T
    BY <1>3
  <2> QED BY <1>2, <1>3, <2>1 DEF Shift
<1>4. CASE i \notin S /\ i \in T
  <2>1. T = S \cup {i}
    BY <1>4
  <2> QED BY <1>1, <1>2, <1>4, <2>1, FS_AddElement DEF Shift
<1>5. CASE i \in S /\ i \notin T
  <2>1. T = S \ {i}
    BY <1>5
  <2> QED BY <1>1, <1>2, <1>5, <2>1, FS_RemoveElement DEF Shift
<1> QED BY <1>3, <1>4, <1>5

(* What the rows of one item, and the counters, are to each other. *)
IsPromoted(d) == d # None
IsSelected(d) == d \in {"first_50", "sample"}
IsWaiting(d, a) == d = "first_50" /\ a.status = "pending"
IsJudged(a) == a.outcome # None
IsCritical(a) == a.outcome \in Reasons
IsConfirmed(d, a) == d = "first_50" /\ a.outcome = "confirmed"
IsInvalidated(a) == a.code = "source_invalidated_before_audit"
IsCorrected(c) == c # None

RowsBut(i) ==
    \A j \in Items \ {i} : /\ decision'[j] = decision[j]
                           /\ audit'[j] = audit[j]
                           /\ correction'[j] = correction[j]

LEMMA CountersFollow ==
    ASSUME CountersMatchLedger, NEW i \in Items, RowsBut(i),
      rollout'.ordinal = rollout.ordinal
        + Shift(IsPromoted(decision[i]), IsPromoted(decision'[i])),
      rollout'.selected = rollout.selected
        + Shift(IsSelected(decision[i]), IsSelected(decision'[i])),
      rollout'.pending = rollout.pending
        + Shift(IsWaiting(decision[i], audit[i]), IsWaiting(decision'[i], audit'[i])),
      rollout'.completed = rollout.completed
        + Shift(IsJudged(audit[i]), IsJudged(audit'[i])),
      rollout'.critical = rollout.critical
        + Shift(IsCritical(audit[i]), IsCritical(audit'[i])),
      rollout'.confirmed = rollout.confirmed
        + Shift(IsConfirmed(decision[i], audit[i]), IsConfirmed(decision'[i], audit'[i])),
      rollout'.invalidated = rollout.invalidated
        + Shift(IsInvalidated(audit[i]), IsInvalidated(audit'[i])),
      rollout'.corrected = rollout.corrected
        + Shift(IsCorrected(correction[i]), IsCorrected(correction'[i]))
    PROVE  CountersMatchLedger'
<1>1. Cardinality(Promoted') = Cardinality(Promoted)
        + Shift(IsPromoted(decision[i]), IsPromoted(decision'[i]))
  <2>1. Promoted \in SUBSET Items /\ Promoted' \in SUBSET Items
    BY DEF Promoted
  <2>2. \A j \in Items \ {i} : j \in Promoted <=> j \in Promoted'
    BY DEF Promoted, RowsBut
  <2>3. /\ (i \in Promoted) = IsPromoted(decision[i])
        /\ (i \in Promoted') = IsPromoted(decision'[i])
    BY DEF Promoted, IsPromoted
  <2> QED BY <2>1, <2>2, <2>3, Recount
<1>2. Cardinality(Selected') = Cardinality(Selected)
        + Shift(IsSelected(decision[i]), IsSelected(decision'[i]))
  <2>1. Selected \in SUBSET Items /\ Selected' \in SUBSET Items
    BY DEF Selected
  <2>2. \A j \in Items \ {i} : j \in Selected <=> j \in Selected'
    BY DEF Selected, RowsBut
  <2>3. /\ (i \in Selected) = IsSelected(decision[i])
        /\ (i \in Selected') = IsSelected(decision'[i])
    BY DEF Selected, IsSelected
  <2> QED BY <2>1, <2>2, <2>3, Recount
<1>3. Cardinality(WaitingMandatory') = Cardinality(WaitingMandatory)
        + Shift(IsWaiting(decision[i], audit[i]), IsWaiting(decision'[i], audit'[i]))
  <2>1. WaitingMandatory \in SUBSET Items /\ WaitingMandatory' \in SUBSET Items
    BY DEF WaitingMandatory
  <2>2. \A j \in Items \ {i} : j \in WaitingMandatory <=> j \in WaitingMandatory'
    BY DEF WaitingMandatory, RowsBut
  <2>3. /\ (i \in WaitingMandatory) = IsWaiting(decision[i], audit[i])
        /\ (i \in WaitingMandatory') = IsWaiting(decision'[i], audit'[i])
    BY DEF WaitingMandatory, IsWaiting
  <2> QED BY <2>1, <2>2, <2>3, Recount
<1>4. Cardinality(Judged') = Cardinality(Judged)
        + Shift(IsJudged(audit[i]), IsJudged(audit'[i]))
  <2>1. Judged \in SUBSET Items /\ Judged' \in SUBSET Items
    BY DEF Judged
  <2>2. \A j \in Items \ {i} : j \in Judged <=> j \in Judged'
    BY DEF Judged, RowsBut
  <2>3. /\ (i \in Judged) = IsJudged(audit[i])
        /\ (i \in Judged') = IsJudged(audit'[i])
    BY DEF Judged, IsJudged
  <2> QED BY <2>1, <2>2, <2>3, Recount
<1>5. Cardinality(Critical') = Cardinality(Critical)
        + Shift(IsCritical(audit[i]), IsCritical(audit'[i]))
  <2>1. Critical \in SUBSET Items /\ Critical' \in SUBSET Items
    BY DEF Critical
  <2>2. \A j \in Items \ {i} : j \in Critical <=> j \in Critical'
    BY DEF Critical, RowsBut
  <2>3. /\ (i \in Critical) = IsCritical(audit[i])
        /\ (i \in Critical') = IsCritical(audit'[i])
    BY DEF Critical, IsCritical
  <2> QED BY <2>1, <2>2, <2>3, Recount
<1>6. Cardinality(ConfirmedMandatory') = Cardinality(ConfirmedMandatory)
        + Shift(IsConfirmed(decision[i], audit[i]), IsConfirmed(decision'[i], audit'[i]))
  <2>1. ConfirmedMandatory \in SUBSET Items /\ ConfirmedMandatory' \in SUBSET Items
    BY DEF ConfirmedMandatory
  <2>2. \A j \in Items \ {i} : j \in ConfirmedMandatory <=> j \in ConfirmedMandatory'
    BY DEF ConfirmedMandatory, RowsBut
  <2>3. /\ (i \in ConfirmedMandatory) = IsConfirmed(decision[i], audit[i])
        /\ (i \in ConfirmedMandatory') = IsConfirmed(decision'[i], audit'[i])
    BY DEF ConfirmedMandatory, IsConfirmed
  <2> QED BY <2>1, <2>2, <2>3, Recount
<1>7. Cardinality(Invalidated') = Cardinality(Invalidated)
        + Shift(IsInvalidated(audit[i]), IsInvalidated(audit'[i]))
  <2>1. Invalidated \in SUBSET Items /\ Invalidated' \in SUBSET Items
    BY DEF Invalidated
  <2>2. \A j \in Items \ {i} : j \in Invalidated <=> j \in Invalidated'
    BY DEF Invalidated, RowsBut
  <2>3. /\ (i \in Invalidated) = IsInvalidated(audit[i])
        /\ (i \in Invalidated') = IsInvalidated(audit'[i])
    BY DEF Invalidated, IsInvalidated
  <2> QED BY <2>1, <2>2, <2>3, Recount
<1>8. Cardinality(Corrected') = Cardinality(Corrected)
        + Shift(IsCorrected(correction[i]), IsCorrected(correction'[i]))
  <2>1. Corrected \in SUBSET Items /\ Corrected' \in SUBSET Items
    BY DEF Corrected
  <2>2. \A j \in Items \ {i} : j \in Corrected <=> j \in Corrected'
    BY DEF Corrected, RowsBut
  <2>3. /\ (i \in Corrected) = IsCorrected(correction[i])
        /\ (i \in Corrected') = IsCorrected(correction'[i])
    BY DEF Corrected, IsCorrected
  <2> QED BY <2>1, <2>2, <2>3, Recount
<1> QED BY <1>1, <1>2, <1>3, <1>4, <1>5, <1>6, <1>7, <1>8 DEF CountersMatchLedger

-----------------------------------------------------------------------------
(* What the row guards make of the ledger: an audit is judged once, from      *)
(* pending or unwritten, and a verdict is never written over.                 *)

RowOK(st, d, a) ==
    /\ a.status = "none" => a.outcome = None /\ a.code = None /\ d \in {None, "not_selected"}
    /\ a.status = "pending" => a.outcome = None /\ a.code = None /\ d \in {"first_50", "sample"}
    /\ a.outcome \in Reasons => a.status = "remediation_required" /\ a.code = "revoke_pending"
    /\ a.status = "remediation_required" => a.outcome \in Reasons
    /\ a.code = "source_invalidated_before_audit" => a.outcome = None
    /\ st \in {"new", "pending_review", "human_resolved"} <=> d = None
    /\ d = None => a.status = "none"

RowInv ==
    /\ \A i \in Items : RowOK(item[i], decision[i], audit[i])
    /\ \A w \in Workers :
        work[w].pc \in {"revoking", "finalizing"} /\ work[w].kind = "audit"
            => audit[work[w].item].outcome \in Reasons
    /\ \A x \in todo : x[2] = "audit" => audit[x[1]].outcome \in Reasons

(* The rows of one item change, its verdict stays. *)
LEMMA RowChange ==
    ASSUME TypeInv, RowInv, NEW i \in Items, RowsBut(i),
           \A j \in Items \ {i} : item'[j] = item[j],
           RowOK(item'[i], decision'[i], audit'[i]),
           audit[i].outcome \in Reasons => audit'[i].outcome \in Reasons,
           \A w \in Workers : \/ work'[w] = work[w]
                              \/ work'[w].pc \in {"idle", "confirming"}
                              \/ work'[w].item = work[w].item /\ work'[w].kind = work[w].kind
                                   /\ work[w].pc \in {"revoking", "finalizing"}
                              \/ work'[w].kind = "correction"
                              \/ work'[w].item = i /\ audit'[i].outcome \in Reasons,
           todo' \subseteq todo
    PROVE  RowInv'
<1>1. \A j \in Items : audit[j].outcome \in Reasons => audit'[j].outcome \in Reasons
  BY DEF RowsBut
<1>2. \A j \in Items : RowOK(item'[j], decision'[j], audit'[j])
  BY DEF RowsBut, RowInv
<1>3. ASSUME NEW w \in Workers, work'[w].pc \in {"revoking", "finalizing"},
             work'[w].kind = "audit"
      PROVE  audit'[work'[w].item].outcome \in Reasons
  BY <1>1, <1>3 DEF RowInv, TypeInv, WorkOK
<1>4. ASSUME NEW x \in todo', x[2] = "audit" PROVE audit'[x[1]].outcome \in Reasons
  <2>1. x[1] \in Items
    BY DEF TypeInv, TypeOK
  <2> QED BY <1>1, <1>4, <2>1 DEF RowInv
<1> QED BY <1>2, <1>3, <1>4 DEF RowInv

(* A finalization finds its audit written already, and changes nothing. *)
LEMMA FinalizeAudit ==
    ASSUME TypeInv, RowInv, AuditRowGuards, NEW w \in Workers, Finalize(w)
    PROVE  /\ work[w].item \in Items
           /\ \A j \in Items : audit'[j] = audit[j]
           /\ \A j \in Items \ {work[w].item} : correction'[j] = correction[j]
<1> DEFINE i == work[w].item
           k == work[w].kind
           ok == work[w].ok
<1>1. i \in Items /\ k \in {"audit", "correction"}
  BY DEF Finalize, TypeInv, WorkOK
<1>2. correction \in [Items -> {None, "revoke_pending", "revoke_failed", "revoked"}]
      /\ audit \in [Items -> AuditType]
  BY DEF TypeInv, TypeOK
<1>3. CASE k = "correction"
  BY <1>1, <1>2, <1>3 DEF Finalize, write_finalize
<1>4. CASE k = "audit"
  <2>1. audit[i].outcome \in Reasons
    BY <1>4 DEF Finalize, RowInv
  <2>2. audit[i].status = "remediation_required" /\ audit[i].code = "revoke_pending"
    BY <1>1, <2>1 DEF RowInv, RowOK
  <2>3. FinalizeRefused(i, k, ok)
    BY <1>4, <2>2, NoneAssumption DEF FinalizeRefused
  <2> QED BY <1>1, <2>3 DEF Finalize
<1> QED BY <1>1, <1>3, <1>4

LEMMA InitRows == Init => RowInv
BY ReasonsAssumption, NoneAssumption DEF Init, RowInv, RowOK, NoAudit, Idle

LEMMA StepRows ==
    ASSUME TypeInv, RowInv, AuditRowGuards, [Next]_vars
    PROVE  RowInv'
<1>0. /\ item \in [Items -> {"new", "pending_review", "human_resolved",
                             "auto_approved", "revoked"}]
      /\ decision \in [Items -> Cohorts \cup {None}]
      /\ audit \in [Items -> AuditType]
      /\ correction \in [Items -> {None, "revoke_pending", "revoke_failed", "revoked"}]
      /\ work \in [Workers -> WorkType]
      /\ todo \subseteq Items \X {"audit", "correction"}
      /\ WorkOK
  BY DEF TypeInv, TypeOK
<1> USE <1>0, NoneAssumption, ReasonsAssumption
<1>1. CASE status \/ close_rollout_breaker
           \/ (\E p \in {10, 100} : authorize_percentage(p))
           \/ (\E b \in BOOLEAN : ShadowRecord(b)) \/ UNCHANGED vars
  <2>1. UNCHANGED <<item, decision, audit, work, todo>>
    BY <1>1 DEF status, close_rollout_breaker, authorize_percentage,
                ShadowRecord, ledger, vars
  <2> QED BY <2>1 DEF RowInv
<1>2. CASE RecoveryScan
  <2>1. UNCHANGED <<item, decision, audit, work>> /\ todo' = Remediations
    BY <1>2 DEF RecoveryScan, ledger
  <2>2. \A x \in Remediations : x[2] = "audit" => audit[x[1]].outcome \in Reasons
    BY DEF Remediations, RowInv, RowOK
  <2> QED BY <2>1, <2>2 DEF RowInv
<1>3. ASSUME NEW x \in todo, RecoverNext(x) PROVE RowInv'
  <2>1. /\ UNCHANGED <<item, decision, audit>>
        /\ todo' \subseteq todo
        /\ work' = [work EXCEPT ![Recovery] = [pc |-> "revoking", item |-> x[1],
                                               kind |-> x[2], ok |-> FALSE]]
    BY <1>3 DEF RecoverNext, RemediationOf, ledger
  <2> QED BY <2>1 DEF RowInv
<1>4. ASSUME NEW i \in Items, Launch(i) \/ HumanResolve(i) PROVE RowInv'
  <2>1. /\ UNCHANGED <<decision, audit, work, todo>>
        /\ \A j \in Items \ {i} : item'[j] = item[j]
        /\ item[i] \in {"new", "pending_review", "human_resolved"}
        /\ item'[i] \in {"new", "pending_review", "human_resolved"}
    BY <1>4 DEF Launch, HumanResolve
  <2> QED BY <2>1 DEF RowInv, RowOK
<1>5. ASSUME NEW i \in Items, NEW c \in {"first_50", "sample", "not_selected"},
             reserve_auto_promotion(i, c)
      PROVE  RowInv'
  <2>1. /\ decision' = [decision EXCEPT ![i] = c] /\ item' = [item EXCEPT ![i] = "auto_approved"]
        /\ item[i] = "pending_review" /\ UNCHANGED <<correction, work, todo>>
        /\ audit' = IF c = "not_selected" THEN audit
                    ELSE [audit EXCEPT ![i].status = "pending"]
    BY <1>5 DEF reserve_auto_promotion
  <2>2. decision[i] = None /\ audit[i].status = "none" /\ audit[i].outcome = None
        /\ audit[i].code = None
    BY <2>1 DEF RowInv, RowOK
  <2>3. RowsBut(i) /\ audit'[i].outcome = None /\ audit'[i].code = None
        /\ audit'[i].status = IF c = "not_selected" THEN "none" ELSE "pending"
    BY <2>1, <2>2 DEF RowsBut, AuditType
  <2>4. RowOK(item'[i], decision'[i], audit'[i])
    BY <2>1, <2>2, <2>3 DEF RowOK
  <2> QED BY <2>1, <2>2, <2>3, <2>4, RowChange
<1>6. ASSUME NEW i \in Items, SourceInvalidated(i) PROVE RowInv'
  <2>1. /\ item' = [item EXCEPT ![i] = "revoked"] /\ item[i] = "auto_approved"
        /\ audit' = IF audit[i].status = "pending"
                THEN [audit EXCEPT ![i] = [status |-> "completed",
                         outcome |-> None,
                         code |-> "source_invalidated_before_audit"]]
                ELSE audit
        /\ UNCHANGED <<decision, correction, work, todo>>
    BY <1>6 DEF SourceInvalidated
  <2>2. RowsBut(i)
    BY <2>1 DEF RowsBut
  <2>3. RowOK(item[i], decision[i], audit[i])
    BY DEF RowInv
  <2>4. RowOK(item'[i], decision'[i], audit'[i])
    BY <2>1, <2>3 DEF RowOK
  <2>5. audit[i].outcome \in Reasons => audit'[i].outcome \in Reasons
    BY <2>1, <2>3 DEF RowOK
  <2> QED BY <2>1, <2>2, <2>4, <2>5, RowChange
<1>7. ASSUME NEW i \in Items, NEW s \in Sessions, ConfirmLocate(s, i)
      PROVE  RowInv'
  <2>1. /\ UNCHANGED <<item, decision, audit, todo>>
        /\ work'[s].pc = "confirming"
        /\ \A w \in Workers : w # s => work'[w] = work[w]
    BY <1>7 DEF ConfirmLocate, ledger, Idle, Workers
  <2> QED BY <2>1 DEF RowInv
<1>8. ASSUME NEW i \in Items, NEW s \in Sessions, BusinessWithdrawal(s, i)
      PROVE  RowInv'
  <2>1. /\ UNCHANGED <<decision, audit, correction, work, todo>>
        /\ item' = [item EXCEPT ![i] = "revoked"] /\ item[i] = "auto_approved"
    BY <1>8 DEF BusinessWithdrawal
  <2> QED BY <2>1 DEF RowInv, RowOK
<1>9. ASSUME NEW i \in Items, NEW s \in Sessions, ConfirmManual(s, i)
      PROVE  RowInv'
  <2>1. /\ UNCHANGED <<item, decision, correction, work, todo>>
        /\ audit' = [audit EXCEPT ![i] = [status |-> "completed", outcome |-> "confirmed",
                                          code |-> None]]
        /\ decision[i] = "not_selected" /\ audit[i].status = "none"
    BY <1>9 DEF ConfirmManual, Verdict
  <2>2. RowsBut(i)
    BY <2>1 DEF RowsBut
  <2>3. RowOK(item'[i], decision'[i], audit'[i]) /\ audit[i].outcome \notin Reasons
    BY <2>1 DEF RowInv, RowOK
  <2> QED BY <2>1, <2>2, <2>3, RowChange
<1>10. ASSUME NEW i \in Items, NEW s \in Sessions, NEW r \in Reasons,
              QualityCritical(s, i, r)
       PROVE  RowInv'
  <2>1. /\ UNCHANGED <<item, decision, correction, todo>>
        /\ audit' = [audit EXCEPT ![i] = [status |-> "remediation_required", outcome |-> r,
                                          code |-> "revoke_pending"]]
        /\ audit[i].status \in {"none", "pending"} /\ item[i] \in {"auto_approved", "revoked"}
        /\ work' = [work EXCEPT ![s] = [pc |-> "revoking", item |-> i, kind |-> "audit",
                                        ok |-> FALSE]]
    BY <1>10 DEF QualityCritical, QualityAdmitted, Verdict, RemediationOf
  <2>2. RowsBut(i)
    BY <2>1 DEF RowsBut
  <2>3. RowOK(item'[i], decision'[i], audit'[i])
    BY <2>1 DEF RowInv, RowOK
  <2>4. audit'[i].outcome \in Reasons
    BY <2>1
  <2> QED BY <2>1, <2>2, <2>3, <2>4, RowChange
<1>11. ASSUME NEW i \in Items, NEW s \in Sessions, NEW r \in Reasons,
              QualityCorrection(s, i, r)
       PROVE  RowInv'
  <2>1. /\ UNCHANGED <<item, decision, audit, todo>>
        /\ \/ UNCHANGED work
           \/ work' = [work EXCEPT ![s] = [pc |-> "revoking", item |-> i,
                                           kind |-> "correction", ok |-> FALSE]]
    BY <1>11 DEF QualityCorrection, RemediationOf
  <2> QED BY <2>1 DEF RowInv
<1>12. ASSUME NEW i \in Items, NEW s \in Sessions, NEW r \in Reasons,
              QualityReplay(s, i, r)
       PROVE  RowInv'
  <2>1. /\ UNCHANGED <<item, decision, audit, todo>> /\ audit[i].outcome = r
        /\ work' = [work EXCEPT ![s] = [pc |-> "revoking", item |-> i,
                                        kind |-> "audit", ok |-> FALSE]]
    BY <1>12 DEF QualityReplay, RemediationOf
  <2> QED BY <2>1 DEF RowInv
<1>13. ASSUME NEW s \in Sessions, ConfirmWrite(s) PROVE RowInv'
  <2> DEFINE i == work[s].item
  <2>1. /\ UNCHANGED <<item, decision, correction, todo>> /\ i \in Items
        /\ work' = [work EXCEPT ![s] = [pc |-> "idle", item |-> None,
                                        kind |-> None, ok |-> FALSE]]
        /\ \/ UNCHANGED audit
           \/ /\ audit[i].status = "pending"
              /\ audit' = [audit EXCEPT ![i] = [status |-> "completed",
                              outcome |-> "confirmed", code |-> None]]
    BY <1>13 DEF ConfirmWrite, AuditUpdateRefused, Verdict, Idle, WorkOK, Workers
  <2>2. RowsBut(i)
    BY <2>1 DEF RowsBut
  <2>3. RowOK(item[i], decision[i], audit[i])
    BY <2>1 DEF RowInv
  <2>4. RowOK(item'[i], decision'[i], audit'[i])
        /\ (audit[i].outcome \in Reasons => audit'[i].outcome \in Reasons)
    BY <2>1, <2>3 DEF RowOK
  <2>5. \A w \in Workers : work'[w] = work[w] \/ work'[w].pc \in {"idle", "confirming"}
    BY <2>1
  <2> HIDE DEF i
  <2> QED BY <2>1, <2>2, <2>4, <2>5, RowChange
<1>14. ASSUME NEW w \in Workers, RevokeSucceeds(w) PROVE RowInv'
  <2> DEFINE i == work[w].item
  <2>1. /\ UNCHANGED <<decision, audit, correction, todo>> /\ i \in Items
        /\ item' = [item EXCEPT ![i] = "revoked"] /\ item[i] \in {"auto_approved", "revoked"}
        /\ work[w].pc = "revoking"
        /\ work' = [work EXCEPT ![w].pc = "finalizing", ![w].ok = TRUE]
    BY <1>14 DEF RevokeSucceeds, WorkOK
  <2>2. RowsBut(i) /\ RowOK(item'[i], decision'[i], audit'[i])
    BY <2>1 DEF RowsBut, RowInv, RowOK
  <2>3. \A v \in Workers : \/ work'[v] = work[v]
                           \/ /\ work'[v].item = work[v].item /\ work'[v].kind = work[v].kind
                              /\ work[v].pc \in {"revoking", "finalizing"}
    BY <2>1 DEF WorkType
  <2> HIDE DEF i
  <2> QED BY <2>1, <2>2, <2>3, RowChange
<1>15. ASSUME NEW w \in Workers, RevokeFails(w) PROVE RowInv'
  <2>1. /\ UNCHANGED <<item, decision, audit, todo>> /\ work[w].pc = "revoking"
        /\ work' = [work EXCEPT ![w].pc = "finalizing", ![w].ok = FALSE]
    BY <1>15 DEF RevokeFails, ledger
  <2> QED BY <2>1 DEF RowInv, WorkType
<1>16. ASSUME NEW w \in Workers, Crash(w) PROVE RowInv'
  <2>1. /\ UNCHANGED <<item, decision, audit>> /\ todo' \subseteq todo
        /\ work' = [work EXCEPT ![w] = [pc |-> "idle", item |-> None,
                                        kind |-> None, ok |-> FALSE]]
    BY <1>16 DEF Crash, Idle, ledger
  <2> QED BY <2>1 DEF RowInv
<1>17. ASSUME NEW w \in Workers, Finalize(w) PROVE RowInv'
  <2>1. /\ UNCHANGED <<item, decision>> /\ todo' \subseteq todo
        /\ work' = [work EXCEPT ![w] = [pc |-> "idle", item |-> None,
                                        kind |-> None, ok |-> FALSE]]
    BY <1>17 DEF Finalize, Idle
  <2>2. \A j \in Items : audit'[j] = audit[j]
    BY <1>17, FinalizeAudit
  <2> QED BY <2>1, <2>2 DEF RowInv, WorkOK
<1> QED BY <1>1, <1>2, <1>3, <1>4, <1>5, <1>6, <1>7, <1>8, <1>9, <1>10,
           <1>11, <1>12, <1>13, <1>14, <1>15, <1>16, <1>17 DEF Next

-----------------------------------------------------------------------------
(* The counters, step by step. *)

SameCounts(r, n) ==
    /\ n.ordinal = r.ordinal /\ n.selected = r.selected /\ n.pending = r.pending
    /\ n.completed = r.completed /\ n.critical = r.critical
    /\ n.confirmed = r.confirmed /\ n.invalidated = r.invalidated
    /\ n.corrected = r.corrected

LEMMA BumpedCounts ==
    ASSUME NEW r \in RolloutType
    PROVE  SameCounts(r, Bumped(r))
BY DEF SameCounts, Bumped, RolloutType

LEMMA OpenBreakerCounts ==
    ASSUME NEW r \in RolloutType, open_breaker(r)
    PROVE  SameCounts(r, rollout')
<1>1. rollout' = Tripped(r)
  BY DEF open_breaker, ControlChange
<1> QED BY <1>1 DEF Tripped, SameCounts, RolloutType

(* Nothing is counted, and no row it stands for changes: a closed remediation *)
(* is still one. *)
LEMMA Uncounted ==
    ASSUME CountersMatchLedger, SameCounts(rollout, rollout'),
           \A i \in Items : /\ decision'[i] = decision[i] /\ audit'[i] = audit[i]
                            /\ IsCorrected(correction'[i]) = IsCorrected(correction[i])
    PROVE  CountersMatchLedger'
<1>1. /\ Promoted' = Promoted /\ Selected' = Selected
      /\ WaitingMandatory' = WaitingMandatory /\ Judged' = Judged
      /\ Critical' = Critical /\ ConfirmedMandatory' = ConfirmedMandatory
      /\ Invalidated' = Invalidated /\ Corrected' = Corrected
  BY DEF Promoted, Selected, WaitingMandatory, Judged, Critical, ConfirmedMandatory,
         Invalidated, Corrected, IsCorrected
<1> QED BY <1>1 DEF CountersMatchLedger, SameCounts

(* A verdict is counted once: it is given to a row that has none. *)
LEMMA VerdictCounted ==
    ASSUME TypeInv, RowInv, CountersMatchLedger, NEW i \in Items,
           NEW outcome \in Reasons \cup {"confirmed"},
           audit[i].status \in {"none", "pending"},
           SameCounts(Completed(rollout, i, outcome), rollout'),
           audit' = [audit EXCEPT ![i] = Verdict(outcome)],
           UNCHANGED <<decision, correction>>
    PROVE  CountersMatchLedger'
<1> DEFINE n == Completed(rollout, i, outcome)
           mandatory == decision[i] = "first_50"
           confirms == outcome = "confirmed"
<1>1. rollout \in RolloutType /\ audit \in [Items -> AuditType]
  BY DEF TypeInv, TypeOK
<1>2. RowsBut(i) /\ audit'[i] = Verdict(outcome)
  BY <1>1 DEF RowsBut
<1>3. RowOK(item[i], decision[i], audit[i])
  BY DEF RowInv
<1>4. /\ audit[i].outcome = None /\ audit[i].code = None
      /\ mandatory => audit[i].status = "pending"
  BY <1>3, NoneAssumption DEF RowOK
<1>5. /\ audit'[i].status \in {"completed", "remediation_required"}
      /\ audit'[i].outcome = outcome /\ audit'[i].code \in {None, "revoke_pending"}
  BY <1>2 DEF Verdict
<1>6. /\ n.ordinal = rollout.ordinal /\ n.selected = rollout.selected
      /\ n.pending = IF mandatory THEN rollout.pending - 1 ELSE rollout.pending
      /\ n.completed = rollout.completed + 1
      /\ n.critical = IF confirms THEN rollout.critical ELSE rollout.critical + 1
      /\ n.confirmed = IF mandatory /\ confirms THEN rollout.confirmed + 1 ELSE rollout.confirmed
      /\ n.invalidated = rollout.invalidated /\ n.corrected = rollout.corrected
  BY <1>1 DEF Completed, RolloutType
<1> HIDE DEF n
<1>7. Shift(IsWaiting(decision[i], audit[i]), IsWaiting(decision'[i], audit'[i]))
        = IF mandatory THEN -1 ELSE 0
  BY <1>4, <1>5 DEF Shift, IsWaiting
<1>8. Shift(IsJudged(audit[i]), IsJudged(audit'[i])) = 1
  BY <1>4, <1>5, NoneAssumption, ReasonsAssumption DEF Shift, IsJudged
<1>9. Shift(IsCritical(audit[i]), IsCritical(audit'[i])) = IF confirms THEN 0 ELSE 1
  BY <1>4, <1>5, ReasonsAssumption DEF Shift, IsCritical
<1>10. Shift(IsConfirmed(decision[i], audit[i]), IsConfirmed(decision'[i], audit'[i]))
        = IF mandatory /\ confirms THEN 1 ELSE 0
  BY <1>4, <1>5, NoneAssumption DEF Shift, IsConfirmed
<1>11. Shift(IsInvalidated(audit[i]), IsInvalidated(audit'[i])) = 0
  BY <1>4, <1>5, NoneAssumption DEF Shift, IsInvalidated
<1>12. /\ Shift(IsPromoted(decision[i]), IsPromoted(decision'[i])) = 0
       /\ Shift(IsSelected(decision[i]), IsSelected(decision'[i])) = 0
       /\ Shift(IsCorrected(correction[i]), IsCorrected(correction'[i])) = 0
  BY DEF Shift
<1>13. /\ rollout.ordinal \in Nat /\ rollout.selected \in Nat /\ rollout.pending \in Nat
       /\ rollout.completed \in Nat /\ rollout.critical \in Nat /\ rollout.confirmed \in Nat
       /\ rollout.invalidated \in Nat /\ rollout.corrected \in Nat
  BY <1>1 DEF RolloutType
<1> HIDE DEF mandatory, confirms
<1>14. /\ rollout'.ordinal = n.ordinal /\ rollout'.selected = n.selected
       /\ rollout'.pending = n.pending /\ rollout'.completed = n.completed
       /\ rollout'.critical = n.critical /\ rollout'.confirmed = n.confirmed
       /\ rollout'.invalidated = n.invalidated /\ rollout'.corrected = n.corrected
  BY DEF SameCounts, n
<1> QED BY <1>2, <1>6, <1>7, <1>8, <1>9, <1>10, <1>11, <1>12, <1>13, <1>14, CountersFollow

(* A promotion: counted, and its audit with it. *)
LEMMA PromotionCounted ==
    ASSUME TypeInv, RowInv, CountersMatchLedger, NEW i \in Items,
           NEW c \in {"first_50", "sample", "not_selected"}, reserve_auto_promotion(i, c)
    PROVE  CountersMatchLedger'
<1>1. rollout \in RolloutType /\ audit \in [Items -> AuditType]
      /\ decision \in [Items -> Cohorts \cup {None}]
  BY DEF TypeInv, TypeOK
<1>2. /\ decision' = [decision EXCEPT ![i] = c] /\ item[i] = "pending_review"
      /\ UNCHANGED correction
      /\ audit' = IF c = "not_selected" THEN audit
                  ELSE [audit EXCEPT ![i].status = "pending"]
  BY DEF reserve_auto_promotion
<1>3. decision[i] = None /\ audit[i].status = "none" /\ audit[i].outcome = None
      /\ audit[i].code = None
  BY <1>2 DEF RowInv, RowOK
<1>4. /\ RowsBut(i) /\ decision'[i] = c
      /\ audit'[i].outcome = None /\ audit'[i].code = None
      /\ audit'[i].status = IF c = "not_selected" THEN "none" ELSE "pending"
  BY <1>1, <1>2, <1>3 DEF RowsBut, AuditType
<1>5. /\ rollout'.ordinal = rollout.ordinal + 1
      /\ rollout'.selected = IF c = "not_selected" THEN rollout.selected
                                                   ELSE rollout.selected + 1
      /\ rollout'.pending = IF c = "first_50" THEN rollout.pending + 1 ELSE rollout.pending
      /\ rollout'.completed = rollout.completed /\ rollout'.critical = rollout.critical
      /\ rollout'.confirmed = rollout.confirmed /\ rollout'.invalidated = rollout.invalidated
      /\ rollout'.corrected = rollout.corrected
  BY <1>1 DEF reserve_auto_promotion, Bumped, RolloutType
<1>6. Shift(IsPromoted(decision[i]), IsPromoted(decision'[i])) = 1
  BY <1>3, <1>4, NoneAssumption DEF Shift, IsPromoted
<1>7. Shift(IsSelected(decision[i]), IsSelected(decision'[i]))
        = IF c = "not_selected" THEN 0 ELSE 1
  BY <1>3, <1>4, NoneAssumption DEF Shift, IsSelected
<1>8. Shift(IsWaiting(decision[i], audit[i]), IsWaiting(decision'[i], audit'[i]))
        = IF c = "first_50" THEN 1 ELSE 0
  BY <1>3, <1>4 DEF Shift, IsWaiting
<1>9. /\ Shift(IsJudged(audit[i]), IsJudged(audit'[i])) = 0
      /\ Shift(IsCritical(audit[i]), IsCritical(audit'[i])) = 0
      /\ Shift(IsConfirmed(decision[i], audit[i]), IsConfirmed(decision'[i], audit'[i])) = 0
      /\ Shift(IsInvalidated(audit[i]), IsInvalidated(audit'[i])) = 0
      /\ Shift(IsCorrected(correction[i]), IsCorrected(correction'[i])) = 0
  BY <1>2, <1>3, <1>4, NoneAssumption
     DEF Shift, IsJudged, IsCritical, IsConfirmed, IsInvalidated
<1>10. /\ rollout.ordinal \in Nat /\ rollout.selected \in Nat /\ rollout.pending \in Nat
       /\ rollout.completed \in Nat /\ rollout.critical \in Nat /\ rollout.confirmed \in Nat
       /\ rollout.invalidated \in Nat /\ rollout.corrected \in Nat
  BY <1>1 DEF RolloutType
<1> QED BY <1>4, <1>5, <1>6, <1>7, <1>8, <1>9, <1>10, CountersFollow

(* A source invalidation: a waiting audit is counted off without a verdict. *)
LEMMA InvalidationCounted ==
    ASSUME TypeInv, RowInv, CountersMatchLedger, NEW i \in Items, SourceInvalidated(i)
    PROVE  CountersMatchLedger'
<1>1. rollout \in RolloutType /\ audit \in [Items -> AuditType]
  BY DEF TypeInv, TypeOK
<1>2. CASE audit[i].status # "pending"
  <2>1. UNCHANGED <<rollout, decision, audit, correction>>
    BY <1>2 DEF SourceInvalidated
  <2> QED BY <2>1, Uncounted DEF SameCounts
<1>3. CASE audit[i].status = "pending"
  <2> DEFINE mandatory == decision[i] = "first_50"
  <2>1. /\ UNCHANGED <<decision, correction>>
        /\ audit' = [audit EXCEPT ![i] = [status |-> "completed", outcome |-> None,
                         code |-> "source_invalidated_before_audit"]]
    BY <1>3 DEF SourceInvalidated
  <2>2. /\ RowsBut(i) /\ audit'[i].status = "completed" /\ audit'[i].outcome = None
        /\ audit'[i].code = "source_invalidated_before_audit"
    BY <1>1, <2>1 DEF RowsBut
  <2>3. audit[i].outcome = None /\ audit[i].code = None
    BY <1>3 DEF RowInv, RowOK
  <2>4. /\ rollout'.ordinal = rollout.ordinal /\ rollout'.selected = rollout.selected
        /\ rollout'.pending = IF mandatory THEN rollout.pending - 1 ELSE rollout.pending
        /\ rollout'.completed = rollout.completed /\ rollout'.critical = rollout.critical
        /\ rollout'.confirmed = rollout.confirmed
        /\ rollout'.invalidated = rollout.invalidated + 1
        /\ rollout'.corrected = rollout.corrected
    BY <1>1, <1>3 DEF SourceInvalidated, RolloutType
  <2>5. Shift(IsWaiting(decision[i], audit[i]), IsWaiting(decision'[i], audit'[i]))
          = IF mandatory THEN -1 ELSE 0
    BY <1>3, <2>1, <2>2 DEF Shift, IsWaiting
  <2>6. Shift(IsInvalidated(audit[i]), IsInvalidated(audit'[i])) = 1
    BY <2>2, <2>3, NoneAssumption DEF Shift, IsInvalidated
  <2>7. /\ Shift(IsPromoted(decision[i]), IsPromoted(decision'[i])) = 0
        /\ Shift(IsSelected(decision[i]), IsSelected(decision'[i])) = 0
        /\ Shift(IsJudged(audit[i]), IsJudged(audit'[i])) = 0
        /\ Shift(IsCritical(audit[i]), IsCritical(audit'[i])) = 0
        /\ Shift(IsConfirmed(decision[i], audit[i]), IsConfirmed(decision'[i], audit'[i])) = 0
        /\ Shift(IsCorrected(correction[i]), IsCorrected(correction'[i])) = 0
    BY <2>1, <2>2, <2>3 DEF Shift, IsJudged, IsCritical, IsConfirmed
  <2>8. /\ rollout.ordinal \in Nat /\ rollout.selected \in Nat /\ rollout.pending \in Nat
        /\ rollout.completed \in Nat /\ rollout.critical \in Nat /\ rollout.confirmed \in Nat
        /\ rollout.invalidated \in Nat /\ rollout.corrected \in Nat
    BY <1>1 DEF RolloutType
  <2> HIDE DEF mandatory
  <2> QED BY <2>2, <2>4, <2>5, <2>6, <2>7, <2>8, CountersFollow
<1> QED BY <1>2, <1>3

(* A correction: counted when it is appended. *)
LEMMA CorrectionCounted ==
    ASSUME TypeInv, CountersMatchLedger, NEW i \in Items, NEW s \in Sessions, NEW r \in Reasons,
           QualityCorrection(s, i, r), correction[i] = None
    PROVE  CountersMatchLedger'
<1> DEFINE n == [rollout EXCEPT !.corrected = @ + 1]
<1>1. rollout \in RolloutType
      /\ correction \in [Items -> {None, "revoke_pending", "revoke_failed", "revoked"}]
  BY DEF TypeInv, TypeOK
<1>2. /\ UNCHANGED <<decision, audit>>
      /\ correction' = [correction EXCEPT ![i] = "revoke_pending"]
      /\ open_breaker(n)
  BY Zenon DEF QualityCorrection
<1>3. n \in RolloutType /\ n.corrected = rollout.corrected + 1
  BY <1>1 DEF RolloutType, SameCounts
<1>4. /\ n.ordinal = rollout.ordinal /\ n.selected = rollout.selected
      /\ n.pending = rollout.pending /\ n.completed = rollout.completed
      /\ n.critical = rollout.critical /\ n.confirmed = rollout.confirmed
      /\ n.invalidated = rollout.invalidated
  BY <1>1 DEF RolloutType
<1> HIDE DEF n
<1>5. SameCounts(n, rollout')
  BY <1>2, <1>3, OpenBreakerCounts
<1>6. RowsBut(i) /\ correction'[i] = "revoke_pending"
  BY <1>1, <1>2 DEF RowsBut
<1>7. Shift(IsCorrected(correction[i]), IsCorrected(correction'[i])) = 1
  BY <1>6, NoneAssumption DEF Shift, IsCorrected
<1>8. /\ Shift(IsPromoted(decision[i]), IsPromoted(decision'[i])) = 0
      /\ Shift(IsSelected(decision[i]), IsSelected(decision'[i])) = 0
      /\ Shift(IsWaiting(decision[i], audit[i]), IsWaiting(decision'[i], audit'[i])) = 0
      /\ Shift(IsJudged(audit[i]), IsJudged(audit'[i])) = 0
      /\ Shift(IsCritical(audit[i]), IsCritical(audit'[i])) = 0
      /\ Shift(IsConfirmed(decision[i], audit[i]), IsConfirmed(decision'[i], audit'[i])) = 0
      /\ Shift(IsInvalidated(audit[i]), IsInvalidated(audit'[i])) = 0
  BY <1>2 DEF Shift
<1>9. /\ rollout.ordinal \in Nat /\ rollout.selected \in Nat /\ rollout.pending \in Nat
      /\ rollout.completed \in Nat /\ rollout.critical \in Nat /\ rollout.confirmed \in Nat
      /\ rollout.invalidated \in Nat /\ rollout.corrected \in Nat
  BY <1>1 DEF RolloutType
<1> QED BY <1>3, <1>4, <1>5, <1>6, <1>7, <1>8, <1>9, CountersFollow DEF SameCounts

LEMMA StepCounters ==
    ASSUME TypeInv, RemediationInv, RowInv, CountersMatchLedger, AuditRowGuards, [Next]_vars
    PROVE  CountersMatchLedger'
<1>0. rollout \in RolloutType
      /\ correction \in [Items -> {None, "revoke_pending", "revoke_failed", "revoked"}]
  BY DEF TypeInv, TypeOK
<1>1. CASE UNCHANGED <<rollout, decision, audit, correction>>
  BY <1>1, Uncounted DEF SameCounts
<1>2. CASE status \/ RecoveryScan \/ (\E x \in todo : RecoverNext(x)) \/ UNCHANGED vars
  BY <1>1, <1>2 DEF status, RecoveryScan, RecoverNext, ledger, vars
<1>3. CASE \/ close_rollout_breaker \/ (\E p \in {10, 100} : authorize_percentage(p))
           \/ (\E b \in BOOLEAN : ShadowRecord(b))
  <2>1. UNCHANGED <<decision, audit, correction>>
    BY <1>3 DEF close_rollout_breaker, authorize_percentage, ShadowRecord, ledger
  <2>2. ASSUME NEW p \in {10, 100}, authorize_percentage(p)
        PROVE  SameCounts(rollout, rollout')
    BY <1>0, <2>2 DEF authorize_percentage, ControlChange, SameCounts, RolloutType
  <2>3. ASSUME close_rollout_breaker PROVE SameCounts(rollout, rollout')
    BY <1>0, <2>3 DEF close_rollout_breaker, ControlChange, SameCounts, RolloutType
  <2>4. ASSUME NEW b \in BOOLEAN, ShadowRecord(b) PROVE SameCounts(rollout, rollout')
    BY <1>0, <2>4 DEF ShadowRecord, Bumped, SameCounts, RolloutType
  <2> QED BY <1>3, <2>1, <2>2, <2>3, <2>4, Uncounted
<1>4. CASE \E i \in Items : Launch(i) \/ HumanResolve(i)
  BY <1>1, <1>4 DEF Launch, HumanResolve
<1>5. CASE \E i \in Items : \E c \in {"first_50", "sample", "not_selected"} :
              reserve_auto_promotion(i, c)
  BY <1>5, PromotionCounted
<1>6. CASE \E i \in Items : SourceInvalidated(i)
  BY <1>6, InvalidationCounted
<1>7. CASE \E i \in Items, s \in Sessions : ConfirmLocate(s, i) \/ BusinessWithdrawal(s, i)
  BY <1>1, <1>7 DEF ConfirmLocate, BusinessWithdrawal, ledger
<1>8. ASSUME NEW i \in Items, NEW s \in Sessions, ConfirmManual(s, i)
      PROVE  CountersMatchLedger'
  <2>1. Completed(rollout, i, "confirmed") \in RolloutType
    BY <1>0, <1>8, CompletedType DEF ConfirmManual
  <2>2. SameCounts(Completed(rollout, i, "confirmed"), rollout')
    BY <1>8, <2>1, BumpedCounts DEF ConfirmManual
  <2>3. /\ audit' = [audit EXCEPT ![i] = Verdict("confirmed")]
        /\ UNCHANGED <<decision, correction>> /\ audit[i].status = "none"
    BY <1>8 DEF ConfirmManual
  <2> QED BY <2>2, <2>3, VerdictCounted
<1>9. ASSUME NEW i \in Items, NEW s \in Sessions, NEW r \in Reasons,
             QualityCritical(s, i, r)
      PROVE  CountersMatchLedger'
  <2>1. /\ audit' = [audit EXCEPT ![i] = Verdict(r)]
        /\ UNCHANGED <<decision, correction>> /\ audit[i].status \in {"none", "pending"}
        /\ open_breaker(Completed(rollout, i, r))
        /\ decision[i] = "first_50" => rollout.pending > 0
    BY <1>0, <1>9 DEF QualityCritical, RolloutType
  <2>2. SameCounts(Completed(rollout, i, r), rollout')
    BY <1>0, <2>1, CompletedType, OpenBreakerCounts
  <2> QED BY <2>1, <2>2, VerdictCounted
<1>10. ASSUME NEW i \in Items, NEW s \in Sessions, NEW r \in Reasons,
              QualityCorrection(s, i, r)
       PROVE  CountersMatchLedger'
  <2>1. CASE correction[i] = None
    BY <1>10, <2>1, CorrectionCounted
  <2>2. CASE correction[i] # None
    BY <1>1, <1>10, <2>2 DEF QualityCorrection
  <2> QED BY <2>1, <2>2
<1>11. CASE \E i \in Items, s \in Sessions, r \in Reasons : QualityReplay(s, i, r)
  BY <1>1, <1>11 DEF QualityReplay
<1>12. ASSUME NEW s \in Sessions, ConfirmWrite(s) PROVE CountersMatchLedger'
  <2> DEFINE i == work[s].item
  <2>1. CASE UNCHANGED <<rollout, audit>>
    BY <1>1, <1>12, <2>1 DEF ConfirmWrite
  <2>2. CASE /\ ~AuditUpdateRefused(i)
             /\ ~(decision[i] = "first_50" /\ rollout.pending <= 0)
             /\ rollout' = Bumped(Completed(rollout, i, "confirmed"))
             /\ audit' = [audit EXCEPT ![i] = Verdict("confirmed")]
    <3>1. i \in Items /\ audit[i].status = "pending" /\ UNCHANGED <<decision, correction>>
      BY <1>12, <2>2 DEF ConfirmWrite, AuditUpdateRefused, TypeInv, WorkOK, Workers
    <3>2. Completed(rollout, i, "confirmed") \in RolloutType
      BY <1>0, <2>2, CompletedType DEF RolloutType
    <3>3. SameCounts(Completed(rollout, i, "confirmed"), rollout')
      BY <2>2, <3>2, BumpedCounts
    <3> HIDE DEF i
    <3> QED BY <2>2, <3>1, <3>3, VerdictCounted
  <2> QED BY <1>12, <2>1, <2>2, Zenon DEF ConfirmWrite
<1>13. CASE \E w \in Workers : RevokeSucceeds(w) \/ RevokeFails(w) \/ Crash(w)
  BY <1>1, <1>13 DEF RevokeSucceeds, RevokeFails, Crash, ledger
<1>14. ASSUME NEW w \in Workers, Finalize(w) PROVE CountersMatchLedger'
  <2>1. /\ work[w].item \in Items
        /\ \A j \in Items : audit'[j] = audit[j]
        /\ \A j \in Items \ {work[w].item} : correction'[j] = correction[j]
    BY <1>14, FinalizeAudit
  <2>2. UNCHANGED <<rollout, decision>>
    BY <1>14 DEF Finalize
  <2>3. IsCorrected(correction'[work[w].item]) = IsCorrected(correction[work[w].item])
    <3>1. CASE UNCHANGED correction
      BY <3>1
    <3>2. CASE work[w].kind = "correction"
      <4>1. correction[work[w].item] # None
        BY <1>14, <3>2 DEF RemediationInv, Finalize
      <4>2. correction'[work[w].item] # None
        BY <1>0, <1>14, <2>1, <3>2, <4>1, NoneAssumption DEF Finalize, write_finalize
      <4> QED BY <4>1, <4>2 DEF IsCorrected
    <3>3. CASE work[w].kind = "audit"
      BY <1>14, <3>1, <3>3 DEF Finalize, write_finalize
    <3> QED BY <1>14, <3>2, <3>3 DEF Finalize, TypeInv, WorkOK
  <2>4. \A j \in Items : IsCorrected(correction'[j]) = IsCorrected(correction[j])
    BY <2>1, <2>3
  <2> QED BY <2>1, <2>2, <2>4, Uncounted DEF SameCounts
<1> QED BY <1>2, <1>3, <1>4, <1>5, <1>6, <1>7, <1>8, <1>9, <1>10, <1>11, <1>12, <1>13, <1>14
        DEF Next

LEMMA InitCounters == Init => CountersMatchLedger
<1> SUFFICES ASSUME Init PROVE CountersMatchLedger
  OBVIOUS
<1>1. /\ Promoted = {} /\ Selected = {} /\ WaitingMandatory = {} /\ Judged = {}
      /\ Critical = {} /\ ConfirmedMandatory = {} /\ Invalidated = {} /\ Corrected = {}
  BY ReasonsAssumption, NoneAssumption
     DEF Init, NoAudit, Promoted, Selected, WaitingMandatory, Judged, Critical,
         ConfirmedMandatory, Invalidated, Corrected
<1>2. Cardinality({}) = 0
  BY FS_EmptySet
<1> QED BY <1>1, <1>2 DEF Init, DefaultRollout, CountersMatchLedger

LEMMA RemediationAlways == Spec => [](TypeInv /\ RemediationInv /\ BreakerInv)
<1>1. Init => TypeInv /\ RemediationInv /\ BreakerInv
  BY InitType, ReasonsAssumption, NoneAssumption
     DEF Init, RemediationInv, RemediatedItemsAreRevoked, BreakerInv,
         Corrected, DefaultRollout, Idle, NoAudit
<1> QED BY <1>1, StepType, RemediationStep, BreakerStep, PTL DEF Spec

(* With the row guards each counter of the rollout row is the number of rows  *)
(* it stands for, however auditors, quality revokes, source invalidations,    *)
(* recovery and crashes interleave.                                           *)
THEOREM CountersAreExact ==
    ASSUME AuditRowGuards
    PROVE  Spec => []CountersMatchLedger
<1>1. Init => RowInv /\ CountersMatchLedger
  BY InitRows, InitCounters
<1>2. TypeInv /\ RemediationInv /\ RowInv /\ CountersMatchLedger /\ [Next]_vars
        => RowInv' /\ CountersMatchLedger'
  BY StepRows, StepCounters
<1> QED BY <1>1, <1>2, RemediationAlways, PTL DEF Spec

-----------------------------------------------------------------------------
(* What sampling and full rollout stand on. *)

EarnedInv ==
    /\ (\E i \in Items : decision[i] \in {"sample", "not_selected"})
            => rollout.confirmed = MandatoryAudits
    /\ rollout.percentage = 100 =>
            /\ rollout.confirmed = MandatoryAudits
            /\ rollout.critical = 0
            /\ rollout.corrected = 0

(* Confirmations are never taken back; at 100 percent nothing counts against  *)
(* the rollout.                                                               *)
Onward(r, n) ==
    /\ n.confirmed >= r.confirmed
    /\ n.percentage = 100 => /\ r.percentage = 100
                             /\ n.critical = r.critical
                             /\ n.corrected = r.corrected

LEMMA CompletedOnward ==
    ASSUME NEW r \in RolloutType, NEW i
    PROVE  Onward(r, Bumped(Completed(r, i, "confirmed")))
BY DEF Onward, Completed, Bumped, RolloutType

LEMMA StepOnward ==
    ASSUME TypeInv, BreakerInv, [Next]_vars
    PROVE  \/ Onward(rollout, rollout')
           \/ /\ rollout'.confirmed = rollout.confirmed /\ canary_gate_passed(rollout)
              /\ rollout'.critical = rollout.critical
              /\ rollout'.corrected = rollout.corrected
<1> rollout \in RolloutType
  BY DEF TypeInv, TypeOK
<1> USE DEF Onward
<1>1. CASE UNCHANGED <<rollout, events>>
  BY <1>1 DEF RolloutType
<1>2. ASSUME NEW p \in {10, 100}, authorize_percentage(p)
      PROVE  \/ Onward(rollout, rollout')
             \/ /\ rollout'.confirmed = rollout.confirmed /\ canary_gate_passed(rollout)
                /\ rollout'.critical = rollout.critical
                /\ rollout'.corrected = rollout.corrected
  <2>1. /\ rollout' = [rollout EXCEPT !.state_version = @ + 1, !.control_epoch = @ + 1,
                                      !.percentage = p, !.generation = @ + 1]
        /\ p = 10 \/ canary_gate_passed(rollout)
    BY <1>2, Zenon DEF authorize_percentage, ControlChange, require_authorization_transition
  <2>2. /\ rollout'.confirmed = rollout.confirmed /\ rollout'.percentage = p
        /\ rollout'.critical = rollout.critical
        /\ rollout'.corrected = rollout.corrected
    BY <2>1 DEF RolloutType
  <2>3. rollout.confirmed >= rollout.confirmed
    BY DEF RolloutType
  <2> QED BY <2>1, <2>2, <2>3
<1>3. ASSUME close_rollout_breaker PROVE Onward(rollout, rollout')
  BY <1>3 DEF close_rollout_breaker, ControlChange, RolloutType
<1>4. ASSUME NEW b \in BOOLEAN, ShadowRecord(b) PROVE Onward(rollout, rollout')
  BY <1>4 DEF ShadowRecord, Bumped, RolloutType
<1>5. ASSUME NEW i \in Items, NEW c \in Cohorts, reserve_auto_promotion(i, c)
      PROVE  Onward(rollout, rollout')
  BY <1>5 DEF reserve_auto_promotion, Bumped, RolloutType
<1>6. ASSUME NEW i \in Items, SourceInvalidated(i) PROVE Onward(rollout, rollout')
  BY <1>6 DEF SourceInvalidated, RolloutType
<1>7. ASSUME NEW i \in Items, NEW s \in Sessions, ConfirmManual(s, i)
      PROVE  Onward(rollout, rollout')
  BY <1>7, CompletedOnward DEF ConfirmManual
<1>8. ASSUME NEW r \in RolloutType, open_breaker(r),
             r.confirmed >= rollout.confirmed, r.percentage = rollout.percentage,
             r.breaker_open = rollout.breaker_open
      PROVE  Onward(rollout, rollout')
  <2>1. r.breaker_open => r.percentage = 0
    BY <1>8 DEF BreakerInv
  <2>2. rollout'.percentage = 0 /\ rollout'.confirmed = r.confirmed
    BY <1>8, <2>1, OpenBreakerLatch, OpenBreakerSlots
  <2> QED BY <1>8, <2>2
<1>9. ASSUME NEW i \in Items, NEW s \in Sessions, NEW r \in Reasons,
             QualityCritical(s, i, r)
      PROVE  Onward(rollout, rollout')
  <2> DEFINE n == Completed(rollout, i, r)
  <2>1. open_breaker(n) /\ (decision[i] = "first_50" => rollout.pending > 0)
    BY <1>9 DEF QualityCritical, RolloutType
  <2>2. n \in RolloutType
    BY <2>1, CompletedType
  <2>3. /\ n.confirmed >= rollout.confirmed /\ n.percentage = rollout.percentage
        /\ n.breaker_open = rollout.breaker_open
    BY DEF Completed, RolloutType
  <2> HIDE DEF n
  <2> QED BY <1>8, <2>1, <2>2, <2>3
<1>10. ASSUME NEW i \in Items, NEW s \in Sessions, NEW r \in Reasons,
              QualityCorrection(s, i, r), correction[i] = None
       PROVE  Onward(rollout, rollout')
  <2> DEFINE n == [rollout EXCEPT !.corrected = @ + 1]
  <2>1. open_breaker(n)
    BY <1>10, Zenon DEF QualityCorrection
  <2>2. /\ n \in RolloutType /\ n.confirmed >= rollout.confirmed
        /\ n.percentage = rollout.percentage /\ n.breaker_open = rollout.breaker_open
    BY DEF RolloutType
  <2> HIDE DEF n
  <2> QED BY <1>8, <2>1, <2>2
<1>11. ASSUME NEW s \in Sessions, ConfirmWrite(s) PROVE Onward(rollout, rollout')
  <2>1. CASE UNCHANGED rollout
    BY <2>1 DEF RolloutType
  <2>2. CASE rollout' = Bumped(Completed(rollout, work[s].item, "confirmed"))
    BY <2>2, CompletedOnward
  <2> QED BY <1>11, <2>1, <2>2, Zenon DEF ConfirmWrite
<1> QED BY <1>1, <1>2, <1>3, <1>4, <1>5, <1>6, <1>7, <1>9, <1>10, <1>11,
           RolloutSteps DEF RolloutStep

(* Only a promotion decides. *)
LEMMA DecisionSteps ==
    [Next]_vars => \/ UNCHANGED decision
                   \/ \E i \in Items, c \in Cohorts : reserve_auto_promotion(i, c)
<1> SUFFICES ASSUME [Next]_vars
             PROVE  \/ UNCHANGED decision
                    \/ \E i \in Items, c \in Cohorts : reserve_auto_promotion(i, c)
  OBVIOUS
<1>1. CASE \/ UNCHANGED vars \/ status \/ close_rollout_breaker
           \/ (\E p \in {10, 100} : authorize_percentage(p))
           \/ (\E b \in BOOLEAN : ShadowRecord(b))
           \/ RecoveryScan \/ (\E x \in todo : RecoverNext(x))
  BY <1>1 DEF vars, status, close_rollout_breaker, authorize_percentage, ShadowRecord,
              RecoveryScan, RecoverNext, ledger
<1>2. CASE \E i \in Items : Launch(i) \/ HumanResolve(i) \/ SourceInvalidated(i)
  BY <1>2 DEF Launch, HumanResolve, SourceInvalidated
<1>3. CASE \E i \in Items, s \in Sessions :
              ConfirmLocate(s, i) \/ ConfirmManual(s, i) \/ BusinessWithdrawal(s, i)
  BY <1>3 DEF ConfirmLocate, ConfirmManual, BusinessWithdrawal, ledger
<1>4. CASE \E i \in Items, s \in Sessions, r \in Reasons :
              QualityCritical(s, i, r) \/ QualityCorrection(s, i, r) \/ QualityReplay(s, i, r)
  BY <1>4 DEF QualityCritical, QualityCorrection, QualityReplay
<1>5. CASE \E s \in Sessions : ConfirmWrite(s)
  BY <1>5 DEF ConfirmWrite
<1>6. CASE \E w \in Workers : RevokeSucceeds(w) \/ RevokeFails(w) \/ Finalize(w) \/ Crash(w)
  BY <1>6 DEF RevokeSucceeds, RevokeFails, Finalize, Crash, ledger
<1> QED BY <1>1, <1>2, <1>3, <1>4, <1>5, <1>6, Zenon DEF Next, Cohorts

LEMMA StepEarned ==
    ASSUME TypeInv, BreakerInv, MandatorySlots, EarnedInv, [Next]_vars
    PROVE  EarnedInv'
<1>1. /\ rollout \in RolloutType /\ rollout' \in RolloutType
      /\ decision \in [Items -> Cohorts \cup {None}]
  BY StepType DEF TypeInv, TypeOK
<1>2. MandatorySlots'
  BY SlotsStep
<1>3. /\ rollout.confirmed \in Nat /\ rollout'.confirmed \in Nat
      /\ rollout.pending \in Nat /\ rollout'.pending \in Nat /\ MandatoryAudits \in Nat
      /\ rollout.confirmed <= MandatoryAudits /\ rollout'.confirmed <= MandatoryAudits
  BY <1>1, <1>2, BoundsAssumption DEF MandatorySlots, RolloutType
<1>4. rollout'.confirmed >= rollout.confirmed
  BY <1>3, StepOnward DEF Onward
<1>5. rollout'.percentage = 100 =>
        /\ rollout'.confirmed = MandatoryAudits
        /\ rollout'.critical = 0 /\ rollout'.corrected = 0
  BY <1>3, StepOnward DEF Onward, EarnedInv, canary_gate_passed
<1>6. ASSUME NEW i \in Items, decision'[i] \in {"sample", "not_selected"}
      PROVE  rollout'.confirmed = MandatoryAudits
  <2>1. CASE UNCHANGED decision
    BY <1>3, <1>4, <1>6, <2>1 DEF EarnedInv
  <2>2. ASSUME NEW j \in Items, NEW c \in Cohorts, reserve_auto_promotion(j, c)
        PROVE  rollout'.confirmed = MandatoryAudits
    <3>1. CASE c \in {"sample", "not_selected"}
      BY <1>3, <1>4, <2>2, <3>1 DEF reserve_auto_promotion, SelectAudit
    <3>2. CASE c = "first_50"
      <4>1. decision[i] = decision'[i]
        BY <1>1, <1>6, <2>2, <3>2 DEF reserve_auto_promotion
      <4> QED BY <1>3, <1>4, <1>6, <4>1 DEF EarnedInv
    <3> QED BY <3>1, <3>2 DEF Cohorts
  <2> QED BY <2>1, <2>2, DecisionSteps
<1> QED BY <1>5, <1>6 DEF EarnedInv

LEMMA EarnedAlways == Spec => []EarnedInv
<1>1. Init => EarnedInv /\ MandatorySlots
  BY BoundsAssumption, NoneAssumption DEF Init, EarnedInv, DefaultRollout, MandatorySlots
<1>2. TypeInv /\ BreakerInv /\ MandatorySlots /\ EarnedInv /\ [Next]_vars => EarnedInv'
  BY StepEarned
<1> QED BY <1>1, <1>2, SlotsStep, RemediationAlways, PTL DEF Spec

(* With the row guards an approval that no human must look at exists only     *)
(* when humans confirmed every mandatory audit, those that were refilled      *)
(* after a source invalidation included.                                      *)
THEOREM SamplingEarned ==
    ASSUME AuditRowGuards
    PROVE  Spec => []SamplingIsEarned
<1>1. EarnedInv /\ CountersMatchLedger => SamplingIsEarned
  BY DEF EarnedInv, CountersMatchLedger, SamplingIsEarned
<1> QED BY <1>1, EarnedAlways, CountersAreExact, PTL

(* With the row guards full rollout stands on the mandatory confirmations     *)
(* and on no verdict to the contrary, then and ever since.                    *)
THEOREM FullRolloutStandsOnAudits ==
    ASSUME AuditRowGuards
    PROVE  Spec => []FullRolloutEarned
<1>1. ASSUME NEW S \in SUBSET Items, Cardinality(S) = 0 PROVE S = {}
  BY <1>1, ItemsAssumption, FS_Subset, FS_EmptySet
<1>2. EarnedInv /\ CountersMatchLedger => FullRolloutEarned
  <2>1. Critical \in SUBSET Items /\ Corrected \in SUBSET Items
    BY DEF Critical, Corrected
  <2> QED BY <1>1, <2>1 DEF EarnedInv, CountersMatchLedger, FullRolloutEarned
<1> QED BY <1>2, EarnedAlways, CountersAreExact, PTL

-----------------------------------------------------------------------------
(* Promotion under the control a workflow was launched under. *)

LaunchInv ==
    \A i \in Items :
        item[i] = "pending_review" => launch[i] \in ControlType /\ ~launch[i].breaker_open

LEMMA StepLaunch ==
    ASSUME TypeInv, LaunchInv, [Next]_vars
    PROVE  LaunchInv'
<1>0. /\ launch \in [Items -> ControlType \cup {None}]
      /\ item \in [Items -> {"new", "pending_review", "human_resolved",
                             "auto_approved", "revoked"}]
      /\ rollout \in RolloutType
  BY DEF TypeInv, TypeOK
<1>1. ASSUME UNCHANGED launch,
             \A i \in Items : item'[i] = item[i] \/ item'[i] # "pending_review"
      PROVE  LaunchInv'
  BY <1>1 DEF LaunchInv
<1>2. CASE \/ UNCHANGED vars \/ status \/ close_rollout_breaker
           \/ (\E p \in {10, 100} : authorize_percentage(p))
           \/ (\E b \in BOOLEAN : ShadowRecord(b))
           \/ RecoveryScan \/ (\E x \in todo : RecoverNext(x))
  BY <1>1, <1>2 DEF vars, status, close_rollout_breaker, authorize_percentage, ShadowRecord,
              RecoveryScan, RecoverNext, ledger
<1>3. ASSUME NEW i \in Items, Launch(i) PROVE LaunchInv'
  <2>1. Control(rollout) \in ControlType /\ Control(rollout).breaker_open = rollout.breaker_open
    BY <1>0, ControlOfType DEF Control
  <2>2. ~rollout.breaker_open
    BY <1>3 DEF Launch, shadow_gate_passed
  <2>3. /\ launch' = [launch EXCEPT ![i] = Control(rollout)]
        /\ item' = [item EXCEPT ![i] = "pending_review"]
    BY <1>3 DEF Launch
  <2> QED BY <1>0, <2>1, <2>2, <2>3 DEF LaunchInv
<1>4. CASE \E i \in Items :
              \/ HumanResolve(i) \/ SourceInvalidated(i)
              \/ \E c \in {"first_50", "sample", "not_selected"} : reserve_auto_promotion(i, c)
  BY <1>0, <1>1, <1>4 DEF HumanResolve, SourceInvalidated, reserve_auto_promotion
<1>5. CASE \E i \in Items, s \in Sessions :
              ConfirmLocate(s, i) \/ ConfirmManual(s, i) \/ BusinessWithdrawal(s, i)
  BY <1>0, <1>1, <1>5 DEF ConfirmLocate, ConfirmManual, BusinessWithdrawal, ledger
<1>6. CASE \E i \in Items, s \in Sessions, r \in Reasons :
              QualityCritical(s, i, r) \/ QualityCorrection(s, i, r) \/ QualityReplay(s, i, r)
  <2>1. UNCHANGED <<launch, item>>
    BY <1>6 DEF QualityCritical, QualityCorrection, QualityReplay, open_breaker,
                QualityAdmitted
  <2> QED BY <1>1, <2>1
<1>7. CASE \E s \in Sessions : ConfirmWrite(s)
  BY <1>1, <1>7 DEF ConfirmWrite
<1>8. CASE \E w \in Workers : RevokeSucceeds(w) \/ RevokeFails(w) \/ Finalize(w) \/ Crash(w)
  BY <1>0, <1>1, <1>8 DEF RevokeSucceeds, RevokeFails, Finalize, Crash, ledger
<1> QED BY <1>2, <1>3, <1>4, <1>5, <1>6, <1>7, <1>8 DEF Next

(* No item is promoted under a launch that a later control change overtook:   *)
(* what its workflow stored is the control the last event left.               *)
THEOREM PromotionsFollowTheLatch == Spec => NoPromotionAcrossControlChange
<1>1. Init => EventsReplayToRow /\ LaunchInv
  BY DEF Init, EventsReplayToRow, LaunchInv
<1>2. TypeInv /\ LaunchInv /\ EventsReplayToRow /\ [Next]_vars =>
        [\A i \in Items :
            decision[i] = None /\ decision'[i] # None
            => launch[i] = IF events = << >> THEN Control(DefaultRollout)
                           ELSE events[Len(events)].new]_vars
  <2> SUFFICES ASSUME TypeInv, LaunchInv, EventsReplayToRow, [Next]_vars, NEW i \in Items,
                      decision[i] = None, decision'[i] # None
               PROVE  launch[i] = IF events = << >> THEN Control(DefaultRollout)
                                  ELSE events[Len(events)].new
    OBVIOUS
  <2>1. PICK c \in Cohorts : reserve_auto_promotion(i, c)
    BY DecisionSteps DEF reserve_auto_promotion, TypeInv, TypeOK
  <2>2. launch[i] \in ControlType /\ ~launch[i].breaker_open /\ ControlUnchanged(launch[i])
    BY <2>1 DEF reserve_auto_promotion, LaunchInv
  <2>3. launch[i] = Control(rollout)
    BY <2>2 DEF ControlUnchanged, Control, ControlType, TypeInv, TypeOK, RolloutType
  <2>4. Control(rollout) = IF Len(events) = 0 THEN Control(DefaultRollout)
                           ELSE events[Len(events)].new
    BY DEF EventsReplayToRow
  <2>5. events = << >> <=> Len(events) = 0
    BY DEF TypeInv, TypeOK
  <2> QED BY <2>3, <2>4, <2>5
<1>3. TypeInv /\ LaunchInv /\ [Next]_vars => LaunchInv'
  BY StepLaunch
<1> QED
  BY <1>1, <1>2, <1>3, EventsStep, RemediationAlways, PTL
     DEF Spec, NoPromotionAcrossControlChange

-----------------------------------------------------------------------------
(* Withdrawals. *)

(* No outcome before there is an audit, and no verdict on a withdrawn item. *)
WithdrawnInv ==
    /\ \A i \in Items : audit[i].status = "none" => audit[i].outcome = None
    /\ WithdrawnNeverCritical

IsWithdrawn(a) == a # None /\ a.reason = "business_withdrawal"

LEMMA StepWithdrawn ==
    ASSUME TypeInv, RemediationInv, WithdrawnInv, [Next]_vars
    PROVE  WithdrawnInv'
<1>0. /\ audit \in [Items -> AuditType]
      /\ correction \in [Items -> {None, "revoke_pending", "revoke_failed", "revoked"}]
      /\ assessment \in [Items -> {None} \cup
            [reason : Reasons \cup {"business_withdrawal"}, actor : Sessions]]
      /\ WorkOK
  BY DEF TypeInv, TypeOK
<1> USE NoneAssumption, ReasonsAssumption DEF IsWithdrawn
<1>1. ASSUME \A i \in Items :
               /\ audit'[i].status = "none" => audit[i].status = "none"
               /\ audit'[i].outcome \in {audit[i].outcome, None, "confirmed"}
                  \/ ~IsWithdrawn(assessment'[i])
               /\ audit'[i].status = "none" => audit'[i].outcome = audit[i].outcome
               /\ correction[i] = None => \/ correction'[i] = None
                                          \/ ~IsWithdrawn(assessment'[i])
               /\ IsWithdrawn(assessment'[i]) => IsWithdrawn(assessment[i])
      PROVE  WithdrawnInv'
  BY <1>1 DEF WithdrawnInv, WithdrawnNeverCritical
<1>2. CASE UNCHANGED <<audit, correction, assessment>>
  BY <1>1, <1>2
<1>3. CASE \/ UNCHANGED vars \/ status \/ close_rollout_breaker
           \/ (\E p \in {10, 100} : authorize_percentage(p))
           \/ (\E b \in BOOLEAN : ShadowRecord(b))
           \/ RecoveryScan \/ (\E x \in todo : RecoverNext(x))
  BY <1>2, <1>3 DEF vars, status, close_rollout_breaker, authorize_percentage, ShadowRecord,
              RecoveryScan, RecoverNext, ledger
<1>4. CASE \E i \in Items : Launch(i) \/ HumanResolve(i)
  BY <1>2, <1>4 DEF Launch, HumanResolve
<1>5. ASSUME NEW i \in Items, NEW c \in Cohorts, reserve_auto_promotion(i, c)
      PROVE  WithdrawnInv'
  <2>1. UNCHANGED <<correction, assessment>>
        /\ \A j \in Items : /\ audit'[j].outcome = audit[j].outcome
                            /\ audit'[j].status = "none" => audit[j].status = "none"
    BY <1>0, <1>5 DEF reserve_auto_promotion, AuditType
  <2> QED BY <1>1, <2>1
<1>6. ASSUME NEW i \in Items, SourceInvalidated(i) PROVE WithdrawnInv'
  <2>1. UNCHANGED <<correction, assessment>>
        /\ \/ UNCHANGED audit
           \/ audit' = [audit EXCEPT ![i] = [status |-> "completed", outcome |-> None,
                            code |-> "source_invalidated_before_audit"]]
    BY <1>6 DEF SourceInvalidated
  <2> QED BY <1>0, <1>1, <2>1
<1>7. ASSUME NEW i \in Items, NEW s \in Sessions, BusinessWithdrawal(s, i)
      PROVE  WithdrawnInv'
  <2>1. /\ UNCHANGED <<audit, correction>> /\ correction[i] = None
        /\ audit[i].status = "none" \/ audit[i].outcome = "confirmed"
        /\ \A j \in Items \ {i} : assessment'[j] = assessment[j]
    BY <1>0, <1>7 DEF BusinessWithdrawal
  <2>2. audit[i].outcome \in {None, "confirmed"}
    BY <2>1 DEF WithdrawnInv
  <2> QED BY <2>1, <2>2 DEF WithdrawnInv, WithdrawnNeverCritical
<1>8. ASSUME NEW i \in Items, NEW s \in Sessions, ConfirmManual(s, i) PROVE WithdrawnInv'
  <2>1. /\ UNCHANGED <<correction, assessment>>
        /\ audit' = [audit EXCEPT ![i] = [status |-> "completed", outcome |-> "confirmed",
                                          code |-> None]]
    BY <1>8 DEF ConfirmManual, Verdict
  <2> QED BY <1>0, <1>1, <2>1
<1>9. CASE \E i \in Items, s \in Sessions : ConfirmLocate(s, i)
  BY <1>2, <1>9 DEF ConfirmLocate, ledger
<1>10. ASSUME NEW i \in Items, NEW s \in Sessions, NEW r \in Reasons,
              QualityAdmitted(s, i, r)
       PROVE  /\ ~IsWithdrawn(assessment[i]) /\ ~IsWithdrawn(assessment'[i])
              /\ \A j \in Items \ {i} : assessment'[j] = assessment[j]
  <2>1. assessment[i] \in {None, [reason |-> r, actor |-> s]}
        /\ assessment'[i] = [reason |-> r, actor |-> s] /\ r # "business_withdrawal"
        /\ \A j \in Items \ {i} : assessment'[j] = assessment[j]
    BY <1>0, <1>10 DEF QualityAdmitted
  <2> QED BY <2>1
<1>11. ASSUME NEW i \in Items, NEW s \in Sessions, NEW r \in Reasons,
              QualityCritical(s, i, r)
       PROVE  WithdrawnInv'
  <2>1. QualityAdmitted(s, i, r) /\ UNCHANGED correction
        /\ audit' = [audit EXCEPT ![i] = [status |-> "remediation_required", outcome |-> r,
                                          code |-> "revoke_pending"]]
    BY <1>11 DEF QualityCritical, Verdict
  <2>2. /\ \A j \in Items \ {i} : audit'[j] = audit[j]
        /\ audit'[i].status = "remediation_required"
    BY <1>0, <2>1
  <2> QED BY <1>1, <1>10, <2>1, <2>2
<1>12. ASSUME NEW i \in Items, NEW s \in Sessions, NEW r \in Reasons,
              QualityCorrection(s, i, r)
       PROVE  WithdrawnInv'
  <2>1. /\ QualityAdmitted(s, i, r) /\ UNCHANGED audit
        /\ \A j \in Items \ {i} : correction'[j] = correction[j]
    BY <1>0, <1>12 DEF QualityCorrection
  <2> QED BY <1>1, <1>10, <2>1
<1>13. ASSUME NEW i \in Items, NEW s \in Sessions, NEW r \in Reasons,
              QualityReplay(s, i, r)
       PROVE  WithdrawnInv'
  <2>1. QualityAdmitted(s, i, r) /\ UNCHANGED <<audit, correction>>
    BY <1>13 DEF QualityReplay
  <2> QED BY <1>1, <1>10, <2>1
<1>14. ASSUME NEW s \in Sessions, ConfirmWrite(s) PROVE WithdrawnInv'
  <2>1. /\ UNCHANGED <<correction, assessment>> /\ work[s].item \in Items
        /\ \/ UNCHANGED audit
           \/ audit' = [audit EXCEPT ![work[s].item] =
                    [status |-> "completed", outcome |-> "confirmed", code |-> None]]
    BY <1>0, <1>14 DEF ConfirmWrite, Verdict, WorkOK, Workers
  <2> QED BY <1>0, <1>1, <2>1
<1>15. CASE \E w \in Workers : RevokeSucceeds(w) \/ RevokeFails(w) \/ Crash(w)
  BY <1>2, <1>15 DEF RevokeSucceeds, RevokeFails, Crash, ledger
<1>16. ASSUME NEW w \in Workers, Finalize(w) PROVE WithdrawnInv'
  <2>1. /\ UNCHANGED assessment /\ work[w].item \in Items
        /\ work[w].kind \in {"audit", "correction"}
    BY <1>0, <1>16 DEF Finalize, WorkOK
  <2>2. CASE UNCHANGED <<audit, correction>>
    BY <1>2, <2>1, <2>2
  <2>3. CASE write_finalize(work[w].item, work[w].kind, work[w].ok)
    <3>1. CASE work[w].kind = "audit"
      <4>1. /\ UNCHANGED correction
            /\ \A j \in Items : audit'[j].outcome = audit[j].outcome
            /\ \A j \in Items : audit'[j].status = "none" => audit[j].status = "none"
        BY <1>0, <2>1, <2>3, <3>1 DEF write_finalize, AuditType
      <4> QED BY <1>1, <2>1, <4>1
    <3>2. CASE work[w].kind = "correction"
      <4>1. correction[work[w].item] # None
        BY <1>16, <3>2 DEF Finalize, RemediationInv
      <4>2. /\ UNCHANGED audit
            /\ \A j \in Items : correction[j] = None => correction'[j] = None
        BY <1>0, <2>1, <2>3, <3>2, <4>1 DEF write_finalize
      <4> QED BY <1>1, <2>1, <4>2
    <3> QED BY <2>1, <3>1, <3>2
  <2> QED BY <1>16, <2>2, <2>3 DEF Finalize
<1> QED BY <1>3, <1>4, <1>5, <1>6, <1>7, <1>8, <1>9, <1>11, <1>12, <1>13, <1>14, <1>15, <1>16
        DEF Next, Cohorts

(* An approval withdrawn for business reasons is never judged by its          *)
(* withdrawal, nor condemned after it.                                        *)
THEOREM WithdrawalsJudgeNothing == Spec => []WithdrawnNeverCritical
<1>1. Init => WithdrawnInv
  BY DEF Init, WithdrawnInv, WithdrawnNeverCritical, NoAudit
<1>2. TypeInv /\ RemediationInv /\ WithdrawnInv /\ [Next]_vars => WithdrawnInv'
  BY StepWithdrawn
<1>3. WithdrawnInv => WithdrawnNeverCritical
  BY DEF WithdrawnInv
<1> QED BY <1>1, <1>2, <1>3, RemediationAlways, PTL DEF Spec

=============================================================================
