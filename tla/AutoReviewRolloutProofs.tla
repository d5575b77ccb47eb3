---------------------- MODULE AutoReviewRolloutProofs ----------------------
(* Theorems about AutoReviewRollout, for every set of items and sessions and *)
(* every value of the gates.                                                 *)
EXTENDS AutoReviewRollout, FiniteSetTheorems, TLAPS

(* A session in the middle of something is about a definite item. *)
WorkOK ==
    \A w \in Workers :
        /\ work[w].pc # "idle" => work[w].item \in Items
        /\ work[w].pc \in {"revoking", "finalizing"}
                => work[w].kind \in {"audit", "correction"}

TypeInv == TypeOK /\ WorkOK

-----------------------------------------------------------------------------
(* The row updates the actions are built from keep the row well-typed. *)

LEMMA BumpedType ==
    ASSUME NEW r \in RolloutType
    PROVE  Bumped(r) \in RolloutType
BY DEF Bumped, RolloutType

(* A control change: any latch, either breaker state, both versions bumped. *)
LEMMA ControlUpdateType ==
    ASSUME NEW r \in RolloutType, NEW b \in BOOLEAN, NEW p \in Percentages
    PROVE  [r EXCEPT !.state_version = @ + 1, !.control_epoch = @ + 1,
                     !.breaker_open = b, !.percentage = p,
                     !.generation = @ + 1] \in RolloutType
<1> DEFINE v == r.state_version + 1
           e == r.control_epoch + 1
           g == r.generation + 1
<1>1. v \in Nat /\ e \in Nat /\ g \in Nat
  BY DEF RolloutType
<1> HIDE DEF v, e, g
<1>2. [r EXCEPT !.state_version = v, !.control_epoch = e,
                !.breaker_open = b, !.percentage = p,
                !.generation = g] \in RolloutType
  BY <1>1 DEF RolloutType
<1> QED BY <1>2, Zenon DEF v, e, g

LEMMA TrippedType ==
    ASSUME NEW r \in RolloutType
    PROVE  Tripped(r) \in RolloutType
<1>1. CASE r.breaker_open
  BY <1>1 DEF Tripped, RolloutType
<1>2. CASE ~r.breaker_open
  <2>1. 0 \in Percentages
    BY DEF Percentages
  <2>2. [r EXCEPT !.state_version = @ + 1, !.control_epoch = @ + 1,
                  !.breaker_open = TRUE, !.percentage = 0,
                  !.generation = @ + 1] \in RolloutType
    BY <2>1, ControlUpdateType
  <2> QED BY <1>2, <2>2, Zenon DEF Tripped
<1> QED BY <1>1, <1>2

(* A session whose revoke has an outcome goes on to record it. *)
LEMMA FinalizingType ==
    ASSUME work \in [Workers -> WorkType], WorkOK, NEW w \in Workers,
           NEW b \in BOOLEAN, work[w].pc = "revoking",
           work' = [work EXCEPT ![w].pc = "finalizing", ![w].ok = b]
    PROVE  work' \in [Workers -> WorkType] /\ WorkOK'
<1> DEFINE x == [work[w] EXCEPT !.pc = "finalizing", !.ok = b]
<1>1. work[w] \in WorkType /\ work[w].item \in Items
      /\ work[w].kind \in {"audit", "correction"}
  BY DEF WorkOK
<1>2. /\ x \in WorkType /\ x.pc = "finalizing"
      /\ x.item = work[w].item /\ x.kind = work[w].kind
  BY <1>1 DEF WorkType
<1>3. work' = [work EXCEPT ![w] = x]
  OBVIOUS
<1> HIDE DEF x
<1>4. work' \in [Workers -> WorkType]
  BY <1>2, <1>3
<1>5. work'[w] = x /\ \A s \in Workers \ {w} : work'[s] = work[s]
  BY <1>3
<1>6. WorkOK'
  BY <1>1, <1>2, <1>5 DEF WorkOK
<1> QED BY <1>4, <1>6

(* A mandatory audit is only counted off while one is pending. *)
LEMMA CompletedType ==
    ASSUME NEW r \in RolloutType, NEW i, NEW outcome,
           decision[i] = "first_50" => r.pending > 0
    PROVE  Completed(r, i, outcome) \in RolloutType
<1> DEFINE mandatory == decision[i] = "first_50"
           confirms  == outcome = "confirmed"
           pending   == IF mandatory THEN r.pending - 1 ELSE r.pending
           critical  == IF confirms THEN r.critical ELSE r.critical + 1
           confirmed == IF mandatory /\ confirms THEN r.confirmed + 1
                                                 ELSE r.confirmed
<1>1. /\ pending \in Nat /\ r.completed + 1 \in Nat
      /\ critical \in Nat /\ confirmed \in Nat
  BY DEF RolloutType
<1>2. Completed(r, i, outcome) =
        [r EXCEPT !.pending = pending, !.completed = r.completed + 1,
                  !.critical = critical, !.confirmed = confirmed]
  BY Zenon DEF Completed
<1> HIDE DEF pending, critical, confirmed
<1>3. [r EXCEPT !.pending = pending, !.completed = r.completed + 1,
                !.critical = critical, !.confirmed = confirmed] \in RolloutType
  BY <1>1 DEF RolloutType
<1> QED BY <1>2, <1>3, Zenon

LEMMA ControlOfType ==
    ASSUME NEW r \in RolloutType
    PROVE  Control(r) \in ControlType
BY DEF Control, RolloutType, ControlType

(* Verdicts and version bumps leave the control fields alone. *)
LEMMA CompletedControl ==
    ASSUME NEW r \in RolloutType, NEW i, NEW outcome
    PROVE  Control(Completed(r, i, outcome)) = Control(r)
BY DEF Completed, Control, RolloutType

LEMMA BumpedControl ==
    ASSUME NEW r \in RolloutType
    PROVE  Control(Bumped(r)) = Control(r)
BY DEF Bumped, Control, RolloutType

LEMMA ControlChangeType ==
    ASSUME rollout \in RolloutType, events \in Seq(EventType),
           NEW n \in RolloutType,
           NEW kind \in {"percentage_authorized", "breaker_opened",
                         "breaker_closed"},
           ControlChange(kind, n)
    PROVE  rollout' \in RolloutType /\ events' \in Seq(EventType)
<1>1. ControlEvent(kind, rollout, n) \in EventType
  BY ControlOfType DEF ControlEvent, EventType
<1> QED BY <1>1 DEF ControlChange

LEMMA OpenBreakerType ==
    ASSUME rollout \in RolloutType, events \in Seq(EventType),
           NEW r \in RolloutType, open_breaker(r)
    PROVE  rollout' \in RolloutType /\ events' \in Seq(EventType)
<1>1. Tripped(r) \in RolloutType
  BY TrippedType
<1>2. CASE rollout.breaker_open
  BY <1>1, <1>2 DEF open_breaker
<1>3. CASE ~rollout.breaker_open
  BY <1>1, <1>3, ControlChangeType DEF open_breaker
<1> QED BY <1>2, <1>3
-----------------------------------------------------------------------------
(* Type correctness. *)

LEMMA InitType == Init => TypeInv
<1> SUFFICES ASSUME Init PROVE TypeInv
  OBVIOUS
<1>1. rollout \in RolloutType
  BY DEF Init, DefaultRollout, RolloutType, Percentages
<1>2. /\ events \in Seq(EventType)
      /\ operatorView \in RolloutType \cup {None}
  BY DEF Init
<1>3. /\ launch \in [Items -> ControlType \cup {None}]
      /\ item \in [Items -> {"new", "pending_review", "human_resolved",
                             "auto_approved", "revoked"}]
      /\ decision \in [Items -> Cohorts \cup {None}]
      /\ assessment \in [Items -> {None} \cup
            [reason : Reasons \cup {"business_withdrawal"}, actor : Sessions]]
      /\ correction \in [Items -> {None, "revoke_pending", "revoke_failed",
                                   "revoked"}]
  BY DEF Init
<1>4. audit \in [Items -> AuditType]
  BY DEF Init, NoAudit, AuditType
<1>5. work \in [Workers -> WorkType] /\ WorkOK
  BY DEF Init, Idle, WorkType, WorkOK
<1>6. todo \subseteq Items \X {"audit", "correction"}
  BY DEF Init
<1> QED BY <1>1, <1>2, <1>3, <1>4, <1>5, <1>6 DEF TypeInv, TypeOK

LEMMA StepType == TypeInv /\ [Next]_vars => TypeInv'
<1> SUFFICES ASSUME TypeInv, [Next]_vars PROVE TypeInv'
  OBVIOUS
<1> USE DEF TypeInv
<1>1. ASSUME status PROVE TypeInv'
  BY <1>1 DEF status, TypeOK, WorkOK, ledger
<1>2. ASSUME NEW p \in {10, 100}, authorize_percentage(p) PROVE TypeInv'
  <2>1. p \in Percentages
    BY DEF Percentages
  <2>2. rollout' \in RolloutType /\ events' \in Seq(EventType)
    <3> DEFINE v == rollout.state_version + 1
               e == rollout.control_epoch + 1
               g == rollout.generation + 1
               n == [rollout EXCEPT !.state_version = v, !.control_epoch = e,
                                    !.percentage = p, !.generation = g]
    <3>0. rollout \in RolloutType
      BY DEF TypeOK
    <3>1. v \in Nat /\ e \in Nat /\ g \in Nat
      BY <3>0 DEF RolloutType
    <3>2. ControlChange("percentage_authorized", n)
      BY <1>2, Zenon DEF authorize_percentage
    <3> HIDE DEF v, e, g
    <3>3. n \in RolloutType
      BY <2>1, <3>1 DEF TypeOK, RolloutType
    <3> HIDE DEF n
    <3> QED BY <3>2, <3>3, ControlChangeType DEF TypeOK
  <2> QED BY <1>2, <2>2 DEF authorize_percentage, TypeOK, WorkOK, ledger
<1>3. ASSUME close_rollout_breaker PROVE TypeInv'
  <2>1. 0 \in Percentages
    BY DEF Percentages
  <2>2. rollout' \in RolloutType /\ events' \in Seq(EventType)
    BY <1>3, <2>1, ControlUpdateType, ControlChangeType, Zenon
       DEF close_rollout_breaker, TypeOK
  <2> QED BY <1>3, <2>2 DEF close_rollout_breaker, TypeOK, WorkOK, ledger
<1>4. ASSUME NEW b \in BOOLEAN, ShadowRecord(b) PROVE TypeInv'
  <2>1. rollout' \in RolloutType
    <3> DEFINE n == Bumped(rollout)
               d == n.shadow_completed + 1
               u == IF b THEN n.shadow_supported + 1 ELSE n.shadow_supported
    <3>1. n \in RolloutType
      BY BumpedType DEF TypeOK
    <3>2. rollout' = [n EXCEPT !.shadow_completed = d, !.shadow_supported = u]
      BY <1>4, Zenon DEF ShadowRecord
    <3> HIDE DEF n
    <3>3. d \in Nat /\ u \in Nat
      BY <3>1 DEF RolloutType
    <3> HIDE DEF d, u
    <3> QED BY <3>1, <3>2, <3>3 DEF RolloutType
  <2> QED BY <1>4, <2>1 DEF ShadowRecord, TypeOK, WorkOK, ledger
<1>5. ASSUME RecoveryScan PROVE TypeInv'
  BY <1>5 DEF RecoveryScan, Remediations, TypeOK, WorkOK, ledger
<1>6. ASSUME NEW x \in todo, RecoverNext(x) PROVE TypeInv'
  <2>1. x[1] \in Items /\ x[2] \in {"audit", "correction"}
    BY DEF TypeOK
  <2>2. RemediationOf(Recovery, x[1], x[2]) \in WorkType
    BY <2>1 DEF RemediationOf, WorkType
  <2> QED BY <1>6, <2>1, <2>2
          DEF RecoverNext, RemediationOf, TypeOK, WorkOK, ledger
<1>7. ASSUME NEW i \in Items, Launch(i) PROVE TypeInv'
  <2>1. Control(rollout) \in ControlType
    BY ControlOfType DEF TypeOK
  <2> QED BY <1>7, <2>1 DEF Launch, TypeOK, WorkOK
<1>8. ASSUME NEW i \in Items, HumanResolve(i) PROVE TypeInv'
  BY <1>8 DEF HumanResolve, TypeOK, WorkOK
<1>9. ASSUME NEW i \in Items, NEW c \in {"first_50", "sample", "not_selected"},
             reserve_auto_promotion(i, c)
      PROVE  TypeInv'
  <2>1. rollout' \in RolloutType
    <3> DEFINE n == Bumped(rollout)
               o == n.ordinal + 1
               t == IF c = "not_selected" THEN n.selected ELSE n.selected + 1
               q == IF c = "first_50" THEN n.pending + 1 ELSE n.pending
    <3>1. n \in RolloutType
      BY BumpedType DEF TypeOK
    <3>2. rollout' = [n EXCEPT !.ordinal = o, !.selected = t, !.pending = q]
      BY <1>9, Zenon DEF reserve_auto_promotion
    <3> HIDE DEF n
    <3>3. o \in Nat /\ t \in Nat /\ q \in Nat
      BY <3>1 DEF RolloutType
    <3> HIDE DEF o, t, q
    <3> QED BY <3>1, <3>2, <3>3 DEF RolloutType
  <2>2. audit' \in [Items -> AuditType]
    <3> DEFINE a == [audit[i] EXCEPT !.status = "pending"]
    <3>1. audit \in [Items -> AuditType]
      BY DEF TypeOK
    <3>2. a \in AuditType
      BY <3>1 DEF AuditType
    <3>3. audit' = audit \/ audit' = [audit EXCEPT ![i] = a]
      BY <1>9, Zenon DEF reserve_auto_promotion
    <3> HIDE DEF a
    <3> QED BY <3>1, <3>2, <3>3
  <2> QED BY <1>9, <2>1, <2>2
          DEF reserve_auto_promotion, TypeOK, WorkOK, Cohorts
<1>10. ASSUME NEW i \in Items, SourceInvalidated(i) PROVE TypeInv'
  <2>1. rollout' \in RolloutType
    <3>1. CASE audit[i].status = "pending"
      <4> DEFINE q == IF decision[i] = "first_50" THEN rollout.pending - 1
                                                  ELSE rollout.pending
                 v == rollout.invalidated + 1
      <4>1. rollout' = [rollout EXCEPT !.pending = q, !.invalidated = v]
        BY <1>10, <3>1, Zenon DEF SourceInvalidated
      <4>0. /\ rollout \in RolloutType
            /\ ~(decision[i] = "first_50" /\ rollout.pending <= 0)
        BY <1>10, <3>1 DEF SourceInvalidated, TypeOK
      <4>2. q \in Nat /\ v \in Nat
        BY <4>0 DEF RolloutType
      <4> HIDE DEF q, v
      <4> QED BY <4>1, <4>2 DEF TypeOK, RolloutType
    <3>2. CASE audit[i].status # "pending"
      BY <1>10, <3>2 DEF SourceInvalidated, TypeOK
    <3> QED BY <3>1, <3>2
  <2>2. audit' \in [Items -> AuditType]
    BY <1>10 DEF SourceInvalidated, TypeOK, AuditType
  <2> QED BY <1>10, <2>1, <2>2 DEF SourceInvalidated, TypeOK, WorkOK
<1>11. ASSUME NEW i \in Items, NEW s \in Sessions, ConfirmLocate(s, i)
       PROVE  TypeInv'
  BY <1>11 DEF ConfirmLocate, Idle, TypeOK, WorkOK, WorkType, Workers, ledger
<1>12. ASSUME NEW i \in Items, NEW s \in Sessions, ConfirmManual(s, i)
       PROVE  TypeInv'
  <2>1. rollout' \in RolloutType
    BY <1>12, CompletedType, BumpedType DEF ConfirmManual, TypeOK
  <2>2. audit' \in [Items -> AuditType]
    BY <1>12 DEF ConfirmManual, Verdict, TypeOK, AuditType
  <2> QED BY <1>12, <2>1, <2>2 DEF ConfirmManual, TypeOK, WorkOK
<1>13. ASSUME NEW i \in Items, NEW s \in Sessions, BusinessWithdrawal(s, i)
       PROVE  TypeInv'
  BY <1>13 DEF BusinessWithdrawal, TypeOK, WorkOK
<1>14. ASSUME NEW i \in Items, NEW s \in Sessions, NEW r \in Reasons,
              QualityCritical(s, i, r)
       PROVE  TypeInv'
  <2>1. Completed(rollout, i, r) \in RolloutType
    BY <1>14, CompletedType, SMTT(30) DEF QualityCritical, TypeOK, RolloutType
  <2>2. rollout' \in RolloutType /\ events' \in Seq(EventType)
    BY <1>14, <2>1, OpenBreakerType DEF QualityCritical, TypeOK
  <2>3. audit' \in [Items -> AuditType]
    BY <1>14 DEF QualityCritical, Verdict, TypeOK, AuditType
  <2>4. work' \in [Workers -> WorkType] /\ WorkOK'
    BY <1>14 DEF QualityCritical, RemediationOf, TypeOK, WorkOK, WorkType,
                 Workers
  <2> QED BY <1>14, <2>2, <2>3, <2>4
          DEF QualityCritical, QualityAdmitted, TypeOK
<1>15. ASSUME NEW i \in Items, NEW s \in Sessions, NEW r \in Reasons,
              QualityCorrection(s, i, r)
       PROVE  TypeInv'
  <2>1. rollout' \in RolloutType /\ events' \in Seq(EventType)
    <3>1. CASE correction[i] = None
      <4> DEFINE n == [rollout EXCEPT !.corrected = @ + 1]
      <4>1. rollout \in RolloutType
        BY DEF TypeOK
      <4>2. n \in RolloutType
        BY <4>1 DEF RolloutType
      <4>3. open_breaker(n)
        BY <1>15, <3>1, Zenon DEF QualityCorrection
      <4> HIDE DEF n
      <4> QED BY <4>2, <4>3, OpenBreakerType DEF TypeOK
    <3>2. CASE correction[i] # None
      BY <1>15, <3>2 DEF QualityCorrection, TypeOK
    <3> QED BY <3>1, <3>2
  <2>2. work' \in [Workers -> WorkType] /\ WorkOK'
    BY <1>15 DEF QualityCorrection, RemediationOf, TypeOK, WorkOK, WorkType,
                 Workers
  <2>3. correction' \in [Items -> {None, "revoke_pending", "revoke_failed",
                                   "revoked"}]
    BY <1>15 DEF QualityCorrection, TypeOK
  <2> QED BY <1>15, <2>1, <2>2, <2>3
          DEF QualityCorrection, QualityAdmitted, TypeOK
<1>16. ASSUME NEW i \in Items, NEW s \in Sessions, NEW r \in Reasons,
              QualityReplay(s, i, r)
       PROVE  TypeInv'
  <2>1. work' \in [Workers -> WorkType] /\ WorkOK'
    BY <1>16 DEF QualityReplay, RemediationOf, TypeOK, WorkOK, WorkType,
                 Workers
  <2> QED BY <1>16, <2>1 DEF QualityReplay, QualityAdmitted, TypeOK
<1>17. ASSUME NEW s \in Sessions, ConfirmWrite(s) PROVE TypeInv'
  <2> DEFINE i == work[s].item
  <2>1. i \in Items
    BY <1>17 DEF ConfirmWrite, WorkOK, Workers
  <2>2. work' \in [Workers -> WorkType] /\ WorkOK'
    BY <1>17 DEF ConfirmWrite, Idle, TypeOK, WorkOK, WorkType, Workers
  <2>3. rollout' \in RolloutType
    <3>1. CASE UNCHANGED rollout
      BY <3>1 DEF TypeOK
    <3>2. CASE rollout' = Bumped(Completed(rollout, i, "confirmed"))
               /\ ~(decision[i] = "first_50" /\ rollout.pending <= 0)
      <4>1. decision[i] = "first_50" => rollout.pending > 0
        BY <3>2, SMTT(30) DEF TypeOK, RolloutType
      <4>2. Completed(rollout, i, "confirmed") \in RolloutType
        BY <4>1, CompletedType DEF TypeOK
      <4> QED BY <3>2, <4>2, BumpedType
    <3> QED BY <1>17, <3>1, <3>2, Zenon DEF ConfirmWrite
  <2>4. audit' \in [Items -> AuditType]
    BY <1>17, <2>1 DEF ConfirmWrite, Verdict, TypeOK, AuditType
  <2> QED BY <1>17, <2>2, <2>3, <2>4 DEF ConfirmWrite, TypeOK
<1>18. ASSUME NEW w \in Workers, RevokeSucceeds(w) PROVE TypeInv'
  <2>1. work' = [work EXCEPT ![w].pc = "finalizing", ![w].ok = TRUE]
        /\ work[w].pc = "revoking"
    BY <1>18 DEF RevokeSucceeds
  <2>2. work' \in [Workers -> WorkType] /\ WorkOK'
    BY <2>1, FinalizingType DEF TypeOK
  <2> QED BY <1>18, <2>2 DEF RevokeSucceeds, TypeOK
<1>19. ASSUME NEW w \in Workers, RevokeFails(w) PROVE TypeInv'
  <2>1. work' = [work EXCEPT ![w].pc = "finalizing", ![w].ok = FALSE]
        /\ work[w].pc = "revoking"
    BY <1>19 DEF RevokeFails
  <2>2. work' \in [Workers -> WorkType] /\ WorkOK'
    BY <2>1, FinalizingType DEF TypeOK
  <2> QED BY <1>19, <2>2 DEF RevokeFails, TypeOK, ledger
<1>20. ASSUME NEW w \in Workers, Finalize(w) PROVE TypeInv'
  <2>1. work[w].item \in Items
    BY <1>20 DEF Finalize, WorkOK
  <2>2. work' \in [Workers -> WorkType] /\ WorkOK'
    BY <1>20 DEF Finalize, Idle, TypeOK, WorkOK, WorkType
  <2>3. audit' \in [Items -> AuditType]
    <3> DEFINE i == work[w].item
               ok == work[w].ok
               st == IF ok THEN "completed" ELSE "remediation_required"
               co == IF ok THEN None ELSE "revoke_failed"
    <3>1. CASE UNCHANGED audit
      BY <3>1 DEF TypeOK
    <3>2. CASE audit' = [audit EXCEPT ![i].status = st, ![i].code = co]
      <4>1. audit[i] \in AuditType
        BY <2>1 DEF TypeOK
      <4>2. [[audit[i] EXCEPT !.status = st] EXCEPT !.code = co] \in AuditType
        BY <4>1 DEF AuditType
      <4> HIDE DEF st, co
      <4>3. audit' = [audit EXCEPT
                        ![i] = [[@ EXCEPT !.status = st] EXCEPT !.code = co]]
        BY <3>2, <2>1, <4>1 DEF TypeOK, AuditType
      <4> QED BY <4>2, <4>3, <2>1 DEF TypeOK
    <3>3. \/ UNCHANGED audit
          \/ write_finalize(i, work[w].kind, ok)
      BY <1>20 DEF Finalize
    <3> QED BY <3>1, <3>2, <3>3 DEF write_finalize
  <2>4. correction' \in [Items -> {None, "revoke_pending", "revoke_failed",
                                   "revoked"}]
    BY <1>20, <2>1 DEF Finalize, write_finalize, TypeOK
  <2>5. todo' \subseteq Items \X {"audit", "correction"}
    BY <1>20 DEF Finalize, TypeOK
  <2> QED BY <1>20, <2>2, <2>3, <2>4, <2>5 DEF Finalize, TypeOK
<1>21. ASSUME NEW w \in Workers, Crash(w) PROVE TypeInv'
  BY <1>21 DEF Crash, Idle, TypeOK, WorkOK, WorkType, ledger
<1>22. CASE UNCHANGED vars
  BY <1>22 DEF vars, ledger, TypeOK, WorkOK
<1> QED
  BY <1>1, <1>2, <1>3, <1>4, <1>5, <1>6, <1>7, <1>8, <1>9, <1>10, <1>11,
     <1>12, <1>13, <1>14, <1>15, <1>16, <1>17, <1>18, <1>19, <1>20, <1>21,
     <1>22, Zenon DEF Next

(* Every reachable rollout row and ledger holds values its CHECK constraints *)
(* admit; no decrement of complete() or of a source invalidation takes a     *)
(* counter below zero.                                                       *)
THEOREM TypeCorrect == Spec => []TypeOK
<1>1. TypeInv => TypeOK
  BY DEF TypeInv
<1> QED BY InitType, StepType, <1>1, PTL DEF Spec

-----------------------------------------------------------------------------
(* Which actions touch the rollout row, and how: every other step leaves it  *)
(* and its event ledger as they are.                                         *)

RolloutStep ==
    \/ \E p \in {10, 100} : authorize_percentage(p)
    \/ close_rollout_breaker
    \/ \E b \in BOOLEAN : ShadowRecord(b)
    \/ \E i \in Items, c \in Cohorts : reserve_auto_promotion(i, c)
    \/ \E i \in Items : SourceInvalidated(i)
    \/ \E i \in Items, s \in Sessions : ConfirmManual(s, i)
    \/ \E i \in Items, s \in Sessions, r \in Reasons : QualityCritical(s, i, r)
    \/ \E i \in Items, s \in Sessions, r \in Reasons :
            QualityCorrection(s, i, r) /\ correction[i] = None
    \/ \E s \in Sessions : ConfirmWrite(s)

LEMMA RolloutSteps ==
    [Next]_vars => RolloutStep \/ UNCHANGED <<rollout, events>>
<1> SUFFICES ASSUME [Next]_vars PROVE RolloutStep \/ UNCHANGED <<rollout, events>>
  OBVIOUS
<1>1. CASE UNCHANGED vars
  BY <1>1 DEF vars
<1>2. CASE \E i \in Items, s \in Sessions, r \in Reasons :
             QualityCorrection(s, i, r) \/ QualityReplay(s, i, r)
  BY <1>2 DEF RolloutStep, QualityCorrection, QualityReplay
<1>3. CASE \E i \in Items, s \in Sessions :
             ConfirmLocate(s, i) \/ BusinessWithdrawal(s, i)
  BY <1>3 DEF ConfirmLocate, BusinessWithdrawal
<1>4. CASE \E w \in Workers : \/ RevokeSucceeds(w) \/ RevokeFails(w)
                              \/ Finalize(w) \/ Crash(w)
  BY <1>4 DEF RevokeSucceeds, RevokeFails, Finalize, Crash
<1>5. CASE status \/ RecoveryScan \/ \E x \in todo : RecoverNext(x)
  BY <1>5 DEF status, RecoveryScan, RecoverNext
<1>6. CASE \E i \in Items : Launch(i) \/ HumanResolve(i)
  BY <1>6 DEF Launch, HumanResolve
<1> QED BY <1>1, <1>2, <1>3, <1>4, <1>5, <1>6, Zenon
        DEF Next, RolloutStep, Cohorts

-----------------------------------------------------------------------------
(* Mandatory audit slots. *)

(* complete() moves a mandatory audit out of the pending ones and into the   *)
(* confirmed ones at most; the version and the latch do not count.           *)
LEMMA CompletedSlots ==
    ASSUME NEW r \in RolloutType, NEW i, NEW outcome
    PROVE  Completed(r, i, outcome).confirmed + Completed(r, i, outcome).pending
                <= r.confirmed + r.pending
BY DEF Completed, RolloutType

LEMMA BumpedSlots ==
    ASSUME NEW r \in RolloutType
    PROVE  Bumped(r).confirmed = r.confirmed /\ Bumped(r).pending = r.pending
BY DEF Bumped, RolloutType

LEMMA OpenBreakerSlots ==
    ASSUME NEW r \in RolloutType, open_breaker(r)
    PROVE  rollout'.confirmed = r.confirmed /\ rollout'.pending = r.pending
<1>1. rollout' = Tripped(r)
  BY DEF open_breaker, ControlChange
<1> QED BY <1>1 DEF Tripped, RolloutType

LEMMA SlotsStep ==
    TypeInv /\ MandatorySlots /\ [Next]_vars => MandatorySlots'
<1> SUFFICES ASSUME TypeInv, MandatorySlots, [Next]_vars
             PROVE  MandatorySlots'
  OBVIOUS
<1> USE BoundsAssumption DEF MandatorySlots
<1> rollout \in RolloutType
  BY DEF TypeInv, TypeOK
<1>1. CASE UNCHANGED <<rollout, events>>
  BY <1>1
<1>2. ASSUME NEW p \in {10, 100}, authorize_percentage(p)
      PROVE  MandatorySlots'
  BY <1>2 DEF authorize_percentage, ControlChange, RolloutType
<1>3. ASSUME close_rollout_breaker PROVE MandatorySlots'
  BY <1>3 DEF close_rollout_breaker, ControlChange, RolloutType
<1>4. ASSUME NEW b \in BOOLEAN, ShadowRecord(b) PROVE MandatorySlots'
  BY <1>4 DEF ShadowRecord, Bumped, RolloutType
<1>5. ASSUME NEW i \in Items, NEW c \in Cohorts, reserve_auto_promotion(i, c)
      PROVE  MandatorySlots'
  BY <1>5 DEF reserve_auto_promotion, SelectAudit, Bumped, RolloutType
<1>6. ASSUME NEW i \in Items, SourceInvalidated(i) PROVE MandatorySlots'
  BY <1>6 DEF SourceInvalidated, RolloutType
<1>7. ASSUME NEW i \in Items, NEW s \in Sessions, ConfirmManual(s, i)
      PROVE  MandatorySlots'
  <2> DEFINE n == Completed(rollout, i, "confirmed")
  <2>1. decision[i] # "first_50" /\ rollout' = Bumped(n)
    BY <1>7 DEF ConfirmManual
  <2>2. n \in RolloutType /\ n.confirmed + n.pending
                              <= rollout.confirmed + rollout.pending
    BY <2>1, CompletedType, CompletedSlots
  <2> HIDE DEF n
  <2> QED BY <2>1, <2>2, BumpedSlots DEF RolloutType
<1>8. ASSUME NEW i \in Items, NEW s \in Sessions, NEW r \in Reasons,
             QualityCritical(s, i, r)
      PROVE  MandatorySlots'
  <2> DEFINE n == Completed(rollout, i, r)
  <2>1. open_breaker(n) /\ ~(decision[i] = "first_50" /\ rollout.pending <= 0)
    BY <1>8 DEF QualityCritical
  <2>2. n \in RolloutType /\ n.confirmed + n.pending
                              <= rollout.confirmed + rollout.pending
    BY <2>1, CompletedType, CompletedSlots DEF RolloutType
  <2> HIDE DEF n
  <2> QED BY <2>1, <2>2, OpenBreakerSlots DEF RolloutType
<1>9. ASSUME NEW i \in Items, NEW s \in Sessions, NEW r \in Reasons,
             QualityCorrection(s, i, r), correction[i] = None
      PROVE  MandatorySlots'
  <2> DEFINE n == [rollout EXCEPT !.corrected = @ + 1]
  <2>1. open_breaker(n)
    BY <1>9, Zenon DEF QualityCorrection
  <2>2. n \in RolloutType /\ n.confirmed = rollout.confirmed
                          /\ n.pending = rollout.pending
    BY DEF RolloutType
  <2> HIDE DEF n
  <2> QED BY <2>1, <2>2, OpenBreakerSlots
<1>10. ASSUME NEW s \in Sessions, ConfirmWrite(s) PROVE MandatorySlots'
  <2> DEFINE i == work[s].item
             n == Completed(rollout, i, "confirmed")
  <2>1. CASE UNCHANGED rollout
    BY <2>1
  <2>2. CASE /\ rollout' = Bumped(n)
             /\ ~(decision[i] = "first_50" /\ rollout.pending <= 0)
    <3>1. n \in RolloutType /\ n.confirmed + n.pending
                                <= rollout.confirmed + rollout.pending
      BY <2>2, CompletedType, CompletedSlots DEF RolloutType
    <3> HIDE DEF n
    <3> QED BY <2>2, <3>1, BumpedSlots DEF RolloutType
  <2> QED BY <1>10, <2>1, <2>2, Zenon DEF ConfirmWrite
<1> QED BY <1>1, <1>2, <1>3, <1>4, <1>5, <1>6, <1>7, <1>8, <1>9, <1>10,
           RolloutSteps DEF RolloutStep

(* Confirmed and pending mandatory audits never exceed the configured number *)
(* of slots, for any number of items, auditors and slots: the CHECK          *)
(* ck_auto_review_rollout_mandatory_slots never fires on a reservation or a  *)
(* completion.                                                               *)
THEOREM SlotsBounded == Spec => []MandatorySlots
<1>1. Init => MandatorySlots
  BY BoundsAssumption DEF Init, DefaultRollout, MandatorySlots
<1> QED BY <1>1, InitType, StepType, SlotsStep, PTL DEF Spec

-----------------------------------------------------------------------------
(* The control-event ledger. *)

Kinds == {"percentage_authorized", "breaker_opened", "breaker_closed"}

(* A step that appends no event leaves the control fields alone. *)
LEMMA ControlSteps ==
    TypeInv /\ [Next]_vars =>
        \/ UNCHANGED events /\ Control(rollout') = Control(rollout)
        \/ \E kind \in Kinds, n \in RolloutType : ControlChange(kind, n)
<1> SUFFICES ASSUME TypeInv, [Next]_vars
             PROVE  \/ UNCHANGED events /\ Control(rollout') = Control(rollout)
                    \/ \E kind \in Kinds, n \in RolloutType :
                            ControlChange(kind, n)
  OBVIOUS
<1> DEFINE Kept == UNCHANGED events /\ Control(rollout') = Control(rollout)
           Logged == \E kind \in Kinds, n \in RolloutType :
                            ControlChange(kind, n)
<1> rollout \in RolloutType
  BY DEF TypeInv, TypeOK
<1> rollout' \in RolloutType
  BY StepType DEF TypeInv, TypeOK
<1>0. ASSUME NEW kind \in Kinds, ControlChange(kind, rollout') PROVE Logged
  BY <1>0
<1>1. CASE UNCHANGED <<rollout, events>>
  BY <1>1
<1>2. ASSUME NEW p \in {10, 100}, authorize_percentage(p) PROVE Logged
  <2>1. ControlChange("percentage_authorized", rollout')
    BY <1>2, Zenon DEF authorize_percentage, ControlChange
  <2> QED BY <1>0, <2>1 DEF Kinds
<1>3. ASSUME close_rollout_breaker PROVE Logged
  <2>1. ControlChange("breaker_closed", rollout')
    BY <1>3, Zenon DEF close_rollout_breaker, ControlChange
  <2> QED BY <1>0, <2>1 DEF Kinds
<1>4. ASSUME NEW b \in BOOLEAN, ShadowRecord(b) PROVE Kept
  BY <1>4 DEF ShadowRecord, Bumped, Control, RolloutType
<1>5. ASSUME NEW i \in Items, NEW c \in Cohorts, reserve_auto_promotion(i, c)
      PROVE  Kept
  BY <1>5 DEF reserve_auto_promotion, Bumped, Control, RolloutType
<1>6. ASSUME NEW i \in Items, SourceInvalidated(i) PROVE Kept
  BY <1>6 DEF SourceInvalidated, Control, RolloutType
<1>7. ASSUME NEW i \in Items, NEW s \in Sessions, ConfirmManual(s, i)
      PROVE  Kept
  BY <1>7, CompletedType, CompletedControl, BumpedControl DEF ConfirmManual
<1>8. ASSUME NEW r \in RolloutType, open_breaker(r),
             Control(r) = Control(rollout)
      PROVE  Kept \/ Logged
  <2>1. CASE rollout.breaker_open
    <3>1. r.breaker_open
      BY <1>8, <2>1 DEF Control
    <3> QED BY <1>8, <2>1, <3>1 DEF open_breaker, Tripped, Control, RolloutType
  <2>2. CASE ~rollout.breaker_open
    <3>1. ControlChange("breaker_opened", rollout')
      BY <1>8, <2>2, Zenon DEF open_breaker, ControlChange
    <3> QED BY <1>0, <3>1 DEF Kinds
  <2> QED BY <2>1, <2>2
<1>9. ASSUME NEW i \in Items, NEW s \in Sessions, NEW r \in Reasons,
             QualityCritical(s, i, r)
      PROVE  Kept \/ Logged
  <2>1. /\ open_breaker(Completed(rollout, i, r))
        /\ decision[i] = "first_50" => rollout.pending > 0
    BY <1>9 DEF QualityCritical, RolloutType
  <2> QED BY <1>8, <2>1, CompletedType, CompletedControl, Zenon
<1>10. ASSUME NEW i \in Items, NEW s \in Sessions, NEW r \in Reasons,
              QualityCorrection(s, i, r), correction[i] = None
      PROVE  Kept \/ Logged
  <2> DEFINE n == [rollout EXCEPT !.corrected = @ + 1]
  <2>1. open_breaker(n)
    BY <1>10, Zenon DEF QualityCorrection
  <2>2. n \in RolloutType /\ Control(n) = Control(rollout)
    BY DEF RolloutType, Control
  <2> HIDE DEF n
  <2> QED BY <1>8, <2>1, <2>2, Zenon
<1>11. ASSUME NEW s \in Sessions, ConfirmWrite(s) PROVE Kept
  <2> DEFINE i == work[s].item
             n == Completed(rollout, i, "confirmed")
  <2>1. UNCHANGED events
    BY <1>11 DEF ConfirmWrite
  <2>2. CASE UNCHANGED rollout
    BY <2>1, <2>2
  <2>3. CASE /\ rollout' = Bumped(n)
             /\ ~(decision[i] = "first_50" /\ rollout.pending <= 0)
    <3>1. n \in RolloutType /\ Control(n) = Control(rollout)
      BY <2>3, CompletedType, CompletedControl DEF RolloutType
    <3> QED BY <2>1, <2>3, <3>1, BumpedControl, Zenon
  <2> QED BY <1>11, <2>2, <2>3, Zenon DEF ConfirmWrite
<1> QED BY <1>1, <1>2, <1>3, <1>4, <1>5, <1>6, <1>7, <1>9, <1>10, <1>11,
           RolloutSteps DEF RolloutStep

LEMMA EventsStep ==
    TypeInv /\ EventsReplayToRow /\ [Next]_vars => EventsReplayToRow'
<1> SUFFICES ASSUME TypeInv, EventsReplayToRow, [Next]_vars
             PROVE  EventsReplayToRow'
  OBVIOUS
<1> events \in Seq(EventType)
  BY DEF TypeInv, TypeOK
<1>1. CASE UNCHANGED events /\ Control(rollout') = Control(rollout)
  BY <1>1 DEF EventsReplayToRow
<1>2. ASSUME NEW kind \in Kinds, NEW n \in RolloutType,
             ControlChange(kind, n)
      PROVE  EventsReplayToRow'
  <2> DEFINE e == ControlEvent(kind, rollout, n)
  <2>1. e.prior = Control(rollout) /\ e.new = Control(n)
    BY DEF ControlEvent
  <2>2. rollout' = n /\ events' = Append(events, e)
    BY <1>2 DEF ControlChange
  <2> HIDE DEF e
  <2>3. /\ Len(events) \in Nat /\ Len(events') = Len(events) + 1
        /\ \A k \in 1..Len(events) : events'[k] = events[k]
        /\ events'[Len(events) + 1] = e
    BY <2>2
  <2> QED BY <2>1, <2>2, <2>3 DEF EventsReplayToRow
<1> QED BY <1>1, <1>2, ControlSteps

(* The control events replay to the rollout row: no path changes the latch,  *)
(* the breaker, the generation or the epoch without the event that says so,  *)
(* and no event is logged for a change that did not happen.                  *)
THEOREM EventsReplay == Spec => []EventsReplayToRow
<1>1. Init => EventsReplayToRow
  BY DEF Init, EventsReplayToRow
<1> QED BY <1>1, InitType, StepType, EventsStep, PTL DEF Spec

-----------------------------------------------------------------------------
(* The operator's compare-and-swap. *)

(* A row update moves the version or does nothing but invalidate audits. *)
VersionGuards(r, n) ==
    \/ n.state_version > r.state_version
    \/ n.state_version = r.state_version /\ DiffersByInvalidations(r, n)

(* DiffersByInvalidations counter by counter. *)
LEMMA DiffersIs ==
    ASSUME NEW r \in RolloutType, NEW n \in RolloutType
    PROVE  DiffersByInvalidations(r, n) <=>
             /\ n.pending <= r.pending
             /\ r.pending + r.invalidated <= n.pending + n.invalidated
             /\ n.shadow_completed = r.shadow_completed
             /\ n.shadow_supported = r.shadow_supported
             /\ n.ordinal = r.ordinal
             /\ n.selected = r.selected
             /\ n.completed = r.completed
             /\ n.critical = r.critical
             /\ n.confirmed = r.confirmed
             /\ n.corrected = r.corrected
BY DEF DiffersByInvalidations, Metrics, RolloutType

(* Invalidations of two steps are invalidations. *)
LEMMA InvalidationsAddUp ==
    ASSUME NEW r \in RolloutType, NEW m \in RolloutType, NEW n \in RolloutType,
           DiffersByInvalidations(r, m), DiffersByInvalidations(m, n)
    PROVE  DiffersByInvalidations(r, n)
<1>1. /\ r.pending \in Nat /\ m.pending \in Nat /\ n.pending \in Nat
      /\ r.invalidated \in Nat /\ m.invalidated \in Nat
      /\ n.invalidated \in Nat
  BY DEF RolloutType
<1> QED BY <1>1, DiffersIs

LEMMA CompletedVersion ==
    ASSUME NEW r \in RolloutType, NEW i, NEW outcome
    PROVE  Completed(r, i, outcome).state_version = r.state_version
BY DEF Completed, RolloutType

LEMMA BumpedVersion ==
    ASSUME NEW r \in RolloutType
    PROVE  Bumped(r).state_version > r.state_version
BY DEF Bumped, RolloutType

LEMMA OpenBreakerVersion ==
    ASSUME NEW r \in RolloutType, open_breaker(r)
    PROVE  rollout'.state_version > r.state_version
<1>1. rollout' = Tripped(r)
  BY DEF open_breaker, ControlChange
<1> QED BY <1>1 DEF Tripped, RolloutType

LEMMA VersionStep ==
    TypeInv /\ [Next]_vars => VersionGuards(rollout, rollout')
<1> SUFFICES ASSUME TypeInv, [Next]_vars PROVE VersionGuards(rollout, rollout')
  OBVIOUS
<1> USE DEF VersionGuards
<1> rollout \in RolloutType
  BY DEF TypeInv, TypeOK
<1>0. ASSUME UNCHANGED rollout PROVE VersionGuards(rollout, rollout')
  <2>1. DiffersByInvalidations(rollout, rollout)
    BY DiffersIs DEF RolloutType
  <2> QED BY <1>0, <2>1, Zenon
<1>1. CASE UNCHANGED <<rollout, events>>
  BY <1>0, <1>1
<1>2. ASSUME NEW p \in {10, 100}, authorize_percentage(p)
      PROVE  VersionGuards(rollout, rollout')
  BY <1>2, SMTT(30) DEF authorize_percentage, ControlChange, RolloutType
<1>3. ASSUME close_rollout_breaker PROVE VersionGuards(rollout, rollout')
  BY <1>3, SMTT(30) DEF close_rollout_breaker, ControlChange, RolloutType
<1>4. ASSUME NEW b \in BOOLEAN, ShadowRecord(b)
      PROVE  VersionGuards(rollout, rollout')
  BY <1>4 DEF ShadowRecord, Bumped, RolloutType
<1>5. ASSUME NEW i \in Items, NEW c \in Cohorts, reserve_auto_promotion(i, c)
      PROVE  VersionGuards(rollout, rollout')
  BY <1>5 DEF reserve_auto_promotion, Bumped, RolloutType
<1>6. ASSUME NEW i \in Items, SourceInvalidated(i)
      PROVE  VersionGuards(rollout, rollout')
  <2> DEFINE n == [rollout EXCEPT
                    !.pending = IF decision[i] = "first_50" THEN @ - 1 ELSE @,
                    !.invalidated = @ + 1]
  <2>1. CASE UNCHANGED rollout
    BY <1>0, <2>1
  <2>2. CASE rollout' = n
    <3>1. rollout' \in RolloutType
      BY StepType DEF TypeInv, TypeOK
    <3>2. /\ rollout'.invalidated = rollout.invalidated + 1
          /\ \/ rollout'.pending = rollout.pending
             \/ rollout'.pending = rollout.pending - 1
          /\ rollout.pending \in Nat /\ rollout.invalidated \in Nat
          /\ rollout'.state_version = rollout.state_version
      BY <2>2 DEF RolloutType
    <3>3. /\ rollout'.shadow_completed = rollout.shadow_completed
          /\ rollout'.shadow_supported = rollout.shadow_supported
          /\ rollout'.ordinal = rollout.ordinal
          /\ rollout'.selected = rollout.selected
          /\ rollout'.completed = rollout.completed
          /\ rollout'.critical = rollout.critical
          /\ rollout'.confirmed = rollout.confirmed
          /\ rollout'.corrected = rollout.corrected
      BY <2>2 DEF RolloutType
    <3> HIDE DEF n
    <3>4. DiffersByInvalidations(rollout, rollout')
      BY <3>1, <3>2, <3>3, DiffersIs
    <3> QED BY <3>2, <3>4
  <2> QED BY <1>6, <2>1, <2>2, Zenon DEF SourceInvalidated
<1>7. ASSUME NEW i \in Items, NEW s \in Sessions, ConfirmManual(s, i)
      PROVE  VersionGuards(rollout, rollout')
  BY <1>7, CompletedType, CompletedVersion, BumpedVersion DEF ConfirmManual
<1>8. ASSUME NEW i \in Items, NEW s \in Sessions, NEW r \in Reasons,
             QualityCritical(s, i, r)
      PROVE  VersionGuards(rollout, rollout')
  <2>1. /\ open_breaker(Completed(rollout, i, r))
        /\ decision[i] = "first_50" => rollout.pending > 0
    BY <1>8 DEF QualityCritical, RolloutType
  <2>2. Completed(rollout, i, r) \in RolloutType
    BY <2>1, CompletedType
  <2> QED BY <2>1, <2>2, OpenBreakerVersion, CompletedVersion
<1>9. ASSUME NEW i \in Items, NEW s \in Sessions, NEW r \in Reasons,
             QualityCorrection(s, i, r), correction[i] = None
      PROVE  VersionGuards(rollout, rollout')
  <2> DEFINE n == [rollout EXCEPT !.corrected = @ + 1]
  <2>1. open_breaker(n)
    BY <1>9, Zenon DEF QualityCorrection
  <2>2. n \in RolloutType /\ n.state_version = rollout.state_version
    BY DEF RolloutType
  <2> HIDE DEF n
  <2> QED BY <2>1, <2>2, OpenBreakerVersion
<1>10. ASSUME NEW s \in Sessions, ConfirmWrite(s)
       PROVE  VersionGuards(rollout, rollout')
  <2> DEFINE i == work[s].item
             n == Completed(rollout, i, "confirmed")
  <2>1. CASE UNCHANGED rollout
    BY <1>0, <2>1
  <2>2. CASE /\ rollout' = Bumped(n)
             /\ ~(decision[i] = "first_50" /\ rollout.pending <= 0)
    <3>1. n \in RolloutType /\ n.state_version = rollout.state_version
      BY <2>2, CompletedType, CompletedVersion DEF RolloutType
    <3> HIDE DEF n
    <3> QED BY <2>2, <3>1, BumpedVersion
  <2> QED BY <1>10, <2>1, <2>2, Zenon DEF ConfirmWrite
<1> QED BY <1>1, <1>2, <1>3, <1>4, <1>5, <1>6, <1>7, <1>8, <1>9, <1>10,
           RolloutSteps DEF RolloutStep

(* What the operator read is an older version of the row, or the row as it   *)
(* was before audits were invalidated.                                       *)
ViewInv == operatorView # None => VersionGuards(operatorView, rollout)

LEMMA OperatorSteps ==
    [Next]_vars =>
        \/ UNCHANGED operatorView
        \/ operatorView' = rollout /\ UNCHANGED rollout
        \/ /\ operatorView' = None
           /\ rollout.state_version = operatorView.state_version
<1> SUFFICES ASSUME Next
             PROVE  \/ UNCHANGED operatorView
                    \/ operatorView' = rollout /\ UNCHANGED rollout
                    \/ /\ operatorView' = None
                       /\ rollout.state_version = operatorView.state_version
  BY DEF vars
<1>1. CASE status
  BY <1>1 DEF status
<1>2. CASE close_rollout_breaker \/ \E p \in {10, 100} : authorize_percentage(p)
  BY <1>2 DEF close_rollout_breaker, authorize_percentage
<1>3. CASE \/ RecoveryScan \/ \E x \in todo : RecoverNext(x)
          \/ \E b \in BOOLEAN : ShadowRecord(b)
  BY <1>3 DEF RecoveryScan, RecoverNext, ShadowRecord
<1>4. ASSUME NEW i \in Items,
             \/ Launch(i) \/ HumanResolve(i) \/ SourceInvalidated(i)
             \/ \E c \in {"first_50", "sample", "not_selected"} :
                    reserve_auto_promotion(i, c)
      PROVE  UNCHANGED operatorView
  BY <1>4 DEF Launch, HumanResolve, SourceInvalidated, reserve_auto_promotion
<1>5. ASSUME NEW i \in Items, NEW s \in Sessions,
             \/ ConfirmLocate(s, i) \/ ConfirmManual(s, i)
             \/ BusinessWithdrawal(s, i) \/ ConfirmWrite(s)
      PROVE  UNCHANGED operatorView
  BY <1>5 DEF ConfirmLocate, ConfirmManual, BusinessWithdrawal, ConfirmWrite
<1>6. ASSUME NEW i \in Items, NEW s \in Sessions, NEW r \in Reasons,
             \/ QualityCritical(s, i, r) \/ QualityCorrection(s, i, r)
             \/ QualityReplay(s, i, r)
      PROVE  UNCHANGED operatorView
  BY <1>6 DEF QualityCritical, QualityCorrection, QualityReplay
<1>7. ASSUME NEW s \in Sessions, ConfirmWrite(s) PROVE UNCHANGED operatorView
  BY <1>7 DEF ConfirmWrite
<1>8. ASSUME NEW w \in Workers, \/ RevokeSucceeds(w) \/ RevokeFails(w)
                                \/ Finalize(w) \/ Crash(w)
      PROVE  UNCHANGED operatorView
  BY <1>8 DEF RevokeSucceeds, RevokeFails, Finalize, Crash
<1> QED BY <1>1, <1>2, <1>3, <1>4, <1>5, <1>6, <1>7, <1>8 DEF Next

LEMMA ViewStep == TypeInv /\ ViewInv /\ [Next]_vars => ViewInv'
<1> SUFFICES ASSUME TypeInv, ViewInv, [Next]_vars, operatorView' # None
             PROVE  VersionGuards(operatorView', rollout')
  BY DEF ViewInv
<1> rollout \in RolloutType /\ operatorView \in RolloutType \cup {None}
  BY DEF TypeInv, TypeOK
<1> rollout' \in RolloutType
  BY StepType DEF TypeInv, TypeOK
<1>1. CASE operatorView' = rollout /\ UNCHANGED rollout
  BY <1>1, DiffersIs DEF VersionGuards, RolloutType
<1>2. CASE UNCHANGED operatorView
  <2>1. VersionGuards(rollout, rollout')
    BY VersionStep
  <2>2. /\ operatorView.state_version \in Nat /\ rollout.state_version \in Nat
        /\ rollout'.state_version \in Nat
    BY <1>2 DEF RolloutType
  <2>3. VersionGuards(operatorView, rollout)
    BY <1>2 DEF ViewInv
  <2>4. CASE /\ DiffersByInvalidations(operatorView, rollout)
             /\ DiffersByInvalidations(rollout, rollout')
    <3>1. DiffersByInvalidations(operatorView, rollout')
      BY <1>2, <2>4, InvalidationsAddUp
    <3> QED BY <1>2, <2>1, <2>2, <2>3, <3>1 DEF VersionGuards
  <2> QED BY <1>2, <2>1, <2>2, <2>3, <2>4 DEF VersionGuards
<1> QED BY <1>1, <1>2, OperatorSteps

(* An authorization or a breaker close is decided on the counters the        *)
(* operator read, but for audits that source invalidation ended since: every *)
(* other writer between status and command moves the version the command     *)
(* compares, and that one changes nothing but the two counters it may.       *)
THEOREM OperatorActs == Spec => OperatorMissesOnlyInvalidations
<1>1. Init => ViewInv
  BY DEF Init, ViewInv
<1>2. TypeInv /\ ViewInv /\ [Next]_vars =>
        [operatorView # None /\ operatorView' = None
            => DiffersByInvalidations(operatorView, rollout)]_vars
  <2> SUFFICES ASSUME TypeInv, ViewInv, [Next]_vars,
                      operatorView # None, operatorView' = None
               PROVE  DiffersByInvalidations(operatorView, rollout)
    OBVIOUS
  <2>1. rollout.state_version = operatorView.state_version
    BY OperatorSteps, NullAssumption DEF TypeInv, TypeOK
  <2>2. operatorView.state_version \in Nat
    BY DEF TypeInv, TypeOK, RolloutType
  <2> QED BY <2>1, <2>2 DEF ViewInv, VersionGuards
<1> QED
  BY <1>1, <1>2, InitType, StepType, ViewStep, PTL
     DEF Spec, OperatorMissesOnlyInvalidations

-----------------------------------------------------------------------------
(* Remediation: what a session in the middle of a revoke may rely on. *)

RemediationInv ==
    /\ \A w \in Workers :
        /\ work[w].pc = "finalizing" /\ work[w].ok
                => item[work[w].item] = "revoked"
        /\ work[w].pc \in {"revoking", "finalizing"}
           /\ work[w].kind = "correction"
                => correction[work[w].item] # None
    /\ \A x \in todo : x[2] = "correction" => correction[x[1]] # None
    /\ RemediatedItemsAreRevoked

LEMMA RemediationStep ==
    TypeInv /\ RemediationInv /\ [Next]_vars => RemediationInv'
<1> SUFFICES ASSUME TypeInv, RemediationInv, [Next]_vars
             PROVE  RemediationInv'
  OBVIOUS
<1>0. /\ item \in [Items -> {"new", "pending_review", "human_resolved",
                             "auto_approved", "revoked"}]
      /\ audit \in [Items -> AuditType]
      /\ correction \in [Items -> {None, "revoke_pending", "revoke_failed",
                                   "revoked"}]
      /\ work \in [Workers -> WorkType]
      /\ todo \subseteq Items \X {"audit", "correction"}
      /\ WorkOK
  BY DEF TypeInv, TypeOK
<1> USE <1>0, NoneAssumption DEF RemediationInv, RemediatedItemsAreRevoked
<1>1. CASE status \/ close_rollout_breaker
           \/ (\E p \in {10, 100} : authorize_percentage(p))
           \/ (\E b \in BOOLEAN : ShadowRecord(b)) \/ UNCHANGED vars
  BY <1>1 DEF status, close_rollout_breaker, authorize_percentage,
              ShadowRecord, ledger, vars
<1>2. ASSUME RecoveryScan PROVE RemediationInv'
  BY <1>2 DEF RecoveryScan, Remediations, ledger
<1>3. ASSUME NEW x \in todo, RecoverNext(x) PROVE RemediationInv'
  BY <1>3 DEF RecoverNext, RemediationOf, ledger
<1>4. ASSUME NEW i \in Items, Launch(i) \/ HumanResolve(i)
      PROVE  RemediationInv'
  BY <1>4 DEF Launch, HumanResolve, WorkOK
<1>5. ASSUME NEW i \in Items,
             NEW c \in {"first_50", "sample", "not_selected"},
             reserve_auto_promotion(i, c)
      PROVE  RemediationInv'
  BY <1>5 DEF reserve_auto_promotion, WorkOK, AuditType
<1>6. ASSUME NEW i \in Items, SourceInvalidated(i) PROVE RemediationInv'
  BY <1>6, ReasonsAssumption DEF SourceInvalidated, WorkOK, AuditType
<1>7. ASSUME NEW i \in Items, NEW s \in Sessions, ConfirmLocate(s, i)
      PROVE  RemediationInv'
  <2>1. /\ work'[s].pc = "confirming"
        /\ \A w \in Workers : w # s => work'[w] = work[w]
    BY <1>7 DEF ConfirmLocate, Idle, Workers
  <2>2. UNCHANGED <<item, audit, correction, todo>>
    BY <1>7 DEF ConfirmLocate, ledger
  <2> QED BY <2>1, <2>2
<1>8. ASSUME NEW i \in Items, NEW s \in Sessions, BusinessWithdrawal(s, i)
      PROVE  RemediationInv'
  BY <1>8 DEF BusinessWithdrawal, WorkOK
<1>9. ASSUME NEW i \in Items, NEW s \in Sessions, ConfirmManual(s, i)
      PROVE  RemediationInv'
  BY <1>9, ReasonsAssumption DEF ConfirmManual, Verdict, WorkOK, AuditType
<1>10. ASSUME NEW i \in Items, NEW s \in Sessions, NEW r \in Reasons,
             QualityCritical(s, i, r)
      PROVE  RemediationInv'
  BY <1>10, ReasonsAssumption
     DEF QualityCritical, Verdict, RemediationOf, WorkOK, AuditType
<1>11. ASSUME NEW i \in Items, NEW s \in Sessions, NEW r \in Reasons,
              QualityCorrection(s, i, r)
       PROVE  RemediationInv'
  <2>1. /\ UNCHANGED <<item, audit, todo>>
        /\ correction' = [correction EXCEPT ![i] =
                IF correction[i] = None THEN "revoke_pending" ELSE @]
    BY <1>11 DEF QualityCorrection, QualityAdmitted
  <2>2. \/ UNCHANGED work
        \/ work' = [work EXCEPT ![s] = [pc |-> "revoking", item |-> i,
                                        kind |-> "correction", ok |-> FALSE]]
    BY <1>11 DEF QualityCorrection, RemediationOf
  <2>3. \A j \in Items : correction[j] # None => correction'[j] # None
    BY <2>1
  <2>4. \A j \in Items : correction'[j] = "revoked" => correction[j] = "revoked"
    BY <2>1
  <2>5. correction'[i] # None /\ s \in Workers
    BY <2>1 DEF Workers
  <2> QED BY <2>1, <2>2, <2>3, <2>4, <2>5 DEF WorkOK
<1>12. ASSUME NEW i \in Items, NEW s \in Sessions, NEW r \in Reasons,
              QualityReplay(s, i, r)
       PROVE  RemediationInv'
  BY <1>12 DEF QualityReplay, RemediationOf, WorkOK
<1>13. ASSUME NEW s \in Sessions, ConfirmWrite(s) PROVE RemediationInv'
  BY <1>13, ReasonsAssumption
     DEF ConfirmWrite, Verdict, Idle, WorkOK, AuditType
<1>14. ASSUME NEW w \in Workers, RevokeSucceeds(w) PROVE RemediationInv'
  BY <1>14 DEF RevokeSucceeds, WorkOK, WorkType
<1>15. ASSUME NEW w \in Workers, RevokeFails(w) PROVE RemediationInv'
  BY <1>15 DEF RevokeFails, ledger, WorkOK, WorkType
<1>16. ASSUME NEW w \in Workers, Crash(w) PROVE RemediationInv'
  <2>1. /\ UNCHANGED <<item, audit, correction>>
        /\ todo' \subseteq todo
        /\ work' = [work EXCEPT ![w] =
                [pc |-> "idle", item |-> None, kind |-> None, ok |-> FALSE]]
    BY <1>16 DEF Crash, Idle, ledger
  <2> QED BY <2>1
<1>17. ASSUME NEW w \in Workers, Finalize(w) PROVE RemediationInv'
  <2> DEFINE t == work[w]
  <2>1. t.item \in Items /\ t.kind \in {"audit", "correction"}
    BY <1>17 DEF Finalize, WorkOK
  <2>2. /\ UNCHANGED item
        /\ todo' \subseteq todo
        /\ work' = [work EXCEPT ![w] =
                [pc |-> "idle", item |-> None, kind |-> None, ok |-> FALSE]]
    BY <1>17 DEF Finalize, Idle
  <2>3. CASE UNCHANGED <<audit, correction>>
    BY <2>2, <2>3
  <2>4. CASE write_finalize(t.item, t.kind, t.ok)
    <3>1. t.ok => item[t.item] = "revoked"
      BY <1>17 DEF Finalize
    <3>2. CASE t.kind = "audit"
      <4>1. /\ UNCHANGED correction
            /\ \A j \in Items : audit'[j].outcome = audit[j].outcome
            /\ \A j \in Items : \/ audit'[j].status = audit[j].status
                                 \/ audit'[j].status = "remediation_required"
                                 \/ item[j] = "revoked"
        BY <2>1, <2>4, <3>1, <3>2, SMTT(30) DEF write_finalize, AuditType
      <4> QED BY <2>2, <4>1
    <3>3. CASE t.kind = "correction"
      <4>1. /\ UNCHANGED audit
            /\ \A j \in Items : correction[j] # None => correction'[j] # None
            /\ \A j \in Items : correction'[j] = "revoked"
                    => correction[j] = "revoked" \/ item[j] = "revoked"
        BY <2>1, <2>4, <3>1, <3>3 DEF write_finalize
      <4> QED BY <2>2, <4>1 DEF WorkOK
    <3> QED BY <2>1, <3>2, <3>3
  <2> QED BY <1>17, <2>3, <2>4 DEF Finalize
<1> QED BY <1>1, <1>2, <1>3, <1>4, <1>5, <1>6, <1>7, <1>8, <1>9, <1>10,
           <1>11, <1>12, <1>13, <1>14, <1>15, <1>16, <1>17 DEF Next

(* A quality verdict is closed as remediated only when the knowledge it      *)
(* condemns is revoked, however request, recovery, crashes and failed        *)
(* revokes interleave.                                                       *)
THEOREM RemediationSound == Spec => []RemediatedItemsAreRevoked
<1>1. Init => RemediationInv
  BY ReasonsAssumption, NoneAssumption DEF Init, RemediationInv, RemediatedItemsAreRevoked,
     Idle, NoAudit
<1>2. RemediationInv => RemediatedItemsAreRevoked
  BY DEF RemediationInv
<1> QED BY <1>1, <1>2, InitType, StepType, RemediationStep, PTL DEF Spec

-----------------------------------------------------------------------------
(* The breaker latch. *)

(* A correction is counted, and a counted correction is never forgotten. *)
BreakerInv ==
    /\ rollout.breaker_open => rollout.percentage = 0
    /\ Corrected # {} => rollout.breaker_open /\ rollout.corrected > 0

(* Only a correction verdict adds a correction. *)
LEMMA CorrectionSteps ==
    TypeInv /\ RemediationInv /\ [Next]_vars =>
        \/ Corrected' \subseteq Corrected
        \/ \E i \in Items, s \in Sessions, r \in Reasons :
                QualityCorrection(s, i, r) /\ correction[i] = None
<1> SUFFICES ASSUME TypeInv, RemediationInv, Next
             PROVE  \/ Corrected' \subseteq Corrected
                    \/ \E i \in Items, s \in Sessions, r \in Reasons :
                        QualityCorrection(s, i, r) /\ correction[i] = None
  BY DEF vars, ledger, Corrected
<1>1. CASE UNCHANGED correction
  BY <1>1 DEF Corrected
<1>2. CASE status \/ close_rollout_breaker
           \/ (\E p \in {10, 100} : authorize_percentage(p))
           \/ (\E b \in BOOLEAN : ShadowRecord(b))
           \/ RecoveryScan \/ (\E x \in todo : RecoverNext(x))
  <2>1. UNCHANGED correction
    BY <1>2 DEF status, close_rollout_breaker, authorize_percentage,
                ShadowRecord, RecoveryScan, RecoverNext, ledger
  <2> QED BY <1>1, <2>1
<1>3. ASSUME NEW i \in Items,
             \/ Launch(i) \/ HumanResolve(i) \/ SourceInvalidated(i)
             \/ \E c \in {"first_50", "sample", "not_selected"} :
                    reserve_auto_promotion(i, c)
      PROVE  UNCHANGED correction
  BY <1>3 DEF Launch, HumanResolve, SourceInvalidated, reserve_auto_promotion
<1>4. ASSUME NEW i \in Items, NEW s \in Sessions,
             \/ ConfirmLocate(s, i) \/ ConfirmManual(s, i)
             \/ BusinessWithdrawal(s, i)
      PROVE  UNCHANGED correction
  BY <1>4 DEF ConfirmLocate, ConfirmManual, BusinessWithdrawal, ledger
<1>5. ASSUME NEW i \in Items, NEW s \in Sessions, NEW r \in Reasons,
             QualityCritical(s, i, r) \/ QualityReplay(s, i, r)
      PROVE  UNCHANGED correction
  BY <1>5 DEF QualityCritical, QualityReplay
<1>6. ASSUME NEW i \in Items, NEW s \in Sessions, NEW r \in Reasons,
             QualityCorrection(s, i, r)
      PROVE  correction[i] = None \/ UNCHANGED correction
  BY <1>6 DEF QualityCorrection
<1>7. ASSUME NEW s \in Sessions, ConfirmWrite(s) PROVE UNCHANGED correction
  BY <1>7 DEF ConfirmWrite
<1>8. ASSUME NEW w \in Workers,
             RevokeSucceeds(w) \/ RevokeFails(w) \/ Crash(w)
      PROVE  UNCHANGED correction
  BY <1>8 DEF RevokeSucceeds, RevokeFails, Crash, ledger
<1>9. ASSUME NEW w \in Workers, Finalize(w) PROVE Corrected' \subseteq Corrected
  <2> DEFINE t == work[w]
  <2>1. /\ t.item \in Items
        /\ t.kind = "correction" => correction[t.item] # None
    BY <1>9 DEF Finalize, TypeInv, WorkOK, RemediationInv
  <2>2. \/ UNCHANGED correction
        \/ /\ t.kind # "audit"
           /\ correction' = [correction EXCEPT
                    ![t.item] = IF t.ok THEN "revoked" ELSE "revoke_failed"]
    BY <1>9 DEF Finalize, write_finalize
  <2>3. t.kind \in {"audit", "correction"}
    BY <1>9 DEF Finalize, TypeInv, WorkOK
  <2>4. correction \in [Items -> {None, "revoke_pending", "revoke_failed",
                                 "revoked"}]
    BY DEF TypeInv, TypeOK
  <2> QED BY <2>1, <2>2, <2>3, <2>4 DEF Corrected
<1> QED BY <1>1, <1>2, <1>3, <1>4, <1>5, <1>6, <1>7, <1>8, <1>9 DEF Next

(* What any other step may do to the fields the latch is about. *)
LatchKept(r, n) ==
    /\ n.breaker_open = r.breaker_open
    /\ n.percentage = r.percentage
    /\ n.corrected >= r.corrected

LEMMA CompletedLatch ==
    ASSUME NEW r \in RolloutType, NEW i, NEW outcome
    PROVE  LatchKept(r, Completed(r, i, outcome))
BY DEF LatchKept, Completed, RolloutType

LEMMA BumpedLatch ==
    ASSUME NEW r \in RolloutType
    PROVE  LatchKept(r, Bumped(r))
BY DEF LatchKept, Bumped, RolloutType

LEMMA OpenBreakerLatch ==
    ASSUME NEW r \in RolloutType, open_breaker(r),
           r.breaker_open => r.percentage = 0
    PROVE  /\ rollout'.breaker_open /\ rollout'.percentage = 0
           /\ rollout'.corrected = r.corrected
<1>1. rollout' = Tripped(r)
  BY DEF open_breaker, ControlChange
<1> QED BY <1>1 DEF Tripped, RolloutType

LEMMA BreakerStep ==
    TypeInv /\ RemediationInv /\ BreakerInv /\ [Next]_vars => BreakerInv'
<1> SUFFICES ASSUME TypeInv, RemediationInv, BreakerInv, [Next]_vars
             PROVE  BreakerInv'
  OBVIOUS
<1> rollout \in RolloutType /\ rollout' \in RolloutType
  BY StepType DEF TypeInv, TypeOK
<1>0. ASSUME NEW i \in Items, NEW s \in Sessions, NEW r \in Reasons,
             QualityCorrection(s, i, r), correction[i] = None
      PROVE  /\ rollout'.breaker_open /\ rollout'.percentage = 0
             /\ rollout'.corrected > 0
  <2> DEFINE n == [rollout EXCEPT !.corrected = @ + 1]
  <2>1. open_breaker(n)
    BY <1>0, Zenon DEF QualityCorrection
  <2>2. /\ n \in RolloutType /\ n.corrected > 0
        /\ n.breaker_open => n.percentage = 0
    BY DEF RolloutType, BreakerInv
  <2> HIDE DEF n
  <2> QED BY <2>1, <2>2, OpenBreakerLatch
<1>1. CASE Corrected' \subseteq Corrected
  <2> SUFFICES /\ rollout'.breaker_open => rollout'.percentage = 0
               /\ Corrected # {}
                    => rollout'.breaker_open /\ rollout'.corrected > 0
    BY <1>1 DEF BreakerInv
  <2> DEFINE Goal == /\ rollout'.breaker_open => rollout'.percentage = 0
                     /\ Corrected # {}
                            => rollout'.breaker_open /\ rollout'.corrected > 0
  <2>0. ASSUME LatchKept(rollout, rollout') PROVE Goal
    BY <2>0 DEF LatchKept, BreakerInv, RolloutType
  <2>1. CASE UNCHANGED <<rollout, events>>
    BY <2>1 DEF BreakerInv
  <2>2. ASSUME NEW p \in {10, 100}, authorize_percentage(p) PROVE Goal
    <3>1. ~rollout.breaker_open /\ rollout'.breaker_open = rollout.breaker_open
      BY <2>2 DEF authorize_percentage, require_authorization_transition,
         shadow_gate_passed, canary_gate_passed, ControlChange, RolloutType
    <3> QED BY <3>1 DEF BreakerInv
  <2>3. ASSUME close_rollout_breaker PROVE Goal
    <3>1. rollout.corrected = 0 /\ ~rollout'.breaker_open
      BY <2>3 DEF close_rollout_breaker, ControlChange, RolloutType
    <3> QED BY <3>1 DEF BreakerInv
  <2>4. ASSUME NEW b \in BOOLEAN, ShadowRecord(b) PROVE Goal
    BY <2>0, <2>4 DEF LatchKept, ShadowRecord, Bumped, RolloutType
  <2>5. ASSUME NEW i \in Items, NEW c \in Cohorts,
               reserve_auto_promotion(i, c)
        PROVE  Goal
    BY <2>0, <2>5 DEF LatchKept, reserve_auto_promotion, Bumped, RolloutType
  <2>6. ASSUME NEW i \in Items, SourceInvalidated(i) PROVE Goal
    BY <2>0, <2>6 DEF LatchKept, SourceInvalidated, RolloutType
  <2>7. ASSUME NEW n \in RolloutType, LatchKept(rollout, n),
               rollout' = Bumped(n)
        PROVE  Goal
    BY <2>0, <2>7, BumpedLatch DEF LatchKept, RolloutType
  <2>8. ASSUME NEW i \in Items, NEW s \in Sessions, ConfirmManual(s, i)
        PROVE  Goal
    BY <2>7, <2>8, CompletedType, CompletedLatch DEF ConfirmManual
  <2>9. ASSUME NEW i \in Items, NEW s \in Sessions, NEW r \in Reasons,
               QualityCritical(s, i, r)
        PROVE  Goal
    <3> DEFINE n == Completed(rollout, i, r)
    <3>1. open_breaker(n) /\ (decision[i] = "first_50" => rollout.pending > 0)
      BY <2>9 DEF QualityCritical, RolloutType
    <3>2. n \in RolloutType /\ LatchKept(rollout, n)
      BY <3>1, CompletedType, CompletedLatch
    <3> HIDE DEF n
    <3> QED BY <3>1, <3>2, OpenBreakerLatch
            DEF LatchKept, BreakerInv, RolloutType
  <2>10. ASSUME NEW s \in Sessions, ConfirmWrite(s) PROVE Goal
    <3> DEFINE i == work[s].item
               n == Completed(rollout, i, "confirmed")
    <3>1. CASE UNCHANGED rollout
      BY <3>1 DEF BreakerInv
    <3>2. CASE /\ rollout' = Bumped(n)
               /\ ~(decision[i] = "first_50" /\ rollout.pending <= 0)
      BY <2>7, <3>2, CompletedType, CompletedLatch DEF RolloutType
    <3> QED BY <2>10, <3>1, <3>2, Zenon DEF ConfirmWrite
  <2>11. ASSUME NEW i \in Items, NEW s \in Sessions, NEW r \in Reasons,
                QualityCorrection(s, i, r), correction[i] = None
         PROVE  Goal
    BY <1>0, <2>11
  <2> QED BY <2>1, <2>2, <2>3, <2>4, <2>5, <2>6, <2>8, <2>9, <2>10, <2>11,
             RolloutSteps DEF RolloutStep
<1> QED BY <1>0, <1>1, CorrectionSteps DEF BreakerInv

(* While the breaker is open nothing is authorized, and one correction of a  *)
(* confirmed audit keeps it open for ever: no close, authorization, metric   *)
(* update or finalization forgets it.                                        *)
THEOREM BreakerLatches == Spec => []BreakerLatch
<1>1. Init => RemediationInv /\ BreakerInv
  BY ReasonsAssumption, NoneAssumption
     DEF Init, RemediationInv, RemediatedItemsAreRevoked, BreakerInv,
         Corrected, DefaultRollout, Idle, NoAudit
<1>2. BreakerInv => BreakerLatch
  BY DEF BreakerInv, BreakerLatch
<1> QED BY <1>1, <1>2, InitType, StepType, RemediationStep, BreakerStep, PTL
        DEF Spec

=============================================================================
