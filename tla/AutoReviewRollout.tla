------------------------- MODULE AutoReviewRollout -------------------------
(***************************************************************************)
(* One rollout row of the auto-review trust promotion: the authorization   *)
(* latch (0, 10, 100 percent), the breaker, the audit counters and the     *)
(* control-event ledger (backend/app/review/auto_review_rollout.py,        *)
(* auto_review_audit.py, auto_review_quality_revoke.py,                    *)
(* auto_review_revoke.py and backend/app/admin/auto_review_rollout.py).    *)
(*                                                                         *)
(* A database transaction that holds the rollout row FOR UPDATE is one     *)
(* action.  What the code spreads over several transactions is spread over *)
(* several actions here: an auditor reads its audit row before it waits    *)
(* for the rollout lock, a quality revoke commits its authority, then      *)
(* revokes, then finalizes, and the process may die in between.            *)
(***************************************************************************)
EXTENDS Integers, Sequences, FiniteSets

CONSTANTS
    Items,              \* review items of this security scope and policy
    Sessions,           \* database sessions of human reviewers
    Recovery,           \* the session of recover_pending_remediation
    Reasons,            \* quality reason codes of a revoke request
    MandatoryAudits,    \* 50 in the code
    ShadowGate,         \* 500 in the code: shadow comparisons before 10%
    CanaryPromotions,   \* 500 in the code: promotions before 100%
    MaxShadow,          \* bound: shadow comparisons recorded in a behaviour
    AuditRowGuards,     \* TRUE: the row guards of migration 7c5a2e9f4b10 on
                        \* audits and corrections are installed
    None                \* SQL NULL / no value

ASSUME SessionsAssumption == Recovery \notin Sessions
ASSUME BoundsAssumption ==
    /\ MandatoryAudits \in Nat \ {0}
    /\ ShadowGate \in Nat \ {0}
    /\ CanaryPromotions \in Nat
    /\ MaxShadow \in Nat
ASSUME ItemsAssumption == IsFiniteSet(Items)
ASSUME ReasonsAssumption ==
    {None, "confirmed", "business_withdrawal"} \cap Reasons = {}
ASSUME NoneAssumption ==
    None \notin {"revoke_pending", "revoke_failed", "revoked", "audit",
                 "correction", "confirmed", "first_50", "sample",
                 "not_selected", "source_invalidated_before_audit"}
ASSUME GuardAssumption == AuditRowGuards \in BOOLEAN

Workers == Sessions \cup {Recovery}

VARIABLES
    rollout,        \* the AutoReviewRolloutState row
    events,         \* AutoReviewRolloutControlEvent rows, by event_sequence
    operatorView,   \* the status the admin CLI last read, None before
    launch,         \* per item: rollout control stored by its workflow request
    item,           \* per item: review status
    decision,       \* per item: AutoReviewPromotionDecision.selection_result
    audit,          \* per item: AutoReviewPostAudit
    assessment,     \* per item: AutoReviewRevocationAssessment
    correction,     \* per item: AutoReviewAuditCorrection resolution
    work,           \* per session: what it is in the middle of
    todo            \* remediations the recovery scan has yet to retry

ledger == <<item, decision, audit, assessment, correction>>
vars == <<rollout, events, operatorView, launch, ledger, work, todo>>

-----------------------------------------------------------------------------
(* Rows                                                                      *)

NoAudit == [status |-> "none", outcome |-> None, code |-> None]

DefaultRollout ==
    [ state_version |-> 0, control_epoch |-> 0,
      shadow_completed |-> 0, shadow_supported |-> 0,
      ordinal |-> 0, selected |-> 0, completed |-> 0, critical |-> 0,
      confirmed |-> 0, pending |-> 0, invalidated |-> 0, corrected |-> 0,
      breaker_open |-> FALSE, percentage |-> 0, generation |-> 0 ]

Control(r) == [ control_epoch |-> r.control_epoch,
                breaker_open |-> r.breaker_open,
                percentage |-> r.percentage,
                generation |-> r.generation ]

(* The counters of the row; all of them are what an operator's status shows. *)
Metrics(r) == <<r.shadow_completed, r.shadow_supported, r.ordinal, r.selected,
                r.completed, r.critical, r.confirmed, r.pending,
                r.invalidated, r.corrected>>

(* Mutant of Bumped: a metric update that forgets the CAS version. *)
BumpedForgotten(r) == r

(* A metric update under the row lock: the CAS version moves, the epoch stays. *)
Bumped(r) == [r EXCEPT !.state_version = @ + 1]

Idle == [pc |-> "idle", item |-> None, kind |-> None, ok |-> FALSE]

Init ==
    /\ rollout = DefaultRollout
    /\ events = << >>
    /\ operatorView = None
    /\ launch = [i \in Items |-> None]
    /\ item = [i \in Items |-> "new"]
    /\ decision = [i \in Items |-> None]
    /\ audit = [i \in Items |-> NoAudit]
    /\ assessment = [i \in Items |-> None]
    /\ correction = [i \in Items |-> None]
    /\ work = [w \in Workers |-> Idle]
    /\ todo = {}

-----------------------------------------------------------------------------
(* Gates                                                                     *)

(* supported / completed >= 0.99 and at least 500 comparisons. *)
shadow_gate_passed(r) ==
    /\ r.shadow_completed >= ShadowGate
    /\ 100 * r.shadow_supported >= 99 * r.shadow_completed
    /\ r.critical = 0
    /\ r.corrected = 0
    /\ ~r.breaker_open

canary_gate_passed(r) ==
    /\ r.percentage = 10
    /\ r.ordinal >= CanaryPromotions
    /\ r.confirmed = MandatoryAudits
    /\ r.pending = 0
    /\ r.selected = r.completed
    /\ r.critical = 0
    /\ r.corrected = 0
    /\ r.completed > 0
    /\ 100 * (r.completed - r.critical) >= 99 * r.completed
    /\ ~r.breaker_open

(* Mutant of require_authorization_transition: 100% without the canary gate. *)
require_authorization_ungated(r, p) ==
    \/ r.percentage = 0 /\ p = 10 /\ shadow_gate_passed(r)
    \/ r.percentage = 10 /\ p = 100

require_authorization_transition(r, p) ==
    \/ /\ r.percentage = 0
       /\ p = 10
       /\ shadow_gate_passed(r)
    \/ /\ r.percentage = 10
       /\ p = 100
       /\ canary_gate_passed(r)

-----------------------------------------------------------------------------
(* Control ledger: every control change bumps both versions and appends the  *)
(* event that records the control fields before and after it.                *)

ControlEvent(kind, r, n) ==
    [kind |-> kind, prior |-> Control(r), new |-> Control(n)]

ControlChange(kind, n) ==
    /\ rollout' = n
    /\ events' = Append(events, ControlEvent(kind, rollout, n))

(* Mutant of Tripped: the latch survives the breaker. *)
TrippedKeepsLatch(r) ==
    IF r.breaker_open
    THEN [r EXCEPT !.state_version = @ + 1]
    ELSE [r EXCEPT !.state_version = @ + 1, !.control_epoch = @ + 1,
                   !.breaker_open = TRUE, !.generation = @ + 1]

(* r with the breaker opened; metrics already updated in r. *)
Tripped(r) ==
    IF r.breaker_open
    THEN [r EXCEPT !.state_version = @ + 1]
    ELSE [r EXCEPT !.state_version = @ + 1, !.control_epoch = @ + 1,
                   !.breaker_open = TRUE, !.percentage = 0,
                   !.generation = @ + 1]

(* Mutant of open_breaker: the row changes, no event is appended. *)
open_breaker_silently(r) ==
    /\ rollout' = Tripped(r)
    /\ UNCHANGED events

open_breaker(r) ==
    IF rollout.breaker_open
    THEN /\ rollout' = Tripped(r)
         /\ UNCHANGED events
    ELSE ControlChange("breaker_opened", Tripped(r))

-----------------------------------------------------------------------------
(* Operator (admin CLI)                                                      *)

status ==
    /\ operatorView' = rollout
    /\ UNCHANGED <<rollout, events, launch, ledger, work, todo>>

authorize_percentage(p) ==
    /\ operatorView # None
    /\ rollout.state_version = operatorView.state_version
    /\ require_authorization_transition(rollout, p)
    /\ ControlChange("percentage_authorized",
            [rollout EXCEPT !.state_version = @ + 1, !.control_epoch = @ + 1,
                            !.percentage = p, !.generation = @ + 1])
    /\ operatorView' = None
    /\ UNCHANGED <<launch, ledger, work, todo>>

Unresolved ==
    \E i \in Items : \/ audit[i].status \in {"pending", "remediation_required"}
                     \/ correction[i] \in {"revoke_pending", "revoke_failed"}

close_rollout_breaker ==
    /\ operatorView # None
    /\ rollout.state_version = operatorView.state_version
    /\ rollout.breaker_open
    /\ rollout.corrected = 0
    /\ ~Unresolved
    /\ ControlChange("breaker_closed",
            [rollout EXCEPT !.state_version = @ + 1, !.control_epoch = @ + 1,
                            !.breaker_open = FALSE, !.percentage = 0,
                            !.generation = @ + 1])
    /\ operatorView' = None
    /\ UNCHANGED <<launch, ledger, work, todo>>

-----------------------------------------------------------------------------
(* Shadow comparison: a human resolved an item whose prediction was pending. *)

ShadowRecord(supported) ==
    /\ rollout.shadow_completed < MaxShadow
    /\ rollout' = [Bumped(rollout) EXCEPT
            !.shadow_completed = @ + 1,
            !.shadow_supported = IF supported THEN @ + 1 ELSE @]
    /\ UNCHANGED <<events, operatorView, launch, ledger, work, todo>>

(* A workflow in enforce mode: its request keeps the control it started under. *)
Launch(i) ==
    /\ item[i] = "new"
    /\ shadow_gate_passed(rollout)
    /\ rollout.percentage \in {10, 100}
    /\ launch' = [launch EXCEPT ![i] = Control(rollout)]
    /\ item' = [item EXCEPT ![i] = "pending_review"]
    /\ UNCHANGED <<rollout, events, operatorView, decision, audit,
                   assessment, correction, work, todo>>

HumanResolve(i) ==
    /\ item[i] = "pending_review"
    /\ item' = [item EXCEPT ![i] = "human_resolved"]
    /\ UNCHANGED <<rollout, events, operatorView, launch, decision, audit,
                   assessment, correction, work, todo>>

-----------------------------------------------------------------------------
(* Promotion of an item by policy, under the rollout row lock.               *)

(* Mutant of ControlUnchanged: only the breaker is looked at. *)
BreakerUnchanged(l) == ~rollout.breaker_open /\ l # None

ControlUnchanged(l) ==
    /\ ~rollout.breaker_open
    /\ rollout.percentage = l.percentage
    /\ rollout.generation = l.generation
    /\ rollout.control_epoch = l.control_epoch

(* Mutant of SelectAudit: full slots fall through to sampling. *)
SelectAuditWhenFull(cohort) ==
    IF rollout.confirmed + rollout.pending < MandatoryAudits
    THEN cohort = "first_50"
    ELSE cohort \in {"sample", "not_selected"}

(* Selection of the audit cohort; the keyed sample is any outcome.           *)
SelectAudit(cohort) ==
    \/ /\ rollout.confirmed < MandatoryAudits
       /\ rollout.confirmed + rollout.pending < MandatoryAudits
       /\ cohort = "first_50"
    \/ /\ rollout.confirmed >= MandatoryAudits
       /\ cohort \in {"sample", "not_selected"}

reserve_auto_promotion(i, cohort) ==
    /\ item[i] = "pending_review"
    /\ ControlUnchanged(launch[i])
    /\ SelectAudit(cohort)
    /\ decision' = [decision EXCEPT ![i] = cohort]
    /\ audit' = IF cohort = "not_selected" THEN audit
                ELSE [audit EXCEPT ![i].status = "pending"]
    /\ rollout' = [Bumped(rollout) EXCEPT
            !.ordinal = @ + 1,
            !.selected = IF cohort = "not_selected" THEN @ ELSE @ + 1,
            !.pending = IF cohort = "first_50" THEN @ + 1 ELSE @]
    /\ item' = [item EXCEPT ![i] = "auto_approved"]
    /\ UNCHANGED <<events, operatorView, launch, assessment, correction,
                   work, todo>>

-----------------------------------------------------------------------------
(* Post audit                                                                *)

(* The row guard a migrated database puts on an audit row: it can only be    *)
(* updated while it is pending.  Without it the table's CHECK still refuses  *)
(* to keep a resolution code beside a human outcome written over it.         *)
AuditUpdateRefused(i) ==
    IF AuditRowGuards THEN audit[i].status # "pending"
                      ELSE audit[i].code # None

(* Mutant of Completed: every audit is taken for a mandatory one. *)
CompletedAnyCohort(r, i, outcome) ==
    [r EXCEPT
        !.pending = @ - 1,
        !.completed = @ + 1,
        !.critical = IF outcome = "confirmed" THEN @ ELSE @ + 1,
        !.confirmed = IF outcome = "confirmed" THEN @ + 1 ELSE @]

(* Mutant of Completed: only confirmations count as completed. *)
CompletedConfirmationsOnly(r, i, outcome) ==
    LET mandatory == decision[i] = "first_50"
        confirms  == outcome = "confirmed"
    IN  [r EXCEPT
            !.pending = IF mandatory THEN @ - 1 ELSE @,
            !.completed = IF confirms THEN @ + 1 ELSE @,
            !.critical = IF confirms THEN @ ELSE @ + 1,
            !.confirmed = IF mandatory /\ confirms THEN @ + 1 ELSE @]

(* The effect of complete() on a session that saw the audit pending, with    *)
(* outcome "confirmed" or a quality reason.                                  *)
Completed(r, i, outcome) ==
    LET mandatory == decision[i] = "first_50"
        confirms  == outcome = "confirmed"
    IN  [r EXCEPT
            !.pending = IF mandatory THEN @ - 1 ELSE @,
            !.completed = @ + 1,
            !.critical = IF confirms THEN @ ELSE @ + 1,
            !.confirmed = IF mandatory /\ confirms THEN @ + 1 ELSE @]

Verdict(outcome) ==
    IF outcome = "confirmed"
    THEN [status |-> "completed", outcome |-> "confirmed", code |-> None]
    ELSE [status |-> "remediation_required", outcome |-> outcome,
          code |-> "revoke_pending"]

(* complete() read its audit row; the session now waits for the rollout lock. *)
ConfirmLocate(s, i) ==
    /\ work[s] = Idle
    /\ item[i] \in {"auto_approved", "revoked"}
    /\ audit[i].status = "pending"
    /\ work' = [work EXCEPT ![s] = [Idle EXCEPT !.pc = "confirming", !.item = i]]
    /\ UNCHANGED <<rollout, events, operatorView, launch, ledger, todo>>

(* complete() with the rollout lock: the session's copy of the audit is the  *)
(* one it located, so a row guard is what refuses a verdict given meanwhile. *)
ConfirmWrite(s) ==
    LET i == work[s].item IN
    /\ work[s].pc = "confirming"
    /\ work' = [work EXCEPT ![s] = Idle]
    /\ IF \/ AuditUpdateRefused(i)
          \/ decision[i] = "first_50" /\ rollout.pending <= 0
       THEN UNCHANGED <<rollout, audit>>
       ELSE /\ rollout' = Bumped(Completed(rollout, i, "confirmed"))
            /\ audit' = [audit EXCEPT ![i] = Verdict("confirmed")]
    /\ UNCHANGED <<events, operatorView, launch, item, decision, assessment,
                   correction, todo>>

(* ensure_manual_audit() and complete() of an unsampled approval: the audit  *)
(* row is created and confirmed in one transaction.                          *)
ConfirmManual(s, i) ==
    /\ work[s] = Idle
    /\ item[i] \in {"auto_approved", "revoked"}
    /\ decision[i] = "not_selected"
    /\ audit[i].status = "none"
    /\ rollout' = Bumped(Completed(rollout, i, "confirmed"))
    /\ audit' = [audit EXCEPT ![i] = Verdict("confirmed")]
    /\ UNCHANGED <<events, operatorView, launch, item, decision, assessment,
                   correction, work, todo>>

-----------------------------------------------------------------------------
(* Quality revoke: commit the authority, then revoke, then finalize.         *)

RemediationOf(s, i, kind) ==
    [pc |-> "revoking", item |-> i, kind |-> kind, ok |-> FALSE]

(* Mutant of QualityAdmitted: an earlier assessment is reused, never compared. *)
QualityAlwaysAdmitted(s, i, reason) ==
    /\ work[s] = Idle
    /\ item[i] \in {"auto_approved", "revoked"}
    /\ assessment' = IF assessment[i] # None THEN assessment
         ELSE [assessment EXCEPT ![i] = [reason |-> reason, actor |-> s]]

(* What a quality request finds, once the rollout row is locked. *)
QualityAdmitted(s, i, reason) ==
    /\ work[s] = Idle
    /\ item[i] \in {"auto_approved", "revoked"}
    /\ assessment[i] \in {None, [reason |-> reason, actor |-> s]}
    /\ assessment' = [assessment EXCEPT
                        ![i] = [reason |-> reason, actor |-> s]]

(* No audit yet, or a pending one: it is completed as critical. *)
QualityCritical(s, i, reason) ==
    /\ QualityAdmitted(s, i, reason)
    /\ audit[i].status \in {"none", "pending"}
    /\ ~(decision[i] = "first_50" /\ rollout.pending <= 0)
    /\ open_breaker(Completed(rollout, i, reason))
    /\ audit' = [audit EXCEPT ![i] = Verdict(reason)]
    /\ work' = [work EXCEPT ![s] = RemediationOf(s, i, "audit")]
    /\ UNCHANGED <<operatorView, launch, item, decision, correction, todo>>

(* A confirmed audit stays as it is; a correction is appended once. *)
QualityCorrection(s, i, reason) ==
    /\ QualityAdmitted(s, i, reason)
    /\ audit[i].status = "completed"
    /\ audit[i].outcome = "confirmed"
    /\ IF correction[i] = None
       THEN /\ correction' = [correction EXCEPT ![i] = "revoke_pending"]
            /\ open_breaker([rollout EXCEPT !.corrected = @ + 1])
       ELSE UNCHANGED <<correction, rollout, events>>
    /\ work' = IF correction[i] = "revoked" THEN work
               ELSE [work EXCEPT ![s] = RemediationOf(s, i, "correction")]
    /\ UNCHANGED <<operatorView, launch, item, decision, audit, todo>>

(* A repeated request for the same critical outcome. *)
QualityReplay(s, i, reason) ==
    /\ QualityAdmitted(s, i, reason)
    /\ audit[i].status # "pending"
    /\ audit[i].outcome = reason
    /\ audit[i].status = "remediation_required"
    /\ work' = [work EXCEPT ![s] = RemediationOf(s, i, "audit")]
    /\ UNCHANGED <<rollout, events, operatorView, launch, item, decision,
                   audit, correction, todo>>

(* _validate_quality_authority: the persisted critical verdict or correction *)
(* that entitles an approved item to be revoked.                             *)
QualityAuthority(i, kind) ==
    IF kind = "audit"
    THEN /\ audit[i].status = "remediation_required"
         /\ audit[i].outcome \in Reasons
    ELSE correction[i] \in {"revoke_pending", "revoke_failed"}

(* The revoke callback commits: it revokes the item or finds it revoked. *)
RevokeSucceeds(w) ==
    LET i == work[w].item IN
    /\ work[w].pc = "revoking"
    /\ \/ item[i] = "revoked"
       \/ item[i] = "auto_approved" /\ QualityAuthority(i, work[w].kind)
    /\ item' = [item EXCEPT ![i] = "revoked"]
    /\ work' = [work EXCEPT ![w].pc = "finalizing", ![w].ok = TRUE]
    /\ UNCHANGED <<rollout, events, operatorView, launch, decision, audit,
                   assessment, correction, todo>>

(* Mutant of RevokeFails: the exception is swallowed as a success. *)
RevokeFailureSwallowed(w) ==
    /\ work[w].pc = "revoking"
    /\ work' = [work EXCEPT ![w].pc = "finalizing", ![w].ok = TRUE]
    /\ UNCHANGED <<rollout, events, operatorView, launch, ledger, todo>>

(* It raises: key runtime not ready, lock plan changed, evidence gone, I/O. *)
RevokeFails(w) ==
    /\ work[w].pc = "revoking"
    /\ work' = [work EXCEPT ![w].pc = "finalizing", ![w].ok = FALSE]
    /\ UNCHANGED <<rollout, events, operatorView, launch, ledger, todo>>

(* The update _finalize issues is refused by a row guard or by the CHECK     *)
(* that binds status, resolution and completion fields of the row.           *)
FinalizeRefused(i, kind, ok) ==
    IF kind = "audit"
    THEN IF ok THEN AuditRowGuards /\ audit[i].status # "completed"
         ELSE \/ audit[i].status = "completed"
              \/ AuditRowGuards /\ audit[i].code # "revoke_failed"
    ELSE correction[i] = "revoked" /\ (AuditRowGuards \/ ~ok)

write_finalize(i, kind, ok) ==
    IF kind = "audit"
    THEN /\ audit' = [audit EXCEPT
                ![i].status = IF ok THEN "completed" ELSE "remediation_required",
                ![i].code = IF ok THEN None ELSE "revoke_failed"]
         /\ UNCHANGED correction
    ELSE /\ correction' = [correction EXCEPT
                ![i] = IF ok THEN "revoked" ELSE "revoke_failed"]
         /\ UNCHANGED audit

(* A refused update raises: the request ends, the recovery pass is given up. *)
Finalize(w) ==
    LET t == work[w] IN
    /\ t.pc = "finalizing"
    /\ work' = [work EXCEPT ![w] = Idle]
    /\ IF FinalizeRefused(t.item, t.kind, t.ok)
       THEN /\ todo' = IF w = Recovery THEN {} ELSE todo
            /\ UNCHANGED <<audit, correction>>
       ELSE /\ write_finalize(t.item, t.kind, t.ok)
            /\ UNCHANGED todo
    /\ UNCHANGED <<rollout, events, operatorView, launch, item, decision,
                   assessment>>

-----------------------------------------------------------------------------
(* Recovery of remediations left behind, at process start and from the CLI.  *)

Remediations ==
    {<<i, "audit">> : i \in {j \in Items :
        audit[j].status = "remediation_required" /\ assessment[j] # None}}
    \cup
    {<<i, "correction">> : i \in {j \in Items :
        correction[j] \in {"revoke_pending", "revoke_failed"}}}

RecoveryScan ==
    /\ work[Recovery] = Idle
    /\ todo = {}
    /\ Remediations # {}
    /\ todo' = Remediations
    /\ UNCHANGED <<rollout, events, operatorView, launch, ledger, work>>

RecoverNext(x) ==
    /\ work[Recovery] = Idle
    /\ x \in todo
    /\ todo' = todo \ {x}
    /\ work' = [work EXCEPT ![Recovery] = RemediationOf(Recovery, x[1], x[2])]
    /\ UNCHANGED <<rollout, events, operatorView, launch, ledger>>

(* The process dies between two of its transactions. *)
Crash(w) ==
    /\ work[w] # Idle
    /\ work' = [work EXCEPT ![w] = Idle]
    /\ todo' = IF w = Recovery THEN {} ELSE todo
    /\ UNCHANGED <<rollout, events, operatorView, launch, ledger>>

-----------------------------------------------------------------------------
(* Revokes that do not pass through a quality verdict.                       *)

(* A reviewer withdraws an approval: only unaudited or confirmed ones. *)
BusinessWithdrawal(s, i) ==
    /\ work[s] = Idle
    /\ item[i] = "auto_approved"
    /\ correction[i] = None
    /\ \/ audit[i].status = "none"
       \/ audit[i].status = "completed" /\ audit[i].outcome = "confirmed"
    /\ assessment[i] = None
    /\ assessment' = [assessment EXCEPT
            ![i] = [reason |-> "business_withdrawal", actor |-> s]]
    /\ item' = [item EXCEPT ![i] = "revoked"]
    /\ UNCHANGED <<rollout, events, operatorView, launch, decision, audit,
                   correction, work, todo>>

(* Source reconciliation proved the evidence stale.  A pending audit ends    *)
(* without an outcome; this writer leaves state_version alone.               *)
SourceInvalidated(i) ==
    LET waiting == audit[i].status = "pending" IN
    /\ item[i] = "auto_approved"
    /\ ~(waiting /\ decision[i] = "first_50" /\ rollout.pending <= 0)
    /\ item' = [item EXCEPT ![i] = "revoked"]
    /\ audit' = IF waiting
                THEN [audit EXCEPT ![i] = [status |-> "completed",
                         outcome |-> None,
                         code |-> "source_invalidated_before_audit"]]
                ELSE audit
    /\ rollout' = IF waiting
                  THEN [rollout EXCEPT
                    !.pending = IF decision[i] = "first_50" THEN @ - 1 ELSE @,
                    !.invalidated = @ + 1]
                  ELSE rollout
    /\ UNCHANGED <<events, operatorView, launch, decision, assessment,
                   correction, work, todo>>

-----------------------------------------------------------------------------
Next ==
    \/ status
    \/ \E p \in {10, 100} : authorize_percentage(p)
    \/ close_rollout_breaker
    \/ \E b \in BOOLEAN : ShadowRecord(b)
    \/ RecoveryScan
    \/ \E x \in todo : RecoverNext(x)
    \/ \E i \in Items :
        \/ Launch(i)
        \/ HumanResolve(i)
        \/ \E c \in {"first_50", "sample", "not_selected"} :
                reserve_auto_promotion(i, c)
        \/ SourceInvalidated(i)
        \/ \E s \in Sessions :
            \/ ConfirmLocate(s, i)
            \/ ConfirmManual(s, i)
            \/ BusinessWithdrawal(s, i)
            \/ \E r \in Reasons : \/ QualityCritical(s, i, r)
                                  \/ QualityCorrection(s, i, r)
                                  \/ QualityReplay(s, i, r)
    \/ \E s \in Sessions : ConfirmWrite(s)
    \/ \E w \in Workers : \/ RevokeSucceeds(w)
                          \/ RevokeFails(w)
                          \/ Finalize(w)
                          \/ Crash(w)

Spec == Init /\ [][Next]_vars

(* Every start of the process and every CLI call runs the recovery pass to   *)
(* its end; a revoke that can succeed does not fail forever.                 *)
RecoveryFairness ==
    /\ WF_vars(RecoveryScan)
    /\ WF_vars(\E x \in todo : RecoverNext(x))
    /\ SF_vars(RevokeSucceeds(Recovery))
    /\ SF_vars(Finalize(Recovery) /\ work[Recovery].ok)
    /\ WF_vars(Finalize(Recovery))

FairSpec == Spec /\ RecoveryFairness

-----------------------------------------------------------------------------
(* Properties                                                                *)

Cohorts == {"first_50", "sample", "not_selected"}
Percentages == {0, 10, 100}

ControlType == [control_epoch : Nat, breaker_open : BOOLEAN,
                percentage : Percentages, generation : Nat]

RolloutType ==
    [ state_version : Nat, control_epoch : Nat,
      shadow_completed : Nat, shadow_supported : Nat,
      ordinal : Nat, selected : Nat, completed : Nat, critical : Nat,
      confirmed : Nat, pending : Nat, invalidated : Nat, corrected : Nat,
      breaker_open : BOOLEAN, percentage : Percentages, generation : Nat ]

(* SQL NULL is not a row. *)
ASSUME NullAssumption == None \notin RolloutType

EventType ==
    [kind : {"percentage_authorized", "breaker_opened", "breaker_closed"},
     prior : ControlType, new : ControlType]

AuditType ==
    [status : {"none", "pending", "completed", "remediation_required"},
     outcome : Reasons \cup {"confirmed", None},
     code : {None, "revoke_pending", "revoke_failed",
             "source_invalidated_before_audit"}]

WorkType ==
    [pc : {"idle", "confirming", "revoking", "finalizing"},
     item : Items \cup {None}, kind : {"audit", "correction", None},
     ok : BOOLEAN]

(* The rows hold the values their CHECK constraints admit; no counter of the *)
(* rollout row, decremented ones included, ever goes below zero.             *)
TypeOK ==
    /\ rollout \in RolloutType
    /\ events \in Seq(EventType)
    /\ operatorView \in RolloutType \cup {None}
    /\ launch \in [Items -> ControlType \cup {None}]
    /\ item \in [Items -> {"new", "pending_review", "human_resolved",
                           "auto_approved", "revoked"}]
    /\ decision \in [Items -> Cohorts \cup {None}]
    /\ audit \in [Items -> AuditType]
    /\ assessment \in [Items -> {None} \cup
            [reason : Reasons \cup {"business_withdrawal"}, actor : Sessions]]
    /\ correction \in [Items -> {None, "revoke_pending", "revoke_failed",
                                 "revoked"}]
    /\ work \in [Workers -> WorkType]
    /\ todo \subseteq Items \X {"audit", "correction"}

(* Confirmed and pending mandatory audits never exceed the slots, whatever   *)
(* mix of verdicts, source invalidations and replacement audits happens      *)
(* (ck_auto_review_rollout_mandatory_slots).                                 *)
MandatorySlots == rollout.confirmed + rollout.pending <= MandatoryAudits

(* The sets of rows the counters stand for. *)
Promoted    == {i \in Items : decision[i] # None}
Selected    == {i \in Items : decision[i] \in {"first_50", "sample"}}
WaitingMandatory == {i \in Items : decision[i] = "first_50"
                                    /\ audit[i].status = "pending"}
Judged      == {i \in Items : audit[i].outcome # None}
Critical    == {i \in Items : audit[i].outcome \in Reasons}
ConfirmedMandatory == {i \in Items : decision[i] = "first_50"
                                    /\ audit[i].outcome = "confirmed"}
Invalidated == {i \in Items :
                    audit[i].code = "source_invalidated_before_audit"}
Corrected   == {i \in Items : correction[i] # None}

(* Each counter of the rollout row is the number of ledger rows it stands    *)
(* for: no audit is counted twice or missed when auditors, quality revokes   *)
(* and source reconciliation race for it.                                    *)
CountersMatchLedger ==
    /\ rollout.ordinal = Cardinality(Promoted)
    /\ rollout.selected = Cardinality(Selected)
    /\ rollout.pending = Cardinality(WaitingMandatory)
    /\ rollout.completed = Cardinality(Judged)
    /\ rollout.critical = Cardinality(Critical)
    /\ rollout.confirmed = Cardinality(ConfirmedMandatory)
    /\ rollout.invalidated = Cardinality(Invalidated)
    /\ rollout.corrected = Cardinality(Corrected)

(* An approval that no human must look at exists only after humans confirmed *)
(* all mandatory audits: invalidated slots were refilled before.             *)
SamplingIsEarned ==
    (\E i \in Items : decision[i] \in {"sample", "not_selected"})
        => Cardinality(ConfirmedMandatory) = MandatoryAudits

(* While the breaker is open nothing is authorized, and a correction of a    *)
(* confirmed audit keeps it open for good.                                   *)
BreakerLatch ==
    /\ rollout.breaker_open => rollout.percentage = 0
    /\ Corrected # {} => rollout.breaker_open

(* Full rollout stands on the mandatory human confirmations and on no        *)
(* verdict to the contrary, then and ever since.                             *)
FullRolloutEarned ==
    rollout.percentage = 100 =>
        /\ Cardinality(ConfirmedMandatory) = MandatoryAudits
        /\ Critical = {}
        /\ Corrected = {}

(* An audit or correction is only closed as remediated when the item's       *)
(* knowledge is revoked, whichever of request and recovery closed it.        *)
RemediatedItemsAreRevoked ==
    \A i \in Items :
        \/ audit[i].status = "completed" /\ audit[i].outcome \in Reasons
        \/ correction[i] = "revoked"
        => item[i] = "revoked"

(* The event ledger replays to the row: it starts at the default control,    *)
(* each event continues the one before it and the row is where it ends.      *)
EventsReplayToRow ==
    LET control(k) == IF k = 0 THEN Control(DefaultRollout) ELSE events[k].new
    IN  /\ \A k \in 1..Len(events) : events[k].prior = control(k - 1)
        /\ Control(rollout) = control(Len(events))

(* A withdrawal for business reasons never doubles as a quality verdict.     *)
WithdrawnNeverCritical ==
    \A i \in Items :
        assessment[i] # None /\ assessment[i].reason = "business_withdrawal"
        => audit[i].outcome \in {None, "confirmed"} /\ correction[i] = None

(* No item is promoted under a launch that a later control change overtook.  *)
NoPromotionAcrossControlChange ==
    [][\A i \in Items :
        decision[i] = None /\ decision'[i] # None
        => launch[i] = IF events = << >> THEN Control(DefaultRollout)
                       ELSE events[Len(events)].new]_vars

(* The row differs from what was read by invalidated audits alone: so many   *)
(* more are invalidated, at most so many fewer wait for a person, and every  *)
(* other counter, the verdicts among them, is as it was.                     *)
DiffersByInvalidations(r, n) ==
    /\ n.pending \in (r.pending - (n.invalidated - r.invalidated))..r.pending
    /\ Metrics([n EXCEPT !.pending = r.pending,
                         !.invalidated = r.invalidated]) = Metrics(r)

(* What an operator who authorizes a percentage or closes the breaker may    *)
(* not have seen is exactly the audits that source invalidation ended since: *)
(* no verdict, promotion, correction or comparison of any other actor slips  *)
(* between the status command and the one that names its version.            *)
OperatorMissesOnlyInvalidations ==
    [][operatorView # None /\ operatorView' = None
       => DiffersByInvalidations(operatorView, rollout)]_vars

(* A remediation that a failed or killed revoke left behind is completed.    *)
RemediationCompletes ==
    \A i \in Items :
        /\ audit[i].status = "remediation_required"
                ~> audit[i].status = "completed"
        /\ correction[i] \in {"revoke_pending", "revoke_failed"}
                ~> correction[i] = "revoked"

=============================================================================
