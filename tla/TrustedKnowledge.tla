-------------------------- MODULE TrustedKnowledge --------------------------
(***************************************************************************)
(* Promotion of reviewed claims to trusted knowledge and their revocation: *)
(* the review transitions (backend/app/review/transitions.py), explicit    *)
(* provenance links (knowledge/trusted_provenance.py), the fingerprint     *)
(* projection that finds duplicates (trusted_fingerprint_projection.py),   *)
(* revocation (review/auto_review_revoke.py), reconciliation with changed  *)
(* sources (auto_review_source_reconciliation.py) and the live predicate   *)
(* every reader applies (trusted_serving_eligibility.py).                  *)
(*                                                                         *)
(* The items are timeline events (one promoted effect each) of one security*)
(* scope, all stating the same claim; knowledge row k is the one item k    *)
(* created.  A transaction under the generation barrier, the projection    *)
(* lock and the shared Source locks is one action; what reconciliation and *)
(* the projection rebuild spread over transactions is spread here too.     *)
(***************************************************************************)
EXTENDS PermissionOrder, Sequences, FiniteSets

CONSTANTS
    Items,          \* review items, and the knowledge rows they create
    Sources,        \* canonical sources
    Versions,       \* content signatures a source can have
    Levels,         \* permission levels sources can have
    MaxChanges,     \* bound: source changes in a behaviour
    LinkGuards,     \* TRUE: migration 7c5a2e9f4b10 guards approval links
    None            \* SQL NULL / no row

ASSUME LevelsAssumption == Levels \subseteq PermissionLevels
ASSUME ChangesAssumption == MaxChanges \in Nat
ASSUME GuardAssumption == LinkGuards \in BOOLEAN
ASSUME NoneAssumption ==
    /\ None \notin PermissionLevels
    /\ None \notin [target : Items, active : BOOLEAN,
                     permission : PermissionLevels]

VARIABLES
    source,         \* Source rows: server signature and permission
    changes,        \* number of source changes so far
    item,           \* ReviewItem rows with their evidence snapshot
    target,         \* TimelineEvent rows
    link,           \* TrustedKnowledgeApprovalLink rows, by review item
    tombstone,      \* documents with a VectorServingTombstone
    fingerprint,    \* TrustedKnowledgeFingerprint.permission_level, by target
    projection,     \* projection state: ready flag, rebuild in progress
    critical,       \* items quarantined by a critical audit or correction
    recon           \* the reconciliation pass

trusted == <<target, link, tombstone, fingerprint>>
vars == <<source, changes, item, trusted, projection, critical, recon>>

NoItem == [status |-> "none", c5 |-> FALSE, cites |-> << >>,
           seen |-> [s \in Sources |-> None], permission |-> None,
           by |-> None]

NoTarget == [status |-> "none", permission |-> None]

IdlePass == [pc |-> "idle", source |-> None, item |-> None, todo |-> {}]

Init ==
    /\ source \in [Sources -> [version : Versions, permission : Levels]]
    /\ changes = 0
    /\ item = [i \in Items |-> NoItem]
    /\ target = [k \in Items |-> NoTarget]
    /\ link = [i \in Items |-> None]
    /\ tombstone = {}
    /\ fingerprint = [k \in Items |-> None]
    /\ projection = [ready |-> FALSE, rebuilding |-> FALSE]
    /\ critical = {}
    /\ recon = IdlePass

-----------------------------------------------------------------------------
(* Evidence                                                                  *)

Cited(i) == {item[i].cites[n] : n \in 1..Len(item[i].cites)}

(* The source still has the content that was reviewed.                       *)
Current(i, s) == source[s].version = item[i].seen[s].version

EvidenceCurrent(i) == \A s \in Cited(i) : Current(i, s)

(* lock_item_and_resolve_drift: content or permission moved since drafting.  *)
Drifted(i) == item[i].c5 /\ \E s \in Cited(i) : source[s] # item[i].seen[s]

(* The evidence an automatic approval may rest on.                           *)
Servable(i, s) == Current(i, s) /\ source[s].permission \in ServingLevels

(* A legacy human item is implicit provenance of the row it created.         *)
LegacyBase(k) ==
    item[k].status = "approved" /\ item[k].by = "human" /\ ~item[k].c5

Supports(i, k) == link[i] # None /\ link[i].target = k /\ link[i].active

(* approval_link_is_live                                                     *)
Live(i) ==
    LET k == link[i].target IN
    /\ link[i].active
    /\ target[k].status = "approved"
    /\ k \notin tombstone
    /\ item[i].status = "approved"
    /\ EvidenceCurrent(i)
    /\ \/ item[i].by = "human" /\ item[i].c5
       \/ /\ item[i].by = "auto_policy"
          /\ i \notin critical
          /\ \A s \in Cited(i) : source[s].permission \in ServingLevels

-----------------------------------------------------------------------------
(* Fingerprint projection                                                    *)

(* Mutant of Expected: rows of any status are projected. *)
ExpectedOfAnyStatus == [k \in Items |-> target[k].permission]

Expected == [k \in Items |-> IF target[k].status = "approved"
                             THEN target[k].permission ELSE None]

(* projection_identity_ready: the flag, and an exact anti-join.              *)
Healthy == projection.ready /\ fingerprint = Expected

Demoted == [projection EXCEPT !.ready = FALSE]

(* project_approved_effects for row k at permission p.                       *)
ProjectEffect(k, p) ==
    /\ fingerprint' = [fingerprint EXCEPT ![k] = p]
    /\ projection' = IF Healthy THEN projection ELSE Demoted

RebuildBegin ==
    /\ projection' = [ready |-> FALSE, rebuilding |-> TRUE]
    /\ UNCHANGED <<source, changes, item, trusted, critical, recon>>

RebuildFinish ==
    /\ projection.rebuilding
    /\ fingerprint' = Expected
    /\ projection' = [ready |-> TRUE, rebuilding |-> FALSE]
    /\ UNCHANGED <<source, changes, item, target, link, tombstone, critical,
                   recon>>

(* The rebuild dies between its transactions.                                *)
RebuildFails ==
    /\ projection.rebuilding
    /\ projection' = [projection EXCEPT !.rebuilding = FALSE]
    /\ UNCHANGED <<source, changes, item, trusted, critical, recon>>

-----------------------------------------------------------------------------
(* Sources and drafts                                                        *)

(* Ingestion of changed content, or of a changed permission.                 *)
SourceChanges(s, v, p) ==
    /\ changes < MaxChanges
    /\ changes' = changes + 1
    /\ source[s] # [version |-> v, permission |-> p]
    /\ source' = [source EXCEPT ![s] = [version |-> v, permission |-> p]]
    /\ UNCHANGED <<item, trusted, projection, critical, recon>>

Citations ==
    {c \in UNION {[1..n -> Sources] : n \in 1..Cardinality(Sources)} :
        \A m, n \in DOMAIN c : c[m] = c[n] => m = n}

(* A workflow drafts a candidate and binds it to its evidence.               *)
Draft(i, c) ==
    LET cited == {c[n] : n \in DOMAIN c} IN
    /\ item[i].status = "none"
    /\ item' = [item EXCEPT ![i] =
            [ status |-> "pending_review", c5 |-> TRUE, cites |-> c,
              seen |-> [s \in Sources |-> IF s \in cited THEN source[s]
                                          ELSE None],
              permission |-> Strictest({source[s].permission : s \in cited}),
              by |-> None ]]
    /\ UNCHANGED <<source, changes, trusted, projection, critical, recon>>

(* A candidate from before the evidence contract: it binds no sources.       *)
DraftLegacy(i, p) ==
    /\ item[i].status = "none"
    /\ item' = [item EXCEPT ![i] = [NoItem EXCEPT !.status = "pending_review",
                                                  !.permission = p]]
    /\ UNCHANGED <<source, changes, trusted, projection, critical, recon>>

-----------------------------------------------------------------------------
(* Review transitions                                                        *)

Resolved(i, status, by) ==
    [item EXCEPT ![i].status = status, ![i].by = by]

NewTarget(i) == [status |-> "approved", permission |-> item[i].permission]

NewLink(i, k) ==
    [target |-> k, active |-> TRUE, permission |-> item[i].permission]

(* A reviewer approves: the knowledge row, its link and its fingerprint.     *)
HumanApprove(i) ==
    /\ item[i].status = "pending_review"
    /\ item[i].c5
    /\ ~Drifted(i)
    /\ item' = Resolved(i, "approved", "human")
    /\ target' = [target EXCEPT ![i] = NewTarget(i)]
    /\ link' = [link EXCEPT ![i] = NewLink(i, i)]
    /\ ProjectEffect(i, item[i].permission)
    /\ UNCHANGED <<source, changes, tombstone, critical, recon>>

(* Mutant of HumanApproveLegacy: the projection is not demoted. *)
HumanApproveLegacyProjected(i) ==
    /\ item[i].status = "pending_review"
    /\ ~item[i].c5
    /\ item' = Resolved(i, "approved", "human")
    /\ target' = [target EXCEPT ![i] = NewTarget(i)]
    /\ UNCHANGED <<source, changes, link, tombstone, fingerprint, projection,
                   critical, recon>>

(* The row of a legacy item cannot be projected: the projection is demoted.  *)
HumanApproveLegacy(i) ==
    /\ item[i].status = "pending_review"
    /\ ~item[i].c5
    /\ item' = Resolved(i, "approved", "human")
    /\ target' = [target EXCEPT ![i] = NewTarget(i)]
    /\ projection' = Demoted
    /\ UNCHANGED <<source, changes, link, tombstone, fingerprint, critical,
                   recon>>

Decline(i, status) ==
    /\ item[i].status = "pending_review"
    /\ item' = Resolved(i, status, "human")
    /\ UNCHANGED <<source, changes, trusted, projection, critical, recon>>

mark_evidence_stale(i) ==
    /\ item[i].status = "pending_review"
    /\ Drifted(i)
    /\ item' = Resolved(i, "needs_more_evidence", "auto_policy")
    /\ UNCHANGED <<source, changes, trusted, projection, critical, recon>>

(* Mutant of OnlyVisibleDuplicate: hidden fingerprints are not looked for. *)
OnlyDuplicateSeen(k, visible) ==
    /\ item[k].c5
    /\ {j \in Items : fingerprint[j] \in visible} = {k}

(* What the collision checks leave for reuse: among the fingerprints of the  *)
(* claim no hidden one, and exactly one visible one, of exact scope.         *)
OnlyVisibleDuplicate(k, visible) ==
    /\ item[k].c5
    /\ {j \in Items : fingerprint[j] # None} = {k}
    /\ fingerprint[k] \in visible

(* Mutant of Reusable: permissions are not compared. *)
ReusableAtAnyPermission(k, p) ==
    /\ target[k].status = "approved" /\ p # None
    /\ \E j \in Items : Supports(j, k)

(* validate_reuse_bundle: an active link and the row agree on permission.    *)
Reusable(k, p) ==
    /\ target[k] = [status |-> "approved", permission |-> p]
    /\ \E j \in Items : Supports(j, k) /\ link[j].permission = p

(* The policy approves item i as a duplicate of k for an owner who may see   *)
(* the levels in visible.  It never creates knowledge.                       *)
AutoApprove(i, k, visible) ==
    /\ item[i].status = "pending_review"
    /\ item[i].c5
    /\ ~Drifted(i)
    /\ item[i].permission \in visible
    /\ \A s \in Cited(i) : source[s].permission \in visible
    /\ Healthy
    /\ OnlyVisibleDuplicate(k, visible)
    /\ Reusable(k, item[i].permission)
    /\ item' = Resolved(i, "approved", "auto_policy")
    /\ link' = [link EXCEPT ![i] = NewLink(i, k)]
    /\ ProjectEffect(k, target[k].permission)
    /\ UNCHANGED <<source, changes, target, tombstone, critical, recon>>

(* A critical post-audit or correction quarantines an automatic approval     *)
(* (AutoReviewRollout has how it comes about).                               *)
CriticalVerdict(i) ==
    /\ item[i].status = "approved"
    /\ item[i].by = "auto_policy"
    /\ critical' = critical \cup {i}
    /\ UNCHANGED <<source, changes, item, trusted, projection, recon>>

-----------------------------------------------------------------------------
(* Revocation                                                                *)

(* _target_has_other_provenance                                              *)
OtherProvenance(i) ==
    LET k == link[i].target IN
    \/ \E j \in Items \ {i} : Supports(j, k) /\ Live(j)
    \/ LegacyBase(k)

(* _revoke of an active automatic approval: its link, and the knowledge when *)
(* nothing else supports it.                                                 *)
RevokeEffect(i) ==
    LET k == link[i].target IN
    /\ item[i].status = "approved"
    /\ item[i].by = "auto_policy"
    /\ link[i].active
    /\ item' = [item EXCEPT ![i].status = "revoked"]
    /\ link' = [link EXCEPT ![i].active = FALSE]
    /\ IF OtherProvenance(i)
       THEN UNCHANGED <<target, tombstone, fingerprint, projection>>
       ELSE /\ target' = [target EXCEPT ![k].status = "revoked"]
            /\ tombstone' = tombstone \cup {k}
            /\ fingerprint' = [fingerprint EXCEPT ![k] = None]
            /\ projection' = Demoted

(* A reviewer needs current evidence to see what is to be revoked.           *)
BusinessWithdrawal(i) ==
    /\ i \notin critical
    /\ EvidenceCurrent(i)
    /\ RevokeEffect(i)
    /\ UNCHANGED <<source, changes, critical, recon>>

QualityRevoke(i) ==
    /\ i \in critical
    /\ EvidenceCurrent(i)
    /\ RevokeEffect(i)
    /\ UNCHANGED <<source, changes, critical, recon>>

-----------------------------------------------------------------------------
(* Source reconciliation: after ingestion, at start and from the CLI.        *)

(* The permissions an automatic approval's effect is stored with.            *)
StoredPermissions(i) ==
    {item[i].permission, link[i].permission, target[link[i].target].permission}

FingerprintPermission(k) == {fingerprint[k]} \ {None}

PermissionDrift(i, s) ==
    LET required == StoredPermissions(i) IN
    \E p \in required \cup FingerprintPermission(link[i].target) :
        Broader(p, Strictest(required \cup {source[s].permission}))

(* _actionable_evidence_predicate                                            *)
Actionable(i, s) ==
    /\ link[i] # None
    /\ link[i].active
    /\ item[i].by = "auto_policy"
    /\ s \in Cited(i)
    /\ ~Servable(i, s) \/ PermissionDrift(i, s)

ReconcileScan(s) ==
    LET found == {i \in Items : Actionable(i, s)} IN
    /\ recon.pc = "idle"
    /\ found # {}
    /\ recon' = [IdlePass EXCEPT !.pc = "next", !.source = s, !.todo = found]
    /\ UNCHANGED <<source, changes, item, trusted, projection, critical>>

(* Mutant of Rest: the item revoked last is not cleared. *)
RestKeepsItem(i) ==
    IF recon.todo = {i} THEN IdlePass
    ELSE [recon EXCEPT !.pc = "next", !.todo = @ \ {i}]

Rest(i) ==
    IF recon.todo = {i} THEN IdlePass
    ELSE [recon EXCEPT !.pc = "next", !.item = None, !.todo = @ \ {i}]

ReconcileGone(i) ==
    /\ recon.pc = "next"
    /\ i \in recon.todo
    /\ ~link[i].active
    /\ recon' = Rest(i)
    /\ UNCHANGED <<source, changes, item, trusted, projection, critical>>

(* Mutant of Narrowed: the level of the source is taken as it is. *)
NarrowedToSource(i, s) == source[s].permission

Narrowed(i, s) == Strictest(StoredPermissions(i) \cup {source[s].permission})

(* The row guard of a migrated database on approval links: what they record  *)
(* of the approval, its permission included, cannot be updated.              *)
LinkUpdateRefused(i, p) == LinkGuards /\ p # link[i].permission

(* Evidence that is current: item, link, knowledge and fingerprint take the  *)
(* strictest permission, the projection summaries move with them.  When the  *)
(* guard refuses the link, all is rolled back and the pass is given up.      *)
ReconcileNarrow(i) ==
    LET s == recon.source
        k == link[i].target
        p == Narrowed(i, s)
    IN
    /\ recon.pc = "next"
    /\ i \in recon.todo
    /\ link[i].active
    /\ Servable(i, s)
    /\ ~LinkUpdateRefused(i, p)
    /\ item' = [item EXCEPT ![i].permission = p]
    /\ link' = [link EXCEPT ![i].permission = p]
    /\ target' = [target EXCEPT ![k].permission = p]
    /\ IF fingerprint[k] # None /\ Broader(fingerprint[k], p)
       THEN /\ fingerprint' = [fingerprint EXCEPT ![k] = p]
            /\ projection' = projection
       ELSE UNCHANGED <<fingerprint, projection>>
    /\ recon' = Rest(i)
    /\ UNCHANGED <<source, changes, tombstone, critical>>

(* Evidence that is not: its revocation is a transaction of its own.         *)
ReconcileStale(i) ==
    /\ recon.pc = "next"
    /\ i \in recon.todo
    /\ link[i].active
    /\ ~Servable(i, recon.source)
    /\ recon' = [recon EXCEPT !.pc = "revoking", !.item = i]
    /\ UNCHANGED <<source, changes, item, trusted, projection, critical>>

RevokeSourceInvalidated ==
    LET i == recon.item IN
    /\ recon.pc = "revoking"
    /\ ~Servable(i, recon.source)
    /\ RevokeEffect(i)
    /\ recon' = Rest(i)
    /\ UNCHANGED <<source, changes, critical>>

(* Someone else revoked the item meanwhile.                                  *)
RevokeReplayed ==
    /\ recon.pc = "revoking"
    /\ item[recon.item].status = "revoked"
    /\ recon' = Rest(recon.item)
    /\ UNCHANGED <<source, changes, item, trusted, projection, critical>>

(* The evidence is current again: the revocation is refused, which ends the  *)
(* pass over this source.                                                    *)
RevokeRefused ==
    /\ recon.pc = "revoking"
    /\ item[recon.item].status = "approved"
    /\ Servable(recon.item, recon.source)
    /\ recon' = IdlePass
    /\ UNCHANGED <<source, changes, item, trusted, projection, critical>>

(* The pass is given up: the lock plan changed between its unlocked reads    *)
(* and its locks, the key runtime is not ready, the database refused an      *)
(* update, or the process died.                                              *)
ReconcileFails ==
    /\ recon.pc # "idle"
    /\ recon' = IdlePass
    /\ UNCHANGED <<source, changes, item, trusted, projection, critical>>

-----------------------------------------------------------------------------
Next ==
    \/ \E s \in Sources :
        \/ \E v \in Versions, p \in Levels : SourceChanges(s, v, p)
        \/ ReconcileScan(s)
    \/ RebuildBegin
    \/ RebuildFinish
    \/ RebuildFails
    \/ RevokeSourceInvalidated
    \/ RevokeReplayed
    \/ RevokeRefused
    \/ ReconcileFails
    \/ \E i \in Items :
        \/ \E c \in Citations : Draft(i, c)
        \/ \E p \in Levels : DraftLegacy(i, p)
        \/ HumanApprove(i)
        \/ HumanApproveLegacy(i)
        \/ \E st \in {"rejected", "needs_more_evidence"} : Decline(i, st)
        \/ mark_evidence_stale(i)
        \/ \E k \in Items, visible \in {{"public"}, ServingLevels} :
                AutoApprove(i, k, visible)
        \/ CriticalVerdict(i)
        \/ BusinessWithdrawal(i)
        \/ QualityRevoke(i)
        \/ ReconcileGone(i)
        \/ ReconcileNarrow(i)
        \/ ReconcileStale(i)

Spec == Init /\ [][Next]_vars

(* Reconciliation runs after every ingestion that changes a source, at every *)
(* start and from the CLI; a pass comes to an end, and what makes one fail   *)
(* at a step that can succeed does not last.                                 *)
ReconcileFairness ==
    /\ \A s \in Sources : SF_vars(ReconcileScan(s))
    /\ \A i \in Items :
        /\ SF_vars(ReconcileGone(i))
        /\ SF_vars(ReconcileNarrow(i))
        /\ SF_vars(ReconcileStale(i))
        /\ SF_vars(recon.item = i /\ RevokeSourceInvalidated)
    /\ WF_vars(RevokeReplayed \/ RevokeRefused)
    /\ WF_vars(ReconcileFails)

FairSpec == Spec /\ ReconcileFairness

-----------------------------------------------------------------------------
(* The live predicate every reader applies (for_knowledge)                   *)

(* _current_evidence collects permissions up to the first stale child.       *)
EvidencePermissions(i) ==
    {source[item[i].cites[n]].permission : n \in
        {m \in 1..Len(item[i].cites) :
            \A l \in 1..(m - 1) : Current(i, item[i].cites[l])}}

Standing(k) == {i \in Items : Supports(i, k) /\ item[i].status = "approved"}

HumanSupport(k) ==
    \/ LegacyBase(k)
    \/ \E i \in Standing(k) : item[i].by = "human" /\ EvidenceCurrent(i)

AutoSupport(k) ==
    LET autos == {i \in Standing(k) : item[i].by = "auto_policy"} \ critical
    IN  /\ autos # {}
        /\ \A i \in autos : \A s \in Cited(i) : Servable(i, s)

Served(k) ==
    /\ target[k].status = "approved"
    /\ k \notin tombstone
    /\ HumanSupport(k) \/ AutoSupport(k)

EffectivePermission(k) ==
    Strictest({target[k].permission}
        \cup UNION {{link[i].permission, item[i].permission}
                        \cup EvidencePermissions(i) : i \in Standing(k)})

-----------------------------------------------------------------------------
(* Properties                                                                *)

SourceType == [version : Versions, permission : PermissionLevels]

ItemType ==
    [ status : {"none", "pending_review", "approved", "rejected",
                "needs_more_evidence", "revoked"},
      c5 : BOOLEAN, cites : Seq(Sources),
      seen : [Sources -> SourceType \cup {None}],
      permission : PermissionLevels \cup {None},
      by : {"human", "auto_policy", None} ]

TargetType ==
    [status : {"none"}, permission : {None}]
        \cup [status : {"approved", "revoked"}, permission : PermissionLevels]

LinkType == [target : Items, active : BOOLEAN, permission : PermissionLevels]

PassType ==
    [pc : {"idle"}, source : {None}, item : {None}, todo : {{}}]
        \cup [pc : {"next"}, source : Sources, item : {None},
              todo : SUBSET Items]
        \cup [pc : {"revoking"}, source : Sources, item : Items,
              todo : SUBSET Items]

(* Every row holds values its columns admit: a knowledge row or a link never *)
(* lacks its permission, a revoking pass always knows its item.              *)
TypeOK ==
    /\ source \in [Sources -> SourceType]
    /\ changes \in 0..MaxChanges
    /\ item \in [Items -> ItemType]
    /\ target \in [Items -> TargetType]
    /\ link \in [Items -> LinkType \cup {None}]
    /\ tombstone \subseteq Items
    /\ fingerprint \in [Items -> PermissionLevels \cup {None}]
    /\ projection \in [ready : BOOLEAN, rebuilding : BOOLEAN]
    /\ critical \subseteq Items
    /\ recon \in PassType

(* A projection that reports itself ready is exact: approvals, narrowings    *)
(* and revocations keep it so or demote it, whenever a rebuild runs.         *)
ReadyProjectionIsExact == projection.ready => fingerprint = Expected

(* Withdrawn knowledge leaves a tombstone and no fingerprint to be found by: *)
(* neither an approval in flight nor a rebuild brings one back.              *)
WithdrawnLeavesNoTrace ==
    \A k \in Items :
        /\ target[k].status = "revoked" <=> k \in tombstone
        /\ k \in tombstone => fingerprint[k] = None

(* Knowledge is never stored at a broader permission than any approval, past *)
(* or present, of it, in whatever order approvals join and sources narrow.   *)
KnowledgeNoBroaderThanApprovals ==
    \A i \in Items : link[i] # None =>
        /\ item[i].permission = link[i].permission
        /\ ~Broader(target[link[i].target].permission, link[i].permission)

(* The policy decides on the projection; what it joins is nevertheless the   *)
(* only trusted row of the claim, at the permission the item was judged at.  *)
AutoJoinsOnlyDuplicate ==
    [][\A i \in Items :
        link[i] = None /\ link'[i] # None /\ item'[i].by = "auto_policy"
        => /\ {k \in Items : target[k].status = "approved"}
                = {link'[i].target}
           /\ target[link'[i].target].permission = item[i].permission]_vars

trustOf(k) == CASE target[k].status = "none" -> "absent"
                [] target[k].status = "approved" -> target[k].permission
                [] target[k].status = "revoked" -> "withdrawn"

Lifecycle == INSTANCE TrustLifecycle
                WITH Knowledge <- Items, trust <- [k \in Items |-> trustOf(k)]

(* Each knowledge row is trusted once, only ever narrows and never returns   *)
(* once withdrawn, under every interleaving of approvals, reconciliation and *)
(* revocation.                                                               *)
RefinesTrustLifecycle == Lifecycle!Spec

(* Evidence that a source change made actionable is narrowed or revoked.     *)
ReconciliationConverges ==
    \A i \in Items, s \in Sources : Actionable(i, s) ~> ~Actionable(i, s)

-----------------------------------------------------------------------------
(* What documents say and the services do not keep.                          *)

(* Plan: shared knowledge is served at the strictest of the stored           *)
(* permissions and of every resolvable current source.                       *)
ServedAtStrictestPermission ==
    \A k \in Items : Served(k) =>
        \A i \in Standing(k) : \A s \in Cited(i) :
            Current(i, s)
            => ~Broader(EffectivePermission(k), source[s].permission)

=============================================================================
