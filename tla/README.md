# Formal models of ParaWorks

This directory holds TLA+ models of the parts of ParaWorks whose correctness is hardest to test:

* what becomes trusted knowledge: the review of extracted claims, their automatic approval under a
  rollout with human post-audits, provenance, permissions, revocation and reconciliation;
* the review workflow, whose thread and graph checkpoints several callers move;
* every paid call to a model provider: those of review and those of question answering, with their
  leases, budgets, breakers and recoveries;
* what a question is answered from: the serving corpus, its lexical and vector projections and the
  answer cache.

TLC checks the models on small instances and TLAPS proves the safety properties of all
of them for every value of the constants.

Paths below are relative to `src/backend/app/` unless they start with `src/`.

## 1. The system

ParaWorks ingests messages and documents of a company (Slack, Google Workspace), extracts claims
(decisions, to-dos, history) with agents, lets people review them, and answers questions over what
was approved.  A *review item* is a proposed claim, bound to the *sources* it was extracted from
and to their content signature and permission at that time.  Approving it creates *knowledge*
(a `KnowledgeRecord` and/or a `TimelineEvent`).  A validator model may approve some items in a
person's place; a *rollout row* per security scope and policy decides how many, and every such
approval can be audited, withdrawn or found critical afterwards.

### Components, their state and operations

| Component | State | Operations | Interacts with |
|---|---|---|---|
| Rollout, post-audit, quality revoke (`review/auto_review_rollout.py`, `auto_review_audit*.py`, `auto_review_quality_revoke.py`, `admin/auto_review_rollout.py`) | `AutoReviewRolloutState` (counters, latch, breaker, versions), control events, promotion decisions, post-audits, corrections, assessments | status, authorize 10 or 100 percent, close the breaker, reserve a promotion, complete an audit, manual audit, quality revoke, recovery, source invalidation | review transitions reserve promotions; reconciliation invalidates audits; revocation is called back |
| Review transitions (`review/transitions.py`, `knowledge/promotion.py`, `trusted_provenance.py`) | review items, knowledge rows, approval and evidence links | approve, reject, needs more evidence, mark stale, automatic reaffirmation | projection, rollout, serving generation, all under the generation barrier |
| Fingerprint projection (`knowledge/trusted_fingerprint_projection.py`) | one row per trusted timeline event; readiness state | project effects, demote, rebuild, rotate key | consulted by automatic approvals, maintained by approvals, narrowing, revocation |
| Revocation (`review/auto_review_revoke.py`) | link activity, knowledge status, vector tombstones | business withdrawal, quality revoke, source invalidation | serving eligibility decides what other provenance is live |
| Source reconciliation (`review/auto_review_source_reconciliation.py`) | none of its own | scan, narrow, revoke; after ingestion, at start, from the CLI | reads sources and links, calls revocation |
| Serving eligibility (`knowledge/trusted_serving_eligibility.py`) | none | live predicate and effective permission | every reader of knowledge; revocation |
| Paid review calls (`agent_runtime/auto_review_validation_store.py`, `review_v21_extraction.py`, `admin/auto_review_call_recovery.py`) | extraction and validation calls, leases, provider safety rows | claim or replay, start, check, send, complete, fail, cancel, recover | the workflow's budget, cost policy, rollout, runtime key |
| Review workflow v2 (`agent_runtime/review_v2_*.py`, `review_v21_*.py`) | thread row, draft lease, checkpoints of its attempts | start, draft, status, resume, repair, cancel, retain | agents, validation, review items |
| RAG cost ledger (`agent_runtime/rag_cost_ledger.py`) | runs and their two provider components | admit, bind, claim, dispatch, settle, project, recover | provider safety, finalization |
| Provider safety and send fence (`agent_runtime/rag_provider_safety.py`, `provider_send_fence.py`, ...) | incident latch, send grants, file authority | open, record, consume, clear | every paid call |
| RAG finalization (`agent_runtime/rag_finalization.py`) | projection owner and phase of a run | acquire, validate, project, commit, recover | cost ledger, serving generation |
| RAG serving and index, answer cache (`rag/`) | vectors, lexical projection, corpus generation, cache entries | index, reindex, delete, search, advance generation, put, get | tombstones, eligibility, sources |
| Release ledger (`rag/release_*.py`) | release evidence and decisions | append, review, gate | live gate |
| Ingestion, connectors (`ingestion/`, `connectors/`) | sources, documents, cursors | sync, upsert, permission-only change | reconciliation after commit |
| Assistant, API, agents, migrations | sessions, drafts, schema | request handling | all of the above |

### What is hard here

* **Several transactions per operation.**  A quality revoke commits its authority, then revokes,
  then finalizes; reconciliation narrows and revokes item by item; a projection rebuild demotes and
  rebuilds.  The process may die in between and a second actor may act in between.
* **Reads before locks.**  An auditor reads its audit before it waits for the rollout row;
  reconciliation scans without locks; the operator acts on a status read earlier; a workflow carries
  the rollout control it was launched under.
* **Shared effects.**  Several approvals stand behind one knowledge row: a revocation may or may not
  withdraw it, and permissions of all of them must narrow together.
* **Counters against rows.**  The gates read aggregate counters that four kinds of writers move.
* **Derived state.**  The fingerprint projection and the event ledger must agree with what they are
  derived from, or say that they do not.
* **Calls that cost money and cannot be taken back.**  A request may have been sent when its process
  dies; its answer may arrive after its lease ran out, its workflow was cancelled or its run closed.
* **Two stores for one fact.**  A thread's row and its graph's checkpoint, a signed safety file and
  its database rows, the corpus and its projections are written one after the other.
* **Locks that reach one process only.**  The review service serializes its callers in memory; the
  database sees those of every process.
* **Recovery that must get done.**  Remediations and stale evidence are retried by bounded scans.

`PROJECT.json` lists each hazard at the line where it bites, with the properties that cover it.

## 2. The modules

| Module | What it is |
|---|---|
| `AutoReviewRollout` | one rollout row with its events, audits, decisions, assessments and corrections |
| `MCAutoReviewRollout` | symmetry for its TLC instances |
| `AutoReviewRolloutProofs` | theorems about it |
| `AutoReviewCountersProofs` | theorems about its counters and the gates that rest on them |
| `PermissionOrder` | public, internal, restricted and the strictest of a set |
| `TrustLifecycle` | abstract promise: knowledge is trusted once, only narrows, never returns |
| `TrustedKnowledge` | review items, sources, knowledge rows, links, projection, revocation, reconciliation, serving predicate |
| `MCTrustedKnowledge` | symmetry for its TLC instances |
| `TrustedKnowledgeProofs` | theorems about it, the refinement of `TrustLifecycle` included |
| `OneShotCall` | abstract promise of a paid call: reserved, started, sent at most once, settled once and not for nothing |
| `ReviewCalls` | the extraction and validation calls of one workflow, their threads, breakers and budgets |
| `MCReviewCalls` | symmetry for its TLC instances |
| `ReviewCallsProofs` | theorems about it, the refinement of `OneShotCall` included |
| `ReviewBudgetProofs` | theorems about its budgets and bills |
| `RagRun` | RAG runs with their cost components, provider safety, finalization and recoveries |
| `MCRagRun` | its TLC instance |
| `RagRunProofs` | theorems about it, the refinement of `OneShotCall` included |
| `ServingIndex` | corpus, generations, lexical rows, vectors and states, reindex sessions, requests, answer cache |
| `MCServingIndex` | symmetry for its TLC instance |
| `ServingIndexProofs` | theorems about it |
| `ReviewWorkflow` | one thread of either graph, its items, checkpoints and callers |
| `MCReviewWorkflow` | symmetry for its TLC instances |
| `ReviewWorkflowProofs` | theorems about it |

The modules meet where one component's step is another's input.  A `CriticalVerdict` of
`TrustedKnowledge` is a quality verdict of `AutoReviewRollout`; `Launch` of the latter stores what a
workflow was started under.  The automatic approvals and the drafts of `ReviewWorkflow` stand for what
`ReviewCalls` pays for.  `Approve`, `Reaffirm`, `NarrowTrusted` and `Revoke` of `ServingIndex` are the
effects of `TrustedKnowledge` on the corpus.  `RagRun` and `ReviewCalls` refine the same `OneShotCall`.

### AutoReviewRollout

`rollout` is the row (`state_version`, `control_epoch`, the counters, `breaker_open`, `percentage`
= `max_authorized_percentage`, `generation`), `events` the control events in sequence, `decision`,
`audit`, `assessment` and `correction` the ledger rows of each item, `launch` the control an enforce
workflow stored, `operatorView` what the admin CLI last read.  `work` is what a session is in the
middle of; `todo` is what the recovery pass still has to retry.  `assessment` holds the reason and
the actor because a repeated request is compared with both.

A transaction that holds the rollout row is one action: `reserve_auto_promotion`, `ConfirmWrite`,
`QualityCritical`, `QualityCorrection`, `authorize_percentage`, `close_rollout_breaker`,
`SourceInvalidated`.  What the code spreads out is spread here:

* `complete()` loads its audit (`ConfirmLocate`) before it locks the rollout row (`ConfirmWrite`).
  The ORM session keeps the copy it loaded, so the status test after the lock sees the old row;
  a verdict given meanwhile is caught by the database.  `AuditRowGuards` says by what: `TRUE` is
  the row guard of the migration (an audit that is not pending cannot be updated), `FALSE` a
  database built from the models, where only the CHECK constraint that ties outcome, status and
  resolution code together remains.
* `revoke_quality` is `QualityCritical`, `QualityCorrection` or `QualityReplay`, then
  `RevokeSucceeds` or `RevokeFails`, then `Finalize`; `Crash` may end any of it.
* `recover_pending_remediation` is `RecoveryScan`, then `RecoverNext` per entry through the same
  revoke and finalize steps.  An exception in `_finalize` ends the pass.

`Metrics` are all the counters of the row, those included that source invalidation moves without a new
`state_version`.  The migration (`src/backend/migrations/versions/7c5a2e9f4b10_add_auto_review_trust_promotion.py`, below by its
revision) also guards the rollout row, and refuses more than the services can do without (section 4); that guard is
not modelled.

Thresholds are constants (`MandatoryAudits` 50, `ShadowGate` and `CanaryPromotions` 500 in the
code).  The keyed sample is a free choice, so every sample is covered.  The precision test is
kept as written although critical = 0 already implies it.  `ShadowRecord` is the human resolution of
an item of a workflow in shadow mode: the items in `Items` are those of enforce workflows, for
which no comparison is recorded.  Not modelled: `shadow_predicted_count`, timestamps, reasons and
references, the key runtime check that may refuse any of these commands.

### TrustedKnowledge

The items are timeline claims with the same fingerprint in one security scope: the case in which
approvals meet.  `source` has the content signature and permission of every source; `item` the
review item with its ordered citations and the snapshot of its evidence (`seen`); `target` the
knowledge row each item may create; `link` its approval link; `tombstone` and `fingerprint` the
serving tombstones and projection rows; `projection` readiness and a rebuild in progress;
`critical` the items quarantined by a critical audit or correction (`AutoReviewRollout` says how
that comes about); `recon` the reconciliation pass.

The generation barrier, the projection advisory lock and the shared Source locks make one
transaction one action: `HumanApprove`, `HumanApproveLegacy`, `AutoApprove`, `RevokeEffect` (three
callers), `ReconcileNarrow`.  Several transactions are several actions: `RebuildBegin`,
`RebuildFinish`, `RebuildFails`; `ReconcileScan`, then per item `ReconcileNarrow`, `ReconcileGone`
or `ReconcileStale` followed by `RevokeSourceInvalidated`, `RevokeReplayed` or `RevokeRefused`;
`ReconcileFails` ends the pass anywhere.  `AutoApprove` decides on the *projection* (is it healthy,
is there exactly one visible fingerprint of the claim) as the code does; that the decision is right
about the *rows* is a property.  `Live`, `Served` and `EffectivePermission` are the predicates of
serving eligibility, evidence children read in order and up to the first stale one.

`Lifecycle == INSTANCE TrustLifecycle WITH trust <- ...` maps a row that does not exist to
"absent", an approved row to its permission and a revoked row to "withdrawn".

`LinkGuards` is the migration's guard of approval links (1128-1157), which refuses to change what a link
records: `LinkUpdateRefused` stops every narrowing that would change its permission.

A source always exists and has a known permission here; an absent source, or one of unknown
permission, is treated by the code like a stale one.

### ReviewCalls

`call` has the rows of both stores, `live` and `worker` what the serving process remembers (active
grants, and where each thread is between claim, start, check, send and settlement), `world` what a
call is bound to (cancellation, runtime key, sources and permissions of the launch, rollout),
`safety` the provider safety row of each purpose.  `sent` and `billed` are history: what reached the
provider.  Every transaction locks the workflow row and is one action; the send is outside any.
`Crash` forgets `live` and `worker`.  `RecoverExpired` is the lease recovery, `CancelWorkflow` and
`SettleCancelled` the cancellation that settles call by call.

As read in the code, and so in the model: the context of an extraction lease is shared by the threads
that claim it and keeps the permission levels of the claim; recovery charges the call its reserve and
its children nothing; nothing closes a breaker, because the only way to close it asks for a new cost
policy and the registry holds one.  The store-level `cancel` and `recover_expired` of both stores have
no caller.  `ExtractionCallStore` is constructed in tests only; the model takes it as its tests do.

### RagRun

`run` and `row` are the `agent_run` parent and its two cost components; `request`, `grant`, `binding`,
`heard` and `guarded` what one request's ledger object remembers and loses when it dies; `file` and
`safety` the signed sidecar and the safety rows, which one transition writes in this order and which
may end up apart.  A dispatch barrier compares grant and authority, binding included; a finalization
first commits its safety side on a connection of its own (`guarded`) and then locks the ledger rows.

As read in the code: in production only `recover_incomplete_shadow_runs` at the start of a process
(`main.py:335`) closes the run of a dead request.  The attested recoveries have no caller, and what
they attest cannot be verified, so the model lets them come while the request lives.  A run whose
request died before any claim has no recovery path.  A binding names the global generation, so
blocking one component also invalidates the grants of the other.  A second overrun at the same time
cannot be recorded (a block is accepted from ready only) and is charged its reserve by the attested
recovery.  A half-done safety transition leaves everything closed; its repair (rebind, supersession,
release of an incident, bootstrap) is not modelled.  Amounts are three: reserve, an answer within it, one beyond it.

### ServingIndex

`canonical` is what the document builder yields, `trusted` what approves a knowledge row whether or not it is
served, `generation` the row with the corpus and the vector generation, `lexical`, `vectors` and `states` the three tables that follow, `job` what a reindex
session read before it called the embedding provider, `request` what a question read at its admission,
`cache` the stored answers.  Ingestion (`ReplaceChunks`, `Narrow`), approval, reaffirmation, narrowing of knowledge and
revocation move the corpus in one transaction each.  Ingesting a source also decides whether the knowledge that
cites it is served and how widely (`Reassessed`; any verdict, as sources and links are those of `TrustedKnowledge`), and
leaves the row's vector and state as they are: its mutations name chunks only (`ingestion/service.py:319`).  An approval,
a narrowing or a revocation moves the corpus generation only when the corpus differs (`Settle`).
A reindex session lists, leaves the transaction,
and persists after checking again.  The deferred triggers of migration `e2b3c4d5f6a7` are part of the
schema (`TriggerAllows`): a transaction they refuse does not happen.

A version of a document is its permission level and its provenance, because a text never changes
under its id.  Every query matches every document, so what a search returns is what it may return.
The vector's permission column and its metadata are kept apart, as the two searches read one each.
`NarrowTrusted` is the reconciliation as the service writes it; a migrated database refuses it where it changes the link
(section 4).  The live-eligibility clause of the search's SQL, which reads the same rows once more, documents only the
legacy lane admits, the graph fallback, candidate windows and `allow_not_ready_shadow` are left out.

### ReviewWorkflow

`thread` is the row with its status, version, current checkpoint attempt and draft lease; `item` the
review items; `saved` the checkpoint of each attempt with the version it waits at and the items it
counted; `call` what each caller of start, status, resume or cancel read and where it is.  A thread
runs graph V2.0 or V2.1 for life.  V2.0 writes by compare-and-set on status and version (`Unmoved`) or
through `_mark_status`, which reads again and spares terminal statuses (`MayMark`); V2.1 writes
unconditionally (`Set`).  The lock of a service object orders the callers of one process; the model's
callers are of different processes.  A draft is persisted whole (`PersistDraft`) or, when one agent's
candidates do not bind to their evidence, in part: what was written of it stays and the thread returns to the status it was claimed from
(`PersistPart`).  `GraphFails` is any failure that marks `checkpoint_failed`, that of a confirmation after the graph
saved its end included.  `EndCall` is a refusal, an answer or the death of a process, at
any step.

Read and probe of row and checkpoint are one step (`Look`); renewals between adapters only move the
version and are left out; only the creator of a thread drafts, so a lease is never taken over; the
recursive resume after a repair is another call.  `main.py:191` builds `ReviewV21Service` without
coordinators, so that in production every V2.1 start ends in `failed`; the model gives it the
coordinators its tests do.

## 3. The runs

Every run names one `.cfg`.  Deadlock is checked in the runs of the first two models.  In the others
the system may really stop (every call settled, every request answered, every bounded generation
used, every thread ended), so their configurations switch the check off.

| Run | Instance | Question |
|---|---|---|
| `RolloutCore` | 3 items, 1 reviewer, recovery, 2 mandatory audits, canary of 2 | latch, breaker, ledger and verdicts stay consistent; slots are refilled, sampling and full rollout earned; the operator misses nothing but invalidated audits |
| `RolloutRaces` | 2 items, 2 reviewers, row guards installed | counters equal the rows they stand for |
| `KnowledgeCore` | 3 items, 1 source, 3 permissions, 2 changes | projection, tombstones, permissions, what the policy joins, refinement |
| `ReviewCallsCore` | 1 extraction and 1 validation call, 2 threads, 2 leases, 1 change of the world | one request per call, no stale answer kept, refinement |
| `ReviewCallsBudget` | 1 extraction and 2 validation calls, 1 thread, budgets that do not fit all, fair | budgets hold, claimed calls are settled |
| `RagRunCore` | 2 runs, 5 routes, 3 safety generations, fair recovery | honest totals, closed runs stay closed, no send after an overrun, refinement, pending shadows end |
| `ServingIndexCore` | 2 chunks, 1 knowledge row, 2 levels, 2 provenances, 1 session, 1 request, 1 cached answer, 2 corpus and 2 vector generations | projections follow the corpus, results move with the generations, answers are current |
| `ReviewWorkflowCore` | 2 callers, 2 items, 10 row versions, 2 attempts | status, reviews and checkpoints agree through races, failures and repairs |

Why the bounds suffice: two items are the fewest on which one approval is confirmed while another is
pending, invalidated or found critical, or launched at 10 percent and still waiting when 100 is authorized; a third
lets a slot of two be freed and refilled while another is confirmed; two reviewers on one audit are the race.  `MaxShadow` = 1 = `ShadowGate` reaches the
shadow gate and, with an unsupported comparison, misses it.  For knowledge, three items are an original, a
reaffirmation of it and a third that joins after a narrowing or collides; two changes of a source
make evidence stale and current again, or narrow twice.  `KnowledgeCore` takes one source: what it
checks is also proved for every set of sources (section 5), and items that cite several sources are
in the run of section 4.  Symmetry is used only in runs without liveness.

For review calls, two threads on one call are the race of a lease that ran out with the answer that
comes late, and two leases let recovery and a second claim follow; the budget run needs three calls
because two fit it.  For RAG runs, two of them share the safety authority, and three generations are a block, a
reviewed reset and a block again.  For the index, two chunks let one be replaced while another
stays and two provenances let a row be reaffirmed; two generations of each kind let a row be approved and made
ineligible under a session, a vector be written and narrowed, and a request be overtaken after admission or before it publishes.  Two larger
instances were also run once with the same result: one chunk with three corpus generations, in which a row is served again
(5.5 million states), and the index without requests with four corpus and three vector generations.  All five properties are
proved for every bound (section 5).  For workflows, ten
versions take a thread through a draft, a pause, a lost checkpoint, its repair, a resume and the writes
of a late second caller; three callers with one item and eight versions (4.1 million states) were
also run once with the same result.

The properties, in the order of the configurations:

* `FullRolloutEarned`: while 100 percent is authorized, all mandatory audits are confirmed and no
  critical verdict or correction exists, then or since.
* `RemediatedItemsAreRevoked`: a remediation closes only for a revoked item, whichever of request and
  recovery closes it.
* `EventsReplayToRow`: replaying the control events gives the row.
* `BreakerLatch`: an open breaker authorizes nothing; a correction keeps it open for good.
* `WithdrawnNeverCritical`: a business withdrawal never doubles as a critical verdict.
* `NoPromotionAcrossControlChange`: no promotion is made on an overtaken read of the control.
* `OperatorMissesOnlyInvalidations`: an operator's command differs from what the operator read by audits that source invalidation
  ended, at most (why it may miss those is in section 4).
* `SamplingIsEarned`, `CountersMatchLedger`: what the counters say is true of the rows.
* `ReadyProjectionIsExact`, `WithdrawnLeavesNoTrace`, `KnowledgeNoBroaderThanApprovals`,
  `RefinesTrustLifecycle`; `AutoJoinsOnlyDuplicate`: the policy decides on the projection, and what it joins is the only trusted
  row of the claim at the permission it was judged at.
* `SingleDispatch`: at most one request per call, for an attempt committed before.
* `StaleAnswersAreDropped`: an answer is kept only while all its call was launched with holds.
* `ValidationIsOneShot`, `ComponentsAreOneShot`: validation calls and RAG components refine `OneShotCall`.
* `BudgetKept`, `ClaimedCallsSettle`.
* `TotalsAreHonest`: a run's total is the sum of its rows, and of a delivered product the provider's bill.
* `FinishedRunsStay`: a closed run is never written again, by a late answer or a recovery.
* `NoSendAfterOverrun`: a grant issued before a block does not survive the reset after it.
* `PendingShadowEnds`: the next start of a process closes a projection whose owner died.
* `LexicalIsCanonical`: keyword search finds every canonical document, as it is.
* `VectorsAreServable`: no vector outlives its chunk or its trusted row, and a chunk's is no wider than the chunk.  The
  vector of a row whose source has made it ineligible or narrower does stay; vector search does not find it as long
  as it is not canonical or is narrower than the vector.
* `SearchMovesGenerations`: while both generations stay, so do the results of both backends; this is
  what the generation checks of requests and cache rest on.
* `AnswersAreCurrent`: a published answer, fresh or cached, was made from documents that are canonical then.
* `VerdictMatchesReviews`: a completed thread has no pending item and none that needs evidence,
  whoever wrote the status and however late.
* `EndedGraphIsRecoverable`: a decision the graph saved reaches the row by the next status request.  The
  exception it names is real: a resume that claims the thread, stalls while another repairs it, and
  then reads the repaired row, ends the new attempt's graph for a thread that waits; every later
  resume answers `checkpoint_unavailable` and only cancellation ends the thread.
* `TerminalIsFinal`: no late writer moves an ended V2.0 thread, but for the resume of section 4.
* `NoDraftAfterCancel`: a draft that returns after the cancellation leaves no items.

`MandatorySlots` and `CompletedIsBilled` are stated in the modules and
proved (section 5); no run repeats them.

### Fairness

`ClaimedCallsSettle` and `PendingShadowEnds` are the liveness that holds; `RemediationCompletes` and
`ReconciliationConverges` are liveness a migrated database breaks, whatever fairness is granted (section 4).

`RecoveryFairness`: the recovery scan runs at every start of the process (`main.py`) and from the
admin CLI, goes through its whole list, and its revokes and finalizations succeed infinitely often
if they can infinitely often (strong fairness: a failing key runtime or an I/O error does not last
forever).  Nothing is assumed of reviewers, of the operator or of the session of a request, which
may crash every time.  `ReconcileFairness`: reconciliation follows each ingestion that changes a
source, each start and each CLI call; strong fairness per source and per item says that what makes
a pass fail does not hit the same step forever, and a failed pass ends.  `FairSpec` of `ReviewCalls`: time passes (leases run out) and the call
recovery, which runs at every start (`main.py:152`) and from a CLI that is repeated until the remaining counts it
prints are zero, takes every expired call; weak fairness, as it depends on nothing else.  `Fairness`
of `RagRun`: processes are started again and again, and each start runs `recover_shadow_run` for
every pending shadow run (`main.py:335`).  All of these are assumptions on the operation of the
system: the code has no periodic scheduler, so a process that never restarts and whose CLI is never
called does not retry.  `ServingIndex` and `ReviewWorkflow` assume no fairness: nothing but the
next request drives them, and their properties are safety.

## 4. Where documents and code part

Each of these runs checks one property that a document or a test states; TLC finds it violated by what
the services do.

| Run | What happens |
|---|---|
| `RolloutRecovery` | `RemediationCompletes`: the audit row guard refuses every update of an audit that is not pending (`7c5a2e9f4b10`, 1258-1269), `_finalize` included; a critical audit stays `remediation_required` for ever. |
| `KnowledgeReconciliation` | `ReconciliationConverges`: narrowing writes the link's permission (`review/auto_review_source_reconciliation.py:636`), which the link guard refuses (1128-1157); evidence broader than its source stays actionable. |
| `KnowledgeServedPermission` | `ServedAtStrictestPermission`: a current source cited after a stale one does not enter the effective permission of shared knowledge. |
| `ReviewWorkflowReconciles` | `LiveItemsReconcile`: one human approval of a pending item makes the counts a V2.1 thread waits with irreconcilable (`approved` of the checkpoint minus live is -1, less than the 0 revoked), so status and resume raise `invalid_state_transition` from then on.  The test of this path resolves an item by rejection only. |

The two runs about the migration isolate one guard each.  With the guards off, as in a database the tests build from the
models, `RemediationCompletes` and `ReconciliationConverges` hold on the same instances under the same fairness.

Met while modelling, each read in the code and the documents it quotes, without a run of its own:

* **A cancelled V2.0 thread can come back.**  `resume` claims the thread, and reads the claimed row
  without looking at its status (`agent_runtime/review_v2_service.py:793`).  When another process
  cancels in between and the resume then fails (checkpoint runtime unavailable, permission, value
  error), `_restore_after_resume_failure` compares with the cancelled row and sets it back to
  `awaiting_human_review`.  `src/docs/superpowers/specs/2026-08-27-review-queue-hitl-v2-design.md:719`
  lets one of two such calls succeed and 187 calls cancelled terminal; the test (`src/backend/tests/test_review_v2_service.py:2127`)
  cancels only after the graph ran.  `TerminalIsFinal` without its second disjunct shows the trace.
* **A V2.0 thread whose process dies** while created, drafting, or pending without a saved checkpoint can only be
  cancelled: resume refuses these statuses and start only answers status, though line 714 of that
  design promises a retry after a crash behind the draft's commit.  A V2.1 thread in that state stays
  `checkpoint_pending` for good.
* After a reconciliation from `checkpoint_failed` the next probe expects one version too few and takes a good
  checkpoint for a corrupt one; the resume then rotates it away and repairs.  Retention deletes only
  the attempt the row names, so rotated ones are never deleted.
* V2.1 writes unconditionally: a late start, status or resume revives a cancelled thread, and a second
  resume can turn a completed one into `checkpoint_failed`.  A ValueError of a resumed V2.1 graph leaves
  `resuming` until the next status.
* **A started extraction call can be settled for nothing.**  The refusal branch of `mark_attempt_started`
  (`agent_runtime/review_v21_extraction.py:1485`) charges 0 without looking at status or attempt; a
  second holder of the same lease context that is refused after drift or cancellation settles the
  call the first has started.  `src/docs/superpowers/specs/2026-08-28-auto-review-trust-promotion-design.md:697-700`
  charges drift after the call exactly once.  `ValidationIsOneShot` is about validation calls for that reason.
* **Readiness without searchability.**  Reaffirmation changes a document's provenance, which its content
  hash leaves out (`rag/indexing.py:1017`): reindexing refreshes only the index state, readiness
  compares only the state and turns true, and vector search, which compares the vector's metadata,
  no longer finds the document.
* The canary gate wants selected = completed.  An audit ended by source invalidation is never counted
  completed, so one selected such audit closes the gate for good (`review/auto_review_rollout.py:84`; design 1089-1094).
  A manual audit counts as completed and not as selected, so it can hide a selected audit that is still
  open (design 1845-1848).
* **An operator can act on counters nobody read.**  Source invalidation of a pending audit writes `pending` and `invalidated`
  and leaves `state_version` alone (`review/auto_review_audit_transitions.py:80`), so the compare-and-swap of a control command
  accepts a version whose counters have changed since; design 1255 and line 1204 of the plan let every metric move the version.
  `OperatorMissesOnlyInvalidations` says how far view and row can differ.
* **No control change commits in a migrated database.**  The rollout row guard of `7c5a2e9f4b10` wants the control event in the update
  that changes the control, with an equal reason (983-1009); `authorize_percentage` flushes the row with its event before it sets
  `last_event_id` (`admin/auto_review_rollout.py:120`, 158) and writes a reason the row never has.  It admits a breaker event only with latch and generation
  unchanged (1030-1042), while `_open_breaker` resets both, and (955-957) refuses a source invalidation of a pending audit, which changes metrics
  without the next version.  So no percentage is ever authorized there, and a verdict that would open the breaker is refused with it.
  Lines 681-834 would refuse `authorize_initial_provider_policy` and the budget breaker events of validation.
* Another active link keeps knowledge only when it is live at that moment (`review/auto_review_revoke.py:682`); the
  plan says any active link does.
* The generation triggers also refuse a V2 reindex that only refreshes states, the unchanged-state
  update of ingestion (`ingestion/service.py:543`, which writes a source URL without moving the
  generation; without the triggers the lexical row goes stale), review items written when the corpus
  does not change, and a legacy reindex over states V2 tracks.
* Two extraction completions hold shared locks on the safety row and upgrade them, which can deadlock in
  the database; recovery compares a process clock with lease times the database wrote, and takes at most 100 rows per pass.
* A refused claim of a RAG component whose authority is broken raises and leaves the run running.
* `agent_runtime/review_workflow_facade.py:285` calls `resolve_effective_rollout` with arguments
  that `review/auto_review_rollout.py:172` does not take; `Launch` models the function as defined.
* Any critical audit keeps the shadow gate closed (critical = 0), so after the breaker is closed the
  row can never be authorized again; the design says so only of corrections.
* Batches are bounded by 100 (recovery, reconciliation), lowest id first; entries that always fail can
  starve later ones.
* A quality revoke of an item whose source is stale is refused until reconciliation has revoked the
  item, and then replays.
* After a narrowing, a human link that is not the automatic one keeps its old permission; once the automatic link is
  revoked the claim can no longer be reaffirmed, because no active link agrees with the row.
* `mark_evidence_stale` has no caller in the application; the model lets it happen.

## 5. What is proved

All theorems hold for every set of items, sessions, sources, versions, calls, callers, threads, runs, documents
and requests, every gate size, reserve, price, ceiling and bound on generations and both values of `AuditRowGuards` and `LinkGuards` (where a theorem does not name one as a hypothesis), under the named ASSUMEs: thresholds are natural numbers (`BoundsAssumption`),
the recovery session is not a reviewer's (`SessionsAssumption`), SQL NULL is not a value
(`NoneAssumption`, `ReasonsAssumption`, `NullAssumption`), business withdrawal is not a quality reason (`ReasonsAssumption`), items are finite (`ItemsAssumption`, and `WorkflowAssumption`, which also says that there is a first attempt),
sources have known permissions (`LevelsAssumption`), a workflow has finitely many agents and batches, a call is of one or the other and
reserves and usages are positive (`CallsAssumption`), routes are those of the code and an overrun is
more than the reserve (`RagAssumption`), no row is NULL and levels are known (`ServingAssumption`).

**AutoReviewRolloutProofs.**

* `TypeCorrect` needs `WorkOK`: a session in the middle of something knows its item and, when it
  revokes, its kind.  The decremented counter stays natural by the guards of the three writers that decrement it.
* `SlotsBounded`: a step either leaves confirmed + pending alone, moves one from pending to confirmed,
  lowers it, or adds one below the bound.
* `EventsReplay`: every step leaves control and events alone or appends an event from the old
  control to the new one (`ControlSteps`).
* `OperatorActs` from `ViewInv`: the view's version is at most the row's, and while they are equal the row differs from the view by
  invalidations alone (`DiffersByInvalidations`).  Every other step that moves a metric moves the version
  (`VersionStep`); an invalidation adds one (`InvalidationsAddUp`).
* `RemediationSound` from `RemediationInv`: a session about to finalize a success has an item that
  is revoked, and revoked is final; a remediation of a correction has one.
* `BreakerLatches` from `BreakerInv`: corrections are counted, and the counted ones forbid closing.

**AutoReviewCountersProofs.**  The three theorems that count rows hold under the hypothesis `AuditRowGuards`; without the guards
two auditors of one row are counted twice.

* `RowInv` says what the guards make of the ledger: an audit is judged once, from pending or unwritten, and a verdict is
  never written over; a session or a remediation to retry knows of a verdict that is there.
* `CountersFollow`: a step touches the rows of one item, and a counter moves by one when that item enters or leaves
  the set the counter stands for (`Recount`).  `StepCounters` shows that every action moves the counters so:
  `PromotionCounted`, `VerdictCounted`, `InvalidationCounted`, `CorrectionCounted`.
* `SamplingEarned` and `FullRolloutStandsOnAudits` from `EarnedInv`: confirmations are never taken back and cannot exceed the
  slots, and every verdict to the contrary takes the latch to zero (`StepOnward`).
* `PromotionsFollowTheLatch` from `LaunchInv` and `EventsReplayToRow`; `WithdrawalsJudgeNothing` from `RemediationInv`.

**TrustedKnowledgeProofs.**

* `TypeInv` strengthens the types by how rows depend on each other: items that exist have a
  permission, links belong to resolved items and rows that exist, knowledge belongs to items a human
  approved, and a pass works on linked items.
* `StepCases` sorts every step by what it does to rows, links and projection: an approval by a
  human, one by the policy, a narrowing, a revocation, a rebuild, or none of it.  The preservation
  proofs below have one step per case.
* `WithdrawalIsFinal`, `ReadinessIsHonest`, `PermissionsNarrow`.  The narrowing case of the last
  rests on `NarrowedIs`: the strictest of a set that holds the stored permissions is no broader than any.
* `PolicyJoinsDuplicates`: a healthy projection is exact, so a fingerprint that is alone is of the only
  trusted row (`AutoJoinsOnlyDuplicate`).
* `LifecycleHolds`: every step is a step of `TrustLifecycle` or leaves `trust` alone (`TrustStep`).

**ReviewCallsProofs.**

* `StepCalls` sorts every step by what it does to a call: claims, starts, sends, settles it, or leaves it alone;
  `StepThreads` says what a thread knows of its call.
* `OneRequestPerCall` from `DispatchInv`: a call is sent only by the one consumption of its grant, and a
  grant exists only for a committed attempt, however leases run out and claims repeat.
* `ResultsAreBilled` from `BilledInv`: what a thread holds as an answer is what was billed for the call it
  names, an unconsumed grant has not been settled at its bill, and an unclaimed call costs nothing.
* `NoStaleResult`: only the two completions complete (`OnlyCompletionCompletes`) and both look at the
  world and the lease in the transaction that completes (`CompletionIsCurrent`).
* `ValidationImplementsOneShot` from `BilledInv`: every step is a step or a stutter of `OneShotCall` (`StepOneShot`).

**ReviewBudgetProofs.**

* `Obligations` is a fold, defined by a recursive function that takes elements in the order CHOOSE gives.  `FoldAddsUp` shows
  that it is the sum of the weights, whatever the order: a sum over the subsets of a finite set exists (`SumExists`) and two functions
  that take the same from every set agree (`SumsAgree`).  Induction over sets is replaced by a smallest
  counterexample, which exists because strict inclusion is well founded on finite sets (`SmallestSubset`).
* `StepBudget` sorts every step: no call weighs more than before, or one call is admitted and fits beside all others with its
  reserve, or one answer turns out dearer than its reserve and a breaker opens (`Overruns`).  `StepFits` carries a limit on a sum
  through such a step.
* `BudgetAlwaysKept` adds that no step of a workflow closes a breaker (`StepBreaker`).  It excuses everything after an
  overrun; `OverrunsAloneExceed` says what is kept without that excuse, from `UnsentUnbilled`: a bill is only ever
  written by the one send of its call.
* `ValidationBillsFit` from `Paid`: what the provider bills for a validation call is never more than what the ledger holds for it
  unless it is dearer than the reserve.  For extraction calls this fails: a refusal of `mark_attempt_started` settles at
  charge 0 whatever the attempt.

**RagRunProofs.**

* The invariant `IInv` has a part per component, `CompOK` and `BindOK`, and one per run, `RunOK`.
  `CompOK` ties row, grant, answer and bill together: only a grant that was consumed has sent, a live
  grant stands for a row in flight or abandoned, a succeeded row is charged its bill.  `BindOK` says that the
  safety generation has passed every claim of an overrun once its safety side is committed, which is why
  the row may follow later.  `RunOK` holds the sum, and that a row in flight keeps its run in admission; with
  the order of the two components it gives `OneInFlight`, without which a cancellation or a failure could
  close a sibling that was sent.
* `StepKeeps` proves, action by action, that a step keeps `IInv` and is `StepOK`: it leaves a closed run
  alone (`Closed`), consumes a grant only under the present generation (`Fresh`), and moves at most one component
  of one run, by a step of the abstract call (`OneMoves`, `Move`).
* `RunsCostWhatWasBilled` follows from `IInv`, `ClosedRunsStayClosed` from `Closed`, `SendsFollowTheReview`
  from `Fresh` and `BindOK`, `ComponentsImplementOneShot` from `OneMoves`.
* `RunsCoverTheirBills` is a consequence of that refinement: along the steps of the abstract call a request that was sent stands as
  started or as settled at its bill or its reserve (`SentInv`), and the total of a run is the sum of its rows.

**ServingIndexProofs.**

* `LexInv`: the lexical rows are those of the corpus at its generation; every transaction that moves one
  moves the other.  `KeywordRetrievalIsExact` follows, because a search asks for the present generation.
* `VectorInv` and `TrustInv`: only trusted rows are served; a vector belongs to a chunk that is there and is no wider than the
  chunk, or to a trusted row, and one written by the V2 lane is tracked by its state.  `VectorsFollowTheCorpus` is
  `VectorInv` with `LexInv`: a vector that search hits has the version of the lexical row, which is the canonical one, so what ingestion
  does to a citing row without touching its vector takes the vector out of search.  What a session captured before the
  provider call is written only after the locks showed it the document again (`JobInv` ties a plan to its versions).
* `RequestInv`: the answer of a request was made from the evidence it saw, and a cached answer from the
  evidence in its key.  `PublishedAnswersAreCurrent` adds the check under lock at publication.
* `GenerationsStandForResults`: a corpus transaction moves the corpus generation and a persisting session the vector
  generation, unless it refreshes states only, which no search reads (`PersistV2Keeps`); a
  narrowing of knowledge that moves neither leaves what search reads of the vectors alone (`SameVectors`).

**ReviewWorkflowProofs.**

* `IInv` is `Typed` (the types, and what a call knows by where it stands), `Phase` (while a caller can still
  draft there is no checkpoint and every other caller is idle or only looks) and `Decided` (every verdict a
  checkpoint, a caller or the row holds is supported by the items).  A supported verdict stays supported:
  reviewers decide only pending items, revocation takes only approved ones, and no item is created once a verdict exists (`Phase`).
  `TypeCorrect` and `VerdictsAgreeWithReviews` are parts of it.
* `CancelledThreadsDraftNothing` from `Phase`: a V2.0 draft is persisted only under its lease, and a row that is
  being drafted is not cancelled; the V2.1 coordinator looks at the row in the transaction that persists.
* `EndsAreFinal` needs `CancelsLive` besides: a cancellation under way read a thread that had not ended, so
  its compare-and-swap on the version cannot reach one that has.
* `DecisionsSurvive` from `Recovery`, whose argument is about versions.  In the first attempt of a V2.0 thread
  the checkpoint names the version at which it waits and only the status one above it can be claimed;
  so at most one caller holds the claim (`OneClaim`).  While it lives nobody gives the thread back to reviewers,
  once the graph has ended every reading of a paused checkpoint is behind the row (`Readings`),
  and no caller is left that could give it back (`Settled`).

**Model-checked only.**  `ClaimedCallsSettle` and `PendingShadowEnds`, and the refutations of `RemediationCompletes` and
`ReconciliationConverges`, are liveness under fairness, which the prover does not handle, as it does not handle ENABLED.  Every
other property of a passing run is stated by a theorem.  The budgets of `ReviewCalls` needed induction over finite sets, which
the prover cannot instantiate; the well-founded ordering of subsets took its place.

## 6. What is not modelled

`PROJECT.json` lists every component with its status.  Left out of the models by choice: key
rotation (its effect on calls is `world.key`); batch transitions (a loop of the single one in one
transaction); companion effects of item types other than timeline events, whose rows reconciliation
narrows in separate transactions; edits of an item's payload before review; raw chunk serving; price
tables and amounts; the repair of a half-done safety transition; sharing and permissions of workflow
requests; the release ledger (its one state change appends a row under one barrier, by hand; the rest
of it compares the fields of a payload with snapshots of the rows it is about).  Out of reach or of
little use to a model: prompts and text extraction, HTTP parsing, connectors' I/O, the frontend.

## 7. Plan

Next, in this order:

1. `ReleaseLedger`: append-only evidence, review, gate.
2. Composition of `AutoReviewRollout` and `TrustedKnowledge` over the shared item status, so that
   `critical` and the revoke callback are the other module's steps; bounded batches of recovery and
   reconciliation.
3. The repair of the safety authority (rebind, supersession, release of an incident).

## 8. Running

    tlc -workers 2 -config RolloutCore.cfg MCAutoReviewRollout.tla
    tlc -workers 2 -config KnowledgeCore.cfg MCTrustedKnowledge.tla
    tlc -workers 2 -config ReviewCallsCore.cfg MCReviewCalls.tla
    tlc -workers 2 -config RagRunCore.cfg MCRagRun.tla
    tlc -workers 2 -config ServingIndexCore.cfg MCServingIndex.tla
    tlc -workers 2 -config ReviewWorkflowCore.cfg MCReviewWorkflow.tla
    tlapm AutoReviewRolloutProofs.tla
    tlapm AutoReviewCountersProofs.tla
    tlapm TrustedKnowledgeProofs.tla
    tlapm ReviewCallsProofs.tla
    tlapm ReviewBudgetProofs.tla
    tlapm RagRunProofs.tla
    tlapm ServingIndexProofs.tla
    tlapm ReviewWorkflowProofs.tla
