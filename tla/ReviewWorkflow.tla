--------------------------- MODULE ReviewWorkflow ---------------------------
(***************************************************************************)
(* One review workflow thread: its row, its review items and the graph     *)
(* checkpoints of its attempts, as the callers of start, status, resume    *)
(* and cancel move them.                                                   *)
(*                                                                         *)
(* A thread runs one of two graphs for life.  The service of V2.0          *)
(* (agent_runtime/review_v2_service.py, review_v2_graph.py) changes the    *)
(* row only by compare-and-set on status and version, and names the        *)
(* version in the checkpoint it waits at; the service of V2.1              *)
(* (review_v21_service.py, review_v21_graph.py) writes the row             *)
(* unconditionally.  A caller reads row and checkpoint in one step and     *)
(* acts in later ones; callers live in processes of their own, so the      *)
(* lock inside one service orders none of them.                            *)
(*                                                                         *)
(* The paid calls of drafting and validation are in ReviewCalls; here a    *)
(* draft is a set of items, each decided later by a reviewer, or at once   *)
(* by the automatic policy.                                                *)
(***************************************************************************)
EXTENDS Integers, FiniteSets

CONSTANTS
    Callers,        \* requests at work on the thread
    Items,          \* candidates a draft may produce
    MaxVersion,     \* bound: versions of the row
    MaxAttempt,     \* bound: checkpoint attempts of the thread
    Null

ASSUME WorkflowAssumption ==
    /\ IsFiniteSet(Items)
    /\ MaxVersion \in Nat
    /\ MaxAttempt \in Nat \ {0}
    /\ Null \notin Callers

Graphs == {"v20", "v21"}
Terminal == {"completed", "needs_more_evidence", "failed", "cancelled"}
Draftable == {"created", "drafting", "checkpoint_pending", "checkpoint_failed"}
Statuses == Terminal \cup Draftable \cup {"absent", "awaiting_human_review", "resuming"}
Verdicts == {"completed", "needs_more_evidence"}
ItemStatuses == {"absent", "pending_review", "approved", "auto_approved",
                 "rejected", "needs_more_evidence", "revoked"}
Attempts == 1..MaxAttempt

VARIABLES
    thread,         \* the agent_workflow_threads row
    item,           \* the status of each review item of the thread
    saved,          \* the checkpoint of each attempt
    call            \* what each caller is in the middle of

vars == <<thread, item, saved, call>>

NoCheckpoint == [at |-> "none", version |-> 0, verdict |-> Null, seen |-> Null]
NoThread == [graph |-> "v20", status |-> "absent", version |-> 0, attempt |-> 1,
             confirmed |-> FALSE, cancelled |-> FALSE, lease |-> Null]
NoCall == [op |-> "none", pc |-> "idle", tries |-> 0, row |-> NoThread,
           probe |-> "none", target |-> Null]

Init ==
    /\ thread = NoThread
    /\ item = [i \in Items |-> "absent"]
    /\ saved = [a \in Attempts |-> NoCheckpoint]
    /\ call = [c \in Callers |-> NoCall]

-----------------------------------------------------------------------------
(* The row. *)

Drafted == {i \in Items : item[i] # "absent"}

Pending == {i \in Items : item[i] = "pending_review"}

Running(c, graph, pc) == thread.graph = graph /\ call[c].pc = pc

At(c, pc) == call' = [call EXCEPT ![c].pc = pc]

Done(c) == call' = [call EXCEPT ![c] = NoCall]

(* The row moves to a status and a new version. *)
Bump(row, status) ==
    /\ thread.version < MaxVersion
    /\ thread' = [row EXCEPT !.status = status, !.version = thread.version + 1]

(* The condition of every UPDATE of _cas_status. *)
Unmoved(c) ==
    /\ thread.version = call[c].row.version
    /\ thread.status = call[c].row.status

(* Mutant of MayMark: whatever the row says. *)
MarkAnyway == TRUE

(* _mark_status leaves a terminal status alone. *)
MayMark == thread.status \notin Terminal

-----------------------------------------------------------------------------
(* The verdict of a graph over the items, and the checkpoint as a probe of  *)
(* the service judges it.                                                   *)

(* Mutant of Boundary: what needs more evidence is decided first. *)
MoreFirst(graph, items) ==
    LET with(st) == \E i \in Items : items[i] = st IN
    CASE with("needs_more_evidence") -> "needs_more_evidence"
      [] with("pending_review") /\ graph = "v20" -> "pause"
      [] OTHER -> "completed"

(* _review_resolution_branch of V2.0 and _branch of V2.1. *)
Boundary(graph, items) ==
    LET with(st) == \E i \in Items : items[i] = st IN
    CASE with("needs_more_evidence") /\ graph = "v20" -> "needs_more_evidence"
      [] with("pending_review") -> "pause"
      [] with("needs_more_evidence") -> "needs_more_evidence"
      [] OTHER -> "completed"

Paused(version) == [at |-> "paused", version |-> version, verdict |-> Null, seen |-> item]

Ended(verdict) == [at |-> "ended", version |-> 0, verdict |-> verdict, seen |-> item]

(* _expected_interrupt_state_version *)
ExpectedVersion(row) ==
    CASE row.status = "checkpoint_pending" -> row.version
      [] row.status = "awaiting_human_review" -> row.version - 1
      [] row.status = "checkpoint_failed" -> row.version - (IF row.confirmed THEN 2 ELSE 1)
      [] OTHER -> -1

(* _probe_checkpoint of V2.0 *)
Probe20(row) ==
    LET c == saved[row.attempt] IN
    CASE c.at = "paused" /\ Drafted # {} /\ c.version = ExpectedVersion(row) -> "paused"
      [] c.at = "ended" /\ c.verdict = Boundary("v20", item) -> "ended"
      [] OTHER -> "unusable"

Count(items, statuses) == Cardinality({i \in Items : items[i] \in statuses})

(* Counts by status as both projections give them: an approval is one. *)
Counts(items) ==
    [pending |-> Count(items, {"pending_review"}),
     approved |-> Count(items, {"approved", "auto_approved"}),
     rejected |-> Count(items, {"rejected"}),
     more |-> Count(items, {"needs_more_evidence"}),
     revoked |-> Count(items, {"revoked"})]

Total(n) == n.pending + n.approved + n.rejected + n.more + n.revoked

(* _validate_live_reconciliation of the counts a V2.1 checkpoint holds. *)
Reconciles(c) ==
    LET old == Counts(c.seen)
        live == Counts(item)
        revoked == live.revoked - old.revoked
        adjusted == [old EXCEPT !.approved = @ - revoked, !.revoked = live.revoked]
        resolved == adjusted.pending - live.pending
    IN \/ old = live
       \/ /\ Total(old) = Total(live)
          /\ revoked >= 0
          /\ old.approved - live.approved >= revoked
          /\ IF c.at = "ended" THEN adjusted = live
             ELSE /\ resolved >= 0
                  /\ live.approved >= adjusted.approved
                  /\ live.rejected >= adjusted.rejected
                  /\ live.more >= adjusted.more
                  /\ (live.approved - adjusted.approved)
                       + (live.rejected - adjusted.rejected)
                       + (live.more - adjusted.more) = resolved

(* What ReviewV21Service.status makes of a checkpoint; it raises on counts
   that do not reconcile. *)
Probe21(row) ==
    LET c == saved[row.attempt] IN
    CASE c.at \in {"paused", "broken", "ended"} /\ ~Reconciles(c) -> "refused"
      [] c.at \in {"paused", "broken"} -> "paused"
      [] c.at = "ended" -> "ended"
      [] OTHER -> "unusable"

Probe(row) == IF row.graph = "v20" THEN Probe20(row) ELSE Probe21(row)

-----------------------------------------------------------------------------
(* Starting: one thread per request identity, whoever asks. *)

(* create_or_reuse_review_thread, under its advisory locks. *)
CreateThread(c, graph) ==
    /\ call[c].pc = "idle"
    /\ thread.status = "absent"
    /\ thread' = [NoThread EXCEPT !.graph = graph, !.status = "created"]
    /\ call' = [call EXCEPT ![c] = [NoCall EXCEPT !.op = "start",
                                                  !.pc = IF graph = "v20" THEN "draft" ELSE "begin"]]
    /\ UNCHANGED <<item, saved>>

(* ReviewDraftService._claim_lease *)
ClaimLease(c) ==
    /\ Running(c, "v20", "draft")
    /\ thread.status \in Draftable
    /\ ~thread.cancelled
    /\ thread.lease = Null
    /\ Bump([thread EXCEPT !.lease = c], "drafting")
    /\ call' = [call EXCEPT ![c].pc = "drafting", ![c].tries = @ + 1]
    /\ UNCHANGED <<item, saved>>

(* No source leaves anything to extract from: no lease is taken. *)
NothingToDraft(c) ==
    /\ Running(c, "v20", "draft")
    /\ call[c].tries = 0
    /\ At(c, "begin")
    /\ UNCHANGED <<thread, item, saved>>

(* The lease a draft was made under is still the row's. *)
HoldsLease(c) == thread.lease = c /\ thread.status = "drafting"

Drafts(D) == item' = [i \in Items |-> IF i \in D THEN "pending_review" ELSE item[i]]

(* ReviewDraftService._persist_results: the candidates of every agent. *)
PersistDraft(c, D) ==
    /\ Running(c, "v20", "drafting")
    /\ HoldsLease(c)
    /\ Drafts(D)
    /\ Bump([thread EXCEPT !.lease = Null], "checkpoint_pending")
    /\ At(c, "begin")
    /\ UNCHANGED saved

(* A later agent's evidence does not bind: what the agents before it found is
   committed, the thread has its prior status again, and the caller is refused. *)
PersistPart(c, D) ==
    /\ Running(c, "v20", "drafting")
    /\ HoldsLease(c)
    /\ Drafts(D)
    /\ Bump([thread EXCEPT !.lease = Null], "created")
    /\ Done(c)
    /\ UNCHANGED saved

(* Mutant of AfterFailure: the model is tried as often as it is missing. *)
RetryAlways(c) == {"draft", "idle"}

(* _draft_with_bounded_retry: an unavailable model is tried once more and then
   fails the thread; any other failure only answers. *)
AfterFailure(c) == IF call[c].tries = 1 THEN {"draft", "idle"} ELSE {"fail", "idle"}

(* A model, a renewal or the evidence failed, or the lease ran out: the lease
   is given back.  Taking over an expired lease never happens: only the creator of
   a thread drafts. *)
DraftFails(c, next) ==
    /\ Running(c, "v20", "drafting")
    /\ next \in AfterFailure(c)
    /\ IF HoldsLease(c) THEN Bump([thread EXCEPT !.lease = Null], "created")
                        ELSE UNCHANGED thread
    /\ IF next = "idle" THEN Done(c) ELSE At(c, next)
    /\ UNCHANGED <<item, saved>>

(* _mark_failed: the model stayed unavailable. *)
MarkFailed(c) ==
    /\ Running(c, "v20", "fail")
    /\ MayMark
    /\ Bump(thread, "failed")
    /\ Done(c)
    /\ UNCHANGED <<item, saved>>

(* _ensure_checkpoint_pending *)
EnsureCheckpointPending(c) ==
    /\ Running(c, "v20", "begin")
    /\ \/ thread.status = "checkpoint_pending" /\ UNCHANGED thread
       \/ /\ thread.status \in {"created", "drafting", "checkpoint_failed"}
          /\ Bump(thread, "checkpoint_pending")
    /\ call' = [call EXCEPT ![c].pc = "invoke", ![c].row = thread']
    /\ UNCHANGED <<item, saved>>

(* The graph of V2.0 runs to its boundary over the drafted items: it waits at
   the version the row then has, or ends without candidates. *)
RunGraph(c) ==
    /\ Running(c, "v20", "invoke")
    /\ saved[call[c].row.attempt].at \in {"none", "partial"}
    /\ saved' = [saved EXCEPT ![call[c].row.attempt] =
                   IF Drafted = {} THEN Ended("completed") ELSE Paused(thread.version)]
    /\ call' = [call EXCEPT ![c].pc = "finish",
                            ![c].target = IF Drafted = {} THEN "completed"
                                          ELSE "awaiting_human_review"]
    /\ UNCHANGED <<thread, item>>

(* The graph or the store failed, before or after the boundary was saved: a
   confirmation that fails leaves a saved end behind. *)
GraphFails(c) ==
    /\ \/ Running(c, "v20", "invoke") /\ At(c, "mark")
       \/ Running(c, "v20", "finish") /\ At(c, "mark")
       \/ Running(c, "v20", "resume") /\ At(c, "mark")
       \/ Running(c, "v20", "settle") /\ At(c, "mark")
    /\ UNCHANGED <<thread, item, saved>>

(* A run that died between two nodes leaves a checkpoint that waits nowhere. *)
GraphStops(c) ==
    /\ call[c].pc = "invoke" \/ Running(c, "v21", "validating")
    /\ saved[call[c].row.attempt].at = "none"
    /\ saved' = [saved EXCEPT ![call[c].row.attempt].at = "partial"]
    /\ Done(c)
    /\ UNCHANGED <<thread, item>>

(* Mutant of FinishInitial: whatever the row says now. *)
FinishAnyway(c) ==
    /\ Running(c, "v20", "finish")
    /\ thread.status \notin Terminal
    /\ Bump([thread EXCEPT !.confirmed = TRUE], call[c].target)
    /\ Done(c)
    /\ UNCHANGED <<item, saved>>

(* _finish_initial_checkpoint, and the end of _repair_checkpoint. *)
FinishInitial(c) ==
    /\ Running(c, "v20", "finish")
    /\ thread.status = "checkpoint_pending"
    /\ Bump([thread EXCEPT !.confirmed = TRUE], call[c].target)
    /\ Done(c)
    /\ UNCHANGED <<item, saved>>

(* _mark_checkpoint_failed: no terminal status is left. *)
MarkCheckpointFailed(c) ==
    /\ Running(c, "v20", "mark")
    /\ MayMark
    /\ Bump(thread, "checkpoint_failed")
    /\ Done(c)
    /\ UNCHANGED <<item, saved>>

-----------------------------------------------------------------------------
(* Status, resume and cancel begin with a read of row and checkpoint. *)

Look(c, op) ==
    /\ call[c].pc = "idle"
    /\ thread.status # "absent"
    /\ call' = [call EXCEPT ![c] = [NoCall EXCEPT !.op = op, !.pc = "looked",
                                                  !.row = thread, !.probe = Probe(thread),
                                                  !.target = saved[thread.attempt].verdict]]
    /\ UNCHANGED <<thread, item, saved>>

LookAtStatus(c) == Look(c, "status")

(* A resume is admitted once every item is resolved, or to repair. *)
LookToResume(c) ==
    /\ \/ thread.status = "awaiting_human_review" /\ Pending = {}
       \/ thread.status = "checkpoint_failed" /\ thread.graph = "v20"
    /\ thread.graph = "v21" => Probe(thread) # "refused"
    /\ Look(c, "resume")

LookToCancel(c) ==
    /\ thread.status \notin IF thread.graph = "v20" THEN Terminal
                            ELSE {"completed", "needs_more_evidence", "cancelled"}
    /\ Look(c, "cancel")

Looked(c, graph, op) == Running(c, graph, "looked") /\ call[c].op = op

(* A row behind its checkpoint follows it: on every status, and on the resume
   of a thread whose checkpoint was thought lost. *)
Reconcile(c) ==
    /\ \/ Looked(c, "v20", "status")
       \/ Looked(c, "v20", "resume") /\ call[c].row.status = "checkpoint_failed"
    /\ Unmoved(c)
    /\ \/ /\ call[c].probe = "paused"
          /\ call[c].row.status \in {"checkpoint_pending", "checkpoint_failed"}
          /\ Bump([thread EXCEPT !.confirmed = TRUE], "awaiting_human_review")
       \/ /\ call[c].probe = "ended"
          /\ call[c].row.status \in {"checkpoint_pending", "resuming", "checkpoint_failed"}
          /\ Bump([thread EXCEPT !.confirmed = TRUE], call[c].target)
    /\ Done(c)
    /\ UNCHANGED <<item, saved>>

(* A thread that waits at a checkpoint nobody can use. *)
FailCheckpoint(c) ==
    /\ Looked(c, "v20", "resume")
    /\ call[c].row.status = "awaiting_human_review"
    /\ call[c].probe = "unusable"
    /\ Unmoved(c)
    /\ Bump(thread, "checkpoint_failed")
    /\ call' = [call EXCEPT ![c].row = thread']
    /\ UNCHANGED <<item, saved>>

(* _rotate_checkpoint_attempt: the repair runs the graph again, in an attempt
   of its own and over the items that exist. *)
RotateAttempt(c) ==
    /\ Looked(c, "v20", "resume")
    /\ call[c].row.status = "checkpoint_failed"
    /\ call[c].probe = "unusable"
    /\ Unmoved(c)
    /\ thread.attempt < MaxAttempt
    /\ Bump([thread EXCEPT !.attempt = @ + 1, !.confirmed = FALSE], "checkpoint_pending")
    /\ call' = [call EXCEPT ![c].pc = "invoke", ![c].row = thread']
    /\ UNCHANGED <<item, saved>>

ClaimResume(c) ==
    /\ Looked(c, "v20", "resume")
    /\ call[c].row.status = "awaiting_human_review"
    /\ call[c].probe = "paused"
    /\ Unmoved(c)
    /\ Bump(thread, "resuming")
    /\ At(c, "claimed")
    /\ UNCHANGED <<item, saved>>

(* The claimed row is read again, whatever it is by now. *)
ReadClaimed(c) ==
    /\ Running(c, "v20", "claimed")
    /\ call' = [call EXCEPT ![c].pc = "resume", ![c].row = thread]
    /\ UNCHANGED <<thread, item, saved>>

(* Its evidence or its permission changed: the thread waits again. *)
ClaimRefused(c) ==
    /\ Running(c, "v20", "claimed")
    /\ MayMark
    /\ Bump(thread, "awaiting_human_review")
    /\ Done(c)
    /\ UNCHANGED <<item, saved>>

(* The node that waits runs again: the acknowledgement must name the version
   the row has now, and the items are read anew. *)
ResumeGraph(c) ==
    LET a == call[c].row.attempt
        next == Boundary("v20", item)
    IN /\ Running(c, "v20", "resume")
       /\ saved[a].at = "paused"
       /\ IF thread.version # call[c].row.version
          THEN saved' = [saved EXCEPT ![a].at = "broken"] /\ At(c, "restore")
          ELSE IF next = "pause"
          THEN saved' = [saved EXCEPT ![a] = Paused(thread.version)] /\ At(c, "mark")
          ELSE /\ saved' = [saved EXCEPT ![a] = Ended(next)]
               /\ call' = [call EXCEPT ![c].pc = "settle", ![c].target = next]
       /\ UNCHANGED <<thread, item>>

(* The runtime or a permission fails before the graph moves. *)
ResumeRefused(c) ==
    /\ Running(c, "v20", "resume")
    /\ At(c, "restore")
    /\ UNCHANGED <<thread, item, saved>>

(* _restore_after_resume_failure *)
RestoreAwaiting(c) ==
    /\ Running(c, "v20", "restore")
    /\ Unmoved(c)
    /\ Bump(thread, "awaiting_human_review")
    /\ Done(c)
    /\ UNCHANGED <<item, saved>>

FinishResume(c) ==
    /\ Running(c, "v20", "settle")
    /\ thread.status = "resuming"
    /\ Bump(thread, call[c].target)
    /\ Done(c)
    /\ UNCHANGED <<item, saved>>

Cancel(c) ==
    /\ Looked(c, "v20", "cancel")
    /\ Unmoved(c)
    /\ Bump([thread EXCEPT !.cancelled = TRUE], "cancelled")
    /\ Done(c)
    /\ UNCHANGED <<item, saved>>

-----------------------------------------------------------------------------
(* The service of V2.1: every write of the row is unconditional. *)

(* _set_status *)
Set(status, bumps) ==
    /\ bumps => thread.version < MaxVersion
    /\ thread' = [thread EXCEPT !.status = status,
                                !.version = IF bumps THEN @ + 1 ELSE @,
                                !.confirmed = @ \/ status \in Verdicts \cup {"awaiting_human_review"}]

Begin21(c) ==
    /\ Running(c, "v21", "begin")
    /\ Set("checkpoint_pending", TRUE)
    /\ call' = [call EXCEPT ![c].pc = "invoke", ![c].row = thread']
    /\ UNCHANGED <<item, saved>>

(* Mutant of Draft21: the coordinator does not ask whether it may. *)
DraftRegardless(c, D) ==
    /\ Running(c, "v21", "invoke")
    /\ saved[1].at = "none"
    /\ Drafts(D)
    /\ At(c, "validating")
    /\ UNCHANGED <<thread, saved>>

(* The extraction coordinator refuses a cancelled workflow. *)
Draft21(c, D) ==
    /\ Running(c, "v21", "invoke")
    /\ saved[1].at = "none"
    /\ ~thread.cancelled
    /\ Drafts(D)
    /\ At(c, "validating")
    /\ UNCHANGED <<thread, saved>>

(* The policy approves one of the new items in a reviewer's place. *)
AutoApprove(c, i) ==
    /\ Running(c, "v21", "validating")
    /\ item[i] = "pending_review"
    /\ item' = [item EXCEPT ![i] = "auto_approved"]
    /\ UNCHANGED <<thread, saved, call>>

(* The items are counted; while one is pending the graph waits. *)
Settled21(c, a) ==
    LET next == Boundary("v21", item)
        pause == next = "pause"
    IN /\ saved' = [saved EXCEPT ![a] = IF pause THEN Paused(thread.version) ELSE Ended(next)]
       /\ call' = [call EXCEPT ![c].pc = "settle",
                               ![c].target = IF pause THEN "awaiting_human_review" ELSE next]

RunGraph21(c) ==
    /\ Running(c, "v21", "validating")
    /\ Settled21(c, call[c].row.attempt)
    /\ UNCHANGED <<thread, item>>

(* No coordinator or an invalid state fails the thread; an unconfirmed
   checkpoint leaves it to the next status. *)
Fail21(c, status) ==
    /\ \/ status = "failed" /\ call[c].op = "start"
          /\ (Running(c, "v21", "invoke") \/ Running(c, "v21", "validating"))
       \/ status = "checkpoint_failed"
          /\ (Running(c, "v21", "invoke") \/ Running(c, "v21", "resume") \/ Running(c, "v21", "settle"))
    /\ Set(status, TRUE)
    /\ Done(c)
    /\ UNCHANGED <<item, saved>>

Settle21(c) ==
    /\ Running(c, "v21", "settle")
    /\ Set(call[c].target, FALSE)
    /\ Done(c)
    /\ UNCHANGED <<item, saved>>

Reconcile21(c) ==
    /\ Looked(c, "v21", "status")
    /\ call[c].row.status \in {"created", "checkpoint_pending", "resuming", "checkpoint_failed"}
    /\ \/ call[c].probe = "paused" /\ Set("awaiting_human_review", FALSE)
       \/ call[c].probe = "ended" /\ Set(call[c].target, FALSE)
    /\ Done(c)
    /\ UNCHANGED <<item, saved>>

ClaimResume21(c) ==
    /\ Looked(c, "v21", "resume")
    /\ Set("resuming", FALSE)
    /\ At(c, "resume")
    /\ UNCHANGED <<item, saved>>

ResumeGraph21(c) ==
    LET a == call[c].row.attempt IN
    /\ Running(c, "v21", "resume")
    /\ saved[a].at \in {"paused", "broken"}
    /\ IF thread.version # call[c].row.version
       THEN saved' = [saved EXCEPT ![a].at = "broken"] /\ Done(c)
       ELSE Settled21(c, a)
    /\ UNCHANGED <<thread, item>>

Cancel21(c) ==
    /\ Looked(c, "v21", "cancel")
    /\ thread' = [thread EXCEPT !.status = "cancelled", !.cancelled = TRUE]
    /\ Done(c)
    /\ UNCHANGED <<item, saved>>

-----------------------------------------------------------------------------
(* Reviewers, revocation, retention, and the death of a caller. *)

(* transitions.py: a pending item is resolved once. *)
Resolve(i, status) ==
    /\ item[i] = "pending_review"
    /\ item' = [item EXCEPT ![i] = status]
    /\ UNCHANGED <<thread, saved, call>>

(* Only what the policy approved is revoked. *)
Revoke(i) ==
    /\ item[i] = "auto_approved"
    /\ item' = [item EXCEPT ![i] = "revoked"]
    /\ UNCHANGED <<thread, saved, call>>

(* prune_expired_checkpoints, long after the thread ended: only the attempt
   the row names is deleted. *)
PruneCheckpoints ==
    /\ thread.status \in Terminal
    /\ \A c \in Callers : call[c].pc = "idle"
    /\ saved[thread.attempt].at # "none"
    /\ saved' = [saved EXCEPT ![thread.attempt] = NoCheckpoint]
    /\ UNCHANGED <<thread, item, call>>

(* The caller is refused, answered, or its process dies. *)
EndCall(c) ==
    /\ call[c].pc # "idle"
    /\ Done(c)
    /\ UNCHANGED <<thread, item, saved>>

-----------------------------------------------------------------------------
Next ==
    \/ PruneCheckpoints
    \/ \E i \in Items :
        \/ Revoke(i)
        \/ \E status \in {"approved", "rejected", "needs_more_evidence"} : Resolve(i, status)
    \/ \E c \in Callers :
        \/ \E graph \in Graphs : CreateThread(c, graph)
        \/ ClaimLease(c)
        \/ NothingToDraft(c)
        \/ \E D \in SUBSET Items : PersistDraft(c, D) \/ PersistPart(c, D) \/ Draft21(c, D)
        \/ \E next \in {"draft", "fail", "idle"} : DraftFails(c, next)
        \/ MarkFailed(c)
        \/ EnsureCheckpointPending(c)
        \/ RunGraph(c)
        \/ GraphFails(c)
        \/ GraphStops(c)
        \/ FinishInitial(c)
        \/ MarkCheckpointFailed(c)
        \/ LookAtStatus(c)
        \/ LookToResume(c)
        \/ LookToCancel(c)
        \/ Reconcile(c)
        \/ FailCheckpoint(c)
        \/ RotateAttempt(c)
        \/ ClaimResume(c)
        \/ ReadClaimed(c)
        \/ ClaimRefused(c)
        \/ ResumeGraph(c)
        \/ ResumeRefused(c)
        \/ RestoreAwaiting(c)
        \/ FinishResume(c)
        \/ Cancel(c)
        \/ Begin21(c)
        \/ \E i \in Items : AutoApprove(c, i)
        \/ RunGraph21(c)
        \/ \E status \in {"failed", "checkpoint_failed"} : Fail21(c, status)
        \/ Settle21(c)
        \/ Reconcile21(c)
        \/ ClaimResume21(c)
        \/ ResumeGraph21(c)
        \/ Cancel21(c)
        \/ EndCall(c)

Spec == Init /\ [][Next]_vars

-----------------------------------------------------------------------------
Rows == [graph : Graphs, status : Statuses, version : 0..MaxVersion,
         attempt : Attempts, confirmed : BOOLEAN, cancelled : BOOLEAN,
         lease : Callers \cup {Null}]

(* The row, the items, the checkpoints and the calls have their types. *)
TypeOK ==
    /\ thread \in Rows
    /\ item \in [Items -> ItemStatuses]
    /\ saved \in [Attempts ->
                    [at : {"none", "partial", "paused", "broken", "ended"},
                     version : 0..MaxVersion,
                     verdict : Verdicts \cup {Null},
                     seen : [Items -> ItemStatuses] \cup {Null}]]
    /\ call \in [Callers ->
                   [op : {"none", "start", "status", "resume", "cancel"},
                    pc : {"idle", "draft", "drafting", "fail", "begin", "invoke", "finish",
                          "mark", "looked", "claimed", "resume", "restore", "settle",
                          "validating"},
                    tries : 0..2, row : Rows,
                    probe : {"none", "paused", "ended", "unusable", "refused"},
                    target : Verdicts \cup {"awaiting_human_review", Null}]]

(* A V2.0 thread that ended stays as it ended, whatever a caller that read it
   earlier still writes (_cas_status, _mark_status).  The exception is a resume
   that claimed the thread, read the claimed row only after it had ended and
   is then refused: it restores what it read (_restore_after_resume_failure). *)
TerminalIsFinal ==
    [][thread.graph = "v20" /\ thread.status \in Terminal =>
         \/ thread'.status = thread.status
         \/ /\ \E c \in Callers : call[c].pc = "restore" /\ Unmoved(c)
            /\ thread'.status = "awaiting_human_review"]_vars

(* A thread completes only when none of its items is pending or needs more
   evidence, and asks for more evidence only when an item does, whoever wrote
   the status and however long after the graph decided (both graphs). *)
VerdictMatchesReviews ==
    /\ thread.status = "completed" =>
         \A i \in Items : item[i] \notin {"pending_review", "needs_more_evidence"}
    /\ thread.status = "needs_more_evidence" =>
         \E i \in Items : item[i] = "needs_more_evidence"

(* When no call is under way, a V2.0 thread whose graph ended has ended too or
   is in a status that the next status request carries over to it: its
   decision is not lost (the reconciliation of status and resume).  A thread
   that was repaired is the exception: a resume that claimed it before the
   repair and reads it after ends the new attempt's graph for a thread that
   waits, and then every further resume is refused. *)
EndedGraphIsRecoverable ==
    (/\ thread.graph = "v20"
     /\ \A c \in Callers : call[c].pc = "idle"
     /\ saved[thread.attempt].at = "ended")
      => \/ thread.status \in Terminal
         \/ /\ thread.status \in {"checkpoint_pending", "resuming", "checkpoint_failed"}
            /\ Probe20(thread) = "ended"
         \/ thread.attempt > 1 /\ thread.status = "awaiting_human_review"

(* Once a thread was cancelled no further candidate of it appears, whatever
   draft was under way (_persist_results, the coordinator's guard). *)
NoDraftAfterCancel ==
    [][thread.cancelled => \A i \in Items : item[i] = "absent" => item'[i] = "absent"]_vars

(* The counts a V2.1 thread waits with reconcile with whatever reviewers and
   revocations have made of its items since (_validate_live_reconciliation;
   otherwise neither status nor resume ever answers again). *)
LiveItemsReconcile ==
    (thread.graph = "v21" /\ saved[thread.attempt].at = "paused")
      => Reconciles(saved[thread.attempt])

=============================================================================
