----------------------------- MODULE ReviewCalls -----------------------------
(***************************************************************************)
(* The paid provider calls of one review workflow: an extraction call per  *)
(* agent (agent_runtime/review_v21_extraction.py) and a validation call    *)
(* per batch (agent_runtime/auto_review_validation_store.py), driven by    *)
(* worker threads that claim, start, dispatch and settle, and settled from *)
(* outside by lease recovery and by the cancellation of the workflow       *)
(* (admin/auto_review_call_recovery.py).                                   *)
(*                                                                         *)
(* Every transaction locks the workflow row, so one transaction is one     *)
(* action.  A worker acts on what it read in an earlier one: its lease     *)
(* token, its grant, the check made before the send.                       *)
(***************************************************************************)
EXTENDS Integers, FiniteSetsExt

CONSTANTS
    Agents,             \* extraction calls, one per agent
    Batches,            \* validation calls, one per batch of candidates
    Workers,            \* threads of the serving process
    Reserve,            \* what every call reserves
    Usages,             \* what an answer may cost
    NoUsage,            \* an answer whose usage is unknown
    ExtractionCeiling,  \* confirmed budget of the extraction calls
    ValidationCeiling,  \* confirmed budget of the validation calls
    TotalCeiling,       \* confirmed budget of the workflow
    MaxBatches,         \* validation calls a workflow may make
    MaxLeases,          \* bound: leases given to one call
    MaxChanges          \* bound: changes of the world around the workflow

ASSUME CallsAssumption ==
    /\ IsFiniteSet(Agents) /\ IsFiniteSet(Batches)
    /\ Agents \cap Batches = {}
    /\ Reserve \in Nat \ {0}
    /\ Usages \subseteq Nat \ {0}
    /\ NoUsage \notin Nat
    /\ ExtractionCeiling \in Nat
    /\ ValidationCeiling \in Nat
    /\ TotalCeiling \in Nat
    /\ MaxBatches \in Nat
    /\ MaxLeases \in Nat \ {0}
    /\ MaxChanges \in Nat

Calls == Agents \cup Batches
Purposes == {"extraction", "validation"}
Terminal == {"completed", "failed"}

VARIABLES
    world,    \* what calls are bound to: cancellation, the runtime key, the
              \* sources and owner permissions of the launch, the rollout
    safety,   \* provider safety row of each purpose
    call,     \* the call rows
    live,     \* memory: calls with an active, unconsumed grant
    worker,   \* memory: what each thread is doing
    todo,     \* calls a running cancellation still has to settle
    sent,     \* history: requests the provider received per call
    billed    \* history: what the provider charges per call

vars == <<world, safety, call, live, worker, todo, sent, billed>>

Idle == [pc |-> "idle", call |-> NoUsage, token |-> 0, usage |-> NoUsage]

NoCall == [status |-> "none", token |-> 0, attempt |-> 0, expired |-> FALSE,
           charge |-> 0, overrun |-> FALSE]

Init ==
    /\ world = [cancelled |-> FALSE, closed |-> FALSE, key |-> "current",
                sources |-> TRUE, permitted |-> TRUE, rollout |-> TRUE,
                changes |-> 0]
    /\ safety = [p \in Purposes |-> [version |-> 1, open |-> FALSE]]
    /\ call = [c \in Calls |-> NoCall]
    /\ live = {}
    /\ worker = [w \in Workers |-> Idle]
    /\ todo = {}
    /\ sent = [c \in Calls |-> 0]
    /\ billed = [c \in Calls |-> 0]

-----------------------------------------------------------------------------
(* Guards shared by the two stores. *)

(* What a call weighs in the budget: its reserve until it is settled. *)
Obligation(c) ==
    IF call[c].status \in Terminal THEN call[c].charge
    ELSE IF call[c].status = "claimed" THEN Reserve ELSE 0

Obligations(S) == MapThenSumSet(Obligation, S)

RuntimeMatches == world.key = "current"

(* The safety row is closed and is the one the workflow was launched with. *)
SafetyMatches(p) == ~safety[p].open /\ safety[p].version = 1

(* The rollout row still carries the control epoch of the launch. *)
RolloutMatches == world.rollout

(* Every source of the batch still has the content it was prepared from. *)
SourcesMatch == world.sources

(* The owner may still read every source of the batch. *)
PermissionsMatch == world.permitted

ValidationAuthority ==
    /\ RuntimeMatches
    /\ SafetyMatches("validation")
    /\ RolloutMatches
    /\ SourcesMatch

(* Mutant of ValidationGuards: the permissions are not resolved again. *)
ValidationAuthorityOnly == ValidationAuthority

(* What an attempt is guarded by adds the permissions of the owner. *)
ValidationGuards == ValidationAuthority /\ PermissionsMatch

(* Extraction depends on both safety rows and not on the rollout.  Later
   steps use the permission levels its context was claimed with. *)
ExtractionIdentity ==
    /\ world.sources
    /\ \A p \in Purposes : SafetyMatches(p)

ensure_claim_ready(reserve) ==
    /\ ~world.cancelled
    /\ RuntimeMatches
    /\ ExtractionIdentity
    /\ Obligations(Calls) + reserve <= TotalCeiling

(* Mutant of require_workflow_budget: extraction calls are not counted. *)
require_validation_budget_only ==
    /\ Cardinality({b \in Batches : call[b].status # "none"}) < MaxBatches
    /\ Obligations(Batches) + Reserve <= ValidationCeiling

require_workflow_budget ==
    /\ Cardinality({b \in Batches : call[b].status # "none"}) < MaxBatches
    /\ Obligations(Batches) + Reserve <= ValidationCeiling
    /\ Obligations(Calls) + Reserve <= TotalCeiling

(* A context opens a call only with the token of its current lease. *)
Holds(w, c) == worker[w].call = c /\ worker[w].token = call[c].token

(* Mutant of Settled: a result is charged its reserve. *)
SettledAtReserve(c, status, charge, overrun) ==
    [call EXCEPT ![c].status = status,
                 ![c].charge = IF status = "completed" THEN Reserve ELSE charge,
                 ![c].overrun = overrun]

Settled(c, status, charge, overrun) ==
    [call EXCEPT ![c].status = status, ![c].charge = charge,
                 ![c].overrun = overrun]

Tripped(p) == [safety EXCEPT ![p] = [version |-> @.version + 1, open |-> TRUE]]

(* Validation keeps a breaker that is open as it is. *)
open_budget_breaker ==
    IF safety["validation"].open THEN safety ELSE Tripped("validation")

open_overrun_breaker == Tripped("extraction")

Becomes(w, pc) == worker' = [worker EXCEPT ![w].pc = pc]

Leaves(w) == worker' = [worker EXCEPT ![w] = Idle]

Claims(w, c, token) ==
    worker' = [worker EXCEPT ![w] =
        [pc |-> "claimed", call |-> c, token |-> token, usage |-> NoUsage]]

NewLease(c) ==
    call' = [call EXCEPT ![c].token = @ + 1, ![c].expired = FALSE]

Charge(usage) == IF usage = NoUsage THEN Reserve ELSE usage

-----------------------------------------------------------------------------
(* Validation calls. *)

validation_overrun(b, charge) ==
    \/ charge > Reserve
    \/ Obligations(Batches \ {b}) + charge > ValidationCeiling
    \/ Obligations(Calls \ {b}) + charge > TotalCeiling

(* A first claim inserts the row, a later one takes over an expired lease
   whose attempt was never started; a busy or terminal call is answered
   without a change. *)
ClaimValidation(w, b) ==
    /\ worker[w].pc = "idle"
    /\ ~world.cancelled
    /\ ValidationAuthority
    /\ \/ /\ call[b].status = "none"
          /\ require_workflow_budget
          /\ call' = [call EXCEPT ![b] =
                 [NoCall EXCEPT !.status = "claimed", !.token = 1]]
          /\ Claims(w, b, 1)
       \/ /\ call[b].status = "claimed"
          /\ call[b].expired
          /\ call[b].attempt = 0
          /\ call[b].token < MaxLeases
          /\ NewLease(b)
          /\ Claims(w, b, call[b].token + 1)
    /\ UNCHANGED <<world, safety, live, todo, sent, billed>>

validation_startable(w, b) ==
    /\ worker[w].pc = "claimed"
    /\ Holds(w, b)
    /\ call[b].status = "claimed"
    /\ call[b].attempt = 0
    /\ ~call[b].expired
    /\ ~world.cancelled

(* The attempt is committed before anything is sent; what drifted since the
   claim settles the call for nothing instead. *)
StartValidation(w, b) ==
    /\ validation_startable(w, b)
    /\ IF ValidationGuards
       THEN /\ call' = [call EXCEPT ![b].attempt = 1]
            /\ live' = live \cup {b}
            /\ Becomes(w, "granted")
       ELSE /\ call' = Settled(b, "failed", 0, FALSE)
            /\ Leaves(w)
            /\ UNCHANGED live
    /\ UNCHANGED <<world, safety, todo, sent, billed>>

(* The check in the database that precedes the send; a refusal is an error
   the orchestrator turns into a failure of the call. *)
CheckValidation(w, b) ==
    /\ worker[w].pc = "granted"
    /\ worker[w].call = b
    /\ IF /\ b \in live
          /\ Holds(w, b)
          /\ call[b].status = "claimed"
          /\ call[b].attempt = 1
          /\ ~call[b].expired
          /\ ~world.cancelled
          /\ ValidationGuards
       THEN Becomes(w, "checked") /\ UNCHANGED live
       ELSE Becomes(w, "refused") /\ live' = live \ {b}
    /\ UNCHANGED <<world, safety, call, todo, sent, billed>>

CompleteValidation(w, b) ==
    /\ worker[w].pc = "answered"
    /\ Holds(w, b)
    /\ worker[w].usage # NoUsage
    /\ call[b].status = "claimed"
    /\ call[b].attempt = 1
    /\ ~call[b].expired
    /\ LET charge == worker[w].usage
           over == validation_overrun(b, charge)
           status == IF over \/ world.cancelled \/ ~ValidationGuards
                     THEN "failed" ELSE "completed"
       IN /\ call' = Settled(b, status, charge, over)
          /\ safety' = IF over THEN open_budget_breaker ELSE safety
    /\ Leaves(w)
    /\ UNCHANGED <<world, live, todo, sent, billed>>

(* A refused dispatch fails with unknown usage, a malformed answer with what
   is known of its usage.  The lease is not looked at. *)
FailValidation(w, b) ==
    /\ worker[w].pc \in {"refused", "answered"}
    /\ Holds(w, b)
    /\ call[b].status = "claimed"
    /\ call[b].attempt = 1
    /\ \E usage \in {worker[w].usage, NoUsage} :
           LET charge == Charge(usage)
               over == charge > Reserve
           IN /\ call' = Settled(b, "failed", charge, over)
              /\ safety' = IF over THEN open_budget_breaker ELSE safety
    /\ Leaves(w)
    /\ UNCHANGED <<world, live, todo, sent, billed>>

CancelValidation(w, b) ==
    /\ worker[w].pc = "claimed"
    /\ Holds(w, b)
    /\ call[b].status = "claimed"
    /\ call[b].attempt = 0
    /\ call' = Settled(b, "failed", 0, FALSE)
    /\ Leaves(w)
    /\ UNCHANGED <<world, safety, live, todo, sent, billed>>

(* The store's own recovery also takes the grant out of memory. *)
RecoverValidation(b) ==
    /\ call[b].status = "claimed"
    /\ call[b].attempt = 1
    /\ call[b].expired
    /\ call' = Settled(b, "failed", Reserve, FALSE)
    /\ live' = live \ {b}
    /\ UNCHANGED <<world, safety, worker, todo, sent, billed>>

-----------------------------------------------------------------------------
(* Extraction calls. *)

extraction_overrun(a, charge) ==
    \/ charge > Reserve
    \/ Obligations(Agents \ {a}) + charge > ExtractionCeiling
    \/ Obligations(Calls \ {a}) + charge > TotalCeiling

(* Whoever claims an existing call receives the context of its lease. *)
ClaimExtraction(w, a) ==
    /\ worker[w].pc = "idle"
    /\ world.permitted
    /\ \/ /\ call[a].status = "none"
          /\ ensure_claim_ready(Reserve)
          /\ call' = [call EXCEPT ![a] =
                 [NoCall EXCEPT !.status = "claimed", !.token = 1]]
          /\ Claims(w, a, 1)
       \/ /\ call[a].status \in {"claimed", "completed"}
          /\ ensure_claim_ready(0)
          /\ Claims(w, a, call[a].token)
          /\ UNCHANGED call
    /\ UNCHANGED <<world, safety, live, todo, sent, billed>>

(* Mutant of StartExtraction: the single attempt is not looked at. *)
StartExtractionUncounted(w, a) ==
    /\ worker[w].pc = "claimed"
    /\ Holds(w, a)
    /\ ensure_claim_ready(0)
    /\ call' = [call EXCEPT ![a].attempt = @ + 1, ![a].expired = FALSE]
    /\ live' = live \cup {a}
    /\ Becomes(w, "granted")
    /\ UNCHANGED <<world, safety, todo, sent, billed>>

(* A refusal settles the call for nothing, whatever its status and attempt
   are by then; the marker itself needs an unstarted claim. *)
StartExtraction(w, a) ==
    /\ worker[w].pc = "claimed"
    /\ Holds(w, a)
    /\ world.key # "unready"
    /\ \/ /\ ~ensure_claim_ready(0)
          /\ call' = Settled(a, "failed", 0, call[a].overrun)
          /\ Leaves(w)
          /\ UNCHANGED live
       \/ /\ ensure_claim_ready(0)
          /\ call[a].status = "claimed"
          /\ call[a].attempt = 0
          /\ call' = [call EXCEPT ![a].attempt = 1, ![a].expired = FALSE]
          /\ live' = live \cup {a}
          /\ Becomes(w, "granted")
    /\ UNCHANGED <<world, safety, todo, sent, billed>>

(* A cancelled workflow does not stop a granted dispatch here. *)
CheckExtraction(w, a) ==
    /\ worker[w].pc = "granted"
    /\ worker[w].call = a
    /\ IF /\ a \in live
          /\ Holds(w, a)
          /\ call[a].status = "claimed"
          /\ call[a].attempt = 1
          /\ ~call[a].expired
          /\ RuntimeMatches
          /\ ExtractionIdentity
       THEN Becomes(w, "checked") /\ UNCHANGED live
       ELSE Becomes(w, "refused") /\ live' = live \ {a}
    /\ UNCHANGED <<world, safety, call, todo, sent, billed>>

(* An answer whose usage is unknown is charged the reserve.  The candidate
   of a good answer may still fail its evidence binding, and the answer may
   not parse: both fail the call with the same charge. *)
CompleteExtraction(w, a) ==
    /\ worker[w].pc = "answered"
    /\ Holds(w, a)
    /\ world.key # "unready"
    /\ call[a].status = "claimed"
    /\ call[a].attempt = 1
    /\ LET charge == Charge(worker[w].usage)
           over == extraction_overrun(a, charge)
           drifted == ~ExtractionIdentity \/ ~RuntimeMatches \/ call[a].expired
       IN \E usable \in BOOLEAN :
          /\ call' = Settled(a,
                 IF over \/ drifted \/ world.cancelled \/ ~usable
                 THEN "failed" ELSE "completed", charge, over)
          /\ safety' = IF over THEN open_overrun_breaker ELSE safety
    /\ live' = live \ {a}
    /\ Leaves(w)
    /\ UNCHANGED <<world, todo, sent, billed>>

FailExtraction(w, a) ==
    /\ worker[w].pc \in {"claimed", "refused", "answered"}
    /\ Holds(w, a)
    /\ world.key # "unready"
    /\ call[a].status = "claimed"
    /\ \E usage \in {worker[w].usage, NoUsage} :
           LET started == call[a].attempt = 1
               charge == IF started THEN Charge(usage) ELSE 0
               over == started /\ extraction_overrun(a, charge)
           IN /\ call' = Settled(a, "failed", charge, over)
              /\ safety' = IF over THEN open_overrun_breaker ELSE safety
    /\ live' = live \ {a}
    /\ Leaves(w)
    /\ UNCHANGED <<world, todo, sent, billed>>

(* Cancelling a call cancels its workflow; a started call stays claimed. *)
CancelExtraction(w, a) ==
    /\ worker[w].pc = "claimed"
    /\ Holds(w, a)
    /\ world.key # "unready"
    /\ call[a].status = "claimed"
    /\ world' = [world EXCEPT !.cancelled = TRUE]
    /\ IF call[a].attempt = 0
       THEN call' = Settled(a, "failed", 0, FALSE) /\ live' = live \ {a}
       ELSE UNCHANGED <<call, live>>
    /\ Leaves(w)
    /\ UNCHANGED <<safety, todo, sent, billed>>

RecoverExtraction(w, a) ==
    /\ worker[w].pc = "claimed"
    /\ Holds(w, a)
    /\ world.key # "unready"
    /\ call[a].status = "claimed"
    /\ call[a].expired
    /\ \/ /\ call[a].attempt = 0
          /\ ensure_claim_ready(0)
          /\ call[a].token < MaxLeases
          /\ NewLease(a)
          /\ Claims(w, a, call[a].token + 1)
       \/ /\ call[a].attempt = 0
          /\ ~ensure_claim_ready(0)
          /\ call' = Settled(a, "failed", 0, FALSE)
          /\ Leaves(w)
       \/ /\ call[a].attempt = 1
          /\ call' = Settled(a, "failed", Reserve, FALSE)
          /\ Leaves(w)
    /\ live' = live \ {a}
    /\ UNCHANGED <<world, safety, todo, sent, billed>>

(* A completed call whose candidate no longer proves its evidence becomes
   failed, its charge kept, when somebody replays it. *)
ReplayBindingFailure(a) ==
    /\ call[a].status = "completed"
    /\ ensure_claim_ready(0)
    /\ call' = [call EXCEPT ![a].status = "failed"]
    /\ UNCHANGED <<world, safety, live, worker, todo, sent, billed>>

-----------------------------------------------------------------------------
(* The send, and a worker that stops. *)

(* Mutant of Send: an answer without usage is asked for again, with the
   same grant. *)
SendUntilAnswered(w, c) ==
    /\ worker[w].pc = "checked"
    /\ worker[w].call = c
    /\ c \in live
    /\ sent' = [sent EXCEPT ![c] = @ + 1]
    /\ \E bill \in Usages, known \in BOOLEAN :
          /\ billed' = [billed EXCEPT ![c] = bill]
          /\ worker' = IF known
                THEN [worker EXCEPT ![w].pc = "answered", ![w].usage = bill]
                ELSE worker
    /\ UNCHANGED <<world, safety, call, live, todo>>

(* The permit is consumed in memory and the request leaves; nothing in the
   database is read again.  The permit may also be past its deadline. *)
Send(w, c) ==
    /\ worker[w].pc = "checked"
    /\ worker[w].call = c
    /\ live' = live \ {c}
    /\ \/ /\ c \in live
          /\ sent' = [sent EXCEPT ![c] = @ + 1]
          /\ \E bill \in Usages, known \in BOOLEAN :
                /\ billed' = [billed EXCEPT ![c] = bill]
                /\ worker' = [worker EXCEPT
                       ![w].pc = "answered",
                       ![w].usage = IF known THEN bill ELSE NoUsage]
       \/ /\ Becomes(w, "refused")
          /\ UNCHANGED <<sent, billed>>
    /\ UNCHANGED <<world, safety, call, todo>>

(* Every refusal a store raises ends the request without a change. *)
GiveUp(w) ==
    /\ worker[w].pc # "idle"
    /\ Leaves(w)
    /\ UNCHANGED <<world, safety, call, live, todo, sent, billed>>

Crash ==
    /\ worker' = [w \in Workers |-> Idle]
    /\ live' = {}
    /\ todo' = {}
    /\ UNCHANGED <<world, safety, call, sent, billed>>

-----------------------------------------------------------------------------
(* Settling from outside. *)

(* Mutant of AdminSettled: what the workflow no longer needs is free. *)
AdminSettledFree(c) ==
    [call EXCEPT ![c].status = "failed", ![c].token = 0]

(* A call that never started costs nothing, a started one its reserve; the
   lease is gone, so no worker can settle the call any more. *)
AdminSettled(c) ==
    [call EXCEPT ![c].status = "failed", ![c].token = 0,
                 ![c].charge = IF call[c].attempt = 1 THEN Reserve ELSE 0]

(* Mutant of RecoverExpired: only started calls are looked for. *)
RecoverStarted(c) ==
    /\ call[c].status = "claimed"
    /\ call[c].attempt = 1
    /\ call[c].expired
    /\ call' = AdminSettled(c)
    /\ UNCHANGED <<world, safety, live, worker, todo, sent, billed>>

RecoverExpired(c) ==
    /\ call[c].status = "claimed"
    /\ call[c].expired
    /\ call' = AdminSettled(c)
    /\ UNCHANGED <<world, safety, live, worker, todo, sent, billed>>

(* The service commits the cancellation first and settles the calls it then
   finds claimed one by one. *)
CancelWorkflow ==
    /\ ~world.closed
    /\ world' = [world EXCEPT !.cancelled = TRUE, !.closed = TRUE]
    /\ todo' = {c \in Calls : call[c].status = "claimed"}
    /\ UNCHANGED <<safety, call, live, worker, sent, billed>>

SettleCancelled(c) ==
    /\ c \in todo
    /\ todo' = todo \ {c}
    /\ IF call[c].status = "claimed"
       THEN call' = AdminSettled(c)
       ELSE UNCHANGED call
    /\ UNCHANGED <<world, safety, live, worker, sent, billed>>

-----------------------------------------------------------------------------
(* The world around the workflow. *)

LeaseExpires(c) ==
    /\ call[c].status = "claimed"
    /\ ~call[c].expired
    /\ call' = [call EXCEPT ![c].expired = TRUE]
    /\ UNCHANGED <<world, safety, live, worker, todo, sent, billed>>

(* Keys rotate, sources and permissions change and may change back; a
   rollout control epoch never comes back. *)
WorldChanges ==
    /\ world.changes < MaxChanges
    /\ \/ \E k \in {"current", "changed", "unready"} \ {world.key} :
              world' = [world EXCEPT !.key = k, !.changes = @ + 1]
       \/ world' = [world EXCEPT !.sources = ~@, !.changes = @ + 1]
       \/ world' = [world EXCEPT !.permitted = ~@, !.changes = @ + 1]
       \/ /\ world.rollout
          /\ world' = [world EXCEPT !.rollout = FALSE, !.changes = @ + 1]
    /\ UNCHANGED <<safety, call, live, worker, todo, sent, billed>>

Next ==
    \/ \E w \in Workers, b \in Batches :
          \/ ClaimValidation(w, b) \/ StartValidation(w, b)
          \/ CheckValidation(w, b) \/ CompleteValidation(w, b)
          \/ FailValidation(w, b) \/ CancelValidation(w, b)
    \/ \E b \in Batches : RecoverValidation(b)
    \/ \E w \in Workers, a \in Agents :
          \/ ClaimExtraction(w, a) \/ StartExtraction(w, a)
          \/ CheckExtraction(w, a) \/ CompleteExtraction(w, a)
          \/ FailExtraction(w, a) \/ CancelExtraction(w, a)
          \/ RecoverExtraction(w, a)
    \/ \E a \in Agents : ReplayBindingFailure(a)
    \/ \E w \in Workers, c \in Calls : Send(w, c)
    \/ \E w \in Workers : GiveUp(w)
    \/ Crash
    \/ \E c \in Calls : RecoverExpired(c) \/ SettleCancelled(c)
    \/ CancelWorkflow
    \/ \E c \in Calls : LeaseExpires(c)
    \/ WorldChanges

Spec == Init /\ [][Next]_vars

(* Time passes, and the recovery command is run until nothing is left, which
   a key rotation waits for. *)
FairSpec ==
    /\ Spec
    /\ \A c \in Calls : WF_vars(LeaseExpires(c)) /\ WF_vars(RecoverExpired(c))

-----------------------------------------------------------------------------
(* Properties. *)

TypeOK ==
    /\ world \in [cancelled : BOOLEAN, closed : BOOLEAN,
                  key : {"current", "changed", "unready"}, sources : BOOLEAN,
                  permitted : BOOLEAN, rollout : BOOLEAN, changes : Nat]
    /\ safety \in [Purposes -> [version : Nat, open : BOOLEAN]]
    /\ call \in [Calls -> [status : Terminal \cup {"none", "claimed"},
                           token : Nat, attempt : {0, 1}, expired : BOOLEAN,
                           charge : Nat, overrun : BOOLEAN]]
    /\ live \subseteq Calls
    /\ worker \in [Workers ->
           [pc : {"idle", "claimed", "granted", "checked", "refused",
                  "answered"},
            call : Calls \cup {NoUsage}, token : Nat,
            usage : Usages \cup {NoUsage}]]
    /\ todo \subseteq Calls
    /\ sent \in [Calls -> Nat]
    /\ billed \in [Calls -> Nat]

(* However claims, expired leases, recoveries, cancellations and crashes
   interleave, the provider receives at most one request per call, and only
   for an attempt that was committed first (max_provider_attempts = 1, the
   lease token and the grant of mark_attempt_started). *)
SingleDispatch ==
    \A c \in Calls : sent[c] <= 1 /\ (sent[c] = 1 => call[c].attempt = 1)

(* A result is kept only of a call the provider really answered, within its
   reserve, and a validation result at exactly what the provider bills. *)
CompletedIsBilled ==
    \A c \in Calls : call[c].status = "completed" =>
        /\ sent[c] = 1
        /\ call[c].charge <= Reserve
        /\ ~call[c].overrun
        /\ c \in Batches => call[c].charge = billed[c]

(* The two stores count each other's reserves and charges: the workflow
   exceeds a confirmed budget only when an answer cost more than its reserve,
   and then the breaker of that provider is open. *)
BudgetKept ==
    \/ /\ Obligations(Calls) <= TotalCeiling
       /\ Obligations(Batches) <= ValidationCeiling
    \/ \E p \in Purposes : safety[p].open

(* An answer that arrives after the workflow was cancelled, its sources or
   key changed, its lease ran out or a breaker opened is charged and thrown
   away: a call becomes completed only while all it was launched with holds
   and its lease is running (complete in both stores). *)
StaleAnswersAreDropped ==
    [][\A c \in Calls :
        (call[c].status # "completed" /\ call'[c].status = "completed") =>
            /\ ~world.cancelled /\ RuntimeMatches /\ world.sources
            /\ ~call[c].expired
            /\ SafetyMatches("validation")
            /\ c \in Batches => world.rollout /\ world.permitted]_vars

(* What validation promises of each call: see OneShotCall.  A call whose
   attempt started is settled once, for its bill or its whole reserve, also
   when recovery or a cancellation settles it while the answer is coming. *)
phase == [b \in Batches |->
    CASE call[b].status = "none" -> "absent"
      [] call[b].status = "claimed" /\ call[b].attempt = 0 -> "reserved"
      [] call[b].status = "claimed" /\ call[b].attempt = 1 -> "started"
      [] OTHER -> "settled"]

Promise == INSTANCE OneShotCall WITH
    Calls <- Batches,
    Reserve <- [b \in Batches |-> Reserve],
    phase <- phase,
    sends <- [b \in Batches |-> sent[b]],
    bill <- [b \in Batches |-> billed[b]],
    charge <- [b \in Batches |-> call[b].charge]

ValidationIsOneShot == Promise!Spec

(* A call that was claimed is settled in the end, whoever claimed it and
   wherever it crashed (recover of AutoReviewCallRecoveryService). *)
ClaimedCallsSettle ==
    \A c \in Calls :
        call[c].status = "claimed" ~> call[c].status \in Terminal

=============================================================================
