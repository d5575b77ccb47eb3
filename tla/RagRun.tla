------------------------------- MODULE RagRun -------------------------------
(***************************************************************************)
(* A RAG request and its money (agent_runtime/rag_cost_ledger.py): the     *)
(* AgentRun parent with its two cost components, the request that claims,  *)
(* sends and settles them, the provider-safety authority that is a signed  *)
(* file and a database row set at once (rag_provider_safety.py), the       *)
(* provider transport (rag_provider_transport.py), the final projection    *)
(* (rag_finalization.py) and the recoveries that close a run whose request *)
(* is gone.                                                                *)
(*                                                                         *)
(* The ledger object, its grants and its receipts live in one request and  *)
(* die with it.  Rows are locked for a whole transaction and the safety    *)
(* file for a whole transition, so each of those is one action.  A row is  *)
(* dispatched once and a run is pending once, so the fences of the code    *)
(* are equal exactly while the row is still dispatching and the run still  *)
(* pending.                                                                *)
(***************************************************************************)
EXTENDS Integers

CONSTANTS
    Runs,           \* requests
    Routes,         \* the routes a request may be admitted on
    Reserve,        \* what a component reserves
    Actual,         \* what an answer inside its budget costs
    Overrun,        \* what an answer beyond its budget costs
    MaxGeneration   \* bound: safety generations

Query == "query_embedding"
Answer == "answer_generation"
Components == {Query, Answer}

AllRoutes == {"keyword_search", "keyword_ask", "search", "ask", "shadow"}

ASSUME RagAssumption ==
    /\ Routes \subseteq AllRoutes
    /\ Reserve \in Nat \ {0}
    /\ Actual \in 1..Reserve
    /\ Overrun \in Nat
    /\ Overrun > Reserve
    /\ MaxGeneration \in Nat \ {0}

VARIABLES
    run,        \* agent_run: status, phase, route, total charged
    row,        \* agent_run_cost_component, per run and component
    request,    \* what the request's ledger object remembers
    grant,      \* the dispatch grant of a component
    binding,    \* the safety generation the grant was issued under
    heard,      \* the classified answer the transport holds
    guarded,    \* the safety side of a finalization is done
    file,       \* the signed safety sidecar
    safety,     \* the safety rows of the database
    sends,      \* requests the provider has received
    bill        \* what the provider charges for them

ledger == <<run, row>>
memory == <<request, grant, binding, heard, guarded>>
authority == <<file, safety>>
provider == <<sends, bill>>
vars == <<run, row, request, grant, binding, heard, guarded, file, safety,
          sends, bill>>

NoRow == [state |-> "not_attempted", charge |-> 0, outcome |-> "none",
          overrun |-> FALSE]
ZeroRow == [NoRow EXCEPT !.state = "terminal"]
NoRun == [status |-> "none", phase |-> "none", route |-> "none", total |-> 0]
NoRequest == [open |-> FALSE, bound |-> FALSE, pending |-> FALSE,
              receipt |-> [c \in Components |-> 0]]

Init ==
    /\ run = [r \in Runs |-> NoRun]
    /\ row = [r \in Runs |-> [c \in Components |-> NoRow]]
    /\ request = [r \in Runs |-> NoRequest]
    /\ grant = [r \in Runs |-> [c \in Components |-> "none"]]
    /\ binding = [r \in Runs |-> [c \in Components |-> 0]]
    /\ heard = [r \in Runs |-> [c \in Components |-> "none"]]
    /\ guarded = [r \in Runs |-> [c \in Components |-> FALSE]]
    /\ file = [generation |-> 1, state |-> [c \in Components |-> "ready"]]
    /\ safety = file
    /\ sends = [r \in Runs |-> [c \in Components |-> 0]]
    /\ bill = [r \in Runs |-> [c \in Components |-> 0]]

-----------------------------------------------------------------------------
(* Rows and runs. *)

Unused(route, c) ==
    IF c = Query THEN route \in {"keyword_search", "keyword_ask"}
                 ELSE route \notin {"keyword_ask", "ask"}

OnPgvector(r) == run[r].route \in {"search", "ask", "shadow"}

Attempted(w) == w.state = "dispatching" \/ w.outcome # "none"

Settled(w) == w.state \in {"terminal", "abandoned_unknown"}

Charged(rows) == rows[Query].charge + rows[Answer].charge

(* Components whose receipt this request holds. *)
Paid(r) == {c \in Components : request[r].receipt[c] # 0}

InAdmission(r) == run[r].status = "running" /\ run[r].phase = "admission"

IsPending(r) == run[r].status = "running" /\ run[r].phase = "pending"

(* The rows a terminal-zero closure leaves. *)
Zeroed(rows, C) == [c \in Components |-> IF c \in C THEN ZeroRow ELSE rows[c]]

(* _finalize_failed_run: the rows decide the total, the fence is cleared. *)
FailRun(r, rows, phase) ==
    /\ row' = [row EXCEPT ![r] = rows]
    /\ run' = [run EXCEPT ![r].status = "failed", ![r].phase = phase,
                          ![r].total = Charged(rows)]

(* A request that has answered forgets its ledger object. *)
EndRequest(r) ==
    /\ request' = [request EXCEPT ![r] = NoRequest]
    /\ grant' = [grant EXCEPT ![r] = [c \in Components |->
                    CASE grant[r][c] \in {"active", "refused"} -> "dropped"
                      [] grant[r][c] = "consumed" -> "lost"
                      [] OTHER -> grant[r][c]]]
    /\ UNCHANGED <<binding, heard, guarded>>

-----------------------------------------------------------------------------
(* The provider-safety authority. *)

(* File and rows must be the same whole set. *)
Intact == file = safety

(* _binding: the family is ready in an intact authority. *)
Ready(c) == Intact /\ file.state[c] = "ready"

(* A binding names the generation of the whole authority. *)
StillBound(c, generation) == Ready(c) /\ file.generation = generation

(* finalization_barrier: every paid component is bound as it was. *)
ReceiptsHold(r) ==
    \A c \in Paid(r) : StillBound(c, request[r].receipt[c])

(* The authority after one transition. *)
Moved(a, c, state) ==
    [generation |-> a.generation + 1, state |-> [a.state EXCEPT ![c] = state]]

(* _mutate: the file is replaced first, then the rows are committed. *)
Transition(c, state) ==
    /\ file' = Moved(file, c, state)
    /\ safety' = Moved(safety, c, state)

(* The file moved and the commit of the rows failed. *)
FileOnly(c, state) ==
    /\ file' = Moved(file, c, state)
    /\ UNCHANGED safety

(* The file could not be replaced: the rows alone take a remediation. *)
RowsOnly(c) ==
    /\ safety' = Moved(safety, c, "blocked_remediation")
    /\ UNCHANGED file

(* reviewed_reset *)
ReviewedReset(c) ==
    /\ Intact
    /\ file.state[c] # "ready"
    /\ file.generation < MaxGeneration
    /\ Transition(c, "ready")
    /\ UNCHANGED <<ledger, memory, provider>>

-----------------------------------------------------------------------------
(* Admission, the answer's budget and the claim of a component. *)

create_admission(r, route) ==
    /\ run[r].status = "none"
    /\ run' = [run EXCEPT ![r] = [status |-> "running", phase |-> "admission",
                                  route |-> route, total |-> 0]]
    /\ request' = [request EXCEPT ![r].open = TRUE]
    /\ UNCHANGED <<row, grant, binding, heard, guarded, authority, provider>>

(* On the vector route the answer follows a successful embedding. *)
EmbeddingDone(r) == OnPgvector(r) => row[r][Query].outcome = "succeeded"

bind_answer_budget(r) ==
    /\ request[r].open
    /\ ~request[r].bound
    /\ InAdmission(r)
    /\ ~Unused(run[r].route, Answer)
    /\ row[r][Answer] = NoRow
    /\ EmbeddingDone(r)
    /\ request' = [request EXCEPT ![r].bound = TRUE]
    /\ UNCHANGED <<ledger, grant, binding, heard, guarded, authority, provider>>

(* Mutant of claim_component: the parent's total is left behind. *)
ClaimWithoutTotal(r, c) ==
    /\ request[r].open
    /\ InAdmission(r)
    /\ ~Unused(run[r].route, c)
    /\ c = Answer => request[r].bound /\ EmbeddingDone(r)
    /\ row[r][c] = NoRow
    /\ Ready(c)
    /\ row' = [row EXCEPT ![r][c].state = "dispatching", ![r][c].charge = Reserve]
    /\ grant' = [grant EXCEPT ![r][c] = "active"]
    /\ binding' = [binding EXCEPT ![r][c] = file.generation]
    /\ UNCHANGED <<run, request, heard, guarded, authority, provider>>

claim_component(r, c) ==
    LET rows == [row[r] EXCEPT ![c].state = "dispatching", ![c].charge = Reserve]
    IN  /\ request[r].open
        /\ InAdmission(r)
        /\ ~Unused(run[r].route, c)
        /\ c = Answer => request[r].bound /\ EmbeddingDone(r)
        /\ row[r][c] = NoRow
        /\ Ready(c)
        /\ row' = [row EXCEPT ![r] = rows]
        /\ run' = [run EXCEPT ![r].total = Charged(rows)]
        /\ grant' = [grant EXCEPT ![r][c] = "active"]
        /\ binding' = [binding EXCEPT ![r][c] = file.generation]
        /\ UNCHANGED <<request, heard, guarded, authority, provider>>

-----------------------------------------------------------------------------
(* The transport.  The dispatch barrier is checked, the durable row is     *)
(* checked again and the grant is consumed; then the request goes out.     *)

(* Mutant of dispatch_barrier: ready is enough, whatever was bound. *)
ReadyBarrier(r, c) == Ready(c)

dispatch_barrier(r, c) == StillBound(c, binding[r][c])

consume_transport_grant(r, c) ==
    /\ request[r].open
    /\ grant[r][c] = "active"
    /\ dispatch_barrier(r, c)
    /\ InAdmission(r)
    /\ row[r][c].state = "dispatching"
    /\ grant' = [grant EXCEPT ![r][c] = "consumed"]
    /\ UNCHANGED <<ledger, request, binding, heard, guarded, authority, provider>>

(* How an answer of the provider is classified, and what it may have cost. *)
EmbeddingClasses == {"validated_success", "known_overrun", "identity_invalid",
                     "usage_invalid", "response_less_failure"}
AnswerClasses == EmbeddingClasses \cup {"structured_output_invalid"}

Costs(class) ==
    CASE class = "known_overrun" -> {Overrun}
      [] class = "response_less_failure" -> {0, Actual}
      [] OTHER -> {Actual}

(* A usage the response does not prove is charged as the reserve. *)
ChargeOf(r, c, class) ==
    IF class \in {"response_less_failure", "usage_invalid"}
    THEN Reserve ELSE bill[r][c]

Transmit(r, c) ==
    /\ request[r].open
    /\ grant[r][c] = "consumed"
    /\ sends[r][c] = 0
    /\ sends' = [sends EXCEPT ![r][c] = 1]
    /\ \E class \in (IF c = Query THEN EmbeddingClasses ELSE AnswerClasses) :
        /\ heard' = [heard EXCEPT ![r][c] = class]
        /\ \E cost \in Costs(class) : bill' = [bill EXCEPT ![r][c] = cost]
    /\ UNCHANGED <<ledger, request, grant, binding, guarded, authority>>

(* Mutant of cancel_claim_before_dispatch: a consumed grant is refunded. *)
CancelConsumedToo(r, c) ==
    /\ request[r].open
    /\ grant[r][c] \in {"active", "consumed"}
    /\ InAdmission(r)
    /\ row[r][c].state = "dispatching"
    /\ FailRun(r, Zeroed(row[r], {d \in Components : ~Settled(row[r][d])}), "final")
    /\ request' = [request EXCEPT ![r] = NoRequest]
    /\ grant' = [grant EXCEPT ![r][c] = "retired"]
    /\ UNCHANGED <<binding, heard, guarded, authority, provider>>

(* cancel_claim_before_dispatch: what was refused before the send is free. *)
cancel_claim_before_dispatch(r, c) ==
    /\ request[r].open
    /\ grant[r][c] = "active"
    /\ InAdmission(r)
    /\ row[r][c].state = "dispatching"
    /\ FailRun(r, Zeroed(row[r], {d \in Components : ~Settled(row[r][d])}), "final")
    /\ request' = [request EXCEPT ![r] = NoRequest]
    /\ grant' = [grant EXCEPT ![r][c] = "retired"]
    /\ UNCHANGED <<binding, heard, guarded, authority, provider>>

(* The evidence of an answer changed before its send. *)
defer_answer_evidence_refusal(r) ==
    /\ request[r].open
    /\ grant[r][Answer] = "active"
    /\ grant' = [grant EXCEPT ![r][Answer] = "refused"]
    /\ UNCHANGED <<ledger, request, binding, heard, guarded, authority, provider>>

-----------------------------------------------------------------------------
(* finalize_component: the safety side commits first, on a connection of   *)
(* its own; then the ledger rows are locked, checked again and settled.    *)

SafetyAction(class) ==
    CASE class = "known_overrun" -> "blocked_overrun"
      [] class \in {"identity_invalid", "usage_invalid"} -> "blocked_remediation"
      [] OTHER -> "unchanged"

(* Mutant of Finalizable: the locked row is not looked at again. *)
FinalizableUnchecked(r, c) ==
    /\ request[r].open
    /\ grant[r][c] = "consumed"
    /\ heard[r][c] # "none"

Finalizable(r, c) ==
    /\ request[r].open
    /\ grant[r][c] = "consumed"
    /\ heard[r][c] # "none"
    /\ row[r][c].state = "dispatching"

revalidate_after_response(r, c) ==
    /\ Finalizable(r, c)
    /\ SafetyAction(heard[r][c]) = "unchanged"
    /\ StillBound(c, binding[r][c])
    /\ guarded' = [guarded EXCEPT ![r][c] = TRUE]
    /\ UNCHANGED <<ledger, request, grant, binding, heard, authority, provider>>

(* A family is blocked only from ready; file and rows move together. *)
Blocking(r, c) ==
    /\ Finalizable(r, c)
    /\ ~guarded[r][c]
    /\ SafetyAction(heard[r][c]) # "unchanged"
    /\ Ready(c)
    /\ file.generation < MaxGeneration

block_family(r, c) ==
    /\ Blocking(r, c)
    /\ Transition(c, SafetyAction(heard[r][c]))
    /\ guarded' = [guarded EXCEPT ![r][c] = TRUE]
    /\ UNCHANGED <<ledger, request, grant, binding, heard, provider>>

(* Half a transition: the finalization raises and the request ends. *)
block_family_fails(r, c) ==
    /\ Blocking(r, c)
    /\ FileOnly(c, SafetyAction(heard[r][c])) \/ RowsOnly(c)
    /\ EndRequest(r)
    /\ UNCHANGED <<ledger, provider>>

(* Mutant of SettledRow: the provider's class is stored as the outcome. *)
RowOfClass(r, c) ==
    [state |-> "terminal", charge |-> ChargeOf(r, c, heard[r][c]),
     outcome |-> heard[r][c], overrun |-> heard[r][c] = "known_overrun"]

(* The settled row of a component. *)
SettledRow(r, c) ==
    [state |-> "terminal", charge |-> ChargeOf(r, c, heard[r][c]),
     outcome |-> IF heard[r][c] = "validated_success" THEN "succeeded" ELSE "failed",
     overrun |-> heard[r][c] = "known_overrun"]

finalize_success(r, c) ==
    LET idle == {d \in Components : row[r][d] = NoRow /\ Unused(run[r].route, d)}
        rows == Zeroed([row[r] EXCEPT ![c] = SettledRow(r, c)], idle)
        done == \A d \in Components : Settled(rows[d])
    IN  /\ Finalizable(r, c)
        /\ guarded[r][c]
        /\ heard[r][c] = "validated_success"
        /\ row' = [row EXCEPT ![r] = rows]
        /\ run' = [run EXCEPT ![r].total = Charged(rows),
                              ![r].phase = IF done THEN "pending" ELSE @]
        /\ request' = [request EXCEPT ![r].receipt[c] = binding[r][c],
                                      ![r].pending = done]
        /\ grant' = [grant EXCEPT ![r][c] = "retired"]
        /\ UNCHANGED <<binding, heard, guarded, authority, provider>>

finalize_failure(r, c) ==
    LET rows == Zeroed([row[r] EXCEPT ![c] = SettledRow(r, c)],
                       {d \in Components \ {c} : row[r][d] = NoRow})
    IN  /\ Finalizable(r, c)
        /\ guarded[r][c]
        /\ heard[r][c] # "validated_success"
        /\ FailRun(r, rows, "final")
        /\ request' = [request EXCEPT ![r] = NoRequest]
        /\ grant' = [grant EXCEPT ![r][c] = "retired"]
        /\ UNCHANGED <<binding, heard, guarded, authority, provider>>

-----------------------------------------------------------------------------
(* Pending projections that dispatch nothing more. *)

(* _commit_safe_pending: C is what the request leaves undispatched. *)
SafePending(r, C) ==
    LET rows == Zeroed(row[r], C)
    IN  /\ request[r].open
        /\ InAdmission(r)
        /\ row' = [row EXCEPT ![r] = rows]
        /\ run' = [run EXCEPT ![r].phase = "pending", ![r].total = Charged(rows)]
        /\ request' = [request EXCEPT ![r].pending = TRUE, ![r].bound = FALSE]
        /\ UNCHANGED <<binding, heard, guarded, authority, provider>>

commit_provider_free_pending(r) ==
    /\ \A c \in Components : row[r][c] = NoRow
    /\ SafePending(r, Components)
    /\ UNCHANGED grant

(* The embedding's cost row is the one this request was given. *)
EmbeddingPaid(r) ==
    /\ OnPgvector(r)
    /\ row[r][Query].outcome = "succeeded"
    /\ Query \in Paid(r)
    /\ ReceiptsHold(r)

commit_embedding_only_pending(r) ==
    /\ row[r][Answer] = NoRow
    /\ EmbeddingPaid(r)
    /\ SafePending(r, {Answer})
    /\ UNCHANGED grant

(* A cached answer stands for the generation whose budget was bound. *)
commit_answer_cache_pending(r) ==
    /\ request[r].bound
    /\ row[r][Answer] = NoRow
    /\ IF Query \in Paid(r)
       THEN EmbeddingPaid(r) /\ SafePending(r, {Answer})
       ELSE row[r][Query] = NoRow /\ SafePending(r, Components)
    /\ UNCHANGED grant

commit_answer_evidence_changed_pending(r) ==
    /\ grant[r][Answer] = "refused"
    /\ row[r][Answer].state = "dispatching"
    /\ IF Query \in Paid(r)
       THEN EmbeddingPaid(r) /\ SafePending(r, {Answer})
       ELSE row[r][Query] = NoRow /\ SafePending(r, Components)
    /\ grant' = [grant EXCEPT ![r][Answer] = "retired"]

-----------------------------------------------------------------------------
(* The end of a run. *)

(* Costs a product may be committed on: every row settled, each attempted  *)
(* one by a success this request holds the receipt of.                     *)
CostsComplete(r) ==
    /\ \A c \in Components : row[r][c].state = "terminal"
    /\ run[r].total = Charged(row[r])
    /\ {c \in Components : Attempted(row[r][c])} = Paid(r)
    /\ \A c \in Paid(r) : row[r][c].outcome = "succeeded"

Complete(r) ==
    /\ run' = [run EXCEPT ![r].status = "complete", ![r].phase = "final"]
    /\ request' = [request EXCEPT ![r] = NoRequest]
    /\ UNCHANGED <<row, grant, binding, heard, guarded, authority, provider>>

(* RagFinalizationService._finalize *)
finalize_product(r) ==
    /\ request[r].open
    /\ request[r].pending
    /\ IsPending(r)
    /\ run[r].route # "shadow"
    /\ ReceiptsHold(r)
    /\ CostsComplete(r)
    /\ Complete(r)

finalize_shadow_run(r) ==
    /\ request[r].open
    /\ request[r].pending
    /\ IsPending(r)
    /\ run[r].route = "shadow"
    /\ EmbeddingPaid(r)
    /\ row[r][Answer] = ZeroRow
    /\ Complete(r)

(* finalize_inter_component_failure: nothing is in flight, what was paid   *)
(* keeps its charge.                                                       *)
finalize_inter_component_failure(r) ==
    /\ request[r].open
    /\ run[r].status = "running"
    /\ \A c \in Components : grant[r][c] \notin {"active", "consumed"}
    /\ IsPending(r) => request[r].pending
    /\ Paid(r) # {} => Intact
    /\ \A c \in Components \ Paid(r) : ~Attempted(row[r][c])
    /\ FailRun(r, Zeroed(row[r], Components \ Paid(r)), "final")
    /\ request' = [request EXCEPT ![r] = NoRequest]
    /\ UNCHANGED <<grant, binding, heard, guarded, authority, provider>>

(* The request raises, or its process dies. *)
RequestDies(r) ==
    /\ request[r].open
    /\ EndRequest(r)
    /\ UNCHANGED <<ledger, authority, provider>>

-----------------------------------------------------------------------------
(* Recovery of a run by somebody else. *)

(* The rows a dead request leaves: in flight is charged, untouched free. *)
Abandoned(rows) ==
    [c \in Components |->
        CASE rows[c].state = "dispatching" ->
                [rows[c] EXCEPT !.state = "abandoned_unknown", !.outcome = "unknown"]
          [] rows[c].state = "not_attempted" -> ZeroRow
          [] OTHER -> rows[c]]

(* recover_incomplete_run on the word of an operator that the process of   *)
(* the run is dead; the code cannot check that word.                       *)
recover_attested_run(r) ==
    /\ InAdmission(r)
    /\ \/ \E c \in Components : row[r][c].state = "dispatching"
       \/ /\ \E c \in Components : Settled(row[r][c]) /\ Attempted(row[r][c])
          /\ \E c \in Components : row[r][c] = NoRow
    /\ FailRun(r, Abandoned(row[r]), "admission_only")
    /\ UNCHANGED <<memory, authority, provider>>

(* Mutant of recover_shadow_run: only a projection its request still has. *)
RecoverOwnShadowRun(r) ==
    /\ IsPending(r)
    /\ request[r].pending
    /\ run[r].route = "shadow"
    /\ Intact
    /\ FailRun(r, row[r], "final")
    /\ UNCHANGED <<memory, authority, provider>>

(* The start of a process fails every shadow projection it finds pending. *)
recover_shadow_run(r) ==
    /\ IsPending(r)
    /\ run[r].route = "shadow"
    /\ Intact
    /\ \A c \in Components : row[r][c].state = "terminal"
    /\ FailRun(r, row[r], "final")
    /\ UNCHANGED <<memory, authority, provider>>

(* RagProjectionOwnerRecoveryAuthority.recover *)
recover_dead_projection_owner(r) ==
    /\ IsPending(r)
    /\ \A c \in Components : row[r][c].state = "terminal"
    /\ \A c \in Components : Attempted(row[r][c]) => Ready(c)
    /\ FailRun(r, row[r], "final")
    /\ UNCHANGED <<memory, authority, provider>>

-----------------------------------------------------------------------------
RequestStep(r) ==
    \/ \E route \in Routes : create_admission(r, route)
    \/ bind_answer_budget(r)
    \/ defer_answer_evidence_refusal(r)
    \/ commit_provider_free_pending(r)
    \/ commit_embedding_only_pending(r)
    \/ commit_answer_cache_pending(r)
    \/ commit_answer_evidence_changed_pending(r)
    \/ finalize_product(r)
    \/ finalize_shadow_run(r)
    \/ finalize_inter_component_failure(r)
    \/ RequestDies(r)

ComponentStep(r, c) ==
    \/ claim_component(r, c)
    \/ consume_transport_grant(r, c)
    \/ Transmit(r, c)
    \/ cancel_claim_before_dispatch(r, c)
    \/ revalidate_after_response(r, c)
    \/ block_family(r, c)
    \/ block_family_fails(r, c)
    \/ finalize_success(r, c)
    \/ finalize_failure(r, c)

Recovery(r) ==
    \/ recover_attested_run(r)
    \/ recover_shadow_run(r)
    \/ recover_dead_projection_owner(r)

Next ==
    \/ \E r \in Runs : RequestStep(r) \/ Recovery(r)
    \/ \E r \in Runs, c \in Components : ComponentStep(r, c)
    \/ \E c \in Components : ReviewedReset(c)

(* Processes are started again and again; nothing else is promised. *)
Fairness == \A r \in Runs : WF_vars(recover_shadow_run(r))

Spec == Init /\ [][Next]_vars /\ Fairness

-----------------------------------------------------------------------------
(* Properties. *)

(* Every run, component, authority and counter has its shape. *)
TypeOK ==
    /\ run \in [Runs -> [status : {"none", "running", "complete", "failed"},
                         phase : {"none", "admission", "pending", "final",
                                  "admission_only"},
                         route : AllRoutes \cup {"none"},
                         total : Nat]]
    /\ row \in [Runs -> [Components ->
            [state : {"not_attempted", "dispatching", "terminal",
                      "abandoned_unknown"},
             charge : Nat,
             outcome : {"none", "succeeded", "failed", "unknown"},
             overrun : BOOLEAN]]]
    /\ request \in [Runs -> [open : BOOLEAN, bound : BOOLEAN, pending : BOOLEAN,
                             receipt : [Components -> Nat]]]
    /\ grant \in [Runs -> [Components ->
            {"none", "active", "consumed", "refused", "retired", "dropped",
             "lost"}]]
    /\ binding \in [Runs -> [Components -> Nat]]
    /\ heard \in [Runs -> [Components -> AnswerClasses \cup {"none"}]]
    /\ guarded \in [Runs -> [Components -> BOOLEAN]]
    /\ file.generation \in Nat /\ safety.generation \in Nat
    /\ sends \in [Runs -> [Components -> Nat]]
    /\ bill \in [Runs -> [Components -> Nat]]

(* The total of a run is the sum of its rows at every commit, and a run    *)
(* that delivered a product cost exactly what the provider bills for it    *)
(* (claim_component, finalize_component, _commit_safe_pending and          *)
(* _finalize_failed_run each write the total).                             *)
TotalsAreHonest ==
    \A r \in Runs :
        /\ run[r].total = Charged(row[r])
        /\ run[r].status = "complete" =>
              run[r].total = bill[r][Query] + bill[r][Answer]

(* A run that was closed, by its request or by a recovery, is never        *)
(* written again: a late answer or a late projection finds it closed.      *)
FinishedRunsStay ==
    [][\A r \in Runs : run[r].status \in {"complete", "failed"} =>
            run'[r] = run[r] /\ row'[r] = row[r]]_vars

(* No request goes out under an authority that has seen an overrun of its  *)
(* component: only a claim made after the reviewed reset may be sent       *)
(* (dispatch_barrier compares the whole binding, not just the state).      *)
NoSendAfterOverrun ==
    [][\A r \in Runs, c \in Components :
            grant[r][c] = "active" /\ grant'[r][c] = "consumed" =>
                \A s \in Runs : row[s][c].overrun => binding[s][c] < binding[r][c]]_vars

(* Where a component stands in the abstract call. *)
CallPhase(k) ==
    LET r == k[1]  c == k[2]
    IN  CASE grant[r][c] = "none" -> "absent"
          [] grant[r][c] \in {"active", "refused", "dropped"} ->
                IF Settled(row[r][c]) THEN "forfeited" ELSE "reserved"
          [] OTHER -> IF Settled(row[r][c]) THEN "settled" ELSE "started"

Calls == Runs \X Components

OneShot == INSTANCE OneShotCall WITH
    Calls <- Calls,
    Reserve <- [k \in Calls |-> Reserve],
    phase <- [k \in Calls |-> CallPhase(k)],
    sends <- [k \in Calls |-> sends[k[1]][k[2]]],
    bill <- [k \in Calls |-> bill[k[1]][k[2]]],
    charge <- [k \in Calls |-> IF Settled(row[k[1]][k[2]])
                               THEN row[k[1]][k[2]].charge ELSE 0]

(* Every paid component is a one-shot call: claimed, sent at most once and *)
(* settled once, and never for nothing when it may have been sent.         *)
ComponentsAreOneShot == OneShot!Spec

(* A shadow projection left pending is closed by the next start of a       *)
(* process, unless the safety authority itself is broken.                  *)
PendingShadowEnds ==
    \A r \in Runs :
        IsPending(r) /\ run[r].route = "shadow" ~> ~IsPending(r) \/ ~Intact
=============================================================================
