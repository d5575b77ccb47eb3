------------------------ MODULE ReviewWorkflowProofs ------------------------
(* Theorems about ReviewWorkflow, for any callers, items, versions and        *)
(* attempts.                                                                  *)
EXTENDS ReviewWorkflow, TLAPS

-----------------------------------------------------------------------------
(* Type correctness.  A draft is tried twice, and a status a caller carries    *)
(* is one the row may have: both need to know where the caller stands.        *)

Saves == [at : {"none", "partial", "paused", "broken", "ended"},
          version : 0..MaxVersion,
          verdict : Verdicts \cup {Null},
          seen : [Items -> ItemStatuses] \cup {Null}]

Calls == [op : {"none", "start", "status", "resume", "cancel"},
          pc : {"idle", "draft", "drafting", "fail", "begin", "invoke", "finish",
                "mark", "looked", "claimed", "resume", "restore", "settle", "validating"},
          tries : 0..2, row : Rows,
          probe : {"none", "paused", "ended", "unusable", "refused"},
          target : Verdicts \cup {"awaiting_human_review", Null}]

Shapes == /\ thread \in Rows
          /\ item \in [Items -> ItemStatuses]
          /\ saved \in [Attempts -> Saves]
          /\ call \in [Callers -> Calls]

LEMMA TypeIsShapes == TypeOK <=> Shapes
BY DEF TypeOK, Shapes, Saves, Calls

LEMMA TypeIsShapesNext == TypeOK' <=> Shapes'
BY DEF TypeOK, Shapes, Saves, Calls

(* What a call knows, by where it stands. *)
Sound(k) ==
    /\ k.pc = "draft" => k.tries <= 1
    /\ k.pc \in {"finish", "settle"} => k.target \in Verdicts \cup {"awaiting_human_review"}
    /\ k.pc = "looked" /\ k.probe = "ended" => k.target \in Verdicts

Typed ==
    /\ Shapes
    /\ \A a \in Attempts : saved[a].at = "ended" => saved[a].verdict \in Verdicts
    /\ \A c \in Callers : Sound(call[c])

LEMMA RowAfter ==
    ASSUME NEW row \in Rows, thread \in Rows, NEW status \in Statuses, Bump(row, status)
    PROVE  /\ thread' \in Rows
           /\ thread'.status = status /\ thread'.version = thread.version + 1
           /\ thread'.graph = row.graph /\ thread'.attempt = row.attempt
           /\ thread'.cancelled = row.cancelled /\ thread'.lease = row.lease
<1> DEFINE v == thread.version + 1
<1>1. v \in 0..MaxVersion
  BY WorkflowAssumption DEF Bump, Rows
<1>2. thread' = [row EXCEPT !.status = status, !.version = v]
  BY DEF Bump
<1> HIDE DEF v
<1>3. /\ thread' \in Rows /\ thread'.status = status /\ thread'.version = v
      /\ thread'.graph = row.graph /\ thread'.attempt = row.attempt
      /\ thread'.cancelled = row.cancelled /\ thread'.lease = row.lease
  BY <1>1, <1>2 DEF Rows
<1> QED BY <1>3 DEF v

LEMMA RowSet ==
    ASSUME thread \in Rows, NEW status \in Statuses, NEW bumps \in BOOLEAN, Set(status, bumps)
    PROVE  /\ thread' \in Rows
           /\ thread'.status = status
           /\ thread'.graph = thread.graph /\ thread'.attempt = thread.attempt
           /\ thread'.cancelled = thread.cancelled /\ thread'.lease = thread.lease
<1>1. (IF bumps THEN thread.version + 1 ELSE thread.version) \in 0..MaxVersion
  BY WorkflowAssumption DEF Set, Rows
<1>2. (thread.confirmed \/ status \in Verdicts \cup {"awaiting_human_review"}) \in BOOLEAN
  OBVIOUS
<1> DEFINE v == IF bumps THEN thread.version + 1 ELSE thread.version
           k == thread.confirmed \/ status \in Verdicts \cup {"awaiting_human_review"}
<1>3. thread' = [thread EXCEPT !.status = status, !.version = v, !.confirmed = k]
  BY DEF Set
<1>4. v \in 0..MaxVersion /\ k \in BOOLEAN
  BY <1>1, <1>2
<1> HIDE DEF v, k
<1> QED BY <1>3, <1>4 DEF Rows

LEMMA RowChanges ==
    ASSUME thread \in Rows
    PROVE  /\ \A c \in Callers \cup {Null} : [thread EXCEPT !.lease = c] \in Rows
           /\ [thread EXCEPT !.confirmed = TRUE] \in Rows
           /\ [thread EXCEPT !.cancelled = TRUE] \in Rows
           /\ \A a \in Attempts : [thread EXCEPT !.attempt = a, !.confirmed = FALSE] \in Rows
BY DEF Rows

LEMMA NothingTyped ==
    /\ NoThread \in Rows
    /\ NoCheckpoint \in Saves
    /\ NoCall \in Calls /\ Sound(NoCall)
<1>1. NoThread \in Rows
  BY WorkflowAssumption DEF NoThread, Rows, Graphs, Statuses, Attempts
<1>2. NoCheckpoint \in Saves
  BY WorkflowAssumption DEF NoCheckpoint, Saves
<1>3. NoCall \in Calls /\ Sound(NoCall)
  BY <1>1 DEF NoCall, Calls, Sound
<1> QED BY <1>1, <1>2, <1>3

(* One caller takes a step; the others stand where they stood. *)
CallOK(c) ==
    /\ call' \in [Callers -> Calls]
    /\ \A d \in Callers : Sound(call'[d])
    /\ \A d \in Callers \ {c} : call'[d] = call[d]

(* A caller that goes on with another call. *)
LEMMA CallBecomes ==
    ASSUME call \in [Callers -> Calls], \A d \in Callers : Sound(call[d]),
           NEW c \in Callers, NEW k \in Calls, Sound(k),
           call' = [call EXCEPT ![c] = k]
    PROVE  CallOK(c) /\ call'[c] = k
<1>1. call' \in [Callers -> Calls] /\ call'[c] = k
      /\ \A d \in Callers \ {c} : call'[d] = call[d]
  OBVIOUS
<1>2. \A d \in Callers : Sound(call'[d])
  BY <1>1
<1> QED BY <1>1, <1>2 DEF CallOK

LEMMA InitTyped == Init => Typed
<1> SUFFICES ASSUME Init PROVE Typed
  OBVIOUS
<1>1. Shapes
  BY NothingTyped DEF Init, Shapes, ItemStatuses
<1>2. \A a \in Attempts : saved[a].at # "ended"
  BY DEF Init, NoCheckpoint
<1>3. \A c \in Callers : Sound(call[c])
  BY NothingTyped DEF Init
<1> QED BY <1>1, <1>2, <1>3 DEF Typed

(* A caller that takes its next step in the same call. *)
LEMMA GoesOn ==
    ASSUME Typed, NEW c \in Callers,
           NEW pc \in {"idle", "drafting", "fail", "begin", "invoke", "mark", "claimed",
                       "resume", "restore", "validating"},
           At(c, pc)
    PROVE  /\ CallOK(c)
           /\ call'[c].pc = pc /\ call'[c].row = call[c].row
<1> DEFINE k == [call[c] EXCEPT !.pc = pc]
<1>1. k \in Calls /\ Sound(k) /\ k.pc = pc /\ k.row = call[c].row
  BY DEF Typed, Shapes, Calls, Sound
<1>2. call' = [call EXCEPT ![c] = k]
  BY DEF At
<1> HIDE DEF k
<1> QED BY <1>1, <1>2, CallBecomes DEF Typed, Shapes

LEMMA Ends ==
    ASSUME Typed, NEW c \in Callers, Done(c)
    PROVE  /\ CallOK(c)
           /\ call'[c] = NoCall
BY NothingTyped, CallBecomes DEF Typed, Shapes, Done

(* A caller that goes on with what it has read of the row. *)
LEMMA GoesOnWith ==
    ASSUME Typed, NEW c \in Callers, NEW row \in Rows,
           NEW pc \in {"invoke", "resume"},
           call' = [call EXCEPT ![c].pc = pc, ![c].row = row]
    PROVE  /\ CallOK(c)
           /\ call'[c].pc = pc /\ call'[c].row = row /\ call'[c].op = call[c].op
           /\ call'[c].probe = call[c].probe
<1> DEFINE k == [call[c] EXCEPT !.pc = pc, !.row = row]
<1>0. call[c] \in Calls
  BY DEF Typed, Shapes
<1>1. k \in Calls /\ k.pc = pc /\ k.row = row /\ k.op = call[c].op
      /\ k.probe = call[c].probe
  BY <1>0 DEF Calls
<1>2. Sound(k)
  BY <1>1 DEF Sound
<1>3. call' = [call EXCEPT ![c] = k]
  BY DEF Typed, Shapes
<1> HIDE DEF k
<1> QED BY <1>1, <1>2, <1>3, CallBecomes DEF Typed, Shapes

(* A caller that knows where the row goes next. *)
LEMMA GoesOnTo ==
    ASSUME Typed, NEW c \in Callers, NEW pc \in {"finish", "settle"},
           NEW target \in Verdicts \cup {"awaiting_human_review"},
           call' = [call EXCEPT ![c].pc = pc, ![c].target = target]
    PROVE  /\ CallOK(c)
           /\ call'[c].pc = pc /\ call'[c].target = target /\ call'[c].row = call[c].row
<1> DEFINE k == [call[c] EXCEPT !.pc = pc, !.target = target]
<1>0. call[c] \in Calls
  BY DEF Typed, Shapes
<1>1. k \in Calls /\ k.pc = pc /\ k.target = target /\ k.row = call[c].row
  BY <1>0 DEF Calls
<1>2. Sound(k)
  BY <1>1 DEF Sound
<1>3. call' = [call EXCEPT ![c] = k]
  BY DEF Typed, Shapes
<1> HIDE DEF k
<1> QED BY <1>1, <1>2, <1>3, CallBecomes DEF Typed, Shapes

LEMMA BoundaryRange ==
    ASSUME NEW graph, NEW items
    PROVE  Boundary(graph, items) \in Verdicts \cup {"pause"}
BY DEF Boundary, Verdicts

LEMMA PausedTyped ==
    ASSUME Typed PROVE Paused(thread.version) \in Saves /\ Paused(thread.version).at = "paused"
BY DEF Typed, Shapes, Paused, Saves, Rows

LEMMA EndedTyped ==
    ASSUME Typed, NEW v \in Verdicts
    PROVE  Ended(v) \in Saves /\ Ended(v).at = "ended" /\ Ended(v).verdict = v
BY WorkflowAssumption DEF Typed, Shapes, Ended, Saves

(* The checkpoint of one attempt is replaced. *)
LEMMA SaveBecomes ==
    ASSUME Typed, NEW a \in Attempts, NEW k \in Saves, k.at = "ended" => k.verdict \in Verdicts,
           saved' = [saved EXCEPT ![a] = k]
    PROVE  /\ saved' \in [Attempts -> Saves]
           /\ \A b \in Attempts : saved'[b].at = "ended" => saved'[b].verdict \in Verdicts
           /\ saved'[a] = k
           /\ \A b \in Attempts \ {a} : saved'[b] = saved[b]
BY DEF Typed, Shapes

LEMMA SaveMarked ==
    ASSUME Typed, NEW a \in Attempts, NEW at \in {"partial", "broken"},
           saved' = [saved EXCEPT ![a].at = at]
    PROVE  /\ saved' \in [Attempts -> Saves]
           /\ \A b \in Attempts : saved'[b].at = "ended" => saved'[b].verdict \in Verdicts
           /\ saved'[a].at = at
           /\ \A b \in Attempts \ {a} : saved'[b] = saved[b]
<1> DEFINE k == [saved[a] EXCEPT !.at = at]
<1>1. k \in Saves /\ k.at = at
  BY DEF Typed, Shapes, Saves
<1>2. saved' = [saved EXCEPT ![a] = k]
  BY DEF Typed, Shapes
<1> HIDE DEF k
<1> QED BY <1>1, <1>2, SaveBecomes

(* What a probe finds is what the checkpoint holds. *)
LEMMA ProbeFinds ==
    ASSUME NEW row
    PROVE  /\ Probe(row) \in {"paused", "ended", "unusable", "refused"}
           /\ Probe(row) = "ended" => saved[row.attempt].at = "ended"
           /\ saved[row.attempt].at = "none" => Probe(row) = "unusable"
<1>1. /\ Probe20(row) \in {"paused", "ended", "unusable"}
      /\ Probe20(row) = "ended" => saved[row.attempt].at = "ended"
      /\ saved[row.attempt].at = "none" => Probe20(row) = "unusable"
  BY DEF Probe20
<1>2. /\ Probe21(row) \in {"paused", "ended", "unusable", "refused"}
      /\ Probe21(row) = "ended" => saved[row.attempt].at = "ended"
      /\ saved[row.attempt].at = "none" => Probe21(row) = "unusable"
  BY DEF Probe21
<1> QED BY <1>1, <1>2 DEF Probe

-----------------------------------------------------------------------------
(* The strengthening.  A verdict is decided over the items and written later, *)
(* so it must stay supported: no candidate appears once a graph has run.  While *)
(* a caller can still draft there is no checkpoint, and every other caller is *)
(* quiet: it has seen no checkpoint and resumes nothing.                      *)

Drafter(c) ==
    \/ call[c].pc \in {"draft", "drafting"}
    \/ thread.graph = "v21" /\ call[c].pc \in {"begin", "invoke", "validating"}

Quiet(c) ==
    \/ call[c].pc = "idle"
    \/ call[c].pc = "looked" /\ call[c].op # "resume" /\ call[c].probe = "unusable"

NoneSaved == \A a \in Attempts : saved[a].at = "none"

Early == {"created", "drafting", "checkpoint_pending", "cancelled"}

Phase ==
    /\ thread.status = "absent" => NoneSaved /\ \A c \in Callers : call[c].pc = "idle"
    /\ \A c \in Callers : Drafter(c) =>
          thread.status \in Early /\ NoneSaved /\ \A d \in Callers \ {c} : Quiet(d)
    /\ thread.status = "drafting" => ~thread.cancelled

Supports(v) ==
    /\ v = "completed" => \A i \in Items : item[i] \notin {"pending_review", "needs_more_evidence"}
    /\ v = "needs_more_evidence" => \E i \in Items : item[i] = "needs_more_evidence"

Decides(k) ==
    \/ k.pc \in {"finish", "settle"}
    \/ k.pc = "looked" /\ k.probe = "ended"

Decided ==
    /\ \A a \in Attempts : saved[a].at = "ended" => Supports(saved[a].verdict)
    /\ \A c \in Callers : Decides(call[c]) => Supports(call[c].target)
    /\ Supports(thread.status)

IInv == Typed /\ Phase /\ Decided

LEMMA InitInv == Init => IInv
<1> SUFFICES ASSUME Init PROVE IInv
  OBVIOUS
<1>1. Phase
  BY DEF Init, Phase, NoneSaved, NoThread, NoCheckpoint, NoCall, Drafter
<1>2. Decided
  BY DEF Init, Decided, Supports, Decides, NoThread, NoCheckpoint, NoCall
<1> QED BY <1>1, <1>2, InitTyped DEF IInv

(* A caller past its draft: nobody is drafting, and nobody starts to. *)
LEMMA BusyPhase ==
    ASSUME IInv, NEW c \in Callers, ~Quiet(c), ~Drafter(c), ~Drafter(c)', CallOK(c),
           thread'.graph = thread.graph,
           thread' = thread \/ thread'.status \notin {"absent", "drafting"}
    PROVE  Phase'
<1>1. \A d \in Callers : ~Drafter(d)
  BY DEF IInv, Phase
<1>2. \A d \in Callers : ~Drafter(d)'
  BY <1>1 DEF Drafter, CallOK
<1>3. thread.status # "absent"
  BY DEF IInv, Phase, Quiet
<1> QED BY <1>2, <1>3 DEF IInv, Phase

(* A caller that drafts goes on drafting, over no checkpoint, or stops. *)
LEMMA DrafterPhase ==
    ASSUME IInv, NEW c \in Callers, Drafter(c), CallOK(c),
           thread'.graph = thread.graph, thread'.status # "absent",
           thread'.status = "drafting" => ~thread'.cancelled,
           Drafter(c)' => thread'.status \in Early /\ UNCHANGED saved
    PROVE  Phase'
<1>1. \A d \in Callers \ {c} : Quiet(d) /\ Quiet(d)' /\ ~Drafter(d)'
  BY DEF IInv, Phase, Quiet, Drafter, CallOK
<1>2. NoneSaved /\ (UNCHANGED saved => NoneSaved')
  BY DEF IInv, Phase, NoneSaved
<1> QED BY <1>1, <1>2 DEF Phase

(* A caller that leaves, whatever it was doing. *)
LEMMA LeavingPhase ==
    ASSUME IInv, NEW c \in Callers, call'[c].pc = "idle", CallOK(c),
           thread'.graph = thread.graph, UNCHANGED saved,
           thread' = thread \/ thread'.status = "cancelled", thread.status # "absent"
    PROVE  Phase'
<1>1. \A d \in Callers : Drafter(d)' => Drafter(d) /\ d # c
  BY DEF Drafter, CallOK
<1>2. \A d \in Callers : Quiet(d) => Quiet(d)'
  BY DEF Quiet, CallOK
<1>3. NoneSaved => NoneSaved'
  BY DEF NoneSaved
<1>4. thread'.status # "absent" /\ (thread'.status = "drafting" => ~thread'.cancelled)
  BY DEF IInv, Phase
<1>5. thread.status \in Early => thread'.status \in Early
  BY DEF Early
<1> QED BY <1>1, <1>2, <1>3, <1>4, <1>5 DEF IInv, Phase

(* What was decided stays decided while no item changes. *)
LEMMA DecidedStays ==
    ASSUME IInv, NEW c \in Callers, CallOK(c), UNCHANGED item,
           \A a \in Attempts : saved'[a].at = "ended" =>
              saved'[a] = saved[a] \/ Supports(saved'[a].verdict),
           Decides(call'[c]) => Supports(call'[c].target),
           Supports(thread'.status)
    PROVE  Decided'
BY DEF IInv, Decided, Supports, Decides, CallOK

-----------------------------------------------------------------------------
(* Every action keeps the strengthening: one lemma per action or two. *)

(* Past its draft a caller may write any status the items support. *)
LEMMA BusyKeeps ==
    ASSUME IInv, NEW c \in Callers, ~Quiet(c), ~Drafter(c), ~Drafter(c)', CallOK(c),
           thread' \in Rows, thread'.graph = thread.graph,
           thread' = thread \/ (thread'.status \notin {"absent", "drafting"} /\ Supports(thread'.status)),
           Decides(call'[c]) => Supports(call'[c].target),
           UNCHANGED <<item, saved>>
    PROVE  IInv'
<1>1. Typed'
  BY DEF IInv, Typed, Shapes, CallOK
<1>2. Phase'
  BY BusyPhase
<1>3. Supports(thread'.status)
  BY DEF IInv, Decided
<1>4. Decided'
  BY <1>3, DecidedStays
<1> QED BY <1>1, <1>2, <1>4 DEF IInv

(* The same, for a caller that is done with it. *)
LEMMA BusyBumpKeeps ==
    ASSUME IInv, NEW c \in Callers, ~Quiet(c), ~Drafter(c), Done(c),
           NEW row \in Rows, row.graph = thread.graph,
           NEW status \in Statuses \ {"absent", "drafting"}, Bump(row, status), Supports(status),
           UNCHANGED <<item, saved>>
    PROVE  IInv'
<1>1. thread' \in Rows /\ thread'.status = status /\ thread'.graph = thread.graph
  BY RowAfter DEF IInv, Typed, Shapes
<1>2. CallOK(c) /\ call'[c] = NoCall
  BY Ends DEF IInv
<1>3. ~Drafter(c)' /\ ~Decides(call'[c])
  BY <1>2 DEF Drafter, Decides, NoCall
<1> QED BY <1>1, <1>2, <1>3, BusyKeeps

LEMMA CreateThreadKeeps ==
    ASSUME IInv, NEW c \in Callers, NEW graph \in Graphs, CreateThread(c, graph)
    PROVE  IInv'
<1> DEFINE pc == IF graph = "v20" THEN "draft" ELSE "begin"
           k == [NoCall EXCEPT !.op = "start", !.pc = pc]
<1>0. pc \in {"draft", "begin"}
  OBVIOUS
<1>2. call' = [call EXCEPT ![c] = k]
  BY DEF CreateThread
<1> HIDE DEF pc
<1>9. NoCall.tries = 0 /\ NoCall \in Calls
  BY NothingTyped DEF NoCall
<1>10. k \in Calls /\ k.pc = pc /\ k.tries = 0
  BY <1>0, <1>9 DEF Calls
<1>1. k \in Calls /\ Sound(k) /\ k.pc \in {"draft", "begin"}
  BY <1>0, <1>10 DEF Sound
<1> HIDE DEF k
<1>3. CallOK(c) /\ call'[c] = k
  BY <1>1, <1>2, CallBecomes DEF IInv, Typed, Shapes
<1>4. thread' \in Rows /\ thread'.status = "created" /\ ~thread'.cancelled
  BY NothingTyped DEF CreateThread, NoThread, Rows, Statuses, Draftable
<1>5. Typed'
  BY <1>3, <1>4 DEF IInv, Typed, Shapes, CreateThread, CallOK
<1>6. NoneSaved' /\ \A d \in Callers \ {c} : call'[d].pc = "idle"
  BY <1>3 DEF IInv, Phase, NoneSaved, CreateThread, CallOK
<1>7. Phase'
  BY <1>4, <1>6 DEF Phase, Early, Drafter, Quiet
<1>8. Decided'
  BY <1>1, <1>3, <1>4, <1>6 DEF IInv, Decided, Supports, Decides, NoneSaved, CreateThread
<1> QED BY <1>5, <1>7, <1>8 DEF IInv

LEMMA ClaimLeaseDoes ==
    ASSUME Typed, NEW c \in Callers, ClaimLease(c)
    PROVE  /\ CallOK(c) /\ call'[c].pc = "drafting" /\ call'[c].row = call[c].row
           /\ thread' \in Rows /\ thread'.status = "drafting" /\ ~thread'.cancelled
           /\ thread'.graph = thread.graph /\ thread'.attempt = thread.attempt
<1> DEFINE k == [call[c] EXCEPT !.pc = "drafting", !.tries = @ + 1]
<1>1. k \in Calls /\ Sound(k) /\ k.pc = "drafting" /\ k.row = call[c].row
  BY DEF ClaimLease, Running, Typed, Shapes, Calls, Sound
<1>2. call' = [call EXCEPT ![c] = k]
  BY DEF ClaimLease, Typed, Shapes
<1> HIDE DEF k
<1>3. CallOK(c) /\ call'[c] = k
  BY <1>1, <1>2, CallBecomes DEF Typed, Shapes
<1> DEFINE row == [thread EXCEPT !.lease = c]
<1>4. row \in Rows /\ row.graph = thread.graph /\ row.attempt = thread.attempt
      /\ row.cancelled = thread.cancelled
  BY RowChanges DEF Typed, Shapes, Rows
<1>5. Bump(row, "drafting") /\ "drafting" \in Statuses /\ ~thread.cancelled
  BY DEF ClaimLease, Statuses, Draftable
<1> HIDE DEF row
<1>6. /\ thread' \in Rows /\ thread'.status = "drafting" /\ ~thread'.cancelled
      /\ thread'.graph = thread.graph /\ thread'.attempt = thread.attempt
  BY <1>4, <1>5, RowAfter DEF Typed, Shapes
<1> QED BY <1>1, <1>3, <1>6

LEMMA PersistDraftDoes ==
    ASSUME Typed, NEW c \in Callers, NEW D \in SUBSET Items, PersistDraft(c, D)
    PROVE  /\ CallOK(c) /\ call'[c].pc = "begin" /\ call'[c].row = call[c].row
           /\ thread' \in Rows /\ thread'.status = "checkpoint_pending"
           /\ thread'.graph = thread.graph /\ thread'.attempt = thread.attempt
<1>1. CallOK(c) /\ call'[c].pc = "begin" /\ call'[c].row = call[c].row
  BY GoesOn DEF PersistDraft
<1> DEFINE row == [thread EXCEPT !.lease = Null]
<1>2. row \in Rows /\ row.graph = thread.graph /\ row.attempt = thread.attempt
  BY RowChanges DEF Typed, Shapes, Rows
<1>3. Bump(row, "checkpoint_pending") /\ "checkpoint_pending" \in Statuses
  BY DEF PersistDraft, Statuses, Draftable
<1> HIDE DEF row
<1>4. /\ thread' \in Rows /\ thread'.status = "checkpoint_pending"
      /\ thread'.graph = thread.graph /\ thread'.attempt = thread.attempt
  BY <1>2, <1>3, RowAfter DEF Typed, Shapes
<1> QED BY <1>1, <1>4

LEMMA PersistPartDoes ==
    ASSUME Typed, NEW c \in Callers, NEW D \in SUBSET Items, PersistPart(c, D)
    PROVE  /\ CallOK(c) /\ call'[c].pc = "idle"
           /\ thread' \in Rows /\ thread'.status = "created"
           /\ thread'.graph = thread.graph /\ thread'.attempt = thread.attempt
<1>1. CallOK(c) /\ call'[c].pc = "idle"
  BY Ends DEF PersistPart, NoCall
<1> DEFINE row == [thread EXCEPT !.lease = Null]
<1>2. row \in Rows /\ row.graph = thread.graph /\ row.attempt = thread.attempt
  BY RowChanges DEF Typed, Shapes, Rows
<1>3. Bump(row, "created") /\ "created" \in Statuses
  BY DEF PersistPart, Statuses, Draftable
<1> HIDE DEF row
<1>4. /\ thread' \in Rows /\ thread'.status = "created"
      /\ thread'.graph = thread.graph /\ thread'.attempt = thread.attempt
  BY <1>2, <1>3, RowAfter DEF Typed, Shapes
<1> QED BY <1>1, <1>4

LEMMA DraftFailsDoes ==
    ASSUME Typed, NEW c \in Callers, NEW next \in {"draft", "fail", "idle"}, DraftFails(c, next)
    PROVE  /\ CallOK(c) /\ call'[c].pc = next
           /\ next # "idle" => call'[c].row = call[c].row
           /\ thread' \in Rows
           /\ thread'.graph = thread.graph /\ thread'.attempt = thread.attempt
           /\ thread' = thread \/ thread'.status = "created"
<1>1. call[c] \in Calls
  BY DEF Typed, Shapes
<1>2. CallOK(c) /\ call'[c].pc = next /\ (next # "idle" => call'[c].row = call[c].row)
  <2>1. CASE next = "idle"
    <3>1. Done(c)
      BY <2>1 DEF DraftFails
    <3> QED BY <2>1, <3>1, Ends DEF NoCall
  <2>2. CASE next = "fail"
    BY <2>2, GoesOn DEF DraftFails
  <2>3. CASE next = "draft"
    <3>1. call[c].tries = 1
      BY <2>3 DEF DraftFails, AfterFailure
    <3> DEFINE k == [call[c] EXCEPT !.pc = "draft"]
    <3>2. k \in Calls /\ k.pc = "draft" /\ k.tries = 1 /\ k.row = call[c].row
      BY <1>1, <3>1 DEF Calls
    <3>3. call' = [call EXCEPT ![c] = k]
      BY <2>3 DEF DraftFails, At
    <3> HIDE DEF k
    <3>4. Sound(k)
      BY <3>2 DEF Sound
    <3> QED BY <2>3, <3>2, <3>3, <3>4, CallBecomes DEF Typed, Shapes
  <2> QED BY <2>1, <2>2, <2>3
<1>3. /\ thread' \in Rows
      /\ thread'.graph = thread.graph /\ thread'.attempt = thread.attempt
      /\ thread' = thread \/ thread'.status = "created"
  <2>1. CASE HoldsLease(c)
    <3> DEFINE row == [thread EXCEPT !.lease = Null]
    <3>1. row \in Rows /\ row.graph = thread.graph /\ row.attempt = thread.attempt
      BY RowChanges DEF Typed, Shapes, Rows
    <3>2. Bump(row, "created") /\ "created" \in Statuses
      BY <2>1 DEF DraftFails, Statuses, Draftable
    <3> HIDE DEF row
    <3> QED BY <3>1, <3>2, RowAfter DEF Typed, Shapes
  <2>2. CASE ~HoldsLease(c)
    BY <2>2 DEF DraftFails, Typed, Shapes
  <2> QED BY <2>1, <2>2
<1> QED BY <1>2, <1>3

LEMMA EnsureCheckpointPendingDoes ==
    ASSUME Typed, NEW c \in Callers, EnsureCheckpointPending(c)
    PROVE  /\ CallOK(c) /\ call'[c].pc = "invoke" /\ call'[c].row = thread'
           /\ thread' \in Rows /\ thread'.status = "checkpoint_pending"
           /\ thread'.graph = thread.graph /\ thread'.attempt = thread.attempt
<1>1. /\ thread' \in Rows /\ thread'.graph = thread.graph /\ thread'.attempt = thread.attempt
      /\ thread'.status = "checkpoint_pending"
  <2>1. CASE UNCHANGED thread /\ thread.status = "checkpoint_pending"
    BY <2>1 DEF Typed, Shapes
  <2>2. CASE Bump(thread, "checkpoint_pending")
    BY <2>2, RowAfter DEF Typed, Shapes, Statuses, Draftable
  <2> QED BY <2>1, <2>2 DEF EnsureCheckpointPending
<1> QED BY <1>1, GoesOnWith DEF EnsureCheckpointPending

LEMMA ClaimLeaseKeeps ==
    ASSUME IInv, NEW c \in Callers, ClaimLease(c)
    PROVE  IInv'
<1>1. /\ CallOK(c) /\ call'[c].pc = "drafting"
      /\ thread' \in Rows /\ thread'.status = "drafting" /\ thread'.graph = thread.graph
      /\ ~thread'.cancelled
  BY ClaimLeaseDoes DEF IInv
<1>2. Typed'
  BY <1>1 DEF IInv, Typed, Shapes, ClaimLease, CallOK
<1>3. Phase'
  BY <1>1, DrafterPhase DEF ClaimLease, Running, Drafter, Early
<1>4. Decided'
  BY <1>1, DecidedStays DEF ClaimLease, Supports, Decides
<1> QED BY <1>2, <1>3, <1>4 DEF IInv

LEMMA NothingToDraftKeeps ==
    ASSUME IInv, NEW c \in Callers, NothingToDraft(c)
    PROVE  IInv'
<1>1. CallOK(c) /\ call'[c].pc = "begin"
  BY GoesOn DEF NothingToDraft, IInv
<1>2. Drafter(c) /\ ~Drafter(c)' /\ UNCHANGED <<thread, item, saved>>
  BY <1>1 DEF NothingToDraft, Running, Drafter
<1>3. thread.status # "absent" /\ Supports(thread.status)
  BY <1>2 DEF IInv, Phase, Decided, Early
<1>4. Typed'
  BY <1>1, <1>2 DEF IInv, Typed, Shapes, CallOK
<1>5. Phase'
  BY <1>1, <1>2, <1>3, DrafterPhase DEF IInv, Phase
<1>6. Decided'
  BY <1>1, <1>2, <1>3, DecidedStays DEF Decides
<1> QED BY <1>4, <1>5, <1>6 DEF IInv

(* Candidates of a first draft appear over no checkpoint, so no verdict there is
   can lose its support. *)
LEMMA PersistKeeps ==
    ASSUME IInv, NEW c \in Callers, NEW D \in SUBSET Items, PersistDraft(c, D) \/ PersistPart(c, D)
    PROVE  IInv'
<1>1. CallOK(c) /\ call'[c].pc \in {"begin", "idle"} /\ thread' \in Rows
      /\ thread'.status \in {"checkpoint_pending", "created"} /\ thread'.graph = thread.graph
  BY PersistDraftDoes, PersistPartDoes DEF IInv
<1>2. item' \in [Items -> ItemStatuses]
  BY DEF PersistDraft, PersistPart, Drafts, IInv, Typed, Shapes, ItemStatuses
<1>3. Drafter(c) /\ UNCHANGED saved
  BY DEF PersistDraft, PersistPart, Running, Drafter
<1>4. Typed'
  BY <1>1, <1>2, <1>3 DEF IInv, Typed, Shapes, CallOK
<1>5. Phase'
  BY <1>1, <1>3, DrafterPhase DEF Early
<1>6. NoneSaved' /\ \A d \in Callers \ {c} : Quiet(d)
  BY <1>3 DEF IInv, Phase, NoneSaved
<1>7. \A d \in Callers : ~Decides(call'[d])
  BY <1>1, <1>6 DEF Quiet, Decides, CallOK
<1>8. Decided'
  BY <1>1, <1>6, <1>7 DEF Decided, NoneSaved, Supports, Decides
<1> QED BY <1>4, <1>5, <1>8 DEF IInv

LEMMA DraftFailsKeeps ==
    ASSUME IInv, NEW c \in Callers, NEW next \in {"draft", "fail", "idle"}, DraftFails(c, next)
    PROVE  IInv'
<1>1. Drafter(c) /\ thread.status \in Early /\ UNCHANGED <<item, saved>>
  BY DEF DraftFails, Running, Drafter, IInv, Phase
<1>2. /\ CallOK(c) /\ call'[c].pc = next
      /\ thread' \in Rows /\ thread'.graph = thread.graph /\ thread'.status \in Early
      /\ thread' = thread \/ thread'.status = "created"
  BY <1>1, DraftFailsDoes DEF IInv, Early
<1>3. Typed'
  BY <1>1, <1>2 DEF IInv, Typed, Shapes, CallOK
<1>4. Phase'
  <2>1. thread'.status # "absent" /\ (thread'.status = "drafting" => ~thread'.cancelled)
    BY <1>2 DEF Early, IInv, Phase
  <2> QED BY <1>1, <1>2, <2>1, DrafterPhase
<1>5. Decided'
  <2>1. ~Decides(call'[c]) /\ Supports(thread'.status)
    BY <1>2 DEF Decides, Supports, Early
  <2> QED BY <1>1, <1>2, <2>1, DecidedStays
<1> QED BY <1>3, <1>4, <1>5 DEF IInv

LEMMA MarkFailedKeeps ==
    ASSUME IInv, NEW c \in Callers, MarkFailed(c)
    PROVE  IInv'
<1>1. ~Quiet(c) /\ ~Drafter(c) /\ Done(c) /\ UNCHANGED <<item, saved>>
  BY DEF MarkFailed, Running, Quiet, Drafter
<1>2. Bump(thread, "failed") /\ "failed" \in Statuses \ {"absent", "drafting"} /\ Supports("failed")
  BY DEF MarkFailed, Statuses, Terminal, Supports
<1> QED BY <1>1, <1>2, BusyBumpKeeps DEF IInv, Typed, Shapes

LEMMA EnsureCheckpointPendingKeeps ==
    ASSUME IInv, NEW c \in Callers, EnsureCheckpointPending(c)
    PROVE  IInv'
<1>1. CallOK(c) /\ call'[c].pc = "invoke"
      /\ thread' \in Rows /\ thread'.graph = thread.graph /\ thread'.status = "checkpoint_pending"
  BY EnsureCheckpointPendingDoes DEF IInv
<1>2. ~Quiet(c) /\ ~Drafter(c) /\ ~Drafter(c)' /\ ~Decides(call'[c])
      /\ UNCHANGED <<item, saved>>
  BY <1>1 DEF EnsureCheckpointPending, Running, Quiet, Drafter, Decides
<1> QED BY <1>1, <1>2, BusyKeeps DEF Supports

(* A graph that reached its boundary: it waits, or its verdict is supported. *)
LEMMA GraphMovesKeeps ==
    ASSUME IInv, NEW c \in Callers, ~Quiet(c), CallOK(c),
           ~Drafter(c)',
           NEW a \in Attempts, NEW k \in Saves,
           k.at = "ended" => k.verdict \in Verdicts /\ Supports(k.verdict),
           saved' = [saved EXCEPT ![a] = k],
           Decides(call'[c]) => Supports(call'[c].target),
           UNCHANGED <<thread, item>>
    PROVE  IInv'
<1>1. /\ saved' \in [Attempts -> Saves]
      /\ \A b \in Attempts : saved'[b].at = "ended" => saved'[b].verdict \in Verdicts
      /\ saved'[a] = k
      /\ \A b \in Attempts \ {a} : saved'[b] = saved[b]
  BY SaveBecomes DEF IInv
<1>2. Typed'
  BY <1>1 DEF IInv, Typed, Shapes, CallOK
<1>3. thread.status # "absent" /\ Supports(thread.status)
  BY DEF IInv, Phase, Quiet, Decided
<1>4. Phase'
  <2>1. CASE Drafter(c)
    BY <2>1, <1>3, DrafterPhase DEF IInv, Phase
  <2>2. CASE ~Drafter(c)
    BY <2>2, BusyPhase
  <2> QED BY <2>1, <2>2
<1>5. Decided'
  BY <1>1, <1>3, DecidedStays
<1> QED BY <1>2, <1>4, <1>5 DEF IInv

LEMMA RunGraphKeeps ==
    ASSUME IInv, NEW c \in Callers, RunGraph(c)
    PROVE  IInv'
<1> DEFINE a == call[c].row.attempt
           k == IF Drafted = {} THEN Ended("completed") ELSE Paused(thread.version)
           t == IF Drafted = {} THEN "completed" ELSE "awaiting_human_review"
<1>1. a \in Attempts
  BY DEF IInv, Typed, Shapes, Calls, Rows
<1>2. Drafted = {} => Supports("completed")
  BY DEF Drafted, Supports
<1>3. k \in Saves /\ (k.at = "ended" => k.verdict \in Verdicts /\ Supports(k.verdict))
  BY <1>2, EndedTyped, PausedTyped DEF IInv, Verdicts
<1>4. t \in Verdicts \cup {"awaiting_human_review"} /\ Supports(t)
  BY <1>2 DEF Verdicts, Supports
<1>5. saved' = [saved EXCEPT ![a] = k] /\ UNCHANGED <<thread, item>>
      /\ call' = [call EXCEPT ![c].pc = "finish", ![c].target = t]
  BY DEF RunGraph
<1> HIDE DEF a, k, t
<1>6. CallOK(c) /\ call'[c].pc = "finish" /\ call'[c].target = t
  BY <1>4, <1>5, GoesOnTo DEF IInv
<1>7. ~Quiet(c) /\ ~Drafter(c)'
  BY <1>5, <1>6 DEF RunGraph, Running, Quiet, Drafter
<1>8. Supports(call'[c].target)
  BY <1>4, <1>6
<1> QED BY <1>1, <1>3, <1>5, <1>6, <1>7, <1>8, GraphMovesKeeps

LEMMA GraphFailsKeeps ==
    ASSUME IInv, NEW c \in Callers, GraphFails(c)
    PROVE  IInv'
<1>1. CallOK(c) /\ call'[c].pc = "mark"
  BY GoesOn DEF GraphFails, IInv
<1>2. ~Quiet(c) /\ ~Drafter(c) /\ ~Drafter(c)' /\ ~Decides(call'[c])
      /\ UNCHANGED <<thread, item, saved>>
  BY <1>1 DEF GraphFails, Running, Quiet, Drafter, Decides
<1> QED BY <1>1, <1>2, BusyKeeps DEF IInv, Typed, Shapes

LEMMA GraphStopsKeeps ==
    ASSUME IInv, NEW c \in Callers, GraphStops(c)
    PROVE  IInv'
<1> DEFINE a == call[c].row.attempt
           k == [saved[a] EXCEPT !.at = "partial"]
<1>1. a \in Attempts
  BY DEF IInv, Typed, Shapes, Calls, Rows
<1>2. k \in Saves /\ k.at = "partial"
  BY <1>1 DEF IInv, Typed, Shapes, Saves
<1>3. saved' = [saved EXCEPT ![a] = k] /\ UNCHANGED <<thread, item>>
  BY DEF GraphStops, IInv, Typed, Shapes
<1> HIDE DEF a, k
<1>4. CallOK(c) /\ call'[c] = NoCall
  BY Ends DEF GraphStops, IInv
<1>5. ~Quiet(c) /\ ~Drafter(c)' /\ ~Decides(call'[c])
  BY <1>4 DEF GraphStops, Running, Quiet, Drafter, Decides, NoCall
<1> QED BY <1>1, <1>2, <1>3, <1>4, <1>5, GraphMovesKeeps

LEMMA FinishInitialKeeps ==
    ASSUME IInv, NEW c \in Callers, FinishInitial(c)
    PROVE  IInv'
<1> DEFINE row == [thread EXCEPT !.confirmed = TRUE]
           t == call[c].target
<1>1. row \in Rows /\ row.graph = thread.graph
  BY RowChanges DEF IInv, Typed, Shapes, Rows
<1>2. Bump(row, t) /\ Done(c) /\ UNCHANGED <<item, saved>>
  BY DEF FinishInitial
<1>3. t \in Statuses \ {"absent", "drafting"} /\ Supports(t)
  BY DEF FinishInitial, Running, IInv, Typed, Sound, Decided, Decides, Verdicts, Statuses, Terminal
<1> HIDE DEF row, t
<1>4. ~Quiet(c) /\ ~Drafter(c)
  BY DEF FinishInitial, Running, Quiet, Drafter
<1> QED BY <1>1, <1>2, <1>3, <1>4, BusyBumpKeeps

LEMMA MarkCheckpointFailedKeeps ==
    ASSUME IInv, NEW c \in Callers, MarkCheckpointFailed(c)
    PROVE  IInv'
<1>1. ~Quiet(c) /\ ~Drafter(c) /\ Done(c) /\ UNCHANGED <<item, saved>>
  BY DEF MarkCheckpointFailed, Running, Quiet, Drafter
<1>2. Bump(thread, "checkpoint_failed") /\ Supports("checkpoint_failed")
      /\ "checkpoint_failed" \in Statuses \ {"absent", "drafting"}
  BY DEF MarkCheckpointFailed, Statuses, Draftable, Supports
<1> QED BY <1>1, <1>2, BusyBumpKeeps DEF IInv, Typed, Shapes

(* A read sees no checkpoint while a draft is under way. *)
LEMMA LookKeeps ==
    ASSUME IInv, NEW c \in Callers, NEW op \in {"status", "resume", "cancel"}, Look(c, op),
           op = "resume" => thread.status \notin Early
    PROVE  IInv'
<1> DEFINE p == Probe(thread)
           t == saved[thread.attempt].verdict
           k == [NoCall EXCEPT !.op = op, !.pc = "looked", !.row = thread, !.probe = p, !.target = t]
<1>1. thread \in Rows /\ thread.attempt \in Attempts
  BY DEF IInv, Typed, Shapes, Rows
<1>2. p \in {"paused", "ended", "unusable", "refused"}
      /\ (p = "ended" => saved[thread.attempt].at = "ended")
      /\ (saved[thread.attempt].at = "none" => p = "unusable")
  BY ProbeFinds
<1>3. t \in Verdicts \cup {Null}
      /\ (saved[thread.attempt].at = "ended" => t \in Verdicts /\ Supports(t))
  BY <1>1 DEF IInv, Typed, Shapes, Saves, Decided
<1>4. call' = [call EXCEPT ![c] = k] /\ thread.status # "absent"
      /\ UNCHANGED <<thread, item, saved>>
  BY DEF Look
<1> HIDE DEF p, t
<1>5. NoCall \in Calls
  BY NothingTyped
<1>6. k \in Calls /\ k.op = op /\ k.pc = "looked" /\ k.probe = p /\ k.target = t
  <2> DEFINE o == [NoCall EXCEPT !.op = op, !.pc = "looked"]
             x == [o EXCEPT !.row = thread, !.probe = p, !.target = t]
  <2>1. o \in Calls /\ o.op = op /\ o.pc = "looked"
    BY <1>5 DEF Calls
  <2>2. k = x
    OBVIOUS
  <2> HIDE DEF o, k
  <2>3. x \in Calls /\ x.op = op /\ x.pc = "looked" /\ x.probe = p /\ x.target = t
    BY <1>1, <1>2, <1>3, <2>1 DEF Calls
  <2> QED BY <2>2, <2>3
<1> HIDE DEF k
<1>7. Sound(k)
  BY <1>2, <1>3, <1>6 DEF Sound
<1>8. CallOK(c) /\ call'[c] = k
  BY <1>4, <1>6, <1>7, CallBecomes DEF IInv, Typed, Shapes
<1>9. Typed'
  BY <1>4, <1>8 DEF IInv, Typed, Shapes, CallOK
<1>10. Phase'
  <2>1. ~Drafter(c)' /\ \A d \in Callers \ {c} : Drafter(d)' => Drafter(d)
    BY <1>4, <1>6, <1>8 DEF Drafter, CallOK
  <2>2. NoneSaved /\ op # "resume" => Quiet(c)'
    BY <1>1, <1>2, <1>6, <1>8 DEF NoneSaved, Quiet
  <2>3. \A d \in Callers \ {c} : Quiet(d) => Quiet(d)'
    BY <1>8 DEF Quiet, CallOK
  <2>4. NoneSaved => NoneSaved'
    BY <1>4 DEF NoneSaved
  <2> QED BY <1>4, <2>1, <2>2, <2>3, <2>4 DEF IInv, Phase
<1>11. Decided'
  <2>1. Decides(call'[c]) => Supports(call'[c].target)
    BY <1>2, <1>3, <1>6, <1>8 DEF Decides
  <2> QED BY <1>4, <1>8, <2>1, DecidedStays DEF IInv, Decided
<1> QED BY <1>9, <1>10, <1>11 DEF IInv

LEMMA ReconcileKeeps ==
    ASSUME IInv, NEW c \in Callers, Reconcile(c)
    PROVE  IInv'
<1> DEFINE row == [thread EXCEPT !.confirmed = TRUE]
<1>1. row \in Rows /\ row.graph = thread.graph
  BY RowChanges DEF IInv, Typed, Shapes, Rows
<1>2. ~Quiet(c) /\ ~Drafter(c) /\ Done(c) /\ UNCHANGED <<item, saved>>
  BY DEF Reconcile, Looked, Running, Quiet, Drafter
<1>3. \E t \in {call[c].target, "awaiting_human_review"} :
         /\ Bump(row, t)
         /\ t \in Statuses \ {"absent", "drafting"} /\ Supports(t)
  <2>1. CASE call[c].probe = "paused"
    BY <2>1 DEF Reconcile, Statuses, Supports
  <2>2. CASE call[c].probe = "ended"
    <3>1. call[c].target \in Verdicts /\ Supports(call[c].target)
      BY <2>2 DEF Reconcile, Looked, Running, IInv, Typed, Sound, Decided, Decides
    <3> QED BY <2>2, <3>1 DEF Reconcile, Verdicts, Statuses, Terminal
  <2> QED BY <2>1, <2>2 DEF Reconcile
<1> HIDE DEF row
<1> QED BY <1>1, <1>2, <1>3, BusyBumpKeeps

LEMMA FailCheckpointKeeps ==
    ASSUME IInv, NEW c \in Callers, FailCheckpoint(c)
    PROVE  IInv'
<1>1. thread' \in Rows /\ thread'.graph = thread.graph /\ thread'.status = "checkpoint_failed"
  BY RowAfter DEF FailCheckpoint, IInv, Typed, Shapes, Statuses, Draftable
<1>2. call[c] \in Calls /\ call[c].pc = "looked" /\ call[c].probe = "unusable"
      /\ call[c].op = "resume" /\ thread.graph = "v20"
  BY DEF FailCheckpoint, Looked, Running, IInv, Typed, Shapes
<1> DEFINE k == [call[c] EXCEPT !.row = thread']
<1>3. k \in Calls /\ k.pc = "looked" /\ k.probe = "unusable"
  BY <1>1, <1>2 DEF Calls
<1>4. call' = [call EXCEPT ![c] = k]
  BY DEF FailCheckpoint
<1> HIDE DEF k
<1>5. CallOK(c) /\ call'[c] = k
  BY <1>3, <1>4, CallBecomes DEF Sound, IInv, Typed, Shapes
<1>6. ~Quiet(c) /\ ~Drafter(c) /\ ~Drafter(c)' /\ ~Decides(call'[c])
  BY <1>1, <1>2, <1>3, <1>5 DEF Quiet, Drafter, Decides
<1> QED BY <1>1, <1>5, <1>6, BusyKeeps DEF Supports, FailCheckpoint

LEMMA RotateAttemptKeeps ==
    ASSUME IInv, NEW c \in Callers, RotateAttempt(c)
    PROVE  IInv'
<1> DEFINE row == [thread EXCEPT !.attempt = @ + 1, !.confirmed = FALSE]
<1>1. thread \in Rows /\ thread.attempt + 1 \in Attempts
  BY WorkflowAssumption DEF RotateAttempt, IInv, Typed, Shapes, Rows, Attempts
<1>2. row = [thread EXCEPT !.attempt = thread.attempt + 1, !.confirmed = FALSE]
  BY <1>1 DEF Rows
<1>3. row \in Rows /\ row.graph = thread.graph
  BY <1>1, <1>2, RowChanges DEF Rows
<1>4. Bump(row, "checkpoint_pending") /\ "checkpoint_pending" \in Statuses
  BY DEF RotateAttempt, Statuses, Draftable
<1> HIDE DEF row
<1>5. thread' \in Rows /\ thread'.graph = thread.graph /\ thread'.status = "checkpoint_pending"
  BY <1>3, <1>4, RowAfter DEF IInv, Typed, Shapes
<1>6. CallOK(c) /\ call'[c].pc = "invoke"
  BY <1>5, GoesOnWith DEF RotateAttempt, IInv
<1>7. ~Quiet(c) /\ ~Drafter(c) /\ ~Drafter(c)' /\ ~Decides(call'[c])
      /\ UNCHANGED <<item, saved>>
  BY <1>5, <1>6 DEF RotateAttempt, Looked, Running, Quiet, Drafter, Decides
<1> QED BY <1>5, <1>6, <1>7, BusyKeeps DEF Supports

LEMMA ClaimResumeKeeps ==
    ASSUME IInv, NEW c \in Callers, ClaimResume(c)
    PROVE  IInv'
<1>1. thread' \in Rows /\ thread'.graph = thread.graph /\ thread'.status = "resuming"
  BY RowAfter DEF ClaimResume, IInv, Typed, Shapes, Statuses
<1>2. CallOK(c) /\ call'[c].pc = "claimed"
  BY GoesOn DEF ClaimResume, IInv
<1>3. ~Quiet(c) /\ ~Drafter(c) /\ ~Drafter(c)' /\ ~Decides(call'[c])
      /\ UNCHANGED <<item, saved>>
  BY <1>1, <1>2 DEF ClaimResume, Looked, Running, Quiet, Drafter, Decides
<1> QED BY <1>1, <1>2, <1>3, BusyKeeps DEF Supports

LEMMA ReadClaimedKeeps ==
    ASSUME IInv, NEW c \in Callers, ReadClaimed(c)
    PROVE  IInv'
<1>1. thread \in Rows
  BY DEF IInv, Typed, Shapes
<1>2. CallOK(c) /\ call'[c].pc = "resume"
  BY <1>1, GoesOnWith DEF ReadClaimed, IInv
<1>3. ~Quiet(c) /\ ~Drafter(c) /\ ~Drafter(c)' /\ ~Decides(call'[c])
      /\ UNCHANGED <<thread, item, saved>>
  BY <1>2 DEF ReadClaimed, Running, Quiet, Drafter, Decides
<1> QED BY <1>1, <1>2, <1>3, BusyKeeps

LEMMA AwaitingAgainKeeps ==
    ASSUME IInv, NEW c \in Callers, ClaimRefused(c) \/ RestoreAwaiting(c)
    PROVE  IInv'
<1>1. ~Quiet(c) /\ ~Drafter(c) /\ Done(c) /\ UNCHANGED <<item, saved>>
  BY DEF ClaimRefused, RestoreAwaiting, Running, Quiet, Drafter
<1>2. Bump(thread, "awaiting_human_review") /\ Supports("awaiting_human_review")
      /\ "awaiting_human_review" \in Statuses \ {"absent", "drafting"}
  BY DEF ClaimRefused, RestoreAwaiting, Statuses, Supports
<1> QED BY <1>1, <1>2, BusyBumpKeeps DEF IInv, Typed, Shapes

(* What the graph decides over the items is supported by them. *)
LEMMA BoundarySupported ==
    ASSUME NEW graph, Boundary(graph, item) # "pause"
    PROVE  Boundary(graph, item) \in Verdicts /\ Supports(Boundary(graph, item))
BY DEF Boundary, Verdicts, Supports

LEMMA ResumeGraphKeeps ==
    ASSUME IInv, NEW c \in Callers, ResumeGraph(c)
    PROVE  IInv'
<1> DEFINE a == call[c].row.attempt
           next == Boundary("v20", item)
<1>1. a \in Attempts
  BY DEF IInv, Typed, Shapes, Calls, Rows
<1>2. ~Quiet(c) /\ thread.graph = "v20" /\ UNCHANGED <<thread, item>>
  BY DEF ResumeGraph, Running, Quiet
<1>3. CASE thread.version # call[c].row.version
  <2> DEFINE k == [saved[a] EXCEPT !.at = "broken"]
  <2>1. saved' = [saved EXCEPT ![a] = k] /\ At(c, "restore")
    BY <1>3 DEF ResumeGraph, IInv, Typed, Shapes
  <2>2. k \in Saves /\ k.at = "broken"
    BY <1>1 DEF IInv, Typed, Shapes, Saves
  <2> HIDE DEF k, a
  <2>3. CallOK(c) /\ call'[c].pc = "restore"
    BY <2>1, GoesOn DEF IInv
  <2>4. ~Drafter(c)' /\ ~Decides(call'[c])
    BY <1>2, <2>3 DEF Drafter, Decides
  <2> QED BY <1>1, <1>2, <2>1, <2>2, <2>3, <2>4, GraphMovesKeeps
<1>4. CASE thread.version = call[c].row.version /\ next = "pause"
  <2> DEFINE k == Paused(thread.version)
  <2>1. saved' = [saved EXCEPT ![a] = k] /\ At(c, "mark")
    BY <1>4 DEF ResumeGraph
  <2>2. k \in Saves /\ k.at = "paused"
    BY PausedTyped DEF IInv
  <2> HIDE DEF k, a
  <2>3. CallOK(c) /\ call'[c].pc = "mark"
    BY <2>1, GoesOn DEF IInv
  <2>4. ~Drafter(c)' /\ ~Decides(call'[c])
    BY <1>2, <2>3 DEF Drafter, Decides
  <2> QED BY <1>1, <1>2, <2>1, <2>2, <2>3, <2>4, GraphMovesKeeps
<1>5. CASE thread.version = call[c].row.version /\ next # "pause"
  <2> DEFINE k == Ended(next)
  <2>1. saved' = [saved EXCEPT ![a] = k]
        /\ call' = [call EXCEPT ![c].pc = "settle", ![c].target = next]
    BY <1>5 DEF ResumeGraph
  <2>2. next \in Verdicts /\ Supports(next)
    BY <1>5, BoundarySupported
  <2> HIDE DEF next, a
  <2>3. k \in Saves /\ k.verdict = next
    BY <2>2, EndedTyped DEF IInv
  <2> HIDE DEF k
  <2>4. CallOK(c) /\ call'[c].pc = "settle" /\ call'[c].target = next
    BY <2>1, <2>2, GoesOnTo DEF IInv
  <2>5. ~Drafter(c)'
    BY <1>2, <2>4 DEF Drafter
  <2>6. Supports(call'[c].target)
    BY <2>2, <2>4
  <2> QED BY <1>1, <1>2, <2>1, <2>2, <2>3, <2>4, <2>5, <2>6, GraphMovesKeeps
<1> QED BY <1>3, <1>4, <1>5

LEMMA ResumeRefusedKeeps ==
    ASSUME IInv, NEW c \in Callers, ResumeRefused(c)
    PROVE  IInv'
<1>1. CallOK(c) /\ call'[c].pc = "restore"
  BY GoesOn DEF ResumeRefused, IInv
<1>2. ~Quiet(c) /\ ~Drafter(c) /\ ~Drafter(c)' /\ ~Decides(call'[c])
      /\ UNCHANGED <<thread, item, saved>>
  BY <1>1 DEF ResumeRefused, Running, Quiet, Drafter, Decides
<1> QED BY <1>1, <1>2, BusyKeeps DEF IInv, Typed, Shapes

LEMMA FinishResumeKeeps ==
    ASSUME IInv, NEW c \in Callers, FinishResume(c)
    PROVE  IInv'
<1>1. ~Quiet(c) /\ ~Drafter(c) /\ Done(c) /\ UNCHANGED <<item, saved>>
  BY DEF FinishResume, Running, Quiet, Drafter
<1>2. call[c].target \in Statuses \ {"absent", "drafting"} /\ Supports(call[c].target)
  BY DEF FinishResume, Running, IInv, Typed, Sound, Decided, Decides, Verdicts, Statuses, Terminal
<1> QED BY <1>1, <1>2, BusyBumpKeeps DEF IInv, Typed, Shapes, FinishResume

(* A caller that leaves, having changed nothing or cancelled the thread. *)
LEMMA LeavingKeeps ==
    ASSUME IInv, NEW c \in Callers, call[c].pc # "idle", Done(c),
           thread' \in Rows, thread'.graph = thread.graph,
           thread' = thread \/ thread'.status = "cancelled",
           UNCHANGED <<item, saved>>
    PROVE  IInv'
<1>1. CallOK(c) /\ call'[c] = NoCall
  BY Ends DEF IInv
<1>2. thread.status # "absent" /\ Supports(thread'.status)
  BY DEF IInv, Phase, Decided, Supports
<1>3. Typed'
  BY <1>1 DEF IInv, Typed, Shapes, CallOK
<1>4. Phase'
  BY <1>1, <1>2, LeavingPhase DEF NoCall
<1>5. Decided'
  BY <1>1, <1>2, DecidedStays DEF Decides, NoCall
<1> QED BY <1>3, <1>4, <1>5 DEF IInv

LEMMA CancelKeeps ==
    ASSUME IInv, NEW c \in Callers, Cancel(c) \/ Cancel21(c) \/ EndCall(c)
    PROVE  IInv'
<1>1. call[c].pc # "idle" /\ Done(c) /\ UNCHANGED <<item, saved>>
  BY DEF Cancel, Cancel21, EndCall, Looked, Running
<1>2. thread \in Rows /\ "cancelled" \in Statuses
  BY DEF IInv, Typed, Shapes, Statuses, Terminal
<1>3. thread' \in Rows /\ thread'.graph = thread.graph
      /\ (thread' = thread \/ thread'.status = "cancelled")
  <2>1. CASE Cancel(c)
    <3> DEFINE row == [thread EXCEPT !.cancelled = TRUE]
    <3>1. row \in Rows /\ row.graph = thread.graph
      BY <1>2, RowChanges DEF Rows
    <3>2. Bump(row, "cancelled")
      BY <2>1 DEF Cancel
    <3> HIDE DEF row
    <3> QED BY <1>2, <3>1, <3>2, RowAfter
  <2>2. CASE Cancel21(c)
    BY <1>2, <2>2 DEF Cancel21, Rows
  <2>3. CASE EndCall(c)
    BY <1>2, <2>3 DEF EndCall
  <2> QED BY <2>1, <2>2, <2>3
<1> QED BY <1>1, <1>3, LeavingKeeps

LEMMA Begin21Keeps ==
    ASSUME IInv, NEW c \in Callers, Begin21(c)
    PROVE  IInv'
<1>1. thread' \in Rows /\ thread'.graph = "v21" /\ thread'.status = "checkpoint_pending"
      /\ thread.graph = "v21"
  BY RowSet DEF Begin21, Running, IInv, Typed, Shapes, Statuses, Draftable
<1>2. CallOK(c) /\ call'[c].pc = "invoke"
  BY <1>1, GoesOnWith DEF Begin21, IInv
<1>3. Drafter(c) /\ UNCHANGED <<item, saved>>
  BY DEF Begin21, Running, Drafter
<1>4. Typed'
  BY <1>1, <1>2, <1>3 DEF IInv, Typed, Shapes, CallOK
<1>5. Phase'
  BY <1>1, <1>2, <1>3, DrafterPhase DEF Early
<1>6. Decided'
  BY <1>1, <1>2, <1>3, DecidedStays DEF Decides, Supports
<1> QED BY <1>4, <1>5, <1>6 DEF IInv

LEMMA Draft21Keeps ==
    ASSUME IInv, NEW c \in Callers, NEW D \in SUBSET Items, Draft21(c, D)
    PROVE  IInv'
<1>1. CallOK(c) /\ call'[c].pc = "validating"
  BY GoesOn DEF Draft21, IInv
<1>2. Drafter(c) /\ UNCHANGED <<thread, saved>>
  BY DEF Draft21, Running, Drafter
<1>3. item' \in [Items -> ItemStatuses]
  BY DEF Draft21, Drafts, IInv, Typed, Shapes, ItemStatuses
<1>4. Typed'
  BY <1>1, <1>2, <1>3 DEF IInv, Typed, Shapes, CallOK
<1>5. NoneSaved' /\ thread.status \in Early /\ \A d \in Callers \ {c} : Quiet(d)
  BY <1>2 DEF IInv, Phase, NoneSaved
<1>6. Phase'
  BY <1>1, <1>2, <1>5, DrafterPhase DEF IInv, Phase, Early
<1>7. \A d \in Callers : ~Decides(call'[d])
  BY <1>1, <1>5 DEF Quiet, Decides, CallOK
<1>8. Decided'
  BY <1>2, <1>5, <1>7 DEF Decided, NoneSaved, Supports, Decides, Early
<1> QED BY <1>4, <1>6, <1>8 DEF IInv

(* The items are counted: the thread waits, or has a supported verdict. *)
LEMMA SettledKeeps ==
    ASSUME IInv, NEW c \in Callers, NEW a \in Attempts, ~Quiet(c), Settled21(c, a),
           UNCHANGED <<thread, item>>
    PROVE  IInv'
<1> DEFINE next == Boundary("v21", item)
           k == IF next = "pause" THEN Paused(thread.version) ELSE Ended(next)
           t == IF next = "pause" THEN "awaiting_human_review" ELSE next
<1>1. next # "pause" => next \in Verdicts /\ Supports(next)
  BY BoundarySupported
<1>2. saved' = [saved EXCEPT ![a] = k]
      /\ call' = [call EXCEPT ![c].pc = "settle", ![c].target = t]
  BY DEF Settled21
<1> HIDE DEF next
<1>3. k \in Saves /\ (k.at = "ended" => k.verdict \in Verdicts /\ Supports(k.verdict))
  BY <1>1, EndedTyped, PausedTyped DEF IInv
<1>4. t \in Verdicts \cup {"awaiting_human_review"} /\ Supports(t)
  BY <1>1 DEF Supports
<1> HIDE DEF k, t
<1>5. CallOK(c) /\ call'[c].pc = "settle" /\ call'[c].target = t
  BY <1>2, <1>4, GoesOnTo DEF IInv
<1>6. ~Drafter(c)' /\ Supports(call'[c].target)
  BY <1>4, <1>5 DEF Drafter
<1> QED BY <1>2, <1>3, <1>5, <1>6, GraphMovesKeeps

LEMMA RunGraph21Keeps ==
    ASSUME IInv, NEW c \in Callers, RunGraph21(c)
    PROVE  IInv'
<1>1. call[c].row.attempt \in Attempts
  BY DEF IInv, Typed, Shapes, Calls, Rows
<1>2. ~Quiet(c)
  BY DEF RunGraph21, Running, Quiet
<1> QED BY <1>1, <1>2, SettledKeeps DEF RunGraph21

LEMMA ResumeGraph21Keeps ==
    ASSUME IInv, NEW c \in Callers, ResumeGraph21(c)
    PROVE  IInv'
<1> DEFINE a == call[c].row.attempt
<1>1. a \in Attempts
  BY DEF IInv, Typed, Shapes, Calls, Rows
<1>2. ~Quiet(c) /\ UNCHANGED <<thread, item>>
  BY DEF ResumeGraph21, Running, Quiet
<1>3. CASE thread.version # call[c].row.version
  <2> DEFINE k == [saved[a] EXCEPT !.at = "broken"]
  <2>1. saved' = [saved EXCEPT ![a] = k] /\ Done(c)
    BY <1>3 DEF ResumeGraph21, IInv, Typed, Shapes
  <2>2. k \in Saves /\ k.at = "broken"
    BY <1>1 DEF IInv, Typed, Shapes, Saves
  <2> HIDE DEF k, a
  <2>3. CallOK(c) /\ call'[c] = NoCall
    BY <2>1, Ends DEF IInv
  <2>4. ~Drafter(c)' /\ ~Decides(call'[c])
    BY <2>3 DEF Drafter, Decides, NoCall
  <2> QED BY <1>1, <1>2, <2>1, <2>2, <2>3, <2>4, GraphMovesKeeps
<1>4. CASE thread.version = call[c].row.version
  BY <1>1, <1>2, <1>4, SettledKeeps DEF ResumeGraph21
<1> QED BY <1>3, <1>4

LEMMA Fail21Keeps ==
    ASSUME IInv, NEW c \in Callers, NEW status \in {"failed", "checkpoint_failed"},
           Fail21(c, status)
    PROVE  IInv'
<1>1. thread' \in Rows /\ thread'.graph = thread.graph /\ thread'.status = status
  BY RowSet DEF Fail21, IInv, Typed, Shapes, Statuses, Terminal, Draftable
<1>2. CallOK(c) /\ call'[c] = NoCall
  BY Ends DEF Fail21, IInv
<1>3. ~Drafter(c)' /\ ~Decides(call'[c]) /\ ~Quiet(c) /\ UNCHANGED <<item, saved>>
      /\ Supports(status)
  BY <1>2 DEF Fail21, Running, Drafter, Decides, Quiet, NoCall, Supports
<1>4. CASE Drafter(c)
  <2>1. Typed'
    BY <1>1, <1>2, <1>3 DEF IInv, Typed, Shapes, CallOK
  <2>2. Phase'
    BY <1>1, <1>2, <1>3, <1>4, DrafterPhase
  <2>3. Decided'
    BY <1>1, <1>2, <1>3, DecidedStays
  <2> QED BY <2>1, <2>2, <2>3 DEF IInv
<1>5. CASE ~Drafter(c)
  BY <1>1, <1>2, <1>3, <1>5, BusyKeeps
<1> QED BY <1>4, <1>5

(* A graph of V2.1 that moved, or that a status request found moved. *)
LEMMA Settle21Keeps ==
    ASSUME IInv, NEW c \in Callers, Settle21(c) \/ Reconcile21(c)
    PROVE  IInv'
<1>1. ~Quiet(c) /\ ~Drafter(c) /\ Done(c) /\ UNCHANGED <<item, saved>>
  BY DEF Settle21, Reconcile21, Looked, Running, Quiet, Drafter
<1>2. \E t \in {call[c].target, "awaiting_human_review"} :
         Set(t, FALSE) /\ t \in Statuses \ {"absent", "drafting"} /\ Supports(t)
  <2>1. CASE Settle21(c)
    <3>1. call[c].target \in Verdicts \cup {"awaiting_human_review"} /\ Supports(call[c].target)
      BY <2>1 DEF Settle21, Running, IInv, Typed, Sound, Decided, Decides
    <3> QED BY <2>1, <3>1 DEF Settle21, Verdicts, Statuses, Terminal
  <2>2. CASE Reconcile21(c) /\ call[c].probe = "paused"
    BY <2>2 DEF Reconcile21, Statuses, Supports
  <2>3. CASE Reconcile21(c) /\ call[c].probe = "ended"
    <3>1. call[c].target \in Verdicts /\ Supports(call[c].target)
      BY <2>3 DEF Reconcile21, Looked, Running, IInv, Typed, Sound, Decided, Decides
    <3> QED BY <2>3, <3>1 DEF Reconcile21, Verdicts, Statuses, Terminal
  <2> QED BY <2>1, <2>2, <2>3 DEF Reconcile21
<1>3. thread' \in Rows /\ thread'.graph = thread.graph
      /\ thread'.status \notin {"absent", "drafting"} /\ Supports(thread'.status)
  BY <1>2, RowSet DEF IInv, Typed, Shapes
<1>4. CallOK(c) /\ call'[c] = NoCall
  BY <1>1, Ends DEF IInv
<1>5. ~Drafter(c)' /\ ~Decides(call'[c])
  BY <1>4 DEF Drafter, Decides, NoCall
<1> QED BY <1>1, <1>3, <1>4, <1>5, BusyKeeps

LEMMA ClaimResume21Keeps ==
    ASSUME IInv, NEW c \in Callers, ClaimResume21(c)
    PROVE  IInv'
<1>1. thread' \in Rows /\ thread'.graph = thread.graph /\ thread'.status = "resuming"
  BY RowSet DEF ClaimResume21, IInv, Typed, Shapes, Statuses
<1>2. CallOK(c) /\ call'[c].pc = "resume"
  BY GoesOn DEF ClaimResume21, IInv
<1>3. ~Quiet(c) /\ ~Drafter(c) /\ ~Drafter(c)' /\ ~Decides(call'[c])
      /\ UNCHANGED <<item, saved>>
  BY <1>1, <1>2 DEF ClaimResume21, Looked, Running, Quiet, Drafter, Decides
<1> QED BY <1>1, <1>2, <1>3, BusyKeeps DEF Supports

(* An item that is resolved, or revoked after an approval, takes no support
   from a verdict: nothing becomes pending again, and a need for more evidence
   is final. *)
LEMMA ItemMovesKeeps ==
    ASSUME IInv, NEW i \in Items, NEW status \in ItemStatuses \ {"absent", "pending_review"},
           \/ item[i] = "pending_review"
           \/ item[i] = "auto_approved" /\ status # "needs_more_evidence",
           item' = [item EXCEPT ![i] = status],
           UNCHANGED <<thread, saved, call>>
    PROVE  IInv'
<1>1. item' \in [Items -> ItemStatuses]
  BY DEF IInv, Typed, Shapes
<1>2. Typed'
  BY <1>1 DEF IInv, Typed, Shapes, Sound
<1>3. Phase'
  BY DEF IInv, Phase, NoneSaved, Drafter, Quiet
<1>4. \A v : Supports(v) => Supports(v)'
  <2> SUFFICES ASSUME NEW v, Supports(v) PROVE Supports(v)'
    OBVIOUS
  <2>1. \A j \in Items \ {i} : item'[j] = item[j]
    BY DEF IInv, Typed, Shapes
  <2>2. item'[i] = status
    BY DEF IInv, Typed, Shapes
  <2>3. v = "completed" => \A j \in Items : item'[j] \notin {"pending_review", "needs_more_evidence"}
    BY <2>1, <2>2 DEF Supports
  <2>4. v = "needs_more_evidence" => \E j \in Items : item'[j] = "needs_more_evidence"
    <3> SUFFICES ASSUME v = "needs_more_evidence"
                 PROVE  \E j \in Items : item'[j] = "needs_more_evidence"
      OBVIOUS
    <3>1. PICK j \in Items : item[j] = "needs_more_evidence"
      BY DEF Supports
    <3> QED BY <2>1, <3>1
  <2> QED BY <2>3, <2>4 DEF Supports
<1>5. Decided'
  BY <1>4 DEF IInv, Decided, Decides
<1> QED BY <1>2, <1>3, <1>5 DEF IInv

LEMMA PruneKeeps ==
    ASSUME IInv, PruneCheckpoints
    PROVE  IInv'
<1>1. thread.attempt \in Attempts /\ NoCheckpoint \in Saves /\ NoCheckpoint.at = "none"
  BY NothingTyped DEF IInv, Typed, Shapes, Rows, NoCheckpoint
<1>2. saved' = [saved EXCEPT ![thread.attempt] = NoCheckpoint] /\ UNCHANGED <<thread, item, call>>
  BY DEF PruneCheckpoints
<1>3. /\ saved' \in [Attempts -> Saves]
      /\ \A b \in Attempts : saved'[b].at = "ended" =>
            saved'[b].verdict \in Verdicts /\ Supports(saved'[b].verdict)
  BY <1>1, <1>2 DEF IInv, Typed, Shapes, Decided
<1>4. Typed'
  BY <1>2, <1>3 DEF IInv, Typed, Shapes, Sound
<1>5. Phase'
  BY <1>2 DEF PruneCheckpoints, IInv, Phase, Drafter, Terminal
<1>6. Decided'
  BY <1>2, <1>3 DEF IInv, Decided, Decides, Supports
<1> QED BY <1>4, <1>5, <1>6 DEF IInv

-----------------------------------------------------------------------------
(* The steps of one caller, by what they may do to the row. *)

LeavesRow(c) ==
    \/ NothingToDraft(c)
    \/ \E D \in SUBSET Items : Draft21(c, D)
    \/ RunGraph(c) \/ GraphFails(c) \/ GraphStops(c)
    \/ LookAtStatus(c) \/ LookToResume(c) \/ LookToCancel(c)
    \/ ReadClaimed(c) \/ ResumeGraph(c) \/ ResumeRefused(c)
    \/ \E i \in Items : AutoApprove(c, i)
    \/ RunGraph21(c) \/ ResumeGraph21(c)
    \/ EndCall(c)

WritesRow20(c) ==
    \/ \E graph \in Graphs : CreateThread(c, graph)
    \/ ClaimLease(c)
    \/ \E D \in SUBSET Items : PersistDraft(c, D) \/ PersistPart(c, D)
    \/ \E next \in {"draft", "fail", "idle"} : DraftFails(c, next)
    \/ MarkFailed(c) \/ EnsureCheckpointPending(c) \/ FinishInitial(c) \/ MarkCheckpointFailed(c)
    \/ Reconcile(c) \/ FailCheckpoint(c) \/ RotateAttempt(c)
    \/ ClaimResume(c) \/ ClaimRefused(c) \/ FinishResume(c) \/ Cancel(c)

WritesRow21(c) ==
    \/ Begin21(c)
    \/ \E status \in {"failed", "checkpoint_failed"} : Fail21(c, status)
    \/ Settle21(c) \/ Reconcile21(c) \/ ClaimResume21(c) \/ Cancel21(c)

ItemSteps ==
    \E i \in Items : \/ Revoke(i)
                     \/ \E status \in {"approved", "rejected", "needs_more_evidence"} : Resolve(i, status)

LEMMA NextIs ==
    Next <=> \/ PruneCheckpoints
             \/ ItemSteps
             \/ \E c \in Callers : \/ LeavesRow(c) \/ WritesRow20(c)
                                   \/ WritesRow21(c) \/ RestoreAwaiting(c)
BY DEF Next, ItemSteps, LeavesRow, WritesRow20, WritesRow21

LEMMA LeavesRowKeeps ==
    ASSUME IInv, NEW c \in Callers, LeavesRow(c)
    PROVE  IInv'
<1>1. CASE LookAtStatus(c) \/ LookToResume(c) \/ LookToCancel(c)
  <2>1. CASE LookAtStatus(c)
    BY <2>1, LookKeeps DEF LookAtStatus
  <2>2. CASE LookToResume(c)
    <3>1. Look(c, "resume") /\ thread.status \notin Early
      BY <2>2 DEF LookToResume, Early
    <3> QED BY <3>1, LookKeeps
  <2>3. CASE LookToCancel(c)
    BY <2>3, LookKeeps DEF LookToCancel
  <2> QED BY <1>1, <2>1, <2>2, <2>3
<1>2. CASE \E i \in Items : AutoApprove(c, i)
  <2> PICK i \in Items : AutoApprove(c, i)
    BY <1>2
  <2>1. "auto_approved" \in ItemStatuses \ {"absent", "pending_review"}
    BY DEF ItemStatuses
  <2> QED BY <2>1, ItemMovesKeeps DEF AutoApprove
<1>3. CASE \E D \in SUBSET Items : Draft21(c, D)
  BY <1>3, Draft21Keeps
<1> QED BY <1>1, <1>2, <1>3, NothingToDraftKeeps, RunGraphKeeps, GraphFailsKeeps, GraphStopsKeeps,
           ReadClaimedKeeps, ResumeGraphKeeps, ResumeRefusedKeeps, RunGraph21Keeps,
           ResumeGraph21Keeps, CancelKeeps DEF LeavesRow

LEMMA WritesRow20Keeps ==
    ASSUME IInv, NEW c \in Callers, WritesRow20(c)
    PROVE  IInv'
BY CreateThreadKeeps, ClaimLeaseKeeps, PersistKeeps, DraftFailsKeeps, MarkFailedKeeps,
   EnsureCheckpointPendingKeeps, FinishInitialKeeps, MarkCheckpointFailedKeeps, ReconcileKeeps,
   FailCheckpointKeeps, RotateAttemptKeeps, ClaimResumeKeeps, AwaitingAgainKeeps, FinishResumeKeeps,
   CancelKeeps DEF WritesRow20

LEMMA WritesRow21Keeps ==
    ASSUME IInv, NEW c \in Callers, WritesRow21(c)
    PROVE  IInv'
BY Begin21Keeps, Fail21Keeps, Settle21Keeps, ClaimResume21Keeps, CancelKeeps DEF WritesRow21

LEMMA ItemStepsKeep ==
    ASSUME IInv, ItemSteps
    PROVE  IInv'
<1> PICK i \in Items : \/ Revoke(i)
                       \/ \E status \in {"approved", "rejected", "needs_more_evidence"} :
                             Resolve(i, status)
  BY DEF ItemSteps
<1>1. CASE Revoke(i)
  BY <1>1, ItemMovesKeeps DEF Revoke, ItemStatuses
<1>2. CASE \E status \in {"approved", "rejected", "needs_more_evidence"} : Resolve(i, status)
  BY <1>2, ItemMovesKeeps DEF Resolve, ItemStatuses
<1> QED BY <1>1, <1>2

LEMMA StepInv == IInv /\ [Next]_vars => IInv'
<1> SUFFICES ASSUME IInv, [Next]_vars PROVE IInv'
  OBVIOUS
<1>1. CASE UNCHANGED vars
  <2>1. Typed'
    BY <1>1 DEF vars, IInv, Typed, Shapes, Sound
  <2>2. Phase'
    BY <1>1 DEF vars, IInv, Phase, NoneSaved, Drafter, Quiet
  <2>3. Decided'
    BY <1>1 DEF vars, IInv, Decided, Decides, Supports
  <2> QED BY <2>1, <2>2, <2>3 DEF IInv
<1>2. CASE Next
  BY <1>2, NextIs, PruneKeeps, ItemStepsKeep, LeavesRowKeeps, WritesRow20Keeps, WritesRow21Keeps,
     AwaitingAgainKeeps
<1> QED BY <1>1, <1>2

LEMMA AlwaysInv == Spec => []IInv
BY InitInv, StepInv, PTL DEF Spec

-----------------------------------------------------------------------------
(* The row, the items, the checkpoints and the calls always have their types:
   in particular a row is never given a status that a caller's stale target
   would make of it, and a draft is tried at most twice. *)
THEOREM TypeCorrect == Spec => []TypeOK
<1>1. IInv => TypeOK
  BY TypeIsShapes DEF IInv, Typed
<1> QED BY <1>1, AlwaysInv, PTL

(* A status "completed" or "needs_more_evidence" agrees with the items whenever
   it is read: whichever graph decided it, however long ago, and whatever
   reviewers, revocations and other callers did since (review_resolution_branch,
   _branch, and every write of the row). *)
THEOREM VerdictsAgreeWithReviews == Spec => []VerdictMatchesReviews
<1>1. IInv => VerdictMatchesReviews
  BY DEF IInv, Decided, Supports, VerdictMatchesReviews
<1> QED BY <1>1, AlwaysInv, PTL

LEMMA LeavesRowUnchanged ==
    ASSUME NEW c \in Callers, LeavesRow(c)
    PROVE  UNCHANGED thread
BY DEF LeavesRow, NothingToDraft, Draft21, RunGraph, GraphFails, GraphStops, LookAtStatus,
       LookToResume, LookToCancel, Look, ReadClaimed, ResumeGraph, ResumeRefused, AutoApprove,
       RunGraph21, ResumeGraph21, EndCall

(* A cancellation under way saw a thread that had not ended; reads are the only
   steps that begin one. *)
CancelsLive ==
    \A c \in Callers :
        thread.graph = "v20" /\ call[c].pc = "looked" /\ call[c].op = "cancel"
            => call[c].row.status \notin Terminal

MovesOn(c) ==
    /\ \A d \in Callers \ {c} : call'[d] = call[d]
    /\ \/ call'[c] = call[c]
       \/ call'[c].pc # "looked"
       \/ call'[c].op # "cancel"

LEMMA MovesBy ==
    ASSUME Typed, NEW c \in Callers, NEW pc, NEW y, pc # "looked",
           \/ At(c, pc)
           \/ Done(c)
           \/ call' = [call EXCEPT ![c].pc = pc, ![c].row = y]
           \/ call' = [call EXCEPT ![c].pc = pc, ![c].target = y]
           \/ call' = call
    PROVE  MovesOn(c)
<1>1. call \in [Callers -> Calls]
  BY DEF Typed, Shapes
<1>2. CASE At(c, pc)
  BY <1>1, <1>2 DEF At, MovesOn, Calls
<1>3. CASE Done(c)
  BY <1>1, <1>3 DEF Done, NoCall, MovesOn
<1>4. CASE call' = [call EXCEPT ![c].pc = pc, ![c].row = y]
  BY <1>1, <1>4 DEF MovesOn, Calls
<1>5. CASE call' = [call EXCEPT ![c].pc = pc, ![c].target = y]
  BY <1>1, <1>5 DEF MovesOn, Calls
<1>6. CASE call' = call
  BY <1>6 DEF MovesOn
<1> QED BY <1>2, <1>3, <1>4, <1>5, <1>6

LEMMA DoneMoves == ASSUME Typed, NEW c \in Callers, Done(c) PROVE MovesOn(c)
<1>1. "idle" # "looked"
  OBVIOUS
<1> QED BY <1>1, MovesBy

LEMMA LeavesRowMoves ==
    ASSUME IInv, NEW c \in Callers, LeavesRow(c)
    PROVE  MovesOn(c) \/ LookToCancel(c)
<1> USE DEF IInv
<1>1. CASE LookAtStatus(c) \/ LookToResume(c)
  <2>1. \E op \in {"status", "resume"} : call' = [call EXCEPT ![c] =
          [NoCall EXCEPT !.op = op, !.pc = "looked", !.row = thread, !.probe = Probe(thread),
                         !.target = saved[thread.attempt].verdict]]
    BY <1>1 DEF LookAtStatus, LookToResume, Look
  <2> QED BY <2>1 DEF MovesOn, NoCall, Typed, Shapes
<1>2. CASE NothingToDraft(c)
  BY <1>2, MovesBy DEF NothingToDraft
<1>3. CASE \E D \in SUBSET Items : Draft21(c, D)
  BY <1>3, MovesBy DEF Draft21
<1>4. CASE RunGraph(c)
  BY <1>4, MovesBy DEF RunGraph
<1>5. CASE GraphFails(c) \/ GraphStops(c) \/ ResumeRefused(c) \/ EndCall(c)
  BY <1>5, MovesBy DEF GraphFails, GraphStops, ResumeRefused, EndCall
<1>6. CASE ReadClaimed(c)
  BY <1>6, MovesBy DEF ReadClaimed
<1>7. CASE ResumeGraph(c)
  BY <1>7, MovesBy DEF ResumeGraph
<1>8. CASE \E i \in Items : AutoApprove(c, i)
  BY <1>8 DEF AutoApprove, MovesOn
<1>9. CASE RunGraph21(c) \/ ResumeGraph21(c)
  <2>1. ASSUME NEW a, Settled21(c, a) PROVE MovesOn(c)
    <3>1. \E y : call' = [call EXCEPT ![c].pc = "settle", ![c].target = y]
      BY <2>1 DEF Settled21
    <3> QED BY <3>1, MovesBy
  <2>2. ASSUME Done(c) PROVE MovesOn(c)
    BY <2>2, DoneMoves
  <2> DEFINE a == call[c].row.attempt
  <2>3. Done(c) \/ Settled21(c, a)
    BY <1>9, Zenon DEF RunGraph21, ResumeGraph21
  <2> QED BY <2>1, <2>2, <2>3
<1> QED BY <1>1, <1>2, <1>3, <1>4, <1>5, <1>6, <1>7, <1>8, <1>9 DEF LeavesRow

LEMMA WritesRowMoves ==
    ASSUME IInv, NEW c \in Callers, WritesRow20(c) \/ WritesRow21(c) \/ RestoreAwaiting(c)
    PROVE  MovesOn(c)
<1> USE DEF IInv
<1>1. CASE \E graph \in Graphs : CreateThread(c, graph)
  <2> PICK graph \in Graphs : CreateThread(c, graph)
    BY <1>1
  <2> DEFINE pc == IF graph = "v20" THEN "draft" ELSE "begin"
  <2>1. call' = [call EXCEPT ![c] = [NoCall EXCEPT !.op = "start", !.pc = pc]]
    BY DEF CreateThread
  <2>2. pc # "looked"
    OBVIOUS
  <2> HIDE DEF pc
  <2> QED BY <2>1, <2>2 DEF NoCall, MovesOn, Typed, Shapes
<1>2. CASE ClaimLease(c)
  BY <1>2 DEF ClaimLease, MovesOn, Typed, Shapes, Calls
<1>3. CASE \E D \in SUBSET Items : PersistDraft(c, D)
  BY <1>3, MovesBy DEF PersistDraft
<1>4. CASE \E next \in {"draft", "fail", "idle"} : DraftFails(c, next)
  <2> PICK next \in {"draft", "fail", "idle"} : DraftFails(c, next)
    BY <1>4
  <2>1. CASE next = "idle"
    <3>1. Done(c)
      BY <2>1 DEF DraftFails
    <3> QED BY <3>1, MovesBy
  <2>2. CASE next # "idle"
    <3>1. At(c, next)
      BY <2>2 DEF DraftFails
    <3> QED BY <2>2, <3>1, MovesBy
  <2> QED BY <2>1, <2>2
<1>5. CASE \/ MarkFailed(c) \/ FinishInitial(c) \/ MarkCheckpointFailed(c) \/ Reconcile(c)
           \/ ClaimRefused(c) \/ FinishResume(c) \/ Cancel(c) \/ RestoreAwaiting(c)
           \/ Settle21(c) \/ Reconcile21(c) \/ Cancel21(c)
           \/ \E status \in {"failed", "checkpoint_failed"} : Fail21(c, status)
  <2>1. Done(c)
    BY <1>5 DEF MarkFailed, FinishInitial, MarkCheckpointFailed, Reconcile, ClaimRefused,
                FinishResume, Cancel, RestoreAwaiting, Settle21, Reconcile21, Cancel21, Fail21
  <2> QED BY <2>1, DoneMoves
<1>6. CASE EnsureCheckpointPending(c) \/ RotateAttempt(c) \/ Begin21(c)
  <2>1. call' = [call EXCEPT ![c].pc = "invoke", ![c].row = thread']
    BY <1>6 DEF EnsureCheckpointPending, RotateAttempt, Begin21
  <2> QED BY <2>1, MovesBy
<1>7. CASE FailCheckpoint(c)
  BY <1>7 DEF FailCheckpoint, Looked, Running, MovesOn, Typed, Shapes, Calls
<1>8. CASE ClaimResume(c) \/ ClaimResume21(c)
  BY <1>8, MovesBy DEF ClaimResume, ClaimResume21
<1>9. CASE \E D \in SUBSET Items : PersistPart(c, D)
  BY <1>9, DoneMoves DEF PersistPart
<1> QED BY <1>1, <1>2, <1>3, <1>4, <1>5, <1>6, <1>7, <1>8, <1>9 DEF WritesRow20, WritesRow21

LEMMA WriteKeepsGraph ==
    ASSUME Typed, NEW s, NEW x,
           \/ Bump(thread, s)
           \/ Bump([thread EXCEPT !.lease = x], s)
           \/ Bump([thread EXCEPT !.confirmed = TRUE], s)
           \/ Bump([thread EXCEPT !.cancelled = TRUE], s)
           \/ Bump([thread EXCEPT !.attempt = @ + 1, !.confirmed = FALSE], s)
           \/ Set(s, TRUE)
           \/ Set(s, FALSE)
           \/ thread' = [thread EXCEPT !.status = "cancelled", !.cancelled = TRUE]
    PROVE  thread'.graph = thread.graph
<1>1. thread \in Rows
  BY DEF Typed, Shapes
<1>2. CASE Bump(thread, s)
  BY <1>1, <1>2 DEF Bump, Rows
<1>3. CASE Bump([thread EXCEPT !.lease = x], s)
  BY <1>1, <1>3 DEF Bump, Rows
<1>4. CASE Bump([thread EXCEPT !.confirmed = TRUE], s)
  BY <1>1, <1>4 DEF Bump, Rows
<1>5. CASE Bump([thread EXCEPT !.cancelled = TRUE], s)
  BY <1>1, <1>5 DEF Bump, Rows
<1>6. CASE Bump([thread EXCEPT !.attempt = @ + 1, !.confirmed = FALSE], s)
  BY <1>1, <1>6 DEF Bump, Rows
<1>7. CASE Set(s, TRUE) \/ Set(s, FALSE)
  BY <1>1, <1>7 DEF Set, Rows
<1>8. CASE thread' = [thread EXCEPT !.status = "cancelled", !.cancelled = TRUE]
  BY <1>1, <1>8 DEF Rows
<1> QED BY <1>2, <1>3, <1>4, <1>5, <1>6, <1>7, <1>8

LEMMA GraphStays ==
    ASSUME IInv, [Next]_vars
    PROVE  thread'.graph = thread.graph \/ \A c \in Callers : call[c].pc = "idle"
<1> USE DEF IInv
<1>1. CASE UNCHANGED thread
  BY <1>1
<1>2. CASE \E c \in Callers : WritesRow20(c) \/ RestoreAwaiting(c)
  <2> PICK c \in Callers : WritesRow20(c) \/ RestoreAwaiting(c)
    BY <1>2
  <2>1. CASE \E graph \in Graphs : CreateThread(c, graph)
    BY <2>1 DEF CreateThread, Phase
  <2>2. CASE \/ MarkFailed(c) \/ MarkCheckpointFailed(c) \/ FailCheckpoint(c) \/ ClaimResume(c)
             \/ ClaimRefused(c) \/ FinishResume(c) \/ RestoreAwaiting(c)
             \/ EnsureCheckpointPending(c)
    <3>1. UNCHANGED thread \/ \E s : Bump(thread, s)
      BY <2>2 DEF MarkFailed, MarkCheckpointFailed, FailCheckpoint, ClaimResume, ClaimRefused,
                  FinishResume, RestoreAwaiting, EnsureCheckpointPending
    <3> QED BY <3>1, WriteKeepsGraph
  <2>3. CASE \/ ClaimLease(c) \/ (\E D \in SUBSET Items : PersistDraft(c, D) \/ PersistPart(c, D))
             \/ \E next \in {"draft", "fail", "idle"} : DraftFails(c, next)
    <3>1. UNCHANGED thread \/ \E s, x : Bump([thread EXCEPT !.lease = x], s)
      <4>1. CASE ClaimLease(c)
        BY <4>1 DEF ClaimLease
      <4>2. CASE \E D \in SUBSET Items : PersistDraft(c, D) \/ PersistPart(c, D)
        BY <4>2 DEF PersistDraft, PersistPart
      <4>3. CASE \E next \in {"draft", "fail", "idle"} : DraftFails(c, next)
        BY <4>3 DEF DraftFails
      <4> QED BY <2>3, <4>1, <4>2, <4>3
    <3> QED BY <3>1, WriteKeepsGraph
  <2>4. CASE FinishInitial(c) \/ Reconcile(c)
    <3>1. \E s : Bump([thread EXCEPT !.confirmed = TRUE], s)
      BY <2>4 DEF FinishInitial, Reconcile
    <3> QED BY <3>1, WriteKeepsGraph
  <2>5. CASE RotateAttempt(c)
    BY <2>5, WriteKeepsGraph DEF RotateAttempt
  <2>6. CASE Cancel(c)
    BY <2>6, WriteKeepsGraph DEF Cancel
  <2> QED BY <2>1, <2>2, <2>3, <2>4, <2>5, <2>6 DEF WritesRow20
<1>3. CASE \E c \in Callers : WritesRow21(c)
  <2> PICK c \in Callers : WritesRow21(c)
    BY <1>3
  <2>1. \/ \E s : Set(s, TRUE) \/ Set(s, FALSE)
        \/ thread' = [thread EXCEPT !.status = "cancelled", !.cancelled = TRUE]
    BY DEF WritesRow21, Begin21, Fail21, Settle21, Reconcile21, ClaimResume21, Cancel21
  <2> QED BY <2>1, WriteKeepsGraph
<1>4. CASE PruneCheckpoints \/ ItemSteps \/ \E c \in Callers : LeavesRow(c)
  BY <1>1, <1>4, LeavesRowUnchanged DEF PruneCheckpoints, ItemSteps, Revoke, Resolve
<1> QED BY <1>1, <1>2, <1>3, <1>4, NextIs DEF vars

LEMMA InitCancelsLive == Init => CancelsLive
BY DEF Init, CancelsLive, NoCall

LEMMA StepCancelsLive == IInv /\ CancelsLive /\ [Next]_vars => CancelsLive'
<1> SUFFICES ASSUME IInv, CancelsLive, [Next]_vars,
                    NEW c \in Callers,
                    thread'.graph = "v20", call'[c].pc = "looked", call'[c].op = "cancel"
             PROVE  call'[c].row.status \notin Terminal
  BY DEF CancelsLive
<1>1. CASE call'[c] = call[c]
  BY <1>1, GraphStays DEF CancelsLive
<1>2. CASE LookToCancel(c)
  <2>1. call'[c].row = thread /\ thread' = thread
    BY <1>2 DEF LookToCancel, Look, NoCall, IInv, Typed, Shapes
  <2> QED BY <1>2, <2>1 DEF LookToCancel
<1>3. (\E d \in Callers : MovesOn(d) \/ LookToCancel(d)) \/ UNCHANGED call
  BY NextIs, LeavesRowMoves, WritesRowMoves DEF PruneCheckpoints, ItemSteps, Revoke, Resolve, vars
<1>4. ASSUME NEW d \in Callers, MovesOn(d)
      PROVE  call'[c] = call[c]
  BY <1>4 DEF MovesOn
<1>5. ASSUME NEW d \in Callers, LookToCancel(d), d # c
      PROVE  call'[c] = call[c]
  BY <1>5 DEF LookToCancel, Look, IInv, Typed, Shapes
<1> QED BY <1>1, <1>2, <1>3, <1>4, <1>5

(* Every write of a V2.0 row is conditional on a status that is not terminal,
   but for the restoration of a claimed row. *)
LEMMA WritesNoEnd ==
    ASSUME IInv, CancelsLive, NEW c \in Callers, WritesRow20(c)
    PROVE  thread' = thread \/ thread.status \notin Terminal
<1>1. CASE \E graph \in Graphs : CreateThread(c, graph)
  BY <1>1 DEF CreateThread, Terminal
<1>2. CASE ClaimLease(c)
  BY <1>2 DEF ClaimLease, Draftable, Terminal
<1>3. CASE (\E D \in SUBSET Items : PersistDraft(c, D) \/ PersistPart(c, D))
            \/ \E next \in {"draft", "fail", "idle"} : DraftFails(c, next)
  BY <1>3 DEF PersistDraft, PersistPart, DraftFails, HoldsLease, Terminal
<1>4. CASE MarkFailed(c) \/ MarkCheckpointFailed(c) \/ ClaimRefused(c)
  BY <1>4 DEF MarkFailed, MarkCheckpointFailed, ClaimRefused, MayMark
<1>5. CASE EnsureCheckpointPending(c) \/ FinishInitial(c) \/ FinishResume(c)
  BY <1>5 DEF EnsureCheckpointPending, FinishInitial, FinishResume, Terminal
<1>6. CASE Reconcile(c) \/ FailCheckpoint(c) \/ RotateAttempt(c) \/ ClaimResume(c)
  BY <1>6 DEF Reconcile, FailCheckpoint, RotateAttempt, ClaimResume, Unmoved, Terminal
<1>7. CASE Cancel(c)
  BY <1>7 DEF Cancel, Looked, Running, Unmoved, CancelsLive
<1> QED BY <1>1, <1>2, <1>3, <1>4, <1>5, <1>6, <1>7 DEF WritesRow20

LEMMA StepFinal ==
    ASSUME IInv, CancelsLive, [Next]_vars, thread.graph = "v20", thread.status \in Terminal
    PROVE  \/ thread'.status = thread.status
           \/ /\ \E c \in Callers : call[c].pc = "restore" /\ Unmoved(c)
              /\ thread'.status = "awaiting_human_review"
<1>1. CASE \E c \in Callers : RestoreAwaiting(c)
  <2> PICK c \in Callers : RestoreAwaiting(c)
    BY <1>1
  <2>1. thread'.status = "awaiting_human_review"
    BY RowAfter DEF RestoreAwaiting, Statuses, IInv, Typed, Shapes
  <2> QED BY <2>1 DEF RestoreAwaiting, Running
<1>2. CASE \E c \in Callers : WritesRow20(c)
  BY <1>2, WritesNoEnd
<1>3. CASE \E c \in Callers : WritesRow21(c)
  BY <1>3 DEF WritesRow21, Begin21, Fail21, Settle21, Reconcile21, ClaimResume21, Cancel21,
              Looked, Running
<1>4. CASE PruneCheckpoints \/ ItemSteps \/ UNCHANGED vars \/ \E c \in Callers : LeavesRow(c)
  BY <1>4, LeavesRowUnchanged DEF PruneCheckpoints, ItemSteps, Revoke, Resolve, vars
<1> QED BY <1>1, <1>2, <1>3, <1>4, NextIs

(* A V2.0 thread that ended stays as it ended, whatever callers that read it
   before still write, but for the restoration of a claim that was read after
   the end (_cas_status, _mark_status, _restore_after_resume_failure). *)
THEOREM EndsAreFinal == Spec => TerminalIsFinal
<1>1. IInv /\ CancelsLive /\ [Next]_vars => CancelsLive'
  BY StepCancelsLive
<1>2. IInv /\ CancelsLive /\ [Next]_vars =>
        [thread.graph = "v20" /\ thread.status \in Terminal =>
           \/ thread'.status = thread.status
           \/ /\ \E c \in Callers : call[c].pc = "restore" /\ Unmoved(c)
              /\ thread'.status = "awaiting_human_review"]_vars
  BY StepFinal
<1>3. Spec => []CancelsLive
  BY <1>1, AlwaysInv, InitCancelsLive, PTL DEF Spec
<1> QED BY <1>2, <1>3, AlwaysInv, PTL DEF Spec, TerminalIsFinal

LEMMA StepNoDraft ==
    ASSUME IInv, [Next]_vars, thread.cancelled, NEW i \in Items, item[i] = "absent"
    PROVE  item'[i] = "absent"
<1>1. CASE UNCHANGED item
  BY <1>1
<1>2. CASE \E c \in Callers, D \in SUBSET Items : PersistDraft(c, D) \/ PersistPart(c, D)
  BY <1>2 DEF PersistDraft, PersistPart, HoldsLease, IInv, Phase
<1>3. CASE \E c \in Callers, D \in SUBSET Items : Draft21(c, D)
  BY <1>3 DEF Draft21
<1>4. CASE \E j \in Items : \E s : item[j] # "absent" /\ item' = [item EXCEPT ![j] = s]
  BY <1>4 DEF IInv, Typed, Shapes
<1>5. CASE ItemSteps
  BY <1>4, <1>5 DEF ItemSteps, Revoke, Resolve
<1>6. CASE \E c \in Callers : LeavesRow(c)
  <2> PICK c \in Callers : LeavesRow(c)
    BY <1>6
  <2>1. CASE \E j \in Items : AutoApprove(c, j)
    BY <1>4, <2>1 DEF AutoApprove
  <2>2. CASE \E D \in SUBSET Items : Draft21(c, D)
    BY <1>3, <2>2
  <2>3. (\E j \in Items : AutoApprove(c, j)) \/ (\E D \in SUBSET Items : Draft21(c, D))
        \/ UNCHANGED item
    BY DEF LeavesRow, NothingToDraft, RunGraph, GraphFails, GraphStops, LookAtStatus,
           LookToResume, LookToCancel, Look, ReadClaimed, ResumeGraph, ResumeRefused,
           RunGraph21, ResumeGraph21, EndCall
  <2> QED BY <1>1, <2>1, <2>2, <2>3
<1>7. CASE \E c \in Callers : WritesRow20(c) \/ WritesRow21(c) \/ RestoreAwaiting(c)
  <2> PICK c \in Callers : WritesRow20(c) \/ WritesRow21(c) \/ RestoreAwaiting(c)
    BY <1>7
  <2>1. CASE \/ \E graph \in Graphs : CreateThread(c, graph)
             \/ ClaimLease(c)
             \/ \E next \in {"draft", "fail", "idle"} : DraftFails(c, next)
             \/ MarkFailed(c) \/ EnsureCheckpointPending(c)
    <3>1. UNCHANGED item
      BY <2>1 DEF CreateThread, ClaimLease, DraftFails, MarkFailed,
                  EnsureCheckpointPending
    <3> QED BY <1>1, <3>1, Zenon
  <2>6. CASE \/ FinishInitial(c) \/ MarkCheckpointFailed(c)
             \/ Reconcile(c) \/ FailCheckpoint(c)
    <3>1. UNCHANGED item
      BY <2>6 DEF FinishInitial, MarkCheckpointFailed, Reconcile, FailCheckpoint
    <3> QED BY <1>1, <3>1, Zenon
  <2>2. CASE \/ RotateAttempt(c) \/ ClaimResume(c) \/ ClaimRefused(c)
             \/ FinishResume(c) \/ Cancel(c)
    <3>1. UNCHANGED item
      BY <2>2 DEF RotateAttempt, ClaimResume, ClaimRefused, FinishResume, Cancel
    <3> QED BY <1>1, <3>1, Zenon
  <2>3. CASE \/ Begin21(c)
             \/ \E status \in {"failed", "checkpoint_failed"} : Fail21(c, status)
             \/ Settle21(c) \/ Reconcile21(c) \/ ClaimResume21(c) \/ Cancel21(c)
             \/ RestoreAwaiting(c)
    <3>1. UNCHANGED item
      BY <2>3 DEF Begin21, Fail21, Settle21, Reconcile21, ClaimResume21, Cancel21,
                  RestoreAwaiting
    <3> QED BY <1>1, <3>1, Zenon
  <2>4. CASE \E D \in SUBSET Items : PersistDraft(c, D) \/ PersistPart(c, D)
    BY <1>2, <2>4
  <2>5. CASE WritesRow20(c)
    BY <2>1, <2>2, <2>4, <2>5, <2>6 DEF WritesRow20
  <2> QED BY <2>3, <2>5, Zenon DEF WritesRow21
<1> QED BY <1>1, <1>5, <1>6, <1>7, NextIs DEF PruneCheckpoints, vars

(* After a cancellation no candidate appears any more, whatever draft is still
   under way in a caller (_persist_results, the coordinator's guard). *)
THEOREM CancelledThreadsDraftNothing == Spec => NoDraftAfterCancel
<1>1. IInv /\ [Next]_vars =>
        [thread.cancelled => \A i \in Items : item[i] = "absent" => item'[i] = "absent"]_vars
  BY StepNoDraft
<1> QED BY <1>1, AlwaysInv, PTL DEF Spec, NoDraftAfterCancel

-----------------------------------------------------------------------------
(* A decision is not lost.  In the first attempt of a V2.0 thread the checkpoint *)
(* names the version it waits at, one more is the status a resume may claim, so *)
(* at most one resume claims it; nothing gives the thread back to reviewers     *)
(* while that claim lives, and once the graph ended nobody can.                 *)

First == thread.graph = "v20" /\ thread.attempt = 1

Author(c) == call[c].pc \in {"draft", "drafting", "begin", "invoke"}

Claimant(c) == call[c].pc \in {"claimed", "resume", "restore", "settle"}

Waits == saved[1].at \in {"paused", "broken"}

(* What the caller read of the row is out of date. *)
Behind(c) ==
    \/ call[c].row.version < thread.version
    \/ call[c].row.version = thread.version /\ call[c].row.status # thread.status

Opening ==
    thread.graph = "v20" =>
        /\ thread.status \in {"created", "drafting"} =>
              /\ thread.attempt = 1 /\ NoneSaved
              /\ \A c \in Callers :
                    call[c].pc \in {"idle", "looked", "draft", "drafting", "fail", "begin"}
        /\ \A c \in Callers : call[c].pc \in {"draft", "drafting", "begin"} => thread.attempt = 1

Authoring ==
    \A c \in Callers : Author(c) =>
        thread.status \in Early /\ NoneSaved /\ \A d \in Callers \ {c} : Quiet(d)

Resolved ==
    \A c \in Callers :
        (\/ Claimant(c)
         \/ /\ call[c].pc = "looked" /\ call[c].op = "resume"
            /\ call[c].row.status = "awaiting_human_review")
            => Pending = {}

OneClaim ==
    /\ \A c, d \in Callers : Claimant(c) /\ Claimant(d) => c = d
    /\ Waits =>
          /\ thread.status = "checkpoint_pending" => thread.version = saved[1].version
          /\ \A c \in Callers : Claimant(c) =>
                /\ thread.version >= saved[1].version + 2
                /\ thread.status = "checkpoint_failed" => thread.version >= saved[1].version + 3
                /\ thread.status # "awaiting_human_review"
    /\ \A c \in Callers : Claimant(c) => Waits \/ saved[1].at = "ended"

Readings ==
    \A c \in Callers :
        /\ call[c].pc # "idle" => call[c].row.attempt = 1
        /\ call[c].pc = "looked" /\ call[c].probe = "paused" =>
              \/ Waits /\ ExpectedVersion(call[c].row) = saved[1].version
              \/ saved[1].at = "ended" /\ Behind(c)

Settled ==
    /\ \A c \in Callers : call[c].pc = "settle" => call[c].target \in Verdicts
    /\ saved[1].at = "ended" =>
          /\ thread.status # "awaiting_human_review"
          /\ \A c \in Callers :
                /\ call[c].pc \notin {"claimed", "resume", "restore"}
                /\ call[c].pc = "finish" /\ thread.status = "checkpoint_pending"
                      => call[c].target # "awaiting_human_review"

FirstOK == Authoring /\ Resolved /\ OneClaim /\ Readings /\ Settled

Recovery == Opening /\ (First => FirstOK)

LEMMA InitRecovery == Init => Recovery
BY DEF Init, NoThread, NoCall, NoCheckpoint, Recovery, Opening, First, FirstOK, Authoring, Resolved,
       OneClaim, Readings, Settled, Author, Claimant, Waits, Attempts, NoneSaved

LEMMA FirstAttempt == 1 \in Attempts
BY WorkflowAssumption DEF Attempts

(* In a later attempt there is nothing to keep but that the opening is over. *)
LEMMA LaterKeeps ==
    ASSUME IInv, Recovery, NEW c \in Callers, CallOK(c),
           thread.graph = "v20", thread'.graph = "v20", thread'.attempt # 1,
           call'[c].pc \notin {"draft", "drafting", "begin"},
           thread'.status \notin {"created", "drafting"},
           \A d \in Callers \ {c} : call[d].pc \notin {"draft", "drafting", "begin"}
    PROVE  Recovery'
BY DEF Recovery, Opening, First, CallOK

(* The author of the first draft writes over no checkpoint. *)
LEMMA AuthorKeeps ==
    ASSUME IInv, Recovery, First, NEW c \in Callers, Author(c), CallOK(c),
           thread'.graph = "v20", thread'.attempt = 1, thread'.status \in Early,
           NoneSaved',
           call'[c].pc \in {"idle", "draft", "drafting", "fail", "begin", "invoke", "mark"},
           call'[c].pc # "idle" => call'[c].row.attempt = 1,
           thread'.status \in {"created", "drafting"} => call'[c].pc \notin {"invoke", "mark"}
    PROVE  Recovery'
<1>1. \A d \in Callers \ {c} : Quiet(d) /\ call'[d] = call[d]
  BY DEF Recovery, FirstOK, Authoring, CallOK
<1>2. \A d \in Callers \ {c} : Quiet(d)' /\ ~Author(d)'
  BY <1>1 DEF Quiet, Author
<1>3. Opening'
  BY <1>1 DEF Opening, Quiet
<1>4. Authoring'
  BY <1>2 DEF Authoring
<1>5. \A d \in Callers : ~Claimant(d)' /\ call'[d].pc # "finish"
         /\ ~(call'[d].pc = "looked" /\ call'[d].op = "resume")
         /\ ~(call'[d].pc = "looked" /\ call'[d].probe = "paused")
  BY <1>1 DEF Claimant, Quiet
<1>6. saved'[1].at = "none"
  BY FirstAttempt DEF NoneSaved
<1>7. \A d \in Callers : call'[d].pc # "idle" => call'[d].row.attempt = 1
  BY <1>1 DEF Recovery, FirstOK, Readings
<1>8. Resolved' /\ OneClaim' /\ Readings' /\ Settled'
  BY <1>5, <1>6, <1>7 DEF Resolved, OneClaim, Readings, Settled, Waits, Claimant
<1> QED BY <1>3, <1>4, <1>8 DEF Recovery, FirstOK

LEMMA Numbers ==
    ASSUME Typed
    PROVE  /\ thread \in Rows /\ thread.version \in Nat /\ thread.attempt \in Attempts
           /\ \A a \in Attempts : saved[a].version \in Nat
           /\ \A c \in Callers : call[c].row \in Rows /\ call[c].row.version \in Nat
                                 /\ call[c].row.attempt \in Attempts
           /\ saved[1].version \in Nat
<1>1. thread \in Rows /\ \A c \in Callers : call[c].row \in Rows
  BY DEF Typed, Shapes, Calls
<1>2. \A row \in Rows : row.version \in Nat /\ row.attempt \in Attempts
  BY WorkflowAssumption DEF Rows
<1>3. \A a \in Attempts : saved[a].version \in Nat
  BY WorkflowAssumption DEF Typed, Shapes, Saves
<1> QED BY <1>1, <1>2, <1>3, FirstAttempt

(* What a reading expects of the checkpoint is not far behind the row. *)
LEMMA ExpectedIs ==
    ASSUME NEW row \in Rows
    PROVE  /\ row.status = "checkpoint_pending" => ExpectedVersion(row) = row.version
           /\ row.status = "awaiting_human_review" => ExpectedVersion(row) = row.version - 1
           /\ row.status = "checkpoint_failed" =>
                 ExpectedVersion(row) \in {row.version - 1, row.version - 2}
           /\ row.status \notin {"checkpoint_pending", "awaiting_human_review", "checkpoint_failed"}
                 => ExpectedVersion(row) = -1
BY DEF ExpectedVersion

LEMMA NoAuthor ==
    ASSUME Recovery, First, NEW c \in Callers, ~Quiet(c), ~Author(c)
    PROVE  \A d \in Callers : ~Author(d)
BY DEF Recovery, FirstOK, Authoring

(* A caller writes the row once more and leaves. *)
LEMMA WriteLeavesKeeps ==
    ASSUME IInv, Recovery, NEW c \in Callers, thread.graph = "v20",
           call[c].pc \notin {"idle", "draft", "drafting", "begin", "invoke"}, Done(c),
           thread'.graph = "v20", thread'.attempt = thread.attempt,
           thread'.version = thread.version + 1,
           thread'.status \notin {"created", "drafting", "checkpoint_pending"},
           Quiet(c) => thread'.status = "cancelled",
           First /\ thread'.status = "awaiting_human_review" =>
              /\ saved[1].at # "ended"
              /\ \A d \in Callers \ {c} : ~Claimant(d),
           UNCHANGED <<item, saved>>
    PROVE  Recovery'
<1>1. CallOK(c) /\ call'[c] = NoCall /\ NoCall.pc = "idle"
  BY Ends DEF IInv, NoCall
<1>2. \A d \in Callers \ {c} : call'[d] = call[d]
  BY <1>1 DEF CallOK
<1>3. CASE thread.attempt # 1
  BY <1>1, <1>3, LaterKeeps DEF Recovery, Opening
<1>4. CASE thread.attempt = 1
  <2> USE <1>1, <1>2, Numbers DEF IInv
  <2>1. First /\ FirstOK
    BY <1>4 DEF First, Recovery
  <2>2. Opening'
    BY <1>4 DEF Recovery, Opening
  <2>3. Authoring'
    <3>1. CASE Quiet(c)
      BY <2>1, <3>1 DEF FirstOK, Authoring, Author, Early, NoneSaved, Quiet
    <3>2. CASE ~Quiet(c)
      BY <2>1, <3>2, NoAuthor DEF Author, Authoring
    <3> QED BY <3>1, <3>2
  <2>4. Resolved'
    BY <2>1 DEF FirstOK, Resolved, Claimant, Pending
  <2>5. OneClaim'
    BY <2>1 DEF FirstOK, OneClaim, Claimant, Waits
  <2>6. Readings'
    BY <2>1 DEF FirstOK, Readings, Waits, Behind
  <2>7. Settled'
    BY <2>1 DEF FirstOK, Settled
  <2> QED BY <2>2, <2>3, <2>4, <2>5, <2>6, <2>7 DEF Recovery, FirstOK
<1> QED BY <1>3, <1>4

(* A caller leaves, or takes a step that only it can see. *)
LEMMA StepAsideKeeps ==
    ASSUME IInv, Recovery, NEW c \in Callers, CallOK(c), UNCHANGED <<thread, item, saved>>,
           thread.graph = "v20", call[c].pc # "idle",
           \/ call'[c].pc = "idle"
           \/ /\ call[c].pc \in {"invoke", "finish", "resume", "settle"}
              /\ call'[c].pc = "mark" /\ call'[c].row = call[c].row
           \/ /\ call[c].pc \in {"claimed", "resume"}
              /\ call'[c].pc \in {"resume", "restore"}
              /\ call'[c].row \in {call[c].row, thread}
    PROVE  Recovery'
<1>1. \A d \in Callers \ {c} : call'[d] = call[d]
  BY DEF CallOK
<1>2. CASE thread.attempt # 1
  BY <1>1, <1>2, LaterKeeps DEF Recovery, Opening
<1>3. CASE thread.attempt = 1
  <2> USE <1>1, Numbers DEF IInv
  <2>1. First /\ FirstOK /\ First'
    BY <1>3 DEF First, Recovery
  <2>2. Opening'
    <3>1. CASE thread.status \in {"created", "drafting"}
      <4>1. NoneSaved /\ call[c].pc \in {"looked", "draft", "drafting", "fail", "begin"}
        BY <3>1 DEF Recovery, Opening, First
      <4>2. call'[c].pc = "idle"
        BY <4>1
      <4> QED BY <1>3, <4>1, <4>2 DEF Recovery, Opening, NoneSaved
    <3>2. CASE thread.status \notin {"created", "drafting"}
      BY <1>3, <3>2 DEF Recovery, Opening
    <3> QED BY <3>1, <3>2
  <2>3. Authoring'
    <3>1. ~Author(c)'
      BY DEF Author
    <3>2. ASSUME NEW d \in Callers \ {c}, Author(d) PROVE Quiet(c) /\ Quiet(c)'
      <4>1. Quiet(c)
        BY <2>1, <3>2 DEF FirstOK, Authoring
      <4> QED BY <4>1 DEF Quiet
    <3> QED BY <2>1, <3>1, <3>2 DEF FirstOK, Authoring, Author, NoneSaved, Quiet
  <2>4. Resolved'
    BY <2>1 DEF FirstOK, Resolved, Claimant, Pending
  <2>5. OneClaim'
    BY <2>1 DEF FirstOK, OneClaim, Claimant, Waits
  <2>6. Readings'
    BY <2>1 DEF FirstOK, Readings, Waits, Behind, First
  <2>7. Settled'
    BY <2>1 DEF FirstOK, Settled
  <2> QED BY <2>1, <2>2, <2>3, <2>4, <2>5, <2>6, <2>7 DEF Recovery, FirstOK
<1> QED BY <1>2, <1>3

LEMMA CreateThreadRecovers ==
    ASSUME IInv, IInv', Recovery, NEW c \in Callers, NEW graph \in Graphs, CreateThread(c, graph)
    PROVE  Recovery'
<1> DEFINE pc == IF graph = "v20" THEN "draft" ELSE "begin"
           k == [NoCall EXCEPT !.op = "start", !.pc = pc]
<1>1. k.pc = pc /\ k.row = NoThread
  BY DEF NoCall
<1>2. call' = [call EXCEPT ![c] = k]
  BY DEF CreateThread
<1>3. pc \in {"draft", "begin"}
  OBVIOUS
<1> HIDE DEF pc, k
<1>4. call'[c] = k /\ \A d \in Callers \ {c} : call'[d].pc = "idle"
  BY <1>2 DEF IInv, Typed, Shapes, Phase, CreateThread
<1>5. NoneSaved' /\ saved'[1].at = "none"
  BY FirstAttempt DEF IInv, Phase, CreateThread, NoneSaved
<1>6. thread'.status = "created" /\ thread'.attempt = 1 /\ thread'.graph = graph
  BY DEF CreateThread, NoThread
<1>7. NoThread.attempt = 1
  BY DEF NoThread
<1>8. Opening'
  BY <1>1, <1>3, <1>4, <1>5, <1>6 DEF Opening
<1>9. Authoring'
  BY <1>1, <1>3, <1>4, <1>5, <1>6 DEF Authoring, Author, Early, Quiet
<1>10. Resolved' /\ OneClaim' /\ Readings' /\ Settled'
  BY <1>1, <1>3, <1>4, <1>5, <1>7 DEF Resolved, OneClaim, Readings, Settled, Claimant, Waits
<1> QED BY <1>8, <1>9, <1>10 DEF Recovery, FirstOK

(* The author's own steps. *)
LEMMA DraftingRecovers ==
    ASSUME IInv, Recovery, NEW c \in Callers,
           \/ ClaimLease(c) \/ NothingToDraft(c) \/ EnsureCheckpointPending(c)
           \/ \E D \in SUBSET Items : PersistDraft(c, D) \/ PersistPart(c, D)
           \/ \E next \in {"draft", "fail", "idle"} : DraftFails(c, next)
    PROVE  Recovery'
<1>1. call[c].pc \in {"draft", "drafting", "begin"} /\ thread.graph = "v20" /\ UNCHANGED saved
  BY DEF ClaimLease, NothingToDraft, EnsureCheckpointPending, PersistDraft, PersistPart, DraftFails,
         Running
<1>2. First /\ Author(c) /\ call[c].row.attempt = 1
  BY <1>1 DEF Recovery, Opening, First, Author, FirstOK, Readings
<1>3. thread.status \in Early /\ NoneSaved /\ NoneSaved'
  BY <1>1, <1>2 DEF Recovery, FirstOK, Authoring, NoneSaved
<1> USE DEF IInv
<1>4. CASE ClaimLease(c)
  <2>1. /\ CallOK(c) /\ call'[c].pc = "drafting" /\ call'[c].row = call[c].row
        /\ thread'.status = "drafting"
        /\ thread'.graph = thread.graph /\ thread'.attempt = thread.attempt
    BY <1>4, ClaimLeaseDoes
  <2> QED BY <1>2, <1>3, <2>1, AuthorKeeps DEF First, Early
<1>5. CASE NothingToDraft(c)
  <2>1. CallOK(c) /\ call'[c].pc = "begin" /\ call'[c].row = call[c].row
    BY <1>5, GoesOn DEF NothingToDraft
  <2> QED BY <1>2, <1>3, <1>5, <2>1, AuthorKeeps DEF First, NothingToDraft
<1>6. CASE EnsureCheckpointPending(c)
  <2>1. /\ CallOK(c) /\ call'[c].pc = "invoke" /\ call'[c].row = thread'
        /\ thread'.graph = thread.graph /\ thread'.attempt = thread.attempt
        /\ thread'.status = "checkpoint_pending"
    BY <1>6, EnsureCheckpointPendingDoes
  <2> QED BY <1>2, <1>3, <2>1, AuthorKeeps DEF First, Early
<1>7. CASE \E D \in SUBSET Items : PersistDraft(c, D)
  <2>1. /\ CallOK(c) /\ call'[c].pc = "begin" /\ call'[c].row = call[c].row
        /\ thread'.status = "checkpoint_pending"
        /\ thread'.graph = thread.graph /\ thread'.attempt = thread.attempt
    BY <1>7, PersistDraftDoes
  <2> QED BY <1>2, <1>3, <2>1, AuthorKeeps DEF First, Early
<1>8. CASE \E D \in SUBSET Items : PersistPart(c, D)
  <2>1. /\ CallOK(c) /\ call'[c].pc = "idle" /\ thread'.status = "created"
        /\ thread'.graph = thread.graph /\ thread'.attempt = thread.attempt
    BY <1>8, PersistPartDoes
  <2> QED BY <1>2, <1>3, <2>1, AuthorKeeps DEF First, Early
<1>9. CASE \E next \in {"draft", "fail", "idle"} : DraftFails(c, next)
  <2> PICK next \in {"draft", "fail", "idle"} : DraftFails(c, next)
    BY <1>9
  <2>1. /\ CallOK(c) /\ call'[c].pc = next
        /\ next # "idle" => call'[c].row = call[c].row
        /\ thread'.graph = thread.graph /\ thread'.attempt = thread.attempt
        /\ thread'.status \in Early
    BY <1>3, DraftFailsDoes DEF Early
  <2> QED BY <1>2, <1>3, <2>1, AuthorKeeps DEF First
<1> QED BY <1>4, <1>5, <1>6, <1>7, <1>8, <1>9

(* Nothing gives the thread back to its reviewers while a claim of it lives, nor
   after its graph ended: neither an older reading nor an older finish can. *)
LEMMA ReadingIsOld ==
    ASSUME IInv, Recovery, First, NEW c \in Callers, call[c].pc = "looked",
           call[c].probe = "paused", Unmoved(c),
           call[c].row.status \in {"checkpoint_pending", "checkpoint_failed"}
    PROVE  saved[1].at # "ended" /\ \A d \in Callers : ~Claimant(d)
<1> USE Numbers DEF IInv
<1>1. ~Behind(c)
  BY DEF Unmoved, Behind
<1>2. Waits /\ ExpectedVersion(call[c].row) = saved[1].version
  BY <1>1 DEF Recovery, FirstOK, Readings
<1>3. saved[1].at # "ended"
  BY <1>2 DEF Waits
<1>4. ASSUME NEW d \in Callers, Claimant(d) PROVE FALSE
  <2>1. thread.version >= saved[1].version + 2
        /\ (thread.status = "checkpoint_failed" => thread.version >= saved[1].version + 3)
        /\ (thread.status = "checkpoint_pending" => thread.version = saved[1].version)
    BY <1>2, <1>4 DEF Recovery, FirstOK, OneClaim
  <2> QED BY <1>2, <2>1, ExpectedIs DEF Unmoved
<1> QED BY <1>3, <1>4

LEMMA WritesRecover ==
    ASSUME IInv, Recovery, NEW c \in Callers,
           \/ MarkFailed(c) \/ FinishInitial(c) \/ MarkCheckpointFailed(c) \/ Reconcile(c)
           \/ ClaimRefused(c) \/ RestoreAwaiting(c) \/ FinishResume(c) \/ Cancel(c)
    PROVE  Recovery'
<1> USE Numbers DEF IInv
<1> DEFINE Written(row, t) ==
        /\ row \in Rows /\ row.graph = thread.graph /\ row.attempt = thread.attempt
        /\ t \in Statuses \ {"created", "drafting", "checkpoint_pending"}
        /\ Bump(row, t)
        /\ Quiet(c) => t = "cancelled"
        /\ First /\ t = "awaiting_human_review" =>
              saved[1].at # "ended" /\ \A d \in Callers \ {c} : ~Claimant(d)
<1>1. thread.graph = "v20" /\ Done(c) /\ UNCHANGED <<item, saved>>
      /\ call[c].pc \notin {"idle", "draft", "drafting", "begin", "invoke"}
  BY DEF MarkFailed, FinishInitial, MarkCheckpointFailed, Reconcile, ClaimRefused,
         RestoreAwaiting, FinishResume, Cancel, Looked, Running
<1>2. ASSUME NEW row, NEW t, Written(row, t)
      PROVE  Recovery'
  <2>1. thread'.status = t /\ thread'.version = thread.version + 1
        /\ thread'.graph = thread.graph /\ thread'.attempt = thread.attempt
    BY <1>2, RowAfter
  <2> QED BY <1>1, <1>2, <2>1, WriteLeavesKeeps
<1>3. \A t : Written(thread, t) \/ Written([thread EXCEPT !.confirmed = TRUE], t)
             \/ Written([thread EXCEPT !.cancelled = TRUE], t) => Recovery'
  BY <1>2
<1>4. /\ [thread EXCEPT !.confirmed = TRUE] \in Rows
      /\ [thread EXCEPT !.confirmed = TRUE].graph = thread.graph
      /\ [thread EXCEPT !.confirmed = TRUE].attempt = thread.attempt
      /\ [thread EXCEPT !.cancelled = TRUE] \in Rows
      /\ [thread EXCEPT !.cancelled = TRUE].graph = thread.graph
      /\ [thread EXCEPT !.cancelled = TRUE].attempt = thread.attempt
  BY RowChanges DEF Rows
<1>5. CASE MarkFailed(c)
  <2>1. Written(thread, "failed")
    BY <1>5 DEF MarkFailed, Running, Quiet, Statuses, Terminal
  <2> QED BY <1>3, <2>1
<1>6. CASE MarkCheckpointFailed(c)
  <2>1. Written(thread, "checkpoint_failed")
    BY <1>6 DEF MarkCheckpointFailed, Running, Quiet, Statuses, Draftable
  <2> QED BY <1>3, <2>1
<1>7. CASE ClaimRefused(c) \/ RestoreAwaiting(c)
  <2>1. First => saved[1].at # "ended" /\ \A d \in Callers \ {c} : ~Claimant(d)
    BY <1>7 DEF ClaimRefused, RestoreAwaiting, Running, Recovery, FirstOK, OneClaim, Settled, Claimant
  <2>2. Written(thread, "awaiting_human_review")
    BY <1>7, <2>1 DEF ClaimRefused, RestoreAwaiting, Running, Quiet, Statuses
  <2> QED BY <1>3, <2>2
<1>8. CASE Cancel(c)
  <2>1. Written([thread EXCEPT !.cancelled = TRUE], "cancelled")
    BY <1>4, <1>8 DEF Cancel, Statuses, Terminal
  <2> QED BY <1>3, <2>1
<1>9. CASE FinishResume(c)
  <2>1. call[c].pc = "settle" /\ call[c].target \in Verdicts \cup {"awaiting_human_review"}
        /\ (First => call[c].target \in Verdicts)
    BY <1>9 DEF FinishResume, Running, Typed, Sound, Recovery, FirstOK, Settled
  <2>2. Written(thread, call[c].target)
    BY <1>9, <2>1 DEF FinishResume, Quiet, Statuses, Terminal, Verdicts
  <2> QED BY <1>3, <2>2
<1>10. CASE FinishInitial(c)
  <2>1. call[c].pc = "finish" /\ call[c].target \in Verdicts \cup {"awaiting_human_review"}
    BY <1>10 DEF FinishInitial, Running, Typed, Sound
  <2>2. First /\ call[c].target = "awaiting_human_review" =>
          saved[1].at # "ended" /\ \A d \in Callers \ {c} : ~Claimant(d)
    <3> SUFFICES ASSUME First, call[c].target = "awaiting_human_review"
                 PROVE  saved[1].at # "ended" /\ \A d \in Callers \ {c} : ~Claimant(d)
      OBVIOUS
    <3>1. saved[1].at # "ended"
      BY <1>10, <2>1 DEF FinishInitial, Recovery, FirstOK, Settled
    <3>2. ASSUME NEW d \in Callers, Claimant(d) PROVE FALSE
      <4>1. Waits
        BY <3>1, <3>2 DEF Recovery, FirstOK, OneClaim
      <4>2. thread.version = saved[1].version /\ thread.version >= saved[1].version + 2
        BY <1>10, <3>2, <4>1 DEF FinishInitial, Recovery, FirstOK, OneClaim
      <4> QED BY <4>2
    <3> QED BY <3>1, <3>2
  <2>3. Written([thread EXCEPT !.confirmed = TRUE], call[c].target)
    BY <1>4, <1>10, <2>1, <2>2 DEF FinishInitial, Quiet, Statuses, Terminal, Verdicts
  <2> QED BY <1>3, <2>3
<1>11. CASE Reconcile(c)
  <2>1. call[c].pc = "looked" /\ Unmoved(c) /\ call[c].probe \in {"paused", "ended"}
    BY <1>11 DEF Reconcile, Looked, Running
  <2>2. CASE call[c].probe = "paused"
    <3>1. First => saved[1].at # "ended" /\ \A d \in Callers : ~Claimant(d)
      BY <1>11, <2>1, <2>2, ReadingIsOld DEF Reconcile
    <3>2. Written([thread EXCEPT !.confirmed = TRUE], "awaiting_human_review")
      BY <1>4, <1>11, <2>1, <2>2, <3>1 DEF Reconcile, Quiet, Statuses
    <3> QED BY <1>3, <3>2
  <2>3. CASE call[c].probe = "ended"
    <3>1. call[c].target \in Verdicts
      BY <2>1, <2>3 DEF Typed, Sound
    <3>2. Written([thread EXCEPT !.confirmed = TRUE], call[c].target)
      BY <1>4, <1>11, <2>1, <2>3, <3>1 DEF Reconcile, Quiet, Statuses, Terminal, Verdicts
    <3> QED BY <1>3, <3>2
  <2> QED BY <2>1, <2>2, <2>3
<1> QED BY <1>5, <1>6, <1>7, <1>8, <1>9, <1>10, <1>11

LEMMA FailCheckpointRecovers ==
    ASSUME IInv, Recovery, NEW c \in Callers, FailCheckpoint(c)
    PROVE  Recovery'
<1> USE Numbers DEF IInv
<1>1. thread'.graph = thread.graph /\ thread'.attempt = thread.attempt
      /\ thread'.version = thread.version + 1 /\ thread'.status = "checkpoint_failed"
      /\ thread' \in Rows
  BY RowAfter DEF FailCheckpoint, Statuses, Draftable
<1>2. call[c].pc = "looked" /\ call[c].op = "resume" /\ call[c].probe = "unusable"
      /\ thread.graph = "v20" /\ UNCHANGED <<item, saved>>
  BY DEF FailCheckpoint, Looked, Running
<1>3. /\ call'[c].pc = "looked" /\ call'[c].probe = "unusable" /\ call'[c].row = thread'
      /\ \A d \in Callers \ {c} : call'[d] = call[d]
  BY <1>2 DEF FailCheckpoint, Typed, Shapes, Calls
<1>4. CallOK(c)
  <2> DEFINE k == [call[c] EXCEPT !.row = thread']
  <2>1. k \in Calls /\ k.pc = "looked" /\ k.probe = "unusable"
    BY <1>1, <1>2 DEF Typed, Shapes, Calls
  <2>2. call' = [call EXCEPT ![c] = k]
    BY DEF FailCheckpoint
  <2> HIDE DEF k
  <2> QED BY <2>1, <2>2, CallBecomes DEF Sound, Typed, Shapes
<1>5. CASE thread.attempt # 1
  BY <1>1, <1>2, <1>3, <1>4, <1>5, LaterKeeps DEF Recovery, Opening
<1>6. CASE thread.attempt = 1
  <2>1. First /\ FirstOK /\ \A d \in Callers : ~Author(d)
    BY <1>2, <1>6, NoAuthor DEF First, Recovery, Quiet, Author
  <2>2. Opening'
    BY <1>1, <1>3, <1>6 DEF Recovery, Opening
  <2>3. Authoring'
    BY <1>3, <2>1 DEF Authoring, Author
  <2>4. Resolved'
    BY <1>1, <1>2, <1>3, <2>1 DEF FirstOK, Resolved, Claimant, Pending
  <2>5. OneClaim'
    BY <1>1, <1>2, <1>3, <2>1 DEF FirstOK, OneClaim, Claimant, Waits
  <2>6. Readings'
    BY <1>1, <1>2, <1>3, <1>6, <2>1 DEF FirstOK, Readings, Waits, Behind
  <2>7. Settled'
    BY <1>1, <1>2, <1>3, <2>1 DEF FirstOK, Settled
  <2> QED BY <2>2, <2>3, <2>4, <2>5, <2>6, <2>7 DEF Recovery, FirstOK
<1> QED BY <1>5, <1>6

LEMMA RotateAttemptRecovers ==
    ASSUME IInv, Recovery, NEW c \in Callers, RotateAttempt(c)
    PROVE  Recovery'
<1> USE Numbers DEF IInv
<1> DEFINE row == [thread EXCEPT !.attempt = @ + 1, !.confirmed = FALSE]
<1>1. thread.attempt + 1 \in Attempts /\ thread.attempt \in Nat \ {0}
  BY WorkflowAssumption DEF RotateAttempt, Attempts
<1>2. row = [thread EXCEPT !.attempt = thread.attempt + 1, !.confirmed = FALSE]
  BY DEF Rows
<1>3. row \in Rows /\ row.graph = thread.graph /\ row.attempt = thread.attempt + 1
  BY <1>1, <1>2, RowChanges DEF Rows
<1>4. Bump(row, "checkpoint_pending") /\ "checkpoint_pending" \in Statuses
  BY DEF RotateAttempt, Statuses, Draftable
<1> HIDE DEF row
<1>5. thread' \in Rows /\ thread'.graph = thread.graph /\ thread'.status = "checkpoint_pending"
      /\ thread'.attempt # 1
  BY <1>1, <1>3, <1>4, RowAfter
<1>6. CallOK(c) /\ call'[c].pc = "invoke"
  BY <1>5, GoesOnWith DEF RotateAttempt
<1>7. thread.graph = "v20" /\ ~Quiet(c) /\ ~Author(c)
  BY DEF RotateAttempt, Looked, Running, Quiet, Author
<1>8. \A d \in Callers \ {c} : call[d].pc \notin {"draft", "drafting", "begin"}
  <2>1. CASE First
    BY <1>7, <2>1, NoAuthor DEF Author
  <2>2. CASE ~First
    BY <1>7, <2>2 DEF First, Recovery, Opening
  <2> QED BY <2>1, <2>2
<1> QED BY <1>5, <1>6, <1>7, <1>8, LaterKeeps

(* The status a resume may claim is one version past the checkpoint, so no
   other claim of it can live. *)
LEMMA ClaimResumeRecovers ==
    ASSUME IInv, Recovery, NEW c \in Callers, ClaimResume(c)
    PROVE  Recovery'
<1> USE Numbers DEF IInv
<1>1. thread'.graph = thread.graph /\ thread'.attempt = thread.attempt
      /\ thread'.version = thread.version + 1 /\ thread'.status = "resuming"
  BY RowAfter DEF ClaimResume, Statuses
<1>2. call[c].pc = "looked" /\ call[c].op = "resume" /\ call[c].probe = "paused"
      /\ call[c].row.status = "awaiting_human_review" /\ Unmoved(c)
      /\ thread.graph = "v20" /\ UNCHANGED <<item, saved>>
  BY DEF ClaimResume, Looked, Running
<1>3. CallOK(c) /\ call'[c].pc = "claimed" /\ call'[c].row = call[c].row
      /\ \A d \in Callers \ {c} : call'[d] = call[d]
  BY GoesOn DEF ClaimResume, CallOK
<1>4. CASE thread.attempt # 1
  BY <1>1, <1>2, <1>3, <1>4, LaterKeeps DEF Recovery, Opening
<1>5. CASE thread.attempt = 1
  <2>1. First /\ FirstOK /\ \A d \in Callers : ~Author(d)
    BY <1>2, <1>5, NoAuthor DEF First, Recovery, Quiet, Author
  <2>2. Waits /\ thread.version = saved[1].version + 1
    <3>1. ~Behind(c)
      BY <1>2 DEF Unmoved, Behind
    <3>2. Waits /\ ExpectedVersion(call[c].row) = saved[1].version
      BY <1>2, <2>1, <3>1 DEF FirstOK, Readings
    <3> QED BY <1>2, <3>2, ExpectedIs DEF Unmoved
  <2>3. \A d \in Callers : ~Claimant(d)
    BY <2>1, <2>2 DEF FirstOK, OneClaim
  <2>4. Opening'
    BY <1>1, <1>3, <1>5 DEF Recovery, Opening
  <2>5. Authoring'
    BY <1>3, <2>1 DEF Authoring, Author
  <2>6. Resolved'
    BY <1>2, <1>3, <2>1 DEF FirstOK, Resolved, Claimant, Pending
  <2>7. OneClaim'
    BY <1>1, <1>2, <1>3, <2>2, <2>3 DEF OneClaim, Claimant, Waits
  <2>8. Readings'
    BY <1>1, <1>2, <1>3, <2>1 DEF FirstOK, Readings, Waits, Behind
  <2>9. Settled'
    BY <1>1, <1>2, <1>3, <2>1, <2>2 DEF FirstOK, Settled, Waits
  <2> QED BY <2>4, <2>5, <2>6, <2>7, <2>8, <2>9 DEF Recovery, FirstOK
<1> QED BY <1>4, <1>5

LEMMA StepsAsideRecover ==
    ASSUME IInv, Recovery, NEW c \in Callers, thread.graph = "v20",
           ReadClaimed(c) \/ ResumeRefused(c) \/ GraphFails(c) \/ EndCall(c)
    PROVE  Recovery'
<1> USE Numbers DEF IInv
<1>1. UNCHANGED <<thread, item, saved>> /\ call[c].pc # "idle"
  BY DEF ReadClaimed, ResumeRefused, GraphFails, EndCall, Running
<1>2. CASE ReadClaimed(c)
  <2>1. CallOK(c) /\ call'[c].pc = "resume" /\ call'[c].row = thread /\ call[c].pc = "claimed"
    BY <1>2, GoesOnWith DEF ReadClaimed, Running
  <2> QED BY <1>1, <2>1, StepAsideKeeps
<1>3. CASE ResumeRefused(c)
  <2>1. CallOK(c) /\ call'[c].pc = "restore" /\ call'[c].row = call[c].row /\ call[c].pc = "resume"
    BY <1>3, GoesOn DEF ResumeRefused, Running
  <2> QED BY <1>1, <2>1, StepAsideKeeps
<1>4. CASE GraphFails(c)
  <2>1. CallOK(c) /\ call'[c].pc = "mark" /\ call'[c].row = call[c].row
        /\ call[c].pc \in {"invoke", "finish", "resume", "settle"}
    BY <1>4, GoesOn DEF GraphFails, Running
  <2> QED BY <1>1, <2>1, StepAsideKeeps
<1>5. CASE EndCall(c)
  <2>1. CallOK(c) /\ call'[c].pc = "idle"
    BY <1>5, Ends DEF EndCall, NoCall
  <2> QED BY <1>1, <2>1, StepAsideKeeps
<1> QED BY <1>2, <1>3, <1>4, <1>5

(* The first graph runs while every other caller is quiet. *)
LEMMA RunGraphRecovers ==
    ASSUME IInv, Recovery, NEW c \in Callers, RunGraph(c) \/ GraphStops(c), thread.graph = "v20"
    PROVE  Recovery'
<1> USE Numbers DEF IInv
<1> DEFINE t == IF Drafted = {} THEN "completed" ELSE "awaiting_human_review"
<1>1. call[c].pc = "invoke" /\ UNCHANGED <<thread, item>>
  BY DEF RunGraph, GraphStops, Running
<1>2. CallOK(c) /\ \/ call'[c].pc = "idle"
                   \/ /\ RunGraph(c) /\ call'[c].pc = "finish" /\ call'[c].target = t
                      /\ call'[c].row = call[c].row
  <2>1. CASE RunGraph(c)
    <3>1. call' = [call EXCEPT ![c].pc = "finish", ![c].target = t]
      BY <2>1 DEF RunGraph
    <3>2. t \in Verdicts \cup {"awaiting_human_review"}
      BY DEF Verdicts
    <3> HIDE DEF t
    <3> QED BY <2>1, <3>1, <3>2, GoesOnTo
  <2>2. CASE GraphStops(c)
    BY <2>2, Ends DEF GraphStops, NoCall
  <2> QED BY <2>1, <2>2
<1>3. \A d \in Callers \ {c} : call'[d] = call[d]
  BY <1>2 DEF CallOK
<1>4. CASE thread.attempt # 1
  BY <1>1, <1>2, <1>4, LaterKeeps DEF Recovery, Opening
<1>5. CASE thread.attempt = 1
  <2>1. First /\ FirstOK
    BY <1>5 DEF First, Recovery
  <2>2. call[c].row.attempt = 1 /\ (\A d \in Callers \ {c} : Quiet(d))
    BY <1>1, <2>1 DEF FirstOK, Readings, Authoring, Author
  <2>3. /\ RunGraph(c) => saved'[1] = IF Drafted = {} THEN Ended("completed")
                                                     ELSE Paused(thread.version)
        /\ GraphStops(c) => saved'[1].at = "partial"
    BY <2>2, FirstAttempt DEF RunGraph, GraphStops, Typed, Shapes, Saves
  <2>4. /\ saved'[1].at = "ended" => RunGraph(c) /\ t = "completed"
        /\ saved'[1].at \in {"paused", "broken"} => saved'[1].version = thread.version
    BY <2>3 DEF RunGraph, GraphStops, Running, Ended, Paused
  <2>5. \A d \in Callers : /\ ~Author(d)' /\ ~Claimant(d)'
                           /\ ~(call'[d].pc = "looked" /\ call'[d].op = "resume")
                           /\ ~(call'[d].pc = "looked" /\ call'[d].probe = "paused")
                           /\ call'[d].pc \notin {"draft", "drafting", "begin"}
                           /\ call'[d].pc = "finish" => d = c
                           /\ call'[d].pc # "idle" => call'[d].row.attempt = 1
    BY <1>2, <1>3, <2>1, <2>2 DEF Quiet, Author, Claimant, FirstOK, Readings
  <2>6. thread.status \in {"checkpoint_pending", "cancelled"}
    BY <1>1, <1>5, <2>1 DEF FirstOK, Authoring, Author, Early, Recovery, Opening
  <2>7. Opening'
    BY <1>1, <1>5, <2>6 DEF Opening
  <2>8. Authoring' /\ Resolved'
    BY <2>5 DEF Authoring, Resolved
  <2>9. OneClaim'
    BY <1>1, <2>4, <2>5 DEF OneClaim, Waits
  <2>10. Readings'
    BY <2>5 DEF Readings
  <2>11. Settled'
    BY <1>1, <1>2, <2>4, <2>5, <2>6 DEF Settled, Claimant
  <2> QED BY <2>7, <2>8, <2>9, <2>10, <2>11 DEF Recovery, FirstOK
<1> QED BY <1>4, <1>5

(* The one claim that lives ends the graph; every older reading is then out of
   date, and no claim is left that could give the thread back. *)
LEMMA ResumeGraphRecovers ==
    ASSUME IInv, Recovery, NEW c \in Callers, ResumeGraph(c)
    PROVE  Recovery'
<1> USE Numbers DEF IInv
<1> DEFINE a == call[c].row.attempt
           next == Boundary("v20", item)
<1>1. call[c].pc = "resume" /\ thread.graph = "v20" /\ UNCHANGED <<thread, item>>
      /\ saved[a].at = "paused"
  BY DEF ResumeGraph, Running
<1>2. CallOK(c) /\ call'[c].row = call[c].row /\ call'[c].pc \in {"restore", "mark", "settle"}
  <2>1. CASE thread.version # call[c].row.version
    <3>1. At(c, "restore")
      BY <2>1 DEF ResumeGraph
    <3> QED BY <3>1, GoesOn
  <2>2. CASE thread.version = call[c].row.version /\ next = "pause"
    <3>1. At(c, "mark")
      BY <2>2 DEF ResumeGraph
    <3> QED BY <3>1, GoesOn
  <2>3. CASE thread.version = call[c].row.version /\ next # "pause"
    <3>1. call' = [call EXCEPT ![c].pc = "settle", ![c].target = next]
      BY <2>3 DEF ResumeGraph
    <3>2. next \in Verdicts
      BY <2>3, BoundarySupported
    <3> HIDE DEF next
    <3> QED BY <3>1, <3>2, GoesOnTo
  <2> QED BY <2>1, <2>2, <2>3
<1>3. \A d \in Callers \ {c} : call'[d] = call[d]
  BY <1>2 DEF CallOK
<1>4. CASE thread.attempt # 1
  BY <1>1, <1>2, <1>4, LaterKeeps DEF Recovery, Opening
<1>5. CASE thread.attempt = 1
  <2>1. First /\ FirstOK /\ \A d \in Callers : ~Author(d)
    BY <1>1, <1>5, NoAuthor DEF First, Recovery, Quiet, Author
  <2>2. a = 1 /\ Waits /\ Pending = {} /\ Claimant(c)
    BY <1>1, <2>1 DEF FirstOK, Readings, Waits, Resolved, Claimant
  <2>3. /\ thread.version >= saved[1].version + 2
        /\ thread.status = "checkpoint_failed" => thread.version >= saved[1].version + 3
        /\ thread.status = "checkpoint_pending" => thread.version = saved[1].version
        /\ thread.status # "awaiting_human_review"
        /\ \A d \in Callers \ {c} : ~Claimant(d)
    BY <2>1, <2>2 DEF FirstOK, OneClaim
  <2>4. next \in Verdicts
    <3>1. next # "pause"
      BY <2>2 DEF Pending, Boundary
    <3> QED BY <3>1, BoundarySupported
  <2>5. \/ /\ call'[c].pc = "restore" /\ saved'[1].at = "broken"
           /\ saved'[1].version = saved[1].version
        \/ call'[c].pc = "settle" /\ call'[c].target = next /\ saved'[1].at = "ended"
    <3>1. CASE thread.version # call[c].row.version
      <4>1. saved' = [saved EXCEPT ![1].at = "broken"] /\ At(c, "restore")
        BY <2>2, <3>1 DEF ResumeGraph
      <4>2. call'[c].pc = "restore"
        BY <4>1 DEF At, Typed, Shapes, Calls
      <4>3. saved'[1].at = "broken" /\ saved'[1].version = saved[1].version
        BY <4>1, FirstAttempt DEF Typed, Shapes, Saves
      <4> QED BY <4>2, <4>3
    <3>2. CASE thread.version = call[c].row.version
      <4>1. next # "pause"
        BY <2>4 DEF Verdicts
      <4>2. saved' = [saved EXCEPT ![1] = Ended(next)]
            /\ call' = [call EXCEPT ![c].pc = "settle", ![c].target = next]
        BY <2>2, <3>2, <4>1 DEF ResumeGraph
      <4>3. saved'[1].at = "ended"
        BY <4>2, FirstAttempt DEF Typed, Shapes, Ended
      <4>4. call'[c].pc = "settle" /\ call'[c].target = next
        <5> HIDE DEF next
        <5> QED BY <2>4, <4>2, GoesOnTo
      <4> QED BY <4>3, <4>4
    <3> QED BY <3>1, <3>2
  <2> HIDE DEF next, a
  <2>6. Opening'
    <3>1. thread.status \notin {"created", "drafting"}
      BY <1>1 DEF Recovery, Opening
    <3> QED BY <1>1, <1>2, <1>3, <3>1, <1>5 DEF Recovery, Opening
  <2>7. Authoring'
    BY <1>2, <1>3, <2>1 DEF Authoring, Author
  <2>8. Resolved'
    BY <1>1, <1>2, <1>3, <2>1, <2>2 DEF Resolved, Pending
  <2>9. OneClaim'
    BY <1>1, <1>2, <1>3, <2>2, <2>3, <2>5 DEF OneClaim, Claimant, Waits
  <2>10. Readings'
    <3>1. \A d \in Callers : call'[d].pc # "idle" => call'[d].row.attempt = 1
      BY <1>2, <1>3, <2>1, <2>2 DEF FirstOK, Readings, a
    <3>2. ASSUME NEW d \in Callers, call'[d].pc = "looked", call'[d].probe = "paused",
                 saved'[1].at = "ended"
          PROVE  Behind(d)'
      <4>1. d # c /\ call'[d] = call[d]
        BY <1>2, <1>3, <3>2
      <4>2. ExpectedVersion(call[d].row) = saved[1].version
        BY <2>1, <2>2, <3>2, <4>1 DEF FirstOK, Readings, Waits
      <4>3. \/ call[d].row.version < thread.version
            \/ call[d].row.version = thread.version /\ call[d].row.status # thread.status
        BY <2>3, <4>2, ExpectedIs
      <4> QED BY <1>1, <4>1, <4>3 DEF Behind
    <3>3. ASSUME NEW d \in Callers, call'[d].pc = "looked", call'[d].probe = "paused",
                 saved'[1].at # "ended"
          PROVE  Waits' /\ ExpectedVersion(call'[d].row) = saved'[1].version
      <4>1. d # c /\ call'[d] = call[d]
        BY <1>2, <1>3, <3>3
      <4>2. ExpectedVersion(call[d].row) = saved[1].version
        BY <2>1, <2>2, <3>3, <4>1 DEF FirstOK, Readings, Waits
      <4> QED BY <2>5, <3>3, <4>1, <4>2 DEF Waits
    <3> QED BY <3>1, <3>2, <3>3 DEF Readings, ExpectedVersion
  <2>11. Settled'
    <3>1. \A d \in Callers : call'[d].pc = "settle" => call'[d].target \in Verdicts
      BY <1>2, <1>3, <2>1, <2>4, <2>5 DEF FirstOK, Settled
    <3>2. ASSUME saved'[1].at = "ended"
          PROVE  /\ thread'.status \notin {"awaiting_human_review", "checkpoint_pending"}
                 /\ \A d \in Callers : call'[d].pc \notin {"claimed", "resume", "restore"}
      BY <1>1, <1>2, <1>3, <2>3, <2>5, <3>2 DEF Claimant
    <3> QED BY <3>1, <3>2 DEF Settled
  <2> QED BY <2>6, <2>7, <2>8, <2>9, <2>10, <2>11 DEF Recovery, FirstOK
<1> QED BY <1>4, <1>5

(* A reading is true when it is taken, and sees nothing of a first draft. *)
LEMMA LookRecovers ==
    ASSUME IInv, Recovery, NEW c \in Callers, NEW op \in {"status", "resume", "cancel"}, Look(c, op),
           thread.graph = "v20",
           op = "resume" => \/ thread.status = "awaiting_human_review" /\ Pending = {}
                            \/ thread.status = "checkpoint_failed"
    PROVE  Recovery'
<1> USE Numbers DEF IInv
<1> DEFINE p == Probe(thread)
           t == saved[thread.attempt].verdict
           k == [NoCall EXCEPT !.op = op, !.pc = "looked", !.row = thread, !.probe = p, !.target = t]
<1>1. k.op = op /\ k.pc = "looked" /\ k.row = thread /\ k.probe = p
  BY DEF NoCall
<1>2. p = "paused" => /\ saved[thread.attempt].at = "paused"
                      /\ saved[thread.attempt].version = ExpectedVersion(thread)
  BY DEF Probe, Probe20
<1>3. saved[thread.attempt].at = "none" => p = "unusable"
  BY ProbeFinds
<1>4. call' = [call EXCEPT ![c] = k] /\ UNCHANGED <<thread, item, saved>> /\ call[c].pc = "idle"
  BY DEF Look
<1> HIDE DEF p, t, k
<1>5. call'[c] = k /\ \A d \in Callers \ {c} : call'[d] = call[d]
  BY <1>4 DEF Typed, Shapes
<1>6. Opening'
  BY <1>1, <1>4, <1>5 DEF Recovery, Opening, NoneSaved
<1>7. ASSUME First PROVE FirstOK'
  <2>1. First /\ FirstOK
    BY <1>7 DEF Recovery
  <2>2. Authoring'
    <3>1. NoneSaved /\ op # "resume" => Quiet(c)'
      BY <1>1, <1>3, <1>5 DEF NoneSaved, Quiet
    <3>2. thread.status \in Early => op # "resume"
      BY DEF Early
    <3> QED BY <1>1, <1>4, <1>5, <2>1, <3>1, <3>2 DEF FirstOK, Authoring, Author, NoneSaved, Quiet
  <2>3. Resolved'
    BY <1>1, <1>4, <1>5, <2>1 DEF FirstOK, Resolved, Claimant, Pending
  <2>4. OneClaim'
    BY <1>1, <1>4, <1>5, <2>1 DEF FirstOK, OneClaim, Claimant, Waits
  <2>5. Readings'
    <3>1. p = "paused" => Waits /\ ExpectedVersion(thread) = saved[1].version
      BY <1>2, <1>7 DEF First, Waits
    <3>2. ASSUME NEW d \in Callers \ {c}
          PROVE  /\ call'[d].pc # "idle" => call'[d].row.attempt = 1
                 /\ call'[d].pc = "looked" /\ call'[d].probe = "paused" =>
                      \/ Waits /\ ExpectedVersion(call'[d].row) = saved[1].version
                      \/ saved[1].at = "ended" /\ Behind(d)'
      BY <1>4, <1>5, <2>1, <3>2 DEF FirstOK, Readings, Behind
    <3>3. call'[c].row = thread /\ thread.attempt = 1 /\ call'[c].probe = p
      BY <1>1, <1>5, <1>7 DEF First
    <3>4. Waits' <=> Waits
      BY <1>4 DEF Waits
    <3>5. \A row : ExpectedVersion(row)' = ExpectedVersion(row')
      BY DEF ExpectedVersion
    <3> QED BY <1>4, <3>1, <3>2, <3>3, <3>4 DEF Readings, ExpectedVersion
  <2>6. Settled'
    BY <1>1, <1>4, <1>5, <2>1 DEF FirstOK, Settled
  <2> QED BY <2>2, <2>3, <2>4, <2>5, <2>6 DEF FirstOK
<1>8. First' <=> First
  BY <1>4 DEF First
<1> QED BY <1>6, <1>7, <1>8 DEF Recovery

LEMMA ItemsRecover ==
    ASSUME IInv, Recovery, ItemSteps
    PROVE  Recovery'
<1>1. UNCHANGED <<thread, saved, call>>
  BY DEF ItemSteps, Revoke, Resolve
<1>2. Pending = {} => Pending' = {}
  <2>1. \A j \in Items : item[j] # "pending_review" => item'[j] # "pending_review"
    BY DEF ItemSteps, Revoke, Resolve, IInv, Typed, Shapes
  <2> QED BY <2>1 DEF Pending
<1>3. Opening'
  BY <1>1 DEF Recovery, Opening, NoneSaved
<1>4. First' => FirstOK'
  BY <1>1, <1>2 DEF Recovery, First, FirstOK, Authoring, Author, Quiet, NoneSaved, Resolved,
     OneClaim, Claimant, Waits, Readings, Behind, Settled, ExpectedVersion
<1> QED BY <1>3, <1>4 DEF Recovery

LEMMA PruneRecovers ==
    ASSUME IInv, Recovery, PruneCheckpoints
    PROVE  Recovery'
<1> USE Numbers DEF IInv
<1>1. UNCHANGED <<thread, item, call>> /\ thread.status \in Terminal
      /\ \A c \in Callers : call[c].pc = "idle"
  BY DEF PruneCheckpoints
<1>2. First => saved'[1].at = "none"
  BY FirstAttempt DEF PruneCheckpoints, First, NoCheckpoint, Typed, Shapes
<1>3. Opening'
  BY <1>1 DEF Recovery, Opening, Terminal
<1>4. First' => FirstOK'
  BY <1>1, <1>2 DEF First, FirstOK, Authoring, Author, Resolved, OneClaim, Claimant, Waits,
     Readings, Settled
<1> QED BY <1>3, <1>4 DEF Recovery

(* A thread of V2.1 stays one, and has none of this to keep. *)
LEMMA OtherGraphRecovers ==
    ASSUME IInv, [Next]_vars, thread.graph # "v20", \E c \in Callers : call[c].pc # "idle"
    PROVE  Recovery'
BY GraphStays DEF Recovery, Opening, First

LEMMA StepRecovers == IInv /\ IInv' /\ Recovery /\ [Next]_vars => Recovery'
<1> SUFFICES ASSUME IInv, IInv', Recovery, [Next]_vars PROVE Recovery'
  OBVIOUS
<1>1. CASE UNCHANGED vars
  <2>1. Opening'
    BY <1>1 DEF vars, Recovery, Opening, NoneSaved
  <2>2. First' => FirstOK'
    BY <1>1 DEF vars, Recovery, First, FirstOK, Authoring, Author, Quiet, NoneSaved, Resolved,
       Pending, OneClaim, Claimant, Waits, Readings, Behind, Settled, ExpectedVersion
  <2> QED BY <2>1, <2>2 DEF Recovery
<1>2. CASE PruneCheckpoints \/ ItemSteps
  BY <1>2, PruneRecovers, ItemsRecover
<1>3. ASSUME NEW c \in Callers, LookAtStatus(c) \/ LookToResume(c) \/ LookToCancel(c)
      PROVE  Recovery'
  <2>1. CASE thread.graph = "v20"
    BY <1>3, <2>1, LookRecovers DEF LookAtStatus, LookToResume, LookToCancel
  <2>2. CASE thread.graph # "v20"
    <3>1. UNCHANGED thread
      BY <1>3 DEF LookAtStatus, LookToResume, LookToCancel, Look
    <3> QED BY <2>2, <3>1 DEF Recovery, Opening, First
  <2> QED BY <2>1, <2>2
<1>4. CASE \E c \in Callers : LeavesRow(c)
  <2> PICK c \in Callers : LeavesRow(c)
    BY <1>4
  <2>1. CASE thread.graph # "v20"
    <3>1. UNCHANGED thread
      BY LeavesRowUnchanged
    <3> QED BY <2>1, <3>1 DEF Recovery, Opening, First
  <2>2. CASE thread.graph = "v20"
    <3>1. ~(\E D \in SUBSET Items : Draft21(c, D)) /\ ~(\E i \in Items : AutoApprove(c, i))
          /\ ~RunGraph21(c) /\ ~ResumeGraph21(c)
      BY <2>2 DEF Draft21, AutoApprove, RunGraph21, ResumeGraph21, Running
    <3> QED BY <1>3, <2>2, <3>1, DraftingRecovers, RunGraphRecovers, ResumeGraphRecovers,
               StepsAsideRecover DEF LeavesRow
  <2> QED BY <2>1, <2>2
<1>5. CASE \E c \in Callers : WritesRow20(c) \/ RestoreAwaiting(c)
  <2> PICK c \in Callers : WritesRow20(c) \/ RestoreAwaiting(c)
    BY <1>5
  <2> QED BY CreateThreadRecovers, DraftingRecovers, WritesRecover, FailCheckpointRecovers,
             RotateAttemptRecovers, ClaimResumeRecovers DEF WritesRow20
<1>6. CASE \E c \in Callers : WritesRow21(c)
  <2>1. thread.graph # "v20" /\ \E c \in Callers : call[c].pc # "idle"
    BY <1>6 DEF WritesRow21, Begin21, Fail21, Settle21, Reconcile21, ClaimResume21, Cancel21,
                Looked, Running
  <2> QED BY <2>1, OtherGraphRecovers
<1> QED BY <1>1, <1>2, <1>4, <1>5, <1>6, NextIs

(* A decision of the graph is not lost when the process that reached it dies:
   with no call under way, a V2.0 thread whose graph ended has ended, or is in a
   status that the next status request carries over to the decision.  In the
   first attempt no resume can leave it waiting for reviewers that are done. *)
THEOREM DecisionsSurvive == Spec => []EndedGraphIsRecoverable
<1>1. IInv /\ Recovery /\ [Next]_vars /\ IInv' => Recovery'
  BY StepRecovers
<1>2. Spec => []Recovery
  BY <1>1, InitRecovery, AlwaysInv, PTL DEF Spec
<1>3. IInv /\ Recovery => EndedGraphIsRecoverable
  <2> SUFFICES ASSUME IInv, Recovery, thread.graph = "v20",
                      \A c \in Callers : call[c].pc = "idle",
                      saved[thread.attempt].at = "ended", thread.status \notin Terminal
               PROVE  \/ /\ thread.status \in {"checkpoint_pending", "resuming", "checkpoint_failed"}
                         /\ Probe20(thread) = "ended"
                      \/ thread.attempt > 1 /\ thread.status = "awaiting_human_review"
    BY DEF EndedGraphIsRecoverable
  <2> USE Numbers DEF IInv
  <2>1. thread.status \in Statuses \ {"absent", "created", "drafting"}
    <3>1. ~NoneSaved
      BY DEF NoneSaved
    <3> QED BY <3>1 DEF Rows, Phase, Recovery, Opening
  <2>2. saved[thread.attempt].verdict = Boundary("v20", item)
    <3>1. saved[thread.attempt].verdict \in Verdicts /\ Supports(saved[thread.attempt].verdict)
      BY DEF Typed, Decided
    <3> QED BY <3>1 DEF Verdicts, Supports, Boundary
  <2>3. Probe20(thread) = "ended"
    BY <2>2 DEF Probe20
  <2>4. thread.status = "awaiting_human_review" => thread.attempt # 1
    BY DEF Recovery, First, FirstOK, Settled
  <2>5. thread.attempt # 1 => thread.attempt > 1
    BY WorkflowAssumption DEF Attempts
  <2> QED BY <2>1, <2>3, <2>4, <2>5 DEF Statuses, Draftable
<1> QED BY <1>2, <1>3, AlwaysInv, PTL

=============================================================================
