----------------------------- MODULE RagRunProofs -----------------------------
(* Theorems about RagRun, for any requests, routes, prices and generations. *)
EXTENDS RagRun, TLAPS

-----------------------------------------------------------------------------
(* Type correctness. *)

RunRecords ==
    [status : {"none", "running", "complete", "failed"},
     phase : {"none", "admission", "pending", "final", "admission_only"},
     route : AllRoutes \cup {"none"}, total : Nat]

RowRecords ==
    [state : {"not_attempted", "dispatching", "terminal", "abandoned_unknown"},
     charge : Nat, outcome : {"none", "succeeded", "failed", "unknown"},
     overrun : BOOLEAN]

RequestRecords ==
    [open : BOOLEAN, bound : BOOLEAN, pending : BOOLEAN,
     receipt : [Components -> Nat]]

Grants == {"none", "active", "consumed", "refused", "retired", "dropped", "lost"}

Heard == AnswerClasses \cup {"none"}

RowPairs == [Components -> RowRecords]

LedgerType == run \in [Runs -> RunRecords] /\ row \in [Runs -> RowPairs]

MemoryType ==
    /\ request \in [Runs -> RequestRecords]
    /\ grant \in [Runs -> [Components -> Grants]]
    /\ binding \in [Runs -> [Components -> Nat]]
    /\ heard \in [Runs -> [Components -> Heard]]
    /\ guarded \in [Runs -> [Components -> BOOLEAN]]

RestType ==
    /\ file.generation \in Nat /\ safety.generation \in Nat
    /\ sends \in [Runs -> [Components -> Nat]]
    /\ bill \in [Runs -> [Components -> Nat]]

LEMMA TypeIsParts == TypeOK <=> LedgerType /\ MemoryType /\ RestType
BY DEF TypeOK, LedgerType, MemoryType, RestType, RunRecords, RowRecords, RequestRecords,
       Grants, Heard, RowPairs

LEMMA TypeIsPartsNext == TypeOK' <=> LedgerType' /\ MemoryType' /\ RestType'
BY DEF TypeOK, LedgerType, MemoryType, RestType, RunRecords, RowRecords, RequestRecords,
       Grants, Heard, RowPairs

LEMMA RowsTyped ==
    /\ NoRow \in RowRecords /\ ZeroRow \in RowRecords
    /\ NoRow # ZeroRow
    /\ NoRow.state = "not_attempted" /\ ZeroRow.state = "terminal"
    /\ NoRow.charge = 0 /\ ZeroRow.charge = 0
    /\ NoRow.outcome = "none" /\ ZeroRow.outcome = "none"
    /\ ~NoRow.overrun /\ ~ZeroRow.overrun
BY DEF NoRow, ZeroRow, RowRecords

LEMMA NoRequestTyped ==
    /\ NoRequest \in RequestRecords
    /\ ~NoRequest.open /\ ~NoRequest.pending
    /\ \A c \in Components : NoRequest.receipt[c] = 0
BY DEF NoRequest, RequestRecords

LEMMA ChargedTyped == \A rows \in RowPairs : Charged(rows) \in Nat
BY DEF Charged, RowPairs, RowRecords, Components

LEMMA InitType == Init => TypeOK
<1> SUFFICES ASSUME Init PROVE TypeOK
  OBVIOUS
<1>1. LedgerType
  BY RowsTyped DEF Init, LedgerType, NoRun, RunRecords, RowPairs
<1>2. MemoryType
  BY NoRequestTyped DEF Init, MemoryType, Grants, Heard
<1>3. RestType
  BY DEF Init, RestType
<1> QED BY <1>1, <1>2, <1>3, TypeIsParts

LEMMA ZeroedType ==
    ASSUME NEW rows \in RowPairs, NEW C
    PROVE  /\ Zeroed(rows, C) \in RowPairs
           /\ \A c \in Components : Zeroed(rows, C)[c] = IF c \in C THEN ZeroRow ELSE rows[c]
BY RowsTyped DEF Zeroed, RowPairs

LEMMA AbandonedType ==
    ASSUME NEW rows \in RowPairs
    PROVE  /\ Abandoned(rows) \in RowPairs
           /\ \A c \in Components :
                /\ rows[c].state = "dispatching" =>
                      /\ Abandoned(rows)[c].state = "abandoned_unknown"
                      /\ Abandoned(rows)[c].outcome = "unknown"
                      /\ Abandoned(rows)[c].charge = rows[c].charge
                      /\ Abandoned(rows)[c].overrun = rows[c].overrun
                /\ rows[c].state = "not_attempted" => Abandoned(rows)[c] = ZeroRow
                /\ rows[c].state \notin {"dispatching", "not_attempted"} =>
                      Abandoned(rows)[c] = rows[c]
<1> DEFINE a(c) == [rows[c] EXCEPT !.state = "abandoned_unknown", !.outcome = "unknown"]
<1>1. \A c \in Components : rows[c] \in RowRecords
  BY DEF RowPairs
<1>2. \A c \in Components : /\ a(c) \in RowRecords /\ a(c).state = "abandoned_unknown"
                            /\ a(c).outcome = "unknown" /\ a(c).charge = rows[c].charge
                            /\ a(c).overrun = rows[c].overrun
  BY <1>1 DEF RowRecords
<1>3. Abandoned(rows) = [c \in Components |->
          CASE rows[c].state = "dispatching" -> a(c)
            [] rows[c].state = "not_attempted" -> ZeroRow
            [] OTHER -> rows[c]]
  BY DEF Abandoned
<1> HIDE DEF a
<1>4. \A c \in Components :
          /\ rows[c].state = "dispatching" => Abandoned(rows)[c] = a(c)
          /\ rows[c].state = "not_attempted" => Abandoned(rows)[c] = ZeroRow
          /\ rows[c].state \notin {"dispatching", "not_attempted"} =>
                Abandoned(rows)[c] = rows[c]
  BY <1>3
<1>5. \A c \in Components : Abandoned(rows)[c] \in RowRecords
  BY <1>1, <1>2, <1>4, RowsTyped
<1>6. Abandoned(rows) \in RowPairs
  BY <1>3, <1>5 DEF RowPairs
<1> QED BY <1>2, <1>4, <1>6

LEMMA FailRunType ==
    ASSUME LedgerType, NEW r \in Runs, NEW rows \in RowPairs,
           NEW phase \in {"final", "admission_only"}, FailRun(r, rows, phase)
    PROVE  /\ LedgerType'
           /\ row'[r] = rows /\ run'[r].status = "failed" /\ run'[r].total = Charged(rows)
           /\ \A s \in Runs \ {r} : row'[s] = row[s] /\ run'[s] = run[s]
<1>1. Charged(rows) \in Nat
  BY ChargedTyped
<1>2. run[r] \in RunRecords
  BY DEF LedgerType
<1> DEFINE t == Charged(rows)
           q == [run[r] EXCEPT !.status = "failed", !.phase = phase, !.total = t]
<1>3. run' = [run EXCEPT ![r] = q]
  BY DEF FailRun
<1> HIDE DEF t
<1>4. q \in RunRecords /\ q.status = "failed" /\ q.total = t
  BY <1>1, <1>2 DEF RunRecords, t
<1> HIDE DEF q
<1>5. row' = [row EXCEPT ![r] = rows]
  BY DEF FailRun
<1> QED BY <1>3, <1>4, <1>5 DEF LedgerType, t

(* A grant that a dead request leaves behind. *)
Left(g) == CASE g \in {"active", "refused"} -> "dropped"
             [] g = "consumed" -> "lost"
             [] OTHER -> g

LEMMA EndRequestType ==
    ASSUME MemoryType, NEW r \in Runs, EndRequest(r)
    PROVE  /\ MemoryType'
           /\ request' = [request EXCEPT ![r] = NoRequest]
           /\ \A c \in Components : grant'[r][c] = Left(grant[r][c])
           /\ \A s \in Runs \ {r} : grant'[s] = grant[s]
           /\ UNCHANGED <<binding, heard, guarded>>
<1> DEFINE gs == [c \in Components |-> Left(grant[r][c])]
<1>1. grant' = [grant EXCEPT ![r] = gs] /\ request' = [request EXCEPT ![r] = NoRequest]
      /\ UNCHANGED <<binding, heard, guarded>>
  BY DEF EndRequest, Left
<1>2. \A g \in Grants : Left(g) \in Grants
  BY DEF Left, Grants
<1>3. gs \in [Components -> Grants] /\ \A c \in Components : gs[c] = Left(grant[r][c])
  BY <1>2 DEF MemoryType
<1> HIDE DEF gs
<1> QED BY <1>1, <1>3, NoRequestTyped DEF MemoryType

LEMMA SettledRowType ==
    ASSUME TypeOK, NEW r \in Runs, NEW c \in Components
    PROVE  /\ SettledRow(r, c) \in RowRecords
           /\ [row[r] EXCEPT ![c] = SettledRow(r, c)] \in RowPairs
           /\ ChargeOf(r, c, heard[r][c]) \in Nat
<1>1. bill[r][c] \in Nat /\ row[r] \in RowPairs
  BY TypeIsParts DEF RestType, LedgerType
<1>2. ChargeOf(r, c, heard[r][c]) \in Nat
  BY <1>1, RagAssumption DEF ChargeOf
<1>3. SettledRow(r, c) \in RowRecords
  BY <1>2 DEF SettledRow, RowRecords
<1> QED BY <1>1, <1>2, <1>3 DEF RowPairs

LEMMA TransitionType ==
    ASSUME RestType, NEW c \in Components, NEW state,
           Transition(c, state) \/ FileOnly(c, state) \/ RowsOnly(c)
    PROVE  /\ file'.generation \in Nat /\ safety'.generation \in Nat
           /\ file'.generation >= file.generation
           /\ Transition(c, state) => file'.generation = file.generation + 1
<1>1. /\ Moved(file, c, state).generation = file.generation + 1
      /\ Moved(safety, c, state).generation = safety.generation + 1
      /\ Moved(safety, c, "blocked_remediation").generation = safety.generation + 1
  BY DEF Moved
<1> QED BY <1>1 DEF RestType, Transition, FileOnly, RowsOnly

(* A request that forgets its ledger object, and one that keeps it. *)
LEMMA RequestType ==
    ASSUME MemoryType, NEW r \in Runs
    PROVE  /\ request[r] \in RequestRecords
           /\ [request EXCEPT ![r] = NoRequest] \in [Runs -> RequestRecords]
           /\ [request EXCEPT ![r].open = TRUE] \in [Runs -> RequestRecords]
           /\ [request EXCEPT ![r].bound = TRUE] \in [Runs -> RequestRecords]
           /\ [request EXCEPT ![r].pending = TRUE, ![r].bound = FALSE]
                 \in [Runs -> RequestRecords]
<1>1. request[r] \in RequestRecords /\ request \in [Runs -> RequestRecords]
  BY DEF MemoryType
<1>2. /\ [request[r] EXCEPT !.open = TRUE] \in RequestRecords
      /\ [request[r] EXCEPT !.bound = TRUE] \in RequestRecords
      /\ [request[r] EXCEPT !.pending = TRUE, !.bound = FALSE] \in RequestRecords
  BY <1>1 DEF RequestRecords
<1> QED BY <1>1, <1>2, NoRequestTyped

LEMMA GrantType ==
    ASSUME MemoryType, NEW r \in Runs, NEW c \in Components, NEW g \in Grants
    PROVE  [grant EXCEPT ![r][c] = g] \in [Runs -> [Components -> Grants]]
BY DEF MemoryType

LEMMA RetiredType ==
    ASSUME MemoryType, NEW r \in Runs, NEW c \in Components,
           grant' = grant \/ grant' = [grant EXCEPT ![r][c] = "retired"]
    PROVE  grant' \in [Runs -> [Components -> Grants]]
<1>1. "retired" \in Grants
  BY DEF Grants
<1>2. [grant EXCEPT ![r][c] = "retired"] \in [Runs -> [Components -> Grants]]
  BY <1>1, GrantType
<1> QED BY <1>2 DEF MemoryType

LEMMA SafePendingType ==
    ASSUME LedgerType, MemoryType, NEW r \in Runs, NEW C, SafePending(r, C)
    PROVE  /\ LedgerType'
           /\ request' \in [Runs -> RequestRecords]
           /\ row'[r] = Zeroed(row[r], C) /\ run'[r].total = Charged(row'[r])
           /\ run'[r].status = "running" /\ run'[r].phase = "pending"
           /\ run'[r].route = run[r].route
           /\ request'[r].open /\ request'[r].receipt = request[r].receipt
           /\ \A s \in Runs \ {r} : /\ row'[s] = row[s] /\ run'[s] = run[s]
                                   /\ request'[s] = request[s]
<1> DEFINE rows == Zeroed(row[r], C)
           t == Charged(rows)
           q == [run[r] EXCEPT !.phase = "pending", !.total = t]
<1>1. run[r] \in RunRecords /\ row[r] \in RowPairs
  BY DEF LedgerType
<1>2. rows \in RowPairs
  BY <1>1, ZeroedType
<1>3. t \in Nat
  BY <1>2, ChargedTyped
<1>4. run' = [run EXCEPT ![r] = q] /\ row' = [row EXCEPT ![r] = rows]
      /\ request' = [request EXCEPT ![r].pending = TRUE, ![r].bound = FALSE]
      /\ run[r].status = "running" /\ request[r].open
  BY DEF SafePending, InAdmission
<1> HIDE DEF rows
<1>t. t = Charged(rows)
  OBVIOUS
<1> HIDE DEF t
<1>5. q \in RunRecords /\ q.status = "running" /\ q.total = t /\ q.phase = "pending"
      /\ q.route = run[r].route
  BY <1>1, <1>3, <1>4 DEF RunRecords
<1> HIDE DEF q
<1>6. LedgerType'
  BY <1>2, <1>4, <1>5 DEF LedgerType
<1>7. row'[r] = rows /\ run'[r] = q
      /\ \A s \in Runs \ {r} : row'[s] = row[s] /\ run'[s] = run[s]
  BY <1>4 DEF LedgerType
<1> DEFINE p == [request[r] EXCEPT !.pending = TRUE, !.bound = FALSE]
<1>a. /\ request' = [request EXCEPT ![r] = p]
      /\ p.open /\ p.receipt = request[r].receipt
  <2>1. request[r] \in RequestRecords
    BY RequestType
  <2>2. p.open = request[r].open /\ p.receipt = request[r].receipt
    BY <2>1 DEF RequestRecords
  <2>3. request' = [request EXCEPT ![r] = p]
    BY <1>4
  <2> QED BY <1>4, <2>2, <2>3
<1>b. request' \in [Runs -> RequestRecords]
  BY <1>4, RequestType
<1> HIDE DEF p
<1>8. request' \in [Runs -> RequestRecords] /\ request'[r] = p
      /\ \A s \in Runs \ {r} : request'[s] = request[s]
  BY <1>a, <1>b DEF MemoryType
<1> QED BY <1>5, <1>6, <1>7, <1>8, <1>a, <1>t DEF rows

LEMMA FinalizeSuccessType ==
    ASSUME TypeOK, NEW r \in Runs, NEW c \in Components, finalize_success(r, c)
    PROVE  /\ LedgerType' /\ MemoryType'
           /\ row'[r][c] = SettledRow(r, c)
           /\ \A d \in Components \ {c} :
                \/ row'[r][d] = row[r][d]
                \/ row[r][d] = NoRow /\ row'[r][d] = ZeroRow
           /\ run'[r].total = Charged(row'[r]) /\ run'[r].status = run[r].status
           /\ run'[r].route = run[r].route
           /\ run'[r].phase # run[r].phase => \A d \in Components : Settled(row'[r][d])
           /\ request'[r].open
           /\ \A d \in Components \ {c} : request'[r].receipt[d] = request[r].receipt[d]
           /\ \A s \in Runs \ {r} : /\ row'[s] = row[s] /\ run'[s] = run[s]
                                   /\ request'[s] = request[s]
<1> DEFINE base == [row[r] EXCEPT ![c] = SettledRow(r, c)]
           idle == {d \in Components : row[r][d] = NoRow /\ Unused(run[r].route, d)}
           rows == Zeroed(base, idle)
           done == \A d \in Components : Settled(rows[d])
           t == Charged(rows)
           q == [run[r] EXCEPT !.total = t, !.phase = IF done THEN "pending" ELSE @]
           p == [request[r] EXCEPT !.receipt[c] = binding[r][c], !.pending = done]
<1>0. LedgerType /\ MemoryType
  BY TypeIsParts
<1>1. run[r] \in RunRecords /\ row[r] \in RowPairs /\ request[r] \in RequestRecords
  BY <1>0 DEF LedgerType, MemoryType
<1>2. base \in RowPairs /\ base[c] = SettledRow(r, c)
      /\ \A d \in Components \ {c} : base[d] = row[r][d]
  BY <1>1, SettledRowType DEF RowPairs
<1>3. row[r][c].state = "dispatching" /\ c \notin idle
  BY RowsTyped DEF finalize_success, Finalizable
<1>4. /\ row' = [row EXCEPT ![r] = rows]
      /\ run' = [run EXCEPT ![r] = q]
      /\ request' = [request EXCEPT ![r] = p]
      /\ grant' = [grant EXCEPT ![r][c] = "retired"]
      /\ UNCHANGED <<binding, heard, guarded>>
      /\ request[r].open
  BY DEF finalize_success, Finalizable
<1>5. idle \subseteq {d \in Components : row[r][d] = NoRow}
  OBVIOUS
<1> HIDE DEF base, idle
<1>6. rows \in RowPairs
      /\ \A d \in Components : rows[d] = IF d \in idle THEN ZeroRow ELSE base[d]
  BY <1>2, ZeroedType
<1>7. done \in BOOLEAN /\ (done => \A d \in Components : Settled(rows[d]))
  OBVIOUS
<1> HIDE DEF rows
<1>t. t \in Nat /\ t = Charged(rows)
  BY <1>6, ChargedTyped
<1> HIDE DEF done, t
<1>8. /\ q \in RunRecords /\ q.status = run[r].status /\ q.total = t
      /\ q.route = run[r].route /\ q.phase = IF done THEN "pending" ELSE run[r].phase
  BY <1>1, <1>7, <1>t DEF RunRecords
<1>9. binding[r][c] \in Nat
  BY <1>0 DEF MemoryType
<1>10. /\ p \in RequestRecords /\ p.open
       /\ \A d \in Components \ {c} : p.receipt[d] = request[r].receipt[d]
  BY <1>1, <1>4, <1>7, <1>9 DEF RequestRecords
<1> HIDE DEF q, p
<1>11. LedgerType' /\ row'[r] = rows /\ run'[r] = q
       /\ \A s \in Runs \ {r} : row'[s] = row[s] /\ run'[s] = run[s]
  BY <1>0, <1>4, <1>6, <1>8 DEF LedgerType
<1>12. request' \in [Runs -> RequestRecords] /\ request'[r] = p
       /\ \A s \in Runs \ {r} : request'[s] = request[s]
  BY <1>0, <1>4, <1>10 DEF MemoryType
<1>13. grant' \in [Runs -> [Components -> Grants]]
  BY <1>0, <1>4, GrantType DEF Grants
<1>14. MemoryType'
  BY <1>0, <1>4, <1>12, <1>13 DEF MemoryType
<1>15. row'[r][c] = SettledRow(r, c)
  BY <1>2, <1>3, <1>6, <1>11
<1>16. \A d \in Components \ {c} :
          \/ row'[r][d] = row[r][d]
          \/ row[r][d] = NoRow /\ row'[r][d] = ZeroRow
  BY <1>2, <1>5, <1>6, <1>11
<1>17. run'[r].phase # run[r].phase => \A d \in Components : Settled(row'[r][d])
  BY <1>7, <1>8, <1>11
<1> QED BY <1>8, <1>10, <1>11, <1>12, <1>14, <1>15, <1>16, <1>17, <1>t

LEMMA FinalizeFailureType ==
    ASSUME TypeOK, NEW r \in Runs, NEW c \in Components, finalize_failure(r, c)
    PROVE  /\ LedgerType'
           /\ row'[r][c] = SettledRow(r, c)
           /\ \A d \in Components \ {c} :
                \/ row'[r][d] = row[r][d]
                \/ row[r][d] = NoRow /\ row'[r][d] = ZeroRow
           /\ run'[r].total = Charged(row'[r]) /\ run'[r].status = "failed"
           /\ \A s \in Runs \ {r} : row'[s] = row[s] /\ run'[s] = run[s]
<1> DEFINE base == [row[r] EXCEPT ![c] = SettledRow(r, c)]
           idle == {d \in Components \ {c} : row[r][d] = NoRow}
           rows == Zeroed(base, idle)
<1>1. LedgerType /\ row[r] \in RowPairs
  BY TypeIsParts DEF LedgerType
<1>2. base \in RowPairs /\ base[c] = SettledRow(r, c)
      /\ \A d \in Components \ {c} : base[d] = row[r][d]
  BY <1>1, SettledRowType DEF RowPairs
<1>3. FailRun(r, rows, "final")
  BY DEF finalize_failure
<1>5. c \notin idle /\ \A d \in idle : row[r][d] = NoRow
  OBVIOUS
<1> HIDE DEF base, idle
<1>6. rows \in RowPairs
      /\ \A d \in Components : rows[d] = IF d \in idle THEN ZeroRow ELSE base[d]
  BY <1>2, ZeroedType
<1> HIDE DEF rows
<1>7. /\ LedgerType'
      /\ row'[r] = rows /\ run'[r].status = "failed" /\ run'[r].total = Charged(rows)
      /\ \A s \in Runs \ {r} : row'[s] = row[s] /\ run'[s] = run[s]
  BY <1>1, <1>3, <1>6, FailRunType
<1>8. row'[r][c] = SettledRow(r, c)
  BY <1>2, <1>5, <1>6, <1>7
<1>9. \A d \in Components \ {c} :
          \/ row'[r][d] = row[r][d]
          \/ row[r][d] = NoRow /\ row'[r][d] = ZeroRow
  BY <1>2, <1>5, <1>6, <1>7
<1> QED BY <1>7, <1>8, <1>9

LEMMA ClaimType ==
    ASSUME TypeOK, NEW r \in Runs, NEW c \in Components, claim_component(r, c)
    PROVE  /\ LedgerType' /\ MemoryType'
           /\ row'[r][c].state = "dispatching" /\ row'[r][c].charge = Reserve
           /\ row'[r][c].outcome = "none" /\ ~row'[r][c].overrun
           /\ \A d \in Components \ {c} : row'[r][d] = row[r][d]
           /\ run'[r].total = Charged(row'[r]) /\ run'[r].status = run[r].status
           /\ run'[r].route = run[r].route /\ run'[r].phase = run[r].phase
           /\ \A s \in Runs \ {r} : row'[s] = row[s] /\ run'[s] = run[s]
<1> DEFINE w == [row[r][c] EXCEPT !.state = "dispatching", !.charge = Reserve]
           rows == [row[r] EXCEPT ![c] = w]
           t == Charged(rows)
           q == [run[r] EXCEPT !.total = t]
<1>0. LedgerType /\ MemoryType /\ RestType
  BY TypeIsParts
<1>1. run[r] \in RunRecords /\ row[r] \in RowPairs /\ row[r][c] \in RowRecords
  BY <1>0 DEF LedgerType, RowPairs
<1>2. /\ row' = [row EXCEPT ![r] = rows]
      /\ run' = [run EXCEPT ![r] = q]
      /\ row[r][c] = NoRow
      /\ grant' = [grant EXCEPT ![r][c] = "active"]
      /\ binding' = [binding EXCEPT ![r][c] = file.generation]
      /\ UNCHANGED <<request, heard, guarded>>
  BY DEF claim_component
<1>3. /\ w \in RowRecords /\ w.state = "dispatching" /\ w.charge = Reserve
      /\ w.outcome = row[r][c].outcome /\ w.overrun = row[r][c].overrun
  BY <1>1, RagAssumption DEF RowRecords
<1> HIDE DEF w
<1>4. rows \in RowPairs /\ rows[c] = w /\ \A d \in Components \ {c} : rows[d] = row[r][d]
  BY <1>1, <1>3 DEF RowPairs
<1> HIDE DEF rows
<1>5. t \in Nat /\ t = Charged(rows)
  BY <1>4, ChargedTyped
<1> HIDE DEF t
<1>6. q \in RunRecords /\ q.status = run[r].status /\ q.total = t
      /\ q.route = run[r].route /\ q.phase = run[r].phase
  BY <1>1, <1>5 DEF RunRecords
<1> HIDE DEF q
<1>7. LedgerType' /\ row'[r] = rows /\ run'[r] = q
      /\ \A s \in Runs \ {r} : row'[s] = row[s] /\ run'[s] = run[s]
  BY <1>0, <1>2, <1>4, <1>6 DEF LedgerType
<1>8. grant' \in [Runs -> [Components -> Grants]]
  BY <1>0, <1>2, GrantType DEF Grants
<1>9. binding' \in [Runs -> [Components -> Nat]]
  BY <1>0, <1>2 DEF MemoryType, RestType
<1>10. MemoryType'
  BY <1>0, <1>2, <1>8, <1>9 DEF MemoryType
<1>11. row'[r][c] = w /\ \A d \in Components \ {c} : row'[r][d] = row[r][d]
  BY <1>4, <1>7
<1> QED BY <1>2, <1>3, <1>5, <1>6, <1>7, <1>10, <1>11, RowsTyped

LEMMA QuietLedger == LedgerType /\ UNCHANGED ledger => LedgerType'
BY DEF ledger, LedgerType

LEMMA QuietMemory == MemoryType /\ UNCHANGED memory => MemoryType'
BY DEF memory, MemoryType

LEMMA QuietRest == RestType /\ UNCHANGED <<authority, provider>> => RestType'
BY DEF authority, provider, RestType

(* A run that is failed by its own request. *)
LEMMA ForgetType ==
    ASSUME MemoryType, NEW r \in Runs, NEW c \in Components,
           request' = [request EXCEPT ![r] = NoRequest],
           \/ UNCHANGED grant
           \/ grant' = [grant EXCEPT ![r][c] = "retired"],
           UNCHANGED <<binding, heard, guarded>>
    PROVE  MemoryType'
<1>1. grant' \in [Runs -> [Components -> Grants]]
  BY RetiredType
<1>2. request' \in [Runs -> RequestRecords]
  BY RequestType
<1> QED BY <1>1, <1>2 DEF MemoryType

LEMMA AdmissionType ==
    ASSUME TypeOK, NEW r \in Runs, NEW route \in Routes, create_admission(r, route)
    PROVE  TypeOK'
<1> DEFINE q == [status |-> "running", phase |-> "admission", route |-> route, total |-> 0]
<1>0. LedgerType /\ MemoryType /\ RestType
  BY TypeIsParts
<1>1. run' = [run EXCEPT ![r] = q] /\ UNCHANGED row
      /\ request' = [request EXCEPT ![r].open = TRUE]
      /\ UNCHANGED <<grant, binding, heard, guarded, authority, provider>>
  BY DEF create_admission
<1>2. q \in RunRecords
  BY RagAssumption DEF RunRecords
<1> HIDE DEF q
<1>3. LedgerType'
  BY <1>0, <1>1, <1>2 DEF LedgerType
<1>4. MemoryType'
  BY <1>0, <1>1, RequestType DEF MemoryType
<1> QED BY <1>0, <1>1, <1>3, <1>4, QuietRest, TypeIsPartsNext

LEMMA PendingType ==
    ASSUME TypeOK, NEW r \in Runs,
           \/ commit_provider_free_pending(r)
           \/ commit_embedding_only_pending(r)
           \/ commit_answer_cache_pending(r)
           \/ commit_answer_evidence_changed_pending(r)
    PROVE  TypeOK'
<1>0. LedgerType /\ MemoryType /\ RestType
  BY TypeIsParts
<1>1. PICK C \in {Components, {Answer}} : SafePending(r, C)
  BY DEF commit_provider_free_pending, commit_embedding_only_pending,
     commit_answer_cache_pending, commit_answer_evidence_changed_pending
<1>2. LedgerType' /\ request' \in [Runs -> RequestRecords]
  BY <1>0, <1>1, SafePendingType
<1>3. grant' = grant \/ grant' = [grant EXCEPT ![r][Answer] = "retired"]
  BY DEF commit_provider_free_pending, commit_embedding_only_pending,
     commit_answer_cache_pending, commit_answer_evidence_changed_pending
<1>4. grant' \in [Runs -> [Components -> Grants]]
  BY <1>0, <1>3, RetiredType DEF Components
<1>5. UNCHANGED <<binding, heard, guarded, authority, provider>>
  BY <1>1 DEF SafePending
<1>6. MemoryType'
  BY <1>0, <1>2, <1>4, <1>5 DEF MemoryType
<1> QED BY <1>0, <1>2, <1>5, <1>6, QuietRest, TypeIsPartsNext

LEMMA CompleteType ==
    ASSUME TypeOK, NEW r \in Runs, Complete(r)
    PROVE  /\ TypeOK'
           /\ run'[r].status = "complete" /\ run'[r].total = run[r].total
           /\ \A s \in Runs \ {r} : run'[s] = run[s] /\ request'[s] = request[s]
           /\ request'[r] = NoRequest
<1>0. LedgerType /\ MemoryType /\ RestType
  BY TypeIsParts
<1> DEFINE q == [run[r] EXCEPT !.status = "complete", !.phase = "final"]
<1>1. run' = [run EXCEPT ![r] = q] /\ request' = [request EXCEPT ![r] = NoRequest]
      /\ UNCHANGED <<row, grant, binding, heard, guarded, authority, provider>>
  BY DEF Complete
<1>2. run[r] \in RunRecords
  BY <1>0 DEF LedgerType
<1>3. q \in RunRecords /\ q.status = "complete" /\ q.total = run[r].total
  BY <1>2 DEF RunRecords
<1> HIDE DEF q
<1>4. LedgerType'
  BY <1>0, <1>1, <1>3 DEF LedgerType
<1>5. MemoryType'
  BY <1>0, <1>1, RequestType DEF MemoryType
<1>6. run'[r] = q /\ request'[r] = NoRequest
      /\ \A s \in Runs \ {r} : run'[s] = run[s] /\ request'[s] = request[s]
  BY <1>0, <1>1 DEF LedgerType, MemoryType
<1> QED BY <1>0, <1>1, <1>3, <1>4, <1>5, <1>6, QuietRest, TypeIsPartsNext

(* The failures a request brings about itself. *)
LEMMA CancelType ==
    ASSUME TypeOK, NEW r \in Runs, NEW C,
           FailRun(r, Zeroed(row[r], C), "final"),
           request' = [request EXCEPT ![r] = NoRequest],
           UNCHANGED <<binding, heard, guarded, authority, provider>>,
           NEW c \in Components,
           UNCHANGED grant \/ grant' = [grant EXCEPT ![r][c] = "retired"]
    PROVE  /\ TypeOK'
           /\ row'[r] = Zeroed(row[r], C)
           /\ run'[r].status = "failed" /\ run'[r].total = Charged(row'[r])
           /\ \A s \in Runs \ {r} : row'[s] = row[s] /\ run'[s] = run[s]
<1>0. LedgerType /\ MemoryType /\ RestType
  BY TypeIsParts
<1>1. Zeroed(row[r], C) \in RowPairs
  BY <1>0, ZeroedType DEF LedgerType
<1>2. /\ LedgerType'
      /\ row'[r] = Zeroed(row[r], C) /\ run'[r].status = "failed"
      /\ run'[r].total = Charged(Zeroed(row[r], C))
      /\ \A s \in Runs \ {r} : row'[s] = row[s] /\ run'[s] = run[s]
  BY <1>0, <1>1, FailRunType
<1>3. MemoryType'
  BY <1>0, ForgetType
<1> QED BY <1>0, <1>2, <1>3, QuietRest, TypeIsPartsNext

LEMMA RecoveryType ==
    ASSUME TypeOK, NEW r \in Runs, NEW rows \in {row[r], Abandoned(row[r])},
           NEW phase \in {"final", "admission_only"}, FailRun(r, rows, phase),
           UNCHANGED <<memory, authority, provider>>
    PROVE  /\ TypeOK'
           /\ row'[r] = rows
           /\ run'[r].status = "failed" /\ run'[r].total = Charged(row'[r])
           /\ \A s \in Runs \ {r} : row'[s] = row[s] /\ run'[s] = run[s]
<1>0. LedgerType /\ MemoryType /\ RestType
  BY TypeIsParts
<1>1. rows \in RowPairs
  BY <1>0, AbandonedType DEF LedgerType
<1>2. /\ LedgerType'
      /\ row'[r] = rows /\ run'[r].status = "failed" /\ run'[r].total = Charged(rows)
      /\ \A s \in Runs \ {r} : row'[s] = row[s] /\ run'[s] = run[s]
  BY <1>0, <1>1, FailRunType
<1> QED BY <1>0, <1>2, QuietMemory, QuietRest, TypeIsPartsNext

LEMMA RequestStepType ==
    ASSUME TypeOK, NEW r \in Runs, RequestStep(r)
    PROVE  TypeOK'
<1>0. LedgerType /\ MemoryType /\ RestType
  BY TypeIsParts
<1>1. CASE \E route \in Routes : create_admission(r, route)
  BY <1>1, AdmissionType
<1>2. CASE bind_answer_budget(r)
  <2>1. MemoryType'
    BY <1>0, <1>2, RequestType DEF bind_answer_budget, MemoryType
  <2>2. UNCHANGED <<ledger, authority, provider>>
    BY <1>2 DEF bind_answer_budget
  <2> QED BY <1>0, <2>1, <2>2, QuietLedger, QuietRest, TypeIsPartsNext
<1>3. CASE defer_answer_evidence_refusal(r)
  <2>1. MemoryType'
    BY <1>0, <1>3, GrantType DEF defer_answer_evidence_refusal, MemoryType, Grants,
       Components
  <2>2. UNCHANGED <<ledger, authority, provider>>
    BY <1>3 DEF defer_answer_evidence_refusal
  <2> QED BY <1>0, <2>1, <2>2, QuietLedger, QuietRest, TypeIsPartsNext
<1>4. CASE \/ commit_provider_free_pending(r)
           \/ commit_embedding_only_pending(r)
           \/ commit_answer_cache_pending(r)
           \/ commit_answer_evidence_changed_pending(r)
  BY <1>4, PendingType
<1>5. CASE finalize_product(r) \/ finalize_shadow_run(r)
  BY <1>5, CompleteType DEF finalize_product, finalize_shadow_run
<1>6. CASE finalize_inter_component_failure(r)
  BY <1>6, CancelType DEF finalize_inter_component_failure, Components
<1>7. CASE RequestDies(r)
  <2>1. MemoryType'
    BY <1>0, <1>7, EndRequestType DEF RequestDies
  <2> QED BY <1>0, <1>7, <2>1, QuietLedger, QuietRest, TypeIsPartsNext DEF RequestDies
<1> QED BY <1>1, <1>2, <1>3, <1>4, <1>5, <1>6, <1>7 DEF RequestStep

LEMMA ComponentStepType ==
    ASSUME TypeOK, NEW r \in Runs, NEW c \in Components, ComponentStep(r, c)
    PROVE  TypeOK'
<1>0. LedgerType /\ MemoryType /\ RestType
  BY TypeIsParts
<1>1. CASE claim_component(r, c)
  BY <1>0, <1>1, ClaimType, QuietRest, TypeIsPartsNext DEF claim_component
<1>2. CASE consume_transport_grant(r, c)
  <2>1. MemoryType'
    BY <1>0, <1>2, GrantType DEF consume_transport_grant, MemoryType, Grants
  <2> QED BY <1>0, <1>2, <2>1, QuietLedger, QuietRest, TypeIsPartsNext
        DEF consume_transport_grant
<1>3. CASE Transmit(r, c)
  <2>0. \A class \in AnswerClasses : \A cost \in Costs(class) : cost \in Nat
    BY RagAssumption DEF Costs
  <2>1. PICK class \in AnswerClasses, cost \in Nat :
           /\ heard' = [heard EXCEPT ![r][c] = class]
           /\ bill' = [bill EXCEPT ![r][c] = cost]
    BY <1>3, <2>0 DEF Transmit, AnswerClasses
  <2>2. cost \in Nat
    OBVIOUS
  <2>3. MemoryType'
    BY <1>0, <1>3, <2>1 DEF Transmit, MemoryType, Heard
  <2>4. RestType'
    BY <1>0, <1>3, <2>1, <2>2 DEF Transmit, RestType, authority
  <2>5. LedgerType'
    BY <1>0, <1>3, QuietLedger DEF Transmit
  <2> QED BY <2>3, <2>4, <2>5, TypeIsPartsNext
<1>4. CASE cancel_claim_before_dispatch(r, c)
  BY <1>4, CancelType DEF cancel_claim_before_dispatch
<1>5. CASE revalidate_after_response(r, c)
  <2>1. MemoryType'
    BY <1>0, <1>5 DEF revalidate_after_response, MemoryType
  <2> QED BY <1>0, <1>5, <2>1, QuietLedger, QuietRest, TypeIsPartsNext
        DEF revalidate_after_response
<1>6. CASE block_family(r, c)
  <2>1. MemoryType'
    BY <1>0, <1>6 DEF block_family, MemoryType
  <2>2. RestType'
    BY <1>0, <1>6, TransitionType DEF block_family, RestType, provider
  <2> QED BY <1>0, <1>6, <2>1, <2>2, QuietLedger, TypeIsPartsNext DEF block_family
<1>7. CASE block_family_fails(r, c)
  <2>1. MemoryType'
    BY <1>0, <1>7, EndRequestType DEF block_family_fails
  <2>2. RestType'
    BY <1>0, <1>7, TransitionType DEF block_family_fails, RestType, provider
  <2> QED BY <1>0, <1>7, <2>1, <2>2, QuietLedger, TypeIsPartsNext DEF block_family_fails
<1>8. CASE finalize_success(r, c)
  BY <1>0, <1>8, FinalizeSuccessType, QuietRest, TypeIsPartsNext DEF finalize_success
<1>9. CASE finalize_failure(r, c)
  <2>1. MemoryType'
    BY <1>0, <1>9, ForgetType DEF finalize_failure
  <2> QED BY <1>0, <1>9, <2>1, FinalizeFailureType, QuietRest, TypeIsPartsNext
        DEF finalize_failure
<1> QED BY <1>1, <1>2, <1>3, <1>4, <1>5, <1>6, <1>7, <1>8, <1>9 DEF ComponentStep

LEMMA StepType == TypeOK /\ [Next]_vars => TypeOK'
<1> SUFFICES ASSUME TypeOK, [Next]_vars PROVE TypeOK'
  OBVIOUS
<1>0. LedgerType /\ MemoryType /\ RestType
  BY TypeIsParts
<1>1. ASSUME NEW r \in Runs, Recovery(r) PROVE TypeOK'
  <2>1. CASE recover_attested_run(r)
    BY <2>1, RecoveryType DEF recover_attested_run
  <2>2. CASE recover_shadow_run(r) \/ recover_dead_projection_owner(r)
    BY <2>2, RecoveryType DEF recover_shadow_run, recover_dead_projection_owner
  <2> QED BY <1>1, <2>1, <2>2 DEF Recovery
<1>2. ASSUME NEW c \in Components, ReviewedReset(c) PROVE TypeOK'
  <2>1. RestType'
    BY <1>0, <1>2, TransitionType DEF ReviewedReset, RestType, provider
  <2> QED BY <1>0, <1>2, <2>1, QuietLedger, QuietMemory, TypeIsPartsNext DEF ReviewedReset
<1>3. CASE UNCHANGED vars
  <2>1. UNCHANGED <<ledger, memory, authority, provider>>
    BY <1>3 DEF vars, ledger, memory, authority, provider
  <2> QED BY <1>0, <2>1, QuietLedger, QuietMemory, QuietRest, TypeIsPartsNext
<1> QED BY <1>1, <1>2, <1>3, RequestStepType, ComponentStepType DEF Next

(* Runs, component rows, requests and the safety authority keep their types, *)
(* through every claim, answer, half-done transition and recovery (TypeOK).  *)
THEOREM TypeCorrect == Spec => []TypeOK
BY InitType, StepType, PTL DEF Spec

-----------------------------------------------------------------------------
(* The inductive invariant: what a component's row, grant, answer and bill   *)
(* say of each other, what the safety generation says of an overrun, and     *)
(* what a run says of its rows.                                              *)

CompOK(r, c) ==
    LET w == row[r][c]
        g == grant[r][c]
    IN  /\ sends[r][c] \in {0, 1}
        /\ g = "none" => w = NoRow \/ w = ZeroRow
        /\ w.state = "not_attempted" => w = NoRow /\ g = "none"
        /\ sends[r][c] = 0 => heard[r][c] = "none" /\ bill[r][c] = 0
        /\ sends[r][c] = 1 => g \in {"consumed", "retired", "lost"}
        /\ g \notin {"none", "retired"} => w.state \in {"dispatching", "abandoned_unknown"}
        /\ g = "retired" => w.state = "terminal"
        /\ w.state = "dispatching" =>
              w.charge = Reserve /\ w.outcome = "none" /\ ~w.overrun
        /\ w.state = "abandoned_unknown" =>
              w.charge = Reserve /\ w.outcome = "unknown" /\ ~w.overrun
        /\ w.state = "terminal" /\ w.outcome = "none" => w = ZeroRow /\ sends[r][c] = 0
        /\ w.state = "terminal" /\ w.outcome = "succeeded" =>
              w.charge = bill[r][c] /\ sends[r][c] = 1

BindOK(r, c) ==
    /\ binding[r][c] <= file.generation
    /\ guarded[r][c] => heard[r][c] # "none"
    /\ guarded[r][c] /\ heard[r][c] = "known_overrun" => binding[r][c] < file.generation
    /\ row[r][c].overrun => binding[r][c] < file.generation

RunOK(r) ==
    /\ run[r].total = Charged(row[r])
    /\ run[r].status = "none" =>
          ~request[r].open /\ \A c \in Components : row[r][c] = NoRow
    /\ \A c \in Components : row[r][c].state = "dispatching" =>
          InAdmission(r) /\ ~Unused(run[r].route, c)
    /\ OnPgvector(r) /\ row[r][Answer].state = "dispatching" =>
          row[r][Query].outcome = "succeeded"
    /\ \A c \in Components :
          request[r].receipt[c] # 0 => row[r][c].outcome = "succeeded"
    /\ run[r].status = "complete" =>
          /\ ~request[r].open
          /\ \A c \in Components : /\ row[r][c].state = "terminal"
                                   /\ row[r][c].outcome \in {"none", "succeeded"}

AllOK(r) == RunOK(r) /\ \A c \in Components : CompOK(r, c) /\ BindOK(r, c)

IInv == TypeOK /\ \A r \in Runs : AllOK(r)

(* One component of a run without another step of it. *)
SameAt(r, d) ==
    /\ grant'[r][d] = grant[r][d]
    /\ binding'[r][d] = binding[r][d]
    /\ heard'[r][d] = heard[r][d]
    /\ guarded'[r][d] = guarded[r][d]
    /\ sends'[r][d] = sends[r][d]
    /\ bill'[r][d] = bill[r][d]

(* A row that stays, or that is closed without an attempt. *)
Kept(r, d) ==
    \/ row'[r][d] = row[r][d]
    \/ row[r][d] = NoRow /\ row'[r][d] = ZeroRow

Later == file'.generation >= file.generation

Quiet(s) ==
    /\ run'[s] = run[s] /\ row'[s] = row[s] /\ request'[s] = request[s]
    /\ \A c \in Components : SameAt(s, c)

(* Where a component stands and what it is charged, as the abstract call     *)
(* sees it.                                                                  *)
Stand(r, c) ==
    CASE grant[r][c] = "none" -> "absent"
      [] grant[r][c] \in {"active", "refused", "dropped"} ->
            IF Settled(row[r][c]) THEN "forfeited" ELSE "reserved"
      [] OTHER -> IF Settled(row[r][c]) THEN "settled" ELSE "started"

Cost(r, c) == IF Settled(row[r][c]) THEN row[r][c].charge ELSE 0

SameSend(r, c) == sends'[r][c] = sends[r][c] /\ bill'[r][c] = bill[r][c]

FaceKept(r, c) ==
    SameSend(r, c) /\ Stand(r, c)' = Stand(r, c) /\ Cost(r, c)' = Cost(r, c)

(* A component makes one step of the abstract call. *)
Move(r, c) ==
    \/ /\ Stand(r, c) = "absent" /\ Stand(r, c)' = "reserved"
       /\ SameSend(r, c) /\ Cost(r, c)' = Cost(r, c)
    \/ /\ Stand(r, c) = "reserved" /\ Stand(r, c)' = "started"
       /\ SameSend(r, c) /\ Cost(r, c)' = Cost(r, c)
    \/ /\ Stand(r, c) = "started" \/ (Stand(r, c) = "settled" /\ Cost(r, c) = Reserve)
       /\ Stand(r, c)' = Stand(r, c) /\ Cost(r, c)' = Cost(r, c)
       /\ sends[r][c] = 0 /\ sends'[r][c] = 1 /\ bill'[r][c] \in Nat
    \/ /\ \/ Stand(r, c) = "reserved" /\ Cost(r, c)' = 0
          \/ Stand(r, c) = "started" /\ Cost(r, c)' = Reserve
          \/ /\ Stand(r, c) = "started" /\ sends[r][c] = 1
             /\ Cost(r, c)' = bill[r][c]
       /\ Stand(r, c)' = "settled" /\ SameSend(r, c)
    \/ /\ Stand(r, c) = "reserved" /\ Stand(r, c)' = "forfeited"
       /\ Cost(r, c)' = Reserve /\ SameSend(r, c)

(* What a step may do to a run: nothing to a closed one, no send under a     *)
(* generation that is gone, and one step of one component at most.           *)
Closed(r) ==
    run[r].status \in {"complete", "failed"} => run'[r] = run[r] /\ row'[r] = row[r]

Fresh(r) ==
    \A c \in Components : grant'[r][c] = "consumed" =>
        grant[r][c] = "consumed" \/ binding[r][c] = file.generation

OneMoves(r) ==
    \/ \A c \in Components : FaceKept(r, c)
    \/ \E c \in Components : /\ Move(r, c)
                           /\ \A d \in Components \ {c} : FaceKept(r, d)

StepOK ==
    /\ \A r \in Runs : Closed(r) /\ Fresh(r)
    /\ \/ \A r \in Runs, c \in Components : FaceKept(r, c)
       \/ \E r \in Runs : /\ OneMoves(r)
                         /\ \A s \in Runs \ {r}, c \in Components : FaceKept(s, c)

LEMMA InitInv == Init => IInv
<1> SUFFICES ASSUME Init PROVE IInv
  OBVIOUS
<1>1. TypeOK
  BY InitType
<1> SUFFICES ASSUME NEW r \in Runs PROVE AllOK(r)
  BY <1>1 DEF IInv
<1>2. \A c \in Components : CompOK(r, c)
  BY RowsTyped DEF Init, CompOK
<1>3. \A c \in Components : BindOK(r, c)
  BY RowsTyped DEF Init, BindOK
<1>4. RunOK(r)
  BY RowsTyped, NoRequestTyped DEF Init, RunOK, NoRun, Charged, Components, Query, Answer
<1> QED BY <1>2, <1>3, <1>4 DEF AllOK

LEMMA KeptOK ==
    ASSUME NEW r \in Runs, NEW d \in Components, CompOK(r, d), Kept(r, d), SameAt(r, d)
    PROVE  CompOK(r, d)'
<1>1. CASE row'[r][d] = row[r][d]
  BY <1>1 DEF CompOK, SameAt
<1>2. CASE row[r][d] = NoRow /\ row'[r][d] = ZeroRow
  <2>1. grant[r][d] = "none" /\ sends[r][d] = 0
    BY <1>2, RowsTyped DEF CompOK
  <2> QED BY <1>2, <2>1, RowsTyped DEF CompOK, SameAt
<1> QED BY <1>1, <1>2 DEF Kept

LEMMA BoundOK ==
    ASSUME TypeOK, TypeOK', NEW r \in Runs, NEW d \in Components, BindOK(r, d),
           Kept(r, d), SameAt(r, d), Later
    PROVE  BindOK(r, d)'
<1>1. /\ binding[r][d] \in Nat /\ file.generation \in Nat /\ file'.generation \in Nat
  BY TypeIsParts, TypeIsPartsNext DEF MemoryType, RestType
<1>2. row'[r][d].overrun => row[r][d].overrun
  BY RowsTyped DEF Kept
<1> QED BY <1>1, <1>2 DEF BindOK, SameAt, Later

LEMMA QuietRunOK ==
    ASSUME NEW r \in Runs, RunOK(r), run'[r] = run[r], row'[r] = row[r],
           request'[r] = request[r] \/ request'[r] = NoRequest
    PROVE  RunOK(r)'
BY NoRequestTyped DEF RunOK, InAdmission, OnPgvector

LEMMA QuietOK ==
    ASSUME IInv, TypeOK', NEW s \in Runs, Quiet(s), Later
    PROVE  AllOK(s)'
<1>1. RunOK(s) /\ \A c \in Components : CompOK(s, c) /\ BindOK(s, c)
  BY DEF IInv, AllOK
<1>2. RunOK(s)'
  BY <1>1, QuietRunOK DEF Quiet
<1>3. \A c \in Components : Kept(s, c) /\ SameAt(s, c)
  BY DEF Quiet, Kept
<1>4. \A c \in Components : CompOK(s, c)' /\ BindOK(s, c)'
  BY <1>1, <1>3, KeptOK, BoundOK DEF IInv
<1> QED BY <1>2, <1>4 DEF AllOK

(* A run that has just been failed. *)
LEMMA FailedOK ==
    ASSUME NEW r \in Runs, RunOK(r), run'[r].status = "failed",
           run'[r].total = Charged(row'[r]),
           \A c \in Components : row'[r][c].state # "dispatching",
           \A c \in Components : row[r][c].outcome = "succeeded" => row'[r][c] = row[r][c],
           request'[r].receipt = request[r].receipt \/ request'[r] = NoRequest
    PROVE  RunOK(r)'
<1>1. Answer \in Components
  BY DEF Components
<1> QED BY <1>1, NoRequestTyped DEF RunOK

(* The two components of a run are never in flight together. *)
LEMMA OneInFlight ==
    ASSUME IInv, NEW r \in Runs, NEW c \in Components, NEW d \in Components \ {c},
           row[r][c].state = "dispatching"
    PROVE  row[r][d].state # "dispatching"
<1>1. RunOK(r) /\ CompOK(r, Query) /\ run[r] \in RunRecords
  BY TypeIsParts DEF IInv, AllOK, Components, LedgerType
<1>2. ASSUME row[r][Query].state = "dispatching", row[r][Answer].state = "dispatching"
      PROVE  FALSE
  <2>1. InAdmission(r) /\ ~Unused(run[r].route, Query) /\ ~Unused(run[r].route, Answer)
    BY <1>1, <1>2 DEF RunOK, Components
  <2>2. OnPgvector(r)
    BY <2>1, <1>1 DEF Unused, OnPgvector, Query, Answer
  <2>3. row[r][Query].outcome = "succeeded"
    BY <1>1, <1>2, <2>2 DEF RunOK
  <2> QED BY <1>1, <1>2, <2>3 DEF CompOK
<1> QED BY <1>2 DEF Components

LEMMA FacesKept ==
    ASSUME NEW r \in Runs, NEW d \in Components, CompOK(r, d), Kept(r, d), SameAt(r, d)
    PROVE  FaceKept(r, d)
<1>1. CASE row'[r][d] = row[r][d]
  BY <1>1 DEF FaceKept, SameSend, Stand, Cost, SameAt
<1>2. CASE row[r][d] = NoRow /\ row'[r][d] = ZeroRow
  <2>1. grant[r][d] = "none"
    BY <1>2, RowsTyped DEF CompOK
  <2> QED BY <1>2, <2>1, RowsTyped DEF FaceKept, SameSend, Stand, Cost, SameAt, Settled
<1> QED BY <1>1, <1>2 DEF Kept

LEMMA QuietFaces ==
    ASSUME NEW r \in Runs, Quiet(r)
    PROVE  Closed(r) /\ Fresh(r) /\ \A c \in Components : FaceKept(r, c)
BY DEF Quiet, SameAt, Closed, Fresh, FaceKept, SameSend, Stand, Cost

LEMMA OneRun ==
    ASSUME IInv, TypeOK', Later, NEW r \in Runs, AllOK(r)',
           Closed(r), Fresh(r), OneMoves(r),
           \A s \in Runs \ {r} : Quiet(s)
    PROVE  IInv' /\ StepOK
<1>1. IInv'
  BY QuietOK DEF IInv
<1>2. \A s \in Runs \ {r} : Closed(s) /\ Fresh(s) /\ \A c \in Components : FaceKept(s, c)
  BY QuietFaces
<1>3. StepOK
  BY <1>2 DEF StepOK
<1> QED BY <1>1, <1>3

LEMMA GrantAt ==
    ASSUME MemoryType, NEW r \in Runs, NEW c \in Components, NEW g,
           grant' = [grant EXCEPT ![r][c] = g]
    PROVE  /\ grant'[r][c] = g
           /\ \A d \in Components \ {c} : grant'[r][d] = grant[r][d]
           /\ \A s \in Runs \ {r} : grant'[s] = grant[s]
BY DEF MemoryType

LEMMA RequestAt ==
    ASSUME MemoryType, NEW r \in Runs, NEW q, request' = [request EXCEPT ![r] = q]
    PROVE  request'[r] = q /\ \A s \in Runs \ {r} : request'[s] = request[s]
BY DEF MemoryType

LEMMA NowLater == TypeOK /\ file' = file => Later
BY TypeIsParts DEF RestType, Later

LEMMA Parts == IInv => /\ TypeOK /\ LedgerType /\ MemoryType /\ RestType
                       /\ \A r \in Runs : RunOK(r)
                       /\ \A r \in Runs, c \in Components : CompOK(r, c) /\ BindOK(r, c)
BY TypeIsParts DEF IInv, AllOK

-----------------------------------------------------------------------------
(* Steps of a request. *)

LEMMA AdmissionKeeps ==
    ASSUME IInv, NEW r \in Runs, NEW route \in Routes, create_admission(r, route)
    PROVE  IInv' /\ StepOK
<1> DEFINE q == [status |-> "running", phase |-> "admission", route |-> route, total |-> 0]
           p == [request[r] EXCEPT !.open = TRUE]
<1>0. /\ TypeOK /\ LedgerType /\ MemoryType /\ RunOK(r)
      /\ \A c \in Components : CompOK(r, c) /\ BindOK(r, c)
  BY Parts
<1>1. /\ run[r].status = "none" /\ run' = [run EXCEPT ![r] = q] /\ row' = row
      /\ request' = [request EXCEPT ![r] = p]
      /\ UNCHANGED <<grant, binding, heard, guarded, file, sends, bill>>
  BY DEF create_admission, authority, provider
<1>2. q.status = "running" /\ q.total = 0 /\ p.receipt = request[r].receipt
  BY <1>0, RequestType DEF RequestRecords
<1> HIDE DEF q, p
<1>3. /\ run'[r] = q /\ request'[r] = p
      /\ \A s \in Runs \ {r} : run'[s] = run[s] /\ request'[s] = request[s]
  BY <1>0, <1>1 DEF LedgerType, MemoryType
<1>4. TypeOK' /\ Later
  BY <1>0, <1>1, AdmissionType, NowLater
<1>5. \A c \in Components : row[r][c] = NoRow
  BY <1>0, <1>1 DEF RunOK
<1>6. RunOK(r)'
  BY <1>0, <1>1, <1>2, <1>3, <1>5, RowsTyped DEF RunOK, Charged, Components
<1>7. \A c \in Components : Kept(r, c) /\ SameAt(r, c)
  BY <1>1 DEF Kept, SameAt
<1>8. AllOK(r)'
  BY <1>0, <1>4, <1>6, <1>7, KeptOK, BoundOK DEF AllOK
<1>9. \A s \in Runs \ {r} : Quiet(s)
  BY <1>1, <1>3 DEF Quiet, SameAt
<1>10. Closed(r) /\ Fresh(r) /\ OneMoves(r)
  BY <1>0, <1>1, <1>7, FacesKept DEF Closed, Fresh, OneMoves
<1> QED BY <1>4, <1>8, <1>9, <1>10, OneRun

LEMMA BindKeeps ==
    ASSUME IInv, NEW r \in Runs, bind_answer_budget(r)
    PROVE  IInv' /\ StepOK
<1> DEFINE p == [request[r] EXCEPT !.bound = TRUE]
<1>0. /\ TypeOK /\ LedgerType /\ MemoryType /\ RunOK(r)
      /\ \A c \in Components : CompOK(r, c) /\ BindOK(r, c)
  BY Parts
<1>1. /\ UNCHANGED <<run, row, grant, binding, heard, guarded, file, sends, bill>>
      /\ request' = [request EXCEPT ![r] = p]
  BY DEF bind_answer_budget, ledger, authority, provider
<1>2. p.receipt = request[r].receipt /\ p.open = request[r].open
  BY <1>0, RequestType DEF RequestRecords
<1> HIDE DEF p
<1>3. request'[r] = p /\ \A s \in Runs \ {r} : request'[s] = request[s]
  BY <1>0, <1>1, RequestAt
<1>4. TypeOK' /\ Later
  BY <1>0, <1>1, RequestStepType, NowLater DEF RequestStep
<1>5. RunOK(r)'
  BY <1>0, <1>1, <1>2, <1>3 DEF RunOK, InAdmission, OnPgvector
<1>6. \A c \in Components : Kept(r, c) /\ SameAt(r, c)
  BY <1>1 DEF Kept, SameAt
<1>7. AllOK(r)'
  BY <1>0, <1>4, <1>5, <1>6, KeptOK, BoundOK DEF AllOK
<1>8. \A s \in Runs \ {r} : Quiet(s)
  BY <1>1, <1>3 DEF Quiet, SameAt
<1>9. Closed(r) /\ Fresh(r) /\ OneMoves(r)
  BY <1>0, <1>1, <1>6, FacesKept DEF Closed, Fresh, OneMoves
<1> QED BY <1>4, <1>7, <1>8, <1>9, OneRun

(* A grant moves and nothing else of its component does. *)
LEMMA GrantKeeps ==
    ASSUME IInv, TypeOK', NEW r \in Runs, NEW c \in Components,
           grant[r][c] = "active", NEW g \in {"consumed", "refused"},
           grant' = [grant EXCEPT ![r][c] = g],
           g = "consumed" =>
              row[r][c].state = "dispatching" /\ binding[r][c] = file.generation,
           UNCHANGED <<run, row, request, binding, heard, guarded, file, sends, bill>>
    PROVE  IInv' /\ StepOK
<1>0. /\ TypeOK /\ LedgerType /\ MemoryType /\ RunOK(r)
      /\ \A d \in Components : CompOK(r, d) /\ BindOK(r, d)
  BY Parts
<1>1. /\ grant'[r][c] = g
      /\ \A d \in Components \ {c} : grant'[r][d] = grant[r][d]
      /\ \A s \in Runs \ {r} : grant'[s] = grant[s]
  BY <1>0, GrantAt
<1>2. Later
  BY <1>0, NowLater
<1>3. RunOK(r)'
  BY <1>0, QuietRunOK
<1>4. CompOK(r, c)' /\ BindOK(r, c)'
  BY <1>0, <1>1 DEF CompOK, BindOK
<1>5. \A d \in Components \ {c} : Kept(r, d) /\ SameAt(r, d)
  BY <1>1 DEF Kept, SameAt
<1>6. \A d \in Components : CompOK(r, d)' /\ BindOK(r, d)'
  BY <1>0, <1>2, <1>4, <1>5, KeptOK, BoundOK
<1>7. \A s \in Runs \ {r} : Quiet(s)
  BY <1>1 DEF Quiet, SameAt
<1>8. Closed(r) /\ Fresh(r)
  BY <1>1 DEF Closed, Fresh
<1>9. OneMoves(r)
  <2>1. \A d \in Components \ {c} : FaceKept(r, d)
    BY <1>0, <1>5, FacesKept
  <2>2. CASE g = "refused"
    <3>1. FaceKept(r, c)
      BY <1>1, <2>2 DEF FaceKept, SameSend, Stand, Cost
    <3> QED BY <2>1, <3>1 DEF OneMoves
  <2>3. CASE g = "consumed"
    <3>1. Stand(r, c) = "reserved" /\ Stand(r, c)' = "started"
      BY <1>1, <2>3 DEF Stand, Settled
    <3>2. SameSend(r, c) /\ Cost(r, c)' = Cost(r, c)
      BY DEF SameSend, Cost
    <3>3. Move(r, c)
      BY <3>1, <3>2 DEF Move
    <3> QED BY <2>1, <3>3 DEF OneMoves
  <2> QED BY <2>2, <2>3
<1> QED BY <1>2, <1>3, <1>6, <1>7, <1>8, <1>9, OneRun DEF AllOK

LEMMA SucceededIsTerminal ==
    ASSUME IInv, NEW r \in Runs, NEW c \in Components, row[r][c].outcome = "succeeded"
    PROVE  row[r][c].state = "terminal"
<1>1. CompOK(r, c) /\ row[r][c] \in RowRecords
  BY Parts DEF LedgerType, RowPairs
<1> QED BY <1>1, RowsTyped DEF CompOK, RowRecords

LEMMA RunsInFlight ==
    ASSUME IInv, NEW r \in Runs, NEW c \in Components, row[r][c].state = "dispatching"
    PROVE  run[r].status = "running"
<1>1. RunOK(r)
  BY Parts
<1> QED BY <1>1 DEF RunOK, InAdmission

(* A component that is closed for nothing: never claimed, or refused before  *)
(* its send.                                                                 *)
LEMMA ClosedOK ==
    ASSUME IInv, TypeOK', Later, NEW r \in Runs, NEW c \in Components,
           grant[r][c] \in {"active", "refused"}, grant'[r][c] = "retired",
           row'[r][c] = ZeroRow, binding'[r][c] = binding[r][c],
           heard'[r][c] = heard[r][c], guarded'[r][c] = guarded[r][c],
           sends'[r][c] = sends[r][c], bill'[r][c] = bill[r][c]
    PROVE  /\ CompOK(r, c)' /\ BindOK(r, c)'
           /\ row[r][c].state = "dispatching" => Move(r, c)
<1>0. CompOK(r, c) /\ BindOK(r, c)
  BY Parts
<1>1. /\ binding[r][c] \in Nat /\ file.generation \in Nat /\ file'.generation \in Nat
  BY Parts, TypeIsPartsNext DEF MemoryType, RestType
<1>2. sends[r][c] = 0
  BY <1>0 DEF CompOK
<1>3. CompOK(r, c)'
  BY <1>0, <1>2, RowsTyped DEF CompOK
<1>4. BindOK(r, c)'
  BY <1>0, <1>1, RowsTyped DEF BindOK, Later
<1>5. ASSUME row[r][c].state = "dispatching" PROVE Move(r, c)
  <2>1. Stand(r, c) = "reserved" /\ Stand(r, c)' = "settled" /\ Cost(r, c)' = 0
    BY <1>5, RowsTyped DEF Stand, Cost, Settled
  <2> QED BY <2>1 DEF Move, SameSend
<1> QED BY <1>3, <1>4, <1>5

LEMMA SafePendingKeeps ==
    ASSUME IInv, TypeOK', NEW r \in Runs, NEW C \in {Components, {Answer}}, SafePending(r, C),
           \/ UNCHANGED grant /\ \A c \in C : row[r][c] = NoRow
           \/ /\ grant' = [grant EXCEPT ![r][Answer] = "retired"]
              /\ grant[r][Answer] = "refused" /\ row[r][Answer].state = "dispatching"
              /\ \A c \in C \ {Answer} : row[r][c] = NoRow,
           C # Components => row[r][Query].outcome = "succeeded"
    PROVE  IInv' /\ StepOK
<1>0. /\ TypeOK /\ LedgerType /\ MemoryType /\ RunOK(r)
      /\ \A d \in Components : CompOK(r, d) /\ BindOK(r, d)
  BY Parts
<1>1. /\ row'[r] = Zeroed(row[r], C) /\ run'[r].total = Charged(row'[r])
      /\ run'[r].status = "running"
      /\ request'[r].receipt = request[r].receipt
      /\ \A s \in Runs \ {r} : /\ row'[s] = row[s] /\ run'[s] = run[s]
                              /\ request'[s] = request[s]
  BY <1>0, SafePendingType
<1>2. UNCHANGED <<binding, heard, guarded, file, sends, bill>>
  BY DEF SafePending, authority, provider
<1>3. Later
  BY <1>0, <1>2, NowLater
<1>4. Answer \in Components /\ Query \in Components /\ Answer # Query
      /\ (\A c \in Components : c = Query \/ c = Answer) /\ Answer \in C
  BY DEF Components, Query, Answer
<1>5. \A c \in Components : row'[r][c] = IF c \in C THEN ZeroRow ELSE row[r][c]
  BY <1>0, <1>1, ZeroedType DEF LedgerType
<1>6. \A c \in Components : row'[r][c].state = "terminal"
  BY <1>4, <1>5, RowsTyped, SucceededIsTerminal
<1>7. \A c \in C : row[r][c].outcome # "succeeded"
  BY <1>0, <1>4, RowsTyped DEF CompOK
<1>8. RunOK(r)'
  BY <1>0, <1>1, <1>4, <1>5, <1>6, <1>7 DEF RunOK
<1>9. \A c \in Components :
          \/ Kept(r, c) /\ SameAt(r, c)
          \/ /\ c = Answer /\ grant[r][Answer] = "refused"
             /\ grant'[r][Answer] = "retired" /\ row'[r][Answer] = ZeroRow
             /\ row[r][Answer].state = "dispatching"
  <2>1. CASE UNCHANGED grant /\ \A c \in C : row[r][c] = NoRow
    BY <1>2, <1>5, <2>1 DEF Kept, SameAt
  <2>2. CASE /\ grant' = [grant EXCEPT ![r][Answer] = "retired"]
             /\ grant[r][Answer] = "refused" /\ row[r][Answer].state = "dispatching"
             /\ \A c \in C \ {Answer} : row[r][c] = NoRow
    <3>1. grant'[r][Answer] = "retired"
          /\ \A d \in Components \ {Answer} : grant'[r][d] = grant[r][d]
      <4>1. Answer \in Components /\ MemoryType
        BY <1>0, <1>4
      <4> QED BY <2>2, <4>1 DEF MemoryType
    <3>2. grant'[r][Query] = grant[r][Query]
      BY <1>4, <3>1
    <3>3. row'[r][Answer] = ZeroRow
      BY <1>4, <1>5
    <3>4. Kept(r, Query)
      BY <1>4, <1>5, <2>2 DEF Kept
    <3>5. SameAt(r, Query)
      BY <1>2, <3>2 DEF SameAt
    <3> QED BY <1>4, <2>2, <3>1, <3>3, <3>4, <3>5
  <2> QED BY <2>1, <2>2
<1>10. \A c \in Components : CompOK(r, c)' /\ BindOK(r, c)'
  <2> SUFFICES ASSUME NEW c \in Components PROVE CompOK(r, c)' /\ BindOK(r, c)'
    OBVIOUS
  <2>1. CASE Kept(r, c) /\ SameAt(r, c)
    BY <1>0, <1>3, <2>1, KeptOK, BoundOK
  <2>2. CASE /\ c = Answer /\ grant[r][Answer] = "refused"
             /\ grant'[r][Answer] = "retired" /\ row'[r][Answer] = ZeroRow
    BY <1>2, <1>3, <1>4, <2>2, ClosedOK
  <2> QED BY <1>9, <2>1, <2>2
<1>11. \A s \in Runs \ {r} : grant'[s] = grant[s]
  BY <1>0, <1>4, GrantAt
<1>12. \A s \in Runs \ {r} : Quiet(s)
  BY <1>1, <1>2, <1>11 DEF Quiet, SameAt
<1>13. Closed(r)
  BY DEF Closed, SafePending, InAdmission
<1>14. Fresh(r)
  BY <1>9 DEF Fresh, SameAt
<1>15. OneMoves(r)
  <2>1. \A d \in Components \ {Answer} : FaceKept(r, d)
    BY <1>0, <1>9, FacesKept
  <2>2. FaceKept(r, Answer) \/ Move(r, Answer)
    BY <1>0, <1>2, <1>3, <1>4, <1>9, FacesKept, ClosedOK
  <2> QED BY <1>4, <2>1, <2>2 DEF OneMoves
<1> QED BY <1>3, <1>8, <1>10, <1>12, <1>13, <1>14, <1>15, OneRun DEF AllOK

LEMMA PendingKeeps ==
    ASSUME IInv, NEW r \in Runs,
           \/ commit_provider_free_pending(r)
           \/ commit_embedding_only_pending(r)
           \/ commit_answer_cache_pending(r)
           \/ commit_answer_evidence_changed_pending(r)
    PROVE  IInv' /\ StepOK
<1>0. TypeOK'
  BY Parts, PendingType
<1>q. Components \ {Answer} = {Query} /\ Components # {Answer} /\ Answer \in Components
      /\ Query # Answer
  BY DEF Components, Query, Answer
<1>1. CASE commit_provider_free_pending(r)
  BY <1>0, <1>1, SafePendingKeeps DEF commit_provider_free_pending
<1>2. CASE commit_embedding_only_pending(r)
  BY <1>0, <1>2, SafePendingKeeps DEF commit_embedding_only_pending, EmbeddingPaid
<1>3. CASE commit_answer_cache_pending(r)
  <2>1. CASE Query \in Paid(r)
    BY <1>0, <1>3, <2>1, SafePendingKeeps DEF commit_answer_cache_pending, EmbeddingPaid
  <2>2. CASE Query \notin Paid(r)
    <3>1. SafePending(r, Components) /\ UNCHANGED grant
          /\ row[r][Answer] = NoRow /\ row[r][Query] = NoRow
      BY <1>3, <2>2 DEF commit_answer_cache_pending
    <3>2. \A c \in Components : row[r][c] = NoRow
      BY <1>q, <3>1
    <3> QED BY <1>0, <3>1, <3>2, SafePendingKeeps
  <2> QED BY <2>1, <2>2
<1>4. CASE commit_answer_evidence_changed_pending(r)
  <2>1. CASE Query \in Paid(r)
    BY <1>0, <1>4, <2>1, SafePendingKeeps
    DEF commit_answer_evidence_changed_pending, EmbeddingPaid
  <2>2. CASE Query \notin Paid(r)
    <3>1. SafePending(r, Components) /\ row[r][Query] = NoRow
      BY <1>4, <2>2 DEF commit_answer_evidence_changed_pending
    <3>2. \A c \in Components \ {Answer} : row[r][c] = NoRow
      BY <1>q, <3>1
    <3> QED BY <1>0, <1>4, <3>1, <3>2, SafePendingKeeps
          DEF commit_answer_evidence_changed_pending
  <2> QED BY <2>1, <2>2
<1> QED BY <1>1, <1>2, <1>3, <1>4

LEMMA CompleteKeeps ==
    ASSUME IInv, NEW r \in Runs, finalize_product(r) \/ finalize_shadow_run(r)
    PROVE  IInv' /\ StepOK
<1>0. /\ TypeOK /\ RunOK(r) /\ row[r] \in RowPairs
      /\ \A d \in Components : CompOK(r, d) /\ BindOK(r, d)
  BY Parts DEF LedgerType
<1>1. Complete(r)
  BY DEF finalize_product, finalize_shadow_run
<1>2. /\ TypeOK'
      /\ run'[r].status = "complete" /\ run'[r].total = run[r].total
      /\ \A s \in Runs \ {r} : run'[s] = run[s] /\ request'[s] = request[s]
      /\ request'[r] = NoRequest
  BY <1>0, <1>1, CompleteType
<1>3. UNCHANGED <<row, grant, binding, heard, guarded, file, sends, bill>>
  BY <1>1 DEF Complete, authority, provider
<1>4. \A c \in Components : row[r][c].state = "terminal"
                           /\ row[r][c].outcome \in {"none", "succeeded"}
  <2>1. CASE finalize_product(r)
    <3>1. CostsComplete(r)
      BY <2>1 DEF finalize_product
    <3> QED BY <3>1 DEF CostsComplete, Attempted
  <2>2. CASE finalize_shadow_run(r)
    <3>1. row[r][Query].outcome = "succeeded" /\ row[r][Answer] = ZeroRow
      BY <2>2 DEF finalize_shadow_run, EmbeddingPaid
    <3>2. row[r][Query].state = "terminal"
      BY <3>1, SucceededIsTerminal DEF Components
    <3> QED BY <3>1, <3>2, RowsTyped DEF Components
  <2> QED BY <2>1, <2>2
<1>5. RunOK(r)'
  BY <1>0, <1>2, <1>3, <1>4, NoRequestTyped DEF RunOK, Components
<1>6. Later
  BY <1>0, <1>3, NowLater
<1>7. \A c \in Components : Kept(r, c) /\ SameAt(r, c)
  BY <1>3 DEF Kept, SameAt
<1>8. AllOK(r)'
  BY <1>0, <1>2, <1>5, <1>6, <1>7, KeptOK, BoundOK DEF AllOK
<1>9. \A s \in Runs \ {r} : Quiet(s)
  BY <1>2, <1>3 DEF Quiet, SameAt
<1>10. run[r].status = "running"
  BY DEF finalize_product, finalize_shadow_run, IsPending
<1>11. Closed(r) /\ Fresh(r) /\ OneMoves(r)
  BY <1>0, <1>3, <1>7, <1>10, FacesKept DEF Closed, Fresh, OneMoves
<1> QED BY <1>2, <1>6, <1>8, <1>9, <1>11, OneRun

LEMMA LeftOK ==
    ASSUME IInv, TypeOK', Later, NEW r \in Runs, NEW c \in Components,
           row'[r][c] = row[r][c], grant'[r][c] = Left(grant[r][c]),
           binding'[r][c] = binding[r][c],
           heard'[r][c] = heard[r][c], guarded'[r][c] = guarded[r][c],
           sends'[r][c] = sends[r][c], bill'[r][c] = bill[r][c]
    PROVE  CompOK(r, c)' /\ BindOK(r, c)' /\ FaceKept(r, c)
<1>0. CompOK(r, c) /\ BindOK(r, c)
  BY Parts
<1>1. /\ binding[r][c] \in Nat /\ file.generation \in Nat /\ file'.generation \in Nat
  BY Parts, TypeIsPartsNext DEF MemoryType, RestType
<1>2. CompOK(r, c)'
  BY <1>0 DEF CompOK, Left
<1>3. BindOK(r, c)'
  BY <1>0, <1>1 DEF BindOK, Later
<1>4. FaceKept(r, c)
  BY DEF FaceKept, SameSend, Stand, Cost, Left
<1> QED BY <1>2, <1>3, <1>4

LEMMA DyingKeeps ==
    ASSUME IInv, TypeOK', Later, NEW r \in Runs, EndRequest(r), UNCHANGED <<ledger, provider>>
    PROVE  IInv' /\ StepOK
<1>0. MemoryType /\ RunOK(r)
  BY Parts
<1>1. /\ request' = [request EXCEPT ![r] = NoRequest]
      /\ \A c \in Components : grant'[r][c] = Left(grant[r][c])
      /\ \A s \in Runs \ {r} : grant'[s] = grant[s]
      /\ UNCHANGED <<binding, heard, guarded>>
  BY <1>0, EndRequestType
<1>2. UNCHANGED <<run, row, sends, bill>>
  BY DEF ledger, provider
<1>3. request'[r] = NoRequest /\ \A s \in Runs \ {r} : request'[s] = request[s]
  BY <1>0, <1>1, RequestAt
<1>4. RunOK(r)'
  BY <1>0, <1>2, <1>3, QuietRunOK
<1>5. \A c \in Components : CompOK(r, c)' /\ BindOK(r, c)' /\ FaceKept(r, c)
  BY <1>1, <1>2, LeftOK
<1>6. \A s \in Runs \ {r} : Quiet(s)
  BY <1>1, <1>2, <1>3 DEF Quiet, SameAt
<1>7. Closed(r) /\ Fresh(r) /\ OneMoves(r)
  BY <1>1, <1>2, <1>5 DEF Closed, Fresh, OneMoves, Left
<1> QED BY <1>4, <1>5, <1>6, <1>7, OneRun DEF AllOK

LEMMA InterComponentKeeps ==
    ASSUME IInv, NEW r \in Runs, finalize_inter_component_failure(r)
    PROVE  IInv' /\ StepOK
<1> DEFINE C == Components \ Paid(r)
<1>0. /\ TypeOK /\ LedgerType /\ MemoryType /\ RunOK(r)
      /\ \A d \in Components : CompOK(r, d) /\ BindOK(r, d)
  BY Parts
<1>1. /\ FailRun(r, Zeroed(row[r], C), "final")
      /\ request' = [request EXCEPT ![r] = NoRequest]
      /\ UNCHANGED <<grant, binding, heard, guarded, authority, provider>>
      /\ \A c \in C : ~Attempted(row[r][c])
  BY DEF finalize_inter_component_failure
<1>2. /\ \A c \in C : row[r][c] = NoRow \/ row[r][c] = ZeroRow
      /\ \A c \in Components \ C : row[r][c].outcome = "succeeded"
  <2>1. \A c \in Components : row[r][c] \in RowRecords
    BY <1>0 DEF LedgerType, RowPairs
  <2>2. \A c \in C : row[r][c] = NoRow \/ row[r][c] = ZeroRow
    BY <1>0, <1>1, <2>1 DEF Attempted, CompOK, RowRecords
  <2>3. \A c \in Components \ C : row[r][c].outcome = "succeeded"
    BY <1>0 DEF RunOK, Paid
  <2> QED BY <2>2, <2>3
<1> C \subseteq Components
  OBVIOUS
<1> HIDE DEF C
<1>3. /\ TypeOK' /\ row'[r] = Zeroed(row[r], C)
      /\ run'[r].status = "failed" /\ run'[r].total = Charged(row'[r])
      /\ \A s \in Runs \ {r} : row'[s] = row[s] /\ run'[s] = run[s]
  BY <1>0, <1>1, CancelType DEF Components
<1>4. \A c \in Components : row'[r][c] = IF c \in C THEN ZeroRow ELSE row[r][c]
  BY <1>0, <1>3, ZeroedType DEF LedgerType
<1>5. request'[r] = NoRequest /\ \A s \in Runs \ {r} : request'[s] = request[s]
  BY <1>0, <1>1, RequestAt
<1>6. UNCHANGED <<grant, binding, heard, guarded, file, sends, bill>>
  BY <1>1 DEF authority, provider
<1>7. Later
  BY <1>0, <1>6, NowLater
<1>8. \A c \in Components : row'[r][c].state = "terminal"
  BY <1>2, <1>4, RowsTyped, SucceededIsTerminal
<1>9. \A c \in Components : row[r][c].outcome = "succeeded" => row'[r][c] = row[r][c]
  BY <1>2, <1>4, RowsTyped
<1>10. RunOK(r)'
  BY <1>0, <1>3, <1>5, <1>8, <1>9, FailedOK
<1>11. \A c \in Components : Kept(r, c) /\ SameAt(r, c)
  BY <1>2, <1>4, <1>6 DEF Kept, SameAt
<1>12. AllOK(r)'
  BY <1>0, <1>3, <1>7, <1>10, <1>11, KeptOK, BoundOK DEF AllOK
<1>13. \A s \in Runs \ {r} : Quiet(s)
  BY <1>3, <1>5, <1>6 DEF Quiet, SameAt
<1>14. run[r].status = "running"
  BY DEF finalize_inter_component_failure
<1>15. Closed(r) /\ Fresh(r) /\ OneMoves(r)
  BY <1>0, <1>6, <1>11, <1>14, FacesKept DEF Closed, Fresh, OneMoves
<1> QED BY <1>3, <1>7, <1>12, <1>13, <1>15, OneRun

LEMMA RequestStepKeeps ==
    ASSUME IInv, NEW r \in Runs, RequestStep(r)
    PROVE  IInv' /\ StepOK
<1>0. TypeOK' /\ TypeOK
  BY Parts, RequestStepType
<1>1. CASE defer_answer_evidence_refusal(r)
  <2>1. /\ Answer \in Components /\ grant[r][Answer] = "active"
        /\ grant' = [grant EXCEPT ![r][Answer] = "refused"]
        /\ UNCHANGED <<run, row, request, binding, heard, guarded, file, sends, bill>>
    BY <1>1 DEF defer_answer_evidence_refusal, ledger, authority, provider, Components
  <2> QED BY <1>0, <2>1, GrantKeeps
<1>2. CASE RequestDies(r)
  <2>1. EndRequest(r) /\ UNCHANGED <<ledger, provider>> /\ Later
    BY <1>0, <1>2, NowLater DEF RequestDies, authority
  <2> QED BY <1>0, <2>1, DyingKeeps
<1> QED BY <1>1, <1>2, AdmissionKeeps, BindKeeps, PendingKeeps, CompleteKeeps,
        InterComponentKeeps DEF RequestStep

-----------------------------------------------------------------------------
(* Steps of a component. *)

LEMMA ClaimKeeps ==
    ASSUME IInv, NEW r \in Runs, NEW c \in Components, claim_component(r, c)
    PROVE  IInv' /\ StepOK
<1>0. /\ TypeOK /\ LedgerType /\ MemoryType /\ RestType /\ RunOK(r)
      /\ \A d \in Components : CompOK(r, d) /\ BindOK(r, d)
  BY Parts
<1>1. TypeOK'
  BY <1>0, ComponentStepType DEF ComponentStep
<1>2. /\ row'[r][c].state = "dispatching" /\ row'[r][c].charge = Reserve
      /\ row'[r][c].outcome = "none" /\ ~row'[r][c].overrun
      /\ \A d \in Components \ {c} : row'[r][d] = row[r][d]
      /\ run'[r].total = Charged(row'[r]) /\ run'[r].status = run[r].status
      /\ run'[r].route = run[r].route /\ run'[r].phase = run[r].phase
      /\ \A s \in Runs \ {r} : row'[s] = row[s] /\ run'[s] = run[s]
  BY <1>0, ClaimType
<1>3. /\ InAdmission(r) /\ ~Unused(run[r].route, c) /\ row[r][c] = NoRow
      /\ c = Answer => EmbeddingDone(r)
      /\ grant' = [grant EXCEPT ![r][c] = "active"]
      /\ binding' = [binding EXCEPT ![r][c] = file.generation]
      /\ UNCHANGED <<request, heard, guarded, file, sends, bill>>
  BY DEF claim_component, authority, provider
<1>4. /\ grant'[r][c] = "active"
      /\ \A d \in Components \ {c} : grant'[r][d] = grant[r][d]
      /\ \A s \in Runs \ {r} : grant'[s] = grant[s]
  BY <1>0, <1>3, GrantAt
<1>5. /\ binding'[r][c] = file.generation
      /\ \A d \in Components \ {c} : binding'[r][d] = binding[r][d]
      /\ \A s \in Runs \ {r} : binding'[s] = binding[s]
  BY <1>0, <1>3 DEF MemoryType
<1>6. /\ grant[r][c] = "none" /\ sends[r][c] = 0 /\ heard[r][c] = "none"
      /\ bill[r][c] = 0 /\ ~guarded[r][c]
  BY <1>0, <1>3, RowsTyped DEF CompOK, BindOK
<1>7. Later
  BY <1>0, <1>3, NowLater
<1>8. CompOK(r, c)'
  BY <1>2, <1>3, <1>4, <1>6, RowsTyped DEF CompOK
<1>9. BindOK(r, c)'
  BY <1>0, <1>2, <1>3, <1>5, <1>6 DEF BindOK, RestType
<1>10. \A d \in Components \ {c} : Kept(r, d) /\ SameAt(r, d)
  BY <1>2, <1>3, <1>4, <1>5 DEF Kept, SameAt
<1>11. \A d \in Components : CompOK(r, d)' /\ BindOK(r, d)'
  BY <1>0, <1>1, <1>7, <1>8, <1>9, <1>10, KeptOK, BoundOK
<1>12. RunOK(r)'
  <2>1. /\ run'[r].status = "running" /\ InAdmission(r)'
        /\ OnPgvector(r)' = OnPgvector(r)
    BY <1>2, <1>3 DEF InAdmission, OnPgvector
  <2>2. \A d \in Components : row'[r][d].state = "dispatching" =>
            InAdmission(r)' /\ ~Unused(run'[r].route, d)
    BY <1>0, <1>2, <1>3, <2>1 DEF RunOK
  <2>3. OnPgvector(r) /\ row'[r][Answer].state = "dispatching" =>
            row'[r][Query].outcome = "succeeded"
    <3>1. CASE c = Answer
      BY <1>2, <1>3, <3>1 DEF EmbeddingDone, Components, Query, Answer
    <3>2. CASE c = Query
      <4>1. row'[r][Answer] = row[r][Answer] /\ row[r][Query].outcome = "none"
        BY <1>2, <1>3, <3>2, RowsTyped DEF Components, Query, Answer
      <4> QED BY <1>0, <4>1 DEF RunOK
    <3> QED BY <3>1, <3>2 DEF Components
  <2>4. \A d \in Components :
            request'[r].receipt[d] # 0 => row'[r][d].outcome = "succeeded"
    <3>1. request[r].receipt[c] = 0
      BY <1>0, <1>3, RowsTyped DEF RunOK
    <3> QED BY <1>0, <1>2, <1>3, <3>1 DEF RunOK
  <2> QED BY <1>2, <2>1, <2>2, <2>3, <2>4 DEF RunOK
<1>13. \A s \in Runs \ {r} : Quiet(s)
  BY <1>2, <1>3, <1>4, <1>5 DEF Quiet, SameAt
<1>14. Closed(r) /\ Fresh(r)
  BY <1>3, <1>4 DEF Closed, Fresh, InAdmission
<1>15. Move(r, c)
  <2>1. Stand(r, c) = "absent" /\ Stand(r, c)' = "reserved"
    BY <1>2, <1>4, <1>6 DEF Stand, Settled
  <2>2. Cost(r, c)' = Cost(r, c)
    BY <1>2, <1>3, RowsTyped DEF Cost, Settled
  <2>3. SameSend(r, c)
    BY <1>3 DEF SameSend
  <2> QED BY <2>1, <2>2, <2>3 DEF Move
<1>16. OneMoves(r)
  BY <1>0, <1>10, <1>15, FacesKept DEF OneMoves
<1> QED BY <1>1, <1>7, <1>11, <1>12, <1>13, <1>14, <1>16, OneRun DEF AllOK

LEMMA TransmitKeeps ==
    ASSUME IInv, NEW r \in Runs, NEW c \in Components, Transmit(r, c)
    PROVE  IInv' /\ StepOK
<1>0. /\ TypeOK /\ LedgerType /\ MemoryType /\ RestType /\ RunOK(r)
      /\ \A d \in Components : CompOK(r, d) /\ BindOK(r, d)
  BY Parts
<1>1. TypeOK'
  BY <1>0, ComponentStepType DEF ComponentStep
<1>2. /\ grant[r][c] = "consumed" /\ sends[r][c] = 0
      /\ sends' = [sends EXCEPT ![r][c] = 1]
      /\ UNCHANGED <<run, row, request, grant, binding, guarded, file>>
  BY DEF Transmit, ledger, authority
<1>3. PICK class : heard' = [heard EXCEPT ![r][c] = class]
  BY DEF Transmit
<1>4. PICK cost : bill' = [bill EXCEPT ![r][c] = cost]
  BY DEF Transmit
<1>5. /\ sends'[r][c] = 1
      /\ \A d \in Components \ {c} : /\ sends'[r][d] = sends[r][d]
                                     /\ heard'[r][d] = heard[r][d]
                                     /\ bill'[r][d] = bill[r][d]
      /\ \A s \in Runs \ {r} : /\ sends'[s] = sends[s] /\ heard'[s] = heard[s]
                              /\ bill'[s] = bill[s]
  BY <1>0, <1>2, <1>3, <1>4 DEF MemoryType, RestType
<1>6. ~guarded[r][c]
  BY <1>0, <1>2 DEF CompOK, BindOK
<1>7. Later
  BY <1>0, <1>2, NowLater
<1>8. CompOK(r, c)' /\ BindOK(r, c)'
  BY <1>0, <1>2, <1>5, <1>6 DEF CompOK, BindOK
<1>9. \A d \in Components \ {c} : Kept(r, d) /\ SameAt(r, d)
  BY <1>2, <1>5 DEF Kept, SameAt
<1>10. \A d \in Components : CompOK(r, d)' /\ BindOK(r, d)'
  BY <1>0, <1>1, <1>7, <1>8, <1>9, KeptOK, BoundOK
<1>11. RunOK(r)'
  BY <1>0, <1>2, QuietRunOK
<1>12. \A s \in Runs \ {r} : Quiet(s)
  BY <1>2, <1>5 DEF Quiet, SameAt
<1>13. Closed(r) /\ Fresh(r)
  BY <1>2 DEF Closed, Fresh
<1>14. Move(r, c)
  <2>1. Stand(r, c)' = Stand(r, c) /\ Cost(r, c)' = Cost(r, c)
    BY <1>2 DEF Stand, Cost
  <2>2. Stand(r, c) = "started" \/ (Stand(r, c) = "settled" /\ Cost(r, c) = Reserve)
    <3>1. \/ row[r][c].state = "dispatching"
          \/ row[r][c].state = "abandoned_unknown" /\ row[r][c].charge = Reserve
      BY <1>0, <1>2 DEF CompOK
    <3>2. row[r][c].state = "dispatching" => Stand(r, c) = "started"
      BY <1>2 DEF Stand, Settled
    <3>3. row[r][c].state = "abandoned_unknown" =>
              Stand(r, c) = "settled" /\ Cost(r, c) = row[r][c].charge
      BY <1>2 DEF Stand, Settled, Cost
    <3> QED BY <3>1, <3>2, <3>3
  <2>3. bill'[r][c] \in Nat
    BY <1>1, TypeIsPartsNext DEF RestType
  <2> QED BY <1>2, <1>5, <2>1, <2>2, <2>3 DEF Move
<1>15. OneMoves(r)
  BY <1>0, <1>9, <1>14, FacesKept DEF OneMoves
<1> QED BY <1>1, <1>7, <1>10, <1>11, <1>12, <1>13, <1>15, OneRun DEF AllOK

(* The safety side of a finalization has been done. *)
LEMMA GuardKeeps ==
    ASSUME IInv, TypeOK', Later, NEW r \in Runs, NEW c \in Components,
           guarded' = [guarded EXCEPT ![r][c] = TRUE],
           heard[r][c] # "none",
           heard[r][c] = "known_overrun" => file'.generation = file.generation + 1,
           UNCHANGED <<run, row, request, grant, binding, heard, sends, bill>>
    PROVE  IInv' /\ StepOK
<1>0. /\ TypeOK /\ MemoryType /\ RestType /\ RunOK(r)
      /\ \A d \in Components : CompOK(r, d) /\ BindOK(r, d)
  BY Parts
<1>1. /\ \A d \in Components \ {c} : guarded'[r][d] = guarded[r][d]
      /\ \A s \in Runs \ {r} : guarded'[s] = guarded[s]
  BY <1>0 DEF MemoryType
<1>2. /\ binding[r][c] \in Nat /\ file.generation \in Nat /\ file'.generation \in Nat
  BY <1>0, TypeIsPartsNext DEF MemoryType, RestType
<1>3. CompOK(r, c)'
  BY <1>0 DEF CompOK
<1>4. BindOK(r, c)'
  BY <1>0, <1>2 DEF BindOK, Later
<1>5. \A d \in Components \ {c} : Kept(r, d) /\ SameAt(r, d)
  BY <1>1 DEF Kept, SameAt
<1>6. \A d \in Components : CompOK(r, d)' /\ BindOK(r, d)'
  BY <1>0, <1>3, <1>4, <1>5, KeptOK, BoundOK
<1>7. RunOK(r)'
  BY <1>0, QuietRunOK
<1>8. \A s \in Runs \ {r} : Quiet(s)
  BY <1>1 DEF Quiet, SameAt
<1>9. Closed(r) /\ Fresh(r)
  BY DEF Closed, Fresh
<1>10. OneMoves(r)
  BY DEF OneMoves, FaceKept, SameSend, Stand, Cost
<1> QED BY <1>6, <1>7, <1>8, <1>9, <1>10, OneRun DEF AllOK

LEMMA CancelKeeps ==
    ASSUME IInv, NEW r \in Runs, NEW c \in Components, cancel_claim_before_dispatch(r, c)
    PROVE  IInv' /\ StepOK
<1> DEFINE C == {d \in Components : ~Settled(row[r][d])}
<1>0. /\ TypeOK /\ LedgerType /\ MemoryType /\ RunOK(r)
      /\ \A d \in Components : CompOK(r, d) /\ BindOK(r, d)
  BY Parts
<1>1. /\ FailRun(r, Zeroed(row[r], C), "final")
      /\ request' = [request EXCEPT ![r] = NoRequest]
      /\ grant' = [grant EXCEPT ![r][c] = "retired"]
      /\ UNCHANGED <<binding, heard, guarded, authority, provider>>
      /\ grant[r][c] = "active" /\ row[r][c].state = "dispatching"
  BY DEF cancel_claim_before_dispatch
<1>2. \A d \in Components : row[r][d] \in RowRecords
  BY <1>0 DEF LedgerType, RowPairs
<1>3. /\ c \in C
      /\ \A d \in C \ {c} : row[r][d] = NoRow
      /\ \A d \in C : row[r][d].outcome # "succeeded"
      /\ \A d \in Components \ C : row[r][d].state # "dispatching"
  <2>1. c \in C
    BY <1>1 DEF Settled
  <2>2. \A d \in C \ {c} : row[r][d].state = "not_attempted"
    BY <1>1, <1>2, OneInFlight DEF Settled, RowRecords
  <2>3. \A d \in C : row[r][d].outcome # "succeeded"
    BY SucceededIsTerminal DEF Settled
  <2>4. \A d \in Components \ C : row[r][d].state # "dispatching"
    BY DEF Settled
  <2> QED BY <1>0, <2>1, <2>2, <2>3, <2>4 DEF CompOK
<1> C \subseteq Components
  OBVIOUS
<1> HIDE DEF C
<1>4. /\ TypeOK' /\ row'[r] = Zeroed(row[r], C)
      /\ run'[r].status = "failed" /\ run'[r].total = Charged(row'[r])
      /\ \A s \in Runs \ {r} : row'[s] = row[s] /\ run'[s] = run[s]
  BY <1>0, <1>1, CancelType
<1>5. \A d \in Components : row'[r][d] = IF d \in C THEN ZeroRow ELSE row[r][d]
  BY <1>0, <1>4, ZeroedType DEF LedgerType
<1>6. request'[r] = NoRequest /\ \A s \in Runs \ {r} : request'[s] = request[s]
  BY <1>0, <1>1, RequestAt
<1>7. /\ grant'[r][c] = "retired"
      /\ \A d \in Components \ {c} : grant'[r][d] = grant[r][d]
      /\ \A s \in Runs \ {r} : grant'[s] = grant[s]
  BY <1>0, <1>1, GrantAt
<1>8. UNCHANGED <<binding, heard, guarded, file, sends, bill>>
  BY <1>1 DEF authority, provider
<1>9. Later
  BY <1>0, <1>8, NowLater
<1>10. CompOK(r, c)' /\ BindOK(r, c)' /\ Move(r, c)
  BY <1>1, <1>3, <1>4, <1>5, <1>7, <1>8, <1>9, ClosedOK
<1>11. \A d \in Components \ {c} : Kept(r, d) /\ SameAt(r, d)
  BY <1>3, <1>5, <1>7, <1>8 DEF Kept, SameAt
<1>12. \A d \in Components : CompOK(r, d)' /\ BindOK(r, d)'
  BY <1>0, <1>4, <1>9, <1>10, <1>11, KeptOK, BoundOK
<1>13. RunOK(r)'
  <2>1. \A d \in Components : row'[r][d].state # "dispatching"
    BY <1>3, <1>5, RowsTyped
  <2>2. \A d \in Components : row[r][d].outcome = "succeeded" => row'[r][d] = row[r][d]
    BY <1>3, <1>5
  <2> QED BY <1>0, <1>4, <1>6, <2>1, <2>2, FailedOK
<1>14. \A s \in Runs \ {r} : Quiet(s)
  BY <1>4, <1>6, <1>7, <1>8 DEF Quiet, SameAt
<1>15. Closed(r) /\ Fresh(r)
  BY <1>7, RunsInFlight, <1>1 DEF Closed, Fresh
<1>16. OneMoves(r)
  BY <1>0, <1>10, <1>11, FacesKept DEF OneMoves
<1> QED BY <1>4, <1>9, <1>12, <1>13, <1>14, <1>15, <1>16, OneRun DEF AllOK

LEMMA SuccessKeeps ==
    ASSUME IInv, NEW r \in Runs, NEW c \in Components, finalize_success(r, c)
    PROVE  IInv' /\ StepOK
<1>0. /\ TypeOK /\ LedgerType /\ MemoryType /\ RunOK(r)
      /\ \A d \in Components : CompOK(r, d) /\ BindOK(r, d)
  BY Parts
<1>1. TypeOK'
  BY <1>0, ComponentStepType DEF ComponentStep
<1>2. /\ row'[r][c] = SettledRow(r, c)
      /\ \A d \in Components \ {c} :
            \/ row'[r][d] = row[r][d]
            \/ row[r][d] = NoRow /\ row'[r][d] = ZeroRow
      /\ run'[r].total = Charged(row'[r]) /\ run'[r].status = run[r].status
      /\ \A d \in Components \ {c} : request'[r].receipt[d] = request[r].receipt[d]
      /\ \A s \in Runs \ {r} : /\ row'[s] = row[s] /\ run'[s] = run[s]
                              /\ request'[s] = request[s]
  BY <1>0, FinalizeSuccessType
<1>3. /\ heard[r][c] = "validated_success" /\ row[r][c].state = "dispatching"
      /\ grant[r][c] = "consumed"
      /\ grant' = [grant EXCEPT ![r][c] = "retired"]
      /\ UNCHANGED <<binding, heard, guarded, file, sends, bill>>
  BY DEF finalize_success, Finalizable, authority, provider
<1>4. /\ grant'[r][c] = "retired"
      /\ \A d \in Components \ {c} : grant'[r][d] = grant[r][d]
      /\ \A s \in Runs \ {r} : grant'[s] = grant[s]
  BY <1>0, <1>3, GrantAt
<1>5. /\ row'[r][c].state = "terminal" /\ row'[r][c].outcome = "succeeded"
      /\ row'[r][c].charge = bill[r][c] /\ ~row'[r][c].overrun
  <2>1. SettledRow(r, c).overrun <=> heard[r][c] = "known_overrun"
    BY Zenon DEF SettledRow
  <2>2. SettledRow(r, c).state = "terminal" /\ SettledRow(r, c).outcome = "succeeded"
    BY <1>3 DEF SettledRow
  <2>3. SettledRow(r, c).charge = ChargeOf(r, c, heard[r][c])
    BY DEF SettledRow
  <2> QED BY <1>2, <1>3, <2>1, <2>2, <2>3 DEF ChargeOf
<1>6. Later
  BY <1>0, <1>3, NowLater
<1>7. CompOK(r, c)' /\ BindOK(r, c)'
  BY <1>0, <1>3, <1>4, <1>5, RowsTyped DEF CompOK, BindOK
<1>8. \A d \in Components \ {c} : Kept(r, d) /\ SameAt(r, d)
  BY <1>2, <1>3, <1>4 DEF Kept, SameAt
<1>9. \A d \in Components : CompOK(r, d)' /\ BindOK(r, d)'
  BY <1>0, <1>1, <1>6, <1>7, <1>8, KeptOK, BoundOK
<1>10. \A d \in Components : row'[r][d].state # "dispatching"
  BY <1>2, <1>3, <1>5, OneInFlight, RowsTyped
<1>11. run[r].status = "running"
  BY <1>0, <1>3 DEF RunOK, InAdmission
<1>12. \A d \in Components :
          request'[r].receipt[d] # 0 => row'[r][d].outcome = "succeeded"
  BY <1>0, <1>2, <1>5, RowsTyped DEF RunOK
<1>13. RunOK(r)'
  BY <1>2, <1>10, <1>11, <1>12 DEF RunOK, Components
<1>14. \A s \in Runs \ {r} : Quiet(s)
  BY <1>2, <1>3, <1>4 DEF Quiet, SameAt
<1>15. Closed(r) /\ Fresh(r)
  BY <1>3, <1>4, RunsInFlight DEF Closed, Fresh
<1>16. Move(r, c)
  <2>1. Stand(r, c) = "started" /\ Stand(r, c)' = "settled"
    BY <1>3, <1>4, <1>5 DEF Stand, Settled
  <2>2. sends[r][c] = 1 /\ SameSend(r, c)
    BY <1>0, <1>3 DEF CompOK, SameSend
  <2>3. Cost(r, c)' = bill[r][c] \/ Cost(r, c)' = Reserve
    BY <1>5 DEF Cost, Settled
  <2> QED BY <2>1, <2>2, <2>3 DEF Move
<1>17. OneMoves(r)
  BY <1>0, <1>8, <1>16, FacesKept DEF OneMoves
<1> QED BY <1>1, <1>6, <1>9, <1>13, <1>14, <1>15, <1>17, OneRun DEF AllOK

LEMMA FailureKeeps ==
    ASSUME IInv, NEW r \in Runs, NEW c \in Components, finalize_failure(r, c)
    PROVE  IInv' /\ StepOK
<1>0. /\ TypeOK /\ LedgerType /\ MemoryType /\ RunOK(r)
      /\ \A d \in Components : CompOK(r, d) /\ BindOK(r, d)
  BY Parts
<1>1. TypeOK'
  BY <1>0, ComponentStepType DEF ComponentStep
<1>2. /\ row'[r][c] = SettledRow(r, c)
      /\ \A d \in Components \ {c} :
            \/ row'[r][d] = row[r][d]
            \/ row[r][d] = NoRow /\ row'[r][d] = ZeroRow
      /\ run'[r].total = Charged(row'[r]) /\ run'[r].status = "failed"
      /\ \A s \in Runs \ {r} : row'[s] = row[s] /\ run'[s] = run[s]
  BY <1>0, FinalizeFailureType
<1>3. /\ heard[r][c] # "validated_success" /\ heard[r][c] # "none"
      /\ row[r][c].state = "dispatching" /\ guarded[r][c]
      /\ grant[r][c] = "consumed"
      /\ request' = [request EXCEPT ![r] = NoRequest]
      /\ grant' = [grant EXCEPT ![r][c] = "retired"]
      /\ UNCHANGED <<binding, heard, guarded, file, sends, bill>>
  BY DEF finalize_failure, Finalizable, authority, provider
<1>4. /\ grant'[r][c] = "retired"
      /\ \A d \in Components \ {c} : grant'[r][d] = grant[r][d]
      /\ \A s \in Runs \ {r} : grant'[s] = grant[s]
  BY <1>0, <1>3, GrantAt
<1>5. /\ row'[r][c].state = "terminal" /\ row'[r][c].outcome = "failed"
      /\ row'[r][c].overrun => heard[r][c] = "known_overrun"
  <2>1. SettledRow(r, c).overrun <=> heard[r][c] = "known_overrun"
    BY Zenon DEF SettledRow
  <2>2. SettledRow(r, c).state = "terminal" /\ SettledRow(r, c).outcome = "failed"
    BY <1>3 DEF SettledRow
  <2> QED BY <1>2, <2>1, <2>2
<1>6. Later
  BY <1>0, <1>3, NowLater
<1>7. CompOK(r, c)' /\ BindOK(r, c)'
  BY <1>0, <1>3, <1>4, <1>5, RowsTyped DEF CompOK, BindOK
<1>8. \A d \in Components \ {c} : Kept(r, d) /\ SameAt(r, d)
  BY <1>2, <1>3, <1>4 DEF Kept, SameAt
<1>9. \A d \in Components : CompOK(r, d)' /\ BindOK(r, d)'
  BY <1>0, <1>1, <1>6, <1>7, <1>8, KeptOK, BoundOK
<1>10. \A d \in Components : row'[r][d].state # "dispatching"
  BY <1>2, <1>3, <1>5, OneInFlight, RowsTyped
<1>11. \A d \in Components : row[r][d].outcome = "succeeded" => row'[r][d] = row[r][d]
  BY <1>2, <1>3, SucceededIsTerminal, RowsTyped
<1>12. request'[r] = NoRequest /\ \A s \in Runs \ {r} : request'[s] = request[s]
  BY <1>0, <1>3, RequestAt
<1>13. RunOK(r)'
  BY <1>0, <1>2, <1>10, <1>11, <1>12, FailedOK
<1>14. \A s \in Runs \ {r} : Quiet(s)
  BY <1>2, <1>3, <1>4, <1>12 DEF Quiet, SameAt
<1>15. Closed(r) /\ Fresh(r)
  BY <1>3, <1>4, RunsInFlight DEF Closed, Fresh
<1>16. Move(r, c)
  <2>1. Stand(r, c) = "started" /\ Stand(r, c)' = "settled"
    BY <1>3, <1>4, <1>5 DEF Stand, Settled
  <2>2. sends[r][c] = 1 /\ SameSend(r, c)
    BY <1>0, <1>3 DEF CompOK, SameSend
  <2>3. Cost(r, c)' = bill[r][c] \/ Cost(r, c)' = Reserve
    BY <1>2, <1>5 DEF Cost, Settled, SettledRow, ChargeOf
  <2> QED BY <2>1, <2>2, <2>3 DEF Move
<1>17. OneMoves(r)
  BY <1>0, <1>8, <1>16, FacesKept DEF OneMoves
<1> QED BY <1>1, <1>6, <1>9, <1>13, <1>14, <1>15, <1>17, OneRun DEF AllOK

LEMMA ComponentStepKeeps ==
    ASSUME IInv, NEW r \in Runs, NEW c \in Components, ComponentStep(r, c)
    PROVE  IInv' /\ StepOK
<1>0. TypeOK /\ TypeOK' /\ RestType
  BY Parts, ComponentStepType
<1>1. CASE consume_transport_grant(r, c)
  <2>1. /\ grant[r][c] = "active" /\ grant' = [grant EXCEPT ![r][c] = "consumed"]
        /\ row[r][c].state = "dispatching" /\ binding[r][c] = file.generation
        /\ UNCHANGED <<run, row, request, binding, heard, guarded, file, sends, bill>>
    BY <1>1 DEF consume_transport_grant, dispatch_barrier, StillBound, ledger,
       authority, provider
  <2> QED BY <1>0, <2>1, GrantKeeps
<1>2. CASE revalidate_after_response(r, c)
  <2>1. /\ guarded' = [guarded EXCEPT ![r][c] = TRUE]
        /\ heard[r][c] # "none" /\ heard[r][c] # "known_overrun"
        /\ UNCHANGED <<run, row, request, grant, binding, heard, file, sends, bill>>
    BY <1>2 DEF revalidate_after_response, Finalizable, SafetyAction, ledger, authority,
       provider
  <2>2. Later
    BY <1>0, <2>1, NowLater
  <2> QED BY <1>0, <2>1, <2>2, GuardKeeps
<1>3. CASE block_family(r, c)
  <2>1. /\ guarded' = [guarded EXCEPT ![r][c] = TRUE] /\ heard[r][c] # "none"
        /\ Transition(c, SafetyAction(heard[r][c]))
        /\ UNCHANGED <<run, row, request, grant, binding, heard, sends, bill>>
    BY <1>3 DEF block_family, Blocking, Finalizable, ledger, provider
  <2>2. Later /\ file'.generation = file.generation + 1
    BY <1>0, <2>1, TransitionType DEF Later
  <2> QED BY <1>0, <2>1, <2>2, GuardKeeps
<1>4. CASE block_family_fails(r, c)
  <2>1. /\ EndRequest(r) /\ UNCHANGED <<ledger, provider>>
        /\ FileOnly(c, SafetyAction(heard[r][c])) \/ RowsOnly(c)
    BY <1>4 DEF block_family_fails
  <2>2. Later
    BY <1>0, <2>1, TransitionType DEF Later
  <2> QED BY <1>0, <2>1, <2>2, DyingKeeps
<1> QED BY <1>1, <1>2, <1>3, <1>4, ClaimKeeps, TransmitKeeps, CancelKeeps, SuccessKeeps,
        FailureKeeps DEF ComponentStep

-----------------------------------------------------------------------------
(* Recoveries, resets and the invariant itself. *)

(* A run closed by somebody else, its request still holding what it held. *)
LEMMA ClosedRunKeeps ==
    ASSUME IInv, NEW r \in Runs, NEW rows \in {row[r], Abandoned(row[r])},
           NEW phase \in {"final", "admission_only"}, FailRun(r, rows, phase),
           UNCHANGED <<memory, authority, provider>>,
           run[r].status = "running",
           rows = row[r] => \A c \in Components : row[r][c].state = "terminal"
    PROVE  IInv' /\ StepOK
<1>0. /\ TypeOK /\ LedgerType /\ RunOK(r)
      /\ \A d \in Components : CompOK(r, d) /\ BindOK(r, d)
  BY Parts
<1>1. /\ TypeOK' /\ row'[r] = rows
      /\ run'[r].status = "failed" /\ run'[r].total = Charged(row'[r])
      /\ \A s \in Runs \ {r} : row'[s] = row[s] /\ run'[s] = run[s]
  BY <1>0, RecoveryType
<1>2. UNCHANGED <<request, grant, binding, heard, guarded, file, sends, bill>>
  BY DEF memory, authority, provider
<1>3. Later
  BY <1>0, <1>2, NowLater
<1>4. \A c \in Components :
          \/ Kept(r, c) /\ row[r][c].state # "dispatching"
          \/ /\ row[r][c].state = "dispatching"
             /\ row'[r][c].state = "abandoned_unknown"
             /\ row'[r][c].outcome = "unknown"
             /\ row'[r][c].charge = row[r][c].charge
             /\ row'[r][c].overrun = row[r][c].overrun
  <2>1. CASE rows = row[r]
    BY <1>1, <2>1 DEF Kept
  <2>2. CASE rows = Abandoned(row[r])
    <3>1. row[r] \in RowPairs
      BY <1>0 DEF LedgerType
    <3> QED BY <1>0, <1>1, <2>2, <3>1, AbandonedType DEF Kept, CompOK
  <2> QED BY <2>1, <2>2
<1>5. \A c \in Components : SameAt(r, c)
  BY <1>2 DEF SameAt
<1>6. \A c \in Components : CompOK(r, c)' /\ BindOK(r, c)'
  <2> SUFFICES ASSUME NEW c \in Components PROVE CompOK(r, c)' /\ BindOK(r, c)'
    OBVIOUS
  <2>1. CASE Kept(r, c)
    BY <1>0, <1>1, <1>3, <1>5, <2>1, KeptOK, BoundOK
  <2>2. CASE row[r][c].state = "dispatching"
    <3>1. /\ row'[r][c].state = "abandoned_unknown" /\ row'[r][c].outcome = "unknown"
          /\ row'[r][c].charge = row[r][c].charge
          /\ row'[r][c].overrun = row[r][c].overrun
      BY <1>4, <2>2
    <3>2. CompOK(r, c)'
      BY <1>0, <1>2, <2>2, <3>1, RowsTyped DEF CompOK
    <3>3. BindOK(r, c)'
      BY <1>0, <1>2, <3>1 DEF BindOK
    <3> QED BY <3>2, <3>3
  <2> QED BY <1>4, <2>1, <2>2
<1>7. RunOK(r)'
  <2>1. \A c \in Components : row'[r][c].state # "dispatching"
    BY <1>4, RowsTyped DEF Kept
  <2>2. \A c \in Components : row[r][c].outcome = "succeeded" => row'[r][c] = row[r][c]
    BY <1>4, SucceededIsTerminal, RowsTyped DEF Kept
  <2> QED BY <1>0, <1>1, <1>2, <2>1, <2>2, FailedOK
<1>8. \A s \in Runs \ {r} : Quiet(s)
  BY <1>1, <1>2 DEF Quiet, SameAt
<1>9. Closed(r) /\ Fresh(r)
  BY <1>2 DEF Closed, Fresh
<1>10. OneMoves(r)
  <2>1. ASSUME NEW c \in Components, row[r][c].state = "dispatching" PROVE Move(r, c)
    <3>1. /\ row'[r][c].state = "abandoned_unknown"
          /\ row'[r][c].charge = Reserve /\ grant[r][c] \notin {"none", "retired"}
      BY <1>0, <1>4, <2>1, RowsTyped DEF CompOK
    <3>2. Cost(r, c)' = Reserve /\ SameSend(r, c)
      BY <1>2, <3>1 DEF Cost, Settled, SameSend
    <3>3. \/ Stand(r, c) = "reserved" /\ Stand(r, c)' = "forfeited"
          \/ Stand(r, c) = "started" /\ Stand(r, c)' = "settled"
      BY <1>2, <2>1, <3>1 DEF Stand, Settled
    <3> QED BY <3>2, <3>3 DEF Move
  <2>2. \A c \in Components : row[r][c].state # "dispatching" => FaceKept(r, c)
    BY <1>0, <1>4, <1>5, FacesKept
  <2>3. CASE \A c \in Components : row[r][c].state # "dispatching"
    BY <2>2, <2>3 DEF OneMoves
  <2>4. ASSUME NEW c \in Components, row[r][c].state = "dispatching" PROVE OneMoves(r)
    <3>1. \A d \in Components \ {c} : FaceKept(r, d)
      BY <2>2, <2>4, OneInFlight
    <3> QED BY <2>1, <2>4, <3>1 DEF OneMoves
  <2> QED BY <2>3, <2>4
<1> QED BY <1>1, <1>3, <1>6, <1>7, <1>8, <1>9, <1>10, OneRun DEF AllOK

LEMMA RecoveryKeeps ==
    ASSUME IInv, NEW r \in Runs, Recovery(r)
    PROVE  IInv' /\ StepOK
<1>1. CASE recover_attested_run(r)
  <2>1. CASE Abandoned(row[r]) = row[r]
    <3>1. row[r] \in RowPairs
      BY Parts DEF LedgerType
    <3>2. \A c \in Components : row[r][c].state \notin {"dispatching", "not_attempted"}
      BY <2>1, <3>1, AbandonedType, RowsTyped
    <3> QED BY <1>1, <3>2, RowsTyped DEF recover_attested_run
  <2> QED BY <1>1, <2>1, ClosedRunKeeps DEF recover_attested_run, InAdmission
<1>2. CASE recover_shadow_run(r) \/ recover_dead_projection_owner(r)
  BY <1>2, ClosedRunKeeps DEF recover_shadow_run, recover_dead_projection_owner, IsPending
<1> QED BY <1>1, <1>2 DEF Recovery

LEMMA StepKeeps == IInv /\ [Next]_vars => IInv' /\ StepOK
<1> SUFFICES ASSUME IInv, [Next]_vars PROVE IInv' /\ StepOK
  OBVIOUS
<1>0. TypeOK /\ TypeOK' /\ RestType
  BY Parts, StepType
<1>1. ASSUME UNCHANGED <<ledger, memory, provider>>, Later PROVE IInv' /\ StepOK
  <2>1. \A s \in Runs : Quiet(s)
    BY <1>1 DEF Quiet, SameAt, ledger, memory, provider
  <2>2. StepOK
    BY <2>1, QuietFaces DEF StepOK
  <2> QED BY <1>0, <1>1, <2>1, <2>2, QuietOK DEF IInv
<1>2. ASSUME NEW c \in Components, ReviewedReset(c) PROVE IInv' /\ StepOK
  <2>1. Later /\ UNCHANGED <<ledger, memory, provider>>
    BY <1>0, <1>2, TransitionType DEF ReviewedReset, Later
  <2> QED BY <1>1, <2>1
<1>3. CASE UNCHANGED vars
  <2>1. UNCHANGED <<ledger, memory, provider>> /\ file' = file
    BY <1>3 DEF vars, ledger, memory, provider
  <2> QED BY <1>0, <1>1, <2>1, NowLater
<1> QED BY <1>2, <1>3, RequestStepKeeps, ComponentStepKeeps, RecoveryKeeps DEF Next

LEMMA AlwaysInv == Spec => []IInv
BY InitInv, StepKeeps, PTL DEF Spec

(* In every reachable state the total of a run is the sum of its rows, and a *)
(* run that delivered a product cost exactly what the provider bills for it: *)
(* a successful row is charged the bill and every other row of a complete    *)
(* run was never sent (TotalsAreHonest).                                     *)
THEOREM RunsCostWhatWasBilled == Spec => []TotalsAreHonest
<1>1. IInv => TotalsAreHonest
  <2> SUFFICES ASSUME IInv, NEW r \in Runs
               PROVE  /\ run[r].total = Charged(row[r])
                      /\ run[r].status = "complete" =>
                            run[r].total = bill[r][Query] + bill[r][Answer]
    BY DEF TotalsAreHonest
  <2>1. RunOK(r) /\ \A c \in Components : CompOK(r, c)
    BY Parts
  <2>2. run[r].status = "complete" => \A c \in Components : row[r][c].charge = bill[r][c]
    BY <2>1, RowsTyped DEF RunOK, CompOK
  <2> QED BY <2>1, <2>2 DEF RunOK, Charged, Components
<1> QED BY <1>1, AlwaysInv, PTL

(* A run closed by its own request or by a recovery is never written again:  *)
(* no claim, settlement, late projection or second recovery changes its row  *)
(* or its components (FinishedRunsStay).                                     *)
THEOREM ClosedRunsStayClosed == Spec => FinishedRunsStay
<1>1. IInv /\ [Next]_vars =>
          [\A r \in Runs : run[r].status \in {"complete", "failed"} =>
               run'[r] = run[r] /\ row'[r] = row[r]]_vars
  BY StepKeeps DEF StepOK, Closed
<1> QED BY <1>1, AlwaysInv, PTL DEF Spec, FinishedRunsStay

(* A grant is consumed for a send only under a generation newer than every   *)
(* claim of its component that ended in an overrun, in any run: the blocking *)
(* transition left the generation of those claims behind, and the dispatch   *)
(* barrier asks for the present one (NoSendAfterOverrun).                    *)
THEOREM SendsFollowTheReview == Spec => NoSendAfterOverrun
<1>1. ASSUME IInv, [Next]_vars, NEW r \in Runs, NEW c \in Components,
             grant[r][c] = "active", grant'[r][c] = "consumed",
             NEW s \in Runs, row[s][c].overrun
      PROVE  binding[s][c] < binding[r][c]
  <2>1. Fresh(r)
    BY <1>1, StepKeeps DEF StepOK
  <2>2. binding[r][c] = file.generation
    BY <1>1, <2>1 DEF Fresh
  <2>3. binding[s][c] < file.generation
    BY <1>1, Parts DEF BindOK
  <2> QED BY <2>2, <2>3
<1>2. IInv /\ [Next]_vars =>
          [\A r \in Runs, c \in Components :
               grant[r][c] = "active" /\ grant'[r][c] = "consumed" =>
                   \A s \in Runs : row[s][c].overrun => binding[s][c] < binding[r][c]]_vars
  BY <1>1
<1> QED BY <1>2, AlwaysInv, PTL DEF Spec, NoSendAfterOverrun

-----------------------------------------------------------------------------
(* The components implement OneShotCall.  The state of the abstract call,    *)
(* as the refinement of RagRun maps it:                                      *)

AbsPhase == [k \in Calls |-> CallPhase(k)]
AbsSends == [k \in Calls |-> sends[k[1]][k[2]]]
AbsBill == [k \in Calls |-> bill[k[1]][k[2]]]
AbsCharge == [k \in Calls |-> IF Settled(row[k[1]][k[2]])
                              THEN row[k[1]][k[2]].charge ELSE 0]

LEMMA AbsAt ==
    ASSUME NEW r \in Runs, NEW c \in Components
    PROVE  /\ <<r, c>> \in Calls
           /\ AbsPhase[<<r, c>>] = Stand(r, c) /\ AbsCharge[<<r, c>>] = Cost(r, c)
           /\ AbsSends[<<r, c>>] = sends[r][c] /\ AbsBill[<<r, c>>] = bill[r][c]
BY DEF Calls, AbsPhase, AbsCharge, AbsSends, AbsBill, CallPhase, Stand, Cost

LEMMA AbsAtNext ==
    ASSUME NEW r \in Runs, NEW c \in Components
    PROVE  /\ AbsPhase'[<<r, c>>] = Stand(r, c)' /\ AbsCharge'[<<r, c>>] = Cost(r, c)'
           /\ AbsSends'[<<r, c>>] = sends'[r][c] /\ AbsBill'[<<r, c>>] = bill'[r][c]
BY DEF Calls, AbsPhase, AbsCharge, AbsSends, AbsBill, CallPhase, Stand, Cost

LEMMA AbsKept ==
    ASSUME NEW r \in Runs, NEW c \in Components, FaceKept(r, c)
    PROVE  /\ AbsPhase'[<<r, c>>] = AbsPhase[<<r, c>>]
           /\ AbsCharge'[<<r, c>>] = AbsCharge[<<r, c>>]
           /\ AbsSends'[<<r, c>>] = AbsSends[<<r, c>>]
           /\ AbsBill'[<<r, c>>] = AbsBill[<<r, c>>]
BY AbsAt, AbsAtNext DEF FaceKept, SameSend

LEMMA AbsShape ==
    /\ AbsPhase = [k \in Calls |-> AbsPhase[k]] /\ AbsCharge = [k \in Calls |-> AbsCharge[k]]
    /\ AbsSends = [k \in Calls |-> AbsSends[k]] /\ AbsBill = [k \in Calls |-> AbsBill[k]]
BY DEF AbsPhase, AbsCharge, AbsSends, AbsBill

LEMMA AbsShapeNext ==
    /\ AbsPhase' = [k \in Calls |-> AbsPhase'[k]]
    /\ AbsCharge' = [k \in Calls |-> AbsCharge'[k]]
    /\ AbsSends' = [k \in Calls |-> AbsSends'[k]]
    /\ AbsBill' = [k \in Calls |-> AbsBill'[k]]
BY DEF AbsPhase, AbsCharge, AbsSends, AbsBill

AbsVars == <<AbsPhase, AbsSends, AbsBill, AbsCharge>>

LEMMA CallsArePairs ==
    \A k \in Calls : \E r \in Runs, c \in Components : k = <<r, c>>
BY DEF Calls

LEMMA InitOneShot == Init => OneShot!Init
<1> SUFFICES ASSUME Init PROVE OneShot!Init
  OBVIOUS
<1>1. \A r \in Runs, c \in Components :
         /\ Stand(r, c) = "absent" /\ Cost(r, c) = 0
         /\ sends[r][c] = 0 /\ bill[r][c] = 0
  BY RowsTyped DEF Init, Stand, Cost, Settled
<1>2. \A k \in Calls : /\ AbsPhase[k] = "absent" /\ AbsCharge[k] = 0
                       /\ AbsSends[k] = 0 /\ AbsBill[k] = 0
  BY <1>1, CallsArePairs, AbsAt
<1>3. /\ AbsPhase = [k \in Calls |-> "absent"] /\ AbsCharge = [k \in Calls |-> 0]
      /\ AbsSends = [k \in Calls |-> 0] /\ AbsBill = [k \in Calls |-> 0]
  BY <1>2, AbsShape
<1> QED BY <1>3 DEF OneShot!Init, AbsPhase, AbsCharge, AbsSends, AbsBill

LEMMA StepOneShot == StepOK => [OneShot!Next]_AbsVars
<1> SUFFICES ASSUME StepOK PROVE OneShot!Next \/ UNCHANGED AbsVars
  OBVIOUS
<1>1. CASE \A r \in Runs, c \in Components : FaceKept(r, c)
  <2>1. \A k \in Calls : /\ AbsPhase'[k] = AbsPhase[k] /\ AbsCharge'[k] = AbsCharge[k]
                         /\ AbsSends'[k] = AbsSends[k] /\ AbsBill'[k] = AbsBill[k]
    BY <1>1, CallsArePairs, AbsKept
  <2> QED BY <2>1, AbsShape, AbsShapeNext DEF AbsVars
<1>2. ASSUME NEW r \in Runs, NEW c \in Components, Move(r, c),
             \A d \in Components \ {c} : FaceKept(r, d),
             \A s \in Runs \ {r}, d \in Components : FaceKept(s, d)
      PROVE  OneShot!Next
  <2> DEFINE k == <<r, c>>
  <2>0. /\ k \in Calls
        /\ AbsPhase[k] = Stand(r, c) /\ AbsCharge[k] = Cost(r, c)
        /\ AbsSends[k] = sends[r][c] /\ AbsBill[k] = bill[r][c]
        /\ AbsPhase'[k] = Stand(r, c)' /\ AbsCharge'[k] = Cost(r, c)'
        /\ AbsSends'[k] = sends'[r][c] /\ AbsBill'[k] = bill'[r][c]
    BY AbsAt, AbsAtNext
  <2>1. \A j \in Calls \ {k} :
            /\ AbsPhase'[j] = AbsPhase[j] /\ AbsCharge'[j] = AbsCharge[j]
            /\ AbsSends'[j] = AbsSends[j] /\ AbsBill'[j] = AbsBill[j]
    <3> SUFFICES ASSUME NEW j \in Calls \ {k}
                 PROVE  /\ AbsPhase'[j] = AbsPhase[j] /\ AbsCharge'[j] = AbsCharge[j]
                        /\ AbsSends'[j] = AbsSends[j] /\ AbsBill'[j] = AbsBill[j]
      OBVIOUS
    <3>1. PICK s \in Runs, d \in Components : j = <<s, d>>
      BY CallsArePairs
    <3>2. FaceKept(s, d)
      BY <1>2, <3>1
    <3> QED BY <3>1, <3>2, AbsKept
  <2> HIDE DEF k
  <2>2. /\ AbsPhase' = [AbsPhase EXCEPT ![k] = AbsPhase'[k]]
        /\ AbsCharge' = [AbsCharge EXCEPT ![k] = AbsCharge'[k]]
        /\ AbsSends' = [AbsSends EXCEPT ![k] = AbsSends'[k]]
        /\ AbsBill' = [AbsBill EXCEPT ![k] = AbsBill'[k]]
    BY <2>0, <2>1, AbsShape, AbsShapeNext
  <2>3. /\ AbsSends'[k] = AbsSends[k] => AbsSends' = AbsSends
        /\ AbsBill'[k] = AbsBill[k] => AbsBill' = AbsBill
        /\ AbsPhase'[k] = AbsPhase[k] => AbsPhase' = AbsPhase
        /\ AbsCharge'[k] = AbsCharge[k] => AbsCharge' = AbsCharge
    BY <2>0, <2>1, AbsShape, AbsShapeNext
  <2>4. [j \in Calls |-> Reserve][k] = Reserve
    BY <2>0
  <2>a. ASSUME AbsPhase[k] = "absent", AbsPhase'[k] = "reserved",
               UNCHANGED <<AbsSends, AbsBill, AbsCharge>>
        PROVE  OneShot!Reserved(k)
    <3>1. AbsPhase' = [AbsPhase EXCEPT ![k] = "reserved"]
      BY <2>a, <2>2
    <3> QED
      BY <2>a, <3>1, Zenon
      DEF OneShot!Reserved, AbsPhase, AbsCharge, AbsSends, AbsBill
  <2>b. ASSUME AbsPhase[k] = "reserved", AbsPhase'[k] = "started",
               UNCHANGED <<AbsSends, AbsBill, AbsCharge>>
        PROVE  OneShot!Start(k)
    <3>1. AbsPhase' = [AbsPhase EXCEPT ![k] = "started"]
      BY <2>b, <2>2
    <3> QED
      BY <2>b, <3>1, Zenon
      DEF OneShot!Start, AbsPhase, AbsCharge, AbsSends, AbsBill
  <2>c. ASSUME AbsPhase[k] = "started" \/ (AbsPhase[k] = "settled" /\ AbsCharge[k] = Reserve),
               AbsSends[k] = 0, AbsSends'[k] = 1, AbsBill'[k] \in Nat,
               UNCHANGED <<AbsPhase, AbsCharge>>
        PROVE  OneShot!Send(k)
    <3>1. AbsSends' = [AbsSends EXCEPT ![k] = 1]
      BY <2>c, <2>2
    <3> QED
      BY <2>c, <2>2, <2>4, <3>1, Zenon
      DEF OneShot!Send, AbsPhase, AbsCharge, AbsSends, AbsBill
  <2>d. ASSUME \/ AbsPhase[k] = "reserved" /\ AbsCharge'[k] = 0
               \/ AbsPhase[k] = "started" /\ AbsCharge'[k] = Reserve
               \/ /\ AbsPhase[k] = "started" /\ AbsSends[k] = 1
                  /\ AbsCharge'[k] = AbsBill[k],
               AbsPhase'[k] = "settled", UNCHANGED <<AbsSends, AbsBill>>
        PROVE  OneShot!Settle(k)
    <3>1. AbsPhase' = [AbsPhase EXCEPT ![k] = "settled"]
      BY <2>d, <2>2
    <3>2. \/ /\ AbsPhase[k] = "reserved"
             /\ AbsCharge' = [AbsCharge EXCEPT ![k] = 0]
          \/ /\ AbsPhase[k] = "started"
             /\ AbsCharge' = [AbsCharge EXCEPT ![k] = Reserve]
          \/ /\ AbsPhase[k] = "started" /\ AbsSends[k] = 1
             /\ AbsCharge' = [AbsCharge EXCEPT ![k] = AbsBill[k]]
      BY <2>d, <2>2
    <3> QED
      BY <2>d, <2>4, <3>1, <3>2, Zenon
      DEF OneShot!Settle, AbsPhase, AbsCharge, AbsSends, AbsBill
  <2>e. ASSUME AbsPhase[k] = "reserved", AbsPhase'[k] = "forfeited",
               AbsCharge'[k] = Reserve, UNCHANGED <<AbsSends, AbsBill>>
        PROVE  OneShot!Forfeit(k)
    <3>1. /\ AbsPhase' = [AbsPhase EXCEPT ![k] = "forfeited"]
          /\ AbsCharge' = [AbsCharge EXCEPT ![k] = Reserve]
      BY <2>e, <2>2
    <3> QED
      BY <2>e, <2>4, <3>1, Zenon
      DEF OneShot!Forfeit, AbsPhase, AbsCharge, AbsSends, AbsBill
  <2>5. \/ OneShot!Reserved(k) \/ OneShot!Start(k) \/ OneShot!Send(k)
        \/ OneShot!Settle(k) \/ OneShot!Forfeit(k)
    BY <1>2, <2>0, <2>3, <2>a, <2>b, <2>c, <2>d, <2>e DEF Move, SameSend
  <2> QED BY <2>0, <2>5 DEF OneShot!Next
<1>3. CASE \E r \in Runs : /\ OneMoves(r)
                           /\ \A s \in Runs \ {r}, d \in Components : FaceKept(s, d)
  BY <1>1, <1>2, <1>3 DEF OneMoves
<1> QED BY <1>1, <1>3 DEF StepOK

(* Every paid component is reserved before it is sent, sent at most once and *)
(* settled once, by its request or by a recovery, at its bill, its reserve   *)
(* or, unsent, for nothing (ComponentsAreOneShot).                           *)
THEOREM ComponentsImplementOneShot == Spec => ComponentsAreOneShot
<1>1. IInv /\ [Next]_vars => [OneShot!Next]_AbsVars
  BY StepKeeps, StepOneShot
<1> QED BY <1>1, InitOneShot, AlwaysInv, PTL
        DEF Spec, ComponentsAreOneShot, OneShot!Spec, OneShot!oneShotVars, AbsVars,
            AbsPhase, AbsCharge, AbsSends, AbsBill

-----------------------------------------------------------------------------
(* What the abstract call makes of the money of a run. *)

(* A request that reached the provider stands as started or as settled at    *)
(* its bill or its reserve.                                                  *)
SentStands(r, c) ==
    sends[r][c] = 1 =>
        /\ Stand(r, c) \in {"started", "settled"}
        /\ Stand(r, c) = "settled" => Cost(r, c) \in {Reserve, bill[r][c]}

SentInv == IInv /\ \A r \in Runs, c \in Components : SentStands(r, c)

LEMMA InitSent == Init => SentInv
BY InitInv DEF Init, SentInv, SentStands

LEMMA MoveKeepsSent ==
    ASSUME NEW r \in Runs, NEW c \in Components, SentStands(r, c),
           FaceKept(r, c) \/ Move(r, c)
    PROVE  SentStands(r, c)'
<1>1. CASE FaceKept(r, c)
  BY <1>1 DEF FaceKept, SameSend, SentStands
<1>2. CASE Move(r, c)
  BY <1>2 DEF Move, SameSend, SentStands
<1> QED BY <1>1, <1>2

LEMMA StepSent == SentInv /\ [Next]_vars => SentInv'
<1> SUFFICES ASSUME SentInv, [Next]_vars PROVE SentInv'
  OBVIOUS
<1>1. IInv' /\ StepOK
  BY StepKeeps DEF SentInv
<1>2. ASSUME NEW r \in Runs, NEW c \in Components PROVE SentStands(r, c)'
  <2>1. FaceKept(r, c) \/ Move(r, c)
    BY <1>1 DEF StepOK, OneMoves
  <2>2. SentStands(r, c)
    BY DEF SentInv
  <2> QED BY <2>1, <2>2, MoveKeepsSent
<1> QED BY <1>1, <1>2 DEF SentInv

NothingIsFree ==
    \A r \in Runs :
        /\ \A c \in Components :
              sends[r][c] = 1 => row[r][c].charge \in {Reserve, bill[r][c]}
        /\ (\A c \in Components : bill[r][c] <= Reserve) =>
              bill[r][Query] + bill[r][Answer] <= run[r].total

(* Whoever closes a run and whenever, a component that reached the provider  *)
(* stands in the ledger at its reserve or its bill: unless an answer costs   *)
(* more than its reserve, the total of a run covers what the provider bills. *)
THEOREM RunsCoverTheirBills == Spec => []NothingIsFree
<1>1. SentInv => NothingIsFree
  <2> SUFFICES ASSUME SentInv, NEW r \in Runs
               PROVE  /\ \A c \in Components : sends[r][c] = 1 =>
                             row[r][c].charge \in {Reserve, bill[r][c]}
                      /\ (\A c \in Components : bill[r][c] <= Reserve) =>
                             bill[r][Query] + bill[r][Answer] <= run[r].total
    BY DEF NothingIsFree
  <2>0. \A c \in Components :
            row[r][c] \in RowRecords /\ bill[r][c] \in Nat /\ Reserve \in Nat
    BY Parts, RagAssumption DEF SentInv, LedgerType, RowPairs, RestType
  <2>1. RunOK(r) /\ \A c \in Components : CompOK(r, c) /\ SentStands(r, c)
    BY Parts DEF SentInv
  <2>2. ASSUME NEW c \in Components, sends[r][c] = 1
        PROVE  row[r][c].charge \in {Reserve, bill[r][c]}
    <3>1. CASE Settled(row[r][c])
      <4>1. Stand(r, c) = "settled"
        BY <2>1, <2>2, <3>1 DEF Stand, SentStands
      <4> QED BY <2>1, <2>2, <3>1, <4>1 DEF SentStands, Cost
    <3>2. CASE ~Settled(row[r][c])
      <4>1. row[r][c].state # "not_attempted"
        BY <2>1, <2>2 DEF CompOK
      <4>2. row[r][c].state = "dispatching"
        BY <2>0, <3>2, <4>1 DEF RowRecords, Settled
      <4> QED BY <2>1, <4>2 DEF CompOK
    <3> QED BY <3>1, <3>2
  <2>3. ASSUME \A c \in Components : bill[r][c] <= Reserve
        PROVE  bill[r][Query] + bill[r][Answer] <= run[r].total
    <3>1. ASSUME NEW c \in Components PROVE bill[r][c] <= row[r][c].charge
      <4>1. row[r][c].charge \in Nat /\ bill[r][c] \in Nat /\ Reserve \in Nat
        BY <2>0 DEF RowRecords
      <4>2. sends[r][c] = 0 => bill[r][c] = 0
        BY <2>1 DEF CompOK
      <4>3. sends[r][c] \in {0, 1}
        BY <2>1 DEF CompOK
      <4> QED BY <2>2, <2>3, <4>1, <4>2, <4>3
    <3>2. /\ row[r][Query].charge \in Nat /\ bill[r][Query] \in Nat
          /\ row[r][Answer].charge \in Nat /\ bill[r][Answer] \in Nat
      BY <2>0 DEF RowRecords, Components
    <3> QED BY <2>1, <3>1, <3>2 DEF RunOK, Charged, Components
  <2> QED BY <2>2, <2>3
<1>2. Spec => []SentInv
  BY InitSent, StepSent, PTL DEF Spec
<1> QED BY <1>1, <1>2, PTL

=============================================================================
