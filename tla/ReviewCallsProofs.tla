-------------------------- MODULE ReviewCallsProofs --------------------------
(* Theorems about ReviewCalls, for every set of agents, batches and workers, *)
(* every usage, ceiling and bound.                                           *)
EXTENDS ReviewCalls, TLAPS

-----------------------------------------------------------------------------
(* Type correctness. *)

Rows == [status : Terminal \cup {"none", "claimed"},
         token : Nat, attempt : {0, 1}, expired : BOOLEAN,
         charge : Nat, overrun : BOOLEAN]

Threads == [pc : {"idle", "claimed", "granted", "checked", "refused",
                  "answered"},
            call : Calls \cup {NoUsage}, token : Nat,
            usage : Usages \cup {NoUsage}]

LEMMA SettledType ==
    ASSUME call \in [Calls -> Rows], NEW c \in Calls, NEW s \in Terminal,
           NEW n \in Nat, NEW o \in BOOLEAN
    PROVE  Settled(c, s, n, o) \in [Calls -> Rows]
<1> DEFINE r == [call[c] EXCEPT !.status = s, !.charge = n, !.overrun = o]
<1>1. call[c] \in Rows
  OBVIOUS
<1>2. r \in Rows
  BY <1>1 DEF Rows
<1>3. Settled(c, s, n, o) = [call EXCEPT ![c] = r]
  BY DEF Settled
<1> HIDE DEF r
<1> QED BY <1>2, <1>3

LEMMA FailedType ==
    ASSUME call \in [Calls -> Rows], NEW c \in Calls
    PROVE  /\ Settled(c, "failed", 0, FALSE) \in [Calls -> Rows]
           /\ Settled(c, "failed", Reserve, FALSE) \in [Calls -> Rows]
           /\ Settled(c, "failed", 0, call[c].overrun) \in [Calls -> Rows]
<1>1. call[c].overrun \in BOOLEAN /\ Reserve \in Nat /\ "failed" \in Terminal
  BY CallsAssumption DEF Rows, Terminal
<1>2. \A n \in Nat, o \in BOOLEAN :
          Settled(c, "failed", n, o) \in [Calls -> Rows]
  BY <1>1, SettledType
<1>3. FALSE \in BOOLEAN /\ 0 \in Nat
  OBVIOUS
<1> QED BY <1>1, <1>2, <1>3

LEMMA TrippedType ==
    ASSUME safety \in [Purposes -> [version : Nat, open : BOOLEAN]],
           NEW p \in Purposes
    PROVE  Tripped(p) \in [Purposes -> [version : Nat, open : BOOLEAN]]
BY DEF Tripped

LEMMA ClaimsType ==
    ASSUME worker \in [Workers -> Threads], NEW w \in Workers,
           NEW c \in Calls, NEW t \in Nat, Claims(w, c, t)
    PROVE  worker' \in [Workers -> Threads]
BY DEF Claims, Threads

LEMMA LeavesType ==
    ASSUME worker \in [Workers -> Threads], NEW w \in Workers, Leaves(w)
    PROVE  worker' \in [Workers -> Threads]
BY DEF Leaves, Threads, Idle

LEMMA ChargeType ==
    ASSUME NEW w \in Workers, worker \in [Workers -> Threads],
           NEW u \in {worker[w].usage, NoUsage}
    PROVE  Charge(u) \in Nat
BY CallsAssumption DEF Charge, Threads

LEMMA AdminType ==
    ASSUME call \in [Calls -> Rows], NEW c \in Calls
    PROVE  AdminSettled(c) \in [Calls -> Rows]
<1> DEFINE n == IF call[c].attempt = 1 THEN Reserve ELSE 0
           r == [call[c] EXCEPT !.status = "failed", !.token = 0,
                                !.charge = n]
<1>1. n \in Nat
  BY CallsAssumption
<1> HIDE DEF n
<1>2. r \in Rows
  BY <1>1 DEF Rows, Terminal
<1>3. AdminSettled(c) = [call EXCEPT ![c] = r]
  BY DEF AdminSettled, n
<1> QED BY <1>2, <1>3

LEMMA InitType == Init => TypeOK
BY CallsAssumption DEF Init, TypeOK, NoCall, Idle, Purposes, Terminal

LEMMA RowType ==
    ASSUME call \in [Calls -> Rows], NEW c \in Calls
    PROVE  call[c].token + 1 \in Nat /\ call[c].token \in Nat
BY DEF Rows

LEMMA InsertedType ==
    ASSUME call \in [Calls -> Rows], NEW c \in Calls,
           call' = [call EXCEPT ![c] =
               [NoCall EXCEPT !.status = "claimed", !.token = 1]]
    PROVE  call' \in [Calls -> Rows]
BY DEF NoCall, Rows

LEMMA LeasedType ==
    ASSUME call \in [Calls -> Rows], NEW c \in Calls, NewLease(c)
    PROVE  call' \in [Calls -> Rows]
<1> DEFINE r == [call[c] EXCEPT !.token = call[c].token + 1,
                                !.expired = FALSE]
<1>1. r \in Rows
  <2>1. call[c] \in Rows /\ call[c].token + 1 \in Nat
    BY RowType
  <2> QED BY <2>1 DEF Rows
<1>2. call' = [call EXCEPT ![c] = r]
  BY DEF NewLease
<1> QED BY <1>1, <1>2

LEMMA StartedType ==
    ASSUME call \in [Calls -> Rows], NEW c \in Calls,
           \/ call' = [call EXCEPT ![c].attempt = 1]
           \/ call' = [call EXCEPT ![c].attempt = 1, ![c].expired = FALSE]
    PROVE  call' \in [Calls -> Rows]
BY DEF Rows

LEMMA BecomesType ==
    ASSUME worker \in [Workers -> Threads], NEW w \in Workers,
           NEW pc \in {"granted", "checked", "refused"}, Becomes(w, pc)
    PROVE  worker' \in [Workers -> Threads]
BY DEF Becomes, Threads

LEMMA StepType == TypeOK /\ [Next]_vars => TypeOK'
<1> SUFFICES ASSUME TypeOK, [Next]_vars PROVE TypeOK'
  OBVIOUS
<1>0. /\ call \in [Calls -> Rows] /\ worker \in [Workers -> Threads]
      /\ safety \in [Purposes -> [version : Nat, open : BOOLEAN]]
      /\ Agents \subseteq Calls /\ Batches \subseteq Calls
      /\ Purposes = {"extraction", "validation"}
      /\ Reserve \in Nat
  BY CallsAssumption DEF TypeOK, Calls, Purposes, Rows, Threads
<1>1. ASSUME NEW w \in Workers, NEW b \in Batches, ClaimValidation(w, b)
      PROVE  TypeOK'
  <2>1. call' \in [Calls -> Rows] /\ worker' \in [Workers -> Threads]
    BY <1>0, <1>1, ClaimsType, RowType, InsertedType, LeasedType
    DEF ClaimValidation
  <2> QED BY <2>1, <1>1 DEF ClaimValidation, TypeOK, Rows, Threads
<1>2. ASSUME NEW w \in Workers, NEW b \in Batches, StartValidation(w, b)
      PROVE  TypeOK'
  <2>1. call' \in [Calls -> Rows]
    <3>1. \/ call' = [call EXCEPT ![b].attempt = 1]
          \/ call' = Settled(b, "failed", 0, FALSE)
      BY <1>2 DEF StartValidation
    <3> QED BY <1>0, <3>1, FailedType, StartedType
  <2>3. worker' \in [Workers -> Threads]
    <3>1. Becomes(w, "granted") \/ Leaves(w)
      BY <1>2 DEF StartValidation
    <3> QED BY <1>0, <3>1, LeavesType, BecomesType
  <2>2. live' \subseteq Calls
    <3>1. live' = live \cup {b} \/ live' = live
      BY <1>2 DEF StartValidation
    <3> QED BY <1>0, <3>1 DEF TypeOK
  <2> QED BY <2>1, <2>2, <2>3, <1>2 DEF StartValidation, TypeOK, Rows, Threads
<1>3. ASSUME NEW w \in Workers, NEW b \in Batches, CheckValidation(w, b)
      PROVE  TypeOK'
  <2>1. worker' \in [Workers -> Threads]
    BY <1>0, <1>3, BecomesType DEF CheckValidation
  <2>2. live' \subseteq Calls
    BY <1>3 DEF CheckValidation, TypeOK
  <2> QED BY <2>1, <2>2, <1>3 DEF CheckValidation, TypeOK, Threads
<1>4. ASSUME NEW w \in Workers, NEW b \in Batches, CompleteValidation(w, b)
      PROVE  TypeOK'
  <2>1. worker[w].usage \in Nat
    BY <1>0, <1>4, CallsAssumption DEF CompleteValidation, Threads
  <2>2. validation_overrun(b, worker[w].usage) \in BOOLEAN
    BY DEF validation_overrun
  <2>3. call' \in [Calls -> Rows]
    BY <1>0, <1>4, <2>1, <2>2, SettledType DEF CompleteValidation, Terminal
  <2>4. safety' \in [Purposes -> [version : Nat, open : BOOLEAN]]
    BY <1>0, <1>4, TrippedType DEF CompleteValidation, open_budget_breaker
  <2>5. worker' \in [Workers -> Threads]
    BY <1>0, <1>4, LeavesType DEF CompleteValidation
  <2> QED
    BY <2>3, <2>4, <2>5, <1>4
    DEF CompleteValidation, TypeOK, Rows, Threads
<1>5. ASSUME NEW w \in Workers, NEW b \in Batches, FailValidation(w, b)
      PROVE  TypeOK'
  <2> PICK u \in {worker[w].usage, NoUsage} :
           /\ call' = Settled(b, "failed", Charge(u), Charge(u) > Reserve)
           /\ safety' = IF Charge(u) > Reserve
                        THEN open_budget_breaker ELSE safety
    BY <1>5 DEF FailValidation
  <2>1. call' \in [Calls -> Rows]
    <3>1. Charge(u) \in Nat /\ (Charge(u) > Reserve) \in BOOLEAN
      BY <1>0, ChargeType
    <3> QED BY <1>0, <3>1, SettledType DEF Terminal
  <2>2. safety' \in [Purposes -> [version : Nat, open : BOOLEAN]]
    BY <1>0, TrippedType DEF open_budget_breaker
  <2>3. worker' \in [Workers -> Threads]
    BY <1>0, <1>5, LeavesType DEF FailValidation
  <2> QED BY <2>1, <2>2, <2>3, <1>5 DEF FailValidation, TypeOK, Rows, Threads
<1>6. ASSUME NEW w \in Workers, NEW b \in Batches, CancelValidation(w, b)
      PROVE  TypeOK'
  <2>1. call' \in [Calls -> Rows] /\ worker' \in [Workers -> Threads]
    BY <1>0, <1>6, FailedType, LeavesType DEF CancelValidation
  <2> QED BY <2>1, <1>6 DEF CancelValidation, TypeOK, Rows, Threads
<1>7. ASSUME NEW b \in Batches, RecoverValidation(b) PROVE TypeOK'
  <2>1. call' \in [Calls -> Rows]
    BY <1>0, <1>7, FailedType DEF RecoverValidation
  <2> QED BY <2>1, <1>7 DEF RecoverValidation, TypeOK, Rows, Threads
<1>8. ASSUME NEW w \in Workers, NEW a \in Agents, ClaimExtraction(w, a)
      PROVE  TypeOK'
  <2>1. call' \in [Calls -> Rows] /\ worker' \in [Workers -> Threads]
    BY <1>0, <1>8, ClaimsType, RowType, InsertedType
    DEF ClaimExtraction
  <2> QED BY <2>1, <1>8 DEF ClaimExtraction, TypeOK, Rows, Threads
<1>9. ASSUME NEW w \in Workers, NEW a \in Agents, StartExtraction(w, a)
      PROVE  TypeOK'
  <2>1. call' \in [Calls -> Rows]
    <3>1. \/ call' = [call EXCEPT ![a].attempt = 1, ![a].expired = FALSE]
          \/ call' = Settled(a, "failed", 0, call[a].overrun)
      BY <1>9 DEF StartExtraction
    <3> QED BY <1>0, <3>1, FailedType, StartedType
  <2>3. worker' \in [Workers -> Threads]
    <3>1. Becomes(w, "granted") \/ Leaves(w)
      BY <1>9 DEF StartExtraction
    <3> QED BY <1>0, <3>1, LeavesType, BecomesType
  <2>2. live' \subseteq Calls
    BY <1>0, <1>9 DEF StartExtraction, TypeOK
  <2> QED BY <2>1, <2>2, <2>3, <1>9 DEF StartExtraction, TypeOK, Rows, Threads
<1>10. ASSUME NEW w \in Workers, NEW a \in Agents, CheckExtraction(w, a)
       PROVE  TypeOK'
  <2>1. worker' \in [Workers -> Threads]
    BY <1>0, <1>10, BecomesType DEF CheckExtraction
  <2>2. live' \subseteq Calls
    BY <1>10 DEF CheckExtraction, TypeOK
  <2> QED BY <2>1, <2>2, <1>10 DEF CheckExtraction, TypeOK, Threads
<1>11. ASSUME NEW w \in Workers, NEW a \in Agents, CompleteExtraction(w, a)
       PROVE  TypeOK'
  <2> DEFINE n == Charge(worker[w].usage)
  <2>1. PICK s \in Terminal :
            call' = Settled(a, s, n, extraction_overrun(a, n))
    BY <1>11 DEF CompleteExtraction, Terminal
  <2>2. n \in Nat /\ extraction_overrun(a, n) \in BOOLEAN
    BY <1>0, ChargeType DEF extraction_overrun
  <2>3. call' \in [Calls -> Rows]
    BY <1>0, <2>1, <2>2, SettledType
  <2>4. safety' \in [Purposes -> [version : Nat, open : BOOLEAN]]
    BY <1>0, <1>11, TrippedType DEF CompleteExtraction, open_overrun_breaker
  <2>5. worker' \in [Workers -> Threads]
    BY <1>0, <1>11, LeavesType DEF CompleteExtraction
  <2> QED
    BY <2>3, <2>4, <2>5, <1>11
    DEF CompleteExtraction, TypeOK, Rows, Threads
<1>12. ASSUME NEW w \in Workers, NEW a \in Agents, FailExtraction(w, a)
       PROVE  TypeOK'
  <2> PICK u \in {worker[w].usage, NoUsage} :
           LET started == call[a].attempt = 1
               charge == IF started THEN Charge(u) ELSE 0
               over == started /\ extraction_overrun(a, charge)
           IN /\ call' = Settled(a, "failed", charge, over)
              /\ safety' = IF over THEN open_overrun_breaker ELSE safety
    BY <1>12 DEF FailExtraction
  <2>1. call' \in [Calls -> Rows]
    BY <1>0, ChargeType, SettledType DEF Terminal
  <2>2. safety' \in [Purposes -> [version : Nat, open : BOOLEAN]]
    BY <1>0, TrippedType DEF open_overrun_breaker
  <2>3. worker' \in [Workers -> Threads]
    BY <1>0, <1>12, LeavesType DEF FailExtraction
  <2> QED BY <2>1, <2>2, <2>3, <1>12 DEF FailExtraction, TypeOK, Rows, Threads
<1>13. ASSUME NEW w \in Workers, NEW a \in Agents, CancelExtraction(w, a)
       PROVE  TypeOK'
  <2>1. call' \in [Calls -> Rows] /\ worker' \in [Workers -> Threads]
    BY <1>0, <1>13, FailedType, LeavesType DEF CancelExtraction
  <2>2. live' \subseteq Calls
    BY <1>13 DEF CancelExtraction, TypeOK
  <2> QED BY <2>1, <2>2, <1>13 DEF CancelExtraction, TypeOK, Rows, Threads
<1>14. ASSUME NEW w \in Workers, NEW a \in Agents, RecoverExtraction(w, a)
       PROVE  TypeOK'
  <2>1. call' \in [Calls -> Rows]
    <3>1. \/ NewLease(a)
          \/ call' = Settled(a, "failed", 0, FALSE)
          \/ call' = Settled(a, "failed", Reserve, FALSE)
      BY <1>14 DEF RecoverExtraction
    <3> QED BY <1>0, <3>1, FailedType, LeasedType
  <2>2. worker' \in [Workers -> Threads]
    <3>1. Claims(w, a, call[a].token + 1) \/ Leaves(w)
      BY <1>14 DEF RecoverExtraction
    <3> QED BY <1>0, <3>1, LeavesType, ClaimsType, RowType
  <2> QED BY <2>1, <2>2, <1>14 DEF RecoverExtraction, TypeOK, Rows, Threads
<1>15. ASSUME NEW a \in Agents, ReplayBindingFailure(a) PROVE TypeOK'
  <2>1. call' \in [Calls -> Rows]
    BY <1>0, <1>15 DEF ReplayBindingFailure, Terminal, Rows
  <2> QED BY <2>1, <1>15 DEF ReplayBindingFailure, TypeOK, Rows, Threads
<1>16. ASSUME NEW w \in Workers, NEW c \in Calls, Send(w, c) PROVE TypeOK'
  <2>1. worker' \in [Workers -> Threads]
    BY <1>0, <1>16, BecomesType DEF Send, Threads
  <2>2. sent' \in [Calls -> Nat] /\ billed' \in [Calls -> Nat]
    BY <1>16, CallsAssumption DEF Send, TypeOK
  <2>3. live' \subseteq Calls
    BY <1>16 DEF Send, TypeOK
  <2> QED BY <2>1, <2>2, <2>3, <1>16 DEF Send, TypeOK, Rows, Threads
<1>17. ASSUME NEW w \in Workers, GiveUp(w) PROVE TypeOK'
  BY <1>0, <1>17, LeavesType DEF GiveUp, TypeOK, Threads
<1>18. CASE Crash
  BY <1>18 DEF Crash, TypeOK, Idle
<1>19. ASSUME NEW c \in Calls, RecoverExpired(c) PROVE TypeOK'
  BY <1>0, <1>19, AdminType DEF RecoverExpired, TypeOK, Rows
<1>20. ASSUME NEW c \in Calls, SettleCancelled(c) PROVE TypeOK'
  BY <1>0, <1>20, AdminType DEF SettleCancelled, TypeOK, Rows
<1>21. CASE CancelWorkflow
  BY <1>21 DEF CancelWorkflow, TypeOK
<1>22. ASSUME NEW c \in Calls, LeaseExpires(c) PROVE TypeOK'
  <2>1. call' \in [Calls -> Rows]
    <3> DEFINE r == [call[c] EXCEPT !.expired = TRUE]
    <3>1. call[c] \in Rows
      BY <1>0
    <3>2. r \in Rows
      BY <3>1 DEF Rows
    <3>3. call' = [call EXCEPT ![c] = r]
      BY <1>22 DEF LeaseExpires
    <3> HIDE DEF r
    <3> QED BY <1>0, <3>2, <3>3
  <2> QED BY <2>1, <1>22 DEF LeaseExpires, TypeOK, Rows
<1>23. CASE WorldChanges
  <2> DEFINE W == [cancelled : BOOLEAN, closed : BOOLEAN,
                   key : {"current", "changed", "unready"},
                   sources : BOOLEAN, permitted : BOOLEAN,
                   rollout : BOOLEAN, changes : Nat]
  <2>1. world \in W
    BY DEF TypeOK
  <2>2. world.changes + 1 \in Nat
    BY <2>1
  <2>3. ASSUME NEW k \in {"current", "changed", "unready"},
               world' = [world EXCEPT !.key = k, !.changes = @ + 1]
        PROVE  world' \in W
    BY <2>1, <2>2, <2>3
  <2>4. ASSUME NEW x \in BOOLEAN,
               \/ world' = [world EXCEPT !.sources = x, !.changes = @ + 1]
               \/ world' = [world EXCEPT !.permitted = x, !.changes = @ + 1]
               \/ world' = [world EXCEPT !.rollout = x, !.changes = @ + 1]
        PROVE  world' \in W
    BY <2>1, <2>2, <2>4
  <2>5. world' \in W
    <3>1. (~world.sources) \in BOOLEAN /\ (~world.permitted) \in BOOLEAN
      OBVIOUS
    <3> QED BY <1>23, <2>3, <2>4, <3>1 DEF WorldChanges
  <2> QED BY <1>23, <2>5 DEF WorldChanges, TypeOK
<1>24. CASE UNCHANGED vars
  BY <1>24 DEF vars, TypeOK
<1> QED
  BY <1>1, <1>2, <1>3, <1>4, <1>5, <1>6, <1>7, <1>8, <1>9, <1>10, <1>11,
     <1>12, <1>13, <1>14, <1>15, <1>16, <1>17, <1>18, <1>19, <1>20, <1>21,
     <1>22, <1>23, <1>24 DEF Next

(* The rows, the threads and the memory of the stores keep their types.      *)
THEOREM TypeCorrect == Spec => []TypeOK
BY InitType, StepType, PTL DEF Spec

-----------------------------------------------------------------------------
(* What a step does to one call and to one thread. *)

SameRow(c) ==
    /\ call'[c].status = call[c].status
    /\ call'[c].attempt = call[c].attempt
    /\ call'[c].charge = call[c].charge
    /\ call'[c].overrun = call[c].overrun

SameSend(c) == sent'[c] = sent[c] /\ billed'[c] = billed[c]

Same(c) == SameRow(c) /\ SameSend(c) /\ (c \in live' => c \in live)

Inserted(c) ==
    /\ SameSend(c) /\ (c \in live' => c \in live)
    /\ call[c].status = "none"
    /\ call'[c].status = "claimed"
    /\ call'[c].attempt = 0
    /\ call'[c].charge = 0

Started(c) ==
    /\ SameSend(c)
    /\ call[c].status = "claimed" /\ call'[c].status = "claimed"
    /\ call[c].attempt = 0 /\ call'[c].attempt = 1
    /\ call'[c].charge = call[c].charge

(* An answer a thread holds to the call. *)
Answer(w, c) == worker[w].pc = "answered" /\ worker[w].call = c

Settles(c) ==
    /\ SameSend(c) /\ (c \in live' => c \in live)
    /\ call'[c].status \in Terminal
    /\ call'[c].attempt = call[c].attempt
    /\ call'[c].status = "completed" => \E w \in Workers :
          /\ Answer(w, c)
          /\ call'[c].charge = Charge(worker[w].usage)
          /\ call'[c].charge <= Reserve
          /\ ~call'[c].overrun
          /\ c \in Batches => worker[w].usage # NoUsage
    /\ c \in Batches =>
          /\ call[c].status = "claimed"
          /\ \/ call[c].attempt = 0 /\ call'[c].charge = 0
             \/ call[c].attempt = 1 /\ call'[c].charge = Reserve
             \/ /\ call[c].attempt = 1
                /\ \E w \in Workers :
                      /\ Answer(w, c)
                      /\ worker[w].usage # NoUsage
                      /\ call'[c].charge = worker[w].usage

Sends(c) ==
    /\ SameRow(c)
    /\ c \in live /\ c \notin live'
    /\ sent' = [sent EXCEPT ![c] = @ + 1]
    /\ \E bill \in Usages : billed' = [billed EXCEPT ![c] = bill]

Touches(c) == Inserted(c) \/ Started(c) \/ Settles(c) \/ Sends(c)

CallsStep ==
    \/ \A c \in Calls : Same(c)
    \/ \E c \in Calls : Touches(c) /\ \A d \in Calls \ {c} : Same(d)

ThreadStep(w) ==
    \/ worker'[w] = worker[w]
    \/ /\ worker'[w].pc # "answered"
       /\ \/ worker'[w].usage = NoUsage
          \/ /\ worker[w].pc # "answered"
             /\ worker'[w].usage = worker[w].usage
    \/ \E c \in Calls :
          /\ Sends(c)
          /\ worker'[w].pc = "answered" /\ worker'[w].call = c
          /\ worker'[w].usage \in {billed'[c], NoUsage}

LEMMA SettledIs ==
    ASSUME call \in [Calls -> Rows], NEW c \in Calls, NEW s, NEW n, NEW o
    PROVE  /\ Settled(c, s, n, o)[c].status = s
           /\ Settled(c, s, n, o)[c].charge = n
           /\ Settled(c, s, n, o)[c].attempt = call[c].attempt
           /\ Settled(c, s, n, o)[c].overrun = o
           /\ \A d \in Calls \ {c} : Settled(c, s, n, o)[d] = call[d]
BY DEF Settled, Rows

LEMMA FailedIs ==
    ASSUME call \in [Calls -> Rows], NEW c \in Calls, NEW n,
           \/ call' = Settled(c, "failed", n, FALSE)
           \/ call' = Settled(c, "failed", n, call[c].overrun)
    PROVE  /\ call'[c].status = "failed"
           /\ call'[c].charge = n
           /\ call'[c].attempt = call[c].attempt
           /\ \A d \in Calls \ {c} : call'[d] = call[d]
BY DEF Settled, Rows

LEMMA AdminIs ==
    ASSUME call \in [Calls -> Rows], NEW c \in Calls
    PROVE  /\ AdminSettled(c)[c].status = "failed"
           /\ AdminSettled(c)[c].charge =
                  IF call[c].attempt = 1 THEN Reserve ELSE 0
           /\ AdminSettled(c)[c].attempt = call[c].attempt
           /\ \A d \in Calls \ {c} : AdminSettled(c)[d] = call[d]
BY DEF AdminSettled, Rows

(* Only an answer carries usage. *)
UsageOfAnswers ==
    \A w \in Workers : worker[w].pc # "answered" => worker[w].usage = NoUsage

LEMMA StepCalls == TypeOK /\ UsageOfAnswers /\ [Next]_vars => CallsStep
<1> SUFFICES ASSUME TypeOK, UsageOfAnswers, [Next]_vars PROVE CallsStep
  OBVIOUS
<1>0. /\ call \in [Calls -> Rows] /\ worker \in [Workers -> Threads]
      /\ sent \in [Calls -> Nat] /\ billed \in [Calls -> Nat]
      /\ Agents \subseteq Calls /\ Batches \subseteq Calls
      /\ Agents \cap Batches = {}
      /\ \A c \in Calls : call[c].attempt \in {0, 1}
      /\ Reserve \in Nat
  BY CallsAssumption DEF TypeOK, Calls, Rows, Threads
<1> DEFINE Frame == UNCHANGED <<sent, billed>>
<1>s. ASSUME UNCHANGED call, Frame, live' \subseteq live
         PROVE  CallsStep
  BY <1>s DEF CallsStep, Same, SameRow, SameSend
<1>t. ASSUME NEW c \in Calls, Frame, live' \subseteq live,
                  Settles(c), \A d \in Calls \ {c} : call'[d] = call[d]
           PROVE  CallsStep
  BY <1>t DEF CallsStep, Touches, Same, SameRow, SameSend
<1>1. ASSUME NEW w \in Workers, NEW b \in Batches, ClaimValidation(w, b)
      PROVE  CallsStep
  <2>1. CASE call[b].status = "none"
    <3>1. Inserted(b) /\ \A d \in Calls \ {b} : Same(d)
      BY <1>0, <1>1, <2>1, ZenonT(60)
      DEF ClaimValidation, NoCall, Inserted, Same, SameRow, SameSend
    <3> QED BY <1>0, <3>1 DEF CallsStep, Touches
  <2>2. CASE call[b].status # "none"
    <3>1. NewLease(b) /\ Frame /\ live' = live
      BY <1>1, <2>2 DEF ClaimValidation
    <3>2. \A d \in Calls : Same(d)
      BY <1>0, <3>1 DEF NewLease, Same, SameRow, SameSend, Rows
    <3> QED BY <3>1, <3>2 DEF CallsStep
  <2> QED BY <2>1, <2>2
<1>2. ASSUME NEW w \in Workers, NEW b \in Batches, StartValidation(w, b)
      PROVE  CallsStep
  <2>1. CASE ValidationGuards
    <3>1. Started(b) /\ \A d \in Calls \ {b} : Same(d)
      BY <1>0, <1>2, <2>1
      DEF StartValidation, validation_startable, Started, Same, SameRow,
          SameSend, Rows
    <3> QED BY <1>0, <3>1 DEF CallsStep, Touches
  <2>2. CASE ~ValidationGuards
    <3>1. call' = Settled(b, "failed", 0, FALSE) /\ call[b].attempt = 0
          /\ call[b].status = "claimed" /\ live' = live /\ Frame
      BY <1>2, <2>2 DEF StartValidation, validation_startable
    <3>2. Settles(b)
      BY <1>0, <3>1, FailedIs DEF Settles, SameSend, Terminal
    <3> QED BY <1>0, <3>1, <3>2, <1>t, FailedIs
  <2> QED BY <2>1, <2>2
<1>3. ASSUME NEW w \in Workers, NEW b \in Batches, CheckValidation(w, b)
      PROVE  CallsStep
  BY <1>3, <1>s DEF CheckValidation
<1>4. ASSUME NEW w \in Workers, NEW b \in Batches, CompleteValidation(w, b)
      PROVE  CallsStep
  <2> DEFINE n == worker[w].usage
             o == validation_overrun(b, n)
  <2>1. PICK s \in Terminal :
          /\ call' = Settled(b, s, n, o)
          /\ s = "completed" => ~o
    BY <1>4 DEF CompleteValidation, Terminal
  <2>2. /\ Answer(w, b) /\ n # NoUsage /\ live' = live /\ Frame
        /\ call[b].status = "claimed" /\ call[b].attempt = 1
    BY <1>4 DEF CompleteValidation, Holds, Answer
  <2>3. n \in Nat /\ Charge(n) = n
    BY <1>0, <2>2, CallsAssumption DEF Threads, Charge
  <2>4. s = "completed" => n <= Reserve
    BY <1>0, <2>1, <2>3 DEF validation_overrun
  <2> HIDE DEF o
  <2>5. call'[b].overrun = o /\ call'[b].charge = n /\ call'[b].status = s
        /\ call'[b].attempt = call[b].attempt
    BY <1>0, <2>1, SettledIs
  <2>6. Settles(b)
    BY <1>0, <2>1, <2>2, <2>3, <2>4, <2>5 DEF Settles, SameSend
  <2> QED BY <1>0, <2>1, <2>2, <2>6, <1>t, SettledIs
<1>5. ASSUME NEW w \in Workers, NEW b \in Batches, FailValidation(w, b)
      PROVE  CallsStep
  <2>1. PICK u \in {worker[w].usage, NoUsage} :
            call' = Settled(b, "failed", Charge(u), Charge(u) > Reserve)
    BY <1>5 DEF FailValidation
  <2>2. /\ worker[w].pc \in {"refused", "answered"} /\ worker[w].call = b
        /\ live' = live /\ Frame
        /\ call[b].status = "claimed" /\ call[b].attempt = 1
    BY <1>5 DEF FailValidation, Holds
  <2>3. \/ Charge(u) = Reserve
        \/ u # NoUsage /\ Answer(w, b) /\ Charge(u) = u /\ u = worker[w].usage
    BY <2>2 DEF Charge, UsageOfAnswers, Answer
  <2>4. Settles(b)
    BY <1>0, <2>1, <2>2, <2>3, SettledIs DEF Settles, SameSend, Terminal
  <2> QED BY <1>0, <2>1, <2>2, <2>4, <1>t, SettledIs
<1>6. ASSUME NEW w \in Workers, NEW b \in Batches, CancelValidation(w, b)
      PROVE  CallsStep
  <2>1. call' = Settled(b, "failed", 0, FALSE) /\ call[b].attempt = 0
        /\ call[b].status = "claimed" /\ live' = live /\ Frame
    BY <1>6 DEF CancelValidation
  <2>2. Settles(b)
    BY <1>0, <2>1, FailedIs DEF Settles, SameSend, Terminal
  <2> QED BY <1>0, <2>1, <2>2, <1>t, FailedIs
<1>7. ASSUME NEW b \in Batches, RecoverValidation(b) PROVE CallsStep
  <2>1. call' = Settled(b, "failed", Reserve, FALSE) /\ call[b].attempt = 1
        /\ call[b].status = "claimed" /\ live' \subseteq live /\ Frame
    BY <1>7 DEF RecoverValidation
  <2>2. Settles(b)
    BY <1>0, <2>1, FailedIs DEF Settles, SameSend, Terminal
  <2> QED BY <1>0, <2>1, <2>2, <1>t, FailedIs
<1>8. ASSUME NEW w \in Workers, NEW a \in Agents, ClaimExtraction(w, a)
      PROVE  CallsStep
  <2>1. CASE UNCHANGED call
    BY <1>8, <2>1, <1>s DEF ClaimExtraction
  <2>2. CASE call[a].status = "none"
    <3>0. call' = [call EXCEPT ![a] =
              [NoCall EXCEPT !.status = "claimed", !.token = 1]]
          /\ live' = live /\ Frame
      BY <1>8, <2>2 DEF ClaimExtraction
    <3>1. Inserted(a) /\ \A d \in Calls \ {a} : Same(d)
      BY <1>0, <2>2, <3>0 DEF NoCall, Inserted, Same, SameRow, SameSend
    <3> QED BY <1>0, <3>1 DEF CallsStep, Touches
  <2> QED BY <1>8, <2>1, <2>2 DEF ClaimExtraction
<1>9. ASSUME NEW w \in Workers, NEW a \in Agents, StartExtraction(w, a)
      PROVE  CallsStep
  <2>1. CASE ensure_claim_ready(0)
    <3>1. Started(a) /\ \A d \in Calls \ {a} : Same(d)
      BY <1>0, <1>9, <2>1
      DEF StartExtraction, Started, Same, SameRow, SameSend, Rows
    <3> QED BY <1>0, <3>1 DEF CallsStep, Touches
  <2>2. CASE ~ensure_claim_ready(0)
    <3>1. call' = Settled(a, "failed", 0, call[a].overrun)
          /\ live' = live /\ Frame
      BY <1>9, <2>2 DEF StartExtraction
    <3>2. Settles(a)
      BY <1>0, <3>1, FailedIs DEF Settles, SameSend, Terminal
    <3> QED BY <1>0, <3>1, <3>2, <1>t, FailedIs
  <2> QED BY <2>1, <2>2
<1>10. ASSUME NEW w \in Workers, NEW a \in Agents, CheckExtraction(w, a)
       PROVE  CallsStep
  BY <1>10, <1>s DEF CheckExtraction
<1>11. ASSUME NEW w \in Workers, NEW a \in Agents, CompleteExtraction(w, a)
       PROVE  CallsStep
  <2> DEFINE n == Charge(worker[w].usage)
             o == extraction_overrun(a, n)
  <2>1. PICK s \in Terminal :
          /\ call' = Settled(a, s, n, o)
          /\ s = "completed" => ~o
    BY <1>11 DEF CompleteExtraction, Terminal
  <2>2. Answer(w, a) /\ live' \subseteq live /\ Frame
    BY <1>11 DEF CompleteExtraction, Holds, Answer
  <2>3. n \in Nat
    BY <1>0, ChargeType
  <2>4. s = "completed" => n <= Reserve
    BY <1>0, <2>1, <2>3 DEF extraction_overrun
  <2> HIDE DEF o
  <2>5. call'[a].overrun = o /\ call'[a].charge = n /\ call'[a].status = s
        /\ call'[a].attempt = call[a].attempt
    BY <1>0, <2>1, SettledIs
  <2>6. Settles(a)
    BY <1>0, <2>1, <2>2, <2>3, <2>4, <2>5 DEF Settles, SameSend
  <2> QED BY <1>0, <2>1, <2>2, <2>6, <1>t, SettledIs
<1>12. ASSUME NEW w \in Workers, NEW a \in Agents, FailExtraction(w, a)
       PROVE  CallsStep
  <2>1. \E n, o : call' = Settled(a, "failed", n, o)
    BY <1>12 DEF FailExtraction
  <2>2. live' \subseteq live /\ Frame
    BY <1>12 DEF FailExtraction
  <2>3. Settles(a)
    BY <1>0, <2>1, <2>2, SettledIs DEF Settles, SameSend, Terminal
  <2> QED BY <1>0, <2>1, <2>2, <2>3, <1>t, SettledIs
<1>13. ASSUME NEW w \in Workers, NEW a \in Agents, CancelExtraction(w, a)
       PROVE  CallsStep
  <2>1. CASE call[a].attempt = 0
    <3>1. call' = Settled(a, "failed", 0, FALSE)
          /\ live' \subseteq live /\ Frame
      BY <1>13, <2>1 DEF CancelExtraction
    <3>2. Settles(a)
      BY <1>0, <3>1, FailedIs DEF Settles, SameSend, Terminal
    <3> QED BY <1>0, <3>1, <3>2, <1>t, FailedIs
  <2>2. CASE call[a].attempt # 0
    BY <1>13, <2>2, <1>s DEF CancelExtraction
  <2> QED BY <2>1, <2>2
<1>14. ASSUME NEW w \in Workers, NEW a \in Agents, RecoverExtraction(w, a)
       PROVE  CallsStep
  <2>0. live' \subseteq live /\ Frame
    BY <1>14 DEF RecoverExtraction
  <2>1. CASE NewLease(a)
    BY <1>0, <2>0, <2>1
    DEF NewLease, CallsStep, Same, SameRow, SameSend, Rows
  <2>2. CASE \E n : call' = Settled(a, "failed", n, FALSE)
    <3>1. Settles(a)
      BY <1>0, <2>0, <2>2, FailedIs DEF Settles, SameSend, Terminal
    <3> QED BY <1>0, <2>0, <2>2, <3>1, <1>t, FailedIs
  <2> QED BY <1>14, <2>1, <2>2 DEF RecoverExtraction
<1>15. ASSUME NEW a \in Agents, ReplayBindingFailure(a) PROVE CallsStep
  <2>1. Frame /\ live' \subseteq live
    BY <1>15 DEF ReplayBindingFailure
  <2>2. Settles(a) /\ \A d \in Calls \ {a} : call'[d] = call[d]
    BY <1>0, <1>15
    DEF ReplayBindingFailure, Settles, SameSend, Terminal, Rows
  <2> QED BY <1>0, <2>1, <2>2, <1>t
<1>16. ASSUME NEW w \in Workers, NEW c \in Calls, Send(w, c) PROVE CallsStep
  <2>1. CASE UNCHANGED <<sent, billed>>
    BY <1>16, <2>1, <1>s DEF Send
  <2>2. CASE c \in live /\ sent' = [sent EXCEPT ![c] = @ + 1]
    <3>1. Sends(c) /\ \A d \in Calls \ {c} : Same(d)
      BY <1>0, <1>16, <2>2 DEF Send, Sends, Same, SameRow, SameSend
    <3> QED BY <3>1 DEF CallsStep, Touches
  <2> QED BY <1>16, <2>1, <2>2 DEF Send
<1>17. ASSUME NEW w \in Workers, GiveUp(w) PROVE CallsStep
  BY <1>17, <1>s DEF GiveUp
<1>18. CASE Crash
  BY <1>18, <1>s DEF Crash
<1>19. ASSUME NEW c \in Calls, call[c].status = "claimed",
              call' = AdminSettled(c), live' = live, Frame
       PROVE  CallsStep
  <2>1. Settles(c)
    BY <1>0, <1>19, AdminIs DEF Settles, SameSend, Terminal
  <2> QED BY <1>0, <1>19, <2>1, <1>t, AdminIs
<1>20. ASSUME NEW c \in Calls, RecoverExpired(c) PROVE CallsStep
  BY <1>19, <1>20 DEF RecoverExpired
<1>21. ASSUME NEW c \in Calls, SettleCancelled(c) PROVE CallsStep
  BY <1>19, <1>21, <1>s DEF SettleCancelled
<1>22. CASE CancelWorkflow
  BY <1>22, <1>s DEF CancelWorkflow
<1>23. ASSUME NEW c \in Calls, LeaseExpires(c) PROVE CallsStep
  BY <1>0, <1>23 DEF LeaseExpires, CallsStep, Same, SameRow, SameSend, Rows
<1>24. CASE WorldChanges
  BY <1>24, <1>s DEF WorldChanges
<1>25. CASE UNCHANGED vars
  BY <1>25, <1>s DEF vars
<1> QED
  BY <1>1, <1>2, <1>3, <1>4, <1>5, <1>6, <1>7, <1>8, <1>9, <1>10, <1>11,
     <1>12, <1>13, <1>14, <1>15, <1>16, <1>17, <1>18, <1>20, <1>21,
     <1>22, <1>23, <1>24, <1>25 DEF Next

LEMMA StepThreads ==
    ASSUME TypeOK, [Next]_vars, NEW v \in Workers
    PROVE  ThreadStep(v)
<1>0. /\ worker \in [Workers -> Threads] /\ call \in [Calls -> Rows]
      /\ billed \in [Calls -> Nat]
  BY DEF TypeOK, Rows, Threads
<1>1. ASSUME NEW w \in Workers, Leaves(w) PROVE ThreadStep(v)
  BY <1>0, <1>1 DEF Leaves, Idle, ThreadStep
<1>2. ASSUME NEW w \in Workers, NEW c, NEW t, Claims(w, c, t)
      PROVE  ThreadStep(v)
  BY <1>0, <1>2 DEF Claims, ThreadStep
<1>3. ASSUME NEW w \in Workers, worker[w].pc # "answered",
             NEW pc \in {"granted", "checked", "refused"}, Becomes(w, pc)
      PROVE  ThreadStep(v)
  BY <1>0, <1>3 DEF Becomes, ThreadStep, Threads
<1>4. ASSUME NEW w \in Workers, NEW c \in Calls, Send(w, c)
      PROVE  ThreadStep(v)
  <2>1. CASE Becomes(w, "refused")
    BY <1>3, <1>4, <2>1 DEF Send
  <2>2. CASE ~Becomes(w, "refused")
    <3>1. Sends(c)
      BY <1>0, <1>4, <2>2 DEF Send, Sends, SameRow
    <3> QED BY <1>0, <1>4, <2>2, <3>1 DEF Send, ThreadStep, Threads
  <2> QED BY <2>1, <2>2
<1>5. CASE Crash
  BY <1>5 DEF Crash, Idle, ThreadStep
<1>6. CASE UNCHANGED worker
  BY <1>6 DEF ThreadStep
<1>7. ASSUME NEW w \in Workers, NEW b \in Batches,
             \/ ClaimValidation(w, b) \/ StartValidation(w, b)
             \/ CheckValidation(w, b) \/ CompleteValidation(w, b)
             \/ FailValidation(w, b) \/ CancelValidation(w, b)
      PROVE  ThreadStep(v)
  BY <1>1, <1>2, <1>3, <1>7
  DEF ClaimValidation, StartValidation, validation_startable,
      CheckValidation, CompleteValidation, FailValidation, CancelValidation
<1>8. ASSUME NEW w \in Workers, NEW a \in Agents,
             \/ ClaimExtraction(w, a) \/ StartExtraction(w, a)
             \/ CheckExtraction(w, a) \/ CompleteExtraction(w, a)
             \/ FailExtraction(w, a) \/ CancelExtraction(w, a)
             \/ RecoverExtraction(w, a)
      PROVE  ThreadStep(v)
  BY <1>1, <1>2, <1>3, <1>8
  DEF ClaimExtraction, StartExtraction, CheckExtraction,
      CompleteExtraction, FailExtraction, CancelExtraction,
      RecoverExtraction
<1>9. ASSUME NEW c \in Calls, RecoverExpired(c) \/ SettleCancelled(c)
                              \/ LeaseExpires(c)
      PROVE  ThreadStep(v)
  BY <1>6, <1>9 DEF RecoverExpired, SettleCancelled, LeaseExpires
<1> QED
  BY <1>1, <1>4, <1>5, <1>6, <1>7, <1>8, <1>9
  DEF Next, vars, RecoverValidation, ReplayBindingFailure, GiveUp,
      CancelWorkflow, WorldChanges

-----------------------------------------------------------------------------
(* One request per call.  A grant in memory is of a committed attempt whose  *)
(* request has not left, and it is handed out once.                          *)

DispatchInv ==
    /\ TypeOK
    /\ UsageOfAnswers
    /\ SingleDispatch
    /\ \A c \in live : call[c].attempt = 1 /\ sent[c] = 0
    /\ \A c \in Calls : call[c].status = "none" => call[c].attempt = 0

LEMMA InitDispatch == Init => DispatchInv
BY InitType
DEF Init, DispatchInv, UsageOfAnswers, SingleDispatch, Idle, NoCall

LEMMA StepUsage ==
    TypeOK /\ UsageOfAnswers /\ [Next]_vars => UsageOfAnswers'
<1> SUFFICES ASSUME TypeOK, UsageOfAnswers, [Next]_vars, NEW w \in Workers,
                    worker'[w].pc # "answered"
             PROVE  worker'[w].usage = NoUsage
  BY DEF UsageOfAnswers
<1> QED BY StepThreads DEF ThreadStep, UsageOfAnswers

LEMMA StepDispatch == DispatchInv /\ [Next]_vars => DispatchInv'
<1> SUFFICES ASSUME DispatchInv, [Next]_vars PROVE DispatchInv'
  OBVIOUS
<1>1. TypeOK' /\ UsageOfAnswers' /\ CallsStep
  BY StepType, StepUsage, StepCalls DEF DispatchInv
<1> DEFINE Good(c) == /\ sent[c] <= 1
                      /\ sent[c] = 1 => call[c].attempt = 1
                      /\ c \in live => call[c].attempt = 1 /\ sent[c] = 0
                      /\ call[c].status = "none" => call[c].attempt = 0
<1>2. \A c \in Calls : Good(c) /\ sent[c] \in Nat
  BY DEF DispatchInv, SingleDispatch, TypeOK
<1>3. ASSUME NEW c \in Calls, Same(c) PROVE Good(c)'
  BY <1>2, <1>3 DEF Same, SameRow, SameSend
<1>4. ASSUME NEW c \in Calls, Touches(c) PROVE Good(c)'
  <2>1. CASE Inserted(c)
    BY <1>2, <2>1 DEF Inserted, SameSend
  <2>2. CASE Started(c)
    BY <1>2, <2>2 DEF Started, SameSend
  <2>3. CASE Settles(c)
    BY <1>2, <2>3 DEF Settles, SameSend, Terminal
  <2>4. CASE Sends(c)
    <3>1. sent'[c] = sent[c] + 1
      BY <2>4 DEF Sends, DispatchInv, TypeOK
    <3> QED BY <1>2, <2>4, <3>1 DEF Sends, SameRow
  <2> QED BY <1>4, <2>1, <2>2, <2>3, <2>4 DEF Touches
<1>5. \A c \in Calls : Good(c)'
  BY <1>1, <1>3, <1>4 DEF CallsStep
<1>6. live' \subseteq Calls
  BY <1>1 DEF TypeOK
<1> QED BY <1>1, <1>5, <1>6 DEF DispatchInv, SingleDispatch

(* The provider is asked once for a call, whoever claims, recovers, cancels  *)
(* or crashes, and only after the attempt was committed.                     *)
THEOREM OneRequestPerCall == Spec => []SingleDispatch
<1>1. Spec => []DispatchInv
  BY InitDispatch, StepDispatch, PTL DEF Spec
<1> QED BY <1>1, PTL DEF DispatchInv

-----------------------------------------------------------------------------
(* What a kept result cost.  An answer in the hands of a thread is of the    *)
(* one request of its call.                                                  *)

AnswersBilled ==
    \A w \in Workers : worker[w].pc = "answered" =>
        /\ worker[w].call \in Calls
        /\ sent[worker[w].call] = 1
        /\ worker[w].usage \in {billed[worker[w].call], NoUsage}

(* A call settled while its grant is alive was settled from outside. *)
GrantsCharged ==
    \A b \in Batches :
        b \in live /\ call[b].status \in Terminal => call[b].charge = Reserve

(* Nothing is charged before a call is settled. *)
UnclaimedFree ==
    \A c \in Calls : call[c].status = "none" => call[c].charge = 0

BilledInv ==
    /\ DispatchInv /\ AnswersBilled /\ CompletedIsBilled /\ GrantsCharged
    /\ UnclaimedFree

LEMMA InitBilled == Init => BilledInv
BY InitDispatch, InitType
DEF Init, BilledInv, AnswersBilled, CompletedIsBilled, GrantsCharged,
    UnclaimedFree, Idle, NoCall, Calls

LEMMA StepBilled == BilledInv /\ [Next]_vars => BilledInv'
<1> SUFFICES ASSUME BilledInv, [Next]_vars PROVE BilledInv'
  OBVIOUS
<1>1. DispatchInv /\ DispatchInv' /\ CallsStep
  BY StepDispatch, StepCalls DEF BilledInv, DispatchInv
<1>2. /\ sent \in [Calls -> Nat] /\ billed \in [Calls -> Nat]
      /\ Batches \subseteq Calls /\ live \subseteq Calls
      /\ \A c \in live : sent[c] = 0 /\ call[c].attempt = 1
      /\ NoUsage \notin Nat /\ Reserve \in Nat
  BY <1>1, CallsAssumption DEF DispatchInv, TypeOK, Calls
<1>3. \A c \in Calls :
          \/ SameSend(c)
          \/ Sends(c) /\ sent[c] = 0 /\ sent'[c] = 1
  <2>1. \A c \in Calls : Sends(c) => sent'[c] = sent[c] + 1
    BY <1>2 DEF Sends
  <2> QED
    BY <1>1, <1>2, <2>1
    DEF CallsStep, Touches, Same, Inserted, Started, Settles, Sends
<1>4. AnswersBilled'
  <2> SUFFICES ASSUME NEW w \in Workers, worker'[w].pc = "answered"
               PROVE  /\ worker'[w].call \in Calls
                      /\ sent'[worker'[w].call] = 1
                      /\ worker'[w].usage
                            \in {billed'[worker'[w].call], NoUsage}
    BY DEF AnswersBilled
  <2>1. CASE worker'[w] = worker[w]
    BY <1>3, <2>1 DEF BilledInv, AnswersBilled, SameSend
  <2>2. ASSUME NEW c \in Calls, Sends(c), worker'[w].call = c,
               worker'[w].usage \in {billed'[c], NoUsage}
        PROVE  /\ worker'[w].call \in Calls
               /\ sent'[worker'[w].call] = 1
               /\ worker'[w].usage \in {billed'[worker'[w].call], NoUsage}
    <3>1. sent'[c] = sent[c] + 1 /\ sent[c] = 0
      BY <1>2, <2>2 DEF Sends
    <3> QED BY <2>2, <3>1
  <2> QED BY <1>1, <2>1, <2>2, StepThreads DEF ThreadStep, DispatchInv
<1>5. ASSUME NEW c \in Calls, call'[c].status = "completed"
      PROVE  /\ sent'[c] = 1
             /\ call'[c].charge <= Reserve
             /\ ~call'[c].overrun
             /\ c \in Batches => call'[c].charge = billed'[c]
  <2>1. CASE SameRow(c)
    BY <1>3, <1>5, <2>1
    DEF SameRow, SameSend, BilledInv, CompletedIsBilled
  <2>2. CASE Settles(c)
    <3>1. PICK w \in Workers :
            /\ Answer(w, c)
            /\ call'[c].charge = Charge(worker[w].usage)
            /\ call'[c].charge <= Reserve
            /\ ~call'[c].overrun
            /\ c \in Batches => worker[w].usage # NoUsage
      BY <1>5, <2>2 DEF Settles
    <3>2. sent[c] = 1 /\ worker[w].usage \in {billed[c], NoUsage}
      BY <3>1 DEF BilledInv, AnswersBilled, Answer
    <3> QED BY <2>2, <3>1, <3>2 DEF Settles, SameSend, Charge
  <2> QED
    BY <1>1, <1>5, <2>1, <2>2
    DEF CallsStep, Touches, Same, Inserted, Started, Sends
<1>6. ASSUME NEW b \in Batches, b \in live', call'[b].status \in Terminal
      PROVE  call'[b].charge = Reserve
  <2>1. CASE SameRow(b) /\ b \in live
    BY <1>6, <2>1 DEF SameRow, BilledInv, GrantsCharged
  <2>2. CASE Settles(b)
    <3>1. b \in live /\ sent[b] = 0 /\ call[b].attempt = 1
      BY <1>2, <1>6, <2>2 DEF Settles
    <3>2. \A w \in Workers : ~Answer(w, b)
      BY <3>1 DEF BilledInv, AnswersBilled, Answer
    <3> QED BY <2>2, <3>1, <3>2 DEF Settles
  <2> QED
    BY <1>1, <1>2, <1>6, <2>1, <2>2
    DEF CallsStep, Touches, Same, Inserted, Started, Sends, Terminal
<1>7. ASSUME NEW c \in Calls, call'[c].status = "none"
      PROVE  call'[c].charge = 0
  BY <1>1, <1>7
  DEF CallsStep, Touches, Same, SameRow, Inserted, Started, Settles, Sends,
      Terminal, BilledInv, UnclaimedFree
<1> QED BY <1>1, <1>4, <1>5, <1>6, <1>7
        DEF BilledInv, CompletedIsBilled, GrantsCharged, UnclaimedFree

(* A kept result was answered by the provider within its reserve, and a      *)
(* validation result is charged exactly what the provider bills.             *)
THEOREM ResultsAreBilled == Spec => []CompletedIsBilled
<1>1. Spec => []BilledInv
  BY InitBilled, StepBilled, PTL DEF Spec
<1> QED BY <1>1, PTL DEF BilledInv

-----------------------------------------------------------------------------
(* Answers that come too late.                                               *)

LEMMA OnlyCompletionCompletes ==
    ASSUME TypeOK, [Next]_vars, NEW c \in Calls,
           call[c].status # "completed", call'[c].status = "completed"
    PROVE  \/ \E w \in Workers : c \in Batches /\ CompleteValidation(w, c)
           \/ \E w \in Workers : c \in Agents /\ CompleteExtraction(w, c)
<1>0. /\ call \in [Calls -> Rows]
      /\ Agents \subseteq Calls /\ Batches \subseteq Calls
  BY DEF TypeOK, Rows, Calls
<1>1. ASSUME NEW d \in Calls, NEW n,
             \/ call' = Settled(d, "failed", n, FALSE)
             \/ call' = Settled(d, "failed", n, call[d].overrun)
      PROVE  FALSE
  BY <1>0, <1>1, FailedIs
<1>2. ASSUME NEW d \in Calls, NEW s, NEW n, NEW o,
             call' = Settled(d, s, n, o)
      PROVE  c = d /\ s = "completed"
  BY <1>0, <1>2, SettledIs
<1>3. ASSUME NEW d \in Calls, call' = AdminSettled(d) PROVE FALSE
  BY <1>0, <1>3, AdminIs
<1>4. call' # call
  OBVIOUS
<1>5. ASSUME NEW w \in Workers, NEW b \in Batches,
             \/ ClaimValidation(w, b) \/ StartValidation(w, b)
             \/ CheckValidation(w, b) \/ FailValidation(w, b)
             \/ CancelValidation(w, b) \/ RecoverValidation(b)
      PROVE  FALSE
  <2>1. CASE ClaimValidation(w, b)
    <3>1. \/ call' = [call EXCEPT ![b] =
                 [NoCall EXCEPT !.status = "claimed", !.token = 1]]
          \/ NewLease(b)
      BY <2>1 DEF ClaimValidation
    <3>2. CASE call' = [call EXCEPT ![b] =
                   [NoCall EXCEPT !.status = "claimed", !.token = 1]]
      BY <1>0, <3>2 DEF NoCall
    <3>3. CASE NewLease(b)
      BY <1>0, <3>3 DEF NewLease, Rows
    <3> QED BY <3>1, <3>2, <3>3
  <2>2. CASE StartValidation(w, b)
    <3>1. \/ call' = [call EXCEPT ![b].attempt = 1]
          \/ call' = Settled(b, "failed", 0, FALSE)
      BY <2>2 DEF StartValidation
    <3>2. CASE call' = [call EXCEPT ![b].attempt = 1]
      BY <1>0, <3>2 DEF Rows
    <3> QED BY <1>0, <1>1, <3>1, <3>2
  <2>3. CASE FailValidation(w, b)
    <3>1. \E u : call' = Settled(b, "failed", Charge(u), Charge(u) > Reserve)
      BY <2>3 DEF FailValidation
    <3> QED BY <1>0, <1>2, <3>1
  <2> QED
    BY <1>0, <1>1, <1>4, <1>5, <2>1, <2>2, <2>3
    DEF CheckValidation, CancelValidation, RecoverValidation
<1>6. ASSUME NEW w \in Workers, NEW a \in Agents,
             \/ ClaimExtraction(w, a) \/ StartExtraction(w, a)
             \/ CheckExtraction(w, a) \/ FailExtraction(w, a)
             \/ CancelExtraction(w, a) \/ RecoverExtraction(w, a)
             \/ ReplayBindingFailure(a)
      PROVE  FALSE
  <2>1. CASE ClaimExtraction(w, a)
    BY <1>0, <2>1 DEF ClaimExtraction, NoCall, Rows
  <2>2. CASE StartExtraction(w, a)
    <3>1. \/ call' = [call EXCEPT ![a].attempt = 1, ![a].expired = FALSE]
          \/ call' = Settled(a, "failed", 0, call[a].overrun)
      BY <2>2 DEF StartExtraction
    <3>2. CASE call' = [call EXCEPT ![a].attempt = 1, ![a].expired = FALSE]
      BY <1>0, <3>2 DEF Rows
    <3> QED BY <1>0, <1>1, <3>1, <3>2
  <2>3. CASE FailExtraction(w, a)
    <3>1. \E n, o : call' = Settled(a, "failed", n, o)
      BY <2>3 DEF FailExtraction
    <3> QED BY <1>0, <1>2, <3>1
  <2>4. CASE RecoverExtraction(w, a)
    <3>1. NewLease(a) \/ \E n : call' = Settled(a, "failed", n, FALSE)
      BY <2>4 DEF RecoverExtraction
    <3>2. CASE NewLease(a)
      BY <1>0, <3>2 DEF NewLease, Rows
    <3> QED BY <1>0, <1>1, <3>1, <3>2
  <2>5. CASE ReplayBindingFailure(a)
    BY <1>0, <2>5 DEF ReplayBindingFailure, Rows
  <2> QED
    BY <1>0, <1>1, <1>4, <1>6, <2>1, <2>2, <2>3, <2>4, <2>5
    DEF CheckExtraction, CancelExtraction
<1>7. ASSUME NEW d \in Calls,
             RecoverExpired(d) \/ SettleCancelled(d) \/ LeaseExpires(d)
      PROVE  FALSE
  <2>1. CASE LeaseExpires(d)
    BY <1>0, <2>1 DEF LeaseExpires, Rows
  <2> QED BY <1>3, <1>4, <1>7, <2>1 DEF RecoverExpired, SettleCancelled
<1>8. ASSUME NEW w \in Workers, NEW b \in Batches, CompleteValidation(w, b)
      PROVE  c = b
  <2>1. \E s, n, o : call' = Settled(b, s, n, o)
    BY <1>8 DEF CompleteValidation
  <2> QED BY <1>0, <1>2, <2>1
<1>9. ASSUME NEW w \in Workers, NEW a \in Agents, CompleteExtraction(w, a)
      PROVE  c = a
  <2>1. \E s, n, o : call' = Settled(a, s, n, o)
    BY <1>9 DEF CompleteExtraction
  <2> QED BY <1>0, <1>2, <2>1
<1>10. ASSUME NEW w \in Workers, NEW d \in Calls, Send(w, d) PROVE FALSE
  BY <1>4, <1>10 DEF Send
<1>11. ASSUME NEW b \in Batches, RecoverValidation(b) PROVE FALSE
  BY <1>0, <1>1, <1>11 DEF RecoverValidation
<1>12. ASSUME NEW a \in Agents, ReplayBindingFailure(a) PROVE FALSE
  BY <1>0, <1>12 DEF ReplayBindingFailure, Rows
<1>13. ASSUME \/ \E w \in Workers : GiveUp(w)
              \/ Crash \/ CancelWorkflow \/ WorldChanges \/ UNCHANGED vars
       PROVE  FALSE
  BY <1>4, <1>13 DEF GiveUp, Crash, CancelWorkflow, WorldChanges, vars
<1> QED
  BY <1>5, <1>6, <1>7, <1>8, <1>9, <1>10, <1>11, <1>12, <1>13 DEF Next

LEMMA CompletionIsCurrent ==
    ASSUME TypeOK, [Next]_vars, NEW c \in Calls,
           call[c].status # "completed", call'[c].status = "completed"
    PROVE  /\ ~world.cancelled /\ RuntimeMatches /\ world.sources
           /\ ~call[c].expired
           /\ SafetyMatches("validation")
           /\ c \in Batches => world.rollout /\ world.permitted
<1>0. /\ call \in [Calls -> Rows]
      /\ Agents \subseteq Calls /\ Batches \subseteq Calls
      /\ Agents \cap Batches = {} /\ "validation" \in Purposes
  BY CallsAssumption DEF TypeOK, Rows, Calls, Purposes
<1>1. ASSUME NEW w \in Workers, c \in Batches, CompleteValidation(w, c)
      PROVE  ~world.cancelled /\ ValidationGuards /\ ~call[c].expired
  <2>1. \E s, n, o :
          /\ call' = Settled(c, s, n, o)
          /\ s = "completed" => ~world.cancelled /\ ValidationGuards
    BY <1>1 DEF CompleteValidation
  <2>2. ~world.cancelled /\ ValidationGuards
    BY <1>0, <2>1, SettledIs
  <2> QED BY <1>1, <2>2 DEF CompleteValidation
<1>2. ASSUME NEW w \in Workers, c \in Agents, CompleteExtraction(w, c)
      PROVE  /\ ~world.cancelled /\ ExtractionIdentity /\ RuntimeMatches
             /\ ~call[c].expired
  <2>1. \E s, n, o :
          /\ call' = Settled(c, s, n, o)
          /\ s = "completed" =>
                /\ ~world.cancelled /\ ExtractionIdentity /\ RuntimeMatches
                /\ ~call[c].expired
    BY <1>2 DEF CompleteExtraction
  <2> QED BY <1>0, <2>1, SettledIs
<1> QED
  BY <1>0, <1>1, <1>2, OnlyCompletionCompletes
  DEF ValidationGuards, ValidationAuthority, RolloutMatches, SourcesMatch,
      PermissionsMatch, ExtractionIdentity

(* An answer that comes after a cancellation, a drift, an expired lease or   *)
(* an opened breaker is never kept (complete of both stores).                *)
THEOREM NoStaleResult == Spec => StaleAnswersAreDropped
<1>1. Spec => []TypeOK
  BY TypeCorrect
<1>2. TypeOK /\ [Next]_vars
        => [\A c \in Calls :
              (call[c].status # "completed" /\ call'[c].status = "completed") =>
                 /\ ~world.cancelled /\ RuntimeMatches /\ world.sources
                 /\ ~call[c].expired
                 /\ SafetyMatches("validation")
                 /\ c \in Batches => world.rollout /\ world.permitted]_vars
  BY CompletionIsCurrent
<1> QED BY <1>1, <1>2, PTL DEF Spec, StaleAnswersAreDropped

-----------------------------------------------------------------------------
(* Validation implements OneShotCall. *)

LEMMA InitOneShot == Init => Promise!Init
BY DEF Init, NoCall, Promise!Init, phase, Calls

LEMMA PhaseIs ==
    ASSUME TypeOK, NEW b \in Batches
    PROVE  /\ phase[b] = "absent" <=> call[b].status = "none"
           /\ phase[b] = "reserved" <=>
                  call[b].status = "claimed" /\ call[b].attempt = 0
           /\ phase[b] = "started" <=>
                  call[b].status = "claimed" /\ call[b].attempt = 1
           /\ phase[b] = "settled" <=> call[b].status \in Terminal
<1>1. call[b].status \in Terminal \cup {"none", "claimed"}
      /\ call[b].attempt \in {0, 1}
  BY DEF TypeOK, Calls
<1> QED BY <1>1 DEF phase, Terminal

OneShotVars == <<phase, [b \in Batches |-> sent[b]],
                 [b \in Batches |-> billed[b]],
                 [b \in Batches |-> call[b].charge]>>

LEMMA StepOneShot == BilledInv /\ [Next]_vars => [Promise!Next]_OneShotVars
<1> SUFFICES ASSUME BilledInv, [Next]_vars
             PROVE  Promise!Next \/ UNCHANGED OneShotVars
  OBVIOUS
<1>1. /\ TypeOK /\ TypeOK' /\ CallsStep /\ BilledInv'
      /\ Batches \subseteq Calls
  BY StepDispatch, StepBilled, StepCalls DEF BilledInv, DispatchInv, Calls
<1>2. /\ sent \in [Calls -> Nat] /\ billed \in [Calls -> Nat]
      /\ Usages \subseteq Nat
  BY <1>1, CallsAssumption DEF TypeOK
<1> DEFINE Kept(b) == /\ phase'[b] = phase[b]
                      /\ sent'[b] = sent[b] /\ billed'[b] = billed[b]
                      /\ call'[b].charge = call[b].charge
<1>3. ASSUME NEW b \in Batches, Same(b) PROVE Kept(b)
  <2>1. phase'[b] = phase[b]
    BY <1>3 DEF phase, Same, SameRow
  <2> QED BY <1>3, <2>1 DEF Same, SameRow, SameSend
<1>4. CASE \A b \in Batches : Kept(b)
  <2>1. phase' = phase
    BY <1>4 DEF phase
  <2> QED BY <1>4, <2>1 DEF OneShotVars
<1>5. ASSUME NEW c \in Batches, Touches(c), \A b \in Batches \ {c} : Kept(b)
      PROVE  Promise!Next
  <2>0. /\ DOMAIN phase = Batches /\ DOMAIN phase' = Batches
        /\ phase = [b \in Batches |-> phase[b]]
        /\ phase' = [b \in Batches |-> phase'[b]]
    BY DEF phase
  <2>9. /\ phase[c] = "absent" <=> call[c].status = "none"
        /\ phase[c] = "reserved" <=>
               call[c].status = "claimed" /\ call[c].attempt = 0
        /\ phase[c] = "started" <=>
               call[c].status = "claimed" /\ call[c].attempt = 1
        /\ phase[c] = "settled" <=> call[c].status \in Terminal
    BY <1>1, PhaseIs
  <2>8. /\ call'[c].status = "claimed" /\ call'[c].attempt = 0
               => phase'[c] = "reserved"
        /\ call'[c].status = "claimed" /\ call'[c].attempt = 1
               => phase'[c] = "started"
        /\ call'[c].status \in Terminal => phase'[c] = "settled"
    BY DEF phase, Terminal
  <2>1. CASE Inserted(c)
    <3>1. phase[c] = "absent" /\ phase'[c] = "reserved" /\ SameSend(c)
          /\ call'[c].charge = 0
      BY <2>1, <2>9, <2>8 DEF Inserted
    <3>2. call[c].charge = 0
      BY <1>1, <2>1 DEF Inserted, BilledInv, UnclaimedFree
    <3>3. Promise!Reserved(c)
      BY <1>5, <2>0, <3>1, <3>2 DEF Promise!Reserved, SameSend
    <3> QED BY <3>3 DEF Promise!Next
  <2>2. CASE Started(c)
    <3>1. phase[c] = "reserved" /\ phase'[c] = "started" /\ SameSend(c)
          /\ call'[c].charge = call[c].charge
      BY <2>2, <2>9, <2>8 DEF Started
    <3>2. Promise!Start(c)
      BY <1>5, <2>0, <3>1 DEF Promise!Start, SameSend
    <3> QED BY <3>2 DEF Promise!Next
  <2>3. CASE Settles(c)
    <3>1. phase'[c] = "settled" /\ SameSend(c)
      BY <2>3, <2>8 DEF Settles
    <3>2. \/ phase[c] = "reserved" /\ call'[c].charge = 0
          \/ phase[c] = "started" /\ call'[c].charge = Reserve
          \/ /\ phase[c] = "started" /\ sent[c] = 1
             /\ call'[c].charge = billed[c]
      BY <2>3, <2>9 DEF Settles, BilledInv, AnswersBilled, Answer
    <3>3. Promise!Settle(c)
      BY <1>5, <2>0, <3>1, <3>2 DEF Promise!Settle, SameSend
    <3> QED BY <3>3 DEF Promise!Next
  <2>4. CASE Sends(c)
    <3>1. phase'[c] = phase[c] /\ call'[c].charge = call[c].charge
      BY <2>4 DEF Sends, SameRow, phase
    <3>2. sent[c] = 0 /\ call[c].attempt = 1 /\ sent'[c] = 1
          /\ billed'[c] \in Nat
      <4>1. sent[c] = 0 /\ call[c].attempt = 1
        BY <2>4 DEF Sends, BilledInv, DispatchInv
      <4>2. c \in Calls
        BY <1>1
      <4>3. sent'[c] = sent[c] + 1
        BY <1>2, <2>4, <4>2 DEF Sends
      <4>4. billed'[c] \in Nat
        BY <1>2, <2>4, <4>2 DEF Sends
      <4> QED BY <4>1, <4>3, <4>4
    <3>3. \/ phase[c] = "started"
          \/ phase[c] = "settled" /\ call[c].charge = Reserve
      BY <1>1, <2>4, <2>9, <3>2
      DEF Sends, BilledInv, DispatchInv, GrantsCharged, TypeOK, Terminal
    <3>4. Promise!Send(c)
      BY <1>5, <2>0, <3>1, <3>2, <3>3 DEF Promise!Send
    <3> QED BY <3>4 DEF Promise!Next
  <2> QED BY <1>5, <2>1, <2>2, <2>3, <2>4 DEF Touches
<1>6. CASE \E c \in Calls : Touches(c) /\ \A d \in Calls \ {c} : Same(d)
  <2> PICK c \in Calls : Touches(c) /\ \A d \in Calls \ {c} : Same(d)
    BY <1>6
  <2> QED BY <1>1, <1>3, <1>4, <1>5
<1> QED BY <1>1, <1>3, <1>4, <1>6 DEF CallsStep

(* Each validation call is reserved, started, asked and settled once, at its *)
(* bill or its reserve, whoever settles it.                                  *)
THEOREM ValidationImplementsOneShot == Spec => ValidationIsOneShot
<1>1. Spec => []BilledInv
  BY InitBilled, StepBilled, PTL DEF Spec
<1>2. BilledInv /\ [Next]_vars => [Promise!Next]_OneShotVars
  BY StepOneShot
<1> QED BY <1>1, <1>2, InitOneShot, PTL
        DEF Spec, ValidationIsOneShot, Promise!Spec, OneShotVars,
            Promise!oneShotVars
=============================================================================
