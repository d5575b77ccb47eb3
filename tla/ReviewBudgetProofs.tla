-------------------------- MODULE ReviewBudgetProofs --------------------------
(* The confirmed budgets of ReviewCalls, for every finite set of calls and    *)
(* every reserve, ceiling and usage: what the ledger holds, and what the      *)
(* provider bills.                                                            *)
EXTENDS ReviewCallsProofs, FiniteSetTheorems

-----------------------------------------------------------------------------
(* Sums over a finite set.  A set of bad subsets has a smallest one: that     *)
(* stands in for induction over finite sets.                                  *)

LEMMA SmallestSubset ==
    ASSUME NEW S, IsFiniteSet(S), NEW Bad \in SUBSET SUBSET S, Bad # {}
    PROVE  \E T \in Bad : \A U \in Bad : ~(U \subseteq T /\ U # T)
<1>1. IsWellFoundedOn(StrictSubsetOrdering(S), SUBSET S)
  BY FS_StrictSubsetOrderingWellFounded, FS_FiniteSubsetsOfFinite
<1>2. PICK T \in Bad : \A U \in Bad : ~(<<U, T>> \in StrictSubsetOrdering(S))
  BY <1>1, WFMin
<1>3. \A U \in Bad : ~(U \subseteq T /\ U # T)
  BY <1>2 DEF StrictSubsetOrdering
<1> QED BY <1>3

(* Two functions of sets begin alike, and every set has an element whose      *)
(* removal takes the same from both: then they are the same.                  *)
Alike(g, h, S) ==
    /\ g[{}] = h[{}]
    /\ \A s \in (SUBSET S) \ {{}} :
            \E x \in s : \E n : /\ g[s] = n + g[s \ {x}]
                                /\ h[s] = n + h[s \ {x}]

LEMMA SumsAgree ==
    ASSUME NEW S, IsFiniteSet(S), NEW g, NEW h, Alike(g, h, S)
    PROVE  \A s \in SUBSET S : g[s] = h[s]
<1> DEFINE Bad == {s \in SUBSET S : g[s] # h[s]}
<1>1. SUFFICES ASSUME Bad # {} PROVE FALSE
  OBVIOUS
<1>0. Bad \in SUBSET SUBSET S
  OBVIOUS
<1> HIDE DEF Bad
<1>2. PICK T \in Bad : \A U \in Bad : ~(U \subseteq T /\ U # T)
  BY <1>0, <1>1, SmallestSubset
<1> USE DEF Bad
<1>3. T \in SUBSET S /\ g[T] # h[T] /\ T # {}
  BY <1>2 DEF Alike
<1>4. PICK x \in T : \E n : g[T] = n + g[T \ {x}] /\ h[T] = n + h[T \ {x}]
  BY <1>3 DEF Alike
<1>5. T \ {x} \subseteq T /\ T \ {x} # T /\ T \ {x} \in SUBSET S
  BY <1>3
<1>6. T \ {x} \notin Bad
  BY <1>2, <1>5
<1> QED BY <1>3, <1>4, <1>5, <1>6

(* g adds F up over the subsets of S, whatever element is taken first. *)
IsSum(g, F, S) ==
    /\ g \in [SUBSET S -> Nat]
    /\ g[{}] = 0
    /\ \A s \in SUBSET S : \A x \in s : g[s] = F[x] + g[s \ {x}]

LEMMA SumGrows ==
    ASSUME NEW T, NEW y \in T, NEW F, \A x \in T : F[x] \in Nat,
           NEW h, IsSum(h, F, T \ {y})
    PROVE  \E g : IsSum(g, F, T)
<1> DEFINE g == [s \in SUBSET T |->
                    IF y \in s THEN F[y] + h[s \ {y}] ELSE h[s]]
<1>1. \A s \in SUBSET T : s \ {y} \in SUBSET (T \ {y})
  OBVIOUS
<1>2. \A s \in SUBSET (T \ {y}) : h[s] \in Nat
  BY DEF IsSum
<1>3. \A s \in SUBSET T : y \notin s => s \in SUBSET (T \ {y})
  OBVIOUS
<1>4. \A s \in SUBSET T :
         g[s] = IF y \in s THEN F[y] + h[s \ {y}] ELSE h[s]
  OBVIOUS
<1>5. g \in [SUBSET T -> Nat]
  <2>1. \A s \in SUBSET T :
           (IF y \in s THEN F[y] + h[s \ {y}] ELSE h[s]) \in Nat
    BY <1>1, <1>2, <1>3
  <2> QED BY <2>1
<1> HIDE DEF g
<1>6. g[{}] = 0
  BY <1>4 DEF IsSum
<1>7. ASSUME NEW s \in SUBSET T, NEW x \in s PROVE g[s] = F[x] + g[s \ {x}]
  <2>0. s \ {x} \in SUBSET T
    OBVIOUS
  <2>1. CASE y \notin s
    <3>1. s \in SUBSET (T \ {y}) /\ y \notin s \ {x}
      BY <2>1
    <3>2. g[s] = h[s] /\ g[s \ {x}] = h[s \ {x}]
      BY <1>4, <2>0, <2>1, <3>1
    <3>3. h[s] = F[x] + h[s \ {x}]
      BY <3>1 DEF IsSum
    <3> QED BY <3>2, <3>3
  <2>2. CASE y \in s /\ x = y
    <3>1. g[s] = F[y] + h[s \ {y}] /\ g[s \ {y}] = h[s \ {y}]
      BY <1>4, <2>0, <2>2
    <3> QED BY <2>2, <3>1
  <2>3. CASE y \in s /\ x # y
    <3> DEFINE r == (s \ {y}) \ {x}
    <3>1. s \ {y} \in SUBSET (T \ {y}) /\ x \in s \ {y}
          /\ (s \ {x}) \ {y} = r /\ y \in s \ {x}
      BY <2>3
    <3>2. h[s \ {y}] = F[x] + h[r]
      BY <3>1 DEF IsSum
    <3>3. g[s] = F[y] + h[s \ {y}] /\ g[s \ {x}] = F[y] + h[r]
      BY <1>4, <2>0, <2>3, <3>1
    <3>4. h[r] \in Nat /\ F[x] \in Nat /\ F[y] \in Nat
      BY <1>1, <1>2, <3>1
    <3> HIDE DEF r
    <3>5. F[y] + (F[x] + h[r]) = F[x] + (F[y] + h[r])
      BY <3>4
    <3> QED BY <3>2, <3>3, <3>5
  <2> QED BY <2>1, <2>2, <2>3
<1>8. IsSum(g, F, T)
  BY <1>5, <1>6, <1>7 DEF IsSum
<1> QED BY <1>8

(* Every function to the naturals has its sum over a finite set. *)
LEMMA SumExists ==
    ASSUME NEW S, IsFiniteSet(S), NEW F, \A x \in S : F[x] \in Nat
    PROVE  \E g : IsSum(g, F, S)
<1> DEFINE Bad == {s \in SUBSET S : ~\E g : IsSum(g, F, s)}
<1>1. SUFFICES ASSUME Bad # {} PROVE FALSE
  OBVIOUS
<1>0. Bad \in SUBSET SUBSET S
  OBVIOUS
<1> HIDE DEF Bad
<1>2. PICK T \in Bad : \A U \in Bad : ~(U \subseteq T /\ U # T)
  BY <1>0, <1>1, SmallestSubset
<1> USE DEF Bad
<1>3. T \in SUBSET S /\ ~\E g : IsSum(g, F, T)
  BY <1>2
<1>4. CASE T = {}
  <2> DEFINE g == [s \in SUBSET T |-> 0]
  <2>1. g \in [SUBSET T -> Nat] /\ g[{}] = 0
    OBVIOUS
  <2>2. \A s \in SUBSET T : \A x \in s : g[s] = F[x] + g[s \ {x}]
    BY <1>4
  <2>3. IsSum(g, F, T)
    BY <2>1, <2>2 DEF IsSum
  <2> QED BY <1>3, <2>3
<1>5. CASE T # {}
  <2>1. PICK y \in T : TRUE
    BY <1>5
  <2>2. T \ {y} \subseteq T /\ T \ {y} # T /\ T \ {y} \in SUBSET S
    BY <1>3
  <2>3. PICK h : IsSum(h, F, T \ {y})
    BY <1>2, <2>2
  <2>4. \A x \in T : F[x] \in Nat
    BY <1>3
  <2>5. \E g : IsSum(g, F, T)
    BY <2>3, <2>4, SumGrows
  <2> QED BY <1>3, <2>5
<1> QED BY <1>4, <1>5

(* What takes the F of some element from every subset computes the sum. *)
Folds(k, F, S) ==
    /\ k[{}] = 0
    /\ \A s \in (SUBSET S) \ {{}} : \E x \in s : k[s] = F[x] + k[s \ {x}]

LEMMA FoldIsSum ==
    ASSUME NEW S, IsFiniteSet(S), NEW F, NEW g, IsSum(g, F, S),
           NEW k, Folds(k, F, S)
    PROVE  k[S] = g[S]
<1>1. ASSUME NEW s \in (SUBSET S) \ {{}}
      PROVE  \E x \in s : \E n : /\ k[s] = n + k[s \ {x}]
                                 /\ g[s] = n + g[s \ {x}]
  <2>1. PICK x \in s : k[s] = F[x] + k[s \ {x}]
    BY DEF Folds
  <2>2. g[s] = F[x] + g[s \ {x}]
    BY <2>1 DEF IsSum
  <2> QED BY <2>1, <2>2
<1>2. k[{}] = g[{}]
  BY DEF IsSum, Folds
<1>3. Alike(k, g, S)
  BY <1>1, <1>2 DEF Alike
<1> QED BY <1>3, SumsAgree

(* A sum of smaller terms is smaller. *)
LEMMA SumsOrdered ==
    ASSUME NEW S, IsFiniteSet(S), NEW F, NEW G,
           \A x \in S : F[x] \in Nat /\ G[x] \in Nat /\ F[x] <= G[x],
           NEW g, IsSum(g, F, S), NEW h, IsSum(h, G, S)
    PROVE  g[S] <= h[S]
<1> DEFINE Bad == {s \in SUBSET S : ~(g[s] <= h[s])}
<1>1. SUFFICES ASSUME Bad # {} PROVE FALSE
  OBVIOUS
<1>0. Bad \in SUBSET SUBSET S
  OBVIOUS
<1> HIDE DEF Bad
<1>2. PICK T \in Bad : \A U \in Bad : ~(U \subseteq T /\ U # T)
  BY <1>0, <1>1, SmallestSubset
<1> USE DEF Bad
<1>3. T \in SUBSET S /\ ~(g[T] <= h[T])
  BY <1>2
<1>4. g[{}] <= h[{}]
  BY DEF IsSum
<1>5. PICK x \in T : TRUE
  BY <1>3, <1>4
<1>6. T \ {x} \in SUBSET S /\ T \ {x} \subseteq T /\ T \ {x} # T
  BY <1>3, <1>5
<1>7. g[T \ {x}] <= h[T \ {x}]
  BY <1>2, <1>6
<1>8. g[T] = F[x] + g[T \ {x}] /\ h[T] = G[x] + h[T \ {x}]
  BY <1>3, <1>5 DEF IsSum
<1>9. g[T \ {x}] \in Nat /\ h[T \ {x}] \in Nat
  BY <1>6 DEF IsSum
<1>10. F[x] \in Nat /\ G[x] \in Nat /\ F[x] <= G[x]
  BY <1>3, <1>5
<1> HIDE DEF Bad
<1> QED BY <1>3, <1>7, <1>8, <1>9, <1>10

-----------------------------------------------------------------------------
(* What the calls weigh in the budget is such a sum. *)

Weight == [c \in Calls |-> Obligation(c)]

LEMMA ObligationType == TypeOK => \A c \in Calls : Obligation(c) \in Nat
BY CallsAssumption DEF TypeOK, Obligation

(* The fold that Obligations is written with adds up every subset. *)
LEMMA FoldAddsUp ==
    ASSUME NEW S \in SUBSET Calls, IsFiniteSet(S),
           NEW g, IsSum(g, Weight, S)
    PROVE  g[S] = Obligations(S)
<1> DEFINE Body(k) == [s \in SUBSET S |->
                 IF s = {} THEN 0
                 ELSE Obligation(CHOOSE x \in s : TRUE)
                        + k[s \ {CHOOSE x \in s : TRUE}]]
<1>1. \A s \in (SUBSET S) \ {{}} : /\ (CHOOSE x \in s : TRUE) \in s
                                   /\ \A x \in s : Weight[x] = Obligation(x)
  <2>1. \A s \in (SUBSET S) \ {{}} : (CHOOSE x \in s : TRUE) \in s
    OBVIOUS
  <2> QED BY <2>1 DEF Weight
<1>2. g = Body(g)
  <2>1. ASSUME NEW s \in SUBSET S PROVE g[s] = Body(g)[s]
    <3>1. CASE s = {}
      BY <3>1 DEF IsSum
    <3>2. CASE s # {}
      <4> DEFINE x == CHOOSE x \in s : TRUE
      <4>1. x \in s /\ Weight[x] = Obligation(x)
        BY <1>1, <3>2
      <4>2. g[s] = Weight[x] + g[s \ {x}]
        BY <4>1 DEF IsSum
      <4> QED BY <3>2, <4>1, <4>2
    <3> QED BY <3>1, <3>2
  <2> QED BY <2>1 DEF IsSum
<1> DEFINE k == CHOOSE k : k = Body(k)
<1>3. k = Body(k)
  BY <1>2
<1>4. Obligations(S) = k[S]
  BY DEF Obligations, MapThenSumSet, MapThenFoldSet
<1> HIDE DEF k
<1>5. k[{}] = 0
  <2>1. {} \in SUBSET S
    OBVIOUS
  <2>2. k[{}] = g[{}]
    BY <1>3, <2>1 DEF IsSum
  <2> QED BY <2>2 DEF IsSum
<1>6. ASSUME NEW s \in (SUBSET S) \ {{}}
      PROVE  \E x \in s : k[s] = Weight[x] + k[s \ {x}]
  <2> DEFINE x == CHOOSE x \in s : TRUE
  <2>1. x \in s /\ Weight[x] = Obligation(x)
    BY <1>1
  <2>2. k[s] = Obligation(x) + k[s \ {x}]
    BY <1>3
  <2> HIDE DEF x
  <2> QED BY <2>1, <2>2
<1>7. Folds(k, Weight, S)
  BY <1>5, <1>6 DEF Folds
<1>8. k[S] = g[S]
  BY <1>7, FoldIsSum
<1> QED BY <1>4, <1>8

AddsUp ==
    \A S \in {Calls, Batches} :
        \E g : IsSum(g, Weight, S) /\ g[S] = Obligations(S)

LEMMA FiniteCalls == IsFiniteSet(Calls) /\ IsFiniteSet(Batches)
BY CallsAssumption, FS_Union DEF Calls

LEMMA ObligationsAddUp == TypeOK => AddsUp
<1> SUFFICES ASSUME TypeOK PROVE AddsUp
  OBVIOUS
<1>1. ASSUME NEW S \in {Calls, Batches}
      PROVE  \E g : IsSum(g, Weight, S) /\ g[S] = Obligations(S)
  <2>1. IsFiniteSet(S) /\ S \in SUBSET Calls
    BY FiniteCalls DEF Calls
  <2>2. \A x \in S : Weight[x] \in Nat
    BY <2>1, ObligationType DEF Weight
  <2>3. PICK g : IsSum(g, Weight, S)
    BY <2>1, <2>2, SumExists
  <2> QED BY <2>1, <2>3, FoldAddsUp
<1> QED BY <1>1 DEF AddsUp

LEMMA ObligationsAddUpNext == TypeOK' => AddsUp'
BY ObligationsAddUp, PTL

(* A sum changes by what one call changes. *)
Others(c) == \A d \in Calls \ {c} : Obligation(d)' = Obligation(d)

LEMMA OneCallChanges ==
    ASSUME TypeOK, TypeOK', NEW c \in Calls, Others(c),
           NEW S \in {Calls, Batches}
    PROVE  IF c \in S
           THEN \E rest \in Nat :
                    /\ Obligations(S) = Obligation(c) + rest
                    /\ Obligations(S)' = Obligation(c)' + rest
           ELSE Obligations(S)' = Obligations(S)
<1>1. IsFiniteSet(S) /\ S \in SUBSET Calls /\ S' = S
  BY FiniteCalls DEF Calls
<1>2. PICK g : IsSum(g, Weight, S) /\ g[S] = Obligations(S)
  BY ObligationsAddUp DEF AddsUp
<1>3. PICK h : IsSum(h, Weight', S) /\ h[S] = Obligations(S)'
  BY ObligationsAddUpNext DEF AddsUp
<1>4. /\ \A d \in S : Weight[d] = Obligation(d) /\ Weight'[d] = Obligation(d)'
      /\ \A d \in S \ {c} : Weight'[d] = Weight[d]
  BY <1>1 DEF Weight, Others
<1> DEFINE T == S \ {c}
<1>5. IsFiniteSet(T) /\ T \in SUBSET S
  BY <1>1, FS_Subset
<1>6. g[{}] = h[{}]
  BY <1>2, <1>3 DEF IsSum
<1>7. ASSUME NEW s \in (SUBSET T) \ {{}}
      PROVE  \E x \in s : \E n : /\ g[s] = n + g[s \ {x}]
                                 /\ h[s] = n + h[s \ {x}]
  <2>1. PICK x \in s : x \in T
    OBVIOUS
  <2>2. g[s] = Weight[x] + g[s \ {x}] /\ h[s] = Weight'[x] + h[s \ {x}]
    BY <1>2, <1>3, <1>5, <2>1 DEF IsSum
  <2> QED BY <1>4, <2>1, <2>2
<1>8. \A s \in SUBSET T : g[s] = h[s]
  <2> HIDE DEF T
  <2>1. Alike(g, h, T)
    BY <1>6, <1>7 DEF Alike
  <2> QED BY <1>5, <2>1, SumsAgree
<1>9. g[T] = h[T] /\ g[T] \in Nat
  BY <1>2, <1>5, <1>8 DEF IsSum
<1>10. CASE c \in S
  <2>1. g[S] = Weight[c] + g[T] /\ h[S] = Weight'[c] + h[T]
    BY <1>2, <1>3, <1>10 DEF IsSum
  <2> QED BY <1>2, <1>3, <1>4, <1>9, <1>10, <2>1
<1>11. CASE c \notin S
  BY <1>2, <1>3, <1>9, <1>11
<1> QED BY <1>10, <1>11

-----------------------------------------------------------------------------
(* What a step does to the budget. *)

BreakerOpen == \E p \in Purposes : safety[p].open

Unweighed == \A c \in Calls : Obligation(c)' = Obligation(c)

NotHeavier(c) == Others(c) /\ Obligation(c)' <= Obligation(c)

(* A call that is admitted fits, with its reserve, beside all the others. *)
Admitted(c) ==
    /\ Others(c)
    /\ Obligation(c) = 0
    /\ Obligation(c)' = Reserve
    /\ Obligations(Calls) + Reserve <= TotalCeiling
    /\ c \in Batches => Obligations(Batches) + Reserve <= ValidationCeiling

(* An answer cost more than was reserved for it. *)
Overruns(c) ==
    /\ Others(c)
    /\ Obligation(c)' = billed[c]
    /\ billed[c] > Reserve
    /\ BreakerOpen'

BudgetStep ==
    \/ Unweighed
    \/ \E c \in Calls : NotHeavier(c) \/ Admitted(c) \/ Overruns(c)

LEMMA SameRowsWeighTheSame ==
    ASSUME NEW c \in Calls, \A d \in Calls \ {c} : call'[d] = call[d]
    PROVE  Others(c)
BY DEF Others, Obligation

LEMMA SettledNotHeavier ==
    ASSUME TypeOK, NEW c \in Calls, NEW s \in Terminal, NEW n, NEW o,
           call' = Settled(c, s, n, o), n <= Obligation(c)
    PROVE  NotHeavier(c)
<1>1. call'[c].status = s /\ call'[c].charge = n
      /\ \A d \in Calls \ {c} : call'[d] = call[d]
  BY SettledIs DEF TypeOK, Rows
<1>2. Obligation(c)' = n
  BY <1>1 DEF Obligation
<1> QED BY <1>1, <1>2, SameRowsWeighTheSame DEF NotHeavier

LEMMA ClaimedWeighsReserve ==
    ASSUME NEW c \in Calls, call[c].status = "claimed"
    PROVE  Obligation(c) = Reserve
BY DEF Obligation, Terminal

LEMMA AdminNotHeavier ==
    ASSUME TypeOK, NEW c \in Calls, call[c].status = "claimed",
           call' = AdminSettled(c)
    PROVE  NotHeavier(c)
<1>1. call'[c].status = "failed" /\ call'[c].charge \in {0, Reserve}
      /\ \A d \in Calls \ {c} : call'[d] = call[d]
  BY AdminIs DEF TypeOK, Rows
<1>2. Obligation(c)' = call'[c].charge
  BY <1>1 DEF Obligation, Terminal
<1>3. Obligation(c)' <= Obligation(c)
  BY <1>1, <1>2, ClaimedWeighsReserve, CallsAssumption
<1> QED BY <1>1, <1>3, SameRowsWeighTheSame DEF NotHeavier

LEMMA InsertedWeighs ==
    ASSUME TypeOK, NEW c \in Calls, call[c].status = "none",
           call' = [call EXCEPT ![c] =
               [NoCall EXCEPT !.status = "claimed", !.token = 1]]
    PROVE  Others(c) /\ Obligation(c) = 0 /\ Obligation(c)' = Reserve
<1>1. call'[c].status = "claimed" /\ \A d \in Calls \ {c} : call'[d] = call[d]
  BY DEF TypeOK, NoCall
<1> QED BY <1>1, SameRowsWeighTheSame DEF Obligation, Terminal

(* A new lease, a started attempt and an expired lease weigh nothing. *)
LEMMA LeaseWeighsNothing ==
    ASSUME TypeOK, NEW c \in Calls,
           \/ NewLease(c)
           \/ call' = [call EXCEPT ![c].attempt = 1]
           \/ call' = [call EXCEPT ![c].attempt = 1, ![c].expired = FALSE]
           \/ call' = [call EXCEPT ![c].expired = TRUE]
    PROVE  Unweighed
<1>1. call \in [Calls -> Rows]
  BY DEF TypeOK, Rows
<1>2. \A d \in Calls : /\ call'[d].status = call[d].status
                       /\ call'[d].charge = call[d].charge
  BY <1>1 DEF NewLease, Rows
<1> QED BY <1>2 DEF Unweighed, Obligation

LEMMA TrippedOpens ==
    ASSUME TypeOK, NEW p \in Purposes, safety' = Tripped(p)
    PROVE  BreakerOpen'
<1>1. safety'[p].open
  BY DEF TypeOK, Tripped
<1> QED BY <1>1 DEF BreakerOpen

(* What a thread holds beyond the reserve is what was billed. *)
LEMMA DearAnswers ==
    ASSUME TypeOK, AnswersBilled, UsageOfAnswers,
           NEW w \in Workers, NEW c \in Calls, worker[w].call = c,
           NEW u \in {worker[w].usage, NoUsage}, Charge(u) > Reserve
    PROVE  Charge(u) = billed[c]
<1>1. u # NoUsage /\ u = worker[w].usage
  BY CallsAssumption DEF Charge
<1>2. worker[w].pc = "answered"
  BY <1>1 DEF UsageOfAnswers
<1> QED BY <1>1, <1>2 DEF AnswersBilled, Charge

LEMMA StepBudget ==
    TypeOK /\ AnswersBilled /\ UsageOfAnswers /\ [Next]_vars => BudgetStep
<1> SUFFICES ASSUME TypeOK, AnswersBilled, UsageOfAnswers, [Next]_vars
             PROVE  BudgetStep
  OBVIOUS
<1>0. /\ Agents \subseteq Calls /\ Batches \subseteq Calls
      /\ Agents \cap Batches = {}
      /\ Purposes = {"extraction", "validation"}
      /\ "failed" \in Terminal /\ "completed" \in Terminal
      /\ Reserve \in Nat
      /\ \A c \in Calls : Obligation(c) \in Nat
  BY CallsAssumption, ObligationType DEF Calls, Purposes, Terminal
<1>n. ASSUME NEW c \in Calls, NotHeavier(c) PROVE BudgetStep
  BY <1>n DEF BudgetStep
<1>u. ASSUME UNCHANGED call PROVE BudgetStep
  BY <1>u DEF BudgetStep, Unweighed, Obligation
<1>z. ASSUME NEW c \in Calls, NEW o, call' = Settled(c, "failed", 0, o)
      PROVE  BudgetStep
  <2>1. 0 <= Obligation(c)
    BY <1>0
  <2> QED BY <1>0, <1>n, <1>z, <2>1, SettledNotHeavier
<1>r. ASSUME NEW c \in Calls, call[c].status = "claimed",
             NEW s \in Terminal, NEW n \in Nat, n <= Reserve, NEW o,
             call' = Settled(c, s, n, o)
      PROVE  BudgetStep
  <2>1. n <= Obligation(c)
    BY <1>r, ClaimedWeighsReserve
  <2> QED BY <1>n, <1>r, <2>1, SettledNotHeavier
<1>l. ASSUME NEW c \in Calls,
             \/ NewLease(c)
             \/ call' = [call EXCEPT ![c].attempt = 1]
             \/ call' = [call EXCEPT ![c].attempt = 1, ![c].expired = FALSE]
             \/ call' = [call EXCEPT ![c].expired = TRUE]
      PROVE  BudgetStep
  BY <1>l, LeaseWeighsNothing DEF BudgetStep
<1>b. ASSUME \/ safety' = open_budget_breaker
             \/ safety' = open_overrun_breaker
      PROVE  BreakerOpen'
  <2>1. CASE safety["validation"].open /\ safety' = safety
    BY <1>0, <2>1 DEF BreakerOpen
  <2>2. CASE safety' = Tripped("validation") \/ safety' = Tripped("extraction")
    BY <1>0, <2>2, TrippedOpens
  <2> QED
    BY <1>b, <2>1, <2>2 DEF open_budget_breaker, open_overrun_breaker
<1>p. ASSUME NEW w \in Workers, NEW c \in Calls, worker[w].call = c,
             call[c].status = "claimed",
             NEW u \in {worker[w].usage, NoUsage},
             NEW s \in Terminal, NEW o, call' = Settled(c, s, Charge(u), o),
             Charge(u) > Reserve => \/ safety' = open_budget_breaker
                                    \/ safety' = open_overrun_breaker
      PROVE  BudgetStep
  <2>1. Charge(u) \in Nat
    BY ChargeType DEF TypeOK, Threads
  <2>2. CASE Charge(u) > Reserve
    <3>1. Charge(u) = billed[c]
      BY <1>p, <2>2, DearAnswers
    <3>2. /\ call'[c].status = s /\ call'[c].charge = Charge(u)
          /\ \A d \in Calls \ {c} : call'[d] = call[d]
      BY <1>p, SettledIs DEF TypeOK, Rows
    <3>3. Others(c) /\ Obligation(c)' = Charge(u)
      BY <1>p, <3>2, SameRowsWeighTheSame DEF Obligation
    <3>4. Overruns(c)
      BY <1>b, <1>p, <2>2, <3>1, <3>3 DEF Overruns
    <3> QED BY <3>4 DEF BudgetStep
  <2>3. CASE ~(Charge(u) > Reserve)
    <3>1. Charge(u) <= Reserve
      BY <1>0, <2>1, <2>3
    <3> QED BY <1>p, <1>r, <2>1, <3>1
  <2> QED BY <2>2, <2>3
<1>a. ASSUME NEW c \in Calls, call[c].status = "claimed", call' = AdminSettled(c)
      PROVE  BudgetStep
  BY <1>a, <1>n, AdminNotHeavier
<1>1. ASSUME NEW w \in Workers, NEW b \in Batches, ClaimValidation(w, b)
      PROVE  BudgetStep
  <2>1. CASE /\ call[b].status = "none"
             /\ require_workflow_budget
             /\ call' = [call EXCEPT ![b] =
                    [NoCall EXCEPT !.status = "claimed", !.token = 1]]
    <3>1. Others(b) /\ Obligation(b) = 0 /\ Obligation(b)' = Reserve
      BY <1>0, <2>1, InsertedWeighs
    <3>2. Admitted(b)
      BY <2>1, <3>1 DEF Admitted, require_workflow_budget
    <3> QED BY <1>0, <3>2 DEF BudgetStep
  <2>2. CASE NewLease(b)
    BY <1>0, <1>l, <2>2
  <2> QED BY <1>1, <2>1, <2>2 DEF ClaimValidation
<1>2. ASSUME NEW w \in Workers, NEW b \in Batches, StartValidation(w, b)
      PROVE  BudgetStep
  BY <1>0, <1>2, <1>l, <1>z DEF StartValidation
<1>3. ASSUME NEW w \in Workers, NEW b \in Batches, CheckValidation(w, b)
      PROVE  BudgetStep
  BY <1>3, <1>u DEF CheckValidation
<1>4. ASSUME NEW w \in Workers, NEW b \in Batches, CompleteValidation(w, b)
      PROVE  BudgetStep
  <2> DEFINE n == worker[w].usage
  <2>1. n = Charge(n)
    BY <1>4 DEF CompleteValidation, Charge
  <2>2. PICK s \in Terminal : \E o : call' = Settled(b, s, n, o)
    BY <1>0, <1>4 DEF CompleteValidation
  <2>3. n > Reserve => safety' = open_budget_breaker
    BY <1>4 DEF CompleteValidation, validation_overrun
  <2>4. call[b].status = "claimed" /\ worker[w].call = b
    BY <1>4 DEF CompleteValidation, Holds
  <2> HIDE DEF n
  <2> QED BY <1>0, <1>p, <2>1, <2>2, <2>3, <2>4 DEF n
<1>5. ASSUME NEW w \in Workers, NEW b \in Batches, FailValidation(w, b)
      PROVE  BudgetStep
  <2>1. PICK u \in {worker[w].usage, NoUsage} :
           /\ call' = Settled(b, "failed", Charge(u), Charge(u) > Reserve)
           /\ safety' = IF Charge(u) > Reserve
                        THEN open_budget_breaker ELSE safety
    BY <1>5 DEF FailValidation
  <2>2. call[b].status = "claimed" /\ worker[w].call = b
    BY <1>5 DEF FailValidation, Holds
  <2> QED BY <1>0, <1>p, <2>1, <2>2
<1>6. ASSUME NEW w \in Workers, NEW b \in Batches, CancelValidation(w, b)
      PROVE  BudgetStep
  BY <1>0, <1>6, <1>z DEF CancelValidation
<1>7. ASSUME NEW b \in Batches, RecoverValidation(b) PROVE BudgetStep
  <2>1. Reserve <= Reserve
    BY <1>0
  <2> QED BY <1>0, <1>7, <1>r, <2>1 DEF RecoverValidation
<1>8. ASSUME NEW w \in Workers, NEW a \in Agents, ClaimExtraction(w, a)
      PROVE  BudgetStep
  <2>1. CASE /\ call[a].status = "none"
             /\ ensure_claim_ready(Reserve)
             /\ call' = [call EXCEPT ![a] =
                    [NoCall EXCEPT !.status = "claimed", !.token = 1]]
    <3>1. Others(a) /\ Obligation(a) = 0 /\ Obligation(a)' = Reserve
      BY <1>0, <2>1, InsertedWeighs
    <3>2. Admitted(a)
      BY <1>0, <2>1, <3>1 DEF Admitted, ensure_claim_ready
    <3> QED BY <1>0, <3>2 DEF BudgetStep
  <2>2. CASE UNCHANGED call
    BY <1>u, <2>2
  <2> QED BY <1>8, <2>1, <2>2 DEF ClaimExtraction
<1>9. ASSUME NEW w \in Workers, NEW a \in Agents, StartExtraction(w, a)
      PROVE  BudgetStep
  BY <1>0, <1>9, <1>l, <1>z DEF StartExtraction
<1>10. ASSUME NEW w \in Workers, NEW a \in Agents, CheckExtraction(w, a)
       PROVE  BudgetStep
  BY <1>10, <1>u DEF CheckExtraction
<1>11. ASSUME NEW w \in Workers, NEW a \in Agents, CompleteExtraction(w, a)
       PROVE  BudgetStep
  <2> DEFINE n == Charge(worker[w].usage)
  <2>1. PICK s \in Terminal : \E o : call' = Settled(a, s, n, o)
    BY <1>0, <1>11 DEF CompleteExtraction
  <2>2. n > Reserve => safety' = open_overrun_breaker
    BY <1>11 DEF CompleteExtraction, extraction_overrun
  <2>3. call[a].status = "claimed" /\ worker[w].call = a
    BY <1>11 DEF CompleteExtraction, Holds
  <2> QED BY <1>0, <1>p, <2>1, <2>2, <2>3
<1>12. ASSUME NEW w \in Workers, NEW a \in Agents, FailExtraction(w, a)
       PROVE  BudgetStep
  <2>1. PICK u \in {worker[w].usage, NoUsage} :
           LET started == call[a].attempt = 1
               charge == IF started THEN Charge(u) ELSE 0
               over == started /\ extraction_overrun(a, charge)
           IN /\ call' = Settled(a, "failed", charge, over)
              /\ safety' = IF over THEN open_overrun_breaker ELSE safety
    BY <1>12 DEF FailExtraction
  <2>2. call[a].status = "claimed" /\ worker[w].call = a
    BY <1>12 DEF FailExtraction, Holds
  <2>3. CASE call[a].attempt # 1
    BY <1>0, <1>z, <2>1, <2>3
  <2>4. CASE call[a].attempt = 1
    <3>1. \E o : call' = Settled(a, "failed", Charge(u), o)
      BY <2>1, <2>4
    <3>2. Charge(u) > Reserve => safety' = open_overrun_breaker
      BY <2>1, <2>4 DEF extraction_overrun
    <3> QED BY <1>0, <1>p, <2>2, <3>1, <3>2
  <2> QED BY <2>3, <2>4
<1>13. ASSUME NEW w \in Workers, NEW a \in Agents, CancelExtraction(w, a)
       PROVE  BudgetStep
  BY <1>0, <1>13, <1>u, <1>z DEF CancelExtraction
<1>14. ASSUME NEW w \in Workers, NEW a \in Agents, RecoverExtraction(w, a)
       PROVE  BudgetStep
  <2>1. \/ NewLease(a)
        \/ call' = Settled(a, "failed", 0, FALSE)
        \/ call' = Settled(a, "failed", Reserve, FALSE)
    BY <1>14 DEF RecoverExtraction
  <2>2. call[a].status = "claimed" /\ Reserve <= Reserve
    BY <1>0, <1>14 DEF RecoverExtraction
  <2> QED BY <1>0, <1>l, <1>r, <1>z, <2>1, <2>2
<1>15. ASSUME NEW a \in Agents, ReplayBindingFailure(a) PROVE BudgetStep
  <2>1. /\ call[a].status = "completed" /\ call'[a].status = "failed"
        /\ call'[a].charge = call[a].charge
        /\ \A d \in Calls \ {a} : call'[d] = call[d]
    BY <1>0, <1>15 DEF ReplayBindingFailure, TypeOK
  <2>2. Unweighed
    BY <1>0, <2>1 DEF Unweighed, Obligation
  <2> QED BY <2>2 DEF BudgetStep
<1>16. ASSUME NEW w \in Workers, NEW c \in Calls, Send(w, c) PROVE BudgetStep
  BY <1>16, <1>u DEF Send
<1>17. ASSUME NEW w \in Workers, GiveUp(w) PROVE BudgetStep
  BY <1>17, <1>u DEF GiveUp
<1>18. CASE Crash \/ CancelWorkflow \/ WorldChanges \/ UNCHANGED vars
  BY <1>18, <1>u DEF Crash, CancelWorkflow, WorldChanges, vars
<1>19. ASSUME NEW c \in Calls, RecoverExpired(c) \/ SettleCancelled(c)
       PROVE  BudgetStep
  BY <1>19, <1>a, <1>u DEF RecoverExpired, SettleCancelled
<1>20. ASSUME NEW c \in Calls, LeaseExpires(c) PROVE BudgetStep
  BY <1>20, <1>l DEF LeaseExpires
<1> QED
  BY <1>1, <1>2, <1>3, <1>4, <1>5, <1>6, <1>7, <1>8, <1>9, <1>10, <1>11,
     <1>12, <1>13, <1>14, <1>15, <1>16, <1>17, <1>18, <1>19, <1>20 DEF Next

(* Only an operator closes a breaker again, outside this workflow. *)
LEMMA StepBreaker == TypeOK /\ BreakerOpen /\ [Next]_vars => BreakerOpen'
<1> SUFFICES ASSUME TypeOK, BreakerOpen, [Next]_vars PROVE BreakerOpen'
  OBVIOUS
<1>0. PICK p \in Purposes : safety[p].open
  BY DEF BreakerOpen
<1>1. Purposes = {"extraction", "validation"}
  BY DEF Purposes
<1>2. ASSUME safety' = safety PROVE BreakerOpen'
  BY <1>0, <1>2 DEF BreakerOpen
<1>3. ASSUME \/ safety' = open_budget_breaker
             \/ safety' = open_overrun_breaker
      PROVE  BreakerOpen'
  <2>1. CASE safety' = safety
    BY <1>2, <2>1
  <2>2. CASE safety' = Tripped("validation") \/ safety' = Tripped("extraction")
    BY <1>1, <2>2, TrippedOpens
  <2> QED
    BY <1>3, <2>1, <2>2 DEF open_budget_breaker, open_overrun_breaker
<1>4. CASE \E w \in Workers, b \in Batches :
              CompleteValidation(w, b) \/ FailValidation(w, b)
  <2>1. safety' = safety \/ safety' = open_budget_breaker
    BY <1>4 DEF CompleteValidation, FailValidation
  <2> QED BY <1>2, <1>3, <2>1
<1>5. CASE \E w \in Workers, a \in Agents :
              CompleteExtraction(w, a) \/ FailExtraction(w, a)
  <2>1. safety' = safety \/ safety' = open_overrun_breaker
    BY <1>5 DEF CompleteExtraction, FailExtraction
  <2> QED BY <1>2, <1>3, <2>1
<1>6. CASE \/ \E w \in Workers, b \in Batches :
                 \/ ClaimValidation(w, b) \/ StartValidation(w, b)
                 \/ CheckValidation(w, b) \/ CancelValidation(w, b)
           \/ \E b \in Batches : RecoverValidation(b)
  <2>1. ASSUME NEW w \in Workers, NEW b \in Batches,
               \/ ClaimValidation(w, b) \/ StartValidation(w, b)
               \/ CheckValidation(w, b)
        PROVE  safety' = safety
    BY <2>1 DEF ClaimValidation, StartValidation, CheckValidation
  <2>2. ASSUME NEW w \in Workers, NEW b \in Batches, CancelValidation(w, b)
        PROVE  safety' = safety
    BY <2>2 DEF CancelValidation
  <2>3. ASSUME NEW b \in Batches, RecoverValidation(b)
        PROVE  safety' = safety
    BY <2>3 DEF RecoverValidation
  <2>4. safety' = safety
    BY <1>6, <2>1, <2>2, <2>3
  <2> QED BY <1>2, <2>4
<1>7. CASE \/ \E w \in Workers, a \in Agents :
                 \/ ClaimExtraction(w, a) \/ StartExtraction(w, a)
                 \/ CheckExtraction(w, a) \/ CancelExtraction(w, a)
                 \/ RecoverExtraction(w, a)
           \/ \E a \in Agents : ReplayBindingFailure(a)
  <2>1. ASSUME NEW w \in Workers, NEW a \in Agents,
               \/ ClaimExtraction(w, a) \/ StartExtraction(w, a)
               \/ CheckExtraction(w, a)
        PROVE  safety' = safety
    BY <2>1 DEF ClaimExtraction, StartExtraction, CheckExtraction
  <2>2. ASSUME NEW w \in Workers, NEW a \in Agents,
               \/ CancelExtraction(w, a) \/ RecoverExtraction(w, a)
        PROVE  safety' = safety
    BY <2>2 DEF CancelExtraction, RecoverExtraction
  <2>3. ASSUME NEW a \in Agents, ReplayBindingFailure(a)
        PROVE  safety' = safety
    BY <2>3 DEF ReplayBindingFailure
  <2>4. safety' = safety
    BY <1>7, <2>1, <2>2, <2>3
  <2> QED BY <1>2, <2>4
<1>8. CASE \/ \E w \in Workers, c \in Calls : Send(w, c)
           \/ \E w \in Workers : GiveUp(w)
           \/ \E c \in Calls : \/ RecoverExpired(c) \/ SettleCancelled(c)
                               \/ LeaseExpires(c)
  BY <1>2, <1>8 DEF Send, GiveUp, RecoverExpired, SettleCancelled, LeaseExpires
<1>9. CASE Crash \/ CancelWorkflow \/ WorldChanges \/ UNCHANGED vars
  <2>1. safety' = safety
    BY <1>9 DEF Crash, CancelWorkflow, WorldChanges, vars
  <2> QED BY <1>2, <2>1
<1> QED BY <1>4, <1>5, <1>6, <1>7, <1>8, <1>9 DEF Next

WithinBudget ==
    /\ Obligations(Calls) <= TotalCeiling
    /\ Obligations(Batches) <= ValidationCeiling

LEMMA KeptIs == BudgetKept <=> WithinBudget \/ BreakerOpen
BY DEF BudgetKept, WithinBudget, BreakerOpen

(* Where no call grows heavier the sum does not grow. *)
LEMMA NoneHeavier ==
    ASSUME TypeOK, TypeOK', NEW S \in {Calls, Batches},
           \A c \in S : Obligation(c)' <= Obligation(c)
    PROVE  Obligations(S)' <= Obligations(S)
<1>1. IsFiniteSet(S) /\ S \in SUBSET Calls
  BY FiniteCalls DEF Calls
<1>2. PICK g : IsSum(g, Weight, S) /\ g[S] = Obligations(S)
  BY ObligationsAddUp DEF AddsUp
<1>3. PICK h : IsSum(h, Weight', S) /\ h[S] = Obligations(S)'
  BY ObligationsAddUpNext DEF AddsUp
<1>4. TypeOK' => (\A c \in Calls : Obligation(c) \in Nat)'
  BY ObligationType, PTL
<1>5. \A c \in S : /\ Weight[c] \in Nat /\ Weight'[c] \in Nat
                  /\ Weight'[c] <= Weight[c]
  BY <1>1, <1>4, ObligationType DEF Weight
<1>6. h[S] <= g[S]
  BY <1>1, <1>2, <1>3, <1>5, SumsOrdered
<1> QED BY <1>2, <1>3, <1>6

LEMMA SumType ==
    ASSUME TypeOK, NEW S \in {Calls, Batches}
    PROVE  Obligations(S) \in Nat
BY FiniteCalls, ObligationsAddUp DEF AddsUp, IsSum

LEMMA SumTypeNext == TypeOK' => (\A S \in {Calls, Batches} : Obligations(S) \in Nat)'
<1>1. TypeOK => \A S \in {Calls, Batches} : Obligations(S) \in Nat
  BY SumType
<1> QED BY <1>1, PTL

(* A limit that holds is kept by a step unless a call it counts overruns. *)
LEMMA StepFits ==
    ASSUME TypeOK, TypeOK', BudgetStep, NEW S \in {Calls, Batches}, NEW L \in Nat,
           Obligations(S) <= L,
           \A c \in S : ~Overruns(c),
           \A c \in S : Admitted(c) => Obligations(S) + Reserve <= L
    PROVE  Obligations(S)' <= L
<1>0. /\ S \in SUBSET Calls /\ Reserve \in Nat
      /\ \A c \in Calls : Obligation(c) \in Nat
      /\ Obligations(S) \in Nat /\ Obligations(S)' \in Nat
  BY CallsAssumption, ObligationType, SumType, SumTypeNext DEF Calls
<1>1. ASSUME \A c \in S : Obligation(c)' <= Obligation(c)
      PROVE  Obligations(S)' <= L
  <2>1. Obligations(S)' <= Obligations(S)
    BY <1>1, NoneHeavier
  <2> QED BY <1>0, <2>1
<1>2. ASSUME NEW c \in Calls, Others(c), c \in S => Obligation(c)' <= Obligation(c)
      PROVE  Obligations(S)' <= L
  <2>1. ASSUME NEW d \in S PROVE Obligation(d)' <= Obligation(d)
    <3>1. CASE d = c
      BY <1>2, <3>1
    <3>2. CASE d # c
      BY <1>0, <1>2, <3>2 DEF Others
    <3> QED BY <3>1, <3>2
  <2> QED BY <1>1, <2>1
<1>3. CASE Unweighed
  BY <1>0, <1>1, <1>3 DEF Unweighed
<1>4. ASSUME NEW c \in Calls, NotHeavier(c) PROVE Obligations(S)' <= L
  BY <1>2, <1>4 DEF NotHeavier
<1>5. ASSUME NEW c \in Calls, Overruns(c) PROVE Obligations(S)' <= L
  BY <1>2, <1>5 DEF Overruns
<1>6. ASSUME NEW c \in Calls, Admitted(c) PROVE Obligations(S)' <= L
  <2>1. CASE c \in S
    <3>1. PICK r \in Nat : /\ Obligations(S) = Obligation(c) + r
                           /\ Obligations(S)' = Obligation(c)' + r
      BY <1>6, <2>1, OneCallChanges DEF Admitted
    <3> QED BY <1>0, <1>6, <2>1, <3>1 DEF Admitted
  <2>2. CASE c \notin S
    BY <1>2, <1>6, <2>2 DEF Admitted
  <2> QED BY <2>1, <2>2
<1> QED BY <1>3, <1>4, <1>5, <1>6 DEF BudgetStep

LEMMA StepKept ==
    ASSUME TypeOK, TypeOK', WithinBudget, BudgetStep
    PROVE  WithinBudget' \/ BreakerOpen'
<1> SUFFICES ASSUME ~BreakerOpen' PROVE WithinBudget'
  OBVIOUS
<1>1. \A c \in Calls : ~Overruns(c)
  BY DEF Overruns
<1>2. Obligations(Calls)' <= TotalCeiling
  BY <1>1, StepFits, CallsAssumption DEF WithinBudget, Admitted
<1>3. Obligations(Batches)' <= ValidationCeiling
  BY <1>1, StepFits, CallsAssumption DEF WithinBudget, Admitted, Calls
<1> QED BY <1>2, <1>3, CallsAssumption DEF WithinBudget, Calls

LEMMA InitKept == Init => BudgetKept
<1> SUFFICES ASSUME Init PROVE WithinBudget
  BY KeptIs
<1>1. TypeOK
  BY InitType
<1>2. \A c \in Calls : Obligation(c) = 0
  BY DEF Init, NoCall, Obligation, Terminal
<1>3. ASSUME NEW S \in {Calls, Batches} PROVE Obligations(S) = 0
  <2>1. IsFiniteSet(S) /\ S \in SUBSET Calls
    BY FiniteCalls DEF Calls
  <2> DEFINE g == [s \in SUBSET S |-> 0]
  <2>2. g \in [SUBSET S -> Nat] /\ g[{}] = 0 /\ g[S] = 0
    OBVIOUS
  <2>3. \A s \in SUBSET S : \A x \in s : g[s] = Weight[x] + g[s \ {x}]
    BY <1>2, <2>1 DEF Weight
  <2>4. IsSum(g, Weight, S)
    BY <2>2, <2>3 DEF IsSum
  <2> HIDE DEF g
  <2> QED BY <2>1, <2>2, <2>4, FoldAddsUp
<1> QED BY <1>3, CallsAssumption DEF WithinBudget

(* The two stores count each other's reserves and charges: unless an answer   *)
(* cost more than its reserve, and a breaker is open for it, the obligations  *)
(* of all calls stay within the confirmed budget of the workflow and those of *)
(* the validation calls within theirs.                                        *)
THEOREM BudgetAlwaysKept == Spec => []BudgetKept
<1>1. BilledInv /\ TypeOK' /\ BudgetKept /\ [Next]_vars => BudgetKept'
  <2> SUFFICES ASSUME BilledInv, TypeOK', BudgetKept, [Next]_vars
               PROVE  WithinBudget' \/ BreakerOpen'
    BY KeptIs, PTL
  <2>0. TypeOK /\ BudgetStep
    BY StepBudget DEF BilledInv, DispatchInv
  <2>1. CASE WithinBudget
    BY <2>0, <2>1, StepKept
  <2>2. CASE BreakerOpen
    BY <2>0, <2>2, StepBreaker
  <2> QED BY <2>1, <2>2, KeptIs
<1>2. Spec => []BilledInv
  BY InitBilled, StepBilled, PTL DEF Spec
<1> QED BY <1>1, <1>2, InitKept, TypeCorrect, PTL DEF Spec

-----------------------------------------------------------------------------
(* What the provider bills, whatever the ledger holds. *)

Bill(c) == billed[c]

Bills(S) == MapThenSumSet(Bill, S)

LEMMA BillsAddUp ==
    ASSUME NEW S \in SUBSET Calls, IsFiniteSet(S),
           NEW g, IsSum(g, billed, S)
    PROVE  g[S] = Bills(S)
<1> DEFINE Body(k) == [s \in SUBSET S |->
                 IF s = {} THEN 0
                 ELSE Bill(CHOOSE x \in s : TRUE)
                        + k[s \ {CHOOSE x \in s : TRUE}]]
<1>1. \A s \in (SUBSET S) \ {{}} : (CHOOSE x \in s : TRUE) \in s
  OBVIOUS
<1>2. g = Body(g)
  <2>1. ASSUME NEW s \in SUBSET S PROVE g[s] = Body(g)[s]
    <3>1. CASE s = {}
      BY <3>1 DEF IsSum
    <3>2. CASE s # {}
      <4> DEFINE x == CHOOSE x \in s : TRUE
      <4>1. x \in s
        BY <1>1, <3>2
      <4>2. g[s] = billed[x] + g[s \ {x}]
        BY <4>1 DEF IsSum
      <4> QED BY <3>2, <4>1, <4>2 DEF Bill
    <3> QED BY <3>1, <3>2
  <2> QED BY <2>1 DEF IsSum
<1> DEFINE k == CHOOSE k : k = Body(k)
<1>3. k = Body(k)
  BY <1>2
<1>4. Bills(S) = k[S]
  BY DEF Bills, MapThenSumSet, MapThenFoldSet
<1> HIDE DEF k
<1>5. k[{}] = 0
  <2>1. {} \in SUBSET S
    OBVIOUS
  <2>2. k[{}] = g[{}]
    BY <1>3, <2>1 DEF IsSum
  <2> QED BY <2>2 DEF IsSum
<1>6. ASSUME NEW s \in (SUBSET S) \ {{}}
      PROVE  \E x \in s : k[s] = billed[x] + k[s \ {x}]
  <2> DEFINE x == CHOOSE x \in s : TRUE
  <2>1. x \in s
    BY <1>1
  <2>2. k[s] = Bill(x) + k[s \ {x}]
    BY <1>3
  <2> HIDE DEF x
  <2> QED BY <2>1, <2>2 DEF Bill
<1>7. Folds(k, billed, S)
  BY <1>5, <1>6 DEF Folds
<1>8. k[S] = g[S]
  BY <1>7, FoldIsSum
<1> QED BY <1>4, <1>8

UnsentUnbilled == \A c \in Calls : sent[c] = 0 => billed[c] = 0

(* A validation call is settled for nothing only when its attempt was never   *)
(* started, else for its bill or for the whole reserve.                       *)
Paid ==
    \A b \in Batches : call[b].status \in Terminal =>
        \/ call[b].charge = 0 /\ call[b].attempt = 0
        \/ call[b].charge = Reserve
        \/ call[b].charge = billed[b] /\ sent[b] = 1

PaidInv == BilledInv /\ UnsentUnbilled /\ Paid

LEMMA InitPaid == Init => PaidInv
BY InitBilled
DEF Init, PaidInv, UnsentUnbilled, Paid, NoCall, Terminal, Calls

LEMMA StepPaid == PaidInv /\ [Next]_vars => PaidInv'
<1> SUFFICES ASSUME PaidInv, [Next]_vars PROVE PaidInv'
  OBVIOUS
<1>1. /\ BilledInv /\ BilledInv' /\ DispatchInv /\ CallsStep /\ TypeOK
      /\ Batches \subseteq Calls
  BY StepBilled, StepCalls DEF PaidInv, BilledInv, DispatchInv, Calls
<1>2. ASSUME NEW c \in Calls, Sends(c)
      PROVE  c \in live /\ sent[c] = 0 /\ sent'[c] = 1
  <2>1. c \in live /\ sent[c] = 0 /\ sent \in [Calls -> Nat]
    BY <1>1, <1>2 DEF Sends, DispatchInv, TypeOK
  <2> QED BY <1>2, <2>1 DEF Sends
<1>3. UnsentUnbilled'
  <2> SUFFICES ASSUME NEW c \in Calls, sent'[c] = 0 PROVE billed'[c] = 0
    BY DEF UnsentUnbilled
  <2>1. CASE SameSend(c)
    BY <2>1 DEF SameSend, PaidInv, UnsentUnbilled
  <2>2. CASE Sends(c)
    BY <1>2, <2>2
  <2> QED
    BY <1>1, <2>1, <2>2
    DEF CallsStep, Touches, Same, Inserted, Started, Settles
<1>4. Paid'
  <2> SUFFICES ASSUME NEW b \in Batches, call'[b].status \in Terminal
               PROVE  \/ call'[b].charge = 0 /\ call'[b].attempt = 0
                      \/ call'[b].charge = Reserve
                      \/ call'[b].charge = billed'[b] /\ sent'[b] = 1
    BY DEF Paid
  <2>1. CASE SameRow(b) /\ SameSend(b)
    BY <2>1 DEF SameRow, SameSend, PaidInv, Paid
  <2>2. CASE Settles(b)
    <3>1. ASSUME NEW w \in Workers, Answer(w, b), worker[w].usage # NoUsage
          PROVE  worker[w].usage = billed[b] /\ sent[b] = 1
      BY <1>1, <3>1 DEF BilledInv, AnswersBilled, Answer
    <3>2. \/ call'[b].charge = 0 /\ call'[b].attempt = 0
          \/ call'[b].charge = Reserve
          \/ call'[b].charge = billed[b] /\ sent[b] = 1
      BY <2>2, <3>1 DEF Settles
    <3> QED BY <2>2, <3>2 DEF Settles, SameSend
  <2>3. CASE Sends(b)
    <3>1. call[b].status \in Terminal => call[b].charge = Reserve
      BY <1>1, <1>2, <2>3 DEF BilledInv, GrantsCharged
    <3> QED BY <2>3, <3>1 DEF Sends, SameRow
  <2>4. ~Inserted(b) /\ ~Started(b)
    BY DEF Inserted, Started, Terminal
  <2> QED
    BY <1>1, <2>1, <2>2, <2>3, <2>4 DEF CallsStep, Touches, Same
<1> QED BY <1>1, <1>3, <1>4 DEF PaidInv

-----------------------------------------------------------------------------
(* The budgets without the breakers. *)

Cheap(S) == \A c \in S : billed[c] <= Reserve

(* While no call was billed more than its reserve both budgets are kept,      *)
(* breakers or not; for the validation budget only validation bills count.    *)
OnlyOverrunsExceed ==
    /\ Cheap(Calls) => Obligations(Calls) <= TotalCeiling
    /\ Cheap(Batches) => Obligations(Batches) <= ValidationCeiling

LEMMA InitOnly == Init => OnlyOverrunsExceed
BY InitKept, KeptIs DEF OnlyOverrunsExceed, WithinBudget, BreakerOpen, Init

LEMMA StepOnly ==
    PaidInv /\ TypeOK' /\ OnlyOverrunsExceed /\ [Next]_vars => OnlyOverrunsExceed'
<1> SUFFICES ASSUME PaidInv, TypeOK', OnlyOverrunsExceed, [Next]_vars
             PROVE  OnlyOverrunsExceed'
  OBVIOUS
<1>1. /\ TypeOK /\ CallsStep /\ BudgetStep
      /\ Batches \in SUBSET Calls /\ Reserve \in Nat
      /\ Batches' = Batches /\ Calls' = Calls
      /\ ValidationCeiling \in Nat /\ TotalCeiling \in Nat
  BY StepCalls, StepBudget, CallsAssumption
  DEF PaidInv, BilledInv, DispatchInv, Calls
<1>2. ASSUME NEW S \in SUBSET Calls, \A c \in S : billed'[c] <= Reserve
      PROVE  Cheap(S)
  <2> SUFFICES ASSUME NEW c \in S PROVE billed[c] <= Reserve
    BY DEF Cheap
  <2>1. CASE SameSend(c)
    BY <1>2, <2>1 DEF SameSend
  <2>2. CASE Sends(c)
    BY <1>1, <2>2 DEF Sends, PaidInv, UnsentUnbilled, BilledInv, DispatchInv
  <2> QED
    BY <1>1, <2>1, <2>2
    DEF CallsStep, Touches, Same, Inserted, Started, Settles
<1>3. ASSUME NEW S \in SUBSET Calls, Cheap(S)
      PROVE  \A c \in S : ~Overruns(c)
  BY <1>1, <1>3 DEF Overruns, Cheap, PaidInv, BilledInv, DispatchInv, TypeOK
<1>4. ASSUME Cheap(Calls)' PROVE Obligations(Calls)' <= TotalCeiling
  <2>1. Cheap(Calls)
    BY <1>1, <1>2, <1>4 DEF Cheap
  <2> QED
    BY <1>1, <1>3, <2>1, StepFits DEF OnlyOverrunsExceed, Admitted
<1>5. ASSUME Cheap(Batches)' PROVE Obligations(Batches)' <= ValidationCeiling
  <2>1. Cheap(Batches)
    BY <1>1, <1>2, <1>5 DEF Cheap
  <2> QED
    BY <1>1, <1>3, <2>1, StepFits DEF OnlyOverrunsExceed, Admitted
<1> QED BY <1>1, <1>4, <1>5 DEF OnlyOverrunsExceed

LEMMA AlwaysPaid == Spec => [](PaidInv /\ OnlyOverrunsExceed)
BY InitPaid, StepPaid, InitOnly, StepOnly, TypeCorrect, PTL DEF Spec

(* Claims, recoveries, cancellations, late answers and lapsed leases never    *)
(* take the ledger over a confirmed budget: only an answer dearer than the    *)
(* reserve it was admitted with can, and one of extraction only the total.    *)
THEOREM OverrunsAloneExceed == Spec => []OnlyOverrunsExceed
BY AlwaysPaid, PTL

(* A bill is covered by what the ledger holds for its call. *)
LEMMA BillsCovered ==
    ASSUME PaidInv, Cheap(Batches)
    PROVE  /\ Bills(Batches) <= Obligations(Batches)
           /\ Bills(Batches) \in Nat /\ Obligations(Batches) \in Nat
<1>1. /\ TypeOK /\ billed \in [Calls -> Nat]
      /\ Batches \in SUBSET Calls /\ IsFiniteSet(Batches)
  BY FiniteCalls DEF PaidInv, BilledInv, DispatchInv, TypeOK, Calls
<1>2. ASSUME NEW b \in Batches PROVE billed[b] <= Obligation(b)
  <2>1. /\ billed[b] \in Nat /\ billed[b] <= Reserve /\ Reserve \in Nat
        /\ sent[b] = 0 => billed[b] = 0
        /\ sent[b] \in {0, 1} /\ (sent[b] = 1 => call[b].attempt = 1)
    <3>1. b \in Calls /\ SingleDispatch /\ sent[b] \in Nat
      BY <1>1 DEF PaidInv, BilledInv, DispatchInv, TypeOK
    <3>2. sent[b] \in {0, 1} /\ (sent[b] = 1 => call[b].attempt = 1)
      BY <3>1 DEF SingleDispatch
    <3> QED BY <1>1, <3>1, <3>2, CallsAssumption DEF Cheap, PaidInv, UnsentUnbilled
  <2>2. call[b].attempt = 1 => call[b].status # "none"
    BY <1>1 DEF PaidInv, BilledInv, DispatchInv
  <2>3. call[b].status \in Terminal \cup {"none", "claimed"}
    BY <1>1 DEF TypeOK
  <2>4. CASE sent[b] = 0
    BY <1>1, <2>1, <2>4, ObligationType
  <2>5. CASE sent[b] = 1 /\ call[b].status \in Terminal
    BY <2>1, <2>5 DEF PaidInv, Paid, Obligation
  <2>6. CASE sent[b] = 1 /\ call[b].status = "claimed"
    BY <1>1, <2>1, <2>6, ClaimedWeighsReserve
  <2> QED BY <2>1, <2>2, <2>3, <2>4, <2>5, <2>6
<1>3. PICK h : IsSum(h, Weight, Batches) /\ h[Batches] = Obligations(Batches)
  BY <1>1, ObligationsAddUp DEF AddsUp
<1>4. PICK g : IsSum(g, billed, Batches)
  BY <1>1, SumExists
<1>5. g[Batches] = Bills(Batches)
  BY <1>1, <1>4, BillsAddUp
<1>6. \A b \in Batches : /\ billed[b] \in Nat /\ Weight[b] \in Nat
                         /\ billed[b] <= Weight[b]
  BY <1>1, <1>2, ObligationType DEF Weight
<1>7. g[Batches] <= h[Batches]
  BY <1>1, <1>3, <1>4, <1>6, SumsOrdered
<1>8. g[Batches] \in Nat /\ h[Batches] \in Nat
  BY <1>3, <1>4 DEF IsSum
<1> QED BY <1>3, <1>5, <1>7, <1>8

(* The provider's bills for validation stay within the confirmed budget of    *)
(* validation as long as no answer costs more than its reserve: crashes, lost *)
(* answers, lapsed leases and cancellations leave no request unaccounted for. *)
BillsWithinBudget == Cheap(Batches) => Bills(Batches) <= ValidationCeiling

(* Whatever the ledger shows, what the provider really bills for validation   *)
(* calls is within what was confirmed for them.                               *)
THEOREM ValidationBillsFit == Spec => []BillsWithinBudget
<1>1. PaidInv /\ OnlyOverrunsExceed => BillsWithinBudget
  <2> SUFFICES ASSUME PaidInv, OnlyOverrunsExceed, Cheap(Batches)
               PROVE  Bills(Batches) <= ValidationCeiling
    BY DEF BillsWithinBudget
  <2>1. /\ Bills(Batches) <= Obligations(Batches)
        /\ Bills(Batches) \in Nat /\ Obligations(Batches) \in Nat
    BY BillsCovered
  <2> QED BY <2>1, CallsAssumption DEF OnlyOverrunsExceed
<1> QED BY <1>1, AlwaysPaid, PTL

=============================================================================
