--------------------------- MODULE JobQueueProofs ----------------------------
(***************************************************************************)
(* Proofs about JobQueue, for every set of tasks and workers and every     *)
(* bound: type correctness, fencing by the attempts column and, when no    *)
(* run outlives its lease or there is one worker, exclusive execution, the *)
(* attempts budget and the implementation of JobLedger.                    *)
(***************************************************************************)
EXTENDS JobQueue, TLAPS

\* No run is live in an idle worker, and every row keeps its type: what a
\* step of any kind does to the types of the variables.
LEMMA TypeInit == QueueInit => TypeOK
  BY QueueAssumption DEF QueueInit, TypeOK, States, Present, InFlight, Final,
                         JobTypes, Leases, Points

LEMMA TakeType ==
    ASSUME TypeOK, NEW w \in Workers, NEW B, Take(w, B), UNCHANGED <<jobType, older, up, faults>>
    PROVE  TypeOK'
  <1> USE DEF TypeOK, States, Present, InFlight, Points, Leases
  <1>1. state' \in [Tasks -> States]
    BY DEF FirstState, Take
  <1>2. attempts' \in [Tasks -> Nat] /\ lease' \in [Tasks -> Leases]
    BY DEF Take, NextAttempt
  <1>3. pc' \in [Workers -> [Tasks -> Points]]
    BY DEF Take
  <1>4. snap' \in [Workers -> [Tasks -> Nat]]
    BY DEF Take, NextAttempt
  <1> QED
    BY <1>1, <1>2, <1>3, <1>4

LEMMA TypeStep == TypeOK /\ [QueueNext]_queueVars => TypeOK'
  <1> SUFFICES ASSUME TypeOK, [QueueNext]_queueVars PROVE TypeOK'
    OBVIOUS
  <1> USE DEF TypeOK, States, Present, InFlight, Final, JobTypes, Leases, Points
  <1>1. ASSUME NEW t \in Tasks, NEW type \in JobTypes, Enqueue(t, type)
        PROVE  TypeOK'
    BY <1>1 DEF Enqueue, Insert
  <1>2. ASSUME NEW t \in Tasks, RecordSkipped(t) PROVE TypeOK'
    BY <1>2 DEF RecordSkipped, Insert
  <1>3. ASSUME NEW S \in SUBSET Tasks, RemoveJobs(S) PROVE TypeOK'
    BY <1>3 DEF RemoveJobs
  <1>4. ASSUME NEW w \in Workers, Claim(w) PROVE TypeOK'
    BY <1>4, TakeType DEF Claim
  <1>5. ASSUME NEW w \in Workers, Crash(w) PROVE TypeOK'
    BY <1>5 DEF Crash, Fault, rowVars
  <1>6. ASSUME NEW w \in Workers, Restart(w) PROVE TypeOK'
    BY <1>6 DEF Restart, rowVars, runVars
  <1>7. ASSUME NEW w \in Workers, NEW t \in Tasks, SetState(w, t) PROVE TypeOK'
    <2>1. NextPoint(t, pc[w][t]) \in InFlight
      BY <1>7 DEF SetState, NextPoint, FirstState
    <2> QED
      BY <1>7, <2>1 DEF SetState, Written
  <1>8. ASSUME NEW w \in Workers, NEW t \in Tasks, MarkDone(w, t) PROVE TypeOK'
    BY <1>8 DEF MarkDone, Written, EndRun
  <1>9. ASSUME NEW w \in Workers, NEW t \in Tasks, MarkSkipped(w, t) PROVE TypeOK'
    BY <1>9 DEF MarkSkipped, EndRun
  <1>10. ASSUME NEW w \in Workers, NEW t \in Tasks, NEW r \in BOOLEAN, Fail(w, t, r)
         PROVE  TypeOK'
    BY <1>10 DEF Fail, Written, EndRun
  <1>11. ASSUME NEW w \in Workers, NEW t \in Tasks, LoseReport(w, t) PROVE TypeOK'
    BY <1>11 DEF LoseReport, EndRun, Fault, rowVars
  <1>12. ASSUME NEW t \in Tasks, Lapse(t) PROVE TypeOK'
    BY <1>12 DEF Lapse
  <1>13. ASSUME NEW t \in Tasks, Overrun(t) PROVE TypeOK'
    BY <1>13 DEF Overrun, Fault
  <1>14. CASE UNCHANGED queueVars
    BY <1>14 DEF queueVars
  <1> QED
    BY <1>1, <1>2, <1>3, <1>4, <1>5, <1>6, <1>7, <1>8, <1>9, <1>10, <1>11,
       <1>12, <1>13, <1>14 DEF QueueNext, RunStep

\* Every reachable state of the table and the workers is well typed: no
\* statement of tasks.py ever writes a value outside the columns' domains.
THEOREM TypeCorrect == QueueSpec => []TypeOK
  BY TypeInit, TypeStep, PTL DEF QueueSpec

-----------------------------------------------------------------------------
(* The attempts column as a fencing token. *)

LEMMA FenceInit == QueueInit => AttemptIsFencing
  BY DEF QueueInit, AttemptIsFencing

\* A claimed row's new attempts value is above that of every run of it.
LEMMA TakeFence ==
    ASSUME TypeOK, AttemptIsFencing, NEW w \in Workers, NEW B, Take(w, B)
    PROVE  AttemptIsFencing'
  <1> USE DEF TypeOK, AttemptIsFencing
  <1>1. ASSUME NEW t \in Tasks, NEW v \in Workers, pc'[v][t] # "idle"
        PROVE  /\ snap'[v][t] \in 1..attempts'[t]
               /\ \A u \in Workers \ {v} : pc'[u][t] # "idle" => snap'[u][t] # snap'[v][t]
    <2>1. \A u \in Workers \ {w} : pc'[u][t] = pc[u][t] /\ snap'[u][t] = snap[u][t]
      BY DEF Take
    <2>2. pc'[w][t] # "idle" => t \in B /\ snap'[w][t] = attempts[t] + 1
      BY DEF NextAttempt, Take
    <2>3. attempts'[t] = IF t \in B THEN NextAttempt(t) ELSE attempts[t]
      BY DEF Take
    <2>4. attempts[t] \in Nat
      OBVIOUS
    <2>5. \A u \in Workers \ {w} : pc'[u][t] # "idle" => snap'[u][t] \in 1..attempts[t]
      BY <2>1
    <2>6. snap'[v][t] \in 1..attempts'[t]
      BY <1>1, <2>2, <2>3, <2>4, <2>5 DEF NextAttempt
    <2>7. ASSUME NEW u \in Workers \ {v}, pc'[u][t] # "idle"
          PROVE  snap'[u][t] # snap'[v][t]
      <3>1. CASE u # w /\ v # w
        BY <1>1, <2>1, <2>7, <3>1
      <3>2. CASE u = w \/ v = w
        BY <1>1, <2>2, <2>4, <2>5, <2>7, <3>2
      <3> QED
        BY <3>1, <3>2
    <2> QED
      BY <2>6, <2>7
  <1> QED
    BY <1>1

LEMMA FenceStep ==
    TypeOK /\ AttemptIsFencing /\ [QueueNext]_queueVars => AttemptIsFencing'
  <1> SUFFICES ASSUME TypeOK, AttemptIsFencing, [QueueNext]_queueVars
               PROVE  AttemptIsFencing'
    OBVIOUS
  <1> USE DEF TypeOK, AttemptIsFencing
  <1>1. ASSUME UNCHANGED <<attempts, pc, snap>> PROVE AttemptIsFencing'
    BY <1>1
  \* A run that ends leaves the others as they were.
  <1>2. ASSUME NEW w \in Workers, NEW t \in Tasks, EndRun(w, t), UNCHANGED attempts
        PROVE  AttemptIsFencing'
    BY <1>2 DEF EndRun
  <1>3. ASSUME NEW w \in Workers, Claim(w) PROVE AttemptIsFencing'
    BY <1>3, TakeFence DEF Claim
  <1>4. ASSUME NEW w \in Workers, Crash(w) PROVE AttemptIsFencing'
    BY <1>4 DEF Crash, rowVars
  <1>5. ASSUME NEW w \in Workers, NEW t \in Tasks, SetState(w, t) PROVE AttemptIsFencing'
    BY <1>5 DEF SetState
  <1> QED
    BY <1>1, <1>2, <1>3, <1>4, <1>5
    DEF QueueNext, RunStep, queueVars, rowVars, runVars, Enqueue, RecordSkipped,
        Insert, RemoveJobs, Restart, MarkDone, MarkSkipped, Fail, LoseReport,
        Lapse, Overrun

\* Under every schedule, crash and lease overrun, the attempts value frozen in
\* a ClaimedJob tells the run apart from every other run of the task.
THEOREM Fencing == QueueSpec => []AttemptIsFencing
  BY TypeInit, TypeStep, FenceInit, FenceStep, PTL DEF QueueSpec

-----------------------------------------------------------------------------
(* One worker per task. *)

\* Nothing that runs is claimed again: no run lasts longer than its lease, or
\* there is one worker, which claims only when all its runs have ended.
LeasesSuffice == LeaseCoversRun \/ \A v, w \in Workers : v = w

\* A live run of a row that still exists owns it: the row is in flight, its
\* attempts are those the run was claimed with, and its lease runs if it lasts
\* longer than the run.
RunsOwnTheirRows ==
    \A w \in Workers, t \in Tasks :
        pc[w][t] # "idle" /\ state[t] # "removed" =>
            /\ state[t] \in InFlight
            /\ snap[w][t] = attempts[t]
            /\ LeaseCoversRun => lease[t] = "held"

Exclusive == RunsOwnTheirRows /\ NoDoubleProcess

LEMMA ExclusiveInit == QueueInit => Exclusive
  BY DEF QueueInit, Exclusive, RunsOwnTheirRows, NoDoubleProcess

\* What a claim takes was pending or had a lapsed lease, so nobody runs it, or
\* nobody runs anything.
LEMMA ClaimTakesUnowned ==
    ASSUME LeasesSuffice, RunsOwnTheirRows, NEW w \in Workers, Claim(w)
    PROVE  \E B \in SUBSET Tasks :
              /\ \A t \in B : Claimable(t) /\ ~Running(t)
              /\ Take(w, B)
  <1>1. PICK locked \in SUBSET {t \in Tasks : Running(t)} :
          \E B \in OldestFirst({t \in Tasks \ locked : Claimable(t)}, WorkerBatch) :
              Take(w, B)
    BY DEF Claim
  <1>2. OldestFirst({t \in Tasks \ locked : Claimable(t)}, WorkerBatch)
          \subseteq SUBSET {t \in Tasks : Claimable(t)}
    BY DEF OldestFirst
  <1>3. \A t \in Tasks : Claimable(t) => ~Running(t)
    <2>1. CASE LeaseCoversRun
      BY <2>1 DEF RunsOwnTheirRows, Claimable, Running, InFlight
    <2>2. CASE \A v \in Workers : v = w
      BY <2>2 DEF Claim, BatchEnded, Running
    <2> QED
      BY <2>1, <2>2 DEF LeasesSuffice
  <1> QED
    BY <1>1, <1>2, <1>3

\* A claim of jobs that nobody runs keeps everyone apart.
LEMMA TakeExclusive ==
    ASSUME TypeOK, Exclusive, NEW w \in Workers, NEW B \in SUBSET Tasks, Take(w, B),
           \A t \in B : ~Running(t)
    PROVE  Exclusive'
  <1> USE DEF TypeOK, Exclusive, RunsOwnTheirRows, NoDoubleProcess
  <1>1. ASSUME NEW t \in Tasks, NEW v \in Workers, pc'[v][t] # "idle", t \in B
        PROVE  v = w
    BY <1>1 DEF Running, Take
  <1>2. RunsOwnTheirRows'
    BY <1>1 DEF FirstState, InFlight, Take
  <1>3. NoDoubleProcess'
    BY <1>1 DEF Take
  <1> QED
    BY <1>2, <1>3

LEMMA ExclusiveStep ==
    ASSUME LeasesSuffice, TypeOK, Exclusive, [QueueNext]_queueVars
    PROVE  Exclusive'
  <1> USE DEF TypeOK, Exclusive, RunsOwnTheirRows, NoDoubleProcess
  <1>1. ASSUME NEW t \in Tasks, NEW type \in JobTypes, NEW s \in {"pending", "skipped"},
               Insert(t, type, s)
        PROVE  Exclusive'
    BY <1>1 DEF Insert, InFlight
  <1>2. ASSUME NEW S \in SUBSET Tasks, RemoveJobs(S) PROVE Exclusive'
    BY <1>2 DEF RemoveJobs
  <1>3. ASSUME NEW w \in Workers, Claim(w) PROVE Exclusive'
    BY <1>3, ClaimTakesUnowned, TakeExclusive
  <1>4. ASSUME NEW w \in Workers, Crash(w) PROVE Exclusive'
    BY <1>4 DEF Crash, rowVars
  <1>5. ASSUME NEW w \in Workers, NEW t \in Tasks, SetState(w, t) PROVE Exclusive'
    <2>1. NextPoint(t, pc[w][t]) \in InFlight
      BY <1>5 DEF SetState, NextPoint, FirstState, InFlight
    <2> QED
      BY <1>5, <2>1 DEF SetState, Written, InFlight
  \* The run that ends was the only one, so nobody owns the row any more.
  <1>6. ASSUME NEW w \in Workers, NEW t \in Tasks, pc[w][t] # "idle", EndRun(w, t),
               \A u \in Tasks \ {t} : state'[u] = state[u] /\ lease'[u] = lease[u],
               UNCHANGED attempts
        PROVE  Exclusive'
    <2>1. \A v \in Workers : pc'[v][t] = "idle"
      BY <1>6 DEF EndRun
    <2>2. \A v \in Workers, u \in Tasks \ {t} : pc'[v][u] = pc[v][u] /\ snap'[v][u] = snap[v][u]
      BY <1>6 DEF EndRun
    <2>3. NoDoubleProcess'
      BY <2>1, <2>2
    <2>4. ASSUME NEW v \in Workers, NEW u \in Tasks, pc'[v][u] # "idle", state'[u] # "removed"
          PROVE  /\ state'[u] \in InFlight /\ snap'[v][u] = attempts'[u]
                 /\ LeaseCoversRun => lease'[u] = "held"
      <3>1. u # t
        BY <2>1, <2>4
      <3> QED
        BY <1>6, <2>2, <2>4, <3>1
    <2> QED
      BY <2>3, <2>4
  <1>7. ASSUME NEW w \in Workers, NEW t \in Tasks, MarkDone(w, t) PROVE Exclusive'
    BY <1>6, <1>7 DEF MarkDone, Written
  <1>8. ASSUME NEW w \in Workers, NEW t \in Tasks, NEW r \in BOOLEAN, Fail(w, t, r)
        PROVE  Exclusive'
    BY <1>6, <1>8 DEF Fail, Written
  <1>9. ASSUME NEW w \in Workers, NEW t \in Tasks, MarkSkipped(w, t) PROVE Exclusive'
    BY <1>6, <1>9 DEF MarkSkipped
  <1>10. ASSUME NEW w \in Workers, NEW t \in Tasks, LoseReport(w, t) PROVE Exclusive'
    BY <1>6, <1>10 DEF LoseReport, rowVars
  \* Only a lease whose claimant is gone lapses.
  <1>11. ASSUME NEW t \in Tasks, Lapse(t) PROVE Exclusive'
    BY <1>11 DEF Lapse, HasHolder, Holds
  <1>12. ASSUME NEW t \in Tasks, Overrun(t) PROVE Exclusive'
    BY <1>12 DEF Overrun
  <1>13. ASSUME NEW w \in Workers, Restart(w) PROVE Exclusive'
    BY <1>13 DEF Restart, rowVars, runVars
  <1>14. CASE UNCHANGED queueVars
    BY <1>14 DEF queueVars
  <1> QED
    BY <1>1, <1>2, <1>3, <1>4, <1>5, <1>7, <1>8, <1>9, <1>10, <1>11, <1>12, <1>13, <1>14
    DEF QueueNext, RunStep, Enqueue, RecordSkipped, JobTypes

\* "multiple workers never double-process a job" (store/tasks.py:3), for any
\* number of workers when no run lasts longer than its lease, and for one
\* worker however long its runs last.
THEOREM ExclusiveExecution ==
    ASSUME LeasesSuffice
    PROVE  QueueSpec => []NoDoubleProcess
  <1>1. QueueInit => TypeOK /\ Exclusive
    BY TypeInit, ExclusiveInit
  <1>2. TypeOK /\ Exclusive /\ [QueueNext]_queueVars => (TypeOK /\ Exclusive)'
    BY TypeStep, ExclusiveStep
  <1>3. Exclusive => NoDoubleProcess
    BY DEF Exclusive
  <1> QED
    BY <1>1, <1>2, <1>3, PTL DEF QueueSpec

-----------------------------------------------------------------------------
(* The attempts budget. *)

\* A row nobody runs but that is still in flight was lost to a fault, and
\* that fault pays for the attempt its reclaim will add.
BudgetInv ==
    \A t \in Tasks :
        /\ state[t] = "absent" => attempts[t] = 0
        /\ state[t] = "pending" => attempts[t] < MaxAttempts
        /\ state[t] \in InFlight => lease[t] # "null"
        /\ attempts[t] <= MaxAttempts + faults
        /\ state[t] \in InFlight /\ ~Running(t) => attempts[t] < MaxAttempts + faults

LEMMA BudgetInit == QueueInit => BudgetInv
  BY QueueAssumption DEF QueueInit, BudgetInv, InFlight

LEMMA BudgetStep ==
    ASSUME LeasesSuffice, TypeOK, Exclusive, BudgetInv, [QueueNext]_queueVars
    PROVE  BudgetInv'
  <1> USE QueueAssumption DEF TypeOK, BudgetInv
  <1>1. ASSUME NEW t \in Tasks, NEW type \in JobTypes, NEW s \in {"pending", "skipped"},
               Insert(t, type, s)
        PROVE  BudgetInv'
    BY <1>1 DEF Insert, InFlight, Running
  <1>2. ASSUME NEW S \in SUBSET Tasks, RemoveJobs(S) PROVE BudgetInv'
    BY <1>2 DEF RemoveJobs, InFlight, Running
  <1>3. ASSUME NEW w \in Workers, Claim(w) PROVE BudgetInv'
    <2>1. PICK B \in SUBSET Tasks :
              /\ \A t \in B : Claimable(t) /\ ~Running(t)
              /\ Take(w, B)
      BY <1>3, ClaimTakesUnowned DEF Exclusive
    <2>2. faults' = faults /\ \A t \in Tasks : pc[w][t] = "idle"
      BY <1>3 DEF Claim, BatchEnded
    <2>3. \A t \in B : attempts[t] < MaxAttempts + faults
      BY <2>1 DEF Claimable
    <2>4. \A t \in B : pc'[w][t] = "claimed" /\ attempts'[t] = attempts[t] + 1
                       /\ state'[t] \in InFlight /\ lease'[t] = "held"
      BY <2>1 DEF FirstState, InFlight, NextAttempt, Take
    <2>5. \A t \in Tasks \ B : /\ \A v \in Workers : pc'[v][t] = pc[v][t]
                               /\ attempts'[t] = attempts[t]
                               /\ state'[t] = state[t]
                               /\ lease'[t] = lease[t]
      BY <2>1, <2>2 DEF Take
    <2>6. ASSUME NEW t \in Tasks, t \in B
          PROVE  /\ state'[t] \in InFlight
                 /\ lease'[t] # "null"
                 /\ attempts'[t] <= MaxAttempts + faults'
                 /\ Running(t)'
      BY <2>2, <2>3, <2>4, <2>6 DEF Running
    <2>7. ASSUME NEW t \in Tasks, t \notin B
          PROVE  Running(t)' <=> Running(t)
      BY <2>5, <2>7 DEF Running
    <2> QED
      BY <2>2, <2>5, <2>6, <2>7 DEF InFlight
  \* A fault happens wherever a run is lost.
  <1>4. ASSUME faults' = faults + 1, UNCHANGED <<state, attempts>>,
               \A t \in Tasks : lease'[t] # "null" <=> lease[t] # "null"
        PROVE  BudgetInv'
    BY <1>4
  <1>5. ASSUME NEW w \in Workers, NEW t \in Tasks, SetState(w, t) PROVE BudgetInv'
    <2>1. NextPoint(t, pc[w][t]) \in InFlight
      BY <1>5 DEF SetState, NextPoint, FirstState, InFlight
    <2>2. \A u \in Tasks : Running(u)' <=> Running(u)
      BY <1>5, <2>1 DEF SetState, Running, InFlight
    <2>3. state[t] # "removed" => state[t] \in InFlight
      BY <1>5 DEF SetState, Exclusive, RunsOwnTheirRows
    <2>4. Running(t)
      BY <1>5 DEF SetState, Running
    <2> QED
      BY <1>5, <2>1, <2>2, <2>3, <2>4 DEF SetState, Written, InFlight
  \* A run that reports leaves its row in no state that needs a lease.
  <1>6. ASSUME NEW w \in Workers, NEW t \in Tasks, EndRun(w, t),
               UNCHANGED <<attempts, faults>>,
               \A u \in Tasks \ {t} : state'[u] = state[u] /\ lease'[u] = lease[u],
               state'[t] \notin InFlight \cup {"absent"},
               state'[t] = "pending" => attempts[t] < MaxAttempts
        PROVE  BudgetInv'
    <2>1. \A u \in Tasks \ {t} : Running(u)' <=> Running(u)
      BY <1>6 DEF EndRun, Running
    <2> QED
      BY <1>6, <2>1 DEF InFlight
  <1>7. ASSUME NEW w \in Workers, NEW t \in Tasks, MarkDone(w, t) PROVE BudgetInv'
    BY <1>6, <1>7 DEF MarkDone, Written, InFlight
  <1>8. ASSUME NEW w \in Workers, NEW t \in Tasks, NEW r \in BOOLEAN, Fail(w, t, r)
        PROVE  BudgetInv'
    <2>1. state[t] # "removed" => snap[w][t] = attempts[t]
      BY <1>8 DEF Fail, Exclusive, RunsOwnTheirRows
    <2> QED
      BY <1>6, <1>8, <2>1 DEF Fail, Written, WillRetry, InFlight
  <1>9. ASSUME NEW w \in Workers, NEW t \in Tasks, MarkSkipped(w, t) PROVE BudgetInv'
    BY <1>6, <1>9 DEF MarkSkipped, InFlight
  <1>10. ASSUME NEW t \in Tasks, Lapse(t) PROVE BudgetInv'
    BY <1>10 DEF Lapse, Running
  <1>11. ASSUME NEW w \in Workers, NEW t \in Tasks, LoseReport(w, t) PROVE BudgetInv'
    BY <1>4, <1>11 DEF LoseReport, Fault, rowVars
  <1>12. ASSUME NEW w \in Workers, Crash(w) PROVE BudgetInv'
    BY <1>4, <1>12 DEF Crash, Fault, rowVars
  <1>13. ASSUME NEW t \in Tasks, Overrun(t) PROVE BudgetInv'
    BY <1>4, <1>13 DEF Overrun, Fault
  <1>14. ASSUME UNCHANGED <<state, attempts, lease, pc, faults>> PROVE BudgetInv'
    BY <1>14 DEF Running
  <1>15. ASSUME NEW w \in Workers, Restart(w) PROVE BudgetInv'
    BY <1>14, <1>15 DEF Restart, rowVars, runVars
  <1>16. CASE UNCHANGED queueVars
    BY <1>14, <1>16 DEF queueVars
  <1> QED
    BY <1>1, <1>2, <1>3, <1>5, <1>7, <1>8, <1>9, <1>10, <1>11, <1>12, <1>13, <1>15, <1>16
    DEF QueueNext, RunStep, Enqueue, RecordSkipped, JobTypes

\* When runs end within their lease or there is one worker: a waiting job has an attempt left,
\* attempts beyond max_attempts are each paid for by a fault, and a row in
\* flight always has a lease from which claim can recover it.
THEOREM AttemptsBudget ==
    ASSUME LeasesSuffice
    PROVE  QueueSpec => [](PendingHasBudget /\ AttemptsPaidFor /\ InFlightHasLease)
  <1> DEFINE Inv == TypeOK /\ Exclusive /\ BudgetInv
  <1>1. QueueInit => Inv
    BY TypeInit, ExclusiveInit, BudgetInit
  <1>2. Inv /\ [QueueNext]_queueVars => Inv'
    BY TypeStep, ExclusiveStep, BudgetStep
  <1>3. Inv => PendingHasBudget /\ AttemptsPaidFor /\ InFlightHasLease
    BY DEF BudgetInv, PendingHasBudget, AttemptsPaidFor, InFlightHasLease
  <1> QED
    BY <1>1, <1>2, <1>3, PTL DEF QueueSpec

\* A job is started more often than max_attempts only when its worker has died
\* or its failure report was lost, once for each time.
THEOREM CrashesPayForAttempts ==
    ASSUME LeasesSuffice
    PROVE  QueueSpec => []AttemptsPaidFor
  BY AttemptsBudget, PTL

\* claim can always take back what a dead worker has left in flight.
THEOREM LeaseBehindFlight ==
    ASSUME LeasesSuffice
    PROVE  QueueSpec => []InFlightHasLease
  BY AttemptsBudget, PTL

-----------------------------------------------------------------------------
(* JobQueue implements JobLedger. *)

LEMMA LedgerInitialised == QueueInit => Ledger!LedgerInit
  BY DEF QueueInit, Ledger!LedgerInit, LedgerStatus, Running, InFlight

\* A step that moves neither the mapped status, the attempts nor the set of
\* running tasks is a stuttering step of the ledger.
LEMMA LedgerStutter ==
    ASSUME \A t \in Tasks : LedgerStatus(state'[t]) = LedgerStatus(state[t]),
           \A t \in Tasks : Running(t)' <=> Running(t),
           UNCHANGED attempts
    PROVE  UNCHANGED Ledger!ledgerVars
  BY DEF Ledger!ledgerVars, LedgerStatus

\* When the only run of a task ends, the task leaves the executing set.
LEMMA RunEnds ==
    ASSUME TypeOK, NoDoubleProcess, NEW w \in Workers, NEW t \in Tasks,
           pc[w][t] # "idle", EndRun(w, t)
    PROVE  /\ Running(t) /\ ~Running(t)'
           /\ \A u \in Tasks \ {t} : Running(u)' <=> Running(u)
           /\ {u \in Tasks : Running(u)}' = {u \in Tasks : Running(u)} \ {t}
  <1>1. Running(t) /\ ~Running(t)'
    BY DEF TypeOK, NoDoubleProcess, EndRun, Running
  <1>2. \A u \in Tasks \ {t} : Running(u)' <=> Running(u)
    BY DEF TypeOK, EndRun, Running
  <1> QED
    BY <1>1, <1>2

\* An idle worker that takes jobs nobody runs starts them.
LEMMA TakeStarts ==
    ASSUME TypeOK, NEW w \in Workers, NEW B \in SUBSET Tasks, Take(w, B),
           \A t \in Tasks : pc[w][t] = "idle",
           \A t \in B : state[t] \in {"pending"} \cup InFlight /\ ~Running(t)
    PROVE  Ledger!Start(B)
  <1> DEFINE status == [t \in Tasks |-> LedgerStatus(state[t])]
             executing == {t \in Tasks : Running(t)}
  <1> USE DEF TypeOK
  <1>1. \A t \in Tasks : Running(t)' <=> t \in B \/ Running(t)
    BY DEF Running, Take
  <1>2. executing' = executing \cup B
    BY <1>1
  <1>3. \A t \in B : status[t] \in {"queued", "running"}
    BY DEF LedgerStatus, InFlight
  <1>4. status' = [t \in Tasks |-> IF t \in B THEN "running" ELSE status[t]]
    BY DEF LedgerStatus, FirstState, InFlight, Take
  <1> QED
    BY <1>2, <1>3, <1>4 DEF Ledger!Start, NextAttempt, Take

\* Every step of the queue is one of the ledger.
LEMMA LedgerStep ==
    ASSUME LeasesSuffice, TypeOK, Exclusive, [QueueNext]_queueVars
    PROVE  [Ledger!LedgerNext]_(Ledger!ledgerVars)
  <1> DEFINE status == [t \in Tasks |-> LedgerStatus(state[t])]
             executing == {t \in Tasks : Running(t)}
  <1> USE DEF TypeOK
  <1>1. ASSUME NEW t \in Tasks, NEW type \in JobTypes, NEW s \in {"pending", "skipped"},
               Insert(t, type, s)
        PROVE  Ledger!LedgerNext
    <2>1. Ledger!Submit(t, LedgerStatus(s))
      BY <1>1 DEF Insert, Ledger!Submit, LedgerStatus, InFlight, Running
    <2>2. LedgerStatus(s) \in {"queued", "skipped"}
      BY DEF LedgerStatus, InFlight
    <2> QED
      BY <2>1, <2>2 DEF Ledger!LedgerNext
  <1>2. ASSUME NEW S \in SUBSET Tasks, RemoveJobs(S) PROVE Ledger!LedgerNext
    <2>1. Ledger!Withdraw(S)
      BY <1>2 DEF RemoveJobs, Ledger!Withdraw, LedgerStatus, Present, Final, InFlight, Running
    <2> QED
      BY <2>1 DEF Ledger!LedgerNext
  <1>3. ASSUME NEW w \in Workers, Claim(w) PROVE Ledger!LedgerNext
    <2>1. PICK B \in SUBSET Tasks :
              /\ \A t \in B : Claimable(t) /\ ~Running(t)
              /\ Take(w, B)
      BY <1>3, ClaimTakesUnowned DEF Exclusive
    <2>2. \A t \in Tasks : pc[w][t] = "idle"
      BY <1>3 DEF Claim, BatchEnded
    <2>3. Ledger!Start(B)
      BY <2>1, <2>2, TakeStarts DEF Claimable
    <2> QED
      BY <2>3 DEF Ledger!LedgerNext
  \* A run that ends without touching a row only leaves the executing set.
  <1>4. ASSUME NEW w \in Workers, NEW t \in Tasks, pc[w][t] # "idle", EndRun(w, t),
               UNCHANGED <<state, attempts>>
        PROVE  Ledger!LedgerNext
    <2>1. executing' = executing \ {t}
      BY <1>4, RunEnds DEF Exclusive
    <2>2. Ledger!Lose({t})
      BY <1>4, <2>1 DEF Ledger!Lose, LedgerStatus
    <2> QED
      BY <2>2 DEF Ledger!LedgerNext
  \* A run that reports on a row that still exists reports on a running task.
  <1>5. ASSUME NEW w \in Workers, NEW t \in Tasks, pc[w][t] # "idle", EndRun(w, t),
               NEW s \in Final, state[t] # "removed",
               state' = [state EXCEPT ![t] = s], UNCHANGED attempts
        PROVE  Ledger!LedgerNext
    <2>1. executing' = executing \ {t} /\ t \in executing
      BY <1>5, RunEnds DEF Exclusive
    <2>2. status[t] = "running"
      BY <1>5 DEF Exclusive, RunsOwnTheirRows, LedgerStatus, InFlight
    <2>3. status' = [status EXCEPT ![t] = s]
      BY <1>5 DEF LedgerStatus, Final, InFlight
    <2>4. Ledger!Finish(t, s)
      BY <1>5, <2>1, <2>2, <2>3 DEF Ledger!Finish
    <2>5. s \in Ledger!Outcomes
      BY DEF Final, Ledger!Outcomes
    <2> QED
      BY <2>4, <2>5 DEF Ledger!LedgerNext
  <1>6. ASSUME NEW w \in Workers, NEW t \in Tasks, SetState(w, t)
        PROVE  UNCHANGED Ledger!ledgerVars
    <2>1. NextPoint(t, pc[w][t]) \in InFlight
      BY <1>6 DEF SetState, NextPoint, FirstState, InFlight
    <2>2. \A u \in Tasks : Running(u)' <=> Running(u)
      BY <1>6, <2>1 DEF SetState, Running, InFlight
    <2>3. state[t] # "removed" => state[t] \in InFlight
      BY <1>6 DEF SetState, Exclusive, RunsOwnTheirRows
    <2>4. \A u \in Tasks : LedgerStatus(state'[u]) = LedgerStatus(state[u])
      BY <1>6, <2>1, <2>3 DEF SetState, Written, LedgerStatus, InFlight
    <2> QED
      BY <1>6, <2>2, <2>4, LedgerStutter DEF SetState
  <1>7. ASSUME NEW w \in Workers, NEW t \in Tasks, MarkDone(w, t) PROVE Ledger!LedgerNext
    BY <1>4, <1>5, <1>7 DEF MarkDone, Written, Final
  <1>8. ASSUME NEW w \in Workers, NEW t \in Tasks, MarkSkipped(w, t) PROVE Ledger!LedgerNext
    BY <1>4, <1>8 DEF MarkSkipped
  <1>9. ASSUME NEW w \in Workers, NEW t \in Tasks, NEW r \in BOOLEAN, Fail(w, t, r)
        PROVE  Ledger!LedgerNext
    <2>1. CASE state[t] = "removed"
      BY <1>4, <1>9, <2>1 DEF Fail, Written
    <2>2. CASE state[t] # "removed" /\ ~WillRetry(w, t, r)
      BY <1>5, <1>9, <2>2 DEF Fail, Written, Final
    <2>3. CASE state[t] # "removed" /\ WillRetry(w, t, r)
      <3>1. executing' = executing \ {t} /\ t \in executing
        BY <1>9, RunEnds DEF Fail, Exclusive
      <3>2. status[t] = "running" /\ attempts[t] < MaxAttempts
        BY <1>9, <2>3 DEF Fail, WillRetry, Exclusive, RunsOwnTheirRows, LedgerStatus, InFlight
      <3>3. status' = [status EXCEPT ![t] = "queued"]
        BY <1>9, <2>3 DEF Fail, Written, LedgerStatus, InFlight
      <3>4. Ledger!GiveBack(t)
        BY <1>9, <3>1, <3>2, <3>3 DEF Fail, Ledger!GiveBack
      <3> QED
        BY <3>4 DEF Ledger!LedgerNext
    <2> QED
      BY <2>1, <2>2, <2>3
  <1>10. ASSUME NEW w \in Workers, NEW t \in Tasks, LoseReport(w, t) PROVE Ledger!LedgerNext
    BY <1>4, <1>10 DEF LoseReport, rowVars
  <1>11. ASSUME NEW w \in Workers, Crash(w) PROVE Ledger!LedgerNext
    <2>1. \A t \in Tasks : Running(t)' <=> Running(t) /\ pc[w][t] = "idle"
      BY <1>11 DEF Crash, Running, Exclusive, NoDoubleProcess
    <2>2. executing' = executing \ {t \in Tasks : pc[w][t] # "idle"}
      BY <2>1
    <2>3. Ledger!Lose({t \in Tasks : pc[w][t] # "idle"})
      BY <1>11, <2>2 DEF Crash, rowVars, Ledger!Lose, LedgerStatus
    <2> QED
      BY <2>3 DEF Ledger!LedgerNext
  <1>12. ASSUME UNCHANGED <<state, attempts, pc>> PROVE UNCHANGED Ledger!ledgerVars
    BY <1>12, LedgerStutter DEF Running
  <1>13. ASSUME NEW w \in Workers, Restart(w) PROVE UNCHANGED Ledger!ledgerVars
    BY <1>12, <1>13 DEF Restart, rowVars, runVars
  <1>14. ASSUME NEW t \in Tasks, Lapse(t) \/ Overrun(t) PROVE UNCHANGED Ledger!ledgerVars
    BY <1>12, <1>14 DEF Lapse, Overrun
  <1>15. CASE UNCHANGED queueVars
    BY <1>12, <1>15 DEF queueVars
  <1> HIDE DEF status, executing
  <1> QED
    BY <1>1, <1>2, <1>3, <1>6, <1>7, <1>8, <1>9, <1>10, <1>11, <1>13, <1>14, <1>15
    DEF QueueNext, RunStep, Enqueue, RecordSkipped, JobTypes

\* The table and its workers implement the ledger: when no run outlives its
\* lease, or there is one worker, every behaviour of the queue is one the ledger allows, for any
\* number of tasks, workers, crashes and lost reports.
THEOREM QueueImplementsLedger ==
    ASSUME LeasesSuffice
    PROVE  QueueSpec => ImplementsLedger
  <1>1. QueueInit => TypeOK /\ Exclusive /\ Ledger!LedgerInit
    BY TypeInit, ExclusiveInit, LedgerInitialised
  <1>2. TypeOK /\ Exclusive /\ [QueueNext]_queueVars => (TypeOK /\ Exclusive)'
    BY TypeStep, ExclusiveStep
  <1>3. TypeOK /\ Exclusive /\ [QueueNext]_queueVars => [Ledger!LedgerNext]_(Ledger!ledgerVars)
    BY LedgerStep
  <1> QED
    BY <1>1, <1>2, <1>3, PTL DEF QueueSpec, ImplementsLedger, Ledger!LedgerSpec

=============================================================================
