------------------------------ MODULE JobQueue -------------------------------
(***************************************************************************)
(* The ingest_job table as a queue (store/tasks.py), the local worker loop *)
(* that drains it (ingest/worker.py) and the retry-or-fail decision made   *)
(* when a run raises (ingest/runner.py).                                   *)
(*                                                                         *)
(* A column of ingest_job is a function of the task.  A run is one call of *)
(* process_job: pc says how far its body is, snap is the attempts value    *)
(* frozen in its ClaimedJob.  Every statement on a row is its own          *)
(* transaction, so every action is one statement.                          *)
(*                                                                         *)
(* What a run does to documents and chunks between its statements on the   *)
(* job row is the business of IngestPipeline.                              *)
(***************************************************************************)
EXTENDS Integers, FiniteSets

CONSTANTS
    Tasks,           \* the task_ids that may ever be inserted
    Workers,         \* the processes that run run_worker
    MaxAttempts,     \* ingest_job.max_attempts (database default 5)
    WorkerBatch,     \* Settings.worker_batch
    LeaseCoversRun,  \* TRUE: no run lasts longer than lease_seconds
    MaxFaults        \* bound on crashes, lost failure reports and overruns

ASSUME QueueAssumption ==
    /\ IsFiniteSet(Tasks)
    /\ MaxAttempts \in Nat \ {0}
    /\ WorkerBatch \in Nat \ {0}
    /\ LeaseCoversRun \in BOOLEAN
    /\ MaxFaults \in Nat

VARIABLES
    state,      \* state[t]: the state column, "absent" before, "removed" after
    jobType,    \* jobType[t]: the job_type column
    attempts,   \* attempts[t]: the attempts column
    lease,      \* lease[t]: lease_until is NULL, in the future, or in the past
    older,      \* older[t]: the tasks whose created_at is before that of t
    pc,         \* pc[w][t]: where the run of t in worker w is
    snap,       \* snap[w][t]: ClaimedJob.attempts of that run
    up,         \* the workers whose process is alive
    faults      \* how many faults have happened

rowVars   == <<state, jobType, attempts, lease, older>>
runVars   == <<pc, snap>>
queueVars == <<state, jobType, attempts, lease, older, pc, snap, up, faults>>

InFlight == {"extracting", "chunking", "embedding"}
Final    == {"done", "skipped", "failed"}
Present  == {"pending"} \cup InFlight \cup Final
States   == {"absent", "removed"} \cup Present
JobTypes == {"ingest", "rebuild"}
Leases   == {"null", "held", "lapsed"}
Points   == {"idle", "claimed"} \cup InFlight

TypeOK ==
    /\ state \in [Tasks -> States]
    /\ jobType \in [Tasks -> JobTypes]
    /\ attempts \in [Tasks -> Nat]
    /\ lease \in [Tasks -> Leases]
    /\ older \in [Tasks -> SUBSET Tasks]
    /\ pc \in [Workers -> [Tasks -> Points]]
    /\ snap \in [Workers -> [Tasks -> Nat]]
    /\ up \subseteq Workers
    /\ faults \in Nat

QueueInit ==
    /\ state = [t \in Tasks |-> "absent"]
    /\ jobType = [t \in Tasks |-> "ingest"]
    /\ attempts = [t \in Tasks |-> 0]
    /\ lease = [t \in Tasks |-> "null"]
    /\ older = [t \in Tasks |-> {}]
    /\ pc = [w \in Workers |-> [t \in Tasks |-> "idle"]]
    /\ snap = [w \in Workers |-> [t \in Tasks |-> 0]]
    /\ up = Workers
    /\ faults = 0

-----------------------------------------------------------------------------
(* Submitting and withdrawing jobs. *)

\* INSERT INTO ingest_job.  enqueue writes 'pending', record_skipped 'skipped'.
Insert(t, type, s) ==
    /\ state[t] = "absent"
    /\ state' = [state EXCEPT ![t] = s]
    /\ jobType' = [jobType EXCEPT ![t] = type]
    /\ older' = [older EXCEPT ![t] = {u \in Tasks : state[u] # "absent"}]
    /\ UNCHANGED <<attempts, lease, pc, snap, up, faults>>

Enqueue(t, type)  == Insert(t, type, "pending")
RecordSkipped(t)  == Insert(t, "ingest", "skipped")

\* DELETE FROM document cascades to the ingest jobs of the document.  Which
\* jobs share a document is not visible here: any set of them may go.
RemoveJobs(S) ==
    /\ \A t \in S : state[t] \in Present /\ jobType[t] = "ingest"
    /\ state' = [t \in Tasks |-> IF t \in S THEN "removed" ELSE state[t]]
    /\ UNCHANGED <<jobType, attempts, lease, older, pc, snap, up, faults>>

-----------------------------------------------------------------------------
(* Claiming. *)

Running(t)   == \E w \in Workers : pc[w][t] # "idle"
Holds(w, t)  == pc[w][t] # "idle" /\ snap[w][t] = attempts[t]
HasHolder(t) == \E w \in Workers : Holds(w, t)

\* Mutants of Claimable: the lease is not looked at; failed rows are taken
\* too; rows in flight are never taken back.
ClaimableLeaseIgnored(t) == state[t] \in {"pending"} \cup InFlight
ClaimableFailedToo(t)    == state[t] \in {"pending", "failed"}
ClaimableOnce(t)         == state[t] = "pending"

Claimable(t) ==
    \/ state[t] = "pending"
    \/ state[t] \in InFlight /\ lease[t] = "lapsed"

\* ORDER BY created_at LIMIT n, over the rows of S.
OldestFirst(S, n) ==
    {B \in SUBSET S :
        /\ Cardinality(B) <= n
        /\ B # S => Cardinality(B) = n
        /\ \A b \in B, c \in S \ B : b \in older[c]}

\* Mutant of FirstState: a state the enum does not have.
FirstStateUnknown(t) == "claimed"

\* The state a claimed row is given.
FirstState(t) == IF jobType[t] = "rebuild" THEN "embedding" ELSE "extracting"

\* Mutant of NextAttempt: only rows that were pending are counted up.
NextAttemptOfPending(t) == IF state[t] = "pending" THEN attempts[t] + 1 ELSE attempts[t]

NextAttempt(t) == attempts[t] + 1

\* Mutant of BatchEnded: the loop does not wait for its runs.
BatchIgnored(w) == w \in Workers

BatchEnded(w) == \A t \in Tasks : pc[w][t] = "idle"

\* The UPDATE, and the ClaimedJobs it returns to w.
Take(w, B) ==
    /\ state' = [t \in Tasks |-> IF t \in B THEN FirstState(t) ELSE state[t]]
    /\ attempts' = [t \in Tasks |-> IF t \in B THEN NextAttempt(t) ELSE attempts[t]]
    /\ lease' = [t \in Tasks |-> IF t \in B THEN "held" ELSE lease[t]]
    /\ pc' = [pc EXCEPT ![w] = [t \in Tasks |-> IF t \in B THEN "claimed" ELSE "idle"]]
    /\ snap' = [snap EXCEPT ![w] = [t \in Tasks |-> IF t \in B THEN NextAttempt(t) ELSE 0]]

\* run_worker claims a batch only when asyncio.gather has returned from the
\* last one.  SKIP LOCKED passes over rows that a run is updating just then.
Claim(w) ==
    /\ w \in up
    /\ BatchEnded(w)
    /\ \E locked \in SUBSET {t \in Tasks : Running(t)} :
         \E B \in OldestFirst({t \in Tasks \ locked : Claimable(t)}, WorkerBatch) :
            B # {} /\ Take(w, B)
    /\ UNCHANGED <<jobType, older, up, faults>>

-----------------------------------------------------------------------------
(* What a run writes on its row.  No statement looks at the row's attempts *)
(* or state; one on a deleted row updates nothing.                         *)

Written(t, s) == IF state[t] = "removed" THEN state ELSE [state EXCEPT ![t] = s]

NextPoint(t, p) ==
    CASE p = "claimed"    -> FirstState(t)
      [] p = "extracting" -> "chunking"
      [] p = "chunking"   -> "embedding"

\* The run of t in w returns or raises out of process_job.
EndRun(w, t) ==
    /\ pc' = [pc EXCEPT ![w][t] = "idle"]
    /\ snap' = [snap EXCEPT ![w][t] = 0]

\* Mutant of SetState: every state change gives up the lease.
SetStateDropsLease(w, t) ==
    /\ pc[w][t] \in {"claimed", "extracting", "chunking"}
    /\ state' = Written(t, NextPoint(t, pc[w][t]))
    /\ lease' = [lease EXCEPT ![t] = "null"]
    /\ pc' = [pc EXCEPT ![w][t] = NextPoint(t, pc[w][t])]
    /\ UNCHANGED <<jobType, attempts, older, snap, up, faults>>

SetState(w, t) ==
    /\ pc[w][t] \in {"claimed", "extracting", "chunking"}
    /\ state' = Written(t, NextPoint(t, pc[w][t]))
    /\ pc' = [pc EXCEPT ![w][t] = NextPoint(t, pc[w][t])]
    /\ UNCHANGED <<jobType, attempts, lease, older, snap, up, faults>>

MarkDone(w, t) ==
    /\ pc[w][t] = "embedding"
    /\ state' = Written(t, "done")
    /\ EndRun(w, t)
    /\ UNCHANGED <<jobType, attempts, lease, older, up, faults>>

\* The document is gone when the run looks it up, and so is the job row that
\* mark_done(state="skipped") would have written.
MarkSkipped(w, t) ==
    /\ pc[w][t] = "claimed"
    /\ jobType[t] = "ingest"
    /\ state[t] = "removed"
    /\ EndRun(w, t)
    /\ UNCHANGED <<state, jobType, attempts, lease, older, up, faults>>

\* Mutants of WillRetry: one attempt too many; no bound at all.
WillRetryOnceMore(w, t, retryable) == retryable /\ snap[w][t] <= MaxAttempts
WillRetryAlways(w, t, retryable)   == retryable /\ pc[w][t] # "idle"

WillRetry(w, t, retryable) == retryable /\ snap[w][t] < MaxAttempts

\* The body raised and process_job records it with mark_failed.
Fail(w, t, retryable) ==
    /\ pc[w][t] # "idle"
    /\ state' = Written(t, IF WillRetry(w, t, retryable) THEN "pending" ELSE "failed")
    /\ lease' = IF state[t] = "removed" THEN lease ELSE [lease EXCEPT ![t] = "null"]
    /\ EndRun(w, t)
    /\ UNCHANGED <<jobType, attempts, older, up, faults>>

-----------------------------------------------------------------------------
(* Faults and time. *)

Fault == faults < MaxFaults /\ faults' = faults + 1

\* mark_failed itself raises: the run ends, the row keeps its state and lease.
LoseReport(w, t) ==
    /\ Fault
    /\ pc[w][t] # "idle"
    /\ EndRun(w, t)
    /\ UNCHANGED <<rowVars, up>>

\* The process dies or its worker task is cancelled, with all its runs.
Crash(w) ==
    /\ Fault
    /\ w \in up
    /\ up' = up \ {w}
    /\ pc' = [pc EXCEPT ![w] = [t \in Tasks |-> "idle"]]
    /\ snap' = [snap EXCEPT ![w] = [t \in Tasks |-> 0]]
    /\ UNCHANGED rowVars

Restart(w) ==
    /\ w \notin up
    /\ up' = up \cup {w}
    /\ UNCHANGED <<rowVars, runVars, faults>>

\* now() passes lease_until of a row whose claimant is gone.
Lapse(t) ==
    /\ lease[t] = "held"
    /\ ~HasHolder(t)
    /\ lease' = [lease EXCEPT ![t] = "lapsed"]
    /\ UNCHANGED <<state, jobType, attempts, older, pc, snap, up, faults>>

\* now() passes lease_until of a row whose claimant is still at work: nothing
\* calls heartbeat, so a run longer than lease_seconds loses its lease.
Overrun(t) ==
    /\ Fault
    /\ ~LeaseCoversRun
    /\ lease[t] = "held"
    /\ HasHolder(t)
    /\ lease' = [lease EXCEPT ![t] = "lapsed"]
    /\ UNCHANGED <<state, jobType, attempts, older, pc, snap, up>>

-----------------------------------------------------------------------------

RunStep(w, t) ==
    \/ SetState(w, t)
    \/ MarkDone(w, t)
    \/ MarkSkipped(w, t)
    \/ \E retryable \in BOOLEAN : Fail(w, t, retryable)

QueueNext ==
    \/ \E t \in Tasks, type \in JobTypes : Enqueue(t, type)
    \/ \E t \in Tasks : RecordSkipped(t)
    \/ \E S \in SUBSET Tasks : RemoveJobs(S)
    \/ \E w \in Workers : Claim(w) \/ Crash(w) \/ Restart(w)
    \/ \E w \in Workers, t \in Tasks : RunStep(w, t) \/ LoseReport(w, t)
    \/ \E t \in Tasks : Lapse(t) \/ Overrun(t)

QueueSpec == QueueInit /\ [][QueueNext]_queueVars

\* Live workers keep polling, a run's awaits return or raise, leases of the
\* dead expire, and a dead process is started again.
QueueFairness ==
    /\ \A w \in Workers : WF_queueVars(Claim(w)) /\ WF_queueVars(Restart(w))
    /\ \A w \in Workers, t \in Tasks : WF_queueVars(RunStep(w, t))
    /\ \A t \in Tasks : WF_queueVars(Lapse(t))

FairQueueSpec == QueueSpec /\ QueueFairness

-----------------------------------------------------------------------------
(* Properties. *)

\* "multiple workers never double-process a job" (store/tasks.py:3): no two
\* workers run the same task at the same time.
NoDoubleProcess ==
    \A t \in Tasks : \A v, w \in Workers :
        pc[v][t] # "idle" /\ pc[w][t] # "idle" => v = w

\* Whatever the leases do, the attempts value a run was claimed with tells it
\* apart from every other run of the task, and only the latest claimant's
\* equals the row's: the column could fence off stale writers (claim is the
\* only statement that increments it).
AttemptIsFencing ==
    \A t \in Tasks : \A w \in Workers : pc[w][t] # "idle" =>
        /\ snap[w][t] \in 1..attempts[t]
        /\ \A v \in Workers \ {w} : pc[v][t] # "idle" => snap[v][t] # snap[w][t]

\* A job waits for another attempt only if it has one left.  claim does not
\* check max_attempts: the property rests on mark_failed deciding with the
\* attempts of its own claim.
PendingHasBudget ==
    \A t \in Tasks : state[t] = "pending" => attempts[t] < MaxAttempts

\* Attempts beyond max_attempts are paid for by faults: reclaiming the job of
\* a dead worker is the only way past the bound that mark_failed enforces.
AttemptsPaidFor ==
    \A t \in Tasks : attempts[t] <= MaxAttempts + faults

\* A row in flight has a lease, so claim can take it back when its worker
\* dies: mark_failed clears the lease only with a state that needs none.
InFlightHasLease ==
    \A t \in Tasks : state[t] \in InFlight => lease[t] # "null"

\* "reclaims in-flight jobs whose lease expired (crashed worker recovery)"
\* (store/tasks.py:4): a job left in flight by a dead run is run again, or
\* reaches an outcome.
CrashedJobIsRecovered ==
    \A t \in Tasks :
        (state[t] \in InFlight /\ ~Running(t))
            ~> (Running(t) \/ state[t] \in Final \cup {"removed"})

\* No silent failures (PRD 6.5): every accepted job ends in an outcome that
\* the status interface reports, whatever fails on the way.
EveryJobSettles ==
    \A t \in Tasks :
        state[t] = "pending" ~> state[t] \in Final \cup {"removed"}

\* The rows and runs keep the promises of JobLedger: one executor per task,
\* final outcomes, bounded give-backs.
LedgerStatus(s) ==
    CASE s = "pending"   -> "queued"
      [] s \in InFlight  -> "running"
      [] OTHER           -> s

Ledger == INSTANCE JobLedger WITH
    status    <- [t \in Tasks |-> LedgerStatus(state[t])],
    tries     <- attempts,
    executing <- {t \in Tasks : Running(t)}

ImplementsLedger == Ledger!LedgerSpec

=============================================================================
