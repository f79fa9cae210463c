------------------------------ MODULE JobLedger ------------------------------
(***************************************************************************)
(* What the ingest_job table promises to everyone who submits a job,       *)
(* without rows, leases or workers: a job is executed by at most one       *)
(* executor at a time, an outcome is final, and a job goes back to the     *)
(* queue only while it has attempts left.                                  *)
(*                                                                         *)
(* JobQueue implements this specification when no run outlives its lease,  *)
(* or when there is one worker.                                            *)
(***************************************************************************)
EXTENDS Integers

CONSTANTS
    Tasks,        \* the task_ids
    MaxAttempts   \* ingest_job.max_attempts

VARIABLES
    status,       \* status[t]: how far task t is
    tries,        \* tries[t]: how many times t was started
    executing     \* the tasks somebody is executing right now

ledgerVars == <<status, tries, executing>>

Outcomes == {"done", "failed", "skipped"}
Statuses == {"absent", "queued", "running", "removed"} \cup Outcomes

LedgerTypeOK ==
    /\ status \in [Tasks -> Statuses]
    /\ tries \in [Tasks -> Nat]
    /\ executing \subseteq Tasks

LedgerInit ==
    /\ status = [t \in Tasks |-> "absent"]
    /\ tries = [t \in Tasks |-> 0]
    /\ executing = {}

\* A new task is queued, or recorded as skipped when there is nothing to do.
Submit(t, s) ==
    /\ status[t] = "absent"
    /\ status' = [status EXCEPT ![t] = s]
    /\ UNCHANGED <<tries, executing>>

\* A batch of tasks is started: each was waiting, or its executor was lost.
Start(S) ==
    /\ S \cap executing = {}
    /\ \A t \in S : status[t] \in {"queued", "running"}
    /\ status' = [t \in Tasks |-> IF t \in S THEN "running" ELSE status[t]]
    /\ tries' = [t \in Tasks |-> IF t \in S THEN tries[t] + 1 ELSE tries[t]]
    /\ executing' = executing \cup S

\* The executor of t reports an outcome.
Finish(t, s) ==
    /\ t \in executing
    /\ status[t] = "running"
    /\ status' = [status EXCEPT ![t] = s]
    /\ executing' = executing \ {t}
    /\ UNCHANGED tries

\* The executor of t gives the task back for another attempt.
GiveBack(t) ==
    /\ t \in executing
    /\ status[t] = "running"
    /\ tries[t] < MaxAttempts
    /\ status' = [status EXCEPT ![t] = "queued"]
    /\ executing' = executing \ {t}
    /\ UNCHANGED tries

\* Executors vanish, or end after their task was withdrawn.
Lose(S) ==
    /\ executing' = executing \ S
    /\ UNCHANGED <<status, tries>>

\* Tasks are withdrawn with the document they belong to.
Withdraw(S) ==
    /\ \A t \in S : status[t] # "absent"
    /\ status' = [t \in Tasks |-> IF t \in S THEN "removed" ELSE status[t]]
    /\ UNCHANGED <<tries, executing>>

LedgerNext ==
    \/ \E t \in Tasks, s \in {"queued", "skipped"} : Submit(t, s)
    \/ \E S \in SUBSET Tasks : Start(S) \/ Lose(S) \/ Withdraw(S)
    \/ \E t \in Tasks, s \in Outcomes : Finish(t, s)
    \/ \E t \in Tasks : GiveBack(t)

LedgerSpec == LedgerInit /\ [][LedgerNext]_ledgerVars

=============================================================================
