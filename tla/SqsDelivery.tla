----------------------------- MODULE SqsDelivery -----------------------------
(***************************************************************************)
(* The job table on AWS: SQS delivers the task_ids (store/queue_sqs.py),   *)
(* a Lambda claims and runs the job of each message it receives            *)
(* (aws/lambda_worker.py, tasks.claim_by_id), and a scheduled Lambda sends *)
(* messages for jobs that seem stuck (aws/lambda_reconciler.py).  Rows and *)
(* runs are those of JobQueue; a worker is a Lambda instance, which runs   *)
(* one job at a time.                                                      *)
(***************************************************************************)
EXTENDS JobQueue

CONSTANTS
    Messages,     \* bound: as many messages can be in the queue at once
    NoMessage,    \* no message
    MaxReceive,   \* max_receive_count of the queue
    LambdaBatch   \* batch_size of the event source

ASSUME SqsAssumption ==
    /\ Tasks # {}
    /\ NoMessage \notin Messages
    /\ MaxReceive \in Nat \ {0}
    /\ LambdaBatch \in Nat \ {0}

VARIABLES
    about,      \* about[m]: the task_id in the body of message m
    place,      \* place[m]: m is not in the queue, visible, or taken
    received,   \* received[m]: how often m has been received
    sending,    \* tasks whose row is written and whose message is not sent yet
    overdue,    \* tasks the reconciler has read and not sent yet
    todo,       \* todo[w]: messages of the invocation of w still to come
    current,    \* current[w]: the message whose job w runs
    handled,    \* handled[w]: messages w is through with
    failures    \* failures[w]: those among them it will report as failed

messageVars == <<about, place, received>>
senderVars  == <<sending, overdue>>
lambdaVars  == <<todo, current, handled, failures>>
sqsVars     == <<queueVars, messageVars, senderVars, lambdaVars>>

Places == {"free", "visible", "taken"}

SqsInit ==
    /\ QueueInit
    /\ about = [m \in Messages |-> CHOOSE t \in Tasks : TRUE]
    /\ place = [m \in Messages |-> "free"]
    /\ received = [m \in Messages |-> 0]
    /\ sending = {}
    /\ overdue = {}
    /\ todo = [w \in Workers |-> {}]
    /\ current = [w \in Workers |-> NoMessage]
    /\ handled = [w \in Workers |-> {}]
    /\ failures = [w \in Workers |-> {}]

-----------------------------------------------------------------------------
(* Senders. *)

\* A message about t, received n times before, is in the queue.
Post(t, n) ==
    \E m \in Messages :
        /\ place[m] = "free"
        /\ about' = [about EXCEPT ![m] = t]
        /\ place' = [place EXCEPT ![m] = "visible"]
        /\ received' = [received EXCEPT ![m] = n]

\* SqsJobQueue.enqueue: the row first ...
EnqueueRow(t, type) ==
    /\ Enqueue(t, type)
    /\ sending' = sending \cup {t}
    /\ UNCHANGED <<messageVars, overdue, lambdaVars>>

\* ... then the message,
SendMessage(t) ==
    /\ t \in sending
    /\ Post(t, 0)
    /\ sending' = sending \ {t}
    /\ UNCHANGED <<queueVars, overdue, lambdaVars>>

\* unless the send raises or the process dies before it.
SendFails(t) ==
    /\ Fault
    /\ t \in sending
    /\ sending' = sending \ {t}
    /\ UNCHANGED <<rowVars, runVars, up, messageVars, overdue, lambdaVars>>

\* record_skipped and the cascade of a removal send nothing.
SkipOrRemove ==
    /\ \/ \E t \in Tasks : RecordSkipped(t)
       \/ \E S \in SUBSET Tasks : RemoveJobs(S)
    /\ UNCHANGED <<messageVars, senderVars, lambdaVars>>

Unfinished(t) == state[t] \in {"pending"} \cup InFlight

\* Mutants of Stuck: one half of the condition on the lease is forgotten.
StuckLapsedOnly(t) == Unfinished(t) /\ lease[t] = "lapsed"
StuckNullOnly(t)   == Unfinished(t) /\ lease[t] = "null"

\* lease_until IS NULL OR lease_until < now()
Stuck(t) == Unfinished(t) /\ lease[t] \in {"null", "lapsed"}

\* _reconcile reads the stuck rows older than _STUCK_AFTER; all but the young
\* ones are ...
ReadStuck(young) ==
    /\ overdue = {}
    /\ \A t \in Tasks \ young : older[t] \cap young = {}
    /\ overdue' = {t \in Tasks \ young : Stuck(t)}
    /\ UNCHANGED <<queueVars, messageVars, sending, lambdaVars>>

\* ... and sends a message for each, whatever has become of it meanwhile.
Resend(t) ==
    /\ t \in overdue
    /\ Post(t, 0)
    /\ overdue' = overdue \ {t}
    /\ UNCHANGED <<queueVars, sending, lambdaVars>>

ReconcilerDies ==
    /\ Fault
    /\ overdue # {}
    /\ overdue' = {}
    /\ UNCHANGED <<rowVars, runVars, up, messageVars, sending, lambdaVars>>

-----------------------------------------------------------------------------
(* The queue. *)

\* An invocation gets a batch, which is hidden from others meanwhile.
Receive(w) ==
    /\ w \in up
    /\ todo[w] \cup handled[w] = {} /\ current[w] = NoMessage
    /\ \E B \in SUBSET {m \in Messages : place[m] = "visible" /\ received[m] < MaxReceive} :
          /\ B # {}
          /\ Cardinality(B) <= LambdaBatch
          /\ place' = [m \in Messages |-> IF m \in B THEN "taken" ELSE place[m]]
          /\ received' = [m \in Messages |-> IF m \in B THEN received[m] + 1 ELSE received[m]]
          /\ todo' = [todo EXCEPT ![w] = B]
    /\ UNCHANGED <<queueVars, about, senderVars, current, handled, failures>>

\* Received too often: it goes to the dead-letter queue, which nobody reads.
DeadLetter(m) ==
    /\ place[m] = "visible"
    /\ received[m] >= MaxReceive
    /\ place' = [place EXCEPT ![m] = "free"]
    /\ UNCHANGED <<queueVars, about, received, senderVars, lambdaVars>>

\* At-least-once delivery: a taken message shows up a second time.
Duplicate(m) ==
    /\ Fault
    /\ place[m] = "taken"
    /\ Post(about[m], received[m])
    /\ UNCHANGED <<rowVars, runVars, up, senderVars, lambdaVars>>

-----------------------------------------------------------------------------
(* lambda_worker.handler *)

Through(w, m, failed) ==
    /\ handled' = [handled EXCEPT ![w] = @ \cup {m}]
    /\ failures' = [failures EXCEPT ![w] = IF failed THEN @ \cup {m} ELSE @]

\* claim_by_id returns None: nothing to run.
NothingToClaim(w, m) ==
    /\ current[w] = NoMessage
    /\ m \in todo[w]
    /\ ~Unfinished(about[m])
    /\ todo' = [todo EXCEPT ![w] = @ \ {m}]
    /\ Through(w, m, FALSE)
    /\ UNCHANGED <<queueVars, messageVars, senderVars, current>>

\* claim_by_id raises.
ClaimRaises(w, m) ==
    /\ Fault
    /\ current[w] = NoMessage
    /\ m \in todo[w]
    /\ todo' = [todo EXCEPT ![w] = @ \ {m}]
    /\ Through(w, m, TRUE)
    /\ UNCHANGED <<rowVars, runVars, up, messageVars, senderVars, current>>

\* claim_by_id: any job that is not final, whoever else runs it.
ClaimById(w, m) ==
    /\ current[w] = NoMessage
    /\ m \in todo[w]
    /\ Unfinished(about[m])
    /\ Take(w, {about[m]})
    /\ todo' = [todo EXCEPT ![w] = @ \ {m}]
    /\ current' = [current EXCEPT ![w] = m]
    /\ UNCHANGED <<jobType, older, up, faults, messageVars, senderVars, handled, failures>>

RunGoesOn(w, t) ==
    /\ SetState(w, t)
    /\ UNCHANGED <<messageVars, senderVars, lambdaVars>>

\* The run of t ends; process_job has raised if failed.
RunOver(w, failed) ==
    /\ current' = [current EXCEPT ![w] = NoMessage]
    /\ Through(w, current[w], failed)
    /\ UNCHANGED <<messageVars, senderVars, todo>>

RunReturns(w, t) == (MarkDone(w, t) \/ MarkSkipped(w, t)) /\ RunOver(w, FALSE)

\* process_job raises again when it has put the job back to pending.
RunFails(w, t) ==
    \E retryable \in BOOLEAN :
        Fail(w, t, retryable) /\ RunOver(w, WillRetry(w, t, retryable))

\* mark_failed raises: so does process_job.
ReportLost(w, t) == LoseReport(w, t) /\ RunOver(w, TRUE)

\* Messages that were reported come back, the others are deleted.
HandlerReturns(w) ==
    /\ todo[w] = {} /\ current[w] = NoMessage
    /\ handled[w] # {}
    /\ place' = [m \in Messages |-> CASE m \in failures[w]              -> "visible"
                                      [] m \in handled[w] \ failures[w] -> "free"
                                      [] OTHER                          -> place[m]]
    /\ handled' = [handled EXCEPT ![w] = {}]
    /\ failures' = [failures EXCEPT ![w] = {}]
    /\ UNCHANGED <<queueVars, about, received, senderVars, todo, current>>

\* The instance is killed, by its timeout or otherwise, or fails to set its
\* context up: the whole batch comes back when the visibility timeout, which
\* is the longer one, is over.
InvocationDies(w) ==
    LET batch == todo[w] \cup handled[w] \cup ({current[w]} \ {NoMessage}) IN
    /\ Crash(w)
    /\ place' = [m \in Messages |-> IF m \in batch THEN "visible" ELSE place[m]]
    /\ todo' = [todo EXCEPT ![w] = {}]
    /\ current' = [current EXCEPT ![w] = NoMessage]
    /\ handled' = [handled EXCEPT ![w] = {}]
    /\ failures' = [failures EXCEPT ![w] = {}]
    /\ UNCHANGED <<about, received, senderVars>>

InstanceStarts(w) ==
    /\ Restart(w)
    /\ UNCHANGED <<messageVars, senderVars, lambdaVars>>

LeaseLapses(t) ==
    /\ Lapse(t)
    /\ UNCHANGED <<messageVars, senderVars, lambdaVars>>

LeaseOverrun(t) ==
    /\ Overrun(t)
    /\ UNCHANGED <<messageVars, senderVars, lambdaVars>>

-----------------------------------------------------------------------------

HandlerStep(w) ==
    \/ \E m \in Messages : NothingToClaim(w, m) \/ ClaimById(w, m)
    \/ \E t \in Tasks : RunGoesOn(w, t) \/ RunReturns(w, t) \/ RunFails(w, t)
    \/ HandlerReturns(w)

SqsNext ==
    \/ \E t \in Tasks, type \in JobTypes : EnqueueRow(t, type)
    \/ \E t \in Tasks : SendMessage(t) \/ SendFails(t)
    \/ SkipOrRemove
    \/ \E young \in SUBSET Tasks : ReadStuck(young)
    \/ \E t \in Tasks : Resend(t)
    \/ ReconcilerDies
    \/ \E m \in Messages : DeadLetter(m) \/ Duplicate(m)
    \/ \E w \in Workers : Receive(w) \/ HandlerStep(w)
    \/ \E w \in Workers, m \in Messages : ClaimRaises(w, m)
    \/ \E w \in Workers, t \in Tasks : ReportLost(w, t)
    \/ \E w \in Workers : InvocationDies(w) \/ InstanceStarts(w)
    \/ \E t \in Tasks : LeaseLapses(t) \/ LeaseOverrun(t)

SqsSpec == SqsInit /\ [][SqsNext]_sqsVars

\* The handlers run to their end or die, SQS delivers what is visible, rows
\* grow old enough for the reconciler, which runs on a schedule.
SqsFairness ==
    /\ \A t \in Tasks : /\ WF_sqsVars(SendMessage(t)) /\ WF_sqsVars(Resend(t))
                        /\ WF_sqsVars(LeaseLapses(t))
    /\ WF_sqsVars(ReadStuck({}))
    /\ \A m \in Messages : WF_sqsVars(DeadLetter(m))
    /\ \A w \in Workers : /\ WF_sqsVars(Receive(w)) /\ WF_sqsVars(HandlerStep(w))
                          /\ WF_sqsVars(InstanceStarts(w))

FairSqsSpec == SqsSpec /\ SqsFairness

-----------------------------------------------------------------------------
(* Properties, besides those of JobQueue. *)

SqsTypeOK ==
    /\ TypeOK
    /\ about \in [Messages -> Tasks]
    /\ place \in [Messages -> Places]
    /\ received \in [Messages -> 0..MaxReceive]
    /\ sending \subseteq Tasks
    /\ overdue \subseteq Tasks
    /\ todo \in [Workers -> SUBSET Messages]
    /\ current \in [Workers -> Messages \cup {NoMessage}]
    /\ handled \in [Workers -> SUBSET Messages]
    /\ failures \in [Workers -> SUBSET Messages]

=============================================================================
