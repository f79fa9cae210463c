------------------------------ MODULE SqsProofs ------------------------------
(***************************************************************************)
(* Proofs about SqsDelivery, for any number of Lambda instances, messages  *)
(* and redeliveries.  claim_by_id takes any job that is not final, whoever *)
(* runs it, so exclusive execution is lost; the attempts column still      *)
(* tells the runs apart.  With one instance the ledger is kept.            *)
(***************************************************************************)
EXTENDS SqsDelivery, JobQueueProofs

\* What a step can do to the rows and runs: what JobQueue does, claim_by_id,
\* or nothing but a fault elsewhere.
LEMMA SqsQueueStep ==
    ASSUME [SqsNext]_sqsVars
    PROVE  \/ [QueueNext]_queueVars
           \/ \E w \in Workers, m \in Messages : ClaimById(w, m)
           \/ Fault /\ UNCHANGED <<rowVars, runVars, up>>
  <1>1. ASSUME NEW t \in Tasks, NEW type \in JobTypes, EnqueueRow(t, type) PROVE QueueNext
    BY <1>1 DEF EnqueueRow, QueueNext
  <1>2. CASE SkipOrRemove
    BY <1>2 DEF SkipOrRemove, QueueNext
  <1>3. ASSUME NEW w \in Workers, HandlerStep(w)
        PROVE  \/ QueueNext \/ UNCHANGED queueVars
               \/ \E m \in Messages : ClaimById(w, m)
    <2>1. ASSUME NEW m \in Messages, NothingToClaim(w, m) PROVE UNCHANGED queueVars
      BY <2>1 DEF NothingToClaim
    <2>2. ASSUME NEW t \in Tasks, RunGoesOn(w, t) \/ RunReturns(w, t) \/ RunFails(w, t)
          PROVE  QueueNext
      BY <2>2 DEF RunGoesOn, RunReturns, RunFails, QueueNext, RunStep
    <2>3. CASE HandlerReturns(w)
      BY <2>3 DEF HandlerReturns
    <2> QED
      BY <1>3, <2>1, <2>2, <2>3 DEF HandlerStep
  <1>4. ASSUME NEW w \in Workers, NEW t \in Tasks, ReportLost(w, t) PROVE QueueNext
    BY <1>4 DEF ReportLost, QueueNext
  <1>5. ASSUME NEW w \in Workers, InvocationDies(w) \/ InstanceStarts(w) PROVE QueueNext
    BY <1>5 DEF InvocationDies, InstanceStarts, QueueNext
  <1>6. ASSUME NEW t \in Tasks, LeaseLapses(t) \/ LeaseOverrun(t) PROVE QueueNext
    BY <1>6 DEF LeaseLapses, LeaseOverrun, QueueNext
  <1>7. ASSUME NEW t \in Tasks, SendMessage(t) \/ Resend(t) PROVE UNCHANGED queueVars
    BY <1>7 DEF SendMessage, Resend
  <1>8. ASSUME NEW young, ReadStuck(young) PROVE UNCHANGED queueVars
    BY <1>8 DEF ReadStuck
  <1>9. ASSUME NEW w \in Workers, Receive(w) PROVE UNCHANGED queueVars
    BY <1>9 DEF Receive
  <1>10. ASSUME NEW m \in Messages, DeadLetter(m) PROVE UNCHANGED queueVars
    BY <1>10 DEF DeadLetter
  <1>11. ASSUME NEW m \in Messages, Duplicate(m) PROVE Fault /\ UNCHANGED <<rowVars, runVars, up>>
    BY <1>11 DEF Duplicate
  <1>12. ASSUME NEW t \in Tasks, SendFails(t) PROVE Fault /\ UNCHANGED <<rowVars, runVars, up>>
    BY <1>12 DEF SendFails
  <1>13. ASSUME NEW w \in Workers, NEW m \in Messages, ClaimRaises(w, m)
         PROVE  Fault /\ UNCHANGED <<rowVars, runVars, up>>
    BY <1>13 DEF ClaimRaises
  <1>14. CASE ReconcilerDies
    BY <1>14 DEF ReconcilerDies
  <1>15. CASE UNCHANGED sqsVars
    BY <1>15 DEF sqsVars
  <1> QED
    BY <1>1, <1>2, <1>3, <1>4, <1>5, <1>6, <1>7, <1>8, <1>9, <1>10,
       <1>11, <1>12, <1>13, <1>14, <1>15
    DEF SqsNext

LEMMA SqsFenceStep ==
    ASSUME TypeOK, AttemptIsFencing, [SqsNext]_sqsVars
    PROVE  TypeOK' /\ AttemptIsFencing'
  <1>1. CASE [QueueNext]_queueVars
    BY <1>1, TypeStep, FenceStep
  <1>2. ASSUME NEW w \in Workers, NEW m \in Messages, ClaimById(w, m)
        PROVE  TypeOK' /\ AttemptIsFencing'
    BY <1>2, TakeType, TakeFence DEF ClaimById
  <1>3. CASE Fault /\ UNCHANGED <<rowVars, runVars, up>>
    BY <1>3 DEF Fault, rowVars, runVars, TypeOK, AttemptIsFencing
  <1> QED
    BY <1>1, <1>2, <1>3, SqsQueueStep

\* However often a message is delivered, and however many Lambdas run one job
\* at the same time, no two of them hold the same attempts value and only the
\* last one holds the row's.
THEOREM SqsFencing == SqsSpec => [](TypeOK /\ AttemptIsFencing)
  <1>1. SqsInit => TypeOK /\ AttemptIsFencing
    BY TypeInit, FenceInit DEF SqsInit
  <1> QED
    BY <1>1, SqsFenceStep, PTL DEF SqsSpec

-----------------------------------------------------------------------------
(* Types.  That handler appends the message of the run that ended rests on *)
(* a Lambda having one run at a time, the one of its current message.      *)

DeliveryType ==
    /\ about \in [Messages -> Tasks]
    /\ place \in [Messages -> Places]
    /\ received \in [Messages -> 0..MaxReceive]
    /\ sending \subseteq Tasks
    /\ overdue \subseteq Tasks

LambdaType ==
    /\ todo \in [Workers -> SUBSET Messages]
    /\ current \in [Workers -> Messages \cup {NoMessage}]
    /\ handled \in [Workers -> SUBSET Messages]
    /\ failures \in [Workers -> SUBSET Messages]

OneRunEach ==
    \A w \in Workers, t \in Tasks : pc[w][t] # "idle" =>
        /\ current[w] # NoMessage
        /\ \A u \in Tasks \ {t} : pc[w][u] = "idle"

SqsInv == TypeOK /\ AttemptIsFencing /\ DeliveryType /\ LambdaType /\ OneRunEach

LEMMA SqsInvInit == SqsInit => SqsInv
  <1> SUFFICES ASSUME SqsInit PROVE SqsInv
    OBVIOUS
  <1>1. TypeOK /\ AttemptIsFencing /\ \A w \in Workers, t \in Tasks : pc[w][t] = "idle"
    BY TypeInit, FenceInit DEF SqsInit, QueueInit
  <1>2. DeliveryType /\ LambdaType
    BY SqsAssumption DEF SqsInit, DeliveryType, LambdaType, Places
  <1> QED
    BY <1>1, <1>2 DEF SqsInv, OneRunEach

LEMMA PostType ==
    ASSUME DeliveryType, NEW t \in Tasks, NEW n \in 0..MaxReceive, Post(t, n)
    PROVE  /\ about' \in [Messages -> Tasks]
           /\ place' \in [Messages -> Places]
           /\ received' \in [Messages -> 0..MaxReceive]
  BY DEF Post, DeliveryType, Places

\* A step that leaves the runs and the Lambdas alone, or only ends runs.
LEMMA OneRunStays ==
    ASSUME OneRunEach, UNCHANGED current,
           \A w \in Workers, t \in Tasks : pc[w][t] = "idle" => pc'[w][t] = "idle"
    PROVE  OneRunEach'
  BY DEF OneRunEach

\* A run of w ends, and with it what the handler does for its message.
LEMMA RunOverTypes ==
    ASSUME SqsInv, NEW w \in Workers, NEW t \in Tasks, NEW failed \in BOOLEAN,
           pc[w][t] # "idle", EndRun(w, t), RunOver(w, failed)
    PROVE  DeliveryType' /\ LambdaType' /\ OneRunEach'
  <1>1. current[w] \in Messages
    BY DEF SqsInv, OneRunEach, LambdaType
  <1>2. handled' \in [Workers -> SUBSET Messages] /\ failures' \in [Workers -> SUBSET Messages]
    BY <1>1 DEF RunOver, Through, SqsInv, LambdaType
  <1>3. current' = [current EXCEPT ![w] = NoMessage] /\ UNCHANGED <<messageVars, senderVars, todo>>
    BY DEF RunOver
  <1>4. DeliveryType' /\ LambdaType'
    BY <1>2, <1>3 DEF SqsInv, LambdaType, DeliveryType, messageVars, senderVars
  <1>5. \A v \in Workers, u \in Tasks :
           pc'[v][u] = IF v = w /\ u = t THEN "idle" ELSE pc[v][u]
    BY DEF EndRun, SqsInv, TypeOK
  <1>6. \A u \in Tasks : pc'[w][u] = "idle"
    BY <1>5 DEF SqsInv, OneRunEach
  <1>7. OneRunEach'
    BY <1>3, <1>5, <1>6 DEF SqsInv, OneRunEach, LambdaType
  <1> QED
    BY <1>4, <1>7

LEMMA HandlerTypes ==
    ASSUME SqsInv, NEW w \in Workers, HandlerStep(w)
    PROVE  DeliveryType' /\ LambdaType' /\ OneRunEach'
  <1> USE DEF SqsInv, DeliveryType, LambdaType, messageVars, senderVars, lambdaVars
  <1>1. ASSUME NEW m \in Messages, NothingToClaim(w, m)
        PROVE  DeliveryType' /\ LambdaType' /\ OneRunEach'
    <2>1. UNCHANGED <<pc, current>>
      BY <1>1 DEF NothingToClaim, queueVars
    <2>2. OneRunEach'
      BY <2>1, OneRunStays
    <2>3. DeliveryType' /\ LambdaType'
      BY <1>1 DEF NothingToClaim, Through
    <2> QED
      BY <2>2, <2>3
  <1>2. ASSUME NEW m \in Messages, ClaimById(w, m)
        PROVE  DeliveryType' /\ LambdaType' /\ OneRunEach'
    <2>1. DeliveryType' /\ LambdaType'
      BY <1>2 DEF ClaimById
    <2>2. current' = [current EXCEPT ![w] = m] /\ m # NoMessage
      BY <1>2, SqsAssumption DEF ClaimById
    <2>3. pc' = [pc EXCEPT ![w] = [u \in Tasks |-> IF u \in {about[m]} THEN "claimed" ELSE "idle"]]
      BY <1>2 DEF ClaimById, Take
    <2>4. \A v \in Workers \ {w} : pc'[v] = pc[v] /\ current'[v] = current[v]
      BY <2>2, <2>3 DEF TypeOK
    <2>5. \A u \in Tasks : pc'[w][u] = IF u = about[m] THEN "claimed" ELSE "idle"
      BY <2>3 DEF TypeOK
    <2>6. current'[w] = m
      BY <2>2
    <2> QED
      BY <2>1, <2>2, <2>4, <2>5, <2>6 DEF OneRunEach
  <1>3. ASSUME NEW t \in Tasks, RunGoesOn(w, t)
        PROVE  DeliveryType' /\ LambdaType' /\ OneRunEach'
    <2>1. SetState(w, t) /\ UNCHANGED <<messageVars, senderVars, lambdaVars>>
      BY <1>3 DEF RunGoesOn
    <2>2. \A v \in Workers, u \in Tasks : pc[v][u] = "idle" => pc'[v][u] = "idle"
      BY <2>1 DEF SetState, TypeOK
    <2> QED
      BY <2>1, <2>2, OneRunStays
  <1>4. ASSUME NEW t \in Tasks, RunReturns(w, t)
        PROVE  DeliveryType' /\ LambdaType' /\ OneRunEach'
    <2>1. pc[w][t] # "idle" /\ EndRun(w, t) /\ RunOver(w, FALSE)
      BY <1>4 DEF RunReturns, MarkDone, MarkSkipped
    <2> HIDE DEF SqsInv, DeliveryType, LambdaType
    <2> QED
      BY <2>1, RunOverTypes
  <1>5. ASSUME NEW t \in Tasks, RunFails(w, t)
        PROVE  DeliveryType' /\ LambdaType' /\ OneRunEach'
    <2>1. PICK retryable \in BOOLEAN :
             Fail(w, t, retryable) /\ RunOver(w, WillRetry(w, t, retryable))
      BY <1>5 DEF RunFails
    <2>2. pc[w][t] # "idle" /\ EndRun(w, t) /\ WillRetry(w, t, retryable) \in BOOLEAN
      BY <2>1 DEF Fail, WillRetry
    <2> HIDE DEF SqsInv, DeliveryType, LambdaType
    <2> QED
      BY <2>1, <2>2, RunOverTypes
  <1>6. CASE HandlerReturns(w)
    <2>1. UNCHANGED <<pc, current>>
      BY <1>6 DEF HandlerReturns, queueVars
    <2>2. OneRunEach'
      BY <2>1, OneRunStays
    <2>3. place' \in [Messages -> Places]
      BY <1>6 DEF HandlerReturns, Places
    <2> QED
      BY <1>6, <2>2, <2>3 DEF HandlerReturns
  <1> QED
    BY <1>1, <1>2, <1>3, <1>4, <1>5, <1>6 DEF HandlerStep

LEMMA DeliveryTypes ==
    ASSUME SqsInv, [SqsNext]_sqsVars
    PROVE  DeliveryType' /\ LambdaType' /\ OneRunEach'
  <1> USE DEF SqsInv, DeliveryType, LambdaType, messageVars, senderVars, lambdaVars
  <1> DEFINE Same == UNCHANGED <<pc, current>>
             Goal == DeliveryType' /\ LambdaType' /\ OneRunEach'
  <1>a. Same => OneRunEach'
    BY OneRunStays
  <1>1. ASSUME NEW t \in Tasks, NEW type \in JobTypes, EnqueueRow(t, type) PROVE Goal
    BY <1>1, <1>a DEF EnqueueRow, Enqueue, Insert
  <1>2. ASSUME NEW t \in Tasks, SendMessage(t) \/ Resend(t) PROVE Goal
    <2>1. Post(t, 0) /\ 0 \in 0..MaxReceive /\ UNCHANGED <<queueVars, lambdaVars>>
      BY <1>2, SqsAssumption DEF SendMessage, Resend
    <2>2. sending' \subseteq Tasks /\ overdue' \subseteq Tasks
      BY <1>2 DEF SendMessage, Resend
    <2>3. Same
      BY <2>1 DEF queueVars
    <2> QED
      BY <1>a, <2>1, <2>2, <2>3, PostType
  <1>3. ASSUME NEW t \in Tasks, SendFails(t) PROVE Goal
    BY <1>3, <1>a DEF SendFails, runVars
  <1>4. CASE SkipOrRemove
    BY <1>4, <1>a DEF SkipOrRemove, RecordSkipped, Insert, RemoveJobs
  <1>5. ASSUME NEW young, ReadStuck(young) PROVE Goal
    BY <1>5, <1>a DEF ReadStuck, queueVars
  <1>6. CASE ReconcilerDies
    BY <1>6, <1>a DEF ReconcilerDies, runVars
  <1>7. ASSUME NEW m \in Messages, DeadLetter(m) PROVE Goal
    BY <1>7, <1>a DEF DeadLetter, queueVars, Places
  <1>8. ASSUME NEW m \in Messages, Duplicate(m) PROVE Goal
    <2>1. Post(about[m], received[m]) /\ UNCHANGED <<runVars, senderVars, lambdaVars>>
      BY <1>8 DEF Duplicate
    <2>2. Same
      BY <2>1 DEF runVars
    <2> QED
      BY <1>a, <2>1, <2>2, PostType
  <1>9. ASSUME NEW w \in Workers, Receive(w) PROVE Goal
    <2>1. PICK B \in SUBSET {m \in Messages : place[m] = "visible" /\ received[m] < MaxReceive} :
             /\ place' = [m \in Messages |-> IF m \in B THEN "taken" ELSE place[m]]
             /\ received' = [m \in Messages |-> IF m \in B THEN received[m] + 1 ELSE received[m]]
             /\ todo' = [todo EXCEPT ![w] = B]
      BY <1>9 DEF Receive
    <2>2. UNCHANGED <<queueVars, about, senderVars, current, handled, failures>>
      BY <1>9 DEF Receive
    <2>3. received' \in [Messages -> 0..MaxReceive]
      BY <2>1, SqsAssumption
    <2>4. Same
      BY <2>2 DEF queueVars
    <2> QED
      BY <1>a, <2>1, <2>2, <2>3, <2>4 DEF Places
  <1>10. ASSUME NEW w \in Workers, NEW m \in Messages, ClaimRaises(w, m) PROVE Goal
    BY <1>10, <1>a DEF ClaimRaises, Through, runVars
  <1>11. ASSUME NEW w \in Workers, NEW t \in Tasks, ReportLost(w, t) PROVE Goal
    <2>1. pc[w][t] # "idle" /\ EndRun(w, t) /\ RunOver(w, TRUE)
      BY <1>11 DEF ReportLost, LoseReport
    <2> HIDE DEF SqsInv, DeliveryType, LambdaType
    <2> QED
      BY <2>1, RunOverTypes
  <1>12. ASSUME NEW w \in Workers, InvocationDies(w) PROVE Goal
    <2>1. /\ pc' = [pc EXCEPT ![w] = [t \in Tasks |-> "idle"]]
          /\ current' = [current EXCEPT ![w] = NoMessage]
      BY <1>12 DEF InvocationDies, Crash
    <2>2. OneRunEach'
      BY <2>1 DEF OneRunEach, TypeOK
    <2>3. place' \in [Messages -> Places]
      BY <1>12 DEF InvocationDies, Places
    <2> QED
      BY <1>12, <2>2, <2>3 DEF InvocationDies
  <1>13. ASSUME NEW w \in Workers, InstanceStarts(w) PROVE Goal
    BY <1>13, <1>a DEF InstanceStarts, Restart, runVars
  <1>14. ASSUME NEW t \in Tasks, LeaseLapses(t) \/ LeaseOverrun(t) PROVE Goal
    BY <1>14, <1>a DEF LeaseLapses, LeaseOverrun, Lapse, Overrun
  <1>15. CASE UNCHANGED sqsVars
    BY <1>15, <1>a DEF sqsVars, queueVars
  <1> QED
    BY <1>1, <1>2, <1>3, <1>4, <1>5, <1>6, <1>7, <1>8, <1>9, <1>10, <1>11, <1>12, <1>13,
       <1>14, <1>15, HandlerTypes
    DEF SqsNext

\* However messages are delivered, duplicated and sent again, none is received
\* more than max_receive_count times, and the handler never reports a message
\* it has not received or ends a run without one.
THEOREM SqsTypeCorrect == SqsSpec => []SqsTypeOK
  <1>1. SqsInv /\ [SqsNext]_sqsVars => SqsInv'
    BY DeliveryTypes, SqsFenceStep DEF SqsInv
  <1>2. SqsInv => SqsTypeOK
    BY DEF SqsInv, DeliveryType, LambdaType, SqsTypeOK
  <1> QED
    BY <1>1, <1>2, SqsInvInit, PTL DEF SqsSpec

-----------------------------------------------------------------------------
(* One Lambda instance. *)

\* claim_by_id takes a job whoever runs it, but the only instance there is runs
\* none when it claims.
LEMMA SoleClaimById ==
    ASSUME \A v, w \in Workers : v = w, SqsInv, NEW w \in Workers, NEW m \in Messages,
           ClaimById(w, m)
    PROVE  /\ about[m] \in Tasks /\ Take(w, {about[m]})
           /\ state[about[m]] \in {"pending"} \cup InFlight
           /\ \A t \in Tasks : pc[w][t] = "idle" /\ ~Running(t)
  BY DEF ClaimById, Unfinished, SqsInv, DeliveryType, OneRunEach, Running

LEMMA SoleSqsStep ==
    ASSUME \A v, w \in Workers : v = w, SqsInv, Exclusive, [SqsNext]_sqsVars
    PROVE  Exclusive' /\ [Ledger!LedgerNext]_(Ledger!ledgerVars)
  <1>1. CASE [QueueNext]_queueVars
    BY <1>1, ExclusiveStep, LedgerStep DEF SqsInv, LeasesSuffice
  <1>2. ASSUME NEW w \in Workers, NEW m \in Messages, ClaimById(w, m)
        PROVE  Exclusive' /\ Ledger!LedgerNext
    <2>1. /\ {about[m]} \in SUBSET Tasks /\ Take(w, {about[m]})
          /\ \A t \in {about[m]} : state[t] \in {"pending"} \cup InFlight /\ ~Running(t)
          /\ \A t \in Tasks : pc[w][t] = "idle"
      BY <1>2, SoleClaimById
    <2>2. Ledger!Start({about[m]})
      BY <2>1, TakeStarts DEF SqsInv
    <2>3. Exclusive'
      BY <2>1, TakeExclusive DEF SqsInv
    <2> QED
      BY <2>1, <2>2, <2>3 DEF Ledger!LedgerNext
  <1>3. CASE Fault /\ UNCHANGED <<rowVars, runVars, up>>
    <2>1. UNCHANGED <<state, attempts, lease, pc, snap>>
      BY <1>3 DEF rowVars, runVars
    <2>2. UNCHANGED Ledger!ledgerVars
      BY <2>1, LedgerStutter DEF Running
    <2>3. Exclusive'
      BY <2>1 DEF Exclusive, RunsOwnTheirRows, NoDoubleProcess
    <2> QED
      BY <2>2, <2>3
  <1> QED
    BY <1>1, <1>2, <1>3, SqsQueueStep

\* With one Lambda instance the job table implements the ledger, however many
\* messages are lost, duplicated, sent again or given up, and however long a
\* run takes.
THEOREM SoleLambdaImplementsLedger ==
    ASSUME \A v, w \in Workers : v = w
    PROVE  SqsSpec => ImplementsLedger
  <1>1. SqsInit => SqsInv /\ Exclusive /\ Ledger!LedgerInit
    BY SqsInvInit, ExclusiveInit, LedgerInitialised DEF SqsInit
  <1>2. SqsInv /\ Exclusive /\ [SqsNext]_sqsVars => (SqsInv /\ Exclusive)'
    BY DeliveryTypes, SqsFenceStep, SoleSqsStep DEF SqsInv
  <1>3. SqsInv /\ Exclusive /\ [SqsNext]_sqsVars => [Ledger!LedgerNext]_(Ledger!ledgerVars)
    BY SoleSqsStep
  <1> QED
    BY <1>1, <1>2, <1>3, PTL DEF SqsSpec, ImplementsLedger, Ledger!LedgerSpec

=============================================================================
