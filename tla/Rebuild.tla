------------------------------- MODULE Rebuild -------------------------------
(***************************************************************************)
(* Changing the active embedding model: the admin endpoints                *)
(* (api/routes_admin.py) enqueue a rebuild job, whose body                 *)
(* (ingest/pipeline.py: run_rebuild_job) embeds every live chunk that has  *)
(* no row in the table of the new model, sweeps once more for chunks that  *)
(* came meanwhile and then points the configuration at the new model.  It  *)
(* runs beside the uploads, removals and ingest jobs of IngestPipeline, in *)
(* the same job table.                                                     *)
(***************************************************************************)
EXTENDS IngestPipeline

CONSTANTS
    Addresses,   \* the address_ids
    AddressOf,   \* AddressOf[s]: the address of slot s
    Everywhere,  \* the address "*" of a global rebuild
    Apart,       \* TRUE: callers do not upload during a model change, nor change
                 \* the model while an upload is under way
    OneAdmin     \* TRUE: administrators ask for model changes one at a time

ASSUME RebuildAssumption ==
    /\ AddressOf \in [Slots -> Addresses]
    /\ Everywhere \notin Addresses
    /\ Apart \in BOOLEAN
    /\ OneAdmin \in BOOLEAN

VARIABLE
    scope        \* scope[t]: the address_id column of rebuild job t

rebuildVars == <<pipelineVars, scope>>

Scopes       == Addresses \cup {Everywhere}
RebuildSteps == {"missing", "sweep", "switched"}

RebuildInit == PipelineInit /\ scope = [t \in Tasks |-> Everywhere]

-----------------------------------------------------------------------------
(* set_active_model and rebuild *)

\* Mutant of RebuildOpen: a rebuild that waits for a worker is overlooked.
RebuildOpenInFlight == \E t \in Tasks : jobType[t] = "rebuild" /\ state[t] \in InFlight

\* _check_no_active_rebuild
RebuildOpen ==
    \E t \in Tasks : jobType[t] = "rebuild" /\ state[t] \in {"pending"} \cup InFlight

\* Somebody is uploading, or an ingest job is not finished yet.
Ingesting ==
    \/ \E s \in Slots : InUpload(s) # {}
    \/ \E t \in Tasks : jobType[t] = "ingest" /\ state[t] \in {"pending"} \cup InFlight

\* A model change is being asked for or under way.
Changing == RebuildOpen \/ \E t \in Tasks : At(t, "checked")

\* The check; a request that meets an open rebuild ends in a 409.  The model
\* is any valid one, the scope one address or all.
AdminCheck(t, m, a) ==
    /\ At(t, "none")
    /\ Apart => ~Ingesting
    /\ OneAdmin => ~\E u \in Tasks : At(u, "checked")
    /\ ~RebuildOpen
    /\ Goto(t, "checked")
    /\ model' = [model EXCEPT ![t] = m]
    /\ scope' = [scope EXCEPT ![t] = a]
    /\ UNCHANGED <<queueVars, storeVars, docOf, ver, body, counterVars, dropping>>

\* _enqueue_rebuild, in a transaction of its own.
AdminEnqueue(t) ==
    /\ At(t, "checked")
    /\ Enqueue(t, "rebuild")
    /\ Goto(t, "over")
    /\ UNCHANGED <<storeVars, columnVars, body, counterVars, dropping, scope>>

-----------------------------------------------------------------------------
(* run_rebuild_job *)

\* chunk.address_id: the address_id of the job that inserted the row.
ChunkAddress(c) == AddressOf[req[c.by[1]].slot]

InScope(t, c) == scope[t] \in {Everywhere, ChunkAddress(c)}

\* The live chunks in scope without a row in the table of the job's model.
Missing(t) ==
    {c \in chunks : /\ c \in LiveChunks(c.doc)
                    /\ InScope(t, c)
                    /\ c \notin embedded[model[t]]}

\* The state is set again, to the one claim gave it.
StartRebuild(w, t) ==
    /\ jobType[t] = "rebuild"
    /\ pc[w][t] = "claimed"
    /\ SetState(w, t)
    /\ UNCHANGED <<storeVars, requestVars, body, counterVars, dropping, scope>>

ReadMissing(w, t) ==
    /\ jobType[t] = "rebuild"
    /\ pc[w][t] = "embedding" /\ Is(w, t, "start")
    /\ Step(w, t, "missing", Missing(t))
    /\ chunkCount' = [chunkCount EXCEPT ![t] = Cardinality(Missing(t))]
    /\ UNCHANGED <<queueVars, storeVars, requestVars, embedCount, dropping, scope>>

\* The rows come in no order, and go in batch by batch; one whose chunk is
\* gone breaks the foreign key and with it the run.
Backfill(w, t) ==
    /\ Is(w, t, "missing") \/ Is(w, t, "sweep")
    /\ \E batch \in SUBSET body[w][t].rows :
          /\ batch # {}
          /\ Cardinality(batch) <= EmbedBatch
          /\ batch # body[w][t].rows => Cardinality(batch) = EmbedBatch
          /\ EmbedChunks(model[t], batch)
          /\ Step(w, t, body[w][t].at, body[w][t].rows \ batch)
          /\ embedCount' = [embedCount EXCEPT ![t] = @ + Cardinality(batch)]
    /\ UNCHANGED <<queueVars, requestVars, chunkCount, dropping, scope>>

\* The completeness sweep reads the missing chunks once more.
Sweep(w, t) ==
    /\ Is(w, t, "missing") /\ body[w][t].rows = {}
    /\ Step(w, t, "sweep", Missing(t))
    /\ UNCHANGED <<queueVars, storeVars, requestVars, counterVars, dropping, scope>>

\* Mutant of SwitchModel: the model is switched before the backfill is through.
SwitchModelEarly(w, t) ==
    /\ Is(w, t, "missing") \/ Is(w, t, "sweep")
    /\ scope[t] = Everywhere
    /\ SetActive(model[t])
    /\ Step(w, t, "switched", {})
    /\ UNCHANGED <<queueVars, requestVars, counterVars, dropping, scope>>

\* Only a global rebuild switches the active model.
SwitchModel(w, t) ==
    /\ Is(w, t, "sweep") /\ body[w][t].rows = {}
    /\ scope[t] = Everywhere
    /\ SetActive(model[t])
    /\ Step(w, t, "switched", {})
    /\ UNCHANGED <<queueVars, requestVars, counterVars, dropping, scope>>

FinishRebuild(w, t) ==
    /\ \/ Is(w, t, "switched")
       \/ Is(w, t, "sweep") /\ body[w][t].rows = {} /\ scope[t] # Everywhere
    /\ MarkDone(w, t)
    /\ EndBody(w, t)
    /\ UNCHANGED <<storeVars, requestVars, counterVars, dropping, scope>>

-----------------------------------------------------------------------------

RebuildStep(w, t) ==
    \/ StartRebuild(w, t)
    \/ ReadMissing(w, t)
    \/ Backfill(w, t)
    \/ Sweep(w, t)
    \/ SwitchModel(w, t)
    \/ FinishRebuild(w, t)

\* Everything else, failures of a rebuild run included, is as in
\* IngestPipeline; callers that keep apart start no upload meanwhile.
IngestStep ==
    /\ PipelineNext
    /\ Apart /\ Changing => \A t \in Tasks : At(t, "none") => req'[t] = req[t]
    /\ UNCHANGED scope

RebuildNext ==
    \/ IngestStep
    \/ \E t \in Tasks, m \in Models, a \in Scopes : AdminCheck(t, m, a)
    \/ \E t \in Tasks : AdminEnqueue(t)
    \/ \E w \in Workers, t \in Tasks : RebuildStep(w, t)

RebuildSpec == RebuildInit /\ [][RebuildNext]_rebuildVars

-----------------------------------------------------------------------------
(* Properties. *)

RebuildTypeOK ==
    /\ TypeOK
    /\ active \in Models
    /\ embedded \in [Models -> SUBSET chunks]
    /\ model \in [Tasks -> Models]
    /\ scope \in [Tasks -> Scopes]
    /\ \A t \in Tasks : req[t].phase \in Phases \cup {"checked"}
    /\ \A w \in Workers, t \in Tasks : body[w][t].at \in Steps \cup RebuildSteps

\* "Only when count(active-model embeddings) == count(chunks in scope) does
\* the active-model config flip" (PLAN-RAG.md:381): when the active model
\* changes, every live chunk can be found with the new one.
SwitchCoversAll ==
    [][active' # active =>
          \A d \in documents : LiveChunks(d) \subseteq embedded[active']]_rebuildVars

\* The model is switched by a global rebuild for it that is still under way,
\* never by one that a later rebuild has superseded: a crashed one that is run
\* again does not undo a later change.  It takes administrators that ask one at
\* a time: a "second concurrent rebuild returns 409" (RAG-REMEDIATION-PLAN.md:135)
\* only once the first has been enqueued.
SwitchedByNewest ==
    [][active' # active =>
          \E t \in Tasks :
             /\ jobType[t] = "rebuild" /\ scope[t] = Everywhere
             /\ model[t] = active'
             /\ state[t] \in InFlight
             /\ \A u \in Tasks : jobType[u] = "rebuild" => t \notin older[u]]_rebuildVars

=============================================================================
