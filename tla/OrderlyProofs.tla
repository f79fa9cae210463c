---------------------------- MODULE OrderlyProofs ----------------------------
(***************************************************************************)
(* What holds when callers take turns: an upload of a slot waits for the   *)
(* job of the last one, and models are changed while nobody uploads.  Then *)
(* one run at a time works on a document, so that what it has read stays   *)
(* true until it is used, and the properties of readers follow: a flip     *)
(* publishes a whole version, a model is switched when everything can be   *)
(* found with the new one, and what is served in the end is the latest     *)
(* upload.                                                                 *)
(*                                                                         *)
(* The steps of the system are first summed up by what they leave alone:   *)
(* a request, a run, a removal and the clock each touch little, and the    *)
(* invariants need to know no more than that of the steps of others.       *)
(***************************************************************************)
EXTENDS RebuildProofs

OpenStates == {"pending"} \cup InFlight

-----------------------------------------------------------------------------
(* The steps of a request: an upload or a model change is asked for. *)

Asking(t) ==
    \/ UploadStep(t)
    \/ UploadFault(t)
    \/ \E s \in Slots, c \in Uploads : UploadRead(t, s, c)
    \/ \E m \in Models, a \in Scopes : AdminCheck(t, m, a)
    \/ AdminEnqueue(t)

\* They leave the runs and the rows of all other requests alone.
AskFrame(t) ==
    /\ UNCHANGED <<chunks, embedded, active, body, pc, snap, attempts, lease,
                   chunkCount, embedCount, dropping>>
    /\ \A u \in Tasks \ {t} :
          /\ req'[u] = req[u]
          /\ docOf'[u] = docOf[u] /\ ver'[u] = ver[u] /\ model'[u] = model[u]
          /\ state'[u] = state[u] /\ jobType'[u] = jobType[u] /\ older'[u] = older[u]
          /\ scope'[u] = scope[u]

SameRow(t)     == state'[t] = state[t] /\ jobType'[t] = jobType[t] /\ older'[t] = older[t]
SameColumns(t) == docOf'[t] = docOf[t] /\ ver'[t] = ver[t] /\ model'[t] = model[t]
SameSlot(t)    == req'[t].slot = req[t].slot /\ req'[t].content = req[t].content
SameDocs       == UNCHANGED <<documents, slot, live, hash>>

Moves(t, p, q) == req[t].phase \in p /\ req'[t].phase \in q

Begins(t) ==
    /\ Moves(t, {"none"}, {"storing", "skipping"})
    /\ req'[t].slot \in Slots /\ MayStart(req'[t].slot) /\ ~(Apart /\ Changing)
    /\ IF req'[t].phase = "skipping"
       THEN req'[t].found \in documents /\ slot[req'[t].found] = req'[t].slot
       ELSE req'[t].found = NoDoc
    /\ model'[t] = active /\ docOf'[t] = docOf[t] /\ ver'[t] = ver[t]
    /\ SameRow(t) /\ SameDocs /\ UNCHANGED blob

Stores(t, bytes) == blob' = [blob EXCEPT ![KeyOf[req[t].slot]] = bytes]

Puts(t) ==
    /\ \/ Moves(t, {"storing"}, {"stored"}) /\ Stores(t, req[t].content)
       \/ Moves(t, {"storing"}, {"writing"}) /\ Stores(t, Torn) /\ LocalFiles
       \/ /\ Moves(t, {"writing"}, {"stored"})
          /\ \E bytes \in AfterWrite(blob[KeyOf[req[t].slot]], req[t].content) : Stores(t, bytes)
    /\ req'[t].found = req[t].found
    /\ SameSlot(t) /\ SameRow(t) /\ SameColumns(t) /\ SameDocs

Looks(t) ==
    /\ Moves(t, {"stored"}, {"upserting"})
    /\ \/ DocumentsAt(req[t].slot) = {} /\ req'[t].found = NoDoc /\ req'[t].live = 0
       \/ req'[t].found \in DocumentsAt(req[t].slot) /\ req'[t].live = live[req'[t].found]
    /\ SameSlot(t) /\ SameRow(t) /\ SameColumns(t) /\ SameDocs /\ UNCHANGED blob

Creates(t) ==
    /\ Moves(t, {"upserting"}, {"enqueueing"})
    /\ req[t].found = NoDoc /\ docOf'[t] = t
    /\ DocumentsAt(req[t].slot) = {}
    /\ documents' = documents \cup {t}
    /\ slot'[t] = req[t].slot /\ hash'[t] = req[t].content /\ live'[t] = 0
    /\ \A d \in Docs \ {t} : slot'[d] = slot[d] /\ hash'[d] = hash[d] /\ live'[d] = live[d]

Updates(t) ==
    /\ Moves(t, {"upserting"}, {"enqueueing"})
    /\ req[t].found \in Docs /\ docOf'[t] = req[t].found
    /\ UNCHANGED <<documents, slot, live>>
    /\ \A d \in Docs : hash'[d] = IF d = req[t].found /\ d \in documents
                                  THEN req[t].content ELSE hash[d]

Upserts(t) ==
    /\ Creates(t) \/ Updates(t)
    /\ ver'[t] = NextVersion(req[t].live) /\ model'[t] = model[t] /\ req'[t].found = req[t].found
    /\ SameSlot(t) /\ SameRow(t) /\ UNCHANGED blob

Submits(t) ==
    /\ \/ Moves(t, {"enqueueing"}, {"over"}) /\ jobType'[t] = "ingest" /\ docOf[t] \in documents
       \/ Moves(t, {"checked"}, {"over"}) /\ jobType'[t] = "rebuild"
    /\ state[t] = "absent" /\ state'[t] = "pending"
    /\ older'[t] = {u \in Tasks : state[u] # "absent"}
    /\ req'[t].found = req[t].found
    /\ SameSlot(t) /\ SameColumns(t) /\ SameDocs /\ UNCHANGED blob

Skips(t) ==
    /\ Moves(t, {"skipping"}, {"over"})
    /\ req[t].found \in documents /\ docOf'[t] = req[t].found /\ model'[t] = model[t]
    /\ state[t] = "absent" /\ state'[t] = "skipped" /\ jobType'[t] = "ingest"
    /\ older'[t] = {u \in Tasks : state[u] # "absent"}
    /\ req'[t].found = req[t].found
    /\ SameSlot(t) /\ SameDocs /\ UNCHANGED blob

GivesUp(t) ==
    /\ \/ ApiFaults /\ Moves(t, Uploading \cup {"enqueueing", "checked"}, {"lost"})
       \/ Moves(t, {"skipping", "upserting"}, {"over"})
       \/ Moves(t, {"enqueueing"}, {"over"}) /\ docOf[t] \notin documents
    /\ req'[t].found = req[t].found
    /\ SameSlot(t) /\ SameRow(t) /\ SameColumns(t) /\ SameDocs /\ UNCHANGED blob

Checks(t) ==
    /\ Moves(t, {"none"}, {"checked"})
    /\ ~RebuildOpen
    /\ Apart => ~Ingesting
    /\ OneAdmin => \A u \in Tasks : req[u].phase # "checked"
    /\ docOf'[t] = docOf[t] /\ ver'[t] = ver[t] /\ req'[t].found = req[t].found
    /\ SameSlot(t) /\ SameRow(t) /\ SameDocs /\ UNCHANGED blob

AskStep(t) ==
    \/ Begins(t) \/ Puts(t) \/ Looks(t) \/ Upserts(t)
    \/ Submits(t) \/ Skips(t) \/ GivesUp(t) \/ Checks(t)

Goes(t, phase) ==
    /\ req'[t].phase = phase /\ req'[t].found = req[t].found /\ SameSlot(t)
    /\ \A u \in Tasks \ {t} : req'[u] = req[u]

LEMMA GotoMoves ==
    ASSUME RebuildTypes, NEW t \in Tasks, NEW phase, Goto(t, phase)
    PROVE  Goes(t, phase)
  BY DEF RebuildTypes, PipelineTypes, Goto, RequestType, SameSlot, Goes

\* A job row is inserted.
Inserts(t, type, s) ==
    /\ UNCHANGED <<attempts, lease, pc, snap>>
    /\ state[t] = "absent" /\ state'[t] = s /\ jobType'[t] = type
    /\ older'[t] = {u \in Tasks : state[u] # "absent"}
    /\ \A u \in Tasks \ {t} :
          state'[u] = state[u] /\ jobType'[u] = jobType[u] /\ older'[u] = older[u]

LEMMA InsertMoves ==
    ASSUME RebuildTypes, NEW t \in Tasks, NEW type, NEW s, Insert(t, type, s)
    PROVE  Inserts(t, type, s)
  BY DEF RebuildTypes, PipelineTypes, Insert, TypeOK, Inserts

\* The scope column is written with the request that names it.
LEMMA ScopeStays ==
    ASSUME RebuildTypes, [RebuildNext]_rebuildVars, NEW u \in Tasks, req'[u] = req[u]
    PROVE  scope'[u] = scope[u]
  <1>1. ASSUME NEW t \in Tasks, NEW m, NEW a, AdminCheck(t, m, a)
        PROVE  scope'[u] = scope[u]
    <2>1. t # u
      BY <1>1 DEF AdminCheck, Goto, At, RebuildTypes, PipelineTypes, RequestType
    <2> QED
      BY <1>1, <2>1 DEF AdminCheck, RebuildTypes
  <1>2. ASSUME NEW t \in Tasks, AdminEnqueue(t) PROVE UNCHANGED scope
    BY <1>2 DEF AdminEnqueue
  <1>3. ASSUME NEW w \in Workers, NEW t \in Tasks, RebuildStep(w, t) PROVE UNCHANGED scope
    BY <1>3 DEF RebuildStep, StartRebuild, ReadMissing, Backfill, Sweep, SwitchModel, FinishRebuild
  <1> QED
    BY <1>1, <1>2, <1>3 DEF RebuildNext, IngestStep, rebuildVars

LEMMA AskStepFrame ==
    ASSUME RebuildTypes, [RebuildNext]_rebuildVars, NEW t \in Tasks, Asking(t)
    PROVE  AskFrame(t) /\ AskStep(t)
  <1> USE DEF RebuildTypes, PipelineTypes
  <1>1. ASSUME NEW s \in Slots, NEW c \in Uploads, UploadRead(t, s, c)
        PROVE  AskFrame(t) /\ Begins(t)
    <2>1. UNCHANGED <<queueVars, storeVars, docOf, ver, body, counterVars, dropping>>
          /\ model' = [model EXCEPT ![t] = active] /\ req[t].phase = "none" /\ MayStart(s)
      BY <1>1 DEF UploadRead, At
    <2>2. /\ req'[t].slot = s /\ \A u \in Tasks \ {t} : req'[u] = req[u]
          /\ \/ req'[t].phase = "storing" /\ req'[t].found = NoDoc
             \/ /\ req'[t].phase = "skipping"
                /\ req'[t].found \in documents /\ slot[req'[t].found] = s
      <3>1. CASE req' = [req EXCEPT ![t] = [phase |-> "storing", slot |-> s, content |-> c,
                                            found |-> NoDoc, live |-> 0]]
        BY <3>1 DEF RequestType
      <3>2. CASE \E d \in DocumentsAt(s) :
                    req' = [req EXCEPT ![t] = [phase |-> "skipping", slot |-> s, content |-> c,
                                               found |-> d, live |-> live[d]]]
        BY <3>2 DEF DocumentsAt, RequestType
      <3> QED
        BY <1>1, <3>1, <3>2 DEF UploadRead
    <2>4. /\ model'[t] = active /\ \A u \in Tasks \ {t} : model'[u] = model[u]
      BY <2>1 DEF RequestType
    <2>5. UNCHANGED scope /\ ~(Apart /\ Changing)
      <3>1. req'[t].phase # "none"
        BY <2>2
      <3>2. ~ModelChange
        <4>1. ASSUME NEW u \in Tasks, NEW m, NEW a, AdminCheck(u, m, a) PROVE FALSE
          <5>1. req' = [req EXCEPT ![u].phase = "checked"]
            BY <4>1 DEF AdminCheck, Goto
          <5> QED
            BY <2>1, <2>2, <5>1 DEF RequestType
        <4>2. ASSUME NEW u \in Tasks, AdminEnqueue(u) PROVE FALSE
          BY <2>1, <2>2, <4>2 DEF AdminEnqueue, Goto, RequestType, At
        <4>3. ASSUME NEW w \in Workers, NEW u \in Tasks, RebuildStep(w, u) PROVE FALSE
          BY <2>1, <2>2, <4>3 DEF RebuildStep, StartRebuild, ReadMissing, Backfill, Sweep,
             SwitchModel, FinishRebuild, requestVars
        <4> QED
          BY <4>1, <4>2, <4>3 DEF ModelChange
      <3>3. req' # req
        BY <2>1, <3>1
      <3>4. IngestStep
        BY <3>2, <3>3 DEF RebuildNext, ModelChange, rebuildVars, pipelineVars, requestVars
      <3> QED
        BY <2>1, <3>1, <3>4 DEF IngestStep, At
    <2> QED
      BY <2>1, <2>2, <2>4, <2>5 DEF AskFrame, Begins, Moves, SameRow, SameDocs, queueVars,
         storeVars, counterVars
  <1>2. CASE UploadSkip(t)
    <2>1. Goto(t, "over") /\ At(t, "skipping")
          /\ UNCHANGED <<storeVars, model, body, counterVars, dropping>>
      BY <1>2 DEF UploadSkip
    <2>2. Goes(t, "over")
      BY <2>1, GotoMoves
    <2>3. CASE /\ req[t].found \in documents /\ RecordSkipped(t)
               /\ docOf' = [docOf EXCEPT ![t] = req[t].found]
               /\ ver' = [ver EXCEPT ![t] = req[t].live]
      <3>1. Inserts(t, "ingest", "skipped")
        BY <2>3, InsertMoves DEF RecordSkipped
      <3>2. docOf'[t] = req[t].found
            /\ \A u \in Tasks \ {t} : docOf'[u] = docOf[u] /\ ver'[u] = ver[u]
        BY <2>3 DEF RequestType
      <3> QED
        BY <2>1, <2>2, <2>3, <3>1, <3>2, ScopeStays
        DEF AskFrame, AskStep, Skips, Moves, At, Goes, Inserts, SameDocs, storeVars, counterVars
    <2>4. CASE UNCHANGED <<queueVars, docOf, ver>>
      BY <2>1, <2>2, <2>4, ScopeStays
      DEF AskFrame, AskStep, GivesUp, Moves, At, Goes, SameRow, SameColumns, SameDocs, queueVars,
          storeVars, counterVars
    <2> QED
      BY <1>2, <2>3, <2>4 DEF UploadSkip
  <1>3. CASE UploadPut(t) \/ UploadTruncate(t) \/ UploadWrite(t)
    <2>1. /\ UNCHANGED <<queueVars, documents, slot, hash, live, chunks, embedded, active,
                         columnVars, body, counterVars, dropping>>
          /\ \E phase \in {"writing", "stored"} : Goto(t, phase)
      BY <1>3, PutEffect
    <2>2. \E phase \in {"writing", "stored"} : Goes(t, phase)
      BY <2>1, GotoMoves
    <2>3. CASE UploadPut(t)
      <3>1. Goto(t, "stored") /\ At(t, "storing") /\ Stores(t, req[t].content)
        BY <2>3 DEF UploadPut, PutBytes, Stores
      <3> QED
        BY <2>1, <2>2, <3>1, GotoMoves, ScopeStays
        DEF AskFrame, AskStep, Puts, Moves, At, Goes, SameRow, SameColumns, SameDocs,
            queueVars, columnVars, counterVars
    <2>4. CASE UploadTruncate(t)
      <3>1. Goto(t, "writing") /\ At(t, "storing") /\ Stores(t, Torn) /\ LocalFiles
        BY <2>4 DEF UploadTruncate, TruncateBytes, Stores
      <3> QED
        BY <2>1, <2>2, <3>1, GotoMoves, ScopeStays
        DEF AskFrame, AskStep, Puts, Moves, At, Goes, SameRow, SameColumns, SameDocs,
            queueVars, columnVars, counterVars
    <2>5. CASE UploadWrite(t)
      <3>1. /\ Goto(t, "stored") /\ At(t, "writing")
            /\ \E bytes \in AfterWrite(blob[KeyOf[req[t].slot]], req[t].content) : Stores(t, bytes)
        BY <2>5 DEF UploadWrite, WriteBytes, Stores
      <3> QED
        BY <2>1, <2>2, <3>1, GotoMoves, ScopeStays
        DEF AskFrame, AskStep, Puts, Moves, At, Goes, SameRow, SameColumns, SameDocs,
            queueVars, columnVars, counterVars
    <2> QED
      BY <1>3, <2>3, <2>4, <2>5
  <1>4. CASE UploadLookup(t)
    <2>1. /\ At(t, "stored")
          /\ UNCHANGED <<queueVars, storeVars, columnVars, body, counterVars, dropping>>
      BY <1>4 DEF UploadLookup
    <2>2. /\ req'[t].phase = "upserting" /\ SameSlot(t)
          /\ \A u \in Tasks \ {t} : req'[u] = req[u]
          /\ \/ DocumentsAt(req[t].slot) = {} /\ req'[t].found = NoDoc /\ req'[t].live = 0
             \/ /\ req'[t].found \in DocumentsAt(req[t].slot)
                /\ req'[t].live = live[req'[t].found]
      <3>1. CASE /\ DocumentsAt(req[t].slot) = {}
                 /\ req' = [req EXCEPT ![t].phase = "upserting", ![t].found = NoDoc, ![t].live = 0]
        BY <3>1 DEF RequestType, SameSlot
      <3>2. CASE \E d \in DocumentsAt(req[t].slot) :
               req' = [req EXCEPT ![t].phase = "upserting", ![t].found = d, ![t].live = live[d]]
        BY <3>2 DEF RequestType, SameSlot
      <3> QED
        BY <1>4, <3>1, <3>2 DEF UploadLookup
    <2> QED
      BY <2>1, <2>2, ScopeStays
      DEF AskFrame, AskStep, Looks, Moves, At, SameRow, SameColumns, SameDocs,
          queueVars, storeVars, columnVars, counterVars
  <1>5. CASE UploadUpsert(t)
    <2>1. /\ Goto(t, "enqueueing") /\ At(t, "upserting")
          /\ docOf' = [docOf EXCEPT ![t] = IF req[t].found = NoDoc THEN t ELSE req[t].found]
          /\ ver' = [ver EXCEPT ![t] = NextVersion(req[t].live)]
          /\ UNCHANGED <<queueVars, model, body, counterVars, dropping>>
      BY <1>5 DEF UploadUpsert
    <2>2. Goes(t, "enqueueing")
      BY <2>1, GotoMoves
    <2>3. /\ docOf'[t] = IF req[t].found = NoDoc THEN t ELSE req[t].found
          /\ ver'[t] = NextVersion(req[t].live)
          /\ \A u \in Tasks \ {t} : docOf'[u] = docOf[u] /\ ver'[u] = ver[u]
      BY <2>1 DEF RequestType
    <2>4. (Creates(t) \/ Updates(t)) /\ UNCHANGED <<chunks, embedded, active, blob>>
      <3>1. CASE req[t].found = NoDoc
        <4>1. InsertDocument(t, req[t].slot, req[t].content) /\ t \in Docs
          BY <1>5, <3>1, PipelineAssumption DEF UploadUpsert
        <4>2. /\ slot'[t] = req[t].slot /\ hash'[t] = req[t].content /\ live'[t] = 0
              /\ \A d \in Docs \ {t} : slot'[d] = slot[d] /\ hash'[d] = hash[d] /\ live'[d] = live[d]
          BY <4>1 DEF InsertDocument, StoreType
        <4> QED
          BY <2>1, <2>2, <2>3, <3>1, <4>1, <4>2 DEF InsertDocument, Creates, Moves, At, Goes
      <3>2. CASE req[t].found # NoDoc
        <4>1. UpdateDocument(req[t].found, req[t].content) /\ req[t].found \in Docs
          BY <1>5, <3>2 DEF UploadUpsert, RequestType
        <4>2. \A d \in Docs : hash'[d] = IF d = req[t].found /\ d \in documents
                                         THEN req[t].content ELSE hash[d]
          BY <4>1 DEF UpdateDocument, StoreType
        <4> QED
          BY <2>1, <2>2, <2>3, <3>2, <4>1, <4>2 DEF UpdateDocument, Updates, Moves, At, Goes
      <3> QED
        BY <3>1, <3>2
    <2> QED
      BY <2>1, <2>2, <2>3, <2>4, ScopeStays
      DEF AskFrame, AskStep, Upserts, Goes, SameRow, queueVars, counterVars
  <1>6. CASE UploadEnqueue(t)
    <2>1. /\ Goto(t, "over") /\ At(t, "enqueueing") /\ docOf[t] \in documents
          /\ UNCHANGED <<storeVars, columnVars, body, counterVars, dropping>>
      BY <1>6 DEF UploadEnqueue
    <2>2. Goes(t, "over") /\ Inserts(t, "ingest", "pending")
      BY <1>6, <2>1, GotoMoves, InsertMoves DEF UploadEnqueue, Enqueue
    <2> QED
      BY <2>1, <2>2, ScopeStays
      DEF AskFrame, AskStep, Submits, Moves, At, Goes, Inserts, SameColumns, SameDocs,
          storeVars, columnVars, counterVars
  <1>7. CASE UploadRaises(t) \/ UploadFault(t)
    <2>1. UNCHANGED <<queueVars, storeVars, columnVars, body, counterVars, dropping>>
      BY <1>7 DEF UploadRaises, UploadFault
    <2>2. PICK phase \in {"over", "lost"} :
             /\ Goto(t, phase)
             /\ \/ phase = "over" /\ At(t, "upserting")
                \/ phase = "over" /\ At(t, "enqueueing") /\ docOf[t] \notin documents
                \/ phase = "lost" /\ ApiFaults /\ req[t].phase \notin {"none", "over", "lost"}
      BY <1>7 DEF UploadRaises, UploadFault, InUpload
    <2>3. Goes(t, phase)
      BY <2>2, GotoMoves
    <2>4. req[t].phase \in {"none", "over", "lost"} \cup Uploading \cup {"enqueueing", "checked"}
      BY DEF RequestType, RebuildPhases, Phases, Uploading
    <2> QED
      BY <2>1, <2>2, <2>3, <2>4, ScopeStays
      DEF AskFrame, AskStep, GivesUp, Moves, At, Goes, SameRow, SameColumns, SameDocs,
          queueVars, storeVars, columnVars, counterVars
  <1>8. ASSUME NEW m \in Models, NEW a \in Scopes, AdminCheck(t, m, a)
        PROVE  AskFrame(t) /\ Checks(t)
    <2>1. /\ Goto(t, "checked") /\ At(t, "none") /\ ~RebuildOpen
          /\ Apart => ~Ingesting
          /\ OneAdmin => \A u \in Tasks : req[u].phase # "checked"
          /\ model' = [model EXCEPT ![t] = m]
          /\ UNCHANGED <<queueVars, storeVars, docOf, ver, body, counterVars, dropping>>
      BY <1>8 DEF AdminCheck, At
    <2>2. Goes(t, "checked")
      BY <2>1, GotoMoves
    <2>3. \A u \in Tasks \ {t} : model'[u] = model[u]
      BY <2>1 DEF RequestType
    <2> QED
      BY <2>1, <2>2, <2>3, ScopeStays
      DEF AskFrame, Checks, Moves, At, Goes, SameRow, SameDocs, queueVars, storeVars, counterVars
  <1>9. CASE AdminEnqueue(t)
    <2>1. /\ Goto(t, "over") /\ At(t, "checked")
          /\ UNCHANGED <<storeVars, columnVars, body, counterVars, dropping>>
      BY <1>9 DEF AdminEnqueue
    <2>2. Goes(t, "over") /\ Inserts(t, "rebuild", "pending")
      BY <1>9, <2>1, GotoMoves, InsertMoves DEF AdminEnqueue, Enqueue
    <2> QED
      BY <2>1, <2>2, ScopeStays
      DEF AskFrame, AskStep, Submits, Moves, At, Goes, Inserts, SameColumns, SameDocs,
          storeVars, columnVars, counterVars
  <1> QED
    BY <1>1, <1>2, <1>3, <1>4, <1>5, <1>6, <1>7, <1>8, <1>9 DEF Asking, UploadStep, AskStep

-----------------------------------------------------------------------------
(* Removals, and the clock and the workers outside of runs. *)

SameScope == \A u \in Tasks : scope'[u] = scope[u]
SameRuns  == UNCHANGED <<body, pc, snap, attempts>>

Removes(d) ==
    /\ d \in documents /\ documents' = documents \ {d}
    /\ Overlap # "free" => InUpload(slot[d]) = {}
    /\ chunks' = {c \in chunks : c.doc # d}
    /\ \A m \in Models : embedded'[m] = embedded[m] \ {c \in chunks : c.doc = d}
    /\ \A t \in Tasks : state'[t] = IF t \in JobsOf(d) THEN "removed" ELSE state[t]
    /\ dropping' = dropping \cup {d}
    /\ UNCHANGED <<requestVars, counterVars, slot, hash, live, blob, active, jobType, older, lease>>
    /\ SameRuns /\ SameScope

Drops(d) ==
    /\ d \in dropping /\ dropping' = dropping \ {d}
    /\ \A s \in Slots : KeyOf[s] # KeyOf[slot[d]] => blob'[KeyOf[s]] = blob[KeyOf[s]]
    /\ UNCHANGED <<requestVars, counterVars, documents, slot, hash, live, chunks, embedded, active,
                   state, jobType, older, lease>>
    /\ SameRuns /\ SameScope

Removal(d) == Remove(d) \/ RemoveBytes(d) \/ RemoveBytesFails(d)

LEMMA RemovalFrame ==
    ASSUME RebuildTypes, [RebuildNext]_rebuildVars, NEW d \in Docs, Removal(d)
    PROVE  Removes(d) \/ Drops(d)
  <1> USE DEF RebuildTypes, PipelineTypes
  <1>1. SameScope
    BY ScopeStays DEF Removal, Remove, RemoveBytes, RemoveBytesFails, requestVars, SameScope
  <1>2. CASE Remove(d)
    <2>1. \A m \in Models : embedded'[m] = embedded[m] \ {c \in chunks : c.doc = d}
      BY <1>2 DEF Remove, DeleteDocument, EmbeddingsCascade
    <2>2. \A t \in Tasks : state'[t] = IF t \in JobsOf(d) THEN "removed" ELSE state[t]
      BY <1>2 DEF Remove, RemoveJobs
    <2> QED
      BY <1>1, <1>2, <2>1, <2>2 DEF Remove, DeleteDocument, RemoveJobs, Removes, SameRuns
  <1>3. CASE RemoveBytes(d)
    <2>1. \A s \in Slots : KeyOf[s] # KeyOf[slot[d]] => blob'[KeyOf[s]] = blob[KeyOf[s]]
      BY <1>3, StoreAssumption DEF RemoveBytes, DropBytes, StoreType
    <2> QED
      BY <1>1, <1>3, <2>1 DEF RemoveBytes, DropBytes, Drops, SameRuns, queueVars
  <1>4. CASE RemoveBytesFails(d)
    BY <1>1, <1>4 DEF RemoveBytesFails, Drops, SameRuns, queueVars, storeVars
  <1> QED
    BY <1>2, <1>3, <1>4 DEF Removal

Clock ==
    \/ \E t \in Tasks : LeaseLapses(t) \/ LeaseOverrun(t)
    \/ \E w \in Workers : ClaimBatch(w) \/ WorkerCrash(w) \/ WorkerRestart(w)
    \/ UNCHANGED rebuildVars

SameRun(w, t) ==
    body'[w][t] = body[w][t] /\ pc'[w][t] = pc[w][t] /\ snap'[w][t] = snap[w][t]

\* A run that no process works on any more.
Gone(w, t) == body'[w][t] = NoBody /\ pc'[w][t] = "idle"

Ticks ==
    /\ \A t \in Tasks : \/ state'[t] = state[t]
                        \/ state[t] \in OpenStates /\ state'[t] \in InFlight
    /\ \A w \in Workers, t \in Tasks :
          \/ SameRun(w, t)
          \/ Gone(w, t) /\ (MaxFaults > 0 \/ body[w][t].at = "start")
          \/ /\ body'[w][t] = body[w][t] /\ body[w][t].at = "start"
             /\ pc'[w][t] \in {"idle", "claimed"}
             /\ pc'[w][t] = "claimed" => state[t] \in OpenStates /\ attempts'[t] = attempts[t] + 1
    /\ \A t \in Tasks : attempts'[t] = attempts[t] \/ attempts'[t] = attempts[t] + 1
    /\ UNCHANGED <<storeVars, requestVars, counterVars, dropping, jobType, older>>
    /\ SameScope

LEMMA ClockFrame ==
    ASSUME RebuildTypes, [RebuildNext]_rebuildVars, Clock
    PROVE  Ticks
  <1> USE DEF RebuildTypes, PipelineTypes
  <1>1. UNCHANGED <<storeVars, requestVars, counterVars, dropping, jobType, older>>
    BY DEF Clock, LeaseLapses, LeaseOverrun, ClaimBatch, WorkerCrash, WorkerRestart, Lapse, Overrun,
       Claim, Crash, Restart, rowVars, rebuildVars, pipelineVars, queueVars
  <1>2. SameScope
    BY <1>1, ScopeStays DEF SameScope, requestVars
  <1>3. CASE UNCHANGED <<state, body, pc, snap, attempts>>
    BY <1>1, <1>2, <1>3 DEF Ticks, SameRun
  <1>4. ASSUME NEW t \in Tasks, LeaseLapses(t) \/ LeaseOverrun(t)
        PROVE  UNCHANGED <<state, body, pc, snap, attempts>>
    BY <1>4 DEF LeaseLapses, LeaseOverrun, Lapse, Overrun
  <1>5. ASSUME NEW w \in Workers, WorkerRestart(w)
        PROVE  UNCHANGED <<state, body, pc, snap, attempts>>
    BY <1>5 DEF WorkerRestart, Restart, rowVars, runVars
  <1>6. ASSUME NEW w \in Workers, WorkerCrash(w) PROVE Ticks
    <2>1. /\ UNCHANGED <<state, attempts>> /\ MaxFaults > 0
          /\ body' = [body EXCEPT ![w] = [t \in Tasks |-> NoBody]]
          /\ pc' = [pc EXCEPT ![w] = [t \in Tasks |-> "idle"]]
          /\ snap' = [snap EXCEPT ![w] = [t \in Tasks |-> 0]]
      BY <1>6, QueueAssumption DEF WorkerCrash, Crash, Fault, rowVars, TypeOK
    <2>2. \A t \in Tasks : Gone(w, t)
      BY <2>1 DEF Gone, BodyType, TypeOK
    <2>3. \A v \in Workers \ {w}, t \in Tasks : SameRun(v, t)
      BY <2>1 DEF SameRun, BodyType, TypeOK
    <2> QED
      BY <1>1, <1>2, <2>1, <2>2, <2>3 DEF Ticks
  <1>7. ASSUME NEW w \in Workers, ClaimBatch(w) PROVE Ticks
    <2>1. /\ UNCHANGED body /\ BatchEnded(w)
          /\ \E B \in SUBSET Tasks : /\ \A t \in B : Claimable(t)
                                     /\ Take(w, B)
      BY <1>7 DEF ClaimBatch, Claim, OldestFirst
    <2>2. PICK B \in SUBSET Tasks : (\A t \in B : Claimable(t)) /\ Take(w, B)
      BY <2>1
    <2>3. \A t \in Tasks : body[w][t].at = "start"
      BY <2>1 DEF BatchEnded, BodyType, InFlight
    <2>4. \A v \in Workers \ {w}, t \in Tasks : SameRun(v, t)
      BY <2>1, <2>2 DEF Take, SameRun, TypeOK
    <2>5. \A t \in Tasks : state'[t] = IF t \in B THEN FirstState(t) ELSE state[t]
      BY <2>2 DEF Take
    <2>6. \A t \in B : state[t] \in OpenStates /\ FirstState(t) \in InFlight
      BY <2>2 DEF Claimable, OpenStates, FirstState, InFlight
    <2>7. \A t \in Tasks : pc'[w][t] = IF t \in B THEN "claimed" ELSE "idle"
      BY <2>2 DEF Take, TypeOK
    <2>8. \A t \in Tasks : attempts'[t] = IF t \in B THEN attempts[t] + 1 ELSE attempts[t]
      BY <2>2 DEF Take, NextAttempt
    <2> QED
      BY <1>1, <1>2, <2>1, <2>3, <2>4, <2>5, <2>6, <2>7, <2>8 DEF Ticks
  <1> QED
    BY <1>3, <1>4, <1>5, <1>6, <1>7 DEF Clock, rebuildVars, pipelineVars, queueVars

-----------------------------------------------------------------------------
(* The steps of a run: all of them are about one task and its document. *)

SameStore == UNCHANGED <<live, chunks, embedded, active>>
SameCounts(t) == chunkCount'[t] = chunkCount[t] /\ embedCount'[t] = embedCount[t]

RunFrame(w, t) ==
    /\ pc[w][t] # "idle"
    /\ UNCHANGED <<requestVars, documents, slot, hash, blob, dropping, jobType, older, attempts>>
    /\ SameScope
    /\ \A v \in Workers, u \in Tasks : v # w \/ u # t => SameRun(v, u)
    /\ \A u \in Tasks \ {t} : state'[u] = state[u] /\ SameCounts(u)

\* A step inside the run: at, content and rows are the locals afterwards.
Inside(w, t, at, content, rows) ==
    /\ body'[w][t].at = at /\ body'[w][t].content = content /\ body'[w][t].rows = rows
    /\ pc'[w][t] = pc[w][t] /\ snap'[w][t] = snap[w][t] /\ state'[t] = state[t]

Proceeds(w, t) ==
    /\ body'[w][t] = body[w][t] /\ body[w][t].at \in {"start", "loaded", "chunked"}
    /\ pc'[w][t] \in InFlight /\ snap'[w][t] = snap[w][t]
    /\ body[w][t].at = "loaded" => pc'[w][t] = "chunking"
    /\ state'[t] = state[t] \/ (state[t] # "removed" /\ state'[t] \in InFlight)
    /\ chunkCount'[t] = IF body[w][t].at = "chunked" THEN ChunkCount[body[w][t].content]
                        ELSE chunkCount[t]
    /\ embedCount'[t] = embedCount[t] /\ SameStore

Loads(w, t) ==
    LET bytes == blob[KeyOf[slot[docOf[t]]]] IN
    /\ body[w][t].at = "start" /\ docOf[t] \in Docs /\ bytes # NoContent
    /\ pc[w][t] = "extracting"
    /\ Inside(w, t, "loaded", bytes, body[w][t].rows)
    /\ SameCounts(t) /\ SameStore

Marks(w, t) ==
    /\ body[w][t].at = "loaded"
    /\ Inside(w, t, "deleting", body[w][t].content, MyRows(t))
    /\ SameCounts(t) /\ SameStore

NewRows(w, t) == NewChunks(docOf[t], ver[t], body[w][t].content, <<t, snap[w][t]>>)

Writes(w, t) ==
    /\ body[w][t].at = "deleting"
    /\ NewRows(w, t) # {} => docOf[t] \in documents
    /\ ~Clash(chunks \ body[w][t].rows, NewRows(w, t))
    /\ chunks' = (chunks \ body[w][t].rows) \cup NewRows(w, t)
    /\ \A m \in Models : embedded'[m] = embedded[m] \ body[w][t].rows
    /\ Inside(w, t, "chunked", body[w][t].content, {})
    /\ SameCounts(t) /\ UNCHANGED <<live, active>>

Lists(w, t) ==
    /\ body[w][t].at = "chunked" /\ pc[w][t] = "embedding"
    /\ Inside(w, t, "listed", body[w][t].content, MyRows(t))
    /\ SameCounts(t) /\ SameStore

\* A batch of an ingest or of a rebuild run.
Embeds(w, t) ==
    \E batch \in SUBSET (body[w][t].rows \cap chunks) :
        /\ body[w][t].at \in {"listed", "missing", "sweep"}
        /\ \A m \in Models : embedded'[m] = IF m = model[t] THEN embedded[m] \cup batch
                                            ELSE embedded[m]
        /\ Inside(w, t, body[w][t].at, body[w][t].content, body[w][t].rows \ batch)
        /\ embedCount'[t] = embedCount[t] + Cardinality(batch)
        /\ chunkCount'[t] = chunkCount[t] /\ UNCHANGED <<live, chunks, active>>

Superseded(t) == {c \in chunks : c.doc = docOf[t] /\ c.ver # ver[t]}

Flips(w, t) ==
    /\ body[w][t].at = "listed" /\ body[w][t].rows = {}
    /\ \A d \in Docs : live'[d] = IF d = docOf[t] /\ d \in documents THEN ver[t] ELSE live[d]
    /\ chunks' = chunks \ Superseded(t)
    /\ \A m \in Models : embedded'[m] = embedded[m] \ Superseded(t)
    /\ Inside(w, t, "flipped", body[w][t].content, {})
    /\ SameCounts(t) /\ UNCHANGED active

Collects(w, t) ==
    /\ \/ body[w][t].at = "start" /\ jobType[t] = "rebuild"
          /\ chunkCount'[t] = Cardinality(Missing(t))
          /\ Inside(w, t, "missing", body[w][t].content, Missing(t))
       \/ body[w][t].at = "missing" /\ body[w][t].rows = {}
          /\ chunkCount'[t] = chunkCount[t]
          /\ Inside(w, t, "sweep", body[w][t].content, Missing(t))
    /\ embedCount'[t] = embedCount[t] /\ SameStore

Switches(w, t) ==
    /\ body[w][t].at = "sweep" /\ body[w][t].rows = {} /\ scope[t] = Everywhere
    /\ active' = model[t]
    /\ Inside(w, t, "switched", body[w][t].content, {})
    /\ SameCounts(t) /\ UNCHANGED <<live, chunks, embedded>>

Ends(w, t) ==
    /\ Gone(w, t)
    /\ \/ state'[t] = state[t] /\ (state[t] = "removed" \/ MaxFaults > 0)
       \/ /\ state[t] # "removed"
          /\ \/ state'[t] = "failed"
             \/ state'[t] = "pending" /\ (body[w][t].at # "flipped" \/ body[w][t].rows # {})
             \/ /\ state'[t] = "done"
                /\ \/ body[w][t].at \in {"flipped", "switched"}
                   \/ body[w][t].at = "sweep" /\ body[w][t].rows = {}
    /\ SameCounts(t) /\ SameStore

RunEffect(w, t) ==
    \/ Proceeds(w, t) \/ Loads(w, t) \/ Marks(w, t) \/ Writes(w, t) \/ Lists(w, t)
    \/ Embeds(w, t) \/ Flips(w, t) \/ Collects(w, t) \/ Switches(w, t) \/ Ends(w, t)

Working(w, t) == BodyStep(w, t) \/ RunVanishes(w, t) \/ RebuildStep(w, t)

LEMMA StepMoves ==
    ASSUME RebuildTypes, NEW w \in Workers, NEW t \in Tasks, NEW at, NEW rows,
           Step(w, t, at, rows), UNCHANGED queueVars
    PROVE  /\ Inside(w, t, at, body[w][t].content, rows)
           /\ \A v \in Workers, u \in Tasks : v # w \/ u # t => SameRun(v, u)
           /\ \A u \in Tasks \ {t} : state'[u] = state[u]
           /\ UNCHANGED <<jobType, older, attempts>>
  BY DEF RebuildTypes, PipelineTypes, BodyType, Step, Inside, SameRun, queueVars

LEMMA SetStateMoves ==
    ASSUME RebuildTypes, NEW w \in Workers, NEW t \in Tasks, SetState(w, t), UNCHANGED body
    PROVE  /\ pc[w][t] # "idle" /\ pc'[w][t] \in InFlight /\ snap'[w][t] = snap[w][t]
           /\ state'[t] = state[t] \/ (state[t] # "removed" /\ state'[t] \in InFlight)
           /\ \A v \in Workers, u \in Tasks : v # w \/ u # t => SameRun(v, u)
           /\ \A u \in Tasks \ {t} : state'[u] = state[u]
           /\ UNCHANGED <<jobType, older, attempts>>
  <1>1. NextPoint(t, pc[w][t]) \in InFlight
    BY DEF SetState, NextPoint, FirstState, InFlight
  <1> QED
    BY <1>1 DEF RebuildTypes, PipelineTypes, TypeOK, SetState, Written, SameRun

LEMMA EndMoves ==
    ASSUME RebuildTypes, NEW w \in Workers, NEW t \in Tasks, EndRun(w, t), EndBody(w, t)
    PROVE  /\ Gone(w, t)
           /\ \A v \in Workers, u \in Tasks : v # w \/ u # t => SameRun(v, u)
  BY DEF RebuildTypes, PipelineTypes, TypeOK, BodyType, EndRun, EndBody, Gone, SameRun

LEMMA RunStepFrame ==
    ASSUME RebuildTypes, [RebuildNext]_rebuildVars, NEW w \in Workers, NEW t \in Tasks,
           Working(w, t)
    PROVE  RunFrame(w, t) /\ RunEffect(w, t)
  <1> USE DEF RebuildTypes, PipelineTypes
  <1>1. UNCHANGED requestVars /\ SameScope
    <2>1. UNCHANGED requestVars
      BY DEF Working, BodyStep, StartExtracting, SkipRemoved, Extract, StartChunking, DeleteOldChunks,
             InsertNewChunks, StartEmbedding, ListChunks, EmbedNext, Flip, Finish, RunFails,
             RunVanishes, RebuildStep, StartRebuild, ReadMissing, Backfill, Sweep, SwitchModel,
             FinishRebuild
    <2> QED
      BY <2>1, ScopeStays DEF SameScope, requestVars
  <1>2. pc[w][t] # "idle"
    BY DEF Working, BodyStep, StartExtracting, SkipRemoved, Extract, StartChunking, DeleteOldChunks,
           InsertNewChunks, StartEmbedding, ListChunks, EmbedNext, Flip, Finish, RunFails,
           RunVanishes, RebuildStep, StartRebuild, ReadMissing, Backfill, Sweep, SwitchModel,
           FinishRebuild, MarkDone, MarkSkipped, Fail, LoseReport, Is, BodyType, InFlight
  <1>3. CASE StartExtracting(w, t) \/ StartChunking(w, t) \/ StartRebuild(w, t)
    <2>1. /\ SetState(w, t) /\ UNCHANGED <<storeVars, body, counterVars, dropping>>
          /\ pc[w][t] = "claimed" \/ (body[w][t].at = "loaded" /\ pc[w][t] = "extracting")
      BY <1>3 DEF StartExtracting, StartChunking, StartRebuild, Is
    <2>2. \/ body[w][t].at = "start"
          \/ body[w][t].at = "loaded" /\ pc'[w][t] = "chunking"
      BY <2>1 DEF BodyType, InFlight, SetState, NextPoint, TypeOK
    <2> QED
      BY <1>1, <2>1, <2>2, SetStateMoves
      DEF RunFrame, RunEffect, Proceeds, SameStore, SameCounts, storeVars, counterVars
  <1>4. CASE StartEmbedding(w, t)
    <2>1. /\ SetState(w, t) /\ UNCHANGED <<storeVars, body, embedCount, dropping>>
          /\ body[w][t].at = "chunked"
          /\ chunkCount' = [chunkCount EXCEPT ![t] = ChunkCount[body[w][t].content]]
      BY <1>4 DEF StartEmbedding, Is
    <2>2. /\ chunkCount'[t] = ChunkCount[body[w][t].content]
          /\ \A u \in Tasks \ {t} : chunkCount'[u] = chunkCount[u]
      BY <2>1 DEF CountType
    <2> QED
      BY <1>1, <2>1, <2>2, SetStateMoves
      DEF RunFrame, RunEffect, Proceeds, SameStore, SameCounts, storeVars
  <1>5. CASE Extract(w, t)
    <2> DEFINE bytes == blob[KeyOf[slot[docOf[t]]]]
    <2>1. /\ pc[w][t] = "extracting" /\ body[w][t].at = "start" /\ bytes # NoContent
          /\ body' = [body EXCEPT ![w][t].at = "loaded", ![w][t].content = bytes]
          /\ UNCHANGED <<queueVars, storeVars, requestVars, counterVars, dropping>>
      BY <1>5 DEF Extract, Is
    <2>2. /\ Inside(w, t, "loaded", bytes, body[w][t].rows)
          /\ \A v \in Workers, u \in Tasks : v # w \/ u # t => SameRun(v, u)
      BY <2>1 DEF Inside, SameRun, BodyType, queueVars
    <2>3. docOf[t] \in Docs
      BY <2>1 DEF BodyType
    <2> QED
      BY <1>1, <1>2, <2>1, <2>2, <2>3
      DEF RunFrame, RunEffect, Loads, SameStore, SameCounts, queueVars, storeVars, counterVars
  <1>6. CASE DeleteOldChunks(w, t) \/ ListChunks(w, t)
    <2>1. UNCHANGED <<queueVars, storeVars, counterVars, dropping>>
      BY <1>6 DEF DeleteOldChunks, ListChunks
    <2>2. RunFrame(w, t)
      BY <1>1, <1>2, <1>6, <2>1, StepMoves
      DEF RunFrame, SameCounts, DeleteOldChunks, ListChunks, storeVars, counterVars
    <2>3. CASE DeleteOldChunks(w, t)
      <3>1. Inside(w, t, "deleting", body[w][t].content, MyRows(t))
        BY <2>1, <2>3, StepMoves DEF DeleteOldChunks
      <3> QED
        BY <2>1, <2>2, <2>3, <3>1
        DEF DeleteOldChunks, Is, RunEffect, Marks, SameStore, SameCounts, storeVars, counterVars
    <2>4. CASE ListChunks(w, t)
      <3>1. Inside(w, t, "listed", body[w][t].content, MyRows(t))
        BY <2>1, <2>4, StepMoves DEF ListChunks
      <3> QED
        BY <2>1, <2>2, <2>4, <3>1
        DEF ListChunks, Is, RunEffect, Lists, SameStore, SameCounts, storeVars, counterVars
    <2> QED
      BY <1>6, <2>3, <2>4
  <1>7. CASE InsertNewChunks(w, t)
    <2>1. /\ body[w][t].at = "deleting" /\ Step(w, t, "chunked", {})
          /\ ReplaceVersion(docOf[t], body[w][t].rows, NewRows(w, t))
          /\ UNCHANGED <<queueVars, requestVars, counterVars, dropping>>
      BY <1>7 DEF InsertNewChunks, Is, NewRows
    <2>2. \A m \in Models : embedded'[m] = embedded[m] \ body[w][t].rows
      BY <2>1 DEF ReplaceVersion, EmbeddingsCascade
    <2> HIDE DEF RebuildTypes, PipelineTypes
    <2>3. /\ Inside(w, t, "chunked", body[w][t].content, {})
          /\ \A v \in Workers, u \in Tasks : v # w \/ u # t => SameRun(v, u)
          /\ \A u \in Tasks \ {t} : state'[u] = state[u]
          /\ UNCHANGED <<jobType, older, attempts>>
      BY <2>1, StepMoves
    <2> QED
      BY <1>1, <1>2, <2>1, <2>2, <2>3
      DEF ReplaceVersion, RunFrame, RunEffect, Writes, SameCounts, counterVars
  <1>8. CASE EmbedNext(w, t) \/ Backfill(w, t)
    <2>1. PICK batch \in SUBSET body[w][t].rows :
             /\ EmbedChunks(model[t], batch)
             /\ Step(w, t, body[w][t].at, body[w][t].rows \ batch)
             /\ embedCount' = [embedCount EXCEPT ![t] = @ + Cardinality(batch)]
      BY <1>8 DEF EmbedNext, Backfill, FirstByOrdinal, Is
    <2>2. /\ UNCHANGED <<queueVars, chunkCount, dropping>>
          /\ body[w][t].at \in {"listed", "missing", "sweep"}
      BY <1>8 DEF EmbedNext, Backfill, Is
    <2>3. \A m \in Models : embedded'[m] = IF m = model[t] THEN embedded[m] \cup batch
                                           ELSE embedded[m]
      BY <2>1 DEF EmbedChunks, StoreType, RequestType
    <2>4. /\ embedCount'[t] = embedCount[t] + Cardinality(batch)
          /\ \A u \in Tasks \ {t} : embedCount'[u] = embedCount[u]
      BY <2>1 DEF CountType
    <2>5. Inside(w, t, body[w][t].at, body[w][t].content, body[w][t].rows \ batch)
      BY <2>1, <2>2, StepMoves
    <2>6. Embeds(w, t)
      BY <2>1, <2>2, <2>3, <2>4, <2>5 DEF Embeds, EmbedChunks
    <2>7. RunFrame(w, t)
      <3>1. \A v \in Workers, u \in Tasks : v # w \/ u # t => SameRun(v, u)
        BY <2>1, <2>2, StepMoves
      <3> QED
        BY <1>1, <1>2, <2>1, <2>2, <2>4, <3>1 DEF RunFrame, SameCounts, EmbedChunks, queueVars
    <2> QED
      BY <2>6, <2>7 DEF RunEffect
  <1>9. CASE Flip(w, t)
    <2>1. /\ body[w][t].at = "listed" /\ body[w][t].rows = {} /\ Step(w, t, "flipped", {})
          /\ FlipLive(docOf[t], ver[t]) /\ UNCHANGED <<queueVars, requestVars, counterVars, dropping>>
      BY <1>9 DEF Flip, Is
    <2>2. \A d \in Docs : live'[d] = IF d = docOf[t] /\ d \in documents THEN ver[t] ELSE live[d]
      BY <2>1 DEF FlipLive, StoreType
    <2>3. /\ chunks' = chunks \ Superseded(t)
          /\ \A m \in Models : embedded'[m] = embedded[m] \ Superseded(t)
      BY <2>1 DEF FlipLive, EmbeddingsCascade, Superseded
    <2>4. /\ Inside(w, t, "flipped", body[w][t].content, {})
          /\ \A v \in Workers, u \in Tasks : v # w \/ u # t => SameRun(v, u)
      BY <2>1, StepMoves
    <2> QED
      BY <1>1, <1>2, <2>1, <2>2, <2>3, <2>4
      DEF FlipLive, RunFrame, RunEffect, Flips, SameCounts, queueVars, counterVars
  <1>10. CASE ReadMissing(w, t) \/ Sweep(w, t)
    <2>1. UNCHANGED <<queueVars, storeVars, embedCount, dropping>>
      BY <1>10 DEF ReadMissing, Sweep, counterVars
    <2>2. PICK at \in {"missing", "sweep"} : Step(w, t, at, Missing(t))
      BY <1>10 DEF ReadMissing, Sweep
    <2>3. Inside(w, t, at, body[w][t].content, Missing(t))
          /\ \A v \in Workers, u \in Tasks : v # w \/ u # t => SameRun(v, u)
      BY <2>1, <2>2, StepMoves
    <2>4. CASE ReadMissing(w, t)
      <3>1. chunkCount' = [chunkCount EXCEPT ![t] = Cardinality(Missing(t))]
            /\ Step(w, t, "missing", Missing(t))
        BY <2>4 DEF ReadMissing
      <3>2. chunkCount'[t] = Cardinality(Missing(t))
            /\ \A u \in Tasks \ {t} : chunkCount'[u] = chunkCount[u]
        BY <3>1 DEF CountType
      <3>3. Inside(w, t, "missing", body[w][t].content, Missing(t))
        BY <2>1, <3>1, StepMoves
      <3> QED
        BY <1>1, <1>2, <2>1, <2>3, <2>4, <3>2, <3>3
        DEF ReadMissing, Is, RunFrame, RunEffect, Collects, SameStore, SameCounts, queueVars, storeVars
    <2>5. CASE Sweep(w, t)
      <3>1. UNCHANGED chunkCount /\ Step(w, t, "sweep", Missing(t))
        BY <2>5 DEF Sweep, counterVars
      <3>3. Inside(w, t, "sweep", body[w][t].content, Missing(t))
        BY <2>1, <3>1, StepMoves
      <3> QED
        BY <1>1, <1>2, <2>1, <2>3, <2>5, <3>1, <3>3
        DEF Sweep, Is, RunFrame, RunEffect, Collects, SameStore, SameCounts, queueVars, storeVars
    <2> QED
      BY <1>10, <2>4, <2>5
  <1>11. CASE SwitchModel(w, t)
    <2>1. /\ body[w][t].at = "sweep" /\ body[w][t].rows = {} /\ scope[t] = Everywhere
          /\ SetActive(model[t]) /\ Step(w, t, "switched", {})
          /\ UNCHANGED <<queueVars, requestVars, counterVars, dropping, scope>>
      BY <1>11 DEF SwitchModel, Is
    <2>2. /\ Inside(w, t, "switched", body[w][t].content, {})
          /\ \A v \in Workers, u \in Tasks : v # w \/ u # t => SameRun(v, u)
      BY <2>1, StepMoves
    <2> QED
      BY <1>1, <1>2, <2>1, <2>2
      DEF SetActive, RunFrame, RunEffect, Switches, SameCounts, queueVars, counterVars
  <1>12. ASSUME EndRun(w, t), EndBody(w, t),
                UNCHANGED <<storeVars, counterVars, dropping, jobType, older, attempts>>,
                \A u \in Tasks \ {t} : state'[u] = state[u],
                \/ state'[t] = state[t] /\ (state[t] = "removed" \/ MaxFaults > 0)
                \/ /\ state[t] # "removed"
                   /\ \/ state'[t] = "failed"
                      \/ state'[t] = "pending" /\ (body[w][t].at # "flipped" \/ body[w][t].rows # {})
                      \/ /\ state'[t] = "done"
                         /\ \/ body[w][t].at \in {"flipped", "switched"}
                            \/ body[w][t].at = "sweep" /\ body[w][t].rows = {}
         PROVE  RunFrame(w, t) /\ RunEffect(w, t)
    BY <1>1, <1>2, <1>12, EndMoves
    DEF RunFrame, RunEffect, Ends, SameStore, SameCounts, storeVars, counterVars
  <1>13. CASE SkipRemoved(w, t)
    BY <1>12, <1>13 DEF SkipRemoved, MarkSkipped
  <1>14. CASE RunVanishes(w, t)
    <2>1. MaxFaults > 0
      BY <1>14, QueueAssumption DEF RunVanishes, LoseReport, Fault, TypeOK
    <2> QED
      BY <1>12, <1>14, <2>1 DEF RunVanishes, LoseReport, rowVars
  <1>15. CASE Finish(w, t) \/ FinishRebuild(w, t)
    <2>1. MarkDone(w, t) /\ EndBody(w, t) /\ UNCHANGED <<storeVars, counterVars, dropping>>
          /\ \/ body[w][t].at \in {"flipped", "switched"}
             \/ body[w][t].at = "sweep" /\ body[w][t].rows = {}
      BY <1>15 DEF Finish, FinishRebuild, Is
    <2> QED
      BY <1>12, <2>1 DEF MarkDone, Written, TypeOK
  <1>16. ASSUME NEW retryable \in BOOLEAN, RunFails(w, t, retryable)
         PROVE  RunFrame(w, t) /\ RunEffect(w, t)
    <2>1. /\ Fail(w, t, retryable) /\ EndBody(w, t)
          /\ UNCHANGED <<storeVars, counterVars, dropping>>
          /\ retryable => body[w][t].at = "start" \/ body[w][t].rows # {}
      BY <1>16 DEF RunFails, CallsOut, Is
    <2> QED
      BY <1>12, <2>1 DEF Fail, Written, TypeOK, WillRetry
  <1> QED
    BY <1>3, <1>4, <1>5, <1>6, <1>7, <1>8, <1>9, <1>10, <1>11, <1>13, <1>14, <1>15, <1>16
    DEF Working, BodyStep, RebuildStep

\* So every step is a request's, a removal, the clock's or a run's.
LEMMA StepFrames ==
    ASSUME RebuildTypes, [RebuildNext]_rebuildVars
    PROVE  \/ \E t \in Tasks : AskFrame(t) /\ AskStep(t)
           \/ \E d \in Docs : Removes(d) \/ Drops(d)
           \/ Ticks
           \/ \E w \in Workers, t \in Tasks : RunFrame(w, t) /\ RunEffect(w, t)
  <1>1. \/ \E t \in Tasks : Asking(t)
        \/ \E d \in Docs : Removal(d)
        \/ Clock
        \/ \E w \in Workers, t \in Tasks : Working(w, t)
    BY DEF RebuildNext, IngestStep, PipelineNext, Asking, Removal, Clock, Working
  <1> QED
    BY <1>1, AskStepFrame, RemovalFrame, ClockFrame, RunStepFrame

-----------------------------------------------------------------------------
(* What the foreign keys and the order of a request's statements give,     *)
(* whatever overlaps: whose document a job is about, and what rows and     *)
(* runs there are of it.                                                   *)

Registered ==
    /\ \A d \in documents : Spent(d)
    /\ \A t \in Tasks : req[t].found \in Docs =>
          Spent(req[t].found) /\ slot[req[t].found] = req[t].slot
    /\ \A t \in Tasks : docOf[t] \in Docs =>
          Spent(t) /\ Spent(docOf[t]) /\ slot[docOf[t]] = req[t].slot
    /\ \A t \in Tasks : req[t].phase = "enqueueing" => docOf[t] \in Docs /\ ver[t] > 0
    /\ \A t \in Tasks : state[t] # "absent" => req[t].phase = "over"
    /\ \A t \in Tasks : jobType[t] = "rebuild" => state[t] # "absent" /\ docOf[t] \notin Docs
    /\ \A t \in Tasks : state[t] \in Present /\ jobType[t] = "ingest" =>
          docOf[t] \in documents /\ (state[t] # "skipped" => ver[t] > 0)
    /\ \A t \in Tasks : state[t] = "removed" => docOf[t] \in Docs \ documents
    /\ \A w \in Workers, t \in Tasks : pc[w][t] # "idle" => state[t] \notin {"absent", "skipped"}

LEMMA RegisteredInit == RebuildInit => Registered
  BY PipelineAssumption
  DEF RebuildInit, PipelineInit, QueueInit, StoreInit, NoRequest, Registered, Spent, Present, InFlight,
      Final

LEMMA AskKeepsRegistered ==
    ASSUME RebuildTypes, Registered, RequestsMove, NEW t \in Tasks, AskFrame(t), AskStep(t)
    PROVE  Registered'
  <1> USE DEF AskFrame
  <1>a. RequestType(RebuildPhases) /\ StoreType /\ TypeOK
    BY DEF RebuildTypes, PipelineTypes
  <1>b. /\ \A u \in Tasks : Spent(u) =>
              req'[u].phase \in {"enqueueing", "over", "lost"} /\ slot'[u] = slot[u]
        /\ \A d \in documents' : d \in documents \/ req'[d].phase \in {"enqueueing", "over", "lost"}
    BY DEF RequestsMove, Spent
  <1>c. \A d \in documents' : d \in Docs
    BY <1>a, PipelineAssumption
    DEF AskStep, Begins, Puts, Looks, Upserts, Creates, Updates, Submits, Skips, GivesUp,
        Checks, SameDocs, StoreType
  <1>1. \A d \in documents' : req'[d].phase \in {"enqueueing", "over", "lost"}
    BY <1>a, <1>b, PipelineAssumption DEF Registered, StoreType
  <1>2. \A u \in Tasks : req'[u].found \in Docs =>
           req'[req'[u].found].phase \in {"enqueueing", "over", "lost"} /\ slot'[req'[u].found] = req'[u].slot
    <2>1. \A u \in Tasks \ {t} : req'[u].found \in Docs =>
             req'[req'[u].found].phase \in {"enqueueing", "over", "lost"} /\ slot'[req'[u].found] = req'[u].slot
      BY <1>b, PipelineAssumption DEF Registered
    <2>2. req'[t].found \in Docs =>
             \/ req'[t].found = req[t].found /\ req'[t].slot = req[t].slot
             \/ req'[t].found \in documents /\ slot[req'[t].found] = req'[t].slot
      BY PipelineAssumption
      DEF AskStep, Begins, Puts, Looks, Upserts, Submits, Skips, GivesUp, Checks, SameSlot,
          DocumentsAt
    <2> QED
      BY <1>a, <1>b, <2>1, <2>2, PipelineAssumption DEF Registered, StoreType
  <1>3. \A u \in Tasks : docOf'[u] \in Docs =>
           
           /\ req'[u].phase \in {"enqueueing", "over", "lost"}
           /\ req'[docOf'[u]].phase \in {"enqueueing", "over", "lost"}
           /\ slot'[docOf'[u]] = req'[u].slot
    <2>1. \A u \in Tasks \ {t} : docOf'[u] \in Docs =>
             
           /\ req'[u].phase \in {"enqueueing", "over", "lost"}
           /\ req'[docOf'[u]].phase \in {"enqueueing", "over", "lost"}
           /\ slot'[docOf'[u]] = req'[u].slot
      BY <1>b, PipelineAssumption DEF Registered
    <2>2. \/ docOf'[t] = docOf[t] /\ (Spent(t) => SameSlot(t))
          \/ Creates(t) /\ docOf'[t] = t /\ SameSlot(t)
          \/ docOf'[t] = req[t].found /\ SameSlot(t) /\ req'[t].phase \in {"enqueueing", "over"}
      <3>1. CASE Begins(t) \/ Puts(t) \/ Looks(t) \/ Checks(t)
        BY <3>1 DEF Begins, Puts, Looks, Checks, Moves, Spent, SameColumns
      <3>2. CASE Upserts(t)
        BY <3>2 DEF Upserts, Creates, Updates, Moves
      <3>3. CASE Submits(t) \/ GivesUp(t)
        BY <3>3 DEF Submits, GivesUp, SameColumns
      <3>4. CASE Skips(t)
        BY <3>4 DEF Skips, Moves
      <3> QED
        BY <3>1, <3>2, <3>3, <3>4 DEF AskStep
    <2> QED
      BY <1>a, <1>b, <2>1, <2>2, PipelineAssumption
      DEF Registered, StoreType, Creates, SameSlot, Moves, Spent
  <1>4. \A u \in Tasks : req'[u].phase = "enqueueing" => docOf'[u] \in Docs /\ ver'[u] > 0
    <2>1. req'[t].phase = "enqueueing" => Upserts(t)
      BY DEF AskStep, Begins, Puts, Looks, Upserts, Submits, Skips, GivesUp, Checks, Moves
    <2>2. NextVersion(req[t].live) > 0
      BY <1>a DEF NextVersion, RequestType
    <2> QED
      BY <2>1, <2>2, PipelineAssumption DEF Upserts, Creates, Updates, Registered
  <1>5. \A u \in Tasks : state'[u] # "absent" => req'[u].phase = "over"
    BY DEF AskStep, Begins, Puts, Looks, Upserts, Creates, Updates, Submits, Skips, GivesUp, Checks,
           Moves, SameRow, Uploading, Registered
  <1>6. \A u \in Tasks : jobType'[u] = "rebuild" => state'[u] # "absent" /\ docOf'[u] \notin Docs
    BY DEF AskStep, Begins, Puts, Looks, Upserts, Creates, Updates, Submits, Skips, GivesUp, Checks,
           Moves, SameRow, SameColumns, Registered, Spent
  <1>7. \A u \in Tasks : state'[u] \in Present /\ jobType'[u] = "ingest" =>
           docOf'[u] \in documents' /\ (state'[u] # "skipped" => ver'[u] > 0)
    <2>1. \A d \in documents : d \in documents'
      BY DEF AskStep, Begins, Puts, Looks, Upserts, Creates, Updates, Submits, Skips, GivesUp, Checks,
             SameDocs
    <2>2. state'[t] \in Present /\ jobType'[t] = "ingest" =>
             docOf'[t] \in documents' /\ (state'[t] # "skipped" => ver'[t] > 0)
      BY <2>1 DEF AskStep, Begins, Puts, Looks, Upserts, Creates, Updates, Submits, Skips, GivesUp,
         Checks, Moves, SameRow, SameColumns, Registered, Present, Uploading, InFlight, Final
    <2> QED
      BY <2>1, <2>2 DEF Registered
  <1>8. \A u \in Tasks : state'[u] = "removed" => docOf'[u] \in Docs \ documents'
    <2>1. state'[t] = "removed" =>
             state[t] = "removed" /\ docOf'[t] = docOf[t] /\ documents' = documents
      BY DEF AskStep, Begins, Puts, Looks, Upserts, Creates, Updates, Submits, Skips, GivesUp,
             Checks, Moves, SameRow, SameColumns, SameDocs, Registered, Uploading
    <2>2. \A d \in documents' : d \in documents \/ (d = t /\ ~Spent(t))
      BY DEF AskStep, Begins, Puts, Looks, Upserts, Creates, Updates, Submits, Skips, GivesUp, Checks,
             SameDocs, Moves, Spent
    <2> QED
      BY <2>1, <2>2, PipelineAssumption DEF Registered
  <1>9. \A w \in Workers, u \in Tasks : pc'[w][u] # "idle" => state'[u] \notin {"absent", "skipped"}
    BY DEF AskStep, Begins, Puts, Looks, Upserts, Creates, Updates, Submits, Skips, GivesUp, Checks,
           SameRow, Registered
  <1> QED
    BY <1>1, <1>2, <1>3, <1>4, <1>5, <1>6, <1>7, <1>8, <1>9 DEF Registered, Spent

\* A request that has not been answered yet has no job, and so no runs.
LEMMA AskIdle ==
    ASSUME RebuildTypes, Registered, NEW t \in Tasks, AskStep(t)
    PROVE  state[t] = "absent" /\ \A w \in Workers : pc[w][t] = "idle" /\ body[w][t].at = "start"
  <1>1. req[t].phase # "over"
    BY DEF AskStep, Begins, Puts, Looks, Upserts, Creates, Updates, Submits, Skips, GivesUp, Checks,
           Moves, Uploading
  <1>2. state[t] = "absent" /\ \A w \in Workers : pc[w][t] = "idle"
    BY <1>1 DEF Registered
  <1> QED
    BY <1>2 DEF RebuildTypes, PipelineTypes, BodyType, InFlight

LEMMA RegisteredStep ==
    ASSUME RebuildTypes, RebuildTypes', Registered, [RebuildNext]_rebuildVars
    PROVE  Registered'
  <1>a. RequestType(RebuildPhases) /\ StoreType /\ TypeOK
    BY DEF RebuildTypes, PipelineTypes
  <1>1. RequestsMove
    BY <1>a, RequestsStep
  <1>2. ASSUME NEW t \in Tasks, AskFrame(t), AskStep(t) PROVE Registered'
    BY <1>1, <1>2, AskKeepsRegistered
  <1>3. ASSUME NEW d \in Docs, Removes(d) PROVE Registered'
    <2>1. \A t \in Tasks : jobType[t] = "rebuild" => t \notin JobsOf(d)
      BY <1>3 DEF Registered, JobsOf
    <2>2. \A t \in Tasks : jobType[t] = "ingest" \/ jobType[t] = "rebuild"
      BY <1>a DEF TypeOK, JobTypes
    <2>3. \A t \in JobsOf(d) : state[t] # "absent" /\ docOf[t] = d
      BY DEF JobsOf, Present, InFlight, Final
    <2>4. \A t \in Tasks : state'[t] \in Present => state[t] \in Present /\ docOf[t] # d
      BY <1>3 DEF Removes, JobsOf, Present, InFlight, Final
    <2> QED
      BY <1>3, <2>1, <2>2, <2>3, <2>4
      DEF Removes, Registered, Spent, SameRuns, requestVars, columnVars
  <1>4. ASSUME NEW d \in Docs, Drops(d) PROVE Registered'
    BY <1>4 DEF Drops, Registered, Spent, SameRuns, requestVars, columnVars
  <1>5. CASE Ticks
    <2>1. \A t \in Tasks : \/ state'[t] = state[t]
                           \/ /\ state[t] \in Present \ {"skipped"}
                              /\ state'[t] \in Present \ {"skipped"}
      <3>1. \A s \in OpenStates \cup InFlight : s \in Present \ {"skipped"}
        BY DEF OpenStates, Present, InFlight, Final
      <3> QED
        BY <1>5, <3>1 DEF Ticks
    <2>2. \A w \in Workers, t \in Tasks : pc'[w][t] # "idle" =>
             pc[w][t] # "idle" \/ state[t] \in Present \ {"skipped"}
      BY <1>5 DEF Ticks, SameRun, Gone, OpenStates, Present, InFlight, Final
    <2>3. Present \cap {"absent", "removed"} = {}
      BY DEF Present, InFlight, Final
    <2> QED
      BY <1>5, <2>1, <2>2, <2>3 DEF Ticks, Registered, Spent, storeVars, requestVars, columnVars
  <1>6. ASSUME NEW w \in Workers, NEW t \in Tasks, RunFrame(w, t), RunEffect(w, t)
        PROVE  Registered'
    <2>1. state[t] \notin {"absent", "skipped"}
      BY <1>6 DEF RunFrame, Registered
    <2>2. \/ state'[t] = state[t]
          \/ state[t] # "removed" /\ state'[t] \in Present \ {"skipped"}
      <3>1. CASE Proceeds(w, t) \/ Ends(w, t)
        BY <3>1 DEF Proceeds, Ends, Present, InFlight, Final
      <3>2. CASE Loads(w, t) \/ Marks(w, t) \/ Writes(w, t) \/ Lists(w, t) \/ Embeds(w, t)
                 \/ Flips(w, t) \/ Collects(w, t) \/ Switches(w, t)
        BY <3>2 DEF Loads, Marks, Writes, Lists, Embeds, Flips, Collects, Switches, Inside
      <3> QED
        BY <1>6, <3>1, <3>2 DEF RunEffect
    <2>3. state[t] = "removed" \/ state[t] \in Present \ {"skipped"}
      BY <1>a, <2>1 DEF TypeOK, States
    <2>4. Present \cap {"absent", "removed"} = {}
      BY DEF Present, InFlight, Final
    <2>5. \A v \in Workers, u \in Tasks : u # t => pc'[v][u] = pc[v][u]
      BY <1>6 DEF RunFrame, SameRun
    <2>6. state'[t] \notin {"absent", "skipped"}
      BY <2>1, <2>2, <2>4
    <2> QED
      BY <1>6, <2>1, <2>2, <2>3, <2>4, <2>5, <2>6
      DEF RunFrame, Registered, Spent, requestVars, columnVars
  <1> QED
    BY <1>2, <1>3, <1>4, <1>5, <1>6, StepFrames

\* What a run has in hand: of an ingest job the rows of its version, and
\* nothing except between reading rows and using them.
InHand ==
    \A w \in Workers, t \in Tasks :
        /\ body[w][t].at \in {"deleting", "listed"} =>
              \A c \in body[w][t].rows : c.doc = docOf[t] /\ c.ver = ver[t]
        /\ body[w][t].at \in {"start", "loaded", "chunked", "flipped", "switched"} =>
              body[w][t].rows = {}
        /\ body[w][t].at \in Steps \ {"start"} => jobType[t] = "ingest"
        /\ body[w][t].at \in RebuildSteps => jobType[t] = "rebuild"

LEMMA InHandStep ==
    ASSUME RebuildTypes, Registered, InHand, [RebuildNext]_rebuildVars
    PROVE  InHand'
  <1>1. ASSUME NEW t \in Tasks, AskFrame(t), AskStep(t) PROVE InHand'
    BY <1>1, AskIdle DEF AskFrame, InHand, Steps, RebuildSteps
  <1>2. ASSUME NEW d \in Docs, Removes(d) \/ Drops(d) PROVE InHand'
    BY <1>2 DEF Removes, Drops, SameRuns, requestVars, columnVars, InHand
  <1>3. CASE Ticks
    BY <1>3 DEF Ticks, SameRun, Gone, NoBody, requestVars, columnVars, InHand, Steps, RebuildSteps
  <1>4. ASSUME NEW w \in Workers, NEW t \in Tasks, RunFrame(w, t), RunEffect(w, t)
        PROVE  InHand'
    <2>1. UNCHANGED <<docOf, ver, jobType>>
      BY <1>4 DEF RunFrame, requestVars, columnVars
    <2>2. /\ body'[w][t].at \in {"deleting", "listed"} =>
                \A c \in body'[w][t].rows : c.doc = docOf[t] /\ c.ver = ver[t]
          /\ body'[w][t].at \in {"start", "loaded", "chunked", "flipped", "switched"} =>
                body'[w][t].rows = {}
          /\ body'[w][t].at \in Steps \ {"start"} => jobType[t] = "ingest"
          /\ body'[w][t].at \in RebuildSteps => jobType[t] = "rebuild"
      <3>1. CASE Proceeds(w, t) \/ Ends(w, t)
        BY <3>1 DEF Proceeds, Ends, Gone, NoBody, InHand, Steps, RebuildSteps
      <3>2. CASE Loads(w, t)
        <4>1. jobType[t] = "ingest"
          BY <3>2 DEF Loads, Registered, RebuildTypes, PipelineTypes, TypeOK, JobTypes
        <4> QED
          BY <3>2, <4>1 DEF Loads, Inside, InHand, Steps, RebuildSteps
      <3>3. CASE Marks(w, t) \/ Lists(w, t)
        BY <3>3 DEF Marks, Lists, Inside, MyRows, VersionChunks, InHand, Steps, RebuildSteps
      <3>4. CASE Writes(w, t) \/ Flips(w, t) \/ Switches(w, t)
        BY <3>4 DEF Writes, Flips, Switches, Inside, InHand, Steps, RebuildSteps
      <3>5. CASE Embeds(w, t)
        BY <3>5 DEF Embeds, Inside, InHand, Steps, RebuildSteps
      <3>6. CASE Collects(w, t)
        BY <3>6 DEF Collects, Inside, InHand, Steps, RebuildSteps
      <3> QED
        BY <1>4, <3>1, <3>2, <3>3, <3>4, <3>5, <3>6 DEF RunEffect
    <2> QED
      BY <1>4, <2>1, <2>2 DEF RunFrame, SameRun, InHand
  <1> QED
    BY <1>1, <1>2, <1>3, <1>4, StepFrames

-----------------------------------------------------------------------------
(* One at a time: with callers that take turns and jobs that are run once  *)
(* at a time (LeasesSuffice), a slot has one upload or one unfinished job. *)

Engaged(t) ==
    \/ req[t].phase \in Uploading \cup {"enqueueing"}
    \/ state[t] \in OpenStates /\ jobType[t] = "ingest"

OnePerSlot ==
    \A t, u \in Tasks : Engaged(t) /\ Engaged(u) /\ req[t].slot = req[u].slot => t = u

\* Nobody removes the document that an upload has found.
FoundStays ==
    \A t \in Tasks :
        /\ req[t].phase \in {"skipping", "upserting"} /\ req[t].found \in Docs =>
              req[t].found \in documents
        /\ req[t].phase = "enqueueing" => docOf[t] \in documents

Serial == OnePerSlot /\ FoundStays

\* What the queue and the tables know by themselves.
Orderly == RebuildInv /\ Exclusive /\ Registered /\ InHand

LEMMA OrderlyInit == RebuildInit => Orderly
  <1>1. RebuildInit => Exclusive
    BY ExclusiveInit DEF RebuildInit, PipelineInit
  <1>2. RebuildInit => InHand
    BY DEF RebuildInit, PipelineInit, NoBody, InHand, Steps, RebuildSteps
  <1> QED
    BY <1>1, <1>2, RebuildInvInit, RegisteredInit DEF Orderly

LEMMA OrderlyTypes == Orderly => RebuildTypes
  BY DEF Orderly, RebuildInv

LEMMA OrderlyStep ==
    ASSUME LeasesSuffice, Orderly, [RebuildNext]_rebuildVars
    PROVE  Orderly'
  <1>1. [QueueNext]_queueVars
    BY RebuildStepCases, PipelineQueueStep, ModelChangeQueueStep
  <1>2. TypeOK /\ RebuildTypes
    BY DEF Orderly, RebuildInv, RebuildTypes, PipelineTypes
  <1>3. Exclusive'
    BY <1>1, <1>2, ExclusiveStep DEF Orderly
  <1>4. RebuildInv' /\ RebuildTypes'
    BY RebuildInvStep DEF Orderly, RebuildInv
  <1> QED
    BY <1>2, <1>3, <1>4, RegisteredStep, InHandStep DEF Orderly

\* A run works on a row in flight, unless the row is gone.
LEMMA RunInFlight ==
    ASSUME Orderly, NEW w \in Workers, NEW t \in Tasks, pc[w][t] # "idle"
    PROVE  /\ state[t] \in InFlight \cup {"removed"}
           /\ docOf[t] \in documents \/ jobType[t] = "rebuild" => state[t] \in InFlight
  BY DEF Orderly, Exclusive, RunsOwnTheirRows, Registered

\* A run engages no task that was not engaged.
LEMMA RunEngages ==
    ASSUME Orderly, NEW w \in Workers, NEW t \in Tasks, RunFrame(w, t), RunEffect(w, t),
           NEW u \in Tasks, state'[u] \in OpenStates
    PROVE  state[u] \in OpenStates
  <1>1. CASE u # t
    BY <1>1 DEF RunFrame
  <1>2. CASE u = t
    <2>1. state'[t] = state[t] \/ state[t] # "removed"
      <3>1. CASE Proceeds(w, t) \/ Ends(w, t)
        BY <3>1 DEF Proceeds, Ends
      <3>2. CASE Loads(w, t) \/ Marks(w, t) \/ Writes(w, t) \/ Lists(w, t) \/ Embeds(w, t)
                 \/ Flips(w, t) \/ Collects(w, t) \/ Switches(w, t)
        BY <3>2 DEF Loads, Marks, Writes, Lists, Embeds, Flips, Collects, Switches, Inside
      <3> QED
        BY <3>1, <3>2 DEF RunEffect
    <2>2. pc[w][t] # "idle"
      BY DEF RunFrame
    <2> QED
      BY <1>2, <2>1, <2>2, RunInFlight DEF OpenStates, InFlight
  <1> QED
    BY <1>1, <1>2

LEMMA SerialStep ==
    ASSUME Overlap = "none", Orderly, Serial, [RebuildNext]_rebuildVars
    PROVE  Serial'
  <1>a. RebuildTypes
    BY OrderlyTypes
  <1>1. ASSUME NEW t \in Tasks, AskFrame(t), AskStep(t) PROVE Serial'
    <2>1. \A u \in Tasks \ {t} :
             /\ Engaged(u)' <=> Engaged(u)
             /\ req'[u] = req[u] /\ docOf'[u] = docOf[u]
      BY <1>1 DEF AskFrame, Engaged
    <2>2. Engaged(t)' => \/ Engaged(t) /\ req'[t].slot = req[t].slot
                         \/ /\ InUpload(req'[t].slot) = {}
                            /\ \A u \in Tasks : req[u].slot = req'[t].slot =>
                                  state[u] \notin OpenStates
      <3>1. CASE Begins(t)
        BY <3>1 DEF Begins, MayStart, OpenStates
      <3>2. CASE Puts(t) \/ Looks(t) \/ Upserts(t) \/ Submits(t)
        <4>1. jobType'[t] = "rebuild" \/ req[t].phase \in Uploading \cup {"enqueueing"}
          BY <3>2 DEF Puts, Looks, Upserts, Creates, Updates, Submits, Moves, Uploading
        <4>2. req'[t].slot = req[t].slot
          BY <3>2 DEF Puts, Looks, Upserts, Submits, SameSlot
        <4>3. Submits(t) => req'[t].phase \notin Uploading \cup {"enqueueing"}
          BY DEF Submits, Moves, Uploading
        <4>4. Puts(t) \/ Looks(t) \/ Upserts(t) => req[t].phase \in Uploading
          BY DEF Puts, Looks, Upserts, Creates, Updates, Moves, Uploading
        <4> QED
          BY <3>2, <4>1, <4>2, <4>3, <4>4 DEF Engaged
      <3>3. CASE Skips(t) \/ GivesUp(t) \/ Checks(t)
        <4>1. req'[t].phase \notin Uploading \cup {"enqueueing"}
          BY <3>3 DEF Skips, GivesUp, Checks, Moves, Uploading
        <4>2. state'[t] \notin OpenStates
          BY <1>1, <1>a, <3>3, AskIdle
          DEF Skips, GivesUp, Checks, SameRow, OpenStates, InFlight, Orderly
        <4> QED
          BY <4>1, <4>2 DEF Engaged
      <3> QED
        BY <1>1, <3>1, <3>2, <3>3 DEF AskStep
    <2>3. \A u \in Tasks : Engaged(u) =>
             u \in InUpload(req[u].slot) \/ state[u] \in OpenStates
      BY DEF Engaged, InUpload, Uploading
    <2>4. OnePerSlot'
      BY <2>1, <2>2, <2>3 DEF Serial, OnePerSlot
    <2>5. FoundStays'
      <3>1. \A d \in documents : d \in documents'
        BY <1>1 DEF AskStep, Begins, Puts, Looks, Upserts, Creates, Updates, Submits, Skips, GivesUp,
           Checks, SameDocs
      <3>2. req'[t].phase \in {"skipping", "upserting"} /\ req'[t].found \in Docs =>
               req'[t].found \in documents
        BY <1>1, PipelineAssumption
        DEF AskStep, Begins, Puts, Looks, Upserts, Creates, Updates, Submits, Skips, GivesUp, Checks,
            Moves, DocumentsAt
      <3>3. req'[t].phase = "enqueueing" => docOf'[t] \in documents'
        BY <1>1
        DEF AskStep, Begins, Puts, Looks, Upserts, Creates, Updates, Submits, Skips, GivesUp, Checks,
            Moves, Serial, FoundStays
      <3> QED
        BY <2>1, <3>1, <3>2, <3>3 DEF Serial, FoundStays
    <2> QED
      BY <2>4, <2>5 DEF Serial
  <1>2. ASSUME NEW d \in Docs, Removes(d) PROVE Serial'
    <2>1. \A t \in Tasks : req'[t] = req[t] /\ docOf'[t] = docOf[t]
             /\ (Engaged(t)' => Engaged(t))
      BY <1>2 DEF Removes, requestVars, columnVars, Engaged, OpenStates, InFlight
    <2>2. OnePerSlot'
      BY <2>1 DEF Serial, OnePerSlot
    <2>3. \A t \in Tasks : req[t].phase \in {"skipping", "upserting", "enqueueing"} =>
             req[t].slot # slot[d]
      BY <1>2 DEF Removes, InUpload
    <2>4. FoundStays'
      BY <1>2, <2>1, <2>3 DEF Removes, Orderly, Registered, Serial, FoundStays
    <2> QED
      BY <2>2, <2>4 DEF Serial
  <1>3. ASSUME NEW d \in Docs, Drops(d) PROVE Serial'
    BY <1>3 DEF Drops, requestVars, columnVars, Serial, OnePerSlot, FoundStays, Engaged
  <1>4. CASE Ticks
    <2>1. \A t \in Tasks : Engaged(t)' => Engaged(t)
      BY <1>4 DEF Ticks, Engaged, requestVars
    <2> QED
      BY <1>4, <2>1 DEF Ticks, requestVars, columnVars, storeVars, Serial, OnePerSlot, FoundStays
  <1>5. ASSUME NEW w \in Workers, NEW t \in Tasks, RunFrame(w, t), RunEffect(w, t)
        PROVE  Serial'
    <2>1. \A u \in Tasks : Engaged(u)' => Engaged(u)
      BY <1>5, RunEngages DEF RunFrame, Engaged, requestVars
    <2> QED
      BY <1>5, <2>1 DEF RunFrame, requestVars, columnVars, Serial, OnePerSlot, FoundStays
  <1> QED
    BY <1>1, <1>2, <1>3, <1>4, <1>5, <1>a, StepFrames

\* A document is worked on by one run, and no upload of its slot is under way.
LEMMA OneRun ==
    ASSUME Orderly, Serial, NEW w \in Workers, NEW t \in Tasks,
           pc[w][t] # "idle", docOf[t] \in documents
    PROVE  /\ state[t] \in InFlight /\ Engaged(t)
           /\ \A u \in Tasks : Engaged(u) /\ req[u].slot = slot[docOf[t]] => u = t
           /\ \A v \in Workers, u \in Tasks : pc[v][u] # "idle" /\ docOf[u] = docOf[t] =>
                 u = t /\ v = w
  <1>1. \A u \in Tasks : docOf[u] \in documents =>
           docOf[u] \in Docs /\ jobType[u] = "ingest" /\ slot[docOf[u]] = req[u].slot
    BY OrderlyTypes DEF Orderly, Registered, RebuildTypes, PipelineTypes, StoreType, TypeOK, JobTypes
  <1>2. \A v \in Workers, u \in Tasks : pc[v][u] # "idle" /\ docOf[u] \in documents =>
           state[u] \in InFlight /\ Engaged(u)
    BY <1>1, RunInFlight DEF Engaged, OpenStates
  <1>3. \A u \in Tasks : Engaged(u) /\ req[u].slot = slot[docOf[t]] => u = t
    BY <1>1, <1>2 DEF Serial, OnePerSlot
  <1>4. \A v \in Workers : pc[v][t] # "idle" => v = w
    BY DEF Orderly, Exclusive, NoDoubleProcess
  <1> QED
    BY <1>1, <1>2, <1>3, <1>4

-----------------------------------------------------------------------------
(* A run whose document is there finds its rows as it left them.           *)

\* What a step of a run does to the rows of other documents: nothing, except
\* that it may embed them.
Elsewhere(t) ==
    /\ \A c \in ChunkRows : c.doc # docOf[t] => (c \in chunks' <=> c \in chunks)
    /\ \A m \in Models : \A c \in embedded[m] : c.doc # docOf[t] => c \in embedded'[m]
    /\ \A d \in Docs \ {docOf[t]} : live'[d] = live[d]

LEMMA RunElsewhere ==
    ASSUME Orderly, NEW w \in Workers, NEW t \in Tasks, RunFrame(w, t), RunEffect(w, t)
    PROVE  Elsewhere(t)
  <1>a. StoreType /\ RequestType(RebuildPhases) /\ BodyType(AllSteps) /\ TypeOK
    BY OrderlyTypes DEF RebuildTypes, PipelineTypes
  <1>1. CASE SameStore
    BY <1>1 DEF SameStore, Elsewhere
  <1>2. CASE Embeds(w, t)
    BY <1>2 DEF Embeds, Elsewhere
  <1>3. CASE Writes(w, t)
    <2>1. \A c \in body[w][t].rows : c.doc = docOf[t]
      BY <1>3 DEF Writes, Orderly, InHand
    <2>2. \A c \in NewRows(w, t) : c.doc = docOf[t]
      BY DEF NewRows, NewChunks
    <2> QED
      BY <1>3, <2>1, <2>2 DEF Writes, Elsewhere
  <1>4. CASE Flips(w, t)
    BY <1>4 DEF Flips, Superseded, Elsewhere
  <1>5. CASE Switches(w, t)
    BY <1>5 DEF Switches, Elsewhere
  <1> QED
    BY <1>1, <1>2, <1>3, <1>4, <1>5
    DEF RunEffect, Proceeds, Loads, Marks, Lists, Collects, Ends

RowsAsLeft(w, t) ==
    /\ body[w][t].at = "deleting" => body[w][t].rows = MyRows(t)
    /\ body[w][t].at \in {"chunked", "listed", "flipped"} => MyRows(t) = NewRows(w, t)
    /\ body[w][t].at \in {"listed", "flipped"} =>
          MyRows(t) \ body[w][t].rows \subseteq embedded[model[t]]
    /\ body[w][t].at = "flipped" => live[docOf[t]] = ver[t]

RunWork == \A w \in Workers, t \in Tasks : docOf[t] \in documents => RowsAsLeft(w, t)

\* Nothing happens to a run and to the rows of its document.
LEMMA RowsUntouched ==
    ASSUME RebuildTypes, NEW w \in Workers, NEW t \in Tasks,
           docOf[t] \in documents => RowsAsLeft(w, t),
           docOf[t] \in Docs,
           docOf'[t] = docOf[t], ver'[t] = ver[t], model'[t] = model[t], SameRun(w, t),
           docOf[t] \in documents' => docOf[t] \in documents,
           \A c \in ChunkRows : c.doc = docOf[t] => (c \in chunks' <=> c \in chunks),
           \A m \in Models : \A c \in embedded[m] : c.doc = docOf[t] => c \in embedded'[m],
           StoreType', live'[docOf[t]] = live[docOf[t]], docOf'[t] \in documents'
    PROVE  RowsAsLeft(w, t)'
  <1>1. MyRows(t)' = MyRows(t) /\ \A c \in MyRows(t) : c.doc = docOf[t]
    BY DEF RebuildTypes, PipelineTypes, StoreType, MyRows, VersionChunks
  <1>2. NewRows(w, t)' = NewRows(w, t)
    BY DEF NewRows, NewChunks, SameRun
  <1>3. model[t] \in Models
    BY DEF RebuildTypes, PipelineTypes, RequestType
  <1> QED
    BY <1>1, <1>2, <1>3 DEF RowsAsLeft, SameRun

LEMMA OwnRowsStep ==
    ASSUME Orderly, RunWork, NEW w \in Workers, NEW t \in Tasks, docOf[t] \in documents,
           RunFrame(w, t), RunEffect(w, t)
    PROVE  RowsAsLeft(w, t)'
  <1>a. RebuildTypes
    BY OrderlyTypes
  <1>b. StoreType /\ RequestType(RebuildPhases) /\ model[t] \in Models /\ docOf[t] \in Docs
    BY <1>a DEF RebuildTypes, PipelineTypes, RequestType, StoreType
  <1>c. UNCHANGED <<docOf, ver, model>>
    BY DEF RunFrame, requestVars, columnVars
  <1>d. RowsAsLeft(w, t)
    BY DEF RunWork
  <1>e. ASSUME UNCHANGED chunks PROVE MyRows(t)' = MyRows(t)
    BY <1>c, <1>e DEF MyRows, VersionChunks
  <1>f. ASSUME snap'[w][t] = snap[w][t], body'[w][t].content = body[w][t].content
        PROVE  NewRows(w, t)' = NewRows(w, t)
    BY <1>c, <1>f DEF NewRows, NewChunks
  <1>1. CASE Proceeds(w, t)
    BY <1>1, <1>d, <1>e, <1>f DEF Proceeds, SameStore, RowsAsLeft
  <1>2. CASE Loads(w, t) \/ Collects(w, t) \/ Switches(w, t) \/ Ends(w, t)
    BY <1>2 DEF Loads, Collects, Switches, Ends, Gone, NoBody, Inside, RowsAsLeft
  <1>3. CASE Marks(w, t)
    BY <1>3, <1>e DEF Marks, Inside, SameStore, RowsAsLeft
  <1>4. CASE Writes(w, t)
    <2>1. chunks' = (chunks \ MyRows(t)) \cup NewRows(w, t)
      BY <1>4, <1>d DEF Writes, RowsAsLeft
    <2>2. \A c \in NewRows(w, t) : c.doc = docOf[t] /\ c.ver = ver[t]
      BY DEF NewRows, NewChunks
    <2>3. MyRows(t)' = NewRows(w, t)
      BY <1>c, <2>1, <2>2 DEF MyRows, VersionChunks
    <2> QED
      BY <1>4, <1>f, <2>3 DEF Writes, Inside, RowsAsLeft
  <1>5. CASE Lists(w, t)
    BY <1>5, <1>d, <1>e, <1>f DEF Lists, Inside, SameStore, RowsAsLeft
  <1>6. CASE Embeds(w, t)
    <2>1. PICK batch \in SUBSET body[w][t].rows :
             /\ embedded'[model[t]] = embedded[model[t]] \cup batch
             /\ body'[w][t].rows = body[w][t].rows \ batch
      BY <1>6, <1>b DEF Embeds, Inside
    <2> QED
      BY <1>6, <1>c, <1>d, <1>e, <1>f, <2>1 DEF Embeds, Inside, RowsAsLeft
  <1>7. CASE Flips(w, t)
    <2>1. MyRows(t)' = MyRows(t) /\ MyRows(t) \cap Superseded(t) = {}
      BY <1>7, <1>c DEF Flips, MyRows, VersionChunks, Superseded
    <2>2. MyRows(t) \subseteq embedded'[model[t]]
      BY <1>7, <1>b, <1>d, <2>1 DEF Flips, RowsAsLeft
    <2>3. live'[docOf[t]] = ver[t]
      BY <1>7, <1>b DEF Flips
    <2> QED
      BY <1>7, <1>c, <1>d, <1>f, <2>1, <2>2, <2>3 DEF Flips, Inside, RowsAsLeft
  <1> QED
    BY <1>1, <1>2, <1>3, <1>4, <1>5, <1>6, <1>7 DEF RunEffect

LEMMA RunWorkStep ==
    ASSUME Orderly, Orderly', Serial, RunWork, [RebuildNext]_rebuildVars
    PROVE  RunWork'
  <1>a. RebuildTypes /\ StoreType' /\ StoreType /\ BodyType(AllSteps) /\ RequestType(RebuildPhases)
    BY OrderlyTypes, PTL DEF Orderly, RebuildInv, RebuildTypes, PipelineTypes
  <1>b. SUFFICES ASSUME NEW v \in Workers, NEW u \in Tasks, docOf'[u] \in documents'
                 PROVE  RowsAsLeft(v, u)'
    BY DEF RunWork
  <1>c. docOf'[u] \in documents /\ docOf'[u] = docOf[u] => RowsAsLeft(v, u)
    BY DEF RunWork
  <1>d. CASE body'[v][u].at = "start"
    BY <1>d DEF RowsAsLeft
  <1>1. ASSUME NEW t \in Tasks, AskFrame(t), AskStep(t) PROVE RowsAsLeft(v, u)'
    <2>1. CASE u = t
      BY <1>1, <1>a, <1>d, <2>1, AskIdle DEF AskFrame, Orderly
    <2>2. CASE u # t
      <3>1. /\ docOf'[u] = docOf[u] /\ ver'[u] = ver[u] /\ model'[u] = model[u]
            /\ UNCHANGED <<chunks, embedded>> /\ SameRun(v, u)
        BY <1>1, <2>2 DEF AskFrame, SameRun
      <3>2. CASE docOf[u] \in Docs
        <4>1. Spent(docOf[u])
          BY <3>2 DEF Orderly, Registered
        <4>2. docOf[u] \in documents /\ live'[docOf[u]] = live[docOf[u]]
          BY <1>1, <1>b, <3>1, <3>2, <4>1
          DEF AskStep, Begins, Puts, Looks, Upserts, Creates, Updates, Submits, Skips, GivesUp, Checks,
              SameDocs, Moves, Spent
        <4> QED
          BY <1>a, <1>b, <1>c, <3>1, <3>2, <4>2, RowsUntouched
      <3>3. docOf[u] \in Docs
        BY <1>a, <1>b, <3>1 DEF StoreType
      <3> QED
        BY <3>2, <3>3
    <2> QED
      BY <2>1, <2>2
  <1>2. ASSUME NEW d \in Docs, Removes(d) PROVE RowsAsLeft(v, u)'
    <2>1. /\ docOf'[u] = docOf[u] /\ ver'[u] = ver[u] /\ model'[u] = model[u]
          /\ UNCHANGED live /\ SameRun(v, u) /\ docOf[u] \in documents /\ docOf[u] # d
      BY <1>2, <1>b DEF Removes, SameRuns, SameRun, requestVars, columnVars
    <2>2. \A c \in ChunkRows : c.doc = docOf[u] => (c \in chunks' <=> c \in chunks)
      BY <1>2, <2>1 DEF Removes
    <2>3. \A m \in Models : \A c \in embedded[m] : c.doc = docOf[u] => c \in embedded'[m]
      BY <1>2, <2>1 DEF Removes
    <2> QED
      BY <1>a, <1>b, <1>c, <2>1, <2>2, <2>3, RowsUntouched DEF StoreType
  <1>3. ASSUME NEW d \in Docs, Drops(d) PROVE RowsAsLeft(v, u)'
    <2>1. /\ docOf'[u] = docOf[u] /\ ver'[u] = ver[u] /\ model'[u] = model[u]
          /\ UNCHANGED <<documents, live, chunks, embedded>> /\ SameRun(v, u)
      BY <1>3 DEF Drops, SameRuns, SameRun, requestVars, columnVars
    <2> QED
      BY <1>a, <1>b, <1>c, <2>1, RowsUntouched DEF StoreType
  <1>4. CASE Ticks
    <2>1. /\ docOf'[u] = docOf[u] /\ ver'[u] = ver[u] /\ model'[u] = model[u]
          /\ UNCHANGED <<documents, live, chunks, embedded>>
      BY <1>4 DEF Ticks, requestVars, columnVars, storeVars
    <2>2. SameRun(v, u) \/ body'[v][u].at = "start"
      BY <1>4 DEF Ticks, Gone, NoBody
    <2> QED
      BY <1>a, <1>b, <1>c, <1>d, <2>1, <2>2, RowsUntouched DEF StoreType
  <1>5. ASSUME NEW w \in Workers, NEW t \in Tasks, RunFrame(w, t), RunEffect(w, t)
        PROVE  RowsAsLeft(v, u)'
    <2>1. /\ docOf'[u] = docOf[u] /\ ver'[u] = ver[u] /\ model'[u] = model[u]
          /\ docOf[u] \in documents /\ docOf[u] \in Docs /\ UNCHANGED documents
      BY <1>5, <1>a, <1>b DEF RunFrame, requestVars, columnVars, StoreType
    <2>2. CASE v = w /\ u = t
      BY <1>5, <2>1, <2>2, OwnRowsStep
    <2>3. CASE v # w \/ u # t
      <3>1. SameRun(v, u)
        BY <1>5, <2>3 DEF RunFrame
      <3>2. CASE body[v][u].at # "start"
        <4>1. pc[v][u] # "idle" /\ pc[w][t] # "idle"
          BY <1>5, <1>a, <3>2 DEF RunFrame, BodyType, InFlight
        <4>2. docOf[t] # docOf[u]
          BY <2>1, <2>3, <4>1, OneRun
        <4>3. Elsewhere(t)
          BY <1>5, RunElsewhere
        <4>4. \A c \in ChunkRows : c.doc = docOf[u] => (c \in chunks' <=> c \in chunks)
          BY <4>2, <4>3 DEF Elsewhere
        <4>5. \A m \in Models : \A c \in embedded[m] : c.doc = docOf[u] => c \in embedded'[m]
          BY <4>2, <4>3 DEF Elsewhere
        <4>6. live'[docOf[u]] = live[docOf[u]]
          BY <2>1, <4>2, <4>3 DEF Elsewhere
        <4> QED
          BY <1>a, <1>b, <1>c, <2>1, <3>1, <4>4, <4>5, <4>6, RowsUntouched
      <3> QED
        BY <1>d, <3>1, <3>2 DEF SameRun
    <2> QED
      BY <2>2, <2>3
  <1> QED
    BY <1>1, <1>2, <1>3, <1>4, <1>5, <1>a, StepFrames

-----------------------------------------------------------------------------
(* Readers see whole versions. *)

\* The chunks of one run are as many as its content is split into.
LEMMA NewChunksCount ==
    ASSUME NEW d \in Docs, NEW v \in Nat, NEW c \in Contents, NEW by \in Tasks \X Nat
    PROVE  /\ Cardinality(NewChunks(d, v, c, by)) = ChunkCount[c]
           /\ \A k \in NewChunks(d, v, c, by) : k.content = c
  <1> DEFINE n == ChunkCount[c]
  <1> DEFINE row(i) == [doc |-> d, ver |-> v, ord |-> i, content |-> c, by |-> by]
  <1> DEFINE f == [i \in 1..n |-> row(i)]
  <1>1. n \in Nat
    BY StoreAssumption
  <1>2. NewChunks(d, v, c, by) = {row(i) : i \in 1..n}
    BY DEF NewChunks
  <1>3. f \in Surjection(1..n, NewChunks(d, v, c, by))
    BY <1>2 DEF Surjection
  <1>4. \A i \in 1..n : f[i].ord = i /\ f[i].content = c
    OBVIOUS
  <1>5. f \in Injection(1..n, NewChunks(d, v, c, by))
    <2> HIDE DEF f, n
    <2>1. \A i, j \in 1..n : f[i] = f[j] => i = j
      BY <1>4
    <2> QED
      BY <1>3, <2>1 DEF Surjection, Injection, IsInjective
  <1>6. IsFiniteSet(1..n) /\ Cardinality(1..n) = n
    <2> HIDE DEF n
    <2>1. IsFiniteSet(1..n) /\ Cardinality(1..n) = IF 1 > n THEN 0 ELSE n - 1 + 1
      BY <1>1, FS_Interval
    <2> QED
      BY <1>1, <2>1
  <1> QED
    BY <1>2, <1>3, <1>5, <1>6, FS_Surjection

TurnInv == Orderly /\ Serial /\ RunWork

LEMMA TurnInit == RebuildInit => TurnInv
  <1>1. RebuildInit => Serial /\ RunWork
    BY DEF RebuildInit, PipelineInit, QueueInit, StoreInit, NoRequest, Serial, OnePerSlot, FoundStays,
           Engaged, Uploading, OpenStates, InFlight, RunWork
  <1> QED
    BY <1>1, OrderlyInit DEF TurnInv

LEMMA TurnStep ==
    ASSUME Overlap = "none", LeasesSuffice, TurnInv, [RebuildNext]_rebuildVars
    PROVE  TurnInv'
  <1>1. Orderly'
    BY OrderlyStep DEF TurnInv
  <1>2. Serial'
    BY SerialStep DEF TurnInv
  <1> QED
    BY <1>1, <1>2, RunWorkStep DEF TurnInv

\* A version that a run has written is all the chunks of one content.
LEMMA OneContent ==
    ASSUME TurnInv, NEW w \in Workers, NEW t \in Tasks, docOf[t] \in documents,
           body[w][t].at \in {"chunked", "listed", "flipped"}
    PROVE  /\ body[w][t].content \in Contents
           /\ \A k \in MyRows(t) : k.content = body[w][t].content
           /\ Cardinality(MyRows(t)) = ChunkCount[body[w][t].content]
  <1>1. RebuildTypes
    BY OrderlyTypes DEF TurnInv
  <1>2. docOf[t] \in Docs /\ body[w][t].content \in Contents /\ ver[t] \in Nat /\ snap[w][t] \in Nat
    BY <1>1 DEF RebuildTypes, PipelineTypes, BodyType, RequestType, TypeOK, Steps
  <1>3. MyRows(t) = NewRows(w, t)
    BY DEF TurnInv, RunWork, RowsAsLeft
  <1> QED
    BY <1>2, <1>3, NewChunksCount DEF NewRows

\* What a flip publishes, it publishes for the model of its job.
LEMMA FlipServes ==
    ASSUME TurnInv, NEW w \in Workers, NEW t \in Tasks, docOf[t] \in documents, Flips(w, t),
           RunFrame(w, t)
    PROVE  ServesWhole(docOf[t], model[t])'
  <1>a. RequestType(RebuildPhases) /\ StoreType /\ UNCHANGED <<docOf, model>>
    BY OrderlyTypes
    DEF TurnInv, RebuildTypes, PipelineTypes, RunFrame, requestVars, columnVars
  <1>1. /\ body[w][t].content \in Contents
        /\ \A k \in MyRows(t) : k.content = body[w][t].content
        /\ Cardinality(MyRows(t)) = ChunkCount[body[w][t].content]
        /\ MyRows(t) \subseteq embedded[model[t]]
    BY OneContent DEF Flips, TurnInv, RunWork, RowsAsLeft
  <1>2. live'[docOf[t]] = ver[t] /\ model[t] \in Models
    BY <1>a DEF Flips, RequestType, StoreType
  <1>3. LiveChunks(docOf[t])' = MyRows(t)
    BY <1>a, <1>2 DEF Flips, Superseded, LiveChunks, VersionChunks, MyRows
  <1>4. MyRows(t) \subseteq embedded'[model[t]]
    BY <1>1, <1>2 DEF Flips, Superseded, MyRows, VersionChunks
  <1> QED
    BY <1>a, <1>1, <1>2, <1>3, <1>4 DEF ServesWhole

\* With callers that take turns, a flip publishes the whole of a version and
\* nothing else, whatever crashes and retries have preceded it.
THEOREM FlipsPublishWhole ==
    ASSUME Overlap = "none", LeasesSuffice
    PROVE  RebuildSpec => FlipPublishesWhole
  <1>1. ASSUME TurnInv, [RebuildNext]_rebuildVars,
               NEW d \in documents \cap documents', live'[d] # live[d]
        PROVE  \E m \in Models : ServesWhole(d, m)'
    <2>a. RebuildTypes /\ StoreType /\ RequestType(RebuildPhases)
      BY <1>1, OrderlyTypes DEF TurnInv, RebuildTypes, PipelineTypes
    <2>b. d \in Docs /\ Spent(d)
      BY <1>1, <2>a DEF StoreType, TurnInv, Orderly, Registered
    <2>1. ASSUME NEW t \in Tasks, AskFrame(t), AskStep(t) PROVE FALSE
      BY <1>1, <2>1, <2>b
      DEF AskStep, Begins, Puts, Looks, Upserts, Creates, Updates, Submits, Skips, GivesUp, Checks,
          SameDocs, Moves, Spent
    <2>2. ~Ticks /\ \A e \in Docs : ~Removes(e) /\ ~Drops(e)
      BY <1>1 DEF Ticks, Removes, Drops, storeVars
    <2>3. PICK w \in Workers, t \in Tasks : RunFrame(w, t) /\ RunEffect(w, t)
      BY <1>1, <2>a, <2>1, <2>2, StepFrames
    <2>4. Flips(w, t) /\ docOf[t] = d
      <3>1. ~SameStore
        BY <1>1 DEF SameStore
      <3>2. Flips(w, t)
        BY <1>1, <2>3, <3>1
        DEF RunEffect, Proceeds, Loads, Marks, Writes, Lists, Embeds, Collects, Switches, Ends
      <3> QED
        BY <1>1, <2>b, <3>2 DEF Flips
    <2>5. ServesWhole(docOf[t], model[t])' /\ UNCHANGED <<docOf, model>>
      BY <1>1, <2>3, <2>4, FlipServes DEF RunFrame, requestVars, columnVars
    <2>6. model[t] \in Models
      BY <2>a DEF RequestType
    <2> QED
      BY <2>4, <2>5, <2>6 DEF ServesWhole
  <1>2. TurnInv /\ [RebuildNext]_rebuildVars =>
           [\A d \in documents \cap documents' : live'[d] # live[d] =>
               \E m \in Models : ServesWhole(d, m)']_pipelineVars
    BY <1>1
  <1> QED
    BY <1>2, TurnInit, TurnStep, PTL DEF RebuildSpec, FlipPublishesWhole

-----------------------------------------------------------------------------
(* The counters of a job. *)

\* A request leaves the documents of the other requests alone.
LEMMA AskElsewhere ==
    ASSUME RebuildTypes, Registered, NEW t \in Tasks, AskFrame(t), AskStep(t),
           NEW u \in Tasks, docOf[u] \in documents', docOf[u] \in Docs
    PROVE  docOf[u] \in documents /\ live'[docOf[u]] = live[docOf[u]]
                                  /\ slot'[docOf[u]] = slot[docOf[u]]
  <1>1. Spent(docOf[u])
    BY DEF Registered
  <1> QED
    BY <1>1
    DEF AskStep, Begins, Puts, Looks, Upserts, Creates, Updates, Submits, Skips, GivesUp, Checks,
        SameDocs, Moves, Spent

\* What is counted as embedded and what the run still has in hand make up for
\* what was counted as found.
Counted(w, t) ==
    /\ body[w][t].at \in {"loaded", "deleting"} => pc[w][t] # "embedding"
    /\ docOf[t] \in documents =>
          /\ body[w][t].at = "chunked" /\ pc[w][t] = "embedding" =>
                chunkCount[t] = ChunkCount[body[w][t].content]
          /\ body[w][t].at \in {"listed", "flipped"} =>
                chunkCount[t] <= embedCount[t] + Cardinality(body[w][t].rows)
    /\ body[w][t].at \in RebuildSteps =>
          chunkCount[t] <= embedCount[t] + Cardinality(body[w][t].rows)

RunsCount == \A w \in Workers, t \in Tasks : Counted(w, t)

LEMMA OwnCountStep ==
    ASSUME TurnInv, RunsCount, NEW w \in Workers, NEW t \in Tasks,
           RunFrame(w, t), RunEffect(w, t)
    PROVE  Counted(w, t)'
  <1>a. /\ TypeOK /\ StoreType /\ RequestType(RebuildPhases) /\ BodyType(AllSteps) /\ CountType
        /\ IsFiniteSet(chunks)
    BY OrderlyTypes DEF TurnInv, RebuildTypes, PipelineTypes
  <1>b. /\ IsFiniteSet(body[w][t].rows) /\ Cardinality(body[w][t].rows) \in Nat
        /\ chunkCount[t] \in Nat /\ embedCount[t] \in Nat
    BY <1>a, FS_CardinalityType DEF BodyType, CountType
  <1>c. UNCHANGED <<docOf, documents>>
    BY DEF RunFrame, requestVars, columnVars
  <1>d. Counted(w, t)
    BY DEF RunsCount
  <1>e. Cardinality({}) = 0
    BY FS_EmptySet
  <1>f. \A S \in SUBSET chunks : Cardinality(S) \in Nat
    BY <1>a, FS_Subset, FS_CardinalityType
  <1>1. CASE Proceeds(w, t)
    BY <1>1, <1>d DEF Proceeds, Counted, RebuildSteps
  <1>2. CASE Loads(w, t) \/ Marks(w, t) \/ Writes(w, t)
    BY <1>2, <1>d DEF Loads, Marks, Writes, Inside, Counted, RebuildSteps
  <1>3. CASE Lists(w, t)
    <2>1. docOf[t] \in documents =>
             chunkCount[t] = Cardinality(MyRows(t)) /\ Cardinality(MyRows(t)) \in Nat
      BY <1>3, <1>d, <1>f, OneContent DEF Lists, Counted, MyRows, VersionChunks
    <2> QED
      BY <1>3, <1>b, <1>c, <2>1 DEF Lists, Inside, SameCounts, Counted, RebuildSteps
  <1>4. CASE Embeds(w, t)
    <2>1. PICK batch \in SUBSET body[w][t].rows :
             /\ body[w][t].at \in {"listed", "missing", "sweep"}
             /\ Inside(w, t, body[w][t].at, body[w][t].content, body[w][t].rows \ batch)
             /\ embedCount'[t] = embedCount[t] + Cardinality(batch)
             /\ chunkCount'[t] = chunkCount[t]
      BY <1>4 DEF Embeds
    <2>2. body[w][t].rows \cap batch = batch
      BY <2>1
    <2>3. /\ Cardinality(batch) \in Nat
          /\ Cardinality(body[w][t].rows \ batch) = Cardinality(body[w][t].rows) - Cardinality(batch)
      BY <1>b, <2>2, FS_Difference, FS_Subset, FS_CardinalityType
    <2> QED
      BY <1>b, <1>c, <1>d, <2>1, <2>3 DEF Inside, Counted, RebuildSteps
  <1>5. CASE Flips(w, t) \/ Switches(w, t)
    BY <1>5, <1>c, <1>d DEF Flips, Switches, Inside, SameCounts, Counted, RebuildSteps
  <1>6. CASE Collects(w, t)
    <2>1. Cardinality(Missing(t)) \in Nat
      BY <1>f DEF Missing
    <2>2. /\ body'[w][t].at \in RebuildSteps /\ body'[w][t].rows = Missing(t)
          /\ embedCount'[t] = embedCount[t]
          /\ \/ chunkCount'[t] = Cardinality(Missing(t))
             \/ /\ chunkCount'[t] = chunkCount[t]
                /\ body[w][t].at = "missing" /\ body[w][t].rows = {}
      BY <1>6 DEF Collects, Inside, RebuildSteps
    <2>3. chunkCount'[t] <= embedCount[t] + Cardinality(Missing(t))
      <3>1. CASE chunkCount'[t] = Cardinality(Missing(t))
        BY <1>b, <2>1, <3>1
      <3>2. CASE /\ chunkCount'[t] = chunkCount[t]
                 /\ body[w][t].at = "missing" /\ body[w][t].rows = {}
        <4>1. chunkCount[t] <= embedCount[t] + 0
          BY <1>d, <1>e, <3>2 DEF Counted, RebuildSteps
        <4> QED
          BY <1>b, <2>1, <3>2, <4>1
      <3> QED
        BY <2>2, <3>1, <3>2
    <2> QED
      BY <2>2, <2>3 DEF Counted, RebuildSteps
  <1>7. CASE Ends(w, t)
    BY <1>7 DEF Ends, Gone, NoBody, Counted, RebuildSteps
  <1> QED
    BY <1>1, <1>2, <1>3, <1>4, <1>5, <1>6, <1>7 DEF RunEffect

\* The counts of a job that has been claimed once.  Before the run has listed
\* its chunks nothing is counted, and from then on the counts add up exactly.
FirstRun(w, t) ==
    /\ pc[w][t] # "idle" => attempts[t] > 0
    /\ attempts[t] = 1 /\ pc[w][t] # "idle"
       /\ body[w][t].at \in {"start", "loaded", "deleting", "chunked"} => embedCount[t] = 0
    /\ attempts[t] = 1 /\ docOf[t] \in documents /\ body[w][t].at \in {"listed", "flipped"} =>
          chunkCount[t] = embedCount[t] + Cardinality(body[w][t].rows)

FirstRuns == \A w \in Workers, t \in Tasks : FirstRun(w, t)

Claims ==
    \A t \in Tasks : /\ attempts[t] = 0 => embedCount[t] = 0
                     /\ state[t] = "done" => attempts[t] > 0

FirstInv == FirstRuns /\ Claims

LEMMA OwnFirstStep ==
    ASSUME TurnInv, RunsCount, FirstRuns, NEW w \in Workers, NEW t \in Tasks,
           RunFrame(w, t), RunEffect(w, t)
    PROVE  FirstRun(w, t)'
  <1>a. /\ TypeOK /\ BodyType(AllSteps) /\ CountType /\ IsFiniteSet(chunks)
    BY OrderlyTypes DEF TurnInv, RebuildTypes, PipelineTypes, StoreType
  <1>b. /\ IsFiniteSet(body[w][t].rows) /\ Cardinality(body[w][t].rows) \in Nat
        /\ chunkCount[t] \in Nat /\ embedCount[t] \in Nat
    BY <1>a, FS_CardinalityType DEF BodyType, CountType
  <1>c. UNCHANGED <<docOf, documents, attempts>> /\ pc[w][t] # "idle"
    BY DEF RunFrame, requestVars, columnVars
  <1>d. FirstRun(w, t) /\ Counted(w, t)
    BY DEF FirstRuns, RunsCount
  <1>1. CASE Proceeds(w, t)
    BY <1>1, <1>c, <1>d DEF Proceeds, FirstRun
  <1>2. CASE Loads(w, t) \/ Marks(w, t) \/ Writes(w, t)
    BY <1>2, <1>c, <1>d DEF Loads, Marks, Writes, Inside, SameCounts, FirstRun
  <1>3. CASE Lists(w, t)
    <2>1. docOf[t] \in documents => chunkCount[t] = Cardinality(MyRows(t))
      BY <1>3, <1>d, OneContent DEF Lists, Counted, MyRows, VersionChunks
    <2>2. attempts[t] = 1 => embedCount[t] = 0
      BY <1>3, <1>c, <1>d DEF Lists, FirstRun
    <2> QED
      BY <1>3, <1>b, <1>c, <1>d, <2>1, <2>2 DEF Lists, Inside, SameCounts, FirstRun
  <1>4. CASE Embeds(w, t)
    <2>1. PICK batch \in SUBSET body[w][t].rows :
             /\ body[w][t].at \in {"listed", "missing", "sweep"}
             /\ Inside(w, t, body[w][t].at, body[w][t].content, body[w][t].rows \ batch)
             /\ embedCount'[t] = embedCount[t] + Cardinality(batch)
             /\ chunkCount'[t] = chunkCount[t]
      BY <1>4 DEF Embeds
    <2>2. body[w][t].rows \cap batch = batch
      BY <2>1
    <2>3. /\ Cardinality(batch) \in Nat
          /\ Cardinality(body[w][t].rows \ batch) = Cardinality(body[w][t].rows) - Cardinality(batch)
      BY <1>b, <2>2, FS_Difference, FS_Subset, FS_CardinalityType
    <2> QED
      BY <1>b, <1>c, <1>d, <2>1, <2>3 DEF Inside, FirstRun
  <1>5. CASE Flips(w, t) \/ Switches(w, t)
    BY <1>5, <1>c, <1>d DEF Flips, Switches, Inside, SameCounts, FirstRun
  <1>6. CASE Collects(w, t)
    BY <1>6, <1>c, <1>d DEF Collects, Inside, FirstRun
  <1>7. CASE Ends(w, t)
    BY <1>7 DEF Ends, Gone, NoBody, FirstRun
  <1> QED
    BY <1>1, <1>2, <1>3, <1>4, <1>5, <1>6, <1>7 DEF RunEffect

LEMMA FirstStep ==
    ASSUME TurnInv, TurnInv', RunsCount, FirstInv, [RebuildNext]_rebuildVars
    PROVE  FirstInv'
  <1>a. RebuildTypes /\ Orderly /\ BodyType(AllSteps) /\ StoreType' /\ TypeOK
    <2>1. RebuildTypes /\ RebuildTypes'
      BY OrderlyTypes, PTL DEF TurnInv
    <2> QED
      BY <2>1 DEF TurnInv, RebuildTypes, PipelineTypes
  <1>b. ASSUME NEW v \in Workers, NEW u \in Tasks, docOf'[u] = docOf[u], attempts'[u] = attempts[u],
               docOf[u] \in documents' => docOf[u] \in documents, SameRun(v, u), SameCounts(u)
        PROVE  FirstRun(v, u)'
    BY <1>b DEF FirstInv, FirstRuns, FirstRun, SameRun, SameCounts
  <1>c. ASSUME NEW v \in Workers, NEW u \in Tasks, pc'[v][u] = "idle", body'[v][u].at = "start"
        PROVE  FirstRun(v, u)'
    BY <1>c DEF FirstRun
  <1>1. ASSUME NEW t \in Tasks, AskFrame(t), AskStep(t) PROVE FirstInv'
    <2>1. ASSUME NEW v \in Workers, NEW u \in Tasks PROVE FirstRun(v, u)'
      <3>1. CASE u = t
        BY <1>1, <1>a, <1>c, <3>1, AskIdle DEF AskFrame, Orderly
      <3>2. CASE u # t
        BY <1>1, <1>a, <1>b, <3>2, AskElsewhere
        DEF AskFrame, SameRun, SameCounts, Orderly, StoreType
      <3> QED
        BY <3>1, <3>2
    <2>2. \A u \in Tasks : state'[u] = "done" => state[u] = "done"
      BY <1>1
      DEF AskFrame, AskStep, Begins, Puts, Looks, Upserts, Creates, Updates, Submits, Skips, GivesUp,
          Checks, SameRow
    <2> QED
      BY <1>1, <2>1, <2>2 DEF AskFrame, FirstInv, FirstRuns, Claims
  <1>2. ASSUME NEW d \in Docs, Removes(d) \/ Drops(d) PROVE FirstInv'
    <2>1. /\ UNCHANGED <<docOf, counterVars>> /\ SameRuns /\ documents' \subseteq documents
          /\ \A t \in Tasks : state'[t] = "done" => state[t] = "done"
      BY <1>2 DEF Removes, Drops, requestVars, columnVars
    <2>2. FirstRuns'
      BY <1>b, <2>1 DEF SameRuns, SameRun, SameCounts, counterVars, FirstRuns
    <2> QED
      BY <2>1, <2>2 DEF SameRuns, counterVars, FirstInv, Claims
  <1>3. CASE Ticks
    <2>1. UNCHANGED <<docOf, counterVars, documents>>
      BY <1>3 DEF Ticks, requestVars, columnVars, storeVars
    <2>2. \A t \in Tasks : attempts[t] \in Nat /\ attempts'[t] \in {attempts[t], attempts[t] + 1}
      BY <1>3, <1>a DEF Ticks, TypeOK
    <2>3. ASSUME NEW v \in Workers, NEW u \in Tasks PROVE FirstRun(v, u)'
      <3>1. CASE pc'[v][u] = "idle" /\ body'[v][u].at = "start"
        BY <1>c, <3>1
      <3>2. CASE SameRun(v, u) /\ attempts'[u] = attempts[u]
        BY <1>b, <2>1, <3>2 DEF SameCounts, counterVars
      <3>3. CASE SameRun(v, u) /\ attempts'[u] = attempts[u] + 1
        <4>1. CASE pc[v][u] = "idle"
          BY <1>a, <1>c, <3>3, <4>1 DEF SameRun, BodyType, InFlight
        <4>2. CASE pc[v][u] # "idle"
          BY <2>2, <3>3, <4>2 DEF FirstInv, FirstRuns, FirstRun
        <4> QED
          BY <4>1, <4>2
      <3>4. CASE pc'[v][u] = "claimed" /\ body'[v][u].at = "start" /\ attempts'[u] = attempts[u] + 1
        BY <2>1, <2>2, <3>4 DEF FirstInv, Claims, FirstRun, counterVars
      <3> QED
        BY <1>3, <2>2, <3>1, <3>2, <3>3, <3>4 DEF Ticks, Gone, NoBody
    <2>4. \A t \in Tasks : state'[t] = "done" => state[t] = "done"
      BY <1>3 DEF Ticks, InFlight
    <2> QED
      BY <2>1, <2>2, <2>3, <2>4 DEF counterVars, FirstInv, FirstRuns, Claims
  <1>4. ASSUME NEW w \in Workers, NEW t \in Tasks, RunFrame(w, t), RunEffect(w, t)
        PROVE  FirstInv'
    <2>1. UNCHANGED <<docOf, documents, attempts>> /\ pc[w][t] # "idle" /\ attempts[t] > 0
      BY <1>4 DEF RunFrame, requestVars, columnVars, FirstInv, FirstRuns, FirstRun
    <2>2. FirstRun(w, t)'
      BY <1>4, OwnFirstStep DEF FirstInv
    <2>3. ASSUME NEW v \in Workers, NEW u \in Tasks, v # w \/ u # t PROVE FirstRun(v, u)'
      <3>1. SameRun(v, u)
        BY <1>4, <2>3 DEF RunFrame
      <3>2. CASE u # t
        BY <1>4, <1>b, <2>1, <3>1, <3>2 DEF RunFrame
      <3>3. CASE u = t
        <4>1. pc[v][u] = "idle"
          BY <1>4, <1>a, <2>3, <3>3 DEF RunFrame, Orderly, Exclusive, NoDoubleProcess
        <4> QED
          BY <1>a, <1>c, <3>1, <4>1 DEF SameRun, BodyType, InFlight
      <3> QED
        BY <3>2, <3>3
    <2>4. Claims'
      BY <1>4, <1>a, <2>1 DEF RunFrame, SameCounts, FirstInv, Claims, TypeOK
    <2> QED
      BY <2>2, <2>3, <2>4 DEF FirstInv, FirstRuns
  <1> QED
    BY <1>1, <1>2, <1>3, <1>4, <1>a, StepFrames

CountsInv == RunsCount /\ FirstInv /\ DoneCountsAddUp

LEMMA CountsStep ==
    ASSUME TurnInv, TurnInv', CountsInv, [RebuildNext]_rebuildVars
    PROVE  CountsInv'
  <1>a. RebuildTypes /\ Orderly /\ BodyType(AllSteps) /\ StoreType' /\ TypeOK
    <2>1. RebuildTypes /\ RebuildTypes'
      BY OrderlyTypes, PTL DEF TurnInv
    <2> QED
      BY <2>1 DEF TurnInv, RebuildTypes, PipelineTypes
  <1>b. ASSUME NEW v \in Workers, NEW u \in Tasks, docOf'[u] = docOf[u],
               docOf[u] \in documents' => docOf[u] \in documents, SameRun(v, u), SameCounts(u)
        PROVE  Counted(v, u)'
    BY <1>b DEF CountsInv, RunsCount, Counted, SameRun, SameCounts
  <1>c. ASSUME NEW v \in Workers, NEW u \in Tasks, body'[v][u].at = "start"
        PROVE  Counted(v, u)'
    BY <1>c DEF Counted, RebuildSteps
  <1>d. FirstInv'
    BY FirstStep DEF CountsInv
  <1>1. ASSUME NEW t \in Tasks, AskFrame(t), AskStep(t) PROVE CountsInv'
    <2>1. ASSUME NEW v \in Workers, NEW u \in Tasks PROVE Counted(v, u)'
      <3>1. CASE u = t
        BY <1>1, <1>a, <1>c, <3>1, AskIdle DEF AskFrame, Orderly
      <3>2. CASE u # t
        BY <1>1, <1>a, <1>b, <3>2, AskElsewhere
        DEF AskFrame, SameRun, SameCounts, Orderly, StoreType
      <3> QED
        BY <3>1, <3>2
    <2>2. \A u \in Tasks : state'[u] = "done" => state[u] = "done" /\ u # t
      BY <1>1, <1>a, AskIdle
      DEF Orderly, AskFrame, AskStep, Begins, Puts, Looks, Upserts, Creates, Updates, Submits, Skips, GivesUp,
          Checks, SameRow
    <2> QED
      BY <1>1, <1>d, <2>1, <2>2 DEF AskFrame, CountsInv, RunsCount, DoneCountsAddUp
  <1>2. ASSUME NEW d \in Docs, Removes(d) \/ Drops(d) PROVE CountsInv'
    <2>1. /\ UNCHANGED <<docOf, counterVars, jobType>> /\ SameRuns /\ documents' \subseteq documents
          /\ \A t \in Tasks : state'[t] = "done" => state[t] = "done"
      BY <1>2 DEF Removes, Drops, requestVars, columnVars
    <2>2. RunsCount'
      BY <1>b, <2>1 DEF SameRuns, SameRun, SameCounts, counterVars, RunsCount
    <2> QED
      BY <1>d, <2>1, <2>2 DEF SameRuns, counterVars, CountsInv, DoneCountsAddUp
  <1>3. CASE Ticks
    <2>1. /\ UNCHANGED <<docOf, counterVars, documents, jobType>>
          /\ \A t \in Tasks : state'[t] = "done" => state[t] = "done"
      BY <1>3 DEF Ticks, InFlight, requestVars, columnVars, storeVars
    <2>2. \A v \in Workers, u \in Tasks : SameRun(v, u) \/ body'[v][u].at = "start"
      BY <1>3 DEF Ticks, Gone, NoBody
    <2>3. RunsCount'
      BY <1>b, <1>c, <2>1, <2>2 DEF SameCounts, counterVars, RunsCount
    <2>4. \A u \in Tasks : state[u] = "done" /\ attempts'[u] = 1 => attempts[u] = 1
      BY <1>3, <1>a DEF Ticks, TypeOK, CountsInv, FirstInv, Claims
    <2> QED
      BY <1>d, <2>1, <2>3, <2>4 DEF counterVars, CountsInv, DoneCountsAddUp
  <1>4. ASSUME NEW w \in Workers, NEW t \in Tasks, RunFrame(w, t), RunEffect(w, t)
        PROVE  CountsInv'
    <2>1. UNCHANGED <<docOf, documents, jobType, attempts>>
      BY <1>4 DEF RunFrame, requestVars, columnVars
    <2>2. Counted(w, t)'
      BY <1>4, OwnCountStep DEF CountsInv
    <2>3. ASSUME NEW v \in Workers, NEW u \in Tasks, v # w \/ u # t PROVE Counted(v, u)'
      <3>1. SameRun(v, u)
        BY <1>4, <2>3 DEF RunFrame
      <3>2. CASE u # t
        BY <1>4, <1>b, <2>1, <3>1, <3>2 DEF RunFrame
      <3>3. CASE u = t
        <4>1. pc[v][u] = "idle"
          BY <1>4, <1>a, <2>3, <3>3 DEF RunFrame, Orderly, Exclusive, NoDoubleProcess
        <4> QED
          BY <1>a, <1>c, <3>1, <4>1 DEF SameRun, BodyType, InFlight
      <3> QED
        BY <3>2, <3>3
    <2>4. RunsCount'
      BY <2>2, <2>3 DEF RunsCount
    <2>5. DoneCountsAddUp'
      <3>1. ASSUME state'[t] = "done"
            PROVE  /\ embedCount'[t] >= chunkCount'[t]
                   /\ jobType[t] = "ingest" /\ attempts[t] = 1 => embedCount'[t] = chunkCount'[t]
        <4>1. state[t] \in InFlight \cup {"removed"} /\ "done" \notin InFlight \cup {"removed"}
          BY <1>4, <1>a, RunInFlight DEF RunFrame, InFlight
        <4>2. Ends(w, t)
          BY <1>4, <3>1, <4>1
          DEF RunEffect, Proceeds, Loads, Marks, Writes, Lists, Embeds, Flips, Collects, Switches,
              Inside
        <4>3. state[t] \in InFlight /\ SameCounts(t)
              /\ \/ body[w][t].at \in {"flipped", "switched"}
                 \/ body[w][t].at = "sweep" /\ body[w][t].rows = {}
          BY <3>1, <4>1, <4>2 DEF Ends
        <4>4. body[w][t].rows = {} /\ Cardinality({}) = 0
          BY <4>3, FS_EmptySet, <1>a DEF Orderly, InHand
        <4>5. body[w][t].at = "flipped" => docOf[t] \in documents
          BY <1>a, <4>3 DEF Orderly, InHand, Registered, Steps, Present
        <4>6. chunkCount[t] <= embedCount[t] + 0
          BY <4>3, <4>4, <4>5 DEF CountsInv, RunsCount, Counted, RebuildSteps
        <4>7. jobType[t] = "ingest" => body[w][t].at = "flipped"
          BY <1>a, <4>3, <4>2 DEF Orderly, InHand, RebuildSteps
        <4>8. jobType[t] = "ingest" /\ attempts[t] = 1 => chunkCount[t] = embedCount[t] + 0
          BY <4>4, <4>5, <4>7 DEF CountsInv, FirstInv, FirstRuns, FirstRun
        <4> QED
          BY <1>a, <4>3, <4>6, <4>8 DEF SameCounts, RebuildTypes, PipelineTypes, CountType
      <3> QED
        BY <1>4, <2>1, <3>1 DEF RunFrame, SameCounts, CountsInv, DoneCountsAddUp
    <2> QED
      BY <1>d, <2>4, <2>5 DEF CountsInv
  <1> QED
    BY <1>1, <1>2, <1>3, <1>4, <1>a, StepFrames

\* With callers that take turns, a job that is done has embedded at least as
\* many chunks as it has counted, over all its attempts, whether it ingests a
\* document or rebuilds the embeddings; and an upload exactly as many, if its first
\* attempt has done it.
THEOREM DoneCounts ==
    ASSUME Overlap = "none", LeasesSuffice
    PROVE  RebuildSpec => []DoneCountsAddUp
  <1>1. RebuildInit => CountsInv
    BY DEF RebuildInit, PipelineInit, QueueInit, NoBody, CountsInv, RunsCount, Counted,
           FirstInv, FirstRuns, FirstRun, Claims, DoneCountsAddUp, RebuildSteps
  <1>2. TurnInv /\ CountsInv /\ [RebuildNext]_rebuildVars => (TurnInv /\ CountsInv)'
    BY TurnStep, CountsStep
  <1>3. CountsInv => DoneCountsAddUp
    BY DEF CountsInv
  <1> QED
    BY <1>1, <1>2, <1>3, TurnInit, PTL DEF RebuildSpec

-----------------------------------------------------------------------------
(* Changing the model.                                                     *)

\* Task t asks for a model change or is carrying it out.
ChangeBy(t) ==
    \/ req[t].phase = "checked"
    \/ jobType[t] = "rebuild" /\ state[t] \in OpenStates

\* Callers who keep apart never change the model while anybody uploads.
ChangesApart == \A t, u \in Tasks : ChangeBy(t) => ~Engaged(u)

\* Administrators who take turns change the model one at a time.  older is only
\* ever filled with jobs that are there.
OneChange ==
    /\ \A t, u \in Tasks : ChangeBy(t) /\ ChangeBy(u) => t = u
    /\ \A t, u \in Tasks : t \in older[u] => state[t] # "absent"
    /\ \A t, u \in Tasks : ChangeBy(t) /\ jobType[u] = "rebuild" => t \notin older[u]

\* Who uploads or has an ingest job that is not finished is Ingesting; who
\* changes the model is Changing.
LEMMA ApartMeans ==
    ASSUME RebuildTypes, Registered, NEW t \in Tasks
    PROVE  /\ Engaged(t) => Ingesting
           /\ ChangeBy(t) => Changing
  <1>1. req[t].phase \in Uploading \cup {"enqueueing"} => req[t].slot \in Slots
    BY DEF Registered, RebuildTypes, PipelineTypes, RequestType, StoreType
  <1>2. req[t].phase \in Uploading \cup {"enqueueing"} => t \in InUpload(req[t].slot)
    BY DEF InUpload, Uploading
  <1> QED
    BY <1>1, <1>2 DEF Engaged, Ingesting, OpenStates, ChangeBy, Changing, RebuildOpen, At

\* A request begins to upload or to change the model in one step, and nothing
\* else engages it.
LEMMA AskEngages ==
    ASSUME RebuildTypes, Registered, NEW t \in Tasks, AskFrame(t), AskStep(t)
    PROVE  /\ Engaged(t)' => Engaged(t) \/ Begins(t)
           /\ ChangeBy(t)' => ChangeBy(t) \/ Checks(t)
           /\ Begins(t) => ~ChangeBy(t)'
           /\ Checks(t) => ~Engaged(t)'
           /\ Upserts(t) \/ (Submits(t) /\ jobType'[t] = "ingest") => Engaged(t)
           /\ Submits(t) /\ jobType'[t] = "rebuild" => ChangeBy(t)
  <1>1. state[t] = "absent" /\ "absent" \notin OpenStates
    BY AskIdle DEF OpenStates, InFlight
  <1>2. CASE Begins(t)
    BY <1>1, <1>2 DEF Begins, Moves, SameRow, ChangeBy, Upserts, Creates, Updates, Submits, Checks
  <1>3. CASE Puts(t) \/ Looks(t) \/ GivesUp(t)
    BY <1>1, <1>3
    DEF Puts, Looks, GivesUp, Moves, SameRow, ChangeBy, Engaged, Begins, Checks, Upserts, Creates,
        Updates, Submits, Uploading
  <1>4. CASE Upserts(t)
    BY <1>1, <1>4
    DEF Begins, Checks, Upserts, Creates, Updates, Submits, Moves, SameRow, ChangeBy, Engaged,
        Uploading
  <1>5. CASE Submits(t)
    BY <1>1, <1>5
    DEF Begins, Checks, Upserts, Creates, Updates, Submits, Moves, ChangeBy, Engaged, Uploading
  <1>6. CASE Skips(t)
    BY <1>1, <1>6
    DEF Skips, Begins, Checks, Upserts, Creates, Updates, Submits, Moves, ChangeBy, Engaged,
        Uploading, OpenStates, InFlight
  <1>7. CASE Checks(t)
    BY <1>1, <1>7
    DEF Begins, Checks, Upserts, Creates, Updates, Submits, Moves, SameRow, ChangeBy, Engaged,
        Uploading
  <1> QED
    BY <1>2, <1>3, <1>4, <1>5, <1>6, <1>7 DEF AskStep

\* A row that is there stays there, removed at most.
LEMMA RowsPresent ==
    ASSUME Orderly, Orderly', [RebuildNext]_rebuildVars, NEW t \in Tasks, state[t] # "absent"
    PROVE  state'[t] # "absent"
  <1>a. RebuildTypes /\ Registered
    BY OrderlyTypes DEF Orderly
  <1>1. ASSUME NEW u \in Tasks, AskFrame(u), AskStep(u) PROVE state'[t] # "absent"
    BY <1>1, <1>a, AskIdle DEF AskFrame
  <1>2. ASSUME NEW d \in Docs, Removes(d) \/ Drops(d) PROVE state'[t] # "absent"
    BY <1>2 DEF Removes, Drops
  <1>3. CASE Ticks
    BY <1>3 DEF Ticks, InFlight
  <1>4. ASSUME NEW w \in Workers, NEW u \in Tasks, RunFrame(w, u), RunEffect(w, u)
        PROVE  state'[t] # "absent"
    BY <1>4
    DEF RunFrame, RunEffect, Proceeds, Loads, Marks, Writes, Lists, Embeds, Flips, Collects,
        Switches, Ends, Inside, InFlight
  <1> QED
    BY <1>1, <1>2, <1>3, <1>4, <1>a, StepFrames

\* What is engaged or changes the model after a step that no request takes was so
\* before.
LEMMA OthersEngageNone ==
    ASSUME Orderly, [RebuildNext]_rebuildVars,
           \A t \in Tasks : ~(AskFrame(t) /\ AskStep(t))
    PROVE  /\ UNCHANGED <<req, jobType, older>>
           /\ \A t \in Tasks : (Engaged(t)' => Engaged(t)) /\ (ChangeBy(t)' => ChangeBy(t))
  <1>a. RebuildTypes
    BY OrderlyTypes
  <1>1. ASSUME UNCHANGED <<req, jobType, older>>,
               \A t \in Tasks : state'[t] \in OpenStates => state[t] \in OpenStates
        PROVE  /\ UNCHANGED <<req, jobType, older>>
               /\ \A t \in Tasks : (Engaged(t)' => Engaged(t)) /\ (ChangeBy(t)' => ChangeBy(t))
    BY <1>1 DEF Engaged, ChangeBy
  <1>2. CASE \E d \in Docs : Removes(d) \/ Drops(d)
    BY <1>1, <1>2 DEF Removes, Drops, requestVars, OpenStates, InFlight
  <1>3. CASE Ticks
    BY <1>1, <1>3 DEF Ticks, requestVars
  <1>4. ASSUME NEW w \in Workers, NEW t \in Tasks, RunFrame(w, t), RunEffect(w, t)
        PROVE  /\ UNCHANGED <<req, jobType, older>>
               /\ \A u \in Tasks : (Engaged(u)' => Engaged(u)) /\ (ChangeBy(u)' => ChangeBy(u))
    BY <1>1, <1>4, RunEngages DEF RunFrame, requestVars
  <1> QED
    BY <1>2, <1>3, <1>4, <1>a, StepFrames

LEMMA ChangesApartStep ==
    ASSUME Apart, Orderly, ChangesApart, [RebuildNext]_rebuildVars
    PROVE  ChangesApart'
  <1>a. RebuildTypes /\ Registered
    BY OrderlyTypes DEF Orderly
  <1>1. ASSUME NEW t \in Tasks, AskFrame(t), AskStep(t) PROVE ChangesApart'
    <2>1. \A u \in Tasks \ {t} : (Engaged(u)' <=> Engaged(u)) /\ (ChangeBy(u)' <=> ChangeBy(u))
      BY <1>1 DEF AskFrame, Engaged, ChangeBy
    <2>2. /\ Engaged(t)' => Engaged(t) \/ Begins(t)
          /\ ChangeBy(t)' => ChangeBy(t) \/ Checks(t)
          /\ Begins(t) => ~ChangeBy(t)'
          /\ Checks(t) => ~Engaged(t)'
      BY <1>1, <1>a, AskEngages
    <2>3. Begins(t) => \A u \in Tasks : ~ChangeBy(u)
      BY <1>a, ApartMeans DEF Begins
    <2>4. Checks(t) => \A u \in Tasks : ~Engaged(u)
      BY <1>a, ApartMeans DEF Checks
    <2> QED
      BY <2>1, <2>2, <2>3, <2>4 DEF ChangesApart
  <1>2. CASE \A t \in Tasks : ~(AskFrame(t) /\ AskStep(t))
    BY <1>2, OthersEngageNone DEF ChangesApart
  <1> QED
    BY <1>1, <1>2

LEMMA OneChangeStep ==
    ASSUME OneAdmin, Orderly, Orderly', OneChange, [RebuildNext]_rebuildVars
    PROVE  OneChange'
  <1>a. RebuildTypes /\ Registered
    BY OrderlyTypes DEF Orderly
  <1>b. \A t \in Tasks : state[t] # "absent" => state'[t] # "absent"
    BY RowsPresent
  <1>1. ASSUME NEW t \in Tasks, AskFrame(t), AskStep(t) PROVE OneChange'
    <2>1. \A u \in Tasks \ {t} : /\ ChangeBy(u)' <=> ChangeBy(u)
                                 /\ older'[u] = older[u] /\ jobType'[u] = jobType[u]
      BY <1>1 DEF AskFrame, ChangeBy
    <2>2. ChangeBy(t)' => ChangeBy(t) \/ Checks(t)
      BY <1>1, <1>a, AskEngages
    <2>4. Checks(t) => \A u \in Tasks : ~ChangeBy(u)
      BY DEF Checks, ChangeBy, RebuildOpen, OpenStates
    <2>5. \A u, v \in Tasks : ChangeBy(u)' /\ ChangeBy(v)' => u = v
      BY <2>1, <2>2, <2>4 DEF OneChange
    <2>7. \/ older'[t] = older[t] /\ jobType'[t] = jobType[t]
          \/ /\ older'[t] = {u \in Tasks : state[u] # "absent"}
             /\ jobType'[t] = "rebuild" => ChangeBy(t)
      BY <1>1, <1>a, AskEngages
      DEF AskStep, Begins, Puts, Looks, Upserts, Submits, Skips, GivesUp, Checks, SameRow
    <2>8. \A u, v \in Tasks : u \in older'[v] => state'[u] # "absent"
      BY <1>b, <2>1, <2>7 DEF OneChange
    <2>9. ASSUME NEW u \in Tasks, NEW v \in Tasks, ChangeBy(u)', jobType'[v] = "rebuild",
                 u \in older'[v]
          PROVE  FALSE
      <3>1. state[t] = "absent"
        BY <1>1, <1>a, AskIdle
      <3>2. CASE u = t
        <4>1. v # t
          BY <2>7, <2>9, <3>1, <3>2 DEF OneChange
        <4> QED
          BY <2>1, <2>9, <3>1, <3>2, <4>1 DEF OneChange
      <3>3. CASE u # t
        <4>1. ChangeBy(u)
          BY <2>1, <2>9, <3>3
        <4>2. v = t
          BY <2>1, <2>9, <4>1 DEF OneChange
        <4>3. ChangeBy(t)
          BY <2>7, <2>9, <4>1, <4>2 DEF OneChange
        <4> QED
          BY <3>3, <4>1, <4>3 DEF OneChange
      <3> QED
        BY <3>2, <3>3
    <2> QED
      BY <2>5, <2>8, <2>9 DEF OneChange
  <1>2. CASE \A t \in Tasks : ~(AskFrame(t) /\ AskStep(t))
    BY <1>2, <1>b, OthersEngageNone DEF OneChange
  <1> QED
    BY <1>1, <1>2

\* Between reading the missing chunks and switching, a global rebuild has in hand
\* all that is still missing.
Covering ==
    \A w \in Workers, t \in Tasks :
        body[w][t].at \in {"missing", "sweep"} /\ scope[t] = Everywhere =>
            Missing(t) \subseteq body[w][t].rows

\* Rows that go and embeddings that come leave less missing.
LEMMA MissingShrinks ==
    ASSUME RebuildTypes, NEW t \in Tasks, model'[t] = model[t],
           scope[t] = Everywhere, scope'[t] = Everywhere, \A d \in Docs : live'[d] = live[d], chunks' \subseteq chunks,
           \A m \in Models : \A c \in embedded[m] : c \in chunks' => c \in embedded'[m]
    PROVE  Missing(t)' \subseteq Missing(t)
  <1>1. model[t] \in Models /\ \A c \in chunks : c.doc \in Docs
    BY DEF RebuildTypes, PipelineTypes, RequestType, StoreType, ChunkRows
  <1> QED
    BY <1>1 DEF Missing, LiveChunks, VersionChunks, InScope

\* While a rebuild is under way, the runs of other tasks are those of other
\* rebuilds and of jobs whose document is gone: they add no rows and make none
\* live.
LEMMA OthersWindUp ==
    ASSUME Orderly, ChangesApart, NEW t \in Tasks, ChangeBy(t), scope[t] = Everywhere,
           NEW w \in Workers, NEW u \in Tasks, u # t, RunFrame(w, u), RunEffect(w, u)
    PROVE  Missing(t)' \subseteq Missing(t)
  <1>a. RebuildTypes /\ StoreType /\ RequestType(RebuildPhases) /\ TypeOK
    BY OrderlyTypes DEF RebuildTypes, PipelineTypes
  <1>1. jobType[u] = "ingest" => docOf[u] \notin documents
    BY RunInFlight DEF RunFrame, Engaged, OpenStates, ChangesApart
  <1>2. Writes(w, u) \/ Flips(w, u) => docOf[u] \notin documents
    BY <1>1 DEF Writes, Flips, Orderly, InHand, Steps
  <1>3. UNCHANGED <<model, slot>> /\ scope'[t] = scope[t]
    BY DEF RunFrame, requestVars, columnVars, SameScope
  <1>4. /\ \A d \in Docs : live'[d] = live[d]
        /\ chunks' \subseteq chunks
        /\ \A m \in Models : \A c \in embedded[m] : c \in chunks' => c \in embedded'[m]
    <2>1. CASE SameStore
      BY <2>1 DEF SameStore
    <2>2. CASE Writes(w, u)
      BY <1>2, <2>2 DEF Writes
    <2>3. CASE Embeds(w, u)
      BY <2>3 DEF Embeds
    <2>4. CASE Flips(w, u)
      BY <1>2, <2>4 DEF Flips
    <2>5. CASE Switches(w, u)
      BY <2>5 DEF Switches
    <2> QED
      BY <2>1, <2>2, <2>3, <2>4, <2>5
      DEF RunEffect, Proceeds, Loads, Marks, Lists, Collects, Ends
  <1> QED
    BY <1>a, <1>3, <1>4, MissingShrinks

LEMMA CoveringStep ==
    ASSUME Orderly, ChangesApart, Covering, [RebuildNext]_rebuildVars
    PROVE  Covering'
  <1>a. RebuildTypes /\ Registered /\ StoreType /\ RequestType(RebuildPhases) /\ BodyType(AllSteps)
    BY OrderlyTypes DEF RebuildTypes, PipelineTypes, Orderly
  <1>b. SUFFICES ASSUME NEW v \in Workers, NEW u \in Tasks,
                        body'[v][u].at \in {"missing", "sweep"}, scope'[u] = Everywhere
                 PROVE  Missing(u)' \subseteq body'[v][u].rows
    BY DEF Covering
  <1>c. ASSUME body[v][u].at \in {"missing", "sweep"}, scope[u] = Everywhere
        PROVE  /\ jobType[u] = "rebuild" /\ ChangeBy(u) /\ pc[v][u] # "idle"
               /\ Missing(u) \subseteq body[v][u].rows
    <2>1. jobType[u] = "rebuild" /\ pc[v][u] # "idle"
      BY <1>a, <1>c DEF Orderly, InHand, RebuildSteps, BodyType, InFlight
    <2> QED
      BY <1>c, <2>1, RunInFlight DEF ChangeBy, OpenStates, Covering
  <1>d. ASSUME SameRun(v, u), scope'[u] = scope[u], Missing(u)' \subseteq Missing(u)
        PROVE  Missing(u)' \subseteq body'[v][u].rows
    BY <1>b, <1>c, <1>d DEF SameRun
  <1>1. ASSUME NEW t \in Tasks, AskFrame(t), AskStep(t) PROVE Missing(u)' \subseteq body'[v][u].rows
    <2>1. SameRun(v, u) /\ body[v][u].at \in {"missing", "sweep"}
      BY <1>1, <1>b DEF AskFrame, SameRun
    <2>2. u # t /\ scope[u] = Everywhere
      BY <1>1, <1>a, <1>b, <2>1, AskIdle DEF AskFrame
    <2>3. ~Upserts(t)
      BY <1>1, <1>a, <1>c, <2>1, <2>2, AskEngages DEF ChangesApart
    <2>4. UNCHANGED <<slot, live, chunks, embedded>> /\ model'[u] = model[u] /\ scope'[u] = scope[u]
      BY <1>1, <2>2, <2>3
      DEF AskFrame, AskStep, Begins, Puts, Looks, Submits, Skips, GivesUp, Checks, SameDocs
    <2> QED
      BY <1>a, <1>b, <1>d, <2>2, <2>1, <2>4, MissingShrinks
  <1>2. ASSUME NEW d \in Docs, Removes(d) PROVE Missing(u)' \subseteq body'[v][u].rows
    <2>1. SameRun(v, u) /\ UNCHANGED <<slot, live>> /\ model'[u] = model[u] /\ scope'[u] = scope[u]
      BY <1>2 DEF Removes, SameRuns, SameRun, SameScope, requestVars, columnVars
    <2>2. \A m \in Models : \A c \in embedded[m] : c \in chunks' => c \in embedded'[m]
      BY <1>2 DEF Removes
    <2> QED
      BY <1>2, <1>a, <1>b, <1>d, <2>1, <2>2, MissingShrinks DEF Removes
  <1>3. ASSUME NEW d \in Docs, Drops(d) PROVE Missing(u)' \subseteq body'[v][u].rows
    <2>1. SameRun(v, u) /\ UNCHANGED <<slot, live, chunks, embedded>>
          /\ model'[u] = model[u] /\ scope'[u] = scope[u]
      BY <1>3 DEF Drops, SameRuns, SameRun, SameScope, requestVars, columnVars
    <2> QED
      BY <1>a, <1>b, <1>d, <2>1, MissingShrinks
  <1>4. CASE Ticks
    <2>1. UNCHANGED <<slot, live, chunks, embedded>> /\ model'[u] = model[u] /\ scope'[u] = scope[u]
      BY <1>4 DEF Ticks, SameScope, requestVars, columnVars, storeVars
    <2>2. SameRun(v, u)
      BY <1>4, <1>b DEF Ticks, Gone, NoBody
    <2> QED
      BY <1>a, <1>b, <1>d, <2>1, <2>2, MissingShrinks
  <1>5. ASSUME NEW w \in Workers, NEW t \in Tasks, RunFrame(w, t), RunEffect(w, t)
        PROVE  Missing(u)' \subseteq body'[v][u].rows
    <2>1. CASE v = w /\ u = t
      <3>1. UNCHANGED <<slot, model>> /\ scope'[u] = scope[u]
        BY <1>5 DEF RunFrame, requestVars, columnVars, SameScope
      <3>2. CASE Embeds(w, t)
        <4>1. PICK batch \in SUBSET (body[w][t].rows \cap chunks) :
                 /\ \A m \in Models : embedded'[m] = IF m = model[t] THEN embedded[m] \cup batch
                                                     ELSE embedded[m]
                 /\ Inside(w, t, body[w][t].at, body[w][t].content, body[w][t].rows \ batch)
                 /\ UNCHANGED <<live, chunks>>
          BY <3>2 DEF Embeds
        <4>2. model[u] \in Models /\ Missing(u) \subseteq body[v][u].rows
          BY <1>a, <1>b, <1>c, <2>1, <3>1, <4>1 DEF RequestType, Inside
        <4>3. Missing(u)' \subseteq Missing(u)
          BY <1>a, <1>b, <3>1, <4>1, MissingShrinks
        <4>4. Missing(u)' \cap batch = {}
          BY <2>1, <3>1, <4>1, <4>2 DEF Missing
        <4> QED
          BY <2>1, <4>1, <4>2, <4>3, <4>4 DEF Inside
      <3>3. CASE Collects(w, t)
        <4>1. UNCHANGED <<live, chunks, embedded>> /\ body'[w][t].rows = Missing(t)
          BY <3>3 DEF Collects, SameStore, Inside
        <4> QED
          BY <1>a, <1>b, <2>1, <3>1, <4>1, MissingShrinks
      <3>4. CASE Proceeds(w, t) \/ Ends(w, t)
        BY <1>b, <2>1, <3>4 DEF Proceeds, Ends, Gone, NoBody
      <3>5. CASE Loads(w, t) \/ Marks(w, t) \/ Writes(w, t) \/ Lists(w, t) \/ Flips(w, t)
                 \/ Switches(w, t)
        BY <1>b, <2>1, <3>5 DEF Loads, Marks, Writes, Lists, Flips, Switches, Inside
      <3> QED
        BY <1>5, <3>2, <3>3, <3>4, <3>5 DEF RunEffect
    <2>2. CASE v # w \/ u # t
      <3>1. SameRun(v, u) /\ body[v][u].at \in {"missing", "sweep"}
        BY <1>5, <1>b, <2>2 DEF RunFrame, SameRun
      <3>4. scope'[u] = scope[u] /\ scope[u] = Everywhere
        BY <1>5, <1>b DEF RunFrame, SameScope
      <3>2. ChangeBy(u) /\ pc[v][u] # "idle"
        BY <1>c, <3>1, <3>4
      <3>3. u # t
        BY <1>5, <2>2, <3>2 DEF RunFrame, Orderly, Exclusive, NoDoubleProcess
      <3> QED
        BY <1>5, <1>d, <3>1, <3>4, <3>2, <3>3, OthersWindUp
    <2> QED
      BY <2>1, <2>2
  <1> QED
    BY <1>1, <1>2, <1>3, <1>4, <1>5, <1>a, StepFrames

ChangeInv == Orderly /\ ChangesApart /\ Covering

LEMMA ChangeInit == RebuildInit => ChangeInv
  <1>1. RebuildInit => ChangesApart /\ Covering
    BY DEF RebuildInit, PipelineInit, QueueInit, NoRequest, NoBody, ChangesApart, ChangeBy, Engaged,
           OpenStates, InFlight, Covering
  <1> QED
    BY <1>1, OrderlyInit DEF ChangeInv

LEMMA ChangeStep ==
    ASSUME Apart, LeasesSuffice, ChangeInv, [RebuildNext]_rebuildVars
    PROVE  ChangeInv'
  <1>1. Orderly'
    BY OrderlyStep DEF ChangeInv
  <1> QED
    BY <1>1, ChangesApartStep, CoveringStep DEF ChangeInv

\* The active model is changed by a rebuild run that has nothing left to embed.
LEMMA SwitchIsARun ==
    ASSUME RebuildTypes, [RebuildNext]_rebuildVars, active' # active
    PROVE  \E w \in Workers, t \in Tasks : RunFrame(w, t) /\ Switches(w, t)
  <1>1. \A t \in Tasks : ~AskFrame(t)
    BY DEF AskFrame
  <1>2. ~Ticks /\ \A d \in Docs : ~Removes(d) /\ ~Drops(d)
    BY DEF Ticks, Removes, Drops, storeVars
  <1>3. PICK w \in Workers, t \in Tasks : RunFrame(w, t) /\ RunEffect(w, t)
    BY <1>1, <1>2, StepFrames
  <1> QED
    BY <1>3
    DEF RunEffect, Proceeds, Loads, Marks, Writes, Lists, Embeds, Flips, Collects, Ends, SameStore

\* When the active model changes, every live chunk of every document can be
\* found with the new one, whatever failed, crashed or was removed meanwhile.
THEOREM SwitchesCoverAll ==
    ASSUME Apart, LeasesSuffice
    PROVE  RebuildSpec => SwitchCoversAll
  <1>1. ASSUME ChangeInv, [RebuildNext]_rebuildVars, active' # active, NEW d \in documents
        PROVE  LiveChunks(d) \subseteq embedded[active']
    <2>1. RebuildTypes
      BY <1>1, OrderlyTypes DEF ChangeInv
    <2>2. PICK w \in Workers, t \in Tasks : RunFrame(w, t) /\ Switches(w, t)
      BY <1>1, <2>1, SwitchIsARun
    <2>3. Missing(t) = {} /\ scope[t] = Everywhere /\ active' = model[t]
      BY <1>1, <2>2 DEF Switches, ChangeInv, Covering
    <2> QED
      BY <2>3 DEF Missing, InScope, LiveChunks, VersionChunks
  <1>2. ChangeInv /\ [RebuildNext]_rebuildVars =>
           [active' # active =>
               \A d \in documents : LiveChunks(d) \subseteq embedded[active']]_rebuildVars
    BY <1>1
  <1> QED
    BY <1>2, ChangeInit, ChangeStep, PTL DEF RebuildSpec, SwitchCoversAll

\* Where administrators ask for model changes one at a time, the model is
\* switched by the newest rebuild, while it is in flight and to the model it was
\* asked for: a rebuild whose worker has died, or whose failure was not reported,
\* and that is run again never undoes a later change.  Uploads may overlap with
\* each other and with the change as they like.
THEOREM NewestSwitches ==
    ASSUME OneAdmin, LeasesSuffice
    PROVE  RebuildSpec => SwitchedByNewest
  <1>1. ASSUME Orderly, OneChange, [RebuildNext]_rebuildVars, active' # active
        PROVE  \E t \in Tasks :
                  /\ jobType[t] = "rebuild" /\ scope[t] = Everywhere
                  /\ model[t] = active'
                  /\ state[t] \in InFlight
                  /\ \A u \in Tasks : jobType[u] = "rebuild" => t \notin older[u]
    <2>1. RebuildTypes
      BY <1>1, OrderlyTypes
    <2>2. PICK w \in Workers, t \in Tasks : RunFrame(w, t) /\ Switches(w, t)
      BY <1>1, <2>1, SwitchIsARun
    <2>3. jobType[t] = "rebuild"
      BY <1>1, <2>2 DEF Switches, Orderly, InHand, RebuildSteps
    <2>4. state[t] \in InFlight
      BY <1>1, <2>2, <2>3, RunInFlight DEF RunFrame
    <2>5. ChangeBy(t)
      BY <2>3, <2>4 DEF ChangeBy, OpenStates
    <2> QED
      BY <1>1, <2>2, <2>3, <2>4, <2>5 DEF Switches, OneChange
  <1>2. Orderly /\ OneChange /\ [RebuildNext]_rebuildVars =>
           [active' # active =>
               \E t \in Tasks :
                  /\ jobType[t] = "rebuild" /\ scope[t] = Everywhere
                  /\ model[t] = active'
                  /\ state[t] \in InFlight
                  /\ \A u \in Tasks : jobType[u] = "rebuild" => t \notin older[u]]_rebuildVars
    BY <1>1
  <1>3. RebuildInit => OneChange
    BY DEF RebuildInit, PipelineInit, QueueInit, NoRequest, OneChange, ChangeBy, OpenStates, InFlight
  <1>4. Orderly /\ OneChange /\ [RebuildNext]_rebuildVars => (Orderly /\ OneChange)'
    BY OrderlyStep, OneChangeStep
  <1> QED
    BY <1>2, <1>3, <1>4, OrderlyInit, PTL DEF RebuildSpec, SwitchedByNewest

-----------------------------------------------------------------------------
(* What readers see.                                                       *)

\* An upload or an ingest job that is not finished is for the active model.
CurrentModel == \A t \in Tasks : Engaged(t) => model[t] = active

\* The version that an upload or a job is about is not live yet, but for the end
\* of a first attempt and for what follows if it dies there.
FirstEnding(t) ==
    attempts[t] = 1 /\ \A w \in Workers : pc[w][t] # "idle" => body[w][t].at = "flipped"

Ahead(t) == live[docOf[t]] < ver[t] \/ attempts[t] > 1 \/ FirstEnding(t)

Versions ==
    \A t \in Tasks :
        /\ req[t].phase = "upserting" =>
              req[t].live = IF req[t].found \in Docs THEN live[req[t].found] ELSE 0
        /\ req[t].phase = "enqueueing" => live[docOf[t]] < ver[t]
        /\ state[t] \in OpenStates /\ jobType[t] = "ingest" => Ahead(t)

LEMMA CurrentModelStep ==
    ASSUME Orderly, ChangesApart, CurrentModel, [RebuildNext]_rebuildVars
    PROVE  CurrentModel'
  <1>a. RebuildTypes /\ Registered
    BY OrderlyTypes DEF Orderly
  <1>1. ASSUME NEW t \in Tasks, AskFrame(t), AskStep(t) PROVE CurrentModel'
    <2>1. \A u \in Tasks \ {t} : (Engaged(u)' <=> Engaged(u)) /\ model'[u] = model[u]
      BY <1>1 DEF AskFrame, Engaged
    <2>2. Engaged(t)' => Begins(t) \/ (Engaged(t) /\ ~Checks(t))
      BY <1>1, <1>a, AskEngages
    <2>3. ~Checks(t) => model'[t] = model[t] \/ (Begins(t) /\ model'[t] = active)
      BY <1>1
      DEF AskStep, Begins, Puts, Looks, Upserts, Submits, Skips, GivesUp, SameColumns
    <2>4. Begins(t) => model'[t] = active
      BY DEF Begins
    <2> QED
      BY <1>1, <2>1, <2>2, <2>3, <2>4 DEF AskFrame, CurrentModel
  <1>2. ASSUME UNCHANGED <<model, active>>, \A t \in Tasks : Engaged(t)' => Engaged(t)
        PROVE  CurrentModel'
    BY <1>2 DEF CurrentModel
  <1>3. ASSUME NEW d \in Docs, Removes(d) \/ Drops(d) PROVE CurrentModel'
    BY <1>2, <1>3 DEF Removes, Drops, requestVars, columnVars, Engaged, OpenStates, InFlight
  <1>4. CASE Ticks
    BY <1>2, <1>4 DEF Ticks, requestVars, columnVars, storeVars, Engaged
  <1>5. ASSUME NEW w \in Workers, NEW t \in Tasks, RunFrame(w, t), RunEffect(w, t)
        PROVE  CurrentModel'
    <2>1. UNCHANGED <<req, model, jobType>> /\ \A u \in Tasks : Engaged(u)' => Engaged(u)
      BY <1>5, RunEngages DEF RunFrame, requestVars, columnVars, Engaged
    <2>2. CASE Switches(w, t)
      <3>1. jobType[t] = "rebuild"
        BY <2>2 DEF Switches, Orderly, InHand, RebuildSteps
      <3>2. ChangeBy(t)
        BY <1>5, <3>1, RunInFlight DEF RunFrame, ChangeBy, OpenStates
      <3> QED
        BY <2>1, <3>2 DEF ChangesApart, CurrentModel
    <2>3. CASE ~Switches(w, t)
      <3>1. UNCHANGED active
        BY <1>5, <2>3
        DEF RunEffect, Proceeds, Loads, Marks, Writes, Lists, Embeds, Flips, Collects, Ends, SameStore
      <3> QED
        BY <1>2, <2>1, <3>1
    <2> QED
      BY <2>2, <2>3
  <1> QED
    BY <1>1, <1>3, <1>4, <1>5, <1>a, StepFrames

\* Only a flip makes another version live, and it does so for the document of
\* its job.
LEMMA LiveStays ==
    ASSUME Orderly, NEW w \in Workers, NEW t \in Tasks, RunFrame(w, t), RunEffect(w, t),
           NEW d \in Docs, live'[d] # live[d]
    PROVE  Flips(w, t) /\ d = docOf[t] /\ d \in documents
  <1>1. ~SameStore
    BY DEF SameStore
  <1>2. Flips(w, t)
    BY <1>1 DEF RunEffect, Proceeds, Loads, Marks, Writes, Lists, Embeds, Collects, Switches, Ends
  <1> QED
    BY <1>2 DEF Flips

LEMMA VersionsStep ==
    ASSUME Orderly, Serial, Versions, [RebuildNext]_rebuildVars
    PROVE  Versions'
  <1>a. RebuildTypes /\ Registered /\ RequestType(RebuildPhases) /\ StoreType /\ BodyType(AllSteps)
    BY OrderlyTypes DEF RebuildTypes, PipelineTypes, Orderly
  <1>b. \A t \in Tasks : state[t] \in OpenStates /\ jobType[t] = "ingest" => docOf[t] \in documents
    BY DEF Orderly, Registered, OpenStates, Present
  <1>c. \A t \in Tasks : req[t].phase = "enqueueing" => docOf[t] \in documents
    BY DEF Serial, FoundStays
  <1>d. documents \subseteq Docs /\ NoDoc \notin Docs
    BY <1>a, PipelineAssumption DEF StoreType
  <1>1. ASSUME NEW t \in Tasks, AskFrame(t), AskStep(t) PROVE Versions'
    <2>1. \A d \in Docs : Spent(d) => live'[d] = live[d]
      BY <1>1
      DEF AskStep, Begins, Puts, Looks, Upserts, Creates, Updates, Submits, Skips, GivesUp, Checks,
          SameDocs, Moves, Spent
    <2>2. ASSUME NEW u \in Tasks \ {t}
          PROVE  /\ req'[u].phase = "upserting" =>
                       req'[u].live = IF req'[u].found \in Docs THEN live'[req'[u].found] ELSE 0
                 /\ req'[u].phase = "enqueueing" => live'[docOf'[u]] < ver'[u]
                 /\ state'[u] \in OpenStates /\ jobType'[u] = "ingest" => Ahead(u)'
      <3>1. /\ req'[u] = req[u] /\ docOf'[u] = docOf[u] /\ ver'[u] = ver[u]
            /\ state'[u] = state[u] /\ jobType'[u] = jobType[u]
            /\ UNCHANGED <<body, pc, attempts>>
        BY <1>1 DEF AskFrame
      <3>2. req[u].found \in Docs => live'[req[u].found] = live[req[u].found]
        BY <1>a, <2>1 DEF Registered
      <3>3. docOf[u] \in documents => live'[docOf[u]] = live[docOf[u]]
        BY <1>a, <1>d, <2>1 DEF Registered
      <3> QED
        BY <1>b, <1>c, <3>1, <3>2, <3>3 DEF Versions, Ahead, FirstEnding
    <2>3. /\ req'[t].phase = "upserting" =>
                req'[t].live = IF req'[t].found \in Docs THEN live'[req'[t].found] ELSE 0
          /\ req'[t].phase = "enqueueing" => live'[docOf'[t]] < ver'[t]
          /\ state'[t] \in OpenStates /\ jobType'[t] = "ingest" => Ahead(t)'
      <3>1. state[t] = "absent" /\ "absent" \notin OpenStates /\ "skipped" \notin OpenStates
        BY <1>1, <1>a, AskIdle DEF OpenStates, InFlight
      <3>2. CASE Begins(t) \/ Puts(t) \/ GivesUp(t) \/ Checks(t) \/ Skips(t)
        BY <3>1, <3>2 DEF Begins, Puts, GivesUp, Checks, Skips, Moves, SameRow
      <3>3. CASE Looks(t)
        BY <1>d, <3>1, <3>3 DEF Looks, Moves, SameRow, SameDocs, DocumentsAt
      <3>4. CASE Upserts(t)
        <4>1. req[t].live \in Nat
          BY <1>a DEF RequestType
        <4>2. live'[docOf'[t]] = req[t].live
          <5>1. CASE Creates(t)
            BY <1>d, <5>1 DEF Creates, Moves, Versions
          <5>2. CASE Updates(t)
            BY <5>2 DEF Updates, Moves, Versions
          <5> QED
            BY <3>4, <5>1, <5>2 DEF Upserts
        <4>3. ver'[t] = req[t].live + 1
          BY <3>4 DEF Upserts, NextVersion
        <4>4. req'[t].phase = "enqueueing" /\ state'[t] = state[t]
          BY <3>4 DEF Upserts, Creates, Updates, Moves, SameRow
        <4> QED
          BY <3>1, <4>1, <4>2, <4>3, <4>4
      <3>5. CASE Submits(t)
        BY <3>5 DEF Submits, Moves, SameDocs, SameColumns, Versions, Ahead
      <3> QED
        BY <1>1, <3>2, <3>3, <3>4, <3>5 DEF AskStep
    <2> QED
      BY <2>2, <2>3 DEF Versions
  <1>2. ASSUME NEW d \in Docs, Removes(d) \/ Drops(d) PROVE Versions'
    <2>1. UNCHANGED <<req, docOf, ver, live, jobType, body, pc, attempts>>
      BY <1>2 DEF Removes, Drops, SameRuns, requestVars, columnVars
    <2>2. \A t \in Tasks : state'[t] \in OpenStates => state[t] \in OpenStates
      BY <1>2 DEF Removes, Drops, OpenStates, InFlight
    <2> QED
      BY <2>1, <2>2 DEF Versions, Ahead, FirstEnding
  <1>3. CASE Ticks
    <2>1. UNCHANGED <<req, docOf, ver, live, jobType>>
      BY <1>3 DEF Ticks, requestVars, columnVars, storeVars
    <2>2. \A t \in Tasks : state'[t] \in OpenStates => state[t] \in OpenStates
      BY <1>3 DEF Ticks
    <2>3. \A t \in Tasks : Ahead(t) => Ahead(t)'
      <3> SUFFICES ASSUME NEW t \in Tasks, Ahead(t) PROVE Ahead(t)'
        OBVIOUS
      <3>1. attempts[t] \in Nat
        BY <1>a DEF RebuildTypes, PipelineTypes, TypeOK
      <3>2. attempts'[t] = attempts[t] \/ attempts'[t] = attempts[t] + 1
        BY <1>3 DEF Ticks
      <3>3. CASE FirstEnding(t) /\ attempts'[t] = attempts[t]
        <4>1. \A w \in Workers : pc'[w][t] # "idle" => SameRun(w, t)
          BY <1>3, <3>1, <3>3 DEF Ticks, Gone
        <4> QED
          BY <3>3, <4>1 DEF SameRun, FirstEnding, Ahead
      <3>4. CASE FirstEnding(t) /\ attempts'[t] = attempts[t] + 1
        BY <3>4 DEF FirstEnding, Ahead
      <3>5. CASE live[docOf[t]] < ver[t] \/ attempts[t] > 1
        BY <2>1, <3>1, <3>2, <3>5 DEF Ahead
      <3> QED
        BY <3>2, <3>3, <3>4, <3>5 DEF Ahead
    <2> QED
      BY <2>1, <2>2, <2>3 DEF Versions
  <1>4. ASSUME NEW w \in Workers, NEW t \in Tasks, RunFrame(w, t), RunEffect(w, t)
        PROVE  Versions'
    <2>1. UNCHANGED <<req, docOf, ver, jobType>>
      BY <1>4 DEF RunFrame, requestVars, columnVars
    <2>2. \A u \in Tasks : Engaged(u) /\ u # t /\ docOf[t] \in documents =>
             req[u].slot # slot[docOf[t]]
      BY <1>4, OneRun DEF RunFrame
    <2>3. ASSUME NEW u \in Tasks, req[u].phase = "upserting"
          PROVE  req[u].live = IF req[u].found \in Docs THEN live'[req[u].found] ELSE 0
      <3>1. Engaged(u) /\ state[u] \notin InFlight
        BY <1>a, <2>3 DEF Engaged, Uploading, Registered, InFlight
      <3>2. req[u].found \in Docs => slot[req[u].found] = req[u].slot
        BY <1>a DEF Registered
      <3>3. docOf[t] \in documents => u # t
        BY <1>4, <3>1, OneRun DEF RunFrame
      <3> QED
        BY <1>4, <2>2, <2>3, <3>1, <3>2, <3>3, LiveStays DEF Versions
    <2>4. ASSUME NEW u \in Tasks, req[u].phase = "enqueueing"
          PROVE  live'[docOf[u]] < ver[u]
      <3>1. Engaged(u) /\ state[u] \notin InFlight /\ docOf[u] \in Docs
        BY <1>a, <2>4 DEF Engaged, Registered, InFlight
      <3>2. slot[docOf[u]] = req[u].slot
        BY <1>a, <3>1 DEF Registered
      <3>3. docOf[t] \in documents => u # t
        BY <1>4, <3>1, OneRun DEF RunFrame
      <3> QED
        BY <1>4, <2>2, <2>4, <3>1, <3>2, <3>3, LiveStays DEF Versions
    <2>5. ASSUME NEW u \in Tasks, state'[u] \in OpenStates, jobType[u] = "ingest"
          PROVE  Ahead(u)'
      <3>1. state[u] \in OpenStates /\ docOf[u] \in Docs /\ Ahead(u)
        BY <1>4, <1>b, <1>d, <2>5, RunEngages DEF Versions
      <3>2. Engaged(u) /\ slot[docOf[u]] = req[u].slot /\ attempts'[u] = attempts[u]
        BY <1>4, <1>a, <2>5, <3>1 DEF Engaged, Registered, RunFrame
      <3>3. CASE live'[docOf[u]] # live[docOf[u]]
        <4>1. Flips(w, t) /\ docOf[u] = docOf[t] /\ docOf[t] \in documents
          BY <1>4, <3>1, <3>3, LiveStays
        <4>2. u = t
          BY <2>2, <3>2, <4>1
        <4>3. body'[w][t].at = "flipped" /\ \A v \in Workers \ {w} : pc'[v][t] = "idle"
          BY <1>4, <4>1, OneRun DEF Flips, Inside, RunFrame, SameRun
        <4>4. attempts[t] \in Nat /\ attempts[t] >= 1
          BY <1>4, <1>a
          DEF RunFrame, Orderly, RebuildInv, AttemptIsFencing, RebuildTypes, PipelineTypes, TypeOK
        <4> QED
          BY <3>2, <4>2, <4>3, <4>4 DEF Ahead, FirstEnding
      <3>4. CASE live'[docOf[u]] = live[docOf[u]] /\ (live[docOf[u]] < ver[u] \/ attempts[u] > 1)
        BY <2>1, <3>2, <3>4 DEF Ahead
      <3>5. CASE FirstEnding(u)
        <4>1. \A v \in Workers : v # w \/ u # t => SameRun(v, u)
          BY <1>4 DEF RunFrame
        <4>2. CASE u = t
          <5>1. body[w][t].at = "flipped"
            BY <1>4, <3>5, <4>2 DEF FirstEnding, RunFrame
          <5>2. Ends(w, t)
            BY <1>4, <5>1
            DEF RunEffect, Proceeds, Loads, Marks, Writes, Lists, Embeds, Flips, Collects, Switches
          <5> QED
            BY <3>2, <3>5, <4>1, <4>2, <5>2 DEF Ends, Gone, SameRun, FirstEnding, Ahead
        <4>3. CASE u # t
          BY <3>2, <3>5, <4>1, <4>3 DEF SameRun, FirstEnding, Ahead
        <4> QED
          BY <4>2, <4>3
      <3> QED
        BY <3>1, <3>3, <3>4, <3>5 DEF Ahead
    <2> QED
      BY <2>1, <2>3, <2>4, <2>5 DEF Versions
  <1> QED
    BY <1>1, <1>2, <1>3, <1>4, <1>a, StepFrames

\* Until it flips, a run of a first attempt works on a version that readers do
\* not see.
LEMMA NotYetLive ==
    ASSUME Orderly, Serial, Versions, NEW w \in Workers, NEW t \in Tasks,
           pc[w][t] # "idle", docOf[t] \in documents, body[w][t].at \in {"deleting", "listed"}
    PROVE  live[docOf[t]] < ver[t] \/ attempts[t] > 1
  <1>1. state[t] \in OpenStates /\ jobType[t] = "ingest"
    BY OneRun DEF OpenStates, Orderly, InHand, Steps
  <1> QED
    BY <1>1 DEF Versions, Ahead, FirstEnding

\* A job for the live version of d is in a further attempt, or has failed there.
Rerun(d) ==
    \E t \in JobsOf(d) : /\ jobType[t] = "ingest" /\ ver[t] = live[d]
                         /\ attempts[t] > 1 /\ state[t] # "done"

LEMMA RerunStays ==
    ASSUME RebuildTypes, NEW d \in Docs, live'[d] = live[d], Rerun(d),
           \A t \in JobsOf(d) :
              /\ docOf'[t] = docOf[t] /\ ver'[t] = ver[t] /\ jobType'[t] = jobType[t]
              /\ attempts'[t] \in {attempts[t], attempts[t] + 1}
              /\ state'[t] = state[t] \/ state'[t] \in InFlight \cup {"pending", "failed"}
    PROVE  Rerun(d)'
  <1>1. PICK t \in JobsOf(d) : /\ jobType[t] = "ingest" /\ ver[t] = live[d]
                               /\ attempts[t] > 1 /\ state[t] # "done"
    BY DEF Rerun
  <1>2. t \in Tasks /\ attempts[t] \in Nat
    BY DEF JobsOf, RebuildTypes, PipelineTypes, TypeOK
  <1>3. t \in JobsOf(d)' /\ state'[t] # "done"
    BY <1>1, <1>2 DEF JobsOf, Present, InFlight, Final
  <1> QED
    BY <1>1, <1>2, <1>3 DEF Rerun

LEMMA WholeStep ==
    ASSUME Apart, TurnInv, TurnInv', ChangesApart, Covering, CurrentModel, Versions,
           HalfOnlyByRerun, [RebuildNext]_rebuildVars
    PROVE  HalfOnlyByRerun'
  <1>a. RebuildTypes /\ Orderly /\ Registered /\ StoreType /\ StoreType' /\ RequestType(RebuildPhases)
        /\ active \in Models /\ active' \in Models /\ documents \subseteq Docs
        /\ documents' \subseteq Docs
    <2>1. RebuildTypes /\ RebuildTypes'
      BY OrderlyTypes, PTL DEF TurnInv
    <2> QED
      BY <2>1 DEF TurnInv, Orderly, RebuildTypes, PipelineTypes, StoreType
  <1>b. SUFFICES ASSUME NEW d \in documents', live'[d] > 0
                 PROVE  ServesWhole(d, active)' \/ Rerun(d)'
    BY DEF HalfOnlyByRerun, Rerun
  <1>c. d \in Docs
    BY <1>a
  <1>d. ASSUME d \in documents, live'[d] = live[d],
               \A c \in ChunkRows : c.doc = d /\ c.ver = live[d] => (c \in chunks' <=> c \in chunks),
               LiveChunks(d) \subseteq embedded[active] => LiveChunks(d) \subseteq embedded'[active'],
               Rerun(d) => ServesWhole(d, active)' \/ Rerun(d)'
        PROVE  ServesWhole(d, active)' \/ Rerun(d)'
    <2>1. ServesWhole(d, active) \/ Rerun(d)
      BY <1>b, <1>d DEF HalfOnlyByRerun, Rerun
    <2>2. \A c \in LiveChunks(d) : c.doc = d /\ c.ver = live[d]
      BY DEF LiveChunks, VersionChunks
    <2>3. LiveChunks(d)' = LiveChunks(d)
      BY <1>a, <1>d DEF StoreType, LiveChunks, VersionChunks
    <2>4. ServesWhole(d, active) => ServesWhole(d, active)'
      BY <1>d, <2>3 DEF ServesWhole
    <2> QED
      BY <1>d, <2>1, <2>4
  <1>1. ASSUME NEW t \in Tasks, AskFrame(t), AskStep(t) PROVE ServesWhole(d, active)' \/ Rerun(d)'
    <2>1. d \in documents /\ live'[d] = live[d]
      BY <1>1, <1>b, <1>c
      DEF AskStep, Begins, Puts, Looks, Upserts, Creates, Updates, Submits, Skips, GivesUp, Checks,
          SameDocs
    <2>2. t \notin JobsOf(d)
      BY <1>1, <1>a, AskIdle DEF JobsOf, Present, InFlight, Final
    <2>3. Rerun(d) => Rerun(d)'
      BY <1>1, <1>a, <1>c, <2>1, <2>2, RerunStays DEF AskFrame, JobsOf
    <2> QED
      BY <1>1, <1>d, <2>1, <2>3 DEF AskFrame
  <1>2. ASSUME NEW e \in Docs, Removes(e) PROVE ServesWhole(d, active)' \/ Rerun(d)'
    <2>1. d \in documents /\ d # e /\ UNCHANGED <<live, active>>
      BY <1>2, <1>b DEF Removes
    <2>2. \A c \in LiveChunks(d) : c.doc = d
      BY DEF LiveChunks, VersionChunks
    <2>3. \A t \in JobsOf(d) : state'[t] = state[t]
      BY <1>2, <2>1 DEF Removes, JobsOf
    <2>4. Rerun(d) => Rerun(d)'
      BY <1>2, <1>a, <1>c, <2>1, <2>3, RerunStays
      DEF Removes, SameRuns, requestVars, columnVars, JobsOf
    <2> QED
      BY <1>2, <1>a, <1>d, <2>1, <2>2, <2>4 DEF Removes
  <1>3. ASSUME Ticks \/ \E e \in Docs : Drops(e) PROVE ServesWhole(d, active)' \/ Rerun(d)'
    <2>1. UNCHANGED <<documents, live, chunks, embedded, active, docOf, ver, jobType>>
      BY <1>3 DEF Ticks, Drops, storeVars, requestVars, columnVars
    <2>2. \A t \in Tasks : /\ state'[t] = state[t] \/ state'[t] \in InFlight
                           /\ attempts'[t] \in {attempts[t], attempts[t] + 1}
      BY <1>3 DEF Ticks, Drops, SameRuns
    <2>3. Rerun(d) => Rerun(d)'
      BY <1>a, <1>c, <2>1, <2>2, RerunStays DEF JobsOf
    <2> QED
      BY <1>b, <1>d, <2>1, <2>3
  <1>4. ASSUME NEW w \in Workers, NEW t \in Tasks, RunFrame(w, t), RunEffect(w, t)
        PROVE  ServesWhole(d, active)' \/ Rerun(d)'
    <2>1. d \in documents /\ UNCHANGED <<docOf, ver, jobType, attempts, model, documents>>
      BY <1>4, <1>b DEF RunFrame, requestVars, columnVars
    <2>2. ASSUME live'[d] = live[d],
                 docOf[t] = d => \/ state'[t] = state[t]
                                 \/ state'[t] \in InFlight \cup {"pending", "failed"}
          PROVE  Rerun(d) => Rerun(d)'
      <3>1. \A u \in JobsOf(d) : \/ state'[u] = state[u]
                                 \/ state'[u] \in InFlight \cup {"pending", "failed"}
        BY <1>4, <2>2 DEF RunFrame, JobsOf
      <3> QED
        BY <1>a, <1>c, <2>1, <2>2, <3>1, RerunStays
    <2>3. CASE docOf[t] # d /\ Switches(w, t)
      <3>1. Missing(t) = {} /\ active' = model[t]
        BY <2>3 DEF Switches, Covering
      <3>2. LiveChunks(d) \subseteq embedded[active']
        BY <2>3, <3>1 DEF Switches, Missing, InScope, LiveChunks, VersionChunks
      <3> QED
        BY <1>d, <2>1, <2>2, <2>3, <3>2 DEF Switches
    <2>4. CASE docOf[t] # d /\ ~Switches(w, t)
      <3>1. Elsewhere(t) /\ UNCHANGED active
        BY <1>4, <1>a, <2>4, RunElsewhere
        DEF RunEffect, Proceeds, Loads, Marks, Writes, Lists, Embeds, Flips, Collects, Ends, SameStore
      <3>2. \A c \in LiveChunks(d) : c.doc = d
        BY DEF LiveChunks, VersionChunks
      <3> QED
        BY <1>a, <1>c, <1>d, <2>1, <2>2, <2>4, <3>1, <3>2 DEF Elsewhere
    <2>5. CASE docOf[t] = d
      <3>1. /\ Engaged(t) /\ pc[w][t] # "idle" /\ jobType[t] = "ingest" /\ t \in JobsOf(d)
            /\ state[t] \in InFlight
        <4>1. state[t] \in InFlight /\ Engaged(t) /\ pc[w][t] # "idle"
          BY <1>4, <2>1, <2>5, OneRun DEF RunFrame, TurnInv
        <4>2. jobType[t] # "rebuild"
          BY <1>a, <1>c, <2>5 DEF Registered
        <4> QED
          BY <1>a, <2>5, <4>1, <4>2
          DEF RebuildTypes, PipelineTypes, TypeOK, JobTypes, JobsOf, Present
      <3>2. ~Switches(w, t) /\ ~Collects(w, t)
        BY <1>a, <3>1 DEF Switches, Collects, Orderly, InHand, RebuildSteps
      <3>3. CASE Proceeds(w, t) \/ Loads(w, t) \/ Marks(w, t) \/ Lists(w, t)
        BY <1>d, <2>1, <2>2, <3>3 DEF Proceeds, Loads, Marks, Lists, Inside, SameStore
      <3>4. CASE Embeds(w, t)
        BY <1>a, <1>d, <2>1, <2>2, <3>4 DEF Embeds, Inside
      <3>5. CASE Writes(w, t)
        <4>1. UNCHANGED <<live, active>> /\ state'[t] = state[t]
          BY <3>5 DEF Writes, Inside
        <4>2. CASE live[d] = ver[t]
          <5>1. attempts[t] > 1
            <6>1. live[d] \in Nat
              BY <1>a, <1>c DEF StoreType
            <6>2. live[d] < ver[t] \/ attempts[t] > 1
              BY <2>1, <2>5, <3>1, <3>5, NotYetLive DEF Writes, TurnInv
            <6> QED
              BY <4>2, <6>1, <6>2
          <5>2. Rerun(d)
            BY <3>1, <4>2, <5>1 DEF Rerun, InFlight
          <5> QED
            BY <2>2, <4>1, <5>2
        <4>3. CASE live[d] # ver[t]
          <5>1. /\ \A c \in body[w][t].rows : c.ver = ver[t]
                /\ \A c \in NewRows(w, t) : c.ver = ver[t]
            BY <3>5, <1>a DEF Writes, Orderly, InHand, NewRows, NewChunks
          <5>2. \A c \in LiveChunks(d) : c.ver = live[d]
            BY DEF LiveChunks, VersionChunks
          <5>3. \A c \in ChunkRows : c.doc = d /\ c.ver = live[d] => (c \in chunks' <=> c \in chunks)
            BY <3>5, <4>3, <5>1 DEF Writes
          <5>4. LiveChunks(d) \subseteq embedded[active] => LiveChunks(d) \subseteq embedded'[active']
            BY <1>a, <3>5, <4>1, <4>3, <5>1, <5>2 DEF Writes
          <5> QED
            BY <1>d, <2>1, <2>2, <4>1, <5>3, <5>4
        <4> QED
          BY <4>2, <4>3
      <3>6. CASE Flips(w, t)
        <4>1. ServesWhole(docOf[t], model[t])' /\ model[t] = active
          BY <1>4, <2>1, <2>5, <3>1, <3>6, FlipServes DEF CurrentModel
        <4> QED
          BY <2>1, <2>5, <3>6, <4>1 DEF ServesWhole, Flips
      <3>7. CASE Ends(w, t)
        <4>1. SameStore /\ live'[d] = live[d]
          BY <3>7 DEF Ends, SameStore
        <4>2. CASE state'[t] # "done"
          BY <1>d, <2>1, <2>2, <3>7, <4>1, <4>2 DEF Ends, SameStore
        <4>3. CASE state'[t] = "done"
          <5>1. body[w][t].at = "flipped" /\ body[w][t].rows = {}
            BY <1>a, <3>1, <3>7, <4>3 DEF Ends, InFlight, Orderly, InHand, RebuildSteps
          <5>2. MyRows(t) \subseteq embedded[model[t]] /\ live[d] = ver[t] /\ model[t] = active
            BY <2>1, <2>5, <3>1, <5>1 DEF TurnInv, RunWork, RowsAsLeft, CurrentModel
          <5>3. LiveChunks(d) = MyRows(t)
            BY <2>5, <5>2 DEF LiveChunks, MyRows
          <5>4. ServesWhole(d, active)
            BY <2>1, <2>5, <3>1, <5>1, <5>2, <5>3, OneContent DEF ServesWhole
          <5> QED
            BY <1>d, <2>1, <4>1, <5>4 DEF SameStore, ServesWhole, LiveChunks, VersionChunks
        <4> QED
          BY <4>2, <4>3
      <3> QED
        BY <1>4, <3>2, <3>3, <3>4, <3>5, <3>6, <3>7 DEF RunEffect
    <2> QED
      BY <2>3, <2>4, <2>5
  <1> QED
    BY <1>1, <1>2, <1>3, <1>4, <1>a, StepFrames

WholeInv ==
    TurnInv /\ ChangesApart /\ Covering /\ CurrentModel /\ Versions /\ HalfOnlyByRerun

LEMMA WholeInit == RebuildInit => WholeInv
  <1>1. RebuildInit => CurrentModel /\ Versions /\ HalfOnlyByRerun
    BY DEF RebuildInit, PipelineInit, QueueInit, StoreInit, NoRequest, CurrentModel, Engaged,
           Uploading, OpenStates, InFlight, Versions, HalfOnlyByRerun
  <1> QED
    BY <1>1, TurnInit, ChangeInit DEF WholeInv, ChangeInv

LEMMA WholeInvStep ==
    ASSUME Overlap = "none", Apart, LeasesSuffice, WholeInv, [RebuildNext]_rebuildVars
    PROVE  WholeInv'
  <1>1. TurnInv'
    BY TurnStep DEF WholeInv
  <1>2. ChangesApart' /\ Covering'
    BY ChangeStep DEF WholeInv, TurnInv, ChangeInv
  <1>3. CurrentModel'
    BY CurrentModelStep DEF WholeInv, TurnInv
  <1>4. Versions'
    BY VersionsStep DEF WholeInv, TurnInv
  <1> QED
    BY <1>1, <1>2, <1>3, <1>4, WholeStep DEF WholeInv

\* Where callers take turns, also with model changes, a document that is live is
\* at every moment served whole with the active model, whatever crashes, fails
\* and is retried, unless a job for the live version itself was started again.
THEOREM ReadersSeeWhole ==
    ASSUME Overlap = "none", Apart, LeasesSuffice
    PROVE  RebuildSpec => []HalfOnlyByRerun
  <1>1. WholeInv => HalfOnlyByRerun
    BY DEF WholeInv
  <1> QED
    BY <1>1, WholeInit, WholeInvStep, PTL DEF RebuildSpec

-----------------------------------------------------------------------------
(* What is served when everything has ended.  The bytes, the hash and the  *)
(* chunks come from the request, by three ways; turns keep them together   *)
(* for a slot that has a storage key of its own.                           *)

\* The row of the document names what t uploads.
Hashed(t) ==
    \/ req[t].phase = "enqueueing"
    \/ state[t] \in OpenStates /\ jobType[t] = "ingest"

\* Something of t is in storage: its bytes, for its job to read, or the file that
\* a local put has just opened.
Landed(t) == req[t].phase \in {"writing", "stored", "upserting"} \/ Hashed(t)

InStore(t) == IF req[t].phase = "writing" THEN Torn ELSE req[t].content

Incoming ==
    /\ \A t \in Tasks : req[t].phase = "writing" => LocalFiles
    /\ \A t \in Tasks : Landed(t) /\ KeyOwned(req[t].slot) =>
          blob[KeyOf[req[t].slot]] = InStore(t)
    /\ \A t \in Tasks : Hashed(t) => hash[docOf[t]] = req[t].content
    /\ \A w \in Workers, t \in Tasks :
          docOf[t] \in documents /\ body[w][t].at \in Steps \ {"start"} /\ KeyOwned(req[t].slot) =>
              body[w][t].content = req[t].content

LEMMA LandedWhere ==
    ASSUME Orderly, Serial, NEW t \in Tasks
    PROVE  /\ Landed(t) => Engaged(t) /\ req[t].slot \in Slots
           /\ Hashed(t) => docOf[t] \in documents /\ docOf[t] \in Docs
                           /\ slot[docOf[t]] = req[t].slot
  <1>a. Registered /\ RequestType(RebuildPhases) /\ StoreType
    BY OrderlyTypes DEF Orderly, RebuildTypes, PipelineTypes
  <1>1. Hashed(t) => docOf[t] \in documents /\ docOf[t] \in Docs /\ slot[docOf[t]] = req[t].slot
    BY <1>a DEF Hashed, Registered, OpenStates, Present, Serial, FoundStays, StoreType
  <1>2. Hashed(t) => req[t].slot \in Slots
    BY <1>a, <1>1 DEF StoreType
  <1> QED
    BY <1>a, <1>1, <1>2 DEF Landed, Hashed, Engaged, Uploading, RequestType

LEMMA AskIncoming ==
    ASSUME Orderly, Serial, Incoming, NEW t \in Tasks, AskFrame(t), AskStep(t)
    PROVE  Incoming'
  <1>a. RebuildTypes /\ Registered /\ RequestType(RebuildPhases) /\ StoreType /\ BodyType(AllSteps)
    BY OrderlyTypes DEF Orderly, RebuildTypes, PipelineTypes
  <1>b. documents \subseteq Docs /\ NoDoc \notin Docs /\ t \in Docs
    BY <1>a, PipelineAssumption DEF StoreType
  <1>c. /\ state[t] = "absent" /\ "absent" \notin OpenStates /\ "skipped" \notin OpenStates
        /\ \A w \in Workers : body[w][t].at = "start"
    BY <1>a, AskIdle DEF OpenStates, InFlight
  <1>1. \A u \in Tasks \ {t} : /\ req'[u] = req[u] /\ docOf'[u] = docOf[u]
                               /\ Landed(u)' <=> Landed(u)
                               /\ Hashed(u)' <=> Hashed(u)
    BY DEF AskFrame, Landed, Hashed
  <1>2. Begins(t) \/ Skips(t) \/ GivesUp(t) \/ Checks(t) => ~Landed(t)' /\ ~Hashed(t)'
    BY <1>c DEF Begins, Skips, GivesUp, Checks, Moves, SameRow, Landed, Hashed
  <1>6. req[t].phase \in {"storing", "writing"} =>
           Engaged(t) /\ req[t].slot \in Slots /\ req[t].content \in Contents
    BY <1>a DEF Engaged, Uploading, RequestType
  <1>7. \A s \in Slots : KeyOf[s] \in Keys
    BY StoreAssumption
  <1>8. \A u \in Tasks : req'[u].phase = "writing" => LocalFiles
    BY <1>1 DEF AskStep, Begins, Puts, Looks, Upserts, Creates, Updates, Submits, Skips, GivesUp,
                Checks, Moves, Incoming
  <1>3. ASSUME NEW u \in Tasks, Landed(u)', KeyOwned(req'[u].slot)
        PROVE  blob'[KeyOf[req'[u].slot]] = InStore(u)'
    <2>1. CASE u # t
      <3>1. /\ Landed(u) /\ Engaged(u) /\ req[u].slot \in Slots /\ KeyOwned(req[u].slot)
            /\ InStore(u)' = InStore(u)
        BY <1>1, <1>3, <2>1, LandedWhere DEF InStore
      <3>2. CASE Puts(t)
        <4>1. Engaged(t) /\ req[t].slot \in Slots
          BY <1>6, <3>2 DEF Puts, Moves
        <4>2. KeyOf[req[t].slot] # KeyOf[req[u].slot]
          BY <2>1, <3>1, <4>1 DEF Serial, OnePerSlot, KeyOwned
        <4>3. blob'[KeyOf[req[u].slot]] = blob[KeyOf[req[u].slot]]
          BY <1>a, <1>7, <3>1, <3>2, <4>1, <4>2 DEF Puts, Stores, StoreType
        <4> QED
          BY <1>1, <2>1, <3>1, <4>3 DEF Incoming
      <3>3. CASE ~Puts(t)
        <4>1. UNCHANGED blob
          BY <3>3 DEF AskStep, Begins, Looks, Upserts, Submits, Skips, GivesUp, Checks
        <4> QED
          BY <1>1, <2>1, <3>1, <4>1 DEF Incoming
      <3> QED
        BY <3>2, <3>3
    <2>2. CASE u = t
      <3>1. CASE Puts(t)
        <4>1. req[t].slot \in Slots /\ req[t].content \in Contents /\ SameSlot(t)
          BY <1>6, <3>1 DEF Puts, Moves
        <4>2. KeyOf[req[t].slot] \in Keys
          BY <1>7, <4>1
        <4>3. \A bytes : Stores(t, bytes) => blob'[KeyOf[req[t].slot]] = bytes
          BY <1>a, <4>2 DEF Stores, StoreType
        <4>4. CASE Moves(t, {"storing"}, {"stored"}) /\ Stores(t, req[t].content)
          BY <2>2, <4>1, <4>3, <4>4 DEF Moves, SameSlot, InStore
        <4>5. CASE Moves(t, {"storing"}, {"writing"}) /\ Stores(t, Torn)
          BY <2>2, <4>1, <4>3, <4>5 DEF Moves, SameSlot, InStore
        <4>6. CASE /\ Moves(t, {"writing"}, {"stored"})
                   /\ \E bytes \in AfterWrite(blob[KeyOf[req[t].slot]], req[t].content) : Stores(t, bytes)
          <5>1. Landed(t) /\ KeyOwned(req[t].slot) /\ LocalFiles
            BY <1>3, <2>2, <4>1, <4>6 DEF Moves, Landed, SameSlot, Incoming
          <5>2. blob[KeyOf[req[t].slot]] = Torn
            BY <4>6, <5>1 DEF Moves, InStore, Incoming
          <5>3. Torn # NoContent
            BY <5>1, StoreAssumption
          <5>4. AfterWrite(blob[KeyOf[req[t].slot]], req[t].content) = {req[t].content}
            BY <5>2, <5>3 DEF AfterWrite
          <5> QED
            BY <2>2, <4>1, <4>3, <4>6, <5>4 DEF Moves, SameSlot, InStore
        <4> QED
          BY <3>1, <4>4, <4>5, <4>6 DEF Puts
      <3>2. CASE Looks(t) \/ Upserts(t) \/ Submits(t)
        <4>1. /\ Landed(t) /\ UNCHANGED blob /\ SameSlot(t)
              /\ req[t].phase # "writing" /\ req'[t].phase # "writing"
          <5>1. CASE Looks(t)
            BY <5>1 DEF Looks, Moves, Landed
          <5>2. CASE Upserts(t)
            BY <5>2 DEF Upserts, Creates, Updates, Moves, Landed
          <5>3. CASE Submits(t)
            BY <1>3, <2>2, <5>3 DEF Submits, Moves, Landed, Hashed
          <5> QED
            BY <3>2, <5>1, <5>2, <5>3
        <4> QED
          BY <1>3, <2>2, <4>1 DEF SameSlot, InStore, Incoming
      <3> QED
        BY <1>2, <1>3, <2>2, <3>1, <3>2 DEF AskStep
    <2> QED
      BY <2>1, <2>2
  <1>4. ASSUME NEW u \in Tasks, Hashed(u)' PROVE hash'[docOf'[u]] = req'[u].content
    <2>1. CASE u # t
      <3>1. /\ Hashed(u) /\ Engaged(u) /\ docOf[u] \in documents /\ docOf[u] \in Docs
            /\ slot[docOf[u]] = req[u].slot
        BY <1>1, <1>4, <2>1, LandedWhere DEF Landed
      <3>2. CASE Upserts(t)
        <4>1. Engaged(t)
          BY <3>2, <1>a, AskEngages
        <4>2. Creates(t) => docOf[u] # t
          BY <1>a, <3>1 DEF Creates, Moves, Registered, Spent
        <4>3. Updates(t) => docOf[u] # req[t].found
          BY <1>a, <2>1, <3>1, <4>1 DEF Updates, Registered, Serial, OnePerSlot
        <4> QED
          BY <1>1, <2>1, <3>1, <3>2, <4>2, <4>3 DEF Upserts, Creates, Updates, Incoming
      <3>3. CASE ~Upserts(t)
        <4>1. UNCHANGED hash
          BY <3>3 DEF AskStep, Begins, Puts, Looks, Submits, Skips, GivesUp, Checks, SameDocs
        <4> QED
          BY <1>1, <2>1, <3>1, <4>1 DEF Incoming
      <3> QED
        BY <3>2, <3>3
    <2>2. CASE u = t
      <3>1. CASE Upserts(t)
        <4>1. CASE Creates(t)
          BY <2>2, <3>1, <4>1 DEF Upserts, Creates, SameSlot
        <4>2. CASE Updates(t)
          <5>1. req[t].found \in documents /\ req[t].found \in Docs
            BY <4>2 DEF Updates, Moves, Serial, FoundStays
          <5> QED
            BY <2>2, <3>1, <4>2, <5>1 DEF Upserts, Updates, SameSlot
        <4> QED
          BY <3>1, <4>1, <4>2 DEF Upserts
      <3>2. CASE Submits(t)
        BY <1>4, <2>2, <3>2 DEF Submits, Moves, SameDocs, SameColumns, SameSlot, Hashed, Incoming
      <3>3. CASE Puts(t) \/ Looks(t)
        BY <1>4, <1>c, <2>2, <3>3 DEF Puts, Looks, Moves, SameRow, Hashed
      <3> QED
        BY <1>2, <1>4, <2>2, <3>1, <3>2, <3>3 DEF AskStep
    <2> QED
      BY <2>1, <2>2
  <1>5. ASSUME NEW w \in Workers, NEW u \in Tasks, docOf'[u] \in documents',
               body'[w][u].at \in Steps \ {"start"}, KeyOwned(req'[u].slot)
        PROVE  body'[w][u].content = req'[u].content
    <2>1. UNCHANGED body /\ u # t
      BY <1>5, <1>c DEF AskFrame
    <2>2. docOf[u] \in documents
      BY <1>1, <1>5, <1>a, <2>1, AskElsewhere DEF BodyType
    <2> QED
      BY <1>1, <1>5, <2>1, <2>2 DEF Incoming
  <1> QED
    BY <1>8, <1>3, <1>4, <1>5 DEF Incoming, KeyOwned

LEMMA IncomingStep ==
    ASSUME Orderly, Serial, DropsInTurn, Incoming, [RebuildNext]_rebuildVars
    PROVE  Incoming'
  <1>a. RebuildTypes /\ Registered /\ RequestType(RebuildPhases) /\ StoreType /\ BodyType(AllSteps)
        /\ CountType
    BY OrderlyTypes DEF Orderly, RebuildTypes, PipelineTypes
  <1>1. ASSUME NEW t \in Tasks, AskFrame(t), AskStep(t) PROVE Incoming'
    BY <1>1, AskIncoming
  <1>2. ASSUME UNCHANGED <<req, docOf, jobType, hash>>, documents' \subseteq documents,
               \A t \in Tasks : state'[t] \in OpenStates => state[t] \in OpenStates,
               \A t \in Tasks : Landed(t) /\ KeyOwned(req[t].slot) =>
                   blob'[KeyOf[req[t].slot]] = blob[KeyOf[req[t].slot]],
               \A w \in Workers, t \in Tasks :
                   /\ docOf[t] \in documents /\ body'[w][t].at \in Steps \ {"start"}
                   /\ KeyOwned(req[t].slot)
                   => body'[w][t].content = req[t].content
        PROVE  Incoming'
    <2>1. \A t \in Tasks : /\ Landed(t)' => Landed(t)
                           /\ Hashed(t)' => Hashed(t)
                           /\ InStore(t)' = InStore(t)
      BY <1>2 DEF Landed, Hashed, InStore
    <2> QED
      BY <1>2, <2>1 DEF Incoming, KeyOwned
  <1>3. ASSUME NEW d \in Docs, Removes(d) PROVE Incoming'
    BY <1>2, <1>3 DEF Removes, SameRuns, requestVars, columnVars, OpenStates, InFlight, Incoming
  <1>4. ASSUME NEW d \in Docs, Drops(d) PROVE Incoming'
    <2>1. \A t \in Tasks : Landed(t) => req[t].slot \in Slots /\ req[t].slot # slot[d]
      <3>1. \A t \in Tasks : Hashed(t) => req[t].slot # slot[d]
        BY <1>4, LandedWhere DEF Drops, DropsInTurn
      <3>2. \A t \in Tasks : req[t].phase \in {"writing", "stored", "upserting"} =>
               req[t].slot # slot[d]
        BY <1>4 DEF Drops, DropsInTurn, Landing
      <3> QED
        BY <3>1, <3>2, LandedWhere DEF Landed
    <2>2. slot[d] \in Slots
      BY <1>a DEF StoreType
    <2>3. \A t \in Tasks : Landed(t) /\ KeyOwned(req[t].slot) =>
             blob'[KeyOf[req[t].slot]] = blob[KeyOf[req[t].slot]]
      BY <1>4, <2>1, <2>2 DEF Drops, KeyOwned
    <2> QED
      BY <1>2, <1>4, <2>3 DEF Drops, SameRuns, requestVars, columnVars, Incoming
  <1>5. CASE Ticks
    <2>1. \A w \in Workers, t \in Tasks : body'[w][t].at \in Steps \ {"start"} =>
             body'[w][t] = body[w][t]
      BY <1>5 DEF Ticks, SameRun, Gone, NoBody
    <2> QED
      BY <1>2, <1>5, <2>1 DEF Ticks, storeVars, requestVars, columnVars, Incoming
  <1>6. ASSUME NEW w \in Workers, NEW t \in Tasks, RunFrame(w, t), RunEffect(w, t)
        PROVE  Incoming'
    <2>1. UNCHANGED <<req, docOf, jobType, hash, documents, blob>>
      BY <1>6 DEF RunFrame, requestVars, columnVars
    <2>2. \A u \in Tasks : state'[u] \in OpenStates => state[u] \in OpenStates
      BY <1>6, RunEngages
    <2>3. ASSUME NEW v \in Workers, NEW u \in Tasks, docOf[u] \in documents,
                 body'[v][u].at \in Steps \ {"start"}, KeyOwned(req[u].slot)
          PROVE  body'[v][u].content = req[u].content
      <3>1. CASE v # w \/ u # t
        BY <1>6, <2>3, <3>1 DEF RunFrame, SameRun, Incoming
      <3>2. CASE v = w /\ u = t /\ Loads(w, t)
        <4>1. state[t] \in InFlight /\ Engaged(t)
          BY <1>6, <2>3, <3>2, OneRun DEF RunFrame
        <4>2. Landed(t) /\ slot[docOf[t]] = req[t].slot /\ req[t].phase # "writing"
          BY <1>a, <4>1, <3>2 DEF Loads, Engaged, Landed, Hashed, OpenStates, Registered, Uploading, InFlight
        <4> QED
          BY <2>3, <3>2, <4>2 DEF Loads, Inside, InStore, Incoming
      <3>3. CASE v = w /\ u = t /\ ~Loads(w, t)
        <4>1. body'[w][t].content = body[w][t].content /\ body[w][t].at \in Steps \ {"start"}
          <5>1. ~Ends(w, t) /\ ~Collects(w, t) /\ ~Switches(w, t)
            BY <2>3, <3>3 DEF Ends, Gone, NoBody, Collects, Switches, Inside, Steps
          <5> QED
            BY <1>6, <2>3, <3>3, <5>1
            DEF RunEffect, Proceeds, Marks, Writes, Lists, Embeds, Flips, Inside, Steps
        <4> QED
          BY <2>3, <3>3, <4>1 DEF Incoming
      <3> QED
        BY <3>1, <3>2, <3>3
    <2> QED
      BY <1>2, <2>1, <2>2, <2>3
  <1> QED
    BY <1>1, <1>3, <1>4, <1>5, <1>6, <1>a, StepFrames

\* Document d waits for nobody: no request is about to submit a job for it or
\* has died on the way, and all its jobs have succeeded.
Settled(d) ==
    /\ \A t \in Tasks : req[t].slot = slot[d] => req[t].phase \notin {"enqueueing", "lost"}
    /\ \A t \in JobsOf(d) : state[t] \in {"done", "skipped"}

ServesLatest(d) ==
    /\ live[d] > 0
    /\ LiveChunks(d) \subseteq embedded[active]
    /\ \E c \in Contents :
          /\ \A k \in LiveChunks(d) : k.content = c
          /\ Cardinality(LiveChunks(d)) = ChunkCount[c]
          /\ KeyOwned(slot[d]) => c = hash[d]

SettledServes == \A d \in documents : Settled(d) => ServesLatest(d)

\* A run that has flipped has made d serve what its request brought.
LEMMA FlippedServes ==
    ASSUME TurnInv, CurrentModel, Incoming, NEW w \in Workers, NEW t \in Tasks,
           pc[w][t] # "idle", docOf[t] \in documents, body[w][t].at = "flipped"
    PROVE  ServesLatest(docOf[t])
  <1>a. RebuildTypes /\ Registered /\ Orderly /\ BodyType(AllSteps)
    BY OrderlyTypes DEF TurnInv, Orderly, RebuildTypes, PipelineTypes
  <1>1. state[t] \in InFlight /\ Engaged(t)
    BY OneRun DEF TurnInv
  <1>2. jobType[t] = "ingest" /\ body[w][t].rows = {}
    BY <1>a DEF Orderly, InHand, Steps
  <1>3. Hashed(t)
    BY <1>1, <1>2 DEF Hashed, OpenStates
  <1>4. KeyOwned(slot[docOf[t]]) => hash[docOf[t]] = body[w][t].content
    <2>1. slot[docOf[t]] = req[t].slot
      BY <1>3, LandedWhere DEF TurnInv
    <2> QED
      BY <1>3, <2>1 DEF Incoming, Steps
  <1>9. body[w][t].content \in Contents
    BY <1>a DEF BodyType, Steps
  <1>5. model[t] = active
    BY <1>1 DEF CurrentModel
  <1>6. MyRows(t) \subseteq embedded[active] /\ live[docOf[t]] = ver[t]
    BY <1>2, <1>5 DEF TurnInv, RunWork, RowsAsLeft
  <1>7. ver[t] > 0
    BY <1>1, <1>2, <1>a DEF Registered, Present, InFlight
  <1>8. LiveChunks(docOf[t]) = MyRows(t)
    BY <1>6 DEF LiveChunks, MyRows
  <1> QED
    BY <1>4, <1>6, <1>7, <1>8, <1>9, OneContent DEF ServesLatest

\* Nothing that happens to other documents takes away what d serves.
LEMMA ServesOn ==
    ASSUME StoreType, StoreType', NEW d \in Docs, ServesLatest(d),
           live'[d] = live[d], slot'[d] = slot[d], hash'[d] = hash[d],
           \A c \in ChunkRows : c.doc = d => (c \in chunks' <=> c \in chunks),
           LiveChunks(d) \subseteq embedded[active] => LiveChunks(d) \subseteq embedded'[active']
    PROVE  ServesLatest(d)'
  <1>1. LiveChunks(d)' = LiveChunks(d)
    BY DEF StoreType, LiveChunks, VersionChunks
  <1> QED
    BY <1>1 DEF ServesLatest, KeyOwned

LEMMA SettledStep ==
    ASSUME TurnInv, TurnInv', OneDocumentPerSlot, Covering, CurrentModel, Incoming,
           SettledServes, [RebuildNext]_rebuildVars
    PROVE  SettledServes'
  <1>a. RebuildTypes /\ Orderly /\ Serial /\ Registered /\ StoreType /\ StoreType'
        /\ RequestType(RebuildPhases) /\ active \in Models /\ documents \subseteq Docs
        /\ documents' \subseteq Docs
    <2>1. RebuildTypes /\ RebuildTypes'
      BY OrderlyTypes, PTL DEF TurnInv
    <2> QED
      BY <2>1 DEF TurnInv, Orderly, RebuildTypes, PipelineTypes, StoreType
  <1>b. SUFFICES ASSUME NEW d \in documents', Settled(d)' PROVE ServesLatest(d)'
    BY DEF SettledServes
  <1>c. d \in Docs
    BY <1>a
  <1>d. ASSUME d \in documents, Settled(d),
               live'[d] = live[d], slot'[d] = slot[d], hash'[d] = hash[d],
               \A c \in ChunkRows : c.doc = d => (c \in chunks' <=> c \in chunks),
               LiveChunks(d) \subseteq embedded[active] => LiveChunks(d) \subseteq embedded'[active']
        PROVE  ServesLatest(d)'
    BY <1>a, <1>c, <1>d, ServesOn DEF SettledServes
  <1>e. \A c \in LiveChunks(d) : c.doc = d
    BY DEF LiveChunks, VersionChunks
  <1>1. ASSUME NEW t \in Tasks, AskFrame(t), AskStep(t) PROVE ServesLatest(d)'
    <2>1. \A u \in Tasks \ {t} : /\ req'[u] = req[u] /\ docOf'[u] = docOf[u]
                                 /\ state'[u] = state[u]
      BY <1>1 DEF AskFrame
    <2>2. state[t] = "absent"
      BY <1>1, <1>a, AskIdle
    <2>3. Upserts(t) => docOf'[t] # d
      <3>1. Upserts(t) => req'[t].phase = "enqueueing" /\ slot'[docOf'[t]] = req'[t].slot
        BY <1>a DEF Upserts, Creates, Updates, Moves, SameSlot, Registered
      <3> QED
        BY <1>b, <3>1 DEF Settled
    <2>4. /\ d \in documents /\ live'[d] = live[d] /\ slot'[d] = slot[d]
          /\ hash'[d] = hash[d]
      <3>1. CASE Upserts(t)
        BY <1>c, <2>3, <3>1 DEF Upserts, Creates, Updates
      <3>2. CASE ~Upserts(t)
        BY <1>1, <3>2
        DEF AskStep, Begins, Puts, Looks, Submits, Skips, GivesUp, Checks, SameDocs
      <3> QED
        BY <3>1, <3>2
    <2>5. req[t].slot = slot[d] => req[t].phase \notin {"enqueueing", "lost"}
      <3>1. ASSUME req[t].slot = slot[d], req[t].phase = "enqueueing" PROVE FALSE
        <4>1. docOf[t] = d /\ docOf[t] \in documents
          BY <1>a, <2>4, <3>1 DEF Serial, FoundStays, Registered, OneDocumentPerSlot
        <4>2. Submits(t) \/ (GivesUp(t) /\ req'[t].phase = "lost")
          BY <1>1, <3>1, <4>1
          DEF AskStep, Begins, Puts, Looks, Upserts, Creates, Updates, Submits, Skips, GivesUp,
              Checks, Moves, Uploading
        <4>3. CASE Submits(t)
          <5>1. docOf'[t] = d /\ state'[t] = "pending"
            BY <4>1, <4>3 DEF Submits, SameColumns
          <5> QED
            BY <1>b, <5>1 DEF Settled, JobsOf, Present
        <4>4. CASE GivesUp(t) /\ req'[t].phase = "lost"
          <5>1. req'[t].slot = slot'[d]
            BY <2>4, <3>1, <4>4 DEF GivesUp, SameSlot
          <5> QED
            BY <1>b, <4>4, <5>1 DEF Settled
        <4> QED
          BY <4>2, <4>3, <4>4
      <3>2. req[t].phase # "lost"
        BY <1>1
        DEF AskStep, Begins, Puts, Looks, Upserts, Creates, Updates, Submits, Skips, GivesUp, Checks,
            Moves, Uploading
      <3> QED
        BY <3>1, <3>2
    <2>6. Settled(d)
      <3>1. \A u \in Tasks : req[u].slot = slot[d] => req[u].phase \notin {"enqueueing", "lost"}
        BY <1>b, <2>1, <2>4, <2>5 DEF Settled
      <3>2. \A u \in JobsOf(d) : u # t
        BY <2>2 DEF JobsOf, Present, InFlight, Final
      <3>3. \A u \in JobsOf(d) : u \in JobsOf(d)' /\ state'[u] = state[u]
        BY <2>1, <3>2 DEF JobsOf
      <3> QED
        BY <1>b, <3>1, <3>3 DEF Settled
    <2> QED
      BY <1>1, <1>d, <2>4, <2>6 DEF AskFrame
  <1>f. ASSUME UNCHANGED <<req, docOf, documents, slot, hash>>,
               \A t \in Tasks : docOf[t] = d =>
                  state'[t] = state[t] \/ state'[t] \in InFlight \cup {"pending", "failed"}
        PROVE  d \in documents /\ Settled(d)
    <2>1. d \in documents
      BY <1>b, <1>f
    <2>2. \A t \in JobsOf(d) : t \in JobsOf(d)' /\ state'[t] = state[t]
      BY <1>b, <1>f DEF Settled, JobsOf, Present, InFlight, Final
    <2> QED
      BY <1>b, <1>f, <2>1, <2>2 DEF Settled
  <1>2. ASSUME NEW e \in Docs, Removes(e) PROVE ServesLatest(d)'
    <2>1. d \in documents /\ d # e /\ UNCHANGED <<req, docOf, slot, hash, live, active>>
      BY <1>2, <1>b DEF Removes, requestVars, columnVars
    <2>2. \A t \in JobsOf(d) : t \in JobsOf(d)' /\ state'[t] = state[t]
      BY <1>2, <2>1 DEF Removes, JobsOf
    <2>3. Settled(d)
      BY <1>b, <2>1, <2>2 DEF Settled
    <2> QED
      BY <1>2, <1>a, <1>d, <1>e, <2>1, <2>3 DEF Removes
  <1>3. ASSUME Ticks \/ \E e \in Docs : Drops(e) PROVE ServesLatest(d)'
    <2>1. UNCHANGED <<req, docOf, documents, slot, hash, live, chunks, embedded, active>>
      BY <1>3 DEF Ticks, Drops, storeVars, requestVars, columnVars
    <2>2. \A t \in Tasks : state'[t] = state[t] \/ state'[t] \in InFlight
      BY <1>3 DEF Ticks, Drops
    <2> QED
      BY <1>d, <1>f, <2>1, <2>2
  <1>4. ASSUME NEW w \in Workers, NEW t \in Tasks, RunFrame(w, t), RunEffect(w, t)
        PROVE  ServesLatest(d)'
    <2>1. UNCHANGED <<req, docOf, documents, slot, hash, jobType>> /\ d \in documents
      BY <1>4, <1>b DEF RunFrame, requestVars, columnVars
    <2>2. CASE docOf[t] = d
      <3>1. state[t] \in InFlight
        BY <1>4, <1>a, <2>1, <2>2, OneRun DEF RunFrame
      <3>2. state'[t] = "done"
        <4>1. state'[t] \in Present => state'[t] \in {"done", "skipped"}
          BY <1>b, <2>1, <2>2 DEF Settled, JobsOf
        <4>2. state'[t] = state[t] \/ state'[t] \in InFlight \cup {"pending", "failed", "done"}
          BY <1>4
          DEF RunEffect, Proceeds, Loads, Marks, Writes, Lists, Embeds, Flips, Collects, Switches,
              Ends, Inside
        <4> QED
          BY <3>1, <4>1, <4>2 DEF Present, InFlight, Final
      <3>3. Ends(w, t) /\ body[w][t].at \in {"flipped", "switched", "sweep"}
        <4>1. state'[t] # state[t] /\ state'[t] \notin InFlight
          BY <3>1, <3>2 DEF InFlight
        <4>2. Ends(w, t)
          BY <1>4, <4>1
          DEF RunEffect, Proceeds, Loads, Marks, Writes, Lists, Embeds, Flips, Collects, Switches,
              Inside
        <4> QED
          BY <3>2, <4>1, <4>2 DEF Ends
      <3>4. body[w][t].at = "flipped"
        <4>1. jobType[t] = "rebuild" => docOf[t] \notin documents
          BY <1>a DEF Registered
        <4> QED
          BY <1>a, <2>1, <2>2, <3>3, <4>1 DEF Orderly, InHand, RebuildSteps
      <3>5. ServesLatest(d)
        BY <1>4, <2>1, <2>2, <3>4, FlippedServes DEF RunFrame
      <3> QED
        BY <1>a, <1>c, <2>1, <3>3, <3>5, ServesOn DEF Ends, SameStore
    <2>3. CASE docOf[t] # d
      <3>1. Settled(d)
        BY <1>4, <1>f, <2>1, <2>3 DEF RunFrame
      <3>2. CASE Switches(w, t)
        <4>1. Missing(t) = {} /\ scope[t] = Everywhere /\ active' = model[t]
          BY <3>2 DEF Switches, Covering
        <4>2. LiveChunks(d) \subseteq embedded[active']
          BY <4>1 DEF Missing, InScope, LiveChunks, VersionChunks
        <4> QED
          BY <1>d, <2>1, <3>1, <3>2, <4>2 DEF Switches
      <3>3. CASE ~Switches(w, t)
        <4>1. Elsewhere(t) /\ UNCHANGED active
          BY <1>4, <1>a, <3>3, RunElsewhere
          DEF RunEffect, Proceeds, Loads, Marks, Writes, Lists, Embeds, Flips, Collects, Ends,
              SameStore
        <4> QED
          BY <1>a, <1>c, <1>d, <1>e, <2>1, <2>3, <3>1, <4>1 DEF Elsewhere
      <3> QED
        BY <3>2, <3>3
    <2> QED
      BY <2>2, <2>3
  <1> QED
    BY <1>1, <1>2, <1>3, <1>4, <1>a, StepFrames

BytesInv == TurnInv /\ SlotsByDocument /\ DropsInTurn /\ Incoming

LEMMA BytesInit == RebuildInit => BytesInv
  <1>1. RebuildInit => SlotsByDocument /\ DropsInTurn /\ Incoming
    BY DEF RebuildInit, PipelineInit, QueueInit, StoreInit, NoRequest, NoBody, SlotsByDocument,
           OneDocumentPerSlot, DropsInTurn, Incoming, Landed, Hashed, OpenStates, InFlight, Steps
  <1> QED
    BY <1>1, TurnInit DEF BytesInv

LEMMA BytesStep ==
    ASSUME Overlap = "none", LeasesSuffice, BytesInv, [RebuildNext]_rebuildVars
    PROVE  BytesInv'
  <1>1. TurnInv' /\ RebuildInv
    BY TurnStep DEF BytesInv, TurnInv, Orderly
  <1>2. SlotsByDocument'
    BY SlotStep, ModelChangeStoreStep, RebuildStepCases
    DEF BytesInv, SlotsByDocument, OneDocumentPerSlot
  <1>3. DropsInTurn'
    BY <1>1, DropsStep DEF BytesInv
  <1>4. Incoming'
    BY IncomingStep DEF BytesInv, TurnInv
  <1> QED
    BY <1>1, <1>2, <1>3, <1>4 DEF BytesInv

\* When callers take turns and no job is run twice at a time, the bytes that a
\* waiting or running job is going to read are those that its document's
\* content_hash names, whole, if no other slot has their key: whatever puts
\* crashed, was retried or was removed before, on either kind of storage.
THEOREM BytesAwaitJobs ==
    ASSUME Overlap = "none", LeasesSuffice
    PROVE  RebuildSpec => []BytesAwaitTheirJob
  <1>1. ASSUME BytesInv PROVE BytesAwaitTheirJob
    <2> SUFFICES ASSUME NEW t \in Tasks, Unfinished(t), docOf[t] \in documents,
                        KeyOwned(slot[docOf[t]])
                 PROVE  blob[KeyOf[slot[docOf[t]]]] = hash[docOf[t]]
      BY DEF BytesAwaitTheirJob
    <2>1. Hashed(t) /\ Landed(t) /\ req[t].phase # "writing"
      BY <1>1
      DEF Unfinished, Landed, Hashed, OpenStates, InFlight, BytesInv, TurnInv, Orderly, Registered
    <2>2. slot[docOf[t]] = req[t].slot
      BY <1>1, <2>1, LandedWhere DEF BytesInv, TurnInv
    <2> QED
      BY <1>1, <2>1, <2>2 DEF BytesInv, Incoming, InStore
  <1> QED
    BY <1>1, BytesInit, BytesStep, PTL DEF RebuildSpec

LatestInv == BytesInv /\ ChangesApart /\ Covering /\ CurrentModel /\ SettledServes

LEMMA LatestInit == RebuildInit => LatestInv
  <1>1. RebuildInit => SettledServes /\ CurrentModel
    BY DEF RebuildInit, PipelineInit, QueueInit, StoreInit, NoRequest, OpenStates, InFlight,
           SettledServes, CurrentModel, Engaged, Uploading
  <1> QED
    BY <1>1, BytesInit, ChangeInit DEF LatestInv, ChangeInv

LEMMA LatestStep ==
    ASSUME Overlap = "none", Apart, LeasesSuffice, LatestInv, [RebuildNext]_rebuildVars
    PROVE  LatestInv'
  <1>1. BytesInv'
    BY BytesStep DEF LatestInv
  <1>2. ChangesApart' /\ Covering'
    BY ChangeStep DEF LatestInv, BytesInv, TurnInv, ChangeInv
  <1>3. CurrentModel'
    BY CurrentModelStep DEF LatestInv, BytesInv, TurnInv
  <1>4. SettledServes'
    BY <1>1, SettledStep DEF LatestInv, BytesInv, SlotsByDocument
  <1> QED
    BY <1>1, <1>2, <1>3, <1>4 DEF LatestInv

\* When callers take turns, a document whose requests have all been answered
\* and whose jobs have all succeeded is served whole with the active model, and,
\* if its storage key is its own, with the content of its last upload, whatever
\* crashed, was retried, removed or changed before.
THEOREM SettledServeLatest ==
    ASSUME Overlap = "none", Apart, LeasesSuffice
    PROVE  RebuildSpec => []SettledServesLatest
  <1>1. \A d \in documents : Quiet(d) => Settled(d)
    BY DEF Quiet, Settled
  <1>2. \A d \in documents : ServesLatest(d) =>
           /\ live[d] > 0
           /\ ServesWhole(d, active)
           /\ KeyOwned(slot[d]) => /\ \A c \in LiveChunks(d) : c.content = hash[d]
                                   /\ Cardinality(LiveChunks(d)) = ChunkCount[hash[d]]
    BY DEF ServesLatest, ServesWhole
  <1>3. LatestInv => SettledServesLatest
    BY <1>1, <1>2 DEF LatestInv, SettledServes, SettledServesLatest
  <1> QED
    BY <1>3, LatestInit, LatestStep, PTL DEF RebuildSpec
=============================================================================
