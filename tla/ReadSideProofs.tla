---------------------------- MODULE ReadSideProofs ----------------------------
(***************************************************************************)
(* Proofs about the answers of queries and of the status poll in ReadSide. *)
(*                                                                         *)
(* An answer keeps to the caller's scope and to one run however uploads,   *)
(* removals, runs, model changes and readers overlap: whatever job wrote   *)
(* the address columns of a chunk and of its embedding, it was about the   *)
(* chunk's document, and the slot of a document_id never changes, not even *)
(* after the document was removed.                                         *)
(*                                                                         *)
(* That a query keeps finding what it could find when it came rests on the *)
(* same history: a chunk that is deleted never comes back, because a run   *)
(* that writes its version anew leaves rows of its own, so that a chunk    *)
(* that is there still has the embedding it had.  That fully_indexed can   *)
(* be relied on also needs callers that take turns (OrderlyProofs).        *)
(***************************************************************************)
EXTENDS ReadSide, OrderlyProofs

-----------------------------------------------------------------------------
(* What the tables know of where a chunk comes from. *)

\* Only the chunk transaction of a run inserts chunks, of the run's own.
LEMMA NewRowsOnly ==
    ASSUME RebuildTypes, [RebuildNext]_rebuildVars, NEW c \in chunks', c \notin chunks
    PROVE  \E w \in Workers, t \in Tasks :
              /\ pc[w][t] # "idle" /\ body[w][t].at = "deleting"
              /\ c.doc = docOf[t] /\ c.by = <<t, snap[w][t]>>
  <1>1. \E w \in Workers, t \in Tasks : RunFrame(w, t) /\ RunEffect(w, t)
    BY StepFrames DEF AskFrame, Removes, Drops, Ticks, storeVars
  <1>2. PICK w \in Workers, t \in Tasks : RunFrame(w, t) /\ RunEffect(w, t)
    BY <1>1
  <1>3. Writes(w, t)
    BY <1>2
    DEF RunEffect, Proceeds, Loads, Marks, Lists, Embeds, Flips, Collects, Switches, Ends, SameStore
  <1>4. c \in NewRows(w, t)
    BY <1>3 DEF Writes
  <1>5. c.doc = docOf[t] /\ c.by = <<t, snap[w][t]>>
    BY <1>4 DEF NewRows, NewChunks
  <1> QED
    BY <1>2, <1>3, <1>5 DEF RunFrame, Writes

\* The job that wrote a chunk is about the chunk's document.
WrittenFor == \A c \in chunks : docOf[c.by[1]] = c.doc

LEMMA WrittenForStep ==
    ASSUME RebuildTypes, Registered, WrittenFor, [RebuildNext]_rebuildVars
    PROVE  WrittenFor'
  <1>1. RequestsMove /\ StoreType /\ chunks \subseteq ChunkRows
    BY RequestsStep DEF RebuildTypes, PipelineTypes, StoreType
  <1>2. ASSUME NEW t \in Tasks, docOf[t] \in Docs PROVE docOf'[t] = docOf[t]
    BY <1>1, <1>2 DEF Registered, RequestsMove
  <1>3. ASSUME NEW c \in chunks PROVE docOf'[c.by[1]] = c.doc
    <2>1. c.by[1] \in Tasks /\ c.doc \in Docs
      BY <1>1 DEF ChunkRows
    <2> QED
      BY <1>2, <2>1 DEF WrittenFor
  <1>4. ASSUME NEW c \in chunks', c \notin chunks PROVE docOf'[c.by[1]] = c.doc
    <2>1. PICK w \in Workers, t \in Tasks :
             /\ pc[w][t] # "idle" /\ body[w][t].at = "deleting"
             /\ c.doc = docOf[t] /\ c.by = <<t, snap[w][t]>>
      BY <1>4, NewRowsOnly
    <2>2. docOf[t] \in Docs
      BY <2>1 DEF RebuildTypes, PipelineTypes, BodyType, Steps
    <2> QED
      BY <1>2, <2>1, <2>2
  <1> QED
    BY <1>3, <1>4 DEF WrittenFor

\* Both address columns are those of the document's slot.
LEMMA AddressesAgree ==
    ASSUME RebuildTypes, Registered, WrittenFor, NEW c \in chunks
    PROVE  /\ c \in ChunkRows /\ Spent(c.doc)
           /\ ChunkAddress(c) = AddressOf[slot[c.doc]]
           /\ \A a \in EmbeddingAddresses(c) : a = AddressOf[slot[c.doc]]
  <1>1. c \in ChunkRows /\ c.doc \in Docs /\ c.by[1] \in Tasks
    BY DEF RebuildTypes, PipelineTypes, StoreType, ChunkRows
  <1>2. \A t \in Tasks : docOf[t] = c.doc => Spent(c.doc) /\ slot[c.doc] = req[t].slot
    BY <1>1 DEF Registered
  <1> QED
    BY <1>1, <1>2 DEF WrittenFor, ChunkAddress, EmbeddingAddresses

-----------------------------------------------------------------------------
(* The answers. *)

Asks == [at : {"idle", "searching", "found", "polling", "counting", "incomplete", "indexed"},
         addr : Scopes, model : Models \cup {NoModel}, before : SUBSET ChunkRows,
         accepted : SUBSET Tasks, settled : BOOLEAN, found : SUBSET ChunkRows]

\* What is true of the chunks of an answer and will not change.
Sound(a) ==
    /\ a.at = "searching" => a.model \in Models
    /\ \A c \in a.found : Spent(c.doc) /\ AddressOf[slot[c.doc]] = a.addr
    /\ \A c, k \in a.found : c.doc = k.doc => c.ver = k.ver /\ c.by = k.by

ReadInv ==
    /\ RebuildInv
    /\ NothingOrphaned
    /\ Registered
    /\ WrittenFor
    /\ ask \in [Readers -> Asks]
    /\ \A r \in Readers : Sound(ask[r])

LEMMA ReadInvInit == ReadInit => ReadInv
  <1> SUFFICES ASSUME ReadInit PROVE ReadInv
    OBVIOUS
  <1>1. RebuildInv /\ Registered
    BY RebuildInvInit, RegisteredInit DEF ReadInit
  <1>2. NothingOrphaned /\ WrittenFor
    BY DEF ReadInit, RebuildInit, PipelineInit, StoreInit, NothingOrphaned, WrittenFor
  <1>3. NoAsk \in Asks /\ Sound(NoAsk)
    BY DEF NoAsk, Asks, Sound, Scopes
  <1> QED
    BY <1>1, <1>2, <1>3 DEF ReadInv, ReadInit

\* What either half may find for address a: live chunks of documents of a.
Servable(a) == {c \in chunks : AddressOf[slot[c.doc]] = a /\ c.ver = live[c.doc]}

LEMMA HalvesFind ==
    ASSUME ReadInv, NEW a
    PROVE  LiveAt(a) \subseteq Servable(a) /\ \A m \in Models : Indexed(a, m) \subseteq Servable(a)
  <1>1. RebuildTypes /\ \A m \in Models : embedded[m] \subseteq chunks
    BY DEF ReadInv, RebuildInv, RebuildTypes, PipelineTypes, StoreType
  <1>2. \A c \in LiveAt(a) : c \in Servable(a)
    BY <1>1, AddressesAgree DEF LiveAt, LiveChunks, VersionChunks, ReadInv, Servable
  <1>3. ASSUME NEW m \in Models, NEW c \in Indexed(a, m) PROVE c \in Servable(a)
    BY <1>1, <1>3, AddressesAgree DEF Indexed, LiveChunks, VersionChunks, ReadInv, Servable
  <1> QED
    BY <1>2, <1>3

\* They are a sound answer.
LEMMA LiveIsSound ==
    ASSUME ReadInv, NEW a
    PROVE  /\ Servable(a) \subseteq ChunkRows
           /\ \A c \in Servable(a) : Spent(c.doc) /\ AddressOf[slot[c.doc]] = a
           /\ \A c, k \in Servable(a) : c.doc = k.doc => c.ver = k.ver /\ c.by = k.by
  <1>1. RebuildTypes /\ NoBlend
    BY DEF ReadInv, RebuildInv, VersionInv
  <1>2. \A c \in Servable(a) : c \in ChunkRows /\ Spent(c.doc)
    BY <1>1, AddressesAgree DEF Servable, ReadInv
  <1>3. \A c, k \in Servable(a) : c.doc = k.doc => c.ver = k.ver /\ c.by = k.by
    BY <1>1 DEF Servable, NoBlend
  <1> QED
    BY <1>2, <1>3 DEF Servable

LEMMA ReaderAnswers ==
    ASSUME ReadInv, NEW r \in Readers, ReaderStep(r)
    PROVE  /\ ask' \in [Readers -> Asks]
           /\ \A q \in Readers : ask'[q] = ask[q] \/ Sound(ask'[q])
  <1>1. ask \in [Readers -> Asks] /\ ask[r] \in Asks /\ Sound(ask[r])
    BY DEF ReadInv
  <1>2. ASSUME NEW a \in Asks, Sound(a), ask' = [ask EXCEPT ![r] = a]
        PROVE  /\ ask' \in [Readers -> Asks]
               /\ \A q \in Readers : ask'[q] = ask[q] \/ Sound(ask'[q])
    BY <1>1, <1>2
  <1>3. active \in Models
    BY DEF ReadInv, RebuildInv, RebuildTypes, PipelineTypes, StoreType
  <1>4. NoAsk \in Asks
    BY DEF NoAsk, Asks, Scopes
  <1>5. ASSUME NEW addr \in Addresses, QueryReadsModel(r, addr)
        PROVE  \E a \in Asks : Sound(a) /\ ask' = [ask EXCEPT ![r] = a]
    <2> DEFINE a == [NoAsk EXCEPT !.at = "searching", !.addr = addr, !.model = active,
                                  !.before = Indexed(addr, active)]
    <2>1. a \in Asks
      BY <1>3, <1>4, HalvesFind, LiveIsSound DEF Asks, Scopes
    <2>2. Sound(a)
      BY <1>3 DEF NoAsk, Sound
    <2> QED
      BY <1>5, <2>1, <2>2 DEF QueryReadsModel
  <1>6. ASSUME NEW addr \in Addresses, StatusReadsModel(r, addr)
        PROVE  \E a \in Asks : Sound(a) /\ ask' = [ask EXCEPT ![r] = a]
    <2> DEFINE a == [NoAsk EXCEPT !.at = "polling", !.addr = addr, !.model = active,
                                  !.accepted = Uploaded]
    <2>1. a \in Asks
      BY <1>3, <1>4 DEF Asks, Scopes, Uploaded
    <2>2. Sound(a)
      BY DEF NoAsk, Sound
    <2> QED
      BY <1>6, <2>1, <2>2 DEF StatusReadsModel
  <1>7. CASE QuerySearches(r)
    <2> DEFINE addr == ask[r].addr
    <2>1. PICK vectors \in Ranked(addr, ask[r].model), words \in SUBSET Matches(addr) :
             \E found \in Best(vectors \cup words) :
                ask' = [ask EXCEPT ![r] = [NoAsk EXCEPT !.at = "found", !.found = found,
                                                        !.addr = addr]]
      BY <1>7 DEF QuerySearches
    <2>2. PICK found \in Best(vectors \cup words) :
             ask' = [ask EXCEPT ![r] = [NoAsk EXCEPT !.at = "found", !.found = found,
                                                     !.addr = addr]]
      BY <2>1
    <2>3. found \subseteq Servable(addr)
      <3>1. ask[r].model \in Models
        BY <1>1, <1>7 DEF QuerySearches, Sound
      <3>2. vectors \subseteq Servable(addr) /\ words \subseteq Servable(addr)
        BY <2>1, <3>1, HalvesFind DEF Ranked, Matches
      <3> QED
        BY <2>2, <3>2 DEF Best
    <2>4. addr \in Scopes
      BY <1>1 DEF Asks
    <2> HIDE DEF addr
    <2> DEFINE a == [NoAsk EXCEPT !.at = "found", !.found = found, !.addr = addr]
    <2>5. a \in Asks
      BY <1>4, <2>3, <2>4, LiveIsSound DEF Asks
    <2>6. a.found = found /\ a.addr = addr /\ a.at = "found"
      BY DEF NoAsk
    <2>7. Sound(a)
      BY <2>3, <2>6, LiveIsSound DEF Sound
    <2> QED
      BY <1>2, <2>2, <2>5, <2>7
  <1>8. CASE QueryFails(r)
    BY <1>2, <1>4, <1>8 DEF QueryFails, NoAsk, Sound
  <1>9. CASE StatusReadsJobs(r)
    <2>1. PICK settled \in BOOLEAN :
             ask' = [ask EXCEPT ![r].at = "counting", ![r].settled = settled]
      BY <1>9 DEF StatusReadsJobs
    <2> DEFINE a == [ask[r] EXCEPT !.at = "counting", !.settled = settled]
    <2>2. a \in Asks /\ a.found = ask[r].found /\ a.addr = ask[r].addr /\ a.at = "counting"
      BY <1>1 DEF Asks
    <2>3. ask' = [ask EXCEPT ![r] = a]
      BY <1>1, <2>1
    <2>4. Sound(a)
      BY <1>1, <2>2 DEF Sound
    <2> QED
      BY <1>2, <2>2, <2>3, <2>4
  <1>10. CASE StatusCounts(r)
    <2>1. PICK at \in {"indexed", "incomplete"} :
             ask' = [ask EXCEPT ![r] = [NoAsk EXCEPT !.at = at]]
      BY <1>10 DEF StatusCounts
    <2>2. [NoAsk EXCEPT !.at = at] \in Asks
      BY <1>4 DEF Asks
    <2>3. Sound([NoAsk EXCEPT !.at = at])
      BY DEF NoAsk, Sound
    <2> QED
      BY <1>2, <2>1, <2>2, <2>3
  <1> QED
    BY <1>2, <1>5, <1>6, <1>7, <1>8, <1>9, <1>10 DEF ReaderStep

LEMMA ReadInvStep == ReadInv /\ [ReadNext]_readVars => ReadInv'
  <1> SUFFICES ASSUME ReadInv, [ReadNext]_readVars PROVE ReadInv'
    OBVIOUS
  <1>1. RequestType(RebuildPhases) /\ StoreType
    BY DEF ReadInv, RebuildInv, RebuildTypes, PipelineTypes
  <1>2. ASSUME [RebuildNext]_rebuildVars
        PROVE  RebuildInv' /\ NothingOrphaned' /\ Registered' /\ WrittenFor' /\ RequestsMove
    <2>1. RebuildInv' /\ RequestsMove
      BY <1>1, <1>2, RequestsStep, RebuildInvStep DEF ReadInv
    <2>2. NothingOrphaned'
      BY <1>2, OrphanStep, ModelChangeStoreStep, RebuildStepCases DEF ReadInv, NothingOrphaned
    <2>3. Registered' /\ WrittenFor'
      BY <1>2, <2>1, RegisteredStep, WrittenForStep DEF ReadInv, RebuildInv
    <2> QED
      BY <2>1, <2>2, <2>3
  <1>3. CASE UNCHANGED ask /\ [RebuildNext]_rebuildVars
    <2>1. ASSUME NEW r \in Readers PROVE Sound(ask[r])'
      <3>1. ask[r] \in Asks /\ Sound(ask[r]) /\ ask'[r] = ask[r]
        BY <1>3 DEF ReadInv
      <3>2. \A c \in ask[r].found : c.doc \in Tasks
        BY <3>1, PipelineAssumption DEF Asks, ChunkRows
      <3> QED
        BY <1>2, <1>3, <3>1, <3>2 DEF Sound, RequestsMove
    <2> QED
      BY <1>2, <1>3, <2>1 DEF ReadInv
  <1>4. ASSUME NEW r \in Readers, ReaderStep(r) PROVE ReadInv'
    <2>1. UNCHANGED rebuildVars
      BY <1>4 DEF ReaderStep, QueryReadsModel, StatusReadsModel, QuerySearches, QueryFails,
                  StatusReadsJobs, StatusCounts
    <2>2. RebuildInv' /\ NothingOrphaned' /\ Registered' /\ WrittenFor'
      BY <1>2, <2>1
    <2>3. UNCHANGED <<req, slot>>
      BY <2>1 DEF rebuildVars, pipelineVars, requestVars, storeVars
    <2>4. ASSUME NEW q \in Readers PROVE Sound(ask[q])'
      <3>1. Sound(ask'[q])
        BY <1>4, ReaderAnswers DEF ReadInv
      <3> QED
        BY <2>3, <3>1 DEF Sound, Spent
    <2> QED
      BY <1>4, <2>2, <2>4, ReaderAnswers DEF ReadInv
  <1> QED
    BY <1>3, <1>4 DEF ReadNext, readVars

\* No chunk of another address is ever in an answer, not even after the
\* document was removed and its slot uploaded again while the caller reads.
THEOREM AnswersStayIsolated == ReadSpec => []AnswerIsolated
  <1>1. ReadInv => AnswerIsolated
    BY DEF ReadInv, Sound, AnswerIsolated
  <1> QED
    BY <1>1, ReadInvInit, ReadInvStep, PTL DEF ReadSpec

\* The chunks of a document in an answer are the work of one run, whatever
\* uploads, runs and model changes overlap with the query.
THEOREM AnswersNeverBlend == ReadSpec => []AnswerFromOneRun
  <1>1. ReadInv => AnswerFromOneRun
    BY DEF ReadInv, Sound, AnswerFromOneRun
  <1> QED
    BY <1>1, ReadInvInit, ReadInvStep, PTL DEF ReadSpec

-----------------------------------------------------------------------------
(* Readers change nothing: all that holds of RebuildSpec holds beside them. *)

LEMMA ReadStepCases ==
    ASSUME [ReadNext]_readVars
    PROVE  \/ [RebuildNext]_rebuildVars /\ UNCHANGED ask
           \/ UNCHANGED rebuildVars /\ \E r \in Readers : ReaderStep(r)
  BY DEF ReadNext, ReaderStep, QueryReadsModel, StatusReadsModel, QuerySearches, QueryFails,
         StatusReadsJobs, StatusCounts, readVars

\* A system with readers is a system: everything proved of RebuildSpec is true
\* while queries and status requests are answered.
THEOREM ReadImplementsRebuild == ReadSpec => RebuildSpec
  <1>1. ReadInit => RebuildInit
    BY DEF ReadInit
  <1>2. [ReadNext]_readVars => [RebuildNext]_rebuildVars
    BY ReadStepCases
  <1> QED
    BY <1>1, <1>2, PTL DEF ReadSpec, RebuildSpec

\* A request of reader r is the only one that a step of r moves.
LEMMA OthersWait ==
    ASSUME ReadInv, NEW r \in Readers, ReaderStep(r), NEW q \in Readers, q # r
    PROVE  ask'[q] = ask[q]
  BY DEF ReadInv, ReaderStep, QueryReadsModel, StatusReadsModel, QuerySearches, QueryFails,
         StatusReadsJobs, StatusCounts

-----------------------------------------------------------------------------
(* A query across a model change. *)

\* No run will leave chunk c again: its claim has been, and the run that it
\* began has inserted its rows.
Past(c) ==
    /\ c.by[2] <= attempts[c.by[1]]
    /\ \A w \in Workers, t \in Tasks : pc[w][t] # "idle" /\ body[w][t].at \in Early =>
           c.by # <<t, snap[w][t]>>

\* Chunk c can be found with model m as long as it is there.
StillThere(c, m) == Past(c) /\ (c \in chunks => c \in embedded[m])

\* A run does not go back.
LEMMA EarlyBefore ==
    ASSUME RebuildTypes, [RebuildNext]_rebuildVars, NEW w \in Workers, NEW t \in Tasks,
           pc'[w][t] # "idle", body'[w][t].at \in Early
    PROVE  body[w][t].at \in Early
  <1>1. ASSUME SameRun(w, t) PROVE body[w][t].at \in Early
    BY <1>1 DEF SameRun
  <1>2. ~Gone(w, t)
    BY DEF Gone
  <1>3. ASSUME NEW v \in Workers, NEW u \in Tasks, RunFrame(v, u), RunEffect(v, u)
        PROVE  body[w][t].at \in Early
    <2>1. CASE v # w \/ u # t
      BY <1>1, <1>3, <2>1 DEF RunFrame
    <2>2. CASE v = w /\ u = t
      <3>1. ~Ends(w, t)
        BY <1>2 DEF Ends
      <3> QED
        BY <1>3, <2>2, <3>1
        DEF RunEffect, Proceeds, Loads, Marks, Writes, Lists, Embeds, Flips, Collects, Switches,
            Inside, Early
    <2> QED
      BY <2>1, <2>2
  <1>4. ASSUME NEW u \in Tasks, AskFrame(u) PROVE body[w][t].at \in Early
    BY <1>4 DEF AskFrame
  <1>5. ASSUME NEW d \in Docs, Removes(d) \/ Drops(d) PROVE body[w][t].at \in Early
    BY <1>1, <1>5 DEF Removes, Drops, SameRuns
  <1>6. CASE Ticks
    <2>1. body'[w][t] = body[w][t]
      BY <1>2, <1>6 DEF Ticks, SameRun
    <2> QED
      BY <2>1
  <1> QED
    BY <1>3, <1>4, <1>5, <1>6, StepFrames

LEMMA PastStep ==
    ASSUME RebuildInv, [RebuildNext]_rebuildVars, NEW c \in ChunkRows, Past(c)
    PROVE  Past(c)' /\ (c \in chunks' => c \in chunks)
  <1>a. RebuildTypes /\ TypeOK
    BY DEF RebuildInv, RebuildTypes, PipelineTypes
  <1>b. c.by \in Tasks \X Nat /\ c.by[1] \in Tasks /\ c.by[2] \in Nat
    BY DEF ChunkRows
  <1>1. [QueueNext]_queueVars
    BY RebuildStepCases, PipelineQueueStep, ModelChangeQueueStep
  <1>2. c.by[2] <= attempts'[c.by[1]]
    <2>1. attempts[c.by[1]] <= attempts'[c.by[1]]
      BY <1>a, <1>b, <1>1, RunsMove
    <2>2. attempts[c.by[1]] \in Nat /\ attempts'[c.by[1]] \in Nat
      <3>1. RebuildInv'
        BY RebuildInvStep
      <3> QED
        BY <1>a, <1>b, <3>1 DEF RebuildInv, RebuildTypes, PipelineTypes, TypeOK
    <2> QED
      BY <1>b, <2>1, <2>2 DEF Past
  <1>3. ASSUME NEW w \in Workers, NEW t \in Tasks, pc'[w][t] # "idle", body'[w][t].at \in Early
        PROVE  c.by # <<t, snap'[w][t]>>
    <2>1. CASE pc[w][t] # "idle" /\ snap'[w][t] = snap[w][t]
      <3>1. body[w][t].at \in Early
        BY <1>3, <1>a, <2>1, EarlyBefore
      <3> QED
        BY <2>1, <3>1 DEF Past
    <2>2. CASE attempts[t] < snap'[w][t]
      <3>1. c.by = <<t, snap'[w][t]>> => c.by[2] <= attempts[t]
        BY DEF Past
      <3>2. attempts[t] \in Nat
        BY <1>a DEF TypeOK
      <3> QED
        BY <1>b, <2>2, <3>1, <3>2
    <2> QED
      BY <1>3, <1>a, <1>1, <2>1, <2>2, RunsMove
  <1>4. c \in chunks' => c \in chunks
    <2>1. ASSUME c \in chunks', c \notin chunks PROVE FALSE
      <3>1. PICK w \in Workers, t \in Tasks :
               /\ pc[w][t] # "idle" /\ body[w][t].at = "deleting"
               /\ c.doc = docOf[t] /\ c.by = <<t, snap[w][t]>>
        BY <1>a, <2>1, NewRowsOnly
      <3> QED
        BY <3>1 DEF Past, Early
    <2> QED
      BY <2>1
  <1> QED
    BY <1>2, <1>3, <1>4 DEF Past

LEMMA KeepsServing ==
    ASSUME RebuildInv, [RebuildNext]_rebuildVars, NEW c \in ChunkRows, NEW m \in Models,
           StillThere(c, m)
    PROVE  StillThere(c, m)'
  <1>a. RebuildTypes
    BY DEF RebuildInv
  <1>1. Past(c)' /\ (c \in chunks' => c \in chunks)
    BY PastStep DEF StillThere
  <1>b. SUFFICES ASSUME c \in chunks' PROVE c \in embedded'[m]
    BY <1>1 DEF StillThere
  <1>c. c \in chunks /\ c \in embedded[m]
    BY <1>1, <1>b DEF StillThere
  <1>2. ASSUME NEW t \in Tasks, AskFrame(t) PROVE c \in embedded'[m]
    BY <1>2, <1>c DEF AskFrame
  <1>3. ASSUME NEW d \in Docs, Removes(d) PROVE c \in embedded'[m]
    BY <1>3, <1>b, <1>c DEF Removes
  <1>4. ASSUME Ticks \/ \E d \in Docs : Drops(d) PROVE c \in embedded'[m]
    BY <1>4, <1>c DEF Ticks, Drops, storeVars
  <1>5. ASSUME NEW w \in Workers, NEW t \in Tasks, RunFrame(w, t), RunEffect(w, t)
        PROVE  c \in embedded'[m]
    <2>1. CASE Writes(w, t)
      <3>1. c \notin NewRows(w, t)
        <4>1. c \in NewRows(w, t) => c.by = <<t, snap[w][t]>>
          BY DEF NewRows, NewChunks
        <4> QED
          BY <1>5, <2>1, <4>1 DEF StillThere, Past, Early, Writes, RunFrame
      <3> QED
        BY <1>b, <1>c, <2>1, <3>1 DEF Writes
    <2>2. CASE Flips(w, t)
      BY <1>b, <1>c, <2>2 DEF Flips
    <2>3. CASE Embeds(w, t)
      BY <1>c, <2>3 DEF Embeds
    <2>4. CASE UNCHANGED embedded
      BY <1>c, <2>4
    <2> QED
      BY <1>5, <2>1, <2>2, <2>3, <2>4
      DEF RunEffect, Proceeds, Loads, Marks, Lists, Collects, Switches, Ends, SameStore
  <1> QED
    BY <1>2, <1>3, <1>4, <1>5, <1>a, StepFrames

\* Request a, a query under way, can still be answered: what could be found
\* when it read the active model can be found with that model.
Answerable(a) ==
    a.at = "searching" =>
        a.model \in Models /\ \A c \in a.before : StillThere(c, a.model)

QueryInv == \A r \in Readers : Answerable(ask[r])

LEMMA AnswerableStep ==
    ASSUME RebuildInv, [RebuildNext]_rebuildVars, NEW a \in Asks, Answerable(a)
    PROVE  Answerable(a)'
  <1> SUFFICES ASSUME a.at = "searching", NEW c \in a.before PROVE StillThere(c, a.model)'
    BY DEF Answerable
  <1>1. a.model \in Models /\ StillThere(c, a.model)
    BY DEF Answerable
  <1>2. c \in ChunkRows
    BY DEF Asks
  <1>3. PICK m \in Models : m = a.model
    BY <1>1
  <1>4. StillThere(c, m)'
    BY <1>1, <1>2, <1>3, KeepsServing
  <1> QED
    BY <1>3, <1>4 DEF StillThere

\* What can be found with the active model is there and of the past.
LEMMA IndexedAnswerable ==
    ASSUME RebuildInv, NEW addr, NEW c \in Indexed(addr, active)
    PROVE  StillThere(c, active)
  <1>1. StoreType /\ TracesCounted /\ FreshRuns
    BY DEF RebuildInv, RebuildTypes, PipelineTypes, VersionInv
  <1>2. c \in embedded[active] /\ c \in chunks /\ c \in ChunkRows
    BY <1>1 DEF Indexed, StoreType
  <1>3. Traced(c)
    BY <1>2 DEF Traced
  <1> QED
    BY <1>1, <1>2, <1>3 DEF TracesCounted, FreshRuns, StillThere, Past

\* Only a query that reads the active model begins to search.
LEMMA ReaderMoves ==
    ASSUME ask \in [Readers -> Asks], NEW r \in Readers
    PROVE  /\ \A a \in Addresses : StatusReadsModel(r, a) => ask'[r].at = "polling"
           /\ QuerySearches(r) => ask'[r].at = "found"
           /\ QueryFails(r) => ask'[r].at = "idle"
           /\ StatusReadsJobs(r) => ask'[r].at = "counting"
           /\ StatusCounts(r) => ask'[r].at \in {"indexed", "incomplete"}
  <1>1. \A a \in Addresses : StatusReadsModel(r, a) => ask'[r].at = "polling"
    BY DEF StatusReadsModel, NoAsk
  <1>2. ASSUME QuerySearches(r) PROVE ask'[r].at = "found"
    <2>1. PICK found, addr : ask' = [ask EXCEPT ![r] = [NoAsk EXCEPT !.at = "found",
                                                                     !.found = found,
                                                                     !.addr = addr]]
      BY <1>2 DEF QuerySearches
    <2> QED
      BY <2>1 DEF NoAsk
  <1>3. QueryFails(r) => ask'[r].at = "idle"
    BY DEF QueryFails, NoAsk
  <1>4. StatusReadsJobs(r) => ask'[r].at = "counting"
    BY DEF StatusReadsJobs, Asks
  <1>5. ASSUME StatusCounts(r) PROVE ask'[r].at \in {"indexed", "incomplete"}
    <2>1. PICK at \in {"indexed", "incomplete"} : ask' = [ask EXCEPT ![r] = [NoAsk EXCEPT !.at = at]]
      BY <1>5 DEF StatusCounts
    <2> QED
      BY <2>1 DEF NoAsk
  <1> QED
    BY <1>1, <1>2, <1>3, <1>4, <1>5

LEMMA QueryInvStep ==
    ASSUME ReadInv, QueryInv, [ReadNext]_readVars
    PROVE  QueryInv'
  <1>a. ask \in [Readers -> Asks] /\ active \in Models
    BY DEF ReadInv, RebuildInv, RebuildTypes, PipelineTypes, StoreType
  <1>1. CASE [RebuildNext]_rebuildVars /\ UNCHANGED ask
    <2> SUFFICES ASSUME NEW r \in Readers PROVE Answerable(ask[r])'
      BY DEF QueryInv
    <2>1. PICK a \in Asks : a = ask[r]
      BY <1>a
    <2>2. Answerable(a)'
      BY <1>1, <2>1, AnswerableStep DEF QueryInv, ReadInv
    <2> QED
      BY <1>1, <2>1, <2>2 DEF Answerable
  <1>2. ASSUME UNCHANGED rebuildVars, NEW r \in Readers, ReaderStep(r)
        PROVE  QueryInv'
    <2>1. UNCHANGED <<chunks, embedded, pc, snap, body, attempts>>
      BY <1>2 DEF rebuildVars, pipelineVars, queueVars, rowVars, runVars, storeVars
    <2>2. ASSUME NEW q \in Readers, q # r PROVE Answerable(ask[q])'
      <3>1. ask'[q] = ask[q]
        BY <1>2, <2>2, OthersWait
      <3> QED
        BY <2>1, <3>1 DEF QueryInv, Answerable, StillThere, Past
    <2>3. Answerable(ask[r])'
      <3>1. CASE ask'[r].at # "searching"
        BY <3>1 DEF Answerable
      <3>2. ASSUME NEW addr \in Addresses, QueryReadsModel(r, addr) PROVE Answerable(ask[r])'
        <4>1. ask'[r].model = active /\ ask'[r].before = Indexed(addr, active)
          BY <1>a, <3>2 DEF QueryReadsModel, NoAsk
        <4>2. \A c \in Indexed(addr, active) : StillThere(c, active)
          BY IndexedAnswerable DEF ReadInv
        <4> QED
          BY <1>a, <2>1, <4>1, <4>2 DEF Answerable, StillThere, Past
      <3>3. ask'[r].at = "searching" => \E addr \in Addresses : QueryReadsModel(r, addr)
        BY <1>2, <1>a, ReaderMoves DEF ReaderStep
      <3> QED
        BY <3>1, <3>2, <3>3
    <2> QED
      BY <2>2, <2>3 DEF QueryInv
  <1> QED
    BY <1>1, <1>2, ReadStepCases

\* With a model that has no approximate index, a query finds whatever it could
\* find when it read the active model and is still live, whoever uploads, runs,
\* crashes, removes or changes the model in between.
THEOREM QueriesServed == ReadSpec => QueryServed
  <1> DEFINE Inv == ReadInv /\ QueryInv
  <1>1. ReadInit => Inv
    <2>1. ReadInit => QueryInv
      BY DEF ReadInit, QueryInv, Answerable, NoAsk
    <2> QED
      BY <2>1, ReadInvInit
  <1>2. Inv /\ [ReadNext]_readVars => Inv'
    BY ReadInvStep, QueryInvStep
  <1>3. Inv /\ [ReadNext]_readVars =>
           \A r \in Readers : ask[r].at = "searching" /\ ask'[r].at = "found" =>
              \/ ask[r].model \notin ExactModels
              \/ Cardinality(ask'[r].found) = TopK
              \/ ask[r].before \cap LiveAt(ask[r].addr) \subseteq ask'[r].found
    <2> SUFFICES ASSUME ReadInv, QueryInv, [ReadNext]_readVars, NEW r \in Readers,
                        ask[r].at = "searching", ask'[r].at = "found",
                        ask[r].model \in ExactModels
                 PROVE  \/ Cardinality(ask'[r].found) = TopK
                        \/ ask[r].before \cap LiveAt(ask[r].addr) \subseteq ask'[r].found
      OBVIOUS
    <2>1. ask \in [Readers -> Asks]
      BY DEF ReadInv
    <2>2. QuerySearches(r)
      <3>1. PICK q \in Readers : ReaderStep(q)
        BY ReadStepCases
      <3>2. q = r
        BY <3>1, OthersWait
      <3>3. ASSUME NEW a \in Addresses, QueryReadsModel(r, a) PROVE FALSE
        BY <2>1, <3>3 DEF QueryReadsModel, NoAsk
      <3> QED
        BY <2>1, <3>1, <3>2, <3>3, ReaderMoves DEF ReaderStep
    <2> DEFINE addr == ask[r].addr
    <2>3. PICK vectors \in Ranked(addr, ask[r].model), words \in SUBSET Matches(addr) :
             \E found \in Best(vectors \cup words) :
                ask' = [ask EXCEPT ![r] = [NoAsk EXCEPT !.at = "found", !.found = found,
                                                        !.addr = addr]]
      BY <2>2 DEF QuerySearches
    <2>4. PICK found \in Best(vectors \cup words) :
             ask' = [ask EXCEPT ![r] = [NoAsk EXCEPT !.at = "found", !.found = found,
                                                     !.addr = addr]]
      BY <2>3
    <2>5. ask'[r].found = found /\ vectors = Indexed(addr, ask[r].model)
      BY <2>1, <2>3, <2>4 DEF NoAsk, Ranked
    <2>6. ask[r].before \cap LiveAt(addr) \subseteq Indexed(addr, ask[r].model)
      <3>1. \A c \in ask[r].before : c \in chunks => c \in embedded[ask[r].model]
        BY DEF QueryInv, Answerable, StillThere
      <3>2. \A c \in LiveAt(addr) :
               c \in chunks /\ addr \in EmbeddingAddresses(c) /\ c \in LiveChunks(c.doc)
        BY DEF LiveAt, EmbeddingAddresses
      <3> QED
        BY <3>1, <3>2 DEF Indexed
    <2> QED
      BY <2>4, <2>5, <2>6 DEF Best
  <1> QED
    BY <1>1, <1>2, <1>3, PTL DEF ReadSpec, QueryServed

-----------------------------------------------------------------------------
(* The status of an address: three reads with the system going on between. *)

\* A job row that was there stays what it is, as long as its document is
\* there, and what has succeeded is never taken up again.
LEMMA RowStays ==
    ASSUME Orderly, Orderly', [RebuildNext]_rebuildVars, NEW t \in Tasks, state[t] # "absent"
    PROVE  /\ state'[t] # "absent" /\ jobType'[t] = jobType[t] /\ docOf'[t] = docOf[t]
           /\ docOf[t] \in documents' =>
                 /\ docOf[t] \in documents /\ slot'[docOf[t]] = slot[docOf[t]]
                 /\ state[t] \in {"done", "skipped"} => state'[t] = state[t]
  <1>a. RebuildTypes /\ Registered
    BY OrderlyTypes DEF Orderly
  <1>b. documents' \subseteq Docs
    <2>1. RebuildTypes'
      BY OrderlyTypes, PTL
    <2> QED
      BY <2>1 DEF RebuildTypes, PipelineTypes, StoreType
  <1>c. state'[t] # "absent"
    BY RowsPresent
  <1>1. ASSUME NEW u \in Tasks, AskFrame(u), AskStep(u)
        PROVE  /\ jobType'[t] = jobType[t] /\ docOf'[t] = docOf[t]
               /\ docOf[t] \in documents' =>
                     /\ docOf[t] \in documents /\ slot'[docOf[t]] = slot[docOf[t]]
                     /\ state[t] \in {"done", "skipped"} => state'[t] = state[t]
    <2>1. u # t
      BY <1>1, <1>a, AskIdle
    <2> QED
      BY <1>1, <1>a, <1>b, <2>1, AskElsewhere DEF AskFrame
  <1>2. ASSUME NEW d \in Docs, Removes(d) \/ Drops(d)
        PROVE  /\ jobType'[t] = jobType[t] /\ docOf'[t] = docOf[t]
               /\ docOf[t] \in documents' =>
                     /\ docOf[t] \in documents /\ slot'[docOf[t]] = slot[docOf[t]]
                     /\ state[t] \in {"done", "skipped"} => state'[t] = state[t]
    BY <1>2 DEF Removes, Drops, requestVars, columnVars, JobsOf
  <1>3. ASSUME Ticks
        PROVE  /\ jobType'[t] = jobType[t] /\ docOf'[t] = docOf[t]
               /\ docOf[t] \in documents' =>
                     /\ docOf[t] \in documents /\ slot'[docOf[t]] = slot[docOf[t]]
                     /\ state[t] \in {"done", "skipped"} => state'[t] = state[t]
    BY <1>3 DEF Ticks, storeVars, requestVars, columnVars, OpenStates, InFlight
  <1>4. ASSUME NEW w \in Workers, NEW u \in Tasks, RunFrame(w, u), RunEffect(w, u)
        PROVE  /\ jobType'[t] = jobType[t] /\ docOf'[t] = docOf[t]
               /\ docOf[t] \in documents' =>
                     /\ docOf[t] \in documents /\ slot'[docOf[t]] = slot[docOf[t]]
                     /\ state[t] \in {"done", "skipped"} => state'[t] = state[t]
    <2>1. docOf[t] \in documents /\ state[t] \in {"done", "skipped"} => u # t
      BY <1>4, RunInFlight DEF RunFrame, InFlight
    <2> QED
      BY <1>4, <2>1 DEF RunFrame, requestVars, columnVars
  <1> QED
    BY <1>1, <1>2, <1>3, <1>4, <1>a, <1>c, StepFrames

\* Where the API and its storage do not fail, every request is answered.
NoneLost == \A t \in Tasks : req[t].phase # "lost"

LEMMA NoneLostStep ==
    ASSUME ~ApiFaults, Orderly, NoneLost, [RebuildNext]_rebuildVars
    PROVE  NoneLost'
  <1>1. ASSUME NEW t \in Tasks, AskFrame(t), AskStep(t) PROVE NoneLost'
    <2>1. req'[t].phase # "lost"
      BY <1>1
      DEF AskStep, Begins, Puts, Looks, Upserts, Creates, Updates, Submits, Skips, GivesUp, Checks,
          Moves
    <2> QED
      BY <1>1, <2>1 DEF AskFrame, NoneLost
  <1>2. CASE UNCHANGED req
    BY <1>2 DEF NoneLost
  <1> QED
    BY <1>1, <1>2, OrderlyTypes, StepFrames DEF Removes, Drops, Ticks, RunFrame, requestVars

\* Job t is about a document that is there, at address a.
JobAbout(t, a) == docOf[t] \in documents /\ AddressOf[slot[docOf[t]]] = a

\* Request a, a status request under way, is about uploads that have job rows;
\* and if it found the address settled, those jobs have succeeded.
Honest(a) ==
    /\ a.at \in {"polling", "counting"} =>
          \A t \in a.accepted : jobType[t] = "ingest" /\ state[t] # "absent"
    /\ a.at = "counting" /\ a.settled =>
          \A t \in a.accepted : JobAbout(t, a.addr) => state[t] \in {"done", "skipped"}

StatusInv == \A r \in Readers : Honest(ask[r])

LEMMA HonestStep ==
    ASSUME Orderly, Orderly', [RebuildNext]_rebuildVars, NEW a \in Asks, Honest(a)
    PROVE  Honest(a)'
  <1>1. a.accepted \subseteq Tasks
    BY DEF Asks
  <1>2. \A t \in a.accepted : state[t] # "absent" =>
           /\ state'[t] # "absent" /\ jobType'[t] = jobType[t]
           /\ JobAbout(t, a.addr)' =>
                 JobAbout(t, a.addr) /\ (state[t] \in {"done", "skipped"} => state'[t] = state[t])
    BY <1>1, RowStays DEF JobAbout
  <1> QED
    BY <1>2 DEF Honest

\* What the read of the job table says when it finds address a settled.
LEMMA SettledAt ==
    ASSUME Orderly, NEW a, \A t \in JobsAt(a) : state[t] \notin Unsettled,
           NEW t \in Tasks, jobType[t] = "ingest", state[t] # "absent", JobAbout(t, a)
    PROVE  state[t] \in {"done", "skipped"}
  <1>1. Registered /\ state[t] \in States /\ documents \subseteq Docs
    BY OrderlyTypes DEF Orderly, RebuildTypes, PipelineTypes, TypeOK, StoreType
  <1>2. state[t] \in Present
    BY <1>1 DEF Registered, JobAbout, States
  <1>3. slot[docOf[t]] = req[t].slot
    BY <1>1 DEF Registered, JobAbout
  <1>4. t \in JobsAt(a)
    BY <1>2, <1>3 DEF JobsAt, JobAbout
  <1> QED
    BY <1>2, <1>4 DEF Present, Final, Unsettled

LEMMA StatusInvStep ==
    ASSUME ReadInv, Orderly, Orderly', StatusInv, [ReadNext]_readVars
    PROVE  StatusInv'
  <1>a. ask \in [Readers -> Asks]
    BY DEF ReadInv
  <1>1. CASE [RebuildNext]_rebuildVars /\ UNCHANGED ask
    <2> SUFFICES ASSUME NEW r \in Readers PROVE Honest(ask[r])'
      BY DEF StatusInv
    <2>1. PICK a \in Asks : a = ask[r]
      BY <1>a
    <2>2. Honest(a)'
      BY <1>1, <2>1, HonestStep DEF StatusInv
    <2> QED
      BY <1>1, <2>1, <2>2 DEF Honest, JobAbout
  <1>2. ASSUME UNCHANGED rebuildVars, NEW r \in Readers, ReaderStep(r)
        PROVE  StatusInv'
    <2>1. UNCHANGED <<documents, slot, docOf, state, jobType>>
      BY <1>2 DEF rebuildVars, pipelineVars, requestVars, columnVars, storeVars, queueVars
    <2>2. ASSUME NEW q \in Readers, q # r PROVE Honest(ask[q])'
      <3>1. ask'[q] = ask[q]
        BY <1>2, <2>2, OthersWait
      <3> QED
        BY <2>1, <3>1 DEF StatusInv, Honest, JobAbout
    <2>3. Honest(ask[r])'
      <3>1. ASSUME NEW addr \in Addresses, StatusReadsModel(r, addr) PROVE Honest(ask[r])'
        <4>1. ask'[r].at = "polling" /\ ask'[r].accepted = Uploaded
          BY <1>a, <3>1 DEF StatusReadsModel, NoAsk
        <4> QED
          BY <2>1, <4>1 DEF Uploaded, Present, InFlight, Final, Honest
      <3>2. CASE StatusReadsJobs(r)
        <4>1. /\ ask'[r].at = "counting" /\ ask'[r].accepted = ask[r].accepted
              /\ ask'[r].addr = ask[r].addr /\ ask[r].at = "polling"
              /\ ask'[r].settled => \A t \in JobsAt(ask[r].addr) : state[t] \notin Unsettled
          BY <1>a, <3>2 DEF StatusReadsJobs, Asks
        <4>2. \A t \in ask[r].accepted : t \in Tasks /\ jobType[t] = "ingest" /\ state[t] # "absent"
          BY <1>a, <4>1 DEF StatusInv, Honest, Asks
        <4>3. ask'[r].settled =>
                 \A t \in ask[r].accepted :
                    JobAbout(t, ask[r].addr) => state[t] \in {"done", "skipped"}
          BY <4>1, <4>2, SettledAt
        <4> QED
          BY <2>1, <4>1, <4>2, <4>3 DEF Honest, JobAbout
      <3>3. CASE ask'[r].at \notin {"polling", "counting"}
        BY <3>3 DEF Honest
      <3>4. ASSUME NEW addr \in Addresses, QueryReadsModel(r, addr) PROVE ask'[r].at = "searching"
        BY <1>a, <3>4 DEF QueryReadsModel, NoAsk
      <3> QED
        BY <1>2, <1>a, <3>1, <3>2, <3>3, <3>4, ReaderMoves DEF ReaderStep
    <2> QED
      BY <2>2, <2>3 DEF StatusInv
  <1> QED
    BY <1>1, <1>2, ReadStepCases

\* The last read: what the three of them together say of document d.
LEMMA CountedIsServed ==
    ASSUME ReadInv, LatestInv, NoneLost, StatusInv, NEW r \in Readers,
           ask[r].at = "counting", ask[r].settled, MissingAt(ask[r].addr, ask[r].model) = {},
           NEW d \in documents, AddressOf[slot[d]] = ask[r].addr,
           \A t \in Tasks : docOf[t] = d => t \in ask[r].accepted \/ At(t, "lost")
    PROVE  live[d] > 0 /\ ServesWhole(d, ask[r].model)
  <1>a. Orderly /\ Serial /\ Registered /\ OneDocumentPerSlot /\ documents \subseteq Docs
    BY DEF LatestInv, BytesInv, TurnInv, Orderly, SlotsByDocument
  <1>1. \A t \in Tasks : docOf[t] = d => t \in ask[r].accepted
    BY DEF NoneLost, At
  <1>2. \A t \in Tasks : docOf[t] = d => state[t] \in {"done", "skipped"}
    BY <1>1 DEF StatusInv, Honest, JobAbout
  <1>3. ASSUME NEW t \in Tasks, req[t].slot = slot[d], req[t].phase = "enqueueing" PROVE FALSE
    <2>1. docOf[t] \in documents /\ slot[docOf[t]] = slot[d]
      BY <1>3, <1>a DEF Serial, FoundStays, Registered
    <2>2. docOf[t] = d
      BY <1>a, <2>1 DEF OneDocumentPerSlot
    <2> QED
      BY <1>2, <1>3, <1>a, <2>2 DEF Registered
  <1>4. Settled(d)
    BY <1>2, <1>3 DEF Settled, NoneLost, JobsOf
  <1>5. ServesLatest(d)
    BY <1>4 DEF LatestInv, SettledServes
  <1>6. LiveChunks(d) \subseteq LiveAt(ask[r].addr)
    <2>1. RebuildTypes
      BY DEF ReadInv, RebuildInv
    <2>2. \A c \in LiveChunks(d) : c \in chunks /\ c.doc = d
      BY DEF LiveChunks, VersionChunks
    <2> QED
      BY <2>1, <2>2, AddressesAgree DEF ReadInv, LiveAt
  <1>7. LiveChunks(d) \subseteq embedded[ask[r].model]
    BY <1>6 DEF MissingAt
  <1> QED
    BY <1>5, <1>7 DEF ServesLatest, ServesWhole

\* Where callers take turns and the API does not fail, fully_indexed can be
\* relied on: the documents whose uploads were accepted before are served
\* whole with the model the answer names, whatever workers crashed, whatever
\* was retried, removed or changed before and between the reads.
THEOREM IndexedIsServed ==
    ASSUME Overlap = "none", Apart, LeasesSuffice, ~ApiFaults
    PROVE  ReadSpec => IndexedMeansServed
  <1> DEFINE Inv == ReadInv /\ LatestInv /\ NoneLost /\ StatusInv
  <1>1. ReadInit => Inv
    <2>1. ReadInit => NoneLost /\ StatusInv
      BY DEF ReadInit, RebuildInit, PipelineInit, NoRequest, NoneLost, StatusInv, Honest, NoAsk
    <2> QED
      BY <2>1, ReadInvInit, LatestInit DEF ReadInit
  <1>2. Inv /\ [ReadNext]_readVars => Inv'
    <2> SUFFICES ASSUME Inv, [ReadNext]_readVars PROVE Inv'
      OBVIOUS
    <2>1. [RebuildNext]_rebuildVars
      BY ReadStepCases
    <2>2. Orderly /\ Orderly'
      BY <2>1, OrderlyStep DEF LatestInv, BytesInv, TurnInv
    <2> QED
      BY <2>1, <2>2, ReadInvStep, LatestStep, NoneLostStep, StatusInvStep
  <1>3. Inv /\ [ReadNext]_readVars =>
           \A r \in Readers : ask[r].at = "counting" /\ ask'[r].at = "indexed" =>
              \A d \in documents :
                 /\ AddressOf[slot[d]] = ask[r].addr
                 /\ \E t \in ask[r].accepted : docOf[t] = d
                 /\ \A t \in Tasks : docOf[t] = d => t \in ask[r].accepted \/ At(t, "lost")
                 => live[d] > 0 /\ ServesWhole(d, ask[r].model)
    <2> SUFFICES ASSUME Inv, [ReadNext]_readVars, NEW r \in Readers,
                        ask[r].at = "counting", ask'[r].at = "indexed"
                 PROVE  ask[r].settled /\ MissingAt(ask[r].addr, ask[r].model) = {}
      BY CountedIsServed
    <2>1. ask \in [Readers -> Asks]
      BY DEF ReadInv
    <2>2. StatusCounts(r)
      <3>1. PICK q \in Readers : ReaderStep(q)
        BY ReadStepCases
      <3>2. q = r
        BY <3>1, OthersWait
      <3>3. ASSUME NEW a \in Addresses, QueryReadsModel(r, a) PROVE FALSE
        BY <2>1, <3>3 DEF QueryReadsModel, NoAsk
      <3> QED
        BY <2>1, <3>1, <3>2, <3>3, ReaderMoves DEF ReaderStep
    <2>3. ask'[r].at = IF ask[r].settled /\ MissingAt(ask[r].addr, ask[r].model) = {}
                       THEN "indexed" ELSE "incomplete"
      BY <2>1, <2>2 DEF StatusCounts, NoAsk
    <2> QED
      BY <2>3
  <1> QED
    BY <1>1, <1>2, <1>3, PTL DEF ReadSpec, IndexedMeansServed
=============================================================================
