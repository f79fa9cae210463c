# LandIQ RAG in TLA+

Specifications of LandIQ RAG (`src/`): an upload becomes a row in a job table, a
worker turns the job into chunks and embeddings, a pointer flip makes them
searchable, and queries and status requests read the result. The modules model
what the code does statement by statement, TLC checks small instances, and TLAPS
proves the properties that matter most for every value of the constants.

Paths below are relative to `src/src/landiq_rag/` unless they start with `src/`.

## 1. The system

| component | state | operations | talks to | hard part |
|---|---|---|---|---|
| job table (`store/tasks.py`, `src/migrations/0001_init.sql`) | `ingest_job` rows: state, attempts, lease, counters | enqueue, record_skipped, claim, claim_by_id, set_state, set_progress, mark_done, mark_failed | every other part | several workers, leases, crashes, stale writers |
| worker loop and runner (`ingest/worker.py`, `ingest/runner.py`) | claimed batch, run in progress | claim a batch, run it with `gather`, retry or fail | job table, job body | one slow run holds the batch, lost failure reports, cancellation |
| ingest job body (`ingest/pipeline.py: run_ingest_job`) | locals of a run | read document, extract, chunk, embed, flip | document tables, storage, provider | runs of one document interleave; a retry finds half of an earlier run |
| rebuild body (`ingest/pipeline.py: run_rebuild_job`) | locals of a run, active model | backfill, sweep, flip of the model | document tables, config | documents ingested meanwhile |
| document tables (`store/documents.py`, `store/embeddings.py`) | document, chunk, one embedding table per model | upsert, replace version, flip, cascade | job body, search | versions, unique keys, cascades |
| raw storage (`store/files.py`) | bytes by key | put, get, delete | upload handler, job body | not transactional with the database; keys that collide; a local put is not atomic |
| upload and delete endpoints (`api/routes_ingest.py`) | a request in progress | hash, compare, put, upsert, enqueue; delete row, then bytes | tables, storage, queue | requests of one slot interleave, requests die half way |
| status endpoints (`api/routes_ingest.py`) | none | read a job, roll up an address | tables | what "fully indexed" means |
| admin endpoints (`api/routes_admin.py`) | active model pointer | check no rebuild is running, enqueue one | job table, config | check-then-act |
| SQS delivery (`store/queue_sqs.py`, `aws/`) | messages in flight, DLQ | send, deliver, reconcile | job table, runner | at-least-once, lost sends, redelivery limits |
| chunking (`ingest/chunk.py`) | none | sliding token window with provenance | | boundaries |
| extraction (`ingest/extract.py`) | none | pdfplumber, OCR, model API cascade | libraries | which result wins |
| hybrid search (`store/embeddings.py`, `retrieval/search.py`) | query log | rank, fuse, filter | tables, provider | address filter, live filter, missing embeddings |
| startup (`main.py`, `config.py`, `store/db.py`) | schema, runtime config | migrate, seed, start worker | database | two processes starting at once |

What makes the components correct:

* job table: a job is run by one worker at a time; an outcome is final; retries
  are bounded; a job left behind by a dead worker is taken up again;
* documents: a removal leaves nothing; a version's chunks come from one extraction;
* storage: a job finds the bytes its document names, and a document holds what was
  uploaded under its key;
* reader: it finds the old content or the new one, whole, never half of it;
* the answers: one address, one version per document, nothing lost to a model
  change; `fully_indexed` only when what was uploaded is served;
* chunking: windows cover every token, and offsets and citations point at the text;
* extraction: all text of a page, once, and no fallback that finds nothing loses any;
* ranking: fusing two cut-off rankings turns no preference around;
* the whole: every accepted job ends as done, failed or removed, and what is
  served in the end is the latest upload.

The hazards of this code, with the line each of them bites at and the
properties that guard against it, are listed in `PROJECT.json`.

## 2. The modules

    JobLedger            what the job table promises          (abstract)
       ^  refined by
    JobQueue             table, worker loop, retry decision
       ^        ^
       |        '----- SqsDelivery            delivery by SQS and Lambda
       |                      DocumentStore   documents, chunks, embeddings, bytes
    IngestPipeline  ---------------'          handlers and ingest job body
       ^
    Rebuild                                   admin endpoints and rebuild job body
       ^
    ReadSide                                  query and address status

    Chunking     chunk_segments               \
    Extraction   the extraction cascade        > computations with data of their own
    HybridSearch rank fusion of one statement /

    JobQueueProofs, IngestPipelineProofs, VersionProofs, RebuildProofs,
    OrderlyProofs, ReadSideProofs, SqsProofs, TextProofs          theorems
    MCJobQueue, MCIngest, MCRebuild, MCReadSide, MCSqs, MCText
    + *.cfg                                   instances for TLC

(`^`: is extended by, except from JobQueue to JobLedger, where it is refinement.)

**JobLedger** knows tasks, how often each was started, and who executes: a task
is started only when nobody executes it, an outcome is final, and a task is given
back only with attempts left. A running task that nobody executes may be started
again.

**JobQueue**. Each column of `ingest_job` is a function of the task. `lease` is
`null`, `held` (`lease_until` in the future) or `lapsed`; `older` is the order
of `created_at`. A *run* is one call of `process_job`: `pc[w][t]` is where the
run of task t in process w is and `snap[w][t]` is `ClaimedJob.attempts`, frozen
at claim time. Every statement on a row commits on its own, so every statement is
an action:

| action | code |
|---|---|
| `Enqueue`, `RecordSkipped` | `tasks.py` enqueue, record_skipped |
| `RemoveJobs` | `ON DELETE CASCADE` of `ingest_job.document_id` |
| `Claim` (`Claimable`, `OldestFirst`, `Take`) | the `UPDATE ... FOR UPDATE SKIP LOCKED` of claim, called only when the last `gather` has returned |
| `SetState` | set_state: the row is found by `task_id` alone |
| `MarkDone`, `MarkSkipped`, `Fail` (`WillRetry`) | mark_done, mark_failed |
| `LoseReport` | mark_failed raises; `_safe` swallows it |
| `Crash`, `Restart` | the process dies, or its worker task is cancelled; `main.py` starts it again |
| `Lapse`, `Overrun` | `now()` passes `lease_until`, of a dead run and of a live one |

`SKIP LOCKED` is modelled by letting a claim pass over any set of rows that
somebody is running. `heartbeat` has no caller, so there is no renewal action:
whether a run can outlive `lease_seconds` (300 by default; one run extracts,
possibly by OCR, and embeds a whole document) is the constant `LeaseCoversRun`.

**DocumentStore** has an operator per statement or short transaction on
documents, chunks, embeddings and stored bytes. The keys and cascades of the
schema are guards: a statement that would violate one is not enabled, and the
caller's raising branch is. A content value stands for the bytes and their
sha256; a chunk row carries the content it was cut from and the run that inserted
it (its `chunk_id`). The embedding table of model m is the subset
`embedded[m]` of the chunks, `active` the configured model.

A slot is a pair of ids, each a sequence of characters where it matters, and
`StorageKey` replaces those that `_safe_segment` replaces: `KeyOf` need not be
injective, and in `read_answers` it is not. `LocalFiles`
chooses the backend. `S3Storage.put` is one action, since an object is replaced as
a whole. `LocalFsStorage.put` is `write_bytes` in a thread: it truncates the file
(`TruncateBytes`) and writes it later (`WriteBytes`), so that a request that dies in
between leaves a `Torn` file, a job may read one, and of two puts at once the
longer may leave its end behind (`AfterWrite`). `Uploads` are the contents callers
send, the other contents those damaged files.

**IngestPipeline** composes both. `ingest_document` is read, then skip or (put,
look up, upsert, enqueue), one action per transaction or storage call;
the put is one action or two, by backend;
`remove_document` is the row deletion with its cascades, and the storage deletion
after it. `run_ingest_job` is claimed, extracting, extracted, chunking, the
DELETE and the INSERTs of the chunk transaction, embedding, list of chunks, one
action per batch, flip, done. DELETE and INSERT are two actions because under
READ COMMITTED the rows the DELETE saw are fixed while another run may still
commit; its INSERT then meets the unique key. A failure at any point ends the
run through mark_failed; only calls out of the database raise the errors that
`is_retryable` knows. A task id also names the request that creates the job and,
for a first upload, the document.

**Rebuild** adds the model change. `AdminCheck` is the query for open rebuilds,
`AdminEnqueue` the insert in a later transaction. `run_rebuild_job` is
`StartRebuild`, `ReadMissing`, `Backfill` per batch, `Sweep`, `Backfill` again,
`SwitchModel` for a global one, `FinishRebuild`; in between, documents are
uploaded, ingested and removed by the actions of IngestPipeline, and a removed
chunk makes the next batch break its foreign key, which fails the rebuild. The
rows of a batch commit together, in no particular order. `Apart` says whether
callers keep uploads and model changes apart, and `OneAdmin`, separately, whether
administrators ask one at a time: the code enforces neither, and between
`AdminCheck` and `AdminEnqueue` of one request another may be let through
(`api/routes_admin.py:33`). `ChunkAddress` is the column `chunk.address_id`, which the
inserting job writes from its own row.

**SqsDelivery** replaces the polling worker by the AWS transport over the same
rows and runs. `enqueue` is two actions, `EnqueueRow` and `SendMessage`, and the
second may never happen. A message is free, visible or taken; `Receive` hides a
batch, `NothingToClaim`, `ClaimRaises` and `ClaimById` are the outcomes of
`claim_by_id`, which looks at no lease; `RunReturns`, `RunFails` and `ReportLost`
decide whether the message is a batch failure, and only `HandlerReturns` deletes
or gives back messages, so an instance that dies (`InvocationDies`) gives back
the whole batch. `DeadLetter` drops what was received too often and `Duplicate`
is the queue's at-least-once delivery. The reconciler reads stuck rows
(`ReadStuck`, which leaves out the young ones) and then sends (`Resend`). A job
body is the run of JobQueue.

**ReadSide** adds a reader to Rebuild: `ask[r]` is the request it has under way.
`search` reads the active model (`QueryReadsModel`), embeds the query, and runs
one statement over chunks and the table of that model (`QuerySearches`), or the
embedding call raises (`QueryFails`); ingest, removal, backfill and switch go on
in between. `address_status` is three actions, `StatusReadsModel`,
`StatusReadsJobs`, `StatusCounts`: it reads the model, the jobs and the missing
embeddings one after the other. The full-text half filters
on `chunk.address_id`, and the words of a query may match any subset of the live
chunks it lets through (`Matches`). The vector half filters on another column,
`address_id` of the embedding, which is the address of the job that embedded the
chunk, or of the chunk if a rebuild did (`EmbeddingAddresses`, `Indexed`). For a
model of more than 2000 dimensions (`ExactModels`) it is an exact scan; the others,
the default among them, have an HNSW index, whose approximate result is filtered
afterwards, so that any part of the matching chunks may be missing (`Ranked`,
`store/db.py:88`). `Best` is the cut-off at k, whose order is the matter of
HybridSearch. `ask` also remembers what could be found and what had been accepted
when the request came, for the properties alone.

**Chunking** is `chunk_segments`, one `Window` per iteration, after `Encode`, or
`EncodeRaises` for text that spells a special token of the tokeniser. A text is given by
what decides the outcome: its bytes, which of them begin a character, where
tokens end (possibly inside a character), where segments begin. `DecodedLen` is
the length of a decoded token slice, in which every byte of a character that the
slice has cut the beginning off counts for one; `prefixLen` adds these up as
the code does, and `Locate` is the `bisect_right` over segment starts.

**Extraction** is the pdfplumber pass with its two tests for a real table
(`Boxed`, `Tabulated`), and the cascade: `PlumberReads`, page by page `OcrPage`
with its failures, `Judge` with the halved threshold, `ClaudeAnswers` or
`ClaudeFails`. A page is its number of paragraphs and the sizes of its tables; a
segment names its page, its paragraph index and the item of the page it holds.
The amount of text is counted in segments.

**HybridSearch** is the arithmetic of `hybrid_search`: both rankings cut at
4 k, full outer join, reciprocal ranks added as fractions, the k best. `Search`
picks any of the orders SQL allows among equal scores.

Merged steps, because nobody reads the intermediate state: `set_progress` goes
with the statement before or after it; the first `SELECT` of a run goes with the
`set_state` or `mark_done` it leads to; the embedding call, the insert of its
batch and the count are one action (a failure of the batch is a failure before
it). Left out: worker ids, error texts, costs, timestamps other than the ones
above, the address row, the content type.

## 3. What the runs check

Bounds: `MaxAttempts` is 2 where a retry and its refusal both matter, else 1;
`MaxFaults` bounds crashes, lost reports, failed sends and overruns together;
`EmbedBatch` is 1 so that a long document (two chunks) needs two batches and can
fail between them; a short one has one chunk, a blank one none. Two tasks on one
slot are a first upload and its re-upload, or two racing first uploads; the
third task of `rebuild_apart` is a rebuild or a removal's victim. `Messages` is
2: an original and a second one about the same job, and both fit in one batch.
`Overlap` says what callers do: `free` (anything), `queued` (one request at a
time per slot, jobs may pile up), `none` (the next upload waits for the job of
the last). `CHECK_DEADLOCK FALSE` everywhere: with finitely many requests the
system really comes to rest. Symmetry (tasks, workers, messages, models, contents)
is used only where no liveness is checked.

`ingest_orderly` has the local backend, the other instances S3; two local puts
of one slot at once are left to the proofs (`ContentKeepsItsKey`,
`PipelineTypeCorrect`), where they are no exception. `read_answers` has three
slots on two addresses: two of them differ in a character that `_safe_segment`
replaces and so share a key, two of different addresses share an upload_id. It
has two models, one with an exact scan and one with an index, two uploads of two
chunks each, and a `TopK` of 3, which the chunks of both documents exceed; its
jobs are run without faults, because `ReaderSeesWhole` fails when a worker dies
between the flip and `mark_done` (section 5), and what is left of it then,
`HalfOnlyByRerun`, is checked in `ingest_orderly`. One reader is enough, because
requests are read-only. `text` has every text of up to 7 bytes with every
division into characters, tokens and segments (so characters of up to four bytes
that a window cuts anywhere, and windows of up to 3 tokens with every overlap,
too long ones included), files of up to two pages with up to two tables through
every outcome of OCR and Claude, and every pair of rankings of up to 5 chunks
with k up to 2 and the real `rrf_k` of 60. With k = 1 both rankings are cut
before they are fused; the three parts run one at a time in one instance.

| run | asks | answer |
|---|---|---|
| `queue_leases_cover` | 2 tasks, 2 workers, batches of 2, 3 faults, no overrun: `NoDoubleProcess`, `PendingHasBudget`, `AttemptsPaidFor`, `InFlightHasLease`, and the refinement of JobLedger | hold |
| `queue_single_worker` | the local deployment, one process, runs may outlive leases: refinement, `EveryJobSettles`, `CrashedJobIsRecovered` | hold: `gather` keeps the process from reclaiming what it is running |
| `sqs_one_instance` | one Lambda instance; lost sends, duplicates, dying invocations, dead letters, a dying reconciler: refinement, `EveryJobSettles`, `CrashedJobIsRecovered` | hold: the reconciler covers what SQS gives up |
| `sqs_double_run` | `NoDoubleProcess` with two instances and no fault at all | violated, see section 5 |
| `ingest_free` | overlapping uploads and removals of one slot, two workers whose runs outlive their leases: `NoBlend`, `NothingOrphaned`, `AttemptIsFencing` | hold |
| `ingest_orderly` | patient callers, local files, puts that die half way, texts without chunks, a crash and failing calls: `SettledServesLatest`, `BytesAwaitTheirJob`, `DoneCountsAddUp`, `HalfOnlyByRerun`, `FlipPublishesWhole`, `ServedOrReported` | hold |
| `ingest_half_replaced` | `ReaderSeesWhole` when uploads do not wait | violated |
| `rebuild_apart` | model changes asked for one at a time, beside removals, a crash and a resumed job, uploads kept apart: `SwitchCoversAll`, `SwitchedByNewest` | hold |
| `rebuild_overlap` | `SwitchCoversAll` when an upload overlaps the model change | violated |
| `read_answers` | queries and status requests between re-uploads, removals and a model change: `ReaderSeesWhole`, `ContentStaysUnderKey`, `AnswerIsolated`, `AnswerFromOneRun`, `QueryServed`, `IndexedMeansServed` | hold |
| `status_lost` | `IndexedMeansServed` when a request may die half way | violated |
| `text` | chunking, extraction and ranking of all small inputs: `WindowsTile`, `SpansPointAtText`, `LocatedUntilDrift`, `EveryItemOnce`, `PlacesDistinct`, `FallbackKeepsText`, `BetterStaysAhead`, `AnswerIsFull` | hold |

What two of the properties leave open on purpose: `ReaderSeesWhole` and its kin take a
version without chunks for whole, as the job body does (a blank document goes
live empty), and `QueryServed` speaks of models without an approximate index only.

More than one Lambda instance is left to the proofs and to `sqs_double_run`: the
state space is infinite there, because two runs of one job can revive it for
each other (a stale `set_state` after the other's `mark_failed`) and each
claim raises `attempts`.

Fairness is weak and minimal: a live worker keeps polling (`while True` with a
sleep), the awaits of a run return or raise (clients have timeouts; a run that
never returns would be an overrun without end), leases of the dead expire
because time passes, dead processes are restarted by the deployment, and an
accepted request runs to its end. On AWS: SQS delivers visible messages, handlers
end or die, and the scheduled reconciler reads again when all rows have grown
old enough. Nothing is assumed about uploads, removals or
faults happening. Faults are bounded, so they stop eventually.

Each property has a mutant: a plausible bug in a mapped definition under which
TLC finds it violated.

## 4. What is proved

TLAPS checks, for any finite set of tasks, any set of workers and any bounds:

* `TypeCorrect`: `TypeOK`.
* `Fencing`: `AttemptIsFencing`. The inductive form says that claim values of
  live runs are between 1 and the row's `attempts` and pairwise different; it
  holds because claim is the only statement that changes the column.
* `ExclusiveExecution`: `NoDoubleProcess`, **assuming `LeasesSuffice`**: no run
  outlives its lease, or there is one worker (the local deployment, whatever its
  runs last). Not inductive alone: a claim must be known to take only rows
  without a run. The strengthening `RunsOwnTheirRows` says a live run of an
  existing row has it in flight, with its own attempts value, and leased if
  leases cover runs. With one worker it is `gather` that does it: the worker
  claims when its last batch has ended.
* `AttemptsBudget`: `PendingHasBudget`, `AttemptsPaidFor` and
  `InFlightHasLease`, from `RunsOwnTheirRows` and a count (`BudgetInv`) of the
  attempts that crashes have paid for.
* `QueueImplementsLedger`: the refinement, step by step from the same invariant.
* `PipelineImplementsQueue`: every step of `IngestPipeline` is a step of
  `JobQueue` or leaves it alone, so all of the above hold of the pipeline
  (`PipelineExclusive` is the corollary).
* `RemovalIsFinal`: `NothingOrphaned`, from the foreign key and the cascade
  (`src/docs/RAG-REMEDIATION-PLAN.md:238` fears orphans after such a race).
* `RebuildImplementsQueue` and `RebuildExclusive`: the same for the steps of a
  model change, whether or not callers keep apart; `RebuildKeepsStore`: `NothingOrphaned`
  holds of `Rebuild`, because its own steps touch neither documents nor chunks.
* `SqsFencing`: `AttemptIsFencing` for any number of Lambda instances and any
  redelivery. claim_by_id may take a job that somebody runs, but it raises
  `attempts` in the same statement (`TakeType`, `TakeFence` are the lemmas shared
  with the polling claim).
* `CrashesPayForAttempts`, `LeaseBehindFlight`: two parts of `AttemptsBudget` on
  their own.
* `PipelineTypeCorrect`: `PipelineTypeOK`, including that an embedding never
  outlives its chunk. It rests on what a request and a run know by the time they
  write (`RequestType`, `BodyType`: a run past the storage read has a document
  and a content) and on all row sets being finite.
* `VersionsNeverBlend`: `NoBlend` for any number of overlapping runs, **with or
  without** `LeaseCoversRun`. The unique key alone does not give it, since it
  refuses equal ordinals and not different runs. The invariant adds
  that every version has its first chunk (`Numbered`), that a run about to
  delete has in hand all rows of whoever wrote them (`SeenWhole`), and that no
  row anywhere, in the table or in a run's hand, carries the attempt of a run
  that has not inserted yet (`FreshRuns`, from `AttemptIsFencing`). So what
  survives a DELETE is whole versions, and one of the same version would clash
  with the first new chunk.
* `RebuildTypeCorrect`, `RebuildNeverBlends`: `RebuildTypeOK` and `NoBlend` while
  models change. The invariants of the pipeline are stated for any larger set of
  request phases and run steps, so that those of `Rebuild` fit in.
* `ContentKeepsItsKey`: `ContentStaysUnderKey`, for any `KeyOf`, either backend and any
  overlap. A request never goes back, so a document_id keeps its slot once it may be
  seen, a job keeps its document, and bytes, the content in a run's hand and chunk
  rows can be traced back to a request for the key (`OwnContent`). Two uploads of
  a slot may swap or damage each other's bytes, and slots that share a key do
  share content (section 5), but none comes from another key.
* `AnswersStayIsolated`: `AnswerIsolated`, without assumptions. The invariant says
  that the job that wrote a chunk is about the chunk's document (`WrittenFor`) and
  that jobs and document_ids keep their slots (`Registered`), from which both
  address columns, whoever wrote them, are those of the document (`AddressesAgree`).
* `AnswersNeverBlend`: `AnswerFromOneRun`, without assumptions, from `NoBlend` when the
  statement reads the tables.
* `QueriesServed`: `QueryServed`, without assumptions. A chunk that is deleted never
  comes back: a run that writes its version anew leaves rows of its own, so a
  chunk whose run is past its insert (`Past`) still has the embedding it had as long
  as it is there at all (`StillThere`), whatever models are switched meanwhile.
* `SqsTypeCorrect`: `SqsTypeOK`; no message is received more often than
  `max_receive_count`, duplicates included. That a run which ends has a message to
  account for needs that an instance has one run at a time (`OneRunEach`).
* `SoleLambdaImplementsLedger`: JobQueue's refinement of JobLedger, for the AWS
  transport with one instance. `ClaimById` looks at no lease, but by `OneRunEach`
  the only instance runs nothing when it claims. The stack allows ten
  instances (`src/infra/landiq_rag_stack.py:241`), for which
  `sqs_double_run` shows the ledger's first promise broken and `SqsFencing` is what
  is proved to remain.

**Callers that take turns** (`OrderlyProofs`). What readers are served depends on
one run at a time working on a document, which nothing in the code enforces.
It is proved from `LeasesSuffice` and what callers do: `Overlap = "none"` (the next
upload of a slot waits for the job of the last) and `Apart` (no uploads beside
a model change), `OneAdmin` (one administrator at a time). Crashes, retries and
failing calls are never excluded, storage keys may collide, and puts may be torn. A first part sums up each step by what it leaves alone and what
it does (`AskFrame`, `RunFrame`, `StepFrames`), so that every later invariant is
proved against a dozen effects and not against forty actions.

| theorem | property | assumes, besides `LeasesSuffice` | inductive invariant |
|---|---|---|---|
| `FlipsPublishWhole` | `FlipPublishesWhole` | `Overlap = "none"` | `TurnInv`: one upload or unfinished job per slot (`Serial`), and what a run has in hand is what the tables hold (`RunWork`) |
| `DoneCounts` | `DoneCountsAddUp` | `Overlap = "none"` | `CountsInv`: embeddings counted plus chunks in hand cover the chunks counted, and are equal to them in a job claimed once (`FirstRun`), which has counted nothing before |
| `SwitchesCoverAll` | `SwitchCoversAll` | `Apart` | `ChangeInv`: an open rebuild is beside no upload (`ChangesApart`), and has in hand all that is missing (`Covering`) |
| `NewestSwitches` | `SwitchedByNewest` | `OneAdmin` | `OneChange`: one model change at a time, and its job is the newest |
| `ReadersSeeWhole` | `HalfOnlyByRerun` | `Overlap = "none"`, `Apart` | `WholeInv`: `TurnInv`, `ChangeInv`, jobs are for the active model (`CurrentModel`), a job's version is not live before its run flips it, or the job has been claimed again (`Versions`) |
| `BytesAwaitJobs` | `BytesAwaitTheirJob` | `Overlap = "none"` | `BytesInv`: no upload of a slot is under way while its bytes are still to be deleted (`DropsInTurn`), and from put to flip the bytes, the row's hash and what a run has read are the request's (`Incoming`) |
| `SettledServeLatest` | `SettledServesLatest` | `Overlap = "none"`, `Apart` | `LatestInv`: `BytesInv`, `ChangeInv`, `CurrentModel`, and a settled document serves its hash (`SettledServes`) |
| `IndexedIsServed` | `IndexedMeansServed` | those of `SettledServeLatest`, `~ApiFaults` | `StatusInv`: what a status request has counted so far stays true; `NoneLost`: no request dies half way |

What the assumptions exclude does happen: `ingest_half_replaced`,
`rebuild_overlap` and `status_lost` show what callers see without `Overlap`, `Apart` and
`~ApiFaults`, and section 5 tells of two administrators at once. `ReadImplementsRebuild` carries all theorems about `Rebuild` over to
`ReadSide`.

**Text** (`TextProofs`), for every input:

* `WindowsAlwaysTile`, `SpansAlwaysPoint`, `ChunksAreLocated`: chunking of any text
  with any window and overlap (`LoopInv`, `SpanInv`). The second rests on the
  additivity of decoded lengths over clean cuts, and on a slice never decoding to
  fewer characters than it holds; the third, `LocatedUntilDrift`, on a finite set of
  segment starts having a greatest.
* `FallbacksKeepText`, `PlacesAlwaysDistinct`, `ItemsAlwaysOnce`: extraction of any
  file with any reply (`FoundInv`). Numbering by counting is injective into an
  interval of the same size, so it leaves no gap.
* `FusionKeepsOrder`, `AnswersAreFull`: rankings of any length, any k, any `rrf_k`
  (`SearchInv`; the assumption is that a ranking lists no chunk twice). That the
  cut at 4 k turns no preference around is arithmetic of the fractions; that the
  answer is full is a count of the two cut rankings.

The only assumptions are the named ones on the constants (`QueueAssumption`,
`StoreAssumption`, `PipelineAssumption`, `RebuildAssumption`, `ReadAssumption`,
`SqsAssumption`, `ChunkingAssumption`, `ExtractionAssumption`, `SearchAssumption`),
and `LeasesSuffice`, `Overlap`, `Apart`, `OneAdmin`, `ApiFaults` and one instance where
stated.

Only model-checked: liveness, which is out of TLAPS's reach (`EveryJobSettles`,
`CrashedJobIsRecovered`, `ServedOrReported`), and the violations. Where a proof
would be an induction over data, it goes by the least element of a set of numbers
or by a count instead.

## 5. Where code and documentation disagree

Shown by runs that expect a violation:

* **Double run on AWS** (`src/docs/RAG-REMEDIATION-PLAN.md:210` calls ignoring
  the lease safe because the visibility timeout is longer; `store/tasks.py:3`
  promises that a job is never processed twice at once). The reconciler cannot
  see the queue: it sends again for a pending job whose message is merely
  waiting, and two instances then claim it, one after the other.
* **Half-replaced document** (`src/docs/PLAN-RAG.md:373`). Two uploads accepted
  before the first flip share a `doc_version`. The second job deletes and
  rewrites the version that is live, in full view of readers.
* **Indexed but lost** (`src/docs/PLAN-RAG.md:368`, `src/docs/PLAN-RAG.md:395`).
  The skip path compares with the hash on the document row, which is committed
  before the job exists, not with a finished job. When the request dies in
  between, uploading the same bytes again answers `skipped`, nothing is ever
  indexed, and the address reports `fully_indexed`. After a *failed* job the
  re-upload is skipped in the same way, but the failed job keeps the address
  incomplete.
* **Switch before complete** (`src/docs/PLAN-RAG.md:381`). An ingest job accepted
  under the old model goes live after the completeness sweep; nothing compares
  counts before the switch, and the document cannot be found by vector search
  under the new model until the next rebuild.

Follow from the code and have no run of their own, because a property that passes
marks where each begins:

* **Live version rewritten after a crash** (`src/docs/PLAN-RAG.md:373` again). A
  worker that dies between the flip and `mark_done` leaves its row in flight.
  The job is claimed again and deletes the chunks it has made live; until they
  are inserted and embedded anew the document is missing or half there.
  `HalfOnlyByRerun` is what holds: when jobs of a document take turns, only such
  a second run halves it.
* **Counts that do not match** (`src/docs/PLAN-RAG.md:395`). `embedding_count`
  accumulates over attempts, `chunk_count` is replaced, and a retry embeds
  everything again, so `embedding_count == chunk_count` fails for a job that has
  needed one. `DoneCountsAddUp`: equal after a first attempt, at least as
  many embeddings as chunks after a later one.
* **Dangling row** (`api/routes_ingest.py:157`). The storage delete of a removal
  comes after its commit, and an upload of the same slot in between loses its
  bytes to it: the document row is there and its job fails. `BytesAwaitTheirJob`
  holds of callers that wait for the delete.
* **Shared keys** (`store/files.py:18`). `p/q` and `p_q` are one key; a job that
  runs after both puts indexes the other upload's content under its own name, so
  that the identity is lost. `ContentStaysUnderKey` says that content goes no
  further than that.
* **Two rebuilds** (`src/docs/RAG-REMEDIATION-PLAN.md:135`: the second
  concurrent one gets a 409). Both requests pass the check before either has
  enqueued, and the earlier job may switch last. `SwitchedByNewest` needs
  `OneAdmin`; that every live chunk is found after a switch (`SwitchesCoverAll`)
  holds without it.
* **Citations drift** (`ingest/chunk.py:4`;
  `src/docs/RAG-REMEDIATION-PLAN.md:268` calls drift refuted and "offsets/page
  mapping" correct). Once a window has begun inside a character, the offsets
  added up are too large, and a chunk cites a later page or paragraph than the
  one it begins in. `SpansPointAtText` and `LocatedUntilDrift` say when that
  cannot happen, and that no error goes the other way.
* **Two polling workers** (`store/tasks.py:3`). `NoDoubleProcess` fails without
  `LeaseCoversRun`, and then so does `CrashedJobIsRecovered`: after one run has
  failed and cleared the lease, the other's `set_state` puts the row back in
  flight, and if it dies no claim matches the row (on AWS the reconciler does).
* **An emptied document** (`store/documents.py:154`). Two concurrent jobs of one
  document with versions 1 and 2 can empty it: one flip deletes the other's
  pending chunks as superseded, that run finds nothing to embed, flips to an
  empty version and reports done.

Further, claim does not check `max_attempts`, so crashes push attempts beyond it
(what `AttemptsPaidFor` measures); with two processes the job of a superseded
upload can flip last; uploads of one slot that overlap on the local backend can
leave a torn file for a job to index; a text without content ends done, not
failed (`src/docs/PLAN-RAG.md:391`).

Of reading and text:

* an address without documents is `fully_indexed` (`src/docs/PLAN-RAG.md:623`
  asks for more), and one failed job keeps an address incomplete even after a
  later upload has succeeded (`api/routes_ingest.py:236`);
* `ingest/chunk.py:55` gives `prefix_len` as the length of the decoded prefix;
  once a window begins inside a character the pieces add up to more, so later
  char spans (`src/README.md:123`) point too far, never too near;
* the OCR result is kept when it is not sparse at half the threshold, even if
  pdfplumber had found more or OCR failed on some pages, and a reply by Claude may
  name a page twice, so that page and paragraph no longer tell its segments
  apart (`PlacesDistinct` leaves it out);
* two model ids that differ only in case or punctuation share an embedding table
  (`store/db.py:24`);
* the chunk parameters seeded into `rag_config` (`main.py:39`) are never read.

## 6. Not modelled

| part | why |
|---|---|
| startup, configuration, migrations (`main.py`, `config.py`, `store/db.py`, `aws/ssm_config.py`, `aws/lambda_api.py`) | run once per process, in sequence, before any request; the start and cancellation of the worker are `Restart` and `Crash` |
| embedding providers (`embedding/`) | calls to services; their outcomes are nondeterministic in `IngestPipeline` and `ReadSide` |
| parsers, OCR, Claude | library and service calls; what they find is the input of `Extraction` |
| response schemas, ports | declarations |
| deployment, scripts, tests | description of the installation, demo data, and the documentation of what is meant |
| query log, count of candidates, costs | written and never read by the code |
| a model without a table (`store/embeddings.py: get_model_table` returning none) | every configured model gets its table at startup |

All invariants and action properties of the runs are theorems. What is left to
prove: what several Lambda instances still promise beyond fencing, and what
uploads that overlap on one slot (`Overlap = "queued"`) still promise to readers.
