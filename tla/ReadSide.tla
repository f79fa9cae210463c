------------------------------- MODULE ReadSide -------------------------------
(***************************************************************************)
(* The two answers callers rely on: a query (retrieval/search.py over      *)
(* store/embeddings.py: hybrid_search) and the ingestion status of an      *)
(* address (api/routes_ingest.py: address_status).  Both read the active   *)
(* model first and the tables later, on other connections and statement    *)
(* by statement, while the steps of Rebuild go on in between.              *)
(*                                                                         *)
(* A request is read-only, so that requests do not meet: one reader that   *)
(* asks again and again stands for all of them.                            *)
(***************************************************************************)
EXTENDS Rebuild

CONSTANTS
    Readers,     \* processes that ask
    TopK,        \* the k of a query
    ExactModels, \* the models of more than 2000 dimensions: no HNSW index
    NoModel      \* no model id

ASSUME ReadAssumption ==
    /\ TopK \in Nat \ {0}
    /\ ExactModels \subseteq Models
    /\ NoModel \notin Models

VARIABLE
    ask          \* ask[r]: the request of r; at is "idle", "searching", "found",
                 \* "polling", "counting", "incomplete" or "indexed"

readVars == <<rebuildVars, ask>>

\* before and accepted are remembered for the properties: the chunks that could
\* be found, and the uploads that had been answered, when the request came.
NoAsk == [at |-> "idle", addr |-> Everywhere, model |-> NoModel,
          before |-> {}, accepted |-> {}, settled |-> FALSE, found |-> {}]

ReadInit == RebuildInit /\ ask = [r \in Readers |-> NoAsk]

Between(r) == ask[r].at \in {"idle", "found", "incomplete", "indexed"}

-----------------------------------------------------------------------------
(* The tables of one address. *)

\* c.address_id = a AND c.doc_version = d.live_version
LiveAt(a) == {c \in chunks : ChunkAddress(c) = a /\ c \in LiveChunks(c.doc)}

\* Mutant of Matches: the full-text half forgets the live version.
MatchesAnyVersion(a) == {c \in chunks : ChunkAddress(c) = a}

\* The chunks the full-text half may find; whether it does is up to the words.
Matches(a) == LiveAt(a)

\* embedding.address_id is that of the job that has embedded the chunk, one of
\* its document and version, or the chunk's own when a rebuild has.
EmbeddingAddresses(c) ==
    {ChunkAddress(c)} \cup
    {AddressOf[req[t].slot] : t \in {u \in Tasks : docOf[u] = c.doc /\ ver[u] = c.ver}}

\* e.address_id = a AND c.doc_version = d.live_version, in the table of m.
Indexed(a, m) == {c \in embedded[m] : a \in EmbeddingAddresses(c) /\ c \in LiveChunks(c.doc)}

\* The chunks the vector half may come up with: an exact scan finds all, the
\* HNSW index, whose result is filtered afterwards, any of them.
Ranked(a, m) == IF m \in ExactModels THEN {Indexed(a, m)} ELSE SUBSET Indexed(a, m)

\* count_missing_for_address
MissingAt(a, m) == LiveAt(a) \ embedded[m]

-----------------------------------------------------------------------------
(* search *)

Uploaded == {t \in Tasks : state[t] \in Present /\ jobType[t] = "ingest"}

\* active_model_id, on a connection of its own.
QueryReadsModel(r, a) ==
    /\ Between(r)
    /\ ask' = [ask EXCEPT ![r] = [NoAsk EXCEPT !.at = "searching", !.addr = a,
                                               !.model = active, !.before = Indexed(a, active)]]
    /\ UNCHANGED rebuildVars

\* ORDER BY score DESC LIMIT k; the scores are those of HybridSearch.
Best(candidates) ==
    {found \in SUBSET candidates :
        /\ Cardinality(found) <= TopK
        /\ found # candidates => Cardinality(found) = TopK}

\* get_model_table and embed_query; then hybrid_search, one statement: the
\* TopK best of what either half has found.
QuerySearches(r) ==
    /\ ask[r].at = "searching"
    /\ \E vectors \in Ranked(ask[r].addr, ask[r].model), words \in SUBSET Matches(ask[r].addr) :
       \E found \in Best(vectors \cup words) :
          ask' = [ask EXCEPT ![r] = [NoAsk EXCEPT !.at = "found", !.found = found,
                                                  !.addr = ask[r].addr]]
    /\ UNCHANGED rebuildVars

\* The embedding call raises: the request ends in a 500.
QueryFails(r) ==
    /\ ask[r].at = "searching"
    /\ ask' = [ask EXCEPT ![r] = NoAsk]
    /\ UNCHANGED rebuildVars

-----------------------------------------------------------------------------
(* address_status *)

StatusReadsModel(r, a) ==
    /\ Between(r)
    /\ ask' = [ask EXCEPT ![r] = [NoAsk EXCEPT !.at = "polling", !.addr = a,
                                               !.model = active, !.accepted = Uploaded]]
    /\ UNCHANGED rebuildVars

\* ingest_job.address_id: "*" for a global rebuild.
JobsAt(a) ==
    {t \in Tasks : /\ state[t] \in Present
                   /\ a = IF jobType[t] = "rebuild" THEN scope[t] ELSE AddressOf[req[t].slot]}

\* Mutant of Unsettled: a job that waits for a worker is not in flight.
UnsettledButPending == InFlight \cup {"failed"}

\* in_flight and failed count these.
Unsettled == {"pending"} \cup InFlight \cup {"failed"}

StatusReadsJobs(r) ==
    /\ ask[r].at = "polling"
    /\ ask' = [ask EXCEPT ![r].at = "counting",
                          ![r].settled = \A t \in JobsAt(ask[r].addr) : state[t] \notin Unsettled]
    /\ UNCHANGED rebuildVars

\* The last count, and the answer: fully_indexed or not.
StatusCounts(r) ==
    /\ ask[r].at = "counting"
    /\ ask' = [ask EXCEPT ![r] = [NoAsk EXCEPT !.at =
                   IF ask[r].settled /\ MissingAt(ask[r].addr, ask[r].model) = {}
                   THEN "indexed" ELSE "incomplete"]]
    /\ UNCHANGED rebuildVars

-----------------------------------------------------------------------------

ReaderStep(r) ==
    \/ \E a \in Addresses : QueryReadsModel(r, a) \/ StatusReadsModel(r, a)
    \/ QuerySearches(r)
    \/ QueryFails(r)
    \/ StatusReadsJobs(r)
    \/ StatusCounts(r)

ReadNext ==
    \/ RebuildNext /\ UNCHANGED ask
    \/ \E r \in Readers : ReaderStep(r)

ReadSpec == ReadInit /\ [][ReadNext]_readVars

-----------------------------------------------------------------------------
(* Properties. *)

\* "a query for one address never returns another's chunks"
\* (tests/test_acceptance.py:42, PRD 8.1): the two halves filter on address
\* columns that different jobs have written, the chunk's and the embedding's;
\* what they let through belongs to a document of the address asked for.
AnswerIsolated ==
    \A r \in Readers : ask[r].at = "found" =>
        \A c \in ask[r].found : AddressOf[slot[c.doc]] = ask[r].addr

\* An answer is never a blend (PLAN-RAG.md:373): the chunks it cites of one
\* document are the work of one run, although it was put together from two
\* rankings while versions are written, flipped and swept.
AnswerFromOneRun ==
    \A r \in Readers : \A c, k \in ask[r].found :
        c.doc = k.doc => c.ver = k.ver /\ c.by = k.by

\* A model change "never destroys the serving vectors" (PLAN-RAG.md:75): what
\* could be found by vector when a query read the active model, and is still
\* live when it searches, is in the answer, if TopK allows and whether or not
\* the active model has changed in between.  So far as the code can promise it:
\* for a model without an approximate index.
QueryServed ==
    [][\A r \in Readers : ask[r].at = "searching" /\ ask'[r].at = "found" =>
          \/ ask[r].model \notin ExactModels
          \/ Cardinality(ask'[r].found) = TopK
          \/ ask[r].before \cap LiveAt(ask[r].addr) \subseteq ask'[r].found]_readVars

\* "Agent uses to decide whether to rely on RAG" (PLAN-RAG.md:82): an answer
\* fully_indexed means that a document, an upload of which had been accepted
\* when the status was asked for and none is under way or has come since, is
\* live and served whole with the model the answer names.
IndexedMeansServed ==
    [][\A r \in Readers : ask[r].at = "counting" /\ ask'[r].at = "indexed" =>
          \A d \in documents :
             /\ AddressOf[slot[d]] = ask[r].addr
             /\ \E t \in ask[r].accepted : docOf[t] = d
             /\ \A t \in Tasks : docOf[t] = d => t \in ask[r].accepted \/ At(t, "lost")
             => live[d] > 0 /\ ServesWhole(d, ask[r].model)]_readVars

=============================================================================
