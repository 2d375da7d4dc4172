------------------------------- MODULE RagJob -------------------------------
(***************************************************************************)
(* One document of the knowledge base and its ingestion job: the RAG       *)
(* worker parses, chunks and embeds it (agent/rag/ingestion/service.py,    *)
(* agent/rag/embedding/service.py), while the user cancels, restarts,      *)
(* disables, enables and deletes it through the control plane.             *)
(*                                                                         *)
(* PostgresRagIngestionJobRepository.get and PostgresRagDocumentRepository *)
(* .get are plain SELECTs that hand out a copy; update loads the row again *)
(* (nothing keeps the first object in the session) and sets every column   *)
(* from that copy.  A transaction is therefore two steps here: Begin...    *)
(* takes a copy of both rows and applies the early returns, Commit...      *)
(* writes the rows computed from that copy.  Only the claims, which read   *)
(* FOR UPDATE, are single steps.  Requests of the user run side by side.   *)
(*                                                                         *)
(* list_by_document cuts its list off: ListLimit stands for the 1000 rows  *)
(* it returns unless asked for more, DeleteLimit for the 10000 a deletion  *)
(* asks for.                                                               *)
(***************************************************************************)
EXTENDS Naturals, FiniteSets, TLC

CONSTANTS
  RagWorkers,      \* the RAG worker processes
  NoRagWorker,     \* no owner
  RagHandlers,     \* the requests that the control plane serves at a time
  Assets,          \* the images a parse may cut out of the document
  MaxChunks,       \* bound: chunks of the document
  ListLimit,       \* how many chunks or assets the workers list
  DeleteLimit,     \* how many assets a deletion lists
  MaxAttempts,     \* budget of parsing attempts
  MaxEmbeds,       \* budget of embedding attempts
  MaxRequests,     \* bound: requests of the user
  MaxEnqueues,     \* bound: how often the document is added
  EarlyReadd,      \* may it be added again while the deleted one leaves traces?
  MaxRagFaults     \* bound: crashes of a process and failed file deletions

ASSUME RagAssumption ==
  /\ NoRagWorker \notin RagWorkers
  /\ MaxChunks \in Nat /\ ListLimit \in Nat \ {0} /\ DeleteLimit \in Nat \ {0}
  /\ MaxAttempts \in Nat \ {0} /\ MaxEmbeds \in Nat \ {0}
  /\ MaxRequests \in Nat /\ MaxEnqueues \in Nat /\ MaxRagFaults \in Nat
  /\ EarlyReadd \in BOOLEAN

VARIABLES
  job,        \* the row of rag_ingestion_jobs
  document,   \* the row of rag_documents
  chunks,     \* how many rows of rag_chunks there are, and how many have vectors
  assets,     \* rows of rag_assets
  files,      \* files of the asset store
  deletion,   \* the L4 permission request for deleting the document
  worker,     \* per RAG worker: where process_next is, and what it has read
  api,        \* per request under way: its transaction, and what it has read
  ragUsed     \* how much of each bound is used up

ragVars == <<job, document, chunks, assets, files, deletion, worker, api, ragUsed>>

rows == <<job, document>>
projection == <<chunks, assets, files>>

JobStatus == {"none", "queued", "parsing", "chunking", "embedding",
              "completed", "failed", "cancelled"}
DocumentStatus == {"none", "indexing", "ready", "failed", "disabled"}

NoJob == [status |-> "none", attempts |-> 0, embeds |-> 0,
          owner |-> NoRagWorker, lease |-> "none", retry |-> FALSE]
NoDocument == [status |-> "none", version |-> 0]
NoChunks == [rows |-> 0, vectors |-> 0]
IdleWorker == [at |-> "idle", job |-> NoJob, document |-> NoDocument,
               built |-> {}, known |-> {}, count |-> 0, retry |-> FALSE]
IdleApi == [at |-> "idle", job |-> NoJob, document |-> NoDocument, files |-> {}]

RagInit ==
  /\ job = NoJob /\ document = NoDocument
  /\ chunks = NoChunks /\ assets = {} /\ files = {}
  /\ deletion = [status |-> "none", version |-> 0, pending |-> {}]
  /\ worker = [w \in RagWorkers |-> IdleWorker]
  /\ api = [h \in RagHandlers |-> IdleApi]
  /\ ragUsed = [requests |-> 0, enqueues |-> 0, faults |-> 0]

-----------------------------------------------------------------------------
(* The domain objects: RagIngestionJob and RagDocument of contracts.py.     *)

IsTerminal(j) ==
  \/ j.status \in {"none", "completed", "cancelled"}
  \/ j.status = "failed" /\ (~j.retry \/ j.attempts >= MaxAttempts)

Released(j, s) == [j EXCEPT !.status = s, !.owner = NoRagWorker, !.lease = "none"]

Claimed(j, w) == [j EXCEPT !.status = "parsing", !.attempts = @ + 1,
                           !.owner = w, !.lease = "live", !.retry = FALSE]
ClaimedToEmbed(j, w) == [j EXCEPT !.embeds = @ + 1, !.owner = w,
                                  !.lease = "live", !.retry = FALSE]
Failed(j, again) == [Released(j, "failed") EXCEPT !.retry = again]
EmbeddingFailed(j, again) ==
  [Released(j, IF again THEN "embedding" ELSE "failed") EXCEPT !.retry = again]
Cancelled(j) == [Released(j, "cancelled") EXCEPT !.retry = FALSE]
Restarted(j) == [NoJob EXCEPT !.status = "queued"]

Marked(d, s) == [status |-> s, version |-> d.version + 1]
KeptIndexing(d) == d    \* variant: the document is forgotten
MarkedFailed(d) == IF d.status = "indexing" THEN Marked(d, "failed") ELSE d

\* What list_by_document returns: of too many rows only as many as its limit;
\* which ones, the order of the rows decides.
Listings(s, limit) ==
  IF Cardinality(s) <= limit THEN {s}
                             ELSE {t \in SUBSET s : Cardinality(t) = limit}
Listed(n) == IF n <= ListLimit THEN n ELSE ListLimit

-----------------------------------------------------------------------------
(* The ingestion stage of a worker: RagIngestionService.process_next.       *)

Goes(w, at) == worker' = [worker EXCEPT ![w] = [IdleWorker EXCEPT !.at = at]]
GivesUp(w, again) ==
  worker' = [worker EXCEPT ![w] = [IdleWorker EXCEPT !.at = "failing", !.retry = again]]
Reads(w, at) ==
  worker' = [worker EXCEPT ![w].at = at, ![w].job = job, ![w].document = document]

\* What a worker remembers: the assets it has listed, the images and chunks it
\* has built, the chunks it is to embed.
Knowing(at, known) == [IdleWorker EXCEPT !.at = at, !.known = known]
Built(r, built, n) == [r EXCEPT !.at = "built", !.built = built, !.count = n]
Embedding(n) == [IdleWorker EXCEPT !.at = "embedding", !.count = n]
Unembedded(r, again) == [r EXCEPT !.at = "unembedded", !.retry = again]

Owns(w) == job.status \in {"parsing", "chunking"} /\ job.owner = w

StaleParsing == job.status = "parsing" /\ job.lease = "expired"    \* variant
Stale == job.status \in {"parsing", "chunking"} /\ job.lease = "expired"
Retryable == job.status = "queued" \/ (job.status = "failed" /\ job.retry)

Spent == job.attempts >= MaxAttempts

\* claim_next, and the branch of process_next for a job whose budget is used up.
ClaimIngestion(w) ==
  /\ worker[w].at = "idle"
  /\ \/ /\ (Retryable \/ Stale) /\ ~Spent
        /\ job' = Claimed(job, w)
        /\ Goes(w, "parsing")
        /\ UNCHANGED document
     \/ /\ Stale /\ Spent
        /\ job' = Failed(job, FALSE)
        /\ document' = MarkedFailed(document)
        /\ UNCHANGED worker
  /\ UNCHANGED <<projection, deletion, api, ragUsed>>

\* The heartbeat of _preprocess_with_heartbeat (_renew_lease); when it finds the
\* lease lost, the parse fails (ParseFails).
BeginRenewal(w) ==
  /\ worker[w].at = "parsing" /\ Owns(w) /\ job.lease = "live"
  /\ Reads(w, "renewing")
  /\ UNCHANGED <<rows, projection, deletion, api, ragUsed>>

CommitRenewal(w) ==
  /\ worker[w].at = "renewing"
  /\ IF job.status = "none"
       THEN GivesUp(w, TRUE) /\ UNCHANGED job
       ELSE job' = [worker[w].job EXCEPT !.lease = "live"] /\ Goes(w, "parsing")
  /\ UNCHANGED <<document, projection, deletion, api, ragUsed>>

\* A progress report of the parser (_report_progress): it writes the row as read.
BeginReport(w) ==
  /\ worker[w].at = "parsing" /\ Owns(w)
  /\ Reads(w, "reporting")
  /\ UNCHANGED <<rows, projection, deletion, api, ragUsed>>

CommitReport(w) ==
  /\ worker[w].at = "reporting"
  /\ IF job.status = "none"
       THEN GivesUp(w, TRUE) /\ UNCHANGED job
       ELSE job' = worker[w].job /\ Goes(w, "parsing")
  /\ UNCHANGED <<document, projection, deletion, api, ragUsed>>

\* Reading, hashing or parsing the PDF fails, or a progress report or the
\* heartbeat finds the lease lost.
ParseFails(w) ==
  /\ worker[w].at = "parsing"
  /\ \E again \in BOOLEAN : GivesUp(w, again)
  /\ UNCHANGED <<rows, projection, deletion, api, ragUsed>>

\* _advance_to_chunking.
BeginAdvance(w) ==
  /\ worker[w].at = "parsing"
  /\ CASE job.status = "cancelled" -> Goes(w, "idle")
       [] job.status = "none" -> GivesUp(w, FALSE)
       [] job.status = "parsing" /\ job.owner = w -> Reads(w, "advancing")
       [] OTHER -> GivesUp(w, TRUE)
  /\ UNCHANGED <<rows, projection, deletion, api, ragUsed>>

CommitAdvance(w) ==
  /\ worker[w].at = "advancing"
  /\ IF job.status = "none"
       THEN GivesUp(w, TRUE) /\ UNCHANGED job
       ELSE /\ job' = [worker[w].job EXCEPT !.status = "chunking"]
            /\ Goes(w, "chunking")
  /\ UNCHANGED <<document, projection, deletion, api, ragUsed>>

\* Chunking and its progress report; without any chunk the job fails for good.
BeginChunking(w) ==
  /\ worker[w].at = "chunking"
  /\ GivesUp(w, FALSE) \/ (~Owns(w) /\ GivesUp(w, TRUE)) \/ (Owns(w) /\ Reads(w, "chunked"))
  /\ UNCHANGED <<rows, projection, deletion, api, ragUsed>>

\* The report is written, then _existing_asset_references lists the assets.
CommitChunking(w) ==
  /\ worker[w].at = "chunked"
  /\ IF job.status = "none"
       THEN GivesUp(w, TRUE) /\ UNCHANGED job
       ELSE /\ job' = worker[w].job
            /\ \E known \in Listings(assets, ListLimit) :
                 worker' = [worker EXCEPT ![w] = Knowing("building", known)]
  /\ UNCHANGED <<document, projection, deletion, api, ragUsed>>

\* build_projection writes the images; when the store is full it removes its own.
Build(w) ==
  /\ worker[w].at = "building"
  /\ \/ \E built \in SUBSET Assets, n \in 1..MaxChunks :
          /\ files' = files \cup built
          /\ worker' = [worker EXCEPT ![w] = Built(worker[w], built, n)]
     \/ \E built \in SUBSET Assets :
          /\ files' = (files \cup built) \ (built \ worker[w].known)
          /\ GivesUp(w, FALSE)
  /\ UNCHANGED <<rows, chunks, assets, deletion, api, ragUsed>>

\* Faulty variant: a file that a committed row refers to is removed with the new ones.
CleanupAll(w) == files' = files \ worker[w].built
\* _cleanup_uncommitted_assets, with the references read before the build.
Cleanup(w) == files' = files \ (worker[w].built \ worker[w].known)

\* _persist_projection; every way out but its commit removes the new files.
BeginPersist(w) ==
  /\ worker[w].at = "built"
  /\ \/ /\ job.status = "chunking" /\ job.owner = w /\ document.status = "indexing"
        /\ Reads(w, "persisting")
        /\ UNCHANGED files
     \/ /\ job.status = "cancelled"
        /\ Cleanup(w) /\ Goes(w, "idle")
     \/ /\ job.status = "chunking" /\ job.owner = w /\ document.status # "indexing"
        /\ Cleanup(w) /\ GivesUp(w, FALSE)
     \/ /\ job.status # "cancelled"
        /\ ~(job.status = "chunking" /\ job.owner = w)
        /\ Cleanup(w) /\ GivesUp(w, job.status # "none")
  /\ UNCHANGED <<rows, chunks, assets, deletion, api, ragUsed>>

CommitPersist(w) ==
  /\ worker[w].at = "persisting"
  /\ IF job.status = "none"
       THEN /\ Cleanup(w) /\ GivesUp(w, TRUE)
            /\ UNCHANGED <<rows, chunks, assets>>
       ELSE /\ job' = Released(worker[w].job, "embedding")
            /\ document' = Marked(worker[w].document, "indexing")
            /\ chunks' = [rows |-> worker[w].count, vectors |-> 0]
            /\ assets' = worker[w].built
            /\ \E old \in Listings(assets, ListLimit) :
                 worker' = [worker EXCEPT ![w] =
                              Knowing("sweeping", old \ worker[w].built)]
            /\ UNCHANGED files
  /\ UNCHANGED <<deletion, api, ragUsed>>

\* The files that the new projection no longer refers to, after the commit.
Sweep(w) ==
  /\ worker[w].at = "sweeping"
  /\ files' = files \ worker[w].known
  /\ Goes(w, "idle")
  /\ UNCHANGED <<rows, chunks, assets, deletion, api, ragUsed>>

\* _record_failure: not for a cancelled job, nor for one that another owns.  The
\* document is read when the job is written, and in the same transaction.
BeginFailure(w) ==
  /\ worker[w].at = "failing"
  /\ IF job.owner = w /\ job.status \in {"parsing", "chunking", "embedding"}
       THEN Reads(w, "recording")
       ELSE Goes(w, "idle")
  /\ UNCHANGED <<rows, projection, deletion, api, ragUsed>>

CommitFailure(w) ==
  LET read == worker[w].job
      failed == Failed(read, worker[w].retry /\ read.attempts < MaxAttempts)
  IN /\ worker[w].at = "recording"
     /\ Goes(w, "idle")
     /\ IF job.status = "none"
          THEN UNCHANGED rows
          ELSE /\ job' = failed
               /\ document' = IF IsTerminal(failed) THEN MarkedFailed(document) ELSE document
     /\ UNCHANGED <<projection, deletion, api, ragUsed>>

-----------------------------------------------------------------------------
(* The embedding stage: RagEmbeddingService.process_next.                   *)

Embeddable ==
  /\ job.status = "embedding"
  /\ job.owner = NoRagWorker \/ job.lease # "live"

\* claim_embedding, and the chunks to embed, which are listed in the same
\* transaction.  mark_failed raises unless the document is being indexed, which
\* rolls the exhausted job back: then nothing changes.
ClaimEmbedding(w) ==
  /\ worker[w].at = "idle" /\ Embeddable
  /\ \/ /\ job.embeds < MaxEmbeds /\ chunks.rows > 0
        /\ job' = ClaimedToEmbed(job, w)
        /\ worker' = [worker EXCEPT ![w] = Embedding(Listed(chunks.rows))]
        /\ UNCHANGED document
     \/ /\ job.embeds >= MaxEmbeds /\ document.status = "indexing"
        /\ job' = Failed(job, FALSE)
        /\ document' = Marked(document, "failed")
        /\ UNCHANGED worker
  /\ UNCHANGED <<projection, deletion, api, ragUsed>>

EmbedFails(w) ==
  /\ worker[w].at = "embedding"
  /\ \E again \in BOOLEAN : worker' = [worker EXCEPT ![w] = Unembedded(worker[w], again)]
  /\ UNCHANGED <<rows, projection, deletion, api, ragUsed>>

\* _complete: ownership and lease are checked, and mark_ready refuses a
\* document that is not being indexed.
BeginComplete(w) ==
  /\ worker[w].at = "embedding"
  /\ IF /\ job.status = "embedding" /\ job.owner = w /\ job.lease = "live"
        /\ document.status = "indexing"
       THEN Reads(w, "completing")
       ELSE worker' = [worker EXCEPT ![w] = Unembedded(worker[w], TRUE)]
  /\ UNCHANGED <<rows, projection, deletion, api, ragUsed>>

\* mark_embedded refuses when a chunk that was listed has gone; chunks that were
\* not listed stay without a vector.
CommitComplete(w) ==
  /\ worker[w].at = "completing"
  /\ IF job.status = "none" \/ chunks.rows < worker[w].count
       THEN /\ worker' = [worker EXCEPT ![w] = Unembedded(IdleWorker, TRUE)]
            /\ UNCHANGED <<rows, chunks>>
       ELSE /\ job' = Released(worker[w].job, "completed")
            /\ document' = Marked(worker[w].document, "ready")
            /\ chunks' = [chunks EXCEPT !.vectors = worker[w].count]
            /\ Goes(w, "idle")
  /\ UNCHANGED <<assets, files, deletion, api, ragUsed>>

\* _fail: the final failure also calls mark_failed; when that raises, the
\* transaction is rolled back and the job keeps its owner.
BeginEmbedFailure(w) ==
  /\ worker[w].at = "unembedded"
  /\ IF job.status = "embedding" /\ job.owner = w
       THEN Reads(w, "unrecorded")
       ELSE Goes(w, "idle")
  /\ UNCHANGED <<rows, projection, deletion, api, ragUsed>>

CommitEmbedFailure(w) ==
  LET read == worker[w].job
      again == worker[w].retry /\ read.embeds < MaxEmbeds
  IN /\ worker[w].at = "unrecorded"
     /\ Goes(w, "idle")
     /\ IF again
          THEN UNCHANGED document
          ELSE document' = MarkedFailed(document)
     /\ IF job.status # "none" /\ (again \/ document.status = "indexing")
          THEN job' = EmbeddingFailed(read, again)
          ELSE UNCHANGED job
     /\ UNCHANGED <<projection, deletion, api, ragUsed>>

-----------------------------------------------------------------------------
(* The user's requests: RagIngestionCommandService, RagDocumentLifecycle-    *)
(* Service.  The expected version is that of the row the transaction reads;  *)
(* a request with an older one is refused and changes nothing.  It locks     *)
(* nothing: two requests may read the same version, and both commit.         *)

Answered(h) == api' = [api EXCEPT ![h] = IdleApi]

Requests(h, at) ==
  /\ api[h].at = "idle" /\ document.status # "none"
  /\ ragUsed.requests < MaxRequests
  /\ ragUsed' = [ragUsed EXCEPT !.requests = @ + 1]
  /\ api' = [api EXCEPT ![h] = [at |-> at, job |-> job, document |-> document, files |-> {}]]
  /\ UNCHANGED <<rows, projection, deletion, worker>>

Commits(h, at, newJob, newDocument) ==
  /\ api[h].at = at
  /\ IF document.status = "none" THEN UNCHANGED rows
                                 ELSE job' = newJob /\ document' = newDocument
  /\ Answered(h)
  /\ UNCHANGED <<projection, deletion, worker, ragUsed>>

\* What a deletion has left: files to remove, or somebody who still has the rows.
DeletedLeavesTraces ==
  \/ deletion.pending # {}
  \/ \E h \in RagHandlers : api[h].at \in {"deleting", "cleanup"}
  \/ \E w \in RagWorkers : worker[w].at # "idle"

\* enqueue_pdf: a known job is returned as it is, a deleted document may be added
\* again.  EarlyReadd = FALSE assumes that the user waits for the end of the deletion:
\* asked again, it would remove files of the new document, which have the same names.
Enqueue ==
  /\ job.status = "none"
  /\ DeletedLeavesTraces => EarlyReadd
  /\ ragUsed.enqueues < MaxEnqueues
  /\ ragUsed' = [ragUsed EXCEPT !.enqueues = @ + 1]
  /\ job' = [NoJob EXCEPT !.status = "queued"]
  /\ document' = [status |-> "indexing", version |-> 1]
  /\ UNCHANGED <<projection, deletion, worker, api>>

BeginCancel(h) ==
  ~IsTerminal(job) /\ document.status = "indexing" /\ Requests(h, "cancel")
CommitCancel(h) ==
  Commits(h, "cancel", Cancelled(api[h].job), Marked(api[h].document, "failed"))

BeginRestart(h) == document.status # "disabled" /\ Requests(h, "restart")
CommitRestart(h) ==
  Commits(h, "restart", Restarted(api[h].job), Marked(api[h].document, "indexing"))

BeginDisable(h) == IsTerminal(job) /\ document.status = "ready" /\ Requests(h, "disable")
CommitDisable(h) == Commits(h, "disable", job, Marked(api[h].document, "disabled"))

BeginEnable(h) == document.status = "disabled" /\ Requests(h, "enable")
CommitEnable(h) == Commits(h, "enable", job, Marked(api[h].document, "ready"))

\* create_delete_request, whose id is derived from the version of the document.
RequestDeletion ==
  /\ document.status # "none" /\ IsTerminal(job)
  /\ deletion.version # document.version
  /\ ragUsed.requests < MaxRequests
  /\ ragUsed' = [ragUsed EXCEPT !.requests = @ + 1]
  /\ deletion' = [status |-> "pending", version |-> document.version, pending |-> {}]
  /\ UNCHANGED <<rows, projection, worker, api>>

\* The request that a deletion is about to consume is read FOR UPDATE.
RequestLocked ==
  \E h \in RagHandlers :
    api[h].at = "deleting" /\ api[h].document.version = deletion.version

DenyDeletion ==
  /\ deletion.status = "pending" /\ ~RequestLocked
  /\ deletion' = [deletion EXCEPT !.status = "denied"]
  /\ UNCHANGED <<rows, projection, worker, api, ragUsed>>

\* resolve_delete_request, allowed: version and job are looked at, the files are
\* listed; asked again, it only repeats the cleanup.
BeginDelete(h) ==
  /\ api[h].at = "idle" /\ ~RequestLocked
  /\ \/ /\ deletion.status = "pending" /\ document.status # "none"
        /\ document.version = deletion.version /\ IsTerminal(job)
        /\ \E refs \in Listings(assets, DeleteLimit) :
             api' = [api EXCEPT ![h] = [at |-> "deleting", job |-> job,
                                        document |-> document, files |-> refs]]
     \/ /\ deletion.status = "consumed" /\ deletion.pending # {}
        /\ api' = [api EXCEPT ![h] = [IdleApi EXCEPT !.at = "cleanup",
                                                     !.files = deletion.pending]]
  /\ UNCHANGED <<rows, projection, deletion, worker, ragUsed>>

\* All rows go with the document, whatever has become of it; the request keeps the
\* references of the files.  Another deletion may have come first.
CommitDelete(h) ==
  /\ api[h].at = "deleting"
  /\ IF document.status = "none"
       THEN /\ Answered(h)
            /\ UNCHANGED <<rows, chunks, assets, deletion>>
       ELSE /\ deletion' = [status |-> "consumed", version |-> api[h].document.version,
                            pending |-> api[h].files]
            /\ job' = NoJob /\ document' = NoDocument
            /\ chunks' = NoChunks /\ assets' = {}
            /\ api' = [api EXCEPT ![h] = [IdleApi EXCEPT !.at = "cleanup",
                                                         !.files = api[h].files]]
  /\ UNCHANGED <<files, worker, ragUsed>>

\* _cleanup_files and _record_cleanup: references that could not be removed stay.
CleanupFiles(h) ==
  /\ api[h].at = "cleanup"
  /\ \E left \in SUBSET api[h].files :
       /\ ragUsed' = [ragUsed EXCEPT !.faults = IF left = {} THEN @ ELSE @ + 1]
       /\ ragUsed'.faults <= MaxRagFaults
       /\ files' = files \ (api[h].files \ left)
       /\ deletion' = IF deletion.status = "consumed"
                        THEN [deletion EXCEPT !.pending = left]
                        ELSE deletion
  /\ Answered(h)
  /\ UNCHANGED <<rows, chunks, assets, worker>>

-----------------------------------------------------------------------------
(* Time and faults.  A lease that ends has ended in every older copy too.    *)

LeaseEnds ==
  /\ job.lease = "live"
  /\ job' = [job EXCEPT !.lease = "expired"]
  /\ worker' = [w \in RagWorkers |->
       IF worker[w].job.lease = "live" THEN [worker[w] EXCEPT !.job.lease = "expired"]
                                       ELSE worker[w]]
  /\ UNCHANGED <<document, projection, deletion, api, ragUsed>>

\* The transaction of the process, if any, is rolled back; its files stay.
RagCrash ==
  /\ ragUsed.faults < MaxRagFaults
  /\ ragUsed' = [ragUsed EXCEPT !.faults = @ + 1]
  /\ \/ \E w \in RagWorkers : worker[w].at # "idle" /\ Goes(w, "idle") /\ UNCHANGED api
     \/ /\ \E h \in RagHandlers : api[h].at # "idle" /\ Answered(h)
        /\ UNCHANGED worker
  /\ UNCHANGED <<rows, projection, deletion>>

ParseEnds(w) == BeginAdvance(w) \/ ParseFails(w)

\* Every step of RagWorker._run_cycle except the parse itself.
Works(w) ==
  \/ ClaimIngestion(w) \/ CommitRenewal(w) \/ CommitReport(w) \/ CommitAdvance(w)
  \/ BeginChunking(w) \/ CommitChunking(w) \/ Build(w) \/ BeginPersist(w) \/ CommitPersist(w) \/ Sweep(w)
  \/ BeginFailure(w) \/ CommitFailure(w)
  \/ ClaimEmbedding(w) \/ EmbedFails(w) \/ BeginComplete(w) \/ CommitComplete(w)
  \/ BeginEmbedFailure(w) \/ CommitEmbedFailure(w)

Asks(h) ==
  \/ BeginCancel(h) \/ BeginRestart(h) \/ BeginDisable(h) \/ BeginEnable(h) \/ BeginDelete(h)

Commit(h) ==
  \/ CommitCancel(h) \/ CommitRestart(h) \/ CommitDisable(h) \/ CommitEnable(h)
  \/ CommitDelete(h) \/ CleanupFiles(h)

RagNext ==
  \/ \E w \in RagWorkers : Works(w) \/ ParseEnds(w) \/ BeginRenewal(w) \/ BeginReport(w)
  \/ \E h \in RagHandlers : Asks(h) \/ Commit(h)
  \/ Enqueue \/ RequestDeletion \/ DenyDeletion
  \/ LeaseEnds \/ RagCrash

RagFairness ==
  /\ \A w \in RagWorkers : WF_ragVars(Works(w)) /\ SF_ragVars(ParseEnds(w))
  /\ \A h \in RagHandlers : WF_ragVars(Commit(h))
  /\ WF_ragVars(LeaseEnds)

RagSpec == RagInit /\ [][RagNext]_ragVars /\ RagFairness

-----------------------------------------------------------------------------
(* Properties.                                                               *)

JobRecord ==
  [status : JobStatus, attempts : 0..MaxAttempts, embeds : 0..MaxEmbeds,
   owner : RagWorkers \cup {NoRagWorker}, lease : {"none", "live", "expired"},
   retry : BOOLEAN]
DocumentRecord == [status : DocumentStatus, version : Nat]

WorkerRecord ==
  [at : {"idle", "parsing", "renewing", "reporting", "advancing", "chunking", "chunked",
         "building", "built", "persisting", "sweeping", "failing", "recording",
         "embedding", "completing", "unembedded", "unrecorded"},
   job : JobRecord, document : DocumentRecord,
   built : SUBSET Assets, known : SUBSET Assets, count : 0..MaxChunks, retry : BOOLEAN]
ApiRecord ==
  [at : {"idle", "cancel", "restart", "disable", "enable", "deleting", "cleanup"},
   job : JobRecord, document : DocumentRecord, files : SUBSET Assets]

RagTypeOK ==
  /\ job \in JobRecord /\ document \in DocumentRecord
  /\ chunks \in [rows : 0..MaxChunks, vectors : 0..MaxChunks]
  /\ assets \subseteq Assets /\ files \subseteq Assets
  /\ deletion \in [status : {"none", "pending", "consumed", "denied"},
                   version : Nat, pending : SUBSET Assets]
  /\ worker \in [RagWorkers -> WorkerRecord] /\ api \in [RagHandlers -> ApiRecord]
  /\ ragUsed \in [requests : 0..MaxRequests, enqueues : 0..MaxEnqueues,
                  faults : 0..MaxRagFaults]

\* What retrieval may serve, whatever requests overlap and whatever is cancelled,
\* restarted, cleaned up or deleted on the way: a completed job has left chunks, and
\* the first ListLimit of them have vectors; the images that the rows refer to are
\* in the store, as long as they are not more than the cleanup lists.  Of a longer
\* document neither the other chunks nor the other images are promised
\* (embedding/service.py:88, ingestion/service.py:787, :945).
ReadyIsServable ==
  /\ job.status = "completed" => chunks.rows > 0 /\ chunks.vectors = Listed(chunks.rows)
  /\ Cardinality(assets) <= ListLimit => assets \subseteq files

\* A document that is being indexed has a job that can still end: nobody waits
\* for a job that is over (ingestion/service.py:618, :1044).
IndexingHasJob == document.status = "indexing" => ~IsTerminal(job)

\* A document leaves "indexing" once the user stops asking: crashes and errors end
\* in a retry or in a failure, and requests that overlap leave a job that goes on
\* (docs/05-agent-runtime-design.md:1031).
IndexingEnds == document.status = "indexing" ~> document.status # "indexing"

\* The same for every job, whatever the user does (contracts.py:288: a job has a
\* definite end).
JobEnds == ~IsTerminal(job) ~> IsTerminal(job)
=============================================================================
