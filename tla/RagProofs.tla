------------------------------ MODULE RagProofs ------------------------------
(***************************************************************************)
(* Theorems about the document library: RagJob, for any number of workers, *)
(* assets, attempts, requests and crashes; Uploads, for any number of      *)
(* uploaders, names, attempts and faults.  The two share no state: the job *)
(* that an upload queues is the one that RagJob begins with.               *)
(***************************************************************************)
EXTENDS RagJob, Uploads, TLAPS

\* A copy that a worker writes back as it is was taken while the job ran.
CopiesRun ==
  \A w \in RagWorkers :
    worker[w].at \in {"renewing", "reporting", "chunked"} =>
      worker[w].job.status \in {"parsing", "chunking"}

RagInv == RagTypeOK /\ IndexingHasJob /\ CopiesRun

-----------------------------------------------------------------------------
\* What the helpers of contracts.py make of a job or a document is a row again.
LEMMA JobsAreRows ==
  ASSUME NEW j \in JobRecord, NEW s \in JobStatus, NEW b \in BOOLEAN
  PROVE  /\ Released(j, s) \in JobRecord /\ Failed(j, b) \in JobRecord
         /\ EmbeddingFailed(j, b) \in JobRecord /\ Cancelled(j) \in JobRecord
         /\ Restarted(j) \in JobRecord /\ NoJob \in JobRecord
<1>1. \A t \in JobStatus : Released(j, t) \in JobRecord
  BY DEF JobRecord, Released
<1>2. \A t \in JobStatus, r \in BOOLEAN : [Released(j, t) EXCEPT !.retry = r] \in JobRecord
  BY <1>1 DEF JobRecord
<1>3. {"failed", "embedding", "cancelled", "queued", "none"} \subseteq JobStatus
  BY DEF JobStatus
<1>4. Failed(j, b) \in JobRecord /\ Cancelled(j) \in JobRecord
  BY <1>2, <1>3 DEF Failed, Cancelled
<1>5. EmbeddingFailed(j, b) \in JobRecord
  BY <1>2, <1>3 DEF EmbeddingFailed
<1>6. NoJob \in JobRecord
  BY <1>3, RagAssumption DEF JobRecord, NoJob
<1>7. Restarted(j) \in JobRecord
  BY <1>3, <1>6 DEF JobRecord, Restarted
<1>8. QED
  BY <1>1, <1>4, <1>5, <1>6, <1>7

\* A claim adds one attempt, and only within the budget (claim_next, claim_embedding).
LEMMA ClaimsAreRows ==
  ASSUME NEW j \in JobRecord, NEW w \in RagWorkers
  PROVE  /\ j.attempts < MaxAttempts => Claimed(j, w) \in JobRecord
         /\ j.embeds < MaxEmbeds => ClaimedToEmbed(j, w) \in JobRecord
<1>1. "parsing" \in JobStatus
  BY DEF JobStatus
<1>2. ASSUME j.attempts < MaxAttempts PROVE Claimed(j, w) \in JobRecord
  <2>1. j.attempts + 1 \in 0..MaxAttempts
    BY <1>2, RagAssumption DEF JobRecord
  <2>2. QED  BY <1>1, <2>1 DEF JobRecord, Claimed
<1>3. ASSUME j.embeds < MaxEmbeds PROVE ClaimedToEmbed(j, w) \in JobRecord
  <2>1. j.embeds + 1 \in 0..MaxEmbeds
    BY <1>3, RagAssumption DEF JobRecord
  <2>2. QED  BY <2>1 DEF JobRecord, ClaimedToEmbed
<1>4. QED
  BY <1>2, <1>3

\* The same for documents (mark_failed, mark_ready, begin_indexing).
LEMMA DocumentsAreRows ==
  ASSUME NEW d \in DocumentRecord, NEW s \in DocumentStatus
  PROVE  /\ Marked(d, s) \in DocumentRecord /\ MarkedFailed(d) \in DocumentRecord
         /\ NoDocument \in DocumentRecord
  BY DEF DocumentRecord, DocumentStatus, Marked, MarkedFailed, NoDocument

\* What list_by_document returns is among the rows: all of them, unless they are
\* more than its limit.
LEMMA ListingsAreRows ==
  ASSUME NEW s, NEW limit, NEW t \in Listings(s, limit)
  PROVE  t \subseteq s /\ (Cardinality(s) <= limit => t = s)
  BY DEF Listings

\* The chunks that are listed: some, when there are any, and never too many.
LEMMA ListedChunks ==
  ASSUME NEW n \in 0..MaxChunks
  PROVE  Listed(n) \in 0..n /\ Listed(n) \in 0..MaxChunks /\ (n > 0 => Listed(n) > 0)
  BY RagAssumption DEF Listed

\* The same for what a worker remembers of a build and of an error.
LEMMA BuildsAreRows ==
  ASSUME NEW r \in WorkerRecord, NEW built \in SUBSET Assets, NEW n \in 1..MaxChunks
  PROVE  Built(r, built, n) \in WorkerRecord
<1>1. n \in 0..MaxChunks
  BY RagAssumption
<1>2. QED
  BY <1>1 DEF WorkerRecord, Built
LEMMA ErrorsAreRows ==
  ASSUME NEW r \in WorkerRecord, NEW again \in BOOLEAN
  PROVE  Unembedded(r, again) \in WorkerRecord /\ Unembedded(r, again).at = "unembedded"
  BY DEF WorkerRecord, Unembedded

\* A worker that goes somewhere, gives up or reads the rows has a proper memory.
LEMMA WorkersAreRows ==
  ASSUME RagTypeOK, NEW w \in RagWorkers
  PROVE  /\ \A at \in {"idle", "parsing", "chunking"} :
              Goes(w, at) => worker' \in [RagWorkers -> WorkerRecord]
         /\ \A b \in BOOLEAN : GivesUp(w, b) => worker' \in [RagWorkers -> WorkerRecord]
         /\ \A at \in {"renewing", "reporting", "advancing", "chunked", "persisting",
                       "recording", "completing", "unrecorded"} :
              Reads(w, at) => worker' \in [RagWorkers -> WorkerRecord]
<1>1. NoJob \in JobRecord
  BY RagAssumption DEF JobRecord, JobStatus, NoJob
<1>2. NoDocument \in DocumentRecord
  BY DEF DocumentRecord, DocumentStatus, NoDocument
<1>3. IdleWorker \in WorkerRecord
  BY <1>1, <1>2, RagAssumption DEF IdleWorker, WorkerRecord
<1> USE <1>3 DEF RagTypeOK, WorkerRecord
<1>4. ASSUME NEW at \in {"idle", "parsing", "chunking"}, Goes(w, at)
      PROVE worker' \in [RagWorkers -> WorkerRecord]
  BY <1>4 DEF Goes
<1>5. ASSUME NEW b \in BOOLEAN, GivesUp(w, b)
      PROVE worker' \in [RagWorkers -> WorkerRecord]
  BY <1>5 DEF GivesUp
<1>6. ASSUME NEW at \in {"renewing", "reporting", "advancing", "chunked", "persisting",
                        "recording", "completing", "unrecorded"}, Reads(w, at)
      PROVE worker' \in [RagWorkers -> WorkerRecord]
  <2> DEFINE r == [worker[w] EXCEPT !.at = at, !.job = job, !.document = document]
  <2>1. worker[w] \in WorkerRecord
    OBVIOUS
  <2>2. r \in WorkerRecord
    BY <2>1
  <2>3. worker' = [worker EXCEPT ![w] = r]
    BY <1>6 DEF Reads
  <2> HIDE DEF r
  <2>4. QED
    BY <2>2, <2>3
<1>7. QED
  BY <1>4, <1>5, <1>6

-----------------------------------------------------------------------------
\* The statuses that the code writes.
LEMMA StatusNames ==
  /\ {"none", "queued", "parsing", "chunking", "embedding", "completed", "failed",
      "cancelled"} = JobStatus
  /\ {"none", "indexing", "ready", "failed", "disabled"} = DocumentStatus
  BY DEF JobStatus, DocumentStatus

\* The fields of a worker's memory.
LEMMA WorkerFields ==
  ASSUME RagTypeOK, NEW w \in RagWorkers
  PROVE  /\ worker[w].job \in JobRecord /\ worker[w].document \in DocumentRecord
         /\ worker[w].built \subseteq Assets /\ worker[w].known \subseteq Assets
         /\ worker[w].count \in 0..MaxChunks /\ worker[w].retry \in BOOLEAN
  BY DEF RagTypeOK, WorkerRecord

\* What an idle worker remembers when it goes on from there.
LEMMA FreshMemories ==
  ASSUME NEW s \in SUBSET Assets, NEW n \in 0..MaxChunks
  PROVE  /\ Knowing("building", s) \in WorkerRecord
         /\ Knowing("sweeping", s) \in WorkerRecord
         /\ Embedding(n) \in WorkerRecord
         /\ IdleWorker \in WorkerRecord
<1>1. NoJob \in JobRecord /\ NoDocument \in DocumentRecord
  BY RagAssumption
     DEF JobRecord, JobStatus, NoJob, DocumentRecord, DocumentStatus, NoDocument
<1>2. IdleWorker \in WorkerRecord
  BY <1>1, RagAssumption DEF IdleWorker, WorkerRecord
<1>3. QED
  BY <1>2 DEF WorkerRecord, Knowing, Embedding

\* The fields that are set in each case.
LEMMA MemoryFields ==
  ASSUME NEW at, NEW s, NEW n, NEW r \in WorkerRecord
  PROVE  /\ Knowing(at, s).at = at /\ Knowing(at, s).known = s
         /\ Embedding(n).at = "embedding" /\ Embedding(n).count = n
         /\ Built(r, s, n).at = "built" /\ Built(r, s, n).built = s
         /\ Built(r, s, n).known = r.known
<1>1. Knowing(at, s).at = at /\ Knowing(at, s).known = s
  BY DEF Knowing, IdleWorker
<1>2. Embedding(n).at = "embedding" /\ Embedding(n).count = n
  BY DEF Embedding, IdleWorker
<1>3. /\ Built(r, s, n).at = "built" /\ Built(r, s, n).built = s
      /\ Built(r, s, n).known = r.known
  BY DEF Built, WorkerRecord
<1>4. QED
  BY <1>1, <1>2, <1>3

\* Types are preserved by what a worker does with an ingestion job
\* (RagIngestionService.process_next).
LEMMA IngestTypes ==
  ASSUME RagTypeOK, NEW w \in RagWorkers,
         \/ ClaimIngestion(w) \/ BeginRenewal(w) \/ CommitRenewal(w)
         \/ BeginReport(w) \/ CommitReport(w) \/ ParseFails(w)
         \/ BeginAdvance(w) \/ CommitAdvance(w) \/ BeginChunking(w)
         \/ CommitChunking(w) \/ Build(w) \/ BeginPersist(w) \/ CommitPersist(w)
         \/ Sweep(w) \/ BeginFailure(w) \/ CommitFailure(w)
  PROVE  RagTypeOK'
<1> USE WorkersAreRows, WorkerFields, StatusNames
    DEF RagTypeOK, rows, projection
<1>1. CASE ClaimIngestion(w)
  <2>1. job.attempts < MaxAttempts => Claimed(job, w) \in JobRecord
    BY ClaimsAreRows
  <2>2. Failed(job, FALSE) \in JobRecord /\ MarkedFailed(document) \in DocumentRecord
    BY JobsAreRows, DocumentsAreRows
  <2>3. ~Spent => job.attempts < MaxAttempts
    BY RagAssumption DEF Spent, JobRecord
  <2>4. QED  BY <1>1, <2>1, <2>2, <2>3 DEF ClaimIngestion
<1>2. CASE BeginRenewal(w)
  BY <1>2 DEF BeginRenewal
<1>3. CASE CommitRenewal(w)
  <2>1. [worker[w].job EXCEPT !.lease = "live"] \in JobRecord
    BY DEF JobRecord
  <2>2. QED  BY <1>3, <2>1 DEF CommitRenewal
<1>4. CASE BeginReport(w)
  BY <1>4 DEF BeginReport
<1>5. CASE CommitReport(w)
  BY <1>5 DEF CommitReport
<1>6. CASE ParseFails(w)
  BY <1>6 DEF ParseFails
<1>7. CASE BeginAdvance(w)
  BY <1>7 DEF BeginAdvance
<1>8. CASE CommitAdvance(w)
  <2>1. [worker[w].job EXCEPT !.status = "chunking"] \in JobRecord
    BY DEF JobRecord
  <2>2. QED  BY <1>8, <2>1 DEF CommitAdvance
<1>9. CASE BeginChunking(w)
  BY <1>9 DEF BeginChunking
<1>10. CASE CommitChunking(w)
  <2>1. ASSUME NEW known \in Listings(assets, ListLimit),
               worker' = [worker EXCEPT ![w] = Knowing("building", known)]
        PROVE  worker' \in [RagWorkers -> WorkerRecord]
    <3>1. Knowing("building", known) \in WorkerRecord
      BY FreshMemories, ListingsAreRows, RagAssumption
    <3>2. QED  BY <2>1, <3>1
  <2>2. worker' \in [RagWorkers -> WorkerRecord]
    <3>1. GivesUp(w, TRUE) \/ \E known \in Listings(assets, ListLimit) :
            worker' = [worker EXCEPT ![w] = Knowing("building", known)]
      BY <1>10 DEF CommitChunking
    <3>2. QED  BY <2>1, <3>1
  <2>3. QED  BY <1>10, <2>2 DEF CommitChunking
<1>11. CASE Build(w)
  <2>1. \A built \in SUBSET Assets, n \in 1..MaxChunks :
          Built(worker[w], built, n) \in WorkerRecord
    <3>1. worker[w] \in WorkerRecord
      OBVIOUS
    <3>2. QED  BY <3>1, BuildsAreRows
  <2>2. CASE \E built \in SUBSET Assets, n \in 1..MaxChunks :
               /\ files' = files \cup built
               /\ worker' = [worker EXCEPT ![w] = Built(worker[w], built, n)]
    <3>1. worker' \in [RagWorkers -> WorkerRecord] /\ files' \subseteq Assets
      BY <2>1, <2>2
    <3>2. QED  BY <1>11, <3>1 DEF Build
  <2>3. CASE \E built \in SUBSET Assets :
               /\ files' = (files \cup built) \ (built \ worker[w].known)
               /\ GivesUp(w, FALSE)
    <3>1. worker' \in [RagWorkers -> WorkerRecord] /\ files' \subseteq Assets
      BY <2>3
    <3>2. QED  BY <1>11, <3>1 DEF Build
  <2>4. QED  BY <1>11, <2>2, <2>3 DEF Build
<1>12. CASE BeginPersist(w)
  BY <1>12 DEF BeginPersist, Cleanup
<1>13. CASE CommitPersist(w)
  <2>1. /\ Released(worker[w].job, "embedding") \in JobRecord
        /\ Marked(worker[w].document, "indexing") \in DocumentRecord
    BY JobsAreRows, DocumentsAreRows
  <2>2. \A old \in Listings(assets, ListLimit) :
          Knowing("sweeping", old \ worker[w].built) \in WorkerRecord
    <3>1. ASSUME NEW old \in Listings(assets, ListLimit)
          PROVE  Knowing("sweeping", old \ worker[w].built) \in WorkerRecord
      <4>1. old \ worker[w].built \in SUBSET Assets
        BY ListingsAreRows
      <4>2. QED  BY <4>1, FreshMemories, RagAssumption
    <3>2. QED  BY <3>1
  <2>3. CASE job.status = "none"
    BY <1>13, <2>3 DEF CommitPersist, Cleanup
  <2>4. CASE job.status # "none"
    <3>1. worker' \in [RagWorkers -> WorkerRecord]
      <4>1. PICK old \in Listings(assets, ListLimit) :
              worker' = [worker EXCEPT ![w] = Knowing("sweeping", old \ worker[w].built)]
        BY <1>13, <2>4 DEF CommitPersist
      <4>2. QED  BY <2>2, <4>1
    <3>2. [rows |-> worker[w].count, vectors |-> 0]
            \in [rows : 0..MaxChunks, vectors : 0..MaxChunks]
      BY RagAssumption
    <3>3. QED  BY <1>13, <2>1, <2>4, <3>1, <3>2 DEF CommitPersist
  <2>5. QED  BY <2>3, <2>4
<1>14. CASE Sweep(w)
  BY <1>14 DEF Sweep
<1>15. CASE BeginFailure(w)
  BY <1>15 DEF BeginFailure
<1>16. CASE CommitFailure(w)
  <2> DEFINE again == worker[w].retry /\ worker[w].job.attempts < MaxAttempts
  <2>1. again \in BOOLEAN
    OBVIOUS
  <2>2. Failed(worker[w].job, again) \in JobRecord
    BY <2>1, JobsAreRows
  <2>3. MarkedFailed(document) \in DocumentRecord
    BY DocumentsAreRows
  <2>4. /\ job' \in {job, Failed(worker[w].job, again)}
        /\ document' \in {document, MarkedFailed(document)}
        /\ Goes(w, "idle") /\ UNCHANGED <<projection, deletion, api, ragUsed>>
    BY <1>16 DEF CommitFailure
  <2> HIDE DEF again
  <2>5. QED  BY <2>2, <2>3, <2>4
<1>17. QED
  BY <1>1, <1>2, <1>3, <1>4, <1>5, <1>6, <1>7, <1>8, <1>9, <1>10, <1>11,
     <1>12, <1>13, <1>14, <1>15, <1>16

\* Types are preserved by what a worker does with an embedding job
\* (RagEmbeddingService.process_next).
LEMMA EmbedTypes ==
  ASSUME RagTypeOK, NEW w \in RagWorkers,
         \/ ClaimEmbedding(w) \/ EmbedFails(w) \/ BeginComplete(w) \/ CommitComplete(w)
         \/ BeginEmbedFailure(w) \/ CommitEmbedFailure(w)
  PROVE  RagTypeOK'
<1> USE WorkersAreRows, WorkerFields, StatusNames
    DEF RagTypeOK, rows, projection
<1>1. CASE ClaimEmbedding(w)
  <2>1. job.embeds < MaxEmbeds => ClaimedToEmbed(job, w) \in JobRecord
    BY ClaimsAreRows
  <2>2. Failed(job, FALSE) \in JobRecord /\ Marked(document, "failed") \in DocumentRecord
    BY JobsAreRows, DocumentsAreRows
  <2>3. Embedding(Listed(chunks.rows)) \in WorkerRecord
    <3>1. chunks.rows \in 0..MaxChunks /\ {} \in SUBSET Assets
      OBVIOUS
    <3>2. Listed(chunks.rows) \in 0..MaxChunks
      BY <3>1, ListedChunks
    <3>3. Embedding(Listed(chunks.rows)) \in WorkerRecord
      BY <3>1, <3>2, FreshMemories
    <3>4. QED  BY <3>3
  <2>4. worker' \in [RagWorkers -> WorkerRecord]
    <3>1. \/ UNCHANGED worker
          \/ worker' = [worker EXCEPT ![w] = Embedding(Listed(chunks.rows))]
      BY <1>1 DEF ClaimEmbedding
    <3>2. QED  BY <2>3, <3>1
  <2>5. job' \in JobRecord /\ document' \in DocumentRecord
    BY <1>1, <2>1, <2>2 DEF ClaimEmbedding
  <2>6. UNCHANGED <<projection, deletion, api, ragUsed>>
    BY <1>1 DEF ClaimEmbedding
  <2>7. QED  BY <2>4, <2>5, <2>6
<1>2. CASE EmbedFails(w)
  <2>1. \A again \in BOOLEAN : Unembedded(worker[w], again) \in WorkerRecord
    BY ErrorsAreRows
  <2>2. PICK again \in BOOLEAN : worker' = [worker EXCEPT ![w] = Unembedded(worker[w], again)]
    BY <1>2 DEF EmbedFails
  <2>3. worker' \in [RagWorkers -> WorkerRecord]
    BY <2>1, <2>2
  <2>4. QED  BY <1>2, <2>3 DEF EmbedFails
<1>3. CASE BeginComplete(w)
  <2>1. Unembedded(worker[w], TRUE) \in WorkerRecord
    BY ErrorsAreRows
  <2>2. worker' \in [RagWorkers -> WorkerRecord]
    <3>1. CASE Reads(w, "completing")
      BY <3>1
    <3>2. CASE worker' = [worker EXCEPT ![w] = Unembedded(worker[w], TRUE)]
      BY <2>1, <3>2
    <3>3. QED  BY <1>3, <3>1, <3>2 DEF BeginComplete
  <2>3. QED  BY <1>3, <2>2 DEF BeginComplete
<1>4. CASE CommitComplete(w)
  <2>1. /\ Released(worker[w].job, "completed") \in JobRecord
        /\ Marked(worker[w].document, "ready") \in DocumentRecord
    BY JobsAreRows, DocumentsAreRows
  <2>2. Unembedded(IdleWorker, TRUE) \in WorkerRecord
    <3>1. IdleWorker \in WorkerRecord
      BY FreshMemories, RagAssumption
    <3>2. QED  BY <3>1, ErrorsAreRows
  <2>3. [chunks EXCEPT !.vectors = worker[w].count]
          \in [rows : 0..MaxChunks, vectors : 0..MaxChunks]
    OBVIOUS
  <2>4. QED  BY <1>4, <2>1, <2>2, <2>3 DEF CommitComplete
<1>5. CASE BeginEmbedFailure(w)
  BY <1>5 DEF BeginEmbedFailure
<1>6. CASE CommitEmbedFailure(w)
  <2> DEFINE again == worker[w].retry /\ worker[w].job.embeds < MaxEmbeds
  <2>1. again \in BOOLEAN
    OBVIOUS
  <2>2. EmbeddingFailed(worker[w].job, again) \in JobRecord
    BY <2>1, JobsAreRows
  <2>3. MarkedFailed(document) \in DocumentRecord
    BY DocumentsAreRows
  <2>4. /\ job' \in {job, EmbeddingFailed(worker[w].job, again)}
        /\ document' \in {document, MarkedFailed(document)}
        /\ Goes(w, "idle") /\ UNCHANGED <<projection, deletion, api, ragUsed>>
    BY <1>6 DEF CommitEmbedFailure
  <2> HIDE DEF again
  <2>5. QED  BY <2>2, <2>3, <2>4
<1>7. QED
  BY <1>1, <1>2, <1>3, <1>4, <1>5, <1>6

\* Types are preserved by the requests of the user (RagIngestionCommandService,
\* RagDocumentLifecycleService), by time and by crashes.
LEMMA RequestTypes ==
  ASSUME RagTypeOK,
         \/ Enqueue \/ RequestDeletion \/ DenyDeletion \/ LeaseEnds \/ RagCrash
         \/ \E h \in RagHandlers : Asks(h) \/ Commit(h)
  PROVE  RagTypeOK'
<1> USE StatusNames, RagAssumption DEF RagTypeOK, rows, projection
<1>1. NoJob \in JobRecord /\ NoDocument \in DocumentRecord /\ IdleApi \in ApiRecord
  BY JobsAreRows, DocumentsAreRows DEF IdleApi, ApiRecord
<1>2. ASSUME NEW h \in RagHandlers, Answered(h) PROVE api' \in [RagHandlers -> ApiRecord]
  BY <1>1, <1>2 DEF Answered
<1>3. ASSUME NEW h \in RagHandlers,
             NEW at \in {"cancel", "restart", "disable", "enable"}, Requests(h, at)
      PROVE RagTypeOK'
  <2>1. [at |-> at, job |-> job, document |-> document, files |-> {}] \in ApiRecord
    BY DEF ApiRecord
  <2>2. QED  BY <1>3, <2>1 DEF Requests
<1>4. ASSUME NEW h \in RagHandlers, NEW at, NEW j \in JobRecord, NEW d \in DocumentRecord,
             Commits(h, at, j, d)
      PROVE RagTypeOK'
  BY <1>2, <1>4 DEF Commits
<1>5. ASSUME NEW h \in RagHandlers, Commit(h) PROVE RagTypeOK'
  <2>1. api[h].job \in JobRecord /\ api[h].document \in DocumentRecord
          /\ api[h].files \subseteq Assets
    BY DEF ApiRecord
  <2>2. [IdleApi EXCEPT !.at = "cleanup", !.files = api[h].files] \in ApiRecord
    BY <1>1, <2>1 DEF ApiRecord
  <2>3. CASE CommitCancel(h) \/ CommitRestart(h) \/ CommitDisable(h) \/ CommitEnable(h)
    <3>1. /\ Cancelled(api[h].job) \in JobRecord /\ Restarted(api[h].job) \in JobRecord
          /\ \A s \in DocumentStatus : Marked(api[h].document, s) \in DocumentRecord
      BY <2>1, JobsAreRows, DocumentsAreRows
    <3>2. QED
      BY <1>4, <2>3, <3>1 DEF CommitCancel, CommitRestart, CommitDisable, CommitEnable
  <2>4. CASE CommitDelete(h)
    <3>1. NoChunks \in [rows : 0..MaxChunks, vectors : 0..MaxChunks]
      BY DEF NoChunks
    <3>2. api' \in [RagHandlers -> ApiRecord]
      BY <1>2, <2>2, <2>4 DEF CommitDelete
    <3>3. [status |-> "consumed", version |-> api[h].document.version,
           pending |-> api[h].files]
            \in [status : {"none", "pending", "consumed", "denied"},
                 version : Nat, pending : SUBSET Assets]
      BY <2>1 DEF DocumentRecord
    <3>4. QED  BY <1>1, <2>4, <3>1, <3>2, <3>3 DEF CommitDelete
  <2>5. CASE CleanupFiles(h)
    <3>1. PICK left \in SUBSET api[h].files :
            /\ ragUsed' = [ragUsed EXCEPT !.faults = IF left = {} THEN @ ELSE @ + 1]
            /\ ragUsed'.faults <= MaxRagFaults
            /\ files' = files \ (api[h].files \ left)
            /\ deletion' = IF deletion.status = "consumed"
                             THEN [deletion EXCEPT !.pending = left]
                             ELSE deletion
      BY <2>5 DEF CleanupFiles
    <3>2. /\ files' \subseteq Assets
          /\ deletion' \in [status : {"none", "pending", "consumed", "denied"},
                            version : Nat, pending : SUBSET Assets]
      BY <2>1, <3>1
    <3>3. ragUsed' \in [requests : 0..MaxRequests, enqueues : 0..MaxEnqueues,
                        faults : 0..MaxRagFaults]
      BY <3>1
    <3>4. QED  BY <1>2, <2>5, <3>2, <3>3 DEF CleanupFiles
  <2>6. QED  BY <1>5, <2>3, <2>4, <2>5 DEF Commit
<1>6. ASSUME NEW h \in RagHandlers, BeginDelete(h) PROVE RagTypeOK'
  <2>1. \A refs \in Listings(assets, DeleteLimit) :
          [at |-> "deleting", job |-> job, document |-> document, files |-> refs] \in ApiRecord
    BY ListingsAreRows DEF ApiRecord
  <2>2. [IdleApi EXCEPT !.at = "cleanup", !.files = deletion.pending] \in ApiRecord
    BY <1>1 DEF ApiRecord
  <2>3. api' \in [RagHandlers -> ApiRecord]
    BY <1>6, <2>1, <2>2 DEF BeginDelete
  <2>4. QED  BY <1>6, <2>3 DEF BeginDelete
<1>7. ASSUME NEW h \in RagHandlers, Asks(h) PROVE RagTypeOK'
  BY <1>3, <1>6, <1>7 DEF Asks, BeginCancel, BeginRestart, BeginDisable, BeginEnable
<1>8. CASE Enqueue
  <2>1. /\ [NoJob EXCEPT !.status = "queued"] \in JobRecord
        /\ [status |-> "indexing", version |-> 1] \in DocumentRecord
    BY <1>1 DEF JobRecord, DocumentRecord
  <2>2. QED  BY <1>8, <2>1 DEF Enqueue
<1>9. CASE RequestDeletion
  BY <1>9 DEF RequestDeletion, DocumentRecord
<1>10. CASE DenyDeletion
  BY <1>10 DEF DenyDeletion
<1>11. CASE LeaseEnds
  <2>1. \A j \in JobRecord : [j EXCEPT !.lease = "expired"] \in JobRecord
    BY DEF JobRecord
  <2>2. \A r \in WorkerRecord : [r EXCEPT !.job.lease = "expired"] \in WorkerRecord
    BY <2>1 DEF WorkerRecord
  <2>3. job' \in JobRecord /\ worker' \in [RagWorkers -> WorkerRecord]
    BY <1>11, <2>1, <2>2 DEF LeaseEnds
  <2>4. QED  BY <1>11, <2>3 DEF LeaseEnds
<1>12. CASE RagCrash
  <2>1. worker' \in [RagWorkers -> WorkerRecord] /\ api' \in [RagHandlers -> ApiRecord]
    BY <1>2, <1>12, WorkersAreRows DEF RagCrash
  <2>2. QED  BY <1>12, <2>1 DEF RagCrash
<1>13. QED
  BY <1>5, <1>7, <1>8, <1>9, <1>10, <1>11, <1>12

\* Types are preserved by every step.
LEMMA RagTypeStep == RagTypeOK /\ [RagNext]_ragVars => RagTypeOK'
<1> SUFFICES ASSUME RagTypeOK, [RagNext]_ragVars PROVE RagTypeOK'
  OBVIOUS
<1>1. CASE UNCHANGED ragVars
  BY <1>1 DEF ragVars, RagTypeOK
<1>2. CASE RagNext
  <2>1. CASE \E w \in RagWorkers : \/ Works(w) \/ ParseEnds(w)
                                   \/ BeginRenewal(w) \/ BeginReport(w)
    BY <2>1, IngestTypes, EmbedTypes DEF Works, ParseEnds
  <2>2. CASE \/ Enqueue \/ RequestDeletion \/ DenyDeletion \/ LeaseEnds \/ RagCrash
             \/ \E h \in RagHandlers : Asks(h) \/ Commit(h)
    BY <2>2, RequestTypes
  <2>3. QED  BY <1>2, <2>1, <2>2 DEF RagNext
<1>3. QED
  BY <1>1, <1>2

-----------------------------------------------------------------------------
\* Whatever a worker does, a document it leaves indexing has a job to end it.
LEMMA WorkerKeepsJob ==
  ASSUME RagInv, NEW w \in RagWorkers, Works(w) \/ ParseEnds(w)
                                      \/ BeginRenewal(w) \/ BeginReport(w)
  PROVE  IndexingHasJob'
<1> USE DEF RagInv, IndexingHasJob, IsTerminal, rows
<1>1. CASE ClaimIngestion(w)
  <2>1. Claimed(job, w).status = "parsing"
    BY DEF Claimed, RagTypeOK, JobRecord
  <2>2. MarkedFailed(document).status # "indexing"
    BY DEF MarkedFailed, Marked
  <2>3. QED  BY <1>1, <2>1, <2>2 DEF ClaimIngestion
<1>2. CASE CommitRenewal(w) \/ CommitReport(w) \/ CommitChunking(w)
  <2>1. worker[w].job \in JobRecord /\ worker[w].job.status \in {"parsing", "chunking"}
    BY <1>2, WorkerFields DEF CommitRenewal, CommitReport, CommitChunking, CopiesRun
  <2>2. QED
    BY <1>2, <2>1 DEF CommitRenewal, CommitReport, CommitChunking, JobRecord
<1>3. CASE CommitAdvance(w)
  BY <1>3, WorkerFields DEF CommitAdvance, JobRecord
<1>4. CASE CommitPersist(w)
  <2>1. Released(worker[w].job, "embedding").status = "embedding"
    BY WorkerFields DEF Released, JobRecord
  <2>2. UNCHANGED rows \/ job' = Released(worker[w].job, "embedding")
    BY <1>4 DEF CommitPersist
  <2>3. QED  BY <2>1, <2>2
<1>5. CASE CommitFailure(w)
  <2>1. MarkedFailed(document).status # "indexing"
    BY DEF MarkedFailed, Marked
  <2>2. QED  BY <1>5, <2>1 DEF CommitFailure
<1>6. CASE ClaimEmbedding(w)
  <2>1. ClaimedToEmbed(job, w).status = job.status
    BY DEF ClaimedToEmbed, RagTypeOK, JobRecord
  <2>2. Marked(document, "failed").status # "indexing"
    BY DEF Marked
  <2>3. job.status = "embedding"
    BY <1>6 DEF ClaimEmbedding, Embeddable
  <2>4. \/ job' = ClaimedToEmbed(job, w)
        \/ document' = Marked(document, "failed")
    BY <1>6 DEF ClaimEmbedding
  <2>5. QED  BY <2>1, <2>2, <2>3, <2>4
<1>7. CASE CommitComplete(w)
  <2>1. Marked(worker[w].document, "ready").status = "ready"
    BY DEF Marked
  <2>2. UNCHANGED rows \/ document' = Marked(worker[w].document, "ready")
    BY <1>7 DEF CommitComplete
  <2>3. QED  BY <2>1, <2>2
<1>8. CASE CommitEmbedFailure(w)
  <2> DEFINE again == worker[w].retry /\ worker[w].job.embeds < MaxEmbeds
  <2>1. MarkedFailed(document).status # "indexing"
    BY DEF MarkedFailed, Marked
  <2>2. CASE again
    <3>1. EmbeddingFailed(worker[w].job, again).status = "embedding"
      BY <2>2, WorkerFields DEF EmbeddingFailed, Released, JobRecord
    <3>2. QED  BY <1>8, <2>2, <3>1 DEF CommitEmbedFailure
  <2>3. CASE ~again
    BY <1>8, <2>1, <2>3 DEF CommitEmbedFailure
  <2>4. QED  BY <2>2, <2>3
<1>9. CASE UNCHANGED rows
  BY <1>9
<1>10. QED
  BY <1>1, <1>2, <1>3, <1>4, <1>5, <1>6, <1>7, <1>8, <1>9
     DEF Works, ParseEnds, BeginRenewal, BeginReport, ParseFails, BeginAdvance,
         BeginChunking, Build, BeginPersist, Sweep, BeginFailure, EmbedFails,
         BeginComplete, BeginEmbedFailure

\* The same for the requests of the user, time and crashes.
LEMMA RequestKeepsJob ==
  ASSUME RagInv,
         \/ Enqueue \/ RequestDeletion \/ DenyDeletion \/ LeaseEnds \/ RagCrash
         \/ \E h \in RagHandlers : Asks(h) \/ Commit(h)
  PROVE  IndexingHasJob'
<1> USE DEF RagInv, IndexingHasJob, IsTerminal, rows
<1>1. ASSUME NEW h \in RagHandlers, CommitCancel(h) \/ CommitDisable(h) \/ CommitEnable(h)
      PROVE IndexingHasJob'
  <2>1. \/ UNCHANGED rows
        \/ document'.status \in {"failed", "disabled", "ready"}
    BY <1>1 DEF CommitCancel, CommitDisable, CommitEnable, Commits, Marked
  <2>2. QED  BY <2>1
<1>2. ASSUME NEW h \in RagHandlers, CommitRestart(h) PROVE IndexingHasJob'
  BY <1>2 DEF CommitRestart, Commits, Restarted, NoJob
<1>3. CASE Enqueue
  BY <1>3 DEF Enqueue, NoJob
<1>4. ASSUME NEW h \in RagHandlers, CommitDelete(h) PROVE IndexingHasJob'
  BY <1>4 DEF CommitDelete, NoDocument
<1>5. CASE LeaseEnds
  BY <1>5 DEF LeaseEnds, RagTypeOK, JobRecord
<1>6. CASE UNCHANGED rows
  BY <1>6
<1>7. \A h \in RagHandlers : Asks(h) \/ CleanupFiles(h) => UNCHANGED rows
  BY DEF Asks, BeginCancel, BeginRestart, BeginDisable, BeginEnable, BeginDelete,
         Requests, CleanupFiles
<1>8. RequestDeletion \/ DenyDeletion \/ RagCrash => UNCHANGED rows
  BY DEF RequestDeletion, DenyDeletion, RagCrash
<1>9. QED
  BY <1>1, <1>2, <1>3, <1>4, <1>5, <1>6, <1>7, <1>8 DEF Commit

\* The copies that are written back unchanged stay copies of a running job.
LEMMA CopiesStep == RagInv /\ [RagNext]_ragVars => CopiesRun'
<1> SUFFICES ASSUME RagInv, [RagNext]_ragVars PROVE CopiesRun'
  OBVIOUS
<1>1. \A w \in RagWorkers : \A at : Goes(w, at) /\ at \notin {"renewing", "reporting", "chunked"}
        => CopiesRun'
  BY DEF RagInv, CopiesRun, Goes, RagTypeOK
<1>2. \A w \in RagWorkers : \A b : GivesUp(w, b) => CopiesRun'
  BY DEF RagInv, CopiesRun, GivesUp, RagTypeOK
<1>3. \A w \in RagWorkers : \A at :
        Reads(w, at) /\ (at \in {"renewing", "reporting", "chunked"}
                           => job.status \in {"parsing", "chunking"})
        => CopiesRun'
  BY DEF RagInv, CopiesRun, Reads, RagTypeOK, WorkerRecord
<1>4. UNCHANGED worker => CopiesRun'
  BY DEF RagInv, CopiesRun
<1>5. CASE UNCHANGED ragVars
  BY <1>4, <1>5 DEF ragVars
<1>6. ASSUME NEW w \in RagWorkers, Works(w) \/ ParseEnds(w) \/ BeginRenewal(w)
                                              \/ BeginReport(w)
      PROVE CopiesRun'
  <2>1. CASE CommitChunking(w) \/ CommitPersist(w) \/ Build(w) \/ ClaimEmbedding(w)
    <3>1. ASSUME NEW r, worker' = [worker EXCEPT ![w] = r],
                 r.at \in {"building", "sweeping", "built", "embedding"}
          PROVE CopiesRun'
      BY <3>1 DEF RagInv, CopiesRun, RagTypeOK
    <3>2. worker[w] \in WorkerRecord
      BY DEF RagInv, RagTypeOK
    <3>3. \A s, n : /\ Knowing("building", s).at = "building"
                    /\ Knowing("sweeping", s).at = "sweeping"
                    /\ Embedding(n).at = "embedding"
                    /\ Built(worker[w], s, n).at = "built"
      BY <3>2, MemoryFields
    <3>4. CASE ClaimEmbedding(w)
      <4>1. \/ UNCHANGED worker
            \/ \E n : worker' = [worker EXCEPT ![w] = Embedding(n)]
        BY <3>4 DEF ClaimEmbedding
      <4>2. QED  BY <1>4, <3>1, <3>3, <4>1
    <3>6. CASE CommitChunking(w)
      <4>1. \/ \E b : GivesUp(w, b)
            \/ \E s : worker' = [worker EXCEPT ![w] = Knowing("building", s)]
        BY <3>6 DEF CommitChunking
      <4>2. QED  BY <1>2, <3>1, <3>3, <4>1
    <3>7. CASE CommitPersist(w)
      <4>1. \/ \E b : GivesUp(w, b)
            \/ \E s : worker' = [worker EXCEPT ![w] = Knowing("sweeping", s)]
        BY <3>7 DEF CommitPersist
      <4>2. QED  BY <1>2, <3>1, <3>3, <4>1
    <3>8. CASE Build(w)
      <4>1. \/ \E b : GivesUp(w, b)
            \/ \E s, n : worker' = [worker EXCEPT ![w] = Built(worker[w], s, n)]
        BY <3>8 DEF Build
      <4>2. QED  BY <1>2, <3>1, <3>3, <4>1
    <3>9. QED  BY <2>1, <3>4, <3>6, <3>7, <3>8
  <2>2. CASE EmbedFails(w) \/ BeginComplete(w) \/ CommitComplete(w)
    <3>1. ASSUME NEW r, worker' = [worker EXCEPT ![w] = r], r.at = "unembedded"
          PROVE CopiesRun'
      BY <3>1 DEF RagInv, CopiesRun, RagTypeOK
    <3>2. \A b \in BOOLEAN : Unembedded(worker[w], b).at = "unembedded"
      <4>1. worker[w] \in WorkerRecord
        BY DEF RagInv, RagTypeOK
      <4>2. QED  BY <4>1, ErrorsAreRows
    <3>3. Unembedded(IdleWorker, TRUE).at = "unembedded"
      <4>1. IdleWorker \in WorkerRecord
        BY FreshMemories, RagAssumption
      <4>2. QED  BY <4>1, ErrorsAreRows
    <3>4. CASE EmbedFails(w)
      BY <3>1, <3>2, <3>4 DEF EmbedFails
    <3>5. CASE BeginComplete(w)
      <4>1. \/ Reads(w, "completing")
            \/ worker' = [worker EXCEPT ![w] = Unembedded(worker[w], TRUE)]
        BY <3>5 DEF BeginComplete
      <4>2. QED  BY <1>3, <3>1, <3>2, <4>1
    <3>6. CASE CommitComplete(w)
      BY <1>1, <3>1, <3>3, <3>6 DEF CommitComplete
    <3>7. QED  BY <2>2, <3>4, <3>5, <3>6
  <2>3. CASE ClaimIngestion(w) \/ ParseFails(w) \/ BeginAdvance(w) \/ CommitAdvance(w)
    BY <1>1, <1>2, <1>3, <1>4, <2>3
       DEF ClaimIngestion, ParseFails, BeginAdvance, CommitAdvance
  <2>4. CASE BeginRenewal(w) \/ CommitRenewal(w) \/ BeginReport(w) \/ CommitReport(w)
    BY <1>1, <1>2, <1>3, <2>4
       DEF BeginRenewal, CommitRenewal, BeginReport, CommitReport, Owns
  <2>5. CASE BeginChunking(w) \/ BeginPersist(w) \/ Sweep(w)
    BY <1>1, <1>2, <1>3, <2>5 DEF BeginChunking, BeginPersist, Sweep, Owns
  <2>6. CASE BeginFailure(w) \/ CommitFailure(w)
             \/ BeginEmbedFailure(w) \/ CommitEmbedFailure(w)
    BY <1>1, <1>2, <1>3, <1>4, <2>6
       DEF BeginFailure, CommitFailure, BeginEmbedFailure, CommitEmbedFailure
  <2>7. QED
    BY <1>6, <2>1, <2>2, <2>3, <2>4, <2>5, <2>6 DEF Works, ParseEnds
<1>7. CASE LeaseEnds
  BY <1>7 DEF LeaseEnds, RagInv, CopiesRun, RagTypeOK, WorkerRecord, JobRecord
<1>8. CASE RagCrash
  BY <1>1, <1>4, <1>8 DEF RagCrash
<1>9. CASE \E h \in RagHandlers : Commit(h)
  BY <1>4, <1>9
     DEF Commit, CommitCancel, CommitRestart, CommitDisable, CommitEnable, Commits,
         CommitDelete, CleanupFiles
<1>10. CASE \/ Enqueue \/ RequestDeletion \/ DenyDeletion
            \/ \E h \in RagHandlers : Asks(h)
  BY <1>4, <1>10
     DEF Enqueue, Asks, BeginCancel, BeginRestart, BeginDisable, BeginEnable, BeginDelete,
         Requests, RequestDeletion, DenyDeletion
<1>11. QED
  BY <1>5, <1>6, <1>7, <1>8, <1>9, <1>10 DEF RagNext

-----------------------------------------------------------------------------
\* The initial state satisfies the invariant.
LEMMA RagInitInv == RagInit => RagInv
<1> SUFFICES ASSUME RagInit PROVE RagInv
  OBVIOUS
<1>1. NoJob \in JobRecord /\ NoDocument \in DocumentRecord
  BY RagAssumption DEF JobRecord, JobStatus, NoJob, DocumentRecord, DocumentStatus,
                       NoDocument
<1>2. IdleWorker \in WorkerRecord /\ IdleApi \in ApiRecord
  BY <1>1, RagAssumption DEF IdleWorker, WorkerRecord, IdleApi, ApiRecord
<1>3. NoChunks \in [rows : 0..MaxChunks, vectors : 0..MaxChunks]
  BY RagAssumption DEF NoChunks
<1>4. RagTypeOK
  BY <1>1, <1>2, <1>3, RagAssumption DEF RagInit, RagTypeOK
<1>5. IndexingHasJob /\ CopiesRun
  BY DEF RagInit, IndexingHasJob, CopiesRun, NoDocument, IdleWorker
<1>6. QED
  BY <1>4, <1>5 DEF RagInv

\* The invariant holds in every behaviour of the job and its document.
LEMMA RagInvariant == RagSpec => []RagInv
<1>1. RagInv /\ [RagNext]_ragVars => RagInv'
  <2> SUFFICES ASSUME RagInv, [RagNext]_ragVars PROVE RagInv'
    OBVIOUS
  <2>1. RagTypeOK' /\ CopiesRun'
    BY RagTypeStep, CopiesStep DEF RagInv
  <2>2. CASE UNCHANGED ragVars
    BY <2>1, <2>2 DEF ragVars, RagInv, IndexingHasJob, IsTerminal
  <2>3. CASE RagNext
    BY <2>1, <2>3, WorkerKeepsJob, RequestKeepsJob DEF RagNext, RagInv
  <2>4. QED
    BY <2>2, <2>3
<1>2. QED
  BY <1>1, RagInitInv, PTL DEF RagSpec

\* Types of the rows, of the copies in the hands of workers and requests, and of
\* the attempts, which stay within their budgets.
THEOREM RagTypeCorrect == RagSpec => []RagTypeOK
<1>1. RagInv => RagTypeOK
  BY DEF RagInv
<1>2. QED
  BY <1>1, RagInvariant, PTL

\* However many workers overwrite each other and the user, a document is never
\* left indexing with a job that is over.
THEOREM IndexingKeepsJob == RagSpec => []IndexingHasJob
<1>1. RagInv => IndexingHasJob
  BY DEF RagInv
<1>2. QED
  BY <1>1, RagInvariant, PTL

-----------------------------------------------------------------------------
(* What retrieval may serve, with one RAG worker (the documented deployment) *)
(* and a user who adds a deleted document again only after the deletion has   *)
(* ended, however many of his requests overlap.                               *)

OneRagWorker == \A v, w \in RagWorkers : v = w

\* Nobody works on a completed job; the chunks listed at its last stage have vectors.
CompletedIsAtRest ==
  job.status = "completed" =>
    /\ chunks.rows > 0 /\ chunks.vectors = Listed(chunks.rows)
    /\ \A w \in RagWorkers : worker[w].at = "idle"

\* A worker that embeds has listed the chunks that are there, as far as one lists.
EmbedsWhatIsListed ==
  \A w \in RagWorkers :
    worker[w].at \in {"embedding", "completing"} /\ job.status # "none"
      => chunks.rows > 0 /\ worker[w].count = Listed(chunks.rows)

\* The rows come and go together, and only files of a deleted document wait to be
\* removed.
RowsGoTogether ==
  /\ job.status = "none" <=> document.status = "none"
  /\ job.status = "none" => assets = {}
  /\ deletion.pending # {} => job.status = "none"
  /\ \A h \in RagHandlers : api[h].at = "cleanup" => job.status = "none"

\* The references a worker has read still cover the rows, if a list holds them; the
\* files it has built are there unless the document is gone, and what it sweeps is
\* in no row.
FilesAreKnown ==
  \A w \in RagWorkers :
    /\ worker[w].at \in {"building", "built", "persisting"} /\ Cardinality(assets) <= ListLimit
         => assets \subseteq worker[w].known
    /\ worker[w].at \in {"built", "persisting"} /\ job.status # "none"
         => worker[w].built \subseteq files
    /\ worker[w].at = "sweeping" => worker[w].known \cap assets = {}

AssetsAreKept == Cardinality(assets) <= ListLimit => assets \subseteq files

ServeInv == /\ CompletedIsAtRest /\ EmbedsWhatIsListed /\ RowsGoTogether
            /\ FilesAreKnown /\ AssetsAreKept

\* What the one worker holds after it went somewhere, gave up or read the rows.
LEMMA TheWorker ==
  ASSUME RagTypeOK, NEW w \in RagWorkers
  PROVE  /\ \A at : Goes(w, at) => worker'[w].at = at
         /\ \A b : GivesUp(w, b) => worker'[w].at = "failing"
         /\ \A at : Reads(w, at) => /\ worker'[w].at = at
                                    /\ worker'[w].built = worker[w].built
                                    /\ worker'[w].known = worker[w].known
                                    /\ worker'[w].count = worker[w].count
<1>1. worker \in [RagWorkers -> WorkerRecord] /\ worker[w] \in WorkerRecord
  BY DEF RagTypeOK
<1>2. ASSUME NEW at, Goes(w, at) PROVE worker'[w].at = at
  <2>1. worker'[w] = [IdleWorker EXCEPT !.at = at]
    BY <1>1, <1>2 DEF Goes
  <2>2. QED  BY <2>1 DEF IdleWorker
<1>3. ASSUME NEW b, GivesUp(w, b) PROVE worker'[w].at = "failing"
  <2>1. worker'[w] = [IdleWorker EXCEPT !.at = "failing", !.retry = b]
    BY <1>1, <1>3 DEF GivesUp
  <2>2. QED  BY <2>1 DEF IdleWorker
<1>4. ASSUME NEW at, Reads(w, at)
      PROVE  /\ worker'[w].at = at
             /\ worker'[w].built = worker[w].built
             /\ worker'[w].known = worker[w].known
             /\ worker'[w].count = worker[w].count
  <2> DEFINE new == [worker[w] EXCEPT !.at = at, !.job = job, !.document = document]
  <2>1. worker'[w] = new
    BY <1>1, <1>4 DEF Reads
  <2>2. /\ new.at = at /\ new.built = worker[w].built
        /\ new.known = worker[w].known /\ new.count = worker[w].count
    BY <1>1 DEF WorkerRecord
  <2>3. QED  BY <2>1, <2>2
<1>5. QED
  BY <1>2, <1>3, <1>4

\* While a worker is busy, the job is not completed.
LEMMA BusyIsNotCompleted ==
  ASSUME ServeInv, NEW w \in RagWorkers, worker[w].at # "idle"
  PROVE  job.status # "completed"
  BY DEF ServeInv, CompletedIsAtRest

\* A worker that leaves rows and files alone, and goes where it holds no files, or
\* from embedding to completing, breaks nothing.
LEMMA QuietWorker ==
  ASSUME RagTypeOK, ServeInv, OneRagWorker, NEW w \in RagWorkers,
         UNCHANGED <<document, chunks, assets, files, deletion, api>>,
         job'.status = "none" <=> job.status = "none",
         job'.status # "completed",
         worker'[w].at \notin {"building", "built", "persisting", "sweeping"},
         worker'[w].at \in {"embedding", "completing"} =>
           worker[w].at = "embedding" /\ worker'[w].count = worker[w].count
  PROVE  ServeInv'
<1>1. CompletedIsAtRest' /\ RowsGoTogether' /\ AssetsAreKept'
  BY DEF ServeInv, CompletedIsAtRest, RowsGoTogether, AssetsAreKept
<1>2. FilesAreKnown'
  BY DEF FilesAreKnown, OneRagWorker
<1>3. EmbedsWhatIsListed'
  BY DEF ServeInv, EmbedsWhatIsListed, OneRagWorker
<1>4. QED
  BY <1>1, <1>2, <1>3 DEF ServeInv

\* The worker's reads, failures and renewals (RagIngestionService,
\* RagEmbeddingService).
LEMMA QuietSteps ==
  ASSUME RagInv, ServeInv, OneRagWorker, NEW w \in RagWorkers,
         \/ BeginRenewal(w) \/ CommitRenewal(w) \/ BeginReport(w) \/ CommitReport(w)
         \/ ParseFails(w) \/ BeginAdvance(w) \/ CommitAdvance(w) \/ BeginChunking(w)
         \/ BeginFailure(w) \/ EmbedFails(w) \/ BeginComplete(w)
         \/ BeginEmbedFailure(w)
  PROVE  ServeInv'
<1> DEFINE Elsewhere(at) ==
      at \notin {"building", "built", "persisting", "sweeping", "embedding", "completing"}
           Quiet == /\ UNCHANGED <<document, chunks, assets, files, deletion, api>>
                    /\ job'.status = "none" <=> job.status = "none"
                    /\ job'.status # "completed"
                    /\ Elsewhere(worker'[w].at)
<1> USE TheWorker, WorkerFields DEF RagInv, rows, projection
<1>1. Quiet => ServeInv'
  BY QuietWorker
<1>2. worker[w].at # "idle" /\ UNCHANGED job => job'.status # "completed"
  BY BusyIsNotCompleted
<1>3. CASE BeginRenewal(w) \/ BeginReport(w) \/ ParseFails(w)
  <2>1. worker'[w].at \in {"renewing", "reporting", "failing"}
    BY <1>3 DEF BeginRenewal, BeginReport, ParseFails
  <2>2. QED  BY <1>1, <1>2, <1>3, <2>1 DEF BeginRenewal, BeginReport, ParseFails
<1>4. CASE BeginAdvance(w)
  <2>1. Goes(w, "idle") \/ Reads(w, "advancing") \/ \E b \in BOOLEAN : GivesUp(w, b)
    BY <1>4 DEF BeginAdvance
  <2>2. worker'[w].at \in {"idle", "advancing", "failing"}
    BY <2>1
  <2>3. QED  BY <1>1, <1>2, <1>4, <2>2 DEF BeginAdvance
<1>5. CASE BeginChunking(w)
  <2>1. worker'[w].at \in {"failing", "chunked"}
    BY <1>5 DEF BeginChunking
  <2>2. QED  BY <1>1, <1>2, <1>5, <2>1 DEF BeginChunking
<1>6. CASE BeginFailure(w) \/ BeginEmbedFailure(w)
  <2>1. worker'[w].at \in {"recording", "unrecorded", "idle"}
    BY <1>6 DEF BeginFailure, BeginEmbedFailure
  <2>2. QED  BY <1>1, <1>2, <1>6, <2>1 DEF BeginFailure, BeginEmbedFailure
<1>7. CASE CommitRenewal(w) \/ CommitReport(w)
  <2>1. worker[w].job \in JobRecord /\ worker[w].job.status \in {"parsing", "chunking"}
    BY <1>7 DEF CommitRenewal, CommitReport, CopiesRun
  <2>2. [worker[w].job EXCEPT !.lease = "live"].status = worker[w].job.status
    BY <2>1 DEF JobRecord
  <2>3. Quiet
    BY <1>7, <2>1, <2>2 DEF CommitRenewal, CommitReport
  <2>4. QED  BY <1>1, <2>3
<1>8. CASE CommitAdvance(w)
  <2>1. [worker[w].job EXCEPT !.status = "chunking"].status = "chunking"
    BY DEF JobRecord
  <2>2. Quiet
    BY <1>8, <2>1 DEF CommitAdvance
  <2>3. QED  BY <1>1, <2>2
<1>9. CASE EmbedFails(w)
  <2>1. PICK again \in BOOLEAN : worker' = [worker EXCEPT ![w] = Unembedded(worker[w], again)]
    BY <1>9 DEF EmbedFails
  <2>2. worker'[w] = Unembedded(worker[w], again) /\ worker[w] \in WorkerRecord
    BY <2>1 DEF RagTypeOK
  <2>3. worker'[w].at = "unembedded"
    BY <2>2, ErrorsAreRows
  <2>4. QED  BY <1>1, <1>2, <1>9, <2>3 DEF EmbedFails
<1>10. CASE BeginComplete(w)
  <2>1. CASE worker' = [worker EXCEPT ![w] = Unembedded(worker[w], TRUE)]
    <3>1. worker'[w] = Unembedded(worker[w], TRUE) /\ worker[w] \in WorkerRecord
      BY <2>1 DEF RagTypeOK
    <3>2. worker'[w].at = "unembedded"
      BY <3>1, ErrorsAreRows
    <3>3. QED  BY <1>1, <1>2, <1>10, <3>2 DEF BeginComplete
  <2>2. CASE Reads(w, "completing")
    <3>1. worker'[w].at = "completing" /\ worker'[w].count = worker[w].count
      BY <2>2
    <3>2. /\ UNCHANGED <<rows, chunks, assets, files, deletion, api>>
          /\ worker[w].at = "embedding"
      BY <1>10 DEF BeginComplete
    <3>3. QED  BY <1>2, <3>1, <3>2, QuietWorker
  <2>3. QED  BY <1>10, <2>1, <2>2 DEF BeginComplete
<1>11. QED
  BY <1>3, <1>4, <1>5, <1>6, <1>7, <1>8, <1>9, <1>10

\* A claim takes a job that is neither gone nor completed, and a worker that claims
\* an embedding counts the chunks that it will embed.
LEMMA ClaimingSteps ==
  ASSUME RagInv, ServeInv, OneRagWorker, NEW w \in RagWorkers,
         ClaimIngestion(w) \/ ClaimEmbedding(w)
  PROVE  ServeInv'
<1> USE TheWorker DEF RagInv, rows, projection
<1>1. /\ job.status # "none" /\ job.status # "completed" /\ document.status # "none"
      /\ worker[w].at = "idle"
      /\ UNCHANGED <<chunks, assets, files, deletion, api>>
  BY DEF ClaimIngestion, ClaimEmbedding, Retryable, Stale, Embeddable, ServeInv,
         RowsGoTogether
<1>2. /\ Claimed(job, w).status = "parsing" /\ Failed(job, FALSE).status = "failed"
      /\ ClaimedToEmbed(job, w).status = job.status
      /\ MarkedFailed(document).status # "none" /\ Marked(document, "failed").status # "none"
  BY <1>1 DEF Claimed, ClaimedToEmbed, Failed, Released, MarkedFailed, Marked, RagTypeOK,
              JobRecord
<1>3. /\ job'.status # "none" /\ job'.status # "completed" /\ document'.status # "none"
  BY <1>1, <1>2 DEF ClaimIngestion, ClaimEmbedding
<1>4. \/ worker'[w].at \in {"idle", "parsing"}
      \/ /\ worker'[w].at = "embedding" /\ worker'[w].count = Listed(chunks.rows)
         /\ chunks.rows > 0
  <2>1. CASE ClaimIngestion(w)
    BY <1>1, <2>1 DEF ClaimIngestion
  <2>2. CASE ClaimEmbedding(w)
    <3>1. CASE UNCHANGED worker
      BY <1>1, <3>1
    <3>2. CASE /\ chunks.rows > 0
               /\ worker' = [worker EXCEPT ![w] = Embedding(Listed(chunks.rows))]
      <4>1. worker'[w] = Embedding(Listed(chunks.rows)) /\ worker[w] \in WorkerRecord
        BY <3>2 DEF RagTypeOK
      <4>2. QED  BY <3>2, <4>1, MemoryFields
    <3>3. QED  BY <2>2, <3>1, <3>2 DEF ClaimEmbedding
  <2>3. QED  BY <2>1, <2>2
<1>5. CompletedIsAtRest' /\ RowsGoTogether' /\ AssetsAreKept'
  BY <1>1, <1>3 DEF ServeInv, CompletedIsAtRest, RowsGoTogether, AssetsAreKept
<1>6. FilesAreKnown' /\ EmbedsWhatIsListed'
  BY <1>1, <1>4 DEF FilesAreKnown, EmbedsWhatIsListed, OneRagWorker
<1>7. QED
  BY <1>5, <1>6 DEF ServeInv

\* The worker's steps that build a projection: it knows the rows whose files it
\* must not remove (_existing_asset_references, _persist_projection).
LEMMA BuildingSteps ==
  ASSUME RagInv, ServeInv, OneRagWorker, NEW w \in RagWorkers,
         CommitChunking(w) \/ Build(w) \/ BeginPersist(w) \/ Sweep(w)
  PROVE  ServeInv'
<1> USE TheWorker, WorkerFields DEF RagInv, rows, projection
<1>1. /\ job.status # "completed"
      /\ UNCHANGED <<document, chunks, assets, deletion, api>>
      /\ (job'.status = "none" <=> job.status = "none") /\ job'.status # "completed"
  <2>1. job.status # "completed"
    BY BusyIsNotCompleted DEF CommitChunking, Build, BeginPersist, Sweep
  <2>2. CASE CommitChunking(w)
    BY <2>1, <2>2 DEF CommitChunking, CopiesRun
  <2>3. CASE Build(w) \/ BeginPersist(w) \/ Sweep(w)
    BY <2>1, <2>3 DEF Build, BeginPersist, Sweep
  <2>4. QED  BY <2>2, <2>3
<1>2. CompletedIsAtRest' /\ RowsGoTogether'
  BY <1>1 DEF ServeInv, CompletedIsAtRest, RowsGoTogether
<1>3. ASSUME worker'[w].at \notin {"embedding", "completing"} PROVE EmbedsWhatIsListed'
  BY <1>3 DEF EmbedsWhatIsListed, OneRagWorker
<1>4. ASSUME worker'[w].at \notin {"building", "built", "persisting", "sweeping"}
      PROVE  FilesAreKnown'
  BY <1>4 DEF FilesAreKnown, OneRagWorker
<1>5. CASE CommitChunking(w)
  <2>1. CASE GivesUp(w, TRUE)
    BY <1>1, <1>2, <1>3, <1>4, <1>5, <2>1 DEF CommitChunking, ServeInv, AssetsAreKept
  <2>2. CASE \E known \in Listings(assets, ListLimit) :
               worker' = [worker EXCEPT ![w] = Knowing("building", known)]
    <3>1. PICK known \in Listings(assets, ListLimit) :
               worker'[w] = Knowing("building", known)
      BY <2>2 DEF RagTypeOK
    <3>2. worker'[w].at = "building" /\ worker'[w].known = known
      <4>1. worker[w] \in WorkerRecord
        BY DEF RagTypeOK
      <4>2. QED  BY <3>1, <4>1, MemoryFields
    <3>3. Cardinality(assets) <= ListLimit => known = assets
      BY ListingsAreRows
    <3>4. FilesAreKnown'
      BY <1>1, <3>2, <3>3 DEF FilesAreKnown, OneRagWorker
    <3>5. AssetsAreKept'
      BY <1>1, <1>5 DEF CommitChunking, ServeInv, AssetsAreKept
    <3>6. QED  BY <1>2, <1>3, <3>2, <3>4, <3>5 DEF ServeInv
  <2>3. QED  BY <1>5, <2>1, <2>2 DEF CommitChunking
<1>6. CASE Build(w)
  <2>1. Cardinality(assets) <= ListLimit => assets \subseteq worker[w].known
    BY <1>6 DEF Build, ServeInv, FilesAreKnown
  <2>2. CASE \E built \in SUBSET Assets, n \in 1..MaxChunks :
               /\ files' = files \cup built
               /\ worker' = [worker EXCEPT ![w] = Built(worker[w], built, n)]
    <3>1. PICK built \in SUBSET Assets, n \in 1..MaxChunks :
               /\ files' = files \cup built
               /\ worker' = [worker EXCEPT ![w] = Built(worker[w], built, n)]
      BY <2>2
    <3>2. worker'[w] = Built(worker[w], built, n)
      BY <3>1 DEF RagTypeOK
    <3>3. worker[w] \in WorkerRecord
      BY DEF RagTypeOK
    <3>4. /\ worker'[w].at = "built" /\ worker'[w].built = built
          /\ worker'[w].known = worker[w].known
      BY <3>2, <3>3, MemoryFields
    <3>5. FilesAreKnown'
      BY <1>1, <2>1, <3>1, <3>4 DEF FilesAreKnown, OneRagWorker
    <3>6. AssetsAreKept'
      BY <1>1, <3>1 DEF ServeInv, AssetsAreKept
    <3>7. QED  BY <1>2, <1>3, <3>4, <3>5, <3>6 DEF ServeInv
  <2>3. CASE \E built \in SUBSET Assets :
               /\ files' = (files \cup built) \ (built \ worker[w].known)
               /\ GivesUp(w, FALSE)
    <3>1. AssetsAreKept'
      BY <1>1, <2>1, <2>3 DEF ServeInv, AssetsAreKept
    <3>2. worker'[w].at = "failing"
      BY <2>3
    <3>3. QED  BY <1>2, <1>3, <1>4, <3>1, <3>2 DEF ServeInv
  <2>4. QED  BY <1>6, <2>2, <2>3 DEF Build
<1>7. CASE BeginPersist(w)
  <2>1. /\ Cardinality(assets) <= ListLimit => assets \subseteq worker[w].known
        /\ job.status # "none" => worker[w].built \subseteq files
        /\ worker[w].at = "built"
    BY <1>7 DEF BeginPersist, ServeInv, FilesAreKnown
  <2>2. CASE Cleanup(w) /\ worker'[w].at \in {"idle", "failing"}
    <3>1. AssetsAreKept'
      BY <1>1, <2>1, <2>2 DEF Cleanup, ServeInv, AssetsAreKept
    <3>2. QED  BY <1>2, <1>3, <1>4, <2>2, <3>1 DEF ServeInv
  <2>3. CASE Reads(w, "persisting") /\ UNCHANGED files
    <3>1. /\ worker'[w].at = "persisting" /\ worker'[w].built = worker[w].built
          /\ worker'[w].known = worker[w].known
      BY <2>3
    <3>2. FilesAreKnown'
      <4>1. /\ worker'[w].at \notin {"building", "sweeping"}
            /\ worker'[w].built = worker[w].built /\ worker'[w].known = worker[w].known
            /\ UNCHANGED <<assets, files>> /\ (job'.status = "none" <=> job.status = "none")
        BY <1>1, <2>3, <3>1
      <4>2. \A v \in RagWorkers : v = w
        BY DEF OneRagWorker
      <4>3. QED  BY <2>1, <4>1, <4>2 DEF FilesAreKnown
    <3>3. AssetsAreKept'
      BY <1>1, <2>3 DEF ServeInv, AssetsAreKept
    <3>4. QED  BY <1>2, <1>3, <3>1, <3>2, <3>3 DEF ServeInv
  <2>4. \/ Reads(w, "persisting") /\ UNCHANGED files
        \/ Cleanup(w) /\ (Goes(w, "idle") \/ \E b : GivesUp(w, b))
    BY <1>7 DEF BeginPersist
  <2>5. QED  BY <2>2, <2>3, <2>4
<1>8. CASE Sweep(w)
  <2>1. worker[w].known \cap assets = {}
    BY <1>8 DEF Sweep, ServeInv, FilesAreKnown
  <2>2. files' = files \ worker[w].known /\ worker'[w].at = "idle"
    BY <1>8 DEF Sweep
  <2>3. AssetsAreKept'
    BY <1>1, <2>1, <2>2 DEF ServeInv, AssetsAreKept
  <2>4. QED  BY <1>2, <1>3, <1>4, <2>2, <2>3 DEF ServeInv
<1>9. QED
  BY <1>5, <1>6, <1>7, <1>8

\* The commit of a new projection replaces the rows by those whose files are built,
\* and leaves for the sweep only files that they do not name.
LEMMA PersistStep ==
  ASSUME RagInv, ServeInv, OneRagWorker, NEW w \in RagWorkers, CommitPersist(w)
  PROVE  ServeInv'
<1> USE TheWorker, WorkerFields DEF RagInv, rows, projection
<1>1. /\ Cardinality(assets) <= ListLimit => assets \subseteq worker[w].known
      /\ job.status # "none" => worker[w].built \subseteq files
  BY DEF CommitPersist, ServeInv, FilesAreKnown
<1>2. UNCHANGED <<deletion, api>>
  BY DEF CommitPersist
<1>3. CASE job.status = "none"
  <2>1. /\ UNCHANGED <<rows, chunks, assets>> /\ worker'[w].at = "failing"
        /\ files' = files \ (worker[w].built \ worker[w].known)
    BY <1>3 DEF CommitPersist, Cleanup
  <2>2. CompletedIsAtRest' /\ RowsGoTogether' /\ AssetsAreKept'
    BY <1>1, <1>2, <1>3, <2>1
       DEF ServeInv, CompletedIsAtRest, RowsGoTogether, AssetsAreKept
  <2>3. FilesAreKnown' /\ EmbedsWhatIsListed'
    BY <2>1 DEF FilesAreKnown, EmbedsWhatIsListed, OneRagWorker
  <2>4. QED  BY <2>2, <2>3 DEF ServeInv
<1>4. CASE job.status # "none"
  <2>1. /\ Released(worker[w].job, "embedding").status = "embedding"
        /\ Marked(worker[w].document, "indexing").status = "indexing"
    BY DEF Released, Marked, JobRecord
  <2>2. /\ job'.status = "embedding" /\ document'.status = "indexing"
        /\ assets' = worker[w].built /\ UNCHANGED files
    BY <1>4, <2>1 DEF CommitPersist
  <2>3. worker'[w].at = "sweeping" /\ worker'[w].known \cap worker[w].built = {}
    <3>1. PICK old \in Listings(assets, ListLimit) :
            worker'[w] = Knowing("sweeping", old \ worker[w].built)
      BY <1>4 DEF CommitPersist, RagTypeOK
    <3>2. worker[w] \in WorkerRecord
      BY DEF RagTypeOK
    <3>3. worker'[w].at = "sweeping" /\ worker'[w].known = old \ worker[w].built
      BY <3>1, <3>2, MemoryFields
    <3>4. QED  BY <3>3
  <2>4. CompletedIsAtRest' /\ RowsGoTogether' /\ AssetsAreKept'
    BY <1>1, <1>2, <1>4, <2>2
       DEF ServeInv, CompletedIsAtRest, RowsGoTogether, AssetsAreKept
  <2>5. FilesAreKnown' /\ EmbedsWhatIsListed'
    BY <2>2, <2>3 DEF FilesAreKnown, EmbedsWhatIsListed, OneRagWorker
  <2>6. QED  BY <2>4, <2>5 DEF ServeInv
<1>5. QED
  BY <1>3, <1>4

\* A failure that is recorded leaves a job that is not completed and the document
\* that was there (_record_failure, _fail).
LEMMA FailingSteps ==
  ASSUME RagInv, ServeInv, OneRagWorker, NEW w \in RagWorkers,
         CommitFailure(w) \/ CommitEmbedFailure(w)
  PROVE  ServeInv'
<1> USE TheWorker, WorkerFields DEF RagInv, rows, projection
<1>1. /\ job.status # "completed" /\ UNCHANGED <<chunks, assets, files, deletion, api>>
      /\ worker'[w].at = "idle"
  BY BusyIsNotCompleted DEF CommitFailure, CommitEmbedFailure
<1>2. /\ \A b : Failed(worker[w].job, b).status = "failed"
      /\ \A b : EmbeddingFailed(worker[w].job, b).status \in {"embedding", "failed"}
  BY DEF Failed, EmbeddingFailed, Released, JobRecord
<1>3. MarkedFailed(document).status = "none" <=> document.status = "none"
  BY DEF MarkedFailed, Marked
<1>4. /\ (job'.status = "none" <=> job.status = "none") /\ job'.status # "completed"
      /\ document'.status = "none" <=> document.status = "none"
  <2>1. CASE CommitFailure(w)
    BY <1>1, <1>2, <1>3, <2>1 DEF CommitFailure
  <2>2. CASE CommitEmbedFailure(w)
    BY <1>1, <1>2, <1>3, <2>2 DEF CommitEmbedFailure, ServeInv, RowsGoTogether
  <2>3. QED  BY <2>1, <2>2
<1>5. CompletedIsAtRest' /\ RowsGoTogether' /\ AssetsAreKept'
  <2>1. CompletedIsAtRest' /\ AssetsAreKept'
    BY <1>1, <1>4 DEF ServeInv, CompletedIsAtRest, AssetsAreKept
  <2>2. RowsGoTogether'
    BY <1>1, <1>4 DEF ServeInv, RowsGoTogether
  <2>3. QED  BY <2>1, <2>2
<1>6. FilesAreKnown' /\ EmbedsWhatIsListed'
  BY <1>1 DEF FilesAreKnown, EmbedsWhatIsListed, OneRagWorker
<1>7. QED
  BY <1>5, <1>6 DEF ServeInv

\* The one step that completes a job gives the listed chunks their vectors and
\* leaves the worker idle (_complete).
LEMMA CompletingStep ==
  ASSUME RagInv, ServeInv, OneRagWorker, NEW w \in RagWorkers, CommitComplete(w)
  PROVE  ServeInv'
<1> USE TheWorker, WorkerFields DEF RagInv, rows, projection
<1>1. job.status # "completed" /\ UNCHANGED <<assets, files, deletion, api>>
  BY BusyIsNotCompleted DEF CommitComplete
<1>2. CASE job.status = "none" \/ chunks.rows < worker[w].count
  <2>1. worker'[w].at = "unembedded"
    <3>1. worker'[w] = Unembedded(IdleWorker, TRUE)
      BY <1>2 DEF CommitComplete, RagTypeOK
    <3>2. IdleWorker \in WorkerRecord
      BY FreshMemories, RagAssumption
    <3>3. QED  BY <3>1, <3>2, ErrorsAreRows
  <2>2. UNCHANGED <<rows, chunks>>
    BY <1>2 DEF CommitComplete
  <2>3. QED
    BY <1>1, <2>1, <2>2, QuietWorker
<1>3. CASE ~(job.status = "none" \/ chunks.rows < worker[w].count)
  <2>1. /\ Released(worker[w].job, "completed").status = "completed"
        /\ Marked(worker[w].document, "ready").status = "ready"
    BY DEF Released, Marked, JobRecord
  <2>2. /\ job'.status = "completed" /\ document'.status = "ready"
        /\ chunks' = [chunks EXCEPT !.vectors = worker[w].count]
        /\ worker'[w].at = "idle"
    BY <1>3, <2>1 DEF CommitComplete
  <2>3. chunks'.rows = chunks.rows /\ chunks'.vectors = worker[w].count
    BY <2>2 DEF RagTypeOK
  <2>4. chunks.rows > 0 /\ worker[w].count = Listed(chunks.rows)
    BY <1>3 DEF CommitComplete, ServeInv, EmbedsWhatIsListed
  <2>5. CompletedIsAtRest'
    BY <2>2, <2>3, <2>4 DEF CompletedIsAtRest, OneRagWorker
  <2>6. RowsGoTogether' /\ AssetsAreKept'
    BY <1>1, <1>3, <2>2 DEF ServeInv, RowsGoTogether, AssetsAreKept
  <2>7. FilesAreKnown' /\ EmbedsWhatIsListed'
    BY <2>2 DEF FilesAreKnown, EmbedsWhatIsListed, OneRagWorker
  <2>8. QED  BY <2>5, <2>6, <2>7 DEF ServeInv
<1>4. QED
  BY <1>2, <1>3

\* What a request, a crash or time leaves when it takes nothing from anybody.
LEMMA ServeFrame ==
  ASSUME ServeInv, UNCHANGED <<chunks, assets, files>>,
         job'.status = "none" <=> job.status = "none",
         document'.status = "none" <=> document.status = "none",
         job'.status = "completed" => job.status = "completed",
         deletion'.pending = {} \/ deletion'.pending = deletion.pending,
         \A h \in RagHandlers : api'[h].at = "cleanup" => job.status = "none",
         \A w \in RagWorkers :
           \/ worker'[w].at = "idle"
           \/ /\ worker'[w].at = worker[w].at /\ worker'[w].built = worker[w].built
              /\ worker'[w].known = worker[w].known /\ worker'[w].count = worker[w].count
  PROVE  ServeInv'
<1>1. CompletedIsAtRest' /\ AssetsAreKept'
  BY DEF ServeInv, CompletedIsAtRest, AssetsAreKept
<1>2. RowsGoTogether'
  BY DEF ServeInv, RowsGoTogether
<1>3. EmbedsWhatIsListed'
  BY DEF ServeInv, EmbedsWhatIsListed
<1>4. FilesAreKnown'
  BY DEF ServeInv, FilesAreKnown
<1>5. QED
  BY <1>1, <1>2, <1>3, <1>4 DEF ServeInv

\* Once the rows are gone, files may go.
LEMMA GoneFrame ==
  ASSUME ServeInv, UNCHANGED worker, job'.status = "none", document'.status = "none",
         assets' = {}
  PROVE  ServeInv'
<1>1. CompletedIsAtRest' /\ AssetsAreKept' /\ RowsGoTogether'
  BY DEF CompletedIsAtRest, AssetsAreKept, RowsGoTogether
<1>2. EmbedsWhatIsListed' /\ FilesAreKnown'
  BY DEF EmbedsWhatIsListed, FilesAreKnown
<1>3. QED
  BY <1>1, <1>2 DEF ServeInv

\* The requests of the user (RagIngestionCommandService,
\* RagDocumentLifecycleService), side by side.
LEMMA RequestSteps ==
  ASSUME RagInv, ServeInv, NEW h \in RagHandlers, Asks(h) \/ Commit(h)
  PROVE  ServeInv'
<1> USE DEF RagInv, rows, projection
<1>1. IdleApi.at = "idle"
  BY DEF IdleApi
<1>2. Answered(h) => \A g \in RagHandlers : api'[g].at = "cleanup" => api[g].at = "cleanup"
  BY <1>1 DEF Answered, RagTypeOK
<1>3. \A g \in RagHandlers : api[g].at = "cleanup" => job.status = "none"
  BY DEF ServeInv, RowsGoTogether
<1>4. ASSUME NEW at \in {"cancel", "restart", "disable", "enable"}, Requests(h, at)
      PROVE  ServeInv'
  <2>1. \A g \in RagHandlers : api'[g].at = "cleanup" => api[g].at = "cleanup"
    BY <1>4 DEF Requests, RagTypeOK
  <2>2. UNCHANGED <<rows, projection, deletion, worker>>
    BY <1>4 DEF Requests
  <2>3. QED  BY <1>3, <2>1, <2>2, ServeFrame
<1>5. ASSUME NEW at, NEW j, NEW d, Commits(h, at, j, d),
             j.status # "none" \/ j = job, j.status # "completed" \/ j = job,
             d.status # "none"
      PROVE  ServeInv'
  <2>1. UNCHANGED <<projection, deletion, worker>> /\ Answered(h)
    BY <1>5 DEF Commits
  <2>2. document.status = "none" <=> job.status = "none"
    BY DEF ServeInv, RowsGoTogether
  <2>3. UNCHANGED rows \/ (document.status # "none" /\ job' = j /\ document' = d)
    BY <1>5 DEF Commits
  <2>4. QED  BY <1>2, <1>3, <1>5, <2>1, <2>2, <2>3, ServeFrame
<1>6. CASE CommitCancel(h) \/ CommitRestart(h) \/ CommitDisable(h) \/ CommitEnable(h)
  <2>1. /\ Cancelled(api[h].job).status = "cancelled"
        /\ Restarted(api[h].job).status = "queued"
        /\ \A s : Marked(api[h].document, s).status = s
    BY DEF Cancelled, Released, Restarted, NoJob, Marked, RagTypeOK, ApiRecord, JobRecord
  <2>2. CASE CommitCancel(h) \/ CommitRestart(h)
    BY <1>5, <2>1, <2>2 DEF CommitCancel, CommitRestart
  <2>3. CASE CommitDisable(h) \/ CommitEnable(h)
    BY <1>5, <2>1, <2>3 DEF CommitDisable, CommitEnable
  <2>4. QED  BY <1>6, <2>2, <2>3
<1>7. CASE BeginCancel(h) \/ BeginRestart(h) \/ BeginDisable(h) \/ BeginEnable(h)
  BY <1>4, <1>7 DEF BeginCancel, BeginRestart, BeginDisable, BeginEnable
<1>8. CASE BeginDelete(h)
  <2>1. UNCHANGED <<rows, projection, deletion, worker>>
    BY <1>8 DEF BeginDelete
  <2>2. \/ api'[h].at = "deleting"
        \/ deletion.pending # {}
    <3>1. \/ deletion.pending # {}
          \/ \E refs : api' = [api EXCEPT ![h] = [at |-> "deleting", job |-> job,
                                                  document |-> document, files |-> refs]]
      BY <1>8 DEF BeginDelete
    <3>2. QED  BY <3>1 DEF RagTypeOK
  <2>3. \A g \in RagHandlers : g # h => api'[g] = api[g]
    BY <1>8 DEF BeginDelete, RagTypeOK
  <2>4. deletion.pending # {} => job.status = "none"
    BY DEF ServeInv, RowsGoTogether
  <2>5. \A g \in RagHandlers : api'[g].at = "cleanup" => job.status = "none"
    BY <1>3, <2>2, <2>3, <2>4
  <2>6. QED  BY <2>1, <2>5, ServeFrame
<1>9. CASE CommitDelete(h)
  <2>1. CASE document.status = "none"
    <3>1. UNCHANGED <<rows, projection, deletion, worker>> /\ Answered(h)
      BY <1>9, <2>1 DEF CommitDelete
    <3>2. QED  BY <1>2, <1>3, <3>1, ServeFrame
  <2>2. CASE document.status # "none"
    <3>1. /\ job'.status = "none" /\ document'.status = "none" /\ assets' = {}
          /\ UNCHANGED worker
      BY <1>9, <2>2 DEF CommitDelete, NoJob, NoDocument
    <3>2. QED  BY <3>1, GoneFrame
  <2>3. QED  BY <2>1, <2>2
<1>10. CASE CleanupFiles(h)
  <2>1. job.status = "none" /\ document.status = "none" /\ assets = {}
    BY <1>3, <1>10 DEF CleanupFiles, ServeInv, RowsGoTogether
  <2>2. UNCHANGED <<rows, assets, worker>>
    BY <1>10 DEF CleanupFiles
  <2>3. QED  BY <2>1, <2>2, GoneFrame
<1>11. QED
  BY <1>6, <1>7, <1>8, <1>9, <1>10 DEF Asks, Commit

\* Adding and deleting the document, time and crashes.
LEMMA OtherSteps ==
  ASSUME RagInv, ServeInv, EarlyReadd = FALSE,
         Enqueue \/ RequestDeletion \/ DenyDeletion \/ LeaseEnds \/ RagCrash
  PROVE  ServeInv'
<1> USE DEF RagInv, rows, projection
<1>1. \A g \in RagHandlers : api[g].at = "cleanup" => job.status = "none"
  BY DEF ServeInv, RowsGoTogether
<1>2. CASE Enqueue
  <2>1. /\ deletion.pending = {} /\ \A w \in RagWorkers : worker[w].at = "idle"
        /\ \A h \in RagHandlers : api[h].at # "cleanup"
        /\ UNCHANGED <<projection, deletion, worker, api>> /\ assets = {}
    BY <1>2 DEF Enqueue, DeletedLeavesTraces, ServeInv, RowsGoTogether
  <2>2. job'.status = "queued" /\ document'.status = "indexing"
    BY <1>2 DEF Enqueue, NoJob
  <2>3. CompletedIsAtRest' /\ RowsGoTogether' /\ AssetsAreKept'
    BY <2>1, <2>2 DEF CompletedIsAtRest, RowsGoTogether, AssetsAreKept
  <2>4. EmbedsWhatIsListed' /\ FilesAreKnown'
    BY <2>1 DEF EmbedsWhatIsListed, FilesAreKnown
  <2>5. QED  BY <2>3, <2>4 DEF ServeInv
<1>3. CASE RequestDeletion
  <2>1. UNCHANGED <<rows, projection, worker, api>> /\ deletion'.pending = {}
    BY <1>3 DEF RequestDeletion
  <2>2. QED  BY <1>1, <2>1, ServeFrame
<1>4. CASE DenyDeletion
  <2>1. UNCHANGED <<rows, projection, worker, api>> /\ deletion'.pending = deletion.pending
    BY <1>4 DEF DenyDeletion, RagTypeOK
  <2>2. QED  BY <1>1, <2>1, ServeFrame
<1>5. CASE LeaseEnds
  <2>1. /\ job'.status = job.status /\ UNCHANGED <<document, projection, deletion, api>>
        /\ \A w \in RagWorkers :
             /\ worker'[w].at = worker[w].at /\ worker'[w].built = worker[w].built
             /\ worker'[w].known = worker[w].known /\ worker'[w].count = worker[w].count
    BY <1>5 DEF LeaseEnds, RagTypeOK, JobRecord, WorkerRecord
  <2>2. QED  BY <1>1, <2>1, ServeFrame
<1>6. CASE RagCrash
  <2>1. UNCHANGED <<rows, projection, deletion>>
    BY <1>6 DEF RagCrash
  <2>2. CASE \E w \in RagWorkers : Goes(w, "idle") /\ UNCHANGED api
    <3>1. \A w \in RagWorkers : worker'[w].at = "idle" \/ worker'[w] = worker[w]
      BY <2>2, TheWorker DEF Goes, RagTypeOK
    <3>2. QED  BY <1>1, <2>1, <2>2, <3>1, ServeFrame
  <2>3. CASE UNCHANGED worker /\ \E h \in RagHandlers : Answered(h)
    <3>1. \A g \in RagHandlers : api'[g].at = "cleanup" => api[g].at = "cleanup"
      BY <2>3 DEF Answered, IdleApi, RagTypeOK
    <3>2. QED  BY <1>1, <2>1, <2>3, <3>1, ServeFrame
  <2>4. QED  BY <1>6, <2>2, <2>3 DEF RagCrash
<1>7. QED
  BY <1>2, <1>3, <1>4, <1>5, <1>6

\* The invariant holds in every behaviour.
LEMMA ServeInvariant ==
  ASSUME OneRagWorker, EarlyReadd = FALSE
  PROVE  RagSpec => []ServeInv
<1>1. RagInit => ServeInv
  <2> SUFFICES ASSUME RagInit PROVE ServeInv
    OBVIOUS
  <2>1. /\ job.status = "none" /\ document.status = "none" /\ assets = {}
        /\ deletion.pending = {} /\ \A w \in RagWorkers : worker[w].at = "idle"
    BY DEF RagInit, NoJob, NoDocument, IdleWorker
  <2>2. CompletedIsAtRest /\ RowsGoTogether /\ AssetsAreKept
    BY <2>1 DEF CompletedIsAtRest, RowsGoTogether, AssetsAreKept
  <2>3. EmbedsWhatIsListed /\ FilesAreKnown
    BY <2>1 DEF EmbedsWhatIsListed, FilesAreKnown
  <2>4. QED  BY <2>2, <2>3 DEF ServeInv
<1>2. RagInv /\ ServeInv /\ [RagNext]_ragVars => ServeInv'
  <2> SUFFICES ASSUME RagInv, ServeInv, [RagNext]_ragVars PROVE ServeInv'
    OBVIOUS
  <2>1. CASE UNCHANGED ragVars
    <3>1. \A h \in RagHandlers : api[h].at = "cleanup" => job.status = "none"
      BY DEF ServeInv, RowsGoTogether
    <3>2. QED  BY <2>1, <3>1, ServeFrame DEF ragVars
  <2>2. ASSUME NEW w \in RagWorkers,
               Works(w) \/ ParseEnds(w) \/ BeginRenewal(w) \/ BeginReport(w)
        PROVE  ServeInv'
    BY <2>2, QuietSteps, ClaimingSteps, BuildingSteps, PersistStep, FailingSteps,
       CompletingStep
       DEF Works, ParseEnds
  <2>3. QED
    BY <2>1, <2>2, RequestSteps, OtherSteps DEF RagNext
<1>3. QED
  BY <1>1, <1>2, RagInvariant, PTL DEF RagSpec

\* With one worker, and no document added again before the end of its deletion, a
\* completed job has left chunks, as many of them with vectors as the worker lists,
\* and every image that a row refers to is in the store, unless there are more than
\* the worker lists; whatever was cancelled, restarted, cleaned up or deleted on the
\* way, one request after the other or side by side, and whichever process died.
THEOREM ReadyServes ==
  ASSUME OneRagWorker, EarlyReadd = FALSE
  PROVE  RagSpec => []ReadyIsServable
<1>1. ServeInv => ReadyIsServable
  BY DEF ServeInv, CompletedIsAtRest, AssetsAreKept, ReadyIsServable
<1>2. QED
  BY <1>1, ServeInvariant, PTL

-----------------------------------------------------------------------------
(* Requests one at a time: then what is served has a completed job.          *)

OneRagHandler == \A g, h \in RagHandlers : g = h

\* The document answers searches, or would if it were enabled.
Served == document.status \in {"ready", "disabled"}
ServedIsCompleted == Served => job.status = "completed"

\* A request to disable or to enable the document still sees what it began with.
ServedInv ==
  /\ ServedIsCompleted
  /\ \A h \in RagHandlers : /\ api[h].at = "disable" => document.status = "ready"
                            /\ api[h].at = "enable" => document.status = "disabled"

\* The worker's steps: it works on nothing that is served, and makes a document
\* ready when it completes the job.
LEMMA ServedWorks ==
  ASSUME RagInv, ServeInv, ServedInv, NEW w \in RagWorkers,
         Works(w) \/ ParseEnds(w) \/ BeginRenewal(w) \/ BeginReport(w)
  PROVE  ServedInv'
<1> USE DEF RagInv, rows, projection
<1>1. job.status # "completed"
  <2>1. CASE worker[w].at # "idle"
    BY <2>1, BusyIsNotCompleted
  <2>2. CASE worker[w].at = "idle"
    <3>1. Retryable \/ Stale \/ Embeddable
      BY <2>2 DEF Works, ParseEnds, BeginRenewal, BeginReport, ClaimIngestion, CommitRenewal,
           CommitReport, CommitAdvance, BeginChunking, CommitChunking, Build, BeginPersist,
           CommitPersist, Sweep, BeginFailure, CommitFailure, ClaimEmbedding, EmbedFails,
           BeginComplete, CommitComplete, BeginEmbedFailure, CommitEmbedFailure,
           BeginAdvance, ParseFails
    <3>2. QED  BY <3>1 DEF Retryable, Stale, Embeddable
  <2>3. QED  BY <2>1, <2>2
<1>2. ~Served /\ \A h \in RagHandlers : api[h].at \notin {"disable", "enable"}
  BY <1>1 DEF ServedInv, ServedIsCompleted, Served
<1>3. UNCHANGED api
  BY DEF Works, ParseEnds, BeginRenewal, BeginReport, ClaimIngestion, CommitRenewal,
         CommitReport, CommitAdvance, BeginChunking, CommitChunking, Build, BeginPersist,
         CommitPersist, Sweep, BeginFailure, CommitFailure, ClaimEmbedding, EmbedFails,
         BeginComplete, CommitComplete, BeginEmbedFailure, CommitEmbedFailure,
         BeginAdvance, ParseFails
<1>4. /\ ~(MarkedFailed(document).status \in {"ready", "disabled"})
      /\ \A d, s : Marked(d, s).status = s
  BY <1>2 DEF MarkedFailed, Marked, Served
<1>5. ~Served' \/ job'.status = "completed"
  <2>1. CASE CommitComplete(w)
    <3>1. Released(worker[w].job, "completed").status = "completed"
      BY WorkerFields DEF Released, JobRecord
    <3>2. QED  BY <1>2, <2>1, <3>1 DEF CommitComplete, Served
  <2>2. CASE ClaimIngestion(w) \/ ClaimEmbedding(w) \/ CommitPersist(w)
    <3>1. \/ UNCHANGED document
          \/ document' = MarkedFailed(document)
          \/ document' = Marked(document, "failed")
          \/ document' = Marked(worker[w].document, "indexing")
      BY <2>2 DEF ClaimIngestion, ClaimEmbedding, CommitPersist
    <3>2. QED  BY <1>2, <1>4, <3>1 DEF Served
  <2>3. CASE CommitFailure(w) \/ CommitEmbedFailure(w)
    BY <1>2, <1>4, <2>3 DEF CommitFailure, CommitEmbedFailure, Served
  <2>4. CASE UNCHANGED document
    BY <1>2, <2>4 DEF Served
  <2>5. QED
    BY <2>1, <2>2, <2>3, <2>4
       DEF Works, ParseEnds, BeginRenewal, BeginReport, CommitRenewal, CommitReport,
           CommitAdvance, BeginChunking, CommitChunking, Build, BeginPersist, Sweep,
           BeginFailure, EmbedFails, BeginComplete, BeginEmbedFailure, BeginAdvance,
           ParseFails
<1>6. QED
  BY <1>2, <1>3, <1>5 DEF ServedInv, ServedIsCompleted, Served

\* The requests of the user, one at a time.
LEMMA ServedRequests ==
  ASSUME RagInv, ServedInv, OneRagHandler, NEW h \in RagHandlers, Asks(h) \/ Commit(h)
  PROVE  ServedInv'
<1> USE DEF RagInv, rows, projection
<1>1. ASSUME ServedIsCompleted', api'[h].at \notin {"disable", "enable"} PROVE ServedInv'
  BY <1>1 DEF ServedInv, OneRagHandler
<1>2. UNCHANGED rows => ServedIsCompleted'
  BY DEF ServedInv, ServedIsCompleted, Served
<1>3. Answered(h) => api'[h].at = "idle"
  BY DEF Answered, IdleApi, RagTypeOK
<1>4. \A s : Marked(api[h].document, s).status = s
  BY DEF Marked
<1>5. CASE CommitCancel(h) \/ CommitRestart(h)
  <2>1. UNCHANGED rows \/ document'.status \in {"failed", "indexing"}
    BY <1>4, <1>5 DEF CommitCancel, CommitRestart, Commits
  <2>2. ServedIsCompleted' /\ Answered(h)
    BY <1>2, <1>5, <2>1 DEF CommitCancel, CommitRestart, Commits, ServedIsCompleted, Served
  <2>3. QED  BY <1>1, <1>3, <2>2
<1>6. CASE CommitDisable(h) \/ CommitEnable(h)
  <2>1. Served /\ UNCHANGED job /\ Answered(h)
    BY <1>6 DEF CommitDisable, CommitEnable, Commits, ServedInv, Served
  <2>2. ServedIsCompleted'
    BY <2>1 DEF ServedInv, ServedIsCompleted
  <2>3. QED  BY <1>1, <1>3, <2>1, <2>2
<1>7. CASE CommitDelete(h) \/ CleanupFiles(h)
  <2>1. UNCHANGED rows \/ document'.status = "none"
    BY <1>7 DEF CommitDelete, CleanupFiles, NoDocument
  <2>2. ServedIsCompleted'
    BY <1>2, <2>1 DEF ServedIsCompleted, Served
  <2>3. \A refs : [IdleApi EXCEPT !.at = "cleanup", !.files = refs].at = "cleanup"
    BY DEF IdleApi
  <2>4. api'[h].at \in {"idle", "cleanup"}
    <3>1. Answered(h) \/ api'[h] = [IdleApi EXCEPT !.at = "cleanup", !.files = api[h].files]
      BY <1>7 DEF CommitDelete, CleanupFiles, RagTypeOK
    <3>2. QED  BY <1>3, <2>3, <3>1
  <2>5. QED  BY <1>1, <2>2, <2>4
<1>8. CASE BeginDelete(h)
  <2>1. [IdleApi EXCEPT !.at = "cleanup", !.files = deletion.pending].at = "cleanup"
    BY DEF IdleApi
  <2>2. \/ api'[h].at = "deleting"
        \/ api'[h] = [IdleApi EXCEPT !.at = "cleanup", !.files = deletion.pending]
    BY <1>8 DEF BeginDelete, RagTypeOK
  <2>3. UNCHANGED rows
    BY <1>8 DEF BeginDelete
  <2>4. QED  BY <1>1, <1>2, <2>1, <2>2, <2>3
<1>9. CASE BeginCancel(h) \/ BeginRestart(h)
  <2>1. api'[h].at \in {"cancel", "restart"} /\ UNCHANGED rows
    BY <1>9 DEF BeginCancel, BeginRestart, Requests, RagTypeOK
  <2>2. QED  BY <1>1, <1>2, <2>1
<1>10. CASE BeginDisable(h) \/ BeginEnable(h)
  <2>1. /\ UNCHANGED rows
        /\ \/ api'[h].at = "disable" /\ document.status = "ready"
           \/ api'[h].at = "enable" /\ document.status = "disabled"
    BY <1>10 DEF BeginDisable, BeginEnable, Requests, RagTypeOK
  <2>2. QED  BY <1>2, <2>1 DEF ServedInv, OneRagHandler
<1>11. QED
  BY <1>5, <1>6, <1>7, <1>8, <1>9, <1>10 DEF Asks, Commit

\* When the control plane answers one request at a time, a document that is ready
\* or disabled has a completed job: with ReadyServes, what a search finds in it is
\* embedded.  Requests that overlap can break this: a disable that read the document
\* before a restart makes it disabled, and an enable ready, while the job runs.
THEOREM ServedHasCompleted ==
  ASSUME OneRagWorker, OneRagHandler, EarlyReadd = FALSE
  PROVE  RagSpec => []ServedIsCompleted
<1>1. RagInit => ServedInv
  BY DEF RagInit, ServedInv, ServedIsCompleted, Served, NoDocument, IdleApi
<1>2. RagInv /\ ServeInv /\ ServedInv /\ [RagNext]_ragVars => ServedInv'
  <2> SUFFICES ASSUME RagInv, ServeInv, ServedInv, [RagNext]_ragVars PROVE ServedInv'
    OBVIOUS
  <2>1. CASE UNCHANGED ragVars
    BY <2>1 DEF ragVars, ServedInv, ServedIsCompleted, Served
  <2>2. CASE Enqueue
    <3>1. document'.status = "indexing" /\ UNCHANGED api /\ job.status = "none"
      BY <2>2 DEF Enqueue
    <3>2. QED
      BY <3>1 DEF ServedInv, ServedIsCompleted, Served, ServeInv, RowsGoTogether
  <2>3. CASE RequestDeletion \/ DenyDeletion \/ LeaseEnds
    <3>1. UNCHANGED <<document, api>> /\ job'.status = job.status
      BY <2>3 DEF RequestDeletion, DenyDeletion, LeaseEnds, rows, RagInv, RagTypeOK, JobRecord
    <3>2. QED  BY <3>1 DEF ServedInv, ServedIsCompleted, Served
  <2>4. CASE RagCrash
    <3>1. UNCHANGED rows /\ \A h \in RagHandlers : api'[h].at \in {"idle", api[h].at}
      BY <2>4 DEF RagCrash, Answered, IdleApi, RagInv, RagTypeOK
    <3>2. QED  BY <3>1 DEF rows, ServedInv, ServedIsCompleted, Served
  <2>5. QED
    BY <2>1, <2>2, <2>3, <2>4, ServedWorks, ServedRequests DEF RagNext
<1>3. ServedInv => ServedIsCompleted
  BY DEF ServedInv
<1>4. QED
  BY <1>1, <1>2, <1>3, RagInvariant, ServeInvariant, PTL DEF RagSpec

-----------------------------------------------------------------------------
(* The upload of a document.                                                 *)

\* An attempt is only made when all attempts before it have come to nothing.
AttemptsInOrder ==
  \A a \in Attempts : permission[a].status # "none" =>
    \A b \in 1 .. a - 1 : Closed(b)

\* Content that is no PDF leaves no trace, other content is not refused.
ContentDecides ==
  /\ content = "other" => /\ stored = {} /\ artifact = 0
             /\ \A u \in Uploaders : uploader[u].at \in {"idle", "validated", "rejecting"}
  /\ content = "pdf" => /\ \A a \in Attempts : ~permission[a].failed
            /\ \A u \in Uploaders : uploader[u].at # "rejecting"

\* What an upload request has found is still true, though it holds no lock
\* between its transactions.
CallsAreGranted ==
  \A u \in Uploaders : uploader[u].at # "idle" =>
    /\ uploader[u].attempt \in Attempts
    /\ permission[uploader[u].attempt].status \in {"approved", "consumed"}
    /\ uploader[u].at \in {"checking", "loading", "queueing", "consuming"} => artifact # 0
    /\ uploader[u].at = "consuming" => ingestion = "queued"

UploadInv ==
  /\ UploadTypeOK /\ AttemptsInOrder /\ ContentDecides /\ CallsAreGranted
  /\ SuccessIsWhole /\ NothingUnapproved

-----------------------------------------------------------------------------
\* Attempts in order are at most one that is not closed.
LEMMA OrderedIsSingle == UploadTypeOK /\ AttemptsInOrder => OneLiveUpload
<1> SUFFICES ASSUME UploadTypeOK, AttemptsInOrder, NEW a \in Attempts, NEW b \in Attempts,
                    Reusable(a), Reusable(b)
             PROVE  a = b
  BY DEF OneLiveUpload
<1>1. permission[a].status # "none" /\ permission[b].status # "none"
  BY DEF Reusable
<1>2. ~(a < b)
  BY <1>1, UploadsAssumption DEF AttemptsInOrder, Closed, Attempts
<1>3. ~(b < a)
  BY <1>1, UploadsAssumption DEF AttemptsInOrder, Closed, Attempts
<1>4. QED
  BY <1>2, <1>3, UploadsAssumption DEF Attempts

\* What an action makes of a row or of a call is a row or a call again.
LEMMA CallTypes ==
  /\ NoCall \in Call
  /\ \A c \in Call, x \in Stage : [c EXCEPT !.at = x] \in Call
  BY DEF NoCall, Call, Stage

LEMMA Moves ==
  ASSUME uploader \in [Uploaders -> Call], NEW u \in Uploaders, NEW x \in Stage,
         MoveTo(u, x) \/ Return(u)
  PROVE  uploader' \in [Uploaders -> Call]
  BY CallTypes DEF MoveTo, Return

LEMMA PermissionTypes ==
  /\ NoPermission \in PermissionRow
  /\ \A n \in Names : [NoPermission EXCEPT !.status = "pending", !.name = n] \in PermissionRow
  /\ \A r \in PermissionRow, s \in PermissionStatus : [r EXCEPT !.status = s] \in PermissionRow
  /\ \A r \in PermissionRow : [r EXCEPT !.due = TRUE] \in PermissionRow
  /\ \A r \in PermissionRow : [r EXCEPT !.status = "consumed", !.failed = TRUE] \in PermissionRow
  BY DEF PermissionRow, PermissionStatus, NoPermission

LEMMA OperationTypes ==
  /\ NoOperation \in OperationRow
  /\ \A x \in {"waiting", "cancelled", "completed", "failed"} :
       [run |-> x, task |-> x] \in OperationRow
  /\ \A o \in OperationRow : [o EXCEPT !.run = "cancel_requested"] \in OperationRow
  /\ \A o \in OperationRow :
       /\ [o EXCEPT !.task = "cancelled"] \in OperationRow
       /\ [o EXCEPT !.task = "cancelled", !.run = "cancelled"] \in OperationRow
  BY DEF OperationRow, NoOperation

\* The initial state satisfies the invariant.
LEMMA UploadInitInv == UploadsInit => UploadInv
<1> SUFFICES ASSUME UploadsInit PROVE UploadInv
  OBVIOUS
<1> USE UploadsAssumption DEF UploadsInit
<1>1. UploadTypeOK
  <2>1. uploader \in [Uploaders -> Call]
    BY CallTypes
  <2>2. permission \in [Attempts -> PermissionRow]
    BY PermissionTypes
  <2>3. operation \in [Attempts -> OperationRow]
    BY OperationTypes
  <2>4. QED  BY <2>1, <2>2, <2>3 DEF UploadTypeOK
<1>2. AttemptsInOrder /\ ContentDecides /\ CallsAreGranted
  BY DEF AttemptsInOrder, ContentDecides, CallsAreGranted, NoPermission, NoCall
<1>3. SuccessIsWhole /\ NothingUnapproved
  BY DEF SuccessIsWhole, NothingUnapproved, NoPermission
<1>4. QED  BY <1>1, <1>2, <1>3 DEF UploadInv

\* Types are preserved by every step (upload_service.py).
LEMMA UploadTypeStep == UploadInv /\ [UploadsNext]_uploadVars => UploadTypeOK'
<1> SUFFICES ASSUME UploadInv, [UploadsNext]_uploadVars PROVE UploadTypeOK'
  OBVIOUS
<1> USE DEF UploadTypeOK
<1>0. UploadTypeOK /\ CallsAreGranted
  BY DEF UploadInv
<1>1. CASE UNCHANGED uploadVars
  BY <1>0, <1>1 DEF uploadVars
<1>2. ASSUME NEW a \in Attempts, NEW n \in Names, RequestUpload(a, n) PROVE UploadTypeOK'
  <2>1. permission' \in [Attempts -> PermissionRow]
    BY <1>0, <1>2, PermissionTypes DEF RequestUpload, PermissionStatus
  <2>2. operation' \in [Attempts -> OperationRow]
    BY <1>0, <1>2, OperationTypes DEF RequestUpload
  <2>3. QED  BY <1>0, <1>2, <2>1, <2>2, CallTypes DEF RequestUpload
<1>3. ASSUME NEW a \in Attempts, NEW d \in {"approved", "denied"}, ResolveUpload(a, d)
      PROVE UploadTypeOK'
  <2>1. permission' \in [Attempts -> PermissionRow]
    BY <1>0, <1>3, PermissionTypes DEF ResolveUpload, PermissionStatus
  <2>2. operation' \in [Attempts -> OperationRow]
    BY <1>0, <1>3, OperationTypes DEF ResolveUpload
  <2>3. QED  BY <1>0, <1>3, <2>1, <2>2, CallTypes DEF ResolveUpload
<1>4. ASSUME NEW a \in Attempts, DeadlinePasses(a) PROVE UploadTypeOK'
  BY <1>0, <1>4, PermissionTypes DEF DeadlinePasses
<1>5. ASSUME NEW a \in Attempts, ExpireUpload(a) PROVE UploadTypeOK'
  <2>1. permission' \in [Attempts -> PermissionRow]
    BY <1>0, <1>5, PermissionTypes DEF ExpireUpload, PermissionStatus
  <2>2. operation' \in [Attempts -> OperationRow]
    BY <1>0, <1>5, OperationTypes DEF ExpireUpload
  <2>3. QED  BY <1>0, <1>5, <2>1, <2>2, CallTypes DEF ExpireUpload
<1>6. ASSUME NEW a \in Attempts, CancelUploadRun(a) PROVE UploadTypeOK'
  BY <1>0, <1>6, OperationTypes DEF CancelUploadRun
<1>7. ASSUME NEW a \in Attempts, TakeCancel(a) PROVE UploadTypeOK'
  BY <1>0, <1>7 DEF TakeCancel
<1>8. ASSUME NEW a \in Attempts, RecordUploadCancelled(a) PROVE UploadTypeOK'
  <2>1. permission' \in [Attempts -> PermissionRow]
    BY <1>0, <1>8, PermissionTypes DEF RecordUploadCancelled, PermissionStatus
  <2>2. operation' \in [Attempts -> OperationRow]
    <3>1. CASE operation[a].run = "cancel_requested"
      <4>1. operation' = [operation EXCEPT ![a] =
                            [@ EXCEPT !.task = "cancelled", !.run = "cancelled"]]
        BY <1>0, <1>8, <3>1 DEF RecordUploadCancelled, OperationRow
      <4>2. QED  BY <1>0, <4>1, OperationTypes
    <3>2. CASE operation[a].run # "cancel_requested"
      <4>1. operation' = [operation EXCEPT ![a] = [@ EXCEPT !.task = "cancelled"]]
        BY <1>0, <1>8, <3>2 DEF RecordUploadCancelled, OperationRow
      <4>2. QED  BY <1>0, <4>1, OperationTypes
    <3>3. QED  BY <3>1, <3>2
  <2>3. QED  BY <1>0, <1>8, <2>1, <2>2 DEF RecordUploadCancelled
<1>9. ASSUME NEW u \in Uploaders, NEW a \in Attempts, NEW n \in Names, BeginUpload(u, a, n)
      PROVE UploadTypeOK'
  BY <1>0, <1>9 DEF BeginUpload, Call, Stage
<1>10. ASSUME NEW u \in Uploaders, FindArtifact(u) PROVE UploadTypeOK'
  <2>1. uploader' \in [Uploaders -> Call]
    <3>1. PICK x \in {"rejecting", "checking", "written"} : MoveTo(u, x) \/ Return(u)
      BY <1>10 DEF FindArtifact
    <3>2. x \in Stage
      BY DEF Stage
    <3>3. QED  BY <1>0, <3>1, <3>2, Moves
  <2>2. stored' \subseteq Attempts
    BY <1>0, <1>10 DEF FindArtifact, CallsAreGranted
  <2>3. QED  BY <1>0, <1>10, <2>1, <2>2 DEF FindArtifact
<1>11. ASSUME NEW u \in Uploaders, RejectContent(u) PROVE UploadTypeOK'
  <2>1. permission' \in [Attempts -> PermissionRow]
    <3> DEFINE a == uploader[u].attempt
    <3>1. \/ permission' = permission
          \/ permission' = [permission EXCEPT ![a] = [@ EXCEPT !.status = "consumed", !.failed = TRUE]]
      BY <1>0, <1>11 DEF RejectContent
    <3>2. \A r \in PermissionRow :
            [r EXCEPT !.status = "consumed", !.failed = TRUE] \in PermissionRow
      BY PermissionTypes
    <3>3. a \in Attempts => [permission[a] EXCEPT !.status = "consumed", !.failed = TRUE]
                              \in PermissionRow
      BY <1>0, <3>2
    <3> HIDE DEF a
    <3>4. QED  BY <1>0, <3>1, <3>3
  <2>2. operation' \in [Attempts -> OperationRow]
    BY <1>0, <1>11, OperationTypes DEF RejectContent
  <2>3. QED  BY <1>0, <1>11, <2>1, <2>2, CallTypes DEF RejectContent, Return
<1>12. ASSUME NEW u \in Uploaders, PersistUpload(u) PROVE UploadTypeOK'
  <2>1. uploader' \in [Uploaders -> Call]
    <3>1. "loading" \in Stage
      BY DEF Stage
    <3>2. MoveTo(u, "loading") \/ Return(u)
      BY <1>12 DEF PersistUpload
    <3>3. QED  BY <1>0, <3>1, <3>2, Moves
  <2>2. QED  BY <1>0, <1>12, <2>1 DEF PersistUpload, CallsAreGranted
<1>13. ASSUME NEW u \in Uploaders, CheckExisting(u) PROVE UploadTypeOK'
  <2>1. uploader' \in [Uploaders -> Call]
    <3>1. "loading" \in Stage
      BY DEF Stage
    <3>2. MoveTo(u, "loading") \/ Return(u)
      BY <1>13 DEF CheckExisting
    <3>3. QED  BY <1>0, <3>1, <3>2, Moves
  <2>2. QED  BY <1>0, <1>13, <2>1 DEF CheckExisting
<1>14. ASSUME NEW u \in Uploaders, LoadSource(u) PROVE UploadTypeOK'
  <2>1. uploader' \in [Uploaders -> Call]
    <3>1. "queueing" \in Stage
      BY DEF Stage
    <3>2. MoveTo(u, "queueing") \/ Return(u)
      BY <1>14 DEF LoadSource
    <3>3. QED  BY <1>0, <3>1, <3>2, Moves
  <2>2. QED  BY <1>0, <1>14, <2>1 DEF LoadSource
<1>15. ASSUME NEW u \in Uploaders, QueueIngestion(u) PROVE UploadTypeOK'
  <2>1. uploader' \in [Uploaders -> Call]
    BY <1>0, <1>15, CallTypes DEF QueueIngestion, Stage, MoveTo
  <2>2. QED  BY <1>0, <1>15, <2>1 DEF QueueIngestion
<1>16. ASSUME NEW u \in Uploaders, ConsumeUpload(u) PROVE UploadTypeOK'
  <2>1. permission' \in [Attempts -> PermissionRow]
    <3> DEFINE a == uploader[u].attempt
    <3>1. \/ permission' = permission
          \/ permission' = [permission EXCEPT ![a] = [@ EXCEPT !.status = "consumed"]]
      BY <1>0, <1>16 DEF ConsumeUpload
    <3>2. \A r \in PermissionRow : [r EXCEPT !.status = "consumed"] \in PermissionRow
      BY PermissionTypes DEF PermissionStatus
    <3> HIDE DEF a
    <3>3. QED  BY <1>0, <3>1, <3>2
  <2>2. operation' \in [Attempts -> OperationRow]
    BY <1>0, <1>16, OperationTypes DEF ConsumeUpload
  <2>3. QED  BY <1>0, <1>16, <2>1, <2>2, CallTypes DEF ConsumeUpload, Return
<1>17. ASSUME NEW u \in Uploaders, FailUploadCall(u) PROVE UploadTypeOK'
  BY <1>0, <1>17, CallTypes, UploadsAssumption DEF FailUploadCall, Return
<1>18. CASE CrashUploads
  BY <1>0, <1>18, CallTypes, UploadsAssumption DEF CrashUploads
<1>19. QED
  BY <1>1, <1>2, <1>3, <1>4, <1>5, <1>6, <1>7, <1>8, <1>9, <1>10, <1>11, <1>12, <1>13,
     <1>14, <1>15, <1>16, <1>17, <1>18 DEF UploadsNext, AttemptStep, UploadStep

-----------------------------------------------------------------------------
\* What a step may do to a permission: nothing that is closed opens again, a
\* decision stands, only content that is no PDF is refused, and only an upload
\* that is about to consume does.
Forward(c) ==
  /\ Closed(c) => Closed(c)'
  /\ permission[c].status \in {"approved", "consumed"}
       => permission'[c].status \in {"approved", "consumed"}
  /\ permission'[c].failed => permission[c].failed \/ content = "other"
  /\ permission[c].status = "none" /\ permission'[c].status # "none"
       => \A b \in 1 .. c - 1 : Closed(b)
  /\ permission'[c].status = "consumed" /\ ~permission'[c].failed
       => \/ permission[c].status = "consumed" /\ ~permission[c].failed
          \/ /\ permission[c].status = "approved" /\ ~permission[c].failed
             /\ \E u \in Uploaders : uploader[u].at = "consuming" /\ uploader[u].attempt = c

\* Every step only moves permissions forward.
LEMMA PermissionSteps ==
  UploadInv /\ [UploadsNext]_uploadVars => \A c \in Attempts : Forward(c)
<1> SUFFICES ASSUME UploadInv, [UploadsNext]_uploadVars, NEW c \in Attempts PROVE Forward(c)
  OBVIOUS
<1>0. /\ permission \in [Attempts -> PermissionRow]
      /\ ContentDecides /\ content \in {"pdf", "other"} /\ CallsAreGranted
  BY DEF UploadInv, UploadTypeOK
<1> USE DEF Forward, Closed, Reusable
<1>1. CASE permission' = permission
  BY <1>1
<1>2. ASSUME NEW a \in Attempts, NEW n \in Names, RequestUpload(a, n) PROVE Forward(c)
  BY <1>0, <1>2 DEF RequestUpload, NoPermission, PermissionRow
<1>3. ASSUME NEW a \in Attempts, NEW d \in {"approved", "denied"}, ResolveUpload(a, d)
      PROVE  Forward(c)
  BY <1>0, <1>3 DEF ResolveUpload, PermissionRow
<1>4. ASSUME NEW a \in Attempts, DeadlinePasses(a) PROVE Forward(c)
  BY <1>0, <1>4 DEF DeadlinePasses, PermissionRow
<1>5. ASSUME NEW a \in Attempts, ExpireUpload(a) PROVE Forward(c)
  BY <1>0, <1>5 DEF ExpireUpload, PermissionRow
<1>6. ASSUME NEW a \in Attempts, RecordUploadCancelled(a) PROVE Forward(c)
  BY <1>0, <1>6 DEF RecordUploadCancelled, PermissionRow
<1>7. ASSUME NEW u \in Uploaders, RejectContent(u) PROVE Forward(c)
  <2>1. uploader[u].attempt \in Attempts /\ content = "other"
    BY <1>0, <1>7 DEF RejectContent, ContentDecides, CallsAreGranted
  <2>2. CASE permission' = permission
    BY <2>2
  <2>3. CASE /\ permission[uploader[u].attempt].status = "approved"
             /\ permission' = [permission EXCEPT ![uploader[u].attempt].status = "consumed",
                                                 ![uploader[u].attempt].failed = TRUE]
    <3>1. CASE c = uploader[u].attempt
      <4>1. permission'[c].status = "consumed" /\ permission'[c].failed
        <5>1. permission[c] \in PermissionRow
          BY <1>0
        <5>2. permission'[c] = [permission[c] EXCEPT !.status = "consumed", !.failed = TRUE]
          BY <1>0, <2>3, <3>1
        <5>3. QED  BY <5>1, <5>2 DEF PermissionRow
      <4>2. QED  BY <2>1, <2>3, <3>1, <4>1
    <3>2. CASE c # uploader[u].attempt
      <4>1. permission'[c] = permission[c]
        BY <1>0, <2>1, <2>3, <3>2
      <4>2. QED  BY <4>1
    <3>3. QED  BY <3>1, <3>2
  <2>4. QED  BY <1>7, <2>2, <2>3 DEF RejectContent
<1>8. ASSUME NEW u \in Uploaders, ConsumeUpload(u) PROVE Forward(c)
  <2>1. uploader[u].attempt \in Attempts /\ uploader[u].at = "consuming"
    BY <1>0, <1>8 DEF ConsumeUpload, CallsAreGranted
  <2>2. CASE permission' = permission
    BY <2>2
  <2>3. CASE /\ permission[uploader[u].attempt].status = "approved"
             /\ permission' = [permission EXCEPT ![uploader[u].attempt].status = "consumed"]
    <3>1. CASE c = uploader[u].attempt
      <4>1. permission'[c].status = "consumed" /\ permission'[c].failed = permission[c].failed
        BY <1>0, <2>1, <2>3, <3>1 DEF PermissionRow
      <4>2. QED  BY <2>1, <2>3, <3>1, <4>1
    <3>2. CASE c # uploader[u].attempt
      <4>1. permission'[c] = permission[c]
        BY <1>0, <2>1, <2>3, <3>2
      <4>2. QED  BY <4>1
    <3>3. QED  BY <3>1, <3>2
  <2>4. QED  BY <1>8, <2>2, <2>3 DEF ConsumeUpload
<1>9. QED
  BY <1>1, <1>2, <1>3, <1>4, <1>5, <1>6, <1>7, <1>8
  DEF UploadsNext, AttemptStep, UploadStep, uploadVars, CancelUploadRun, TakeCancel,
      BeginUpload, FindArtifact, PersistUpload, CheckExisting, LoadSource, QueueIngestion,
      FailUploadCall, CrashUploads

\* Attempts stay in order: what was closed stays closed, and a new attempt
\* finds every earlier one closed.
LEMMA OrderStep == UploadInv /\ [UploadsNext]_uploadVars => AttemptsInOrder'
<1> SUFFICES ASSUME UploadInv, \A c \in Attempts : Forward(c),
                    NEW a \in Attempts, permission'[a].status # "none",
                    NEW b \in 1 .. a - 1
             PROVE  Closed(b)'
  BY PermissionSteps DEF AttemptsInOrder
<1>1. b \in Attempts
  BY UploadsAssumption DEF Attempts
<1>2. Closed(b)
  <2>1. CASE permission[a].status = "none"
    BY <2>1 DEF Forward
  <2>2. CASE permission[a].status # "none"
    BY <2>2 DEF UploadInv, AttemptsInOrder
  <2>3. QED  BY <2>1, <2>2
<1>3. QED
  BY <1>1, <1>2 DEF Forward

\* The content never changes, and decides what may be done.
LEMMA ContentStep == UploadInv /\ [UploadsNext]_uploadVars => ContentDecides'
<1> SUFFICES ASSUME UploadInv, [UploadsNext]_uploadVars PROVE ContentDecides'
  OBVIOUS
<1>0. /\ ContentDecides /\ \A c \in Attempts : Forward(c)
      /\ uploader \in [Uploaders -> Call]
  BY PermissionSteps DEF UploadInv, UploadTypeOK
<1>1. content' = content
  BY DEF UploadsNext, AttemptStep, UploadStep, uploadVars, RequestUpload, ResolveUpload,
      DeadlinePasses, ExpireUpload, CancelUploadRun, TakeCancel, RecordUploadCancelled,
      BeginUpload, FindArtifact, RejectContent, PersistUpload, CheckExisting, LoadSource,
      QueueIngestion, ConsumeUpload, FailUploadCall, CrashUploads
<1>2. content = "pdf" => \A a \in Attempts : ~permission'[a].failed
  BY <1>0 DEF ContentDecides, Forward
<1>3. /\ content = "other" =>
           /\ stored' = {} /\ artifact' = 0
           /\ \A u \in Uploaders : uploader'[u].at \in {"idle", "validated", "rejecting"}
      /\ content = "pdf" => \A u \in Uploaders : uploader'[u].at # "rejecting"
  <2> USE <1>0 DEF ContentDecides, Call
  <2>1. CASE UNCHANGED <<stored, artifact, uploader>>
    BY <2>1
  <2>2. ASSUME NEW u \in Uploaders, NEW a \in Attempts, NEW n \in Names, BeginUpload(u, a, n)
        PROVE  <1>3!:
    BY <2>2 DEF BeginUpload
  <2>3. ASSUME NEW u \in Uploaders, FindArtifact(u) PROVE <1>3!:
    BY <2>3 DEF FindArtifact, MoveTo, Return, NoCall
  <2>4. ASSUME NEW u \in Uploaders, RejectContent(u) PROVE <1>3!:
    BY <2>4 DEF RejectContent, Return, NoCall
  <2>5. ASSUME NEW u \in Uploaders, PersistUpload(u) PROVE <1>3!:
    BY <2>5 DEF PersistUpload, MoveTo, Return, NoCall
  <2>6. ASSUME NEW u \in Uploaders, CheckExisting(u) \/ LoadSource(u) PROVE <1>3!:
    BY <2>6 DEF CheckExisting, LoadSource, MoveTo, Return, NoCall
  <2>7. ASSUME NEW u \in Uploaders, QueueIngestion(u) \/ ConsumeUpload(u) PROVE <1>3!:
    BY <2>7 DEF QueueIngestion, ConsumeUpload, MoveTo, Return, NoCall
  <2>8. ASSUME NEW u \in Uploaders, FailUploadCall(u) PROVE <1>3!:
    BY <2>8 DEF FailUploadCall, Return, NoCall
  <2>9. CASE CrashUploads
    BY <2>9 DEF CrashUploads, NoCall
  <2>10. QED
    BY <2>1, <2>2, <2>3, <2>4, <2>5, <2>6, <2>7, <2>8, <2>9
    DEF UploadsNext, AttemptStep, UploadStep, uploadVars, RequestUpload, ResolveUpload,
        DeadlinePasses, ExpireUpload, CancelUploadRun, TakeCancel, RecordUploadCancelled
<1>4. QED
  BY <1>1, <1>2, <1>3 DEF ContentDecides

\* What a call has found stays true while others run between its transactions.
LEMMA CallStep == UploadInv /\ [UploadsNext]_uploadVars => CallsAreGranted'
<1> SUFFICES ASSUME UploadInv, [UploadsNext]_uploadVars, NEW v \in Uploaders,
                    uploader'[v].at # "idle"
             PROVE  /\ uploader'[v].attempt \in Attempts
                    /\ permission'[uploader'[v].attempt].status \in {"approved", "consumed"}
                    /\ uploader'[v].at \in {"checking", "loading", "queueing", "consuming"}
                         => artifact' # 0
                    /\ uploader'[v].at = "consuming" => ingestion' = "queued"
  BY DEF CallsAreGranted
<1> DEFINE Keeps(c) == /\ c.attempt \in Attempts
                       /\ permission[c.attempt].status \in {"approved", "consumed"}
                       /\ c.at \in {"checking", "loading", "queueing", "consuming"}
                            => artifact' # 0
                       /\ c.at = "consuming" => ingestion' = "queued"
<1>0. /\ CallsAreGranted /\ \A c \in Attempts : Forward(c)
      /\ uploader \in [Uploaders -> Call] /\ ingestion \in {"none", "queued"}
  BY PermissionSteps DEF UploadInv, UploadTypeOK
<1> USE <1>0 DEF CallsAreGranted, Call
<1>1. artifact # 0 => artifact' = artifact
  BY DEF UploadsNext, AttemptStep, UploadStep, uploadVars, RequestUpload, ResolveUpload,
      DeadlinePasses, ExpireUpload, CancelUploadRun, TakeCancel, RecordUploadCancelled,
      BeginUpload, FindArtifact, RejectContent, PersistUpload, CheckExisting, LoadSource,
      QueueIngestion, ConsumeUpload, FailUploadCall, CrashUploads
<1>2. ingestion = "queued" => ingestion' = "queued"
  BY DEF UploadsNext, AttemptStep, UploadStep, uploadVars, RequestUpload, ResolveUpload,
      DeadlinePasses, ExpireUpload, CancelUploadRun, TakeCancel, RecordUploadCancelled,
      BeginUpload, FindArtifact, RejectContent, PersistUpload, CheckExisting, LoadSource,
      QueueIngestion, ConsumeUpload, FailUploadCall, CrashUploads
<1>3. Keeps(uploader'[v])
  <2>1. CASE uploader'[v] = uploader[v]
    BY <1>1, <1>2, <2>1
  <2>2. ASSUME NEW u \in Uploaders, NEW a \in Attempts, NEW n \in Names, BeginUpload(u, a, n)
        PROVE  Keeps(uploader'[v])
    BY <1>1, <1>2, <2>1, <2>2 DEF BeginUpload
  <2>3. ASSUME NEW u \in Uploaders, FindArtifact(u) PROVE Keeps(uploader'[v])
    BY <1>1, <2>1, <2>3 DEF FindArtifact, MoveTo, Return, NoCall
  <2>4. ASSUME NEW u \in Uploaders, RejectContent(u) \/ ConsumeUpload(u) \/ FailUploadCall(u)
        PROVE  Keeps(uploader'[v])
    BY <2>1, <2>4 DEF RejectContent, ConsumeUpload, FailUploadCall, Return, NoCall
  <2>5. ASSUME NEW u \in Uploaders, PersistUpload(u) PROVE Keeps(uploader'[v])
    <3>1. uploader[u].attempt # 0
      BY <2>5, UploadsAssumption DEF PersistUpload, Attempts
    <3>2. QED  BY <2>1, <2>5, <3>1 DEF PersistUpload, MoveTo, Return, NoCall
  <2>6. ASSUME NEW u \in Uploaders, CheckExisting(u) PROVE Keeps(uploader'[v])
    BY <1>1, <2>1, <2>6 DEF CheckExisting, MoveTo, Return, NoCall
  <2>7. ASSUME NEW u \in Uploaders, LoadSource(u) PROVE Keeps(uploader'[v])
    BY <1>1, <2>1, <2>7 DEF LoadSource, MoveTo, Return, NoCall
  <2>8. ASSUME NEW u \in Uploaders, QueueIngestion(u) PROVE Keeps(uploader'[v])
    BY <1>1, <2>1, <2>8 DEF QueueIngestion, MoveTo
  <2>9. CASE CrashUploads
    BY <2>9 DEF CrashUploads, NoCall
  <2>10. QED
    BY <2>1, <2>2, <2>3, <2>4, <2>5, <2>6, <2>7, <2>8, <2>9
    DEF UploadsNext, AttemptStep, UploadStep, uploadVars, RequestUpload, ResolveUpload,
        DeadlinePasses, ExpireUpload, CancelUploadRun, TakeCancel, RecordUploadCancelled
<1>4. QED
  BY <1>3 DEF Forward

\* A permission is consumed last: its artifact is there, because no other
\* attempt can be live beside it, and so is the job.
LEMMA WholeStep == UploadInv /\ [UploadsNext]_uploadVars => SuccessIsWhole'
<1> SUFFICES ASSUME UploadInv, [UploadsNext]_uploadVars, NEW c \in Attempts,
                    permission'[c].status = "consumed", ~permission'[c].failed
             PROVE  artifact' = c /\ ingestion' = "queued"
  BY DEF SuccessIsWhole
<1>1. artifact = c /\ ingestion = "queued"
  <2>1. CASE permission[c].status = "consumed" /\ ~permission[c].failed
    BY <2>1 DEF UploadInv, SuccessIsWhole
  <2>2. ASSUME permission[c].status = "approved", NEW u \in Uploaders,
               uploader[u].at = "consuming"
        PROVE  artifact = c /\ ingestion = "queued"
    <3>1. artifact \in Attempts /\ ingestion = "queued"
      BY <2>2 DEF UploadInv, UploadTypeOK, CallsAreGranted
    <3>2. Reusable(artifact) /\ Reusable(c)
      BY <2>2, <3>1, UploadsAssumption DEF UploadInv, NothingUnapproved, Reusable, Attempts
    <3>3. QED  BY <3>1, <3>2, OrderedIsSingle DEF UploadInv, OneLiveUpload
  <2>3. QED  BY <2>1, <2>2, PermissionSteps DEF Forward
<1>2. artifact \in Attempts
  BY <1>1
<1>3. artifact # 0
  BY <1>2, UploadsAssumption DEF Attempts
<1>4. QED
  BY <1>1, <1>3 DEF UploadsNext, AttemptStep, UploadStep, uploadVars, RequestUpload,
      ResolveUpload, DeadlinePasses, ExpireUpload, CancelUploadRun, TakeCancel,
      RecordUploadCancelled, BeginUpload, FindArtifact, RejectContent, PersistUpload,
      CheckExisting, LoadSource, QueueIngestion, ConsumeUpload, FailUploadCall, CrashUploads

\* Files and the artifact appear under decided attempts, and those stay so.
LEMMA ApprovedStep == UploadInv /\ [UploadsNext]_uploadVars => NothingUnapproved'
<1> SUFFICES ASSUME UploadInv, [UploadsNext]_uploadVars PROVE NothingUnapproved'
  OBVIOUS
<1>0. /\ NothingUnapproved /\ CallsAreGranted /\ ContentDecides /\ UploadTypeOK
      /\ \A c \in Attempts : Forward(c)
  BY PermissionSteps DEF UploadInv
<1> DEFINE Called == {uploader[u].attempt : u \in {v \in Uploaders : uploader[v].at # "idle"}}
<1>1. /\ stored' \subseteq stored \cup (IF content = "pdf" THEN Called ELSE {})
      /\ artifact' = artifact \/ (content = "pdf" /\ artifact' \in Called)
      /\ ingestion' = ingestion \/ artifact # 0
      /\ artifact # 0 => artifact' = artifact
  <2> USE <1>0 DEF CallsAreGranted, ContentDecides, UploadTypeOK
  <2>1. CASE UNCHANGED <<stored, artifact, ingestion>>
    BY <2>1
  <2>2. ASSUME NEW u \in Uploaders, FindArtifact(u) PROVE <1>1!:
    BY <2>2 DEF FindArtifact
  <2>3. ASSUME NEW u \in Uploaders, PersistUpload(u) PROVE <1>1!:
    BY <2>3 DEF PersistUpload
  <2>4. ASSUME NEW u \in Uploaders, QueueIngestion(u) PROVE <1>1!:
    BY <2>4 DEF QueueIngestion
  <2>5. ASSUME NEW u \in Uploaders, FailUploadCall(u) PROVE <1>1!:
    BY <2>5 DEF FailUploadCall
  <2>6. QED
    BY <2>1, <2>2, <2>3, <2>4, <2>5 DEF UploadsNext, AttemptStep, UploadStep, uploadVars,
      RequestUpload, ResolveUpload, DeadlinePasses, ExpireUpload, CancelUploadRun, TakeCancel,
      RecordUploadCancelled, BeginUpload, RejectContent, CheckExisting, LoadSource,
      ConsumeUpload, CrashUploads
<1>2. \A a \in stored' \cup ({artifact'} \ {0}) :
        /\ a \in Attempts /\ content = "pdf"
        /\ permission[a].status \in {"approved", "consumed"} /\ ~permission[a].failed
  BY <1>0, <1>1 DEF NothingUnapproved, CallsAreGranted, ContentDecides, UploadTypeOK
<1>3. \A a \in stored' \cup ({artifact'} \ {0}) :
        permission'[a].status \in {"approved", "consumed"} /\ ~permission'[a].failed
  BY <1>0, <1>2 DEF Forward
<1>4. ingestion' = "queued" => artifact' # 0
  BY <1>0, <1>1 DEF NothingUnapproved
<1>5. QED
  BY <1>3, <1>4 DEF NothingUnapproved

-----------------------------------------------------------------------------
\* The invariant holds in every reachable state.
THEOREM UploadInvariant == UploadsSpec => []UploadInv
<1>1. UploadInv /\ [UploadsNext]_uploadVars => UploadInv'
  <2> SUFFICES ASSUME UploadInv, [UploadsNext]_uploadVars PROVE UploadInv'
    OBVIOUS
  <2>1. UploadTypeOK' /\ AttemptsInOrder' /\ ContentDecides'
    BY UploadTypeStep, OrderStep, ContentStep
  <2>2. CallsAreGranted' /\ SuccessIsWhole' /\ NothingUnapproved'
    BY CallStep, WholeStep, ApprovedStep
  <2>3. QED  BY <2>1, <2>2 DEF UploadInv
<1>2. QED
  BY UploadInitInv, <1>1, PTL DEF UploadsSpec

\* An approval is never worth two uploads: of all attempts for one content at
\* most one is open, approved or done (create_upload_request).
THEOREM OneUpload == UploadsSpec => []OneLiveUpload
<1>1. UploadInv => OneLiveUpload
  BY OrderedIsSingle DEF UploadInv
<1>2. QED
  BY UploadInvariant, <1>1, PTL

\* A permission consumed without an error has its artifact and its job
\* (_consume_upload_permission comes last).
THEOREM SuccessHasAll == UploadsSpec => []SuccessIsWhole
<1>1. UploadInv => SuccessIsWhole
  BY DEF UploadInv
<1>2. QED
  BY UploadInvariant, <1>1, PTL

\* No file, artifact or job without an approval that was not refused
\* afterwards (_validate_upload_permission).
THEOREM NoTraceUnapproved == UploadsSpec => []NothingUnapproved
<1>1. UploadInv => NothingUnapproved
  BY DEF UploadInv
<1>2. QED
  BY UploadInvariant, <1>1, PTL
=============================================================================
