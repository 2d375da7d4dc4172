------------------------------ MODULE Uploads ------------------------------
(***************************************************************************)
(* The user adds one PDF to the document library of a workspace            *)
(* (agent/rag/ingestion/upload_service.py): a request for permission, the  *)
(* decision, then the upload itself, which writes the file, records it as  *)
(* an artifact, queues the ingestion job and consumes the permission, each *)
(* in a transaction of its own.  The browser repeats what failed, tabs do  *)
(* it side by side, and the run that stands for the upload can be          *)
(* cancelled like any other.                                               *)
(*                                                                         *)
(* The artifact's id is derived from workspace and content, so one content *)
(* is enough here.  The ids of a request, its task and its run are derived *)
(* from the number of the attempt, and the file's path from the run.  The  *)
(* job that is queued here is the one of RagJob.                           *)
(***************************************************************************)
EXTENDS Naturals

CONSTANTS
  Uploaders,        \* upload requests the control plane handles at a time
  Names,            \* file names under which the content is offered
  MaxUploads,       \* _MAX_UPLOAD_ATTEMPTS
  MaxUploadFaults   \* bound: failed calls and crashes of the control plane

ASSUME UploadsAssumption == MaxUploads \in Nat \ {0} /\ MaxUploadFaults \in Nat

VARIABLES
  permission,    \* the permission request of each attempt
  operation,     \* the task and the run of each attempt
  cancelling,    \* attempts whose agent.run.cancelled is on its way
  content,       \* whether it begins as a PDF does
  stored,        \* attempts under whose run the file is in the store
  artifact,      \* the attempt that recorded the artifact, or 0
  ingestion,     \* whether document and ingestion job exist
  uploader,      \* per upload request: where upload_pdf is
  uploadFaults   \* how much of the bound is used up

uploadVars == <<permission, operation, cancelling, content, stored, artifact,
                ingestion, uploader, uploadFaults>>

Attempts == 1 .. MaxUploads
PermissionStatus == {"none", "pending", "approved", "denied", "expired", "consumed"}

NoPermission == [status |-> "none", name |-> "", failed |-> FALSE, due |-> FALSE]
NoOperation == [run |-> "none", task |-> "none"]
NoCall == [at |-> "idle", attempt |-> 0, seen |-> "none"]

UploadsInit ==
  /\ permission = [a \in Attempts |-> NoPermission]
  /\ operation = [a \in Attempts |-> NoOperation]
  /\ cancelling = {} /\ content \in {"pdf", "other"}
  /\ stored = {} /\ artifact = 0 /\ ingestion = "none"
  /\ uploader = [u \in Uploaders |-> NoCall] /\ uploadFaults = 0

-----------------------------------------------------------------------------
(* The permission.                                                         *)

\* An attempt that is asked for, approved or done is offered again, an attempt
\* that came to nothing is not.
Reusable(a) ==
  \/ permission[a].status \in {"pending", "approved"}
  \/ permission[a].status = "consumed" /\ ~permission[a].failed

ClosedUnlessPending(a) ==    \* variant: only an open request is offered again
  permission[a].status \notin {"none", "pending"}
Closed(a) == permission[a].status # "none" /\ ~Reusable(a)

\* create_upload_request; it changes nothing when an attempt can be reused.
RequestUpload(a, n) ==
  /\ permission[a].status = "none"
  /\ \A b \in 1 .. a - 1 : Closed(b)
  /\ permission' = [permission EXCEPT ![a] = [NoPermission EXCEPT
                      !.status = "pending", !.name = n]]
  /\ operation' = [operation EXCEPT ![a] = [run |-> "waiting", task |-> "waiting"]]
  /\ UNCHANGED <<cancelling, content, stored, artifact, ingestion, uploader, uploadFaults>>

\* resolve_upload_request: a denial ends the task and the run, whatever they
\* are; an approval does not look at them.
ResolveUpload(a, decision) ==
  /\ permission[a].status = "pending" /\ ~permission[a].due
  /\ permission' = [permission EXCEPT ![a].status = decision]
  /\ operation' = IF decision = "denied"
                    THEN [operation EXCEPT ![a] = [run |-> "cancelled", task |-> "cancelled"]]
                    ELSE operation
  /\ UNCHANGED <<cancelling, content, stored, artifact, ingestion, uploader, uploadFaults>>

DeadlinePasses(a) ==
  /\ permission[a].status = "pending" /\ ~permission[a].due
  /\ permission' = [permission EXCEPT ![a].due = TRUE]
  /\ UNCHANGED <<operation, cancelling, content, stored, artifact, ingestion, uploader,
                 uploadFaults>>

\* expire_pending_requests.
ExpireUpload(a) ==
  /\ permission[a].status = "pending" /\ permission[a].due
  /\ permission' = [permission EXCEPT ![a].status = "expired"]
  /\ operation' = IF operation[a].run = "waiting"
                    THEN [operation EXCEPT ![a] = [run |-> "failed", task |-> "failed"]]
                    ELSE operation
  /\ UNCHANGED <<cancelling, content, stored, artifact, ingestion, uploader, uploadFaults>>

-----------------------------------------------------------------------------
(* The run of an attempt is cancelled like any other run.                  *)

\* cancel_run.
CancelUploadRun(a) ==
  /\ operation[a].run = "waiting"
  /\ operation' = [operation EXCEPT ![a].run = "cancel_requested"]
  /\ UNCHANGED <<permission, cancelling, content, stored, artifact, ingestion, uploader,
                 uploadFaults>>

\* An idle worker reads the run and publishes agent.run.cancelled ...
TakeCancel(a) ==
  /\ operation[a].run = "cancel_requested" /\ a \notin cancelling
  /\ cancelling' = cancelling \cup {a}
  /\ UNCHANGED <<permission, operation, content, stored, artifact, ingestion, uploader,
                 uploadFaults>>

\* ... whose projection cancels the task even when the run has ended otherwise.
RecordUploadCancelled(a) ==
  /\ a \in cancelling
  /\ cancelling' = cancelling \ {a}
  /\ operation' = [operation EXCEPT ![a].task = "cancelled",
                     ![a].run = IF @ = "cancel_requested" THEN "cancelled" ELSE @]
  /\ permission' = IF permission[a].status = "pending"
                     THEN [permission EXCEPT ![a].status = "expired"]
                     ELSE permission
  /\ UNCHANGED <<content, stored, artifact, ingestion, uploader, uploadFaults>>

-----------------------------------------------------------------------------
(* The upload: upload_pdf, one action between two awaits.                  *)

MoveTo(u, at) == uploader' = [uploader EXCEPT ![u].at = at]
Return(u) == uploader' = [uploader EXCEPT ![u] = NoCall]

BeginUploadEarly(u, a, n) ==    \* variant: the decision is not waited for
  /\ uploader[u].at = "idle"
  /\ permission[a].status \notin {"none", "denied", "expired"} /\ permission[a].name = n
  /\ uploader' = [uploader EXCEPT ![u] = [at |-> "validated", attempt |-> a,
                                          seen |-> "approved"]]
  /\ UNCHANGED <<permission, operation, cancelling, content, stored, artifact, ingestion,
                 uploadFaults>>
\* _validate_upload_permission; the name may differ once the content is known.
BeginUpload(u, a, n) ==
  /\ uploader[u].at = "idle"
  /\ permission[a].status \in {"approved", "consumed"}
  /\ permission[a].name = n \/ permission[a].status = "consumed"
  /\ uploader' = [uploader EXCEPT ![u] = [at |-> "validated", attempt |-> a,
                                          seen |-> permission[a].status]]
  /\ UNCHANGED <<permission, operation, cancelling, content, stored, artifact, ingestion,
                 uploadFaults>>

\* _get_artifact, and what follows up to the next await: writing the file too.
FindArtifact(u) ==
  /\ uploader[u].at = "validated"
  /\ \/ content = "other" /\ MoveTo(u, "rejecting") /\ UNCHANGED stored
     \/ content = "pdf" /\ artifact # 0 /\ MoveTo(u, "checking") /\ UNCHANGED stored
     \/ /\ content = "pdf" /\ artifact = 0 /\ uploader[u].seen = "consumed"
        /\ Return(u) /\ UNCHANGED stored
     \/ /\ content = "pdf" /\ artifact = 0 /\ uploader[u].seen = "approved"
        /\ stored' = stored \cup {uploader[u].attempt}
        /\ MoveTo(u, "written")
  /\ UNCHANGED <<permission, operation, cancelling, content, artifact, ingestion, uploadFaults>>

\* _fail_upload_permission: the content is not a PDF.
RejectContent(u) ==
  LET a == uploader[u].attempt
  IN /\ uploader[u].at = "rejecting" /\ Return(u)
     /\ IF permission[a].status = "approved"
          THEN /\ permission' = [permission EXCEPT ![a].status = "consumed", ![a].failed = TRUE]
               /\ operation' = [operation EXCEPT ![a] = [run |-> "failed", task |-> "failed"]]
          ELSE UNCHANGED <<permission, operation>>
     /\ UNCHANGED <<cancelling, content, stored, artifact, ingestion, uploadFaults>>

\* _persist_upload_operation: the artifact's id is unique.  When the insert
\* fails the file just written is deleted, whoever needs it.
PersistUpload(u) ==
  /\ uploader[u].at = "written"
  /\ \/ /\ artifact = 0 /\ artifact' = uploader[u].attempt
        /\ MoveTo(u, "loading") /\ UNCHANGED stored
     \/ /\ artifact # 0 /\ stored' = stored \ {uploader[u].attempt}
        /\ Return(u) /\ UNCHANGED artifact
  /\ UNCHANGED <<permission, operation, cancelling, content, ingestion, uploadFaults>>

\* _validate_existing reads the file of the artifact that is there.
CheckExisting(u) ==
  /\ uploader[u].at = "checking"
  /\ \/ artifact \in stored /\ MoveTo(u, "loading")
     \/ artifact \notin stored /\ Return(u)
  /\ UNCHANGED <<permission, operation, cancelling, content, stored, artifact, ingestion,
                 uploadFaults>>

\* has_trusted_user_upload_lineage: a completed upload, or an approved one.
Trusted(a) ==
  \/ operation[a] = [run |-> "completed", task |-> "completed"]
  \/ /\ operation[a] = [run |-> "waiting", task |-> "waiting"]
     /\ permission[a].status = "approved"

LoadSourceConsuming(u) ==    \* variant: the permission is consumed before the job is queued
  /\ uploader[u].at = "loading"
  /\ \/ /\ Trusted(artifact) /\ artifact \in stored /\ MoveTo(u, "queueing")
        /\ permission' = [permission EXCEPT ![uploader[u].attempt].status = "consumed"]
     \/ ~(Trusted(artifact) /\ artifact \in stored) /\ Return(u) /\ UNCHANGED permission
  /\ UNCHANGED <<operation, cancelling, content, stored, artifact, ingestion, uploadFaults>>

\* enqueue_pdf: _load_source and _read_pdf, then the transaction, which
\* returns the job that is there or creates document and job.
LoadSource(u) ==
  /\ uploader[u].at = "loading"
  /\ \/ Trusted(artifact) /\ artifact \in stored /\ MoveTo(u, "queueing")
     \/ ~(Trusted(artifact) /\ artifact \in stored) /\ Return(u)
  /\ UNCHANGED <<permission, operation, cancelling, content, stored, artifact, ingestion,
                 uploadFaults>>

QueueIngestion(u) ==
  /\ uploader[u].at = "queueing" /\ MoveTo(u, "consuming")
  /\ ingestion' = "queued"
  /\ UNCHANGED <<permission, operation, cancelling, content, stored, artifact, uploadFaults>>

\* _consume_upload_permission: the run is completed whatever it is.
ConsumeUpload(u) ==
  LET a == uploader[u].attempt
  IN /\ uploader[u].at = "consuming" /\ Return(u)
     /\ IF permission[a].status = "approved"
          THEN /\ permission' = [permission EXCEPT ![a].status = "consumed"]
               /\ operation' = [operation EXCEPT
                                  ![a] = [run |-> "completed", task |-> "completed"]]
          ELSE UNCHANGED <<permission, operation>>
     /\ UNCHANGED <<cancelling, content, stored, artifact, ingestion, uploadFaults>>

-----------------------------------------------------------------------------
(* Faults: a call fails, and what was written for it is deleted; or the    *)
(* control plane dies, and nothing is cleaned up.                          *)

FailUploadCall(u) ==
  /\ uploader[u].at # "idle" /\ uploadFaults < MaxUploadFaults
  /\ uploadFaults' = uploadFaults + 1
  /\ stored' = IF uploader[u].at = "written" THEN stored \ {uploader[u].attempt} ELSE stored
  /\ Return(u)
  /\ UNCHANGED <<permission, operation, cancelling, content, artifact, ingestion>>

CrashUploads ==
  /\ \E u \in Uploaders : uploader[u].at # "idle"
  /\ uploadFaults < MaxUploadFaults /\ uploadFaults' = uploadFaults + 1
  /\ uploader' = [u \in Uploaders |-> NoCall]
  /\ UNCHANGED <<permission, operation, cancelling, content, stored, artifact, ingestion>>

-----------------------------------------------------------------------------
AttemptStep(a) ==
  \/ \E n \in Names : RequestUpload(a, n)
  \/ \E d \in {"approved", "denied"} : ResolveUpload(a, d)
  \/ DeadlinePasses(a) \/ ExpireUpload(a)
  \/ CancelUploadRun(a) \/ TakeCancel(a) \/ RecordUploadCancelled(a)

UploadStep(u) ==
  \/ \E a \in Attempts, n \in Names : BeginUpload(u, a, n)
  \/ FindArtifact(u) \/ RejectContent(u) \/ PersistUpload(u) \/ CheckExisting(u)
  \/ LoadSource(u) \/ QueueIngestion(u) \/ ConsumeUpload(u)
  \/ FailUploadCall(u)

UploadsNext ==
  \/ \E a \in Attempts : AttemptStep(a)
  \/ \E u \in Uploaders : UploadStep(u)
  \/ CrashUploads

UploadsSpec == UploadsInit /\ [][UploadsNext]_uploadVars

-----------------------------------------------------------------------------
PermissionRow == [status : PermissionStatus, name : Names \cup {""},
                  failed : BOOLEAN, due : BOOLEAN]
OperationRow ==
  [run : {"none", "waiting", "cancel_requested", "cancelled", "completed", "failed"},
   task : {"none", "waiting", "cancelled", "completed", "failed"}]
Stage == {"idle", "validated", "rejecting", "written", "checking", "loading", "queueing",
          "consuming"}
Call == [at : Stage, attempt : Attempts \cup {0}, seen : {"none", "approved", "consumed"}]

UploadTypeOK ==
  /\ permission \in [Attempts -> PermissionRow] /\ operation \in [Attempts -> OperationRow]
  /\ cancelling \subseteq Attempts /\ content \in {"pdf", "other"}
  /\ stored \subseteq Attempts /\ artifact \in Attempts \cup {0}
  /\ ingestion \in {"none", "queued"}
  /\ uploader \in [Uploaders -> Call]
  /\ uploadFaults \in 0 .. MaxUploadFaults

\* However often tabs ask for the same content and whatever becomes of their
\* requests, one attempt at most is open, approved or done: an approval is
\* never worth two uploads (create_upload_request, _upload_permission_is_reusable).
OneLiveUpload ==
  \A a, b \in Attempts : Reusable(a) /\ Reusable(b) => a = b

\* A permission that was consumed without an error has its artifact and its
\* ingestion job, wherever the upload was interrupted before (enqueue_pdf
\* before _consume_upload_permission).
SuccessIsWhole ==
  \A a \in Attempts : permission[a].status = "consumed" /\ ~permission[a].failed
                        => artifact = a /\ ingestion = "queued"

\* What a denied, expired or failed request leaves behind: no file, no
\* artifact and no job, though it may have ended while an upload was running
\* (13-interface-contract: a denial has no side effects).
NothingUnapproved ==
  /\ \A a \in stored \cup ({artifact} \ {0}) :
       permission[a].status \in {"approved", "consumed"} /\ ~permission[a].failed
  /\ ingestion = "queued" => artifact # 0
=============================================================================
