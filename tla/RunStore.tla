------------------------------ MODULE RunStore ------------------------------
(***************************************************************************)
(* One AgentRun as PostgreSQL holds it, and every transaction of the       *)
(* control plane and of the worker that reads or writes it: the claims and *)
(* reconciliations of runtime/runs/service.py, the event projections of    *)
(* runtime/service.py and the decisions of runtime/permissions/service.py. *)
(* A transaction is one step; optimistic locking makes it see the row it   *)
(* writes.                                                                 *)
(*                                                                         *)
(* StoreNext lets anybody run any transaction at any time, with any        *)
(* arguments: what holds here does not depend on workers or on Redis being *)
(* well behaved.  RunControl adds them and calls these transactions.       *)
(*                                                                         *)
(* Abstractions.  A checkpoint is its resume node, the turn of the agent   *)
(* loop and recovery_attempts; the node extract_intent is the call_model   *)
(* of turn 1.  Steps, tool calls, messages, audits and the outbox copies   *)
(* of events are left out.  The inbox key of a dead-lettered job is left   *)
(* out: FailDelivery does nothing the second time anyhow.                  *)
(***************************************************************************)
EXTENDS Integers, FiniteSets

CONSTANTS Workers,      \* worker_id of the workers
          NoWorker,     \* worker_id is NULL
          MaxTurns,     \* bound on the agent's tool calls (max_iterations)
          MaxRecovery,  \* MAX_RUN_RECOVERY_ATTEMPTS
          MaxRequeues,  \* MAX_QUEUED_RUN_RECONCILIATION_ATTEMPTS
          MaxResumes,   \* bound on resume jobs
          MaxPauses     \* bound on pause requests of the user

ASSUME StoreAssumption ==
  /\ NoWorker \notin Workers
  /\ MaxTurns \in Nat /\ MaxRecovery \in Nat /\ MaxRequeues \in Nat
  /\ MaxResumes \in Nat /\ MaxPauses \in Nat

VARIABLES
  status,  \* AgentRun.status
  owner,   \* AgentRun.worker_id
  lease,   \* AgentRun.lease_until, as "none", "live", "expired"
  ckpt,    \* AgentRun.checkpoint_json
  task,    \* Task.status
  perm,    \* perm[n]: the permission request of the tool call of turn n
  seen,    \* inbox: messages and event ids already consumed
  made,    \* jobs and commands created in the outbox
  ended    \* history: terminal events appended so far

storeVars == <<status, owner, lease, ckpt, task, perm, seen, made, ended>>

Terminal == {"COMPLETED", "FAILED", "CANCELLED"}
Cancelling == {"CANCEL_REQUESTED", "CANCELLING"}
Status == Terminal \cup Cancelling \cup
          {"QUEUED", "RUNNING", "WAITING_PERMISSION", "PAUSE_REQUESTED",
           "PAUSED", "RESUME_REQUESTED"}

Turns == 1 .. MaxTurns

ResumableNodes == {"call_model", "validate_action", "execute_tool"}
Nodes == ResumableNodes \cup {"none", "tool_in_flight"}
Checkpoint == [node : Nodes, turn : 0 .. MaxTurns + 1, attempts : Nat]
NoCkpt == [node |-> "none", turn |-> 0, attempts |-> 0]
Ckpt(node, n, a) == [node |-> node, turn |-> n, attempts |-> a]
\* Faulty variant: the barrier tool_in_flight counts as a resume point.
ResumableAnywhere(c) == c.node # "none"

Resumable(c) == c.node \in ResumableNodes

PermStatus == {"none", "PENDING", "APPROVED", "DENIED", "CONSUMED", "EXPIRED"}
Decided == {"APPROVED", "DENIED", "CONSUMED"}

StartJobs == {"start"} \X (0 .. MaxRequeues)
ResumeJobs == {"resume"} \X (1 .. MaxResumes)
Jobs == StartJobs \cup ResumeJobs
PauseCommands == {"pause"} \X (1 .. MaxPauses)
Decisions == {"decision"} \X Turns
CancelCommand == <<"cancel", 0>>
Messages == Jobs \cup PauseCommands \cup Decisions \cup {CancelCommand}

\* Inbox keys: the jobs and commands, and the events of workers.
Kinds == {"start", "resume", "pause", "decision", "cancel", "started",
          "answered", "toolStarted", "finished", "required", "resolved",
          "completed", "failed", "cancelled", "paused", "resumed"}
Keys == Kinds \X Nat

\* Messages of a kind are numbered as they are created.
Made(kind) == Cardinality({m \in made : m[1] = kind})
NextStart == <<"start", Made("start")>>
NextResume == <<"resume", Made("resume") + 1>>
NextPause == <<"pause", Made("pause") + 1>>

StoreTypeOK ==
  /\ status \in Status
  /\ owner \in Workers \cup {NoWorker}
  /\ lease \in {"none", "live", "expired"}
  /\ ckpt \in Checkpoint
  /\ task \in {"RUNNING", "WAITING_FOR_USER", "COMPLETED", "FAILED", "CANCELLED"}
  /\ perm \in [Turns -> [st : PermStatus, attempts : Nat]]
  /\ seen \in SUBSET Keys
  /\ made \in SUBSET Messages
  /\ ended \in Nat

\* The run and its first job have just been committed by task creation.
StoreInit ==
  /\ status = "QUEUED"
  /\ owner = NoWorker
  /\ lease = "none"
  /\ ckpt = NoCkpt
  /\ task = "RUNNING"
  /\ perm = [n \in Turns |-> [st |-> "none", attempts |-> 0]]
  /\ seen = {}
  /\ made = {<<"start", 0>>}
  /\ ended = 0

-----------------------------------------------------------------------------
(* Claims.  A worker takes the run; the inbox entry is in the same          *)
(* transaction.                                                             *)

\* Faulty variant: a claim that forgets lease_until.
LockWithoutLease(w, c) == /\ status' = "RUNNING"
                          /\ owner' = w
                          /\ ckpt' = c
                          /\ UNCHANGED lease

Lock(w, c) == /\ status' = "RUNNING"
              /\ owner' = w
              /\ lease' = "live"
              /\ ckpt' = c

Consume(m) == seen' = seen \cup {m}

\* claim_job, disposition "execute".
ClaimJob(w, m) ==
  /\ m \notin seen
  /\ status = "QUEUED"
  /\ Lock(w, ckpt)
  /\ Consume(m)
  /\ UNCHANGED <<task, perm, made, ended>>

\* claim_job, disposition "cancel".
ClaimCancelledJob(m) ==
  /\ m \notin seen
  /\ status = "CANCEL_REQUESTED"
  /\ Consume(m)
  /\ UNCHANGED <<status, owner, lease, ckpt, task, perm, made, ended>>

\* claim_job raises, and nothing is committed.
ClaimJobRaises(m) == m \notin seen /\ status \notin {"QUEUED", "CANCEL_REQUESTED"}

\* Faulty variant: recovery does not look at the status.
MayRecoverAlways == Resumable(ckpt) /\ ckpt.attempts + 1 <= MaxRecovery

MayRecover == /\ status \in {"PAUSED", "RESUME_REQUESTED"}
              /\ Resumable(ckpt)
              /\ ckpt.attempts + 1 <= MaxRecovery

\* claim_recovery, disposition "execute".
ClaimRecovery(w, m) ==
  /\ m \notin seen
  /\ MayRecover
  /\ Lock(w, [ckpt EXCEPT !.attempts = @ + 1])
  /\ Consume(m)
  /\ UNCHANGED <<task, perm, made, ended>>

\* claim_recovery, "duplicate" for a job seen for the first time.
RefuseRecovery(m) ==
  /\ m \notin seen
  /\ ~ MayRecover
  /\ Consume(m)
  /\ UNCHANGED <<status, owner, lease, ckpt, task, perm, made, ended>>

\* Faulty variant: a decision delivered twice is executed twice.
ClaimPermissionTwice(w) ==
  /\ status \in {"WAITING_PERMISSION", "RUNNING"}
  /\ Lock(w, ckpt)
  /\ UNCHANGED <<task, perm, seen, made, ended>>

\* claim_permission_resume, disposition "execute".
ClaimPermission(w) ==
  /\ status = "WAITING_PERMISSION"
  /\ Lock(w, ckpt)
  /\ UNCHANGED <<task, perm, seen, made, ended>>

RenewLease(w) ==
  /\ status \in {"RUNNING", "PAUSE_REQUESTED"}
  /\ owner = w
  /\ lease = "expired"
  /\ lease' = "live"
  /\ UNCHANGED <<status, owner, ckpt, task, perm, seen, made, ended>>

\* lease_until is in the past from now on.
LeaseExpires ==
  /\ lease = "live"
  /\ lease' = "expired"
  /\ UNCHANGED <<status, owner, ckpt, task, perm, seen, made, ended>>

-----------------------------------------------------------------------------
(* Requests of the user.                                                    *)

\* cancel_run; the commands it refuses or repeats change nothing.
CancelRun ==
  /\ status \notin Terminal \cup Cancelling
  /\ status' = "CANCEL_REQUESTED"
  /\ made' = made \cup {CancelCommand}
  /\ UNCHANGED <<owner, lease, ckpt, task, perm, seen, ended>>

\* Faulty variant: the run is paused at once, not at its next safe point.
PauseAtOnce ==
  /\ status = "RUNNING"
  /\ NextPause \in PauseCommands
  /\ status' = "PAUSED"
  /\ made' = made \cup {NextPause}
  /\ UNCHANGED <<owner, lease, ckpt, task, perm, seen, ended>>

PauseRun ==
  /\ status = "RUNNING"
  /\ NextPause \in PauseCommands
  /\ status' = "PAUSE_REQUESTED"
  /\ made' = made \cup {NextPause}
  /\ UNCHANGED <<owner, lease, ckpt, task, perm, seen, ended>>

NewResumeJob == /\ NextResume \in ResumeJobs
                /\ made' = made \cup {NextResume}

ResumeRun ==
  /\ status = "PAUSED"
  /\ Resumable(ckpt)
  /\ status' = "RESUME_REQUESTED"
  /\ owner' = NoWorker
  /\ lease' = "none"
  /\ NewResumeJob
  /\ UNCHANGED <<ckpt, task, perm, seen, ended>>

\* decide, before the deadline.
Decide(n, d) ==
  /\ perm[n].st = "PENDING"
  /\ status = "WAITING_PERMISSION"
  /\ perm' = [perm EXCEPT ![n].st = d]
  /\ made' = made \cup {<<"decision", n>>}
  /\ UNCHANGED <<status, owner, lease, ckpt, task, seen, ended>>

-----------------------------------------------------------------------------
(* Failing the run outside a worker's event.                                *)

FailClosed == /\ status' = "FAILED"
              /\ owner' = NoWorker
              /\ lease' = "none"
              /\ ckpt' = NoCkpt
              /\ task' = "FAILED"
              /\ ended' = ended + 1

\* Faulty variant: the deadline does not look at the decision.
ExpireDecided(n) ==
  /\ perm[n].st # "none"
  /\ perm' = [perm EXCEPT ![n].st = "EXPIRED"]
  /\ IF status = "WAITING_PERMISSION"
     THEN FailClosed
     ELSE UNCHANGED <<status, owner, lease, ckpt, task, ended>>
  /\ UNCHANGED <<seen, made>>

\* _expire_request_locked, from the sweep or from a late decide.
ExpirePermission(n) ==
  /\ perm[n].st = "PENDING"
  /\ perm' = [perm EXCEPT ![n].st = "EXPIRED"]
  /\ IF status = "WAITING_PERMISSION"
     THEN FailClosed
     ELSE UNCHANGED <<status, owner, lease, ckpt, task, ended>>
  /\ UNCHANGED <<seen, made>>

\* fail_run_queue_delivery.
FailDelivery ==
  /\ IF status \in Terminal \cup Cancelling
     THEN UNCHANGED <<status, owner, lease, ckpt, task, ended>>
     ELSE FailClosed
  /\ UNCHANGED <<perm, seen, made>>

\* reconcile_expired_runs: list_expired_running, then one of three outcomes.
\* Faulty variant: reconciliation does not look at lease_until.
ExpiredAlways == status \in {"RUNNING", "PAUSE_REQUESTED"}

\* Faulty variant: runs with a pause request are not reconciled.
ExpiredRunningOnly == status = "RUNNING" /\ lease = "expired"

Expired == status \in {"RUNNING", "PAUSE_REQUESTED"} /\ lease = "expired"

Park == /\ status' = "PAUSED"
        /\ owner' = NoWorker
        /\ lease' = "none"
        /\ UNCHANGED <<ckpt, task, perm, seen, ended>>

ConfirmPause ==
  /\ Expired /\ status = "PAUSE_REQUESTED" /\ Resumable(ckpt)
  /\ Park
  /\ UNCHANGED made

RescheduleRun ==
  /\ Expired /\ status = "RUNNING" /\ Resumable(ckpt)
  /\ ckpt.attempts < MaxRecovery
  /\ Park
  /\ NewResumeJob

\* Faulty variant: only exhausted recoveries are failed.
FailExhaustedRun ==
  /\ Expired
  /\ status = "RUNNING" /\ ckpt.attempts >= MaxRecovery
  /\ FailClosed
  /\ UNCHANGED <<perm, seen, made>>

FailExpiredRun ==
  /\ Expired
  /\ \/ ~ Resumable(ckpt)
     \/ status = "RUNNING" /\ ckpt.attempts >= MaxRecovery
  /\ FailClosed
  /\ UNCHANGED <<perm, seen, made>>

\* Faulty variant: only queued runs with an expired lease get a new job.
RequeueLeased ==
  /\ status = "QUEUED"
  /\ lease = "expired"
  /\ NextStart \in StartJobs
  /\ made' = made \cup {NextStart}
  /\ UNCHANGED <<status, owner, lease, ckpt, task, perm, seen, ended>>

\* reconcile_stale_queued_runs; the caller knows that Redis lost the job.
RequeueRun ==
  /\ status = "QUEUED"
  /\ NextStart \in StartJobs
  /\ made' = made \cup {NextStart}
  /\ UNCHANGED <<status, owner, lease, ckpt, task, perm, seen, ended>>

FailQueuedRun ==
  /\ status = "QUEUED"
  /\ NextStart \notin StartJobs
  /\ status' = "FAILED"
  /\ task' = "FAILED"
  /\ ended' = ended + 1
  /\ UNCHANGED <<owner, lease, ckpt, perm, seen, made>>

-----------------------------------------------------------------------------
(* Events of a worker.  record_envelope drops an event whose id the inbox   *)
(* holds, silently; otherwise it stores the checkpoint that came with it    *)
(* and applies the projection, whoever sends it.                            *)

Once(id, projection) ==
  IF id \in seen
  THEN UNCHANGED storeVars
  ELSE Consume(id) /\ projection

\* model.call.started and the events of intent extraction: their ids are new
\* at each attempt, so the inbox never holds them.
RecordModelStarted(c) ==
  /\ ckpt' = c
  /\ UNCHANGED <<status, owner, lease, task, perm, seen, made, ended>>

\* agent.run.started, model.call.completed, tool.call.started: the checkpoint.
RecordStep(type, n, c) ==
  Once(<<type, n>>,
       /\ ckpt' = c
       /\ UNCHANGED <<status, owner, lease, task, perm, made, ended>>)

\* tool.call.finished: an approval is used up (_record_tool_event).
RecordToolFinished(n, c) ==
  Once(<<"finished", n>>,
       /\ ckpt' = c
       /\ perm' = IF perm[n].st = "APPROVED"
                  THEN [perm EXCEPT ![n].st = "CONSUMED"]
                  ELSE perm
       /\ UNCHANGED <<status, owner, lease, task, made, ended>>)

\* permission.required.
RecordRequired(n, a) ==
  Once(<<"required", n>>,
       /\ perm' = IF perm[n].st = "none"
                  THEN [perm EXCEPT ![n] = [st |-> "PENDING", attempts |-> a]]
                  ELSE perm
       /\ status' = IF status = "RUNNING" THEN "WAITING_PERMISSION" ELSE status
       /\ task' = "WAITING_FOR_USER"
       /\ UNCHANGED <<owner, lease, ckpt, made, ended>>)

\* permission.resolved with an approval, and the checkpoint tool_in_flight.
RecordApproval(n, c) ==
  Once(<<"resolved", n>>,
       /\ ckpt' = c
       /\ perm' = IF perm[n].st = "PENDING"
                  THEN [perm EXCEPT ![n].st = "APPROVED"]
                  ELSE perm
       /\ status' = IF status = "WAITING_PERMISSION" THEN "RUNNING" ELSE status
       /\ task' = IF status' = "RUNNING" THEN "RUNNING" ELSE task
       /\ UNCHANGED <<owner, lease, made, ended>>)

\* Faulty variant: approved requests expire with the run too.
ExpireOpen == perm' = [n \in Turns |-> IF perm[n].st \in {"PENDING", "APPROVED"}
                                       THEN [perm[n] EXCEPT !.st = "EXPIRED"]
                                       ELSE perm[n]]

ExpirePending == perm' = [n \in Turns |-> IF perm[n].st = "PENDING"
                                          THEN [perm[n] EXCEPT !.st = "EXPIRED"]
                                          ELSE perm[n]]

\* agent.run.completed, whatever the status was.
RecordCompleted(n) ==
  Once(<<"completed", n>>,
       /\ ExpirePending
       /\ status' = "COMPLETED"
       /\ lease' = "none"
       /\ ckpt' = NoCkpt
       /\ task' = "COMPLETED"
       /\ ended' = ended + 1
       /\ UNCHANGED <<owner, made>>)

\* agent.run.failed, whatever the status was; a recoverable error keeps a
\* checkpoint from which the step can be retried.
RecordFailed(n, recoverable) ==
  Once(<<"failed", n>>,
       /\ ExpirePending
       /\ status' = "FAILED"
       /\ lease' = "none"
       /\ ckpt' = IF recoverable /\ ckpt.node = "call_model" THEN ckpt ELSE NoCkpt
       /\ task' = "FAILED"
       /\ ended' = ended + 1
       /\ UNCHANGED <<owner, made>>)

\* agent.run.cancelled: the task is cancelled even when the run is not.
RecordCancelled ==
  Once(<<"cancelled", 0>>,
       /\ ExpirePending
       /\ IF status \in Cancelling \cup {"RUNNING", "WAITING_PERMISSION"}
          THEN status' = "CANCELLED" /\ lease' = "none" /\ ckpt' = NoCkpt
          ELSE UNCHANGED <<status, lease, ckpt>>
       /\ task' = "CANCELLED"
       /\ ended' = ended + 1
       /\ UNCHANGED <<owner, made>>)

\* The projections of agent.run.paused and agent.run.resumed raise otherwise,
\* and nothing is committed.
CanRecordPaused(k) ==
  <<"paused", k>> \in seen
    \/ status \in Cancelling \cup {"RUNNING", "PAUSE_REQUESTED", "PAUSED"}
CanRecordResumed(k) ==
  <<"resumed", k>> \in seen \/ status \in Cancelling \cup {"RUNNING"}

\* agent.run.paused, with the checkpoint of the safe point.
RecordPaused(k, c) ==
  /\ CanRecordPaused(k)
  /\ Once(<<"paused", k>>,
          /\ ckpt' = c
          /\ IF status \in {"RUNNING", "PAUSE_REQUESTED"}
             THEN status' = "PAUSED" /\ owner' = NoWorker /\ lease' = "none"
             ELSE UNCHANGED <<status, owner, lease>>
          /\ UNCHANGED <<task, perm, made, ended>>)

\* agent.run.resumed.
RecordResumed(k) ==
  /\ CanRecordResumed(k)
  /\ Once(<<"resumed", k>>,
          /\ task' = IF status = "RUNNING" THEN "RUNNING" ELSE task
          /\ UNCHANGED <<status, owner, lease, ckpt, perm, made, ended>>)

-----------------------------------------------------------------------------
\* A checkpoint some worker may send: its nodes, any turn (that of a tool call
\* before a tool), the attempts of this run.
Sendable ==
  {c \in [node : ResumableNodes \cup {"tool_in_flight"},
          turn : 1 .. MaxTurns + 1, attempts : 0 .. MaxRecovery] :
     c.node = "execute_tool" => c.turn \in Turns}

WorkerStep ==
  \/ \E w \in Workers : \/ \E m \in StartJobs : ClaimJob(w, m)
                        \/ \E m \in ResumeJobs : ClaimRecovery(w, m)
                        \/ ClaimPermission(w)
                        \/ RenewLease(w)
  \/ \E m \in StartJobs : ClaimCancelledJob(m)
  \/ \E m \in ResumeJobs : RefuseRecovery(m)
  \/ FailDelivery

UserStep == \/ CancelRun
            \/ PauseRun
            \/ ResumeRun
            \/ \E n \in Turns, d \in {"APPROVED", "DENIED"} : Decide(n, d)

ControlStep == \/ LeaseExpires
               \/ \E n \in Turns : ExpirePermission(n)
               \/ ConfirmPause
               \/ RescheduleRun
               \/ FailExpiredRun
               \/ RequeueRun
               \/ FailQueuedRun

EventStep ==
  \/ \E c \in Sendable :
       \/ RecordModelStarted(c)
       \/ \E type \in {"started", "answered", "toolStarted"}, n \in 0 .. MaxTurns :
            RecordStep(type, n, c)
       \/ \E n \in Turns : RecordToolFinished(n, c) \/ RecordApproval(n, c)
       \/ \E k \in 0 .. MaxPauses : RecordPaused(k, c)
  \/ \E n \in Turns, a \in 0 .. MaxRecovery : RecordRequired(n, a)
  \/ \E n \in 1 .. MaxTurns + 1 : RecordCompleted(n)
  \/ \E n \in 0 .. MaxTurns + 1, r \in BOOLEAN : RecordFailed(n, r)
  \/ RecordCancelled
  \/ \E k \in 1 .. MaxResumes : RecordResumed(k)

StoreNext == WorkerStep \/ UserStep \/ ControlStep \/ EventStep

StoreSpec == StoreInit /\ [][StoreNext]_storeVars

-----------------------------------------------------------------------------
\* A run that executes can always be found by reconciliation: it has an owner
\* and a lease, which will expire if nobody renews it (list_expired_running
\* skips a NULL lease).
ActiveRunHasLease ==
  status \in {"RUNNING", "PAUSE_REQUESTED"} => owner \in Workers /\ lease # "none"

\* A finished run never becomes active again, whatever late claim, command,
\* reconciliation or event arrives.
FinishedStaysFinished ==
  [][(status \in Terminal) => (status' \in Terminal)]_storeVars

\* A decision command is sent for a request exactly when the user decided it:
\* the deadline never undoes a decision, and no decision passes a deadline.
DecisionIsBacked ==
  \A n \in Turns : <<"decision", n>> \in made => perm[n].st \in Decided

\* A finished run holds no lease, so no reconciliation touches it again.
FinishedHoldsNoLease == status \in Terminal => lease = "none"

\* A decision of the user is final: neither expiry, nor the end of the run,
\* nor a repeated permission.required replaces it (_expire_pending_permissions
\* only touches pending requests).
DecisionIsFinal ==
  [][\A n \in Turns :
       /\ perm[n].st = "DENIED" => perm'[n].st = "DENIED"
       /\ perm[n].st = "APPROVED" => perm'[n].st \in {"APPROVED", "CONSUMED"}
       /\ perm[n].st \in {"CONSUMED", "EXPIRED"} => perm'[n].st = perm[n].st
    ]_storeVars
=============================================================================
