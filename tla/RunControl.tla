----------------------------- MODULE RunControl -----------------------------
(***************************************************************************)
(* One AgentRun with everything that drives it: the workers of             *)
(* runtime/worker.py with the agent loop of agent/core, the run queue and  *)
(* the worker-command stream of Redis, the user's requests and the         *)
(* reconciliation of the control plane.  The database transactions are     *)
(* those of RunStore, and every step here is one of them or leaves the     *)
(* stored run alone.                                                       *)
(*                                                                         *)
(* Abstractions.  Messages reach Redis once (Outbox shows when).  The      *)
(* model's answer and the outcome of a tool are nondeterministic; intent   *)
(* extraction belongs to the model call of turn 1, and retries of a        *)
(* malformed model output to the call.  Budgets of the run supervisor,     *)
(* context preparation and the events without a checkpoint are left out.   *)
(***************************************************************************)
EXTENDS RunStore, Sequences

CONSTANTS NeedsApproval,  \* turns whose tool call needs the user's approval
          MaxDeliveries,  \* max_deliveries of the run queue
          MaxFaults,      \* bound on crashes, errors and losses of Redis
          MaxSlowFaults,  \* the same bound while workers are slow
          SlowWorkers,    \* may workers be slower than their leases: the cases
          FlushFaults     \* may a worker die while it publishes what a
                          \* permission continuation has done

ASSUME ControlAssumption ==
  /\ NeedsApproval \subseteq Turns
  /\ MaxDeliveries \in Nat \ {0}
  /\ MaxFaults \in Nat /\ MaxSlowFaults \in 0 .. MaxFaults
  /\ SlowWorkers \subseteq BOOLEAN
  /\ FlushFaults \in BOOLEAN

VARIABLES
  bus,      \* bus[m]: where a message is once it is made
  tries,    \* tries[j]: deliveries of a job (times_delivered of the PEL)
  worker,   \* worker[w]: what a worker process holds in memory
  effects,  \* history: executions of the tool call of each turn
  env       \* the environment: faults so far, and whether workers are slow

busVars == <<bus, tries>>
controlVars == <<bus, tries, worker, effects, env>>
vars == <<storeVars, controlVars>>

NoJob == <<"none", 0>>
NoPause == -1       \* no pause requested
DurablePause == 0   \* the pause id of _sync_durable_pause_request_if_due

\* pc values between which the command poll thread of a worker runs.
Polled == {"begin", "resuming", "model", "calling", "answered", "tool",
           "started", "done", "required", "completed", "failed", "paused",
           "resolve", "approved", "stop"}
PCs == Polled \cup {"idle", "claim", "dead", "cancelled", "broken", "ack"}

\* From these, a worker may still start a model call or a tool.
Executing == {"begin", "resuming", "model", "calling", "answered", "tool",
              "started", "done", "resolve", "approved"}

IdleWorker ==
  [pc |-> "idle",
   job |-> NoJob,          \* message to acknowledge at the end
   cancel |-> FALSE,       \* _cancel_requested
   pause |-> NoPause,      \* _pause_command_id
   turn |-> 0,             \* AgentState.iteration, plus one
   attempts |-> 0,         \* AgentState.recovery_attempts
   node |-> "none",        \* resume node of the checkpoint to load or to save
   id |-> NoPause,         \* event id of agent.run.paused, fixed when it is built
   cont |-> FALSE,         \* running on after an approval, without publish_cb
   buf |-> <<>>]           \* envelopes not yet published (continuation only)

ControlInit ==
  /\ StoreInit
  /\ bus = [m \in Messages |-> "outbox"]
  /\ tries = [j \in Jobs |-> 0]
  /\ worker = [w \in Workers |-> IdleWorker]
  /\ effects = [n \in Turns |-> 0]
  /\ env \in [faults : {0}, slow : SlowWorkers]

At(w, pc) == worker[w].pc = pc
Goto(w, pc) == worker' = [worker EXCEPT ![w].pc = pc]
Become(w, state) == worker' = [worker EXCEPT ![w] = state]
Fault == /\ env.faults < (IF env.slow THEN MaxSlowFaults ELSE MaxFaults)
         /\ env' = [env EXCEPT !.faults = @ + 1]
Acked(m) == [bus EXCEPT ![m] = IF @ = "queue" THEN "gone" ELSE @]
Held(w, node) == Ckpt(node, worker[w].turn, worker[w].attempts)

-----------------------------------------------------------------------------
(* Redis.                                                                   *)

\* The outbox publisher of the control plane delivers a message.
Publish(m) ==
  /\ m \in made
  /\ bus[m] = "outbox"
  /\ bus' = [bus EXCEPT ![m] = "queue"]
  /\ UNCHANGED <<storeVars, tries, worker, effects, env>>

\* Redis restarts empty.
RedisLosesData ==
  /\ \E m \in made : bus[m] = "queue"
  /\ Fault
  /\ bus' = [m \in Messages |-> IF bus[m] = "queue" THEN "lost" ELSE bus[m]]
  /\ UNCHANGED <<storeVars, tries, worker, effects>>

-----------------------------------------------------------------------------
(* The main loop of a worker: receive a job and claim the run.              *)

\* A new message, or one that another consumer kept pending for too long.
Receive(w, m) ==
  /\ At(w, "idle")
  /\ m \in made /\ bus[m] = "queue"
  /\ tries' = [tries EXCEPT ![m] = IF @ < MaxDeliveries THEN @ + 1 ELSE @]
  /\ Become(w, [IdleWorker EXCEPT !.pc = "claim", !.job = m])
  /\ UNCHANGED <<storeVars, bus, effects, env>>

ClaimToExecute(w) ==
  /\ At(w, "claim")
  /\ \/ worker[w].job \in StartJobs /\ ClaimJob(w, worker[w].job)
     \/ worker[w].job \in ResumeJobs /\ ClaimRecovery(w, worker[w].job)
  /\ Goto(w, "begin")
  /\ UNCHANGED <<busVars, effects, env>>

ClaimToCancel(w) ==
  /\ At(w, "claim")
  /\ worker[w].job \in StartJobs
  /\ ClaimCancelledJob(worker[w].job)
  /\ Goto(w, "cancelled")
  /\ UNCHANGED <<busVars, effects, env>>

\* A duplicate, or a recovery that is no longer wanted: acknowledged.
ClaimNothing(w) ==
  /\ At(w, "claim")
  /\ \/ worker[w].job \in seen /\ UNCHANGED storeVars
     \/ worker[w].job \in ResumeJobs /\ RefuseRecovery(worker[w].job)
  /\ bus' = Acked(worker[w].job)
  /\ Become(w, IdleWorker)
  /\ UNCHANGED <<tries, effects, env>>

\* The claim raises, by its own check or because the database is away: the
\* job stays pending until its deliveries are used up.
ClaimFails(w) ==
  /\ At(w, "claim")
  /\ \/ worker[w].job \in StartJobs /\ ClaimJobRaises(worker[w].job) /\ UNCHANGED env
     \/ Fault
  /\ IF tries[worker[w].job] < MaxDeliveries
     THEN Become(w, IdleWorker)
     ELSE Goto(w, "dead")
  /\ UNCHANGED <<storeVars, busVars, effects>>

\* Faulty variant: only the status of the run is written.
DeadLetterStatusOnly(w) ==
  /\ At(w, "dead")
  /\ status' = IF status \in Terminal \cup Cancelling THEN status ELSE "FAILED"
  /\ UNCHANGED <<owner, lease, ckpt, task, perm, seen, made, ended>>
  /\ Goto(w, "ack")
  /\ UNCHANGED <<busVars, effects, env>>

\* _dead_letter_run_delivery: fail the run, then move the message (Ack).
DeadLetter(w) ==
  /\ At(w, "dead")
  /\ FailDelivery
  /\ Goto(w, "ack")
  /\ UNCHANGED <<busVars, effects, env>>

Ack(w) ==
  /\ worker[w].pc \in {"stop", "ack"}
  /\ bus' = Acked(worker[w].job)
  /\ Become(w, IdleWorker)
  /\ UNCHANGED <<storeVars, tries, effects, env>>

-----------------------------------------------------------------------------
(* The agent loop.  An event goes to the database at once, except in a      *)
(* permission continuation, which publishes when the loop has ended.        *)

Event(type, n, c) == [type |-> type, turn |-> n, ckpt |-> c]

Record(e) ==
  \/ e.type = "finished" /\ RecordToolFinished(e.turn, e.ckpt)
  \/ e.type = "modelStarted" /\ RecordModelStarted(e.ckpt)
  \/ e.type \in {"started", "answered", "toolStarted"}
       /\ RecordStep(e.type, e.turn, e.ckpt)

Emit(w, e, next) ==
  IF worker[w].cont
  THEN /\ Become(w, [next EXCEPT !.buf = Append(@, e)])
       /\ UNCHANGED storeVars
  ELSE Record(e) /\ Become(w, next)

\* The safe points: cancel first, then pause, which a continuation ignores.
Pausing(w) == worker[w].pause # NoPause /\ ~ worker[w].cont
Undisturbed(w) == ~ worker[w].cancel /\ ~ Pausing(w)

SafePoint(w, pc, node) ==
  /\ At(w, pc)
  /\ \/ /\ worker[w].cancel
        /\ Goto(w, "cancelled")
     \/ /\ ~ worker[w].cancel /\ Pausing(w)
        /\ Become(w, [worker[w] EXCEPT !.pc = "paused", !.node = node,
                                       !.id = worker[w].pause])
  /\ UNCHANGED <<storeVars, busVars, effects, env>>

Stop(w) == \/ SafePoint(w, "model", "call_model")
           \/ SafePoint(w, "answered", "validate_action")
           \/ SafePoint(w, "tool", "execute_tool")

\* A cancel seen before the start or right after tool.call.started.
CancelSeen(w) ==
  /\ worker[w].pc \in {"begin", "started", "resolve"}
  /\ worker[w].cancel
  /\ Goto(w, "cancelled")
  /\ UNCHANGED <<storeVars, busVars, effects, env>>

StartRun(w) ==
  /\ At(w, "begin") /\ ~ worker[w].cancel
  /\ worker[w].job \in StartJobs
  /\ Emit(w, Event("started", 0, Ckpt("call_model", 1, 0)),
          [worker[w] EXCEPT !.pc = "model", !.turn = 1])
  /\ UNCHANGED <<busVars, effects, env>>

\* _load_run_checkpoint; a terminal event may have cleared it meanwhile.
LoadCheckpoint(w) ==
  /\ At(w, "begin") /\ ~ worker[w].cancel
  /\ worker[w].job \in ResumeJobs
  /\ Become(w, IF ckpt.node = "none"
               THEN [worker[w] EXCEPT !.pc = "broken"]
               ELSE [worker[w] EXCEPT !.pc = "resuming", !.node = ckpt.node,
                                      !.turn = ckpt.turn,
                                      !.attempts = ckpt.attempts])
  /\ UNCHANGED <<storeVars, busVars, effects, env>>

\* agent.run.resumed, then the graph from the node of the checkpoint.
EntryOf == [call_model |-> "model", validate_action |-> "answered",
            execute_tool |-> "tool"]

ResumeAgain(w) ==
  /\ At(w, "resuming")
  /\ LET k == worker[w].job[2] IN
       \/ /\ RecordResumed(k)
          /\ Goto(w, IF worker[w].node \in ResumableNodes
                     THEN EntryOf[worker[w].node]
                     ELSE "broken")
       \/ /\ ~ CanRecordResumed(k)
          /\ Goto(w, "broken")
          /\ UNCHANGED storeVars
  /\ UNCHANGED <<busVars, effects, env>>

CallModel(w) ==
  /\ At(w, "model") /\ Undisturbed(w)
  /\ Emit(w, Event("modelStarted", worker[w].turn, Held(w, "call_model")),
          [worker[w] EXCEPT !.pc = "calling"])
  /\ UNCHANGED <<busVars, effects, env>>

ModelAnswers(w) ==
  /\ At(w, "calling")
  /\ Goto(w, "answered")
  /\ UNCHANGED <<storeVars, busVars, effects, env>>

\* A provider error yields to a cancel or a pause that came during the call.
ModelFails(w) ==
  /\ \/ SafePoint(w, "calling", "call_model")
     \/ /\ At(w, "calling") /\ Undisturbed(w)
        /\ Goto(w, "failed")
        /\ UNCHANGED <<storeVars, busVars, effects, env>>

\* The model's action: finish, something invalid, or a tool call.
FinishRun(w) ==
  /\ At(w, "answered") /\ Undisturbed(w)
  /\ \E end \in {"completed", "failed"} : Goto(w, end)
  /\ UNCHANGED <<storeVars, busVars, effects, env>>

ChooseTool(w) ==
  /\ At(w, "answered") /\ Undisturbed(w)
  /\ worker[w].turn \in Turns
  /\ Emit(w, Event("answered", worker[w].turn, Held(w, "execute_tool")),
          [worker[w] EXCEPT !.pc = "tool"])
  /\ UNCHANGED <<busVars, effects, env>>

\* Faulty variant: the barrier keeps the resume point of the tool call.
StartToolResumable(w) ==
  /\ At(w, "tool") /\ Undisturbed(w)
  /\ Emit(w, Event("toolStarted", worker[w].turn, Held(w, "execute_tool")),
          [worker[w] EXCEPT !.pc = "started"])
  /\ UNCHANGED <<busVars, effects, env>>

\* The barrier before the effect.
StartTool(w) ==
  /\ At(w, "tool") /\ Undisturbed(w)
  /\ Emit(w, Event("toolStarted", worker[w].turn, Held(w, "tool_in_flight")),
          [worker[w] EXCEPT !.pc = "started"])
  /\ UNCHANGED <<busVars, effects, env>>

AskUser(w) ==
  /\ At(w, "started") /\ ~ worker[w].cancel
  /\ worker[w].turn \in NeedsApproval
  /\ Goto(w, "required")
  /\ UNCHANGED <<storeVars, busVars, effects, env>>

\* Faulty variant: the tool is run without asking.
RunToolUnasked(w) ==
  /\ worker[w].pc \in {"started", "approved"}
  /\ effects' = [effects EXCEPT ![worker[w].turn] = IF @ < 2 THEN @ + 1 ELSE @]
  /\ Goto(w, "done")
  /\ UNCHANGED <<storeVars, busVars, env>>

\* ToolGateway.execute; the count is cut off at 2.
RunTool(w) ==
  /\ \/ /\ At(w, "started") /\ ~ worker[w].cancel
        /\ worker[w].turn \notin NeedsApproval
     \/ At(w, "approved")
  /\ effects' = [effects EXCEPT ![worker[w].turn] = IF @ < 2 THEN @ + 1 ELSE @]
  /\ Goto(w, "done")
  /\ UNCHANGED <<storeVars, busVars, env>>

\* A result, or an error the agent can go on with.
ObserveResult(w) ==
  /\ At(w, "done")
  /\ LET next == [worker[w] EXCEPT !.pc = "model", !.turn = @ + 1] IN
       Emit(w, Event("finished", worker[w].turn,
                     Ckpt("call_model", next.turn, next.attempts)),
            next)
  /\ UNCHANGED <<busVars, effects, env>>

ToolFails(w) ==
  /\ At(w, "done")
  /\ Goto(w, "failed")
  /\ UNCHANGED <<storeVars, busVars, effects, env>>

\* The loop of a continuation has ended: its envelopes, one transaction each.
Flushing(w) ==
  /\ worker[w].pc \in {"required", "completed", "failed", "cancelled"}
  /\ worker[w].buf # <<>>

Flush(w) ==
  /\ Flushing(w)
  /\ Record(Head(worker[w].buf))
  /\ Become(w, [worker[w] EXCEPT !.buf = Tail(@)])
  /\ UNCHANGED <<busVars, effects, env>>

\* The event with which the execution ends.
EndRun(w) ==
  /\ worker[w].buf = <<>>
  /\ LET n == worker[w].turn IN
       \/ At(w, "required") /\ RecordRequired(n, worker[w].attempts)
       \/ At(w, "completed") /\ RecordCompleted(n)
       \/ At(w, "failed") /\ \E r \in BOOLEAN : RecordFailed(n, r)
       \/ At(w, "cancelled") /\ RecordCancelled
       \/ At(w, "paused") /\ RecordPaused(worker[w].id, Held(w, worker[w].node))
  /\ Goto(w, "stop")
  /\ UNCHANGED <<busVars, effects, env>>

\* An exception leaves the loop.
PauseRaises(w) ==
  /\ At(w, "paused")
  /\ ~ CanRecordPaused(worker[w].id)
  /\ Goto(w, "broken")
  /\ UNCHANGED <<storeVars, busVars, effects, env>>

Breaks(w) ==
  /\ worker[w].pc \in Polled \ {"stop"}
  /\ worker[w].job \in Jobs
  /\ Fault
  /\ Goto(w, "broken")
  /\ UNCHANGED <<storeVars, busVars, effects>>

FailBroken(w) ==
  /\ At(w, "broken")
  /\ RecordFailed(0, TRUE)
  /\ Goto(w, "ack")
  /\ UNCHANGED <<busVars, effects, env>>

-----------------------------------------------------------------------------
(* The command poll thread while a worker executes.                         *)

PollCancel(w) ==
  /\ worker[w].pc \in Polled
  /\ CancelCommand \in made /\ bus[CancelCommand] = "queue"
  /\ Become(w, [worker[w] EXCEPT !.cancel = TRUE])
  /\ bus' = Acked(CancelCommand)
  /\ UNCHANGED <<storeVars, tries, effects, env>>

PollPause(w, m) ==
  /\ worker[w].pc \in Polled
  /\ m \in made /\ bus[m] = "queue"
  /\ Become(w, [worker[w] EXCEPT !.pause = m[2]])
  /\ bus' = Acked(m)
  /\ UNCHANGED <<storeVars, tries, effects, env>>

SyncDurablePause(w) ==
  /\ worker[w].pc \in Polled
  /\ worker[w].pause = NoPause
  /\ status = "PAUSE_REQUESTED"
  /\ Become(w, [worker[w] EXCEPT !.pause = DurablePause])
  /\ UNCHANGED <<storeVars, busVars, effects, env>>

Renew(w) ==
  /\ worker[w].pc \in Polled
  /\ RenewLease(w)
  /\ UNCHANGED controlVars

-----------------------------------------------------------------------------
(* Commands in the hands of an idle worker.  The combinations that are not  *)
(* listed leave the command pending.                                        *)

Drop(m) == /\ bus' = Acked(m)
           /\ UNCHANGED <<storeVars, tries, worker, effects, env>>

\* Faulty variant: a late cancel command cancels a run that has ended.
IdleCancelAlways(w) ==
  /\ At(w, "idle")
  /\ CancelCommand \in made /\ bus[CancelCommand] = "queue"
  /\ Become(w, [IdleWorker EXCEPT !.pc = "cancelled", !.job = CancelCommand])
  /\ UNCHANGED <<storeVars, busVars, effects, env>>

IdleCancel(w) ==
  /\ At(w, "idle")
  /\ CancelCommand \in made /\ bus[CancelCommand] = "queue"
  /\ \/ status \in Terminal /\ Drop(CancelCommand)
     \/ /\ status = "CANCEL_REQUESTED"
        /\ Become(w, [IdleWorker EXCEPT !.pc = "cancelled", !.job = CancelCommand])
        /\ UNCHANGED <<storeVars, busVars, effects, env>>

IdlePause(w, m) ==
  /\ At(w, "idle")
  /\ m \in made /\ bus[m] = "queue"
  /\ status \in Terminal \cup {"PAUSED", "RESUME_REQUESTED"}
  /\ Drop(m)

\* _resume_permission_command for a decision that need not be executed.
IdleDecision(w, n) ==
  /\ At(w, "idle")
  /\ <<"decision", n>> \in made /\ bus[<<"decision", n>>] = "queue"
  /\ \/ perm[n].st = "EXPIRED" /\ UNCHANGED storeVars
     \/ perm[n].st = "CONSUMED" /\ status \in Terminal /\ UNCHANGED storeVars
     \/ /\ perm[n].st = "CONSUMED" /\ status \notin Terminal
        /\ RecordFailed(0, TRUE)
     \/ /\ perm[n].st \in {"APPROVED", "DENIED"}
        /\ status \in Terminal \cup Cancelling
        /\ UNCHANGED storeVars
     \/ /\ perm[n].st \in {"APPROVED", "DENIED"}
        /\ status = "RUNNING" /\ lease = "expired"
        /\ RecordFailed(0, FALSE)
  /\ bus' = Acked(<<"decision", n>>)
  /\ UNCHANGED <<tries, worker, effects, env>>

\* claim_permission_resume, "execute".
ClaimDecision(w, n) ==
  /\ At(w, "idle")
  /\ <<"decision", n>> \in made /\ bus[<<"decision", n>>] = "queue"
  /\ perm[n].st \in {"APPROVED", "DENIED"}
  /\ ClaimPermission(w)
  /\ Become(w, [IdleWorker EXCEPT !.pc = "resolve", !.job = <<"decision", n>>,
                                  !.turn = n, !.attempts = perm[n].attempts,
                                  !.cont = TRUE])
  /\ UNCHANGED <<busVars, effects, env>>

\* resume_permission: the barrier, or the failure of a refused call.
Resolve(w) ==
  /\ At(w, "resolve") /\ ~ worker[w].cancel
  /\ LET n == worker[w].turn IN
       \/ /\ perm[n].st = "APPROVED"
          /\ RecordApproval(n, Held(w, "tool_in_flight"))
          /\ Goto(w, "approved")
       \/ /\ perm[n].st = "DENIED"
          /\ Goto(w, "failed")
          /\ UNCHANGED storeVars
  /\ UNCHANGED <<busVars, effects, env>>

-----------------------------------------------------------------------------
(* Crashes, the user and the control plane.                                 *)

\* The process dies; the message it held stays pending.
Crash(w) ==
  /\ ~ At(w, "idle")
  /\ FlushFaults \/ ~ Flushing(w)
  /\ Fault
  /\ Become(w, IdleWorker)
  /\ UNCHANGED <<storeVars, busVars, effects>>

UserRequest == UserStep /\ UNCHANGED controlVars

\* Unless workers are slow, a worker that runs renews its lease in time.
Attended == \E w \in Workers :
              owner = w /\ worker[w].pc \notin {"idle", "claim", "dead", "ack"}

LeaseTimeout ==
  /\ env.slow \/ ~ Attended
  /\ LeaseExpires
  /\ UNCHANGED controlVars

\* Redis no longer holds the latest job (reconciliation.py), and unless
\* workers are slow, none has it in its hands for longer than the grace.
JobLost ==
  LET last == <<"start", Made("start") - 1>> IN
    /\ bus[last] = "lost"
    /\ env.slow \/ \A w \in Workers : worker[w].job # last

Reconcile ==
  /\ \/ \E n \in Turns : ExpirePermission(n)
     \/ ConfirmPause
     \/ RescheduleRun
     \/ FailExpiredRun
     \/ JobLost /\ (RequeueRun \/ FailQueuedRun)
  /\ UNCHANGED controlVars

-----------------------------------------------------------------------------
MainLoop(w) ==
  \/ \E m \in Jobs : Receive(w, m)
  \/ ClaimToExecute(w) \/ ClaimToCancel(w) \/ ClaimNothing(w) \/ ClaimFails(w)
  \/ DeadLetter(w) \/ Ack(w)
  \/ IdleCancel(w)
  \/ \E m \in PauseCommands : IdlePause(w, m)
  \/ \E n \in Turns : IdleDecision(w, n) \/ ClaimDecision(w, n)

AgentLoop(w) ==
  \/ CancelSeen(w) \/ Stop(w) \/ StartRun(w) \/ LoadCheckpoint(w) \/ ResumeAgain(w)
  \/ CallModel(w) \/ ModelAnswers(w) \/ ModelFails(w) \/ FinishRun(w)
  \/ ChooseTool(w) \/ StartTool(w) \/ AskUser(w) \/ RunTool(w)
  \/ ObserveResult(w) \/ ToolFails(w) \/ Resolve(w)
  \/ Flush(w) \/ EndRun(w) \/ PauseRaises(w) \/ FailBroken(w)

PollThread(w) ==
  \/ PollCancel(w)
  \/ \E m \in PauseCommands : PollPause(w, m)
  \/ SyncDurablePause(w)
  \/ Renew(w)

ControlNext ==
  \/ \E m \in Messages : Publish(m)
  \/ RedisLosesData
  \/ \E w \in Workers : MainLoop(w) \/ AgentLoop(w) \/ PollThread(w)
                          \/ Breaks(w) \/ Crash(w)
  \/ UserRequest
  \/ LeaseTimeout
  \/ Reconcile

ControlSpec == ControlInit /\ [][ControlNext]_vars

\* The publisher loop, the threads of the workers and the reconciliation loop
\* go on for ever; the user, faults and the model's answers are free.
Fairness ==
  /\ WF_vars(\E m \in Messages : Publish(m))
  /\ WF_vars(LeaseTimeout)
  /\ WF_vars(Reconcile)
  /\ \A w \in Workers : WF_vars(MainLoop(w)) /\ WF_vars(AgentLoop(w))
                          /\ WF_vars(PollThread(w))

FairSpec == ControlSpec /\ Fairness

-----------------------------------------------------------------------------
\* An event in the buffer, and the checkpoint that goes with it.
BufferedEvent ==
  {e \in [type : {"started", "modelStarted", "answered", "toolStarted", "finished"},
          turn : 0 .. MaxTurns + 1, ckpt : Sendable] :
     /\ e.type # "modelStarted" => e.turn \in 0 .. MaxTurns
     /\ e.type \in {"toolStarted", "finished"} => e.turn \in Turns}

WorkerState ==
  [pc : PCs, job : Messages \cup {NoJob}, cancel : BOOLEAN,
   pause : NoPause .. MaxPauses, turn : 0 .. MaxTurns + 1,
   attempts : 0 .. MaxRecovery, node : Nodes, id : NoPause .. MaxPauses,
   cont : BOOLEAN, buf : Seq(BufferedEvent)]

TypeOK ==
  /\ StoreTypeOK
  /\ bus \in [Messages -> {"outbox", "queue", "gone", "lost"}]
  /\ tries \in [Jobs -> 0 .. MaxDeliveries]
  /\ worker \in [Workers -> WorkerState]
  /\ effects \in [Turns -> 0 .. 2]
  /\ env \in [faults : 0 .. MaxFaults, slow : SlowWorkers]

\* The documented deployment.
OneWorker == \A w, v \in Workers : w = v

\* While leases are kept, at most one worker executes the run, whatever jobs,
\* commands and decisions are delivered twice or late (claim_job,
\* claim_recovery, claim_permission_resume).
SingleExecutor ==
  ~ env.slow => \A w, v \in Workers :
    worker[w].pc \in Executing /\ worker[v].pc \in Executing => w = v

\* While leases are kept, a paused run, or one whose resume is under way, is
\* not being executed.
ParkedRunIsIdle ==
  ~ env.slow /\ status \in {"PAUSED", "RESUME_REQUESTED"} =>
    \A w \in Workers : worker[w].pc \notin Executing

\* While leases are kept, a parked run can be resumed without doing a tool call
\* twice: its checkpoint is resumable and lies before every tool call that was
\* executed.
ResumePointIsSafe ==
  ~ env.slow /\ status \in {"PAUSED", "RESUME_REQUESTED"} =>
    /\ Resumable(ckpt)
    /\ \A n \in Turns : n >= ckpt.turn => effects[n] = 0

\* No tool call is executed twice while leases are kept, nor by a single worker
\* that has lost its lease without knowing: tool_in_flight is stored before the
\* effect and never resumed (docs/05-agent-runtime-design.md:563).
EffectAtMostOnce ==
  ~ env.slow \/ OneWorker => \A n \in Turns : effects[n] <= 1

\* A tool call that needs approval is executed only if the user approved it,
\* and the decision stands however late the command is.
EffectWasApproved ==
  \A n \in NeedsApproval :
    effects[n] > 0 => perm[n].st \in {"APPROVED", "CONSUMED"}

\* A single worker that keeps its lease executes no tool of a run that has ended.
NoEffectAfterEnd ==
  [][~ env.slow /\ OneWorker /\ effects' # effects => status \notin Terminal]_vars

\* With a single worker that keeps its lease the terminal event is appended once,
\* and the task ends as the run did.
OneEnd == ~ env.slow /\ OneWorker =>
            ended <= 1 /\ (status \in Terminal => task = status)

\* Whoever crashes and whatever Redis loses: a queued run is claimed, requeued or
\* failed; a run does not stay running without anybody executing it; and an
\* accepted pause request is confirmed, or the run ends or is cancelled
\* (reconcile_stale_queued_runs, reconcile_expired_runs, worker.py:525).
RunsMoveOn ==
  \A state \in {"QUEUED", "RUNNING", "PAUSE_REQUESTED"} :
    (status = state) ~> (status # state)

\* An accepted cancel request ends the run.
CancelEnds == (status = "CANCEL_REQUESTED") ~> (status \in Terminal)

=============================================================================
