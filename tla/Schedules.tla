------------------------------ MODULE Schedules ------------------------------
(***************************************************************************)
(* One scheduled task (runtime/schedules/service.py): a scanner in every   *)
(* control-plane process turns the time slots that have come into          *)
(* executions, a request of the user adds one by hand, and both hand an    *)
(* execution over to create_task.  The lease of an execution, the lookup   *)
(* of its task, create_task and the final record are four transactions.    *)
(***************************************************************************)
EXTENDS Naturals

CONSTANTS
  Scanners,          \* the loops of ScheduledTaskWorker, one per process
  Handlers,          \* requests that trigger an execution by hand
  LastSlot,          \* bound: the slots of the plan are 1..LastSlot
  MaxDispatches,     \* budget of dispatch attempts
  NoRow,             \* no execution
  MaxEdits,          \* bound: how often the user pauses or resumes
  MaxScheduleFaults  \* bound: crashes of a process

ASSUME SchedulesAssumption ==
  /\ Scanners \cap Handlers = {} /\ Handlers \cap 1..LastSlot = {}
  /\ LastSlot \in Nat \ {0} /\ MaxDispatches \in Nat \ {0}
  /\ MaxEdits \in Nat /\ MaxScheduleFaults \in Nat

VARIABLES
  clock,       \* the last slot whose time has come
  schedule,    \* the row of scheduled_tasks: its status and next_run_at
  execution,   \* the rows of scheduled_task_executions, by slot or by request
  tasks,       \* how many tasks carry the id of each execution
  dispatcher,  \* per process: where tick, trigger_now or _dispatch is
  schedUsed    \* how much of each bound is used up

schedVars == <<clock, schedule, execution, tasks, dispatcher, schedUsed>>

Slots == 1..LastSlot
Executions == Slots \cup Handlers     \* a request makes at most one execution
Dispatchers == Scanners \cup Handlers

ExecutionStatus == {"none", "pending", "dispatching", "dispatched", "failed"}

NoExecution == [status |-> "none", attempts |-> 0, lease |-> "none"]
NewExecution == [NoExecution EXCEPT !.status = "pending"]

\* todo: the executions dispatch_pending has found, the one under way included.
Resting == [at |-> "idle", todo |-> {}, now |-> NoRow]

SchedInit ==
  /\ clock = 0
  /\ schedule = [status |-> "active", next |-> 1]
  /\ execution = [e \in Executions |-> NoExecution]
  /\ tasks = [e \in Executions |-> 0]
  /\ dispatcher = [d \in Dispatchers |-> Resting]
  /\ schedUsed = [edits |-> 0, faults |-> 0]

-----------------------------------------------------------------------------
(* The scan: ScheduledTaskApplicationService.tick.                          *)

Due == schedule.status = "active" /\ schedule.next <= clock

At(d, at) == dispatcher' = [dispatcher EXCEPT ![d].at = at]

\* The transaction of tick: one slot per scan, so missed slots are caught up.  A
\* tick that finds nothing due changes nothing and goes on to ListPending.
Tick(d) ==
  /\ dispatcher[d] = Resting /\ Due
  /\ execution' = [execution EXCEPT ![schedule.next] = NewExecution]
  /\ schedule' = [schedule EXCEPT !.next = @ + 1]
  /\ At(d, "scanned")
  /\ UNCHANGED <<clock, tasks, schedUsed>>

DispatchablePending(e) == execution[e].status = "pending"    \* variant: no lease runs out
Dispatchable(e) ==
  \/ execution[e].status = "pending"
  \/ execution[e].status = "dispatching" /\ execution[e].lease = "expired"

\* dispatch_pending reads the candidates without a lock.
ListPending(d) ==
  LET found == {e \in Executions : Dispatchable(e)}
  IN /\ dispatcher[d].at \in {"idle", "scanned"}
     /\ dispatcher' = [dispatcher EXCEPT ![d] =
          IF found = {} THEN Resting
                        ELSE [Resting EXCEPT !.at = "dispatching", !.todo = found]]
     /\ UNCHANGED <<clock, schedule, execution, tasks, schedUsed>>

\* trigger_now: whatever the status of the plan.
Trigger(h) ==
  /\ dispatcher[h] = Resting /\ execution[h] = NoExecution
  /\ execution' = [execution EXCEPT ![h] = NewExecution]
  /\ dispatcher' = [dispatcher EXCEPT ![h] =
       [Resting EXCEPT !.at = "dispatching", !.todo = {h}]]
  /\ UNCHANGED <<clock, schedule, tasks, schedUsed>>

-----------------------------------------------------------------------------
(* The dispatch of one execution: _dispatch.                                *)

\* Done with the execution e, for good or until another scan finds it again.
Leaves(d, e) ==
  LET left == dispatcher[d].todo \ {e}
  IN dispatcher' = [dispatcher EXCEPT ![d] =
       IF left = {} THEN Resting
                    ELSE [Resting EXCEPT !.at = "dispatching", !.todo = left]]

Leasable(e) ==
  \/ execution[e].status = "pending"
  \/ execution[e].status = "dispatching" /\ execution[e].lease # "live"

\* The first transaction, which reads the execution FOR UPDATE.
Lease(d, e) ==
  /\ dispatcher[d].at = "dispatching" /\ e \in dispatcher[d].todo
  /\ \/ /\ ~Leasable(e)
        /\ Leaves(d, e)
        /\ UNCHANGED execution
     \/ /\ Leasable(e) /\ execution[e].attempts >= MaxDispatches
        /\ execution' = [execution EXCEPT ![e].status = "failed"]
        /\ Leaves(d, e)
     \/ /\ Leasable(e) /\ execution[e].attempts < MaxDispatches
        /\ execution' = [execution EXCEPT ![e].status = "dispatching",
                                          ![e].attempts = @ + 1, ![e].lease = "live"]
        /\ dispatcher' = [dispatcher EXCEPT ![d].at = "leased", ![d].now = e]
  /\ UNCHANGED <<clock, schedule, tasks, schedUsed>>

\* get_by_scheduled_execution, without a lock.
Lookup(d) ==
  /\ dispatcher[d].at = "leased"
  /\ At(d, IF tasks[dispatcher[d].now] > 0 THEN "known" ELSE "unknown")
  /\ UNCHANGED <<clock, schedule, execution, tasks, schedUsed>>

\* Faulty variant: nothing makes scheduled_execution_id unique.
CreateTaskAgain(d) ==
  LET e == dispatcher[d].now
  IN /\ dispatcher[d].at = "unknown"
     /\ tasks' = [tasks EXCEPT ![e] = @ + 1] /\ At(d, "known")
     /\ UNCHANGED <<clock, schedule, execution, schedUsed>>

\* create_task commits the task, its run and the start job; the unique
\* scheduled_execution_id refuses a second task.
CreateTask(d) ==
  LET e == dispatcher[d].now
  IN /\ dispatcher[d].at = "unknown"
     /\ IF tasks[e] = 0
          THEN tasks' = [tasks EXCEPT ![e] = @ + 1] /\ At(d, "known")
          ELSE UNCHANGED tasks /\ Leaves(d, e)
     /\ UNCHANGED <<clock, schedule, execution, schedUsed>>

\* The last transaction, whatever has become of the execution meanwhile.
RecordDispatch(d) ==
  LET e == dispatcher[d].now
  IN /\ dispatcher[d].at = "known"
     /\ execution' = [execution EXCEPT ![e].status = "dispatched", ![e].lease = "none"]
     /\ Leaves(d, e)
     /\ UNCHANGED <<clock, schedule, tasks, schedUsed>>

\* The lookup, create_task or the last transaction raises: the error is logged
\* and the lease has to run out.
DispatchFails(d) ==
  /\ dispatcher[d].at \in {"leased", "unknown", "known"}
  /\ Leaves(d, dispatcher[d].now)
  /\ UNCHANGED <<clock, schedule, execution, tasks, schedUsed>>

-----------------------------------------------------------------------------
(* The user, time and crashes.                                              *)

\* set_status; resuming skips the slots that came while the plan was paused.
SetStatus(status) ==
  /\ schedUsed.edits < MaxEdits
  /\ schedUsed' = [schedUsed EXCEPT !.edits = @ + 1]
  /\ schedule' = [status |-> status,
                  next |-> IF status = "active" /\ schedule.next <= clock
                             THEN clock + 1 ELSE schedule.next]
  /\ UNCHANGED <<clock, execution, tasks, dispatcher>>

SlotComes ==
  /\ clock < LastSlot
  /\ clock' = clock + 1
  /\ UNCHANGED <<schedule, execution, tasks, dispatcher, schedUsed>>

\* Sixty seconds pass: an execution may still be in the hands of a dispatcher.
DispatchLeaseEnds(e) ==
  /\ execution[e].lease = "live"
  /\ execution' = [execution EXCEPT ![e].lease = "expired"]
  /\ UNCHANGED <<clock, schedule, tasks, dispatcher, schedUsed>>

DispatcherCrash(d) ==
  /\ schedUsed.faults < MaxScheduleFaults /\ dispatcher[d] # Resting
  /\ schedUsed' = [schedUsed EXCEPT !.faults = @ + 1]
  /\ dispatcher' = [dispatcher EXCEPT ![d] = Resting]
  /\ UNCHANGED <<clock, schedule, execution, tasks>>

Dispatches(d) ==
  \/ \E e \in Executions : Lease(d, e)
  \/ Lookup(d) \/ CreateTask(d) \/ RecordDispatch(d) \/ DispatchFails(d)

Scans(d) == Tick(d) \/ ListPending(d)

SchedNext ==
  \/ \E d \in Scanners : Scans(d)
  \/ \E d \in Dispatchers : Dispatches(d) \/ DispatcherCrash(d)
  \/ \E h \in Handlers : Trigger(h)
  \/ \E status \in {"active", "paused"} : SetStatus(status)
  \/ SlotComes
  \/ \E e \in Executions : DispatchLeaseEnds(e)

\* The scanners loop for ever, what they have begun goes on, and time passes.
SchedFairness ==
  /\ \A d \in Scanners : WF_schedVars(Scans(d) \/ Dispatches(d))
  /\ WF_schedVars(\E e \in Executions : DispatchLeaseEnds(e))

SchedSpec == SchedInit /\ [][SchedNext]_schedVars /\ SchedFairness

-----------------------------------------------------------------------------
(* Properties.                                                               *)

SchedTypeOK ==
  /\ clock \in 0..LastSlot
  /\ schedule \in [status : {"active", "paused"}, next : 1..(LastSlot + 1)]
  /\ execution \in [Executions -> [status : ExecutionStatus,
                                   attempts : 0..MaxDispatches,
                                   lease : {"none", "live", "expired"}]]
  /\ tasks \in [Executions -> Nat]
  /\ dispatcher \in [Dispatchers ->
       [at : {"idle", "scanned", "dispatching", "leased", "unknown", "known"},
        todo : SUBSET Executions, now : Executions \cup {NoRow}]]
  /\ schedUsed \in [edits : 0..MaxEdits, faults : 0..MaxScheduleFaults]

\* However many processes dispatch an execution, and whenever one of them dies,
\* it makes one task at most, none before its slot has come, and an execution
\* that says it was dispatched has one (docs/05-agent-runtime-design.md:761).
OneTaskPerExecution ==
  \A e \in Executions :
    /\ tasks[e] <= 1
    /\ execution[e].status = "dispatched" => tasks[e] = 1
    /\ tasks[e] > 0 => execution[e].status # "none" /\ (e \in Slots => e <= clock)

Unborn(e) == execution[e].status = "none"

\* Every slot of an active plan is executed: it gets an execution unless the user
\* pauses the plan, and every execution is dispatched or fails in the end.
SlotsAreServed ==
  \A e \in Executions :
    (~Unborn(e) \/ (schedule.status = "active" /\ schedule.next = e /\ e <= clock))
      ~> \/ execution[e].status \in {"dispatched", "failed"}
         \/ Unborn(e) /\ (schedule.status = "paused" \/ schedule.next # e)
=============================================================================
