---------------------------- MODULE Maintenance ----------------------------
(***************************************************************************)
(* Maintenance by confirmed requests (runtime/audit, runtime/runs): the    *)
(* retention of the audit log, the retry of a dead-lettered run by a       *)
(* replacement run, and the repair of a missing terminal event.  Each is   *)
(* asked for first and done when the user confirms the stored request.     *)
(*                                                                         *)
(* A request is identified by what it is about.  Rows of the log are       *)
(* numbered as they are written; the runs are those of one task.           *)
(***************************************************************************)
EXTENDS Naturals, Sequences, FiniteSets

CONSTANTS
  Policies,        \* values of max_candidates that requests name
  MaxScan,         \* max_scan
  StandardDays,    \* standard_days
  ExtendedDays,    \* extended_days
  MaxDenials,      \* denied requests for the same rows after which none follows
  LastDay,         \* bound: days that pass
  OtherRows,       \* bound: length of a log to which others write
  MaxRows,         \* bound: rows of the log
  MaxAsks,         \* bound: requests
  MaxRecords       \* bound: records of the dead-letter stream

ASSUME MaintenanceAssumption ==
  /\ Policies \subseteq Nat \ {0} /\ MaxScan \in Nat \ {0}
  /\ StandardDays \in Nat /\ ExtendedDays \in Nat /\ StandardDays < ExtendedDays
  /\ MaxDenials \in Nat /\ LastDay \in Nat /\ OtherRows \in Nat
  /\ MaxRows \in Nat /\ MaxAsks \in Nat /\ MaxRecords \in Nat

VARIABLES
  day,         \* the clock
  log,         \* audit_logs: class and day of each row ever written
  gone,        \* the rows that were deleted
  request,     \* permission_requests, in the order they were made
  resolving,   \* requests whose approval is between its reads and its commit
  runs,        \* the runs of the task: status and error, run it replaces, events
  parent,      \* the task: status and active_run_id
  dead         \* the dead-letter stream: the run each record is about

maintVars == <<day, log, gone, request, resolving, runs, parent, dead>>

Classes == {"standard", "extended", "permanent"}
Row(class, d) == [class |-> class, day |-> d]
\* why: what it failed of; via: what made it; ended and late: its terminal events,
\* the second those that a repair has written.
Run(status, of, via) ==
  [status |-> status, why |-> "none", of |-> of, via |-> via, ended |-> 0, late |-> 0]
Errors == {"queue", "model", "other"}

\* The failed run has lost its terminal event in an older version.
MaintInit ==
  /\ day = 0 /\ log = << >> /\ gone = {} /\ request = << >> /\ resolving = {} /\ dead = << >>
  /\ \/ /\ runs = <<Run("queued", 0, "task")>>
        /\ parent = [status |-> "running", active |-> 1]
     \/ /\ \E why \in Errors : runs = <<[Run("failed", 0, "task") EXCEPT !.why = why]>>
        /\ parent = [status |-> "failed", active |-> 1]

-----------------------------------------------------------------------------
(* Requests.                                                                 *)

Audit(class) ==
  /\ Len(log) < MaxRows
  /\ log' = Append(log, Row(class, day))

Asked(kind, about) ==
  {i \in DOMAIN request : request[i].kind = kind /\ request[i].about = about}

\* Asking again for the same returns the request there is, whatever its status.
Ask(kind, about, class) ==
  /\ Len(request) < MaxAsks
  /\ request' = Append(request, [kind |-> kind, about |-> about, at |-> day,
                                 status |-> "pending", made |-> 0])
  /\ Audit(class)

\* The request is locked, pending and not past its deadline.
Pending(i, kind) ==
  /\ request[i].kind = kind /\ request[i].status = "pending"
  /\ i \notin resolving

Confirm(i, made) ==
  request' = [request EXCEPT ![i].status = "consumed", ![i].made = made]

\* A request to retry is L3; the other two are kept for ever by level or type.
DecisionClass(kind) == IF kind = "retry" THEN "extended" ELSE "permanent"

Deny(i) ==
  /\ Pending(i, request[i].kind)
  /\ request' = [request EXCEPT ![i].status = "denied"]
  /\ Audit(DecisionClass(request[i].kind))
  /\ UNCHANGED <<day, gone, resolving, runs, parent, dead>>

\* The deadline passes, and the sweep finds the request.
Expire(i) ==
  /\ Pending(i, request[i].kind)
  /\ request' = [request EXCEPT ![i].status = "expired"]
  /\ Audit(IF request[i].kind = "retention" THEN "permanent" ELSE "extended")
  /\ UNCHANGED <<day, gone, resolving, runs, parent, dead>>

-----------------------------------------------------------------------------
(* Retention of the audit log.  The advisory lock makes each of these one   *)
(* step: nothing else deletes, and new rows are too young to be scanned.    *)

FirstOf(n, S) == {i \in S : Cardinality({j \in S : j < i}) < n}

Old(t) ==
  {i \in DOMAIN log \ gone : log[i].day + StandardDays < t}

Outlived(i, t) ==
  \/ log[i].class = "standard" /\ log[i].day + StandardDays < t
  \/ log[i].class = "extended" /\ log[i].day + ExtendedDays < t

\* _scan_retention, as of day t.
Candidates(t, policy) ==
  FirstOf(policy, {i \in FirstOf(MaxScan, Old(t)) : Outlived(i, t)})

\* A denied request may be followed by another one for the same rows.
MayAsk(about) ==
  /\ \A i \in Asked("retention", about) : request[i].status = "denied"
  /\ Cardinality(Asked("retention", about)) < MaxDenials

CreateRetentionRequest(policy) ==
  LET about == [policy |-> policy, rows |-> Candidates(day, policy)]
  IN /\ about.rows # {} /\ MayAsk(about)
     /\ Ask("retention", about, "permanent")
     /\ UNCHANGED <<day, gone, resolving, runs, parent, dead>>

Deletes(i, rows) ==
  /\ gone' = gone \cup rows
  /\ Confirm(i, 0)
  /\ Audit("permanent")
  /\ UNCHANGED <<day, resolving, runs, parent, dead>>

\* Faulty variant: what the scan finds is not compared with what was confirmed.
ApplyRetentionRescanned(i) ==
  /\ Pending(i, "retention")
  /\ Deletes(i, Candidates(request[i].at, request[i].about.policy))

\* Another snapshot than the confirmed one refuses and changes nothing.
ApplyRetention(i) ==
  /\ Pending(i, "retention")
  /\ Candidates(request[i].at, request[i].about.policy) = request[i].about.rows
  /\ Deletes(i, request[i].about.rows)

-----------------------------------------------------------------------------
(* The retry of a run that the queue gave up: _assess_dlq_retry.            *)

FailedOf(r, why) == runs[r].status = "failed" /\ runs[r].why = why

IsLastFailed(r) == parent = [status |-> "failed", active |-> r]

Retryable(r) == FailedOf(r, "queue") /\ IsLastFailed(r)

\* The new run becomes the active one.
Replace(r, via) ==
  /\ runs' = Append(runs, Run("queued", r, via))
  /\ parent' = [status |-> "running", active |-> Len(runs) + 1]

CreateRetryRequest(d) ==
  /\ Retryable(dead[d]) /\ Asked("retry", d) = {}
  /\ Ask("retry", d, "extended")
  /\ UNCHANGED <<day, gone, resolving, runs, parent, dead>>

\* resolve locks the request only, and reads the run and the task ...
BeginRetry(i) ==
  /\ Pending(i, "retry") /\ Retryable(dead[request[i].about])
  /\ resolving' = resolving \cup {i}
  /\ UNCHANGED <<day, log, gone, request, runs, parent, dead>>

\* Faulty variant: the run is made, and the request is left pending.
CommitRetryKeepingRequest(i) ==
  /\ i \in resolving
  /\ Replace(dead[request[i].about], "record")
  /\ Audit("extended")
  /\ resolving' = resolving \ {i}
  /\ UNCHANGED <<day, gone, dead, request>>

\* ... and it writes both: neither update asks for a version.
CommitRetry(i) ==
  /\ i \in resolving
  /\ Replace(dead[request[i].about], "record")
  /\ Confirm(i, Len(runs) + 1)
  /\ Audit("extended")
  /\ resolving' = resolving \ {i}
  /\ UNCHANGED <<day, gone, dead>>

AbortRetry(i) ==
  /\ i \in resolving
  /\ resolving' = resolving \ {i}
  /\ UNCHANGED <<day, log, gone, request, runs, parent, dead>>

-----------------------------------------------------------------------------
(* The retry of a failed model step: no request, and one transaction, since *)
(* it updates the failed run by its version.  A run that was replaced so is *)
(* answered with its replacement.                                           *)

RetryFailedStep(r) ==
  /\ FailedOf(r, "model") /\ IsLastFailed(r)
  /\ \A s \in DOMAIN runs : ~(runs[s].of = r /\ runs[s].via = "step")
  /\ Replace(r, "step")
  /\ Audit("standard")
  /\ UNCHANGED <<day, gone, request, resolving, dead>>

-----------------------------------------------------------------------------
(* The repair of a failed run without a terminal event.                     *)

Repairable(r) ==
  runs[r].status = "failed" /\ runs[r].ended = 0 /\ runs[r].late = 0

CreateRepairRequest(r) ==
  /\ Repairable(r) /\ Asked("repair", r) = {}
  /\ Ask("repair", r, "permanent")
  /\ UNCHANGED <<day, gone, resolving, runs, parent, dead>>

\* Faulty variant: the event is written whatever became of the request.
ApplyRepairUnasked(i) ==
  /\ request[i].kind = "repair" /\ Repairable(request[i].about)
  /\ runs' = [runs EXCEPT ![request[i].about].late = @ + 1]
  /\ Audit("permanent")
  /\ UNCHANGED <<day, gone, request, resolving, parent, dead>>

ApplyRepair(i) ==
  /\ Pending(i, "repair") /\ Repairable(request[i].about)
  /\ runs' = [runs EXCEPT ![request[i].about].late = @ + 1]
  /\ Confirm(i, request[i].about)
  /\ Audit("permanent")
  /\ UNCHANGED <<day, gone, resolving, parent, dead>>

-----------------------------------------------------------------------------
(* The rest of the system.                                                  *)

\* An end marks the task, whichever run is active, and writes its event.
Ends(r, s, why) ==
  /\ runs[r].status = "queued"
  /\ runs' = [runs EXCEPT ![r].status = s, ![r].why = why, ![r].ended = @ + 1]
  /\ parent' = [parent EXCEPT !.status = s]

QueueExhausted(r) ==
  /\ Ends(r, "failed", "queue")
  /\ Audit("standard")
  /\ UNCHANGED <<day, gone, request, resolving, dead>>

\* "model": a recoverable error of a model step before which there is a checkpoint.
RunFails(r, why) ==
  /\ Ends(r, "failed", why)
  /\ UNCHANGED <<day, log, gone, request, resolving, dead>>

\* The message is moved; a job that was enqueued twice leaves two records.
RecordDeadLetter(r) ==
  /\ runs[r].status = "failed" /\ Len(dead) < MaxRecords
  /\ dead' = Append(dead, r)
  /\ UNCHANGED <<day, log, gone, request, resolving, runs, parent>>

RunCompletes(r) ==
  /\ Ends(r, "completed", "none")
  /\ UNCHANGED <<day, log, gone, request, resolving, dead>>

SomethingAudited(class) ==
  /\ Len(log) < OtherRows /\ Audit(class)
  /\ UNCHANGED <<day, gone, request, resolving, runs, parent, dead>>

DayPasses ==
  /\ day < LastDay /\ day' = day + 1
  /\ UNCHANGED <<log, gone, request, resolving, runs, parent, dead>>

MaintNext ==
  \/ \E policy \in Policies : CreateRetentionRequest(policy)
  \/ \E d \in DOMAIN dead : CreateRetryRequest(d)
  \/ \E r \in DOMAIN runs :
       \/ CreateRepairRequest(r) \/ RetryFailedStep(r)
       \/ QueueExhausted(r) \/ RecordDeadLetter(r) \/ RunCompletes(r)
       \/ \E why \in {"model", "other"} : RunFails(r, why)
  \/ \E i \in DOMAIN request :
       \/ Deny(i) \/ Expire(i)
       \/ ApplyRetention(i) \/ ApplyRepair(i)
       \/ BeginRetry(i) \/ CommitRetry(i) \/ AbortRetry(i)
  \/ \E class \in Classes : SomethingAudited(class)
  \/ DayPasses

MaintSpec == MaintInit /\ [][MaintNext]_maintVars

-----------------------------------------------------------------------------
(* Properties.                                                               *)

Consumed(kind) ==
  {i \in DOMAIN request : request[i].kind = kind /\ request[i].status = "consumed"}

MaintTypeOK ==
  /\ day \in 0 .. LastDay
  /\ log \in Seq([class : Classes, day : 0 .. LastDay])
  /\ gone \subseteq DOMAIN log
  /\ \A i \in DOMAIN request :
       /\ request[i].kind \in {"retention", "retry", "repair"}
       /\ request[i].status \in {"pending", "denied", "expired", "consumed"}
  /\ resolving \subseteq DOMAIN request
  /\ \A r \in DOMAIN runs :
       /\ runs[r].status \in {"queued", "failed", "completed"}
       /\ runs[r].why \in {"none"} \cup Errors
       /\ runs[r].via \in {"task", "record", "step"}
  /\ parent.active \in DOMAIN runs
  /\ \A d \in DOMAIN dead : dead[d] \in DOMAIN runs

\* Whatever was asked for, denied, asked again and confirmed late: the rows that
\* are gone are those of the confirmed snapshots, whole, each confirmed once, and
\* each had outlived its term when its deletion was asked for
\* (audit/service.py:536, :439; docs/13-interface-contract.md:1063).
NothingGoesUnconfirmed ==
  /\ \A i \in Consumed("retention") : request[i].about.rows \subseteq gone
  /\ \A row \in gone : \E i \in Consumed("retention") :
       /\ row \in request[i].about.rows /\ Outlived(row, request[i].at)
       /\ \A j \in Consumed("retention") : row \in request[j].about.rows => j = i

\* No two confirmed requests of one kind have made the same thing.
ConfirmedApart ==
  \A kind \in {"retry", "repair"} : \A i, j \in Consumed(kind) :
    request[i].made = request[j].made => i = j

\* The terminal events that were written later are those of confirmed requests.
RepairedAsConfirmed ==
  \A r \in DOMAIN runs :
    /\ runs[r].ended + runs[r].late <= 1
    /\ runs[r].late # 0 <=> \E i \in Consumed("repair") : request[i].made = r

\* The runs that replace a run of the dead-letter queue are those of confirmed
\* requests, each for a record of the run it replaces.
ReplacedAsConfirmed ==
  /\ \A r \in DOMAIN runs : runs[r].via = "record" =>
       \E i \in Consumed("retry") :
         request[i].made = r /\ dead[request[i].about] = runs[r].of
  /\ \A i \in Consumed("retry") : runs[request[i].made].via = "record"

\* A run that a model error ended has one replacement at most, without a request.
ReplacedByStep ==
  \A r \in DOMAIN runs : runs[r].via = "step" =>
    /\ FailedOf(runs[r].of, "model")
    /\ \A s \in DOMAIN runs : runs[s].of = runs[r].of => s = r

\* Although requests are confirmed late and the retry reads without a lock: a terminal
\* event is written later, and a run of the dead-letter queue replaced, by a confirmed
\* request of its own, and every confirmed request has done it; no run ends twice. The
\* one replacement nobody confirms, that of a run ended by a recoverable model error,
\* is the only one of its run (runs/service.py:381, :567, :206;
\* docs/08-permission-security-design.md:202, :205).
RepairsAreConfirmed ==
  ConfirmedApart /\ RepairedAsConfirmed /\ ReplacedAsConfirmed /\ ReplacedByStep

\* At most one run replaces a failed one (docs/14-data-schema.md:1451).
OneReplacement ==
  \A r, s \in DOMAIN runs : runs[r].of = runs[s].of /\ runs[r].of # 0 => r = s
=============================================================================
