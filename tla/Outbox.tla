------------------------------- MODULE Outbox -------------------------------
(***************************************************************************)
(* The transactional outbox of the agent worker (database/outbox): rows    *)
(* written with the business data are claimed under a lease by a           *)
(* publisher, added to a Redis stream by an atomic dedupe-and-add script   *)
(* outside any transaction, and marked by a second transaction.  A         *)
(* reconciliation job gives rows with an expired lease back.               *)
(*                                                                         *)
(* The outcome of a batch is written without looking at the row again      *)
(* (claimed_by is never read), so a publisher whose lease ran out still    *)
(* overwrites what another publisher did.  That is the interesting part.   *)
(*                                                                         *)
(* Abstractions.  next_retry_at: a pending row may or may not be due, so a *)
(* claim takes any non-empty set of at most BatchSize pending rows, in no  *)
(* order.  The three streams are one.  MAXLEN trimming is left out.        *)
(***************************************************************************)
EXTENDS Integers, FiniteSets

CONSTANTS Events,         \* outbox events
          Publishers,     \* processes running OutboxPublisher
          Unpublishable,  \* events of unknown type or with a malformed payload
          BatchSize,      \* rows of one claim
          MaxRetries,     \* max_retries of a row
          MaxFaults       \* bound on Redis errors, crashes and data losses

ASSUME OutboxAssumption ==
  /\ Unpublishable \subseteq Events
  /\ BatchSize \in Nat \ {0}
  /\ MaxRetries \in Nat \ {0}
  /\ MaxFaults \in Nat

VARIABLES
  status,     \* status[e]: column status, "absent" before the row exists
  retry,      \* retry[e]: column retry_count
  lease,      \* lease[e]: column lease_until, as "none", "live", "expired"
  todo,       \* todo[p]: claimed rows p has not tried yet
  ok,         \* ok[p]: success_ids
  bad,        \* bad[p]: failed_info
  copies,     \* copies[e]: entries of e on the stream
  dedupe,     \* events whose dedupe key is set in Redis
  published,  \* history: events that were added to a stream at least once
  errors,     \* history: errors[e], attempts on e that raised
  faults      \* faults so far, at most MaxFaults

rowVars   == <<status, retry, lease>>
batchVars == <<todo, ok, bad>>
redisVars == <<copies, dedupe, published>>
vars == <<status, retry, lease, todo, ok, bad, copies, dedupe, published,
          errors, faults>>

Status == {"absent", "pending", "dispatching", "delivered", "dead"}

TypeOK == /\ status \in [Events -> Status]
          /\ retry \in [Events -> Nat]
          /\ lease \in [Events -> {"none", "live", "expired"}]
          /\ todo \in [Publishers -> SUBSET Events]
          /\ ok \in [Publishers -> SUBSET Events]
          /\ bad \in [Publishers -> SUBSET Events]
          /\ copies \in [Events -> Nat]
          /\ dedupe \in SUBSET Events
          /\ published \in SUBSET Events
          /\ errors \in [Events -> Nat]
          /\ faults \in 0 .. MaxFaults

Init == /\ status = [e \in Events |-> "absent"]
        /\ retry = [e \in Events |-> 0]
        /\ lease = [e \in Events |-> "none"]
        /\ todo = [p \in Publishers |-> {}]
        /\ ok = [p \in Publishers |-> {}]
        /\ bad = [p \in Publishers |-> {}]
        /\ copies = [e \in Events |-> 0]
        /\ dedupe = {}
        /\ published = {}
        /\ errors = [e \in Events |-> 0]
        /\ faults = 0

-----------------------------------------------------------------------------
Held(p) == todo[p] \cup ok[p] \cup bad[p]

Idle(p) == Held(p) = {}

Settled(e) == status[e] \in {"delivered", "dead"}

\* A business transaction inserts the row.
Create(e) ==
  /\ status[e] = "absent"
  /\ status' = [status EXCEPT ![e] = "pending"]
  /\ UNCHANGED <<retry, lease, batchVars, redisVars, errors, faults>>

\* First transaction of publish_once.
ClaimPending(p) ==
  /\ Idle(p)
  /\ \E S \in SUBSET {e \in Events : status[e] = "pending"} :
       /\ S # {}
       /\ Cardinality(S) <= BatchSize
       /\ status' = [e \in Events |-> IF e \in S THEN "dispatching" ELSE status[e]]
       /\ lease' = [e \in Events |-> IF e \in S THEN "live" ELSE lease[e]]
       /\ todo' = [todo EXCEPT ![p] = S]
  /\ UNCHANGED <<retry, ok, bad, redisVars, errors, faults>>

\* Faulty variant: the script adds without looking at the dedupe key.
RedisAddAlways(e) ==
  /\ dedupe' = dedupe \cup {e}
  /\ copies' = [copies EXCEPT ![e] = @ + 1]
  /\ published' = published \cup {e}

\* The script ATOMIC_XADD_SCRIPT as Redis runs it: add unless the key is set.
RedisAdd(e) ==
  /\ dedupe' = dedupe \cup {e}
  /\ copies' = IF e \in dedupe THEN copies ELSE [copies EXCEPT ![e] = @ + 1]
  /\ published' = published \cup {e}

\* The call answers; "already there" counts as success too.
PublishOk(p, e) ==
  /\ e \in todo[p] \ Unpublishable
  /\ RedisAdd(e)
  /\ todo' = [todo EXCEPT ![p] = @ \ {e}]
  /\ ok' = [ok EXCEPT ![p] = @ \cup {e}]
  /\ UNCHANGED <<rowVars, bad, errors, faults>>

\* The call raises, before Redis ran the script or after it (lost answer).
PublishError(p, e) ==
  /\ e \in todo[p] \ Unpublishable
  /\ faults < MaxFaults
  /\ RedisAdd(e) \/ UNCHANGED redisVars
  /\ todo' = [todo EXCEPT ![p] = @ \ {e}]
  /\ bad' = [bad EXCEPT ![p] = @ \cup {e}]
  /\ errors' = [errors EXCEPT ![e] = @ + 1]
  /\ faults' = faults + 1
  /\ UNCHANGED <<rowVars, ok>>

\* Faulty variant: an event that is skipped counts as a success.
RejectAsSuccess(p, e) ==
  /\ e \in todo[p] \cap Unpublishable
  /\ todo' = [todo EXCEPT ![p] = @ \ {e}]
  /\ ok' = [ok EXCEPT ![p] = @ \cup {e}]
  /\ UNCHANGED <<rowVars, bad, redisVars, errors, faults>>

\* Unknown event type, or _build_xadd_fields raises: Redis is not called.
RejectEvent(p, e) ==
  /\ e \in todo[p] \cap Unpublishable
  /\ todo' = [todo EXCEPT ![p] = @ \ {e}]
  /\ bad' = [bad EXCEPT ![p] = @ \cup {e}]
  /\ errors' = [errors EXCEPT ![e] = @ + 1]
  /\ UNCHANGED <<rowVars, ok, redisVars, faults>>

\* mark_failed decides from the row's own retry_count.
FailedStatus(e) == IF retry[e] + 1 >= MaxRetries THEN "dead" ELSE "pending"

\* Last transaction of publish_once: mark_delivered, then mark_failed.
MarkResults(p) ==
  /\ todo[p] = {} /\ ~ Idle(p)
  /\ status' = [e \in Events |-> CASE e \in bad[p] -> FailedStatus(e)
                                   [] e \in ok[p] \ bad[p] -> "delivered"
                                   [] OTHER -> status[e]]
  /\ retry' = [e \in Events |-> IF e \in bad[p] THEN retry[e] + 1 ELSE retry[e]]
  /\ lease' = [e \in Events |-> IF e \in Held(p) THEN "none" ELSE lease[e]]
  /\ ok' = [ok EXCEPT ![p] = {}]
  /\ bad' = [bad EXCEPT ![p] = {}]
  /\ UNCHANGED <<todo, redisVars, errors, faults>>

\* The process dies, is cancelled, or its last transaction fails: the batch
\* is forgotten and only the lease gives the rows back.
Forget(p) ==
  /\ ~ Idle(p)
  /\ faults < MaxFaults
  /\ todo' = [todo EXCEPT ![p] = {}]
  /\ ok' = [ok EXCEPT ![p] = {}]
  /\ bad' = [bad EXCEPT ![p] = {}]
  /\ faults' = faults + 1
  /\ UNCHANGED <<rowVars, redisVars, errors>>

\* Time passes; the publisher is not told.
LeaseExpires(e) ==
  /\ lease[e] = "live"
  /\ lease' = [lease EXCEPT ![e] = "expired"]
  /\ UNCHANGED <<status, retry, batchVars, redisVars, errors, faults>>

\* Faulty variant: only rows that failed before are given back.
StaleAfterFailure(e) ==
  status[e] = "dispatching" /\ lease[e] = "expired" /\ retry[e] > 0

Stale(e) == status[e] = "dispatching" /\ lease[e] = "expired"

\* Faulty variant: an expired lease uses up an attempt.
ResetCountsAttempt ==
  /\ \E e \in Events : Stale(e)
  /\ status' = [e \in Events |-> IF Stale(e) THEN "pending" ELSE status[e]]
  /\ lease' = [e \in Events |-> IF Stale(e) THEN "none" ELSE lease[e]]
  /\ retry' = [e \in Events |-> IF Stale(e) THEN retry[e] + 1 ELSE retry[e]]
  /\ UNCHANGED <<batchVars, redisVars, errors, faults>>

\* reset_stale_dispatching, run by the reconciliation job.
ResetStaleDispatching ==
  /\ \E e \in Events : Stale(e)
  /\ status' = [e \in Events |-> IF Stale(e) THEN "pending" ELSE status[e]]
  /\ lease' = [e \in Events |-> IF Stale(e) THEN "none" ELSE lease[e]]
  /\ UNCHANGED <<retry, batchVars, redisVars, errors, faults>>

\* Faulty variant: the key expires before the last retry.
DedupeKeyExpiresEarly(e) ==
  /\ e \in dedupe
  /\ dedupe' = dedupe \ {e}
  /\ UNCHANGED <<rowVars, batchVars, copies, published, errors, faults>>

\* The key's 24 h are over.  Timing assumption: they outlast every attempt to
\* deliver the event, so the row is settled and no publisher holds it.
DedupeKeyExpires(e) ==
  /\ e \in dedupe
  /\ Settled(e)
  /\ \A p \in Publishers : e \notin Held(p)
  /\ dedupe' = dedupe \ {e}
  /\ UNCHANGED <<rowVars, batchVars, copies, published, errors, faults>>

\* Redis comes back empty, streams and keys together.
RedisLosesData ==
  /\ faults < MaxFaults
  /\ copies' = [e \in Events |-> 0]
  /\ dedupe' = {}
  /\ faults' = faults + 1
  /\ UNCHANGED <<rowVars, batchVars, published, errors>>

Next == \/ \E e \in Events : \/ Create(e)
                             \/ LeaseExpires(e)
                             \/ DedupeKeyExpires(e)
        \/ \E p \in Publishers : \/ ClaimPending(p)
                                 \/ MarkResults(p)
                                 \/ Forget(p)
        \/ \E p \in Publishers, e \in Events : \/ PublishOk(p, e)
                                               \/ PublishError(p, e)
                                               \/ RejectEvent(p, e)
        \/ ResetStaleDispatching
        \/ RedisLosesData

Spec == Init /\ [][Next]_vars

\* The publisher and the reconciliation job are loops that log an exception
\* and go on (_loop of both), and time passes.
Fairness ==
  /\ \A p \in Publishers :
       /\ WF_vars(ClaimPending(p))
       /\ WF_vars(MarkResults(p))
       /\ WF_vars(\E e \in Events : PublishOk(p, e) \/ RejectEvent(p, e))
  /\ \A e \in Events : WF_vars(LeaseExpires(e))
  /\ WF_vars(ResetStaleDispatching)

FairSpec == Spec /\ Fairness

-----------------------------------------------------------------------------
\* Two publishers that both hold an event after a lease ran out, a lost
\* answer followed by a retry, or a late mark_failed that reopens a delivered
\* row never put a second entry on the stream (publisher.py, Lua script).
NoDuplicateOnStream == \A e \in Events : copies[e] <= 1

\* "delivered" is never a lie, although a publisher marks rows it no longer
\* holds: the event has been on a stream (mark_delivered of success_ids).
DeliveredWasPublished ==
  \A e \in Events : status[e] = "delivered" => e \in published

\* Only an attempt that raised uses up the retry budget: crashes, expired
\* leases and the resets that follow do not (mark_failed, retry_count).
BudgetOnlyForErrors ==
  \A e \in Events :
    retry[e] + Cardinality({p \in Publishers : e \in bad[p]}) <= errors[e]

\* Every event that was recorded ends, for good, as delivered or dead: the
\* reopening of rows by late markers comes to an end.
EventuallySettled ==
  \A e \in Events : (status[e] = "pending") ~> [](Settled(e))

Abstract == INSTANCE AbstractOutbox
              WITH recorded <- {e \in Events : status[e] # "absent"}

\* The publishers together implement the promise of AbstractOutbox.
ImplementsAbstract == Abstract!Spec
=============================================================================
