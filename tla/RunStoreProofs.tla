--------------------------- MODULE RunStoreProofs ---------------------------
(***************************************************************************)
(* Theorems about RunStore: they hold for every behaviour of the callers.  *)
(***************************************************************************)
EXTENDS RunStore, TLAPS

\* The lease follows the status: a run that executes or waits for its user
\* has one, a run that has not started or has ended has none.
LeaseFollowsStatus ==
  /\ status \in {"RUNNING", "PAUSE_REQUESTED", "WAITING_PERMISSION"}
       => owner \in Workers /\ lease # "none"
  /\ status \in Terminal \cup {"QUEUED"} => lease = "none"

\* What is stored to resume from was sent by a worker, within the budget of
\* recoveries, as were the attempts kept with a permission request.
StoredInBounds ==
  /\ ckpt \in Sendable \cup {NoCkpt}
  /\ \A n \in Turns : perm[n].attempts \in 0 .. MaxRecovery

\* A cancel request is never taken back: the run is being cancelled or has ended.
CancelStands ==
  /\ status \in Cancelling => CancelCommand \in made
  /\ CancelCommand \in made => status \in Cancelling \cup Terminal

StoreInv == StoreTypeOK /\ LeaseFollowsStatus /\ DecisionIsBacked
              /\ StoredInBounds /\ CancelStands

-----------------------------------------------------------------------------
\* The numbers a checkpoint may carry are those of the type.
LEMMA SendableType == Sendable \subseteq Checkpoint
  BY StoreAssumption DEF Sendable, Checkpoint, Nodes, ResumableNodes

\* Jobs and commands are inbox keys.
LEMMA MessageType == Messages \subseteq Keys
  BY StoreAssumption DEF Messages, Jobs, StartJobs, ResumeJobs, PauseCommands,
     Decisions, CancelCommand, Turns, Keys, Kinds

\* The empty checkpoint and one with an attempt more are checkpoints.
LEMMA CkptType ==
  /\ NoCkpt \in Checkpoint
  /\ \A c \in Checkpoint : [c EXCEPT !.attempts = @ + 1] \in Checkpoint
  BY StoreAssumption DEF NoCkpt, Checkpoint, Nodes

\* Types are preserved by claims, requests and control steps.
LEMMA TypeStep1 ==
  StoreTypeOK /\ (WorkerStep \/ UserStep \/ ControlStep) => StoreTypeOK'
<1> SUFFICES ASSUME StoreTypeOK, WorkerStep \/ UserStep \/ ControlStep
             PROVE  StoreTypeOK'
  OBVIOUS
<1> USE DEF StoreTypeOK, Status, Terminal, Cancelling, PermStatus
<1>0. NoCkpt \in Checkpoint
  BY CkptType
<1>1. ASSUME NEW w \in Workers, NEW m \in StartJobs, ClaimJob(w, m)
      PROVE  StoreTypeOK'
  BY <1>1, MessageType DEF ClaimJob, Lock, Consume, Messages, Jobs
<1>2. ASSUME NEW w \in Workers, NEW m \in ResumeJobs, ClaimRecovery(w, m)
      PROVE  StoreTypeOK'
  BY <1>2, CkptType, MessageType DEF ClaimRecovery, Lock, Consume, Messages, Jobs
<1>3. ASSUME NEW w \in Workers, ClaimPermission(w) PROVE StoreTypeOK'
  BY <1>3 DEF ClaimPermission, Lock
<1>4. ASSUME NEW w \in Workers, RenewLease(w) PROVE StoreTypeOK'
  BY <1>4 DEF RenewLease
<1>5. ASSUME NEW m \in StartJobs, ClaimCancelledJob(m) PROVE StoreTypeOK'
  BY <1>5, MessageType DEF ClaimCancelledJob, Consume, Messages, Jobs
<1>6. ASSUME NEW m \in ResumeJobs, RefuseRecovery(m) PROVE StoreTypeOK'
  BY <1>6, MessageType DEF RefuseRecovery, Consume, Messages, Jobs
<1>7. CASE FailDelivery
  BY <1>7, <1>0 DEF FailDelivery, FailClosed
<1>8. CASE CancelRun
  BY <1>8 DEF CancelRun, Messages
<1>9. CASE PauseRun
  BY <1>9 DEF PauseRun, Messages
<1>10. CASE ResumeRun
  BY <1>10 DEF ResumeRun, NewResumeJob, Messages, Jobs
<1>11. ASSUME NEW n \in Turns, NEW d \in {"APPROVED", "DENIED"}, Decide(n, d)
       PROVE  StoreTypeOK'
  <2>1. <<"decision", n>> \in Messages
    BY DEF Messages, Decisions
  <2>2. QED
    BY <1>11, <2>1 DEF Decide
<1>12. CASE LeaseExpires
  BY <1>12 DEF LeaseExpires
<1>13. ASSUME NEW n \in Turns, ExpirePermission(n) PROVE StoreTypeOK'
  BY <1>13, <1>0 DEF ExpirePermission, FailClosed
<1>14. CASE ConfirmPause
  BY <1>14 DEF ConfirmPause, Park
<1>15. CASE RescheduleRun
  BY <1>15 DEF RescheduleRun, Park, NewResumeJob, Messages, Jobs
<1>16. CASE FailExpiredRun
  BY <1>16, <1>0 DEF FailExpiredRun, FailClosed
<1>17. CASE RequeueRun
  BY <1>17 DEF RequeueRun, Messages, Jobs
<1>18. CASE FailQueuedRun
  BY <1>18 DEF FailQueuedRun
<1>19. QED
  BY <1>1, <1>2, <1>3, <1>4, <1>5, <1>6, <1>7, <1>8, <1>9, <1>10, <1>11,
     <1>12, <1>13, <1>14, <1>15, <1>16, <1>17, <1>18
  DEF WorkerStep, UserStep, ControlStep

\* Types are preserved by the events of workers.
LEMMA TypeStep2 == StoreTypeOK /\ EventStep => StoreTypeOK'
<1> SUFFICES ASSUME StoreTypeOK, EventStep PROVE StoreTypeOK'
  OBVIOUS
<1> USE DEF StoreTypeOK, Status, Terminal, Cancelling, PermStatus, Once,
            Consume, storeVars
<1>a. NoCkpt \in Checkpoint
  BY CkptType
<1>b. ASSUME NEW c \in Sendable PROVE c \in Checkpoint
  BY SendableType
<1>c. /\ 0 .. MaxTurns + 1 \subseteq Nat /\ 0 .. MaxTurns \subseteq Nat
      /\ 1 .. MaxTurns + 1 \subseteq Nat /\ Turns \subseteq Nat
      /\ 0 .. MaxPauses \subseteq Nat /\ 1 .. MaxResumes \subseteq Nat
      /\ 0 .. MaxRecovery \subseteq Nat
  BY StoreAssumption DEF Turns
<1>1. ASSUME NEW c \in Sendable,
             NEW type \in {"started", "answered", "toolStarted"},
             NEW n \in 0 .. MaxTurns, RecordStep(type, n, c)
      PROVE  StoreTypeOK'
  <2>1. <<type, n>> \in Keys
    BY <1>c DEF Keys, Kinds
  <2>2. QED
    BY <1>1, <1>b, <2>1 DEF RecordStep
<1>2. ASSUME NEW c \in Sendable, NEW n \in Turns, RecordToolFinished(n, c)
      PROVE  StoreTypeOK'
  <2>1. <<"finished", n>> \in Keys
    BY <1>c DEF Keys, Kinds
  <2>2. QED
    BY <1>2, <1>b, <2>1 DEF RecordToolFinished
<1>3. ASSUME NEW c \in Sendable, NEW n \in Turns, RecordApproval(n, c)
      PROVE  StoreTypeOK'
  <2>1. <<"resolved", n>> \in Keys
    BY <1>c DEF Keys, Kinds
  <2>2. QED
    BY <1>3, <1>b, <2>1 DEF RecordApproval
<1>4. ASSUME NEW c \in Sendable, NEW k \in 0 .. MaxPauses, RecordPaused(k, c)
      PROVE  StoreTypeOK'
  <2>1. <<"paused", k>> \in Keys
    BY <1>c DEF Keys, Kinds
  <2>2. QED
    BY <1>4, <1>b, <2>1 DEF RecordPaused
<1>5. ASSUME NEW n \in Turns, NEW a \in 0 .. MaxRecovery, RecordRequired(n, a)
      PROVE  StoreTypeOK'
  <2>1. <<"required", n>> \in Keys /\ a \in Nat
    BY <1>c DEF Keys, Kinds
  <2>2. QED
    BY <1>5, <2>1 DEF RecordRequired
<1>d. ASSUME ExpirePending PROVE perm' \in [Turns -> [st : PermStatus, attempts : Nat]]
  BY <1>d DEF ExpirePending
<1>6. ASSUME NEW n \in 1 .. MaxTurns + 1, RecordCompleted(n) PROVE StoreTypeOK'
  <2>1. <<"completed", n>> \in Keys
    BY <1>c DEF Keys, Kinds
  <2>2. QED
    BY <1>6, <1>a, <1>d, <2>1 DEF RecordCompleted
<1>7. ASSUME NEW n \in 0 .. MaxTurns + 1, NEW r \in BOOLEAN, RecordFailed(n, r)
      PROVE  StoreTypeOK'
  <2>1. <<"failed", n>> \in Keys
    BY <1>c DEF Keys, Kinds
  <2>2. QED
    BY <1>7, <1>a, <1>d, <2>1 DEF RecordFailed
<1>8. CASE RecordCancelled
  <2>1. <<"cancelled", 0>> \in Keys
    BY DEF Keys, Kinds
  <2>2. QED
    BY <1>8, <1>a, <1>d, <2>1 DEF RecordCancelled
<1>9. ASSUME NEW k \in 1 .. MaxResumes, RecordResumed(k) PROVE StoreTypeOK'
  <2>1. <<"resumed", k>> \in Keys
    BY <1>c DEF Keys, Kinds
  <2>2. QED
    BY <1>9, <2>1 DEF RecordResumed
<1>10. ASSUME NEW c \in Sendable, RecordModelStarted(c) PROVE StoreTypeOK'
  BY <1>10, <1>b DEF RecordModelStarted
<1>11. QED
  BY <1>1, <1>2, <1>3, <1>4, <1>5, <1>6, <1>7, <1>8, <1>9, <1>10 DEF EventStep

\* Lease and decisions are preserved by claims, requests and control steps.
LEMMA LeaseStep1 ==
  StoreInv /\ (WorkerStep \/ UserStep \/ ControlStep)
    => LeaseFollowsStatus' /\ DecisionIsBacked'
<1> SUFFICES ASSUME StoreInv, WorkerStep \/ UserStep \/ ControlStep
             PROVE  LeaseFollowsStatus' /\ DecisionIsBacked'
  OBVIOUS
<1> DEFINE G == LeaseFollowsStatus' /\ DecisionIsBacked'
<1> USE DEF StoreInv, StoreTypeOK, LeaseFollowsStatus, DecisionIsBacked,
            Terminal, Cancelling, Decided
<1>1. ASSUME NEW w \in Workers, NEW m \in StartJobs, ClaimJob(w, m) PROVE G
  BY <1>1 DEF ClaimJob, Lock
<1>2. ASSUME NEW w \in Workers, NEW m \in ResumeJobs, ClaimRecovery(w, m)
      PROVE  G
  BY <1>2 DEF ClaimRecovery, Lock
<1>3. ASSUME NEW w \in Workers, ClaimPermission(w) PROVE G
  BY <1>3 DEF ClaimPermission, Lock
<1>4. ASSUME NEW w \in Workers, RenewLease(w) PROVE G
  BY <1>4 DEF RenewLease
<1>5. ASSUME NEW m \in StartJobs, ClaimCancelledJob(m) PROVE G
  BY <1>5 DEF ClaimCancelledJob
<1>6. ASSUME NEW m \in ResumeJobs, RefuseRecovery(m) PROVE G
  BY <1>6 DEF RefuseRecovery
<1>7. CASE FailDelivery
  BY <1>7 DEF FailDelivery, FailClosed
<1>8. CASE CancelRun
  BY <1>8 DEF CancelRun, CancelCommand
<1>9. CASE PauseRun
  BY <1>9 DEF PauseRun, NextPause
<1>10. CASE ResumeRun
  BY <1>10 DEF ResumeRun, NewResumeJob, NextResume
<1>11. ASSUME NEW n \in Turns, NEW d \in {"APPROVED", "DENIED"}, Decide(n, d)
       PROVE  G
  BY <1>11 DEF Decide
<1>12. CASE LeaseExpires
  BY <1>12 DEF LeaseExpires
<1>13. ASSUME NEW n \in Turns, ExpirePermission(n) PROVE G
  BY <1>13 DEF ExpirePermission, FailClosed
<1>14. CASE ConfirmPause
  BY <1>14 DEF ConfirmPause, Park
<1>15. CASE RescheduleRun
  BY <1>15 DEF RescheduleRun, Park, NewResumeJob, NextResume
<1>16. CASE FailExpiredRun
  BY <1>16 DEF FailExpiredRun, FailClosed
<1>17. CASE RequeueRun
  BY <1>17 DEF RequeueRun, NextStart
<1>18. CASE FailQueuedRun
  BY <1>18 DEF FailQueuedRun
<1>19. QED
  BY <1>1, <1>2, <1>3, <1>4, <1>5, <1>6, <1>7, <1>8, <1>9, <1>10, <1>11,
     <1>12, <1>13, <1>14, <1>15, <1>16, <1>17, <1>18
  DEF WorkerStep, UserStep, ControlStep

\* Lease and decisions are preserved by the events of workers.
LEMMA LeaseStep2 ==
  StoreInv /\ EventStep => LeaseFollowsStatus' /\ DecisionIsBacked'
<1> SUFFICES ASSUME StoreInv, EventStep
             PROVE  LeaseFollowsStatus' /\ DecisionIsBacked'
  OBVIOUS
<1> DEFINE G == LeaseFollowsStatus' /\ DecisionIsBacked'
<1> USE DEF StoreInv, StoreTypeOK, LeaseFollowsStatus, DecisionIsBacked,
            Terminal, Cancelling, Decided, Once, storeVars
<1>1. ASSUME NEW c \in Sendable,
             NEW type \in {"started", "answered", "toolStarted"},
             NEW n \in 0 .. MaxTurns, RecordStep(type, n, c)
      PROVE  G
  BY <1>1 DEF RecordStep
<1>2. ASSUME NEW c \in Sendable, NEW n \in Turns, RecordToolFinished(n, c)
      PROVE  G
  BY <1>2 DEF RecordToolFinished
<1>3. ASSUME NEW c \in Sendable, NEW n \in Turns, RecordApproval(n, c)
      PROVE  G
  BY <1>3 DEF RecordApproval
<1>4. ASSUME NEW c \in Sendable, NEW k \in 0 .. MaxPauses, RecordPaused(k, c)
      PROVE  G
  BY <1>4 DEF RecordPaused
<1>5. ASSUME NEW n \in Turns, NEW a \in 0 .. MaxRecovery, RecordRequired(n, a)
      PROVE  G
  BY <1>5 DEF RecordRequired
<1>6. ASSUME NEW n \in 1 .. MaxTurns + 1, RecordCompleted(n) PROVE G
  BY <1>6 DEF RecordCompleted, ExpirePending
<1>7. ASSUME NEW n \in 0 .. MaxTurns + 1, NEW r \in BOOLEAN, RecordFailed(n, r)
      PROVE  G
  BY <1>7 DEF RecordFailed, ExpirePending
<1>8. CASE RecordCancelled
  BY <1>8 DEF RecordCancelled, ExpirePending
<1>9. ASSUME NEW k \in 1 .. MaxResumes, RecordResumed(k) PROVE G
  BY <1>9 DEF RecordResumed
<1>10. ASSUME NEW c \in Sendable, RecordModelStarted(c) PROVE G
  BY <1>10 DEF RecordModelStarted
<1>11. QED
  BY <1>1, <1>2, <1>3, <1>4, <1>5, <1>6, <1>7, <1>8, <1>9, <1>10 DEF EventStep

\* Bounds and cancel requests are preserved by claims, requests and control steps.
LEMMA BoundsStep1 ==
  StoreInv /\ (WorkerStep \/ UserStep \/ ControlStep)
    => StoredInBounds' /\ CancelStands'
<1> SUFFICES ASSUME StoreInv, WorkerStep \/ UserStep \/ ControlStep
             PROVE  StoredInBounds' /\ CancelStands'
  OBVIOUS
<1> DEFINE G == StoredInBounds' /\ CancelStands'
<1> USE DEF StoreInv, StoreTypeOK, StoredInBounds, CancelStands, Terminal,
            Cancelling
<1>a. /\ NextPause # CancelCommand /\ NextStart # CancelCommand
      /\ NextResume # CancelCommand
      /\ \A n \in Turns : <<"decision", n>> # CancelCommand
  BY DEF NextPause, NextStart, NextResume, CancelCommand
<1>1. ASSUME NEW w \in Workers, NEW m \in StartJobs, ClaimJob(w, m) PROVE G
  BY <1>1 DEF ClaimJob, Lock
<1>2. ASSUME NEW w \in Workers, NEW m \in ResumeJobs, ClaimRecovery(w, m)
      PROVE  G
  <2>1. ckpt' \in Sendable
    BY <1>2, StoreAssumption
    DEF ClaimRecovery, Lock, MayRecover, Resumable, Sendable, ResumableNodes, NoCkpt
  <2>2. QED
    BY <1>2, <2>1 DEF ClaimRecovery, Lock, MayRecover
<1>3. ASSUME NEW w \in Workers, ClaimPermission(w) PROVE G
  BY <1>3 DEF ClaimPermission, Lock
<1>4. ASSUME NEW w \in Workers, RenewLease(w) PROVE G
  BY <1>4 DEF RenewLease
<1>5. ASSUME NEW m \in StartJobs, ClaimCancelledJob(m) PROVE G
  BY <1>5 DEF ClaimCancelledJob
<1>6. ASSUME NEW m \in ResumeJobs, RefuseRecovery(m) PROVE G
  BY <1>6 DEF RefuseRecovery
<1>7. CASE FailDelivery
  BY <1>7 DEF FailDelivery, FailClosed
<1>8. CASE CancelRun
  BY <1>8 DEF CancelRun
<1>9. CASE PauseRun
  BY <1>9, <1>a DEF PauseRun
<1>10. CASE ResumeRun
  BY <1>10, <1>a DEF ResumeRun, NewResumeJob
<1>11. ASSUME NEW n \in Turns, NEW d \in {"APPROVED", "DENIED"}, Decide(n, d)
       PROVE  G
  BY <1>11, <1>a DEF Decide
<1>12. CASE LeaseExpires
  BY <1>12 DEF LeaseExpires
<1>13. ASSUME NEW n \in Turns, ExpirePermission(n) PROVE G
  BY <1>13 DEF ExpirePermission, FailClosed
<1>14. CASE ConfirmPause
  BY <1>14 DEF ConfirmPause, Park
<1>15. CASE RescheduleRun
  BY <1>15, <1>a DEF RescheduleRun, Park, NewResumeJob
<1>16. CASE FailExpiredRun
  BY <1>16 DEF FailExpiredRun, FailClosed, Expired
<1>17. CASE RequeueRun
  BY <1>17, <1>a DEF RequeueRun
<1>18. CASE FailQueuedRun
  BY <1>18 DEF FailQueuedRun
<1>19. QED
  BY <1>1, <1>2, <1>3, <1>4, <1>5, <1>6, <1>7, <1>8, <1>9, <1>10, <1>11,
     <1>12, <1>13, <1>14, <1>15, <1>16, <1>17, <1>18
  DEF WorkerStep, UserStep, ControlStep

\* Bounds and cancel requests are preserved by the events of workers.
LEMMA BoundsStep2 ==
  StoreInv /\ EventStep => StoredInBounds' /\ CancelStands'
<1> SUFFICES ASSUME StoreInv, EventStep
             PROVE  StoredInBounds' /\ CancelStands'
  OBVIOUS
<1> DEFINE G == StoredInBounds' /\ CancelStands'
<1> USE DEF StoreInv, StoreTypeOK, StoredInBounds, CancelStands, Terminal,
            Cancelling, Once, storeVars
<1>1. ASSUME NEW c \in Sendable,
             NEW type \in {"started", "answered", "toolStarted"},
             NEW n \in 0 .. MaxTurns, RecordStep(type, n, c)
      PROVE  G
  BY <1>1 DEF RecordStep
<1>2. ASSUME NEW c \in Sendable, NEW n \in Turns, RecordToolFinished(n, c)
      PROVE  G
  BY <1>2 DEF RecordToolFinished
<1>3. ASSUME NEW c \in Sendable, NEW n \in Turns, RecordApproval(n, c)
      PROVE  G
  BY <1>3 DEF RecordApproval
<1>4. ASSUME NEW c \in Sendable, NEW k \in 0 .. MaxPauses, RecordPaused(k, c)
      PROVE  G
  BY <1>4 DEF RecordPaused
<1>5. ASSUME NEW n \in Turns, NEW a \in 0 .. MaxRecovery, RecordRequired(n, a)
      PROVE  G
  BY <1>5 DEF RecordRequired
<1>6. ASSUME NEW n \in 1 .. MaxTurns + 1, RecordCompleted(n) PROVE G
  BY <1>6 DEF RecordCompleted, ExpirePending
<1>7. ASSUME NEW n \in 0 .. MaxTurns + 1, NEW r \in BOOLEAN, RecordFailed(n, r)
      PROVE  G
  BY <1>7 DEF RecordFailed, ExpirePending
<1>8. CASE RecordCancelled
  BY <1>8 DEF RecordCancelled, ExpirePending
<1>9. ASSUME NEW k \in 1 .. MaxResumes, RecordResumed(k) PROVE G
  BY <1>9 DEF RecordResumed
<1>10. ASSUME NEW c \in Sendable, RecordModelStarted(c) PROVE G
  BY <1>10 DEF RecordModelStarted
<1>11. QED
  BY <1>1, <1>2, <1>3, <1>4, <1>5, <1>6, <1>7, <1>8, <1>9, <1>10 DEF EventStep

-----------------------------------------------------------------------------
\* Every transaction preserves the invariant.
LEMMA StoreStep == StoreInv /\ [StoreNext]_storeVars => StoreInv'
<1>1. StoreInv /\ UNCHANGED storeVars => StoreInv'
  BY DEF StoreInv, StoreTypeOK, LeaseFollowsStatus, DecisionIsBacked,
     StoredInBounds, CancelStands, storeVars
<1>2. QED
  BY <1>1, TypeStep1, TypeStep2, LeaseStep1, LeaseStep2, BoundsStep1, BoundsStep2
  DEF StoreNext, StoreInv

\* It holds when the run has been created.
LEMMA StoreInitInv == StoreInit => StoreInv
BY StoreAssumption, CkptType
DEF StoreInit, StoreInv, StoreTypeOK, Status, PermStatus, LeaseFollowsStatus,
    DecisionIsBacked, StoredInBounds, CancelStands, Terminal, Cancelling,
    CancelCommand, Messages, Jobs, StartJobs

\* The inductive invariant of the stored run.
THEOREM StoreInvariant == StoreSpec => []StoreInv
BY StoreInitInv, StoreStep, PTL DEF StoreSpec

\* Types hold (type invariant of the component).
THEOREM StoreTypeCorrect == StoreSpec => []StoreTypeOK
<1>1. StoreInv => StoreTypeOK
  BY DEF StoreInv
<1>2. QED
  BY StoreInvariant, <1>1, PTL

\* An executing run can always be found by reconciliation.
THEOREM ActiveHasLease == StoreSpec => []ActiveRunHasLease
<1>1. StoreInv => ActiveRunHasLease
  BY DEF StoreInv, LeaseFollowsStatus, ActiveRunHasLease
<1>2. QED
  BY StoreInvariant, <1>1, PTL

\* A finished run holds no lease.
THEOREM FinishedNoLease == StoreSpec => []FinishedHoldsNoLease
<1>1. StoreInv => FinishedHoldsNoLease
  BY DEF StoreInv, LeaseFollowsStatus, FinishedHoldsNoLease
<1>2. QED
  BY StoreInvariant, <1>1, PTL

\* A decision command is only ever sent for a decided request.
THEOREM DecisionBacked == StoreSpec => []DecisionIsBacked
<1>1. StoreInv => DecisionIsBacked
  BY DEF StoreInv
<1>2. QED
  BY StoreInvariant, <1>1, PTL
-----------------------------------------------------------------------------
\* No transaction revives a finished run: the claims, requests and
\* reconciliations test the status, the events of workers only replace one
\* terminal status by another.
THEOREM FinishedForever == StoreSpec => FinishedStaysFinished
<1> DEFINE A == status \in Terminal => status' \in Terminal
<1>1. WorkerStep \/ UserStep \/ ControlStep => A
  BY DEF WorkerStep, UserStep, ControlStep, ClaimJob, ClaimRecovery, MayRecover,
     ClaimPermission, Lock, RenewLease, ClaimCancelledJob, RefuseRecovery,
     FailDelivery, FailClosed, CancelRun, PauseRun, ResumeRun, Decide,
     LeaseExpires, ExpirePermission, ConfirmPause, RescheduleRun, Park, Expired,
     FailExpiredRun, RequeueRun, FailQueuedRun, Terminal, Cancelling
<1>2. EventStep => A
  BY DEF EventStep, RecordModelStarted, RecordStep, RecordToolFinished,
     RecordApproval, RecordPaused, RecordRequired, RecordCompleted, RecordFailed, RecordCancelled,
     RecordResumed, Once, storeVars, Terminal, Cancelling
<1>3. [StoreNext]_storeVars => A
  BY <1>1, <1>2 DEF StoreNext, storeVars
<1>4. QED
  BY <1>3, PTL DEF StoreSpec, FinishedStaysFinished

\* Requests change only while they are pending, except that an approval is used up
\* by its tool call.
LEMMA DecisionStep ==
  StoreTypeOK /\ [StoreNext]_storeVars =>
    \A n \in Turns :
      /\ perm[n].st = "DENIED" => perm'[n].st = "DENIED"
      /\ perm[n].st = "APPROVED" => perm'[n].st \in {"APPROVED", "CONSUMED"}
      /\ perm[n].st \in {"CONSUMED", "EXPIRED"} => perm'[n].st = perm[n].st
<1> DEFINE Fin(n) ==
      /\ perm[n].st = "DENIED" => perm'[n].st = "DENIED"
      /\ perm[n].st = "APPROVED" => perm'[n].st \in {"APPROVED", "CONSUMED"}
      /\ perm[n].st \in {"CONSUMED", "EXPIRED"} => perm'[n].st = perm[n].st
<1> USE DEF StoreTypeOK
<1>1. StoreTypeOK /\ UNCHANGED perm => \A n \in Turns : Fin(n)
  OBVIOUS
<1>2. StoreTypeOK /\ (WorkerStep \/ UserStep \/ ControlStep)
        => \A n \in Turns : Fin(n)
  <2> SUFFICES ASSUME StoreTypeOK, WorkerStep \/ UserStep \/ ControlStep
               PROVE  \A n \in Turns : Fin(n)
    OBVIOUS
  <2>1. ASSUME NEW n \in Turns, NEW d \in {"APPROVED", "DENIED"}, Decide(n, d)
        PROVE  \A i \in Turns : Fin(i)
    BY <2>1 DEF Decide
  <2>2. ASSUME NEW n \in Turns, ExpirePermission(n)
        PROVE  \A i \in Turns : Fin(i)
    BY <2>2 DEF ExpirePermission
  <2>3. \/ UNCHANGED perm
        \/ \E n \in Turns, d \in {"APPROVED", "DENIED"} : Decide(n, d)
        \/ \E n \in Turns : ExpirePermission(n)
    BY DEF WorkerStep, UserStep, ControlStep, ClaimJob, ClaimRecovery,
       ClaimPermission, RenewLease, ClaimCancelledJob, RefuseRecovery,
       FailDelivery, CancelRun, PauseRun, ResumeRun, LeaseExpires, ConfirmPause,
       RescheduleRun, Park, FailExpiredRun, RequeueRun, FailQueuedRun
  <2>4. QED
    BY <2>1, <2>2, <2>3, <1>1
<1>3. StoreTypeOK /\ EventStep => \A n \in Turns : Fin(n)
  <2> SUFFICES ASSUME StoreTypeOK, EventStep PROVE \A n \in Turns : Fin(n)
    OBVIOUS
  <2> USE DEF Once, storeVars
  <2>1. ASSUME NEW c \in Sendable, NEW n \in Turns, RecordToolFinished(n, c)
        PROVE  \A i \in Turns : Fin(i)
    BY <2>1 DEF RecordToolFinished
  <2>2. ASSUME NEW c \in Sendable, NEW n \in Turns, RecordApproval(n, c)
        PROVE  \A i \in Turns : Fin(i)
    BY <2>2 DEF RecordApproval
  <2>3. ASSUME NEW n \in Turns, NEW a \in 0 .. MaxRecovery, RecordRequired(n, a)
        PROVE  \A i \in Turns : Fin(i)
    BY <2>3 DEF RecordRequired
  <2>4. ExpirePending => \A i \in Turns : Fin(i)
    BY DEF ExpirePending
  <2>5. \/ UNCHANGED perm
        \/ ExpirePending
        \/ \E c \in Sendable, n \in Turns :
             RecordToolFinished(n, c) \/ RecordApproval(n, c)
        \/ \E n \in Turns, a \in 0 .. MaxRecovery : RecordRequired(n, a)
    BY DEF EventStep, RecordModelStarted, RecordStep, RecordPaused,
       RecordCompleted, RecordFailed, RecordCancelled, RecordResumed
  <2>6. QED
    BY <2>1, <2>2, <2>3, <2>4, <2>5, <1>1
<1>4. QED
  BY <1>1, <1>2, <1>3 DEF StoreNext, storeVars

\* A decision of the user is final.
THEOREM DecisionFinal == StoreSpec => DecisionIsFinal
BY DecisionStep, StoreTypeCorrect, PTL DEF StoreSpec, DecisionIsFinal

\* Messages are only ever added.
LEMMA MadeGrows == [StoreNext]_storeVars => made \subseteq made'
<1>1. WorkerStep \/ UserStep \/ ControlStep => made \subseteq made'
  BY DEF WorkerStep, UserStep, ControlStep, ClaimJob, ClaimRecovery, ClaimPermission,
     RenewLease, ClaimCancelledJob, RefuseRecovery, FailDelivery, CancelRun, PauseRun,
     ResumeRun, NewResumeJob, Decide, LeaseExpires, ExpirePermission, ConfirmPause,
     RescheduleRun, Park, FailExpiredRun, RequeueRun, FailQueuedRun
<1>2. EventStep => made \subseteq made'
  BY DEF EventStep, RecordModelStarted, RecordStep, RecordToolFinished, RecordApproval,
     RecordPaused, RecordRequired, RecordCompleted, RecordFailed, RecordCancelled,
     RecordResumed, Once, storeVars
<1>3. QED
  BY <1>1, <1>2 DEF StoreNext, storeVars
=============================================================================
