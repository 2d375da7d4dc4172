---------------------------- MODULE OutboxProofs ----------------------------
(***************************************************************************)
(* Theorems about Outbox, for any events, publishers and bounds.           *)
(***************************************************************************)
EXTENDS Outbox, FiniteSetTheorems, TLAPS

\* A stream entry whose dedupe key is gone belongs to an event nobody will
\* try again, so no second entry can be added.
KeyGuardsCopy ==
  \A e \in Events :
    /\ copies[e] <= 1
    /\ copies[e] = 1 /\ e \notin dedupe
         => Settled(e) /\ \A p \in Publishers : e \notin Held(p)

\* A publisher only holds rows that exist, and what it counts as a success
\* has been on a stream.
BatchesAreReal ==
  \A p \in Publishers : /\ \A e \in Held(p) : status[e] # "absent"
                        /\ ok[p] \subseteq published

IInv == /\ TypeOK
        /\ KeyGuardsCopy
        /\ BatchesAreReal
        /\ DeliveredWasPublished

-----------------------------------------------------------------------------
\* Types are preserved by every step (all of database/outbox).
LEMMA TypeStep == TypeOK /\ [Next]_vars => TypeOK'
<1> SUFFICES ASSUME TypeOK, [Next]_vars PROVE TypeOK'
  OBVIOUS
<1> USE OutboxAssumption DEF TypeOK, Status, rowVars, batchVars, redisVars
<1>1. CASE UNCHANGED vars
  BY <1>1 DEF vars
<1>2. ASSUME NEW e \in Events, Create(e) PROVE TypeOK'
  BY <1>2 DEF Create
<1>3. ASSUME NEW e \in Events, LeaseExpires(e) PROVE TypeOK'
  BY <1>3 DEF LeaseExpires
<1>4. ASSUME NEW e \in Events, DedupeKeyExpires(e) PROVE TypeOK'
  BY <1>4 DEF DedupeKeyExpires
<1>5. ASSUME NEW p \in Publishers, ClaimPending(p) PROVE TypeOK'
  BY <1>5 DEF ClaimPending
<1>6. ASSUME NEW p \in Publishers, MarkResults(p) PROVE TypeOK'
  BY <1>6 DEF MarkResults, FailedStatus
<1>7. ASSUME NEW p \in Publishers, Forget(p) PROVE TypeOK'
  BY <1>7 DEF Forget
<1>8. ASSUME NEW p \in Publishers, NEW e \in Events, PublishOk(p, e)
      PROVE TypeOK'
  BY <1>8 DEF PublishOk, RedisAdd
<1>9. ASSUME NEW p \in Publishers, NEW e \in Events, PublishError(p, e)
      PROVE TypeOK'
  BY <1>9 DEF PublishError, RedisAdd
<1>10. ASSUME NEW p \in Publishers, NEW e \in Events, RejectEvent(p, e)
       PROVE TypeOK'
  BY <1>10 DEF RejectEvent
<1>11. CASE ResetStaleDispatching
  BY <1>11 DEF ResetStaleDispatching, Stale
<1>12. CASE RedisLosesData
  BY <1>12 DEF RedisLosesData
<1>13. QED
  BY <1>1, <1>2, <1>3, <1>4, <1>5, <1>6, <1>7, <1>8, <1>9, <1>10, <1>11,
     <1>12 DEF Next

\* The initial state satisfies the invariant.
LEMMA InitIInv == Init => IInv
  BY OutboxAssumption DEF Init, IInv, TypeOK, Status, KeyGuardsCopy,
     BatchesAreReal, DeliveredWasPublished, Held, Settled

\* No step breaks the relation between stream entries, keys and rows.
LEMMA KeyStep == IInv /\ [Next]_vars => KeyGuardsCopy'
<1> SUFFICES ASSUME IInv, [Next]_vars PROVE KeyGuardsCopy'
  OBVIOUS
<1> USE DEF IInv, TypeOK, KeyGuardsCopy, Held, Settled, rowVars, batchVars,
            redisVars
<1>1. CASE UNCHANGED vars
  BY <1>1 DEF vars
<1>2. ASSUME NEW e \in Events, Create(e) PROVE KeyGuardsCopy'
  BY <1>2 DEF Create
<1>3. ASSUME NEW e \in Events, LeaseExpires(e) PROVE KeyGuardsCopy'
  BY <1>3 DEF LeaseExpires
<1>4. ASSUME NEW e \in Events, DedupeKeyExpires(e) PROVE KeyGuardsCopy'
  BY <1>4 DEF DedupeKeyExpires
<1>5. ASSUME NEW p \in Publishers, ClaimPending(p) PROVE KeyGuardsCopy'
  BY <1>5 DEF ClaimPending
<1>6. ASSUME NEW p \in Publishers, MarkResults(p) PROVE KeyGuardsCopy'
  BY <1>6 DEF MarkResults
<1>7. ASSUME NEW p \in Publishers, Forget(p) PROVE KeyGuardsCopy'
  BY <1>7 DEF Forget
<1>8. ASSUME NEW p \in Publishers, NEW e \in Events, PublishOk(p, e)
      PROVE KeyGuardsCopy'
  BY <1>8 DEF PublishOk, RedisAdd
<1>9. ASSUME NEW p \in Publishers, NEW e \in Events, PublishError(p, e)
      PROVE KeyGuardsCopy'
  BY <1>9 DEF PublishError, RedisAdd
<1>10. ASSUME NEW p \in Publishers, NEW e \in Events, RejectEvent(p, e)
       PROVE KeyGuardsCopy'
  BY <1>10 DEF RejectEvent
<1>11. CASE ResetStaleDispatching
  BY <1>11 DEF ResetStaleDispatching, Stale
<1>12. CASE RedisLosesData
  BY <1>12 DEF RedisLosesData
<1>13. QED
  BY <1>1, <1>2, <1>3, <1>4, <1>5, <1>6, <1>7, <1>8, <1>9, <1>10, <1>11,
     <1>12 DEF Next

\* No step breaks what batches say, nor the meaning of "delivered".
LEMMA BatchStep ==
  IInv /\ [Next]_vars => BatchesAreReal' /\ DeliveredWasPublished'
<1> SUFFICES ASSUME IInv, [Next]_vars
             PROVE  BatchesAreReal' /\ DeliveredWasPublished'
  OBVIOUS
<1> DEFINE G == BatchesAreReal' /\ DeliveredWasPublished'
<1> USE DEF IInv, TypeOK, BatchesAreReal, DeliveredWasPublished, Held,
            rowVars, batchVars, redisVars
<1>1. CASE UNCHANGED vars
  BY <1>1 DEF vars
<1>2. ASSUME NEW e \in Events, Create(e) PROVE G
  BY <1>2 DEF Create
<1>3. ASSUME NEW e \in Events, LeaseExpires(e) PROVE G
  BY <1>3 DEF LeaseExpires
<1>4. ASSUME NEW e \in Events, DedupeKeyExpires(e) PROVE G
  BY <1>4 DEF DedupeKeyExpires
<1>5. ASSUME NEW p \in Publishers, ClaimPending(p) PROVE G
  BY <1>5 DEF ClaimPending
<1>6. ASSUME NEW p \in Publishers, MarkResults(p) PROVE G
  BY <1>6 DEF MarkResults, FailedStatus
<1>7. ASSUME NEW p \in Publishers, Forget(p) PROVE G
  BY <1>7 DEF Forget
<1>8. ASSUME NEW p \in Publishers, NEW e \in Events, PublishOk(p, e)
      PROVE G
  BY <1>8 DEF PublishOk, RedisAdd
<1>9. ASSUME NEW p \in Publishers, NEW e \in Events, PublishError(p, e)
      PROVE G
  BY <1>9 DEF PublishError, RedisAdd
<1>10. ASSUME NEW p \in Publishers, NEW e \in Events, RejectEvent(p, e)
       PROVE G
  BY <1>10 DEF RejectEvent
<1>11. CASE ResetStaleDispatching
  BY <1>11 DEF ResetStaleDispatching, Stale
<1>12. CASE RedisLosesData
  BY <1>12 DEF RedisLosesData
<1>13. QED
  BY <1>1, <1>2, <1>3, <1>4, <1>5, <1>6, <1>7, <1>8, <1>9, <1>10, <1>11,
     <1>12 DEF Next

-----------------------------------------------------------------------------
\* The inductive invariant of the outbox.
THEOREM Invariant == Spec => []IInv
<1>1. IInv /\ [Next]_vars => IInv'
  BY TypeStep, KeyStep, BatchStep DEF IInv
<1>2. QED
  BY InitIInv, <1>1, PTL DEF Spec

\* Types hold (type invariant of the component).
THEOREM TypeCorrect == Spec => []TypeOK
<1>1. IInv => TypeOK
  BY DEF IInv
<1>2. QED
  BY Invariant, <1>1, PTL

\* An event is never twice on its stream, whatever publishers and leases do.
THEOREM NoDuplicate == Spec => []NoDuplicateOnStream
<1>1. IInv => NoDuplicateOnStream
  BY DEF IInv, KeyGuardsCopy, NoDuplicateOnStream
<1>2. QED
  BY Invariant, <1>1, PTL

\* A row marked delivered has been on a stream.
THEOREM Delivered == Spec => []DeliveredWasPublished
<1>1. IInv => DeliveredWasPublished
  BY DEF IInv
<1>2. QED
  BY Invariant, <1>1, PTL

\* Every step of the publishers is a step of the promise, or invisible in it.
LEMMA RefinementStep == IInv /\ [Next]_vars => [Abstract!Next]_(Abstract!vars)
<1> SUFFICES ASSUME IInv, [Next]_vars
             PROVE  [Abstract!Next]_(Abstract!vars)
  OBVIOUS
<1> DEFINE Rec == {e \in Events : status[e] # "absent"}
           Same == Rec' = Rec /\ copies' = copies
           G == Abstract!Next \/ Same
<1> SUFFICES G
  BY DEF Abstract!vars
<1> USE DEF IInv, TypeOK, Status, rowVars, batchVars, redisVars
<1>1. CASE UNCHANGED vars
  BY <1>1 DEF vars
<1>2. ASSUME NEW e \in Events, Create(e) PROVE G
  <2>1. Abstract!Record(e)
    BY <1>2 DEF Create, Abstract!Record
  <2>2. QED
    BY <2>1 DEF Abstract!Next
<1>3. ASSUME NEW e \in Events, LeaseExpires(e) PROVE G
  BY <1>3 DEF LeaseExpires
<1>4. ASSUME NEW e \in Events, DedupeKeyExpires(e) PROVE G
  BY <1>4 DEF DedupeKeyExpires
<1>5. ASSUME NEW p \in Publishers, ClaimPending(p) PROVE G
  <2>1. Rec' = Rec /\ copies' = copies
    BY <1>5 DEF ClaimPending
  <2>2. QED
    BY <2>1
<1>6. ASSUME NEW p \in Publishers, MarkResults(p) PROVE G
  <2>1. \A e \in Held(p) : status[e] # "absent"
    BY DEF BatchesAreReal
  <2>2. \A e \in Events : status'[e] # "absent" <=> status[e] # "absent"
    BY <1>6, <2>1 DEF MarkResults, FailedStatus, Held
  <2>3. Same
    BY <1>6, <2>2 DEF MarkResults
  <2>4. QED
    BY <2>3
<1>7. ASSUME NEW p \in Publishers, Forget(p) PROVE G
  BY <1>7 DEF Forget
<1>8. ASSUME NEW p \in Publishers, NEW e \in todo[p], RedisAdd(e),
             UNCHANGED status
      PROVE G
  <2>1. e \in Rec /\ e \in Held(p) /\ e \in Events
    BY <1>8 DEF BatchesAreReal, Held
  <2>2. CASE e \in dedupe
    BY <1>8, <2>2 DEF RedisAdd
  <2>3. CASE e \notin dedupe
    <3>1. copies[e] = 0
      BY <2>1, <2>3 DEF KeyGuardsCopy
    <3>2. Abstract!Emit(e)
      BY <1>8, <2>1, <2>3, <3>1 DEF RedisAdd, Abstract!Emit
    <3>3. QED
      BY <2>1, <3>2 DEF Abstract!Next
  <2>4. QED
    BY <2>2, <2>3
<1>9. ASSUME NEW p \in Publishers, NEW e \in Events,
             PublishOk(p, e) \/ PublishError(p, e)
      PROVE G
  <2>1. e \in todo[p] /\ UNCHANGED status
    BY <1>9 DEF PublishOk, PublishError
  <2>2. RedisAdd(e) \/ UNCHANGED copies
    BY <1>9 DEF PublishOk, PublishError
  <2>3. QED
    BY <1>8, <2>1, <2>2
<1>10. ASSUME NEW p \in Publishers, NEW e \in Events, RejectEvent(p, e)
       PROVE G
  BY <1>10 DEF RejectEvent
<1>11. CASE ResetStaleDispatching
  <2>1. Same
    BY <1>11 DEF ResetStaleDispatching, Stale
  <2>2. QED
    BY <2>1
<1>12. CASE RedisLosesData
  <2>1. Abstract!Lose
    BY <1>12 DEF RedisLosesData, Abstract!Lose
  <2>2. QED
    BY <2>1 DEF Abstract!Next
<1>13. QED
  BY <1>1, <1>2, <1>3, <1>4, <1>5, <1>6, <1>7, <1>9, <1>10, <1>11, <1>12
  DEF Next

\* The outbox implements its abstract promise (AbstractOutbox).
THEOREM Refinement == Spec => ImplementsAbstract
<1>1. Init => Abstract!Init
  BY DEF Init, Abstract!Init
<1>2. QED
  BY Invariant, <1>1, RefinementStep, PTL DEF Spec, Abstract!Spec,
     ImplementsAbstract

-----------------------------------------------------------------------------
(* The retry budget.                                                        *)

\* The publishers that saw an attempt on e raise and have not marked it yet.
Raised(e) == {p \in Publishers : e \in bad[p]}

\* Every unit of the budget, used or about to be, is an attempt that raised.
BudgetInv ==
  \A e \in Events : /\ IsFiniteSet(Raised(e))
                    /\ retry[e] + Cardinality(Raised(e)) <= errors[e]

\* Nothing changes for an event whose failures nobody touches.
LEMMA SameBudget ==
  ASSUME BudgetInv, UNCHANGED <<bad, retry, errors>>
  PROVE  BudgetInv'
  BY DEF BudgetInv, Raised

\* An attempt that raises adds at most its publisher to the ones that saw one,
\* and counts once.
LEMMA OneMoreRaised ==
  ASSUME TypeOK, BudgetInv, NEW p \in Publishers, NEW e \in Events,
         bad' = [bad EXCEPT ![p] = @ \cup {e}],
         errors' = [errors EXCEPT ![e] = @ + 1],
         retry' = retry
  PROVE  BudgetInv'
<1> SUFFICES ASSUME NEW f \in Events
             PROVE  /\ IsFiniteSet(Raised(f)')
                    /\ retry'[f] + Cardinality(Raised(f)') <= errors'[f]
  BY DEF BudgetInv
<1>1. IsFiniteSet(Raised(f)) /\ retry[f] + Cardinality(Raised(f)) <= errors[f]
  BY DEF BudgetInv
<1>2. retry[f] \in Nat /\ errors[f] \in Nat /\ Cardinality(Raised(f)) \in Nat
  BY <1>1, FS_CardinalityType DEF TypeOK
<1>3. CASE f = e
  <2>1. Raised(f)' = Raised(f) \cup {p}
    BY <1>3 DEF TypeOK, Raised
  <2>2. errors'[f] = errors[f] + 1
    BY <1>3 DEF TypeOK
  <2>3. /\ Cardinality(Raised(f) \cup {p}) <= Cardinality(Raised(f)) + 1
        /\ IsFiniteSet(Raised(f) \cup {p})
        /\ Cardinality(Raised(f) \cup {p}) \in Nat
    <3>1. IsFiniteSet(Raised(f) \cup {p})
      BY <1>1, FS_AddElement
    <3>2. Cardinality(Raised(f) \cup {p})
            = IF p \in Raised(f) THEN Cardinality(Raised(f))
                                 ELSE Cardinality(Raised(f)) + 1
      BY <1>1, FS_AddElement
    <3>3. Cardinality(Raised(f) \cup {p}) \in Nat
      BY <3>1, FS_CardinalityType
    <3>4. QED
      BY <1>2, <3>1, <3>2, <3>3
  <2>4. QED
    BY <1>1, <1>2, <2>1, <2>2, <2>3
<1>4. CASE f # e
  <2>1. Raised(f)' = Raised(f)
    BY <1>4 DEF TypeOK, Raised
  <2>2. errors'[f] = errors[f]
    BY <1>4 DEF TypeOK
  <2>3. QED
    BY <1>1, <2>1, <2>2
<1>5. QED
  BY <1>3, <1>4

\* A publisher that lets go of its failures takes itself out; where it writes
\* one down, the row has one more retry.
LEMMA OneLessRaised ==
  ASSUME TypeOK, BudgetInv, NEW p \in Publishers,
         bad' = [bad EXCEPT ![p] = {}],
         errors' = errors,
         \A f \in Events : retry'[f] = retry[f]
                             \/ (f \in bad[p] /\ retry'[f] = retry[f] + 1)
  PROVE  BudgetInv'
<1> SUFFICES ASSUME NEW f \in Events
             PROVE  /\ IsFiniteSet(Raised(f)')
                    /\ retry'[f] + Cardinality(Raised(f)') <= errors[f]
  BY DEF BudgetInv
<1>1. IsFiniteSet(Raised(f)) /\ retry[f] + Cardinality(Raised(f)) <= errors[f]
  BY DEF BudgetInv
<1>2. retry[f] \in Nat /\ errors[f] \in Nat /\ Cardinality(Raised(f)) \in Nat
  BY <1>1, FS_CardinalityType DEF TypeOK
<1>3. Raised(f)' = Raised(f) \ {p}
  BY DEF TypeOK, Raised
<1>4. /\ IsFiniteSet(Raised(f) \ {p})
      /\ Cardinality(Raised(f) \ {p}) \in Nat
      /\ Cardinality(Raised(f) \ {p}) <= Cardinality(Raised(f))
      /\ p \in Raised(f) => Cardinality(Raised(f) \ {p}) = Cardinality(Raised(f)) - 1
  <2>1. IsFiniteSet(Raised(f) \ {p})
    BY <1>1, FS_RemoveElement
  <2>2. Cardinality(Raised(f) \ {p})
          = IF p \in Raised(f) THEN Cardinality(Raised(f)) - 1
                               ELSE Cardinality(Raised(f))
    BY <1>1, FS_RemoveElement
  <2>3. Cardinality(Raised(f) \ {p}) \in Nat
    BY <2>1, FS_CardinalityType
  <2>4. QED
    BY <1>2, <2>1, <2>2, <2>3
<1>5. f \in bad[p] => p \in Raised(f)
  BY DEF Raised
<1>6. QED
  BY <1>1, <1>2, <1>3, <1>4, <1>5

\* No step uses up budget that no attempt paid for.
LEMMA BudgetStep == TypeOK /\ BudgetInv /\ [Next]_vars => BudgetInv'
<1> SUFFICES ASSUME TypeOK, BudgetInv, [Next]_vars PROVE BudgetInv'
  OBVIOUS
<1> USE DEF rowVars, batchVars, redisVars
<1>1. CASE UNCHANGED <<bad, retry, errors>>
  BY <1>1, SameBudget
<1>2. ASSUME NEW p \in Publishers, MarkResults(p) PROVE BudgetInv'
  <2>1. /\ bad' = [bad EXCEPT ![p] = {}] /\ errors' = errors
        /\ \A f \in Events : retry'[f] = retry[f]
                               \/ (f \in bad[p] /\ retry'[f] = retry[f] + 1)
    BY <1>2 DEF MarkResults
  <2>2. QED
    BY <2>1, OneLessRaised
<1>3. ASSUME NEW p \in Publishers, Forget(p) PROVE BudgetInv'
  <2>1. /\ bad' = [bad EXCEPT ![p] = {}] /\ errors' = errors
        /\ \A f \in Events : retry'[f] = retry[f]
    BY <1>3 DEF Forget
  <2>2. QED
    BY <2>1, OneLessRaised
<1>4. ASSUME NEW p \in Publishers, NEW e \in Events,
             PublishError(p, e) \/ RejectEvent(p, e)
      PROVE  BudgetInv'
  <2>1. /\ bad' = [bad EXCEPT ![p] = @ \cup {e}]
        /\ errors' = [errors EXCEPT ![e] = @ + 1]
        /\ retry' = retry
    BY <1>4 DEF PublishError, RejectEvent
  <2>2. QED
    BY <2>1, OneMoreRaised
<1>5. QED
  BY <1>1, <1>2, <1>3, <1>4
  DEF Next, vars, Create, LeaseExpires, DedupeKeyExpires, ClaimPending,
      PublishOk, ResetStaleDispatching, RedisLosesData

\* Only an attempt that raised uses up the retry budget: crashes, expired leases
\* and the resets that follow do not (mark_failed, retry_count).
THEOREM BudgetForErrors == Spec => []BudgetOnlyForErrors
<1>1. Init => BudgetInv
  <2> SUFFICES ASSUME Init, NEW e \in Events
               PROVE  /\ IsFiniteSet(Raised(e))
                      /\ retry[e] + Cardinality(Raised(e)) <= errors[e]
    BY DEF BudgetInv
  <2>1. Raised(e) = {}
    BY DEF Init, Raised
  <2>2. IsFiniteSet(Raised(e)) /\ Cardinality(Raised(e)) = 0
    BY <2>1, FS_EmptySet
  <2>3. QED
    BY <2>2 DEF Init
<1>2. BudgetInv => BudgetOnlyForErrors
  BY DEF BudgetInv, BudgetOnlyForErrors, Raised
<1>3. QED
  BY TypeCorrect, <1>1, <1>2, BudgetStep, PTL DEF Spec

=============================================================================
