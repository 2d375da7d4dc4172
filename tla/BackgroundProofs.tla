--------------------------- MODULE BackgroundProofs ---------------------------
(***************************************************************************)
(* Theorems about the two services that work in the background and share   *)
(* nothing: Schedules, for any number of scanners, requests, slots,        *)
(* attempts and crashes; Memories, for any number of runs, extractors,     *)
(* tabs, keys and contents.                                                *)
(***************************************************************************)
EXTENDS Schedules, Memories, TLAPS

-----------------------------------------------------------------------------
(* Schedules: one task per execution.                                       *)

\* An execution that exists, of a slot that has come.
Born(e) == execution[e].status # "none" /\ (e \in Slots => e <= clock)

\* Rows exist only for slots that have come, and are what the processes hold.
RowsAreBorn == \A e \in Executions : execution[e].status # "none" => Born(e)

\* What a dispatcher has read from the table or from create_task is still true,
\* though it holds no lock between its transactions.
MemoryIsTrue ==
  \A d \in Dispatchers :
    /\ \A e \in dispatcher[d].todo : Born(e)
    /\ dispatcher[d].at \in {"leased", "unknown", "known"} =>
         dispatcher[d].now \in Executions /\ Born(dispatcher[d].now)
    /\ dispatcher[d].at = "known" => tasks[dispatcher[d].now] = 1

SchedInv == SchedTypeOK /\ OneTaskPerExecution /\ RowsAreBorn /\ MemoryIsTrue

-----------------------------------------------------------------------------
\* A process that is done with an execution keeps only what it still has to do.
LEMMA LeavesRest ==
  ASSUME SchedTypeOK, NEW d \in Dispatchers, NEW e, Leaves(d, e)
  PROVE  /\ dispatcher' \in [Dispatchers ->
              [at : {"idle", "scanned", "dispatching", "leased", "unknown", "known"},
               todo : SUBSET Executions, now : Executions \cup {NoRow}]]
         /\ \A x \in Dispatchers \ {d} : dispatcher'[x] = dispatcher[x]
         /\ dispatcher'[d].todo \subseteq dispatcher[d].todo
         /\ dispatcher'[d].at \in {"idle", "dispatching"}
<1> DEFINE left == dispatcher[d].todo \ {e}
           rest == IF left = {} THEN Resting
                   ELSE [Resting EXCEPT !.at = "dispatching", !.todo = left]
<1>1. dispatcher' = [dispatcher EXCEPT ![d] = rest]
  BY DEF Leaves
<1>2. left \subseteq Executions
  BY DEF SchedTypeOK
<1>3. rest \in [at : {"idle", "dispatching"}, todo : SUBSET dispatcher[d].todo,
                now : {NoRow}]
  <2>1. CASE left = {}
    BY <2>1 DEF Resting
  <2>2. CASE left # {}
    BY <2>2 DEF Resting
  <2>3. QED  BY <2>1, <2>2
<1> HIDE DEF rest
<1>4. QED
  BY <1>1, <1>2, <1>3 DEF SchedTypeOK

\* What the processes hold stays true when one of them takes a step after which its
\* own memory is true, and no execution or task disappears.
LEMMA MemoryStays ==
  ASSUME SchedTypeOK, MemoryIsTrue, NEW d \in Dispatchers,
         \A x \in Dispatchers \ {d} : dispatcher'[x] = dispatcher[x],
         dispatcher'[d].todo \subseteq dispatcher[d].todo,
         dispatcher'[d].at \in {"leased", "unknown", "known"} =>
           dispatcher'[d].now \in Executions /\ Born(dispatcher[d].now)',
         dispatcher'[d].at = "known" => tasks'[dispatcher'[d].now] = 1,
         \A x \in Executions : Born(x) => Born(x)',
         \A x \in Executions : tasks[x] = 1 => tasks'[x] = 1
  PROVE  MemoryIsTrue'
<1>1. \A x \in Dispatchers : dispatcher[x].todo \subseteq Executions
  BY DEF SchedTypeOK
<1> SUFFICES ASSUME NEW x \in Dispatchers
             PROVE  /\ \A y \in dispatcher'[x].todo : Born(y)'
                    /\ dispatcher'[x].at \in {"leased", "unknown", "known"} =>
                         dispatcher'[x].now \in Executions /\ Born(dispatcher[x].now)'
                    /\ dispatcher'[x].at = "known" => tasks'[dispatcher'[x].now] = 1
  BY DEF MemoryIsTrue
<1>2. CASE x = d
  <2>1. \A y \in dispatcher'[d].todo : y \in Executions /\ Born(y)
    BY <1>1 DEF MemoryIsTrue
  <2>2. QED
    BY <1>2, <2>1
<1>3. CASE x # d
  <2>1. dispatcher'[x] = dispatcher[x]
    BY <1>3
  <2>2. QED
    BY <1>1, <2>1 DEF MemoryIsTrue
<1>4. QED
  BY <1>2, <1>3

\* So it does when a process is done with an execution.
LEMMA LeavingKeepsMemory ==
  ASSUME SchedTypeOK, MemoryIsTrue, NEW d \in Dispatchers, NEW e, Leaves(d, e),
         \A x \in Executions : Born(x) => Born(x)',
         \A x \in Executions : tasks[x] = 1 => tasks'[x] = 1
  PROVE  MemoryIsTrue'
<1>1. /\ \A x \in Dispatchers \ {d} : dispatcher'[x] = dispatcher[x]
      /\ dispatcher'[d].todo \subseteq dispatcher[d].todo
      /\ dispatcher'[d].at \in {"idle", "dispatching"}
  BY LeavesRest
<1>2. QED
  BY <1>1, MemoryStays

\* Types are preserved by every step (runtime/schedules/service.py).
LEMMA SchedTypeStep == SchedInv /\ [SchedNext]_schedVars => SchedTypeOK'
<1> SUFFICES ASSUME SchedInv, [SchedNext]_schedVars PROVE SchedTypeOK'
  OBVIOUS
<1> USE SchedulesAssumption
    DEF SchedInv, SchedTypeOK, ExecutionStatus, Slots, Executions, Dispatchers,
        NoExecution, NewExecution, Resting, At
<1>1. CASE UNCHANGED schedVars
  BY <1>1 DEF schedVars
<1>2. ASSUME NEW d \in Scanners, Tick(d) PROVE SchedTypeOK'
  BY <1>2 DEF Tick, Due
<1>3. ASSUME NEW d \in Scanners, ListPending(d) PROVE SchedTypeOK'
  <2> DEFINE found == {e \in Executions : Dispatchable(e)}
             Kept == [at : {"idle", "scanned", "dispatching", "leased", "unknown", "known"},
                      todo : SUBSET Executions, now : Executions \cup {NoRow}]
  <2>1. /\ dispatcher' = [dispatcher EXCEPT ![d] =
              IF found = {} THEN Resting
                            ELSE [Resting EXCEPT !.at = "dispatching", !.todo = found]]
        /\ UNCHANGED <<clock, schedule, execution, tasks, schedUsed>>
    BY <1>3 DEF ListPending
  <2>2. found \subseteq Executions
    OBVIOUS
  <2> HIDE DEF found
  <2>3. Resting \in Kept /\ [Resting EXCEPT !.at = "dispatching", !.todo = found] \in Kept
    BY <2>2
  <2>4. dispatcher' \in [Dispatchers -> Kept]
    BY <2>1, <2>3
  <2>5. QED  BY <2>1, <2>4
<1>4. ASSUME NEW h \in Handlers, Trigger(h) PROVE SchedTypeOK'
  BY <1>4 DEF Trigger
<1>5. ASSUME NEW d \in Dispatchers, NEW e \in Executions, Lease(d, e)
      PROVE SchedTypeOK'
  <2>1. CASE ~Leasable(e)
    BY <1>5, <2>1, LeavesRest DEF Lease
  <2>2. CASE Leasable(e) /\ execution[e].attempts >= MaxDispatches
    <3>1. /\ execution' = [execution EXCEPT ![e].status = "failed"]
          /\ Leaves(d, e) /\ UNCHANGED <<clock, schedule, tasks, schedUsed>>
      BY <1>5, <2>2 DEF Lease
    <3>2. execution' \in [Executions -> [status : ExecutionStatus,
            attempts : 0..MaxDispatches, lease : {"none", "live", "expired"}]]
      BY <3>1
    <3>3. QED  BY <3>1, <3>2, LeavesRest
  <2>3. CASE Leasable(e) /\ ~(execution[e].attempts >= MaxDispatches)
    <3>1. /\ execution[e].attempts \in 0 .. MaxDispatches
          /\ execution[e].attempts + 1 \in 0 .. MaxDispatches
      BY <1>5, <2>3
    <3>2. /\ execution' = [execution EXCEPT ![e].status = "dispatching",
                                            ![e].attempts = @ + 1, ![e].lease = "live"]
          /\ dispatcher' = [dispatcher EXCEPT ![d].at = "leased", ![d].now = e]
          /\ UNCHANGED <<clock, schedule, tasks, schedUsed>>
      BY <1>5, <2>3 DEF Lease
    <3>3. execution' \in [Executions -> [status : ExecutionStatus,
            attempts : 0..MaxDispatches, lease : {"none", "live", "expired"}]]
      BY <1>5, <3>1, <3>2
    <3>4. dispatcher' \in [Dispatchers ->
              [at : {"idle", "scanned", "dispatching", "leased", "unknown", "known"},
               todo : SUBSET Executions, now : Executions \cup {NoRow}]]
      BY <1>5, <3>2
    <3>5. QED  BY <3>2, <3>3, <3>4
  <2>4. QED  BY <2>1, <2>2, <2>3
<1>6. ASSUME NEW d \in Dispatchers, Lookup(d) PROVE SchedTypeOK'
  BY <1>6 DEF Lookup
<1>7. ASSUME NEW d \in Dispatchers, CreateTask(d) PROVE SchedTypeOK'
  BY <1>7, LeavesRest DEF CreateTask, MemoryIsTrue
<1>8. ASSUME NEW d \in Dispatchers, RecordDispatch(d) PROVE SchedTypeOK'
  BY <1>8, LeavesRest DEF RecordDispatch, MemoryIsTrue
<1>9. ASSUME NEW d \in Dispatchers, DispatchFails(d) PROVE SchedTypeOK'
  BY <1>9, LeavesRest DEF DispatchFails
<1>10. ASSUME NEW d \in Dispatchers, DispatcherCrash(d) PROVE SchedTypeOK'
  BY <1>10 DEF DispatcherCrash
<1>11. ASSUME NEW s \in {"active", "paused"}, SetStatus(s) PROVE SchedTypeOK'
  BY <1>11 DEF SetStatus
<1>12. CASE SlotComes
  BY <1>12 DEF SlotComes
<1>13. ASSUME NEW e \in Executions, DispatchLeaseEnds(e) PROVE SchedTypeOK'
  BY <1>13 DEF DispatchLeaseEnds
<1>14. QED
  BY <1>1, <1>2, <1>3, <1>4, <1>5, <1>6, <1>7, <1>8, <1>9, <1>10, <1>11,
     <1>12, <1>13 DEF SchedNext, Scans, Dispatches

\* The initial state satisfies the invariant.
LEMMA SchedInitInv == SchedInit => SchedInv
  BY SchedulesAssumption
     DEF SchedInit, SchedInv, SchedTypeOK, ExecutionStatus, OneTaskPerExecution,
         RowsAreBorn, MemoryIsTrue, Born, Slots, Executions, Dispatchers,
         NoExecution, Resting

\* What is said of rows, tasks and memories is preserved by every step.
LEMMA SchedRowStep ==
  SchedInv /\ [SchedNext]_schedVars
    => OneTaskPerExecution' /\ RowsAreBorn' /\ MemoryIsTrue'
<1> DEFINE Good == OneTaskPerExecution /\ RowsAreBorn /\ MemoryIsTrue
<1> SUFFICES ASSUME SchedInv, [SchedNext]_schedVars PROVE Good'
  OBVIOUS
<1> USE SchedulesAssumption
    DEF SchedInv, SchedTypeOK, ExecutionStatus, OneTaskPerExecution, RowsAreBorn,
        MemoryIsTrue, Born, Slots, Executions, Dispatchers, NoExecution,
        NewExecution, Resting, At
<1>1. CASE UNCHANGED schedVars
  BY <1>1 DEF schedVars
<1>2. ASSUME NEW d \in Scanners, Tick(d) PROVE Good'
  BY <1>2 DEF Tick, Due
<1>3. ASSUME NEW d \in Scanners, ListPending(d) PROVE Good'
  BY <1>3 DEF ListPending, Dispatchable
<1>4. ASSUME NEW h \in Handlers, Trigger(h) PROVE Good'
  BY <1>4 DEF Trigger
<1>5. ASSUME NEW d \in Dispatchers, NEW e \in Executions, Lease(d, e) PROVE Good'
  <2>1. CASE ~Leasable(e)
    <3>1. Leaves(d, e) /\ UNCHANGED <<clock, schedule, execution, tasks, schedUsed>>
      BY <1>5, <2>1 DEF Lease
    <3>2. RowsAreBorn' /\ OneTaskPerExecution' /\ \A x : Born(x)' <=> Born(x)
      BY <3>1
    <3> HIDE DEF MemoryIsTrue, Born, SchedTypeOK
    <3>3. MemoryIsTrue'
      BY <3>1, <3>2, LeavingKeepsMemory
    <3>4. QED  BY <3>2, <3>3
  <2>2. CASE Leasable(e) /\ execution[e].attempts >= MaxDispatches
    <3>1. /\ execution' = [execution EXCEPT ![e].status = "failed"]
          /\ Leaves(d, e) /\ UNCHANGED <<clock, schedule, tasks, schedUsed>>
      BY <1>5, <2>2 DEF Lease
    <3>2. \A x \in Executions : Born(x) => Born(x)'
      BY <3>1
    <3>3. RowsAreBorn' /\ OneTaskPerExecution'
      BY <2>2, <3>1 DEF Leasable
    <3> HIDE DEF MemoryIsTrue, Born, SchedTypeOK
    <3>4. MemoryIsTrue'
      BY <3>1, <3>2, LeavingKeepsMemory
    <3>5. QED  BY <3>3, <3>4
  <2>3. CASE Leasable(e) /\ ~(execution[e].attempts >= MaxDispatches)
    <3>1. /\ execution' = [execution EXCEPT ![e].status = "dispatching",
                             ![e].attempts = @ + 1, ![e].lease = "live"]
          /\ dispatcher' = [dispatcher EXCEPT ![d].at = "leased", ![d].now = e]
          /\ e \in dispatcher[d].todo /\ UNCHANGED <<clock, schedule, tasks, schedUsed>>
      BY <1>5, <2>3 DEF Lease
    <3>2. \A x \in Executions : Born(x) => Born(x)'
      BY <3>1
    <3>3. RowsAreBorn' /\ OneTaskPerExecution'
      BY <2>3, <3>1 DEF Leasable
    <3>4. /\ dispatcher'[d].at = "leased" /\ dispatcher'[d].now = e
          /\ dispatcher'[d].todo = dispatcher[d].todo
          /\ \A x \in Dispatchers \ {d} : dispatcher'[x] = dispatcher[x]
      BY <3>1
    <3>5. e \in Executions /\ Born(e)
      BY <3>1
    <3> HIDE DEF MemoryIsTrue, Born, SchedTypeOK
    <3>6. Born(dispatcher[d].now)'
      BY <3>2, <3>4, <3>5
    <3>7. MemoryIsTrue'
      BY <3>1, <3>2, <3>4, <3>5, <3>6, MemoryStays
    <3>8. QED  BY <3>3, <3>7
  <2>4. QED  BY <2>1, <2>2, <2>3
<1>6. ASSUME NEW d \in Dispatchers, Lookup(d) PROVE Good'
  BY <1>6 DEF Lookup
<1>7. ASSUME NEW d \in Dispatchers, CreateTask(d) PROVE Good'
  <2> DEFINE e == dispatcher[d].now
  <2>1. CASE tasks[e] = 0
    <3>1. /\ tasks' = [tasks EXCEPT ![e] = @ + 1] /\ dispatcher[d].at = "unknown"
          /\ dispatcher' = [dispatcher EXCEPT ![d].at = "known"]
          /\ UNCHANGED <<clock, schedule, execution, schedUsed>>
      BY <1>7, <2>1 DEF CreateTask
    <3>2. e \in Executions /\ Born(e) /\ tasks'[e] = 1
      BY <2>1, <3>1
    <3>3. RowsAreBorn' /\ OneTaskPerExecution' /\ \A x : Born(x)' <=> Born(x)
      BY <2>1, <3>1, <3>2
    <3>4. /\ dispatcher'[d].todo = dispatcher[d].todo
          /\ dispatcher'[d].now = e
          /\ \A x \in Dispatchers \ {d} : dispatcher'[x] = dispatcher[x]
      BY <3>1
    <3>5. \A x \in Executions : tasks[x] = 1 => tasks'[x] = 1
      BY <2>1, <3>1
    <3> HIDE DEF e, MemoryIsTrue, Born, SchedTypeOK
    <3>6. Born(dispatcher[d].now)'
      BY <3>2, <3>3, <3>4
    <3>7. MemoryIsTrue'
      BY <3>2, <3>3, <3>4, <3>5, <3>6, MemoryStays
    <3>8. QED  BY <3>3, <3>7
  <2>2. CASE tasks[e] # 0
    <3>1. Leaves(d, e) /\ UNCHANGED <<clock, schedule, execution, tasks, schedUsed>>
      BY <1>7, <2>2 DEF CreateTask
    <3>2. RowsAreBorn' /\ OneTaskPerExecution'
      BY <3>1
    <3>3. \A x : Born(x)' <=> Born(x)
      BY <3>1
    <3> HIDE DEF MemoryIsTrue, Born, SchedTypeOK
    <3>4. MemoryIsTrue'
      BY <3>1, <3>3, LeavingKeepsMemory
    <3>5. QED  BY <3>2, <3>4
  <2>3. QED  BY <2>1, <2>2
<1>8. ASSUME NEW d \in Dispatchers, RecordDispatch(d) PROVE Good'
  <2> DEFINE e == dispatcher[d].now
  <2>1. /\ e \in Executions /\ Born(e) /\ tasks[e] = 1
        /\ execution' = [execution EXCEPT ![e].status = "dispatched",
                                          ![e].lease = "none"]
        /\ Leaves(d, e) /\ UNCHANGED <<clock, schedule, tasks, schedUsed>>
    BY <1>8 DEF RecordDispatch
  <2> HIDE DEF e
  <2>2. \A x \in Executions : Born(x) => Born(x)'
    BY <2>1
  <2>3. RowsAreBorn' /\ OneTaskPerExecution'
    BY <2>1
  <2> HIDE DEF MemoryIsTrue, Born, SchedTypeOK
  <2>4. MemoryIsTrue'
    BY <2>1, <2>2, LeavingKeepsMemory
  <2>5. QED  BY <2>3, <2>4
<1>9. ASSUME NEW d \in Dispatchers, DispatchFails(d) PROVE Good'
  <2> DEFINE e == dispatcher[d].now
  <2>1. /\ Leaves(d, e)
        /\ UNCHANGED <<clock, schedule, execution, tasks, schedUsed>>
    BY <1>9 DEF DispatchFails
  <2> HIDE DEF e
  <2>2. RowsAreBorn' /\ OneTaskPerExecution'
    BY <2>1
  <2>3. \A x : Born(x)' <=> Born(x)
    BY <2>1
  <2> HIDE DEF MemoryIsTrue, Born, SchedTypeOK
  <2>4. MemoryIsTrue'
    BY <2>1, <2>3, LeavingKeepsMemory
  <2>5. QED  BY <2>2, <2>4
<1>10. ASSUME NEW d \in Dispatchers, DispatcherCrash(d) PROVE Good'
  BY <1>10 DEF DispatcherCrash
<1>11. ASSUME NEW s \in {"active", "paused"}, SetStatus(s) PROVE Good'
  BY <1>11 DEF SetStatus
<1>12. CASE SlotComes
  BY <1>12 DEF SlotComes
<1>13. ASSUME NEW e \in Executions, DispatchLeaseEnds(e) PROVE Good'
  BY <1>13 DEF DispatchLeaseEnds
<1>14. QED
  BY <1>1, <1>2, <1>3, <1>4, <1>5, <1>6, <1>7, <1>8, <1>9, <1>10, <1>11,
     <1>12, <1>13 DEF SchedNext, Scans, Dispatches

-----------------------------------------------------------------------------
\* The invariant holds in every behaviour of the scheduler.
LEMMA SchedInvariant == SchedSpec => []SchedInv
<1>1. SchedInv /\ [SchedNext]_schedVars => SchedInv'
  BY SchedTypeStep, SchedRowStep DEF SchedInv
<1>2. QED
  BY <1>1, SchedInitInv, PTL DEF SchedSpec

\* Types of the scheduler's rows and processes.
THEOREM SchedTypeCorrect == SchedSpec => []SchedTypeOK
<1>1. SchedInv => SchedTypeOK
  BY DEF SchedInv
<1>2. QED
  BY <1>1, SchedInvariant, PTL

\* However many processes dispatch an execution, it makes one task at most, and
\* none before its time; "dispatched" is true (ScheduledTaskApplicationService).
THEOREM OneTask == SchedSpec => []OneTaskPerExecution
<1>1. SchedInv => OneTaskPerExecution
  BY DEF SchedInv
<1>2. QED
  BY <1>1, SchedInvariant, PTL

-----------------------------------------------------------------------------
(* Memories: a candidate is decided once, and as it was seen.               *)

\* An extractor that works has a job, and one that inserts has a fact.
ExtractorHasJob ==
  \A x \in Extractors :
    /\ extractor[x].at # "idle" => extractor[x].run \in Runs
    /\ extractor[x].at = "inserting" => extractor[x].fact \in Facts

\* A tab shows a candidate that exists, in no later version than the table's, and
\* in the same version it shows the same fact.
TabsAreReal ==
  \A t \in Tabs :
    LET c == tab[t].shows
    IN c # Nobody =>
         /\ candidate[c].status # "none"
         /\ tab[t].version <= candidate[c].version
         /\ tab[t].version = candidate[c].version => tab[t].fact = candidate[c].fact

\* An approval under way holds the lock of a pending candidate alone, and approves
\* what its tab shows.
ApprovalsHold ==
  \A t \in Tabs : tab[t].at = "approving" =>
    /\ tab[t].shows # Nobody
    /\ candidate[tab[t].shows].status = "pending"
    /\ tab[t].version = candidate[tab[t].shows].version
    /\ memUsed.acts > 0
    /\ \A u \in Tabs : tab[u].at = "approving" /\ tab[u].shows = tab[t].shows => u = t

\* A memory without an id does not exist.
IdsAreReal ==
  /\ \A k \in Keys : memory[k].id = 0 => memory[k] = NoMemory
  /\ \A t \in Tabs : tab[t].read.id = 0 => tab[t].read = NoMemory

MemInv == MemTypeOK /\ ExtractorHasJob /\ TabsAreReal /\ ApprovalsHold /\ IdsAreReal

-----------------------------------------------------------------------------
\* The initial state satisfies the invariant.
LEMMA MemInitInv == MemInit => MemInv
<1> SUFFICES ASSUME MemInit PROVE MemInv
  OBVIOUS
<1> USE MemoriesAssumption DEF MemInit
<1>1. \A c \in Candidates : c[2] \in Facts
  BY DEF Candidates
<1>2. MemTypeOK
  BY <1>1 DEF MemTypeOK, JobRow, CandidateRow, MemoryRow, ExtractorState, TabState,
              NoCandidate, NoMemory, Asleep, Blank
<1>3. ExtractorHasJob /\ TabsAreReal /\ ApprovalsHold /\ IdsAreReal
  BY DEF ExtractorHasJob, TabsAreReal, ApprovalsHold, IdsAreReal, NoMemory, Asleep, Blank
<1>4. QED
  BY <1>2, <1>3 DEF MemInv

\* An extractor that changes neither candidates nor anything of the user.
LEMMA ExtractorAlone ==
  ASSUME MemInv, NEW x \in Extractors, NEW s \in ExtractorState,
         extractor' = [extractor EXCEPT ![x] = s],
         s.at # "idle" => s.run \in Runs,
         s.at = "inserting" => s.fact \in Facts,
         UNCHANGED <<candidate, memory, tab>>, extraction' \in [Runs -> JobRow],
         memUsed' \in [acts : 0..MaxActs, crashes : 0..MaxCrashes],
         memUsed'.acts = memUsed.acts
  PROVE  MemInv'
<1>1. MemTypeOK'
  BY DEF MemInv, MemTypeOK
<1>2. ExtractorHasJob'
  BY DEF MemInv, MemTypeOK, ExtractorHasJob
<1>3. TabsAreReal' /\ ApprovalsHold' /\ IdsAreReal'
  BY DEF MemInv, TabsAreReal, ApprovalsHold, IdsAreReal
<1>4. QED
  BY <1>1, <1>2, <1>3 DEF MemInv

\* What the extractor does (MemoryExtractionApplicationService.process_next).
LEMMA ExtractorStep ==
  ASSUME MemInv, NEW x \in Extractors, Extracts(x) \/ ExtractorCrash(x)
  PROVE  MemInv'
<1>1. /\ extractor \in [Extractors -> ExtractorState] /\ extractor[x] \in ExtractorState
      /\ extraction \in [Runs -> JobRow]
      /\ memUsed \in [acts : 0..MaxActs, crashes : 0..MaxCrashes]
  BY DEF MemInv, MemTypeOK
<1>2. Asleep \in ExtractorState /\ Asleep.at = "idle"
  BY MemoriesAssumption DEF Asleep, ExtractorState
<1>3. /\ extractor[x].at # "idle" => extractor[x].run \in Runs
      /\ extractor[x].at = "inserting" => extractor[x].fact \in Facts
  BY DEF MemInv, ExtractorHasJob
<1>4. ASSUME NEW r \in Runs, ClaimExtraction(x, r) PROVE MemInv'
  <2> DEFINE n == extraction[r].attempts + 1
             s == [Asleep EXCEPT !.at = "extracting", !.run = r, !.tries = n]
             j == [status |-> "running", attempts |-> n, retry |-> FALSE, stale |-> FALSE]
  <2>1. n \in 0..ClaimLimit
    BY <1>1, <1>4, MemoriesAssumption DEF ClaimExtraction, JobRow
  <2>2. s \in ExtractorState /\ s.at = "extracting" /\ s.run \in Runs
    BY <1>2, <2>1 DEF Asleep, ExtractorState
  <2>3. j \in JobRow
    BY <2>1 DEF JobRow
  <2>4. /\ extraction' = [extraction EXCEPT ![r] = j]
        /\ extractor' = [extractor EXCEPT ![x] = s]
        /\ UNCHANGED <<candidate, memory, tab, memUsed>>
    BY <1>4 DEF ClaimExtraction
  <2> HIDE DEF s, j
  <2>5. QED  BY <1>1, <2>2, <2>3, <2>4, ExtractorAlone
<1>5. CASE Extract(x)
  <2>1. PICK specs \in SUBSET Facts :
          extractor' = [extractor EXCEPT ![x] =
                          [extractor[x] EXCEPT !.at = "proposing", !.specs = specs]]
    BY <1>1, <1>5 DEF Extract
  <2> DEFINE s == [extractor[x] EXCEPT !.at = "proposing", !.specs = specs]
  <2>2. s \in ExtractorState /\ s.at = "proposing" /\ s.run \in Runs
    BY <1>1, <1>3, <1>5 DEF Extract, ExtractorState
  <2>3. UNCHANGED <<extraction, candidate, memory, tab, memUsed>>
    BY <1>5 DEF Extract
  <2> HIDE DEF s
  <2>4. extractor' = [extractor EXCEPT ![x] = s]
    BY <2>1 DEF s
  <2>5. QED  BY <1>1, <2>2, <2>3, <2>4, ExtractorAlone
<1>6. ASSUME NEW f \in Facts, Propose(x, f) PROVE MemInv'
  <2> DEFINE at == IF Duplicate(f) THEN "proposing" ELSE "inserting"
             fact == IF Duplicate(f) THEN Nobody ELSE f
             s == [extractor[x] EXCEPT !.specs = @ \ {f}, !.at = at, !.fact = fact]
  <2>1. /\ extractor' = [extractor EXCEPT ![x] = s]
        /\ UNCHANGED <<extraction, candidate, memory, tab, memUsed>>
    BY <1>1, <1>6 DEF Propose
  <2>2. /\ at \in {"proposing", "inserting"} /\ fact \in Facts \cup {Nobody}
        /\ at = "inserting" => fact \in Facts
    OBVIOUS
  <2> HIDE DEF at, fact
  <2>3. /\ s \in ExtractorState /\ s.at = at /\ s.fact = fact /\ s.run \in Runs
    BY <1>1, <1>3, <1>6, <2>2 DEF Propose, ExtractorState
  <2> HIDE DEF s
  <2>4. QED  BY <1>1, <2>1, <2>2, <2>3, ExtractorAlone
<1>7. CASE InsertCandidate(x)
  <2> DEFINE c == <<extractor[x].run, extractor[x].fact>>
             s == [extractor[x] EXCEPT !.at = "proposing", !.fact = Nobody]
             new == [candidate[c] EXCEPT !.status = "pending", !.version = 1]
  <2>1. c \in Candidates
    BY <1>3, <1>7 DEF InsertCandidate, Candidates
  <2>2. candidate \in [Candidates -> CandidateRow] /\ new \in CandidateRow
    BY <2>1 DEF MemInv, MemTypeOK, CandidateRow
  <2>3. s \in ExtractorState /\ s.at = "proposing" /\ s.run \in Runs
    BY <1>1, <1>3, <1>7 DEF InsertCandidate, ExtractorState
  <2>4. /\ \/ UNCHANGED candidate
           \/ candidate[c].status = "none" /\ candidate' = [candidate EXCEPT ![c] = new]
        /\ extractor' = [extractor EXCEPT ![x] = s]
        /\ UNCHANGED <<extraction, memory, tab, memUsed>>
    BY <1>1, <1>7, <2>2 DEF InsertCandidate, Insertable
  <2> HIDE DEF c, s, new
  <2>5. MemTypeOK'
    BY <1>1, <2>1, <2>2, <2>3, <2>4 DEF MemInv, MemTypeOK
  <2>6. ExtractorHasJob'
    BY <1>1, <2>3, <2>4 DEF MemInv, ExtractorHasJob
  <2>7. \A t \in Tabs : tab[t].shows # Nobody =>
          candidate'[tab[t].shows] = candidate[tab[t].shows]
    <3>1. \A t \in Tabs : tab[t].shows # Nobody =>
            tab[t].shows \in Candidates /\ candidate[tab[t].shows].status # "none"
      BY DEF MemInv, MemTypeOK, TabState, TabsAreReal
    <3>2. QED  BY <2>1, <2>2, <2>4, <3>1
  <2>8. TabsAreReal' /\ ApprovalsHold' /\ IdsAreReal'
    BY <2>4, <2>7 DEF MemInv, TabsAreReal, ApprovalsHold, IdsAreReal
  <2>9. QED  BY <2>5, <2>6, <2>8 DEF MemInv
<1>8. CASE CompleteExtraction(x)
  <2>1. \A r \in Runs : [extraction[r] EXCEPT !.status = "completed", !.stale = FALSE,
                                              !.retry = FALSE] \in JobRow
    BY <1>1 DEF JobRow
  <2>2. extraction' \in [Runs -> JobRow]
    BY <1>1, <2>1, <1>8 DEF CompleteExtraction
  <2>3. QED
    BY <1>1, <1>2, <1>8, <2>2, ExtractorAlone DEF CompleteExtraction
<1>9. CASE FailExtraction(x)
  <2>1. \A r \in Runs, b \in BOOLEAN :
          [extraction[r] EXCEPT !.status = "failed", !.stale = FALSE, !.retry = b] \in JobRow
    BY <1>1 DEF JobRow
  <2>2. extraction' \in [Runs -> JobRow]
    <3>1. PICK recoverable \in BOOLEAN :
            extraction' = [extraction EXCEPT ![extractor[x].run].status = "failed",
              ![extractor[x].run].stale = FALSE,
              ![extractor[x].run].retry = recoverable /\ extractor[x].tries < MaxTries]
      BY <1>9 DEF FailExtraction
    <3> DEFINE b == recoverable /\ extractor[x].tries < MaxTries
    <3>2. b \in BOOLEAN
      OBVIOUS
    <3> HIDE DEF b
    <3>3. extraction' = [extraction EXCEPT ![extractor[x].run] =
            [extraction[extractor[x].run] EXCEPT !.status = "failed", !.stale = FALSE,
                                                 !.retry = b]]
      BY <1>1, <3>1 DEF b
    <3>4. QED  BY <1>1, <2>1, <3>2, <3>3
  <2>3. QED
    BY <1>1, <1>2, <1>9, <2>2, ExtractorAlone DEF FailExtraction
<1>10. CASE ExtractorCrash(x)
  <2>1. /\ memUsed' \in [acts : 0..MaxActs, crashes : 0..MaxCrashes]
        /\ memUsed'.acts = memUsed.acts
    BY <1>1, <1>10, MemoriesAssumption DEF ExtractorCrash
  <2>2. /\ extractor' = [extractor EXCEPT ![x] = Asleep]
        /\ UNCHANGED <<extraction, candidate, memory, tab>>
    BY <1>10 DEF ExtractorCrash
  <2>3. QED  BY <1>1, <1>2, <2>1, <2>2, ExtractorAlone
<1>11. QED
  BY <1>4, <1>5, <1>6, <1>7, <1>8, <1>9, <1>10 DEF Extracts

\* Tab t makes the row n of the pending candidate c, which nobody else is approving,
\* and shows s from now on.
ChangesCandidate(t, c, n, s) ==
  /\ candidate[c].status = "pending" /\ n.status # "none"
  /\ n.version = candidate[c].version + 1
  /\ \A u \in Tabs : tab[u].at = "approving" /\ tab[u].shows = c => u = t
  /\ s.at = "reading" /\ (s.read.id = 0 => s.read = NoMemory)
  /\ s.shows # Nobody => s.shows = c /\ s.version = n.version /\ s.fact = n.fact
  /\ candidate' = [candidate EXCEPT ![c] = n] /\ tab' = [tab EXCEPT ![t] = s]
  /\ memory' \in [Keys -> MemoryRow]
  /\ \A k \in Keys : memory'[k].id = 0 => memory'[k] = NoMemory
  /\ memUsed' \in [acts : 0..MaxActs, crashes : 0..MaxCrashes]
  /\ memUsed.acts > 0 => memUsed'.acts > 0
  /\ UNCHANGED <<extraction, extractor>>

\* The other tabs are left with an older version of the candidate.
LEMMA CandidateChange ==
  ASSUME MemInv, NEW t \in Tabs, NEW c \in Candidates, NEW n \in CandidateRow,
         NEW s \in TabState, ChangesCandidate(t, c, n, s)
  PROVE  MemInv'
<1> USE DEF ChangesCandidate
<1>1. /\ tab \in [Tabs -> TabState] /\ candidate \in [Candidates -> CandidateRow]
      /\ \A u \in Tabs : tab[u].shows \in Candidates \cup {Nobody} /\ tab[u].version \in Nat
      /\ \A d \in Candidates : candidate[d].version \in Nat
  BY DEF MemInv, MemTypeOK, TabState, CandidateRow
<1>2. MemTypeOK'
  BY DEF MemInv, MemTypeOK
<1>3. ExtractorHasJob'
  BY DEF MemInv, ExtractorHasJob
<1>4. TabsAreReal'
  <2> SUFFICES ASSUME NEW u \in Tabs, tab'[u].shows # Nobody
               PROVE  /\ candidate'[tab'[u].shows].status # "none"
                      /\ tab'[u].version <= candidate'[tab'[u].shows].version
                      /\ tab'[u].version = candidate'[tab'[u].shows].version
                           => tab'[u].fact = candidate'[tab'[u].shows].fact
    BY DEF TabsAreReal
  <2>1. CASE u = t
    BY <1>1, <2>1 DEF CandidateRow
  <2>2. CASE u # t /\ tab[u].shows = c
    BY <1>1, <2>2 DEF MemInv, TabsAreReal
  <2>3. CASE u # t /\ tab[u].shows # c
    BY <1>1, <2>3 DEF MemInv, TabsAreReal
  <2>4. QED  BY <2>1, <2>2, <2>3
<1>5. ApprovalsHold'
  BY <1>1 DEF MemInv, ApprovalsHold
<1>6. IdsAreReal'
  BY <1>1 DEF MemInv, IdsAreReal
<1>7. QED
  BY <1>2, <1>3, <1>4, <1>5, <1>6 DEF MemInv

\* What the tabs write: an edited or a resolved row.
LEMMA EditedRow ==
  ASSUME NEW r \in CandidateRow, NEW f \in Facts
  PROVE  LET n == [r EXCEPT !.fact = f, !.version = @ + 1]
         IN /\ n \in CandidateRow /\ n.status = r.status /\ n.version = r.version + 1
            /\ n.fact = f
<1>1. r.version + 1 \in Nat
  BY DEF CandidateRow
<1>2. QED
  BY <1>1 DEF CandidateRow

LEMMA ResolvedRow ==
  ASSUME NEW r \in CandidateRow, NEW status \in {"approved", "rejected", "expired"}
  PROVE  LET n == [r EXCEPT !.status = status, !.version = @ + 1, !.due = FALSE]
         IN n \in CandidateRow /\ n.status = status /\ n.version = r.version + 1
<1>1. r.version + 1 \in Nat
  BY DEF CandidateRow
<1>2. QED
  BY <1>1 DEF CandidateRow

\* What the tabs do: MemoryCandidateApplicationService.
LEMMA TabStep ==
  ASSUME MemInv, NEW t \in Tabs, Decides(t) \/ CommitApprove(t)
  PROVE  MemInv'
<1>1. /\ tab \in [Tabs -> TabState] /\ tab[t] \in TabState
      /\ candidate \in [Candidates -> CandidateRow] /\ memory \in [Keys -> MemoryRow]
      /\ memUsed \in [acts : 0..MaxActs, crashes : 0..MaxCrashes]
  BY DEF MemInv, MemTypeOK
<1>2. Blank \in TabState /\ Blank.shows = Nobody /\ Blank.at = "reading"
      /\ Blank.read = NoMemory /\ NoMemory \in MemoryRow /\ NoMemory.id = 0
  BY MemoriesAssumption DEF Blank, TabState, NoMemory, MemoryRow
<1>3. \A c \in Candidates : c # Nobody /\ c[2] \in Facts /\ candidate[c].fact \in Facts
  BY <1>1, MemoriesAssumption DEF Candidates, Facts, CandidateRow
<1>4. Acts => memUsed' \in [acts : 0..MaxActs, crashes : 0..MaxCrashes] /\ memUsed'.acts > 0
  BY <1>1, MemoriesAssumption DEF Acts
<1>5. Current(t) => /\ tab[t].shows \in Candidates /\ tab[t].at = "reading"
                    /\ candidate[tab[t].shows].status = "pending"
                    /\ candidate[tab[t].shows].version = tab[t].version
                    /\ ~Locked(tab[t].shows)
  BY <1>1 DEF Current, TabState
<1>6. ASSUME NEW c \in Candidates, Show(t, c) PROVE MemInv'
  <2> DEFINE s == [Blank EXCEPT !.shows = c, !.version = candidate[c].version,
                                !.fact = candidate[c].fact]
  <2>1. /\ s \in TabState /\ s.shows = c /\ s.version = candidate[c].version
        /\ s.fact = candidate[c].fact /\ s.at = "reading" /\ s.read = NoMemory
    BY <1>1, <1>2, <1>3 DEF Blank, TabState, CandidateRow
  <2>2. /\ tab[t].at = "reading" /\ candidate[c].status = "pending"
        /\ tab' = [tab EXCEPT ![t] = s]
        /\ UNCHANGED <<extraction, candidate, memory, extractor, memUsed>>
    BY <1>6 DEF Show
  <2> HIDE DEF s
  <2>3. MemTypeOK' /\ ExtractorHasJob'
    BY <1>1, <2>1, <2>2 DEF MemInv, MemTypeOK, ExtractorHasJob
  <2>4. TabsAreReal'
    BY <1>1, <2>1, <2>2 DEF MemInv, TabsAreReal, CandidateRow
  <2>5. ApprovalsHold' /\ IdsAreReal'
    BY <1>1, <2>1, <2>2 DEF MemInv, ApprovalsHold, IdsAreReal
  <2>6. QED  BY <2>3, <2>4, <2>5 DEF MemInv
<1>7. CASE UpdateCandidate(t)
  <2> DEFINE c == tab[t].shows
  <2>1. PICK f \in Facts :
          /\ candidate' = [candidate EXCEPT ![c].fact = f, ![c].version = @ + 1]
          /\ tab' = [tab EXCEPT ![t].fact = f, ![t].version = candidate[c].version + 1]
    BY <1>7 DEF UpdateCandidate
  <2> DEFINE n == [candidate[c] EXCEPT !.fact = f, !.version = @ + 1]
             v == candidate[c].version + 1
             s == [tab[t] EXCEPT !.fact = f, !.version = v]
  <2>2. /\ c \in Candidates /\ tab[t].at = "reading" /\ candidate[c].status = "pending"
        /\ ~Locked(c)
    BY <1>5, <1>7 DEF UpdateCandidate
  <2>3. /\ n \in CandidateRow /\ n.status = "pending" /\ n.version = candidate[c].version + 1
        /\ n.fact = f
    BY <1>1, <2>2, EditedRow
  <2>4. /\ s \in TabState /\ s.at = "reading" /\ s.shows = c /\ s.fact = f
        /\ s.version = candidate[c].version + 1 /\ s.read = tab[t].read
    <3>1. v \in Nat
      BY <1>1, <2>2 DEF CandidateRow
    <3>2. tab[t] \in TabState /\ c = tab[t].shows
      BY <1>1
    <3> HIDE DEF c, v
    <3>3. /\ s \in TabState /\ s.at = "reading" /\ s.shows = c /\ s.fact = f
          /\ s.version = v /\ s.read = tab[t].read
      BY <2>2, <3>1, <3>2 DEF TabState
    <3>4. QED  BY <3>3 DEF v
  <2>5. candidate' = [candidate EXCEPT ![c] = n] /\ tab' = [tab EXCEPT ![t] = s]
    BY <1>1, <2>1
  <2>6. Acts /\ UNCHANGED <<extraction, memory, extractor>>
    BY <1>7 DEF UpdateCandidate
  <2>7. \A u \in Tabs : tab[u].at = "approving" /\ tab[u].shows = c => u = t
    BY <2>2 DEF Locked
  <2>8. /\ \A k \in Keys : memory[k].id = 0 => memory[k] = NoMemory
        /\ tab[t].read.id = 0 => tab[t].read = NoMemory
    BY DEF MemInv, IdsAreReal
  <2> HIDE DEF c, v, n, s
  <2>9. /\ memUsed' \in [acts : 0..MaxActs, crashes : 0..MaxCrashes] /\ memUsed'.acts > 0
        /\ memory' = memory /\ memory' \in [Keys -> MemoryRow]
        /\ extraction' = extraction /\ extractor' = extractor
        /\ n.status # "none"
    BY <1>1, <1>4, <2>3, <2>6
  <2>10. s.read.id = 0 => s.read = NoMemory
    BY <2>4, <2>8
  <2>11. ChangesCandidate(t, c, n, s)
    BY <2>2, <2>3, <2>4, <2>5, <2>7, <2>8, <2>9, <2>10 DEF ChangesCandidate
  <2>12. QED
    BY <2>2, <2>3, <2>4, <2>11, CandidateChange
<1>8. ASSUME NEW c \in Candidates, c = tab[t].shows, candidate[c].status = "pending",
             NEW status \in {"approved", "rejected", "expired"}, Resolves(c, status),
             \A u \in Tabs : tab[u].at = "approving" /\ tab[u].shows = c => u = t,
             tab' = [tab EXCEPT ![t] = Blank], UNCHANGED <<extraction, extractor>>,
             memory' \in [Keys -> MemoryRow],
             \A k \in Keys : memory'[k].id = 0 => memory'[k] = NoMemory,
             memUsed' \in [acts : 0..MaxActs, crashes : 0..MaxCrashes],
             memUsed.acts > 0 => memUsed'.acts > 0
      PROVE  MemInv'
  <2> DEFINE n == Resolved(c, status)
  <2>1. n \in CandidateRow /\ n.status # "none" /\ n.version = candidate[c].version + 1
    BY <1>1, ResolvedRow DEF Resolved
  <2>2. candidate' = [candidate EXCEPT ![c] = n]
    BY <1>8 DEF Resolves
  <2> HIDE DEF n
  <2>3. ChangesCandidate(t, c, n, Blank)
    BY <1>2, <1>8, <2>1, <2>2 DEF ChangesCandidate
  <2>4. QED
    BY <1>2, <1>8, <2>1, <2>3, CandidateChange
<1>9. CASE RejectCandidate(t)
  <2>1. /\ Current(t) /\ Acts /\ Resolves(tab[t].shows, "rejected")
        /\ tab' = [tab EXCEPT ![t] = Blank] /\ UNCHANGED <<extraction, memory, extractor>>
    BY <1>9 DEF RejectCandidate
  <2>2. \A k \in Keys : memory[k].id = 0 => memory[k] = NoMemory
    BY DEF MemInv, IdsAreReal
  <2>3. QED  BY <1>1, <1>4, <1>5, <1>8, <2>1, <2>2 DEF Locked
<1>10. CASE BeginApprove(t)
  <2> DEFINE c == tab[t].shows
             existing == memory[candidate[c].fact[1]]
             s == [tab[t] EXCEPT !.at = "approving", !.read = existing]
  <2>1. /\ Current(t) /\ Acts /\ UNCHANGED <<extraction, memory, extractor>>
        /\ c \in Candidates /\ tab[t].at = "reading" /\ ~Locked(c)
        /\ candidate[c].status = "pending" /\ candidate[c].version = tab[t].version
    BY <1>5, <1>10 DEF BeginApprove
  <2>2. \A k \in Keys : memory[k].id = 0 => memory[k] = NoMemory
    BY DEF MemInv, IdsAreReal
  <2>3. CASE Resolves(c, "expired") /\ tab' = [tab EXCEPT ![t] = Blank]
    BY <1>1, <1>4, <1>8, <2>1, <2>2, <2>3 DEF Locked
  <2>4. CASE tab' = [tab EXCEPT ![t].at = "approving", ![t].read = existing]
             /\ UNCHANGED candidate
    <3>1. candidate[c].fact[1] \in Keys
      BY <1>3, <2>1 DEF Facts
    <3>2. existing \in MemoryRow /\ (existing.id = 0 => existing = NoMemory)
      BY <1>1, <2>2, <3>1
    <3>3. /\ s \in TabState /\ s.at = "approving" /\ s.shows = c /\ s.read = existing
          /\ s.version = tab[t].version /\ s.fact = tab[t].fact
      BY <1>1, <3>2 DEF TabState
    <3>4. tab' = [tab EXCEPT ![t] = s]
      BY <1>1, <2>4
    <3>5. memUsed' \in [acts : 0..MaxActs, crashes : 0..MaxCrashes] /\ memUsed'.acts > 0
      BY <1>4, <2>1
    <3>6. c # Nobody
      BY <1>3, <2>1
    <3>7. c = tab[t].shows
      OBVIOUS
    <3> HIDE DEF c, existing, s
    <3>8. MemTypeOK' /\ ExtractorHasJob'
      BY <2>1, <2>4, <3>3, <3>4, <3>5 DEF MemInv, MemTypeOK, ExtractorHasJob
    <3>9. TabsAreReal' /\ IdsAreReal'
      BY <1>1, <2>1, <2>4, <3>2, <3>3, <3>4, <3>7 DEF MemInv, TabsAreReal, IdsAreReal
    <3>10. ApprovalsHold'
      <4>1. \A u \in Tabs : tab[u].at = "approving" => tab[u].shows # c
        BY <2>1 DEF Locked
      <4>2. \A u \in Tabs \ {t} : tab'[u] = tab[u]
        BY <1>1, <3>4
      <4>3. tab'[t] = s
        BY <1>1, <3>4
      <4>4. \A u \in Tabs : tab'[u].at = "approving" =>
              \A w \in Tabs : tab'[w].at = "approving" /\ tab'[w].shows = tab'[u].shows
                              => w = u
        BY <3>3, <4>1, <4>2, <4>3 DEF MemInv, ApprovalsHold
      <4>5. \A u \in Tabs : tab'[u].at = "approving" =>
              /\ tab'[u].shows # Nobody
              /\ candidate[tab'[u].shows].status = "pending"
              /\ tab'[u].version = candidate[tab'[u].shows].version
        BY <2>1, <3>3, <3>6, <4>2, <4>3 DEF MemInv, ApprovalsHold
      <4>6. QED
        BY <2>4, <3>5, <4>4, <4>5 DEF ApprovalsHold
    <3>11. QED  BY <3>8, <3>9, <3>10 DEF MemInv
  <2>5. QED
    BY <1>10, <2>3, <2>4 DEF BeginApprove
<1>11. CASE CommitApprove(t)
  <2> DEFINE c == tab[t].shows
             key == candidate[c].fact[1]
             row == [active |-> TRUE, content |-> candidate[c].fact[2], id |-> memUsed.acts]
  <2>1. /\ tab[t].at = "approving" /\ tab' = [tab EXCEPT ![t] = Blank]
        /\ UNCHANGED <<extraction, extractor, memUsed>>
    BY <1>11 DEF CommitApprove
  <2>2. /\ c \in Candidates /\ candidate[c].status = "pending" /\ memUsed.acts > 0
        /\ \A u \in Tabs : tab[u].at = "approving" /\ tab[u].shows = c => u = t
    BY <1>1, <2>1 DEF MemInv, ApprovalsHold, TabState
  <2>3. key \in Keys /\ candidate[c].fact[2] \in Contents
    BY <1>3, <2>2 DEF Facts
  <2>4. row \in MemoryRow /\ row.id # 0
    BY <1>1, <2>2, <2>3 DEF MemoryRow
  <2>5. \/ UNCHANGED <<candidate, memory>>
        \/ /\ Resolves(c, "approved")
           /\ UNCHANGED memory \/ memory' = [memory EXCEPT ![key] = row]
    BY <1>11 DEF CommitApprove
  <2>6. \A k \in Keys : memory[k].id = 0 => memory[k] = NoMemory
    BY DEF MemInv, IdsAreReal
  <2>7. c = tab[t].shows
    OBVIOUS
  <2> HIDE DEF c, key, row
  <2>8. /\ memory' \in [Keys -> MemoryRow]
        /\ \A k \in Keys : memory'[k].id = 0 => memory'[k] = NoMemory
    BY <1>1, <2>3, <2>4, <2>5, <2>6
  <2>9. CASE UNCHANGED <<candidate, memory>>
    <3>1. MemTypeOK' /\ ExtractorHasJob'
      BY <1>2, <2>1, <2>9 DEF MemInv, MemTypeOK, ExtractorHasJob
    <3>2. TabsAreReal' /\ ApprovalsHold' /\ IdsAreReal'
      BY <1>1, <1>2, <2>1, <2>9 DEF MemInv, TabsAreReal, ApprovalsHold, IdsAreReal
    <3>3. QED  BY <3>1, <3>2 DEF MemInv
  <2>10. CASE Resolves(c, "approved")
    BY <1>1, <1>8, <2>1, <2>2, <2>7, <2>8, <2>10
  <2>11. QED  BY <2>5, <2>9, <2>10
<1>12. QED
  BY <1>6, <1>7, <1>9, <1>10, <1>11 DEF Decides

\* The maintenance loop, time, and the user's own memories (MemoryApplicationService).
LEMMA OtherStep ==
  ASSUME MemInv,
         \/ \E r \in Runs : ExtractionStale(r)
         \/ \E c \in Candidates : BecomesDue(c)
         \/ ExpireDue
         \/ \E k \in Keys : CreateMemory(k) \/ UpdateMemory(k) \/ DeleteMemory(k)
  PROVE  MemInv'
<1>1. /\ tab \in [Tabs -> TabState] /\ extraction \in [Runs -> JobRow]
      /\ candidate \in [Candidates -> CandidateRow] /\ memory \in [Keys -> MemoryRow]
      /\ memUsed \in [acts : 0..MaxActs, crashes : 0..MaxCrashes]
  BY DEF MemInv, MemTypeOK
<1>2. NoMemory \in MemoryRow /\ NoMemory.id = 0
  BY DEF NoMemory, MemoryRow
<1>3. ASSUME NEW r \in Runs, ExtractionStale(r) PROVE MemInv'
  <2>1. [extraction[r] EXCEPT !.stale = TRUE] \in JobRow
    BY <1>1 DEF JobRow
  <2>2. MemTypeOK'
    BY <1>1, <1>3, <2>1 DEF ExtractionStale, MemInv, MemTypeOK
  <2>3. QED
    BY <1>3, <2>2 DEF ExtractionStale, MemInv, ExtractorHasJob, TabsAreReal, ApprovalsHold,
                      IdsAreReal
<1>4. ASSUME NEW c \in Candidates, BecomesDue(c) PROVE MemInv'
  <2> DEFINE n == [candidate[c] EXCEPT !.due = TRUE]
  <2>1. /\ n \in CandidateRow /\ n.status = candidate[c].status
        /\ n.version = candidate[c].version /\ n.fact = candidate[c].fact
    BY <1>1 DEF CandidateRow
  <2>2. candidate' = [candidate EXCEPT ![c] = n]
        /\ UNCHANGED <<extraction, memory, extractor, tab, memUsed>>
    BY <1>4 DEF BecomesDue
  <2> HIDE DEF n
  <2>3. MemTypeOK' /\ ExtractorHasJob'
    BY <1>1, <2>1, <2>2 DEF MemInv, MemTypeOK, ExtractorHasJob
  <2>4. \A d \in Candidates : /\ candidate'[d].status = candidate[d].status
                              /\ candidate'[d].version = candidate[d].version
                              /\ candidate'[d].fact = candidate[d].fact
    BY <1>1, <2>1, <2>2
  <2>5. \A t \in Tabs : tab[t].shows \in Candidates \cup {Nobody}
    BY <1>1 DEF TabState
  <2>6. TabsAreReal' /\ ApprovalsHold' /\ IdsAreReal'
    BY <2>2, <2>4, <2>5 DEF MemInv, TabsAreReal, ApprovalsHold, IdsAreReal
  <2>7. QED  BY <2>3, <2>6 DEF MemInv
<1>5. CASE ExpireDue
  <2>1. UNCHANGED <<extraction, memory, extractor, tab, memUsed>>
    BY <1>5 DEF ExpireDue
  <2>2. \A c \in Candidates : Resolved(c, "expired") \in CandidateRow
          /\ Resolved(c, "expired").status = "expired"
          /\ Resolved(c, "expired").version = candidate[c].version + 1
    BY <1>1, ResolvedRow DEF Resolved
  <2>3. /\ candidate' \in [Candidates -> CandidateRow]
        /\ \A c \in Candidates :
             \/ candidate'[c] = candidate[c]
             \/ /\ candidate'[c] = Resolved(c, "expired") /\ ~Locked(c)
    BY <1>1, <1>5, <2>2 DEF ExpireDue
  <2>4. MemTypeOK' /\ ExtractorHasJob' /\ IdsAreReal'
    BY <2>1, <2>3 DEF MemInv, MemTypeOK, ExtractorHasJob, IdsAreReal
  <2>5. \A t \in Tabs : tab[t].shows \in Candidates \cup {Nobody} /\ tab[t].version \in Nat
    BY <1>1 DEF TabState
  <2>6. \A c \in Candidates : candidate[c].version \in Nat
    BY <1>1 DEF CandidateRow
  <2>7. TabsAreReal'
    <3> SUFFICES ASSUME NEW t \in Tabs, tab[t].shows # Nobody
                 PROVE  LET c == tab[t].shows
                        IN /\ candidate'[c].status # "none"
                           /\ tab[t].version <= candidate'[c].version
                           /\ tab[t].version = candidate'[c].version
                                => tab[t].fact = candidate'[c].fact
      BY <2>1 DEF TabsAreReal
    <3>1. CASE candidate'[tab[t].shows] = candidate[tab[t].shows]
      BY <3>1 DEF MemInv, TabsAreReal
    <3>2. CASE candidate'[tab[t].shows] = Resolved(tab[t].shows, "expired")
      BY <2>2, <2>5, <2>6, <3>2 DEF MemInv, TabsAreReal
    <3>3. QED  BY <2>3, <2>5, <3>1, <3>2
  <2>8. ApprovalsHold'
    <3>1. \A t \in Tabs : tab[t].at = "approving" =>
            candidate'[tab[t].shows] = candidate[tab[t].shows]
      BY <2>3, <2>5 DEF Locked, MemInv, ApprovalsHold
    <3>2. QED  BY <2>1, <3>1 DEF MemInv, ApprovalsHold
  <2>9. QED  BY <2>4, <2>7, <2>8 DEF MemInv
<1>6. ASSUME NEW k \in Keys, CreateMemory(k) \/ UpdateMemory(k) \/ DeleteMemory(k)
      PROVE  MemInv'
  <2>1. /\ UNCHANGED <<extraction, candidate, extractor, tab>>
        /\ memUsed' \in [acts : 0..MaxActs, crashes : 0..MaxCrashes]
        /\ memUsed'.acts > 0
    BY <1>1, <1>6, MemoriesAssumption DEF CreateMemory, UpdateMemory, DeleteMemory, Acts
  <2>2. \A j \in Keys : memory[j].id = 0 => memory[j] = NoMemory
    BY DEF MemInv, IdsAreReal
  <2>3. /\ memory' \in [Keys -> MemoryRow]
        /\ \A j \in Keys : memory'[j].id = 0 => memory'[j] = NoMemory
    <3>1. CASE CreateMemory(k)
      <4>1. \A y \in Contents : [active |-> TRUE, content |-> y, id |-> memUsed.acts + 1]
              \in MemoryRow
        BY <1>1, MemoriesAssumption DEF MemoryRow
      <4>2. memUsed.acts + 1 # 0
        BY <1>1, MemoriesAssumption
      <4>3. QED  BY <1>1, <2>2, <3>1, <4>1, <4>2 DEF CreateMemory
    <3>2. CASE UpdateMemory(k)
      <4>1. \A y \in Contents, b \in BOOLEAN :
              LET m == [memory[k] EXCEPT !.content = y, !.active = b]
              IN m \in MemoryRow /\ m.id = memory[k].id
        BY <1>1 DEF MemoryRow
      <4>2. PICK m \in MemoryRow : m.id = memory[k].id /\ memory' = [memory EXCEPT ![k] = m]
        BY <1>1, <3>2, <4>1 DEF UpdateMemory
      <4>3. QED  BY <1>1, <2>2, <3>2, <4>2 DEF UpdateMemory
    <3>3. CASE DeleteMemory(k)
      BY <1>1, <1>2, <2>2, <3>3 DEF DeleteMemory
    <3>4. QED  BY <1>6, <3>1, <3>2, <3>3
  <2>4. MemTypeOK' /\ ExtractorHasJob'
    BY <2>1, <2>3 DEF MemInv, MemTypeOK, ExtractorHasJob
  <2>5. TabsAreReal' /\ ApprovalsHold' /\ IdsAreReal'
    BY <2>1, <2>3 DEF MemInv, TabsAreReal, ApprovalsHold, IdsAreReal
  <2>6. QED  BY <2>4, <2>5 DEF MemInv
<1>7. QED
  BY <1>3, <1>4, <1>5, <1>6

-----------------------------------------------------------------------------
\* The invariant holds in every behaviour of the long-term memory.
LEMMA MemInvariant == MemSpec => []MemInv
<1>1. MemInv /\ UNCHANGED memVars => MemInv'
  BY DEF memVars, MemInv, MemTypeOK, ExtractorHasJob, TabsAreReal, ApprovalsHold, IdsAreReal
<1>2. MemInv /\ MemNext => MemInv'
  BY ExtractorStep, TabStep, OtherStep DEF MemNext
<1>3. QED
  BY <1>1, <1>2, MemInitInv, PTL DEF MemSpec

\* Types of the jobs, candidates and memories, and of what extractors and tabs hold.
THEOREM MemTypeCorrect == MemSpec => []MemTypeOK
<1>1. MemInv => MemTypeOK
  BY DEF MemInv
<1>2. QED
  BY <1>1, MemInvariant, PTL

\* However many tabs decide and extractors insert, a candidate is decided once, and
\* an approval writes what the approving tab shows.
THEOREM DecidedOnce == MemSpec => DecidedOnceAsSeen
<1> DEFINE A == \A c \in Candidates : candidate'[c] # candidate[c] => DecidedAsSeen(c)
<1>1. MemInv /\ [MemNext]_memVars => A
  <2> SUFFICES ASSUME MemInv, MemNext, NEW c \in Candidates, candidate'[c] # candidate[c]
               PROVE  DecidedAsSeen(c)
    BY DEF memVars
  <2>1. candidate \in [Candidates -> CandidateRow] /\ memory \in [Keys -> MemoryRow]
        /\ tab \in [Tabs -> TabState]
    BY DEF MemInv, MemTypeOK
  <2>2. CASE candidate[c].status = "none"
    BY <2>2 DEF DecidedAsSeen
  <2>3. CASE candidate[c].status = "pending" /\ candidate'[c].status # "approved"
    BY <2>3 DEF DecidedAsSeen
  <2>4. ASSUME NEW t \in Tabs, CommitApprove(t) PROVE DecidedAsSeen(c)
    <3>1. /\ c = tab[t].shows /\ memory[candidate[c].fact[1]].id = tab[t].read.id
          /\ memory' = IF tab[t].read = NoMemory
               THEN [memory EXCEPT ![candidate[c].fact[1]] = [active |-> TRUE,
                       content |-> candidate[c].fact[2], id |-> memUsed.acts]]
               ELSE memory
      BY <2>1, <2>4 DEF CommitApprove, Resolves
    <3>2. /\ candidate[c].status = "pending" /\ tab[t].fact = candidate[c].fact
          /\ tab[t].at = "approving"
      BY <2>4, <3>1 DEF CommitApprove, MemInv, ApprovalsHold, TabsAreReal
    <3>3. candidate[c].fact[1] \in Keys
      BY <2>1 DEF CandidateRow, Facts
    <3>4. memory[candidate[c].fact[1]] = NoMemory => tab[t].read = NoMemory
      <4>1. NoMemory.id = 0
        BY DEF NoMemory
      <4>2. QED  BY <3>1, <4>1 DEF MemInv, IdsAreReal
    <3>5. memory[candidate[c].fact[1]] = NoMemory =>
            memory'[candidate[c].fact[1]].content = candidate[c].fact[2]
      BY <2>1, <3>1, <3>3, <3>4
    <3>6. QED  BY <3>1, <3>2, <3>5 DEF DecidedAsSeen
  <2>5. ASSUME NEW t \in Tabs, Decides(t)
        PROVE candidate[c].status = "pending" /\ candidate'[c].status # "approved"
    <3>1. \A d \in Candidates, st \in {"rejected", "expired"} :
            Resolves(d, st) => d = c /\ candidate'[c].status = st
      <4>1. \A d \in Candidates, st \in {"rejected", "expired"} :
              Resolved(d, st).status = st
        <5> SUFFICES ASSUME NEW d \in Candidates, NEW st \in {"rejected", "expired"}
                     PROVE  Resolved(d, st).status = st
          OBVIOUS
        <5>1. candidate[d] \in CandidateRow
          BY <2>1
        <5>2. QED  BY <5>1 DEF Resolved, CandidateRow
      <4>2. QED  BY <2>1, <4>1 DEF Resolves
    <3>2. CASE UpdateCandidate(t)
      <4>1. tab[t].shows = c /\ candidate'[c].status = candidate[c].status
        BY <2>1, <3>2 DEF UpdateCandidate, CandidateRow
      <4>2. QED  BY <3>2, <4>1 DEF UpdateCandidate, Current
    <3>3. CASE RejectCandidate(t) \/ BeginApprove(t)
      <4>1. tab[t].shows \in Candidates
        BY <2>1, <3>3 DEF RejectCandidate, BeginApprove, Current, TabState
      <4>2. QED
        BY <3>1, <3>3, <4>1 DEF RejectCandidate, BeginApprove, Current
    <3>4. QED
      BY <2>5, <3>2, <3>3 DEF Decides, Show
  <2>6. ASSUME NEW x \in Extractors, Extracts(x) \/ ExtractorCrash(x)
        PROVE candidate[c].status = "none"
    <3>1. InsertCandidate(x)
      BY <2>1, <2>6 DEF Extracts, ClaimExtraction, Extract, Propose, CompleteExtraction,
                        FailExtraction, ExtractorCrash
    <3>2. QED
      BY <2>1, <3>1 DEF InsertCandidate, Insertable
  <2>7. ASSUME \/ \E r \in Runs : ExtractionStale(r)
               \/ \E k \in Keys : CreateMemory(k) \/ UpdateMemory(k) \/ DeleteMemory(k)
        PROVE FALSE
    BY <2>7 DEF ExtractionStale, CreateMemory, UpdateMemory, DeleteMemory
  <2>8. ASSUME ExpireDue \/ \E d \in Candidates : BecomesDue(d)
        PROVE candidate[c].status = "pending" /\ candidate'[c].status # "approved"
    <3>1. CASE ExpireDue
      BY <2>1, <3>1 DEF ExpireDue, Resolved, CandidateRow
    <3>2. ASSUME NEW d \in Candidates, BecomesDue(d)
          PROVE candidate[c].status = "pending" /\ candidate'[c].status # "approved"
      BY <2>1, <3>2 DEF BecomesDue, CandidateRow
    <3>3. QED
      BY <2>8, <3>1, <3>2
  <2>9. QED
    BY <2>2, <2>3, <2>4, <2>5, <2>6, <2>7, <2>8 DEF MemNext
<1>2. QED
  BY <1>1, MemInvariant, PTL DEF MemSpec, DecidedOnceAsSeen
=============================================================================
