---------------------------- MODULE MCBackground ----------------------------
(***************************************************************************)
(* The three job queues of the background, side by side.  They share no    *)
(* variable, so what one of them can do does not depend on the others: the *)
(* initial states give work to one and find the other two at rest.  Where  *)
(* all bounds together are too much for TLC, there are two initial states, *)
(* both reachable, and each has used up a part of the bounds.              *)
(***************************************************************************)
EXTENDS RagJob, Schedules, Memories

RagIdle(requests, enqueues, faults) ==
  /\ deletion = [status |-> "none", version |-> 0, pending |-> {}]
  /\ worker = [w \in RagWorkers |-> IdleWorker] /\ api = [h \in RagHandlers |-> IdleApi]
  /\ ragUsed = [requests |-> requests, enqueues |-> enqueues, faults |-> faults]

NoDocumentAdded(requests, enqueues) ==
  /\ job = NoJob /\ document = NoDocument
  /\ chunks = NoChunks /\ assets = {} /\ files = {}
  /\ RagIdle(requests, enqueues, 0)

\* The document has been ingested at the first attempt.
DocumentReady ==
  /\ job = [NoJob EXCEPT !.status = "completed", !.attempts = 1, !.embeds = 1]
  /\ document = [status |-> "ready", version |-> 3]
  /\ chunks = [rows |-> MaxChunks, vectors |-> Listed(MaxChunks)]
  /\ \E a \in Assets : assets = {a} /\ files = {a}
  /\ RagIdle(0, 1, MaxRagFaults)

EverySlotServed ==
  /\ clock = LastSlot /\ schedule = [status |-> "active", next |-> LastSlot + 1]
  /\ execution = [e \in Executions |->
                    [status |-> "dispatched", attempts |-> 1, lease |-> "none"]]
  /\ tasks = [e \in Executions |-> 1]
  /\ dispatcher = [d \in Dispatchers |-> Resting]
  /\ schedUsed = [edits |-> MaxEdits, faults |-> 0]

NothingLearned ==
  /\ candidate = [c \in Candidates |-> NoCandidate(c)]
  /\ memory = [k \in Keys |-> NoMemory]
  /\ extractor = [x \in Extractors |-> Asleep] /\ tab = [t \in Tabs |-> Blank]

EveryRunExtracted ==
  /\ extraction = [r \in Runs |-> [status |-> "completed", attempts |-> 1,
                                   retry |-> FALSE, stale |-> FALSE]]
  /\ NothingLearned
  /\ memUsed = [acts |-> MaxActs, crashes |-> 0]

\* Every extraction can use up its claims, and the user does nothing.
ExtractionsQueued ==
  /\ extraction = [r \in Runs |-> [status |-> "queued", attempts |-> 0,
                                   retry |-> FALSE, stale |-> FALSE]]
  /\ NothingLearned
  /\ memUsed = [acts |-> MaxActs, crashes |-> 0]

\* An extractor has crashed, one claim is left, and the user goes to work.
ExtractionsStale ==
  /\ extraction = [r \in Runs |-> [status |-> "running", attempts |-> ClaimLimit - 1,
                                   retry |-> FALSE, stale |-> TRUE]]
  /\ NothingLearned
  /\ memUsed = [acts |-> 0, crashes |-> MaxCrashes]

Init ==
  \/ /\ NoDocumentAdded(MaxRequests - 1, 0) \/ DocumentReady
     /\ EverySlotServed /\ EveryRunExtracted
  \/ NoDocumentAdded(0, MaxEnqueues) /\ SchedInit /\ EveryRunExtracted
  \/ /\ ExtractionsQueued \/ ExtractionsStale
     /\ NoDocumentAdded(0, MaxEnqueues) /\ EverySlotServed

Next ==
  \/ RagNext /\ UNCHANGED <<schedVars, memVars>>
  \/ SchedNext /\ UNCHANGED <<ragVars, memVars>>
  \/ MemNext /\ UNCHANGED <<ragVars, schedVars>>

vars == <<ragVars, schedVars, memVars>>

BackgroundSpec == Init /\ [][Next]_vars /\ RagFairness /\ SchedFairness /\ MemFairness
=============================================================================
