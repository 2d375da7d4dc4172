------------------------------ MODULE MCOutbox ------------------------------
(***************************************************************************)
(* Three parts of the worker side by side.  The outbox, with two events of *)
(* which one cannot be published; uploads, with two requests at a time for *)
(* one content; and the agent loop, with seven kinds of goals.  They share *)
(* no variable, so what one of them can do does not depend on the others:  *)
(* the initial states give work to one and find the other two at rest.     *)
(***************************************************************************)
EXTENDS Outbox, Uploads, AgentLoop

CONSTANTS edit, other, search, rag, note   \* two effects, two sources, one store

PlainGoal == [required |-> {}, exclusive |-> FALSE, transform |-> FALSE,
              unclear |-> FALSE, host |-> "lets", ifAbsent |-> {}, byIntent |-> {}]

\* To change one file; to look something up; to rewrite an answer; a change of which
\* it is not clear what it is about; to create a file, unless it is there, about what
\* the library says; to store a secret; to change a file by a document not known.
MCGoals ==
  { [PlainGoal EXCEPT !.required = {edit}, !.exclusive = TRUE],
    [PlainGoal EXCEPT !.required = {search}, !.exclusive = TRUE],
    [PlainGoal EXCEPT !.transform = TRUE],
    [PlainGoal EXCEPT !.required = {edit}, !.unclear = TRUE],
    [PlainGoal EXCEPT !.required = {edit, rag}, !.ifAbsent = {edit}, !.byIntent = {rag}],
    [PlainGoal EXCEPT !.required = {note}, !.host = "refuses"],
    [PlainGoal EXCEPT !.required = {edit}, !.host = "asks"] }

EverythingDelivered ==
  /\ status = [e \in Events |-> "delivered"] /\ lease = [e \in Events |-> "none"]
  /\ retry = [e \in Events |-> 0] /\ errors = [e \in Events |-> 0]
  /\ todo = [p \in Publishers |-> {}]
  /\ ok = [p \in Publishers |-> {}] /\ bad = [p \in Publishers |-> {}]
  /\ copies = [e \in Events |-> 1] /\ published = Events /\ dedupe = {}
  /\ faults = MaxFaults

EveryUploadDenied ==
  /\ permission = [a \in Attempts |-> [NoPermission EXCEPT !.status = "denied"]]
  /\ operation = [a \in Attempts |-> [run |-> "cancelled", task |-> "cancelled"]]
  /\ cancelling = {} /\ content = "pdf" /\ stored = {} /\ artifact = 0 /\ ingestion = "none"
  /\ uploader = [u \in Uploaders |-> NoCall] /\ uploadFaults = 0

TaskCancelled ==
  /\ goal = CHOOSE g \in Goals : TRUE
  /\ row = [status |-> "cancelled", saved |-> NoCheckpoint, wait |-> NoCheckpoint]
  /\ loop = Off /\ buf = <<>>
  /\ past = [did |-> <<>>, calls |-> 0, rewound |-> FALSE]
  /\ spent = [crashes |-> 0, pauses |-> 0, replacements |-> 0]

WorkerInit ==
  \/ Init /\ EveryUploadDenied /\ TaskCancelled
  \/ EverythingDelivered /\ UploadsInit /\ TaskCancelled
  \/ EverythingDelivered /\ EveryUploadDenied /\ LoopInit

WorkerNext ==
  \/ Next /\ UNCHANGED <<uploadVars, loopVars>>
  \/ UploadsNext /\ UNCHANGED <<vars, loopVars>>
  \/ LoopNext /\ UNCHANGED <<vars, uploadVars>>

WorkerSpec ==
  /\ WorkerInit /\ [][WorkerNext]_<<vars, uploadVars, loopVars>>
  /\ Fairness /\ LoopFairness
=============================================================================
