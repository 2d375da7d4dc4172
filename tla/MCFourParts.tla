---------------------------- MODULE MCFourParts ----------------------------
(***************************************************************************)
(* Four parts of the worker side by side: two workers with one run,        *)
(* maintenance by confirmed requests, the review of a label and the ledger *)
(* of quality issues.  They share no variable, so the initial states give  *)
(* work to one and find the others at rest.                                *)
(***************************************************************************)
EXTENDS MCRunControl, Maintenance, Labels, QualityIssues

RunIsOver ==
  /\ status = "COMPLETED" /\ task = "COMPLETED" /\ ended = 1
  /\ owner = NoWorker /\ lease = "none" /\ ckpt = NoCkpt
  /\ perm = [n \in Turns |-> [st |-> "none", attempts |-> 0]]
  /\ seen = {<<"start", 0>>} /\ made = {<<"start", 0>>}
  /\ bus = [m \in Messages |-> "gone"] /\ tries = [j \in Jobs |-> 0]
  /\ worker = [w \in Workers |-> IdleWorker]
  /\ effects = [n \in Turns |-> 0] /\ env = [faults |-> 0, slow |-> FALSE]

NothingToMaintain ==
  /\ day = LastDay /\ log = [i \in 1 .. OtherRows |-> Row("permanent", LastDay)]
  /\ gone = {} /\ request = <<>> /\ resolving = {} /\ dead = <<>>
  /\ runs = <<[Run("completed", 0, "task") EXCEPT !.ended = 1]>>
  /\ parent = [status |-> "completed", active |-> 1]

NothingToReview ==
  /\ privacy = "rejected" /\ label = NoLabel /\ feedback = "none"
  /\ desk = [d \in Desks |-> Vacant] /\ acts = MaxReviewActs
  /\ cleared = FALSE

EverythingRecorded ==
  /\ now = LastMoment
  /\ report = [r \in Reports |-> [state |-> "recorded", at |-> 0, fails |-> FALSE]]
  /\ issue = NoIssue /\ read = [x \in Reports \cup People |-> Unread]
  /\ fixed = Unresolved

OneInit ==
  \/ ControlInit /\ NothingToMaintain /\ NothingToReview /\ EverythingRecorded
  \/ RunIsOver /\ MaintInit /\ NothingToReview /\ EverythingRecorded
  \/ RunIsOver /\ NothingToMaintain /\ LabelsInit /\ EverythingRecorded
  \/ RunIsOver /\ NothingToMaintain /\ NothingToReview /\ IssuesInit

OneNext ==
  \/ ControlNext /\ UNCHANGED <<maintVars, labelVars, issueVars>>
  \/ MaintNext /\ UNCHANGED <<vars, labelVars, issueVars>>
  \/ LabelsNext /\ UNCHANGED <<vars, maintVars, issueVars>>
  \/ IssuesNext /\ UNCHANGED <<vars, maintVars, labelVars>>

OneSpec == OneInit /\ [][OneNext]_<<vars, maintVars, labelVars, issueVars>>
=============================================================================
