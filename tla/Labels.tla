------------------------------- MODULE Labels -------------------------------
(***************************************************************************)
(* Review of what retrieval found (agent/rag/evaluation): one trace, its   *)
(* privacy review, its label with the evidence that was chosen, and the    *)
(* feedback of the user about the answer.  Reviewers and operators use it  *)
(* from several tabs.  Every request is one transaction at READ COMMITTED  *)
(* that locks nothing when it reads, so it is a step that reads and checks *)
(* and a step that writes and commits.  A label that exists is loaded once *)
(* more in between: the session has dropped the row it was checked with.   *)
(***************************************************************************)
EXTENDS Naturals

CONSTANTS
  Desks,           \* requests that may be in progress at a time
  Evidence,        \* choices of positive and hard-negative chunks
  NoEvidence,      \* what a label has that does not exist
  MaxReviewActs    \* bound: requests

ASSUME LabelsAssumption == NoEvidence \notin Evidence /\ MaxReviewActs \in Nat

VARIABLES
  privacy,    \* rag_evaluation_traces.privacy_status
  label,      \* the row of rag_evaluation_labels
  feedback,   \* rag_evaluation_feedback.status
  desk,       \* what each request has loaded, and what it is about to write
  acts,       \* requests so far
  cleared     \* history: the trace has once passed its privacy review

labelVars == <<privacy, label, feedback, desk, acts, cleared>>

LabelStatus == {"draft", "confirmed", "rejected", "promoted"}
Label == [status : LabelStatus \cup {"none"},
          source : {"human_review", "user_feedback", "none"},
          evidence : Evidence \cup {NoEvidence}]
NoLabel == [status |-> "none", source |-> "none", evidence |-> NoEvidence]
NotLoaded == [NoLabel EXCEPT !.status = "not loaded"]

Vacant == [op |-> "none", loaded |-> NoLabel, write |-> NoLabel, verdict |-> "none"]

LabelsInit ==
  /\ privacy = "pending" /\ label = NoLabel /\ feedback = "none"
  /\ desk = [d \in Desks |-> Vacant]
  /\ acts = 0 /\ cleared = FALSE

-----------------------------------------------------------------------------
(* A request reads and checks.                                              *)

WritesLabel(op) == op \in {"label", "triage"}

Reads(d, op, write, verdict) ==
  /\ desk[d] = Vacant /\ acts < MaxReviewActs
  /\ acts' = acts + 1
  /\ desk' = [desk EXCEPT ![d] =
       [op |-> op, write |-> write, verdict |-> verdict,
        loaded |-> IF WritesLabel(op) /\ label # NoLabel THEN NotLoaded ELSE NoLabel]]
  /\ UNCHANGED <<privacy, label, feedback, cleared>>

\* review_privacy: what is confirmed cannot be refused any more.
ReviewPrivacy(d, verdict) ==
  /\ verdict = "rejected" => label.status \notin {"confirmed", "promoted"}
  /\ Reads(d, "privacy", NoLabel, verdict)

\* set_label: by a reviewer, who may confirm what may be seen.
SetLabel(d, status, chosen) ==
  /\ status = "confirmed" => privacy = "approved"
  /\ label.status # "promoted"
  /\ Reads(d, "label",
           [status |-> status, source |-> "human_review", evidence |-> chosen], "none")

Promote(d) ==
  /\ privacy = "approved" /\ label.status \in {"confirmed", "promoted"}
  /\ Reads(d, "label", [label EXCEPT !.status = "promoted"], "none")

\* Faulty variant: evidence is taken from a trace that nobody has reviewed.
TriageUnreviewed(d, chosen) ==
  /\ feedback = "pending"
  /\ label = NoLabel \/ (label.status = "draft" /\ label.source = "user_feedback")
  /\ Reads(d, "triage",
           [status |-> "draft", source |-> "user_feedback", evidence |-> chosen],
           "reviewed")

\* triage with evidence: a draft, or other evidence in such a draft.
Triage(d, chosen) ==
  /\ feedback = "pending" /\ privacy = "approved"
  /\ label = NoLabel \/ (label.status = "draft" /\ label.source = "user_feedback")
  /\ Reads(d, "triage",
           [status |-> "draft", source |-> "user_feedback", evidence |-> chosen],
           "reviewed")

\* triage with a category only, and resolve.
ResolveFeedback(d, verdict) ==
  /\ feedback = "pending"
  /\ Reads(d, "resolve", NoLabel, verdict)

-----------------------------------------------------------------------------
(* A request writes and commits.                                            *)

\* save: loads the row there is now ...
Load(d) ==
  /\ desk[d].loaded = NotLoaded
  /\ desk' = [desk EXCEPT ![d].loaded = label]
  /\ UNCHANGED <<privacy, label, feedback, acts, cleared>>

\* ... and writes the columns that differ from it.
Saved(row, loaded, write) ==
  [column \in DOMAIN row |->
     IF write[column] # loaded[column] THEN write[column] ELSE row[column]]

\* A label that was made meanwhile is there already: trace_id is unique.
Collides(d) ==
  WritesLabel(desk[d].op) /\ desk[d].loaded = NoLabel /\ label # NoLabel

\* set_review does not ask again whether the feedback is still pending.
Commit(d) ==
  /\ desk[d].op # "none" /\ desk[d].loaded # NotLoaded /\ ~ Collides(d)
  /\ privacy' = IF desk[d].op = "privacy" THEN desk[d].verdict ELSE privacy
  /\ label' = IF WritesLabel(desk[d].op)
              THEN Saved(label, desk[d].loaded, desk[d].write)
              ELSE label
  /\ feedback' = IF desk[d].op \in {"triage", "resolve"}
                 THEN desk[d].verdict ELSE feedback
  /\ desk' = [desk EXCEPT ![d] = Vacant]
  /\ cleared' = (cleared \/ privacy' = "approved")
  /\ UNCHANGED acts

\* A collision, an error or a crash: nothing is written.
Abandon(d) ==
  /\ desk[d].op # "none"
  /\ desk' = [desk EXCEPT ![d] = Vacant]
  /\ UNCHANGED <<privacy, label, feedback, acts, cleared>>

\* submit: an upsert, which asks for a review again.
Submit ==
  /\ acts < MaxReviewActs /\ acts' = acts + 1
  /\ feedback' = "pending"
  /\ UNCHANGED <<privacy, label, desk, cleared>>

LabelsNext ==
  \/ Submit
  \/ \E d \in Desks :
       \/ \E verdict \in {"approved", "rejected"} : ReviewPrivacy(d, verdict)
       \/ \E chosen \in Evidence :
            \/ \E status \in LabelStatus \ {"promoted"} : SetLabel(d, status, chosen)
            \/ Triage(d, chosen)
       \/ Promote(d)
       \/ \E verdict \in {"reviewed", "dismissed"} : ResolveFeedback(d, verdict)
       \/ Load(d) \/ Commit(d) \/ Abandon(d)

LabelsSpec == LabelsInit /\ [][LabelsNext]_labelVars

-----------------------------------------------------------------------------
(* Properties.                                                              *)

LabelsTypeOK ==
  /\ privacy \in {"pending", "approved", "rejected"}
  /\ label \in Label
  /\ feedback \in {"none", "pending", "reviewed", "dismissed"}
  /\ desk \in [Desks -> [op : {"none", "privacy", "label", "triage", "resolve"},
                         loaded : Label \cup {NotLoaded}, write : Label,
                         verdict : {"none", "approved", "rejected", "reviewed", "dismissed"}]]
  /\ acts \in 0 .. MaxReviewActs /\ cleared \in BOOLEAN

\* Whatever overlaps: what a trace has found is chosen from by feedback, or
\* confirmed or promoted, only after the trace has passed its privacy review
\* (feedback_service.py:242, review_service.py:145;
\* docs/13-interface-contract.md:761, :774).
ReviewComesFirst ==
  (label.source = "user_feedback" \/ label.status \in {"confirmed", "promoted"})
    => cleared
=============================================================================
