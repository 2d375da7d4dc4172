---------------------------- MODULE QualityIssues ----------------------------
(***************************************************************************)
(* The ledger of quality issues (agent/rag/evaluation/gate_service.py):    *)
(* one candidate that fails or passes in the reports of one gate and one   *)
(* cohort, and the issue about it.  A report is made by a script and       *)
(* recorded later, possibly after a newer one; people move the issue       *)
(* meanwhile; a failure opens it again and a later pass verifies it.       *)
(***************************************************************************)
EXTENDS Naturals

CONSTANTS
  Reports,      \* gate runs
  NoReport,     \* no run
  People,       \* tabs in which the issue is edited
  Unresolved,   \* the issue is not resolved by anybody
  LastMoment,   \* bound: the clock
  MaxVersion    \* bound: versions of the issue

ASSUME IssuesAssumption ==
  /\ NoReport \notin Reports /\ Unresolved \notin Nat /\ People \cap Reports = {}
  /\ LastMoment \in Nat /\ MaxVersion \in Nat

VARIABLES
  now,      \* the clock
  report,   \* generated_at and failure of each report; is it recorded
  issue,    \* the row of rag_quality_issues
  read,     \* the issue as a recording transaction or a tab has read it
  fixed     \* history: when a person resolved the issue as it stands

issueVars == <<now, report, issue, read, fixed>>

Transitions ==
  [open        |-> {"open", "in_progress", "dismissed"},
   in_progress |-> {"in_progress", "open", "resolved", "dismissed"},
   resolved    |-> {"resolved", "in_progress"},
   verified    |-> {"verified", "in_progress"},
   dismissed   |-> {"dismissed", "open"},
   none        |-> {}]

Issue == [status : DOMAIN Transitions, version : 0 .. MaxVersion, updated : 0 .. LastMoment,
          last : Reports \cup {NoReport}, by : Reports \cup {NoReport}]
NoIssue == [status |-> "none", version |-> 0, updated |-> 0,
            last |-> NoReport, by |-> NoReport]
Unread == [NoIssue EXCEPT !.status = "unread"]

IssuesInit ==
  /\ now = 0
  /\ report = [r \in Reports |-> [state |-> "none", at |-> 0, fails |-> FALSE]]
  /\ issue = NoIssue
  /\ read = [x \in Reports \cup People |-> Unread]
  /\ fixed = Unresolved

Generate(r, fails) ==
  /\ report[r].state = "none"
  /\ report' = [report EXCEPT ![r] = [state |-> "generated", at |-> now, fails |-> fails]]
  /\ UNCHANGED <<now, issue, read, fixed>>

Look(x) == read' = [read EXCEPT ![x] = issue]
Leave(x) == read' = [read EXCEPT ![x] = Unread]

\* Faulty variant: the update is not conditional on the version that was read.
SavesBlindly(x, new) == issue' = [new EXCEPT !.version = read[x].version + 1]

\* save: the version that was read is still there, or nothing is updated.
Saves(x, new) ==
  IF issue.version = read[x].version
  THEN issue' = [new EXCEPT !.version = @ + 1]
  ELSE UNCHANGED issue

\* _sync_quality_issues reads the issue ...
BeginRecording(r) ==
  /\ report[r].state = "generated" /\ read[r] = Unread /\ issue.version < MaxVersion
  /\ Look(r)
  /\ UNCHANGED <<now, report, issue, fixed>>

Recorded(r) == report' = [report EXCEPT ![r].state = "recorded"]

\* ... and opens one, unless another report has done so: candidate_id is unique.
RecordFirstFailure(r) ==
  /\ report[r].fails /\ read[r].status = "none" /\ issue = NoIssue
  /\ issue' = [status |-> "open", version |-> 1, updated |-> report[r].at,
               last |-> r, by |-> NoReport]
  /\ Recorded(r) /\ Leave(r)
  /\ UNCHANGED <<now, fixed>>

\* A failure opens what was thought to be repaired.
RecordFailure(r) ==
  /\ report[r].fails /\ read[r].status \notin {"none", "unread"}
  /\ Saves(r, [read[r] EXCEPT !.status = IF @ \in {"resolved", "verified"} THEN "open" ELSE @,
                              !.updated = report[r].at, !.last = r, !.by = NoReport])
  /\ fixed' = IF issue' = issue THEN fixed ELSE Unresolved
  /\ Recorded(r) /\ Leave(r)
  /\ UNCHANGED now

\* A pass verifies what was resolved before the report was generated.
RecordPass(r) ==
  /\ ~ report[r].fails /\ read[r].status # "unread"
  /\ IF read[r].status = "resolved" /\ read[r].updated < report[r].at
     THEN Saves(r, [read[r] EXCEPT !.status = "verified", !.by = r, !.updated = report[r].at])
     ELSE UNCHANGED issue
  /\ Recorded(r) /\ Leave(r)
  /\ UNCHANGED <<now, fixed>>

\* A collision, an error or a crash; the script may be run again.
StopRecording(r) ==
  /\ read[r] # Unread
  /\ Leave(r)
  /\ UNCHANGED <<now, report, issue, fixed>>

OpenTab(p) ==
  /\ issue # NoIssue /\ read[p] # issue /\ issue.version < MaxVersion
  /\ Look(p)
  /\ UNCHANGED <<now, report, issue, fixed>>

\* update_issue, with the version the tab has shown as expected_version.
UpdateIssue(p, status) ==
  /\ read[p] # Unread /\ read[p].version = issue.version
  /\ issue.version < MaxVersion
  /\ status \in Transitions[issue.status]
  /\ Saves(p, [issue EXCEPT !.status = status, !.updated = now, !.by = NoReport])
  /\ fixed' = IF status = "resolved" THEN now ELSE Unresolved
  /\ Leave(p)
  /\ UNCHANGED <<now, report>>

TimePasses ==
  /\ now < LastMoment /\ now' = now + 1
  /\ UNCHANGED <<report, issue, read, fixed>>

IssuesNext ==
  \/ TimePasses
  \/ \E r \in Reports :
       \/ \E fails \in BOOLEAN : Generate(r, fails)
       \/ BeginRecording(r) \/ StopRecording(r)
       \/ RecordFirstFailure(r) \/ RecordFailure(r) \/ RecordPass(r)
  \/ \E p \in People :
       \/ OpenTab(p)
       \/ \E status \in {"open", "in_progress", "resolved", "dismissed"} : UpdateIssue(p, status)

IssuesSpec == IssuesInit /\ [][IssuesNext]_issueVars

-----------------------------------------------------------------------------
(* Properties.                                                              *)

IssuesTypeOK ==
  /\ now \in 0 .. LastMoment
  /\ report \in [Reports -> [state : {"none", "generated", "recorded"},
                             at : 0 .. LastMoment, fails : BOOLEAN]]
  /\ issue \in Issue
  /\ read \in [Reports \cup People -> Issue \cup {Unread}]
  /\ fixed \in 0 .. LastMoment \cup {Unresolved}

\* An issue counts as verified only while a person's resolution of it stands,
\* untouched by any failure that was recorded since, and by a report without the
\* failure that was generated after the resolution - in whatever order reports
\* are recorded and people edit (gate_service.py:307; docs/10-roadmap.md:95).
VerifiedByLaterRun ==
  issue.status = "verified" =>
    /\ fixed # Unresolved
    /\ report[issue.by].at > fixed /\ ~ report[issue.by].fails
=============================================================================
