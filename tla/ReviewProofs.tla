----------------------------- MODULE ReviewProofs -----------------------------
(***************************************************************************)
(* Theorems about what people review and confirm: Labels, for any number   *)
(* of tabs and requests; QualityIssues, for any number of reports, tabs    *)
(* and versions; Maintenance, for a log, a history of requests and a       *)
(* dead-letter stream of any length.                                       *)
(***************************************************************************)
EXTENDS Labels, QualityIssues, Maintenance, TLAPS

-----------------------------------------------------------------------------
(* Labels.  A request checks the privacy review when it reads and writes    *)
(* later, so what it is about to write has to be accounted for as well.     *)

\* Only after the privacy review may a label have such a source or status.
NeedsReview(row) ==
  row.source = "user_feedback" \/ row.status \in {"confirmed", "promoted"}

\* A request has the verdict its kind allows.
Fitting(q) ==
  /\ q.op = "privacy" => q.verdict \in {"approved", "rejected"}
  /\ q.op \in {"triage", "resolve"} => q.verdict \in {"reviewed", "dismissed"}

\* What has passed its review, what is stored and what is about to be stored.
LabelsInv ==
  /\ LabelsTypeOK
  /\ privacy = "approved" => cleared
  /\ ReviewComesFirst
  /\ \A d \in Desks : Fitting(desk[d])
  /\ \A d \in Desks :
       WritesLabel(desk[d].op) /\ NeedsReview(desk[d].write) => cleared

\* Before anything is reviewed, nothing is labelled.
LEMMA LabelsInitInv == LabelsInit => LabelsInv
<1> SUFFICES ASSUME LabelsInit PROVE LabelsInv
  OBVIOUS
<1>1. NoLabel \in Label
  BY DEF NoLabel, Label, LabelStatus
<1>2. Vacant \in [op : {"none", "privacy", "label", "triage", "resolve"},
                  loaded : Label \cup {NotLoaded}, write : Label,
                  verdict : {"none", "approved", "rejected", "reviewed", "dismissed"}]
  BY <1>1 DEF Vacant
<1> DEFINE rows == [op : {"none", "privacy", "label", "triage", "resolve"},
                    loaded : Label \cup {NotLoaded}, write : Label,
                    verdict : {"none", "approved", "rejected", "reviewed", "dismissed"}]
<1>3. desk \in [Desks -> rows]
  <2> HIDE DEF rows
  <2>1. desk = [d \in Desks |-> Vacant] /\ Vacant \in rows
    BY <1>2 DEF LabelsInit, rows
  <2>2. QED
    BY <2>1
<1>t. LabelsTypeOK
  <2> HIDE DEF rows
  <2>1. acts \in 0 .. MaxReviewActs
    BY LabelsAssumption DEF LabelsInit
  <2>2. cleared \in BOOLEAN
    BY DEF LabelsInit
  <2>3. privacy \in {"pending", "approved", "rejected"} /\ label \in Label
    BY <1>1 DEF LabelsInit
  <2>4. feedback \in {"none", "pending", "reviewed", "dismissed"}
    BY DEF LabelsInit
  <2>5. QED
    BY <1>3, <2>1, <2>2, <2>3, <2>4 DEF LabelsTypeOK, rows
<1>4. QED
  BY <1>t DEF LabelsInit, LabelsInv, ReviewComesFirst, NeedsReview, Fitting, Vacant, NoLabel,
     WritesLabel

\* A request may begin when it will write what the review allows.
LEMMA ReadsReviewed ==
  ASSUME LabelsInv, NEW d \in Desks, NEW op \in {"privacy", "label", "triage", "resolve"},
         NEW write \in Label,
         NEW verdict \in {"none", "approved", "rejected", "reviewed", "dismissed"},
         op = "privacy" => verdict \in {"approved", "rejected"},
         op \in {"triage", "resolve"} => verdict \in {"reviewed", "dismissed"},
         WritesLabel(op) /\ NeedsReview(write) => cleared,
         Reads(d, op, write, verdict)
  PROVE  LabelsInv'
<1> DEFINE new == [op |-> op, write |-> write, verdict |-> verdict,
                   loaded |-> IF WritesLabel(op) /\ label # NoLabel THEN NotLoaded ELSE NoLabel]
<1>1. /\ desk' = [desk EXCEPT ![d] = new] /\ UNCHANGED <<privacy, label, feedback, cleared>>
      /\ acts' = acts + 1 /\ acts < MaxReviewActs
  BY DEF Reads
<1>2. NoLabel \in Label
  BY DEF NoLabel, Label, LabelStatus
<1>3. /\ new \in [op : {"none", "privacy", "label", "triage", "resolve"},
                  loaded : Label \cup {NotLoaded}, write : Label,
                  verdict : {"none", "approved", "rejected", "reviewed", "dismissed"}]
      /\ Fitting(new)
      /\ WritesLabel(new.op) /\ NeedsReview(new.write) => cleared
  BY <1>2 DEF Fitting
<1> HIDE DEF new
<1>4. LabelsTypeOK'
  BY <1>1, <1>3, LabelsAssumption DEF LabelsInv, LabelsTypeOK
<1>5. \A x \in Desks : desk'[x] = IF x = d THEN new ELSE desk[x]
  BY <1>1 DEF LabelsInv, LabelsTypeOK
<1>6. (\A x \in Desks : Fitting(desk[x]))'
  BY <1>3, <1>5 DEF LabelsInv
<1>7. (\A x \in Desks : WritesLabel(desk[x].op) /\ NeedsReview(desk[x].write) => cleared)'
  BY <1>1, <1>3, <1>5 DEF LabelsInv
<1>8. QED
  BY <1>1, <1>4, <1>6, <1>7 DEF LabelsInv, ReviewComesFirst

\* What is written column by column comes from the request or from the row, and both
\* are in order.
LEMMA SavedReviewed ==
  ASSUME NEW row \in Label, NEW loaded, NEW write \in Label,
         NeedsReview(Saved(row, loaded, write))
  PROVE  NeedsReview(row) \/ NeedsReview(write)
BY DEF Saved, NeedsReview, Label

\* A label that was written is a label.
LEMMA SavedTyped ==
  ASSUME NEW row \in Label, NEW loaded, NEW write \in Label
  PROVE  Saved(row, loaded, write) \in Label
<1> DEFINE new == Saved(row, loaded, write)
<1>1. new = [status |-> new.status, source |-> new.source, evidence |-> new.evidence]
  BY DEF Saved, Label
<1>2. /\ new.status \in {row.status, write.status}
      /\ new.source \in {row.source, write.source}
      /\ new.evidence \in {row.evidence, write.evidence}
  BY DEF Saved, Label
<1> HIDE DEF new
<1>3. QED
  BY <1>1, <1>2 DEF new, Label

\* Every step keeps the review first.
LEMMA LabelsStep == LabelsInv /\ [LabelsNext]_labelVars => LabelsInv'
<1> SUFFICES ASSUME LabelsInv, [LabelsNext]_labelVars PROVE LabelsInv'
  OBVIOUS
<1>n. NoLabel \in Label /\ Fitting(Vacant) /\ ~ WritesLabel(Vacant.op)
      /\ Vacant \in [op : {"none", "privacy", "label", "triage", "resolve"},
                     loaded : Label \cup {NotLoaded}, write : Label,
                     verdict : {"none", "approved", "rejected", "reviewed", "dismissed"}]
  BY DEF NoLabel, Label, LabelStatus, Fitting, Vacant, WritesLabel
<1>1. CASE UNCHANGED labelVars
  BY <1>1 DEF labelVars, LabelsInv, LabelsTypeOK, ReviewComesFirst
<1>2. CASE Submit
  BY <1>2, LabelsAssumption DEF Submit, LabelsInv, LabelsTypeOK, ReviewComesFirst
<1>3. ASSUME NEW d \in Desks, NEW verdict \in {"approved", "rejected"}, ReviewPrivacy(d, verdict)
      PROVE  LabelsInv'
  <2>1. Reads(d, "privacy", NoLabel, verdict)
    BY <1>3 DEF ReviewPrivacy
  <2>2. QED
    BY <1>n, <2>1, ReadsReviewed DEF WritesLabel
<1>4. ASSUME NEW d \in Desks, NEW chosen \in Evidence,
             NEW s \in LabelStatus \ {"promoted"}, SetLabel(d, s, chosen)
      PROVE  LabelsInv'
  <2> DEFINE write == [status |-> s, source |-> "human_review", evidence |-> chosen]
  <2>1. write \in Label
    BY DEF Label
  <2>2. NeedsReview(write) => cleared
    BY <1>4 DEF SetLabel, NeedsReview, LabelsInv
  <2>3. Reads(d, "label", write, "none")
    BY <1>4 DEF SetLabel
  <2> HIDE DEF write
  <2>4. QED
    BY <2>1, <2>2, <2>3, ReadsReviewed
<1>5. ASSUME NEW d \in Desks, NEW chosen \in Evidence, Triage(d, chosen) PROVE LabelsInv'
  <2> DEFINE write == [status |-> "draft", source |-> "user_feedback", evidence |-> chosen]
  <2>1. write \in Label
    BY DEF Label, LabelStatus
  <2>2. cleared /\ Reads(d, "triage", write, "reviewed")
    BY <1>5 DEF Triage, LabelsInv
  <2> HIDE DEF write
  <2>3. QED
    BY <2>1, <2>2, ReadsReviewed
<1>6. ASSUME NEW d \in Desks, Promote(d) PROVE LabelsInv'
  <2> DEFINE write == [label EXCEPT !.status = "promoted"]
  <2>1. write \in Label
    BY DEF LabelsInv, LabelsTypeOK, Label, LabelStatus
  <2>2. cleared /\ Reads(d, "label", write, "none")
    BY <1>6 DEF Promote, LabelsInv
  <2> HIDE DEF write
  <2>3. QED
    BY <2>1, <2>2, ReadsReviewed
<1>7. ASSUME NEW d \in Desks, NEW verdict \in {"reviewed", "dismissed"},
             ResolveFeedback(d, verdict)
      PROVE  LabelsInv'
  <2>1. Reads(d, "resolve", NoLabel, verdict)
    BY <1>7 DEF ResolveFeedback
  <2>2. QED
    BY <1>n, <2>1, ReadsReviewed DEF WritesLabel
<1>8. ASSUME NEW d \in Desks, Load(d) PROVE LabelsInv'
  <2> DEFINE new == [desk[d] EXCEPT !.loaded = label]
  <2>1. /\ desk' = [desk EXCEPT ![d] = new]
        /\ UNCHANGED <<privacy, label, feedback, acts, cleared>>
    BY <1>8 DEF Load
  <2>2. /\ new \in [op : {"none", "privacy", "label", "triage", "resolve"},
                    loaded : Label \cup {NotLoaded}, write : Label,
                    verdict : {"none", "approved", "rejected", "reviewed", "dismissed"}]
        /\ new.op = desk[d].op /\ new.write = desk[d].write /\ new.verdict = desk[d].verdict
    BY DEF LabelsInv, LabelsTypeOK
  <2> HIDE DEF new
  <2>3. \A x \in Desks : desk'[x] = IF x = d THEN new ELSE desk[x]
    BY <2>1 DEF LabelsInv, LabelsTypeOK
  <2>4. LabelsTypeOK'
    BY <2>1, <2>2 DEF LabelsInv, LabelsTypeOK
  <2>5. QED
    BY <2>1, <2>2, <2>3, <2>4 DEF LabelsInv, ReviewComesFirst, Fitting
<1>9. ASSUME NEW d \in Desks, Commit(d) PROVE LabelsInv'
  <2>1. /\ desk[d].write \in Label /\ label \in Label
        /\ \A x \in Desks : desk'[x] = IF x = d THEN Vacant ELSE desk[x]
    BY <1>9 DEF Commit, LabelsInv, LabelsTypeOK
  <2>2. label' \in Label /\ (NeedsReview(label') => cleared)
    <3>1. CASE WritesLabel(desk[d].op)
      <4>1. label' = Saved(label, desk[d].loaded, desk[d].write)
        BY <1>9, <3>1 DEF Commit
      <4>2. QED
        BY <2>1, <3>1, <4>1, SavedTyped, SavedReviewed
           DEF LabelsInv, ReviewComesFirst, NeedsReview
    <3>2. CASE ~ WritesLabel(desk[d].op)
      BY <1>9, <2>1, <3>2 DEF Commit, LabelsInv, ReviewComesFirst, NeedsReview
    <3>3. QED
      BY <3>1, <3>2
  <2>3. /\ privacy' \in {"pending", "approved", "rejected"}
        /\ feedback' \in {"none", "pending", "reviewed", "dismissed"}
    BY <1>9 DEF Commit, LabelsInv, LabelsTypeOK, Fitting
  <2>4. /\ cleared' \in BOOLEAN /\ (cleared => cleared')
        /\ privacy' = "approved" => cleared'
    BY <1>9 DEF Commit, LabelsInv, LabelsTypeOK
  <2>5. LabelsTypeOK'
    BY <1>9, <1>n, <2>2, <2>3, <2>4 DEF Commit, LabelsInv, LabelsTypeOK
  <2>6. QED
    BY <1>n, <2>1, <2>2, <2>4, <2>5 DEF LabelsInv, ReviewComesFirst, NeedsReview
<1>10. ASSUME NEW d \in Desks, Abandon(d) PROVE LabelsInv'
  <2>1. /\ \A x \in Desks : desk'[x] = IF x = d THEN Vacant ELSE desk[x]
        /\ UNCHANGED <<privacy, label, feedback, acts, cleared>>
    BY <1>10 DEF Abandon, LabelsInv, LabelsTypeOK
  <2>2. LabelsTypeOK'
    BY <1>10, <1>n DEF Abandon, LabelsInv, LabelsTypeOK
  <2>3. QED
    BY <1>n, <2>1, <2>2 DEF LabelsInv, ReviewComesFirst
<1>11. QED
  BY <1>1, <1>2, <1>3, <1>4, <1>5, <1>6, <1>7, <1>8, <1>9, <1>10 DEF LabelsNext

\* The review comes first, for whatever is stored or about to be stored.
THEOREM LabelsInvariant == LabelsSpec => []LabelsInv
BY LabelsInitInv, LabelsStep, PTL DEF LabelsSpec

\* Whatever overlaps: feedback chooses from a trace, and a label is confirmed or
\* promoted, only after the trace has passed its privacy review
\* (feedback_service.py:242, review_service.py:145).
THEOREM ReviewFirst == LabelsSpec => []ReviewComesFirst
<1>1. LabelsInv => ReviewComesFirst
  BY DEF LabelsInv
<1>2. QED
  BY <1>1, LabelsInvariant, PTL
-----------------------------------------------------------------------------
(* QualityIssues.  Reports and tabs write an issue they have read before;   *)
(* the version tells whether it is still the one they have read.            *)

\* What has been read was the issue once, and is the issue if the version says so.
ReadIsReal(x) ==
  read[x] # Unread =>
    /\ read[x].version <= issue.version /\ read[x].version < MaxVersion
    /\ read[x].version = issue.version => read[x] = issue

\* An issue that exists has a version, and a resolution that stands has its time.
IssuesInv ==
  /\ IssuesTypeOK
  /\ issue.version = 0 <=> issue = NoIssue
  /\ issue.status = "none" => issue = NoIssue
  /\ \A x \in Reports \cup People : ReadIsReal(x)
  /\ \A x \in Reports \cup People :
       read[x] \in Issue => (read[x].status = "none" <=> read[x].version = 0)
  /\ \A r \in Reports : read[r] # Unread => report[r].state = "generated"
  /\ issue.status = "resolved" => fixed = issue.updated
  /\ issue.status = "verified" => issue.by \in Reports /\ report[issue.by].state # "none"
  /\ VerifiedByLaterRun

\* There is no issue to begin with.
LEMMA IssuesInitInv == IssuesInit => IssuesInv
BY IssuesAssumption
   DEF IssuesInit, IssuesInv, IssuesTypeOK, ReadIsReal, VerifiedByLaterRun, NoIssue, Unread,
       Issue, Transitions

\* Nobody is on the issue twice: who writes leaves, and whoever else has read the issue
\* sees that its version has passed.
LEMMA NewVersion ==
  ASSUME IssuesInv, NEW x \in Reports \cup People,
         issue' \in Issue, issue'.version = issue.version + 1, Leave(x)
  PROVE  /\ issue'.version # 0 /\ issue' # NoIssue
         /\ \A y \in Reports \cup People : ReadIsReal(y)'
<1>1. issue.version \in Nat /\ NoIssue.version = 0
  BY IssuesAssumption DEF IssuesInv, IssuesTypeOK, Issue, NoIssue
<1>2. \A y \in Reports \cup People : read'[y] = IF y = x THEN Unread ELSE read[y]
  BY DEF Leave, IssuesInv, IssuesTypeOK
<1>3. ASSUME NEW y \in Reports \cup People, read'[y] # Unread PROVE ReadIsReal(y)'
  <2>1. read'[y] = read[y] /\ read[y].version \in Nat /\ read[y].version <= issue.version
        /\ read[y].version < MaxVersion
    BY <1>2, <1>3, IssuesAssumption DEF IssuesInv, IssuesTypeOK, ReadIsReal, Issue
  <2>2. QED
    BY <1>1, <2>1 DEF ReadIsReal
<1>4. QED
  BY <1>1, <1>3 DEF ReadIsReal

\* Whoever leaves has read nothing any more.
LEMMA LeavesUnread ==
  ASSUME IssuesInv, NEW x \in Reports \cup People, Leave(x)
  PROVE  /\ read' \in [Reports \cup People -> Issue \cup {Unread}]
         /\ \A y \in Reports \cup People : read'[y] = IF y = x THEN Unread ELSE read[y]
         /\ \A y \in Reports \cup People :
              read'[y] \in Issue => (read'[y].status = "none" <=> read'[y].version = 0)
<1>1. Unread \notin Issue
  BY DEF Unread, NoIssue, Issue, Transitions
<1>2. /\ read' \in [Reports \cup People -> Issue \cup {Unread}]
      /\ \A y \in Reports \cup People : read'[y] = IF y = x THEN Unread ELSE read[y]
  BY DEF Leave, IssuesInv, IssuesTypeOK
<1>3. QED
  BY <1>1, <1>2 DEF IssuesInv

\* What a recording transaction or a tab has read and writes back is the issue.
LEMMA ReadIsIssue ==
  ASSUME IssuesInv, NEW x \in Reports \cup People, read[x].status # "unread"
  PROVE  /\ read[x] \in Issue /\ read[x].version < MaxVersion
         /\ read[x].version \in Nat /\ issue.version \in 0 .. MaxVersion
         /\ read[x].version <= issue.version
         /\ read[x].version = issue.version => read[x] = issue
         /\ read[x].status = "none" <=> read[x].version = 0
<1>1. read[x] # Unread /\ read[x] \in Issue
  BY DEF IssuesInv, IssuesTypeOK, Unread, NoIssue
<1>2. QED
  BY <1>1, IssuesAssumption DEF IssuesInv, IssuesTypeOK, ReadIsReal, Issue

\* A report that is recorded has been generated, and keeps its time and its verdict.
LEMMA RecordedReport ==
  ASSUME IssuesInv, NEW r \in Reports, read[r] # Unread, Recorded(r), Leave(r)
  PROVE  /\ report' \in [Reports -> [state : {"none", "generated", "recorded"},
                                     at : 0 .. LastMoment, fails : BOOLEAN]]
         /\ report[r].state = "generated"
         /\ \A s \in Reports : /\ report'[s].at = report[s].at
                               /\ report'[s].fails = report[s].fails
                               /\ report[s].state # "none" => report'[s].state # "none"
                               /\ s # r => report'[s] = report[s]
         /\ \A s \in Reports : read'[s] # Unread => report'[s].state = "generated"
<1>1. report[r].state = "generated"
  BY DEF IssuesInv
<1>2. /\ report' \in [Reports -> [state : {"none", "generated", "recorded"},
                                  at : 0 .. LastMoment, fails : BOOLEAN]]
      /\ \A s \in Reports :
           report'[s] = IF s = r THEN [report[s] EXCEPT !.state = "recorded"] ELSE report[s]
  BY DEF Recorded, IssuesInv, IssuesTypeOK
<1>3. \A s \in Reports : /\ report'[s].at = report[s].at
                         /\ report'[s].fails = report[s].fails
                         /\ report[s].state # "none" => report'[s].state # "none"
                         /\ s # r => report'[s] = report[s]
  BY <1>1, <1>2 DEF IssuesInv, IssuesTypeOK
<1>4. \A s \in Reports : read'[s] # Unread => s # r /\ read[s] # Unread
  BY LeavesUnread
<1>5. QED
  BY <1>1, <1>2, <1>3, <1>4 DEF IssuesInv

\* A saved issue is the one that was handed to save, in the next version.
LEMMA Bumped ==
  ASSUME NEW i \in Issue, i.version < MaxVersion
  PROVE  LET next == [i EXCEPT !.version = @ + 1]
         IN /\ next \in Issue /\ next.version = i.version + 1
            /\ next.status = i.status /\ next.updated = i.updated /\ next.by = i.by
<1>1. i.version + 1 \in 0 .. MaxVersion
  BY IssuesAssumption DEF Issue
<1>2. QED
  BY <1>1 DEF Issue

\* A recorded report keeps what is known of a verified issue if the issue
\* it leaves is in order.
LEMMA RecordingStep ==
  ASSUME IssuesInv, NEW r \in Reports, read[r] # Unread, Recorded(r), Leave(r), now' = now,
         \/ UNCHANGED <<issue, fixed>>
         \/ /\ issue' \in Issue /\ issue'.version = issue.version + 1
            /\ issue'.status # "none" /\ fixed' \in 0 .. LastMoment \cup {Unresolved}
            /\ issue'.status = "resolved" => fixed' = issue'.updated
            /\ issue'.status = "verified" =>
                 /\ issue'.by = r /\ fixed' # Unresolved
                 /\ report[r].at > fixed' /\ ~ report[r].fails
  PROVE  IssuesInv'
<1>1. /\ read' \in [Reports \cup People -> Issue \cup {Unread}]
      /\ \A y \in Reports \cup People : read'[y] = IF y = r THEN Unread ELSE read[y]
      /\ \A y \in Reports \cup People :
           read'[y] \in Issue => (read'[y].status = "none" <=> read'[y].version = 0)
  BY LeavesUnread
<1>2. /\ report' \in [Reports -> [state : {"none", "generated", "recorded"},
                                  at : 0 .. LastMoment, fails : BOOLEAN]]
      /\ report[r].state = "generated"
      /\ \A s \in Reports : /\ report'[s].at = report[s].at
                            /\ report'[s].fails = report[s].fails
                            /\ report[s].state # "none" => report'[s].state # "none"
      /\ \A s \in Reports : read'[s] # Unread => report'[s].state = "generated"
  BY RecordedReport
<1>3. CASE UNCHANGED <<issue, fixed>>
  <2>1. IssuesTypeOK'
    BY <1>1, <1>2, <1>3 DEF IssuesInv, IssuesTypeOK
  <2>2. \A y \in Reports \cup People : ReadIsReal(y)'
    BY <1>1, <1>3 DEF IssuesInv, ReadIsReal
  <2>3. VerifiedByLaterRun'
    BY <1>2, <1>3 DEF IssuesInv, VerifiedByLaterRun
  <2>4. QED
    BY <1>1, <1>2, <1>3, <2>1, <2>2, <2>3 DEF IssuesInv
<1>4. ASSUME /\ issue' \in Issue /\ issue'.version = issue.version + 1
             /\ issue'.status # "none" /\ fixed' \in 0 .. LastMoment \cup {Unresolved}
             /\ issue'.status = "resolved" => fixed' = issue'.updated
             /\ issue'.status = "verified" =>
                  /\ issue'.by = r /\ fixed' # Unresolved
                  /\ report[r].at > fixed' /\ ~ report[r].fails
      PROVE  IssuesInv'
  <2>1. IssuesTypeOK'
    BY <1>1, <1>2, <1>4 DEF IssuesInv, IssuesTypeOK
  <2>2. /\ issue'.version # 0 /\ issue' # NoIssue
        /\ \A y \in Reports \cup People : ReadIsReal(y)'
    BY <1>4, NewVersion
  <2>3. VerifiedByLaterRun'
    BY <1>2, <1>4 DEF VerifiedByLaterRun
  <2>4. (issue.status = "verified" => issue.by \in Reports /\ report[issue.by].state # "none")'
    BY <1>2, <1>4
  <2>5. QED
    BY <1>1, <1>2, <1>4, <2>1, <2>2, <2>3, <2>4 DEF IssuesInv
<1>5. QED
  BY <1>3, <1>4

\* Whatever is recorded or edited next keeps the invariant.
LEMMA IssuesStep == IssuesInv /\ [IssuesNext]_issueVars => IssuesInv'
<1> SUFFICES ASSUME IssuesInv, [IssuesNext]_issueVars PROVE IssuesInv'
  OBVIOUS
<1>u. Unread \notin Issue /\ Unread.status = "unread"
  BY DEF Unread, NoIssue, Issue, Transitions
<1>1. CASE UNCHANGED issueVars
  BY <1>1 DEF issueVars, IssuesInv, IssuesTypeOK, ReadIsReal, VerifiedByLaterRun
<1>2. CASE TimePasses
  <2>1. IssuesTypeOK'
    BY <1>2, IssuesAssumption DEF TimePasses, IssuesInv, IssuesTypeOK
  <2>2. QED
    BY <1>2, <2>1 DEF TimePasses, IssuesInv, ReadIsReal, VerifiedByLaterRun
<1>3. ASSUME NEW r \in Reports, NEW fails \in BOOLEAN, Generate(r, fails) PROVE IssuesInv'
  <2>1. \A s \in Reports :
          report'[s] = IF s = r THEN [state |-> "generated", at |-> now, fails |-> fails]
                                ELSE report[s]
    BY <1>3 DEF Generate, IssuesInv, IssuesTypeOK
  <2>2. IssuesTypeOK'
    BY <1>3, IssuesAssumption DEF Generate, IssuesInv, IssuesTypeOK
  <2>3. (issue.status = "verified" => issue.by \in Reports /\ report[issue.by].state # "none")'
        /\ VerifiedByLaterRun'
    BY <1>3, <2>1 DEF Generate, IssuesInv, VerifiedByLaterRun
  <2>4. QED
    BY <1>3, <2>1, <2>2, <2>3 DEF Generate, IssuesInv, ReadIsReal
<1>4. ASSUME NEW x \in Reports \cup People, Look(x), UNCHANGED <<now, report, issue, fixed>>,
             issue.version < MaxVersion, x \in Reports => report[x].state = "generated"
      PROVE  IssuesInv'
  <2>1. /\ \A y \in Reports \cup People : read'[y] = IF y = x THEN issue ELSE read[y]
        /\ IssuesTypeOK'
    BY <1>4 DEF Look, IssuesInv, IssuesTypeOK
  <2>2. issue.version \in Nat /\ (issue.version = 0 => issue.status = "none")
    BY IssuesAssumption DEF IssuesInv, IssuesTypeOK, Issue, NoIssue
  <2>3. issue.status = "none" => issue.version = 0
    BY <2>2 DEF IssuesInv
  <2>4. QED
    BY <1>4, <2>1, <2>2, <2>3 DEF IssuesInv, ReadIsReal, VerifiedByLaterRun
<1>5. ASSUME NEW x \in Reports \cup People, Leave(x), UNCHANGED <<now, report, issue, fixed>>
      PROVE  IssuesInv'
  <2>1. /\ read' \in [Reports \cup People -> Issue \cup {Unread}]
        /\ \A y \in Reports \cup People : read'[y] = IF y = x THEN Unread ELSE read[y]
    BY <1>5, LeavesUnread
  <2>2. IssuesTypeOK'
    BY <1>5, <2>1 DEF IssuesInv, IssuesTypeOK
  <2>3. QED
    BY <1>5, <1>u, <2>1, <2>2 DEF IssuesInv, ReadIsReal, VerifiedByLaterRun
<1>6. ASSUME NEW r \in Reports, RecordFirstFailure(r) PROVE IssuesInv'
  <2>1. read[r] # Unread /\ read[r].status = "none" /\ issue = NoIssue
    BY <1>6 DEF RecordFirstFailure, Unread, NoIssue
  <2>2. issue.version = 0 /\ 1 \in 0 .. MaxVersion
    BY <2>1, ReadIsIssue, IssuesAssumption DEF NoIssue
  <2>3. issue' \in Issue /\ issue'.version = 1 /\ issue'.status = "open"
    BY <1>6, <2>2 DEF RecordFirstFailure, IssuesInv, IssuesTypeOK, Issue, Transitions
  <2>4. Recorded(r) /\ Leave(r) /\ now' = now /\ fixed' = fixed
    BY <1>6 DEF RecordFirstFailure
  <2>5. fixed \in 0 .. LastMoment \cup {Unresolved}
    BY DEF IssuesInv, IssuesTypeOK
  <2>6. QED
    BY <2>1, <2>2, <2>3, <2>4, <2>5, RecordingStep
<1>7. ASSUME NEW r \in Reports, RecordFailure(r) PROVE IssuesInv'
  <2> DEFINE new == [read[r] EXCEPT !.status = IF @ \in {"resolved", "verified"} THEN "open" ELSE @,
                                    !.updated = report[r].at, !.last = r, !.by = NoReport]
  <2>1. /\ read[r] # Unread /\ read[r] \in Issue /\ read[r].status # "none"
        /\ read[r].version < MaxVersion /\ read[r].version \in Nat
    BY <1>7, ReadIsIssue DEF RecordFailure, Unread, NoIssue
  <2>2. Recorded(r) /\ Leave(r) /\ now' = now /\ Saves(r, new)
        /\ fixed' = IF issue' = issue THEN fixed ELSE Unresolved
    BY <1>7 DEF RecordFailure
  <2>3. /\ new \in Issue /\ new.version = read[r].version
        /\ new.status \notin {"none", "resolved", "verified"}
    BY <2>1 DEF IssuesInv, IssuesTypeOK, Issue, Transitions
  <2> HIDE DEF new
  <2>4. CASE issue.version = read[r].version
    <3>1. issue' = [new EXCEPT !.version = @ + 1]
      BY <2>2, <2>4 DEF Saves
    <3>2. /\ issue' \in Issue /\ issue'.version = issue.version + 1
          /\ issue'.status = new.status
      BY <2>1, <2>3, <2>4, <3>1, Bumped
    <3>3. fixed' = Unresolved
      BY <2>1, <2>2, <2>4, <3>2
    <3>4. QED
      BY <2>1, <2>2, <2>3, <3>2, <3>3, RecordingStep
  <2>5. CASE issue.version # read[r].version
    BY <2>1, <2>2, <2>5, RecordingStep DEF Saves
  <2>6. QED
    BY <2>4, <2>5
<1>8. ASSUME NEW r \in Reports, RecordPass(r) PROVE IssuesInv'
  <2> DEFINE new == [read[r] EXCEPT !.status = "verified", !.by = r, !.updated = report[r].at]
  <2>1. /\ read[r] # Unread /\ read[r] \in Issue /\ read[r].version < MaxVersion
        /\ read[r].version \in Nat /\ (read[r].version = issue.version => read[r] = issue)
    BY <1>8, ReadIsIssue DEF RecordPass, Unread, NoIssue
  <2>2. Recorded(r) /\ Leave(r) /\ now' = now /\ fixed' = fixed /\ ~ report[r].fails
    BY <1>8 DEF RecordPass
  <2>3. CASE /\ read[r].status = "resolved" /\ read[r].updated < report[r].at
             /\ issue.version = read[r].version
    <3>1. issue' = [new EXCEPT !.version = @ + 1]
      BY <1>8, <2>3 DEF RecordPass, Saves
    <3>2. /\ new \in Issue /\ new.version = read[r].version
          /\ new.status = "verified" /\ new.by = r
      BY <2>1 DEF IssuesInv, IssuesTypeOK, Issue, Transitions
    <3> HIDE DEF new
    <3>3. /\ issue' \in Issue /\ issue'.version = issue.version + 1
          /\ issue'.status = "verified" /\ issue'.by = r
      BY <2>1, <2>3, <3>1, <3>2, Bumped
    <3>4. /\ fixed' = issue.updated /\ report[r].at > fixed'
          /\ fixed' \in 0 .. LastMoment /\ fixed' # Unresolved
      BY <2>1, <2>2, <2>3, IssuesAssumption DEF IssuesInv, IssuesTypeOK, Issue
    <3>5. QED
      BY <2>1, <2>2, <3>3, <3>4, RecordingStep
  <2>4. CASE ~ (/\ read[r].status = "resolved" /\ read[r].updated < report[r].at
                /\ issue.version = read[r].version)
    <3>1. UNCHANGED issue
      BY <1>8, <2>4 DEF RecordPass, Saves
    <3>2. QED
      BY <2>1, <2>2, <3>1, RecordingStep
  <2>5. QED
    BY <2>3, <2>4
<1>9. ASSUME NEW p \in People, NEW s \in {"open", "in_progress", "resolved", "dismissed"},
             UpdateIssue(p, s)
      PROVE  IssuesInv'
  <2>1. /\ issue \in Issue /\ issue.version \in Nat /\ issue.version < MaxVersion
        /\ s \in DOMAIN Transitions /\ s # "none" /\ now \in 0 .. LastMoment
    BY <1>9, IssuesAssumption DEF UpdateIssue, IssuesInv, IssuesTypeOK, Issue, Transitions
  <2> DEFINE new == [issue EXCEPT !.status = s, !.updated = now, !.by = NoReport]
  <2>2. issue' = [new EXCEPT !.version = @ + 1]
    BY <1>9 DEF UpdateIssue, Saves
  <2>n. /\ new \in Issue /\ new.version = issue.version /\ new.status = s
        /\ new.updated = now
    BY <2>1 DEF Issue
  <2> HIDE DEF new
  <2>3. /\ issue' \in Issue /\ issue'.version = issue.version + 1
        /\ issue'.status = s /\ issue'.updated = now
    BY <2>1, <2>2, <2>n, Bumped
  <2>4. /\ Leave(p) /\ UNCHANGED <<now, report>>
        /\ fixed' = IF s = "resolved" THEN now ELSE Unresolved
    BY <1>9 DEF UpdateIssue
  <2>5. /\ read' \in [Reports \cup People -> Issue \cup {Unread}]
        /\ \A y \in Reports \cup People : read'[y] = IF y = p THEN Unread ELSE read[y]
        /\ \A y \in Reports \cup People :
             read'[y] \in Issue => (read'[y].status = "none" <=> read'[y].version = 0)
    BY <2>4, LeavesUnread
  <2>6. IssuesTypeOK'
    BY <2>1, <2>3, <2>4, <2>5 DEF IssuesInv, IssuesTypeOK
  <2>7. /\ issue'.version # 0 /\ issue' # NoIssue
        /\ \A y \in Reports \cup People : ReadIsReal(y)'
    BY <2>3, <2>4, NewVersion
  <2>8. QED
    BY <2>1, <2>3, <2>4, <2>5, <2>6, <2>7 DEF IssuesInv, VerifiedByLaterRun
<1>10. ASSUME NEW r \in Reports, BeginRecording(r) \/ StopRecording(r) PROVE IssuesInv'
  BY <1>4, <1>5, <1>10 DEF BeginRecording, StopRecording
<1>11. ASSUME NEW p \in People, OpenTab(p) PROVE IssuesInv'
  <2>1. p \notin Reports
    BY IssuesAssumption
  <2>2. QED
    BY <1>4, <1>11, <2>1 DEF OpenTab
<1>12. QED
  BY <1>1, <1>2, <1>3, <1>6, <1>7, <1>8, <1>9, <1>10, <1>11 DEF IssuesNext

\* What is known of the issue, of those who have read it and of its reports.
THEOREM IssuesInvariant == IssuesSpec => []IssuesInv
BY IssuesInitInv, IssuesStep, PTL DEF IssuesSpec

\* In whatever order reports are recorded and people edit: an issue is verified by a
\* report without the failure that was generated after a person's resolution of it that
\* still stands (gate_service.py:307).
THEOREM VerifiedLater == IssuesSpec => []VerifiedByLaterRun
<1>1. IssuesInv => VerifiedByLaterRun
  BY DEF IssuesInv
<1>2. QED
  BY <1>1, IssuesInvariant, PTL

-----------------------------------------------------------------------------
(* Maintenance.  What is gone and what was made again is accounted for by   *)
(* confirmed requests; a request that is being resolved is not yet one.     *)

LogRow == [class : Classes, day : 0 .. LastDay]
Snapshot == [policy : Policies, rows : SUBSET Nat]
Request == [kind : {"retention", "retry", "repair"}, about : Snapshot \cup Nat,
            at : 0 .. LastDay, status : {"pending", "denied", "expired", "consumed"},
            made : Nat]
TaskRun == [status : {"queued", "failed", "completed"}, why : {"none"} \cup Errors,
            of : Nat, via : {"task", "record", "step"}, ended : Nat, late : Nat]

\* Types.
MaintTyped ==
  /\ day \in 0 .. LastDay
  /\ log \in Seq(LogRow) /\ gone \subseteq DOMAIN log
  /\ request \in Seq(Request) /\ resolving \subseteq DOMAIN request
  /\ runs \in Seq(TaskRun)
  /\ parent \in [status : {"running", "failed", "completed"}, active : Nat]
  /\ parent.active \in DOMAIN runs
  /\ dead \in Seq(Nat) /\ \A d \in DOMAIN dead : dead[d] \in DOMAIN runs

\* A request is about something there is, and one that is being resolved is open.
RequestsAreReal ==
  /\ \A i \in DOMAIN request :
       /\ request[i].kind = "retry" => request[i].about \in DOMAIN dead
       /\ request[i].kind = "repair" => request[i].about \in DOMAIN runs
       /\ request[i].kind \in {"retry", "repair"} /\ request[i].status = "consumed" =>
            request[i].made \in DOMAIN runs
  /\ \A i \in resolving : /\ request[i].kind = "retry" /\ request[i].status = "pending"
                          /\ FailedOf(dead[request[i].about], "queue")

\* A run that has not ended has no terminal event. What was replaced has failed for good,
\* of an error that only the one or only the other kind of retry accepts.
RunsAreReal ==
  \A r \in DOMAIN runs :
    /\ runs[r].status = "queued" => runs[r].ended = 0 /\ runs[r].late = 0
    /\ runs[r].via = "task" => runs[r].of = 0
    /\ runs[r].via # "task" => runs[r].of \in DOMAIN runs
    /\ runs[r].via = "record" => FailedOf(runs[r].of, "queue")

MaintInv ==
  /\ MaintTyped /\ RequestsAreReal /\ RunsAreReal
  /\ NothingGoesUnconfirmed /\ RepairsAreConfirmed

\* How the log, the runs and the dead letters change: what was written stays.
LogGrows ==
  /\ log' \in Seq(LogRow) /\ DOMAIN log \subseteq DOMAIN log'
  /\ \A i \in DOMAIN log : log'[i] = log[i]
StillFailed(r, why) == runs'[r].status = "failed" /\ runs'[r].why = why
RunsStay ==
  /\ runs' \in Seq(TaskRun) /\ DOMAIN runs' = DOMAIN runs
  /\ \A r \in DOMAIN runs :
       /\ runs'[r].of = runs[r].of /\ runs'[r].via = runs[r].via
       /\ runs[r].status = "failed" => runs'[r].status = "failed" /\ runs'[r].why = runs[r].why
       /\ runs'[r].status = "queued" => runs'[r] = runs[r]
LateStay ==
  \A r \in DOMAIN runs :
    runs'[r].ended + runs'[r].late <= 1 /\ (runs'[r].late # 0 <=> runs[r].late # 0)
RunAdded(of, via) ==
  /\ runs' \in Seq(TaskRun)
  /\ DOMAIN runs' = DOMAIN runs \cup {Len(runs) + 1} /\ Len(runs) + 1 \notin DOMAIN runs
  /\ \A r \in DOMAIN runs : runs'[r] = runs[r]
  /\ LET new == runs'[Len(runs) + 1]
     IN /\ new.status = "queued" /\ new.of = of /\ new.via = via
        /\ new.ended = 0 /\ new.late = 0
DeadGrow ==
  /\ dead' \in Seq(Nat) /\ DOMAIN dead \subseteq DOMAIN dead'
  /\ \A d \in DOMAIN dead : dead'[d] = dead[d]

\* No request is confirmed, and those that are stay as they are.
SameConfirmed(kind) ==
  /\ Consumed(kind)' = Consumed(kind)
  /\ \A i \in Consumed(kind) :
       request'[i].about = request[i].about /\ request'[i].at = request[i].at
         /\ request'[i].made = request[i].made

\* The first run has not been replaced and the log is empty.
LEMMA MaintInitInv == MaintInit => MaintInv
<1> SUFFICES ASSUME MaintInit PROVE MaintInv
  OBVIOUS
<1>1. /\ runs \in Seq(TaskRun) /\ DOMAIN runs = {1}
      /\ runs[1].of = 0 /\ runs[1].via = "task" /\ runs[1].ended = 0 /\ runs[1].late = 0
  <2> DEFINE First(run) == /\ run \in TaskRun /\ run.of = 0 /\ run.via = "task"
                           /\ run.ended = 0 /\ run.late = 0
  <2>1. First(Run("queued", 0, "task"))
    BY DEF Run, TaskRun
  <2>2. \A why \in Errors : First([Run("failed", 0, "task") EXCEPT !.why = why])
    BY DEF Run, TaskRun
  <2>3. \E run : runs = <<run>> /\ First(run)
    BY <2>1, <2>2 DEF MaintInit
  <2>4. QED
    BY <2>3
<1>2. MaintTyped
  BY <1>1, MaintenanceAssumption DEF MaintInit, MaintTyped
<1>3. RequestsAreReal /\ NothingGoesUnconfirmed
  BY DEF MaintInit, RequestsAreReal, NothingGoesUnconfirmed, Consumed
<1>4. RunsAreReal
  BY <1>1 DEF RunsAreReal
<1>5. RepairsAreConfirmed
  <2>1. \A kind : Consumed(kind) = {}
    BY DEF MaintInit, Consumed
  <2>2. QED
    BY <1>1, <2>1 DEF RepairsAreConfirmed, ConfirmedApart, RepairedAsConfirmed,
                      ReplacedAsConfirmed, ReplacedByStep
<1>6. QED
  BY <1>2, <1>3, <1>4, <1>5 DEF MaintInv

\* A row is added to the log.
LEMMA AuditGrows ==
  ASSUME MaintTyped, NEW class \in Classes, Audit(class)
  PROVE  LogGrows
BY DEF MaintTyped, Audit, Row, LogGrows, LogRow

\* Rows that are gone stay accounted for while no request to delete is confirmed.
LEMMA RetentionKept ==
  ASSUME MaintTyped, NothingGoesUnconfirmed, SameConfirmed("retention"), LogGrows, gone' = gone
  PROVE  NothingGoesUnconfirmed' /\ gone' \subseteq DOMAIN log'
<1>1. \A row \in gone : log'[row] = log[row] /\ row \in DOMAIN log'
  BY DEF MaintTyped, LogGrows
<1> DEFINE C == Consumed("retention")
           Accounts(row, i) == /\ row \in request[i].about.rows /\ Outlived(row, request[i].at)
                               /\ \A j \in C : row \in request[j].about.rows => j = i
<1>2. C' = C /\ \A i \in C : request'[i].about = request[i].about /\ request'[i].at = request[i].at
  BY DEF SameConfirmed
<1>3. ASSUME NEW row \in gone PROVE \E i \in C' : Accounts(row, i)'
  <2>1. PICK i \in C : Accounts(row, i)
    BY DEF NothingGoesUnconfirmed
  <2>2. Outlived(row, request[i].at)'
    BY <1>1, <1>2, <2>1 DEF Outlived
  <2>3. QED
    BY <1>2, <2>1, <2>2
<1>4. \A i \in C' : request'[i].about.rows \subseteq gone'
  BY <1>2 DEF NothingGoesUnconfirmed
<1>5. QED
  BY <1>1, <1>3, <1>4 DEF NothingGoesUnconfirmed

\* What has failed of an error stays so.
LEMMA FailedStays ==
  ASSUME NEW r \in DOMAIN runs, NEW why, FailedOf(r, why), runs[r].status = "failed" =>
           runs'[r].status = "failed" /\ runs'[r].why = runs[r].why
  PROVE  StillFailed(r, why)
BY DEF FailedOf, StillFailed

\* Runs that stay keep what their replacements rest on.
LEMMA RealRunsStay ==
  ASSUME MaintTyped, RunsAreReal, ReplacedByStep, RunsStay
  PROVE  RunsAreReal' /\ ReplacedByStep'
<1>1. ASSUME NEW r \in DOMAIN runs', runs'[r].status = "queued"
      PROVE  runs'[r].ended = 0 /\ runs'[r].late = 0
  BY <1>1 DEF RunsStay, RunsAreReal
<1>2. ASSUME NEW r \in DOMAIN runs', runs'[r].via = "task"
      PROVE  runs'[r].of = 0
  BY <1>2 DEF RunsStay, RunsAreReal
<1>3. ASSUME NEW r \in DOMAIN runs', runs'[r].via # "task"
      PROVE  runs'[r].of \in DOMAIN runs'
  BY <1>3 DEF RunsStay, RunsAreReal
<1>4. ASSUME NEW r \in DOMAIN runs', NEW why, runs'[r].via # "task", FailedOf(runs[r].of, why)
      PROVE  StillFailed(runs'[r].of, why)
  BY <1>4, FailedStays DEF RunsStay, RunsAreReal
<1>5. RunsAreReal'
  BY <1>1, <1>2, <1>3, <1>4 DEF RunsAreReal, RunsStay, FailedOf, StillFailed
<1>6. ReplacedByStep'
  BY <1>4 DEF ReplacedByStep, RunsStay, FailedOf, StillFailed
<1>7. QED
  BY <1>5, <1>6

\* What was made stays accounted for while no request is confirmed and no run is added.
LEMMA RepairsKept ==
  ASSUME MaintTyped, RequestsAreReal, RunsAreReal, RepairsAreConfirmed,
         SameConfirmed("retry"), SameConfirmed("repair"), RunsStay, LateStay, DeadGrow
  PROVE  RepairsAreConfirmed' /\ RunsAreReal'
<1>1. RunsAreReal' /\ ReplacedByStep'
  BY RealRunsStay DEF RepairsAreConfirmed
<1>2. ConfirmedApart'
  BY DEF RepairsAreConfirmed, ConfirmedApart, SameConfirmed
<1>3. RepairedAsConfirmed'
  BY DEF RepairsAreConfirmed, RepairedAsConfirmed, SameConfirmed, RunsStay, LateStay
<1>4. ReplacedAsConfirmed'
  <2>1. \A i \in Consumed("retry") :
          /\ dead'[request[i].about] = dead[request[i].about]
          /\ request[i].made \in DOMAIN runs
    BY DEF RequestsAreReal, DeadGrow, Consumed
  <2>2. ReplacedAsConfirmed
    BY DEF RepairsAreConfirmed
  <2>3. QED
    BY <2>1, <2>2 DEF ReplacedAsConfirmed, SameConfirmed, RunsStay
<1>5. QED
  BY <1>1, <1>2, <1>3, <1>4 DEF RepairsAreConfirmed

\* A run that replaces another one is added after all others.
LEMMA ReplaceAdds ==
  ASSUME MaintTyped, NEW r \in Nat, NEW via \in {"record", "step"}, Replace(r, via)
  PROVE  /\ RunAdded(r, via) /\ Len(runs) + 1 \in Nat
         /\ parent' = [status |-> "running", active |-> Len(runs) + 1]
<1> DEFINE new == Run("queued", r, via)
<1>1. /\ new \in TaskRun /\ new.status = "queued" /\ new.of = r /\ new.via = via
      /\ new.ended = 0 /\ new.late = 0
  BY DEF Run, TaskRun
<1>2. runs' = Append(runs, new) /\ runs \in Seq(TaskRun)
  BY DEF Replace, MaintTyped
<1> HIDE DEF new
<1>3. QED
  BY <1>1, <1>2 DEF Replace, RunAdded

\* What has failed has failed when a run is added, which is not one of those.
LEMMA RealRunsGrow ==
  ASSUME MaintTyped, RunsAreReal, NEW of \in DOMAIN runs, NEW via \in {"record", "step"},
         RunAdded(of, via), via = "record" => FailedOf(of, "queue")
  PROVE  RunsAreReal'
<1>1. ASSUME NEW r \in DOMAIN runs, NEW why, FailedOf(r, why) PROVE StillFailed(r, why)
  BY <1>1 DEF RunAdded, FailedOf, StillFailed
<1>2. ASSUME NEW r \in DOMAIN runs
      PROVE  /\ runs'[r].status = "queued" => runs'[r].ended = 0 /\ runs'[r].late = 0
             /\ runs'[r].via = "task" => runs'[r].of = 0
             /\ runs'[r].via # "task" => runs'[r].of \in DOMAIN runs'
             /\ runs'[r].via = "record" => StillFailed(runs'[r].of, "queue")
  <2>1. runs'[r] = runs[r] /\ DOMAIN runs \subseteq DOMAIN runs'
    BY DEF RunAdded
  <2>2. QED
    BY <1>1, <2>1 DEF RunsAreReal
<1>3. LET n == Len(runs) + 1
      IN /\ runs'[n].ended = 0 /\ runs'[n].late = 0
         /\ runs'[n].via # "task" /\ runs'[n].of \in DOMAIN runs'
         /\ runs'[n].via = "record" => StillFailed(runs'[n].of, "queue")
  BY <1>1 DEF RunAdded
<1>4. QED
  BY <1>2, <1>3 DEF RunsAreReal, RunAdded, FailedOf, StillFailed

\* Where the runs and the dead letters are left alone.
LEMMA RunsAreLeft ==
  ASSUME MaintTyped, RepairsAreConfirmed, UNCHANGED <<runs, dead>>
  PROVE  RunsStay /\ LateStay /\ DeadGrow
BY DEF MaintTyped, RepairsAreConfirmed, RepairedAsConfirmed, RunsStay, LateStay, DeadGrow

\* A request that is asked for is open.
LEMMA AskedIsOpen ==
  ASSUME MaintTyped, NEW kind \in {"retention", "retry", "repair"},
         NEW about \in Snapshot \cup Nat, NEW class \in Classes, Ask(kind, about, class)
  PROVE  /\ LogGrows
         /\ request' \in Seq(Request) /\ DOMAIN request' = DOMAIN request \cup {Len(request) + 1}
         /\ \A i \in DOMAIN request : request'[i] = request[i]
         /\ LET new == request'[Len(request) + 1]
            IN new.kind = kind /\ new.about = about /\ new.status = "pending"
         /\ \A k : SameConfirmed(k)
<1> DEFINE new == [kind |-> kind, about |-> about, at |-> day, status |-> "pending", made |-> 0]
<1>1. request' = Append(request, new) /\ LogGrows
  BY AuditGrows DEF Ask
<1>2. /\ new \in Request /\ new.kind = kind /\ new.about = about
      /\ new.status = "pending"
  BY DEF Request, MaintTyped
<1> HIDE DEF new
<1>3. /\ request' \in Seq(Request) /\ DOMAIN request' = DOMAIN request \cup {Len(request) + 1}
      /\ \A i \in DOMAIN request : request'[i] = request[i]
      /\ request'[Len(request) + 1] = new
  BY <1>1, <1>2 DEF MaintTyped
<1>4. QED
  BY <1>1, <1>2, <1>3 DEF SameConfirmed, Consumed

\* An open request that gets another status changes nothing else.
LEMMA StatusOnly ==
  ASSUME MaintTyped, NEW i \in DOMAIN request, request[i].status = "pending",
         NEW s \in {"denied", "expired"}, request' = [request EXCEPT ![i].status = s]
  PROVE  /\ request' \in Seq(Request) /\ DOMAIN request' = DOMAIN request
         /\ \A j \in DOMAIN request : request'[j].kind = request[j].kind
                                      /\ request'[j].about = request[j].about
                                      /\ request'[j].made = request[j].made
                                      /\ (j # i => request'[j] = request[j])
         /\ request'[i].status = s
         /\ \A k : SameConfirmed(k)
<1> DEFINE new == [request[i] EXCEPT !.status = s]
<1>1. /\ new \in Request /\ new.kind = request[i].kind /\ new.about = request[i].about
      /\ new.made = request[i].made /\ new.status = s
  <2>1. request[i] \in Request
    BY DEF MaintTyped
  <2>2. QED
    BY <2>1 DEF Request
<1>2. request' = [request EXCEPT ![i] = new]
  OBVIOUS
<1> HIDE DEF new
<1>3. /\ request' \in Seq(Request) /\ DOMAIN request' = DOMAIN request
      /\ \A j \in DOMAIN request : request'[j] = IF j = i THEN new ELSE request[j]
  <2>1. request \in Seq(Request) /\ new \in Request
    BY <1>1 DEF MaintTyped
  <2>2. QED
    BY <1>2, <2>1
<1>4. QED
  BY <1>1, <1>3 DEF SameConfirmed, Consumed

\* A confirmed request joins those of its kind.
LEMMA ConfirmedJoins ==
  ASSUME MaintTyped, NEW i \in DOMAIN request, request[i].status = "pending",
         NEW made \in Nat, Confirm(i, made)
  PROVE  /\ request' \in Seq(Request) /\ DOMAIN request' = DOMAIN request
         /\ \A j \in DOMAIN request : request'[j].kind = request[j].kind
                                      /\ request'[j].about = request[j].about
                                      /\ request'[j].at = request[j].at
                                      /\ (j # i => request'[j] = request[j])
         /\ request'[i].status = "consumed" /\ request'[i].made = made
         /\ \A k : k = request[i].kind =>
              Consumed(k)' = Consumed(k) \cup {i} /\ i \notin Consumed(k)
         /\ \A k : k # request[i].kind => SameConfirmed(k)
<1> DEFINE new == [request[i] EXCEPT !.status = "consumed", !.made = made]
<1>1. /\ new \in Request /\ new.kind = request[i].kind /\ new.about = request[i].about
      /\ new.at = request[i].at /\ new.made = made /\ new.status = "consumed"
  <2>1. request[i] \in Request
    BY DEF MaintTyped
  <2>2. QED
    BY <2>1 DEF Request
<1>2. request' = [request EXCEPT ![i] = new]
  BY DEF Confirm
<1> HIDE DEF new
<1>3. /\ request' \in Seq(Request) /\ DOMAIN request' = DOMAIN request
      /\ \A j \in DOMAIN request : request'[j] = IF j = i THEN new ELSE request[j]
  <2>1. request \in Seq(Request) /\ new \in Request
    BY <1>1 DEF MaintTyped
  <2>2. QED
    BY <1>2, <2>1
<1>4. QED
  BY <1>1, <1>3 DEF SameConfirmed, Consumed

\* What a scan finds is in the log, not gone, and has outlived its term.
LEMMA CandidatesOutlived ==
  ASSUME NEW t, NEW policy
  PROVE  /\ Candidates(t, policy) \subseteq DOMAIN log \ gone
         /\ \A row \in Candidates(t, policy) : Outlived(row, t)
BY DEF Candidates, FirstOf, Old

\* Asking for something that exists keeps the invariant.
LEMMA AskStep ==
  ASSUME MaintInv, NEW kind \in {"retention", "retry", "repair"},
         NEW about \in Snapshot \cup Nat, NEW class \in Classes, Ask(kind, about, class),
         kind = "retry" => about \in DOMAIN dead,
         kind = "repair" => about \in DOMAIN runs,
         UNCHANGED <<day, gone, resolving, runs, parent, dead>>
  PROVE  MaintInv'
<1>1. /\ LogGrows
      /\ request' \in Seq(Request) /\ DOMAIN request' = DOMAIN request \cup {Len(request) + 1}
      /\ \A i \in DOMAIN request : request'[i] = request[i]
      /\ LET new == request'[Len(request) + 1]
         IN new.kind = kind /\ new.about = about /\ new.status = "pending"
      /\ SameConfirmed("retention") /\ SameConfirmed("retry") /\ SameConfirmed("repair")
  BY AskedIsOpen DEF MaintInv
<1>2. NothingGoesUnconfirmed' /\ gone' \subseteq DOMAIN log'
  BY <1>1, RetentionKept DEF MaintInv
<1>3. RunsStay /\ LateStay /\ DeadGrow
  BY RunsAreLeft DEF MaintInv
<1>4. RepairsAreConfirmed' /\ RunsAreReal'
  BY <1>1, <1>3, RepairsKept DEF MaintInv
<1>5. MaintTyped'
  BY <1>1, <1>2 DEF MaintInv, MaintTyped, LogGrows
<1>6. RequestsAreReal'
  <2>1. \A i \in resolving : i \in DOMAIN request
    BY DEF MaintInv, MaintTyped
  <2>2. QED
    BY <1>1, <2>1 DEF MaintInv, RequestsAreReal, FailedOf
<1>7. QED
  BY <1>2, <1>4, <1>5, <1>6 DEF MaintInv

\* Denying a request and letting it expire keep the invariant.
LEMMA CloseStep ==
  ASSUME MaintInv, NEW i \in DOMAIN request, Deny(i) \/ Expire(i)
  PROVE  MaintInv'
<1>1. PICK s \in {"denied", "expired"} : request' = [request EXCEPT ![i].status = s]
  BY DEF Deny, Expire
<1>2. /\ request[i].status = "pending" /\ i \notin resolving
      /\ UNCHANGED <<day, gone, resolving, runs, parent, dead>>
  BY DEF Deny, Expire, Pending
<1>3. LogGrows
  <2>1. \E class \in Classes : Audit(class)
    BY DEF Deny, Expire, DecisionClass, Classes
  <2>2. QED
    BY <2>1, AuditGrows DEF MaintInv
<1>4. /\ request' \in Seq(Request) /\ DOMAIN request' = DOMAIN request
      /\ \A j \in DOMAIN request : request'[j].kind = request[j].kind
                                   /\ request'[j].about = request[j].about
                                   /\ request'[j].made = request[j].made
                                   /\ (j # i => request'[j] = request[j])
      /\ request'[i].status = s
      /\ SameConfirmed("retention") /\ SameConfirmed("retry") /\ SameConfirmed("repair")
  BY <1>1, <1>2, StatusOnly DEF MaintInv
<1>5. NothingGoesUnconfirmed' /\ gone' \subseteq DOMAIN log'
  BY <1>2, <1>3, <1>4, RetentionKept DEF MaintInv
<1>6. RunsStay /\ LateStay /\ DeadGrow
  BY <1>2, RunsAreLeft DEF MaintInv
<1>7. RepairsAreConfirmed' /\ RunsAreReal'
  BY <1>4, <1>6, RepairsKept DEF MaintInv
<1>8. MaintTyped'
  BY <1>2, <1>3, <1>4, <1>5 DEF MaintInv, MaintTyped, LogGrows
<1>9. RequestsAreReal'
  <2>1. \A j \in resolving : j \in DOMAIN request /\ j # i
    BY <1>2 DEF MaintInv, MaintTyped
  <2>2. \A j \in DOMAIN request : request'[j].status = "consumed" => request[j].status = "consumed"
    BY <1>4
  <2>3. QED
    BY <1>2, <1>4, <2>1, <2>2 DEF MaintInv, RequestsAreReal, FailedOf
<1>10. QED
  BY <1>5, <1>7, <1>8, <1>9 DEF MaintInv

\* Deleting what was confirmed: what the scan finds again is not gone, so no other
\* confirmed request has named it.
LEMMA RetentionStep ==
  ASSUME MaintInv, NEW i \in DOMAIN request, ApplyRetention(i)
  PROVE  MaintInv'
<1> DEFINE rows == request[i].about.rows
           C == Consumed("retention")
<1>1. /\ request[i].kind = "retention" /\ request[i].status = "pending" /\ i \notin resolving
      /\ gone' = gone \cup rows /\ Confirm(i, 0) /\ Audit("permanent")
      /\ UNCHANGED <<day, resolving, runs, parent, dead>>
  BY DEF ApplyRetention, Pending, Deletes
<1>2. rows \subseteq DOMAIN log \ gone /\ \A row \in rows : Outlived(row, request[i].at)
  BY CandidatesOutlived DEF ApplyRetention
<1>3. LogGrows
  BY <1>1, AuditGrows DEF MaintInv, Classes
<1>4. /\ request' \in Seq(Request) /\ DOMAIN request' = DOMAIN request
      /\ \A j \in DOMAIN request : request'[j].kind = request[j].kind
                                   /\ request'[j].about = request[j].about
                                   /\ request'[j].at = request[j].at
                                   /\ (j # i => request'[j] = request[j])
      /\ C' = C \cup {i} /\ i \notin C
      /\ SameConfirmed("retry") /\ SameConfirmed("repair")
  BY <1>1, ConfirmedJoins DEF MaintInv
<1>5. C \subseteq DOMAIN request
  BY DEF Consumed
<1>6. \A j \in C' : request'[j].about.rows \subseteq gone'
  BY <1>1, <1>4, <1>5 DEF MaintInv, NothingGoesUnconfirmed
<1>7. \A row \in gone \cup rows : row \in DOMAIN log' /\ log'[row] = log[row]
  BY <1>2, <1>3 DEF MaintInv, MaintTyped, LogGrows
<1>8. ASSUME NEW row \in gone'
      PROVE  \E j \in C' : /\ row \in request'[j].about.rows /\ Outlived(row, request[j].at)'
                           /\ \A k \in C' : row \in request'[k].about.rows => k = j
  <2>1. CASE row \in rows
    <3>1. \A k \in C : row \notin request[k].about.rows
      BY <1>2, <2>1 DEF MaintInv, NothingGoesUnconfirmed
    <3>2. Outlived(row, request[i].at)'
      BY <1>2, <1>4, <1>7, <2>1 DEF Outlived
    <3>3. QED
      BY <1>4, <1>5, <2>1, <3>1, <3>2
  <2>2. CASE row \notin rows
    <3>1. row \in gone
      BY <1>1, <1>8, <2>2
    <3>2. PICK j \in C : /\ row \in request[j].about.rows /\ Outlived(row, request[j].at)
                         /\ \A k \in C : row \in request[k].about.rows => k = j
      BY <3>1 DEF MaintInv, NothingGoesUnconfirmed
    <3>3. Outlived(row, request[j].at)'
      BY <1>4, <1>5, <1>7, <3>1, <3>2 DEF Outlived
    <3>4. QED
      BY <1>4, <1>5, <2>2, <3>2, <3>3
  <2>3. QED
    BY <2>1, <2>2
<1>9. NothingGoesUnconfirmed'
  BY <1>6, <1>8 DEF NothingGoesUnconfirmed
<1>10. RunsStay /\ LateStay /\ DeadGrow
  BY <1>1, RunsAreLeft DEF MaintInv
<1>11. RepairsAreConfirmed' /\ RunsAreReal'
  BY <1>4, <1>10, RepairsKept DEF MaintInv
<1>12. MaintTyped'
  BY <1>1, <1>2, <1>3, <1>4 DEF MaintInv, MaintTyped, LogGrows
<1>13. RequestsAreReal'
  <2>1. \A j \in resolving : j \in DOMAIN request /\ j # i
    BY <1>1 DEF MaintInv, MaintTyped
  <2>2. QED
    BY <1>1, <1>4, <2>1 DEF MaintInv, RequestsAreReal, FailedOf
<1>14. QED
  BY <1>9, <1>11, <1>12, <1>13 DEF MaintInv

\* A terminal event is written for a run that has none, so no confirmed request has
\* written one for it before.
LEMMA RepairStep ==
  ASSUME MaintInv, NEW i \in DOMAIN request, ApplyRepair(i)
  PROVE  MaintInv'
<1> DEFINE r == request[i].about
           new == [runs[r] EXCEPT !.late = @ + 1]
           C == Consumed("repair")
<1>1. /\ request[i].kind = "repair" /\ request[i].status = "pending" /\ i \notin resolving
      /\ runs[r].status = "failed" /\ runs[r].ended = 0 /\ runs[r].late = 0
      /\ Audit("permanent")
      /\ runs' = [runs EXCEPT ![r].late = @ + 1] /\ Confirm(i, r)
      /\ UNCHANGED <<day, gone, resolving, parent, dead>>
  BY DEF ApplyRepair, Pending, Repairable
<1>2. r \in DOMAIN runs /\ r \in Nat /\ runs[r] \in TaskRun
  BY <1>1 DEF MaintInv, MaintTyped, RequestsAreReal
<1>3. LogGrows
  BY <1>1, AuditGrows DEF MaintInv, Classes
<1>4. /\ request' \in Seq(Request) /\ DOMAIN request' = DOMAIN request
      /\ \A j \in DOMAIN request : request'[j].kind = request[j].kind
                                   /\ request'[j].about = request[j].about
                                   /\ (j # i => request'[j] = request[j])
      /\ request'[i].made = r
      /\ C' = C \cup {i} /\ i \notin C
      /\ SameConfirmed("retention") /\ SameConfirmed("retry")
  <2>1. MaintTyped
    BY DEF MaintInv
  <2> HIDE DEF r, C
  <2>2. /\ request' \in Seq(Request) /\ DOMAIN request' = DOMAIN request
        /\ \A j \in DOMAIN request : request'[j].kind = request[j].kind
                                     /\ request'[j].about = request[j].about
                                     /\ (j # i => request'[j] = request[j])
        /\ request'[i].made = r
    BY <1>1, <1>2, <2>1, ConfirmedJoins
  <2>3. Consumed("repair")' = Consumed("repair") \cup {i} /\ i \notin Consumed("repair")
    BY <1>1, <1>2, <2>1, ConfirmedJoins
  <2>4. SameConfirmed("retention") /\ SameConfirmed("retry")
    BY <1>1, <1>2, <2>1, ConfirmedJoins
  <2>5. QED
    BY <2>2, <2>3, <2>4 DEF C
<1>5. NothingGoesUnconfirmed' /\ gone' \subseteq DOMAIN log'
  BY <1>1, <1>3, <1>4, RetentionKept DEF MaintInv
<1>6. /\ runs' \in Seq(TaskRun) /\ DOMAIN runs' = DOMAIN runs
      /\ \A s \in DOMAIN runs : s # r => runs'[s] = runs[s]
      /\ runs'[r].status = "failed" /\ runs'[r].why = runs[r].why
      /\ runs'[r].of = runs[r].of /\ runs'[r].via = runs[r].via
      /\ runs'[r].ended = 0 /\ runs'[r].late = 1
  <2>1. /\ new \in TaskRun /\ new.of = runs[r].of /\ new.via = runs[r].via
        /\ new.status = "failed" /\ new.why = runs[r].why /\ new.ended = 0 /\ new.late = 1
    BY <1>1, <1>2 DEF TaskRun
  <2>2. runs' = [runs EXCEPT ![r] = new]
    BY <1>1
  <2>3. runs \in Seq(TaskRun)
    BY DEF MaintInv, MaintTyped
  <2> HIDE DEF new
  <2>4. QED
    BY <1>2, <2>1, <2>2, <2>3
<1>7. RunsStay /\ DeadGrow
  BY <1>1, <1>6 DEF MaintInv, MaintTyped, RunsStay, DeadGrow
<1>8. RunsAreReal' /\ ReplacedByStep'
  BY <1>7, RealRunsStay DEF MaintInv, RepairsAreConfirmed
<1>9. C \subseteq DOMAIN request /\ \A j \in C : request[j].made # r
  <2>1. ~\E j \in C : request[j].made = r
    BY <1>1, <1>2 DEF MaintInv, RepairsAreConfirmed, RepairedAsConfirmed
  <2>2. QED
    BY <2>1 DEF Consumed
<1>10. ConfirmedApart'
  <2>1. ASSUME NEW j \in C', NEW k \in C', request'[j].made = request'[k].made PROVE j = k
    BY <1>4, <1>9, <2>1 DEF MaintInv, RepairsAreConfirmed, ConfirmedApart
  <2>2. ASSUME NEW j \in Consumed("retry")', NEW k \in Consumed("retry")',
               request'[j].made = request'[k].made
        PROVE  j = k
    BY <1>4, <2>2 DEF MaintInv, RepairsAreConfirmed, ConfirmedApart, SameConfirmed
  <2>3. QED
    BY <2>1, <2>2 DEF ConfirmedApart
<1>11. RepairedAsConfirmed'
  <2>1. ASSUME NEW s \in DOMAIN runs, s # r
        PROVE  /\ runs'[s].ended + runs'[s].late <= 1
               /\ runs'[s].late # 0 <=> \E j \in C' : request'[j].made = s
    <3>1. /\ runs[s].ended + runs[s].late <= 1
          /\ runs[s].late # 0 <=> \E j \in C : request[j].made = s
      BY DEF MaintInv, RepairsAreConfirmed, RepairedAsConfirmed
    <3>2. (\E j \in C' : request'[j].made = s) <=> \E j \in C : request[j].made = s
      BY <1>4, <1>9, <2>1
    <3>3. QED
      BY <1>6, <2>1, <3>1, <3>2
  <2>2. /\ runs'[r].ended + runs'[r].late <= 1
        /\ runs'[r].late # 0 <=> \E j \in C' : request'[j].made = r
    BY <1>4, <1>6
  <2>3. QED
    BY <1>6, <2>1, <2>2 DEF RepairedAsConfirmed
<1>12. ReplacedAsConfirmed'
  <2>1. \A j \in Consumed("retry") : request[j].made \in DOMAIN runs
    BY DEF MaintInv, RequestsAreReal, Consumed
  <2>2. ReplacedAsConfirmed
    BY DEF MaintInv, RepairsAreConfirmed
  <2>3. /\ Consumed("retry")' = Consumed("retry") /\ dead' = dead
        /\ \A j \in Consumed("retry") : /\ request'[j].about = request[j].about
                                        /\ request'[j].made = request[j].made
        /\ DOMAIN runs' = DOMAIN runs
        /\ \A s \in DOMAIN runs : runs'[s].of = runs[s].of /\ runs'[s].via = runs[s].via
    BY <1>1, <1>4, <1>7 DEF SameConfirmed, RunsStay
  <2>4. QED
    BY <2>1, <2>2, <2>3 DEF ReplacedAsConfirmed
<1>13. MaintTyped'
  BY <1>1, <1>3, <1>4, <1>5, <1>6 DEF MaintInv, MaintTyped, LogGrows
<1>14. RequestsAreReal'
  <2>1. ASSUME NEW j \in resolving
        PROVE  request'[j].kind = "retry" /\ request'[j].status = "pending"
               /\ StillFailed(dead'[request'[j].about], "queue")
    <3>1. /\ j \in DOMAIN request /\ j # i
          /\ request[j].kind = "retry" /\ request[j].status = "pending"
          /\ FailedOf(dead[request[j].about], "queue")
      BY <1>1 DEF MaintInv, MaintTyped, RequestsAreReal
    <3>2. dead[request[j].about] \in DOMAIN runs
      BY <3>1 DEF MaintInv, MaintTyped, RequestsAreReal
    <3>3. request'[j] = request[j]
      BY <1>4, <3>1
    <3>4. StillFailed(dead'[request'[j].about], "queue")
      BY <1>1, <1>7, <3>1, <3>2, <3>3 DEF FailedOf, StillFailed, RunsStay
    <3>5. QED
      BY <1>1, <3>1, <3>3, <3>4
  <2>2. \A j \in DOMAIN request :
             /\ request'[j].kind = "retry" => request'[j].about \in DOMAIN dead'
             /\ request'[j].kind = "repair" => request'[j].about \in DOMAIN runs'
    BY <1>1, <1>4, <1>6 DEF MaintInv, RequestsAreReal
  <2>3. \A j \in DOMAIN request :
             request'[j].kind \in {"retry", "repair"} /\ request'[j].status = "consumed" =>
               request'[j].made \in DOMAIN runs'
    BY <1>1, <1>4, <1>6 DEF MaintInv, RequestsAreReal
  <2>4. QED
    BY <1>1, <1>4, <2>1, <2>2, <2>3 DEF RequestsAreReal, FailedOf, StillFailed
<1>15. QED
  BY <1>5, <1>8, <1>10, <1>11, <1>12, <1>13, <1>14 DEF MaintInv, RepairsAreConfirmed

\* A run is added and, where a request is confirmed, the request names it.
LEMMA AddedRunConfirmed ==
  ASSUME MaintInv, NEW of \in DOMAIN runs, NEW via \in {"record", "step"}, RunAdded(of, via),
         dead' = dead, SameConfirmed("repair"), RunsAreReal',
         via = "record" => FailedOf(of, "queue"),
         via = "step" => /\ FailedOf(of, "model") /\ SameConfirmed("retry")
                         /\ \A s \in DOMAIN runs : ~(runs[s].of = of /\ runs[s].via = "step"),
         ReplacedAsConfirmed', ConfirmedApart'
  PROVE  RepairsAreConfirmed'
<1> DEFINE n == Len(runs) + 1
<1>1. /\ DOMAIN runs' = DOMAIN runs \cup {n} /\ n \notin DOMAIN runs
      /\ \A r \in DOMAIN runs : runs'[r] = runs[r]
      /\ runs'[n].of = of /\ runs'[n].via = via
      /\ runs'[n].ended = 0 /\ runs'[n].late = 0
  BY DEF RunAdded
<1> HIDE DEF n
<1>2. RepairedAsConfirmed'
  <2>1. \A i \in Consumed("repair") : request[i].made \in DOMAIN runs
    <3>1. \A i \in Consumed("repair") : /\ i \in DOMAIN request /\ request[i].kind = "repair"
                                        /\ request[i].status = "consumed"
      BY DEF Consumed
    <3>2. QED
      BY <3>1 DEF MaintInv, RequestsAreReal
  <2>2. ASSUME NEW r \in DOMAIN runs
        PROVE  /\ runs'[r].ended + runs'[r].late <= 1
               /\ runs'[r].late # 0 <=> \E i \in Consumed("repair")' : request'[i].made = r
    BY <1>1 DEF MaintInv, RepairsAreConfirmed, RepairedAsConfirmed, SameConfirmed
  <2>3. /\ runs'[n].ended + runs'[n].late <= 1
        /\ runs'[n].late # 0 <=> \E i \in Consumed("repair")' : request'[i].made = n
    BY <1>1, <2>1 DEF SameConfirmed
  <2>4. QED
    BY <1>1, <2>2, <2>3 DEF RepairedAsConfirmed
<1>3. ReplacedByStep'
  <2>1. ASSUME NEW r \in DOMAIN runs, NEW why, FailedOf(r, why) PROVE StillFailed(r, why)
    BY <1>1, <2>1 DEF FailedOf, StillFailed
  <2>2. \A r \in DOMAIN runs : /\ runs[r].via # "task" => runs[r].of \in DOMAIN runs
                               /\ runs[r].via = "record" => FailedOf(runs[r].of, "queue")
                               /\ runs[r].via = "task" => runs[r].of = 0
    BY DEF MaintInv, RunsAreReal
  <2>3. of # 0
    <3>1. runs \in Seq(TaskRun)
      BY DEF MaintInv, MaintTyped
    <3>2. QED
      BY <3>1
  <2>4. ASSUME via = "step", NEW s \in DOMAIN runs PROVE runs[s].of # of
    <3>1. runs[s].via = "record" => runs[s].of # of
      BY <2>2, <2>4 DEF FailedOf
    <3>2. runs[s].via \in {"task", "record", "step"}
      <4>1. runs[s] \in TaskRun
        BY DEF MaintInv, MaintTyped
      <4>2. QED
        BY <4>1 DEF TaskRun
    <3>3. QED
      BY <2>2, <2>3, <2>4, <3>1, <3>2
  <2>5. ASSUME via = "record", NEW s \in DOMAIN runs, runs[s].via = "step" PROVE runs[s].of # of
    <3>1. FailedOf(runs[s].of, "model")
      BY <2>5 DEF MaintInv, RepairsAreConfirmed, ReplacedByStep
    <3>2. QED
      BY <2>5, <3>1 DEF FailedOf
  <2>6. ASSUME NEW r \in DOMAIN runs, runs[r].via = "step"
        PROVE  /\ StillFailed(runs'[r].of, "model")
               /\ \A s \in DOMAIN runs' : runs'[s].of = runs'[r].of => s = r
    <3>1. /\ FailedOf(runs[r].of, "model") /\ runs[r].of \in DOMAIN runs
          /\ \A s \in DOMAIN runs : runs[s].of = runs[r].of => s = r
      BY <2>2, <2>6 DEF MaintInv, RepairsAreConfirmed, ReplacedByStep
    <3>2. runs[r].of # of
      BY <2>4, <2>5, <2>6
    <3>3. QED
      BY <1>1, <2>1, <3>1, <3>2
  <2>7. ASSUME via = "step"
        PROVE  /\ StillFailed(runs'[n].of, "model")
               /\ \A s \in DOMAIN runs' : runs'[s].of = runs'[n].of => s = n
    BY <1>1, <2>1, <2>4, <2>7
  <2>8. QED
    BY <1>1, <2>6, <2>7 DEF ReplacedByStep, FailedOf, StillFailed
<1>4. QED
  BY <1>2, <1>3 DEF RepairsAreConfirmed

\* The replacement run is a new one, and the request that is confirmed names it.
LEMMA RetryStep ==
  ASSUME MaintInv, NEW i \in DOMAIN request, CommitRetry(i)
  PROVE  MaintInv'
<1> DEFINE n == Len(runs) + 1
           d == request[i].about
           C == Consumed("retry")
<1>1. /\ i \in resolving /\ Confirm(i, n) /\ Audit("extended")
      /\ Replace(dead[d], "record")
      /\ resolving' = resolving \ {i}
      /\ UNCHANGED <<day, gone, dead>>
  BY DEF CommitRetry
<1>2. /\ request[i].kind = "retry" /\ request[i].status = "pending"
      /\ FailedOf(dead[d], "queue")
  BY <1>1 DEF MaintInv, RequestsAreReal
<1>3. d \in DOMAIN dead /\ dead[d] \in DOMAIN runs /\ dead[d] \in Nat
  BY <1>2 DEF MaintInv, MaintTyped, RequestsAreReal
<1>4. /\ RunAdded(dead[d], "record") /\ n \in Nat
      /\ parent' = [status |-> "running", active |-> n]
  BY <1>1, <1>3, ReplaceAdds DEF MaintInv
<1>5. LogGrows
  BY <1>1, AuditGrows DEF MaintInv, Classes
<1>6. /\ request' \in Seq(Request) /\ DOMAIN request' = DOMAIN request
      /\ \A j \in DOMAIN request : request'[j].kind = request[j].kind
                                   /\ request'[j].about = request[j].about
                                   /\ (j # i => request'[j] = request[j])
      /\ request'[i].made = n
      /\ C' = C \cup {i} /\ i \notin C
      /\ SameConfirmed("retention") /\ SameConfirmed("repair")
  <2>1. MaintTyped
    BY DEF MaintInv
  <2> HIDE DEF n, d, C
  <2>2. /\ request' \in Seq(Request) /\ DOMAIN request' = DOMAIN request
        /\ \A j \in DOMAIN request : request'[j].kind = request[j].kind
                                     /\ request'[j].about = request[j].about
                                     /\ (j # i => request'[j] = request[j])
        /\ request'[i].made = n
    BY <1>1, <1>2, <1>4, <2>1, ConfirmedJoins
  <2>3. /\ Consumed("retry")' = Consumed("retry") \cup {i} /\ i \notin Consumed("retry")
        /\ \A k : k # "retry" => SameConfirmed(k)
    BY <1>1, <1>2, <1>4, <2>1, ConfirmedJoins
  <2>4. QED
    BY <2>2, <2>3 DEF C
<1>7. NothingGoesUnconfirmed' /\ gone' \subseteq DOMAIN log'
  BY <1>1, <1>5, <1>6, RetentionKept DEF MaintInv
<1>8. RunsAreReal'
  BY <1>2, <1>3, <1>4, RealRunsGrow DEF MaintInv
<1>9. /\ DOMAIN runs' = DOMAIN runs \cup {n} /\ n \notin DOMAIN runs
      /\ \A r \in DOMAIN runs : runs'[r] = runs[r]
      /\ runs'[n].of = dead[d] /\ runs'[n].via = "record"
  BY <1>4 DEF RunAdded
<1>10. \A j \in C : /\ j \in DOMAIN request /\ request[j].made \in DOMAIN runs
                    /\ request'[j] = request[j]
  <2>1. \A j \in C : j \in DOMAIN request /\ request[j].kind = "retry"
                     /\ request[j].status = "consumed"
    BY DEF Consumed
  <2>2. QED
    BY <1>6, <2>1 DEF MaintInv, RequestsAreReal
<1>11. ConfirmedApart'
  <2>1. ASSUME NEW j \in C', NEW k \in C', request'[j].made = request'[k].made PROVE j = k
    BY <1>6, <1>9, <1>10, <2>1 DEF MaintInv, RepairsAreConfirmed, ConfirmedApart
  <2>2. ASSUME NEW j \in Consumed("repair")', NEW k \in Consumed("repair")',
               request'[j].made = request'[k].made
        PROVE  j = k
    BY <1>6, <2>2 DEF MaintInv, RepairsAreConfirmed, ConfirmedApart, SameConfirmed
  <2>3. QED
    BY <2>1, <2>2 DEF ConfirmedApart
<1>12. ReplacedAsConfirmed'
  <2>1. ASSUME NEW r \in DOMAIN runs, runs[r].via = "record"
        PROVE  \E j \in C' : request'[j].made = r /\ dead'[request'[j].about] = runs'[r].of
    <3>1. PICK j \in C : request[j].made = r /\ dead[request[j].about] = runs[r].of
      BY <2>1 DEF MaintInv, RepairsAreConfirmed, ReplacedAsConfirmed
    <3>2. QED
      BY <1>1, <1>6, <1>9, <1>10, <3>1
  <2>2. \E j \in C' : request'[j].made = n /\ dead'[request'[j].about] = runs'[n].of
    BY <1>1, <1>6, <1>9
  <2>3. \A j \in C : runs[request[j].made].via = "record"
    BY DEF MaintInv, RepairsAreConfirmed, ReplacedAsConfirmed
  <2>4. \A j \in C' : runs'[request'[j].made].via = "record"
    BY <1>6, <1>9, <1>10, <2>3
  <2>5. QED
    BY <1>9, <2>1, <2>2, <2>4 DEF ReplacedAsConfirmed
<1>13. RepairsAreConfirmed'
  BY <1>1, <1>2, <1>3, <1>4, <1>6, <1>8, <1>11, <1>12, AddedRunConfirmed
<1>14. MaintTyped'
  BY <1>1, <1>4, <1>5, <1>6, <1>7, <1>9 DEF MaintInv, MaintTyped, LogGrows, RunAdded
<1>15. RequestsAreReal'
  <2>1. ASSUME NEW j \in resolving \ {i}
        PROVE  request'[j].kind = "retry" /\ request'[j].status = "pending"
               /\ StillFailed(dead'[request'[j].about], "queue")
    <3>1. /\ j \in DOMAIN request /\ j # i
          /\ request[j].kind = "retry" /\ request[j].status = "pending"
          /\ FailedOf(dead[request[j].about], "queue")
      BY DEF MaintInv, MaintTyped, RequestsAreReal
    <3>2. dead[request[j].about] \in DOMAIN runs
      BY <3>1 DEF MaintInv, MaintTyped, RequestsAreReal
    <3>3. request'[j] = request[j]
      BY <1>6, <3>1
    <3>4. QED
      BY <1>1, <1>9, <3>1, <3>2, <3>3 DEF FailedOf, StillFailed
  <2>2. \A j \in DOMAIN request :
             /\ request'[j].kind = "retry" => request'[j].about \in DOMAIN dead'
             /\ request'[j].kind = "repair" => request'[j].about \in DOMAIN runs'
    BY <1>1, <1>6, <1>9 DEF MaintInv, RequestsAreReal
  <2>3. \A j \in DOMAIN request :
             request'[j].kind \in {"retry", "repair"} /\ request'[j].status = "consumed" =>
               request'[j].made \in DOMAIN runs'
    BY <1>6, <1>9 DEF MaintInv, RequestsAreReal
  <2>4. QED
    BY <1>1, <1>6, <2>1, <2>2, <2>3 DEF RequestsAreReal, FailedOf, StillFailed
<1>16. QED
  BY <1>7, <1>8, <1>13, <1>14, <1>15 DEF MaintInv

\* The retry of a failed step adds a run for one that no run has replaced.
LEMMA StepRetryStep ==
  ASSUME MaintInv, NEW r \in DOMAIN runs, RetryFailedStep(r)
  PROVE  MaintInv'
<1>1. /\ FailedOf(r, "model") /\ Replace(r, "step") /\ Audit("standard")
      /\ \A s \in DOMAIN runs : ~(runs[s].of = r /\ runs[s].via = "step")
      /\ UNCHANGED <<day, gone, request, resolving, dead>>
  BY DEF RetryFailedStep
<1>2. r \in Nat
  BY DEF MaintInv, MaintTyped
<1>3. /\ RunAdded(r, "step") /\ Len(runs) + 1 \in Nat
      /\ parent' = [status |-> "running", active |-> Len(runs) + 1]
  BY <1>1, <1>2, ReplaceAdds DEF MaintInv
<1>4. SameConfirmed("retention") /\ SameConfirmed("retry") /\ SameConfirmed("repair")
  BY <1>1 DEF SameConfirmed, Consumed
<1>5. LogGrows
  BY <1>1, AuditGrows DEF MaintInv, Classes
<1>6. NothingGoesUnconfirmed' /\ gone' \subseteq DOMAIN log'
  BY <1>1, <1>4, <1>5, RetentionKept DEF MaintInv
<1>7. RunsAreReal'
  BY <1>3, RealRunsGrow DEF MaintInv
<1>8. /\ DOMAIN runs' = DOMAIN runs \cup {Len(runs) + 1}
      /\ \A s \in DOMAIN runs : runs'[s] = runs[s]
      /\ runs' \in Seq(TaskRun)
      /\ runs'[Len(runs) + 1].via = "step"
  BY <1>3 DEF RunAdded
<1>9. ConfirmedApart'
  BY <1>4 DEF MaintInv, RepairsAreConfirmed, ConfirmedApart, SameConfirmed
<1>10. ReplacedAsConfirmed'
  <2>1. \A i \in Consumed("retry") : request[i].made \in DOMAIN runs
    BY DEF MaintInv, RequestsAreReal, Consumed
  <2>2. ReplacedAsConfirmed
    BY DEF MaintInv, RepairsAreConfirmed
  <2>3. ASSUME NEW s \in DOMAIN runs', runs'[s].via = "record"
        PROVE  \E i \in Consumed("retry")' :
                 request'[i].made = s /\ dead'[request'[i].about] = runs'[s].of
    <3>1. s \in DOMAIN runs /\ runs'[s] = runs[s]
      BY <1>8, <2>3
    <3>2. QED
      BY <1>1, <1>4, <2>2, <2>3, <3>1 DEF ReplacedAsConfirmed, SameConfirmed
  <2>4. \A i \in Consumed("retry")' : runs'[request'[i].made].via = "record"
    BY <1>1, <1>4, <1>8, <2>1, <2>2 DEF ReplacedAsConfirmed, SameConfirmed
  <2>5. QED
    BY <2>3, <2>4 DEF ReplacedAsConfirmed
<1>11. RepairsAreConfirmed'
  BY <1>1, <1>3, <1>4, <1>7, <1>9, <1>10, AddedRunConfirmed
<1>12. MaintTyped'
  BY <1>1, <1>3, <1>5, <1>6, <1>8 DEF MaintInv, MaintTyped, LogGrows
<1>13. RequestsAreReal'
  <2>1. ASSUME NEW j \in resolving PROVE StillFailed(dead'[request'[j].about], "queue")
    <3>1. /\ FailedOf(dead[request[j].about], "queue")
          /\ dead[request[j].about] \in DOMAIN runs
      BY DEF MaintInv, MaintTyped, RequestsAreReal
    <3>2. QED
      BY <1>1, <1>8, <3>1 DEF FailedOf, StillFailed
  <2>2. QED
    BY <1>1, <1>8, <2>1 DEF MaintInv, RequestsAreReal, FailedOf, StillFailed
<1>14. QED
  BY <1>6, <1>7, <1>11, <1>12, <1>13 DEF MaintInv

\* What happens without a request.
LEMMA OrdinaryStep ==
  ASSUME MaintInv,
         \/ \E i \in DOMAIN request : BeginRetry(i) \/ AbortRetry(i)
         \/ \E r \in DOMAIN runs :
              \/ QueueExhausted(r) \/ RecordDeadLetter(r) \/ RunCompletes(r)
              \/ \E why \in {"model", "other"} : RunFails(r, why)
         \/ \E class \in Classes : SomethingAudited(class)
         \/ DayPasses
         \/ UNCHANGED maintVars
  PROVE  MaintInv'
<1>1. /\ request' = request /\ gone' = gone /\ resolving' \subseteq DOMAIN request
      /\ \A i \in resolving' : /\ request[i].kind = "retry" /\ request[i].status = "pending"
                               /\ FailedOf(dead[request[i].about], "queue")
      /\ day' \in 0 .. LastDay
  <2>1. CASE UNCHANGED <<request, gone, resolving, day>>
    BY <2>1 DEF MaintInv, MaintTyped, RequestsAreReal
  <2>2. ASSUME NEW i \in DOMAIN request, BeginRetry(i) \/ AbortRetry(i)
        PROVE  /\ UNCHANGED <<request, gone, day>> /\ resolving' \subseteq DOMAIN request
               /\ \A j \in resolving' :
                    /\ request[j].kind = "retry" /\ request[j].status = "pending"
                    /\ FailedOf(dead[request[j].about], "queue")
    BY <2>2 DEF MaintInv, MaintTyped, RequestsAreReal, BeginRetry, AbortRetry, Pending, Retryable
  <2>3. CASE DayPasses
    BY <2>3, MaintenanceAssumption DEF DayPasses, MaintInv, MaintTyped, RequestsAreReal
  <2>4. QED
    BY <2>1, <2>2, <2>3
       DEF MaintInv, MaintTyped, QueueExhausted, RecordDeadLetter, RunCompletes, RunFails,
           SomethingAudited, maintVars
<1>2. SameConfirmed("retention") /\ SameConfirmed("retry") /\ SameConfirmed("repair")
  BY <1>1 DEF SameConfirmed, Consumed
<1>3. LogGrows
  <2>1. UNCHANGED log \/ \E class \in Classes : Audit(class)
    BY DEF BeginRetry, AbortRetry, QueueExhausted, RecordDeadLetter, RunCompletes, RunFails,
           SomethingAudited, DayPasses, maintVars, Classes
  <2>2. QED
    BY <2>1, AuditGrows DEF MaintInv, MaintTyped, LogGrows
<1>4. RunsStay /\ LateStay
  <2>1. ASSUME NEW r \in DOMAIN runs, NEW s \in {"failed", "completed"},
               NEW why \in {"none"} \cup Errors, Ends(r, s, why)
        PROVE  RunsStay /\ LateStay
    <3> DEFINE new == [runs[r] EXCEPT !.status = s, !.why = why, !.ended = @ + 1]
    <3>1. /\ runs[r] \in TaskRun /\ runs[r].status = "queued"
          /\ runs[r].ended = 0 /\ runs[r].late = 0
      BY <2>1 DEF MaintInv, MaintTyped, RunsAreReal, Ends
    <3>2. /\ new \in TaskRun /\ new.of = runs[r].of /\ new.via = runs[r].via
          /\ new.status # "queued" /\ new.ended = 1 /\ new.late = 0
      <4>1. why \in {"none"} \cup Errors /\ s \in {"queued", "failed", "completed"} /\ s # "queued"
        OBVIOUS
      <4>2. new.of = runs[r].of /\ new.via = runs[r].via /\ new.status = s
            /\ new.ended = 1 /\ new.late = 0
        BY <3>1 DEF TaskRun
      <4> DEFINE named == [runs[r] EXCEPT !.status = s, !.why = why]
      <4>3. named \in TaskRun /\ named.ended = 0
        BY <3>1, <4>1 DEF TaskRun
      <4>4. new = [named EXCEPT !.ended = 1]
        BY <3>1
      <4> HIDE DEF named, new
      <4>5. new \in TaskRun
        BY <4>3, <4>4 DEF TaskRun
      <4>6. QED
        BY <4>1, <4>2, <4>5
    <3>3. runs' = [runs EXCEPT ![r] = new]
      BY <2>1 DEF Ends
    <3> HIDE DEF new
    <3>4. /\ runs' \in Seq(TaskRun) /\ DOMAIN runs' = DOMAIN runs
          /\ \A q \in DOMAIN runs : runs'[q] = IF q = r THEN new ELSE runs[q]
      BY <3>2, <3>3 DEF MaintInv, MaintTyped
    <3>5. RunsStay
      BY <3>1, <3>2, <3>4 DEF RunsStay
    <3>6. LateStay
      BY <3>1, <3>2, <3>4 DEF MaintInv, RepairsAreConfirmed, RepairedAsConfirmed, LateStay
    <3>7. QED
      BY <3>5, <3>6
  <2>2. CASE UNCHANGED runs
    BY <2>2 DEF MaintInv, MaintTyped, RepairsAreConfirmed, RepairedAsConfirmed, RunsStay, LateStay
  <2>3. QED
    BY <2>1, <2>2
       DEF BeginRetry, AbortRetry, QueueExhausted, RecordDeadLetter, RunCompletes, RunFails,
           SomethingAudited, DayPasses, maintVars, Errors
<1>5. DeadGrow /\ \A d \in DOMAIN dead' : dead'[d] \in DOMAIN runs
  <2>1. CASE UNCHANGED dead
    BY <2>1 DEF MaintInv, MaintTyped, DeadGrow
  <2>2. ASSUME NEW r \in DOMAIN runs, dead' = Append(dead, r)
        PROVE  DeadGrow /\ \A d \in DOMAIN dead' : dead'[d] \in DOMAIN runs
    <3>1. dead \in Seq(Nat) /\ r \in Nat /\ \A d \in DOMAIN dead : dead[d] \in DOMAIN runs
      BY DEF MaintInv, MaintTyped
    <3>2. QED
      BY <2>2, <3>1 DEF DeadGrow
  <2>3. QED
    BY <2>1, <2>2
       DEF BeginRetry, AbortRetry, QueueExhausted, RecordDeadLetter, RunCompletes, RunFails,
           SomethingAudited, DayPasses, maintVars
<1>6. /\ parent' \in [status : {"running", "failed", "completed"}, active : Nat]
      /\ parent'.active = parent.active
  <2>1. parent \in [status : {"running", "failed", "completed"}, active : Nat]
    BY DEF MaintInv, MaintTyped
  <2>2. ASSUME NEW r, NEW s \in {"failed", "completed"}, NEW why, Ends(r, s, why)
        PROVE  /\ parent' \in [status : {"running", "failed", "completed"}, active : Nat]
               /\ parent'.active = parent.active
    BY <2>1, <2>2 DEF Ends
  <2>3. CASE UNCHANGED parent
    BY <2>1, <2>3
  <2>4. QED
    BY <2>2, <2>3
       DEF BeginRetry, AbortRetry, QueueExhausted, RecordDeadLetter, RunCompletes, RunFails,
           SomethingAudited, DayPasses, maintVars
<1>7. NothingGoesUnconfirmed' /\ gone' \subseteq DOMAIN log'
  BY <1>1, <1>2, <1>3, RetentionKept DEF MaintInv
<1>8. RepairsAreConfirmed' /\ RunsAreReal'
  BY <1>2, <1>4, <1>5, RepairsKept DEF MaintInv
<1>9. MaintTyped'
  <2>1. request' \in Seq(Request) /\ resolving' \subseteq DOMAIN request'
    BY <1>1 DEF MaintInv, MaintTyped
  <2>2. parent'.active \in DOMAIN runs' /\ \A d \in DOMAIN dead' : dead'[d] \in DOMAIN runs'
    BY <1>4, <1>5, <1>6 DEF MaintInv, MaintTyped, RunsStay
  <2>3. log' \in Seq(LogRow) /\ runs' \in Seq(TaskRun) /\ dead' \in Seq(Nat)
    BY <1>3, <1>4, <1>5 DEF LogGrows, RunsStay, DeadGrow
  <2>4. QED
    BY <1>1, <1>6, <1>7, <2>1, <2>2, <2>3 DEF MaintTyped
<1>10. RequestsAreReal'
  <2>1. ASSUME NEW i \in resolving' PROVE StillFailed(dead'[request'[i].about], "queue")
    <3>1. /\ i \in DOMAIN request /\ request[i].kind = "retry"
          /\ FailedOf(dead[request[i].about], "queue")
      BY <1>1
    <3>2. request[i].about \in DOMAIN dead /\ dead[request[i].about] \in DOMAIN runs
      BY <3>1 DEF MaintInv, MaintTyped, RequestsAreReal
    <3>3. dead'[request[i].about] = dead[request[i].about]
      BY <1>5, <3>2 DEF DeadGrow
    <3>4. QED
      BY <1>1, <1>4, <3>1, <3>2, <3>3 DEF FailedOf, StillFailed, RunsStay
  <2>2. QED
    BY <1>1, <1>4, <1>5, <2>1 DEF MaintInv, RequestsAreReal, RunsStay, DeadGrow, FailedOf, StillFailed
<1>11. QED
  BY <1>7, <1>8, <1>9, <1>10 DEF MaintInv

\* Every step keeps the account of what is gone and of what was made again.
LEMMA MaintStep == MaintInv /\ [MaintNext]_maintVars => MaintInv'
<1> SUFFICES ASSUME MaintInv, [MaintNext]_maintVars PROVE MaintInv'
  OBVIOUS
<1>1. ASSUME NEW policy \in Policies, CreateRetentionRequest(policy) PROVE MaintInv'
  <2> DEFINE about == [policy |-> policy, rows |-> Candidates(day, policy)]
  <2>1. about \in Snapshot
    <3>1. Candidates(day, policy) \subseteq DOMAIN log /\ DOMAIN log \subseteq Nat
      BY CandidatesOutlived DEF MaintInv, MaintTyped
    <3>2. QED
      BY <3>1 DEF Snapshot
  <2>2. /\ Ask("retention", about, "permanent")
        /\ UNCHANGED <<day, gone, resolving, runs, parent, dead>>
    BY <1>1 DEF CreateRetentionRequest
  <2> HIDE DEF about
  <2>3. QED
    BY <2>1, <2>2, AskStep DEF Classes
<1>2. ASSUME NEW d \in DOMAIN dead, CreateRetryRequest(d) PROVE MaintInv'
  <2>1. d \in Nat
    BY DEF MaintInv, MaintTyped
  <2>2. QED
    BY <1>2, <2>1, AskStep DEF CreateRetryRequest, Classes
<1>3. ASSUME NEW r \in DOMAIN runs, CreateRepairRequest(r) PROVE MaintInv'
  <2>1. r \in Nat
    BY DEF MaintInv, MaintTyped
  <2>2. QED
    BY <1>3, <2>1, AskStep DEF CreateRepairRequest, Classes
<1>4. ASSUME NEW i \in DOMAIN request,
             Deny(i) \/ Expire(i) \/ ApplyRetention(i) \/ ApplyRepair(i) \/ CommitRetry(i)
      PROVE  MaintInv'
  BY <1>4, CloseStep, RetentionStep, RepairStep, RetryStep
<1>5. QED
  BY <1>1, <1>2, <1>3, <1>4, OrdinaryStep, StepRetryStep DEF MaintNext

\* What is gone and what was made again is accounted for, in every reachable state.
THEOREM MaintInvariant == MaintSpec => []MaintInv
BY MaintInitInv, MaintStep, PTL DEF MaintSpec

\* Types of the log, of the requests and of what they are about.
THEOREM MaintTypeCorrect == MaintSpec => []MaintTypeOK
<1>1. MaintInv => MaintTypeOK
  <2> SUFFICES ASSUME MaintInv PROVE MaintTypeOK
    OBVIOUS
  <2>1. \A i \in DOMAIN request : request[i] \in Request
    BY DEF MaintInv, MaintTyped
  <2>2. \A r \in DOMAIN runs : runs[r] \in TaskRun
    BY DEF MaintInv, MaintTyped
  <2>3. QED
    BY <2>1, <2>2 DEF MaintInv, MaintTyped, MaintTypeOK, Request, TaskRun, LogRow
<1>2. QED
  BY <1>1, MaintInvariant, PTL

\* The audit rows that are gone are those of confirmed snapshots, whole, each confirmed
\* once and outlived when its deletion was asked for (audit/service.py:536, :439).
THEOREM GoneIsConfirmed == MaintSpec => []NothingGoesUnconfirmed
<1>1. MaintInv => NothingGoesUnconfirmed
  BY DEF MaintInv
<1>2. QED
  BY <1>1, MaintInvariant, PTL

\* A later terminal event, and the replacement of a run of the dead-letter queue, has a
\* confirmed request of its own, and every confirmed request has made one; the run that a
\* recoverable model error ended has one replacement at most; no run ends twice
\* (runs/service.py:206, :381, :567).
THEOREM MadeIsConfirmed == MaintSpec => []RepairsAreConfirmed
<1>1. MaintInv => RepairsAreConfirmed
  BY DEF MaintInv
<1>2. QED
  BY <1>1, MaintInvariant, PTL

-----------------------------------------------------------------------------
(* How often a run can be replaced.  A request is found again by what it is *)
(* about, so a record of the dead-letter queue has one request at most.     *)

AskedOnce ==
  \A i, j \in DOMAIN request :
    /\ request[i].kind = "retry" /\ request[j].kind = "retry"
    /\ request[i].about = request[j].about
    => i = j

Replacements == {r \in DOMAIN runs : runs[r].via = "record"}

\* Each run that replaces one of the dead-letter queue has a record of that run to itself.
RecordsAreUsedOnce ==
  \E record \in [Replacements -> DOMAIN dead] :
    /\ \A r \in Replacements : dead[record[r]] = runs[r].of
    /\ \A r, s \in Replacements : record[r] = record[s] => r = s

\* No job was moved to the dead-letter queue twice.
RecordedOnce == \A c, d \in DOMAIN dead : dead[c] = dead[d] => c = d

\* Requests that keep their kind and what they are about stay the only ones.
LEMMA SameRequests ==
  ASSUME AskedOnce, DOMAIN request' = DOMAIN request,
         \A i \in DOMAIN request : request'[i].kind = request[i].kind
                                   /\ request'[i].about = request[i].about
  PROVE  AskedOnce'
BY DEF AskedOnce

\* A request of another kind, or about something nobody has asked for, may be added.
LEMMA AskedStaysOnce ==
  ASSUME MaintInv, AskedOnce, NEW kind \in {"retention", "retry", "repair"},
         NEW about \in Snapshot \cup Nat, NEW class \in Classes, Ask(kind, about, class),
         kind = "retry" => Asked(kind, about) = {}
  PROVE  AskedOnce'
<1> DEFINE n == Len(request) + 1
<1>1. /\ DOMAIN request' = DOMAIN request \cup {n}
      /\ \A i \in DOMAIN request : request'[i] = request[i]
      /\ request'[n].kind = kind /\ request'[n].about = about
  BY AskedIsOpen DEF MaintInv
<1>2. kind = "retry" => \A i \in DOMAIN request :
                          ~(request[i].kind = kind /\ request[i].about = about)
  BY DEF Asked
<1> HIDE DEF n
<1>3. QED
  BY <1>1, <1>2 DEF AskedOnce

\* Every step but a new request leaves the requests what they are about.
LEMMA OnceStep == MaintInv /\ AskedOnce /\ [MaintNext]_maintVars => AskedOnce'
<1> SUFFICES ASSUME MaintInv, AskedOnce, [MaintNext]_maintVars PROVE AskedOnce'
  OBVIOUS
<1>1. ASSUME NEW policy \in Policies, CreateRetentionRequest(policy) PROVE AskedOnce'
  <2> DEFINE about == [policy |-> policy, rows |-> Candidates(day, policy)]
  <2>1. about \in Snapshot
    <3>1. Candidates(day, policy) \subseteq DOMAIN log /\ DOMAIN log \subseteq Nat
      BY CandidatesOutlived DEF MaintInv, MaintTyped
    <3>2. QED
      BY <3>1 DEF Snapshot
  <2>2. Ask("retention", about, "permanent")
    BY <1>1 DEF CreateRetentionRequest
  <2> HIDE DEF about
  <2>3. QED
    BY <2>1, <2>2, AskedStaysOnce DEF Classes
<1>2. ASSUME NEW d \in DOMAIN dead, CreateRetryRequest(d) PROVE AskedOnce'
  <2>1. d \in Nat
    BY DEF MaintInv, MaintTyped
  <2>2. Ask("retry", d, "extended") /\ Asked("retry", d) = {}
    BY <1>2 DEF CreateRetryRequest
  <2>3. QED
    BY <2>1, <2>2, AskedStaysOnce DEF Classes
<1>3. ASSUME NEW r \in DOMAIN runs, CreateRepairRequest(r) PROVE AskedOnce'
  <2>1. r \in Nat
    BY DEF MaintInv, MaintTyped
  <2>2. Ask("repair", r, "permanent")
    BY <1>3 DEF CreateRepairRequest
  <2>3. QED
    BY <2>1, <2>2, AskedStaysOnce DEF Classes
<1>4. ASSUME NEW i \in DOMAIN request, Deny(i) \/ Expire(i) PROVE AskedOnce'
  <2>1. PICK s \in {"denied", "expired"} : request' = [request EXCEPT ![i].status = s]
    BY <1>4 DEF Deny, Expire
  <2>2. request[i].status = "pending"
    BY <1>4 DEF Deny, Expire, Pending
  <2>3. QED
    BY <2>1, <2>2, StatusOnly, SameRequests DEF MaintInv
<1>5. ASSUME NEW i \in DOMAIN request, NEW made \in Nat, Confirm(i, made),
             request[i].status = "pending"
      PROVE  AskedOnce'
  BY <1>5, ConfirmedJoins, SameRequests DEF MaintInv
<1>6. ASSUME NEW i \in DOMAIN request, ApplyRetention(i) PROVE AskedOnce'
  <2>1. Confirm(i, 0) /\ request[i].status = "pending"
    BY <1>6 DEF ApplyRetention, Pending, Deletes
  <2>2. QED
    BY <1>5, <2>1
<1>7. ASSUME NEW i \in DOMAIN request, ApplyRepair(i) PROVE AskedOnce'
  <2>1. /\ Confirm(i, request[i].about) /\ request[i].kind = "repair"
        /\ request[i].status = "pending"
    BY <1>7 DEF ApplyRepair, Pending
  <2>2. request[i].about \in Nat
    BY <2>1 DEF MaintInv, MaintTyped, RequestsAreReal
  <2>3. QED
    BY <1>5, <2>1, <2>2
<1>8. ASSUME NEW i \in DOMAIN request, CommitRetry(i) PROVE AskedOnce'
  <2>1. Confirm(i, Len(runs) + 1) /\ i \in resolving
    BY <1>8 DEF CommitRetry
  <2>2. request[i].status = "pending" /\ Len(runs) + 1 \in Nat
    BY <2>1 DEF MaintInv, MaintTyped, RequestsAreReal
  <2>3. QED
    BY <1>5, <2>1, <2>2
<1>9. CASE UNCHANGED request
  BY <1>9, SameRequests
<1>10. ASSUME NEW i \in DOMAIN request, BeginRetry(i) \/ AbortRetry(i) PROVE AskedOnce'
  <2>1. UNCHANGED request
    BY <1>10 DEF BeginRetry, AbortRetry
  <2>2. QED
    BY <1>9, <2>1
<1>11. ASSUME NEW r \in DOMAIN runs,
              \/ QueueExhausted(r) \/ RecordDeadLetter(r) \/ RunCompletes(r) \/ RetryFailedStep(r)
              \/ \E why \in {"model", "other"} : RunFails(r, why)
       PROVE  AskedOnce'
  <2>1. UNCHANGED request
    BY <1>11 DEF QueueExhausted, RecordDeadLetter, RunCompletes, RetryFailedStep, RunFails
  <2>2. QED
    BY <1>9, <2>1
<1>12. ASSUME NEW class \in Classes, SomethingAudited(class) PROVE AskedOnce'
  BY <1>9, <1>12 DEF SomethingAudited
<1>13. CASE DayPasses \/ UNCHANGED maintVars
  BY <1>9, <1>13 DEF DayPasses, maintVars
<1>14. QED
  BY <1>1, <1>2, <1>3, <1>4, <1>6, <1>7, <1>8, <1>10, <1>11, <1>12, <1>13 DEF MaintNext

\* Nobody asks twice for the retry of one record, in whatever state the first request is
\* (runs/service.py:749).
THEOREM RetryAskedOnce == MaintSpec => []AskedOnce
<1>1. MaintInit => AskedOnce
  BY DEF MaintInit, AskedOnce
<1>2. QED
  BY <1>1, MaintInvariant, OnceStep, PTL DEF MaintSpec

\* What a request that is confirmed is about is the record of its replacement run.
LEMMA RecordsOfRequests == MaintInv /\ AskedOnce => RecordsAreUsedOnce
<1> SUFFICES ASSUME MaintInv, AskedOnce PROVE RecordsAreUsedOnce
  OBVIOUS
<1> DEFINE Made(r, i) == request[i].made = r /\ dead[request[i].about] = runs[r].of
           by == [r \in Replacements |-> CHOOSE i \in Consumed("retry") : Made(r, i)]
           record == [r \in Replacements |-> request[by[r]].about]
<1>1. \A r \in Replacements : \E i \in Consumed("retry") : Made(r, i)
  BY DEF MaintInv, RepairsAreConfirmed, ReplacedAsConfirmed, Replacements
<1>2. \A r \in Replacements : by[r] \in Consumed("retry") /\ Made(r, by[r])
  BY <1>1
<1> HIDE DEF by
<1>3. ASSUME NEW r \in Replacements
      PROVE  /\ by[r] \in DOMAIN request /\ request[by[r]].kind = "retry"
             /\ request[by[r]].about \in DOMAIN dead
             /\ dead[request[by[r]].about] = runs[r].of /\ request[by[r]].made = r
  BY <1>2 DEF Consumed, MaintInv, RequestsAreReal
<1>4. ASSUME NEW r \in Replacements, NEW s \in Replacements,
             request[by[r]].about = request[by[s]].about
      PROVE  r = s
  <2>1. by[r] = by[s]
    BY <1>3, <1>4 DEF AskedOnce
  <2>2. QED
    BY <1>3, <2>1
<1>5. /\ record \in [Replacements -> DOMAIN dead]
      /\ \A r \in Replacements : dead[record[r]] = runs[r].of
      /\ \A r, s \in Replacements : record[r] = record[s] => r = s
  BY <1>3, <1>4
<1>6. QED
  BY <1>5 DEF RecordsAreUsedOnce

\* A dead-lettered run is replaced at most as often as it was recorded in the queue:
\* the lock on the request does ensure one replacement, for one record
\* (runs/service.py:567, :632).
THEOREM OneReplacementEach == MaintSpec => []RecordsAreUsedOnce
BY MaintInvariant, RetryAskedOnce, RecordsOfRequests, PTL

\* What docs/14-data-schema.md:1451 promises, at most one replacement of a run, holds
\* wherever no run was recorded twice; the record written twice is all that breaks it.
THEOREM OneReplacementIfRecordedOnce == MaintSpec => [](RecordedOnce => OneReplacement)
<1>1. MaintInv /\ RecordsAreUsedOnce => (RecordedOnce => OneReplacement)
  <2> SUFFICES ASSUME MaintInv, RecordsAreUsedOnce, RecordedOnce PROVE OneReplacement
    OBVIOUS
  <2>1. PICK record \in [Replacements -> DOMAIN dead] :
          /\ \A r \in Replacements : dead[record[r]] = runs[r].of
          /\ \A r, s \in Replacements : record[r] = record[s] => r = s
    BY DEF RecordsAreUsedOnce
  <2>2. ASSUME NEW r \in DOMAIN runs, NEW s \in DOMAIN runs,
               runs[r].of = runs[s].of, runs[r].of # 0
        PROVE  r = s
    <3>1. CASE r \in Replacements /\ s \in Replacements
      <4>1. record[r] = record[s]
        BY <2>1, <2>2, <3>1 DEF RecordedOnce
      <4>2. QED
        BY <2>1, <3>1, <4>1
    <3>2. CASE runs[r].via = "step" \/ runs[s].via = "step"
      BY <2>2, <3>2 DEF MaintInv, RepairsAreConfirmed, ReplacedByStep
    <3>3. runs[r].via # "task" /\ runs[s].via # "task"
      BY <2>2 DEF MaintInv, RunsAreReal
    <3>4. runs[r] \in TaskRun /\ runs[s] \in TaskRun
      BY DEF MaintInv, MaintTyped
    <3>5. runs[r].via \in {"task", "record", "step"} /\ runs[s].via \in {"task", "record", "step"}
      BY <3>4 DEF TaskRun
    <3>6. QED
      BY <3>1, <3>2, <3>3, <3>5 DEF Replacements
  <2>3. QED
    BY <2>2 DEF OneReplacement
<1>2. QED
  BY <1>1, MaintInvariant, OneReplacementEach, PTL

=============================================================================
