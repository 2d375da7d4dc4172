------------------------------ MODULE Memories ------------------------------
(***************************************************************************)
(* Long-term memory (agent/memory): a job per completed run, claimed by an *)
(* extractor that turns the model's answer into candidates; the user, in   *)
(* several tabs, edits, approves or rejects candidates and edits the       *)
(* memories themselves; a maintenance loop expires candidates.             *)
(*                                                                         *)
(* A candidate is identified by its run and the fact it was made from (its *)
(* deduplication_key); scope, workspace and category are part of the key.  *)
(***************************************************************************)
EXTENDS Naturals, FiniteSets

CONSTANTS
  Runs,             \* completed runs of interactive tasks
  Extractors,       \* MemoryExtractionBackgroundWorker of each process
  Tabs,             \* browser tabs of the user
  Keys,             \* keys of memories
  Contents,         \* what a memory or a candidate may say
  NoContent,        \* no such memory
  Nobody,           \* nothing shown, or nothing locked
  MaxSpecs,         \* how many facts the model may propose at once
  MaxTries,         \* attempts after which a recoverable error is final
  ClaimLimit,       \* attempts after which claim_next passes a job over
  MaxActs,          \* bound: requests of the user that change something
  MaxCrashes        \* bound: crashes of an extractor

ASSUME MemoriesAssumption ==
  /\ NoContent \notin Contents /\ Nobody \notin Runs \X (Keys \X Contents)
  /\ MaxSpecs \in Nat
  /\ MaxTries \in Nat \ {0} /\ ClaimLimit \in Nat /\ MaxTries <= ClaimLimit
  /\ MaxActs \in Nat /\ MaxCrashes \in Nat

VARIABLES
  extraction,   \* the rows of memory_extraction_jobs, by run
  candidate,    \* the rows of memory_candidates, by run and fact
  memory,       \* the rows of memories, by key
  extractor,    \* per extractor: where process_next is
  tab,          \* per tab: the candidate it shows, and its approval under way
  memUsed       \* how much of each bound is used up

memVars == <<extraction, candidate, memory, extractor, tab, memUsed>>

Facts == Keys \X Contents
Candidates == Runs \X Facts

NoCandidate(c) == [status |-> "none", fact |-> c[2], version |-> 0, due |-> FALSE]
Asleep == [at |-> "idle", run |-> Nobody, tries |-> 0, specs |-> {}, fact |-> Nobody]
NoMemory == [content |-> NoContent, active |-> FALSE, id |-> 0]
Blank == [shows |-> Nobody, version |-> 0, fact |-> Nobody, at |-> "reading",
          read |-> NoMemory]

\* agent.run.completed has created the jobs, in the transaction that ends the run.
MemInit ==
  /\ extraction = [r \in Runs |-> [status |-> "queued", attempts |-> 0,
                                   retry |-> FALSE, stale |-> FALSE]]
  /\ candidate = [c \in Candidates |-> NoCandidate(c)]
  /\ memory = [k \in Keys |-> NoMemory]
  /\ extractor = [x \in Extractors |-> Asleep]
  /\ tab = [t \in Tabs |-> Blank]
  /\ memUsed = [acts |-> 0, crashes |-> 0]

-----------------------------------------------------------------------------
(* The extractor: MemoryExtractionApplicationService.process_next.          *)

ClaimDue(r) ==
  \/ extraction[r].status = "queued"
  \/ extraction[r].status = "failed" /\ extraction[r].retry
  \/ extraction[r].status = "running" /\ extraction[r].stale

ClaimExtraction(x, r) ==
  /\ extractor[x] = Asleep
  /\ ClaimDue(r) /\ extraction[r].attempts < ClaimLimit
  /\ extraction' = [extraction EXCEPT ![r] = [status |-> "running",
       attempts |-> @.attempts + 1, retry |-> FALSE, stale |-> FALSE]]
  /\ extractor' = [extractor EXCEPT ![x] = [Asleep EXCEPT !.at = "extracting",
       !.run = r, !.tries = extraction[r].attempts + 1]]
  /\ UNCHANGED <<candidate, memory, tab, memUsed>>

\* _load_input reads the active memories; a spec about one of their keys is
\* passed over.  What else the model proposes is open.
Extract(x) ==
  /\ extractor[x].at = "extracting"
  /\ \E specs \in SUBSET {f \in Facts : ~memory[f[1]].active} :
       /\ Cardinality(specs) <= MaxSpecs
       /\ extractor' = [extractor EXCEPT ![x].at = "proposing", ![x].specs = specs]
  /\ UNCHANGED <<extraction, candidate, memory, tab, memUsed>>

\* create_candidate reads the memory and the pending candidates with the key ...
Duplicate(f) ==
  \/ memory[f[1]].content = f[2]
  \/ \E r \in Runs : candidate[<<r, f>>].status = "pending"

Propose(x, f) ==
  /\ extractor[x].at = "proposing" /\ f \in extractor[x].specs
  /\ extractor' = [extractor EXCEPT ![x].specs = @ \ {f},
                     ![x].at = IF Duplicate(f) THEN "proposing" ELSE "inserting",
                     ![x].fact = IF Duplicate(f) THEN Nobody ELSE f]
  /\ UNCHANGED <<extraction, candidate, memory, tab, memUsed>>

\* ... and inserts: one row per run and key, one pending row per key, by the
\* unique indexes; a conflict is swallowed.
Insertable(c) ==
  /\ candidate[c].status = "none"
  /\ \A r \in Runs : candidate[<<r, c[2]>>].status # "pending"

InsertCandidate(x) ==
  LET c == <<extractor[x].run, extractor[x].fact>>
  IN /\ extractor[x].at = "inserting"
     /\ candidate' = IF Insertable(c)
                       THEN [candidate EXCEPT ![c].status = "pending", ![c].version = 1]
                       ELSE candidate
     /\ extractor' = [extractor EXCEPT ![x].at = "proposing", ![x].fact = Nobody]
     /\ UNCHANGED <<extraction, memory, tab, memUsed>>

\* mark_completed and mark_failed lock the row but do not ask who claimed it.
CompleteExtraction(x) ==
  /\ extractor[x].at = "proposing" /\ extractor[x].specs = {}
  /\ extraction' = [extraction EXCEPT ![extractor[x].run].status = "completed",
                                      ![extractor[x].run].stale = FALSE,
                                      ![extractor[x].run].retry = FALSE]
  /\ extractor' = [extractor EXCEPT ![x] = Asleep]
  /\ UNCHANGED <<candidate, memory, tab, memUsed>>

FailExtraction(x) ==
  /\ extractor[x].at # "idle"
  /\ \E recoverable \in BOOLEAN :
       extraction' = [extraction EXCEPT ![extractor[x].run].status = "failed",
         ![extractor[x].run].stale = FALSE,
         ![extractor[x].run].retry = recoverable /\ extractor[x].tries < MaxTries]
  /\ extractor' = [extractor EXCEPT ![x] = Asleep]
  /\ UNCHANGED <<candidate, memory, tab, memUsed>>

\* The job has been running for stale_after_seconds.
ExtractionStale(r) ==
  /\ extraction[r].status = "running" /\ ~extraction[r].stale
  /\ extraction' = [extraction EXCEPT ![r].stale = TRUE]
  /\ UNCHANGED <<candidate, memory, extractor, tab, memUsed>>

ExtractorCrash(x) ==
  /\ extractor[x] # Asleep /\ memUsed.crashes < MaxCrashes
  /\ memUsed' = [memUsed EXCEPT !.crashes = @ + 1]
  /\ extractor' = [extractor EXCEPT ![x] = Asleep]
  /\ UNCHANGED <<extraction, candidate, memory, tab>>

-----------------------------------------------------------------------------
(* The user's decisions: MemoryCandidateApplicationService.  A request names *)
(* the version the tab shows; any other is refused and changes nothing.      *)

\* approve reads the candidate FOR UPDATE and holds it until it commits.
Locked(c) == \E t \in Tabs : tab[t].at = "approving" /\ tab[t].shows = c

\* Faulty variant: the version the tab shows is not compared.
CurrentUnversioned(t) ==
  LET c == tab[t].shows
  IN tab[t].at = "reading" /\ c # Nobody /\ ~Locked(c) /\ candidate[c].status = "pending"
\* _pending_for_update.
Current(t) ==
  LET c == tab[t].shows
  IN /\ tab[t].at = "reading" /\ c # Nobody
     /\ ~Locked(c)
     /\ candidate[c].status = "pending" /\ candidate[c].version = tab[t].version

Acts ==
  /\ memUsed.acts < MaxActs
  /\ memUsed' = [memUsed EXCEPT !.acts = @ + 1]

Show(t, c) ==
  /\ tab[t].at = "reading" /\ candidate[c].status = "pending"
  /\ tab' = [tab EXCEPT ![t] = [Blank EXCEPT !.shows = c, !.version = candidate[c].version,
                                             !.fact = candidate[c].fact]]
  /\ UNCHANGED <<extraction, candidate, memory, extractor, memUsed>>

\* The deduplication key, and with it the identity of the row, stays.
UpdateCandidate(t) ==
  LET c == tab[t].shows
  IN /\ Current(t) /\ Acts
     /\ \E f \in Facts :
          /\ candidate' = [candidate EXCEPT ![c].fact = f, ![c].version = @ + 1]
          /\ tab' = [tab EXCEPT ![t].fact = f, ![t].version = candidate[c].version + 1]
     /\ UNCHANGED <<extraction, memory, extractor>>

Resolved(c, status) ==
  [candidate[c] EXCEPT !.status = status, !.version = @ + 1, !.due = FALSE]
Resolves(c, status) == candidate' = [candidate EXCEPT ![c] = Resolved(c, status)]

RejectCandidate(t) ==
  /\ Current(t) /\ Acts
  /\ Resolves(tab[t].shows, "rejected")
  /\ tab' = [tab EXCEPT ![t] = Blank]
  /\ UNCHANGED <<extraction, memory, extractor>>

\* approve_candidate reads the memory without a lock; another content under the
\* same key refuses the approval, a candidate that is due expires instead.
BeginApprove(t) ==
  LET c == tab[t].shows
      existing == memory[candidate[c].fact[1]]
  IN /\ Current(t) /\ Acts
     /\ \/ /\ candidate[c].due
           /\ Resolves(c, "expired")
           /\ tab' = [tab EXCEPT ![t] = Blank]
        \/ /\ ~candidate[c].due
           /\ existing.content \in {NoContent, candidate[c].fact[2]}
           /\ tab' = [tab EXCEPT ![t].at = "approving", ![t].read = existing]
           /\ UNCHANGED candidate
     /\ UNCHANGED <<extraction, memory, extractor>>

\* The commit: the key is unique and the linked memory must still exist; a
\* violation of either rolls back.
CommitApprove(t) ==
  LET c == tab[t].shows
      key == candidate[c].fact[1]
      new == tab[t].read = NoMemory
  IN /\ tab[t].at = "approving"
     /\ tab' = [tab EXCEPT ![t] = Blank]
     /\ IF memory[key].id = tab[t].read.id
          THEN /\ Resolves(c, "approved")
               /\ memory' = IF new THEN [memory EXCEPT ![key] = [active |-> TRUE,
                                  content |-> candidate[c].fact[2], id |-> memUsed.acts]]
                                   ELSE memory
          ELSE UNCHANGED <<candidate, memory>>
     /\ UNCHANGED <<extraction, extractor, memUsed>>

\* expire_due_candidates, skipping the locked ones.
ExpireDue ==
  LET due == {c \in Candidates :
                candidate[c].status = "pending" /\ candidate[c].due /\ ~Locked(c)}
  IN /\ due # {}
     /\ candidate' = [c \in Candidates |->
          IF c \in due THEN Resolved(c, "expired") ELSE candidate[c]]
     /\ UNCHANGED <<extraction, memory, extractor, tab, memUsed>>

BecomesDue(c) ==
  /\ candidate[c].status = "pending" /\ ~candidate[c].due
  /\ candidate' = [candidate EXCEPT ![c].due = TRUE]
  /\ UNCHANGED <<extraction, memory, extractor, tab, memUsed>>

-----------------------------------------------------------------------------
(* The user's own memories: MemoryApplicationService.                        *)

CreateMemory(k) ==
  /\ memory[k] = NoMemory /\ Acts
  /\ \E content \in Contents :
       memory' = [memory EXCEPT ![k] = [active |-> TRUE, content |-> content,
                                        id |-> memUsed.acts + 1]]
  /\ UNCHANGED <<extraction, candidate, extractor, tab>>

UpdateMemory(k) ==
  /\ memory[k] # NoMemory /\ Acts
  /\ \E content \in Contents, active \in BOOLEAN :
       memory' = [memory EXCEPT ![k].content = content, ![k].active = active]
  /\ UNCHANGED <<extraction, candidate, extractor, tab>>

DeleteMemory(k) ==
  /\ memory[k] # NoMemory /\ Acts
  /\ memory' = [memory EXCEPT ![k] = NoMemory]
  /\ UNCHANGED <<extraction, candidate, extractor, tab>>

-----------------------------------------------------------------------------

Extracts(x) ==
  \/ \E r \in Runs : ClaimExtraction(x, r)
  \/ Extract(x) \/ InsertCandidate(x) \/ CompleteExtraction(x) \/ FailExtraction(x)
  \/ \E f \in Facts : Propose(x, f)

Decides(t) ==
  \/ UpdateCandidate(t) \/ RejectCandidate(t) \/ BeginApprove(t)
  \/ \E c \in Candidates : Show(t, c)

MemNext ==
  \/ \E x \in Extractors : Extracts(x) \/ ExtractorCrash(x)
  \/ \E r \in Runs : ExtractionStale(r)
  \/ \E t \in Tabs : Decides(t) \/ CommitApprove(t)
  \/ \E c \in Candidates : BecomesDue(c)
  \/ ExpireDue
  \/ \E k \in Keys : CreateMemory(k) \/ UpdateMemory(k) \/ DeleteMemory(k)

\* The loops go on, a model call times out, and time passes.
MemFairness ==
  /\ \A x \in Extractors : WF_memVars(Extracts(x))
  /\ WF_memVars(\E r \in Runs : ExtractionStale(r))

MemSpec == MemInit /\ [][MemNext]_memVars /\ MemFairness

-----------------------------------------------------------------------------
(* Properties.                                                               *)

JobRow == [status : {"queued", "running", "completed", "failed"},
           attempts : 0..ClaimLimit, retry : BOOLEAN, stale : BOOLEAN]
CandidateRow == [status : {"none", "pending", "approved", "rejected", "expired"},
                 fact : Facts, version : Nat, due : BOOLEAN]
MemoryRow == [content : Contents \cup {NoContent}, active : BOOLEAN, id : Nat]
ExtractorState ==
  [at : {"idle", "extracting", "proposing", "inserting"}, run : Runs \cup {Nobody},
   tries : 0..ClaimLimit, specs : SUBSET Facts, fact : Facts \cup {Nobody}]
TabState ==
  [shows : Candidates \cup {Nobody}, version : Nat, fact : Facts \cup {Nobody},
   at : {"reading", "approving"}, read : MemoryRow]

MemTypeOK ==
  /\ extraction \in [Runs -> JobRow]
  /\ candidate \in [Candidates -> CandidateRow]
  /\ memory \in [Keys -> MemoryRow]
  /\ extractor \in [Extractors -> ExtractorState]
  /\ tab \in [Tabs -> TabState]
  /\ memUsed \in [acts : 0..MaxActs, crashes : 0..MaxCrashes]

\* A candidate is decided once, and an approval writes what the approving tab
\* shows: no edit made elsewhere, no memory made meanwhile is approved unseen
\* (candidate_service.py:382, :324; docs/07-context-memory-design.md:200).
DecidedAsSeen(c) ==
  \/ candidate[c].status = "none"
  \/ /\ candidate[c].status = "pending"
     /\ candidate'[c].status = "approved" =>
          /\ \E t \in Tabs : /\ tab[t].at = "approving" /\ tab[t].shows = c
                            /\ tab[t].fact = candidate[c].fact
          /\ LET key == candidate[c].fact[1]
             IN memory[key] = NoMemory => memory'[key].content = candidate[c].fact[2]

DecidedOnceAsSeen ==
  [][\A c \in Candidates : candidate'[c] # candidate[c] => DecidedAsSeen(c)]_memVars

\* Every job ends for good, though extractors may be slow or die, unless all its
\* claims are used up; such a job may stay as it is for ever, running or waiting
\* for a retry (candidate_postgres_repository.py:243), though
\* docs/07-context-memory-design.md:224 promises that a running job is recovered.
Over(r) ==
  \/ extraction[r].status = "completed"
  \/ extraction[r].status = "failed" /\ ~extraction[r].retry
=============================================================================
