----------------------------- MODULE AgentLoop -----------------------------
(***************************************************************************)
(* The agent loop of one task: intent, model calls, validation, tools and  *)
(* observations; what it keeps in memory and what it makes durable; and    *)
(* what a crash, a pause, an approval or a retry of a failed step finds.   *)
(*                                                                         *)
(* A node that has a publish callback makes its events durable at once.    *)
(* Every other event waits in `buf` and is published, in order, when the   *)
(* loop has ended.  An event may carry a checkpoint; recording it replaces *)
(* the stored one.                                                         *)
(*                                                                         *)
(* Abstractions.  A tool has one set of arguments.  Time is not modelled:  *)
(* the deadline may pass at any check.  Events that carry no checkpoint    *)
(* and end nothing are left out.  `running` stands for pause_requested and *)
(* cancel_requested, too.  The source-chain validator is not modelled: the *)
(* product does not install it.  A requirement that several tools can meet *)
(* is one tool.                                                            *)
(***************************************************************************)
EXTENDS Integers, Sequences, FiniteSets

CONSTANTS
  Effects,         \* tools that change the workspace
  Sources,         \* tools that retrieve evidence, each from a domain of its own
  Readers,         \* those of them that look at the workspace
  Stores,          \* tools that store knowledge
  CreateFile, CreateDocument, \* one of Effects and one of Stores
  Asking,          \* tools that need the user's approval
  Goals,           \* what users ask for
  MaxIterations,   \* RunBudget.max_tool_iterations
  MaxModelCalls,   \* RunBudget.max_model_calls
  MaxAttempts,     \* MAX_RUN_RECOVERY_ATTEMPTS
  MaxCrashes, MaxStops, MaxReplacements, \* bounds
  LateCheckpoints  \* may a run be interrupted or retried although a checkpoint
                   \* of its loop is, or was, published late?

Tools == Effects \cup Sources \cup Stores
Finish == "finish"
NoTool == "none"

Goal == [required  : SUBSET Tools, \* tools that must have succeeded
         exclusive : BOOLEAN,      \* one file may be changed and no other
         transform : BOOLEAN,      \* rewrites the last answer: no tools
         unclear   : BOOLEAN,      \* which file to change is not clear
         host      : {"lets", "refuses", "asks"}, \* the host answers for the model: a
                                   \* secret is to be stored; which document is meant?
         ifAbsent  : SUBSET Effects,  \* required unless the target file is there
         byIntent  : SUBSET Sources]  \* required by the intent and not by name

ASSUME LoopAssumption ==
  /\ Effects \cap Sources = {} /\ Stores \cap (Effects \cup Sources) = {}
  /\ Asking \subseteq Tools /\ Readers \subseteq Sources
  /\ CreateFile \in Effects /\ CreateDocument \in Stores
  /\ Finish \notin Tools /\ NoTool \notin Tools
  /\ Goals \subseteq Goal
  /\ {MaxIterations, MaxModelCalls, MaxAttempts} \subseteq Nat
  /\ {MaxCrashes, MaxStops, MaxReplacements} \subseteq Nat
  /\ LateCheckpoints \in BOOLEAN

VARIABLES
  goal,   \* the user's goal
  row,    \* of the run: status, checkpoint, checkpoint of the permission request
  loop,   \* the worker's memory: node, AgentState, proposed call, tool result;
          \* direct: with a publish callback; approved: continues a permission
  buf,    \* produced events that are not published yet
  past,   \* history: tools run, provider calls made, was a checkpoint replaced by
          \* an older one?
  spent   \* how much of each bound is used up

loopVars == <<goal, row, loop, buf, past, spent>>

(***************************************************************************)
(* AgentState: intent and its rejections; model calls used; observations;  *)
(* effect guard rejections and feedback; answer rewrites; malformed        *)
(* outputs; the reason of the last stop decision; recovery attempts.       *)
(***************************************************************************)
FreshState == [intent |-> "none", rejected |-> 0, used |-> 0, obs |-> <<>>,
               guard |-> 0, feedback |-> FALSE, rewrites |-> 0, malformed |-> 0,
               last |-> "none", attempts |-> 0]

Saved(node, st, call) == [node |-> node, st |-> st, call |-> call]
NoCheckpoint == Saved("none", FreshState, NoTool)

LoopNodes == {"extract_intent", "call_model", "validate_action", "execute_tool"}
Retryable == {"extract_intent", "call_model"}

Off == [at |-> "off", st |-> FreshState, call |-> NoTool, result |-> "none",
        direct |-> FALSE, approved |-> FALSE]
RunFrom(ckpt) == [Off EXCEPT !.at = ckpt.node, !.st = ckpt.st, !.call = ckpt.call,
                             !.direct = TRUE]

Event(kind, ckpt) == [kind |-> kind, ckpt |-> ckpt, retry |-> FALSE]
Step(node, st, call) == Event("step", Saved(node, st, call))

---------------------------------------------------------------------------
(* What recording an event does to the run. *)
Recorded(r, e) ==
  CASE e.kind = "step" -> [r EXCEPT !.saved = e.ckpt]
    [] e.kind = "paused" -> [r EXCEPT !.status = "paused", !.saved = e.ckpt]
    [] e.kind = "permission" -> [r EXCEPT !.status = "waiting", !.wait = e.ckpt]
    [] e.kind = "failed" ->
         [r EXCEPT !.status = "failed",
                   !.saved = IF e.retry /\ r.saved.node \in Retryable
                             THEN r.saved ELSE NoCheckpoint]
    [] OTHER -> [r EXCEPT !.status = e.kind, !.saved = NoCheckpoint]

\* Published at once if there is a callback, else with the rest.
PublishNow(e) ==
  IF loop.direct THEN row' = Recorded(row, e) /\ UNCHANGED buf
                 ELSE buf' = Append(buf, e) /\ UNCHANGED row
Later(e) == buf' = Append(buf, e) /\ UNCHANGED row
Silent == UNCHANGED <<row, buf>>

Goto(node, st, call) ==
  loop' = [loop EXCEPT !.at = node, !.st = st, !.call = call]
PublishAndGo(node, st, call) ==
  PublishNow(Step(node, st, call)) /\ Goto(node, st, call)

CloseWith(e) == Later(e) /\ loop' = [loop EXCEPT !.at = "closing"]
Fails(retry) == CloseWith([Event("failed", NoCheckpoint) EXCEPT !.retry = retry])

RetryModel(st) == Goto("call_model", st, NoTool)

---------------------------------------------------------------------------
(* Start and intent *)

StartRun ==
  /\ row.status = "queued"
  /\ LET ckpt == Saved("extract_intent", FreshState, NoTool)
     IN /\ row' = [row EXCEPT !.status = "running", !.saved = ckpt]
        /\ loop' = RunFrom(ckpt)
  /\ UNCHANGED <<goal, buf, past, spent>>

\* before_model_call counts the call, and the started event makes the count durable
Counted(st) == [st EXCEPT !.used = @ + 1]

\* Faulty variant: the started event carries the state before the call.
CallStartsUncounted(node, calling) ==
  /\ loop.at = node /\ loop.st.used < MaxModelCalls
  /\ PublishNow(Step(node, loop.st, NoTool)) /\ Goto(calling, Counted(loop.st), NoTool)
  /\ past' = [past EXCEPT !.calls = @ + 1]
  /\ UNCHANGED <<goal, spent>>

CallStarts(node, calling) ==
  /\ loop.at = node /\ loop.st.used < MaxModelCalls
  /\ PublishNow(Step(node, Counted(loop.st), NoTool))
  /\ Goto(calling, Counted(loop.st), NoTool)
  /\ past' = [past EXCEPT !.calls = @ + 1]
  /\ UNCHANGED <<goal, spent>>

IntentCallStarts == CallStarts("extract_intent", "intent_call")

Understood(intent) == PublishAndGo("call_model", [loop.st EXCEPT !.intent = intent], NoTool)
IntentOutputInvalid ==
  IF loop.st.rejected < 1
  THEN PublishAndGo("extract_intent", [loop.st EXCEPT !.rejected = @ + 1], NoTool)
  ELSE \/ \E intent \in {"known", "unknown"} : Understood(intent)
       \/ Fails(FALSE)

IntentCallEnds ==
  /\ loop.at = "intent_call"
  /\ \/ Understood("known")
     \/ IntentOutputInvalid
     \/ \E retry \in BOOLEAN : Fails(retry)
  /\ UNCHANGED <<goal, past, spent>>

---------------------------------------------------------------------------
(* Model calls *)

Succeeded(obs) == {obs[i].tool : i \in {j \in DOMAIN obs : obs[j].ok}}
Iteration(st) == Len(st.obs)

Clarifies(st) == goal.unclear \/ st.intent = "unknown"

\* has_confirmed_workspace_target
TargetThere(obs) == \E i \in DOMAIN obs : obs[i].there

\* Required tools that need not have succeeded: the host refuses to store a secret;
\* the file that was to be created if absent is there; what the intent wanted to
\* look up is no longer asked for when something was stored.
Excused(obs) ==
  (IF goal.host = "refuses" THEN {CreateDocument} ELSE {})
  \cup (IF TargetThere(obs) THEN goal.ifAbsent ELSE {})
  \cup (IF Succeeded(obs) \cap Stores # {} THEN goal.byIntent ELSE {})

\* Faulty variant: a tool that was tried counts.
NotTried(st) ==
  IF Clarifies(st) THEN {}
  ELSE goal.required \ (Excused(st.obs) \cup {st.obs[i].tool : i \in DOMAIN st.obs})

Missing(st) ==
  IF Clarifies(st) THEN {} ELSE goal.required \ (Excused(st.obs) \cup Succeeded(st.obs))

ToolRequired(st) ==
  /\ st.rewrites = 0 /\ Iteration(st) < MaxIterations
  /\ st.guard > 0 /\ st.feedback

\* A reading task that has its evidence keeps the last two calls for its answer.
MayCloseEarly(st) ==
  /\ MaxIterations - Iteration(st) <= 2 /\ ~Clarifies(st)
  /\ goal.required \cap Readers # {} /\ goal.required \cap Effects = {}
  /\ goal.required \cap Sources \subseteq Succeeded(st.obs)

FinishOnly(st) ==
  /\ ~ToolRequired(st)
  /\ st.rewrites > 0 \/ Iteration(st) >= MaxIterations \/ MayCloseEarly(st)

Answers(st) == (IF FinishOnly(st) THEN {} ELSE Tools)
               \cup (IF ToolRequired(st) THEN {} ELSE {Finish})

ModelCallStarts == CallStarts("call_model", "model_call")

\* Every other output is malformed, and corrected once.
ModelOutputInvalid ==
  IF loop.st.malformed < 1
  THEN LET st == [loop.st EXCEPT !.malformed = @ + 1, !.feedback = TRUE]
       IN Later(Step("call_model", st, NoTool)) /\ RetryModel(st)
  ELSE Fails(FALSE)

ModelCallEnds ==
  /\ loop.at = "model_call"
  /\ \/ \E a \in Answers(loop.st) : Goto("validate_action", loop.st, a) /\ Silent
     \/ ModelOutputInvalid
     \/ \E retry \in BOOLEAN : Fails(retry)
  /\ UNCHANGED <<goal, past, spent>>

---------------------------------------------------------------------------
(* Validation *)

\* The host closes the run in place of the model: it refuses, or asks what is meant,
\* or the file that was to be created if absent is there.
HostAction(st, a) ==
  IF \/ goal.host # "lets" \/ st.intent = "unknown"
     \/ goal.unclear /\ a \notin Sources
     \/ goal.ifAbsent # {} /\ TargetThere(st.obs) /\ a = CreateFile
  THEN Finish ELSE a

\* The effect guard: insists as long as the tool budget allows.
Insist(st) ==
  IF Iteration(st) + st.guard + 1 < MaxIterations
  THEN RetryModel([st EXCEPT !.guard = @ + 1, !.feedback = TRUE]) /\ Silent
  ELSE Fails(FALSE)

\* The answer guard: one rewrite.
Rewrite(st) ==
  IF st.rewrites < 1
  THEN LET again == [st EXCEPT !.rewrites = @ + 1]
       IN Later(Step("call_model", again, NoTool)) /\ RetryModel(again)
  ELSE Fails(FALSE)

FailedRequirement(st) ==
  \E i \in DOMAIN st.obs : st.obs[i].tool \in Missing(st) /\ ~st.obs[i].ok

\* find_latest_failed_workspace_evidence, for some intent of this goal
FailedEvidence(st) ==
  \E i \in DOMAIN st.obs : st.obs[i].tool \in Effects \cup Readers /\ ~st.obs[i].ok

ValidateFinish ==
  /\ loop.at = "validate_action" /\ HostAction(loop.st, loop.call) = Finish
  /\ LET st == [loop.st EXCEPT !.last = "finish"]
     IN \/ /\ Missing(st) # {} /\ (FailedRequirement(st) \/ FailedEvidence(st))
           /\ Fails(FALSE)
        \/ Missing(st) # {} /\ ~FailedRequirement(st) /\ Insist(st)
        \/ Missing(st) = {} /\ CloseWith(Event("completed", NoCheckpoint))
        \/ Missing(st) = {} /\ Rewrite(st)
  /\ UNCHANGED <<goal, past, spent>>

Mismatch(a) ==
  LET wanted == goal.required \cap Effects
  IN a \in Effects /\ Cardinality(wanted) = 1 /\ a \notin wanted

\* Faulty variant: the scope of changes is not looked at.
ObjectionToSources(st, a) ==
  LET latest == st.obs[Len(st.obs)]
  IN IF st.obs = <<>> THEN "none"
     ELSE IF ~latest.ok /\ {latest.tool, a} \subseteq Sources /\ a # latest.tool
          THEN "SEMANTIC_SOURCE_SUBSTITUTION"
     ELSE IF latest.ok /\ latest.tool = a THEN "STRATEGY_CHANGE_REQUIRED"
     ELSE "none"

\* LoopController.evaluate_proposed_action
Objection(st, a) ==
  LET latest == st.obs[Len(st.obs)]
      changed == {i \in DOMAIN st.obs : st.obs[i].ok /\ st.obs[i].tool \in Effects}
  IN IF st.obs = <<>> THEN "none"
     ELSE IF ~latest.ok /\ {latest.tool, a} \subseteq Sources /\ a # latest.tool
          THEN "SEMANTIC_SOURCE_SUBSTITUTION"
     ELSE IF a \in Effects /\ goal.exclusive /\ Cardinality(changed) = 1
          THEN "WORKSPACE_EFFECT_SCOPE_SATISFIED"
     ELSE IF latest.ok /\ latest.tool = a THEN "STRATEGY_CHANGE_REQUIRED"
     ELSE "none"

\* _latest_repeated_failed_action
FailedBefore(st, a) ==
  \E i \in DOMAIN st.obs :
    /\ st.obs[i].tool = a /\ ~st.obs[i].ok
    /\ \A j \in DOMAIN st.obs : j > i => ~st.obs[j].ok

Verdict(st, a) ==
  IF Iteration(st) >= MaxIterations THEN "MAX_ITERATIONS"
  ELSE IF goal.transform THEN "HISTORY_TRANSFORM_TOOL_FORBIDDEN"
  ELSE IF Mismatch(a) THEN "REQUIRED_TOOL_ACTION_MISMATCH"
  ELSE IF Objection(st, a) # "none" THEN Objection(st, a)
  ELSE IF FailedBefore(st, a) THEN "REPEATED_FAILED_TOOL_ACTION"
  ELSE "allowed"

Objections == {"SEMANTIC_SOURCE_SUBSTITUTION", "WORKSPACE_EFFECT_SCOPE_SATISFIED",
               "STRATEGY_CHANGE_REQUIRED"}

ValidateCall ==
  /\ loop.at = "validate_action"
  /\ LET st == loop.st
         a == HostAction(st, loop.call)
         verdict == Verdict(st, a)
     IN /\ a # Finish
        /\ \/ verdict \in {"MAX_ITERATIONS", "REPEATED_FAILED_TOOL_ACTION"} /\ Fails(FALSE)
           \/ verdict = "HISTORY_TRANSFORM_TOOL_FORBIDDEN" /\ Rewrite(st)
           \/ verdict = "REQUIRED_TOOL_ACTION_MISMATCH" /\ Insist(st)
           \/ verdict \in Objections /\ verdict = st.last /\ Fails(FALSE)
           \/ /\ verdict \in Objections /\ verdict # st.last
              /\ RetryModel([st EXCEPT !.last = verdict, !.feedback = TRUE]) /\ Silent
           \/ verdict = "allowed" /\ PublishAndGo("execute_tool", st, a)
  /\ UNCHANGED <<goal, past, spent>>

---------------------------------------------------------------------------
(* Tools *)

\* Faulty variant: no barrier before the tool is run.
ToolStartsQuietly ==
  /\ loop.at = "execute_tool" /\ Goto("tool_in_flight", loop.st, loop.call) /\ Silent
  /\ UNCHANGED <<goal, past, spent>>

ToolStarts ==
  /\ loop.at = "execute_tool" /\ PublishAndGo("tool_in_flight", loop.st, loop.call)
  /\ UNCHANGED <<goal, past, spent>>

NeedsApproval == loop.call \in Asking /\ ~loop.approved

AskPermission ==
  /\ loop.at = "tool_in_flight" /\ NeedsApproval
  /\ CloseWith(Event("permission", Saved("permission", loop.st, loop.call)))
  /\ UNCHANGED <<goal, past, spent>>

\* "failed": the model may go on; "fatal": the error is not recoverable.  A reader may
\* have found the target file; to create it may have failed because it is there.
Results(tool) ==
  {"ok", "failed", "fatal"}
  \cup (IF goal.ifAbsent # {} /\ tool \in Readers THEN {"found"} ELSE {})
  \cup (IF goal.ifAbsent # {} /\ tool = CreateFile THEN {"exists"} ELSE {})

Result(tool, result) == [tool  |-> tool,
                         ok    |-> result \in {"ok", "found"},
                         there |-> result \in {"found", "exists"}]

ToolRuns ==
  /\ loop.at = "tool_in_flight" /\ ~NeedsApproval
  /\ \E result \in Results(loop.call) :
       /\ loop' = [loop EXCEPT !.at = "observe_result", !.result = result]
       /\ past' = [past EXCEPT !.did = Append(@, Result(loop.call, result))]
  /\ UNCHANGED <<goal, row, buf, spent>>

Observed(st) ==
  [st EXCEPT !.obs = Append(@, Result(loop.call, loop.result)),
             !.feedback = FALSE, !.last = "observed"]

Observe ==
  /\ loop.at = "observe_result"
  /\ \/ loop.result = "fatal" /\ Fails(FALSE)
     \/ /\ loop.result # "fatal" /\ PublishNow(Step("call_model", Observed(loop.st), NoTool))
        /\ loop' = [loop EXCEPT !.at = "call_model", !.st = Observed(@), !.call = NoTool,
                                !.result = "none", !.approved = FALSE]
  /\ UNCHANGED <<goal, past, spent>>

---------------------------------------------------------------------------
(* What may end the loop at its checks: the user, the deadline, the budget *)

CancelSeen ==
  /\ loop.at \in LoopNodes \cup {"model_call", "tool_in_flight"}
  /\ CloseWith(Event("cancelled", NoCheckpoint))
  /\ UNCHANGED <<goal, past, spent>>

PauseSeen ==
  /\ loop.at \in LoopNodes \cup {"model_call"} /\ loop.direct /\ spent.pauses < MaxStops
  /\ LET node == IF loop.at = "model_call" THEN "call_model" ELSE loop.at
     IN CloseWith(Event("paused", Saved(node, loop.st, loop.call)))
  /\ spent' = [spent EXCEPT !.pauses = @ + 1]
  /\ UNCHANGED <<goal, past>>

\* The deadline, an exhausted model budget, an unusable action.
Halts ==
  /\ loop.at \in LoopNodes \/ (loop.at = "tool_in_flight" /\ loop.approved)
  /\ Fails(FALSE)
  /\ UNCHANGED <<goal, past, spent>>

---------------------------------------------------------------------------
(* The worker publishes what is left, and what becomes of the run then *)

Older(new, old) ==
  /\ new.node \in LoopNodes
  /\ new.st.used < old.st.used \/ Len(new.st.obs) < Len(old.st.obs)

PublishNext ==
  /\ loop.at = "closing"
  /\ row' = Recorded(row, Head(buf)) /\ buf' = Tail(buf)
  /\ past' = [past EXCEPT !.rewound = @ \/ Older(Head(buf).ckpt, row.saved)]
  /\ loop' = IF Len(buf) = 1 THEN Off ELSE loop
  /\ UNCHANGED <<goal, spent>>

ResumeFrom(ckpt) ==
  LET next == [ckpt EXCEPT !.st.attempts = @ + 1]
  IN /\ row' = [row EXCEPT !.status = "running", !.saved = next]
     /\ loop' = RunFrom(next)

ResumePaused ==
  /\ row.status = "paused" /\ row.saved.st.attempts < MaxAttempts
  /\ ResumeFrom(row.saved)
  /\ UNCHANGED <<goal, buf, past, spent>>

DecidePermission ==
  /\ row.status = "waiting" /\ loop.at = "off"
  /\ \/ LET next == Saved("tool_in_flight", row.wait.st, row.wait.call)
        IN /\ row' = [row EXCEPT !.status = "running", !.saved = next]
           /\ loop' = [RunFrom(next) EXCEPT !.direct = FALSE, !.approved = TRUE]
           /\ UNCHANGED buf
     \/ /\ row' = [row EXCEPT !.status = "running"]
        /\ loop' = [Off EXCEPT !.at = "closing"]
        /\ buf' = <<Event("failed", NoCheckpoint)>>
  /\ UNCHANGED <<goal, past, spent>>

\* The loop is lost while it publishes: harmless without late checkpoints.
ClosesSafely ==
  loop.direct /\ ~past.rewound /\ \A i \in DOMAIN buf : buf[i].kind # "step"

Crash ==
  /\ loop.at # "off" /\ spent.crashes < MaxCrashes
  /\ loop.at = "closing" => LateCheckpoints \/ ClosesSafely
  /\ loop' = Off /\ buf' = <<>>
  /\ spent' = [spent EXCEPT !.crashes = @ + 1]
  /\ UNCHANGED <<goal, row, past>>

\* Faulty variant: a run that cannot be resumed is passed over.
RecoverResumable ==
  /\ row.status = "running" /\ loop.at = "off"
  /\ row.saved.node \in LoopNodes /\ row.saved.st.attempts < MaxAttempts
  /\ ResumeFrom(row.saved)
  /\ UNCHANGED <<goal, buf, past, spent>>

Recover ==
  /\ row.status = "running" /\ loop.at = "off"
  /\ IF row.saved.node \in LoopNodes /\ row.saved.st.attempts < MaxAttempts
     THEN ResumeFrom(row.saved)
     ELSE /\ row' = [row EXCEPT !.status = "failed", !.saved = NoCheckpoint]
          /\ UNCHANGED loop
  /\ UNCHANGED <<goal, buf, past, spent>>

\* retry_failed_step: a replacement run with a copy of the checkpoint
RetryFailedStep ==
  /\ row.status = "failed" /\ row.saved.node \in Retryable /\ loop.at = "off"
  /\ spent.replacements < MaxReplacements
  /\ LateCheckpoints \/ ~past.rewound
  /\ LET copy == [row.saved EXCEPT !.st.attempts = 0]
     IN /\ row' = [row EXCEPT !.status = "running", !.saved = copy]
        /\ loop' = RunFrom(copy)
  /\ spent' = [spent EXCEPT !.replacements = @ + 1]
  /\ UNCHANGED <<goal, buf, past>>

---------------------------------------------------------------------------
LoopInit ==
  /\ goal \in Goals
  /\ row = [status |-> "queued", saved |-> NoCheckpoint, wait |-> NoCheckpoint]
  /\ loop = Off /\ buf = <<>>
  /\ past = [did |-> <<>>, calls |-> 0, rewound |-> FALSE]
  /\ spent = [crashes |-> 0, pauses |-> 0, replacements |-> 0]

Runs ==
  \/ StartRun \/ IntentCallStarts \/ IntentCallEnds \/ ModelCallStarts \/ ModelCallEnds
  \/ ValidateFinish \/ ValidateCall \/ ToolStarts \/ AskPermission \/ ToolRuns \/ Observe
  \/ Halts \/ PublishNext \/ Recover

LoopNext ==
  \/ Runs
  \/ CancelSeen \/ PauseSeen \/ ResumePaused \/ DecidePermission \/ Crash \/ RetryFailedStep

LoopFairness == WF_loopVars(Runs)
LoopSpec == LoopInit /\ [][LoopNext]_loopVars /\ LoopFairness

---------------------------------------------------------------------------
(* Properties *)

\* What the loop works with is what happened: every tool that was run, and no
\* other, is among the observations of the state it goes on from, however often
\* the task was interrupted.  A tool that is forgotten is run again.
Pending == IF loop.at = "observe_result" THEN <<Result(loop.call, loop.result)>> ELSE <<>>
EffectsRemembered ==
  loop.at \notin {"off", "closing"} => past.did = loop.st.obs \o Pending

\* No tool is run that the goal excludes: no second change when one file may be
\* changed, no change before it is clear what to change, no other change than the
\* one asked for, and nothing at all when an answer is only to be rewritten.
EffectsInScope ==
  LET changes == {i \in DOMAIN past.did : past.did[i].tool \in Effects}
      wanted == goal.required \cap Effects
  IN /\ goal.exclusive => Cardinality({i \in changes : past.did[i].ok}) <= 1
     /\ goal.unclear => changes = {}
     /\ Cardinality(wanted) = 1 => \A i \in changes : past.did[i].tool \in wanted
     /\ goal.transform => past.did = <<>>

\* The budgets of the run hold for all its executions, recoveries and the
\* replacement runs taken together.
BudgetsHold == past.calls <= MaxModelCalls /\ Len(past.did) <= MaxIterations

\* A run is only completed when every tool its goal requires has really
\* succeeded in one of its executions, or one of the three excuses of the code
\* really applies to it; or it is completed by asking the user what is meant.
CompletedIsEarned ==
  [][ row'.status = "completed" /\ row.status # "completed" =>
        \/ Clarifies(loop.st)
        \/ \A t \in goal.required :
             \/ \E i \in DOMAIN past.did : past.did[i].tool = t /\ past.did[i].ok
             \/ t = CreateDocument /\ goal.host = "refuses"
             \/ t \in goal.ifAbsent /\ \E i \in DOMAIN past.did : past.did[i].there
             \/ /\ t \in goal.byIntent
                /\ \E i \in DOMAIN past.did :
                     past.did[i].tool \in Stores /\ past.did[i].ok ]_loopVars

\* A running task comes to an end, a pause or a question: guards, retries and
\* recoveries cannot keep it busy for ever.
LoopEnds == [](row.status = "running" => <>(row.status # "running"))

\* The documents: the mode in which only tool calls are accepted is for missing
\* evidence; corrections of the output format, or a satisfied effect, do not
\* bring it about.
FinishIsPossible ==
  loop.at = "model_call" /\ Missing(loop.st) = {} => ~ToolRequired(loop.st)
=============================================================================
