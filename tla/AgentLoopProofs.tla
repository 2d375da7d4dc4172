-------------------------- MODULE AgentLoopProofs --------------------------
(***************************************************************************)
(* Theorems about AgentLoop, for any tools, goals, budgets and number of   *)
(* interruptions, as long as no run is interrupted or retried after a late *)
(* checkpoint (LateCheckpoints = FALSE; with them the theorems are false). *)
(***************************************************************************)
EXTENDS AgentLoop, TLAPS, FiniteSetTheorems, SequenceTheorems

Calls == Tools \cup {Finish, NoTool}
Observation == [tool : Calls, ok : BOOLEAN, there : BOOLEAN]
State == [intent : {"none", "known", "unknown"}, rejected : Nat, used : Nat,
          obs : Seq(Observation), guard : Nat, feedback : BOOLEAN, rewrites : Nat,
          malformed : Nat, last : {"none", "finish", "observed"} \cup Objections,
          attempts : Nat]
Checkpoint == [node : LoopNodes \cup {"none", "tool_in_flight", "permission"},
               st : State, call : Calls]
Events == [kind : {"step", "paused", "permission", "failed", "completed", "cancelled"},
           ckpt : Checkpoint, retry : BOOLEAN]
InTool == {"tool_in_flight", "observe_result"}
Places == LoopNodes \cup InTool \cup {"off", "intent_call", "model_call", "closing"}
Row == [status : {"queued", "running", "paused", "waiting",
                  "failed", "completed", "cancelled"},
        saved : Checkpoint, wait : Checkpoint]
Loop == [at : Places, st : State, call : Calls,
         result : {"none", "ok", "failed", "fatal", "found", "exists"},
         direct : BOOLEAN, approved : BOOLEAN]
Past == [did : Seq(Observation), calls : Nat, rewound : BOOLEAN]

LoopTypeOK ==
  /\ goal \in Goals /\ row \in Row /\ loop \in Loop
  /\ buf \in Seq(Events) /\ past \in Past
  /\ spent \in [crashes : Nat, pauses : Nat, replacements : Nat]

-----------------------------------------------------------------------------
(* The inductive invariant. *)

Active == loop.at \notin {"off", "closing"}

\* A state that accounts for everything the task has done.
Knows(st) == st.used = past.calls /\ st.obs = past.did
Fresh(ckpt) == ckpt.node \in LoopNodes => Knows(ckpt.st)

\* What validation has established of a tool call, from the goal and the state.
Changed(obs) == {i \in DOMAIN obs : obs[i].ok /\ obs[i].tool \in Effects}
MayRun(g, st, a) ==
  /\ Len(st.obs) < MaxIterations
  /\ ~g.transform
  /\ a \in Effects => ~g.unclear
  /\ a \in Effects /\ Cardinality(g.required \cap Effects) = 1 => a \in g.required
  /\ a \in Effects /\ g.exclusive /\ st.obs # <<>> => Cardinality(Changed(st.obs)) # 1
Ready(g, ckpt) ==
  ckpt.node \in {"execute_tool", "permission"} => MayRun(g, ckpt.st, ckpt.call)

\* The memory of the loop is true, and a tool on its way was validated.
MemoryIsTrue ==
  Active => /\ loop.st.used = past.calls
            /\ loop.at # "observe_result" => past.did = loop.st.obs
            /\ loop.at = "observe_result" =>
                 past.did = Append(loop.st.obs, Result(loop.call, loop.result))
            /\ loop.at \in InTool \cup {"execute_tool"} => MayRun(goal, loop.st, loop.call)

\* With a callback the row is as fresh as the memory ...
RowIsFresh ==
  /\ Active /\ loop.direct => Fresh(row.saved) /\ row.saved.st.used = past.calls
  /\ Active /\ loop.direct => (row.saved.node \in LoopNodes <=> loop.at \notin InTool)
  /\ Active /\ ~loop.direct => row.saved.node \notin LoopNodes
  /\ loop.at = "closing" /\ loop.direct =>
       past.rewound \/ (Fresh(row.saved) /\ row.saved.st.used = past.calls)

\* ... and what is in `buf` is late.
Lags(e, strictly) ==
  e.kind = "step" =>
    /\ e.ckpt.node = "call_model"
    /\ e.ckpt.st.used <= past.calls
    /\ strictly => e.ckpt.st.used < past.calls
    /\ Len(e.ckpt.st.obs) <= Len(past.did)
    /\ \A k \in 1 .. Len(e.ckpt.st.obs) : e.ckpt.st.obs[k] = past.did[k]
Strictly ==
  IF loop.at = "closing" THEN ~past.rewound /\ row.saved.node \notin LoopNodes
  ELSE loop.at # "call_model"
LateSteps == loop.direct => \A i \in DOMAIN buf : Lags(buf[i], Strictly)

\* Without a callback the last step in `buf`, or else the row, is fresh.
IsTip(i) == buf[i].kind = "step" /\ \A j \in DOMAIN buf : j > i => buf[j].kind # "step"
NoStep == \A j \in DOMAIN buf : buf[j].kind # "step"
TipIsFresh ==
  loop.at # "off" /\ ~loop.direct /\ (loop.at = "closing" => buf[Len(buf)].retry) =>
    /\ \A i \in DOMAIN buf : IsTip(i) =>
         Fresh(buf[i].ckpt) /\ (loop.at \in InTool => buf[i].ckpt.node \notin LoopNodes)
    /\ NoStep => Fresh(row.saved)

\* Steps, and at the end one event that ends the loop.
BufferShape ==
  /\ loop.at = "off" => buf = <<>>
  /\ loop.at = "closing" => buf # <<>>
  /\ \A i \in DOMAIN buf :
       /\ Ready(goal, buf[i].ckpt)
       /\ buf[i].kind = "permission" <=> buf[i].ckpt.node = "permission"
       /\ buf[i].kind = "step" <=> (Active \/ i < Len(buf))
       /\ buf[i].retry => buf[i].kind = "failed"
       /\ buf[i].kind = "paused" => Fresh(buf[i].ckpt) /\ buf[i].ckpt.node \in LoopNodes
       /\ buf[i].kind = "permission" => Knows(buf[i].ckpt.st)
       /\ buf[i].kind = "completed" => loop.st.obs = past.did /\ Missing(loop.st) = {}

\* What the stored run can go on from when nobody executes it.
StoredRun ==
  /\ loop.at # "off" => row.status = "running"
  /\ Ready(goal, row.saved)
  /\ row.status = "queued" => past.did = <<>> /\ past.calls = 0
  /\ loop.at = "off" /\ row.status \in {"running", "paused"} => Fresh(row.saved)
  /\ row.status = "paused" => row.saved.node \in LoopNodes
  /\ row.status = "failed" => past.rewound \/ Fresh(row.saved)
  /\ row.status = "waiting" => Knows(row.wait.st) /\ MayRun(goal, row.wait.st, row.wait.call)

LoopInv ==
  /\ LoopTypeOK /\ MemoryIsTrue /\ RowIsFresh /\ LateSteps /\ TipIsFresh
  /\ BufferShape /\ StoredRun /\ BudgetsHold /\ EffectsInScope

-----------------------------------------------------------------------------
(* Types *)

LEMMA Constructors ==
  /\ FreshState \in State /\ NoCheckpoint \in Checkpoint /\ Off \in Loop
  /\ \A node \in LoopNodes \cup {"none", "tool_in_flight", "permission"},
        st \in State, call \in Calls :
       /\ Saved(node, st, call) \in Checkpoint
       /\ Step(node, st, call) \in Events
  /\ \A kind \in {"paused", "permission", "failed", "completed", "cancelled"},
        ckpt \in Checkpoint : Event(kind, ckpt) \in Events
<1>1. FreshState \in State
  BY EmptySeq DEF FreshState, State
<1>2. \A node \in LoopNodes \cup {"none", "tool_in_flight", "permission"},
        st \in State, call \in Calls : Saved(node, st, call) \in Checkpoint
  BY DEF Saved, Checkpoint
<1>3. NoCheckpoint \in Checkpoint
  BY <1>1, <1>2 DEF NoCheckpoint, Calls
<1>4. Off \in Loop
  BY <1>1 DEF Off, Loop, Places, Calls
<1>5. QED
  BY <1>1, <1>2, <1>3, <1>4 DEF Step, Event, Events

LEMMA RecordedTypes ==
  ASSUME NEW r \in Row, NEW e \in Events
  PROVE  Recorded(r, e) \in Row
  BY Constructors DEF Recorded, Row, Events

LEMMA PublishedTypes ==
  ASSUME LoopTypeOK, NEW e \in Events, PublishNow(e) \/ Later(e)
  PROVE  row' \in Row /\ buf' \in Seq(Events)
<1>1. row \in Row /\ buf \in Seq(Events)
  BY DEF LoopTypeOK
<1>2. Recorded(row, e) \in Row /\ Append(buf, e) \in Seq(Events)
  BY <1>1, RecordedTypes, AppendProperties
<1>3. QED
  BY <1>1, <1>2 DEF PublishNow, Later

LEMMA GotoTypes ==
  ASSUME LoopTypeOK, NEW node \in Places, NEW st \in State, NEW call \in Calls,
         Goto(node, st, call)
  PROVE  loop' \in Loop
  BY DEF LoopTypeOK, Goto, Loop

\* Every state that the loop makes of its own.
LEMMA StateTypes ==
  ASSUME NEW st \in State
  PROVE  /\ [st EXCEPT !.used = @ + 1] \in State
         /\ [st EXCEPT !.rejected = @ + 1] \in State
         /\ [st EXCEPT !.rewrites = @ + 1] \in State
         /\ [st EXCEPT !.attempts = @ + 1] \in State
         /\ [st EXCEPT !.attempts = 0] \in State
         /\ [st EXCEPT !.malformed = @ + 1, !.feedback = TRUE] \in State
         /\ [st EXCEPT !.guard = @ + 1, !.feedback = TRUE] \in State
         /\ \A i \in {"known", "unknown"} : [st EXCEPT !.intent = i] \in State
         /\ \A l \in {"finish"} \cup Objections : [st EXCEPT !.last = l] \in State
         /\ \A l \in Objections : [st EXCEPT !.last = l, !.feedback = TRUE] \in State
<1>1. [st EXCEPT !.used = @ + 1] \in State /\ [st EXCEPT !.rejected = @ + 1] \in State
  <2>1. [st EXCEPT !.used = @ + 1] \in State
    BY DEF State
  <2>2. [st EXCEPT !.rejected = @ + 1] \in State
    BY DEF State
  <2>3. QED  BY <2>1, <2>2
<1>2. [st EXCEPT !.rewrites = @ + 1] \in State /\ [st EXCEPT !.attempts = @ + 1] \in State
  <2>1. [st EXCEPT !.rewrites = @ + 1] \in State
    BY DEF State
  <2>2. [st EXCEPT !.attempts = @ + 1] \in State
    BY DEF State
  <2>3. QED  BY <2>1, <2>2
<1>3. [st EXCEPT !.attempts = 0] \in State
  BY DEF State
<1>4. [st EXCEPT !.malformed = @ + 1, !.feedback = TRUE] \in State
  <2>1. \A n \in Nat : [st EXCEPT !.malformed = n, !.feedback = TRUE] \in State
    BY DEF State
  <2>2. st.malformed + 1 \in Nat
    BY DEF State
  <2>3. QED  BY <2>1, <2>2
<1>5. [st EXCEPT !.guard = @ + 1, !.feedback = TRUE] \in State
  <2>1. \A n \in Nat : [st EXCEPT !.guard = n, !.feedback = TRUE] \in State
    BY DEF State
  <2>2. st.guard + 1 \in Nat
    BY DEF State
  <2>3. QED  BY <2>1, <2>2
<1>6. \A i \in {"known", "unknown"} : [st EXCEPT !.intent = i] \in State
  BY DEF State
<1>7. ASSUME NEW l \in {"finish"} \cup Objections PROVE [st EXCEPT !.last = l] \in State
  <2>1. l \in {"none", "finish", "observed"} \cup Objections
    OBVIOUS
  <2>2. QED  BY <2>1 DEF State
<1>8. ASSUME NEW l \in Objections
      PROVE  [st EXCEPT !.last = l, !.feedback = TRUE] \in State
  <2>1. l \in {"none", "finish", "observed"} \cup Objections
    OBVIOUS
  <2>2. QED  BY <2>1 DEF State
<1>9. QED
  BY <1>1, <1>2, <1>3, <1>4, <1>5, <1>6, <1>7, <1>8

\* A loop that starts from a checkpoint.
LEMMA RunFromTypes ==
  ASSUME NEW ckpt \in Checkpoint, ckpt.node \in LoopNodes \cup {"tool_in_flight"}
  PROVE  /\ RunFrom(ckpt) \in Loop
         /\ [RunFrom(ckpt) EXCEPT !.direct = FALSE, !.approved = TRUE] \in Loop
         /\ RunFrom(ckpt).at = ckpt.node /\ RunFrom(ckpt).st = ckpt.st
         /\ RunFrom(ckpt).call = ckpt.call /\ RunFrom(ckpt).direct
<1>1. ckpt.node \in Places
  BY DEF Places, InTool
<1>2. QED
  BY <1>1, Constructors DEF RunFrom, Off, Loop, Checkpoint

LEMMA ObservedTypes ==
  ASSUME LoopTypeOK
  PROVE  /\ Observed(loop.st) \in State
         /\ Observed(loop.st).used = loop.st.used
         /\ Observed(loop.st).obs =
              Append(loop.st.obs, Result(loop.call, loop.result))
<1> DEFINE new == Result(loop.call, loop.result)
<1>1. new \in Observation /\ loop.st \in State
  BY DEF LoopTypeOK, Loop, Observation, Result
<1>2. Append(loop.st.obs, new) \in Seq(Observation)
  BY <1>1, AppendProperties DEF State
<1>3. QED
  BY <1>1, <1>2 DEF Observed, State

LEMMA CallStartTypes ==
  ASSUME LoopTypeOK, NEW node \in LoopNodes, NEW calling \in {"intent_call", "model_call"},
         CallStarts(node, calling)
  PROVE  LoopTypeOK'
<1>1. loop.st \in State /\ Counted(loop.st) \in State /\ NoTool \in Calls /\ calling \in Places
  BY StateTypes DEF LoopTypeOK, Loop, Counted, Calls, Places
<1>2. Step(node, Counted(loop.st), NoTool) \in Events
  BY <1>1, Constructors
<1>3. row' \in Row /\ buf' \in Seq(Events)
  BY <1>2, PublishedTypes DEF CallStarts
<1>4. loop' \in Loop
  BY <1>1, GotoTypes DEF CallStarts
<1>5. past' \in Past
  BY DEF CallStarts, LoopTypeOK, Past
<1>6. QED
  BY <1>3, <1>4, <1>5 DEF CallStarts, LoopTypeOK

LEMMA PublishAndGoTypes ==
  ASSUME LoopTypeOK, NEW node \in LoopNodes \cup {"tool_in_flight"}, NEW st \in State,
         NEW call \in Calls, PublishAndGo(node, st, call)
  PROVE  row' \in Row /\ buf' \in Seq(Events) /\ loop' \in Loop
<1>1. node \in Places /\ Step(node, st, call) \in Events
  BY Constructors DEF Places, InTool
<1>2. QED
  BY <1>1, PublishedTypes, GotoTypes DEF PublishAndGo

LEMMA FailsTypes ==
  ASSUME LoopTypeOK, NEW e \in Events, CloseWith(e)
  PROVE  row' \in Row /\ buf' \in Seq(Events) /\ loop' \in Loop
<1>1. row' \in Row /\ buf' \in Seq(Events)
  BY PublishedTypes DEF CloseWith
<1>2. loop' \in Loop
  BY DEF CloseWith, LoopTypeOK, Loop, Places
<1>3. QED  BY <1>1, <1>2

LEMMA FailureIsEvent ==
  \A retry \in BOOLEAN : [Event("failed", NoCheckpoint) EXCEPT !.retry = retry] \in Events
  BY Constructors DEF Event, Events

LEMMA RetryTypes ==
  ASSUME LoopTypeOK, NEW st \in State, RetryModel(st)
  PROVE  loop' \in Loop
  BY GotoTypes DEF RetryModel, Calls, Places, LoopNodes

LEMMA IntentTypes ==
  ASSUME LoopTypeOK, IntentCallEnds
  PROVE  LoopTypeOK'
<1>1. loop.st \in State /\ NoTool \in Calls
  BY DEF LoopTypeOK, Loop, Calls
<1>2. ASSUME NEW intent \in {"known", "unknown"}, Understood(intent) PROVE LoopTypeOK'
  <2>1. row' \in Row /\ buf' \in Seq(Events) /\ loop' \in Loop
    BY <1>1, <1>2, StateTypes, PublishAndGoTypes DEF Understood, LoopNodes
  <2>2. QED  BY <2>1 DEF IntentCallEnds, LoopTypeOK
<1>3. ASSUME NEW retry \in BOOLEAN, Fails(retry) PROVE LoopTypeOK'
  BY <1>3, FailureIsEvent, FailsTypes DEF Fails, IntentCallEnds, LoopTypeOK
<1>4. ASSUME PublishAndGo("extract_intent", [loop.st EXCEPT !.rejected = @ + 1], NoTool)
      PROVE  LoopTypeOK'
  <2>1. row' \in Row /\ buf' \in Seq(Events) /\ loop' \in Loop
    BY <1>1, <1>4, StateTypes, PublishAndGoTypes DEF LoopNodes
  <2>2. QED  BY <2>1 DEF IntentCallEnds, LoopTypeOK
<1>5. CASE IntentOutputInvalid
  BY <1>2, <1>3, <1>4, <1>5 DEF IntentOutputInvalid
<1>6. QED
  BY <1>2, <1>3, <1>5 DEF IntentCallEnds

LEMMA ModelTypes ==
  ASSUME LoopTypeOK, ModelCallEnds
  PROVE  LoopTypeOK'
<1>1. loop.st \in State
  BY DEF LoopTypeOK, Loop
<1>2. ASSUME NEW retry \in BOOLEAN, Fails(retry) PROVE LoopTypeOK'
  BY <1>2, FailureIsEvent, FailsTypes DEF Fails, ModelCallEnds, LoopTypeOK
<1>3. ASSUME NEW a \in Answers(loop.st), Goto("validate_action", loop.st, a), Silent
      PROVE  LoopTypeOK'
  <2>1. a \in Calls /\ "validate_action" \in Places
    BY DEF Answers, Calls, Places, LoopNodes
  <2>2. QED
    BY <1>1, <1>3, <2>1, GotoTypes DEF Silent, ModelCallEnds, LoopTypeOK
<1>4. ASSUME NEW st \in State, Later(Step("call_model", st, NoTool)), RetryModel(st)
      PROVE  LoopTypeOK'
  <2>1. Step("call_model", st, NoTool) \in Events
    BY Constructors DEF Calls, LoopNodes
  <2>2. QED
    BY <1>4, <2>1, PublishedTypes, RetryTypes DEF ModelCallEnds, LoopTypeOK
<1>5. CASE ModelOutputInvalid
  BY <1>1, <1>2, <1>4, <1>5, StateTypes DEF ModelOutputInvalid
<1>6. QED
  BY <1>2, <1>3, <1>5 DEF ModelCallEnds

\* What validation does in the end.
LEMMA ValidationTypes ==
  ASSUME LoopTypeOK, UNCHANGED <<goal, past, spent>>, NEW st \in State
  PROVE  /\ Fails(FALSE) \/ Insist(st) \/ Rewrite(st) => LoopTypeOK'
         /\ RetryModel(st) /\ Silent => LoopTypeOK'
         /\ CloseWith(Event("completed", NoCheckpoint)) => LoopTypeOK'
<1>1. CASE Fails(FALSE)
  BY <1>1, FailureIsEvent, FailsTypes DEF Fails, LoopTypeOK
<1>2. ASSUME NEW next \in State, RetryModel(next), Silent PROVE LoopTypeOK'
  BY <1>2, RetryTypes DEF Silent, LoopTypeOK
<1>3. CASE Insist(st)
  BY <1>1, <1>2, <1>3, StateTypes DEF Insist
<1>4. CASE Rewrite(st)
  <2>1. [st EXCEPT !.rewrites = @ + 1] \in State
    BY StateTypes
  <2>2. Step("call_model", [st EXCEPT !.rewrites = @ + 1], NoTool) \in Events
    BY <2>1, Constructors DEF Calls, LoopNodes
  <2>3. QED
    BY <1>1, <1>4, <2>1, <2>2, PublishedTypes, RetryTypes DEF Rewrite, LoopTypeOK
<1>5. CASE CloseWith(Event("completed", NoCheckpoint))
  BY <1>5, Constructors, FailsTypes DEF LoopTypeOK
<1>6. QED
  BY <1>1, <1>2, <1>3, <1>4, <1>5

LEMMA ValidateTypes ==
  ASSUME LoopTypeOK, ValidateFinish \/ ValidateCall
  PROVE  LoopTypeOK'
<1>1. loop.st \in State /\ loop.call \in Calls
  BY DEF LoopTypeOK, Loop
<1>2. CASE ValidateFinish
  <2>1. [loop.st EXCEPT !.last = "finish"] \in State
    BY <1>1, StateTypes
  <2>2. QED
    BY <1>2, <2>1, ValidationTypes DEF ValidateFinish
<1>3. CASE ValidateCall
  <2> DEFINE a == HostAction(loop.st, loop.call)
             v == Verdict(loop.st, a)
  <2>1. a \in Calls
    BY <1>1 DEF HostAction, Calls
  <2>2. v \in Objections => [loop.st EXCEPT !.last = v, !.feedback = TRUE] \in State
    BY <1>1, StateTypes
  <2>3. CASE PublishAndGo("execute_tool", loop.st, a)
    <3>1. row' \in Row /\ buf' \in Seq(Events) /\ loop' \in Loop
      BY <1>1, <2>1, <2>3, PublishAndGoTypes DEF LoopNodes
    <3>2. QED  BY <1>3, <3>1 DEF ValidateCall, LoopTypeOK
  <2>4. QED
    BY <1>1, <1>3, <2>2, <2>3, ValidationTypes DEF ValidateCall
<1>4. QED
  BY <1>2, <1>3

LEMMA ToolTypes ==
  ASSUME LoopTypeOK, ToolStarts \/ AskPermission \/ ToolRuns \/ Observe
  PROVE  LoopTypeOK'
<1>1. loop.st \in State /\ loop.call \in Calls
  BY DEF LoopTypeOK, Loop
<1>2. CASE ToolStarts
  <2>1. row' \in Row /\ buf' \in Seq(Events) /\ loop' \in Loop
    BY <1>1, <1>2, PublishAndGoTypes DEF ToolStarts
  <2>2. QED  BY <1>2, <2>1 DEF ToolStarts, LoopTypeOK
<1>3. CASE AskPermission
  <2>1. Event("permission", Saved("permission", loop.st, loop.call)) \in Events
    BY <1>1, Constructors
  <2>2. QED  BY <1>3, <2>1, FailsTypes DEF AskPermission, LoopTypeOK
<1>4. CASE ToolRuns
  <2>1. PICK result \in Results(loop.call) :
          /\ loop' = [loop EXCEPT !.at = "observe_result", !.result = result]
          /\ past' = [past EXCEPT !.did = Append(@, Result(loop.call, result))]
    BY <1>4 DEF ToolRuns
  <2>2. loop' \in Loop
    BY <2>1 DEF LoopTypeOK, Loop, Places, InTool, Results
  <2>3. Result(loop.call, result) \in Observation
    BY <1>1 DEF Observation, Result
  <2>4. past' \in Past
    BY <2>1, <2>3, AppendProperties DEF LoopTypeOK, Past
  <2>5. QED  BY <1>4, <2>2, <2>4 DEF ToolRuns, LoopTypeOK
<1>5. CASE Observe
  <2>1. CASE Fails(FALSE)
    BY <1>5, <2>1, FailureIsEvent, FailsTypes DEF Fails, Observe, LoopTypeOK
  <2>2. ASSUME PublishNow(Step("call_model", Observed(loop.st), NoTool)),
               loop' = [loop EXCEPT !.at = "call_model", !.st = Observed(@), !.call = NoTool,
                                    !.result = "none", !.approved = FALSE]
        PROVE  LoopTypeOK'
    <3>1. Observed(loop.st) \in State /\ NoTool \in Calls
      BY ObservedTypes DEF Calls
    <3>2. Step("call_model", Observed(loop.st), NoTool) \in Events
      BY <3>1, Constructors DEF LoopNodes
    <3>3. loop' \in Loop
      BY <2>2, <3>1 DEF LoopTypeOK, Loop, Places, LoopNodes
    <3>4. QED  BY <1>5, <2>2, <3>2, <3>3, PublishedTypes DEF Observe, LoopTypeOK
  <2>3. QED  BY <1>5, <2>1, <2>2 DEF Observe
<1>6. QED
  BY <1>2, <1>3, <1>4, <1>5

LEMMA StopTypes ==
  ASSUME LoopTypeOK, CancelSeen \/ PauseSeen \/ Halts \/ Crash
  PROVE  LoopTypeOK'
<1>1. loop.st \in State /\ loop.call \in Calls
  BY DEF LoopTypeOK, Loop
<1>2. CASE CancelSeen
  BY <1>2, Constructors, FailsTypes DEF CancelSeen, LoopTypeOK
<1>3. CASE PauseSeen
  <2> DEFINE node == IF loop.at = "model_call" THEN "call_model" ELSE loop.at
  <2>1. node \in LoopNodes
    BY <1>3 DEF PauseSeen, LoopNodes
  <2>2. Event("paused", Saved(node, loop.st, loop.call)) \in Events
    BY <1>1, <2>1, Constructors
  <2>3. row' \in Row /\ buf' \in Seq(Events) /\ loop' \in Loop
    BY <1>3, <2>2, FailsTypes DEF PauseSeen
  <2>4. QED  BY <1>3, <2>3 DEF PauseSeen, LoopTypeOK
<1>4. CASE Halts
  BY <1>4, FailureIsEvent, FailsTypes DEF Fails, Halts, LoopTypeOK
<1>5. CASE Crash
  BY <1>5, Constructors, EmptySeq DEF Crash, LoopTypeOK
<1>6. QED
  BY <1>2, <1>3, <1>4, <1>5

\* A loop that is started again from a stored checkpoint.
LEMMA RestartTypes ==
  ASSUME LoopTypeOK, NEW ckpt \in Checkpoint, ckpt.node \in LoopNodes,
         row' = [row EXCEPT !.status = "running", !.saved = ckpt], loop' = RunFrom(ckpt)
  PROVE  row' \in Row /\ loop' \in Loop
  BY RunFromTypes DEF LoopTypeOK, Row

LEMMA AttemptTypes ==
  ASSUME NEW ckpt \in Checkpoint
  PROVE  /\ [ckpt EXCEPT !.st.attempts = @ + 1] \in Checkpoint
         /\ [ckpt EXCEPT !.st.attempts = 0] \in Checkpoint
         /\ \A next \in {[ckpt EXCEPT !.st.attempts = @ + 1],
                         [ckpt EXCEPT !.st.attempts = 0]} :
              /\ next.node = ckpt.node /\ next.call = ckpt.call
              /\ next.st.used = ckpt.st.used /\ next.st.obs = ckpt.st.obs
<1>1. ckpt.st \in State
  BY DEF Checkpoint
<1>2. [ckpt.st EXCEPT !.attempts = @ + 1] \in State /\ [ckpt.st EXCEPT !.attempts = 0] \in State
  BY <1>1, StateTypes
<1>3. \A n : /\ [ckpt.st EXCEPT !.attempts = n].used = ckpt.st.used
             /\ [ckpt.st EXCEPT !.attempts = n].obs = ckpt.st.obs
  BY <1>1 DEF State
<1>4. \A st \in State : /\ [ckpt EXCEPT !.st = st] \in Checkpoint
                        /\ [ckpt EXCEPT !.st = st].node = ckpt.node
                        /\ [ckpt EXCEPT !.st = st].call = ckpt.call
                        /\ [ckpt EXCEPT !.st = st].st = st
  BY DEF Checkpoint
<1>5. ASSUME NEW n, [ckpt.st EXCEPT !.attempts = n] \in State,
             NEW next, next = [ckpt EXCEPT !.st = [ckpt.st EXCEPT !.attempts = n]]
      PROVE  /\ next \in Checkpoint /\ next.node = ckpt.node /\ next.call = ckpt.call
             /\ next.st.used = ckpt.st.used /\ next.st.obs = ckpt.st.obs
  <2>1. PICK s \in State : s = [ckpt.st EXCEPT !.attempts = n]
    BY <1>5
  <2>2. next = [ckpt EXCEPT !.st = s]
    BY <1>5, <2>1
  <2>3. s.used = ckpt.st.used /\ s.obs = ckpt.st.obs
    BY <1>3, <2>1
  <2>4. /\ next \in Checkpoint /\ next.node = ckpt.node /\ next.call = ckpt.call
        /\ next.st = s
    BY <1>4, <2>2
  <2>5. QED  BY <2>3, <2>4
<1>6. [ckpt EXCEPT !.st.attempts = 0] = [ckpt EXCEPT !.st = [ckpt.st EXCEPT !.attempts = 0]]
  OBVIOUS
<1>7. [ckpt EXCEPT !.st.attempts = @ + 1]
        = [ckpt EXCEPT !.st = [ckpt.st EXCEPT !.attempts = ckpt.st.attempts + 1]]
  OBVIOUS
<1>8. [ckpt.st EXCEPT !.attempts = ckpt.st.attempts + 1] \in State
  BY <1>2
<1>9. /\ [ckpt EXCEPT !.st.attempts = 0] \in Checkpoint
      /\ [ckpt EXCEPT !.st.attempts = 0].node = ckpt.node
      /\ [ckpt EXCEPT !.st.attempts = 0].call = ckpt.call
      /\ [ckpt EXCEPT !.st.attempts = 0].st.used = ckpt.st.used
      /\ [ckpt EXCEPT !.st.attempts = 0].st.obs = ckpt.st.obs
  BY <1>2, <1>5, <1>6
<1>10. /\ [ckpt EXCEPT !.st.attempts = @ + 1] \in Checkpoint
       /\ [ckpt EXCEPT !.st.attempts = @ + 1].node = ckpt.node
       /\ [ckpt EXCEPT !.st.attempts = @ + 1].call = ckpt.call
       /\ [ckpt EXCEPT !.st.attempts = @ + 1].st.used = ckpt.st.used
       /\ [ckpt EXCEPT !.st.attempts = @ + 1].st.obs = ckpt.st.obs
  BY <1>5, <1>7, <1>8
<1>11. QED
  BY <1>9, <1>10

LEMMA ResumeTypes ==
  ASSUME LoopTypeOK, row.saved.node \in LoopNodes, ResumeFrom(row.saved),
         UNCHANGED <<goal, buf, past, spent>>
  PROVE  LoopTypeOK'
<1> DEFINE next == [row.saved EXCEPT !.st.attempts = @ + 1]
<1>1. next \in Checkpoint /\ next.node \in LoopNodes
  BY AttemptTypes DEF LoopTypeOK, Row
<1>2. row' = [row EXCEPT !.status = "running", !.saved = next] /\ loop' = RunFrom(next)
  BY DEF ResumeFrom
<1>3. row' \in Row /\ loop' \in Loop
  BY <1>1, <1>2, RestartTypes
<1>4. QED
  BY <1>3 DEF LoopTypeOK

LEMMA StoreTypes ==
  ASSUME LoopTypeOK, StoredRun,
         StartRun \/ ResumePaused \/ DecidePermission \/ Recover \/ RetryFailedStep
  PROVE  LoopTypeOK'
<1>1. CASE StartRun
  <2> DEFINE ckpt == Saved("extract_intent", FreshState, NoTool)
  <2>1. ckpt \in Checkpoint /\ ckpt.node \in LoopNodes
    BY Constructors DEF Calls, LoopNodes, Saved
  <2>2. row' \in Row /\ loop' \in Loop
    BY <1>1, <2>1, RestartTypes DEF StartRun
  <2>3. QED  BY <1>1, <2>2 DEF StartRun, LoopTypeOK
<1>2. CASE ResumePaused
  BY <1>2, ResumeTypes DEF ResumePaused, StoredRun
<1>3. CASE DecidePermission
  <2> DEFINE next == Saved("tool_in_flight", row.wait.st, row.wait.call)
  <2>1. next \in Checkpoint /\ next.node = "tool_in_flight"
    BY Constructors DEF LoopTypeOK, Row, Checkpoint, Saved
  <2>2. CASE /\ row' = [row EXCEPT !.status = "running", !.saved = next]
             /\ loop' = [RunFrom(next) EXCEPT !.direct = FALSE, !.approved = TRUE]
             /\ UNCHANGED buf
    <3>1. row' \in Row
      BY <2>1, <2>2 DEF LoopTypeOK, Row
    <3>2. QED  BY <1>3, <2>1, <2>2, <3>1, RunFromTypes DEF DecidePermission, LoopTypeOK
  <2>3. CASE /\ row' = [row EXCEPT !.status = "running"]
             /\ loop' = [Off EXCEPT !.at = "closing"]
             /\ buf' = <<Event("failed", NoCheckpoint)>>
    <3>1. row' \in Row /\ loop' \in Loop
      BY <2>3, Constructors DEF LoopTypeOK, Row, Loop, Places
    <3>2. Event("failed", NoCheckpoint) \in Events
      BY Constructors
    <3>3. buf' \in Seq(Events)
      BY <2>3, <3>2
    <3>4. QED  BY <1>3, <3>1, <3>3 DEF DecidePermission, LoopTypeOK
  <2>4. QED  BY <1>3, <2>2, <2>3 DEF DecidePermission
<1>4. CASE Recover
  <2>1. CASE row.saved.node \in LoopNodes /\ row.saved.st.attempts < MaxAttempts
    BY <1>4, <2>1, ResumeTypes DEF Recover
  <2>2. CASE row' = [row EXCEPT !.status = "failed", !.saved = NoCheckpoint] /\ UNCHANGED loop
    BY <1>4, <2>2, Constructors DEF Recover, LoopTypeOK, Row
  <2>3. QED  BY <1>4, <2>1, <2>2 DEF Recover
<1>5. CASE RetryFailedStep
  <2> DEFINE copy == [row.saved EXCEPT !.st.attempts = 0]
  <2>1. copy \in Checkpoint /\ copy.node \in LoopNodes
    BY <1>5, AttemptTypes DEF RetryFailedStep, LoopTypeOK, Row, Retryable, LoopNodes
  <2>2. row' \in Row /\ loop' \in Loop
    BY <1>5, <2>1, RestartTypes DEF RetryFailedStep
  <2>3. QED  BY <1>5, <2>2 DEF RetryFailedStep, LoopTypeOK
<1>6. QED
  BY <1>1, <1>2, <1>3, <1>4, <1>5

LEMMA PublishTypes ==
  ASSUME LoopTypeOK, BufferShape, PublishNext
  PROVE  LoopTypeOK'
<1>1. buf # <<>> /\ buf \in Seq(Events)
  BY DEF PublishNext, BufferShape, LoopTypeOK
<1>2. Head(buf) \in Events /\ Tail(buf) \in Seq(Events)
  BY <1>1, HeadTailProperties
<1>3. row' \in Row /\ buf' \in Seq(Events)
  BY <1>2, RecordedTypes DEF PublishNext, LoopTypeOK
<1>4. loop' \in Loop
  BY Constructors DEF PublishNext, LoopTypeOK
<1>5. Older(Head(buf).ckpt, row.saved) \in BOOLEAN
  BY DEF Older
<1>6. past' \in Past
  BY <1>5 DEF PublishNext, LoopTypeOK, Past
<1>7. QED
  BY <1>3, <1>4, <1>6 DEF PublishNext, LoopTypeOK

LEMMA LoopTypeStep ==
  ASSUME LoopTypeOK, BufferShape, StoredRun, [LoopNext]_loopVars
  PROVE  LoopTypeOK'
<1>1. CASE IntentCallStarts \/ ModelCallStarts
  BY <1>1, CallStartTypes DEF IntentCallStarts, ModelCallStarts, LoopNodes
<1>2. CASE UNCHANGED loopVars
  BY <1>2 DEF LoopTypeOK, loopVars
<1>3. QED
  BY <1>1, <1>2, IntentTypes, ModelTypes, ValidateTypes, ToolTypes, StopTypes, StoreTypes,
     PublishTypes DEF LoopNext, Runs

-----------------------------------------------------------------------------
(* The shapes of the steps of a loop. *)

LEMMA AppendFacts ==
  ASSUME NEW S, NEW s \in Seq(S), NEW e \in S
  PROVE  /\ DOMAIN s = 1 .. Len(s) /\ Len(s) \in Nat
         /\ DOMAIN Append(s, e) = 1 .. Len(s) + 1 /\ Len(Append(s, e)) = Len(s) + 1
         /\ \A i \in 1 .. Len(s) : Append(s, e)[i] = s[i]
         /\ Append(s, e)[Len(s) + 1] = e /\ Append(s, e) # <<>>
  BY AppendProperties, LenProperties

\* A step is published, and the loop goes on.
LEMMA StepPublished ==
  ASSUME LoopInv, LoopTypeOK', Active, Active', goal' = goal,
         NEW node \in LoopNodes \cup {"tool_in_flight"}, NEW st \in State,
         NEW call \in Calls, PublishNow(Step(node, st, call)),
         loop'.at # "observe_result", loop'.st = st, loop'.direct = loop.direct,
         loop'.at = "tool_in_flight" <=> node = "tool_in_flight",
         "execute_tool" \in {node, loop'.at} \/ node = "tool_in_flight" =>
            MayRun(goal, st, call) /\ loop'.call = call,
         st.used = past'.calls, st.obs = past'.did, past'.did = past.did,
         past'.rewound = past.rewound, past'.calls >= past.calls,
         past'.calls <= MaxModelCalls,
         loop'.at = "call_model" \/ loop.at # "call_model" \/ past'.calls > past.calls
  PROVE  LoopInv'
<1>1. PICK e \in Events : /\ e = Step(node, st, call)
                          /\ e.kind = "step" /\ e.retry = FALSE
                          /\ e.ckpt.node = node /\ e.ckpt.st = st /\ e.ckpt.call = call
  <2>1. Step(node, st, call) \in Events
    BY Constructors
  <2>2. QED  BY <2>1 DEF Step, Event, Saved
<1>2. /\ loop.direct => row' = [row EXCEPT !.saved = e.ckpt] /\ buf' = buf
      /\ ~loop.direct => row' = row /\ buf' = Append(buf, e)
  BY <1>1 DEF PublishNow, Recorded
<1>3. row \in Row /\ buf \in Seq(Events) /\ loop \in Loop /\ past \in Past
  BY DEF LoopInv, LoopTypeOK
<1>4. MemoryIsTrue'
  BY DEF MemoryIsTrue, InTool
<1>5. RowIsFresh'
  BY <1>1, <1>2, <1>3 DEF LoopInv, RowIsFresh, Fresh, Knows, Active, Row, InTool, LoopNodes
<1>6. LateSteps'
  <2>1. SUFFICES ASSUME loop.direct, NEW i \in DOMAIN buf PROVE Lags(buf[i], Strictly)'
    BY <1>2 DEF LateSteps
  <2>2. Lags(buf[i], Strictly)
    BY <2>1 DEF LoopInv, LateSteps
  <2>3. buf'[i] = buf[i] /\ buf[i] \in Events
    BY <1>2, <1>3, <2>1
  <2>4. buf[i].ckpt.st.used \in Nat /\ past.calls \in Nat /\ past'.calls \in Nat
    BY <1>3, <2>3 DEF Events, Checkpoint, State, Past, LoopTypeOK
  <2>5. Strictly' => Strictly \/ past'.calls > past.calls
    BY DEF Strictly, Active
  <2>6. QED
    BY <2>2, <2>3, <2>4, <2>5 DEF Lags
<1>7. TipIsFresh'
  BY <1>1, <1>2, <1>3, AppendFacts DEF LoopInv, TipIsFresh, IsTip, NoStep, Fresh, Knows, Active, InTool, LoopNodes
<1>8. BufferShape'
  <2>1. CASE loop.direct
    BY <1>2, <2>1 DEF LoopInv, BufferShape, Active, Fresh, Knows
  <2>2. CASE ~loop.direct
    <3>1. Ready(goal, e.ckpt)
      BY <1>1 DEF Ready, LoopNodes
    <3>2. QED
      BY <1>1, <1>2, <1>3, <2>2, <3>1, AppendFacts DEF LoopInv, BufferShape, Active, LoopNodes
  <2>3. QED  BY <2>1, <2>2
<1>9. StoredRun'
  <2>1. Ready(goal, e.ckpt)
    BY <1>1 DEF Ready, LoopNodes
  <2>2. row'.status = "running" /\ row'.saved \in {row.saved, e.ckpt}
    BY <1>2, <1>3 DEF LoopInv, StoredRun, Active, Row
  <2>3. QED
    BY <2>1, <2>2 DEF LoopInv, StoredRun, Active
<1>10. BudgetsHold' /\ EffectsInScope'
  BY <1>3 DEF LoopInv, BudgetsHold, EffectsInScope
<1>11. QED
  BY <1>4, <1>5, <1>6, <1>7, <1>8, <1>9, <1>10 DEF LoopInv

\* The loop goes on without an event.
LEMMA StepSilent ==
  ASSUME LoopInv, LoopTypeOK', Active, UNCHANGED <<goal, row, buf, past>>,
         loop'.at \in {"validate_action", "call_model"}, loop.at \notin InTool,
         loop'.at = "call_model" \/ loop.at # "call_model",
         loop'.st.used = loop.st.used, loop'.st.obs = loop.st.obs, loop'.direct = loop.direct
  PROVE  LoopInv'
<1>1. Active'
  BY DEF Active
<1>2. MemoryIsTrue'
  BY <1>1 DEF LoopInv, MemoryIsTrue, InTool
<1>3. RowIsFresh'
  BY <1>1 DEF LoopInv, RowIsFresh, Fresh, Knows, Active, InTool
<1>4. LateSteps'
  <2>1. Strictly' => Strictly
    BY <1>1 DEF Strictly, Active
  <2>2. QED
    BY <2>1 DEF LoopInv, LateSteps, Lags
<1>5. TipIsFresh'
  BY <1>1 DEF LoopInv, TipIsFresh, IsTip, NoStep, Fresh, Knows, Active, InTool
<1>6. BufferShape'
  BY <1>1 DEF LoopInv, BufferShape, Fresh, Knows, Active
<1>7. StoredRun' /\ BudgetsHold' /\ EffectsInScope'
  BY <1>1 DEF LoopInv, StoredRun, Active, BudgetsHold, EffectsInScope
<1>8. QED
  BY <1>2, <1>3, <1>4, <1>5, <1>6, <1>7 DEF LoopInv

\* The model is called again, and the step that says so is published late.
LEMMA StepLate ==
  ASSUME LoopInv, LoopTypeOK', loop.at \in {"validate_action", "model_call"},
         NEW st \in State, Later(Step("call_model", st, NoTool)), UNCHANGED <<goal, past>>,
         loop'.at = "call_model", loop'.st = st, loop'.direct = loop.direct,
         st.used = loop.st.used, st.obs = loop.st.obs
  PROVE  LoopInv'
<1>1. Active /\ Active' /\ Knows(st)
  BY DEF Active, Knows, LoopInv, MemoryIsTrue
<1>2. PICK e \in Events : /\ e = Step("call_model", st, NoTool)
                          /\ e.kind = "step" /\ e.retry = FALSE
                          /\ e.ckpt.node = "call_model" /\ e.ckpt.st = st
  <2>1. Step("call_model", st, NoTool) \in Events
    BY Constructors DEF LoopNodes, Calls
  <2>2. QED  BY <2>1 DEF Step, Event, Saved
<1>3. row' = row /\ buf' = Append(buf, e) /\ buf \in Seq(Events) /\ past \in Past
  BY <1>2 DEF Later, LoopInv, LoopTypeOK
<1>4. MemoryIsTrue'
  BY <1>1 DEF LoopInv, MemoryIsTrue, InTool
<1>5. RowIsFresh'
  BY <1>1, <1>3 DEF LoopInv, RowIsFresh, Fresh, Knows, Active, InTool
<1>6. LateSteps'
  <2>1. SUFFICES ASSUME loop.direct, NEW i \in DOMAIN buf' PROVE Lags(buf[i], Strictly)'
    BY DEF LateSteps
  <2>2. ~Strictly'
    BY DEF Strictly
  <2>3. CASE i = Len(buf) + 1
    <3>1. buf'[i] = e
      BY <1>3, <2>3, AppendFacts
    <3>2. past.calls \in Nat /\ Len(past.did) \in Nat
      BY <1>3, LenProperties DEF Past
    <3>3. QED
      BY <1>1, <1>2, <2>2, <3>1, <3>2 DEF Lags, Knows
  <2>4. CASE i \in DOMAIN buf
    <3>1. Lags(buf[i], Strictly) /\ buf'[i] = buf[i]
      BY <1>3, <2>1, <2>4, AppendFacts DEF LoopInv, LateSteps
    <3>2. QED  BY <2>2, <3>1 DEF Lags
  <2>5. QED  BY <1>3, <2>1, <2>3, <2>4, AppendFacts
<1>7. TipIsFresh'
  BY <1>1, <1>2, <1>3, AppendFacts
  DEF LoopInv, TipIsFresh, IsTip, NoStep, Fresh, Knows, Active, InTool
<1>8. BufferShape'
  <2>1. Ready(goal, e.ckpt)
    BY <1>2 DEF Ready
  <2>2. QED
    BY <1>1, <1>2, <1>3, <2>1, AppendFacts DEF LoopInv, BufferShape, Active
<1>9. StoredRun' /\ BudgetsHold' /\ EffectsInScope'
  BY <1>1, <1>3 DEF LoopInv, StoredRun, Active, BudgetsHold, EffectsInScope
<1>10. QED
  BY <1>4, <1>5, <1>6, <1>7, <1>8, <1>9 DEF LoopInv

\* The loop ends with an event.
LEMMA StepCloses ==
  ASSUME LoopInv, LoopTypeOK', Active, NEW e \in Events, CloseWith(e), UNCHANGED <<goal, past>>,
         e.kind # "step", e.retry => e.kind = "failed", Ready(goal, e.ckpt),
         e.kind = "permission" <=> e.ckpt.node = "permission",
         e.kind = "permission" => Knows(e.ckpt.st),
         e.kind = "paused" => Fresh(e.ckpt) /\ e.ckpt.node \in LoopNodes,
         e.kind = "completed" => loop.st.obs = past.did /\ Missing(loop.st) = {}
  PROVE  LoopInv'
<1>1. /\ row' = row /\ buf' = Append(buf, e) /\ buf \in Seq(Events) /\ past \in Past
      /\ loop' = [loop EXCEPT !.at = "closing"] /\ loop \in Loop
  BY DEF CloseWith, Later, LoopInv, LoopTypeOK
<1>2. ~Active' /\ loop'.at = "closing" /\ loop'.st = loop.st /\ loop'.direct = loop.direct
  BY <1>1 DEF Active, Loop
<1>3. MemoryIsTrue'
  BY <1>2 DEF MemoryIsTrue
<1>4. RowIsFresh'
  BY <1>1, <1>2 DEF LoopInv, RowIsFresh, Fresh, Knows
<1>5. LateSteps'
  <2>1. SUFFICES ASSUME loop.direct, NEW i \in DOMAIN buf' PROVE Lags(buf[i], Strictly)'
    BY <1>2 DEF LateSteps
  <2>2. Strictly' => Strictly
    BY <1>1, <1>2, <2>1 DEF Strictly, LoopInv, RowIsFresh, Active, InTool
  <2>3. CASE i = Len(buf) + 1
    BY <1>1, <2>3, AppendFacts DEF Lags
  <2>4. CASE i \in DOMAIN buf
    <3>1. Lags(buf[i], Strictly) /\ buf'[i] = buf[i]
      BY <1>1, <2>1, <2>4, AppendFacts DEF LoopInv, LateSteps
    <3>2. QED  BY <2>2, <3>1 DEF Lags
  <2>5. QED  BY <1>1, <2>1, <2>3, <2>4, AppendFacts
<1>6. TipIsFresh'
  <2>1. /\ DOMAIN buf = 1 .. Len(buf) /\ DOMAIN buf' = 1 .. Len(buf) + 1 /\ Len(buf) \in Nat
        /\ \A i \in DOMAIN buf : buf'[i] = buf[i]
        /\ buf'[Len(buf) + 1] = e /\ e.kind # "step"
    BY <1>1, AppendFacts
  <2>2. ASSUME NEW i \in DOMAIN buf', IsTip(i)'
        PROVE  i \in DOMAIN buf /\ IsTip(i) /\ buf'[i] = buf[i]
    <3>1. i \in DOMAIN buf
      BY <2>1, <2>2 DEF IsTip
    <3>2. QED
      BY <2>1, <2>2, <3>1 DEF IsTip
  <2>3. NoStep' => NoStep
    BY <2>1 DEF NoStep
  <2>4. loop.at # "off" /\ loop.at # "closing" /\ row'.saved = row.saved
    BY <1>1 DEF Active
  <2>5. QED
    BY <1>1, <1>2, <2>2, <2>3, <2>4 DEF LoopInv, TipIsFresh, Fresh, Knows, InTool
<1>7. BufferShape'
  BY <1>1, <1>2, AppendFacts DEF LoopInv, BufferShape, Active, Fresh, Knows, Missing, Clarifies, Excused, Succeeded, TargetThere
<1>8. StoredRun' /\ BudgetsHold' /\ EffectsInScope'
  BY <1>1, <1>2 DEF LoopInv, StoredRun, Active, BudgetsHold, EffectsInScope
<1>9. QED
  BY <1>3, <1>4, <1>5, <1>6, <1>7, <1>8 DEF LoopInv
-----------------------------------------------------------------------------
(* A tool is run. *)

\* One more tool that may run keeps the changes in scope.
LEMMA ScopeStep ==
  ASSUME LoopTypeOK, EffectsInScope, MayRun(goal, loop.st, loop.call),
         past.did = loop.st.obs, goal' = goal, NEW o \in Observation,
         o.tool = loop.call, past'.did = Append(past.did, o)
  PROVE  EffectsInScope' /\ Len(past'.did) <= MaxIterations
<1> DEFINE did == past.did
           n == Len(did)
           done == o.ok
           changes == {i \in DOMAIN did : did[i].tool \in Effects}
           after == {i \in DOMAIN past'.did : past'.did[i].tool \in Effects}
           wanted == goal.required \cap Effects
<1>1. did \in Seq(Observation) /\ o \in Observation /\ o.tool = loop.call /\ o.ok = done
  BY DEF LoopTypeOK, Past, Loop, Observation
<1>2. /\ DOMAIN did = 1 .. n /\ n \in Nat /\ DOMAIN past'.did = 1 .. n + 1
      /\ Len(past'.did) = n + 1 /\ \A i \in 1 .. n : past'.did[i] = did[i]
      /\ past'.did[n + 1] = o
  BY <1>1, AppendFacts
<1>3. n < MaxIterations /\ MaxIterations \in Nat
  BY LoopAssumption DEF MayRun
<1>4. Changed(did) = {i \in changes : did[i].ok}
  BY DEF Changed
<1>5. Changed(past'.did) = {i \in after : past'.did[i].ok}
  BY DEF Changed
<1>6. goal.exclusive => Cardinality(Changed(past'.did)) <= 1
  <2>1. SUFFICES ASSUME goal.exclusive PROVE Cardinality(Changed(past'.did)) <= 1
    OBVIOUS
  <2>2. Cardinality(Changed(did)) <= 1
    BY <1>4, <2>1 DEF EffectsInScope
  <2>3. CASE loop.call \in Effects /\ done
    <3>1. IsFiniteSet(Changed(did))
      <4>1. Changed(did) \subseteq 1 .. n
        BY <1>2 DEF Changed
      <4>2. IsFiniteSet(1 .. n)
        <5>1. n \in Int /\ 1 \in Int
          BY <1>2
        <5> HIDE DEF n
        <5>2. QED  BY <5>1, FS_Interval
      <4>3. QED  BY <4>1, <4>2, FS_Subset
    <3>2. did # <<>> => Changed(did) = {}
      <4>1. did # <<>> => Cardinality(Changed(did)) # 1
        BY <2>1, <2>3 DEF MayRun
      <4>2. Cardinality(Changed(did)) \in Nat
        BY <3>1, FS_CardinalityType
      <4>3. QED  BY <2>2, <3>1, <4>1, <4>2, FS_EmptySet
    <3>3. did = <<>> => Changed(did) = {}
      BY <1>2 DEF Changed
    <3>4. Changed(past'.did) = {n + 1}
      BY <1>1, <1>2, <2>3, <3>2, <3>3 DEF Changed
    <3>5. Cardinality({n + 1}) = 1
      BY FS_Singleton
    <3>6. Cardinality(Changed(past'.did)) = 1
      BY <3>4, <3>5, Zenon
    <3>7. QED  BY <3>6
  <2>4. CASE ~(loop.call \in Effects /\ done)
    <3>1. Changed(past'.did) = Changed(did)
      BY <1>1, <1>2, <2>4 DEF Changed
    <3>2. QED  BY <2>2, <3>1
  <2>5. QED  BY <2>3, <2>4
<1>7. goal.unclear => after = {}
  <2>1. goal.unclear => loop.call \notin Effects
    BY DEF MayRun
  <2>2. goal.unclear => changes = {}
    BY DEF EffectsInScope
  <2>3. QED  BY <1>1, <1>2, <2>1, <2>2
<1>8. Cardinality(wanted) = 1 => \A i \in after : past'.did[i].tool \in wanted
  <2>1. Cardinality(wanted) = 1 /\ loop.call \in Effects => loop.call \in wanted
    BY DEF MayRun
  <2>2. Cardinality(wanted) = 1 => \A i \in changes : did[i].tool \in wanted
    BY DEF EffectsInScope
  <2>3. QED  BY <1>1, <1>2, <2>1, <2>2
<1>9. ~goal.transform
  BY DEF MayRun
<1>10. EffectsInScope'
  <2>1. goal'.exclusive => Cardinality({i \in after : past'.did[i].ok}) <= 1
    BY <1>5, <1>6
  <2>2. goal'.transform => past'.did = <<>>
    BY <1>9
  <2>3. QED
    BY <1>7, <1>8, <2>1, <2>2 DEF EffectsInScope
<1>11. QED
  BY <1>2, <1>3, <1>10

LEMMA ToolRunsStep ==
  ASSUME LoopInv, LoopTypeOK', ToolRuns
  PROVE  LoopInv'
<1>1. PICK result \in Results(loop.call) :
        /\ loop' = [loop EXCEPT !.at = "observe_result", !.result = result]
        /\ past' = [past EXCEPT !.did = Append(@, Result(loop.call, result))]
  BY DEF ToolRuns
<1> DEFINE o == Result(loop.call, result)
<1>2. /\ loop.at = "tool_in_flight" /\ loop'.at = "observe_result" /\ loop'.st = loop.st
      /\ loop'.call = loop.call /\ loop'.direct = loop.direct /\ loop'.result = result
      /\ past'.did = Append(past.did, o) /\ past'.calls = past.calls
      /\ past'.rewound = past.rewound /\ row' = row /\ buf' = buf /\ goal' = goal
      /\ past.did \in Seq(Observation) /\ o \in Observation /\ buf \in Seq(Events)
      /\ o.tool = loop.call
  <2>1. /\ loop \in Loop /\ past \in Past /\ buf \in Seq(Events)
        /\ loop.at = "tool_in_flight" /\ row' = row /\ buf' = buf /\ goal' = goal
    BY DEF ToolRuns, LoopInv, LoopTypeOK
  <2>2. o.tool = loop.call /\ o \in Observation
    BY <2>1 DEF Result, Observation, Loop
  <2> HIDE DEF o
  <2>3. /\ loop'.at = "observe_result" /\ loop'.st = loop.st /\ loop'.call = loop.call
        /\ loop'.direct = loop.direct /\ loop'.result = result
    BY <1>1, <2>1 DEF Loop
  <2>4. /\ past'.did = Append(past.did, o) /\ past'.calls = past.calls
        /\ past'.rewound = past.rewound /\ past.did \in Seq(Observation)
    BY <1>1, <2>1 DEF Past, o
  <2>5. QED  BY <2>1, <2>2, <2>3, <2>4
<1>3. past.did = loop.st.obs /\ MayRun(goal, loop.st, loop.call) /\ Active /\ Active'
  BY <1>2 DEF LoopInv, MemoryIsTrue, Active, InTool
<1>4. MemoryIsTrue'
  BY <1>2, <1>3 DEF LoopInv, MemoryIsTrue
<1>5. RowIsFresh'
  BY <1>2, <1>3 DEF LoopInv, RowIsFresh, Fresh, InTool
<1>6. LateSteps'
  <2>1. SUFFICES ASSUME loop.direct, NEW i \in DOMAIN buf PROVE Lags(buf[i], Strictly)'
    BY <1>2 DEF LateSteps
  <2>2. Lags(buf[i], Strictly) /\ buf[i] \in Events
    BY <1>2, <2>1 DEF LoopInv, LateSteps
  <2>3. Strictly /\ Strictly'
    BY <1>2 DEF Strictly
  <2>4. Len(buf[i].ckpt.st.obs) \in Nat
    BY <2>2, LenProperties DEF Events, Checkpoint, State
  <2>5. QED
    BY <1>2, <2>2, <2>3, <2>4, AppendFacts DEF Lags
<1>7. TipIsFresh'
  BY <1>2, <1>3 DEF LoopInv, TipIsFresh, IsTip, NoStep, Fresh, InTool, RowIsFresh, Active
<1>8. BufferShape'
  BY <1>2, <1>3 DEF LoopInv, BufferShape, Active
<1>9. StoredRun'
  BY <1>2, <1>3 DEF LoopInv, StoredRun, Active
<1>10. EffectsInScope' /\ Len(past'.did) <= MaxIterations
  BY <1>2, <1>3, ScopeStep DEF LoopInv
<1>11. BudgetsHold'
  BY <1>2, <1>10 DEF LoopInv, BudgetsHold
<1>12. QED
  BY <1>4, <1>5, <1>6, <1>7, <1>8, <1>9, <1>10, <1>11 DEF LoopInv

-----------------------------------------------------------------------------
(* Between two executions. *)

\* A loop that is started from a checkpoint which accounts for everything.
LEMMA Restart ==
  ASSUME LoopInv, LoopTypeOK', loop.at = "off", UNCHANGED <<goal, buf, past>>,
         NEW c \in Checkpoint, c.node \in LoopNodes, Knows(c.st), Ready(goal, c),
         row' = [row EXCEPT !.status = "running", !.saved = c], loop' = RunFrom(c)
  PROVE  LoopInv'
<1>1. /\ loop'.at = c.node /\ loop'.st = c.st /\ loop'.call = c.call /\ loop'.direct
  BY RunFromTypes
<1>2. row'.status = "running" /\ row'.saved = c
  BY DEF LoopInv, LoopTypeOK, Row
<1>3. buf' = <<>> /\ Active' /\ loop'.at \notin InTool /\ loop'.at # "closing"
  BY <1>1 DEF LoopInv, BufferShape, Active, LoopNodes, InTool
<1>4. MemoryIsTrue'
  BY <1>1, <1>3 DEF MemoryIsTrue, Knows, Ready, LoopNodes, InTool
<1>5. RowIsFresh'
  BY <1>1, <1>2, <1>3 DEF RowIsFresh, Fresh, Knows
<1>6. LateSteps' /\ TipIsFresh' /\ BufferShape'
  BY <1>1, <1>3 DEF LateSteps, TipIsFresh, BufferShape, Active
<1>7. StoredRun'
  BY <1>1, <1>2, <1>3 DEF StoredRun, Active
<1>8. BudgetsHold' /\ EffectsInScope'
  BY DEF LoopInv, BudgetsHold, EffectsInScope
<1>9. QED
  BY <1>4, <1>5, <1>6, <1>7, <1>8 DEF LoopInv

\* The stored checkpoint, but for the count of attempts.
LEMMA Resumed ==
  ASSUME LoopInv, LoopTypeOK', loop.at = "off", UNCHANGED <<goal, buf, past>>,
         NEW c \in Checkpoint, c.node = row.saved.node, c.call = row.saved.call,
         c.st.used = row.saved.st.used, c.st.obs = row.saved.st.obs,
         c.node \in LoopNodes, Fresh(row.saved),
         row' = [row EXCEPT !.status = "running", !.saved = c], loop' = RunFrom(c)
  PROVE  LoopInv'
<1>1. Knows(c.st)
  BY DEF Fresh, Knows
<1>2. Ready(goal, c)
  BY DEF LoopInv, StoredRun, Ready, MayRun
<1>3. QED
  BY <1>1, <1>2, Restart

LEMMA RestartSteps ==
  ASSUME LoopInv, LoopTypeOK', LateCheckpoints = FALSE,
         \/ StartRun \/ ResumePaused \/ RetryFailedStep
         \/ Recover /\ row.saved.node \in LoopNodes /\ row.saved.st.attempts < MaxAttempts
  PROVE  LoopInv'
<1>1. row \in Row /\ row.saved \in Checkpoint
  BY DEF LoopInv, LoopTypeOK, Row
<1>2. CASE StartRun
  <2> DEFINE c == Saved("extract_intent", FreshState, NoTool)
  <2>1. c \in Checkpoint /\ c.node = "extract_intent" /\ c.st = FreshState
    BY Constructors DEF Calls, LoopNodes, Saved
  <2>2. loop.at = "off" /\ Knows(FreshState)
    BY <1>2 DEF StartRun, LoopInv, StoredRun, Knows, FreshState
  <2>3. Ready(goal, c) /\ c.node \in LoopNodes
    BY <2>1 DEF Ready, LoopNodes
  <2>4. QED
    BY <1>2, <2>1, <2>2, <2>3, Restart DEF StartRun
<1>3. ASSUME row.saved.node \in LoopNodes, ResumeFrom(row.saved), Fresh(row.saved),
             loop.at = "off", UNCHANGED <<goal, buf, past>>
      PROVE  LoopInv'
  <2> DEFINE c == [row.saved EXCEPT !.st.attempts = @ + 1]
  <2>1. /\ c \in Checkpoint /\ c.node = row.saved.node /\ c.call = row.saved.call
        /\ c.st.used = row.saved.st.used /\ c.st.obs = row.saved.st.obs
    BY <1>1, AttemptTypes
  <2>2. row' = [row EXCEPT !.status = "running", !.saved = c] /\ loop' = RunFrom(c)
    BY <1>3 DEF ResumeFrom
  <2> HIDE DEF c
  <2>3. QED
    BY <1>3, <2>1, <2>2, Resumed
<1>4. CASE ResumePaused
  BY <1>3, <1>4 DEF ResumePaused, LoopInv, StoredRun
<1>5. CASE Recover /\ row.saved.node \in LoopNodes /\ row.saved.st.attempts < MaxAttempts
  BY <1>3, <1>5 DEF Recover, LoopInv, StoredRun
<1>6. CASE RetryFailedStep
  <2> DEFINE c == [row.saved EXCEPT !.st.attempts = 0]
  <2>1. /\ c \in Checkpoint /\ c.node = row.saved.node /\ c.call = row.saved.call
        /\ c.st.used = row.saved.st.used /\ c.st.obs = row.saved.st.obs
    BY <1>1, AttemptTypes
  <2>2. row' = [row EXCEPT !.status = "running", !.saved = c] /\ loop' = RunFrom(c)
    BY <1>6 DEF RetryFailedStep
  <2>3. row.saved.node \in LoopNodes /\ loop.at = "off" /\ UNCHANGED <<goal, buf, past>>
    BY <1>6 DEF RetryFailedStep, Retryable, LoopNodes
  <2>4. Fresh(row.saved)
    BY <1>6 DEF RetryFailedStep, LoopInv, StoredRun
  <2> HIDE DEF c
  <2>5. QED
    BY <2>1, <2>2, <2>3, <2>4, Resumed
<1>7. QED
  BY <1>2, <1>4, <1>5, <1>6

\* A run that cannot be resumed fails.
LEMMA GivenUp ==
  ASSUME LoopInv, LoopTypeOK', Recover,
         ~(row.saved.node \in LoopNodes /\ row.saved.st.attempts < MaxAttempts)
  PROVE  LoopInv'
<1>1. /\ row' = [row EXCEPT !.status = "failed", !.saved = NoCheckpoint] /\ row \in Row
      /\ loop' = loop /\ buf' = buf /\ past' = past /\ goal' = goal /\ loop.at = "off"
      /\ buf' = <<>>
  BY DEF Recover, LoopInv, LoopTypeOK, BufferShape
<1>2. /\ row'.status = "failed" /\ row'.saved.node = "none"
  BY <1>1 DEF Row, NoCheckpoint, Saved
<1>3. MemoryIsTrue' /\ RowIsFresh' /\ LateSteps' /\ TipIsFresh' /\ BufferShape'
  BY <1>1 DEF MemoryIsTrue, RowIsFresh, LateSteps, TipIsFresh, BufferShape, Active
<1>4. StoredRun'
  BY <1>1, <1>2 DEF StoredRun, Fresh, Ready, LoopNodes
<1>5. QED
  BY <1>1, <1>3, <1>4 DEF LoopInv, BudgetsHold, EffectsInScope

LEMMA Decided ==
  ASSUME LoopInv, LoopTypeOK', DecidePermission
  PROVE  LoopInv'
<1>1. /\ row \in Row /\ row.status = "waiting" /\ loop.at = "off" /\ buf = <<>>
      /\ goal' = goal /\ past' = past
  BY DEF DecidePermission, LoopInv, LoopTypeOK, BufferShape
<1>2. BudgetsHold' /\ EffectsInScope'
  BY <1>1 DEF LoopInv, BudgetsHold, EffectsInScope
<1>3. ASSUME NEW next \in Checkpoint, next = Saved("tool_in_flight", row.wait.st, row.wait.call),
             row' = [row EXCEPT !.status = "running", !.saved = next],
             loop' = [RunFrom(next) EXCEPT !.direct = FALSE, !.approved = TRUE], buf' = buf
      PROVE  LoopInv'
  <2>1. next.node = "tool_in_flight" /\ next.st = row.wait.st /\ next.call = row.wait.call
    BY <1>3 DEF Saved
  <2>2. RunFrom(next) \in Loop /\ RunFrom(next).at = "tool_in_flight"
        /\ RunFrom(next).st = next.st /\ RunFrom(next).call = next.call
    BY <2>1, RunFromTypes
  <2>3. loop'.at = "tool_in_flight" /\ loop'.st = next.st /\ loop'.call = next.call
        /\ ~loop'.direct
    BY <1>3, <2>2 DEF Loop
  <2>4. row'.status = "running" /\ row'.saved = next
    BY <1>1, <1>3 DEF Row
  <2>5. MemoryIsTrue'
    BY <1>1, <2>1, <2>3 DEF LoopInv, StoredRun, MemoryIsTrue, Knows, InTool
  <2>6. RowIsFresh' /\ LateSteps' /\ TipIsFresh' /\ BufferShape'
    BY <1>1, <1>3, <2>1, <2>3, <2>4
    DEF RowIsFresh, LateSteps, TipIsFresh, BufferShape, Active, Fresh, LoopNodes
  <2>7. StoredRun'
    BY <2>1, <2>3, <2>4 DEF StoredRun, Ready
  <2>8. QED
    BY <1>2, <2>5, <2>6, <2>7 DEF LoopInv
<1>4. CASE /\ row' = [row EXCEPT !.status = "running"]
           /\ loop' = [Off EXCEPT !.at = "closing"]
           /\ buf' = <<Event("failed", NoCheckpoint)>>
  <2>1. row'.status = "running" /\ row'.saved = row.saved
    BY <1>1, <1>4 DEF Row
  <2>2. loop'.at = "closing" /\ ~loop'.direct
    BY <1>4 DEF Off
  <2>3. /\ DOMAIN buf' = {1} /\ Len(buf') = 1 /\ buf' # <<>> /\ buf'[1].kind = "failed"
        /\ ~buf'[1].retry /\ buf'[1].ckpt.node = "none"
    BY <1>4 DEF Event, NoCheckpoint, Saved
  <2>4. MemoryIsTrue' /\ RowIsFresh' /\ LateSteps'
    BY <2>2 DEF MemoryIsTrue, RowIsFresh, LateSteps, Active
  <2>5. TipIsFresh'
    BY <2>2, <2>3 DEF TipIsFresh
  <2>6. BufferShape'
    BY <2>2, <2>3 DEF BufferShape, Active, Ready
  <2>7. StoredRun'
    BY <1>1, <2>1, <2>2 DEF LoopInv, StoredRun
  <2>8. QED
    BY <1>2, <2>4, <2>5, <2>6, <2>7 DEF LoopInv
<1>5. Saved("tool_in_flight", row.wait.st, row.wait.call) \in Checkpoint
  BY <1>1, Constructors DEF Row, Checkpoint
<1>6. QED
  BY <1>3, <1>4, <1>5 DEF DecidePermission

LEMMA Crashed ==
  ASSUME LoopInv, LoopTypeOK', LateCheckpoints = FALSE, Crash
  PROVE  LoopInv'
<1>1. /\ loop.at # "off"
      /\ loop.at = "closing" => ClosesSafely
      /\ loop'.at = "off" /\ buf' = <<>> /\ goal' = goal /\ row' = row /\ past' = past
  BY DEF Crash, Off
<1>2. Fresh(row.saved)
  <2>1. CASE loop.at = "closing"
    BY <1>1, <2>1 DEF ClosesSafely, LoopInv, RowIsFresh
  <2>2. CASE Active
    BY <2>2 DEF LoopInv, RowIsFresh, Fresh
  <2>3. QED  BY <1>1, <2>1, <2>2 DEF Active
<1>3. MemoryIsTrue' /\ RowIsFresh' /\ LateSteps' /\ TipIsFresh' /\ BufferShape'
  BY <1>1 DEF MemoryIsTrue, RowIsFresh, LateSteps, TipIsFresh, BufferShape, Active
<1>4. StoredRun'
  BY <1>1, <1>2 DEF LoopInv, StoredRun, Fresh, Knows
<1>5. QED
  BY <1>1, <1>3, <1>4 DEF LoopInv, BudgetsHold, EffectsInScope

-----------------------------------------------------------------------------
(* What was buffered is published. *)

\* The first event, when others follow: a step, and in the row it is either as
\* fresh as what it replaces, or it is recognised as older.
LEMMA FirstOfMany ==
  ASSUME LoopInv, LoopTypeOK', PublishNext, Len(buf) # 1
  PROVE  LoopInv'
<1> DEFINE e == buf[1]
<1>1. buf \in Seq(Events) /\ buf # <<>> /\ loop.at = "closing" /\ row.status = "running"
      /\ row \in Row /\ past \in Past /\ row.saved \in Checkpoint
  BY DEF PublishNext, LoopInv, LoopTypeOK, BufferShape, StoredRun, Row
<1>2. /\ Len(buf) \in Nat /\ Len(buf) > 1 /\ DOMAIN buf = 1 .. Len(buf) /\ e \in Events
      /\ Head(buf) = e /\ Len(Tail(buf)) = Len(buf) - 1
      /\ DOMAIN Tail(buf) = 1 .. Len(buf) - 1
      /\ \A i \in 1 .. Len(buf) - 1 : Tail(buf)[i] = buf[i + 1]
  <2>1. Len(buf) \in Nat /\ Len(buf) # 0 /\ DOMAIN buf = 1 .. Len(buf)
    BY <1>1, LenProperties, EmptySeq
  <2>2. Len(buf) > 1
    BY <2>1
  <2>3. Tail(buf) \in Seq(Events) /\ Len(Tail(buf)) = Len(buf) - 1 /\ Head(buf) = e
        /\ \A i \in 1 .. Len(buf) - 1 : Tail(buf)[i] = buf[i + 1]
    BY <1>1, <2>1, HeadTailProperties
  <2>4. DOMAIN Tail(buf) = 1 .. Len(buf) - 1
    BY <2>3, LenProperties
  <2>5. e \in Events
    BY <1>1, <2>1, <2>2, ElementOfSeq
  <2>6. QED  BY <2>1, <2>2, <2>3, <2>4, <2>5
<1>3. e.kind = "step" /\ Ready(goal, e.ckpt)
  BY <1>1, <1>2 DEF LoopInv, BufferShape
<1>4. /\ goal' = goal /\ loop' = loop /\ buf' = Tail(buf)
      /\ row' = [row EXCEPT !.saved = e.ckpt] /\ past'.did = past.did
      /\ past'.calls = past.calls
      /\ past'.rewound = (past.rewound \/ Older(e.ckpt, row.saved))
  BY <1>1, <1>2, <1>3 DEF PublishNext, Recorded, Past
<1>5. row'.saved = e.ckpt /\ row'.status = "running"
  BY <1>1, <1>4 DEF Row
<1>6. buf' # <<>>
  <2>1. Len(buf') > 0
    BY <1>2, <1>4
  <2>2. Len(<<>>) = 0
    BY EmptySeq
  <2>3. QED  BY <2>1, <2>2
<1>7. MemoryIsTrue' /\ BudgetsHold' /\ EffectsInScope'
  BY <1>1, <1>4 DEF LoopInv, MemoryIsTrue, Active, BudgetsHold, EffectsInScope
<1>8. RowIsFresh'
  <2>1. SUFFICES ASSUME loop.direct, ~past'.rewound
                 PROVE  Knows(e.ckpt.st)
    BY <1>1, <1>4, <1>5 DEF RowIsFresh, Active, Fresh, Knows
  <2>2. Fresh(row.saved) /\ row.saved.st.used = past.calls /\ ~Older(e.ckpt, row.saved)
        /\ ~past.rewound
    BY <1>1, <1>4, <2>1 DEF LoopInv, RowIsFresh
  <2>3. Lags(e, Strictly)
    BY <1>2, <2>1 DEF LoopInv, LateSteps
  <2>4. /\ e.ckpt.node \in LoopNodes /\ e.ckpt.st.used <= past.calls
        /\ Strictly => e.ckpt.st.used < past.calls
        /\ Len(e.ckpt.st.obs) <= Len(past.did)
        /\ \A k \in 1 .. Len(e.ckpt.st.obs) : e.ckpt.st.obs[k] = past.did[k]
    BY <1>3, <2>3 DEF Lags, LoopNodes
  <2>5. /\ e.ckpt.st.used \in Nat /\ past.calls \in Nat /\ e.ckpt.st.obs \in Seq(Observation)
        /\ past.did \in Seq(Observation) /\ row.saved.st.obs \in Seq(Observation)
    BY <1>1, <1>2 DEF Events, Checkpoint, State, Past
  <2>6. e.ckpt.st.used >= past.calls /\ Len(e.ckpt.st.obs) >= Len(row.saved.st.obs)
    BY <2>2, <2>4, <2>5, LenProperties DEF Older
  <2>7. row.saved.node \in LoopNodes
    BY <1>1, <2>2, <2>4, <2>5, <2>6 DEF Strictly
  <2>8. Len(e.ckpt.st.obs) = Len(past.did)
    BY <2>2, <2>4, <2>5, <2>6, <2>7, LenProperties DEF Fresh, Knows
  <2>9. e.ckpt.st.obs = past.did
    BY <2>4, <2>5, <2>8, SeqEqual
  <2>10. QED
    BY <2>4, <2>5, <2>6, <2>9 DEF Knows
<1>9. LateSteps'
  <2>1. SUFFICES ASSUME loop.direct, NEW i \in DOMAIN buf' PROVE Lags(buf[i], Strictly)'
    BY <1>4 DEF LateSteps
  <2>2. Lags(buf[i + 1], Strictly) /\ Lags(e, Strictly) /\ buf'[i] = buf[i + 1]
    BY <1>2, <1>4, <2>1 DEF LoopInv, LateSteps
  <2>3. e.ckpt.node = "call_model"
    BY <1>3, <2>2 DEF Lags
  <2>4. ~Strictly'
    BY <1>1, <1>4, <1>5, <2>3 DEF Strictly, LoopNodes
  <2>5. QED
    BY <1>4, <2>2, <2>4 DEF Lags
<1>10. TipIsFresh'
  <2>1. SUFFICES ASSUME ~loop.direct, buf'[Len(buf')].retry
                 PROVE  /\ \A i \in DOMAIN buf' : IsTip(i)' => Fresh(buf'[i].ckpt)
                        /\ NoStep' => Fresh(e.ckpt)
    BY <1>1, <1>4, <1>5 DEF TipIsFresh, Fresh, Knows, InTool
  <2>2. buf[Len(buf)].retry
    BY <1>2, <1>4, <2>1
  <2>3. \A i \in DOMAIN buf : IsTip(i) => Fresh(buf[i].ckpt)
    BY <1>1, <2>1, <2>2 DEF LoopInv, TipIsFresh
  <2>4. ASSUME NEW i \in DOMAIN buf', IsTip(i)' PROVE Fresh(buf'[i].ckpt)
    <3>1. \A j \in DOMAIN buf : j > i + 1 => buf[j].kind # "step"
      <4>1. SUFFICES ASSUME NEW j \in DOMAIN buf, j > i + 1 PROVE buf[j].kind # "step"
        OBVIOUS
      <4>2. j - 1 \in DOMAIN buf' /\ j - 1 > i /\ buf'[j - 1] = buf[j]
        BY <1>2, <1>4, <2>4, <4>1
      <4>3. QED  BY <2>4, <4>2 DEF IsTip
    <3>2. i + 1 \in DOMAIN buf /\ buf'[i] = buf[i + 1] /\ buf'[i].kind = "step"
      BY <1>2, <1>4, <2>4 DEF IsTip
    <3>3. IsTip(i + 1)
      BY <3>1, <3>2 DEF IsTip
    <3>4. QED  BY <2>3, <3>2, <3>3
  <2>5. ASSUME NoStep' PROVE Fresh(e.ckpt)
    <3>1. \A j \in DOMAIN buf : j > 1 => buf[j].kind # "step"
      <4>1. SUFFICES ASSUME NEW j \in DOMAIN buf, j > 1 PROVE buf[j].kind # "step"
        OBVIOUS
      <4>2. j - 1 \in DOMAIN buf' /\ buf'[j - 1] = buf[j]
        BY <1>2, <1>4, <4>1
      <4>3. QED  BY <2>5, <4>2 DEF NoStep
    <3>2. IsTip(1)
      BY <1>3, <3>1 DEF IsTip
    <3>3. QED  BY <1>2, <2>3, <3>2
  <2>6. QED  BY <2>4, <2>5
<1>11. BufferShape'
  <2>1. SUFFICES ASSUME NEW i \in DOMAIN buf'
                 PROVE  /\ Ready(goal, buf'[i].ckpt)
                        /\ buf'[i].kind = "permission" <=> buf'[i].ckpt.node = "permission"
                        /\ buf'[i].kind = "step" <=> i < Len(buf')
                        /\ buf'[i].retry => buf'[i].kind = "failed"
                        /\ buf'[i].kind = "paused" =>
                             Fresh(buf'[i].ckpt) /\ buf'[i].ckpt.node \in LoopNodes
                        /\ buf'[i].kind = "permission" => Knows(buf'[i].ckpt.st)
                        /\ buf'[i].kind = "completed" =>
                             loop.st.obs = past.did /\ Missing(loop.st) = {}
    BY <1>1, <1>4, <1>6 DEF BufferShape, Active, Fresh, Knows, Missing, Clarifies, Excused, Succeeded, TargetThere
  <2>2. /\ i + 1 \in DOMAIN buf /\ buf'[i] = buf[i + 1]
        /\ i < Len(buf') <=> i + 1 < Len(buf)
    BY <1>2, <1>4, <2>1
  <2>3. QED
    BY <1>1, <2>2 DEF LoopInv, BufferShape, Active
<1>12. StoredRun'
  BY <1>1, <1>3, <1>4, <1>5 DEF StoredRun
<1>13. QED
  BY <1>7, <1>8, <1>9, <1>10, <1>11, <1>12 DEF LoopInv

\* The last event ends the loop and leaves a row that can be gone on from.
LEMMA LastEvent ==
  ASSUME LoopInv, LoopTypeOK', PublishNext, Len(buf) = 1
  PROVE  LoopInv'
<1> DEFINE e == buf[1]
<1>1. buf \in Seq(Events) /\ buf # <<>> /\ loop.at = "closing" /\ row.status = "running"
      /\ row \in Row /\ past \in Past /\ row.saved \in Checkpoint /\ DOMAIN buf = {1}
      /\ e \in Events /\ Head(buf) = e /\ Tail(buf) = <<>>
  <2>1. buf \in Seq(Events) /\ buf # <<>> /\ loop.at = "closing" /\ row.status = "running"
        /\ row \in Row /\ past \in Past /\ row.saved \in Checkpoint
    BY DEF PublishNext, LoopInv, LoopTypeOK, BufferShape, StoredRun, Row
  <2>2. DOMAIN buf = {1} /\ e \in Events /\ Head(buf) = e
    BY <2>1, LenProperties, HeadTailProperties
  <2>3. Tail(buf) \in Seq(Events) /\ Len(Tail(buf)) = 0
    BY <2>1, HeadTailProperties
  <2>4. Tail(buf) = <<>>
    BY <2>3, EmptySeq
  <2>5. QED  BY <2>1, <2>2, <2>4
<1>2. /\ goal' = goal /\ loop'.at = "off" /\ buf' = <<>> /\ row' = Recorded(row, e)
      /\ past'.did = past.did /\ past'.calls = past.calls
      /\ past.rewound => past'.rewound
  BY <1>1 DEF PublishNext, Off, Past
<1>3. /\ Ready(goal, e.ckpt) /\ e.kind # "step"
      /\ e.kind = "permission" => e.ckpt.node = "permission"
      /\ e.retry => e.kind = "failed"
      /\ e.kind = "paused" => Fresh(e.ckpt) /\ e.ckpt.node \in LoopNodes
      /\ e.kind = "permission" => Knows(e.ckpt.st)
  BY <1>1 DEF LoopInv, BufferShape, Active
<1>4. e.retry => past.rewound \/ Fresh(row.saved)
  <2>1. CASE loop.direct
    BY <1>1, <2>1 DEF LoopInv, RowIsFresh
  <2>2. CASE ~loop.direct
    BY <1>1, <1>3, <2>2 DEF LoopInv, TipIsFresh, NoStep
  <2>3. QED  BY <2>1, <2>2
<1>5. NoCheckpoint.node = "none"
  BY DEF NoCheckpoint, Saved
<1>6. StoredRun'
  <2>1. SUFFICES /\ Ready(goal, row'.saved) /\ row'.status \notin {"queued", "running"}
                 /\ row'.status = "paused" => Fresh(row'.saved) /\ row'.saved.node \in LoopNodes
                 /\ row'.status = "failed" => past.rewound \/ Fresh(row'.saved)
                 /\ row'.status = "waiting" =>
                      Knows(row'.wait.st) /\ MayRun(goal, row'.wait.st, row'.wait.call)
    BY <1>2 DEF StoredRun, Fresh, Knows
  <2>2. Ready(goal, row.saved)
    BY DEF LoopInv, StoredRun
  <2>3. CASE e.kind = "paused"
    BY <1>1, <1>2, <1>3, <2>3 DEF Recorded, Row
  <2>4. CASE e.kind = "permission"
    BY <1>1, <1>2, <1>3, <2>2, <2>4 DEF Recorded, Row, Ready
  <2>5. CASE e.kind = "failed"
    <3>1. /\ row'.status = "failed"
          /\ (e.retry /\ row'.saved = row.saved) \/ row'.saved = NoCheckpoint
      BY <1>1, <1>2, <2>5 DEF Recorded, Row
    <3>2. Ready(goal, NoCheckpoint) /\ Fresh(NoCheckpoint)
      BY <1>5 DEF Ready, Fresh, LoopNodes
    <3>3. Ready(goal, row'.saved) /\ (past.rewound \/ Fresh(row'.saved))
      BY <1>4, <2>2, <3>1, <3>2, Zenon
    <3>4. row'.status \notin {"queued", "running", "paused", "waiting"}
      BY <3>1
    <3>5. QED  BY <3>3, <3>4, Zenon
  <2>6. CASE e.kind \in {"completed", "cancelled"}
    <3>1. row'.status = e.kind /\ row'.saved = NoCheckpoint
      BY <1>1, <1>2, <2>6 DEF Recorded, Row
    <3>2. QED  BY <1>5, <2>6, <3>1 DEF Ready
  <2>7. QED  BY <1>1, <1>3, <2>3, <2>4, <2>5, <2>6 DEF Events
<1>7. MemoryIsTrue' /\ RowIsFresh' /\ LateSteps' /\ TipIsFresh' /\ BufferShape'
  BY <1>2 DEF MemoryIsTrue, RowIsFresh, LateSteps, TipIsFresh, BufferShape, Active
<1>8. QED
  BY <1>2, <1>6, <1>7 DEF LoopInv, BudgetsHold, EffectsInScope

-----------------------------------------------------------------------------
(* The steps of the loop, one by one. *)

\* What every step of an active loop starts from.
LEMMA ActiveFacts ==
  ASSUME LoopInv, Active
  PROVE  /\ loop \in Loop /\ loop.st \in State /\ loop.call \in Calls /\ past \in Past
         /\ loop.st.used = past.calls /\ past.calls \in Nat /\ past.calls <= MaxModelCalls
         /\ loop.at # "observe_result" => Knows(loop.st)
         /\ loop.at \in InTool \cup {"execute_tool"} => MayRun(goal, loop.st, loop.call)
  BY DEF LoopInv, LoopTypeOK, Loop, Past, MemoryIsTrue, BudgetsHold, Knows

LEMMA Failing ==
  ASSUME LoopInv, LoopTypeOK', Active, NEW retry \in BOOLEAN, Fails(retry),
         UNCHANGED <<goal, past>>
  PROVE  LoopInv'
<1>1. PICK e \in Events : /\ e = [Event("failed", NoCheckpoint) EXCEPT !.retry = retry]
                          /\ e.kind = "failed" /\ e.ckpt.node = "none"
  BY FailureIsEvent DEF Event, NoCheckpoint, Saved
<1>2. CloseWith(e)
  BY <1>1 DEF Fails
<1>3. Ready(goal, e.ckpt)
  BY <1>1 DEF Ready
<1>4. QED
  BY <1>1, <1>2, <1>3, StepCloses

LEMMA Closing ==
  ASSUME LoopInv, LoopTypeOK', Active, NEW kind \in {"completed", "cancelled"},
         CloseWith(Event(kind, NoCheckpoint)), UNCHANGED <<goal, past>>,
         kind = "completed" => loop.st.obs = past.did /\ Missing(loop.st) = {}
  PROVE  LoopInv'
<1>1. PICK e \in Events : /\ e = Event(kind, NoCheckpoint) /\ e.kind = kind
                          /\ e.ckpt.node = "none" /\ e.retry = FALSE
  <2>1. Event(kind, NoCheckpoint) \in Events
    BY Constructors
  <2>2. QED  BY <2>1 DEF Event, NoCheckpoint, Saved
<1>2. CloseWith(e) /\ Ready(goal, e.ckpt)
  BY <1>1 DEF Ready
<1>3. QED
  BY <1>1, <1>2, StepCloses

\* A step is published that changes neither what was called nor what was run.
LEMMA GoesOn ==
  ASSUME LoopInv, LoopTypeOK', Active, loop.at \notin InTool \cup {"call_model"},
         NEW node \in LoopNodes \cup {"tool_in_flight"},
         NEW st \in State, NEW call \in Calls, st.used = loop.st.used, st.obs = loop.st.obs,
         PublishAndGo(node, st, call), UNCHANGED <<goal, past>>,
         node \in {"execute_tool", "tool_in_flight"} => MayRun(goal, st, call)
  PROVE  LoopInv'
<1>1. /\ PublishNow(Step(node, st, call)) /\ loop'.at = node /\ loop'.st = st
      /\ loop'.call = call /\ loop'.direct = loop.direct
  BY ActiveFacts DEF PublishAndGo, Goto, Loop
<1>2. Active' /\ loop'.at # "observe_result"
  BY <1>1 DEF Active, LoopNodes
<1>3. /\ st.used = past'.calls /\ st.obs = past'.did /\ past'.did = past.did
      /\ past'.rewound = past.rewound /\ past'.calls >= past.calls
      /\ past'.calls <= MaxModelCalls
  BY ActiveFacts DEF Knows, InTool
<1>4. QED
  BY <1>1, <1>2, <1>3, StepPublished

LEMMA CallStartsStep ==
  ASSUME LoopInv, LoopTypeOK', NEW node \in {"extract_intent", "call_model"},
         NEW calling \in {"intent_call", "model_call"}, CallStarts(node, calling)
  PROVE  LoopInv'
<1> DEFINE st == Counted(loop.st)
<1>1. loop.at = node /\ loop.st.used < MaxModelCalls /\ Active
      /\ PublishNow(Step(node, st, NoTool)) /\ goal' = goal
  BY DEF CallStarts, Active
<1>2. loop.st \in State /\ loop \in Loop /\ past \in Past /\ past.calls \in Nat
      /\ loop.st.used = past.calls /\ loop.st.obs = past.did
  BY <1>1, ActiveFacts DEF Knows
<1>3. st \in State /\ st.used = past.calls + 1 /\ st.obs = past.did
  BY <1>2, StateTypes DEF Counted, State
<1>4. past'.calls = past.calls + 1 /\ past'.did = past.did /\ past'.rewound = past.rewound
  BY <1>2 DEF CallStarts, Past
<1>5. past'.calls > past.calls /\ past'.calls <= MaxModelCalls
  BY <1>1, <1>2, <1>4, LoopAssumption
<1>6. loop'.at = calling /\ loop'.st = st /\ loop'.direct = loop.direct
  BY <1>2 DEF CallStarts, Goto, Loop
<1>7. Active' /\ NoTool \in Calls /\ node \in LoopNodes /\ loop'.at # "observe_result"
      /\ ~("execute_tool" \in {node, loop'.at}) /\ node # "tool_in_flight"
      /\ loop'.at # "tool_in_flight"
  BY <1>6 DEF Active, Calls, LoopNodes
<1> HIDE DEF st
<1>8. st.used = past'.calls /\ st.obs = past'.did /\ past'.calls >= past.calls
  BY <1>2, <1>3, <1>4
<1>9. QED
  BY <1>1, <1>3, <1>4, <1>5, <1>6, <1>7, <1>8, StepPublished

LEMMA IntentStep ==
  ASSUME LoopInv, LoopTypeOK', IntentCallEnds
  PROVE  LoopInv'
<1>1. loop.at = "intent_call" /\ Active /\ UNCHANGED <<goal, past>> /\ NoTool \in Calls
      /\ loop.at \notin InTool \cup {"call_model"}
  BY DEF IntentCallEnds, Active, Calls, InTool
<1>2. loop.st \in State
  BY <1>1, ActiveFacts
<1>3. ASSUME NEW intent \in {"known", "unknown"}, Understood(intent) PROVE LoopInv'
  <2>1. PICK st \in State : st = [loop.st EXCEPT !.intent = intent]
    BY <1>2, StateTypes
  <2>2. st.used = loop.st.used /\ st.obs = loop.st.obs
    BY <1>2, <2>1 DEF State
  <2>3. PublishAndGo("call_model", st, NoTool)
    BY <1>3, <2>1 DEF Understood
  <2>4. QED
    BY <1>1, <2>2, <2>3, GoesOn DEF LoopNodes
<1>4. ASSUME NEW retry \in BOOLEAN, Fails(retry) PROVE LoopInv'
  BY <1>1, <1>4, Failing
<1>5. ASSUME PublishAndGo("extract_intent", [loop.st EXCEPT !.rejected = @ + 1], NoTool)
      PROVE  LoopInv'
  <2>1. PICK st \in State : st = [loop.st EXCEPT !.rejected = @ + 1]
    BY <1>2, StateTypes
  <2>2. st.used = loop.st.used /\ st.obs = loop.st.obs
    BY <1>2, <2>1 DEF State
  <2>3. PublishAndGo("extract_intent", st, NoTool)
    BY <1>5, <2>1
  <2>4. QED
    BY <1>1, <2>2, <2>3, GoesOn DEF LoopNodes
<1>6. CASE IntentOutputInvalid
  BY <1>3, <1>4, <1>5, <1>6 DEF IntentOutputInvalid
<1>7. QED
  BY <1>3, <1>4, <1>6 DEF IntentCallEnds

\* The model is called again: with nothing published, or with a late step.
LEMMA CalledAgain ==
  ASSUME LoopInv, LoopTypeOK', loop.at \in {"validate_action", "model_call"},
         NEW st \in State, st.used = loop.st.used, st.obs = loop.st.obs,
         RetryModel(st), UNCHANGED <<goal, past>>,
         Silent \/ Later(Step("call_model", st, NoTool))
  PROVE  LoopInv'
<1>1. Active
  BY DEF Active
<1>2. loop'.at = "call_model" /\ loop'.st = st /\ loop'.direct = loop.direct
  BY <1>1, ActiveFacts DEF RetryModel, Goto, Loop
<1>3. CASE Silent
  BY <1>1, <1>2, <1>3, StepSilent DEF Silent, InTool
<1>4. CASE Later(Step("call_model", st, NoTool))
  BY <1>2, <1>4, StepLate
<1>5. QED
  BY <1>3, <1>4

LEMMA ModelStep ==
  ASSUME LoopInv, LoopTypeOK', ModelCallEnds
  PROVE  LoopInv'
<1>1. loop.at = "model_call" /\ Active /\ UNCHANGED <<goal, past>>
  BY DEF ModelCallEnds, Active
<1>2. loop.st \in State /\ loop \in Loop
  BY <1>1, ActiveFacts
<1>3. ASSUME NEW retry \in BOOLEAN, Fails(retry) PROVE LoopInv'
  BY <1>1, <1>3, Failing
<1>4. ASSUME NEW a \in Answers(loop.st), Goto("validate_action", loop.st, a), Silent
      PROVE  LoopInv'
  <2>1. loop'.at = "validate_action" /\ loop'.st = loop.st /\ loop'.direct = loop.direct
    BY <1>2, <1>4 DEF Goto, Loop
  <2>2. QED
    BY <1>1, <1>4, <2>1, StepSilent DEF Silent, InTool
<1>5. CASE ModelOutputInvalid /\ loop.st.malformed < 1
  <2>1. PICK st \in State : st = [loop.st EXCEPT !.malformed = @ + 1, !.feedback = TRUE]
    BY <1>2, StateTypes
  <2>2. st.used = loop.st.used /\ st.obs = loop.st.obs
    BY <1>2, <2>1 DEF State
  <2>3. Later(Step("call_model", st, NoTool)) /\ RetryModel(st)
    BY <1>5, <2>1 DEF ModelOutputInvalid
  <2>4. QED
    BY <1>1, <2>2, <2>3, CalledAgain
<1>6. CASE ModelOutputInvalid /\ ~(loop.st.malformed < 1)
  BY <1>3, <1>6 DEF ModelOutputInvalid
<1>7. QED
  BY <1>3, <1>4, <1>5, <1>6 DEF ModelCallEnds

\* The effect guard and the answer guard.
LEMMA Guards ==
  ASSUME LoopInv, LoopTypeOK', loop.at = "validate_action", UNCHANGED <<goal, past>>,
         NEW st \in State, st.used = loop.st.used, st.obs = loop.st.obs,
         Insist(st) \/ Rewrite(st)
  PROVE  LoopInv'
<1>1. Active
  BY DEF Active
<1>2. CASE Fails(FALSE)
  BY <1>1, <1>2, Failing
<1>3. ASSUME RetryModel([st EXCEPT !.guard = @ + 1, !.feedback = TRUE]), Silent PROVE LoopInv'
  <2>1. PICK next \in State : next = [st EXCEPT !.guard = @ + 1, !.feedback = TRUE]
    BY StateTypes
  <2>2. next.used = loop.st.used /\ next.obs = loop.st.obs
    BY <2>1 DEF State
  <2>3. RetryModel(next)
    BY <1>3, <2>1
  <2>4. QED
    BY <1>3, <2>2, <2>3, CalledAgain
<1>4. ASSUME NEW next, next = [st EXCEPT !.rewrites = @ + 1],
             Later(Step("call_model", next, NoTool)), RetryModel(next)
      PROVE  LoopInv'
  <2>1. next \in State /\ next.used = loop.st.used /\ next.obs = loop.st.obs
    BY <1>4, StateTypes DEF State
  <2>2. QED
    BY <1>4, <2>1, CalledAgain
<1>5. CASE Insist(st)
  BY <1>2, <1>3, <1>5 DEF Insist
<1>6. CASE Rewrite(st)
  BY <1>2, <1>4, <1>6 DEF Rewrite
<1>7. QED
  BY <1>5, <1>6

LEMMA ValidateFinishStep ==
  ASSUME LoopInv, LoopTypeOK', ValidateFinish
  PROVE  LoopInv'
<1>1. loop.at = "validate_action" /\ Active /\ UNCHANGED <<goal, past>>
  BY DEF ValidateFinish, Active
<1>2. loop.st \in State /\ loop.st.obs = past.did
  BY <1>1, ActiveFacts DEF Knows
<1>3. PICK st \in State : st = [loop.st EXCEPT !.last = "finish"]
  BY <1>2, StateTypes
<1>4. st.used = loop.st.used /\ st.obs = loop.st.obs /\ st.intent = loop.st.intent
  BY <1>2, <1>3 DEF State
<1>5. Missing(st) = Missing(loop.st)
  BY <1>4 DEF Missing, Clarifies
<1>6. \/ Fails(FALSE) \/ Insist(st) \/ Rewrite(st)
      \/ Missing(st) = {} /\ CloseWith(Event("completed", NoCheckpoint))
  BY <1>3 DEF ValidateFinish
<1>7. CASE Fails(FALSE)
  BY <1>1, <1>7, Failing
<1>8. CASE Insist(st) \/ Rewrite(st)
  BY <1>1, <1>4, <1>8, Guards
<1>9. CASE Missing(st) = {} /\ CloseWith(Event("completed", NoCheckpoint))
  BY <1>1, <1>2, <1>5, <1>9, Closing
<1>10. QED
  BY <1>6, <1>7, <1>8, <1>9

\* A call that validation lets pass may be run.
LEMMA AllowedMayRun ==
  ASSUME LoopTypeOK, NEW st \in State, NEW call,
         HostAction(st, call) # Finish, Verdict(st, HostAction(st, call)) = "allowed"
  PROVE  MayRun(goal, st, HostAction(st, call))
<1> DEFINE a == HostAction(st, call)
<1>1. /\ ~(Iteration(st) >= MaxIterations) /\ ~goal.transform /\ ~Mismatch(a)
      /\ Objection(st, a) = "none"
  BY DEF Verdict, Objection
<1>2. a = call /\ (goal.unclear => a \in Sources)
  BY DEF HostAction
<1>3. a \in Effects => ~goal.unclear
  BY <1>2, LoopAssumption
<1>4. a \in Effects /\ Cardinality(goal.required \cap Effects) = 1 => a \in goal.required
  BY <1>1 DEF Mismatch
<1>5. a \in Effects /\ goal.exclusive /\ st.obs # <<>> => Cardinality(Changed(st.obs)) # 1
  <2>1. SUFFICES ASSUME a \in Effects, goal.exclusive, st.obs # <<>>,
                        Cardinality(Changed(st.obs)) = 1
                 PROVE  FALSE
    OBVIOUS
  <2>2. a \notin Sources
    BY <2>1, LoopAssumption
  <2>3. Cardinality({i \in DOMAIN st.obs : st.obs[i].ok /\ st.obs[i].tool \in Effects}) = 1
    BY <2>1 DEF Changed
  <2>4. Objection(st, a) = "WORKSPACE_EFFECT_SCOPE_SATISFIED"
    BY <2>1, <2>2, <2>3 DEF Objection
  <2>5. QED  BY <1>1, <2>4
<1>6. Len(st.obs) < MaxIterations
  <2>1. Len(st.obs) \in Nat /\ MaxIterations \in Nat
    BY LoopAssumption, LenProperties DEF State
  <2>2. QED  BY <1>1, <2>1 DEF Iteration
<1>7. QED
  BY <1>1, <1>3, <1>4, <1>5, <1>6 DEF MayRun

LEMMA ValidateCallStep ==
  ASSUME LoopInv, LoopTypeOK', ValidateCall
  PROVE  LoopInv'
<1> DEFINE st == loop.st
           a == HostAction(st, loop.call)
           verdict == Verdict(st, a)
<1>1. loop.at = "validate_action" /\ Active /\ UNCHANGED <<goal, past>> /\ a # Finish
  BY DEF ValidateCall, Active
<1>2. st \in State /\ loop.call \in Calls
  BY <1>1, ActiveFacts
<1>3. /\ ~(Fails(FALSE) \/ Rewrite(st) \/ Insist(st))
      /\ ~(verdict = "allowed" /\ PublishAndGo("execute_tool", st, a))
      => /\ verdict \in Objections /\ Silent
         /\ RetryModel([st EXCEPT !.last = verdict, !.feedback = TRUE])
  BY DEF ValidateCall
<1>4. CASE Fails(FALSE)
  BY <1>1, <1>4, Failing
<1>5. CASE Rewrite(st) \/ Insist(st)
  BY <1>1, <1>2, <1>5, Guards
<1>6. ASSUME verdict \in Objections, Silent,
             RetryModel([st EXCEPT !.last = verdict, !.feedback = TRUE])
      PROVE  LoopInv'
  <2> HIDE DEF verdict
  <2>1. PICK next \in State : next = [st EXCEPT !.last = verdict, !.feedback = TRUE]
    BY <1>2, <1>6, StateTypes
  <2>2. next.used = st.used /\ next.obs = st.obs
    BY <1>2, <2>1 DEF State
  <2>3. RetryModel(next)
    BY <1>6, <2>1
  <2>4. QED
    BY <1>1, <1>6, <2>2, <2>3, CalledAgain
<1>7. CASE verdict = "allowed" /\ PublishAndGo("execute_tool", st, a)
  <2>1. MayRun(goal, st, a)
    BY <1>1, <1>2, <1>7, AllowedMayRun DEF LoopInv
  <2>2. a \in Calls
    BY <1>2 DEF HostAction, Calls
  <2>3. loop.at \notin InTool \cup {"call_model"}
    BY <1>1 DEF InTool
  <2> HIDE DEF a
  <2>4. QED
    BY <1>1, <1>2, <1>7, <2>1, <2>2, <2>3, GoesOn DEF LoopNodes
<1>8. QED
  BY <1>3, <1>4, <1>5, <1>6, <1>7

LEMMA ToolStartsStep ==
  ASSUME LoopInv, LoopTypeOK', ToolStarts
  PROVE  LoopInv'
<1>1. /\ loop.at = "execute_tool" /\ Active /\ UNCHANGED <<goal, past>>
      /\ PublishAndGo("tool_in_flight", loop.st, loop.call)
      /\ loop.at \notin InTool \cup {"call_model"}
  BY DEF ToolStarts, Active, InTool
<1>2. loop.st \in State /\ loop.call \in Calls /\ MayRun(goal, loop.st, loop.call)
  BY <1>1, ActiveFacts
<1>3. QED
  BY <1>1, <1>2, GoesOn

LEMMA AskPermissionStep ==
  ASSUME LoopInv, LoopTypeOK', AskPermission
  PROVE  LoopInv'
<1>1. loop.at = "tool_in_flight" /\ Active /\ UNCHANGED <<goal, past>>
  BY DEF AskPermission, Active
<1>2. /\ loop.st \in State /\ loop.call \in Calls /\ MayRun(goal, loop.st, loop.call)
      /\ Knows(loop.st)
  BY <1>1, ActiveFacts DEF InTool
<1>3. PICK e \in Events :
        /\ e = Event("permission", Saved("permission", loop.st, loop.call))
        /\ e.kind = "permission" /\ e.retry = FALSE /\ e.ckpt.node = "permission"
        /\ e.ckpt.st = loop.st /\ e.ckpt.call = loop.call
  <2>1. Event("permission", Saved("permission", loop.st, loop.call)) \in Events
    BY <1>2, Constructors
  <2>2. QED  BY <2>1 DEF Event, Saved
<1>4. CloseWith(e)
  BY <1>3 DEF AskPermission
<1>5. Ready(goal, e.ckpt) /\ Knows(e.ckpt.st)
  BY <1>2, <1>3 DEF Ready
<1>6. QED
  BY <1>1, <1>3, <1>4, <1>5, StepCloses

LEMMA ObserveStep ==
  ASSUME LoopInv, LoopTypeOK', Observe
  PROVE  LoopInv'
<1>1. loop.at = "observe_result" /\ Active /\ UNCHANGED <<goal, past>>
  BY DEF Observe, Active
<1>2. CASE Fails(FALSE)
  BY <1>1, <1>2, Failing
<1>3. CASE /\ PublishNow(Step("call_model", Observed(loop.st), NoTool))
           /\ loop' = [loop EXCEPT !.at = "call_model", !.st = Observed(@), !.call = NoTool,
                                   !.result = "none", !.approved = FALSE]
  <2>1. PICK st \in State : /\ st = Observed(loop.st) /\ st.used = loop.st.used
                            /\ st.obs = Append(loop.st.obs, Result(loop.call, loop.result))
    BY ObservedTypes DEF LoopInv
  <2>2. loop \in Loop /\ past \in Past /\ past.calls \in Nat /\ past.calls <= MaxModelCalls
        /\ loop.st.used = past.calls
    BY <1>1, ActiveFacts
  <2>3. st.used = past.calls /\ st.obs = past.did
    BY <1>1, <2>1, <2>2 DEF LoopInv, MemoryIsTrue
  <2>4. loop'.at = "call_model" /\ loop'.st = st /\ loop'.direct = loop.direct
    BY <1>3, <2>1, <2>2 DEF Loop
  <2>5. PublishNow(Step("call_model", st, NoTool)) /\ NoTool \in Calls /\ Active'
        /\ "call_model" \in LoopNodes
    BY <1>3, <2>1, <2>4 DEF Calls, Active, LoopNodes
  <2>6. QED
    BY <1>1, <2>2, <2>3, <2>4, <2>5, StepPublished
<1>4. QED
  BY <1>2, <1>3 DEF Observe

LEMMA InterruptSteps ==
  ASSUME LoopInv, LoopTypeOK', CancelSeen \/ PauseSeen \/ Halts
  PROVE  LoopInv'
<1>1. Active /\ UNCHANGED <<goal, past>>
  BY DEF CancelSeen, PauseSeen, Halts, Active, LoopNodes
<1>2. CASE CancelSeen
  BY <1>1, <1>2, Closing DEF CancelSeen
<1>3. CASE Halts
  BY <1>1, <1>3, Failing DEF Halts
<1>4. CASE PauseSeen
  <2>1. PICK node \in LoopNodes :
          /\ node = IF loop.at = "model_call" THEN "call_model" ELSE loop.at
          /\ CloseWith(Event("paused", Saved(node, loop.st, loop.call)))
    BY <1>4 DEF PauseSeen, LoopNodes
  <2>2. loop.at # "observe_result"
    BY <1>4 DEF PauseSeen, LoopNodes
  <2>3. /\ loop.st \in State /\ loop.call \in Calls /\ Knows(loop.st)
        /\ node = "execute_tool" => MayRun(goal, loop.st, loop.call)
    BY <1>1, <2>1, <2>2, ActiveFacts
  <2>4. PICK e \in Events : /\ e = Event("paused", Saved(node, loop.st, loop.call))
                            /\ e.kind = "paused" /\ e.retry = FALSE /\ e.ckpt.node = node
                            /\ e.ckpt.st = loop.st /\ e.ckpt.call = loop.call
    <3>1. Event("paused", Saved(node, loop.st, loop.call)) \in Events
      BY <2>3, Constructors
    <3>2. QED  BY <3>1 DEF Event, Saved
  <2>5. Ready(goal, e.ckpt) /\ Fresh(e.ckpt) /\ e.ckpt.node # "permission"
    BY <2>3, <2>4 DEF Ready, Fresh, LoopNodes
  <2>6. QED
    BY <1>1, <2>1, <2>4, <2>5, StepCloses
<1>5. QED
  BY <1>2, <1>3, <1>4

-----------------------------------------------------------------------------
(* The theorems. *)

LEMMA LoopInvInit == LoopInit => LoopInv
<1> SUFFICES ASSUME LoopInit PROVE LoopInv
  OBVIOUS
<1>1. /\ row = [status |-> "queued", saved |-> NoCheckpoint, wait |-> NoCheckpoint]
      /\ loop = Off /\ buf = <<>> /\ goal \in Goals
      /\ past = [did |-> <<>>, calls |-> 0, rewound |-> FALSE]
      /\ spent = [crashes |-> 0, pauses |-> 0, replacements |-> 0]
  BY DEF LoopInit
<1>2. LoopTypeOK
  <2>1. row \in Row /\ loop \in Loop /\ <<>> \in Seq(Events)
    BY <1>1, Constructors DEF Row
  <2>2. past \in Past /\ spent \in [crashes : Nat, pauses : Nat, replacements : Nat]
    BY <1>1 DEF Past
  <2>3. QED  BY <1>1, <2>1, <2>2 DEF LoopTypeOK
<1>3. loop.at = "off" /\ row.status = "queued" /\ row.saved.node = "none"
  BY <1>1 DEF Off, NoCheckpoint, Saved
<1>4. MemoryIsTrue /\ RowIsFresh /\ LateSteps /\ TipIsFresh /\ BufferShape
  BY <1>1, <1>3 DEF MemoryIsTrue, RowIsFresh, LateSteps, TipIsFresh, BufferShape, Active
<1>5. StoredRun
  BY <1>1, <1>3 DEF StoredRun, Ready
<1>6. BudgetsHold
  BY <1>1, LoopAssumption DEF BudgetsHold
<1>7. EffectsInScope
  <2>1. DOMAIN past.did = {} /\ past.did = <<>>
    BY <1>1
  <2>2. Cardinality({}) = 0
    BY FS_EmptySet
  <2>3. {i \in {i \in DOMAIN past.did : past.did[i].tool \in Effects} : past.did[i].ok} = {}
    BY <2>1
  <2>4. QED  BY <2>1, <2>2, <2>3 DEF EffectsInScope
<1>8. QED
  BY <1>2, <1>4, <1>5, <1>6, <1>7 DEF LoopInv

LEMMA LoopInvStep ==
  ASSUME LateCheckpoints = FALSE, LoopInv, [LoopNext]_loopVars
  PROVE  LoopInv'
<1>1. LoopTypeOK'
  BY LoopTypeStep DEF LoopInv
<1>2. CASE UNCHANGED loopVars
  <2>1. MemoryIsTrue' /\ RowIsFresh' /\ StoredRun' /\ BudgetsHold' /\ EffectsInScope'
    BY <1>2 DEF loopVars, LoopInv, MemoryIsTrue, RowIsFresh, StoredRun, BudgetsHold,
       EffectsInScope, Active, Fresh, Knows
  <2>2. LateSteps' /\ TipIsFresh'
    BY <1>2 DEF loopVars, LoopInv, LateSteps, Lags, Strictly, TipIsFresh, IsTip, NoStep,
       Fresh, Knows
  <2>3. BufferShape'
    BY <1>2 DEF loopVars, LoopInv, BufferShape, Active, Fresh, Knows, Missing, Clarifies, Excused, Succeeded, TargetThere
  <2>4. QED  BY <1>1, <2>1, <2>2, <2>3 DEF LoopInv
<1>3. CASE IntentCallStarts \/ ModelCallStarts
  BY <1>1, <1>3, CallStartsStep DEF IntentCallStarts, ModelCallStarts
<1>4. CASE Recover
  BY <1>1, <1>4, RestartSteps, GivenUp
<1>5. CASE PublishNext
  BY <1>1, <1>5, FirstOfMany, LastEvent
<1>6. QED
  BY <1>1, <1>2, <1>3, <1>4, <1>5, IntentStep, ModelStep, ValidateFinishStep,
     ValidateCallStep, ToolStartsStep, AskPermissionStep, ToolRunsStep, ObserveStep,
     InterruptSteps, RestartSteps, Decided, Crashed
  DEF LoopNext, Runs

\* In every reachable state the memory of the loop accounts for all that was done,
\* and what is stored or buffered is as fresh, or as late, as the invariant says.
THEOREM LoopInvariant ==
  ASSUME LateCheckpoints = FALSE
  PROVE  LoopSpec => []LoopInv
<1>1. LoopInv /\ [LoopNext]_loopVars => LoopInv'
  BY LoopInvStep
<1>2. QED
  BY <1>1, LoopInvInit, PTL DEF LoopSpec

\* Every tool that a task has run, and no other, is among the observations of the
\* state its loop works with (runner.py), through crashes, pauses, approvals and
\* retries of a failed step.
THEOREM LoopRemembers ==
  ASSUME LateCheckpoints = FALSE
  PROVE  LoopSpec => []EffectsRemembered
<1>1. ASSUME LoopInv PROVE EffectsRemembered
  <2>1. SUFFICES ASSUME Active PROVE past.did = loop.st.obs \o Pending
    BY DEF EffectsRemembered, Active
  <2>2. loop.st.obs \in Seq(Observation) /\ loop.call \in Calls
    BY <1>1, <2>1, ActiveFacts DEF State
  <2>3. CASE loop.at = "observe_result"
    <3>1. past.did = Append(loop.st.obs, Result(loop.call, loop.result))
      BY <1>1, <2>1, <2>3 DEF LoopInv, MemoryIsTrue
    <3>2. Result(loop.call, loop.result) \in Observation
      BY <2>2 DEF Observation, Result
    <3>3. QED
      BY <2>2, <2>3, <3>1, <3>2, AppendIsConcat DEF Pending
  <2>4. CASE loop.at # "observe_result"
    <3>1. past.did = loop.st.obs
      BY <1>1, <2>1, <2>4 DEF LoopInv, MemoryIsTrue
    <3>2. loop.st.obs \o <<>> = loop.st.obs
      BY <2>2, ConcatEmptySeq
    <3>3. QED
      BY <2>4, <3>1, <3>2 DEF Pending
  <2>5. QED  BY <2>3, <2>4
<1>2. QED
  BY <1>1, LoopInvariant, PTL

\* The validation of actions (action_validation.py, loop_control.py) keeps every tool
\* outside the goal's scope from being run, whatever the model proposes.
THEOREM LoopKeepsScope ==
  ASSUME LateCheckpoints = FALSE
  PROVE  LoopSpec => []EffectsInScope
<1>1. LoopInv => EffectsInScope
  BY DEF LoopInv
<1>2. QED
  BY <1>1, LoopInvariant, PTL

\* The budgets for model calls and tools hold for a task as a whole: an execution that
\* goes on from a checkpoint has not forgotten what was used before.
THEOREM LoopKeepsBudgets ==
  ASSUME LateCheckpoints = FALSE
  PROVE  LoopSpec => []BudgetsHold
<1>1. LoopInv => BudgetsHold
  BY DEF LoopInv
<1>2. QED
  BY <1>1, LoopInvariant, PTL

\* No run becomes completed before the tools its goal requires have succeeded or are
\* excused: the host refuses to store a secret, the file to be created if absent is
\* there, something was stored in place of looking it up.  The other completed runs ask
\* the user what is meant (evaluate_finish and the host's answers in action_validation).
THEOREM LoopEarnsCompletion ==
  ASSUME LateCheckpoints = FALSE
  PROVE  LoopSpec => CompletedIsEarned
<1> DEFINE Earned(t) ==
      \/ \E i \in DOMAIN past.did : past.did[i].tool = t /\ past.did[i].ok
      \/ t = CreateDocument /\ goal.host = "refuses"
      \/ t \in goal.ifAbsent /\ \E i \in DOMAIN past.did : past.did[i].there
      \/ /\ t \in goal.byIntent
         /\ \E i \in DOMAIN past.did : past.did[i].tool \in Stores /\ past.did[i].ok
<1>1. ASSUME LoopInv, LoopNext, row'.status = "completed", row.status # "completed"
      PROVE  PublishNext /\ Head(buf).kind = "completed"
  <2>1. row \in Row /\ buf \in Seq(Events) /\ loop \in Loop
    BY <1>1 DEF LoopInv, LoopTypeOK
  <2>2. row' # row
    BY <1>1
  <2>3. \A c, st, node, call : row' # Recorded(row, Step(node, st, call))
    BY <1>1, <2>1 DEF Recorded, Step, Event, Row
  <2>4. ~(\E e : CloseWith(e)) /\ ~Silent
    BY <2>2 DEF CloseWith, Later, Silent
  <2>5. ~(\E node, st, call : PublishNow(Step(node, st, call)))
    BY <2>2, <2>3 DEF PublishNow
  <2>6. ~(IntentCallStarts \/ ModelCallStarts \/ IntentCallEnds \/ ModelCallEnds)
    BY <2>4, <2>5, <2>2
    DEF IntentCallStarts, ModelCallStarts, CallStarts, IntentCallEnds, IntentOutputInvalid,
        Understood, PublishAndGo, Fails, ModelCallEnds, ModelOutputInvalid, Later
  <2>7. ~(ValidateFinish \/ ValidateCall)
    BY <2>4, <2>5, <2>2
    DEF ValidateFinish, ValidateCall, Insist, Rewrite, Fails, PublishAndGo, Later
  <2>8. ~(ToolStarts \/ AskPermission \/ ToolRuns \/ Observe \/ Halts)
    BY <2>4, <2>5, <2>2 DEF ToolStarts, AskPermission, ToolRuns, Observe, Halts, Fails, PublishAndGo
  <2>9. ~(CancelSeen \/ PauseSeen \/ Crash)
    BY <2>4, <2>2 DEF CancelSeen, PauseSeen, Crash
  <2>10. ~(StartRun \/ ResumePaused \/ DecidePermission \/ Recover \/ RetryFailedStep)
    BY <1>1, <2>1 DEF StartRun, ResumePaused, ResumeFrom, DecidePermission, Recover,
                      RetryFailedStep, Row
  <2>11. PublishNext
    BY <1>1, <2>6, <2>7, <2>8, <2>9, <2>10 DEF LoopNext, Runs
  <2>12. Head(buf) \in Events
    BY <1>1, <2>1, <2>11, HeadTailProperties DEF PublishNext, LoopInv, BufferShape
  <2>13. Head(buf).kind = "completed"
    BY <1>1, <2>1, <2>11, <2>12 DEF PublishNext, Recorded, Row, Events
  <2>14. QED  BY <2>11, <2>13
<1>2. ASSUME LoopInv, [LoopNext]_loopVars
      PROVE  [row'.status = "completed" /\ row.status # "completed" =>
                Clarifies(loop.st) \/ \A t \in goal.required : Earned(t)]_loopVars
  <2>1. SUFFICES ASSUME LoopNext, row'.status = "completed", row.status # "completed",
                        ~Clarifies(loop.st), NEW t \in goal.required
                 PROVE  Earned(t)
    BY <1>2 DEF loopVars
  <2>2. PublishNext /\ Head(buf).kind = "completed"
    BY <1>1, <1>2, <2>1
  <2>3. buf # <<>> /\ buf \in Seq(Events)
    BY <1>2, <2>2 DEF PublishNext, LoopInv, LoopTypeOK, BufferShape
  <2>4. 1 \in DOMAIN buf /\ buf[1].kind = "completed"
    BY <2>2, <2>3, HeadTailProperties, LenProperties, EmptySeq
  <2>5. loop.st.obs = past.did /\ Missing(loop.st) = {}
    BY <1>2, <2>4 DEF LoopInv, BufferShape
  <2>6. t \in Excused(past.did) \cup Succeeded(past.did)
    BY <2>1, <2>5 DEF Missing
  <2>7. CASE t \in Succeeded(past.did)
    BY <2>7 DEF Succeeded
  <2>8. CASE t \in Excused(past.did)
    BY <2>8 DEF Excused, TargetThere, Succeeded
  <2>9. QED  BY <2>6, <2>7, <2>8
<1>3. QED
  BY <1>2, LoopInvariant, PTL DEF LoopSpec, CompletedIsEarned
=============================================================================
