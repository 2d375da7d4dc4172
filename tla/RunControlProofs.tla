-------------------------- MODULE RunControlProofs --------------------------
(***************************************************************************)
(* Theorems about RunControl, for any number of workers, turns, resumes,   *)
(* pauses, deliveries and faults.                                          *)
(***************************************************************************)
EXTENDS RunControl, RunStoreProofs

-----------------------------------------------------------------------------
(* Types.                                                                   *)

\* After an approval, a worker goes on through these.
ContPCs == {"resolve", "approved", "done", "model", "calling", "answered", "tool",
            "started", "required", "completed", "failed", "cancelled", "stop"}

\* What a worker needs at each point is there.
Fits(s) ==
  /\ s.pc \in {"claim", "dead", "begin", "resuming"} => s.job \in Jobs
  /\ s.pc = "resuming" =>
       s.job \in ResumeJobs /\ Ckpt(s.node, s.turn, s.attempts) \in Sendable
  /\ s.pc \in {"model", "calling", "answered", "completed"} => s.turn \in 1 .. MaxTurns + 1
  /\ s.pc \in {"tool", "started", "done", "required", "resolve", "approved"} =>
       s.turn \in Turns
  /\ s.pc = "paused" =>
       /\ s.node \in ResumableNodes /\ Ckpt(s.node, s.turn, s.attempts) \in Sendable
       /\ s.id # NoPause
  /\ s.cont => s.job \in Decisions /\ s.pc \in ContPCs
  /\ s.buf # <<>> => s.cont /\ s.pc \notin {"resolve", "approved", "stop"}

ControlTyped == TypeOK /\ StoreInv /\ \A w \in Workers : Fits(worker[w])

-----------------------------------------------------------------------------
(* Approvals.                                                               *)

\* Who is about to execute an approved call has the approval.
ApprovalsStand ==
  /\ \A w \in Workers : worker[w].pc = "approved" =>
       perm[worker[w].turn].st \in {"APPROVED", "CONSUMED"}
  /\ EffectWasApproved

-----------------------------------------------------------------------------
(* Who executes the run.                                                    *)

\* Between its claim and the last event it has to write.
Active(s) ==
  \/ s.pc \in (Polled \cup {"broken"}) \ {"stop"}
  \/ s.pc = "cancelled" /\ s.buf # <<>>

\* While leases are kept, or with a single worker, one worker has the run at most,
\* and nobody has a run that waits to be claimed.
Exclusive ==
  /\ \A w, v \in Workers : Active(worker[w]) /\ Active(worker[v]) => w = v
  /\ \A w \in Workers : Active(worker[w]) =>
       /\ status \notin {"QUEUED", "WAITING_PERMISSION"}
       /\ ~ env.slow => status \notin {"PAUSED", "RESUME_REQUESTED"}
       /\ ~ env.slow /\ status \in {"RUNNING", "PAUSE_REQUESTED"} =>
            owner = w /\ lease = "live"

\* Only a cancel request makes a worker stop with a cancelled run.
CancelsAsked ==
  \A w \in Workers : worker[w].cancel \/ worker[w].pc = "cancelled" =>
    CancelCommand \in made

ExclusiveInv == CancelsAsked /\ (~ env.slow \/ OneWorker => Exclusive)

-----------------------------------------------------------------------------
(* Tool calls.                                                              *)

\* Nothing of the tool call of a turn has happened yet.
Fresh(n) ==
  effects[n] = 0 /\ <<"toolStarted", n>> \notin seen /\ <<"finished", n>> \notin seen

FreshFrom(k) == \A n \in Turns : n >= k => Fresh(n)

\* A permission request that is still of use.
Open(n) == perm[n].st \in {"PENDING", "APPROVED", "DENIED"}

\* The barrier or the end of a tool call.
Keyed == {"toolStarted", "finished"}

\* After position i of a buffer comes the event of this type for turn n.
Follows(b, i, type, n) == \E j \in DOMAIN b : j > i /\ b[j].type = type /\ b[j].turn = n

\* A stored checkpoint that can be resumed lies before no tool call of which anything
\* has happened, and no request is open: except what the events in b, not yet
\* published, will make good.
CheckpointIsSafe(b) ==
  Resumable(ckpt) => \A n \in Turns :
    /\ n >= ckpt.turn => Fresh(n) \/ Follows(b, 0, "toolStarted", n)
    /\ Open(n) => Follows(b, 0, "finished", n)

\* The same of each checkpoint in a buffer; no event of a tool call is published twice,
\* and checkpoints come in the order of the turns.
BufferIsSafe(b) ==
  \A i \in DOMAIN b :
    /\ Resumable(b[i].ckpt) => \A n \in Turns : n >= b[i].ckpt.turn =>
         Fresh(n) \/ Follows(b, i, "toolStarted", n)
    /\ b[i].type = "toolStarted" => ~ Resumable(b[i].ckpt)
    /\ b[i].type = "finished" => b[i].ckpt.turn > b[i].turn
    /\ b[i].type \in Keyed =>
         /\ <<b[i].type, b[i].turn>> \notin seen
         /\ \A j \in DOMAIN b : j > i =>
              /\ b[j].ckpt.turn > b[i].turn
              /\ b[j].type = b[i].type => b[j].turn > b[i].turn

\* Before a tool call, and during one.
Before == {"model", "calling", "answered", "tool", "paused"}
During == {"started", "required", "resolve", "approved"}

\* Where a worker is in the loop, compared with what has happened.
PlaceIsTrue(s) ==
  /\ s.pc \in Before =>
       /\ FreshFrom(s.turn)
       /\ \A i \in DOMAIN s.buf : s.buf[i].type \in Keyed => s.buf[i].turn < s.turn
  /\ s.pc = "begin" /\ s.job \in StartJobs => FreshFrom(1)
  /\ s.pc = "resuming" /\ s.node \in ResumableNodes => FreshFrom(s.turn)
  /\ s.pc \in During => effects[s.turn] = 0
  /\ s.pc \in During \cup {"done"} =>
       /\ FreshFrom(s.turn + 1) /\ <<"finished", s.turn>> \notin seen
       /\ \A i \in DOMAIN s.buf :
            /\ s.buf[i].type = "toolStarted" => s.buf[i].turn <= s.turn
            /\ s.buf[i].type = "finished" => s.buf[i].turn < s.turn

\* While a worker executes a tool or defers its events, the run cannot be resumed.
BarrierHolds(s) ==
  /\ \/ s.pc \in {"started", "resolve", "approved", "done"}
     \/ s.cont /\ s.pc \in {"model", "calling", "answered", "tool"}
     \/ s.pc = "required" /\ s.buf = <<>>
     => ~ Resumable(ckpt)
  /\ s.pc \in {"started", "required"} /\ s.buf # <<>> =>
       s.buf[Len(s.buf)].type = "toolStarted" /\ s.buf[Len(s.buf)].turn = s.turn

\* An open request concerns the tool call the worker is resolving, or one whose end
\* is still to be published.
OpenIsCurrent(s) ==
  \A n \in Turns : Open(n) =>
    \/ Follows(s.buf, 0, "finished", n) /\ perm[n].st = "APPROVED"
    \/ /\ s.cont /\ s.buf = <<>> /\ s.turn = n
       /\ \/ s.pc \in {"resolve", "failed"}
          \/ s.pc \in {"approved", "done"} /\ perm[n].st = "APPROVED"

InOrder(s) == /\ CheckpointIsSafe(s.buf) /\ BufferIsSafe(s.buf)
              /\ PlaceIsTrue(s) /\ BarrierHolds(s) /\ OpenIsCurrent(s)

\* What a run that waits to be claimed is waiting for.
Waits ==
  /\ status = "QUEUED" => FreshFrom(1) /\ \A n \in Turns : ~ Open(n)
  /\ status = "WAITING_PERMISSION" =>
       /\ ~ Resumable(ckpt)
       /\ \A n \in Turns : Open(n) =>
            /\ effects[n] = 0 /\ <<"finished", n>> \notin seen /\ FreshFrom(n + 1)
            /\ \A m \in Turns : Open(m) => m = n
  /\ ~ env.slow /\ status \in {"PAUSED", "RESUME_REQUESTED"} => Resumable(ckpt)

OncePerTurn ==
  /\ \A n \in Turns : effects[n] <= 1
  /\ Waits
  /\ \A w \in Workers : Active(worker[w]) => InOrder(worker[w])
  /\ (\A w \in Workers : ~ Active(worker[w])) => CheckpointIsSafe(<<>>)

EffectInv == ~ env.slow \/ OneWorker => OncePerTurn

-----------------------------------------------------------------------------
(* The end.                                                                 *)

EndsOnce ==
  /\ \A w \in Workers : Active(worker[w]) \/ worker[w].pc = "cancelled" =>
       status \notin Terminal
  /\ IF status \in Terminal THEN ended = 1 /\ task = status ELSE ended = 0

EndInv == ~ env.slow /\ OneWorker => EndsOnce

\* A worker in the state s is in a possible state.
Proper(s) == s \in WorkerState /\ Fits(s)

-----------------------------------------------------------------------------
(* Types, and the transactions a step runs.                                 *)

\* What a worker publishes is a transaction of the store.
LEMMA RecordIsEvent ==
  ASSUME NEW e \in BufferedEvent, Record(e)
  PROVE  EventStep
<1> USE DEF BufferedEvent
<1>1. CASE e.type = "finished" /\ RecordToolFinished(e.turn, e.ckpt)
  BY <1>1 DEF EventStep
<1>2. CASE e.type = "modelStarted" /\ RecordModelStarted(e.ckpt)
  BY <1>2 DEF EventStep
<1>3. CASE /\ e.type \in {"started", "answered", "toolStarted"}
           /\ RecordStep(e.type, e.turn, e.ckpt)
  <2>1. e.type # "modelStarted" /\ e.turn \in 0 .. MaxTurns /\ e.ckpt \in Sendable
    BY <1>3
  <2>2. QED
    BY <1>3, <2>1 DEF EventStep
<1>4. QED
  BY <1>1, <1>2, <1>3 DEF Record

\* A step of one worker changes nobody else.
LEMMA BecomeProper ==
  ASSUME ControlTyped, NEW w \in Workers, NEW s, Proper(s), Become(w, s)
  PROVE  /\ worker' \in [Workers -> WorkerState]
         /\ \A v \in Workers : Fits(worker'[v])
         /\ worker'[w] = s
         /\ \A v \in Workers \ {w} : worker'[v] = worker[v]
BY DEF ControlTyped, TypeOK, Become, Proper

\* Goto only moves the program counter.
LEMMA GotoProper ==
  ASSUME ControlTyped, NEW w \in Workers, NEW pc, Goto(w, pc)
  PROVE  Become(w, [worker[w] EXCEPT !.pc = pc])
BY DEF ControlTyped, TypeOK, Goto, Become

\* What a step of the loop seldom touches.
Kept(s, t) == /\ t.job = s.job /\ t.cancel = s.cancel /\ t.pause = s.pause
              /\ t.attempts = s.attempts /\ t.node = s.node /\ t.id = s.id
              /\ t.cont = s.cont

\* Goto changes the program counter only.
LEMMA GotoKeeps ==
  ASSUME ControlTyped, NEW w \in Workers, NEW pc, Goto(w, pc)
  PROVE  /\ worker'[w].pc = pc /\ worker'[w].turn = worker[w].turn
         /\ worker'[w].buf = worker[w].buf /\ Kept(worker[w], worker'[w])
<1> DEFINE u == worker[w]
           s == [u EXCEPT !.pc = pc]
<1>1. worker'[w] = s /\ u \in WorkerState
  BY GotoProper DEF ControlTyped, TypeOK, Become
<1>2. s.pc = pc /\ s.turn = u.turn /\ s.buf = u.buf
  BY <1>1 DEF WorkerState
<1>3. Kept(u, s)
  BY <1>1 DEF WorkerState, Kept
<1>4. QED
  BY <1>1, <1>2, <1>3

\* Where the event of a step goes.
Sent(w, e) ==
  IF worker[w].cont
  THEN worker'[w].buf = Append(worker[w].buf, e) /\ UNCHANGED storeVars
  ELSE worker'[w].buf = worker[w].buf /\ Record(e)

\* The five steps with an event.
LEMMA EmitKeeps ==
  ASSUME ControlTyped, NEW w \in Workers, NEW e, NEW pc, NEW n, NEW next,
         \/ next = [worker[w] EXCEPT !.pc = pc] /\ n = worker[w].turn
         \/ next = [worker[w] EXCEPT !.pc = pc, !.turn = n],
         Emit(w, e, next)
  PROVE  /\ worker'[w].pc = pc /\ worker'[w].turn = n
         /\ Kept(worker[w], worker'[w]) /\ Sent(w, e)
<1> DEFINE u == worker[w]
           s == worker'[w]
           tail == [next EXCEPT !.buf = Append(@, e)]
<1>1. u \in WorkerState
  BY DEF ControlTyped, TypeOK
<1>2. next.pc = pc /\ next.turn = n /\ next.buf = u.buf /\ Kept(u, next)
  BY <1>1 DEF WorkerState, Kept
<1>3. tail.pc = pc /\ tail.turn = n /\ tail.buf = Append(u.buf, e) /\ Kept(u, tail)
  BY <1>1 DEF WorkerState, Kept
<1>4. IF u.cont THEN s = tail /\ UNCHANGED storeVars ELSE s = next /\ Record(e)
  <2>1. worker \in [Workers -> WorkerState]
    BY DEF ControlTyped, TypeOK
  <2>2. QED
    BY <2>1 DEF Emit, Become
<1>5. QED
  BY <1>2, <1>3, <1>4 DEF Sent

\* The two shapes of it: a step within a turn, and one that sets the turn.
LEMMA EmitWithinTurn ==
  ASSUME ControlTyped, NEW w \in Workers, NEW e, NEW pc,
         Emit(w, e, [worker[w] EXCEPT !.pc = pc])
  PROVE  /\ worker'[w].pc = pc /\ worker'[w].turn = worker[w].turn
         /\ Kept(worker[w], worker'[w]) /\ Sent(w, e)
<1> DEFINE next == [worker[w] EXCEPT !.pc = pc]
           n == worker[w].turn
<1>1. /\ Emit(w, e, next)
      /\ \/ next = [worker[w] EXCEPT !.pc = pc] /\ n = worker[w].turn
         \/ next = [worker[w] EXCEPT !.pc = pc, !.turn = n]
  OBVIOUS
<1>2. n = worker[w].turn
  OBVIOUS
<1> HIDE DEF next, n
<1>3. /\ worker'[w].pc = pc /\ worker'[w].turn = n
      /\ Kept(worker[w], worker'[w]) /\ Sent(w, e)
  BY <1>1, EmitKeeps, Zenon
<1>4. QED
  BY <1>2, <1>3

LEMMA EmitToTurn ==
  ASSUME ControlTyped, NEW w \in Workers, NEW e, NEW pc, NEW n,
         Emit(w, e, [worker[w] EXCEPT !.pc = pc, !.turn = n])
  PROVE  /\ worker'[w].pc = pc /\ worker'[w].turn = n
         /\ Kept(worker[w], worker'[w]) /\ Sent(w, e)
<1> DEFINE next == [worker[w] EXCEPT !.pc = pc, !.turn = n]
<1>1. /\ Emit(w, e, next)
      /\ \/ next = [worker[w] EXCEPT !.pc = pc] /\ n = worker[w].turn
         \/ next = [worker[w] EXCEPT !.pc = pc, !.turn = n]
  OBVIOUS
<1> HIDE DEF next
<1>2. QED
  BY <1>1, EmitKeeps, Zenon

\* A worker that only moves its program counter keeps the rest of its memory.
LEMMA MovedWorker ==
  ASSUME NEW u \in WorkerState, NEW pc \in PCs
  PROVE  LET t == [u EXCEPT !.pc = pc]
         IN  /\ t \in WorkerState /\ t.pc = pc /\ Kept(u, t)
             /\ t.turn = u.turn /\ t.buf = u.buf
  BY DEF WorkerState, Kept

\* Everything a cancelled or stopping worker needs is there.
LEMMA EndingProper ==
  ASSUME NEW u \in WorkerState, Fits(u), NEW pc \in {"cancelled", "stop"},
         pc = "stop" => u.buf = <<>>, u.cont => u.pc \in ContPCs
  PROVE  Proper([u EXCEPT !.pc = pc])
<1> DEFINE t == [u EXCEPT !.pc = pc]
<1>1. pc \in PCs /\ pc \in ContPCs
  BY DEF PCs, Polled, ContPCs
<1>2. t \in WorkerState /\ t.pc = pc /\ Kept(u, t) /\ t.turn = u.turn /\ t.buf = u.buf
  BY <1>1, MovedWorker
<1> HIDE DEF t
<1>3. Fits(t)
  BY <1>1, <1>2 DEF Fits, Kept
<1>4. Proper(t)
  BY <1>2, <1>3 DEF Proper
<1>5. QED
  BY <1>4 DEF t

\* A step of a worker: at most one transaction, and a possible state.
Moves(w) == [StoreNext]_storeVars /\ \E s : Proper(s) /\ Become(w, s)

\* An event of the loop goes to the database or to the buffer.
LEMMA EmitMoves ==
  ASSUME ControlTyped, NEW w \in Workers, NEW e \in BufferedEvent, NEW next,
         Proper(next), next.buf = worker[w].buf, next.cont = worker[w].cont,
         next.pc \notin {"resolve", "approved", "stop"}, Emit(w, e, next)
  PROVE  Moves(w)
<1>1. CASE worker[w].cont
  <2> DEFINE s == [next EXCEPT !.buf = Append(@, e)]
  <2>1. Become(w, s) /\ UNCHANGED storeVars
    BY <1>1 DEF Emit
  <2>2. s \in WorkerState
    <3>1. next \in WorkerState /\ Append(next.buf, e) \in Seq(BufferedEvent)
      BY DEF Proper, WorkerState
    <3>2. QED
      BY <3>1 DEF WorkerState
  <2>3. Fits(s)
    <3>1. /\ s.pc = next.pc /\ s.job = next.job /\ s.node = next.node
          /\ s.turn = next.turn /\ s.attempts = next.attempts /\ s.id = next.id
          /\ s.cont = next.cont
      BY DEF Proper, WorkerState
    <3>2. QED
      BY <1>1, <3>1 DEF Proper, Fits
  <2>4. QED
    BY <2>1, <2>2, <2>3 DEF Moves, Proper
<1>2. CASE ~ worker[w].cont
  BY <1>2, RecordIsEvent DEF Emit, Moves, StoreNext
<1>3. QED
  BY <1>1, <1>2

\* Types and transactions of the loop.
LEMMA LoopMoves ==
  ASSUME ControlTyped, NEW w \in Workers, AgentLoop(w)
  PROVE  Moves(w)
<1> DEFINE u == worker[w]
<1> USE StoreAssumption, ControlAssumption
<1>t. u \in WorkerState /\ Fits(u)
  BY DEF ControlTyped, TypeOK
<1>g. ASSUME NEW pc, Goto(w, pc), Proper([u EXCEPT !.pc = pc]), UNCHANGED storeVars
      PROVE  Moves(w)
  BY <1>g, GotoProper DEF Moves
<1>s. ASSUME NEW pc \in {"model", "answered", "tool", "calling"},
             NEW node \in ResumableNodes, SafePoint(w, pc, node),
             node = "execute_tool" => u.turn \in Turns
      PROVE  Moves(w)
  <2>1. CASE u.cancel /\ Goto(w, "cancelled")
    <3>1. Proper([u EXCEPT !.pc = "cancelled"])
      BY <1>t, EndingProper DEF Fits
    <3>2. QED
      BY <1>s, <1>g, <2>1, <3>1 DEF SafePoint
  <2>2. CASE Pausing(w) /\ Become(w, [u EXCEPT !.pc = "paused", !.node = node,
                                               !.id = u.pause])
    <3>1. At(w, pc)
      BY <1>s DEF SafePoint
    <3>2. Ckpt(node, u.turn, u.attempts) \in Sendable
      BY <1>t, <1>s, <3>1 DEF WorkerState, Fits, Sendable, Ckpt, ResumableNodes, Turns, At
    <3>3. Proper([u EXCEPT !.pc = "paused", !.node = node, !.id = u.pause])
      BY <1>t, <2>2, <3>1, <3>2
      DEF Proper, WorkerState, Fits, PCs, Polled, Pausing, Nodes, At
    <3>4. QED
      BY <1>s, <2>2, <3>3 DEF SafePoint, Moves
  <2>3. QED
    BY <1>s, <2>1, <2>2 DEF SafePoint
<1>1. CASE CancelSeen(w)
  <2>1. Proper([u EXCEPT !.pc = "cancelled"])
    BY <1>t, EndingProper DEF Fits
  <2>2. QED
    BY <1>1, <1>g, <2>1 DEF CancelSeen
<1>2. CASE Stop(w)
  <2>1. u.pc = "tool" => u.turn \in Turns
    BY <1>t DEF Fits
  <2>2. QED
    BY <1>2, <1>s, <2>1 DEF Stop, ResumableNodes, SafePoint, At
<1>3. CASE StartRun(w)
  <2>1. Event("started", 0, Ckpt("call_model", 1, 0)) \in BufferedEvent
    BY DEF Event, BufferedEvent, Ckpt, Sendable, ResumableNodes
  <2>2. Proper([u EXCEPT !.pc = "model", !.turn = 1])
    <3>1. u.pc = "begin" /\ ~ u.cont /\ u.buf = <<>>
      BY <1>t, <1>3 DEF StartRun, At, Fits, ContPCs
    <3>2. 1 \in 0 .. MaxTurns + 1 /\ 1 \in 1 .. MaxTurns + 1 /\ "model" \in PCs
      BY DEF PCs, Polled
    <3>3. QED
      BY <1>t, <3>1, <3>2 DEF Proper, WorkerState, Fits
  <2>3. QED
    BY <1>3, <1>t, <2>1, <2>2, EmitMoves DEF StartRun, WorkerState
<1>4. CASE LoadCheckpoint(w)
  <2>1. CASE ckpt.node = "none"
    <3>1. Proper([u EXCEPT !.pc = "broken"])
      BY <1>t, <1>4 DEF Proper, WorkerState, Fits, PCs, ContPCs, LoadCheckpoint, At
    <3>2. QED
      BY <1>4, <2>1, <3>1 DEF LoadCheckpoint, Moves
  <2>2. CASE ckpt.node # "none"
    <3> DEFINE s == [u EXCEPT !.pc = "resuming", !.node = ckpt.node,
                              !.turn = ckpt.turn, !.attempts = ckpt.attempts]
    <3>1. ckpt \in Sendable
      BY <2>2 DEF ControlTyped, StoreInv, StoredInBounds, NoCkpt
    <3>2. Ckpt(ckpt.node, ckpt.turn, ckpt.attempts) = ckpt
      BY <3>1 DEF Ckpt, Sendable
    <3>3. s \in WorkerState
      <4>1. /\ ckpt.node \in Nodes /\ ckpt.turn \in 0 .. MaxTurns + 1
            /\ ckpt.attempts \in 0 .. MaxRecovery
        BY <3>1 DEF Sendable, Nodes
      <4>2. "resuming" \in PCs
        BY DEF PCs, Polled
      <4>3. QED
        BY <1>t, <4>1, <4>2 DEF WorkerState
    <3>4. /\ s.pc = "resuming" /\ s.job = u.job /\ s.node = ckpt.node /\ s.turn = ckpt.turn
          /\ s.attempts = ckpt.attempts /\ s.cont = u.cont /\ s.buf = u.buf
      BY <1>t DEF WorkerState
    <3>5. u.pc = "begin" /\ u.job \in ResumeJobs
      BY <1>4 DEF LoadCheckpoint, At
    <3>6. Fits(s)
      BY <1>t, <3>1, <3>2, <3>4, <3>5 DEF Fits, ContPCs, Jobs
    <3>7. QED
      BY <1>4, <2>2, <3>3, <3>6 DEF LoadCheckpoint, Moves, Proper
  <2>3. QED
    BY <2>1, <2>2
<1>5. CASE ResumeAgain(w)
  <2>1. u.pc = "resuming" /\ u.job \in ResumeJobs /\ ~ u.cont /\ u.buf = <<>>
    BY <1>5, <1>t DEF ResumeAgain, Fits, ContPCs, At
  <2>2. u.job[2] \in 1 .. MaxResumes
    BY <2>1 DEF ResumeJobs
  <2>3. [StoreNext]_storeVars
    BY <1>5, <2>2 DEF ResumeAgain, StoreNext, EventStep
  <2>4. Proper([u EXCEPT !.pc = "broken"])
    BY <1>t, <2>1 DEF Proper, WorkerState, Fits, PCs, ContPCs
  <2>5. ASSUME u.node \in ResumableNodes
        PROVE  Proper([u EXCEPT !.pc = EntryOf[u.node]])
    <3>1. EntryOf[u.node] \in {"model", "answered", "tool"}
      BY <2>5 DEF EntryOf, ResumableNodes
    <3>2. EntryOf[u.node] = "tool" => u.turn \in Turns
      BY <1>t, <2>1, <2>5 DEF EntryOf, ResumableNodes, Fits, Sendable, Ckpt
    <3>3. u.turn \in 1 .. MaxTurns + 1
      BY <1>t, <2>1, <2>5 DEF Fits, Sendable, Ckpt
    <3>4. QED
      BY <1>t, <2>1, <3>1, <3>2, <3>3 DEF Proper, WorkerState, Fits, PCs, Polled, ContPCs
  <2>6. QED
    BY <1>5, <2>3, <2>4, <2>5, GotoProper DEF ResumeAgain, Moves
<1>6. CASE CallModel(w)
  <2>1. u.pc = "model" /\ u.turn \in 1 .. MaxTurns + 1
    BY <1>t, <1>6 DEF CallModel, At, Fits
  <2>2. Event("modelStarted", u.turn, Held(w, "call_model")) \in BufferedEvent
    BY <1>t, <2>1 DEF Event, BufferedEvent, Held, Ckpt, Sendable, ResumableNodes, WorkerState
  <2>3. Proper([u EXCEPT !.pc = "calling"])
    BY <1>t, <2>1 DEF Proper, WorkerState, Fits, PCs, Polled, ContPCs
  <2>4. QED
    BY <1>6, <1>t, <2>2, <2>3, EmitMoves DEF CallModel, WorkerState
<1>7. CASE ModelAnswers(w)
  <2>1. Proper([u EXCEPT !.pc = "answered"])
    BY <1>t, <1>7 DEF Proper, WorkerState, Fits, PCs, Polled, ContPCs, ModelAnswers, At
  <2>2. QED
    BY <1>7, <1>g, <2>1 DEF ModelAnswers
<1>f. ASSUME u.pc \in {"calling", "answered", "done", "resolve"},
             NEW pc \in {"completed", "failed"}, pc = "completed" => u.pc = "answered"
      PROVE  (u.pc = "resolve" /\ u.buf # <<>>) \/ Proper([u EXCEPT !.pc = pc])
  BY <1>t, <1>f DEF Proper, WorkerState, Fits, PCs, Polled, ContPCs
<1>8. CASE ModelFails(w)
  <2>1. CASE SafePoint(w, "calling", "call_model")
    BY <2>1, <1>s DEF ResumableNodes
  <2>2. CASE At(w, "calling") /\ Goto(w, "failed") /\ UNCHANGED storeVars
    BY <2>2, <1>g, <1>f DEF At
  <2>3. QED
    BY <1>8, <2>1, <2>2 DEF ModelFails
<1>9. CASE FinishRun(w)
  BY <1>9, <1>g, <1>f DEF FinishRun, At
<1>10. CASE ChooseTool(w)
  <2>1. u.pc = "answered" /\ u.turn \in Turns
    BY <1>10 DEF ChooseTool, At
  <2>2. Event("answered", u.turn, Held(w, "execute_tool")) \in BufferedEvent
    BY <1>t, <2>1
    DEF Event, BufferedEvent, Held, Ckpt, Sendable, ResumableNodes, WorkerState, Turns
  <2>3. Proper([u EXCEPT !.pc = "tool"])
    BY <1>t, <2>1 DEF Proper, WorkerState, Fits, PCs, Polled, ContPCs
  <2>4. QED
    BY <1>10, <1>t, <2>2, <2>3, EmitMoves DEF ChooseTool, WorkerState
<1>11. CASE StartTool(w)
  <2>1. u.pc = "tool" /\ u.turn \in Turns
    BY <1>11, <1>t DEF StartTool, At, Fits
  <2>2. Event("toolStarted", u.turn, Held(w, "tool_in_flight")) \in BufferedEvent
    BY <1>t, <2>1
    DEF Event, BufferedEvent, Held, Ckpt, Sendable, ResumableNodes, WorkerState, Turns
  <2>3. Proper([u EXCEPT !.pc = "started"])
    BY <1>t, <2>1 DEF Proper, WorkerState, Fits, PCs, Polled, ContPCs
  <2>4. QED
    BY <1>11, <1>t, <2>2, <2>3, EmitMoves DEF StartTool, WorkerState
<1>12. CASE AskUser(w)
  <2>1. Proper([u EXCEPT !.pc = "required"])
    BY <1>t, <1>12 DEF Proper, WorkerState, Fits, PCs, Polled, ContPCs, AskUser, At
  <2>2. QED
    BY <1>12, <1>g, <2>1 DEF AskUser
<1>13. CASE RunTool(w)
  <2>1. Proper([u EXCEPT !.pc = "done"])
    BY <1>t, <1>13 DEF Proper, WorkerState, Fits, PCs, Polled, ContPCs, RunTool, At
  <2>2. QED
    BY <1>13, <1>g, <2>1 DEF RunTool
<1>14. CASE ObserveResult(w)
  <2> DEFINE next == [u EXCEPT !.pc = "model", !.turn = @ + 1]
  <2>1. u.pc = "done" /\ u.turn \in Turns
    BY <1>14, <1>t DEF ObserveResult, At, Fits
  <2>2. next.turn = u.turn + 1 /\ next.attempts = u.attempts
    BY <1>t DEF WorkerState
  <2>a. /\ u.turn + 1 \in 1 .. MaxTurns + 1 /\ u.turn + 1 \in 0 .. MaxTurns + 1
        /\ u.turn \in 0 .. MaxTurns /\ u.turn \in 0 .. MaxTurns + 1
        /\ u.attempts \in 0 .. MaxRecovery
    BY <1>t, <2>1 DEF Turns, WorkerState
  <2>3. Event("finished", u.turn, Ckpt("call_model", next.turn, next.attempts))
          \in BufferedEvent
    <3>1. Ckpt("call_model", u.turn + 1, u.attempts) \in Sendable
      BY <2>a DEF Ckpt, Sendable, ResumableNodes
    <3>2. QED
      BY <2>1, <2>2, <2>a, <3>1 DEF Event, BufferedEvent
  <2>4. Proper(next)
    <3>1. next \in WorkerState
      BY <1>t, <2>a DEF WorkerState, PCs, Polled
    <3>2. /\ next.pc = "model" /\ next.job = u.job /\ next.cont = u.cont
          /\ next.buf = u.buf
      BY <1>t DEF WorkerState
    <3>3. QED
      BY <1>t, <2>1, <2>2, <2>a, <3>1, <3>2 DEF Proper, Fits, ContPCs
  <2>5. QED
    BY <1>14, <1>t, <2>3, <2>4, EmitMoves DEF ObserveResult, WorkerState
<1>15. CASE ToolFails(w)
  BY <1>15, <1>g, <1>f DEF ToolFails, At
<1>16. CASE Resolve(w)
  <2>1. u.pc = "resolve" /\ u.turn \in Turns /\ u.buf = <<>>
    BY <1>16, <1>t DEF Resolve, At, Fits
  <2>2. CASE RecordApproval(u.turn, Held(w, "tool_in_flight")) /\ Goto(w, "approved")
    <3>1. Held(w, "tool_in_flight") \in Sendable
      BY <1>t, <2>1 DEF Held, Ckpt, Sendable, WorkerState, Turns
    <3>2. Proper([u EXCEPT !.pc = "approved"])
      BY <1>t, <2>1 DEF Proper, WorkerState, Fits, PCs, Polled, ContPCs
    <3>3. EventStep
      BY <2>1, <2>2, <3>1 DEF EventStep
    <3>4. QED
      BY <2>2, <3>2, <3>3, GotoProper DEF Moves, StoreNext
  <2>3. CASE Goto(w, "failed") /\ UNCHANGED storeVars
    BY <2>1, <2>3, <1>g, <1>f
  <2>4. QED
    BY <1>16, <2>2, <2>3 DEF Resolve
<1>17. CASE Flush(w)
  <2>1. u.buf \in Seq(BufferedEvent) /\ u.buf # <<>>
    BY <1>17, <1>t DEF Flush, Flushing, WorkerState
  <2>2. Head(u.buf) \in BufferedEvent /\ Tail(u.buf) \in Seq(BufferedEvent)
    BY <2>1
  <2>3. EventStep
    BY <1>17, <2>2, RecordIsEvent DEF Flush
  <2>4. Proper([u EXCEPT !.buf = Tail(@)])
    BY <1>t, <2>1, <2>2 DEF Proper, WorkerState, Fits
  <2>5. QED
    BY <1>17, <2>3, <2>4 DEF Flush, Moves, StoreNext
<1>18. CASE EndRun(w)
  <2>1. u.buf = <<>>
    BY <1>18 DEF EndRun
  <2>2. Proper([u EXCEPT !.pc = "stop"])
    BY <1>t, <2>1, EndingProper DEF Fits
  <2>3. EventStep
    <3>1. ASSUME u.pc = "required", RecordRequired(u.turn, u.attempts) PROVE EventStep
      BY <1>t, <3>1 DEF Fits, WorkerState, EventStep
    <3>2. ASSUME u.pc = "completed", RecordCompleted(u.turn) PROVE EventStep
      BY <1>t, <3>2 DEF Fits, EventStep
    <3>3. ASSUME NEW r \in BOOLEAN, RecordFailed(u.turn, r) PROVE EventStep
      BY <1>t, <3>3 DEF WorkerState, EventStep
    <3>4. ASSUME RecordCancelled PROVE EventStep
      BY <3>4 DEF EventStep
    <3>5. ASSUME u.pc = "paused", RecordPaused(u.id, Held(w, u.node)) PROVE EventStep
      <4>1. u.id \in 0 .. MaxPauses /\ Held(w, u.node) \in Sendable
        BY <1>t, <3>5 DEF Fits, WorkerState, Held, NoPause
      <4>2. QED
        BY <3>5, <4>1 DEF EventStep
    <3>6. QED
      BY <1>18, <3>1, <3>2, <3>3, <3>4, <3>5 DEF EndRun, At
  <2>4. QED
    BY <1>18, <2>2, <2>3, GotoProper DEF EndRun, Moves, StoreNext
<1>b. ASSUME u.buf = <<>>, ~ u.cont PROVE Proper([u EXCEPT !.pc = "broken"])
  BY <1>t, <1>b DEF Proper, WorkerState, Fits, PCs
<1>19. CASE PauseRaises(w)
  <2>1. u.buf = <<>> /\ ~ u.cont
    BY <1>19, <1>t DEF PauseRaises, At, Fits, ContPCs
  <2>2. QED
    BY <1>19, <1>g, <1>b, <2>1 DEF PauseRaises
<1>20. CASE FailBroken(w)
  <2>1. Proper([u EXCEPT !.pc = "ack"])
    BY <1>t, <1>20 DEF Proper, WorkerState, Fits, PCs, ContPCs, FailBroken, At
  <2>2. EventStep
    <3>1. 0 \in 0 .. MaxTurns + 1 /\ TRUE \in BOOLEAN
      OBVIOUS
    <3>2. QED
      BY <1>20, <3>1 DEF FailBroken, EventStep
  <2>3. QED
    BY <1>20, <2>1, <2>2, GotoProper DEF FailBroken, Moves, StoreNext
<1>21. QED
  BY <1>1, <1>2, <1>3, <1>4, <1>5, <1>6, <1>7, <1>8, <1>9, <1>10, <1>11, <1>12,
     <1>13, <1>14, <1>15, <1>16, <1>17, <1>18, <1>19, <1>20 DEF AgentLoop

\* An idle worker, or one that has just received a job, is in a possible state.
LEMMA IdleProper ==
  /\ Proper(IdleWorker)
  /\ \A m \in Jobs : Proper([IdleWorker EXCEPT !.pc = "claim", !.job = m])
  /\ Proper([IdleWorker EXCEPT !.pc = "cancelled", !.job = CancelCommand])
<1> USE StoreAssumption DEF IdleWorker, NoPause
<1>1. IdleWorker \in WorkerState
  BY DEF WorkerState, PCs, NoJob, Nodes
<1>2. Fits(IdleWorker)
  BY DEF Fits
<1>3. ASSUME NEW m \in Jobs PROVE Proper([IdleWorker EXCEPT !.pc = "claim", !.job = m])
  BY <1>1, <1>3 DEF Proper, WorkerState, PCs, Fits, Messages
<1>4. Proper([IdleWorker EXCEPT !.pc = "cancelled", !.job = CancelCommand])
  BY <1>1 DEF Proper, WorkerState, PCs, Fits, Messages
<1>5. QED
  BY <1>1, <1>2, <1>3, <1>4 DEF Proper

\* Types and transactions of the main loop.
LEMMA MainMoves ==
  ASSUME ControlTyped, NEW w \in Workers, MainLoop(w)
  PROVE  /\ [StoreNext]_storeVars
         /\ UNCHANGED worker \/ \E s : Proper(s) /\ Become(w, s)
<1> DEFINE u == worker[w]
           M == Moves(w)
<1> USE StoreAssumption, ControlAssumption
<1>t. u \in WorkerState /\ Fits(u)
  BY DEF ControlTyped, TypeOK
<1>g. ASSUME NEW pc, Goto(w, pc) PROVE Become(w, [u EXCEPT !.pc = pc])
  BY <1>g, GotoProper
<1>1. ASSUME NEW m \in Jobs, Receive(w, m) PROVE M
  BY <1>1, IdleProper DEF Receive, Moves
<1>2. CASE ClaimToExecute(w)
  <2>1. u.pc = "claim"
    BY <1>2 DEF ClaimToExecute, At
  <2>2. StoreNext
    BY <1>2 DEF ClaimToExecute, StoreNext, WorkerStep
  <2>3. Proper([u EXCEPT !.pc = "begin"])
    BY <1>t, <2>1 DEF Proper, WorkerState, Fits, PCs, Polled, ContPCs
  <2>4. QED
    BY <1>2, <1>g, <2>2, <2>3 DEF ClaimToExecute, Moves
<1>3. CASE ClaimToCancel(w)
  <2>1. u.pc = "claim"
    BY <1>3 DEF ClaimToCancel, At
  <2>2. StoreNext
    BY <1>3 DEF ClaimToCancel, StoreNext, WorkerStep
  <2>3. Proper([u EXCEPT !.pc = "cancelled"])
    BY <1>t, <2>1 DEF Proper, WorkerState, Fits, PCs, Polled, ContPCs
  <2>4. QED
    BY <1>3, <1>g, <2>2, <2>3 DEF ClaimToCancel, Moves
<1>4. CASE ClaimNothing(w)
  <2>1. [StoreNext]_storeVars
    BY <1>4 DEF ClaimNothing, StoreNext, WorkerStep
  <2>2. QED
    BY <1>4, <2>1, IdleProper DEF ClaimNothing, Moves
<1>5. CASE ClaimFails(w)
  <2>1. u.pc = "claim"
    BY <1>5 DEF ClaimFails, At
  <2>2. Proper([u EXCEPT !.pc = "dead"])
    BY <1>t, <2>1 DEF Proper, WorkerState, Fits, PCs, Polled, ContPCs
  <2>3. Become(w, IdleWorker) \/ Goto(w, "dead")
    BY <1>5 DEF ClaimFails
  <2>4. QED
    BY <1>5, <1>g, <2>2, <2>3, IdleProper DEF ClaimFails, Moves
<1>6. CASE DeadLetter(w)
  <2>1. u.pc = "dead"
    BY <1>6 DEF DeadLetter, At
  <2>2. StoreNext
    BY <1>6 DEF DeadLetter, StoreNext, WorkerStep
  <2>3. Proper([u EXCEPT !.pc = "ack"])
    BY <1>t, <2>1 DEF Proper, WorkerState, Fits, PCs, Polled, ContPCs
  <2>4. QED
    BY <1>6, <1>g, <2>2, <2>3 DEF DeadLetter, Moves
<1>7. CASE Ack(w)
  BY <1>7, IdleProper DEF Ack, Moves
<1>8. IdleCancel(w) => UNCHANGED storeVars /\ (UNCHANGED worker \/ M)
  BY IdleProper DEF IdleCancel, Drop, Moves
<1>9. ASSUME NEW m \in PauseCommands, IdlePause(w, m)
      PROVE  UNCHANGED storeVars /\ UNCHANGED worker
  BY <1>9 DEF IdlePause, Drop
<1>10. ASSUME NEW n \in Turns, IdleDecision(w, n)
       PROVE  [StoreNext]_storeVars /\ UNCHANGED worker
  <2>1. 0 \in 0 .. MaxTurns + 1 /\ TRUE \in BOOLEAN /\ FALSE \in BOOLEAN
    OBVIOUS
  <2>2. QED
    BY <1>10, <2>1 DEF IdleDecision, StoreNext, EventStep
<1>11. ASSUME NEW n \in Turns, ClaimDecision(w, n) PROVE M
  <2> DEFINE s == [IdleWorker EXCEPT !.pc = "resolve", !.job = <<"decision", n>>,
                                     !.turn = n, !.attempts = perm[n].attempts,
                                     !.cont = TRUE]
  <2>1. /\ perm[n].attempts \in 0 .. MaxRecovery /\ n \in 0 .. MaxTurns + 1
        /\ <<"decision", n>> \in Decisions /\ "resolve" \in PCs
    BY DEF ControlTyped, StoreInv, StoredInBounds, Turns, Decisions, PCs, Polled
  <2>2. IdleWorker \in WorkerState
    BY IdleProper DEF Proper
  <2>3. s \in WorkerState
    BY <2>1, <2>2 DEF WorkerState, Messages
  <2>4. Fits(s)
    BY <2>1 DEF Fits, ContPCs, IdleWorker
  <2>5. StoreNext
    BY <1>11 DEF ClaimDecision, StoreNext, WorkerStep
  <2>6. QED
    BY <1>11, <2>3, <2>4, <2>5 DEF ClaimDecision, Moves, Proper
<1>12. QED
  BY <1>1, <1>2, <1>3, <1>4, <1>5, <1>6, <1>7, <1>8, <1>9, <1>10, <1>11
  DEF MainLoop, Moves

\* Types and transactions of the poll thread, of errors and of crashes.
LEMMA PollMoves ==
  ASSUME ControlTyped, NEW w \in Workers, PollThread(w) \/ Breaks(w) \/ Crash(w)
  PROVE  /\ [StoreNext]_storeVars
         /\ UNCHANGED worker \/ \E s : Proper(s) /\ Become(w, s)
<1> DEFINE u == worker[w]
<1> USE StoreAssumption, ControlAssumption
<1>t. u \in WorkerState /\ Fits(u)
  BY DEF ControlTyped, TypeOK
<1>1. CASE PollCancel(w)
  <2>1. Proper([u EXCEPT !.cancel = TRUE])
    BY <1>t DEF Proper, WorkerState, Fits
  <2>2. QED
    BY <1>1, <2>1 DEF PollCancel
<1>p. ASSUME NEW k \in 0 .. MaxPauses PROVE Proper([u EXCEPT !.pause = k])
  <2>1. k \in NoPause .. MaxPauses
    BY DEF NoPause
  <2>2. QED
    BY <1>t, <2>1 DEF Proper, WorkerState, Fits
<1>2. ASSUME NEW m \in PauseCommands, PollPause(w, m)
      PROVE  UNCHANGED storeVars /\ \E s : Proper(s) /\ Become(w, s)
  <2>1. m[2] \in 0 .. MaxPauses
    BY DEF PauseCommands
  <2>2. QED
    BY <1>2, <1>p, <2>1 DEF PollPause
<1>3. CASE SyncDurablePause(w)
  <2>1. DurablePause \in 0 .. MaxPauses
    BY DEF DurablePause
  <2>2. QED
    BY <1>3, <1>p, <2>1 DEF SyncDurablePause
<1>4. CASE Renew(w)
  BY <1>4 DEF Renew, controlVars, StoreNext, WorkerStep
<1>5. CASE Breaks(w)
  <2>1. ~ u.cont
    BY <1>t, <1>5 DEF Breaks, Fits, Jobs, StartJobs, ResumeJobs, Decisions
  <2>2. Proper([u EXCEPT !.pc = "broken"])
    BY <1>t, <2>1 DEF Proper, WorkerState, Fits, PCs
  <2>3. QED
    BY <1>5, <2>2, GotoProper DEF Breaks
<1>6. CASE Crash(w)
  BY <1>6, IdleProper DEF Crash
<1>7. QED
  BY <1>1, <1>2, <1>3, <1>4, <1>5, <1>6 DEF PollThread

\* Everything else leaves the workers alone.
LEMMA OtherMoves ==
  ASSUME \/ \E m \in Messages : Publish(m)
         \/ RedisLosesData
         \/ UserRequest
         \/ LeaseTimeout
         \/ Reconcile
  PROVE  [StoreNext]_storeVars /\ UNCHANGED worker
BY DEF Publish, RedisLosesData, UserRequest, LeaseTimeout, Reconcile, controlVars,
   StoreNext, ControlStep

\* Every step of the system is a transaction of the store, or leaves it alone.
LEMMA StoreMoves == ControlTyped /\ [ControlNext]_vars => [StoreNext]_storeVars
<1>1. ControlTyped /\ ControlNext => [StoreNext]_storeVars
  BY MainMoves, LoopMoves, PollMoves, OtherMoves DEF ControlNext, Moves
<1>2. UNCHANGED vars => UNCHANGED storeVars
  BY DEF vars
<1>3. QED
  BY <1>1, <1>2

\* The variables of RunControl alone keep their types.
LEMMA ControlTypes ==
  ASSUME ControlTyped, ControlNext
  PROVE  /\ bus' \in [Messages -> {"outbox", "queue", "gone", "lost"}]
         /\ tries' \in [Jobs -> 0 .. MaxDeliveries]
         /\ effects' \in [Turns -> 0 .. 2]
         /\ env' \in [faults : 0 .. MaxFaults, slow : SlowWorkers]
<1> USE StoreAssumption, ControlAssumption DEF ControlTyped, TypeOK
<1>a. ASSUME NEW m PROVE Acked(m) \in [Messages -> {"outbox", "queue", "gone", "lost"}]
  BY DEF Acked
<1>f. Fault => env' \in [faults : 0 .. MaxFaults, slow : SlowWorkers]
  BY DEF Fault
<1>1. ASSUME NEW w \in Workers, MainLoop(w)
      PROVE  /\ UNCHANGED bus \/ \E m : bus' = Acked(m)
             /\ UNCHANGED tries
                  \/ \E m : tries' = [tries EXCEPT ![m] = IF @ < MaxDeliveries THEN @ + 1 ELSE @]
             /\ UNCHANGED env \/ Fault
             /\ UNCHANGED effects
  BY <1>1 DEF MainLoop, Receive, ClaimToExecute, ClaimToCancel, ClaimNothing, ClaimFails,
     DeadLetter, Ack, IdleCancel, IdlePause, IdleDecision, ClaimDecision, Drop, busVars
<1>2. ASSUME NEW w \in Workers, AgentLoop(w)
      PROVE  /\ UNCHANGED <<bus, tries, env>>
             /\ UNCHANGED effects
                  \/ \E n : effects' = [effects EXCEPT ![n] = IF @ < 2 THEN @ + 1 ELSE @]
  BY <1>2 DEF AgentLoop, CancelSeen, Stop, SafePoint, StartRun, LoadCheckpoint, ResumeAgain,
     CallModel, ModelAnswers, ModelFails, FinishRun, ChooseTool, StartTool, AskUser, RunTool,
     ObserveResult, ToolFails, Resolve, Flush, EndRun, PauseRaises, FailBroken, busVars
<1>3. ASSUME NEW w \in Workers, PollThread(w) \/ Breaks(w) \/ Crash(w)
      PROVE  /\ UNCHANGED bus \/ \E m : bus' = Acked(m)
             /\ UNCHANGED <<tries, effects>>
             /\ UNCHANGED env \/ Fault
  BY <1>3 DEF PollThread, PollCancel, PollPause, SyncDurablePause, Renew, Breaks, Crash,
     busVars, controlVars
<1>4. ASSUME \/ \E m \in Messages : Publish(m)
             \/ RedisLosesData
             \/ UserRequest
             \/ LeaseTimeout
             \/ Reconcile
      PROVE  /\ UNCHANGED <<tries, effects>>
             /\ UNCHANGED env \/ Fault
             /\ bus' \in [Messages -> {"outbox", "queue", "gone", "lost"}]
  BY <1>4 DEF Publish, RedisLosesData, UserRequest, LeaseTimeout, Reconcile, controlVars
<1>5. ASSUME NEW m PROVE [tries EXCEPT ![m] = IF @ < MaxDeliveries THEN @ + 1 ELSE @]
                          \in [Jobs -> 0 .. MaxDeliveries]
  <2>1. CASE m \in Jobs
    <3>1. (IF tries[m] < MaxDeliveries THEN tries[m] + 1 ELSE tries[m]) \in 0 .. MaxDeliveries
      BY <2>1
    <3>2. QED
      BY <2>1, <3>1
  <2>2. CASE m \notin Jobs
    BY <2>2
  <2>3. QED
    BY <2>1, <2>2
<1>6. ASSUME NEW n PROVE [effects EXCEPT ![n] = IF @ < 2 THEN @ + 1 ELSE @]
                          \in [Turns -> 0 .. 2]
  <2>1. CASE n \in Turns
    <3>1. (IF effects[n] < 2 THEN effects[n] + 1 ELSE effects[n]) \in 0 .. 2
      BY <2>1
    <3>2. QED
      BY <2>1, <3>1
  <2>2. CASE n \notin Turns
    BY <2>2
  <2>3. QED
    BY <2>1, <2>2
<1>7. QED
  BY <1>a, <1>f, <1>1, <1>2, <1>3, <1>4, <1>5, <1>6 DEF ControlNext

\* Types, bounds and the invariant of the store are preserved by every step.
LEMMA TypedStep == ControlTyped /\ [ControlNext]_vars => ControlTyped'
<1> SUFFICES ASSUME ControlTyped, [ControlNext]_vars PROVE ControlTyped'
  OBVIOUS
<1>1. StoreInv'
  BY StoreMoves, StoreStep DEF ControlTyped
<1>2. CASE UNCHANGED vars
  BY <1>1, <1>2 DEF ControlTyped, TypeOK, vars, controlVars, StoreInv
<1>3. CASE ControlNext
  <2>1. \/ UNCHANGED worker
        \/ \E w \in Workers : \E s : Proper(s) /\ Become(w, s)
    BY <1>3, MainMoves, LoopMoves, PollMoves, OtherMoves DEF ControlNext, Moves
  <2>2. worker' \in [Workers -> WorkerState] /\ \A v \in Workers : Fits(worker'[v])
    BY <2>1, BecomeProper DEF ControlTyped, TypeOK
  <2>3. QED
    BY <1>1, <1>3, <2>2, ControlTypes DEF ControlTyped, TypeOK, StoreInv
<1>4. QED
  BY <1>2, <1>3

\* It holds at the start.
LEMMA TypedInit == ControlInit => ControlTyped
<1> SUFFICES ASSUME ControlInit PROVE ControlTyped
  OBVIOUS
<1>1. StoreInv
  BY StoreInitInv DEF ControlInit
<1>2. TypeOK
  <2>1. worker \in [Workers -> WorkerState]
    BY IdleProper DEF ControlInit, Proper
  <2>2. tries \in [Jobs -> 0 .. MaxDeliveries] /\ effects \in [Turns -> 0 .. 2]
    BY ControlAssumption DEF ControlInit
  <2>3. env \in [faults : 0 .. MaxFaults, slow : SlowWorkers]
    BY ControlAssumption DEF ControlInit
  <2>4. QED
    BY <1>1, <2>1, <2>2, <2>3 DEF ControlInit, TypeOK, StoreInv
<1>3. \A w \in Workers : Fits(worker[w])
  BY IdleProper DEF ControlInit, Proper
<1>4. QED
  BY <1>1, <1>2, <1>3 DEF ControlTyped

\* Types, and where each process can be, in every reachable state.
THEOREM ControlTypedAlways == ControlSpec => []ControlTyped
BY TypedInit, TypedStep, PTL DEF ControlSpec

\* Type invariant of RunControl: every message, worker, checkpoint and buffered
\* event stays within its bounds.
THEOREM ControlTypeCorrect == ControlSpec => []TypeOK
<1>1. ControlTyped => TypeOK
  BY DEF ControlTyped
<1>2. QED
  BY ControlTypedAlways, <1>1, PTL

\* Workers, Redis, the user and the reconciliation touch the stored run only by the
\* transactions of RunStore: what holds of these holds of the system.
THEOREM ControlRefinesStore == ControlSpec => StoreSpec
<1>1. ControlInit => StoreInit
  BY DEF ControlInit
<1>2. QED
  BY <1>1, StoreMoves, ControlTypedAlways, PTL DEF ControlSpec, StoreSpec

-----------------------------------------------------------------------------
(* Approvals.                                                               *)

\* Only ToolGateway.execute has effects, and whether workers are slow is settled.
LEMMA EffectsByRunTool ==
  ASSUME ControlTyped, ControlNext
  PROVE  /\ UNCHANGED effects \/ \E w \in Workers : RunTool(w)
         /\ env'.slow = env.slow
<1>1. ASSUME NEW w \in Workers, AgentLoop(w)
      PROVE  (UNCHANGED effects \/ RunTool(w)) /\ UNCHANGED env
  BY <1>1 DEF AgentLoop, CancelSeen, Stop, SafePoint, StartRun, LoadCheckpoint, ResumeAgain,
     CallModel, ModelAnswers, ModelFails, FinishRun, ChooseTool, StartTool, AskUser, RunTool,
     ObserveResult, ToolFails, Resolve, Flush, EndRun, PauseRaises, FailBroken
<1>2. ASSUME NEW w \in Workers, MainLoop(w)
      PROVE  UNCHANGED effects /\ (UNCHANGED env \/ Fault)
  BY <1>2 DEF MainLoop, Receive, ClaimToExecute, ClaimToCancel, ClaimNothing, ClaimFails,
     DeadLetter, Ack, IdleCancel, IdlePause, IdleDecision, ClaimDecision, Drop
<1>3. ASSUME NEW w \in Workers, PollThread(w) \/ Breaks(w) \/ Crash(w)
      PROVE  UNCHANGED effects /\ (UNCHANGED env \/ Fault)
  BY <1>3 DEF PollThread, PollCancel, PollPause, SyncDurablePause, Renew, Breaks, Crash,
     controlVars
<1>4. ASSUME \/ \E m \in Messages : Publish(m)
             \/ RedisLosesData
             \/ UserRequest
             \/ LeaseTimeout
             \/ Reconcile
      PROVE  UNCHANGED effects /\ (UNCHANGED env \/ Fault)
  BY <1>4 DEF Publish, RedisLosesData, UserRequest, LeaseTimeout, Reconcile, controlVars
<1>5. Fault => env'.slow = env.slow
  BY DEF Fault, ControlTyped, TypeOK
<1>6. QED
  BY <1>1, <1>2, <1>3, <1>4, <1>5 DEF ControlNext

\* The states an event of the loop leads to.
LEMMA StartProper ==
  ASSUME ControlTyped, NEW w \in Workers
  PROVE  /\ [worker[w] EXCEPT !.pc = "calling"] \in WorkerState
         /\ [worker[w] EXCEPT !.pc = "tool"] \in WorkerState
         /\ [worker[w] EXCEPT !.pc = "started"] \in WorkerState
         /\ [worker[w] EXCEPT !.pc = "model", !.turn = 1] \in WorkerState
         /\ worker[w].pc = "done" =>
              [worker[w] EXCEPT !.pc = "model", !.turn = @ + 1] \in WorkerState
<1> DEFINE u == worker[w]
<1>1. u \in WorkerState /\ Fits(u)
  BY DEF ControlTyped, TypeOK
<1>2. 1 \in 0 .. MaxTurns + 1 /\ (u.pc = "done" => u.turn + 1 \in 0 .. MaxTurns + 1)
  BY <1>1, StoreAssumption DEF Fits, Turns
<1>3. QED
  BY <1>1, <1>2 DEF WorkerState, PCs, Polled

\* Only the resolution of an approved request leads to "approved".
LEMMA ApprovedByResolve ==
  ASSUME ControlTyped, NEW w \in Workers, NEW v \in Workers,
         MainLoop(w) \/ AgentLoop(w) \/ PollThread(w) \/ Breaks(w) \/ Crash(w),
         worker'[v].pc = "approved"
  PROVE  LET n == worker'[v].turn IN
           \/ worker[v].pc = "approved" /\ worker[v].turn = n
           \/ n \in Turns /\ perm[n].st = "APPROVED"
<1> DEFINE u == worker[w]
           n == worker'[v].turn
           G == \/ worker[v].pc = "approved" /\ worker[v].turn = n
                \/ n \in Turns /\ perm[n].st = "APPROVED"
<1>w. worker \in [Workers -> WorkerState] /\ u \in WorkerState /\ Fits(u)
  BY DEF ControlTyped, TypeOK
<1>a. ASSUME NEW s, Become(w, s), s.pc # "approved" PROVE G
  BY <1>w, <1>a DEF Become
<1>u. UNCHANGED worker => G
  OBVIOUS
<1>1. CASE MainLoop(w)
  <2>1. \/ UNCHANGED worker
        \/ Goto(w, "begin") \/ Goto(w, "cancelled") \/ Goto(w, "dead") \/ Goto(w, "ack")
        \/ Become(w, IdleWorker)
        \/ \E m : Become(w, [IdleWorker EXCEPT !.pc = "claim", !.job = m])
        \/ Become(w, [IdleWorker EXCEPT !.pc = "cancelled", !.job = CancelCommand])
        \/ \E m \in Turns : 
             Become(w, [IdleWorker EXCEPT !.pc = "resolve", !.job = <<"decision", m>>,
                                 !.turn = m, !.attempts = perm[m].attempts, !.cont = TRUE])
    BY <1>1 DEF MainLoop, Receive, ClaimToExecute, ClaimToCancel, ClaimNothing, ClaimFails,
       DeadLetter, Ack, IdleCancel, IdlePause, IdleDecision, ClaimDecision, Drop
  <2>2. ASSUME NEW pc, Goto(w, pc), pc # "approved" PROVE G
    BY <2>2, <1>w DEF Goto, WorkerState
  <2>3. ASSUME NEW m PROVE Become(w, [IdleWorker EXCEPT !.pc = "claim", !.job = m]) => G
    BY <1>w DEF Become, IdleWorker
  <2>4. ASSUME NEW m
        PROVE  Become(w, [IdleWorker EXCEPT !.pc = "resolve", !.job = <<"decision", m>>,
                            !.turn = m, !.attempts = perm[m].attempts, !.cont = TRUE]) => G
    <3> DEFINE s == [IdleWorker EXCEPT !.pc = "resolve", !.job = <<"decision", m>>,
                       !.turn = m, !.attempts = perm[m].attempts, !.cont = TRUE]
    <3>1. s.pc = "resolve"
      BY IdleProper DEF Proper, WorkerState
    <3> HIDE DEF s
    <3>2. Become(w, s) => G
      BY <1>a, <3>1
    <3>3. QED
      BY <3>2 DEF s
  <2>5. /\ Become(w, IdleWorker) => G
        /\ Become(w, [IdleWorker EXCEPT !.pc = "cancelled", !.job = CancelCommand]) => G
    BY <1>a DEF IdleWorker
  <2>6. QED
    BY <2>1, <2>2, <2>3, <2>4, <2>5, <1>u
<1>2. CASE Resolve(w)
  <2>1. u.turn \in Turns
    BY <1>2, <1>w DEF Resolve, At, Fits
  <2>2. \/ perm[u.turn].st = "APPROVED" /\ Goto(w, "approved")
        \/ Goto(w, "failed")
    BY <1>2 DEF Resolve
  <2>3. CASE v = w
    BY <2>1, <2>2, <2>3, GotoKeeps
  <2>4. CASE v # w
    BY <2>2, <2>4, <1>w DEF Goto
  <2>5. QED
    BY <2>3, <2>4
<1>3. CASE AgentLoop(w) /\ ~ Resolve(w)
  <2>1. \/ \E pc \in PCs \ {"approved"} : Goto(w, pc)
        \/ LoadCheckpoint(w) \/ Flush(w)
        \/ StartRun(w) \/ CallModel(w) \/ ChooseTool(w) \/ StartTool(w) \/ ObserveResult(w)
        \/ Stop(w) \/ ModelFails(w)
    <3>1. ResumeAgain(w) => \E pc \in PCs \ {"approved"} : Goto(w, pc)
      BY DEF ResumeAgain, EntryOf, ResumableNodes, PCs, Polled
    <3>2. \A pc \in {"cancelled", "answered", "completed", "failed", "required", "done",
                    "stop", "broken", "ack"} : pc \in PCs \ {"approved"}
      BY DEF PCs, Polled
    <3>3. QED
      BY <1>3, <3>1, <3>2 DEF AgentLoop, CancelSeen, ModelAnswers, FinishRun, AskUser,
         RunTool, ToolFails, EndRun, PauseRaises, FailBroken
  <2>2. ASSUME NEW pc \in PCs \ {"approved"}, Goto(w, pc) PROVE G
    BY <2>2, <1>w DEF Goto, WorkerState
  <2>3. CASE LoadCheckpoint(w)
    BY <2>3, <1>w DEF LoadCheckpoint, Become, WorkerState
  <2>4. CASE Flush(w)
    BY <2>4, <1>w DEF Flush, Become, WorkerState
  <2>5. ASSUME NEW e, NEW next \in WorkerState, Emit(w, e, next), next.pc # "approved" PROVE G
    <3> DEFINE tail == [next EXCEPT !.buf = Append(@, e)]
    <3>1. tail.pc # "approved"
      BY <2>5 DEF WorkerState
    <3>2. Become(w, tail) \/ Become(w, next)
      BY <2>5 DEF Emit
    <3> HIDE DEF tail
    <3>3. QED
      BY <1>a, <2>5, <3>1, <3>2
  <2>9. CASE StartRun(w) \/ CallModel(w) \/ ChooseTool(w) \/ StartTool(w) \/ ObserveResult(w)
    <3>1. /\ [u EXCEPT !.pc = "calling"].pc # "approved"
          /\ [u EXCEPT !.pc = "tool"].pc # "approved"
          /\ [u EXCEPT !.pc = "started"].pc # "approved"
          /\ [u EXCEPT !.pc = "model", !.turn = 1].pc # "approved"
          /\ [u EXCEPT !.pc = "model", !.turn = @ + 1].pc # "approved"
      BY <1>w DEF WorkerState
    <3>2. \E e : \/ Emit(w, e, [u EXCEPT !.pc = "calling"])
                 \/ Emit(w, e, [u EXCEPT !.pc = "tool"])
                 \/ Emit(w, e, [u EXCEPT !.pc = "started"])
                 \/ Emit(w, e, [u EXCEPT !.pc = "model", !.turn = 1])
                 \/ u.pc = "done" /\ Emit(w, e, [u EXCEPT !.pc = "model", !.turn = @ + 1])
      BY <2>9 DEF StartRun, CallModel, ChooseTool, StartTool, ObserveResult, At
    <3>3. QED
      BY <2>5, <3>1, <3>2, StartProper
  <2>10. CASE Stop(w) \/ ModelFails(w)
    <3>1. \/ \E pc \in {"cancelled", "failed"} : Goto(w, pc)
          \/ \E node, id : Become(w, [u EXCEPT !.pc = "paused", !.node = node, !.id = id])
      BY <2>10 DEF Stop, ModelFails, SafePoint
    <3>2. \A node, id : [u EXCEPT !.pc = "paused", !.node = node, !.id = id].pc = "paused"
      BY <1>w DEF WorkerState
    <3>3. "cancelled" \in PCs /\ "failed" \in PCs
      BY DEF PCs, Polled
    <3>4. QED
      BY <1>a, <2>2, <3>1, <3>2, <3>3
  <2>11. QED
    BY <2>1, <2>2, <2>3, <2>4, <2>9, <2>10
<1>4. CASE PollThread(w) \/ Breaks(w) \/ Crash(w)
  BY <1>4, <1>w DEF PollThread, PollCancel, PollPause, SyncDurablePause, Renew, Breaks, Crash,
     controlVars, Goto, Become, IdleWorker, WorkerState
<1>5. QED
  BY <1>1, <1>2, <1>3, <1>4

\* Approvals are preserved.
LEMMA ApprovalStep == ControlTyped /\ ApprovalsStand /\ [ControlNext]_vars => ApprovalsStand'
<1> SUFFICES ASSUME ControlTyped, ApprovalsStand, [ControlNext]_vars PROVE ApprovalsStand'
  OBVIOUS
<1> DEFINE Approved(n) == perm[n].st \in {"APPROVED", "CONSUMED"}
<1>1. \A n \in Turns : Approved(n) => Approved(n)'
  BY StoreMoves, DecisionStep DEF ControlTyped, TypeOK
<1>2. CASE UNCHANGED vars
  BY <1>2 DEF vars, controlVars, storeVars, ApprovalsStand, EffectWasApproved
<1>3. CASE ControlNext
  <2>1. ASSUME NEW v \in Workers, worker'[v].pc = "approved"
        PROVE  perm'[worker'[v].turn].st \in {"APPROVED", "CONSUMED"}
    <3>1. \/ UNCHANGED worker
          \/ \E w \in Workers :
               MainLoop(w) \/ AgentLoop(w) \/ PollThread(w) \/ Breaks(w) \/ Crash(w)
      BY <1>3, OtherMoves DEF ControlNext
    <3>2. \/ worker[v].pc = "approved" /\ worker[v].turn = worker'[v].turn
          \/ worker'[v].turn \in Turns /\ perm[worker'[v].turn].st = "APPROVED"
      BY <2>1, <3>1, ApprovedByResolve
    <3>3. worker[v].pc = "approved" => worker[v].turn \in Turns
      BY DEF ControlTyped, Fits
    <3>4. QED
      BY <1>1, <3>2, <3>3 DEF ApprovalsStand
  <2>2. ASSUME NEW n \in NeedsApproval, effects'[n] > 0 PROVE Approved(n)'
    <3>0. n \in Turns
      BY ControlAssumption
    <3>1. CASE UNCHANGED effects
      BY <1>1, <2>2, <3>0, <3>1 DEF ApprovalsStand, EffectWasApproved
    <3>2. ASSUME NEW w \in Workers, RunTool(w) PROVE Approved(n)'
      <4>1. effects' = [effects EXCEPT ![worker[w].turn] =
                          IF @ < 2 THEN @ + 1 ELSE @]
        BY <3>2 DEF RunTool
      <4>2. effects[n] > 0 \/ n = worker[w].turn
        <5>1. n # worker[w].turn => effects'[n] = effects[n]
          BY <3>0, <4>1 DEF ControlTyped, TypeOK
        <5>2. QED
          BY <2>2, <5>1
      <4>3. n = worker[w].turn => worker[w].pc = "approved"
        BY <3>2 DEF RunTool, At
      <4>4. QED
        BY <1>1, <3>0, <4>2, <4>3 DEF ApprovalsStand, EffectWasApproved
    <3>3. QED
      BY <1>3, <3>1, <3>2, EffectsByRunTool
  <2>3. QED
    BY <2>1, <2>2 DEF ApprovalsStand, EffectWasApproved
<1>4. QED
  BY <1>2, <1>3

\* No tool call that needs an approval is executed without one, whatever is delivered
\* twice, late or after a crash, and however many workers believe they have the run.
THEOREM EffectsApproved == ControlSpec => []EffectWasApproved
<1>1. ControlInit => ApprovalsStand
  <2> SUFFICES ASSUME ControlInit PROVE ApprovalsStand
    OBVIOUS
  <2>1. \A n \in Turns : effects[n] = 0
    BY DEF ControlInit
  <2>2. \A w \in Workers : worker[w].pc = "idle"
    BY DEF ControlInit, IdleWorker
  <2>3. QED
    BY <2>1, <2>2, ControlAssumption DEF ApprovalsStand, EffectWasApproved
<1>2. ApprovalsStand => EffectWasApproved
  BY DEF ApprovalsStand
<1>3. QED
  BY <1>1, <1>2, ApprovalStep, ControlTypedAlways, PTL DEF ControlSpec

-----------------------------------------------------------------------------
(* Who executes the run.                                                    *)

\* What a step does to the status and the lease.
Same == UNCHANGED <<status, owner, lease>>
Ends == status' \in Terminal \cup Cancelling

\* Nobody begins to execute the run, or to cancel it without a request.
NobodyStarts ==
  \A v \in Workers :
    /\ Active(worker'[v]) => Active(worker[v])
    /\ worker'[v].cancel \/ worker'[v].pc = "cancelled" =>
         worker[v].cancel \/ worker[v].pc = "cancelled" \/ CancelCommand \in made

\* Events before the last one leave status and lease alone.
LEMMA RecordSame == \A e : Record(e) => Same
BY DEF Record, RecordToolFinished, RecordModelStarted, RecordStep, Once, storeVars, Same

\* Before the last event, the loop leaves status and lease alone or ends the run.
LEMMA LoopSame ==
  ASSUME NEW w \in Workers, AgentLoop(w), ~ EndRun(w)
  PROVE  Same \/ Ends \/ status = "WAITING_PERMISSION"
  <1>1. UNCHANGED storeVars => Same
    BY DEF storeVars, Same
  <1>2. ASSUME NEW e, NEW next, Emit(w, e, next) PROVE Same
    BY <1>1, <1>2, RecordSame DEF Emit
  <1>3. CASE Flush(w)
    BY <1>3, RecordSame DEF Flush
  <1>4. CASE ResumeAgain(w)
    BY <1>4, <1>1 DEF ResumeAgain, RecordResumed, Once, Same, storeVars
  <1>5. CASE FailBroken(w)
    BY <1>5, <1>1 DEF FailBroken, RecordFailed, Once, Ends, Terminal
  <1>6. CASE Resolve(w)
    BY <1>6, <1>1 DEF Resolve, RecordApproval, Once, Same
  <1>7. CASE StartRun(w) \/ CallModel(w) \/ ChooseTool(w) \/ StartTool(w) \/ ObserveResult(w)
    BY <1>7, <1>2 DEF StartRun, CallModel, ChooseTool, StartTool, ObserveResult
  <1>8. QED
    BY <1>1, <1>3, <1>4, <1>5, <1>6, <1>7
    DEF AgentLoop, CancelSeen, Stop, SafePoint, LoadCheckpoint, ModelAnswers, ModelFails,
        FinishRun, AskUser, RunTool, ToolFails, PauseRaises

\* In the loop, the lease changes hands only at the end.
LEMMA LoopTakes ==
  ASSUME ControlTyped, NEW w \in Workers, AgentLoop(w)
  PROVE  /\ \A v \in Workers \ {w} : worker'[v] = worker[v]
         /\ NobodyStarts
         /\ \/ Same
            \/ Ends
            \/ Active(worker[w]) /\ ~ Active(worker'[w])
            \/ Active(worker[w]) /\ status = "WAITING_PERMISSION"
<1> DEFINE u == worker[w]
           s == worker'[w]
<1>w. /\ worker \in [Workers -> WorkerState] /\ u \in WorkerState /\ Fits(u)
      /\ worker' \in [Workers -> WorkerState] /\ s \in WorkerState
      /\ \A v \in Workers \ {w} : worker'[v] = worker[v]
  BY LoopMoves, BecomeProper DEF Moves, ControlTyped, TypeOK
<1>g. ASSUME NEW pc, Goto(w, pc) PROVE s = [u EXCEPT !.pc = pc]
  BY <1>g, <1>w DEF Goto
<1>1. CASE EndRun(w)
  <2>1. u.buf = <<>> /\ s = [u EXCEPT !.pc = "stop"]
    BY <1>1, <1>g DEF EndRun
  <2>2. s.pc = "stop" /\ s.cancel = u.cancel /\ ~ Active(s)
    BY <2>1, <1>w DEF WorkerState, Active, Polled
  <2>3. u.pc # "cancelled" => Active(u)
    BY <1>1 DEF EndRun, At, Active, Polled
  <2>4. u.pc = "cancelled" => Same \/ Ends
    BY <1>1 DEF EndRun, At, RecordCancelled, Once, storeVars, Same, Ends, Terminal
  <2>5. QED
    BY <2>2, <2>3, <2>4, <1>w DEF NobodyStarts
<1>2. CASE AgentLoop(w) /\ ~ EndRun(w)
  <2>1. Active(u)
    BY <1>2 DEF AgentLoop, CancelSeen, Stop, SafePoint, StartRun, LoadCheckpoint, ResumeAgain,
       CallModel, ModelAnswers, ModelFails, FinishRun, ChooseTool, StartTool, AskUser, RunTool,
       ObserveResult, ToolFails, Resolve, Flush, Flushing, PauseRaises, FailBroken,
       At, Active, Polled
  <2>2. Same \/ Ends \/ status = "WAITING_PERMISSION"
    BY <1>2, LoopSame
  <2>3. s.cancel \/ s.pc = "cancelled" => u.cancel \/ u.pc = "cancelled"
    <3>1. CASE CancelSeen(w) \/ Stop(w) \/ ModelFails(w)
      <4>1. \/ u.cancel
            \/ Goto(w, "failed")
            \/ \E node, id : Become(w, [u EXCEPT !.pc = "paused", !.node = node, !.id = id])
        BY <3>1 DEF CancelSeen, Stop, ModelFails, SafePoint
      <4>2. ASSUME NEW node, NEW id,
                   Become(w, [u EXCEPT !.pc = "paused", !.node = node, !.id = id])
            PROVE  s.pc = "paused" /\ s.cancel = u.cancel
        BY <4>2, <1>w DEF Become, WorkerState
      <4>3. Goto(w, "failed") => s.pc = "failed" /\ s.cancel = u.cancel
        BY GotoKeeps DEF Kept
      <4>4. QED
        BY <4>1, <4>2, <4>3
    <3>2. CASE ModelAnswers(w) \/ FinishRun(w) \/ AskUser(w) \/ RunTool(w) \/ ToolFails(w)
                 \/ PauseRaises(w) \/ FailBroken(w) \/ Resolve(w) \/ ResumeAgain(w)
      <4>1. \E pc : Goto(w, pc) /\ pc # "cancelled"
        <5>1. CASE ResumeAgain(w)
          BY <5>1 DEF ResumeAgain, EntryOf, ResumableNodes
        <5>2. CASE ModelAnswers(w) \/ AskUser(w) \/ RunTool(w) \/ ToolFails(w)
                     \/ PauseRaises(w) \/ FailBroken(w)
          <6>1. \/ Goto(w, "answered") \/ Goto(w, "required") \/ Goto(w, "done")
                \/ Goto(w, "failed") \/ Goto(w, "broken") \/ Goto(w, "ack")
            BY <5>2 DEF ModelAnswers, AskUser, RunTool, ToolFails, PauseRaises, FailBroken
          <6>2. QED
            BY <6>1
        <5>3. CASE FinishRun(w) \/ Resolve(w)
          BY <5>3 DEF FinishRun, Resolve
        <5>4. QED
          BY <3>2, <5>1, <5>2, <5>3
      <4>2. QED
        BY <4>1, GotoKeeps DEF Kept
    <3>3. CASE LoadCheckpoint(w)
      <4>1. \/ s = [u EXCEPT !.pc = "broken"]
            \/ s = [u EXCEPT !.pc = "resuming", !.node = ckpt.node,
                             !.turn = ckpt.turn, !.attempts = ckpt.attempts]
        BY <3>3, <1>w DEF LoadCheckpoint, Become
      <4>2. QED
        BY <4>1, <1>w DEF WorkerState
    <3>4. CASE Flush(w)
      <4>1. s = [u EXCEPT !.buf = Tail(@)]
        BY <3>4, <1>w DEF Flush, Become
      <4>2. QED
        BY <4>1, <1>w DEF WorkerState
    <3>5. CASE StartRun(w) \/ CallModel(w) \/ ChooseTool(w) \/ StartTool(w) \/ ObserveResult(w)
      <4>1. \E e, n, pc : /\ pc # "cancelled"
                          /\ \/ Emit(w, e, [u EXCEPT !.pc = pc]) /\ n = u.turn
                             \/ Emit(w, e, [u EXCEPT !.pc = pc, !.turn = n])
        BY <3>5 DEF StartRun, CallModel, ChooseTool, StartTool, ObserveResult
      <4>2. PICK e, n, pc : /\ pc # "cancelled"
                            /\ \/ Emit(w, e, [u EXCEPT !.pc = pc]) /\ n = u.turn
                               \/ Emit(w, e, [u EXCEPT !.pc = pc, !.turn = n])
        BY <4>1
      <4>3. s.pc = pc /\ Kept(u, s)
        BY <4>2, EmitWithinTurn, EmitToTurn
      <4>4. QED
        BY <4>2, <4>3 DEF Kept
    <3>6. QED
      BY <1>2, <3>1, <3>2, <3>3, <3>4, <3>5 DEF AgentLoop
  <2>4. NobodyStarts
    BY <2>1, <2>3, <1>w DEF NobodyStarts
  <2>5. QED
    BY <2>1, <2>2, <2>4, <1>w
<1>3. QED
  BY <1>1, <1>2

\* A worker claims the run.
Takes(w) ==
  /\ ~ Active(worker[w])
  /\ status \in {"QUEUED", "PAUSED", "RESUME_REQUESTED", "WAITING_PERMISSION"}
  /\ status' = "RUNNING" /\ owner' = w /\ lease' = "live"
  /\ worker'[w].cancel \/ worker'[w].pc = "cancelled" =>
       worker[w].cancel \/ worker[w].pc = "cancelled"

\* The main loop claims the run, or nobody starts anything.
LEMMA MainTakes ==
  ASSUME ControlTyped, NEW w \in Workers, MainLoop(w)
  PROVE  /\ \A v \in Workers \ {w} : worker'[v] = worker[v]
         /\ Takes(w) \/ (NobodyStarts /\ (Same \/ Ends))
<1> DEFINE u == worker[w]
           s == worker'[w]
           G == Takes(w) \/ (NobodyStarts /\ (Same \/ Ends))
<1>w. /\ worker \in [Workers -> WorkerState] /\ u \in WorkerState /\ Fits(u)
      /\ worker' \in [Workers -> WorkerState] /\ s \in WorkerState
      /\ \A v \in Workers \ {w} : worker'[v] = worker[v]
  BY MainMoves, BecomeProper DEF ControlTyped, TypeOK
<1> SUFFICES G
  BY <1>w
<1>c. /\ status = "CANCEL_REQUESTED" => CancelCommand \in made
      /\ UNCHANGED storeVars => Same
  BY DEF ControlTyped, StoreInv, CancelStands, Cancelling, storeVars, Same
<1>b. ASSUME NEW x, Become(w, x) PROVE s = x
  BY <1>b, <1>w DEF Become
<1>i. ASSUME s = IdleWorker PROVE NobodyStarts
  BY <1>i, <1>w DEF IdleWorker, Active, Polled, NobodyStarts
<1>k. ASSUME NEW pc \in {"dead", "ack"}, Goto(w, pc) PROVE NobodyStarts
  <2>1. ~ Active(s) /\ s.cancel = u.cancel /\ s.pc # "cancelled"
    BY <1>k, GotoKeeps DEF Active, Polled, Kept
  <2>2. QED
    BY <1>w, <2>1 DEF NobodyStarts
<1>n. UNCHANGED worker => NobodyStarts
  BY DEF NobodyStarts
<1>1. ASSUME NEW m \in Jobs, Receive(w, m) PROVE G
  <2>1. s = [IdleWorker EXCEPT !.pc = "claim", !.job = m]
    BY <1>1, <1>b DEF Receive
  <2>2. ~ Active(s) /\ ~ s.cancel /\ s.pc # "cancelled"
    BY <2>1 DEF IdleWorker, Active, Polled
  <2>3. QED
    BY <1>1, <1>c, <1>w, <2>2 DEF Receive, NobodyStarts
<1>2. CASE ClaimToExecute(w)
  <2>1. u.pc = "claim" /\ u.job \in Jobs /\ ~ u.cont /\ u.buf = <<>>
    BY <1>2, <1>w DEF ClaimToExecute, At, Fits, ContPCs
  <2>2. /\ status \in {"QUEUED", "PAUSED", "RESUME_REQUESTED"}
        /\ status' = "RUNNING" /\ owner' = w /\ lease' = "live"
    BY <1>2 DEF ClaimToExecute, ClaimJob, ClaimRecovery, MayRecover, Lock
  <2>3. ~ Active(u)
    BY <2>1 DEF Active, Polled
  <2>4. s.pc = "begin" /\ s.cancel = u.cancel
    BY <1>2, GotoKeeps DEF ClaimToExecute, Kept
  <2>5. QED
    BY <2>2, <2>3, <2>4 DEF Takes
<1>3. CASE ClaimToCancel(w)
  <2>1. u.pc = "claim" /\ u.buf = <<>>
    BY <1>3, <1>w DEF ClaimToCancel, At, Fits, ContPCs
  <2>2. s.pc = "cancelled" /\ s.buf = <<>> /\ CancelCommand \in made
    BY <1>3, <2>1, <1>c, GotoKeeps DEF ClaimToCancel, ClaimCancelledJob
  <2>3. ~ Active(s)
    BY <2>2 DEF Active, Polled
  <2>4. NobodyStarts
    BY <1>w, <2>2, <2>3 DEF NobodyStarts
  <2>5. QED
    BY <1>3, <2>4 DEF ClaimToCancel, ClaimCancelledJob, Same
<1>4. CASE ClaimNothing(w)
  <2>1. s = IdleWorker
    BY <1>4, <1>b DEF ClaimNothing
  <2>2. Same
    BY <1>4, <1>c DEF ClaimNothing, RefuseRecovery, Same
  <2>3. QED
    BY <1>i, <2>1, <2>2
<1>5. CASE ClaimFails(w)
  <2>1. s = IdleWorker \/ Goto(w, "dead")
    BY <1>5, <1>b DEF ClaimFails
  <2>2. QED
    BY <1>5, <1>c, <1>i, <1>k, <2>1 DEF ClaimFails
<1>6. CASE DeadLetter(w)
  BY <1>6, <1>k DEF DeadLetter, FailDelivery, FailClosed, Same, Ends, Terminal
<1>7. CASE Ack(w)
  BY <1>7, <1>b, <1>c, <1>i DEF Ack
<1>8. CASE IdleCancel(w)
  <2>1. UNCHANGED worker
          \/ /\ CancelCommand \in made
             /\ s = [IdleWorker EXCEPT !.pc = "cancelled", !.job = CancelCommand]
    BY <1>8, <1>b DEF IdleCancel, Drop
  <2>2. ASSUME s = [IdleWorker EXCEPT !.pc = "cancelled", !.job = CancelCommand]
        PROVE  ~ Active(s)
    BY <2>2 DEF IdleWorker, Active, Polled
  <2>3. NobodyStarts
    BY <1>n, <1>w, <2>1, <2>2 DEF NobodyStarts
  <2>4. QED
    BY <1>8, <1>c, <2>3 DEF IdleCancel, Drop
<1>9. ASSUME NEW m \in PauseCommands, IdlePause(w, m) PROVE G
  BY <1>9, <1>c, <1>n DEF IdlePause, Drop
<1>10. ASSUME NEW n \in Turns, IdleDecision(w, n) PROVE G
  <2>1. UNCHANGED storeVars \/ \E r \in BOOLEAN : RecordFailed(0, r)
    BY <1>10 DEF IdleDecision
  <2>2. Same \/ Ends
    BY <2>1, <1>c DEF RecordFailed, Once, Ends, Terminal
  <2>3. QED
    BY <1>10, <1>n, <2>2 DEF IdleDecision
<1>11. ASSUME NEW n \in Turns, ClaimDecision(w, n) PROVE G
  <2>1. u.pc = "idle" /\ ~ Active(u)
    BY <1>11 DEF ClaimDecision, At, Active, Polled
  <2> DEFINE x == [IdleWorker EXCEPT !.pc = "resolve", !.job = <<"decision", n>>,
                                     !.turn = n, !.attempts = perm[n].attempts,
                                     !.cont = TRUE]
  <2>2. s = x
    BY <1>11, <1>b DEF ClaimDecision
  <2>3. x.pc = "resolve" /\ x.cancel = FALSE
    BY DEF IdleWorker
  <2> HIDE DEF x
  <2>4. QED
    BY <1>11, <2>1, <2>2, <2>3 DEF ClaimDecision, ClaimPermission, Lock, Takes
<1>12. QED
  BY <1>w, <1>1, <1>2, <1>3, <1>4, <1>5, <1>6, <1>7, <1>8, <1>9, <1>10, <1>11
  DEF MainLoop

\* The poll thread, errors and crashes do not move the run; a lease may be renewed.
LEMMA PollTakes ==
  ASSUME ControlTyped, NEW w \in Workers, PollThread(w) \/ Breaks(w) \/ Crash(w)
  PROVE  /\ \A v \in Workers \ {w} : worker'[v] = worker[v]
         /\ NobodyStarts
         /\ Same \/ (UNCHANGED <<status, owner>> /\ lease' = "live")
<1> DEFINE u == worker[w]
           s == worker'[w]
<1>w. /\ worker \in [Workers -> WorkerState] /\ u \in WorkerState /\ Fits(u)
      /\ worker' \in [Workers -> WorkerState] /\ s \in WorkerState
      /\ \A v \in Workers \ {w} : worker'[v] = worker[v]
  BY PollMoves, BecomeProper DEF ControlTyped, TypeOK
<1> DEFINE G == /\ NobodyStarts
                /\ Same \/ (UNCHANGED <<status, owner>> /\ lease' = "live")
<1> SUFFICES G
  BY <1>w
<1>c. UNCHANGED storeVars => Same
  BY DEF storeVars, Same
<1>b. ASSUME NEW x, Become(w, x) PROVE s = x
  BY <1>b, <1>w DEF Become
<1>1. CASE PollCancel(w)
  <2>1. s = [u EXCEPT !.cancel = TRUE] /\ CancelCommand \in made
    BY <1>1, <1>b DEF PollCancel
  <2>2. s.pc = u.pc /\ s.buf = u.buf
    BY <2>1, <1>w DEF WorkerState
  <2>3. QED
    BY <1>1, <1>c, <1>w, <2>1, <2>2 DEF PollCancel, NobodyStarts, Active
<1>p. ASSUME NEW k, s = [u EXCEPT !.pause = k] PROVE NobodyStarts
  <2>1. s.pc = u.pc /\ s.buf = u.buf /\ s.cancel = u.cancel
    BY <1>p, <1>w DEF WorkerState
  <2>2. QED
    BY <1>w, <2>1 DEF NobodyStarts, Active
<1>2. ASSUME NEW m \in PauseCommands, PollPause(w, m) PROVE NobodyStarts /\ Same
  BY <1>2, <1>b, <1>c, <1>p DEF PollPause
<1>3. CASE SyncDurablePause(w)
  BY <1>3, <1>b, <1>c, <1>p DEF SyncDurablePause
<1>4. CASE Renew(w)
  BY <1>4 DEF Renew, RenewLease, controlVars, NobodyStarts
<1>5. CASE Breaks(w)
  <2>1. Active(u) /\ s.cancel = u.cancel /\ s.pc = "broken"
    BY <1>5, GotoKeeps DEF Breaks, Active, Kept
  <2>2. QED
    BY <1>5, <1>c, <1>w, <2>1 DEF Breaks, NobodyStarts
<1>6. CASE Crash(w)
  <2>1. s = IdleWorker
    BY <1>6, <1>b DEF Crash
  <2>2. NobodyStarts
    BY <2>1, <1>w DEF IdleWorker, Active, Polled, NobodyStarts
  <2>3. QED
    BY <1>6, <1>c, <2>2 DEF Crash
<1>7. QED
  BY <1>w, <1>1, <1>2, <1>3, <1>4, <1>5, <1>6 DEF PollThread

\* The user and the control plane take the run from nobody who keeps his lease.
LEMMA OtherTakes ==
  ASSUME \/ \E m \in Messages : Publish(m)
         \/ RedisLosesData
         \/ UserRequest
         \/ LeaseTimeout
         \/ Reconcile
  PROVE  \/ Same
         \/ Ends
         \/ status = "RUNNING" /\ status' = "PAUSE_REQUESTED" /\ UNCHANGED <<owner, lease>>
         \/ status = "PAUSED" /\ status' = "RESUME_REQUESTED"
         \/ /\ status \in {"RUNNING", "PAUSE_REQUESTED"} /\ lease = "expired"
            /\ status' = "PAUSED"
         \/ UNCHANGED <<status, owner>> /\ lease = "live" /\ (env.slow \/ ~ Attended)
<1>1. CASE (\E m \in Messages : Publish(m)) \/ RedisLosesData
  BY <1>1 DEF Publish, RedisLosesData, storeVars, Same
<1>2. CASE UserRequest
  BY <1>2 DEF UserRequest, UserStep, CancelRun, PauseRun, ResumeRun, Decide, Same, Ends,
     Cancelling
<1>3. CASE LeaseTimeout
  BY <1>3 DEF LeaseTimeout, LeaseExpires
<1>4. CASE Reconcile
  BY <1>4 DEF Reconcile, ExpirePermission, ConfirmPause, RescheduleRun, Park, Expired,
     FailExpiredRun, RequeueRun, FailQueuedRun, FailClosed, Same, Ends, Terminal
<1>5. QED
  BY <1>1, <1>2, <1>3, <1>4

\* Exclusive execution is preserved.
LEMMA ExclusiveStep ==
  ControlTyped /\ ExclusiveInv /\ [ControlNext]_vars => ExclusiveInv'
<1> SUFFICES ASSUME ControlTyped, ExclusiveInv, [ControlNext]_vars PROVE ExclusiveInv'
  OBVIOUS
<1> DEFINE Asked(s) == s.cancel \/ s.pc = "cancelled"
<1>1. CASE UNCHANGED vars
  BY <1>1 DEF vars, controlVars, storeVars, ExclusiveInv, CancelsAsked, Exclusive, OneWorker
<1>2. CASE ControlNext
  <2>a. made \subseteq made' /\ env'.slow = env.slow
    BY <1>2, StoreMoves, MadeGrows, EffectsByRunTool
  <2>1. CancelsAsked'
    <3>1. \A v \in Workers : Asked(worker'[v]) =>
            Asked(worker[v]) \/ CancelCommand \in made
      BY <1>2, LoopTakes, MainTakes, PollTakes, OtherMoves DEF ControlNext, NobodyStarts, Takes
    <3>2. QED
      BY <2>a, <3>1 DEF ExclusiveInv, CancelsAsked
  <2>2. ASSUME ~ env.slow \/ OneWorker PROVE Exclusive'
    <3>0. Exclusive
      BY <2>2 DEF ExclusiveInv
    <3>1. ASSUME NobodyStarts, Same PROVE Exclusive'
      BY <2>a, <3>0, <3>1 DEF NobodyStarts, Same, Exclusive
    <3>2. ASSUME NobodyStarts, Ends PROVE Exclusive'
      BY <2>a, <3>0, <3>2 DEF NobodyStarts, Ends, Exclusive, Terminal, Cancelling
    <3>3. ASSUME NEW w \in Workers, Takes(w), \A v \in Workers \ {w} : worker'[v] = worker[v]
          PROVE  Exclusive'
      <4>1. \A v \in Workers \ {w} : ~ Active(worker[v])
        BY <2>2, <3>0, <3>3 DEF Takes, Exclusive, OneWorker
      <4>2. QED
        BY <3>3, <4>1 DEF Takes, Exclusive
    <3>4. ASSUME NEW w \in Workers, Active(worker[w]), ~ Active(worker'[w]), NobodyStarts
          PROVE  Exclusive'
      <4>1. \A v \in Workers : ~ Active(worker'[v])
        BY <3>0, <3>4 DEF NobodyStarts, Exclusive
      <4>2. QED
        BY <4>1 DEF Exclusive
    <3>5. ASSUME NEW w \in Workers, AgentLoop(w) PROVE Exclusive'
      <4>1. ~ (Active(worker[w]) /\ status = "WAITING_PERMISSION")
        BY <3>0, <3>5 DEF Exclusive
      <4>2. QED
        BY <3>1, <3>2, <3>4, <3>5, <4>1, LoopTakes
    <3>6. ASSUME NEW w \in Workers, MainLoop(w) PROVE Exclusive'
      BY <3>1, <3>2, <3>3, <3>6, MainTakes
    <3>7. ASSUME NEW w \in Workers, PollThread(w) \/ Breaks(w) \/ Crash(w) PROVE Exclusive'
      <4>1. ASSUME NobodyStarts, UNCHANGED <<status, owner>>, lease' = "live"
            PROVE  Exclusive'
        BY <2>a, <3>0, <4>1 DEF NobodyStarts, Exclusive
      <4>2. QED
        BY <3>1, <3>7, <4>1, PollTakes
    <3>8. ASSUME \/ \E m \in Messages : Publish(m)
                 \/ RedisLosesData
                 \/ UserRequest
                 \/ LeaseTimeout
                 \/ Reconcile
          PROVE  Exclusive'
      <4>0. UNCHANGED worker /\ NobodyStarts
        BY <3>8, OtherMoves DEF NobodyStarts
      <4>1. CASE status = "RUNNING" /\ status' = "PAUSE_REQUESTED" /\ UNCHANGED <<owner, lease>>
        BY <2>a, <3>0, <4>0, <4>1 DEF Exclusive
      <4>2. CASE status = "PAUSED" /\ status' = "RESUME_REQUESTED"
        BY <2>a, <3>0, <4>0, <4>2 DEF Exclusive
      <4>3. CASE /\ status \in {"RUNNING", "PAUSE_REQUESTED"} /\ lease = "expired"
                 /\ status' = "PAUSED"
        BY <2>a, <3>0, <4>0, <4>3 DEF Exclusive
      <4>4. CASE UNCHANGED <<status, owner>> /\ lease = "live" /\ (env.slow \/ ~ Attended)
        <5>1. ASSUME NEW v \in Workers, Active(worker[v]), ~ env.slow
              PROVE  status \notin {"RUNNING", "PAUSE_REQUESTED"}
          BY <3>0, <4>4, <5>1 DEF Exclusive, Attended, Active, Polled
        <5>2. QED
          BY <2>a, <3>0, <4>0, <4>4, <5>1 DEF Exclusive
      <4>5. QED
        BY <3>1, <3>2, <3>8, <4>0, <4>1, <4>2, <4>3, <4>4, OtherTakes
    <3>9. QED
      BY <1>2, <3>5, <3>6, <3>7, <3>8 DEF ControlNext
  <2>3. QED
    BY <2>a, <2>1, <2>2 DEF ExclusiveInv, OneWorker
<1>3. QED
  BY <1>1, <1>2

\* Nobody has the run at the start.
LEMMA ExclusiveInit == ControlInit => ExclusiveInv
BY DEF ControlInit, IdleWorker, Active, Polled, ExclusiveInv, Exclusive, CancelsAsked

\* Claims, leases and cancel flags fit together in every state.
THEOREM ExclusiveAlways == ControlSpec => []ExclusiveInv
BY ExclusiveInit, ExclusiveStep, ControlTypedAlways, PTL DEF ControlSpec

\* While leases are kept, two workers never execute the run.
THEOREM OneExecutor == ControlSpec => []SingleExecutor
<1>1. ExclusiveInv => SingleExecutor
  BY DEF ExclusiveInv, Exclusive, SingleExecutor, Executing, Active, Polled
<1>2. QED
  BY ExclusiveAlways, <1>1, PTL

\* While leases are kept, nobody executes a run that is parked.
THEOREM ParkedIsIdle == ControlSpec => []ParkedRunIsIdle
<1>1. ExclusiveInv => ParkedRunIsIdle
  BY DEF ExclusiveInv, Exclusive, ParkedRunIsIdle, Executing, Active, Polled
<1>2. QED
  BY ExclusiveAlways, <1>1, PTL

-----------------------------------------------------------------------------
(* Tool calls: the buffer.                                                  *)

\* What follows in a buffer with one event more.
LEMMA FollowsAppend ==
  ASSUME NEW S, NEW b \in Seq(S), NEW e, NEW type, NEW n
  PROVE  /\ \A i : Follows(b, i, type, n) => Follows(Append(b, e), i, type, n)
         /\ e.type = type /\ e.turn = n =>
              \A i \in 0 .. Len(b) : Follows(Append(b, e), i, type, n)
<1>1. /\ Len(Append(b, e)) = Len(b) + 1 /\ Append(b, e)[Len(b) + 1] = e
      /\ DOMAIN b = 1 .. Len(b) /\ Len(b) \in Nat
      /\ DOMAIN Append(b, e) = 1 .. Len(b) + 1
      /\ \A i \in 1 .. Len(b) : Append(b, e)[i] = b[i]
  OBVIOUS
<1>2. QED
  BY <1>1 DEF Follows

\* What follows in a buffer without its first event.
LEMMA FollowsTail ==
  ASSUME NEW S, NEW b \in Seq(S), b # <<>>, NEW type, NEW n
  PROVE  /\ \A i \in Nat : Follows(b, i + 1, type, n) => Follows(Tail(b), i, type, n)
         /\ Follows(b, 0, type, n) =>
              Follows(Tail(b), 0, type, n) \/ (Head(b).type = type /\ Head(b).turn = n)
<1>1. /\ Len(b) \in Nat \ {0} /\ DOMAIN b = 1 .. Len(b)
      /\ DOMAIN Tail(b) = 1 .. Len(b) - 1
      /\ \A i \in 1 .. Len(b) - 1 : Tail(b)[i] = b[i + 1]
      /\ Head(b) = b[1]
  OBVIOUS
<1>2. ASSUME NEW i \in Nat, NEW j \in DOMAIN b, j > i + 1, b[j].type = type, b[j].turn = n
      PROVE  Follows(Tail(b), i, type, n)
  <2>1. j - 1 \in DOMAIN Tail(b) /\ j - 1 > i /\ Tail(b)[j - 1] = b[j]
    BY <1>1, <1>2
  <2>2. QED
    BY <1>2, <2>1 DEF Follows
<1>3. \A i \in Nat : Follows(b, i + 1, type, n) => Follows(Tail(b), i, type, n)
  BY <1>2 DEF Follows
<1>4. ASSUME Follows(b, 0, type, n)
      PROVE  Follows(Tail(b), 0, type, n) \/ (Head(b).type = type /\ Head(b).turn = n)
  <2>1. PICK j \in DOMAIN b : j > 0 /\ b[j].type = type /\ b[j].turn = n
    BY <1>4 DEF Follows
  <2>2. CASE j = 1
    BY <1>1, <2>1, <2>2
  <2>3. CASE j # 1
    <3>1. j > 0 + 1
      BY <1>1, <2>1, <2>3
    <3>2. QED
      BY <1>2, <2>1, <3>1
  <2>4. QED
    BY <2>2, <2>3
<1>5. QED
  BY <1>3, <1>4

\* The events a step may forget or add to the inbox, apart from those of tool calls.
KeysSame == \A type \in Keyed, n \in Turns : <<type, n>> \in seen' <=> <<type, n>> \in seen

\* A turn is fresh as long as nothing of it happens.
LEMMA FreshKept ==
  ASSUME UNCHANGED effects, KeysSame
  PROVE  /\ \A n \in Turns : Fresh(n) <=> Fresh(n)'
         /\ \A k : FreshFrom(k) => FreshFrom(k)'
BY DEF KeysSame, Keyed, Fresh, FreshFrom

\* Buffered events have turns.
LEMMA BufferedType ==
  ASSUME NEW b \in Seq(BufferedEvent), NEW i \in DOMAIN b
  PROVE  /\ b[i] \in BufferedEvent
         /\ b[i].type \in Keyed => b[i].turn \in Turns
         /\ b[i].turn \in Int /\ b[i].ckpt.turn \in Int
<1>1. b[i] \in BufferedEvent
  OBVIOUS
<1>2. QED
  BY <1>1, StoreAssumption DEF BufferedEvent, Keyed, Sendable, Turns

\* A buffer stays safe while no tool is executed and the inbox gains no key of a turn.
LEMMA BufferKept ==
  ASSUME UNCHANGED effects, KeysSame, NEW b \in Seq(BufferedEvent), BufferIsSafe(b)
  PROVE  BufferIsSafe(b)'
<1> SUFFICES ASSUME NEW i \in DOMAIN b
             PROVE /\ Resumable(b[i].ckpt) => \A n \in Turns : n >= b[i].ckpt.turn =>
                        Fresh(n)' \/ Follows(b, i, "toolStarted", n)
                   /\ b[i].type = "toolStarted" => ~ Resumable(b[i].ckpt)
                   /\ b[i].type = "finished" => b[i].ckpt.turn > b[i].turn
                   /\ b[i].type \in Keyed =>
                        /\ <<b[i].type, b[i].turn>> \notin seen'
                        /\ \A j \in DOMAIN b : j > i =>
                             /\ b[j].ckpt.turn > b[i].turn
                             /\ b[j].type = b[i].type => b[j].turn > b[i].turn
  BY DEF BufferIsSafe
<1>1. b[i].type \in Keyed => b[i].turn \in Turns
  BY BufferedType
<1>2. QED
  BY <1>1, FreshKept DEF BufferIsSafe, KeysSame

\* An event that may be appended to a buffer.
LEMMA BufferAppend ==
  ASSUME NEW b \in Seq(BufferedEvent), NEW e \in BufferedEvent, BufferIsSafe(b),
         Resumable(e.ckpt) => FreshFrom(e.ckpt.turn),
         e.type = "toolStarted" => ~ Resumable(e.ckpt),
         e.type = "finished" => e.ckpt.turn > e.turn,
         e.type \in Keyed => <<e.type, e.turn>> \notin seen,
         \A i \in DOMAIN b : b[i].type \in Keyed =>
           e.ckpt.turn > b[i].turn /\ (e.type = b[i].type => e.turn > b[i].turn)
  PROVE  BufferIsSafe(Append(b, e))
<1> DEFINE c == Append(b, e)
<1>1. /\ Len(b) \in Nat /\ DOMAIN b = 1 .. Len(b) /\ DOMAIN c = 1 .. Len(b) + 1
      /\ \A i \in 1 .. Len(b) : c[i] = b[i]
      /\ c[Len(b) + 1] = e
  OBVIOUS
<1>2. \A i, n : Follows(b, i, "toolStarted", n) => Follows(c, i, "toolStarted", n)
  BY FollowsAppend
<1> HIDE DEF c
<1>3. ASSUME NEW i \in DOMAIN c
      PROVE  /\ Resumable(c[i].ckpt) => \A n \in Turns : n >= c[i].ckpt.turn =>
                  Fresh(n) \/ Follows(c, i, "toolStarted", n)
             /\ c[i].type = "toolStarted" => ~ Resumable(c[i].ckpt)
             /\ c[i].type = "finished" => c[i].ckpt.turn > c[i].turn
             /\ c[i].type \in Keyed => <<c[i].type, c[i].turn>> \notin seen
  <2>1. CASE i \in DOMAIN b
    BY <1>1, <1>2, <2>1 DEF BufferIsSafe
  <2>2. CASE i = Len(b) + 1
    BY <1>1, <2>2 DEF FreshFrom
  <2>3. QED
    BY <1>1, <2>1, <2>2
<1>4. ASSUME NEW i \in DOMAIN c, c[i].type \in Keyed, NEW j \in DOMAIN c, j > i
      PROVE  c[j].ckpt.turn > c[i].turn /\ (c[j].type = c[i].type => c[j].turn > c[i].turn)
  <2>1. i \in DOMAIN b /\ c[i] = b[i]
    BY <1>1, <1>4
  <2>2. CASE j \in DOMAIN b
    BY <1>1, <1>4, <2>1, <2>2 DEF BufferIsSafe
  <2>3. CASE j = Len(b) + 1
    BY <1>1, <1>4, <2>1, <2>3
  <2>4. QED
    BY <1>1, <2>2, <2>3
<1>5. BufferIsSafe(c)
  BY <1>3, <1>4 DEF BufferIsSafe
<1>6. QED
  BY <1>5 DEF c

\* The first event of a buffer is published.
LEMMA BufferTail ==
  ASSUME NEW b \in Seq(BufferedEvent), b # <<>>, BufferIsSafe(b), UNCHANGED effects,
         \A type \in Keyed, n \in Turns : <<type, n>> \in seen' =>
           <<type, n>> \in seen \/ (Head(b).type = type /\ Head(b).turn = n)
  PROVE  BufferIsSafe(Tail(b))'
<1> DEFINE t == Tail(b)
<1>1. /\ Len(b) \in Nat \ {0} /\ DOMAIN b = 1 .. Len(b)
      /\ DOMAIN t = 1 .. Len(b) - 1
      /\ \A i \in 1 .. Len(b) - 1 : t[i] = b[i + 1]
      /\ Head(b) = b[1]
  OBVIOUS
<1>2. \A i \in Nat : \A n : Follows(b, i + 1, "toolStarted", n) => Follows(t, i, "toolStarted", n)
  BY FollowsTail
<1>b. \A i \in DOMAIN b : /\ b[i].type \in Keyed => b[i].turn \in Turns
                          /\ b[i].turn \in Int /\ b[i].ckpt.turn \in Int
  BY BufferedType
<1> HIDE DEF t
<1>3. ASSUME NEW i \in DOMAIN t, Resumable(t[i].ckpt), NEW n \in Turns, n >= t[i].ckpt.turn
      PROVE  Fresh(n)' \/ Follows(t, i, "toolStarted", n)
  <2>1. i + 1 \in DOMAIN b /\ t[i] = b[i + 1] /\ i \in Nat /\ i + 1 > 1 /\ 1 \in DOMAIN b
    BY <1>1
  <2>2. Fresh(n) \/ Follows(t, i, "toolStarted", n)
    BY <1>2, <1>3, <2>1 DEF BufferIsSafe
  <2>3. Head(b).type \in Keyed => Head(b).turn # n
    <3>1. Head(b).type \in Keyed => b[i + 1].ckpt.turn > Head(b).turn
      BY <1>1, <2>1 DEF BufferIsSafe
    <3>2. n \in Int
      BY DEF Turns
    <3>3. QED
      BY <1>3, <1>b, <1>1, <2>1, <3>1, <3>2
  <2>4. QED
    BY <2>2, <2>3 DEF Fresh, Keyed
<1>4. ASSUME NEW i \in DOMAIN t
      PROVE  /\ t[i].type = "toolStarted" => ~ Resumable(t[i].ckpt)
             /\ t[i].type = "finished" => t[i].ckpt.turn > t[i].turn
             /\ t[i].type \in Keyed => <<t[i].type, t[i].turn>> \notin seen'
  <2>1. i + 1 \in DOMAIN b /\ t[i] = b[i + 1] /\ i + 1 > 1 /\ 1 \in DOMAIN b
    BY <1>1
  <2>2. /\ b[i + 1].type = "toolStarted" => ~ Resumable(b[i + 1].ckpt)
        /\ b[i + 1].type = "finished" => b[i + 1].ckpt.turn > b[i + 1].turn
        /\ b[i + 1].type \in Keyed => <<b[i + 1].type, b[i + 1].turn>> \notin seen
    BY <2>1 DEF BufferIsSafe
  <2>3. b[1].type \in Keyed /\ b[i + 1].type = b[1].type => b[i + 1].turn > b[1].turn
    BY <2>1 DEF BufferIsSafe
  <2>4. b[i + 1].type \in Keyed => ~ (b[1].type = b[i + 1].type /\ b[1].turn = b[i + 1].turn)
    BY <1>b, <2>1, <2>3
  <2>5. QED
    BY <1>1, <1>b, <2>1, <2>2, <2>4
<1>5. ASSUME NEW i \in DOMAIN t, t[i].type \in Keyed, NEW j \in DOMAIN t, j > i
      PROVE  t[j].ckpt.turn > t[i].turn /\ (t[j].type = t[i].type => t[j].turn > t[i].turn)
  <2>1. /\ i + 1 \in DOMAIN b /\ t[i] = b[i + 1] /\ j + 1 \in DOMAIN b /\ t[j] = b[j + 1]
        /\ j + 1 > i + 1
    BY <1>1, <1>5
  <2>2. b[i + 1].type \in Keyed =>
          /\ b[j + 1].ckpt.turn > b[i + 1].turn
          /\ b[j + 1].type = b[i + 1].type => b[j + 1].turn > b[i + 1].turn
    BY <2>1 DEF BufferIsSafe
  <2>3. QED
    BY <1>5, <2>1, <2>2
<1>6. BufferIsSafe(t)'
  BY <1>3, <1>4, <1>5 DEF BufferIsSafe
<1>7. QED
  BY <1>6 DEF t

\* Nothing follows in an empty buffer.
LEMMA FollowsEmpty == \A i, type, n : ~ Follows(<<>>, i, type, n)
BY DEF Follows

\* An empty buffer is safe.
LEMMA EmptyIsSafe == BufferIsSafe(<<>>)
BY DEF BufferIsSafe

\* What the transaction of a published event does.
LEMMA RecordShape ==
  ASSUME ControlTyped, NEW e \in BufferedEvent, Record(e)
  PROVE  /\ \/ <<e.type, e.turn>> \in seen /\ UNCHANGED storeVars
            \/ ckpt' = e.ckpt
         /\ \A type \in Keyed, n \in Turns : <<type, n>> \in seen' =>
              <<type, n>> \in seen \/ (e.type = type /\ e.turn = n)
         /\ \A n \in Turns : Open(n)' => Open(n) /\ perm'[n].st = perm[n].st
         /\ e.type = "finished" /\ <<e.type, e.turn>> \notin seen =>
              perm'[e.turn].st # "APPROVED"
<1> USE DEF Once, Consume, storeVars, Open, Keyed
<1>p. perm \in [Turns -> [st : PermStatus, attempts : Nat]]
  BY DEF ControlTyped, TypeOK, StoreTypeOK
<1>1. CASE e.type = "finished" /\ RecordToolFinished(e.turn, e.ckpt)
  <2>1. e.turn \in Turns
    BY <1>1 DEF BufferedEvent
  <2>2. CASE <<"finished", e.turn>> \in seen
    BY <1>1, <2>2 DEF RecordToolFinished
  <2>3. CASE <<"finished", e.turn>> \notin seen
    <3>1. /\ ckpt' = e.ckpt /\ seen' = seen \cup {<<"finished", e.turn>>}
          /\ perm' = IF perm[e.turn].st = "APPROVED"
                     THEN [perm EXCEPT ![e.turn].st = "CONSUMED"]
                     ELSE perm
      BY <1>1, <2>3 DEF RecordToolFinished
    <3>2. \A n \in Turns : /\ n # e.turn => perm'[n] = perm[n]
                           /\ perm[n].st # "APPROVED" => perm'[n] = perm[n]
      BY <3>1, <1>p
    <3>3. perm'[e.turn].st # "APPROVED"
      BY <3>1, <1>p, <2>1
    <3>4. perm[e.turn].st = "APPROVED" => perm'[e.turn].st = "CONSUMED"
      BY <3>1, <1>p, <2>1
    <3>5. \A n \in Turns : Open(n)' => Open(n) /\ perm'[n].st = perm[n].st
      BY <3>2, <3>4
    <3>6. QED
      BY <1>1, <3>1, <3>3, <3>5
  <2>4. QED
    BY <2>2, <2>3
<1>2. CASE e.type = "modelStarted" /\ RecordModelStarted(e.ckpt)
  BY <1>2 DEF RecordModelStarted
<1>3. CASE /\ e.type \in {"started", "answered", "toolStarted"}
           /\ RecordStep(e.type, e.turn, e.ckpt)
  BY <1>3 DEF RecordStep
<1>4. QED
  BY <1>1, <1>2, <1>3 DEF Record

-----------------------------------------------------------------------------
(* Tool calls: the loop.                                                    *)

\* An event is sent: what stays in order.
LEMMA EmitOrder ==
  ASSUME ControlTyped, NEW w \in Workers, NEW e \in BufferedEvent, Sent(w, e),
         UNCHANGED effects,
         CheckpointIsSafe(worker[w].buf), BufferIsSafe(worker[w].buf),
         ~ worker[w].cont => \A n \in Turns : ~ Open(n),
         Resumable(e.ckpt) => FreshFrom(e.ckpt.turn),
         e.type = "toolStarted" => ~ Resumable(e.ckpt),
         e.type = "finished" => e.ckpt.turn > e.turn,
         e.type \in Keyed => <<e.type, e.turn>> \notin seen,
         \A i \in DOMAIN worker[w].buf : worker[w].buf[i].type \in Keyed =>
           /\ e.ckpt.turn > worker[w].buf[i].turn
           /\ e.type = worker[w].buf[i].type => e.turn > worker[w].buf[i].turn
  PROVE  /\ CheckpointIsSafe(worker[w].buf)' /\ BufferIsSafe(worker[w].buf)'
         /\ \/ worker[w].cont /\ worker'[w].buf = Append(worker[w].buf, e) /\ UNCHANGED storeVars
            \/ ~ worker[w].cont /\ worker[w].buf = <<>> /\ worker'[w].buf = <<>>
         /\ ~ worker[w].cont /\ e.type \in Keyed => ckpt' = e.ckpt
         /\ \A n \in Turns : Fresh(n) /\ ~ (e.type \in Keyed /\ e.turn = n) => Fresh(n)'
         /\ \A n \in Turns : <<"finished", n>> \notin seen
                               /\ ~ (e.type = "finished" /\ e.turn = n)
                             => <<"finished", n>> \notin seen'
         /\ \A n \in Turns : Open(n)' => Open(n) /\ perm'[n].st = perm[n].st
<1> DEFINE b == worker[w].buf
           c == worker'[w].buf
<1>t. b \in Seq(BufferedEvent) /\ (b # <<>> => worker[w].cont)
  BY DEF ControlTyped, TypeOK, WorkerState, Fits
<1>1. CASE worker[w].cont
  <2>1. c = Append(b, e) /\ UNCHANGED storeVars
    BY <1>1 DEF Sent
  <2>2. BufferIsSafe(Append(b, e)) /\ Append(b, e) \in Seq(BufferedEvent) /\ KeysSame
    BY <1>t, <2>1, BufferAppend DEF KeysSame, storeVars
  <2>3. BufferIsSafe(b)'
    BY <2>1, <2>2, BufferKept
  <2>4. CheckpointIsSafe(b)'
    <3>1. \A n, type : Follows(b, 0, type, n) => Follows(c, 0, type, n)
      BY <1>t, <2>1, FollowsAppend
    <3>2. \A n \in Turns : (Fresh(n) => Fresh(n)') /\ (Open(n)' => Open(n))
      BY <2>1, <2>2, FreshKept DEF Open, storeVars
    <3>3. ckpt' = ckpt
      BY <2>1 DEF storeVars
    <3>4. QED
      BY <3>1, <3>2, <3>3 DEF CheckpointIsSafe
  <2>5. QED
    BY <1>1, <2>1, <2>2, <2>3, <2>4, FreshKept DEF Open, storeVars
<1>2. CASE ~ worker[w].cont
  <2>1. b = <<>> /\ c = <<>> /\ Record(e)
    BY <1>t, <1>2 DEF Sent
  <2>2. /\ \/ <<e.type, e.turn>> \in seen /\ UNCHANGED storeVars
           \/ ckpt' = e.ckpt
        /\ \A type \in Keyed, n \in Turns : <<type, n>> \in seen' =>
             <<type, n>> \in seen \/ (e.type = type /\ e.turn = n)
        /\ \A n \in Turns : Open(n)' => Open(n) /\ perm'[n].st = perm[n].st
    BY <2>1, RecordShape
  <2>3. \A n \in Turns : Fresh(n) /\ ~ (e.type \in Keyed /\ e.turn = n) => Fresh(n)'
    BY <2>2 DEF Fresh, Keyed
  <2>4. CheckpointIsSafe(<<>>)'
    <3>1. \A n \in Turns : ~ Open(n)'
      BY <1>2, <2>2
    <3>2. CASE UNCHANGED storeVars
      <4>1. \A n \in Turns : Fresh(n) => Fresh(n)'
        BY <3>2 DEF Fresh, storeVars
      <4>2. \A n \in Turns : Resumable(ckpt) /\ n >= ckpt.turn => Fresh(n)
        BY <2>1, FollowsEmpty DEF CheckpointIsSafe
      <4>3. QED
        BY <3>1, <3>2, <4>1, <4>2 DEF CheckpointIsSafe, storeVars
    <3>3. CASE ckpt' = e.ckpt
      <4>1. ASSUME Resumable(e.ckpt), NEW n \in Turns, n >= e.ckpt.turn PROVE Fresh(n)'
        <5>1. Fresh(n)
          BY <4>1 DEF FreshFrom
        <5>2. e.type \in Keyed => e.type = "finished"
          BY <4>1 DEF Keyed
        <5>3. e.type = "finished" => e.turn \in Int /\ e.ckpt.turn \in Int /\ n \in Int
          BY StoreAssumption DEF BufferedEvent, Turns, Sendable
        <5>4. QED
          BY <2>3, <4>1, <5>1, <5>2, <5>3
      <4>2. QED
        BY <3>1, <3>3, <4>1 DEF CheckpointIsSafe
    <3>4. QED
      BY <2>2, <3>2, <3>3
  <2>5. BufferIsSafe(b)'
    BY <2>1 DEF BufferIsSafe
  <2>6. \A n \in Turns : <<"finished", n>> \notin seen
                           /\ ~ (e.type = "finished" /\ e.turn = n)
                         => <<"finished", n>> \notin seen'
    BY <2>2 DEF Keyed
  <2>7. QED
    BY <1>2, <2>1, <2>2, <2>3, <2>4, <2>5, <2>6
<1>3. QED
  BY <1>1, <1>2
-----------------------------------------------------------------------------
(* Tool calls: steps in which none moves.                                   *)

\* No effect, no event of a tool call, no new resume point and no new request.
Calm ==
  /\ UNCHANGED effects /\ KeysSame
  /\ Resumable(ckpt') => Resumable(ckpt) /\ ckpt'.turn = ckpt.turn
  /\ \A n \in Turns : Open(n)' => Open(n)

\* Nobody decides an open request.
Steady == \A n \in Turns : Open(n)' => perm'[n].st = perm[n].st

\* What a checkpoint and a buffer promise outlasts such a step.
LEMMA CalmSafe ==
  ASSUME Calm, NEW b \in Seq(BufferedEvent), CheckpointIsSafe(b)
  PROVE  CheckpointIsSafe(b)' /\ (BufferIsSafe(b) => BufferIsSafe(b)')
<1>1. CheckpointIsSafe(b)'
  BY FreshKept DEF Calm, CheckpointIsSafe
<1>2. QED
  BY <1>1, BufferKept DEF Calm

\* The store is not touched.
LEMMA UntouchedIsCalm ==
  ASSUME UNCHANGED storeVars, UNCHANGED effects
  PROVE  Calm /\ Steady
BY DEF storeVars, Calm, Steady, KeysSame, Open, Resumable

\* Who does nothing stays in order.
LEMMA CalmOrder ==
  ASSUME ControlTyped, NEW w \in Workers, Calm, Steady, InOrder(worker[w]),
         worker'[w].pc = worker[w].pc, worker'[w].turn = worker[w].turn,
         worker'[w].buf = worker[w].buf, worker'[w].job = worker[w].job,
         worker'[w].node = worker[w].node, worker'[w].cont = worker[w].cont
  PROVE  InOrder(worker[w])'
<1> DEFINE u == worker[w]
           b == u.buf
<1>t. b \in Seq(BufferedEvent) /\ u.turn \in Int
  BY StoreAssumption DEF ControlTyped, TypeOK, WorkerState
<1>1. CheckpointIsSafe(b)' /\ BufferIsSafe(b)'
  BY <1>t, CalmSafe DEF InOrder
<1>2. PlaceIsTrue(u)'
  <2>1. PlaceIsTrue(u) /\ \A k : FreshFrom(k) => FreshFrom(k)'
    BY FreshKept DEF Calm, InOrder
  <2>2. u.pc \in During \cup {"done"} => u.turn \in Turns
    BY DEF During, ControlTyped, Fits
  <2>3. u.pc \in During \cup {"done"} => <<"finished", u.turn>> \notin seen'
    BY <2>1, <2>2 DEF Calm, KeysSame, Keyed, PlaceIsTrue
  <2>4. UNCHANGED effects
    BY DEF Calm
  <2>5. QED
    BY <2>1, <2>3, <2>4 DEF PlaceIsTrue
<1>3. BarrierHolds(u)'
  BY DEF Calm, InOrder, BarrierHolds
<1>4. OpenIsCurrent(u)'
  BY DEF Calm, Steady, InOrder, OpenIsCurrent
<1>5. QED
  BY <1>1, <1>2, <1>3, <1>4 DEF InOrder

\* Steps of the loop that do nothing but move on.
LEMMA QuietOrder ==
  ASSUME ControlTyped, NEW w \in Workers, Calm, Steady, InOrder(worker[w]),
         worker'[w].turn = worker[w].turn, worker'[w].buf = worker[w].buf,
         worker'[w].cont = worker[w].cont,
         \/ worker'[w].pc = "cancelled"
         \/ worker'[w].pc = "completed" /\ worker[w].pc = "answered"
         \/ worker'[w].pc = "failed" /\ worker[w].pc \in {"calling", "answered", "done", "resolve"}
         \/ worker'[w].pc \in {"broken", "paused"} /\ ~ worker[w].cont
              /\ (worker'[w].pc = "paused" => worker[w].pc \in Before)
         \/ worker'[w].pc = "answered" /\ worker[w].pc = "calling"
         \/ worker'[w].pc = "required" /\ worker[w].pc = "started"
         \/ worker'[w].pc = "approved" /\ worker[w].pc = "resolve"
              /\ perm[worker[w].turn].st = "APPROVED"
         \/ worker'[w].pc \in {"model", "answered", "tool"} /\ ~ worker[w].cont
              /\ worker[w].pc = "resuming" /\ worker[w].node \in ResumableNodes
  PROVE  CheckpointIsSafe(worker[w].buf)' /\ (Active(worker[w])' => InOrder(worker[w])')
<1> DEFINE u == worker[w]
           s == worker'[w]
           b == u.buf
<1>t. b \in Seq(BufferedEvent) /\ u.turn \in Int /\ (b # <<>> => u.cont)
  BY StoreAssumption DEF ControlTyped, TypeOK, WorkerState, Fits
<1>1. CheckpointIsSafe(b)' /\ BufferIsSafe(b)'
  BY <1>t, CalmSafe DEF InOrder
<1>2. PlaceIsTrue(u)'
  <2>1. \/ s.pc \in {"cancelled", "completed", "failed", "broken"}
        \/ s.pc \in Before /\ u.pc \in Before
        \/ s.pc \in {"required", "approved"} /\ u.pc \in During
        \/ s.pc \in Before /\ u.pc = "resuming" /\ u.node \in ResumableNodes /\ b = <<>>
    BY <1>t DEF Before, During
  <2>2. s.pc \in Before => FreshFrom(u.turn)
          /\ \A i \in DOMAIN b : b[i].type \in Keyed => b[i].turn < u.turn
    BY <2>1 DEF InOrder, PlaceIsTrue, Before, During
  <2>3. s.pc \in During => effects[u.turn] = 0 /\ FreshFrom(u.turn + 1)
          /\ <<"finished", u.turn>> \notin seen
          /\ \A i \in DOMAIN b : /\ b[i].type = "toolStarted" => b[i].turn <= u.turn
                                 /\ b[i].type = "finished" => b[i].turn < u.turn
    BY <2>1 DEF InOrder, PlaceIsTrue, Before, During
  <2>4. s.pc \in {"cancelled", "completed", "failed", "broken"} \cup Before \cup During
    BY <2>1 DEF Before, During
  <2>5. s.pc \in During => u.turn \in Turns
    BY <2>1 DEF During, Before, ControlTyped, Fits
  <2>6. s.pc \in During => <<"finished", u.turn>> \notin seen'
    BY <2>3, <2>5 DEF Calm, KeysSame, Keyed
  <2>7. \A k : FreshFrom(k) => FreshFrom(k)'
    BY FreshKept DEF Calm
  <2>8. QED
    BY <2>2, <2>3, <2>4, <2>6, <2>7 DEF PlaceIsTrue, Calm, Before, During
<1>3. BarrierHolds(u)'
  BY DEF Calm, InOrder, BarrierHolds
<1>4. ASSUME Active(s) PROVE OpenIsCurrent(u)'
  <2>1. s.pc = "cancelled" => b # <<>>
    BY <1>4 DEF Active, Polled
  <2> SUFFICES ASSUME NEW n \in Turns, Open(n)'
               PROVE  \/ Follows(b, 0, "finished", n) /\ perm'[n].st = "APPROVED"
                      \/ /\ u.cont /\ b = <<>> /\ u.turn = n
                         /\ \/ s.pc \in {"resolve", "failed"}
                            \/ s.pc \in {"approved", "done"} /\ perm'[n].st = "APPROVED"
    BY DEF OpenIsCurrent
  <2>2. Open(n) /\ perm'[n].st = perm[n].st
    BY DEF Calm, Steady
  <2>3. CASE Follows(b, 0, "finished", n) /\ perm[n].st = "APPROVED"
    BY <2>2, <2>3
  <2>4. CASE /\ u.cont /\ b = <<>> /\ u.turn = n
             /\ \/ u.pc \in {"resolve", "failed"}
                \/ u.pc \in {"approved", "done"} /\ perm[n].st = "APPROVED"
    BY <2>1, <2>2, <2>4 DEF Before
  <2>5. QED
    BY <2>2, <2>3, <2>4 DEF InOrder, OpenIsCurrent
<1>5. QED
  BY <1>1, <1>2, <1>3, <1>4 DEF InOrder
\* Steps of the loop with an event of no tool call.
LEMMA ModelOrder ==
  ASSUME ControlTyped, NEW w \in Workers, InOrder(worker[w]),
         StartRun(w) \/ CallModel(w) \/ ChooseTool(w)
  PROVE  UNCHANGED effects /\ InOrder(worker[w])'
<1> DEFINE u == worker[w]
           s == worker'[w]
           b == u.buf
<1>t. /\ u \in WorkerState /\ Fits(u) /\ b \in Seq(BufferedEvent) /\ u.turn \in Int
      /\ (b # <<>> => u.cont)
  BY StoreAssumption DEF ControlTyped, TypeOK, WorkerState, Fits
<1>1. PICK e \in BufferedEvent, pc \in PCs, n \in Int :
        /\ \/ Emit(w, e, [u EXCEPT !.pc = pc]) /\ n = u.turn
           \/ Emit(w, e, [u EXCEPT !.pc = pc, !.turn = n])
        /\ e.type \notin Keyed /\ e.ckpt.turn = n
        /\ \/ u.pc = "begin" /\ u.job \in StartJobs /\ pc = "model" /\ n = 1
           \/ u.pc = "model" /\ pc = "calling" /\ n = u.turn
           \/ u.pc = "answered" /\ pc = "tool" /\ n = u.turn
  <2> USE StoreAssumption
  <2>e. /\ Event("started", 0, Ckpt("call_model", 1, 0)) \in BufferedEvent
        /\ u.pc = "model" =>
             Event("modelStarted", u.turn, Held(w, "call_model")) \in BufferedEvent
        /\ u.pc = "answered" /\ u.turn \in Turns =>
             Event("answered", u.turn, Held(w, "execute_tool")) \in BufferedEvent
    BY <1>t DEF Fits, Event, Held, Ckpt, BufferedEvent, Sendable, Turns, ResumableNodes, WorkerState
  <2>1. CASE StartRun(w)
    <3> DEFINE e == Event("started", 0, Ckpt("call_model", 1, 0))
    <3>1. e \in BufferedEvent /\ e.type \notin Keyed /\ e.ckpt.turn = 1
      BY <2>e DEF Event, Ckpt, Keyed
    <3>2. /\ Emit(w, e, [u EXCEPT !.pc = "model", !.turn = 1])
          /\ u.pc = "begin" /\ u.job \in StartJobs
      BY <2>1 DEF StartRun, At
    <3>3. "model" \in PCs /\ 1 \in Int
      BY DEF PCs, Polled
    <3> HIDE DEF e
    <3>4. QED
      BY <3>1, <3>2, <3>3
  <2>2. CASE CallModel(w)
    BY <2>2, <1>t, <2>e DEF CallModel, At, Event, Held, Ckpt, Keyed, PCs, Polled
  <2>3. CASE ChooseTool(w)
    BY <2>3, <1>t, <2>e DEF ChooseTool, At, Event, Held, Ckpt, Keyed, PCs, Polled
  <2>4. QED
    BY <2>1, <2>2, <2>3
<1>2. s.pc = pc /\ s.turn = n /\ Kept(u, s) /\ Sent(w, e)
  <2>1. CASE Emit(w, e, [u EXCEPT !.pc = pc]) /\ n = u.turn
    BY <2>1, EmitWithinTurn
  <2>2. CASE Emit(w, e, [u EXCEPT !.pc = pc, !.turn = n])
    BY <2>2, EmitToTurn
  <2>3. QED
    BY <1>1, <2>1, <2>2
<1>3. UNCHANGED effects
  BY DEF StartRun, CallModel, ChooseTool
<1>4. /\ FreshFrom(n) /\ n \in Int
      /\ \A i \in DOMAIN b : b[i].type \in Keyed => b[i].turn < n
      /\ u.cont => u.pc \in {"model", "answered"}
  <2>1. CASE u.pc = "begin"
    BY <1>1, <1>t, <2>1 DEF InOrder, PlaceIsTrue, Fits, ContPCs
  <2>2. CASE u.pc \in {"model", "answered"}
    BY <1>1, <1>t, <2>2 DEF InOrder, PlaceIsTrue, Before
  <2>3. QED
    BY <1>1, <2>1, <2>2
<1>o. ~ u.cont => \A k \in Turns : ~ Open(k)
  BY <1>t, FollowsEmpty DEF InOrder, OpenIsCurrent
<1>b. \A i \in DOMAIN b : /\ b[i].type \in Keyed => b[i].turn \in Turns
                          /\ b[i].turn \in Int
  BY <1>t, BufferedType
<1>5. /\ CheckpointIsSafe(worker[w].buf)' /\ BufferIsSafe(worker[w].buf)'
      /\ \/ u.cont /\ s.buf = Append(b, e) /\ UNCHANGED storeVars
         \/ ~ u.cont /\ b = <<>> /\ s.buf = <<>>
      /\ \A k \in Turns : Fresh(k) => Fresh(k)'
      /\ \A k \in Turns : Open(k)' => Open(k) /\ perm'[k].st = perm[k].st
  <2>1. \A i \in DOMAIN b : b[i].type \in Keyed =>
           /\ e.ckpt.turn > b[i].turn
           /\ e.type = b[i].type => e.turn > b[i].turn
    BY <1>1, <1>4, <1>b
  <2>2. Resumable(e.ckpt) => FreshFrom(e.ckpt.turn)
    BY <1>1, <1>4
  <2>3. CheckpointIsSafe(b) /\ BufferIsSafe(b)
    BY DEF InOrder
  <2>4. e.type # "toolStarted" /\ e.type # "finished"
    BY <1>1 DEF Keyed
  <2>5. QED
    BY <1>1, <1>2, <1>3, <1>o, <2>1, <2>2, <2>3, <2>4, EmitOrder
<1>6. PlaceIsTrue(worker[w])'
  <2>1. FreshFrom(n)'
    BY <1>4, <1>5 DEF FreshFrom
  <2>2. \A i \in DOMAIN s.buf : s.buf[i].type \in Keyed => s.buf[i].turn < n
    <3>1. CASE s.buf = Append(b, e)
      <4>1. /\ Len(b) \in Nat /\ DOMAIN b = 1 .. Len(b) /\ DOMAIN s.buf = 1 .. Len(b) + 1
            /\ \A i \in 1 .. Len(b) : s.buf[i] = b[i]
            /\ s.buf[Len(b) + 1] = e
        BY <1>t, <3>1
      <4>2. ASSUME NEW i \in DOMAIN s.buf, s.buf[i].type \in Keyed
            PROVE  i \in DOMAIN b /\ s.buf[i] = b[i]
        <5>1. i # Len(b) + 1
          BY <1>1, <4>1, <4>2
        <5>2. i \in 1 .. Len(b)
          BY <4>1, <4>2, <5>1
        <5>3. QED
          BY <4>1, <5>2
      <4>3. QED
        BY <4>2, <1>4
    <3>2. QED
      BY <1>5, <1>4, <3>1
  <2>3. s.pc \in {"model", "calling", "tool"}
    BY <1>1, <1>2
  <2>4. QED
    BY <1>2, <2>1, <2>2, <2>3 DEF PlaceIsTrue, Before, During
<1>7. BarrierHolds(worker[w])'
  BY <1>1, <1>2, <1>4, <1>5 DEF Kept, InOrder, BarrierHolds, storeVars
<1>8. OpenIsCurrent(worker[w])'
  <2>1. ASSUME NEW k \in Turns, Open(k)'
        PROVE  Follows(s.buf, 0, "finished", k) /\ perm'[k].st = "APPROVED"
    <3>1. u.cont /\ s.buf = Append(b, e) /\ Open(k) /\ perm'[k].st = perm[k].st
      BY <2>1, <1>5, <1>o
    <3>2. Follows(b, 0, "finished", k) /\ perm[k].st = "APPROVED"
      BY <3>1, <1>1 DEF InOrder, OpenIsCurrent
    <3>3. QED
      BY <3>1, <3>2, <1>t, FollowsAppend
  <2>2. QED
    BY <2>1 DEF OpenIsCurrent
<1>9. QED
  BY <1>3, <1>5, <1>6, <1>7, <1>8 DEF InOrder
\* The keyed events of a buffer with one event more.
LEMMA KeyedAppend ==
  ASSUME NEW b \in Seq(BufferedEvent), NEW e \in BufferedEvent,
         NEW i \in DOMAIN Append(b, e)
  PROVE  Append(b, e)[i] = e \/ (i \in DOMAIN b /\ Append(b, e)[i] = b[i])
<1>1. /\ Len(b) \in Nat /\ DOMAIN b = 1 .. Len(b)
      /\ DOMAIN Append(b, e) = 1 .. Len(b) + 1
      /\ \A j \in 1 .. Len(b) : Append(b, e)[j] = b[j]
      /\ Append(b, e)[Len(b) + 1] = e
  OBVIOUS
<1>2. QED
  BY <1>1

\* The barrier of a tool call.
LEMMA BarrierOrder ==
  ASSUME ControlTyped, NEW w \in Workers, InOrder(worker[w]), StartTool(w)
  PROVE  UNCHANGED effects /\ InOrder(worker[w])'
<1> DEFINE u == worker[w]
           s == worker'[w]
           b == u.buf
           n == u.turn
           e == Event("toolStarted", n, Held(w, "tool_in_flight"))
<1>t. /\ u \in WorkerState /\ Fits(u) /\ b \in Seq(BufferedEvent) /\ u.pc = "tool"
      /\ n \in Turns /\ n \in Int /\ (b # <<>> => u.cont)
  BY StoreAssumption
  DEF ControlTyped, TypeOK, WorkerState, Fits, StartTool, At, Turns
<1>e. /\ e \in BufferedEvent /\ e.type = "toolStarted" /\ e.turn = n /\ e.ckpt.turn = n
      /\ ~ Resumable(e.ckpt)
  BY <1>t, StoreAssumption
  DEF Event, Held, Ckpt, BufferedEvent, Sendable, Turns, ResumableNodes, Resumable, WorkerState
<1>2. s.pc = "started" /\ s.turn = n /\ Kept(u, s) /\ Sent(w, e)
  BY EmitWithinTurn DEF StartTool
<1> HIDE DEF e
<1>3. UNCHANGED effects
  BY DEF StartTool
<1>4. /\ FreshFrom(n)
      /\ \A i \in DOMAIN b : b[i].type \in Keyed => b[i].turn < n
  BY <1>t DEF InOrder, PlaceIsTrue, Before
<1>f. effects[n] = 0 /\ <<"toolStarted", n>> \notin seen /\ <<"finished", n>> \notin seen
  BY <1>4, <1>t DEF FreshFrom, Fresh
<1>o. ~ u.cont => \A k \in Turns : ~ Open(k)
  BY <1>t, FollowsEmpty DEF InOrder, OpenIsCurrent
<1>b. \A i \in DOMAIN b : b[i].turn \in Int
  BY <1>t, BufferedType
<1>5. /\ CheckpointIsSafe(worker[w].buf)' /\ BufferIsSafe(worker[w].buf)'
      /\ \/ u.cont /\ s.buf = Append(b, e) /\ UNCHANGED storeVars
         \/ ~ u.cont /\ b = <<>> /\ s.buf = <<>>
      /\ ~ u.cont => ckpt' = e.ckpt
      /\ \A k \in Turns : Fresh(k) /\ k # n => Fresh(k)'
      /\ <<"finished", n>> \notin seen'
      /\ \A k \in Turns : Open(k)' => Open(k) /\ perm'[k].st = perm[k].st
  <2>1. \A i \in DOMAIN b : b[i].type \in Keyed =>
           /\ e.ckpt.turn > b[i].turn
           /\ e.type = b[i].type => e.turn > b[i].turn
    BY <1>e, <1>4, <1>b, <1>t
  <2>2. CheckpointIsSafe(b) /\ BufferIsSafe(b)
    BY DEF InOrder
  <2>3. e.type \in Keyed /\ <<e.type, e.turn>> \notin seen
    BY <1>e, <1>f DEF Keyed
  <2>4. QED
    BY <1>e, <1>t, <1>f, <1>2, <1>3, <1>o, <2>1, <2>2, <2>3, EmitOrder
<1>6. PlaceIsTrue(worker[w])'
  <2>1. \A k \in Turns : k >= n + 1 => Fresh(k)'
    BY <1>4, <1>5, <1>t DEF FreshFrom, Turns
  <2>2. \A i \in DOMAIN s.buf : /\ s.buf[i].type = "toolStarted" => s.buf[i].turn <= n
                                /\ s.buf[i].type = "finished" => s.buf[i].turn < n
    <3>1. CASE s.buf = Append(b, e)
      <4>1. ASSUME NEW i \in DOMAIN s.buf
            PROVE  s.buf[i] = e \/ (i \in DOMAIN b /\ s.buf[i] = b[i])
        BY <3>1, <1>t, <1>e, KeyedAppend
      <4>2. QED
        BY <4>1, <1>4, <1>b, <1>e, <1>t DEF Keyed
    <3>2. QED
      BY <1>5, <3>1
  <2>3. effects'[n] = 0
    BY <1>3, <1>f
  <2>4. QED
    BY <1>2, <1>5, <2>1, <2>2, <2>3 DEF PlaceIsTrue, Before, During, FreshFrom
<1>7. BarrierHolds(worker[w])'
  <2>1. ~ Resumable(ckpt')
    BY <1>5, <1>e, <1>t DEF InOrder, BarrierHolds, storeVars, Resumable
  <2>2. s.buf # <<>> => s.buf[Len(s.buf)].type = "toolStarted" /\ s.buf[Len(s.buf)].turn = n
    <3>1. CASE s.buf = Append(b, e)
      <4>1. s.buf[Len(s.buf)] = e
        BY <3>1, <1>t, <1>e
      <4>2. QED
        BY <4>1, <1>e
    <3>2. QED
      BY <1>5, <3>1
  <2>3. QED
    BY <1>2, <2>1, <2>2 DEF BarrierHolds, Resumable
<1>8. OpenIsCurrent(worker[w])'
  <2>1. ASSUME NEW k \in Turns, Open(k)'
        PROVE  Follows(s.buf, 0, "finished", k) /\ perm'[k].st = "APPROVED"
    <3>1. u.cont /\ s.buf = Append(b, e) /\ Open(k) /\ perm'[k].st = perm[k].st
      BY <2>1, <1>5, <1>o
    <3>2. Follows(b, 0, "finished", k) /\ perm[k].st = "APPROVED"
      BY <3>1, <1>t DEF InOrder, OpenIsCurrent
    <3>3. QED
      BY <3>1, <3>2, <1>t, FollowsAppend
  <2>2. QED
    BY <2>1 DEF OpenIsCurrent
<1>9. QED
  BY <1>3, <1>5, <1>6, <1>7, <1>8 DEF InOrder

\* The result of a tool call.
LEMMA ResultOrder ==
  ASSUME ControlTyped, NEW w \in Workers, InOrder(worker[w]), ObserveResult(w)
  PROVE  UNCHANGED effects /\ InOrder(worker[w])'
<1> DEFINE u == worker[w]
           s == worker'[w]
           b == u.buf
           n == u.turn
           next == [u EXCEPT !.pc = "model", !.turn = @ + 1]
           e == Event("finished", n, Ckpt("call_model", next.turn, next.attempts))
<1>t. /\ u \in WorkerState /\ Fits(u) /\ b \in Seq(BufferedEvent) /\ u.pc = "done"
      /\ n \in Turns /\ n \in Int /\ (b # <<>> => u.cont)
  BY StoreAssumption
  DEF ControlTyped, TypeOK, WorkerState, Fits, ObserveResult, At, Turns
<1>n. next.turn = n + 1 /\ next.attempts = u.attempts
  BY <1>t DEF WorkerState
<1>e. /\ e \in BufferedEvent /\ e.type = "finished" /\ e.turn = n /\ e.ckpt.turn = n + 1
  <2>1. n + 1 \in 1 .. MaxTurns + 1 /\ n \in 0 .. MaxTurns /\ u.attempts \in 0 .. MaxRecovery
    BY <1>t, StoreAssumption DEF Turns, WorkerState
  <2> DEFINE c == Ckpt("call_model", n + 1, u.attempts)
  <2>2. c \in Sendable /\ c.turn = n + 1
    BY <2>1 DEF Ckpt, Sendable, ResumableNodes
  <2>3. e = [type |-> "finished", turn |-> n, ckpt |-> c]
    BY <1>n DEF Event
  <2> HIDE DEF e, next, c
  <2>4. QED
    BY <1>t, <2>1, <2>2, <2>3, StoreAssumption DEF BufferedEvent
<1>2. s.pc = "model" /\ s.turn = n + 1 /\ Kept(u, s) /\ Sent(w, e)
  <2>1. Emit(w, e, next)
    BY DEF ObserveResult
  <2>2. next = [worker[w] EXCEPT !.pc = "model", !.turn = n + 1]
    BY <1>t DEF WorkerState
  <2> DEFINE k == n + 1
  <2>3. \/ next = [worker[w] EXCEPT !.pc = "model"] /\ k = worker[w].turn
        \/ next = [worker[w] EXCEPT !.pc = "model", !.turn = k]
    BY <2>2
  <2> HIDE DEF next, e, k
  <2>4. /\ worker'[w].pc = "model" /\ worker'[w].turn = k
        /\ Kept(worker[w], worker'[w]) /\ Sent(w, e)
    BY <2>1, <2>3, EmitKeeps, Zenon
  <2>5. QED
    BY <2>4 DEF k
<1> HIDE DEF e, next
<1>3. UNCHANGED effects
  BY DEF ObserveResult
<1>4. /\ FreshFrom(n + 1) /\ <<"finished", n>> \notin seen
      /\ \A i \in DOMAIN b : /\ b[i].type = "toolStarted" => b[i].turn <= n
                             /\ b[i].type = "finished" => b[i].turn < n
  BY <1>t DEF InOrder, PlaceIsTrue
<1>o. ~ u.cont => \A k \in Turns : ~ Open(k)
  BY <1>t, FollowsEmpty DEF InOrder, OpenIsCurrent
<1>b. \A i \in DOMAIN b : b[i].turn \in Int
  BY <1>t, BufferedType
<1>5. /\ CheckpointIsSafe(worker[w].buf)' /\ BufferIsSafe(worker[w].buf)'
      /\ \/ u.cont /\ s.buf = Append(b, e) /\ UNCHANGED storeVars
         \/ ~ u.cont /\ b = <<>> /\ s.buf = <<>>
      /\ \A k \in Turns : Fresh(k) /\ k # n => Fresh(k)'
      /\ \A k \in Turns : Open(k)' => Open(k) /\ perm'[k].st = perm[k].st
  <2>1. \A i \in DOMAIN b : b[i].type \in Keyed =>
           /\ e.ckpt.turn > b[i].turn
           /\ e.type = b[i].type => e.turn > b[i].turn
    BY <1>e, <1>4, <1>b, <1>t DEF Keyed
  <2>2. CheckpointIsSafe(b) /\ BufferIsSafe(b)
    BY DEF InOrder
  <2>3. e.type \in Keyed /\ <<e.type, e.turn>> \notin seen
    BY <1>e, <1>4 DEF Keyed
  <2>4. FreshFrom(e.ckpt.turn) /\ e.ckpt.turn > e.turn /\ e.type # "toolStarted"
    BY <1>e, <1>4, <1>t
  <2>5. QED
    BY <1>e, <1>2, <1>3, <1>o, <2>1, <2>2, <2>3, <2>4, EmitOrder
<1>6. PlaceIsTrue(worker[w])'
  <2>1. \A k \in Turns : k >= n + 1 => Fresh(k)'
    BY <1>4, <1>5, <1>t DEF FreshFrom, Turns
  <2>2. \A i \in DOMAIN s.buf : s.buf[i].type \in Keyed => s.buf[i].turn < n + 1
    <3>1. CASE s.buf = Append(b, e)
      <4>1. ASSUME NEW i \in DOMAIN s.buf
            PROVE  s.buf[i] = e \/ (i \in DOMAIN b /\ s.buf[i] = b[i])
        BY <3>1, <1>t, <1>e, KeyedAppend
      <4>2. QED
        BY <4>1, <1>4, <1>b, <1>e, <1>t DEF Keyed
    <3>2. QED
      BY <1>5, <3>1
  <2>3. QED
    BY <1>2, <2>1, <2>2 DEF PlaceIsTrue, Before, During, FreshFrom
<1>7. BarrierHolds(worker[w])'
  <2>1. s.cont => ~ Resumable(ckpt')
    BY <1>2, <1>5, <1>t DEF InOrder, BarrierHolds, storeVars, Kept, Resumable
  <2>2. QED
    BY <1>2, <2>1 DEF BarrierHolds, Resumable
<1>8. OpenIsCurrent(worker[w])'
  <2>1. ASSUME NEW k \in Turns, Open(k)'
        PROVE  Follows(s.buf, 0, "finished", k) /\ perm'[k].st = "APPROVED"
    <3>1. u.cont /\ s.buf = Append(b, e) /\ Open(k) /\ perm'[k].st = perm[k].st
      BY <2>1, <1>5, <1>o
    <3>2. CASE Follows(b, 0, "finished", k) /\ perm[k].st = "APPROVED"
      BY <3>1, <3>2, <1>t, FollowsAppend
    <3>3. CASE n = k /\ perm[k].st = "APPROVED"
      <4>1. 0 \in 0 .. Len(b)
        BY <1>t
      <4>2. Follows(Append(b, e), 0, "finished", k)
        BY <1>t, <1>e, <3>3, <4>1, FollowsAppend
      <4>3. QED
        BY <3>1, <3>3, <4>2
    <3>4. QED
      BY <3>1, <3>2, <3>3, <1>t DEF InOrder, OpenIsCurrent
  <2>2. QED
    BY <2>1 DEF OpenIsCurrent
<1>9. QED
  BY <1>3, <1>5, <1>6, <1>7, <1>8 DEF InOrder
\* The effect itself: the barrier is behind the worker, stored or in its buffer.
LEMMA EffectOrder ==
  ASSUME ControlTyped, NEW w \in Workers, InOrder(worker[w]), RunTool(w)
  PROVE  /\ effects[worker[w].turn] = 0
         /\ effects' = [effects EXCEPT ![worker[w].turn] = 1]
         /\ InOrder(worker[w])'
<1> DEFINE u == worker[w]
           s == worker'[w]
           b == u.buf
           n == u.turn
<1>t. /\ b \in Seq(BufferedEvent) /\ u.pc \in {"started", "approved"}
      /\ n \in Turns /\ n \in Int /\ effects \in [Turns -> 0 .. 2]
      /\ u.pc = "approved" => b = <<>>
  BY DEF ControlTyped, TypeOK, WorkerState, Fits, RunTool, At, Turns
<1>1. /\ s.pc = "done" /\ s.turn = n /\ s.buf = b /\ s.cont = u.cont
      /\ UNCHANGED storeVars
  BY GotoKeeps DEF RunTool, Kept
<1>2. effects[n] = 0
  BY <1>t DEF InOrder, PlaceIsTrue, During
<1>3. effects' = [effects EXCEPT ![n] = 1]
  BY <1>t, <1>2 DEF RunTool
<1>4. ~ Resumable(ckpt) /\ ckpt' = ckpt
  BY <1>t, <1>1 DEF InOrder, BarrierHolds, storeVars
<1>5. \A k \in Turns : k # n => (Fresh(k) => Fresh(k)')
  BY <1>t, <1>1, <1>3 DEF Fresh, storeVars
<1>6. ASSUME NEW i \in DOMAIN b, Resumable(b[i].ckpt)
      PROVE  Follows(b, i, "toolStarted", n)
  <2>1. u.pc = "started" /\ b # <<>>
    BY <1>6, <1>t
  <2>2. b[Len(b)].type = "toolStarted" /\ b[Len(b)].turn = n
    BY <2>1 DEF InOrder, BarrierHolds
  <2>3. Len(b) \in DOMAIN b /\ i \in 1 .. Len(b)
    BY <1>t, <1>6, <2>1
  <2>4. i # Len(b)
    BY <1>6, <2>2, <2>3 DEF InOrder, BufferIsSafe
  <2>5. QED
    BY <2>2, <2>3, <2>4 DEF Follows
<1>7. BufferIsSafe(worker[w].buf)'
  <2> SUFFICES ASSUME NEW i \in DOMAIN b
               PROVE /\ Resumable(b[i].ckpt) => \A k \in Turns : k >= b[i].ckpt.turn =>
                          Fresh(k)' \/ Follows(b, i, "toolStarted", k)
                     /\ b[i].type = "toolStarted" => ~ Resumable(b[i].ckpt)
                     /\ b[i].type = "finished" => b[i].ckpt.turn > b[i].turn
                     /\ b[i].type \in Keyed =>
                          /\ <<b[i].type, b[i].turn>> \notin seen'
                          /\ \A j \in DOMAIN b : j > i =>
                               /\ b[j].ckpt.turn > b[i].turn
                               /\ b[j].type = b[i].type => b[j].turn > b[i].turn
    BY <1>1 DEF BufferIsSafe
  <2>1. BufferIsSafe(b) /\ seen' = seen
    BY <1>1 DEF InOrder, storeVars
  <2>2. QED
    BY <1>5, <1>6, <2>1 DEF BufferIsSafe
<1>8. CheckpointIsSafe(worker[w].buf)'
  BY <1>4 DEF CheckpointIsSafe, Resumable
<1>9. PlaceIsTrue(worker[w])'
  <2>1. \A k \in Turns : k >= n + 1 => Fresh(k)'
    BY <1>t, <1>5 DEF InOrder, PlaceIsTrue, During, FreshFrom
  <2>2. /\ <<"finished", n>> \notin seen'
        /\ \A i \in DOMAIN b :
            /\ b[i].type = "toolStarted" => b[i].turn <= n
            /\ b[i].type = "finished" => b[i].turn < n
    BY <1>t, <1>1 DEF InOrder, PlaceIsTrue, During, storeVars
  <2>3. QED
    BY <1>1, <2>1, <2>2 DEF PlaceIsTrue, Before, During, FreshFrom
<1>10. BarrierHolds(worker[w])'
  BY <1>1, <1>4 DEF BarrierHolds, Resumable
<1>11. OpenIsCurrent(worker[w])'
  <2>1. OpenIsCurrent(u) /\ perm' = perm
    BY <1>1 DEF InOrder, storeVars
  <2>2. QED
    BY <1>1, <1>t, <2>1 DEF OpenIsCurrent, Open
<1>12. QED
  BY <1>2, <1>3, <1>7, <1>8, <1>9, <1>10, <1>11 DEF InOrder

\* A continuation publishes the next event.
LEMMA FlushOrder ==
  ASSUME ControlTyped, NEW w \in Workers, InOrder(worker[w]), Flush(w)
  PROVE  UNCHANGED effects /\ InOrder(worker[w])'
<1> DEFINE u == worker[w]
           s == worker'[w]
           b == u.buf
           n == u.turn
           e == Head(b)
           c == Tail(b)
<1>t. /\ u \in WorkerState /\ b \in Seq(BufferedEvent) /\ b # <<>> /\ n \in Int
      /\ u.pc \in {"required", "completed", "failed", "cancelled"}
      /\ u.pc = "required" => n \in Turns
  BY StoreAssumption DEF ControlTyped, TypeOK, WorkerState, Fits, Flush, Flushing
<1>s. /\ s.pc = u.pc /\ s.turn = n /\ s.buf = c /\ s.cont = u.cont
  <2>1. s = [u EXCEPT !.buf = Tail(@)]
    BY DEF Flush, Become, ControlTyped, TypeOK
  <2>2. QED
    BY <2>1, <1>t DEF WorkerState
<1>b. /\ Len(b) \in Nat \ {0} /\ DOMAIN b = 1 .. Len(b) /\ e = b[1] /\ e \in BufferedEvent
      /\ c \in Seq(BufferedEvent) /\ DOMAIN c = 1 .. Len(b) - 1 /\ Len(c) = Len(b) - 1
      /\ \A i \in 1 .. Len(b) - 1 : c[i] = b[i + 1]
  BY <1>t
<1>h. /\ Resumable(e.ckpt) => \A k \in Turns : k >= e.ckpt.turn =>
           Fresh(k) \/ Follows(b, 1, "toolStarted", k)
      /\ e.type = "toolStarted" => ~ Resumable(e.ckpt)
      /\ e.type = "finished" => e.ckpt.turn > e.turn
      /\ e.type \in Keyed => <<e.type, e.turn>> \notin seen
  <2>1. BufferIsSafe(b) /\ 1 \in DOMAIN b /\ e = b[1]
    BY <1>b DEF InOrder
  <2> HIDE DEF e
  <2>2. QED
    BY <2>1 DEF BufferIsSafe
<1>k. /\ e.type \in Keyed => e.turn \in Turns
      /\ e.turn \in Int /\ e.ckpt.turn \in Int
  <2>1. 1 \in DOMAIN b /\ e = b[1]
    BY <1>b
  <2> HIDE DEF e
  <2>2. QED
    BY <1>t, <2>1, BufferedType
<1>1. UNCHANGED effects
  BY DEF Flush
<1>2. Record(e)
  BY DEF Flush
<1>c. /\ \A i \in Nat : \A k : Follows(b, i + 1, "toolStarted", k) => Follows(c, i, "toolStarted", k)
      /\ \A k : Follows(b, 0, "toolStarted", k) =>
           Follows(c, 0, "toolStarted", k) \/ (e.type = "toolStarted" /\ e.turn = k)
      /\ \A k : Follows(b, 0, "finished", k) =>
           Follows(c, 0, "finished", k) \/ (e.type = "finished" /\ e.turn = k)
  BY <1>t, FollowsTail
<1> HIDE DEF e, c
<1>3. /\ \/ <<e.type, e.turn>> \in seen /\ UNCHANGED storeVars
         \/ ckpt' = e.ckpt
      /\ \A type \in Keyed, k \in Turns : <<type, k>> \in seen' =>
           <<type, k>> \in seen \/ (e.type = type /\ e.turn = k)
      /\ \A k \in Turns : Open(k)' => Open(k) /\ perm'[k].st = perm[k].st
      /\ e.type = "finished" /\ <<e.type, e.turn>> \notin seen =>
           perm'[e.turn].st # "APPROVED"
  BY <1>2, <1>b, RecordShape
<1>4. BufferIsSafe(worker[w].buf)'
  <2>1. BufferIsSafe(b) /\ s.buf = Tail(b)
    BY <1>s DEF InOrder, c
  <2>2. \A type \in Keyed, k \in Turns : <<type, k>> \in seen' =>
          <<type, k>> \in seen \/ (Head(b).type = type /\ Head(b).turn = k)
    BY <1>3 DEF e
  <2>3. QED
    BY <1>1, <1>t, <2>1, <2>2, BufferTail
<1>5. \A k \in Turns : Open(k)' => Follows(c, 0, "finished", k) /\ perm'[k].st = "APPROVED"
  <2> SUFFICES ASSUME NEW k \in Turns, Open(k)'
               PROVE  Follows(c, 0, "finished", k) /\ perm'[k].st = "APPROVED"
    OBVIOUS
  <2>1. Open(k) /\ perm'[k].st = perm[k].st
    BY <1>3
  <2>2. Follows(b, 0, "finished", k) /\ perm[k].st = "APPROVED"
    BY <2>1, <1>t DEF InOrder, OpenIsCurrent
  <2>3. ~ (e.type = "finished" /\ e.turn = k)
    BY <1>3, <1>h, <2>1, <2>2 DEF Keyed
  <2>4. QED
    BY <1>c, <2>1, <2>2, <2>3
<1>6. \A k \in Turns : Fresh(k) /\ ~ (e.type \in Keyed /\ e.turn = k) => Fresh(k)'
  BY <1>1, <1>3 DEF Fresh, Keyed
<1>7. CheckpointIsSafe(worker[w].buf)'
  <2>1. ASSUME Resumable(ckpt'), NEW k \in Turns, k >= ckpt'.turn
        PROVE  Fresh(k)' \/ Follows(c, 0, "toolStarted", k)
    <3>1. CASE <<e.type, e.turn>> \in seen /\ UNCHANGED storeVars
      <4>1. Fresh(k) \/ Follows(b, 0, "toolStarted", k)
        BY <2>1, <3>1 DEF InOrder, CheckpointIsSafe, storeVars
      <4>2. e.type \notin Keyed
        BY <1>h, <3>1
      <4>3. QED
        BY <1>c, <1>6, <4>1, <4>2 DEF Keyed
    <3>2. CASE ckpt' = e.ckpt
      <4>1. Fresh(k) \/ Follows(b, 1, "toolStarted", k)
        BY <2>1, <3>2, <1>h
      <4>2. Follows(b, 0 + 1, "toolStarted", k) => Follows(c, 0, "toolStarted", k)
        BY <1>c
      <4>3. ~ (e.type \in Keyed /\ e.turn = k)
        <5>1. e.type # "toolStarted"
          BY <2>1, <3>2, <1>h DEF Resumable
        <5>2. e.type = "finished" => e.ckpt.turn > e.turn
          BY <1>h
        <5>3. k \in Int
          BY DEF Turns
        <5>4. QED
          BY <1>k, <2>1, <3>2, <5>1, <5>2, <5>3 DEF Keyed
      <4>4. QED
        BY <1>6, <4>1, <4>2, <4>3
    <3>3. QED
      BY <1>3, <3>1, <3>2
  <2>2. QED
    BY <1>5, <1>s, <2>1 DEF CheckpointIsSafe, Resumable
<1>8. PlaceIsTrue(worker[w])'
  <2>1. CASE u.pc = "required"
    <3>1. /\ effects[n] = 0 /\ FreshFrom(n + 1) /\ <<"finished", n>> \notin seen
          /\ \A i \in DOMAIN b : /\ b[i].type = "toolStarted" => b[i].turn <= n
                                 /\ b[i].type = "finished" => b[i].turn < n
      BY <2>1 DEF InOrder, PlaceIsTrue, During
    <3>2. /\ e.type = "toolStarted" => e.turn <= n
          /\ e.type = "finished" => e.turn < n
      BY <3>1, <1>b
    <3>3. \A k \in Turns : k >= n + 1 => Fresh(k)'
      <4>1. ASSUME NEW k \in Turns, k >= n + 1, e.type \in Keyed PROVE e.turn # k
        BY <4>1, <3>2, <1>k, <1>t DEF Keyed, Turns
      <4>2. QED
        BY <4>1, <3>1, <1>6 DEF FreshFrom
    <3>4. <<"finished", n>> \notin seen'
      BY <3>1, <3>2, <1>3, <1>k, <1>t, <2>1 DEF Keyed
    <3>5. \A i \in DOMAIN c : /\ c[i].type = "toolStarted" => c[i].turn <= n
                              /\ c[i].type = "finished" => c[i].turn < n
      <4>1. ASSUME NEW i \in DOMAIN c PROVE i + 1 \in DOMAIN b /\ c[i] = b[i + 1]
        BY <1>b, <4>1
      <4>2. QED
        BY <3>1, <4>1
    <3>6. QED
      BY <1>1, <1>s, <2>1, <3>1, <3>3, <3>4, <3>5 DEF PlaceIsTrue, Before, During, FreshFrom
  <2>2. CASE u.pc # "required"
    BY <1>s, <1>t, <2>2 DEF PlaceIsTrue, Before, During
  <2>3. QED
    BY <2>1, <2>2
<1>9. BarrierHolds(worker[w])'
  <2>1. CASE u.pc = "required"
    <3>1. b[Len(b)].type = "toolStarted" /\ b[Len(b)].turn = n
      BY <1>t, <2>1 DEF InOrder, BarrierHolds
    <3>2. CASE c = <<>>
      <4>1. b[Len(b)] = e
        BY <1>b, <3>2
      <4>2. ckpt' = e.ckpt /\ ~ Resumable(e.ckpt)
        <5>1. ~ Resumable(e.ckpt)
          BY <3>1, <4>1, <1>h
        <5>2. QED
          BY <3>1, <4>1, <5>1, <1>3, <1>h DEF Keyed
      <4>3. QED
        BY <1>s, <2>1, <3>2, <4>2 DEF BarrierHolds, Resumable
    <3>3. CASE c # <<>>
      <4>1. c[Len(c)] = b[Len(b)]
        BY <1>b, <3>3
      <4>2. QED
        BY <1>s, <2>1, <3>1, <3>3, <4>1 DEF BarrierHolds
    <3>4. QED
      BY <3>2, <3>3
  <2>2. CASE u.pc # "required"
    BY <1>s, <1>t, <2>2 DEF BarrierHolds
  <2>3. QED
    BY <2>1, <2>2
<1>10. OpenIsCurrent(worker[w])'
  BY <1>5, <1>s DEF OpenIsCurrent
<1>11. QED
  BY <1>1, <1>4, <1>7, <1>8, <1>9, <1>10 DEF InOrder
\* The transactions that end a run, and agent.run.resumed, are calm.
LEMMA EndIsCalm ==
  ASSUME ControlTyped, UNCHANGED effects,
         \/ \E n : RecordCompleted(n)
         \/ \E n : \E r \in BOOLEAN : RecordFailed(n, r)
         \/ RecordCancelled
         \/ \E k : RecordResumed(k)
  PROVE  Calm /\ Steady
<1>p. perm \in [Turns -> [st : PermStatus, attempts : Nat]]
  BY DEF ControlTyped, TypeOK, StoreTypeOK
<1>1. UNCHANGED storeVars => Calm /\ Steady
  BY UntouchedIsCalm
<1>2. UNCHANGED perm \/ ExpirePending => \A n \in Turns :
        Open(n)' => Open(n) /\ perm'[n].st = perm[n].st
  BY <1>p DEF ExpirePending, Open
<1>3. ~ Resumable(NoCkpt)
  BY DEF NoCkpt, Resumable, ResumableNodes
<1>k. ASSUME NEW type \in {"completed", "failed", "cancelled", "resumed"}, NEW n,
             seen' = seen \cup {<<type, n>>}
      PROVE  KeysSame
  BY <1>k DEF KeysSame, Keyed
<1>c. ASSUME KeysSame, ckpt' = ckpt \/ ckpt' = NoCkpt, UNCHANGED perm \/ ExpirePending
      PROVE  Calm /\ Steady
  <2>1. Resumable(ckpt') => ckpt' = ckpt
    BY <1>c, <1>3
  <2>2. QED
    BY <1>2, <1>c, <2>1 DEF Calm, Steady
<1>4. ASSUME NEW n, RecordCompleted(n) PROVE Calm /\ Steady
  BY <1>4, <1>1, <1>c, <1>k DEF RecordCompleted, Once, Consume
<1>5. ASSUME NEW n, NEW r \in BOOLEAN, RecordFailed(n, r) PROVE Calm /\ Steady
  BY <1>5, <1>1, <1>c, <1>k DEF RecordFailed, Once, Consume
<1>6. CASE RecordCancelled
  BY <1>6, <1>1, <1>c, <1>k DEF RecordCancelled, Once, Consume
<1>7. ASSUME NEW k, RecordResumed(k) PROVE Calm /\ Steady
  BY <1>7, <1>1, <1>c, <1>k DEF RecordResumed, Once, Consume
<1>8. QED
  BY <1>4, <1>5, <1>6, <1>7

\* The loop keeps a worker in order.
LEMMA LoopOrder ==
  ASSUME ControlTyped, NEW w \in Workers, AgentLoop(w), Active(worker[w]), InOrder(worker[w])
  PROVE  CheckpointIsSafe(worker[w].buf)' /\ (Active(worker[w])' => InOrder(worker[w])')
<1> DEFINE u == worker[w]
           s == worker'[w]
           b == u.buf
           G == CheckpointIsSafe(worker[w].buf)' /\ (Active(worker[w])' => InOrder(worker[w])')
<1>t. /\ u \in WorkerState /\ Fits(u) /\ b \in Seq(BufferedEvent) /\ u.turn \in Int
      /\ (b # <<>> => u.cont) /\ worker \in [Workers -> WorkerState]
  BY StoreAssumption DEF ControlTyped, TypeOK, WorkerState, Fits
<1>q. UNCHANGED storeVars /\ UNCHANGED effects => Calm /\ Steady
  BY UntouchedIsCalm
<1>g. ASSUME NEW pc, Goto(w, pc), Calm, Steady,
         \/ pc = "cancelled"
         \/ pc = "completed" /\ u.pc = "answered"
         \/ pc = "failed" /\ u.pc \in {"calling", "answered", "done", "resolve"}
         \/ pc = "broken" /\ ~ u.cont
         \/ pc = "answered" /\ u.pc = "calling"
         \/ pc = "required" /\ u.pc = "started"
         \/ pc = "approved" /\ u.pc = "resolve" /\ perm[u.turn].st = "APPROVED"
         \/ pc \in {"model", "answered", "tool"} /\ ~ u.cont
              /\ u.pc = "resuming" /\ u.node \in ResumableNodes
      PROVE G
  <2>1. s.pc = pc /\ s.turn = u.turn /\ s.buf = b /\ s.cont = u.cont
    BY <1>g, GotoKeeps DEF Kept
  <2>2. QED
    BY <1>g, <2>1, QuietOrder
<1>i. InOrder(worker[w])' => G
  BY DEF InOrder
<1>s. ASSUME NEW pc \in {"model", "answered", "tool", "calling"}, NEW node, SafePoint(w, pc, node)
      PROVE  G
  <2>1. Calm /\ Steady /\ u.pc = pc
    BY <1>s, <1>q DEF SafePoint, At
  <2>2. CASE Goto(w, "cancelled")
    BY <2>1, <2>2, <1>g
  <2>3. CASE Pausing(w) /\ Become(w, [u EXCEPT !.pc = "paused", !.node = node, !.id = u.pause])
    <3>1. s = [u EXCEPT !.pc = "paused", !.node = node, !.id = u.pause] /\ ~ u.cont
      BY <1>t, <2>3 DEF Become, Pausing
    <3>2. s.pc = "paused" /\ s.turn = u.turn /\ s.buf = b /\ s.cont = u.cont
      BY <3>1, <1>t DEF WorkerState
    <3>3. u.pc \in Before
      BY <2>1 DEF Before
    <3>4. QED
      BY <2>1, <3>1, <3>2, <3>3, QuietOrder
  <2>4. QED
    BY <1>s, <2>2, <2>3 DEF SafePoint
<1>1. CASE CancelSeen(w)
  BY <1>1, <1>g, <1>q DEF CancelSeen
<1>2. CASE Stop(w)
  BY <1>2, <1>s DEF Stop
<1>3. CASE StartRun(w) \/ CallModel(w) \/ ChooseTool(w)
  BY <1>3, <1>i, ModelOrder
<1>4. CASE LoadCheckpoint(w)
  <2>0. UNCHANGED storeVars /\ Calm /\ Steady /\ u.pc = "begin" /\ ~ u.cont /\ b = <<>>
    BY <1>4, <1>q, <1>t DEF LoadCheckpoint, At, Fits, ContPCs
  <2>1. CASE s = [u EXCEPT !.pc = "broken"]
    <3>1. s.pc = "broken" /\ s.turn = u.turn /\ s.buf = b /\ s.cont = u.cont
      BY <2>1, <1>t DEF WorkerState
    <3>2. QED
      BY <2>0, <3>1, QuietOrder
  <2>2. CASE s = [u EXCEPT !.pc = "resuming", !.node = ckpt.node, !.turn = ckpt.turn,
                           !.attempts = ckpt.attempts]
    <3>1. /\ s.pc = "resuming" /\ s.node = ckpt.node /\ s.turn = ckpt.turn
          /\ s.buf = <<>> /\ s.cont = FALSE
      BY <2>2, <2>0, <1>t DEF WorkerState
    <3>2. CheckpointIsSafe(<<>>) /\ BufferIsSafe(<<>>)
      BY <2>0, EmptyIsSafe DEF InOrder
    <3>3. CheckpointIsSafe(worker[w].buf)' /\ BufferIsSafe(worker[w].buf)'
      <4>1. <<>> \in Seq(BufferedEvent)
        OBVIOUS
      <4>2. QED
        BY <2>0, <3>1, <3>2, <4>1, CalmSafe
    <3>4. ckpt.node \in ResumableNodes => FreshFrom(ckpt.turn)
      BY <3>2, FollowsEmpty DEF CheckpointIsSafe, Resumable, FreshFrom
    <3>5. PlaceIsTrue(worker[w])'
      <4>1. FreshFrom(ckpt.turn) => \A n \in Turns : n >= ckpt.turn => Fresh(n)'
        BY <2>0, FreshKept DEF Calm, FreshFrom
      <4>2. QED
        BY <3>1, <3>4, <4>1 DEF PlaceIsTrue, Before, During, FreshFrom
    <3>6. BarrierHolds(worker[w])'
      BY <3>1 DEF BarrierHolds
    <3>7. OpenIsCurrent(worker[w])'
      <4>1. \A n \in Turns : ~ Open(n)
        BY <2>0, FollowsEmpty DEF InOrder, OpenIsCurrent
      <4>2. QED
        BY <2>0, <4>1 DEF OpenIsCurrent, Calm
    <3>8. QED
      BY <1>i, <3>3, <3>5, <3>6, <3>7 DEF InOrder
  <2>3. QED
    BY <1>4, <1>t, <2>1, <2>2 DEF LoadCheckpoint, Become
<1>5. CASE ResumeAgain(w)
  <2>1. u.pc = "resuming" /\ ~ u.cont /\ UNCHANGED effects
    BY <1>5, <1>t DEF ResumeAgain, At, Fits, ContPCs
  <2>2. Calm /\ Steady
    BY <1>5, <2>1, <1>q, EndIsCalm DEF ResumeAgain
  <2>3. CASE Goto(w, "broken")
    BY <2>1, <2>2, <2>3, <1>g
  <2>4. CASE u.node \in ResumableNodes /\ Goto(w, EntryOf[u.node])
    <3>1. EntryOf[u.node] \in {"model", "answered", "tool"}
      BY <2>4 DEF EntryOf, ResumableNodes
    <3>2. QED
      BY <2>1, <2>2, <2>4, <3>1, <1>g
  <2>5. QED
    BY <1>5, <2>3, <2>4 DEF ResumeAgain
<1>6. CASE ModelAnswers(w) \/ FinishRun(w) \/ AskUser(w) \/ ToolFails(w)
  BY <1>6, <1>g, <1>q DEF ModelAnswers, FinishRun, AskUser, ToolFails, At
<1>7. CASE ModelFails(w)
  BY <1>7, <1>s, <1>g, <1>q DEF ModelFails, At
<1>8. CASE StartTool(w)
  BY <1>8, <1>i, BarrierOrder
<1>9. CASE RunTool(w)
  BY <1>9, <1>i, EffectOrder
<1>10. CASE ObserveResult(w)
  BY <1>10, <1>i, ResultOrder
<1>11. CASE Resolve(w)
  <2>1. u.pc = "resolve" /\ UNCHANGED effects /\ u.turn \in Turns
    BY <1>11, <1>t DEF Resolve, At, Fits
  <2>2. CASE Goto(w, "failed") /\ UNCHANGED storeVars
    BY <2>1, <2>2, <1>q, <1>g
  <2>3. CASE /\ perm[u.turn].st = "APPROVED" /\ Goto(w, "approved")
             /\ RecordApproval(u.turn, Held(w, "tool_in_flight"))
    <3>1. ckpt' = ckpt \/ ~ Resumable(ckpt')
      <4>1. UNCHANGED storeVars \/ ckpt'.node = "tool_in_flight"
        BY <2>3 DEF RecordApproval, Once, Held, Ckpt
      <4>2. QED
        BY <4>1 DEF Resumable, ResumableNodes, storeVars
    <3>2. UNCHANGED perm
      BY <2>3 DEF RecordApproval, Once, storeVars
    <3>3. KeysSame
      BY <2>3 DEF RecordApproval, Once, storeVars, Consume, KeysSame, Keyed
    <3>4. Calm /\ Steady
      BY <2>1, <3>1, <3>2, <3>3 DEF Calm, Steady, Open
    <3>5. QED
      BY <2>1, <2>3, <3>4, <1>g
  <2>4. QED
    BY <1>11, <2>2, <2>3 DEF Resolve
<1>12. CASE Flush(w)
  BY <1>12, <1>i, FlushOrder
<1>13. CASE EndRun(w)
  <2>1. /\ b = <<>> /\ s.buf = <<>> /\ ~ Active(s) /\ UNCHANGED effects
    <3>1. s.pc = "stop" /\ s.buf = b
      BY <1>13, GotoKeeps DEF EndRun
    <3>2. QED
      BY <1>13, <3>1 DEF EndRun, Active, Polled
  <2>c. Calm /\ Steady => G
    <3>1. <<>> \in Seq(BufferedEvent) /\ CheckpointIsSafe(<<>>)
      BY <2>1 DEF InOrder
    <3>2. QED
      BY <2>1, <3>1, CalmSafe
  <2>2. CASE At(w, "required") /\ RecordRequired(u.turn, u.attempts)
    <3>1. ~ Resumable(ckpt) /\ ckpt' = ckpt
      BY <2>1, <2>2 DEF InOrder, BarrierHolds, At, RecordRequired, Once, storeVars
    <3>2. QED
      BY <2>1, <3>1 DEF CheckpointIsSafe, Resumable
  <2>3. CASE At(w, "paused") /\ RecordPaused(u.id, Held(w, u.node))
    <3>1. CASE UNCHANGED storeVars
      BY <2>1, <2>c, <3>1, <1>q
    <3>2. CASE /\ <<"paused", u.id>> \notin seen /\ ckpt' = Held(w, u.node)
               /\ seen' = seen \cup {<<"paused", u.id>>} /\ UNCHANGED perm
      <4>1. KeysSame /\ FreshFrom(u.turn) /\ ckpt'.turn = u.turn
        BY <2>3, <3>2 DEF KeysSame, Keyed, InOrder, PlaceIsTrue, Before, At, Held, Ckpt
      <4>2. \A n \in Turns : n >= u.turn => Fresh(n)'
        BY <2>1, <4>1, FreshKept DEF FreshFrom
      <4>3. \A n \in Turns : ~ Open(n)'
        BY <2>1, <2>3, <3>2, FollowsEmpty DEF InOrder, OpenIsCurrent, Open, At
      <4>4. QED
        BY <2>1, <4>1, <4>2, <4>3 DEF CheckpointIsSafe
    <3>3. QED
      BY <2>3, <3>1, <3>2 DEF RecordPaused, Once, Consume
  <2>4. CASE ~ At(w, "required") /\ ~ At(w, "paused")
    BY <1>13, <2>1, <2>c, <2>4, EndIsCalm DEF EndRun, At
  <2>5. QED
    BY <1>13, <2>2, <2>3, <2>4 DEF EndRun, At
<1>14. CASE PauseRaises(w)
  <2>1. ~ u.cont
    BY <1>14, <1>t DEF PauseRaises, At, Fits, ContPCs
  <2>2. QED
    BY <1>14, <2>1, <1>g, <1>q DEF PauseRaises
<1>15. CASE FailBroken(w)
  <2>1. Calm /\ Steady
    BY <1>15, EndIsCalm DEF FailBroken
  <2>2. u.pc = "broken" /\ b = <<>> /\ s.buf = <<>> /\ s.pc = "ack"
    BY <1>15, <1>t, GotoKeeps DEF FailBroken, At, Fits, ContPCs
  <2>3. <<>> \in Seq(BufferedEvent) /\ CheckpointIsSafe(<<>>) /\ ~ Active(s)
    BY <2>2 DEF InOrder, Active, Polled
  <2>4. QED
    BY <2>1, <2>2, <2>3, CalmSafe
<1>16. QED
  BY <1>1, <1>2, <1>3, <1>4, <1>5, <1>6, <1>7, <1>8, <1>9, <1>10, <1>11, <1>12, <1>13,
     <1>14, <1>15 DEF AgentLoop
-----------------------------------------------------------------------------
(* Tool calls: everybody else.                                              *)

\* A run does not begin to wait for a claim, and waits with its resume point.
WaitsOn ==
  /\ status' \in {"QUEUED", "WAITING_PERMISSION"} => status' = status
  /\ status' \in {"PAUSED", "RESUME_REQUESTED"} =>
       \/ status \in {"PAUSED", "RESUME_REQUESTED"} /\ ckpt' = ckpt
       \/ Resumable(ckpt')

\* What a waiting run waits for is not lost.
LEMMA CalmWaits ==
  ASSUME Calm, WaitsOn, Waits, env'.slow = env.slow
  PROVE  Waits'
<1>1. \A k : FreshFrom(k) => FreshFrom(k)'
  BY FreshKept DEF Calm
<1>2. status' = "QUEUED" => (FreshFrom(1) /\ \A n \in Turns : ~ Open(n))'
  BY <1>1 DEF Calm, WaitsOn, Waits
<1>3. status' = "WAITING_PERMISSION" =>
        /\ ~ Resumable(ckpt')
        /\ \A n \in Turns : Open(n)' =>
             /\ effects'[n] = 0 /\ <<"finished", n>> \notin seen' /\ FreshFrom(n + 1)'
             /\ \A m \in Turns : Open(m)' => m = n
  BY <1>1 DEF Calm, KeysSame, Keyed, WaitsOn, Waits
<1>4. ~ env'.slow /\ status' \in {"PAUSED", "RESUME_REQUESTED"} => Resumable(ckpt')
  BY DEF WaitsOn, Waits, Resumable
<1>5. QED
  BY <1>2, <1>3, <1>4 DEF Waits, Resumable

\* The inbox entry of a message is not that of an event.
LEMMA ConsumeKeys ==
  ASSUME NEW m \in Messages, Consume(m)
  PROVE  KeysSame
BY DEF Messages, Jobs, StartJobs, ResumeJobs, PauseCommands, Decisions, CancelCommand,
   Consume, KeysSame, Keyed

\* The main loop changes no tool call.
LEMMA MainCalm ==
  ASSUME ControlTyped, NEW w \in Workers, MainLoop(w)
  PROVE  Calm /\ Steady /\ WaitsOn
<1> DEFINE u == worker[w]
           G == Calm /\ Steady /\ WaitsOn
<1>u. UNCHANGED storeVars /\ UNCHANGED effects => G
  BY UntouchedIsCalm DEF storeVars, WaitsOn
<1>t. u.pc = "claim" => u.job \in Messages
  BY DEF ControlTyped, Fits, Messages
<1>n. ~ Resumable(NoCkpt)
  BY DEF NoCkpt, Resumable, ResumableNodes
<1>c. ASSUME UNCHANGED perm, UNCHANGED effects, KeysSame,
             Resumable(ckpt') => Resumable(ckpt) /\ ckpt'.turn = ckpt.turn
      PROVE  Calm /\ Steady
  BY <1>c DEF Calm, Steady, Open
<1>f. ASSUME UNCHANGED effects, NEW r \in BOOLEAN, RecordFailed(0, r) PROVE G
  <2>1. UNCHANGED storeVars \/ status' = "FAILED"
    BY <1>f DEF RecordFailed, Once
  <2>2. Calm /\ Steady
    BY <1>f, EndIsCalm
  <2>3. QED
    BY <1>f, <1>u, <2>1, <2>2 DEF WaitsOn
<1>1. ASSUME NEW m \in Jobs, Receive(w, m) PROVE G
  BY <1>1, <1>u DEF Receive
<1>2. CASE ClaimToExecute(w)
  <2>1. u.job \in Messages /\ Consume(u.job) /\ UNCHANGED perm /\ UNCHANGED effects
    BY <1>2, <1>t DEF ClaimToExecute, ClaimJob, ClaimRecovery, At
  <2>2. ckpt' = ckpt \/ ckpt' = [ckpt EXCEPT !.attempts = @ + 1]
    BY <1>2 DEF ClaimToExecute, ClaimJob, ClaimRecovery, Lock
  <2>3. ckpt'.node = ckpt.node /\ ckpt'.turn = ckpt.turn
    BY <2>2 DEF ControlTyped, TypeOK, StoreTypeOK, Checkpoint
  <2>4. status' = "RUNNING"
    BY <1>2 DEF ClaimToExecute, ClaimJob, ClaimRecovery, Lock
  <2>5. QED
    BY <1>c, <2>1, <2>3, <2>4, ConsumeKeys DEF WaitsOn, Resumable
<1>3. CASE ClaimToCancel(w)
  <2>1. /\ u.job \in Messages /\ Consume(u.job) /\ UNCHANGED perm /\ UNCHANGED effects
        /\ UNCHANGED ckpt /\ UNCHANGED status
    BY <1>3, <1>t DEF ClaimToCancel, ClaimCancelledJob, At
  <2>2. QED
    BY <1>c, <2>1, ConsumeKeys DEF WaitsOn, Resumable
<1>4. CASE ClaimNothing(w)
  <2>1. CASE UNCHANGED storeVars
    BY <1>4, <1>u, <2>1 DEF ClaimNothing
  <2>2. CASE RefuseRecovery(u.job)
    <3>1. /\ u.job \in Messages /\ Consume(u.job) /\ UNCHANGED perm /\ UNCHANGED effects
          /\ UNCHANGED ckpt /\ UNCHANGED status
      BY <1>4, <1>t, <2>2 DEF ClaimNothing, RefuseRecovery, At
    <3>2. QED
      BY <1>c, <3>1, ConsumeKeys DEF WaitsOn, Resumable
  <2>3. QED
    BY <1>4, <2>1, <2>2 DEF ClaimNothing
<1>5. CASE ClaimFails(w)
  BY <1>5, <1>u DEF ClaimFails
<1>6. CASE DeadLetter(w)
  <2>1. UNCHANGED <<perm, seen, effects>>
    BY <1>6 DEF DeadLetter, FailDelivery
  <2>2. UNCHANGED <<status, ckpt>> \/ (status' = "FAILED" /\ ckpt' = NoCkpt)
    BY <1>6 DEF DeadLetter, FailDelivery, FailClosed
  <2>3. KeysSame
    BY <2>1 DEF KeysSame
  <2>4. QED
    BY <1>c, <1>n, <2>1, <2>2, <2>3 DEF WaitsOn, Resumable
<1>7. CASE Ack(w)
  BY <1>7, <1>u DEF Ack
<1>8. CASE IdleCancel(w)
  BY <1>8, <1>u DEF IdleCancel, Drop
<1>9. ASSUME NEW m \in PauseCommands, IdlePause(w, m) PROVE G
  BY <1>9, <1>u DEF IdlePause, Drop
<1>10. ASSUME NEW n \in Turns, IdleDecision(w, n) PROVE G
  BY <1>10, <1>u, <1>f DEF IdleDecision
<1>11. ASSUME NEW n \in Turns, ClaimDecision(w, n) PROVE G
  <2>1. /\ UNCHANGED <<perm, seen, effects>> /\ UNCHANGED ckpt /\ status' = "RUNNING"
    BY <1>11 DEF ClaimDecision, ClaimPermission, Lock
  <2>2. KeysSame
    BY <2>1 DEF KeysSame
  <2>3. QED
    BY <1>c, <2>1, <2>2 DEF WaitsOn, Resumable
<1>12. QED
  BY <1>1, <1>2, <1>3, <1>4, <1>5, <1>6, <1>7, <1>8, <1>9, <1>10, <1>11 DEF MainLoop

\* Nor do the poll thread, errors and crashes.
LEMMA PollCalm ==
  ASSUME NEW w \in Workers, PollThread(w) \/ Breaks(w) \/ Crash(w)
  PROVE  Calm /\ Steady /\ WaitsOn /\ UNCHANGED ckpt
<1>1. UNCHANGED <<status, ckpt, perm, seen, effects>>
  BY DEF PollThread, PollCancel, PollPause, SyncDurablePause, Renew, RenewLease, Breaks, Crash,
     storeVars, controlVars
<1>2. KeysSame
  BY <1>1 DEF KeysSame
<1>3. QED
  BY <1>1, <1>2 DEF Calm, Steady, Open, WaitsOn, Resumable

\* The user and the control plane decide a request only while the run waits for that.
LEMMA OtherCalm ==
  ASSUME ControlTyped,
         \/ \E m \in Messages : Publish(m)
         \/ RedisLosesData
         \/ UserRequest
         \/ LeaseTimeout
         \/ Reconcile
  PROVE  /\ Calm /\ WaitsOn
         /\ Steady \/ status = "WAITING_PERMISSION"
<1> DEFINE G == Calm /\ WaitsOn /\ (Steady \/ status = "WAITING_PERMISSION")
<1>p. perm \in [Turns -> [st : PermStatus, attempts : Nat]]
  BY DEF ControlTyped, TypeOK, StoreTypeOK
<1>n. ~ Resumable(NoCkpt)
  BY DEF NoCkpt, Resumable, ResumableNodes
<1>k. UNCHANGED seen => KeysSame
  BY DEF KeysSame
<1>c. ASSUME UNCHANGED perm, UNCHANGED effects, UNCHANGED seen,
             ckpt' = ckpt \/ ckpt' = NoCkpt
      PROVE  Calm /\ Steady
  BY <1>c, <1>k, <1>n DEF Calm, Steady, Open, Resumable
<1>1. CASE (\E m \in Messages : Publish(m)) \/ RedisLosesData
  BY <1>1, <1>c DEF Publish, RedisLosesData, storeVars, WaitsOn
<1>2. CASE UserRequest
  <2>1. CASE CancelRun \/ PauseRun \/ ResumeRun
    BY <1>2, <1>c, <2>1 DEF UserRequest, controlVars, CancelRun, PauseRun, ResumeRun, WaitsOn
  <2>2. ASSUME NEW n \in Turns, NEW d \in {"APPROVED", "DENIED"}, Decide(n, d) PROVE G
    <3>1. /\ UNCHANGED <<status, ckpt, seen>> /\ UNCHANGED effects
          /\ status = "WAITING_PERMISSION" /\ perm[n].st = "PENDING"
          /\ perm' = [perm EXCEPT ![n].st = d]
      BY <1>2, <2>2 DEF UserRequest, controlVars, Decide
    <3>2. \A m \in Turns : Open(m)' => Open(m)
      BY <1>p, <3>1 DEF Open
    <3>3. QED
      BY <1>k, <3>1, <3>2 DEF Calm, Resumable, WaitsOn
  <2>3. QED
    BY <1>2, <2>1, <2>2 DEF UserRequest, UserStep
<1>3. CASE LeaseTimeout
  BY <1>3, <1>c DEF LeaseTimeout, LeaseExpires, controlVars, WaitsOn
<1>4. CASE Reconcile
  <2>1. ASSUME NEW n \in Turns, ExpirePermission(n) PROVE G
    <3>1. /\ UNCHANGED <<status, ckpt>> \/ (status' = "FAILED" /\ ckpt' = NoCkpt)
          /\ UNCHANGED seen /\ UNCHANGED effects
          /\ perm' = [perm EXCEPT ![n].st = "EXPIRED"]
      BY <1>4, <2>1 DEF Reconcile, controlVars, ExpirePermission, FailClosed
    <3>2. \A m \in Turns : Open(m)' => Open(m) /\ perm'[m].st = perm[m].st
      BY <1>p, <3>1 DEF Open
    <3>3. QED
      BY <1>k, <1>n, <3>1, <3>2 DEF Calm, Steady, Resumable, WaitsOn
  <2>2. CASE ConfirmPause \/ RescheduleRun
    BY <1>4, <1>c, <2>2 DEF Reconcile, controlVars, ConfirmPause, RescheduleRun, Park, WaitsOn,
       Resumable
  <2>3. CASE FailExpiredRun \/ RequeueRun \/ FailQueuedRun
    BY <1>4, <1>c, <2>3 DEF Reconcile, controlVars, FailExpiredRun, RequeueRun, FailQueuedRun,
       FailClosed, WaitsOn
  <2>4. QED
    BY <1>4, <2>1, <2>2, <2>3 DEF Reconcile
<1>5. QED
  BY <1>1, <1>2, <1>3, <1>4
-----------------------------------------------------------------------------
(* Tool calls: the whole system.                                            *)

\* What the loop leaves to a run that waits.
LEMMA LoopWaits ==
  ASSUME ControlTyped, NEW w \in Workers, AgentLoop(w), Active(worker[w]), InOrder(worker[w]),
         status \notin {"QUEUED", "WAITING_PERMISSION"},
         ~ env.slow => status \notin {"PAUSED", "RESUME_REQUESTED"},
         env'.slow = env.slow
  PROVE  Waits'
<1> DEFINE u == worker[w]
           n == u.turn
<1>p. perm \in [Turns -> [st : PermStatus, attempts : Nat]]
  BY DEF ControlTyped, TypeOK, StoreTypeOK
<1>1. ASSUME Same \/ Ends PROVE Waits'
  BY <1>1 DEF Same, Ends, Terminal, Cancelling, Waits
<1>2. CASE ~ EndRun(w)
  BY <1>1, <1>2, LoopSame
<1>3. CASE EndRun(w) /\ At(w, "required") /\ RecordRequired(n, u.attempts)
  <2>1. CASE UNCHANGED storeVars
    BY <1>1, <2>1 DEF storeVars, Same
  <2>2. CASE <<"required", n>> \notin seen
    <3>1. /\ seen' = seen \cup {<<"required", n>>} /\ UNCHANGED ckpt
          /\ perm' = IF perm[n].st = "none"
                     THEN [perm EXCEPT ![n] = [st |-> "PENDING", attempts |-> u.attempts]]
                     ELSE perm
          /\ status' = IF status = "RUNNING" THEN "WAITING_PERMISSION" ELSE status
      BY <1>3, <2>2 DEF RecordRequired, Once, Consume
    <3>2. UNCHANGED effects /\ u.buf = <<>> /\ u.pc = "required"
      BY <1>3 DEF EndRun, At
    <3>3. n \in Turns
      BY <3>2 DEF ControlTyped, Fits
    <3>4. KeysSame
      BY <3>1 DEF KeysSame, Keyed
    <3>5. /\ ~ Resumable(ckpt) /\ effects[n] = 0 /\ <<"finished", n>> \notin seen
          /\ FreshFrom(n + 1)
      BY <3>2 DEF InOrder, BarrierHolds, PlaceIsTrue, During
    <3>6. \A m \in Turns : ~ Open(m)
      BY <3>2, FollowsEmpty DEF InOrder, OpenIsCurrent
    <3>7. \A m \in Turns : Open(m)' => m = n
      BY <1>p, <3>1, <3>6 DEF Open
    <3>8. /\ ~ Resumable(ckpt') /\ effects'[n] = 0 /\ <<"finished", n>> \notin seen'
      BY <3>1, <3>2, <3>3, <3>4, <3>5 DEF KeysSame, Keyed
    <3>9. \A m \in Turns : m >= n + 1 => Fresh(m)'
      BY <3>2, <3>4, <3>5, FreshKept DEF FreshFrom
    <3>10. \A m \in Turns : Open(m)' =>
             /\ effects'[m] = 0 /\ <<"finished", m>> \notin seen' /\ FreshFrom(m + 1)'
             /\ \A k \in Turns : Open(k)' => k = m
      BY <3>7, <3>8, <3>9 DEF FreshFrom
    <3>11. QED
      BY <3>1, <3>8, <3>10 DEF Waits, Resumable
  <2>3. QED
    BY <1>3, <2>1, <2>2 DEF RecordRequired, Once
<1>4. CASE EndRun(w) /\ At(w, "paused") /\ RecordPaused(u.id, Held(w, u.node))
  <2>1. CASE UNCHANGED storeVars
    BY <1>1, <2>1 DEF storeVars, Same
  <2>2. CASE <<"paused", u.id>> \notin seen
    <3>1. ckpt' = Held(w, u.node) /\ (status' = "PAUSED" \/ status' = status)
      BY <1>4, <2>2 DEF RecordPaused, Once
    <3>2. u.node \in ResumableNodes
      BY <1>4 DEF ControlTyped, Fits, At
    <3>3. Resumable(ckpt')
      BY <3>1, <3>2 DEF Resumable, Held, Ckpt
    <3>4. QED
      BY <3>1, <3>3 DEF Waits, Resumable
  <2>3. QED
    BY <1>4, <2>1, <2>2 DEF RecordPaused, Once
<1>5. CASE EndRun(w) /\ ~ At(w, "required") /\ ~ At(w, "paused")
  <2>1. \/ RecordCompleted(n)
        \/ \E r \in BOOLEAN : RecordFailed(n, r)
        \/ RecordCancelled
    BY <1>5 DEF EndRun, At
  <2>2. Same \/ Ends
    BY <2>1 DEF RecordCompleted, RecordFailed, RecordCancelled, Once, storeVars, Same, Ends,
       Terminal
  <2>3. QED
    BY <1>1, <2>2
<1>6. QED
  BY <1>2, <1>3, <1>4, <1>5 DEF EndRun, At

\* Who claims the run begins in order.
LEMMA ClaimOrder ==
  ASSUME ControlTyped, NEW w \in Workers, MainLoop(w), Takes(w), Waits, CheckpointIsSafe(<<>>)
  PROVE  InOrder(worker[w])'
<1> DEFINE u == worker[w]
           s == worker'[w]
<1>w. /\ worker \in [Workers -> WorkerState] /\ u \in WorkerState /\ Fits(u)
  BY DEF ControlTyped, TypeOK
<1>c. Calm /\ Steady
  BY MainCalm
<1>1. ClaimToExecute(w) \/ \E n \in Turns : ClaimDecision(w, n)
  BY DEF MainLoop, Takes, Receive, ClaimToCancel, ClaimCancelledJob, ClaimNothing,
     RefuseRecovery, ClaimFails, DeadLetter, FailDelivery, FailClosed, Ack, IdleCancel, Drop,
     IdlePause, IdleDecision, RecordFailed, Once, storeVars
<1>2. ASSUME s.buf = <<>> PROVE CheckpointIsSafe(worker[w].buf)' /\ BufferIsSafe(worker[w].buf)'
  <2>1. <<>> \in Seq(BufferedEvent) /\ BufferIsSafe(<<>>)
    BY EmptyIsSafe
  <2>2. QED
    BY <1>2, <1>c, <2>1, CalmSafe
<1>f. \A k : FreshFrom(k) => FreshFrom(k)'
  BY <1>c, FreshKept DEF Calm
<1>3. CASE ClaimToExecute(w)
  <2>1. u.pc = "claim" /\ ~ u.cont /\ u.buf = <<>>
    BY <1>3, <1>w DEF ClaimToExecute, At, Fits, ContPCs
  <2>2. s.pc = "begin" /\ s.job = u.job /\ s.buf = <<>> /\ ~ s.cont
    BY <1>3, <2>1, GotoKeeps DEF ClaimToExecute, Kept
  <2>3. u.job \in StartJobs => status = "QUEUED"
    BY <1>3 DEF ClaimToExecute, ClaimJob, StartJobs, ResumeJobs
  <2>4. status = "QUEUED" \/ Resumable(ckpt)
    BY <1>3 DEF ClaimToExecute, ClaimJob, ClaimRecovery, MayRecover
  <2>5. \A n \in Turns : ~ Open(n)
    BY <2>4, FollowsEmpty DEF Waits, CheckpointIsSafe
  <2>6. PlaceIsTrue(worker[w])'
    BY <2>2, <2>3, <1>f DEF Waits, PlaceIsTrue, Before, During
  <2>7. BarrierHolds(worker[w])' /\ OpenIsCurrent(worker[w])'
    BY <2>2, <2>5, <1>c DEF BarrierHolds, OpenIsCurrent, Calm
  <2>8. QED
    BY <1>2, <2>2, <2>6, <2>7 DEF InOrder
<1>4. ASSUME NEW n \in Turns, ClaimDecision(w, n) PROVE InOrder(worker[w])'
  <2> DEFINE x == [IdleWorker EXCEPT !.pc = "resolve", !.job = <<"decision", n>>,
                                     !.turn = n, !.attempts = perm[n].attempts,
                                     !.cont = TRUE]
  <2>1. s = x
    BY <1>4, <1>w DEF ClaimDecision, Become
  <2>2. x.pc = "resolve" /\ x.turn = n /\ x.buf = <<>> /\ x.cont = TRUE
    BY DEF IdleWorker
  <2> HIDE DEF x
  <2>3. status = "WAITING_PERMISSION" /\ Open(n) /\ UNCHANGED ckpt
    BY <1>4 DEF ClaimDecision, ClaimPermission, Lock, Open
  <2>4. /\ ~ Resumable(ckpt) /\ effects[n] = 0 /\ <<"finished", n>> \notin seen
        /\ FreshFrom(n + 1) /\ \A m \in Turns : Open(m) => m = n
    BY <2>3 DEF Waits
  <2>5. PlaceIsTrue(worker[w])'
    <3>1. effects'[n] = 0 /\ <<"finished", n>> \notin seen' /\ FreshFrom(n + 1)'
      BY <1>c, <1>f, <2>4 DEF Calm, KeysSame, Keyed
    <3>2. QED
      BY <2>1, <2>2, <3>1 DEF PlaceIsTrue, Before, During, FreshFrom
  <2>6. BarrierHolds(worker[w])'
    BY <2>1, <2>2, <2>3, <2>4 DEF BarrierHolds, Resumable
  <2>7. OpenIsCurrent(worker[w])'
    BY <1>c, <2>1, <2>2, <2>4 DEF OpenIsCurrent, Calm
  <2>8. QED
    BY <1>2, <2>1, <2>2, <2>5, <2>6, <2>7 DEF InOrder
<1>5. QED
  BY <1>1, <1>3, <1>4

\* The poll thread and an error keep a worker in order; a worker that dies leaves nothing
\* behind that would have to be published, unless it dies while it publishes.
LEMMA PollOrder ==
  ASSUME ControlTyped, NEW w \in Workers, PollThread(w) \/ Breaks(w) \/ Crash(w),
         FlushFaults = FALSE, Active(worker[w]), InOrder(worker[w])
  PROVE  IF Active(worker[w])' THEN InOrder(worker[w])' ELSE CheckpointIsSafe(<<>>)'
<1> DEFINE u == worker[w]
           s == worker'[w]
<1>w. /\ worker \in [Workers -> WorkerState] /\ u \in WorkerState /\ Fits(u)
  BY DEF ControlTyped, TypeOK
<1>c. Calm /\ Steady /\ UNCHANGED ckpt
  BY PollCalm
<1>e. <<>> \in Seq(BufferedEvent)
  OBVIOUS
<1>1. CASE Crash(w)
  <2>1. CheckpointIsSafe(<<>>)
    <3>1. CASE u.buf = <<>>
      BY <3>1 DEF InOrder
    <3>2. CASE u.buf # <<>>
      <4>1. u.cont /\ u.pc \in {"model", "calling", "answered", "tool", "started", "done"}
        BY <1>1, <1>w, <3>2 DEF Crash, Flushing, Fits, ContPCs
      <4>2. ~ Resumable(ckpt)
        BY <4>1 DEF InOrder, BarrierHolds
      <4>3. QED
        BY <4>2 DEF CheckpointIsSafe
    <3>3. QED
      BY <3>1, <3>2
  <2>2. s = IdleWorker
    BY <1>1, <1>w DEF Crash, Become
  <2>3. ~ Active(s)
    BY <2>2 DEF IdleWorker, Active, Polled
  <2>4. QED
    BY <1>c, <1>e, <2>1, <2>3, CalmSafe
<1>2. CASE Breaks(w)
  <2>1. ~ u.cont /\ u.buf = <<>>
    BY <1>2, <1>w DEF Breaks, Fits, Jobs, StartJobs, ResumeJobs, Decisions
  <2>2. s.pc = "broken" /\ s.turn = u.turn /\ s.buf = u.buf /\ s.cont = u.cont
    BY <1>2, GotoKeeps DEF Breaks, Kept
  <2>3. Active(s)
    BY <2>2 DEF Active
  <2>4. QED
    BY <1>c, <2>1, <2>2, <2>3, QuietOrder
<1>3. CASE PollThread(w)
  <2>1. \/ UNCHANGED worker
        \/ s = [u EXCEPT !.cancel = TRUE]
        \/ \E k : s = [u EXCEPT !.pause = k]
    BY <1>3, <1>w DEF PollThread, PollCancel, PollPause, SyncDurablePause, Renew, Become,
       controlVars
  <2>2. /\ s.pc = u.pc /\ s.turn = u.turn /\ s.buf = u.buf /\ s.job = u.job
        /\ s.node = u.node /\ s.cont = u.cont
    BY <2>1, <1>w DEF WorkerState
  <2>3. QED
    BY <1>c, <2>2, CalmOrder DEF Active
<1>4. QED
  BY <1>1, <1>2, <1>3
\* Every step keeps tool calls single.
LEMMA EffectStep ==
  FlushFaults = FALSE /\ ControlTyped /\ ExclusiveInv /\ EffectInv /\ [ControlNext]_vars
    => EffectInv'
<1> SUFFICES ASSUME FlushFaults = FALSE, ControlTyped, ExclusiveInv, EffectInv,
                    [ControlNext]_vars
             PROVE  EffectInv'
  OBVIOUS
<1>s. env'.slow = env.slow
  BY EffectsByRunTool DEF vars, controlVars
<1> SUFFICES ASSUME ~ env.slow \/ OneWorker PROVE OncePerTurn'
  BY <1>s DEF EffectInv, OneWorker
<1>h. OncePerTurn /\ Exclusive
  BY DEF EffectInv, ExclusiveInv
<1>e. <<>> \in Seq(BufferedEvent)
  OBVIOUS
<1>p. ASSUME Calm PROVE (\A n \in Turns : effects[n] <= 1)'
  BY <1>p, <1>h DEF Calm, OncePerTurn
<1>a. ASSUME Calm, CheckpointIsSafe(<<>>) PROVE CheckpointIsSafe(<<>>)'
  BY <1>a, <1>e, CalmSafe
<1>v. ASSUME Calm, Steady, NEW v \in Workers, worker'[v] = worker[v], Active(worker[v])
      PROVE  InOrder(worker[v])'
  BY <1>v, <1>h, CalmOrder DEF OncePerTurn
\* Nobody moves.
<1>1. ASSUME UNCHANGED worker, Calm, WaitsOn, Steady \/ status = "WAITING_PERMISSION"
      PROVE  OncePerTurn'
  <2>1. Waits'
    BY <1>1, <1>h, <1>s, CalmWaits DEF OncePerTurn
  <2>2. \A v \in Workers : Active(worker[v])' => InOrder(worker[v])'
    <3>1. ASSUME NEW v \in Workers, Active(worker[v])' PROVE InOrder(worker[v])'
      <4>1. Active(worker[v]) /\ worker'[v] = worker[v]
        BY <1>1, <3>1 DEF Active
      <4>2. Steady
        BY <1>1, <1>h, <4>1 DEF Exclusive
      <4>3. QED
        BY <1>1, <1>v, <4>1, <4>2
    <3>2. QED
      BY <3>1
  <2>3. (\A v \in Workers : ~ Active(worker[v])') => CheckpointIsSafe(<<>>)'
    BY <1>1, <1>a, <1>h DEF OncePerTurn, Active
  <2>4. QED
    BY <1>1, <1>p, <2>1, <2>2, <2>3 DEF OncePerTurn
\* A worker moves, and the others do not.
<1>2. ASSUME NEW w \in Workers, \A v \in Workers \ {w} : worker'[v] = worker[v],
             (\A n \in Turns : effects[n] <= 1)', Waits',
             \A v \in Workers \ {w} : Active(worker[v]) => InOrder(worker[v])',
             Active(worker[w])' => InOrder(worker[w])',
             (\A v \in Workers : ~ Active(worker[v])') => CheckpointIsSafe(<<>>)'
      PROVE  OncePerTurn'
  <2>1. \A v \in Workers : Active(worker[v])' => InOrder(worker[v])'
    BY <1>2 DEF Active
  <2>2. QED
    BY <1>2, <2>1 DEF OncePerTurn
<1>3. ASSUME NEW w \in Workers, \A v \in Workers \ {w} : worker'[v] = worker[v],
             Calm, Steady, WaitsOn,
             Active(worker[w])' => InOrder(worker[w])',
             Active(worker[w]) /\ ~ Active(worker[w])' => CheckpointIsSafe(<<>>)'
      PROVE  OncePerTurn'
  <2>1. Waits'
    BY <1>3, <1>h, <1>s, CalmWaits DEF OncePerTurn
  <2>2. (\A v \in Workers : ~ Active(worker[v])') => CheckpointIsSafe(<<>>)'
    <3>1. ASSUME \A v \in Workers : ~ Active(worker[v])', ~ Active(worker[w])
          PROVE  CheckpointIsSafe(<<>>)'
      <4>1. \A v \in Workers : ~ Active(worker[v])
        BY <1>3, <3>1 DEF Active
      <4>2. QED
        BY <1>3, <1>a, <1>h, <4>1 DEF OncePerTurn
    <3>2. QED
      BY <1>3, <3>1
  <2>3. QED
    BY <1>2, <1>3, <1>p, <1>v, <2>1, <2>2
<1>4. CASE UNCHANGED vars
  <2>1. UNCHANGED storeVars /\ UNCHANGED worker /\ UNCHANGED effects
    BY <1>4 DEF vars, controlVars
  <2>2. Calm /\ Steady /\ WaitsOn
    BY <2>1, UntouchedIsCalm DEF storeVars, WaitsOn
  <2>3. QED
    BY <1>1, <2>1, <2>2
<1>5. ASSUME \/ \E m \in Messages : Publish(m)
             \/ RedisLosesData
             \/ UserRequest
             \/ LeaseTimeout
             \/ Reconcile
      PROVE  OncePerTurn'
  BY <1>1, <1>5, OtherCalm, OtherMoves
<1>6. ASSUME NEW w \in Workers, MainLoop(w) PROVE OncePerTurn'
  <2>1. ~ Active(worker[w])
    BY <1>6 DEF MainLoop, Receive, ClaimToExecute, ClaimToCancel, ClaimNothing, ClaimFails,
       DeadLetter, Ack, IdleCancel, IdlePause, IdleDecision, ClaimDecision, At, Active, Polled
  <2>2. Active(worker[w])' => InOrder(worker[w])'
    <3>1. ASSUME Active(worker[w])' PROVE InOrder(worker[w])'
      <4>1. Takes(w)
        BY <1>6, <2>1, <3>1, MainTakes DEF NobodyStarts, Active
      <4>2. \A v \in Workers : ~ Active(worker[v])
        BY <1>h, <2>1, <4>1 DEF Takes, Exclusive, OneWorker
      <4>3. QED
        BY <1>6, <1>h, <4>1, <4>2, ClaimOrder DEF OncePerTurn
    <3>2. QED
      BY <3>1
  <2>3. QED
    BY <1>3, <1>6, <2>1, <2>2, MainCalm, MainTakes
<1>7. ASSUME NEW w \in Workers, PollThread(w) \/ Breaks(w) \/ Crash(w) PROVE OncePerTurn'
  <2>1. Active(worker[w])' => Active(worker[w])
    BY <1>7, PollTakes DEF NobodyStarts, Active
  <2>2. Active(worker[w]) =>
          IF Active(worker[w])' THEN InOrder(worker[w])' ELSE CheckpointIsSafe(<<>>)'
    BY <1>7, <1>h, PollOrder DEF OncePerTurn
  <2>3. QED
    BY <1>3, <1>7, <2>1, <2>2, PollCalm, PollTakes
<1>8. ASSUME NEW w \in Workers, AgentLoop(w) PROVE OncePerTurn'
  <2>w. \A v \in Workers \ {w} : worker'[v] = worker[v]
    BY <1>8, LoopTakes
  <2>1. CASE ~ Active(worker[w])
    <3>1. EndRun(w) /\ RecordCancelled
      BY <1>8, <2>1 DEF AgentLoop, CancelSeen, Stop, SafePoint, StartRun, LoadCheckpoint,
         ResumeAgain, CallModel, ModelAnswers, ModelFails, FinishRun, ChooseTool, StartTool,
         AskUser, RunTool, ObserveResult, ToolFails, Resolve, Flush, Flushing, EndRun,
         PauseRaises, FailBroken, At, Active, Polled
    <3>2. Calm /\ Steady
      BY <3>1, EndIsCalm DEF EndRun
    <3>3. WaitsOn
      BY <3>1, <3>2 DEF RecordCancelled, Once, storeVars, WaitsOn, Calm
    <3>4. ~ Active(worker[w])'
      BY <1>8, <2>1, LoopTakes DEF NobodyStarts, Active
    <3>5. QED
      BY <1>3, <2>1, <2>w, <3>2, <3>3, <3>4
  <2>2. CASE Active(worker[w])
    <3>1. InOrder(worker[w]) /\ \A v \in Workers \ {w} : ~ Active(worker[v])
      BY <1>h, <2>2 DEF OncePerTurn, Exclusive
    <3>2. (\A n \in Turns : effects[n] <= 1)'
      <4>1. CASE UNCHANGED effects
        BY <4>1, <1>h DEF OncePerTurn
      <4>2. CASE RunTool(w)
        <5>1. effects' = [effects EXCEPT ![worker[w].turn] = 1]
          BY <3>1, <4>2, EffectOrder
        <5>2. effects \in [Turns -> 0 .. 2]
          BY DEF ControlTyped, TypeOK
        <5>3. QED
          BY <1>h, <5>1, <5>2 DEF OncePerTurn
      <4>3. QED
        BY <1>8, <4>1, <4>2 DEF AgentLoop, CancelSeen, Stop, SafePoint, StartRun,
           LoadCheckpoint, ResumeAgain, CallModel, ModelAnswers, ModelFails, FinishRun,
           ChooseTool, StartTool, AskUser, RunTool, ObserveResult, ToolFails, Resolve, Flush,
           EndRun, PauseRaises, FailBroken
    <3>3. Waits'
      BY <1>8, <1>h, <1>s, <2>2, <3>1, LoopWaits DEF Exclusive
    <3>4. CheckpointIsSafe(worker[w].buf)' /\ (Active(worker[w])' => InOrder(worker[w])')
      BY <1>8, <2>2, <3>1, LoopOrder
    <3>5. ~ Active(worker[w])' => CheckpointIsSafe(<<>>)'
      <4>1. Fits(worker'[w])
        BY <1>8, LoopMoves, BecomeProper DEF Moves
      <4>2. ~ Active(worker'[w]) => worker'[w].buf = <<>>
        BY <4>1 DEF Fits, ContPCs, Active, Polled
      <4>3. QED
        BY <3>4, <4>2 DEF Active
    <3>6. QED
      BY <1>2, <2>w, <3>1, <3>2, <3>3, <3>4, <3>5
  <2>3. QED
    BY <2>1, <2>2
<1>9. QED
  BY <1>4, <1>5, <1>6, <1>7, <1>8 DEF ControlNext

\* Nothing of any tool call has happened at the start.
LEMMA EffectInit == ControlInit => EffectInv
<1> SUFFICES ASSUME ControlInit PROVE OncePerTurn
  BY DEF EffectInv
<1>1. /\ effects = [n \in Turns |-> 0] /\ seen = {} /\ status = "QUEUED" /\ ckpt = NoCkpt
      /\ perm = [n \in Turns |-> [st |-> "none", attempts |-> 0]]
  BY DEF ControlInit, StoreInit
<1>2. \A n \in Turns : Fresh(n) /\ ~ Open(n)
  BY <1>1 DEF Fresh, Open
<1>3. ~ Resumable(ckpt)
  BY <1>1 DEF NoCkpt, Resumable, ResumableNodes
<1>4. \A w \in Workers : ~ Active(worker[w])
  BY DEF ControlInit, IdleWorker, Active, Polled
<1>5. QED
  BY <1>1, <1>2, <1>3, <1>4 DEF OncePerTurn, Waits, FreshFrom, CheckpointIsSafe

\* Unless workers die while they publish what a continuation has done, the inbox, the stored
\* checkpoint, the buffers and the effects tell the same story in every state.
THEOREM EffectsAlways ==
  ASSUME FlushFaults = FALSE
  PROVE  ControlSpec => []EffectInv
<1>1. ControlTyped /\ ExclusiveInv /\ EffectInv /\ [ControlNext]_vars => EffectInv'
  BY EffectStep
<1>2. QED
  BY <1>1, EffectInit, ControlTypedAlways, ExclusiveAlways, PTL DEF ControlSpec

\* No tool call is executed twice.
THEOREM EffectOnce ==
  ASSUME FlushFaults = FALSE
  PROVE  ControlSpec => []EffectAtMostOnce
<1>1. EffectInv => EffectAtMostOnce
  BY DEF EffectInv, OncePerTurn, EffectAtMostOnce
<1>2. QED
  BY EffectsAlways, <1>1, PTL

\* A parked run can be resumed without doing a tool call twice.
THEOREM ResumeIsSafe ==
  ASSUME FlushFaults = FALSE
  PROVE  ControlSpec => []ResumePointIsSafe
<1>1. ExclusiveInv /\ EffectInv => ResumePointIsSafe
  <2> SUFFICES ASSUME ExclusiveInv, EffectInv, ~ env.slow,
                      status \in {"PAUSED", "RESUME_REQUESTED"}
               PROVE  /\ Resumable(ckpt)
                      /\ \A n \in Turns : n >= ckpt.turn => effects[n] = 0
    BY DEF ResumePointIsSafe
  <2>1. \A w \in Workers : ~ Active(worker[w])
    BY DEF ExclusiveInv, Exclusive
  <2>2. Resumable(ckpt) /\ CheckpointIsSafe(<<>>)
    BY <2>1 DEF EffectInv, OncePerTurn, Waits
  <2>3. QED
    BY <2>2, FollowsEmpty DEF CheckpointIsSafe, Fresh
<1>2. QED
  BY EffectsAlways, ExclusiveAlways, <1>1, PTL
-----------------------------------------------------------------------------
(* The end.                                                                 *)

\* What a step does to the end of the run.
Stands == UNCHANGED <<status, task, ended>>
Unended == status \notin Terminal /\ status' \notin Terminal /\ ended' = ended
Finishes == /\ status \notin Terminal /\ status' \in Terminal
            /\ task' = status' /\ ended' = ended + 1

\* Who executes the run or writes its end.
Engaged(s) == Active(s) \/ s.pc = "cancelled"

\* The loop ends the run with its last event, at most.
LEMMA LoopEnds ==
  ASSUME ControlTyped, CancelsAsked, NEW w \in Workers, AgentLoop(w), status \notin Terminal
  PROVE  Unended \/ (Finishes /\ ~ Engaged(worker'[w]))
<1> DEFINE u == worker[w]
           s == worker'[w]
<1>u. UNCHANGED storeVars => Unended
  BY DEF storeVars, Unended
<1>r. ASSUME NEW e, Record(e) PROVE Unended
  BY <1>r DEF Record, RecordToolFinished, RecordModelStarted, RecordStep, Once, storeVars,
     Unended
<1>e. ASSUME NEW e, NEW next, Emit(w, e, next) PROVE Unended
  BY <1>e, <1>u, <1>r DEF Emit
<1>g. ASSUME NEW pc \in {"stop", "ack"}, Goto(w, pc) PROVE ~ Engaged(s)
  BY <1>g, GotoKeeps DEF Engaged, Active, Polled
<1>f. ASSUME NEW n, NEW r \in BOOLEAN, RecordFailed(n, r) PROVE Unended \/ Finishes
  BY <1>f, <1>u DEF RecordFailed, Once, Finishes, Terminal
<1>1. CASE StartRun(w) \/ CallModel(w) \/ ChooseTool(w) \/ StartTool(w) \/ ObserveResult(w)
  BY <1>1, <1>e DEF StartRun, CallModel, ChooseTool, StartTool, ObserveResult
<1>2. CASE Flush(w)
  BY <1>2, <1>r DEF Flush
<1>3. CASE ResumeAgain(w)
  BY <1>3, <1>u DEF ResumeAgain, RecordResumed, Once, Unended
<1>4. CASE Resolve(w)
  BY <1>4, <1>u DEF Resolve, RecordApproval, Once, Unended, Terminal
<1>5. CASE FailBroken(w)
  BY <1>5, <1>f, <1>g DEF FailBroken
<1>6. CASE EndRun(w)
  <2>1. ~ Engaged(s)
    BY <1>6, <1>g DEF EndRun
  <2>2. CASE RecordRequired(u.turn, u.attempts)
    BY <2>2, <1>u DEF RecordRequired, Once, Unended, Terminal
  <2>3. CASE RecordCompleted(u.turn)
    BY <2>1, <2>3, <1>u DEF RecordCompleted, Once, Finishes, Terminal
  <2>4. ASSUME NEW r \in BOOLEAN, RecordFailed(u.turn, r)
        PROVE  Unended \/ (Finishes /\ ~ Engaged(s))
    BY <2>1, <2>4, <1>f
  <2>5. CASE At(w, "cancelled") /\ RecordCancelled
    <3>1. status \in Cancelling
      BY <2>5 DEF ControlTyped, StoreInv, CancelStands, CancelsAsked, At
    <3>2. QED
      BY <2>1, <2>5, <3>1, <1>u DEF RecordCancelled, Once, Finishes, Terminal
  <2>6. CASE RecordPaused(u.id, Held(w, u.node))
    BY <2>6, <1>u DEF RecordPaused, Once, Unended, Terminal
  <2>7. QED
    BY <1>6, <2>2, <2>3, <2>4, <2>5, <2>6 DEF EndRun
<1>7. QED
  BY <1>1, <1>2, <1>3, <1>4, <1>5, <1>6, <1>u
  DEF AgentLoop, CancelSeen, Stop, SafePoint, LoadCheckpoint, ModelAnswers, ModelFails,
      FinishRun, AskUser, RunTool, ToolFails, PauseRaises

\* The main loop touches a finished run no more.
LEMMA MainEnds ==
  ASSUME ControlTyped, NEW w \in Workers, MainLoop(w)
  PROVE  \/ Stands /\ (Engaged(worker'[w]) => status \notin Terminal)
         \/ Unended
         \/ Finishes /\ ~ Engaged(worker'[w])
<1> DEFINE u == worker[w]
           s == worker'[w]
           G == \/ Stands /\ (Engaged(s) => status \notin Terminal)
                \/ Unended
                \/ Finishes /\ ~ Engaged(s)
<1>w. worker \in [Workers -> WorkerState]
  BY DEF ControlTyped, TypeOK
<1>b. ASSUME NEW x, Become(w, x) PROVE s = x
  BY <1>b, <1>w DEF Become
<1>u. UNCHANGED storeVars => Stands
  BY DEF storeVars, Stands
<1>i. ~ Engaged(IdleWorker) /\ \A m : ~ Engaged([IdleWorker EXCEPT !.pc = "claim", !.job = m])
  BY DEF IdleWorker, Engaged, Active, Polled
<1>k. ASSUME NEW pc \in {"dead", "ack"}, Goto(w, pc) PROVE ~ Engaged(s)
  BY <1>k, GotoKeeps DEF Engaged, Active, Polled
<1>n. u.pc = "idle" => ~ Engaged(u)
  BY DEF Engaged, Active, Polled
<1>1. ASSUME NEW m \in Jobs, Receive(w, m) PROVE G
  BY <1>1, <1>b, <1>i, <1>u DEF Receive
<1>2. CASE ClaimToExecute(w)
  BY <1>2 DEF ClaimToExecute, ClaimJob, ClaimRecovery, MayRecover, Lock, Unended, Terminal
<1>3. CASE ClaimToCancel(w)
  BY <1>3 DEF ClaimToCancel, ClaimCancelledJob, Unended, Terminal
<1>4. CASE ClaimNothing(w)
  <2>1. Stands
    BY <1>4, <1>u DEF ClaimNothing, RefuseRecovery, Stands
  <2>2. QED
    BY <1>4, <1>b, <1>i, <2>1 DEF ClaimNothing
<1>5. CASE ClaimFails(w)
  BY <1>5, <1>b, <1>i, <1>k, <1>u DEF ClaimFails
<1>6. CASE DeadLetter(w)
  <2>1. Stands \/ Finishes
    BY <1>6 DEF DeadLetter, FailDelivery, FailClosed, Stands, Finishes, Terminal
  <2>2. QED
    BY <1>6, <1>k, <2>1 DEF DeadLetter
<1>7. CASE Ack(w)
  BY <1>7, <1>b, <1>i, <1>u DEF Ack
<1>8. CASE IdleCancel(w)
  <2>1. Stands
    BY <1>8, <1>u DEF IdleCancel, Drop
  <2>2. CASE UNCHANGED worker
    BY <1>8, <1>n, <2>1, <2>2 DEF IdleCancel, At
  <2>3. CASE status = "CANCEL_REQUESTED"
    BY <2>1, <2>3 DEF Terminal
  <2>4. QED
    BY <1>8, <2>2, <2>3 DEF IdleCancel, Drop
<1>9. ASSUME NEW m \in PauseCommands, IdlePause(w, m) PROVE G
  BY <1>9, <1>n, <1>u DEF IdlePause, Drop, At
<1>10. ASSUME NEW n \in Turns, IdleDecision(w, n) PROVE G
  <2>1. UNCHANGED worker /\ ~ Engaged(u)
    BY <1>10, <1>n DEF IdleDecision, At
  <2>2. \/ UNCHANGED storeVars
        \/ status \notin Terminal /\ \E r \in BOOLEAN : RecordFailed(0, r)
    BY <1>10 DEF IdleDecision, Terminal
  <2>3. Stands \/ Finishes
    BY <2>2, <1>u DEF RecordFailed, Once, Finishes, Terminal
  <2>4. QED
    BY <2>1, <2>3
<1>11. ASSUME NEW n \in Turns, ClaimDecision(w, n) PROVE G
  BY <1>11 DEF ClaimDecision, ClaimPermission, Lock, Unended, Terminal
<1>12. QED
  BY <1>1, <1>2, <1>3, <1>4, <1>5, <1>6, <1>7, <1>8, <1>9, <1>10, <1>11 DEF MainLoop

\* Polling, errors and crashes do not end a run, and engage nobody.
LEMMA PollEnds ==
  ASSUME ControlTyped, NEW w \in Workers, PollThread(w) \/ Breaks(w) \/ Crash(w)
  PROVE  Stands /\ (Engaged(worker'[w]) => Engaged(worker[w]))
<1> DEFINE u == worker[w]
           s == worker'[w]
<1>w. worker \in [Workers -> WorkerState] /\ u \in WorkerState
  BY DEF ControlTyped, TypeOK
<1>1. Stands
  BY DEF PollThread, PollCancel, PollPause, SyncDurablePause, Renew, RenewLease, Breaks, Crash,
     storeVars, Stands
<1>2. \/ UNCHANGED worker
      \/ s = [u EXCEPT !.cancel = TRUE]
      \/ \E k : s = [u EXCEPT !.pause = k]
      \/ u.pc \in Polled \ {"stop"}
      \/ s = IdleWorker
  BY <1>w DEF PollThread, PollCancel, PollPause, SyncDurablePause, Renew, Breaks, Crash, Become,
     controlVars
<1>3. \/ s.pc = u.pc /\ s.buf = u.buf
      \/ u.pc \in Polled \ {"stop"}
      \/ s = IdleWorker
  BY <1>2, <1>w DEF WorkerState
<1>4. QED
  BY <1>1, <1>3 DEF IdleWorker, Engaged, Active, Polled

\* The control plane ends a run that waits, or whose lease has expired.
LEMMA OtherEnds ==
  ASSUME \/ \E m \in Messages : Publish(m)
         \/ RedisLosesData
         \/ UserRequest
         \/ LeaseTimeout
         \/ Reconcile
  PROVE  \/ Stands \/ Unended
         \/ /\ Finishes
            /\ \/ status \in {"QUEUED", "WAITING_PERMISSION"}
               \/ status \in {"RUNNING", "PAUSE_REQUESTED"} /\ lease = "expired"
<1>1. CASE (\E m \in Messages : Publish(m)) \/ RedisLosesData
  BY <1>1 DEF Publish, RedisLosesData, storeVars, Stands
<1>2. CASE UserRequest
  BY <1>2 DEF UserRequest, UserStep, CancelRun, PauseRun, ResumeRun, Decide, Stands, Unended,
     Terminal, Cancelling
<1>3. CASE LeaseTimeout
  BY <1>3 DEF LeaseTimeout, LeaseExpires, Stands
<1>4. CASE Reconcile
  <2>1. ASSUME NEW n \in Turns, ExpirePermission(n)
        PROVE  Stands \/ (Finishes /\ status = "WAITING_PERMISSION")
    BY <2>1 DEF ExpirePermission, FailClosed, Stands, Finishes, Terminal
  <2>2. CASE ConfirmPause \/ RescheduleRun
    BY <2>2 DEF ConfirmPause, RescheduleRun, Expired, Park, Unended, Terminal
  <2>3. CASE FailExpiredRun
    BY <2>3 DEF FailExpiredRun, Expired, FailClosed, Finishes, Terminal
  <2>4. CASE RequeueRun \/ FailQueuedRun
    BY <2>4 DEF RequeueRun, FailQueuedRun, Stands, Finishes, Terminal
  <2>5. QED
    BY <1>4, <2>1, <2>2, <2>3, <2>4 DEF Reconcile
<1>5. QED
  BY <1>1, <1>2, <1>3, <1>4

\* Every step ends the run once at most.
LEMMA EndStep ==
  ControlTyped /\ ExclusiveInv /\ EndInv /\ [ControlNext]_vars => EndInv'
<1> SUFFICES ASSUME ControlTyped, ExclusiveInv, EndInv, [ControlNext]_vars PROVE EndInv'
  OBVIOUS
<1>s. env'.slow = env.slow
  BY EffectsByRunTool DEF vars, controlVars
<1> SUFFICES ASSUME ~ env.slow, OneWorker PROVE EndsOnce'
  BY <1>s DEF EndInv, OneWorker
<1>h. /\ Exclusive /\ CancelsAsked /\ CancelStands
      /\ \A w \in Workers : Engaged(worker[w]) => status \notin Terminal
      /\ IF status \in Terminal THEN ended = 1 /\ task = status ELSE ended = 0
  BY DEF EndInv, EndsOnce, ExclusiveInv, Engaged, ControlTyped, StoreInv
<1>1. ASSUME \/ Stands /\ \A w \in Workers : Engaged(worker'[w]) => status \notin Terminal
             \/ Unended
             \/ Finishes /\ \A w \in Workers : ~ Engaged(worker'[w])
      PROVE  EndsOnce'
  <2> DEFINE Counted == IF status \in Terminal THEN ended = 1 /\ task = status ELSE ended = 0
             Working(v) == Active(worker[v]) \/ worker[v].pc = "cancelled"
  <2>1. \A w \in Workers : Working(w)' => Engaged(worker'[w])
    BY DEF Engaged, Active, Polled
  <2>2. CASE Stands /\ \A w \in Workers : Engaged(worker'[w]) => status \notin Terminal
    <3>1. Counted'
      BY <2>2, <1>h DEF Stands
    <3>2. \A w \in Workers : Working(w)' => status' \notin Terminal
      BY <2>1, <2>2 DEF Stands
    <3>3. QED
      BY <3>1, <3>2 DEF EndsOnce, Terminal
  <2>3. CASE Unended
    BY <2>3, <1>h DEF Unended, EndsOnce, Terminal
  <2>4. CASE Finishes /\ \A w \in Workers : ~ Engaged(worker'[w])
    <3>1. Counted'
      BY <2>4, <1>h DEF Finishes, Terminal
    <3>2. QED
      BY <2>1, <2>4, <3>1 DEF EndsOnce, Terminal
  <2>5. QED
    BY <1>1, <2>2, <2>3, <2>4
<1>2. CASE UNCHANGED vars
  BY <1>1, <1>2, <1>h DEF vars, controlVars, storeVars, Stands
<1>3. ASSUME NEW w \in Workers, AgentLoop(w) PROVE EndsOnce'
  <2>1. Engaged(worker[w])
    BY <1>3 DEF AgentLoop, CancelSeen, Stop, SafePoint, StartRun, LoadCheckpoint, ResumeAgain,
       CallModel, ModelAnswers, ModelFails, FinishRun, ChooseTool, StartTool, AskUser, RunTool,
       ObserveResult, ToolFails, Resolve, Flush, Flushing, EndRun, PauseRaises, FailBroken,
       At, Engaged, Active, Polled
  <2>2. QED
    BY <1>1, <1>3, <1>h, <2>1, LoopEnds DEF OneWorker
<1>4. ASSUME NEW w \in Workers, MainLoop(w) PROVE EndsOnce'
  BY <1>1, <1>4, MainEnds DEF OneWorker
<1>5. ASSUME NEW w \in Workers, PollThread(w) \/ Breaks(w) \/ Crash(w) PROVE EndsOnce'
  BY <1>1, <1>5, <1>h, PollEnds DEF OneWorker
<1>6. ASSUME \/ \E m \in Messages : Publish(m)
             \/ RedisLosesData
             \/ UserRequest
             \/ LeaseTimeout
             \/ Reconcile
      PROVE  EndsOnce'
  <2>1. UNCHANGED worker
    BY <1>6, OtherMoves
  <2>2. ASSUME \/ status \in {"QUEUED", "WAITING_PERMISSION"}
               \/ status \in {"RUNNING", "PAUSE_REQUESTED"} /\ lease = "expired",
               NEW w \in Workers
        PROVE  ~ Engaged(worker[w])
    BY <1>h, <2>2 DEF Exclusive, CancelsAsked, CancelStands, Engaged, Terminal, Cancelling
  <2>3. QED
    BY <1>1, <1>6, <1>h, <2>1, <2>2, OtherEnds
<1>7. QED
  BY <1>2, <1>3, <1>4, <1>5, <1>6 DEF ControlNext

\* A run that waits for its first claim has not ended.
LEMMA EndInit == ControlInit => EndInv
BY DEF ControlInit, StoreInit, IdleWorker, Active, Polled, Terminal, EndInv, EndsOnce

\* The run ends once, and nobody works on it afterwards, with a single worker that keeps its
\* lease.
THEOREM EndsAlways == ControlSpec => []EndInv
BY EndInit, EndStep, ControlTypedAlways, ExclusiveAlways, PTL DEF ControlSpec

\* One terminal event, and the task ends as the run did.
THEOREM EndsOneTime == ControlSpec => []OneEnd
<1>1. EndInv => OneEnd
  BY DEF EndInv, EndsOnce, OneEnd
<1>2. QED
  BY EndsAlways, <1>1, PTL

\* No tool of a run that has ended is executed.
THEOREM EffectsEnd == ControlSpec => NoEffectAfterEnd
<1> DEFINE A == ~ env.slow /\ OneWorker /\ effects' # effects => status \notin Terminal
<1>1. ControlTyped /\ EndInv /\ [ControlNext]_vars => [A]_vars
  <2> SUFFICES ASSUME ControlTyped, EndInv, ControlNext, ~ env.slow, OneWorker,
                      effects' # effects
               PROVE  status \notin Terminal
    OBVIOUS
  <2>1. PICK w \in Workers : RunTool(w)
    BY EffectsByRunTool
  <2>2. Active(worker[w])
    BY <2>1 DEF RunTool, At, Active, Polled
  <2>3. QED
    BY <2>2 DEF EndInv, EndsOnce
<1>2. QED
  BY <1>1, EndsAlways, ControlTypedAlways, PTL DEF ControlSpec, NoEffectAfterEnd

=============================================================================
