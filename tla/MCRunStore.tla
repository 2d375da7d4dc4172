----------------------------- MODULE MCRunStore -----------------------------
(***************************************************************************)
(* Three views of one run: its row, with every transaction called by       *)
(* anybody; the worker and the services that drive it, under fairness; and *)
(* the way of its events to the screen.  `part` gives work to one and lets *)
(* the others be, which share no variable with it that it reads.           *)
(***************************************************************************)
EXTENDS RunStore, EventStream

VARIABLES part, bus, tries, worker, effects, env

\* The drivers of a run of one turn without approval, which keep their leases; three
\* resume jobs.
Control == INSTANCE RunControl WITH
  MaxResumes <- 3, NeedsApproval <- {}, MaxSlowFaults <- 0, SlowWorkers <- {FALSE},
  FlushFaults <- TRUE

\* A delta between two durable events.
MCScript == <<"created", "delta", "completed">>

\* Bound: messages that anybody made, and messages and events that were consumed.
FewMessages ==
  part = "store" => /\ Cardinality(seen) <= 2 /\ Cardinality(made) <= 3
                    /\ Cardinality(seen) + Cardinality(made) <= 4

PartsInit == part \in {"store", "drivers", "stream"} /\ Control!ControlInit /\ Init

PartsNext ==
  \/ part = "store" /\ StoreNext /\ UNCHANGED <<part, bus, tries, worker, effects, env, vars>>
  \/ part = "drivers" /\ Control!ControlNext /\ UNCHANGED <<part, vars>>
  \/ part = "stream" /\ Next /\ UNCHANGED <<part, storeVars, bus, tries, worker, effects, env>>

\* The fairness of EventStream, and of RunControl, while they have work.
PartsFairness ==
  /\ WF_vars(part = "stream" /\ PumpStep) /\ WF_vars(part = "stream" /\ OpenEvents)
  /\ WF_vars(part = "stream" /\ WriteSnapshot) /\ WF_vars(part = "stream" /\ Receive)
  /\ WF_vars(part = "stream" /\ HistoryTick)
  /\ WF_vars(part = "stream" /\ \E e \in outbox : Publish(e))
  /\ WF_(Control!vars)(part = "drivers" /\ \E m \in Control!Messages : Control!Publish(m))
  /\ WF_(Control!vars)(part = "drivers" /\ Control!LeaseTimeout)
  /\ WF_(Control!vars)(part = "drivers" /\ Control!Reconcile)
  /\ \A w \in Workers : /\ WF_(Control!vars)(part = "drivers" /\ Control!MainLoop(w))
                        /\ WF_(Control!vars)(part = "drivers" /\ Control!AgentLoop(w))
                        /\ WF_(Control!vars)(part = "drivers" /\ Control!PollThread(w))

PartsSpec ==
  PartsInit /\ [][PartsNext]_<<part, Control!vars, vars>> /\ PartsFairness

\* Whoever crashes and whatever Redis loses, the drivers leave no run queued, running
\* or about to pause for ever (RunControl's RunsMoveOn; reconcile_stale_queued_runs,
\* reconcile_expired_runs, worker.py:525).
RunsMoveOn == part = "drivers" => Control!RunsMoveOn
=============================================================================
