---------------------------- MODULE EventStream ----------------------------
(***************************************************************************)
(* The way of a run's events to the screen.  Durable events are recorded   *)
(* in PostgreSQL and reach the Redis stream runtime-event through the      *)
(* outbox; deltas go to the stream only.  The gateway's event pump reads   *)
(* the stream through a consumer group into a per-process memory bus; the  *)
(* SSE handler merges PostgreSQL history and memory, and the browser's     *)
(* run store projects what arrives.  One run, one gateway, one page.       *)
(***************************************************************************)
EXTENDS Naturals, Sequences

CONSTANTS Script,         \* kinds of the run's events, in timestamp order
          BatchSize,      \* eventPumpBatchSize
          MaxDeliveries,  \* eventPumpMaxDeliveries
          MaxFaults       \* bound on crashes, drops, losses and reloads

EventKinds == {"created", "required", "resolved", "delta", "progress", "completed"}

ASSUME StreamAssumption ==
  /\ Script \in Seq(EventKinds) /\ Len(Script) > 0 /\ Script[1] = "created"
  /\ BatchSize \in Nat \ {0} /\ MaxDeliveries \in Nat \ {0} /\ MaxFaults \in Nat

Events == 1 .. Len(Script)
Ends == {e \in Events : Script[e] = "completed"}
DurableEvents == {e \in Events : Script[e] # "delta"}
Malformed == 0      \* a stream entry that does not decode

VARIABLES
  recorded,   \* events 1..recorded have happened
  outbox,     \* durable events not yet published to the stream
  stream,     \* entries of runtime-event, oldest first
  group,      \* consumer group: [made, read, pel]; pel: entry -> deliveries
  quarantine, \* entries moved to the dead letter stream, by content
  reply,      \* the create-task response still has to seed the memory bus
  mem,        \* memory bus: [run |-> adopted?, ev |-> events, each id once]
  pump,       \* deliveries the pump holds, and its step with the first
  conn,       \* SSE handler: [phase, hist, sent]
  wire,       \* what passes of the handler wrote, not yet read by the page
  client,     \* the page's run store
  faults

vars == <<recorded, outbox, stream, group, quarantine, reply, mem, pump, conn,
          wire, client, faults>>
redis == <<stream, group, quarantine>>
page == <<conn, wire, client>>

NoMem == [run |-> FALSE, ev |-> {}]
IdlePump == [todo |-> <<>>, step |-> "append"]
NoConn == [phase |-> "off", hist |-> {}, sent |-> {}]
FreshPage == [seen |-> {}, status |-> "created", seq |-> 0, text |-> <<>>,
              last |-> 0, src |-> "open"]

Init ==
  /\ recorded = 1 /\ outbox = {1} /\ stream = <<>>
  /\ group = [made |-> TRUE, read |-> 0, pel |-> <<>>]
  /\ quarantine = {} /\ reply = TRUE /\ mem = NoMem /\ pump = IdlePump
  /\ conn = NoConn /\ wire = <<>> /\ client = FreshPage
  /\ faults = 0

History == {e \in DurableEvents : e <= recorded}
Fault == faults < MaxFaults /\ faults' = faults + 1
Drop(f, i) == [j \in DOMAIN f \ {i} |-> f[j]]

-----------------------------------------------------------------------------
(* The worker side, as far as the stream sees it.                          *)

\* A durable event goes to PostgreSQL and the outbox in one transaction, a
\* delta straight to the stream.
Record ==
  LET e == recorded + 1 IN
  /\ recorded < Len(Script)
  /\ recorded' = e
  /\ IF e \in DurableEvents
       THEN outbox' = outbox \cup {e} /\ UNCHANGED stream
       ELSE stream' = Append(stream, e) /\ UNCHANGED outbox
  /\ UNCHANGED <<group, quarantine, reply, mem, pump, page, faults>>

\* The outbox publishes its rows in any order once a row had to be retried.
Publish(e) ==
  /\ e \in outbox
  /\ outbox' = outbox \ {e}
  /\ stream' = Append(stream, e)
  /\ UNCHANGED <<recorded, group, quarantine, reply, mem, pump, page,
                 faults>>

\* Something that is not a runtime event lands on the stream.
PublishMalformed ==
  /\ Fault
  /\ stream' = Append(stream, Malformed)
  /\ UNCHANGED <<recorded, outbox, group, quarantine, reply, mem, pump, page>>

\* The consumer group disappears, with or without the stream itself.
LoseGroup ==
  /\ Fault /\ group.made
  /\ group' = [made |-> FALSE, read |-> 0, pel |-> <<>>]
  /\ \/ stream' = <<>>
     \/ UNCHANGED stream
  /\ UNCHANGED <<recorded, outbox, quarantine, reply, mem, pump, page>>
-----------------------------------------------------------------------------
(* The gateway's event pump: one goroutine.                                *)

Head1 == pump.todo[1]
Delivery(i, n, r) == [entry |-> i, id |-> stream[i], count |-> n, reclaimed |-> r]
Next1 == [todo |-> Tail(pump.todo), step |-> "append"]

\* NOGROUP: the group is made again from entry 0.
RecreateGroup ==
  /\ pump.todo = <<>> /\ ~group.made
  /\ group' = [made |-> TRUE, read |-> 0, pel |-> <<>>]
  /\ UNCHANGED <<recorded, outbox, stream, quarantine, reply, mem, pump, page, faults>>

\* Faulty variant: the delivery limit is applied when claiming.
ClaimableWithin == {i \in DOMAIN group.pel : group.pel[i] < MaxDeliveries}

\* Pending entries grow idle until they may be claimed, whatever their count.
Claimable == DOMAIN group.pel

\* One stale pending entry is claimed and handled alone.
ClaimStale(i) ==
  /\ pump.todo = <<>> /\ group.made
  /\ i \in Claimable
  /\ LET n == group.pel[i] + 1 IN
     /\ group' = [group EXCEPT !.pel[i] = n]
     /\ pump' = [todo |-> <<Delivery(i, n, TRUE)>>, step |-> "append"]
  /\ UNCHANGED <<recorded, outbox, stream, quarantine, reply, mem, page,
                 faults>>

ReadBatch ==
  /\ pump.todo = <<>> /\ group.made
  /\ group.read < Len(stream)
  /\ LET upTo == IF group.read + BatchSize < Len(stream)
                   THEN group.read + BatchSize ELSE Len(stream)
         new  == group.read + 1 .. upTo
     IN /\ group' = [group EXCEPT !.read = upTo,
                       !.pel = [i \in DOMAIN @ \cup new |->
                                  IF i \in new THEN 1 ELSE @[i]]]
        /\ pump' = [todo |-> [k \in 1 .. upTo - group.read |->
                                Delivery(group.read + k, 1, FALSE)],
                    step |-> "append"]
  /\ UNCHANGED <<recorded, outbox, stream, quarantine, reply, mem, page,
                 faults>>

Acked == IF Head1.entry \in DOMAIN group.pel
           THEN [group EXCEPT !.pel = Drop(@, Head1.entry)] ELSE group

\* An entry goes to the dead letter stream and is acknowledged in one script.
DeadLetter ==
  /\ quarantine' = quarantine \cup {Head1.id}
  /\ group' = Acked
  /\ pump' = Next1

RejectMalformed ==
  /\ pump.todo # <<>> /\ Head1.id = Malformed
  /\ DeadLetter
  /\ UNCHANGED <<recorded, outbox, stream, reply, mem, page, faults>>

\* The memory bus takes the event if it knows the run, each id once.
AppendToMemory ==
  /\ pump.todo # <<>> /\ Head1.id # Malformed /\ pump.step = "append"
  /\ IF mem.run
       THEN /\ mem' = [mem EXCEPT !.ev = @ \cup {Head1.id}]
            /\ pump' = [pump EXCEPT !.step = "ack"]
       ELSE pump' = [pump EXCEPT !.step = "load"] /\ UNCHANGED mem
  /\ UNCHANGED <<recorded, outbox, redis, reply, page, faults>>

\* The control plane confirms the run: an empty projection is seeded and the
\* event appended after it.
LoadProjection ==
  /\ pump.todo # <<>> /\ pump.step = "load"
  /\ mem' = [run |-> TRUE, ev |-> {}]
  /\ pump' = [pump EXCEPT !.step = "append"]
  /\ UNCHANGED <<recorded, outbox, redis, reply, page, faults>>

Exhausted == Head1.reclaimed /\ Head1.count >= MaxDeliveries

\* The control plane does not answer: the entry stays pending, and after its
\* last delivery it is quarantined.
LoadFails ==
  /\ pump.todo # <<>> /\ pump.step = "load"
  /\ IF Exhausted
       THEN DeadLetter
       ELSE pump' = Next1 /\ UNCHANGED <<group, quarantine>>
  /\ UNCHANGED <<recorded, outbox, stream, reply, mem, page, faults>>

Ack ==
  /\ pump.todo # <<>> /\ pump.step = "ack"
  /\ group' = Acked /\ pump' = Next1
  /\ UNCHANGED <<recorded, outbox, stream, quarantine, reply, mem, page,
                 faults>>

\* A failed acknowledgement abandons the rest of the batch, still pending.
AckFails ==
  /\ Fault
  /\ pump.todo # <<>> /\ pump.step = "ack"
  /\ pump' = IdlePump
  /\ UNCHANGED <<recorded, outbox, redis, reply, mem, page>>
-----------------------------------------------------------------------------
(* The gateway's HTTP handlers.                                            *)

\* The reply to create-task seeds the run with its first event.
SeedAcceptedRun ==
  /\ reply /\ reply' = FALSE
  /\ mem' = [run |-> TRUE, ev |-> {1}]
  /\ UNCHANGED <<recorded, outbox, redis, pump, page, faults>>

\* The page (re)connects; the persisted history is read first.
OpenEvents ==
  /\ client.src = "open" /\ conn.phase = "off" /\ wire = <<>>
  /\ conn' = [phase |-> "opening", hist |-> History, sent |-> {}]
  /\ UNCHANGED <<recorded, outbox, redis, reply, mem, pump, wire, client, faults>>

\* The history cannot be read: a 503 closes an EventSource for good.
OpenRefused ==
  /\ Fault
  /\ client.src = "open" /\ conn.phase = "off" /\ wire = <<>>
  /\ client' = [client EXCEPT !.src = "closed"]
  /\ UNCHANGED <<recorded, outbox, redis, reply, mem, pump, conn, wire>>

\* The events of S up to the first that ends the run.
Unseen(S) == {e \in S : \A f \in S \cap Ends : e <= f}

Frame(e, H) == [e |-> e, seq |-> IF e \in H THEN e ELSE 0]

\* What one pass over the events S (H of them from history) writes, in timestamp
\* order: the page reads the smallest first.  Every one is marked sent; after an
\* end nothing more is written and the stream closes.
Write(S, H, sent) ==
  /\ wire' = IF Unseen(S \ sent) = {} THEN wire
             ELSE Append(wire, {Frame(e, H) : e \in Unseen(S \ sent)})
  /\ conn' = IF (S \cup sent) \cap Ends # {} THEN NoConn
             ELSE [phase |-> "live", hist |-> {}, sent |-> S \cup sent]

\* Faulty variant: resumes one event too far.
SkippedTooFar(S) ==
  IF client.last \in S THEN {e \in S : e <= client.last + 1} ELSE {}

\* The first pass: history and memory merged; with Last-Event-ID everything
\* before that event counts as sent.
Skipped(S) == IF client.last \in S THEN {e \in S : e <= client.last} ELSE {}

WriteSnapshot ==
  /\ conn.phase = "opening"
  /\ LET S == conn.hist \cup mem.ev
         k == Skipped(S)
     IN IF k \cap Ends # {} THEN conn' = NoConn /\ UNCHANGED wire
        ELSE Write(S, conn.hist, k)
  /\ UNCHANGED <<recorded, outbox, redis, reply, mem, pump, client,
                 faults>>

RealtimeTick ==
  /\ conn.phase = "live" /\ mem.run
  /\ Write(mem.ev, {}, conn.sent)
  /\ UNCHANGED <<recorded, outbox, redis, reply, mem, pump, client,
                 faults>>

\* Faulty variant: history only completes what memory holds.
HistoryTickOfMemory ==
  /\ conn.phase = "live" /\ mem.run
  /\ Write(History \cap mem.ev, History, conn.sent)
  /\ UNCHANGED <<recorded, outbox, redis, reply, mem, pump, client, faults>>

HistoryTick ==
  /\ conn.phase = "live"
  /\ Write(History, History, conn.sent)
  /\ UNCHANGED <<recorded, outbox, redis, reply, mem, pump, client,
                 faults>>

\* The connection breaks; what was written and not read is lost.
DropConnection ==
  /\ Fault
  /\ conn.phase # "off" \/ wire # <<>>
  /\ conn' = NoConn /\ wire' = <<>>
  /\ UNCHANGED <<recorded, outbox, redis, reply, mem, pump, client>>

\* The gateway process restarts.
RestartGateway ==
  /\ Fault
  /\ reply' = FALSE /\ mem' = NoMem /\ pump' = IdlePump
  /\ conn' = NoConn /\ wire' = <<>>
  /\ UNCHANGED <<recorded, outbox, redis, client>>
-----------------------------------------------------------------------------
(* The page: EventSource, run store, permission store.                     *)

\* The status a kind of event sets.
Project(c, e) ==
  CASE Script[e] = "required"  -> [c EXCEPT !.status = "waiting"]
    [] Script[e] = "resolved"  -> [c EXCEPT !.status = "running"]
    [] Script[e] = "completed" -> [c EXCEPT !.status = "completed", !.src = "none"]
    [] Script[e] = "delta"     -> [c EXCEPT !.text = Append(@, e)]
    [] OTHER                   -> c

\* appendEvent: drop duplicates, keep the event, then project it unless the
\* run has ended or a later durable event was projected.
AppendEvent(c, e, seq) ==
  LET kept == [c EXCEPT !.seen = @ \cup {e}]
  IN IF e \in c.seen THEN c
     ELSE IF c.status = "completed" THEN kept
     ELSE IF seq > 0 /\ seq <= c.seq THEN kept
     ELSE Project([kept EXCEPT !.seq = IF seq > 0 THEN seq ELSE @], e)

Earliest(f) == \A g \in wire[1] : f.e <= g.e

Without(f) == IF wire[1] = {f} THEN Tail(wire) ELSE [wire EXCEPT ![1] = @ \ {f}]

\* onmessage.  A page that unsubscribed has closed its EventSource.
Receive ==
  /\ wire # <<>>
  /\ \E f \in wire[1] :
       /\ Earliest(f)
       /\ client' = AppendEvent([client EXCEPT !.last = f.e], f.e, f.seq)
       /\ IF client'.src = "open" THEN wire' = Without(f) /\ UNCHANGED conn
          ELSE wire' = <<>> /\ conn' = NoConn
  /\ UNCHANGED <<recorded, outbox, redis, reply, mem, pump, faults>>

\* The user selects the run again: a new EventSource, the stores stay.
Resubscribe ==
  /\ Fault
  /\ client' = [client EXCEPT !.src = "open", !.last = 0]
  /\ conn' = NoConn /\ wire' = <<>>
  /\ UNCHANGED <<recorded, outbox, redis, reply, mem, pump>>

\* The page is loaded anew.
ReloadPage ==
  /\ Fault
  /\ client' = FreshPage /\ conn' = NoConn /\ wire' = <<>>
  /\ UNCHANGED <<recorded, outbox, redis, reply, mem, pump>>
-----------------------------------------------------------------------------
PumpStep == \/ RecreateGroup \/ ReadBatch \/ RejectMalformed
            \/ AppendToMemory \/ LoadProjection \/ LoadFails \/ Ack
            \/ \E i \in Claimable : ClaimStale(i)

PageStep == OpenEvents \/ WriteSnapshot \/ RealtimeTick \/ HistoryTick \/ Receive

Next ==
  \/ Record \/ PublishMalformed \/ LoseGroup
  \/ \E e \in outbox : Publish(e)
  \/ PumpStep \/ AckFails
  \/ SeedAcceptedRun \/ OpenRefused \/ DropConnection \/ RestartGateway
  \/ PageStep
  \/ Resubscribe \/ ReloadPage

\* The pump loop and the handler's tickers run as long as the process does;
\* the browser reconnects and reads by itself; the outbox is Outbox.tla's.
Fairness ==
  /\ WF_vars(PumpStep)
  /\ WF_vars(OpenEvents) /\ WF_vars(WriteSnapshot) /\ WF_vars(Receive)
  /\ WF_vars(HistoryTick) /\ WF_vars(\E e \in outbox : Publish(e))

Spec == Init /\ [][Next]_vars /\ Fairness
-----------------------------------------------------------------------------
TypeOK ==
  /\ recorded \in Events /\ outbox \subseteq DurableEvents
  /\ stream \in Seq(Events \cup {Malformed})
  /\ group.made \in BOOLEAN /\ group.read \in 0 .. Len(stream)
  /\ DOMAIN group.pel \subseteq 1 .. group.read
  /\ mem.run \in BOOLEAN /\ mem.ev \subseteq Events
  /\ pump.step \in {"append", "load", "ack"}
  /\ conn.phase \in {"off", "opening", "live"} /\ conn.sent \subseteq Events
  /\ client.seen \subseteq Events /\ client.src \in {"none", "open", "closed"}
  /\ client.status \in {"created", "waiting", "running", "completed"}

\* What the handler counts as sent has reached the page, or is on the wire, or
\* was overtaken by a later event the page did receive: a reconnect with
\* Last-Event-ID skips nothing else, whatever was lost on the old connection.
SentIsAccountedFor ==
  conn.phase = "live" =>
    \A e \in conn.sent :
      \/ e \in client.seen
      \/ \E i \in DOMAIN wire : \E f \in wire[i] : f.e = e
      \/ \E f \in client.seen : f > e

\* In the end the group has read the stream and nothing is pending: each entry
\* was appended, or quarantined after its last failed delivery.
PumpDrains == <>[](group.read = Len(stream) /\ group.pel = <<>>)

\* The page implements the promise of AbstractStream: the memory bus, the
\* pump and the stream may lose and repeat anything, the end is still shown.
Viewer == INSTANCE AbstractStream WITH
  known <- 1 .. recorded,
  shown <- client.seen,
  ended <- client.status = "completed",
  link  <- IF client.src = "closed" THEN "closed" ELSE "up"
ViewerSpec == Viewer!ASpec

\* After a run's end was shown the page stops asking for its events
\* (runStore.ts:155: "terminal event 到达后主动关闭该 run 的 EventSource").
SubscriptionEnds ==
  (client.status = "completed") ~>
    (client.src # "open" \/ client.status # "completed")

=============================================================================
