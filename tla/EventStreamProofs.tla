------------------------- MODULE EventStreamProofs -------------------------
(***************************************************************************)
(* Theorems about EventStream, for any script of events, batch size, limit *)
(* of deliveries and number of faults.                                     *)
(***************************************************************************)
EXTENDS EventStream, SequenceTheorems, TLAPS

Past == 1 .. recorded

Deliveries == [entry : Nat, id : Nat, count : Nat, reclaimed : BOOLEAN]

\* The worker's side and the pump: what is on its way has happened.
PumpInv ==
  /\ recorded \in Events
  /\ outbox \subseteq DurableEvents \cap Past
  /\ stream \in Seq(Nat) /\ \A i \in DOMAIN stream : stream[i] \in 0 .. recorded
  /\ group \in [made : BOOLEAN, read : 0 .. Len(stream), pel : {group.pel}]
  /\ group.pel \in [DOMAIN group.pel -> Nat] /\ DOMAIN group.pel \subseteq 1 .. group.read
  /\ mem \in [run : BOOLEAN, ev : SUBSET Past]
  /\ pump \in [todo : Seq(Deliveries), step : {"append", "load", "ack"}]
  /\ \A k \in DOMAIN pump.todo : pump.todo[k].id \in 0 .. recorded

NoEndBefore(e) == \A x \in Ends : e <= x

\* A frame carries an event that has happened; it has the event's number only if
\* it comes from history, which never runs past the first end.
Frames == {f \in [e : Past, seq : Nat] : f.seq = 0 \/ (f.seq = f.e /\ NoEndBefore(f.e))}

\* History, as the handler has read it, lacks nothing before what it has.
HistoryIsWhole ==
  \A e \in conn.hist, d \in DurableEvents : d < e => d \in conn.hist

\* The connection and the page.
PageInv ==
  /\ conn \in [phase : {"off", "opening", "live"}, hist : SUBSET (DurableEvents \cap Past),
               sent : SUBSET Past]
  /\ HistoryIsWhole
  /\ conn.sent \cap Ends = {}
  /\ wire \in Seq(SUBSET Frames)
  /\ client \in [seen : SUBSET Past,
                 status : {"created", "waiting", "running", "completed"},
                 seq : Nat, text : Seq(Nat), last : Nat, src : {"none", "open", "closed"}]
  /\ client.last \in client.seen \cup {0} /\ client.seq \in client.seen \cup {0}
  /\ client.seq > 0 => NoEndBefore(client.seq)
  /\ client.src # "open" => conn.phase = "off" /\ wire = <<>>

StreamInv == PumpInv /\ PageInv /\ SentIsAccountedFor

-----------------------------------------------------------------------------
\* Events are positive numbers, and an end of the run is durable.
LEMMA EventFacts ==
  /\ Ends \subseteq DurableEvents /\ DurableEvents \subseteq Events
  /\ Len(Script) \in Nat /\ 1 \in DurableEvents
  /\ \A e \in Events : e \in Nat /\ e > 0 /\ Script[e] \in EventKinds
  BY StreamAssumption DEF Events, Ends, DurableEvents, EventKinds

\* What an appended entry changes.
LEMMA Appended ==
  ASSUME NEW s \in Seq(Nat), NEW e \in Nat
  PROVE  /\ Append(s, e) \in Seq(Nat) /\ Len(s) <= Len(Append(s, e))
         /\ \A i \in DOMAIN Append(s, e) :
              Append(s, e)[i] = e \/ (i \in DOMAIN s /\ Append(s, e)[i] = s[i])
  OBVIOUS

\* Recording and publishing (_publish_or_persist, publish_once) and what faults do
\* to the stream keep the worker's side in order.
LEMMA RecordKeepsPump ==
  ASSUME PumpInv,
         \/ Record \/ PublishMalformed \/ LoseGroup \/ \E e \in outbox : Publish(e)
  PROVE  PumpInv' /\ Past \subseteq Past'
<1> USE EventFacts DEF PumpInv, Past, page
<1>1. CASE Record
  <2>1. recorded + 1 \in Events /\ recorded' = recorded + 1
    BY <1>1, StreamAssumption DEF Record, Events
  <2>2. UNCHANGED <<group, mem, pump>>
    BY <1>1 DEF Record
  <2>3. outbox' \subseteq DurableEvents \cap 1 .. recorded'
    BY <1>1, <2>1 DEF Record, Events
  <2>4. /\ stream' \in Seq(Nat) /\ Len(stream) <= Len(stream')
        /\ \A i \in DOMAIN stream' : stream'[i] \in 0 .. recorded'
    <3>1. stream' = stream \/ stream' = Append(stream, recorded')
      BY <1>1, <2>1 DEF Record
    <3>2. recorded' \in Nat /\ recorded \in Nat /\ recorded <= recorded'
      BY <2>1 DEF Events
    <3>3. \A i \in DOMAIN stream : stream[i] \in 0 .. recorded'
      BY <3>2
    <3>4. CASE stream' = stream
      BY <3>3, <3>4
    <3>5. CASE stream' = Append(stream, recorded')
      BY <3>2, <3>3, <3>5, Appended
    <3>6. QED
      BY <3>1, <3>4, <3>5
  <2>5. group' \in [made : BOOLEAN, read : 0 .. Len(stream'), pel : {group'.pel}]
    <3>1. Len(stream) \in Nat /\ Len(stream') \in Nat
      BY <2>4
    <3>2. 0 .. Len(stream) \subseteq 0 .. Len(stream')
      BY <2>4, <3>1
    <3>3. QED
      BY <2>2, <3>2
  <2>6. 0 .. recorded \subseteq 0 .. recorded' /\ recorded' \in Events
    BY <2>1 DEF Events
  <2>7. QED
    BY <2>2, <2>3, <2>4, <2>5, <2>6
<1>2. ASSUME NEW e \in outbox, Publish(e) PROVE PumpInv' /\ Past \subseteq Past'
  <2>1. e \in Nat /\ e \in 0 .. recorded
    BY DEF Events
  <2>2. UNCHANGED <<recorded, group, mem, pump>> /\ outbox' \subseteq outbox
    BY <1>2 DEF Publish
  <2>3. /\ stream' \in Seq(Nat) /\ Len(stream) <= Len(stream')
        /\ \A i \in DOMAIN stream' : stream'[i] \in 0 .. recorded
    <3>1. stream' = stream \/ stream' = Append(stream, e)
      BY <1>2 DEF Publish
    <3>2. CASE stream' = stream
      BY <3>2
    <3>3. CASE stream' = Append(stream, e)
      BY <2>1, <3>3, Appended
    <3>4. QED
      BY <3>1, <3>2, <3>3
  <2>4. group' \in [made : BOOLEAN, read : 0 .. Len(stream'), pel : {group'.pel}]
    <3>1. Len(stream) \in Nat /\ Len(stream') \in Nat
      BY <2>3
    <3>2. 0 .. Len(stream) \subseteq 0 .. Len(stream')
      BY <2>3, <3>1
    <3>3. QED
      BY <2>2, <3>2
  <2>5. QED
    BY <2>2, <2>3, <2>4
<1>3. CASE PublishMalformed
  <2>1. UNCHANGED <<recorded, outbox, group, mem, pump>>
    BY <1>3 DEF PublishMalformed
  <2>2. /\ stream' \in Seq(Nat) /\ Len(stream) <= Len(stream')
        /\ \A i \in DOMAIN stream' : stream'[i] \in 0 .. recorded
    <3>1. stream' = Append(stream, Malformed)
      BY <1>3 DEF PublishMalformed
    <3>2. Malformed \in Nat /\ Malformed \in 0 .. recorded
      BY DEF Malformed, Events
    <3>3. QED
      BY <3>1, <3>2, Appended
  <2>3. group' \in [made : BOOLEAN, read : 0 .. Len(stream'), pel : {group'.pel}]
    <3>1. Len(stream) \in Nat /\ Len(stream') \in Nat
      BY <2>2
    <3>2. 0 .. Len(stream) \subseteq 0 .. Len(stream')
      BY <2>2, <3>1
    <3>3. QED
      BY <2>1, <3>2
  <2>4. QED
    BY <2>1, <2>2, <2>3
<1>4. CASE LoseGroup
  <2>1. /\ UNCHANGED <<recorded, outbox, mem, pump>> /\ stream' \in {stream, <<>>}
        /\ group' = [made |-> FALSE, read |-> 0, pel |-> <<>>]
    BY <1>4 DEF LoseGroup
  <2>2. <<>> \in [DOMAIN <<>> -> Nat] /\ DOMAIN <<>> = {}
    OBVIOUS
  <2>3. stream' \in Seq(Nat) /\ \A i \in DOMAIN stream' : stream'[i] \in 0 .. recorded
    <3>1. CASE stream' = stream
      BY <2>1, <3>1
    <3>2. CASE stream' = <<>>
      BY <3>2
    <3>3. QED
      BY <2>1, <3>1, <3>2
  <2>4. QED
    BY <2>1, <2>2, <2>3
<1>5. QED
  BY <1>1, <1>2, <1>3, <1>4

\* The first and the rest of a sequence that is not empty.
LEMMA FirstAndRest ==
  ASSUME NEW T, NEW s \in Seq(T), s # <<>>
  PROVE  /\ s[1] \in T /\ 1 \in DOMAIN s /\ Tail(s) \in Seq(T)
         /\ \A k \in DOMAIN Tail(s) : k + 1 \in DOMAIN s /\ Tail(s)[k] = s[k + 1]
  OBVIOUS

\* What the pump does to its batch: the rest of it, or nothing.
LEMMA RestOfBatch ==
  ASSUME PumpInv, pump.todo # <<>>
  PROVE  /\ Next1 \in [todo : Seq(Deliveries), step : {"append", "load", "ack"}]
         /\ \A k \in DOMAIN Next1.todo : Next1.todo[k].id \in 0 .. recorded
         /\ Head1 \in Deliveries
         /\ Head1.id \in 0 .. recorded
<1>1. pump.todo \in Seq(Deliveries)
  BY DEF PumpInv
<1>2. /\ pump.todo[1] \in Deliveries /\ 1 \in DOMAIN pump.todo
      /\ Tail(pump.todo) \in Seq(Deliveries)
      /\ \A k \in DOMAIN Tail(pump.todo) :
           k + 1 \in DOMAIN pump.todo /\ Tail(pump.todo)[k] = pump.todo[k + 1]
  BY <1>1, FirstAndRest
<1>3. QED
  BY <1>2 DEF PumpInv, Next1, Head1

\* Acknowledging takes an entry out of the pending ones.
LEMMA AckedGroup ==
  ASSUME PumpInv, pump.todo # <<>>
  PROVE  /\ Acked \in [made : BOOLEAN, read : {group.read}, pel : {Acked.pel}]
         /\ Acked.pel \in [DOMAIN Acked.pel -> Nat]
         /\ DOMAIN Acked.pel \subseteq DOMAIN group.pel
  BY RestOfBatch DEF PumpInv, Acked, Drop

\* A function on 1 .. n is a sequence.
LEMMA FunctionIsSeq ==
  ASSUME NEW T, NEW n \in Nat, NEW f \in [1 .. n -> T]
  PROVE  f \in Seq(T) /\ DOMAIN f = 1 .. n
<1>1. [1 .. n -> T] \in {[1 .. m -> T] : m \in Nat}
  OBVIOUS
<1>2. f \in UNION {[1 .. m -> T] : m \in Nat}
  BY <1>1
<1>3. Seq(T) = UNION {[1 .. m -> T] : m \in Nat}
  BY SeqDef
<1>4. QED
  BY <1>2, <1>3

\* A batch ends within the stream, after the position it was read from.
LEMMA BatchEnd ==
  ASSUME NEW read \in Nat, NEW length \in Nat, NEW size \in Nat \ {0}, read < length
  PROVE  LET end == IF read + size < length THEN read + size ELSE length
         IN  end \in 0 .. length /\ read < end
  OBVIOUS

\* The pump's loop, and the answer that seeds the memory bus.
LEMMA PumpKeepsPump ==
  ASSUME PumpInv, PumpStep \/ AckFails \/ SeedAcceptedRun \/ RestartGateway
  PROVE  PumpInv' /\ recorded' = recorded
<1> USE EventFacts DEF PumpInv, Past, redis, page
<1>1. CASE RecreateGroup
  BY <1>1 DEF RecreateGroup
<1>2. CASE ReadBatch
  <2> DEFINE upTo == IF group.read + BatchSize < Len(stream)
                       THEN group.read + BatchSize ELSE Len(stream)
             new == group.read + 1 .. upTo
  <2>1. upTo \in 0 .. Len(stream) /\ group.read < upTo
    <3>1. group.read \in Nat /\ Len(stream) \in Nat /\ group.read < Len(stream)
      BY <1>2 DEF ReadBatch
    <3>2. BatchSize \in Nat \ {0}
      BY StreamAssumption
    <3>3. QED
      BY <3>1, <3>2, BatchEnd
  <2>2. /\ group'.made = group.made /\ group'.read = upTo
        /\ group'.pel = [i \in DOMAIN group.pel \cup new |->
                           IF i \in new THEN 1 ELSE group.pel[i]]
        /\ group' = [made |-> group'.made, read |-> group'.read, pel |-> group'.pel]
    BY <1>2 DEF ReadBatch
  <2>3. pump' = [todo |-> [k \in 1 .. upTo - group.read |-> Delivery(group.read + k, 1, FALSE)],
                 step |-> "append"]
    BY <1>2 DEF ReadBatch
  <2>4. UNCHANGED <<recorded, outbox, stream, mem>>
    BY <1>2 DEF ReadBatch
  <2> HIDE DEF upTo
  <2>5. /\ group'.pel \in [DOMAIN group'.pel -> Nat]
        /\ DOMAIN group'.pel \subseteq 1 .. group'.read
    BY <2>1, <2>2
  <2>6. \A k \in 1 .. upTo - group.read :
          /\ group.read + k \in DOMAIN stream
          /\ Delivery(group.read + k, 1, FALSE) \in Deliveries
          /\ Delivery(group.read + k, 1, FALSE).id \in 0 .. recorded
    <3> SUFFICES ASSUME NEW k \in 1 .. upTo - group.read
                 PROVE  /\ group.read + k \in DOMAIN stream
                        /\ Delivery(group.read + k, 1, FALSE) \in Deliveries
                        /\ Delivery(group.read + k, 1, FALSE).id \in 0 .. recorded
      OBVIOUS
    <3>1. group.read + k \in 1 .. Len(stream)
      BY <2>1
    <3>2. stream[group.read + k] \in Nat /\ stream[group.read + k] \in 0 .. recorded
      BY <3>1
    <3>3. QED
      BY <3>1, <3>2 DEF Delivery, Deliveries
  <2>7. /\ pump' \in [todo : Seq(Deliveries), step : {"append", "load", "ack"}]
        /\ \A k \in DOMAIN pump'.todo : pump'.todo[k].id \in 0 .. recorded
    <3> DEFINE batch == [k \in 1 .. upTo - group.read |-> Delivery(group.read + k, 1, FALSE)]
    <3>1. upTo - group.read \in Nat
      BY <2>1
    <3>2. batch \in Seq(Deliveries) /\ DOMAIN batch = 1 .. upTo - group.read
      <4> DEFINE n == upTo - group.read
      <4>1. batch \in [1 .. n -> Deliveries] /\ n \in Nat
        BY <2>6, <3>1
      <4> HIDE DEF n, batch
      <4>2. batch \in Seq(Deliveries) /\ DOMAIN batch = 1 .. n
        BY <4>1, FunctionIsSeq
      <4>3. QED
        BY <4>2 DEF n
    <3>3. \A k \in DOMAIN batch : batch[k].id \in 0 .. recorded
      BY <2>6, <3>2
    <3> HIDE DEF batch
    <3>4. pump' = [todo |-> batch, step |-> "append"]
      BY <2>3 DEF batch
    <3>5. QED
      BY <3>2, <3>3, <3>4
  <2>8. group' \in [made : BOOLEAN, read : 0 .. Len(stream), pel : {group'.pel}]
    BY <2>1, <2>2
  <2>9. QED
    BY <2>4, <2>5, <2>7, <2>8
<1>3. ASSUME NEW i \in Claimable, ClaimStale(i) PROVE PumpInv' /\ recorded' = recorded
  <2> DEFINE n == group.pel[i] + 1
  <2>1. i \in DOMAIN group.pel /\ i \in DOMAIN stream /\ n \in Nat
    BY DEF Claimable
  <2>2. /\ group' = [group EXCEPT !.pel[i] = n] /\ UNCHANGED <<recorded, outbox, stream, mem>>
        /\ pump' = [todo |-> <<Delivery(i, n, TRUE)>>, step |-> "append"]
    BY <1>3 DEF ClaimStale
  <2> HIDE DEF n
  <2>3. /\ Delivery(i, n, TRUE) \in Deliveries
        /\ Delivery(i, n, TRUE).id \in 0 .. recorded
    BY <2>1 DEF Delivery, Deliveries
  <2>4. /\ pump' \in [todo : Seq(Deliveries), step : {"append", "load", "ack"}]
        /\ \A k \in DOMAIN pump'.todo : pump'.todo[k].id \in 0 .. recorded
    <3> DEFINE d == Delivery(i, n, TRUE)
    <3> HIDE DEF d
    <3>1. d \in Deliveries /\ d.id \in 0 .. recorded
          /\ pump' = [todo |-> <<d>>, step |-> "append"]
      BY <2>2, <2>3 DEF d
    <3>2. <<d>> \in Seq(Deliveries) /\ DOMAIN <<d>> = {1} /\ <<d>>[1] = d
      BY <3>1
    <3>3. QED
      BY <3>1, <3>2
  <2>5. /\ group'.pel = [group.pel EXCEPT ![i] = n] /\ group'.read = group.read
        /\ group' \in [made : BOOLEAN, read : 0 .. Len(stream), pel : {group'.pel}]
    BY <2>2
  <2>6. /\ group'.pel \in [DOMAIN group'.pel -> Nat]
        /\ DOMAIN group'.pel \subseteq 1 .. group'.read
    BY <2>1, <2>5
  <2>7. QED
    BY <2>2, <2>4, <2>5, <2>6
<1>4. CASE pump.todo # <<>> /\ (DeadLetter \/ pump' = Next1)
           /\ group' \in {group, Acked} /\ UNCHANGED <<recorded, outbox, stream, mem>>
  <2>1. pump' = Next1
    BY <1>4 DEF DeadLetter
  <2>2. QED
    BY <1>4, <2>1, RestOfBatch, AckedGroup
<1>5. CASE RejectMalformed \/ LoadFails \/ Ack
  BY <1>4, <1>5 DEF RejectMalformed, LoadFails, Ack, DeadLetter
<1>6. CASE AppendToMemory
  <2>1. Head1.id \in Past
    BY <1>6, RestOfBatch DEF AppendToMemory, Malformed, Events
  <2>2. mem' \in [run : BOOLEAN, ev : SUBSET Past]
    <3>1. mem' = mem \/ mem' = [mem EXCEPT !.ev = @ \cup {Head1.id}]
      BY <1>6 DEF AppendToMemory
    <3>2. [mem EXCEPT !.ev = @ \cup {Head1.id}] \in [run : BOOLEAN, ev : SUBSET Past]
      BY <2>1
    <3>3. QED
      BY <3>1, <3>2
  <2>3. /\ pump'.todo = pump.todo /\ pump'.step \in {"ack", "load"}
        /\ pump' = [todo |-> pump'.todo, step |-> pump'.step]
    BY <1>6 DEF AppendToMemory
  <2>4. QED
    BY <1>6, <2>2, <2>3 DEF AppendToMemory
<1>7. CASE LoadProjection
  <2>1. /\ pump'.todo = pump.todo /\ pump'.step = "append"
        /\ pump' = [todo |-> pump'.todo, step |-> pump'.step]
    BY <1>7 DEF LoadProjection
  <2>2. QED
    BY <1>7, <2>1 DEF LoadProjection
<1>8. CASE AckFails
  BY <1>8 DEF AckFails, IdlePump
<1>9. CASE SeedAcceptedRun
  BY <1>9 DEF SeedAcceptedRun, Events
<1>10. CASE RestartGateway
  BY <1>10 DEF RestartGateway, NoMem, IdlePump
<1>11. QED
  BY <1>1, <1>2, <1>3, <1>5, <1>6, <1>7, <1>8, <1>9, <1>10 DEF PumpStep

\* Every step keeps the worker's side and the pump in order, and the past grows.
LEMMA PumpInvStep == PumpInv /\ [Next]_vars => PumpInv' /\ Past \subseteq Past'
<1> SUFFICES ASSUME PumpInv, [Next]_vars PROVE PumpInv' /\ Past \subseteq Past'
  OBVIOUS
<1>1. CASE UNCHANGED <<recorded, outbox, stream, group, mem, pump>>
  BY <1>1 DEF PumpInv, Past
<1>2. CASE \/ Record \/ PublishMalformed \/ LoseGroup \/ \E e \in outbox : Publish(e)
  BY <1>2, RecordKeepsPump
<1>3. CASE PumpStep \/ AckFails \/ SeedAcceptedRun \/ RestartGateway
  BY <1>3, PumpKeepsPump DEF Past
<1>4. CASE \/ PageStep \/ OpenRefused \/ DropConnection \/ Resubscribe \/ ReloadPage
  BY <1>1, <1>4
     DEF PageStep, OpenEvents, WriteSnapshot, RealtimeTick, HistoryTick, Receive,
         OpenRefused, DropConnection, Resubscribe, ReloadPage, redis
<1>5. QED
  BY <1>1, <1>2, <1>3, <1>4 DEF Next, vars

-----------------------------------------------------------------------------
(* The connection and the page.                                             *)

\* Time only adds to the past, so what was a frame stays one.
LEMMA FramesGrow ==
  ASSUME Past \subseteq Past'
  PROVE  Frames \subseteq Frames'
  BY DEF Frames, NoEndBefore

\* A step that leaves connection, wire and page alone.
LEMMA PageStays ==
  ASSUME PageInv, SentIsAccountedFor, Past \subseteq Past', UNCHANGED page
  PROVE  PageInv' /\ SentIsAccountedFor'
<1>1. UNCHANGED <<conn, wire, client>>
  BY DEF page
<1>2. wire \in Seq(SUBSET (Frames'))
  <2>1. SUBSET Frames \subseteq SUBSET (Frames')
    BY FramesGrow
  <2>2. wire \in Seq(SUBSET Frames)
    BY DEF PageInv
  <2>3. QED
    BY <2>1, <2>2, SeqMonotonic
<1>3. conn \in [phase : {"off", "opening", "live"}, hist : SUBSET (DurableEvents \cap Past'),
                sent : SUBSET Past']
  BY DEF PageInv
<1>4. client \in [seen : SUBSET Past',
                  status : {"created", "waiting", "running", "completed"},
                  seq : Nat, text : Seq(Nat), last : Nat, src : {"none", "open", "closed"}]
  BY DEF PageInv
<1>5. PageInv'
  BY <1>1, <1>2, <1>3, <1>4 DEF PageInv, HistoryIsWhole, NoEndBefore
<1>6. QED
  BY <1>1, <1>5 DEF SentIsAccountedFor

\* No connection and an empty wire owe nothing to anybody.
LEMMA Disconnected ==
  ASSUME NoConn = conn', wire' = <<>>,
         client' \in [seen : SUBSET Past',
                      status : {"created", "waiting", "running", "completed"},
                      seq : Nat, text : Seq(Nat), last : Nat,
                      src : {"none", "open", "closed"}],
         client'.last \in client'.seen \cup {0}, client'.seq \in client'.seen \cup {0},
         client'.seq > 0 => NoEndBefore(client'.seq)
  PROVE  PageInv' /\ SentIsAccountedFor'
  BY DEF PageInv, SentIsAccountedFor, HistoryIsWhole, NoConn, NoEndBefore

\* What one pass writes: every event that is not an overtaken one is on the wire,
\* and frames of history are in order (collectUnseenRuntimeEvents).
LEMMA WriteKeeps ==
  ASSUME PageInv, UNCHANGED <<recorded, client>>, client.src = "open",
         NEW S \in SUBSET Past, NEW H \in SUBSET Past, NEW sent \in SUBSET Past,
         Write(S, H, sent), sent \cap Ends = {},
         \A e \in H, x \in Ends : x < e => x \in S,
         \A e \in sent : \/ e \in client.seen
                         \/ \E i \in DOMAIN wire : \E f \in wire[i] : f.e = e
                         \/ \E f \in client.seen : f > e
  PROVE  PageInv' /\ SentIsAccountedFor'
<1> DEFINE new == {Frame(e, H) : e \in Unseen(S \ sent)}
<1>1. \A e \in Unseen(S \ sent) : e \in S /\ e \in Past /\ e \in Nat /\ e > 0
  BY DEF Unseen, Past
<1>2. \A e \in Unseen(S \ sent) : Frame(e, H) \in Frames
  <2> SUFFICES ASSUME NEW e \in Unseen(S \ sent) PROVE Frame(e, H) \in Frames
    OBVIOUS
  <2>1. CASE e \in H
    <3>1. NoEndBefore(e)
      <4> SUFFICES ASSUME NEW x \in Ends PROVE e <= x
        BY DEF NoEndBefore
      <4>1. x \in Nat
        BY EventFacts
      <4>2. x < e => x \in (S \ sent) \cap Ends
        BY <2>1
      <4>3. QED
        BY <1>1, <4>1, <4>2 DEF Unseen
    <3>2. QED
      BY <1>1, <2>1, <3>1 DEF Frame, Frames
  <2>2. CASE e \notin H
    BY <1>1, <2>2 DEF Frame, Frames
  <2>3. QED
    BY <2>1, <2>2
<1>3. new \in SUBSET Frames
  BY <1>2
<1>4. wire \in Seq(SUBSET Frames)
  BY DEF PageInv
<1>5. /\ wire' = wire \/ wire' = Append(wire, new)
      /\ Unseen(S \ sent) # {} => wire' = Append(wire, new)
      /\ conn' = IF (S \cup sent) \cap Ends # {} THEN NoConn
                 ELSE [phase |-> "live", hist |-> {}, sent |-> S \cup sent]
  BY DEF Write
<1> HIDE DEF new
<1>6. /\ wire' \in Seq(SUBSET Frames)
      /\ \A i \in DOMAIN wire : i \in DOMAIN wire' /\ wire'[i] = wire[i]
      /\ wire' = Append(wire, new) => /\ Len(wire) + 1 \in DOMAIN wire'
                                      /\ wire'[Len(wire) + 1] = new
  BY <1>3, <1>4, <1>5
<1>7. Past' = Past /\ Frames' = Frames
  BY DEF Past, Frames, NoEndBefore
<1>8. /\ conn' \in [phase : {"off", "opening", "live"}, hist : SUBSET (DurableEvents \cap Past),
                    sent : SUBSET Past]
      /\ conn'.hist = {} /\ conn'.sent \cap Ends = {}
  BY <1>5 DEF NoConn
<1>9. PageInv'
  BY <1>6, <1>7, <1>8 DEF PageInv, HistoryIsWhole, NoEndBefore
<1>10. ASSUME conn'.phase = "live", NEW e \in conn'.sent
       PROVE  \/ e \in client.seen
              \/ \E i \in DOMAIN wire' : \E f \in wire'[i] : f.e = e
              \/ \E f \in client.seen : f > e
  <2>1. (S \cup sent) \cap Ends = {} /\ e \in S \cup sent
    BY <1>5, <1>10 DEF NoConn
  <2>2. CASE e \in sent
    BY <1>6, <2>2
  <2>3. CASE e \in S \ sent
    <3>1. e \in Unseen(S \ sent)
      BY <2>1, <2>3 DEF Unseen
    <3>2. Frame(e, H) \in new /\ Frame(e, H).e = e
      BY <3>1 DEF new, Frame
    <3>3. QED
      BY <1>5, <1>6, <3>1, <3>2
  <2>4. QED
    BY <2>1, <2>2, <2>3
<1>11. QED
  BY <1>9, <1>10 DEF SentIsAccountedFor

\* What the run store makes of an event (appendEvent): it keeps it, and moves its
\* number, its status and its subscription only for an event it had not seen, while
\* the run has not ended, if no later durable event was projected.
LEMMA AppendFacts ==
  ASSUME PageInv, NEW e \in Past, NEW q \in Nat,
         NEW r, r = AppendEvent([client EXCEPT !.last = e], e, q)
  PROVE  /\ r \in [seen : SUBSET Past,
                   status : {"created", "waiting", "running", "completed"},
                   seq : Nat, text : Seq(Nat), last : Nat, src : {"none", "open", "closed"}]
         /\ r.seen = client.seen \cup {e} /\ r.last = e
         /\ r.seq \in {client.seq, q}
         /\ q = 0 => r.seq = client.seq
         /\ e \in client.seen => r.status = client.status /\ r.src = client.src
         /\ client.status = "completed" => r.status = client.status /\ r.src = client.src
         /\ r.status = "completed" /\ client.status # "completed" => Script[e] = "completed"
         /\ r.src # client.src => r.src = "none" /\ client.status # "completed"
         /\ e \notin client.seen /\ Script[e] = "completed" /\ (q = 0 \/ q > client.seq)
              => r.status = "completed"
<1> DEFINE Client == [seen : SUBSET Past,
                      status : {"created", "waiting", "running", "completed"},
                      seq : Nat, text : Seq(Nat), last : Nat,
                      src : {"none", "open", "closed"}]
           c == [client EXCEPT !.last = e]
           kept == [c EXCEPT !.seen = @ \cup {e}]
           moved == [kept EXCEPT !.seq = IF q > 0 THEN q ELSE @]
<1>1. client \in Client /\ e \in Nat
  BY DEF PageInv, Past
<1>2. /\ c \in Client /\ c.seen = client.seen /\ c.status = client.status
      /\ c.seq = client.seq /\ c.src = client.src /\ c.last = e /\ c.text = client.text
  BY <1>1
<1>3. /\ kept \in Client /\ kept.seen = client.seen \cup {e}
      /\ kept.status = client.status /\ kept.seq = client.seq /\ kept.src = client.src
      /\ kept.last = e /\ kept.text = client.text
  <2> HIDE DEF c
  <2>1. QED
    BY <1>1, <1>2
<1>4. /\ moved \in Client /\ moved.seen = client.seen \cup {e}
      /\ moved.status = client.status /\ moved.src = client.src /\ moved.last = e
      /\ moved.text = client.text
      /\ moved.seq \in {client.seq, q}
      /\ q = 0 => moved.seq = client.seq
  <2> DEFINE p == IF q > 0 THEN q ELSE kept.seq
  <2>1. moved = [kept EXCEPT !.seq = p]
    OBVIOUS
  <2> HIDE DEF kept, moved
  <2>2. p \in Nat /\ p \in {client.seq, q} /\ (q = 0 => p = client.seq)
    BY <1>1, <1>3
  <2> HIDE DEF p
  <2>3. QED
    BY <1>3, <2>1, <2>2
<1>5. r = IF e \in c.seen THEN c
          ELSE IF c.status = "completed" THEN kept
          ELSE IF q > 0 /\ q <= c.seq THEN kept
          ELSE Project(moved, e)
  BY DEF AppendEvent
<1> HIDE DEF c, kept, moved, Client
<1>6. /\ Project(moved, e) \in Client
      /\ Project(moved, e).seen = moved.seen /\ Project(moved, e).last = e
      /\ Project(moved, e).seq = moved.seq
      /\ Project(moved, e).status = "completed" /\ moved.status # "completed"
           => Script[e] = "completed"
      /\ Project(moved, e).src # moved.src => Project(moved, e).src = "none"
      /\ Script[e] = "completed" => Project(moved, e).status = "completed"
  <2>1. moved \in Client /\ moved.last = e /\ e \in Nat
    BY <1>1, <1>4
  <2>2. Append(moved.text, e) \in Seq(Nat)
    BY <2>1 DEF Client
  <2>3. \A s \in {"waiting", "running"} :
          /\ [moved EXCEPT !.status = s] \in Client /\ [moved EXCEPT !.status = s].seen = moved.seen
          /\ [moved EXCEPT !.status = s].last = e /\ [moved EXCEPT !.status = s].seq = moved.seq
          /\ [moved EXCEPT !.status = s].status = s /\ [moved EXCEPT !.status = s].src = moved.src
    BY <2>1 DEF Client
  <2> DEFINE over == [moved EXCEPT !.status = "completed", !.src = "none"]
             told == [moved EXCEPT !.text = Append(@, e)]
  <2>4. /\ over \in Client /\ over.seen = moved.seen /\ over.last = e
        /\ over.seq = moved.seq /\ over.status = "completed" /\ over.src = "none"
    BY <2>1 DEF Client
  <2>5. /\ told \in Client /\ told.seen = moved.seen /\ told.last = e
        /\ told.seq = moved.seq /\ told.status = moved.status /\ told.src = moved.src
    BY <2>1, <2>2 DEF Client
  <2> HIDE DEF over, told
  <2>6. Project(moved, e) =
          CASE Script[e] = "required"  -> [moved EXCEPT !.status = "waiting"]
            [] Script[e] = "resolved"  -> [moved EXCEPT !.status = "running"]
            [] Script[e] = "completed" -> over
            [] Script[e] = "delta"     -> told
            [] OTHER                   -> moved
    BY DEF Project, over, told
  <2>7. CASE Script[e] = "required" \/ Script[e] = "resolved"
    BY <2>3, <2>6, <2>7
  <2>8. CASE Script[e] = "completed"
    BY <2>4, <2>6, <2>8
  <2>9. CASE Script[e] = "delta"
    BY <2>5, <2>6, <2>9
  <2>10. CASE Script[e] \notin {"required", "resolved", "completed", "delta"}
    BY <2>1, <2>6, <2>10
  <2>11. QED
    BY <2>7, <2>8, <2>9, <2>10
<1>7. CASE e \in client.seen
  BY <1>2, <1>5, <1>7 DEF Client
<1>8. CASE e \notin client.seen /\ (client.status = "completed" \/ (q > 0 /\ q <= client.seq))
  <2>1. r = kept
    BY <1>2, <1>5, <1>8
  <2>2. client.seq \in Nat
    BY <1>1 DEF Client
  <2>3. ~(q = 0 \/ q > client.seq) \/ client.status = "completed"
    BY <1>8, <2>2
  <2>4. r \in Client /\ r.seen = client.seen \cup {e} /\ r.last = e /\ r.seq = client.seq
        /\ r.status = client.status /\ r.src = client.src
    BY <1>3, <2>1
  <2>5. QED
    BY <2>3, <2>4 DEF Client
<1>9. CASE e \notin client.seen /\ client.status # "completed" /\ ~(q > 0 /\ q <= client.seq)
  <2>1. r = Project(moved, e)
    BY <1>2, <1>5, <1>9
  <2>2. /\ r \in Client /\ r.seen = client.seen \cup {e} /\ r.last = e
        /\ r.seq \in {client.seq, q} /\ (q = 0 => r.seq = client.seq)
        /\ (r.status = "completed" => Script[e] = "completed")
        /\ (r.src # client.src => r.src = "none")
        /\ (Script[e] = "completed" => r.status = "completed")
    BY <1>4, <1>6, <1>9, <2>1
  <2>3. QED
    BY <1>9, <2>2 DEF Client
<1>10. QED
  BY <1>7, <1>8, <1>9

\* Taking a frame off the wire leaves the others on it.
LEMMA WithoutFacts ==
  ASSUME wire \in Seq(SUBSET Frames), wire # <<>>, NEW f \in wire[1]
  PROVE  /\ Without(f) \in Seq(SUBSET Frames)
         /\ \A i \in DOMAIN wire : \A g \in wire[i] :
              g = f \/ \E j \in DOMAIN Without(f) : g \in Without(f)[j]
<1>1. /\ wire[1] \in SUBSET Frames /\ 1 \in DOMAIN wire /\ Tail(wire) \in Seq(SUBSET Frames)
      /\ \A k \in DOMAIN Tail(wire) : k + 1 \in DOMAIN wire /\ Tail(wire)[k] = wire[k + 1]
  BY FirstAndRest
<1>2. CASE wire[1] = {f}
  <2>1. Without(f) = Tail(wire)
    BY <1>2 DEF Without
  <2>2. \A i \in DOMAIN wire : i = 1 \/ (i - 1 \in DOMAIN Tail(wire) /\ Tail(wire)[i - 1] = wire[i])
    OBVIOUS
  <2>3. ASSUME NEW i \in DOMAIN wire, NEW g \in wire[i]
        PROVE  g = f \/ \E j \in DOMAIN Tail(wire) : g \in Tail(wire)[j]
    BY <1>2, <2>2
  <2>4. QED
    BY <1>1, <2>1, <2>3
<1>3. CASE wire[1] # {f}
  <2>1. Without(f) = [wire EXCEPT ![1] = wire[1] \ {f}]
    BY <1>3 DEF Without
  <2>2. Without(f) \in Seq(SUBSET Frames) /\ DOMAIN Without(f) = DOMAIN wire
    BY <1>1, <2>1
  <2>3. \A i \in DOMAIN wire : Without(f)[i] = IF i = 1 THEN wire[1] \ {f} ELSE wire[i]
    BY <2>1
  <2>4. QED
    BY <2>2, <2>3
<1>4. QED
  BY <1>2, <1>3

\* The page takes a frame in (onmessage, appendEvent).
LEMMA ReceiveKeeps ==
  ASSUME PumpInv, PageInv, SentIsAccountedFor, Receive
  PROVE  PageInv' /\ SentIsAccountedFor'
<1>1. PICK f \in wire[1] :
        /\ Earliest(f)
        /\ client' = AppendEvent([client EXCEPT !.last = f.e], f.e, f.seq)
        /\ IF client'.src = "open" THEN wire' = Without(f) /\ UNCHANGED conn
           ELSE wire' = <<>> /\ conn' = NoConn
  BY DEF Receive
<1>2. wire # <<>> /\ Past' = Past /\ Frames' = Frames
  BY DEF Receive, Past, Frames, NoEndBefore
<1>3. wire \in Seq(SUBSET Frames)
  BY DEF PageInv
<1>4. f \in Frames /\ f.e \in Past /\ f.seq \in Nat /\ f.e > 0
  BY <1>2, <1>3, FirstAndRest DEF Frames, Past
<1>5. /\ client' \in [seen : SUBSET Past,
                      status : {"created", "waiting", "running", "completed"},
                      seq : Nat, text : Seq(Nat), last : Nat,
                      src : {"none", "open", "closed"}]
      /\ client'.seen = client.seen \cup {f.e} /\ client'.last = f.e
      /\ client'.seq \in {client.seq, f.seq} /\ (f.seq = 0 => client'.seq = client.seq)
  BY <1>1, <1>4, AppendFacts
<1>6. client'.seq \in client'.seen \cup {0}
  BY <1>4, <1>5 DEF PageInv, Frames
<1>7. client'.seq > 0 => NoEndBefore(client'.seq)
  BY <1>4, <1>5 DEF PageInv, Frames
<1>8. CASE client'.src # "open"
  BY <1>1, <1>2, <1>5, <1>6, <1>7, <1>8, Disconnected
<1>9. CASE client'.src = "open"
  <2>1. wire' = Without(f) /\ conn' = conn
    BY <1>1, <1>9
  <2>2. /\ wire' \in Seq(SUBSET Frames)
        /\ \A i \in DOMAIN wire : \A g \in wire[i] :
             g = f \/ \E j \in DOMAIN wire' : g \in wire'[j]
    BY <1>1, <1>2, <1>3, <2>1, WithoutFacts
  <2>3. PageInv'
    BY <1>2, <1>5, <1>6, <1>7, <1>9, <2>1, <2>2 DEF PageInv, HistoryIsWhole, NoEndBefore
  <2>4. SentIsAccountedFor'
    <3> SUFFICES ASSUME conn.phase = "live", NEW e \in conn.sent
                 PROVE  \/ e \in client'.seen
                        \/ \E i \in DOMAIN wire' : \E g \in wire'[i] : g.e = e
                        \/ \E g \in client'.seen : g > e
      BY <2>1 DEF SentIsAccountedFor
    <3>1. \/ e \in client.seen
          \/ \E i \in DOMAIN wire : \E g \in wire[i] : g.e = e
          \/ \E g \in client.seen : g > e
      BY DEF SentIsAccountedFor
    <3>2. CASE \E i \in DOMAIN wire : \E g \in wire[i] : g.e = e
      <4>1. PICK i \in DOMAIN wire : \E g \in wire[i] : g.e = e
        BY <3>2
      <4>2. PICK g \in wire[i] : g.e = e
        BY <4>1
      <4>3. g = f \/ \E j \in DOMAIN wire' : g \in wire'[j]
        BY <2>2
      <4>4. QED
        BY <1>5, <4>2, <4>3
    <3>3. QED
      BY <1>5, <3>1, <3>2
  <2>5. QED
    BY <2>3, <2>4
<1>10. QED
  BY <1>8, <1>9
\* The handler's passes, connections that open and break, and what the user does
\* (handleEvents, writeUnseenEvents, subscribeRuntimeEvents).
LEMMA ConnectionKeeps ==
  ASSUME PumpInv, PageInv, SentIsAccountedFor,
         \/ OpenEvents \/ WriteSnapshot \/ RealtimeTick \/ HistoryTick
         \/ OpenRefused \/ DropConnection \/ RestartGateway \/ Resubscribe \/ ReloadPage
  PROVE  PageInv' /\ SentIsAccountedFor'
<1>1. /\ client \in [seen : SUBSET Past,
                     status : {"created", "waiting", "running", "completed"},
                     seq : Nat, text : Seq(Nat), last : Nat,
                     src : {"none", "open", "closed"}]
      /\ client.last \in client.seen \cup {0} /\ client.seq \in client.seen \cup {0}
      /\ client.seq > 0 => NoEndBefore(client.seq)
  BY DEF PageInv
<1>2. recorded' = recorded /\ Past' = Past /\ Frames' = Frames
  BY DEF OpenEvents, WriteSnapshot, RealtimeTick, HistoryTick, OpenRefused,
         DropConnection, RestartGateway, Resubscribe, ReloadPage, Past, Frames, NoEndBefore
<1>3. /\ conn.phase # "off" => client.src = "open"
      /\ mem.ev \subseteq Past /\ History \subseteq Past
  BY EventFacts DEF PageInv, PumpInv, History, Past, Events
<1>4. CASE OpenEvents
  <2>1. /\ conn'.phase = "opening" /\ conn'.hist = History /\ conn'.sent = {}
        /\ conn' = [phase |-> conn'.phase, hist |-> conn'.hist, sent |-> conn'.sent]
        /\ client.src = "open" /\ UNCHANGED <<wire, client>>
    BY <1>4 DEF OpenEvents
  <2>2. History \in SUBSET (DurableEvents \cap Past)
    BY <1>3 DEF History
  <2>3. \A e \in History, d \in DurableEvents : d < e => d \in History
    BY EventFacts DEF History, PumpInv, Events
  <2>4. PageInv'
    BY <1>2, <2>1, <2>2, <2>3 DEF PageInv, HistoryIsWhole, NoEndBefore
  <2>5. QED
    BY <2>1, <2>4 DEF SentIsAccountedFor
<1>5. CASE WriteSnapshot
  <2> DEFINE S == conn.hist \cup mem.ev
             k == Skipped(S)
  <2>1. S \in SUBSET Past /\ conn.hist \in SUBSET Past /\ client.src = "open"
    BY <1>3, <1>5 DEF PageInv, WriteSnapshot
  <2>2. k \in SUBSET Past /\ k \subseteq S
    BY <2>1 DEF Skipped
  <2>3. \A e \in k : e \in client.seen \/ \E f \in client.seen : f > e
    BY <1>1, <2>1 DEF Skipped, Past
  <2>4. \A e \in conn.hist, x \in Ends : x < e => x \in S
    BY EventFacts DEF PageInv, HistoryIsWhole
  <2>5. CASE k \cap Ends # {}
    <3>1. conn' = NoConn /\ UNCHANGED <<wire, client>>
      BY <1>5, <2>5 DEF WriteSnapshot
    <3>2. PageInv'
      BY <1>2, <2>1, <3>1 DEF PageInv, HistoryIsWhole, NoEndBefore, NoConn
    <3>3. QED
      BY <3>1, <3>2 DEF SentIsAccountedFor, NoConn
  <2>6. CASE k \cap Ends = {}
    <3>1. Write(S, conn.hist, k) /\ UNCHANGED <<recorded, client>>
      BY <1>5, <2>6 DEF WriteSnapshot
    <3> HIDE DEF S, k
    <3>2. QED
      BY <2>1, <2>2, <2>3, <2>4, <2>6, <3>1, WriteKeeps
  <2>7. QED
    BY <2>5, <2>6
<1>6. conn.phase = "live" =>
        /\ client.src = "open" /\ conn.sent \in SUBSET Past /\ conn.sent \cap Ends = {}
        /\ \A e \in conn.sent : \/ e \in client.seen
                                \/ \E i \in DOMAIN wire : \E f \in wire[i] : f.e = e
                                \/ \E f \in client.seen : f > e
  BY DEF PageInv, SentIsAccountedFor
<1>7. CASE RealtimeTick
  <2>1. conn.phase = "live" /\ Write(mem.ev, {}, conn.sent) /\ UNCHANGED <<recorded, client>>
    BY <1>7 DEF RealtimeTick
  <2>2. {} \in SUBSET Past /\ mem.ev \in SUBSET Past
    BY <1>3
  <2>3. QED
    BY <1>6, <2>1, <2>2, WriteKeeps
<1>8. CASE HistoryTick
  <2>1. /\ conn.phase = "live" /\ Write(History, History, conn.sent)
        /\ UNCHANGED <<recorded, client>>
    BY <1>8 DEF HistoryTick
  <2>2. \A e \in History, x \in Ends : x < e => x \in History
    BY EventFacts DEF History, PumpInv, Events
  <2>3. QED
    BY <1>3, <1>6, <2>1, <2>2, WriteKeeps
<1>9. CASE OpenRefused
  <2>1. /\ conn.phase = "off" /\ wire = <<>> /\ UNCHANGED <<conn, wire>>
        /\ client' = [client EXCEPT !.src = "closed"]
    BY <1>9 DEF OpenRefused
  <2>2. PageInv'
    BY <1>1, <1>2, <2>1 DEF PageInv, HistoryIsWhole, NoEndBefore
  <2>3. QED
    BY <2>1, <2>2 DEF SentIsAccountedFor
<1>10. CASE DropConnection \/ RestartGateway
  BY <1>1, <1>2, <1>10, Disconnected DEF DropConnection, RestartGateway, NoEndBefore
<1>11. CASE Resubscribe
  <2>1. /\ conn' = NoConn /\ wire' = <<>>
        /\ client' = [client EXCEPT !.src = "open", !.last = 0]
    BY <1>11 DEF Resubscribe
  <2>2. QED
    BY <1>1, <1>2, <2>1, Disconnected
<1>12. CASE ReloadPage
  <2>1. conn' = NoConn /\ wire' = <<>> /\ client' = FreshPage
    BY <1>12 DEF ReloadPage
  <2>2. FreshPage \in [seen : SUBSET Past',
                       status : {"created", "waiting", "running", "completed"},
                       seq : Nat, text : Seq(Nat), last : Nat,
                       src : {"none", "open", "closed"}]
        /\ FreshPage.last = 0 /\ FreshPage.seq = 0
    BY DEF FreshPage
  <2>3. QED
    BY <2>1, <2>2, Disconnected
<1>13. QED
  BY <1>4, <1>5, <1>7, <1>8, <1>9, <1>10, <1>11, <1>12

-----------------------------------------------------------------------------
\* The invariant holds at the start and every step keeps it.
LEMMA StreamInvInit == Init => StreamInv
<1> SUFFICES ASSUME Init PROVE StreamInv
  OBVIOUS
<1>1. PumpInv
  <2>1. <<>> \in [DOMAIN <<>> -> Nat] /\ DOMAIN <<>> = {}
    OBVIOUS
  <2>2. 1 \in Events
    BY EventFacts
  <2>3. QED
    BY <2>1, <2>2, EventFacts DEF Init, PumpInv, Past, NoMem, IdlePump
<1>2. PageInv
  BY DEF Init, PageInv, HistoryIsWhole, NoConn, FreshPage
<1>3. SentIsAccountedFor
  BY DEF Init, SentIsAccountedFor, NoConn
<1>4. QED
  BY <1>1, <1>2, <1>3 DEF StreamInv

LEMMA StreamInvNext == StreamInv /\ [Next]_vars => StreamInv'
<1> SUFFICES ASSUME StreamInv, [Next]_vars PROVE StreamInv'
  OBVIOUS
<1>1. PumpInv /\ PageInv /\ SentIsAccountedFor
  BY DEF StreamInv
<1>2. PumpInv' /\ Past \subseteq Past'
  BY <1>1, PumpInvStep
<1>3. CASE UNCHANGED page
  BY <1>1, <1>2, <1>3, PageStays DEF StreamInv
<1>4. CASE Receive
  BY <1>1, <1>2, <1>4, ReceiveKeeps DEF StreamInv
<1>5. CASE \/ OpenEvents \/ WriteSnapshot \/ RealtimeTick \/ HistoryTick
           \/ OpenRefused \/ DropConnection \/ RestartGateway \/ Resubscribe \/ ReloadPage
  BY <1>1, <1>2, <1>5, ConnectionKeeps DEF StreamInv
<1>6. CASE \/ Record \/ PublishMalformed \/ LoseGroup \/ \E e \in outbox : Publish(e)
  BY <1>3, <1>6 DEF Record, PublishMalformed, LoseGroup, Publish
<1>7. CASE PumpStep \/ AckFails \/ SeedAcceptedRun
  BY <1>3, <1>7
     DEF PumpStep, RecreateGroup, ReadBatch, RejectMalformed, AppendToMemory,
         LoadProjection, LoadFails, Ack, ClaimStale, AckFails, SeedAcceptedRun
<1>8. CASE UNCHANGED vars
  BY <1>3, <1>8 DEF vars, page
<1>9. QED
  BY <1>4, <1>5, <1>6, <1>7, <1>8 DEF Next, PageStep

\* In every reachable state what is on its way has happened, and what the handler
\* counts as sent is accounted for.
THEOREM StreamAlways == Spec => []StreamInv
<1>1. Init => StreamInv
  BY StreamInvInit
<1>2. StreamInv /\ [Next]_vars => StreamInv'
  BY StreamInvNext
<1>3. QED
  BY <1>1, <1>2, PTL DEF Spec

\* Every variable of the event stream keeps its type.
THEOREM StreamTypeCorrect == Spec => []TypeOK
<1>1. StreamInv => TypeOK
  <2> SUFFICES ASSUME StreamInv PROVE TypeOK
    OBVIOUS
  <2>1. PumpInv /\ PageInv
    BY DEF StreamInv
  <2>2. Past \subseteq Events /\ outbox \subseteq DurableEvents /\ recorded \in Events
    BY <2>1, EventFacts DEF PumpInv, Past, Events
  <2>3. stream \in Seq(Events \cup {Malformed})
    <3>1. stream \in Seq(Nat) /\ \A i \in DOMAIN stream : stream[i] \in Events \cup {Malformed}
      BY <2>1, <2>2 DEF PumpInv, Past, Malformed, Events
    <3>2. stream \in [1 .. Len(stream) -> Events \cup {Malformed}] /\ Len(stream) \in Nat
      BY <3>1
    <3>3. QED
      BY <3>2, FunctionIsSeq
  <2>4. /\ group.made \in BOOLEAN /\ group.read \in 0 .. Len(stream)
        /\ DOMAIN group.pel \subseteq 1 .. group.read
        /\ mem.run \in BOOLEAN /\ mem.ev \subseteq Past
        /\ pump.step \in {"append", "load", "ack"}
    BY <2>1 DEF PumpInv
  <2>5. /\ conn.phase \in {"off", "opening", "live"} /\ conn.sent \subseteq Past
        /\ client.seen \subseteq Past /\ client.src \in {"none", "open", "closed"}
        /\ client.status \in {"created", "waiting", "running", "completed"}
    BY <2>1 DEF PageInv
  <2>6. QED
    BY <2>2, <2>3, <2>4, <2>5 DEF TypeOK
<1>2. QED
  BY <1>1, StreamAlways, PTL

\* What the SSE handler counts as sent has reached the page, is on the wire, or was
\* overtaken by an event the page did receive (handleEvents, Last-Event-ID).
THEOREM SentAccounted == Spec => []SentIsAccountedFor
<1>1. StreamInv => SentIsAccountedFor
  BY DEF StreamInv
<1>2. QED
  BY <1>1, StreamAlways, PTL
-----------------------------------------------------------------------------
(* The page shows what AbstractStream promises, but for the promise that the *)
(* end is shown at last.                                                     *)

\* Taking in a frame shows the event, files it after the end, or repeats it.
LEMMA ReceiveShows ==
  ASSUME PumpInv, PageInv, Receive
  PROVE  [Viewer!ANext]_(Viewer!avars)
<1>1. PICK f \in wire[1] :
        client' = AppendEvent([client EXCEPT !.last = f.e], f.e, f.seq)
  BY DEF Receive
<1>2. f \in Frames /\ f.e \in Past /\ f.seq \in Nat /\ client.src = "open"
  BY FirstAndRest DEF Receive, PageInv, Frames
<1>3. f.e \in Events /\ f.e \in Nat /\ recorded' = recorded
  BY <1>2, EventFacts DEF Receive, PumpInv, Past, Events
<1>4. /\ client'.seen = client.seen \cup {f.e}
      /\ f.e \in client.seen => client'.status = client.status /\ client'.src = client.src
      /\ client.status = "completed" => client'.status = client.status
      /\ client'.status = "completed" /\ client.status # "completed"
           => Script[f.e] = "completed"
      /\ client'.src # client.src => client'.src = "none"
      /\ f.e \notin client.seen /\ Script[f.e] = "completed"
           /\ (f.seq = 0 \/ f.seq > client.seq) => client'.status = "completed"
  BY <1>1, <1>2, AppendFacts
<1>5. client'.src # "closed" /\ client.src # "closed"
  BY <1>2, <1>4
<1>6. CASE f.e \in client.seen
  <2>1. client'.seen = client.seen /\ client'.status = client.status
    BY <1>4, <1>6
  <2>2. UNCHANGED Viewer!avars
    BY <1>3, <1>5, <2>1 DEF Viewer!avars
  <2>3. QED
    BY <2>2
<1>7. CASE f.e \notin client.seen /\ client.status = "completed"
  <2>1. Viewer!File(f.e)
    BY <1>2, <1>3, <1>4, <1>5, <1>7 DEF Viewer!File, Past
  <2>2. QED
    BY <1>3, <2>1 DEF Viewer!ANext
<1>8. CASE f.e \notin client.seen /\ client.status # "completed"
  <2>1. f.e \in Ends => f.seq = 0 \/ f.seq > client.seq
    <3> SUFFICES ASSUME f.e \in Ends, f.seq # 0, ~(f.seq > client.seq) PROVE FALSE
      OBVIOUS
    <3>1. f.seq = f.e /\ client.seq \in Nat
      BY <1>2 DEF Frames, PageInv
    <3>2. f.e <= client.seq /\ client.seq > 0
      BY <1>2, <1>3, <3>1
    <3>3. client.seq <= f.e /\ client.seq \in client.seen
      BY <3>2 DEF PageInv, NoEndBefore
    <3>4. QED
      BY <1>3, <1>8, <3>1, <3>2, <3>3
  <2>2. client'.status = "completed" <=> f.e \in Ends
    BY <1>3, <1>4, <1>8, <2>1 DEF Ends
  <2>3. Viewer!Show(f.e)
    BY <1>2, <1>3, <1>4, <1>5, <1>8, <2>2 DEF Viewer!Show, Past
  <2>4. QED
    BY <1>3, <2>3 DEF Viewer!ANext
<1>9. QED
  BY <1>6, <1>7, <1>8

\* Every step of the event stream is one of the viewer's, or none.
LEMMA StepShows == StreamInv /\ [Next]_vars => [Viewer!ANext]_(Viewer!avars)
<1> SUFFICES ASSUME StreamInv, [Next]_vars PROVE [Viewer!ANext]_(Viewer!avars)
  OBVIOUS
<1>1. PumpInv /\ PageInv
  BY DEF StreamInv
<1>2. CASE UNCHANGED <<recorded, client>>
  BY <1>2 DEF Viewer!avars
<1>3. CASE Record
  <2>1. /\ recorded' = recorded + 1 /\ recorded' \in Events /\ UNCHANGED client
        /\ recorded \in Nat
    BY <1>1, <1>3, StreamAssumption DEF Record, page, PumpInv, Events
  <2>2. 1 .. recorded' = (1 .. recorded) \cup {recorded'}
    BY <2>1
  <2>3. Viewer!Know(recorded')
    BY <2>1, <2>2 DEF Viewer!Know
  <2>4. QED
    BY <2>1, <2>3 DEF Viewer!ANext
<1>4. CASE Receive
  BY <1>1, <1>4, ReceiveShows
<1>5. CASE OpenRefused \/ Resubscribe
  <2>1. /\ recorded' = recorded /\ client'.seen = client.seen
        /\ client'.status = client.status
    BY <1>1, <1>5 DEF OpenRefused, Resubscribe, PageInv
  <2>2. Viewer!SetLink
    BY <2>1 DEF Viewer!SetLink
  <2>3. QED
    BY <2>2 DEF Viewer!ANext
<1>6. CASE ReloadPage
  BY <1>6 DEF ReloadPage, FreshPage, Viewer!Reload, Viewer!ANext
<1>7. QED
  BY <1>2, <1>3, <1>4, <1>5, <1>6
     DEF Next, vars, page, PumpStep, PageStep, PublishMalformed, LoseGroup, Publish,
         RecreateGroup, ReadBatch, RejectMalformed, AppendToMemory, LoadProjection,
         LoadFails, Ack, ClaimStale, AckFails, SeedAcceptedRun, OpenEvents,
         WriteSnapshot, RealtimeTick, HistoryTick, DropConnection, RestartGateway

\* Whatever the stream, the pump, the memory bus and the connection lose or repeat,
\* the page shows an event only after it was recorded and never twice, reports the
\* end exactly when it takes one in, and moves nothing after it.
THEOREM PageImplementsViewer == Spec => Viewer!ASafe
<1>1. Init => Viewer!AInit
  BY EventFacts DEF Init, Viewer!AInit, FreshPage, Events
<1>2. StreamInv /\ [Next]_vars => [Viewer!ANext]_(Viewer!avars)
  BY StepShows
<1>3. QED
  BY <1>1, <1>2, StreamAlways, PTL DEF Spec, Viewer!ASafe

=============================================================================
