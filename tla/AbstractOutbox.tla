--------------------------- MODULE AbstractOutbox ---------------------------
(***************************************************************************)
(* What the transactional outbox promises to the rest of the system: an    *)
(* event that a business transaction recorded is put on its Redis stream,  *)
(* never twice as long as Redis keeps its data, and nothing that was not   *)
(* recorded ever appears there.  How the publishers share the work, which  *)
(* attempts fail and what the database says meanwhile is not visible here. *)
(***************************************************************************)
EXTENDS Naturals

CONSTANT Events

VARIABLES recorded,   \* events committed together with a business change
          copies      \* copies[e]: entries of e on the Redis stream

vars == <<recorded, copies>>

\* Whatever was recorded before has been put on the stream.
Init == /\ recorded \in SUBSET Events
        /\ copies = [e \in Events |-> IF e \in recorded THEN 1 ELSE 0]

\* A business transaction commits the event.
Record(e) == /\ e \notin recorded
             /\ recorded' = recorded \cup {e}
             /\ UNCHANGED copies

\* The event is added to the stream, which must not hold it yet.
Emit(e) == /\ e \in recorded
           /\ copies[e] = 0
           /\ copies' = [copies EXCEPT ![e] = 1]
           /\ UNCHANGED recorded

\* Redis loses its data; what was there may be emitted again.
Lose == /\ copies' = [e \in Events |-> 0]
        /\ UNCHANGED recorded

Next == \/ \E e \in Events : Record(e) \/ Emit(e)
        \/ Lose

Spec == Init /\ [][Next]_vars
=============================================================================
