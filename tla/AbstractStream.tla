--------------------------- MODULE AbstractStream ---------------------------
(***************************************************************************)
(* What a viewer of one run is promised: events appear only after they     *)
(* were recorded and never twice, once an end of the run is shown nothing  *)
(* more of the run's state moves, and as long as the page does not report  *)
(* its link as closed an end that was recorded is shown.                   *)
(***************************************************************************)
EXTENDS Naturals, FiniteSets

CONSTANTS Events, Ends      \* events of the run; the ones that end it

VARIABLES known,            \* events recorded by the worker side
          shown,            \* events the page has taken in
          ended,            \* the page shows an end of the run
          link              \* "up", "closed" (reported to the user)

avars == <<known, shown, ended, link>>

AInit == known \in SUBSET Events /\ shown = {} /\ ~ended /\ link = "up"

Know(e) == known' = known \cup {e} /\ UNCHANGED <<shown, ended, link>>

Show(e) ==
  /\ e \in known \ shown
  /\ ~ended
  /\ shown' = shown \cup {e}
  /\ ended' = (e \in Ends)
  /\ UNCHANGED <<known, link>>

\* After the end late events may still be filed, but the end stays.
File(e) ==
  /\ e \in known \ shown
  /\ ended
  /\ shown' = shown \cup {e}
  /\ UNCHANGED <<known, ended, link>>

Reload == shown' = {} /\ ended' = FALSE /\ link' = "up" /\ UNCHANGED known

SetLink == link' \in {"up", "closed"} /\ UNCHANGED <<known, shown, ended>>

ShowEnd == link = "up" /\ \E e \in Ends : Show(e)

ANext == \/ \E e \in Events : Know(e) \/ Show(e) \/ File(e)
         \/ Reload \/ SetLink

ASafe == AInit /\ [][ANext]_avars
ASpec == ASafe /\ WF_avars(ShowEnd)
=============================================================================
