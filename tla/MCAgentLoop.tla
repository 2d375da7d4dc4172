---------------------------- MODULE MCAgentLoop ----------------------------
(* The agent loop alone: a goal that needs one change, with one source.    *)
EXTENDS AgentLoop

CONSTANTS edit, search, note

MCGoals == {[required |-> {edit}, exclusive |-> FALSE, transform |-> FALSE,
             unclear |-> FALSE, host |-> "lets", ifAbsent |-> {}, byIntent |-> {}]}
=============================================================================
