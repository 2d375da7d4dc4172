--------------------------- MODULE MCEventStream ---------------------------
EXTENDS EventStream
\* A delta between two durable events.
MCScript == <<"created", "delta", "completed">>
=============================================================================
