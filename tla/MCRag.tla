-------------------------------- MODULE MCRag --------------------------------
(* Instance of RagJob for TLC: one worker, one document with one image. *)
EXTENDS RagJob
=============================================================================
