---------------------------- MODULE MCRunControl ----------------------------
(* Instances of RunControl for TLC: one run, one or two workers. *)
EXTENDS RunControl, TLC

Symmetry == Permutations(Workers)
=============================================================================
