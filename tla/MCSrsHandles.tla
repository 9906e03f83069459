---------------------------- MODULE MCSrsHandles ----------------------------
(* Values for the constants of SrsHandles. *)
EXTENDS SrsHandles, TLC

AnyBlock == Permutations(Blocks)
=============================================================================
