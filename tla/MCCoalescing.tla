---------------------------- MODULE MCCoalescing ----------------------------
(* Small instances of Coalescing for TLC. *)
EXTENDS Coalescing, TLC

CallSymmetry == Permutations(Callers) \cup Permutations(Calls)
=============================================================================
