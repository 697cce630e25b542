--------------------------- MODULE MC_FanoutQueue ---------------------------
(* Instances of FanoutQueue for TLC. *)
EXTENDS FanoutQueue, TLC

Symmetry == Permutations(Worker)
=============================================================================
