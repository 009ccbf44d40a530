-------------------------- MODULE MCBlockGenerator --------------------------
(* Instances of BlockGenerator for TLC. *)
EXTENDS BlockGenerator, TLC

ThreadSymmetry == Permutations(Threads)
=============================================================================
