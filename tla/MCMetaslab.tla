----------------------------- MODULE MCMetaslab -----------------------------
(* Instances of Metaslab for model checking. *)
EXTENDS Metaslab, TLC

BlockSymmetry == Permutations(Blocks)
=============================================================================
