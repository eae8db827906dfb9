------------------------------- MODULE MCZil -------------------------------
(* Symmetry of the log blocks of a vdev, for TLC. *)
EXTENDS Zil, TLC

BlkSymmetry == UNION {Permutations(v) : v \in Vdevs}
=============================================================================
