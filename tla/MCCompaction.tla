---------------------------- MODULE MCCompaction ----------------------------
(* The configurations take one observation as enough for compaction, so     *)
(* that sessions below and at min_observations both occur, and a time to    *)
(* live of one clock unit, so that attempts fresh, at the limit and expired *)
(* all occur within the clock bound.                                        *)
EXTENDS Compaction, TLC

Symmetry == Permutations(Handlers)
=============================================================================
