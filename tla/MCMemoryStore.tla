---------------------------- MODULE MCMemoryStore ----------------------------
(* Two identifiers, so that one memory refers to another, a deleted one     *)
(* leaves a gap and two vectors are computed at once; two clock units, so   *)
(* that a memory is as old as tau; level 1 is min_importance, so that one   *)
(* unit of age takes the top of a one-level grid below it.                  *)
EXTENDS MemoryStore, TLC

Symmetry == Permutations(Workers) \cup Permutations(Texts)
              \cup Permutations(Decayers)
=============================================================================
