----------------------------- MODULE MCCapture -----------------------------
(* Two sessions, two requests in flight and a window of two clock units, so *)
(* that duplicates within, across and exactly at the window all occur.      *)
EXTENDS Capture, TLC

Symmetry == Permutations(SessionIds) \cup Permutations(Handlers)
              \cup Permutations(Hashes)
=============================================================================
