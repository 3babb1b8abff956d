--------------------------- MODULE MCImportJSONL ---------------------------
(* A transcript of three lines whose last one repeats the first event; the  *)
(* first event has a timestamp of its own, the second takes the import's.   *)
EXTENDS ImportJSONL, TLC

CONSTANTS e1, e2, s1, s2

MCLines == <<e1, e2, e1>>
MCSessionOf == (e1 :> s1) @@ (e2 :> s2)
MCSourceTime == (e1 :> 1) @@ (e2 :> NoTime)

Symmetry == Permutations(Importers)
=============================================================================
