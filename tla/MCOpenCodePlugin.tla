-------------------------- MODULE MCOpenCodePlugin --------------------------
(* Two hooks wait at once; every event finds at most one file.  One session *)
(* names more files than its stash of two holds, the other none: it is      *)
(* created, deleted and active in the meantime.                             *)
EXTENDS OpenCodePlugin

CONSTANTS FileIds, ASession, AFile

OneFile ==
  [s \in SessionIds |-> {<<f>> : f \in IF s = ASession THEN FileIds ELSE {}}]

LiveSpec == Spec /\ Chatting(ASession)

\* The enrich requests of a session that goes on name every stashed file in
\* the end; its files are alike, so one stands for all.
FilesAreNamed == FileIsNamed(ASession, AFile)
=============================================================================
