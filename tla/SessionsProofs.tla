--------------------------- MODULE SessionsProofs ---------------------------
(***************************************************************************)
(* Facts about the statements on the sessions table, for the proofs of the *)
(* components that use it.                                                 *)
(***************************************************************************)
EXTENDS Sessions, TLAPS

\* "sessions is a table over these ids with well-typed rows".
IsTable(sessions, Ids, Projects, Times) ==
  /\ DOMAIN sessions \subseteq Ids
  /\ sessions \in [DOMAIN sessions -> SessionRows(Projects, Times)]

\* The four statements keep the table well typed.
LEMMA EnsureSessionType ==
  ASSUME NEW sessions, NEW Ids, NEW Projects, NEW Times,
         IsTable(sessions, Ids, Projects, Times),
         NEW id \in Ids, NEW p \in Projects, NEW ts \in Times
  PROVE  IsTable(EnsureSession(sessions, id, p, ts), Ids, Projects, Times)
<1>1. SessionRow(p, ts) \in SessionRows(Projects, Times)
  BY DEF SessionRow, SessionRows, NoTime
<1>. QED  BY <1>1 DEF IsTable, EnsureSession, Put

\* EndSession keeps the type of the table.
LEMMA EndSessionType ==
  ASSUME NEW sessions, NEW Ids, NEW Projects, NEW Times,
         IsTable(sessions, Ids, Projects, Times),
         NEW id, NEW ts \in Times
  PROVE  IsTable(EndSession(sessions, id, ts), Ids, Projects, Times)
<1>1. id \in DOMAIN sessions
        => [sessions[id] EXCEPT !.endedAt = ts] \in SessionRows(Projects, Times)
  BY DEF IsTable, SessionRows
<1>. QED  BY <1>1 DEF IsTable, EndSession, UpdateSession, Put

\* Counting an observation keeps the type of the table.
LEMMA CountObservationType ==
  ASSUME NEW sessions, NEW Ids, NEW Projects, NEW Times,
         IsTable(sessions, Ids, Projects, Times),
         NEW id
  PROVE  IsTable(CountObservation(sessions, id), Ids, Projects, Times)
<1>1. id \in DOMAIN sessions
        => [sessions[id] EXCEPT !.nObs = @ + 1] \in SessionRows(Projects, Times)
  BY DEF IsTable, SessionRows
<1>. QED  BY <1>1 DEF IsTable, CountObservation, UpdateSession, Put

\* Saving a summary keeps the type of the table.
LEMMA SaveSessionSummaryType ==
  ASSUME NEW sessions, NEW Ids, NEW Projects, NEW Times,
         IsTable(sessions, Ids, Projects, Times),
         NEW id, NEW ts \in Times
  PROVE  IsTable(SaveSessionSummary(sessions, id, ts), Ids, Projects, Times)
<1>1. id \in DOMAIN sessions
        => [sessions[id] EXCEPT !.summary = TRUE,
                                !.endedAt = IF @ = NoTime THEN ts ELSE @]
             \in SessionRows(Projects, Times)
  BY DEF IsTable, SessionRows
<1>. QED  BY <1>1 DEF IsTable, SaveSessionSummary, UpdateSession, Put
=============================================================================
