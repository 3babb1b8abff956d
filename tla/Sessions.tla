------------------------------ MODULE Sessions ------------------------------
(***************************************************************************)
(* The sessions table (internal/store/migrations/001) and the statements   *)
(* of internal/store/sessions.go on it, as operators from a table to the   *)
(* table after the statement.  A key is the normalised id                  *)
(* "agent:external_id", so the unique index on (agent, external_id) and    *)
(* the primary key coincide.  The text of a summary is abstracted to       *)
(* whether one is stored.                                                  *)
(***************************************************************************)
EXTENDS Integers, Tables

NoTime == -1    \* a NULL timestamp column

\* Mutant: INSERT without started_at.
SessionRowUnstarted(project, startedAt) ==
  [project |-> project, startedAt |-> NoTime, endedAt |-> NoTime,
   summary |-> FALSE, nObs |-> 0]

SessionRow(project, startedAt) ==
  [project |-> project, startedAt |-> startedAt, endedAt |-> NoTime,
   summary |-> FALSE, nObs |-> 0]

SessionRows(Projects, Times) ==
  [project : Projects, startedAt : Times, endedAt : Times \cup {NoTime},
   summary : BOOLEAN, nObs : Nat]

\* Mutants: INSERT OR REPLACE; ON CONFLICT DO UPDATE SET ended_at = NULL.
EnsureSessionReplace(sessions, id, project, ts) ==
  Put(sessions, id, SessionRow(project, ts))
EnsureSessionReopen(sessions, id, project, ts) ==
  Put(sessions, id, IF id \in DOMAIN sessions
                      THEN [sessions[id] EXCEPT !.endedAt = NoTime]
                      ELSE SessionRow(project, ts))

\* INSERT ... ON CONFLICT (agent, external_id) DO NOTHING: the first caller
\* fixes the project and the start of the session.
EnsureSession(sessions, id, project, ts) ==
  IF id \in DOMAIN sessions THEN sessions
                            ELSE Put(sessions, id, SessionRow(project, ts))

\* An UPDATE of a session that has no row changes nothing and is no error.
UpdateSession(sessions, id, row) ==
  IF id \in DOMAIN sessions THEN Put(sessions, id, row) ELSE sessions

EndSession(sessions, id, ts) ==
  UpdateSession(sessions, id, [sessions[id] EXCEPT !.endedAt = ts])

SaveSessionSummary(sessions, id, ts) ==
  UpdateSession(sessions, id,
    [sessions[id] EXCEPT !.summary = TRUE,
                         !.endedAt = IF @ = NoTime THEN ts ELSE @])

\* UPDATE sessions SET n_obs = n_obs + 1, in InsertObservation's transaction.
CountObservation(sessions, id) ==
  UpdateSession(sessions, id, [sessions[id] EXCEPT !.nObs = @ + 1])
=============================================================================
