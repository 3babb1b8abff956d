------------------------------- MODULE Capture -------------------------------
(***************************************************************************)
(* The hook endpoints of internal/server that write sessions and           *)
(* observations.  A request reads the wall clock when it is handled        *)
(* (opts.Now) and only later gets the one write connection, so requests    *)
(* commit in any order, whatever their timestamps.                         *)
(*                                                                         *)
(*   capture   the capture routes and /hooks/pre-compact: InsertObservation*)
(*   start     session-start, opencode context and enrich: EnsureSession   *)
(*   end       session-end: EnsureSession, then EndSession                 *)
(*                                                                         *)
(* A payload is its hash.  Timestamps are those of the wall clock, which   *)
(* may also be set back.                                                   *)
(***************************************************************************)
EXTENDS Sessions, Sequences, FiniteSets

CONSTANTS SessionIds,   \* agent:external_id
          Projects,     \* working directories
          Hashes,       \* sha256 of canonical payloads
          Routes,       \* the kinds of hooks the clients are set up to call
          Handlers,     \* requests that may be in flight at once
          DedupWindow,  \* opts.DedupWindowSeconds, in clock units
          MaxTime       \* bound of the clock

ASSUME CaptureAssumption == /\ DedupWindow \in Nat \ {0}
                            /\ MaxTime \in Nat
                            /\ Routes \subseteq {"capture", "start", "end"}

VARIABLES now,           \* time.Now().UnixMilli()
          sessions,      \* table sessions
          observations,  \* table observations: the row with id i is the ith
          request,       \* the request each handler goroutine serves
          acked          \* history: what was answered with success

vars == <<now, sessions, observations, request, acked>>

Times == 0..MaxTime
Events == [session : SessionIds, cwd : Projects, hash : Hashes, ts : Times]
Idle == [pc |-> "idle"]
Requests == {Idle} \cup
            [pc : {"ensure", "insert", "end"}, kind : Routes, event : Events]
Observations == [session : SessionIds, hash : Hashes, ts : Times]
Stamped == [hash : Hashes, ts : Times]

TypeOK ==
  /\ now \in Times
  /\ DOMAIN sessions \subseteq SessionIds
  /\ sessions \in [DOMAIN sessions -> SessionRows(Projects, Times)]
  /\ observations \in Seq(Observations)
  /\ request \in [Handlers -> Requests]
  /\ acked \subseteq Stamped

Init ==
  /\ now \in Times
  /\ sessions = [s \in {} |-> s]
  /\ observations = <<>>
  /\ request = [h \in Handlers |-> Idle]
  /\ acked = {}
------------------------------------------------------------------------------
Answer(h) == request' = [request EXCEPT ![h] = Idle]

\* captureRaw and the other handlers up to opts.Now(): a request that passed
\* validation carries the timestamp of this moment to the database.
Receive(h, kind, session, cwd, hash) ==
  /\ request[h].pc = "idle"
  /\ request' = [request EXCEPT ![h] =
       [pc |-> IF kind = "capture" THEN "insert" ELSE "ensure", kind |-> kind,
        event |-> [session |-> session, cwd |-> cwd, hash |-> hash, ts |-> now]]]
  /\ UNCHANGED <<now, sessions, observations, acked>>

\* Mutants: a range that ends at ts; a global dedup; a window one unit short.
IsDuplicateBefore(hash, ts) ==
  \E i \in DOMAIN observations : /\ observations[i].hash = hash
                                 /\ observations[i].ts > ts - DedupWindow
                                 /\ observations[i].ts <= ts
IsDuplicateEver(hash, ts) ==
  \E i \in DOMAIN observations : observations[i].hash = hash
IsDuplicateShort(hash, ts) ==
  \E i \in DOMAIN observations : /\ observations[i].hash = hash
                                 /\ observations[i].ts > ts - DedupWindow + 1

\* SELECT 1 FROM observations WHERE hash = ? AND ts > TS - window: over the
\* observations of every session, and of any later time.
IsDuplicate(hash, ts) ==
  \E i \in DOMAIN observations : /\ observations[i].hash = hash
                                 /\ observations[i].ts > ts - DedupWindow

\* InsertObservation: one transaction that ensures the session even when the
\* observation itself is dropped as a duplicate.
InsertObservation(h) ==
  LET e == request[h].event
      ensured == EnsureSession(sessions, e.session, e.cwd, e.ts)
      row == [session |-> e.session, hash |-> e.hash, ts |-> e.ts]
  IN /\ request[h].pc = "insert"
     /\ \/ /\ IsDuplicate(e.hash, e.ts)
           /\ sessions' = ensured
           /\ UNCHANGED observations
        \/ /\ ~IsDuplicate(e.hash, e.ts)
           /\ observations' = Append(observations, row)
           /\ sessions' = CountObservation(ensured, e.session)
     /\ acked' = acked \cup {[hash |-> e.hash, ts |-> e.ts]}
     /\ Answer(h)
     /\ UNCHANGED now

\* claudeSessionStart, opencodeContext, opencodeEnrich: reads follow, which
\* change nothing.  endSession goes on to its second statement.
Ensure(h) ==
  LET e == request[h].event
  IN /\ request[h].pc = "ensure"
     /\ sessions' = EnsureSession(sessions, e.session, e.cwd, e.ts)
     /\ \/ /\ request[h].kind = "end"
           /\ request' = [request EXCEPT ![h].pc = "end"]
        \/ /\ request[h].kind # "end"
           /\ Answer(h)
     /\ UNCHANGED <<now, observations, acked>>

End(h) ==
  LET e == request[h].event
  IN /\ request[h].pc = "end"
     /\ sessions' = EndSession(sessions, e.session, e.ts)
     /\ Answer(h)
     /\ UNCHANGED <<now, observations, acked>>

\* A statement fails (busy timeout, cancelled request, crash of the daemon):
\* its transaction rolls back and the hook sees an error.  Hooks do not retry.
Fail(h) ==
  /\ request[h].pc # "idle"
  /\ Answer(h)
  /\ UNCHANGED <<now, sessions, observations, acked>>

\* The wall clock moves on, or is set back.
SetClock == /\ \E t \in Times : now' = t
            /\ UNCHANGED <<sessions, observations, request, acked>>

Next ==
  \/ SetClock
  \/ \E h \in Handlers :
       \/ \E kind \in Routes, s \in SessionIds, p \in Projects, x \in Hashes :
            Receive(h, kind, s, p, x)
       \/ InsertObservation(h)
       \/ Ensure(h)
       \/ End(h)
       \/ Fail(h)

Spec == Init /\ [][Next]_vars
------------------------------------------------------------------------------
\* InsertObservation: however requests interleave and whatever the clock does,
\* two stored observations with the same hash are at least a window apart, the
\* later row with the later timestamp.
DedupWindowKept ==
  \A i, j \in DOMAIN observations :
    i < j /\ observations[i].hash = observations[j].hash
      => observations[j].ts - observations[i].ts >= DedupWindow

\* n_obs, which decides whether a session is compacted, is the number of its
\* observations, and the foreign key of every observation holds.
CountsAgree ==
  /\ \A i \in DOMAIN observations : observations[i].session \in DOMAIN sessions
  /\ \A s \in DOMAIN sessions :
       sessions[s].nObs = Cardinality({i \in DOMAIN observations :
                                         observations[i].session = s})

\* A hook that was told 204 has its event in the database: its own row, or
\* one of the same hash that is not older than the window.
AckedIsStored ==
  \A a \in acked : \E i \in DOMAIN observations :
    observations[i].hash = a.hash /\ observations[i].ts > a.ts - DedupWindow

\* EnsureSession and EndSession, called by every hook in any order, never move
\* a session to another project, restart it, reopen it or lose its counts.
SessionKeepsOrigin ==
  [][\A s \in DOMAIN sessions :
       /\ s \in DOMAIN sessions'
       /\ sessions'[s].project = sessions[s].project
       /\ sessions'[s].startedAt = sessions[s].startedAt
       /\ sessions[s].endedAt # NoTime => sessions'[s].endedAt # NoTime
       /\ sessions'[s].nObs >= sessions[s].nObs]_vars

\* The observations without their sessions are a log in the sense of
\* ObservationLog: requests in flight, failures and clock steps do not show.
Log == INSTANCE ObservationLog
         WITH Times <- Times, Window <- DedupWindow,
              log <- [i \in DOMAIN observations |->
                        [hash |-> observations[i].hash,
                         ts |-> observations[i].ts]]

\* InsertObservation implements the abstract log, step by step.
ImplementsLog == Log!Spec
=============================================================================
