---------------------------- MODULE CaptureProofs ----------------------------
(***************************************************************************)
(* Proofs about Capture for every number of sessions, handlers and hashes, *)
(* every window and every bound of the clock.                              *)
(***************************************************************************)
EXTENDS Capture, SessionsProofs, FiniteSetTheorems,
        SequenceTheorems

USE CaptureAssumption DEF Times

\* The row that InsertObservation adds for handler h.
NewRow(h) == [session |-> request[h].event.session,
              hash |-> request[h].event.hash, ts |-> request[h].event.ts]

\* A handler that is not idle carries a complete event.
LEMMA RequestType ==
  ASSUME TypeOK, NEW h \in Handlers, request[h].pc # "idle"
  PROVE  /\ request[h].kind \in Routes
         /\ request[h].event \in Events
         /\ request[h].event.session \in SessionIds
         /\ request[h].event.cwd \in Projects
         /\ request[h].event.hash \in Hashes
         /\ request[h].event.ts \in Times
         /\ NewRow(h) \in Observations
  BY DEF TypeOK, Requests, Idle, Events, Observations, NewRow

\* Every variable of Capture keeps its type, whatever the requests do.
THEOREM TypeCorrect == Spec => []TypeOK
<1>1. Init => TypeOK
  BY DEF Init, TypeOK, Requests, Idle
<1>2. TypeOK /\ [Next]_vars => TypeOK'
  <2>. SUFFICES ASSUME TypeOK, [Next]_vars PROVE TypeOK'
    OBVIOUS
  <2>. USE DEF TypeOK
  <2>1. CASE SetClock
    BY <2>1 DEF SetClock
  <2>2. ASSUME NEW h \in Handlers, NEW k \in Routes, NEW s \in SessionIds,
               NEW p \in Projects, NEW x \in Hashes, Receive(h, k, s, p, x)
        PROVE  TypeOK'
    <3>1. request' \in [Handlers -> Requests]
      BY <2>2 DEF Receive, Requests, Events
    <3>. QED  BY <2>2, <3>1 DEF Receive
  <2>3. ASSUME NEW h \in Handlers, InsertObservation(h) PROVE TypeOK'
    <3>. DEFINE e == request[h].event
                ensured == EnsureSession(sessions, e.session, e.cwd, e.ts)
    <3>1. /\ e \in Events /\ e.session \in SessionIds /\ e.cwd \in Projects
          /\ e.hash \in Hashes /\ e.ts \in Times /\ NewRow(h) \in Observations
      BY <2>3, RequestType DEF InsertObservation
    <3>2. IsTable(ensured, SessionIds, Projects, Times)
      BY <3>1, EnsureSessionType DEF IsTable
    <3>3. IsTable(CountObservation(ensured, e.session), SessionIds, Projects, Times)
      BY <3>2, CountObservationType
    <3>4. /\ DOMAIN sessions' \subseteq SessionIds
          /\ sessions' \in [DOMAIN sessions' -> SessionRows(Projects, Times)]
      BY <2>3, <3>2, <3>3 DEF InsertObservation, IsTable
    <3>5. observations' \in Seq(Observations)
      BY <2>3, <3>1 DEF InsertObservation, NewRow
    <3>6. acked' \subseteq Stamped
      BY <2>3, <3>1 DEF InsertObservation, Stamped
    <3>7. request' \in [Handlers -> Requests]
      BY <2>3 DEF InsertObservation, Answer, Requests
    <3>. QED  BY <2>3, <3>4, <3>5, <3>6, <3>7 DEF InsertObservation
  <2>4. ASSUME NEW h \in Handlers, Ensure(h) PROVE TypeOK'
    <3>. DEFINE e == request[h].event
    <3>1. e.session \in SessionIds /\ e.cwd \in Projects /\ e.ts \in Times
      BY <2>4, RequestType DEF Ensure
    <3>. DEFINE ensured == EnsureSession(sessions, e.session, e.cwd, e.ts)
    <3>4. IsTable(ensured, SessionIds, Projects, Times)
      BY <3>1, EnsureSessionType DEF IsTable
    <3>2. IsTable(sessions', SessionIds, Projects, Times)
      BY <2>4, <3>4 DEF Ensure
    <3>3. request' \in [Handlers -> Requests]
      BY <2>4 DEF Ensure, Answer, Requests, Idle
    <3>. QED  BY <2>4, <3>2, <3>3 DEF Ensure, IsTable
  <2>5. ASSUME NEW h \in Handlers, End(h) PROVE TypeOK'
    <3>. DEFINE e == request[h].event
    <3>1. e.ts \in Times
      BY <2>5, RequestType DEF End
    <3>. DEFINE ended == EndSession(sessions, e.session, e.ts)
    <3>4. IsTable(ended, SessionIds, Projects, Times)
      BY <3>1, EndSessionType DEF IsTable
    <3>2. IsTable(sessions', SessionIds, Projects, Times)
      BY <2>5, <3>4 DEF End
    <3>. QED  BY <2>5, <3>2 DEF End, IsTable, Answer, Requests
  <2>6. ASSUME NEW h \in Handlers, Fail(h) PROVE TypeOK'
    BY <2>6 DEF Fail, Answer, Requests
  <2>7. CASE UNCHANGED vars
    BY <2>7 DEF vars
  <2>. QED  BY <2>1, <2>2, <2>3, <2>4, <2>5, <2>6, <2>7 DEF Next
<1>. QED  BY <1>1, <1>2, PTL DEF Spec
------------------------------------------------------------------------------
\* What InsertObservation does to the observations: it leaves them, when one
\* of them makes the event a duplicate, or appends a row that none of them
\* makes a duplicate.
LEMMA InsertCases ==
  ASSUME TypeOK, NEW h \in Handlers, InsertObservation(h)
  PROVE  LET row == NewRow(h)
         IN \/ /\ IsDuplicate(row.hash, row.ts)
               /\ observations' = observations
            \/ /\ ~IsDuplicate(row.hash, row.ts)
               /\ observations' = Append(observations, row)
  BY DEF InsertObservation, NewRow

\* No other step touches the observations.
LEMMA OthersKeepObservations ==
  ASSUME [Next]_vars, ~ \E h \in Handlers : InsertObservation(h)
  PROVE  observations' = observations /\ acked' = acked
  BY DEF Next, vars, SetClock, Receive, Ensure, End, Fail

\* Appending a row shifts no other row.
LEMMA AppendRow ==
  ASSUME NEW S, NEW seq \in Seq(S), NEW row \in S
  PROVE  /\ DOMAIN Append(seq, row) = DOMAIN seq \cup {Len(seq) + 1}
         /\ DOMAIN seq = 1..Len(seq) /\ Len(seq) \in Nat
         /\ Append(seq, row)[Len(seq) + 1] = row
         /\ \A i \in DOMAIN seq : Append(seq, row)[i] = seq[i] /\ i # Len(seq) + 1
  OBVIOUS

\* Equal hashes are a window apart in the order of the rows.  The invariant
\* is inductive by itself: the row appended by InsertObservation is compared
\* with all rows, and rows never change.
THEOREM DedupWindowHolds == Spec => []DedupWindowKept
<1>1. Init => DedupWindowKept
  BY DEF Init, DedupWindowKept
<1>2. TypeOK /\ DedupWindowKept /\ [Next]_vars => DedupWindowKept'
  <2>. SUFFICES ASSUME TypeOK, DedupWindowKept, [Next]_vars
                PROVE  DedupWindowKept'
    OBVIOUS
  <2>1. ASSUME NEW h \in Handlers, InsertObservation(h) PROVE DedupWindowKept'
    <3>1. CASE observations' = observations
      BY <3>1 DEF DedupWindowKept
    <3>2. CASE /\ ~IsDuplicate(NewRow(h).hash, NewRow(h).ts)
               /\ observations' = Append(observations, NewRow(h))
      <4>. DEFINE n == Len(observations) + 1
      <4>1. NewRow(h) \in Observations
        BY <2>1, RequestType DEF InsertObservation
      <4>2. observations \in Seq(Observations)
        BY DEF TypeOK
      <4>3. /\ DOMAIN observations' = DOMAIN observations \cup {n}
            /\ observations'[n] = NewRow(h)
            /\ \A i \in DOMAIN observations :
                 observations'[i] = observations[i] /\ i < n
        BY <3>2, <4>1, <4>2, AppendRow
      <4>4. \A i \in DOMAIN observations :
              observations[i].hash = NewRow(h).hash
                => NewRow(h).ts - observations[i].ts >= DedupWindow
        <5>1. \A i \in DOMAIN observations : observations[i] \in Observations
          BY <4>2
        <5>. QED  BY <3>2, <4>1, <5>1 DEF IsDuplicate, Observations
      <4>5. SUFFICES ASSUME NEW i \in DOMAIN observations', 
                            NEW j \in DOMAIN observations', i < j,
                            observations'[i].hash = observations'[j].hash
                     PROVE  observations'[j].ts - observations'[i].ts >= DedupWindow
        BY DEF DedupWindowKept
      <4>6. i \in DOMAIN observations
        BY <4>2, <4>3, <4>5
      <4>7. CASE j = n
        BY <4>3, <4>4, <4>5, <4>6, <4>7
      <4>8. CASE j \in DOMAIN observations
        BY <4>3, <4>5, <4>6, <4>8 DEF DedupWindowKept
      <4>. QED  BY <4>3, <4>5, <4>7, <4>8
    <3>. QED  BY <2>1, <3>1, <3>2, InsertCases
  <2>2. CASE ~ \E h \in Handlers : InsertObservation(h)
    BY <2>2, OthersKeepObservations DEF DedupWindowKept
  <2>. QED  BY <2>1, <2>2
<1>. QED  BY <1>1, <1>2, TypeCorrect, PTL DEF Spec

\* An event answered with success stays represented: rows are only appended,
\* and the step that answers has found or made the row.
THEOREM AckedIsStoredHolds == Spec => []AckedIsStored
<1>1. Init => AckedIsStored
  BY DEF Init, AckedIsStored
<1>2. TypeOK /\ AckedIsStored /\ [Next]_vars => AckedIsStored'
  <2>. SUFFICES ASSUME TypeOK, AckedIsStored, [Next]_vars
                PROVE  AckedIsStored'
    OBVIOUS
  <2>1. ASSUME NEW h \in Handlers, InsertObservation(h) PROVE AckedIsStored'
    <3>. DEFINE row == NewRow(h)
    <3>1. /\ acked' = acked \cup {[hash |-> row.hash, ts |-> row.ts]}
          /\ row \in Observations /\ row.ts \in Int /\ row.ts > row.ts - DedupWindow
      <4>1. row \in Observations
        BY <2>1, RequestType DEF InsertObservation
      <4>2. row.ts \in Int
        BY <4>1 DEF Observations
      <4>. QED  BY <2>1, <4>1, <4>2 DEF InsertObservation, NewRow
    <3>2. CASE /\ IsDuplicate(row.hash, row.ts)
               /\ observations' = observations
      BY <3>1, <3>2 DEF AckedIsStored, IsDuplicate
    <3>3. CASE observations' = Append(observations, row)
      <4>1. /\ DOMAIN observations \subseteq DOMAIN observations'
            /\ Len(observations) + 1 \in DOMAIN observations'
            /\ observations'[Len(observations) + 1] = row
            /\ \A i \in DOMAIN observations : observations'[i] = observations[i]
        BY <3>1, <3>3, AppendRow DEF TypeOK
      <4>. QED  BY <3>1, <4>1 DEF AckedIsStored
    <3>. QED  BY <2>1, <3>2, <3>3, InsertCases
  <2>2. CASE ~ \E h \in Handlers : InsertObservation(h)
    BY <2>2, OthersKeepObservations DEF AckedIsStored
  <2>. QED  BY <2>1, <2>2
<1>. QED  BY <1>1, <1>2, TypeCorrect, PTL DEF Spec
------------------------------------------------------------------------------
\* The rows of session s in a value of the observations table.
RowsOf(obs, s) == {i \in DOMAIN obs : obs[i].session = s}

\* A session has finitely many rows.
LEMMA RowsOfFinite ==
  ASSUME TypeOK, NEW s
  PROVE  IsFiniteSet(RowsOf(observations, s)) /\ Cardinality(RowsOf(observations, s)) \in Nat
<1>1. DOMAIN observations = 1..Len(observations) /\ Len(observations) \in Nat
  BY DEF TypeOK
<1>2. IsFiniteSet(1..Len(observations))
  BY <1>1, FS_Interval
<1>3. IsFiniteSet(RowsOf(observations, s))
  BY <1>1, <1>2, FS_Subset DEF RowsOf
<1>. QED  BY <1>3, FS_CardinalityType

\* n_obs counts rows because InsertObservation changes both in one
\* transaction, and no other statement on sessions touches n_obs.
THEOREM CountsAgreeHolds == Spec => []CountsAgree
<1>1. Init => CountsAgree
  BY DEF Init, CountsAgree
<1>2. TypeOK /\ CountsAgree /\ [Next]_vars => CountsAgree'
  <2>. SUFFICES ASSUME TypeOK, CountsAgree, [Next]_vars
                PROVE  CountsAgree'
    OBVIOUS
  <2>. DEFINE Counted(table, s) == table[s].nObs = Cardinality(RowsOf(observations, s))
  <2>1. ASSUME NEW h \in Handlers, InsertObservation(h) PROVE CountsAgree'
    <3>. DEFINE e == request[h].event
                ensured == EnsureSession(sessions, e.session, e.cwd, e.ts)
    <3>1. /\ e.session \in SessionIds /\ e.cwd \in Projects /\ e.ts \in Times
          /\ NewRow(h) \in Observations
      BY <2>1, RequestType DEF InsertObservation
    <3>2. /\ DOMAIN ensured = DOMAIN sessions \cup {e.session}
          /\ \A s \in DOMAIN sessions : ensured[s] = sessions[s]
          /\ e.session \notin DOMAIN sessions
               => ensured[e.session] = SessionRow(e.cwd, e.ts)
      BY DEF EnsureSession, Put
    <3>3. \A s \in DOMAIN ensured : Counted(ensured, s)
      <4>1. ASSUME e.session \notin DOMAIN sessions
            PROVE  RowsOf(observations, e.session) = {}
        BY <4>1 DEF CountsAgree, RowsOf
      <4>2. e.session \notin DOMAIN sessions => Counted(ensured, e.session)
        BY <4>1, <3>2, FS_EmptySet DEF SessionRow
      <4>3. \A s \in DOMAIN sessions : Counted(ensured, s)
        BY <3>2 DEF CountsAgree, RowsOf
      <4>. QED  BY <3>2, <4>2, <4>3
    <3>4. CASE observations' = observations /\ sessions' = ensured
      BY <3>2, <3>3, <3>4 DEF CountsAgree, RowsOf
    <3>5. CASE /\ observations' = Append(observations, NewRow(h))
               /\ sessions' = CountObservation(ensured, e.session)
      <4>. DEFINE n == Len(observations) + 1
      <4>1. /\ DOMAIN observations' = DOMAIN observations \cup {n}
            /\ n \notin DOMAIN observations
            /\ observations'[n] = NewRow(h)
            /\ \A i \in DOMAIN observations : observations'[i] = observations[i]
        BY <3>1, <3>5, AppendRow DEF TypeOK
      <4>2. RowsOf(observations', e.session) = RowsOf(observations, e.session) \cup {n}
        <5>1. observations'[n].session = e.session
          BY <4>1 DEF NewRow
        <5>. QED  BY <4>1, <5>1 DEF RowsOf
      <4>3. n \notin RowsOf(observations, e.session)
        BY <4>1 DEF RowsOf
      <4>4. Cardinality(RowsOf(observations', e.session)) = Cardinality(RowsOf(observations, e.session)) + 1
        BY <4>2, <4>3, RowsOfFinite, FS_AddElement
      <4>5. ASSUME NEW s \in DOMAIN sessions', s # e.session
            PROVE  RowsOf(observations', s) = RowsOf(observations, s)
        BY <4>1, <4>5 DEF RowsOf, NewRow
      <4>6. IsTable(ensured, SessionIds, Projects, Times)
        BY <3>1, EnsureSessionType DEF IsTable, TypeOK
      <4>7. /\ DOMAIN sessions' = DOMAIN ensured
            /\ sessions'[e.session].nObs = ensured[e.session].nObs + 1
            /\ \A k \in DOMAIN ensured : k # e.session => sessions'[k] = ensured[k]
        <5>1. /\ e.session \in DOMAIN ensured
              /\ ensured[e.session] \in SessionRows(Projects, Times)
          BY <3>2, <4>6 DEF IsTable
        <5>. QED  BY <3>5, <5>1
                  DEF CountObservation, UpdateSession, Put, SessionRows
      <4>8. \A s \in DOMAIN sessions' : sessions'[s].nObs = Cardinality(RowsOf(observations', s))
        BY <3>2, <3>3, <4>4, <4>5, <4>7
      <4>9. \A i \in DOMAIN observations' :
              observations'[i].session \in DOMAIN sessions'
        BY <3>2, <4>1, <4>7 DEF CountsAgree, NewRow
      <4>. QED  BY <4>8, <4>9 DEF CountsAgree, RowsOf
    <3>. QED  BY <2>1, <3>4, <3>5 DEF InsertObservation, NewRow
  <2>2. ASSUME NEW h \in Handlers, Ensure(h) PROVE CountsAgree'
    <3>. DEFINE e == request[h].event
                ensured == EnsureSession(sessions, e.session, e.cwd, e.ts)
    <3>1. /\ sessions' = ensured /\ observations' = observations
          /\ DOMAIN ensured = DOMAIN sessions \cup {e.session}
          /\ \A s \in DOMAIN sessions : ensured[s] = sessions[s]
          /\ e.session \notin DOMAIN sessions
               => ensured[e.session] = SessionRow(e.cwd, e.ts)
      <4>1. sessions' = ensured /\ observations' = observations
        BY <2>2 DEF Ensure
      <4>2. /\ DOMAIN ensured = DOMAIN sessions \cup {e.session}
            /\ \A s \in DOMAIN sessions : ensured[s] = sessions[s]
            /\ e.session \notin DOMAIN sessions
                 => ensured[e.session] = SessionRow(e.cwd, e.ts)
        BY DEF EnsureSession, Put
      <4>. QED  BY <4>1, <4>2
    <3>2. e.session \notin DOMAIN sessions => RowsOf(observations, e.session) = {}
      BY DEF CountsAgree, RowsOf
    <3>3. e.session \notin DOMAIN sessions => Counted(ensured, e.session)
      BY <3>1, <3>2, FS_EmptySet DEF SessionRow
    <3>4. \A s \in DOMAIN sessions : Counted(ensured, s)
      BY <3>1 DEF CountsAgree, RowsOf
    <3>. QED  BY <3>1, <3>3, <3>4 DEF CountsAgree, RowsOf
  <2>3. ASSUME NEW h \in Handlers, End(h) PROVE CountsAgree'
    <3>1. /\ observations' = observations
          /\ DOMAIN sessions' = DOMAIN sessions
          /\ \A s \in DOMAIN sessions : sessions'[s].nObs = sessions[s].nObs
      BY <2>3 DEF End, EndSession, UpdateSession, Put, TypeOK, SessionRows
    <3>. QED  BY <3>1 DEF CountsAgree
  <2>4. CASE UNCHANGED <<sessions, observations>>
    BY <2>4 DEF CountsAgree
  <2>. QED  BY <2>1, <2>2, <2>3, <2>4
            DEF Next, vars, SetClock, Receive, Fail
<1>. QED  BY <1>1, <1>2, TypeCorrect, PTL DEF Spec
------------------------------------------------------------------------------
\* The abstract log a table of observations stands for.
LogOf(obs) == [i \in DOMAIN obs |-> [hash |-> obs[i].hash, ts |-> obs[i].ts]]

\* A function on 1..n is a sequence of length n.
LEMMA FunctionIsSeq ==
  ASSUME NEW S, NEW n \in Nat, NEW f \in [1..n -> S]
  PROVE  f \in Seq(S) /\ Len(f) = n
<1>1. f \in Seq(S)
  BY SeqDef
<1>2. DOMAIN f = 1..n /\ DOMAIN f = 1..Len(f) /\ Len(f) \in Nat
  BY <1>1, LenProperties
<1>. QED  BY <1>1, <1>2

\* Capture implements ObservationLog: a step that appends a row is a Record
\* of its hash and timestamp, and every other step leaves the log alone.
THEOREM CaptureImplementsLog == Spec => ImplementsLog
<1>1. Init => Log!Init
  <2>. SUFFICES ASSUME Init PROVE LogOf(observations) = <<>>
    BY DEF LogOf, Log!Init
  <2>. QED  BY DEF Init, LogOf
<1>2. TypeOK /\ [Next]_vars => [Log!Next]_(LogOf(observations))
  <2>. SUFFICES ASSUME TypeOK, [Next]_vars
                PROVE  Log!Next \/ LogOf(observations') = LogOf(observations)
    BY DEF LogOf
  <2>1. ASSUME NEW h \in Handlers, InsertObservation(h)
        PROVE  Log!Next \/ LogOf(observations') = LogOf(observations)
    <3>. DEFINE row == NewRow(h)
                event == [hash |-> row.hash, ts |-> row.ts]
    <3>1. CASE observations' = observations
      BY <3>1
    <3>2. CASE /\ ~IsDuplicate(row.hash, row.ts)
               /\ observations' = Append(observations, row)
      <4>1. row \in Observations /\ row.hash \in Hashes /\ row.ts \in Times
        BY <2>1, RequestType DEF InsertObservation, Observations
      <4>2. observations \in Seq(Observations)
        BY DEF TypeOK
      <4>3. LogOf(observations') = Append(LogOf(observations), event)
        <5>1. DOMAIN observations = 1..Len(observations) /\ Len(observations) \in Nat
          BY <4>2
        <5>2. LogOf(observations) \in Seq([hash : Hashes, ts : Times])
              /\ Len(LogOf(observations)) = Len(observations)
          <6>1. \A i \in 1..Len(observations) :
                  [hash |-> observations[i].hash, ts |-> observations[i].ts]
                    \in [hash : Hashes, ts : Times]
            <7>1. \A i \in 1..Len(observations) : observations[i] \in Observations
              BY <4>2, <5>1
            <7>. QED  BY <7>1 DEF Observations
          <6>2. LogOf(observations) \in
                  [1..Len(observations) -> [hash : Hashes, ts : Times]]
            BY <5>1, <6>1 DEF LogOf
          <6>. QED  BY <5>1, <6>2, FunctionIsSeq
        <5>3. DOMAIN Append(LogOf(observations), event)
                = 1..(Len(observations) + 1)
          BY <5>1, <5>2, <4>1
        <5>4. DOMAIN observations' = 1..(Len(observations) + 1)
              /\ observations'[Len(observations) + 1] = row
              /\ \A i \in DOMAIN observations : observations'[i] = observations[i]
          BY <3>2, <4>1, <4>2, <5>1, AppendRow
        <5>5. \A i \in 1..(Len(observations) + 1) :
                LogOf(observations')[i] = Append(LogOf(observations), event)[i]
          BY <5>1, <5>2, <5>4, <4>1 DEF LogOf
        <5>. QED  BY <3>2, <4>1, <4>2, <5>1, <5>2, <5>3, <5>4, <5>5 DEF LogOf
      <4>4. Log!Accepts(row.hash, row.ts)
        <5>1. \A i \in DOMAIN observations : observations[i] \in Observations
          BY <4>2
        <5>2. \A i \in DOMAIN observations :
                observations[i].hash = row.hash
                  => observations[i].ts + DedupWindow <= row.ts
          BY <3>2, <4>1, <5>1 DEF IsDuplicate, Observations
        <5>. QED  BY <5>2 DEF Log!Accepts
      <4>5. PICK hash \in Hashes, ts \in Times : hash = row.hash /\ ts = row.ts
        BY <4>1
      <4>6. Log!Record(hash, ts)
        BY <4>3, <4>4, <4>5 DEF Log!Record, LogOf
      <4>. QED  BY <4>6 DEF Log!Next
    <3>. QED  BY <2>1, <3>1, <3>2, InsertCases
  <2>2. CASE ~ \E h \in Handlers : InsertObservation(h)
    BY <2>2, OthersKeepObservations
  <2>. QED  BY <2>1, <2>2
<1>. QED  BY <1>1, <1>2, TypeCorrect, PTL DEF Spec, ImplementsLog, Log!Spec, LogOf
------------------------------------------------------------------------------
\* What SessionKeepsOrigin says of one step, for two values of the table.
Kept(old, new) ==
  \A s \in DOMAIN old :
    /\ s \in DOMAIN new
    /\ new[s].project = old[s].project
    /\ new[s].startedAt = old[s].startedAt
    /\ old[s].endedAt # NoTime => new[s].endedAt # NoTime
    /\ new[s].nObs >= old[s].nObs

\* No hook rebinds, restarts or reopens a session, in any order of calls:
\* EnsureSession keeps existing rows, CountObservation and EndSession change
\* one column each, and a time that is written is never NULL.
THEOREM SessionKeepsOriginHolds == Spec => SessionKeepsOrigin
<1>1. TypeOK /\ [Next]_vars => Kept(sessions, sessions')
  <2>. SUFFICES ASSUME TypeOK, [Next]_vars PROVE Kept(sessions, sessions')
    OBVIOUS
  <2>1. \A s \in DOMAIN sessions :
          /\ sessions[s] \in SessionRows(Projects, Times)
          /\ sessions[s].nObs \in Nat
    BY DEF TypeOK, SessionRows
  <2>2. ASSUME NEW h \in Handlers, InsertObservation(h)
        PROVE  Kept(sessions, sessions')
    <3>. DEFINE e == request[h].event
                ensured == EnsureSession(sessions, e.session, e.cwd, e.ts)
    <3>1. /\ e.session \in SessionIds /\ e.cwd \in Projects /\ e.ts \in Times
      BY <2>2, RequestType DEF InsertObservation
    <3>2. IsTable(ensured, SessionIds, Projects, Times)
      BY <3>1, EnsureSessionType DEF IsTable, TypeOK
    <3>3. \A s \in DOMAIN sessions : s \in DOMAIN ensured /\ ensured[s] = sessions[s]
      BY DEF EnsureSession, Put
    <3>4. CASE sessions' = ensured
      BY <2>1, <3>3, <3>4 DEF Kept
    <3>5. CASE sessions' = CountObservation(ensured, e.session)
      <4>1. \A s \in DOMAIN ensured :
              /\ s \in DOMAIN sessions'
              /\ ensured[s].nObs \in Nat
              /\ sessions'[s].nObs >= ensured[s].nObs
              /\ sessions'[s].project = ensured[s].project
              /\ sessions'[s].startedAt = ensured[s].startedAt
              /\ sessions'[s].endedAt = ensured[s].endedAt
        BY <3>2, <3>5
           DEF IsTable, SessionRows, CountObservation, UpdateSession, Put
      <4>. QED  BY <3>3, <4>1 DEF Kept
    <3>. QED  BY <2>2, <3>4, <3>5 DEF InsertObservation
  <2>3. ASSUME NEW h \in Handlers, Ensure(h) PROVE Kept(sessions, sessions')
    BY <2>1, <2>3 DEF Ensure, EnsureSession, Put, Kept
  <2>4. ASSUME NEW h \in Handlers, End(h) PROVE Kept(sessions, sessions')
    <3>1. request[h].event.ts \in Times
      BY <2>4, RequestType DEF End
    <3>. QED  BY <2>1, <2>4, <3>1
              DEF End, EndSession, UpdateSession, Put, Kept, SessionRows, NoTime
  <2>5. CASE sessions' = sessions
    BY <2>1, <2>5 DEF Kept
  <2>. QED  BY <2>2, <2>3, <2>4, <2>5 DEF Next, vars, SetClock, Receive, Fail
<1>2. TypeOK /\ [Next]_vars
        => [\A s \in DOMAIN sessions :
              /\ s \in DOMAIN sessions'
              /\ sessions'[s].project = sessions[s].project
              /\ sessions'[s].startedAt = sessions[s].startedAt
              /\ sessions[s].endedAt # NoTime => sessions'[s].endedAt # NoTime
              /\ sessions'[s].nObs >= sessions[s].nObs]_vars
  BY <1>1 DEF Kept
<1>. QED  BY <1>2, TypeCorrect, PTL DEF Spec, SessionKeepsOrigin
=============================================================================
