---------------------------- MODULE ImportProofs ----------------------------
(***************************************************************************)
(* Proofs about ImportJSONL, for every transcript, every number of runs at *)
(* once and of runs that end early.                                        *)
(***************************************************************************)
EXTENDS ImportJSONL, SessionsProofs, FiniteSetTheorems

USE ImportAssumption

\* A run between the first line and the end of the file.
Under(i) == importer[i].pc \in {"check", "insert", "record"}

TypeInv ==
  /\ TypeOK
  /\ \A i \in Importers : Under(i) => importer[i].line <= Len(Lines)

\* A line of the transcript is an event of it.
LEMMA LinesType ==
  /\ Len(Lines) \in Nat /\ DOMAIN Lines = 1..Len(Lines)
  /\ \A k \in 1..Len(Lines) : Lines[k] \in EventSet
  /\ Times \subseteq Stamps
  /\ \A e \in EventSet : SessionOf[e] \in SessionIds
<1>1. Lines \in Seq(EventSet)
  OBVIOUS
<1>2. Len(Lines) \in Nat /\ DOMAIN Lines = 1..Len(Lines)
      /\ \A k \in 1..Len(Lines) : Lines[k] \in EventSet
  BY <1>1
<1>3. Times \subseteq Stamps
  BY DEF Stamps, Times, NoTime
<1>4. \A e \in EventSet : SessionOf[e] \in SessionIds
  BY DEF SessionIds
<1>. QED  BY <1>2, <1>3, <1>4

\* The line a run is at has an event, with a session and a timestamp.
LEMMA CurrentType ==
  ASSUME TypeInv, NEW i \in Importers, Under(i)
  PROVE  /\ importer[i].line \in 1..Len(Lines)
         /\ Current(i) \in EventSet /\ SessionOf[Current(i)] \in SessionIds
         /\ Stamp(i) \in Stamps
<1>1. importer[i] \in Runs
  BY DEF TypeInv, TypeOK
<1>2. importer[i].line \in 1..Len(Lines) /\ importer[i].importedAt \in Times
  BY <1>1, LinesType DEF TypeInv, Runs
<1>3. Current(i) \in EventSet /\ SessionOf[Current(i)] \in SessionIds
  BY <1>2, LinesType DEF Current
<1>4. Stamp(i) \in Stamps
  BY <1>2, <1>3 DEF Stamp, Stamps
<1>. QED  BY <1>2, <1>3, <1>4

\* How a run moves: to another call for the same line, or to the next line.
LEMMA RunMoves ==
  ASSUME TypeInv, NEW i \in Importers, NEW pc \in {"none", "insert", "record"},
         Under(i), Goto(i, pc)
  PROVE  /\ importer' \in [Importers -> Runs]
         /\ importer'[i].pc = pc /\ importer'[i].line = importer[i].line
         /\ \A j \in Importers \ {i} : importer'[j] = importer[j]
BY DEF TypeInv, TypeOK, Goto, Runs

\* A run that advances is at the next line, or done.
LEMMA RunAdvances ==
  ASSUME TypeInv, NEW i \in Importers, Under(i), Advance(i)
  PROVE  /\ importer' \in [Importers -> Runs]
         /\ importer'[i].line = importer[i].line + 1
         /\ importer'[i].pc = IF importer[i].line = Len(Lines) THEN "done" ELSE "check"
         /\ \A j \in Importers \ {i} : importer'[j] = importer[j]
<1>1. importer[i] \in Runs /\ importer[i].line \in 1..Len(Lines) /\ Len(Lines) \in Nat
  BY CurrentType, LinesType DEF TypeInv, TypeOK
<1>2. importer[i].line + 1 \in 1..(Len(Lines) + 1)
  BY <1>1
<1>. QED  BY <1>1, <1>2 DEF TypeInv, TypeOK, Advance, Runs

\* A run that advances keeps its type.
LEMMA AdvanceType ==
  ASSUME TypeInv, NEW i \in Importers, Under(i), Advance(i),
         UNCHANGED <<now, sessions, observations, stops>>, imported' \subseteq EventSet
  PROVE  TypeInv'
<1>1. /\ importer' \in [Importers -> Runs]
      /\ importer'[i].line = importer[i].line + 1
      /\ importer'[i].pc = IF importer[i].line = Len(Lines) THEN "done" ELSE "check"
      /\ \A j \in Importers \ {i} : importer'[j] = importer[j]
  BY RunAdvances
<1>2. importer[i].line \in 1..Len(Lines) /\ Len(Lines) \in Nat
  BY CurrentType, LinesType
<1>3. importer'[i].pc = "check" => importer'[i].line <= Len(Lines)
  BY <1>1, <1>2
<1>4. \A j \in Importers : Under(j)' => importer'[j].line <= Len(Lines)
  BY <1>1, <1>3 DEF Under, TypeInv
<1>. QED  BY <1>1, <1>4 DEF TypeInv, TypeOK

\* Every step of every run keeps the types.
LEMMA TypeInductive == TypeInv /\ [Next]_vars => TypeInv'
<1>. SUFFICES ASSUME TypeInv, [Next]_vars PROVE TypeInv'
  OBVIOUS
<1>1. ASSUME NEW i \in Importers, Start(i) PROVE TypeInv'
  <2>. DEFINE run == [pc |-> IF Lines = <<>> THEN "done" ELSE "check",
                      line |-> 1, importedAt |-> now]
  <2>1. run \in Runs
    BY LinesType DEF Runs, TypeInv, TypeOK
  <2>2. run.pc = "check" => 1 <= Len(Lines)
    <3>1. Lines # <<>> => Len(Lines) # 0
      OBVIOUS
    <3>. QED  BY <3>1, LinesType
  <2>3. /\ importer' = [importer EXCEPT ![i] = run] /\ run.line = 1
        /\ run.pc \in {"check", "done"}
        /\ UNCHANGED <<now, sessions, observations, imported, stops>>
    BY <1>1 DEF Start
  <2>. HIDE DEF run
  <2>. QED  BY <2>1, <2>2, <2>3 DEF TypeInv, TypeOK, Under
<1>2. ASSUME NEW i \in Importers, Check(i) PROVE TypeInv'
  <2>1. Under(i) /\ UNCHANGED <<now, sessions, observations, imported, stops>>
        /\ imported' \subseteq EventSet
    BY <1>2 DEF Check, Under, TypeInv, TypeOK
  <2>2. CASE Advance(i)
    BY <2>1, <2>2, AdvanceType
  <2>3. CASE Goto(i, "insert")
    BY <2>1, <2>3, RunMoves DEF TypeInv, TypeOK, Under
  <2>. QED  BY <1>2, <2>2, <2>3 DEF Check
<1>3. ASSUME NEW i \in Importers, Insert(i) PROVE TypeInv'
  <2>. DEFINE e == Current(i)
              s == SessionOf[e]
              ensured == EnsureSession(sessions, s, Project, Stamp(i))
              row == [event |-> e, session |-> s, ts |-> Stamp(i)]
  <2>1. /\ Under(i) /\ Goto(i, "record") /\ UNCHANGED <<now, imported, stops>>
        /\ observations' \in {observations, Append(observations, row)}
        /\ sessions' \in {ensured, CountObservation(ensured, s)}
    BY <1>3 DEF Insert, Under
  <2>2. s \in SessionIds /\ Stamp(i) \in Stamps /\ row \in Observations
    BY <2>1, CurrentType DEF Observations
  <2>. HIDE DEF row
  <2>3. observations' \in Seq(Observations)
    <3>1. observations \in Seq(Observations)
      BY DEF TypeInv, TypeOK
    <3>2. Append(observations, row) \in Seq(Observations)
      BY <2>2, <3>1
    <3>. QED  BY <2>1, <3>1, <3>2
  <2>4. IsTable(ensured, SessionIds, {Project}, Stamps)
    BY <2>2, EnsureSessionType DEF TypeInv, TypeOK, IsTable
  <2>. HIDE DEF ensured
  <2>5. IsTable(sessions', SessionIds, {Project}, Stamps)
    BY <2>1, <2>4, CountObservationType
  <2>. QED  BY <2>1, <2>3, <2>5, RunMoves DEF TypeInv, TypeOK, Under, IsTable
<1>4. ASSUME NEW i \in Importers, Record(i) PROVE TypeInv'
  <2>1. Under(i) /\ Advance(i) /\ UNCHANGED <<now, sessions, observations, stops>>
        /\ imported' = imported \cup {Current(i)}
    BY <1>4 DEF Record, Under
  <2>2. imported' \subseteq EventSet
    BY <2>1, CurrentType DEF TypeInv, TypeOK
  <2>. QED  BY <2>1, <2>2, AdvanceType
<1>5. ASSUME NEW i \in Importers, Stop(i) PROVE TypeInv'
  <2>1. Under(i) /\ Goto(i, "none") /\ stops' \in 0..MaxStops
        /\ UNCHANGED <<now, sessions, observations, imported>>
    BY <1>5 DEF Stop, Under, TypeInv, TypeOK
  <2>. QED  BY <2>1, RunMoves DEF TypeInv, TypeOK, Under
<1>6. CASE Tick
  <2>1. now' \in Times
    BY <1>6 DEF Tick, TypeInv, TypeOK, Times
  <2>. QED  BY <1>6, <2>1 DEF Tick, TypeInv, TypeOK, Under
<1>7. CASE UNCHANGED vars
  BY <1>7 DEF vars, TypeInv, TypeOK, Under
<1>. QED  BY <1>1, <1>2, <1>3, <1>4, <1>5, <1>6, <1>7 DEF Next, Step

\* The types hold in every state.
LEMMA TypeInvHolds == Spec => []TypeInv
<1>1. Init => TypeInv
  BY LinesType DEF Init, TypeInv, TypeOK, Runs, Times, Under
<1>. QED  BY <1>1, TypeInductive, PTL DEF Spec

\* The tables and the runs keep their types, however runs are started and stopped.
THEOREM TypeCorrect == Spec => []TypeOK
<1>1. TypeInv => TypeOK
  BY DEF TypeInv
<1>. QED  BY <1>1, TypeInvHolds, PTL
------------------------------------------------------------------------------
\* An observation of event e is stored.
Stored(e) == \E k \in DOMAIN observations : observations[k].event = e
StoredLater(e) == \E k \in DOMAIN observations' : observations'[k].event = e

\* What a run has gone through is recorded, what it is about to record is stored.
ProgressInv ==
  /\ \A e \in imported : Stored(e)
  /\ \A i \in Importers :
       /\ importer[i].pc = "record" => Stored(Current(i))
       /\ Under(i) => \A k \in 1..(importer[i].line - 1) : Lines[k] \in imported
       /\ importer[i].pc = "done" => EventSet \subseteq imported

\* Nothing is ever taken away.
LEMMA NothingGoes ==
  ASSUME TypeInv, [Next]_vars
  PROVE  /\ imported \subseteq imported'
         /\ \A e : Stored(e) => StoredLater(e)
<1>1. ASSUME NEW i \in Importers, Insert(i)
      PROVE  /\ imported' = imported
             /\ \A k \in DOMAIN observations :
                  k \in DOMAIN observations' /\ observations'[k] = observations[k]
  <2>. DEFINE row == [event |-> Current(i), session |-> SessionOf[Current(i)],
                      ts |-> Stamp(i)]
  <2>1. observations \in Seq(Observations)
    BY DEF TypeInv, TypeOK
  <2>2. observations' \in {observations, Append(observations, row)} /\ imported' = imported
    BY <1>1 DEF Insert
  <2>. HIDE DEF row
  <2>. QED  BY <2>1, <2>2
<1>2. CASE UNCHANGED observations /\ imported \subseteq imported'
  BY <1>2 DEF Stored, StoredLater
<1>3. ASSUME NEW i \in Importers, Start(i) \/ Check(i) \/ Record(i) \/ Stop(i)
      PROVE  UNCHANGED observations /\ imported \subseteq imported'
  BY <1>3 DEF Start, Check, Record, Stop
<1>4. CASE Tick \/ UNCHANGED vars
  BY <1>2, <1>4 DEF Tick, vars
<1>. QED  BY <1>1, <1>2, <1>3, <1>4 DEF Next, Step, Stored, StoredLater

\* A run goes on to the next line once its line is recorded.
LEMMA LineDone ==
  ASSUME TypeInv, ProgressInv, [Next]_vars, NEW i \in Importers, Under(i), Advance(i),
         Current(i) \in imported', \A e \in imported' : StoredLater(e)
  PROVE  ProgressInv'
<1>. DEFINE line == importer[i].line
<1>1. /\ importer'[i].line = line + 1 /\ line \in 1..Len(Lines) /\ Len(Lines) \in Nat
      /\ importer'[i].pc = IF line = Len(Lines) THEN "done" ELSE "check"
      /\ \A j \in Importers \ {i} : importer'[j] = importer[j]
  BY RunAdvances, CurrentType, LinesType
<1>2. \A k \in 1..line : Lines[k] \in imported'
  <2>1. \A k \in 1..(line - 1) : Lines[k] \in imported'
    BY NothingGoes DEF ProgressInv
  <2>2. \A k \in 1..line : k \in 1..(line - 1) \/ k = line
    BY <1>1
  <2>. QED  BY <2>1, <2>2 DEF Current
<1>3. line = Len(Lines) => EventSet \subseteq imported'
  BY <1>2, LinesType DEF EventSet
<1>4. /\ importer'[i].pc # "record"
      /\ \A k \in 1..(importer'[i].line - 1) : Lines[k] \in imported'
      /\ importer'[i].pc = "done" => EventSet \subseteq imported'
  BY <1>1, <1>2, <1>3
<1>5. \A j \in Importers \ {i} :
        /\ importer'[j].pc = "record" => StoredLater(Lines[importer'[j].line])
        /\ importer'[j].pc \in {"check", "insert", "record"} =>
             \A k \in 1..(importer'[j].line - 1) : Lines[k] \in imported'
        /\ importer'[j].pc = "done" => EventSet \subseteq imported'
  BY <1>1, NothingGoes DEF ProgressInv, Under, Current
<1>. QED  BY <1>4, <1>5 DEF ProgressInv, Under, Current, Stored, StoredLater

\* What a run has passed stays recorded, whatever the others do.
LEMMA ProgressInductive == TypeInv /\ ProgressInv /\ [Next]_vars => ProgressInv'
<1>. SUFFICES ASSUME TypeInv, ProgressInv, [Next]_vars PROVE ProgressInv'
  OBVIOUS
<1>1. imported \subseteq imported' /\ \A e : Stored(e) => StoredLater(e)
  BY NothingGoes
<1>2. ASSUME NEW i \in Importers, Start(i) PROVE ProgressInv'
  <2>1. /\ importer'[i].line = 1
        /\ importer'[i].pc = IF Lines = <<>> THEN "done" ELSE "check"
        /\ \A j \in Importers \ {i} : importer'[j] = importer[j]
        /\ UNCHANGED <<observations, imported>>
    BY <1>2 DEF Start, TypeInv, TypeOK
  <2>2. Lines = <<>> => EventSet = {}
    BY DEF EventSet
  <2>. QED  BY <2>1, <2>2 DEF ProgressInv, Under, Current, Stored
<1>3. ASSUME NEW i \in Importers, NEW pc \in {"none", "insert", "record"},
             Under(i), Goto(i, pc), imported' = imported,
             pc = "record" => StoredLater(Lines[importer[i].line])
      PROVE  ProgressInv'
  <2>1. /\ importer'[i].pc = pc /\ importer'[i].line = importer[i].line
        /\ \A j \in Importers \ {i} : importer'[j] = importer[j]
    BY <1>3, RunMoves
  <2>2. \A j \in Importers :
          /\ importer'[j].pc = "record" => StoredLater(Lines[importer'[j].line])
          /\ importer'[j].pc \in {"check", "insert", "record"} =>
               \A k \in 1..(importer'[j].line - 1) : Lines[k] \in imported'
          /\ importer'[j].pc = "done" => EventSet \subseteq imported'
    BY <1>1, <1>3, <2>1 DEF ProgressInv, Under, Current
  <2>3. \A e \in imported' : StoredLater(e)
    BY <1>1, <1>3 DEF ProgressInv
  <2>. QED  BY <2>2, <2>3 DEF ProgressInv, Under, Current, Stored, StoredLater
<1>4. ASSUME NEW i \in Importers, Check(i) PROVE ProgressInv'
  <2>1. Under(i) /\ UNCHANGED <<observations, imported>>
    BY <1>4 DEF Check, Under
  <2>2. \A e \in imported' : StoredLater(e)
    BY <1>1, <2>1 DEF ProgressInv
  <2>3. CASE Current(i) \in imported /\ Advance(i)
    BY <2>1, <2>2, <2>3, LineDone
  <2>4. CASE Goto(i, "insert")
    BY <1>3, <2>1, <2>4
  <2>. QED  BY <1>4, <2>3, <2>4 DEF Check, ImportedEventExists
<1>5. ASSUME NEW i \in Importers, Insert(i) PROVE ProgressInv'
  <2>. DEFINE e == Lines[importer[i].line]
              row == [event |-> e, session |-> SessionOf[e], ts |-> Stamp(i)]
  <2>1. /\ Under(i) /\ Goto(i, "record") /\ imported' = imported
        /\ \/ IsDuplicate(e, Stamp(i)) /\ observations' = observations
           \/ observations' = Append(observations, row)
    BY <1>5 DEF Insert, Under, Current
  <2>2. observations \in Seq(Observations)
    BY DEF TypeInv, TypeOK
  <2>3. \E k \in DOMAIN observations' : observations'[k].event = e
    <3>1. CASE IsDuplicate(e, Stamp(i)) /\ observations' = observations
      BY <3>1 DEF IsDuplicate
    <3>2. CASE observations' = Append(observations, row)
      <4>1. row.event = e
        OBVIOUS
      <4>. HIDE DEF row, e
      <4>2. Len(observations) + 1 \in DOMAIN observations'
            /\ observations'[Len(observations) + 1] = row
        BY <2>2, <3>2
      <4>. QED  BY <4>1, <4>2
    <3>. QED  BY <2>1, <3>1, <3>2
  <2>. QED  BY <1>3, <2>1, <2>3 DEF StoredLater
<1>6. ASSUME NEW i \in Importers, Record(i) PROVE ProgressInv'
  <2>1. /\ Under(i) /\ Advance(i) /\ imported' = imported \cup {Current(i)}
        /\ observations' = observations /\ Stored(Current(i))
    BY <1>6 DEF Record, Under, ProgressInv
  <2>2. \A e \in imported' : StoredLater(e)
    BY <2>1 DEF ProgressInv, Stored, StoredLater
  <2>. QED  BY <2>1, <2>2, LineDone
<1>7. ASSUME NEW i \in Importers, Stop(i) PROVE ProgressInv'
  BY <1>3, <1>7 DEF Stop, Under
<1>8. CASE Tick \/ UNCHANGED vars
  BY <1>8 DEF Tick, vars, ProgressInv, Under, Current, Stored
<1>. QED  BY <1>2, <1>4, <1>5, <1>6, <1>7, <1>8 DEF Next, Step

\* What every run has passed is recorded, in every state.
LEMMA ProgressInvHolds == Spec => []ProgressInv
<1>1. Init => ProgressInv
  BY DEF Init, ProgressInv, Under
<1>. QED  BY <1>1, ProgressInductive, TypeInvHolds, PTL DEF Spec

\* No crash, at whatever line and between whatever calls, leaves an event marked
\* as imported that is not there.
THEOREM RecordedIsStoredHolds == Spec => []RecordedIsStored
<1>1. ProgressInv => RecordedIsStored
  BY DEF ProgressInv, Stored, RecordedIsStored, Copies
<1>. QED  BY <1>1, ProgressInvHolds, PTL

\* A run that ends has everything of its transcript recorded, though it may have
\* skipped what others were working on.
THEOREM DoneIsCompleteHolds == Spec => []DoneIsComplete
<1>1. TypeInv /\ ProgressInv => DoneIsComplete
  BY DEF TypeInv, TypeOK, ProgressInv, DoneIsComplete
<1>. QED  BY <1>1, TypeInvHolds, ProgressInvHolds, PTL
------------------------------------------------------------------------------
\* The runs that are at a call for event e.
AtCall(e, pc) == {i \in Importers : importer[i].pc = pc
                                     /\ Lines[importer[i].line] = e}

\* Until an event is recorded, each of its copies is owed to a run that has ended
\* early or to one that is about to record it.  From then on no run comes to
\* insert it again, and those that had already checked each add one at most.
CopiesInv ==
  \A e \in EventSet :
    IF e \in imported
      THEN Cardinality(Copies(e)) + Cardinality(AtCall(e, "insert"))
             <= stops + Cardinality(Importers)
      ELSE Cardinality(Copies(e)) <= stops + Cardinality(AtCall(e, "record"))

\* Two sets that agree but for x.
LEMMA SetsDiffer ==
  ASSUME NEW S, NEW T, NEW x, IsFiniteSet(S), S \ {x} = T \ {x}
  PROVE  /\ IsFiniteSet(T) /\ Cardinality(S) \in Nat /\ Cardinality(T) \in Nat
         /\ Cardinality(T) + (IF x \in S THEN 1 ELSE 0)
              = Cardinality(S) + (IF x \in T THEN 1 ELSE 0)
<1>. DEFINE U == S \ {x}
<1>1. /\ IsFiniteSet(U) /\ Cardinality(S) \in Nat /\ Cardinality(U) \in Nat
      /\ Cardinality(U) = IF x \in S THEN Cardinality(S) - 1 ELSE Cardinality(S)
  BY FS_RemoveElement, FS_CardinalityType
<1>2. T = U \/ T = U \cup {x}
  OBVIOUS
<1>3. x \notin U /\ (x \in T => T = U \cup {x}) /\ (x \notin T => T = U)
  OBVIOUS
<1>. HIDE DEF U
<1>4. IsFiniteSet(U \cup {x}) /\ Cardinality(U \cup {x}) = Cardinality(U) + 1
  BY <1>1, <1>3, FS_AddElement
<1>5. CASE x \in T
  <2>1. T = U \cup {x}
    BY <1>3, <1>5
  <2>2. IsFiniteSet(T) /\ Cardinality(T) = Cardinality(U) + 1
    BY <1>4, <2>1
  <2>. QED  BY <1>1, <1>5, <2>2
<1>6. CASE x \notin T
  BY <1>1, <1>3, <1>6
<1>. QED  BY <1>5, <1>6

\* The runs at the two calls are different ones, and no more than there are.
LEMMA CallsCounted ==
  ASSUME TypeInv, NEW e
  PROVE  /\ IsFiniteSet(AtCall(e, "insert")) /\ IsFiniteSet(AtCall(e, "record"))
         /\ Cardinality(AtCall(e, "insert")) \in Nat
         /\ Cardinality(AtCall(e, "record")) \in Nat
         /\ Cardinality(Importers) \in Nat /\ stops \in Nat
         /\ Cardinality(AtCall(e, "insert")) + Cardinality(AtCall(e, "record"))
              <= Cardinality(Importers)
<1>. DEFINE A == AtCall(e, "insert")
            B == AtCall(e, "record")
<1>1. A \in SUBSET Importers /\ B \in SUBSET Importers /\ A \cap B = {}
      /\ A \cup B \in SUBSET Importers
  BY DEF AtCall
<1>2. stops \in Nat
  BY DEF TypeInv, TypeOK
<1>. HIDE DEF A, B
<1>3. IsFiniteSet(A) /\ IsFiniteSet(B) /\ Cardinality(A \cup B) <= Cardinality(Importers)
  BY <1>1, FS_Subset
<1>4. Cardinality(A \cap B) = 0
  BY <1>1, FS_EmptySet
<1>5. Cardinality(A \cup B) = Cardinality(A) + Cardinality(B) - Cardinality(A \cap B)
  BY <1>3, FS_Union
<1>6. Cardinality(A) \in Nat /\ Cardinality(B) \in Nat /\ Cardinality(Importers) \in Nat
  BY <1>3, FS_CardinalityType
<1>7. Cardinality(A) + Cardinality(B) <= Cardinality(Importers)
  BY <1>3, <1>4, <1>5, <1>6
<1>. QED  BY <1>2, <1>3, <1>6, <1>7 DEF A, B

\* The copies of an event are finitely many.
LEMMA CopiesCounted ==
  ASSUME TypeInv, NEW e
  PROVE  IsFiniteSet(Copies(e)) /\ Cardinality(Copies(e)) \in Nat
<1>1. DOMAIN observations = 1..Len(observations) /\ Len(observations) \in Nat
  BY DEF TypeInv, TypeOK
<1>2. IsFiniteSet(1..Len(observations)) /\ Copies(e) \in SUBSET (1..Len(observations))
  BY <1>1, FS_Interval DEF Copies
<1>. QED  BY <1>2, FS_Subset, FS_CardinalityType

\* A step of run i changes at most its own place.
LEMMA CallsChange ==
  ASSUME TypeInv, NEW i \in Importers, NEW e, NEW pc \in {"insert", "record"},
         \A j \in Importers \ {i} : importer'[j] = importer[j]
  PROVE  /\ Cardinality(AtCall(e, pc)') \in Nat
         /\ Cardinality(AtCall(e, pc)') + (IF i \in AtCall(e, pc) THEN 1 ELSE 0)
              = Cardinality(AtCall(e, pc)) + (IF i \in AtCall(e, pc)' THEN 1 ELSE 0)
<1>1. AtCall(e, pc) \ {i} = AtCall(e, pc)' \ {i}
  BY DEF AtCall
<1>. QED  BY <1>1, CallsCounted, SetsDiffer

\* One insertion adds one copy at most, of its own event.
LEMMA CopiesChange ==
  ASSUME TypeInv, NEW i \in Importers, Insert(i), NEW e
  PROVE  /\ Cardinality(Copies(e)') \in Nat
         /\ Cardinality(Copies(e)')
              <= Cardinality(Copies(e)) + (IF e = Current(i) THEN 1 ELSE 0)
<1>. DEFINE c == Current(i)
            row == [event |-> c, session |-> SessionOf[c], ts |-> Stamp(i)]
            n == Len(observations) + 1
<1>1. CASE observations' = observations
  <2>1. Copies(e)' = Copies(e)
    BY <1>1 DEF Copies
  <2>. QED  BY <2>1, CopiesCounted
<1>2. CASE observations' = Append(observations, row)
  <2>1. row.event = c
    OBVIOUS
  <2>2. observations \in Seq(Observations)
    BY DEF TypeInv, TypeOK
  <2>. HIDE DEF row
  <2>3. /\ DOMAIN observations' = DOMAIN observations \cup {n}
        /\ observations'[n] = row /\ n \notin DOMAIN observations
        /\ \A k \in DOMAIN observations : observations'[k] = observations[k]
    BY <1>2, <2>2
  <2>. HIDE DEF n, c
  <2>4. /\ Copies(e) \ {n} = Copies(e)' \ {n} /\ n \notin Copies(e)
        /\ n \in Copies(e)' => e = c
    BY <2>1, <2>3 DEF Copies
  <2>5. IsFiniteSet(Copies(e))
    BY CopiesCounted
  <2>6. /\ Cardinality(Copies(e)) \in Nat /\ Cardinality(Copies(e)') \in Nat
        /\ Cardinality(Copies(e)') + (IF n \in Copies(e) THEN 1 ELSE 0)
             = Cardinality(Copies(e)) + (IF n \in Copies(e)' THEN 1 ELSE 0)
    BY <2>4, <2>5, SetsDiffer
  <2>7. n \notin Copies(e) /\ (n \in Copies(e)' => e = Current(i))
    BY <2>4 DEF c
  <2>. QED  BY <2>6, <2>7
<1>. QED  BY <1>1, <1>2 DEF Insert

\* No step leaves a copy that is owed to no run.
LEMMA CopiesInductive == TypeInv /\ CopiesInv /\ [Next]_vars => CopiesInv'
<1>. SUFFICES ASSUME TypeInv, CopiesInv, [Next]_vars, NEW e \in EventSet
              PROVE  IF e \in imported'
                       THEN Cardinality(Copies(e)') + Cardinality(AtCall(e, "insert")')
                              <= stops' + Cardinality(Importers)
                       ELSE Cardinality(Copies(e)')
                              <= stops' + Cardinality(AtCall(e, "record")')
  BY DEF CopiesInv
<1>. DEFINE n == Cardinality(Importers)
            c == Cardinality(Copies(e))
            ins == Cardinality(AtCall(e, "insert"))
            rec == Cardinality(AtCall(e, "record"))
            Bounded == IF e \in imported' THEN c' + ins' <= stops' + n
                                          ELSE c' <= stops' + rec'
<1>c. c \in Nat
  BY CopiesCounted
<1>i. ins \in Nat
  BY CallsCounted
<1>r. rec \in Nat
  BY CallsCounted
<1>n. n \in Nat
  BY CallsCounted
<1>s. stops \in Nat
  BY CallsCounted
<1>1. /\ ins + rec <= n
      /\ IF e \in imported THEN c + ins <= stops + n ELSE c <= stops + rec
  BY CallsCounted, CopiesCounted DEF CopiesInv
<1>2. UNCHANGED observations => c' = c
  BY DEF Copies
<1>3. ASSUME NEW i \in Importers,
             \A j \in Importers \ {i} : importer'[j] = importer[j]
      PROVE  /\ ins' \in Nat /\ rec' \in Nat
             /\ ins' + (IF i \in AtCall(e, "insert") THEN 1 ELSE 0)
                  = ins + (IF i \in AtCall(e, "insert")' THEN 1 ELSE 0)
             /\ rec' + (IF i \in AtCall(e, "record") THEN 1 ELSE 0)
                  = rec + (IF i \in AtCall(e, "record")' THEN 1 ELSE 0)
  BY <1>3, CallsChange
<1>. HIDE DEF n, c, ins, rec
<1>4. ASSUME NEW i \in Importers, Start(i) PROVE Bounded
  <2>1. /\ \A j \in Importers \ {i} : importer'[j] = importer[j]
        /\ importer[i].pc \notin {"insert", "record"}
        /\ importer'[i].pc \notin {"insert", "record"}
        /\ UNCHANGED <<observations, imported, stops>>
    BY <1>4 DEF Start, TypeInv, TypeOK
  <2>2. /\ i \notin AtCall(e, "insert") /\ i \notin AtCall(e, "record")
        /\ i \notin AtCall(e, "insert")' /\ i \notin AtCall(e, "record")'
    BY <2>1 DEF AtCall
  <2>3. ins' = ins /\ rec' = rec
    BY <1>c, <1>i, <1>r, <1>n, <1>s, <1>1, <1>3, <2>1, <2>2
  <2>. QED  BY <1>c, <1>i, <1>r, <1>n, <1>s, <1>1, <1>2, <2>1, <2>3
<1>5. ASSUME NEW i \in Importers, Check(i) PROVE Bounded
  <2>1. /\ Under(i) /\ importer[i].pc = "check"
        /\ UNCHANGED <<observations, imported, stops>>
    BY <1>5 DEF Check, Under
  <2>2. \A j \in Importers \ {i} : importer'[j] = importer[j]
    BY <1>5, <2>1, RunMoves, RunAdvances DEF Check
  <2>3. /\ i \notin AtCall(e, "insert") /\ i \notin AtCall(e, "record")
    BY <2>1 DEF AtCall
  <2>4. CASE Current(i) \in imported /\ Advance(i)
    <3>1. importer'[i].pc \notin {"insert", "record"}
      BY <2>1, <2>4, RunAdvances
    <3>2. i \notin AtCall(e, "insert")' /\ i \notin AtCall(e, "record")'
      BY <3>1 DEF AtCall
    <3>3. ins' = ins /\ rec' = rec
      BY <1>c, <1>i, <1>r, <1>n, <1>s, <1>1, <1>3, <2>2, <2>3, <3>2
    <3>. QED  BY <1>c, <1>i, <1>r, <1>n, <1>s, <1>1, <1>2, <2>1, <3>3
  <2>5. CASE Current(i) \notin imported /\ Goto(i, "insert")
    <3>1. importer'[i].pc = "insert" /\ importer'[i].line = importer[i].line
      BY <2>1, <2>5, RunMoves
    <3>2. /\ i \notin AtCall(e, "record")'
          /\ i \in AtCall(e, "insert")' => e = Current(i)
      BY <3>1 DEF AtCall, Current
    <3>3. rec' = rec /\ (e \in imported => ins' = ins)
      BY <1>c, <1>i, <1>r, <1>n, <1>s, <1>1, <1>3, <2>2, <2>3, <2>5, <3>2
    <3>. QED  BY <1>c, <1>i, <1>r, <1>n, <1>s, <1>1, <1>2, <2>1, <3>3
  <2>. QED  BY <1>5, <2>4, <2>5 DEF Check, ImportedEventExists
<1>6. ASSUME NEW i \in Importers, Insert(i) PROVE Bounded
  <2>1. /\ Under(i) /\ importer[i].pc = "insert" /\ Goto(i, "record")
        /\ UNCHANGED <<imported, stops>>
    BY <1>6 DEF Insert, Under
  <2>2. /\ importer'[i].pc = "record" /\ importer'[i].line = importer[i].line
        /\ \A j \in Importers \ {i} : importer'[j] = importer[j]
    BY <2>1, RunMoves
  <2>3. /\ i \in AtCall(e, "insert") <=> e = Current(i)
        /\ i \in AtCall(e, "record")' <=> e = Current(i)
        /\ i \notin AtCall(e, "record") /\ i \notin AtCall(e, "insert")'
    BY <2>1, <2>2 DEF AtCall, Current
  <2>. DEFINE d == IF e = Current(i) THEN 1 ELSE 0
  <2>4. ins' + d = ins /\ rec' = rec + d
    BY <1>c, <1>i, <1>r, <1>3, <2>2, <2>3
  <2>5. c' \in Nat /\ c' <= c + d
    BY <1>6, CopiesChange DEF c
  <2>6. ins' \in Nat /\ rec' \in Nat
    BY <1>3, <2>2
  <2>7. d \in {0, 1}
    OBVIOUS
  <2>. HIDE DEF d, Bounded
  <2>8. PICK c0 \in Nat, c1 \in Nat, ins0 \in Nat, ins1 \in Nat, rec0 \in Nat,
             rec1 \in Nat, n0 \in Nat, s0 \in Nat, d0 \in {0, 1} :
          /\ c0 = c /\ c1 = c' /\ ins0 = ins /\ ins1 = ins' /\ rec0 = rec
          /\ rec1 = rec' /\ n0 = n /\ s0 = stops /\ d0 = d
    BY <1>c, <1>i, <1>r, <1>n, <1>s, <2>5, <2>6, <2>7
  <2>9. c1 <= c0 + d0 /\ ins1 + d0 = ins0 /\ rec1 = rec0 + d0
    BY <2>4, <2>5, <2>8
  <2>10. /\ c0 + ins0 <= s0 + n0 => c1 + ins1 <= s0 + n0
         /\ c0 <= s0 + rec0 => c1 <= s0 + rec1
    BY <2>9
  <2>11. /\ c + ins <= stops + n => c' + ins' <= stops + n
         /\ c <= stops + rec => c' <= stops + rec'
    BY <2>8, <2>10
  <2>. QED  BY <1>1, <2>1, <2>11 DEF Bounded
<1>7. ASSUME NEW i \in Importers, Record(i) PROVE Bounded
  <2>1. /\ Under(i) /\ importer[i].pc = "record" /\ Advance(i)
        /\ imported' = imported \cup {Current(i)}
        /\ UNCHANGED <<observations, stops>>
    BY <1>7 DEF Record, Under
  <2>2. /\ importer'[i].pc \notin {"insert", "record"}
        /\ \A j \in Importers \ {i} : importer'[j] = importer[j]
    BY <2>1, RunAdvances
  <2>3. /\ i \in AtCall(e, "record") => e = Current(i)
        /\ i \notin AtCall(e, "insert") /\ i \notin AtCall(e, "insert")'
        /\ i \notin AtCall(e, "record")'
    BY <2>1, <2>2 DEF AtCall, Current
  <2>4. ins' = ins /\ (e # Current(i) => rec' = rec)
    BY <1>c, <1>i, <1>r, <1>n, <1>s, <1>1, <1>3, <2>2, <2>3
  <2>. QED  BY <1>c, <1>i, <1>r, <1>n, <1>s, <1>1, <1>2, <2>1, <2>4
<1>8. ASSUME NEW i \in Importers, Stop(i) PROVE Bounded
  <2>1. /\ Under(i) /\ Goto(i, "none") /\ stops' = stops + 1
        /\ UNCHANGED <<observations, imported>>
    BY <1>8 DEF Stop, Under
  <2>2. /\ importer'[i].pc = "none"
        /\ \A j \in Importers \ {i} : importer'[j] = importer[j]
    BY <2>1, RunMoves
  <2>3. i \notin AtCall(e, "insert")' /\ i \notin AtCall(e, "record")'
    BY <2>2 DEF AtCall
  <2>. DEFINE d == IF i \in AtCall(e, "insert") THEN 1 ELSE 0
              b == IF i \in AtCall(e, "record") THEN 1 ELSE 0
  <2>4. ins' + d = ins /\ rec' + b = rec
    BY <1>i, <1>r, <1>3, <2>2, <2>3
  <2>5. ins' \in Nat /\ rec' \in Nat
    BY <1>3, <2>2
  <2>6. d \in {0, 1} /\ b \in {0, 1}
    OBVIOUS
  <2>. HIDE DEF d, b, Bounded
  <2>7. PICK c0 \in Nat, ins0 \in Nat, ins1 \in Nat, rec0 \in Nat, rec1 \in Nat,
             n0 \in Nat, s0 \in Nat, d0 \in {0, 1}, b0 \in {0, 1} :
          /\ c0 = c /\ ins0 = ins /\ ins1 = ins' /\ rec0 = rec /\ rec1 = rec'
          /\ n0 = n /\ s0 = stops /\ d0 = d /\ b0 = b
    BY <1>c, <1>i, <1>r, <1>n, <1>s, <2>5, <2>6
  <2>8. ins1 + d0 = ins0 /\ rec1 + b0 = rec0
    BY <2>4, <2>7
  <2>9. /\ c0 + ins0 <= s0 + n0 => c0 + ins1 <= (s0 + 1) + n0
        /\ c0 <= s0 + rec0 => c0 <= (s0 + 1) + rec1
    BY <2>8
  <2>10. /\ c + ins <= stops + n => c + ins' <= (stops + 1) + n
         /\ c <= stops + rec => c <= (stops + 1) + rec'
    BY <2>7, <2>9
  <2>11. c' = c
    BY <1>2, <2>1
  <2>. QED  BY <1>1, <2>1, <2>10, <2>11 DEF Bounded
<1>9. ASSUME Tick \/ UNCHANGED vars PROVE Bounded
  <2>1. UNCHANGED <<observations, imported, importer, stops>>
    BY <1>9 DEF Tick, vars
  <2>2. ins' = ins /\ rec' = rec
    BY <2>1 DEF ins, rec, AtCall
  <2>. QED  BY <1>c, <1>i, <1>r, <1>n, <1>s, <1>1, <1>2, <2>1, <2>2
<1>10. Bounded
  <2>. HIDE DEF Bounded
  <2>. QED  BY <1>4, <1>5, <1>6, <1>7, <1>8, <1>9 DEF Next, Step
<1>. QED  BY <1>10 DEF n, c, ins, rec

\* Events are not imported exactly once, but whatever runs overlap and end early:
\* there are no more copies than early ends and runs at a time.
THEOREM CopiesBoundedHolds == Spec => []CopiesBounded
<1>1. Init => CopiesInv
  <2>. SUFFICES ASSUME Init, NEW e \in EventSet
                PROVE  /\ e \notin imported
                       /\ Cardinality(Copies(e)) <= stops + Cardinality(AtCall(e, "record"))
    BY DEF CopiesInv
  <2>1. Copies(e) = {} /\ AtCall(e, "record") = {} /\ imported = {} /\ stops = 0
    BY DEF Init, Copies, AtCall
  <2>2. Cardinality(Copies(e)) = 0 /\ Cardinality(AtCall(e, "record")) = 0
    BY <2>1, FS_EmptySet
  <2>. QED  BY <2>1, <2>2
<1>2. TypeInv /\ CopiesInv => CopiesBounded
  <2>. SUFFICES ASSUME TypeInv, CopiesInv, NEW e \in EventSet
                PROVE  Cardinality(Copies(e)) <= stops + Cardinality(Importers)
    BY DEF CopiesBounded
  <2>. QED  BY CallsCounted, CopiesCounted DEF CopiesInv
<1>. QED  BY <1>1, <1>2, CopiesInductive, TypeInvHolds, PTL DEF Spec
=============================================================================
