----------------------------- MODULE ImportJSONL -----------------------------
(***************************************************************************)
(* mcb import-jsonl: a process per run, next to the daemon and to other    *)
(* runs, reads a Claude transcript line by line.  For each line it asks    *)
(* imported_events, inserts the observation and records the event, in      *)
(* three separate database calls; a run may end between any two of them,   *)
(* and the user starts it again.                                           *)
(*                                                                         *)
(* An event is its identity (transcript path and uuid, or line number);    *)
(* lines that repeat an identity repeat the event.  The hash of the        *)
(* observation is derived from the identity, and differs from the hashes   *)
(* of captured events.                                                     *)
(***************************************************************************)
EXTENDS Sessions, Sequences, FiniteSets

CONSTANTS Lines,       \* the transcript: a sequence of events
          SessionOf,   \* the session each event belongs to
          SourceTime,  \* the timestamp of each event, or NoTime
          Project,     \* the cwd of the events
          Importers,
          MaxTime,     \* bound of the clock
          MaxStops     \* how many runs may end early

EventSet == {Lines[k] : k \in DOMAIN Lines}

ASSUME ImportAssumption ==
  /\ Lines \in Seq(EventSet)
  /\ SourceTime \in [EventSet -> Nat \cup {NoTime}]
  /\ DOMAIN SessionOf = EventSet
  /\ MaxTime \in Nat /\ MaxStops \in Nat
  /\ IsFiniteSet(Importers)

VARIABLES now,
          sessions,      \* table sessions
          observations,  \* table observations, in id order
          imported,      \* table imported_events
          importer,      \* where each run stands
          stops          \* how many runs have ended early

vars == <<now, sessions, observations, imported, importer, stops>>

Times == 0..MaxTime
SessionIds == {SessionOf[e] : e \in EventSet}
Stamps == Times \cup ({SourceTime[e] : e \in EventSet} \ {NoTime})
Observations == [event : EventSet, session : SessionIds, ts : Stamps]

\* importedAt: io.Now(), taken when the run reaches the file.
Runs == [pc : {"none", "check", "insert", "record", "done"},
         line : 1..(Len(Lines) + 1), importedAt : Times]

TypeOK ==
  /\ now \in Times
  /\ DOMAIN sessions \subseteq SessionIds
  /\ sessions \in [DOMAIN sessions -> SessionRows({Project}, Stamps)]
  /\ observations \in Seq(Observations)
  /\ imported \subseteq EventSet
  /\ importer \in [Importers -> Runs]
  /\ stops \in 0..MaxStops

Init ==
  /\ now = 0
  /\ sessions = [s \in {} |-> s]
  /\ observations = <<>>
  /\ imported = {}
  /\ importer = [i \in Importers |-> [pc |-> "none", line |-> 1,
                                      importedAt |-> 0]]
  /\ stops = 0
------------------------------------------------------------------------------
Current(i) == Lines[importer[i].line]

Goto(i, pc) == importer' = [importer EXCEPT ![i].pc = pc]

\* The next line, or the end of the file.
Advance(i) ==
  importer' = [importer EXCEPT
    ![i].line = @ + 1,
    ![i].pc = IF importer[i].line = Len(Lines) THEN "done" ELSE "check"]

\* The user runs the command, for the first time or again.
Start(i) ==
  /\ importer[i].pc \in {"none", "done"}
  /\ importer' = [importer EXCEPT ![i] =
       [pc |-> IF Lines = <<>> THEN "done" ELSE "check",
        line |-> 1, importedAt |-> now]]
  /\ UNCHANGED <<now, sessions, observations, imported, stops>>

\* Mutants: the check finds nothing; it looks for any event of the file.
ImportedNever(e) == FALSE
ImportedAnything(e) == imported # {}

ImportedEventExists(e) == e \in imported

Check(i) ==
  /\ importer[i].pc = "check"
  /\ \/ ImportedEventExists(Current(i)) /\ Advance(i)
     \/ ~ImportedEventExists(Current(i)) /\ Goto(i, "insert")
  /\ UNCHANGED <<now, sessions, observations, imported, stops>>

\* firstJSONLTimestamp: the event's own time, or that of the import.
Stamp(i) == IF SourceTime[Current(i)] = NoTime THEN importer[i].importedAt
                                               ELSE SourceTime[Current(i)]

\* Mutant: the timestamps alone are compared.
IsDuplicateAnyEvent(e, ts) == \E k \in DOMAIN observations :
                                observations[k].ts > ts

\* InsertObservation with a window of zero: only a copy with a later
\* timestamp counts as a duplicate.
IsDuplicate(e, ts) ==
  \E k \in DOMAIN observations : observations[k].event = e
                                 /\ observations[k].ts > ts

\* Mutant: an error of the insertion is ignored.
InsertUnchecked(i) ==
  /\ importer[i].pc = "insert"
  /\ Goto(i, "record")
  /\ UNCHANGED <<now, sessions, observations, imported, stops>>

Insert(i) ==
  LET e == Current(i)
      s == SessionOf[e]
      ensured == EnsureSession(sessions, s, Project, Stamp(i))
  IN /\ importer[i].pc = "insert"
     /\ \/ /\ IsDuplicate(e, Stamp(i))
           /\ sessions' = ensured
           /\ UNCHANGED observations
        \/ /\ ~IsDuplicate(e, Stamp(i))
           /\ observations' = Append(observations,
                [event |-> e, session |-> s, ts |-> Stamp(i)])
           /\ sessions' = CountObservation(ensured, s)
     /\ Goto(i, "record")
     /\ UNCHANGED <<now, imported, stops>>

\* RecordImportedEvent: ON CONFLICT DO NOTHING, and the next line.
Record(i) ==
  /\ importer[i].pc = "record"
  /\ imported' = imported \cup {Current(i)}
  /\ Advance(i)
  /\ UNCHANGED <<now, sessions, observations, stops>>

\* A line that does not parse, a database error, or the end of the process.
Stop(i) ==
  /\ importer[i].pc \in {"check", "insert", "record"} /\ stops < MaxStops
  /\ Goto(i, "none")
  /\ stops' = stops + 1
  /\ UNCHANGED <<now, sessions, observations, imported>>

Tick == now < MaxTime /\ now' = now + 1
          /\ UNCHANGED <<sessions, observations, imported, importer, stops>>

Step(i) == Check(i) \/ Insert(i) \/ Record(i)

Next == Tick \/ \E i \in Importers : Start(i) \/ Step(i) \/ Stop(i)

Spec == Init /\ [][Next]_vars
------------------------------------------------------------------------------
Copies(e) == {k \in DOMAIN observations : observations[k].event = e}

\* The three calls are in the safe order: an event is recorded as imported
\* only when its observation is stored, so no crash loses an event for good.
RecordedIsStored == \A e \in imported : Copies(e) # {}

\* A run that reports success has imported every line of the transcript,
\* whichever of them other runs were working on.
DoneIsComplete ==
  \A i \in Importers : importer[i].pc = "done" => imported = EventSet

\* How far importing falls short of once: each copy of an event after the
\* first is owed to a run that ended before it recorded the event, or to one
\* that had checked before another recorded it.  Runs that repeat add none.
CopiesBounded ==
  \A e \in EventSet :
    Cardinality(Copies(e)) <= stops + Cardinality(Importers)

\* As documented, imports are idempotent by transcript path and event
\* identity: no event is stored twice.
ImportedOnce == \A e \in EventSet : Cardinality(Copies(e)) <= 1

\* The user lets a run end, and after an early end starts another one.
LiveSpec ==
  /\ Spec
  /\ \A i \in Importers : /\ WF_vars(Step(i))
                          /\ WF_vars(importer[i].pc = "none" /\ Start(i))

\* Every event of the transcript is in the database in the end, for good.
AllImported == <>[](\A e \in EventSet : e \in imported /\ Copies(e) # {})
=============================================================================
