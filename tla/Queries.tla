------------------------------ MODULE Queries -------------------------------
(***************************************************************************)
(* What reads the store in more than one query: memory_search, _recall and *)
(* mcb search (internal/search, hybrid.go), the context of session-start,  *)
(* opencode/context and pre-compact, memory_file_history, _timeline,       *)
(* _export and _verify.  Every query is its own snapshot, and tools and    *)
(* hooks write between them.                                               *)
(*                                                                         *)
(* The memories are a MemoryBank, which MemoryStore implements.  All are   *)
(* of the project asked for.  The clock advances with every row stored.    *)
(* The results of a query are the set of its rows, except where their      *)
(* order has a use.                                                        *)
(***************************************************************************)
EXTENDS RankFusion

CONSTANTS Ids, Texts,
          Bm25,        \* how well each text matches what is asked for, or 0
          Cosine,      \* how near the vector of each text is to the query's
          SessionIds,
          Query,       \* the queries asked
          Visible,     \* for each, what it can tell of the writes: their
                       \* kinds, texts, sessions, projects; and a bound
          BM25TopK, VectorTopK, FinalTopK,   \* bm25_top_k, ...
          SearchLimit,                       \* the limit of a search
          ReadLimit,                         \* the limit of any other query
          SessionLimit,      \* what ListSessions makes of it: 100 at most
          VerifyLimit,       \* of VerifyMemory
          ScanLimit          \* of the rows that FileHistory looks into

ASSUME QueriesAssumption ==
  /\ Ids \subseteq Nat \ {0}
  /\ {Bm25, Cosine} \subseteq [Texts -> Nat]
  /\ {BM25TopK, VectorTopK, FinalTopK, SearchLimit, ReadLimit, SessionLimit,
      VerifyLimit, ScanLimit} \subseteq Nat \ {0}
  /\ BM25TopK <= MaxRank /\ VectorTopK <= MaxRank
  /\ Query \subseteq {"search", "context", "enrich", "history", "timeline",
                "export", "verify"}
  /\ \A query \in Query : /\ Visible[query].texts \subseteq Texts
                          /\ Visible[query].sessions \subseteq SessionIds
                          /\ Visible[query].bound \in Nat
  /\ NoSession \notin SessionIds /\ IsFiniteSet(SessionIds)

VARIABLES bank, used,    \* memories, as in MemoryBank
          born,          \* session_id, created_at and first text of each
          vectors,       \* table memory_embeddings: the text embedded
          sessions,      \* table sessions: project is the one asked for?,
                         \* started_at as the number of rows before it, ...
          observations,  \* table observations: session, cwd is project?, ts
          audit,         \* table audit_events, in id order, for who reads it
          writes,        \* the number of writes so far
          reader,        \* the query under way, or its answer
          since          \* history: what was so when it began

memoryTables == <<bank, used, born, vectors, audit>>
db == <<memoryTables, sessions, observations, writes>>
vars == <<db, reader, since>>

NoId == 0
Bank == INSTANCE MemoryBank WITH None <- NoId
T == INSTANCE Tables

Current == {id \in DOMAIN bank : bank[id].by = NoId}
Matching == {id \in Current : Bm25[bank[id].text] > 0}
SessionOf == [id \in used |-> born[id].session]

Nothing == [hidden |-> {}, steady |-> {}, rows |-> {}]

\* The rows of a timeline, each named by its timestamp.
MemoryTimes == {born[id].ts : id \in DOMAIN bank}
ObservationTimes == {observations[i].ts : i \in {j \in DOMAIN observations :
                                                   observations[j].here}}

Init ==
  /\ Bank!Init
  /\ born = [id \in {} |-> id]
  /\ vectors = [id \in {} |-> id]
  /\ sessions = [s \in {} |-> s]
  /\ observations = <<>>
  /\ audit = <<>>
  /\ writes = 0
  /\ \E query \in Query : reader = [pc |-> "idle", query |-> query]
  /\ since = Nothing
------------------------------------------------------------------------------
\* The writes of the tools and hooks.
Write(kind) ==
  /\ kind \in Visible[reader.query].kinds
  /\ writes < Visible[reader.query].bound
  /\ writes' = writes + 1

Now == 1 + Cardinality(used) + Len(observations)

Log(action, id, ts) ==
  audit' = IF reader.query = "verify"
             THEN Append(audit, [action |-> action, memory |-> id, ts |-> ts])
             ELSE audit

EnsureSession(s, here) ==
  IF s \in DOMAIN sessions
    THEN sessions
    ELSE T!Put(sessions, s,
           [here |-> here, started |-> Cardinality(DOMAIN sessions),
            nObs |-> 0, summary |-> FALSE])

\* A hook, in the project or in another, or memory_save before it saves.
Ensure(s, here) ==
  /\ s \notin DOMAIN sessions
  /\ sessions' = EnsureSession(s, here)
  /\ UNCHANGED <<memoryTables, observations, writes>>

\* memory_save, under the next identifier.
AddMemory(text, s) ==
  LET id == 1 + Cardinality(used)
  IN /\ Write("add") /\ id \in Ids
     /\ s \in DOMAIN sessions \cup {NoSession}
     /\ Bank!Save(id, text)
     /\ born' = T!Put(born, id, [session |-> s, ts |-> Now, text |-> text])
     /\ Log("create", id, Now)
     /\ UNCHANGED <<vectors, sessions, observations>>

UpdateMemory(id, text) ==
  /\ Write("update") /\ id \in DOMAIN bank
  /\ Bank!Edit(id, text)
  /\ Log("update", id, Now)
  /\ UNCHANGED <<born, vectors, sessions, observations>>

SupersedeMemory(old, new) ==
  /\ Write("supersede") /\ {old, new} \subseteq DOMAIN bank
  /\ Bank!Replace(old, new)
  /\ Log("supersede", old, 0)
  /\ UNCHANGED <<born, vectors, sessions, observations>>

\* memory_forget; a decay pass does the same without the event.
DeleteMemory(id) ==
  /\ Write("forget") /\ id \in DOMAIN bank
  /\ Bank!Remove({id})
  /\ vectors' = T!Without(vectors, {id})
  /\ Log("delete", id, 0)
  /\ UNCHANGED <<born, sessions, observations>>

SaveMemoryEmbedding(id) ==
  /\ Write("embed") /\ id \in DOMAIN bank
  /\ vectors' = T!Put(vectors, id, bank[id].text)
  /\ UNCHANGED <<bank, used, born, sessions, observations, audit>>

\* Of a session that may have left the project's directory.
InsertObservation(s, here) ==
  /\ Write("observe")
  /\ observations' = Append(observations, [session |-> s, here |-> here, ts |-> Now])
  /\ sessions' = [EnsureSession(s, here) EXCEPT ![s].nObs = @ + 1]
  /\ UNCHANGED memoryTables

SaveSessionSummary(s) ==
  /\ Write("summary") /\ s \in DOMAIN sessions
  /\ sessions' = [sessions EXCEPT ![s].summary = TRUE]
  /\ UNCHANGED <<memoryTables, observations>>

\* Not while an answer is looked at.  A search remembers what has been current
\* and matching all the while.
WriteStep ==
  LET tells == Visible[reader.query]
  IN /\ reader.pc # "answered"
     /\ \/ \E text \in tells.texts, id \in Ids : UpdateMemory(id, text)
        \/ \E text \in tells.texts, s \in tells.sessions \cup {NoSession} :
             AddMemory(text, s)
        \/ \E id1, id2 \in Ids : SupersedeMemory(id1, id2)
        \/ \E id \in Ids : DeleteMemory(id) \/ SaveMemoryEmbedding(id)
        \/ \E s \in tells.sessions :
             \/ SaveSessionSummary(s)
             \/ \E here \in tells.here : Ensure(s, here) \/ InsertObservation(s, here)
     /\ since' = [since EXCEPT !.steady = @ \cap Matching']
     /\ UNCHANGED reader
------------------------------------------------------------------------------
\* In any process, with or without FTS5; without an embedding provider a
\* search is lexical from the start.
Ask ==
  /\ reader.pc = "idle"
  /\ reader' \in
       IF reader.query = "search"
         THEN [pc : {"lexical", "fallback"}, query : {"search"}, fts5 : BOOLEAN]
         ELSE {[pc |-> "reading", query |-> reader.query, id |-> id,
                got |-> [table \in {} |-> {}]] :
                 id \in IF reader.query = "verify" THEN Ids ELSE {NoId}}
  /\ since' = [hidden |-> used \ Current, steady |-> Matching,
               rows |-> MemoryTimes \cup ObservationTimes]
  /\ UNCHANGED db

\* An answer, or an error.
Finish ==
  /\ reader.pc # "idle"
  /\ reader' = [pc |-> "idle", query |-> reader.query]
  /\ since' = Nothing
  /\ UNCHANGED db

First(list, n) == SubSeq(list, 1, IF Len(list) < n THEN Len(list) ELSE n)

\* SearchMemories: by score; created_at decides between equal scores, and may
\* do so either way.
SearchMemories(limit) ==
  LET score(id) == Bm25[bank[id].text]
  IN {First(list, limit) :
        list \in Sorted(Matching, LAMBDA a, b : score(a) >= score(b))}

\* The first query of Hybrid; a build without FTS5 goes on without a list.
Lexical ==
  /\ reader.pc = "lexical"
  /\ \E list \in IF reader.fts5 THEN SearchMemories(BM25TopK) ELSE {<<>>} :
       reader' = [pc |-> "vector", query |-> "search", fts5 |-> reader.fts5,
                  bm25 |-> list]
  /\ UNCHANGED <<db, since>>

\* Mutant: WHERE m.project = ? AND me.model = ? AND me.dim = ?.
CandidatesAny == DOMAIN vectors

Candidates == DOMAIN vectors \cap Current

\* vectorResults of an Ollama that answers.
VectorResults ==
  LET near(id) == Cosine[vectors[id]]
      before(a, b) == near(a) > near(b) \/ (near(a) = near(b) /\ a < b)
  IN First(CHOOSE list \in Sorted(Candidates, before) : TRUE, VectorTopK)

FinalK == IF SearchLimit < FinalTopK THEN SearchLimit ELSE FinalTopK

\* The second query.  With the breaker open, or after an error when there is a
\* lexical list, there are no vector results.
Vector ==
  /\ reader.pc = "vector"
  /\ \E vector \in {VectorResults, <<>>} :
       reader' = [pc |-> "answered", query |-> "search", fts5 |-> reader.fts5,
                  fused |-> TRUE, bm25 |-> reader.bm25, vector |-> vector,
                  list |-> FuseRRF(reader.bm25, vector, SessionOf, FinalK)]
  /\ UNCHANGED <<db, since>>

\* The store fails in a query or in TouchMemories, or Ollama does and there is
\* no lexical list.
HybridFails ==
  /\ reader.pc \in {"lexical", "vector"}
  /\ reader' = [pc |-> "fallback", query |-> "search", fts5 |-> reader.fts5]
  /\ UNCHANGED <<db, since>>

\* search of the MCP server, and searchMemories of the CLI: lexical only, which
\* is an error without FTS5.
Fallback ==
  /\ reader.pc = "fallback" /\ reader.fts5
  /\ \E list \in SearchMemories(SearchLimit) :
       reader' = [pc |-> "answered", query |-> "search", fts5 |-> TRUE,
                  fused |-> FALSE, list |-> list]
  /\ UNCHANGED <<db, since>>
------------------------------------------------------------------------------
\* Mutants: the observations, the audit log first.
ExportReversed == <<"observations", "sessions", "memories">>
VerifyMemoryReversed == <<"audit", "memory", "evidence">>

\* The queries of each, in order; the first two follow their EnsureSession.
Context == <<"recent", "summaries">>
Enrich == <<"mentioning">>
FileHistory == <<"scanned", "observations">>
TimelineQueries == <<"observations", "memories">>
Export == <<"memories", "sessions", "observations">>
VerifyMemory == <<"memory", "evidence", "audit">>

Program(query) ==
  CASE query = "context"  -> Context
    [] query = "enrich"   -> Enrich
    [] query = "history"  -> FileHistory
    [] query = "timeline" -> TimelineQueries
    [] query = "export"   -> Export
    [] query = "verify"   -> VerifyMemory

\* ORDER BY ts DESC LIMIT; ORDER BY ts LIMIT.  The file asked for is in all
\* observations and in the texts that match.
Newest(rows, ts(_), limit) ==
  {r \in rows : Cardinality({x \in rows : ts(x) > ts(r)}) < limit}
Oldest(rows, ts(_), limit) ==
  {r \in rows : Cardinality({x \in rows : ts(x) < ts(r)}) < limit}

BornAt(id) == born[id].ts

NewestMemories(ids) == Newest(ids, BornAt, ReadLimit)

\* FileHistory looks for the file in the newest rows only.
ScannedMemories == NewestMemories(Newest(Current, BornAt, ScanLimit) \cap Matching)

SessionsHere == {s \in DOMAIN sessions : sessions[s].here}

StartedAt(s) == sessions[s].started

ListSessions == Newest(SessionsHere, StartedAt, SessionLimit)

\* Not cut here, to the three that ended last: nothing is said of them.
RecentSessionSummaries == {s \in SessionsHere : sessions[s].summary}

Listed(ids) == {[id |-> s, nObs |-> sessions[s].nObs] : s \in ids}

ObservedAt(i) == observations[i].ts

SessionObservations(s) ==
  Oldest({i \in DOMAIN observations : observations[i].session = s},
         ObservedAt, VerifyLimit)

\* AuditEvents: those without a timestamp come last.
AuditEvents(id) ==
  LET key(i) == (Len(audit) + 1) * audit[i].ts + i
  IN Newest({i \in DOMAIN audit : audit[i].memory = id}, key, VerifyLimit)

Rows(table, id) ==
  CASE table = "recent"       -> NewestMemories(Current)
    [] table = "mentioning"   -> NewestMemories(Matching)
    [] table = "scanned"      -> ScannedMemories
    [] table = "memories"     -> NewestMemories(DOMAIN bank)
    [] table = "memory"       -> {bank[i] : i \in {id} \cap DOMAIN bank}
    [] table = "sessions"     -> Listed(ListSessions)
    [] table = "summaries"    -> Listed(RecentSessionSummaries)
    [] table = "observations" ->
         Newest({i \in DOMAIN observations : observations[i].here},
                ObservedAt, ReadLimit)
    [] table = "evidence"     ->
         IF id \in used THEN SessionObservations(born[id].session) ELSE {}
    [] table = "audit"        -> AuditEvents(id)

\* The next query; VerifyMemory fails without its memory.
Read ==
  LET program == Program(reader.query)
      done == Cardinality(DOMAIN reader.got)
      table == program[done + 1]
      rows == Rows(table, reader.id)
  IN /\ reader.pc = "reading"
     /\ table = "memory" => rows # {}
     /\ reader' = [reader EXCEPT
          !.got = T!Put(@, table, rows),
          !.pc = IF done + 1 = Len(program) THEN "answered" ELSE "reading"]
     /\ UNCHANGED <<db, since>>

\* Mutant: cut before it is sorted.
TimelineUnsorted(seen, memories) ==
  seen \cup Newest(memories, LAMBDA ts : ts, ReadLimit - Cardinality(seen))

\* Timeline: the two lists merged by time, and the first of them.
Timeline(seen, memories) == Oldest(seen \cup memories, LAMBDA ts : ts, ReadLimit)

Next == \/ WriteStep \/ Ask \/ Lexical \/ Vector \/ HybridFails \/ Fallback
        \/ Read \/ Finish

Spec == Init /\ [][Next]_vars
------------------------------------------------------------------------------
Answered(query) == reader.pc = "answered" /\ reader.query = query

\* The results of a search are fused as documented, whatever was saved, deleted
\* or superseded between its two lists.
FusionIsRight ==
  Answered("search") /\ reader.fused =>
    IsFusion(reader.list, reader.bm25, reader.vector, SessionOf, FinalK)

\* A memory that was superseded or deleted before it was asked for is neither
\* found, by words or by its vector, nor put into an agent's context.
NothingHidden ==
  LET shown == CASE Answered("search")  -> ToSet(reader.list)
                 [] Answered("context") -> reader.got["recent"]
                 [] Answered("enrich")  -> reader.got["mentioning"]
                 [] Answered("history") -> reader.got["scanned"]
                 [] OTHER               -> {}
  IN shown \cap since.hidden = {}

\* Whatever Ollama and other tools do meanwhile: a memory that matches by its
\* words, and is current, all through a search is found unless the list or the
\* share of its session is full.
SteadyIsFound ==
  Answered("search") /\ reader.fts5 =>
    \A id \in since.steady :
      \/ Contains(reader.list, id)
      \/ Len(reader.list) = IF reader.fused THEN FinalK ELSE SearchLimit
      \/ reader.fused /\ \/ Capped(reader.list, SessionOf, id)
                         \/ Len(reader.bm25) = BM25TopK

\* A session that ListSessions leaves out started before all that it lists, as
\* many as it may.
CutFromSessions(s, rows) ==
  /\ Cardinality(rows) = SessionLimit
  /\ \A row \in rows : sessions[s].started < sessions[row.id].started

\* An export, although read in three snapshots, holds the session of each of
\* its memories, if of the project and not cut from the list; and of those it
\* holds the observations they count, as far as they are of the project and the
\* list of observations is not full.
ExportCloses ==
  Answered("export") =>
    LET rows == reader.got["sessions"]
        listed == reader.got["observations"]
        with(s) == {i \in DOMAIN observations : observations[i].session = s}
    IN /\ \A id \in reader.got["memories"] :
            born[id].session \in SessionsHere =>
              \/ born[id].session \in {row.id : row \in rows}
              \/ CutFromSessions(born[id].session, rows)
       /\ Cardinality(listed) = ReadLimit \/
            \A row \in rows :
              row.nObs <= Cardinality({i \in with(row.id) :
                                         observations[i].here => i \in listed})

\* memory_verify explains the row it has read, although others write before it
\* reads the events: a text that is not the first one by an update, however many
\* events there are; a supersession by its event, which has no time and is cut
\* first, unless the list of events is full.
VerifyExplains ==
  Answered("verify") =>
    LET events == reader.got["audit"]
        actions == {audit[i].action : i \in events}
    IN \A row \in reader.got["memory"] :
         /\ row.text # born[reader.id].text => "update" \in actions
         /\ row.by # NoId => \/ "supersede" \in actions
                            \/ Cardinality(events) = VerifyLimit

\* The two lists of a timeline, as times, and what was in the tables when it
\* was asked for and still is.
Seen == {observations[i].ts : i \in reader.got["observations"]}
Remembered == {born[id].ts : id \in reader.got["memories"]}
Listing == Timeline(Seen, Remembered)
Lasting(times) == since.rows \cap times

\* What a timeline leaves out it leaves out for its limit, at one of two ends:
\* either the row is after all that are shown, or its kind has as many newer
\* rows.  So a timeline that is not full is whole; a full one may lack rows
\* between those it shows, when one of its lists is full.
TimelineCuts ==
  Answered("timeline") =>
    \A kind \in {<<MemoryTimes, Remembered>>, <<ObservationTimes, Seen>>} :
      \A ts \in Lasting(kind[1]) \ Listing :
        /\ Cardinality(Listing) = ReadLimit
        /\ \/ \A x \in Listing : x < ts
           \/ Cardinality(kind[2]) = ReadLimit /\ \A x \in kind[2] : ts < x
=============================================================================
