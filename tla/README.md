# yet-another-memory-bank: TLA+ models and proofs

mcb is a local memory service for coding agents: a Go daemon over one SQLite
file, fed by hooks of Claude Code and OpenCode, read and written by agents over
MCP, and administered by a command line tool that opens the same file. This
directory models its logic in TLA+, checks the models with TLC and proves the
central properties with TLAPS for all values of the constants.

Paths are relative to the repository; `PROJECT.json` names, for each
definition, the lines it models.

## The system

| component | state | operations | shares state with |
|---|---|---|---|
| sessions (`internal/store/sessions.go`) | table `sessions` | ensure (upsert, first wins), end, save summary, count an observation | every path below |
| capture (`internal/server`, `store/observations.go`) | table `observations` | 12 capture routes, session-start, context, enrich, session-end | import, compaction (`n_obs`) |
| compaction (`server.requestCompaction`, `store/compaction.go`, two MCP tools) | table `compaction_attempts` | stop, compact, save summary, save memory | sessions, memories |
| memories (`store/memories.go`, `compaction.go`, `mcp_helpers.go`) | tables `memories`, `memories_fts`, `audit_events` | add, update, supersede, forget, touch, decay | embeddings |
| embeddings (`store/embeddings.go`, `admin/embed.go`) | table `memory_embeddings` | embed one, embed missing, rebuild | memories |
| circuit breaker (`internal/embed`) | three fields in memory, no lock | open?, record failure, record success | search and save |
| search (`internal/search`) | none | lexical and vector query, rank fusion, fallbacks, touch | memories, embeddings, breaker |
| import (`admin/import_jsonl.go`) | table `imported_events` | import a transcript | sessions, observations |
| migrations (`store/store.go`, `migrations.go`) | table `schema_version`, all tables | open, apply each file once, create `memories_fts` | every process at start, backup |
| backup (`admin/backup.go`) | a temporary file, the target | copy, rename | migrations |
| OpenCode plugin (`opencode/plugin/mcb.ts`) | stash of files, sets of seen ids | event handlers that await posts | the daemon, over HTTP |
| read paths (`store/phase2_helpers.go`, `mcp_helpers.go`, MCP tools) | none | context, file history, timeline, export, verify: several queries each | sessions, observations, memories, audit |
| config, doctor, secrets, bench | none of their own | parsing, reports | - |

How they interact:

- Each process has one write connection (`SetMaxOpenConns(1)`) and SQLite
  admits one writer at a time, so **a statement or a transaction is atomic and
  one step of the models; the code between two store calls is not**. Requests
  of the daemon are goroutines; the CLI is another process.
- A request reads the clock before it queues for the write connection, so the
  order of timestamps is not the order of commits.
- What reads in several queries reads several snapshots.
- Nothing is retried by hooks; the user reruns commands.

What is hard, and what makes each component correct:

- *Capture*: an event repeated within the dedup window is stored once, in any
  commit order and with any clock; an acknowledged event is in the database;
  `n_obs` equals the rows it counts; no hook changes where a session belongs.
- *Compaction*: within the time to live of its attempts an agent is not kept
  from stopping much more often than configured; attempts are settled once and
  for a reason.
- *Memories*: index, rows, vectors and audit log stay consistent under
  deletions that foreign keys forbid, decay passes that work on old snapshots
  and vectors that arrive late; what has decayed is evicted.
- *Import*: a run may end between any two database calls and be repeated.
- *Breaker*: a data race must not leave search without vectors for good.
- *Plugin*: hooks overlap at each await; a file that was stashed must reach a
  context request, a tool call must be observed once.
- *Migrations and backup*: processes of different versions open one file at
  once and die anywhere; locks must not be waited for in a circle.
- *Reads and search*: the parts of an answer come from different states.

## Modules

| module | models | extends |
|---|---|---|
| `Tables` | a SQLite table as a function from keys to rows | |
| `Sessions` | the statements on `sessions`, as operators on the table | `Tables` |
| `Capture` | hook requests from validation to commit | `Sessions` |
| `ObservationLog` | what capture promises: an append-only log with a dedup window | |
| `Compaction` | Stop hooks, save tools and attempts, one store call per step | `Sessions` |
| `MemoryStore` | writes of memories, FTS, audit and vectors; decay in three steps | `Tables` |
| `MemoryBank` | what the memory tools promise: texts under ids never reused, each current or replaced | `Tables` |
| `ImportJSONL` | import runs, one store call per step | `Sessions` |
| `CircuitBreaker` | the breaker, one memory access per step | |
| `OpenCodePlugin` | the hooks of the plugin, from one await to the next | |
| `Schema` | opening the store and backup, one statement per step, with SQLite's locks | |
| `RankFusion` | rank fusion as operators, with a reference definition | |
| `Queries` | what reads in several queries, next to all writers, over a `MemoryBank` | `RankFusion`, instance of `MemoryBank` |
| `MC*` | instances for TLC: symmetry, a small transcript, visible writes | the module checked |
| `SessionsProofs`, `CaptureProofs`, `CompactionProofs`, `MemoryStoreProofs`, `ImportProofs`, `SchemaProofs`, `PluginProofs`, `QueriesProofs` | theorems | the module proved about, `TLAPS` |

`Sessions` is shared: Capture, Compaction and ImportJSONL change the table
through its operators only, as the Go code does through `sessions.go`.
`MemoryBank` composes the two halves of the memory side: `MemoryStore` is shown
to implement it, and `Queries` reads from it, so that searches are checked
against what the store promises and not against its vectors and passes again. Mutants
of definitions (operators commented "Mutant") stand next to the definition
they replace; they are plausible bugs used to show that the properties can fail.

### State and actions

- **Capture.** `request[h]` is the goroutine of a request: `Receive` is the
  handler up to `opts.Now()`; `InsertObservation` its transaction; `Ensure` and
  `End` the statements of session hooks. `Fail` is any error or crash: the
  transaction rolls back. `SetClock` moves the clock anywhere. `acked` is a
  history variable: the events answered with success.
- **Compaction.** `call[h].pc` names the next store call of
  `claudeStop`/`opencodeCompact` (`ensure`, `end`, `session`, `memories`,
  `expire`, `count`, `request` or `skip`) or of the tools (`saveSummary`,
  `ensureForMemory`, `addMemory`, `mark`). `agent[s]` is the client: a blocked
  agent runs on and may stop again. `late` and `saved` are history: `saved[h]`
  is what the save statement of the request has done so far (the `UPDATE` of a
  summary may have matched no row) and how many attempts there were by then.
- **MemoryStore.** One action per store method. A decay pass is `DecayStart`
  (the caller takes the time), `DecayRead` (the snapshot and the computation)
  and `DecayWrite` or `DecayRollback` (one transaction, which fails when a
  foreign key forbids a deletion). `worker[w]` is a process that embeds: the
  text it holds was read earlier. Importance is kept on a logarithmic grid, on
  which `exp(-age/tau)` is a subtraction of the age; a memory is `procedural`
  or not; `supersededBy` is 0 for NULL; `MemoryStore!Event` keeps the
  timestamp 0 that supersede and delete write. `texts`, `cleared` and `left` of
  a worker, and `seen` and `overtaken` of a decay pass are history.
- **ImportJSONL.** `importer[i]` is a run with its position; `Check`, `Insert`
  and `Record` are its three calls for a line; `Stop` ends it anywhere.
- **CircuitBreaker.** The caller's `pc` walks through the single reads and
  writes of `Open`, `RecordFailure` (load, store, compare, open) and
  `RecordSuccess`. `Torn` lets a comparison that races with a write of
  `openedAt` come out either way. Counters above the threshold are equal to it,
  ages above the cooldown too, since the code compares with nothing else.

- **OpenCodePlugin.** `handler[h]` is a hook that waits for a post, with the pc
  named for the request; an action starts a hook and runs it to its first
  await, or from one await to the next. A post that fails yields `undefined`
  and the hook goes on as after an answer, so the two are one step; an answer
  that breaks off throws (`Throw`) and ends the hook. `observed`, `pushed` and
  `thrown` are history.
- **Schema.** `process[p]` is where a process is in `Open`: `Check`, `Exec` and
  `Commit` are the statements of a migration's transaction, `CreateFts` the
  statement after them. `reading` and `writer` are SQLite's SHARED and RESERVED
  locks (external): a process that reads and wants to write while another does
  is refused at once, all others wait for at most the busy timeout. Backup
  creates a file, copies in two halves under a SHARED lock, and renames.
- **Queries.** `reader` is the one question under way and what its queries have
  returned; `WriteStep` is any write of any tool or hook between two of them.
  `since` is history: what was hidden, current or present when it was asked.
  The answer is computed by the operators of `RankFusion` or by `Timeline`,
  `Newest` and `Oldest`, which are the ORDER BY and LIMIT of the queries. Each
  list is cut to a limit of its own: `SessionLimit` for `ListSessions` (100 at
  most), `VerifyLimit` for the lists of `memory_verify`, `ScanLimit` for the rows
  that `FileHistory` looks into, `ReadLimit` for the others.

## Runs

| run | checks | result |
|---|---|---|
| `Capture` | `TypeOK`, `DedupWindowKept`, `CountsAgree`, `AckedIsStored`, `SessionKeepsOrigin`, refinement of `ObservationLog` | hold |
| `Compaction` | `TypeOK`, `BlocksBounded`, `LateStopPasses`, `AttemptsSettleOnce`, `CompletedBySave`, `AgentStops` | hold |
| `CompactionHardStop` | `HardStop`, as `arch.md:724` states it | **violated** |
| `Memory` | `FtsMatches`, `ReferencesHold`, `AuditIsHistory`, `EmbeddingIsOwn`, `RebuildRestores`, refinement of `MemoryBank` | hold |
| `MemoryDecay` | `TypeOK`, `Evicts`, `DecayLowers`, two passes at once, without supersession | hold |
| `DecayPoisoned` | `Evicts` with supersession, `arch.md:1324` | **violated** |
| `ImportRuns` | `RecordedIsStored`, `DoneIsComplete`, `CopiesBounded`, `AllImported` | hold |
| `ImportCrash` | `ImportedOnce`, `README.md:57` | **violated** |
| `BreakerLive` | `Recovers` | holds |
| `Plugin` | `ObservedOnce`, `InstructionsBounded`, `ActiveKept`, `FilesLeaveNamed`, `FilesAreNamed` | hold |
| `Schema` | `SchemaIsWhole`, `BackupIsWhole`, `EveryoneOpens` | hold |
| `Queries` | `FusionIsRight`, `NothingHidden`, `SteadyIsFound`, `ExportCloses`, `VerifyExplains`, `TimelineCuts` | hold |

The other modules' `TypeOK` are not repeated in a run: that of `ImportJSONL` is
proved, and those of `CircuitBreaker`, `OpenCodePlugin` and `Schema` say what
the states look like.

What the violations show:

- `CompactionHardStop`: two Stop hooks of one session both count before either
  inserts, and both block. `BlocksBounded` is what does hold: the excess is at
  most the number of concurrent handlers less one.
- `DecayPoisoned`: a memory that others name in `superseded_by` cannot be
  deleted before them. A pass that dooms it rolls back altogether, the ticker
  drops the error, and the next pass dooms it again: one superseded pair stops
  decay for every memory. Without supersession (`MemoryDecay`) eviction works.
- `ImportCrash`: the observation and the mark are two transactions, and the
  dedup window of 0 only finds copies with a later timestamp. What does hold
  is `CopiesBounded`: at most one copy for each early end and concurrent run.

What the runs that hold say about code that looks fragile:

- `MemoryDecay`: a pass writes what it computed from rows read before its
  transaction. What it may undo that way is an update and what another pass has
  lowered (the ticker and `mcb decay` run in two processes), and nothing else:
  `DecayLowers` fails as soon as either exception is dropped.
- `Plugin`: hooks that overlap may each push the instructions and name the same
  files, but the excess is at most the hooks that wait at once (and one more for
  each that threw), and a file that is stashed during a request survives it.
- `Schema`: a migration that is not idempotent (`003`) is safe because its
  version is recorded in its own transaction, and a process that sees no
  `schema_version` at all, or times out while it looks, is stopped by the
  statements themselves; refusals send a process away instead of into a circle.
- `Queries`: the order of the queries matters. An export reads memories before
  sessions before observations, and `memory_verify` reads the audit log last;
  the other way round both properties fail (these are their mutants).

Four properties hold only because they say by name what the code leaves open.
None of these gaps has a run of its own; each is what the property excuses:

- `AgentStops` is about the time to live of an attempt. Expiry makes room for new
  requests, so an agent that ignores them, never sets `stop_hook_active` and stops
  about once in each time to live can be blocked every time, for as long as it
  goes on: the code has no limit over longer times.
- `CompletedBySave` excuses a summary that is saved for a session without a row:
  the `UPDATE` matches nothing and succeeds, a Stop creates the session and its
  attempt, and then the tool marks that attempt as completed, with nothing saved.
  `arch.md:707` speaks of a summary that was written.
- `RebuildRestores` excuses what the limit of the rebuild has cut from its list
  (`left`). `embed-rebuild` deletes every vector, embeds at most `--limit`
  memories, 10 when it is not given, and succeeds; `INSTALL.md:45` and
  `arch.md:1299` say nothing of a limit.
- `TimelineCuts` says why a row may be missing, and it may be missing in the
  middle: each list is cut to its newest rows, the merged one to its oldest. With
  a limit of 2, observations at 2, 4, 5 and memories at 1, 3 come out as 1, 3.
  Likewise an export of a project with more than 100 sessions holds memories of
  sessions it leaves out (`CutFromSessions` in `ExportCloses`), and
  `VerifyExplains` finds each update even in a full list, but not each
  supersession.

Also seen while modelling, and not given a run of their own:

- supersede and delete events carry timestamp 0, so the latest events of
  `mcb://audit/latest` (`README.md:142`) list them last or not at all; a decay
  pass deletes a memory that became procedural after its snapshot
  (`arch.md:956`), and its deletions are not audited;
- supersession may form circles that no search shows;
- `MarkCompactionCompleted` takes the newest requested attempt, expired or not,
  where `arch.md:707` speaks of the last fresh one;
- `Recovers` is about a breaker that stays open, not about one that fails to
  open: two racing goroutines can keep undoing one another's opening of it
  while Ollama is down;
- scores are sums of `float64`, so two memories whose scores are equal as
  fractions may come out in the order of the rounding instead of that of ids;
- an export may hold an observation of a session that was created after its
  list of sessions was read;
- a search without FTS5 whose breaker is open finds nothing and reports
  success, and a limit above `final_top_k` is cut silently;
- the plugin takes events whose session id is only under `info` for events of the
  active session, and drops the files of an enrich request that failed;
- a build without FTS5 saves memories that no later build indexes, and where
  the index exists already `CREATE ... IF NOT EXISTS` succeeds for that build
  too, so it takes the index for usable.

### Bounds

- *Capture*: two sessions, two requests, one payload, one project, times 0..2
  and a window of 2. Distances 0, 1 (inside) and 2 (at the edge) occur, in both
  commit orders and with the clock set back. A second payload never interacts
  with the first, and the theorems cover several projects.
- *Compaction*: one session (no statement reads another session's rows), two
  handlers, which is the fewest that race, TTL 1 and times 0..2, so an attempt
  is fresh, at the limit, and expired; `MaxAttempts` and `MaxMemories` bound how
  often a user prompts again and memories are saved. The clock of the model
  stops at `MaxTime`, that of the program does not; `AgentStops` asks for
  nothing once the clock has passed the time to live, so what would refute it
  happens while the clock is between t and t + `AttemptTTL`, which the bound
  leaves room for (t = 0 and t = 1).
- *Memories*: two ids give a reference, a deletion with a gap and an order of
  two deletions; two workers a late vector and two rebuilds, with limits of
  1 and 2, so that the list of a rebuild is cut or whole; `MaxEvents` bounds the
  updates; two times make a memory one tau old, and leave importance to be
  raised by an update and lowered by a pass. `Memory` saves only memories that
  decay (`Tiers = {FALSE}`): the tier is read by the decay and by nothing else
  there. `MemoryDecay` and `DecayPoisoned` save procedural memories as well,
  and `MemoryDecay` has two passes at once.
- *Import*: three lines with two events, one of which occurs twice, one with
  and one without a timestamp; two runs, two early ends.
- *Breaker*: two goroutines, threshold 2 (an increment can be lost on the way),
  cooldown 2. Its state space is finite as it is.
- *Plugin*: two hooks wait at once, which is the fewest that race; one session
  names three files to a stash of two and requests of one, so files are pushed
  out, named late and stashed during a request; a second session is created and
  deleted meanwhile; one answer breaks off.
- *Schema*: a daemon that knows three versions and a command that knows two, of
  which the second cannot be applied twice; the command has no FTS5; one backup;
  two faults (a crash, or a wait that times out), after which processes only
  refuse each other.
- *Queries*: three memories and lists of two, so that a list, the share of a
  session (1) and a fused list are cut; a list of one session of two; and lists
  of three events for `memory_verify`, which hold a creation, an update and a
  supersession, and are cut by one more. One text is found by its words and one
  by its vector. A question is asked of a database built by any of at most four
  or five writes before and between its queries, which is a memory, an
  observation or a session more than the limits; writes to tables that a
  question does not read are left out (`Visible`), as it cannot tell them.
  Timestamps grow with the writes: a clock that is set back is for `Capture` only.
  `RecentSessionSummaries` is not cut to its three rows, and no property is about
  what it returns.

`Tools`, `Query` and the like choose which operations a run uses; together the
passing runs use all of them.

### Fairness

- *Compaction*: `WF` on the step of each handler, since `net/http` gives each
  request a goroutine of its own; `SF` on some handler receiving the agent's
  next Stop, since a running agent finishes its turn again and again and the
  listener accepts. The agent is the worst one: it never sets
  `stop_hook_active`.
- *Decay*: `WF` on starting a pass (the ticker), `SF` on its read and write:
  a database call that is tried in pass after pass is answered at last.
- *Import*: `WF` on the steps of a run, and on starting it again after an early
  end (the user); only finitely many early ends.
- *Breaker*: `WF` on goroutines, on clients that go on searching, and on time.
- *Plugin* (`Chatting`): `WF` on each await ending (an answer, an error or the
  end of the connection), `SF` on OpenCode transforming the system prompt of the
  session the user goes on with; finitely many answers break off.
- *Schema*: `WF` on the steps of a process, since a wait ends and a command that
  failed is started again; `SF` on `CreateFts`, which waits for all locks and is
  retried by SQLite's busy handler; `WF` on a backup's steps.

## Theorems

The theorems hold for every value of the constants allowed by the modules'
assumptions: `CaptureAssumption` (a positive window, any clock bound),
`CompactionAssumption` (positive limits, finitely many handlers),
`MemoryStoreAssumption` and `TiersAssumption`, `ImportAssumption` (any transcript, also an empty one,
finitely many runs), `SchemaAssumption` (any number of processes and
versions; version 1 can be repeated, as its file says IF NOT EXISTS),
`PluginAssumption` and `FilesAssumption` (finitely many hooks at a time, files in
lists), `QueriesAssumption` and `RankFusionAssumption` (any texts, scores, limits,
memories and finitely many sessions; `MaxRank` bounds the two lists that are
fused).

- `SessionsProofs`: each operator of `Sessions` keeps the type of the table.
- `CaptureProofs`:
  - `TypeCorrect`: `TypeOK` is inductive by itself.
  - `DedupWindowHolds`, `AckedIsStoredHolds`: inductive given the type. Rows
    are only appended (`AppendRow`), and an appended row was not a duplicate;
    for acknowledgements, a duplicate is witnessed by the row it duplicates.
  - `CountsAgreeHolds`: per session, the set of its rows gains the new index or
    stays (`RowsOfFinite`), and the counter with it.
  - `CaptureImplementsLog`: initial states map to the empty log, an insertion to
    `Record` or a stutter, everything else to a stutter.
  - `SessionKeepsOriginHolds`: each of the upserts keeps what a row says.
- `CompactionProofs`:
  - `BlocksBoundedHolds` from the inductive `BlocksInv`: fresh attempts *plus
    handlers that have decided and not yet inserted* are fewer than the limit
    plus the number of handlers. `BlocksBounded` alone is not inductive: between
    counting and inserting nothing in the table shows the decision. A decision
    is only made below the limit (`DecisionKeepsRoom`, where the handler itself
    is not yet pending), an insertion moves one from pending to fresh
    (`InsertKeepsRoom`), all else shrinks both sets (`RoomShrinks`). The second
    conjunct, that no request's timestamp is ahead of the clock, makes the
    handler's cutoff at most the one of the property.
  - `LateStopPassesHolds` from `LateInv`: a late Stop is not beyond the read of
    the session, and the summary stays. Of what a Stop takes for done it covers
    the summary; a memory may be deleted again before a Stop counts them.
  - `AttemptsSettleOnceHolds`: an action property, from `TypeOK`, `BlocksInv`
    (time stamps) and the cases of the four writers.
  - `CompletedBySaveHolds` from `SavedInv`: a request that is about to mark an
    attempt has made its save statement, and if that matched no row there was no
    attempt of its session either. This rests on `RowsInv`: a Stop creates the
    row of its session first, rows stay, and so every attempt has one.

- `MemoryStoreProofs`:
  - `TypeCorrect` from `TypeInv`, which adds to `TypeOK` that ids are given out
    one after another and that each table is a function on ids. The read of the
    memories that lack a vector is a list in id order: `EveryRankTaken` shows by
    counting that each place of it is taken by exactly one memory.
  - Every step is classified once (`StepIsRowStep`): it adds a row, changes a
    text, sets a reference, or deletes rows that no row that stays refers to.
    `FtsMatchesHolds`, `ReferencesHoldHolds` and the refinement rest on this
    classification and not on the actions.
  - `EmbeddingIsOwnHolds` from `OwnInv`: not only the stored vectors, also the
    texts that workers read and have still to store belong to their memory. A
    memory only gains texts and an id is never given out again, so a vector that
    arrives after updates, deletions and rebuilds is still its own.
  - `AuditIsHistoryHolds` from `AuditInv`: per id, the events are a history that
    starts with a creation and, if it ends, ends with the deletion of a row that
    is gone. `LogInv` says this of the log together with the set of rows and the
    set of ids given out.
  - `DecayLowersHolds` from `PassInv`: as long as no other pass has written, the
    plan of a pass has no row with an importance below the planned one, unless
    the log names an update of it after what the pass had seen. Rows are new, go,
    or keep their importance but for a logged update (`RowsMove`), and ids are
    not given out again, so what holds when a pass reads holds when it writes.
  - `StoreImplementsBank`: `BankOf` reads texts from the index and references
    from the rows; initial states map to the empty bank and each `RowStep` to an
    operation of the bank or a stutter.
  - `RetiredStaysHolds` from the same classification of steps: no deletion clears
    a reference, and ids are not given out again. `Queries` writes through the
    operators of `MemoryBank`, and its proofs rely on the same promise there
    (`MemoriesStay`); this theorem says that the detailed store keeps it. It is a
    theorem only, and no run checks it.
  - `RebuildRestoresHolds` from `OwedInv`: a memory whose vector a rebuild has
    deleted lacks one (`Due`) only while it is in the queue of that rebuild or
    was cut from it, once this has read what is missing. No memory comes to lack
    a vector but by being saved or by a rebuild (`NoneBecomesDue`), and what
    another rebuild deletes once more is owed by that one from then on.
- `ImportProofs`:
  - `RecordedIsStoredHolds` and `DoneIsCompleteHolds` from `ProgressInv`: each
    line a run has passed is recorded, each event recorded is stored, and so is
    the event a run is about to record.
  - `CopiesBoundedHolds` from `CopiesInv`, a counting argument: until an event is
    recorded its copies are at most the early ends plus the runs *about to
    record it*; afterwards, copies plus the runs *still about to insert it* are
    at most the early ends plus all runs, since no run comes to insert it again.
    `CopiesBounded` alone is not inductive, because nothing in it sees the runs
    that have checked and not yet inserted.
- `SchemaProofs`:
  - `SchemaIsWholeHolds` from `SchemaInv`: a process at a version finds all
    those before it applied, and one that is through its files finds all of its
    own. Versions are never taken back, and what a commit records is what it put
    into effect, so no other process can spoil either.
  - `BackupIsWholeHolds` from `BackupInv`: while a backup copies no process
    commits, so the two halves of its copy are of one state.
- `PluginProofs`:
  - Every step is classified once (`NextIsPluginStep`): a session is pruned, a
    part observed, instructions pushed or taken up, an answer breaks off, or none
    of these.
  - `ObservedOnceHolds` from `ObservedInv`: a part was observed once if it is
    among those seen, and not at all otherwise.
  - `InstructionsBoundedHolds` from `InstructionsInv`: until a hook has come back
    with the context of a session, each push is owed to a hook that still waits
    for it or to one that has thrown; afterwards nobody pushes any more.
  - `ActiveKeptHolds`: only the deletion of the active session itself, and the
    creation of another, change what is active.
  - `FilesLeaveNamedHolds` from `StashType`: a hook touches the stash of its own
    session only; taking named files out of a list leaves all others
    (`LessKeeps`), and adding files loses old ones only when the list comes out
    full (`StashedKeeps`).
- `QueriesProofs`, on search and the read paths next to writers:
  - `FuseIsFusion`: `FuseRRF` computes `IsFusion`, its reference definition. The
    loop's invariant is `Partial`: after each candidate, what was taken is the
    best of those before it, but for the ones their session's share kept out. It
    needs that any finite set has an ordered list (`OrderedListExists`, `SortedExists`)
    and that the merged list is in order (`MergedIsInOrder`).
  - `SharesAreExact`: the shares 1/(k + rank) are kept over the common
    denominator `Scale`, which each k + rank divides (`ProductDivides`), so the
    comparison of scores in the model is that of rationals.
  - An `ORDER BY ... LIMIT` is a cut: the rows it returns, those it leaves out,
    and that each of the latter comes after each of the former (`CutIsTop`,
    `CutKeepsLimit`, `MemoriesAreCut`, `ObservationsAreCut`, `AuditIsCut`).
    Everything a question shows is read off such cuts.
  - `QueriesInvariant`: `QueriesInv` is inductive. Its parts are what each write
    keeps (`StoreInv`: the types, no row newer than the clock, sessions that
    count no more observations than there are, every row explained by its
    events), the steps of a question (`ReaderInv`), what it may rely on since it
    began (`SinceInv`), its results so far (`LexicalInv`, `GotInv`) and the six
    properties. None of them is inductive alone: an answer is of several
    snapshots, and that it is right rests on what the writes in between cannot do
    (`MemoriesStay`: a memory seen to be superseded or gone does not come back,
    `SessionsStay`: sessions stay, and observations are only appended).
  - `FusionIsRightHolds`, `NothingHiddenHolds`, `SteadyIsFoundHolds`,
    `ExportClosesHolds`, `VerifyExplainsHolds` and `TimelineCutsHolds` follow.

The induction theorems of the library take an operator as a parameter, which
the provers cannot instantiate. Where a proof needs induction over numbers or
lists (`FuseRRF`'s loop, ordered lists, `Product`), it is an induction over the
*set* of numbers that satisfy the claim (`Induction`), and recursive functions
are unfolded by `Recursion`.

Checked by TLC only: liveness (`AgentStops`, `Evicts`, `AllImported`,
`Recovers`, `FilesAreNamed`, `EveryoneOpens`), which needs fairness and ENABLED.
All other properties of the passing runs are theorems.

## Not modelled

- The text of prompts, queries and payloads; zstd; normalisation of hook payloads
  (a payload is its hash); authentication; the protocol framing of MCP. How well
  a text matches a query is a constant of the text.
- `memory_profile`, `memory_patterns`, `memory_replay`, the MCP resources and
  status: they return one query or counts that nothing relates.
- Vectors of several models or dimensions, as a change of configuration leaves
  them; memories saved by a build without FTS5.
- Configuration, doctor, secrets filter, CLI parsing: sequential, and better
  covered by tests. Benchmarks and performance seeds: development tools.
- A corrupt database and a full disk show only as failing statements.

## Plan

1. *Done*: sessions, capture, compaction, memories, import, migrations, backup,
   plugin, search and reads in several steps, each with runs and proofs; the
   breaker with a run.
2. *Next modules*: embeddings under a change of model or dimension; builds with
   and without FTS5 on one database, as `Schema` and `MemoryStore` composed.
3. *Next theorems*: that what `Queries` relies on of sessions and observations
   (`SessionsStay`) is what `Capture` does, as `RetiredStays` says of memories; the
   safety half of the breaker.
