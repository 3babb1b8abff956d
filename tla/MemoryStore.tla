----------------------------- MODULE MemoryStore -----------------------------
(***************************************************************************)
(* The memories of internal/store with their full-text index, embeddings   *)
(* and audit log, and what changes them: the MCP tools and the admin       *)
(* commands (add, update, supersede, forget, touch), the embedding of new  *)
(* and of missing memories, and the decay passes.                          *)
(*                                                                         *)
(* A store method is one transaction.  A decay pass reads the memories,    *)
(* computes in Go and writes in a later transaction; a vector is computed  *)
(* by a call to Ollama between the transaction that stores the memory and  *)
(* the one that stores the vector.  Daemon and CLI are separate processes. *)
(*                                                                         *)
(* importance is on a logarithmic grid, on which exp(-age/tau) subtracts   *)
(* the age in units of tau; level 0 is the bottom.  All memories are of    *)
(* one project, and a vector is the text it was computed from.             *)
(***************************************************************************)
EXTENDS Integers, Sequences, FiniteSets, Tables

CONSTANTS Texts,
          Workers,        \* processes that save and embed memories
          Decayers,       \* the decay ticker, and mcb decay
          Tools,          \* the operations the clients use
          Tiers,          \* is a memory procedural?: what clients save
          MinImportance,  \* min_importance, as a level
          MaxImportance,  \* the level of importance 1
          EmbedLimit,     \* the most that --limit asks embed-missing and
                          \* embed-rebuild for
          MaxTime, MaxMemories, MaxEvents   \* bounds

ASSUME MemoryStoreAssumption ==
  /\ Tools \subseteq {"add", "update", "supersede", "forget", "touch",
                      "decay", "embed", "rebuild"}
  /\ {MinImportance, MaxImportance, EmbedLimit, MaxTime}
       \subseteq Nat \ {0}
  /\ {MaxMemories, MaxEvents} \subseteq Nat

ASSUME TiersAssumption == Tiers \subseteq BOOLEAN

VARIABLES now,
          memories,    \* table memories
          fts,         \* virtual table memories_fts: rowid -> text
          embeddings,  \* table memory_embeddings: memory_id -> vector
          audit,       \* table audit_events, in id order
          nextId,      \* AUTOINCREMENT of memories
          worker,      \* what each worker is embedding
          decay,       \* the pass each decayer is in
          texts        \* history: the texts a memory has had

tables == <<memories, fts, embeddings, audit, nextId, texts>>
vars == <<tables, now, worker, decay>>

Times == 1..MaxTime
Ids == 1..MaxMemories
NoId == 0          \* superseded_by IS NULL
Levels == 0..MaxImportance
Rows == [text : Texts, procedural : BOOLEAN, importance : Levels,
         accessed : Times, supersededBy : Ids \cup {NoId}]
Actions == {"create", "update", "supersede", "delete"}
Events == [action : Actions, memory : Ids, ts : Times \cup {0}]
Job == [id : Ids, text : Texts]
Plan == [importance : Levels, delete : BOOLEAN]
IdleWorker == [pc |-> "idle", queue |-> <<>>, cleared |-> {}, left |-> {}]
IdlePass == [pc |-> "idle"]

TypeOK ==
  /\ now \in Times
  /\ nextId \in 1..(MaxMemories + 1)
  /\ {DOMAIN memories, DOMAIN fts, DOMAIN embeddings, DOMAIN texts}
       \subseteq SUBSET Ids
  /\ memories \in [DOMAIN memories -> Rows]
  /\ fts \in [DOMAIN fts -> Texts]
  /\ embeddings \in [DOMAIN embeddings -> Texts]
  /\ texts \in [DOMAIN texts -> SUBSET Texts]
  /\ audit \in Seq(Events)
  /\ \A w \in Workers :
       worker[w].pc \in {"idle", "missing", "embed"}
         /\ worker[w].queue \in Seq(Job)
         /\ worker[w].cleared \subseteq Ids /\ worker[w].left \subseteq Ids
  /\ \A d \in Decayers :
       \/ decay[d] = IdlePass
       \/ decay[d].pc = "read" /\ decay[d].now \in Times
       \/ /\ decay[d].pc = "write" /\ DOMAIN decay[d].plan \subseteq Ids
          /\ decay[d].plan \in [DOMAIN decay[d].plan -> Plan]
          /\ decay[d].seen \in Nat /\ decay[d].overtaken \in BOOLEAN

Init ==
  /\ now = 1
  /\ memories = [id \in {} |-> id]
  /\ fts = [id \in {} |-> id]
  /\ embeddings = [id \in {} |-> id]
  /\ texts = [id \in {} |-> id]
  /\ audit = <<>>
  /\ nextId = 1
  /\ worker = [w \in Workers |-> IdleWorker]
  /\ decay = [d \in Decayers |-> IdlePass]
------------------------------------------------------------------------------
Event(action, id, ts) == [action |-> action, memory |-> id, ts |-> ts]

\* insertAuditTx, in the transaction it records.
Log(action, id, ts) == audit' = Append(audit, Event(action, id, ts))

\* Mutant: _foreign_keys=off.
NeverReferenced(rows, id) == FALSE

\* The foreign key superseded_by: the statement that deletes a referenced row
\* fails, and with it the transaction.
Referenced(rows, id) == \E m \in DOMAIN rows : rows[m].supersededBy = id

Max2(a, b) == IF a > b THEN a ELSE b

\* Mutant: ids without AUTOINCREMENT, one more than the largest in use.
ReusedId == 1 + Cardinality({id \in Ids : \E m \in DOMAIN memories : id <= m})

NewId == nextId

\* Mutant: only a new memory is indexed.
IndexOnce(id, text) == IF id \in DOMAIN fts THEN fts ELSE Put(fts, id, text)

\* INSERT INTO memories_fts, after a DELETE of the old text if there is one.
Index(id, text) == Put(fts, id, text)

\* memory_save, mcb add: AddMemory; the vector follows when a provider is set.
AddMemory(w, text, procedural, importance) ==
  /\ "add" \in Tools
  /\ worker[w].pc = "idle" /\ nextId <= MaxMemories
  /\ memories' = Put(memories, NewId,
       [text |-> text, procedural |-> procedural, importance |-> importance,
        accessed |-> now, supersededBy |-> NoId])
  /\ fts' = Index(NewId, text)
  /\ texts' = Put(texts, NewId, {text})
  /\ Log("create", NewId, now)
  /\ nextId' = nextId + 1
  /\ \/ /\ "embed" \in Tools
        /\ worker' = [worker EXCEPT ![w] =
             [pc |-> "embed", queue |-> <<[id |-> NewId, text |-> text]>>,
              cleared |-> {}, left |-> {}]]
     \/ /\ "embed" \notin Tools
        /\ UNCHANGED worker
  /\ UNCHANGED <<embeddings, now, decay>>

\* memory_update: a column that is not given keeps its value.  The vector is
\* not computed again.
UpdateMemory(id, text, procedural, importance) ==
  /\ "update" \in Tools
  /\ id \in DOMAIN memories /\ Len(audit) < MaxEvents
  /\ memories' = Put(memories, id,
       [memories[id] EXCEPT !.text = text, !.procedural = procedural,
                            !.importance = importance])
  /\ fts' = Index(id, text)
  /\ texts' = Put(texts, id, texts[id] \cup {text})
  /\ Log("update", id, now)
  /\ UNCHANGED <<embeddings, nextId, now, worker, decay>>

\* The foreign key asks for the new memory to exist; nothing asks for it to
\* be newer, or not to be superseded itself.  The event has no timestamp.
SupersedeMemory(old, new) ==
  /\ "supersede" \in Tools
  /\ {old, new} \subseteq DOMAIN memories /\ old # new /\ Len(audit) < MaxEvents
  /\ memories' = Put(memories, old, [memories[old] EXCEPT !.supersededBy = new])
  /\ Log("supersede", old, 0)
  /\ UNCHANGED <<fts, embeddings, nextId, texts, now, worker, decay>>

\* Mutant: every id is audited.
AnyRow(rows, id) == TRUE

\* RowsAffected of the deletion is not zero.
RowDeleted(rows, id) == id \in DOMAIN rows

\* One round of the loop of DeleteMemories: an id without a row is no error
\* and not audited; the vector goes with the row.
DeleteRow(db, id) ==
  [memories |-> Without(db.memories, {id}), fts |-> Without(db.fts, {id}),
   embeddings |-> Without(db.embeddings, {id}),
   audit |-> IF RowDeleted(db.memories, id)
               THEN Append(db.audit, Event("delete", id, 0)) ELSE db.audit]

\* memory_forget of two ids, in this order; of one, when they are equal.  (A
\* deletion that a reference forbids rolls back and changes nothing.)
DeleteMemories(id1, id2) ==
  LET db0 == [memories |-> memories, fts |-> fts, embeddings |-> embeddings,
              audit |-> audit]
      db1 == DeleteRow(db0, id1)
      db2 == DeleteRow(db1, id2)
  IN /\ "forget" \in Tools
     /\ ~Referenced(db0.memories, id1) /\ ~Referenced(db1.memories, id2)
     /\ memories' = db2.memories /\ fts' = db2.fts
     /\ embeddings' = db2.embeddings /\ audit' = db2.audit
     /\ UNCHANGED <<nextId, texts, now, worker, decay>>

\* memory_recall: TouchMemories of what the search found; a memory deleted
\* since then is not there to touch.
TouchMemories(ids) ==
  /\ "touch" \in Tools
  /\ memories' = [id \in DOMAIN memories |->
       IF id \in ids THEN [memories[id] EXCEPT !.accessed = now]
                     ELSE memories[id]]
  /\ UNCHANGED <<fts, embeddings, audit, nextId, texts, now, worker, decay>>
------------------------------------------------------------------------------
\* embed-missing, and embed-rebuild, which first deletes every vector.
StartEmbedMissing(w) ==
  /\ "embed" \in Tools
  /\ worker[w].pc = "idle"
  /\ worker' = [worker EXCEPT ![w].pc = "missing"]
  /\ UNCHANGED <<tables, now, decay>>

\* cleared (history): the vectors that a rebuild has deleted, but for those that
\* another rebuild deletes once more.
Rebuild(w) ==
  LET gone == DOMAIN embeddings
  IN /\ "rebuild" \in Tools
     /\ worker[w].pc = "idle"
     /\ embeddings' = [id \in {} |-> id]
     /\ worker' = [v \in Workers |->
          IF v = w THEN [pc |-> "missing", queue |-> <<>>, cleared |-> gone, left |-> {}]
                   ELSE [worker[v] EXCEPT !.cleared = @ \ gone]]
     /\ UNCHANGED <<memories, fts, audit, nextId, texts, now, decay>>

\* MissingEmbeddings: current memories without a vector, the oldest first.
Missing == {id \in DOMAIN memories : /\ memories[id].supersededBy = NoId
                                     /\ id \notin DOMAIN embeddings}

Rank(id, ids) == Cardinality({i \in ids : i <= id})

\* A command with nothing to embed is done.  left (history): what of the cleared
\* ones the limit has cut from the list.
ReadMissing(w) ==
  \E limit \in 1..EmbedLimit :
    LET n == IF Cardinality(Missing) <= limit THEN Cardinality(Missing) ELSE limit
        nth(k) == CHOOSE id \in Missing : Rank(id, Missing) = k
    IN /\ worker[w].pc = "missing"
       /\ worker' = [worker EXCEPT ![w] =
            IF n = 0
              THEN IdleWorker
              ELSE [pc |-> "embed",
                    queue |-> [k \in 1..n |-> [id |-> nth(k),
                                               text |-> memories[nth(k)].text]],
                    cleared |-> @.cleared,
                    left |-> {id \in Missing \cap @.cleared :
                                Rank(id, Missing) > limit}]]
       /\ UNCHANGED <<tables, now, decay>>

\* Mutant: the loop of embedMissing ends after its first memory.
SaveFirstEmbedding(w) ==
  LET job == Head(worker[w].queue)
  IN /\ worker[w].pc = "embed"
     /\ job.id \in DOMAIN memories
     /\ embeddings' = Put(embeddings, job.id, job.text)
     /\ worker' = [worker EXCEPT ![w] = IdleWorker]
     /\ UNCHANGED <<memories, fts, audit, nextId, texts, now, decay>>

\* Ollama answered: SaveMemoryEmbedding of the text as it was when read.
SaveMemoryEmbedding(w) ==
  LET queue == worker[w].queue
      job == Head(queue)
  IN /\ worker[w].pc = "embed"
     /\ job.id \in DOMAIN memories
     /\ embeddings' = Put(embeddings, job.id, job.text)
     /\ worker' = [worker EXCEPT ![w] =
          IF Len(queue) = 1 THEN IdleWorker
                            ELSE [@ EXCEPT !.queue = Tail(queue)]]
     /\ UNCHANGED <<memories, fts, audit, nextId, texts, now, decay>>

\* No answer from Ollama, a dimension that does not match, a foreign key to a
\* memory deleted meanwhile, or the end of the process.
StopEmbedding(w) ==
  /\ worker[w].pc # "idle"
  /\ worker' = [worker EXCEPT ![w] = IdleWorker]
  /\ UNCHANGED <<tables, now, decay>>
------------------------------------------------------------------------------
\* DecayMemories: opts.Now is taken by the caller, before the memories are read.
DecayStart(d) ==
  /\ "decay" \in Tools
  /\ decay[d] = IdlePass
  /\ decay' = [decay EXCEPT ![d] = [pc |-> "read", now |-> now]]
  /\ UNCHANGED <<tables, now, worker>>

\* Mutant: a negative age raises importance.
DecayedUnclamped(row, at) == Max2(row.importance - (at - row.accessed), 0)

\* importance * exp(-age/tau), an age below zero counting as zero.
Decayed(row, at) == Max2(row.importance - Max2(at - row.accessed, 0), 0)

Forgettable(row, importance) == importance < MinImportance /\ ~row.procedural

\* seen, overtaken (history): what had been logged when the pass read, and
\* whether another has written since.
DecayRead(d) ==
  LET updated(id) == Decayed(memories[id], decay[d].now)
  IN /\ decay[d].pc = "read"
     /\ decay' = [decay EXCEPT ![d] =
          [pc |-> "write",
           plan |-> [id \in DOMAIN memories |->
             [importance |-> updated(id),
              delete |-> Forgettable(memories[id], updated(id))]],
           seen |-> Len(audit), overtaken |-> FALSE]]
     /\ UNCHANGED <<tables, now, worker>>

\* Mutants: only rows that cross the limit in this pass; no foreign keys.
DoomedOnCrossing(plan) ==
  {id \in DOMAIN plan \cap DOMAIN memories :
     plan[id].delete /\ memories[id].importance >= MinImportance}
AlwaysDeletable(ids) == TRUE

\* The rows the pass deletes, in id order: each must not be referenced by a
\* row that is still there.
Doomed(plan) == {id \in DOMAIN plan \cap DOMAIN memories : plan[id].delete}
Deletable(ids) == \A m \in DOMAIN memories :
                    memories[m].supersededBy \in ids
                      => m \in ids /\ m < memories[m].supersededBy

\* (History) the pass ends; the plans of the others are older than what it wrote.
Overtake(d) ==
  decay' = [e \in Decayers |->
    CASE e = d -> IdlePass
      [] e # d /\ decay[e].pc = "write" -> [decay[e] EXCEPT !.overtaken = TRUE]
      [] OTHER -> decay[e]]

\* One transaction for the whole pass.  Deletions are not audited.
DecayWrite(d) ==
  LET plan == decay[d].plan
      gone == Doomed(plan)
  IN /\ decay[d].pc = "write" /\ Deletable(gone)
     /\ memories' = [id \in DOMAIN memories \ gone |->
          IF id \in DOMAIN plan
            THEN [memories[id] EXCEPT !.importance = plan[id].importance]
            ELSE memories[id]]
     /\ fts' = Without(fts, gone)
     /\ embeddings' = Without(embeddings, gone)
     /\ Overtake(d)
     /\ UNCHANGED <<audit, nextId, texts, now, worker>>

\* The transaction rolls back; the ticker ignores the error.
DecayRollback(d) ==
  /\ decay[d].pc = "write" /\ ~Deletable(Doomed(decay[d].plan))
  /\ decay' = [decay EXCEPT ![d] = IdlePass]
  /\ UNCHANGED <<tables, now, worker>>

\* The process ends, or a statement fails for another reason.
DecayFail(d) ==
  /\ decay[d] # IdlePass
  /\ decay' = [decay EXCEPT ![d] = IdlePass]
  /\ UNCHANGED <<tables, now, worker>>

Tick == now < MaxTime /\ now' = now + 1 /\ UNCHANGED <<tables, worker, decay>>

Next ==
  \/ \E text \in Texts, procedural \in Tiers, importance \in Levels :
       \/ \E w \in Workers : AddMemory(w, text, procedural, importance)
       \/ \E id \in Ids : UpdateMemory(id, text, procedural, importance)
  \/ \E id1, id2 \in Ids : SupersedeMemory(id1, id2) \/ DeleteMemories(id1, id2)
  \/ \E ids \in SUBSET DOMAIN memories : TouchMemories(ids)
  \/ \E w \in Workers : \/ StartEmbedMissing(w) \/ Rebuild(w) \/ ReadMissing(w)
                        \/ SaveMemoryEmbedding(w) \/ StopEmbedding(w)
  \/ \E d \in Decayers : \/ DecayStart(d) \/ DecayRead(d) \/ DecayWrite(d)
                         \/ DecayRollback(d) \/ DecayFail(d)
  \/ Tick

Spec == Init /\ [][Next]_vars
------------------------------------------------------------------------------
\* SearchMemories joins memories_fts with memories: every transaction that
\* writes one writes the other, so each memory is found by its current text.
FtsMatches ==
  /\ DOMAIN fts = DOMAIN memories
  /\ \A id \in DOMAIN fts : fts[id] = memories[id].text

\* The foreign keys: supersession and vectors refer to memories that exist,
\* whatever is deleted while a vector is computed or a decay pass is planned.
ReferencesHold ==
  /\ DOMAIN embeddings \subseteq DOMAIN memories
  /\ \A id \in DOMAIN memories :
       memories[id].supersededBy \in DOMAIN memories \cup {NoId}

\* A vector that arrives late is never attached to another memory: it was
\* computed from a text that this memory has had, since identifiers are not
\* used again after a deletion.
EmbeddingIsOwn ==
  \A id \in DOMAIN embeddings : embeddings[id] \in texts[id]

\* The audit log of a memory is a history: it starts with its creation, and
\* nothing follows its deletion, which means the memory is gone.
AuditIsHistory ==
  \A i \in DOMAIN audit :
    LET e == audit[i]
    IN /\ e.action = "create" <=>
            ~\E j \in 1..(i - 1) : audit[j].memory = e.memory
       /\ e.action = "delete" =>
            /\ e.memory \notin DOMAIN memories
            /\ ~\E j \in (i + 1)..Len(audit) : audit[j].memory = e.memory

\* embed-rebuild recomputes: when it ends without error, each current memory whose
\* vector it deleted has one again, but for those that its limit cut from its
\* list, whatever others save, delete and embed meanwhile.
RebuildRestores ==
  [][\A w \in Workers :
       worker[w].pc = "embed" /\ SaveMemoryEmbedding(w) /\ worker'[w].pc = "idle"
         => \A id \in worker[w].cleared \cap DOMAIN memories :
              \/ id \in DOMAIN embeddings' \/ memories[id].supersededBy # NoId
              \/ id \in worker[w].left]_vars

\* A decay pass computes from what it has read, but never raises importance,
\* whatever is touched, saved and forgotten meanwhile.  All it may undo is what an
\* update, or another pass, has written since it read.
DecayLowers ==
  [][\A d \in Decayers :
       decay[d].pc = "write" /\ DecayWrite(d) /\ ~decay[d].overtaken
       => \A id \in DOMAIN memories' :
            \/ memories'[id].importance <= memories[id].importance
            \/ \E i \in (decay[d].seen + 1)..Len(audit) :
                 audit[i].action = "update" /\ audit[i].memory = id]_vars

\* The decay ticker runs as long as the daemon does, and a database call that
\* is tried in pass after pass is answered at last, if only with an error that
\* it has earned.
LiveSpec ==
  /\ Spec
  /\ \A d \in Decayers : /\ WF_vars(DecayStart(d))
                         /\ SF_vars(DecayRead(d))
                         /\ SF_vars(DecayWrite(d) \/ DecayRollback(d))

\* A memory that has decayed below min_importance is evicted in the end,
\* unless it is raised or made procedural before.
Evicts ==
  \A id \in Ids :
    (id \in DOMAIN memories /\ Forgettable(memories[id], memories[id].importance))
      ~> (id \in DOMAIN memories
            => ~Forgettable(memories[id], memories[id].importance))

\* What search finds is a MemoryBank: vectors, decay of importance, passes and
\* commands under way do not show, and a pass removes at once what it removes.
Bank == INSTANCE MemoryBank
          WITH None <- NoId,
               bank <- [id \in DOMAIN fts |->
                          [text |-> fts[id], by |-> memories[id].supersededBy]],
               used <- 1..(nextId - 1)

\* The store implements the bank.
ImplementsBank == Bank!Spec
=============================================================================
