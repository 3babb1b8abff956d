-------------------------- MODULE MemoryStoreProofs --------------------------
(***************************************************************************)
(* Proofs about MemoryStore, for every number of memories, workers, decay  *)
(* passes and audit events, every limit, and every subset of the tools.    *)
(***************************************************************************)
EXTENDS MemoryStore, FiniteSetTheorems, TLAPS

USE MemoryStoreAssumption

------------------------------------------------------------------------------
\* MissingEmbeddings lists what it finds in id order: each place of the list is
\* taken by exactly one memory.
LEMMA EveryRankTaken ==
  ASSUME NEW S \in SUBSET Ids
  PROVE  /\ IsFiniteSet(S) /\ Cardinality(S) \in Nat
         /\ \A k \in 1..Cardinality(S) : \E id \in S : Rank(id, S) = k
         /\ \A id \in S : Rank(id, S) \in 1..Cardinality(S)
         /\ \A a, b \in S : Rank(a, S) = Rank(b, S) => a = b
<1>. DEFINE n == Cardinality(S)
            upTo(id) == {i \in S : i <= id}
<1>0. \A id \in S : id \in Nat
  BY DEF Ids
<1>1. IsFiniteSet(S) /\ n \in Nat
  <2>1. IsFiniteSet(Ids)
    BY FS_Interval DEF Ids
  <2>. QED  BY <2>1, FS_Subset, FS_CardinalityType
<1>2. \A id \in S : /\ IsFiniteSet(upTo(id))
                    /\ Rank(id, S) = Cardinality(upTo(id))
                    /\ Rank(id, S) \in Nat /\ Rank(id, S) \in 1..n
  <2>. SUFFICES ASSUME NEW id \in S
                PROVE  /\ IsFiniteSet(upTo(id))
                       /\ Rank(id, S) = Cardinality(upTo(id))
                       /\ Rank(id, S) \in Nat /\ Rank(id, S) \in 1..n
    OBVIOUS
  <2>1. upTo(id) \in SUBSET S /\ id \in upTo(id)
    BY DEF Ids
  <2>2. IsFiniteSet(upTo(id)) /\ Cardinality(upTo(id)) <= n
        /\ Cardinality(upTo(id)) \in Nat
    BY <1>1, <2>1, FS_Subset, FS_CardinalityType
  <2>3. Cardinality(upTo(id)) # 0
    BY <2>1, <2>2, FS_EmptySet
  <2>. QED  BY <1>1, <2>2, <2>3 DEF Rank
<1>3. \A a, b \in S : a < b => Rank(a, S) < Rank(b, S)
  <2>. SUFFICES ASSUME NEW a \in S, NEW b \in S, a < b
                PROVE  Rank(a, S) < Rank(b, S)
    OBVIOUS
  <2>1. upTo(a) \in SUBSET upTo(b)
    BY <1>0
  <2>2. upTo(a) # upTo(b)
    <3>1. b \in upTo(b) /\ b \notin upTo(a)
      BY <1>0
    <3>. QED  BY <3>1
  <2>3. /\ Cardinality(upTo(a)) <= Cardinality(upTo(b))
        /\ Cardinality(upTo(a)) # Cardinality(upTo(b))
    BY <1>2, <2>1, <2>2, FS_Subset
  <2>4. Cardinality(upTo(a)) \in Nat /\ Cardinality(upTo(b)) \in Nat
    BY <1>2, FS_CardinalityType
  <2>5. Cardinality(upTo(a)) < Cardinality(upTo(b))
    BY <2>3, <2>4
  <2>. QED  BY <1>2, <2>5
<1>4. ASSUME NEW k \in 1..n, \A id \in S : Rank(id, S) # k
      PROVE  FALSE
  <2>. DEFINE f == [id \in S |-> Rank(id, S)]
              T == (1..n) \ {k}
  <2>1. f \in [S -> T]
    BY <1>2, <1>4
  <2>2. IsFiniteSet(1..n) /\ Cardinality(1..n) = n
    BY <1>1, FS_Interval
  <2>3. IsFiniteSet(T) /\ Cardinality(T) = n - 1
    <3>1. IsFiniteSet(T) /\ Cardinality(T) = Cardinality(1..n) - 1
      BY <2>2, FS_RemoveElement
    <3>. QED  BY <2>2, <3>1
  <2>4. \E a, b \in S : a # b /\ f[a] = f[b]
    <3>1. Cardinality(T) < Cardinality(S)
      BY <1>1, <2>3
    <3>. HIDE DEF f, T
    <3>. QED  BY <1>1, <2>1, <2>3, <3>1, FS_PigeonHole
  <2>5. PICK a \in S, b \in S : a # b /\ f[a] = f[b]
    BY <2>4
  <2>6. a < b \/ b < a
    BY <1>0, <2>5
  <2>7. Rank(a, S) < Rank(b, S) \/ Rank(b, S) < Rank(a, S)
    BY <1>3, <2>6
  <2>8. Rank(a, S) = Rank(b, S)
    BY <2>5
  <2>9. Rank(a, S) \in Nat /\ Rank(b, S) \in Nat
    BY <1>2
  <2>. QED  BY <2>7, <2>8, <2>9
<1>5. ASSUME NEW a \in S, NEW b \in S, Rank(a, S) = Rank(b, S)
      PROVE  a = b
  <2>1. Rank(a, S) \in Nat /\ Rank(b, S) \in Nat
    BY <1>2
  <2>2. /\ a < b => Rank(a, S) < Rank(b, S)
        /\ b < a => Rank(b, S) < Rank(a, S)
    BY <1>3
  <2>3. ~(a < b) /\ ~(b < a)
    BY <1>5, <2>1, <2>2
  <2>. QED  BY <1>0, <2>3
<1>. QED  BY <1>1, <1>2, <1>4, <1>5
------------------------------------------------------------------------------
\* The numbers among the constants, and what follows for the ids.
LEMMA Numbers ==
  /\ MinImportance \in Nat /\ MaxImportance \in Nat /\ EmbedLimit \in Nat
  /\ MaxMemories \in Nat /\ MaxTime \in Nat \ {0}
  /\ Ids \subseteq Nat \ {0}
BY DEF Ids

IsTable(table, keys, rows) ==
  DOMAIN table \subseteq keys /\ table \in [DOMAIN table -> rows]

\* INSERT and UPDATE of a row of the right type.
LEMMA PutTable ==
  ASSUME NEW keys, NEW rows, NEW table, IsTable(table, keys, rows),
         NEW key \in keys, NEW row \in rows
  PROVE  /\ IsTable(Put(table, key, row), keys, rows)
         /\ DOMAIN Put(table, key, row) = DOMAIN table \cup {key}
         /\ Put(table, key, row)[key] = row
         /\ \A k \in DOMAIN table \ {key} : Put(table, key, row)[k] = table[k]
BY DEF IsTable, Put

\* DELETE.
LEMMA WithoutTable ==
  ASSUME NEW keys, NEW rows, NEW table, IsTable(table, keys, rows), NEW gone
  PROVE  /\ IsTable(Without(table, gone), keys, rows)
         /\ DOMAIN Without(table, gone) = DOMAIN table \ gone
         /\ \A k \in DOMAIN table \ gone : Without(table, gone)[k] = table[k]
BY DEF IsTable, Without

\* An empty table.
LEMMA EmptyTable ==
  ASSUME NEW keys, NEW rows
  PROVE  IsTable([id \in {} |-> id], keys, rows) /\ DOMAIN [id \in {} |-> id] = {}
BY DEF IsTable
------------------------------------------------------------------------------
\* Types, in a form in which each step can be seen to keep them: TypeOK, with
\* the domains of the variables and that ids are given out one after another.
Queues == [pc : {"idle", "missing", "embed"}, queue : Seq(Job),
           cleared : SUBSET Ids, left : SUBSET Ids]

TablesType ==
  /\ IsTable(memories, Ids, Rows)
  /\ IsTable(fts, Ids, Texts)
  /\ IsTable(embeddings, Ids, Texts)
  /\ IsTable(texts, Ids, SUBSET Texts)
  /\ nextId \in 1..(MaxMemories + 1)
  /\ DOMAIN memories \subseteq DOMAIN texts /\ DOMAIN texts = 1..(nextId - 1)

AuditType == audit \in Seq(Events)

WorkerType ==
  /\ worker \in [Workers -> Queues]
  /\ \A w \in Workers : worker[w].pc = "embed" => worker[w].queue # <<>>

PassType(pass) ==
  \/ pass = IdlePass
  \/ pass.pc = "read" /\ pass.now \in Times
  \/ /\ pass = [pc |-> "write", plan |-> pass.plan, seen |-> pass.seen,
                overtaken |-> pass.overtaken]
     /\ IsTable(pass.plan, Ids, Plan)
     /\ pass.seen \in Nat /\ pass.overtaken \in BOOLEAN

DecayType == DOMAIN decay = Decayers /\ \A d \in Decayers : PassType(decay[d])

TypeInv == now \in Times /\ TablesType /\ AuditType /\ WorkerType /\ DecayType

\* What a step leaves alone keeps its type.
LEMMA TypesStay ==
  /\ TablesType /\ UNCHANGED <<memories, fts, embeddings, texts, nextId>> => TablesType'
  /\ AuditType /\ UNCHANGED audit => AuditType'
  /\ WorkerType /\ UNCHANGED worker => WorkerType'
  /\ DecayType /\ UNCHANGED decay => DecayType'
BY DEF TablesType, AuditType, WorkerType, DecayType, PassType

\* The audit log takes an event of each kind.
LEMMA LogType ==
  ASSUME AuditType, NEW action \in Actions, NEW id \in Ids,
         NEW ts \in Times \cup {0}, Log(action, id, ts)
  PROVE  AuditType'
<1>1. Event(action, id, ts) \in Events
  BY DEF Event, Events
<1>. QED  BY <1>1 DEF AuditType, Log

\* A pass that ends, however it ends.
LEMMA PassEnds ==
  ASSUME DecayType, NEW d \in Decayers,
         decay' = [decay EXCEPT ![d] = IdlePass]
  PROVE  DecayType'
BY DEF DecayType, PassType

\* A pass that writes ends, and leaves the plans of the others as they were.
LEMMA PassOvertakes ==
  ASSUME DecayType, NEW d \in Decayers, Overtake(d)
  PROVE  DecayType'
<1>. SUFFICES ASSUME NEW e \in Decayers PROVE PassType(decay'[e])
  BY DEF DecayType, Overtake
<1>1. CASE e = d
  BY <1>1 DEF Overtake, PassType
<1>2. CASE e # d /\ decay[e].pc = "write"
  <2>1. /\ decay'[e] = [decay[e] EXCEPT !.overtaken = TRUE]
        /\ PassType(decay[e]) /\ decay[e].pc = "write" /\ decay[e] # IdlePass
    BY <1>2 DEF Overtake, DecayType, IdlePass
  <2>2. /\ decay'[e].pc = "write" /\ decay'[e].plan = decay[e].plan
        /\ decay'[e].seen = decay[e].seen /\ decay'[e].overtaken = TRUE
    BY <2>1 DEF PassType
  <2>. QED  BY <2>1, <2>2 DEF PassType
<1>3. CASE e # d /\ decay[e].pc # "write"
  BY <1>3 DEF Overtake, DecayType
<1>. QED  BY <1>1, <1>2, <1>3

\* A worker that moves leaves the other workers where they were.
LEMMA WorkerMoves ==
  ASSUME WorkerType, NEW w \in Workers, NEW job \in Queues,
         job.pc = "embed" => job.queue # <<>>,
         worker' = [worker EXCEPT ![w] = job]
  PROVE  WorkerType'
BY DEF WorkerType

\* Each operation keeps the types: a new memory's row, vector and event,
LEMMA AddType ==
  ASSUME TypeInv, NEW w \in Workers, NEW text \in Texts,
         NEW procedural \in BOOLEAN, NEW importance \in Levels,
         AddMemory(w, text, procedural, importance)
  PROVE  TypeInv'
<1>. DEFINE row == [text |-> text, procedural |-> procedural,
                    importance |-> importance, accessed |-> now,
                    supersededBy |-> NoId]
            job == [id |-> nextId, text |-> text]
<1>1. /\ nextId \in Ids /\ nextId' = nextId + 1 /\ nextId' \in 1..(MaxMemories + 1)
      /\ 1..(nextId' - 1) = 1..(nextId - 1) \cup {nextId}
  BY Numbers DEF AddMemory, TypeInv, TablesType, Ids
<1>2. row \in Rows /\ {text} \in SUBSET Texts
  BY DEF TypeInv, Rows, NoId
<1>3. TablesType'
  <2>1. /\ memories' = Put(memories, nextId, row) /\ fts' = Put(fts, nextId, text)
        /\ texts' = Put(texts, nextId, {text}) /\ embeddings' = embeddings
    BY DEF AddMemory, NewId, Index
  <2>. HIDE DEF row
  <2>2. IsTable(memories', Ids, Rows) /\ DOMAIN memories' = DOMAIN memories \cup {nextId}
    <3>1. IsTable(memories, Ids, Rows)
      BY DEF TypeInv, TablesType
    <3>. QED  BY <1>1, <1>2, <2>1, <3>1 DEF IsTable, Put
  <2>3. IsTable(fts', Ids, Texts)
    BY <1>1, <2>1, PutTable DEF TypeInv, TablesType
  <2>4. /\ IsTable(texts', Ids, SUBSET Texts)
        /\ DOMAIN texts' = DOMAIN texts \cup {nextId}
    <3>1. IsTable(texts, Ids, SUBSET Texts)
      BY DEF TypeInv, TablesType
    <3>. QED  BY <1>1, <1>2, <2>1, <3>1 DEF IsTable, Put
  <2>. QED  BY <1>1, <2>1, <2>2, <2>3, <2>4 DEF TypeInv, TablesType
<1>4. AuditType'
  BY <1>1, LogType DEF AddMemory, NewId, Actions, TypeInv
<1>5. WorkerType'
  <2>1. CASE UNCHANGED worker
    BY <2>1 DEF TypeInv, WorkerType
  <2>2. CASE worker' = [worker EXCEPT ![w] =
               [pc |-> "embed", queue |-> <<job>>, cleared |-> {}, left |-> {}]]
    <3>1. job \in Job
      BY <1>1 DEF Job
    <3>2. <<job>> \in Seq(Job) /\ <<job>> # <<>>
      BY <3>1
    <3>3. [pc |-> "embed", queue |-> <<job>>, cleared |-> {}, left |-> {}] \in Queues
      BY <3>2 DEF Queues
    <3>. QED  BY <2>2, <3>2, <3>3, WorkerMoves DEF TypeInv
  <2>. QED  BY <2>1, <2>2 DEF AddMemory, NewId
<1>. QED  BY <1>3, <1>4, <1>5, TypesStay DEF AddMemory, TypeInv

\* a new text or importance for a row,
LEMMA UpdateType ==
  ASSUME TypeInv, NEW id \in Ids, NEW text \in Texts,
         NEW procedural \in BOOLEAN, NEW importance \in Levels,
         UpdateMemory(id, text, procedural, importance)
  PROVE  TypeInv'
<1>. DEFINE row == [memories[id] EXCEPT !.text = text, !.procedural = procedural,
                                        !.importance = importance]
<1>1. id \in DOMAIN memories /\ id \in DOMAIN texts
  BY DEF UpdateMemory, TypeInv, TablesType
<1>2. row \in Rows /\ texts[id] \cup {text} \in SUBSET Texts
  BY <1>1 DEF TypeInv, TablesType, IsTable, Rows
<1>3. TablesType'
  <2>1. /\ memories' = Put(memories, id, row) /\ fts' = Put(fts, id, text)
        /\ texts' = Put(texts, id, texts[id] \cup {text})
        /\ UNCHANGED <<embeddings, nextId>>
    BY DEF UpdateMemory, Index
  <2>. HIDE DEF row
  <2>2. IsTable(memories', Ids, Rows) /\ DOMAIN memories' = DOMAIN memories
    <3>1. IsTable(memories, Ids, Rows)
      BY DEF TypeInv, TablesType
    <3>. QED  BY <1>1, <1>2, <2>1, <3>1 DEF IsTable, Put
  <2>3. IsTable(fts', Ids, Texts)
    BY <2>1, PutTable DEF TypeInv, TablesType
  <2>4. IsTable(texts', Ids, SUBSET Texts) /\ DOMAIN texts' = DOMAIN texts
    <3>1. IsTable(texts, Ids, SUBSET Texts)
      BY DEF TypeInv, TablesType
    <3>. QED  BY <1>1, <1>2, <2>1, <3>1, PutTable
  <2>. QED  BY <2>1, <2>2, <2>3, <2>4 DEF TypeInv, TablesType
<1>4. AuditType'
  BY LogType DEF UpdateMemory, Actions, TypeInv
<1>. QED  BY <1>3, <1>4, TypesStay DEF UpdateMemory, TypeInv

\* a row that names another,
LEMMA SupersedeType ==
  ASSUME TypeInv, NEW old \in Ids, NEW new \in Ids, SupersedeMemory(old, new)
  PROVE  TypeInv'
<1>. DEFINE row == [memories[old] EXCEPT !.supersededBy = new]
<1>1. old \in DOMAIN memories
  BY DEF SupersedeMemory
<1>2. row \in Rows
  BY <1>1 DEF TypeInv, TablesType, IsTable, Rows
<1>3. IsTable(memories', Ids, Rows) /\ DOMAIN memories' = DOMAIN memories
  <2>1. memories' = Put(memories, old, row)
    BY DEF SupersedeMemory
  <2>2. IsTable(memories, Ids, Rows)
    BY DEF TypeInv, TablesType
  <2>. HIDE DEF row
  <2>. QED  BY <1>1, <1>2, <2>1, <2>2 DEF IsTable, Put
<1>4. TablesType'
  BY <1>3 DEF SupersedeMemory, TypeInv, TablesType
<1>5. AuditType'
  BY LogType DEF SupersedeMemory, Actions, TypeInv
<1>. QED  BY <1>4, <1>5, TypesStay DEF SupersedeMemory, TypeInv

\* What one round of the loop of DeleteMemories logs.
LoggedDelete(log, rows, id) ==
  IF id \in DOMAIN rows THEN Append(log, Event("delete", id, 0)) ELSE log

\* What memory_forget does: an id after the other, an event for each row.
LEMMA DeleteEffect ==
  ASSUME NEW id1, NEW id2, DeleteMemories(id1, id2)
  PROVE  /\ ~Referenced(memories, id1)
         /\ ~Referenced(Without(memories, {id1}), id2)
         /\ memories' = Without(Without(memories, {id1}), {id2})
         /\ fts' = Without(Without(fts, {id1}), {id2})
         /\ embeddings' = Without(Without(embeddings, {id1}), {id2})
         /\ audit' = LoggedDelete(LoggedDelete(audit, memories, id1),
                                  Without(memories, {id1}), id2)
         /\ UNCHANGED <<nextId, texts, now, worker, decay>>
BY DEF DeleteMemories, DeleteRow, RowDeleted, LoggedDelete

\* rows that go, with what belongs to them,
LEMMA DeleteType ==
  ASSUME TypeInv, NEW id1 \in Ids, NEW id2 \in Ids, DeleteMemories(id1, id2)
  PROVE  TypeInv'
<1>1. /\ memories' = Without(memories, {id1, id2}) /\ fts' = Without(fts, {id1, id2})
      /\ embeddings' = Without(embeddings, {id1, id2})
      /\ UNCHANGED <<nextId, texts, now, worker, decay>>
  <2>1. /\ memories' = Without(Without(memories, {id1}), {id2})
        /\ fts' = Without(Without(fts, {id1}), {id2})
        /\ embeddings' = Without(Without(embeddings, {id1}), {id2})
        /\ UNCHANGED <<nextId, texts, now, worker, decay>>
    BY DeleteEffect
  <2>2. /\ memories' = Without(memories, {id1, id2})
        /\ fts' = Without(fts, {id1, id2})
        /\ embeddings' = Without(embeddings, {id1, id2})
    BY <2>1 DEF Without
  <2>. QED  BY <2>1, <2>2
<1>2. TablesType'
  BY <1>1 DEF TypeInv, TablesType, IsTable, Without
<1>3. AuditType'
  <2>. DEFINE log1 == LoggedDelete(audit, memories, id1)
  <2>1. Event("delete", id1, 0) \in Events /\ Event("delete", id2, 0) \in Events
    BY DEF Event, Events, Actions
  <2>2. log1 \in Seq(Events)
    BY <2>1 DEF LoggedDelete, TypeInv, AuditType
  <2>3. LoggedDelete(log1, Without(memories, {id1}), id2) \in Seq(Events)
    <3>. HIDE DEF log1
    <3>. QED  BY <2>1, <2>2 DEF LoggedDelete
  <2>4. audit' = LoggedDelete(LoggedDelete(audit, memories, id1),
                              Without(memories, {id1}), id2)
    BY DeleteEffect
  <2>. QED  BY <2>3, <2>4 DEF AuditType
<1>. QED  BY <1>1, <1>2, <1>3, TypesStay DEF TypeInv

\* a recall that stamps what it found,
LEMMA TouchType ==
  ASSUME TypeInv, NEW ids, TouchMemories(ids)
  PROVE  TypeInv'
<1>1. IsTable(memories', Ids, Rows) /\ DOMAIN memories' = DOMAIN memories
  <2>1. \A id \in DOMAIN memories : [memories[id] EXCEPT !.accessed = now] \in Rows
    BY DEF TypeInv, TablesType, IsTable, Rows
  <2>. QED  BY <2>1 DEF TouchMemories, TypeInv, TablesType, IsTable
<1>2. TablesType'
  BY <1>1 DEF TouchMemories, TypeInv, TablesType
<1>. QED  BY <1>2, TypesStay DEF TouchMemories, TypeInv
------------------------------------------------------------------------------
\* a rebuild that empties the table of vectors.
LEMMA RebuildType ==
  ASSUME TypeInv, NEW w \in Workers, Rebuild(w)
  PROVE  TypeInv'
<1>. DEFINE gone == DOMAIN embeddings
<1>1. TablesType'
  BY EmptyTable DEF Rebuild, TypeInv, TablesType
<1>2. gone \in SUBSET Ids
  BY DEF TypeInv, TablesType, IsTable
<1>3. WorkerType'
  <2>1. worker' = [v \in Workers |->
          IF v = w
            THEN [pc |-> "missing", queue |-> <<>>, cleared |-> gone, left |-> {}]
            ELSE [worker[v] EXCEPT !.cleared = worker[v].cleared \ gone]]
    BY DEF Rebuild
  <2>2. [pc |-> "missing", queue |-> <<>>, cleared |-> gone, left |-> {}] \in Queues
    BY <1>2 DEF Queues
  <2>. HIDE DEF gone
  <2>3. \A v \in Workers :
          /\ [worker[v] EXCEPT !.cleared = worker[v].cleared \ gone] \in Queues
          /\ [worker[v] EXCEPT !.cleared = worker[v].cleared \ gone].pc = worker[v].pc
          /\ [worker[v] EXCEPT !.cleared = worker[v].cleared \ gone].queue = worker[v].queue
    BY DEF TypeInv, WorkerType, Queues
  <2>. QED  BY <2>1, <2>2, <2>3 DEF TypeInv, WorkerType
<1>. QED  BY <1>1, <1>3, TypesStay DEF Rebuild, TypeInv

\* What a worker is before and after its work.
LEMMA IdleWorkerType == IdleWorker \in Queues /\ IdleWorker.pc = "idle"
BY DEF IdleWorker, Queues

\* What a worker that embeds has still to store, by id.
Queued(job) == {job.queue[k].id : k \in DOMAIN job.queue}

\* The list of missing memories holds, in each place, a memory that is there,
\* with its text; and each that is missing, but for what it has left.
LEMMA MissingList ==
  ASSUME TypeInv, NEW w \in Workers, ReadMissing(w)
  PROVE  \E job \in Queues :
           /\ worker' = [worker EXCEPT ![w] = job]
           /\ job.cleared \subseteq worker[w].cleared
           /\ job.pc = "embed" => Missing \cap job.cleared \subseteq Queued(job) \cup job.left
           /\ job.pc = "embed" => job.queue # <<>>
           /\ \A k \in DOMAIN job.queue :
                /\ job.queue[k].id \in DOMAIN memories
                /\ job.queue[k].text = memories[job.queue[k].id].text
<1>. DEFINE nth(k) == CHOOSE id \in Missing : Rank(id, Missing) = k
            Upto(limit) == IF Cardinality(Missing) <= limit THEN Cardinality(Missing)
                                                            ELSE limit
            Queue(n) == [k \in 1..n |-> [id |-> nth(k), text |-> memories[nth(k)].text]]
            cleared == worker[w].cleared
            Left(limit) == {id \in Missing \cap cleared : Rank(id, Missing) > limit}
            Listed(limit) == [pc |-> "embed", queue |-> Queue(Upto(limit)),
                              cleared |-> cleared, left |-> Left(limit)]
<1>1. PICK limit \in 1..EmbedLimit :
        worker' = [worker EXCEPT ![w] = IF Upto(limit) = 0 THEN IdleWorker
                                                          ELSE Listed(limit)]
  BY DEF ReadMissing
<1>2. Missing \in SUBSET Ids /\ Missing \subseteq DOMAIN memories
  BY DEF TypeInv, TablesType, IsTable, Missing
<1>3. /\ Cardinality(Missing) \in Nat
      /\ \A k \in 1..Cardinality(Missing) : \E id \in Missing : Rank(id, Missing) = k
      /\ \A id \in Missing : Rank(id, Missing) \in 1..Cardinality(Missing)
      /\ \A a, b \in Missing : Rank(a, Missing) = Rank(b, Missing) => a = b
  BY <1>2, EveryRankTaken
<1>4. PICK n : n = Upto(limit)
  OBVIOUS
<1>5. /\ n \in Nat /\ n <= Cardinality(Missing)
      /\ \A r \in 1..Cardinality(Missing) : r <= limit => r \in 1..n
  BY <1>3, <1>4, Numbers
<1>6. \A k \in 1..n : nth(k) \in Missing
  <2>. SUFFICES ASSUME NEW k \in 1..n PROVE nth(k) \in Missing
    OBVIOUS
  <2>1. k \in 1..Cardinality(Missing)
    BY <1>3, <1>5
  <2>2. \E id \in Missing : Rank(id, Missing) = k
    BY <1>3, <2>1
  <2>. QED  BY <2>2
<1>7. \A k \in 1..n : [id |-> nth(k), text |-> memories[nth(k)].text] \in Job
  BY <1>2, <1>6 DEF TypeInv, TablesType, IsTable, Rows, Job
<1>8. ASSUME NEW id \in Missing, Rank(id, Missing) <= limit
      PROVE  \E k \in 1..n : nth(k) = id
  <2>1. Rank(id, Missing) \in 1..n
    BY <1>3, <1>5, <1>8
  <2>2. nth(Rank(id, Missing)) = id
    BY <1>3
  <2>. QED  BY <2>1, <2>2
<1>9. /\ worker[w] \in Queues /\ cleared \in SUBSET Ids
      /\ Left(limit) \in SUBSET Ids
      /\ \A id \in Missing \cap cleared : id \in Left(limit) \/ Rank(id, Missing) <= limit
  <2>1. worker[w] \in Queues
    BY DEF TypeInv, WorkerType
  <2>2. \A id \in Missing : Rank(id, Missing) \in Int
    BY <1>3
  <2>. QED  BY <1>2, <2>1, <2>2 DEF Queues
<1>. HIDE DEF nth, Upto, Left, cleared
<1>10. PICK queue : queue = Queue(n)
  OBVIOUS
<1>11. queue \in Seq(Job) /\ DOMAIN queue = 1..n /\ Len(queue) = n
  BY <1>5, <1>7, <1>10
<1>12. \A k \in 1..n : /\ queue[k].id = nth(k)
                       /\ queue[k].id \in DOMAIN memories
                       /\ queue[k].text = memories[queue[k].id].text
  BY <1>2, <1>6, <1>10
<1>. HIDE DEF Queue
<1>13. CASE n = 0
  <2>1. worker' = [worker EXCEPT ![w] = IdleWorker]
    BY <1>1, <1>4, <1>13
  <2>2. /\ IdleWorker \in Queues /\ IdleWorker.cleared = {} /\ IdleWorker.pc = "idle"
        /\ DOMAIN IdleWorker.queue = {}
    BY DEF IdleWorker, Queues
  <2>. QED  BY <2>1, <2>2
<1>14. CASE n # 0
  <2>1. PICK job : job = [pc |-> "embed", queue |-> queue, cleared |-> cleared,
                          left |-> Left(limit)]
    OBVIOUS
  <2>2. worker' = [worker EXCEPT ![w] = job]
    BY <1>1, <1>4, <1>10, <1>14, <2>1
  <2>3. /\ job \in Queues /\ job.queue = queue /\ job.cleared = cleared
        /\ job.left = Left(limit)
    BY <1>9, <1>11, <2>1 DEF Queues
  <2>4. job.queue # <<>>
    BY <1>11, <1>14, <2>3
  <2>5. Missing \cap job.cleared \subseteq Queued(job) \cup job.left
    BY <1>8, <1>9, <1>11, <1>12, <2>3 DEF Queued
  <2>6. \A k \in DOMAIN job.queue : /\ job.queue[k].id \in DOMAIN memories
                                    /\ job.queue[k].text = memories[job.queue[k].id].text
    BY <1>11, <1>12, <2>3
  <2>7. job.cleared \subseteq worker[w].cleared
    BY <2>3 DEF cleared
  <2>. QED  BY <2>2, <2>3, <2>4, <2>5, <2>6, <2>7
<1>. QED  BY <1>13, <1>14

\* Reading what lacks a vector keeps the types.
LEMMA ReadMissingType ==
  ASSUME TypeInv, NEW w \in Workers, ReadMissing(w)
  PROVE  TypeInv'
<1>1. PICK job \in Queues : /\ worker' = [worker EXCEPT ![w] = job]
                            /\ job.pc = "embed" => job.queue # <<>>
  BY MissingList
<1>2. WorkerType'
  BY <1>1, WorkerMoves DEF TypeInv
<1>. QED  BY <1>2, TypesStay DEF ReadMissing, TypeInv, tables

\* Storing one computed vector keeps the types, as does
LEMMA SaveEmbeddingType ==
  ASSUME TypeInv, NEW w \in Workers, SaveMemoryEmbedding(w)
  PROVE  TypeInv'
<1>. DEFINE queue == worker[w].queue
            job == Head(queue)
<1>1. /\ worker[w] \in Queues /\ queue \in Seq(Job) /\ queue # <<>>
      /\ job \in Job /\ job.id \in DOMAIN memories
  <2>1. worker[w] \in Queues /\ queue # <<>>
    BY DEF SaveMemoryEmbedding, TypeInv, WorkerType
  <2>2. queue \in Seq(Job)
    BY <2>1 DEF Queues
  <2>. QED  BY <2>1, <2>2 DEF SaveMemoryEmbedding
<1>2. TablesType'
  <2>1. job.id \in Ids /\ job.text \in Texts
    BY <1>1 DEF Job
  <2>2. IsTable(embeddings, Ids, Texts)
    BY DEF TypeInv, TablesType
  <2>3. embeddings' = Put(embeddings, job.id, job.text)
    BY DEF SaveMemoryEmbedding
  <2>. HIDE DEF job
  <2>4. IsTable(embeddings', Ids, Texts)
    BY <2>1, <2>2, <2>3 DEF IsTable, Put
  <2>. QED  BY <2>4 DEF SaveMemoryEmbedding, TypeInv, TablesType
<1>3. WorkerType'
  <2>. DEFINE rest == [worker[w] EXCEPT !.queue = Tail(queue)]
  <2>1. worker' = [worker EXCEPT ![w] = IF Len(queue) = 1 THEN IdleWorker ELSE rest]
    BY DEF SaveMemoryEmbedding, TypeInv, WorkerType
  <2>2. CASE Len(queue) = 1
    BY <2>1, <2>2, IdleWorkerType, WorkerMoves DEF TypeInv
  <2>3. CASE Len(queue) # 1
    <3>1. Tail(queue) \in Seq(Job) /\ Tail(queue) # <<>>
      <4>1. Len(queue) \in Nat /\ Len(queue) # 0
        BY <1>1
      <4>2. Len(Tail(queue)) = Len(queue) - 1 /\ Tail(queue) \in Seq(Job)
        BY <1>1
      <4>3. Len(Tail(queue)) # 0
        BY <2>3, <4>1, <4>2
      <4>4. Len(<<>>) = 0
        OBVIOUS
      <4>. HIDE DEF queue
      <4>. QED  BY <4>2, <4>3, <4>4
    <3>2. rest \in Queues /\ rest.queue = Tail(queue)
      BY <1>1, <3>1 DEF Queues
    <3>. HIDE DEF rest
    <3>. QED  BY <2>1, <2>3, <3>1, <3>2, WorkerMoves DEF TypeInv
  <2>. QED  BY <2>2, <2>3
<1>. QED  BY <1>2, <1>3, TypesStay DEF SaveMemoryEmbedding, TypeInv

\* starting a worker and giving one up.
LEMMA EmbeddingStartsAndStops ==
  ASSUME TypeInv, NEW w \in Workers, StartEmbedMissing(w) \/ StopEmbedding(w)
  PROVE  TypeInv'
<1>1. WorkerType'
  <2>1. CASE worker' = [worker EXCEPT ![w] = IdleWorker]
    BY <2>1, IdleWorkerType, WorkerMoves DEF TypeInv
  <2>2. CASE worker' = [worker EXCEPT ![w].pc = "missing"]
    <3>1. [worker[w] EXCEPT !.pc = "missing"] \in Queues
          /\ [worker[w] EXCEPT !.pc = "missing"].pc = "missing"
      BY DEF TypeInv, WorkerType, Queues
    <3>2. worker' = [worker EXCEPT ![w] = [worker[w] EXCEPT !.pc = "missing"]]
      BY <2>2 DEF TypeInv, WorkerType
    <3>. QED  BY <3>1, <3>2, WorkerMoves DEF TypeInv
  <2>. QED  BY <2>1, <2>2 DEF StartEmbedMissing, StopEmbedding
<1>. QED  BY <1>1, TypesStay DEF StartEmbedMissing, StopEmbedding, TypeInv, tables
------------------------------------------------------------------------------
\* Starting a decay pass keeps the types,
LEMMA DecayStartType ==
  ASSUME TypeInv, NEW d \in Decayers, DecayStart(d)
  PROVE  TypeInv'
<1>1. DecayType'
  BY DEF DecayStart, TypeInv, DecayType, PassType
<1>. QED  BY <1>1, TypesStay DEF DecayStart, TypeInv, tables

\* as does planning what it will write.
LEMMA DecayReadType ==
  ASSUME TypeInv, NEW d \in Decayers, DecayRead(d)
  PROVE  TypeInv'
<1>. DEFINE level(id) == Decayed(memories[id], decay[d].now)
            plan == [id \in DOMAIN memories |->
                      [importance |-> level(id),
                       delete |-> Forgettable(memories[id], level(id))]]
<1>1. decay[d].now \in Times
  BY DEF DecayRead, TypeInv, DecayType, PassType, IdlePass
<1>2. ASSUME NEW id \in DOMAIN memories PROVE level(id) \in Levels
  <2>1. memories[id].importance \in Levels /\ memories[id].accessed \in Times
    BY <1>2 DEF TypeInv, TablesType, IsTable, Rows
  <2>. QED  BY <1>1, <2>1, Numbers DEF Decayed, Max2, Levels, Times
<1>3. IsTable(plan, Ids, Plan)
  <2>1. \A id \in DOMAIN memories : Forgettable(memories[id], level(id)) \in BOOLEAN
    BY DEF Forgettable
  <2>. HIDE DEF level
  <2>. QED  BY <1>2, <2>1 DEF TypeInv, TablesType, IsTable, Plan
<1>. DEFINE pass == [pc |-> "write", plan |-> plan,
                     seen |-> Len(audit), overtaken |-> FALSE]
<1>4. decay' = [decay EXCEPT ![d] = pass]
  BY DEF DecayRead
<1>5. DecayType'
  <2>. HIDE DEF plan
  <2>1. Len(audit) \in Nat
    BY DEF TypeInv, AuditType
  <2>2. PassType(pass)
    BY <1>3, <2>1 DEF PassType
  <2>. HIDE DEF pass
  <2>. QED  BY <1>4, <2>2 DEF TypeInv, DecayType
<1>. QED  BY <1>5, TypesStay DEF DecayRead, TypeInv, tables

\* What a pass writes: rows go, with their text and vector, and others get the
\* importance that was planned.
LEMMA DecayWriteType ==
  ASSUME TypeInv, NEW d \in Decayers, DecayWrite(d)
  PROVE  TypeInv'
<1>. DEFINE plan == decay[d].plan
            gone == Doomed(plan)
<1>1. IsTable(plan, Ids, Plan)
  BY DEF DecayWrite, TypeInv, DecayType, PassType, IdlePass
<1>2. IsTable(memories', Ids, Rows) /\ DOMAIN memories' = DOMAIN memories \ gone
  <2>1. \A id \in DOMAIN memories \cap DOMAIN plan :
          [memories[id] EXCEPT !.importance = plan[id].importance] \in Rows
    BY <1>1 DEF TypeInv, TablesType, IsTable, Rows, Plan
  <2>2. memories' = [id \in DOMAIN memories \ gone |->
          IF id \in DOMAIN plan
            THEN [memories[id] EXCEPT !.importance = plan[id].importance]
            ELSE memories[id]]
    BY DEF DecayWrite
  <2>. HIDE DEF plan, gone
  <2>. QED  BY <2>1, <2>2 DEF TypeInv, TablesType, IsTable
<1>3. TablesType'
  BY <1>2 DEF DecayWrite, TypeInv, TablesType, IsTable, Without
<1>4. DecayType'
  BY PassOvertakes DEF DecayWrite, TypeInv
<1>. QED  BY <1>3, <1>4, TypesStay DEF DecayWrite, TypeInv

\* The types are kept by every step.
LEMMA TypeInductive == TypeInv /\ [Next]_vars => TypeInv'
<1>. SUFFICES ASSUME TypeInv, [Next]_vars PROVE TypeInv'
  OBVIOUS
<1>1. ASSUME NEW w \in Workers, NEW text \in Texts, NEW procedural \in BOOLEAN,
             NEW importance \in Levels, AddMemory(w, text, procedural, importance)
      PROVE  TypeInv'
  BY <1>1, AddType
<1>2. ASSUME NEW id \in Ids, NEW text \in Texts, NEW procedural \in BOOLEAN,
             NEW importance \in Levels,
             UpdateMemory(id, text, procedural, importance)
      PROVE  TypeInv'
  BY <1>2, UpdateType
<1>3. ASSUME NEW id1 \in Ids, NEW id2 \in Ids,
             SupersedeMemory(id1, id2) \/ DeleteMemories(id1, id2)
      PROVE  TypeInv'
  BY <1>3, SupersedeType, DeleteType
<1>4. ASSUME NEW ids, TouchMemories(ids) PROVE TypeInv'
  BY <1>4, TouchType
<1>5. ASSUME NEW w \in Workers,
             \/ StartEmbedMissing(w) \/ Rebuild(w) \/ ReadMissing(w)
             \/ SaveMemoryEmbedding(w) \/ StopEmbedding(w)
      PROVE  TypeInv'
  BY <1>5, EmbeddingStartsAndStops, RebuildType, ReadMissingType, SaveEmbeddingType
<1>6. ASSUME NEW d \in Decayers,
             DecayStart(d) \/ DecayRead(d) \/ DecayWrite(d)
      PROVE  TypeInv'
  BY <1>6, DecayStartType, DecayReadType, DecayWriteType
<1>7. ASSUME NEW d \in Decayers, DecayRollback(d) \/ DecayFail(d) PROVE TypeInv'
  <2>1. DecayType'
    BY <1>7, PassEnds DEF DecayRollback, DecayFail, TypeInv
  <2>. QED  BY <1>7, <2>1, TypesStay DEF DecayRollback, DecayFail, TypeInv, tables
<1>8. CASE Tick
  BY <1>8, TypesStay, Numbers DEF Tick, TypeInv, tables, Times
<1>9. CASE UNCHANGED vars
  BY <1>9, TypesStay DEF vars, tables, TypeInv
<1>. QED  BY TiersAssumption, <1>1, <1>2, <1>3, <1>4, <1>5, <1>6, <1>7, <1>8,
             <1>9 DEF Next

\* The types hold in every state.
LEMMA TypeInvHolds == Spec => []TypeInv
<1>1. Init => TypeInv
  <2>. SUFFICES ASSUME Init PROVE TypeInv
    OBVIOUS
  <2>1. now \in Times
    BY Numbers DEF Init, Times
  <2>2. TablesType
    BY EmptyTable, Numbers DEF Init, TablesType
  <2>3. AuditType
    BY DEF Init, AuditType
  <2>4. WorkerType
    BY IdleWorkerType DEF Init, WorkerType
  <2>5. DecayType
    BY DEF Init, DecayType, PassType
  <2>. QED  BY <2>1, <2>2, <2>3, <2>4, <2>5 DEF TypeInv
<1>. QED  BY <1>1, TypeInductive, PTL DEF Spec

\* Every table keeps its columns' types, and every worker and pass what it
\* works on, through all the operations.
THEOREM TypeCorrect == Spec => []TypeOK
<1>1. TypeInv => TypeOK
  BY DEF TypeInv, TablesType, IsTable, AuditType, WorkerType, Queues, DecayType,
         PassType, TypeOK
<1>. QED  BY <1>1, TypeInvHolds, PTL
------------------------------------------------------------------------------
\* The operations as they bear on texts and references.  A step adds a row, or
\* gives one another text, or another superseding memory, or deletes rows which
\* no row that stays refers to; all others leave both columns alone.
OwnText(id, text) == id \in DOMAIN texts /\ text \in texts[id]
OwnLater(id, text) == id \in DOMAIN texts' /\ text \in texts'[id]

TextOf(id) == memories[id].text
ByOf(id) == memories[id].supersededBy

Keep(ids) == \A id \in ids : TextOf(id)' = TextOf(id) /\ ByOf(id)' = ByOf(id)

RowAdded(id) ==
  /\ id = nextId /\ id \notin DOMAIN memories
  /\ DOMAIN memories' = DOMAIN memories \cup {id} /\ Keep(DOMAIN memories)
  /\ TextOf(id)' \in Texts /\ ByOf(id)' = NoId
  /\ fts' = Put(fts, id, TextOf(id)') /\ OwnLater(id, TextOf(id)')
  /\ nextId' = nextId + 1 /\ embeddings' = embeddings

RowEdited(id) ==
  /\ id \in DOMAIN memories
  /\ DOMAIN memories' = DOMAIN memories /\ Keep(DOMAIN memories \ {id})
  /\ TextOf(id)' \in Texts /\ ByOf(id)' = ByOf(id)
  /\ fts' = Put(fts, id, TextOf(id)') /\ OwnLater(id, TextOf(id)')
  /\ UNCHANGED <<nextId, embeddings>>

RowSuperseded(id) ==
  /\ id \in DOMAIN memories
  /\ DOMAIN memories' = DOMAIN memories /\ Keep(DOMAIN memories \ {id})
  /\ TextOf(id)' = TextOf(id) /\ ByOf(id)' \in DOMAIN memories \ {id}
  /\ UNCHANGED <<fts, nextId, embeddings>>

RowsDeleted(gone) ==
  /\ DOMAIN memories' = DOMAIN memories \ gone /\ Keep(DOMAIN memories \ gone)
  /\ \A id \in DOMAIN memories \ gone : ByOf(id) \notin gone
  /\ fts' = Without(fts, gone) /\ embeddings' = Without(embeddings, gone)
  /\ UNCHANGED nextId

RowsKept ==
  /\ DOMAIN memories' = DOMAIN memories /\ Keep(DOMAIN memories)
  /\ UNCHANGED <<fts, nextId>>
  /\ DOMAIN embeddings' \subseteq DOMAIN embeddings \cup DOMAIN memories

RowStep ==
  \/ RowsKept
  \/ \E id \in Ids : RowAdded(id) \/ RowEdited(id) \/ RowSuperseded(id)
  \/ \E gone \in SUBSET Ids : RowsDeleted(gone)

\* DeleteMemories checks references one id after the other, and a row of the
\* first id may refer to the second: in the end no row that stays does.
LEMMA DeletesRows ==
  ASSUME TypeInv, NEW id1 \in Ids, NEW id2 \in Ids, DeleteMemories(id1, id2)
  PROVE  RowsDeleted({id1, id2})
<1>1. /\ ~Referenced(memories, id1)
      /\ ~Referenced(Without(memories, {id1}), id2)
      /\ memories' = Without(Without(memories, {id1}), {id2})
      /\ fts' = Without(Without(fts, {id1}), {id2})
      /\ embeddings' = Without(Without(embeddings, {id1}), {id2})
      /\ UNCHANGED nextId
  BY DeleteEffect
<1>2. /\ memories' = Without(memories, {id1, id2})
      /\ fts' = Without(fts, {id1, id2})
      /\ embeddings' = Without(embeddings, {id1, id2})
  BY <1>1 DEF Without
<1>3. \A id \in DOMAIN memories \ {id1, id2} : ByOf(id) \notin {id1, id2}
  BY <1>1 DEF Referenced, Without, ByOf
<1>. QED  BY <1>1, <1>2, <1>3 DEF RowsDeleted, Keep, TextOf, ByOf, Without

\* A decay pass deletes in id order; that no row is referenced when its turn
\* comes leaves no reference to a deleted row in the end.
LEMMA DecayDeletesRows ==
  ASSUME TypeInv, NEW d \in Decayers, DecayWrite(d)
  PROVE  \E gone \in SUBSET Ids : RowsDeleted(gone)
<1>. DEFINE plan == decay[d].plan
            gone == Doomed(plan)
<1>1. /\ Deletable(gone)
      /\ memories' = [id \in DOMAIN memories \ gone |->
           IF id \in DOMAIN plan
             THEN [memories[id] EXCEPT !.importance = plan[id].importance]
             ELSE memories[id]]
      /\ fts' = Without(fts, gone) /\ embeddings' = Without(embeddings, gone)
      /\ UNCHANGED nextId
  BY DEF DecayWrite
<1>2. gone \in SUBSET Ids
  BY DEF Doomed, TypeInv, TablesType, IsTable
<1>. HIDE DEF gone, plan
<1>3. \A id \in DOMAIN memories :
        /\ memories[id] \in Rows
        /\ [memories[id] EXCEPT !.importance = plan[id].importance].text = TextOf(id)
        /\ [memories[id] EXCEPT !.importance = plan[id].importance].supersededBy
             = ByOf(id)
  BY DEF TypeInv, TablesType, IsTable, Rows, TextOf, ByOf
<1>4. Keep(DOMAIN memories \ gone)
  BY <1>1, <1>3 DEF Keep, TextOf, ByOf
<1>5. \A id \in DOMAIN memories \ gone : ByOf(id) \notin gone
  BY <1>1 DEF Deletable, ByOf
<1>. QED  BY <1>1, <1>2, <1>4, <1>5 DEF RowsDeleted

\* Every step does to the rows one of the things that RowStep lists.
LEMMA StepIsRowStep == TypeInv /\ [Next]_vars => RowStep
<1>. SUFFICES ASSUME TypeInv, [Next]_vars PROVE RowStep
  OBVIOUS
<1>1. ASSUME NEW w \in Workers, NEW text \in Texts, NEW procedural \in BOOLEAN,
             NEW importance \in Levels, AddMemory(w, text, procedural, importance)
      PROVE  \E id \in Ids : RowAdded(id)
  <2>1. PICK id \in Ids : id = nextId /\ id \notin DOMAIN memories
    BY <1>1, Numbers DEF AddMemory, TypeInv, TablesType, Ids
  <2>2. /\ DOMAIN memories' = DOMAIN memories \cup {id} /\ Keep(DOMAIN memories)
        /\ TextOf(id)' = text /\ ByOf(id)' = NoId
    BY <1>1, <2>1 DEF AddMemory, NewId, Put, Keep, TextOf, ByOf
  <2>3. OwnLater(id, TextOf(id)')
    BY <1>1, <2>1, <2>2 DEF AddMemory, NewId, Put, OwnLater
  <2>. QED  BY <1>1, <2>1, <2>2, <2>3 DEF RowAdded, AddMemory, NewId, Index
<1>2. ASSUME NEW id \in Ids, NEW text \in Texts, NEW procedural \in BOOLEAN,
             NEW importance \in Levels,
             UpdateMemory(id, text, procedural, importance)
      PROVE  RowEdited(id)
  <2>1. memories[id] \in Rows /\ id \in DOMAIN memories
    BY <1>2 DEF UpdateMemory, TypeInv, TablesType, IsTable
  <2>2. /\ DOMAIN memories' = DOMAIN memories /\ Keep(DOMAIN memories \ {id})
        /\ TextOf(id)' = text /\ ByOf(id)' = ByOf(id)
    BY <1>2, <2>1 DEF UpdateMemory, Put, Keep, TextOf, ByOf, Rows
  <2>3. OwnLater(id, TextOf(id)')
    BY <1>2, <2>1, <2>2 DEF UpdateMemory, Put, OwnLater, TypeInv, TablesType
  <2>. QED  BY <1>2, <2>1, <2>2, <2>3 DEF RowEdited, UpdateMemory, Index
<1>3. ASSUME NEW old \in Ids, NEW new \in Ids, SupersedeMemory(old, new)
      PROVE  RowSuperseded(old)
  <2>1. memories[old] \in Rows /\ old \in DOMAIN memories
    BY <1>3 DEF SupersedeMemory, TypeInv, TablesType, IsTable
  <2>2. /\ DOMAIN memories' = DOMAIN memories /\ Keep(DOMAIN memories \ {old})
        /\ TextOf(old)' = TextOf(old) /\ ByOf(old)' = new
    BY <1>3, <2>1 DEF SupersedeMemory, Put, Keep, TextOf, ByOf, Rows
  <2>. QED  BY <1>3, <2>1, <2>2 DEF RowSuperseded, SupersedeMemory
<1>4. ASSUME NEW ids, TouchMemories(ids) PROVE RowsKept
  <2>1. \A id \in DOMAIN memories : memories[id] \in Rows
    BY DEF TypeInv, TablesType, IsTable
  <2>2. DOMAIN memories' = DOMAIN memories /\ Keep(DOMAIN memories)
    BY <1>4, <2>1 DEF TouchMemories, Keep, TextOf, ByOf, Rows
  <2>. QED  BY <1>4, <2>2 DEF RowsKept, TouchMemories
<1>5. ASSUME NEW w \in Workers, SaveMemoryEmbedding(w) PROVE RowsKept
  BY <1>5 DEF SaveMemoryEmbedding, RowsKept, Keep, TextOf, ByOf, Put
<1>6. ASSUME NEW w \in Workers, Rebuild(w) PROVE RowsKept
  BY <1>6 DEF Rebuild, RowsKept, Keep, TextOf, ByOf
<1>7. ASSUME UNCHANGED tables PROVE RowsKept
  BY <1>7 DEF tables, RowsKept, Keep, TextOf, ByOf
<1>8. ASSUME NEW w \in Workers,
             StartEmbedMissing(w) \/ ReadMissing(w) \/ StopEmbedding(w)
      PROVE  RowsKept
  BY <1>7, <1>8 DEF StartEmbedMissing, ReadMissing, StopEmbedding
<1>9. ASSUME NEW d \in Decayers,
             DecayStart(d) \/ DecayRead(d) \/ DecayRollback(d) \/ DecayFail(d)
      PROVE  RowsKept
  BY <1>7, <1>9 DEF DecayStart, DecayRead, DecayRollback, DecayFail
<1>10. CASE Tick \/ UNCHANGED vars
  BY <1>7, <1>10 DEF Tick, vars, RowStep
<1>11. ASSUME NEW id1 \in Ids, NEW id2 \in Ids, DeleteMemories(id1, id2)
       PROVE  \E gone \in SUBSET Ids : RowsDeleted(gone)
  BY <1>11, DeletesRows
<1>. QED  BY TiersAssumption, <1>1, <1>2, <1>3, <1>4, <1>5, <1>6, <1>8, <1>9,
             <1>10, <1>11, DecayDeletesRows DEF Next, RowStep

\* Whoever writes a memory writes its indexed text in the same transaction.
THEOREM FtsMatchesHolds == Spec => []FtsMatches
<1>1. Init => FtsMatches
  BY DEF Init, FtsMatches
<1>2. FtsMatches /\ RowStep => FtsMatches'
  <2>. SUFFICES ASSUME FtsMatches, RowStep PROVE FtsMatches'
    OBVIOUS
  <2>1. ASSUME NEW id \in Ids, RowAdded(id) PROVE FtsMatches'
    BY <2>1 DEF RowAdded, FtsMatches, Keep, TextOf, Put
  <2>2. CASE RowsKept
    BY <2>2 DEF RowsKept, FtsMatches, Keep, TextOf
  <2>3. ASSUME NEW id \in Ids, RowEdited(id) PROVE FtsMatches'
    BY <2>3 DEF RowEdited, FtsMatches, Keep, TextOf, Put
  <2>4. ASSUME NEW id \in Ids, RowSuperseded(id) PROVE FtsMatches'
    BY <2>4 DEF RowSuperseded, FtsMatches, Keep, TextOf
  <2>5. ASSUME NEW gone, RowsDeleted(gone) PROVE FtsMatches'
    BY <2>5 DEF RowsDeleted, FtsMatches, Keep, TextOf, Without
  <2>. QED  BY <2>1, <2>2, <2>3, <2>4, <2>5 DEF RowStep
<1>. QED  BY <1>1, <1>2, StepIsRowStep, TypeInvHolds, PTL DEF Spec

\* Neither a deletion nor a decay pass nor a vector that comes late leaves a
\* reference to a memory that is not there.
THEOREM ReferencesHoldHolds == Spec => []ReferencesHold
<1>1. Init => ReferencesHold
  BY DEF Init, ReferencesHold
<1>2. ReferencesHold /\ RowStep => ReferencesHold'
  <2>. SUFFICES ASSUME ReferencesHold, RowStep PROVE ReferencesHold'
    OBVIOUS
  <2>1. ASSUME NEW id \in Ids, RowAdded(id) PROVE ReferencesHold'
    BY <2>1 DEF RowAdded, ReferencesHold, Keep, ByOf
  <2>2. CASE RowsKept
    BY <2>2 DEF RowsKept, ReferencesHold, Keep, ByOf
  <2>3. ASSUME NEW id \in Ids, RowEdited(id) PROVE ReferencesHold'
    BY <2>3 DEF RowEdited, ReferencesHold, Keep, ByOf
  <2>4. ASSUME NEW id \in Ids, RowSuperseded(id) PROVE ReferencesHold'
    BY <2>4 DEF RowSuperseded, ReferencesHold, Keep, ByOf
  <2>5. ASSUME NEW gone, RowsDeleted(gone) PROVE ReferencesHold'
    BY <2>5 DEF RowsDeleted, ReferencesHold, Keep, ByOf, Without
  <2>. QED  BY <2>1, <2>2, <2>3, <2>4, <2>5 DEF RowStep
<1>. QED  BY <1>1, <1>2, StepIsRowStep, TypeInvHolds, PTL DEF Spec
------------------------------------------------------------------------------
\* The vectors that are stored, those that workers are about to compute, and the
\* texts they will be computed from, all belong to their memory.
OwnRows == \A id \in DOMAIN memories : OwnText(id, memories[id].text)
OwnVectors == \A id \in DOMAIN embeddings : OwnText(id, embeddings[id])
OwnJobs == \A w \in Workers : \A k \in DOMAIN worker[w].queue :
             OwnText(worker[w].queue[k].id, worker[w].queue[k].text)

OwnInv == OwnRows /\ OwnVectors /\ OwnJobs

\* A memory only gains texts, and a new one takes an id that had none.
LEMMA TextsGrow ==
  ASSUME TypeInv, [Next]_vars
  PROVE  \A id, text : OwnText(id, text) => OwnLater(id, text)
<1>1. CASE UNCHANGED texts
  BY <1>1 DEF OwnText, OwnLater
<1>2. ASSUME NEW w \in Workers, NEW text \in Texts, NEW procedural, NEW importance,
             AddMemory(w, text, procedural, importance)
      PROVE  \A id, t : OwnText(id, t) => OwnLater(id, t)
  <2>1. nextId \notin DOMAIN texts
    BY DEF TypeInv, TablesType
  <2>2. texts' = Put(texts, nextId, {text})
    BY <1>2 DEF AddMemory, NewId
  <2>. QED  BY <2>1, <2>2 DEF Put, OwnText, OwnLater
<1>3. ASSUME NEW id \in Ids, NEW text \in Texts, NEW procedural, NEW importance,
             UpdateMemory(id, text, procedural, importance)
      PROVE  \A i, t : OwnText(i, t) => OwnLater(i, t)
  BY <1>3 DEF UpdateMemory, Put, OwnText, OwnLater
<1>4. ASSUME NEW id1, NEW id2, SupersedeMemory(id1, id2) \/ DeleteMemories(id1, id2)
      PROVE  UNCHANGED texts
  BY <1>4 DEF SupersedeMemory, DeleteMemories
<1>5. ASSUME NEW ids, TouchMemories(ids) PROVE UNCHANGED texts
  BY <1>5 DEF TouchMemories
<1>6. ASSUME NEW w, \/ StartEmbedMissing(w) \/ Rebuild(w) \/ ReadMissing(w)
                    \/ SaveMemoryEmbedding(w) \/ StopEmbedding(w)
      PROVE  UNCHANGED texts
  BY <1>6 DEF StartEmbedMissing, Rebuild, ReadMissing, SaveMemoryEmbedding,
              StopEmbedding, tables
<1>7. ASSUME NEW d, \/ DecayStart(d) \/ DecayRead(d) \/ DecayWrite(d)
                    \/ DecayRollback(d) \/ DecayFail(d)
      PROVE  UNCHANGED texts
  BY <1>7 DEF DecayStart, DecayRead, DecayWrite, DecayRollback, DecayFail, tables
<1>8. CASE Tick \/ UNCHANGED vars
  BY <1>1, <1>8 DEF Tick, vars, tables
<1>. QED  BY <1>1, <1>2, <1>3, <1>4, <1>5, <1>6, <1>7, <1>8 DEF Next

\* What a worker still has to do belongs to its memories: a list is read from
\* the rows, and shrinks.
LEMMA JobsStayOwn ==
  ASSUME TypeInv, OwnInv, [Next]_vars
  PROVE  OwnJobs'
<1>1. \A id, text : OwnText(id, text) => OwnLater(id, text)
  BY TextsGrow
<1>2. CASE UNCHANGED worker
  BY <1>1, <1>2 DEF OwnInv, OwnJobs, OwnText, OwnLater
<1>3. ASSUME NEW w \in Workers, NEW job, worker' = [worker EXCEPT ![w] = job],
             \A k \in DOMAIN job.queue :
               OwnLater(job.queue[k].id, job.queue[k].text)
      PROVE  OwnJobs'
  <2>1. \A v \in Workers : worker'[v] = IF v = w THEN job ELSE worker[v]
    BY <1>3 DEF TypeInv, WorkerType
  <2>. QED  BY <1>1, <1>3, <2>1 DEF OwnInv, OwnJobs, OwnText, OwnLater
<1>4. ASSUME NEW w \in Workers, worker' = [worker EXCEPT ![w] = IdleWorker]
      PROVE  OwnJobs'
  <2>1. DOMAIN IdleWorker.queue = {}
    BY DEF IdleWorker
  <2>. QED  BY <1>3, <1>4, <2>1
<1>5. ASSUME NEW w \in Workers, NEW text \in Texts, NEW procedural, NEW importance,
             AddMemory(w, text, procedural, importance)
      PROVE  OwnJobs'
  <2>. DEFINE job == [pc |-> "embed", queue |-> <<[id |-> nextId, text |-> text]>>,
                      cleared |-> {}, left |-> {}]
  <2>1. texts' = Put(texts, nextId, {text})
    BY <1>5 DEF AddMemory, NewId
  <2>2. \A k \in DOMAIN job.queue : OwnLater(job.queue[k].id, job.queue[k].text)
    BY <2>1 DEF OwnLater, Put
  <2>3. UNCHANGED worker \/ worker' = [worker EXCEPT ![w] = job]
    BY <1>5 DEF AddMemory, NewId
  <2>. HIDE DEF job
  <2>. QED  BY <1>2, <1>3, <2>2, <2>3
<1>6. ASSUME NEW w \in Workers, ReadMissing(w) PROVE OwnJobs'
  <2>1. PICK job \in Queues :
          /\ worker' = [worker EXCEPT ![w] = job]
          /\ \A k \in DOMAIN job.queue :
               /\ job.queue[k].id \in DOMAIN memories
               /\ job.queue[k].text = memories[job.queue[k].id].text
    BY <1>6, MissingList
  <2>2. \A k \in DOMAIN job.queue : OwnLater(job.queue[k].id, job.queue[k].text)
    BY <1>1, <2>1 DEF OwnInv, OwnRows, OwnText, OwnLater
  <2>. QED  BY <1>3, <2>1, <2>2
<1>7. ASSUME NEW w \in Workers, SaveMemoryEmbedding(w) PROVE OwnJobs'
  <2>. DEFINE queue == worker[w].queue
              rest == [worker[w] EXCEPT !.queue = Tail(queue)]
  <2>1. worker' = [worker EXCEPT ![w] = IF Len(queue) = 1 THEN IdleWorker ELSE rest]
    BY <1>7 DEF SaveMemoryEmbedding, TypeInv, WorkerType
  <2>2. worker[w] \in Queues /\ queue \in Seq(Job) /\ queue # <<>>
    BY <1>7 DEF SaveMemoryEmbedding, TypeInv, WorkerType, Queues
  <2>3. \A k \in DOMAIN Tail(queue) : k + 1 \in DOMAIN queue
                                       /\ Tail(queue)[k] = queue[k + 1]
    BY <2>2
  <2>4. rest.queue = Tail(queue)
    BY <2>2 DEF Queues
  <2>5. \A k \in DOMAIN rest.queue : OwnLater(rest.queue[k].id, rest.queue[k].text)
    BY <1>1, <2>3, <2>4 DEF OwnInv, OwnJobs, OwnText, OwnLater
  <2>. HIDE DEF rest
  <2>. QED  BY <1>3, <1>4, <2>1, <2>5
<1>8. ASSUME NEW w \in Workers, StartEmbedMissing(w) PROVE OwnJobs'
  <2>. DEFINE job == [worker[w] EXCEPT !.pc = "missing"]
  <2>1. worker' = [worker EXCEPT ![w] = job]
    BY <1>8 DEF StartEmbedMissing, TypeInv, WorkerType
  <2>2. job.queue = worker[w].queue
    BY DEF TypeInv, WorkerType, Queues
  <2>3. \A k \in DOMAIN job.queue : OwnLater(job.queue[k].id, job.queue[k].text)
    BY <1>1, <2>2 DEF OwnInv, OwnJobs, OwnText, OwnLater
  <2>. HIDE DEF job
  <2>. QED  BY <1>3, <2>1, <2>3
<1>9. ASSUME NEW w \in Workers, Rebuild(w) PROVE OwnJobs'
  <2>1. \A v \in Workers : worker'[v].queue = <<>> \/ worker'[v].queue = worker[v].queue
    BY <1>9 DEF Rebuild, TypeInv, WorkerType, Queues
  <2>. QED  BY <1>1, <2>1 DEF OwnInv, OwnJobs, OwnText, OwnLater
<1>10. ASSUME NEW w \in Workers, StopEmbedding(w) PROVE OwnJobs'
  BY <1>4, <1>10 DEF StopEmbedding
<1>11. ASSUME NEW id, NEW text, NEW procedural, NEW importance,
              UpdateMemory(id, text, procedural, importance)
       PROVE  UNCHANGED worker
  BY <1>11 DEF UpdateMemory
<1>12. ASSUME NEW id1, NEW id2, SupersedeMemory(id1, id2) \/ DeleteMemories(id1, id2)
       PROVE  UNCHANGED worker
  BY <1>12 DEF SupersedeMemory, DeleteMemories
<1>13. ASSUME NEW ids, TouchMemories(ids) PROVE UNCHANGED worker
  BY <1>13 DEF TouchMemories
<1>14. ASSUME NEW d, \/ DecayStart(d) \/ DecayRead(d) \/ DecayWrite(d)
                     \/ DecayRollback(d) \/ DecayFail(d)
       PROVE  UNCHANGED worker
  BY <1>14 DEF DecayStart, DecayRead, DecayWrite, DecayRollback, DecayFail
<1>15. CASE Tick \/ UNCHANGED vars
  BY <1>2, <1>15 DEF Tick, vars
<1>. QED  BY <1>2, <1>5, <1>6, <1>7, <1>8, <1>9, <1>10, <1>11, <1>12, <1>13,
             <1>14, <1>15 DEF Next

\* So do the vectors: one is stored for the first job of a worker, or goes.
LEMMA VectorsStayOwn ==
  ASSUME TypeInv, OwnInv, [Next]_vars
  PROVE  OwnVectors'
<1>1. \A id, text : OwnText(id, text) => OwnLater(id, text)
  BY TextsGrow
<1>2. ASSUME \A id \in DOMAIN embeddings' :
               id \in DOMAIN embeddings /\ embeddings'[id] = embeddings[id]
      PROVE  OwnVectors'
  BY <1>1, <1>2 DEF OwnInv, OwnVectors, OwnText, OwnLater
<1>3. ASSUME NEW w \in Workers, SaveMemoryEmbedding(w) PROVE OwnVectors'
  <2>. DEFINE queue == worker[w].queue
              job == Head(queue)
  <2>1. queue \in Seq(Job) /\ queue # <<>>
    BY <1>3 DEF SaveMemoryEmbedding, TypeInv, WorkerType, Queues
  <2>2. 1 \in DOMAIN queue /\ job = queue[1]
    BY <2>1
  <2>3. OwnText(job.id, job.text)
    BY <2>2 DEF OwnInv, OwnJobs, OwnText, OwnLater
  <2>4. embeddings' = Put(embeddings, job.id, job.text)
    BY <1>3 DEF SaveMemoryEmbedding
  <2>. HIDE DEF job
  <2>. QED  BY <1>1, <2>3, <2>4 DEF OwnInv, OwnVectors, Put, OwnText, OwnLater
<1>4. ASSUME NEW w \in Workers, Rebuild(w) PROVE OwnVectors'
  BY <1>2, <1>4 DEF Rebuild
<1>5. ASSUME NEW id1, NEW id2, DeleteMemories(id1, id2) PROVE OwnVectors'
  <2>1. embeddings' = Without(Without(embeddings, {id1}), {id2})
    BY <1>5, DeleteEffect
  <2>. QED  BY <1>2, <2>1 DEF Without
<1>6. ASSUME NEW d, DecayWrite(d) PROVE OwnVectors'
  BY <1>2, <1>6 DEF DecayWrite, Without
<1>7. ASSUME UNCHANGED embeddings PROVE OwnVectors'
  BY <1>2, <1>7
<1>8. ASSUME NEW w, NEW text, NEW procedural, NEW importance,
             \/ AddMemory(w, text, procedural, importance)
             \/ UpdateMemory(w, text, procedural, importance)
      PROVE  UNCHANGED embeddings
  BY <1>8 DEF AddMemory, UpdateMemory
<1>9. ASSUME NEW id1, NEW id2, SupersedeMemory(id1, id2) PROVE UNCHANGED embeddings
  BY <1>9 DEF SupersedeMemory
<1>10. ASSUME NEW ids, TouchMemories(ids) PROVE UNCHANGED embeddings
  BY <1>10 DEF TouchMemories
<1>11. ASSUME NEW w, StartEmbedMissing(w) \/ ReadMissing(w) \/ StopEmbedding(w)
       PROVE  UNCHANGED embeddings
  BY <1>11 DEF StartEmbedMissing, ReadMissing, StopEmbedding, tables
<1>12. ASSUME NEW d, DecayStart(d) \/ DecayRead(d) \/ DecayRollback(d) \/ DecayFail(d)
       PROVE  UNCHANGED embeddings
  BY <1>12 DEF DecayStart, DecayRead, DecayRollback, DecayFail, tables
<1>13. CASE Tick \/ UNCHANGED vars
  BY <1>7, <1>13 DEF Tick, vars, tables
<1>. QED  BY <1>3, <1>4, <1>5, <1>6, <1>7, <1>8, <1>9, <1>10, <1>11, <1>12, <1>13
          DEF Next

\* A vector that arrives late, after updates, deletions and rebuilds, is stored
\* under the memory whose text it was computed from, or not at all.
THEOREM EmbeddingIsOwnHolds == Spec => []EmbeddingIsOwn
<1>1. Init => OwnInv
  BY DEF Init, OwnInv, OwnRows, OwnVectors, OwnJobs, IdleWorker
<1>2. TypeInv /\ OwnInv /\ [Next]_vars => OwnRows'
  <2>. SUFFICES ASSUME TypeInv, OwnInv, [Next]_vars PROVE OwnRows'
    OBVIOUS
  <2>1. \A id, text : OwnText(id, text) => OwnLater(id, text)
    BY TextsGrow
  <2>2. RowStep
    BY StepIsRowStep
  <2>3. \A id \in DOMAIN memories' :
          \/ OwnLater(id, TextOf(id)')
          \/ id \in DOMAIN memories /\ TextOf(id)' = memories[id].text
    BY <2>2 DEF RowStep, RowAdded, RowEdited, RowSuperseded, RowsDeleted, RowsKept,
                Keep, TextOf
  <2>. QED  BY <2>1, <2>3 DEF OwnInv, OwnRows, OwnText, OwnLater, TextOf
<1>3. OwnInv => EmbeddingIsOwn
  BY DEF OwnInv, OwnVectors, OwnText, EmbeddingIsOwn
<1>4. TypeInv /\ OwnInv /\ [Next]_vars => OwnInv'
  BY <1>2, JobsStayOwn, VectorsStayOwn DEF OwnInv
<1>. QED  BY <1>1, <1>3, <1>4, TypeInvHolds, PTL DEF Spec
------------------------------------------------------------------------------
\* The audit log as it bears on which memories there are (rows) and which ids
\* were ever given out: it speaks of these only, and of each row at least once.
Earlier(log, i) == \E j \in 1..(i - 1) : log[j].memory = log[i].memory
Later(log, i) == \E j \in (i + 1)..Len(log) : log[j].memory = log[i].memory

LogInv(log, rows, given) ==
  /\ log \in Seq(Events)
  /\ \A i \in DOMAIN log :
       /\ log[i].memory \in given
       /\ log[i].action = "create" <=> ~Earlier(log, i)
       /\ log[i].action = "delete" => log[i].memory \notin rows /\ ~Later(log, i)
  /\ \A id \in rows : \E i \in DOMAIN log : log[i].memory = id

\* A row that goes without an event - one that has decayed - leaves a history.
LEMMA RowsGo ==
  ASSUME NEW log, NEW rows, NEW given, LogInv(log, rows, given),
         NEW rest \in SUBSET rows
  PROVE  LogInv(log, rest, given)
BY DEF LogInv

\* So does an event of a new row, an event of a row, and the deletion of a row.
LEMMA EventAppended ==
  ASSUME NEW log, NEW rows, NEW given, LogInv(log, rows, given),
         NEW e \in Events, NEW rows2, NEW given2,
         \/ /\ e.action = "create" /\ e.memory \notin given
            /\ rows2 = rows \cup {e.memory} /\ given2 = given \cup {e.memory}
         \/ /\ e.action \in {"update", "supersede"} /\ e.memory \in rows
            /\ rows2 = rows /\ given2 = given
         \/ /\ e.action = "delete" /\ e.memory \in rows
            /\ rows2 = rows \ {e.memory} /\ given2 = given
  PROVE  LogInv(Append(log, e), rows2, given2)
<1>. DEFINE n == Len(log)
            new == Append(log, e)
<1>1. /\ log \in Seq(Events) /\ n \in Nat /\ DOMAIN log = 1..n
      /\ new \in Seq(Events) /\ Len(new) = n + 1 /\ DOMAIN new = 1..(n + 1)
      /\ new[n + 1] = e /\ \A i \in 1..n : new[i] = log[i]
  BY DEF LogInv
<1>. HIDE DEF new, n
<1>2. \A i \in 1..n : /\ Earlier(new, i) <=> Earlier(log, i)
                      /\ Later(new, i) <=> Later(log, i) \/ e.memory = log[i].memory
  <2>. SUFFICES ASSUME NEW i \in 1..n
                PROVE  /\ Earlier(new, i) <=> Earlier(log, i)
                       /\ Later(new, i) <=> Later(log, i) \/ e.memory = log[i].memory
    OBVIOUS
  <2>1. \A j \in 1..(i - 1) : new[j] = log[j]
    BY <1>1
  <2>2. (i + 1)..(n + 1) = ((i + 1)..n) \cup {n + 1}
    BY <1>1
  <2>3. \A j \in (i + 1)..n : new[j] = log[j]
    BY <1>1
  <2>4. new[i] = log[i] /\ Len(log) = n
    BY <1>1 DEF n
  <2>5. Earlier(new, i) <=> Earlier(log, i)
    BY <2>1, <2>4 DEF Earlier
  <2>6. Later(new, i) <=> Later(log, i) \/ e.memory = log[i].memory
    BY <1>1, <2>2, <2>3, <2>4 DEF Later
  <2>. QED  BY <2>5, <2>6
<1>3. /\ Earlier(new, n + 1) <=> \E i \in 1..n : log[i].memory = e.memory
      /\ ~Later(new, n + 1)
  BY <1>1 DEF Earlier, Later
<1>4. (\E i \in 1..n : log[i].memory = e.memory) => e.memory \in given
  BY <1>1 DEF LogInv
<1>5. e.memory \in rows => \E i \in 1..n : log[i].memory = e.memory
  BY <1>1 DEF LogInv
<1>6. \A i \in 1..n :
        /\ new[i].memory \in given2
        /\ new[i].action = "create" <=> ~Earlier(new, i)
        /\ new[i].action = "delete" => new[i].memory \notin rows2 /\ ~Later(new, i)
  BY <1>1, <1>2 DEF LogInv
<1>7. /\ new[n + 1].memory \in given2
      /\ new[n + 1].action = "create" <=> ~Earlier(new, n + 1)
      /\ new[n + 1].action = "delete" =>
           new[n + 1].memory \notin rows2 /\ ~Later(new, n + 1)
  <2>1. e.memory \in rows => e.memory \in given
    BY <1>4, <1>5
  <2>. QED  BY <1>1, <1>3, <1>4, <1>5, <2>1
<1>8. \A id \in rows2 : \E i \in DOMAIN new : new[i].memory = id
  BY <1>1 DEF LogInv
<1>9. \A i \in DOMAIN new : i \in 1..n \/ i = n + 1
  BY <1>1
<1>. QED  BY <1>1, <1>6, <1>7, <1>8, <1>9 DEF LogInv, new

AuditInv == LogInv(audit, DOMAIN memories, DOMAIN texts)

\* What a deletion leaves behind agrees with the log.
LEMMA DeletesKeepHistory ==
  ASSUME TypeInv, AuditInv, NEW id1 \in Ids, NEW id2 \in Ids,
         DeleteMemories(id1, id2)
  PROVE  AuditInv'
<1>. DEFINE rows0 == DOMAIN memories
            log1 == LoggedDelete(audit, memories, id1)
            memories1 == Without(memories, {id1})
            log2 == LoggedDelete(log1, memories1, id2)
<1>1. /\ memories' = Without(memories1, {id2}) /\ audit' = log2 /\ texts' = texts
  BY DeleteEffect
<1>2. DOMAIN memories1 = rows0 \ {id1} /\ DOMAIN memories' = DOMAIN memories1 \ {id2}
  BY <1>1 DEF Without
<1>3. \A id \in Ids : /\ Event("delete", id, 0) \in Events
                      /\ Event("delete", id, 0).action = "delete"
                      /\ Event("delete", id, 0).memory = id
  BY DEF Event, Events, Actions
<1>4. LogInv(log1, rows0 \ {id1}, DOMAIN texts)
  <2>1. CASE id1 \in rows0
    <3>1. log1 = Append(audit, Event("delete", id1, 0))
      BY <2>1 DEF LoggedDelete
    <3>. HIDE DEF log1, rows0
    <3>2. LogInv(audit, rows0, DOMAIN texts)
      BY DEF AuditInv, rows0
    <3>. QED  BY <1>3, <2>1, <3>1, <3>2, EventAppended
  <2>2. CASE id1 \notin rows0
    BY <2>2 DEF LoggedDelete, AuditInv
  <2>. QED  BY <2>1, <2>2
<1>. HIDE DEF log1, rows0, memories1
<1>5. LogInv(log2, DOMAIN memories1 \ {id2}, DOMAIN texts)
  <2>. DEFINE rows1 == DOMAIN memories1
  <2>1. LogInv(log1, rows1, DOMAIN texts)
    BY <1>2, <1>4
  <2>2. CASE id2 \in rows1
    <3>1. log2 = Append(log1, Event("delete", id2, 0))
      BY <2>2 DEF LoggedDelete
    <3>. HIDE DEF log2, rows1
    <3>2. LogInv(log2, rows1 \ {id2}, DOMAIN texts)
      BY <1>3, <2>1, <2>2, <3>1, EventAppended
    <3>. QED  BY <3>2 DEF rows1
  <2>3. CASE id2 \notin rows1
    <3>1. log2 = log1 /\ rows1 \ {id2} = rows1
      BY <2>3 DEF LoggedDelete
    <3>. QED  BY <2>1, <3>1
  <2>. QED  BY <2>2, <2>3
<1>. QED  BY <1>1, <1>2, <1>5 DEF AuditInv

\* The log and the rows are kept in step.
LEMMA AuditInductive == TypeInv /\ AuditInv /\ [Next]_vars => AuditInv'
<1>. SUFFICES ASSUME TypeInv, AuditInv, [Next]_vars PROVE AuditInv'
  OBVIOUS
<1>. DEFINE rows == DOMAIN memories
            given == DOMAIN texts
<1>0. \A action \in Actions, id \in Ids, ts \in Times \cup {0} :
        /\ Event(action, id, ts) \in Events
        /\ Event(action, id, ts).action = action
        /\ Event(action, id, ts).memory = id
  BY DEF Event, Events
<1>1. ASSUME NEW w, NEW text, NEW procedural, NEW importance,
             AddMemory(w, text, procedural, importance)
      PROVE  AuditInv'
  <2>. DEFINE e == Event("create", nextId, now)
  <2>1. nextId \in Ids /\ nextId \notin given /\ now \in Times
    BY <1>1 DEF AddMemory, TypeInv, TablesType, Ids
  <2>2. /\ audit' = Append(audit, e) /\ DOMAIN memories' = rows \cup {nextId}
        /\ DOMAIN texts' = given \cup {nextId}
    BY <1>1 DEF AddMemory, NewId, Log, Put
  <2>3. e \in Events /\ e.action = "create" /\ e.memory = nextId
    BY <1>0, <2>1 DEF Actions
  <2>. HIDE DEF e, rows, given
  <2>4. LogInv(audit, rows, given)
    BY DEF AuditInv, rows, given
  <2>5. LogInv(Append(audit, e), rows \cup {nextId}, given \cup {nextId})
    BY <2>1, <2>3, <2>4, EventAppended
  <2>. QED  BY <2>2, <2>5 DEF AuditInv
<1>2. ASSUME NEW id \in Ids, NEW action \in {"update", "supersede"},
             NEW ts \in Times \cup {0}, id \in rows,
             Log(action, id, ts), DOMAIN memories' = rows, DOMAIN texts' = given
      PROVE  AuditInv'
  <2>. DEFINE e == Event(action, id, ts)
  <2>1. e \in Events /\ e.action = action /\ e.memory = id
    BY <1>0, <1>2 DEF Actions
  <2>2. audit' = Append(audit, e)
    BY <1>2 DEF Log
  <2>. HIDE DEF e, rows, given
  <2>3. LogInv(audit, rows, given)
    BY DEF AuditInv, rows, given
  <2>4. LogInv(Append(audit, e), rows, given)
    BY <1>2, <2>1, <2>3, EventAppended
  <2>. QED  BY <1>2, <2>2, <2>4 DEF AuditInv
<1>3. ASSUME NEW id \in Ids, NEW text, NEW procedural, NEW importance,
             UpdateMemory(id, text, procedural, importance)
      PROVE  AuditInv'
  <2>1. id \in rows /\ id \in given /\ now \in Times
    BY <1>3 DEF UpdateMemory, TypeInv, TablesType
  <2>2. /\ Log("update", id, now) /\ DOMAIN memories' = rows
        /\ DOMAIN texts' = given
    BY <1>3, <2>1 DEF UpdateMemory, Put
  <2>. QED  BY <1>2, <2>1, <2>2
<1>4. ASSUME NEW id1 \in Ids, NEW id2 \in Ids, SupersedeMemory(id1, id2)
      PROVE  AuditInv'
  <2>1. /\ id1 \in rows /\ Log("supersede", id1, 0) /\ DOMAIN memories' = rows
        /\ DOMAIN texts' = given
    BY <1>4 DEF SupersedeMemory, Put
  <2>. QED  BY <1>2, <2>1
<1>5. ASSUME NEW id1 \in Ids, NEW id2 \in Ids, DeleteMemories(id1, id2)
      PROVE  AuditInv'
  BY <1>5, DeletesKeepHistory
<1>6. ASSUME UNCHANGED audit, UNCHANGED texts, DOMAIN memories' \subseteq rows
      PROVE  AuditInv'
  <2>1. LogInv(audit, DOMAIN memories', given)
    BY <1>6, RowsGo DEF AuditInv
  <2>. QED  BY <1>6, <2>1 DEF AuditInv
<1>7. ASSUME NEW ids, TouchMemories(ids) PROVE AuditInv'
  BY <1>6, <1>7 DEF TouchMemories
<1>8. ASSUME NEW w, \/ StartEmbedMissing(w) \/ Rebuild(w) \/ ReadMissing(w)
                    \/ SaveMemoryEmbedding(w) \/ StopEmbedding(w)
      PROVE  AuditInv'
  BY <1>6, <1>8 DEF StartEmbedMissing, Rebuild, ReadMissing, SaveMemoryEmbedding,
                    StopEmbedding, tables
<1>9. ASSUME NEW d, \/ DecayStart(d) \/ DecayRead(d) \/ DecayWrite(d)
                    \/ DecayRollback(d) \/ DecayFail(d)
      PROVE  AuditInv'
  BY <1>6, <1>9 DEF DecayStart, DecayRead, DecayWrite, DecayRollback, DecayFail, tables
<1>10. CASE Tick \/ UNCHANGED vars
  BY <1>6, <1>10 DEF Tick, vars, tables
<1>. QED  BY <1>1, <1>3, <1>4, <1>5, <1>7, <1>8, <1>9, <1>10 DEF Next

\* However memories are added, changed, deleted and decay: what the log says of a
\* memory starts with its creation, and after its deletion there is neither more
\* to say nor a memory.
THEOREM AuditIsHistoryHolds == Spec => []AuditIsHistory
<1>1. Init => AuditInv
  BY DEF Init, AuditInv, LogInv
<1>2. AuditInv => AuditIsHistory
  BY DEF AuditInv, LogInv, Earlier, Later, AuditIsHistory
<1>. QED  BY <1>1, <1>2, AuditInductive, TypeInvHolds, PTL DEF Spec
------------------------------------------------------------------------------
\* What the log says of an id beyond its first events.
UpdatedIn(log, seen, id) ==
  \E i \in (seen + 1)..Len(log) : log[i].action = "update" /\ log[i].memory = id

\* The rows a pass knows were given an id before it read.  As long as no other
\* pass has written, each has at least the importance planned for it, or has
\* been updated.
PlanLowers(pass) ==
  \A id \in DOMAIN pass.plan \cap DOMAIN memories :
    \/ pass.plan[id].importance <= memories[id].importance
    \/ UpdatedIn(audit, pass.seen, id)

PassHas(pass) ==
  pass.pc = "write" => /\ DOMAIN pass.plan \subseteq DOMAIN texts
                       /\ pass.seen <= Len(audit)
                       /\ pass.overtaken = FALSE => PlanLowers(pass)

PassInv == \A d \in Decayers : PassHas(decay[d])

\* The log grows at its end.
LogGrows ==
  /\ Len(audit) \in Nat /\ Len(audit') \in Nat /\ Len(audit) <= Len(audit')
  /\ \A i \in 1..Len(audit) : audit'[i] = audit[i]

\* An event appended leaves the log before it as it was.
LEMMA AppendGrows ==
  ASSUME AuditType, NEW e, audit' = Append(audit, e), e \in Events
  PROVE  LogGrows /\ Len(audit') = Len(audit) + 1 /\ audit'[Len(audit) + 1] = e
BY DEF AuditType, LogGrows

\* Rows come with new ids, go, or keep their importance but for an update, which
\* is logged.
RowsMove ==
  /\ LogGrows /\ DOMAIN texts \subseteq DOMAIN texts'
  /\ \A id \in DOMAIN memories' \cap DOMAIN texts :
       /\ id \in DOMAIN memories
       /\ \/ memories'[id].importance = memories[id].importance
          \/ UpdatedIn(audit', Len(audit), id)

\* What a pass has read stays good while rows only move.
LEMMA PassKeeps ==
  ASSUME NEW d \in Decayers, PassType(decay[d]), PassHas(decay[d]), RowsMove,
         decay'[d] = decay[d]
  PROVE  PassHas(decay[d])'
<1>. DEFINE pass == decay[d]
<1>. SUFFICES ASSUME pass.pc = "write"
              PROVE  /\ DOMAIN pass.plan \subseteq DOMAIN texts'
                     /\ pass.seen <= Len(audit')
                     /\ pass.overtaken = FALSE =>
                          \A id \in DOMAIN pass.plan \cap DOMAIN memories' :
                            \/ pass.plan[id].importance <= memories'[id].importance
                            \/ UpdatedIn(audit', pass.seen, id)
  BY DEF PassHas, PlanLowers
<1>1. /\ DOMAIN pass.plan \subseteq DOMAIN texts /\ pass.seen <= Len(audit)
      /\ pass.overtaken = FALSE => PlanLowers(pass)
  BY DEF PassHas
<1>2. pass.seen \in Nat
  BY DEF PassType, IdlePass
<1>3. Len(audit) \in Nat /\ Len(audit') \in Nat /\ Len(audit) <= Len(audit')
  BY DEF RowsMove, LogGrows
<1>. HIDE DEF pass
<1>4. ASSUME pass.overtaken = FALSE, NEW id \in DOMAIN pass.plan \cap DOMAIN memories'
      PROVE  \/ pass.plan[id].importance <= memories'[id].importance
             \/ UpdatedIn(audit', pass.seen, id)
  <2>1. id \in DOMAIN memories
    BY <1>1, <1>4 DEF RowsMove
  <2>2. CASE UpdatedIn(audit', Len(audit), id)
    BY <1>1, <1>2, <1>3, <2>2 DEF UpdatedIn
  <2>3. CASE UpdatedIn(audit, pass.seen, id)
    BY <1>1, <1>2, <1>3, <2>3 DEF UpdatedIn, RowsMove, LogGrows
  <2>4. CASE /\ memories'[id].importance = memories[id].importance
             /\ pass.plan[id].importance <= memories[id].importance
    BY <2>4
  <2>. QED  BY <1>1, <1>4, <2>1, <2>2, <2>3, <2>4 DEF RowsMove, PlanLowers
<1>5. DOMAIN pass.plan \subseteq DOMAIN texts'
  BY <1>1 DEF RowsMove
<1>6. pass.seen <= Len(audit')
  <2>1. PICK m \in Nat, n \in Nat : m = Len(audit) /\ n = Len(audit')
    BY <1>3
  <2>2. m <= n /\ pass.seen <= m
    BY <1>1, <1>3, <2>1
  <2>3. pass.seen <= n
    BY <1>2, <2>2
  <2>. QED  BY <2>1, <2>3
<1>. QED  BY <1>4, <1>5, <1>6

\* The tools, and what embeds, are all of this kind.
LEMMA StillMoves ==
  ASSUME TypeInv, UNCHANGED <<audit, texts>>, DOMAIN memories' \subseteq DOMAIN memories,
         \A id \in DOMAIN memories' : memories'[id].importance = memories[id].importance
  PROVE  RowsMove
BY DEF TypeInv, AuditType, RowsMove, LogGrows

\* A logged change of a row, or none, is a move.
LEMMA EventMoves ==
  ASSUME TypeInv, NEW e \in Events, audit' = Append(audit, e),
         DOMAIN texts \subseteq DOMAIN texts',
         \A id \in DOMAIN memories' \cap DOMAIN texts :
           /\ id \in DOMAIN memories
           /\ \/ memories'[id].importance = memories[id].importance
              \/ e.action = "update" /\ e.memory = id
  PROVE  RowsMove
<1>1. LogGrows /\ Len(audit') = Len(audit) + 1 /\ audit'[Len(audit) + 1] = e
  BY AppendGrows DEF TypeInv
<1>2. ASSUME NEW id, e.action = "update", e.memory = id
      PROVE  UpdatedIn(audit', Len(audit), id)
  <2>1. Len(audit) + 1 \in (Len(audit) + 1)..Len(audit')
    BY <1>1 DEF LogGrows
  <2>. QED  BY <1>1, <1>2, <2>1 DEF UpdatedIn
<1>. QED  BY <1>1, <1>2 DEF RowsMove

\* Logging a deletion, or not, leaves the log before it as it was.
LEMMA LoggedDeleteGrows ==
  ASSUME NEW log \in Seq(Events), NEW rows, NEW id \in Ids
  PROVE  /\ LoggedDelete(log, rows, id) \in Seq(Events)
         /\ Len(log) <= Len(LoggedDelete(log, rows, id))
         /\ \A i \in 1..Len(log) : LoggedDelete(log, rows, id)[i] = log[i]
<1>. DEFINE e == Event("delete", id, 0)
<1>1. e \in Events
  BY DEF Event, Events, Actions
<1>2. \/ LoggedDelete(log, rows, id) = log
      \/ LoggedDelete(log, rows, id) = Append(log, e)
  BY DEF LoggedDelete
<1>. HIDE DEF e
<1>3. /\ Append(log, e) \in Seq(Events) /\ Len(Append(log, e)) = Len(log) + 1
      /\ \A i \in 1..Len(log) : Append(log, e)[i] = log[i]
  BY <1>1
<1>. QED  BY <1>2, <1>3

\* The tools of memory_add, update, supersede and forget only move rows.
LEMMA ToolsMoveRows ==
  ASSUME TypeInv, TypeInv',
         NEW w, NEW text, NEW procedural, NEW importance, NEW id1 \in Ids, NEW id2 \in Ids,
         \/ AddMemory(w, text, procedural, importance)
         \/ UpdateMemory(id1, text, procedural, importance)
         \/ SupersedeMemory(id1, id2) \/ DeleteMemories(id1, id2)
  PROVE  RowsMove /\ UNCHANGED decay
<1>0. \A action \in Actions, id \in Ids, ts \in Times \cup {0} :
        /\ Event(action, id, ts) \in Events
        /\ Event(action, id, ts).action = action
        /\ Event(action, id, ts).memory = id
  BY DEF Event, Events
<1>1. now \in Times /\ Actions = {"create", "update", "supersede", "delete"}
  BY DEF TypeInv, Actions
<1>2. CASE AddMemory(w, text, procedural, importance)
  <2>. DEFINE e == Event("create", nextId, now)
  <2>1. nextId \in Ids /\ nextId \notin DOMAIN texts
    BY <1>2 DEF AddMemory, TypeInv, TablesType, Ids
  <2>2. /\ audit' = Append(audit, e) /\ UNCHANGED decay
        /\ DOMAIN memories' = DOMAIN memories \cup {nextId}
        /\ DOMAIN texts' = DOMAIN texts \cup {nextId}
        /\ \A id \in DOMAIN memories \ {nextId} : memories'[id] = memories[id]
    BY <1>2 DEF AddMemory, NewId, Log, Put
  <2>3. e \in Events
    BY <1>0, <1>1, <2>1
  <2>. HIDE DEF e
  <2>. QED  BY <2>1, <2>2, <2>3, EventMoves
<1>3. CASE UpdateMemory(id1, text, procedural, importance)
  <2>. DEFINE e == Event("update", id1, now)
  <2>1. /\ audit' = Append(audit, e) /\ UNCHANGED decay
        /\ id1 \in DOMAIN memories /\ DOMAIN memories' = DOMAIN memories
        /\ DOMAIN texts \subseteq DOMAIN texts'
        /\ \A id \in DOMAIN memories \ {id1} : memories'[id] = memories[id]
    BY <1>3 DEF UpdateMemory, Log, Put
  <2>2. e \in Events /\ e.action = "update" /\ e.memory = id1
    BY <1>0, <1>1
  <2>. HIDE DEF e
  <2>. QED  BY <2>1, <2>2, EventMoves
<1>4. CASE SupersedeMemory(id1, id2)
  <2>. DEFINE e == Event("supersede", id1, 0)
              row == [memories[id1] EXCEPT !.supersededBy = id2]
  <2>1. /\ audit' = Append(audit, e) /\ UNCHANGED <<decay, texts>>
        /\ id1 \in DOMAIN memories /\ memories' = Put(memories, id1, row)
    BY <1>4 DEF SupersedeMemory, Log
  <2>2. row.importance = memories[id1].importance
    BY <2>1 DEF TypeInv, TablesType, IsTable, Rows
  <2>3. e \in Events
    BY <1>0, <1>1
  <2>. HIDE DEF e, row
  <2>4. /\ DOMAIN memories' = DOMAIN memories
        /\ \A id \in DOMAIN memories : memories'[id].importance = memories[id].importance
    BY <2>1, <2>2 DEF Put
  <2>. QED  BY <2>1, <2>3, <2>4, EventMoves
<1>5. CASE DeleteMemories(id1, id2)
  <2>1. /\ memories' = Without(Without(memories, {id1}), {id2})
        /\ audit' = LoggedDelete(LoggedDelete(audit, memories, id1),
                                 Without(memories, {id1}), id2)
        /\ UNCHANGED <<texts, decay>>
    BY <1>5, DeleteEffect
  <2>2. /\ DOMAIN memories' \subseteq DOMAIN memories
        /\ \A id \in DOMAIN memories' : memories'[id] = memories[id]
    BY <2>1 DEF Without
  <2>3. audit \in Seq(Events)
    BY DEF TypeInv, AuditType
  <2>4. PICK rest : rest = Without(memories, {id1})
    OBVIOUS
  <2>5. PICK log \in Seq(Events) : log = LoggedDelete(audit, memories, id1)
    BY <2>3, LoggedDeleteGrows
  <2>6. /\ Len(audit) <= Len(log) /\ \A i \in 1..Len(audit) : log[i] = audit[i]
        /\ Len(log) <= Len(audit') /\ \A i \in 1..Len(log) : audit'[i] = log[i]
        /\ audit' \in Seq(Events)
    <3>1. /\ Len(audit) <= Len(log) /\ \A i \in 1..Len(audit) : log[i] = audit[i]
      BY <2>3, <2>5, LoggedDeleteGrows
    <3>2. audit' = LoggedDelete(log, rest, id2)
      BY <2>1, <2>4, <2>5
    <3>3. /\ LoggedDelete(log, rest, id2) \in Seq(Events)
          /\ Len(log) <= Len(LoggedDelete(log, rest, id2))
          /\ \A i \in 1..Len(log) : LoggedDelete(log, rest, id2)[i] = log[i]
      BY LoggedDeleteGrows
    <3>. QED  BY <3>1, <3>2, <3>3
  <2>7. LogGrows
    BY <2>3, <2>6 DEF LogGrows
  <2>. QED  BY <2>1, <2>2, <2>7 DEF RowsMove
<1>. QED  BY <1>2, <1>3, <1>4, <1>5

\* Reading plans no more than what is there.
LEMMA ReadLowers ==
  ASSUME TypeInv, NEW d \in Decayers, DecayRead(d)
  PROVE  PassHas(decay[d])'
<1>. DEFINE level(id) == Decayed(memories[id], decay[d].now)
            plan == [id \in DOMAIN memories |->
                      [importance |-> level(id),
                       delete |-> Forgettable(memories[id], level(id))]]
            pass == [pc |-> "write", plan |-> plan,
                     seen |-> Len(audit), overtaken |-> FALSE]
<1>1. decay[d].now \in Times
  BY DEF DecayRead, TypeInv, DecayType, PassType, IdlePass
<1>2. ASSUME NEW id \in DOMAIN memories PROVE level(id) <= memories[id].importance
  <2>1. memories[id].importance \in Levels /\ memories[id].accessed \in Times
    BY <1>2 DEF TypeInv, TablesType, IsTable, Rows
  <2>. QED  BY <1>1, <2>1, Numbers DEF Decayed, Max2, Levels, Times
<1>3. decay' = [decay EXCEPT ![d] = pass] /\ UNCHANGED <<memories, texts, audit>>
  BY DEF DecayRead, tables
<1>4. decay'[d] = pass
  BY <1>3 DEF TypeInv, DecayType
<1>5. DOMAIN memories \subseteq DOMAIN texts /\ Len(audit) \in Nat
  BY DEF TypeInv, TablesType, AuditType
<1>6. /\ pass.plan = plan /\ DOMAIN plan = DOMAIN memories /\ pass.seen = Len(audit)
      /\ \A id \in DOMAIN memories : plan[id].importance = level(id)
  OBVIOUS
<1>. HIDE DEF level, plan, pass
<1>. QED  BY <1>2, <1>3, <1>4, <1>5, <1>6 DEF PassHas, PlanLowers

\* What passes have read and still to write is good after every step.
LEMMA PassInductive == TypeInv /\ TypeInv' /\ PassInv /\ [Next]_vars => PassInv'
<1>. SUFFICES ASSUME TypeInv, TypeInv', PassInv, [Next]_vars PROVE PassInv'
  OBVIOUS
<1>1. ASSUME RowsMove, UNCHANGED decay PROVE PassInv'
  BY <1>1, PassKeeps DEF PassInv, TypeInv, DecayType
<1>2. ASSUME NEW w \in Workers, NEW text \in Texts, NEW procedural \in BOOLEAN,
             NEW importance \in Levels, AddMemory(w, text, procedural, importance)
      PROVE  PassInv'
  <2>1. 1 \in Ids
    BY <1>2, Numbers DEF AddMemory, TypeInv, TablesType, Ids
  <2>. QED  BY <1>1, <1>2, <2>1, ToolsMoveRows
<1>3. ASSUME NEW id \in Ids, NEW text \in Texts, NEW procedural \in BOOLEAN,
             NEW importance \in Levels, UpdateMemory(id, text, procedural, importance)
      PROVE  PassInv'
  BY <1>1, <1>3, ToolsMoveRows
<1>4. ASSUME NEW id1 \in Ids, NEW id2 \in Ids,
             SupersedeMemory(id1, id2) \/ DeleteMemories(id1, id2)
      PROVE  PassInv'
  BY <1>1, <1>4, ToolsMoveRows
<1>5. ASSUME NEW ids, TouchMemories(ids) PROVE PassInv'
  <2>1. /\ DOMAIN memories' = DOMAIN memories /\ UNCHANGED <<audit, texts, decay>>
        /\ \A id \in DOMAIN memories : memories'[id].importance = memories[id].importance
    BY <1>5 DEF TouchMemories, TypeInv, TablesType, IsTable, Rows
  <2>. QED  BY <1>1, <2>1, StillMoves
<1>6. ASSUME UNCHANGED <<memories, audit, texts, decay>> PROVE PassInv'
  BY <1>1, <1>6, StillMoves
<1>7. ASSUME NEW w \in Workers, \/ StartEmbedMissing(w) \/ Rebuild(w) \/ ReadMissing(w)
                               \/ SaveMemoryEmbedding(w) \/ StopEmbedding(w)
      PROVE  PassInv'
  BY <1>6, <1>7 DEF StartEmbedMissing, Rebuild, ReadMissing, SaveMemoryEmbedding,
                    StopEmbedding, tables
<1>8. ASSUME NEW d \in Decayers, NEW e \in Decayers,
             DecayStart(d) \/ DecayRead(d) \/ DecayRollback(d) \/ DecayFail(d)
      PROVE  PassHas(decay[e])'
  <2>1. UNCHANGED <<memories, audit, texts>>
    BY <1>8 DEF DecayStart, DecayRead, DecayRollback, DecayFail, tables
  <2>2. CASE e # d
    <3>1. decay'[e] = decay[e]
      BY <1>8, <2>2 DEF DecayStart, DecayRead, DecayRollback, DecayFail, TypeInv, DecayType
    <3>2. RowsMove
      BY <2>1, StillMoves
    <3>. QED  BY <3>1, <3>2, PassKeeps DEF PassInv, TypeInv, DecayType
  <2>3. CASE e = d /\ ~DecayRead(d)
    <3>1. decay'[d].pc # "write"
      BY <1>8, <2>3 DEF DecayStart, DecayRollback, DecayFail, TypeInv, DecayType, IdlePass
    <3>. QED  BY <2>3, <3>1 DEF PassHas
  <2>. QED  BY <2>2, <2>3, ReadLowers
<1>9. ASSUME NEW d \in Decayers, NEW e \in Decayers, DecayWrite(d)
      PROVE  PassHas(decay[e])'
  <2>1. CASE decay'[e].pc # "write"
    BY <2>1 DEF PassHas
  <2>2. CASE decay'[e].pc = "write"
    <3>1. /\ e # d /\ decay[e].pc = "write"
          /\ decay'[e] = [decay[e] EXCEPT !.overtaken = TRUE]
      BY <1>9, <2>2 DEF DecayWrite, Overtake, IdlePass
    <3>2. /\ decay'[e].plan = decay[e].plan /\ decay'[e].seen = decay[e].seen
          /\ decay'[e].overtaken = TRUE
      BY <3>1 DEF TypeInv, DecayType, PassType, IdlePass
    <3>3. DOMAIN decay[e].plan \subseteq DOMAIN texts /\ decay[e].seen <= Len(audit)
      BY <3>1 DEF PassInv, PassHas
    <3>4. UNCHANGED <<audit, texts>>
      BY <1>9 DEF DecayWrite
    <3>. QED  BY <3>2, <3>3, <3>4 DEF PassHas
  <2>. QED  BY <2>1, <2>2
<1>10. CASE Tick \/ UNCHANGED vars
  BY <1>6, <1>10 DEF Tick, vars, tables
<1>. QED
  BY TiersAssumption, <1>2, <1>3, <1>4, <1>5, <1>7, <1>8, <1>9, <1>10 DEF Next, PassInv

\* However many passes run at once, and whatever is added, touched and forgotten
\* between what a pass reads and what it writes: it raises no importance but one
\* that an update, or another pass, has written in between.
THEOREM DecayLowersHolds == Spec => DecayLowers
<1>1. Init => PassInv
  BY DEF Init, PassInv, PassHas, IdlePass
<1>2. ASSUME TypeInv, PassInv, NEW d \in Decayers,
             decay[d].pc = "write", DecayWrite(d), ~decay[d].overtaken,
             NEW id \in DOMAIN memories'
      PROVE  \/ memories'[id].importance <= memories[id].importance
             \/ \E i \in (decay[d].seen + 1)..Len(audit) :
                  audit[i].action = "update" /\ audit[i].memory = id
  <2>. DEFINE pass == decay[d]
  <2>1. /\ id \in DOMAIN memories
        /\ memories'[id] = IF id \in DOMAIN pass.plan
             THEN [memories[id] EXCEPT !.importance = pass.plan[id].importance]
             ELSE memories[id]
    BY <1>2 DEF DecayWrite
  <2>2. memories[id] \in Rows /\ memories[id].importance \in Nat
    BY <1>2, <2>1, Numbers DEF TypeInv, TablesType, IsTable, Rows, Levels
  <2>3. pass.overtaken = FALSE
    BY <1>2 DEF TypeInv, DecayType, PassType, IdlePass
  <2>4. PlanLowers(pass)
    BY <1>2, <2>3 DEF PassInv, PassHas
  <2>5. CASE id \notin DOMAIN pass.plan
    <3>1. memories'[id].importance = memories[id].importance
      BY <2>1, <2>5
    <3>. QED  BY <2>2, <3>1
  <2>6. CASE id \in DOMAIN pass.plan
    <3>1. memories'[id].importance = pass.plan[id].importance
      BY <2>1, <2>2, <2>6 DEF Rows
    <3>. QED  BY <2>1, <2>4, <2>6, <3>1 DEF PlanLowers, UpdatedIn
  <2>. QED  BY <2>5, <2>6
<1>3. TypeInv /\ PassInv /\ [Next]_vars =>
        [\A d \in Decayers :
           decay[d].pc = "write" /\ DecayWrite(d) /\ ~decay[d].overtaken
           => \A id \in DOMAIN memories' :
                \/ memories'[id].importance <= memories[id].importance
                \/ \E i \in (decay[d].seen + 1)..Len(audit) :
                     audit[i].action = "update" /\ audit[i].memory = id]_vars
  BY <1>2
<1>. QED  BY <1>1, <1>3, PassInductive, TypeInvHolds, PTL DEF Spec, DecayLowers

------------------------------------------------------------------------------
\* No step makes a memory current that is not new: an id is not given out again,
\* and what is superseded stays so.
LEMMA StepKeepsRetired ==
  ASSUME TypeInv, [Next]_vars
  PROVE  /\ DOMAIN memories \subseteq Ids /\ NoId \notin Ids
         /\ DOMAIN texts \subseteq DOMAIN texts'
         /\ \A id \in DOMAIN texts \cap DOMAIN memories' :
              /\ id \in DOMAIN memories
              /\ ByOf(id)' = NoId => ByOf(id) = NoId
<1>1. TypeInv'
  BY TypeInductive
<1>2. RowStep
  BY StepIsRowStep
<1>3. /\ DOMAIN memories \subseteq Ids /\ NoId \notin Ids
      /\ nextId \notin DOMAIN texts /\ DOMAIN texts \subseteq DOMAIN texts'
  <2>1. nextId \in Nat /\ DOMAIN texts = 1..(nextId - 1)
    BY Numbers DEF TypeInv, TablesType
  <2>2. DOMAIN texts' = 1..(nextId' - 1)
    BY <1>1 DEF TypeInv, TablesType
  <2>3. nextId' \in {nextId, nextId + 1}
    BY <1>2 DEF RowStep, RowAdded, RowEdited, RowSuperseded, RowsDeleted, RowsKept
  <2>4. DOMAIN memories \subseteq Ids /\ NoId \notin Ids
    BY Numbers DEF TypeInv, TablesType, IsTable, NoId
  <2>5. DOMAIN texts \subseteq DOMAIN texts'
    <3>1. PICK n \in Nat : n = nextId
      BY <2>1
    <3>2. 1..(n - 1) \subseteq 1..(n + 1 - 1)
      OBVIOUS
    <3>3. nextId' = n \/ nextId' = n + 1
      BY <2>3, <3>1
    <3>. QED  BY <2>1, <2>2, <3>1, <3>2, <3>3
  <2>. QED  BY <2>1, <2>4, <2>5
<1>5. \A id \in DOMAIN texts \cap DOMAIN memories' :
        /\ id \in DOMAIN memories
        /\ ByOf(id)' = NoId => ByOf(id) = NoId
  BY <1>2, <1>3 DEF RowStep, RowAdded, RowEdited, RowSuperseded, RowsDeleted,
     RowsKept, Keep
<1>. QED  BY <1>3, <1>5

\* A memory once superseded or deleted is not current again, whatever is saved,
\* updated and deleted later: no deletion clears a reference, and no identifier
\* is used again.  Searches of several queries rely on it.
RetiredStays ==
  [][\A id \in DOMAIN texts \cap DOMAIN memories' :
       memories'[id].supersededBy = NoId
         => id \in DOMAIN memories /\ memories[id].supersededBy = NoId]_vars

\* It is not, in every behaviour of the store.
THEOREM RetiredStaysHolds == Spec => RetiredStays
<1>1. TypeInv /\ [Next]_vars =>
        [\A id \in DOMAIN texts \cap DOMAIN memories' :
           memories'[id].supersededBy = NoId
             => id \in DOMAIN memories /\ memories[id].supersededBy = NoId]_vars
  BY StepKeepsRetired DEF ByOf
<1>. QED  BY <1>1, TypeInvHolds, PTL DEF Spec, RetiredStays

------------------------------------------------------------------------------
\* A vector that MissingEmbeddings finds missing.
Due(id) == id \in DOMAIN memories /\ ByOf(id) = NoId /\ id \notin DOMAIN embeddings

\* What a rebuild has deleted is missing only as long as it is still in its queue,
\* or if it was left.
Owes(job) == /\ job.cleared \subseteq DOMAIN texts
             /\ job.pc = "embed" =>
                  \A id \in job.cleared : Due(id) => id \in Queued(job) \cup job.left
OwedInv == \A w \in Workers : Owes(worker[w])

\* A vector goes with its memory, or in a rebuild.
LEMMA VectorsStay ==
  ASSUME TypeInv, [Next]_vars, ~\E w \in Workers : Rebuild(w)
  PROVE  \A id \in DOMAIN embeddings \cap DOMAIN memories' : id \in DOMAIN embeddings'
<1>1. ASSUME NEW gone, RowsDeleted(gone)
      PROVE  \A id \in DOMAIN embeddings \cap DOMAIN memories' : id \in DOMAIN embeddings'
  BY <1>1 DEF RowsDeleted, Without
<1>2. ASSUME NEW w, NEW id, NEW text, NEW procedural, NEW importance,
             \/ AddMemory(w, text, procedural, importance)
             \/ UpdateMemory(id, text, procedural, importance)
      PROVE  UNCHANGED embeddings
  BY <1>2 DEF AddMemory, UpdateMemory
<1>3. ASSUME NEW id1, NEW id2, SupersedeMemory(id1, id2) PROVE UNCHANGED embeddings
  BY <1>3 DEF SupersedeMemory
<1>4. ASSUME NEW ids, TouchMemories(ids) PROVE UNCHANGED embeddings
  BY <1>4 DEF TouchMemories
<1>5. ASSUME NEW w, StartEmbedMissing(w) \/ ReadMissing(w) \/ StopEmbedding(w)
      PROVE  UNCHANGED embeddings
  BY <1>5 DEF StartEmbedMissing, ReadMissing, StopEmbedding, tables
<1>6. ASSUME NEW w, SaveMemoryEmbedding(w)
      PROVE  DOMAIN embeddings \subseteq DOMAIN embeddings'
  BY <1>6 DEF SaveMemoryEmbedding, Put
<1>7. ASSUME NEW d, DecayStart(d) \/ DecayRead(d) \/ DecayRollback(d) \/ DecayFail(d)
      PROVE  UNCHANGED embeddings
  BY <1>7 DEF DecayStart, DecayRead, DecayRollback, DecayFail, tables
<1>8. CASE Tick \/ UNCHANGED vars
  BY <1>8 DEF Tick, vars, tables
<1>. QED  BY <1>1, <1>2, <1>3, <1>4, <1>5, <1>6, <1>7, <1>8, DeletesRows, DecayDeletesRows
          DEF Next

\* So no memory becomes due that is not new, but in a rebuild.
LEMMA NoneBecomesDue ==
  ASSUME TypeInv, [Next]_vars, ~\E w \in Workers : Rebuild(w)
  PROVE  DOMAIN texts \subseteq DOMAIN texts' /\ \A id \in DOMAIN texts : Due(id)' => Due(id)
BY StepKeepsRetired, VectorsStay DEF Due

\* A worker moves to another list.
LEMMA OwedMoves ==
  ASSUME TypeInv, OwedInv, [Next]_vars, ~\E w \in Workers : Rebuild(w),
         NEW w \in Workers, NEW job, worker' = [worker EXCEPT ![w] = job], Owes(job)'
  PROVE  OwedInv'
<1>1. \A v \in Workers \ {w} : worker'[v] = worker[v]
  BY DEF TypeInv, WorkerType
<1>2. worker'[w] = job
  BY DEF TypeInv, WorkerType
<1>3. DOMAIN texts \subseteq DOMAIN texts' /\ \A id \in DOMAIN texts : Due(id)' => Due(id)
  BY NoneBecomesDue
<1>4. ASSUME NEW v \in Workers \ {w} PROVE Owes(worker[v])'
  <2>1. Owes(worker[v])
    BY DEF OwedInv
  <2>. QED  BY <1>1, <1>3, <2>1 DEF Owes, Queued
<1>5. Owes(worker[w])'
  BY <1>2 DEF Owes, Queued
<1>. QED  BY <1>4, <1>5 DEF OwedInv

\* All but the first of a list is in its tail.
LEMMA TailHas ==
  ASSUME NEW queue \in Seq(Job), queue # <<>>, NEW k \in DOMAIN queue, k # 1
  PROVE  \E j \in DOMAIN Tail(queue) : Tail(queue)[j] = queue[k]
<1>1. k - 1 \in DOMAIN Tail(queue) /\ Tail(queue)[k - 1] = queue[k]
  OBVIOUS
<1>. QED  BY <1>1

\* Another rebuild takes out what it deletes; what a worker lists, it stores.
LEMMA OwedInductive ==
  ASSUME TypeInv, ReferencesHold, OwedInv, [Next]_vars
  PROVE  OwedInv'
<1>1. CASE \E w \in Workers : Rebuild(w)
  <2>1. PICK w \in Workers : Rebuild(w)
    BY <1>1
  <2>6. UNCHANGED <<memories, texts>>
    BY <2>1 DEF Rebuild
  <2>. DEFINE gone == DOMAIN embeddings
  <2>2. gone \subseteq DOMAIN texts
    BY DEF ReferencesHold, TypeInv, TablesType
  <2>3. worker' = [v \in Workers |->
          IF v = w
            THEN [pc |-> "missing", queue |-> <<>>, cleared |-> gone, left |-> {}]
            ELSE [worker[v] EXCEPT !.cleared = worker[v].cleared \ gone]]
    BY <2>1 DEF Rebuild
  <2>4. \A id : id \notin gone /\ Due(id)' => Due(id)
    BY <2>6 DEF Due, ByOf
  <2>. HIDE DEF gone
  <2>5. ASSUME NEW v \in Workers PROVE Owes(worker[v])'
    <3>1. CASE v = w
      <4>1. worker'[v].pc = "missing" /\ worker'[v].cleared = gone
        BY <2>3, <3>1
      <4>. QED  BY <2>6, <2>2, <4>1 DEF Owes
    <3>2. CASE v # w
      <4>1. /\ worker'[v].pc = worker[v].pc /\ worker'[v].queue = worker[v].queue
            /\ worker'[v].left = worker[v].left
            /\ worker'[v].cleared = worker[v].cleared \ gone
        BY <2>3, <3>2 DEF TypeInv, WorkerType, Queues
      <4>2. Owes(worker[v])
        BY DEF OwedInv
      <4>. QED  BY <2>6, <2>4, <4>1, <4>2 DEF Owes, Queued
    <3>. QED  BY <3>1, <3>2
  <2>. QED  BY <2>5 DEF OwedInv
<1>2. CASE ~\E w \in Workers : Rebuild(w)
  <2>1. DOMAIN texts \subseteq DOMAIN texts' /\ \A id \in DOMAIN texts : Due(id)' => Due(id)
    BY <1>2, NoneBecomesDue
  <2>2. CASE UNCHANGED worker
    BY <2>1, <2>2 DEF OwedInv, Owes, Queued
  <2>3. ASSUME NEW w \in Workers, worker' = [worker EXCEPT ![w] = IdleWorker]
        PROVE  OwedInv'
    <3>1. Owes(IdleWorker)'
      BY DEF Owes, IdleWorker
    <3>. QED  BY <1>2, <2>3, <3>1, OwedMoves
  <2>4. ASSUME NEW w \in Workers, NEW text, NEW procedural, NEW importance,
               AddMemory(w, text, procedural, importance)
        PROVE  OwedInv'
    <3>1. PICK job : job = [pc |-> "embed", queue |-> <<[id |-> NewId, text |-> text]>>,
                            cleared |-> {}, left |-> {}]
      OBVIOUS
    <3>2. Owes(job)'
      BY <3>1 DEF Owes
    <3>3. UNCHANGED worker \/ worker' = [worker EXCEPT ![w] = job]
      BY <2>4, <3>1 DEF AddMemory
    <3>. QED  BY <1>2, <2>2, <3>2, <3>3, OwedMoves
  <2>5. ASSUME NEW w \in Workers, StartEmbedMissing(w) PROVE OwedInv'
    <3>0. PICK job : job = [worker[w] EXCEPT !.pc = "missing"]
      OBVIOUS
    <3>1. worker' = [worker EXCEPT ![w] = job]
      BY <2>5, <3>0 DEF StartEmbedMissing, TypeInv, WorkerType
    <3>2. job.cleared = worker[w].cleared /\ job.pc = "missing"
      BY <3>0 DEF TypeInv, WorkerType, Queues
    <3>3. Owes(job)'
      BY <2>1, <3>2 DEF OwedInv, Owes
    <3>. QED  BY <1>2, <3>1, <3>3, OwedMoves
  <2>6. ASSUME NEW w \in Workers, ReadMissing(w) PROVE OwedInv'
    <3>1. PICK job \in Queues :
            /\ worker' = [worker EXCEPT ![w] = job]
            /\ job.cleared \subseteq worker[w].cleared
            /\ job.pc = "embed" =>
                 Missing \cap job.cleared \subseteq Queued(job) \cup job.left
      BY <2>6, MissingList
    <3>2. \A id : Due(id)' => id \in Missing
      BY <2>6 DEF ReadMissing, tables, Due, Missing, ByOf
    <3>3. Owes(job)'
      BY <2>1, <3>1, <3>2 DEF OwedInv, Owes, Queued
    <3>. QED  BY <1>2, <3>1, <3>3, OwedMoves
  <2>7. ASSUME NEW w \in Workers, SaveMemoryEmbedding(w) PROVE OwedInv'
    <3>. DEFINE queue == worker[w].queue
    <3>0. PICK rest : rest = [worker[w] EXCEPT !.queue = Tail(queue)]
      OBVIOUS
    <3>1. \/ worker' = [worker EXCEPT ![w] = IdleWorker]
          \/ worker' = [worker EXCEPT ![w] = rest]
      BY <2>7, <3>0 DEF SaveMemoryEmbedding, TypeInv, WorkerType
    <3>2. /\ worker[w] \in Queues /\ queue \in Seq(Job) /\ queue # <<>>
          /\ worker[w].pc = "embed" /\ DOMAIN embeddings' = DOMAIN embeddings \cup {queue[1].id}
      BY <2>7 DEF SaveMemoryEmbedding, TypeInv, WorkerType, Queues, Put
    <3>3. \A k \in DOMAIN queue :
            k = 1 \/ \E j \in DOMAIN Tail(queue) : Tail(queue)[j] = queue[k]
      BY <3>2, TailHas
    <3>4. /\ rest.queue = Tail(queue) /\ rest.cleared = worker[w].cleared
          /\ rest.left = worker[w].left /\ rest.pc = "embed"
      BY <3>0, <3>2 DEF Queues
    <3>5. Owes(rest)'
      <4>1. ASSUME NEW id \in worker[w].cleared, Due(id)', id \notin rest.left
            PROVE  id \in Queued(rest)
        <5>1. id \in Queued(worker[w]) /\ id # queue[1].id
          BY <2>1, <3>2, <3>4, <4>1 DEF OwedInv, Owes, Due
        <5>2. PICK k \in DOMAIN queue : queue[k].id = id
          BY <5>1 DEF Queued
        <5>3. PICK j \in DOMAIN Tail(queue) : Tail(queue)[j] = queue[k]
          BY <3>3, <5>1, <5>2
        <5>4. j \in DOMAIN rest.queue /\ rest.queue[j].id = id
          BY <3>4, <5>2, <5>3
        <5>. QED  BY <5>4 DEF Queued
      <4>. QED  BY <2>1, <3>4, <4>1 DEF OwedInv, Owes, Queued
    <3>. QED  BY <1>2, <2>3, <3>1, <3>5, OwedMoves
  <2>8. ASSUME NEW w \in Workers, StopEmbedding(w) PROVE OwedInv'
    BY <2>3, <2>8 DEF StopEmbedding
  <2>9. ASSUME NEW id, NEW text, NEW procedural, NEW importance,
               UpdateMemory(id, text, procedural, importance)
        PROVE  UNCHANGED worker
    BY <2>9 DEF UpdateMemory
  <2>10. ASSUME NEW id1, NEW id2, SupersedeMemory(id1, id2) \/ DeleteMemories(id1, id2)
         PROVE  UNCHANGED worker
    BY <2>10 DEF SupersedeMemory, DeleteMemories
  <2>11. ASSUME NEW ids, TouchMemories(ids) PROVE UNCHANGED worker
    BY <2>11 DEF TouchMemories
  <2>12. ASSUME NEW d, \/ DecayStart(d) \/ DecayRead(d) \/ DecayWrite(d)
                       \/ DecayRollback(d) \/ DecayFail(d)
         PROVE  UNCHANGED worker
    BY <2>12 DEF DecayStart, DecayRead, DecayWrite, DecayRollback, DecayFail
  <2>13. CASE Tick \/ UNCHANGED vars
    BY <2>2, <2>13 DEF Tick, vars
  <2>. QED  BY <1>2, <2>2, <2>4, <2>5, <2>6, <2>7, <2>8, <2>9, <2>10, <2>11, <2>12, <2>13
            DEF Next
<1>. QED  BY <1>1, <1>2

\* An embed-rebuild that ends without an error has given each current memory
\* whose vector it deleted one again, whatever was saved, updated, deleted and
\* embedded meanwhile: but for those that its limit cut from its list, and those
\* that another rebuild deleted once more.
THEOREM RebuildRestoresHolds == Spec => RebuildRestores
<1>1. Init => OwedInv
  BY DEF Init, OwedInv, Owes, IdleWorker
<1>2. TypeInv /\ ReferencesHold /\ OwedInv /\ [Next]_vars => OwedInv'
  BY OwedInductive
<1>. DEFINE Restores ==
       \A w \in Workers :
         worker[w].pc = "embed" /\ SaveMemoryEmbedding(w) /\ worker'[w].pc = "idle"
           => \A id \in worker[w].cleared \cap DOMAIN memories :
                \/ id \in DOMAIN embeddings' \/ memories[id].supersededBy # NoId
                \/ id \in worker[w].left
<1>3. TypeInv /\ OwedInv /\ [Next]_vars => [Restores]_vars
  <2>. SUFFICES ASSUME TypeInv, OwedInv, NEW w \in Workers, worker[w].pc = "embed",
                       SaveMemoryEmbedding(w), worker'[w].pc = "idle",
                       NEW id \in worker[w].cleared \cap DOMAIN memories,
                       memories[id].supersededBy = NoId, id \notin worker[w].left
                PROVE  id \in DOMAIN embeddings'
    OBVIOUS
  <2>. DEFINE queue == worker[w].queue
  <2>1. /\ queue \in Seq(Job) /\ queue # <<>> /\ worker[w] \in Queues
        /\ DOMAIN embeddings' = DOMAIN embeddings \cup {queue[1].id}
    BY DEF SaveMemoryEmbedding, TypeInv, WorkerType, Queues, Put
  <2>2. Len(queue) = 1
    <3>1. worker'[w] = IF Len(queue) = 1 THEN IdleWorker
                                         ELSE [worker[w] EXCEPT !.queue = Tail(queue)]
      BY DEF SaveMemoryEmbedding, TypeInv, WorkerType
    <3>2. [worker[w] EXCEPT !.queue = Tail(queue)].pc = "embed"
      BY <2>1 DEF Queues
    <3>. QED  BY <3>1, <3>2
  <2>3. Due(id) => id = queue[1].id
    BY <2>1, <2>2 DEF OwedInv, Owes, Queued
  <2>. QED  BY <2>1, <2>3 DEF Due, ByOf
<1>4. RebuildRestores <=> [][Restores]_vars
  BY DEF RebuildRestores
<1>. QED  BY <1>1, <1>2, <1>3, <1>4, TypeInvHolds, ReferencesHoldHolds, PTL DEF Spec
------------------------------------------------------------------------------
\* The refinement mapping, read off the rows: what is indexed is what is stored.
Record(id) == [text |-> TextOf(id), by |-> ByOf(id)]
BankOf == [id \in DOMAIN fts |->
            [text |-> fts[id], by |-> memories[id].supersededBy]]
Used == 1..(nextId - 1)

\* With the index in step, the bank is read off the rows.
LEMMA BankOfRows == FtsMatches => BankOf = [id \in DOMAIN memories |-> Record(id)]
BY DEF FtsMatches, BankOf, Record, TextOf, ByOf

\* Every step of the store is one of the bank, or shows nothing.
LEMMA BankStep ==
  ASSUME TypeInv, FtsMatches, FtsMatches', RowStep
  PROVE  Bank!Next \/ UNCHANGED <<BankOf, Used>>
<1>1. /\ DOMAIN BankOf = DOMAIN memories /\ DOMAIN BankOf' = DOMAIN memories'
      /\ \A id \in DOMAIN memories : BankOf[id] = Record(id)
      /\ BankOf = [id \in DOMAIN memories |-> Record(id)]
      /\ BankOf' = [id \in DOMAIN memories' |-> Record(id)']
  BY BankOfRows DEF BankOf, FtsMatches, Record, TextOf, ByOf
<1>2. ASSUME NEW id \in Ids, RowAdded(id) PROVE Bank!Next
  <2>1. PICK text \in Texts : text = TextOf(id)'
    BY <1>2 DEF RowAdded
  <2>2. id \notin Used /\ Used' = Used \cup {id}
    BY <1>2 DEF RowAdded, Used, TypeInv, TablesType
  <2>3. BankOf' = Put(BankOf, id, [text |-> text, by |-> NoId])
    <3>1. \A k \in DOMAIN memories' :
            Record(k)' = IF k = id THEN [text |-> text, by |-> NoId] ELSE BankOf[k]
      BY <1>1, <1>2, <2>1 DEF RowAdded, Keep, Record
    <3>2. DOMAIN memories' = DOMAIN BankOf \cup {id}
      BY <1>1, <1>2 DEF RowAdded
    <3>. QED  BY <1>1, <3>1, <3>2 DEF Put
  <2>4. Bank!Save(id, text)
    BY <2>2, <2>3 DEF Bank!Save, Bank!Put, Put, BankOf, Used
  <2>. QED  BY <2>4 DEF Bank!Next
<1>3. ASSUME NEW id \in Ids, RowEdited(id) PROVE Bank!Next
  <2>1. PICK text \in Texts : text = TextOf(id)'
    BY <1>3 DEF RowEdited
  <2>2. BankOf' = Put(BankOf, id, [BankOf[id] EXCEPT !.text = text])
    <3>1. \A k \in DOMAIN memories' :
            Record(k)' = IF k = id THEN [BankOf[id] EXCEPT !.text = text]
                                   ELSE BankOf[k]
      <4>1. Record(id)' = [Record(id) EXCEPT !.text = text]
        BY <1>3, <2>1 DEF RowEdited, Record
      <4>2. \A k \in DOMAIN memories \ {id} : Record(k)' = Record(k)
        BY <1>3 DEF RowEdited, Keep, Record
      <4>. QED  BY <1>1, <1>3, <4>1, <4>2 DEF RowEdited
    <3>2. DOMAIN memories' = DOMAIN BankOf \cup {id}
      BY <1>1, <1>3 DEF RowEdited
    <3>. QED  BY <1>1, <3>1, <3>2 DEF Put
  <2>3. Used' = Used /\ id \in DOMAIN BankOf
    BY <1>1, <1>3 DEF RowEdited, Used
  <2>4. Bank!Edit(id, text)
    BY <2>2, <2>3 DEF Bank!Edit, Bank!Put, Put, BankOf, Used
  <2>. QED  BY <2>3, <2>4 DEF Bank!Next, BankOf
<1>4. ASSUME NEW id \in Ids, RowSuperseded(id) PROVE Bank!Next
  <2>1. PICK by \in DOMAIN memories \ {id} : by = ByOf(id)'
    BY <1>4 DEF RowSuperseded
  <2>2. BankOf' = Put(BankOf, id, [BankOf[id] EXCEPT !.by = by])
    <3>1. \A k \in DOMAIN memories' :
            Record(k)' = IF k = id THEN [BankOf[id] EXCEPT !.by = by] ELSE BankOf[k]
      <4>1. Record(id)' = [Record(id) EXCEPT !.by = by]
        BY <1>4, <2>1 DEF RowSuperseded, Record
      <4>2. \A k \in DOMAIN memories \ {id} : Record(k)' = Record(k)
        BY <1>4 DEF RowSuperseded, Keep, Record
      <4>. QED  BY <1>1, <1>4, <4>1, <4>2 DEF RowSuperseded
    <3>2. DOMAIN memories' = DOMAIN BankOf \cup {id}
      BY <1>1, <1>4 DEF RowSuperseded
    <3>. QED  BY <1>1, <3>1, <3>2 DEF Put
  <2>3. Used' = Used /\ id \in DOMAIN BankOf /\ by \in DOMAIN BankOf \ {id}
    BY <1>1, <1>4, <2>1 DEF RowSuperseded, Used
  <2>4. Bank!Replace(id, by)
    BY <2>2, <2>3 DEF Bank!Replace, Bank!Put, Put, BankOf, Used
  <2>. QED  BY <2>3, <2>4 DEF Bank!Next, BankOf
<1>5. ASSUME NEW gone \in SUBSET Ids, RowsDeleted(gone) PROVE Bank!Next
  <2>0. PICK ids \in SUBSET Ids : ids = gone \cap DOMAIN memories
    OBVIOUS
  <2>1. /\ DOMAIN memories' = DOMAIN memories \ ids /\ Used' = Used
        /\ \A id \in DOMAIN memories \ ids : Record(id)' = Record(id)
        /\ \A id \in DOMAIN memories \ ids : ByOf(id) \notin ids
    BY <1>5, <2>0 DEF RowsDeleted, Keep, Record, Used
  <2>2. BankOf' = Without(BankOf, ids)
    BY <1>1, <2>1 DEF Without, BankOf
  <2>3. \A id \in DOMAIN BankOf \ ids : BankOf[id].by \notin ids
    BY <1>1, <2>1 DEF Record
  <2>4. Bank!Remove(ids)
    BY <2>1, <2>2, <2>3 DEF Bank!Remove, Bank!Without, Without, BankOf, Used
  <2>5. ids \in SUBSET DOMAIN BankOf
    BY <1>1, <2>0
  <2>6. \E rows \in SUBSET DOMAIN BankOf : Bank!Remove(rows)
    BY <2>4, <2>5
  <2>. QED  BY <2>6, Zenon DEF Bank!Next, BankOf
<1>6. CASE RowsKept
  <2>1. DOMAIN memories' = DOMAIN memories
        /\ \A id \in DOMAIN memories : Record(id)' = Record(id)
    BY <1>6 DEF RowsKept, Keep, Record
  <2>2. BankOf' = BankOf
    BY <1>1, <2>1
  <2>3. Used' = Used
    BY <1>6 DEF RowsKept, Used
  <2>. QED  BY <2>2, <2>3
<1>. QED  BY <1>2, <1>3, <1>4, <1>5, <1>6 DEF RowStep

\* What search finds is a MemoryBank: whatever the store does besides - vectors,
\* decay, plans of passes, half-finished commands - is a stutter, and a pass that
\* forgets removes at once what it removes.
THEOREM StoreImplementsBank == Spec => ImplementsBank
<1>1. Init => Bank!Init
  <2>. SUFFICES ASSUME Init PROVE Bank!Init
    OBVIOUS
  <2>1. BankOf = [id \in {} |-> id] /\ Used = {}
    BY DEF Init, BankOf, Used
  <2>. QED  BY <2>1 DEF Bank!Init, BankOf, Used
<1>2. TypeInv /\ FtsMatches /\ FtsMatches' /\ [Next]_vars
        => [Bank!Next]_<<BankOf, Used>>
  BY StepIsRowStep, BankStep
<1>. QED  BY <1>1, <1>2, TypeInvHolds, FtsMatchesHolds, PTL
          DEF Spec, ImplementsBank, Bank!Spec, Bank!vars, BankOf, Used
=============================================================================
