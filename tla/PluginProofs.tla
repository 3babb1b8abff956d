---------------------------- MODULE PluginProofs ----------------------------
(***************************************************************************)
(* Proofs about OpenCodePlugin, for every number of hooks that overlap,    *)
(* every set of sessions and parts, and every number of broken answers.    *)
(***************************************************************************)
EXTENDS OpenCodePlugin, FiniteSetTheorems, TLAPS

USE PluginAssumption

Waits == {"deleted", "sessionEnd", "context", "enrich"}

\* What the steps need to know of the variables; the stash is left alone.
HandlerType ==
  /\ DOMAIN handler = Handlers /\ handler = [h \in Handlers |-> handler[h]]
  /\ \A h \in Handlers : handler[h].pc \in Waits => handler[h].session \in SessionIds

MapsType ==
  /\ active \in SessionIds \cup {None}
  /\ injected \subseteq SessionIds
  /\ seen \in [SessionIds -> SUBSET Parts]

HistoryType ==
  /\ observed \in [SessionIds -> [Parts -> Nat]]
  /\ pushed \in [SessionIds -> Nat]
  /\ thrown \in Nat

TypeInv == HandlerType /\ MapsType /\ HistoryType

\* An event belongs to a session, one way or the other.
LEMMA SessionFound ==
  ASSUME TypeInv, NEW own \in SessionIds \cup {None}, SessionFrom(own) # None
  PROVE  SessionFrom(own) \in SessionIds
BY DEF SessionFrom, TypeInv, MapsType

\* A hook that comes to wait, or ends, leaves the others where they are.
LEMMA HookMoves ==
  ASSUME HandlerType, NEW h \in Handlers, NEW wait, Await(h, wait),
         wait.pc \in Waits => wait.session \in SessionIds
  PROVE  /\ HandlerType' /\ handler'[h] = wait
         /\ \A g \in Handlers \ {h} : handler'[g] = handler[g]
BY DEF HandlerType, Await

\* So does a prune keep the types.
LEMMA PruneType ==
  ASSUME TypeInv, NEW s \in SessionIds, Prune(s), active' \in SessionIds \cup {None}
  PROVE  MapsType' /\ HistoryType'
BY DEF Prune, TypeInv, MapsType, HistoryType

\* What each hook waits for is one of these.
LEMMA WaitFields ==
  ASSUME NEW pc, NEW s, NEW files
  PROVE  /\ Wait(pc, s).pc = pc /\ Wait(pc, s).session = s
         /\ [Wait(pc, s) EXCEPT !.files = files].pc = pc
         /\ [Wait(pc, s) EXCEPT !.files = files].session = s
         /\ Idle.pc \notin Waits /\ LastPost.pc \notin Waits /\ Compaction.pc \notin Waits
BY DEF Wait, Idle, LastPost, Compaction, Waits

\* Where a hook may come to stand, and when it comes to wait for the context.
LEMMA HookGoes ==
  ASSUME HandlerType, NEW h \in Handlers, NEW pc, NEW s \in SessionIds
  PROVE  /\ Return(h) => /\ HandlerType' /\ handler'[h].pc \notin Waits
                         /\ \A g \in Handlers \ {h} : handler'[g] = handler[g]
         /\ Await(h, LastPost) \/ Await(h, Compaction) =>
              /\ HandlerType' /\ handler'[h].pc \notin Waits
              /\ \A g \in Handlers \ {h} : handler'[g] = handler[g]
         /\ Await(h, Wait(pc, s)) =>
              /\ HandlerType' /\ handler'[h].pc = pc /\ handler'[h].session = s
              /\ \A g \in Handlers \ {h} : handler'[g] = handler[g]
         /\ Enrich(h, s) =>
              /\ HandlerType' /\ handler'[h].pc # "context"
              /\ \A g \in Handlers \ {h} : handler'[g] = handler[g]
<1>. DEFINE files == NextFiles(s)
<1>. HIDE DEF files
<1>1. Return(h) => /\ HandlerType' /\ handler'[h].pc \notin Waits
                   /\ \A g \in Handlers \ {h} : handler'[g] = handler[g]
  BY HookMoves, WaitFields DEF Return
<1>2. Await(h, LastPost) \/ Await(h, Compaction) =>
        /\ HandlerType' /\ handler'[h].pc \notin Waits
        /\ \A g \in Handlers \ {h} : handler'[g] = handler[g]
  BY HookMoves, WaitFields
<1>3. Await(h, Wait(pc, s)) =>
        /\ HandlerType' /\ handler'[h].pc = pc /\ handler'[h].session = s
        /\ \A g \in Handlers \ {h} : handler'[g] = handler[g]
  BY HookMoves, WaitFields
<1>4. Await(h, [Wait("enrich", s) EXCEPT !.files = files]) =>
        /\ HandlerType' /\ handler'[h].pc = "enrich"
        /\ \A g \in Handlers \ {h} : handler'[g] = handler[g]
  <2>. DEFINE wait == [Wait("enrich", s) EXCEPT !.files = files]
  <2>1. wait.pc = "enrich" /\ wait.session = s
    BY WaitFields
  <2>. HIDE DEF wait
  <2>2. Await(h, wait) => /\ HandlerType' /\ handler'[h] = wait
                          /\ \A g \in Handlers \ {h} : handler'[g] = handler[g]
    BY <2>1, HookMoves
  <2>. QED  BY <2>1, <2>2 DEF wait
<1>5. "context" \in Waits
  BY DEF Waits
<1>. QED  BY <1>1, <1>2, <1>3, <1>4, <1>5 DEF Enrich, files

\* The parts and instructions are as they were, or a session is pruned, a part
\* observed, instructions pushed or taken up, or an answer breaks off.
Passed(h) ==
  /\ UNCHANGED <<active, injected, seen, observed, pushed, thrown>>
  /\ handler[h].pc # "context" /\ handler'[h].pc # "context"

Pruned(h) ==
  /\ \E s \in SessionIds : Prune(s)
  /\ handler[h].pc # "context" /\ handler'[h].pc # "context"

Observed(h) ==
  /\ \E s \in SessionIds, p \in Parts :
       /\ p \notin seen[s] /\ Remember(s, p)
       /\ observed' = [observed EXCEPT ![s][p] = @ + 1]
  /\ UNCHANGED <<active, injected, pushed, thrown>>
  /\ handler[h].pc # "context" /\ handler'[h].pc # "context"

Pushed(h) ==
  /\ handler[h].pc # "context" /\ handler'[h].pc = "context"
  /\ handler'[h].session \in SessionIds \ injected
  /\ pushed' = [pushed EXCEPT ![handler'[h].session] = @ + 1]
  /\ UNCHANGED <<active, injected, seen, observed, thrown>>

Injected(h) ==
  /\ handler[h].pc = "context" /\ handler'[h].pc # "context"
  /\ Inject(handler[h].session)
  /\ UNCHANGED <<active, seen, observed, pushed, thrown>>

Broken(h) ==
  /\ handler'[h].pc # "context"
  /\ thrown' = thrown + 1
  /\ UNCHANGED <<active, injected, seen, observed, pushed>>

PluginStep(h) ==
  /\ HandlerType' /\ \A g \in Handlers \ {h} : handler'[g] = handler[g]
  /\ \/ Passed(h) \/ Pruned(h) \/ Observed(h) \/ Pushed(h) \/ Injected(h) \/ Broken(h)

\* The active session is one of the sessions, or none, after any step.
LEMMA ActiveStays ==
  ASSUME TypeInv, Next
  PROVE  active' \in SessionIds \cup {None}
<1>1. active \in SessionIds \cup {None}
  BY DEF TypeInv, MapsType
<1>2. ASSUME NEW h \in Handlers, NEW own \in SessionIds \cup {None}, Created(h, own)
      PROVE  active' \in SessionIds \cup {None}
  BY <1>2, SessionFound DEF Created
<1>3. ASSUME NEW h \in Handlers, Resume(h)
      PROVE  active' \in SessionIds \cup {None}
  BY <1>1, <1>3 DEF Resume, Finish, RequestCompaction, EndSession, Forget, ActiveAfter,
                    AddContext, DropFiles, Throw, maps
<1>. QED  BY <1>1, <1>2, <1>3 DEF Next, Event, PartUpdated, Compacting, Deleted, Transform, maps

\* A hook that is called does one of these up to its first await,
LEMMA StartIsPluginStep ==
  ASSUME TypeInv, NEW h \in Handlers, NEW own \in SessionIds \cup {None},
         NEW files, NEW part,
         \/ Created(h, own) \/ Event(h, own, files)
         \/ part \in Parts /\ PartUpdated(h, own, part, files)
         \/ Compacting(h, own) \/ Deleted(h, own) \/ Transform(h, own)
  PROVE  PluginStep(h)
<1>. DEFINE s == SessionFrom(own)
<1>1. s # None /\ s \in SessionIds /\ Free(h)
  <2>1. s # None /\ Free(h)
    BY DEF Created, Event, PartUpdated, Compacting, Deleted, Transform
  <2>. QED  BY <2>1, SessionFound
<1>2. handler[h].pc # "context" /\ HandlerType
  BY <1>1 DEF Free, Idle, TypeInv
<1>3. "context" \in Waits
  BY DEF Waits
<1>. HIDE DEF s
<1>4. CASE Created(h, own)
  <2>1. Await(h, LastPost) /\ Prune(s)
    BY <1>4 DEF Created, s
  <2>. QED  BY <1>1, <1>2, <1>3, <2>1, HookGoes DEF PluginStep, Pruned
<1>5. CASE Event(h, own, files)
  <2>1. /\ Await(h, LastPost)
        /\ UNCHANGED <<active, injected, seen, observed, pushed, thrown>>
    BY <1>5 DEF Event, history
  <2>. QED  BY <1>1, <1>2, <1>3, <2>1, HookGoes DEF PluginStep, Passed
<1>6. CASE part \in Parts /\ PartUpdated(h, own, part, files)
  <2>1. /\ Await(h, LastPost) /\ part \in Parts
        /\ part \notin seen[s] /\ Remember(s, part)
        /\ observed' = [observed EXCEPT ![s][part] = @ + 1]
        /\ UNCHANGED <<active, injected, pushed, thrown>>
    BY <1>6 DEF PartUpdated, s
  <2>. QED  BY <1>1, <1>2, <1>3, <2>1, HookGoes DEF PluginStep, Observed
<1>7. CASE Compacting(h, own)
  <2>1. /\ Await(h, Compaction)
        /\ UNCHANGED <<active, injected, seen, observed, pushed, thrown>>
    BY <1>7 DEF Compacting, maps, history
  <2>. QED  BY <1>1, <1>2, <1>3, <2>1, HookGoes DEF PluginStep, Passed
<1>8. CASE Deleted(h, own)
  <2>1. /\ Await(h, Wait("deleted", s))
        /\ UNCHANGED <<active, injected, seen, observed, pushed, thrown>>
    BY <1>8 DEF Deleted, maps, history, s
  <2>. QED  BY <1>1, <1>2, <2>1, HookGoes DEF PluginStep, Passed
<1>9. CASE Transform(h, own)
  <2>1. /\ \/ /\ s \notin injected
              /\ pushed' = [pushed EXCEPT ![s] = @ + 1]
              /\ Await(h, Wait("context", s))
           \/ Enrich(h, s) /\ UNCHANGED pushed
        /\ UNCHANGED <<active, injected, seen, observed, thrown>>
    BY <1>9 DEF Transform, maps, s
  <2>. QED  BY <1>1, <1>2, <2>1, HookGoes DEF PluginStep, Passed, Pushed
<1>. QED  BY <1>4, <1>5, <1>6, <1>7, <1>8, <1>9

\* and one whose await has ended goes on with one of these.
LEMMA ResumeIsPluginStep ==
  ASSUME TypeInv, NEW h \in Handlers, Resume(h)
  PROVE  PluginStep(h)
<1>. DEFINE s == handler[h].session
<1>1. HandlerType /\ (handler[h].pc \in Waits => s \in SessionIds)
  BY DEF TypeInv, HandlerType
<1>3. Waits = {"deleted", "sessionEnd", "context", "enrich"}
  BY DEF Waits
<1>. HIDE DEF s
<1>4. CASE Finish(h) \/ RequestCompaction(h) \/ DropFiles(h)
  <2>1. /\ Await(h, LastPost) \/ Return(h)
        /\ handler[h].pc # "context"
        /\ UNCHANGED <<active, injected, seen, observed, pushed, thrown>>
    BY <1>4 DEF Finish, RequestCompaction, DropFiles, At, maps, history
  <2>2. /\ HandlerType' /\ handler'[h].pc # "context"
        /\ \A g \in Handlers \ {h} : handler'[g] = handler[g]
    BY <1>1, <1>3, <2>1, HookMoves, WaitFields DEF Return
  <2>. QED  BY <2>1, <2>2 DEF PluginStep, Passed
<1>5. CASE EndSession(h)
  <2>1. /\ Await(h, Wait("sessionEnd", s)) /\ handler[h].pc = "deleted"
        /\ UNCHANGED <<active, injected, seen, observed, pushed, thrown>>
    BY <1>5 DEF EndSession, At, maps, history, s
  <2>. QED  BY <1>1, <1>3, <2>1, HookGoes DEF PluginStep, Passed
<1>6. CASE Forget(h)
  <2>1. Return(h) /\ handler[h].pc = "sessionEnd" /\ Prune(s)
    BY <1>6 DEF Forget, At, s
  <2>. QED  BY <1>1, <1>3, <2>1, HookGoes DEF PluginStep, Pruned
<1>7. CASE AddContext(h)
  <2>1. /\ Enrich(h, s) /\ handler[h].pc = "context" /\ Inject(s)
        /\ UNCHANGED <<active, seen, observed, pushed, thrown>>
    BY <1>7 DEF AddContext, At, history, s
  <2>. QED  BY <1>1, <1>3, <2>1, HookGoes DEF PluginStep, Injected, s
<1>8. CASE Throw(h)
  <2>1. /\ Return(h) /\ thrown' = thrown + 1
        /\ UNCHANGED <<active, injected, seen, observed, pushed>>
    BY <1>8 DEF Throw, maps
  <2>2. Await(h, Idle)
    BY <2>1 DEF Return
  <2>. QED  BY <1>1, <1>3, <2>1, <2>2, HookMoves, WaitFields DEF PluginStep, Broken
<1>. QED  BY <1>4, <1>5, <1>6, <1>7, <1>8 DEF Resume

\* Every step of the plugin is one of a hook.
LEMMA NextIsPluginStep ==
  ASSUME TypeInv, Next
  PROVE  \E h \in Handlers : PluginStep(h)
<1>1. PICK h \in Handlers :
        \/ Resume(h)
        \/ \E own \in SessionIds \cup {None} :
             \/ Created(h, own) \/ Deleted(h, own)
             \/ Compacting(h, own) \/ Transform(h, own)
             \/ \E files \in (UNION Range(FileLists)) \cup {<<>>} :
                  \/ Event(h, own, files)
                  \/ \E part \in Parts : PartUpdated(h, own, part, files)
  BY DEF Next
<1>2. CASE Resume(h)
  BY <1>2, ResumeIsPluginStep
<1>3. CASE ~Resume(h)
  <2>1. PICK own \in SessionIds \cup {None} :
          \/ Created(h, own) \/ Deleted(h, own)
          \/ Compacting(h, own) \/ Transform(h, own)
          \/ \E files \in (UNION Range(FileLists)) \cup {<<>>} :
               \/ Event(h, own, files)
               \/ \E part \in Parts : PartUpdated(h, own, part, files)
    BY <1>1, <1>3
  <2>2. PICK files, part :
          \/ Created(h, own) \/ Event(h, own, files)
          \/ part \in Parts /\ PartUpdated(h, own, part, files)
          \/ Compacting(h, own) \/ Deleted(h, own) \/ Transform(h, own)
    BY <2>1
  <2>. QED  BY <2>2, StartIsPluginStep
<1>. QED  BY <1>2, <1>3

\* The types are kept by every step.
LEMMA TypeInductive == TypeInv /\ [Next]_vars => TypeInv'
<1>. SUFFICES ASSUME TypeInv, [Next]_vars PROVE TypeInv'
  OBVIOUS
<1>1. CASE UNCHANGED vars
  BY <1>1 DEF vars, maps, history, TypeInv, HandlerType, MapsType, HistoryType
<1>2. CASE Next
  <2>1. PICK h \in Handlers : PluginStep(h)
    BY <1>2, NextIsPluginStep
  <2>2. HandlerType'
    BY <2>1 DEF PluginStep
  <2>3. active' \in SessionIds \cup {None}
    BY <1>2, ActiveStays
  <2>4. CASE Pruned(h)
    BY <2>2, <2>3, <2>4, PruneType DEF Pruned, TypeInv
  <2>5. CASE Observed(h)
    <3>1. PICK s \in SessionIds, p \in Parts :
            /\ Remember(s, p)
            /\ observed' = [observed EXCEPT ![s][p] = @ + 1]
      BY <2>5 DEF Observed
    <3>. QED  BY <2>2, <2>5, <3>1 DEF Observed, Remember, TypeInv, MapsType, HistoryType
  <2>6. CASE Passed(h) \/ Injected(h) \/ Broken(h) \/ Pushed(h)
    BY <2>2, <2>6 DEF Passed, Pushed, Injected, Inject, Broken, TypeInv, HandlerType, Waits, MapsType, HistoryType
  <2>. QED  BY <2>1, <2>4, <2>5, <2>6 DEF PluginStep
<1>. QED  BY <1>1, <1>2

\* The types hold in every state.
LEMMA TypeInvHolds == Spec => []TypeInv
<1>1. Init => TypeInv
  BY DEF Init, TypeInv, HandlerType, MapsType, HistoryType, Waits, Idle
<1>. QED  BY <1>1, TypeInductive, PTL DEF Spec
------------------------------------------------------------------------------
\* A part was observed if it has been seen, and then once.
ObservedInv ==
  \A s \in SessionIds, p \in Parts :
    observed[s][p] = IF p \in seen[s] THEN 1 ELSE 0

\* Only the first update of a part is observed, and a prune forgets both.
LEMMA ObservedInductive == TypeInv /\ ObservedInv /\ [Next]_vars => ObservedInv'
<1>. SUFFICES ASSUME TypeInv, ObservedInv, [Next]_vars PROVE ObservedInv'
  OBVIOUS
<1>1. CASE UNCHANGED <<seen, observed>>
  BY <1>1 DEF ObservedInv
<1>2. CASE Next
  <2>1. PICK h \in Handlers : PluginStep(h)
    BY <1>2, NextIsPluginStep
  <2>2. CASE Pruned(h)
    <3>1. PICK s \in SessionIds : Prune(s)
      BY <2>2 DEF Pruned
    <3>. QED  BY <3>1 DEF Prune, ObservedInv, TypeInv, MapsType, HistoryType
  <2>3. CASE Observed(h)
    <3>1. PICK s \in SessionIds, part \in Parts :
            /\ part \notin seen[s]
            /\ seen' = [seen EXCEPT ![s] = @ \cup {part}]
            /\ observed' = [observed EXCEPT ![s][part] = @ + 1]
      BY <2>3 DEF Observed, Remember
    <3>2. observed[s][part] = 0
      BY <3>1 DEF ObservedInv
    <3>3. /\ part \in seen'[s] /\ observed'[s][part] = 1
          /\ \A r \in SessionIds, p \in Parts : <<r, p>> # <<s, part>> =>
               observed'[r][p] = observed[r][p] /\ (p \in seen'[r] <=> p \in seen[r])
      BY <3>1, <3>2 DEF TypeInv, MapsType, HistoryType
    <3>. QED  BY <3>3 DEF ObservedInv
  <2>. QED  BY <1>1, <2>1, <2>2, <2>3 DEF PluginStep, Passed, Pushed, Injected, Broken
<1>. QED  BY <1>1, <1>2 DEF vars, maps, history

\* However the updates of a part overlap, and whatever posts are lost: between
\* two prunes of its session it is observed once.
THEOREM ObservedOnceHolds == Spec => []ObservedOnce
<1>1. Init => ObservedInv
  BY DEF Init, ObservedInv
<1>2. ObservedInv => ObservedOnce
  BY DEF ObservedInv, ObservedOnce
<1>. QED  BY <1>1, <1>2, TypeInvHolds, ObservedInductive, PTL DEF Spec
------------------------------------------------------------------------------
\* The hooks that wait for the context of session s.
Waiting(s) == {h \in Handlers : handler[h].pc = "context" /\ handler[h].session = s}

\* As long as no hook has come back with the context, each push is owed to one
\* that waits for it or to one that has thrown.  From then on there are no more.
InstructionsInv ==
  \A s \in SessionIds :
    pushed[s] <= thrown + Cardinality(IF s \in injected THEN Handlers ELSE Waiting(s))

\* There are finitely many hooks.
LEMMA HooksCounted ==
  ASSUME NEW S \in SUBSET Handlers
  PROVE  /\ IsFiniteSet(S) /\ Cardinality(S) \in Nat /\ Cardinality(Handlers) \in Nat
         /\ Cardinality(S) <= Cardinality(Handlers)
BY FS_Subset, FS_CardinalityType

\* At most one hook comes to wait, or is done waiting, in a step.
LEMMA WaitingChanges ==
  ASSUME NEW h \in Handlers, NEW s,
         \A g \in Handlers \ {h} : handler'[g] = handler[g]
  PROVE  /\ (h \in Waiting(s) <=> h \in Waiting(s)') => Waiting(s)' = Waiting(s)
         /\ h \notin Waiting(s) /\ h \in Waiting(s)' =>
              Cardinality(Waiting(s)') = Cardinality(Waiting(s)) + 1
         /\ h \in Waiting(s) /\ h \notin Waiting(s)' =>
              Cardinality(Waiting(s)') = Cardinality(Waiting(s)) - 1
<1>. DEFINE W == Waiting(s)
<1>1. W \in SUBSET Handlers /\ W' \in SUBSET Handlers
  BY DEF Waiting
<1>2. \A g \in Handlers \ {h} : g \in W' <=> g \in W
  BY DEF Waiting
<1>. HIDE DEF W
<1>3. IsFiniteSet(W)
  BY <1>1, HooksCounted
<1>4. (h \in W <=> h \in W') => W' = W
  BY <1>1, <1>2
<1>5. ASSUME h \notin W, h \in W' PROVE Cardinality(W') = Cardinality(W) + 1
  <2>1. W' = W \cup {h}
    BY <1>1, <1>2, <1>5
  <2>. QED  BY <1>3, <1>5, <2>1, FS_AddElement
<1>6. ASSUME h \in W, h \notin W' PROVE Cardinality(W') = Cardinality(W) - 1
  <2>1. W' = W \ {h}
    BY <1>1, <1>2, <1>6
  <2>. QED  BY <1>3, <1>6, <2>1, FS_RemoveElement
<1>. QED  BY <1>4, <1>5, <1>6 DEF W

\* No step leaves instructions that are owed to no hook.
LEMMA InstructionsInductive == TypeInv /\ InstructionsInv /\ [Next]_vars => InstructionsInv'
<1>. DEFINE Owing(s) == IF s \in injected THEN Handlers ELSE Waiting(s)
<1>. SUFFICES ASSUME TypeInv, InstructionsInv, [Next]_vars, NEW s \in SessionIds
              PROVE  pushed'[s] <= thrown' + Cardinality(Owing(s)')
  BY DEF InstructionsInv
<1>1. /\ pushed[s] \in Nat /\ thrown \in Nat
      /\ Cardinality(Waiting(s)) \in Nat /\ Cardinality(Handlers) \in Nat
      /\ Cardinality(Waiting(s)) <= Cardinality(Handlers)
      /\ pushed[s] <= thrown + Cardinality(Owing(s))
  BY HooksCounted DEF TypeInv, HistoryType, InstructionsInv, Waiting
<1>2. /\ Cardinality(Waiting(s)') \in Nat
      /\ Cardinality(Waiting(s)') <= Cardinality(Handlers)
  BY HooksCounted DEF Waiting
<1>3. CASE UNCHANGED vars
  <2>1. Waiting(s)' = Waiting(s) /\ UNCHANGED <<injected, pushed, thrown>>
    BY <1>3 DEF vars, maps, history, Waiting
  <2>. QED  BY <1>1, <2>1
<1>4. CASE Next
  <2>1. PICK h \in Handlers : PluginStep(h)
    BY <1>4, NextIsPluginStep
  <2>2. \A g \in Handlers \ {h} : handler'[g] = handler[g]
    BY <2>1 DEF PluginStep
  <2>3. CASE Passed(h) \/ Observed(h)
    <3>1. h \notin Waiting(s) /\ h \notin Waiting(s)'
      BY <2>3 DEF Passed, Observed, Waiting
    <3>2. Waiting(s)' = Waiting(s)
      BY <2>2, <3>1, WaitingChanges
    <3>. QED  BY <1>1, <2>3, <3>2 DEF Passed, Observed
  <2>4. CASE Pruned(h)
    <3>1. PICK r \in SessionIds : Prune(r)
      BY <2>4 DEF Pruned
    <3>2. h \notin Waiting(s) /\ h \notin Waiting(s)'
      BY <2>4 DEF Pruned, Waiting
    <3>3. Waiting(s)' = Waiting(s)
      BY <2>2, <3>2, WaitingChanges
    <3>4. CASE s = r
      BY <1>1, <3>1, <3>3, <3>4 DEF Prune, TypeInv, HistoryType
    <3>5. CASE s # r
      BY <1>1, <3>1, <3>3, <3>5 DEF Prune, TypeInv, HistoryType
    <3>. QED  BY <3>4, <3>5
  <2>5. CASE Pushed(h)
    <3>1. CASE handler'[h].session = s
      <4>1. h \notin Waiting(s) /\ h \in Waiting(s)' /\ s \notin injected /\ s \notin injected'
        BY <2>5, <3>1 DEF Pushed, Waiting
      <4>2. pushed'[s] = pushed[s] + 1 /\ thrown' = thrown
        BY <2>5, <3>1 DEF Pushed, TypeInv, HistoryType
      <4>3. Cardinality(Waiting(s)') = Cardinality(Waiting(s)) + 1
        BY <2>2, <4>1, WaitingChanges
      <4>. QED  BY <1>1, <4>1, <4>2, <4>3
    <3>2. CASE handler'[h].session # s
      <4>1. h \notin Waiting(s) /\ h \notin Waiting(s)'
        BY <2>5, <3>2 DEF Pushed, Waiting
      <4>2. pushed'[s] = pushed[s] /\ UNCHANGED <<injected, thrown>>
        BY <2>5, <3>2 DEF Pushed, TypeInv, HistoryType
      <4>3. Waiting(s)' = Waiting(s)
        BY <2>2, <4>1, WaitingChanges
      <4>. QED  BY <1>1, <4>2, <4>3
    <3>. QED  BY <3>1, <3>2
  <2>6. CASE Injected(h)
    <3>1. h \notin Waiting(s)' /\ UNCHANGED <<pushed, thrown>>
          /\ injected' = injected \cup {handler[h].session}
      BY <2>6 DEF Injected, Inject, Waiting
    <3>2. CASE s \in injected'
      BY <1>1, <3>1, <3>2
    <3>3. CASE s \notin injected'
      <4>1. h \notin Waiting(s)
        BY <3>1, <3>3 DEF Waiting
      <4>2. Waiting(s)' = Waiting(s)
        BY <2>2, <3>1, <4>1, WaitingChanges
      <4>. QED  BY <1>1, <3>1, <3>3, <4>2
    <3>. QED  BY <3>2, <3>3
  <2>7. CASE Broken(h)
    <3>1. h \notin Waiting(s)' /\ UNCHANGED <<pushed, injected>> /\ thrown' = thrown + 1
      BY <2>7 DEF Broken, Waiting
    <3>2. Waiting(s)' = Waiting(s) \/ Cardinality(Waiting(s)') = Cardinality(Waiting(s)) - 1
      BY <2>2, <3>1, WaitingChanges
    <3>. QED  BY <1>1, <1>2, <3>1, <3>2
  <2>. QED  BY <2>1, <2>3, <2>4, <2>5, <2>6, <2>7 DEF PluginStep
<1>. QED  BY <1>3, <1>4

\* The excess of instructions is bounded by what overlaps and what breaks.
THEOREM InstructionsBoundedHolds == Spec => []InstructionsBounded
<1>1. Init => InstructionsInv
  <2>. SUFFICES ASSUME Init, NEW s \in SessionIds
                PROVE  pushed[s] <= thrown
                         + Cardinality(IF s \in injected THEN Handlers ELSE Waiting(s))
    BY DEF InstructionsInv
  <2>1. pushed[s] = 0 /\ thrown = 0 /\ injected = {}
    BY DEF Init
  <2>2. Cardinality(Waiting(s)) \in Nat
    BY HooksCounted DEF Waiting
  <2>. QED  BY <2>1, <2>2
<1>2. TypeInv /\ InstructionsInv => InstructionsBounded
  <2>. SUFFICES ASSUME TypeInv, InstructionsInv, NEW s \in SessionIds
                PROVE  pushed[s] <= Cardinality(Handlers) + thrown
    BY DEF InstructionsBounded
  <2>1. pushed[s] \in Nat /\ thrown \in Nat
    BY DEF TypeInv, HistoryType
  <2>2. /\ Cardinality(Waiting(s)) \in Nat /\ Cardinality(Handlers) \in Nat
        /\ Cardinality(Waiting(s)) <= Cardinality(Handlers)
    BY HooksCounted DEF Waiting
  <2>. QED  BY <2>1, <2>2 DEF InstructionsInv
<1>. QED  BY <1>1, <1>2, TypeInvHolds, InstructionsInductive, PTL DEF Spec
------------------------------------------------------------------------------
\* Events without an id go on to the session created last: its own deletion ends
\* that, and the slow deletion of another does not.
THEOREM ActiveKeptHolds == Spec => ActiveKept
<1>. DEFINE Named == \E h \in Handlers :
                       \/ \E s \in SessionIds : Created(h, s)
                       \/ Forget(h) /\ handler[h].session = active
<1>1. ASSUME TypeInv, Next, active' # active PROVE Named
  <2>1. PICK h \in Handlers :
          \/ \E own \in SessionIds \cup {None} : Created(h, own)
          \/ Forget(h)
    BY <1>1 DEF Next, Resume, Finish, RequestCompaction, EndSession, AddContext, DropFiles,
                Throw, Event, PartUpdated, Compacting, Deleted, Transform, maps
  <2>2. CASE Forget(h)
    BY <1>1, <2>2 DEF Forget, ActiveAfter
  <2>3. ASSUME NEW own \in SessionIds \cup {None}, Created(h, own) PROVE Named
    BY <1>1, <2>3 DEF Created, SessionFrom
  <2>. QED  BY <2>1, <2>2, <2>3
<1>2. TypeInv /\ [Next]_vars => [active' # active => Named]_vars
  BY <1>1
<1>. QED  BY <1>2, TypeInvHolds, PTL DEF Spec, ActiveKept
------------------------------------------------------------------------------
\* A stash is a list.
StashType == DOMAIN stash = SessionIds /\ \A s \in SessionIds : \E S : stash[s] \in Seq(S)

\* A list without some of its members is a list, and has all the others: the
\* place of each is that of no other.
LEMMA LessKeeps ==
  ASSUME NEW S, NEW list \in Seq(S), NEW gone
  PROVE  /\ \E T : Less(list, gone) \in Seq(T)
         /\ \A f \in ToSet(list) \ gone : f \in ToSet(Less(list, gone))
<1>. DEFINE left == {i \in DOMAIN list : list[i] \notin gone}
            upTo(i) == {j \in left : j <= i}
            nth(n) == CHOOSE i \in left : Cardinality(upTo(i)) = n
            less == [n \in 1..Cardinality(left) |-> list[nth(n)]]
<1>1. less = Less(list, gone)
  BY DEF Less
<1>2. /\ left \subseteq 1..Len(list) /\ Len(list) \in Nat /\ \A i \in left : i \in Nat
      /\ IsFiniteSet(left) /\ Cardinality(left) \in Nat
  <2>1. IsFiniteSet(1..Len(list))
    BY FS_Interval
  <2>2. left \subseteq 1..Len(list) /\ Len(list) \in Nat
    OBVIOUS
  <2>. QED  BY <2>1, <2>2, FS_Subset, FS_CardinalityType
<1>3. \A i \in left : /\ i \in upTo(i) /\ upTo(i) \subseteq left /\ IsFiniteSet(upTo(i))
                      /\ Cardinality(upTo(i)) \in 1..Cardinality(left)
  <2>. SUFFICES ASSUME NEW i \in left
                PROVE  /\ i \in upTo(i) /\ upTo(i) \subseteq left /\ IsFiniteSet(upTo(i))
                       /\ Cardinality(upTo(i)) \in 1..Cardinality(left)
    OBVIOUS
  <2>1. i \in upTo(i) /\ upTo(i) \subseteq left
    BY <1>2
  <2>. HIDE DEF left, upTo
  <2>2. /\ IsFiniteSet(upTo(i)) /\ Cardinality(upTo(i)) \in Nat
        /\ Cardinality(upTo(i)) <= Cardinality(left)
    BY <1>2, <2>1, FS_Subset, FS_CardinalityType
  <2>3. Cardinality(upTo(i)) # 0
    BY <2>1, <2>2, FS_EmptySet
  <2>. QED  BY <1>2, <2>1, <2>2, <2>3
<1>4. \A i, j \in left : i < j => Cardinality(upTo(i)) # Cardinality(upTo(j))
  <2>. SUFFICES ASSUME NEW i \in left, NEW j \in left, i < j,
                       Cardinality(upTo(i)) = Cardinality(upTo(j))
                PROVE  FALSE
    OBVIOUS
  <2>1. upTo(i) \subseteq upTo(j) /\ j \in upTo(j) /\ j \notin upTo(i)
    BY <1>2
  <2>2. IsFiniteSet(upTo(j))
    BY <1>3
  <2>. HIDE DEF left, upTo
  <2>3. upTo(i) = upTo(j)
    BY <2>1, <2>2, FS_Subset
  <2>. QED  BY <2>1, <2>3
<1>5. ASSUME NEW f \in ToSet(list) \ gone PROVE f \in ToSet(less)
  <2>1. PICK i \in left : list[i] = f
    BY DEF ToSet
  <2>2. PICK n \in 1..Cardinality(left) : n = Cardinality(upTo(i))
    BY <1>3, <2>1
  <2>3. \A j \in left : Cardinality(upTo(j)) = n => j = i
    <3>1. ASSUME NEW j \in left, Cardinality(upTo(j)) = n, j # i PROVE FALSE
      <4>1. i < j \/ j < i
        BY <1>2, <3>1
      <4>. HIDE DEF left, upTo
      <4>. QED  BY <1>4, <2>2, <3>1, <4>1
    <3>. QED  BY <3>1
  <2>. HIDE DEF left, upTo
  <2>4. nth(n) = i
    BY <2>2, <2>3
  <2>5. n \in DOMAIN less /\ less[n] = f
    BY <2>1, <2>4
  <2>. HIDE DEF less
  <2>. QED  BY <2>5 DEF ToSet
<1>6. \E T : less \in Seq(T)
  <2>. HIDE DEF left, nth
  <2>1. less \in Seq({list[nth(n)] : n \in 1..Cardinality(left)})
    BY <1>2
  <2>. QED  BY <2>1
<1>. HIDE DEF less
<1>. QED  BY <1>1, <1>5, <1>6

\* A full stash may lose files, another loses none.
LEMMA StashedKeeps ==
  ASSUME NEW S, NEW old \in Seq(S), NEW T, NEW files \in Seq(T)
  PROVE  /\ \E U : Stashed(old, files) \in Seq(U)
         /\ \/ Len(Stashed(old, files)) = MaxStash
            \/ ToSet(old) \subseteq ToSet(Stashed(old, files))
<1>1. PICK U : Less(files, ToSet(old)) \in Seq(U)
  BY LessKeeps
<1>. DEFINE more == Less(files, ToSet(old))
            all == old \o more
            n == Len(all)
<1>2. all \in Seq(S \cup U) /\ n \in Nat /\ MaxStash \in Nat \ {0}
  <2>1. old \in Seq(S \cup U) /\ more \in Seq(S \cup U)
    BY <1>1
  <2>. HIDE DEF more
  <2>. QED  BY <2>1
<1>3. \A i \in DOMAIN old : i \in DOMAIN all /\ all[i] = old[i]
  <2>1. old \in Seq(S \cup U) /\ more \in Seq(S \cup U)
    BY <1>1
  <2>. HIDE DEF more
  <2>2. /\ DOMAIN old = 1..Len(old) /\ DOMAIN all = 1..(Len(old) + Len(more))
        /\ Len(old) \in Nat /\ Len(more) \in Nat
    BY <2>1
  <2>3. \A i \in 1..Len(old) : all[i] = old[i]
    BY <2>1
  <2>. QED  BY <2>2, <2>3
<1>. HIDE DEF all
<1>4. Stashed(old, files) = SubSeq(all, 1 + IF n > MaxStash THEN n - MaxStash ELSE 0, n)
  BY DEF Stashed, all
<1>5. CASE n > MaxStash
  <2>1. Stashed(old, files) = SubSeq(all, 1 + (n - MaxStash), n)
    BY <1>4, <1>5
  <2>2. 1 + (n - MaxStash) \in 1..n /\ n - (1 + (n - MaxStash)) + 1 = MaxStash
    BY <1>2, <1>5
  <2>3. /\ SubSeq(all, 1 + (n - MaxStash), n) \in Seq(S \cup U)
        /\ Len(SubSeq(all, 1 + (n - MaxStash), n)) = MaxStash
    BY <1>2, <2>2
  <2>. QED  BY <2>1, <2>3
<1>6. CASE ~(n > MaxStash)
  <2>1. Stashed(old, files) = SubSeq(all, 1, n)
    BY <1>4, <1>6
  <2>2. SubSeq(all, 1, n) = all
    BY <1>2
  <2>. QED  BY <1>2, <1>3, <2>1, <2>2 DEF ToSet
<1>. QED  BY <1>5, <1>6

\* What FilesLeaveNamed says of a step, and a file it drops.
Leaves(s, f) ==
  \/ \E h \in Handlers :
       /\ \/ At(h, "sessionEnd")
          \/ At(h, "enrich") /\ f \in ToSet(handler[h].files)
       /\ handler[h].session = s /\ Return(h)
  \/ \E h \in Handlers, own \in SessionIds \cup {None} :
       Created(h, own) /\ SessionFrom(own) = s
  \/ Len(stash'[s]) = MaxStash

\* Hooks touch the stash of their own session, and as FilesLeaveNamed says.
LEMMA StashStep ==
  ASSUME TypeInv, StashType, Next
  PROVE  StashType' /\ \A s \in SessionIds : \A f \in ToSet(stash[s]) \ ToSet(stash'[s]) :
                         Leaves(s, f)
<1>. DEFINE Right == StashType' /\ \A s \in SessionIds :
                       \A f \in ToSet(stash[s]) \ ToSet(stash'[s]) : Leaves(s, f)
<1>. SUFFICES Right
  OBVIOUS
<1>1. CASE UNCHANGED stash
  BY <1>1 DEF StashType
<1>2. ASSUME NEW s \in SessionIds, NEW new, stash' = [stash EXCEPT ![s] = new],
             \E S : new \in Seq(S), \A f \in ToSet(stash[s]) \ ToSet(new) : Leaves(s, f)
      PROVE  Right
  <2>1. /\ DOMAIN stash' = SessionIds /\ stash'[s] = new
        /\ \A r \in SessionIds \ {s} : stash'[r] = stash[r]
    BY <1>2 DEF StashType
  <2>2. StashType'
    BY <1>2, <2>1 DEF StashType
  <2>. QED  BY <1>2, <2>1, <2>2
<1>3. ASSUME NEW s \in SessionIds, NEW files \in (UNION Range(FileLists)) \cup {<<>>}, Stash(s, files)
      PROVE  Right
  <2>1. PICK new : new = Stashed(stash[s], files)
    OBVIOUS
  <2>2. stash' = [stash EXCEPT ![s] = new] /\ stash'[s] = new
    BY <1>3, <2>1 DEF Stash, StashType
  <2>3. \E T : files \in Seq(T)
    <3>1. CASE files = <<>>
      BY <3>1, <<>> \in Seq({})
    <3>2. CASE files \in UNION Range(FileLists)
      BY <3>2, FilesAssumption
    <3>. QED  BY <3>1, <3>2
  <2>4. (\E U : new \in Seq(U)) /\ (Len(new) = MaxStash \/ ToSet(stash[s]) \subseteq ToSet(new))
    BY <2>1, <2>3, StashedKeeps DEF StashType
  <2>5. \A f \in ToSet(stash[s]) \ ToSet(new) : Leaves(s, f)
    BY <2>2, <2>4 DEF Leaves
  <2>. QED  BY <1>2, <2>2, <2>4, <2>5
<1>4. ASSUME NEW s \in SessionIds, stash' = [stash EXCEPT ![s] = <<>>],
             \/ \E h \in Handlers, own \in SessionIds \cup {None} :
                  Created(h, own) /\ SessionFrom(own) = s
             \/ \E h \in Handlers : At(h, "sessionEnd") /\ handler[h].session = s /\ Return(h)
      PROVE  Right
  <2>1. stash'[s] = <<>> /\ <<>> \in Seq({})
    BY <1>4 DEF StashType
  <2>2. \A f \in ToSet(stash[s]) \ ToSet(<<>>) : Leaves(s, f)
    BY <1>4, <2>1 DEF Leaves
  <2>. QED  BY <1>2, <1>4, <2>1, <2>2
<1>5. ASSUME NEW h \in Handlers, DropFiles(h) PROVE Right
  <2>1. PICK s \in SessionIds : s = handler[h].session
    BY <1>5 DEF DropFiles, At, TypeInv, HandlerType, Waits
  <2>2. PICK new : new = Less(stash[s], ToSet(handler[h].files))
    OBVIOUS
  <2>3. stash' = [stash EXCEPT ![s] = new] /\ At(h, "enrich") /\ Return(h)
    BY <1>5, <2>1, <2>2 DEF DropFiles, Rest
  <2>4. /\ \E T : new \in Seq(T)
        /\ \A f \in ToSet(stash[s]) \ ToSet(new) : f \in ToSet(handler[h].files)
    BY <2>2, LessKeeps DEF StashType
  <2>5. \A f \in ToSet(stash[s]) \ ToSet(new) : Leaves(s, f)
    BY <2>1, <2>3, <2>4 DEF Leaves
  <2>. QED  BY <1>2, <2>3, <2>4, <2>5
<1>6. PICK h \in Handlers :
        \/ Resume(h)
        \/ \E own \in SessionIds \cup {None} :
             \/ Created(h, own) \/ Deleted(h, own) \/ Compacting(h, own) \/ Transform(h, own)
             \/ \E files \in (UNION Range(FileLists)) \cup {<<>>} :
                  \/ Event(h, own, files)
                  \/ \E part \in Parts : PartUpdated(h, own, part, files)
  BY DEF Next
<1>7. CASE Finish(h) \/ RequestCompaction(h) \/ EndSession(h) \/ Throw(h) \/ AddContext(h)
  BY <1>1, <1>7 DEF Finish, RequestCompaction, EndSession, Throw, AddContext, maps
<1>8. CASE Forget(h)
  <2>1. PICK s \in SessionIds : s = handler[h].session
    BY <1>8 DEF Forget, At, TypeInv, HandlerType, Waits
  <2>2. stash' = [stash EXCEPT ![s] = <<>>] /\ At(h, "sessionEnd") /\ Return(h)
    BY <1>8, <2>1 DEF Forget, Prune
  <2>. QED  BY <1>4, <2>1, <2>2
<1>9. ASSUME NEW own \in SessionIds \cup {None}, Created(h, own) PROVE Right
  <2>1. PICK s \in SessionIds : s = SessionFrom(own)
    BY <1>9, SessionFound DEF Created
  <2>2. stash' = [stash EXCEPT ![s] = <<>>]
    BY <1>9, <2>1 DEF Created, Prune
  <2>. QED  BY <1>4, <1>9, <2>1, <2>2
<1>10. ASSUME NEW own, Deleted(h, own) \/ Compacting(h, own) \/ Transform(h, own) PROVE Right
  BY <1>1, <1>10 DEF Deleted, Compacting, Transform, maps
<1>11. ASSUME NEW own \in SessionIds \cup {None}, NEW part,
              NEW files \in (UNION Range(FileLists)) \cup {<<>>},
              Event(h, own, files) \/ PartUpdated(h, own, part, files)
       PROVE  Right
  <2>1. PICK s \in SessionIds : s = SessionFrom(own)
    BY <1>11, SessionFound DEF Event, PartUpdated
  <2>2. Stash(s, files)
    BY <1>11, <2>1 DEF Event, PartUpdated
  <2>. QED  BY <1>3, <2>2
<1>. HIDE DEF Right
<1>. QED  BY <1>5, <1>6, <1>7, <1>8, <1>9, <1>10, <1>11 DEF Resume

\* A file leaves the stash named, with its session, or for newer ones, however
\* the hooks overlap.
THEOREM FilesLeaveNamedHolds == Spec => FilesLeaveNamed
<1>. DEFINE Named == \A s \in SessionIds : \A f \in ToSet(stash[s]) \ ToSet(stash'[s]) :
                       Leaves(s, f)
<1>1. Init => StashType
  <2>1. <<>> \in Seq(Files)
    OBVIOUS
  <2>. QED  BY <2>1 DEF Init, StashType
<1>2. TypeInv /\ StashType /\ [Next]_vars => StashType' /\ [Named]_vars
  <2>1. CASE UNCHANGED vars
    BY <2>1 DEF vars, maps, StashType
  <2>. QED  BY <2>1, StashStep
<1>3. FilesLeaveNamed <=> [][Named]_vars
  BY DEF FilesLeaveNamed, Leaves
<1>. QED  BY <1>1, <1>2, <1>3, TypeInvHolds, PTL DEF Spec
=============================================================================
