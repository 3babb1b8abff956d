--------------------------- MODULE OpenCodePlugin ---------------------------
(***************************************************************************)
(* opencode/plugin/mcb.ts.  OpenCode calls the plugin's hooks; JavaScript  *)
(* runs one at a time, but each gives way at every await of a post to the  *)
(* daemon, and the hooks called meanwhile see and change the same maps.    *)
(*                                                                         *)
(* A handler that waits is at the pc named for its request.  A post that   *)
(* gets no answer, or an error, is dropped with a warning: the await       *)
(* yields undefined, and the handler goes on as after a success, so the    *)
(* two are one step here.  An answer that breaks off ends the handler.     *)
(***************************************************************************)
EXTENDS Integers, SequencesExt

CONSTANTS SessionIds,
          Parts,      \* ids of tool calls and subtasks
          FileLists,  \* what extractFiles may find in the events of each session
          Handlers,   \* hooks that may be waiting at once
          MaxStash,   \* maxStashedFiles
          MaxEnrich,  \* files named in one enrich request
          MaxThrows,  \* bound on the answers that break off
          None

Files == UNION {ToSet(list) : list \in UNION Range(FileLists)}

ASSUME PluginAssumption ==
  /\ {MaxStash, MaxEnrich} \subseteq Nat \ {0} /\ MaxThrows \in Nat
  /\ IsFiniteSet(Handlers) /\ None \notin SessionIds

ASSUME FilesAssumption == UNION Range(FileLists) \subseteq Seq(Files)

VARIABLES active,    \* activeSessionID
          stash,     \* stashedFiles: a Set keeps the order of insertion
          injected,  \* contextInjectedSessions
          seen,      \* seenToolCalls and seenSubtasks
          handler,   \* what each hook waits for
          thrown,    \* history: how many hooks have ended with an error
          observed,  \* history: observations of a part since the last prune
          pushed     \* history: instructions pushed since the last prune

maps == <<active, stash, injected, seen>>
history == <<thrown, observed, pushed>>
vars == <<maps, handler, history>>

Idle == [pc |-> "idle"]
LastPost == [pc |-> "post"]         \* nothing is left to do after it
Compaction == [pc |-> "compacting"] \* the request to compact is

TypeOK ==
  /\ active \in SessionIds \cup {None}
  /\ \A s \in SessionIds : /\ stash[s] \in Seq(Files) /\ IsInjective(stash[s])
                           /\ Len(stash[s]) <= MaxStash
  /\ injected \subseteq SessionIds
  /\ seen \in [SessionIds -> SUBSET Parts]
  /\ \A h \in Handlers :
       \/ handler[h] \in {Idle, LastPost, Compaction}
       \/ /\ handler[h].pc \in {"deleted", "sessionEnd", "context", "enrich"}
          /\ handler[h].session \in SessionIds
          /\ handler[h].files \in Seq(Files)
  /\ observed \in [SessionIds -> [Parts -> Nat]]
  /\ pushed \in [SessionIds -> Nat]
  /\ thrown \in 0..MaxThrows

Init ==
  /\ active = None
  /\ stash = [s \in SessionIds |-> <<>>]
  /\ injected = {}
  /\ seen = [s \in SessionIds |-> {}]
  /\ handler = [h \in Handlers |-> Idle]
  /\ observed = [s \in SessionIds |-> [p \in Parts |-> 0]]
  /\ pushed = [s \in SessionIds |-> 0]
  /\ thrown = 0
------------------------------------------------------------------------------
\* sessionIDFrom: an event without an id at its top level is taken to be the
\* active session's.
SessionFrom(own) == IF own # None THEN own ELSE active

Free(h) == handler[h] = Idle
At(h, pc) == handler[h].pc = pc
Await(h, wait) == handler' = [handler EXCEPT ![h] = wait]
Wait(pc, s) == [pc |-> pc, session |-> s, files |-> <<>>]
Return(h) == Await(h, Idle)

\* pruneSession.
Prune(s) ==
  /\ stash' = [stash EXCEPT ![s] = <<>>]
  /\ injected' = injected \ {s}
  /\ seen' = [seen EXCEPT ![s] = {}]
  /\ observed' = [observed EXCEPT ![s] = [p \in Parts |-> 0]]
  /\ pushed' = [pushed EXCEPT ![s] = 0]
  /\ UNCHANGED thrown

\* A list without some of its members, in its order.
Less(list, gone) ==
  LET left == {i \in DOMAIN list : list[i] \notin gone}
      nth(n) == CHOOSE i \in left : Cardinality({j \in left : j <= i}) = n
  IN [n \in 1..Cardinality(left) |-> list[nth(n)]]

\* stashFiles: a file that is there keeps its place; the oldest give way.
Stashed(old, files) ==
  LET all == old \o Less(files, ToSet(old))
  IN SubSeq(all, 1 + IF Len(all) > MaxStash THEN Len(all) - MaxStash ELSE 0,
            Len(all))

MayHold(s, files) == files \in FileLists[s] \cup {<<>>}

Stash(s, files) == stash' = [stash EXCEPT ![s] = Stashed(@, files)]

\* session.created.
Created(h, own) ==
  LET s == SessionFrom(own)
  IN /\ Free(h) /\ s # None
     /\ active' = s
     /\ Prune(s)
     /\ Await(h, LastPost)

\* session.status, updated and error, the message, permission, todo and command
\* events, all others, parts without an id, chat.params and config: one
\* observation each, and the files of the event when it has any.
Event(h, own, files) ==
  LET s == SessionFrom(own)
  IN /\ Free(h) /\ s # None /\ MayHold(s, files)
     /\ Stash(s, files)
     /\ Await(h, LastPost)
     /\ UNCHANGED <<active, injected, seen, history>>

\* Mutant: remembered for the active session.
RememberActive(s, p) ==
  seen' = IF active = None THEN seen ELSE [seen EXCEPT ![active] = @ \cup {p}]

Remember(s, p) == seen' = [seen EXCEPT ![s] = @ \cup {p}]

\* handlePart of a subtask, or of a tool call that is completed or has failed,
\* with the files of its input: observed the first time it is seen.
PartUpdated(h, own, part, files) ==
  LET s == SessionFrom(own)
  IN /\ Free(h) /\ s # None /\ MayHold(s, files) /\ part \notin seen[s]
     /\ Remember(s, part)
     /\ Stash(s, files)
     /\ observed' = [observed EXCEPT ![s][part] = @ + 1]
     /\ Await(h, LastPost)
     /\ UNCHANGED <<active, injected, pushed, thrown>>

\* session.compacted: an observation, then a request to compact.
\* experimental.session.compacting: the context, then that request.
Compacting(h, own) ==
  LET s == SessionFrom(own)
  IN /\ Free(h) /\ s # None
     /\ Await(h, Compaction)
     /\ UNCHANGED <<maps, history>>

RequestCompaction(h) ==
  /\ At(h, "compacting")
  /\ Await(h, LastPost)
  /\ UNCHANGED <<maps, history>>

\* The last post of a handler that has nothing else to do.
Finish(h) ==
  /\ At(h, "post")
  /\ Return(h)
  /\ UNCHANGED <<maps, history>>

\* The body of an answer breaks off or is no JSON: response.text() or JSON.parse
\* throws, and what follows the await is not done.
Throw(h) ==
  /\ handler[h].pc \in {"compacting", "deleted", "sessionEnd", "context", "enrich"}
  /\ thrown < MaxThrows
  /\ thrown' = thrown + 1
  /\ Return(h)
  /\ UNCHANGED <<maps, observed, pushed>>

\* session.deleted: two posts, and only then the maps.
Deleted(h, own) ==
  LET s == SessionFrom(own)
  IN /\ Free(h) /\ s # None
     /\ Await(h, Wait("deleted", s))
     /\ UNCHANGED <<maps, history>>

EndSession(h) ==
  /\ At(h, "deleted")
  /\ Await(h, Wait("sessionEnd", handler[h].session))
  /\ UNCHANGED <<maps, history>>

\* Mutant: no session is active after a deletion.
ActiveAfterAny(s) == None

ActiveAfter(s) == IF s = active THEN None ELSE active

Forget(h) ==
  LET s == handler[h].session
  IN /\ At(h, "sessionEnd")
     /\ active' = ActiveAfter(s)
     /\ Prune(s)
     /\ Return(h)
------------------------------------------------------------------------------
\* Mutant: the newest files first.
NextFilesNewest(s) ==
  LET n == Len(stash[s])
  IN SubSeq(stash[s], 1 + IF n > MaxEnrich THEN n - MaxEnrich ELSE 0, n)

NextFiles(s) ==
  SubSeq(stash[s], 1, IF Len(stash[s]) < MaxEnrich THEN Len(stash[s])
                                                   ELSE MaxEnrich)

\* The second half of experimental.chat.system.transform.
Enrich(h, s) ==
  IF stash[s] = <<>>
    THEN Return(h)
    ELSE Await(h, [Wait("enrich", s) EXCEPT !.files = NextFiles(s)])

\* experimental.chat.system.transform: the first time with the instructions,
\* and with the context when the daemon has answered.
Transform(h, own) ==
  LET s == SessionFrom(own)
  IN /\ Free(h) /\ s # None
     /\ \/ /\ s \notin injected
           /\ pushed' = [pushed EXCEPT ![s] = @ + 1]
           /\ Await(h, Wait("context", s))
        \/ /\ s \in injected /\ stash[s] # <<>>
           /\ Enrich(h, s)
           /\ UNCHANGED pushed
     /\ UNCHANGED <<maps, observed, thrown>>

\* Mutant: only when the context is not empty.
InjectAnswered(s) == injected' \in {injected, injected \cup {s}}

Inject(s) == injected' = injected \cup {s}

AddContext(h) ==
  LET s == handler[h].session
  IN /\ At(h, "context")
     /\ Inject(s)
     /\ Enrich(h, s)
     /\ UNCHANGED <<active, stash, seen, history>>

\* Mutant: stashedFiles.delete(sid).
RestNothing(s, files) == <<>>

\* The files named go, those stashed again in the meantime too.
Rest(s, files) == Less(stash[s], ToSet(files))

DropFiles(h) ==
  LET s == handler[h].session
  IN /\ At(h, "enrich")
     /\ stash' = [stash EXCEPT ![s] = Rest(s, handler[h].files)]
     /\ Return(h)
     /\ UNCHANGED <<active, injected, seen, history>>

\* An await ends.
Resume(h) == \/ Finish(h) \/ RequestCompaction(h) \/ EndSession(h)
             \/ Forget(h) \/ AddContext(h) \/ DropFiles(h) \/ Throw(h)

Next ==
  \E h \in Handlers :
    \/ Resume(h)
    \/ \E own \in SessionIds \cup {None} :
         \/ Created(h, own) \/ Deleted(h, own)
         \/ Compacting(h, own) \/ Transform(h, own)
         \/ \E files \in (UNION Range(FileLists)) \cup {<<>>} :
              \/ Event(h, own, files)
              \/ \E part \in Parts : PartUpdated(h, own, part, files)

Spec == Init /\ [][Next]_vars
------------------------------------------------------------------------------
\* handlePart: OpenCode updates a part many times, and the posts of several
\* updates wait at once; a tool call or subtask is observed at most once
\* between two prunes of its session.
ObservedOnce ==
  \A s \in SessionIds, p \in Parts : observed[s][p] <= 1

\* The flag is set after the await: hooks that overlap each push the
\* instructions, but no more often than there are hooks waiting at once, and
\* once more for each that has thrown.
InstructionsBounded ==
  \A s \in SessionIds : pushed[s] <= Cardinality(Handlers) + thrown

\* However the creation of a session overlaps with the slow deletion of another,
\* events without an id go on to the session created last, until its own
\* deletion has been handled.
ActiveKept ==
  [][active' # active =>
       \E h \in Handlers :
         \/ \E s \in SessionIds : Created(h, s)
         \/ Forget(h) /\ handler[h].session = active]_vars

\* A stashed file is only given up after an enrich request that named it, with
\* its session when that is created anew or deleted, or to MaxStash others: what
\* is stashed while a request is under way is kept for the next.
FilesLeaveNamed ==
  [][\A s \in SessionIds : \A f \in ToSet(stash[s]) \ ToSet(stash'[s]) :
       \/ \E h \in Handlers :
            /\ \/ At(h, "sessionEnd")
               \/ At(h, "enrich") /\ f \in ToSet(handler[h].files)
            /\ handler[h].session = s /\ Return(h)
       \/ \E h \in Handlers, own \in SessionIds \cup {None} :
            Created(h, own) /\ SessionFrom(own) = s
       \/ Len(stash'[s]) = MaxStash]_vars

\* The daemon answers or the connection fails, in mid-answer only now and then,
\* and the user goes on chatting in session s, so OpenCode transforms its system
\* prompt again and again.
Chatting(s) == /\ \A h \in Handlers : WF_vars(Resume(h))
               /\ SF_vars(\E h \in Handlers : Transform(h, s))

\* Files are named oldest first: no file stays in the stash for ever, whatever
\* is stashed after it.
FileIsNamed(s, f) == Contains(stash[s], f) ~> ~Contains(stash[s], f)
=============================================================================
