----------------------------- MODULE Compaction -----------------------------
(***************************************************************************)
(* Agent-native compaction: a Stop hook (or OpenCode's /compact) may be    *)
(* answered with a prompt that makes the agent run a compactor subagent,   *)
(* which saves one summary and some memories over MCP.  The table          *)
(* compaction_attempts limits how often an agent is stopped from stopping. *)
(*                                                                         *)
(* requestCompaction is a sequence of separate store calls, and handlers   *)
(* of the same session run concurrently; each call is one step here.       *)
(***************************************************************************)
EXTENDS Sessions, Sequences, FiniteSets

CONSTANTS SessionIds,
          Project,           \* the cwd the clients send
          Handlers,          \* requests that may be in flight at once
          Mode,              \* opts.Compaction.Mode
          MinObservations, MaxBlockAttempts,
          AttemptTTL,        \* opts.Compaction.AttemptTTLSeconds
          MaxTime, MaxObservations, MaxMemories,
          MaxAttempts        \* bounds of the clock, the counters and the table

ASSUME CompactionAssumption ==
  /\ Mode \in {"subagent", "manual", "disabled"}
  /\ {MinObservations, MaxBlockAttempts, AttemptTTL} \subseteq Nat \ {0}
  /\ {MaxTime, MaxObservations, MaxMemories, MaxAttempts} \subseteq Nat
  /\ IsFiniteSet(Handlers)

VARIABLES now,       \* time.Now(); here it does not go back
          sessions,  \* table sessions
          memories,  \* per session: its memories created since it started
          attempts,  \* table compaction_attempts, in id order
          call,      \* the request each handler goroutine serves
          agent,     \* per session: does its agent still run?
          saved      \* history: what each handler's save statement has done,
                     \* and the attempts that there were by then

vars == <<now, sessions, memories, attempts, call, agent, saved>>

Times == 0..MaxTime
Statuses == {"requested", "skipped", "completed", "failed"}
Attempts == [session : SessionIds, status : Statuses, at : Times]
Idle == [pc |-> "idle"]
Unsaved == [outcome |-> "unsaved", attempts |-> 0]
StopSteps == {"ensure", "end", "session", "memories", "expire", "count",
              "request", "skip"}
Saves == {"saveSummary", "ensureForMemory"}
Steps == StopSteps \cup Saves \cup {"addMemory", "mark"}
\* active: stop_hook_active; late: the session had a summary on arrival.
Calls == {Idle} \cup [pc : Steps, session : SessionIds, ts : Times,
                      active : BOOLEAN, late : BOOLEAN]

TypeOK ==
  /\ now \in Times
  /\ DOMAIN sessions \subseteq SessionIds
  /\ sessions \in [DOMAIN sessions -> SessionRows({Project}, Times)]
  /\ memories \in [SessionIds -> Nat]
  /\ attempts \in Seq(Attempts)
  /\ call \in [Handlers -> Calls]
  /\ agent \in [SessionIds -> {"running", "stopped"}]
  /\ saved \in [Handlers -> [outcome : {"unsaved", "written", "unmatched"},
                            attempts : Nat]]

Init ==
  /\ now = 0
  /\ sessions = [s \in {} |-> s]
  /\ memories = [s \in SessionIds |-> 0]
  /\ attempts = <<>>
  /\ call = [h \in Handlers |-> Idle]
  /\ agent = [s \in SessionIds |-> "running"]
  /\ saved = [h \in Handlers |-> Unsaved]
------------------------------------------------------------------------------
HasSummary(s) == s \in DOMAIN sessions /\ sessions[s].summary

Goto(h, pc) == call' = [call EXCEPT ![h].pc = pc]

\* The handler answers: 204 (or compact: false) lets the agent stop, a
\* block decision (or compact: true) keeps it running.
Pass(h) == /\ call' = [call EXCEPT ![h] = Idle]
           /\ agent' = [agent EXCEPT ![call[h].session] = "stopped"]

Block(h) == call' = [call EXCEPT ![h] = Idle] /\ UNCHANGED agent

\* Mutant: WHERE without the status.
RequestedAnyStatus(s) == {i \in DOMAIN attempts : attempts[i].session = s}

\* The attempts that ExpireCompactionAttempts and
\* FreshRequestedCompactionAttempts select.
Requested(s) == {i \in DOMAIN attempts : /\ attempts[i].session = s
                                         /\ attempts[i].status = "requested"}
Fresh(s, cutoff) == {i \in Requested(s) : attempts[i].at >= cutoff}
Cutoff(h) == call[h].ts - AttemptTTL

InsertAttempt(h, status) ==
  attempts' = Append(attempts, [session |-> call[h].session,
                                status |-> status, at |-> call[h].ts])

\* claudeStop, opencodeCompact: the request is validated and stamped.
ReceiveStop(h, s, active) ==
  /\ call[h].pc = "idle"
  /\ agent[s] = "running"
  /\ call' = [call EXCEPT ![h] =
       [pc |-> "ensure", session |-> s, ts |-> now, active |-> active,
        late |-> HasSummary(s)]]
  /\ UNCHANGED <<now, sessions, memories, attempts, agent, saved>>

Ensure(h) ==
  /\ call[h].pc = "ensure"
  /\ sessions' = EnsureSession(sessions, call[h].session, Project, call[h].ts)
  /\ Goto(h, "end")
  /\ UNCHANGED <<now, memories, attempts, agent, saved>>

\* requestCompaction: EndSession, whatever is decided afterwards.
End(h) ==
  /\ call[h].pc = "end"
  /\ sessions' = EndSession(sessions, call[h].session, call[h].ts)
  /\ \/ /\ call[h].active \/ Mode # "subagent"
        /\ Pass(h)
     \/ /\ ~call[h].active /\ Mode = "subagent"
        /\ Goto(h, "session")
        /\ UNCHANGED agent
  /\ UNCHANGED <<now, memories, attempts, saved>>

\* Mutant: the summary is not looked at.
WorthCompactingAgain(s) == sessions[s].nObs >= MinObservations

\* SessionNeedsCompaction, first read: n_obs and summary.
WorthCompacting(s) ==
  sessions[s].nObs >= MinObservations /\ ~sessions[s].summary

\* Mutant: a session not worth compacting is answered with a block decision.
ReadSessionBlocks(h) ==
  /\ call[h].pc = "session"
  /\ \/ WorthCompacting(call[h].session) /\ Goto(h, "memories")
     \/ ~WorthCompacting(call[h].session) /\ call' = [call EXCEPT ![h] = Idle]
  /\ UNCHANGED <<now, sessions, memories, attempts, agent, saved>>

ReadSession(h) ==
  /\ call[h].pc = "session"
  /\ \/ /\ WorthCompacting(call[h].session)
        /\ Goto(h, "memories")
        /\ UNCHANGED agent
     \/ /\ ~WorthCompacting(call[h].session)
        /\ Pass(h)
  /\ UNCHANGED <<now, sessions, memories, attempts, saved>>

\* SessionNeedsCompaction, second read: memories saved since the session began.
ReadMemories(h) ==
  /\ call[h].pc = "memories"
  /\ \/ /\ memories[call[h].session] = 0
        /\ Goto(h, "expire")
        /\ UNCHANGED agent
     \/ /\ memories[call[h].session] > 0
        /\ Pass(h)
  /\ UNCHANGED <<now, sessions, memories, attempts, saved>>

ExpireAttempts(h) ==
  /\ call[h].pc = "expire"
  /\ attempts' = [i \in DOMAIN attempts |->
       IF i \in Requested(call[h].session) \ Fresh(call[h].session, Cutoff(h))
         THEN [attempts[i] EXCEPT !.status = "failed"] ELSE attempts[i]]
  /\ Goto(h, "count")
  /\ UNCHANGED <<now, sessions, memories, agent, saved>>

\* Mutant: attempts > max_block_attempts instead of >=.
MayRequestOneMore(h) ==
  Cardinality(Fresh(call[h].session, Cutoff(h))) <= MaxBlockAttempts

\* FreshRequestedCompactionAttempts, and the comparison with the limit.
MayRequest(h) ==
  Cardinality(Fresh(call[h].session, Cutoff(h))) < MaxBlockAttempts

CountAttempts(h) ==
  /\ call[h].pc = "count"
  /\ \/ MayRequest(h) /\ Goto(h, "request")
     \/ ~MayRequest(h) /\ Goto(h, "skip")
  /\ UNCHANGED <<now, sessions, memories, attempts, agent, saved>>

\* The prompt needs SessionCWDs, after the insertion; when that fails, the
\* hook sees an error and the agent stops.
InsertRequested(h) ==
  /\ call[h].pc = "request"
  /\ InsertAttempt(h, "requested")
  /\ Block(h) \/ Pass(h)
  /\ UNCHANGED <<now, sessions, memories, saved>>

InsertSkipped(h) ==
  /\ call[h].pc = "skip"
  /\ InsertAttempt(h, "skipped")
  /\ Pass(h)
  /\ UNCHANGED <<now, sessions, memories, saved>>
------------------------------------------------------------------------------
\* MarkCompactionCompleted: the newest requested attempt by time, then id.
Newest(ids) ==
  {i \in ids : \A j \in ids : \/ attempts[j].at < attempts[i].at
                              \/ attempts[j].at = attempts[i].at /\ j <= i}

MarkCompleted(s) ==
  attempts' = [i \in DOMAIN attempts |->
    IF i \in Newest(Requested(s))
      THEN [attempts[i] EXCEPT !.status = "completed"] ELSE attempts[i]]

\* The MCP tools of the subagent: memory_session_summary_save, and
\* memory_save with a session_id.  Any client may call them at any time; here
\* no more memories once compaction_attempts has reached its bound.
ReceiveSave(h, s, pc) ==
  /\ call[h].pc = "idle"
  /\ pc = "ensureForMemory"
       => memories[s] < MaxMemories /\ Len(attempts) < MaxAttempts
  /\ call' = [call EXCEPT ![h] = [pc |-> pc, session |-> s, ts |-> now,
                                  active |-> FALSE, late |-> FALSE]]
  /\ UNCHANGED <<now, sessions, memories, attempts, agent, saved>>

Saved(h, outcome) ==
  saved' = [saved EXCEPT ![h] = [outcome |-> outcome, attempts |-> Len(attempts)]]

\* The UPDATE of an unknown session's summary matches no row and succeeds.
SaveSummary(h) ==
  /\ call[h].pc = "saveSummary"
  /\ sessions' = SaveSessionSummary(sessions, call[h].session, call[h].ts)
  /\ Saved(h, IF call[h].session \in DOMAIN sessions THEN "written"
                                                     ELSE "unmatched")
  /\ Goto(h, "mark")
  /\ UNCHANGED <<now, memories, attempts, agent>>

\* Mutant: MarkCompactionCompleted before AddMemory.
EnsureForMemoryThenMark(h) ==
  /\ call[h].pc = "ensureForMemory"
  /\ sessions' = EnsureSession(sessions, call[h].session, Project, call[h].ts)
  /\ Goto(h, "mark")
  /\ UNCHANGED <<now, memories, attempts, agent, saved>>

EnsureForMemory(h) ==
  /\ call[h].pc = "ensureForMemory"
  /\ sessions' = EnsureSession(sessions, call[h].session, Project, call[h].ts)
  /\ Goto(h, "addMemory")
  /\ UNCHANGED <<now, memories, attempts, agent, saved>>

\* created_at is read after the session exists, so with a clock that does not
\* go back the memory counts as created since the session started.
AddMemory(h) ==
  /\ call[h].pc = "addMemory"
  /\ memories' = [memories EXCEPT ![call[h].session] = @ + 1]
  /\ Saved(h, "written")
  /\ Goto(h, "mark")
  /\ UNCHANGED <<now, sessions, attempts, agent>>

Mark(h) ==
  /\ call[h].pc = "mark"
  /\ MarkCompleted(call[h].session)
  /\ call' = [call EXCEPT ![h] = Idle]
  /\ saved' = [saved EXCEPT ![h] = Unsaved]
  /\ UNCHANGED <<now, sessions, memories, agent>>
------------------------------------------------------------------------------
\* A store call fails, the client hangs up or the daemon dies: what was
\* committed stays.  A failed hook does not keep an agent from stopping.
Fail(h) ==
  /\ call[h].pc # "idle"
  /\ \/ call[h].pc \in StopSteps /\ Pass(h)
     \/ call[h].pc \notin StopSteps /\ Block(h)
  /\ saved' = [saved EXCEPT ![h] = Unsaved]
  /\ UNCHANGED <<now, sessions, memories, attempts>>

\* InsertObservation of an event that is no duplicate (module Capture).
Observe(s) ==
  /\ s \in DOMAIN sessions => sessions[s].nObs < MaxObservations
  /\ sessions' = CountObservation(EnsureSession(sessions, s, Project, now), s)
  /\ UNCHANGED <<now, memories, attempts, call, agent, saved>>

\* memory_forget or decay deletes a memory of the session.
Forget(s) ==
  /\ memories[s] > 0
  /\ memories' = [memories EXCEPT ![s] = @ - 1]
  /\ UNCHANGED <<now, sessions, attempts, call, agent, saved>>

\* The user gives the agent something to do; no more of that when the table
\* has reached its bound.
Prompt(s) ==
  /\ agent[s] = "stopped"
  /\ Len(attempts) < MaxAttempts
  /\ agent' = [agent EXCEPT ![s] = "running"]
  /\ UNCHANGED <<now, sessions, memories, attempts, call, saved>>

\* The clock of the program does not stop at MaxTime: a property must not
\* rest on the last attempts staying fresh for ever (see AgentStops).
Tick == /\ now < MaxTime
        /\ now' = now + 1
        /\ UNCHANGED <<sessions, memories, attempts, call, agent, saved>>

Step(h) ==
  \/ Ensure(h) \/ End(h) \/ ReadSession(h) \/ ReadMemories(h)
  \/ ExpireAttempts(h) \/ CountAttempts(h) \/ InsertRequested(h)
  \/ InsertSkipped(h) \/ SaveSummary(h) \/ EnsureForMemory(h)
  \/ AddMemory(h) \/ Mark(h)

Next ==
  \/ Tick
  \/ \E s \in SessionIds :
       \/ Observe(s) \/ Forget(s) \/ Prompt(s)
       \/ \E h \in Handlers, active \in BOOLEAN : ReceiveStop(h, s, active)
       \/ \E h \in Handlers, pc \in Saves : ReceiveSave(h, s, pc)
  \/ \E h \in Handlers : Step(h) \/ Fail(h)

Spec == Init /\ [][Next]_vars
------------------------------------------------------------------------------
\* Attempts that a Stop arriving now would count.
FreshNow(s) == Fresh(s, now - AttemptTTL)

\* Handlers that have decided to request compaction and have not yet said so.
Pending(s) == {h \in Handlers : call[h].pc = "request" /\ call[h].session = s}

\* requestCompaction counts and inserts in two calls.  Handlers that counted
\* before one of them inserted may together exceed the limit, but by no more
\* than one for each handler but the first.
BlocksBounded ==
  \A s \in SessionIds :
    Cardinality(FreshNow(s)) < MaxBlockAttempts + Cardinality(Handlers)

\* The inductive form: attempts and decisions not yet written count together,
\* and no handler's timestamp, from which it takes its cutoff, is ahead.
BlocksInv ==
  /\ \A h \in Handlers : call[h].pc # "idle" => call[h].ts <= now
  /\ \A s \in SessionIds :
       Cardinality(FreshNow(s)) + Cardinality(Pending(s))
         < MaxBlockAttempts + Cardinality(Handlers)

\* The limit as documented: a session is not asked again while
\* max_block_attempts of its attempts are fresh.
HardStop == \A s \in SessionIds : Cardinality(FreshNow(s)) <= MaxBlockAttempts

\* compaction_attempts is a log: rows stay, only a requested one changes,
\* once, and it fails only when its time to live is over.
AttemptsSettleOnce ==
  [][\A i \in DOMAIN attempts :
       /\ i \in DOMAIN attempts'
       /\ attempts'[i].session = attempts[i].session
       /\ attempts'[i].at = attempts[i].at
       /\ attempts'[i].status # attempts[i].status
            => /\ attempts[i].status = "requested"
               /\ attempts'[i].status \in {"completed", "failed"}
               /\ attempts'[i].status = "failed"
                    => now - attempts[i].at > AttemptTTL]_vars

\* An attempt that becomes completed is completed by a request of its session
\* that has saved, whatever fails or runs in between: its save statement has
\* written a row, but for a summary's that came before both the session's row and
\* the attempt, and so matched none.
CompletedBySave ==
  [][\A i \in DOMAIN attempts :
       attempts[i].status # "completed" /\ attempts'[i].status = "completed"
         => \E h \in Handlers :
              /\ call[h].pc = "mark" /\ call[h].session = attempts[i].session
              /\ \/ saved[h].outcome = "written"
                 \/ saved[h].outcome = "unmatched" /\ i > saved[h].attempts]_vars

\* A Stop that arrives when the session has its summary is never answered
\* with a request, whatever else runs at the same time.
LateStopPasses == \A h \in Handlers : call[h].pc = "request" => ~call[h].late

\* net/http keeps a goroutine per request, so every call proceeds; the client
\* of a blocked agent asks again as long as the agent runs, and is served in
\* the end.  It sends stop_hook_active = FALSE, the worst case.
Fairness ==
  /\ \A h \in Handlers : WF_vars(Step(h))
  /\ \A s \in SessionIds :
       SF_vars(\E h \in Handlers : ReceiveStop(h, s, FALSE))

LiveSpec == Spec /\ Fairness

\* An agent that ignores every request to compact, so that no save ever
\* completes one, gets to stop before the time to live of an attempt has
\* passed: at any time t, it does so or the clock gets beyond t + AttemptTTL.
\* Every counterexample ends within the clock bound.  With the clock going on
\* the code promises no more: expiry lets the agent be asked again, once in
\* each time to live.
AgentStops ==
  \A s \in SessionIds, t \in Times :
    agent[s] = "running" /\ now = t
      ~> \/ agent[s] = "stopped"
         \/ now > t + AttemptTTL
         \/ \E i \in DOMAIN attempts : /\ attempts[i].session = s
                                       /\ attempts[i].status = "completed"
=============================================================================
