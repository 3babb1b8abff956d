-------------------------- MODULE CompactionProofs --------------------------
(***************************************************************************)
(* Proofs about Compaction for every number of handlers and sessions and   *)
(* every configuration of the limits.                                      *)
(***************************************************************************)
EXTENDS Compaction, SessionsProofs, FiniteSetTheorems

USE DEF Times

\* The assumptions, one by one.
LEMMA Limits ==
  /\ MinObservations \in Nat \ {0} /\ MaxBlockAttempts \in Nat \ {0}
  /\ AttemptTTL \in Nat \ {0} /\ MaxTime \in Nat
  /\ IsFiniteSet(Handlers)
  BY CompactionAssumption

ActiveCalls == [pc : Steps, session : SessionIds, ts : Times,
                active : BOOLEAN, late : BOOLEAN]

SaveTypes == [outcome : {"unsaved", "written", "unmatched"}, attempts : Nat]

\* The history of saves keeps its type.
LEMMA SavedType ==
  ASSUME TypeOK, NEW h \in Handlers
  PROVE  /\ \A outcome \in {"written", "unmatched"} :
              Saved(h, outcome) => saved' \in [Handlers -> SaveTypes]
         /\ [saved EXCEPT ![h] = Unsaved] \in [Handlers -> SaveTypes]
<1>1. Len(attempts) \in Nat /\ saved \in [Handlers -> SaveTypes]
  BY DEF TypeOK, SaveTypes
<1>. QED  BY <1>1 DEF Saved, Unsaved, SaveTypes

\* A handler that is not idle carries a complete request.
LEMMA CallType ==
  ASSUME TypeOK, NEW h \in Handlers, call[h].pc # "idle"
  PROVE  /\ call[h] \in ActiveCalls
         /\ call[h].session \in SessionIds
         /\ call[h].ts \in Times
  BY DEF TypeOK, Calls, ActiveCalls, Idle

\* A handler that goes on to another step keeps its type.
LEMMA GotoType ==
  ASSUME TypeOK, NEW h \in Handlers, call[h].pc # "idle", NEW pc \in Steps,
         Goto(h, pc)
  PROVE  call' \in [Handlers -> Calls]
<1>1. [call[h] EXCEPT !.pc = pc] \in ActiveCalls
  BY CallType DEF ActiveCalls
<1>2. call' = [call EXCEPT ![h] = [call[h] EXCEPT !.pc = pc]]
  BY DEF Goto, TypeOK
<1>. QED  BY <1>1, <1>2 DEF ActiveCalls, Calls, TypeOK

\* An answer ends a handler and keeps its type.
LEMMA AnswerType ==
  ASSUME TypeOK, NEW h \in Handlers, call[h].pc # "idle", Pass(h) \/ Block(h)
  PROVE  /\ call' \in [Handlers -> Calls]
         /\ agent' \in [SessionIds -> {"running", "stopped"}]
  BY CallType DEF Pass, Block, TypeOK, Calls

\* Changing statuses keeps the table a sequence of attempts of the same length.
LEMMA StatusChangeType ==
  ASSUME TypeOK, NEW ids, NEW status \in Statuses
  PROVE  [i \in DOMAIN attempts |->
            IF i \in ids THEN [attempts[i] EXCEPT !.status = status]
                         ELSE attempts[i]] \in Seq(Attempts)
<1>. DEFINE n == Len(attempts)
            f == [i \in DOMAIN attempts |->
                    IF i \in ids THEN [attempts[i] EXCEPT !.status = status]
                                 ELSE attempts[i]]
<1>1. DOMAIN attempts = 1..n /\ n \in Nat
  BY DEF TypeOK
<1>2. \A i \in 1..n : attempts[i] \in Attempts
  BY <1>1 DEF TypeOK
<1>3. \A i \in 1..n : /\ attempts[i] \in Attempts
                      /\ [attempts[i] EXCEPT !.status = status] \in Attempts
  BY <1>2 DEF Attempts
<1>4. f \in [1..n -> Attempts]
  BY <1>1, <1>3
<1>. QED  BY <1>1, <1>4

\* The statements of this module on sessions keep the table well typed.
LEMMA SessionsType ==
  ASSUME TypeOK, NEW s \in SessionIds, NEW ts \in Times
  PROVE  LET T(table) == IsTable(table, SessionIds, {Project}, Times)
         IN /\ T(EnsureSession(sessions, s, Project, ts))
            /\ T(EndSession(sessions, s, ts))
            /\ T(SaveSessionSummary(sessions, s, ts))
            /\ T(CountObservation(EnsureSession(sessions, s, Project, ts), s))
<1>1. IsTable(sessions, SessionIds, {Project}, Times)
  BY DEF TypeOK, IsTable
<1>2. IsTable(EnsureSession(sessions, s, Project, ts), SessionIds, {Project}, Times)
  BY <1>1, EnsureSessionType
<1>. QED  BY <1>1, <1>2, EndSessionType, SaveSessionSummaryType,
             CountObservationType

\* Every step keeps the types.
LEMMA TypeStays ==
  ASSUME TypeOK, [Next]_vars
  PROVE  TypeOK'
<1>1. CASE Tick
  <2>1. now' \in Times
    BY <1>1, Limits DEF Tick, TypeOK
  <2>. QED  BY <1>1, <2>1 DEF Tick, TypeOK
<1>2. ASSUME NEW s \in SessionIds, Observe(s) PROVE TypeOK'
  BY <1>2, SessionsType DEF Observe, TypeOK, IsTable
<1>3. ASSUME NEW s \in SessionIds, Forget(s) \/ Prompt(s) PROVE TypeOK'
  <2>1. CASE Forget(s)
    <3>1. memories[s] \in Nat /\ memories[s] - 1 \in Nat
      BY <2>1 DEF Forget, TypeOK
    <3>. QED  BY <2>1, <3>1 DEF Forget, TypeOK
  <2>2. CASE Prompt(s)
    BY <2>2 DEF Prompt, TypeOK
  <2>. QED  BY <1>3, <2>1, <2>2
<1>4. ASSUME NEW s \in SessionIds, NEW h \in Handlers, NEW active \in BOOLEAN,
             ReceiveStop(h, s, active)
      PROVE  TypeOK'
  <2>. DEFINE new == [pc |-> "ensure", session |-> s, ts |-> now,
                      active |-> active, late |-> HasSummary(s)]
  <2>1. HasSummary(s) \in BOOLEAN
    BY DEF HasSummary, TypeOK, SessionRows
  <2>2. new \in Calls
    BY <2>1 DEF TypeOK, Calls, Steps, StopSteps
  <2>. QED  BY <1>4, <2>2 DEF ReceiveStop, TypeOK
<1>5. ASSUME NEW s \in SessionIds, NEW h \in Handlers, NEW pc \in Saves,
             ReceiveSave(h, s, pc)
      PROVE  TypeOK'
  BY <1>5 DEF ReceiveSave, TypeOK, Calls, Steps, Saves
<1>6. ASSUME NEW h \in Handlers, Step(h) \/ Fail(h) PROVE TypeOK'
  <2>1. CASE Ensure(h) \/ EnsureForMemory(h)
    <3>1. PICK s \in SessionIds, ts \in Times :
            call[h].session = s /\ call[h].ts = ts
      BY <2>1, CallType DEF Ensure, EnsureForMemory
    <3>2. call' \in [Handlers -> Calls]
      BY <2>1, GotoType
         DEF Ensure, EnsureForMemory, Steps, StopSteps, Saves
    <3>. QED  BY <2>1, <3>1, <3>2, SessionsType
              DEF Ensure, EnsureForMemory, TypeOK, IsTable
  <2>2. CASE End(h)
    <3>1. call[h].session \in SessionIds /\ call[h].ts \in Times
      BY <2>2, CallType DEF End
    <3>2. /\ call' \in [Handlers -> Calls]
          /\ agent' \in [SessionIds -> {"running", "stopped"}]
      BY <2>2, GotoType, AnswerType DEF End, Steps, StopSteps, TypeOK
    <3>. QED  BY <2>2, <3>1, <3>2, SessionsType DEF End, TypeOK, IsTable
  <2>3. CASE ReadSession(h) \/ ReadMemories(h) \/ CountAttempts(h)
    <3>1. /\ call' \in [Handlers -> Calls]
          /\ agent' \in [SessionIds -> {"running", "stopped"}]
      BY <2>3, GotoType, AnswerType
         DEF ReadSession, ReadMemories, CountAttempts, Steps, StopSteps, TypeOK
    <3>. QED  BY <2>3, <3>1 DEF ReadSession, ReadMemories, CountAttempts, TypeOK
  <2>4. CASE ExpireAttempts(h) \/ Mark(h)
    <3>1. call' \in [Handlers -> Calls]
      BY <2>4, GotoType DEF ExpireAttempts, Mark, Steps, StopSteps, TypeOK, Calls
    <3>2. attempts' \in Seq(Attempts)
      <4>1. CASE ExpireAttempts(h)
        <5>. DEFINE ids == Requested(call[h].session)
                             \ Fresh(call[h].session, Cutoff(h))
        <5>1. attempts' = [i \in DOMAIN attempts |->
                IF i \in ids THEN [attempts[i] EXCEPT !.status = "failed"]
                             ELSE attempts[i]]
          BY <4>1 DEF ExpireAttempts
        <5>. HIDE DEF ids
        <5>. QED  BY <5>1, StatusChangeType DEF Statuses
      <4>2. CASE Mark(h)
        <5>. DEFINE ids == Newest(Requested(call[h].session))
        <5>1. attempts' = [i \in DOMAIN attempts |->
                IF i \in ids THEN [attempts[i] EXCEPT !.status = "completed"]
                             ELSE attempts[i]]
          BY <4>2 DEF Mark, MarkCompleted
        <5>. HIDE DEF ids
        <5>. QED  BY <5>1, StatusChangeType DEF Statuses
      <4>. QED  BY <2>4, <4>1, <4>2
    <3>3. saved' \in [Handlers -> SaveTypes]
      <4>1. CASE ExpireAttempts(h)
        BY <4>1 DEF ExpireAttempts, TypeOK, SaveTypes
      <4>2. CASE Mark(h)
        <5>1. saved' = [saved EXCEPT ![h] = Unsaved]
          BY <4>2 DEF Mark
        <5>. QED  BY <5>1, SavedType
      <4>. QED  BY <2>4, <4>1, <4>2
    <3>. QED  BY <2>4, <3>1, <3>2, <3>3 DEF ExpireAttempts, Mark, TypeOK, SaveTypes
  <2>5. CASE InsertRequested(h) \/ InsertSkipped(h)
    <3>1. /\ call' \in [Handlers -> Calls]
          /\ agent' \in [SessionIds -> {"running", "stopped"}]
      BY <2>5, AnswerType DEF InsertRequested, InsertSkipped
    <3>2. attempts' \in Seq(Attempts)
      <4>1. PICK status \in Statuses : InsertAttempt(h, status)
        BY <2>5 DEF InsertRequested, InsertSkipped, Statuses
      <4>2. [session |-> call[h].session, status |-> status, at |-> call[h].ts]
              \in Attempts
        BY <2>5, CallType DEF InsertRequested, InsertSkipped, Attempts
      <4>. QED  BY <4>1, <4>2 DEF InsertAttempt, TypeOK
    <3>. QED  BY <2>5, <3>1, <3>2 DEF InsertRequested, InsertSkipped, TypeOK
  <2>6. CASE SaveSummary(h)
    <3>1. call[h].session \in SessionIds /\ call[h].ts \in Times
      BY <2>6, CallType DEF SaveSummary
    <3>2. call' \in [Handlers -> Calls]
      BY <2>6, GotoType DEF SaveSummary, Steps
    <3>3. saved' \in [Handlers -> SaveTypes]
      BY <2>6, SavedType DEF SaveSummary
    <3>4. IsTable(sessions', SessionIds, {Project}, Times)
      BY <2>6, <3>1, SessionsType DEF SaveSummary
    <3>. QED  BY <2>6, <3>2, <3>3, <3>4 DEF SaveSummary, TypeOK, IsTable, SaveTypes
  <2>7. CASE AddMemory(h)
    <3>1. call[h].session \in SessionIds
      BY <2>7, CallType DEF AddMemory
    <3>2. call' \in [Handlers -> Calls]
      BY <2>7, GotoType DEF AddMemory, Steps
    <3>3. saved' \in [Handlers -> SaveTypes]
      BY <2>7, SavedType DEF AddMemory
    <3>4. memories' \in [SessionIds -> Nat]
      BY <2>7, <3>1 DEF AddMemory, TypeOK
    <3>. QED  BY <2>7, <3>2, <3>3, <3>4 DEF AddMemory, TypeOK, SaveTypes
  <2>8. CASE Fail(h)
    BY <2>8, AnswerType, SavedType DEF Fail, TypeOK, SaveTypes
  <2>. QED  BY <1>6, <2>1, <2>2, <2>3, <2>4, <2>5, <2>6, <2>7, <2>8 DEF Step
<1>7. CASE UNCHANGED vars
  BY <1>7 DEF vars, TypeOK
<1>. QED  BY <1>1, <1>2, <1>3, <1>4, <1>5, <1>6, <1>7 DEF Next

\* Every variable of Compaction keeps its type.
THEOREM TypeCorrect == Spec => []TypeOK
<1>1. Init => TypeOK
  BY Limits DEF Init, TypeOK, Calls, Idle, Unsaved
<1>2. TypeOK /\ [Next]_vars => TypeOK'
  BY TypeStays
<1>. QED  BY <1>1, <1>2, PTL DEF Spec
------------------------------------------------------------------------------
\* The two sets that BlocksInv counts are finite.
LEMMA CountsFinite ==
  ASSUME TypeOK, NEW s, NEW c
  PROVE  /\ IsFiniteSet(Fresh(s, c)) /\ Cardinality(Fresh(s, c)) \in Nat
         /\ IsFiniteSet(Pending(s)) /\ Cardinality(Pending(s)) \in Nat
         /\ Cardinality(Pending(s)) <= Cardinality(Handlers)
         /\ Cardinality(Handlers) \in Nat
<1>1. DOMAIN attempts = 1..Len(attempts) /\ Len(attempts) \in Nat
  BY DEF TypeOK
<1>2. IsFiniteSet(1..Len(attempts))
  BY <1>1, FS_Interval
<1>3. IsFiniteSet(Fresh(s, c))
  BY <1>1, <1>2, FS_Subset DEF Fresh, Requested
<1>4. IsFiniteSet(Pending(s)) /\ Cardinality(Pending(s)) <= Cardinality(Handlers)
  BY Limits, FS_Subset DEF Pending
<1>. QED  BY <1>3, <1>4, Limits, FS_CardinalityType

\* Room is left for session s.
Room(s) == Cardinality(FreshNow(s)) + Cardinality(Pending(s))
             < MaxBlockAttempts + Cardinality(Handlers)

\* A step that adds neither a fresh attempt nor a decision leaves the room.
LEMMA RoomShrinks ==
  ASSUME TypeOK, NEW s \in SessionIds, Room(s),
         FreshNow(s)' \subseteq FreshNow(s), Pending(s)' \subseteq Pending(s)
  PROVE  Room(s)'
<1>1. /\ Cardinality(FreshNow(s)') \in Nat
      /\ Cardinality(FreshNow(s)') <= Cardinality(FreshNow(s))
  BY CountsFinite, FS_Subset, FS_CardinalityType DEF FreshNow
<1>2. /\ Cardinality(Pending(s)') \in Nat
      /\ Cardinality(Pending(s)') <= Cardinality(Pending(s))
  BY CountsFinite, FS_Subset, FS_CardinalityType
<1>3. /\ Cardinality(FreshNow(s)) \in Nat /\ Cardinality(Pending(s)) \in Nat
      /\ Cardinality(Handlers) \in Nat
  BY CountsFinite DEF FreshNow
<1>. QED  BY <1>1, <1>2, <1>3, Limits DEF Room

\* The decision: the handler's cutoff is not later than the current one, so
\* what it counted includes every attempt that is fresh now.
LEMMA DecisionKeepsRoom ==
  ASSUME TypeOK, BlocksInv, NEW h \in Handlers, CountAttempts(h), MayRequest(h),
         NEW s \in SessionIds, s = call[h].session
  PROVE  Room(s)'
<1>1. call[h].pc = "count"
  BY DEF CountAttempts
<1>2. call[h].ts \in Int /\ now \in Int /\ call[h].ts <= now
  <2>1. call[h].ts \in Times /\ now \in Times
    BY <1>1, CallType DEF TypeOK
  <2>2. call[h].ts <= now
    BY <1>1 DEF BlocksInv
  <2>. QED  BY <2>1, <2>2, Limits
<1>3. FreshNow(s) \subseteq Fresh(s, Cutoff(h))
  <2>1. \A i \in DOMAIN attempts : attempts[i].at \in Int
    <3>1. \A i \in DOMAIN attempts : attempts[i] \in Attempts
      BY DEF TypeOK
    <3>. QED  BY <3>1, Limits DEF Attempts
  <2>. QED  BY <1>2, <2>1, Limits DEF FreshNow, Fresh, Requested, Cutoff
<1>4. Cardinality(FreshNow(s)) < MaxBlockAttempts
  <2>1. Cardinality(FreshNow(s)) <= Cardinality(Fresh(s, Cutoff(h)))
    BY <1>3, CountsFinite, FS_Subset
  <2>2. Cardinality(FreshNow(s)) \in Nat /\ Cardinality(Fresh(s, Cutoff(h))) \in Nat
    BY CountsFinite DEF FreshNow
  <2>. QED  BY <2>1, <2>2, Limits DEF MayRequest
<1>5. FreshNow(s)' = FreshNow(s)
  BY DEF CountAttempts, FreshNow, Fresh, Requested
<1>6. /\ Cardinality(Pending(s)') <= Cardinality(Handlers)
      /\ Cardinality(Pending(s)') \in Nat /\ Cardinality(Handlers) \in Nat
  BY Limits, FS_Subset, FS_CardinalityType DEF Pending
<1>7. Cardinality(FreshNow(s)) \in Nat
  BY CountsFinite DEF FreshNow
<1>. QED  BY <1>4, <1>5, <1>6, <1>7, Limits DEF Room

\* The decision turns into a row: one fewer pending, one more fresh.
LEMMA InsertKeepsRoom ==
  ASSUME TypeOK, NEW h \in Handlers, InsertRequested(h),
         NEW s \in SessionIds, s = call[h].session, Room(s)
  PROVE  Room(s)'
<1>. DEFINE n == Len(attempts) + 1
            row == [session |-> call[h].session, status |-> "requested",
                    at |-> call[h].ts]
<1>1. /\ row \in Attempts /\ attempts \in Seq(Attempts) /\ now' = now
      /\ attempts' = Append(attempts, row) /\ call' = [call EXCEPT ![h] = Idle]
      /\ call \in [Handlers -> Calls] /\ call[h].pc = "request"
  BY CallType
     DEF InsertRequested, InsertAttempt, Block, Pass, TypeOK, Attempts, Statuses
<1>2. /\ DOMAIN attempts' = DOMAIN attempts \cup {n}
      /\ \A i \in DOMAIN attempts : attempts'[i] = attempts[i]
  BY <1>1
<1>3. FreshNow(s)' \subseteq FreshNow(s) \cup {n}
  BY <1>1, <1>2 DEF FreshNow, Fresh, Requested
<1>4. /\ IsFiniteSet(FreshNow(s)) /\ Cardinality(FreshNow(s)) \in Nat
      /\ IsFiniteSet(Pending(s)) /\ Cardinality(Pending(s)) \in Nat
      /\ Cardinality(Handlers) \in Nat
  BY CountsFinite DEF FreshNow
<1>5. /\ Cardinality(FreshNow(s)') \in Nat
      /\ Cardinality(FreshNow(s)') <= Cardinality(FreshNow(s)) + 1
  <2>1. /\ IsFiniteSet(FreshNow(s) \cup {n})
        /\ Cardinality(FreshNow(s) \cup {n}) <= Cardinality(FreshNow(s)) + 1
        /\ Cardinality(FreshNow(s) \cup {n}) \in Nat
    <3>. DEFINE F == FreshNow(s)
    <3>1. IsFiniteSet(F) /\ Cardinality(F) \in Nat
      BY <1>4
    <3>. HIDE DEF F
    <3>2. /\ IsFiniteSet(F \cup {n})
          /\ Cardinality(F \cup {n}) = Cardinality(F)
               \/ Cardinality(F \cup {n}) = Cardinality(F) + 1
      BY <3>1, FS_AddElement
    <3>. QED  BY <3>1, <3>2 DEF F
  <2>. QED  BY <1>3, <1>4, <2>1, FS_Subset, FS_CardinalityType
<1>6. Pending(s)' = Pending(s) \ {h} /\ h \in Pending(s)
  BY <1>1 DEF Pending, Idle
<1>7. Cardinality(Pending(s)') = Cardinality(Pending(s)) - 1
  BY <1>4, <1>6, FS_RemoveElement
<1>. QED  BY <1>4, <1>5, <1>7, Limits DEF Room

\* A step that is neither the decision nor the insertion of a request can only
\* take attempts out of the fresh ones and decisions out of the pending ones.
LEMMA OthersShrink ==
  ASSUME TypeOK, [Next]_vars, NEW s \in SessionIds,
         \A h \in Handlers : InsertRequested(h) => s # call[h].session,
         \A h \in Handlers : CountAttempts(h) /\ MayRequest(h)
                               => s # call[h].session
  PROVE  /\ FreshNow(s)' \subseteq FreshNow(s)
         /\ Pending(s)' \subseteq Pending(s)
<1>1. \A i \in DOMAIN attempts : attempts[i] \in Attempts /\ attempts[i].at \in Int
  <2>1. \A i \in DOMAIN attempts : attempts[i] \in Attempts
    BY DEF TypeOK
  <2>. QED  BY <2>1, Limits DEF Attempts
<1>2. now \in Int /\ AttemptTTL \in Int /\ call \in [Handlers -> Calls]
  BY Limits DEF TypeOK
<1>3. CASE UNCHANGED <<now, attempts, call>>
  BY <1>3 DEF FreshNow, Fresh, Requested, Pending
<1>4. CASE Tick
  BY <1>1, <1>2, <1>4 DEF Tick, FreshNow, Fresh, Requested, Pending
<1>5. ASSUME NEW h \in Handlers, NEW pc \in Steps \ {"request"}, Goto(h, pc),
             UNCHANGED <<now, attempts>>
      PROVE  /\ FreshNow(s)' \subseteq FreshNow(s)
             /\ Pending(s)' \subseteq Pending(s)
  BY <1>2, <1>5 DEF Goto, FreshNow, Fresh, Requested, Pending
<1>6. ASSUME NEW h \in Handlers, Pass(h) \/ Block(h), UNCHANGED <<now, attempts>>
      PROVE  /\ FreshNow(s)' \subseteq FreshNow(s)
             /\ Pending(s)' \subseteq Pending(s)
  BY <1>2, <1>6 DEF Pass, Block, Idle, FreshNow, Fresh, Requested, Pending
<1>7. ASSUME NEW t \in SessionIds, NEW h \in Handlers,
             \/ \E active \in BOOLEAN : ReceiveStop(h, t, active)
             \/ \E pc \in Saves : ReceiveSave(h, t, pc)
      PROVE  /\ FreshNow(s)' \subseteq FreshNow(s)
             /\ Pending(s)' \subseteq Pending(s)
  BY <1>2, <1>7
     DEF ReceiveStop, ReceiveSave, Saves, FreshNow, Fresh, Requested, Pending
<1>8. ASSUME NEW h \in Handlers, ExpireAttempts(h) \/ Mark(h)
      PROVE  /\ FreshNow(s)' \subseteq FreshNow(s)
             /\ Pending(s)' \subseteq Pending(s)
  <2>1. /\ DOMAIN attempts' = DOMAIN attempts /\ now' = now
        /\ \A i \in DOMAIN attempts :
             \/ attempts'[i] = attempts[i]
             \/ attempts'[i] \in {[attempts[i] EXCEPT !.status = "failed"],
                                 [attempts[i] EXCEPT !.status = "completed"]}
    BY <1>8 DEF ExpireAttempts, Mark, MarkCompleted
  <2>2. \A i \in DOMAIN attempts :
          \/ attempts'[i] = attempts[i]
          \/ attempts'[i].status # "requested"
    BY <1>1, <2>1 DEF Attempts
  <2>3. FreshNow(s)' \subseteq FreshNow(s)
    BY <2>1, <2>2 DEF FreshNow, Fresh, Requested
  <2>4. Pending(s)' \subseteq Pending(s)
    <3>1. CASE ExpireAttempts(h)
      BY <1>2, <3>1 DEF ExpireAttempts, Goto, Pending
    <3>2. CASE Mark(h)
      BY <1>2, <3>2 DEF Mark, Idle, Pending
    <3>. QED  BY <1>8, <3>1, <3>2
  <2>. QED  BY <2>3, <2>4
<1>9. ASSUME NEW h \in Handlers, InsertRequested(h) \/ InsertSkipped(h)
      PROVE  /\ FreshNow(s)' \subseteq FreshNow(s)
             /\ Pending(s)' \subseteq Pending(s)
  <2>1. \E row : /\ attempts' = Append(attempts, row) /\ now' = now
                 /\ row.session # s \/ row.status # "requested"
    BY <1>9 DEF InsertRequested, InsertSkipped, InsertAttempt
  <2>2. FreshNow(s)' \subseteq FreshNow(s)
    <3>1. PICK row : /\ attempts' = Append(attempts, row) /\ now' = now
                     /\ row.session # s \/ row.status # "requested"
      BY <2>1
    <3>2. /\ DOMAIN attempts' = DOMAIN attempts \cup {Len(attempts) + 1}
          /\ attempts'[Len(attempts) + 1] = row
          /\ \A i \in DOMAIN attempts : attempts'[i] = attempts[i]
      BY <3>1 DEF TypeOK
    <3>. QED  BY <3>1, <3>2 DEF FreshNow, Fresh, Requested
  <2>3. Pending(s)' \subseteq Pending(s)
    BY <1>2, <1>9 DEF InsertRequested, InsertSkipped, Pass, Block, Idle, Pending
  <2>. QED  BY <2>2, <2>3
<1>10. ASSUME NEW h \in Handlers, CountAttempts(h)
       PROVE  /\ FreshNow(s)' \subseteq FreshNow(s)
              /\ Pending(s)' \subseteq Pending(s)
  <2>1. FreshNow(s)' \subseteq FreshNow(s)
    BY <1>10 DEF CountAttempts, FreshNow, Fresh, Requested
  <2>2. CASE MayRequest(h)
    <3>1. s # call[h].session
      BY <1>10, <2>2
    <3>2. \A g \in Handlers : \/ call'[g] = call[g]
                             \/ call'[g].session # s
      <4>1. call[h] \in ActiveCalls
        BY <1>10, CallType DEF CountAttempts
      <4>2. PICK pc \in {"request", "skip"} : Goto(h, pc)
        BY <1>10 DEF CountAttempts
      <4>. QED  BY <1>2, <3>1, <4>1, <4>2 DEF Goto, ActiveCalls
    <3>3. Pending(s)' \subseteq Pending(s)
      BY <3>2 DEF Pending
    <3>. QED  BY <2>1, <3>3
  <2>3. CASE ~MayRequest(h)
    <3>1. Goto(h, "skip") /\ UNCHANGED <<now, attempts>> /\ "skip" \in Steps
      BY <1>10, <2>3 DEF CountAttempts, Steps, StopSteps
    <3>. QED  BY <1>5, <3>1
  <2>. QED  BY <2>2, <2>3
<1>11. ASSUME NEW h \in Handlers, Step(h) \/ Fail(h)
       PROVE  /\ FreshNow(s)' \subseteq FreshNow(s)
              /\ Pending(s)' \subseteq Pending(s)
  <2>1. CASE Ensure(h) \/ End(h) \/ ReadSession(h) \/ ReadMemories(h)
             \/ SaveSummary(h) \/ EnsureForMemory(h) \/ AddMemory(h) \/ Fail(h)
    <3>1. /\ UNCHANGED <<now, attempts>>
          /\ \/ \E pc \in Steps \ {"request"} : Goto(h, pc)
             \/ Pass(h) \/ Block(h)
      BY <2>1 DEF Ensure, End, ReadSession, ReadMemories, SaveSummary,
                  EnsureForMemory, AddMemory, Fail, Steps, StopSteps, Saves
    <3>. QED  BY <1>5, <1>6, <3>1
  <2>. QED  BY <1>8, <1>9, <1>10, <1>11, <2>1 DEF Step
<1>12. CASE \E t \in SessionIds : Observe(t) \/ Forget(t) \/ Prompt(t)
  BY <1>3, <1>12 DEF Observe, Forget, Prompt
<1>. QED  BY <1>3, <1>4, <1>7, <1>11, <1>12 DEF Next, vars

\* BlocksInv is inductive.
LEMMA BlocksInvHolds == Spec => []BlocksInv
<1>1. Init => BlocksInv
  <2>. SUFFICES ASSUME Init PROVE BlocksInv
    OBVIOUS
  <2>1. \A s \in SessionIds : FreshNow(s) = {} /\ Pending(s) = {}
    BY DEF Init, FreshNow, Fresh, Requested, Pending, Idle
  <2>2. Cardinality({}) = 0 /\ Cardinality(Handlers) \in Nat
    BY Limits, FS_EmptySet, FS_CardinalityType
  <2>3. \A h \in Handlers : call[h].pc = "idle"
    BY DEF Init, Idle
  <2>. QED  BY <2>1, <2>2, <2>3, Limits DEF BlocksInv
<1>2. TypeOK /\ TypeOK' /\ BlocksInv /\ [Next]_vars => BlocksInv'
  <2>. SUFFICES ASSUME TypeOK, TypeOK', BlocksInv, [Next]_vars PROVE BlocksInv'
    OBVIOUS
  <2>1. ASSUME NEW h \in Handlers, call'[h].pc # "idle"
        PROVE  call'[h].ts <= now'
    <3>1. now' \in Int /\ now \in Int /\ now <= now'
      BY Limits DEF TypeOK, Next, vars, Tick, Observe, Forget, Prompt,
           ReceiveStop, ReceiveSave, Step, Ensure, End, ReadSession,
           ReadMemories, ExpireAttempts, CountAttempts, InsertRequested,
           InsertSkipped, SaveSummary, EnsureForMemory, AddMemory, Mark, Fail
    <3>2. \/ call'[h].ts = now
          \/ call[h].pc # "idle" /\ call'[h].ts = call[h].ts
      <4>1. call \in [Handlers -> Calls]
        BY DEF TypeOK
      <4>2. CASE call' = call
        BY <2>1, <4>2
      <4>3. ASSUME NEW g \in Handlers, call[g].pc # "idle",
                   \/ \E pc \in Steps : Goto(g, pc)
                   \/ call' = [call EXCEPT ![g] = Idle]
            PROVE  call[h].pc # "idle" /\ call'[h].ts = call[h].ts
        <5>1. call[g] \in ActiveCalls
          BY <4>3, CallType
        <5>. QED  BY <2>1, <4>1, <4>3, <5>1 DEF Goto, Idle, ActiveCalls
      <4>4. ASSUME NEW g \in Handlers, NEW t \in SessionIds,
                   \/ \E active \in BOOLEAN : ReceiveStop(g, t, active)
                   \/ \E pc \in Saves : ReceiveSave(g, t, pc)
            PROVE  \/ call'[h].ts = now
                   \/ call[h].pc # "idle" /\ call'[h].ts = call[h].ts
        BY <2>1, <4>1, <4>4 DEF ReceiveStop, ReceiveSave
      <4>5. ASSUME NEW g \in Handlers, Step(g) \/ Fail(g)
            PROVE  /\ call[g].pc # "idle"
                   /\ \/ \E pc \in Steps : Goto(g, pc)
                      \/ call' = [call EXCEPT ![g] = Idle]
        BY <4>5
           DEF Step, Fail, Pass, Block, Ensure, End, ReadSession, ReadMemories,
               ExpireAttempts, CountAttempts, InsertRequested, InsertSkipped,
               SaveSummary, EnsureForMemory, AddMemory, Mark, Steps, StopSteps,
               Saves
      <4>. QED  BY <4>2, <4>3, <4>4, <4>5
                DEF Next, vars, Tick, Observe, Forget, Prompt
    <3>3. call[h].pc # "idle" => call[h].ts \in Int /\ call[h].ts <= now
      BY CallType, Limits DEF BlocksInv
    <3>. QED  BY <3>1, <3>2, <3>3
  <2>2. ASSUME NEW s \in SessionIds PROVE Room(s)'
    <3>1. Room(s)
      BY DEF Room, BlocksInv
    <3>2. CASE \E h \in Handlers : InsertRequested(h) /\ s = call[h].session
      BY <3>1, <3>2, InsertKeepsRoom
    <3>3. CASE \E h \in Handlers : /\ CountAttempts(h) /\ MayRequest(h)
                                   /\ s = call[h].session
      BY <3>3, DecisionKeepsRoom
    <3>4. CASE /\ \A h \in Handlers : InsertRequested(h) => s # call[h].session
               /\ \A h \in Handlers : CountAttempts(h) /\ MayRequest(h)
                                      => s # call[h].session
      BY <3>1, <3>4, OthersShrink, RoomShrinks
    <3>. QED  BY <3>2, <3>3, <3>4
  <2>. QED  BY <2>1, <2>2 DEF BlocksInv, Room
<1>. QED  BY <1>1, <1>2, TypeCorrect, PTL DEF Spec

\* Concurrent Stop handlers overrun the limit by at most one attempt for each
\* handler after the first: BlocksInv implies the bound.
THEOREM BlocksBoundedHolds == Spec => []BlocksBounded
<1>1. TypeOK /\ BlocksInv => BlocksBounded
  <2>. SUFFICES ASSUME TypeOK, BlocksInv, NEW s \in SessionIds
                PROVE  Cardinality(FreshNow(s))
                         < MaxBlockAttempts + Cardinality(Handlers)
    BY DEF BlocksBounded
  <2>1. /\ Cardinality(FreshNow(s)) \in Nat /\ Cardinality(Pending(s)) \in Nat
        /\ Cardinality(Handlers) \in Nat
    BY CountsFinite DEF FreshNow
  <2>. QED  BY <2>1, Limits DEF BlocksInv
<1>. QED  BY <1>1, BlocksInvHolds, TypeCorrect, PTL
------------------------------------------------------------------------------
\* Every step of a handler moves its own request on or ends it.
LEMMA StepMoves ==
  ASSUME TypeOK, NEW g \in Handlers, Step(g) \/ Fail(g)
  PROVE  /\ call[g] \in ActiveCalls
         /\ \/ \E pc \in Steps : Goto(g, pc)
            \/ call' = [call EXCEPT ![g] = Idle]
<1>1. /\ call[g].pc # "idle"
      /\ \/ \E pc \in Steps : Goto(g, pc)
         \/ call' = [call EXCEPT ![g] = Idle]
  BY DEF Step, Fail, Pass, Block, Ensure, End, ReadSession, ReadMemories,
         ExpireAttempts, CountAttempts, InsertRequested, InsertSkipped,
         SaveSummary, EnsureForMemory, AddMemory, Mark, Steps, StopSteps, Saves
<1>. QED  BY <1>1, CallType

\* No statement of this module takes a session's summary away.
LEMMA SummaryStays ==
  ASSUME TypeOK, [Next]_vars, NEW s \in SessionIds, HasSummary(s)
  PROVE  HasSummary(s)'
<1>. USE DEF HasSummary
<1>1. CASE sessions' = sessions
  BY <1>1
<1>2. ASSUME NEW t, NEW ts,
             \/ sessions' = EnsureSession(sessions, t, Project, ts)
             \/ sessions' = CountObservation(
                              EnsureSession(sessions, t, Project, ts), t)
             \/ sessions' = EndSession(sessions, t, ts)
             \/ sessions' = SaveSessionSummary(sessions, t, ts)
      PROVE  HasSummary(s)'
  <2>1. /\ s \in DOMAIN sessions
        /\ sessions[s] \in SessionRows({Project}, Times)
        /\ sessions[s].summary
    BY DEF TypeOK
  <2>2. CASE sessions' = EnsureSession(sessions, t, Project, ts)
    BY <2>1, <2>2 DEF EnsureSession, Put
  <2>3. CASE sessions' = CountObservation(
                           EnsureSession(sessions, t, Project, ts), t)
    <3>. DEFINE E == EnsureSession(sessions, t, Project, ts)
    <3>1. s \in DOMAIN E /\ E[s] = sessions[s]
      BY <2>1 DEF EnsureSession, Put
    <3>. HIDE DEF E
    <3>2. s \in DOMAIN sessions' /\ sessions'[s].summary = E[s].summary
      BY <2>1, <2>3, <3>1 DEF CountObservation, UpdateSession, Put, SessionRows, E
    <3>. QED  BY <2>1, <3>1, <3>2
  <2>4. CASE sessions' = EndSession(sessions, t, ts)
    BY <2>1, <2>4 DEF EndSession, UpdateSession, Put, SessionRows
  <2>5. CASE sessions' = SaveSessionSummary(sessions, t, ts)
    BY <2>1, <2>5 DEF SaveSessionSummary, UpdateSession, Put, SessionRows
  <2>. QED  BY <1>2, <2>2, <2>3, <2>4, <2>5
<1>3. ASSUME NEW h \in Handlers, Step(h) \/ Fail(h) PROVE HasSummary(s)'
  BY <1>1, <1>2, <1>3
     DEF Step, Fail, Ensure, End, ReadSession, ReadMemories, ExpireAttempts,
         CountAttempts, InsertRequested, InsertSkipped, SaveSummary,
         EnsureForMemory, AddMemory, Mark
<1>4. CASE \E t \in SessionIds : Observe(t)
  BY <1>2, <1>4 DEF Observe
<1>. QED  BY <1>1, <1>3, <1>4
          DEF Next, vars, Tick, Forget, Prompt, ReceiveStop, ReceiveSave

\* A request that arrived late finds the summary and gets past no read.
LateInv ==
  \A h \in Handlers :
    call[h].pc # "idle" /\ call[h].late
      => /\ HasSummary(call[h].session)
         /\ call[h].pc \notin {"memories", "expire", "count", "request"}

\* A Stop that arrives after the summary was saved is let pass.
THEOREM LateStopPassesHolds == Spec => []LateStopPasses
<1>1. Init => LateInv
  BY DEF Init, LateInv, Idle
<1>2. TypeOK /\ LateInv /\ [Next]_vars => LateInv'
  <2>. SUFFICES ASSUME TypeOK, LateInv, [Next]_vars, NEW h \in Handlers,
                       call'[h].pc # "idle", call'[h].late
                PROVE  /\ HasSummary(call[h].session)'
                       /\ call'[h].pc \notin
                            {"memories", "expire", "count", "request"}
    BY DEF LateInv
  <2>1. call \in [Handlers -> Calls]
    BY DEF TypeOK
  <2>2. CASE call'[h] = call[h]
    <3>1. PICK s \in SessionIds : s = call[h].session
      BY <2>2, CallType
    <3>2. HasSummary(s)'
      BY <2>2, <3>1, SummaryStays DEF LateInv
    <3>. QED  BY <2>2, <3>1, <3>2 DEF LateInv
  <2>3. ASSUME NEW t \in SessionIds, NEW active \in BOOLEAN,
               ReceiveStop(h, t, active)
        PROVE  /\ HasSummary(call[h].session)'
               /\ call'[h].pc \notin {"memories", "expire", "count", "request"}
    <3>1. call'[h] = [pc |-> "ensure", session |-> t, ts |-> now,
                      active |-> active, late |-> HasSummary(t)]
      BY <2>1, <2>3 DEF ReceiveStop
    <3>2. HasSummary(t)
      BY <3>1
    <3>3. HasSummary(t)'
      BY <3>2, SummaryStays
    <3>. QED  BY <3>1, <3>3
  <2>4. ASSUME NEW t \in SessionIds, NEW pc \in Saves, ReceiveSave(h, t, pc)
        PROVE  FALSE
    BY <2>1, <2>4 DEF ReceiveSave
  <2>5. CASE Step(h) \/ Fail(h)
    <3>1. call[h] \in ActiveCalls
      BY <2>5, StepMoves
    <3>2. PICK s \in SessionIds : s = call[h].session
      BY <3>1 DEF ActiveCalls
    <3>3. PICK pc \in Steps : Goto(h, pc)
      BY <2>1, <2>5, StepMoves DEF Idle
    <3>4. call'[h].session = s /\ call'[h].pc = pc /\ call[h].late
      BY <2>1, <3>1, <3>2, <3>3 DEF Goto, ActiveCalls
    <3>5. /\ HasSummary(s)
          /\ call[h].pc \notin {"memories", "expire", "count", "request"}
      BY <3>1, <3>2, <3>4
         DEF LateInv, ActiveCalls, Steps, StopSteps, Saves
    <3>6. HasSummary(s)'
      BY <3>5, SummaryStays
    <3>7. pc \notin {"memories", "expire", "count", "request"}
      <4>1. ~WorthCompacting(s)
        BY <3>5 DEF WorthCompacting, HasSummary
      <4>2. Step(h)
        BY <2>1, <2>5, <3>1, <3>3, <3>4 DEF Fail, Pass, Block, Idle
      <4>3. ~ReadSession(h)
        BY <2>1, <3>2, <3>4, <4>1 DEF ReadSession, Pass, Idle, Steps
      <4>4. ~ReadMemories(h) /\ ~ExpireAttempts(h) /\ ~CountAttempts(h)
        BY <3>5 DEF ReadMemories, ExpireAttempts, CountAttempts
      <4>5. CASE Ensure(h) \/ End(h) \/ EnsureForMemory(h) \/ SaveSummary(h)
                 \/ AddMemory(h)
        <5>1. PICK q \in {"end", "session", "addMemory", "mark"} : Goto(h, q)
          BY <2>1, <3>4, <4>5
             DEF Ensure, End, EnsureForMemory, SaveSummary, AddMemory, Pass, Idle
        <5>. QED  BY <2>1, <3>1, <3>4, <5>1 DEF Goto, ActiveCalls
      <4>6. CASE InsertRequested(h) \/ InsertSkipped(h) \/ Mark(h)
        BY <2>1, <3>4, <4>6
           DEF InsertRequested, InsertSkipped, Mark, Pass, Block, Idle
      <4>. QED  BY <4>2, <4>3, <4>4, <4>5, <4>6 DEF Step
    <3>. QED  BY <3>4, <3>6, <3>7
  <2>6. ASSUME NEW g \in Handlers, g # h, Step(g) \/ Fail(g)
        PROVE  call'[h] = call[h]
    BY <2>1, <2>6, StepMoves DEF Goto
  <2>7. ASSUME NEW g \in Handlers, g # h, NEW t \in SessionIds,
               \/ \E active \in BOOLEAN : ReceiveStop(g, t, active)
               \/ \E pc \in Saves : ReceiveSave(g, t, pc)
        PROVE  call'[h] = call[h]
    BY <2>1, <2>7 DEF ReceiveStop, ReceiveSave
  <2>. QED  BY <2>2, <2>3, <2>4, <2>5, <2>6, <2>7
            DEF Next, vars, Tick, Observe, Forget, Prompt
<1>3. TypeOK /\ LateInv => LateStopPasses
  BY DEF LateInv, LateStopPasses, TypeOK, Calls, Idle
<1>. QED  BY <1>1, <1>2, <1>3, TypeCorrect, PTL DEF Spec
------------------------------------------------------------------------------
\* What a step may do to compaction_attempts: nothing, settle some requested
\* rows of one handler's session with one status, or add a row at the end.
Expires(h) ==
  \A i \in DOMAIN attempts :
    \/ attempts'[i] = attempts[i]
    \/ /\ attempts[i].status = "requested"
       /\ attempts[i].at < Cutoff(h)
       /\ attempts'[i] = [attempts[i] EXCEPT !.status = "failed"]

Completes(h) ==
  \A i \in DOMAIN attempts :
    \/ attempts'[i] = attempts[i]
    \/ /\ attempts[i].status = "requested"
       /\ attempts[i].session = call[h].session
       /\ attempts'[i] = [attempts[i] EXCEPT !.status = "completed"]

\* Which handlers write to the attempts, and how.
LEMMA AttemptsChange ==
  ASSUME TypeOK, [Next]_vars
  PROVE  \/ attempts' = attempts
         \/ \E h \in Handlers :
              \/ call[h].pc = "expire" /\ DOMAIN attempts' = DOMAIN attempts
                   /\ Expires(h)
              \/ call[h].pc = "mark" /\ DOMAIN attempts' = DOMAIN attempts
                   /\ Completes(h)
              \/ call[h].pc \in {"request", "skip"}
                   /\ \E row \in Attempts : /\ row.status # "completed"
                                            /\ row.session = call[h].session
                                            /\ attempts' = Append(attempts, row)
<1>. DEFINE Goal ==
       \E h \in Handlers :
         \/ call[h].pc = "expire" /\ DOMAIN attempts' = DOMAIN attempts
              /\ Expires(h)
         \/ call[h].pc = "mark" /\ DOMAIN attempts' = DOMAIN attempts
              /\ Completes(h)
         \/ call[h].pc \in {"request", "skip"}
              /\ \E row \in Attempts : /\ row.status # "completed"
                                       /\ row.session = call[h].session
                                       /\ attempts' = Append(attempts, row)
<1>1. \A i \in DOMAIN attempts : attempts[i] \in Attempts /\ attempts[i].at \in Int
  <2>1. \A i \in DOMAIN attempts : attempts[i] \in Attempts
    BY DEF TypeOK
  <2>. QED  BY <2>1, Limits DEF Attempts
<1>2. ASSUME NEW h \in Handlers, ExpireAttempts(h) PROVE Goal
  <2>1. Cutoff(h) \in Int
    BY <1>2, CallType, Limits DEF ExpireAttempts, Cutoff
  <2>2. call[h].pc = "expire" /\ DOMAIN attempts' = DOMAIN attempts
    BY <1>2 DEF ExpireAttempts
  <2>3. Expires(h)
    BY <1>1, <1>2, <2>1 DEF ExpireAttempts, Expires, Requested, Fresh
  <2>. QED  BY <2>2, <2>3
<1>3. ASSUME NEW h \in Handlers, Mark(h) PROVE Goal
  <2>1. call[h].pc = "mark" /\ DOMAIN attempts' = DOMAIN attempts
    BY <1>3 DEF Mark, MarkCompleted
  <2>2. Completes(h)
    BY <1>3 DEF Mark, MarkCompleted, Completes, Requested, Newest
  <2>. QED  BY <2>1, <2>2
<1>4. ASSUME NEW h \in Handlers, InsertRequested(h) \/ InsertSkipped(h)
      PROVE  Goal
  <2>1. PICK status \in {"requested", "skipped"} :
          /\ attempts' = Append(attempts, [session |-> call[h].session,
                                   status |-> status, at |-> call[h].ts])
          /\ call[h].pc \in {"request", "skip"}
    BY <1>4 DEF InsertRequested, InsertSkipped, InsertAttempt
  <2>2. call[h].session \in SessionIds /\ call[h].ts \in Times
    BY <2>1, CallType
  <2>. DEFINE row == [session |-> call[h].session, status |-> status,
                      at |-> call[h].ts]
  <2>3. row \in Attempts /\ row.status # "completed"
    BY <2>2 DEF Attempts, Statuses
  <2>. QED  BY <2>1, <2>3
<1>5. ASSUME NEW h \in Handlers, Step(h) \/ Fail(h)
      PROVE  attempts' = attempts \/ Goal
  <2>1. CASE ExpireAttempts(h) \/ Mark(h) \/ InsertRequested(h) \/ InsertSkipped(h)
    BY <1>2, <1>3, <1>4, <2>1
  <2>2. CASE \/ Ensure(h) \/ End(h) \/ ReadSession(h) \/ ReadMemories(h)
             \/ CountAttempts(h) \/ SaveSummary(h) \/ EnsureForMemory(h)
             \/ AddMemory(h) \/ Fail(h)
    BY <2>2 DEF Ensure, End, ReadSession, ReadMemories, CountAttempts,
                SaveSummary, EnsureForMemory, AddMemory, Fail
  <2>. QED  BY <1>5, <2>1, <2>2 DEF Step
<1>. HIDE DEF Goal
<1>6. attempts' = attempts \/ Goal
  BY <1>5
     DEF Next, vars, Tick, Observe, Forget, Prompt, ReceiveStop, ReceiveSave
<1>. QED  BY <1>6 DEF Goal

\* Rows of compaction_attempts stay, and change only from requested to
\* completed, or to failed once they are too old to count.
THEOREM AttemptsSettleOnceHolds == Spec => AttemptsSettleOnce
<1>. DEFINE Settles ==
       \A i \in DOMAIN attempts :
         /\ i \in DOMAIN attempts'
         /\ attempts'[i].session = attempts[i].session
         /\ attempts'[i].at = attempts[i].at
         /\ attempts'[i].status # attempts[i].status
              => /\ attempts[i].status = "requested"
                 /\ attempts'[i].status \in {"completed", "failed"}
                 /\ attempts'[i].status = "failed"
                      => now - attempts[i].at > AttemptTTL
<1>1. TypeOK /\ BlocksInv /\ [Next]_vars => Settles
  <2>. SUFFICES ASSUME TypeOK, BlocksInv, [Next]_vars, NEW i \in DOMAIN attempts
                PROVE  /\ i \in DOMAIN attempts'
                       /\ attempts'[i].session = attempts[i].session
                       /\ attempts'[i].at = attempts[i].at
                       /\ attempts'[i].status # attempts[i].status
                            => /\ attempts[i].status = "requested"
                               /\ attempts'[i].status \in {"completed", "failed"}
                               /\ attempts'[i].status = "failed"
                                    => now - attempts[i].at > AttemptTTL
    OBVIOUS
  <2>1. attempts[i] \in Attempts
    BY DEF TypeOK
  <2>2. attempts[i].at \in Int /\ now \in Int
    BY <2>1, Limits DEF Attempts, TypeOK
  <2>3. CASE attempts' = attempts
    BY <2>3
  <2>4. ASSUME NEW h \in Handlers, call[h].pc = "expire",
               DOMAIN attempts' = DOMAIN attempts, Expires(h),
               attempts'[i] # attempts[i]
        PROVE  /\ attempts[i].status = "requested"
               /\ attempts'[i] = [attempts[i] EXCEPT !.status = "failed"]
               /\ now - attempts[i].at > AttemptTTL
    <3>1. call[h].ts \in Int /\ call[h].ts <= now
      BY <2>4, CallType, Limits DEF BlocksInv
    <3>2. /\ attempts[i].status = "requested" /\ attempts[i].at < Cutoff(h)
          /\ attempts'[i] = [attempts[i] EXCEPT !.status = "failed"]
      BY <2>4 DEF Expires
    <3>. QED  BY <2>2, <3>1, <3>2, Limits DEF Cutoff
  <2>5. ASSUME NEW h \in Handlers, NEW row \in Attempts,
               attempts' = Append(attempts, row)
        PROVE  i \in DOMAIN attempts' /\ attempts'[i] = attempts[i]
    BY <2>5 DEF TypeOK
  <2>6. ASSUME NEW h \in Handlers, DOMAIN attempts' = DOMAIN attempts,
               Completes(h), attempts'[i] # attempts[i]
        PROVE  /\ attempts[i].status = "requested"
               /\ attempts'[i] = [attempts[i] EXCEPT !.status = "completed"]
    BY <2>6 DEF Completes
  <2>7. /\ i \in DOMAIN attempts'
        /\ \/ attempts'[i] = attempts[i]
           \/ /\ attempts[i].status = "requested"
              /\ attempts'[i] = [attempts[i] EXCEPT !.status = "completed"]
           \/ /\ attempts[i].status = "requested"
              /\ attempts'[i] = [attempts[i] EXCEPT !.status = "failed"]
              /\ now - attempts[i].at > AttemptTTL
    BY <2>3, <2>4, <2>5, <2>6, AttemptsChange
  <2>. QED  BY <2>1, <2>7 DEF Attempts
<1>2. Spec => [][Settles]_vars
  BY <1>1, TypeCorrect, BlocksInvHolds, PTL DEF Spec
<1>. QED  BY <1>2 DEF AttemptsSettleOnce
------------------------------------------------------------------------------
\* No statement of this module takes the row of a session away.
LEMMA SessionsStay ==
  ASSUME [Next]_vars
  PROVE  DOMAIN sessions \subseteq DOMAIN sessions'
  BY DEF Next, vars, Tick, Observe, Forget, Prompt, ReceiveStop, ReceiveSave,
         Step, Fail, Ensure, End, ReadSession, ReadMemories, ExpireAttempts,
         CountAttempts, InsertRequested, InsertSkipped, SaveSummary,
         EnsureForMemory, AddMemory, Mark, EnsureSession, CountObservation,
         EndSession, SaveSessionSummary, UpdateSession, Put

\* A Stop hook beyond its first call has the row of its session, and so has
\* every attempt.
RowsInv ==
  /\ \A h \in Handlers :
       call[h].pc \in StopSteps \ {"ensure"} => call[h].session \in DOMAIN sessions
  /\ \A i \in DOMAIN attempts : attempts[i].session \in DOMAIN sessions

\* A handler about to complete an attempt has had its save statement succeed; if
\* it matched no row, there was no attempt of its session.
AsSaved(h) ==
  \/ saved[h].outcome = "written"
  \/ /\ saved[h].outcome = "unmatched"
     /\ saved[h].attempts <= Len(attempts)
     /\ \A i \in 1..saved[h].attempts : attempts[i].session # call[h].session
SavedInv == \A h \in Handlers : call[h].pc = "mark" => AsSaved(h)
\* RowsInv is inductive.
LEMMA RowsInvHolds == Spec => []RowsInv
<1>1. Init => RowsInv
  BY DEF Init, RowsInv, Idle, StopSteps
<1>2. TypeOK /\ RowsInv /\ [Next]_vars => RowsInv'
  <2>. SUFFICES ASSUME TypeOK, RowsInv, [Next]_vars PROVE RowsInv'
    OBVIOUS
  <2>1. ASSUME NEW h \in Handlers, call'[h].pc \in StopSteps \ {"ensure"}
        PROVE  call'[h].session \in DOMAIN sessions'
    <3>1. call \in [Handlers -> Calls]
      BY DEF TypeOK
    <3>2. CASE call'[h] = call[h]
      BY <2>1, <3>2, SessionsStay DEF RowsInv
    <3>3. ASSUME NEW g \in Handlers, NEW s \in SessionIds,
                 \/ \E active \in BOOLEAN : ReceiveStop(g, s, active)
                 \/ \E pc \in Saves : ReceiveSave(g, s, pc)
          PROVE  call'[h] = call[h]
      BY <2>1, <3>1, <3>3 DEF ReceiveStop, ReceiveSave, Saves, StopSteps
    <3>4. ASSUME NEW g \in Handlers, g # h, Step(g) \/ Fail(g)
          PROVE  call'[h] = call[h]
      BY <3>1, <3>4, StepMoves DEF Goto
    <3>5. CASE Step(h) \/ Fail(h)
      <4>1. call[h] \in ActiveCalls
        BY <3>5, StepMoves
      <4>2. PICK pc \in Steps : Goto(h, pc)
        BY <2>1, <3>1, <3>5, StepMoves DEF Idle, StopSteps
      <4>3. call'[h].session = call[h].session /\ call'[h].pc = pc
        BY <3>1, <4>1, <4>2 DEF Goto, ActiveCalls
      <4>4. CASE Ensure(h)
        BY <4>3, <4>4 DEF Ensure, EnsureSession, Put
      <4>5. CASE ~Ensure(h)
        <5>1. call[h].pc \in StopSteps \ {"ensure"}
          BY <2>1, <3>1, <3>5, <4>1, <4>2, <4>3, <4>5
             DEF Step, Fail, Pass, Block, Idle, End, ReadSession, ReadMemories,
                 ExpireAttempts, CountAttempts, InsertRequested, InsertSkipped,
                 SaveSummary, EnsureForMemory, AddMemory, Mark, Goto,
                 ActiveCalls, StopSteps
        <5>. QED  BY <4>3, <5>1, SessionsStay DEF RowsInv
      <4>. QED  BY <4>4, <4>5
    <3>. QED  BY <3>2, <3>3, <3>4, <3>5
              DEF Next, vars, Tick, Observe, Forget, Prompt
  <2>2. ASSUME NEW i \in DOMAIN attempts'
        PROVE  attempts'[i].session \in DOMAIN sessions'
    <3>1. CASE i \in DOMAIN attempts /\ attempts'[i].session = attempts[i].session
      BY <3>1, SessionsStay DEF RowsInv
    <3>2. \A k \in DOMAIN attempts : attempts[k] \in Attempts
      BY DEF TypeOK
    <3>3. ASSUME NEW h \in Handlers, DOMAIN attempts' = DOMAIN attempts,
                 Expires(h) \/ Completes(h)
          PROVE  i \in DOMAIN attempts /\ attempts'[i].session = attempts[i].session
      BY <3>2, <3>3 DEF Expires, Completes, Attempts
    <3>4. ASSUME NEW h \in Handlers, call[h].pc \in {"request", "skip"},
                 NEW row \in Attempts, row.session = call[h].session,
                 attempts' = Append(attempts, row)
          PROVE  attempts'[i].session \in DOMAIN sessions'
      <4>1. row.session \in DOMAIN sessions'
        BY <3>4, SessionsStay DEF RowsInv, StopSteps
      <4>2. /\ attempts \in Seq(Attempts) /\ Len(attempts) \in Nat
            /\ DOMAIN attempts = 1..Len(attempts)
        BY DEF TypeOK
      <4>3. /\ i \in 1..(Len(attempts) + 1)
            /\ attempts'[i] = IF i <= Len(attempts) THEN attempts[i] ELSE row
        BY <2>2, <3>4, <4>2
      <4>4. CASE i <= Len(attempts)
        <5>1. i \in DOMAIN attempts
          BY <4>2, <4>3, <4>4
        <5>. QED  BY <3>1, <4>3, <4>4, <5>1
      <4>5. CASE ~(i <= Len(attempts))
        BY <4>1, <4>3, <4>5
      <4>. QED  BY <4>4, <4>5
    <3>. QED  BY <3>1, <3>3, <3>4, AttemptsChange
  <2>. QED  BY <2>1, <2>2 DEF RowsInv
<1>. QED  BY <1>1, <1>2, TypeCorrect, PTL DEF Spec

\* The attempts that a save has counted keep their session.
LEMMA AsSavedStays ==
  ASSUME TypeOK, [Next]_vars, NEW h \in Handlers, AsSaved(h),
         saved'[h] = saved[h], call'[h] = call[h]
  PROVE  AsSaved(h)'
<1>1. /\ saved[h].attempts \in Nat /\ Len(attempts) \in Nat
      /\ DOMAIN attempts = 1..Len(attempts)
      /\ \A k \in DOMAIN attempts : attempts[k] \in Attempts
  BY DEF TypeOK
<1>2. /\ attempts' \in Seq(Attempts)
      /\ Len(attempts') >= Len(attempts) /\ Len(attempts') \in Nat
      /\ \A k \in DOMAIN attempts : attempts'[k].session = attempts[k].session
  <2>1. attempts' \in Seq(Attempts)
    BY TypeStays DEF TypeOK
  <2>2. CASE attempts' = attempts
    BY <1>1, <2>1, <2>2
  <2>3. ASSUME NEW g \in Handlers, DOMAIN attempts' = DOMAIN attempts,
               Expires(g) \/ Completes(g)
        PROVE  /\ Len(attempts') = Len(attempts)
               /\ \A k \in DOMAIN attempts :
                    attempts'[k].session = attempts[k].session
    <3>1. Len(attempts') = Len(attempts)
      BY <1>1, <2>1, <2>3
    <3>. QED  BY <1>1, <2>3, <3>1 DEF Expires, Completes, Attempts
  <2>4. ASSUME NEW row \in Attempts, attempts' = Append(attempts, row)
        PROVE  /\ Len(attempts') = Len(attempts) + 1
               /\ \A k \in DOMAIN attempts :
                    attempts'[k].session = attempts[k].session
    BY <2>4 DEF TypeOK
  <2>. QED  BY <1>1, <2>1, <2>2, <2>3, <2>4, AttemptsChange
<1>. QED  BY <1>1, <1>2 DEF AsSaved

\* SavedInv is inductive.
LEMMA SavedInvHolds == Spec => []SavedInv
<1>1. Init => SavedInv
  BY DEF Init, SavedInv, Idle
<1>2. TypeOK /\ RowsInv /\ SavedInv /\ [Next]_vars => SavedInv'
  <2>. SUFFICES ASSUME TypeOK, RowsInv, SavedInv, [Next]_vars, NEW h \in Handlers,
                       call'[h].pc = "mark"
                PROVE  AsSaved(h)'
    BY DEF SavedInv
  <2>1. /\ call \in [Handlers -> Calls]
        /\ saved \in [Handlers -> SaveTypes]
    BY DEF TypeOK, SaveTypes
  <2>2. CASE call'[h] = call[h] /\ saved'[h] = saved[h]
    BY <2>2, AsSavedStays DEF SavedInv
  <2>3. ASSUME NEW g \in Handlers, NEW s \in SessionIds,
               \/ \E active \in BOOLEAN : ReceiveStop(g, s, active)
               \/ \E pc \in Saves : ReceiveSave(g, s, pc)
        PROVE  call'[h] = call[h] /\ saved'[h] = saved[h]
    BY <2>1, <2>3 DEF ReceiveStop, ReceiveSave, Saves
  <2>4. ASSUME NEW g \in Handlers, g # h, Step(g) \/ Fail(g)
        PROVE  call'[h] = call[h] /\ saved'[h] = saved[h]
    <3>1. call'[h] = call[h]
      BY <2>1, <2>4, StepMoves DEF Goto
    <3>2. saved'[h] = saved[h]
      BY <2>1, <2>4
         DEF Step, Fail, Ensure, End, ReadSession, ReadMemories, ExpireAttempts,
             CountAttempts, InsertRequested, InsertSkipped, SaveSummary,
             EnsureForMemory, AddMemory, Mark, Saved
    <3>. QED  BY <3>1, <3>2
  <2>5. CASE AddMemory(h)
    BY <2>1, <2>5 DEF AddMemory, Saved, AsSaved
  <2>6. CASE SaveSummary(h)
    <3>1. attempts' = attempts /\ Len(attempts) \in Nat
          /\ DOMAIN attempts = 1..Len(attempts)
      BY <2>6 DEF SaveSummary, TypeOK
    <3>2. call[h] \in ActiveCalls
      BY <2>6, CallType DEF SaveSummary
    <3>3. call'[h].session = call[h].session
      BY <2>1, <2>6, <3>2 DEF SaveSummary, Goto, ActiveCalls
    <3>4. CASE call[h].session \in DOMAIN sessions
      BY <2>1, <2>6, <3>4 DEF SaveSummary, Saved, AsSaved
    <3>5. CASE call[h].session \notin DOMAIN sessions
      <4>1. saved'[h] = [outcome |-> "unmatched", attempts |-> Len(attempts)]
        BY <2>1, <2>6, <3>5 DEF SaveSummary, Saved
      <4>2. \A i \in 1..Len(attempts) : attempts[i].session # call[h].session
        BY <3>1, <3>5 DEF RowsInv
      <4>. QED  BY <3>1, <3>3, <4>1, <4>2 DEF AsSaved
    <3>. QED  BY <3>4, <3>5
  <2>7. CASE (Step(h) \/ Fail(h)) /\ ~SaveSummary(h) /\ ~AddMemory(h)
    <3>1. call[h] \in ActiveCalls
      BY <2>7, StepMoves
    <3>2. PICK pc \in Steps : Goto(h, pc)
      BY <2>1, <2>7, StepMoves DEF Idle
    <3>3. pc # "mark"
      BY <2>1, <2>7, <3>1, <3>2
         DEF Goto, ActiveCalls, Step, Fail, Pass, Block, Idle, Ensure, End,
             ReadSession, ReadMemories, ExpireAttempts, CountAttempts,
             InsertRequested, InsertSkipped, EnsureForMemory, Mark
    <3>. QED  BY <2>1, <3>1, <3>2, <3>3 DEF Goto, ActiveCalls
  <2>. QED  BY <2>2, <2>3, <2>4, <2>5, <2>6, <2>7
            DEF Next, vars, Tick, Observe, Forget, Prompt
<1>. QED  BY <1>1, <1>2, RowsInvHolds, TypeCorrect, PTL DEF Spec

\* An attempt is completed only by a request whose own save has written, or has
\* matched no row before the session and the attempt were there.
THEOREM CompletedBySaveHolds == Spec => CompletedBySave
<1>. DEFINE Completion ==
       \A i \in DOMAIN attempts :
         attempts[i].status # "completed" /\ attempts'[i].status = "completed"
           => \E h \in Handlers :
                /\ call[h].pc = "mark" /\ call[h].session = attempts[i].session
                /\ \/ saved[h].outcome = "written"
                   \/ saved[h].outcome = "unmatched" /\ i > saved[h].attempts
<1>1. TypeOK /\ SavedInv /\ [Next]_vars => Completion
  <2>. SUFFICES ASSUME TypeOK, SavedInv, [Next]_vars, NEW i \in DOMAIN attempts,
                       attempts[i].status # "completed",
                       attempts'[i].status = "completed"
                PROVE  \E h \in Handlers :
                         /\ call[h].pc = "mark"
                         /\ call[h].session = attempts[i].session
                         /\ \/ saved[h].outcome = "written"
                            \/ /\ saved[h].outcome = "unmatched"
                               /\ i > saved[h].attempts
    OBVIOUS
  <2>1. attempts[i] \in Attempts
    BY DEF TypeOK
  <2>2. ASSUME NEW h \in Handlers, Expires(h) PROVE FALSE
    BY <2>1, <2>2 DEF Expires, Attempts
  <2>3. ASSUME NEW row \in Attempts, attempts' = Append(attempts, row)
        PROVE  FALSE
    BY <2>3 DEF TypeOK
  <2>4. PICK h \in Handlers : call[h].pc = "mark" /\ Completes(h)
    BY <2>2, <2>3, AttemptsChange
  <2>5. call[h].session = attempts[i].session
    BY <2>4 DEF Completes
  <2>6. AsSaved(h) /\ saved[h].attempts \in Nat /\ i \in Nat /\ i >= 1
    BY <2>4 DEF SavedInv, TypeOK
  <2>7. i \notin 1..saved[h].attempts => i > saved[h].attempts
    BY <2>6
  <2>8. \/ saved[h].outcome = "written"
        \/ saved[h].outcome = "unmatched" /\ i > saved[h].attempts
    <3>1. CASE saved[h].outcome = "written"
      BY <3>1
    <3>2. CASE saved[h].outcome # "written"
      <4>1. /\ saved[h].outcome = "unmatched"
            /\ \A k \in 1..saved[h].attempts : attempts[k].session # call[h].session
        BY <2>6, <3>2 DEF AsSaved
      <4>2. i \notin 1..saved[h].attempts
        BY <2>5, <4>1
      <4>. QED  BY <2>7, <4>1, <4>2
    <3>. QED  BY <3>1, <3>2
  <2>. QED  BY <2>4, <2>5, <2>8
<1>2. Spec => [][Completion]_vars
  BY <1>1, TypeCorrect, SavedInvHolds, PTL DEF Spec
<1>. QED  BY <1>2 DEF CompletedBySave
=============================================================================
