---------------------------- MODULE SchemaProofs ----------------------------
(***************************************************************************)
(* Proofs about Schema, for every number of processes and backups, every   *)
(* binary's newest version, and every number of faults.                    *)
(***************************************************************************)
EXTENDS Schema, TLAPS

USE SchemaAssumption

Steps == {"check", "exec", "commit", "fts", "open"}

Before(v) == 1..(v - 1)

\* A process that is about to apply a version has all the versions before it,
\* and one that has gone through its files has all of them.
ProcessHas ==
  \A p \in Processes :
    /\ process[p].pc \in {"check", "exec", "commit"} =>
         Before(process[p].version) \subseteq applied
    /\ process[p].pc \in {"fts", "open"} => 1..Newest[p] \subseteq applied

InOrder(versions) == \A v \in versions : 1..v \subseteq versions

ProcessType ==
  /\ applied \subseteq Nat
  /\ process \in [Processes -> [pc : Steps \cup {"closed"}, version : Nat]]
  /\ \A p \in Processes : process[p].pc \in {"check", "exec", "commit"} =>
                             process[p].version \in 1..Newest[p]

SchemaInv ==
  /\ ProcessType
  /\ objects = applied
  /\ InOrder(applied)
  /\ ProcessHas

\* The loop goes on behind a version that is applied.
LEMMA LoopGoesOn ==
  ASSUME SchemaInv, NEW p \in Processes, NextVersion(p),
         process[p].pc \in {"check", "commit"},
         objects' = applied', applied \subseteq applied', applied' \subseteq Nat,
         InOrder(applied'), process[p].version \in applied'
  PROVE  SchemaInv'
<1>. DEFINE v == process[p].version
<1>1. /\ v \in 1..Newest[p] /\ Newest[p] \in Nat
      /\ 1..v \subseteq applied'
  BY DEF SchemaInv, ProcessType, InOrder
<1>2. /\ process' \in [Processes -> [pc : Steps \cup {"closed"}, version : Nat]]
      /\ process'[p] = [pc |-> IF v + 1 <= Newest[p] THEN "check" ELSE "fts",
                        version |-> v + 1]
      /\ \A q \in Processes \ {p} : process'[q] = process[q]
  BY <1>1 DEF SchemaInv, ProcessType, NextVersion, Steps
<1>3. ProcessType'
  BY <1>1, <1>2 DEF SchemaInv, ProcessType
<1>4. \A q \in Processes \ {p} :
        /\ process'[q].pc \in {"check", "exec", "commit"} =>
             Before(process'[q].version) \subseteq applied'
        /\ process'[q].pc \in {"fts", "open"} => 1..Newest[q] \subseteq applied'
  BY <1>2 DEF SchemaInv, ProcessHas
<1>5. CASE v + 1 <= Newest[p]
  <2>1. Before(v + 1) = 1..v
    BY <1>1 DEF Before
  <2>2. process'[p].pc = "check" /\ process'[p].version = v + 1
    BY <1>2, <1>5
  <2>3. ProcessHas'
    BY <1>1, <1>4, <2>1, <2>2 DEF ProcessHas
  <2>. QED  BY <1>3, <2>3 DEF SchemaInv
<1>6. CASE ~(v + 1 <= Newest[p])
  <2>1. 1..Newest[p] \subseteq 1..v
    BY <1>1, <1>6
  <2>2. process'[p].pc = "fts"
    BY <1>2, <1>6
  <2>3. ProcessHas'
    BY <1>1, <1>4, <2>1, <2>2 DEF ProcessHas
  <2>. QED  BY <1>3, <2>3 DEF SchemaInv
<1>. QED  BY <1>5, <1>6

\* A process that leaves, or moves on without a version, takes nothing away.
LEMMA ProcessMoves ==
  ASSUME SchemaInv, NEW p \in Processes, UNCHANGED <<objects, applied>>,
         NEW pc \in {"exec", "commit", "open", "closed"},
         pc \in {"exec", "commit"} => process[p].pc \in {"check", "exec"},
         pc = "open" => process[p].pc = "fts",
         \/ Goto(p, pc)
         \/ pc = "closed" /\ process' = [process EXCEPT ![p] = Closed]
  PROVE  SchemaInv'
<1>1. /\ process' \in [Processes -> [pc : Steps \cup {"closed"}, version : Nat]]
      /\ process'[p].pc = pc
      /\ pc # "closed" => process'[p].version = process[p].version
      /\ \A q \in Processes \ {p} : process'[q] = process[q]
  BY DEF SchemaInv, ProcessType, Goto, Closed, Steps
<1>2. ProcessType'
  BY <1>1 DEF SchemaInv, ProcessType
<1>3. ProcessHas'
  BY <1>1 DEF SchemaInv, ProcessHas
<1>. QED  BY <1>2, <1>3 DEF SchemaInv

\* Every step of every process and backup keeps the invariant.
LEMMA SchemaInductive == SchemaInv /\ [Next]_vars => SchemaInv'
<1>. SUFFICES ASSUME SchemaInv, [Next]_vars PROVE SchemaInv'
  OBVIOUS
<1>1. ASSUME NEW p \in Processes, Start(p) PROVE SchemaInv'
  <2>1. /\ process' \in [Processes -> [pc : Steps \cup {"closed"}, version : Nat]]
        /\ process'[p] = [pc |-> "check", version |-> 1]
        /\ \A q \in Processes \ {p} : process'[q] = process[q]
        /\ applied' = applied /\ objects' = objects
    BY <1>1 DEF SchemaInv, ProcessType, Start, Steps, db
  <2>2. Before(1) = {} /\ 1 \in 1..Newest[p]
    BY DEF Before
  <2>3. ProcessType'
    BY <2>1, <2>2 DEF SchemaInv, ProcessType
  <2>4. ProcessHas'
    BY <2>1, <2>2 DEF SchemaInv, ProcessHas
  <2>. QED  BY <2>1, <2>3, <2>4 DEF SchemaInv
<1>2. ASSUME NEW p \in Processes, Check(p) PROVE SchemaInv'
  <2>1. UNCHANGED <<objects, applied>> /\ process[p].pc = "check"
    BY <1>2 DEF Check, db, At
  <2>2. CASE process[p].version \in applied /\ NextVersion(p)
    BY <2>1, <2>2, LoopGoesOn DEF SchemaInv, ProcessType, InOrder
  <2>3. CASE Goto(p, "exec")
    BY <2>1, <2>3, ProcessMoves
  <2>. QED  BY <1>2, <2>2, <2>3 DEF Check
<1>3. ASSUME NEW p \in Processes, CheckTimesOut(p) PROVE SchemaInv'
  BY <1>3, ProcessMoves DEF CheckTimesOut, db, At
<1>4. ASSUME NEW p \in Processes, Exec(p) PROVE SchemaInv'
  <2>1. UNCHANGED <<objects, applied>> /\ process[p].pc = "exec"
    BY <1>4 DEF Exec, db, At
  <2>2. CASE Goto(p, "commit")
    BY <2>1, <2>2, ProcessMoves
  <2>3. CASE Leave(p)
    BY <2>1, <2>3, ProcessMoves DEF Leave
  <2>. QED  BY <1>4, <2>2, <2>3 DEF Exec
<1>5. ASSUME NEW p \in Processes, Commit(p) PROVE SchemaInv'
  <2>. DEFINE v == process[p].version
  <2>1. /\ applied' = applied \cup {v} /\ objects' = objects \cup {v}
        /\ NextVersion(p) /\ process[p].pc = "commit"
    BY <1>5 DEF Commit, TakesEffect, At
  <2>2. v \in 1..Newest[p] /\ Newest[p] \in Nat /\ Before(v) \subseteq applied
    BY <2>1 DEF SchemaInv, ProcessType, ProcessHas
  <2>3. 1..v = Before(v) \cup {v}
    BY <2>2 DEF Before
  <2>4. InOrder(applied')
    BY <2>1, <2>2, <2>3 DEF SchemaInv, InOrder
  <2>. QED  BY <2>1, <2>2, <2>4, LoopGoesOn DEF SchemaInv, ProcessType
<1>6. ASSUME NEW p \in Processes, CreateFts(p) PROVE SchemaInv'
  BY <1>6, ProcessMoves DEF CreateFts, At
<1>7. ASSUME NEW p \in Processes, Close(p) \/ Crash(p) PROVE SchemaInv'
  BY <1>7, ProcessMoves DEF Close, Crash, Leave, db
<1>8. ASSUME NEW b \in Backups, CreateTemp(b) \/ Copy(b) \/ BackupFail(b)
      PROVE  SchemaInv'
  <2>1. UNCHANGED <<objects, applied, process>>
    BY <1>8 DEF CreateTemp, Copy, VacuumStart, VacuumEnd, Rename, BackupFail, db
  <2>. QED  BY <2>1 DEF SchemaInv, ProcessType, ProcessHas, InOrder
<1>9. CASE UNCHANGED vars
  BY <1>9 DEF SchemaInv, ProcessType, ProcessHas, InOrder, vars, db
<1>. QED  BY <1>1, <1>2, <1>3, <1>4, <1>5, <1>6, <1>7, <1>8, <1>9 DEF Next, Step

\* The invariant holds of every state of the specification.
LEMMA SchemaInvHolds == Spec => []SchemaInv
<1>1. Init => SchemaInv
  BY DEF Init, SchemaInv, ProcessType, ProcessHas, InOrder, Closed
<1>. QED  BY <1>1, SchemaInductive, PTL DEF Spec

\* Whatever processes open the database at once, and wherever they die or are
\* refused: versions take effect together with their records and in order, and
\* an open store has all that its binary knows.
THEOREM SchemaIsWholeHolds == Spec => []SchemaIsWhole
<1>1. SchemaInv => SchemaIsWhole
  BY DEF SchemaInv, SchemaIsWhole, InOrder, ProcessHas, At
<1>. QED  BY <1>1, SchemaInvHolds, PTL
------------------------------------------------------------------------------
\* A backup that copies holds SHARED, so that what it copied still stands; what
\* it finished is whole.
WholeImage(f) == f.objects = f.applied /\ InOrder(f.applied)

BackupInv ==
  /\ DOMAIN backup = Backups
  /\ \A b \in Backups :
       /\ backup[b].pc = "copy" =>
            b \in reading /\ backup[b].objects = objects
       /\ backup[b].pc = "rename" => WholeImage(backup[b].file)
  /\ \A f \in target : WholeImage(f)

\* A process changes neither what a backup reads nor that it reads: COMMIT waits
\* for it.
LEMMA ProcessKeepsBackups ==
  ASSUME BackupInv, UNCHANGED <<backup, target>>, UNCHANGED objects,
         NEW p \in Processes, reading \ {p} \subseteq reading'
  PROVE  BackupInv'
<1>1. \A b \in Backups : b # p
  OBVIOUS
<1>2. \A b \in Backups : b \in reading => b \in reading'
  BY <1>1
<1>. QED  BY <1>2 DEF BackupInv, WholeImage, InOrder

\* Every step keeps it, given that the database itself is whole.
LEMMA BackupInductive == SchemaInv /\ BackupInv /\ [Next]_vars => BackupInv'
<1>. SUFFICES ASSUME SchemaInv, BackupInv, [Next]_vars PROVE BackupInv'
  OBVIOUS
<1>1. ASSUME NEW p \in Processes,
             Start(p) \/ Check(p) \/ Exec(p) \/ CreateFts(p) \/ Close(p)
               \/ CheckTimesOut(p) \/ Crash(p)
      PROVE  BackupInv'
  <2>1. UNCHANGED <<backup, target>> /\ UNCHANGED objects
        /\ reading \ {p} \subseteq reading'
    BY <1>1 DEF Start, Check, Exec, CreateFts, Close, CheckTimesOut, Crash,
                Leave, db, locks
  <2>. QED  BY <2>1, ProcessKeepsBackups
<1>2. ASSUME NEW p \in Processes, Commit(p) PROVE BackupInv'
  <2>1. UNCHANGED <<backup, target>> /\ reading \subseteq {p}
    BY <1>2 DEF Commit
  <2>2. \A b \in Backups : backup[b].pc # "copy"
    BY <2>1 DEF BackupInv
  <2>. QED  BY <2>1, <2>2 DEF BackupInv, WholeImage, InOrder
<1>3. ASSUME NEW b \in Backups, VacuumStart(b) PROVE BackupInv'
  <2>1. /\ DOMAIN backup' = Backups
        /\ backup'[b].pc = "copy" /\ backup'[b].objects = objects
        /\ \A c \in Backups \ {b} : backup'[c] = backup[c]
        /\ reading' = reading \cup {b}
        /\ UNCHANGED objects /\ UNCHANGED target
    BY <1>3 DEF VacuumStart, CopyLock, BackupInv, db
  <2>. QED  BY <2>1 DEF BackupInv, WholeImage, InOrder
<1>4. ASSUME NEW b \in Backups, VacuumEnd(b) PROVE BackupInv'
  <2>. DEFINE file == [objects |-> backup[b].objects, applied |-> applied]
  <2>1. /\ DOMAIN backup' = Backups
        /\ backup'[b].pc = "rename" /\ backup'[b].file = file
        /\ \A c \in Backups \ {b} : backup'[c] = backup[c]
        /\ reading' = reading \ {b}
        /\ UNCHANGED objects /\ UNCHANGED target
    BY <1>4 DEF VacuumEnd, BackupInv, db
  <2>2. WholeImage(file)
    BY <1>4 DEF VacuumEnd, BackupInv, SchemaInv, WholeImage
  <2>. QED  BY <2>1, <2>2 DEF BackupInv, WholeImage, InOrder
<1>5. ASSUME NEW b \in Backups, CreateTemp(b) \/ Rename(b) \/ BackupFail(b)
      PROVE  BackupInv'
  <2>1. /\ DOMAIN backup' = Backups
        /\ backup'[b].pc \in {"idle", "temp"}
        /\ \A c \in Backups \ {b} : backup'[c] = backup[c]
        /\ reading \ {b} \subseteq reading' /\ UNCHANGED objects
    BY <1>5 DEF CreateTemp, Rename, BackupFail, BackupInv, IdleBackup, db, locks
  <2>2. \A f \in target' : WholeImage(f)
    BY <1>5 DEF CreateTemp, Rename, BackupFail, BackupInv
  <2>. QED  BY <2>1, <2>2 DEF BackupInv, WholeImage, InOrder
<1>6. CASE UNCHANGED vars
  BY <1>6 DEF BackupInv, WholeImage, InOrder, vars, db, locks
<1>. QED  BY <1>1, <1>2, <1>3, <1>4, <1>5, <1>6 DEF Next, Step, Copy

\* The file of --out is whole whenever it is looked at, however many backups
\* write it, fail, or race with migrations.
THEOREM BackupIsWholeHolds == Spec => []BackupIsWhole
<1>1. Init => BackupInv
  BY DEF Init, BackupInv, IdleBackup
<1>2. BackupInv => BackupIsWhole
  BY DEF BackupInv, BackupIsWhole, WholeImage, InOrder
<1>. QED  BY <1>1, <1>2, BackupInductive, SchemaInvHolds, PTL DEF Spec
=============================================================================
