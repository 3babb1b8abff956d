------------------------------- MODULE Schema -------------------------------
(***************************************************************************)
(* store.Open and the migrations of internal/store, run by every process   *)
(* that uses the database - the daemon, and each mcb command - and         *)
(* mcb backup, which copies the database while they run.                   *)
(*                                                                         *)
(* A migration is one transaction: BEGIN, SELECT of its version, its       *)
(* statements with the INSERT of the version, COMMIT.  It starts deferred, *)
(* so its SELECT takes SHARED and its first statement RESERVED.  SQLite    *)
(* (external, with a rollback journal) gives RESERVED to one process, lets *)
(* it commit when no other holds SHARED, and refuses it at once to a       *)
(* process that already reads; others wait for at most _busy_timeout.      *)
(***************************************************************************)
EXTENDS Integers, FiniteSets

CONSTANTS Processes,   \* daemons and commands
          Newest,      \* the newest version each process's binary has
          Alters,      \* versions that cannot be applied twice (003)
          FtsBuilds,   \* processes built with sqlite_fts5
          Backups,     \* backup commands
          MaxFaults    \* bound on the faults and the waits that time out

ASSUME SchemaAssumption ==
  /\ Newest \in [Processes -> Nat \ {0}]
  /\ Alters \subseteq Nat \ {0, 1}
  /\ FtsBuilds \subseteq Processes /\ Processes \cap Backups = {}
  /\ MaxFaults \in Nat

VARIABLES objects,  \* the versions whose statements are in effect
          applied,  \* table schema_version
          fts,      \* does memories_fts exist?
          reading,  \* SHARED locks
          writer,   \* the RESERVED lock, as a set of at most one process
          process,  \* where each process is in Open
          backup,   \* what each backup has copied
          target,   \* the file of --out, as a set of at most one image
          faults

db == <<objects, applied, fts>>
locks == <<reading, writer>>
vars == <<db, locks, process, backup, target, faults>>

Versions == UNION {1..Newest[p] : p \in Processes}
Image == [objects : SUBSET Versions, applied : SUBSET Versions]
Closed == [pc |-> "closed", version |-> 0]
IdleBackup == [pc |-> "idle"]

TypeOK ==
  /\ {objects, applied} \subseteq SUBSET Versions
  /\ fts \in BOOLEAN
  /\ reading \subseteq Processes \cup Backups
  /\ writer \subseteq Processes /\ \A p, q \in writer : p = q
  /\ \A p \in Processes :
       \/ process[p] = Closed
       \/ /\ process[p].pc \in {"check", "exec", "commit", "fts", "open"}
          /\ process[p].version \in 1..(Newest[p] + 1)
  /\ \A b \in Backups :
       \/ backup[b].pc \in {"idle", "temp"}
       \/ backup[b].pc = "copy" /\ backup[b].objects \subseteq Versions
       \/ backup[b].pc = "rename" /\ backup[b].file \in Image
  /\ target \subseteq Image /\ \A f, g \in target : f = g
  /\ faults \in 0..MaxFaults

Init ==
  /\ objects = {} /\ applied = {} /\ fts = FALSE
  /\ reading = {} /\ writer = {}
  /\ process = [p \in Processes |-> Closed]
  /\ backup = [b \in Backups |-> IdleBackup]
  /\ target = {}
  /\ faults = 0
------------------------------------------------------------------------------
At(p, pc) == process[p].pc = pc
Goto(p, pc) == process' = [process EXCEPT ![p].pc = pc]

\* The next entry of the loop of applyMigrations, or what follows it.
NextVersion(p) ==
  LET v == process[p].version + 1
  IN process' = [process EXCEPT ![p] =
       [pc |-> IF v <= Newest[p] THEN "check" ELSE "fts", version |-> v]]

\* Open fails, and the process exits: the locks go and its transaction with them.
Leave(p) == /\ process' = [process EXCEPT ![p] = Closed]
            /\ reading' = reading \ {p} /\ writer' = writer \ {p}

\* Another process waits to commit: no new readers.
Pending(p) == \E q \in writer \ {p} : At(q, "commit")

Start(p) ==
  /\ At(p, "closed")
  /\ process' = [process EXCEPT ![p] = [pc |-> "check", version |-> 1]]
  /\ UNCHANGED <<db, locks, backup, target, faults>>

\* versionApplied.  Without a table schema_version the SELECT fails, which
\* counts as not applied and leaves no lock.  If the version is there the
\* transaction ends.
Check(p) ==
  LET v == process[p].version
  IN /\ At(p, "check")
     /\ \/ /\ v \in applied /\ ~Pending(p)
           /\ NextVersion(p)
           /\ UNCHANGED reading
        \/ /\ v \notin applied /\ applied # {} /\ ~Pending(p)
           /\ Goto(p, "exec")
           /\ reading' = reading \cup {p}
        \/ /\ applied = {} /\ ~Pending(p)
           /\ Goto(p, "exec")
           /\ UNCHANGED reading
     /\ UNCHANGED <<db, writer, backup, target, faults>>

\* So does the SELECT whose wait for a commit times out.
CheckTimesOut(p) ==
  /\ At(p, "check") /\ Pending(p) /\ faults < MaxFaults
  /\ Goto(p, "exec")
  /\ faults' = faults + 1
  /\ UNCHANGED <<db, locks, backup, target>>

\* Mutant: a reader waits for RESERVED like everyone else.
RefusedNever(p) == FALSE

\* SQLITE_BUSY without a wait: two readers that both want to write would wait
\* for each other.
Refused(p) == p \in reading /\ writer \ {p} # {}

\* The statements of the migration, and INSERT OR IGNORE of its version, in
\* the transaction; all but ALTER TABLE say IF NOT EXISTS.
Exec(p) ==
  /\ At(p, "exec")
  /\ \/ /\ writer = {} /\ process[p].version \notin (objects \cap Alters)
        /\ writer' = {p}
        /\ Goto(p, "commit")
        /\ UNCHANGED reading
     \/ /\ \/ Refused(p)
           \/ writer = {} /\ process[p].version \in (objects \cap Alters)
        /\ Leave(p)
  /\ UNCHANGED <<db, backup, target, faults>>

\* Mutant: the error of a statement is ignored, its version recorded.
TakesNoEffect(v) == objects' \in {objects, objects \cup {v}}

TakesEffect(v) == objects' = objects \cup {v}

\* COMMIT, when no one reads.
Commit(p) ==
  LET v == process[p].version
  IN /\ At(p, "commit") /\ reading \subseteq {p}
     /\ TakesEffect(v) /\ applied' = applied \cup {v}
     /\ reading' = reading \ {p} /\ writer' = {}
     /\ NextVersion(p)
     /\ UNCHANGED <<fts, backup, target, faults>>

\* CREATE VIRTUAL TABLE IF NOT EXISTS memories_fts, on its own.  A build
\* without FTS5 opens the store all the same.
CreateFts(p) ==
  /\ At(p, "fts") /\ ~Pending(p)
  /\ \/ fts \/ p \notin FtsBuilds
     \/ locks = <<{}, {}>>
  /\ fts' = (fts \/ p \in FtsBuilds)
  /\ Goto(p, "open")
  /\ UNCHANGED <<objects, applied, locks, backup, target, faults>>

\* A command is done.
Close(p) ==
  /\ At(p, "open") /\ Leave(p)
  /\ UNCHANGED <<db, backup, target, faults>>

\* The process is killed, or fails because another wait for a lock times out.
Crash(p) ==
  /\ ~At(p, "closed") /\ faults < MaxFaults
  /\ Leave(p)
  /\ faults' = faults + 1
  /\ UNCHANGED <<db, backup, target>>
------------------------------------------------------------------------------
\* backupToPath: a temporary file next to the target.
CreateTemp(b) ==
  /\ backup[b].pc = "idle"
  /\ backup' = [backup EXCEPT ![b] = [pc |-> "temp"]]
  /\ UNCHANGED <<db, locks, process, target, faults>>

\* Mutant: cp.
CopyUnlocked(b) == reading

CopyLock(b) == reading \cup {b}

\* VACUUM INTO reads page after page, here first what the migrations made and
\* then which versions they recorded.
VacuumStart(b) ==
  /\ backup[b].pc = "temp" /\ \A q \in writer : ~At(q, "commit")
  /\ backup' = [backup EXCEPT ![b] = [pc |-> "copy", objects |-> objects]]
  /\ reading' = CopyLock(b)
  /\ UNCHANGED <<db, writer, process, target, faults>>

VacuumEnd(b) ==
  /\ backup[b].pc = "copy"
  /\ backup' = [backup EXCEPT ![b] =
       [pc |-> "rename",
        file |-> [objects |-> backup[b].objects, applied |-> applied]]]
  /\ reading' = reading \ {b}
  /\ UNCHANGED <<db, writer, process, target, faults>>

Rename(b) ==
  /\ backup[b].pc = "rename"
  /\ target' = {backup[b].file}
  /\ backup' = [backup EXCEPT ![b] = IdleBackup]
  /\ UNCHANGED <<db, locks, process, faults>>

\* An error, or the end of the command; the temporary file is not the target.
BackupFail(b) ==
  /\ backup[b].pc # "idle"
  /\ backup' = [backup EXCEPT ![b] = IdleBackup]
  /\ reading' = reading \ {b}
  /\ UNCHANGED <<db, writer, process, target, faults>>

Step(p) == Start(p) \/ Check(p) \/ Exec(p) \/ Commit(p)

Copy(b) == VacuumStart(b) \/ VacuumEnd(b) \/ Rename(b)

Next ==
  \/ \E p \in Processes : Step(p) \/ CreateFts(p) \/ Close(p)
                         \/ CheckTimesOut(p) \/ Crash(p)
  \/ \E b \in Backups : CreateTemp(b) \/ Copy(b) \/ BackupFail(b)

Spec == Init /\ [][Next]_vars
------------------------------------------------------------------------------
\* Whatever processes open the database at once and wherever they die, a
\* version is recorded exactly if its statements are in effect, versions are
\* applied in order, and an open store has all that its binary knows.
SchemaIsWhole ==
  /\ objects = applied
  /\ \A v \in applied : 1..v \subseteq applied
  /\ \A p \in Processes : At(p, "open") => 1..Newest[p] \subseteq applied

\* The file of --out, whenever it is looked at, is a database as some process
\* could have left it, although migrations were waiting while it was copied.
BackupIsWhole ==
  \A f \in target : /\ f.objects = f.applied
                    /\ \A v \in f.applied : 1..v \subseteq f.applied

\* Processes run, are started again when they have failed, and a wait for a
\* lock ends; backups make progress or end.
LiveSpec ==
  /\ Spec
  /\ \A p \in Processes : WF_vars(Step(p)) /\ SF_vars(CreateFts(p))
  /\ \A b \in Backups : WF_vars(Copy(b))

\* Locks are not waited for in a circle, and a refused process finds its turn:
\* each process opens the store again and again.
EveryoneOpens == \A p \in Processes : []<>At(p, "open")
=============================================================================
