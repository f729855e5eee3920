------------------------ MODULE ClickHouseMigrations ------------------------
(***************************************************************************)
(* ClickHouseMigrator of apexquant-migrations.  ClickHouse has no          *)
(* transactions: a file is executed statement by statement (split_sql),    *)
(* and what a failed or killed run had executed stays.  Runs exclude each  *)
(* other by a PostgreSQL advisory lock when a PostgreSQL URL is configured *)
(* and by a lock file of their own host otherwise, so not all runs use the *)
(* same lock.                                                              *)
(***************************************************************************)
EXTENDS MigrationPlan

CONSTANTS Runners,
          LockOf,       \* the lock each runner's configuration selects
          AdvisoryLock, \* the PostgreSQL advisory lock; the others are lock files
          Statements,   \* number of statements of each file
          None,
          MaxFaults     \* bound: statements that fail, runs that die

Locks == {LockOf[r] : r \in Runners}

ASSUME ClickHouseAssumption ==
  /\ DOMAIN LockOf = Runners
  /\ Statements \in [Files -> Nat \ {0}]
  /\ \A m \in Files \ Initial : Statements[m] = 1   \* render_template: SELECT 1;
  /\ MaxFaults \in Nat
  /\ None \notin Runners

VARIABLES content,   \* the migration files, and what is in each of them now
          registry,  \* applied_migrations FINAL: file -> checksum_sha256
          done,      \* how many statements were executed of each text of each file
          locks,     \* holder of each lock
          run,       \* the apply each runner is in
          runs,      \* migration_runs: the last row of each runner
          edits, faults,
          dropped,   \* runs whose connection to PostgreSQL was lost, and the lock with it
          swapped    \* history: files executed with another text than was planned

vars == <<content, registry, done, locks, run, runs, edits, faults, dropped, swapped>>

Idle == [pc |-> "idle", pending |-> << >>, at |-> 0, sql |-> 0]

Locked == {"connect", "execute", "record", "finish", "failed", "unlock"}

Unlocked(r) == [locks EXCEPT ![LockOf[r]] = IF @ = r THEN None ELSE @]

(* The plan, with a client of its own.                                     *)
Plan(domains) == build_plan(registry, content, domains)

(* verify: nothing drifted, nothing pending.                               *)
verify(domains) == Plan(domains).ok /\ Plan(domains).pending = << >>

NextStep(pending) == IF pending = << >> THEN "finish" ELSE "execute"

-----------------------------------------------------------------------------
Init ==
  /\ content = [m \in Initial |-> 0]
  /\ registry = << >>
  /\ done = [m \in Files |-> [c \in Contents |-> 0]]
  /\ locks = [l \in Locks |-> None]
  /\ run = [r \in Runners |-> Idle]
  /\ runs = [r \in Runners |-> "NONE"]
  /\ edits = 0
  /\ faults = 0
  /\ dropped = {}
  /\ swapped = {}

PlanApply(r, domains) ==
  /\ run[r].pc = "idle"
  /\ Plan(domains).ok
  /\ run' = [run EXCEPT ![r] = [Idle EXCEPT !.pc = "lock", !.pending = Plan(domains).pending]]
  /\ UNCHANGED <<content, edits, registry, done, locks, runs, faults, dropped, swapped>>

acquire(r) ==
  /\ run[r].pc = "lock"
  /\ locks[LockOf[r]] = None
  /\ locks' = [locks EXCEPT ![LockOf[r]] = r]
  /\ run' = [run EXCEPT ![r].pc = "connect"]
  /\ UNCHANGED <<content, edits, registry, done, runs, faults, dropped, swapped>>

(* The client is created and ensure_registry run.                          *)
Connect(r) ==
  /\ run[r].pc = "connect"
  /\ run' = [run EXCEPT ![r].pc = NextStep(run[r].pending)]
  /\ UNCHANGED <<content, edits, registry, done, locks, runs, faults, dropped, swapped>>

(* One statement of the file at the head of the plan, which is read before *)
(* its first statement.                                                    *)
ExecuteStatement(r) ==
  LET m   == Head(run[r].pending).file
      k   == run[r].at + 1
      sql == IF k = 1 THEN content[m] ELSE run[r].sql IN
  /\ run[r].pc = "execute"
  /\ done' = [done EXCEPT ![m][sql] = IF @ < k THEN k ELSE @]
  /\ swapped' = swapped \cup (IF sql = Head(run[r].pending).checksum THEN {} ELSE {m})
  /\ run' = [run EXCEPT ![r].at = k, ![r].sql = sql,
                        ![r].pc = IF k = Statements[m] THEN "record" ELSE "execute"]
  /\ UNCHANGED <<content, edits, registry, locks, runs, faults, dropped>>

(* A statement, or an insert into the registry tables, raises.             *)
StatementFails(r) ==
  /\ run[r].pc \in {"connect", "execute", "record", "finish"}
  /\ faults < MaxFaults
  /\ faults' = faults + 1
  /\ run' = [run EXCEPT ![r].pc = "failed"]
  /\ UNCHANGED <<content, edits, registry, done, locks, runs, dropped, swapped>>

(* Defect: the checksum of the file as it is now.                          *)
BugRecord(r) ==
  LET m    == Head(run[r].pending).file
      rest == Tail(run[r].pending) IN
  /\ run[r].pc = "record"
  /\ registry' = [n \in DOMAIN registry \cup {m} |->
                    IF n = m THEN content[m] ELSE registry[n]]
  /\ run' = [run EXCEPT ![r].pending = rest, ![r].at = 0, ![r].sql = 0,
                        ![r].pc = NextStep(rest)]
  /\ UNCHANGED <<content, edits, done, locks, runs, faults, dropped, swapped>>

(* The newest row of a migration wins (ReplacingMergeTree).                *)
Record(r) ==
  LET entry == Head(run[r].pending)
      rest  == Tail(run[r].pending) IN
  /\ run[r].pc = "record"
  /\ registry' = [m \in DOMAIN registry \cup {entry.file} |->
                    IF m = entry.file THEN entry.checksum ELSE registry[m]]
  /\ run' = [run EXCEPT ![r].pending = rest, ![r].at = 0, ![r].sql = 0,
                        ![r].pc = NextStep(rest)]
  /\ UNCHANGED <<content, edits, done, locks, runs, faults, dropped, swapped>>

InsertRun(r) ==
  /\ \/ run[r].pc = "finish" /\ runs' = [runs EXCEPT ![r] = "SUCCESS"]
     \/ run[r].pc = "failed" /\ runs' = [runs EXCEPT ![r] = "FAILED"]
  /\ run' = [run EXCEPT ![r].pc = "unlock"]
  /\ UNCHANGED <<content, edits, registry, done, locks, faults, dropped, swapped>>

(* finally: client.close(), lock.release().  On a lost connection release  *)
(* raises, and the command ends with that error.                           *)
release(r) ==
  /\ run[r].pc = "unlock"
  /\ locks' = Unlocked(r)
  /\ dropped' = dropped \ {r}
  /\ run' = [run EXCEPT ![r] = Idle]
  /\ UNCHANGED <<content, edits, registry, done, runs, faults, swapped>>

(* The connection that holds the advisory lock is lost: it is not the one  *)
(* the statements go to, and the run goes on without the lock.             *)
LoseLock(r) ==
  /\ run[r].pc \in Locked
  /\ LockOf[r] = AdvisoryLock
  /\ locks[LockOf[r]] = r
  /\ faults < MaxFaults
  /\ faults' = faults + 1
  /\ locks' = Unlocked(r)
  /\ dropped' = dropped \cup {r}
  /\ UNCHANGED <<content, edits, registry, done, run, runs, swapped>>

(* The process ends: the lock file's descriptor, or the connection, is     *)
(* closed by the operating system.  A client that cannot be created, and a *)
(* FAILED row that cannot be inserted, end the process too.                *)
Crash(r) ==
  /\ run[r].pc # "idle"
  /\ faults < MaxFaults
  /\ faults' = faults + 1
  /\ locks' = Unlocked(r)
  /\ dropped' = dropped \ {r}
  /\ run' = [run EXCEPT ![r] = Idle]
  /\ UNCHANGED <<content, edits, registry, done, runs, swapped>>

(* A file is changed, perhaps back to a text it had before.                *)
EditFile(m, text) ==
  /\ m \in Edited /\ edits < MaxEdits
  /\ text # content[m]
  /\ edits' = edits + 1
  /\ content' = [content EXCEPT ![m] = text]
  /\ UNCHANGED <<registry, done, locks, run, runs, faults, dropped, swapped>>

cmd_create(d) ==
  /\ MayCreate(content, d)
  /\ content' = create_migration(content, d)
  /\ UNCHANGED <<edits, registry, done, locks, run, runs, faults, dropped, swapped>>

Step(r) == acquire(r) \/ Connect(r) \/ ExecuteStatement(r) \/ StatementFails(r)
             \/ Record(r) \/ InsertRun(r) \/ release(r)

Next ==
  \/ \E r \in Runners :
       \/ \E domains \in Choices : PlanApply(r, domains)
       \/ Step(r)
       \/ Crash(r)
       \/ LoseLock(r)
  \/ \E m \in DOMAIN content : \E text \in Contents : EditFile(m, text)
  \/ \E d \in Domains : cmd_create(d)

Spec == Init /\ [][Next]_vars

-----------------------------------------------------------------------------
(* Some text of the file was executed to its last statement.               *)
Whole(m) == \E c \in Contents : done[m][c] = Statements[m]

(* A recorded file was executed to its last statement, and no statement of *)
(* a file runs before the lower versions of its domain have run to their   *)
(* end, although nothing rolls back, runs with different locks interleave  *)
(* and a broken run is retried by another.                                 *)
VersionsInOrder ==
  /\ \A m \in DOMAIN registry : Whole(m)
  /\ \A m, n \in Files : \A c \in Contents :
       m < n /\ Domain[m] = Domain[n] /\ done[n][c] > 0 => Whole(m)

(* When verify reports no drift and nothing pending, the very text that is *)
(* in each file was executed to its last statement, also under runs that   *)
(* do not share a lock and if the file was edited after it was read, and   *)
(* back.  The exception is a file that was edited between a plan and the   *)
(* second read of it: its record has the checksum of the plan, and shows   *)
(* as drift only until the edit is taken back.                             *)
VerifiedIsInPlace ==
  \A domains \in Choices : verify(domains) =>
    \A m \in Selected(content, domains) \ swapped : done[m][content[m]] = Statements[m]

=============================================================================
