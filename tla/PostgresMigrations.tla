------------------------- MODULE PostgresMigrations -------------------------
(***************************************************************************)
(* PostgresMigrator of apexquant-migrations: several `apply' and           *)
(* `baseline' runs against one database, on connections in autocommit      *)
(* mode, so that every statement takes effect by itself.  The plan is made *)
(* on a connection of its own before the advisory lock is taken, and is    *)
(* not made again once the lock is held.                                   *)
(***************************************************************************)
EXTENDS MigrationPlan

CONSTANTS Runners,        \* processes that run apexquant-migrate
          Transactional,  \* files that open a transaction with BEGIN
          None,
          MaxFaults       \* bound: statements that fail, runs that die

ASSUME MigrationsAssumption ==
  /\ MaxFaults \in Nat
  /\ Files \ Initial \subseteq Transactional   \* render_template: BEGIN; ... COMMIT;
  /\ Transactional \subseteq Files
  /\ None \notin Runners

VARIABLES content,     \* the migration files, and what is in each of them now
          registry,    \* applied_migrations: file -> checksum_sha256
          effects,     \* contents of each file that were executed
          baselined,   \* files recorded by baseline
          lock,        \* pg_advisory_lock('apexquant_migrations')
          run,         \* the command each runner is in
          runs,        \* migration_runs: the last row of each runner
          edits, faults,
          swapped      \* history: files executed with another text than was planned

vars == <<content, registry, effects, baselined, lock, run, runs, edits, faults, swapped>>

Idle == [pc |-> "idle", mode |-> "apply", pending |-> << >>]
NoRun == [status |-> "NONE", planned |-> {}]

Locked == {"begin", "execute", "record", "finish", "failed", "unlock"}

-----------------------------------------------------------------------------
(* Defect: a file is recorded first.                                       *)
BugNextStep(mode, pending) ==
  IF pending # << >> THEN "record" ELSE IF mode = "apply" THEN "finish" ELSE "unlock"

(* Where a run goes on with what is left of its plan.                      *)
NextStep(mode, pending) ==
  IF mode = "apply"
  THEN IF pending = << >> THEN "finish" ELSE "execute"
  ELSE IF pending = << >> THEN "unlock" ELSE "record"

Unlocked(r) == IF lock = r THEN None ELSE lock

(* The plan, on a connection of its own.                                   *)
Plan(domains) == build_plan(registry, content, domains)

(* verify: nothing drifted, nothing pending.                               *)
verify(domains) == Plan(domains).ok /\ Plan(domains).pending = << >>

(* INSERT INTO applied_migrations ... ON CONFLICT (migration_id) DO        *)
(* NOTHING, with the checksum of the plan.                                 *)
InsertApplied(entry) ==
  [m \in DOMAIN registry \cup {entry.file} |->
     IF m \in DOMAIN registry THEN registry[m] ELSE entry.checksum]

-----------------------------------------------------------------------------
Init ==
  /\ content = [m \in Initial |-> 0]
  /\ registry = << >>
  /\ effects = [m \in Files |-> {}]
  /\ baselined = {}
  /\ lock = None
  /\ run = [r \in Runners |-> Idle]
  /\ runs = [r \in Runners |-> NoRun]
  /\ edits = 0
  /\ faults = 0
  /\ swapped = {}

(* apply: a plan with drift is refused; so ends also a dry run.            *)
PlanApply(r, domains) ==
  /\ run[r].pc = "idle"
  /\ Plan(domains).ok
  /\ run' = [run EXCEPT ![r] =
       [pc |-> "lock", mode |-> "apply", pending |-> Plan(domains).pending]]
  /\ UNCHANGED <<content, registry, effects, baselined, lock, runs, edits, faults, swapped>>

(* baseline --confirm-baseline: drift is not looked at.                    *)
PlanBaseline(r, domains) ==
  /\ run[r].pc = "idle"
  /\ run' = [run EXCEPT ![r] =
       [pc |-> "lock", mode |-> "baseline", pending |-> Plan(domains).pending]]
  /\ UNCHANGED <<content, registry, effects, baselined, lock, runs, edits, faults, swapped>>

acquire_lock(r) ==
  /\ run[r].pc = "lock"
  /\ lock = None
  /\ lock' = r
  /\ run' = [run EXCEPT ![r].pc =
       IF run[r].mode = "apply" THEN "begin" ELSE NextStep("baseline", run[r].pending)]
  /\ UNCHANGED <<content, registry, effects, baselined, runs, edits, faults, swapped>>

InsertRun(r) ==
  /\ run[r].pc = "begin"
  /\ runs' = [runs EXCEPT ![r] =
       [status |-> "RUNNING", planned |-> PlannedFiles(run[r].pending)]]
  /\ run' = [run EXCEPT ![r].pc = NextStep("apply", run[r].pending)]
  /\ UNCHANGED <<content, registry, effects, baselined, lock, edits, faults, swapped>>

(* The file is read again and executed as one transaction.                 *)
ExecuteFile(r) ==
  LET m == Head(run[r].pending).file IN
  /\ run[r].pc = "execute"
  /\ effects' = [effects EXCEPT ![m] = @ \cup {content[m]}]
  /\ swapped' = swapped \cup (IF content[m] = Head(run[r].pending).checksum THEN {} ELSE {m})
  /\ run' = [run EXCEPT ![r].pc = "record"]
  /\ UNCHANGED <<content, registry, baselined, lock, runs, edits, faults>>

(* Defect: the connection outlives the failed run.                         *)
BugExecuteFails(r) ==
  /\ run[r].pc = "execute"
  /\ faults < MaxFaults
  /\ faults' = faults + 1
  /\ run' = [run EXCEPT ![r] = Idle]
  /\ UNCHANGED <<content, registry, effects, baselined, lock, runs, edits, swapped>>

(* The SQL of a file that had opened a transaction fails.  The connection  *)
(* is still inside it: the UPDATE of the exception handler is refused, so  *)
(* that the run stays RUNNING, release_lock is not reached, and the lock   *)
(* goes with the connection.                                               *)
ExecuteFails(r) ==
  /\ run[r].pc = "execute"
  /\ Head(run[r].pending).file \in Transactional
  /\ faults < MaxFaults
  /\ faults' = faults + 1
  /\ run' = [run EXCEPT ![r] = Idle]
  /\ lock' = Unlocked(r)
  /\ UNCHANGED <<content, registry, effects, baselined, runs, edits, swapped>>

(* Any other failure in the try block: a file that cannot be read, SQL     *)
(* outside of a transaction (rolled back as a whole), the INSERT into the  *)
(* registry, the UPDATE to SUCCESS.                                        *)
StatementFails(r) ==
  /\ run[r].mode = "apply"
  /\ run[r].pc \in {"execute", "record", "finish"}
  /\ faults < MaxFaults
  /\ faults' = faults + 1
  /\ run' = [run EXCEPT ![r].pc = "failed"]
  /\ UNCHANGED <<content, registry, effects, baselined, lock, runs, edits, swapped>>

Record(r) ==
  LET rest == Tail(run[r].pending) IN
  /\ run[r].mode = "apply"
  /\ run[r].pc = "record"
  /\ registry' = InsertApplied(Head(run[r].pending))
  /\ run' = [run EXCEPT ![r].pending = rest, ![r].pc = NextStep("apply", rest)]
  /\ UNCHANGED <<content, effects, baselined, lock, runs, edits, faults, swapped>>

(* baseline records the files of its plan and executes none; it leaves no  *)
(* row in migration_runs.                                                  *)
RecordBaseline(r) ==
  LET entry == Head(run[r].pending)
      rest  == Tail(run[r].pending) IN
  /\ run[r].mode = "baseline"
  /\ run[r].pc = "record"
  /\ registry' = InsertApplied(entry)
  /\ baselined' = baselined \cup ({entry.file} \ DOMAIN registry)
  /\ run' = [run EXCEPT ![r].pending = rest, ![r].pc = NextStep("baseline", rest)]
  /\ UNCHANGED <<content, effects, lock, runs, edits, faults, swapped>>

BaselineFails(r) ==
  /\ run[r].mode = "baseline"
  /\ run[r].pc = "record"
  /\ faults < MaxFaults
  /\ faults' = faults + 1
  /\ run' = [run EXCEPT ![r].pc = "unlock"]
  /\ UNCHANGED <<content, registry, effects, baselined, lock, runs, edits, swapped>>

FinishRun(r) ==
  /\ run[r].pc = "finish"
  /\ runs' = [runs EXCEPT ![r].status = "SUCCESS"]
  /\ run' = [run EXCEPT ![r].pc = "unlock"]
  /\ UNCHANGED <<content, registry, effects, baselined, lock, edits, faults, swapped>>

FailRun(r) ==
  /\ run[r].pc = "failed"
  /\ runs' = [runs EXCEPT ![r].status = "FAILED"]
  /\ run' = [run EXCEPT ![r].pc = "unlock"]
  /\ UNCHANGED <<content, registry, effects, baselined, lock, edits, faults, swapped>>

release_lock(r) ==
  /\ run[r].pc = "unlock"
  /\ lock' = Unlocked(r)
  /\ run' = [run EXCEPT ![r] = Idle]
  /\ UNCHANGED <<content, registry, effects, baselined, runs, edits, faults, swapped>>

(* The process or its connection is lost, or a statement outside of the    *)
(* try block raises.                                                       *)
Crash(r) ==
  /\ run[r].pc # "idle"
  /\ faults < MaxFaults
  /\ faults' = faults + 1
  /\ lock' = Unlocked(r)
  /\ run' = [run EXCEPT ![r] = Idle]
  /\ UNCHANGED <<content, registry, effects, baselined, runs, edits, swapped>>

(* A file is changed, between a plan and its execution too, and perhaps    *)
(* back to a text it had before.                                           *)
EditFile(m, text) ==
  /\ m \in Edited /\ edits < MaxEdits
  /\ text # content[m]
  /\ edits' = edits + 1
  /\ content' = [content EXCEPT ![m] = text]
  /\ UNCHANGED <<registry, effects, baselined, lock, run, runs, faults, swapped>>

cmd_create(d) ==
  /\ MayCreate(content, d)
  /\ content' = create_migration(content, d)
  /\ UNCHANGED <<registry, effects, baselined, lock, run, runs, edits, faults, swapped>>

(* cmd_apply, cmd_baseline; cmd_verify changes nothing.                    *)
Command(r) == \E domains \in Choices : PlanApply(r, domains) \/ PlanBaseline(r, domains)

Step(r) == \/ acquire_lock(r) \/ InsertRun(r)
           \/ ExecuteFile(r) \/ ExecuteFails(r) \/ StatementFails(r) \/ Record(r)
           \/ RecordBaseline(r) \/ BaselineFails(r)
           \/ FinishRun(r) \/ FailRun(r) \/ release_lock(r)

Next ==
  \/ \E r \in Runners : Command(r) \/ Step(r) \/ Crash(r)
  \/ \E m \in DOMAIN content : \E text \in Contents : EditFile(m, text)
  \/ \E d \in Domains : cmd_create(d)

Spec == Init /\ [][Next]_vars

(* A started run keeps going; waiters of an advisory lock are served in    *)
(* the order in which they queue.                                          *)
FairSpec ==
  /\ Spec
  /\ \A r \in Runners : WF_vars(Step(r)) /\ SF_vars(acquire_lock(r))

-----------------------------------------------------------------------------
(* Every variable has its type.                                            *)
TypeOK ==
  /\ DOMAIN content \subseteq Files
  /\ \A m \in DOMAIN content : content[m] \in Contents
  /\ DOMAIN registry \subseteq Files
  /\ \A m \in DOMAIN registry : registry[m] \in Contents
  /\ effects \in [Files -> SUBSET Contents]
  /\ baselined \subseteq Files
  /\ lock \in Runners \cup {None}
  /\ \A r \in Runners :
       /\ run[r].pc \in Locked \cup {"idle", "lock"}
       /\ run[r].mode \in {"apply", "baseline"}
       /\ run[r].pending \in Seq(MigrationFile)
       /\ runs[r] \in [status : {"NONE", "RUNNING", "SUCCESS", "FAILED"},
                       planned : SUBSET Files]
  /\ edits \in Nat /\ faults \in Nat
  /\ swapped \subseteq Files

(* Whoever is past acquire_lock holds the lock, and nobody else does: a    *)
(* run that failed or died leaves no lock behind.                          *)
LockExact == \A r \in Runners : lock = r <=> run[r].pc \in Locked

(* A file in the registry was executed, or baselined on request: a crash   *)
(* never leaves a record of a migration that did not happen.               *)
RecordedWasExecuted ==
  \A m \in DOMAIN registry : effects[m] # {} \/ m \in baselined

(* No file takes effect, and none is recorded, before the lower versions   *)
(* of its domain are, whatever runs overlap, fail or are retried, and      *)
(* whatever files are created meanwhile.                                   *)
VersionsInOrder ==
  \A m, n \in Files :
    m < n /\ Domain[m] = Domain[n] =>
      /\ effects[n] # {} => effects[m] # {} \/ m \in baselined
      /\ n \in DOMAIN registry => m \in DOMAIN registry

(* When verify reports no drift and nothing pending, each file took effect *)
(* with the very text that is in it, or was baselined: also if it was      *)
(* executed by several runs, or edited after it was executed, and back.    *)
(* The exception is a file that was edited between a plan and the second   *)
(* read of it: it is recorded with the checksum of the plan, and shows as  *)
(* drift only until the edit is taken back.                                *)
VerifiedIsInPlace ==
  \A domains \in Choices : verify(domains) =>
    \A m \in Selected(content, domains) \ swapped : content[m] \in effects[m] \/ m \in baselined

(* A run reported SUCCESS has recorded everything it planned.              *)
SuccessIsComplete ==
  \A r \in Runners : runs[r].status = "SUCCESS" => runs[r].planned \subseteq DOMAIN registry

(* What is stored can be trusted, at every moment and after every failure  *)
(* and crash: the parts above together.                                    *)
RegistryInv == TypeOK /\ LockExact /\ RecordedWasExecuted /\ SuccessIsComplete

(* Every run comes to an end, whatever the others do while they hold the   *)
(* lock.                                                                   *)
EveryRunEnds == \A r \in Runners : run[r].pc # "idle" ~> run[r].pc = "idle"

=============================================================================
