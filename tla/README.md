# TLA+ models of ApexQuant Ultra

ApexQuant Ultra is a platform of small services, mostly Python (`python/`),
with Rust crates (`crates/`) for the parts shared with the trading side, one
PostgreSQL schema per service (`migrations/postgres/`), ClickHouse, Kafka,
Redis and object storage around them.  Every service works the same way:
request threads read rows, decide, call something outside, and write rows, in
several transactions.  What is hard about it is what happens between two of
these steps.  This directory models the services where that matters most,
checks the models with TLC, and proves the central results with TLAPS.

## 1. Inventory

| Component | State | Operations | What is hard | What makes it correct |
|---|---|---|---|---|
| **Audit log** (`apexquant-audit`: `repository.py`, `hashing.py`, `0001_audit.sql`) | `audit.events`, its identity sequence, an advisory lock | `append_event` | concurrent appends, retries with the same event id, lost connections, identity values that are not transactional | one chain, in the order of `event_seq`, each event once |
| **Audit verification** (same files, `app.py`) | `audit.integrity_checks` | `GET /v1/audit/verify` | two statements beside running appends; what jsonb does to data | reports every change, and no broken link or hash without one |
| **Audit delivery** (`app.py`, `kafka.py`) | `audit.event_delivery`, the topic, the relay task | the end of `ingest_audit_event`, `relay_loop`, restart | two publishers of the same row, failed and half-failed publishes, restarts | at least once; a mark is true and stays |
| **PostgreSQL migrations** (`apexquant-migrations`: `discovery.py`, `planner.py`, `postgres.py`, `cli.py`) | files, `applied_migrations`, `migration_runs`, a session lock | `create`, `apply`, `baseline`, `verify` | plan made before the lock, autocommit, failures inside a file's transaction, crashes, edited files | versions in order, records only of what happened, the lock always comes free |
| **ClickHouse migrations** (`clickhouse.py`) | the same in ClickHouse, a lock file or an advisory lock | `create`, `apply`, `verify` | nothing rolls back; runs that use different locks | a recorded file is whole, versions in order |
| **Backup and recovery** (`apexquant-backup-recovery`) | policy, `backup_runs`, `backup_artifacts`, `restore_runs`, objects, local files | backup, verify, restore, retention, `run_due` | long calls that write back rows they read before; each step can fail | rows and objects agree; retention takes only what it may; restores are on record |
| **Service versioning** (`apexquant-service-versioning`) | services, versions, dependencies, events | register, create, release, deprecate, retire, check compatibility | status checked in one transaction and written in another | lifecycle in order, releases whole, dependencies resolved to the right release |
| **Feature flag control** (`apexquant-feature-flags`, `0001_feature_flags.sql`) | `flags` with its trigger, events, Redis | create, transition, change of rollout, the reconciler's sweep | check-then-act beside other requests and the sweep; overlapping sweeps | the lifecycle holds, every change is accounted for, Redis converges |
| **Feature flag evaluation** (`apexquant-flags`, `apex-flag-engine`) | the current and the pinned snapshot | refresh, pin, evaluate | stale snapshots, two implementations | fail values on stale data, the same verdict in both languages, one state per generation |
| **Disaster recovery** (`apexquant-disaster-recovery`) | plans, components, drills with steps, events; reads the backup tables | create, activate, add, bootstrap, drill, readiness | facts read at different moments, calls that stop half-way | readiness fails closed, a passed drill was a whole one, a bootstrap activates all or nothing |
| **Authentication and RBAC** (`apexquant-auth`, `0002_rbac.sql`, `apex-rbac`) | principals, credentials, grants, roles, events; tokens outside of any table | start, issue, verify, authorize, create and revoke a key, assign a role, sweep | statement-by-statement requests of several replicas, triggers that see committed rows only, a sweep that deletes by what it read | a revoked key gives no token, the matrix is not got round, forbidden assignments go away and others stay |
| Redis lock, event bus outbox, secrets store, service registry, health | a key, a table or a file each | see `PROJECT.json` | little that interleaves within the repository | not modelled, section 7 |
| Configuration validation, environment configuration, container and repository scanners | documents | validation of one document | nothing interleaves | not modelled |
| Gateways, logging, metrics, tracing, S3 and database clients, deployment | none of their own | input and output | — | not modelled |

**How they interact.**  Within a service the request threads (FastAPI runs `def`
endpoints in a thread pool and the audit service uses `asyncio.to_thread`),
background tasks and command-line runs share the database; that is the main way
they meet, besides the backup service's working directory and the Redis cache of
the flags.  Between services there is one such meeting: disaster recovery reads
the tables of the backup service, and `DisasterRecovery` has what the latter does
to them as actions of its own.  The migrators create the tables of all of them.

**Hazards.**  `PROJECT.json` lists what can go wrong at which line and the
properties that would show it.

## 2. Plan

Done, in the order of importance:

1. `AuditLedger`, `AuditLog`: the chain.
2. `AuditVerify` and `AuditDelivery` on top of `AuditLog`; `AuditProofs` for all three.
3. `MigrationPlan`, with `PostgresMigrations` and `ClickHouseMigrations` on top.
4. `Backup`, for one policy.
5. `SemVer`, `ServiceVersioning`.
6. `FlagModel`, `FlagEngine`, `FlagSdk`, composed with the control side in `FlagControl`.
7. `Readiness`, `DisasterRecovery`, beside the backup tables.
8. `Rbac`, `Auth`; `AuthProofs` for the permission language and the service.
9. Proofs of the other services: `ServiceVersioningProofs`; `PostgresMigrationsProofs`
   and `ClickHouseMigrationsProofs`; `FlagControlProofs`; `DisasterRecoveryProofs`;
   `BackupProofs`.

Every invariant and every action property that a run checks is now a theorem as well.
What is left are the four liveness properties, which the prover cannot reach,
`HealthFailureCaps`, which the code does not keep, and the components of section 7.

## 3. The modules and the code

Conventions.  A state variable has the name of the table or object it stands
for; a request, command or task is a record with a program counter `pc` whose
values are the points between two statements.  An action is what one statement
or external call does, together with the Python around it.  A step that raises
is an action of its own and does what the surrounding handlers do.  Values that
no rule looks at are left out; texts (JSON, SQL, versions) are reduced to the
distinctions the code makes.  Operators called `Bug...` are plausible defects of
the definition that follows them; nothing uses them but the mutation of that
definition, which shows that a property notices.

**AuditLog** models `PostgresAuditRepository.append_event` on `audit.events`.
`events` are the committed rows in the order of their commits, `identity` the
sequence of the identity column, `chainLock` the transaction-level advisory
lock, `tx[w]` the transaction of a thread.  `BeginAppend`, `LockChain`,
`ReadHead`, `Insert`, `CommitRow` and `SelectExisting` are its statements;
`Abort` is a lost connection before the commit.  `Insert` draws an identity
value before it finds a conflict and never gives it back.  A hash is the
sequence of everything hashed into it, that is, SHA-256 is taken to be free of
collisions.  `Committed` and `Row` are the table by its primary key, as the two modules
on top of it read it.  `Data` keeps the one conversion that matters: `json.dumps` spells a
large float `1e+16`, and jsonb gives it back as an integer (`stored`).

**AuditLedger** is what the log promises: a list that grows at its end, without
a repeated event id or idempotency key.  `AuditLog` implements it with the
refinement mapping `ledger <- HeadHash`: the ledger is read off the hash of the
latest row.

**AuditVerify** adds the verification request.  `ReadPrevious` and `CheckRange`
are its two statements, `verify_chain` the algorithm.  The loop over the rows in
ascending `event_seq` is written without a loop: the row before row *s* is the greatest
one below it (`Previous`), and `expected_seq` is the first row's number plus the number
of rows below *s* (`SequenceGap`).

**AuditDelivery** adds what follows the append.  `IngestFetch` looks the row up
the way `ingest_audit_event` does, with the event id as *request id*;
`IngestPublish`/`IngestRecord` and `RelayFetch`/`RelayPublish`/`RelayRecord` are
the two publishers.  A batch of the relay is a set, since its rows are taken in the
order of `event_seq`.  `Publish` may fail after the broker stored the message.
`RelayDies` is a database error in `relay_loop`, which handles none; `Restart`
is the end of the process and a new start.

**MigrationPlan** has `discover_migrations`, `build_plan` and `create`; a file is
its position in the order (domain, version), its content stands for its checksum.
**PostgresMigrations** has `create`, `apply`, `baseline` and `verify`:
`PlanApply`/`PlanBaseline` before the lock, then `acquire_lock`, `InsertRun`,
`ExecuteFile`, `Record`, `FinishRun`, `release_lock`.  `ExecuteFails` is a failure
inside a file's own BEGIN...COMMIT: the handler's UPDATE is refused by the aborted
transaction, so `release_lock` is skipped and the lock goes with the connection.
`StatementFails`, `BaselineFails` and `FailRun` are the other failures, `Crash` is
the end of the process.  **ClickHouseMigrations** executes statement by statement,
with the lock each run's configuration selects (`LockOf`).  Both keep, per file,
the text that was executed, which is read again after the plan was made; the
checksum recorded is the plan's.  A file may be edited and put back to what it was at
any time (`EditFile`); the history variable `swapped` has the files that were executed
with another text than the one planned.  In ClickHouse the advisory lock has a PostgreSQL
connection of its own: `LoseLock` loses it while the run goes on (`dropped`).

**Backup** has the calls of `BackupService` for one policy, step by step.
`task[w].row` is the run row a call has read and will write back as a whole;
`restored` are the runs whose dump `pg_restore` has read.  Whether a dump that was
downloaded has the recorded checksum is open, since local files are shared.
`BackupFails` is the handler of `create_backup`, `ComesDue` and `PassesExpiry` are
time.  `Expired` are the positions of the artifacts that `apply_retention` has selected;
it goes through them from the newest to the oldest, hence `Newest`.

**SemVer** has the comparison and the compatibility rule, **ServiceVersioning**
the requests, one transaction per action: a lifecycle request first reads
(`release_version`, `ChangeStatus`), then writes (`update_version_release`,
`update_version_status`), then inserts its event.  The text of a version is a
value, and the constant `Parsed` gives the parts `SemVer.parse` finds in it: the
rows, keys and requests hold texts, every comparison parses them, as in the code.

**FlagModel** is the vocabulary of flags; **FlagEngine** has the evaluator and the
provider in Rust, **FlagSdk** those in Python, each translated from its own source,
with the `reason` of a verdict as each of them gives it.  `DeterminismSpec_load` is the
load of the fixture in Python: it reads the seed, which YAML has already turned into a
number, as the digits of a hexadecimal one (`AsHex`), and raises if the result is not
the seed it expects; a `FlagProvider` is then not constructed and gives no verdict.  The
seed is one of `Seeds`, small numbers in place of the 64-bit one.
**FlagControl** puts them behind the service: `transition` and `update_rollout`
read and check, `Write` writes the row that is there by then through
`enforce_safety_invariants`, `Audit` and `Publish` follow.  The reconciler's
`run_once` is `ListActive`, `Compare`, `redis_put`, `ListZombies`, `ForceRetire`, and
`SweepRaises` is an exception that ends a sweep in any of them;
`swap` and `pin` are the store of an engine.  The repository class and the
refresher are not in the source tree and are modelled from their use.

**Readiness** has `score_readiness` in exact fractions and the checks of a drill.
**DisasterRecovery** has the service and the drill engine: every repository call
is an action, the event of a write is pending in `call[t].event` until
`record_event`.  `BackupSucceeds` and `BackupChanges` are the backup service,
`HealthChanges` the endpoints.

**Rbac** is the permission language and the matrix, a permission being the
sequence of its segments.  **Auth** has the service statement by statement over an
autocommit pool: the start (`lifespan`, `ensure_bootstrap`), `issue_token`
(`get_credential_with_principal` to `sign_token`), `create_api_key`,
`revoke_api_key`; `InsertRole`/`CommitRole` are an administrator's transaction with
the triggers at the INSERT; `CountRoles`, `ReadRoles`, `ReadGrants`, `Remediate` are
the sweep.  `revoked`, `lost` and `overlapped` are history variables, as is `late` in a
token: the keys revoked (the bootstrap key only until the next start, which makes it
ACTIVE again), the events lost in a crash, and the pairs of roles whose assignments to
one principal were open at the same time in two transactions.

The `MC...` modules give the constants their values.

## 4. What TLC checks

| Run | Instance | Shows |
|---|---|---|
| `audit_log` | 2 threads, 4 events, two with the same idempotency key, 3 identity values, a verifier with ranges of one and of all rows; symmetric threads | `ChainLinked`, `SeqOrdered`, `RecordNamesRow`, and `LedgerSpec`: the log implements the ledger; `NoFalseHashAlarm`: while events are appended no link is reported broken, and a hash only for respelled data; `TamperedRowReported`, `RemovedRowReported`: in every reachable log, a change of any hashed field of a sound row, and any removal but that of the last row, would be reported |
| `audit_delivery` | a request thread and the relay, 3 events of which the broker never takes one, batches of 2, 2 failures, 1 restart | `MarkedOnlyIfSent`; `PublishedForGood`; `EventuallySent`: at least once, behind an event that can never be sent |
| `postgres_migrations` | 2 runs, 2 versions of a domain, the first there at the start and without BEGIN, the second created; 2 edits, which may take each other back, 1 fault | `RegistryInv`: types, `LockExact`, `RecordedWasExecuted` and `SuccessIsComplete`; `VersionsInOrder`; `VerifiedIsInPlace`: what `verify` calls fine is the text that was executed, but for files edited between a plan and its execution; `EveryRunEnds` |
| `clickhouse_migrations` | 3 runs, two of which share a lock, 2 versions of a domain, one of two statements, 1 edit, 1 fault, which may be the loss of the advisory lock's connection | `VersionsInOrder`: a recorded file is whole, and no version precedes a lower one; `VerifiedIsInPlace` |
| `backup` | 2 threads, 2 backups, 1 restore, five policies, 1 fault | `BackupInv`: types and `RestoresAccounted`; `ObjectsAccounted`, `SucceededHasArtifact`, `KeptWithinRetention` |
| `service_versioning` | 2 threads, 4 versions of two services, 1 dying request | `VersionInv`: types and `EventsAreTrue`; `ReleasedIsWhole`, `LifecycleInOrder`, `ResolvedIsHighest` |
| `feature_flags` | 2 threads, 2 reconcilers, a safety-critical flag of at most 3 generations before the last requests, 1 failure, of a request or of a sweep | `FlagInv`: types and `AuditAccounted`; `LifecycleHolds`, `ActiveConverges` |
| `flag_serving` | 1 thread, 1 reconciler, 1 engine; a percentage and a list flag; times at and just past the limit of a second; a seed that the SDK reads and one that it misreads | `StaleSafetyIsOff`; `EnginesAgree`: a provider that could be constructed answers as the Rust engine does, from the same rung of the ladder; `GenerationNamesOneState` |
| `disaster_recovery` | 2 callers, one of which also drills; two default components and one of an operator with a name that collides; 1 backup, 1 drill, 1 fault; times at the two ends of an RPO | `DrInv`: types, `EventsAccounted` and `RunningIsRun`; `FailClosed`: with a required backup that is not fresh the score is at most the cap for backups, and with a failed health check it is at most 89 and the plan not READY; `SucceededDrillIsWhole`, `BootstrapActivatesWhole` |
| `readiness_cap` | the same | expects a violation of `HealthFailureCaps`, that a failed health check caps the score at 79 |
| `auth` | 2 replicas, 2 administrators, the bootstrap key and one more, 2 live tokens, 3 roles in two exclusions, one of them of roles that the same plane may hold, 1 fault | `NoTokenAfterRevocation`, `RevokedStays`; `ExclusiveOnlyByOverlap`: exclusive roles meet in a principal only out of two transactions that were open side by side; `LayersAgree` |
| `rbac_sweep` | 1 replica, 1 administrator, 1 sweep, a forbidden grant and a role with a forbidden permission, 1 fault | `SweepTakesOnlyViolations`, `ForbiddenRemoved` |

**Bounds.**  `MaxSeq` (identity values), `MaxFailures`, `MaxRestarts`, `MaxEdits`,
`MaxFaults`, `MaxCrashes`, `MaxRuns`, `MaxRestores`, `MaxGeneration`, `MaxBackups`,
`MaxDrills`, `MaxTokens`, and the finite `Times` bound what the code leaves open.
They are chosen so that the case a property is about happens: `MaxSeq` leaves room
for a burnt value in front of a row; two runs and a fault are enough for a run to
die with the lock while another waits with an old plan; two backups are enough for
retention to expire one; two writers are enough for one to wait for the lock that the
other holds (the theorems are for any number); chains of three rows let a row be taken out of the middle;
three generations let a sweep hold a row that two requests have changed since; two
tokens let one caller revoke the key another is using; of two threads each can
write between the other's read and write.  A request, run or backup may be repeated
without limit within these bounds.  `feature_flags` and `flag_serving`, like `auth`
and `rbac_sweep`, are two instances of one module: the questions need different
actors, and all actors together are too many states.

**Fairness.**  `AuditDelivery`: weak fairness of the relay's steps; the event
loop keeps running a task that is ready, and `send_and_wait` returns or raises.
Nothing is assumed of requests, of the broker's answers or of restarts.
`PostgresMigrations`: weak fairness of the steps of a started run, and strong
fairness of `acquire_lock`, because PostgreSQL queues the waiters of a lock in
order; starting runs and crashes are not fair.  `EveryRunEnds` then says that no
waiter is left behind by a run that fails in any way while it holds the lock.
`FlagControl` and `Auth`: weak fairness of each reconciler, which is there to be run
every `SWEEP_INTERVAL_SECONDS` and "every 30s (scheduled)"; requests are not fair, and neither is the failure of a
sweep.

**Deadlock** is checked in all runs but two: `clickhouse_migrations`, where an
edited file that is already recorded refuses every later `apply`, and `backup`,
where nothing can be done for a disabled policy.

## 5. What is proved

Eight modules hold the proofs.  `AuditProofs` proves, for every number of threads, events
and keys and for any behaviour of `AuditLog`:

- `TypeCorrect`: `Spec => []TypeOK`;
- `ChainNeverForks`: `Spec => []ChainLinked`;
- `RowsCommitInOrder`: `Spec => []SeqOrdered`;
- `RecordsNameRows`: `Spec => []RecordNamesRow`;
- `LogImplementsLedger`: `Spec => LedgerSpec`.

Assumptions: those of `AuditLog` (the inputs are audit fields, `None` and `NoKey`
are no worker, input or key, `MaxSeq` is a natural number).

None of the three invariants is inductive: they do not say why what a
transaction has read is still true when it commits.  `IndInv` adds

- `LockHeld`: whoever is past the first statement holds the chain lock, so that
  of the transactions between lock and commit there is one;
- `HasFields`: a transaction has the fields that were submitted;
- `SeqBelow`: identity values in the table and in the transaction to be committed
  are behind the counter, and the latter is ahead of the table;
- `HeadRead`: the hash a transaction read is still that of the last row;
- `StillFresh`: event id and key that the INSERT found free are still free;
- `HashCoversPrefix`: the hash of row *i* is over the first *i* events.

`CommitIndInv` shows that the commit keeps all of it (the step where everything is
used), `StepIndInv` goes through the other actions, where the table is unchanged.
`HeadIsLast` connects `ORDER BY event_seq DESC LIMIT 1` with the row committed last,
which is where `SeqOrdered` is needed.  For the refinement, `HashCoversPrefix`
turns "free in the table" into "fresh in the ledger"; every action but `CommitRow`
is a stuttering step.  `RecordsNameRows` is proved with `IndInv` as a hypothesis
of the step.

Of `AuditDelivery`, for any number of failures and restarts, any batch size and any set
of events the broker never takes (`DeliveryAssumption`):

- `MarkedRowsWereSent`: `DSpec => []MarkedOnlyIfSent`;
- `PublishedStays`: `DSpec => PublishedForGood`;
- `DeliveryKeepsLedger`: `DSpec => LedgerSpec`, the log is still a ledger with requests and
  the relay beside it and a restart at any point.

The invariant `DeliveryInv` adds to `IndInv` and `RecordNamesRow` what the two publishers
rely on: `IngestTrue` (the row a request is about to publish was found by the id of its own
event, and an answer "sent" means that it is in the topic) and `RelayTrue` (the same of the
first row of the batch).  Their rows stay what they were, because the table is only ever
appended to (`OnlyAppended`, `RowKept`), also by a restart, which rolls back.

Of `AuditVerify`, for any range and limit (`LimitsAssumption`: a limit is at least 1):

- `NoFalseAlarm`: `VSpec => []NoFalseHashAlarm`;
- `TamperingIsDetected`: `VSpec => []TamperedRowReported`, for the fields that are hashed
  (`received_at` is not one of them);
- `RemovalIsDetected`: `VSpec => []RemovedRowReported`.

`VerifyInv` adds `RowsHashed` (a row's hash is over the fields submitted, of which the
table holds the respelled form), `VerifierTrue` (the hash read before the range is still
the one of the row in front of it) and `SeqBound`.  The central lemma is `WalkMeetsLink`:
wherever a range begins and ends, what verify_chain has in `prev_hash` when it reaches a row
is what the row was linked to at its commit.  It needs that the range query leaves out no
row between two of its results (`RangeIs`), that the row before in the range is the row
committed before (`Predecessor`), and `SeqOrdered` and `ChainLinked` of the log.
`TamperingIsReported` then needs that two different rows have different hashes on the same
predecessor (`HashesDiffer`); `RemovalIsReported`, that the row two places before has
another hash than the one removed, because hashes grow along the chain.

`AuthProofs` first proves of the permission language, for every matrix, every set of
planes and permissions of any length:

- `OverlapComplete`: two patterns that cover a common request overlap, one of them
  covering the other.  By `ShorterOverlaps` it is the shorter one, but for the case
  that both have the same length and the other one ends in the wildcard;
- `GrantsMissOnlyInnerWildcards`: so if `validate_grant` accepts a grant that covers a
  request the matrix forbids, the grant or the pattern that forbids it has a wildcard
  elsewhere than in its last place;
- `InnerWildcardIsAccepted`: and this happens with the shipped matrix.  `*:read` is
  accepted for a restricted plane and covers `execution:read`, which `authorize` then
  refuses;
- `EvaluatedIsAuthorized`: on assignments found GRANTED `authorize` refuses nothing a
  grant covers;
- `MatcherSound`: the matcher of `permissions.py` allows nothing that `covers` would
  not.

`OverlapComplete` and `EvaluatedIsAuthorized` assume that the wildcards of a pattern are
in its last place (`TrailingOnly`), which is so for every pattern of the matrix; a grant
may have them anywhere.

It then proves of `Auth`, for any number of replicas, administrators, sweeps,
subjects, keys and roles, with calls that die anywhere:

- `AuthTypeCorrect`: `Spec => []AuthTypeOK`, every key, grant and role has its
  principal;
- `RevocationHolds`: `Spec => []NoTokenAfterRevocation`, and `RevocationIsForGood`:
  `Spec => RevokedStays`;
- `KeysAreAccountedFor`: `Spec => []KeysAccounted`;
- `ExclusionHoldsWithoutOverlap`: `Spec => []ExclusiveOnlyByOverlap`, whatever the
  planes are bound to; and `BindingsKeepRolesApart`: `Spec => []RolesApart`, when no
  plane is bound to all roles of an exclusion (`ExclusionsAreBound`; the seeded roles
  are so);
- `LayersAlwaysAgree`: `Spec => []LayersAgree`, when the matrix has its wildcards in
  the last place (`TrailingMatrix`), from `EvaluatedIsAuthorized`;
- `MatchersAlwaysAgree`: `Spec => []MatchersAgree`, from `MatcherSound`;
- `SweepIsSelective`: `Spec => SweepTakesOnlyViolations`.

Assumptions: `RbacAssumption` and `AuthAssumption` (the constants have their types,
`None` is no row, DEFAULT_PLANE is a plane, no generated key is called bootstrap, an
exclusion is two distinct roles).

The inductive invariant is `AuthInv`.  `NoTokenAfterRevocation` needs `RevokedRows`
(the row of a revoked key says so, hence a lookup that admits a key does not come
late) and `NotLate` (no call in progress came late); `RevokedRows` and `RevokedStays`
need `NewKeys` (a key in creation has no row, and no other call knows it, so that
`create_credential` overwrites nothing); `KeysAccounted` needs `EventAtPc` (an event is
pending only where the call is about to record it).  `RowsOwned` needs `CallTargets`
(the principal a call works for exists, since none is ever deleted).  `BoundRoles` says
of roles held, and of roles in an open transaction, that the plane of the principal is
bound to them; planes do not change, so the check made at the INSERT still holds at the
commit, which the exclusion trigger cannot say of its own.  `OpenByOverlap` says what it
can: the role in an open transaction excludes one that the principal holds only if the
two were assigned in transactions that overlapped.  The steps are not gone
through once per conjunct: `CallEffects`, `CredentialEffects`, `TokenEffects` and
`StoreEffects` each say once, by cases over the actions, what a step may do to a call,
to the keys, to the tokens and to the other tables, and the conjuncts follow from these.

The proofs of the services that follow have one shape.  A call is a record, and an
operator over such a record (`StillTrue`, `CallOk`) says what the call has found out and
still relies on.  Another one (`OnlyGrows`, `RowsGrow`, `Grows`) says what no step ever
takes back from the tables.  One lemma shows that the first is stable under the second, so
that a step has to be looked at only for the call that takes it and for the tables that it
writes.  That is also the argument why these check-then-act services, which take no lock,
are right as far as they are: what their checks look at is monotone.

`ServiceVersioningProofs`, for any number of threads, services, versions and requests:

- `TablesAgree`: `Spec => []VersionInv`; `ReleasesAreWhole`: `Spec => []ReleasedIsWhole`;
  `LifecycleKept`: `Spec => []LifecycleInOrder`;
- `ResolutionIsHighest`: `Spec => ResolvedIsHighest`.

Assumptions: `ParsedAssumption` (a parsed version is three numbers and a list of
identifiers) and `VersioningAssumption` (a request names a service once; `None` is no
checksum).  The inductive invariant `VersioningInv` adds `ReadsStillTrue`: the version that
a request has read still exists when it writes, has not returned to DRAFT, and has kept its
stamps (the times at which it was released, deprecated and retired); a request about to
insert its event has written what the event tells.  `ResolutionIsHighest` rests on
`StableCompared` and `LinesCompared`, by which the comparison of stable versions is that of
their number triples, and on `NewestExists`: among finitely many rows that are acceptable
one is the highest, so that the CHOOSE that stands for the loop of the code chooses.

`PostgresMigrationsProofs` proves, for any number of runs, files, domains, edits and faults:

- `RegistryIsTrue`: `Spec => []RegistryInv`;
- `VersionsStayInOrder`: `Spec => []VersionsInOrder`;
- `VerifyIsSound`: `Spec => []VerifiedIsInPlace`.

Assumptions: `FilesAssumption` and `MigrationsAssumption` (the files there at the start
leave out no lower version of their domain; a created file has BEGIN and COMMIT).  The
invariant `MigrationInv` has `PlansStillTrue`: a plan made before the lock names files that
exist with a checksum of some text, and every lower version is recorded by now, or
earlier in the same plan; a run that is about to record has executed (`Executed`: the text
of that checksum, or the file is in `swapped`); what is left of a plan and the registry
cover what `migration_runs` says was planned.  `VersionsInOrder` follows from the plans,
although they are older than the lock: the registry never loses a row.  `PendingIs` and
`CreateIs` are the lemmas about `build_plan` and `create`: every lower version of a domain is
recorded or planned before, and a created file leaves none out.  They rest on
`ListingExists`, that finitely many files can be put in order.

`ClickHouseMigrationsProofs` proves, for any number of runs, locks, files, statements,
edits and faults:

- `VersionsStayInOrder`: `Spec => []VersionsInOrder`;
- `VerifyIsSound`: `Spec => []VerifiedIsInPlace`;
- `LocksExclude`: `Spec => []ExclusiveByLock`, runs with the same lock are both past it
  only if it is the advisory lock and one of them has lost its connection.

`VerifyIsSound`, here as for PostgreSQL, is for any number of edits, also such as bring an
earlier text back, and says nothing of the files in `swapped`: section 6.

Assumptions: `FilesAssumption` and `ClickHouseAssumption` (every file has a statement, a
created one exactly one).  It has the same lemmas about plans, over its own variables.  Its
`MigrationInv` differs where ClickHouse does: nothing rolls back, and a later row replaces
the registry's.  `StillTrue` says how far a run has come (`Ran`: the first `at` statements
of the text that was read have been executed, and it is the plan's unless the file is in
`swapped`), and `RegistryTrue` that a recorded file is whole, in the text of its checksum
unless it is in `swapped`.  `LocksExact` is not used for the first two theorems: the order of versions
does not depend on the exclusion that runs with different locks do not have, only on plans
that leave out no version and on what was executed being there for good.

`FlagControlProofs`, for any number of threads, reconcilers, engines, flags, contexts and
times:

- `FlagsAreAccounted`: `Spec => []FlagInv`; `LifecycleKept`: `Spec => LifecycleHolds`;
- `GenerationIsIdentity`: `Spec => []GenerationNamesOneState`;
- `StaleSafetyStaysOff`: `Spec => []StaleSafetyIsOff`;
- `EnginesAlwaysAgree`: `Spec => []EnginesAgree`;
- `ReasonsDiffer`: for every flag, context and time the two evaluators give the same reason
  exactly where they fall back on the fail value.

Assumptions: `FlagAssumption` and `ControlAssumption` (hashes are natural numbers, rollouts
are at most the modulus, payloads have the types of the model).  The key of `ControlInv` is
`CopyOf`: wherever a copy of a row is (Redis, the list of a sweep, the row about to be put,
a current or a pinned snapshot), its generation is at most that of the row, and if it is
the same, the copy is the row.  Copies may be old, but a generation names one state.
`EventsExact` counts generations: a generation the row has reached is recorded, lost, or
owed by exactly one request.  Of the engines, `SameVerdict` shows that both evaluators come
to the same verdict on every flag and context, where `SameEntity` connects the search of
Rust in the list of attributes with the dictionary of Python, and `SameLadder` shows that
both providers fall back on the fail value for the same snapshots, ages and flags.

`DisasterRecoveryProofs`, for any number of threads, plans, components, drills, backups and
times:

- `RecoveryIsAccounted`: `Spec => []DrInv`;
- `ReadinessFailsClosed`: `Spec => []FailClosed`;
- `PassedDrillsAreWhole`: `Spec => []SucceededDrillIsWhole`;
- `BootstrapIsAllOrNothing`: `Spec => BootstrapActivatesWhole`.

Assumptions: `DrAssumption` (the default components have distinct names; `None` is no plan).
`ScoreIs` is about `score_readiness` as such: whatever the numbers of requirements and
checks, a score above the cap means that every required backup is fresh; with a failed
applicable health check it is at most 89, since the ten points of a drill are added after
the cap of 79, so that the plan is not READY, at 90.  `RecoveryInv` adds, of drills, `DrillsApart` (no two calls run the
same drill) and `StepsOk` (the steps stored so far have all succeeded unless the call
remembers a failure, and at its end there are five); of a bootstrap, `TodoOk` (what is
not in the list any more is in the plan, under any interleaving with other calls); of
events, `EventsExact` (a row and its event come together: the event is stored, lost in a
crash, or pending in exactly one call).

`BackupProofs`, for any number of threads, policies, runs, restores and faults:

- `BackupsAreAccounted`: `Spec => []BackupInv`;
- `DumpsAreAccounted`: `Spec => []ObjectsAccounted`;
- `SuccessHasItsArtifact`: `Spec => []SucceededHasArtifact`;
- `RetentionKeepsWhatItMust`: `Spec => []KeptWithinRetention`.

Assumption: `BackupAssumption` (policies are such as the API accepts, `None` is no row,
number or status).  Here not everything is monotone: dumps come and go.  `RecordsInv`
therefore has `OneArtifact` (a run has one artifact) and `BackupsApart` (no two calls back
up the same run), by which deleting the dump of an artifact takes away no other one's, and
a dump that is stored late belongs to a run without an artifact, never to a DELETED one.
`ReadOk` says of the row that `verify_backup` will write back that it claims no success
without an artifact, which stays true because artifacts are never removed, however stale
the rest of the row is.  `RetentionOk` says that what a retention call found due stays
due: `BehindAre` turns the index in the sorted list of ACTIVE artifacts into a number of
newer ones, which can only grow.

**Only model-checked**: `ForbiddenRemoved`, `EventuallySent`, `EveryRunEnds` and
`ActiveConverges`, which are about fairness and need ENABLED, out of the prover's reach.

## 6. What the models show about the code

The properties of all runs but `readiness_cap` hold.  What follows is behaviour that they had to allow for, or that
the models make visible; some of it is at odds with what the repository says.

*Audit.*
- A retried event, a rejected idempotency key or a rollback burns a value of
  `event_seq`.  `verify_chain` reports the gap and, because it counts rows from the
  first one, every row behind it (`hashing.py:111`), for a log nobody touched.
- A float of 1e16 or more in `data` makes an untouched row fail verification with
  EVENT_HASH_MISMATCH; `NoFalseHashAlarm` shows that this is the only case.
- `ingest_audit_event` publishes a row it finds by request id, and records the outcome
  for its own row: `MarkedOnlyIfSent` has to allow for that.
- One database error ends `relay_loop` for the life of the process (`EventuallySent`
  excludes it), and as many unsendable rows as a batch holds would block the rest.

*Migrations.*
- An `apply` executes what a run that held the lock before it has just recorded, since
  its plan is older than its lock.  `VersionsInOrder` holds all the same.
- The checksum recorded is the plan's, the text executed is read later
  (`postgres.py:292`, `clickhouse.py` alike).  If the file was edited in between and the
  edit is taken back afterwards, `verify` calls fine a text that was never executed.
  `VerifiedIsInPlace` shows that these files (`swapped`) are the only ones.
- A failure inside a file's transaction leaves the run RUNNING in `migration_runs`.
- ClickHouse runs with and without a PostgreSQL URL do not exclude each other.  The
  connection that holds the advisory lock is not used while the files are executed
  (`clickhouse.py:111`): if it is lost, the run goes on and another one can start.

*Backup.*
- `verify_backup` writes the whole row it read before the download
  (`service.py:190`): a run that succeeded meanwhile is RUNNING again, for good.
- All restores of a run, dry runs too, use the same local file: it can be truncated
  between the check of its checksum and `pg_restore` (`service.py:234`).
- A crash between EXPIRED and `delete_object` leaks the object; artifacts of failed runs
  count for retention; `next_run_at` moves only after a success.

*Versioning.*
- `release_version` reads the status in one transaction and writes in another without a
  condition: a version can be released again after it was deprecated or retired.
- A version whose creation dies before `set_dependencies` has no dependencies for good
  and passes every compatibility check.

*Flags.*
- The reconciler compares ACTIVE flags only (`reconciler.py:38`): a flag that was
  disabled or retired stays in Redis as it was.  What bounds this is the age limit of
  snapshots, not the repair; `ActiveConverges` therefore speaks of ACTIVE flags.
- A request that read an ACTIVE row can still change the rollout of a flag that was
  retired since.  `force_retire` is neither audited nor published.
- The engines give the same answers, but not the same reasons: wherever a flag itself
  decides, Rust has "enabled" or "disabled" and Python the list or the type
  (`ReasonsDiffer`).  `evaluator.py:1` says "Byte-for-byte conformant", and
  `test_flag_conformance.py:54` and `conformance.rs:107` compare the reasons of both with
  one file, `conformance_vectors.json`, which has "enabled" at line 23 and "denylisted"
  at line 63.
- `DeterminismSpec.load` in Python raises with the fixture the repository ships
  (`determinism.py:22`), so that no `FlagProvider` is constructed with it.

*Disaster recovery.*
- `run_drill` raises after it has stored its outcome, because `record_event` is given a
  dict (`drill_engine.py:132`): DR_DRILL_COMPLETED is never recorded.
- The cap for a failed health check is applied before the ten points of a passed drill
  (`scoring.py:74`, `79`): 89 is possible where the cap says 79.  READY, at 90, is not.
  The run `readiness_cap` shows it: a backup, a drill that passes while the endpoint
  answers, then a report while it does not.  `test_scoring.py:79` asserts at most 79 for
  such an input, for which the code gives 85.
- READY is possible without any drill, and with one unverified backup among several.
- A bootstrap that stops half-way leaves a DRAFT plan, and every later bootstrap returns
  it as it is.  A crash leaves a drill RUNNING for good.
- With health checks disabled an endpoint without an answer counts as unhealthy in the
  score and as healthy in a drill.

*Authentication.*
- A second start with `migrate_on_start` raises, since `0002_rbac.sql:190` adds a
  constraint that exists by then; the instances start without migrating.
- `service.authorize` asks `has_permission` only, never the matrix, and `create_api_key`
  does not call `validate_grant`: an AI principal can be given `execution:submit` and use
  it, until a sweep takes it away; a live token keeps it longer.
- The overlap test misses patterns that cross, such as `*:read` and `execution:*`
  (`InnerWildcardIsAccepted`).
- The sweep deletes all direct grants of a principal without a role.  The service itself
  never assigns one, so this is every key it creates, and the bootstrap key.  A role
  assigned between the count and the deletion comes too late.
- Every start makes the bootstrap key ACTIVE again.  `expires_at` of a key is stored and
  not compared; `token_revocations` is not used.
- Two transactions can pass the exclusion trigger side by side, since neither sees the
  other's row (`0002_rbac.sql:141`): `ExclusiveOnlyByOverlap` shows that exclusive roles
  meet in no other way.  The pair that the migration seeds is kept apart by its planes.

## 7. What is not modelled, and why

Within the modelled components: HTTP, metrics, and the columns and texts no rule
reads; redaction and the S3 client of the backup service; more than one backup policy
(they share nothing but the thread pool); queries that only list rows; parsing of
version texts and SQL; signatures and hashes; `log_denial` and the violation and audit
rows the RBAC sweep writes about itself; the in-memory repositories of the tests.

Other components: no service of the repository takes the Redis lock, and the event bus
has an outbox without a relay, so that there is no critical section and no delivery to
state a property of.  The service registry and the market data registry are upserts and
reads of single rows; health aggregates independent probes and keeps nothing.  The
secrets store is a tool for one operator over one file.  Validators, scanners and clients
are sequential code over one document or one connection: tests reach them, and a model
would only repeat them.
