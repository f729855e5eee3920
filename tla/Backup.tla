------------------------------- MODULE Backup -------------------------------
(***************************************************************************)
(* BackupService of apexquant-backup-recovery for one policy: backups,     *)
(* verifications, restores and retention, called by request threads that   *)
(* share the database, the object storage and the working directory and    *)
(* take no lock.  A row is named by its position, and the storage key of a *)
(* dump by its run.  Requests that are refused before anything is written  *)
(* (a disabled policy, a restore without confirm, a production restore     *)
(* without leave, a target that does not resolve) are no steps.            *)
(***************************************************************************)
EXTENDS Integers, Sequences, FiniteSets

CONSTANTS Workers,
          Policies,     \* the policies create_policy may be given
          Resolvable,   \* connection references to variables that are set
          None,         \* NULL
          MaxRuns,      \* bound: rows of backup_runs
          MaxRestores,  \* bound: calls of restore_backup that get to a row
          MaxFaults     \* bound: calls that raise, threads that die

VARIABLES policy,            \* the row of backup_policies, or None
          next_run_at,       \* of the policy: None, "later", or "due"
          backup_runs,       \* rows in the order of create_run
          backup_artifacts,  \* rows in the order of created_at
          restore_runs,      \* rows in the order of create_restore
          objects,           \* runs whose dump is in the object storage
          restored,          \* runs that pg_restore has read for a target
          task,              \* the call each thread is in
          faults

tables == <<policy, next_run_at, backup_runs, backup_artifacts, restore_runs>>
vars == <<tables, objects, restored, task, faults>>

(* retention_days is only told apart by whether it is set.                 *)
BackupPolicy == [target_system : {"POSTGRES", "CLICKHOUSE", "OBJECT_STORAGE", "REDIS"},
                 target_connection_ref : STRING, enabled : BOOLEAN,
                 retention_count : Nat \cup {None}, retention_days : BOOLEAN,
                 delete_expired : BOOLEAN]

(* The body of a request for a policy: what is to be kept is not 0.        *)
PolicyCreateRequest == {p \in BackupPolicy : p.retention_count # 0}

BackupRun == [status : {"RUNNING", "SUCCEEDED", "FAILED"},
              verification_status : {None, "SUCCEEDED", "FAILED"}]

(* aged: expires_at <= now.                                                *)
BackupArtifact == [run : 1..MaxRuns, status : {"ACTIVE", "EXPIRED", "DELETED"}, aged : BOOLEAN]

RestoreRun == [run : 1..MaxRuns, status : {"DRY_RUN", "RUNNING", "SUCCEEDED", "FAILED"}]

ASSUME BackupAssumption ==
  /\ \A p \in Policies : p \in PolicyCreateRequest
  /\ None \notin Nat \cup BackupPolicy \cup BackupRun \cup {"SUCCEEDED", "FAILED", "later", "due"}
  /\ MaxRuns \in Nat /\ MaxRestores \in Nat /\ MaxFaults \in Nat

RunIds == 1..MaxRuns

NewRun == [status |-> "RUNNING", verification_status |-> None]

(* A call; expired are the artifacts a retention has still to expire.      *)
Call(op, pc, run, row, expired) ==
  [op |-> op, pc |-> pc, run |-> run, row |-> row, restore |-> 0, expired |-> expired]

Idle == Call("none", "idle", 0, NewRun, {})

-----------------------------------------------------------------------------
get_policy == policy
get_policy_by_name == policy
get_run(r) == IF r \in 1..Len(backup_runs) THEN backup_runs[r] ELSE None

get_artifact_by_run(r) == \E i \in 1..Len(backup_artifacts) : backup_artifacts[i].run = r

(* Positions of the policy's artifacts: the higher, the newer.             *)
list_artifacts == 1..Len(backup_artifacts)

Newest(artifacts) == CHOOSE i \in artifacts : \A j \in artifacts : j <= i

(* The policies run_due finds due.                                         *)
list_policies == {p \in {policy} : p # None /\ p.enabled /\ next_run_at = "due"}

update_policy_next_run == next_run_at' = "later"

create_run(row) == backup_runs' = Append(backup_runs, row)

(* update_run writes every column from the row read earlier.               *)
update_run(w, row) == backup_runs' = [backup_runs EXCEPT ![task[w].run] = row]

create_artifact(row) == backup_artifacts' = Append(backup_artifacts, row)

update_artifact_status(w, status) ==
  backup_artifacts' = [backup_artifacts EXCEPT ![Newest(task[w].expired)].status = status]

(* Defect: the status is left to its default.                              *)
BugCreateRestore(w, status) ==
  restore_runs' = Append(restore_runs, [run |-> task[w].run, status |-> "DRY_RUN"])

create_restore(w, status) ==
  restore_runs' = Append(restore_runs, [run |-> task[w].run, status |-> status])

update_restore(w, status) ==
  restore_runs' = [restore_runs EXCEPT ![task[w].restore].status = status]

resolve_connection_ref(ref) == ref \in Resolvable

build_backup_command(p) == p.target_system = "POSTGRES"

(* What is found in verify-<run>.dump or restore-<run>.dump: a damaged     *)
(* object, or a call for the same run that is writing to the same file,    *)
(* makes it differ from the dump.                                          *)
sha256_file == {"same", "differs"}

Goto(w, pc) == task' = [task EXCEPT ![w].pc = pc]

Finish(w) == task' = [task EXCEPT ![w] = Idle]

Fault == faults < MaxFaults /\ faults' = faults + 1

Active == {i \in list_artifacts : backup_artifacts[i].status = "ACTIVE"}

(* The index of an artifact in the active ones sorted newest first.        *)
IndexOf(i) == Cardinality({j \in Active : j > i})

(* Defect: one too few is kept.                                            *)
BugExpiredByCount(i) ==
  policy.retention_count # None /\ IndexOf(i) >= policy.retention_count - 1

ExpiredByCount(i) == policy.retention_count # None /\ IndexOf(i) >= policy.retention_count

ExpiredByAge(i) == policy.retention_days /\ backup_artifacts[i].aged

(* The artifacts apply_retention expires, which it does newest first.      *)
Expired == {i \in Active : ExpiredByCount(i) \/ ExpiredByAge(i)}

-----------------------------------------------------------------------------
Init ==
  /\ policy = None /\ next_run_at = None
  /\ backup_runs = << >> /\ backup_artifacts = << >> /\ restore_runs = << >>
  /\ objects = {}
  /\ restored = {}
  /\ task = [w \in Workers |-> Idle]
  /\ faults = 0

create_policy(p) ==
  /\ policy = None
  /\ policy' = p
  /\ next_run_at' = IF p.enabled THEN "later" ELSE None
  /\ UNCHANGED <<backup_runs, backup_artifacts, restore_runs, objects, restored, task, faults>>

(* create_backup *)
StartBackup(w) ==
  /\ task[w].pc = "idle"
  /\ get_policy # None /\ get_policy.enabled
  /\ Len(backup_runs) < MaxRuns
  /\ create_run(NewRun)
  /\ task' = [task EXCEPT ![w] = Call("backup", "dump", Len(backup_runs) + 1, NewRun, {})]
  /\ UNCHANGED <<policy, next_run_at, backup_artifacts, restore_runs, objects, restored, faults>>

(* The command run-policy; a policy that is not there ends it.             *)
RunPolicy(w) == get_policy_by_name # None /\ StartBackup(w)

(* What was due when it was listed is backed up, although another call may *)
(* have done it meanwhile: then it is a backup like one on request.        *)
RunDue(w) == list_policies # {} /\ StartBackup(w)

Dumpable == resolve_connection_ref(policy.target_connection_ref) /\ build_backup_command(policy)

Dump(w) ==
  /\ task[w].pc = "dump" /\ Dumpable
  /\ Goto(w, "upload")
  /\ UNCHANGED <<tables, objects, restored, faults>>

Upload(w) ==
  /\ task[w].pc = "upload"
  /\ objects' = objects \cup {task[w].run}
  /\ Goto(w, "artifact")
  /\ UNCHANGED <<tables, restored, faults>>

RecordArtifact(w) ==
  /\ task[w].pc = "artifact"
  /\ create_artifact([run |-> task[w].run, status |-> "ACTIVE", aged |-> FALSE])
  /\ Goto(w, "succeed")
  /\ UNCHANGED <<policy, next_run_at, backup_runs, restore_runs, objects, restored, faults>>

Succeed(w) ==
  /\ task[w].pc = "succeed"
  /\ LET row == [task[w].row EXCEPT !.status = "SUCCEEDED"] IN
     /\ update_run(w, row)
     /\ task' = [task EXCEPT ![w].pc = "schedule", ![w].row = row]
  /\ UNCHANGED <<policy, next_run_at, backup_artifacts, restore_runs, objects, restored, faults>>

Schedule(w) ==
  /\ task[w].pc = "schedule"
  /\ update_policy_next_run
  /\ Finish(w)
  /\ UNCHANGED <<policy, backup_runs, backup_artifacts, restore_runs, objects, restored, faults>>

(* Defect: the handler takes every exception for one of the schedule.      *)
BugBackupFails(w) ==
  /\ task[w].op = "backup"
  /\ Fault
  /\ update_run(w, [task[w].row EXCEPT !.status = "SUCCEEDED"])
  /\ Finish(w)
  /\ UNCHANGED <<policy, next_run_at, backup_artifacts, restore_runs, objects, restored>>

(* Any call of the try block raises, the upload perhaps after the dump was *)
(* stored; the run is FAILED, also when it had been stored as SUCCEEDED.   *)
BackupFails(w) ==
  /\ task[w].op = "backup"
  /\ \/ Fault
     \/ task[w].pc = "dump" /\ ~Dumpable /\ UNCHANGED faults
  /\ update_run(w, [task[w].row EXCEPT !.status = "FAILED"])
  /\ \/ UNCHANGED objects
     \/ task[w].pc = "upload" /\ objects' = objects \cup {task[w].run}
  /\ Finish(w)
  /\ UNCHANGED <<policy, next_run_at, backup_artifacts, restore_runs, restored>>

-----------------------------------------------------------------------------
MayRestore ==
  Len(restore_runs) + Cardinality({v \in Workers : task[v].op \in {"restore", "dry_run"}}) < MaxRestores

(* verify_backup and restore_backup begin with get_run; a run that did not *)
(* succeed is refused for restore only.                                    *)
Begin(w, r, op) ==
  /\ task[w].pc = "idle" /\ get_run(r) # None
  /\ op = "verify" \/ (get_run(r).status = "SUCCEEDED" /\ MayRestore)
  /\ task' = [task EXCEPT ![w] =
       Call(op, "lookup", r, IF op = "verify" THEN get_run(r) ELSE NewRun, {})]
  /\ UNCHANGED <<tables, objects, restored, faults>>

(* get_artifact_by_run, then download_file.  Without an artifact, and for  *)
(* a restore without the object, the call is refused; a verification       *)
(* without the object has failed.                                          *)
Lookup(w) ==
  LET r == task[w].run IN
  /\ task[w].pc = "lookup"
  /\ \/ /\ get_artifact_by_run(r) /\ r \in objects
        /\ Goto(w, "check")
        /\ UNCHANGED backup_runs
     \/ /\ get_artifact_by_run(r) /\ r \notin objects /\ task[w].op = "verify"
        /\ update_run(w, [task[w].row EXCEPT !.verification_status = "FAILED"])
        /\ Finish(w)
     \/ /\ ~get_artifact_by_run(r) \/ (r \notin objects /\ task[w].op # "verify")
        /\ Finish(w)
        /\ UNCHANGED backup_runs
  /\ UNCHANGED <<policy, next_run_at, backup_artifacts, restore_runs, objects, restored, faults>>

(* The checksum and pg_restore --list, then update_run.                    *)
VerifyCheck(w) ==
  /\ task[w].op = "verify" /\ task[w].pc = "check"
  /\ \E checksum \in sha256_file :
       update_run(w, [task[w].row EXCEPT !.verification_status =
                        IF checksum = "same" THEN "SUCCEEDED" ELSE "FAILED"])
  /\ Finish(w)
  /\ UNCHANGED <<policy, next_run_at, backup_artifacts, restore_runs, objects, restored, faults>>

VerifyFails(w) ==
  /\ task[w].op = "verify" /\ task[w].pc = "check"
  /\ Fault
  /\ update_run(w, [task[w].row EXCEPT !.verification_status = "FAILED"])
  /\ Finish(w)
  /\ UNCHANGED <<policy, next_run_at, backup_artifacts, restore_runs, objects, restored>>

(* The checksum, then create_restore; a dry run has nothing more to write  *)
(* but completed_at, which is not kept.                                    *)
RestoreCheck(w) ==
  /\ task[w].op \in {"restore", "dry_run"} /\ task[w].pc = "check"
  /\ \E checksum \in sha256_file :
       \/ /\ checksum = "differs"
          /\ Finish(w) /\ UNCHANGED restore_runs
       \/ /\ checksum = "same"
          /\ \/ task[w].op = "dry_run" /\ create_restore(w, "DRY_RUN") /\ Finish(w)
             \/ /\ task[w].op = "restore" /\ create_restore(w, "RUNNING")
                /\ task' = [task EXCEPT ![w].pc = "restore", ![w].restore = Len(restore_runs) + 1]
  /\ UNCHANGED <<policy, next_run_at, backup_runs, backup_artifacts, objects, restored, faults>>

(* pg_restore opens the file again, which another call may have truncated  *)
(* since it was checked; what it put into the database before it ended,    *)
(* with whatever exit code, stays.                                         *)
Restore(w) ==
  /\ task[w].pc = "restore"
  /\ restored' = restored \cup {task[w].run}
  /\ \E pc \in {"restore_done", "restore_failed"} : Goto(w, pc)
  /\ UNCHANGED <<tables, objects, faults>>

(* A success that cannot be stored is stored as a failure.                 *)
RestoreEnds(w) ==
  /\ \/ task[w].pc = "restore_done" /\ update_restore(w, "SUCCEEDED") /\ UNCHANGED faults
     \/ task[w].pc = "restore_failed" /\ update_restore(w, "FAILED") /\ UNCHANGED faults
     \/ task[w].pc \in {"restore", "restore_done"} /\ Fault /\ update_restore(w, "FAILED")
  /\ Finish(w)
  /\ UNCHANGED <<policy, next_run_at, backup_runs, backup_artifacts, objects, restored>>

-----------------------------------------------------------------------------
(* apply_retention: what is to expire is decided once.                     *)
ApplyRetention(w) ==
  /\ task[w].pc = "idle" /\ get_policy # None
  /\ Expired # {}
  /\ task' = [task EXCEPT ![w] = Call("retention", "expire", 0, NewRun, Expired)]
  /\ UNCHANGED <<tables, objects, restored, faults>>

(* Defect: the object is deleted first.                                    *)
BugExpire(w) ==
  /\ task[w].pc = "expire"
  /\ task' = [task EXCEPT ![w].pc = "delete"]
  /\ UNCHANGED <<tables, objects, restored, faults>>

NextArtifact(w) ==
  LET rest == task[w].expired \ {Newest(task[w].expired)} IN
  task' = [task EXCEPT ![w] =
    IF rest = {} THEN Idle ELSE [@ EXCEPT !.expired = rest, !.pc = "expire"]]

Expire(w) ==
  /\ task[w].pc = "expire"
  /\ update_artifact_status(w, "EXPIRED")
  /\ \/ policy.delete_expired /\ Goto(w, "delete")
     \/ ~policy.delete_expired /\ NextArtifact(w)
  /\ UNCHANGED <<policy, next_run_at, backup_runs, restore_runs, objects, restored, faults>>

DeleteObject(w) ==
  /\ task[w].pc = "delete"
  /\ objects' = objects \ {backup_artifacts[Newest(task[w].expired)].run}
  /\ Goto(w, "deleted")
  /\ UNCHANGED <<tables, restored, faults>>

MarkDeleted(w) ==
  /\ task[w].pc = "deleted"
  /\ update_artifact_status(w, "DELETED")
  /\ NextArtifact(w)
  /\ UNCHANGED <<policy, next_run_at, backup_runs, restore_runs, objects, restored, faults>>

-----------------------------------------------------------------------------
(* The process dies, or an exception leaves the call without a trace.      *)
Crash(w) ==
  /\ task[w].pc # "idle"
  /\ Fault
  /\ Finish(w)
  /\ UNCHANGED <<tables, objects, restored>>

(* Time: next_run_at is reached, an artifact passes its expires_at.        *)
ComesDue ==
  /\ next_run_at = "later"
  /\ next_run_at' = "due"
  /\ UNCHANGED <<policy, backup_runs, backup_artifacts, restore_runs, objects, restored, task, faults>>

PassesExpiry(i) ==
  /\ policy.retention_days /\ ~backup_artifacts[i].aged
  /\ backup_artifacts' = [backup_artifacts EXCEPT ![i].aged = TRUE]
  /\ UNCHANGED <<policy, next_run_at, backup_runs, restore_runs, objects, restored, task, faults>>

Step(w) ==
  \/ StartBackup(w) \/ RunPolicy(w) \/ RunDue(w)
  \/ Dump(w) \/ Upload(w) \/ RecordArtifact(w) \/ Succeed(w) \/ Schedule(w) \/ BackupFails(w)
  \/ \E r \in RunIds, op \in {"verify", "restore", "dry_run"} : Begin(w, r, op)
  \/ Lookup(w)
  \/ VerifyCheck(w) \/ VerifyFails(w)
  \/ RestoreCheck(w) \/ Restore(w) \/ RestoreEnds(w)
  \/ ApplyRetention(w) \/ Expire(w) \/ DeleteObject(w) \/ MarkDeleted(w)
  \/ Crash(w)

Next ==
  \/ \E p \in Policies : create_policy(p)
  \/ \E w \in Workers : Step(w)
  \/ ComesDue
  \/ \E i \in 1..Len(backup_artifacts) : PassesExpiry(i)

Spec == Init /\ [][Next]_vars

-----------------------------------------------------------------------------
(* The rows have their types, and a policy is scheduled if and only if it  *)
(* is enabled, whichever calls failed.                                     *)
BackupTypeOK ==
  /\ policy \in BackupPolicy \cup {None}
  /\ next_run_at \in {None, "later", "due"}
  /\ next_run_at # None <=> (policy # None /\ policy.enabled)
  /\ \A r \in 1..Len(backup_runs) : backup_runs[r] \in BackupRun
  /\ \A i \in 1..Len(backup_artifacts) :
       backup_artifacts[i] \in BackupArtifact /\ get_run(backup_artifacts[i].run) # None
  /\ \A i \in 1..Len(restore_runs) :
       restore_runs[i] \in RestoreRun /\ get_run(restore_runs[i].run) # None

(* An ACTIVE artifact has its dump in the storage and a DELETED one has    *)
(* not, also when several retention calls overlap with backups and die.    *)
ObjectsAccounted ==
  \A i \in 1..Len(backup_artifacts) :
    /\ backup_artifacts[i].status = "ACTIVE" => backup_artifacts[i].run \in objects
    /\ backup_artifacts[i].status = "DELETED" => backup_artifacts[i].run \notin objects

(* A run stored as SUCCEEDED, or as verified, has an artifact, whoever     *)
(* wrote the row last.                                                     *)
SucceededHasArtifact ==
  \A r \in 1..Len(backup_runs) :
    "SUCCEEDED" \in {backup_runs[r].status, backup_runs[r].verification_status} =>
      get_artifact_by_run(r)

(* Retention takes nothing else than what is past its age, or has          *)
(* retention_count newer artifacts, also when calls that work from stale   *)
(* lists overlap with each other and with new backups.                     *)
KeptWithinRetention ==
  \A i \in 1..Len(backup_artifacts) :
    \/ backup_artifacts[i].status = "ACTIVE"
    \/ policy.retention_days /\ backup_artifacts[i].aged
    \/ /\ policy.retention_count # None
       /\ i + policy.retention_count <= Len(backup_artifacts)

(* No database is written to by a restore that restore_runs does not name, *)
(* and a restore is SUCCEEDED only if its dump was read, although calls    *)
(* die between the command and the row.                                    *)
RestoresAccounted ==
  /\ \A r \in restored : \E i \in 1..Len(restore_runs) :
       restore_runs[i].run = r /\ restore_runs[i].status # "DRY_RUN"
  /\ \A i \in 1..Len(restore_runs) :
       restore_runs[i].status = "SUCCEEDED" => restore_runs[i].run \in restored

(* The tables agree with each other and with what was done.                *)
BackupInv == BackupTypeOK /\ RestoresAccounted

=============================================================================
