---------------------------- MODULE BackupProofs ----------------------------
(***************************************************************************)
(* Proofs about Backup: rows, artifacts, dumps and restores agree, and     *)
(* retention takes only what it may, for any number of threads, policies,  *)
(* backups, restores and failures.                                         *)
(***************************************************************************)
EXTENDS Backup, FiniteSetTheorems, WellFoundedInduction, TLAPS

-----------------------------------------------------------------------------
(* The inductive invariant.                                                *)

BackupPcs == {"dump", "upload", "artifact", "succeed", "schedule"}
ReadPcs == {"lookup", "check"}
RestorePcs == {"restore", "restore_done", "restore_failed"}
RetentionPcs == {"expire", "delete", "deleted"}

Reads == {"verify", "restore", "dry_run"}
Ops == {"none", "backup", "retention"} \cup Reads
Pcs == {"idle"} \cup BackupPcs \cup ReadPcs \cup RestorePcs \cup RetentionPcs

(* Where a call of each kind can be.                                       *)
CallRecord ==
  {c \in [op : Ops, pc : Pcs, run : Nat, row : BackupRun, restore : Nat, expired : SUBSET Nat] :
     /\ c.op = "none" <=> c.pc = "idle"
     /\ c.op = "backup" <=> c.pc \in BackupPcs
     /\ c.op = "retention" <=> c.pc \in RetentionPcs
     /\ c.pc \in RestorePcs => c.op = "restore"}

TablesTyped ==
  /\ policy \in BackupPolicy \cup {None}
  /\ next_run_at \in {None, "later", "due"}
  /\ next_run_at # None <=> (policy # None /\ policy.enabled)
  /\ backup_runs \in Seq(BackupRun) /\ Len(backup_runs) <= MaxRuns
  /\ backup_artifacts \in Seq(BackupArtifact)
  /\ restore_runs \in Seq(RestoreRun)
  /\ \A i \in 1..Len(backup_artifacts) : backup_artifacts[i].run <= Len(backup_runs)
  /\ \A i \in 1..Len(restore_runs) : restore_runs[i].run <= Len(backup_runs)
  /\ Len(backup_artifacts) > 0 => policy # None

CallsTyped == task \in [Workers -> CallRecord]

(* A run has at most one artifact.                                         *)
OneArtifact ==
  \A i, j \in 1..Len(backup_artifacts) :
    backup_artifacts[i].run = backup_artifacts[j].run => i = j

(* No two backups work for the same run.                                   *)
BackupsApart ==
  \A v, w \in Workers :
    task[v].op = "backup" /\ task[w].op = "backup" /\ task[v].run = task[w].run => v = w

(* What a backup has done so far is there, and what it has not is not.     *)
BackupOk(c) ==
  /\ policy # None /\ policy.enabled
  /\ c.run \in 1..Len(backup_runs)
  /\ c.row.verification_status = None
  /\ c.pc \in {"dump", "upload", "artifact"} => ~get_artifact_by_run(c.run)
  /\ c.pc = "artifact" => c.run \in objects
  /\ c.pc \in {"succeed", "schedule"} => get_artifact_by_run(c.run)

(* The row a verification will write back claims nothing that is not so.   *)
ReadOk(c) ==
  /\ c.run \in 1..Len(backup_runs)
  /\ "SUCCEEDED" \in {c.row.status, c.row.verification_status} => get_artifact_by_run(c.run)
  /\ c.pc = "check" => get_artifact_by_run(c.run)

RestoreOk(c) ==
  /\ c.restore \in 1..Len(restore_runs)
  /\ restore_runs[c.restore].run = c.run
  /\ restore_runs[c.restore].status # "DRY_RUN"
  /\ c.pc = "restore_done" => c.run \in restored

(* What retention may take: it is past its age, or there are               *)
(* retention_count newer ones.                                             *)
Due(i) ==
  \/ policy.retention_days /\ backup_artifacts[i].aged
  \/ policy.retention_count # None /\ i + policy.retention_count <= Len(backup_artifacts)

(* The list a retention call works from stays right, and its objects are   *)
(* deleted behind a row that says so.                                      *)
RetentionOk(c) ==
  /\ policy # None
  /\ c.expired # {} /\ c.expired \subseteq 1..Len(backup_artifacts)
  /\ \A i \in c.expired : Due(i)
  /\ c.pc \in {"delete", "deleted"} => backup_artifacts[Newest(c.expired)].status # "ACTIVE"
  /\ c.pc = "deleted" => backup_artifacts[Newest(c.expired)].run \notin objects

CallOk(c) ==
  /\ c.op = "backup" => BackupOk(c)
  /\ c.op \in Reads => ReadOk(c)
  /\ c.pc \in RestorePcs => RestoreOk(c)
  /\ c.op = "retention" => RetentionOk(c)

CallsOk == \A w \in Workers : CallOk(task[w])

TablesInv ==
  /\ TablesTyped /\ OneArtifact
  /\ ObjectsAccounted /\ SucceededHasArtifact /\ KeptWithinRetention /\ RestoresAccounted

RecordsInv == TablesInv /\ CallsTyped /\ BackupsApart /\ CallsOk

-----------------------------------------------------------------------------
(* Numbers.                                                                *)

(* A set of natural numbers has a least element.                           *)
LEMMA LeastElement ==
  ASSUME NEW T \in SUBSET Nat, T # {}
  PROVE  \E x \in T : \A y \in T : x <= y
<1>1. PICK x \in T : \A y \in T : <<y, x>> \notin OpToRel(<, Nat)
  BY NatLessThanWellFounded, WFMin
<1>2. \A y \in T : ~(y < x)
  BY <1>1 DEF OpToRel
<1>. QED
  BY <1>2

(* Of some of the artifacts one is the newest.                             *)
LEMMA NewestIs ==
  ASSUME NEW n \in Nat, NEW S \in SUBSET (1..n), S # {}
  PROVE  Newest(S) \in S
<1>. DEFINE T == {n - x : x \in S}
<1>. \A x \in S : x \in Nat /\ n - x \in Nat
  OBVIOUS
<1>1. T \in SUBSET Nat /\ T # {}
  OBVIOUS
<1>2. PICK y \in T : \A z \in T : y <= z
  BY <1>1, LeastElement
<1>3. PICK x \in S : y = n - x
  OBVIOUS
<1>4. \A j \in S : j <= x
  BY <1>2, <1>3
<1>. QED
  BY <1>4 DEF Newest

(* Of n artifacts there are at most n - i behind the i-th.                 *)
LEMMA BehindAre ==
  ASSUME NEW n \in Nat, NEW i \in 1..n, NEW A \in SUBSET (1..n)
  PROVE  LET behind == {j \in A : j > i}
         IN  Cardinality(behind) \in Nat /\ i + Cardinality(behind) <= n
<1>. DEFINE behind == {j \in A : j > i}
            rest == i+1..n
<1>1. IsFiniteSet(rest) /\ Cardinality(rest) = n - i
  BY FS_Interval
<1>2. behind \in SUBSET rest
  <2>. SUFFICES ASSUME NEW j \in A, j > i PROVE j \in i+1..n
    OBVIOUS
  <2>1. j \in 1..n
    OBVIOUS
  <2>. QED
    BY <2>1
<1>. HIDE DEF behind, rest
<1>3. IsFiniteSet(behind) /\ Cardinality(behind) <= Cardinality(rest)
  BY <1>1, <1>2, FS_Subset
<1>4. Cardinality(behind) \in Nat
  BY <1>3, FS_CardinalityType
<1>. QED
  BY <1>1, <1>3, <1>4 DEF behind

(* What apply_retention finds is due.                                      *)
LEMMA ExpiredIsDue ==
  ASSUME TablesTyped, policy # None
  PROVE  Expired \subseteq 1..Len(backup_artifacts) /\ \A i \in Expired : Due(i)
<1>1. Len(backup_artifacts) \in Nat
  BY DEF TablesTyped
<1>2. Active \in SUBSET (1..Len(backup_artifacts)) /\ Expired \subseteq Active
  BY DEF Active, list_artifacts, Expired
<1>3. ASSUME NEW i \in Expired PROVE Due(i)
  <2>1. i \in 1..Len(backup_artifacts)
    BY <1>2
  <2>2. IndexOf(i) \in Nat /\ i + IndexOf(i) <= Len(backup_artifacts)
    BY <1>1, <1>2, <2>1, BehindAre DEF IndexOf
  <2>3. policy.retention_count \in Nat \cup {None}
    BY DEF TablesTyped, BackupPolicy
  <2>4. CASE ExpiredByCount(i)
    BY <1>1, <2>1, <2>2, <2>3, <2>4 DEF ExpiredByCount, Due
  <2>5. CASE ExpiredByAge(i)
    BY <2>5 DEF ExpiredByAge, Due
  <2>. QED
    BY <2>4, <2>5 DEF Expired
<1>. QED
  BY <1>2, <1>3

-----------------------------------------------------------------------------
(* What no step does to the tables, and what a call may rely on therefore. *)

Grows ==
  /\ policy # None => policy' = policy
  /\ Len(backup_runs) <= Len(backup_runs')
  /\ Len(backup_artifacts) <= Len(backup_artifacts')
  /\ \A i \in 1..Len(backup_artifacts) :
       /\ backup_artifacts'[i].run = backup_artifacts[i].run
       /\ backup_artifacts[i].status # "ACTIVE" => backup_artifacts'[i].status # "ACTIVE"
       /\ backup_artifacts[i].aged => backup_artifacts'[i].aged
  /\ Len(restore_runs) <= Len(restore_runs')
  /\ \A i \in 1..Len(restore_runs) :
       /\ restore_runs'[i].run = restore_runs[i].run
       /\ restore_runs[i].status # "DRY_RUN" => restore_runs'[i].status # "DRY_RUN"
  /\ restored \subseteq restored'

(* Besides, there is no new artifact, and no dump comes or goes.           *)
Calm == Grows /\ Len(backup_artifacts') = Len(backup_artifacts) /\ objects' = objects

(* The tables are sequences.                                               *)
LEMMA Lengths ==
  ASSUME TablesTyped
  PROVE  Len(backup_runs) \in Nat /\ Len(backup_artifacts) \in Nat /\ Len(restore_runs) \in Nat
BY DEF TablesTyped

(* A run that has an artifact keeps it.                                    *)
LEMMA ArtifactStays ==
  ASSUME TablesTyped, TablesTyped', Grows, NEW r, get_artifact_by_run(r)
  PROVE  get_artifact_by_run(r)'
<1>1. PICK i \in 1..Len(backup_artifacts) : backup_artifacts[i].run = r
  BY DEF get_artifact_by_run
<1>2. i \in 1..Len(backup_artifacts') /\ backup_artifacts'[i].run = r
  BY <1>1, Lengths DEF Grows, TablesTyped
<1>. QED
  BY <1>2 DEF get_artifact_by_run

(* A call keeps what it relies on, unless a step makes the artifact of its *)
(* run, or changes the one dump it counts on.                              *)
LEMMA CallStable ==
  ASSUME TablesTyped, TablesTyped', Grows, NEW c \in CallRecord, CallOk(c),
         c.pc \in {"dump", "upload", "artifact"} => ~get_artifact_by_run(c.run)',
         c.pc = "artifact" => c.run \in objects',
         c.pc = "deleted" => backup_artifacts[Newest(c.expired)].run \notin objects'
  PROVE  CallOk(c)'
<1>1. c.op = "backup" => BackupOk(c)'
  <2>1. SUFFICES ASSUME c.op = "backup" PROVE BackupOk(c)'
    OBVIOUS
  <2>2. BackupOk(c)
    BY <2>1 DEF CallOk
  <2>3. policy' = policy /\ Len(backup_runs) <= Len(backup_runs')
    BY <2>2 DEF BackupOk, Grows
  <2>4. c.run \in 1..Len(backup_runs')
    BY <2>2, <2>3, Lengths DEF BackupOk, TablesTyped
  <2>5. c.pc \in {"succeed", "schedule"} => get_artifact_by_run(c.run)'
    BY <2>2, ArtifactStays DEF BackupOk
  <2>. QED
    BY <2>2, <2>3, <2>4, <2>5 DEF BackupOk
<1>2. c.op \in Reads => ReadOk(c)'
  <2>1. SUFFICES ASSUME c.op \in Reads PROVE ReadOk(c)'
    OBVIOUS
  <2>2. ReadOk(c)
    BY <2>1 DEF CallOk
  <2>3. c.run \in 1..Len(backup_runs')
    BY <2>2, Lengths DEF ReadOk, Grows, TablesTyped
  <2>4. get_artifact_by_run(c.run) => get_artifact_by_run(c.run)'
    BY ArtifactStays
  <2>. QED
    BY <2>2, <2>3, <2>4 DEF ReadOk
<1>3. c.pc \in RestorePcs => RestoreOk(c)'
  <2>1. SUFFICES ASSUME c.pc \in RestorePcs PROVE RestoreOk(c)'
    OBVIOUS
  <2>2. RestoreOk(c)
    BY <2>1 DEF CallOk
  <2>3. c.restore \in 1..Len(restore_runs')
    BY <2>2, Lengths DEF RestoreOk, Grows, TablesTyped
  <2>. QED
    BY <2>2, <2>3 DEF RestoreOk, Grows
<1>4. c.op = "retention" => RetentionOk(c)'
  <2>1. SUFFICES ASSUME c.op = "retention" PROVE RetentionOk(c)'
    OBVIOUS
  <2>2. RetentionOk(c)
    BY <2>1 DEF CallOk
  <2>3. policy' = policy
    BY <2>2 DEF RetentionOk, Grows
  <2>4. policy.retention_count \in Nat \cup {None}
    BY <2>2 DEF RetentionOk, TablesTyped, BackupPolicy
  <2>5. ASSUME NEW i \in c.expired PROVE i \in 1..Len(backup_artifacts') /\ Due(i)'
    <3>1. i \in 1..Len(backup_artifacts) /\ Due(i)
      BY <2>2 DEF RetentionOk
    <3>2. Len(backup_artifacts) <= Len(backup_artifacts') /\ Len(backup_artifacts') \in Nat
      BY DEF Grows, TablesTyped
    <3>3. backup_artifacts[i].aged => backup_artifacts'[i].aged
      BY <3>1 DEF Grows
    <3>4. CASE policy.retention_days /\ backup_artifacts[i].aged
      BY <2>3, <3>1, <3>2, <3>3, <3>4, Lengths DEF Due
    <3>5. CASE policy.retention_count # None /\ i + policy.retention_count <= Len(backup_artifacts)
      BY <2>3, <2>4, <3>1, <3>2, <3>5, Lengths DEF Due
    <3>. QED
      BY <3>1, <3>4, <3>5 DEF Due
  <2>6. Newest(c.expired) \in c.expired
    BY <2>2, Lengths, NewestIs DEF RetentionOk
  <2>7. Newest(c.expired) \in 1..Len(backup_artifacts)
    BY <2>2, <2>6 DEF RetentionOk
  <2>8. /\ backup_artifacts'[Newest(c.expired)].run = backup_artifacts[Newest(c.expired)].run
        /\ c.pc \in {"delete", "deleted"} => backup_artifacts'[Newest(c.expired)].status # "ACTIVE"
    BY <2>2, <2>7 DEF RetentionOk, Grows
  <2>. QED
    BY <2>2, <2>3, <2>5, <2>8 DEF RetentionOk
<1>. QED
  BY <1>1, <1>2, <1>3, <1>4 DEF CallOk

(* Without new artifacts and dumps no call loses what it relies on.        *)
LEMMA CalmCall ==
  ASSUME TablesTyped, TablesTyped', Calm, NEW c \in CallRecord, CallOk(c)
  PROVE  CallOk(c)'
<1>1. Grows /\ objects' = objects
  BY DEF Calm
<1>2. ASSUME NEW r PROVE get_artifact_by_run(r)' => get_artifact_by_run(r)
  BY Lengths DEF Calm, Grows, get_artifact_by_run
<1>3. c.pc \in {"dump", "upload", "artifact"} => BackupOk(c)
  BY DEF CallOk, CallRecord, BackupPcs
<1>4. c.pc = "deleted" => RetentionOk(c)
  BY DEF CallOk, CallRecord, RetentionPcs
<1>5. c.pc \in {"dump", "upload", "artifact"} => ~get_artifact_by_run(c.run)'
  BY <1>2, <1>3 DEF BackupOk
<1>6. c.pc = "artifact" => c.run \in objects'
  BY <1>1, <1>3 DEF BackupOk
<1>7. c.pc = "deleted" => backup_artifacts[Newest(c.expired)].run \notin objects'
  BY <1>1, <1>4 DEF RetentionOk
<1>. QED
  BY <1>1, <1>5, <1>6, <1>7, CallStable

(* A call goes on as d, and disturbs no call but those that back up r.     *)
LEMMA CallTaken ==
  ASSUME RecordsInv, TablesInv', NEW w \in Workers, NEW d \in CallRecord, NEW r \in Nat,
         task' = [task EXCEPT ![w] = d], CallOk(d)',
         d.op = "backup" => d.run = r,
         \A v \in Workers \ {w} : task[v].op = "backup" => task[v].run # r,
         \A c \in CallRecord : CallOk(c) /\ (c.op = "backup" => c.run # r) => CallOk(c)'
  PROVE  RecordsInv'
<1>1. CallsTyped'
  BY DEF RecordsInv, CallsTyped
<1>2. /\ task'[w] = d
      /\ \A v \in Workers \ {w} : task'[v] = task[v]
  BY DEF RecordsInv, CallsTyped
<1>3. BackupsApart'
  BY <1>2 DEF RecordsInv, BackupsApart
<1>4. ASSUME NEW v \in Workers PROVE CallOk(task[v])'
  <2>1. CASE v = w
    BY <1>2, <2>1 DEF CallOk, BackupOk, ReadOk, RestoreOk, RetentionOk, Due, get_artifact_by_run
  <2>2. CASE v # w
    <3>1. PICK c : c = task[v]
      OBVIOUS
    <3>2. c \in CallRecord /\ CallOk(c) /\ (c.op = "backup" => c.run # r)
      BY <2>2, <3>1 DEF RecordsInv, CallsTyped, CallsOk
    <3>3. CallOk(c)'
      BY <3>2
    <3>4. task'[v] = c
      BY <1>2, <2>2, <3>1
    <3>. QED
      BY <3>3, <3>4
  <2>. QED
    BY <2>1, <2>2
<1>. QED
  BY <1>1, <1>3, <1>4 DEF RecordsInv, CallsOk

(* A step that neither begins a backup nor touches dumps.                  *)
LEMMA CalmStep ==
  ASSUME RecordsInv, TablesInv', Calm, NEW w \in Workers, NEW d \in CallRecord,
         task' = [task EXCEPT ![w] = d], CallOk(d)',
         d.op = "backup" => task[w].op = "backup" /\ task[w].run = d.run
  PROVE  RecordsInv'
<1>1. TablesTyped /\ TablesTyped'
  BY DEF RecordsInv, TablesInv
<1>2. \A c \in CallRecord : CallOk(c) => CallOk(c)'
  BY <1>1, CalmCall
<1>. DEFINE r == IF d.op = "backup" THEN d.run ELSE 0
<1>3. d.op = "backup" => d.run = r
  OBVIOUS
<1>4. ASSUME NEW v \in Workers \ {w}, task[v].op = "backup" PROVE task[v].run # r
  <2>1. CASE d.op = "backup"
    BY <1>4, <2>1 DEF RecordsInv, BackupsApart
  <2>2. CASE d.op # "backup"
    <3>1. BackupOk(task[v])
      BY <1>4 DEF RecordsInv, CallsOk, CallOk
    <3>2. task[v].run \in 1..Len(backup_runs)
      BY <3>1 DEF BackupOk
    <3>. QED
      BY <1>1, <2>2, <3>2, Lengths
  <2>. QED
    BY <2>1, <2>2
<1>. HIDE DEF r
<1>5. r \in Nat
  BY DEF r, CallRecord
<1>. QED
  BY <1>2, <1>3, <1>4, <1>5, CallTaken

(* A step of no call.                                                      *)
LEMMA NoCall ==
  ASSUME RecordsInv, TablesInv', Calm, UNCHANGED task
  PROVE  RecordsInv'
<1>1. TablesTyped /\ TablesTyped'
  BY DEF RecordsInv, TablesInv
<1>2. CallsTyped' /\ BackupsApart'
  BY DEF RecordsInv, CallsTyped, BackupsApart
<1>3. ASSUME NEW v \in Workers PROVE CallOk(task[v])'
  <2>1. PICK c : c = task[v]
    OBVIOUS
  <2>2. c \in CallRecord /\ CallOk(c)
    BY <2>1 DEF RecordsInv, CallsTyped, CallsOk
  <2>3. CallOk(c)'
    BY <1>1, <2>2, CalmCall
  <2>. QED
    BY <2>1, <2>3
<1>. QED
  BY <1>2, <1>3 DEF RecordsInv, CallsOk

(* None is no status, number, policy or row.                               *)
LEMMA NoneIs ==
  /\ None # "SUCCEEDED" /\ None # "later" /\ None # "due"
  /\ None \notin Nat /\ None \notin BackupPolicy /\ None \notin BackupRun
BY BackupAssumption

(* A thread without a call.                                                *)
LEMMA IdleIs == Idle \in CallRecord /\ Idle.op = "none" /\ Idle.pc = "idle" /\ NewRun \in BackupRun
BY DEF Idle, Call, CallRecord, NewRun, BackupRun, Ops, Pcs, Reads, BackupPcs, RetentionPcs, RestorePcs, ReadPcs

(* A call ends, and with its last step no dump and no artifact comes or    *)
(* goes.                                                                   *)
LEMMA CalmFinish ==
  ASSUME RecordsInv, TablesInv', Calm, NEW w \in Workers, Finish(w)
  PROVE  RecordsInv'
<1>1. task' = [task EXCEPT ![w] = Idle]
  BY DEF Finish
<1>2. PICK d : d = Idle
  OBVIOUS
<1>3. d \in CallRecord /\ d.op = "none" /\ d.pc = "idle"
  BY <1>2, IdleIs
<1>4. CallOk(d)'
  BY <1>3 DEF CallOk, Reads, RestorePcs
<1>. QED
  BY <1>1, <1>2, <1>3, <1>4, CalmStep

-----------------------------------------------------------------------------
(* What the writes do to the tables.                                       *)

(* A step that writes no table.                                            *)
LEMMA SameTables ==
  ASSUME TablesInv, UNCHANGED <<tables, objects, restored>>
  PROVE  TablesInv' /\ Calm
<1>1. /\ UNCHANGED <<policy, next_run_at, backup_runs, backup_artifacts, restore_runs>>
      /\ UNCHANGED <<objects, restored>>
  BY DEF tables
<1>2. TablesInv'
  BY <1>1 DEF TablesInv, TablesTyped, OneArtifact, ObjectsAccounted, SucceededHasArtifact,
              KeptWithinRetention, RestoresAccounted, get_artifact_by_run
<1>3. Calm
  BY <1>1, Lengths DEF TablesInv, Calm, Grows
<1>. QED
  BY <1>2, <1>3

(* update_run: the row claims no success without an artifact.              *)
LEMMA RunWritten ==
  ASSUME TablesInv, NEW r \in 1..Len(backup_runs), NEW row \in BackupRun,
         "SUCCEEDED" \in {row.status, row.verification_status} => get_artifact_by_run(r),
         backup_runs' = [backup_runs EXCEPT ![r] = row],
         UNCHANGED <<policy, next_run_at, backup_artifacts, restore_runs, restored>>
  PROVE  /\ ObjectsAccounted' => TablesInv'
         /\ Grows
         /\ UNCHANGED objects => TablesInv' /\ Calm
<1>1. backup_runs' \in Seq(BackupRun) /\ Len(backup_runs') = Len(backup_runs)
  BY DEF TablesInv, TablesTyped
<1>2. TablesTyped'
  BY <1>1 DEF TablesInv, TablesTyped
<1>3. SucceededHasArtifact'
  BY <1>1 DEF TablesInv, TablesTyped, SucceededHasArtifact, get_artifact_by_run
<1>4. OneArtifact' /\ KeptWithinRetention' /\ RestoresAccounted'
  BY DEF TablesInv, OneArtifact, KeptWithinRetention, RestoresAccounted
<1>5. UNCHANGED objects => ObjectsAccounted'
  BY DEF TablesInv, ObjectsAccounted
<1>6. Grows
  BY <1>1, Lengths DEF TablesInv, Grows
<1>. QED
  BY <1>2, <1>3, <1>4, <1>5, <1>6 DEF TablesInv, Calm

(* update_artifact_status, and time: an artifact is taken only when it may *)
(* be, and called DELETED only without its dump.                           *)
LEMMA ArtifactWritten ==
  ASSUME TablesInv, NEW i \in 1..Len(backup_artifacts), NEW art \in BackupArtifact,
         backup_artifacts' = [backup_artifacts EXCEPT ![i] = art],
         art.run = backup_artifacts[i].run,
         art.status = "ACTIVE" => backup_artifacts[i].status = "ACTIVE",
         art.status = "DELETED" =>
           backup_artifacts[i].status = "DELETED" \/ art.run \notin objects,
         backup_artifacts[i].aged => art.aged,
         art.status = "ACTIVE" \/ Due(i) \/ backup_artifacts[i].status # "ACTIVE",
         UNCHANGED <<policy, next_run_at, backup_runs, restore_runs, objects, restored>>
  PROVE  TablesInv' /\ Calm
<1>1. /\ backup_artifacts' \in Seq(BackupArtifact)
      /\ Len(backup_artifacts') = Len(backup_artifacts)
  BY DEF TablesInv, TablesTyped
<1>2. \A k \in 1..Len(backup_artifacts) :
        backup_artifacts'[k] = IF k = i THEN art ELSE backup_artifacts[k]
  BY DEF TablesInv, TablesTyped
<1>3. \A k \in 1..Len(backup_artifacts) : backup_artifacts'[k].run = backup_artifacts[k].run
  BY <1>2
<1>4. TablesTyped'
  BY <1>1, <1>3 DEF TablesInv, TablesTyped
<1>5. OneArtifact'
  BY <1>1, <1>3 DEF TablesInv, OneArtifact
<1>6. ObjectsAccounted'
  BY <1>1, <1>2 DEF TablesInv, ObjectsAccounted
<1>7. SucceededHasArtifact'
  BY <1>1, <1>3 DEF TablesInv, SucceededHasArtifact, get_artifact_by_run
<1>8. KeptWithinRetention'
  BY <1>1, <1>2 DEF TablesInv, KeptWithinRetention, Due
<1>9. RestoresAccounted'
  BY DEF TablesInv, RestoresAccounted
<1>10. Grows
  BY <1>1, <1>2, Lengths DEF TablesInv, Grows
<1>. QED
  BY <1>1, <1>4, <1>5, <1>6, <1>7, <1>8, <1>9, <1>10 DEF TablesInv, Calm

(* create_artifact, for a run that has none and whose dump is stored.      *)
LEMMA ArtifactMade ==
  ASSUME TablesInv, policy # None, NEW r \in 1..Len(backup_runs), r \in objects,
         ~get_artifact_by_run(r),
         create_artifact([run |-> r, status |-> "ACTIVE", aged |-> FALSE]),
         UNCHANGED <<policy, next_run_at, backup_runs, restore_runs, objects, restored>>
  PROVE  /\ TablesInv' /\ Grows
         /\ get_artifact_by_run(r)'
         /\ \A q : q # r /\ get_artifact_by_run(q)' => get_artifact_by_run(q)
<1>. DEFINE art == [run |-> r, status |-> "ACTIVE", aged |-> FALSE]
            n == Len(backup_artifacts)
<1>0. n \in Nat /\ backup_artifacts \in Seq(BackupArtifact)
  BY DEF TablesInv, TablesTyped
<1>1. art \in BackupArtifact
  BY BackupAssumption DEF TablesInv, TablesTyped, BackupArtifact
<1>2. backup_artifacts' = Append(backup_artifacts, art)
  BY DEF create_artifact
<1>. HIDE DEF art
<1>3. /\ backup_artifacts' \in Seq(BackupArtifact) /\ Len(backup_artifacts') = n + 1
      /\ \A k \in 1..n : backup_artifacts'[k] = backup_artifacts[k]
      /\ backup_artifacts'[n + 1] = art
  BY <1>0, <1>1, <1>2
<1>4. art.run = r /\ art.status = "ACTIVE"
  BY DEF art
<1>. HIDE DEF n
<1>5. 1..(n + 1) = 1..n \cup {n + 1}
  BY <1>0
<1>6. TablesTyped'
  <2>1. \A i \in 1..(n + 1) : backup_artifacts'[i].run <= Len(backup_runs)
    BY <1>3, <1>4, <1>5, Lengths DEF TablesInv, TablesTyped, n
  <2>. QED
    BY <1>3, <2>1 DEF TablesInv, TablesTyped
<1>7. OneArtifact'
  BY <1>3, <1>4, <1>5 DEF TablesInv, OneArtifact, get_artifact_by_run, n
<1>8. ObjectsAccounted'
  BY <1>3, <1>4, <1>5 DEF TablesInv, ObjectsAccounted, n
<1>9. \A q : get_artifact_by_run(q) => get_artifact_by_run(q)'
  BY <1>3, <1>5 DEF get_artifact_by_run, n
<1>10. SucceededHasArtifact'
  BY <1>9 DEF TablesInv, SucceededHasArtifact
<1>11. KeptWithinRetention'
  <2>1. policy.retention_count \in Nat \cup {None}
    BY DEF TablesInv, TablesTyped, BackupPolicy
  <2>. QED
    BY <1>0, <1>3, <1>4, <1>5, <2>1 DEF TablesInv, KeptWithinRetention, n
<1>12. RestoresAccounted'
  BY DEF TablesInv, RestoresAccounted
<1>13. Grows
  BY <1>0, <1>3, Lengths DEF TablesInv, Grows, n
<1>14. get_artifact_by_run(r)' /\ \A q : q # r /\ get_artifact_by_run(q)' => get_artifact_by_run(q)
  BY <1>3, <1>4, <1>5 DEF get_artifact_by_run, n
<1>. QED
  BY <1>6, <1>7, <1>8, <1>10, <1>11, <1>12, <1>13, <1>14 DEF TablesInv

(* create_restore for a run that is there, with the status it has not got  *)
(* by success.                                                             *)
LEMMA RestoreMade ==
  ASSUME TablesInv, NEW r \in 1..Len(backup_runs), NEW status \in {"DRY_RUN", "RUNNING"},
         restore_runs' = Append(restore_runs, [run |-> r, status |-> status]),
         UNCHANGED <<policy, next_run_at, backup_runs, backup_artifacts, objects, restored>>
  PROVE  /\ TablesInv' /\ Calm
         /\ Len(restore_runs') = Len(restore_runs) + 1
         /\ restore_runs'[Len(restore_runs) + 1] = [run |-> r, status |-> status]
<1>. DEFINE row == [run |-> r, status |-> status]
            n == Len(restore_runs)
<1>0. n \in Nat /\ restore_runs \in Seq(RestoreRun)
  BY DEF TablesInv, TablesTyped
<1>1. row \in RestoreRun
  BY BackupAssumption DEF TablesInv, TablesTyped, RestoreRun
<1>2. row.run = r /\ row.status # "SUCCEEDED"
  OBVIOUS
<1>. HIDE DEF row
<1>3. /\ restore_runs' \in Seq(RestoreRun) /\ Len(restore_runs') = n + 1
      /\ \A k \in 1..n : restore_runs'[k] = restore_runs[k]
      /\ restore_runs'[n + 1] = row
  BY <1>0, <1>1 DEF row
<1>. HIDE DEF n
<1>4. 1..(n + 1) = 1..n \cup {n + 1}
  BY <1>0
<1>5. TablesTyped'
  BY <1>2, <1>3, <1>4 DEF TablesInv, TablesTyped, n
<1>6. OneArtifact' /\ ObjectsAccounted' /\ SucceededHasArtifact' /\ KeptWithinRetention'
  BY DEF TablesInv, OneArtifact, ObjectsAccounted, SucceededHasArtifact, KeptWithinRetention,
         get_artifact_by_run
<1>7. RestoresAccounted'
  BY <1>2, <1>3, <1>4 DEF TablesInv, RestoresAccounted, n
<1>8. Calm
  BY <1>0, <1>3, Lengths DEF TablesInv, Calm, Grows, n
<1>. QED
  BY <1>3, <1>5, <1>6, <1>7, <1>8 DEF TablesInv, n, row

(* update_restore: SUCCEEDED only when the dump was read.                  *)
LEMMA RestoreWritten ==
  ASSUME TablesInv, NEW i \in 1..Len(restore_runs), NEW status \in {"SUCCEEDED", "FAILED"},
         status = "SUCCEEDED" => restore_runs[i].run \in restored,
         restore_runs' = [restore_runs EXCEPT ![i].status = status],
         UNCHANGED <<policy, next_run_at, backup_runs, backup_artifacts, objects, restored>>
  PROVE  TablesInv' /\ Calm
<1>1. /\ restore_runs' \in Seq(RestoreRun) /\ Len(restore_runs') = Len(restore_runs)
      /\ \A k \in 1..Len(restore_runs) :
           /\ restore_runs'[k].run = restore_runs[k].run
           /\ restore_runs'[k].status = IF k = i THEN status ELSE restore_runs[k].status
  <2>1. restore_runs \in Seq(RestoreRun)
    BY DEF TablesInv, TablesTyped
  <2>2. restore_runs[i] \in RestoreRun
    BY <2>1
  <2>. DEFINE row == [restore_runs[i] EXCEPT !.status = status]
  <2>3. row \in RestoreRun /\ row.run = restore_runs[i].run /\ row.status = status
    BY <2>2 DEF RestoreRun
  <2>4. restore_runs' = [restore_runs EXCEPT ![i] = row]
    OBVIOUS
  <2>. HIDE DEF row
  <2>. QED
    BY <2>1, <2>3, <2>4
<1>2. TablesTyped'
  BY <1>1 DEF TablesInv, TablesTyped
<1>3. OneArtifact' /\ ObjectsAccounted' /\ SucceededHasArtifact' /\ KeptWithinRetention'
  BY DEF TablesInv, OneArtifact, ObjectsAccounted, SucceededHasArtifact, KeptWithinRetention,
         get_artifact_by_run
<1>4. RestoresAccounted'
  BY <1>1 DEF TablesInv, RestoresAccounted
<1>5. Calm
  BY <1>1, Lengths DEF TablesInv, Calm, Grows
<1>. QED
  BY <1>2, <1>3, <1>4, <1>5 DEF TablesInv

-----------------------------------------------------------------------------
(* The steps.                                                              *)

(* What is known of the call that takes a step.                            *)
LEMMA Facts ==
  ASSUME RecordsInv, NEW w \in Workers
  PROVE  /\ TablesInv /\ TablesTyped
         /\ task[w] \in CallRecord /\ CallOk(task[w])
BY DEF RecordsInv, TablesInv, CallsTyped, CallsOk

(* A call moves to another point of the same operation.                    *)
LEMMA GotoIs ==
  ASSUME RecordsInv, NEW w \in Workers, NEW pc \in Pcs, Goto(w, pc),
         \/ pc \in BackupPcs /\ task[w].op = "backup"
         \/ pc \in RetentionPcs /\ task[w].op = "retention"
         \/ pc \in ReadPcs /\ task[w].op \in Reads
         \/ pc \in RestorePcs /\ task[w].op = "restore"
  PROVE  LET d == [task[w] EXCEPT !.pc = pc]
         IN  /\ d \in CallRecord /\ task' = [task EXCEPT ![w] = d]
             /\ d.pc = pc /\ d.op = task[w].op /\ d.run = task[w].run /\ d.row = task[w].row
             /\ d.restore = task[w].restore /\ d.expired = task[w].expired
<1>1. task[w] \in CallRecord
  BY Facts
<1>2. task' = [task EXCEPT ![w] = [task[w] EXCEPT !.pc = pc]]
  BY DEF Goto, RecordsInv, CallsTyped
<1>. QED
  BY <1>1, <1>2 DEF CallRecord, BackupPcs, RetentionPcs, ReadPcs, RestorePcs, Reads

(* create_backup inserts its run.                                          *)
LEMMA StartBackupStep ==
  ASSUME RecordsInv, NEW w \in Workers, StartBackup(w)
  PROVE  RecordsInv'
<1>. DEFINE n == Len(backup_runs)
<1>1. TablesInv /\ TablesTyped /\ n \in Nat
  BY Facts, Lengths
<1>2. PICK d : d = Call("backup", "dump", n + 1, NewRun, {})
  OBVIOUS
<1>3. /\ d \in CallRecord /\ d.op = "backup" /\ d.pc = "dump" /\ d.run = n + 1
      /\ d.row.verification_status = None
  BY <1>1, <1>2, IdleIs DEF Call, CallRecord, NewRun, Ops, Pcs, Reads, BackupPcs, RetentionPcs, RestorePcs
<1>4. task' = [task EXCEPT ![w] = d]
  BY <1>2 DEF StartBackup
<1>5. policy # None /\ policy.enabled /\ n < MaxRuns
      /\ UNCHANGED <<policy, next_run_at, backup_artifacts, restore_runs, objects, restored>>
  BY DEF StartBackup, get_policy
<1>6. /\ backup_runs' \in Seq(BackupRun) /\ Len(backup_runs') = n + 1
      /\ \A k \in 1..n : backup_runs'[k] = backup_runs[k]
      /\ backup_runs'[n + 1] = NewRun
  BY <1>1, IdleIs DEF StartBackup, create_run, TablesTyped
<1>. HIDE DEF n
<1>7. TablesTyped'
  <2>1. \A i \in 1..Len(backup_artifacts) : backup_artifacts[i].run <= n + 1
    <3>. SUFFICES ASSUME NEW i \in 1..Len(backup_artifacts) PROVE backup_artifacts[i].run <= n + 1
      OBVIOUS
    <3>1. backup_artifacts[i] \in BackupArtifact
      BY <1>1 DEF TablesTyped
    <3>2. backup_artifacts[i].run \in Nat
      BY <3>1, BackupAssumption DEF BackupArtifact
    <3>3. backup_artifacts[i].run <= n
      BY <1>1 DEF TablesTyped, n
    <3>. QED
      BY <1>1, <3>2, <3>3
  <2>2. \A i \in 1..Len(restore_runs) : restore_runs[i].run <= n + 1
    <3>. SUFFICES ASSUME NEW i \in 1..Len(restore_runs) PROVE restore_runs[i].run <= n + 1
      OBVIOUS
    <3>1. restore_runs[i] \in RestoreRun
      BY <1>1 DEF TablesTyped
    <3>2. restore_runs[i].run \in Nat
      BY <3>1, BackupAssumption DEF RestoreRun
    <3>3. restore_runs[i].run <= n
      BY <1>1 DEF TablesTyped, n
    <3>. QED
      BY <1>1, <3>2, <3>3
  <2>3. n + 1 <= MaxRuns
    BY <1>1, <1>5, BackupAssumption
  <2>. QED
    BY <1>1, <1>5, <1>6, <2>1, <2>2, <2>3 DEF TablesTyped
<1>8. SucceededHasArtifact'
  <2>1. ~("SUCCEEDED" \in {NewRun.status, NewRun.verification_status})
    BY NoneIs DEF NewRun
  <2>2. 1..(n + 1) = 1..n \cup {n + 1}
    BY <1>1
  <2>. QED
    BY <1>1, <1>5, <1>6, <2>1, <2>2 DEF TablesInv, SucceededHasArtifact, get_artifact_by_run, n
<1>9. OneArtifact' /\ ObjectsAccounted' /\ KeptWithinRetention' /\ RestoresAccounted'
  BY <1>1, <1>5 DEF TablesInv, OneArtifact, ObjectsAccounted, KeptWithinRetention, RestoresAccounted
<1>10. TablesInv'
  BY <1>7, <1>8, <1>9 DEF TablesInv
<1>11. Calm
  BY <1>1, <1>5, <1>6, Lengths DEF Calm, Grows, n
<1>12. \A c \in CallRecord : CallOk(c) => CallOk(c)'
  BY <1>1, <1>7, <1>11, CalmCall
<1>13. CallOk(d)'
  <2>1. ~get_artifact_by_run(n + 1)
    BY <1>1 DEF get_artifact_by_run, TablesTyped, BackupArtifact, n
  <2>2. ~get_artifact_by_run(d.run)'
    BY <1>3, <1>5, <2>1 DEF get_artifact_by_run
  <2>3. d.run \in 1..Len(backup_runs')
    BY <1>1, <1>3, <1>6
  <2>4. BackupOk(d)'
    BY <1>3, <1>5, <2>2, <2>3 DEF BackupOk
  <2>. QED
    BY <1>3, <2>4 DEF CallOk, Reads, RestorePcs
<1>14. PICK r \in Nat : r = d.run
  BY <1>1, <1>3
<1>15. ASSUME NEW v \in Workers \ {w}, task[v].op = "backup" PROVE task[v].run # r
  <2>1. BackupOk(task[v])
    BY <1>15, Facts DEF CallOk
  <2>. QED
    BY <1>1, <1>3, <1>14, <2>1 DEF BackupOk, n
<1>16. \A v \in Workers \ {w} : task[v].op = "backup" => task[v].run # r
  BY <1>15
<1>17. \A c \in CallRecord : CallOk(c) /\ (c.op = "backup" => c.run # r) => CallOk(c)'
  BY <1>12
<1>18. d.op = "backup" => d.run = r
  BY <1>14
<1>19. d \in CallRecord
  BY <1>3
<1>. QED
  BY <1>4, <1>10, <1>13, <1>14, <1>16, <1>17, <1>18, <1>19, CallTaken

(* pg_dump ends.                                                           *)
LEMMA DumpStep ==
  ASSUME RecordsInv, NEW w \in Workers, Dump(w)
  PROVE  RecordsInv'
<1>1. TablesInv' /\ Calm
  BY Facts, SameTables DEF Dump
<1>2. task[w] \in CallRecord /\ task[w].op = "backup" /\ BackupOk(task[w])
  BY Facts DEF Dump, CallRecord, BackupPcs, CallOk
<1>3. PICK d : d = [task[w] EXCEPT !.pc = "upload"]
  OBVIOUS
<1>4. /\ d \in CallRecord /\ task' = [task EXCEPT ![w] = d]
      /\ d.pc = "upload" /\ d.op = "backup" /\ d.run = task[w].run /\ d.row = task[w].row
  <2>1. Goto(w, "upload") /\ "upload" \in Pcs /\ "upload" \in BackupPcs
    BY DEF Dump, Pcs, BackupPcs
  <2>. QED
    BY <1>2, <1>3, <2>1, GotoIs
<1>5. BackupOk(d)'
  BY <1>2, <1>4 DEF Dump, tables, BackupOk, get_artifact_by_run
<1>6. CallOk(d)'
  BY <1>4, <1>5 DEF CallOk, Reads, RestorePcs
<1>. QED
  BY <1>1, <1>2, <1>4, <1>6, CalmStep

(* A dump is stored for a run that has no artifact yet.                    *)
LEMMA DumpStored ==
  ASSUME TablesInv, TablesTyped', Grows, UNCHANGED backup_artifacts, NEW r,
         ~get_artifact_by_run(r), objects' = objects \cup {r}
  PROVE  ObjectsAccounted' /\ \A c \in CallRecord : CallOk(c) => CallOk(c)'
<1>1. ObjectsAccounted'
  BY DEF TablesInv, ObjectsAccounted, get_artifact_by_run
<1>2. ASSUME NEW c \in CallRecord, CallOk(c) PROVE CallOk(c)'
  <2>1. c.pc \in {"dump", "upload", "artifact"} => BackupOk(c)
    BY <1>2 DEF CallOk, CallRecord, BackupPcs
  <2>2. c.pc \in {"dump", "upload", "artifact"} => ~get_artifact_by_run(c.run)'
    BY <2>1 DEF BackupOk, get_artifact_by_run
  <2>3. c.pc = "artifact" => c.run \in objects'
    BY <2>1 DEF BackupOk
  <2>4. c.pc = "deleted" => backup_artifacts[Newest(c.expired)].run \notin objects'
    <3>1. SUFFICES ASSUME c.pc = "deleted"
                   PROVE  backup_artifacts[Newest(c.expired)].run \notin objects'
      OBVIOUS
    <3>2. RetentionOk(c)
      BY <1>2, <3>1 DEF CallOk, CallRecord, RetentionPcs
    <3>3. Len(backup_artifacts) \in Nat
      BY Lengths DEF TablesInv
    <3>4. Newest(c.expired) \in 1..Len(backup_artifacts)
      BY <3>2, <3>3, NewestIs DEF RetentionOk
    <3>. QED
      BY <3>1, <3>2, <3>4 DEF RetentionOk, get_artifact_by_run
  <2>. QED
    BY <1>2, <2>2, <2>3, <2>4, CallStable DEF TablesInv
<1>. QED
  BY <1>1, <1>2

(* The dump is stored.                                                     *)
LEMMA UploadStep ==
  ASSUME RecordsInv, NEW w \in Workers, Upload(w)
  PROVE  RecordsInv'
<1>1. PICK r \in Nat : r = task[w].run
  BY Facts DEF CallRecord
<1>2. task[w] \in CallRecord /\ task[w].op = "backup" /\ BackupOk(task[w])
  BY Facts DEF Upload, CallRecord, BackupPcs, CallOk
<1>3. ~get_artifact_by_run(r) /\ objects' = objects \cup {r}
      /\ UNCHANGED <<policy, next_run_at, backup_runs, backup_artifacts, restore_runs, restored>>
  BY <1>1, <1>2 DEF Upload, BackupOk, tables
<1>4. TablesTyped' /\ Grows /\ OneArtifact' /\ SucceededHasArtifact' /\ KeptWithinRetention'
      /\ RestoresAccounted'
  <2>1. TablesInv /\ TablesTyped
    BY Facts
  <2>2. TablesTyped'
    BY <1>3, <2>1 DEF TablesTyped
  <2>3. Grows
    BY <1>3, <2>1, Lengths DEF Grows
  <2>. QED
    BY <1>3, <2>1, <2>2, <2>3 DEF TablesInv, OneArtifact, SucceededHasArtifact,
       KeptWithinRetention, RestoresAccounted, get_artifact_by_run
<1>5. ObjectsAccounted' /\ \A c \in CallRecord : CallOk(c) => CallOk(c)'
  BY <1>3, <1>4, Facts, DumpStored
<1>6. TablesInv'
  BY <1>4, <1>5 DEF TablesInv
<1>7. PICK d : d = [task[w] EXCEPT !.pc = "artifact"]
  OBVIOUS
<1>8. /\ d \in CallRecord /\ task' = [task EXCEPT ![w] = d]
      /\ d.pc = "artifact" /\ d.op = "backup" /\ d.run = r /\ d.row = task[w].row
  <2>1. Goto(w, "artifact") /\ "artifact" \in Pcs /\ "artifact" \in BackupPcs
    BY DEF Upload, Pcs, BackupPcs
  <2>. QED
    BY <1>1, <1>2, <1>7, <2>1, GotoIs
<1>9. BackupOk(d)'
  BY <1>1, <1>2, <1>3, <1>8 DEF BackupOk, get_artifact_by_run
<1>10. CallOk(d)'
  BY <1>8, <1>9 DEF CallOk, Reads, RestorePcs
<1>11. \A v \in Workers \ {w} : task[v].op = "backup" => task[v].run # r
  BY <1>1, <1>2 DEF RecordsInv, BackupsApart
<1>12. \A c \in CallRecord : CallOk(c) /\ (c.op = "backup" => c.run # r) => CallOk(c)'
  BY <1>5
<1>. QED
  BY <1>1, <1>6, <1>8, <1>10, <1>11, <1>12, CallTaken

(* The artifact is inserted.                                               *)
LEMMA RecordArtifactStep ==
  ASSUME RecordsInv, NEW w \in Workers, RecordArtifact(w)
  PROVE  RecordsInv'
<1>1. PICK r \in Nat : r = task[w].run
  BY Facts DEF CallRecord
<1>2. task[w] \in CallRecord /\ task[w].op = "backup" /\ BackupOk(task[w]) /\ TablesInv /\ TablesTyped
  BY Facts DEF RecordArtifact, CallRecord, BackupPcs, CallOk
<1>3. /\ policy # None /\ r \in 1..Len(backup_runs) /\ r \in objects /\ ~get_artifact_by_run(r)
      /\ create_artifact([run |-> r, status |-> "ACTIVE", aged |-> FALSE])
      /\ UNCHANGED <<policy, next_run_at, backup_runs, restore_runs, objects, restored>>
  BY <1>1, <1>2 DEF RecordArtifact, BackupOk
<1>4. /\ TablesInv' /\ Grows /\ get_artifact_by_run(r)'
      /\ \A q : q # r /\ get_artifact_by_run(q)' => get_artifact_by_run(q)
  BY <1>2, <1>3, ArtifactMade
<1>5. PICK d : d = [task[w] EXCEPT !.pc = "succeed"]
  OBVIOUS
<1>6. /\ d \in CallRecord /\ task' = [task EXCEPT ![w] = d]
      /\ d.pc = "succeed" /\ d.op = "backup" /\ d.run = r /\ d.row = task[w].row
  <2>1. Goto(w, "succeed") /\ "succeed" \in Pcs /\ "succeed" \in BackupPcs
    BY DEF RecordArtifact, Pcs, BackupPcs
  <2>. QED
    BY <1>1, <1>2, <1>5, <2>1, GotoIs
<1>7. BackupOk(d)'
  BY <1>1, <1>2, <1>3, <1>4, <1>6 DEF BackupOk
<1>8. CallOk(d)'
  BY <1>6, <1>7 DEF CallOk, Reads, RestorePcs
<1>9. \A v \in Workers \ {w} : task[v].op = "backup" => task[v].run # r
  BY <1>1, <1>2 DEF RecordsInv, BackupsApart
<1>10. ASSUME NEW c \in CallRecord, CallOk(c), c.op = "backup" => c.run # r PROVE CallOk(c)'
  <2>1. c.pc \in {"dump", "upload", "artifact"} => c.op = "backup" /\ BackupOk(c)
    BY <1>10 DEF CallOk, CallRecord, BackupPcs
  <2>2. c.pc \in {"dump", "upload", "artifact"} => ~get_artifact_by_run(c.run)'
    BY <1>4, <1>10, <2>1 DEF BackupOk
  <2>3. c.pc = "artifact" => c.run \in objects'
    BY <1>3, <2>1 DEF BackupOk
  <2>4. c.pc = "deleted" => backup_artifacts[Newest(c.expired)].run \notin objects'
    BY <1>3, <1>10 DEF CallOk, CallRecord, RetentionPcs, RetentionOk
  <2>5. TablesTyped'
    BY <1>4 DEF TablesInv
  <2>. QED
    BY <1>2, <1>4, <1>10, <2>2, <2>3, <2>4, <2>5, CallStable
<1>11. \A c \in CallRecord : CallOk(c) /\ (c.op = "backup" => c.run # r) => CallOk(c)'
  BY <1>10
<1>. QED
  BY <1>1, <1>4, <1>6, <1>8, <1>9, <1>11, CallTaken

(* The run is written SUCCEEDED.                                           *)
LEMMA SucceedStep ==
  ASSUME RecordsInv, NEW w \in Workers, Succeed(w)
  PROVE  RecordsInv'
<1>. DEFINE row == [task[w].row EXCEPT !.status = "SUCCEEDED"]
<1>1. task[w] \in CallRecord /\ task[w].op = "backup" /\ BackupOk(task[w]) /\ TablesInv
  BY Facts DEF Succeed, CallRecord, BackupPcs, CallOk
<1>2. task[w].row \in BackupRun
  BY <1>1 DEF CallRecord
<1>3. row \in BackupRun /\ row.verification_status = task[w].row.verification_status
  BY <1>2 DEF BackupRun
<1>4. /\ task[w].run \in 1..Len(backup_runs) /\ get_artifact_by_run(task[w].run)
      /\ task[w].row.verification_status = None
  BY <1>1 DEF Succeed, BackupOk
<1>5. /\ backup_runs' = [backup_runs EXCEPT ![task[w].run] = row]
      /\ task' = [task EXCEPT ![w].pc = "schedule", ![w].row = row]
      /\ UNCHANGED <<policy, next_run_at, backup_artifacts, restore_runs, restored, objects>>
  BY DEF Succeed, update_run
<1>. HIDE DEF row
<1>6. TablesInv' /\ Calm
  BY <1>1, <1>3, <1>4, <1>5, RunWritten
<1>7. PICK d : d = [task[w] EXCEPT !.pc = "schedule", !.row = row]
  OBVIOUS
<1>8. /\ d \in CallRecord /\ task' = [task EXCEPT ![w] = d]
      /\ d.pc = "schedule" /\ d.op = "backup" /\ d.run = task[w].run /\ d.row = row
  <2>1. task' = [task EXCEPT ![w] = d]
    BY <1>5, <1>7 DEF RecordsInv, CallsTyped
  <2>. QED
    BY <1>1, <1>3, <1>7, <2>1 DEF CallRecord, Pcs, BackupPcs, RetentionPcs, RestorePcs
<1>9. Len(backup_runs') = Len(backup_runs)
  BY <1>1, <1>5 DEF TablesInv, TablesTyped
<1>10. BackupOk(d)'
  BY <1>1, <1>3, <1>4, <1>5, <1>8, <1>9 DEF BackupOk, get_artifact_by_run
<1>11. CallOk(d)'
  BY <1>8, <1>10 DEF CallOk, Reads, RestorePcs
<1>. QED
  BY <1>1, <1>6, <1>8, <1>11, CalmStep

(* Only what is behind the policy's schedule changes.                      *)
LEMMA ScheduleWritten ==
  ASSUME TablesInv, policy # None, policy.enabled, next_run_at' \in {"later", "due"},
         UNCHANGED <<policy, backup_runs, backup_artifacts, restore_runs, objects, restored>>
  PROVE  TablesInv' /\ Calm
<1>1. TablesTyped'
  BY NoneIs DEF TablesInv, TablesTyped
<1>2. Calm
  BY Lengths DEF TablesInv, Calm, Grows
<1>. QED
  BY <1>1, <1>2 DEF TablesInv, OneArtifact, ObjectsAccounted, SucceededHasArtifact,
                    KeptWithinRetention, RestoresAccounted, get_artifact_by_run

(* The policy gets its next time.                                          *)
LEMMA ScheduleStep ==
  ASSUME RecordsInv, NEW w \in Workers, Schedule(w)
  PROVE  RecordsInv'
<1>1. BackupOk(task[w]) /\ TablesInv
  BY Facts DEF Schedule, CallRecord, BackupPcs, CallOk
<1>2. /\ policy # None /\ policy.enabled /\ next_run_at' \in {"later", "due"}
      /\ UNCHANGED <<policy, backup_runs, backup_artifacts, restore_runs, objects, restored>>
  BY <1>1 DEF BackupOk, Schedule, update_policy_next_run
<1>3. TablesInv' /\ Calm
  BY <1>1, <1>2, ScheduleWritten
<1>. QED
  BY <1>3, CalmFinish DEF Schedule

(* The handler of create_backup.                                           *)
LEMMA BackupFailsStep ==
  ASSUME RecordsInv, NEW w \in Workers, BackupFails(w)
  PROVE  RecordsInv'
<1>. DEFINE row == [task[w].row EXCEPT !.status = "FAILED"]
<1>1. task[w] \in CallRecord /\ task[w].op = "backup" /\ BackupOk(task[w]) /\ TablesInv
  BY Facts DEF BackupFails, CallOk
<1>2. task[w].row \in BackupRun /\ task[w].run \in 1..Len(backup_runs)
      /\ task[w].row.verification_status = None
  BY <1>1 DEF CallRecord, BackupOk
<1>3. row \in BackupRun /\ row.status = "FAILED" /\ row.verification_status = None
  BY <1>2 DEF BackupRun
<1>4. /\ backup_runs' = [backup_runs EXCEPT ![task[w].run] = row]
      /\ UNCHANGED <<policy, next_run_at, backup_artifacts, restore_runs, restored>>
      /\ UNCHANGED objects \/ (task[w].pc = "upload" /\ objects' = objects \cup {task[w].run})
      /\ Finish(w)
  <2>1. update_run(w, row)
    BY DEF BackupFails
  <2>. QED
    BY <2>1 DEF BackupFails, update_run
<1>. HIDE DEF row
<1>5. ~("SUCCEEDED" \in {row.status, row.verification_status})
  BY <1>3, NoneIs
<1>6. /\ ObjectsAccounted' => TablesInv'
      /\ Grows
      /\ UNCHANGED objects => TablesInv' /\ Calm
  BY <1>1, <1>2, <1>3, <1>4, <1>5, RunWritten
<1>7. CASE UNCHANGED objects
  BY <1>4, <1>6, <1>7, CalmFinish
<1>8. CASE task[w].pc = "upload" /\ objects' = objects \cup {task[w].run}
  <2>1. PICK r \in Nat : r = task[w].run
    BY <1>1 DEF CallRecord
  <2>2. ~get_artifact_by_run(r) /\ objects' = objects \cup {r}
    BY <1>1, <1>8, <2>1 DEF BackupOk
  <2>3. TablesTyped'
    <3>1. backup_runs' \in Seq(BackupRun) /\ Len(backup_runs') = Len(backup_runs)
      BY <1>1, <1>2, <1>3, <1>4 DEF TablesInv, TablesTyped
    <3>. QED
      BY <1>1, <1>4, <3>1 DEF TablesInv, TablesTyped
  <2>4. ObjectsAccounted' /\ \A c \in CallRecord : CallOk(c) => CallOk(c)'
    BY <1>1, <1>4, <1>6, <2>2, <2>3, DumpStored
  <2>5. \A c \in CallRecord : CallOk(c) /\ (c.op = "backup" => c.run # r) => CallOk(c)'
    BY <2>4
  <2>6. PICK d : d = Idle
    OBVIOUS
  <2>7. d \in CallRecord /\ d.op = "none" /\ d.pc = "idle" /\ task' = [task EXCEPT ![w] = d]
    BY <1>4, <2>6, IdleIs DEF Finish
  <2>8. CallOk(d)'
    BY <2>7 DEF CallOk, Reads, RestorePcs
  <2>9. \A v \in Workers \ {w} : task[v].op = "backup" => task[v].run # r
    BY <1>1, <2>1 DEF RecordsInv, BackupsApart
  <2>10. TablesInv' /\ (d.op = "backup" => d.run = r)
    BY <1>6, <2>4, <2>7
  <2>. QED
    BY <2>1, <2>5, <2>7, <2>8, <2>9, <2>10, CallTaken
<1>. QED
  BY <1>4, <1>7, <1>8

(* verify_backup and restore_backup read the run.                          *)
LEMMA BeginStep ==
  ASSUME RecordsInv, NEW w \in Workers, NEW r \in RunIds, NEW op \in Reads, Begin(w, r, op)
  PROVE  RecordsInv'
<1>. DEFINE row == IF op = "verify" THEN get_run(r) ELSE NewRun
<1>1. TablesInv /\ TablesTyped
  BY Facts
<1>2. TablesInv' /\ Calm
  BY <1>1, SameTables DEF Begin
<1>3. r \in 1..Len(backup_runs) /\ get_run(r) = backup_runs[r]
  BY DEF Begin, get_run
<1>4. r \in Nat /\ backup_runs[r] \in BackupRun
  BY <1>1, <1>3 DEF TablesTyped
<1>5. row \in BackupRun
  BY <1>3, <1>4, IdleIs
<1>6. "SUCCEEDED" \in {row.status, row.verification_status} => get_artifact_by_run(r)
  <2>1. CASE op = "verify"
    BY <1>1, <1>3, <2>1 DEF TablesInv, SucceededHasArtifact
  <2>2. CASE op # "verify"
    BY <2>2, NoneIs DEF NewRun
  <2>. QED
    BY <2>1, <2>2
<1>7. task' = [task EXCEPT ![w] = Call(op, "lookup", r, row, {})]
  BY DEF Begin
<1>. HIDE DEF row
<1>8. PICK d : d = Call(op, "lookup", r, row, {})
  OBVIOUS
<1>9. /\ d \in CallRecord /\ task' = [task EXCEPT ![w] = d]
      /\ d.pc = "lookup" /\ d.op \in Reads /\ d.run = r /\ d.row = row
  BY <1>4, <1>5, <1>7, <1>8
     DEF Call, CallRecord, Ops, Pcs, Reads, ReadPcs, BackupPcs, RetentionPcs, RestorePcs
<1>10. ReadOk(d)'
  BY <1>3, <1>6, <1>9 DEF Begin, tables, ReadOk, get_artifact_by_run
<1>11. CallOk(d)'
  BY <1>9, <1>10 DEF CallOk, Reads, RestorePcs
<1>12. d.op # "backup"
  BY <1>9 DEF Reads
<1>. QED
  BY <1>2, <1>9, <1>11, <1>12, CalmStep

(* verify_backup writes its row back.                                      *)
LEMMA VerificationStored ==
  ASSUME RecordsInv, NEW w \in Workers, task[w].op = "verify",
         NEW outcome \in {"SUCCEEDED", "FAILED"},
         outcome = "SUCCEEDED" => get_artifact_by_run(task[w].run),
         update_run(w, [task[w].row EXCEPT !.verification_status = outcome]),
         Finish(w),
         UNCHANGED <<policy, next_run_at, backup_artifacts, restore_runs, objects, restored>>
  PROVE  RecordsInv'
<1>. DEFINE row == [task[w].row EXCEPT !.verification_status = outcome]
<1>1. task[w] \in CallRecord /\ ReadOk(task[w]) /\ TablesInv
  BY Facts DEF CallOk, Reads
<1>2. task[w].row \in BackupRun /\ task[w].run \in 1..Len(backup_runs)
  BY <1>1 DEF CallRecord, ReadOk
<1>3. row \in BackupRun /\ row.status = task[w].row.status /\ row.verification_status = outcome
  BY <1>2 DEF BackupRun
<1>4. backup_runs' = [backup_runs EXCEPT ![task[w].run] = row]
  BY DEF update_run
<1>. HIDE DEF row
<1>5. "SUCCEEDED" \in {row.status, row.verification_status} => get_artifact_by_run(task[w].run)
  BY <1>1, <1>3 DEF ReadOk
<1>6. TablesInv' /\ Calm
  BY <1>1, <1>2, <1>3, <1>4, <1>5, RunWritten
<1>. QED
  BY <1>6, CalmFinish

(* They look up the artifact.                                              *)
LEMMA LookupStep ==
  ASSUME RecordsInv, NEW w \in Workers, Lookup(w)
  PROVE  RecordsInv'
<1>. DEFINE r == task[w].run
<1>1. TablesInv /\ task[w] \in CallRecord /\ task[w].pc = "lookup"
  BY Facts DEF Lookup
<1>2. task[w].op \in Reads
  BY <1>1 DEF CallRecord, Ops, BackupPcs, RetentionPcs
<1>3. ReadOk(task[w])
  BY <1>2, Facts DEF CallOk
<1>4. UNCHANGED <<policy, next_run_at, backup_artifacts, restore_runs, objects, restored>>
  BY DEF Lookup
<1>5. UNCHANGED backup_runs => TablesInv' /\ Calm
  BY <1>1, <1>4, SameTables DEF tables
<1>6. CASE get_artifact_by_run(r) /\ Goto(w, "check") /\ UNCHANGED backup_runs
  <2>1. PICK d : d = [task[w] EXCEPT !.pc = "check"]
    OBVIOUS
  <2>2. /\ d \in CallRecord /\ task' = [task EXCEPT ![w] = d]
        /\ d.pc = "check" /\ d.op = task[w].op /\ d.run = r /\ d.row = task[w].row
    <3>1. "check" \in Pcs /\ "check" \in ReadPcs
      BY DEF Pcs, ReadPcs
    <3>. QED
      BY <1>2, <1>6, <2>1, <3>1, GotoIs
  <2>3. ReadOk(d)'
    BY <1>3, <1>4, <1>6, <2>2 DEF ReadOk, get_artifact_by_run
  <2>4. CallOk(d)' /\ d.op # "backup"
    BY <1>2, <2>2, <2>3 DEF CallOk, Reads, RestorePcs
  <2>. QED
    BY <1>5, <1>6, <2>2, <2>4, CalmStep
<1>7. CASE /\ task[w].op = "verify" /\ Finish(w)
           /\ update_run(w, [task[w].row EXCEPT !.verification_status = "FAILED"])
  BY <1>4, <1>7, VerificationStored
<1>8. CASE Finish(w) /\ UNCHANGED backup_runs
  BY <1>5, <1>8, CalmFinish
<1>. QED
  BY <1>6, <1>7, <1>8 DEF Lookup

(* verify_backup writes back the row it has read.                          *)
LEMMA VerifySteps ==
  ASSUME RecordsInv, NEW w \in Workers, VerifyCheck(w) \/ VerifyFails(w)
  PROVE  RecordsInv'
<1>1. task[w].op = "verify" /\ task[w].pc = "check" /\ Finish(w)
      /\ UNCHANGED <<policy, next_run_at, backup_artifacts, restore_runs, objects, restored>>
  BY DEF VerifyCheck, VerifyFails
<1>2. get_artifact_by_run(task[w].run)
  BY <1>1, Facts DEF CallOk, Reads, ReadOk
<1>3. PICK outcome \in {"SUCCEEDED", "FAILED"} :
        update_run(w, [task[w].row EXCEPT !.verification_status = outcome])
  <2>1. CASE VerifyCheck(w)
    BY <2>1 DEF VerifyCheck
  <2>2. CASE VerifyFails(w)
    BY <2>2 DEF VerifyFails
  <2>. QED
    BY <2>1, <2>2
<1>. QED
  BY <1>1, <1>2, <1>3, VerificationStored

(* restore_backup compares the checksum.                                   *)
LEMMA RestoreCheckStep ==
  ASSUME RecordsInv, NEW w \in Workers, RestoreCheck(w)
  PROVE  RecordsInv'
<1>. DEFINE r == task[w].run
            n == Len(restore_runs)
<1>1. TablesInv /\ TablesTyped /\ task[w] \in CallRecord /\ n \in Nat
  BY Facts, Lengths
<1>2. task[w].op \in {"restore", "dry_run"} /\ task[w].pc = "check"
      /\ UNCHANGED <<policy, next_run_at, backup_runs, backup_artifacts, objects, restored>>
  BY DEF RestoreCheck
<1>3. ReadOk(task[w])
  BY <1>2, Facts DEF CallOk, Reads
<1>4. r \in 1..Len(backup_runs)
  BY <1>3 DEF ReadOk
<1>5. CASE Finish(w) /\ UNCHANGED restore_runs
  BY <1>1, <1>2, <1>5, SameTables, CalmFinish DEF tables
<1>6. CASE create_restore(w, "DRY_RUN") /\ Finish(w)
  <2>1. restore_runs' = Append(restore_runs, [run |-> r, status |-> "DRY_RUN"])
    BY <1>6 DEF create_restore
  <2>2. TablesInv' /\ Calm
    BY <1>1, <1>2, <1>4, <2>1, RestoreMade
  <2>. QED
    BY <1>6, <2>2, CalmFinish
<1>7. CASE /\ task[w].op = "restore" /\ create_restore(w, "RUNNING")
           /\ task' = [task EXCEPT ![w].pc = "restore", ![w].restore = n + 1]
  <2>1. restore_runs' = Append(restore_runs, [run |-> r, status |-> "RUNNING"])
    BY <1>7 DEF create_restore
  <2>2. /\ TablesInv' /\ Calm /\ Len(restore_runs') = n + 1
        /\ restore_runs'[n + 1] = [run |-> r, status |-> "RUNNING"]
    BY <1>1, <1>2, <1>4, <2>1, RestoreMade
  <2>3. PICK d : d = [task[w] EXCEPT !.pc = "restore", !.restore = n + 1]
    OBVIOUS
  <2>. HIDE DEF n
  <2>4. /\ d \in CallRecord /\ task' = [task EXCEPT ![w] = d]
        /\ d.pc = "restore" /\ d.op = "restore" /\ d.run = r /\ d.row = task[w].row
        /\ d.restore = n + 1
    <3>1. task' = [task EXCEPT ![w] = d]
      BY <1>7, <2>3 DEF RecordsInv, CallsTyped
    <3>2. n + 1 \in Nat
      BY <1>1
    <3>3. d \in CallRecord
      BY <1>1, <1>7, <2>3, <3>2 DEF CallRecord, Pcs, BackupPcs, RetentionPcs, RestorePcs
    <3>4. d.pc = "restore" /\ d.op = "restore" /\ d.run = r /\ d.row = task[w].row /\ d.restore = n + 1
      BY <1>1, <1>7, <2>3 DEF CallRecord
    <3>. QED
      BY <3>1, <3>3, <3>4
  <2>5. RestoreOk(d)'
    BY <1>1, <2>2, <2>4 DEF RestoreOk
  <2>6. ReadOk(d)'
    BY <1>2, <1>3, <2>4 DEF ReadOk, get_artifact_by_run
  <2>7. CallOk(d)'
    BY <2>4, <2>5, <2>6 DEF CallOk
  <2>. QED
    BY <2>2, <2>4, <2>7, CalmStep
<1>. QED
  BY <1>5, <1>6, <1>7 DEF RestoreCheck

(* pg_restore reads the dump.                                              *)
LEMMA RestoreStep ==
  ASSUME RecordsInv, NEW w \in Workers, Restore(w)
  PROVE  RecordsInv'
<1>. DEFINE r == task[w].run
<1>1. TablesInv /\ TablesTyped /\ task[w] \in CallRecord /\ CallOk(task[w])
  BY Facts
<1>2. task[w].op = "restore" /\ RestoreOk(task[w]) /\ ReadOk(task[w])
  BY <1>1 DEF Restore, CallRecord, CallOk, RestorePcs, Reads
<1>3. /\ UNCHANGED <<policy, next_run_at, backup_runs, backup_artifacts, restore_runs, objects>>
      /\ restored' = restored \cup {r}
  BY DEF Restore, tables
<1>4. TablesTyped' /\ Calm
  BY <1>1, <1>3, Lengths DEF TablesTyped, Calm, Grows
<1>5. RestoresAccounted'
  <2>1. /\ task[w].restore \in 1..Len(restore_runs)
        /\ restore_runs[task[w].restore].run = r /\ restore_runs[task[w].restore].status # "DRY_RUN"
    BY <1>2 DEF RestoreOk
  <2>. QED
    BY <1>1, <1>3, <2>1 DEF TablesInv, RestoresAccounted
<1>6. TablesInv'
  BY <1>1, <1>3, <1>4, <1>5 DEF TablesInv, OneArtifact, ObjectsAccounted, SucceededHasArtifact,
     KeptWithinRetention, get_artifact_by_run
<1>7. PICK pc \in {"restore_done", "restore_failed"} : Goto(w, pc)
  BY DEF Restore
<1>8. PICK d : d = [task[w] EXCEPT !.pc = pc]
  OBVIOUS
<1>9. /\ d \in CallRecord /\ task' = [task EXCEPT ![w] = d]
      /\ d.pc = pc /\ d.op = "restore" /\ d.run = r /\ d.row = task[w].row
      /\ d.restore = task[w].restore
  <2>1. pc \in Pcs /\ pc \in RestorePcs
    BY DEF Pcs, RestorePcs
  <2>. QED
    BY <1>2, <1>7, <1>8, <2>1, GotoIs
<1>10. RestoreOk(d)'
  BY <1>2, <1>3, <1>9 DEF RestoreOk
<1>11. ReadOk(d)'
  BY <1>2, <1>3, <1>9 DEF ReadOk, get_artifact_by_run
<1>12. CallOk(d)'
  BY <1>9, <1>10, <1>11 DEF CallOk
<1>. QED
  BY <1>4, <1>6, <1>9, <1>12, CalmStep

(* The outcome of a restore is written.                                    *)
LEMMA RestoreEndsStep ==
  ASSUME RecordsInv, NEW w \in Workers, RestoreEnds(w)
  PROVE  RecordsInv'
<1>1. TablesInv /\ task[w] \in CallRecord /\ CallOk(task[w])
  BY Facts
<1>2. /\ task[w].pc \in RestorePcs /\ Finish(w)
      /\ UNCHANGED <<policy, next_run_at, backup_runs, backup_artifacts, objects, restored>>
  BY DEF RestoreEnds, RestorePcs
<1>3. RestoreOk(task[w])
  BY <1>1, <1>2 DEF CallOk
<1>4. PICK status \in {"SUCCEEDED", "FAILED"} :
        update_restore(w, status) /\ (status = "SUCCEEDED" => task[w].pc = "restore_done")
  BY DEF RestoreEnds
<1>5. PICK i : i = task[w].restore
  OBVIOUS
<1>6. /\ i \in 1..Len(restore_runs)
      /\ status = "SUCCEEDED" => restore_runs[i].run \in restored
      /\ restore_runs' = [restore_runs EXCEPT ![i].status = status]
  BY <1>3, <1>4, <1>5 DEF RestoreOk, update_restore
<1>7. TablesInv' /\ Calm
  BY <1>1, <1>2, <1>4, <1>6, RestoreWritten
<1>. QED
  BY <1>2, <1>7, CalmFinish

(* apply_retention selects what is due.                                    *)
LEMMA ApplyRetentionStep ==
  ASSUME RecordsInv, NEW w \in Workers, ApplyRetention(w)
  PROVE  RecordsInv'
<1>1. TablesInv /\ TablesTyped
  BY Facts
<1>2. /\ policy # None /\ Expired # {} /\ UNCHANGED <<tables, objects, restored>>
      /\ task' = [task EXCEPT ![w] = Call("retention", "expire", 0, NewRun, Expired)]
  BY DEF ApplyRetention, get_policy
<1>3. TablesInv' /\ Calm
  BY <1>1, <1>2, SameTables
<1>4. Expired \subseteq 1..Len(backup_artifacts) /\ \A i \in Expired : Due(i)
  BY <1>1, <1>2, ExpiredIsDue
<1>5. PICK S : S = Expired
  OBVIOUS
<1>6. S \in SUBSET Nat
  <2>1. \A i \in 1..Len(backup_artifacts) : i \in Nat
    BY <1>1, Lengths
  <2>. QED
    BY <1>4, <1>5, <2>1
<1>7. PICK d : d = Call("retention", "expire", 0, NewRun, S)
  OBVIOUS
<1>8. /\ d \in CallRecord /\ task' = [task EXCEPT ![w] = d]
      /\ d.pc = "expire" /\ d.op = "retention" /\ d.expired = S
  <2>1. d \in CallRecord /\ d.pc = "expire" /\ d.op = "retention" /\ d.expired = S
    BY <1>6, <1>7, IdleIs
       DEF Call, CallRecord, Ops, Pcs, Reads, BackupPcs, RetentionPcs, RestorePcs
  <2>. QED
    BY <1>2, <1>5, <1>7, <2>1
<1>9. RetentionOk(d)'
  BY <1>2, <1>4, <1>5, <1>8 DEF RetentionOk, Due, tables
<1>10. CallOk(d)'
  BY <1>8, <1>9 DEF CallOk, Reads, RestorePcs
<1>. QED
  BY <1>3, <1>8, <1>10, CalmStep

(* What a retention call is about to take is still due.                    *)
LEMMA RetentionFacts ==
  ASSUME RecordsInv, NEW w \in Workers, task[w].pc \in RetentionPcs
  PROVE  /\ task[w].op = "retention" /\ RetentionOk(task[w])
         /\ Newest(task[w].expired) \in task[w].expired
         /\ Newest(task[w].expired) \in 1..Len(backup_artifacts)
         /\ Due(Newest(task[w].expired))
<1>1. TablesTyped /\ task[w] \in CallRecord /\ CallOk(task[w])
  BY Facts
<1>2. task[w].op = "retention" /\ RetentionOk(task[w])
  BY <1>1 DEF CallRecord, CallOk
<1>3. Newest(task[w].expired) \in task[w].expired
  BY <1>1, <1>2, Lengths, NewestIs DEF RetentionOk
<1>. QED
  BY <1>2, <1>3 DEF RetentionOk

(* A retention call is done with its newest artifact.                      *)
LEMMA NextArtifactStep ==
  ASSUME RecordsInv, TablesInv', Calm, NEW w \in Workers, task[w].pc \in RetentionPcs,
         NextArtifact(w)
  PROVE  RecordsInv'
<1>1. TablesTyped /\ TablesTyped' /\ task[w] \in CallRecord
  BY Facts DEF TablesInv
<1>2. task[w].op = "retention" /\ RetentionOk(task[w])
  BY RetentionFacts
<1>. DEFINE rest == task[w].expired \ {Newest(task[w].expired)}
<1>3. CASE rest = {}
  <2>1. Finish(w)
    BY <1>3 DEF NextArtifact, Finish
  <2>. QED
    BY <2>1, CalmFinish
<1>4. CASE rest # {}
  <2>1. task[w].expired \in SUBSET Nat
    BY <1>1 DEF CallRecord
  <2>2. rest # {} /\ rest \subseteq task[w].expired /\ rest \in SUBSET Nat
    BY <1>4, <2>1
  <2>3. task' = [task EXCEPT ![w] = [task[w] EXCEPT !.expired = rest, !.pc = "expire"]]
    BY <1>4 DEF NextArtifact
  <2>. HIDE DEF rest
  <2>4. PICK d : d = [task[w] EXCEPT !.expired = rest, !.pc = "expire"]
    OBVIOUS
  <2>5. d \in CallRecord /\ d.pc = "expire" /\ d.op = "retention" /\ d.expired = rest
    BY <1>1, <1>2, <2>2, <2>4 DEF CallRecord, Pcs, BackupPcs, RetentionPcs, RestorePcs
  <2>6. RetentionOk(d)
    BY <1>2, <2>2, <2>5 DEF RetentionOk
  <2>7. CallOk(d)
    BY <2>5, <2>6 DEF CallOk, Reads, RestorePcs
  <2>8. CallOk(d)'
    BY <1>1, <2>5, <2>7, CalmCall
  <2>. QED
    BY <2>3, <2>4, <2>5, <2>8, CalmStep
<1>. QED
  BY <1>3, <1>4

(* update_artifact_status on the artifact a retention call is at.          *)
LEMMA StatusWritten ==
  ASSUME RecordsInv, NEW w \in Workers, task[w].pc \in RetentionPcs,
         NEW status \in {"EXPIRED", "DELETED"},
         status = "DELETED" => backup_artifacts[Newest(task[w].expired)].run \notin objects,
         update_artifact_status(w, status),
         UNCHANGED <<policy, next_run_at, backup_runs, restore_runs, objects, restored>>
  PROVE  /\ TablesInv' /\ Calm
         /\ backup_artifacts'[Newest(task[w].expired)].status = status
<1>1. PICK i : i = Newest(task[w].expired)
  OBVIOUS
<1>2. i \in 1..Len(backup_artifacts) /\ Due(i) /\ TablesInv
  BY <1>1, RetentionFacts, Facts
<1>3. backup_artifacts \in Seq(BackupArtifact)
  BY <1>2 DEF TablesInv, TablesTyped
<1>. DEFINE art == [backup_artifacts[i] EXCEPT !.status = status]
<1>4. /\ art \in BackupArtifact /\ art.run = backup_artifacts[i].run
      /\ art.status = status /\ art.aged = backup_artifacts[i].aged
  <2>1. backup_artifacts[i] \in BackupArtifact
    BY <1>2, <1>3
  <2>. QED
    BY <2>1 DEF BackupArtifact
<1>5. backup_artifacts' = [backup_artifacts EXCEPT ![i] = art]
  BY <1>1 DEF update_artifact_status
<1>. HIDE DEF art
<1>6. TablesInv' /\ Calm
  BY <1>1, <1>2, <1>4, <1>5, ArtifactWritten
<1>. QED
  BY <1>1, <1>2, <1>3, <1>4, <1>5, <1>6

(* An artifact is marked EXPIRED.                                          *)
LEMMA ExpireStep ==
  ASSUME RecordsInv, NEW w \in Workers, Expire(w)
  PROVE  RecordsInv'
<1>1. /\ task[w].pc = "expire" /\ task[w].pc \in RetentionPcs
      /\ update_artifact_status(w, "EXPIRED")
      /\ UNCHANGED <<policy, next_run_at, backup_runs, restore_runs, objects, restored>>
      /\ Goto(w, "delete") \/ NextArtifact(w)
  BY DEF Expire, RetentionPcs
<1>2. TablesInv' /\ Calm /\ backup_artifacts'[Newest(task[w].expired)].status = "EXPIRED"
  BY <1>1, StatusWritten
<1>3. CASE NextArtifact(w)
  BY <1>1, <1>2, <1>3, NextArtifactStep
<1>4. CASE Goto(w, "delete")
  <2>1. task[w].op = "retention"
    BY <1>1, RetentionFacts
  <2>2. PICK c : c = task[w]
    OBVIOUS
  <2>3. PICK d : d = [task[w] EXCEPT !.pc = "delete"]
    OBVIOUS
  <2>4. /\ d \in CallRecord /\ task' = [task EXCEPT ![w] = d]
        /\ d.pc = "delete" /\ d.op = "retention" /\ d.expired = c.expired
    <3>1. "delete" \in Pcs /\ "delete" \in RetentionPcs
      BY DEF Pcs, RetentionPcs
    <3>. QED
      BY <1>4, <2>1, <2>2, <2>3, <3>1, GotoIs
  <2>5. c \in CallRecord /\ CallOk(c) /\ TablesTyped /\ TablesTyped'
    BY <1>2, <2>2, Facts DEF TablesInv
  <2>6. CallOk(c)'
    BY <1>2, <2>5, CalmCall
  <2>7. RetentionOk(c)'
    BY <2>1, <2>2, <2>6 DEF CallOk
  <2>8. RetentionOk(d)'
    BY <1>2, <2>2, <2>4, <2>7 DEF RetentionOk
  <2>9. CallOk(d)'
    BY <2>4, <2>8 DEF CallOk, Reads, RestorePcs
  <2>. QED
    BY <1>2, <2>4, <2>9, CalmStep
<1>. QED
  BY <1>1, <1>3, <1>4

(* An artifact is marked DELETED.                                          *)
LEMMA MarkDeletedStep ==
  ASSUME RecordsInv, NEW w \in Workers, MarkDeleted(w)
  PROVE  RecordsInv'
<1>1. /\ task[w].pc = "deleted" /\ task[w].pc \in RetentionPcs
      /\ update_artifact_status(w, "DELETED") /\ NextArtifact(w)
      /\ UNCHANGED <<policy, next_run_at, backup_runs, restore_runs, objects, restored>>
  BY DEF MarkDeleted, RetentionPcs
<1>2. backup_artifacts[Newest(task[w].expired)].run \notin objects
  BY <1>1, RetentionFacts DEF RetentionOk
<1>3. TablesInv' /\ Calm
  BY <1>1, <1>2, StatusWritten
<1>. QED
  BY <1>1, <1>3, NextArtifactStep

(* A dump is deleted; no ACTIVE artifact loses its own.                    *)
LEMMA DeleteObjectStep ==
  ASSUME RecordsInv, NEW w \in Workers, DeleteObject(w)
  PROVE  RecordsInv'
<1>1. PICK i : i = Newest(task[w].expired)
  OBVIOUS
<1>2. task[w].pc = "delete" /\ task[w].pc \in RetentionPcs /\ Goto(w, "deleted")
      /\ UNCHANGED <<policy, next_run_at, backup_runs, backup_artifacts, restore_runs, restored>>
      /\ objects' = objects \ {backup_artifacts[i].run}
  BY <1>1 DEF DeleteObject, RetentionPcs, tables
<1>3. TablesInv /\ TablesTyped
  BY Facts
<1>4. task[w].op = "retention" /\ RetentionOk(task[w]) /\ i \in 1..Len(backup_artifacts)
  BY <1>1, <1>2, RetentionFacts
<1>5. backup_artifacts[i].status # "ACTIVE"
  BY <1>1, <1>2, <1>4 DEF RetentionOk
<1>6. TablesTyped' /\ Grows
  BY <1>2, <1>3, Lengths DEF TablesTyped, Grows
<1>7. ObjectsAccounted'
  BY <1>2, <1>3, <1>4, <1>5 DEF TablesInv, ObjectsAccounted, OneArtifact
<1>8. TablesInv'
  BY <1>2, <1>3, <1>6, <1>7 DEF TablesInv, OneArtifact, SucceededHasArtifact,
     KeptWithinRetention, RestoresAccounted, get_artifact_by_run
<1>9. ASSUME NEW c \in CallRecord, CallOk(c) PROVE CallOk(c)'
  <2>1. c.pc \in {"dump", "upload", "artifact"} => BackupOk(c)
    BY <1>9 DEF CallOk, CallRecord, BackupPcs
  <2>2. c.pc \in {"dump", "upload", "artifact"} => ~get_artifact_by_run(c.run)'
    BY <1>2, <2>1 DEF BackupOk, get_artifact_by_run
  <2>3. c.pc = "artifact" => c.run \in objects'
    BY <1>2, <1>4, <2>1 DEF BackupOk, get_artifact_by_run
  <2>4. c.pc = "deleted" => backup_artifacts[Newest(c.expired)].run \notin objects'
    BY <1>2, <1>9 DEF CallOk, CallRecord, RetentionPcs, RetentionOk
  <2>. QED
    BY <1>3, <1>6, <1>9, <2>2, <2>3, <2>4, CallStable
<1>10. PICK d : d = [task[w] EXCEPT !.pc = "deleted"]
  OBVIOUS
<1>11. /\ d \in CallRecord /\ task' = [task EXCEPT ![w] = d]
       /\ d.pc = "deleted" /\ d.op = "retention" /\ d.expired = task[w].expired
  <2>1. "deleted" \in Pcs /\ "deleted" \in RetentionPcs
    BY DEF Pcs, RetentionPcs
  <2>. QED
    BY <1>2, <1>4, <1>10, <2>1, GotoIs
<1>12. RetentionOk(d)'
  BY <1>1, <1>2, <1>4, <1>5, <1>11 DEF RetentionOk, Due
<1>13. CallOk(d)'
  BY <1>11, <1>12 DEF CallOk, Reads, RestorePcs
<1>14. ASSUME NEW v \in Workers \ {w}, task[v].op = "backup" PROVE task[v].run # 0
  <2>1. BackupOk(task[v])
    BY <1>14, Facts DEF CallOk
  <2>. QED
    BY <1>3, <2>1, Lengths DEF BackupOk
<1>15. \A c \in CallRecord : CallOk(c) /\ (c.op = "backup" => c.run # 0) => CallOk(c)'
  BY <1>9
<1>16. \A v \in Workers \ {w} : task[v].op = "backup" => task[v].run # 0
  BY <1>14
<1>17. 0 \in Nat /\ (d.op = "backup" => d.run = 0)
  BY <1>11
<1>. QED
  BY <1>8, <1>11, <1>13, <1>15, <1>16, <1>17, CallTaken

(* A call dies anywhere.                                                   *)
LEMMA CrashStep ==
  ASSUME RecordsInv, NEW w \in Workers, Crash(w)
  PROVE  RecordsInv'
<1>1. TablesInv' /\ Calm
  BY Facts, SameTables DEF Crash
<1>. QED
  BY <1>1, CalmFinish DEF Crash

-----------------------------------------------------------------------------
(* The steps of no call.                                                   *)

(* The policy is created.                                                  *)
LEMMA CreatePolicyStep ==
  ASSUME RecordsInv, NEW p \in Policies, create_policy(p)
  PROVE  RecordsInv'
<1>1. TablesInv /\ TablesTyped
  BY DEF RecordsInv, TablesInv
<1>2. /\ policy = None /\ policy' = p /\ next_run_at' = IF p.enabled THEN "later" ELSE None
      /\ UNCHANGED <<backup_runs, backup_artifacts, restore_runs, objects, restored, task>>
  BY DEF create_policy
<1>3. p \in BackupPolicy /\ p # None /\ p.enabled \in BOOLEAN
  BY BackupAssumption DEF PolicyCreateRequest, BackupPolicy
<1>4. Len(backup_artifacts) = 0
  BY <1>1, <1>2, Lengths DEF TablesTyped
<1>5. TablesTyped'
  BY <1>1, <1>2, <1>3, <1>4, NoneIs DEF TablesTyped
<1>6. Calm
  BY <1>1, <1>2, Lengths DEF Calm, Grows
<1>7. KeptWithinRetention'
  BY <1>2, <1>4 DEF KeptWithinRetention
<1>8. TablesInv'
  BY <1>1, <1>2, <1>5, <1>7 DEF TablesInv, OneArtifact, ObjectsAccounted, SucceededHasArtifact,
     RestoresAccounted, get_artifact_by_run
<1>. QED
  BY <1>2, <1>6, <1>8, NoCall

(* The policy comes due.                                                   *)
LEMMA ComesDueStep ==
  ASSUME RecordsInv, ComesDue
  PROVE  RecordsInv'
<1>1. TablesInv /\ TablesTyped
  BY DEF RecordsInv, TablesInv
<1>2. /\ next_run_at = "later" /\ next_run_at' \in {"later", "due"}
      /\ UNCHANGED <<policy, backup_runs, backup_artifacts, restore_runs, objects, restored, task>>
  BY DEF ComesDue
<1>3. policy # None /\ policy.enabled
  BY <1>1, <1>2, NoneIs DEF TablesTyped
<1>4. TablesInv' /\ Calm
  BY <1>1, <1>2, <1>3, ScheduleWritten
<1>. QED
  BY <1>2, <1>4, NoCall

(* An artifact passes its expiry.                                          *)
LEMMA PassesExpiryStep ==
  ASSUME RecordsInv, NEW i \in 1..Len(backup_artifacts), PassesExpiry(i)
  PROVE  RecordsInv'
<1>1. TablesInv /\ backup_artifacts \in Seq(BackupArtifact)
  BY DEF RecordsInv, TablesInv, TablesTyped
<1>2. /\ backup_artifacts' = [backup_artifacts EXCEPT ![i].aged = TRUE]
      /\ UNCHANGED <<policy, next_run_at, backup_runs, restore_runs, objects, restored, task>>
  BY DEF PassesExpiry
<1>. DEFINE art == [backup_artifacts[i] EXCEPT !.aged = TRUE]
<1>3. /\ art \in BackupArtifact /\ art.run = backup_artifacts[i].run
      /\ art.status = backup_artifacts[i].status /\ art.aged
  <2>1. backup_artifacts[i] \in BackupArtifact
    BY <1>1
  <2>. QED
    BY <2>1 DEF BackupArtifact
<1>4. backup_artifacts' = [backup_artifacts EXCEPT ![i] = art]
  BY <1>2
<1>. HIDE DEF art
<1>5. TablesInv' /\ Calm
  BY <1>1, <1>2, <1>3, <1>4, ArtifactWritten
<1>. QED
  BY <1>2, <1>5, NoCall

-----------------------------------------------------------------------------
(* The invariant holds at first.                                           *)
LEMMA RecordsInvInit == Init => RecordsInv
<1>. SUFFICES ASSUME Init PROVE RecordsInv
  OBVIOUS
<1>1. /\ policy = None /\ next_run_at = None
      /\ backup_runs = << >> /\ backup_artifacts = << >> /\ restore_runs = << >>
      /\ objects = {} /\ restored = {} /\ task = [w \in Workers |-> Idle]
  BY DEF Init
<1>2. Len(backup_runs) = 0 /\ Len(backup_artifacts) = 0 /\ Len(restore_runs) = 0
  BY <1>1
<1>3. TablesTyped
  BY <1>1, <1>2, BackupAssumption DEF TablesTyped
<1>4. /\ OneArtifact /\ ObjectsAccounted /\ SucceededHasArtifact /\ KeptWithinRetention
      /\ RestoresAccounted
  BY <1>1, <1>2 DEF OneArtifact, ObjectsAccounted, SucceededHasArtifact, KeptWithinRetention,
     RestoresAccounted
<1>5. \A w \in Workers : task[w] \in CallRecord /\ task[w].op = "none" /\ task[w].pc = "idle"
  BY <1>1, IdleIs
<1>6. CallsTyped /\ BackupsApart /\ CallsOk
  BY <1>1, <1>5, IdleIs DEF CallsTyped, BackupsApart, CallsOk, CallOk, Reads, RestorePcs
<1>. QED
  BY <1>3, <1>4, <1>6 DEF RecordsInv, TablesInv

(* Every step keeps it.                                                    *)
LEMMA RecordsInvNext == RecordsInv /\ [Next]_vars => RecordsInv'
<1>. SUFFICES ASSUME RecordsInv, [Next]_vars PROVE RecordsInv'
  OBVIOUS
<1>1. CASE UNCHANGED vars
  <2>1. UNCHANGED <<tables, objects, restored, task>>
    BY <1>1 DEF vars
  <2>2. TablesInv' /\ Calm
    BY <2>1, SameTables DEF RecordsInv
  <2>. QED
    BY <2>1, <2>2, NoCall
<1>2. ASSUME NEW w \in Workers, Step(w) PROVE RecordsInv'
  <2>1. StartBackup(w) \/ RunPolicy(w) \/ RunDue(w) => RecordsInv'
    BY StartBackupStep DEF RunPolicy, RunDue
  <2>2. Dump(w) \/ Upload(w) \/ RecordArtifact(w) => RecordsInv'
    BY DumpStep, UploadStep, RecordArtifactStep
  <2>3. Succeed(w) \/ Schedule(w) \/ BackupFails(w) => RecordsInv'
    BY SucceedStep, ScheduleStep, BackupFailsStep
  <2>4. (\E r \in RunIds, op \in {"verify", "restore", "dry_run"} : Begin(w, r, op)) => RecordsInv'
    BY BeginStep DEF Reads
  <2>5. Lookup(w) \/ VerifyCheck(w) \/ VerifyFails(w) => RecordsInv'
    BY LookupStep, VerifySteps
  <2>6. RestoreCheck(w) \/ Restore(w) \/ RestoreEnds(w) => RecordsInv'
    BY RestoreCheckStep, RestoreStep, RestoreEndsStep
  <2>7. ApplyRetention(w) \/ Expire(w) \/ DeleteObject(w) \/ MarkDeleted(w) => RecordsInv'
    BY ApplyRetentionStep, ExpireStep, DeleteObjectStep, MarkDeletedStep
  <2>8. Crash(w) => RecordsInv'
    BY CrashStep
  <2>. QED
    BY <1>2, <2>1, <2>2, <2>3, <2>4, <2>5, <2>6, <2>7, <2>8 DEF Step
<1>. QED
  BY <1>1, <1>2, CreatePolicyStep, ComesDueStep, PassesExpiryStep DEF Next

(* The inductive invariant holds in every reachable state.                 *)
THEOREM RecordsInvariant == Spec => []RecordsInv
BY RecordsInvInit, RecordsInvNext, PTL DEF Spec

(* An ACTIVE artifact has its dump in the object storage and a DELETED one *)
(* has not, however retention calls, backups and crashes overlap.          *)
THEOREM DumpsAreAccounted == Spec => []ObjectsAccounted
<1>1. RecordsInv => ObjectsAccounted
  BY DEF RecordsInv, TablesInv
<1>. QED
  BY <1>1, RecordsInvariant, PTL

(* No row says SUCCEEDED or verified for a run without an artifact, also   *)
(* when a row read before is written back over a newer one.                *)
THEOREM SuccessHasItsArtifact == Spec => []SucceededHasArtifact
<1>1. RecordsInv => SucceededHasArtifact
  BY DEF RecordsInv, TablesInv
<1>. QED
  BY <1>1, RecordsInvariant, PTL

(* Overlapping retention calls with stale lists never take an artifact the *)
(* policy keeps.                                                           *)
THEOREM RetentionKeepsWhatItMust == Spec => []KeptWithinRetention
<1>1. RecordsInv => KeptWithinRetention
  BY DEF RecordsInv, TablesInv
<1>. QED
  BY <1>1, RecordsInvariant, PTL

(* Rows name rows that exist, an enabled policy stays scheduled, and every *)
(* restore that reached a database is on record.                           *)
THEOREM BackupsAreAccounted == Spec => []BackupInv
<1>1. RecordsInv => BackupInv
  <2>. SUFFICES ASSUME RecordsInv PROVE BackupInv
    OBVIOUS
  <2>1. TablesTyped /\ RestoresAccounted
    BY DEF RecordsInv, TablesInv
  <2>2. \A r \in 1..Len(backup_runs) : backup_runs[r] \in BackupRun /\ get_run(r) # None
    BY <2>1, NoneIs DEF TablesTyped, get_run
  <2>3. ASSUME NEW i \in 1..Len(backup_artifacts)
        PROVE  backup_artifacts[i] \in BackupArtifact /\ get_run(backup_artifacts[i].run) # None
    <3>1. backup_artifacts[i] \in BackupArtifact /\ backup_artifacts[i].run <= Len(backup_runs)
      BY <2>1 DEF TablesTyped
    <3>2. backup_artifacts[i].run \in 1..Len(backup_runs)
      BY <2>1, <3>1, Lengths, BackupAssumption DEF BackupArtifact
    <3>. QED
      BY <2>2, <3>1, <3>2
  <2>4. ASSUME NEW i \in 1..Len(restore_runs)
        PROVE  restore_runs[i] \in RestoreRun /\ get_run(restore_runs[i].run) # None
    <3>1. restore_runs[i] \in RestoreRun /\ restore_runs[i].run <= Len(backup_runs)
      BY <2>1 DEF TablesTyped
    <3>2. restore_runs[i].run \in 1..Len(backup_runs)
      BY <2>1, <3>1, Lengths, BackupAssumption DEF RestoreRun
    <3>. QED
      BY <2>2, <3>1, <3>2
  <2>. QED
    BY <2>1, <2>2, <2>3, <2>4 DEF BackupInv, BackupTypeOK, TablesTyped
<1>. QED
  BY <1>1, RecordsInvariant, PTL

=============================================================================
