----------------------- MODULE ServiceVersioningProofs -----------------------
(***************************************************************************)
(* What VersioningService guarantees for any number of request threads,    *)
(* services, versions, dependencies and dying requests.                    *)
(***************************************************************************)
EXTENDS ServiceVersioning, TLAPS, FiniteSetTheorems, WellFoundedInduction

Ops == {"none", "create", "release", "deprecate", "retire", "check"}

Pcs == {"idle", "specs", "insert", "depend", "event", "update", "read", "resolve"}

CompatibilityReport == UNION {[D -> DOMAIN Parsed \cup {None}] : D \in SUBSET Specs}

CallRecord == [op : Ops, pc : Pcs, key : Keys \cup {None}, specs : SUBSET Specs,
               checksum : Checksums \cup {None}, report : CompatibilityReport]

CallsTyped == call \in [Threads -> CallRecord]

(* The tables are finite, and hold dependencies that requests asked for.   *)
TablesTyped ==
  /\ VersionTypeOK
  /\ IsFiniteSet(DOMAIN service_versions)
  /\ \A k \in DOMAIN dependencies : dependencies[k] \subseteq Specs

(* What a request has checked, and what of it is still true when it        *)
(* writes: a version that exists stays, one that left DRAFT does not       *)
(* return there, and no stamp is ever removed.                             *)
SpecsStillGood(c) ==
  /\ c.key.service \in services
  /\ c.pc # "specs" => \A d \in c.specs : d.service \in services \ {c.key.service}

ReadyToWrite(c) ==
  /\ Exists(c.key)
  /\ c.op \in {"release", "deprecate", "retire"}
  /\ c.op = "release" => is_stable(parse_version(c.key.version)) /\ c.checksum \in Checksums
  /\ c.op # "release" => service_versions[c.key].status # "DRAFT"
  /\ c.op = "retire" => "DEPRECATED" \in service_versions[c.key].stamps

HasHappened(c) ==
  /\ Exists(c.key)
  /\ c.op \in {"create", "release", "deprecate", "retire"}
  /\ c.op = "create" => c.key \in DOMAIN dependencies
  /\ c.op # "create" => EventType(c.op) \in service_versions[c.key].stamps

StillTrue(c) ==
  /\ c.pc # "idle" => c.key \in Keys
  /\ c.pc \in {"specs", "insert", "depend"} => SpecsStillGood(c)
  /\ c.pc = "depend" => Exists(c.key) /\ c.op = "create"
  /\ c.pc \in {"specs", "insert"} => c.op = "create"
  /\ c.pc = "update" => ReadyToWrite(c)
  /\ c.pc = "event" => HasHappened(c)

ReadsStillTrue == \A t \in Threads : StillTrue(call[t])

VersioningInv ==
  /\ TablesTyped /\ CallsTyped /\ ReadsStillTrue
  /\ ReleasedIsWhole /\ LifecycleInOrder /\ EventsAreTrue

(* What no step takes back.                                                *)
OnlyGrows ==
  /\ services \subseteq services'
  /\ DOMAIN service_versions \subseteq DOMAIN service_versions'
  /\ DOMAIN dependencies \subseteq DOMAIN dependencies'
  /\ \A k \in DOMAIN service_versions :
       /\ service_versions[k].stamps \subseteq service_versions'[k].stamps
       /\ service_versions[k].status # "DRAFT" => service_versions'[k].status # "DRAFT"

------------------------------------------------------------------------------
(* What a request found out is not undone by the steps of the others.      *)
LEMMA StillTrueStable ==
  ASSUME NEW c \in CallRecord, StillTrue(c), OnlyGrows
  PROVE  StillTrue(c)'
<1>1. SpecsStillGood(c) => SpecsStillGood(c)'
  BY DEF SpecsStillGood, OnlyGrows
<1>2. ReadyToWrite(c) => ReadyToWrite(c)'
  BY DEF ReadyToWrite, OnlyGrows, Exists
<1>3. HasHappened(c) => HasHappened(c)'
  BY DEF HasHappened, OnlyGrows, Exists
<1>. QED
  BY <1>1, <1>2, <1>3 DEF StillTrue, OnlyGrows, Exists

(* A thread without a request.                                             *)
LEMMA IdleTyped == Idle \in CallRecord /\ Idle.pc = "idle" /\ StillTrue(Idle)
<1>1. << >> \in CompatibilityReport
  <2>1. << >> \in [{} -> DOMAIN Parsed \cup {None}]
    OBVIOUS
  <2>. QED
    BY <2>1 DEF CompatibilityReport
<1>2. {} \in SUBSET Specs
  OBVIOUS
<1>3. Idle \in CallRecord
  BY <1>1, <1>2 DEF Idle, CallRecord, Ops, Pcs
<1>. QED
  BY <1>3 DEF Idle, StillTrue

(* A call that moves on keeps the rest of what it knows.                   *)
LEMMA GotoStep ==
  ASSUME CallsTyped, NEW t \in Threads, NEW pc \in Pcs, Goto(t, pc)
  PROVE  /\ CallsTyped'
         /\ call'[t].pc = pc /\ call'[t].op = call[t].op /\ call'[t].key = call[t].key
         /\ call'[t].specs = call[t].specs
         /\ \A u \in Threads : u # t => call'[u] = call[u]
<1>. DEFINE c == [call[t] EXCEPT !.pc = pc]
<1>1. c \in CallRecord
  BY DEF CallRecord, CallsTyped
<1>2. c.pc = pc /\ c.op = call[t].op /\ c.key = call[t].key /\ c.specs = call[t].specs
  BY DEF CallRecord, CallsTyped
<1>3. call' = [call EXCEPT ![t] = c]
  BY DEF Goto
<1>. HIDE DEF c
<1>. QED
  BY <1>1, <1>2, <1>3 DEF CallsTyped

(* A step of one thread that takes nothing back keeps what the other       *)
(* calls rely on.                                                          *)
LEMMA CallStep ==
  ASSUME CallsTyped, ReadsStillTrue, OnlyGrows, NEW t \in Threads,
         \A u \in Threads : u # t => call'[u] = call[u],
         StillTrue(call[t])'
  PROVE  ReadsStillTrue'
<1>1. \A u \in Threads : call[u] \in CallRecord
  BY DEF CallsTyped
<1>2. \A u \in Threads : u # t => StillTrue(call[u])'
  BY <1>1, StillTrueStable DEF ReadsStillTrue
<1>. QED
  BY <1>2 DEF ReadsStillTrue

(* A step that only moves a call on, or starts one, leaves the tables      *)
(* alone.                                                                  *)
LEMMA TablesKept ==
  ASSUME VersioningInv,
         UNCHANGED <<services, service_versions, dependencies, version_events>>
  PROVE  /\ TablesTyped' /\ ReleasedIsWhole' /\ LifecycleInOrder' /\ EventsAreTrue'
         /\ OnlyGrows
<1>1. TablesTyped'
  BY DEF VersioningInv, TablesTyped, VersionTypeOK, Exists
<1>2. ReleasedIsWhole' /\ LifecycleInOrder'
  BY DEF VersioningInv, ReleasedIsWhole, LifecycleInOrder
<1>3. EventsAreTrue'
  BY DEF VersioningInv, EventsAreTrue, Exists
<1>. QED
  BY <1>1, <1>2, <1>3 DEF OnlyGrows

(* A step that changes its own call only keeps the invariant, if the call  *)
(* still knows only what is true.                                          *)
LEMMA CallKept ==
  ASSUME VersioningInv, NEW t \in Threads, NEW c \in CallRecord,
         call' = [call EXCEPT ![t] = c], StillTrue(c),
         UNCHANGED <<services, service_versions, dependencies, version_events>>
  PROVE  VersioningInv'
<1>1. TablesTyped' /\ ReleasedIsWhole' /\ LifecycleInOrder' /\ EventsAreTrue' /\ OnlyGrows
  BY TablesKept
<1>2. StillTrue(c)'
  BY <1>1, StillTrueStable
<1>3. CallsTyped' /\ call'[t] = c /\ \A u \in Threads : u # t => call'[u] = call[u]
  BY DEF VersioningInv, CallsTyped
<1>4. ReadsStillTrue'
  BY <1>1, <1>2, <1>3, CallStep DEF VersioningInv
<1>. QED
  BY <1>1, <1>3, <1>4 DEF VersioningInv

(* The steps that change no table.                                         *)
LEMMA ReadSteps ==
  ASSUME VersioningInv, NEW t \in Threads,
         \/ \E r \in Requests : create_version(t, r)
         \/ CheckSpecs(t)
         \/ \E k \in Keys, checksum \in Checksums : release_version(t, k, checksum)
         \/ \E k \in Keys, op \in {"deprecate", "retire"} : ChangeStatus(t, k, op)
         \/ \E k \in Keys : check_compatibility(t, k)
         \/ ReadDependencies(t)
         \/ \E d \in Specs : Resolve(t, d)
         \/ Report(t)
         \/ Crash(t)
  PROVE  VersioningInv'
<1>. DEFINE tables == <<services, service_versions, dependencies, version_events>>
<1>0. call[t] \in CallRecord /\ StillTrue(call[t])
  BY DEF VersioningInv, CallsTyped, ReadsStillTrue
<1>idle. ASSUME Finish(t), UNCHANGED tables PROVE VersioningInv'
  BY <1>idle, CallKept, IdleTyped DEF Finish
<1>1. ASSUME NEW r \in Requests, create_version(t, r) PROVE VersioningInv'
  <2>. DEFINE k == [service |-> r.service, version |-> r.version]
              c == [Idle EXCEPT !.op = "create", !.pc = "specs", !.key = k,
                                !.specs = r.dependencies]
  <2>1. k \in Keys /\ r.dependencies \in SUBSET Specs
    BY DEF Keys, Specs
  <2>2. c \in CallRecord
    BY <2>1, IdleTyped DEF CallRecord, Ops, Pcs
  <2>3. c.pc = "specs" /\ c.op = "create" /\ c.key = k
    BY IdleTyped DEF CallRecord
  <2>4. StillTrue(c)
    <3>1. k.service \in services
      BY <1>1 DEF create_version, get_service
    <3>. HIDE DEF c, k
    <3>. QED
      BY <2>1, <2>3, <3>1 DEF StillTrue, SpecsStillGood
  <2>. QED
    BY <1>1, <2>2, <2>4, CallKept DEF create_version
<1>2. ASSUME CheckSpecs(t) PROVE VersioningInv'
  <2>1. CASE Finish(t)
    BY <1>2, <2>1, <1>idle DEF CheckSpecs
  <2>2. CASE Goto(t, "insert") /\ \A d \in call[t].specs : Acceptable(call[t].key, d)
    <3>. DEFINE c == [call[t] EXCEPT !.pc = "insert"]
    <3>1. c \in CallRecord /\ c.pc = "insert" /\ c.op = call[t].op /\ c.key = call[t].key
          /\ c.specs = call[t].specs
      BY <1>0 DEF CallRecord, Pcs
    <3>2. StillTrue(c)
      BY <1>0, <1>2, <2>2, <3>1
         DEF StillTrue, SpecsStillGood, CheckSpecs, Acceptable, get_service
    <3>3. call' = [call EXCEPT ![t] = c]
      BY <2>2 DEF Goto
    <3>. QED
      BY <1>2, <3>1, <3>2, <3>3, CallKept DEF CheckSpecs
  <2>. QED
    BY <1>2, <2>1, <2>2 DEF CheckSpecs
<1>3. ASSUME NEW k \in Keys, NEW checksum \in Checksums, release_version(t, k, checksum)
      PROVE  VersioningInv'
  <2>. DEFINE c == [Idle EXCEPT !.op = "release", !.pc = "update", !.key = k,
                                !.checksum = checksum]
  <2>1. c \in CallRecord /\ c.pc = "update" /\ c.op = "release" /\ c.key = k
        /\ c.checksum = checksum
    BY IdleTyped DEF CallRecord, Ops, Pcs
  <2>2. StillTrue(c)
    BY <1>3, <2>1 DEF StillTrue, ReadyToWrite, release_version
  <2>. QED
    BY <1>3, <2>1, <2>2, CallKept DEF release_version
<1>4. ASSUME NEW k \in Keys, NEW op \in {"deprecate", "retire"}, ChangeStatus(t, k, op)
      PROVE  VersioningInv'
  <2>. DEFINE c == [Idle EXCEPT !.op = op, !.pc = "update", !.key = k]
  <2>1. c \in CallRecord /\ c.pc = "update" /\ c.op = op /\ c.key = k
    BY IdleTyped DEF CallRecord, Ops, Pcs
  <2>2. Exists(k) /\ service_versions[k].status = From[op]
    BY <1>4 DEF ChangeStatus
  <2>3. From["deprecate"] = "RELEASED" /\ From["retire"] = "DEPRECATED"
    BY DEF From
  <2>4. service_versions[k].status # "DRAFT"
        /\ (op = "retire" => service_versions[k].status = "DEPRECATED")
    BY <2>2, <2>3
  <2>5. service_versions[k].status \in service_versions[k].stamps
    BY <2>2, <2>4 DEF VersioningInv, ReleasedIsWhole, Exists
  <2>6. StillTrue(c)
    BY <2>1, <2>2, <2>4, <2>5 DEF StillTrue, ReadyToWrite
  <2>. QED
    BY <1>4, <2>1, <2>6, CallKept DEF ChangeStatus
<1>5. ASSUME NEW k \in Keys, check_compatibility(t, k) PROVE VersioningInv'
  <2>. DEFINE c == [Idle EXCEPT !.op = "check", !.pc = "read", !.key = k]
  <2>1. c \in CallRecord /\ c.pc = "read" /\ c.key = k
    BY IdleTyped DEF CallRecord, Ops, Pcs
  <2>2. StillTrue(c)
    BY <2>1 DEF StillTrue
  <2>. QED
    BY <1>5, <2>1, <2>2, CallKept DEF check_compatibility
<1>6. ASSUME ReadDependencies(t) PROVE VersioningInv'
  <2>. DEFINE c == [call[t] EXCEPT !.pc = "resolve", !.specs = get_dependencies(call[t].key)]
  <2>1. get_dependencies(call[t].key) \in SUBSET Specs
    BY DEF get_dependencies, VersioningInv, TablesTyped
  <2>2. c \in CallRecord /\ c.pc = "resolve" /\ c.key = call[t].key
    BY <1>0, <2>1 DEF CallRecord, Pcs
  <2>3. StillTrue(c)
    BY <1>0, <1>6, <2>2 DEF StillTrue, ReadDependencies
  <2>4. call' = [call EXCEPT ![t] = c]
    BY <1>6 DEF ReadDependencies
  <2>. QED
    BY <1>6, <2>2, <2>3, <2>4, CallKept DEF ReadDependencies
<1>7. ASSUME NEW d \in Specs, Resolve(t, d) PROVE VersioningInv'
  <2>. DEFINE answers == highest_compatible(get_released_versions(d.service), d.min_version)
  <2>1. PICK v \in (IF answers = {} THEN {None} ELSE answers) :
          call' = [call EXCEPT ![t].report = Put(@, d, v)]
    BY <1>7 DEF Resolve
  <2>. DEFINE c == [call[t] EXCEPT !.report = Put(call[t].report, d, v)]
  <2>2. v \in DOMAIN Parsed \cup {None}
    <3>1. \A k \in DOMAIN service_versions : k.version \in DOMAIN Parsed
      BY VersioningAssumption DEF VersioningInv, TablesTyped, VersionTypeOK, Keys, VersionCreate
    <3>2. answers \subseteq get_released_versions(d.service)
      BY DEF highest_compatible
    <3>. QED
      BY <3>1, <3>2, <2>1 DEF get_released_versions
  <2>3. Put(call[t].report, d, v) \in CompatibilityReport
    <3>1. PICK D \in SUBSET Specs : call[t].report \in [D -> DOMAIN Parsed \cup {None}]
      BY <1>0 DEF CallRecord, CompatibilityReport
    <3>2. Put(call[t].report, d, v) \in [D \cup {d} -> DOMAIN Parsed \cup {None}]
      BY <2>2, <3>1 DEF Put
    <3>. QED
      BY <3>2 DEF CompatibilityReport
  <2>4. c \in CallRecord /\ c.pc = call[t].pc /\ c.key = call[t].key
    BY <1>0, <2>3 DEF CallRecord
  <2>5. StillTrue(c)
    BY <1>0, <1>7, <2>4 DEF StillTrue, Resolve
  <2>6. call' = [call EXCEPT ![t] = c]
    BY <2>1
  <2>. QED
    BY <1>7, <2>4, <2>5, <2>6, CallKept DEF Resolve
<1>8. CASE Report(t)
  BY <1>8, <1>idle DEF Report
<1>9. CASE Crash(t)
  BY <1>9, <1>idle DEF Crash
<1>. QED
  BY <1>1, <1>2, <1>3, <1>4, <1>5, <1>6, <1>7, <1>8, <1>9

(* A step that writes one row: the rest of the table is as before.         *)
RowWritten(k, row) ==
  /\ DOMAIN service_versions' = DOMAIN service_versions \cup {k}
  /\ service_versions'[k] = row
  /\ \A j \in DOMAIN service_versions : j # k => service_versions'[j] = service_versions[j]

(* What makes a row a good one to write: it is whole, and takes nothing    *)
(* back of the one that is there.                                          *)
GoodRow(k, row) ==
  /\ k \in Keys /\ k.service \in services /\ row \in ServiceVersion
  /\ row.status # "DRAFT" =>
       /\ is_stable(parse_version(k.version))
       /\ row.checksum_sha256 \in Checksums
       /\ {"RELEASED", row.status} \subseteq row.stamps
  /\ "RETIRED" \in row.stamps => "DEPRECATED" \in row.stamps
  /\ "DEPRECATED" \in row.stamps => "RELEASED" \in row.stamps
  /\ Exists(k) =>
       /\ service_versions[k].stamps \subseteq row.stamps
       /\ service_versions[k].status # "DRAFT" => row.status # "DRAFT"

(* A lifecycle request writes a version row that is whole and goes forward *)
(* in the lifecycle: the tables stay true, and nothing is taken back.      *)
LEMMA WriteRow ==
  ASSUME VersioningInv, NEW k, NEW row, RowWritten(k, row), GoodRow(k, row),
         UNCHANGED <<services, dependencies, version_events>>
  PROVE  /\ TablesTyped' /\ ReleasedIsWhole' /\ LifecycleInOrder' /\ EventsAreTrue'
         /\ OnlyGrows
<1>1. IsFiniteSet(DOMAIN service_versions')
  BY FS_AddElement DEF VersioningInv, TablesTyped, RowWritten
<1>2. VersionTypeOK'
  BY DEF VersioningInv, TablesTyped, VersionTypeOK, Exists, RowWritten, GoodRow
<1>3. TablesTyped'
  BY <1>1, <1>2 DEF VersioningInv, TablesTyped
<1>4. ReleasedIsWhole' /\ LifecycleInOrder'
  BY DEF VersioningInv, ReleasedIsWhole, LifecycleInOrder, RowWritten, GoodRow
<1>5. OnlyGrows
  BY DEF OnlyGrows, RowWritten, GoodRow, Exists
<1>6. EventsAreTrue'
  BY <1>5 DEF VersioningInv, EventsAreTrue, Exists, OnlyGrows
<1>. QED
  BY <1>3, <1>4, <1>5, <1>6

(* INSERT of a version: it is a DRAFT of a registered service.             *)
LEMMA InsertVersion ==
  ASSUME VersioningInv, NEW t \in Threads, insert_version(t)
  PROVE  VersioningInv'
<1>0. call[t] \in CallRecord /\ StillTrue(call[t])
  BY DEF VersioningInv, CallsTyped, ReadsStillTrue
<1>1. CASE Finish(t) /\ UNCHANGED service_versions
  BY <1>1, CallKept, IdleTyped DEF Finish, insert_version
<1>2. CASE /\ ~Exists(call[t].key)
           /\ service_versions' = Put(service_versions, call[t].key, Draft)
           /\ Goto(t, "depend")
  <2>. DEFINE k == call[t].key
  <2>1. RowWritten(k, Draft)
    BY <1>2 DEF RowWritten, Put
  <2>2. k \in Keys /\ k.service \in services
    BY <1>0 DEF StillTrue, SpecsStillGood, insert_version
  <2>3. Draft \in ServiceVersion /\ Draft.status = "DRAFT" /\ Draft.stamps = {}
    BY DEF Draft, ServiceVersion, LifecycleStatus
  <2>4. GoodRow(k, Draft)
    BY <1>2, <2>2, <2>3 DEF GoodRow
  <2>5. TablesTyped' /\ ReleasedIsWhole' /\ LifecycleInOrder' /\ EventsAreTrue' /\ OnlyGrows
    BY <2>1, <2>4, WriteRow DEF insert_version
  <2>6. /\ CallsTyped' /\ \A u \in Threads : u # t => call'[u] = call[u]
        /\ call'[t].pc = "depend" /\ call'[t].op = call[t].op /\ call'[t].key = k
        /\ call'[t].specs = call[t].specs
    BY <1>2, GotoStep DEF VersioningInv, Pcs
  <2>7. k \in DOMAIN service_versions'
    BY <2>1 DEF RowWritten
  <2>8. StillTrue(call[t])'
    <3>1. services' = services
      BY DEF insert_version
    <3>2. call[t].pc = "insert" /\ call[t].op = "create" /\ SpecsStillGood(call[t])
      BY <1>0 DEF StillTrue, insert_version
    <3>. QED
      BY <2>2, <2>6, <2>7, <3>1, <3>2 DEF StillTrue, SpecsStillGood, Exists
  <2>9. ReadsStillTrue'
    BY <2>5, <2>6, <2>8, CallStep DEF VersioningInv
  <2>. QED
    BY <2>5, <2>6, <2>9 DEF VersioningInv
<1>. QED
  BY <1>1, <1>2 DEF insert_version

(* INSERT of the dependencies that were checked.                           *)
LEMMA SetDependencies ==
  ASSUME VersioningInv, NEW t \in Threads, set_dependencies(t)
  PROVE  VersioningInv'
<1>. DEFINE k == call[t].key
<1>0. call[t] \in CallRecord /\ StillTrue(call[t]) /\ call[t].pc = "depend"
  BY DEF VersioningInv, CallsTyped, ReadsStillTrue, set_dependencies
<1>1. DOMAIN dependencies' = DOMAIN dependencies \cup {k}
      /\ dependencies'[k] = call[t].specs
      /\ \A j \in DOMAIN dependencies : j # k => dependencies'[j] = dependencies[j]
  BY DEF set_dependencies, Put
<1>2. OnlyGrows
  BY <1>1 DEF OnlyGrows, set_dependencies
<1>3. call[t].specs \subseteq Specs /\ Exists(k) /\ k \in Keys /\ call[t].op = "create"
      /\ \A d \in call[t].specs : d.service \in services \ {k.service}
  BY <1>0 DEF StillTrue, SpecsStillGood, CallRecord
<1>4. TablesTyped'
  BY <1>1, <1>3 DEF VersioningInv, TablesTyped, VersionTypeOK, Exists, set_dependencies
<1>5. ReleasedIsWhole' /\ LifecycleInOrder'
  BY DEF VersioningInv, ReleasedIsWhole, LifecycleInOrder, set_dependencies
<1>6. EventsAreTrue'
  BY <1>1 DEF VersioningInv, EventsAreTrue, Exists, set_dependencies
<1>7. /\ CallsTyped' /\ \A u \in Threads : u # t => call'[u] = call[u]
      /\ call'[t].pc = "event" /\ call'[t].op = "create" /\ call'[t].key = k
  BY <1>3, GotoStep DEF VersioningInv, Pcs, set_dependencies
<1>8. StillTrue(call[t])'
  <2>1. k \in DOMAIN service_versions' /\ k \in DOMAIN dependencies'
    BY <1>1, <1>3 DEF Exists, set_dependencies
  <2>. QED
    BY <1>3, <1>7, <2>1 DEF StillTrue, HasHappened, Exists
<1>9. ReadsStillTrue'
  BY <1>2, <1>7, <1>8, CallStep DEF VersioningInv
<1>. QED
  BY <1>4, <1>5, <1>6, <1>7, <1>9 DEF VersioningInv

(* The UPDATE of a release: the version is stable, and the artifact's      *)
(* checksum is stored with it.                                             *)
LEMMA UpdateRelease ==
  ASSUME VersioningInv, NEW t \in Threads, update_version_release(t)
  PROVE  VersioningInv'
<1>. DEFINE k == call[t].key
            old == service_versions[k]
            row == [status |-> "RELEASED", checksum_sha256 |-> call[t].checksum,
                    stamps |-> old.stamps \cup {"RELEASED"}]
<1>0. call[t] \in CallRecord /\ StillTrue(call[t]) /\ call[t].pc = "update"
      /\ call[t].op = "release"
  BY DEF VersioningInv, CallsTyped, ReadsStillTrue, update_version_release
<1>1. Exists(k) /\ k \in Keys /\ is_stable(parse_version(k.version))
      /\ call[t].checksum \in Checksums
  BY <1>0 DEF StillTrue, ReadyToWrite
<1>2. old \in ServiceVersion /\ k.service \in services
      /\ ("RETIRED" \in old.stamps => "DEPRECATED" \in old.stamps)
  BY <1>1 DEF VersioningInv, TablesTyped, VersionTypeOK, LifecycleInOrder, Exists
<1>3. old.stamps \in SUBSET LifecycleStatus
  BY <1>2 DEF ServiceVersion
<1>4. row \in ServiceVersion
  BY <1>1, <1>3 DEF ServiceVersion, LifecycleStatus
<1>5. GoodRow(k, row)
  BY <1>1, <1>2, <1>4 DEF GoodRow
<1>6. RowWritten(k, row)
  BY <1>1 DEF RowWritten, update_version_release, Exists
<1>7. TablesTyped' /\ ReleasedIsWhole' /\ LifecycleInOrder' /\ EventsAreTrue' /\ OnlyGrows
  BY <1>5, <1>6, WriteRow DEF update_version_release
<1>8. /\ CallsTyped' /\ \A u \in Threads : u # t => call'[u] = call[u]
      /\ call'[t].pc = "event" /\ call'[t].op = "release" /\ call'[t].key = k
  BY <1>0, GotoStep DEF VersioningInv, Pcs, update_version_release
<1>9. StillTrue(call[t])'
  <2>1. k \in DOMAIN service_versions' /\ "RELEASED" \in service_versions'[k].stamps
    BY <1>6 DEF RowWritten
  <2>2. EventType("release") = "RELEASED"
    BY DEF EventType, To
  <2>. QED
    BY <1>1, <1>8, <2>1, <2>2 DEF StillTrue, HasHappened, Exists
<1>10. ReadsStillTrue'
  BY <1>7, <1>8, <1>9, CallStep DEF VersioningInv
<1>. QED
  BY <1>7, <1>8, <1>10 DEF VersioningInv

(* The UPDATE of a deprecation or a retirement.  The row may have changed  *)
(* since it was read, but it has left DRAFT, so that it keeps a checksum   *)
(* and the stamps of what went before.                                     *)
LEMMA UpdateStatus ==
  ASSUME VersioningInv, NEW t \in Threads, update_version_status(t)
  PROVE  VersioningInv'
<1>. DEFINE k == call[t].key
            old == service_versions[k]
            status == To[call[t].op]
            row == [old EXCEPT !.status = status, !.stamps = old.stamps \cup {status}]
<1>0. call[t] \in CallRecord /\ StillTrue(call[t]) /\ call[t].pc = "update"
      /\ call[t].op \in {"deprecate", "retire"}
  BY DEF VersioningInv, CallsTyped, ReadsStillTrue, update_version_status
<1>1. Exists(k) /\ k \in Keys /\ old.status # "DRAFT"
      /\ (call[t].op = "retire" => "DEPRECATED" \in old.stamps)
  BY <1>0 DEF StillTrue, ReadyToWrite
<1>2. old \in ServiceVersion /\ k.service \in services
      /\ is_stable(parse_version(k.version)) /\ old.checksum_sha256 \in Checksums
      /\ "RELEASED" \in old.stamps
      /\ ("RETIRED" \in old.stamps => "DEPRECATED" \in old.stamps)
  BY <1>1 DEF VersioningInv, TablesTyped, VersionTypeOK, LifecycleInOrder, ReleasedIsWhole, Exists
<1>3. \/ call[t].op = "deprecate" /\ status = "DEPRECATED"
      \/ call[t].op = "retire" /\ status = "RETIRED"
  BY <1>0 DEF To
<1>4. row \in ServiceVersion /\ row.status = status /\ row.stamps = old.stamps \cup {status}
      /\ row.checksum_sha256 = old.checksum_sha256
  BY <1>2, <1>3 DEF ServiceVersion, LifecycleStatus
<1>5. GoodRow(k, row)
  <2>. HIDE DEF row, status
  <2>. QED
    BY <1>1, <1>2, <1>3, <1>4 DEF GoodRow
<1>6. RowWritten(k, row)
  BY <1>1 DEF RowWritten, update_version_status, Exists
<1>7. TablesTyped' /\ ReleasedIsWhole' /\ LifecycleInOrder' /\ EventsAreTrue' /\ OnlyGrows
  <2>. HIDE DEF row
  <2>. QED
    BY <1>5, <1>6, WriteRow DEF update_version_status
<1>8. /\ CallsTyped' /\ \A u \in Threads : u # t => call'[u] = call[u]
      /\ call'[t].pc = "event" /\ call'[t].op = call[t].op /\ call'[t].key = k
  BY <1>0, GotoStep DEF VersioningInv, Pcs, update_version_status
<1>9. StillTrue(call[t])'
  <2>1. k \in DOMAIN service_versions' /\ status \in service_versions'[k].stamps
    BY <1>4, <1>6 DEF RowWritten
  <2>2. EventType(call[t].op) = status
    BY <1>0 DEF EventType
  <2>. HIDE DEF status
  <2>. QED
    BY <1>0, <1>1, <1>8, <2>1, <2>2 DEF StillTrue, HasHappened, Exists
<1>10. ReadsStillTrue'
  BY <1>7, <1>8, <1>9, CallStep DEF VersioningInv
<1>. QED
  BY <1>7, <1>8, <1>10 DEF VersioningInv

(* The event of a request that has written what the event says.            *)
LEMMA InsertEvent ==
  ASSUME VersioningInv, NEW t \in Threads, insert_event(t)
  PROVE  VersioningInv'
<1>0. call[t] \in CallRecord /\ HasHappened(call[t])
  BY DEF VersioningInv, CallsTyped, ReadsStillTrue, insert_event, StillTrue
<1>1. OnlyGrows
  BY DEF OnlyGrows, insert_event
<1>2. TablesTyped' /\ ReleasedIsWhole' /\ LifecycleInOrder'
  BY DEF VersioningInv, TablesTyped, VersionTypeOK, Exists, ReleasedIsWhole, LifecycleInOrder,
         insert_event
<1>3. EventsAreTrue'
  <2>1. \A op \in {"release", "deprecate", "retire"} : EventType(op) # "CREATED"
    BY DEF EventType, To
  <2>2. EventType("create") = "CREATED"
    BY DEF EventType
  <2>. QED
    BY <1>0, <2>1, <2>2 DEF VersioningInv, EventsAreTrue, HasHappened, Exists, insert_event
<1>4. StillTrue(Idle)'
  BY IdleTyped DEF StillTrue
<1>5. CallsTyped' /\ call'[t] = Idle /\ \A u \in Threads : u # t => call'[u] = call[u]
  BY IdleTyped DEF VersioningInv, insert_event, Finish, CallsTyped
<1>6. ReadsStillTrue'
  BY <1>1, <1>4, <1>5, CallStep DEF VersioningInv
<1>. QED
  BY <1>2, <1>3, <1>5, <1>6 DEF VersioningInv

(* register_service, which adds a name and no more.                        *)
LEMMA RegisterService ==
  ASSUME VersioningInv, NEW s \in Services, register_service(s)
  PROVE  VersioningInv'
<1>1. OnlyGrows
  BY DEF OnlyGrows, register_service
<1>2. TablesTyped' /\ ReleasedIsWhole' /\ LifecycleInOrder' /\ EventsAreTrue'
  BY DEF VersioningInv, TablesTyped, VersionTypeOK, Exists, ReleasedIsWhole, LifecycleInOrder,
         EventsAreTrue, register_service
<1>3. call' = call /\ \A t \in Threads : call[t] \in CallRecord /\ StillTrue(call[t])
  BY DEF register_service, VersioningInv, CallsTyped, ReadsStillTrue
<1>4. CallsTyped' /\ ReadsStillTrue'
  BY <1>1, <1>3, StillTrueStable DEF VersioningInv, CallsTyped, ReadsStillTrue
<1>. QED
  BY <1>2, <1>4 DEF VersioningInv

(* The inductive invariant: the tables agree, and what every request in    *)
(* progress has read is still true where it matters.                       *)
THEOREM VersioningInvariant == Spec => []VersioningInv
<1>1. Init => VersioningInv
  <2>. SUFFICES ASSUME Init PROVE VersioningInv
    OBVIOUS
  <2>1. DOMAIN service_versions = {} /\ DOMAIN dependencies = {} /\ version_events = {}
        /\ services = {}
    BY DEF Init
  <2>2. TablesTyped /\ ReleasedIsWhole /\ LifecycleInOrder /\ EventsAreTrue
    BY <2>1, FS_EmptySet
       DEF TablesTyped, VersionTypeOK, ReleasedIsWhole, LifecycleInOrder, EventsAreTrue
  <2>3. CallsTyped /\ ReadsStillTrue
    BY IdleTyped DEF Init, CallsTyped, ReadsStillTrue
  <2>. QED
    BY <2>2, <2>3 DEF VersioningInv
<1>2. VersioningInv /\ [Next]_vars => VersioningInv'
  <2>. SUFFICES ASSUME VersioningInv, [Next]_vars PROVE VersioningInv'
    OBVIOUS
  <2>1. CASE UNCHANGED vars
    <3>1. TablesTyped' /\ ReleasedIsWhole' /\ LifecycleInOrder' /\ EventsAreTrue' /\ OnlyGrows
      BY <2>1, TablesKept DEF vars
    <3>2. call' = call /\ \A t \in Threads : call[t] \in CallRecord /\ StillTrue(call[t])
      BY <2>1 DEF vars, VersioningInv, CallsTyped, ReadsStillTrue
    <3>3. CallsTyped' /\ ReadsStillTrue'
      BY <3>1, <3>2, StillTrueStable DEF VersioningInv, CallsTyped, ReadsStillTrue
    <3>. QED
      BY <3>1, <3>3 DEF VersioningInv
  <2>2. ASSUME NEW s \in Services, register_service(s) PROVE VersioningInv'
    BY <2>2, RegisterService
  <2>3. ASSUME NEW t \in Threads, Step(t) PROVE VersioningInv'
    BY <2>3, ReadSteps, InsertVersion, SetDependencies, UpdateRelease, UpdateStatus, InsertEvent
       DEF Step
  <2>. QED
    BY <2>1, <2>2, <2>3 DEF Next
<1>. QED
  BY <1>1, <1>2, PTL DEF Spec

(* The tables agree with each other, and every event is true, at every     *)
(* moment and after every crash.                                           *)
THEOREM TablesAgree == Spec => []VersionInv
<1>1. VersioningInv => VersionInv
  BY DEF VersioningInv, TablesTyped, VersionInv
<1>. QED
  BY <1>1, VersioningInvariant, PTL

(* A version that left DRAFT is stable, has its checksum and the stamps of *)
(* its status.                                                             *)
THEOREM ReleasesAreWhole == Spec => []ReleasedIsWhole
<1>1. VersioningInv => ReleasedIsWhole
  BY DEF VersioningInv
<1>. QED
  BY <1>1, VersioningInvariant, PTL

(* No version is retired without having been deprecated, nor deprecated    *)
(* without having been released.                                           *)
THEOREM LifecycleKept == Spec => []LifecycleInOrder
<1>1. VersioningInv => LifecycleInOrder
  BY DEF VersioningInv
<1>. QED
  BY <1>1, VersioningInvariant, PTL

------------------------------------------------------------------------------
(* The least number of a set.                                              *)
LEMMA MinIs ==
  ASSUME NEW S \in SUBSET Nat, NEW m \in S, \A i \in S : m <= i
  PROVE  Min(S) = m
<1>1. Min(S) \in S /\ \A i \in S : Min(S) <= i
  BY DEF Min
<1>2. Min(S) \in Nat /\ m \in Nat /\ Min(S) <= m /\ m <= Min(S)
  BY <1>1
<1>. HIDE <1>1
<1>. QED
  BY <1>2

(* The first difference of two triples of numbers decides.                 *)
LEMMA TriplesCompared ==
  ASSUME NEW v \in SemVerParts, NEW w \in SemVerParts
  PROVE  FirstDifference(numeric_tuple(v), numeric_tuple(w)) =
           IF v.major # w.major THEN IF v.major < w.major THEN -1 ELSE 1
           ELSE IF v.minor # w.minor THEN IF v.minor < w.minor THEN -1 ELSE 1
           ELSE IF v.patch # w.patch THEN IF v.patch < w.patch THEN -1 ELSE 1
           ELSE 0
<1>. DEFINE l == numeric_tuple(v)
            r == numeric_tuple(w)
            n == Min({Len(l), Len(r)})
            differing == {i \in 1..n : l[i] # r[i]}
<1>0. /\ v.major \in Nat /\ v.minor \in Nat /\ v.patch \in Nat
      /\ w.major \in Nat /\ w.minor \in Nat /\ w.patch \in Nat
  BY DEF SemVerParts
<1>1. Len(l) = 3 /\ Len(r) = 3
  BY DEF numeric_tuple
<1>2. n = 3
  BY <1>1, MinIs
<1>3. /\ l[1] = Number(v.major) /\ l[2] = Number(v.minor) /\ l[3] = Number(v.patch)
      /\ r[1] = Number(w.major) /\ r[2] = Number(w.minor) /\ r[3] = Number(w.patch)
  BY DEF numeric_tuple
<1>4. \A a, b \in Nat : /\ Number(a) = Number(b) <=> a = b
                        /\ IdentifierLess(Number(a), Number(b)) <=> a < b
  BY DEF Number, IdentifierLess
<1>. HIDE DEF l, r, n
<1>5. /\ 1 \in differing <=> v.major # w.major
      /\ 2 \in differing <=> v.minor # w.minor
      /\ 3 \in differing <=> v.patch # w.patch
      /\ differing \subseteq {1, 2, 3}
  <2>1. differing = {i \in {1, 2, 3} : l[i] # r[i]}
    BY <1>2
  <2>. QED
    BY <1>0, <1>3, <1>4, <2>1
<1>. HIDE DEF differing
<1>6. /\ 1 \in differing => Min(differing) = 1
      /\ 1 \notin differing /\ 2 \in differing => Min(differing) = 2
      /\ 1 \notin differing /\ 2 \notin differing /\ 3 \in differing => Min(differing) = 3
      /\ 1 \notin differing /\ 2 \notin differing /\ 3 \notin differing => differing = {}
  BY <1>5, MinIs
<1>7. FirstDifference(l, r) =
        IF differing # {}
        THEN IF IdentifierLess(l[Min(differing)], r[Min(differing)]) THEN -1 ELSE 1
        ELSE 0
  BY <1>1 DEF FirstDifference, differing, n
<1>8. CASE 1 \in differing
  BY <1>0, <1>3, <1>4, <1>5, <1>6, <1>7, <1>8 DEF l, r
<1>9. CASE 1 \notin differing /\ 2 \in differing
  BY <1>0, <1>3, <1>4, <1>5, <1>6, <1>7, <1>9 DEF l, r
<1>10. CASE 1 \notin differing /\ 2 \notin differing /\ 3 \in differing
  BY <1>0, <1>3, <1>4, <1>5, <1>6, <1>7, <1>10 DEF l, r
<1>11. CASE 1 \notin differing /\ 2 \notin differing /\ 3 \notin differing
  BY <1>0, <1>5, <1>6, <1>7, <1>11 DEF l, r
<1>. QED
  BY <1>8, <1>9, <1>10, <1>11

(* For a stable version compare says what its numbers say, whether it is   *)
(* compared with a prerelease or not.                                      *)
LEMMA StableCompared ==
  ASSUME NEW a \in DOMAIN Parsed, NEW b \in DOMAIN Parsed, is_stable(parse_version(a))
  PROVE  compare(parse_version(a), parse_version(b)) >= 0 <=> NotOlder(a, b)
<1>. DEFINE v == parse_version(a)
            w == parse_version(b)
            numbers == FirstDifference(numeric_tuple(v), numeric_tuple(w))
<1>1. v \in SemVerParts /\ w \in SemVerParts
  BY ParsedAssumption DEF parse_version
<1>2. /\ v.major \in Nat /\ v.minor \in Nat /\ v.patch \in Nat
      /\ w.major \in Nat /\ w.minor \in Nat /\ w.patch \in Nat
  BY <1>1 DEF SemVerParts
<1>3. numbers = IF v.major # w.major THEN IF v.major < w.major THEN -1 ELSE 1
                ELSE IF v.minor # w.minor THEN IF v.minor < w.minor THEN -1 ELSE 1
                ELSE IF v.patch # w.patch THEN IF v.patch < w.patch THEN -1 ELSE 1
                ELSE 0
  BY <1>1, TriplesCompared
<1>4. FirstDifference(<< >>, << >>) = 0
  <2>1. Len(<< >>) = 0
    OBVIOUS
  <2>2. Min({Len(<< >>), Len(<< >>)}) = 0
    BY <2>1 DEF Min
  <2>. QED
    BY <2>1, <2>2 DEF FirstDifference
<1>5. compare(v, w) = IF numbers # 0 THEN numbers ELSE IF is_stable(w) THEN 0 ELSE 1
  BY <1>4 DEF compare, is_stable
<1>6. NotOlder(a, b) <=> \/ v.major > w.major
                         \/ v.major = w.major /\ v.minor > w.minor
                         \/ v.major = w.major /\ v.minor = w.minor /\ v.patch >= w.patch
  BY DEF NotOlder
<1>. HIDE DEF v, w, numbers
<1>. QED
  BY <1>2, <1>3, <1>5, <1>6 DEF v, w

(* The lines of compatibility are those of the rule.                       *)
LEMMA LinesCompared ==
  ASSUME NEW a \in DOMAIN Parsed, NEW b \in DOMAIN Parsed
  PROVE  Line(a) = Line(b) <=>
           /\ parse_version(a).major = parse_version(b).major
           /\ parse_version(a).major = 0 => parse_version(a).minor = parse_version(b).minor
BY DEF Line

(* Among finitely many versions there is one that is not older than any.   *)
LEMMA NewestExists ==
  ASSUME NEW S \in SUBSET DOMAIN Parsed, IsFiniteSet(S), S # {}
  PROVE  \E newest \in S : \A v \in S : NotOlder(newest, v)
<1>. DEFINE above(x) == {y \in S : ~NotOlder(x, y)}
            sets == {above(x) : x \in S}
<1>1. \A x \in S : /\ parse_version(x).major \in Nat
                   /\ parse_version(x).minor \in Nat
                   /\ parse_version(x).patch \in Nat
  BY ParsedAssumption DEF parse_version, SemVerParts
<1>2. \A x \in S : NotOlder(x, x)
  BY <1>1 DEF NotOlder
<1>3. \A x, y, z \in S : ~NotOlder(x, y) /\ ~NotOlder(y, z) => ~NotOlder(x, z)
  BY <1>1 DEF NotOlder
<1>4. IsWellFoundedOn(StrictSubsetOrdering(S), FiniteSubsetsOf(S))
  BY FS_StrictSubsetOrderingWellFounded
<1>5. FiniteSubsetsOf(S) = SUBSET S
  BY FS_FiniteSubsetsOfFinite
<1>6. sets \subseteq SUBSET S /\ sets # {}
  OBVIOUS
<1>. HIDE DEF sets
<1>7. PICK U \in sets : \A V \in sets : <<V, U>> \notin StrictSubsetOrdering(S)
  BY <1>4, <1>5, <1>6, WFMin
<1>8. PICK x \in S : U = above(x)
  BY <1>7 DEF sets
<1>9. ASSUME NEW y \in above(x) PROVE FALSE
  <2>1. above(y) \in sets /\ above(y) \subseteq S /\ above(x) \subseteq S
    BY DEF sets
  <2>2. above(y) \subseteq above(x)
    BY <1>3
  <2>3. y \notin above(y)
    BY <1>2
  <2>4. above(y) # above(x)
    BY <2>3, <1>9
  <2>. HIDE DEF above
  <2>5. <<above(y), above(x)>> \in StrictSubsetOrdering(S)
    BY <2>1, <2>2, <2>4 DEF StrictSubsetOrdering
  <2>. QED
    BY <1>7, <1>8, <2>1, <2>5
<1>. QED
  BY <1>9

(* check_compatibility resolves a dependency to the newest release of its  *)
(* line that is not older than min_version, and to nothing only if there   *)
(* is none.  It takes ReleasedIsWhole: only because no prerelease is ever  *)
(* RELEASED does the filter on stable versions leave nothing out.          *)
THEOREM ResolutionIsHighest == Spec => ResolvedIsHighest
<1>. DEFINE Usable(d) == {v \in get_released_versions(d.service) :
                            Line(v) = Line(d.min_version) /\ NotOlder(v, d.min_version)}
            Right(d, answer) == IF Usable(d) = {} THEN answer = None
                                ELSE answer \in Usable(d) /\ \A v \in Usable(d) : NotOlder(answer, v)
<1>1. ASSUME VersioningInv, NEW t \in Threads, NEW d \in Specs, Resolve(t, d)
      PROVE  Right(d, call'[t].report[d])
  <2>. DEFINE released == get_released_versions(d.service)
              compatible == {c \in released : is_backward_compatible(c, d.min_version)}
              answers == highest_compatible(released, d.min_version)
  <2>1. d.min_version \in DOMAIN Parsed
    BY VersioningAssumption DEF Specs, VersionCreate
  <2>2. \A v \in released : v \in DOMAIN Parsed /\ is_stable(parse_version(v))
    <3>1. \A k \in DOMAIN service_versions : k.version \in DOMAIN Parsed
      BY <1>1, VersioningAssumption
         DEF VersioningInv, TablesTyped, VersionTypeOK, Keys, VersionCreate
    <3>. QED
      BY <1>1, <3>1 DEF VersioningInv, ReleasedIsWhole, get_released_versions
  <2>3. compatible = Usable(d)
    BY <2>1, <2>2, StableCompared, LinesCompared DEF is_backward_compatible
  <2>4. IsFiniteSet(Usable(d))
    <3>. DEFINE f == [k \in DOMAIN service_versions |-> k.version]
                T == {k.version : k \in DOMAIN service_versions}
    <3>1. f \in Surjection(DOMAIN service_versions, T)
      BY DEF Surjection
    <3>2. IsFiniteSet(T)
      BY <1>1, <3>1, FS_Surjection DEF VersioningInv, TablesTyped
    <3>3. Usable(d) \in SUBSET T
      BY DEF get_released_versions
    <3>. QED
      BY <3>2, <3>3, FS_Subset
  <2>5. answers = {c \in Usable(d) : \A v \in Usable(d) : NotOlder(c, v)}
    <3>1. answers = {c \in compatible :
             \A e \in compatible : compare(parse_version(c), parse_version(e)) >= 0}
      BY DEF highest_compatible
    <3>2. \A c, e \in Usable(d) : compare(parse_version(c), parse_version(e)) >= 0 <=> NotOlder(c, e)
      BY <2>2, StableCompared
    <3>. HIDE DEF answers, compatible, released, Usable
    <3>. QED
      BY <2>3, <3>1, <3>2
  <2>6. Usable(d) # {} => answers # {}
    <3>1. Usable(d) \in SUBSET DOMAIN Parsed
      BY <2>2
    <3>. HIDE DEF answers, Usable
    <3>. QED
      BY <2>4, <2>5, <3>1, NewestExists
  <2>7. PICK v \in (IF answers = {} THEN {None} ELSE answers) :
          call' = [call EXCEPT ![t].report = Put(@, d, v)]
    BY <1>1 DEF Resolve
  <2>8. call'[t].report[d] = v
    <3>1. call[t] \in CallRecord
      BY <1>1 DEF VersioningInv, CallsTyped
    <3>2. call'[t].report = Put(call[t].report, d, v)
      BY <1>1, <2>7, <3>1 DEF CallRecord, VersioningInv, CallsTyped
    <3>. QED
      BY <3>2 DEF Put
  <2>. HIDE DEF answers, Usable
  <2>. QED
    BY <2>5, <2>6, <2>7, <2>8
<1>2. VersioningInv /\ [Next]_vars =>
        [\A t \in Threads, d \in Specs : Resolve(t, d) => Right(d, call'[t].report[d])]_vars
  BY <1>1
<1>. QED
  BY <1>2, VersioningInvariant, PTL DEF Spec, ResolvedIsHighest

==============================================================================
