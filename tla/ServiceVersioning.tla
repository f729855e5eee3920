-------------------------- MODULE ServiceVersioning --------------------------
(***************************************************************************)
(* VersioningService of apexquant-service-versioning over                  *)
(* PostgresRepository: request threads that register services, create,     *)
(* release, deprecate and retire versions and check the compatibility of   *)
(* one.  Every repository call is a transaction of its own, and what a     *)
(* request has checked may have changed when it writes.                    *)
(***************************************************************************)
EXTENDS SemVer

CONSTANTS Threads,
          Requests,    \* the bodies posted to create_version
          Checksums,   \* of the artifacts to be released
          None,
          MaxCrashes   \* bound: requests that die

VARIABLES services,          \* registered service names
          service_versions,  \* [service, version] -> row
          dependencies,      \* [service, version] -> rows of the version
          version_events,    \* <<[service, version], event_type>>
          call,              \* the request each thread is in
          crashes

vars == <<services, service_versions, dependencies, version_events, call, crashes>>

Keys == {[service |-> r.service, version |-> r.version] : r \in Requests}
Services == {k.service : k \in Keys}
Specs == UNION {r.dependencies : r \in Requests}

LifecycleStatus == {"DRAFT", "RELEASED", "DEPRECATED", "RETIRED"}

(* The body of create_version, with the service of its path.               *)
VersionCreate ==
  [service : Services, version : DOMAIN Parsed,
   dependencies : SUBSET [service : Services, min_version : DOMAIN Parsed]]

(* A row of service_versions; stamps: which of released_at, deprecated_at  *)
(* and retired_at are set.                                                 *)
ServiceVersion == [status : LifecycleStatus, checksum_sha256 : Checksums \cup {None},
                   stamps : SUBSET LifecycleStatus]

(* min_version may be any version; names are not repeated in a body.       *)
ASSUME VersioningAssumption ==
  /\ None \notin Checksums
  /\ MaxCrashes \in Nat
  /\ \A r \in Requests : r \in VersionCreate
  /\ \A r \in Requests : \A d, e \in r.dependencies : d.service = e.service => d = e

Idle == [op |-> "none", pc |-> "idle", key |-> None, specs |-> {},
         checksum |-> None, report |-> << >>]

Draft == [status |-> "DRAFT", checksum_sha256 |-> None, stamps |-> {}]

(* The status a lifecycle request wants to see, and the one it writes.     *)
From == [release |-> "DRAFT", deprecate |-> "RELEASED", retire |-> "DEPRECATED"]
To   == [release |-> "RELEASED", deprecate |-> "DEPRECATED", retire |-> "RETIRED"]

EventType(op) == IF op = "create" THEN "CREATED" ELSE To[op]

get_service(s) == s \in services

Exists(k) == k \in DOMAIN service_versions

get_dependencies(k) == IF k \in DOMAIN dependencies THEN dependencies[k] ELSE {}

get_released_versions(s) ==
  {k.version : k \in {j \in DOMAIN service_versions :
                        j.service = s /\ service_versions[j].status = "RELEASED"}}

Put(f, k, v) == [x \in DOMAIN f \cup {k} |-> IF x = k THEN v ELSE f[x]]

Goto(t, pc) == call' = [call EXCEPT ![t].pc = pc]

Finish(t) == call' = [call EXCEPT ![t] = Idle]

-----------------------------------------------------------------------------
Init ==
  /\ services = {}
  /\ service_versions = << >>
  /\ dependencies = << >>
  /\ version_events = {}
  /\ call = [t \in Threads |-> Idle]
  /\ crashes = 0

register_service(s) ==
  /\ services' = services \cup {s}
  /\ UNCHANGED <<service_versions, dependencies, version_events, call, crashes>>

(* create_version: the service must exist and the version must not.        *)
create_version(t, r) ==
  LET k == [service |-> r.service, version |-> r.version] IN
  /\ call[t].pc = "idle"
  /\ get_service(r.service)
  /\ ~Exists(k)
  /\ call' = [call EXCEPT ![t] = [Idle EXCEPT
       !.op = "create", !.pc = "specs", !.key = k, !.specs = r.dependencies]]
  /\ UNCHANGED <<services, service_versions, dependencies, version_events, crashes>>

(* No dependency on itself, and none on a service that is not registered.  *)
Acceptable(k, d) == d.service # k.service /\ get_service(d.service)

CheckSpecs(t) ==
  /\ call[t].pc = "specs"
  /\ \/ /\ \A d \in call[t].specs : Acceptable(call[t].key, d)
        /\ Goto(t, "insert")
     \/ /\ \E d \in call[t].specs : ~Acceptable(call[t].key, d)
        /\ Finish(t)
  /\ UNCHANGED <<services, service_versions, dependencies, version_events, crashes>>

(* Another request may have inserted the version: UNIQUE (service_name,    *)
(* version) then makes this one fail.                                      *)
insert_version(t) ==
  /\ call[t].pc = "insert"
  /\ \/ /\ ~Exists(call[t].key)
        /\ service_versions' = Put(service_versions, call[t].key, Draft)
        /\ Goto(t, "depend")
     \/ /\ Exists(call[t].key)
        /\ Finish(t)
        /\ UNCHANGED service_versions
  /\ UNCHANGED <<services, dependencies, version_events, crashes>>

set_dependencies(t) ==
  /\ call[t].pc = "depend"
  /\ dependencies' = Put(dependencies, call[t].key, call[t].specs)
  /\ Goto(t, "event")
  /\ UNCHANGED <<services, service_versions, version_events, crashes>>

-----------------------------------------------------------------------------
(* Defect: a prerelease may be released.                                   *)
BugReleaseVersion(t, k, checksum) ==
  /\ call[t].pc = "idle"
  /\ Exists(k) /\ service_versions[k].status = From["release"]
  /\ call' = [call EXCEPT ![t] = [Idle EXCEPT
       !.op = "release", !.pc = "update", !.key = k, !.checksum = checksum]]
  /\ UNCHANGED <<services, service_versions, dependencies, version_events, crashes>>

(* release_version reads the version; it must be a DRAFT and stable.       *)
release_version(t, k, checksum) ==
  /\ call[t].pc = "idle"
  /\ Exists(k) /\ service_versions[k].status = From["release"]
  /\ is_stable(parse_version(k.version))
  /\ call' = [call EXCEPT ![t] = [Idle EXCEPT
       !.op = "release", !.pc = "update", !.key = k, !.checksum = checksum]]
  /\ UNCHANGED <<services, service_versions, dependencies, version_events, crashes>>

(* Defect: a released version may be retired at once.                      *)
BugChangeStatus(t, k, op) ==
  /\ call[t].pc = "idle"
  /\ Exists(k) /\ service_versions[k].status \in {From["deprecate"], From[op]}
  /\ call' = [call EXCEPT ![t] = [Idle EXCEPT !.op = op, !.pc = "update", !.key = k]]
  /\ UNCHANGED <<services, service_versions, dependencies, version_events, crashes>>

(* deprecate_version and retire_version read the version.                  *)
ChangeStatus(t, k, op) ==
  /\ call[t].pc = "idle"
  /\ Exists(k) /\ service_versions[k].status = From[op]
  /\ call' = [call EXCEPT ![t] = [Idle EXCEPT !.op = op, !.pc = "update", !.key = k]]
  /\ UNCHANGED <<services, service_versions, dependencies, version_events, crashes>>

(* The UPDATEs name the version and do not look at its status again.       *)
update_version_release(t) ==
  /\ call[t].pc = "update" /\ call[t].op = "release"
  /\ service_versions' = [service_versions EXCEPT ![call[t].key] =
       [status |-> "RELEASED", checksum_sha256 |-> call[t].checksum,
        stamps |-> @.stamps \cup {"RELEASED"}]]
  /\ Goto(t, "event")
  /\ UNCHANGED <<services, dependencies, version_events, crashes>>

update_version_status(t) ==
  LET status == To[call[t].op] IN
  /\ call[t].pc = "update" /\ call[t].op \in {"deprecate", "retire"}
  /\ service_versions' = [service_versions EXCEPT
       ![call[t].key].status = status, ![call[t].key].stamps = @ \cup {status}]
  /\ Goto(t, "event")
  /\ UNCHANGED <<services, dependencies, version_events, crashes>>

(* Defect: the event of a request is written before its last change.       *)
BugInsertEvent(t) ==
  /\ call[t].pc \in {"depend", "update", "event"}
  /\ version_events' = version_events \cup {<<call[t].key, EventType(call[t].op)>>}
  /\ Finish(t)
  /\ UNCHANGED <<services, service_versions, dependencies, crashes>>

insert_event(t) ==
  /\ call[t].pc = "event"
  /\ version_events' = version_events \cup {<<call[t].key, EventType(call[t].op)>>}
  /\ Finish(t)
  /\ UNCHANGED <<services, service_versions, dependencies, crashes>>

-----------------------------------------------------------------------------
(* check_compatibility: a released version, its dependencies, and for each *)
(* of them the highest compatible release, one query after another.        *)
check_compatibility(t, k) ==
  /\ call[t].pc = "idle"
  /\ Exists(k) /\ service_versions[k].status = "RELEASED"
  /\ call' = [call EXCEPT ![t] = [Idle EXCEPT !.op = "check", !.pc = "read", !.key = k]]
  /\ UNCHANGED <<services, service_versions, dependencies, version_events, crashes>>

ReadDependencies(t) ==
  /\ call[t].pc = "read"
  /\ call' = [call EXCEPT ![t].pc = "resolve", ![t].specs = get_dependencies(call[t].key)]
  /\ UNCHANGED <<services, service_versions, dependencies, version_events, crashes>>

Resolve(t, d) ==
  LET answers == highest_compatible(get_released_versions(d.service), d.min_version) IN
  /\ call[t].pc = "resolve"
  /\ d \in call[t].specs \ DOMAIN call[t].report
  /\ \E v \in (IF answers = {} THEN {None} ELSE answers) :
       call' = [call EXCEPT ![t].report = Put(@, d, v)]
  /\ UNCHANGED <<services, service_versions, dependencies, version_events, crashes>>

(* The report is returned once every dependency is in it.                  *)
Report(t) ==
  /\ call[t].pc = "resolve"
  /\ call[t].specs = DOMAIN call[t].report
  /\ Finish(t)
  /\ UNCHANGED <<services, service_versions, dependencies, version_events, crashes>>

(* A repository call raises, or the process dies: what is committed stays. *)
Crash(t) ==
  /\ call[t].pc # "idle"
  /\ crashes < MaxCrashes
  /\ crashes' = crashes + 1
  /\ Finish(t)
  /\ UNCHANGED <<services, service_versions, dependencies, version_events>>

Step(t) ==
  \/ \E r \in Requests : create_version(t, r)
  \/ CheckSpecs(t) \/ insert_version(t) \/ set_dependencies(t)
  \/ \E k \in Keys, c \in Checksums : release_version(t, k, c)
  \/ \E k \in Keys, op \in {"deprecate", "retire"} : ChangeStatus(t, k, op)
  \/ update_version_release(t) \/ update_version_status(t) \/ insert_event(t)
  \/ \E k \in Keys : check_compatibility(t, k)
  \/ ReadDependencies(t) \/ Report(t)
  \/ \E d \in Specs : Resolve(t, d)
  \/ Crash(t)

Next ==
  \/ \E s \in Services : register_service(s)
  \/ \E t \in Threads : Step(t)

Spec == Init /\ [][Next]_vars

-----------------------------------------------------------------------------
(* The rows, and what they refer to: a version belongs to a service that   *)
(* is registered, dependencies to a version that is stored, and so does    *)
(* every service a version depends on, which is never its own.             *)
VersionTypeOK ==
  /\ services \subseteq Services
  /\ \A k \in DOMAIN service_versions :
       k \in Keys /\ k.service \in services /\ service_versions[k] \in ServiceVersion
  /\ \A k \in DOMAIN dependencies :
       /\ Exists(k)
       /\ \A d \in dependencies[k] : d.service \in services \ {k.service}

(* However lifecycle requests interleave and die, a version that left      *)
(* DRAFT is stable, has the checksum of its artifact and a released_at.    *)
ReleasedIsWhole ==
  \A k \in DOMAIN service_versions :
    LET row == service_versions[k] IN
    row.status # "DRAFT" =>
      /\ is_stable(parse_version(k.version))
      /\ row.checksum_sha256 \in Checksums
      /\ {"RELEASED", row.status} \subseteq row.stamps

(* No version was retired that was not deprecated before, and none was     *)
(* deprecated that was not released, although every request writes on the  *)
(* strength of a status it read earlier.                                   *)
LifecycleInOrder ==
  \A k \in DOMAIN service_versions :
    LET stamps == service_versions[k].stamps IN
    /\ "RETIRED" \in stamps => "DEPRECATED" \in stamps
    /\ "DEPRECATED" \in stamps => "RELEASED" \in stamps

(* The events tell the truth also when requests die half-way: what an      *)
(* event reports has happened, and VERSION_CREATED means that the          *)
(* dependencies are stored as well.                                        *)
EventsAreTrue ==
  \A e \in version_events :
    /\ Exists(e[1])
    /\ IF e[2] = "CREATED" THEN e[1] \in DOMAIN dependencies
       ELSE e[2] \in service_versions[e[1]].stamps

(* The tables agree with each other, and the events with them.             *)
VersionInv == VersionTypeOK /\ EventsAreTrue

(* One version is not older than another, prereleases left aside.          *)
NotOlder(text, other) ==
  LET v == parse_version(text)
      w == parse_version(other)
  IN  \/ v.major > w.major
      \/ v.major = w.major /\ v.minor > w.minor
      \/ v.major = w.major /\ v.minor = w.minor /\ v.patch >= w.patch

(* The compatibility line of a version.                                    *)
Line(text) ==
  LET v == parse_version(text) IN IF v.major = 0 THEN <<0, v.minor>> ELSE <<v.major>>

(* What check_compatibility resolves a dependency to is, of the releases   *)
(* of the same compatibility line that are not older than min_version, the *)
(* newest at that moment; without such a release it resolves nothing.      *)
ResolvedIsHighest ==
  [][\A t \in Threads, d \in Specs :
       Resolve(t, d) =>
         LET usable == {v \in get_released_versions(d.service) :
                          Line(v) = Line(d.min_version) /\ NotOlder(v, d.min_version)}
             answer == call'[t].report[d]
         IN  IF usable = {} THEN answer = None
             ELSE answer \in usable /\ \A v \in usable : NotOlder(answer, v)]_vars

==============================================================================
