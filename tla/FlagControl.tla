------------------------------ MODULE FlagControl ------------------------------
(***************************************************************************)
(* Feature flags from the operator to the reader: FlagControlService       *)
(* (service.py, lifecycle.py) over the flags table with its trigger,       *)
(* FlagReconciler over PostgreSQL and Redis, and the snapshot store of the *)
(* engine, from which units of work pin what they are going to evaluate.   *)
(* The repository and the refresher that fills the store from Redis are    *)
(* not in the source tree: every write of a row adds one to its            *)
(* generation, and a snapshot is what Redis held when it was fetched.      *)
(***************************************************************************)
EXTENDS FlagModel

Rust == INSTANCE FlagEngine
Sdk  == INSTANCE FlagSdk

CONSTANTS Threads,         \* request threads
          Sweepers,        \* processes that run FlagReconciler
          Engines,         \* processes with a store, each on one unit of work at a time
          Requests,        \* bodies of create_flag: [payload, secret]
          Authorities,     \* what a caller may be granted
          Rollouts,        \* values of rollout_bps asked for
          Times,           \* instants, in milliseconds
          review_at,       \* of the row of every key
          required_authority,
          Baked,           \* the flags built into the binary
          MaxGeneration,   \* bound: requests start while a row is younger
          MaxCrashes       \* bound: requests and sweeps that die

VARIABLES flags,           \* feature_flags.flags: key -> row, or None
          redis,           \* key -> cached row, or None
          flag_events,     \* <<key, generation>> of audited writes
          call,            \* the request of each thread
          sweep,           \* the sweep of each reconciler
          current,         \* FlagStore.current of each engine
          pinned,          \* snapshot of its unit of work, or None
          now,
          unaudited,       \* <<key, generation>> of writes whose audit was lost or left out
          crashes

control == <<flags, redis, flag_events, call, sweep, unaudited, crashes>>
store   == <<current, pinned>>
vars    == <<control, store, now>>

FLAG_WRITE_PERMISSION == "flags:write"

Transitions ==
  [DRAFT |-> {"ACTIVE"}, ACTIVE |-> {"DISABLED", "RETIRED"},
   DISABLED |-> {"ACTIVE", "RETIRED"}, RETIRED |-> {}]

ASSUME ControlAssumption ==
  /\ Times \subseteq Nat /\ 0 \in Times
  /\ MaxGeneration \in Nat \ {0} /\ MaxCrashes \in Nat
  /\ \A r \in Requests : r.payload \in CompiledFlag /\ r.payload.generation = 1
  /\ Rollouts \subseteq 0..MODULUS
  /\ Baked \in [DOMAIN Baked -> CompiledFlag] /\ DOMAIN Baked \subseteq Keys
  /\ None \notin Keys \cup CompiledFlag

Idle   == [pc |-> "idle", key |-> None, change |-> << >>, after |-> 0]
Asleep == [pc |-> "idle", due |-> {}, rows |-> {}, put |-> None]

Rows == {flags[k] : k \in Keys} \ {None}

(* What the store can be asked about: snapshots the refresher fetched.     *)
Live == {s \in {current[e] : e \in Engines} \cup {pinned[e] : e \in Engines} : s # None /\ ~s.baked}

authorize(required, authority) == authority \in {required, "flags:admin"}

(* Defect: the trigger does not look at inserted rows.                     *)
BugEnforce(old, new) ==
  old # None =>
    /\ new.generation >= old.generation
    /\ old.status = "RETIRED" => new.status = "RETIRED"

(* The trigger before an INSERT (old = None) or an UPDATE.                 *)
enforce_safety_invariants(old, new) ==
  /\ new.flag_class = "SAFETY_CRITICAL" => ~new.fail_value
  /\ old # None =>
       /\ new.generation >= old.generation
       /\ old.status = "RETIRED" => new.status = "RETIRED"
       /\ old.flag_class = "SAFETY_CRITICAL" => new.fail_value = old.fail_value

Goto(t, pc) == call' = [call EXCEPT ![t].pc = pc]
Finish(t)   == call' = [call EXCEPT ![t] = Idle]

Init ==
  /\ flags = [k \in Keys |-> None]
  /\ redis = [k \in Keys |-> None]
  /\ flag_events = {} /\ unaudited = {} /\ crashes = 0
  /\ call = [t \in Threads |-> Idle]
  /\ sweep = [s \in Sweepers |-> Asleep]
  /\ current = [e \in Engines |-> [baked |-> TRUE, fetched_at |-> 0, flags |-> Baked]]
  /\ pinned = [e \in Engines |-> None]
  /\ now = 0

--------------------------------------------------------------------------------
create_flag(t, r, authority) ==
  LET row == r.payload IN
  /\ call[t].pc = "idle"
  /\ authorize(FLAG_WRITE_PERMISSION, authority)
  /\ ~r.secret
  /\ flags[row.flag_key] = None
  /\ enforce_safety_invariants(None, row)
  /\ flags' = [flags EXCEPT ![row.flag_key] = row]
  /\ call' = [call EXCEPT ![t] = [pc |-> "audit", key |-> row.flag_key,
       change |-> << >>, after |-> 1]]
  /\ UNCHANGED <<redis, flag_events, sweep, unaudited, crashes, store, now>>

(* Defect: any flag may be disabled.                                       *)
BugTransition(t, k, authority, target) ==
  /\ call[t].pc = "idle" /\ flags[k] # None /\ flags[k].generation < MaxGeneration
  /\ authorize(required_authority[k], authority)
  /\ target \in Transitions[flags[k].status] \cup {"DISABLED"}
  /\ call' = [call EXCEPT ![t] = [pc |-> "write", key |-> k,
       change |-> <<"status", target>>, after |-> 0]]
  /\ UNCHANGED <<flags, redis, flag_events, sweep, unaudited, crashes, store, now>>

(* transition reads the row, and checks the caller and the lifecycle.      *)
transition(t, k, authority, target) ==
  /\ call[t].pc = "idle" /\ flags[k] # None /\ flags[k].generation < MaxGeneration
  /\ authorize(required_authority[k], authority)
  /\ target \in Transitions[flags[k].status]
  /\ call' = [call EXCEPT ![t] = [pc |-> "write", key |-> k,
       change |-> <<"status", target>>, after |-> 0]]
  /\ UNCHANGED <<flags, redis, flag_events, sweep, unaudited, crashes, store, now>>

(* update_rollout reads the row, which must be ACTIVE and have another     *)
(* rollout.                                                                *)
update_rollout(t, k, authority, rollout_bps) ==
  /\ call[t].pc = "idle" /\ flags[k] # None /\ flags[k].generation < MaxGeneration
  /\ authorize(required_authority[k], authority)
  /\ flags[k].status = "ACTIVE"
  /\ flags[k].rollout_bps # rollout_bps
  /\ call' = [call EXCEPT ![t] = [pc |-> "write", key |-> k,
       change |-> <<"rollout", rollout_bps>>, after |-> 0]]
  /\ UNCHANGED <<flags, redis, flag_events, sweep, unaudited, crashes, store, now>>

Changed(row, change) ==
  IF change[1] = "status"
  THEN [row EXCEPT !.status = change[2], !.generation = @ + 1]
  ELSE [row EXCEPT !.rollout_bps = change[2], !.generation = @ + 1]

(* set_status and set_rollout write the row as it is now; the trigger may  *)
(* refuse.                                                                 *)
Write(t) ==
  LET k == call[t].key
      new == Changed(flags[k], call[t].change) IN
  /\ call[t].pc = "write"
  /\ \/ /\ enforce_safety_invariants(flags[k], new)
        /\ flags' = [flags EXCEPT ![k] = new]
        /\ call' = [call EXCEPT ![t].pc = "audit", ![t].change = << >>,
             ![t].after = new.generation]
     \/ /\ ~enforce_safety_invariants(flags[k], new)
        /\ Finish(t)
        /\ UNCHANGED flags
  /\ UNCHANGED <<redis, flag_events, sweep, unaudited, crashes, store, now>>

(* Defect: the change is published without an event.                       *)
BugAudit(t) ==
  /\ call[t].pc = "audit"
  /\ Goto(t, "publish")
  /\ UNCHANGED <<flags, redis, flag_events, sweep, unaudited, crashes, store, now>>

Audit(t) ==
  /\ call[t].pc = "audit"
  /\ flag_events' = flag_events \cup {<<call[t].key, call[t].after>>}
  /\ Goto(t, "publish")
  /\ UNCHANGED <<flags, redis, sweep, unaudited, crashes, store, now>>

(* The envelope leaves on flags.changed.v1, and the request is answered.   *)
Publish(t) ==
  /\ call[t].pc = "publish"
  /\ Finish(t)
  /\ UNCHANGED <<flags, redis, flag_events, sweep, unaudited, crashes, store, now>>

(* The database, the audit, the bus or the process fails; what is          *)
(* committed stays.                                                        *)
Crash(t) ==
  /\ call[t].pc # "idle"
  /\ crashes < MaxCrashes
  /\ crashes' = crashes + 1
  /\ unaudited' = IF call[t].pc = "audit"
                  THEN unaudited \cup {<<call[t].key, call[t].after>>} ELSE unaudited
  /\ Finish(t)
  /\ UNCHANGED <<flags, redis, flag_events, sweep, store, now>>

--------------------------------------------------------------------------------
(* run_once: the ACTIVE rows are read at once and compared one by one.     *)
ListActive(s) ==
  /\ sweep[s].pc = "idle"
  /\ sweep' = [sweep EXCEPT ![s] = [pc |-> "drift",
       due |-> {k \in Keys : review_at[k] <= now}, rows |-> {r \in Rows : r.status = "ACTIVE"}, put |-> None]]
  /\ UNCHANGED <<flags, redis, flag_events, call, unaudited, crashes, store, now>>

(* Defect: only flags that are not cached at all are written.              *)
BugDrifted(cached, row) == cached = None

Drifted(cached, row) == cached = None \/ cached.generation # row.generation

Compare(s, row) ==
  /\ sweep[s].pc = "drift" /\ row \in sweep[s].rows
  /\ sweep' = [sweep EXCEPT ![s].rows = @ \ {row},
       ![s].pc  = IF Drifted(redis[row.flag_key], row) THEN "put" ELSE "drift",
       ![s].put = IF Drifted(redis[row.flag_key], row) THEN row ELSE None]
  /\ UNCHANGED <<flags, redis, flag_events, call, unaudited, crashes, store, now>>

redis_put(s) ==
  /\ sweep[s].pc = "put"
  /\ redis' = [redis EXCEPT ![sweep[s].put.flag_key] = sweep[s].put]
  /\ sweep' = [sweep EXCEPT ![s].pc = "drift", ![s].put = None]
  /\ UNCHANGED <<flags, flag_events, call, unaudited, crashes, store, now>>

(* The anti-zombie sweep: of the flags past review_at when the sweep began *)
(* those without a recent evaluation.  Nothing in the source tree writes   *)
(* last_evaluated_at: any of them may be.                                  *)
ListZombies(s) ==
  /\ sweep[s].pc = "drift" /\ sweep[s].rows = {}
  /\ \E zombies \in SUBSET {r \in Rows : r.status # "RETIRED" /\ r.flag_key \in sweep[s].due} :
       sweep' = [sweep EXCEPT ![s].pc = "zombies", ![s].rows = zombies]
  /\ UNCHANGED <<flags, redis, flag_events, call, unaudited, crashes, store, now>>

(* Defect: the generation stays as it is.                                  *)
BugForceRetire(s, row) ==
  /\ sweep[s].pc = "zombies" /\ row \in sweep[s].rows
  /\ flags' = [flags EXCEPT ![row.flag_key].status = "RETIRED"]
  /\ sweep' = [sweep EXCEPT ![s].rows = @ \ {row}]
  /\ UNCHANGED <<redis, flag_events, call, unaudited, crashes, store, now>>

(* force_retire goes to the row directly: no audit, no publication.        *)
ForceRetire(s, row) ==
  LET k == row.flag_key
      new == Changed(flags[k], <<"status", "RETIRED">>) IN
  /\ sweep[s].pc = "zombies" /\ row \in sweep[s].rows
  /\ flags' = [flags EXCEPT ![k] = new]
  /\ unaudited' = unaudited \cup {<<k, new.generation>>}
  /\ sweep' = [sweep EXCEPT ![s].rows = @ \ {row}]
  /\ UNCHANGED <<redis, flag_events, call, crashes, store, now>>

Report(s) ==
  /\ sweep[s].pc = "zombies" /\ sweep[s].rows = {}
  /\ sweep' = [sweep EXCEPT ![s] = Asleep]
  /\ UNCHANGED <<flags, redis, flag_events, call, unaudited, crashes, store, now>>

(* An exception of Redis, of the database or of the alerts is not handled: *)
(* the sweep ends where it is, and the rest waits for the next one.        *)
SweepRaises(s) ==
  /\ sweep[s].pc # "idle"
  /\ crashes < MaxCrashes
  /\ crashes' = crashes + 1
  /\ sweep' = [sweep EXCEPT ![s] = Asleep]
  /\ UNCHANGED <<flags, redis, flag_events, call, unaudited, store, now>>

--------------------------------------------------------------------------------
(* The refresher replaces the snapshot of the store by what Redis holds.   *)
Refreshed == [baked |-> FALSE, fetched_at |-> now,
              flags |-> [k \in {j \in Keys : redis[j] # None} |-> redis[k]]]

swap(e) ==
  /\ current' = [current EXCEPT ![e] = Refreshed]
  /\ UNCHANGED <<control, pinned, now>>

pin(e) ==
  /\ pinned[e] = None
  /\ pinned' = [pinned EXCEPT ![e] = current[e]]
  /\ UNCHANGED <<control, current, now>>

Done(e) ==
  /\ pinned[e] # None
  /\ pinned' = [pinned EXCEPT ![e] = None]
  /\ UNCHANGED <<control, current, now>>

Tick ==
  /\ \E t \in Times : t > now /\ now' = t
  /\ UNCHANGED <<control, store>>

--------------------------------------------------------------------------------
Request(t) ==
  \/ \E a \in Authorities :
       \/ \E r \in Requests : create_flag(t, r, a)
       \/ \E k \in Keys :
            \/ \E target \in {"ACTIVE", "DISABLED", "RETIRED"} : transition(t, k, a, target)
            \/ \E bps \in Rollouts : update_rollout(t, k, a, bps)
  \/ Write(t) \/ Audit(t) \/ Publish(t) \/ Crash(t)

run_once(s) ==
  \/ ListActive(s) \/ redis_put(s) \/ ListZombies(s) \/ Report(s)
  \/ \E row \in sweep[s].rows : Compare(s, row) \/ ForceRetire(s, row)

Next ==
  \/ \E t \in Threads : Request(t)
  \/ \E s \in Sweepers : run_once(s) \/ SweepRaises(s)
  \/ \E e \in Engines : swap(e) \/ pin(e) \/ Done(e)
  \/ Tick

(* The sweep runs every SWEEP_INTERVAL_SECONDS; nothing else is promised.  *)
Spec == Init /\ [][Next]_vars /\ \A s \in Sweepers : WF_vars(run_once(s))

--------------------------------------------------------------------------------
(* Everything that is stored is a row of the table or a copy of one.       *)
FlagTypeOK ==
  /\ \A k \in Keys : flags[k] # None => flags[k] \in CompiledFlag /\ flags[k].flag_key = k
  /\ \A k \in Keys : redis[k] # None =>
       flags[k] # None /\ redis[k].generation \in 1..flags[k].generation
  /\ \A s \in Live : \A k \in DOMAIN s.flags :
       flags[k] # None /\ s.flags[k].generation \in 1..flags[k].generation
  /\ now \in Times

(* "A stale cache cannot keep live trading enabled": once a snapshot that  *)
(* was fetched is older than a second, whoever holds it, neither engine    *)
(* lets a SAFETY_CRITICAL flag of it be on.  It takes the trigger, the     *)
(* copies and the ladder of both engines together.                         *)
StaleSafetyIsOff ==
  \A s \in Live : \A k \in DOMAIN s.flags :
    s.flags[k].flag_class = "SAFETY_CRITICAL" /\ now - s.fetched_at > 1000 =>
      \A ctx \in Contexts :
        /\ ~Rust!evaluate_against_snapshot(s, k, ctx, now).enabled
        /\ ~Sdk!provider_evaluate(s, k, ctx, now).enabled

InUse == Live \cup {current[e] : e \in Engines}

(* What the engine says where the SDK names the list or the type that      *)
(* decided.                                                                *)
Coarse(verdict) ==
  IF verdict.reason \in {"denylisted", "allowlisted", "boolean", "not_in_allowlist",
                         "not_in_denylist", "percentage"}
  THEN IF verdict.enabled THEN "enabled" ELSE "disabled"
  ELSE verdict.reason

(* For every snapshot in use, flag and context a FlagProvider of the SDK   *)
(* that could be constructed gives the answer of the Rust engine, from the *)
(* same rung of the ladder.  The reasons, which both conformance tests     *)
(* compare with one file of vectors, are not the same: the engine has      *)
(* "enabled" or "disabled" where the SDK names the list or the type, and   *)
(* the same words everywhere else.  Nor is a provider constructed with the *)
(* shipped fixture, whose seed the SDK misreads.                           *)
EnginesAgree ==
  \A s \in InUse : \A k \in DOMAIN s.flags : \A ctx \in Contexts, seed \in Seeds :
    LET rust == Rust!evaluate_against_snapshot(s, k, ctx, now) IN
    \A sdk \in Sdk!FlagProvider(seed, s, k, ctx, now) :
      /\ rust.enabled = sdk.enabled
      /\ rust.degradation = sdk.degradation
      /\ rust.reason = Coarse(sdk)

(* The reconciler compares generations and nothing else.  That is enough:  *)
(* whatever copy has the generation of the row, is the row.                *)
GenerationNamesOneState ==
  \A k \in Keys :
    LET copies == {redis[k]} \cup {s.flags[k] : s \in {t \in Live : k \in DOMAIN t.flags}} IN
    \A c \in copies \ {None} : c.generation = flags[k].generation => c = flags[k]

(* Every generation of a row has one event, or is about to get it, or lost *)
(* it to a failure or to a forced retirement.                              *)
AuditAccounted ==
  \A k \in Keys : flags[k] # None =>
    \A g \in 1..flags[k].generation :
      Cardinality({<<k, g>>} \cap flag_events)
        + Cardinality({t \in Threads : call[t].pc = "audit"
                        /\ call[t].key = k /\ call[t].after = g})
        + Cardinality({<<k, g>>} \cap unaudited) = 1

(* The tables, the cache and the snapshots agree, and so do the events.    *)
FlagInv == FlagTypeOK /\ AuditAccounted

(* Whatever requests and sweeps read before they wrote, the status of a    *)
(* row moves along the lifecycle only: RETIRED is terminal, nothing        *)
(* returns to DRAFT, and a DRAFT is not disabled.                          *)
LifecycleHolds ==
  [][\A k \in Keys : flags[k] # None =>
       LET old == flags[k].status
           new == flags'[k].status
       IN  new \in {old, "RETIRED"} \cup Transitions[old]]_vars

(* Once requests stop and sweeps no longer raise, Redis comes to hold the  *)
(* row of every ACTIVE flag and keeps it, however the sweeps of several    *)
(* reconcilers overlap.                                                    *)
ActiveConverges ==
  \A k \in Keys : <>[](flags[k] # None /\ flags[k].status = "ACTIVE" => redis[k] = flags[k])

================================================================================
