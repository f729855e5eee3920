-------------------------------- MODULE FlagSdk --------------------------------
(***************************************************************************)
(* apexquant-flags: the evaluator and the provider of the control and      *)
(* research planes, in Python.                                             *)
(***************************************************************************)
EXTENDS FlagModel

(* The decimal digits of n read as hexadecimal ones.                       *)
AsHex[n \in Nat] == IF n < 10 THEN n ELSE 16 * AsHex[n \div 10] + (n % 10)

(* DeterminismSpec.load raises unless the seed it reads is SEED.  YAML has *)
(* made a number of "0x9E..." before int(str(seed), 16) sees its digits;   *)
(* the other entries of the fixture are as they should be.                 *)
DeterminismSpec_load(seed) == AsHex[seed] = seed

(* The first value of every attribute that has one is looked up by name.   *)
select_bucketing_entity(attributes, priority) ==
  LET valued(name) == {i \in DOMAIN attributes :
                         attributes[i][1] = name /\ attributes[i][2] # None}
      lookup == [name \in {n \in {attributes[i][1] : i \in DOMAIN attributes} :
                             valued(n) # {}} |-> attributes[Min(valued(name))][2]]
      present == {p \in DOMAIN priority : priority[p] \in DOMAIN lookup}
  IN  IF present = {} THEN None ELSE lookup[priority[Min(present)]]

bucket_for(flag_key, entity) == Hash[<<flag_key, entity>>] % MODULUS

Outcome(kind, reason) == [kind |-> kind, reason |-> reason]

fail(reason) == Outcome("fail_value", reason)

resolve(outcome, fail_value) ==
  IF outcome.kind = "enabled" THEN TRUE
  ELSE IF outcome.kind = "disabled" THEN FALSE
  ELSE fail_value

(* Defect: the allowlist is consulted before the denylist.                 *)
BugOverride(flag, entity) ==
  IF entity \in flag.allowlist THEN {Outcome("enabled", "allowlisted")}
  ELSE IF entity \in flag.denylist THEN {Outcome("disabled", "denylisted")}
  ELSE {}

(* The lists decide before the type does, and deny wins.                   *)
Override(flag, entity) ==
  IF entity # None /\ entity \in flag.denylist THEN {Outcome("disabled", "denylisted")}
  ELSE IF entity # None /\ entity \in flag.allowlist THEN {Outcome("enabled", "allowlisted")}
  ELSE {}

DispatchType(flag, entity) ==
  CASE flag.flag_type = "BOOLEAN" ->
         Outcome(IF flag.bool_value THEN "enabled" ELSE "disabled", "boolean")
    [] flag.flag_type = "ALLOWLIST" -> Outcome("disabled", "not_in_allowlist")
    [] flag.flag_type = "DENYLIST" -> Outcome("enabled", "not_in_denylist")
    [] flag.flag_type = "PERCENTAGE" ->
         IF entity = None THEN fail("missing_bucketing_entity")
         ELSE Outcome(IF bucket_for(flag.flag_key, entity) < flag.rollout_bps
                      THEN "enabled" ELSE "disabled", "percentage")

evaluate(flag, ctx, now) ==
  LET entity == select_bucketing_entity(ctx.attributes, entity_priority) IN
  IF flag.status = "RETIRED" THEN fail("retired")
  ELSE IF flag.status = "DISABLED" THEN fail("disabled")
  ELSE IF flag.status = "DRAFT" THEN fail("draft")
  ELSE IF flag.environments # {} /\ ctx.environment \notin flag.environments
       THEN fail("environment_not_targeted")
  ELSE IF flag.expires_at # None /\ now >= flag.expires_at THEN fail("expired")
  ELSE IF Override(flag, entity) # {} THEN CHOOSE o \in Override(flag, entity) : TRUE
  ELSE DispatchType(flag, entity)

(* FlagProvider.evaluate, with the same ladder as the engine's.            *)
provider_evaluate(snap, flag_key, ctx, now) ==
  LET flag == snap.flags[flag_key]
      degradation ==
        IF snap.baked THEN "baked_defaults"
        ELSE IF Max({0, now - snap.fetched_at}) <= staleness_limit_ms[flag.flag_class]
             THEN "fresh" ELSE "fail_value"
  IN  [enabled     |-> IF degradation = "fail_value" THEN flag.fail_value
                       ELSE resolve(evaluate(flag, ctx, now), flag.fail_value),
       reason      |-> IF degradation = "fail_value" THEN "snapshot_stale_beyond_threshold"
                       ELSE evaluate(flag, ctx, now).reason,
       degradation |-> degradation]

(* The verdicts that a caller of a FlagProvider gets: none if __init__     *)
(* could not load the fixture.                                             *)
FlagProvider(seed, snap, flag_key, ctx, now) ==
  {provider_evaluate(s, flag_key, ctx, now) : s \in IF DeterminismSpec_load(seed) THEN {snap} ELSE {}}

================================================================================
