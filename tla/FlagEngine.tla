------------------------------ MODULE FlagEngine ------------------------------
(***************************************************************************)
(* crates/apex-flag-engine: the evaluator and the provider of the          *)
(* execution path, in Rust.  An outcome is Enabled, Disabled, or the       *)
(* reason why the fail value of the flag is used.                          *)
(***************************************************************************)
EXTENDS FlagModel

(* The first attribute with a value, in the order of the priority list.    *)
select_bucketing_entity(attrs, priority) ==
  LET matching(p) == {i \in DOMAIN attrs : attrs[i][1] = priority[p] /\ attrs[i][2] # None}
      wanted == {p \in DOMAIN priority : matching(p) # {}}
  IN  IF wanted = {} THEN None ELSE attrs[Min(matching(Min(wanted)))][2]

bucket_for(flag_key, entity) == Hash[<<flag_key, entity>>] % MODULUS

Enabled == <<"Enabled", None>>
Disabled == <<"Disabled", None>>
UseFailValue(why) == <<"UseFailValue", why>>

resolve(outcome, fail_value) ==
  CASE outcome[1] = "Enabled"  -> TRUE
    [] outcome[1] = "Disabled" -> FALSE
    [] OTHER                   -> fail_value

reason(outcome) ==
  CASE outcome[1] = "Enabled"  -> "enabled"
    [] outcome[1] = "Disabled" -> "disabled"
    [] OTHER                   -> outcome[2]

DispatchType(flag, entity) ==
  CASE flag.flag_type = "BOOLEAN"   -> IF flag.bool_value THEN Enabled ELSE Disabled
    [] flag.flag_type = "ALLOWLIST" -> Disabled
    [] flag.flag_type = "DENYLIST"  -> Enabled
    [] flag.flag_type = "PERCENTAGE" ->
         IF entity = None THEN UseFailValue("missing_bucketing_entity")
         ELSE IF bucket_for(flag.flag_key, entity) < flag.rollout_bps
              THEN Enabled ELSE Disabled

evaluate(flag, ctx, now) ==
  LET entity == select_bucketing_entity(ctx.attributes, entity_priority) IN
  IF flag.status = "RETIRED" THEN UseFailValue("retired")
  ELSE IF flag.status = "DISABLED" THEN UseFailValue("disabled")
  ELSE IF flag.status = "DRAFT" THEN UseFailValue("draft")
  ELSE IF flag.environments # {} /\ ctx.environment \notin flag.environments
       THEN UseFailValue("environment_not_targeted")
  ELSE IF flag.expires_at # None /\ now >= flag.expires_at THEN UseFailValue("expired")
  ELSE IF entity # None /\ entity \in flag.denylist THEN Disabled
  ELSE IF entity # None /\ entity \in flag.allowlist THEN Enabled
  ELSE DispatchType(flag, entity)

(* The degradation ladder: baked defaults and fresh snapshots are          *)
(* evaluated, a stale one gives the fail value.                            *)
evaluate_against_snapshot(snapshot, key, ctx, now) ==
  LET flag  == snapshot.flags[key]
      age   == Max({0, now - snapshot.fetched_at})
      stale == ~snapshot.baked /\ age > staleness_limit_ms[flag.flag_class]
  IN  [enabled     |-> IF stale THEN flag.fail_value
                       ELSE resolve(evaluate(flag, ctx, now), flag.fail_value),
       reason      |-> IF stale THEN "snapshot_stale_beyond_threshold"
                       ELSE reason(evaluate(flag, ctx, now)),
       degradation |-> IF snapshot.baked THEN "baked_defaults"
                       ELSE IF stale THEN "fail_value" ELSE "fresh"]

===============================================================================
