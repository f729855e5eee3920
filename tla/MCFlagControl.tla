---------------------------- MODULE MCFlagControl ----------------------------
(* Instance of FlagControl: one key, created as a SAFETY_CRITICAL rollout  *)
(* or as a STANDARD flag whose lists overlap.                              *)
EXTENDS FlagControl, TLC

CONSTANTS live, e1, e2

MCPriority == <<"strategy_id", "service">>

MCHash == <<live, e1>> :> 12499 @@ <<live, e2>> :> 2500

MCContexts == {
  [environment |-> "prod", attributes |-> <<>>],
  [environment |-> "prod", attributes |-> <<<<"service", e2>>, <<"strategy_id", e1>>>>],
  [environment |-> "paper", attributes |-> <<<<"strategy_id", None>>, <<"service", e2>>>>]}

Rollout == [flag_key |-> live, status |-> "DRAFT", flag_type |-> "PERCENTAGE",
  flag_class |-> "SAFETY_CRITICAL", bool_value |-> TRUE, rollout_bps |-> 2500,
  allowlist |-> {}, denylist |-> {}, environments |-> {}, fail_value |-> FALSE,
  generation |-> 1, expires_at |-> None]

Lists == [Rollout EXCEPT !.flag_class = "STANDARD", !.flag_type = "DENYLIST",
  !.allowlist = {e1}, !.denylist = {e1}, !.environments = {"prod"},
  !.fail_value = TRUE, !.expires_at = 1001]

MCSafety == {
  [payload |-> Rollout, secret |-> FALSE],
  [payload |-> Rollout, secret |-> TRUE],
  [payload |-> [Rollout EXCEPT !.fail_value = TRUE], secret |-> FALSE]}

MCRequests == MCSafety \cup {[payload |-> Lists, secret |-> FALSE]}

MCBaked == live :> [Rollout EXCEPT !.status = "ACTIVE", !.flag_type = "BOOLEAN",
                                    !.bool_value = FALSE]

MCReview == [k \in Keys |-> 1000]
MCAuthority == [k \in Keys |-> "flags:safety"]

==============================================================================
