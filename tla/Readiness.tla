------------------------------ MODULE Readiness ------------------------------
(***************************************************************************)
(* scoring.py and the checks of verifier.py: how the readiness of a        *)
(* recovery plan is scored.  requirements and checks map component names   *)
(* to what was found out about them.  The code adds floats that are ratios *)
(* of counts; here a score is the exact fraction num / den.                *)
(***************************************************************************)
EXTENDS Integers, FiniteSets

CONSTANTS None   \* an absent value; a health check without an answer

WEIGHT_PLAN_ACTIVE == 10
WEIGHT_BACKUP_FRESHNESS == 40
WEIGHT_BACKUP_VERIFICATION == 25
WEIGHT_HEALTH == 15
WEIGHT_RECENT_DRILL == 10

READY_THRESHOLD == 90
DEGRADED_THRESHOLD == 70
BACKUP_FAIL_CLOSED_CAP == 49
HEALTH_FAILURE_CAP == 79

BackupRequirementStatus ==
  [required : BOOLEAN, policy_exists : BOOLEAN, fresh : BOOLEAN, verified : BOOLEAN]

HealthCheckStatus == [applicable : BOOLEAN, healthy : BOOLEAN \cup {None}]

Required(requirements) == {c \in DOMAIN requirements : requirements[c].required}
Fresh(requirements) == {c \in Required(requirements) : requirements[c].fresh}
Verified(requirements) == {c \in Required(requirements) : requirements[c].verified}
Applicable(checks) == {c \in DOMAIN checks : checks[c].applicable}
Healthy(checks) == {c \in Applicable(checks) : checks[c].healthy = TRUE}

Least(a, b) == IF a <= b THEN a ELSE b

(* The part of all that are in, all of nothing being everything.           *)
Count(in, all) == IF all = {} THEN 1 ELSE Cardinality(in)
Total(all) == IF all = {} THEN 1 ELSE Cardinality(all)

HealthCap(num, den, some_unhealthy) ==
  IF some_unhealthy THEN Least(num, HEALTH_FAILURE_CAP * den) ELSE num

(* Defect: a stale backup costs its share of the weight only.              *)
BugFailClosedCap(num, den, fail_closed) == num

FailClosedCap(num, den, fail_closed) ==
  IF fail_closed THEN Least(num, BACKUP_FAIL_CLOSED_CAP * den) ELSE num

StateOf(num, den) ==
  IF num >= READY_THRESHOLD * den THEN "READY"
  ELSE IF num >= DEGRADED_THRESHOLD * den THEN "DEGRADED" ELSE "NOT_READY"

(* The drill counts after the cap of a failed health check, and before the *)
(* cap of a stale backup.                                                  *)
score_readiness(plan_active, requirements, checks, recent_drill_passed) ==
  LET n      == Total(Required(requirements))
      fresh  == Count(Fresh(requirements), Required(requirements))
      verified == Count(Verified(requirements), Required(requirements))
      h      == Total(Applicable(checks))
      healthy == Count(Healthy(checks), Applicable(checks))
      den    == n * h
      base   == WEIGHT_PLAN_ACTIVE * den + WEIGHT_BACKUP_FRESHNESS * fresh * h
                + WEIGHT_BACKUP_VERIFICATION * verified * h + WEIGHT_HEALTH * healthy * n
      capped == HealthCap(base, den, healthy < h)
      earned == IF recent_drill_passed THEN capped + WEIGHT_RECENT_DRILL * den ELSE capped
      num    == Least(FailClosedCap(earned, den, fresh < n), 100 * den)
  IN  IF ~plan_active
      THEN [num |-> 0, den |-> 1, state |-> "NOT_READY", fail_closed |-> TRUE]
      ELSE [num |-> num, den |-> den, state |-> StateOf(num, den), fail_closed |-> fresh < n]

AtLeast(score, points) == score.num >= points * score.den

------------------------------------------------------------------------------
(* The checks of a drill, on requirements assessed earlier.                *)
check_backup_policies(requirements) ==
  \A c \in Required(requirements) : requirements[c].policy_exists

check_backup_freshness(requirements) ==
  \A c \in Required(requirements) : requirements[c].policy_exists => requirements[c].fresh

check_backup_verification(requirements) ==
  \A c \in Required(requirements) :
    requirements[c].policy_exists /\ requirements[c].fresh => requirements[c].verified

(* A check without an answer does not fail a drill.                        *)
HealthOk(checks) == \A c \in DOMAIN checks : checks[c].healthy # FALSE

==============================================================================
