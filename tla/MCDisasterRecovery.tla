-------------------------- MODULE MCDisasterRecovery --------------------------
(* Instance of DisasterRecovery: a database restored from a backup and a   *)
(* service with a health endpoint, two of the default plan's components.   *)
EXTENDS DisasterRecovery

MCPlan == [rpo_seconds |-> 3600, drill_max_age_days |-> 7]

Component == [component_name |-> "postgresql-primary", restore_from_backup |-> TRUE,
              backup_policy_name |-> "nightly", health_endpoint |-> None,
              rpo_seconds |-> 3600]

Service(name) == [Component EXCEPT !.component_name = name, !.restore_from_backup = FALSE,
                   !.backup_policy_name = None, !.health_endpoint = name, !.rpo_seconds = None]

MCDefaults == <<Component, Service("dr")>>

MCOthers == {[Component EXCEPT !.backup_policy_name = None, !.component_name = "dr"]}

MCPlans == {MCPlan}

===============================================================================
