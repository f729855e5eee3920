------------------------------ MODULE MCBackup ------------------------------
(* Instances of Backup for TLC.                                            *)
EXTENDS Backup, TLC

KeepOne == [target_system |-> "POSTGRES", target_connection_ref |-> "env://APP",
            enabled |-> TRUE, retention_count |-> 1, retention_days |-> FALSE,
            delete_expired |-> TRUE]

(* Two that keep dumps, and three that make none.                          *)
MCPolicies ==
  {KeepOne,
   [KeepOne EXCEPT !.retention_count = None, !.retention_days = TRUE, !.delete_expired = FALSE],
   [KeepOne EXCEPT !.target_connection_ref = "vault://app"],
   [KeepOne EXCEPT !.target_system = "REDIS"],
   [KeepOne EXCEPT !.enabled = FALSE]}

Symmetry == Permutations(Workers)

=============================================================================
