-------------------------------- MODULE MCAuth --------------------------------
(* Instance of Auth: the bootstrap principal and a principal of the AI     *)
(* plane; two of the seeded roles, and one that an administrator made.     *)
EXTENDS Auth

MCForbidden == [plane \in Planes |-> IF plane = "AI"
                 THEN {<<"broker", "*">>, <<"execution", "*">>, <<"kill_switch", "*">>} ELSE {}]

MCProvisioned == [s \in {"ai"} |-> "AI"]

MCBootstrapPermissions == <<GLOBAL_WILDCARD>>

MCKeyRequests ==
  {[subject |-> "ai", permissions |-> <<<<"model", "*">>, <<"execution", "submit">>>>],
   [subject |-> "ai", permissions |-> <<<<"emergency_stop", "all">>>>]}

MCOneRequest == {request \in MCKeyRequests : Len(request.permissions) = 2}

MCRolePermissions ==
  [role \in Roles |-> CASE role = "AI_SERVICE"        -> {<<"model", "read">>}
                        [] role = "EXECUTION_SERVICE" -> {<<"execution", "submit">>}
                        [] role = "tester"            -> {<<"execution", "read">>}]

MCBindings == [role \in Roles |-> IF role = "EXECUTION_SERVICE" THEN {"TRADING"} ELSE {"AI"}]

(* The seeded exclusion, of roles that no plane may both hold, and one     *)
(* that an administrator made of two roles of the AI plane.                *)
MCSeeded     == {{"AI_SERVICE", "EXECUTION_SERVICE"}}
MCExclusions == MCSeeded \cup {{"AI_SERVICE", "tester"}}
===============================================================================
