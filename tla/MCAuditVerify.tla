---------------------------- MODULE MCAuditVerify ----------------------------
(* Instance of AuditVerify: the events are chosen so that a retry of the   *)
(* same event id, two events with one idempotency key, and data that jsonb *)
(* does not give back as they were all happen.                             *)
EXTENDS AuditVerify, TLC

CONSTANTS e1, e2, e3, e4, k1

MCEventIds == {e1, e2, e3, e4}
MCKeys == {k1}

Event(e, k, d) ==
  [event_id |-> e, idempotency_key |-> k, request_id |-> NoRequest, data |-> d]

MCInputs == {Event(e1, k1, "exact"), Event(e2, k1, "bigint"),
             Event(e3, NoKey, "bigfloat"), Event(e4, NoKey, "exact")}

Symmetry == Permutations(Workers)

=============================================================================
