--------------------------- MODULE MCAuditDelivery ---------------------------
(* Instance of AuditDelivery: e1 can be sent but is the request of e2; e2  *)
(* can be sent; e3 is larger than the broker takes.                        *)
EXTENDS AuditDelivery

CONSTANTS e1, e2, e3

MCEventIds == {e1, e2, e3}

Event(e, r) ==
  [event_id |-> e, idempotency_key |-> NoKey, request_id |-> r, data |-> "exact"]

MCInputs == {Event(e1, NoRequest), Event(e2, e1), Event(e3, e3)}

=============================================================================
