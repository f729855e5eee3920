---------------------------- MODULE AuditLedger ----------------------------
(***************************************************************************)
(* What the audit trail promises, without transactions, locks, sequence    *)
(* numbers or hashes: one ledger of audit events that only ever grows at   *)
(* its end, and in which an event id, and an idempotency key, occur once.  *)
(* AuditLog is shown to implement this specification.                      *)
(***************************************************************************)
EXTENDS Naturals, Sequences

CONSTANTS Inputs,   \* the AuditFields a client may submit
          NoKey     \* the absent idempotency key

VARIABLE ledger

(* f may enter l: neither its event id nor its idempotency key is taken.   *)
Fresh(l, f) ==
  \A i \in 1..Len(l) :
    /\ l[i].event_id # f.event_id
    /\ f.idempotency_key = NoKey \/ l[i].idempotency_key # f.idempotency_key

Init == ledger = << >>

Record(f) ==
  /\ Fresh(ledger, f)
  /\ ledger' = Append(ledger, f)

Next == \E f \in Inputs : Record(f)

Spec == Init /\ [][Next]_ledger

=============================================================================
