----------------------------- MODULE AuditVerify -----------------------------
(***************************************************************************)
(* GET /v1/audit/verify of apexquant-audit: fetch_verification_range,      *)
(* verify_chain and record_integrity_check, run beside the append_event    *)
(* transactions of AuditLog.                                               *)
(***************************************************************************)
EXTENDS AuditLog, FiniteSetsExt

CONSTANTS Limits   \* the values of the query parameter limit

ASSUME LimitsAssumption == Limits \subseteq Nat \ {0}

VARIABLES verifier,          \* the verification request in progress
          integrity_checks   \* the report stored last

verifyVars == <<verifier, integrity_checks>>

-----------------------------------------------------------------------------
(* verify_chain walks through the rows of the range query in ascending     *)
(* event_seq; `rows' maps the event_seq of each to the row.  expected_seq  *)
(* starts at the first row's number and counts rows from there; prev_hash  *)
(* is always the hash stored in the row before.                            *)

Before(seqs, s) == {t \in seqs : t < s}

Previous(rows, initial_prev_hash, s) ==
  LET before == Before(DOMAIN rows, s)
  IN  IF before = {} THEN initial_prev_hash ELSE rows[Max(before)].event_hash

SequenceGap(rows, s) ==
  s # Min(DOMAIN rows) + Cardinality(Before(DOMAIN rows, s))

(* Defect: the link is compared with the row's own value.                  *)
BugPrevHashMismatch(rows, initial_prev_hash, s) ==
  Before(DOMAIN rows, s) = {} /\ rows[s].prev_hash # initial_prev_hash

PrevHashMismatch(rows, initial_prev_hash, s) ==
  rows[s].prev_hash # Previous(rows, initial_prev_hash, s)

(* Defect: the recomputation trusts the data column.                       *)
BugEventHashMismatch(rows, initial_prev_hash, s) ==
  LET prev == Previous(rows, initial_prev_hash, s)
      hashed == rows[s].event_hash[Len(rows[s].event_hash)]
  IN  rows[s].event_hash #
        compute_event_hash([rows[s].fields EXCEPT !.data = hashed.data], prev)

EventHashMismatch(rows, initial_prev_hash, s) ==
  rows[s].event_hash #
    compute_event_hash(rows[s].fields, Previous(rows, initial_prev_hash, s))

ViolationTypes == {"SEQUENCE_GAP", "PREV_HASH_MISMATCH", "EVENT_HASH_MISMATCH"}

verify_chain(rows, initial_prev_hash) ==
  {v \in [event_seq : DOMAIN rows, type : ViolationTypes] :
     \/ v.type = "SEQUENCE_GAP" /\ SequenceGap(rows, v.event_seq)
     \/ /\ v.type = "PREV_HASH_MISMATCH"
        /\ PrevHashMismatch(rows, initial_prev_hash, v.event_seq)
     \/ /\ v.type = "EVENT_HASH_MISMATCH"
        /\ EventHashMismatch(rows, initial_prev_hash, v.event_seq)}

(* WHERE event_seq >= start AND event_seq <= end ORDER BY event_seq ASC    *)
(* LIMIT n: the rows in the range with fewer than n of them before.        *)
RangeQuery(table, start, end, limit) ==
  LET hits == {s \in DOMAIN table : start <= s /\ s <= end}
  IN  [s \in {t \in hits : Cardinality(Before(hits, t)) < limit} |-> table[s]]

Table == [s \in Committed |-> Row(s)]

-----------------------------------------------------------------------------
NoCheck == [ok |-> TRUE, violations |-> {}, events_checked |-> 0]

VInit ==
  /\ Init
  /\ verifier = [pc |-> "idle"]
  /\ integrity_checks = NoCheck

(* The hash before the range: genesis, or that of row start_seq - 1, which *)
(* must exist or the request is refused.                                   *)
ReadPrevious(start) ==
  /\ verifier.pc = "idle"
  /\ \/ /\ start <= 1
        /\ verifier' = [pc |-> "range", start |-> 1, initial |-> GENESIS_HASH]
     \/ /\ start > 1
        /\ start - 1 \in Committed
        /\ verifier' = [pc |-> "range", start |-> start, initial |-> Row(start - 1).event_hash]
  /\ UNCHANGED <<vars, integrity_checks>>

(* A later statement, which also sees rows committed in between.           *)
CheckRange(end, limit) ==
  /\ verifier.pc = "range"
  /\ LET rows == RangeQuery(Table, verifier.start, end, limit)
         violations == verify_chain(rows, verifier.initial)
     IN  integrity_checks' = [ok |-> violations = {}, violations |-> violations,
                              events_checked |-> Cardinality(DOMAIN rows)]
  /\ verifier' = [pc |-> "idle"]
  /\ UNCHANGED vars

VNext ==
  \/ Next /\ UNCHANGED verifyVars
  \/ \E start \in 0..MaxSeq + 1 : ReadPrevious(start)
  \/ \E end \in 1..MaxSeq, limit \in Limits : CheckRange(end, limit)

VSpec == VInit /\ [][VNext]_<<vars, verifyVars>>

-----------------------------------------------------------------------------
WholeLog(table) == verify_chain(RangeQuery(table, 1, MaxSeq, MaxSeq), GENESIS_HASH)

Reported(violations, seq) == \E v \in violations : v.event_seq = seq

(* Whatever range is verified while events are being appended, a link is   *)
(* never reported broken, and a hash only where jsonb did not give the     *)
(* data back as it was hashed.                                             *)
NoFalseHashAlarm ==
  \A v \in integrity_checks.violations :
    v.type # "SEQUENCE_GAP" =>
      /\ v.type = "EVENT_HASH_MISMATCH"
      /\ v.event_seq \in Committed
      /\ Row(v.event_seq).fields.data = "bigint"

(* verify_chain detects tampering: if the row is not reported, then no     *)
(* change of one of its hashed fields would go unreported; received_at is  *)
(* a column that canonical_payload leaves out.                             *)
TamperedRowReported ==
  LET table  == Table
      report == WholeLog(table)
      sound  == {s \in Committed : ~Reported(report, s)}
  IN  \A s \in sound, f \in AuditFields :
        f # table[s].fields => Reported(WholeLog([table EXCEPT ![s].fields = f]), s)

(* A row taken out of the log is missed by the row that followed it.       *)
RemovedRowReported ==
  \A s, t \in Committed :
    s < t /\ (\A u \in Committed : u <= s \/ t <= u) =>
      [event_seq |-> t, type |-> "PREV_HASH_MISMATCH"]
         \in WholeLog([u \in Committed \ {s} |-> Row(u)])

=============================================================================
