---------------------------- MODULE AuditDelivery ----------------------------
(***************************************************************************)
(* Delivery of audit events to Kafka by apexquant-audit: what              *)
(* ingest_audit_event does after append_event, the relay_loop task of the  *)
(* same process, the table audit.event_delivery they share, and restarts   *)
(* of the process.  Kafka publishing is enabled (with no bootstrap servers *)
(* neither of the two runs).                                               *)
(***************************************************************************)
EXTENDS AuditLog, FiniteSetsExt

CONSTANTS BatchLimit,    \* fetch_unpublished(100)
          Unsendable,    \* event ids the broker never takes (message too large)
          MaxFailures,   \* bound: other failures of a publish
          MaxRestarts    \* bound: restarts of the service process

ASSUME DeliveryAssumption ==
  /\ BatchLimit \in Nat \ {0}
  /\ Unsendable \subseteq EventIds
  /\ MaxFailures \in Nat /\ MaxRestarts \in Nat

VARIABLES event_delivery,  \* event_seq -> published_at IS NOT NULL
          topic,           \* event_seqs in platform.audit.event.v1
          ingest,          \* the request of each worker after append_event
          relay,           \* the relay task
          failures, restarts

deliveryVars == <<event_delivery, topic, ingest, relay, failures, restarts>>

allVars == <<vars, deliveryVars>>

-----------------------------------------------------------------------------
NoIngest == [pc |-> "none", row |-> 0, ok |-> FALSE]
Sleeping == [pc |-> "sleep", batch |-> {}, ok |-> FALSE]

Published(seq) == seq \in DOMAIN event_delivery /\ event_delivery[seq]

Sendable(seq) == Row(seq).fields.event_id \notin Unsendable

(* fetch_events(1, None, None, str(record.event_id)): the fourth parameter *)
(* is request_id, so this is the latest row whose request_id is the id of  *)
(* the event just appended.                                                *)
RowsOfRequest(id) == {s \in Committed : Row(s).fields.request_id = id}

(* Defect: a row that was tried once is not fetched again.                 *)
BugFetchUnpublished(limit) ==
  LET due == Committed \ DOMAIN event_delivery
  IN  {s \in due : Cardinality({t \in due : t < s}) < limit}

(* ORDER BY event_seq ASC LIMIT n: the rows that have no published_at and  *)
(* fewer than n such rows before them.                                     *)
fetch_unpublished(limit) ==
  LET due == {s \in Committed : ~Published(s)}
  IN  {s \in due : Cardinality({t \in due : t < s}) < limit}

(* Defect: a failure also writes published_at.                             *)
BugRecordDelivery(seq, success) ==
  [s \in DOMAIN event_delivery \cup {seq} |-> IF s = seq THEN success ELSE event_delivery[s]]

(* INSERT ... ON CONFLICT (event_seq) DO UPDATE: a failure keeps the       *)
(* published_at that is there.  attempts and last_error are left out: the  *)
(* code writes them and never reads them.                                  *)
record_delivery(seq, success) ==
  [s \in DOMAIN event_delivery \cup {seq} |->
     IF s = seq THEN success \/ Published(seq) ELSE event_delivery[s]]

(* AuditKafkaPublisher.publish: an exception of send_and_wait is an answer *)
(* of its own; after a timeout the broker may hold the message all the     *)
(* same.                                                                   *)
Publish(seq, ok) ==
  \/ /\ ok /\ Sendable(seq)
     /\ topic' = topic \cup {seq}
     /\ UNCHANGED failures
  \/ /\ ~ok /\ ~Sendable(seq)
     /\ UNCHANGED <<topic, failures>>
  \/ /\ ~ok /\ Sendable(seq) /\ failures < MaxFailures
     /\ failures' = failures + 1
     /\ \/ topic' = topic \cup {seq}
        \/ UNCHANGED topic

-----------------------------------------------------------------------------
DInit ==
  /\ Init
  /\ event_delivery = << >>
  /\ topic = {}
  /\ ingest = [w \in Workers |-> NoIngest]
  /\ relay = Sleeping
  /\ failures = 0
  /\ restarts = 0

(* ingest_audit_event, after append_event has returned.                    *)
IngestFetch(w) ==
  /\ tx[w].pc = "returned" /\ ingest[w].pc = "none"
  /\ LET rows == RowsOfRequest(tx[w].fields.event_id) IN
     \/ /\ rows = {}
        /\ Return(w)
        /\ UNCHANGED ingest
     \/ /\ rows # {}
        /\ ingest' = [ingest EXCEPT ![w] =
             [pc |-> "publish", row |-> Max(rows), ok |-> FALSE]]
        /\ UNCHANGED vars
  /\ UNCHANGED <<event_delivery, topic, relay, failures, restarts>>

IngestPublish(w) ==
  /\ ingest[w].pc = "publish"
  /\ \E ok \in BOOLEAN :
       /\ Publish(ingest[w].row, ok)
       /\ ingest' = [ingest EXCEPT ![w].pc = "record", ![w].ok = ok]
  /\ UNCHANGED <<vars, event_delivery, relay, restarts>>

(* Defect: the answer of the publisher is dropped.                         *)
BugIngestRecord(w) ==
  /\ ingest[w].pc = "record"
  /\ event_delivery' = record_delivery(tx[w].event_seq, TRUE)
  /\ ingest' = [ingest EXCEPT ![w] = NoIngest]
  /\ Return(w)
  /\ UNCHANGED <<topic, relay, failures, restarts>>

IngestRecord(w) ==
  /\ ingest[w].pc = "record"
  /\ event_delivery' = record_delivery(tx[w].event_seq, ingest[w].ok)
  /\ ingest' = [ingest EXCEPT ![w] = NoIngest]
  /\ Return(w)
  /\ UNCHANGED <<topic, relay, failures, restarts>>

(* A database error in fetch_events or record_delivery: the request fails. *)
IngestFails(w) ==
  /\ tx[w].pc = "returned"
  /\ ingest[w].pc \in {"none", "record"}
  /\ ingest' = [ingest EXCEPT ![w] = NoIngest]
  /\ Return(w)
  /\ UNCHANGED <<event_delivery, topic, relay, failures, restarts>>

(* relay_loop: sleep, fetch a batch, then publish and record row by row,   *)
(* in ascending event_seq.                                                 *)
RelayFetch ==
  /\ relay.pc = "sleep"
  /\ fetch_unpublished(BatchLimit) # {}
  /\ relay' = [pc |-> "publish", batch |-> fetch_unpublished(BatchLimit), ok |-> FALSE]
  /\ UNCHANGED <<vars, event_delivery, topic, ingest, failures, restarts>>

RelayPublish ==
  /\ relay.pc = "publish"
  /\ \E ok \in BOOLEAN :
       /\ Publish(Min(relay.batch), ok)
       /\ relay' = [relay EXCEPT !.pc = "record", !.ok = ok]
  /\ UNCHANGED <<vars, event_delivery, ingest, restarts>>

RelayRecord ==
  LET rest == relay.batch \ {Min(relay.batch)} IN
  /\ relay.pc = "record"
  /\ event_delivery' = record_delivery(Min(relay.batch), relay.ok)
  /\ relay' = IF rest = {} THEN Sleeping
              ELSE [pc |-> "publish", batch |-> rest, ok |-> FALSE]
  /\ UNCHANGED <<vars, topic, ingest, failures, restarts>>

(* No exception is handled in relay_loop: a database error ends the task,  *)
(* and nothing starts it again but a restart of the process.               *)
RelayDies ==
  /\ relay.pc \in {"sleep", "record"}
  /\ relay' = [Sleeping EXCEPT !.pc = "dead"]
  /\ UNCHANGED <<vars, event_delivery, topic, ingest, failures, restarts>>

(* The process stops at any point and starts again: transactions roll      *)
(* back, requests and the relay's batch are lost.                          *)
Restart ==
  /\ restarts < MaxRestarts
  /\ restarts' = restarts + 1
  /\ tx' = [w \in Workers |-> Idle]
  /\ chainLock' = None
  /\ ingest' = [w \in Workers |-> NoIngest]
  /\ relay' = Sleeping
  /\ UNCHANGED <<events, identity, event_delivery, topic, failures>>

Relay == RelayFetch \/ RelayPublish \/ RelayRecord

DNext ==
  \/ \E w \in Workers : Append_event(w) /\ UNCHANGED deliveryVars
  \/ \E w \in Workers :
       IngestFetch(w) \/ IngestPublish(w) \/ IngestRecord(w) \/ IngestFails(w)
  \/ Relay
  \/ RelayDies
  \/ Restart

DSpec == DInit /\ [][DNext]_allVars

(* The event loop keeps running the relay task.                            *)
FairDSpec == DSpec /\ WF_allVars(Relay)

-----------------------------------------------------------------------------
(* A row of event_delivery is marked published only after a message was    *)
(* sent: its own, or, because ingest_audit_event looks its event up by     *)
(* request_id, that of a row whose request_id is this event's id.          *)
MarkedOnlyIfSent ==
  \A s \in DOMAIN event_delivery : Published(s) =>
    s \in topic \/ \E t \in topic : Row(t).fields.request_id = Row(s).fields.event_id

(* published_at is never lost, also when the failure of a slower attempt   *)
(* is recorded after the success of another.                               *)
PublishedForGood == [][\A s \in DOMAIN event_delivery : Published(s) => Published(s)']_allVars

(* At-least-once: as long as the relay task lives and fewer rows than a    *)
(* batch holds can never be sent, every other committed event is sent, or  *)
(* was marked published on account of another row.                         *)
EventuallySent ==
  \A s \in 1..MaxSeq :
    (s \in Committed /\ Sendable(s)) ~>
      (s \in topic \/ Published(s) \/ relay.pc = "dead")

=============================================================================
