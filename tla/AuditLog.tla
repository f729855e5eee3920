------------------------------ MODULE AuditLog ------------------------------
(***************************************************************************)
(* The hash-chained audit log of apexquant-audit: the table audit.events   *)
(* and the transaction PostgresAuditRepository.append_event runs on it,    *)
(* one statement per action, for any number of concurrent request threads  *)
(* that may lose their connection at any statement.                        *)
(*                                                                         *)
(* A SHA-256 digest is idealised as collision free: the hash of a chain is *)
(* the sequence of everything that was hashed into it.                     *)
(***************************************************************************)
EXTENDS Naturals, Sequences, FiniteSets

CONSTANTS Workers,    \* threads that run append_event (asyncio.to_thread)
          EventIds, Keys,
          Inputs,     \* the AuditFields clients submit
          NoKey,      \* idempotency_key IS NULL
          NoRequest,  \* request_id IS NULL
          None,       \* no worker, no fields
          MaxSeq      \* bound: the last value the identity column hands out

(* data as json.dumps writes it: a number that jsonb gives back unchanged, *)
(* a float of 1e16 or more (written 1e+16), and the integer that jsonb     *)
(* makes of such a float when it is read back (10000000000000000).         *)
Data == {"exact", "bigfloat", "bigint"}

AuditFields == [event_id        : EventIds,
                idempotency_key : Keys \cup {NoKey},
                request_id      : EventIds \cup {NoRequest},
                data            : Data]

ASSUME InputsAssumption ==
  /\ Inputs \subseteq AuditFields
  /\ NoKey \notin Keys
  /\ NoRequest \notin EventIds

ASSUME NoneAssumption == None \notin Workers /\ None \notin Inputs

ASSUME MaxSeqAssumption == MaxSeq \in Nat

VARIABLES events,     \* audit.events, committed rows in the order of commit
          identity,   \* the next value of the event_seq identity
          chainLock,  \* holder of pg_advisory_xact_lock('audit_chain')
          tx          \* the append_event each worker is in

vars == <<events, identity, chainLock, tx>>

-----------------------------------------------------------------------------
(* Hashing and the conversions of the INSERT.                              *)

GENESIS_HASH == << >>

(* The fields as the table returns them: jsonb stores a number, not its    *)
(* spelling.                                                               *)
stored(fields) ==
  [fields EXCEPT !.data = IF @ = "bigfloat" THEN "bigint" ELSE @]

compute_event_hash(fields, prev_hash) == Append(prev_hash, fields)

Hashes == Seq(Inputs)

Rows == [event_seq : Nat, fields : AuditFields,
         prev_hash : Hashes, event_hash : Hashes]

Steps == {"idle", "lock", "read", "insert", "select", "commit", "returned"}

Idle == [pc |-> "idle", fields |-> None, prev_hash |-> GENESIS_HASH, event_seq |-> 0]

-----------------------------------------------------------------------------
(* The committed table as a statement sees it.                             *)

(* ORDER BY event_seq DESC LIMIT 1                                         *)
IsLatest(i) == \A j \in 1..Len(events) : events[j].event_seq <= events[i].event_seq

LatestRow == CHOOSE i \in 1..Len(events) : IsLatest(i)

HeadHash == IF events = << >> THEN GENESIS_HASH ELSE events[LatestRow].event_hash

(* UNIQUE (event_id)                                                       *)
EventIdTaken(fields) ==
  \E i \in 1..Len(events) : events[i].fields.event_id = fields.event_id

(* audit_events_idempotency_uq, WHERE idempotency_key IS NOT NULL          *)
KeyTaken(fields) ==
  /\ fields.idempotency_key # NoKey
  /\ \E i \in 1..Len(events) :
       events[i].fields.idempotency_key = fields.idempotency_key

(* The table by its primary key.                                           *)
Committed == {events[i].event_seq : i \in 1..Len(events)}

Row(seq) == events[CHOOSE i \in 1..Len(events) : events[i].event_seq = seq]

Unlocked(w) == IF chainLock = w THEN None ELSE chainLock

-----------------------------------------------------------------------------
Init ==
  /\ events = << >>
  /\ identity = 1
  /\ chainLock = None
  /\ tx = [w \in Workers |-> Idle]

(* A request thread enters append_event and opens the transaction.         *)
BeginAppend(w, f) ==
  /\ tx[w].pc = "idle"
  /\ tx' = [tx EXCEPT ![w].pc = "lock", ![w].fields = f]
  /\ UNCHANGED <<events, identity, chainLock>>

(* Defect: the chain lock is not waited for.                              *)
BugLockChain(w) ==
  /\ tx[w].pc = "lock"
  /\ chainLock' = w
  /\ tx' = [tx EXCEPT ![w].pc = "read"]
  /\ UNCHANGED <<events, identity>>

(* SELECT pg_advisory_xact_lock(hashtext('audit_chain'))                   *)
LockChain(w) ==
  /\ tx[w].pc = "lock"
  /\ chainLock = None
  /\ chainLock' = w
  /\ tx' = [tx EXCEPT ![w].pc = "read"]
  /\ UNCHANGED <<events, identity>>

(* READ COMMITTED: the statement sees what is committed when it starts.    *)
ReadHead(w) ==
  /\ tx[w].pc = "read"
  /\ tx' = [tx EXCEPT ![w].pc = "insert", ![w].prev_hash = HeadHash]
  /\ UNCHANGED <<events, identity, chainLock>>

(* Defect: the lock is given up before the row is visible to others.       *)
BugInsert(w) ==
  /\ tx[w].pc = "insert"
  /\ identity <= MaxSeq
  /\ identity' = identity + 1
  /\ ~EventIdTaken(tx[w].fields)
  /\ tx' = [tx EXCEPT ![w].pc = "commit", ![w].event_seq = identity]
  /\ chainLock' = Unlocked(w)
  /\ UNCHANGED events

(* INSERT ... ON CONFLICT (event_id) DO NOTHING.  The identity value is    *)
(* drawn before the conflict is found and is not given back by a conflict  *)
(* or a rollback.  A second row with the same idempotency key is an        *)
(* exception: the transaction rolls back and the request fails.            *)
Insert(w) ==
  /\ tx[w].pc = "insert"
  /\ identity <= MaxSeq
  /\ identity' = identity + 1
  /\ UNCHANGED events
  /\ \/ /\ EventIdTaken(tx[w].fields)
        /\ tx' = [tx EXCEPT ![w].pc = "select"]
        /\ UNCHANGED chainLock
     \/ /\ ~EventIdTaken(tx[w].fields)
        /\ KeyTaken(tx[w].fields)
        /\ tx' = [tx EXCEPT ![w] = Idle]
        /\ chainLock' = Unlocked(w)
     \/ /\ ~EventIdTaken(tx[w].fields)
        /\ ~KeyTaken(tx[w].fields)
        /\ tx' = [tx EXCEPT ![w].pc = "commit", ![w].event_seq = identity]
        /\ UNCHANGED chainLock

(* The row becomes visible and the transaction's lock is released.         *)
CommitRow(w) ==
  /\ tx[w].pc = "commit"
  /\ events' = Append(events,
       [event_seq  |-> tx[w].event_seq,
        fields     |-> stored(tx[w].fields),
        prev_hash  |-> tx[w].prev_hash,
        event_hash |-> compute_event_hash(tx[w].fields, tx[w].prev_hash)])
  /\ chainLock' = Unlocked(w)
  /\ tx' = [tx EXCEPT ![w].pc = "returned"]
  /\ UNCHANGED identity

(* Defect: the record of the attempt is returned, not the existing row's.  *)
BugSelectExisting(w) ==
  /\ tx[w].pc = "select"
  /\ tx' = [tx EXCEPT ![w].pc = "returned", ![w].event_seq = identity - 1]
  /\ chainLock' = Unlocked(w)
  /\ UNCHANGED <<events, identity>>

(* The event was there already: return the row that holds its event id.    *)
SelectExisting(w) ==
  /\ tx[w].pc = "select"
  /\ \E i \in 1..Len(events) :
       /\ events[i].fields.event_id = tx[w].fields.event_id
       /\ tx' = [tx EXCEPT ![w].pc = "returned", ![w].event_seq = events[i].event_seq]
  /\ chainLock' = Unlocked(w)
  /\ UNCHANGED <<events, identity>>

(* The connection or the process is lost before the commit: rollback.      *)
Abort(w) ==
  /\ tx[w].pc \in {"lock", "read", "insert", "select", "commit"}
  /\ tx' = [tx EXCEPT ![w] = Idle]
  /\ chainLock' = Unlocked(w)
  /\ UNCHANGED <<events, identity>>

(* append_event has returned its AuditEventRecord and the caller is done.  *)
Return(w) ==
  /\ tx[w].pc = "returned"
  /\ tx' = [tx EXCEPT ![w] = Idle]
  /\ UNCHANGED <<events, identity, chainLock>>

Append_event(w) ==
  \/ \E f \in Inputs : BeginAppend(w, f)
  \/ LockChain(w)
  \/ ReadHead(w)
  \/ Insert(w)
  \/ CommitRow(w)
  \/ SelectExisting(w)
  \/ Abort(w)

Next == \E w \in Workers : Append_event(w) \/ Return(w)

Spec == Init /\ [][Next]_vars

-----------------------------------------------------------------------------
(* Every variable has the shape the table and the transaction give it.     *)
TypeOK ==
  /\ events \in Seq(Rows)
  /\ identity \in Nat \ {0}
  /\ chainLock \in Workers \cup {None}
  /\ tx \in [Workers -> [pc : Steps, fields : Inputs \cup {None},
                         prev_hash : Hashes, event_seq : Nat]]

(* Rows become visible in the order of their event_seq, although identity  *)
(* values are drawn outside of any transaction and may be burnt: somebody  *)
(* who tails the table by event_seq never has a row appear behind it.      *)
SeqOrdered ==
  \A i, j \in 1..Len(events) : i < j => events[i].event_seq < events[j].event_seq

(* Two rows of concurrent append_event calls never share a predecessor:    *)
(* each row is linked to the row committed just before it.                 *)
ChainLinked ==
  \A i \in 1..Len(events) :
    events[i].prev_hash = IF i = 1 THEN GENESIS_HASH ELSE events[i-1].event_hash

(* The record append_event returns, also for an event that was recorded by *)
(* an earlier attempt, names a committed row with the event id submitted.  *)
RecordNamesRow ==
  \A w \in Workers : tx[w].pc = "returned" =>
    \E i \in 1..Len(events) :
      /\ events[i].event_seq = tx[w].event_seq
      /\ events[i].fields.event_id = tx[w].fields.event_id

(* The log implements the ledger, read off the hash of the latest row: it  *)
(* is never forked, cut or rewritten, whatever the interleaving.           *)
Ledger == INSTANCE AuditLedger WITH ledger <- HeadHash
LedgerSpec == Ledger!Spec

=============================================================================
