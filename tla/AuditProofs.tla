----------------------------- MODULE AuditProofs -----------------------------
(***************************************************************************)
(* Proofs about the audit service for every set of workers, events and     *)
(* keys.  AuditLog: the chain is never forked, rows become visible in the  *)
(* order of event_seq, and the log implements AuditLedger.  AuditDelivery: *)
(* a row is marked published only on account of a send.  AuditVerify: no   *)
(* false alarm, and no tampering or removal that goes unreported.          *)
(***************************************************************************)
EXTENDS AuditDelivery, AuditVerify, SequenceTheorems,
        FiniteSetTheorems, WellFoundedInduction, TLAPS

(* The hash of the row committed last.                                     *)
LastHash == IF events = << >> THEN GENESIS_HASH ELSE events[Len(events)].event_hash

(* A transaction past its first statement holds the chain lock.            *)
LockHeld ==
  \A w \in Workers : tx[w].pc \in {"read", "insert", "select", "commit"} => chainLock = w

HasFields == \A w \in Workers : tx[w].pc # "idle" => tx[w].fields \in Inputs

(* Identity values in use are behind the counter, and the one of a row to  *)
(* be committed is ahead of the table.                                     *)
SeqBelow ==
  /\ \A i \in 1..Len(events) : events[i].event_seq < identity
  /\ \A w \in Workers : tx[w].pc = "commit" =>
       /\ tx[w].event_seq < identity
       /\ \A i \in 1..Len(events) : events[i].event_seq < tx[w].event_seq

(* What the transaction read is still the head when it commits.            *)
HeadRead ==
  \A w \in Workers : tx[w].pc \in {"insert", "commit"} => tx[w].prev_hash = LastHash

(* What the INSERT found to be free is still free at the commit.           *)
StillFresh ==
  \A w \in Workers : tx[w].pc = "commit" =>
    ~EventIdTaken(tx[w].fields) /\ ~KeyTaken(tx[w].fields)

(* The hash of row i was computed over the first i events, in order.       *)
HashCoversPrefix ==
  \A i \in 1..Len(events) :
    /\ Len(events[i].event_hash) = i
    /\ \A j \in 1..i : events[j].fields = stored(events[i].event_hash[j])

IndInv ==
  /\ TypeOK
  /\ LockHeld
  /\ HasFields
  /\ SeqBelow
  /\ HeadRead
  /\ StillFresh
  /\ SeqOrdered
  /\ ChainLinked
  /\ HashCoversPrefix

-----------------------------------------------------------------------------
(* Every row has a sequence number.                                        *)
LEMMA SeqIsNat ==
  ASSUME TypeOK
  PROVE  \A i \in 1..Len(events) : events[i].event_seq \in Nat
<1>1. events \in Seq(Rows)
  BY DEF TypeOK
<1>2. \A i \in 1..Len(events) : events[i] \in Rows
  BY <1>1, ElementOfSeq
<1> QED BY <1>2 DEF Rows

(* With rows in the order of event_seq, the row ORDER BY event_seq DESC    *)
(* LIMIT 1 returns is the one committed last.                              *)
LEMMA HeadIsLast ==
  ASSUME TypeOK, SeqOrdered
  PROVE  HeadHash = LastHash
<1>1. CASE events = << >>
  BY <1>1 DEF HeadHash, LastHash
<1>2. CASE events # << >>
  <2>0. events \in Seq(Rows)
    BY DEF TypeOK
  <2>1. Len(events) \in Nat \ {0} /\ \A i \in 1..Len(events) : events[i].event_seq \in Nat
    <3>1. Len(events) \in Nat \ {0}
      BY <1>2, <2>0, EmptySeq
    <3> QED BY <3>1, SeqIsNat
  <2>2. IsLatest(Len(events))
    BY <2>1 DEF IsLatest, SeqOrdered
  <2>3. \A i \in 1..Len(events) : IsLatest(i) => i = Len(events)
    <3> SUFFICES ASSUME NEW i \in 1..Len(events), IsLatest(i), i # Len(events)
                 PROVE  FALSE
      OBVIOUS
    <3>1. events[i].event_seq < events[Len(events)].event_seq
      BY <2>1 DEF SeqOrdered
    <3>2. events[Len(events)].event_seq <= events[i].event_seq
      BY <2>1 DEF IsLatest
    <3> QED BY <2>1, <3>1, <3>2
  <2>4. LatestRow = Len(events)
    BY <2>1, <2>2, <2>3 DEF LatestRow
  <2> QED BY <1>2, <2>4 DEF HeadHash, LastHash
<1> QED BY <1>1, <1>2

(* The conversion of the INSERT leaves the columns of the unique indexes   *)
(* alone.                                                                  *)
LEMMA StoredFields ==
  ASSUME NEW f \in AuditFields
  PROVE  /\ stored(f) \in AuditFields
         /\ stored(f).event_id = f.event_id
         /\ stored(f).idempotency_key = f.idempotency_key
BY DEF stored, AuditFields, Data

-----------------------------------------------------------------------------
(* The empty table and idle workers satisfy the invariant.                 *)
LEMMA InitIndInv == Init => IndInv
<1> SUFFICES ASSUME Init PROVE IndInv
  OBVIOUS
<1> USE DEF Init, Idle, GENESIS_HASH
<1>1. events = << >> /\ Len(events) = 0 /\ 1..Len(events) = {}
  OBVIOUS
<1>2. TypeOK
  BY EmptySeq DEF TypeOK, Steps, Hashes
<1>3. LockHeld /\ HasFields /\ SeqBelow /\ HeadRead /\ StillFresh
  BY <1>1 DEF LockHeld, HasFields, SeqBelow, HeadRead, StillFresh
<1>4. SeqOrdered /\ ChainLinked /\ HashCoversPrefix
  BY <1>1 DEF SeqOrdered, ChainLinked, HashCoversPrefix
<1> QED BY <1>2, <1>3, <1>4 DEF IndInv

(* A step of one worker that leaves the table alone keeps the parts of the *)
(* invariant that speak of the table only.                                 *)
LEMMA TableUnchanged ==
  ASSUME IndInv, UNCHANGED events
  PROVE  /\ SeqOrdered' /\ ChainLinked' /\ HashCoversPrefix'
         /\ LastHash' = LastHash
BY DEF IndInv, SeqOrdered, ChainLinked, HashCoversPrefix, LastHash

(* The commit: the new row is linked to the row that was last, and is the  *)
(* last row now.                                                           *)
LEMMA CommitIndInv ==
  ASSUME IndInv, NEW w \in Workers, CommitRow(w)
  PROVE  IndInv'
<1> DEFINE n == Len(events)
           h == compute_event_hash(tx[w].fields, tx[w].prev_hash)
           row == [event_seq |-> tx[w].event_seq, fields |-> stored(tx[w].fields),
                   prev_hash |-> tx[w].prev_hash, event_hash |-> h]
<1>1. /\ tx[w].pc = "commit" /\ chainLock = w
      /\ tx[w].fields \in Inputs /\ tx[w].event_seq \in Nat /\ tx[w].prev_hash \in Hashes
      /\ tx[w].prev_hash = LastHash
  BY DEF IndInv, CommitRow, LockHeld, HasFields, HeadRead, TypeOK
<1>2. tx[w].fields \in AuditFields
  BY <1>1, InputsAssumption
<1>3. events \in Seq(Rows) /\ n \in Nat /\ \A i \in 1..n : events[i] \in Rows
  <2>1. events \in Seq(Rows)
    BY DEF IndInv, TypeOK
  <2> QED BY <2>1, LenProperties, ElementOfSeq
<1>4. /\ h \in Hashes /\ Len(h) = Len(tx[w].prev_hash) + 1
      /\ h[Len(h)] = tx[w].fields
      /\ \A j \in 1..Len(tx[w].prev_hash) : h[j] = tx[w].prev_hash[j]
  BY <1>1 DEF compute_event_hash, Hashes
<1>5. row \in Rows
  BY <1>1, <1>2, <1>4, StoredFields DEF Rows
<1>6. events' = Append(events, row)
  BY DEF CommitRow
<1> HIDE DEF h, row
<1>7. /\ events' \in Seq(Rows) /\ Len(events') = n + 1
      /\ events'[n+1] = row /\ \A i \in 1..n : events'[i] = events[i]
  BY <1>3, <1>5, <1>6
<1>8. \A v \in Workers : v # w => tx[v].pc \notin {"read", "insert", "select", "commit"}
  BY <1>1 DEF IndInv, LockHeld
<1>9. /\ tx' = [tx EXCEPT ![w].pc = "returned"]
      /\ chainLock' = None /\ identity' = identity
  BY <1>1 DEF CommitRow, Unlocked
<1>10. \A v \in Workers : tx'[v].pc \notin {"read", "insert", "select", "commit"}
  BY <1>8, <1>9 DEF IndInv, TypeOK
<1>11. row.event_seq = tx[w].event_seq /\ row.fields = stored(tx[w].fields)
       /\ row.prev_hash = tx[w].prev_hash /\ row.event_hash = h
  BY DEF row
<1>12. TypeOK'
  BY <1>7, <1>9 DEF IndInv, TypeOK, Steps
<1>13. LockHeld' /\ HeadRead' /\ StillFresh'
  BY <1>10 DEF LockHeld, HeadRead, StillFresh
<1>14. HasFields'
  BY <1>1, <1>9 DEF IndInv, TypeOK, HasFields
<1>15. \A i \in 1..n : events[i].event_seq < tx[w].event_seq
  BY <1>1 DEF IndInv, SeqBelow
<1>16. SeqBelow'
  <2>1. tx[w].event_seq < identity /\ \A i \in 1..n : events[i].event_seq < identity
    BY <1>1 DEF IndInv, SeqBelow
  <2>2. \A i \in 1..n+1 : events'[i].event_seq < identity
    BY <1>3, <1>7, <1>11, <2>1
  <2> QED BY <1>7, <1>9, <1>10, <2>2 DEF SeqBelow
<1>17. SeqOrdered'
  <2>1. \A i, j \in 1..n : i < j => events[i].event_seq < events[j].event_seq
    BY DEF IndInv, SeqOrdered
  <2>2. \A i, j \in 1..n+1 : i < j => events'[i].event_seq < events'[j].event_seq
    BY <1>3, <1>7, <1>11, <1>15, <2>1
  <2> QED BY <1>7, <2>2 DEF SeqOrdered
<1>18. ChainLinked'
  <2> SUFFICES ASSUME NEW i \in 1..n+1
               PROVE  events'[i].prev_hash = IF i = 1 THEN GENESIS_HASH ELSE events'[i-1].event_hash
    BY <1>7 DEF ChainLinked
  <2>1. CASE i \in 1..n
    <3>1. events[i].prev_hash = IF i = 1 THEN GENESIS_HASH ELSE events[i-1].event_hash
      BY <2>1 DEF IndInv, ChainLinked
    <3>2. i # 1 => events'[i-1] = events[i-1]
      BY <1>3, <1>7, <2>1
    <3> QED BY <1>7, <2>1, <3>1, <3>2
  <2>2. CASE i = n + 1
    <3>1. events'[i].prev_hash = LastHash
      BY <1>1, <1>7, <1>11, <2>2
    <3>2. CASE n = 0
      <4>1. events = << >>
        BY <1>3, <3>2, EmptySeq
      <4> QED BY <2>2, <3>1, <3>2, <4>1 DEF LastHash
    <3>3. CASE n # 0
      <4>1. events # << >>
        BY <3>3
      <4>2. n \in 1..n /\ events'[n] = events[n]
        BY <1>3, <1>7, <3>3
      <4> QED BY <1>3, <2>2, <3>1, <3>3, <4>1, <4>2 DEF LastHash
    <3> QED BY <3>2, <3>3
  <2> QED BY <1>3, <2>1, <2>2
<1>19. Len(tx[w].prev_hash) = n
       /\ \A j \in 1..n : events[j].fields = stored(tx[w].prev_hash[j])
  <2>1. CASE n = 0
    <3>1. events = << >>
      BY <1>3, <2>1, EmptySeq
    <3> QED BY <1>1, <2>1, <3>1 DEF LastHash, GENESIS_HASH
  <2>2. CASE n # 0
    <3>1. n \in 1..n /\ events # << >>
      BY <1>3, <2>2
    <3> QED BY <1>1, <3>1 DEF LastHash, IndInv, HashCoversPrefix
  <2> QED BY <2>1, <2>2
<1>20. HashCoversPrefix'
  <2> SUFFICES ASSUME NEW i \in 1..n+1
               PROVE  /\ Len(events'[i].event_hash) = i
                      /\ \A j \in 1..i : events'[j].fields = stored(events'[i].event_hash[j])
    BY <1>7 DEF HashCoversPrefix
  <2>1. CASE i \in 1..n
    <3>1. /\ Len(events[i].event_hash) = i
          /\ \A j \in 1..i : events[j].fields = stored(events[i].event_hash[j])
      BY <2>1 DEF IndInv, HashCoversPrefix
    <3>2. \A j \in 1..i : j \in 1..n
      BY <1>3, <2>1
    <3> QED BY <1>7, <2>1, <3>1, <3>2
  <2>2. CASE i = n + 1
    <3>1. events'[i].event_hash = h /\ Len(h) = i
      BY <1>4, <1>7, <1>11, <1>19, <2>2
    <3>2. \A j \in 1..n : events'[j].fields = stored(h[j])
      BY <1>4, <1>7, <1>19
    <3>3. events'[i].fields = stored(h[i])
      BY <1>4, <1>7, <1>11, <2>2, <3>1
    <3> QED BY <1>3, <2>2, <3>1, <3>2, <3>3
  <2> QED BY <1>3, <2>1, <2>2
<1> QED BY <1>12, <1>13, <1>14, <1>16, <1>17, <1>18, <1>20 DEF IndInv

(* Every other statement of append_event leaves the table alone.           *)
LEMMA StepIndInv == IndInv /\ [Next]_vars => IndInv'
<1> SUFFICES ASSUME IndInv, [Next]_vars PROVE IndInv'
  OBVIOUS
<1> USE DEF Steps
<1>0. CASE UNCHANGED vars
  BY <1>0 DEF vars, IndInv, TypeOK, LockHeld, HasFields, SeqBelow, HeadRead, StillFresh,
     SeqOrdered, ChainLinked, HashCoversPrefix, LastHash, EventIdTaken, KeyTaken
<1>1. ASSUME NEW w \in Workers, NEW f \in Inputs, BeginAppend(w, f)
      PROVE  IndInv'
  <2>1. TypeOK' /\ LockHeld' /\ HasFields' /\ SeqBelow' /\ StillFresh'
    BY <1>1 DEF BeginAppend, IndInv, TypeOK, LockHeld, HasFields, SeqBelow, StillFresh,
       EventIdTaken, KeyTaken
  <2>2. UNCHANGED events
    BY <1>1 DEF BeginAppend
  <2>3. HeadRead'
    BY <1>1, <2>2, TableUnchanged DEF BeginAppend, IndInv, TypeOK, HeadRead
  <2> QED BY <2>1, <2>2, <2>3, TableUnchanged DEF IndInv
<1>2. ASSUME NEW w \in Workers, LockChain(w)
      PROVE  IndInv'
  <2>1. \A v \in Workers : tx[v].pc \notin {"read", "insert", "select", "commit"}
    BY <1>2, NoneAssumption DEF LockChain, IndInv, LockHeld
  <2>2. TypeOK' /\ LockHeld' /\ HasFields' /\ SeqBelow' /\ StillFresh'
    BY <1>2, <2>1 DEF LockChain, IndInv, TypeOK, LockHeld, HasFields, SeqBelow, StillFresh
  <2>3. UNCHANGED events
    BY <1>2 DEF LockChain
  <2>4. HeadRead'
    BY <1>2, <2>1 DEF LockChain, IndInv, TypeOK, HeadRead
  <2> QED BY <2>2, <2>3, <2>4, TableUnchanged DEF IndInv
<1>3. ASSUME NEW w \in Workers, ReadHead(w)
      PROVE  IndInv'
  <2>1. HeadHash = LastHash
    BY HeadIsLast DEF IndInv
  <2>2. LastHash \in Hashes
    <3>1. CASE events = << >>
      BY <3>1, EmptySeq DEF LastHash, GENESIS_HASH, Hashes
    <3>2. CASE events # << >>
      <4>1. Len(events) \in 1..Len(events) /\ events[Len(events)] \in Rows
        BY <3>2, EmptySeq, ElementOfSeq DEF IndInv, TypeOK
      <4> QED BY <3>2, <4>1 DEF LastHash, Rows
    <3> QED BY <3>1, <3>2
  <2>3. UNCHANGED events
    BY <1>3 DEF ReadHead
  <2>4. TypeOK'
    BY <1>3, <2>1, <2>2 DEF ReadHead, IndInv, TypeOK
  <2>5. LockHeld' /\ HasFields' /\ SeqBelow' /\ StillFresh'
    BY <1>3 DEF ReadHead, IndInv, TypeOK, LockHeld, HasFields, SeqBelow, StillFresh,
       EventIdTaken, KeyTaken
  <2>6. HeadRead'
    BY <1>3, <2>1, <2>3, TableUnchanged DEF ReadHead, IndInv, TypeOK, HeadRead
  <2> QED BY <2>3, <2>4, <2>5, <2>6, TableUnchanged DEF IndInv
<1>4. ASSUME NEW w \in Workers, Insert(w)
      PROVE  IndInv'
  <2>1. UNCHANGED events /\ tx[w].pc = "insert" /\ identity' = identity + 1 /\ chainLock = w
    BY <1>4 DEF Insert, IndInv, LockHeld
  <2>2. \A v \in Workers : v # w => tx[v].pc \notin {"read", "insert", "select", "commit"}
    BY <2>1 DEF IndInv, LockHeld
  <2>3. \A i \in 1..Len(events) : events[i].event_seq \in Nat
    BY SeqIsNat DEF IndInv
  <2>4. CASE tx' = [tx EXCEPT ![w].pc = "select"] /\ UNCHANGED chainLock
    <3>1. TypeOK' /\ LockHeld' /\ HasFields' /\ StillFresh'
      BY <2>1, <2>2, <2>4 DEF IndInv, TypeOK, LockHeld, HasFields, StillFresh
    <3>2. SeqBelow'
      BY <2>1, <2>2, <2>3, <2>4 DEF IndInv, TypeOK, SeqBelow
    <3>3. HeadRead'
      BY <2>1, <2>2, <2>4 DEF IndInv, TypeOK, HeadRead
    <3> QED BY <2>1, <3>1, <3>2, <3>3, TableUnchanged DEF IndInv
  <2>5. CASE tx' = [tx EXCEPT ![w] = Idle] /\ chainLock' = Unlocked(w)
    <3>0. Idle \in [pc : Steps, fields : Inputs \cup {None}, prev_hash : Hashes, event_seq : Nat]
          /\ Idle.pc = "idle"
      BY EmptySeq DEF Idle, GENESIS_HASH, Hashes
    <3>1. TypeOK'
      BY <2>1, <2>5, <3>0 DEF IndInv, TypeOK, Unlocked
    <3>2. LockHeld' /\ HasFields' /\ StillFresh' /\ HeadRead'
      BY <2>1, <2>2, <2>5, <3>0 DEF IndInv, TypeOK, LockHeld, HasFields, StillFresh, HeadRead
    <3>3. SeqBelow'
      BY <2>1, <2>2, <2>3, <2>5, <3>0 DEF IndInv, TypeOK, SeqBelow
    <3> QED BY <2>1, <3>1, <3>2, <3>3, TableUnchanged DEF IndInv
  <2>6. CASE /\ ~EventIdTaken(tx[w].fields) /\ ~KeyTaken(tx[w].fields)
             /\ tx' = [tx EXCEPT ![w].pc = "commit", ![w].event_seq = identity]
             /\ UNCHANGED chainLock
    <3>0. TypeOK'
      <4> DEFINE R == [pc : Steps, fields : Inputs \cup {None},
                       prev_hash : Hashes, event_seq : Nat]
      <4>1. tx \in [Workers -> R] /\ identity \in Nat \ {0}
        BY DEF IndInv, TypeOK
      <4>2. [tx[w] EXCEPT !.pc = "commit", !.event_seq = identity] \in R
        BY <4>1
      <4>3. tx' = [tx EXCEPT ![w] = [tx[w] EXCEPT !.pc = "commit", !.event_seq = identity]]
        BY <2>6
      <4>4. tx' \in [Workers -> R]
        BY <4>1, <4>2, <4>3
      <4> QED BY <2>1, <2>6, <4>1, <4>4 DEF IndInv, TypeOK
    <3>1. LockHeld' /\ HasFields'
      BY <2>1, <2>2, <2>6 DEF IndInv, TypeOK, LockHeld, HasFields
    <3>2. StillFresh'
      BY <2>1, <2>2, <2>6 DEF IndInv, TypeOK, StillFresh, EventIdTaken, KeyTaken
    <3>3. SeqBelow'
      BY <2>1, <2>2, <2>3, <2>6 DEF IndInv, TypeOK, SeqBelow
    <3>4. HeadRead'
      BY <2>1, <2>2, <2>6, TableUnchanged DEF IndInv, TypeOK, HeadRead
    <3> QED BY <2>1, <3>0, <3>1, <3>2, <3>3, <3>4, TableUnchanged DEF IndInv
  <2> QED BY <1>4, <2>4, <2>5, <2>6 DEF Insert
<1>5. ASSUME NEW w \in Workers, CommitRow(w)
      PROVE  IndInv'
  BY <1>5, CommitIndInv
<1>6. ASSUME NEW w \in Workers, SelectExisting(w)
      PROVE  IndInv'
  <2>1. PICK i \in 1..Len(events) :
          tx' = [tx EXCEPT ![w].pc = "returned", ![w].event_seq = events[i].event_seq]
    BY <1>6 DEF SelectExisting
  <2>2. events[i].event_seq \in Nat
    BY SeqIsNat DEF IndInv
  <2>3. UNCHANGED <<events, identity>> /\ chainLock' = None /\ chainLock = w /\ tx[w].pc = "select"
    BY <1>6 DEF SelectExisting, IndInv, LockHeld, Unlocked
  <2>4. \A v \in Workers : v # w => tx[v].pc \notin {"read", "insert", "select", "commit"}
    BY <2>3 DEF IndInv, LockHeld
  <2>5. TypeOK' /\ LockHeld' /\ HasFields' /\ StillFresh' /\ HeadRead' /\ SeqBelow'
    BY <2>1, <2>2, <2>3, <2>4
    DEF IndInv, TypeOK, LockHeld, HasFields, StillFresh, HeadRead, SeqBelow
  <2> QED BY <2>3, <2>5, TableUnchanged DEF IndInv
<1>7. ASSUME NEW w \in Workers, Abort(w) \/ Return(w)
      PROVE  IndInv'
  <2>1. /\ UNCHANGED <<events, identity>>
        /\ tx' = [tx EXCEPT ![w] = Idle]
        /\ chainLock' = chainLock \/ (chainLock = w /\ chainLock' = None)
    BY <1>7 DEF Abort, Return, Unlocked
  <2>2. Idle \in [pc : Steps, fields : Inputs \cup {None}, prev_hash : Hashes, event_seq : Nat]
        /\ Idle.pc = "idle"
    BY EmptySeq DEF Idle, GENESIS_HASH, Hashes
  <2>3. TypeOK' /\ LockHeld' /\ HasFields' /\ SeqBelow'
    BY <2>1, <2>2 DEF IndInv, TypeOK, LockHeld, HasFields, SeqBelow
  <2>4. StillFresh'
    BY <2>1, <2>2 DEF IndInv, TypeOK, StillFresh, EventIdTaken, KeyTaken
  <2>5. HeadRead'
    BY <2>1, <2>2, TableUnchanged DEF IndInv, TypeOK, HeadRead
  <2> QED BY <2>1, <2>3, <2>4, <2>5, TableUnchanged DEF IndInv
<1> QED BY <1>0, <1>1, <1>2, <1>3, <1>4, <1>5, <1>6, <1>7 DEF Next, Append_event

-----------------------------------------------------------------------------
(* The inductive invariant holds of every reachable state.                 *)
THEOREM Invariance == Spec => []IndInv
BY InitIndInv, StepIndInv, PTL DEF Spec

(* append_event keeps the table and its own local values well typed.       *)
THEOREM TypeCorrect == Spec => []TypeOK
<1>1. IndInv => TypeOK
  BY DEF IndInv
<1> QED BY <1>1, Invariance, PTL

(* Concurrent append_event calls never fork the hash chain.                *)
THEOREM ChainNeverForks == Spec => []ChainLinked
<1>1. IndInv => ChainLinked
  BY DEF IndInv
<1> QED BY <1>1, Invariance, PTL

(* Rows of audit.events become visible in the order of event_seq.          *)
THEOREM RowsCommitInOrder == Spec => []SeqOrdered
<1>1. IndInv => SeqOrdered
  BY DEF IndInv
<1> QED BY <1>1, Invariance, PTL

(* Every statement of append_event leaves the ledger alone or records one  *)
(* fresh event.                                                            *)
LEMMA LedgerStep ==
  ASSUME IndInv, IndInv', [Next]_vars
  PROVE  [Ledger!Next]_HeadHash
<1>1. HeadHash = LastHash /\ HeadHash' = LastHash'
  <2>1. HeadHash = LastHash
    BY HeadIsLast DEF IndInv
  <2>2. (TypeOK /\ SeqOrdered => HeadHash = LastHash)'
    BY HeadIsLast, PTL
  <2> QED BY <2>1, <2>2 DEF IndInv
<1>2. CASE UNCHANGED events
  BY <1>1, <1>2, TableUnchanged
<1>3. ASSUME NEW w \in Workers, CommitRow(w)
      PROVE  Ledger!Next
  <2> DEFINE f == tx[w].fields
             n == Len(events)
  <2>1. /\ tx[w].pc = "commit" /\ f \in Inputs /\ f \in AuditFields
        /\ tx[w].prev_hash = LastHash
        /\ ~EventIdTaken(f) /\ ~KeyTaken(f)
    BY <1>3, InputsAssumption DEF IndInv, CommitRow, HasFields, HeadRead, StillFresh
  <2>2. LastHash' = Append(LastHash, f)
    <3>1. events \in Seq(Rows) /\ n \in Nat
      BY LenProperties DEF IndInv, TypeOK
    <3>2. events' \in Seq(Rows)
      BY DEF IndInv, TypeOK
    <3>3. events' # << >> /\ Len(events') = n + 1
          /\ events'[n+1].event_hash = Append(LastHash, f)
      BY <1>3, <2>1, <3>1, <3>2 DEF CommitRow, compute_event_hash
    <3> QED BY <3>3 DEF LastHash
  <2>3. /\ LastHash \in Seq(Inputs) /\ Len(LastHash) = n
        /\ \A j \in 1..n : events[j].fields = stored(LastHash[j])
    <3>0. events \in Seq(Rows) /\ n \in Nat
      BY LenProperties DEF IndInv, TypeOK
    <3>1. LastHash \in Seq(Inputs)
      BY <2>1 DEF IndInv, TypeOK, Hashes
    <3>2. CASE n = 0
      <4>1. events = << >>
        BY <3>0, <3>2, EmptySeq
      <4> QED BY <3>1, <3>2, <4>1 DEF LastHash, GENESIS_HASH
    <3>3. CASE n # 0
      <4>1. n \in 1..n /\ events # << >>
        BY <3>0, <3>3
      <4> QED BY <3>1, <4>1 DEF LastHash, IndInv, HashCoversPrefix
    <3> QED BY <3>2, <3>3
  <2>4. Ledger!Fresh(LastHash, f)
    <3> SUFFICES ASSUME NEW j \in 1..n
                 PROVE  /\ LastHash[j].event_id # f.event_id
                        /\ f.idempotency_key = NoKey
                           \/ LastHash[j].idempotency_key # f.idempotency_key
      BY <2>3 DEF Ledger!Fresh
    <3>1. LastHash[j] \in AuditFields
      BY <2>3, ElementOfSeq, InputsAssumption
    <3>2. /\ events[j].fields.event_id = LastHash[j].event_id
          /\ events[j].fields.idempotency_key = LastHash[j].idempotency_key
      BY <2>3, <3>1, StoredFields
    <3> QED BY <2>1, <3>2 DEF EventIdTaken, KeyTaken
  <2>5. Ledger!Record(f)
    BY <1>1, <2>2, <2>4 DEF Ledger!Record
  <2> QED BY <2>1, <2>5 DEF Ledger!Next
<1>4. UNCHANGED events \/ \E w \in Workers : CommitRow(w)
  BY DEF Next, Append_event, vars, BeginAppend, LockChain, ReadHead, Insert,
     SelectExisting, Abort, Return
<1> QED BY <1>2, <1>3, <1>4

(* The hash-chained log implements the append-only ledger: what the latest *)
(* row's hash covers grows by one fresh event at a time.                   *)
THEOREM LogImplementsLedger == Spec => LedgerSpec
<1>1. Init => Ledger!Init
  BY DEF Init, Ledger!Init, HeadHash, GENESIS_HASH
<1>2. IndInv /\ IndInv' /\ [Next]_vars => [Ledger!Next]_HeadHash
  BY LedgerStep
<1> QED BY <1>1, <1>2, Invariance, PTL DEF Spec, LedgerSpec, Ledger!Spec

(* Whatever statement runs, a record that was returned goes on naming its   *)
(* row.                                                                    *)
LEMMA RecordNamesRowStep ==
  ASSUME IndInv, RecordNamesRow, [Next]_vars
  PROVE  RecordNamesRow'
<1> SUFFICES ASSUME NEW v \in Workers, tx'[v].pc = "returned"
             PROVE  \E i \in 1..Len(events') :
                      /\ events'[i].event_seq = tx'[v].event_seq
                      /\ events'[i].fields.event_id = tx'[v].fields.event_id
  BY DEF RecordNamesRow
<1>1. CASE tx'[v] = tx[v] /\ UNCHANGED events
  BY <1>1 DEF RecordNamesRow
<1>2. ASSUME NEW w \in Workers, CommitRow(w)
      PROVE  \E i \in 1..Len(events') :
               /\ events'[i].event_seq = tx'[v].event_seq
               /\ events'[i].fields.event_id = tx'[v].fields.event_id
  <2> DEFINE n == Len(events)
  <2>1. events \in Seq(Rows) /\ n \in Nat
    BY LenProperties DEF IndInv, TypeOK
  <2>2. /\ Len(events') = n + 1 /\ \A i \in 1..n : events'[i] = events[i]
        /\ events'[n+1].event_seq = tx[w].event_seq
        /\ events'[n+1].fields = stored(tx[w].fields)
    <3> DEFINE row == [event_seq |-> tx[w].event_seq, fields |-> stored(tx[w].fields),
                 prev_hash |-> tx[w].prev_hash,
                 event_hash |-> compute_event_hash(tx[w].fields, tx[w].prev_hash)]
    <3>1. row.event_seq = tx[w].event_seq /\ row.fields = stored(tx[w].fields)
      OBVIOUS
    <3>2. events' = Append(events, row)
      BY <1>2 DEF CommitRow
    <3> HIDE DEF row
    <3> QED BY <2>1, <3>1, <3>2
  <2>3. CASE v = w
    <3>1. tx[w].fields \in AuditFields /\ tx[w].pc = "commit"
      BY <1>2, InputsAssumption DEF IndInv, HasFields, CommitRow
    <3>2. tx'[w].event_seq = tx[w].event_seq /\ tx'[w].fields = tx[w].fields
      BY <1>2 DEF CommitRow, IndInv, TypeOK
    <3>3. n + 1 \in 1..Len(events')
      BY <2>1, <2>2
    <3> QED BY <2>2, <2>3, <3>1, <3>2, <3>3, StoredFields
  <2>4. CASE v # w
    <3>1. tx'[v] = tx[v]
      BY <1>2, <2>4 DEF CommitRow, IndInv, TypeOK
    <3>2. PICK i \in 1..n : /\ events[i].event_seq = tx[v].event_seq
                            /\ events[i].fields.event_id = tx[v].fields.event_id
      BY <3>1 DEF RecordNamesRow
    <3>3. i \in 1..Len(events') /\ events'[i] = events[i]
      BY <2>1, <2>2
    <3> QED BY <3>1, <3>2, <3>3
  <2> QED BY <2>3, <2>4
<1>3. ASSUME SelectExisting(v)
      PROVE  \E i \in 1..Len(events') :
               /\ events'[i].event_seq = tx'[v].event_seq
               /\ events'[i].fields.event_id = tx'[v].fields.event_id
  BY <1>3 DEF SelectExisting, IndInv, TypeOK
<1>4. \/ tx'[v] = tx[v] /\ UNCHANGED events
      \/ \E w \in Workers : CommitRow(w)
      \/ SelectExisting(v)
  <2>1. CASE UNCHANGED vars
    BY <2>1 DEF vars
  <2>2. ASSUME NEW w \in Workers,
               \/ \E f \in Inputs : BeginAppend(w, f)
               \/ LockChain(w) \/ ReadHead(w) \/ Insert(w) \/ Abort(w) \/ Return(w)
        PROVE  tx'[v] = tx[v] /\ UNCHANGED events
    BY <2>2
    DEF BeginAppend, LockChain, ReadHead, Insert, Abort, Return, Idle, IndInv, TypeOK
  <2>3. ASSUME NEW w \in Workers, SelectExisting(w), w # v
        PROVE  tx'[v] = tx[v] /\ UNCHANGED events
    BY <2>3 DEF SelectExisting, IndInv, TypeOK
  <2> QED BY <2>1, <2>2, <2>3 DEF Next, Append_event
<1> QED BY <1>1, <1>2, <1>3, <1>4

(* append_event returns a record of a committed row with the event id it   *)
(* was given, whether it inserted the row or found it.                     *)
THEOREM RecordsNameRows == Spec => []RecordNamesRow
<1>1. Init => RecordNamesRow
  BY DEF Init, Idle, RecordNamesRow
<1>2. IndInv /\ RecordNamesRow /\ [Next]_vars => RecordNamesRow'
  BY RecordNamesRowStep
<1> QED BY <1>1, <1>2, Invariance, PTL DEF Spec

-----------------------------------------------------------------------------
(* The table by its primary key.                                           *)

(* Rows are never changed or removed.                                      *)
OnlyAppended ==
  /\ Len(events) <= Len(events')
  /\ \A i \in 1..Len(events) : events'[i] = events[i]

(* event_seq is unique, so a key leads to its row.                         *)
LEMMA RowAt ==
  ASSUME TypeOK, SeqOrdered, NEW i \in 1..Len(events)
  PROVE  events[i].event_seq \in Committed /\ Row(events[i].event_seq) = events[i]
<1>1. Len(events) \in Nat /\ \A j \in 1..Len(events) : events[j].event_seq \in Nat
  BY SeqIsNat, LenProperties DEF TypeOK
<1>2. \A j \in 1..Len(events) : events[j].event_seq = events[i].event_seq => j = i
  BY <1>1 DEF SeqOrdered
<1> QED BY <1>2 DEF Committed, Row

(* Every key of the table has a row.                                       *)
LEMMA RowOf ==
  ASSUME TypeOK, SeqOrdered, NEW s \in Committed
  PROVE  /\ s \in Nat /\ Row(s) \in Rows /\ Row(s).event_seq = s
         /\ \E i \in 1..Len(events) : events[i].event_seq = s /\ Row(s) = events[i]
<1>1. PICK i \in 1..Len(events) : events[i].event_seq = s
  BY DEF Committed
<1>2. Row(s) = events[i]
  BY <1>1, RowAt
<1>3. events[i] \in Rows
  BY ElementOfSeq DEF TypeOK
<1> QED BY <1>1, <1>2, <1>3 DEF Rows

(* What a key stands for stays the same while the table grows.             *)
LEMMA RowKept ==
  ASSUME IndInv, IndInv', OnlyAppended, NEW s \in Committed
  PROVE  s \in Committed' /\ Row(s)' = Row(s)
<1>1. PICK i \in 1..Len(events) : events[i].event_seq = s /\ Row(s) = events[i]
  BY RowOf DEF IndInv
<1>2. i \in 1..Len(events') /\ events'[i] = events[i]
  <2>1. Len(events) \in Nat /\ Len(events') \in Nat
    BY LenProperties DEF IndInv, TypeOK
  <2> QED BY <2>1 DEF OnlyAppended
<1>3. TypeOK' /\ SeqOrdered'
  BY DEF IndInv
<1>4. events'[i].event_seq \in Committed'
  BY <1>2 DEF Committed
<1>5. \A j \in 1..Len(events') : events'[j].event_seq = s => j = i
  <2>1. \A j \in 1..Len(events') : events'[j].event_seq \in Nat
    <3>1. \A j \in 1..Len(events') : events'[j] \in Rows
      BY <1>3, ElementOfSeq DEF TypeOK
    <3> QED BY <3>1 DEF Rows
  <2>2. Len(events') \in Nat
    BY <1>3, LenProperties DEF TypeOK
  <2> QED BY <1>1, <1>2, <1>3, <2>1, <2>2 DEF SeqOrdered
<1> QED BY <1>1, <1>2, <1>4, <1>5 DEF Row

(* A statement of append_event appends a row or leaves the table alone.    *)
LEMMA StepAppends ==
  ASSUME IndInv, [Next]_vars
  PROVE  /\ OnlyAppended
         /\ UNCHANGED events \/ \E w \in Workers : CommitRow(w)
<1>0. events \in Seq(Rows) /\ Len(events) \in Nat
  BY LenProperties DEF IndInv, TypeOK
<1>1. UNCHANGED events \/ \E w \in Workers : CommitRow(w)
  BY DEF Next, Append_event, vars, BeginAppend, LockChain, ReadHead, Insert,
     SelectExisting, Abort, Return
<1>2. CASE UNCHANGED events
  BY <1>0, <1>2 DEF OnlyAppended
<1>3. ASSUME NEW w \in Workers, CommitRow(w)
      PROVE  OnlyAppended
  <2> DEFINE row == [event_seq |-> tx[w].event_seq, fields |-> stored(tx[w].fields),
                     prev_hash |-> tx[w].prev_hash,
                     event_hash |-> compute_event_hash(tx[w].fields, tx[w].prev_hash)]
  <2>1. events' = Append(events, row)
    BY <1>3 DEF CommitRow
  <2> HIDE DEF row
  <2> QED BY <1>0, <2>1 DEF OnlyAppended
<1> QED BY <1>1, <1>2, <1>3

-----------------------------------------------------------------------------
(* Delivery.                                                               *)

Requests == [pc : {"none", "publish", "record"}, row : Nat, ok : BOOLEAN]

RelayStates == [pc : {"sleep", "publish", "record", "dead"},
                batch : SUBSET Nat, ok : BOOLEAN]

(* event_delivery refers to rows of events, and so does all that is sent.  *)
DeliveryTyped ==
  /\ DOMAIN event_delivery \subseteq Committed
  /\ event_delivery \in [DOMAIN event_delivery -> BOOLEAN]
  /\ topic \subseteq Committed
  /\ ingest \in [Workers -> Requests]
  /\ relay \in RelayStates /\ relay.batch \subseteq Committed

(* A request works on a row whose request_id is its event's id, and knows  *)
(* that the message was sent only if it was.                               *)
IngestTrue ==
  \A w \in Workers, r \in Nat : ingest[w].pc # "none" /\ ingest[w].row = r =>
    /\ tx[w].pc = "returned"
    /\ r \in Committed
    /\ Row(r).fields.request_id = tx[w].fields.event_id
    /\ ingest[w].pc = "record" /\ ingest[w].ok => r \in topic

(* The relay works on the first row of its batch.                          *)
RelayTrue ==
  /\ relay.pc \in {"publish", "record"} => relay.batch # {}
  /\ relay.pc = "record" /\ relay.ok => Min(relay.batch) \in topic

DeliveryInv ==
  /\ IndInv
  /\ RecordNamesRow
  /\ DeliveryTyped
  /\ IngestTrue
  /\ RelayTrue
  /\ MarkedOnlyIfSent

(* A set of natural numbers has a least element.                           *)
LEMMA LeastIsMin ==
  ASSUME NEW T \in SUBSET Nat, T # {}
  PROVE  Min(T) \in T /\ \A y \in T : Min(T) <= y
<1>1. PICK x \in T : \A y \in T : <<y, x>> \notin OpToRel(<, Nat)
  BY NatLessThanWellFounded, WFMin
<1>2. \A y \in T : ~(y < x)
  BY <1>1 DEF OpToRel
<1>3. \A y \in T : x <= y
  BY <1>2
<1> QED BY <1>3 DEF Min

(* A bounded set of natural numbers has a greatest element.                *)
LEMMA GreatestIsMax ==
  ASSUME NEW n \in Nat, NEW T \in SUBSET (0..n), T # {}
  PROVE  Max(T) \in T /\ \A y \in T : y <= Max(T)
<1> DEFINE U == {k \in Nat : n - k \in T}
<1>1. U # {}
  <2>1. PICK x \in T : TRUE
    OBVIOUS
  <2>2. n - x \in Nat /\ n - (n - x) = x
    OBVIOUS
  <2> QED BY <2>1, <2>2
<1>2. PICK k \in U : \A l \in U : k <= l
  <2>1. U \in SUBSET Nat
    OBVIOUS
  <2> QED BY <1>1, <2>1, LeastIsMin
<1>3. n - k \in T /\ k \in Nat
  BY <1>2
<1>4. ASSUME NEW y \in T PROVE y <= n - k
  <2>1. y \in 0..n /\ n - y \in Nat /\ n - (n - y) = y
    OBVIOUS
  <2>2. n - y \in U
    BY <2>1
  <2>3. k <= n - y
    BY <1>2, <2>2
  <2> QED BY <1>3, <2>1, <2>3
<1> QED BY <1>3, <1>4 DEF Max

(* The rows of the table are among the numbers up to the identity.         *)
LEMMA CommittedBounded ==
  ASSUME IndInv
  PROVE  identity \in Nat /\ Committed \in SUBSET (0..identity)
<1>1. \A i \in 1..Len(events) : events[i].event_seq \in Nat /\ events[i].event_seq < identity
  BY SeqIsNat DEF IndInv, SeqBelow
<1>2. identity \in Nat
  BY DEF IndInv, TypeOK
<1> QED BY <1>1, <1>2 DEF Committed

(* Nothing is delivered at first.                                          *)
LEMMA DeliveryInvInit == DInit => DeliveryInv
<1> SUFFICES ASSUME DInit PROVE DeliveryInv
  OBVIOUS
<1>1. IndInv /\ RecordNamesRow
  BY InitIndInv DEF DInit, Init, Idle, RecordNamesRow
<1>2. DOMAIN event_delivery = {} /\ topic = {}
  BY DEF DInit
<1>3. DeliveryTyped
  BY <1>2 DEF DInit, DeliveryTyped, NoIngest, Sleeping, Requests, RelayStates
<1>4. IngestTrue /\ RelayTrue
  BY DEF DInit, IngestTrue, RelayTrue, NoIngest, Sleeping
<1>5. MarkedOnlyIfSent
  BY <1>2 DEF MarkedOnlyIfSent
<1> QED BY <1>1, <1>3, <1>4, <1>5 DEF DeliveryInv

(* What is known of delivery stays true while the table grows, the topic   *)
(* grows, and nothing else happens to it.                                  *)
LEMMA DeliveryKept ==
  ASSUME DeliveryInv, IndInv', OnlyAppended, topic \subseteq topic', topic' \subseteq Committed',
         UNCHANGED event_delivery
  PROVE  /\ DOMAIN event_delivery' \subseteq Committed'
         /\ event_delivery' \in [DOMAIN event_delivery' -> BOOLEAN]
         /\ relay.batch \subseteq Committed'
         /\ MarkedOnlyIfSent'
<1>1. \A s \in Committed : s \in Committed' /\ Row(s)' = Row(s)
  BY RowKept DEF DeliveryInv
<1>2. DOMAIN event_delivery \subseteq Committed /\ topic \subseteq Committed
  BY DEF DeliveryInv, DeliveryTyped
<1>3. MarkedOnlyIfSent'
  <2> SUFFICES ASSUME NEW s \in DOMAIN event_delivery', Published(s)'
               PROVE  s \in topic' \/ \E t \in topic' :
                        Row(t)'.fields.request_id = Row(s)'.fields.event_id
    BY DEF MarkedOnlyIfSent
  <2>1. s \in DOMAIN event_delivery /\ Published(s) /\ s \in Committed
    BY <1>2 DEF Published
  <2>2. CASE s \in topic
    BY <2>2
  <2>3. ASSUME NEW t \in topic, Row(t).fields.request_id = Row(s).fields.event_id
        PROVE  t \in topic' /\ Row(t)'.fields.request_id = Row(s)'.fields.event_id
    BY <1>1, <1>2, <2>1, <2>3
  <2>4. s \in topic \/ \E t \in topic : Row(t).fields.request_id = Row(s).fields.event_id
    BY <2>1 DEF DeliveryInv, MarkedOnlyIfSent
  <2> QED BY <2>2, <2>3, <2>4
<1> QED BY <1>1, <1>2, <1>3 DEF DeliveryInv, DeliveryTyped

(* A statement of append_event of one worker.                              *)
LEMMA AppendStepDelivery ==
  ASSUME DeliveryInv, NEW v \in Workers, Append_event(v), UNCHANGED deliveryVars
  PROVE  DeliveryInv'
<1>1. [Next]_vars
  BY DEF Next
<1>2. IndInv' /\ RecordNamesRow' /\ OnlyAppended
  BY <1>1, StepIndInv, RecordNamesRowStep, StepAppends DEF DeliveryInv
<1>3. UNCHANGED <<event_delivery, topic, ingest, relay, failures, restarts>>
  BY DEF deliveryVars
<1>4. \A s \in Committed : s \in Committed' /\ Row(s)' = Row(s)
  BY <1>2, RowKept DEF DeliveryInv
<1>5. topic' \subseteq Committed'
  BY <1>3, <1>4 DEF DeliveryInv, DeliveryTyped
<1>6. DeliveryTyped' /\ MarkedOnlyIfSent'
  BY <1>2, <1>3, <1>5, DeliveryKept DEF DeliveryInv, DeliveryTyped
<1>7. tx[v].pc # "returned" /\ \A w \in Workers : w # v => tx'[w] = tx[w]
  BY DEF Append_event, BeginAppend, LockChain, ReadHead, Insert, CommitRow, SelectExisting,
     Abort, DeliveryInv, IndInv, TypeOK
<1>8. IngestTrue'
  <2> SUFFICES ASSUME NEW w \in Workers, NEW r \in Nat, ingest'[w].pc # "none", ingest'[w].row = r
               PROVE  /\ tx'[w].pc = "returned"
                      /\ r \in Committed'
                      /\ Row(r)'.fields.request_id = tx'[w].fields.event_id
                      /\ ingest'[w].pc = "record" /\ ingest'[w].ok => r \in topic'
    BY DEF IngestTrue
  <2>1. /\ tx[w].pc = "returned"
        /\ r \in Committed
        /\ Row(r).fields.request_id = tx[w].fields.event_id
        /\ ingest[w].pc = "record" /\ ingest[w].ok => r \in topic
    BY <1>3 DEF DeliveryInv, IngestTrue
  <2>2. tx'[w] = tx[w]
    BY <1>7, <2>1
  <2> QED BY <1>3, <1>4, <2>1, <2>2
<1>9. RelayTrue'
  BY <1>3 DEF DeliveryInv, RelayTrue
<1> QED BY <1>2, <1>6, <1>8, <1>9 DEF DeliveryInv

(* When the table stays as it is, so do its rows and keys.                 *)
LEMMA SameTable ==
  ASSUME UNCHANGED events
  PROVE  Committed' = Committed /\ \A s : Row(s)' = Row(s)
BY DEF Committed, Row

(* The end of a request: append_event's record is given up.                *)
LEMMA ReturnKept ==
  ASSUME DeliveryInv, NEW w \in Workers, Return(w)
  PROVE  /\ IndInv' /\ RecordNamesRow'
         /\ UNCHANGED events
         /\ \A v \in Workers : v # w => tx'[v] = tx[v]
<1>1. [Next]_vars
  BY DEF Next
<1>2. IndInv' /\ RecordNamesRow'
  BY <1>1, StepIndInv, RecordNamesRowStep DEF DeliveryInv
<1> QED BY <1>2 DEF Return, DeliveryInv, IndInv, TypeOK

(* The record of a request, or of the relay, in event_delivery: if it says *)
(* published, a message accounts for it.                                   *)
LEMMA RecordDelivery ==
  ASSUME DeliveryInv, UNCHANGED <<events, topic>>,
         NEW seq \in Committed, NEW ok \in BOOLEAN,
         event_delivery' = record_delivery(seq, ok),
         ok => seq \in topic \/ \E t \in topic : Row(t).fields.request_id = Row(seq).fields.event_id
  PROVE  /\ DOMAIN event_delivery' \subseteq Committed'
         /\ event_delivery' \in [DOMAIN event_delivery' -> BOOLEAN]
         /\ MarkedOnlyIfSent'
<1>1. Committed' = Committed /\ \A s : Row(s)' = Row(s)
  BY SameTable
<1>2. /\ DOMAIN event_delivery' = DOMAIN event_delivery \cup {seq}
      /\ event_delivery'[seq] = (ok \/ Published(seq))
      /\ \A s \in DOMAIN event_delivery : s # seq => event_delivery'[s] = event_delivery[s]
  BY DEF record_delivery
<1>3. DOMAIN event_delivery \subseteq Committed /\ event_delivery \in [DOMAIN event_delivery -> BOOLEAN]
  BY DEF DeliveryInv, DeliveryTyped
<1>4. event_delivery' \in [DOMAIN event_delivery' -> BOOLEAN]
  <2>1. \A s \in DOMAIN event_delivery' : event_delivery'[s] \in BOOLEAN
    BY <1>2, <1>3 DEF Published
  <2>2. event_delivery' = [s \in DOMAIN event_delivery' |-> event_delivery'[s]]
    BY DEF record_delivery
  <2> QED BY <2>1, <2>2
<1>5. MarkedOnlyIfSent'
  <2> SUFFICES ASSUME NEW s \in DOMAIN event_delivery', Published(s)'
               PROVE  s \in topic \/ \E t \in topic :
                        Row(t).fields.request_id = Row(s).fields.event_id
    BY <1>1 DEF MarkedOnlyIfSent
  <2>1. event_delivery'[s]
    BY DEF Published
  <2>2. CASE s # seq
    <3>1. s \in DOMAIN event_delivery /\ Published(s)
      BY <1>2, <2>1, <2>2 DEF Published
    <3> QED BY <3>1 DEF DeliveryInv, MarkedOnlyIfSent
  <2>3. CASE s = seq /\ ok
    BY <2>3
  <2>4. CASE s = seq /\ ~ok
    <3>1. s \in DOMAIN event_delivery /\ Published(s)
      BY <1>2, <2>1, <2>4 DEF Published
    <3> QED BY <3>1 DEF DeliveryInv, MarkedOnlyIfSent
  <2> QED BY <2>2, <2>3, <2>4
<1> QED BY <1>1, <1>2, <1>3, <1>4, <1>5

(* A request that ends, with or without an entry in event_delivery.        *)
LEMMA RequestEnds ==
  ASSUME DeliveryInv, NEW w \in Workers, Return(w),
         UNCHANGED <<topic, relay>>,
         ingest' = [ingest EXCEPT ![w] = NoIngest] \/ (ingest' = ingest /\ ingest[w].pc = "none"),
         DOMAIN event_delivery' \subseteq Committed',
         event_delivery' \in [DOMAIN event_delivery' -> BOOLEAN],
         MarkedOnlyIfSent'
  PROVE  DeliveryInv'
<1>1. /\ IndInv' /\ RecordNamesRow' /\ UNCHANGED events
      /\ \A v \in Workers : v # w => tx'[v] = tx[v]
  BY ReturnKept
<1>2. Committed' = Committed /\ \A s : Row(s)' = Row(s)
  BY <1>1, SameTable
<1>3. /\ ingest' \in [Workers -> Requests]
      /\ ingest'[w].pc = "none"
      /\ \A v \in Workers : v # w => ingest'[v] = ingest[v]
  <2>1. ingest \in [Workers -> Requests] /\ NoIngest \in Requests /\ NoIngest.pc = "none"
    BY DEF DeliveryInv, DeliveryTyped, NoIngest, Requests
  <2>2. CASE ingest' = [ingest EXCEPT ![w] = NoIngest]
    BY <2>1, <2>2
  <2>3. CASE ingest' = ingest /\ ingest[w].pc = "none"
    BY <2>1, <2>3
  <2> QED BY <2>2, <2>3
<1>4. DeliveryTyped'
  BY <1>2, <1>3 DEF DeliveryInv, DeliveryTyped
<1>5. IngestTrue'
  BY <1>1, <1>2, <1>3 DEF DeliveryInv, IngestTrue
<1>6. RelayTrue'
  BY DEF DeliveryInv, RelayTrue
<1> QED BY <1>1, <1>4, <1>5, <1>6 DEF DeliveryInv

(* Publishing adds to the topic at most the row it is given, and reports   *)
(* success only if it did.                                                 *)
LEMMA PublishIs ==
  ASSUME NEW seq, NEW ok \in BOOLEAN, Publish(seq, ok)
  PROVE  /\ topic' = topic \/ topic' = topic \cup {seq}
         /\ ok => seq \in topic'
BY DEF Publish

(* The rows a request works on, after append_event has returned.           *)
LEMMA IngestFetchStep ==
  ASSUME DeliveryInv, NEW w \in Workers, IngestFetch(w)
  PROVE  DeliveryInv'
<1> DEFINE rows == RowsOfRequest(tx[w].fields.event_id)
<1>1. tx[w].pc = "returned" /\ ingest[w].pc = "none" /\ UNCHANGED <<event_delivery, topic, relay>>
  BY DEF IngestFetch
<1>2. CASE Return(w) /\ UNCHANGED ingest
  <2>1. IndInv' /\ UNCHANGED events
    BY <1>2, ReturnKept
  <2>2. OnlyAppended /\ topic' \subseteq Committed'
    BY <1>1, <2>1, SameTable DEF OnlyAppended, DeliveryInv, DeliveryTyped, IndInv, TypeOK
  <2>3. /\ DOMAIN event_delivery' \subseteq Committed'
        /\ event_delivery' \in [DOMAIN event_delivery' -> BOOLEAN]
        /\ MarkedOnlyIfSent'
    BY <1>1, <2>1, <2>2, DeliveryKept
  <2> QED BY <1>1, <1>2, <2>3, RequestEnds
<1>3. CASE /\ rows # {} /\ UNCHANGED vars
           /\ ingest' = [ingest EXCEPT ![w] = [pc |-> "publish", row |-> Max(rows), ok |-> FALSE]]
  <2>1. PICK r : r = Max(rows)
    OBVIOUS
  <2>2. rows \in SUBSET (0..identity) /\ identity \in Nat
    BY CommittedBounded DEF RowsOfRequest, DeliveryInv
  <2>3. r \in rows
    BY <1>3, <2>1, <2>2, GreatestIsMax
  <2>4. r \in Nat /\ r \in Committed /\ Row(r).fields.request_id = tx[w].fields.event_id
    BY <2>2, <2>3 DEF RowsOfRequest
  <2> HIDE DEF rows
  <2>5. ingest' = [ingest EXCEPT ![w] = [pc |-> "publish", row |-> r, ok |-> FALSE]]
    BY <1>3, <2>1
  <2>6. UNCHANGED <<events, identity, chainLock, tx>>
    BY <1>3 DEF vars
  <2>7. Committed' = Committed /\ \A s : Row(s)' = Row(s)
    BY <2>6, SameTable
  <2>8. IndInv' /\ RecordNamesRow'
    BY <1>3, StepIndInv, RecordNamesRowStep DEF DeliveryInv
  <2>9. ingest \in [Workers -> Requests]
    BY DEF DeliveryInv, DeliveryTyped
  <2>10. ingest' \in [Workers -> Requests]
    BY <2>4, <2>5, <2>9 DEF Requests
  <2>11. DeliveryTyped'
    BY <1>1, <2>7, <2>10 DEF DeliveryInv, DeliveryTyped
  <2>12. IngestTrue'
    BY <1>1, <2>4, <2>5, <2>6, <2>7, <2>9 DEF DeliveryInv, IngestTrue
  <2>13. RelayTrue'
    BY <1>1 DEF DeliveryInv, RelayTrue
  <2>14. MarkedOnlyIfSent'
    BY <1>1, <2>7 DEF DeliveryInv, MarkedOnlyIfSent, Published
  <2> QED BY <2>8, <2>11, <2>12, <2>13, <2>14 DEF DeliveryInv
<1> QED BY <1>2, <1>3 DEF IngestFetch

(* The topic grows by a row of the table.                                  *)
LEMMA TopicGrows ==
  ASSUME DeliveryInv, UNCHANGED vars, UNCHANGED event_delivery,
         topic \subseteq topic', topic' \subseteq Committed
  PROVE  /\ IndInv' /\ RecordNamesRow' /\ Committed' = Committed
         /\ \A s : Row(s)' = Row(s)
         /\ DOMAIN event_delivery' \subseteq Committed'
         /\ event_delivery' \in [DOMAIN event_delivery' -> BOOLEAN]
         /\ MarkedOnlyIfSent'
<1>1. UNCHANGED events
  BY DEF vars
<1>2. IndInv' /\ RecordNamesRow'
  BY StepIndInv, RecordNamesRowStep DEF DeliveryInv
<1>3. Committed' = Committed /\ \A s : Row(s)' = Row(s)
  BY <1>1, SameTable
<1>4. OnlyAppended
  BY <1>1 DEF OnlyAppended, DeliveryInv, IndInv, TypeOK
<1> QED BY <1>2, <1>3, <1>4, DeliveryKept

(* The request sends the row it found.                                     *)
LEMMA IngestPublishStep ==
  ASSUME DeliveryInv, NEW w \in Workers, IngestPublish(w)
  PROVE  DeliveryInv'
<1>1. PICK ok \in BOOLEAN :
        /\ Publish(ingest[w].row, ok)
        /\ ingest' = [ingest EXCEPT ![w].pc = "record", ![w].ok = ok]
  BY DEF IngestPublish
<1>2. ingest[w].pc = "publish" /\ UNCHANGED <<vars, event_delivery, relay>>
  BY DEF IngestPublish
<1>3. ingest \in [Workers -> Requests]
  BY DEF DeliveryInv, DeliveryTyped
<1>4. PICK r \in Nat : r = ingest[w].row
  BY <1>3 DEF Requests
<1>5. /\ r \in Committed /\ tx[w].pc = "returned"
      /\ Row(r).fields.request_id = tx[w].fields.event_id
  BY <1>2, <1>4 DEF DeliveryInv, IngestTrue
<1>6. topic \subseteq topic' /\ topic' \subseteq Committed /\ (ok => r \in topic')
  BY <1>1, <1>4, <1>5, PublishIs DEF DeliveryInv, DeliveryTyped
<1>7. /\ IndInv' /\ RecordNamesRow' /\ Committed' = Committed
      /\ \A s : Row(s)' = Row(s)
      /\ DOMAIN event_delivery' \subseteq Committed'
      /\ event_delivery' \in [DOMAIN event_delivery' -> BOOLEAN]
      /\ MarkedOnlyIfSent'
  BY <1>2, <1>6, TopicGrows
<1>8. UNCHANGED tx
  BY <1>2 DEF vars
<1>9. /\ ingest' \in [Workers -> Requests]
      /\ ingest'[w].row = r /\ ingest'[w].ok = ok
      /\ \A v \in Workers : v # w => ingest'[v] = ingest[v]
  BY <1>1, <1>3, <1>4 DEF Requests
<1>10. DeliveryTyped'
  BY <1>2, <1>6, <1>7, <1>9 DEF DeliveryInv, DeliveryTyped
<1>11. IngestTrue'
  <2> SUFFICES ASSUME NEW v \in Workers, NEW q \in Nat, ingest'[v].pc # "none", ingest'[v].row = q
               PROVE  /\ tx[v].pc = "returned"
                      /\ q \in Committed
                      /\ Row(q).fields.request_id = tx[v].fields.event_id
                      /\ ingest'[v].pc = "record" /\ ingest'[v].ok => q \in topic'
    BY <1>7, <1>8 DEF IngestTrue
  <2>1. CASE v = w
    BY <1>5, <1>6, <1>9, <2>1
  <2>2. CASE v # w
    BY <1>6, <1>9, <2>2 DEF DeliveryInv, IngestTrue
  <2> QED BY <2>1, <2>2
<1>12. RelayTrue'
  BY <1>2, <1>6 DEF DeliveryInv, RelayTrue
<1> QED BY <1>7, <1>10, <1>11, <1>12 DEF DeliveryInv

(* ingest_audit_event marks the row its own event has, on account of the   *)
(* row it looked up by request_id.                                         *)
LEMMA IngestRecordStep ==
  ASSUME DeliveryInv, NEW w \in Workers, IngestRecord(w)
  PROVE  DeliveryInv'
<1>1. /\ ingest[w].pc = "record" /\ Return(w) /\ UNCHANGED <<topic, relay>>
      /\ ingest' = [ingest EXCEPT ![w] = NoIngest]
      /\ event_delivery' = record_delivery(tx[w].event_seq, ingest[w].ok)
  BY DEF IngestRecord
<1>2. ingest[w] \in Requests
  BY DEF DeliveryInv, DeliveryTyped
<1>3. PICK r \in Nat : r = ingest[w].row
  BY <1>2 DEF Requests
<1>4. PICK seq : seq = tx[w].event_seq
  OBVIOUS
<1>5. PICK ok \in BOOLEAN : ok = ingest[w].ok
  BY <1>2 DEF Requests
<1>6. /\ r \in Committed /\ tx[w].pc = "returned"
      /\ Row(r).fields.request_id = tx[w].fields.event_id
      /\ ok => r \in topic
  BY <1>1, <1>3, <1>5 DEF DeliveryInv, IngestTrue
<1>7. PICK i \in 1..Len(events) : /\ events[i].event_seq = seq
                                  /\ events[i].fields.event_id = tx[w].fields.event_id
  BY <1>4, <1>6 DEF DeliveryInv, RecordNamesRow
<1>8. seq \in Committed /\ Row(seq).fields.event_id = tx[w].fields.event_id
  BY <1>7, RowAt DEF DeliveryInv, IndInv
<1>9. ok => \E t \in topic : Row(t).fields.request_id = Row(seq).fields.event_id
  BY <1>6, <1>8
<1>10. event_delivery' = record_delivery(seq, ok) /\ UNCHANGED events
  BY <1>1, <1>4, <1>5 DEF Return
<1>11. /\ DOMAIN event_delivery' \subseteq Committed'
       /\ event_delivery' \in [DOMAIN event_delivery' -> BOOLEAN]
       /\ MarkedOnlyIfSent'
  BY <1>1, <1>8, <1>9, <1>10, RecordDelivery
<1> QED BY <1>1, <1>11, RequestEnds

(* The request fails, and leaves no trace in event_delivery.               *)
LEMMA IngestFailsStep ==
  ASSUME DeliveryInv, NEW w \in Workers, IngestFails(w)
  PROVE  DeliveryInv'
<1>1. /\ Return(w) /\ UNCHANGED <<event_delivery, topic, relay>>
      /\ ingest' = [ingest EXCEPT ![w] = NoIngest]
  BY DEF IngestFails
<1>2. IndInv' /\ UNCHANGED events
  BY <1>1, ReturnKept
<1>3. OnlyAppended /\ topic' \subseteq Committed'
  BY <1>1, <1>2, SameTable DEF OnlyAppended, DeliveryInv, DeliveryTyped, IndInv, TypeOK
<1>4. /\ DOMAIN event_delivery' \subseteq Committed'
      /\ event_delivery' \in [DOMAIN event_delivery' -> BOOLEAN]
      /\ MarkedOnlyIfSent'
  BY <1>1, <1>2, <1>3, DeliveryKept
<1> QED BY <1>1, <1>4, RequestEnds

(* A step of the relay that leaves the topic and event_delivery alone.     *)
LEMMA RelayMoves ==
  ASSUME DeliveryInv, UNCHANGED <<vars, event_delivery, topic, ingest>>,
         relay' \in RelayStates, relay'.batch \subseteq Committed, RelayTrue'
  PROVE  DeliveryInv'
<1>1. topic \subseteq topic' /\ topic' \subseteq Committed
  BY DEF DeliveryInv, DeliveryTyped
<1>2. UNCHANGED vars /\ UNCHANGED event_delivery
  OBVIOUS
<1>3. /\ IndInv' /\ RecordNamesRow' /\ Committed' = Committed
      /\ \A s : Row(s)' = Row(s)
      /\ MarkedOnlyIfSent'
  BY <1>1, <1>2, TopicGrows
<1>4. UNCHANGED tx
  BY DEF vars
<1>5. DeliveryTyped'
  BY <1>3 DEF DeliveryInv, DeliveryTyped
<1>6. IngestTrue'
  BY <1>3, <1>4 DEF DeliveryInv, IngestTrue
<1> QED BY <1>3, <1>5, <1>6 DEF DeliveryInv

(* The relay fetches committed rows.                                       *)
LEMMA RelayFetchStep ==
  ASSUME DeliveryInv, RelayFetch
  PROVE  DeliveryInv'
<1> DEFINE b == fetch_unpublished(BatchLimit)
<1>1. /\ UNCHANGED <<vars, event_delivery, topic, ingest>>
      /\ b # {} /\ relay' = [pc |-> "publish", batch |-> b, ok |-> FALSE]
  BY DEF RelayFetch
<1>2. b \subseteq Committed
  BY DEF fetch_unpublished
<1>3. Committed \subseteq Nat
  BY CommittedBounded DEF DeliveryInv
<1> HIDE DEF b
<1>4. relay' \in RelayStates /\ relay'.batch = b /\ relay'.pc = "publish"
  BY <1>1, <1>2, <1>3 DEF RelayStates
<1>5. RelayTrue'
  BY <1>1, <1>4 DEF RelayTrue
<1> QED BY <1>1, <1>2, <1>4, <1>5, RelayMoves

(* The first row of a batch.                                               *)
LEMMA FirstOfBatch ==
  ASSUME DeliveryInv, relay.pc \in {"publish", "record"}
  PROVE  Min(relay.batch) \in relay.batch /\ Min(relay.batch) \in Committed
<1>1. relay.batch \in SUBSET Nat /\ relay.batch # {} /\ relay.batch \subseteq Committed
  BY DEF DeliveryInv, DeliveryTyped, RelayTrue, RelayStates
<1> QED BY <1>1, LeastIsMin

(* The relay sends the first row of its batch.                             *)
LEMMA RelayPublishStep ==
  ASSUME DeliveryInv, RelayPublish
  PROVE  DeliveryInv'
<1>1. PICK ok \in BOOLEAN : Publish(Min(relay.batch), ok)
                            /\ relay' = [relay EXCEPT !.pc = "record", !.ok = ok]
  BY DEF RelayPublish
<1>2. relay.pc = "publish" /\ UNCHANGED <<vars, event_delivery, ingest>>
  BY DEF RelayPublish
<1>3. PICK r : r = Min(relay.batch)
  OBVIOUS
<1>4. r \in relay.batch /\ r \in Committed
  BY <1>2, <1>3, FirstOfBatch
<1>5. topic \subseteq topic' /\ topic' \subseteq Committed /\ (ok => r \in topic')
  BY <1>1, <1>3, <1>4, PublishIs DEF DeliveryInv, DeliveryTyped
<1>6. /\ IndInv' /\ RecordNamesRow' /\ Committed' = Committed
      /\ \A s : Row(s)' = Row(s)
      /\ DOMAIN event_delivery' \subseteq Committed'
      /\ event_delivery' \in [DOMAIN event_delivery' -> BOOLEAN]
      /\ MarkedOnlyIfSent'
  BY <1>2, <1>5, TopicGrows
<1>7. UNCHANGED tx
  BY <1>2 DEF vars
<1>8. relay' \in RelayStates /\ relay'.batch = relay.batch /\ relay'.ok = ok
  BY <1>1 DEF DeliveryInv, DeliveryTyped, RelayStates
<1>9. DeliveryTyped'
  BY <1>2, <1>5, <1>6, <1>8 DEF DeliveryInv, DeliveryTyped
<1>10. IngestTrue'
  BY <1>2, <1>5, <1>6, <1>7 DEF DeliveryInv, IngestTrue
<1>11. RelayTrue'
  <2>1. Min(relay'.batch) = r
    BY <1>3, <1>8
  <2> QED BY <1>2, <1>4, <1>5, <1>8, <2>1 DEF RelayTrue
<1> QED BY <1>6, <1>9, <1>10, <1>11 DEF DeliveryInv

(* The relay marks a row only if it has sent that very row.                *)
LEMMA RelayRecordStep ==
  ASSUME DeliveryInv, RelayRecord
  PROVE  DeliveryInv'
<1> DEFINE rest == relay.batch \ {Min(relay.batch)}
<1>1. /\ relay.pc = "record" /\ UNCHANGED <<vars, topic, ingest>>
      /\ event_delivery' = record_delivery(Min(relay.batch), relay.ok)
      /\ relay' = IF rest = {} THEN Sleeping
                  ELSE [pc |-> "publish", batch |-> rest, ok |-> FALSE]
  BY DEF RelayRecord
<1>2. /\ relay.batch \in SUBSET Nat /\ relay.batch \subseteq Committed /\ relay.ok \in BOOLEAN
      /\ relay.ok => Min(relay.batch) \in topic
  BY <1>1 DEF DeliveryInv, DeliveryTyped, RelayTrue, RelayStates
<1>3. PICK r : r = Min(relay.batch)
  OBVIOUS
<1>4. PICK ok \in BOOLEAN : ok = relay.ok
  BY <1>2
<1>5. r \in Committed /\ (ok => r \in topic)
  BY <1>1, <1>2, <1>3, <1>4, FirstOfBatch
<1>6. event_delivery' = record_delivery(r, ok) /\ UNCHANGED <<events, topic, tx>>
  BY <1>1, <1>3, <1>4 DEF vars
<1>7. /\ DOMAIN event_delivery' \subseteq Committed'
      /\ event_delivery' \in [DOMAIN event_delivery' -> BOOLEAN]
      /\ MarkedOnlyIfSent'
  BY <1>5, <1>6, RecordDelivery
<1>8. Committed' = Committed /\ \A s : Row(s)' = Row(s)
  BY <1>6, SameTable
<1>9. IndInv' /\ RecordNamesRow'
  BY <1>1, StepIndInv, RecordNamesRowStep DEF DeliveryInv
<1>10. rest \subseteq Nat /\ rest \subseteq Committed
  BY <1>2
<1> HIDE DEF rest
<1>11. /\ relay' \in RelayStates /\ relay'.batch \subseteq Committed
       /\ relay'.pc # "record" /\ (relay'.pc = "publish" => relay'.batch # {})
  BY <1>1, <1>10 DEF RelayStates, Sleeping
<1>12. DeliveryTyped'
  BY <1>1, <1>7, <1>8, <1>11 DEF DeliveryInv, DeliveryTyped
<1>13. IngestTrue'
  BY <1>1, <1>6, <1>8 DEF DeliveryInv, IngestTrue
<1>14. RelayTrue'
  BY <1>11 DEF RelayTrue
<1> QED BY <1>7, <1>9, <1>12, <1>13, <1>14 DEF DeliveryInv

(* The relay task ends.                                                    *)
LEMMA RelayDiesStep ==
  ASSUME DeliveryInv, RelayDies
  PROVE  DeliveryInv'
<1>1. /\ UNCHANGED <<vars, event_delivery, topic, ingest>>
      /\ relay' = [Sleeping EXCEPT !.pc = "dead"]
  BY DEF RelayDies
<1>2. relay' \in RelayStates /\ relay'.batch \subseteq Committed /\ relay'.pc = "dead"
  BY <1>1 DEF RelayStates, Sleeping
<1>3. RelayTrue'
  BY <1>2 DEF RelayTrue
<1> QED BY <1>1, <1>2, <1>3, RelayMoves

(* A restart rolls the transactions back and forgets requests and batch.   *)
LEMMA RestartStep ==
  ASSUME DeliveryInv, Restart
  PROVE  DeliveryInv'
<1>1. /\ UNCHANGED <<events, identity, event_delivery, topic>>
      /\ tx' = [w \in Workers |-> Idle] /\ chainLock' = None
      /\ ingest' = [w \in Workers |-> NoIngest] /\ relay' = Sleeping
  BY DEF Restart
<1>2. Idle \in [pc : Steps, fields : Inputs \cup {None}, prev_hash : Hashes, event_seq : Nat]
      /\ Idle.pc = "idle"
  BY EmptySeq DEF Idle, GENESIS_HASH, Hashes, Steps
<1>3. \A w \in Workers : tx'[w].pc = "idle"
  BY <1>1, <1>2
<1>4. IndInv'
  <2>1. TypeOK'
    BY <1>1, <1>2 DEF DeliveryInv, IndInv, TypeOK
  <2>2. LockHeld' /\ HasFields' /\ SeqBelow' /\ HeadRead' /\ StillFresh'
    BY <1>1, <1>3 DEF DeliveryInv, IndInv, LockHeld, HasFields, SeqBelow, HeadRead, StillFresh
  <2> QED BY <1>1, <2>1, <2>2, TableUnchanged DEF DeliveryInv, IndInv
<1>5. RecordNamesRow'
  BY <1>3 DEF RecordNamesRow
<1>6. Committed' = Committed /\ \A s : Row(s)' = Row(s)
  BY <1>1, SameTable
<1>7. DeliveryTyped'
  BY <1>1, <1>6 DEF DeliveryInv, DeliveryTyped, NoIngest, Sleeping, Requests, RelayStates
<1>8. IngestTrue' /\ RelayTrue'
  BY <1>1 DEF IngestTrue, RelayTrue, NoIngest, Sleeping
<1>9. MarkedOnlyIfSent'
  BY <1>1, <1>6 DEF DeliveryInv, MarkedOnlyIfSent, Published
<1> QED BY <1>4, <1>5, <1>7, <1>8, <1>9 DEF DeliveryInv

(* Every step keeps the delivery invariant.                                *)
LEMMA DeliveryInvNext == DeliveryInv /\ [DNext]_allVars => DeliveryInv'
<1> SUFFICES ASSUME DeliveryInv, [DNext]_allVars PROVE DeliveryInv'
  OBVIOUS
<1>1. CASE UNCHANGED allVars
  <2>1. UNCHANGED vars /\ UNCHANGED <<event_delivery, topic, ingest, relay>>
    BY <1>1 DEF allVars, deliveryVars
  <2>2. relay' \in RelayStates /\ relay'.batch \subseteq Committed /\ RelayTrue'
    BY <2>1 DEF DeliveryInv, DeliveryTyped, RelayTrue
  <2> QED BY <2>1, <2>2, RelayMoves
<1>2. ASSUME NEW w \in Workers, Append_event(w), UNCHANGED deliveryVars
      PROVE  DeliveryInv'
  BY <1>2, AppendStepDelivery
<1>3. ASSUME NEW w \in Workers,
             IngestFetch(w) \/ IngestPublish(w) \/ IngestRecord(w) \/ IngestFails(w)
      PROVE  DeliveryInv'
  BY <1>3, IngestFetchStep, IngestPublishStep, IngestRecordStep, IngestFailsStep
<1>4. CASE Relay
  BY <1>4, RelayFetchStep, RelayPublishStep, RelayRecordStep DEF Relay
<1>5. CASE RelayDies
  BY <1>5, RelayDiesStep
<1>6. CASE Restart
  BY <1>6, RestartStep
<1> QED BY <1>1, <1>2, <1>3, <1>4, <1>5, <1>6 DEF DNext

(* The delivery invariant holds of every reachable state.                  *)
THEOREM DeliveryInvariant == DSpec => []DeliveryInv
BY DeliveryInvInit, DeliveryInvNext, PTL DEF DSpec

(* However requests, the relay and restarts interleave, event_delivery     *)
(* says published only of a row whose message was sent, or whose event is  *)
(* the request of a row whose message was sent.                            *)
THEOREM MarkedRowsWereSent == DSpec => []MarkedOnlyIfSent
<1>1. DeliveryInv => MarkedOnlyIfSent
  BY DEF DeliveryInv
<1> QED BY <1>1, DeliveryInvariant, PTL

(* Delivery does not disturb the log: also with requests that end anywhere *)
(* and restarts that roll transactions back, the log implements the        *)
(* append-only ledger.                                                     *)
THEOREM DeliveryKeepsLedger == DSpec => LedgerSpec
<1>1. DInit => Ledger!Init
  BY DEF DInit, Init, Ledger!Init, HeadHash, GENESIS_HASH
<1>2. ASSUME DeliveryInv, DeliveryInv', [DNext]_allVars
      PROVE  [Ledger!Next]_HeadHash
  <2>1. CASE [Next]_vars
    BY <1>2, <2>1, LedgerStep DEF DeliveryInv
  <2>2. CASE UNCHANGED events
    BY <2>2 DEF HeadHash, LatestRow, IsLatest
  <2>3. [Next]_vars \/ UNCHANGED events
    BY <1>2 DEF DNext, allVars, Next, IngestFetch, IngestPublish, IngestRecord, IngestFails,
       Return, Relay, RelayFetch, RelayPublish, RelayRecord, RelayDies, Restart, vars
  <2> QED BY <2>1, <2>2, <2>3
<1> QED BY <1>1, <1>2, DeliveryInvariant, PTL DEF DSpec, LedgerSpec, Ledger!Spec

(* record_delivery keeps a published_at that is there.                     *)
LEMMA RecordKeepsPublished ==
  ASSUME DeliveryInv, NEW seq, NEW ok, event_delivery' = record_delivery(seq, ok),
         NEW s \in DOMAIN event_delivery, Published(s)
  PROVE  Published(s)'
BY DEF record_delivery, Published

(* No failed attempt, in whatever order attempts are recorded, takes back  *)
(* the published_at of a row.                                              *)
THEOREM PublishedStays == DSpec => PublishedForGood
<1>1. DeliveryInv /\ [DNext]_allVars =>
        [\A s \in DOMAIN event_delivery : Published(s) => Published(s)']_allVars
  <2> SUFFICES ASSUME DeliveryInv, DNext, NEW s \in DOMAIN event_delivery, Published(s)
               PROVE  Published(s)'
    OBVIOUS
  <2>1. CASE UNCHANGED event_delivery
    BY <2>1 DEF Published
  <2>2. ASSUME NEW w \in Workers, IngestRecord(w) PROVE Published(s)'
    <3>1. PICK seq, ok : seq = tx[w].event_seq /\ ok = ingest[w].ok
      OBVIOUS
    <3>2. event_delivery' = record_delivery(seq, ok)
      BY <2>2, <3>1 DEF IngestRecord
    <3> QED BY <3>2, RecordKeepsPublished
  <2>3. CASE RelayRecord
    <3>1. PICK seq, ok : seq = Min(relay.batch) /\ ok = relay.ok
      OBVIOUS
    <3>2. event_delivery' = record_delivery(seq, ok)
      BY <2>3, <3>1 DEF RelayRecord
    <3> QED BY <3>2, RecordKeepsPublished
  <2>4. \/ UNCHANGED event_delivery
        \/ \E w \in Workers : IngestRecord(w)
        \/ RelayRecord
    BY DEF DNext, deliveryVars, IngestFetch, IngestPublish, IngestFails, Relay, RelayFetch,
       RelayPublish, RelayDies, Restart
  <2> QED BY <2>1, <2>2, <2>3, <2>4
<1> QED BY <1>1, DeliveryInvariant, PTL DEF DSpec, PublishedForGood

-----------------------------------------------------------------------------
(* Verification.                                                           *)

(* Every row's number was handed out by the identity column.               *)
SeqBound ==
  /\ \A i \in 1..Len(events) : events[i].event_seq \in 1..MaxSeq
  /\ \A w \in Workers : tx[w].pc = "commit" => tx[w].event_seq \in 1..MaxSeq

(* A row's hash covers the fields that were submitted, which the table may *)
(* give back in another spelling.                                          *)
RowsHashed ==
  \A i \in 1..Len(events) : \E f \in Inputs :
    /\ events[i].fields = stored(f)
    /\ events[i].event_hash = compute_event_hash(f, events[i].prev_hash)

VerifierStates == {[pc |-> "idle"]}
                    \cup [pc : {"range"}, start : Nat \ {0}, initial : Hashes]

(* What the hash before a range must be.                                   *)
HashBefore(start, hash) ==
  \/ start = 1 /\ hash = GENESIS_HASH
  \/ start - 1 \in Committed /\ hash = Row(start - 1).event_hash

(* The hash that was read before the range is still the right one.         *)
VerifierTrue ==
  /\ verifier \in VerifierStates
  /\ \A s \in Nat, h \in Hashes :
       verifier.pc = "range" /\ verifier.start = s /\ verifier.initial = h => HashBefore(s, h)

VerifyInv ==
  /\ IndInv
  /\ SeqBound
  /\ RowsHashed
  /\ VerifierTrue
  /\ NoFalseHashAlarm

(* jsonb respells nothing but a large float, and that as an integer.       *)
LEMMA StoredData ==
  ASSUME NEW f \in AuditFields, stored(f) # f
  PROVE  stored(f).data = "bigint"
BY DEF stored, AuditFields, Data

(* No step draws an identity value above the bound.                        *)
LEMMA SeqBoundStep ==
  ASSUME IndInv, SeqBound, RowsHashed, [Next]_vars
  PROVE  SeqBound' /\ RowsHashed'
<1>0. MaxSeq \in Nat /\ identity \in Nat \ {0} /\ events \in Seq(Rows) /\ Len(events) \in Nat
  BY MaxSeqAssumption, LenProperties DEF IndInv, TypeOK
<1>1. \A w \in Workers : tx'[w].pc = "commit" => tx'[w].event_seq \in 1..MaxSeq
  <2> SUFFICES ASSUME NEW w \in Workers, tx'[w].pc = "commit"
               PROVE  tx'[w].event_seq \in 1..MaxSeq
    OBVIOUS
  <2>1. CASE tx'[w] = tx[w]
    BY <2>1 DEF SeqBound
  <2>2. CASE Insert(w)
    <3>1. identity <= MaxSeq /\ tx'[w].event_seq = identity
      BY <2>2 DEF Insert, IndInv, TypeOK, Idle
    <3> QED BY <1>0, <3>1
  <2>3. tx'[w] = tx[w] \/ Insert(w)
    <3>1. CASE UNCHANGED vars
      BY <3>1 DEF vars
    <3>2. ASSUME NEW v \in Workers, Append_event(v) \/ Return(v), v # w
          PROVE  tx'[w] = tx[w]
      BY <3>2 DEF Append_event, BeginAppend, LockChain, ReadHead, Insert, CommitRow,
         SelectExisting, Abort, Return, IndInv, TypeOK
    <3>3. CASE Append_event(w) \/ Return(w)
      BY <3>3 DEF Append_event, BeginAppend, LockChain, ReadHead, CommitRow,
         SelectExisting, Abort, Return, IndInv, TypeOK, Idle
    <3> QED BY <3>1, <3>2, <3>3 DEF Next
  <2> QED BY <2>1, <2>2, <2>3
<1>2. CASE UNCHANGED events
  BY <1>1, <1>2 DEF SeqBound, RowsHashed
<1>3. ASSUME NEW w \in Workers, CommitRow(w)
      PROVE  SeqBound' /\ RowsHashed'
  <2> DEFINE n == Len(events)
             f == tx[w].fields
             row == [event_seq |-> tx[w].event_seq, fields |-> stored(f),
                     prev_hash |-> tx[w].prev_hash,
                     event_hash |-> compute_event_hash(f, tx[w].prev_hash)]
  <2>1. tx[w].event_seq \in 1..MaxSeq /\ f \in Inputs
    BY <1>3 DEF CommitRow, SeqBound, IndInv, HasFields
  <2>2. row.event_seq = tx[w].event_seq /\ row.fields = stored(f)
        /\ row.event_hash = compute_event_hash(f, row.prev_hash)
    OBVIOUS
  <2>3. events' = Append(events, row)
    BY <1>3 DEF CommitRow
  <2> HIDE DEF row
  <2>4. Len(events') = n + 1 /\ events'[n+1] = row /\ \A i \in 1..n : events'[i] = events[i]
    BY <1>0, <2>3
  <2>5. SeqBound'
    BY <1>0, <1>1, <2>1, <2>2, <2>4 DEF SeqBound
  <2>6. RowsHashed'
    <3> SUFFICES ASSUME NEW i \in 1..n+1
                 PROVE  \E g \in Inputs : /\ events'[i].fields = stored(g)
                          /\ events'[i].event_hash = compute_event_hash(g, events'[i].prev_hash)
      BY <2>4 DEF RowsHashed
    <3>1. CASE i \in 1..n
      BY <2>4, <3>1 DEF RowsHashed
    <3>2. CASE i = n + 1
      BY <2>1, <2>2, <2>4, <3>2
    <3> QED BY <1>0, <3>1, <3>2
  <2> QED BY <2>5, <2>6
<1> QED BY <1>2, <1>3, StepAppends

(* The numbers before one of the table's are finitely many.                *)
LEMMA BeforeIs ==
  ASSUME IndInv, NEW S \in SUBSET Committed, NEW s \in Nat
  PROVE  /\ Before(S, s) \in SUBSET (0..identity) /\ identity \in Nat
         /\ IsFiniteSet(Before(S, s)) /\ Cardinality(Before(S, s)) \in Nat
<1>1. identity \in Nat /\ Committed \in SUBSET (0..identity)
  BY CommittedBounded
<1>2. IsFiniteSet(0..identity)
  <2>1. 0 \in Int /\ identity \in Int
    BY <1>1
  <2> QED BY <2>1, FS_Interval
<1>3. Before(S, s) \in SUBSET (0..identity)
  BY <1>1 DEF Before
<1> QED BY <1>1, <1>2, <1>3, FS_Subset, FS_CardinalityType

(* The answer to a range query: rows of the range, and with a row of the   *)
(* range all that come before it.                                          *)
LEMMA RangeIs ==
  ASSUME IndInv, NEW start \in Nat, NEW end \in Nat, NEW limit \in Nat,
         NEW s \in DOMAIN RangeQuery(Table, start, end, limit)
  PROVE  /\ s \in Committed /\ start <= s /\ s <= end
         /\ RangeQuery(Table, start, end, limit)[s] = Row(s)
         /\ \A t \in Committed : start <= t /\ t < s =>
              t \in DOMAIN RangeQuery(Table, start, end, limit)
<1> DEFINE hits == {t \in Committed : start <= t /\ t <= end}
           D == {t \in hits : Cardinality(Before(hits, t)) < limit}
<1>1. DOMAIN Table = Committed /\ \A t \in Committed : Table[t] = Row(t)
  BY DEF Table
<1>2. RangeQuery(Table, start, end, limit) = [t \in D |-> Table[t]]
  BY <1>1 DEF RangeQuery
<1>3. s \in D /\ s \in hits
  BY <1>2
<1>4. Committed \subseteq Nat
  BY CommittedBounded
<1>5. ASSUME NEW t \in Committed, start <= t, t < s
      PROVE  t \in D
  <2>1. t \in hits /\ t \in Nat /\ s \in Nat /\ hits \in SUBSET Committed
    BY <1>3, <1>4, <1>5
  <2>2. Before(hits, t) \subseteq Before(hits, s)
    <3>1. \A u \in hits : u \in Nat /\ (u < t => u < s)
      BY <1>4, <1>5, <2>1
    <3> HIDE DEF hits
    <3> QED BY <3>1 DEF Before
  <2>3. IsFiniteSet(Before(hits, s)) /\ Cardinality(Before(hits, s)) \in Nat
    BY <2>1, BeforeIs
  <2>4. Cardinality(Before(hits, t)) \in Nat
    BY <2>1, BeforeIs
  <2>5. Cardinality(Before(hits, t)) <= Cardinality(Before(hits, s))
    BY <2>2, <2>3, FS_Subset
  <2>6. Cardinality(Before(hits, s)) < limit
    BY <1>3
  <2>7. Cardinality(Before(hits, t)) < limit
    BY <2>3, <2>4, <2>5, <2>6
  <2> QED BY <2>1, <2>7
<1> HIDE DEF D
<1> QED BY <1>1, <1>2, <1>3, <1>5

(* The row committed before a row is the one with the next lower number.   *)
LEMMA Predecessor ==
  ASSUME IndInv, NEW i \in 1..Len(events), i # 1
  PROVE  /\ events[i-1].event_seq \in Committed
         /\ events[i-1].event_seq < events[i].event_seq
         /\ \A t \in Committed : t < events[i].event_seq => t <= events[i-1].event_seq
         /\ Row(events[i-1].event_seq) = events[i-1]
<1>1. Len(events) \in Nat /\ \A j \in 1..Len(events) : events[j].event_seq \in Nat
  BY SeqIsNat, LenProperties DEF IndInv, TypeOK
<1>2. i - 1 \in 1..Len(events)
  BY <1>1
<1>3. events[i-1].event_seq \in Committed /\ Row(events[i-1].event_seq) = events[i-1]
  BY <1>2, RowAt DEF IndInv
<1>4. events[i-1].event_seq < events[i].event_seq
  BY <1>1, <1>2 DEF IndInv, SeqOrdered
<1>5. ASSUME NEW j \in 1..Len(events), events[j].event_seq < events[i].event_seq
      PROVE  events[j].event_seq <= events[i-1].event_seq
  <2>1. ~(i < j) /\ i # j
    BY <1>1, <1>5 DEF IndInv, SeqOrdered
  <2>2. j = i - 1 \/ j < i - 1
    BY <1>1, <2>1
  <2> QED BY <1>1, <1>2, <2>2 DEF IndInv, SeqOrdered
<1> QED BY <1>3, <1>4, <1>5 DEF Committed

(* In every range of the log, started from the hash before it, the walk    *)
(* meets each row with the hash that the row was linked to.                *)
LEMMA WalkMeetsLink ==
  ASSUME IndInv, SeqBound, NEW start \in Nat \ {0}, NEW end \in Nat, NEW limit \in Nat,
         NEW initial, HashBefore(start, initial),
         NEW s \in DOMAIN RangeQuery(Table, start, end, limit)
  PROVE  Previous(RangeQuery(Table, start, end, limit), initial, s) = Row(s).prev_hash
<1> DEFINE rows == RangeQuery(Table, start, end, limit)
           D == DOMAIN rows
           B == Before(D, s)
<1>0. start \in Nat
  OBVIOUS
<1>1. \A t \in D : /\ t \in Committed /\ start <= t /\ rows[t] = Row(t)
                   /\ \A u \in Committed : start <= u /\ u < t => u \in D
  BY <1>0, RangeIs
<1>2. PICK i \in 1..Len(events) : events[i].event_seq = s /\ Row(s) = events[i]
  BY <1>1, RowOf DEF IndInv
<1>3. Len(events) \in Nat /\ \A j \in 1..Len(events) : events[j].event_seq \in Nat
  BY SeqIsNat, LenProperties DEF IndInv, TypeOK
<1>4. events[i].prev_hash = IF i = 1 THEN GENESIS_HASH ELSE events[i-1].event_hash
  BY DEF IndInv, ChainLinked
<1>5. Committed \subseteq 1..MaxSeq /\ MaxSeq \in Nat
  BY MaxSeqAssumption DEF SeqBound, Committed
<1>6. i = 1 => \A t \in Committed : ~(t < s)
  <2> SUFFICES ASSUME i = 1, NEW j \in 1..Len(events) PROVE ~(events[j].event_seq < s)
    BY DEF Committed
  <2>1. j = 1 \/ 1 < j
    BY <1>3
  <2> QED BY <1>2, <1>3, <2>1 DEF IndInv, SeqOrdered
<1>7. s \in D /\ s \in Committed /\ start <= s
  BY <1>1
<1>8. \A t \in B : t \in D /\ t < s /\ t \in Committed
  BY <1>1 DEF Before
<1> HIDE DEF rows, D, B
<1>9. CASE B = {}
  <2>1. Previous(rows, initial, s) = initial
    BY <1>9 DEF Previous, B, D
  <2>2. initial = events[i].prev_hash
    <3>1. CASE i = 1
      <4>1. start - 1 \notin Committed
        <5>1. start - 1 < s
          BY <1>5, <1>7
        <5> QED BY <1>6, <3>1, <5>1
      <4> QED BY <1>4, <3>1, <4>1 DEF HashBefore
    <3>2. CASE i # 1
      <4> DEFINE p == events[i-1].event_seq
      <4>1. p \in Committed /\ p < s /\ Row(p) = events[i-1]
            /\ \A t \in Committed : t < s => t <= p
        BY <1>2, <3>2, Predecessor
      <4> HIDE DEF p
      <4>2. ~(start <= p)
        <5> SUFFICES ASSUME start <= p PROVE FALSE
          OBVIOUS
        <5>1. p \in D
          BY <1>1, <1>7, <4>1
        <5>2. p \in B
          BY <4>1, <5>1 DEF B, Before
        <5> QED BY <1>9, <5>2
      <4>3. p \in 1..MaxSeq /\ s \in 1..MaxSeq
        BY <1>5, <1>7, <4>1
      <4>4. start # 1
        BY <4>2, <4>3
      <4>5. start - 1 \in Committed /\ initial = Row(start - 1).event_hash
        BY <4>4 DEF HashBefore
      <4>6. start - 1 <= p
        BY <1>5, <1>7, <4>1, <4>3, <4>5
      <4>7. start - 1 = p
        BY <1>5, <4>2, <4>3, <4>6
      <4> QED BY <1>4, <3>2, <4>1, <4>5, <4>7
    <3> QED BY <3>1, <3>2
  <2> QED BY <1>2, <2>1, <2>2 DEF rows
<1>10. CASE B # {}
  <2>1. B \in SUBSET (0..identity) /\ identity \in Nat
    <3>1. D \in SUBSET Committed /\ s \in Nat
      BY <1>1, <1>5, <1>7
    <3> QED BY <3>1, BeforeIs DEF B
  <2>2. PICK m : m = Max(B)
    OBVIOUS
  <2>3. m \in B /\ \A t \in B : t <= m
    BY <1>10, <2>1, <2>2, GreatestIsMax
  <2>4. m \in D /\ m < s /\ m \in Committed /\ start <= m
    BY <1>1, <1>8, <2>3
  <2>5. i # 1
    BY <1>6, <2>4
  <2> DEFINE p == events[i-1].event_seq
  <2>6. p \in Committed /\ p < s /\ Row(p) = events[i-1]
        /\ \A t \in Committed : t < s => t <= p
    BY <1>2, <2>5, Predecessor
  <2> HIDE DEF p
  <2>7. p \in 1..MaxSeq /\ m \in 1..MaxSeq /\ m <= p
    BY <1>5, <2>4, <2>6
  <2>8. start <= p
    BY <2>4, <2>7
  <2>9. p \in B
    BY <1>1, <1>7, <2>6, <2>8 DEF B, Before
  <2>10. p = m
    BY <2>3, <2>7, <2>9
  <2>11. Previous(rows, initial, s) = rows[m].event_hash
    BY <1>10, <2>2 DEF Previous, B, D
  <2>12. rows[m] = Row(m)
    BY <1>1, <2>4
  <2> QED BY <1>2, <1>4, <2>5, <2>6, <2>10, <2>11, <2>12 DEF rows
<1> QED BY <1>9, <1>10

(* Of a range of the log, verify_chain reports gaps in the numbers, and    *)
(* hashes of rows that jsonb respelt.                                      *)
LEMMA ReportIs ==
  ASSUME IndInv, SeqBound, RowsHashed,
         NEW start \in Nat \ {0}, NEW end \in Nat, NEW limit \in Nat,
         NEW initial, HashBefore(start, initial),
         NEW v \in verify_chain(RangeQuery(Table, start, end, limit), initial),
         v.type # "SEQUENCE_GAP"
  PROVE  /\ v.type = "EVENT_HASH_MISMATCH"
         /\ v.event_seq \in Committed
         /\ Row(v.event_seq).fields.data = "bigint"
<1> DEFINE rows == RangeQuery(Table, start, end, limit)
<1>0. start \in Nat
  OBVIOUS
<1>1. PICK s \in DOMAIN rows : s = v.event_seq
  BY DEF verify_chain
<1>2. s \in Committed /\ rows[s] = Row(s)
  BY <1>0, <1>1, RangeIs
<1>3. Previous(rows, initial, s) = Row(s).prev_hash
  BY <1>1, WalkMeetsLink
<1> HIDE DEF rows
<1>4. ~PrevHashMismatch(rows, initial, s)
  BY <1>2, <1>3 DEF PrevHashMismatch
<1>5. v.type = "EVENT_HASH_MISMATCH" /\ EventHashMismatch(rows, initial, s)
  BY <1>1, <1>4 DEF verify_chain, rows
<1>6. PICK i \in 1..Len(events) : Row(s) = events[i]
  BY <1>2, RowOf DEF IndInv
<1>7. PICK f \in Inputs : /\ events[i].fields = stored(f)
                          /\ events[i].event_hash = compute_event_hash(f, events[i].prev_hash)
  BY DEF RowsHashed
<1>8. stored(f) # f
  BY <1>2, <1>3, <1>5, <1>6, <1>7 DEF EventHashMismatch
<1>9. stored(f).data = "bigint"
  BY <1>7, <1>8, StoredData, InputsAssumption
<1> QED BY <1>1, <1>2, <1>5, <1>6, <1>7, <1>9

(* The hash before a range stays what it is.                               *)
LEMMA HashBeforeKept ==
  ASSUME IndInv, IndInv', OnlyAppended, NEW s \in Nat, NEW h, HashBefore(s, h)
  PROVE  HashBefore(s, h)'
<1>1. CASE s = 1 /\ h = GENESIS_HASH
  BY <1>1 DEF HashBefore
<1>2. CASE s - 1 \in Committed /\ h = Row(s - 1).event_hash
  <2>1. s - 1 \in Committed' /\ Row(s - 1)' = Row(s - 1)
    BY <1>2, RowKept
  <2> QED BY <1>2, <2>1 DEF HashBefore
<1> QED BY <1>1, <1>2 DEF HashBefore

(* The invariant of verification holds at first.                           *)
LEMMA VerifyInvInit == VInit => VerifyInv
<1> SUFFICES ASSUME VInit PROVE VerifyInv
  OBVIOUS
<1>1. IndInv /\ events = << >> /\ 1..Len(events) = {}
  BY InitIndInv DEF VInit, Init
<1>2. SeqBound /\ RowsHashed
  BY <1>1 DEF VInit, Init, Idle, SeqBound, RowsHashed
<1>3. VerifierTrue /\ NoFalseHashAlarm
  BY DEF VInit, NoCheck, VerifierTrue, VerifierStates, NoFalseHashAlarm
<1> QED BY <1>1, <1>2, <1>3 DEF VerifyInv

(* A report stays true of the rows it names.                               *)
LEMMA ReportKept ==
  ASSUME VerifyInv, IndInv', OnlyAppended, UNCHANGED integrity_checks
  PROVE  NoFalseHashAlarm'
<1>1. \A s \in Committed : s \in Committed' /\ Row(s)' = Row(s)
  BY RowKept DEF VerifyInv
<1> SUFFICES ASSUME NEW v \in integrity_checks.violations, v.type # "SEQUENCE_GAP"
             PROVE  /\ v.type = "EVENT_HASH_MISMATCH"
                    /\ v.event_seq \in Committed'
                    /\ Row(v.event_seq)'.fields.data = "bigint"
  BY DEF NoFalseHashAlarm
<1>2. /\ v.type = "EVENT_HASH_MISMATCH"
      /\ v.event_seq \in Committed
      /\ Row(v.event_seq).fields.data = "bigint"
  BY DEF VerifyInv, NoFalseHashAlarm
<1> QED BY <1>1, <1>2

(* Every step of writers and verifier keeps the verification invariant.    *)
LEMMA VerifyInvNext == VerifyInv /\ [VNext]_<<vars, verifyVars>> => VerifyInv'
<1> SUFFICES ASSUME VerifyInv, [VNext]_<<vars, verifyVars>> PROVE VerifyInv'
  OBVIOUS
<1>1. [Next]_vars
  BY DEF VNext, ReadPrevious, CheckRange
<1>2. IndInv' /\ OnlyAppended /\ SeqBound' /\ RowsHashed'
  BY <1>1, StepIndInv, StepAppends, SeqBoundStep DEF VerifyInv
<1>3. CASE UNCHANGED verifyVars
  <2>1. UNCHANGED verifier /\ UNCHANGED integrity_checks
    BY <1>3 DEF verifyVars
  <2>2. VerifierTrue'
    BY <1>2, <2>1, HashBeforeKept DEF VerifyInv, VerifierTrue
  <2> QED BY <1>2, <2>1, <2>2, ReportKept DEF VerifyInv
<1>4. ASSUME NEW start \in 0..MaxSeq + 1, ReadPrevious(start)
      PROVE  VerifyInv'
  <2>1. UNCHANGED vars /\ UNCHANGED events /\ UNCHANGED integrity_checks
    BY <1>4 DEF ReadPrevious, vars
  <2>2. Committed' = Committed /\ \A s : Row(s)' = Row(s)
    BY <2>1, SameTable
  <2>3. start \in Nat
    BY MaxSeqAssumption
  <2>4. PICK b \in Nat \ {0}, h \in Hashes :
          /\ verifier' = [pc |-> "range", start |-> b, initial |-> h]
          /\ HashBefore(b, h)
    <3>1. CASE start <= 1 /\ verifier' = [pc |-> "range", start |-> 1, initial |-> GENESIS_HASH]
      <4>1. GENESIS_HASH \in Hashes
        BY EmptySeq DEF GENESIS_HASH, Hashes
      <4>2. HashBefore(1, GENESIS_HASH)
        BY DEF HashBefore
      <4> QED BY <3>1, <4>1, <4>2
    <3>2. CASE /\ start > 1 /\ start - 1 \in Committed
               /\ verifier' = [pc |-> "range", start |-> start, initial |-> Row(start - 1).event_hash]
      <4>1. Row(start - 1).event_hash \in Hashes
        <5>1. Row(start - 1) \in Rows
          BY <3>2, RowOf DEF VerifyInv, IndInv
        <5> QED BY <5>1 DEF Rows
      <4>2. HashBefore(start, Row(start - 1).event_hash)
        BY <3>2 DEF HashBefore
      <4>3. start \in Nat \ {0}
        BY <2>3, <3>2
      <4> QED BY <3>2, <4>1, <4>2, <4>3
    <3> QED BY <1>4, <3>1, <3>2 DEF ReadPrevious
  <2>5. HashBefore(b, h)'
    BY <2>2, <2>4 DEF HashBefore
  <2>6. VerifierTrue'
    BY <2>4, <2>5 DEF VerifierTrue, VerifierStates
  <2> QED BY <1>2, <2>1, <2>6, ReportKept DEF VerifyInv
<1>5. ASSUME NEW end \in 1..MaxSeq, NEW limit \in Limits, CheckRange(end, limit)
      PROVE  VerifyInv'
  <2>1. UNCHANGED events /\ verifier' = [pc |-> "idle"] /\ verifier.pc = "range"
    BY <1>5 DEF CheckRange, vars
  <2>2. Committed' = Committed /\ \A s : Row(s)' = Row(s)
    BY <2>1, SameTable
  <2>3. verifier \in [pc : {"range"}, start : Nat \ {0}, initial : Hashes]
    BY <2>1 DEF VerifyInv, VerifierTrue, VerifierStates
  <2>4. PICK b \in Nat \ {0}, h \in Hashes : b = verifier.start /\ h = verifier.initial
    BY <2>3
  <2>5. HashBefore(b, h)
    BY <2>1, <2>4 DEF VerifyInv, VerifierTrue
  <2>6. end \in Nat /\ limit \in Nat
    BY LimitsAssumption, MaxSeqAssumption
  <2>7. integrity_checks'.violations = verify_chain(RangeQuery(Table, b, end, limit), h)
    BY <1>5, <2>4 DEF CheckRange
  <2>8. NoFalseHashAlarm'
    <3> SUFFICES ASSUME NEW v \in integrity_checks'.violations, v.type # "SEQUENCE_GAP"
                 PROVE  /\ v.type = "EVENT_HASH_MISMATCH"
                        /\ v.event_seq \in Committed'
                        /\ Row(v.event_seq)'.fields.data = "bigint"
      BY DEF NoFalseHashAlarm
    <3>1. v \in verify_chain(RangeQuery(Table, b, end, limit), h)
      BY <2>7
    <3>2. IndInv /\ SeqBound /\ RowsHashed
      BY DEF VerifyInv
    <3>3. /\ v.type = "EVENT_HASH_MISMATCH"
          /\ v.event_seq \in Committed
          /\ Row(v.event_seq).fields.data = "bigint"
      BY <2>5, <2>6, <3>1, <3>2, ReportIs
    <3> QED BY <2>2, <3>3
  <2>9. VerifierTrue'
    BY <2>1 DEF VerifierTrue, VerifierStates
  <2> QED BY <1>2, <2>8, <2>9 DEF VerifyInv
<1> QED BY <1>3, <1>4, <1>5 DEF VNext

(* The verification invariant holds of every reachable state.              *)
THEOREM VerifyInvariant == VSpec => []VerifyInv
BY VerifyInvInit, VerifyInvNext, PTL DEF VSpec

(* Whatever range is verified, at whatever moment between the statements   *)
(* of the writers, verify_chain raises no false alarm about links or       *)
(* hashes.                                                                 *)
THEOREM NoFalseAlarm == VSpec => []NoFalseHashAlarm
<1>1. VerifyInv => NoFalseHashAlarm
  BY DEF VerifyInv
<1> QED BY <1>1, VerifyInvariant, PTL

(* The whole log is within the range 1..MaxSeq and its limit, also when    *)
(* rows were changed or removed.                                           *)
LEMMA WholeRange ==
  ASSUME IndInv, SeqBound, NEW table, DOMAIN table \subseteq Committed
  PROVE  /\ DOMAIN RangeQuery(table, 1, MaxSeq, MaxSeq) = DOMAIN table
         /\ \A s \in DOMAIN table : RangeQuery(table, 1, MaxSeq, MaxSeq)[s] = table[s]
<1> DEFINE hits == {s \in DOMAIN table : 1 <= s /\ s <= MaxSeq}
           D == {t \in hits : Cardinality(Before(hits, t)) < MaxSeq}
<1>1. Committed \subseteq 1..MaxSeq /\ MaxSeq \in Nat
  BY MaxSeqAssumption DEF SeqBound, Committed
<1>2. hits = DOMAIN table
  <2>1. ASSUME NEW s \in DOMAIN table PROVE 1 <= s /\ s <= MaxSeq
    <3>1. s \in Committed
      OBVIOUS
    <3>2. s \in 1..MaxSeq
      BY <1>1, <3>1
    <3> QED BY <1>1, <3>2
  <2> HIDE DEF D
  <2> QED BY <2>1
<1>3. ASSUME NEW t \in hits PROVE Cardinality(Before(hits, t)) < MaxSeq
  <2>1. t \in 1..MaxSeq /\ hits \subseteq 1..MaxSeq
    BY <1>1, <1>2
  <2>2. Before(hits, t) \subseteq 1..(t - 1)
    <3>1. \A u \in hits : u \in 1..MaxSeq
      BY <2>1
    <3> HIDE DEF hits
    <3>2. \A u \in Before(hits, t) : u \in 1..MaxSeq /\ u < t
      BY <3>1 DEF Before
    <3>3. \A u \in Before(hits, t) : u \in 1..(t - 1)
      BY <1>1, <2>1, <3>2
    <3> QED BY <3>3
  <2>3. IsFiniteSet(1..(t - 1)) /\ Cardinality(1..(t - 1)) = t - 1
    <3>1. 1 \in Int /\ t - 1 \in Int /\ t - 1 >= 0
      BY <1>1, <2>1
    <3>2. IsFiniteSet(1..(t - 1))
          /\ Cardinality(1..(t - 1)) = IF 1 > t - 1 THEN 0 ELSE (t - 1) - 1 + 1
      BY <3>1, FS_Interval
    <3> QED BY <3>1, <3>2
  <2>4. Cardinality(Before(hits, t)) <= t - 1 /\ IsFiniteSet(Before(hits, t))
    BY <2>2, <2>3, FS_Subset
  <2>5. Cardinality(Before(hits, t)) \in Nat
    BY <2>4, FS_CardinalityType
  <2> QED BY <1>1, <2>1, <2>4, <2>5
<1>4. D = DOMAIN table
  BY <1>2, <1>3
<1>5. RangeQuery(table, 1, MaxSeq, MaxSeq) = [s \in D |-> table[s]]
  BY DEF RangeQuery
<1> HIDE DEF D
<1> QED BY <1>4, <1>5

(* What the walk has seen before a row depends on the numbers and hashes   *)
(* of the rows only.                                                       *)
LEMMA SamePrevious ==
  ASSUME IndInv, NEW a, NEW b, NEW h, NEW s \in Nat,
         DOMAIN a \subseteq Committed, DOMAIN b = DOMAIN a,
         \A t \in DOMAIN a : b[t].event_hash = a[t].event_hash
  PROVE  Previous(b, h, s) = Previous(a, h, s)
<1> DEFINE B == Before(DOMAIN a, s)
<1>1. B \in SUBSET (0..identity) /\ identity \in Nat
  BY BeforeIs
<1>2. B # {} => Max(B) \in DOMAIN a
  <2>1. B # {} => Max(B) \in B
    BY <1>1, GreatestIsMax
  <2> QED BY <2>1 DEF Before
<1>3. /\ Previous(a, h, s) = IF B = {} THEN h ELSE a[Max(B)].event_hash
      /\ Previous(b, h, s) = IF B = {} THEN h ELSE b[Max(B)].event_hash
  BY DEF Previous
<1> HIDE DEF B
<1> QED BY <1>2, <1>3

(* Two different fields do not have the same hash.                         *)
LEMMA HashesDiffer ==
  ASSUME NEW f, NEW g, NEW h, NEW k \in Hashes,
         compute_event_hash(f, h) = k, compute_event_hash(g, h) = k, h \in Hashes
  PROVE  f = g
<1>1. Append(h, f)[Len(h) + 1] = f /\ Append(h, g)[Len(h) + 1] = g
  BY DEF Hashes
<1> QED BY <1>1 DEF compute_event_hash

(* A row that verify_chain does not report now is reported once one of its *)
(* columns is changed.                                                     *)
LEMMA TamperingIsReported ==
  ASSUME IndInv, SeqBound, NEW s \in Committed, NEW f \in AuditFields,
         ~Reported(WholeLog(Table), s), f # Table[s].fields
  PROVE  Reported(WholeLog([Table EXCEPT ![s].fields = f]), s)
<1> DEFINE a == RangeQuery(Table, 1, MaxSeq, MaxSeq)
           T == [Table EXCEPT ![s].fields = f]
           b == RangeQuery(T, 1, MaxSeq, MaxSeq)
           h == Previous(a, GENESIS_HASH, s)
<1>1. DOMAIN Table = Committed /\ \A t \in Committed : Table[t] = Row(t) /\ Table[t] \in Rows
  <2>1. DOMAIN Table = Committed /\ \A t \in Committed : Table[t] = Row(t)
    BY DEF Table
  <2>2. \A t \in Committed : Row(t) \in Rows
    BY RowOf DEF IndInv
  <2> QED BY <2>1, <2>2
<1>2. /\ DOMAIN T = Committed
      /\ T[s].fields = f /\ T[s].event_hash = Table[s].event_hash
      /\ \A t \in Committed : T[t].event_hash = Table[t].event_hash
  BY <1>1 DEF Rows
<1>3. DOMAIN a = Committed /\ \A t \in Committed : a[t] = Table[t]
  BY <1>1, WholeRange
<1> HIDE DEF T
<1>4. DOMAIN b = Committed /\ \A t \in Committed : b[t] = T[t]
  BY <1>2, WholeRange
<1>5. s \in Nat
  BY RowOf DEF IndInv
<1> HIDE DEF a, b
<1>6. Previous(b, GENESIS_HASH, s) = h
  <2>1. /\ DOMAIN a \subseteq Committed /\ DOMAIN b = DOMAIN a
        /\ \A t \in DOMAIN a : b[t].event_hash = a[t].event_hash
    BY <1>2, <1>3, <1>4
  <2> QED BY <1>5, <2>1, SamePrevious
<1>7. ~EventHashMismatch(a, GENESIS_HASH, s)
  <2> SUFFICES ASSUME EventHashMismatch(a, GENESIS_HASH, s) PROVE FALSE
    OBVIOUS
  <2> DEFINE v == [event_seq |-> s, type |-> "EVENT_HASH_MISMATCH"]
  <2>1. v \in verify_chain(a, GENESIS_HASH)
    BY <1>3 DEF verify_chain, ViolationTypes
  <2>2. v.event_seq = s
    OBVIOUS
  <2> QED BY <2>1, <2>2 DEF Reported, WholeLog, a
<1>8. Table[s].event_hash = compute_event_hash(Table[s].fields, h)
  BY <1>3, <1>7 DEF EventHashMismatch
<1>9. Table[s].event_hash \in Hashes /\ h \in Hashes
  <2>1. \A t \in Committed : Table[t].event_hash \in Hashes
    BY <1>1 DEF Rows
  <2>2. CASE Before(DOMAIN a, s) = {}
    BY <2>1, <2>2, EmptySeq DEF Previous, GENESIS_HASH, Hashes
  <2>3. CASE Before(DOMAIN a, s) # {}
    <3>1. Before(DOMAIN a, s) \in SUBSET (0..identity) /\ identity \in Nat
      BY <1>3, <1>5, BeforeIs
    <3>2. Max(Before(DOMAIN a, s)) \in Before(DOMAIN a, s)
      BY <2>3, <3>1, GreatestIsMax
    <3>3. Max(Before(DOMAIN a, s)) \in Committed
      BY <1>3, <3>2 DEF Before
    <3> QED BY <1>3, <2>1, <2>3, <3>3 DEF Previous
  <2> QED BY <2>1, <2>2, <2>3
<1> HIDE DEF h
<1>10. compute_event_hash(f, h) # Table[s].event_hash
  BY <1>8, <1>9, HashesDiffer
<1>11. EventHashMismatch(b, GENESIS_HASH, s)
  BY <1>2, <1>4, <1>6, <1>10 DEF EventHashMismatch
<1> DEFINE v == [event_seq |-> s, type |-> "EVENT_HASH_MISMATCH"]
<1>12. v \in verify_chain(b, GENESIS_HASH) /\ v.event_seq = s
  BY <1>4, <1>11 DEF verify_chain, ViolationTypes
<1> QED BY <1>12 DEF Reported, WholeLog, b, T

(* A row that is removed is missed by the next one: the walk meets it with *)
(* a hash over fewer events.                                               *)
LEMMA RemovalIsReported ==
  ASSUME IndInv, SeqBound, NEW s \in Committed, NEW t \in Committed, s < t,
         \A u \in Committed : u <= s \/ t <= u
  PROVE  [event_seq |-> t, type |-> "PREV_HASH_MISMATCH"]
            \in WholeLog([u \in Committed \ {s} |-> Row(u)])
<1> DEFINE T == [u \in Committed \ {s} |-> Row(u)]
           a == RangeQuery(T, 1, MaxSeq, MaxSeq)
           B == Before(Committed \ {s}, t)
<1>1. DOMAIN T = Committed \ {s} /\ \A u \in Committed \ {s} : T[u] = Row(u)
  OBVIOUS
<1> HIDE DEF T
<1>2. DOMAIN a = Committed \ {s} /\ \A u \in Committed \ {s} : a[u] = Row(u)
  BY <1>1, WholeRange
<1> HIDE DEF a
<1>3. Len(events) \in Nat /\ \A j \in 1..Len(events) : events[j].event_seq \in Nat
  BY SeqIsNat, LenProperties DEF IndInv, TypeOK
<1>4. PICK i \in 1..Len(events) : events[i].event_seq = t /\ Row(t) = events[i]
  BY RowOf DEF IndInv
<1>5. PICK k \in 1..Len(events) : events[k].event_seq = s /\ Row(s) = events[k]
  BY RowOf DEF IndInv
<1>6. k < i
  BY <1>3, <1>4, <1>5 DEF IndInv, SeqOrdered
<1>7. k = i - 1
  <2>1. i # 1 /\ i - 1 \in 1..Len(events)
    BY <1>3, <1>6
  <2>2. events[i-1].event_seq \in Committed /\ events[i-1].event_seq < t
        /\ s <= events[i-1].event_seq
    BY <1>4, <2>1, Predecessor
  <2>3. events[i-1].event_seq <= s
    BY <1>3, <1>4, <2>1, <2>2
  <2>4. events[i-1].event_seq = events[k].event_seq
    BY <1>3, <1>5, <2>1, <2>2, <2>3
  <2> QED BY <1>3, <1>6, <2>1, <2>4 DEF IndInv, SeqOrdered
<1>8. Row(t).prev_hash = events[k].event_hash /\ Len(events[k].event_hash) = k
  <2>1. i # 1
    BY <1>3, <1>6
  <2>2. events[i].prev_hash = events[i-1].event_hash
    BY <2>1 DEF IndInv, ChainLinked
  <2>3. Len(events[k].event_hash) = k
    BY DEF IndInv, HashCoversPrefix
  <2> QED BY <1>4, <1>7, <2>2, <2>3
<1>9. Previous(a, GENESIS_HASH, t) # Row(t).prev_hash
  <2>0. Previous(a, GENESIS_HASH, t) = IF B = {} THEN GENESIS_HASH ELSE a[Max(B)].event_hash
    BY <1>2 DEF Previous
  <2>1. CASE B = {}
    <3>1. Len(GENESIS_HASH) = 0
      BY DEF GENESIS_HASH
    <3> QED BY <1>8, <2>0, <2>1, <3>1
  <2>2. CASE B # {}
    <3>1. PICK m : m = Max(B)
      OBVIOUS
    <3>2. t \in Nat
      BY <1>3, <1>4
    <3>3. B \in SUBSET (0..identity) /\ identity \in Nat
      BY <3>2, BeforeIs
    <3>4. m \in B
      BY <2>2, <3>1, <3>3, GreatestIsMax
    <3>5. m \in Committed \ {s}
      BY <3>4 DEF Before
    <3>6. PICK j \in 1..Len(events) : events[j].event_seq = m /\ Row(m) = events[j]
      BY <3>5, RowOf DEF IndInv
    <3>7. j # k
      BY <1>5, <3>5, <3>6
    <3>8. Len(events[j].event_hash) = j
      BY DEF IndInv, HashCoversPrefix
    <3>9. Previous(a, GENESIS_HASH, t) = events[j].event_hash
      BY <1>2, <2>0, <2>2, <3>1, <3>5, <3>6
    <3> QED BY <1>8, <3>7, <3>8, <3>9
  <2> QED BY <2>1, <2>2
<1>10. t \in DOMAIN a /\ PrevHashMismatch(a, GENESIS_HASH, t)
  <2>1. t \in Committed \ {s}
    BY <1>3, <1>4, <1>5
  <2> QED BY <1>2, <1>9, <2>1 DEF PrevHashMismatch
<1> DEFINE v == [event_seq |-> t, type |-> "PREV_HASH_MISMATCH"]
<1>11. v \in [event_seq : DOMAIN a, type : ViolationTypes]
       /\ v.event_seq = t /\ v.type = "PREV_HASH_MISMATCH"
  BY <1>10 DEF ViolationTypes
<1> HIDE DEF v
<1>12. v \in verify_chain(a, GENESIS_HASH)
  BY <1>10, <1>11 DEF verify_chain
<1> QED BY <1>12 DEF v, WholeLog, a, T

(* No change of a hashed field of a row that verifies goes unnoticed by a  *)
(* verification of the whole log.                                          *)
THEOREM TamperingIsDetected == VSpec => []TamperedRowReported
<1>1. VerifyInv => TamperedRowReported
  <2> SUFFICES ASSUME VerifyInv,
                      NEW s \in {u \in Committed : ~Reported(WholeLog(Table), u)},
                      NEW f \in AuditFields, f # Table[s].fields
               PROVE  Reported(WholeLog([Table EXCEPT ![s].fields = f]), s)
    BY DEF TamperedRowReported
  <2>1. IndInv /\ SeqBound
    BY DEF VerifyInv
  <2> QED BY <2>1, TamperingIsReported
<1> QED BY <1>1, VerifyInvariant, PTL

(* No row but the last can be taken out of the log without the row that    *)
(* followed it being reported.                                             *)
THEOREM RemovalIsDetected == VSpec => []RemovedRowReported
<1>1. VerifyInv => RemovedRowReported
  <2>1. VerifyInv => IndInv /\ SeqBound
    BY DEF VerifyInv
  <2> QED BY <2>1, RemovalIsReported DEF RemovedRowReported
<1> QED BY <1>1, VerifyInvariant, PTL

=============================================================================
