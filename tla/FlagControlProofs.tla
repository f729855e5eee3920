-------------------------- MODULE FlagControlProofs --------------------------
(***************************************************************************)
(* What the flag control service, the reconcilers and the two engines      *)
(* guarantee for any number of operators, reconcilers, engines and keys,   *)
(* and for any flags and contexts.                                         *)
(***************************************************************************)
EXTENDS FlagControl, TLAPS, FiniteSetTheorems, WellFoundedInduction

Change == {<< >>} \cup ({"status"} \X {"ACTIVE", "DISABLED", "RETIRED"})
                  \cup ({"rollout"} \X Rollouts)

CallRecord == [pc : {"idle", "write", "audit", "publish"}, key : Keys \cup {None},
               change : Change, after : Nat]

SweepRecord == [pc : {"idle", "drift", "put", "zombies"}, due : SUBSET Keys,
                rows : SUBSET CompiledFlag, put : CompiledFlag \cup {None}]

Snapshot == [baked : BOOLEAN, fetched_at : Times,
             flags : UNION {[D -> CompiledFlag] : D \in SUBSET Keys}]

FlagsTyped ==
  /\ flags \in [Keys -> CompiledFlag \cup {None}]
  /\ redis \in [Keys -> CompiledFlag \cup {None}]
  /\ call \in [Threads -> CallRecord]
  /\ sweep \in [Sweepers -> SweepRecord]
  /\ current \in [Engines -> Snapshot]
  /\ pinned \in [Engines -> Snapshot \cup {None}]
  /\ now \in Times
  /\ flag_events \subseteq Keys \X Nat
  /\ unaudited \subseteq Keys \X Nat

Safe(row) == row.flag_class = "SAFETY_CRITICAL" => ~row.fail_value

(* The rows of the table: each under its key, and fail-closed.             *)
RowsOk == \A k \in Keys : flags[k] # None => flags[k].flag_key = k /\ Safe(flags[k])

(* A copy of a row of this key, taken when the row was younger, or the row *)
(* itself: no two states of a row have the same generation.                *)
CopyOf(c, k) ==
  /\ c \in CompiledFlag /\ c.flag_key = k /\ Safe(c)
  /\ flags[k] # None
  /\ c.generation <= flags[k].generation
  /\ c.generation = flags[k].generation => c = flags[k]

(* What the copies of rows are, wherever they are on their way.            *)
CacheOk == \A k \in Keys : redis[k] # None => CopyOf(redis[k], k)

SweepOk(w) ==
  /\ \A row \in w.rows : CopyOf(row, row.flag_key)
  /\ w.pc = "put" => CopyOf(w.put, w.put.flag_key)

SweepsOk == \A s \in Sweepers : SweepOk(sweep[s])

SnapshotOk(s) == ~s.baked => \A k \in DOMAIN s.flags : CopyOf(s.flags[k], k)

SnapshotsOk ==
  /\ \A e \in Engines : SnapshotOk(current[e])
  /\ \A e \in Engines : pinned[e] # None => SnapshotOk(pinned[e])

(* What a request has read or written: a row that left DRAFT does not      *)
(* return there.                                                           *)
CallOk(c) ==
  /\ c.pc \in {"write", "audit"} => c.key \in Keys /\ flags[c.key] # None
  /\ c.pc = "write" =>
       /\ c.change # << >>
       /\ c.change[1] = "status" /\ c.change[2] # "ACTIVE" => flags[c.key].status # "DRAFT"

CallsOk == \A t \in Threads : CallOk(call[t])

(* The request of t owes the event of generation g of the row of k.        *)
Owes(t, k, g) == call[t].pc = "audit" /\ call[t].key = k /\ call[t].after = g

(* The row of k has been through generation g.                             *)
Reached(k, g) == flags[k] # None /\ g \in 1..flags[k].generation

(* A generation is accounted for when the row has reached it, and once.    *)
EventsExact ==
  /\ \A k \in Keys, g \in Nat :
       Reached(k, g) <=>
         (\/ <<k, g>> \in flag_events
          \/ <<k, g>> \in unaudited
          \/ \E t \in Threads : Owes(t, k, g))
  /\ flag_events \cap unaudited = {}
  /\ \A t \in Threads, k \in Keys, g \in Nat :
       Owes(t, k, g) => <<k, g>> \notin flag_events \cup unaudited
  /\ \A t, u \in Threads, k \in Keys, g \in Nat : Owes(t, k, g) /\ Owes(u, k, g) => t = u

ControlInv ==
  /\ FlagsTyped /\ RowsOk /\ CacheOk /\ SweepsOk /\ SnapshotsOk /\ CallsOk /\ EventsExact

(* What no step takes back.                                                *)
RowsGrow ==
  \A k \in Keys : flags[k] # None =>
    /\ flags'[k] # None
    /\ flags'[k] = flags[k] \/ flags[k].generation < flags'[k].generation
    /\ flags[k].status # "DRAFT" => flags'[k].status # "DRAFT"

------------------------------------------------------------------------------
(* A row that is there is a compiled flag with a generation.               *)
LEMMA RowTyped ==
  ASSUME FlagsTyped, NEW k \in Keys, flags[k] # None
  PROVE  flags[k] \in CompiledFlag /\ flags[k].generation \in Nat \ {0}
<1>1. flags[k] \in CompiledFlag
  BY DEF FlagsTyped
<1>. QED
  BY <1>1 DEF CompiledFlag

(* The fields of a compiled flag.                                          *)
LEMMA CompiledParts ==
  ASSUME NEW c \in CompiledFlag
  PROVE  /\ c.flag_key \in Keys /\ c.generation \in Nat \ {0}
         /\ c.status \in {"DRAFT", "ACTIVE", "DISABLED", "RETIRED"}
         /\ c.flag_type \in {"BOOLEAN", "PERCENTAGE", "ALLOWLIST", "DENYLIST"}
         /\ c.flag_class \in {"SAFETY_CRITICAL", "TRADING_BEHAVIOR", "STANDARD"}
         /\ c.fail_value \in BOOLEAN /\ c.bool_value \in BOOLEAN
<1>1. DOMAIN staleness_limit_ms = {"SAFETY_CRITICAL", "TRADING_BEHAVIOR", "STANDARD"}
  BY DEF staleness_limit_ms
<1>. QED
  BY <1>1 DEF CompiledFlag

(* set_status and set_rollout make the next generation of the row.         *)
LEMMA ChangedIs ==
  ASSUME NEW row \in CompiledFlag, NEW change \in Change, change # << >>
  PROVE  LET new == Changed(row, change) IN
         /\ new \in CompiledFlag
         /\ new.generation = row.generation + 1
         /\ new.flag_key = row.flag_key /\ new.flag_class = row.flag_class
         /\ new.fail_value = row.fail_value
         /\ change[1] = "status" => new.status = change[2] /\ change[2] \in {"ACTIVE", "DISABLED", "RETIRED"}
         /\ change[1] # "status" => new.status = row.status
<1>1. CASE change \in {"status"} \X {"ACTIVE", "DISABLED", "RETIRED"}
  <2>1. change[1] = "status" /\ change[2] \in {"ACTIVE", "DISABLED", "RETIRED"}
    BY <1>1
  <2>. DEFINE g == row.generation + 1
              new == [row EXCEPT !.status = change[2], !.generation = g]
  <2>2. Changed(row, change) = new
    BY <2>1 DEF Changed
  <2>3. g \in Nat \ {0}
    BY DEF CompiledFlag
  <2>. HIDE DEF g
  <2>4. new \in CompiledFlag
    BY <2>1, <2>3 DEF CompiledFlag
  <2>5. /\ new.generation = g /\ new.status = change[2]
        /\ new.flag_key = row.flag_key /\ new.flag_class = row.flag_class
        /\ new.fail_value = row.fail_value
    BY DEF CompiledFlag
  <2>. HIDE DEF new
  <2>. QED
    BY <2>1, <2>2, <2>4, <2>5 DEF g
<1>2. CASE change \in {"rollout"} \X Rollouts
  <2>1. change[1] = "rollout" /\ change[2] \in 0..MODULUS
    BY <1>2, ControlAssumption
  <2>. DEFINE g == row.generation + 1
              new == [row EXCEPT !.rollout_bps = change[2], !.generation = g]
  <2>2. Changed(row, change) = new
    BY <2>1 DEF Changed
  <2>3. g \in Nat \ {0}
    BY DEF CompiledFlag
  <2>. HIDE DEF g
  <2>4. new \in CompiledFlag
    BY <2>1, <2>3 DEF CompiledFlag
  <2>5. /\ new.generation = g /\ new.rollout_bps = change[2]
        /\ new.flag_key = row.flag_key /\ new.flag_class = row.flag_class
        /\ new.fail_value = row.fail_value /\ new.status = row.status
    BY DEF CompiledFlag
  <2>. HIDE DEF new
  <2>. QED
    BY <2>1, <2>2, <2>4, <2>5 DEF g
<1>. QED
  BY <1>1, <1>2 DEF Change

(* A copy of a row stays one, whatever happens to the row.                 *)
LEMMA CopyStable ==
  ASSUME FlagsTyped, FlagsTyped', RowsGrow, NEW c, NEW k \in Keys, CopyOf(c, k)
  PROVE  CopyOf(c, k)'
<1>1. flags[k] # None /\ flags'[k] # None /\ c \in CompiledFlag
  BY DEF CopyOf, RowsGrow
<1>2. flags[k].generation \in Nat /\ c.generation \in Nat
  BY <1>1, RowTyped, CompiledParts
<1>3. flags'[k] \in CompiledFlag
  BY <1>1 DEF FlagsTyped
<1>4. flags'[k].generation \in Nat
  BY <1>3, CompiledParts
<1>. QED
  BY <1>1, <1>2, <1>4 DEF CopyOf, RowsGrow, Safe

(* What a sweep holds stays a copy of a row, although the row changes.     *)
LEMMA SweepStable ==
  ASSUME FlagsTyped, FlagsTyped', RowsGrow, NEW w \in SweepRecord, SweepOk(w)
  PROVE  SweepOk(w)'
<1>1. \A row \in w.rows : CopyOf(row, row.flag_key)'
  <2>. SUFFICES ASSUME NEW row \in w.rows PROVE CopyOf(row, row.flag_key)'
    OBVIOUS
  <2>1. row \in CompiledFlag /\ CopyOf(row, row.flag_key)
    BY DEF SweepOk, SweepRecord
  <2>. QED
    BY <2>1, CompiledParts, CopyStable
<1>2. w.pc = "put" => CopyOf(w.put, w.put.flag_key)'
  <2>. SUFFICES ASSUME w.pc = "put" PROVE CopyOf(w.put, w.put.flag_key)'
    OBVIOUS
  <2>1. CopyOf(w.put, w.put.flag_key) /\ w.put \in CompiledFlag
    BY DEF SweepOk, CopyOf
  <2>. QED
    BY <2>1, CompiledParts, CopyStable
<1>. QED
  BY <1>1, <1>2 DEF SweepOk

(* So does what a snapshot holds.                                          *)
LEMMA SnapshotStable ==
  ASSUME FlagsTyped, FlagsTyped', RowsGrow, NEW s \in Snapshot, SnapshotOk(s)
  PROVE  SnapshotOk(s)'
<1>1. DOMAIN s.flags \subseteq Keys
  BY DEF Snapshot
<1>. QED
  BY <1>1, CopyStable DEF SnapshotOk

(* What a request knows is not undone by the writes of others.             *)
LEMMA CallStable ==
  ASSUME RowsGrow, NEW c \in CallRecord, CallOk(c)
  PROVE  CallOk(c)'
BY DEF RowsGrow, CallOk, CallRecord

(* A step that at most adds rows and generations keeps what all others     *)
(* rely on.                                                                *)
LEMMA ReadersKept ==
  ASSUME ControlInv, FlagsTyped', RowsGrow
  PROVE  /\ redis' = redis => CacheOk'
         /\ UNCHANGED store => SnapshotsOk'
         /\ \A s \in Sweepers : sweep'[s] = sweep[s] => SweepOk(sweep[s])'
         /\ \A t \in Threads : call'[t] = call[t] => CallOk(call[t])'
<1>1. redis' = redis => CacheOk'
  BY CopyStable DEF ControlInv, CacheOk
<1>2. UNCHANGED store => SnapshotsOk'
  <2>. SUFFICES ASSUME UNCHANGED store PROVE SnapshotsOk'
    OBVIOUS
  <2>1. \A e \in Engines : current[e] \in Snapshot /\ (pinned[e] # None => pinned[e] \in Snapshot)
    BY DEF ControlInv, FlagsTyped
  <2>2. \A e \in Engines : SnapshotOk(current[e]) /\ (pinned[e] # None => SnapshotOk(pinned[e]))
    BY DEF ControlInv, SnapshotsOk
  <2>3. current' = current /\ pinned' = pinned
    BY DEF store
  <2>4. \A e \in Engines : SnapshotOk(current[e])' /\ (pinned[e] # None => SnapshotOk(pinned[e])')
    BY <2>1, <2>2, <2>3, SnapshotStable DEF ControlInv
  <2>. QED
    BY <2>3, <2>4 DEF SnapshotsOk
<1>3. \A s \in Sweepers : sweep'[s] = sweep[s] => SweepOk(sweep[s])'
  <2>1. \A s \in Sweepers : sweep[s] \in SweepRecord /\ SweepOk(sweep[s])
    BY DEF ControlInv, FlagsTyped, SweepsOk
  <2>. QED
    BY <2>1, SweepStable DEF ControlInv
<1>4. \A t \in Threads : call'[t] = call[t] => CallOk(call[t])'
  <2>1. \A t \in Threads : call[t] \in CallRecord /\ CallOk(call[t])
    BY DEF ControlInv, FlagsTyped, CallsOk
  <2>. QED
    BY <2>1, CallStable
<1>. QED
  BY <1>1, <1>2, <1>3, <1>4

------------------------------------------------------------------------------
(* A thread without a request knows nothing.                               *)
LEMMA IdleTyped == Idle \in CallRecord /\ Idle.pc = "idle" /\ CallOk(Idle)
<1>1. << >> \in Change
  BY DEF Change
<1>2. Idle \in CallRecord
  BY <1>1 DEF Idle, CallRecord
<1>. QED
  BY <1>2 DEF Idle, CallOk

(* One thread takes a step.                                                *)
LEMMA CallBecomes ==
  ASSUME FlagsTyped, NEW t \in Threads, NEW STATE c, c \in CallRecord,
         call' = [call EXCEPT ![t] = c]
  PROVE  /\ call' \in [Threads -> CallRecord]
         /\ call'[t] = c
         /\ \A u \in Threads : u # t => call'[u] = call[u]
BY DEF FlagsTyped

(* One reconciler takes a step.                                            *)
LEMMA SweepBecomes ==
  ASSUME FlagsTyped, NEW s \in Sweepers, NEW STATE w, w \in SweepRecord,
         sweep' = [sweep EXCEPT ![s] = w]
  PROVE  /\ sweep' \in [Sweepers -> SweepRecord]
         /\ sweep'[s] = w
         /\ \A u \in Sweepers : u # s => sweep'[u] = sweep[u]
BY DEF FlagsTyped

(* Nobody writes a row or an event.                                        *)
LEMMA EventsKept ==
  ASSUME ControlInv, UNCHANGED <<flags, flag_events, unaudited>>,
         \A t \in Threads :
           call'[t] = call[t] \/ (call[t].pc # "audit" /\ call'[t].pc # "audit")
  PROVE  EventsExact'
<1>1. \A t \in Threads, k \in Keys, g \in Nat : Owes(t, k, g)' <=> Owes(t, k, g)
  BY DEF Owes
<1>2. \A k \in Keys, g \in Nat : Reached(k, g)' <=> Reached(k, g)
  BY DEF Reached
<1>. QED
  BY <1>1, <1>2 DEF ControlInv, EventsExact

(* The table stays as it is.                                               *)
LEMMA RowsKept ==
  ASSUME ControlInv, flags' = flags
  PROVE  RowsOk' /\ RowsGrow
BY DEF ControlInv, RowsOk, Safe, RowsGrow

(* A step of one request that does not write a row.                        *)
LEMMA RequestStep ==
  ASSUME ControlInv, NEW t \in Threads,
         UNCHANGED <<flags, redis, sweep, store, now>>,
         call' \in [Threads -> CallRecord],
         \A u \in Threads : u # t => call'[u] = call[u],
         CallOk(call[t])', EventsExact',
         flag_events' \subseteq Keys \X Nat, unaudited' \subseteq Keys \X Nat
  PROVE  ControlInv'
<1>1. current' = current /\ pinned' = pinned
  BY DEF store
<1>2. FlagsTyped'
  BY <1>1 DEF ControlInv, FlagsTyped
<1>3. RowsOk' /\ RowsGrow
  BY RowsKept
<1>4. CacheOk' /\ SnapshotsOk' /\ (\A s \in Sweepers : SweepOk(sweep[s])')
      /\ (\A u \in Threads : u # t => CallOk(call[u])')
  BY <1>2, <1>3, ReadersKept
<1>. QED
  BY <1>2, <1>3, <1>4 DEF ControlInv, SweepsOk, CallsOk

(* A request has read a row and passed its checks, and will write.         *)
LEMMA StartWith ==
  ASSUME ControlInv, NEW t \in Threads, NEW k \in Keys, NEW change \in Change,
         change # << >>, flags[k] # None, call[t].pc = "idle",
         change[1] = "status" /\ change[2] # "ACTIVE" => flags[k].status # "DRAFT",
         UNCHANGED <<flags, redis, flag_events, sweep, unaudited, store, now>>,
         call' = [call EXCEPT ![t] = [pc |-> "write", key |-> k, change |-> change, after |-> 0]]
  PROVE  ControlInv'
<1>. DEFINE c == [pc |-> "write", key |-> k, change |-> change, after |-> 0]
<1>2. c \in CallRecord /\ c.pc = "write" /\ c.key = k /\ c.change = change
  BY DEF CallRecord
<1>3. call' = [call EXCEPT ![t] = c]
  OBVIOUS
<1>. HIDE DEF c
<1>4. /\ call' \in [Threads -> CallRecord] /\ call'[t] = c
      /\ \A u \in Threads : u # t => call'[u] = call[u]
  BY <1>2, <1>3, CallBecomes DEF ControlInv
<1>5. EventsExact'
  BY <1>2, <1>4, EventsKept
<1>6. CallOk(call[t])'
  BY <1>2, <1>4 DEF CallOk
<1>. QED
  BY <1>4, <1>5, <1>6, RequestStep DEF ControlInv, FlagsTyped

(* transition and update_rollout up to their write.                        *)
LEMMA StartStep ==
  ASSUME ControlInv, NEW t \in Threads, NEW k \in Keys, NEW authority,
         \/ \E target \in {"ACTIVE", "DISABLED", "RETIRED"} : transition(t, k, authority, target)
         \/ \E bps \in Rollouts : update_rollout(t, k, authority, bps)
  PROVE  ControlInv'
<1>1. ASSUME NEW target \in {"ACTIVE", "DISABLED", "RETIRED"}, transition(t, k, authority, target)
      PROVE  ControlInv'
  <2>1. <<"status", target>> \in Change /\ <<"status", target>> # << >>
    BY DEF Change
  <2>2. flags[k].status = "DRAFT" => target = "ACTIVE"
    BY <1>1 DEF transition, Transitions
  <2>. QED
    BY <1>1, <2>1, <2>2, StartWith DEF transition
<1>2. ASSUME NEW bps \in Rollouts, update_rollout(t, k, authority, bps)
      PROVE  ControlInv'
  <2>1. <<"rollout", bps>> \in Change /\ <<"rollout", bps>> # << >>
    BY DEF Change
  <2>. QED
    BY <1>2, <2>1, StartWith DEF update_rollout
<1>. QED
  BY <1>1, <1>2

(* A request ends without an event to write.                               *)
LEMMA EndStep ==
  ASSUME ControlInv, NEW t \in Threads, Finish(t), call[t].pc # "audit",
         UNCHANGED <<flags, redis, flag_events, sweep, unaudited, store, now>>
  PROVE  ControlInv'
<1>1. /\ call' \in [Threads -> CallRecord] /\ call'[t] = Idle
      /\ \A u \in Threads : u # t => call'[u] = call[u]
  BY IdleTyped, CallBecomes DEF ControlInv, Finish
<1>2. EventsExact'
  BY <1>1, IdleTyped, EventsKept
<1>3. CallOk(call[t])'
  BY <1>1, IdleTyped DEF CallOk
<1>. QED
  BY <1>1, <1>2, <1>3, RequestStep DEF ControlInv, FlagsTyped

(* The event of a write is stored, or lost with the request.               *)
LEMMA EventStep ==
  ASSUME ControlInv, NEW t \in Threads, call[t].pc = "audit",
         UNCHANGED <<flags, redis, sweep, store, now>>,
         call' \in [Threads -> CallRecord], call'[t].pc \in {"publish", "idle"},
         \A u \in Threads : u # t => call'[u] = call[u],
         LET event == {<<call[t].key, call[t].after>>} IN
         \/ flag_events' = flag_events \cup event /\ unaudited' = unaudited
         \/ unaudited' = unaudited \cup event /\ flag_events' = flag_events
  PROVE  ControlInv'
<1>. DEFINE kt == call[t].key
            gt == call[t].after
<1>1. kt \in Keys /\ gt \in Nat /\ Owes(t, kt, gt)
  <2>1. call[t] \in CallRecord /\ CallOk(call[t])
    BY DEF ControlInv, FlagsTyped, CallsOk
  <2>. QED
    BY <2>1 DEF CallRecord, CallOk, Owes
<1>2. \A u \in Threads, k \in Keys, g \in Nat :
        Owes(u, k, g)' <=> (u # t /\ Owes(u, k, g))
  BY DEF Owes
<1>3. \A k \in Keys, g \in Nat : Owes(t, k, g) <=> (k = kt /\ g = gt)
  BY DEF Owes
<1>. HIDE DEF kt, gt, Owes
<1>4. \/ flag_events' = flag_events \cup {<<kt, gt>>} /\ unaudited' = unaudited
      \/ unaudited' = unaudited \cup {<<kt, gt>>} /\ flag_events' = flag_events
  BY DEF kt, gt
<1>5. <<kt, gt>> \notin flag_events \cup unaudited
      /\ \A u \in Threads : Owes(u, kt, gt) => u = t
  BY <1>1 DEF ControlInv, EventsExact
<1>6. EventsExact'
  <2>1. flag_events' \cup unaudited' = flag_events \cup unaudited \cup {<<kt, gt>>}
        /\ flag_events' \cap unaudited' = {}
    BY <1>4, <1>5 DEF ControlInv, EventsExact
  <2>2. \A k \in Keys, g \in Nat : <<k, g>> = <<kt, gt>> <=> (k = kt /\ g = gt)
    BY <1>1
  <2>3. \A k \in Keys, g \in Nat :
          (<<k, g>> \in flag_events' \/ <<k, g>> \in unaudited') <=>
            (<<k, g>> \in flag_events \/ <<k, g>> \in unaudited \/ (k = kt /\ g = gt))
    BY <2>1, <2>2
  <2>4. \A k \in Keys, g \in Nat :
          Reached(k, g) <=>
            (\/ <<k, g>> \in flag_events'
             \/ <<k, g>> \in unaudited'
             \/ \E u \in Threads : Owes(u, k, g)')
    <3>. SUFFICES ASSUME NEW k \in Keys, NEW g \in Nat PROVE <2>4!(k, g)
      OBVIOUS
    <3>1. (\E u \in Threads : Owes(u, k, g)) <=> (k = kt /\ g = gt) \/ \E u \in Threads : Owes(u, k, g)'
      BY <1>1, <1>2, <1>3
    <3>. QED
      BY <2>3, <3>1 DEF ControlInv, EventsExact
  <2>5. \A u \in Threads, k \in Keys, g \in Nat :
          Owes(u, k, g)' => <<k, g>> \notin flag_events' \cup unaudited'
    <3>. SUFFICES ASSUME NEW u \in Threads, NEW k \in Keys, NEW g \in Nat, Owes(u, k, g)'
                  PROVE  <<k, g>> \notin flag_events' /\ <<k, g>> \notin unaudited'
      OBVIOUS
    <3>1. u # t /\ Owes(u, k, g)
      BY <1>2
    <3>2. ~(k = kt /\ g = gt)
      BY <1>5, <3>1
    <3>3. <<k, g>> \notin flag_events /\ <<k, g>> \notin unaudited
      BY <3>1 DEF ControlInv, EventsExact
    <3>. QED
      BY <2>3, <3>2, <3>3
  <2>6. \A v, u \in Threads, k \in Keys, g \in Nat : Owes(v, k, g)' /\ Owes(u, k, g)' => v = u
    BY <1>2 DEF ControlInv, EventsExact
  <2>7. \A k \in Keys, g \in Nat : Reached(k, g)' <=> Reached(k, g)
    BY DEF Reached
  <2>. QED
    BY <2>1, <2>4, <2>5, <2>6, <2>7 DEF EventsExact
<1>7. flag_events' \subseteq Keys \X Nat /\ unaudited' \subseteq Keys \X Nat
  BY <1>1, <1>4 DEF ControlInv, FlagsTyped
<1>8. CallOk(call[t])'
  BY DEF CallOk
<1>. QED
  BY <1>6, <1>7, <1>8, RequestStep

(* The event of a write is recorded.                                       *)
LEMMA AuditStep ==
  ASSUME ControlInv, NEW t \in Threads, Audit(t)
  PROVE  ControlInv'
<1>. DEFINE c == [call[t] EXCEPT !.pc = "publish"]
<1>1. c \in CallRecord /\ c.pc = "publish"
  BY DEF ControlInv, FlagsTyped, CallRecord
<1>2. call' = [call EXCEPT ![t] = c]
  BY DEF Audit, Goto
<1>. HIDE DEF c
<1>3. /\ call' \in [Threads -> CallRecord] /\ call'[t] = c
      /\ \A u \in Threads : u # t => call'[u] = call[u]
  BY <1>1, <1>2, CallBecomes DEF ControlInv
<1>. QED
  BY <1>1, <1>3, EventStep DEF Audit

(* A request dies; the event it owed is lost.                              *)
LEMMA CrashStep ==
  ASSUME ControlInv, NEW t \in Threads, Crash(t)
  PROVE  ControlInv'
<1>1. CASE call[t].pc # "audit"
  BY <1>1, EndStep DEF Crash
<1>2. CASE call[t].pc = "audit"
  <2>1. /\ call' \in [Threads -> CallRecord] /\ call'[t] = Idle
        /\ \A u \in Threads : u # t => call'[u] = call[u]
    BY IdleTyped, CallBecomes DEF ControlInv, Crash, Finish
  <2>. QED
    BY <1>2, <2>1, IdleTyped, EventStep DEF Crash
<1>. QED
  BY <1>1, <1>2

------------------------------------------------------------------------------
(* `new' is the row of k after an INSERT or an UPDATE.                     *)
NextRow(k, new) ==
  /\ new \in CompiledFlag /\ new.flag_key = k /\ Safe(new)
  /\ IF flags[k] = None THEN new.generation = 1
     ELSE /\ new.generation = flags[k].generation + 1
          /\ flags[k].status # "DRAFT" => new.status # "DRAFT"

(* A row is written: it gets a generation that it has not had, and no row  *)
(* loses one.                                                              *)
LEMMA RowWritten ==
  ASSUME ControlInv, NEW k \in Keys, NEW new, NextRow(k, new),
         flags' = [flags EXCEPT ![k] = new]
  PROVE  /\ flags' \in [Keys -> CompiledFlag \cup {None}]
         /\ flags'[k] = new /\ new # None /\ new.generation \in Nat
         /\ \A j \in Keys : j # k => flags'[j] = flags[j]
         /\ RowsOk' /\ RowsGrow
         /\ ~Reached(k, new.generation)
<1>1. new \in CompiledFlag /\ new # None /\ new.generation \in Nat \ {0}
  <2>1. new \in CompiledFlag
    BY DEF NextRow
  <2>. QED
    BY <2>1, CompiledParts, ControlAssumption
<1>2. flags' \in [Keys -> CompiledFlag \cup {None}] /\ flags'[k] = new
      /\ \A j \in Keys : j # k => flags'[j] = flags[j]
  BY <1>1 DEF ControlInv, FlagsTyped
<1>3. flags[k] # None => flags[k].generation \in Nat
  BY RowTyped DEF ControlInv
<1>4. RowsOk'
  BY <1>2 DEF ControlInv, RowsOk, NextRow, Safe
<1>5. RowsGrow
  BY <1>1, <1>2, <1>3 DEF RowsGrow, NextRow
<1>6. ~Reached(k, new.generation)
  BY <1>3 DEF NextRow, Reached
<1>. QED
  BY <1>1, <1>2, <1>4, <1>5, <1>6

(* The table reaches one generation more, of the row of k.                 *)
LEMMA GenerationsGrow ==
  ASSUME ControlInv, NEW k \in Keys, NEW new, NextRow(k, new),
         flags' = [flags EXCEPT ![k] = new]
  PROVE  \A j \in Keys, g \in Nat :
           Reached(j, g)' <=> Reached(j, g) \/ (j = k /\ g = new.generation)
<1>1. new.generation \in Nat /\ new.generation # 0 /\ new # None /\ flags'[k] = new
      /\ \A j \in Keys : j # k => flags'[j] = flags[j]
  BY RowWritten, CompiledParts DEF NextRow
<1>2. flags[k] # None => flags[k].generation \in Nat
  BY RowTyped DEF ControlInv
<1>3. \A g \in Nat : g \in 1..new.generation <=>
        (flags[k] # None /\ g \in 1..flags[k].generation) \/ g = new.generation
  BY <1>1, <1>2 DEF NextRow
<1>4. ASSUME NEW j \in Keys, NEW g \in Nat
      PROVE  (flags'[j] # None /\ g \in 1..flags'[j].generation) <=>
                \/ flags[j] # None /\ g \in 1..flags[j].generation
                \/ j = k /\ g = new.generation
  <2>1. CASE j = k
    BY <1>1, <1>3, <2>1
  <2>2. CASE j # k
    BY <1>1, <2>2
  <2>. QED
    BY <2>1, <2>2
<1>. QED
  BY <1>4 DEF Reached

(* The new generation has an event to come, or will have none.             *)
LEMMA EventDue ==
  ASSUME ControlInv, NEW k \in Keys, NEW new, NextRow(k, new),
         flags' = [flags EXCEPT ![k] = new], flag_events' = flag_events,
         \/ unaudited' = unaudited \cup {<<k, new.generation>>} /\ call' = call
         \/ /\ unaudited' = unaudited
            /\ \E t \in Threads :
                 /\ call[t].pc # "audit"
                 /\ call'[t].pc = "audit" /\ call'[t].key = k
                 /\ call'[t].after = new.generation
                 /\ \A u \in Threads : u # t => call'[u] = call[u]
  PROVE  EventsExact' /\ unaudited' \subseteq Keys \X Nat
<1>. DEFINE G == new.generation
<1>1. G \in Nat /\ ~Reached(k, G)
      /\ \A j \in Keys, g \in Nat : Reached(j, g)' <=> Reached(j, g) \/ (j = k /\ g = G)
  BY RowWritten, GenerationsGrow
<1>. HIDE DEF G
<1>2. \A j \in Keys, g \in Nat :
        Reached(j, g) <=>
          (<<j, g>> \in flag_events \/ <<j, g>> \in unaudited \/ \E u \in Threads : Owes(u, j, g))
  BY DEF ControlInv, EventsExact
<1>3. <<k, G>> \notin flag_events /\ <<k, G>> \notin unaudited
      /\ \A u \in Threads : ~Owes(u, k, G)
  BY <1>1, <1>2
<1>4. /\ flag_events \cap unaudited = {}
      /\ \A t \in Threads, j \in Keys, g \in Nat :
           Owes(t, j, g) => <<j, g>> \notin flag_events /\ <<j, g>> \notin unaudited
      /\ \A t, u \in Threads, j \in Keys, g \in Nat : Owes(t, j, g) /\ Owes(u, j, g) => t = u
  BY DEF ControlInv, EventsExact
<1>5. CASE unaudited' = unaudited \cup {<<k, G>>} /\ call' = call
  <2>1. \A u \in Threads, j \in Keys, g \in Nat : Owes(u, j, g)' <=> Owes(u, j, g)
    BY <1>5 DEF Owes
  <2>2. \A j \in Keys, g \in Nat :
          <<j, g>> \in unaudited' <=> <<j, g>> \in unaudited \/ (j = k /\ g = G)
    BY <1>1, <1>5
  <2>3. flag_events' \cap unaudited' = {}
    BY <1>3, <1>4, <1>5
  <2>4. \A j \in Keys, g \in Nat :
          Reached(j, g)' <=>
            (\/ <<j, g>> \in flag_events' \/ <<j, g>> \in unaudited'
             \/ \E u \in Threads : Owes(u, j, g)')
    BY <1>1, <1>2, <2>1, <2>2
  <2>5. \A u \in Threads, j \in Keys, g \in Nat :
          Owes(u, j, g)' => <<j, g>> \notin flag_events' /\ <<j, g>> \notin unaudited'
    BY <1>3, <1>4, <2>1, <2>2
  <2>6. unaudited' \subseteq Keys \X Nat
    BY <1>1, <1>5 DEF ControlInv, FlagsTyped
  <2>. QED
    BY <1>4, <2>1, <2>3, <2>4, <2>5, <2>6 DEF EventsExact
<1>6. ASSUME NEW t \in Threads, unaudited' = unaudited,
             call[t].pc # "audit", call'[t].pc = "audit",
             call'[t].key = k, call'[t].after = G,
             \A u \in Threads : u # t => call'[u] = call[u]
      PROVE  EventsExact' /\ unaudited' \subseteq Keys \X Nat
  <2>1. \A u \in Threads, j \in Keys, g \in Nat :
          Owes(u, j, g)' <=> Owes(u, j, g) \/ (u = t /\ j = k /\ g = G)
    BY <1>6 DEF Owes
  <2>2. \A j \in Keys, g \in Nat :
          Reached(j, g)' <=>
            (\/ <<j, g>> \in flag_events' \/ <<j, g>> \in unaudited'
             \/ \E u \in Threads : Owes(u, j, g)')
    <3>. SUFFICES ASSUME NEW j \in Keys, NEW g \in Nat PROVE <2>2!(j, g)
      OBVIOUS
    <3>1. (\E u \in Threads : Owes(u, j, g)') <=>
             (\E u \in Threads : Owes(u, j, g)) \/ (j = k /\ g = G)
      BY <1>6, <2>1
    <3>. QED
      BY <1>1, <1>2, <1>6, <3>1
  <2>3. \A u \in Threads, j \in Keys, g \in Nat :
          Owes(u, j, g)' => <<j, g>> \notin flag_events' /\ <<j, g>> \notin unaudited'
    BY <1>3, <1>4, <1>6, <2>1
  <2>4. \A v, u \in Threads, j \in Keys, g \in Nat : Owes(v, j, g)' /\ Owes(u, j, g)' => v = u
    BY <1>3, <1>4, <2>1
  <2>. QED
    BY <1>4, <1>6, <2>2, <2>3, <2>4 DEF EventsExact, ControlInv, FlagsTyped
<1>. QED
  BY <1>5, <1>6 DEF G

(* A request writes a row, and owes its event.                             *)
LEMMA RequestWrites ==
  ASSUME ControlInv, NEW t \in Threads, call[t].pc # "audit",
         NEW STATE k, k \in Keys, NEW STATE new, NextRow(k, new),
         flags' = [flags EXCEPT ![k] = new],
         UNCHANGED <<redis, flag_events, sweep, unaudited, store, now>>,
         call' \in [Threads -> CallRecord],
         call'[t].pc = "audit", call'[t].key = k, call'[t].after = new.generation,
         \A u \in Threads : u # t => call'[u] = call[u]
  PROVE  ControlInv'
<1>. PICK j, n : j = k /\ n = new
  OBVIOUS
<1>1. j \in Keys /\ NextRow(j, n) /\ flags' = [flags EXCEPT ![j] = n]
      /\ call'[t].key = j /\ call'[t].after = n.generation
  OBVIOUS
<1>2. /\ flags' \in [Keys -> CompiledFlag \cup {None}]
      /\ flags'[j] = n /\ n # None
      /\ RowsOk' /\ RowsGrow
  BY <1>1, RowWritten
<1>3. EventsExact' /\ unaudited' \subseteq Keys \X Nat
  BY <1>1, EventDue
<1>4. current' = current /\ pinned' = pinned
  BY DEF store
<1>5. FlagsTyped'
  BY <1>2, <1>3, <1>4 DEF ControlInv, FlagsTyped
<1>6. CacheOk' /\ SnapshotsOk' /\ (\A s \in Sweepers : SweepOk(sweep[s])')
      /\ (\A u \in Threads : u # t => CallOk(call[u])')
  BY <1>2, <1>5, ReadersKept
<1>7. CallOk(call[t])'
  BY <1>1, <1>2 DEF CallOk
<1>. QED
  BY <1>2, <1>3, <1>5, <1>6, <1>7 DEF ControlInv, SweepsOk, CallsOk

(* A flag is created.                                                      *)
LEMMA CreateStep ==
  ASSUME ControlInv, NEW t \in Threads, NEW r \in Requests, NEW authority,
         create_flag(t, r, authority)
  PROVE  ControlInv'
<1>. DEFINE row == r.payload
            k == row.flag_key
            c == [pc |-> "audit", key |-> k, change |-> << >>, after |-> 1]
<1>1. row \in CompiledFlag /\ row.generation = 1 /\ k \in Keys
  BY ControlAssumption, CompiledParts
<1>2. NextRow(k, row)
  BY <1>1 DEF create_flag, enforce_safety_invariants, NextRow, Safe
<1>3. call[t].pc = "idle" /\ call' = [call EXCEPT ![t] = c] /\ flags' = [flags EXCEPT ![k] = row]
      /\ UNCHANGED <<redis, flag_events, sweep, unaudited, store, now>>
  BY DEF create_flag
<1>4. c \in CallRecord /\ c.pc = "audit" /\ c.key = k /\ c.after = 1
  <2>1. << >> \in Change
    BY DEF Change
  <2>. QED
    BY <1>1, <2>1 DEF CallRecord
<1>. HIDE DEF c, k, row
<1>5. /\ call' \in [Threads -> CallRecord] /\ call'[t] = c
      /\ \A u \in Threads : u # t => call'[u] = call[u]
  BY <1>3, <1>4, CallBecomes DEF ControlInv
<1>. QED
  BY <1>1, <1>2, <1>3, <1>4, <1>5, RequestWrites

(* What set_status and set_rollout write, if the trigger lets them.        *)
LEMMA WrittenRow ==
  ASSUME ControlInv, NEW t \in Threads, call[t].pc = "write"
  PROVE  LET k == call[t].key
             new == Changed(flags[k], call[t].change)
         IN  k \in Keys /\ flags[k] # None /\ NextRow(k, new)
<1>. DEFINE k == call[t].key
            change == call[t].change
            new == Changed(flags[k], change)
<1>1. call[t] \in CallRecord /\ CallOk(call[t])
  BY DEF ControlInv, FlagsTyped, CallsOk
<1>2. k \in Keys /\ flags[k] # None /\ change # << >> /\ change \in Change
      /\ (change[1] = "status" /\ change[2] # "ACTIVE" => flags[k].status # "DRAFT")
  BY <1>1 DEF CallOk, CallRecord
<1>3. flags[k] \in CompiledFlag /\ flags[k].flag_key = k /\ Safe(flags[k])
  BY <1>2, RowTyped DEF ControlInv, RowsOk
<1>4. /\ new \in CompiledFlag
      /\ new.generation = flags[k].generation + 1
      /\ new.flag_key = flags[k].flag_key /\ new.flag_class = flags[k].flag_class
      /\ new.fail_value = flags[k].fail_value
      /\ change[1] = "status" => new.status = change[2] /\ change[2] \in {"ACTIVE", "DISABLED", "RETIRED"}
      /\ change[1] # "status" => new.status = flags[k].status
  BY <1>2, <1>3, ChangedIs
<1>5. NextRow(k, new)
  BY <1>2, <1>3, <1>4 DEF NextRow, Safe
<1>. QED
  BY <1>2, <1>5

(* The row that is there by now is written with the change.                *)
LEMMA WriteStep ==
  ASSUME ControlInv, NEW t \in Threads, Write(t)
  PROVE  ControlInv'
<1>. DEFINE k == call[t].key
            new == Changed(flags[k], call[t].change)
            c == [call[t] EXCEPT !.pc = "audit", !.change = << >>, !.after = new.generation]
<1>1. call[t].pc = "write" /\ k \in Keys /\ flags[k] # None /\ NextRow(k, new)
  BY WrittenRow DEF Write
<1>2. CASE Finish(t) /\ flags' = flags
  BY <1>1, <1>2, EndStep DEF Write
<1>3. CASE flags' = [flags EXCEPT ![k] = new] /\ call' = [call EXCEPT ![t].pc = "audit",
                ![t].change = << >>, ![t].after = new.generation]
  <2>1. new.generation \in Nat /\ << >> \in Change
    BY <1>1, CompiledParts DEF NextRow, Change
  <2>. HIDE DEF new
  <2>2. c \in CallRecord /\ c.pc = "audit" /\ c.key = k /\ c.after = new.generation
    BY <2>1 DEF ControlInv, FlagsTyped, CallRecord
  <2>3. call' = [call EXCEPT ![t] = c]
    BY <1>3 DEF ControlInv, FlagsTyped, CallRecord
  <2>. HIDE DEF c, k
  <2>4. /\ call' \in [Threads -> CallRecord] /\ call'[t] = c
        /\ \A u \in Threads : u # t => call'[u] = call[u]
    BY <2>2, <2>3, CallBecomes DEF ControlInv
  <2>5. UNCHANGED <<redis, flag_events, sweep, unaudited, store, now>>
    BY DEF Write
  <2>. QED
    BY <1>1, <1>3, <2>2, <2>4, <2>5, RequestWrites
<1>. QED
  BY <1>2, <1>3 DEF Write

------------------------------------------------------------------------------
(* A step of one reconciler that does not write a row of the table.        *)
LEMMA SweepStep ==
  ASSUME ControlInv, NEW s \in Sweepers,
         UNCHANGED <<flags, flag_events, call, unaudited, store, now>>,
         sweep' \in [Sweepers -> SweepRecord],
         \A u \in Sweepers : u # s => sweep'[u] = sweep[u],
         SweepOk(sweep[s])', CacheOk', redis' \in [Keys -> CompiledFlag \cup {None}]
  PROVE  ControlInv'
<1>1. current' = current /\ pinned' = pinned
  BY DEF store
<1>2. FlagsTyped'
  BY <1>1 DEF ControlInv, FlagsTyped
<1>3. RowsOk' /\ RowsGrow
  BY RowsKept
<1>4. SnapshotsOk' /\ (\A u \in Sweepers : u # s => SweepOk(sweep[u])')
      /\ (\A t \in Threads : CallOk(call[t])')
  BY <1>2, <1>3, ReadersKept
<1>5. EventsExact'
  BY EventsKept
<1>. QED
  BY <1>2, <1>3, <1>4, <1>5 DEF ControlInv, SweepsOk, CallsOk

(* A row that was read is a copy of itself.                                *)
LEMMA RowsAreCopies ==
  ASSUME ControlInv, NEW row \in Rows
  PROVE  row \in CompiledFlag /\ row.flag_key \in Keys /\ CopyOf(row, row.flag_key)
<1>1. PICK k \in Keys : row = flags[k] /\ flags[k] # None
  BY DEF Rows
<1>2. row \in CompiledFlag /\ row.flag_key = k /\ Safe(row) /\ row.generation \in Nat
  BY <1>1, RowTyped DEF ControlInv, RowsOk
<1>. QED
  BY <1>1, <1>2 DEF CopyOf

(* A sweep reads the ACTIVE rows.                                          *)
LEMMA ListActiveStep ==
  ASSUME ControlInv, NEW s \in Sweepers, ListActive(s)
  PROVE  ControlInv'
<1>. DEFINE due == {k \in Keys : review_at[k] <= now}
            rows == {r \in Rows : r.status = "ACTIVE"}
            w == [pc |-> "drift", due |-> due, rows |-> rows, put |-> None]
<1>1. rows \in SUBSET CompiledFlag /\ \A row \in rows : CopyOf(row, row.flag_key)
  BY RowsAreCopies
<1>. HIDE DEF rows
<1>2. due \in SUBSET Keys
  OBVIOUS
<1>. HIDE DEF due
<1>3. w \in SweepRecord /\ w.pc = "drift" /\ w.rows = rows
  BY <1>1, <1>2 DEF SweepRecord
<1>4. sweep' = [sweep EXCEPT ![s] = w]
      /\ UNCHANGED <<flags, redis, flag_events, call, unaudited, store, now>>
  BY DEF ListActive, due, rows
<1>. HIDE DEF w
<1>5. /\ sweep' \in [Sweepers -> SweepRecord] /\ sweep'[s] = w
      /\ \A u \in Sweepers : u # s => sweep'[u] = sweep[u]
  BY <1>3, <1>4, SweepBecomes DEF ControlInv
<1>6. SweepOk(sweep[s])'
  BY <1>1, <1>3, <1>4, <1>5 DEF SweepOk, CopyOf
<1>7. CacheOk' /\ redis' \in [Keys -> CompiledFlag \cup {None}]
  BY <1>4 DEF ControlInv, CacheOk, CopyOf, FlagsTyped
<1>. QED
  BY <1>4, <1>5, <1>6, <1>7, SweepStep

(* A row of the sweep is compared with Redis.                              *)
LEMMA CompareStep ==
  ASSUME ControlInv, NEW s \in Sweepers, NEW row \in sweep[s].rows, Compare(s, row)
  PROVE  ControlInv'
<1>1. sweep[s] \in SweepRecord /\ SweepOk(sweep[s])
  BY DEF ControlInv, FlagsTyped, SweepsOk
<1>2. row \in CompiledFlag /\ CopyOf(row, row.flag_key)
      /\ \A r \in sweep[s].rows : CopyOf(r, r.flag_key)
  BY <1>1 DEF SweepRecord, SweepOk
<1>3. PICK drifted \in BOOLEAN : drifted <=> Drifted(redis[row.flag_key], row)
  OBVIOUS
<1>. DEFINE w == [sweep[s] EXCEPT !.rows = @ \ {row},
                    !.pc = IF drifted THEN "put" ELSE "drift",
                    !.put = IF drifted THEN row ELSE None]
<1>4. w \in SweepRecord
  BY <1>1, <1>2 DEF SweepRecord
<1>5. w.rows \subseteq sweep[s].rows /\ (w.pc = "put" => w.put = row)
  BY <1>1 DEF SweepRecord
<1>6. sweep' = [sweep EXCEPT ![s] = w]
  BY <1>1, <1>3 DEF Compare, SweepRecord, ControlInv, FlagsTyped
<1>7. UNCHANGED <<flags, redis, flag_events, call, unaudited, store, now>>
  BY DEF Compare
<1>. HIDE DEF w
<1>8. /\ sweep' \in [Sweepers -> SweepRecord] /\ sweep'[s] = w
      /\ \A u \in Sweepers : u # s => sweep'[u] = sweep[u]
  BY <1>4, <1>6, SweepBecomes DEF ControlInv
<1>9. SweepOk(sweep[s])'
  BY <1>2, <1>5, <1>7, <1>8 DEF SweepOk, CopyOf
<1>10. CacheOk' /\ redis' \in [Keys -> CompiledFlag \cup {None}]
  BY <1>7 DEF ControlInv, CacheOk, CopyOf, FlagsTyped
<1>. QED
  BY <1>7, <1>8, <1>9, <1>10, SweepStep

(* A row that was read before is put into Redis.                           *)
LEMMA PutStep ==
  ASSUME ControlInv, NEW s \in Sweepers, redis_put(s)
  PROVE  ControlInv'
<1>. DEFINE c == sweep[s].put
            w == [sweep[s] EXCEPT !.pc = "drift", !.put = None]
<1>1. sweep[s] \in SweepRecord /\ SweepOk(sweep[s])
  BY DEF ControlInv, FlagsTyped, SweepsOk
<1>2. c \in CompiledFlag /\ CopyOf(c, c.flag_key) /\ \A r \in sweep[s].rows : CopyOf(r, r.flag_key)
  BY <1>1 DEF redis_put, SweepOk, CopyOf
<1>3. c.flag_key \in Keys
  BY <1>2, CompiledParts
<1>4. w \in SweepRecord /\ w.pc = "drift" /\ w.rows = sweep[s].rows
  BY <1>1 DEF SweepRecord
<1>5. sweep' = [sweep EXCEPT ![s] = w] /\ redis' = [redis EXCEPT ![c.flag_key] = c]
      /\ UNCHANGED <<flags, flag_events, call, unaudited, store, now>>
  BY <1>1 DEF redis_put, SweepRecord, ControlInv, FlagsTyped
<1>. HIDE DEF w, c
<1>6. /\ sweep' \in [Sweepers -> SweepRecord] /\ sweep'[s] = w
      /\ \A u \in Sweepers : u # s => sweep'[u] = sweep[u]
  BY <1>4, <1>5, SweepBecomes DEF ControlInv
<1>7. SweepOk(sweep[s])'
  BY <1>2, <1>4, <1>5, <1>6 DEF SweepOk, CopyOf
<1>8. redis' \in [Keys -> CompiledFlag \cup {None}] /\ redis'[c.flag_key] = c
      /\ \A k \in Keys : k # c.flag_key => redis'[k] = redis[k]
  BY <1>2, <1>3, <1>5 DEF ControlInv, FlagsTyped
<1>9. \A k \in Keys : redis'[k] # None => CopyOf(redis'[k], k)
  BY <1>2, <1>8 DEF ControlInv, CacheOk
<1>10. CacheOk'
  BY <1>5, <1>9 DEF CacheOk, CopyOf
<1>. QED
  BY <1>5, <1>6, <1>7, <1>8, <1>10, SweepStep

(* The sweep reads the flags past their review that nobody evaluates.      *)
LEMMA ListZombiesStep ==
  ASSUME ControlInv, NEW s \in Sweepers, ListZombies(s)
  PROVE  ControlInv'
<1>1. PICK zombies \in SUBSET Rows :
        sweep' = [sweep EXCEPT ![s].pc = "zombies", ![s].rows = zombies]
  BY DEF ListZombies
<1>2. zombies \in SUBSET CompiledFlag /\ \A row \in zombies : CopyOf(row, row.flag_key)
  BY RowsAreCopies
<1>. DEFINE w == [sweep[s] EXCEPT !.pc = "zombies", !.rows = zombies]
<1>3. sweep[s] \in SweepRecord
  BY DEF ControlInv, FlagsTyped
<1>4. w \in SweepRecord /\ w.pc = "zombies" /\ w.rows = zombies
  BY <1>2, <1>3 DEF SweepRecord
<1>5. sweep' = [sweep EXCEPT ![s] = w]
  BY <1>1, <1>3 DEF SweepRecord, ControlInv, FlagsTyped
<1>6. UNCHANGED <<flags, redis, flag_events, call, unaudited, store, now>>
  BY DEF ListZombies
<1>. HIDE DEF w
<1>7. /\ sweep' \in [Sweepers -> SweepRecord] /\ sweep'[s] = w
      /\ \A u \in Sweepers : u # s => sweep'[u] = sweep[u]
  BY <1>4, <1>5, SweepBecomes DEF ControlInv
<1>8. SweepOk(sweep[s])'
  BY <1>2, <1>4, <1>6, <1>7 DEF SweepOk, CopyOf
<1>9. CacheOk' /\ redis' \in [Keys -> CompiledFlag \cup {None}]
  BY <1>6 DEF ControlInv, CacheOk, CopyOf, FlagsTyped
<1>. QED
  BY <1>6, <1>7, <1>8, <1>9, SweepStep

(* The sweep ends, or an exception ends it.                                *)
LEMMA ReportStep ==
  ASSUME ControlInv, NEW s \in Sweepers, Report(s) \/ SweepRaises(s)
  PROVE  ControlInv'
<1>1. Asleep \in SweepRecord /\ Asleep.pc = "idle" /\ Asleep.rows = {}
  BY DEF Asleep, SweepRecord
<1>2. UNCHANGED <<flags, redis, flag_events, call, unaudited, store, now>>
  BY DEF Report, SweepRaises
<1>3. /\ sweep' \in [Sweepers -> SweepRecord] /\ sweep'[s] = Asleep
      /\ \A u \in Sweepers : u # s => sweep'[u] = sweep[u]
  BY <1>1, SweepBecomes DEF ControlInv, Report, SweepRaises
<1>4. SweepOk(sweep[s])'
  BY <1>1, <1>3 DEF SweepOk
<1>5. CacheOk' /\ redis' \in [Keys -> CompiledFlag \cup {None}]
  BY <1>2 DEF ControlInv, CacheOk, CopyOf, FlagsTyped
<1>. QED
  BY <1>2, <1>3, <1>4, <1>5, SweepStep

(* Such a flag is retired, without an event.                               *)
LEMMA ForceRetireStep ==
  ASSUME ControlInv, NEW s \in Sweepers, NEW row \in sweep[s].rows, ForceRetire(s, row)
  PROVE  ControlInv'
<1>. DEFINE k == row.flag_key
            change == <<"status", "RETIRED">>
            new == Changed(flags[k], change)
            w == [sweep[s] EXCEPT !.rows = @ \ {row}]
<1>1. sweep[s] \in SweepRecord /\ SweepOk(sweep[s]) /\ sweep[s].pc = "zombies"
  BY DEF ControlInv, FlagsTyped, SweepsOk, ForceRetire
<1>2. row \in CompiledFlag /\ CopyOf(row, k)
  BY <1>1 DEF SweepRecord, SweepOk
<1>3. k \in Keys /\ flags[k] # None
  BY <1>2, CompiledParts DEF CopyOf
<1>4. flags[k] \in CompiledFlag /\ flags[k].flag_key = k /\ Safe(flags[k])
  BY <1>3, RowTyped DEF ControlInv, RowsOk
<1>5. NextRow(k, new)
  <2>1. change \in Change /\ change # << >> /\ change[1] = "status" /\ change[2] = "RETIRED"
    BY DEF Change
  <2>2. /\ new \in CompiledFlag
        /\ new.generation = flags[k].generation + 1
        /\ new.flag_key = flags[k].flag_key /\ new.flag_class = flags[k].flag_class
        /\ new.fail_value = flags[k].fail_value /\ new.status = "RETIRED"
    BY <1>4, <2>1, ChangedIs
  <2>. QED
    BY <1>3, <1>4, <2>2 DEF NextRow, Safe
<1>6. flags' = [flags EXCEPT ![k] = new] /\ unaudited' = unaudited \cup {<<k, new.generation>>}
      /\ UNCHANGED <<redis, flag_events, call, store, now>>
  BY DEF ForceRetire
<1>7. w \in SweepRecord /\ w.rows \subseteq sweep[s].rows /\ w.pc = "zombies"
  BY <1>1 DEF SweepRecord
<1>8. sweep' = [sweep EXCEPT ![s] = w]
  BY DEF ForceRetire
<1>. HIDE DEF w, new
<1>. PICK n : n = new
  OBVIOUS
<1>9. /\ flags' \in [Keys -> CompiledFlag \cup {None}]
      /\ RowsOk' /\ RowsGrow
  BY <1>3, <1>5, <1>6, RowWritten
<1>10. EventsExact' /\ unaudited' \subseteq Keys \X Nat
  BY <1>3, <1>5, <1>6, EventDue
<1>11. /\ sweep' \in [Sweepers -> SweepRecord] /\ sweep'[s] = w
       /\ \A u \in Sweepers : u # s => sweep'[u] = sweep[u]
  BY <1>7, <1>8, SweepBecomes DEF ControlInv
<1>12. current' = current /\ pinned' = pinned
  BY <1>6 DEF store
<1>13. FlagsTyped'
  BY <1>6, <1>9, <1>10, <1>11, <1>12 DEF ControlInv, FlagsTyped
<1>14. CacheOk' /\ SnapshotsOk' /\ (\A u \in Sweepers : u # s => SweepOk(sweep[u])')
       /\ (\A t \in Threads : CallOk(call[t])')
  BY <1>6, <1>9, <1>11, <1>13, ReadersKept
<1>15. \A r \in sweep[s].rows : CopyOf(r, r.flag_key)'
  <2>. SUFFICES ASSUME NEW r \in sweep[s].rows PROVE CopyOf(r, r.flag_key)'
    OBVIOUS
  <2>1. r \in CompiledFlag /\ CopyOf(r, r.flag_key)
    BY <1>1 DEF SweepRecord, SweepOk
  <2>. QED
    BY <1>9, <1>13, <2>1, CompiledParts, CopyStable DEF ControlInv
<1>16. SweepOk(sweep[s])'
  BY <1>7, <1>11, <1>15 DEF SweepOk
<1>. QED
  BY <1>9, <1>10, <1>13, <1>14, <1>16 DEF ControlInv, SweepsOk, CallsOk

------------------------------------------------------------------------------
(* What the refresher fetches is a snapshot of copies.                     *)
LEMMA RefreshedIs ==
  ASSUME ControlInv
  PROVE  Refreshed \in Snapshot /\ SnapshotOk(Refreshed)
<1>. DEFINE D == {j \in Keys : redis[j] # None}
            f == [k \in D |-> redis[k]]
<1>1. f \in [D -> CompiledFlag] /\ D \in SUBSET Keys
  BY DEF ControlInv, FlagsTyped
<1>2. f \in UNION {[E -> CompiledFlag] : E \in SUBSET Keys}
  BY <1>1
<1>3. \A k \in DOMAIN f : CopyOf(f[k], k)
  BY DEF ControlInv, CacheOk
<1>4. Refreshed = [baked |-> FALSE, fetched_at |-> now, flags |-> f]
  BY DEF Refreshed
<1>. HIDE DEF f
<1>. QED
  BY <1>2, <1>3, <1>4 DEF Snapshot, SnapshotOk, ControlInv, FlagsTyped

(* An engine takes a snapshot, pins it or lets it go.                      *)
LEMMA StoreStep ==
  ASSUME ControlInv, NEW e \in Engines, swap(e) \/ pin(e) \/ Done(e)
  PROVE  ControlInv'
<1>1. UNCHANGED <<flags, redis, flag_events, call, sweep, unaudited, now>>
  BY DEF swap, pin, Done, control
<1>2. /\ current' \in [Engines -> Snapshot]
      /\ pinned' \in [Engines -> Snapshot \cup {None}]
      /\ \A x \in Engines : SnapshotOk(current'[x])
      /\ \A x \in Engines : pinned'[x] # None => SnapshotOk(pinned'[x])
  <2>1. CASE swap(e)
    BY <2>1, RefreshedIs DEF swap, ControlInv, FlagsTyped, SnapshotsOk
  <2>2. CASE pin(e)
    BY <2>2 DEF pin, ControlInv, FlagsTyped, SnapshotsOk
  <2>3. CASE Done(e)
    BY <2>3 DEF Done, ControlInv, FlagsTyped, SnapshotsOk
  <2>. QED
    BY <2>1, <2>2, <2>3
<1>3. FlagsTyped'
  BY <1>1, <1>2 DEF ControlInv, FlagsTyped
<1>4. SnapshotsOk'
  BY <1>1, <1>2 DEF SnapshotsOk, SnapshotOk, CopyOf
<1>5. RowsOk' /\ RowsGrow
  BY <1>1, RowsKept
<1>6. CacheOk' /\ (\A s \in Sweepers : SweepOk(sweep[s])') /\ (\A t \in Threads : CallOk(call[t])')
  BY <1>1, <1>3, <1>5, ReadersKept
<1>7. EventsExact'
  BY <1>1, EventsKept
<1>. QED
  BY <1>3, <1>4, <1>5, <1>6, <1>7 DEF ControlInv, SweepsOk, CallsOk

(* Time passes, or nothing happens.                                        *)
LEMMA TickStep ==
  ASSUME ControlInv, Tick \/ UNCHANGED vars
  PROVE  ControlInv'
<1>1. UNCHANGED <<flags, redis, flag_events, call, sweep, unaudited, store>>
      /\ current' = current /\ pinned' = pinned /\ now' \in Times
  BY DEF Tick, control, store, vars, ControlInv, FlagsTyped
<1>2. FlagsTyped'
  BY <1>1 DEF ControlInv, FlagsTyped
<1>3. RowsOk' /\ RowsGrow
  BY <1>1, RowsKept
<1>4. CacheOk' /\ SnapshotsOk' /\ (\A s \in Sweepers : SweepOk(sweep[s])')
      /\ (\A t \in Threads : CallOk(call[t])')
  BY <1>1, <1>2, <1>3, ReadersKept
<1>5. EventsExact'
  BY <1>1, EventsKept
<1>. QED
  BY <1>2, <1>3, <1>4, <1>5 DEF ControlInv, SweepsOk, CallsOk

(* The invariant holds at first.                                           *)
LEMMA ControlInvInit == Init => ControlInv
<1>. SUFFICES ASSUME Init PROVE ControlInv
  OBVIOUS
<1>. DEFINE first == [baked |-> TRUE, fetched_at |-> 0, flags |-> Baked]
<1>1. first \in Snapshot
  <2>1. Baked \in UNION {[D -> CompiledFlag] : D \in SUBSET Keys}
    BY ControlAssumption
  <2>. QED
    BY <2>1, ControlAssumption DEF Snapshot
<1>2. Asleep \in SweepRecord /\ Asleep.rows = {} /\ Asleep.pc = "idle"
  BY DEF Asleep, SweepRecord
<1>3. FlagsTyped
  BY <1>1, <1>2, IdleTyped, ControlAssumption DEF Init, FlagsTyped
<1>4. \A k \in Keys : flags[k] = None /\ redis[k] = None
  BY DEF Init
<1>5. (\A t \in Threads : call[t] = Idle) /\ (\A s \in Sweepers : sweep[s] = Asleep)
  BY DEF Init
<1>6. RowsOk /\ CacheOk /\ SweepsOk /\ CallsOk
  BY <1>2, <1>4, <1>5, IdleTyped DEF RowsOk, CacheOk, SweepsOk, SweepOk, CallsOk
<1>7. SnapshotsOk
  <2>1. \A e \in Engines : current[e].baked = TRUE /\ pinned[e] = None
    BY DEF Init
  <2>. QED
    BY <2>1 DEF SnapshotsOk, SnapshotOk
<1>8. EventsExact
  <2>1. flag_events = {} /\ unaudited = {}
    BY DEF Init
  <2>2. \A t \in Threads, k \in Keys, g \in Nat : ~Owes(t, k, g)
    BY <1>5, IdleTyped DEF Owes
  <2>3. \A k \in Keys, g \in Nat : ~Reached(k, g)
    BY <1>4 DEF Reached
  <2>. QED
    BY <2>1, <2>2, <2>3 DEF EventsExact
<1>. QED
  BY <1>3, <1>6, <1>7, <1>8 DEF ControlInv

(* Every step keeps it.                                                    *)
LEMMA ControlInvNext == ControlInv /\ [Next]_vars => ControlInv'
<1>. SUFFICES ASSUME ControlInv, [Next]_vars PROVE ControlInv'
  OBVIOUS
<1>1. ASSUME NEW t \in Threads, Request(t) PROVE ControlInv'
  <2>1. ASSUME NEW a \in Authorities, NEW r \in Requests, create_flag(t, r, a) PROVE ControlInv'
    BY <2>1, CreateStep
  <2>2. ASSUME NEW a \in Authorities, NEW k \in Keys,
               \/ \E target \in {"ACTIVE", "DISABLED", "RETIRED"} : transition(t, k, a, target)
               \/ \E bps \in Rollouts : update_rollout(t, k, a, bps)
        PROVE  ControlInv'
    BY <2>2, StartStep
  <2>3. CASE Write(t)
    BY <2>3, WriteStep
  <2>4. CASE Audit(t)
    BY <2>4, AuditStep
  <2>5. CASE Publish(t)
    BY <2>5, EndStep DEF Publish
  <2>6. CASE Crash(t)
    BY <2>6, CrashStep
  <2>. QED
    BY <1>1, <2>1, <2>2, <2>3, <2>4, <2>5, <2>6 DEF Request
<1>2. ASSUME NEW s \in Sweepers, run_once(s) \/ SweepRaises(s) PROVE ControlInv'
  BY <1>2, ListActiveStep, PutStep, ListZombiesStep, ReportStep, CompareStep, ForceRetireStep
     DEF run_once
<1>3. ASSUME NEW e \in Engines, swap(e) \/ pin(e) \/ Done(e) PROVE ControlInv'
  BY <1>3, StoreStep
<1>. QED
  BY <1>1, <1>2, <1>3, TickStep DEF Next

(* Whatever operators, reconcilers and refreshers do: every copy of a row, *)
(* in Redis, in a sweep or in a snapshot, is the row or older than it, the *)
(* rows are fail-closed, and every generation has its event or its reason. *)
THEOREM ControlInvariant == Spec => []ControlInv
BY ControlInvInit, ControlInvNext, PTL DEF Spec

------------------------------------------------------------------------------
(* What is in use is a snapshot of copies.                                 *)
LEMMA LiveIs ==
  ASSUME ControlInv, NEW s \in Live
  PROVE  /\ s \in Snapshot /\ DOMAIN s.flags \subseteq Keys /\ ~s.baked
         /\ \A k \in DOMAIN s.flags : CopyOf(s.flags[k], k)
<1>1. s \in Snapshot /\ SnapshotOk(s) /\ ~s.baked
  BY DEF Live, ControlInv, FlagsTyped, SnapshotsOk
<1>2. DOMAIN s.flags \subseteq Keys
  BY <1>1 DEF Snapshot
<1>. QED
  BY <1>1, <1>2 DEF SnapshotOk

(* The generation is enough to tell a cached row from a stale one: a copy  *)
(* with the generation of the row is the row, for any number of requests,  *)
(* reconcilers and engines.                                                *)
THEOREM GenerationIsIdentity == Spec => []GenerationNamesOneState
<1>1. ControlInv => GenerationNamesOneState
  <2>. SUFFICES ASSUME ControlInv, NEW k \in Keys,
                       NEW c \in ({redis[k]} \cup {s.flags[k] : s \in {t \in Live : k \in DOMAIN t.flags}}) \ {None}
                PROVE  c.generation = flags[k].generation => c = flags[k]
    BY DEF GenerationNamesOneState
  <2>1. CASE c = redis[k]
    BY <2>1 DEF ControlInv, CacheOk, CopyOf
  <2>2. ASSUME NEW s \in Live, k \in DOMAIN s.flags, c = s.flags[k]
        PROVE  c.generation = flags[k].generation => c = flags[k]
    BY <2>2, LiveIs DEF CopyOf
  <2>. QED
    BY <2>1, <2>2
<1>. QED
  BY <1>1, ControlInvariant, PTL

(* The flags table, the cache, the snapshots and the audit trail agree:    *)
(* every generation of every row has one event, or owes it, or lost it.    *)
THEOREM FlagsAreAccounted == Spec => []FlagInv
<1>1. ControlInv => FlagTypeOK
  <2>. SUFFICES ASSUME ControlInv PROVE FlagTypeOK
    OBVIOUS
  <2>1. ASSUME NEW k \in Keys, NEW c, CopyOf(c, k)
        PROVE  flags[k] # None /\ c.generation \in 1..flags[k].generation
    <3>1. c \in CompiledFlag /\ flags[k] # None /\ c.generation <= flags[k].generation
      BY <2>1 DEF CopyOf
    <3>2. c.generation \in Nat \ {0}
      BY <3>1, CompiledParts
    <3>3. flags[k].generation \in Nat
      BY <3>1, RowTyped DEF ControlInv
    <3>. QED
      BY <3>1, <3>2, <3>3
  <2>2. \A k \in Keys : flags[k] # None => flags[k] \in CompiledFlag /\ flags[k].flag_key = k
    BY RowTyped DEF ControlInv, RowsOk
  <2>3. \A k \in Keys : redis[k] # None =>
          flags[k] # None /\ redis[k].generation \in 1..flags[k].generation
    BY <2>1 DEF ControlInv, CacheOk
  <2>4. \A s \in Live : \A k \in DOMAIN s.flags :
          flags[k] # None /\ s.flags[k].generation \in 1..flags[k].generation
    BY <2>1, LiveIs
  <2>. QED
    BY <2>2, <2>3, <2>4 DEF FlagTypeOK, ControlInv, FlagsTyped
<1>2. ControlInv => AuditAccounted
  <2>. SUFFICES ASSUME ControlInv, NEW k \in Keys, flags[k] # None,
                       NEW g \in 1..flags[k].generation
                PROVE  Cardinality({<<k, g>>} \cap flag_events)
                         + Cardinality({t \in Threads : call[t].pc = "audit"
                                         /\ call[t].key = k /\ call[t].after = g})
                         + Cardinality({<<k, g>>} \cap unaudited) = 1
    BY DEF AuditAccounted
  <2>. DEFINE owing == {t \in Threads : call[t].pc = "audit"
                           /\ call[t].key = k /\ call[t].after = g}
  <2>1. g \in Nat /\ Reached(k, g)
    <3>1. flags[k].generation \in Nat
      BY RowTyped DEF ControlInv
    <3>. QED
      BY <3>1 DEF Reached
  <2>2. owing = {t \in Threads : Owes(t, k, g)}
    BY DEF Owes
  <2>. HIDE DEF owing
  <2>3. <<k, g>> \in flag_events \/ <<k, g>> \in unaudited \/ owing # {}
    BY <2>1, <2>2 DEF ControlInv, EventsExact
  <2>4. ~(<<k, g>> \in flag_events /\ <<k, g>> \in unaudited)
    BY DEF ControlInv, EventsExact
  <2>5. owing # {} => <<k, g>> \notin flag_events /\ <<k, g>> \notin unaudited
    BY <2>1, <2>2 DEF ControlInv, EventsExact
  <2>6. \A t, u \in owing : t = u
    BY <2>1, <2>2 DEF ControlInv, EventsExact
  <2>7. owing = {} \/ \E t : owing = {t}
    BY <2>6
  <2>8. Cardinality({}) = 0 /\ \A x : Cardinality({x}) = 1
    BY FS_EmptySet, FS_Singleton
  <2>9. Cardinality(owing) = IF owing = {} THEN 0 ELSE 1
    BY <2>7, <2>8
  <2>10. Cardinality({<<k, g>>} \cap flag_events) = IF <<k, g>> \in flag_events THEN 1 ELSE 0
    <3>1. CASE <<k, g>> \in flag_events
      <4>1. {<<k, g>>} \cap flag_events = {<<k, g>>}
        BY <3>1
      <4>. QED
        BY <2>8, <3>1, <4>1
    <3>2. CASE <<k, g>> \notin flag_events
      <4>1. {<<k, g>>} \cap flag_events = {}
        BY <3>2
      <4>. QED
        BY <2>8, <3>2, <4>1
    <3>. QED
      BY <3>1, <3>2
  <2>11. Cardinality({<<k, g>>} \cap unaudited) = IF <<k, g>> \in unaudited THEN 1 ELSE 0
    <3>1. CASE <<k, g>> \in unaudited
      <4>1. {<<k, g>>} \cap unaudited = {<<k, g>>}
        BY <3>1
      <4>. QED
        BY <2>8, <3>1, <4>1
    <3>2. CASE <<k, g>> \notin unaudited
      <4>1. {<<k, g>>} \cap unaudited = {}
        BY <3>2
      <4>. QED
        BY <2>8, <3>2, <4>1
    <3>. QED
      BY <3>1, <3>2
  <2>. QED
    BY <2>3, <2>4, <2>5, <2>9, <2>10, <2>11 DEF owing
<1>. QED
  BY <1>1, <1>2, ControlInvariant, PTL DEF FlagInv

------------------------------------------------------------------------------
(* A set of natural numbers has a least element.                           *)
LEMMA LeastElement ==
  ASSUME NEW T \in SUBSET Nat, T # {}
  PROVE  \E x \in T : \A y \in T : x <= y
<1>1. PICK x \in T : \A y \in T : <<y, x>> \notin OpToRel(<, Nat)
  BY NatLessThanWellFounded, WFMin
<1>2. \A y \in T : ~(y < x)
  BY <1>1 DEF OpToRel
<1>. QED
  BY <1>2

(* Both engines look for the same attribute value.                         *)
LEMMA SameEntity ==
  ASSUME NEW attrs
  PROVE  Rust!select_bucketing_entity(attrs, entity_priority) =
           Sdk!select_bucketing_entity(attrs, entity_priority)
<1>. DEFINE priority == entity_priority
            valued(name) == {i \in DOMAIN attrs : attrs[i][1] = name /\ attrs[i][2] # None}
            wanted == {p \in DOMAIN priority : valued(priority[p]) # {}}
            names == {n \in {attrs[i][1] : i \in DOMAIN attrs} : valued(n) # {}}
            first(name) == attrs[Sdk!Min(valued(name))][2]
            lookup == [name \in names |-> first(name)]
            present == {p \in DOMAIN priority : priority[p] \in DOMAIN lookup}
<1>1. /\ \A S : Rust!Min(S) = Sdk!Min(S)
      /\ \A S : (\E x \in S : \A y \in S : x <= y) => Sdk!Min(S) \in S
  BY DEF Rust!Min, Sdk!Min
<1>2. Rust!select_bucketing_entity(attrs, entity_priority) =
        IF wanted = {} THEN None ELSE attrs[Rust!Min(valued(priority[Rust!Min(wanted)]))][2]
  BY DEF Rust!select_bucketing_entity
<1>3. Sdk!select_bucketing_entity(attrs, entity_priority) =
        IF present = {} THEN None ELSE lookup[priority[Sdk!Min(present)]]
  BY DEF Sdk!select_bucketing_entity
<1>4. \A name : valued(name) # {} <=> name \in names
  OBVIOUS
<1>5. present = wanted
  BY <1>4
<1>6. wanted # {} => Sdk!Min(wanted) \in wanted
  <2>1. wanted \in SUBSET Nat
    BY FlagAssumption
  <2>. HIDE DEF wanted
  <2>. QED
    BY <1>1, <2>1, LeastElement
<1>7. \A p \in wanted : lookup[priority[p]] = first(priority[p])
  BY <1>4
<1>. HIDE DEF wanted, present, lookup, names, valued
<1>. QED
  BY <1>1, <1>2, <1>3, <1>5, <1>6, <1>7

(* The reasons with which the SDK names the list or the type that decided. *)
Named == {"denylisted", "allowlisted", "boolean", "not_in_allowlist", "not_in_denylist", "percentage"}

(* An outcome of the engine and one of the SDK mean the same.              *)
Matches(rust, sdk) ==
  \/ rust = Rust!Enabled /\ sdk.kind = "enabled" /\ sdk.reason \in Named
  \/ rust = Rust!Disabled /\ sdk.kind = "disabled" /\ sdk.reason \in Named
  \/ rust = Rust!UseFailValue(sdk.reason) /\ sdk.kind = "fail_value" /\ sdk.reason \notin Named

(* Where neither lists nor status decide, the type does, in both engines.  *)
LEMMA SameDispatch ==
  ASSUME NEW flag \in CompiledFlag, NEW entity
  PROVE  Matches(Rust!DispatchType(flag, entity), Sdk!DispatchType(flag, entity))
<1>1. /\ flag.flag_type \in {"BOOLEAN", "PERCENTAGE", "ALLOWLIST", "DENYLIST"}
      /\ flag.bool_value \in BOOLEAN
  BY CompiledParts
<1>2. Rust!bucket_for(flag.flag_key, entity) = Sdk!bucket_for(flag.flag_key, entity)
  BY DEF Rust!bucket_for, Sdk!bucket_for, Rust!MODULUS, Sdk!MODULUS
<1>. DEFINE r == Rust!DispatchType(flag, entity)
            o == Sdk!DispatchType(flag, entity)
<1>. SUFFICES Matches(r, o)
  OBVIOUS
<1>3. CASE flag.flag_type = "BOOLEAN"
  <2>1. r = IF flag.bool_value THEN Rust!Enabled ELSE Rust!Disabled
    BY <1>3 DEF Rust!DispatchType
  <2>2. o = Sdk!Outcome(IF flag.bool_value THEN "enabled" ELSE "disabled", "boolean")
    BY <1>3 DEF Sdk!DispatchType
  <2>. HIDE DEF r, o
  <2>. QED
    BY <2>1, <2>2 DEF Matches, Named, Sdk!Outcome
<1>4. CASE flag.flag_type = "ALLOWLIST"
  <2>1. r = Rust!Disabled /\ o = Sdk!Outcome("disabled", "not_in_allowlist")
    BY <1>4 DEF Rust!DispatchType, Sdk!DispatchType
  <2>. HIDE DEF r, o
  <2>. QED
    BY <2>1 DEF Matches, Named, Sdk!Outcome
<1>5. CASE flag.flag_type = "DENYLIST"
  <2>1. r = Rust!Enabled /\ o = Sdk!Outcome("enabled", "not_in_denylist")
    BY <1>5 DEF Rust!DispatchType, Sdk!DispatchType
  <2>. HIDE DEF r, o
  <2>. QED
    BY <2>1 DEF Matches, Named, Sdk!Outcome
<1>6. CASE flag.flag_type = "PERCENTAGE" /\ entity = None
  <2>1. r = Rust!UseFailValue("missing_bucketing_entity")
        /\ o = Sdk!Outcome("fail_value", "missing_bucketing_entity")
    BY <1>6 DEF Rust!DispatchType, Sdk!DispatchType, Sdk!fail
  <2>. HIDE DEF r, o
  <2>. QED
    BY <2>1 DEF Matches, Named, Sdk!Outcome
<1>7. CASE flag.flag_type = "PERCENTAGE" /\ entity # None
  <2>. DEFINE in == Sdk!bucket_for(flag.flag_key, entity) < flag.rollout_bps
  <2>1. r = IF in THEN Rust!Enabled ELSE Rust!Disabled
    BY <1>2, <1>7 DEF Rust!DispatchType
  <2>2. o = Sdk!Outcome(IF in THEN "enabled" ELSE "disabled", "percentage")
    BY <1>7 DEF Sdk!DispatchType
  <2>. HIDE DEF r, o, in
  <2>. QED
    BY <2>1, <2>2 DEF Matches, Named, Sdk!Outcome
<1>. QED
  BY <1>1, <1>3, <1>4, <1>5, <1>6, <1>7

(* The ladder of the status, the environment, the expiry, the lists and    *)
(* the type leads both engines to outcomes that mean the same.             *)
LEMMA SameOutcome ==
  ASSUME NEW flag \in CompiledFlag, NEW ctx, NEW time
  PROVE  Matches(Rust!evaluate(flag, ctx, time), Sdk!evaluate(flag, ctx, time))
<1>. DEFINE entity == Rust!select_bucketing_entity(ctx.attributes, entity_priority)
            elsewhere == flag.environments # {} /\ ctx.environment \notin flag.environments
            expired == flag.expires_at # None /\ time >= flag.expires_at
            r == Rust!evaluate(flag, ctx, time)
            o == Sdk!evaluate(flag, ctx, time)
<1>1. entity = Sdk!select_bucketing_entity(ctx.attributes, entity_priority)
  BY SameEntity
<1>2. flag.status \in {"DRAFT", "ACTIVE", "DISABLED", "RETIRED"}
  BY CompiledParts
<1>3. r = IF flag.status = "RETIRED" THEN Rust!UseFailValue("retired")
          ELSE IF flag.status = "DISABLED" THEN Rust!UseFailValue("disabled")
          ELSE IF flag.status = "DRAFT" THEN Rust!UseFailValue("draft")
          ELSE IF elsewhere THEN Rust!UseFailValue("environment_not_targeted")
          ELSE IF expired THEN Rust!UseFailValue("expired")
          ELSE IF entity # None /\ entity \in flag.denylist THEN Rust!Disabled
          ELSE IF entity # None /\ entity \in flag.allowlist THEN Rust!Enabled
          ELSE Rust!DispatchType(flag, entity)
  BY DEF Rust!evaluate
<1>4. o = IF flag.status = "RETIRED" THEN Sdk!Outcome("fail_value", "retired")
          ELSE IF flag.status = "DISABLED" THEN Sdk!Outcome("fail_value", "disabled")
          ELSE IF flag.status = "DRAFT" THEN Sdk!Outcome("fail_value", "draft")
          ELSE IF elsewhere THEN Sdk!Outcome("fail_value", "environment_not_targeted")
          ELSE IF expired THEN Sdk!Outcome("fail_value", "expired")
          ELSE IF entity # None /\ entity \in flag.denylist THEN Sdk!Outcome("disabled", "denylisted")
          ELSE IF entity # None /\ entity \in flag.allowlist THEN Sdk!Outcome("enabled", "allowlisted")
          ELSE Sdk!DispatchType(flag, entity)
  BY <1>1 DEF Sdk!evaluate, Sdk!Override, Sdk!fail
<1>5. \A why \in {"retired", "disabled", "draft", "environment_not_targeted", "expired"} :
        Matches(Rust!UseFailValue(why), Sdk!Outcome("fail_value", why))
  BY DEF Matches, Named, Sdk!Outcome
<1>6. Matches(Rust!Disabled, Sdk!Outcome("disabled", "denylisted"))
      /\ Matches(Rust!Enabled, Sdk!Outcome("enabled", "allowlisted"))
  BY DEF Matches, Named, Sdk!Outcome
<1>7. Matches(Rust!DispatchType(flag, entity), Sdk!DispatchType(flag, entity))
  BY SameDispatch
<1>. HIDE DEF entity, elsewhere, expired, r, o
<1>8. CASE flag.status # "ACTIVE"
  BY <1>2, <1>3, <1>4, <1>5, <1>8 DEF r, o
<1>9. CASE flag.status = "ACTIVE" /\ (elsewhere \/ expired)
  BY <1>3, <1>4, <1>5, <1>9 DEF r, o
<1>10. CASE flag.status = "ACTIVE" /\ ~elsewhere /\ ~expired
  BY <1>3, <1>4, <1>6, <1>7, <1>10 DEF r, o
<1>. QED
  BY <1>8, <1>9, <1>10

(* Outcomes that mean the same are resolved and told alike.                *)
LEMMA SameVerdict ==
  ASSUME NEW flag \in CompiledFlag, NEW ctx, NEW time
  PROVE  LET rust == Rust!evaluate(flag, ctx, time)
             sdk  == Sdk!evaluate(flag, ctx, time)
             enabled == Sdk!resolve(sdk, flag.fail_value)
         IN  /\ Rust!resolve(rust, flag.fail_value) = enabled
             /\ Rust!reason(rust) = IF sdk.reason \in Named
                                    THEN IF enabled THEN "enabled" ELSE "disabled"
                                    ELSE sdk.reason
<1>1. PICK rust : rust = Rust!evaluate(flag, ctx, time)
  OBVIOUS
<1>2. PICK sdk : sdk = Sdk!evaluate(flag, ctx, time)
  OBVIOUS
<1>3. Matches(rust, sdk)
  BY <1>1, <1>2, SameOutcome
<1>4. /\ Rust!resolve(rust, flag.fail_value) = Sdk!resolve(sdk, flag.fail_value)
      /\ Rust!reason(rust) = IF sdk.reason \in Named
                             THEN IF Sdk!resolve(sdk, flag.fail_value) THEN "enabled" ELSE "disabled"
                             ELSE sdk.reason
  <2>1. CASE rust = Rust!Enabled /\ sdk.kind = "enabled" /\ sdk.reason \in Named
    BY <2>1 DEF Rust!resolve, Sdk!resolve, Rust!reason, Rust!Enabled
  <2>2. CASE rust = Rust!Disabled /\ sdk.kind = "disabled" /\ sdk.reason \in Named
    BY <2>2 DEF Rust!resolve, Sdk!resolve, Rust!reason, Rust!Disabled
  <2>3. CASE rust = Rust!UseFailValue(sdk.reason) /\ sdk.kind = "fail_value" /\ sdk.reason \notin Named
    BY <2>3 DEF Rust!resolve, Sdk!resolve, Rust!reason, Rust!UseFailValue
  <2>. QED
    BY <1>3, <2>1, <2>2, <2>3 DEF Matches
<1>. QED
  BY <1>1, <1>2, <1>4

(* The reasons differ wherever the flag decides, and nowhere else: the     *)
(* engine and the SDK name the same reason exactly for the outcomes that   *)
(* fall back on the fail value, although test_flag_conformance.py and      *)
(* conformance.rs hold both to one file of vectors.                        *)
THEOREM ReasonsDiffer ==
  ASSUME NEW flag \in CompiledFlag, NEW ctx, NEW time
  PROVE  Rust!reason(Rust!evaluate(flag, ctx, time)) = Sdk!evaluate(flag, ctx, time).reason
           <=> Sdk!evaluate(flag, ctx, time).kind = "fail_value"
<1>1. PICK rust : rust = Rust!evaluate(flag, ctx, time)
  OBVIOUS
<1>2. PICK sdk : sdk = Sdk!evaluate(flag, ctx, time)
  OBVIOUS
<1>3. Matches(rust, sdk)
  BY <1>1, <1>2, SameOutcome
<1>4. Rust!reason(rust) = sdk.reason <=> sdk.kind = "fail_value"
  <2>0. "enabled" \notin Named /\ "disabled" \notin Named
    BY DEF Named
  <2>1. CASE rust = Rust!Enabled /\ sdk.kind = "enabled" /\ sdk.reason \in Named
    BY <2>0, <2>1 DEF Rust!reason, Rust!Enabled
  <2>2. CASE rust = Rust!Disabled /\ sdk.kind = "disabled" /\ sdk.reason \in Named
    BY <2>0, <2>2 DEF Rust!reason, Rust!Disabled
  <2>3. CASE rust = Rust!UseFailValue(sdk.reason) /\ sdk.kind = "fail_value"
    BY <2>3 DEF Rust!reason, Rust!UseFailValue
  <2>. QED
    BY <1>3, <2>1, <2>2, <2>3 DEF Matches
<1>. QED
  BY <1>1, <1>2, <1>4

(* The age of a snapshot: one that is below zero counts as zero.           *)
LEMMA MaxIs ==
  ASSUME NEW d \in Int
  PROVE  Rust!Max({0, d}) \in Int /\ Rust!Max({0, d}) >= d
<1>1. \E x \in {0, d} : \A y \in {0, d} : x >= y
  OBVIOUS
<1>2. Rust!Max({0, d}) \in {0, d} /\ \A y \in {0, d} : Rust!Max({0, d}) >= y
  BY <1>1 DEF Rust!Max
<1>. QED
  BY <1>2

(* The degradation ladder is the same in both engines.                     *)
LEMMA SameLadder ==
  ASSUME NEW s \in Snapshot, NEW k \in DOMAIN s.flags, NEW ctx, NEW time \in Times
  PROVE  LET rust == Rust!evaluate_against_snapshot(s, k, ctx, time)
             sdk  == Sdk!provider_evaluate(s, k, ctx, time)
         IN  /\ rust.enabled = sdk.enabled /\ rust.degradation = sdk.degradation
             /\ rust.reason = Coarse(sdk)
<1>. DEFINE flag == s.flags[k]
            age == Rust!Max({0, time - s.fetched_at})
            limit == staleness_limit_ms[flag.flag_class]
            rust == Rust!evaluate_against_snapshot(s, k, ctx, time)
            sdk == Sdk!provider_evaluate(s, k, ctx, time)
            r == Rust!evaluate(flag, ctx, time)
            o == Sdk!evaluate(flag, ctx, time)
<1>1. flag \in CompiledFlag
  BY DEF Snapshot
<1>2. /\ Rust!resolve(r, flag.fail_value) = Sdk!resolve(o, flag.fail_value)
      /\ Rust!reason(r) = IF o.reason \in Named
                          THEN IF Sdk!resolve(o, flag.fail_value) THEN "enabled" ELSE "disabled"
                          ELSE o.reason
  BY <1>1, SameVerdict
<1>3. age = Sdk!Max({0, time - s.fetched_at})
  BY DEF Rust!Max, Sdk!Max
<1>4. Rust!staleness_limit_ms = staleness_limit_ms /\ Sdk!staleness_limit_ms = staleness_limit_ms
  BY DEF Rust!staleness_limit_ms, Sdk!staleness_limit_ms, staleness_limit_ms
<1>5. s.baked \in BOOLEAN /\ time - s.fetched_at \in Int
  BY ControlAssumption DEF Snapshot
<1>6. age \in Int
  BY <1>5, MaxIs
<1>7. limit \in Int
  <2>1. flag.flag_class \in {"SAFETY_CRITICAL", "TRADING_BEHAVIOR", "STANDARD"}
    BY <1>1, CompiledParts
  <2>. QED
    BY <2>1 DEF staleness_limit_ms
<1>8. age <= limit <=> ~(age > limit)
  BY <1>6, <1>7
<1>. HIDE DEF limit, age, flag, r, o
<1>. DEFINE stale == ~s.baked /\ age > limit
            rung == IF s.baked THEN "baked_defaults" ELSE IF age <= limit THEN "fresh" ELSE "fail_value"
<1>9. /\ rust.enabled = IF stale THEN flag.fail_value ELSE Rust!resolve(r, flag.fail_value)
      /\ rust.reason = IF stale THEN "snapshot_stale_beyond_threshold" ELSE Rust!reason(r)
      /\ rust.degradation = IF s.baked THEN "baked_defaults" ELSE IF stale THEN "fail_value" ELSE "fresh"
  BY <1>4 DEF Rust!evaluate_against_snapshot, flag, age, limit, r
<1>10. /\ sdk.enabled = IF rung = "fail_value" THEN flag.fail_value ELSE Sdk!resolve(o, flag.fail_value)
       /\ sdk.reason = IF rung = "fail_value" THEN "snapshot_stale_beyond_threshold" ELSE o.reason
       /\ sdk.degradation = rung
  BY <1>3, <1>4 DEF Sdk!provider_evaluate, flag, limit, o
<1>11. rust.degradation = sdk.degradation /\ (stale <=> rung = "fail_value")
  BY <1>5, <1>8, <1>9, <1>10
<1>12. "snapshot_stale_beyond_threshold" \notin Named
  BY DEF Named
<1>. HIDE DEF stale, rung, rust, sdk
<1>13. rust.enabled = sdk.enabled
  BY <1>2, <1>9, <1>10, <1>11
<1>14. rust.reason = Coarse(sdk)
  <2>1. Coarse(sdk) = IF sdk.reason \in Named THEN IF sdk.enabled THEN "enabled" ELSE "disabled"
                      ELSE sdk.reason
    BY DEF Coarse, Named
  <2>2. CASE stale
    BY <1>9, <1>10, <1>11, <1>12, <2>1, <2>2
  <2>3. CASE ~stale
    BY <1>2, <1>9, <1>10, <1>11, <2>1, <2>3
  <2>. QED
    BY <2>2, <2>3
<1>. QED
  BY <1>11, <1>13, <1>14 DEF rust, sdk

(* For any flags, snapshots, contexts and seeds: a FlagProvider that could *)
(* be constructed enables what the Rust engine enables, from the same rung *)
(* of the ladder, and gives the reason of the engine up to Coarse.         *)
THEOREM EnginesAlwaysAgree == Spec => []EnginesAgree
<1>1. ControlInv => EnginesAgree
  <2>1. ControlInv => \A s \in InUse : s \in Snapshot
    BY LiveIs DEF ControlInv, FlagsTyped, InUse
  <2>2. ASSUME NEW seed, NEW s, NEW k, NEW ctx, NEW sdk \in Sdk!FlagProvider(seed, s, k, ctx, now)
        PROVE  sdk = Sdk!provider_evaluate(s, k, ctx, now)
    BY DEF Sdk!FlagProvider
  <2>. QED
    BY <2>1, <2>2, SameLadder DEF EnginesAgree, ControlInv, FlagsTyped
<1>. QED
  BY <1>1, ControlInvariant, PTL

(* "A stale cache cannot keep live trading enabled", for any flags and     *)
(* contexts: neither engine lets a SAFETY_CRITICAL flag be on from a       *)
(* fetched snapshot older than a second.                                   *)
THEOREM StaleSafetyStaysOff == Spec => []StaleSafetyIsOff
<1>1. ControlInv => StaleSafetyIsOff
  <2>. SUFFICES ASSUME ControlInv, NEW s \in Live, NEW k \in DOMAIN s.flags, NEW ctx \in Contexts,
                       s.flags[k].flag_class = "SAFETY_CRITICAL", now - s.fetched_at > 1000
                PROVE  /\ ~Rust!evaluate_against_snapshot(s, k, ctx, now).enabled
                       /\ ~Sdk!provider_evaluate(s, k, ctx, now).enabled
    BY DEF StaleSafetyIsOff
  <2>1. s \in Snapshot /\ ~s.baked /\ k \in Keys /\ CopyOf(s.flags[k], k)
    BY LiveIs
  <2>2. ~s.flags[k].fail_value
    BY <2>1 DEF CopyOf, Safe
  <2>3. now - s.fetched_at \in Int
    BY <2>1, ControlAssumption DEF Snapshot, ControlInv, FlagsTyped
  <2>. DEFINE age == Rust!Max({0, now - s.fetched_at})
  <2>4. age > 1000
    <3>1. age \in Int /\ age >= now - s.fetched_at
      BY <2>3, MaxIs
    <3>. HIDE DEF age
    <3>. QED
      BY <2>3, <3>1
  <2>5. Rust!staleness_limit_ms["SAFETY_CRITICAL"] = 1000
    BY DEF Rust!staleness_limit_ms
  <2>6. ~Rust!evaluate_against_snapshot(s, k, ctx, now).enabled
    BY <2>1, <2>2, <2>4, <2>5 DEF Rust!evaluate_against_snapshot
  <2>. QED
    BY <2>1, <2>6, SameLadder DEF ControlInv, FlagsTyped
<1>. QED
  BY <1>1, ControlInvariant, PTL

(* The lifecycle of lifecycle.py holds of the rows themselves, although a  *)
(* request writes what it decided on from an earlier state of the row, and *)
(* reconcilers retire rows under it.                                       *)
THEOREM LifecycleKept == Spec => LifecycleHolds
<1>. DEFINE Moves == \A k \in Keys : flags[k] # None =>
                       LET old == flags[k].status
                           new == flags'[k].status
                       IN  new \in {old, "RETIRED"} \cup Transitions[old]
<1>1. ControlInv /\ [Next]_vars => [Moves]_vars
  <2>. SUFFICES ASSUME ControlInv, Next, NEW k \in Keys, flags[k] # None
                PROVE  flags'[k].status \in {flags[k].status, "RETIRED"} \cup Transitions[flags[k].status]
    OBVIOUS
  <2>1. flags[k].status \in {"DRAFT", "ACTIVE", "DISABLED", "RETIRED"}
    BY RowTyped, CompiledParts DEF ControlInv
  <2>2. CASE flags'[k] = flags[k]
    BY <2>2
  <2>3. ASSUME NEW t \in Threads, Write(t), flags'[k] # flags[k]
        PROVE  flags'[k].status \in {flags[k].status, "RETIRED"} \cup Transitions[flags[k].status]
    <3>. DEFINE new == Changed(flags[k], call[t].change)
    <3>1. call[t] \in CallRecord /\ CallOk(call[t]) /\ call[t].pc = "write"
      BY <2>3 DEF ControlInv, FlagsTyped, CallsOk, Write
    <3>2. call[t].key = k /\ enforce_safety_invariants(flags[k], new) /\ flags'[k] = new
      BY <2>3 DEF Write, ControlInv, FlagsTyped
    <3>3. call[t].change \in Change /\ call[t].change # << >>
          /\ (call[t].change[1] = "status" /\ call[t].change[2] # "ACTIVE" => flags[k].status # "DRAFT")
      BY <3>1, <3>2 DEF CallOk, CallRecord
    <3>4. flags[k] \in CompiledFlag
      BY RowTyped DEF ControlInv
    <3>5. /\ call[t].change[1] = "status" => new.status = call[t].change[2]
                                              /\ call[t].change[2] \in {"ACTIVE", "DISABLED", "RETIRED"}
          /\ call[t].change[1] # "status" => new.status = flags[k].status
      BY <3>3, <3>4, ChangedIs
    <3>6. flags[k].status = "RETIRED" => new.status = "RETIRED"
      BY <3>2 DEF enforce_safety_invariants
    <3>. HIDE DEF new
    <3>. QED
      BY <2>1, <3>2, <3>3, <3>5, <3>6 DEF Transitions
  <2>4. ASSUME NEW s \in Sweepers, NEW row \in sweep[s].rows, ForceRetire(s, row),
               flags'[k] # flags[k]
        PROVE  flags'[k].status = "RETIRED"
    <3>. DEFINE change == <<"status", "RETIRED">>
                new == Changed(flags[k], change)
    <3>1. row.flag_key = k /\ flags'[k] = new
      BY <2>4 DEF ForceRetire, ControlInv, FlagsTyped
    <3>2. flags[k] \in CompiledFlag
      BY RowTyped DEF ControlInv
    <3>3. change \in Change /\ change # << >> /\ change[1] = "status" /\ change[2] = "RETIRED"
      BY DEF Change
    <3>4. new.status = "RETIRED"
      BY <3>2, <3>3, ChangedIs
    <3>. QED
      BY <3>1, <3>4
  <2>5. ASSUME NEW t \in Threads, NEW r \in Requests, NEW a, create_flag(t, r, a)
        PROVE  flags'[k] = flags[k]
    BY <2>5 DEF create_flag, ControlInv, FlagsTyped
  <2>6. ASSUME NEW t \in Threads, Request(t), flags'[k] # flags[k] PROVE Write(t)
    BY <2>5, <2>6 DEF Request, transition, update_rollout, Audit, Publish, Crash
  <2>7. ASSUME NEW s \in Sweepers, run_once(s) \/ SweepRaises(s), flags'[k] # flags[k]
        PROVE  \E row \in sweep[s].rows : ForceRetire(s, row)
    BY <2>7 DEF run_once, ListActive, redis_put, ListZombies, Report, Compare, SweepRaises
  <2>8. ASSUME NEW e \in Engines, swap(e) \/ pin(e) \/ Done(e) PROVE flags'[k] = flags[k]
    BY <2>8 DEF swap, pin, Done, control
  <2>9. Tick => flags'[k] = flags[k]
    BY DEF Tick, control
  <2>. QED
    BY <2>2, <2>3, <2>4, <2>6, <2>7, <2>8, <2>9 DEF Next
<1>. QED
  BY <1>1, ControlInvariant, PTL DEF Spec, LifecycleHolds

==============================================================================
