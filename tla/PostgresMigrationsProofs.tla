---------------------- MODULE PostgresMigrationsProofs ----------------------
(***************************************************************************)
(* What PostgresMigrator guarantees for any number of runs, files, edits   *)
(* and faults.  The first part is what build_plan and `create' guarantee.  *)
(***************************************************************************)
EXTENDS PostgresMigrations, TLAPS, FiniteSetTheorems, WellFoundedInduction

(* The files that are there, and what is in them.                          *)
ContentOk(files) ==
  /\ DOMAIN files \subseteq Files
  /\ \A m \in DOMAIN files : files[m] \in Contents
  /\ \A m \in DOMAIN files, n \in Files :
       n < m /\ Domain[n] = Domain[m] => n \in DOMAIN files

(* A plan names files that are there, and every lower version of a domain  *)
(* is recorded or planned before.                                          *)
PlanOk(plan, recorded, files) ==
  \A i \in 1..Len(plan) :
    /\ plan[i].file \in DOMAIN files
    /\ \A n \in Files :
         n < plan[i].file /\ Domain[n] = Domain[plan[i].file] =>
           n \in DOMAIN recorded \/ \E j \in 1..(i - 1) : plan[j].file = n

------------------------------------------------------------------------------
(* A set of natural numbers has a least element.                           *)
LEMMA LeastElement ==
  ASSUME NEW T \in SUBSET Nat, T # {}
  PROVE  \E x \in T : \A y \in T : x <= y
<1>1. PICK x \in T : \A y \in T : <<y, x>> \notin OpToRel(<, Nat)
  BY NatLessThanWellFounded, WFMin
<1>2. \A y \in T : ~(y < x)
  BY <1>1 DEF OpToRel
<1>. QED
  BY <1>2

Listed(s, T) ==
  /\ T = {s[i] : i \in DOMAIN s}
  /\ \A i, j \in DOMAIN s : i < j => s[i] < s[j]

(* Finitely many files can be listed in order.                             *)
LEMMA ListingExists ==
  ASSUME NEW n \in Nat, NEW T \in SUBSET (1..n)
  PROVE  \E s \in [1..Cardinality(T) -> T] : Listed(s, T)
<1>. DEFINE Has(U) == \E s \in [1..Cardinality(U) -> U] : Listed(s, U)
            bad == {k \in Nat : \E U \in SUBSET (1..k) : ~Has(U)}
<1>. SUFFICES ASSUME bad # {} PROVE FALSE
  OBVIOUS
<1>1. PICK k \in bad : \A l \in bad : k <= l
  <2>1. bad \in SUBSET Nat
    OBVIOUS
  <2>. HIDE DEF bad
  <2>. QED
    BY <2>1, LeastElement
<1>2. PICK U \in SUBSET (1..k) : ~Has(U)
  BY <1>1
<1>3. k \in Nat
  BY <1>1
<1>4. IsFiniteSet(U)
  <2>1. 1 \in Int /\ k \in Int
    BY <1>3
  <2>2. IsFiniteSet(1..k)
    BY <2>1, FS_Interval
  <2>. QED
    BY <1>2, <2>2, FS_Subset
<1>5. k # 0 /\ k \in U
  <2>1. ASSUME U = {} PROVE FALSE
    <3>1. Cardinality(U) = 0
      BY <2>1, FS_EmptySet
    <3>2. 1..0 = {}
      OBVIOUS
    <3>3. << >> \in [1..Cardinality(U) -> U] /\ Listed(<< >>, U)
      BY <2>1, <3>1, <3>2 DEF Listed
    <3>. QED
      BY <1>2, <3>3
  <2>2. k # 0
    BY <1>2, <1>3, <2>1
  <2>3. ASSUME k \notin U PROVE FALSE
    <3>1. U \in SUBSET (1..(k - 1)) /\ k - 1 \in Nat
      BY <1>2, <1>3, <2>2, <2>3
    <3>2. k - 1 \in bad
      BY <1>2, <3>1
    <3>3. k <= k - 1
      BY <1>1, <3>2
    <3>. QED
      BY <1>3, <3>3
  <2>. QED
    BY <2>2, <2>3
<1>. DEFINE V == U \ {k}
<1>6. Has(V)
  <2>1. V \in SUBSET (1..(k - 1)) /\ k - 1 \in Nat /\ ~(k <= k - 1)
    BY <1>2, <1>3, <1>5
  <2>2. k - 1 \notin bad
    BY <1>1, <2>1
  <2>. QED
    BY <2>1, <2>2
<1>. DEFINE c == Cardinality(V)
<1>7. Cardinality(U) = c + 1 /\ c \in Nat
  <2>1. V = U \ {k} /\ IsFiniteSet(V) /\ Cardinality(V) = Cardinality(U) - 1
    BY <1>4, <1>5, FS_RemoveElement
  <2>2. Cardinality(U) \in Nat /\ Cardinality(V) \in Nat
    BY <1>4, <2>1, FS_CardinalityType
  <2>. QED
    BY <2>1, <2>2
<1>8. PICK s \in [1..c -> V] : Listed(s, V)
  BY <1>6
<1>. HIDE DEF c
<1>. DEFINE w == [i \in 1..(c + 1) |-> IF i = c + 1 THEN k ELSE s[i]]
<1>9. w \in [1..(c + 1) -> U]
  BY <1>5, <1>7, <1>8
<1>10. \A i \in 1..c : w[i] = s[i] /\ s[i] \in V
  BY <1>7, <1>8
<1>11. w[c + 1] = k /\ c + 1 \in 1..(c + 1) /\ 1..(c + 1) = 1..c \cup {c + 1}
  BY <1>7
<1>12. DOMAIN w = 1..(c + 1) /\ DOMAIN s = 1..c
  BY <1>8
<1>. HIDE DEF w
<1>13. U = {w[i] : i \in DOMAIN w}
  <2>1. \A x \in V : \E i \in 1..c : s[i] = x
    BY <1>8, <1>12 DEF Listed
  <2>2. \A x \in U : \E i \in 1..(c + 1) : w[i] = x
    <3>. SUFFICES ASSUME NEW x \in U PROVE \E i \in 1..(c + 1) : w[i] = x
      OBVIOUS
    <3>1. CASE x = k
      BY <1>11, <3>1
    <3>2. CASE x \in V
      BY <1>10, <1>11, <2>1, <3>2
    <3>. QED
      BY <3>1, <3>2
  <2>3. \A i \in 1..(c + 1) : w[i] \in U
    BY <1>9
  <2>. QED
    BY <1>12, <2>2, <2>3
<1>14. \A i, j \in DOMAIN w : i < j => w[i] < w[j]
  <2>. SUFFICES ASSUME NEW i \in 1..(c + 1), NEW j \in 1..(c + 1), i < j
                PROVE  w[i] < w[j]
    BY <1>12
  <2>1. i \in 1..c
    BY <1>7
  <2>2. CASE j = c + 1
    <3>1. w[i] \in 1..k /\ w[i] # k
      BY <1>2, <1>10, <2>1
    <3>. QED
      BY <1>3, <1>11, <2>2, <3>1
  <2>3. CASE j \in 1..c
    BY <1>8, <1>10, <1>12, <2>1, <2>3 DEF Listed
  <2>. QED
    BY <1>7, <2>2, <2>3
<1>15. Listed(w, U)
  BY <1>13, <1>14 DEF Listed
<1>16. Has(U)
  BY <1>7, <1>9, <1>15
<1>. QED
  BY <1>2, <1>16

(* discover_migrations lists each file once, in order.                     *)
LEMMA InOrderIs ==
  ASSUME NEW T \in SUBSET Files
  PROVE  /\ Cardinality(T) \in Nat
         /\ InOrder(T) \in [1..Cardinality(T) -> T]
         /\ Listed(InOrder(T), T)
<1>1. \E s \in [1..Cardinality(T) -> T] : Listed(s, T)
  BY ListingExists, FilesAssumption DEF Files
<1>2. IsFiniteSet(T) /\ Cardinality(T) \in Nat
  <2>1. 0 \in Int /\ 1 \in Int /\ NFiles \in Int
    BY FilesAssumption
  <2>2. IsFiniteSet(Files)
    BY <2>1, FS_Interval DEF Files
  <2>. QED
    BY <2>2, FS_Subset, FS_CardinalityType
<1>. QED
  BY <1>1, <1>2 DEF InOrder, Listed

(* A plan is a sequence of files, each with what is in it; nothing is left *)
(* out of it, and no version comes before a lower one of its domain.       *)
LEMMA PendingIs ==
  ASSUME NEW recorded, NEW files, ContentOk(files),
         NEW domains \in Choices
  PROVE  /\ Pending(recorded, files, domains) \in Seq(MigrationFile)
         /\ PlanOk(Pending(recorded, files, domains), recorded, files)
         /\ Pending(recorded, files, domains) = << >> =>
              Selected(files, domains) \subseteq DOMAIN recorded
<1>. DEFINE S == Selected(files, domains) \ DOMAIN recorded
            due == InOrder(S)
            k == Cardinality(S)
            p == Pending(recorded, files, domains)
<1>1. S \in SUBSET Files /\ S \subseteq DOMAIN files
  BY DEF Selected, ContentOk
<1>2. k \in Nat /\ due \in [1..k -> S] /\ Listed(due, S)
  BY <1>1, InOrderIs
<1>3. p = [i \in 1..k |-> [file |-> due[i], checksum |-> files[due[i]]]]
  BY <1>2 DEF Pending
<1>. HIDE DEF k, due, p
<1>4. \A m \in S : files[m] \in Contents /\ m \in Files
  BY <1>1 DEF ContentOk
<1>5. \A i \in 1..k : due[i] \in S /\ p[i].file = due[i] /\ p[i].checksum = files[due[i]]
  BY <1>2, <1>3
<1>6. p \in Seq(MigrationFile) /\ Len(p) = k
  <2>1. \A i \in 1..k : [file |-> due[i], checksum |-> files[due[i]]] \in MigrationFile
    BY <1>4, <1>5 DEF MigrationFile
  <2>. QED
    BY <1>2, <1>3, <2>1
<1>7. ASSUME NEW i \in 1..k
      PROVE  /\ p[i].file \in DOMAIN files
             /\ \A n \in Files :
                  n < p[i].file /\ Domain[n] = Domain[p[i].file] =>
                    n \in DOMAIN recorded \/ \E j \in 1..(i - 1) : p[j].file = n
  <2>1. p[i].file \in DOMAIN files
    BY <1>1, <1>5
  <2>2. ASSUME NEW n \in Files, n < p[i].file, Domain[n] = Domain[p[i].file],
               n \notin DOMAIN recorded
        PROVE  \E j \in 1..(i - 1) : p[j].file = n
    <3>1. n \in DOMAIN files
      BY <2>1, <2>2 DEF ContentOk
    <3>2. Domain[p[i].file] \in domains
      BY <1>5 DEF Selected
    <3>3. n \in S
      BY <2>2, <3>1, <3>2 DEF Selected
    <3>4. PICK j \in 1..k : due[j] = n
      BY <1>2, <3>3 DEF Listed
    <3>5. due[i] \in Nat /\ n \in Nat /\ n < due[i]
      BY <1>4, <1>5, <2>2 DEF Files
    <3>6. ~(i < j) /\ i # j
      BY <1>2, <3>4, <3>5 DEF Listed
    <3>7. j \in 1..(i - 1)
      BY <1>2, <3>6
    <3>. QED
      BY <1>5, <3>4, <3>7
  <2>. QED
    BY <2>1, <2>2
<1>8. PlanOk(p, recorded, files)
  BY <1>6, <1>7 DEF PlanOk
<1>9. ASSUME p = << >> PROVE Selected(files, domains) \subseteq DOMAIN recorded
  <2>1. k = 0
    BY <1>2, <1>6, <1>9
  <2>2. S = {}
    BY <1>2, <2>1 DEF Listed
  <2>. QED
    BY <2>2
<1>. QED
  BY <1>6, <1>8, <1>9 DEF p

(* `create' adds the lowest version that the domain lacks.                 *)
LEMMA CreateIs ==
  ASSUME NEW files, ContentOk(files),
         NEW d \in Domains, MayCreate(files, d)
  PROVE  /\ ContentOk(create_migration(files, d))
         /\ DOMAIN files \subseteq DOMAIN create_migration(files, d)
         /\ \A m \in DOMAIN files : create_migration(files, d)[m] = files[m]
<1>. DEFINE open == {m \in Files \ DOMAIN files : Domain[m] = d}
<1>1. open \in SUBSET Nat /\ open # {}
  BY DEF MayCreate, Files
<1>. DEFINE IsNext(m) == /\ Domain[m] = d
                         /\ \A n \in Files : n < m /\ Domain[n] = d => n \in DOMAIN files
<1>2. \E m \in Files \ DOMAIN files : IsNext(m)
  <2>1. PICK m \in open : \A n \in open : m <= n
    BY <1>1, LeastElement
  <2>2. \A n \in Files : n < m => n \notin open
    BY <1>1, <2>1 DEF Files
  <2>. QED
    BY <2>1, <2>2
<1>. DEFINE m == next_version(files, d)
<1>3. m \in Files \ DOMAIN files /\ IsNext(m)
  BY <1>2 DEF next_version
<1>. DEFINE after == create_migration(files, d)
<1>4. after = [x \in DOMAIN files \cup {m} |-> IF x \in DOMAIN files THEN files[x] ELSE 0]
  BY DEF create_migration
<1>. HIDE DEF m, after
<1>5. \A x \in DOMAIN files : after[x] = files[x]
  BY <1>4
<1>6. after[m] = 0 /\ DOMAIN after = DOMAIN files \cup {m}
  BY <1>3, <1>4
<1>7. ContentOk(after)
  <2>1. \A x \in DOMAIN after : after[x] \in Contents
    BY <1>5, <1>6, FilesAssumption DEF ContentOk
  <2>2. \A x \in DOMAIN after, n \in Files :
          n < x /\ Domain[n] = Domain[x] => n \in DOMAIN after
    BY <1>3, <1>6 DEF ContentOk
  <2>. QED
    BY <1>3, <1>6, <2>1, <2>2 DEF ContentOk
<1>. QED
  BY <1>5, <1>6, <1>7 DEF after

------------------------------------------------------------------------------
Pcs == Locked \cup {"idle", "lock"}

RunState == [pc : Pcs, mode : {"apply", "baseline"}, pending : Seq(MigrationFile)]

RunRow == [status : {"NONE", "RUNNING", "SUCCESS", "FAILED"}, planned : SUBSET Files]

RunsTyped ==
  /\ run \in [Runners -> RunState]
  /\ runs \in [Runners -> RunRow]
  /\ lock \in Runners \cup {None}
  /\ faults \in Nat

TablesTyped ==
  /\ ContentOk(content)
  /\ DOMAIN registry \subseteq Files
  /\ \A m \in DOMAIN registry : registry[m] \in Contents
  /\ effects \in [Files -> SUBSET Contents]
  /\ baselined \subseteq Files /\ swapped \subseteq Files
  /\ edits \in Nat

(* A file took effect; with the text of this checksum, unless an edit came *)
(* between a plan and its execution.                                       *)
Executed(m, checksum) ==
  /\ effects[m] # {}
  /\ checksum \in effects[m] \/ m \in swapped

(* What a run knows from its plan and from what it did, with its row in    *)
(* migration_runs.                                                         *)
StillTrue(c, row) ==
  /\ PlanOk(c.pending, registry, content)
  /\ c.pc \in {"execute", "record"} => c.pending # << >>
  /\ c.pc = "finish" => c.pending = << >>
  /\ c.pc \in {"begin", "execute", "finish", "failed"} => c.mode = "apply"
  /\ c.pc = "record" /\ c.mode = "apply" =>
       Executed(c.pending[1].file, c.pending[1].checksum)
  /\ c.pc \in {"execute", "record", "finish"} /\ c.mode = "apply" =>
       row.planned \subseteq DOMAIN registry \cup PlannedFiles(c.pending)
  /\ row.status = "SUCCESS" => row.planned \subseteq DOMAIN registry

PlansStillTrue == \A r \in Runners : StillTrue(run[r], runs[r])

(* What is recorded was baselined, or took effect.                         *)
RegistryTrue ==
  \A m \in DOMAIN registry :
    /\ m \in DOMAIN content
    /\ m \in baselined \/ Executed(m, registry[m])

MigrationInv ==
  /\ TablesTyped /\ RunsTyped /\ LockExact
  /\ PlansStillTrue /\ RegistryTrue /\ VersionsInOrder

(* What no step takes back.                                                *)
OnlyGrows ==
  /\ DOMAIN content \subseteq DOMAIN content'
  /\ DOMAIN registry \subseteq DOMAIN registry'
  /\ \A m \in DOMAIN registry : registry'[m] = registry[m]
  /\ \A m \in Files : effects[m] \subseteq effects'[m]
  /\ baselined \subseteq baselined' /\ swapped \subseteq swapped'

------------------------------------------------------------------------------
(* What was executed stays executed.                                       *)
LEMMA ExecutedStable ==
  ASSUME OnlyGrows, NEW m \in Files, NEW checksum, Executed(m, checksum)
  PROVE  Executed(m, checksum)'
BY DEF OnlyGrows, Executed

(* What a run relies on is not undone by the steps of the others.          *)
LEMMA StillTrueStable ==
  ASSUME TablesTyped, TablesTyped', OnlyGrows,
         NEW c \in RunState, NEW row \in RunRow, StillTrue(c, row)
  PROVE  StillTrue(c, row)'
<1>1. c.pending \in Seq(MigrationFile)
  BY DEF RunState
<1>2. \A i \in 1..Len(c.pending) : c.pending[i].file \in Files
  <2>1. \A i \in 1..Len(c.pending) : c.pending[i] \in MigrationFile
    BY <1>1
  <2>. QED
    BY <2>1 DEF MigrationFile
<1>3. PlanOk(c.pending, registry, content)'
  <2>1. PlanOk(c.pending, registry, content)
    BY DEF StillTrue
  <2>. QED
    BY <2>1 DEF PlanOk, OnlyGrows
<1>4. c.pc = "record" /\ c.mode = "apply" =>
        Executed(c.pending[1].file, c.pending[1].checksum)'
  <2>. SUFFICES ASSUME c.pc = "record", c.mode = "apply"
                PROVE  Executed(c.pending[1].file, c.pending[1].checksum)'
    OBVIOUS
  <2>1. c.pending # << >> /\ Executed(c.pending[1].file, c.pending[1].checksum)
    BY DEF StillTrue
  <2>2. 1 \in 1..Len(c.pending)
    BY <1>1, <2>1
  <2>3. c.pending[1].file \in Files
    BY <1>2, <2>2
  <2>. QED
    BY <2>1, <2>3, ExecutedStable
<1>. QED
  BY <1>3, <1>4 DEF StillTrue, OnlyGrows, PlannedFiles

(* A step of one runner that takes nothing back keeps what the other runs  *)
(* rely on.                                                                *)
LEMMA OthersKept ==
  ASSUME RunsTyped, TablesTyped, TablesTyped', PlansStillTrue, OnlyGrows, NEW r \in Runners,
         \A u \in Runners : u # r => run'[u] = run[u] /\ runs'[u] = runs[u],
         StillTrue(run[r], runs[r])'
  PROVE  PlansStillTrue'
<1>1. \A u \in Runners : run[u] \in RunState /\ runs[u] \in RunRow
  BY DEF RunsTyped
<1>2. \A u \in Runners : u # r => StillTrue(run[u], runs[u])'
  BY <1>1, StillTrueStable DEF PlansStillTrue
<1>. QED
  BY <1>2 DEF PlansStillTrue

(* A run goes on, with its plan or with the rest of it.                    *)
LEMMA Goto ==
  ASSUME RunsTyped, NEW r \in Runners, NEW STATE pc, pc \in Pcs,
         run' = [run EXCEPT ![r].pc = pc]
  PROVE  /\ run' \in [Runners -> RunState]
         /\ run'[r].pc = pc /\ run'[r].mode = run[r].mode
         /\ run'[r].pending = run[r].pending
         /\ \A u \in Runners : u # r => run'[u] = run[u]
<1>. DEFINE c == [run[r] EXCEPT !.pc = pc]
<1>1. c \in RunState
  BY DEF RunState, RunsTyped
<1>2. c.pc = pc /\ c.mode = run[r].mode /\ c.pending = run[r].pending
  BY DEF RunState, RunsTyped
<1>3. run' = [run EXCEPT ![r] = c]
  OBVIOUS
<1>. HIDE DEF c
<1>. QED
  BY <1>1, <1>2, <1>3 DEF RunsTyped

(* A run goes on with the rest of its plan.                                *)
LEMMA GotoRest ==
  ASSUME RunsTyped, NEW r \in Runners, NEW STATE pc, pc \in Pcs,
         NEW STATE rest, rest \in Seq(MigrationFile),
         run' = [run EXCEPT ![r].pending = rest, ![r].pc = pc]
  PROVE  /\ run' \in [Runners -> RunState]
         /\ run'[r].pc = pc /\ run'[r].mode = run[r].mode
         /\ run'[r].pending = rest
         /\ \A u \in Runners : u # r => run'[u] = run[u]
<1>. DEFINE c == [run[r] EXCEPT !.pending = rest, !.pc = pc]
<1>1. c \in RunState
  BY DEF RunState, RunsTyped
<1>2. c.pc = pc /\ c.mode = run[r].mode /\ c.pending = rest
  BY DEF RunState, RunsTyped
<1>3. run' = [run EXCEPT ![r] = c]
  BY DEF RunState, RunsTyped
<1>. HIDE DEF c
<1>. QED
  BY <1>1, <1>2, <1>3 DEF RunsTyped

(* A run begins or ends.                                                   *)
LEMMA Becomes ==
  ASSUME RunsTyped, NEW r \in Runners, NEW STATE c, c \in RunState,
         run' = [run EXCEPT ![r] = c]
  PROVE  /\ run' \in [Runners -> RunState]
         /\ run'[r] = c
         /\ \A u \in Runners : u # r => run'[u] = run[u]
BY DEF RunsTyped

(* A runner that does nothing.                                             *)
LEMMA IdleTyped == Idle \in RunState /\ Idle.pc = "idle" /\ Idle.pending = << >>
<1>1. << >> \in Seq(MigrationFile)
  OBVIOUS
<1>. QED
  BY <1>1 DEF Idle, RunState, Pcs

(* Where a run goes on, by what is left of its plan.                       *)
LEMMA NextStepTyped ==
  ASSUME NEW STATE mode, mode \in {"apply", "baseline"}, NEW STATE pending
  PROVE  /\ NextStep(mode, pending) \in Pcs \cap Locked
         /\ mode = "apply" /\ pending = << >> => NextStep(mode, pending) = "finish"
         /\ mode = "apply" /\ pending # << >> => NextStep(mode, pending) = "execute"
         /\ mode = "baseline" /\ pending = << >> => NextStep(mode, pending) = "unlock"
         /\ mode = "baseline" /\ pending # << >> => NextStep(mode, pending) = "record"
BY DEF NextStep, Pcs, Locked

(* A step that writes neither a file nor a table but migration_runs.       *)
LEMMA TablesKept ==
  ASSUME MigrationInv, UNCHANGED <<content, registry, effects, baselined, edits, swapped>>
  PROVE  TablesTyped' /\ RegistryTrue' /\ VersionsInOrder' /\ OnlyGrows
<1>1. TablesTyped'
  BY DEF MigrationInv, TablesTyped, ContentOk
<1>2. RegistryTrue' /\ VersionsInOrder'
  BY DEF MigrationInv, RegistryTrue, VersionsInOrder, Executed
<1>3. OnlyGrows
  BY DEF MigrationInv, TablesTyped, ContentOk, OnlyGrows
<1>. QED
  BY <1>1, <1>2, <1>3

(* Nobody gains or loses the lock.                                         *)
LEMMA LockKept ==
  ASSUME MigrationInv, NEW r \in Runners, lock' = lock,
         run[r].pc \in Locked <=> run'[r].pc \in Locked,
         \A u \in Runners : u # r => run'[u] = run[u]
  PROVE  LockExact'
BY DEF MigrationInv, LockExact

(* A run ends, and with it its connection and its lock.                    *)
LEMMA LockGone ==
  ASSUME MigrationInv, NEW r \in Runners, lock' = Unlocked(r), run' = [run EXCEPT ![r] = Idle]
  PROVE  LockExact' /\ lock' \in Runners \cup {None}
<1>1. run'[r].pc = "idle" /\ \A u \in Runners : u # r => run'[u] = run[u]
  BY IdleTyped DEF MigrationInv, RunsTyped
<1>2. lock' \in Runners \cup {None} /\ lock' # r /\ \A u \in Runners : u # r => (lock' = u <=> lock = u)
  BY MigrationsAssumption DEF Unlocked, MigrationInv, RunsTyped
<1>3. "idle" \notin Locked
  BY DEF Locked
<1>. QED
  BY <1>1, <1>2, <1>3 DEF MigrationInv, LockExact

(* The first file of a plan, and the rest.                                 *)
LEMMA TailIs ==
  ASSUME NEW p \in Seq(MigrationFile), p # << >>
  PROVE  /\ Tail(p) \in Seq(MigrationFile)
         /\ Len(p) \in Nat /\ Len(Tail(p)) = Len(p) - 1
         /\ \A i \in 1..(Len(p) - 1) : Tail(p)[i] = p[i + 1]
         /\ 1 \in 1..Len(p) /\ Head(p) = p[1]
         /\ p[1].file \in Files /\ p[1].checksum \in Contents
         /\ PlannedFiles(p) = {p[1].file} \cup PlannedFiles(Tail(p))
<1>1. /\ Tail(p) \in Seq(MigrationFile)
      /\ Len(p) \in Nat /\ Len(Tail(p)) = Len(p) - 1
      /\ \A i \in 1..(Len(p) - 1) : Tail(p)[i] = p[i + 1]
      /\ 1 \in 1..Len(p) /\ Head(p) = p[1] /\ p[1] \in MigrationFile
  OBVIOUS
<1>2. ASSUME NEW i \in 1..Len(p), i # 1 PROVE i - 1 \in 1..(Len(p) - 1) /\ Tail(p)[i - 1] = p[i]
  <2>1. i - 1 \in 1..(Len(p) - 1) /\ (i - 1) + 1 = i
    BY <1>1, <1>2
  <2>. QED
    BY <1>1, <2>1
<1>3. ASSUME NEW i \in 1..(Len(p) - 1) PROVE i + 1 \in 1..Len(p)
  BY <1>1
<1>4. PlannedFiles(p) = {p[1].file} \cup PlannedFiles(Tail(p))
  BY <1>1, <1>2, <1>3 DEF PlannedFiles
<1>. QED
  BY <1>1, <1>4 DEF MigrationFile

------------------------------------------------------------------------------
(* One step of each kind.                                                  *)
LEMMA PlanStep ==
  ASSUME MigrationInv, NEW r \in Runners, NEW domains \in Choices,
         PlanApply(r, domains) \/ PlanBaseline(r, domains)
  PROVE  MigrationInv'
<1>. DEFINE p == Pending(registry, content, domains)
<1>1. p \in Seq(MigrationFile) /\ PlanOk(p, registry, content)
  BY PendingIs DEF MigrationInv, TablesTyped
<1>2. Plan(domains).pending = p
  BY DEF Plan, build_plan
<1>3. PICK mode \in {"apply", "baseline"} :
        run' = [run EXCEPT ![r] = [pc |-> "lock", mode |-> mode, pending |-> p]]
  BY <1>2 DEF PlanApply, PlanBaseline
<1>4. UNCHANGED <<content, registry, effects, baselined, lock, runs, edits, faults, swapped>>
      /\ run[r].pc = "idle"
  BY DEF PlanApply, PlanBaseline
<1>. HIDE DEF p
<1>5. [pc |-> "lock", mode |-> mode, pending |-> p] \in RunState
  BY <1>1 DEF RunState, Pcs
<1>6. /\ run' \in [Runners -> RunState]
      /\ run'[r] = [pc |-> "lock", mode |-> mode, pending |-> p]
      /\ \A u \in Runners : u # r => run'[u] = run[u]
  BY <1>3, <1>5, Becomes DEF MigrationInv
<1>7. TablesTyped' /\ RegistryTrue' /\ VersionsInOrder' /\ OnlyGrows
  BY <1>4, TablesKept
<1>8. StillTrue(run[r], runs[r])'
  <2>1. runs[r].status = "SUCCESS" => runs[r].planned \subseteq DOMAIN registry
    BY DEF MigrationInv, PlansStillTrue, StillTrue
  <2>. QED
    BY <1>1, <1>4, <1>6, <2>1 DEF StillTrue
<1>9. PlansStillTrue'
  BY <1>4, <1>6, <1>7, <1>8, OthersKept DEF MigrationInv
<1>10. LockExact'
  <2>1. run[r].pc \notin Locked /\ run'[r].pc \notin Locked
    BY <1>4, <1>6 DEF Locked
  <2>. QED
    BY <1>4, <1>6, <2>1, LockKept
<1>11. RunsTyped'
  BY <1>4, <1>6 DEF MigrationInv, RunsTyped
<1>. QED
  BY <1>7, <1>9, <1>10, <1>11 DEF MigrationInv

(* The lock is taken.                                                      *)
LEMMA AcquireStep ==
  ASSUME MigrationInv, NEW r \in Runners, acquire_lock(r)
  PROVE  MigrationInv'
<1>1. UNCHANGED <<content, registry, effects, baselined, runs, edits, faults, swapped>>
      /\ run[r].pc = "lock" /\ lock = None /\ lock' = r
  BY DEF acquire_lock
<1>. DEFINE pc == IF run[r].mode = "apply" THEN "begin" ELSE NextStep("baseline", run[r].pending)
<1>2. pc \in Pcs \cap Locked
  BY NextStepTyped DEF Pcs, Locked
<1>3. run' = [run EXCEPT ![r].pc = pc]
  BY DEF acquire_lock
<1>4. pc \in {"begin", "record", "unlock"}
  BY DEF NextStep
<1>5. (pc = "begin" => run[r].mode = "apply") /\ (pc = "record" => run[r].pending # << >> /\ run[r].mode # "apply")
  BY DEF NextStep
<1>. HIDE DEF pc
<1>6. /\ run' \in [Runners -> RunState]
      /\ run'[r].pc = pc /\ run'[r].mode = run[r].mode
      /\ run'[r].pending = run[r].pending
      /\ \A u \in Runners : u # r => run'[u] = run[u]
  BY <1>2, <1>3, Goto DEF MigrationInv
<1>7. TablesTyped' /\ RegistryTrue' /\ VersionsInOrder' /\ OnlyGrows
  BY <1>1, TablesKept
<1>8. StillTrue(run[r], runs[r])'
  <2>1. /\ PlanOk(run[r].pending, registry, content)
        /\ runs[r].status = "SUCCESS" => runs[r].planned \subseteq DOMAIN registry
    BY DEF MigrationInv, PlansStillTrue, StillTrue
  <2>. QED
    BY <1>1, <1>4, <1>5, <1>6, <2>1 DEF StillTrue
<1>9. PlansStillTrue'
  BY <1>1, <1>6, <1>7, <1>8, OthersKept DEF MigrationInv
<1>10. LockExact'
  <2>1. \A u \in Runners : u # r => run[u].pc \notin Locked
    BY <1>1, MigrationsAssumption DEF MigrationInv, LockExact
  <2>. QED
    BY <1>1, <1>2, <1>6, <2>1 DEF LockExact
<1>11. RunsTyped'
  BY <1>1, <1>6 DEF MigrationInv, RunsTyped
<1>. QED
  BY <1>7, <1>9, <1>10, <1>11 DEF MigrationInv

(* migration_runs gets its row.                                            *)
LEMMA InsertRunStep ==
  ASSUME MigrationInv, NEW r \in Runners, InsertRun(r)
  PROVE  MigrationInv'
<1>. DEFINE pc == NextStep("apply", run[r].pending)
            row == [status |-> "RUNNING", planned |-> PlannedFiles(run[r].pending)]
<1>1. UNCHANGED <<content, registry, effects, baselined, lock, edits, faults, swapped>>
      /\ run[r].pc = "begin"
      /\ run' = [run EXCEPT ![r].pc = pc] /\ runs' = [runs EXCEPT ![r] = row]
  BY DEF InsertRun
<1>2. run[r] \in RunState /\ run[r].pending \in Seq(MigrationFile)
  BY DEF MigrationInv, RunsTyped, RunState
<1>3. row \in RunRow
  <2>1. PlannedFiles(run[r].pending) \in SUBSET Files
    <3>1. \A i \in 1..Len(run[r].pending) : run[r].pending[i] \in MigrationFile
      BY <1>2
    <3>2. \A i \in 1..Len(run[r].pending) : run[r].pending[i].file \in Files
      BY <3>1 DEF MigrationFile
    <3>. QED
      BY <3>2 DEF PlannedFiles
  <2>. QED
    BY <2>1 DEF RunRow
<1>4. pc \in Pcs \cap Locked /\ pc \in {"finish", "execute"}
      /\ (pc = "finish" <=> run[r].pending = << >>)
  BY NextStepTyped DEF NextStep
<1>5. run[r].mode = "apply" /\ PlanOk(run[r].pending, registry, content)
  BY <1>1 DEF MigrationInv, PlansStillTrue, StillTrue
<1>. HIDE DEF pc, row
<1>6. /\ run' \in [Runners -> RunState]
      /\ run'[r].pc = pc /\ run'[r].mode = run[r].mode
      /\ run'[r].pending = run[r].pending
      /\ \A u \in Runners : u # r => run'[u] = run[u]
  BY <1>1, <1>4, Goto DEF MigrationInv
<1>7. TablesTyped' /\ RegistryTrue' /\ VersionsInOrder' /\ OnlyGrows
  BY <1>1, TablesKept
<1>8. runs' \in [Runners -> RunRow] /\ runs'[r] = row
      /\ \A u \in Runners : u # r => runs'[u] = runs[u]
  BY <1>1, <1>3 DEF MigrationInv, RunsTyped
<1>9. StillTrue(run[r], runs[r])'
  <2>1. runs'[r].status = "RUNNING" /\ runs'[r].planned = PlannedFiles(run'[r].pending)
    BY <1>6, <1>8 DEF row
  <2>. QED
    BY <1>1, <1>4, <1>5, <1>6, <2>1 DEF StillTrue
<1>10. PlansStillTrue'
  BY <1>1, <1>6, <1>7, <1>8, <1>9, OthersKept DEF MigrationInv
<1>11. LockExact'
  BY <1>1, <1>4, <1>6, LockKept DEF Locked
<1>12. RunsTyped'
  BY <1>1, <1>6, <1>8 DEF MigrationInv, RunsTyped
<1>. QED
  BY <1>7, <1>10, <1>11, <1>12 DEF MigrationInv

(* Steps that only change where the run is, keeping the lock.              *)
LEMMA FailingStep ==
  ASSUME MigrationInv, NEW r \in Runners,
         StatementFails(r) \/ BaselineFails(r) \/ FinishRun(r) \/ FailRun(r)
  PROVE  MigrationInv'
<1>1. UNCHANGED <<content, registry, effects, baselined, lock, edits, swapped>>
      /\ run[r].pc \in {"execute", "record", "finish", "failed"}
  BY DEF StatementFails, BaselineFails, FinishRun, FailRun
<1>2. faults' \in Nat
  BY MigrationsAssumption DEF StatementFails, BaselineFails, FinishRun, FailRun, MigrationInv, RunsTyped
<1>3. PICK pc \in {"failed", "unlock"} :
        /\ run' = [run EXCEPT ![r].pc = pc]
        /\ pc = "failed" => run[r].mode = "apply"
  BY DEF StatementFails, BaselineFails, FinishRun, FailRun
<1>4. /\ run' \in [Runners -> RunState]
      /\ run'[r].pc = pc /\ run'[r].mode = run[r].mode
      /\ run'[r].pending = run[r].pending
      /\ \A u \in Runners : u # r => run'[u] = run[u]
  <2>1. pc \in Pcs
    BY DEF Pcs, Locked
  <2>. QED
    BY <1>3, <2>1, Goto DEF MigrationInv
<1>5. /\ runs' \in [Runners -> RunRow]
      /\ \A u \in Runners : u # r => runs'[u] = runs[u]
      /\ runs'[r].planned = runs[r].planned
      /\ runs'[r].status = "SUCCESS" => runs[r].status = "SUCCESS" \/ run[r].pc = "finish"
  <2>1. CASE runs' = runs
    BY <2>1 DEF MigrationInv, RunsTyped
  <2>2. CASE FinishRun(r)
    <3>. DEFINE row == [runs[r] EXCEPT !.status = "SUCCESS"]
    <3>1. row \in RunRow /\ row.planned = runs[r].planned
      BY DEF MigrationInv, RunsTyped, RunRow
    <3>2. runs' = [runs EXCEPT ![r] = row] /\ run[r].pc = "finish"
      BY <2>2 DEF FinishRun
    <3>. HIDE DEF row
    <3>. QED
      BY <3>1, <3>2 DEF MigrationInv, RunsTyped
  <2>3. CASE FailRun(r)
    <3>. DEFINE row == [runs[r] EXCEPT !.status = "FAILED"]
    <3>1. row \in RunRow /\ row.planned = runs[r].planned /\ row.status = "FAILED"
      BY DEF MigrationInv, RunsTyped, RunRow
    <3>2. runs' = [runs EXCEPT ![r] = row]
      BY <2>3 DEF FailRun
    <3>. HIDE DEF row
    <3>. QED
      BY <3>1, <3>2 DEF MigrationInv, RunsTyped
  <2>. QED
    BY <2>1, <2>2, <2>3 DEF StatementFails, BaselineFails
<1>6. TablesTyped' /\ RegistryTrue' /\ VersionsInOrder' /\ OnlyGrows
  BY <1>1, TablesKept
<1>7. StillTrue(run[r], runs[r])
  BY DEF MigrationInv, PlansStillTrue
<1>8. runs'[r].status = "SUCCESS" => runs'[r].planned \subseteq DOMAIN registry
  <2>1. CASE run[r].pc = "finish"
    <3>1. PlannedFiles(<< >>) = {}
      BY DEF PlannedFiles
    <3>. QED
      BY <1>5, <1>7, <2>1, <3>1 DEF StillTrue
  <2>. QED
    BY <1>5, <1>7, <2>1 DEF StillTrue
<1>9. StillTrue(run[r], runs[r])'
  BY <1>1, <1>3, <1>4, <1>7, <1>8 DEF StillTrue
<1>10. PlansStillTrue'
  BY <1>1, <1>4, <1>5, <1>6, <1>9, OthersKept DEF MigrationInv
<1>11. LockExact'
  BY <1>1, <1>4, LockKept DEF Locked
<1>12. RunsTyped'
  BY <1>1, <1>2, <1>4, <1>5 DEF MigrationInv, RunsTyped
<1>. QED
  BY <1>6, <1>10, <1>11, <1>12 DEF MigrationInv

(* A run ends or dies.                                                     *)
LEMMA EndingStep ==
  ASSUME MigrationInv, NEW r \in Runners, ExecuteFails(r) \/ release_lock(r) \/ Crash(r)
  PROVE  MigrationInv'
<1>1. UNCHANGED <<content, registry, effects, baselined, runs, edits, swapped>>
      /\ run' = [run EXCEPT ![r] = Idle] /\ lock' = Unlocked(r)
  BY DEF ExecuteFails, release_lock, Crash
<1>2. faults' \in Nat
  BY DEF ExecuteFails, release_lock, Crash, MigrationInv, RunsTyped
<1>3. /\ run' \in [Runners -> RunState]
      /\ run'[r] = Idle
      /\ \A u \in Runners : u # r => run'[u] = run[u]
  BY <1>1, IdleTyped, Becomes DEF MigrationInv
<1>4. TablesTyped' /\ RegistryTrue' /\ VersionsInOrder' /\ OnlyGrows
  BY <1>1, TablesKept
<1>5. StillTrue(run[r], runs[r])'
  <2>1. runs[r].status = "SUCCESS" => runs[r].planned \subseteq DOMAIN registry
    BY DEF MigrationInv, PlansStillTrue, StillTrue
  <2>2. PlanOk(<< >>, registry, content)'
    BY DEF PlanOk
  <2>. QED
    BY <1>1, <1>3, <2>1, <2>2, IdleTyped DEF StillTrue
<1>6. PlansStillTrue'
  BY <1>1, <1>3, <1>4, <1>5, OthersKept DEF MigrationInv
<1>7. LockExact' /\ lock' \in Runners \cup {None}
  BY <1>1, LockGone
<1>8. RunsTyped'
  BY <1>1, <1>2, <1>3, <1>7 DEF MigrationInv, RunsTyped
<1>. QED
  BY <1>4, <1>6, <1>7, <1>8 DEF MigrationInv

(* What a run knows of the first file of its plan.                         *)
LEMMA FirstOfPlan ==
  ASSUME MigrationInv, NEW r \in Runners, run[r].pending # << >>
  PROVE  LET p == run[r].pending  m == p[1].file IN
         /\ p \in Seq(MigrationFile) /\ Head(p) = p[1]
         /\ m \in Files /\ m \in DOMAIN content
         /\ p[1].checksum \in Contents
         /\ content[m] \in Contents
         /\ \A n \in Files : n < m /\ Domain[n] = Domain[m] => n \in DOMAIN registry
<1>. DEFINE p == run[r].pending
            m == p[1].file
<1>1. p \in Seq(MigrationFile)
  BY DEF MigrationInv, RunsTyped, RunState
<1>2. 1 \in 1..Len(p) /\ Head(p) = p[1] /\ p[1].file \in Files /\ p[1].checksum \in Contents
  BY <1>1, TailIs
<1>3. PlanOk(p, registry, content)
  BY DEF MigrationInv, PlansStillTrue, StillTrue
<1>4. m \in DOMAIN content
      /\ \A n \in Files : n < m /\ Domain[n] = Domain[m] => n \in DOMAIN registry
  BY <1>2, <1>3 DEF PlanOk
<1>5. content[m] \in Contents
  BY <1>4, FilesAssumption DEF MigrationInv, TablesTyped, ContentOk
<1>. QED
  BY <1>1, <1>2, <1>4, <1>5

(* A file takes effect.                                                    *)
LEMMA ExecuteStep ==
  ASSUME MigrationInv, NEW r \in Runners, ExecuteFile(r)
  PROVE  MigrationInv'
<1>. DEFINE p == run[r].pending
            m == p[1].file
<1>1. StillTrue(run[r], runs[r])
  BY DEF MigrationInv, PlansStillTrue
<1>2. run[r].pc = "execute" /\ p # << >> /\ run[r].mode = "apply"
  BY <1>1 DEF ExecuteFile, StillTrue
<1>3. /\ p \in Seq(MigrationFile) /\ Head(p) = p[1]
      /\ m \in Files /\ m \in DOMAIN content
      /\ p[1].checksum \in Contents
      /\ content[m] \in Contents
      /\ \A n \in Files : n < m /\ Domain[n] = Domain[m] => n \in DOMAIN registry
  BY <1>2, FirstOfPlan
<1>4. UNCHANGED <<content, registry, baselined, lock, runs, edits, faults>>
      /\ effects' = [effects EXCEPT ![m] = @ \cup {content[m]}]
      /\ swapped' = swapped \cup (IF content[m] = p[1].checksum THEN {} ELSE {m})
      /\ run' = [run EXCEPT ![r].pc = "record"]
  BY <1>3 DEF ExecuteFile
<1>5. effects' \in [Files -> SUBSET Contents] /\ effects'[m] = effects[m] \cup {content[m]}
      /\ \A n \in Files : n # m => effects'[n] = effects[n]
  BY <1>3, <1>4 DEF MigrationInv, TablesTyped
<1>6. /\ run' \in [Runners -> RunState]
      /\ run'[r].pc = "record" /\ run'[r].mode = run[r].mode
      /\ run'[r].pending = run[r].pending
      /\ \A u \in Runners : u # r => run'[u] = run[u]
  <2>1. "record" \in Pcs
    BY DEF Pcs, Locked
  <2>. QED
    BY <1>4, <2>1, Goto DEF MigrationInv
<1>. HIDE DEF m, p
<1>7. TablesTyped'
  BY <1>3, <1>4, <1>5 DEF MigrationInv, TablesTyped, ContentOk
<1>8. OnlyGrows
  BY <1>4, <1>5 DEF MigrationInv, TablesTyped, ContentOk, OnlyGrows
<1>9. RegistryTrue'
  <2>. SUFFICES ASSUME NEW n \in DOMAIN registry
                PROVE  n \in DOMAIN content /\ (n \in baselined \/ Executed(n, registry[n])')
    BY <1>4 DEF RegistryTrue
  <2>1. n \in DOMAIN content /\ n \in Files /\ (n \in baselined \/ Executed(n, registry[n]))
    BY DEF MigrationInv, RegistryTrue, TablesTyped
  <2>2. Executed(n, registry[n]) => Executed(n, registry[n])'
    BY <1>4, <1>8, <2>1 DEF Executed, OnlyGrows
  <2>. QED
    BY <2>1, <2>2
<1>10. VersionsInOrder'
  <2>1. \A n \in DOMAIN registry : n \in baselined \/ effects[n] # {}
    BY DEF MigrationInv, RegistryTrue, Executed
  <2>2. \A n \in Files : effects[n] # {} => effects'[n] # {}
    BY <1>5
  <2>3. \A n \in Files : n < m /\ Domain[n] = Domain[m] => n \in baselined \/ effects'[n] # {}
    BY <1>3, <2>1, <2>2
  <2>. QED
    BY <1>4, <1>5, <2>2, <2>3 DEF MigrationInv, VersionsInOrder
<1>11. StillTrue(run[r], runs[r])'
  <2>1. Executed(p[1].file, p[1].checksum)'
    <3>1. p' = p /\ m' = m
      BY <1>6 DEF p, m
    <3>2. effects'[m] # {}
      BY <1>5
    <3>3. p[1].checksum \in effects'[m] \/ m \in swapped'
      BY <1>4, <1>5
    <3>. QED
      BY <3>1, <3>2, <3>3 DEF Executed, m
  <2>. QED
    BY <1>1, <1>2, <1>4, <1>6, <2>1 DEF StillTrue, p
<1>12. PlansStillTrue'
  BY <1>4, <1>6, <1>7, <1>8, <1>11, OthersKept DEF MigrationInv
<1>13. LockExact'
  BY <1>2, <1>4, <1>6, LockKept DEF Locked
<1>14. RunsTyped'
  BY <1>4, <1>6 DEF MigrationInv, RunsTyped
<1>. QED
  BY <1>7, <1>9, <1>10, <1>12, <1>13, <1>14 DEF MigrationInv

(* The rest of a plan, once its first file is recorded.                    *)
LEMMA RestOfPlan ==
  ASSUME NEW p \in Seq(MigrationFile), p # << >>, NEW before, NEW after, NEW files,
         PlanOk(p, before, files),
         DOMAIN after = DOMAIN before \cup {p[1].file}
  PROVE  PlanOk(Tail(p), after, files)
<1>. DEFINE q == Tail(p)
<1>1. /\ Len(p) \in Nat /\ Len(q) = Len(p) - 1
      /\ \A i \in 1..(Len(p) - 1) : q[i] = p[i + 1]
  BY TailIs
<1>. HIDE DEF q
<1>. SUFFICES ASSUME NEW i \in 1..Len(q)
     PROVE  /\ q[i].file \in DOMAIN files
            /\ \A n \in Files :
                 n < q[i].file /\ Domain[n] = Domain[q[i].file] =>
                   n \in DOMAIN after \/ \E j \in 1..(i - 1) : q[j].file = n
  BY DEF PlanOk, q
<1>2. i \in 1..(Len(p) - 1) /\ i + 1 \in 1..Len(p) /\ (i + 1) - 1 = i
  BY <1>1
<1>3. q[i] = p[i + 1]
  BY <1>1, <1>2
<1>4. /\ p[i + 1].file \in DOMAIN files
      /\ \A n \in Files :
           n < p[i + 1].file /\ Domain[n] = Domain[p[i + 1].file] =>
             n \in DOMAIN before \/ \E j \in 1..i : p[j].file = n
  BY <1>2 DEF PlanOk
<1>5. ASSUME NEW j \in 1..i, j # 1 PROVE j - 1 \in 1..(i - 1) /\ q[j - 1] = p[j]
  <2>1. j - 1 \in 1..(i - 1) /\ j - 1 \in 1..(Len(p) - 1) /\ (j - 1) + 1 = j
    BY <1>1, <1>2, <1>5
  <2>. QED
    BY <1>1, <2>1
<1>6. ASSUME NEW n \in Files, n < q[i].file, Domain[n] = Domain[q[i].file],
             n \notin DOMAIN after
      PROVE  \E j \in 1..(i - 1) : q[j].file = n
  <2>1. n \notin DOMAIN before /\ n # p[1].file
    BY <1>6
  <2>2. PICK j \in 1..i : p[j].file = n
    BY <1>3, <1>4, <1>6, <2>1
  <2>3. j # 1
    BY <2>1, <2>2
  <2>. QED
    BY <1>5, <2>2, <2>3
<1>. QED
  BY <1>3, <1>4, <1>6

(* A file is recorded, executed or not.                                    *)
LEMMA RecordStep ==
  ASSUME MigrationInv, NEW r \in Runners, Record(r) \/ RecordBaseline(r)
  PROVE  MigrationInv'
<1>. DEFINE p == run[r].pending
            m == p[1].file
            rest == Tail(p)
            pc == NextStep(run[r].mode, rest)
<1>1. StillTrue(run[r], runs[r]) /\ run[r] \in RunState
  BY DEF MigrationInv, PlansStillTrue, RunsTyped
<1>2. run[r].pc = "record" /\ p # << >> /\ run[r].mode \in {"apply", "baseline"}
  BY <1>1 DEF Record, RecordBaseline, StillTrue, RunState
<1>3. /\ p \in Seq(MigrationFile) /\ Head(p) = p[1]
      /\ m \in Files /\ m \in DOMAIN content
      /\ p[1].checksum \in Contents
      /\ content[m] \in Contents
      /\ \A n \in Files : n < m /\ Domain[n] = Domain[m] => n \in DOMAIN registry
  BY <1>2, FirstOfPlan
<1>4. /\ UNCHANGED <<content, effects, lock, runs, edits, faults, swapped>>
      /\ registry' = [n \in DOMAIN registry \cup {m} |->
                        IF n \in DOMAIN registry THEN registry[n] ELSE p[1].checksum]
      /\ run' = [run EXCEPT ![r].pending = rest, ![r].pc = pc]
      /\ baselined' = IF run[r].mode = "apply" THEN baselined
                      ELSE baselined \cup ({m} \ DOMAIN registry)
  BY <1>3 DEF Record, RecordBaseline, InsertApplied
<1>5. rest \in Seq(MigrationFile) /\ PlannedFiles(p) = {m} \cup PlannedFiles(rest)
  BY <1>2, <1>3, TailIs
<1>6. PlanOk(rest, registry', content')
  <2>1. PlanOk(p, registry, content)
    BY <1>1 DEF StillTrue
  <2>2. DOMAIN registry' = DOMAIN registry \cup {p[1].file}
    BY <1>4
  <2>3. PlanOk(Tail(p), registry', content)
    BY <1>2, <1>3, <2>1, <2>2, RestOfPlan
  <2>. QED
    BY <1>4, <2>3
<1>7. /\ pc \in Pcs \cap Locked
      /\ run[r].mode = "apply" /\ rest = << >> => pc = "finish"
      /\ run[r].mode = "apply" /\ rest # << >> => pc = "execute"
      /\ run[r].mode = "baseline" /\ rest = << >> => pc = "unlock"
      /\ run[r].mode = "baseline" /\ rest # << >> => pc = "record"
  BY <1>2, NextStepTyped
<1>8. run[r].mode = "apply" => Executed(m, p[1].checksum)
  BY <1>1, <1>2 DEF StillTrue
<1>9. runs[r].status = "SUCCESS" => runs[r].planned \subseteq DOMAIN registry
  BY <1>1 DEF StillTrue
<1>10. run[r].mode = "apply" => runs[r].planned \subseteq DOMAIN registry \cup PlannedFiles(p)
  BY <1>1, <1>2 DEF StillTrue
<1>. HIDE DEF m, p, rest, pc
<1>11. /\ run' \in [Runners -> RunState]
       /\ run'[r].pc = pc /\ run'[r].mode = run[r].mode
       /\ run'[r].pending = rest
       /\ \A u \in Runners : u # r => run'[u] = run[u]
  BY <1>4, <1>5, <1>7, GotoRest DEF MigrationInv
<1>12. /\ DOMAIN registry' = DOMAIN registry \cup {m}
       /\ \A n \in DOMAIN registry : registry'[n] = registry[n]
       /\ m \notin DOMAIN registry => registry'[m] = p[1].checksum
  BY <1>4
<1>13. baselined \subseteq baselined' /\ baselined' \subseteq baselined \cup {m}
       /\ (run[r].mode # "apply" /\ m \notin DOMAIN registry => m \in baselined')
  BY <1>4
<1>14. TablesTyped'
  BY <1>3, <1>4, <1>12, <1>13 DEF MigrationInv, TablesTyped, ContentOk
<1>15. OnlyGrows
  BY <1>4, <1>12, <1>13 DEF MigrationInv, TablesTyped, ContentOk, OnlyGrows
<1>16. RegistryTrue'
  <2>. SUFFICES ASSUME NEW n \in DOMAIN registry'
                PROVE  n \in DOMAIN content
                       /\ (n \in baselined' \/ Executed(n, registry'[n]))
    BY <1>4 DEF RegistryTrue, Executed
  <2>1. CASE n \in DOMAIN registry
    BY <1>12, <1>13, <2>1 DEF MigrationInv, RegistryTrue
  <2>2. CASE n = m /\ m \notin DOMAIN registry
    BY <1>2, <1>3, <1>8, <1>12, <1>13, <2>2
  <2>. QED
    BY <1>12, <2>1, <2>2
<1>17. VersionsInOrder'
  BY <1>3, <1>4, <1>12, <1>13 DEF MigrationInv, VersionsInOrder
<1>18. StillTrue(run[r], runs[r])'
  <2>1. runs'[r] = runs[r]
    BY <1>4
  <2>2. runs[r].status = "SUCCESS" => runs[r].planned \subseteq DOMAIN registry'
    BY <1>9, <1>12
  <2>3. run[r].mode = "apply" => runs[r].planned \subseteq DOMAIN registry' \cup PlannedFiles(rest)
    BY <1>5, <1>10, <1>12
  <2>4. run'[r].pc \notin {"begin", "failed"} /\ (run[r].mode = "apply" => run'[r].pc # "record")
    BY <1>2, <1>7, <1>11
  <2>. QED
    BY <1>2, <1>6, <1>7, <1>11, <2>1, <2>2, <2>3, <2>4 DEF StillTrue
<1>19. PlansStillTrue'
  BY <1>4, <1>11, <1>14, <1>15, <1>18, OthersKept DEF MigrationInv
<1>20. LockExact'
  BY <1>2, <1>4, <1>7, <1>11, LockKept DEF Locked
<1>21. RunsTyped'
  BY <1>4, <1>11 DEF MigrationInv, RunsTyped
<1>. QED
  BY <1>14, <1>16, <1>17, <1>19, <1>20, <1>21 DEF MigrationInv

(* A file is edited or created, whatever the runs are doing.               *)
LEMMA FilesStep ==
  ASSUME MigrationInv,
         \/ \E m \in DOMAIN content : \E text \in Contents : EditFile(m, text)
         \/ \E d \in Domains : cmd_create(d)
  PROVE  MigrationInv'
<1>1. UNCHANGED <<registry, effects, baselined, lock, run, runs, faults, swapped>>
  BY DEF EditFile, cmd_create
<1>2. ContentOk(content)
  BY DEF MigrationInv, TablesTyped
<1>3. /\ ContentOk(content)'
      /\ DOMAIN content \subseteq DOMAIN content'
      /\ edits' \in Nat
  <2>1. ASSUME NEW m \in DOMAIN content, NEW text \in Contents, EditFile(m, text) PROVE <1>3!:
    <3>1. edits' = edits + 1 /\ content' = [content EXCEPT ![m] = text]
      BY <2>1 DEF EditFile
    <3>2. DOMAIN content' = DOMAIN content /\ content'[m] = text
          /\ \A n \in DOMAIN content : n # m => content'[n] = content[n]
      BY <3>1
    <3>3. edits' \in Nat
      BY <3>1 DEF MigrationInv, TablesTyped
    <3>. QED
      BY <1>2, <3>2, <3>3 DEF ContentOk
  <2>2. ASSUME NEW d \in Domains, cmd_create(d) PROVE <1>3!:
    <3>1. MayCreate(content, d) /\ content' = create_migration(content, d) /\ edits' = edits
      BY <2>2 DEF cmd_create
    <3>2. ContentOk(content') /\ DOMAIN content \subseteq DOMAIN content'
      BY <1>2, <3>1, CreateIs
    <3>. QED
      BY <3>1, <3>2 DEF ContentOk, MigrationInv, TablesTyped
  <2>. QED
    BY <2>1, <2>2
<1>4. TablesTyped' /\ OnlyGrows
  BY <1>1, <1>3 DEF MigrationInv, TablesTyped, OnlyGrows
<1>5. PlansStillTrue'
  <2>1. \A u \in Runners : run[u] \in RunState /\ runs[u] \in RunRow
    BY DEF MigrationInv, RunsTyped
  <2>2. \A u \in Runners : StillTrue(run[u], runs[u])'
    BY <1>1, <1>4, <2>1, StillTrueStable DEF MigrationInv, PlansStillTrue
  <2>. QED
    BY <2>2 DEF PlansStillTrue
<1>6. RegistryTrue'
  <2>. SUFFICES ASSUME NEW n \in DOMAIN registry
                PROVE  n \in DOMAIN content' /\ (n \in baselined \/ Executed(n, registry[n])')
    BY <1>1 DEF RegistryTrue
  <2>1. n \in DOMAIN content /\ (n \in baselined \/ Executed(n, registry[n]))
    BY DEF MigrationInv, RegistryTrue
  <2>. QED
    BY <1>1, <1>3, <2>1 DEF Executed
<1>7. VersionsInOrder' /\ LockExact' /\ RunsTyped'
  BY <1>1 DEF MigrationInv, VersionsInOrder, LockExact, RunsTyped
<1>. QED
  BY <1>4, <1>5, <1>6, <1>7 DEF MigrationInv

------------------------------------------------------------------------------
(* The invariant holds at first.                                           *)
LEMMA MigrationInvInit == Init => MigrationInv
<1>. SUFFICES ASSUME Init PROVE MigrationInv
  OBVIOUS
<1>1. TablesTyped
  <2>1. DOMAIN content = Initial /\ \A m \in Initial : content[m] = 0
    BY DEF Init
  <2>2. ContentOk(content)
    BY <2>1, FilesAssumption DEF Init, ContentOk
  <2>3. DOMAIN registry = {}
    BY DEF Init
  <2>. QED
    BY <2>2, <2>3 DEF Init, TablesTyped
<1>2. RunsTyped
  BY IdleTyped DEF Init, RunsTyped, NoRun, RunRow
<1>3. \A r \in Runners : run[r] = Idle /\ runs[r] = NoRun
  BY DEF Init
<1>4. LockExact
  <2>1. "idle" \notin Locked
    BY DEF Locked
  <2>. QED
    BY <1>3, <2>1, IdleTyped, MigrationsAssumption DEF Init, LockExact
<1>5. PlansStillTrue
  <2>1. PlanOk(<< >>, registry, content)
    BY DEF PlanOk
  <2>2. NoRun.status = "NONE"
    BY DEF NoRun
  <2>3. ~("idle" \in {"execute", "record"}) /\ ~("idle" = "finish")
        /\ ~("idle" \in {"begin", "execute", "finish", "failed"})
    OBVIOUS
  <2>. QED
    BY <1>3, <2>1, <2>2, <2>3, IdleTyped DEF PlansStillTrue, StillTrue
<1>6. RegistryTrue /\ VersionsInOrder
  BY DEF Init, RegistryTrue, VersionsInOrder
<1>. QED
  BY <1>1, <1>2, <1>4, <1>5, <1>6 DEF MigrationInv

(* Every step keeps it.                                                    *)
LEMMA MigrationInvNext == MigrationInv /\ [Next]_vars => MigrationInv'
<1>. SUFFICES ASSUME MigrationInv, [Next]_vars PROVE MigrationInv'
  OBVIOUS
<1>1. ASSUME NEW r \in Runners, Command(r) PROVE MigrationInv'
  BY <1>1, PlanStep DEF Command
<1>2. ASSUME NEW r \in Runners, Step(r) PROVE MigrationInv'
  BY <1>2, AcquireStep, InsertRunStep, ExecuteStep, EndingStep, FailingStep, RecordStep DEF Step
<1>3. ASSUME NEW r \in Runners, Crash(r) PROVE MigrationInv'
  BY <1>3, EndingStep
<1>4. CASE UNCHANGED vars
  <2>1. UNCHANGED <<content, registry, effects, baselined, lock, run, runs, edits, faults, swapped>>
    BY <1>4 DEF vars
  <2>2. TablesTyped' /\ RegistryTrue' /\ VersionsInOrder'
    BY <2>1, TablesKept
  <2>3. PlansStillTrue'
    BY <2>1 DEF MigrationInv, PlansStillTrue, StillTrue, Executed, PlanOk
  <2>4. LockExact' /\ RunsTyped'
    BY <2>1 DEF MigrationInv, LockExact, RunsTyped
  <2>. QED
    BY <2>2, <2>3, <2>4 DEF MigrationInv
<1>. QED
  BY <1>1, <1>2, <1>3, <1>4, FilesStep DEF Next

(* Whatever runs overlap, fail or die, and whatever is edited or created   *)
(* meanwhile: what every run knows of its plan stays true, and so does     *)
(* what is recorded.                                                       *)
THEOREM MigrationInvariant == Spec => []MigrationInv
BY MigrationInvInit, MigrationInvNext, PTL DEF Spec

(* The registry, the lock and the rows of migration_runs can be trusted    *)
(* at every moment, for any number of runs, faults and edits: what is      *)
(* recorded was executed or baselined, a run reported SUCCESS recorded all *)
(* it planned, and the lock is held by exactly the run that is past        *)
(* acquire_lock.                                                           *)
THEOREM RegistryIsTrue == Spec => []RegistryInv
<1>1. MigrationInv => RegistryInv
  <2>. SUFFICES ASSUME MigrationInv PROVE RegistryInv
    OBVIOUS
  <2>1. TypeOK
    <3>1. \A m \in DOMAIN content : content[m] \in Contents
      BY FilesAssumption DEF MigrationInv, TablesTyped, ContentOk
    <3>2. \A r \in Runners : run[r] \in RunState /\ runs[r] \in RunRow
      BY DEF MigrationInv, RunsTyped
    <3>3. \A r \in Runners :
           /\ run[r].pc \in Locked \cup {"idle", "lock"}
           /\ run[r].mode \in {"apply", "baseline"}
           /\ run[r].pending \in Seq(MigrationFile)
      BY <3>2 DEF RunState, Pcs
    <3>. QED
      BY <3>1, <3>2, <3>3 DEF TypeOK, MigrationInv, TablesTyped, ContentOk, RunsTyped, RunRow
  <2>2. RecordedWasExecuted
    BY DEF MigrationInv, RegistryTrue, Executed, RecordedWasExecuted
  <2>3. SuccessIsComplete
    BY DEF MigrationInv, PlansStillTrue, StillTrue, SuccessIsComplete
  <2>. QED
    BY <2>1, <2>2, <2>3 DEF RegistryInv, MigrationInv
<1>. QED
  BY <1>1, MigrationInvariant, PTL

(* Versions of a domain take effect, and are recorded, in their order, for *)
(* any number of overlapping runs: the plan is made before the lock is     *)
(* taken, and a stale plan still never skips a version.                    *)
THEOREM VersionsStayInOrder == Spec => []VersionsInOrder
<1>1. MigrationInv => VersionsInOrder
  BY DEF MigrationInv
<1>. QED
  BY <1>1, MigrationInvariant, PTL

(* A verify without drift and without pending files means that each file   *)
(* took effect with the text that is in it, or was baselined, unless a run *)
(* had executed it with another text than it had planned: also if edits    *)
(* are taken back.                                                         *)
THEOREM VerifyIsSound == Spec => []VerifiedIsInPlace
<1>1. MigrationInv => VerifiedIsInPlace
  <2>. SUFFICES ASSUME MigrationInv, NEW domains \in Choices, verify(domains),
                       NEW m \in Selected(content, domains) \ swapped
                PROVE  content[m] \in effects[m] \/ m \in baselined
    BY DEF VerifiedIsInPlace
  <2>1. Drift(registry, content, domains) = {} /\ Pending(registry, content, domains) = << >>
    BY DEF verify, Plan, build_plan
  <2>2. m \in DOMAIN registry
    BY <2>1, PendingIs DEF MigrationInv, TablesTyped
  <2>3. registry[m] = content[m]
    BY <2>1, <2>2 DEF Drift
  <2>. QED
    BY <2>2, <2>3 DEF MigrationInv, RegistryTrue, Executed
<1>. QED
  BY <1>1, MigrationInvariant, PTL

==============================================================================
